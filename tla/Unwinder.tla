-------------------------------- MODULE Unwinder -------------------------------
(***************************************************************************)
(* LibunwindUnwinder::unwind (vignette/src/lib_linux.rs; lib_mac.rs has    *)
(* the same loop): walks up the stacks of suspended threads, one after     *)
(* another, each into a vector that was allocated before its thread was    *)
(* suspended.                                                              *)
(*                                                                         *)
(* libunwind is external: its cursor stands on a frame and unw_step moves  *)
(* it to that frame's caller.  The stack of a thread stopped anywhere need *)
(* not be sound, so the caller relation is any function, with cycles too,  *)
(* and every call of libunwind may fail.                                   *)
(***************************************************************************)
EXTENDS Naturals, Sequences

CONSTANTS
  Code,       \* the instruction pointers a frame can have
  Bottom,     \* the end of the stack: unw_step returns 0
  max_frames  \* the argument of LibunwindUnwinder::new

ASSUME UnwinderAssumption == Bottom \notin Code /\ max_frames \in Nat

VARIABLES
  caller,   \* caller[c]: what unw_step finds above the frame at c
  start,    \* the argument of unwind: where the suspended thread stopped
  cursor,   \* the frame libunwind's cursor stands on
  at,       \* where the walk is
  frames,   \* self.frames
  result    \* "none" before unwind returns, then "Ok" or "Err"

walkVars == <<caller, start, cursor, at, frames, result>>

Stacks == [Code -> Code \cup {Bottom}]

\* with_capacity: the vector has room for exactly max_frames.
capacity == max_frames

\* Between two walks there is no stack to look at.
Idle == at \in {"out", "new"}
Flat == [c \in Code |-> Bottom]
NoStack == caller = Flat /\ start = Bottom /\ cursor = Bottom

WalkTypeOK ==
  /\ at \in {"out", "new", "init", "loop", "get_reg", "done"}
  /\ caller \in Stacks
  /\ Idle => NoStack /\ frames = <<>>
  /\ ~Idle => start \in Code /\ cursor \in Code
  /\ frames \in Seq(Code)
  /\ result \in {"none", "Ok", "Err"}
  /\ result # "none" <=> at = "done"

WalkInit ==
  /\ NoStack
  /\ at = "out"
  /\ frames = <<>>
  /\ result = "none"

\* LibunwindUnwinder::new; one that was made for a call that failed before
\* it could be used has been dropped.
NewUnwinder ==
  /\ Idle
  /\ at' = "new"
  /\ UNCHANGED <<caller, start, cursor, frames, result>>

\* unwind is called for a thread that has stopped at c, on any stack.
Unwind(c) ==
  /\ at = "new"
  /\ at' = "init"
  /\ start' = c /\ cursor' = c
  /\ caller' \in Stacks
  /\ UNCHANGED <<frames, result>>

Finish(r) == at' = "done" /\ result' = r

\* What unwind returned is moved out of the callback.
Taken ==
  /\ at = "done"
  /\ caller' = Flat /\ start' = Bottom /\ cursor' = Bottom
  /\ at' = "out" /\ frames' = <<>> /\ result' = "none"

\* A negative result of libunwind: the error is returned and the frames
\* collected so far are dropped with the unwinder.
Fail(point) ==
  /\ at = point
  /\ Finish("Err")
  /\ frames' = <<>>
  /\ UNCHANGED <<caller, start, cursor>>

InitLocal ==
  /\ at = "init"
  /\ at' = "loop"
  /\ UNCHANGED <<caller, start, cursor, frames, result>>

IsFull_TooLate == Len(frames) = capacity + 1
IsFull_TooEarly == Len(frames) + 1 = capacity

IsFull == Len(frames) = capacity

\* The vector is full: the rest of the stack is left out.
StopFull ==
  /\ at = "loop" /\ IsFull
  /\ Finish("Ok")
  /\ UNCHANGED <<caller, start, cursor, frames>>

\* unw_step returns 0.
StopAtBottom ==
  /\ at = "loop" /\ ~IsFull
  /\ caller[cursor] = Bottom
  /\ Finish("Ok")
  /\ UNCHANGED <<caller, start, cursor, frames>>

\* The first step comes before the first register is read, so the function
\* the thread was executing is not recorded.
Step ==
  /\ at = "loop" /\ ~IsFull
  /\ caller[cursor] # Bottom
  /\ cursor' = caller[cursor]
  /\ at' = "get_reg"
  /\ UNCHANGED <<caller, start, frames, result>>

GetReg_DoesNotPush ==
  /\ at = "get_reg"
  /\ at' = "loop"
  /\ UNCHANGED <<caller, start, cursor, frames, result>>

\* unw_get_reg(UNW_REG_IP) and push.
GetReg ==
  /\ at = "get_reg"
  /\ frames' = Append(frames, cursor)
  /\ at' = "loop"
  /\ UNCHANGED <<caller, start, cursor, result>>

-------------------------------------------------------------------------------

\* libunwind reports an error.
Fails == Fail("init") \/ (~IsFull /\ Fail("loop")) \/ Fail("get_reg")

WalkOn == InitLocal \/ StopFull \/ StopAtBottom \/ Step \/ GetReg

WalkNext == NewUnwinder \/ (\E c \in Code : Unwind(c)) \/ WalkOn \/ Fails \/ Taken

WalkSpec == WalkInit /\ [][WalkNext]_walkVars

-------------------------------------------------------------------------------
(* Properties                                                              *)

Walking == at \in {"init", "loop", "get_reg"}

\* push never finds the vector full, so it never allocates: the walk is
\* done while the target is suspended, maybe inside the allocator
\* (lib_linux.rs:299, "Move semantics OK as there is no allocation").
NoAllocation == Len(frames) <= capacity

\* The frames are one stretch of the call chain: it begins with the function
\* the thread was executing or with its caller (BeginsAtBottom says which is
\* meant), and each frame is the caller of the one before, so that none is
\* left out or out of turn.
CallersInOrder ==
  \A k \in DOMAIN frames :
    IF k = 1 THEN frames[k] \in {start, caller[start]}
    ELSE frames[k] = caller[frames[k - 1]]

\* The first frame is the function the thread was executing
\* (lib_linux.rs:251, "The collection begins from the bottom-most function on
\* the stack").
BeginsAtBottom == frames # <<>> => frames[1] = start

\* Ok means that nothing more could be collected: the vector is full or the
\* stack has ended.
OkIsComplete ==
  result = "Ok" =>
    \/ Len(frames) = capacity
    \/ caller[IF frames = <<>> THEN start ELSE frames[Len(frames)]] = Bottom

\* A walk ends on every stack, on one that goes in circles too.
UnwindReturns == Walking ~> at = "done"

\* What the loop may still do: for each frame there is room for, one step and
\* one register.
StepsLeft ==
  LET room == capacity - Len(frames)
  IN [init |-> 2 * room + 2, loop |-> 2 * room + 1,
      get_reg |-> 2 * room, done |-> 0][at]

\* Every step brings the walk nearer to its end, so the target is suspended
\* for at most 2 * max_frames + 2 of them, however deep, damaged or circular
\* its stack is: the vector is the only thing that ends the loop there.
WalkIsBounded == [][Walking => StepsLeft' \in Nat /\ StepsLeft' < StepsLeft]_walkVars

\* What is true of the cursor between two steps.
CursorInv ==
  LET last == IF frames = <<>> THEN start ELSE frames[Len(frames)] IN
  /\ at \in {"init", "loop"} => cursor = last
  /\ at = "get_reg" => cursor = caller[last] /\ Len(frames) < capacity

===============================================================================
