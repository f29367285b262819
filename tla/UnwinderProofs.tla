----------------------------- MODULE UnwinderProofs ----------------------------
(***************************************************************************)
(* Theorems about Unwinder: what the walk collects, for every size of the  *)
(* vector and every stack, however deep or damaged.                        *)
(***************************************************************************)
EXTENDS Unwinder, TLAPS

\* Every variable keeps its type: the cursor never leaves the stack, and
\* between two walks nothing of the last one is left.
THEOREM UnwinderTypeCorrect == WalkSpec => []WalkTypeOK
<1> USE UnwinderAssumption DEF WalkTypeOK, Idle, NoStack, Flat
<1>1. WalkInit => WalkTypeOK
  BY DEF WalkInit, Stacks
<1>2. WalkTypeOK /\ [WalkNext]_walkVars => WalkTypeOK'
  <2> SUFFICES ASSUME WalkTypeOK, [WalkNext]_walkVars PROVE WalkTypeOK'
    OBVIOUS
  <2>1. CASE NewUnwinder
    BY <2>1 DEF NewUnwinder
  <2>2. ASSUME NEW c \in Code, Unwind(c)
        PROVE  WalkTypeOK'
    BY <2>2 DEF Unwind
  <2>3. CASE InitLocal
    BY <2>3 DEF InitLocal
  <2>4. CASE StopFull \/ StopAtBottom
    BY <2>4 DEF StopFull, StopAtBottom, Finish
  <2>5. CASE Step
    BY <2>5 DEF Step, Stacks
  <2>6. CASE GetReg
    BY <2>6 DEF GetReg
  <2>7. ASSUME NEW point \in {"init", "loop", "get_reg"}, Fail(point)
        PROVE  WalkTypeOK'
    BY <2>7 DEF Fail, Finish
  <2>8. CASE Taken
    BY <2>8 DEF Taken, Stacks
  <2>9. CASE UNCHANGED walkVars
    BY <2>9 DEF walkVars
  <2> QED
    BY <2>1, <2>2, <2>3, <2>4, <2>5, <2>6, <2>7, <2>8, <2>9 DEF WalkNext, WalkOn, Fails
<1> QED
  BY <1>1, <1>2, PTL DEF WalkSpec

Last == IF frames = <<>> THEN start ELSE frames[Len(frames)]

\* Reading the register appends the frame the cursor has stepped to.
LEMMA GetRegExtends ==
  ASSUME WalkTypeOK, CursorInv, NoAllocation, CallersInOrder, GetReg
  PROVE  CursorInv' /\ NoAllocation' /\ CallersInOrder'
<1> USE UnwinderAssumption DEF WalkTypeOK, Idle
<1> DEFINE n == Len(frames)
<1>1. /\ n \in Nat /\ DOMAIN frames = 1 .. n
      /\ frames = <<>> <=> n = 0
      /\ Len(frames') = n + 1 /\ DOMAIN frames' = 1 .. n + 1
      /\ \A k \in 1 .. n : frames'[k] = frames[k]
      /\ frames'[n + 1] = cursor /\ frames' # <<>>
  BY DEF GetReg
<1>2. n < capacity /\ cursor = caller[Last]
  BY DEF GetReg, CursorInv, Last
<1>3. /\ Last = IF n = 0 THEN start ELSE frames[n]
      /\ at' = "loop" /\ UNCHANGED <<caller, start, cursor>>
  BY <1>1 DEF Last, GetReg
<1> HIDE DEF n
<1>4. NoAllocation'
  BY <1>1, <1>2 DEF NoAllocation, capacity
<1>5. CursorInv'
  BY <1>1, <1>3 DEF CursorInv
<1>6. ASSUME NEW k \in DOMAIN frames'
      PROVE  IF k = 1 THEN frames'[k] \in {start, caller[start]}
             ELSE frames'[k] = caller[frames'[k - 1]]
  <2>1. CASE k = n + 1
    BY <1>1, <1>2, <1>3, <2>1
  <2>2. CASE k \in 1 .. n
    <3>1. frames'[k] = frames[k] /\ (k # 1 => frames'[k - 1] = frames[k - 1])
      BY <1>1, <2>2
    <3> QED
      BY <1>1, <2>2, <3>1 DEF CallersInOrder
  <2> QED
    BY <1>1, <1>6, <2>1, <2>2
<1> QED
  BY <1>3, <1>4, <1>5, <1>6 DEF CallersInOrder

\* All safety properties of the walk at once.
THEOREM WalkCorrect ==
  WalkSpec => [](CursorInv /\ NoAllocation /\ CallersInOrder /\ OkIsComplete)
<1> DEFINE Inv == CursorInv /\ NoAllocation /\ CallersInOrder /\ OkIsComplete
<1> USE UnwinderAssumption
<1>1. WalkInit => Inv
  BY DEF WalkInit, CursorInv, NoAllocation, CallersInOrder, OkIsComplete, capacity
<1>2. WalkTypeOK /\ Inv /\ [WalkNext]_walkVars => Inv'
  <2> SUFFICES ASSUME WalkTypeOK, Inv, [WalkNext]_walkVars PROVE Inv'
    OBVIOUS
  <2>1. CASE NewUnwinder
    BY <2>1 DEF NewUnwinder, CursorInv, NoAllocation, CallersInOrder, OkIsComplete
  <2>2. ASSUME NEW c \in Code, Unwind(c)
        PROVE  Inv'
    <3>1. frames = <<>> /\ frames' = <<>> /\ result' = "none"
      BY <2>2 DEF Unwind, WalkTypeOK, Idle
    <3> QED
      BY <2>2, <3>1
      DEF Unwind, CursorInv, NoAllocation, CallersInOrder, OkIsComplete, capacity
  <2>3. CASE InitLocal
    BY <2>3 DEF InitLocal, CursorInv, NoAllocation, CallersInOrder, OkIsComplete
  <2>4. CASE StopFull
    BY <2>4 DEF StopFull, IsFull, Finish, CursorInv, NoAllocation, CallersInOrder, OkIsComplete
  <2>5. CASE StopAtBottom
    BY <2>5 DEF StopAtBottom, Finish, CursorInv, NoAllocation, CallersInOrder, OkIsComplete
  <2>6. CASE Step
    BY <2>6
    DEF Step, IsFull, CursorInv, NoAllocation, CallersInOrder, OkIsComplete, WalkTypeOK, capacity
  <2>7. CASE GetReg
    <3>1. OkIsComplete'
      BY <2>7 DEF GetReg, OkIsComplete, WalkTypeOK
    <3> QED
      BY <2>7, <3>1, GetRegExtends
  <2>8. ASSUME NEW point \in {"init", "loop", "get_reg"}, Fail(point)
        PROVE  Inv'
    BY <2>8 DEF Fail, Finish, CursorInv, NoAllocation, CallersInOrder, OkIsComplete, capacity
  <2>9. CASE Taken
    BY <2>9 DEF Taken, CursorInv, NoAllocation, CallersInOrder, OkIsComplete, capacity
  <2>10. CASE UNCHANGED walkVars
    BY <2>10 DEF walkVars, CursorInv, NoAllocation, CallersInOrder, OkIsComplete
  <2> QED
    BY <2>1, <2>2, <2>3, <2>4, <2>5, <2>6, <2>7, <2>8, <2>9, <2>10 DEF WalkNext, WalkOn, Fails
<1> QED
  BY <1>1, <1>2, UnwinderTypeCorrect, PTL DEF WalkSpec

\* The vector never grows past the room it was created with, so nothing is
\* allocated while the thread is suspended.
THEOREM NeverAllocates == WalkSpec => []NoAllocation
BY WalkCorrect, PTL

\* What is returned with Ok is the whole stack or a full vector.
THEOREM CompleteCorrect == WalkSpec => []OkIsComplete
BY WalkCorrect, PTL

\* Every step of the walk, also of one that fails, leaves fewer to come: the
\* cursor may go in circles, the vector cannot.
THEOREM WalkBounded == WalkSpec => WalkIsBounded
<1> USE UnwinderAssumption DEF WalkTypeOK, capacity, Walking, Idle
<1>1. ASSUME WalkTypeOK, CursorInv, NoAllocation, Walking,
             [WalkNext]_walkVars, ~UNCHANGED walkVars
      PROVE  StepsLeft' \in Nat /\ StepsLeft' < StepsLeft
  <2> DEFINE room == capacity - Len(frames)
  <2>1. /\ room \in Nat
        /\ at = "init" => StepsLeft = 2 * room + 2
        /\ at = "loop" => StepsLeft = 2 * room + 1
        /\ at = "get_reg" => StepsLeft = 2 * room /\ room > 0
    BY <1>1 DEF StepsLeft, NoAllocation, CursorInv
  <2>2. /\ at' = "loop" => StepsLeft' = 2 * room' + 1
        /\ at' = "get_reg" => StepsLeft' = 2 * room'
        /\ at' = "done" => StepsLeft' = 0
    BY DEF StepsLeft
  <2>3. CASE InitLocal
    BY <2>1, <2>2, <2>3 DEF InitLocal
  <2>4. CASE Step
    BY <2>1, <2>2, <2>4 DEF Step
  <2>5. CASE GetReg
    <3>1. room' = room - 1
      BY <1>1, <2>5 DEF GetReg
    <3> QED
      BY <2>1, <2>2, <2>5, <3>1 DEF GetReg
  <2>6. ASSUME at \in {"init", "loop", "get_reg"}, at' = "done"
        PROVE  StepsLeft' \in Nat /\ StepsLeft' < StepsLeft
    BY <2>1, <2>2, <2>6
  <2> QED
    BY <1>1, <2>3, <2>4, <2>5, <2>6
    DEF WalkNext, WalkOn, Fails, NewUnwinder, Unwind, Taken, StopFull, StopAtBottom, Fail, Finish
<1>2. WalkTypeOK /\ CursorInv /\ NoAllocation /\ [WalkNext]_walkVars =>
        [Walking => StepsLeft' \in Nat /\ StepsLeft' < StepsLeft]_walkVars
  BY <1>1
<1> QED
  BY <1>2, UnwinderTypeCorrect, WalkCorrect, PTL DEF WalkSpec, WalkIsBounded

===============================================================================
