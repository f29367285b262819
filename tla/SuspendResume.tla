----------------------------- MODULE SuspendResume -----------------------------
(***************************************************************************)
(* The Linux sampler: Sampler::suspend_and_resume_thread, the SIGPROF      *)
(* handler it meets on the target thread, and the static SHARED_STATE the  *)
(* two use to talk to each other (vignette/src/lib_linux.rs).              *)
(*                                                                         *)
(*   caller                                target                          *)
(*   reset SHARED_STATE                                                    *)
(*   tgkill(SIGPROF) ....... "msg1" .....> copy the context                *)
(*   wait msg2 <.......................... post msg2                       *)
(*   callback(context)                     wait msg3                       *)
(*   post msg3 ..........................>                                 *)
(*   wait msg4 <.......................... post msg4                       *)
(*   clear SHARED_STATE                    return from the handler         *)
(*                                                                         *)
(* Every thread of the process may make a call and may be its target.  A   *)
(* thread is interrupted by its own handler: while the handler runs, the   *)
(* code under it does not move.  The kernel keeps one pending bit per      *)
(* thread (SIGPROF is a standard signal, a second one merges) and blocks   *)
(* SIGPROF while its handler runs (no SA_NODEFER).                         *)
(*                                                                         *)
(* Callers keep the documented contract that no two calls overlap.         *)
(***************************************************************************)
EXTENDS Integers

CONSTANTS
  Thread,           \* the kernel threads of the process
  IP,               \* the places in the program a thread can be at
  None,             \* Option::None
  Mortal,           \* the threads that may terminate
  DebugAssertions,  \* debug_assert! is compiled in (a debug build)
  CallbackMayPanic  \* the callback may panic, as .expect("sample succeeded") can

Context == [thread : Thread, ip : IP]

ASSUME NoneAssumption == None \notin Thread /\ None \notin Nat /\ None \notin Context
ASSUME ConfigAssumption ==
  /\ Mortal \subseteq Thread
  /\ DebugAssertions \in BOOLEAN
  /\ CallbackMayPanic \in BOOLEAN

VARIABLES
  alive,     \* the threads that have not terminated
  ip,        \* ip[t]: where the code of t is
  pc,        \* pc[s]: where s is in suspend_and_resume_thread
  target,    \* target[s]: the argument `thread` of that call
  arg,       \* arg[s]: the copy of the context the callback is given
  handler,   \* handler[t]: where t is in sigprof_handler
  pending,   \* the threads with a SIGPROF not yet delivered
  eintr,     \* the threads whose sem_wait has just failed with EINTR
  msg2, msg3, msg4,  \* SHARED_STATE: a semaphore's value, or None
  context            \* SHARED_STATE: the copied ucontext_t, or None

shared == <<msg2, msg3, msg4, context>>
vars == <<alive, ip, pc, target, arg, handler, pending, eintr, shared>>

CallPoint == {"out", "signal", "wait2", "read", "callback", "post3", "wait4", "clear", "unwrap"}
HandlerPoint == {"none", "copy", "post2", "enter3", "wait3", "post4", "ret", "unwrap"}
Semaphore == Nat \cup {None}

TypeOK ==
  /\ alive \subseteq Thread
  /\ ip \in [Thread -> IP]
  /\ pc \in [Thread -> CallPoint]
  /\ target \in [Thread -> Thread \cup {None}]
  /\ arg \in [Thread -> Context \cup {None}]
  /\ handler \in [Thread -> HandlerPoint]
  /\ pending \subseteq Thread
  /\ eintr \subseteq Thread
  /\ msg2 \in Semaphore
  /\ msg3 \in Semaphore
  /\ msg4 \in Semaphore
  /\ context \in Context \cup {None}

Init ==
  /\ alive = Thread
  /\ ip \in [Thread -> IP]
  /\ pc = [s \in Thread |-> "out"]
  /\ target = [s \in Thread |-> None]
  /\ arg = [s \in Thread |-> None]
  /\ handler = [t \in Thread |-> "none"]
  /\ pending = {}
  /\ eintr = {}
  /\ msg2 = None /\ msg3 = None /\ msg4 = None
  /\ context = None

-------------------------------------------------------------------------------
(* The shared state and the semaphores in it.                              *)

\* What the kernel hands to a handler as its ucontext_t.
ContextOf(t) == [thread |-> t, ip |-> ip[t]]

ResetSharedState_KeepsContext == msg2' = 0 /\ msg3' = 0 /\ msg4' = 0 /\ context' = context

ResetSharedState == msg2' = 0 /\ msg3' = 0 /\ msg4' = 0 /\ context' = None

ClearSharedState_KeepsContext ==
  msg2' = None /\ msg3' = None /\ msg4' = None /\ context' = context

ClearSharedState == msg2' = None /\ msg3' = None /\ msg4' = None /\ context' = None

CanTake_NeverBlocks(sem) == sem # None

\* sem_wait goes through: the semaphore is there and its value is positive.
CanTake(sem) == sem # None /\ sem > 0

\* sem.as_ref().unwrap(): on None it panics, and the step ends at "unwrap".
Unwrap(sem, to) == IF sem = None THEN "unwrap" ELSE to

Taken(sem) == IF sem = None THEN None ELSE sem - 1
Posted(sem) == IF sem = None THEN None ELSE sem + 1

-------------------------------------------------------------------------------
(* Moving one thread by one step of its call, or of its handler.           *)

\* s is alive and not interrupted by its handler.
OnItsOwn(s) == s \in alive /\ handler[s] = "none"

CallStep(s, from, to) ==
  /\ OnItsOwn(s) /\ s \notin eintr
  /\ pc[s] = from
  /\ pc' = [pc EXCEPT ![s] = to]

HandlerStep(t, from, to) ==
  /\ t \in alive /\ t \notin eintr
  /\ handler[t] = from
  /\ handler' = [handler EXCEPT ![t] = to]

-------------------------------------------------------------------------------
(* suspend_and_resume_thread                                               *)

MayTarget_Unchecked(s, t) == TRUE

\* debug_assert!(!thread.is_current_thread()): a failing assertion panics
\* before anything is touched; a release build does not have it.
MayTarget(s, t) == DebugAssertions => s # t

\* Entry and reset_shared_state().  t is any handle the caller holds, of a
\* thread that may have terminated since.
Call(s, t) ==
  /\ \A u \in Thread : pc[u] = "out"
  /\ MayTarget(s, t)
  /\ CallStep(s, "out", "signal")
  /\ target' = [target EXCEPT ![s] = t]
  /\ ResetSharedState
  /\ UNCHANGED <<alive, ip, arg, handler, pending, eintr>>

\* thread.send_signal(SIGPROF): the result of tgkill is not looked at, so
\* for a thread that has terminated (ESRCH) nothing happens.
SendSignal(s) ==
  /\ CallStep(s, "signal", "wait2")
  /\ pending' = pending \cup ({target[s]} \cap alive)
  /\ UNCHANGED <<alive, ip, target, arg, handler, eintr, shared>>

\* msg2.wait_through_intr() returns Ok.
WaitMsg2(s) ==
  /\ CallStep(s, "wait2", Unwrap(msg2, "read"))
  /\ msg2 = None \/ CanTake(msg2)
  /\ msg2' = Taken(msg2)
  /\ UNCHANGED <<alive, ip, target, arg, handler, pending, eintr, msg3, msg4, context>>

\* SHARED_STATE.context.expect("valid context"), copied for the callback.
ReadContext(s) ==
  /\ CallStep(s, "read", Unwrap(context, "callback"))
  /\ arg' = [arg EXCEPT ![s] = context]
  /\ UNCHANGED <<alive, ip, target, handler, pending, eintr, shared>>

CallbackReturns(s) ==
  /\ CallStep(s, "callback", "post3")
  /\ UNCHANGED <<alive, ip, target, arg, handler, pending, eintr, shared>>

\* The callback panics and unwinds through the call: nothing after it runs,
\* the shared state stays as it is and the target is left in its handler.
CallbackPanics(s) ==
  /\ CallbackMayPanic
  /\ CallStep(s, "callback", "out")
  /\ target' = [target EXCEPT ![s] = None]
  /\ arg' = [arg EXCEPT ![s] = None]
  /\ UNCHANGED <<alive, ip, handler, pending, eintr, shared>>

PostMsg3_NoWaitForMsg4(s) ==
  /\ CallStep(s, "post3", Unwrap(msg3, "clear"))
  /\ msg3' = Posted(msg3)
  /\ UNCHANGED <<alive, ip, target, arg, handler, pending, eintr, msg2, msg4, context>>

PostMsg3_Forgotten(s) ==
  /\ CallStep(s, "post3", "wait4")
  /\ UNCHANGED <<alive, ip, target, arg, handler, pending, eintr, shared>>

PostMsg3(s) ==
  /\ CallStep(s, "post3", Unwrap(msg3, "wait4"))
  /\ msg3' = Posted(msg3)
  /\ UNCHANGED <<alive, ip, target, arg, handler, pending, eintr, msg2, msg4, context>>

\* msg4.wait_through_intr() returns Ok.
WaitMsg4(s) ==
  /\ CallStep(s, "wait4", Unwrap(msg4, "clear"))
  /\ msg4 = None \/ CanTake(msg4)
  /\ msg4' = Taken(msg4)
  /\ UNCHANGED <<alive, ip, target, arg, handler, pending, eintr, msg2, msg3, context>>

\* clear_shared_state() and return.
Clear(s) ==
  /\ CallStep(s, "clear", "out")
  /\ target' = [target EXCEPT ![s] = None]
  /\ arg' = [arg EXCEPT ![s] = None]
  /\ ClearSharedState
  /\ UNCHANGED <<alive, ip, handler, pending, eintr>>

-------------------------------------------------------------------------------
(* sigprof_handler, on the thread that was signalled.                      *)

\* The kernel enters the handler; SIGPROF stays blocked until it returns.
Deliver(t) ==
  /\ t \in pending
  /\ HandlerStep(t, "none", "copy")
  /\ pending' = pending \ {t}
  /\ UNCHANGED <<alive, ip, pc, target, arg, eintr, shared>>

CopyContext(t) ==
  /\ HandlerStep(t, "copy", "post2")
  /\ context' = ContextOf(t)
  /\ UNCHANGED <<alive, ip, pc, target, arg, pending, eintr, msg2, msg3, msg4>>

PostMsg2_NoWaitForMsg3(t) ==
  /\ HandlerStep(t, "post2", Unwrap(msg2, "post4"))
  /\ msg2' = Posted(msg2)
  /\ UNCHANGED <<alive, ip, pc, target, arg, pending, eintr, msg3, msg4, context>>

\* SHARED_STATE.msg2.as_ref().unwrap().post()
PostMsg2(t) ==
  /\ HandlerStep(t, "post2", Unwrap(msg2, "enter3"))
  /\ msg2' = Posted(msg2)
  /\ UNCHANGED <<alive, ip, pc, target, arg, pending, eintr, msg3, msg4, context>>

\* SHARED_STATE.msg3.as_ref().unwrap(), before the wait.
EnterMsg3(t) ==
  /\ HandlerStep(t, "enter3", Unwrap(msg3, "wait3"))
  /\ UNCHANGED <<alive, ip, pc, target, arg, pending, eintr, shared>>

\* msg3.wait_through_intr() returns Ok.  The semaphores live in a static: a
\* thread left waiting by an earlier call waits on the same memory, and is
\* blocked while the field is None.
WaitMsg3(t) ==
  /\ HandlerStep(t, "wait3", "post4")
  /\ CanTake(msg3)
  /\ msg3' = msg3 - 1
  /\ UNCHANGED <<alive, ip, pc, target, arg, pending, eintr, msg2, msg4, context>>

\* SHARED_STATE.msg4.as_ref().unwrap().post()
PostMsg4(t) ==
  /\ HandlerStep(t, "post4", Unwrap(msg4, "ret"))
  /\ msg4' = Posted(msg4)
  /\ UNCHANGED <<alive, ip, pc, target, arg, pending, eintr, msg2, msg3, context>>

HandlerReturns(t) ==
  /\ HandlerStep(t, "ret", "none")
  /\ UNCHANGED <<alive, ip, pc, target, arg, pending, eintr, shared>>

-------------------------------------------------------------------------------
(* wait_through_intr: another signal makes a blocked sem_wait fail with    *)
(* EINTR, and the loop waits again.                                        *)

Blocked(t) ==
  \/ handler[t] = "wait3" /\ ~CanTake(msg3)
  \/ handler[t] = "none" /\ pc[t] = "wait2" /\ ~CanTake(msg2)
  \/ handler[t] = "none" /\ pc[t] = "wait4" /\ ~CanTake(msg4)

Interrupted(t) ==
  /\ t \notin eintr
  /\ Blocked(t)
  /\ eintr' = eintr \cup {t}
  /\ UNCHANGED <<alive, ip, pc, target, arg, handler, pending, shared>>

Retry_ReturnsOk(t) ==
  /\ t \in eintr
  /\ eintr' = eintr \ {t}
  /\ handler' = [handler EXCEPT ![t] = IF @ = "wait3" THEN "post4" ELSE @]
  /\ pc' = [pc EXCEPT ![t] = IF handler[t] # "none" THEN @
                             ELSE IF @ = "wait2" THEN "read" ELSE "clear"]
  /\ UNCHANGED <<alive, ip, target, arg, pending, shared>>

Retry_Forgotten(t) == FALSE /\ UNCHANGED vars

Retry(t) ==
  /\ t \in eintr
  /\ eintr' = eintr \ {t}
  /\ UNCHANGED <<alive, ip, pc, target, arg, handler, pending, shared>>

-------------------------------------------------------------------------------
(* The threads' own code.                                                  *)

\* t moves to another place in its program.
Run(t) ==
  /\ OnItsOwn(t) /\ pc[t] = "out"
  /\ \E a \in IP : ip' = [ip EXCEPT ![t] = a]
  /\ UNCHANGED <<alive, pc, target, arg, handler, pending, eintr, shared>>

\* t terminates; a signal still pending for it is gone with it.
Exit(t) ==
  /\ t \in Mortal
  /\ OnItsOwn(t) /\ pc[t] = "out"
  /\ alive' = alive \ {t}
  /\ pending' = pending \ {t}
  /\ UNCHANGED <<ip, pc, target, arg, handler, eintr, shared>>

-------------------------------------------------------------------------------

Caller(s) ==
  \/ SendSignal(s)
  \/ WaitMsg2(s)
  \/ ReadContext(s)
  \/ CallbackReturns(s)
  \/ CallbackPanics(s)
  \/ PostMsg3(s)
  \/ WaitMsg4(s)
  \/ Clear(s)

Handler(t) ==
  \/ Deliver(t)
  \/ CopyContext(t)
  \/ PostMsg2(t)
  \/ EnterMsg3(t)
  \/ WaitMsg3(t)
  \/ PostMsg4(t)
  \/ HandlerReturns(t)

Next ==
  \/ \E s, t \in Thread : Call(s, t)
  \/ \E t \in Thread :
       \/ Caller(t)
       \/ Handler(t)
       \/ Interrupted(t)
       \/ Retry(t)
       \/ Run(t)
       \/ Exit(t)

Spec == Init /\ [][Next]_vars

\* The scheduler runs every live thread and the kernel delivers a pending
\* signal; nobody has to make a call, and nobody has to terminate.
Fairness ==
  \A t \in Thread : WF_vars(Caller(t)) /\ WF_vars(Handler(t)) /\ WF_vars(Retry(t))

FairSpec == Spec /\ Fairness

-------------------------------------------------------------------------------
(* Properties                                                              *)

\* While the callback runs, the context it was given is that of the thread
\* the caller asked for, at the place where that thread still is, and that
\* thread waits in its handler (lib_linux.rs:145, "Calls the callback with a
\* suspended thread").  It must hold although the context travels through a
\* static that every call and every handler writes.
FrozenContext ==
  \A s \in Thread : pc[s] = "callback" =>
    /\ handler[target[s]] \in {"enter3", "wait3"}
    /\ arg[s] = ContextOf(target[s])

\* No unwrap() or expect() on SHARED_STATE meets a None: the handler never
\* reaches for a semaphore that the caller has already cleared ("DO NOT
\* TOUCH shared state here onwards", lib_linux.rs:233) and the caller never
\* reads a context that was not copied yet.
NoUnwrapOfNone ==
  \A t \in Thread : pc[t] # "unwrap" /\ handler[t] # "unwrap"

\* When no call is in progress, no thread is held, no signal is on its way
\* and the shared state is cleared (what test_suspend_resume asserts of the
\* context, for all four fields and for every thread).
QuiescentBetweenCalls ==
  (\A s \in Thread : pc[s] = "out") =>
    /\ msg2 = None /\ msg3 = None /\ msg4 = None /\ context = None
    /\ pending = {}
    /\ \A t \in Thread : handler[t] \in {"none", "ret"}

\* A thread that is inside a call is never itself held by a handler: the
\* sampling thread cannot be its own target (lib.rs:58, "Panics if the
\* thread is the sampling thread").
NeverSuspendsItself ==
  \A s \in Thread : pc[s] # "out" => handler[s] = "none"

\* A call returns only when its target is past its last wait
\* (lib_linux.rs:145, "then resumes the thread").
ResumedBeforeReturn ==
  [][\A s \in Thread : pc[s] # "out" /\ pc'[s] = "out" =>
       handler[target[s]] \in {"none", "ret"}]_vars

\* What the guards of Caller, Handler and Retry ask of the state.
CallReady(s) ==
  /\ OnItsOwn(s) /\ s \notin eintr
  /\ \/ pc[s] \in {"signal", "read", "callback", "post3", "clear"}
     \/ pc[s] = "wait2" /\ (msg2 = None \/ CanTake(msg2))
     \/ pc[s] = "wait4" /\ (msg4 = None \/ CanTake(msg4))

HandlerReady(t) ==
  /\ t \in alive /\ t \notin eintr
  /\ \/ handler[t] = "none" /\ t \in pending
     \/ handler[t] \in {"copy", "post2", "enter3", "post4", "ret"}
     \/ handler[t] = "wait3" /\ CanTake(msg3)

Ready(t) == t \in eintr \/ CallReady(t) \/ HandlerReady(t)

\* The target of s can answer the signal: it is another thread, and until it
\* has answered it is there and not held by an earlier call.
CanAnswer(s) ==
  /\ target[s] # s
  /\ pc[s] = "wait2" /\ msg2 = 0 =>
       target[s] \in alive /\ handler[target[s]] \notin {"wait3", "unwrap"}

\* Caller and target never wait for each other: at every point of a call some
\* thread has a step of the handshake to take, in whatever order signals,
\* interruptions and threads left over from panicked callbacks come, unless
\* the target has terminated, is the caller or is such a left-over thread.
NobodyStuck ==
  \A s \in Thread : pc[s] # "out" /\ CanAnswer(s) => \E t \in Thread : Ready(t)

\* Every call ends (lib.rs:57, "Samples one thread once").
CallReturns ==
  \A s \in Thread : pc[s] # "out" ~> pc[s] = "out"

\* Every thread that was stopped goes on (lib_linux.rs:145, "then resumes
\* the thread").
ThreadsResume ==
  \A t \in Thread : handler[t] # "none" ~> handler[t] = "none"

-------------------------------------------------------------------------------
(* The inductive invariant.  One call at a time passes a baton: the signal,*)
(* then a token in msg2, msg3, msg4; at each point of the call exactly one *)
(* party holds it.  A callback that panics drops the baton: its target is  *)
(* left waiting for msg3 and may take the token of a later call.           *)

\* Where a thread can be without holding the baton: outside its handler, at
\* the wait for msg3, or past its post of msg4.
Settling == {"none", "enter3", "wait3", "ret", "unwrap"}

SettledBut(u) == \A t \in Thread \ {u} : handler[t] \in Settling
Settled == \A t \in Thread : handler[t] \in Settling

Tokens(a, b, c) == msg2 = a /\ msg3 = b /\ msg4 = c

\* Who may be in a call, or in a handler, at all.
Actors ==
  /\ \A s, u \in Thread : pc[s] # "out" /\ pc[u] # "out" => s = u
  /\ \A s \in Thread : pc[s] # "out" => s \in alive /\ target[s] \in Thread
  /\ \A t \in Thread : t \notin alive => handler[t] = "none"
  /\ DebugAssertions =>
       \A s \in Thread : pc[s] # "out" => handler[s] = "none" /\ target[s] # s

NoCall ==
  (\A s \in Thread : pc[s] = "out") =>
    /\ pending = {} /\ Settled
    /\ Tokens(None, None, None) \/ Tokens(0, 0, 0)

\* Up to msg2: the signal is on its way, or lost, or the handler has it.
Asking(s) ==
  LET t == target[s] IN
  /\ pc[s] = "signal" =>
       Tokens(0, 0, 0) /\ context = None /\ pending = {} /\ Settled
  /\ pc[s] = "wait2" =>
       \/ Tokens(0, 0, 0) /\ context = None /\ pending \subseteq {t} /\ Settled
       \/ /\ pending = {}
          /\ \/ /\ Tokens(0, 0, 0) /\ context = None
                /\ handler[t] = "copy" /\ SettledBut(t)
             \/ /\ Tokens(0, 0, 0) /\ context = ContextOf(t)
                /\ handler[t] = "post2" /\ SettledBut(t)
             \/ /\ Tokens(1, 0, 0) /\ context = ContextOf(t)
                /\ handler[t] \in {"enter3", "wait3"} /\ Settled

\* From msg2 to msg3: the target is held where its context was copied.
Holding(s) ==
  pc[s] \in {"read", "callback", "post3"} =>
    /\ Tokens(0, 0, 0) /\ pending = {} /\ Settled
    /\ context = ContextOf(target[s])
    /\ handler[target[s]] \in {"enter3", "wait3"}
    /\ pc[s] # "read" => arg[s] = context

\* From msg3 on: one waiting thread takes the token and passes it back.
Releasing(s) ==
  /\ pc[s] = "wait4" =>
       /\ pending = {}
       /\ \/ Tokens(0, 1, 0) /\ Settled
          \/ /\ Tokens(0, 0, 0)
             /\ \E u \in Thread : handler[u] = "post4" /\ SettledBut(u)
          \/ Tokens(0, 0, 1) /\ Settled
  /\ pc[s] = "clear" => Tokens(0, 0, 0) /\ pending = {} /\ Settled

Baton ==
  \A s \in Thread : pc[s] # "unwrap" /\ Asking(s) /\ Holding(s) /\ Releasing(s)

\* As long as callbacks return, only the target of the call in progress is
\* in its handler, and only between the signal and its own post of msg4.
NoLeftover ==
  /\ \A t \in Thread : handler[t] # "unwrap"
  /\ \A t \in Thread : handler[t] \notin {"none", "ret"} =>
       \E s \in Thread : pc[s] # "out" /\ target[s] = t
  /\ \A s \in Thread :
       /\ pc[s] \in {"signal", "clear"} => handler[target[s]] \in {"none", "ret"}
       /\ pc[s] = "wait2" /\ context = None => handler[target[s]] \in {"none", "ret", "copy"}
       /\ pc[s] = "wait4" =>
            /\ msg3 = 1 => handler[target[s]] \in {"enter3", "wait3"}
            /\ msg4 = 1 => handler[target[s]] \in {"none", "ret"}
            /\ msg3 = 0 /\ msg4 = 0 => handler[target[s]] = "post4"
  /\ (\A s \in Thread : pc[s] = "out") => Tokens(None, None, None) /\ context = None

\* Why NobodyStuck holds: the caller is not in its own handler, a thread that
\* was sent the signal has it until it copies its context, and the token in
\* msg3 has somebody to take it.
Moving ==
  \A s \in Thread :
    /\ pc[s] # "out" /\ target[s] # s => handler[s] = "none"
    /\ pc[s] = "wait2" /\ context = None /\ target[s] \in alive /\ handler[target[s]] # "copy" =>
         target[s] \in pending
    /\ pc[s] = "wait4" /\ msg3 = 1 => \E u \in Thread : handler[u] \in {"enter3", "wait3"}

\* The handshake at every step, for every value of the constants: who holds
\* the baton, in which semaphore, and what the context in SHARED_STATE is.
HandshakeInv ==
  /\ Actors
  /\ NoCall
  /\ Baton
  /\ Moving
  /\ CallbackMayPanic \/ NoLeftover

-------------------------------------------------------------------------------
(* Refinement: a thread is frozen from the delivery of the signal until it *)
(* is let through its wait for msg3.                                       *)

CallPhase(point) ==
  CASE point = "out" -> "out"
    [] point \in {"signal", "wait2", "read", "unwrap"} -> "asked"
    [] point = "callback" -> "inside"
    [] point \in {"post3", "wait4", "clear"} -> "leaving"

Abstract == INSTANCE Suspension WITH
  frozen  <- {t \in Thread : handler[t] \in {"copy", "post2", "enter3", "wait3"}},
  call    <- [s \in Thread |-> CallPhase(pc[s])],
  subject <- target,
  seen    <- arg

\* The handshake is an implementation of Suspension as long as the callback
\* returns: signal, semaphores and shared state add up to "freeze, look,
\* thaw, return" in that order (lib_linux.rs:145).
ImplementsSuspension == Abstract!Spec

===============================================================================
