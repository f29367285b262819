------------------------------- MODULE MachSampler ------------------------------
(***************************************************************************)
(* Sampler::suspend_and_resume_thread on macOS (vignette/src/lib_mac.rs):  *)
(* the kernel suspends and resumes the target, with a suspend count per    *)
(* thread, and hands its registers out.  No signal, no semaphore, and in   *)
(* spite of the comment no shared state; it makes the promises of          *)
(* Suspension all the same.                                                *)
(*                                                                         *)
(* Calls do not overlap (lib_mac.rs:36-38).                                *)
(***************************************************************************)
EXTENDS Naturals, FiniteSets

CONSTANTS
  Thread, IP, None,   \* as in Suspension
  DebugAssertions,    \* debug_assert! is compiled in (a debug build)
  Failing,            \* the threads that cannot be unwound, or on which Mach calls
                      \* fail: a call about one may panic while the thread lives
  ThreadsExit,        \* whether threads may terminate
  MaxSuspensions      \* bound: how often one thread is suspended and left so

ASSUME MachAssumption ==
  /\ None \notin Thread
  /\ {DebugAssertions, ThreadsExit} \subseteq BOOLEAN
  /\ Failing \subseteq Thread
  /\ MaxSuspensions \in Nat \ {0}

VARIABLES
  ip,             \* ip[t]: where thread t is
  alive,          \* the threads that have not terminated
  suspend_count,  \* suspend_count[t]: the kernel's count
  pc,             \* pc[s]: where the call made by s is
  target,         \* target[s]: the thread it is about
  context,        \* context[s]: the registers it has read
  left            \* left[t]: suspensions of t that a panic has left behind

vars == <<ip, alive, suspend_count, pc, target, context, left>>

Place(t) == [thread |-> t, ip |-> ip[t]]

\* Thread s executes.
Executes(s) == s \in alive /\ suspend_count[s] = 0

Init ==
  /\ ip \in [Thread -> IP]
  /\ alive = Thread
  /\ suspend_count = [t \in Thread |-> 0]
  /\ pc = [s \in Thread |-> "out"]
  /\ target = [s \in Thread |-> None]
  /\ context = [s \in Thread |-> None]
  /\ left = [t \in Thread |-> 0]

-------------------------------------------------------------------------------
(* The sampled program.                                                    *)

Run(t) ==
  /\ Executes(t) /\ pc[t] = "out"
  /\ \E a \in IP : ip' = [ip EXCEPT ![t] = a]
  /\ UNCHANGED <<alive, suspend_count, pc, target, context, left>>

\* A thread terminates, or is terminated, then also while it is suspended.
Exit(t) ==
  /\ ThreadsExit
  /\ t \in alive /\ pc[t] = "out"
  /\ alive' = alive \ {t}
  /\ UNCHANGED <<ip, suspend_count, pc, target, context, left>>

-------------------------------------------------------------------------------
(* suspend_and_resume_thread, as called by s.                              *)

\* The call goes from one statement to another.
Goto(s, from, to) ==
  /\ Executes(s)
  /\ pc[s] = from
  /\ pc' = [pc EXCEPT ![s] = to]

\* A panic, or the return, leaves the call.
Leave(s, from) ==
  /\ Goto(s, from, "out")
  /\ target' = [target EXCEPT ![s] = None]
  /\ context' = [context EXCEPT ![s] = None]

\* A Mach call about the target may fail.
Fallible(s) == target[s] \in Failing \/ target[s] \notin alive

MayTarget_Unchecked(s, t) == TRUE

\* debug_assert!(!thread.is_current_thread()): a release build lets the
\* caller suspend itself.
MayTarget(s, t) == DebugAssertions => s # t

\* The thread may have terminated since it was enumerated, or be suspended
\* already.
Call(s, t) ==
  /\ MayTarget(s, t) /\ suspend_count[t] < MaxSuspensions
  /\ \A u \in Thread : pc[u] = "out"
  /\ Goto(s, "out", "suspend")
  /\ target' = [target EXCEPT ![s] = t]
  /\ UNCHANGED <<ip, alive, suspend_count, context, left>>

Suspend_NotCounted(s) ==
  /\ target[s] \in alive
  /\ Goto(s, "suspend", "get_state")
  /\ UNCHANGED <<ip, alive, suspend_count, target, context, left>>

\* thread_suspend returns when the thread has stopped.
Suspend(s) ==
  /\ target[s] \in alive
  /\ Goto(s, "suspend", "get_state")
  /\ suspend_count' = [suspend_count EXCEPT ![target[s]] = @ + 1]
  /\ UNCHANGED <<ip, alive, target, context, left>>

\* thread.suspend().unwrap() panics.
SuspendFails(s) ==
  /\ Fallible(s)
  /\ Leave(s, "suspend")
  /\ UNCHANGED <<ip, alive, suspend_count, left>>

GetState(s) ==
  /\ target[s] \in alive
  /\ Goto(s, "get_state", "callback")
  /\ context' = [context EXCEPT ![s] = Place(target[s])]
  /\ UNCHANGED <<ip, alive, suspend_count, target, left>>

\* assert!(r == KERN_SUCCESS) fails: the thread is left suspended.
GetStateFails(s) ==
  /\ Fallible(s)
  /\ Leave(s, "get_state")
  /\ left' = [left EXCEPT ![target[s]] = @ + 1]
  /\ UNCHANGED <<ip, alive, suspend_count>>

CallbackReturns(s) ==
  /\ Goto(s, "callback", "resume")
  /\ UNCHANGED <<ip, alive, suspend_count, target, context, left>>

\* The callback panics: the thread is left suspended.
CallbackPanics(s) ==
  /\ target[s] \in Failing
  /\ Leave(s, "callback")
  /\ left' = [left EXCEPT ![target[s]] = @ + 1]
  /\ UNCHANGED <<ip, alive, suspend_count>>

Resume_Forgotten(s) ==
  /\ target[s] \in alive
  /\ Goto(s, "resume", "return")
  /\ UNCHANGED <<ip, alive, suspend_count, target, context, left>>

Resume(s) ==
  /\ target[s] \in alive
  /\ Goto(s, "resume", "return")
  /\ suspend_count' = [suspend_count EXCEPT ![target[s]] = @ - 1]
  /\ UNCHANGED <<ip, alive, target, context, left>>

\* thread.resume().unwrap() panics: the thread is left suspended.
ResumeFails(s) ==
  /\ Fallible(s)
  /\ Leave(s, "resume")
  /\ left' = [left EXCEPT ![target[s]] = @ + 1]
  /\ UNCHANGED <<ip, alive, suspend_count>>

Return(s) ==
  /\ Leave(s, "return")
  /\ UNCHANGED <<ip, alive, suspend_count, left>>

-------------------------------------------------------------------------------

Caller(s) ==
  \/ Suspend(s) \/ SuspendFails(s) \/ GetState(s) \/ GetStateFails(s)
  \/ CallbackReturns(s) \/ CallbackPanics(s)
  \/ Resume(s) \/ ResumeFails(s) \/ Return(s)

Next ==
  \/ \E t \in Thread : Run(t) \/ Exit(t) \/ Caller(t)
  \/ \E s, t \in Thread : Call(s, t)

Spec == Init /\ [][Next]_vars

\* A thread that is in a call and not suspended goes on.
FairSpec == Spec /\ \A s \in Thread : WF_vars(Caller(s))

-------------------------------------------------------------------------------
(* Properties                                                              *)

TypeOK ==
  /\ ip \in [Thread -> IP]
  /\ alive \subseteq Thread
  /\ suspend_count \in [Thread -> Nat]
  /\ pc \in [Thread -> {"out", "suspend", "get_state", "callback", "resume", "return"}]
  /\ target \in [Thread -> Thread \cup {None}]
  /\ context \in [Thread -> [thread : Thread, ip : IP] \cup {None}]
  /\ left \in [Thread -> 0 .. MaxSuspensions]

\* Where the target is held by the call of s.
Holding(s) == pc[s] \in {"get_state", "callback", "resume"}

\* A callback is given the registers of the thread asked for, which is
\* stopped there, also after earlier calls that panicked.
FrozenContext ==
  \A s \in Thread : pc[s] = "callback" =>
    /\ context[s] = Place(target[s])
    /\ suspend_count[target[s]] > 0

\* The kernel's count of a thread is the number of calls that hold it and
\* of those that panicked while they did: no suspension is undone twice or
\* by another call's resume, and none is forgotten.
SuspensionsBalanced ==
  \A t \in Thread :
    suspend_count[t] = Cardinality({s \in Thread : Holding(s) /\ target[s] = t}) + left[t]

\* The inductive invariant: one call at a time, whose target's count exceeds
\* the suspensions left behind by one while it is held; every other thread's
\* count is exactly those.
MachInv ==
  /\ TypeOK
  /\ \A s, u \in Thread : pc[s] # "out" /\ pc[u] # "out" => s = u
  /\ \A s \in Thread :
       /\ pc[s] = "out" => target[s] = None /\ context[s] = None
       /\ pc[s] # "out" => target[s] \in Thread /\ MayTarget(s, target[s])
       /\ pc[s] = "suspend" => suspend_count[target[s]] < MaxSuspensions
       /\ Holding(s) => suspend_count[target[s]] = left[target[s]] + 1
  /\ \A t \in Thread : suspend_count[t] <= MaxSuspensions
  /\ \A t \in Thread :
       (\A s \in Thread : Holding(s) => target[s] # t) => suspend_count[t] = left[t]
  /\ FrozenContext

\* A thread that has been suspended runs again, unless it is terminated
\* (lib_mac.rs:33, "Calls the callback with a suspended thread, then resumes
\* the thread"), whatever becomes of calls about other threads.  One that
\* cannot be unwound need not: see TargetsResume in Passes.
ThreadsResume ==
  \A t \in Thread \ Failing :
    t \in alive /\ suspend_count[t] > 0 ~> t \notin alive \/ suspend_count[t] = 0

\* Every call comes to an end, also one about a thread that has terminated.
CallReturns == \A s \in Thread : pc[s] # "out" ~> pc[s] = "out"

\* The refinement mapping: how far the call is for Suspension.
AbstractCall ==
  [s \in Thread |-> CASE pc[s] = "out" -> "out"
                      [] pc[s] \in {"suspend", "get_state"} -> "asked"
                      [] pc[s] = "callback" -> "inside"
                      [] OTHER -> "leaving"]

Abstract == INSTANCE Suspension WITH
  frozen <- {t \in Thread : suspend_count[t] > 0},
  call <- AbstractCall, subject <- target, seen <- context

\* With callbacks that return and threads that stay, the kernel's
\* suspension is the one Suspension describes, step by step.
ImplementsSuspension == Abstract!Spec

===============================================================================
