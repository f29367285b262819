-------------------------------- MODULE MachWalk -------------------------------
(***************************************************************************)
(* A sample on macOS, from LibunwindUnwinder::new to the frames            *)
(* (vignette/src/lib_mac.rs, and sample_once in vignette/src/lib.rs):      *)
(* MachSampler whose callback is the walk of Unwinder, step by step, on    *)
(* the stack of the thread that MachSampler has suspended.                 *)
(*                                                                         *)
(* A stack belongs to its thread: a thread that executes changes it.  What *)
(* the walk collects is one call chain only because the thread is held     *)
(* from the first step to the last.                                        *)
(***************************************************************************)
EXTENDS MachSampler, Unwinder

ASSUME WalkAssumption == IP \subseteq Code

sampleVars == <<vars, walkVars>>

SampleInit == Init /\ WalkInit

\* The stack of t is being looked at.
Walked(t) == ~Idle /\ \E s \in Thread : pc[s] = "callback" /\ target[s] = t

\* The sampled program runs, and with that its stack changes.
RunOnStack(t) ==
  /\ Run(t)
  /\ \E stack \in IF Walked(t) THEN Stacks ELSE {caller} : caller' = stack
  /\ UNCHANGED <<start, cursor, at, frames, result>>

\* sample_once makes the unwinder and calls suspend_and_resume_thread.
SampleOnce(s, t) == Call(s, t) /\ NewUnwinder

\* The callback walks from the registers it was given.
Walk(s) ==
  /\ Executes(s) /\ pc[s] = "callback"
  /\ \/ Unwind(context[s].ip)
     \/ WalkOn
     \/ target[s] \in Failing /\ Fails
  /\ UNCHANGED vars

\* expect("sample succeeded")
WalkReturns(s) == result = "Ok" /\ CallbackReturns(s) /\ Taken
WalkPanics(s) == result = "Err" /\ CallbackPanics(s) /\ Taken

\* The statements around the callback.
Around(s) ==
  \/ Suspend(s) \/ SuspendFails(s) \/ GetState(s) \/ GetStateFails(s)
  \/ Resume(s) \/ ResumeFails(s) \/ Return(s)

Sampling(s) ==
  \/ Around(s) /\ UNCHANGED walkVars
  \/ Walk(s) \/ WalkReturns(s) \/ WalkPanics(s)

SampleNext ==
  \/ \E t \in Thread : RunOnStack(t) \/ (Exit(t) /\ UNCHANGED walkVars) \/ Sampling(t)
  \/ \E s, t \in Thread : SampleOnce(s, t)

SampleSpec == SampleInit /\ [][SampleNext]_sampleVars

\* A thread that is taking a sample and not suspended goes on.
FairSampleSpec == SampleSpec /\ \A s \in Thread : WF_sampleVars(Sampling(s))

-------------------------------------------------------------------------------
(* Properties                                                              *)

\* Each part does what it does by itself: the walk inside the callback is a
\* call of MachSampler, and the stack does not move under the walk.
ImplementsParts == Spec /\ WalkSpec

===============================================================================
