--------------------------------- MODULE Passes ---------------------------------
(***************************************************************************)
(* Sampling all threads (vignette/examples/sample_once.rs): pass after     *)
(* pass the loop asks thread_iterator (threadinfo/src/linux.rs) for the    *)
(* threads of the process and has the Session sample each, while threads   *)
(* are started and terminate and their ids are used again.                 *)
(*                                                                         *)
(* On Linux the iterator reads /proc/self/task as the loop goes on, so it  *)
(* may or may not give a thread that starts, or terminates, meanwhile; a   *)
(* snapshot, as task_threads gives on macOS, is one of these cases.        *)
(* Nothing bounds how many threads are started, and given, in one pass.    *)
(***************************************************************************)
EXTENDS Session, Naturals

ASSUME PassAssumption == \A T \in SUBSET Thread : T # None

VARIABLES
  alive,    \* the threads there are, by id
  pending,  \* what the iterator is still to give; None outside the loop
  lost,     \* the signal of the call went to a thread that has terminated
  stayed,   \* history: the threads alive since the pass began
  taken     \* history: how often the thread with this id was sampled in it

loop == <<alive, pending, lost, stayed, taken>>
allVars == <<vars, loop>>

LoopTypeOK ==
  /\ alive \subseteq Thread
  /\ pending \in (SUBSET Thread) \cup {None}
  /\ lost \in BOOLEAN
  /\ stayed \subseteq Target
  /\ taken \in [Target -> Nat]

NoneTaken == [t \in Target |-> 0]

PassInit ==
  /\ Init
  /\ alive \in {A \in SUBSET Thread : Sampler \in A}
  /\ pending = None
  /\ lost = FALSE
  /\ stayed = {}
  /\ taken = NoneTaken

-------------------------------------------------------------------------------
(* The sampled program.                                                    *)

\* A thread is started, perhaps with the id of one that is gone.
Spawn(t) ==
  /\ t \notin alive
  /\ Run(t)
  /\ alive' = alive \cup {t}
  /\ taken' = [taken EXCEPT ![t] = 0]
  /\ \/ UNCHANGED pending
     \/ pending # None /\ pending' = pending \cup {t}
  /\ UNCHANGED <<lost, stayed>>

\* A thread that is not held terminates, outside the allocator.
Exit(t) ==
  /\ t \in alive /\ t \notin frozen /\ heap # t
  /\ alive' = alive \ {t}
  /\ \/ UNCHANGED pending
     \/ pending # None /\ pending' = pending \ {t}
  /\ lost' = (lost \/ (call[Sampler] = "asked" /\ thread = t))
  /\ stayed' = stayed \ {t}
  /\ UNCHANGED <<vars, taken>>

Leaves(t) == t \in alive /\ Unlock(t) /\ UNCHANGED loop
Stops(t) == t \in alive /\ ~lost /\ Stop(t) /\ UNCHANGED loop
Resumes(t) == t \in alive /\ Resume(t) /\ UNCHANGED loop

Live(t) ==
  \/ Spawn(t) \/ Exit(t)
  \/ t \in alive /\ (Run(t) \/ Lock(t)) /\ UNCHANGED loop
  \/ Leaves(t) \/ Stops(t) \/ Resumes(t)

-------------------------------------------------------------------------------
(* The loop.                                                               *)

\* thread_iterator().expect("threads")
Iterate ==
  /\ pc = "idle" /\ pending = None
  /\ pending' = alive
  /\ stayed' = alive \ {Sampler}
  /\ taken' = NoneTaken
  /\ UNCHANGED <<vars, alive, lost>>

Skip_Break ==
  /\ pc = "idle" /\ pending # None /\ Sampler \in pending
  /\ pending' = {}
  /\ UNCHANGED <<vars, alive, lost, stayed, taken>>

\* is_current_thread: continue
Skip ==
  /\ pc = "idle" /\ pending # None /\ Sampler \in pending
  /\ pending' = pending \ {Sampler}
  /\ UNCHANGED <<vars, alive, lost, stayed, taken>>

Sample1(t) ==
  /\ pending # None /\ t \in pending
  /\ SampleThread(t)
  /\ pending' = pending \ {t}
  /\ UNCHANGED <<alive, lost, stayed, taken>>

\* The iterator is at its end.
EndPass ==
  /\ pc = "idle" /\ pending = {}
  /\ pending' = None
  /\ stayed' = {} /\ taken' = NoneTaken
  /\ UNCHANGED <<vars, alive, lost>>

\* tgkill finds no such thread, and its result is dropped.
Ask == NewUnwinder /\ lost' = (thread \notin alive) /\ UNCHANGED <<alive, pending, stayed, taken>>

Look == EnterCallback /\ UNCHANGED loop
Unwind == (UnwindOk \/ UnwindErr) /\ UNCHANGED loop
Return == SuspendReturns /\ UNCHANGED loop

Push ==
  /\ Record
  /\ taken' = [taken EXCEPT ![thread] = @ + 1]
  /\ UNCHANGED <<alive, pending, lost, stayed>>

Loop ==
  \/ Iterate \/ Skip \/ EndPass
  \/ \E t \in Target : Sample1(t)
  \/ Ask \/ Look \/ Unwind \/ Return \/ Push
  \/ Panic /\ UNCHANGED loop
  \/ pending = None /\ Finish /\ UNCHANGED loop

-------------------------------------------------------------------------------

PassNext == Loop \/ \E t \in Target : Live(t)

PassSpec == PassInit /\ [][PassNext]_allVars

\* The loop goes on, threads leave the allocator, suspension makes progress,
\* and whoever waits for the allocator's lock gets it in the end.
FairPassSpec ==
  /\ PassSpec
  /\ \A t \in Target : WF_allVars(Leaves(t)) /\ WF_allVars(Stops(t)) /\ WF_allVars(Resumes(t))
  /\ WF_allVars(Skip \/ EndPass \/ \E t \in Target : Sample1(t))
  /\ WF_allVars(Look) /\ WF_allVars(Unwind) /\ WF_allVars(Return)
  /\ SF_allVars(Ask) /\ SF_allVars(Push)

\* A walk that failed goes on to its panic as well, unless the thread it
\* holds has the lock.
FairPanicSpec == FairPassSpec /\ SF_allVars(Panic /\ UNCHANGED loop)

-------------------------------------------------------------------------------
(* Properties                                                              *)

\* When a pass is over every thread that lived through it has been sampled
\* exactly once in it, whatever others started and terminated meanwhile
\* (examples/suspend_resume.rs:45, "expected all threads to be sampled
\* once").
EachThreadOnce ==
  pc = "idle" /\ pending = {} => \A t \in stayed : taken[t] = 1

\* A thread is started and the iterator gives it in the pass that goes on.
Given(t) == Spawn(t) /\ pending' # pending

\* A pass comes to its end, whatever the program's threads do in the
\* allocator and however they terminate, but for three cases: the thread
\* that is being sampled terminates, it cannot be unwound, or the program
\* starts threads for ever and the iterator, which is lazy (threadinfo
\* linux.rs:34), gives them for ever.  A pass that does not end is the last
\* one, so those are given in it.
PassEnds ==
  \/ []<><<\E t \in Target : Given(t)>>_allVars
  \/ pending # None ~> pending = None \/ lost \/ pc \in {"error", "panicked"}

\* A thread that was suspended goes on (lib_linux.rs:145 and lib_mac.rs:33,
\* "Calls the callback with a suspended thread, then resumes the thread").
TargetsResume == \A t \in Target : t \in frozen ~> t \notin frozen

===============================================================================
