-------------------------------- MODULE Session --------------------------------
(***************************************************************************)
(* A profiling session (vignette/src/lib.rs): sample_thread suspends a     *)
(* thread, unwinds its stack in the callback and records the frames;       *)
(* finish hands the recording over.  Suspending is taken from Suspension,  *)
(* which the samplers implement; what is added is the memory allocator,    *)
(* whose lock the suspended thread may hold, and unwinding that fails.     *)
(*                                                                         *)
(* One lock stands for the arena the vector of frames lives in.  The       *)
(* samples of a thread are kept as the set of those that differ: what is   *)
(* said of a session does not depend on their order, nor on how often the  *)
(* thread was found at one place.                                          *)
(***************************************************************************)

CONSTANTS
  Thread, IP, None,   \* as in Suspension
  Sampler             \* the thread that owns the Session

ASSUME SessionAssumption ==
  /\ Sampler \in Thread
  /\ None \notin Thread

VARIABLES
  ip, frozen, call, subject, seen,  \* as in Suspension
  heap,     \* the thread that holds the allocator's lock, or None
  pc,       \* where the session is
  thread,   \* the argument of sample_thread
  sample,   \* what unwind returned
  threads   \* self.threads: the samples recorded, thread by thread

S == INSTANCE Suspension

session == <<heap, pc, thread, sample, threads>>
vars == <<ip, frozen, call, subject, seen, session>>

Target == Thread \ {Sampler}

Sample == [thread : Thread, ip : IP]

TypeOK ==
  /\ ip \in [Thread -> IP]
  /\ frozen \subseteq Thread
  /\ call \in [Thread -> {"out", "asked", "inside", "leaving"}]
  /\ subject \in [Thread -> Thread \cup {None}]
  /\ seen \in [Thread -> Sample \cup {None}]
  /\ heap \in Target \cup {None}
  /\ pc \in {"idle", "new", "suspend", "error", "record", "panicked", "finished"}
  /\ thread \in Target \cup {None}
  /\ sample \in Sample \cup {None}
  /\ threads \in [Target -> SUBSET Sample]

Init ==
  /\ S!Init
  /\ heap = None
  /\ pc = "idle"
  /\ thread = None
  /\ sample = None
  /\ threads = [t \in Target |-> {}]

-------------------------------------------------------------------------------
(* The sampled program.                                                    *)

Run(t) == S!Run(t) /\ UNCHANGED session

\* A thread enters the allocator ...
Lock(t) ==
  /\ t \notin frozen /\ heap = None
  /\ heap' = t
  /\ UNCHANGED <<ip, frozen, call, subject, seen, pc, thread, sample, threads>>

\* ... and leaves it.
Unlock(t) ==
  /\ t \notin frozen /\ heap = t
  /\ heap' = None
  /\ UNCHANGED <<ip, frozen, call, subject, seen, pc, thread, sample, threads>>

\* The thread is suspended and, later, let go.
Stop(t) == S!Freeze(t) /\ UNCHANGED session
Resume(t) == S!Thaw(t) /\ UNCHANGED session

-------------------------------------------------------------------------------
(* The session.                                                            *)

SampleThread(t) ==
  /\ pc = "idle"
  /\ pc' = "new"
  /\ thread' = t
  /\ UNCHANGED <<ip, frozen, call, subject, seen, heap, sample, threads>>

NewUnwinder_InCallback ==
  \/ pc = "new" /\ S!Ask(Sampler, thread) /\ UNCHANGED session
  \/ /\ pc = "new" /\ call[Sampler] = "inside" /\ heap = None
     /\ pc' = "suspend"
     /\ UNCHANGED <<ip, frozen, call, subject, seen, heap, thread, sample, threads>>

\* LibunwindUnwinder::new(150) allocates the vector of frames, and then
\* suspend_and_resume_thread is called.
NewUnwinder ==
  /\ pc = "new"
  /\ heap = None
  /\ pc' = "suspend"
  /\ S!Ask(Sampler, thread)
  /\ UNCHANGED <<heap, thread, sample, threads>>

EnterCallback_TooSoon ==
  /\ call[Sampler] = "asked"
  /\ call' = [call EXCEPT ![Sampler] = "inside"]
  /\ seen' = [seen EXCEPT ![Sampler] = S!Place(thread)]
  /\ UNCHANGED <<ip, frozen, subject, session>>

EnterCallback == S!Look(Sampler) /\ UNCHANGED session

\* unwind returns Ok: no allocation, and the callback returns.
UnwindOk ==
  /\ pc = "suspend"
  /\ S!Leave(Sampler)
  /\ pc' = "record"
  /\ sample' = seen[Sampler]
  /\ UNCHANGED <<heap, thread, threads>>

\* unwind returns Err: with the unwinder it consumed goes the vector.
UnwindErr ==
  /\ pc = "suspend" /\ call[Sampler] = "inside"
  /\ pc' = "error"
  /\ UNCHANGED <<ip, frozen, call, subject, seen, heap, thread, sample, threads>>

\* The vector is freed and expect("sample succeeded") panics, past the
\* resume: there is no guard that would undo the suspension.
Panic ==
  /\ pc = "error"
  /\ heap = None
  /\ pc' = "panicked"
  /\ UNCHANGED <<ip, frozen, call, subject, seen, heap, thread, sample, threads>>

SuspendReturns == S!Return(Sampler) /\ UNCHANGED session

CanRecord_Early == TRUE

\* suspend_and_resume_thread has returned.
CanRecord == call[Sampler] = "out"

\* The entry for the thread is created or extended; no entry is written as
\* an empty one.
Record ==
  /\ pc = "record" /\ CanRecord
  /\ heap = None
  /\ threads' = [threads EXCEPT ![thread] = @ \cup {sample}]
  /\ pc' = "idle"
  /\ thread' = None /\ sample' = None
  /\ UNCHANGED <<ip, frozen, call, subject, seen, heap>>

\* finish consumes the session and moves self.threads into the profile.
Finish ==
  /\ pc = "idle"
  /\ pc' = "finished"
  /\ UNCHANGED <<ip, frozen, call, subject, seen, heap, thread, sample, threads>>

-------------------------------------------------------------------------------

\* Where the session is about to allocate or free memory.
NeedsHeap == pc \in {"new", "error"} \/ (pc = "record" /\ CanRecord)

Owner ==
  \/ \E t \in Target : SampleThread(t)
  \/ NewUnwinder \/ EnterCallback \/ UnwindOk \/ UnwindErr \/ Panic
  \/ SuspendReturns \/ Record \/ Finish

Program(t) == Run(t) \/ Lock(t) \/ Unlock(t) \/ Stop(t) \/ Resume(t)

Next == Owner \/ \E t \in Target : Program(t)

Spec == Init /\ [][Next]_vars

-------------------------------------------------------------------------------
(* Properties                                                              *)

\* The session never waits for a lock that the thread it suspended holds
\* (lib_linux.rs:151, "Callback must not perform any heap allocations, nor
\* must it interact with any other shared locks that sampled threads can
\* access").
NeverWaitsOnFrozen == NeedsHeap => heap \notin frozen

\* It does so at most on the way to a panic: creating the unwinder and
\* recording the sample, which do use the allocator, never happen while the
\* thread is suspended (lib_linux.rs:242, "Creation should be done outside
\* the suspend_and_resume_thread call!").
WaitsOnFrozenOnlyToPanic == NeedsHeap /\ heap \in frozen => pc = "error"

\* A sample is a snapshot of the thread asked for: the stack unwound is the
\* one of a thread that is held, where it is held, and it is recorded under
\* that thread.
SamplesAreSnapshots ==
  /\ call[Sampler] = "inside" => thread \in frozen /\ seen[Sampler] = S!Place(thread)
  /\ call[Sampler] = "leaving" /\ thread \in frozen => sample = S!Place(thread)
  /\ \A t \in Target : \A x \in threads[t] : x.thread = t

\* The inductive invariant: how far the session is says how far its call
\* is, and only the thread of that call is ever suspended.
SessionInv ==
  /\ TypeOK
  /\ \A t \in Target : call[t] = "out"
  /\ thread = None <=> pc \in {"idle", "finished"}
  /\ pc \in {"idle", "new", "finished"} => call[Sampler] = "out"
  /\ pc = "suspend" => call[Sampler] \in {"asked", "inside"}
  /\ pc \in {"error", "panicked"} => call[Sampler] = "inside"
  /\ pc = "record" => call[Sampler] \in {"leaving", "out"} /\ sample \in Sample /\ sample.thread = thread
  /\ call[Sampler] = "out" => frozen = {}
  /\ call[Sampler] # "out" => subject[Sampler] = thread /\ frozen \subseteq {thread}
  /\ SamplesAreSnapshots

===============================================================================
