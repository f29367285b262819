------------------------------ MODULE SessionProofs -----------------------------
(***************************************************************************)
(* Theorems about Session and Passes, for any number of threads, samples   *)
(* and passes.                                                             *)
(***************************************************************************)
EXTENDS Passes, TLAPS

\* The part of the invariant that says nothing of the samples recorded.
Progress ==
  /\ ip \in [Thread -> IP]
  /\ frozen \subseteq Thread
  /\ call \in [Thread -> {"out", "asked", "inside", "leaving"}]
  /\ subject \in [Thread -> Thread \cup {None}]
  /\ seen \in [Thread -> Sample \cup {None}]
  /\ heap \in Target \cup {None}
  /\ pc \in {"idle", "new", "suspend", "error", "record", "panicked", "finished"}
  /\ thread \in Target \cup {None}
  /\ sample \in Sample \cup {None}
  /\ \A t \in Target : call[t] = "out"
  /\ thread = None <=> pc \in {"idle", "finished"}
  /\ pc \in {"idle", "new", "finished"} => call[Sampler] = "out"
  /\ pc = "suspend" => call[Sampler] \in {"asked", "inside"}
  /\ pc \in {"error", "panicked"} => call[Sampler] = "inside"
  /\ pc = "record" => call[Sampler] \in {"leaving", "out"} /\ sample \in Sample /\ sample.thread = thread
  /\ call[Sampler] = "out" => frozen = {}
  /\ call[Sampler] # "out" => subject[Sampler] = thread /\ frozen \subseteq {thread}
  /\ call[Sampler] = "inside" => thread \in frozen /\ seen[Sampler] = S!Place(thread)
  /\ call[Sampler] = "leaving" /\ thread \in frozen => sample = S!Place(thread)

\* The samples recorded, each under its thread.
Recording ==
  /\ threads \in [Target -> SUBSET Sample]
  /\ \A t \in Target : \A x \in threads[t] : x.thread = t

LEMMA InvParts == SessionInv <=> Progress /\ Recording
BY DEF SessionInv, TypeOK, SamplesAreSnapshots, Progress, Recording

-------------------------------------------------------------------------------

\* The sampled program moves, and is stopped and resumed, without harm.
LEMMA ProgramKeepsProgress ==
  ASSUME Progress, NEW t \in Target, Program(t)
  PROVE  Progress' /\ UNCHANGED threads
<1> USE SessionAssumption DEF Progress, Target
<1>1. CASE Run(t)
  BY <1>1 DEF Run, S!Run, S!Place, session
<1>2. CASE Lock(t)
  BY <1>2 DEF Lock, S!Place
<1>3. CASE Unlock(t)
  BY <1>3 DEF Unlock, S!Place
<1>4. CASE Stop(t)
  BY <1>4 DEF Stop, S!Freeze, S!Place, session
<1>5. CASE Resume(t)
  BY <1>5 DEF Resume, S!Thaw, S!Place, session
<1> QED
  BY <1>1, <1>2, <1>3, <1>4, <1>5 DEF Program

\* So does the session, which records nothing but in Record.
LEMMA OwnerKeepsProgress ==
  ASSUME Progress, Owner
  PROVE  Progress' /\ (UNCHANGED threads \/ Record)
<1>1. ASSUME NEW t \in Target, SampleThread(t)
      PROVE  Progress' /\ UNCHANGED threads
  BY <1>1, SessionAssumption DEF Progress, Target, SampleThread, S!Place
<1>2. ASSUME NewUnwinder PROVE Progress' /\ UNCHANGED threads
  BY <1>2, SessionAssumption DEF Progress, Target, NewUnwinder, S!Ask, S!Place
<1>3. ASSUME EnterCallback PROVE Progress' /\ UNCHANGED threads
  BY <1>3, SessionAssumption DEF Progress, Target, EnterCallback, S!Look, S!Place, session, Sample
<1>4. ASSUME UnwindOk PROVE Progress' /\ UNCHANGED threads
  BY <1>4, SessionAssumption DEF Progress, Target, UnwindOk, S!Leave, S!Place, Sample
<1>5. ASSUME UnwindErr PROVE Progress' /\ UNCHANGED threads
  BY <1>5, SessionAssumption DEF Progress, Target, UnwindErr, S!Place
<1>6. ASSUME Panic PROVE Progress' /\ UNCHANGED threads
  BY <1>6, SessionAssumption DEF Progress, Target, Panic, S!Place
<1>7. ASSUME SuspendReturns PROVE Progress' /\ UNCHANGED threads
  BY <1>7, SessionAssumption DEF Progress, Target, SuspendReturns, S!Return, S!Place, session
<1>8. ASSUME Record PROVE Progress'
  BY <1>8, SessionAssumption DEF Progress, Target, Record, CanRecord, S!Place
<1>9. ASSUME Finish PROVE Progress' /\ UNCHANGED threads
  BY <1>9, SessionAssumption DEF Progress, Target, Finish, S!Place
<1> QED
  BY <1>1, <1>2, <1>3, <1>4, <1>5, <1>6, <1>7, <1>8, <1>9 DEF Owner

\* A sample is added to the recording of the thread it was taken of.
LEMMA RecordKeepsRecording ==
  ASSUME Progress, Recording, Record
  PROVE  Recording'
<1>1. /\ thread \in Target /\ sample \in Sample /\ sample.thread = thread
      /\ threads' = [threads EXCEPT ![thread] = @ \cup {sample}]
  BY DEF Progress, Record
<1> QED
  BY <1>1 DEF Recording

LEMMA SessionStep ==
  ASSUME SessionInv, [Next]_vars
  PROVE  SessionInv'
<1>1. Progress /\ Recording
  BY InvParts
<1>2. ASSUME Owner PROVE Progress' /\ Recording'
  BY <1>1, <1>2, OwnerKeepsProgress, RecordKeepsRecording DEF Recording
<1>3. ASSUME NEW t \in Target, Program(t) PROVE Progress' /\ Recording'
  BY <1>1, <1>3, ProgramKeepsProgress DEF Recording
<1>4. ASSUME UNCHANGED vars PROVE Progress' /\ Recording'
  BY <1>1, <1>4 DEF vars, session, Progress, Recording, S!Place
<1>5. Progress' /\ Recording'
  BY <1>2, <1>3, <1>4 DEF Next
<1> QED
  BY <1>5 DEF SessionInv, TypeOK, SamplesAreSnapshots, Progress, Recording

LEMMA SessionInit == Init => SessionInv
<1> SUFFICES ASSUME Init PROVE SessionInv
  OBVIOUS
<1>1. Progress
  BY SessionAssumption DEF Init, S!Init, Progress, Target, S!Place
<1>2. Recording
  BY DEF Init, Recording
<1> QED
  BY <1>1, <1>2, InvParts

\* How far the session is says how far its call is, only the thread of that
\* call is ever suspended, and what is recorded was seen.
THEOREM SessionCorrect == Spec => []SessionInv
BY SessionInit, SessionStep, PTL DEF Spec

\* A session uses the sampler as Suspension allows: with what it adds left
\* out, every step of it is one of Suspension or none.
THEOREM SessionSuspends == Spec => S!Spec
<1>1. Init => S!Init
  BY DEF Init
<1>2. SessionInv /\ [Next]_vars => [S!Next]_(S!vars)
  <2> SUFFICES ASSUME SessionInv, [Next]_vars PROVE [S!Next]_(S!vars)
    OBVIOUS
  <2>1. ASSUME NEW t \in Target, Program(t) PROVE [S!Next]_(S!vars)
    BY <2>1 DEF Program, Run, Lock, Unlock, Stop, Resume, Target, S!Next, S!vars
  <2>2. CASE NewUnwinder
    <3>1. S!Ask(Sampler, thread) /\ thread \in Thread
      BY <2>2 DEF NewUnwinder, SessionInv, TypeOK, Target
    <3> QED
      BY <3>1, SessionAssumption DEF S!Next
  <2>3. CASE EnterCallback \/ UnwindOk \/ SuspendReturns
    BY <2>3, SessionAssumption DEF EnterCallback, UnwindOk, SuspendReturns, S!Next
  <2>4. CASE \/ \E t \in Target : SampleThread(t)
             \/ UnwindErr \/ Panic \/ Record \/ Finish
    BY <2>4 DEF SampleThread, UnwindErr, Panic, Record, Finish, S!vars
  <2> QED
    BY <2>1, <2>2, <2>3, <2>4 DEF Next, Owner, vars, S!vars
<1> QED
  BY <1>1, <1>2, SessionCorrect, PTL DEF Spec, S!Spec

\* Every sample recorded is a snapshot of the thread it is recorded under,
\* taken where that thread was held, also after walks that failed.
THEOREM SnapshotsCorrect == Spec => []SamplesAreSnapshots
<1>1. SessionInv => SamplesAreSnapshots
  BY DEF SessionInv
<1> QED
  BY <1>1, SessionCorrect, PTL

\* Creating the unwinder and recording the sample never wait for a lock that
\* a suspended thread holds: only a failing walk can.
THEOREM WaitsCorrect == Spec => []WaitsOnFrozenOnlyToPanic
<1>1. SessionInv => WaitsOnFrozenOnlyToPanic
  BY DEF SessionInv, WaitsOnFrozenOnlyToPanic, NeedsHeap, CanRecord
<1> QED
  BY <1>1, SessionCorrect, PTL

-------------------------------------------------------------------------------
(***************************************************************************)
(* Passes.                                                                 *)
(***************************************************************************)

\* How often t has been sampled in this pass: not while it is to come or being
\* sampled, once afterwards.
Taken(t) == IF t \in pending \/ thread = t THEN 0 ELSE 1

\* The invariant of the loop: threads are sampled in passes only, and one that
\* lived through the pass so far comes once, or has come.
LoopInv ==
  /\ LoopTypeOK
  /\ pending = None => stayed = {} /\ thread = None
  /\ \A t \in stayed : /\ t \in alive
                       /\ taken[t] = Taken(t)
                       /\ thread = t => t \notin pending

PassInv == SessionInv /\ LoopInv

LEMMA PassTypes ==
  ASSUME PassInv
  PROVE  /\ thread \in Target \cup {None}
         /\ pc = "idle" => thread = None
         /\ pending # None => pending \subseteq Thread
         /\ LoopTypeOK
<1>1. thread \in Target \cup {None} /\ (pc = "idle" => thread = None)
  BY DEF PassInv, SessionInv, TypeOK
<1>2. LoopTypeOK
  BY DEF PassInv, LoopInv
<1>3. pending # None => pending \subseteq Thread
  BY <1>2 DEF LoopTypeOK
<1> QED
  BY <1>1, <1>2, <1>3

\* Every step of the loop and of the threads is one of Session or none.
LEMMA PassImplements ==
  ASSUME PassInv, [PassNext]_allVars
  PROVE  [Next]_vars
<1>1. ASSUME NEW t \in Target, Live(t) PROVE [Next]_vars
  BY <1>1 DEF Live, Spawn, Exit, Leaves, Stops, Resumes, Next, Program
<1>2. ASSUME NEW t \in Target, Sample1(t) PROVE [Next]_vars
  BY <1>2 DEF Sample1, Next, Owner
<1>3. ASSUME Iterate \/ Skip \/ EndPass PROVE UNCHANGED vars
  BY <1>3 DEF Iterate, Skip, EndPass
<1>4. ASSUME Ask \/ Look \/ Unwind \/ Return \/ Push \/ Panic \/ Finish PROVE Owner
  BY <1>4 DEF Ask, Look, Unwind, Return, Push, Owner
<1> QED
  BY <1>1, <1>2, <1>3, <1>4 DEF PassNext, Loop, Next, allVars

\* A step that records nothing and leaves the loop alone.
LEMMA QuietKeepsLoop ==
  ASSUME LoopInv, UNCHANGED <<alive, pending, stayed, taken, thread>>, lost' \in BOOLEAN
  PROVE  LoopInv'
BY DEF LoopInv, LoopTypeOK, Taken

LEMMA LiveKeepsLoop ==
  ASSUME PassInv, NEW t \in Target, Live(t)
  PROVE  LoopInv'
<1>0. LoopInv /\ LoopTypeOK /\ t \in Thread /\ (pending # None => pending \subseteq Thread)
  BY PassTypes DEF PassInv, Target
<1>1. ASSUME Spawn(t) PROVE LoopInv'
  <2>1. /\ t \notin alive /\ alive' = alive \cup {t}
        /\ taken' = [taken EXCEPT ![t] = 0]
        /\ UNCHANGED <<lost, stayed, thread>>
        /\ pending' = pending \/ (pending # None /\ pending' = pending \cup {t})
    BY <1>1 DEF Spawn, Run, session
  <2>2. LoopTypeOK'
    BY <1>0, <2>1 DEF LoopTypeOK
  <2>3. t \notin stayed
    BY <1>0, <2>1 DEF LoopInv
  <2>4. \A u \in stayed : u \in pending' <=> u \in pending
    BY <2>1, <2>3
  <2>5. pending' = None => pending = None
    BY <1>0, <2>1, PassAssumption
  <2>6. \A u \in stayed : /\ u \in alive' /\ taken'[u] = Taken(u)'
                          /\ thread = u => u \notin pending'
    BY <1>0, <2>1, <2>3, <2>4 DEF LoopInv, LoopTypeOK, Taken
  <2> QED
    BY <1>0, <2>1, <2>2, <2>5, <2>6 DEF LoopInv
<1>2. ASSUME Exit(t) PROVE LoopInv'
  <2>1. /\ alive' = alive \ {t} /\ lost' \in BOOLEAN /\ stayed' = stayed \ {t}
        /\ UNCHANGED <<taken, thread>>
        /\ pending' = pending \/ (pending # None /\ pending' = pending \ {t})
    BY <1>0, <1>2 DEF Exit, vars, session, LoopTypeOK
  <2>2. LoopTypeOK'
    BY <1>0, <2>1 DEF LoopTypeOK
  <2>3. \A u \in stayed' : u \in stayed /\ (u \in pending' <=> u \in pending)
    BY <2>1
  <2>4. pending' = None => pending = None
    BY <1>0, <2>1, PassAssumption
  <2>5. \A u \in stayed' : /\ u \in alive' /\ taken[u] = Taken(u)'
                           /\ thread = u => u \notin pending'
    BY <1>0, <2>1, <2>3 DEF LoopInv, Taken
  <2> QED
    BY <1>0, <2>1, <2>2, <2>4, <2>5 DEF LoopInv
<1>3. ASSUME (Run(t) \/ Lock(t) \/ Unlock(t) \/ Stop(t) \/ Resume(t)) /\ UNCHANGED loop PROVE LoopInv'
  BY <1>0, <1>3, QuietKeepsLoop DEF Run, Lock, Unlock, Stop, Resume, session, loop, LoopTypeOK
<1> QED
  BY <1>1, <1>2, <1>3 DEF Live, Leaves, Stops, Resumes

LEMMA LoopKeepsLoop ==
  ASSUME PassInv, Loop
  PROVE  LoopInv'
<1>0. LoopInv /\ LoopTypeOK /\ (pending # None => pending \subseteq Thread)
  BY PassTypes DEF PassInv
<1>1. ASSUME Iterate PROVE LoopInv'
  <2>1. /\ thread = None /\ pending' = alive /\ stayed' = alive \ {Sampler}
        /\ taken' = NoneTaken
        /\ UNCHANGED <<alive, lost, thread>>
    BY <1>1, PassTypes DEF Iterate, vars, session
  <2>2. LoopTypeOK' /\ pending' # None
    BY <1>0, <2>1, PassAssumption DEF LoopTypeOK, Target, NoneTaken
  <2>3. \A t \in stayed' : /\ t \in Target /\ t \in alive' /\ thread' # t
                           /\ taken'[t] = 0 /\ Taken(t)' = 0
    BY <1>0, <2>1, SessionAssumption DEF LoopTypeOK, Target, Taken, NoneTaken
  <2> QED
    BY <2>2, <2>3 DEF LoopInv
<1>2. ASSUME Skip PROVE LoopInv'
  <2>1. /\ pending # None /\ pending' = pending \ {Sampler}
        /\ UNCHANGED <<alive, lost, stayed, taken, thread>>
    BY <1>2 DEF Skip, vars, session
  <2>2. \A t \in stayed : t # Sampler
    BY <1>0 DEF LoopTypeOK, Target
  <2>3. LoopTypeOK' /\ pending' # None
    BY <1>0, <2>1, PassAssumption DEF LoopTypeOK
  <2> QED
    BY <1>0, <2>1, <2>2, <2>3 DEF LoopInv, Taken
<1>3. ASSUME NEW t \in Target, Sample1(t) PROVE LoopInv'
  <2>1. /\ pending # None /\ t \in pending /\ pending' = pending \ {t}
        /\ thread = None /\ thread' = t
        /\ UNCHANGED <<alive, lost, stayed, taken>>
    BY <1>3, PassTypes DEF Sample1, SampleThread
  <2>2. LoopTypeOK' /\ pending' # None
    BY <1>0, <2>1, PassAssumption DEF LoopTypeOK
  <2>3. \A u \in stayed : u \in Target /\ Taken(u)' = Taken(u)
    BY <1>0, <2>1, SessionAssumption DEF Taken, LoopTypeOK, Target
  <2> QED
    BY <1>0, <2>1, <2>2, <2>3 DEF LoopInv
<1>4. ASSUME EndPass PROVE LoopInv'
  <2>1. /\ pending' = None /\ stayed' = {} /\ taken' = NoneTaken
        /\ thread' = None /\ UNCHANGED <<alive, lost>>
    BY <1>4, PassTypes DEF EndPass, vars, session
  <2>2. LoopTypeOK'
    BY <1>0, <2>1 DEF LoopTypeOK, NoneTaken
  <2> QED
    BY <2>1, <2>2 DEF LoopInv
<1>5. ASSUME Push PROVE LoopInv'
  <2>1. /\ thread \in Target /\ taken' = [taken EXCEPT ![thread] = @ + 1]
        /\ thread' = None /\ UNCHANGED <<alive, pending, lost, stayed>>
    BY <1>5 DEF Push, Record, PassInv, SessionInv, TypeOK
  <2>2. LoopTypeOK' /\ None \notin Target
    BY <1>0, <2>1, SessionAssumption DEF LoopTypeOK, Target
  <2>3. ASSUME NEW u \in stayed PROVE taken'[u] = Taken(u)'
    <3>1. /\ u \in Target /\ taken[u] = Taken(u) /\ (thread = u => u \notin pending)
      BY <1>0 DEF LoopInv, LoopTypeOK
    <3>2. CASE u = thread
      <4>1. Taken(u) = 0 /\ Taken(u)' = 1
        BY <2>1, <2>2, <3>1, <3>2 DEF Taken
      <4>2. taken'[u] = taken[u] + 1
        BY <1>0, <2>1, <3>1, <3>2 DEF LoopTypeOK
      <4> QED
        BY <3>1, <4>1, <4>2
    <3>3. CASE u # thread
      <4>1. Taken(u)' = Taken(u)
        BY <2>1, <2>2, <3>1, <3>3 DEF Taken
      <4>2. taken'[u] = taken[u]
        BY <1>0, <2>1, <3>1, <3>3 DEF LoopTypeOK
      <4> QED
        BY <3>1, <4>1, <4>2
    <3> QED
      BY <3>2, <3>3
  <2>4. \A u \in stayed : u # thread'
    BY <1>0, <2>1, <2>2 DEF LoopTypeOK
  <2> QED
    BY <1>0, <2>1, <2>2, <2>3, <2>4 DEF LoopInv
<1>6. ASSUME Ask PROVE LoopInv'
  BY <1>0, <1>6, QuietKeepsLoop DEF Ask, NewUnwinder
<1>7. ASSUME Look \/ Unwind \/ Return \/ (Panic /\ UNCHANGED loop) PROVE LoopInv'
  BY <1>0, <1>7, QuietKeepsLoop
  DEF Look, Unwind, Return, EnterCallback, UnwindOk, UnwindErr, SuspendReturns, Panic, session, loop, LoopTypeOK
<1>8. ASSUME pending = None /\ Finish /\ UNCHANGED loop PROVE LoopInv'
  BY <1>0, <1>8, QuietKeepsLoop DEF Finish, loop, LoopTypeOK
<1> QED
  BY <1>1, <1>2, <1>3, <1>4, <1>5, <1>6, <1>7, <1>8 DEF Loop

LEMMA PassStep ==
  ASSUME PassInv, [PassNext]_allVars
  PROVE  PassInv'
<1>1. SessionInv'
  BY PassImplements, SessionStep DEF PassInv
<1>2. ASSUME UNCHANGED allVars PROVE LoopInv'
  <2>1. UNCHANGED <<alive, pending, lost, stayed, taken, thread>>
    BY <1>2 DEF allVars, vars, session, loop
  <2> QED
    BY <2>1, QuietKeepsLoop DEF PassInv, LoopInv, LoopTypeOK
<1> QED
  BY <1>1, <1>2, LiveKeepsLoop, LoopKeepsLoop DEF PassInv, PassNext

\* A thread that lived through the pass so far is still to come, being
\* sampled, or has been sampled once.
THEOREM PassInvariant == PassSpec => []PassInv
<1>1. PassInit => PassInv
  <2> SUFFICES ASSUME PassInit PROVE LoopInv
    BY SessionInit DEF PassInit, PassInv
  <2>1. /\ alive \in SUBSET Thread /\ pending = None /\ lost = FALSE /\ stayed = {}
        /\ taken = NoneTaken /\ thread = None
    BY DEF PassInit, Init
  <2>2. LoopTypeOK
    BY <2>1 DEF LoopTypeOK, NoneTaken
  <2> QED
    BY <2>1, <2>2 DEF LoopInv
<1> QED
  BY <1>1, PassStep, PTL DEF PassSpec

\* With threads that start and terminate, ids that are used again and signals
\* that are lost, what happens is still a behaviour of Session: its
\* invariants hold in every pass.
THEOREM PassesImplement == PassSpec => Spec
<1>1. PassInit => Init
  BY DEF PassInit
<1> QED
  BY <1>1, PassInvariant, PassImplements, PTL DEF PassSpec, Spec

\* In each pass every thread that lives through it is sampled exactly once.
THEOREM EachThreadCorrect == PassSpec => []EachThreadOnce
<1>1. ASSUME PassInv PROVE EachThreadOnce
  <2> SUFFICES ASSUME pc = "idle", pending = {}, NEW t \in stayed
               PROVE  taken[t] = 1
    BY DEF EachThreadOnce
  <2>1. t \in Target /\ thread = None /\ LoopInv
    BY <1>1, PassTypes DEF PassInv, LoopTypeOK
  <2>2. Taken(t) = 1
    BY <2>1, SessionAssumption DEF Taken, Target
  <2> QED
    BY <2>1, <2>2 DEF LoopInv
<1> QED
  BY <1>1, PassInvariant, PTL

===============================================================================
