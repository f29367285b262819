--------------------------- MODULE MachSamplerProofs ---------------------------
(***************************************************************************)
(* Theorems about MachSampler and MachWalk: the balance of the kernel's    *)
(* suspend counts, for callbacks that return and threads that stay the     *)
(* refinement of Suspension, and the walk of a stack that does not change  *)
(* under it, for any number of threads.                                    *)
(***************************************************************************)
EXTENDS MachWalk, UnwinderProofs, FiniteSetTheorems, TLAPS

-------------------------------------------------------------------------------
(* The inductive invariant                                                 *)

LEMMA MachInit == Init => MachInv
BY MachAssumption DEF Init, MachInv, TypeOK, FrozenContext, Holding

\* The sampled program runs only where it is not suspended; its threads may
\* terminate anywhere.
LEMMA ProgramKeepsInv ==
  ASSUME MachInv, NEW t \in Thread, Run(t) \/ Exit(t)
  PROVE  MachInv'
<1>1. CASE Run(t)
  BY <1>1, MachAssumption DEF Run, Executes, MachInv, TypeOK, FrozenContext, Holding, Place, MayTarget
<1>2. CASE Exit(t)
  BY <1>2, MachAssumption DEF Exit, MachInv, TypeOK, FrozenContext, Holding, Place, MayTarget
<1> QED
  BY <1>1, <1>2

LEMMA CallKeepsInv ==
  ASSUME MachInv, NEW s \in Thread, NEW t \in Thread, Call(s, t)
  PROVE  MachInv'
BY MachAssumption DEF Call, Goto, MayTarget, MachInv, TypeOK, FrozenContext, Holding, Place

\* Every step of a call, those that end it by a panic included.
LEMMA CallerKeepsInv ==
  ASSUME MachInv, NEW s \in Thread, Caller(s)
  PROVE  MachInv'
<1> USE MachAssumption DEF MachInv, TypeOK, FrozenContext, Holding, Place, Goto, Leave, MayTarget
<1>1. CASE Suspend(s)
  BY <1>1 DEF Suspend
<1>2. CASE SuspendFails(s)
  BY <1>2 DEF SuspendFails
<1>3. CASE GetState(s)
  BY <1>3 DEF GetState
<1>4. CASE GetStateFails(s)
  BY <1>4 DEF GetStateFails
<1>5. CASE CallbackReturns(s)
  BY <1>5 DEF CallbackReturns
<1>6. CASE CallbackPanics(s)
  BY <1>6 DEF CallbackPanics
<1>7. CASE Resume(s)
  BY <1>7 DEF Resume
<1>8. CASE ResumeFails(s)
  BY <1>8 DEF ResumeFails
<1>9. CASE Return(s)
  BY <1>9 DEF Return
<1> QED
  BY <1>1, <1>2, <1>3, <1>4, <1>5, <1>6, <1>7, <1>8, <1>9 DEF Caller

LEMMA MachStep ==
  ASSUME MachInv, [Next]_vars
  PROVE  MachInv'
<1>1. CASE UNCHANGED vars
  BY <1>1 DEF vars, MachInv, TypeOK, FrozenContext, Holding, Place, MayTarget
<1> QED
  BY <1>1, ProgramKeepsInv, CallKeepsInv, CallerKeepsInv DEF Next

\* The invariant holds for any number of threads, also when callbacks panic,
\* thread_get_state fails and threads terminate.
THEOREM MachCorrect == Spec => []MachInv
BY MachInit, MachStep, PTL DEF Spec

\* A callback is given the registers of the thread asked for, held there.
THEOREM MachContextCorrect == Spec => []FrozenContext
<1>1. MachInv => FrozenContext
  BY DEF MachInv
<1> QED
  BY <1>1, MachCorrect, PTL

\* The kernel's counts are balanced: no suspension is undone twice, none is
\* forgotten but those a panic leaves behind.
THEOREM BalanceCorrect == Spec => []SuspensionsBalanced
<1>1. ASSUME MachInv, NEW t \in Thread
      PROVE  suspend_count[t]
               = Cardinality({s \in Thread : Holding(s) /\ target[s] = t}) + left[t]
  <2> DEFINE Holders == {s \in Thread : Holding(s) /\ target[s] = t}
  <2> SUFFICES suspend_count[t] = Cardinality(Holders) + left[t]
    OBVIOUS
  <2>1. suspend_count[t] \in Nat /\ left[t] \in Nat
    BY <1>1, MachAssumption DEF MachInv, TypeOK
  <2>2. CASE Holders = {}
    <3>1. suspend_count[t] = left[t]
      BY <1>1, <2>2 DEF MachInv
    <3>2. Cardinality(Holders) = 0
      BY <2>2, FS_EmptySet
    <3> HIDE DEF Holders
    <3> QED
      BY <2>1, <3>1, <3>2
  <2>3. CASE Holders # {}
    <3>1. PICK s \in Thread : Holding(s) /\ target[s] = t
      BY <2>3
    <3>2. Holders = {s}
      BY <1>1, <3>1 DEF MachInv, Holding
    <3>3. suspend_count[t] = left[t] + 1
      BY <1>1, <3>1 DEF MachInv
    <3> HIDE DEF Holders
    <3>4. Cardinality(Holders) = 1
      BY <3>2, FS_Singleton
    <3> QED
      BY <2>1, <3>3, <3>4
  <2> QED
    BY <2>2, <2>3
<1>2. MachInv => SuspensionsBalanced
  BY <1>1 DEF SuspensionsBalanced
<1> QED
  BY <1>2, MachCorrect, PTL

-------------------------------------------------------------------------------
(* The refinement                                                          *)

\* With callbacks that return and threads that stay nothing is left behind,
\* so a thread is suspended exactly while a call holds it.
NothingLeft ==
  /\ MachInv
  /\ alive = Thread
  /\ left = [t \in Thread |-> 0]

\* The refinement mapping's set of suspended threads.
Frozen == {t \in Thread : suspend_count[t] > 0}

\* The abstract call, case by case.
LEMMA AbstractCallLemma ==
  ASSUME TypeOK
  PROVE  /\ AbstractCall \in [Thread -> {"out", "asked", "inside", "leaving"}]
         /\ \A s \in Thread :
              /\ AbstractCall[s] = "out" <=> pc[s] = "out"
              /\ AbstractCall[s] = "asked" <=> pc[s] \in {"suspend", "get_state"}
              /\ AbstractCall[s] = "inside" <=> pc[s] = "callback"
              /\ AbstractCall[s] = "leaving" <=> pc[s] \in {"resume", "return"}
<1>1. \A s \in Thread :
        AbstractCall[s] = IF pc[s] = "out" THEN "out"
                          ELSE IF pc[s] \in {"suspend", "get_state"} THEN "asked"
                          ELSE IF pc[s] = "callback" THEN "inside" ELSE "leaving"
  BY DEF AbstractCall, TypeOK
<1> QED
  BY <1>1 DEF AbstractCall, TypeOK

\* A step of the call of s moves the abstract call to the place it maps to.
LEMMA AbstractCallStep ==
  ASSUME TypeOK, NEW s \in Thread, NEW from, NEW to, Goto(s, from, to)
  PROVE  AbstractCall' = [AbstractCall EXCEPT ![s] =
           CASE to = "out" -> "out"
             [] to \in {"suspend", "get_state"} -> "asked"
             [] to = "callback" -> "inside"
             [] OTHER -> "leaving"]
BY DEF AbstractCall, TypeOK, Goto

LEMMA NothingLeftStep ==
  ASSUME Failing = {}, ThreadsExit = FALSE, NothingLeft, [Next]_vars
  PROVE  NothingLeft'
<1>1. MachInv'
  BY MachStep DEF NothingLeft
<1>2. UNCHANGED <<alive, left>>
  <2>1. \A s \in Thread : pc[s] # "out" => target[s] \in alive
    BY DEF NothingLeft, MachInv
  <2>2. \A s \in Thread : ~GetStateFails(s) /\ ~ResumeFails(s) /\ ~CallbackPanics(s)
    BY <2>1 DEF GetStateFails, ResumeFails, CallbackPanics, Fallible, Leave, Goto
  <2> QED
    BY <2>2 DEF Next, vars, Run, Exit, Call, Caller, Suspend, SuspendFails, GetState,
                CallbackReturns, Resume, Return
<1> QED
  BY <1>1, <1>2 DEF NothingLeft

\* Every step is one of Suspension's, or none.
LEMMA RefinementStep ==
  ASSUME Failing = {}, ThreadsExit = FALSE, NothingLeft, [Next]_vars
  PROVE  [Abstract!Next]_(Abstract!vars)
<1> USE MachAssumption
<1>1. MachInv /\ TypeOK /\ alive = Thread /\ \A t \in Thread : left[t] = 0
  BY DEF NothingLeft, MachInv
<1>2. ASSUME NEW t \in Thread, Run(t) PROVE Abstract!Run(t)
  <2>1. AbstractCall' = AbstractCall
    BY <1>2 DEF Run, AbstractCall
  <2>2. Frozen' = Frozen /\ t \notin Frozen
    BY <1>2 DEF Run, Executes, Frozen
  <2> QED
    BY <1>2, <2>1, <2>2 DEF Run, Frozen, Abstract!Run
<1>3. ASSUME NEW t \in Thread, Exit(t) PROVE FALSE
  BY <1>3 DEF Exit
<1>4. ASSUME NEW s \in Thread, NEW t \in Thread, Call(s, t) PROVE Abstract!Ask(s, t)
  <2>1. AbstractCall' = [AbstractCall EXCEPT ![s] = "asked"]
    BY <1>1, <1>4, AbstractCallStep DEF Call
  <2> QED
    BY <1>1, <1>4, <2>1, AbstractCallLemma DEF Call, Goto, Abstract!Ask
<1>5. ASSUME NEW s \in Thread, NEW t \in Thread, target[s] = t, Suspend(s)
      PROVE  Abstract!Freeze(t)
  <2>1. AbstractCall' = AbstractCall
    <3>1. AbstractCall' = [AbstractCall EXCEPT ![s] = "asked"]
      BY <1>1, <1>5, AbstractCallStep DEF Suspend
    <3>2. AbstractCall \in [Thread -> {"out", "asked", "inside", "leaving"}]
      BY <1>1, AbstractCallLemma
    <3>3. AbstractCall[s] = "asked"
      BY <1>1, <1>5, AbstractCallLemma DEF Suspend, Goto
    <3> QED
      BY <3>1, <3>2, <3>3
  <2>2. target[s] \in Thread /\ pc[s] = "suspend"
    BY <1>1, <1>5 DEF MachInv, Suspend, Goto
  <2>3. Frozen' = Frozen \cup {target[s]}
    BY <1>1, <1>5, <2>2 DEF Frozen, Suspend, MachInv, TypeOK
  <2> QED
    BY <1>1, <1>5, <2>1, <2>2, <2>3, AbstractCallLemma DEF Suspend, Frozen, Abstract!Freeze
<1>6. ASSUME NEW s \in Thread, SuspendFails(s) PROVE FALSE
  BY <1>1, <1>6 DEF SuspendFails, Fallible, Leave, Goto, MachInv
<1>7. ASSUME NEW s \in Thread, GetState(s) PROVE Abstract!Look(s)
  <2>1. AbstractCall' = [AbstractCall EXCEPT ![s] = "inside"]
    BY <1>1, <1>7, AbstractCallStep DEF GetState
  <2>2. pc[s] = "get_state" /\ target[s] \in Frozen
    BY <1>1, <1>7 DEF MachInv, TypeOK, Holding, GetState, Goto, Frozen
  <2> QED
    BY <1>1, <1>7, <2>1, <2>2, AbstractCallLemma
    DEF GetState, Goto, Frozen, Abstract!Look, Abstract!Place, Place
<1>8. ASSUME NEW s \in Thread, CallbackReturns(s) PROVE Abstract!Leave(s)
  <2>1. AbstractCall' = [AbstractCall EXCEPT ![s] = "leaving"]
    BY <1>1, <1>8, AbstractCallStep DEF CallbackReturns
  <2> QED
    BY <1>1, <1>8, <2>1, AbstractCallLemma DEF CallbackReturns, Goto, Abstract!Leave
<1>9. ASSUME NEW s \in Thread, NEW t \in Thread, target[s] = t, Resume(s)
      PROVE  Abstract!Thaw(t)
  <2>1. AbstractCall' = AbstractCall
    <3>1. AbstractCall' = [AbstractCall EXCEPT ![s] = "leaving"]
      BY <1>1, <1>9, AbstractCallStep DEF Resume
    <3>2. AbstractCall \in [Thread -> {"out", "asked", "inside", "leaving"}]
      BY <1>1, AbstractCallLemma
    <3>3. AbstractCall[s] = "leaving"
      BY <1>1, <1>9, AbstractCallLemma DEF Resume, Goto
    <3> QED
      BY <3>1, <3>2, <3>3
  <2>2. target[s] \in Thread /\ pc[s] = "resume"
    BY <1>1, <1>9 DEF MachInv, Resume, Goto
  <2>3. Frozen' = Frozen \ {target[s]}
    <3>1. suspend_count \in [Thread -> Nat] /\ suspend_count[target[s]] = 1
      BY <1>1, <2>2 DEF MachInv, TypeOK, Holding
    <3>2. suspend_count' = [suspend_count EXCEPT ![target[s]] = 0]
      BY <1>9, <3>1 DEF Resume
    <3> QED
      BY <2>2, <3>1, <3>2 DEF Frozen
  <2> QED
    BY <1>1, <1>9, <2>1, <2>2, <2>3, AbstractCallLemma DEF Resume, Frozen, Abstract!Thaw
<1>10. ASSUME NEW s \in Thread, Return(s) PROVE Abstract!Return(s)
  <2>1. AbstractCall' = [AbstractCall EXCEPT ![s] = "out"]
    BY <1>1, <1>10, AbstractCallStep DEF Return, Leave
  <2>2. pc[s] = "return" /\ target[s] \notin Frozen
    BY <1>1, <1>10 DEF MachInv, TypeOK, Holding, Return, Leave, Goto, Frozen
  <2> QED
    BY <1>1, <1>10, <2>1, <2>2, AbstractCallLemma
    DEF Return, Leave, Goto, Frozen, Abstract!Return
<1>11. ASSUME UNCHANGED vars PROVE UNCHANGED Abstract!vars
  BY <1>11 DEF vars, Abstract!vars, AbstractCall
<1>12. ASSUME NEW s \in Thread, GetStateFails(s) \/ CallbackPanics(s) \/ ResumeFails(s) PROVE FALSE
  BY <1>1, <1>12 DEF GetStateFails, CallbackPanics, ResumeFails, Fallible, Leave, Goto, MachInv
<1>13. ASSUME NEW s \in Thread, Caller(s) PROVE Abstract!Next
  <2>1. target[s] \in Thread \/ pc[s] = "out"
    BY <1>1 DEF MachInv
  <2>2. pc[s] # "out"
    BY <1>13 DEF Caller, Suspend, SuspendFails, GetState, GetStateFails, CallbackReturns,
                 CallbackPanics, Resume, ResumeFails, Return, Leave, Goto
  <2>3. CASE Suspend(s)
    <3>1. PICK t \in Thread : target[s] = t
      BY <2>1, <2>2
    <3>2. Abstract!Freeze(t)
      BY <1>5, <2>3, <3>1
    <3> QED
      BY <3>2 DEF Abstract!Next
  <2>4. CASE GetState(s) \/ CallbackReturns(s) \/ Return(s)
    BY <1>7, <1>8, <1>10, <2>4 DEF Abstract!Next
  <2>5. CASE Resume(s)
    <3>1. PICK t \in Thread : target[s] = t
      BY <2>1, <2>2
    <3>2. Abstract!Thaw(t)
      BY <1>9, <2>5, <3>1
    <3> QED
      BY <3>2 DEF Abstract!Next
  <2> QED
    BY <1>6, <1>12, <1>13, <2>3, <2>4, <2>5 DEF Caller
<1>14. ASSUME NEW t \in Thread, Run(t) \/ Exit(t) PROVE Abstract!Next
  BY <1>2, <1>3, <1>14 DEF Abstract!Next
<1>15. ASSUME NEW s \in Thread, NEW t \in Thread, Call(s, t) PROVE Abstract!Next
  BY <1>4, <1>15 DEF Abstract!Next
<1> QED
  BY <1>11, <1>13, <1>14, <1>15 DEF Next

LEMMA RefinementInit == Init => Abstract!Init
BY DEF Init, Abstract!Init, AbstractCall

\* The Mach calls implement Suspension, as the signal handshake does on
\* Linux: with callbacks that return and threads that stay, every behaviour
\* of the macOS sampler is one of Suspension.
THEOREM MachSuspensionImplemented ==
  ASSUME Failing = {}, ThreadsExit = FALSE
  PROVE  Spec => ImplementsSuspension
<1>1. Init => NothingLeft
  BY MachInit DEF Init, NothingLeft
<1>2. NothingLeft /\ [Next]_vars => NothingLeft'
  BY NothingLeftStep
<1>3. NothingLeft /\ [Next]_vars => [Abstract!Next]_(Abstract!vars)
  BY RefinementStep
<1> QED
  BY <1>1, <1>2, <1>3, RefinementInit, PTL DEF Spec, ImplementsSuspension, Abstract!Spec

-------------------------------------------------------------------------------
(* The walk in the callback                                                *)

LEMMA WalkLeavesCall ==
  ASSUME NEW s \in Thread, Walk(s) \/ UNCHANGED sampleVars
  PROVE  UNCHANGED vars
BY DEF Walk, sampleVars, vars

\* A sample is a call of the sampler.
LEMMA SampleIsCall ==
  ASSUME [SampleNext]_sampleVars
  PROVE  [Next]_vars
<1>1. ASSUME NEW s \in Thread, Sampling(s) PROVE Caller(s) \/ UNCHANGED vars
  BY <1>1, WalkLeavesCall DEF Sampling, Around, WalkReturns, WalkPanics, Caller
<1>2. ASSUME NEW t \in Thread, RunOnStack(t) \/ (Exit(t) /\ UNCHANGED walkVars)
      PROVE  Run(t) \/ Exit(t)
  BY <1>2 DEF RunOnStack
<1>3. ASSUME NEW s \in Thread, NEW t \in Thread, SampleOnce(s, t) PROVE Call(s, t)
  BY <1>3 DEF SampleOnce
<1>4. ASSUME UNCHANGED sampleVars PROVE UNCHANGED vars
  BY <1>4 DEF sampleVars, vars
<1> QED
  BY <1>1, <1>2, <1>3, <1>4 DEF SampleNext, Next

\* A thread that is being walked is held, so it does not run.
LEMMA StackStays ==
  ASSUME MachInv, NEW t \in Thread, RunOnStack(t)
  PROVE  UNCHANGED walkVars
<1>1. ~Walked(t)
  BY DEF Walked, RunOnStack, Run, Executes, MachInv, FrozenContext
<1> QED
  BY <1>1 DEF RunOnStack, walkVars

\* A sample is a walk of one stack, which nobody changes.
LEMMA SampleIsWalk ==
  ASSUME MachInv, [SampleNext]_sampleVars
  PROVE  [WalkNext]_walkVars
<1>1. ASSUME NEW s \in Thread, Walk(s) PROVE WalkNext
  <2>1. context[s] = Place(target[s]) /\ target[s] \in Thread
    BY <1>1 DEF Walk, MachInv, FrozenContext
  <2>2. context[s].ip \in Code
    BY <2>1, WalkAssumption DEF Place, MachInv, TypeOK
  <2> QED
    BY <1>1, <2>2 DEF Walk, WalkNext
<1>2. ASSUME NEW s \in Thread, Sampling(s) PROVE WalkNext \/ UNCHANGED walkVars
  BY <1>1, <1>2 DEF Sampling, WalkReturns, WalkPanics, WalkNext
<1>3. ASSUME NEW t \in Thread, RunOnStack(t) \/ (Exit(t) /\ UNCHANGED walkVars)
      PROVE  UNCHANGED walkVars
  BY <1>3, StackStays
<1>4. ASSUME NEW s \in Thread, NEW t \in Thread, SampleOnce(s, t) PROVE WalkNext
  BY <1>4 DEF SampleOnce, WalkNext
<1>5. ASSUME UNCHANGED sampleVars PROVE UNCHANGED walkVars
  BY <1>5 DEF sampleVars
<1> QED
  BY <1>2, <1>3, <1>4, <1>5 DEF SampleNext

\* Put together, each part keeps its promises: what is proved of the sampler
\* and of the walk by themselves is true of samples.  The second half holds
\* because the thread is suspended from the first step of the walk to the
\* last.
THEOREM SampleImplementsParts == SampleSpec => ImplementsParts
<1>1. SampleInit => Init /\ WalkInit
  BY DEF SampleInit
<1>2. [SampleNext]_sampleVars => [Next]_vars
  BY SampleIsCall
<1>3. MachInv /\ [SampleNext]_sampleVars => [WalkNext]_walkVars
  BY SampleIsWalk
<1>4. SampleSpec => Spec
  BY <1>1, <1>2, PTL DEF SampleSpec, Spec
<1> QED
  BY <1>1, <1>3, <1>4, MachCorrect, PTL DEF SampleSpec, WalkSpec, ImplementsParts

\* A sample is one stretch of the call chain of a thread that is held, also
\* when other samples have failed and threads terminate.
THEOREM SampleCorrect ==
  SampleSpec => [](MachInv /\ CallersInOrder /\ NoAllocation /\ OkIsComplete)
BY SampleImplementsParts, MachCorrect, WalkCorrect, PTL DEF ImplementsParts

===============================================================================
