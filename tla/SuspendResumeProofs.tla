-------------------------- MODULE SuspendResumeProofs --------------------------
(***************************************************************************)
(* Theorems about SuspendResume: the type invariant, the inductive         *)
(* invariant of the handshake and the safety properties that follow from   *)
(* it, for any number of threads.                                          *)
(***************************************************************************)
EXTENDS SuspendResume, TLAPS

-------------------------------------------------------------------------------
(* Typing                                                                  *)

\* A semaphore that can be taken is a positive number; taking and posting
\* lead from a semaphore to a semaphore.
LEMMA SemaphoreLemma ==
  ASSUME NEW sem \in Semaphore
  PROVE  /\ CanTake(sem) => sem \in Nat /\ sem > 0 /\ sem - 1 \in Nat
         /\ sem = None \/ CanTake(sem) => Taken(sem) \in Semaphore
         /\ Posted(sem) \in Semaphore
BY NoneAssumption DEF Semaphore, CanTake, Taken, Posted

\* Every variable keeps its type: in particular no semaphore of SHARED_STATE
\* is ever decremented below zero, or posted to while it is None.
THEOREM TypeCorrect == Spec => []TypeOK
<1>1. Init => TypeOK
  BY DEF Init, TypeOK, CallPoint, HandlerPoint, Semaphore
<1>2. TypeOK /\ [Next]_vars => TypeOK'
  <2> SUFFICES ASSUME TypeOK, [Next]_vars PROVE TypeOK'
    OBVIOUS
  <2> USE DEF TypeOK
  <2>1. ASSUME NEW s \in Thread, NEW t \in Thread, Call(s, t) PROVE TypeOK'
    BY <2>1 DEF Call, CallStep, CallPoint, ResetSharedState, Semaphore
  <2>2. ASSUME NEW s \in Thread, Caller(s) PROVE TypeOK'
    <3>1. CASE SendSignal(s)
      BY <3>1 DEF SendSignal, CallStep, CallPoint, shared
    <3>2. CASE WaitMsg2(s)
      BY <3>2, SemaphoreLemma DEF WaitMsg2, CallStep, Unwrap, CallPoint, Semaphore
    <3>3. CASE ReadContext(s)
      BY <3>3 DEF ReadContext, CallStep, Unwrap, CallPoint, shared
    <3>4. CASE CallbackReturns(s)
      BY <3>4 DEF CallbackReturns, CallStep, CallPoint, shared
    <3>5. CASE CallbackPanics(s)
      BY <3>5 DEF CallbackPanics, CallStep, CallPoint, shared
    <3>6. CASE PostMsg3(s)
      BY <3>6, SemaphoreLemma DEF PostMsg3, CallStep, Unwrap, CallPoint, Semaphore
    <3>7. CASE WaitMsg4(s)
      BY <3>7, SemaphoreLemma DEF WaitMsg4, CallStep, Unwrap, CallPoint, Semaphore
    <3>8. CASE Clear(s)
      BY <3>8 DEF Clear, CallStep, CallPoint, ClearSharedState, Semaphore
    <3> QED
      BY <2>2, <3>1, <3>2, <3>3, <3>4, <3>5, <3>6, <3>7, <3>8 DEF Caller
  <2>3. ASSUME NEW t \in Thread, Handler(t) PROVE TypeOK'
    <3>1. CASE Deliver(t)
      BY <3>1 DEF Deliver, HandlerStep, HandlerPoint, shared
    <3>2. CASE CopyContext(t)
      BY <3>2 DEF CopyContext, HandlerStep, HandlerPoint, ContextOf, Context
    <3>3. CASE PostMsg2(t)
      BY <3>3, SemaphoreLemma DEF PostMsg2, HandlerStep, Unwrap, HandlerPoint, Semaphore
    <3>4. CASE EnterMsg3(t)
      BY <3>4 DEF EnterMsg3, HandlerStep, Unwrap, HandlerPoint, shared
    <3>5. CASE WaitMsg3(t)
      BY <3>5, SemaphoreLemma DEF WaitMsg3, HandlerStep, HandlerPoint, Semaphore
    <3>6. CASE PostMsg4(t)
      BY <3>6, SemaphoreLemma DEF PostMsg4, HandlerStep, Unwrap, HandlerPoint, Semaphore
    <3>7. CASE HandlerReturns(t)
      BY <3>7 DEF HandlerReturns, HandlerStep, HandlerPoint, shared
    <3> QED
      BY <2>3, <3>1, <3>2, <3>3, <3>4, <3>5, <3>6, <3>7 DEF Handler
  <2>4. ASSUME NEW t \in Thread, Interrupted(t) \/ Retry(t) PROVE TypeOK'
    BY <2>4 DEF Interrupted, Retry, shared
  <2>5. ASSUME NEW t \in Thread, Run(t) PROVE TypeOK'
    BY <2>5 DEF Run, shared
  <2>6. ASSUME NEW t \in Thread, Exit(t) PROVE TypeOK'
    BY <2>6 DEF Exit, shared
  <2>7. CASE UNCHANGED vars
    BY <2>7 DEF vars, shared
  <2> QED
    BY <2>1, <2>2, <2>3, <2>4, <2>5, <2>6, <2>7 DEF Next
<1> QED
  BY <1>1, <1>2, PTL DEF Spec

-------------------------------------------------------------------------------
(* The inductive invariant                                                 *)

\* The part of the invariant that also holds after a callback has panicked.
BatonInv == Actors /\ NoCall /\ Baton

\* While s is in a call, every other thread is outside.
LEMMA OnlyCaller ==
  ASSUME Actors, NEW s \in Thread, pc[s] # "out"
  PROVE  \A u \in Thread \ {s} : pc[u] = "out"
BY DEF Actors

\* Whoever can move in a handler can do so because of the one call in
\* progress, and the place of that call is known.
LEMMA HandlerMover ==
  ASSUME TypeOK, BatonInv, NEW t \in Thread
  PROVE  /\ t \in pending => \E s \in Thread :
              /\ pc[s] = "wait2" /\ target[s] = t /\ pending = {t}
              /\ Tokens(0, 0, 0) /\ context = None /\ Settled
         /\ handler[t] = "copy" => \E s \in Thread :
              /\ pc[s] = "wait2" /\ target[s] = t /\ pending = {}
              /\ Tokens(0, 0, 0) /\ context = None /\ SettledBut(t)
         /\ handler[t] = "post2" => \E s \in Thread :
              /\ pc[s] = "wait2" /\ target[s] = t /\ pending = {}
              /\ Tokens(0, 0, 0) /\ context = ContextOf(t) /\ SettledBut(t)
         /\ CanTake(msg3) => \E s \in Thread :
              pc[s] = "wait4" /\ pending = {} /\ Tokens(0, 1, 0) /\ Settled
         /\ handler[t] = "post4" => \E s \in Thread :
              pc[s] = "wait4" /\ pending = {} /\ Tokens(0, 0, 0) /\ SettledBut(t)
<1> USE DEF TypeOK, BatonInv
<1>1. CASE \A s \in Thread : pc[s] = "out"
  BY <1>1, NoneAssumption DEF NoCall, Settled, Settling, Tokens, CanTake
<1>2. ASSUME NEW s \in Thread, pc[s] # "out" 
      PROVE  \/ pc[s] = "signal" /\ Tokens(0, 0, 0) /\ pending = {} /\ Settled
             \/ pc[s] = "wait2" /\ Asking(s)
             \/ pc[s] \in {"read", "callback", "post3", "clear"} /\ Tokens(0, 0, 0) /\ pending = {} /\ Settled
             \/ pc[s] = "wait4" /\ Releasing(s)
  BY <1>2 DEF Baton, Asking, Holding, Releasing, CallPoint
<1>3. ASSUME NEW s \in Thread, pc[s] = "wait2", Asking(s) 
      PROVE  LET u == target[s] IN
             \/ Tokens(0, 0, 0) /\ context = None /\ pending \subseteq {u} /\ Settled
             \/ /\ pending = {} /\ Tokens(0, 0, 0) /\ context = None
                /\ handler[u] = "copy" /\ SettledBut(u)
             \/ /\ pending = {} /\ Tokens(0, 0, 0) /\ context = ContextOf(u)
                /\ handler[u] = "post2" /\ SettledBut(u)
             \/ pending = {} /\ Tokens(1, 0, 0) /\ Settled
  BY <1>3 DEF Asking
<1>4. ASSUME NEW s \in Thread, pc[s] = "wait4", Releasing(s) 
      PROVE  /\ pending = {}
             /\ \/ Tokens(0, 1, 0) /\ Settled
                \/ /\ Tokens(0, 0, 0)
                   /\ \E u \in Thread : handler[u] = "post4" /\ SettledBut(u)
                \/ Tokens(0, 0, 1) /\ Settled
  BY <1>4 DEF Releasing
<1> QED
  BY <1>1, <1>2, <1>3, <1>4, NoneAssumption DEF Settled, Settling, SettledBut, Tokens, CanTake, HandlerPoint

\* A step of the call itself.  All of it is decided by the caller's own
\* place, since nobody else is in a call.
LEMMA CallerKeepsBaton ==
  ASSUME TypeOK, BatonInv, NEW s \in Thread, Caller(s)
  PROVE  BatonInv'
<1> USE NoneAssumption DEF TypeOK, BatonInv
<1>0. pc[s] # "out" /\ OnItsOwn(s) /\ s \in alive /\ handler[s] = "none"
  BY DEF Caller, SendSignal, WaitMsg2, ReadContext, CallbackReturns, CallbackPanics,
         PostMsg3, WaitMsg4, Clear, CallStep, OnItsOwn
<1>1. \A u \in Thread \ {s} : pc[u] = "out"
  BY <1>0, OnlyCaller
<1>2. target[s] \in Thread
  BY <1>0 DEF Actors
<1>3. /\ UNCHANGED <<alive, ip, handler>>
      /\ \A u \in Thread \ {s} : pc'[u] = "out"
      /\ pc'[s] # "out" => target'[s] = target[s]
  BY <1>1 DEF Caller, SendSignal, WaitMsg2, ReadContext, CallbackReturns, CallbackPanics,
         PostMsg3, WaitMsg4, Clear, CallStep, shared
<1>4. Actors'
  BY <1>0, <1>1, <1>2, <1>3 DEF Actors
<1>5. Asking(s) /\ Holding(s) /\ Releasing(s)
  BY DEF Baton
<1>6. CASE SendSignal(s)
  <2>1. /\ pc[s] = "signal" /\ pc'[s] = "wait2" /\ pending' \subseteq {target[s]} 
        /\ Tokens(0, 0, 0)' /\ context' = None /\ Settled'
    BY <1>5, <1>6 DEF SendSignal, CallStep, Asking, Tokens, Settled, Settling, shared
  <2> QED
    BY <1>1, <1>3, <1>4, <2>1 DEF NoCall, Baton, Asking, Holding, Releasing
<1>7. CASE WaitMsg2(s)
  <2>1. /\ pc[s] = "wait2" /\ pc'[s] = "read" /\ pending' = {} /\ Tokens(0, 0, 0)' /\ Settled'
        /\ context' = ContextOf(target[s])' /\ handler'[target[s]] \in {"enter3", "wait3"}
    BY <1>5, <1>7 DEF WaitMsg2, CallStep, Asking, Tokens, Settled, Settling, ContextOf, CanTake, Taken, Unwrap
  <2> QED
    BY <1>1, <1>3, <1>4, <2>1 DEF NoCall, Baton, Asking, Holding, Releasing
<1>8. CASE ReadContext(s)
  <2>1. ContextOf(target[s]) # None
    BY <1>2 DEF ContextOf, Context
  <2>2. /\ pc[s] = "read" /\ pc'[s] = "callback" /\ pending' = {} /\ Tokens(0, 0, 0)' /\ Settled'
        /\ context' = ContextOf(target[s])' /\ handler'[target[s]] \in {"enter3", "wait3"}
        /\ arg'[s] = context'
    BY <1>5, <1>8, <2>1 DEF ReadContext, CallStep, Holding, Tokens, Settled, Settling, ContextOf, Unwrap, shared
  <2> QED
    BY <1>1, <1>3, <1>4, <2>2 DEF NoCall, Baton, Asking, Holding, Releasing
<1>9. CASE CallbackReturns(s)
  <2>1. /\ pc[s] = "callback" /\ pc'[s] = "post3" /\ pending' = {} /\ Tokens(0, 0, 0)' /\ Settled'
        /\ context' = ContextOf(target[s])' /\ handler'[target[s]] \in {"enter3", "wait3"}
        /\ arg'[s] = context'
    BY <1>5, <1>9 DEF CallbackReturns, CallStep, Holding, Tokens, Settled, Settling, ContextOf, shared
  <2> QED
    BY <1>1, <1>3, <1>4, <2>1 DEF NoCall, Baton, Asking, Holding, Releasing
<1>10. CASE CallbackPanics(s)
  <2>1. /\ pc[s] = "callback" /\ pc'[s] = "out" /\ pending' = {} /\ Tokens(0, 0, 0)' /\ Settled'
    BY <1>5, <1>10 DEF CallbackPanics, CallStep, Holding, Tokens, Settled, Settling, shared
  <2> QED
    BY <1>1, <1>3, <1>4, <2>1 DEF NoCall, Baton, Asking, Holding, Releasing
<1>11. CASE PostMsg3(s)
  <2>1. /\ pc[s] = "post3" /\ pc'[s] = "wait4" /\ pending' = {} /\ Tokens(0, 1, 0)' /\ Settled'
    BY <1>5, <1>11 DEF PostMsg3, CallStep, Holding, Tokens, Settled, Settling, Unwrap, Posted
  <2> QED
    BY <1>1, <1>3, <1>4, <2>1 DEF NoCall, Baton, Asking, Holding, Releasing
<1>12. CASE WaitMsg4(s)
  <2>1. /\ pc[s] = "wait4" /\ pc'[s] = "clear" /\ pending' = {} /\ Tokens(0, 0, 0)' /\ Settled'
    BY <1>5, <1>12 DEF WaitMsg4, CallStep, Releasing, Tokens, Settled, Settling, Unwrap, Taken, CanTake
  <2> QED
    BY <1>1, <1>3, <1>4, <2>1 DEF NoCall, Baton, Asking, Holding, Releasing
<1>13. CASE Clear(s)
  <2>1. /\ pc[s] = "clear" /\ pc'[s] = "out" /\ pending' = {} /\ Tokens(None, None, None)' /\ Settled'
    BY <1>5, <1>13 DEF Clear, CallStep, Releasing, Tokens, Settled, Settling, ClearSharedState
  <2> QED
    BY <1>1, <1>3, <1>4, <2>1 DEF NoCall, Baton, Asking, Holding, Releasing
<1> QED
  BY <1>6, <1>7, <1>8, <1>9, <1>10, <1>11, <1>12, <1>13 DEF Caller

\* A step of a handler.  HandlerMover names the call it answers to.
LEMMA HandlerKeepsBaton ==
  ASSUME TypeOK, BatonInv, NEW t \in Thread, Handler(t)
  PROVE  BatonInv'
<1> USE NoneAssumption DEF TypeOK, BatonInv
<1>1. /\ UNCHANGED <<alive, ip, pc, target, arg>>
      /\ t \in alive
      /\ \A u \in Thread \ {t} : handler'[u] = handler[u]
  BY DEF Handler, Deliver, CopyContext, PostMsg2, EnterMsg3, WaitMsg3, PostMsg4, HandlerReturns,
         HandlerStep, shared
<1>2. ASSUME NEW s \in Thread, pc[s] # "out", handler'[t] = "none" \/ handler[t] # "none" \/ target[s] = t
      PROVE  Actors'
  BY <1>1, <1>2 DEF Actors
<1>3. CASE Deliver(t)
  <2>1. PICK s \in Thread :
          /\ pc[s] = "wait2" /\ target[s] = t /\ pending = {t}
          /\ Tokens(0, 0, 0) /\ context = None /\ Settled
    BY <1>3, HandlerMover DEF Deliver
  <2>2. /\ pending' = {} /\ handler'[t] = "copy" /\ SettledBut(t)'
        /\ Tokens(0, 0, 0)' /\ context' = None
    BY <1>1, <1>3, <2>1 DEF Deliver, HandlerStep, Tokens, Settled, Settling, SettledBut, shared
  <2>3. Actors'
    BY <1>2, <2>1
  <2>4. \A u \in Thread \ {s} : pc'[u] = "out"
    BY <1>1, <2>1, OnlyCaller
  <2> QED
    BY <1>1, <2>1, <2>2, <2>3, <2>4 DEF NoCall, Baton, Asking, Holding, Releasing
<1>4. CASE CopyContext(t)
  <2>1. PICK s \in Thread :
          /\ pc[s] = "wait2" /\ target[s] = t /\ pending = {}
          /\ Tokens(0, 0, 0) /\ context = None /\ SettledBut(t)
    BY <1>4, HandlerMover DEF CopyContext, HandlerStep
  <2>2. /\ pending' = {} /\ handler'[t] = "post2" /\ SettledBut(t)'
        /\ Tokens(0, 0, 0)' /\ context' = ContextOf(t)'
    BY <1>1, <1>4, <2>1 DEF CopyContext, HandlerStep, Tokens, SettledBut, Settling, ContextOf
  <2>3. Actors'
    BY <1>2, <2>1
  <2>4. \A u \in Thread \ {s} : pc'[u] = "out"
    BY <1>1, <2>1, OnlyCaller
  <2> QED
    BY <1>1, <2>1, <2>2, <2>3, <2>4 DEF NoCall, Baton, Asking, Holding, Releasing
<1>5. CASE PostMsg2(t)
  <2>1. PICK s \in Thread :
          /\ pc[s] = "wait2" /\ target[s] = t /\ pending = {}
          /\ Tokens(0, 0, 0) /\ context = ContextOf(t) /\ SettledBut(t)
    BY <1>5, HandlerMover DEF PostMsg2, HandlerStep
  <2>2. /\ pending' = {} /\ handler'[t] = "enter3" /\ Settled'
        /\ Tokens(1, 0, 0)' /\ context' = ContextOf(t)'
    BY <1>1, <1>5, <2>1
    DEF PostMsg2, HandlerStep, Tokens, Settled, Settling, SettledBut, ContextOf, Unwrap, Posted
  <2>3. Actors'
    BY <1>2, <2>1
  <2>4. \A u \in Thread \ {s} : pc'[u] = "out"
    BY <1>1, <2>1, OnlyCaller
  <2> QED
    BY <1>1, <2>1, <2>2, <2>3, <2>4 DEF NoCall, Baton, Asking, Holding, Releasing
<1>6. CASE WaitMsg3(t)
  <2>1. PICK s \in Thread :
          pc[s] = "wait4" /\ pending = {} /\ Tokens(0, 1, 0) /\ Settled
    BY <1>6, HandlerMover DEF WaitMsg3
  <2>2. /\ pending' = {} /\ handler'[t] = "post4" /\ SettledBut(t)' /\ Tokens(0, 0, 0)'
    BY <1>1, <1>6, <2>1 DEF WaitMsg3, HandlerStep, Tokens, Settled, Settling, SettledBut
  <2>3. Actors'
    BY <1>2, <1>6, <2>1 DEF WaitMsg3, HandlerStep
  <2>4. \A u \in Thread \ {s} : pc'[u] = "out"
    BY <1>1, <2>1, OnlyCaller
  <2> QED
    BY <1>1, <2>1, <2>2, <2>3, <2>4 DEF NoCall, Baton, Asking, Holding, Releasing
<1>7. CASE PostMsg4(t)
  <2>1. PICK s \in Thread :
          pc[s] = "wait4" /\ pending = {} /\ Tokens(0, 0, 0) /\ SettledBut(t)
    BY <1>7, HandlerMover DEF PostMsg4, HandlerStep
  <2>2. /\ pending' = {} /\ handler'[t] = "ret" /\ Settled' /\ Tokens(0, 0, 1)'
    BY <1>1, <1>7, <2>1 DEF PostMsg4, HandlerStep, Tokens, Settled, Settling, SettledBut, Unwrap, Posted
  <2>3. Actors'
    BY <1>2, <1>7, <2>1 DEF PostMsg4, HandlerStep
  <2>4. \A u \in Thread \ {s} : pc'[u] = "out"
    BY <1>1, <2>1, OnlyCaller
  <2> QED
    BY <1>1, <2>1, <2>2, <2>3, <2>4 DEF NoCall, Baton, Asking, Holding, Releasing
<1>8. ASSUME \/ handler[t] = "enter3" /\ handler'[t] \in {"wait3", "unwrap"}
             \/ handler[t] = "ret" /\ handler'[t] = "none",
             handler[t] = "enter3" /\ msg3 # None => handler'[t] = "wait3",
             UNCHANGED <<pending, shared>>
      PROVE  BatonInv'
  <2>1. (Settled => Settled') /\ \A u \in Thread : SettledBut(u) => SettledBut(u)'
    BY <1>1, <1>8 DEF Settled, SettledBut, Settling
  <2>2. Actors'
    BY <1>1, <1>8 DEF Actors
  <2>3. NoCall'
    BY <1>1, <1>8, <2>1 DEF NoCall, Tokens, shared
  <2>4. ASSUME NEW s \in Thread PROVE pc'[s] # "unwrap" /\ Asking(s)' /\ Holding(s)'
    <3>1. pc[s] # "out" => target[s] \in Thread
      BY DEF Actors
    <3>2. Asking(s)'
      BY <1>1, <1>8, <2>1, <3>1 DEF Baton, Asking, Tokens, ContextOf, shared
    <3>3. pc'[s] # "unwrap" /\ Holding(s)'
      BY <1>1, <1>8, <2>1, <3>1 DEF Baton, Holding, Tokens, ContextOf, shared
    <3> QED
      BY <3>2, <3>3
  <2>5. ASSUME NEW s \in Thread PROVE Releasing(s)'
    BY <1>1, <1>8, <2>1 DEF Baton, Releasing, Tokens, shared
  <2> QED
    BY <2>2, <2>3, <2>4, <2>5 DEF Baton
<1>9. CASE EnterMsg3(t)
  <2>1. /\ handler[t] = "enter3" /\ handler' = [handler EXCEPT ![t] = Unwrap(msg3, "wait3")]
        /\ UNCHANGED <<pending, shared>>
    BY <1>9 DEF EnterMsg3, HandlerStep
  <2>2. /\ handler'[t] \in {"wait3", "unwrap"}
        /\ msg3 # None => handler'[t] = "wait3"
    BY <2>1 DEF Unwrap
  <2> QED
    BY <1>8, <2>1, <2>2
<1>10. CASE HandlerReturns(t)
  <2>1. /\ handler[t] = "ret" /\ handler' = [handler EXCEPT ![t] = "none"]
        /\ UNCHANGED <<pending, shared>>
    BY <1>10 DEF HandlerReturns, HandlerStep
  <2>2. handler'[t] = "none"
    BY <2>1
  <2> QED
    BY <1>8, <2>1, <2>2
<1> QED
  BY <1>3, <1>4, <1>5, <1>6, <1>7, <1>9, <1>10 DEF Handler

\* The steps that start a call, and those that are no part of the handshake.
LEMMA OthersKeepBaton ==
  ASSUME TypeOK, BatonInv,
         \/ \E s, t \in Thread : Call(s, t)
         \/ \E t \in Thread : Interrupted(t) \/ Retry(t) \/ Run(t) \/ Exit(t)
         \/ UNCHANGED vars
  PROVE  BatonInv'
<1> USE NoneAssumption DEF TypeOK, BatonInv
<1>1. ASSUME NEW s \in Thread, NEW t \in Thread, Call(s, t)
      PROVE  BatonInv'
  <2>1. /\ pc'[s] = "signal" /\ \A u \in Thread \ {s} : pc'[u] = "out"
        /\ UNCHANGED <<alive, ip, handler, pending>>
        /\ target'[s] = t /\ s \in alive /\ handler[s] = "none"
        /\ DebugAssertions => s # t
        /\ Tokens(0, 0, 0)' /\ context' = None
    BY <1>1 DEF Call, CallStep, OnItsOwn, MayTarget, ResetSharedState, Tokens
  <2>2. pending' = {} /\ Settled'
    BY <1>1, <2>1 DEF Call, NoCall, Settled, Settling
  <2>3. Actors'
    BY <2>1 DEF Actors
  <2> QED
    BY <2>1, <2>2, <2>3 DEF NoCall, Baton, Asking, Holding, Releasing
<1>2. ASSUME NEW t \in Thread, Run(t)
      PROVE  BatonInv'
  <2>1. /\ handler[t] = "none" /\ UNCHANGED <<alive, pc, target, arg, handler, pending, shared>>
        /\ \A u \in Thread \ {t} : ip'[u] = ip[u]
    BY <1>2 DEF Run, OnItsOwn
  <2>2. Actors' /\ NoCall'
    BY <2>1 DEF Actors, NoCall, Tokens, Settled, Settling, shared
  <2>3. ASSUME NEW s \in Thread PROVE pc'[s] # "unwrap" /\ Asking(s)' /\ Holding(s)'
    BY <2>1 DEF Baton, Asking, Holding, Tokens, Settled, Settling, SettledBut, ContextOf, shared, Actors
  <2>4. ASSUME NEW s \in Thread PROVE Releasing(s)'
    BY <2>1 DEF Baton, Releasing, Tokens, Settled, Settling, SettledBut, shared
  <2> QED
    BY <2>2, <2>3, <2>4 DEF Baton
<1>3. ASSUME NEW t \in Thread, Exit(t)
      PROVE  BatonInv'
  <2>1. /\ pc[t] = "out" /\ handler[t] = "none" /\ UNCHANGED <<ip, pc, target, arg, handler, shared>>
        /\ alive' = alive \ {t} /\ pending' = pending \ {t}
    BY <1>3 DEF Exit, OnItsOwn
  <2>2. Actors' /\ NoCall'
    BY <2>1 DEF Actors, NoCall, Tokens, Settled, Settling, shared
  <2>3. ASSUME NEW s \in Thread PROVE pc'[s] # "unwrap" /\ Asking(s)' /\ Holding(s)'
    BY <2>1 DEF Baton, Asking, Holding, Tokens, Settled, Settling, SettledBut, ContextOf, shared
  <2>4. ASSUME NEW s \in Thread PROVE Releasing(s)'
    BY <2>1 DEF Baton, Releasing, Tokens, Settled, Settling, SettledBut, shared
  <2> QED
    BY <2>2, <2>3, <2>4 DEF Baton
<1>4. ASSUME UNCHANGED <<alive, ip, pc, target, arg, handler, pending, shared>>
      PROVE  BatonInv'
  <2>1. Actors' /\ NoCall'
    BY <1>4 DEF Actors, NoCall, Tokens, Settled, Settling, shared
  <2>2. ASSUME NEW s \in Thread PROVE pc'[s] # "unwrap" /\ Asking(s)' /\ Holding(s)'
    BY <1>4 DEF Baton, Asking, Holding, Tokens, Settled, Settling, SettledBut, ContextOf, shared
  <2>3. ASSUME NEW s \in Thread PROVE Releasing(s)'
    BY <1>4 DEF Baton, Releasing, Tokens, Settled, Settling, SettledBut, shared
  <2> QED
    BY <2>1, <2>2, <2>3 DEF Baton
<1> QED
  BY <1>1, <1>2, <1>3, <1>4 DEF Interrupted, Retry, vars

\* As long as callbacks return, whoever holds the baton is the caller or its
\* target: no thread of an earlier call is left in the handler.
LEMMA NoLeftoverStep ==
  ASSUME TypeOK, BatonInv, NoLeftover, ~CallbackMayPanic, [Next]_vars
  PROVE  NoLeftover'
<1> USE NoneAssumption DEF TypeOK, BatonInv
<1>1. ASSUME NEW s \in Thread, NEW t \in Thread, Call(s, t)
      PROVE  NoLeftover'
  <2>1. /\ pc[s] = "out" /\ pc'[s] = "signal" /\ \A u \in Thread \ {s} : pc[u] = "out" /\ pc'[u] = "out"
        /\ UNCHANGED handler
        /\ target'[s] = t
    BY <1>1 DEF Call, CallStep
  <2>2. \A u \in Thread : handler[u] \in {"none", "ret"}
    BY <2>1 DEF NoLeftover
  <2> QED
    BY <2>1, <2>2 DEF NoLeftover
<1>2. ASSUME NEW s \in Thread, Caller(s)
      PROVE  NoLeftover'
  <2>1. \A u \in Thread \ {s} : pc[u] = "out"
    BY <1>2, OnlyCaller DEF Caller, SendSignal, WaitMsg2, ReadContext, CallbackReturns,
         CallbackPanics, PostMsg3, WaitMsg4, Clear, CallStep
  <2>2. Asking(s) /\ Holding(s) /\ Releasing(s) /\ pc[s] # "unwrap"
    BY DEF Baton
  <2>3. pc[s] # "out" /\ target[s] \in Thread
    BY <1>2 DEF Actors, Caller, SendSignal, WaitMsg2, ReadContext, CallbackReturns,
         CallbackPanics, PostMsg3, WaitMsg4, Clear, CallStep
  <2>4. CASE SendSignal(s)
    BY <2>1, <2>2, <2>4 DEF SendSignal, CallStep, NoLeftover, Asking, shared
  <2>5. CASE WaitMsg2(s)
    BY <2>1, <2>2, <2>5 DEF WaitMsg2, CallStep, NoLeftover, Asking, Tokens, CanTake, Unwrap
  <2>6. CASE ReadContext(s)
    BY <2>1, <2>2, <2>6 DEF ReadContext, CallStep, NoLeftover, Unwrap, shared
  <2>7. CASE CallbackReturns(s)
    BY <2>1, <2>2, <2>7 DEF CallbackReturns, CallStep, NoLeftover, shared
  <2>8. CASE PostMsg3(s)
    BY <2>1, <2>2, <2>8 DEF PostMsg3, CallStep, NoLeftover, Holding, Tokens, Unwrap, Posted
  <2>9. CASE WaitMsg4(s)
    BY <2>1, <2>2, <2>9 DEF WaitMsg4, CallStep, NoLeftover, Releasing, Tokens, Unwrap, CanTake, Taken
  <2>10. CASE Clear(s)
    <3>1. \A t \in Thread : handler[t] \in {"none", "ret"}
      BY <2>1, <2>10 DEF Clear, CallStep, NoLeftover
    <3> QED
      BY <2>1, <2>10, <3>1 DEF Clear, CallStep, ClearSharedState, NoLeftover, Tokens
  <2> QED
    BY <1>2, <2>4, <2>5, <2>6, <2>7, <2>8, <2>9, <2>10 DEF Caller, CallbackPanics
<1>3. ASSUME NEW t \in Thread, Handler(t)
      PROVE  NoLeftover'
  <2>1. /\ UNCHANGED <<pc, target>>
        /\ \A u \in Thread \ {t} : handler'[u] = handler[u]
    BY <1>3 DEF Handler, Deliver, CopyContext, PostMsg2, EnterMsg3, WaitMsg3, PostMsg4, HandlerReturns,
         HandlerStep
  <2>2. CASE Deliver(t)
    <3>1. PICK s \in Thread : pc[s] = "wait2" /\ target[s] = t /\ context = None
      BY <2>2, HandlerMover DEF Deliver
    <3>2. \A u \in Thread \ {s} : pc[u] = "out"
      BY <3>1, OnlyCaller
    <3>3. handler'[t] = "copy" /\ UNCHANGED shared
      BY <2>2 DEF Deliver, HandlerStep
    <3> QED
      BY <2>1, <3>1, <3>2, <3>3 DEF NoLeftover, shared
  <2>3. CASE CopyContext(t)
    <3>1. PICK s \in Thread : pc[s] = "wait2" /\ target[s] = t
      BY <2>3, HandlerMover DEF CopyContext, HandlerStep
    <3>2. \A u \in Thread \ {s} : pc[u] = "out"
      BY <3>1, OnlyCaller
    <3>3. handler'[t] = "post2" /\ context' # None
      BY <2>3 DEF CopyContext, HandlerStep, ContextOf, Context
    <3> QED
      BY <2>1, <3>1, <3>2, <3>3 DEF NoLeftover
  <2>4. CASE PostMsg2(t)
    <3>1. PICK s \in Thread : pc[s] = "wait2" /\ target[s] = t /\ context = ContextOf(t) /\ Tokens(0, 0, 0)
      BY <2>4, HandlerMover DEF PostMsg2, HandlerStep
    <3>2. \A u \in Thread \ {s} : pc[u] = "out"
      BY <3>1, OnlyCaller
    <3>3. handler'[t] = "enter3" /\ context' # None
      BY <2>4, <3>1 DEF PostMsg2, HandlerStep, ContextOf, Context, Unwrap, Tokens
    <3> QED
      BY <2>1, <3>1, <3>2, <3>3 DEF NoLeftover
  <2>5. CASE WaitMsg3(t)
    <3>1. PICK s \in Thread : pc[s] = "wait4" /\ Tokens(0, 1, 0)
      BY <2>5, HandlerMover DEF WaitMsg3
    <3>2. \A u \in Thread \ {s} : pc[u] = "out"
      BY <3>1, OnlyCaller
    <3>3. target[s] = t
      BY <2>5, <3>1, <3>2 DEF NoLeftover, WaitMsg3, HandlerStep
    <3>4. handler'[t] = "post4" /\ Tokens(0, 0, 0)'
      BY <2>5, <3>1 DEF WaitMsg3, HandlerStep, Tokens
    <3> QED
      BY <2>1, <3>1, <3>2, <3>3, <3>4 DEF NoLeftover, Tokens
  <2>6. CASE PostMsg4(t)
    <3>1. PICK s \in Thread : pc[s] = "wait4" /\ Tokens(0, 0, 0)
      BY <2>6, HandlerMover DEF PostMsg4, HandlerStep
    <3>2. \A u \in Thread \ {s} : pc[u] = "out"
      BY <3>1, OnlyCaller
    <3>3. target[s] = t
      BY <2>6, <3>1, <3>2 DEF NoLeftover, PostMsg4, HandlerStep
    <3>4. handler'[t] = "ret" /\ Tokens(0, 0, 1)'
      BY <2>6, <3>1 DEF PostMsg4, HandlerStep, Tokens, Unwrap, Posted
    <3> QED
      BY <2>1, <3>1, <3>2, <3>3, <3>4 DEF NoLeftover, Tokens
  <2>7. CASE HandlerReturns(t)
    <3>1. handler[t] = "ret" /\ handler' = [handler EXCEPT ![t] = "none"] /\ UNCHANGED shared
      BY <2>7 DEF HandlerReturns, HandlerStep
    <3> QED
      BY <2>1, <3>1 DEF NoLeftover, Tokens, shared, Actors
  <2>8. CASE EnterMsg3(t)
    <3>1. handler[t] = "enter3" /\ UNCHANGED shared
      BY <2>8 DEF EnterMsg3, HandlerStep
    <3>2. PICK s \in Thread : pc[s] # "out" /\ target[s] = t
      BY <3>1 DEF NoLeftover
    <3>3. msg3 # None
      BY <3>2 DEF Baton, Asking, Holding, Releasing, Tokens, CallPoint
    <3>4. handler' = [handler EXCEPT ![t] = "wait3"]
      BY <2>8, <3>3 DEF EnterMsg3, HandlerStep, Unwrap
    <3> QED
      BY <2>1, <3>1, <3>4 DEF NoLeftover, Tokens, shared, Actors
  <2> QED
    BY <1>3, <2>2, <2>3, <2>4, <2>5, <2>6, <2>7, <2>8 DEF Handler
<1>4. ASSUME UNCHANGED <<pc, target, handler, shared>>
      PROVE  NoLeftover'
  BY <1>4 DEF NoLeftover, Tokens, shared
<1> QED
  BY <1>1, <1>2, <1>3, <1>4 DEF Next, Interrupted, Retry, Run, Exit, vars

\* The caller is never in its own handler, the signal is not lost on its way
\* and the token in msg3 has somebody to take it.
LEMMA MovingStep ==
  ASSUME TypeOK, BatonInv, Moving, [Next]_vars
  PROVE  Moving'
<1> USE NoneAssumption DEF TypeOK, BatonInv
<1>1. ASSUME NEW s \in Thread, NEW t \in Thread, Call(s, t)
      PROVE  Moving'
  BY <1>1 DEF Call, CallStep, OnItsOwn, Moving
<1>2. ASSUME NEW s \in Thread, Caller(s)
      PROVE  Moving'
  <2>1. pc[s] # "out" /\ OnItsOwn(s) /\ UNCHANGED <<alive, handler>>
    BY <1>2 DEF Caller, SendSignal, WaitMsg2, ReadContext, CallbackReturns, CallbackPanics,
           PostMsg3, WaitMsg4, Clear, CallStep
  <2>2. \A u \in Thread \ {s} : pc[u] = "out" /\ pc'[u] = "out"
    <3>1. \A u \in Thread \ {s} : pc[u] = "out"
      BY <2>1, OnlyCaller
    <3> QED
      BY <1>2, <3>1 DEF Caller, SendSignal, WaitMsg2, ReadContext, CallbackReturns, CallbackPanics,
             PostMsg3, WaitMsg4, Clear, CallStep
  <2>3. CASE SendSignal(s)
    <3>1. pc'[s] = "wait2" /\ target' = target /\ pending' = pending \cup ({target[s]} \cap alive)
      BY <2>3 DEF SendSignal, CallStep
    <3> QED
      BY <2>1, <2>2, <3>1 DEF Moving, OnItsOwn, Actors
  <2>4. CASE PostMsg3(s)
    <3>1. pc[s] = "post3" /\ target[s] \in Thread /\ pc'[s] # "wait2"
      BY <2>1, <2>4 DEF PostMsg3, CallStep, Actors, Unwrap
    <3>2. handler[target[s]] \in {"enter3", "wait3"}
      BY <3>1 DEF Baton, Holding
    <3> QED
      BY <2>1, <2>2, <3>1, <3>2 DEF Moving, OnItsOwn
  <2>5. CASE \/ WaitMsg2(s) \/ ReadContext(s) \/ CallbackReturns(s) \/ CallbackPanics(s)
             \/ WaitMsg4(s) \/ Clear(s)
    <3>1. pc'[s] \notin {"wait2", "wait4"}
      BY <2>5 DEF WaitMsg2, ReadContext, CallbackReturns, CallbackPanics, WaitMsg4, Clear,
             CallStep, Unwrap
    <3> QED
      BY <2>1, <2>2, <3>1 DEF Moving, OnItsOwn
  <2> QED
    BY <1>2, <2>3, <2>4, <2>5 DEF Caller
<1>3. ASSUME NEW t \in Thread, Handler(t)
      PROVE  Moving'
  <2>1. /\ UNCHANGED <<alive, pc, target>>
        /\ \A u \in Thread \ {t} : handler'[u] = handler[u]
    BY <1>3 DEF Handler, Deliver, CopyContext, PostMsg2, EnterMsg3, WaitMsg3, PostMsg4,
           HandlerReturns, HandlerStep, shared
  <2>2. CASE Deliver(t)
    <3>1. PICK s \in Thread : pc[s] = "wait2" /\ target[s] = t
      BY <2>2, HandlerMover DEF Deliver
    <3>2. \A u \in Thread \ {s} : pc[u] = "out"
      BY <3>1, OnlyCaller
    <3>3. handler'[t] = "copy"
      BY <2>2 DEF Deliver, HandlerStep
    <3> QED
      BY <2>1, <3>1, <3>2, <3>3 DEF Moving
  <2>3. CASE CopyContext(t)
    <3>1. PICK s \in Thread : pc[s] = "wait2" /\ target[s] = t
      BY <2>3, HandlerMover DEF CopyContext, HandlerStep
    <3>2. \A u \in Thread \ {s} : pc[u] = "out"
      BY <3>1, OnlyCaller
    <3>3. handler[t] = "copy" /\ context' # None
      BY <2>3 DEF CopyContext, HandlerStep, ContextOf, Context
    <3> QED
      BY <2>1, <3>1, <3>2, <3>3 DEF Moving
  <2>4. CASE PostMsg2(t)
    <3>1. PICK s \in Thread : pc[s] = "wait2" /\ target[s] = t /\ context = ContextOf(t)
      BY <2>4, HandlerMover DEF PostMsg2, HandlerStep
    <3>2. \A u \in Thread \ {s} : pc[u] = "out"
      BY <3>1, OnlyCaller
    <3>3. handler[t] = "post2" /\ context' # None
      BY <2>4, <3>1 DEF PostMsg2, HandlerStep, ContextOf, Context
    <3> QED
      BY <2>1, <3>1, <3>2, <3>3 DEF Moving
  <2>5. CASE EnterMsg3(t)
    <3>1. handler[t] = "enter3" /\ UNCHANGED <<pending, shared>>
      BY <2>5 DEF EnterMsg3, HandlerStep
    <3>2. msg3 # None => handler'[t] = "wait3"
      BY <2>5 DEF EnterMsg3, HandlerStep, Unwrap
    <3> QED
      BY <2>1, <3>1, <3>2 DEF Moving, shared
  <2>6. CASE WaitMsg3(t)
    <3>1. PICK s \in Thread : pc[s] = "wait4" /\ Tokens(0, 1, 0)
      BY <2>6, HandlerMover DEF WaitMsg3
    <3>2. \A u \in Thread \ {s} : pc[u] = "out"
      BY <3>1, OnlyCaller
    <3>3. handler[t] = "wait3" /\ msg3' = 0
      BY <2>6, <3>1 DEF WaitMsg3, HandlerStep, Tokens
    <3> QED
      BY <2>1, <3>1, <3>2, <3>3 DEF Moving
  <2>7. CASE PostMsg4(t)
    <3>1. PICK s \in Thread : pc[s] = "wait4" /\ Tokens(0, 0, 0)
      BY <2>7, HandlerMover DEF PostMsg4, HandlerStep
    <3>2. \A u \in Thread \ {s} : pc[u] = "out"
      BY <3>1, OnlyCaller
    <3>3. handler[t] = "post4" /\ msg3' = 0
      BY <2>7, <3>1 DEF PostMsg4, HandlerStep, Tokens
    <3> QED
      BY <2>1, <3>1, <3>2, <3>3 DEF Moving
  <2>8. CASE HandlerReturns(t)
    <3>1. handler[t] = "ret" /\ handler'[t] = "none" /\ UNCHANGED <<pending, shared>>
      BY <2>8 DEF HandlerReturns, HandlerStep
    <3> QED
      BY <2>1, <3>1 DEF Moving, shared
  <2> QED
    BY <1>3, <2>2, <2>3, <2>4, <2>5, <2>6, <2>7, <2>8 DEF Handler
<1>4. ASSUME NEW t \in Thread, Exit(t)
      PROVE  Moving'
  BY <1>4 DEF Exit, OnItsOwn, Moving, shared
<1>5. ASSUME UNCHANGED <<alive, pc, target, handler, pending, shared>>
      PROVE  Moving'
  BY <1>5 DEF Moving, shared
<1> QED
  BY <1>1, <1>2, <1>3, <1>4, <1>5 DEF Next, Interrupted, Retry, Run, vars

-------------------------------------------------------------------------------
(* What the invariant gives                                                *)

\* The handshake is in order at every step: one party holds the baton, the
\* semaphores say which, and the context in SHARED_STATE is the target's.
\* Every safety theorem below follows from it.
THEOREM HandshakeCorrect == Spec => []HandshakeInv
<1>1. Init => HandshakeInv
  BY NoneAssumption
  DEF Init, HandshakeInv, Actors, NoCall, Baton, Moving, NoLeftover, Asking, Holding, Releasing,
      Tokens, Settled, Settling
<1>2. TypeOK /\ HandshakeInv /\ [Next]_vars => HandshakeInv'
  <2> SUFFICES ASSUME TypeOK, HandshakeInv, [Next]_vars
               PROVE  HandshakeInv'
    OBVIOUS
  <2>1. BatonInv
    BY DEF HandshakeInv, BatonInv
  <2>2. BatonInv'
    BY <2>1, CallerKeepsBaton, HandlerKeepsBaton, OthersKeepBaton DEF Next
  <2>3. (CallbackMayPanic \/ NoLeftover)'
    BY <2>1, NoLeftoverStep DEF HandshakeInv
  <2>4. Moving'
    BY <2>1, MovingStep DEF HandshakeInv
  <2> QED
    BY <2>2, <2>3, <2>4 DEF HandshakeInv, BatonInv
<1> QED
  BY <1>1, <1>2, TypeCorrect, PTL DEF Spec

\* The callback looks at the thread that was asked for, held where its
\* context was copied; also after earlier callbacks have panicked, and with
\* threads that terminate.
THEOREM FrozenContextCorrect == Spec => []FrozenContext
<1>1. HandshakeInv => FrozenContext
  BY DEF HandshakeInv, Baton, Holding, FrozenContext
<1> QED
  BY <1>1, HandshakeCorrect, PTL

\* As long as callbacks return, no unwrap() on SHARED_STATE panics, in the
\* call or in the handler.
THEOREM UnwrapsSucceed ==
  ASSUME ~CallbackMayPanic
  PROVE  Spec => []NoUnwrapOfNone
<1>1. HandshakeInv => NoUnwrapOfNone
  BY DEF HandshakeInv, Baton, NoLeftover, NoUnwrapOfNone
<1> QED
  BY <1>1, HandshakeCorrect, PTL

\* As long as callbacks return, nothing of a call is left behind when it is
\* over: no signal, no held thread, no shared state.
THEOREM QuiescenceCorrect ==
  ASSUME ~CallbackMayPanic
  PROVE  Spec => []QuiescentBetweenCalls
<1>1. TypeOK /\ HandshakeInv => QuiescentBetweenCalls
  BY DEF HandshakeInv, NoCall, NoLeftover, Tokens, QuiescentBetweenCalls, TypeOK, HandlerPoint
<1> QED
  BY <1>1, TypeCorrect, HandshakeCorrect, PTL

\* With debug assertions the sampling thread is never held by its own call.
THEOREM NeverSuspendsItselfCorrect ==
  ASSUME DebugAssertions
  PROVE  Spec => []NeverSuspendsItself
<1>1. HandshakeInv => NeverSuspendsItself
  BY DEF HandshakeInv, Actors, NeverSuspendsItself
<1> QED
  BY <1>1, HandshakeCorrect, PTL

\* As long as callbacks return, a call does not return before its target is
\* past its last wait.
THEOREM ResumedBeforeReturnCorrect ==
  ASSUME ~CallbackMayPanic
  PROVE  Spec => ResumedBeforeReturn
<1>1. ASSUME TypeOK, HandshakeInv, [Next]_vars, NEW s \in Thread, pc[s] # "out", pc'[s] = "out"
      PROVE  handler[target[s]] \in {"none", "ret"}
  <2>1. pc[s] = "clear"
    <3>1. ASSUME NEW u \in Thread, Caller(u)
          PROVE  pc[s] = "clear"
      BY <1>1, <3>1
      DEF TypeOK, Caller, SendSignal, WaitMsg2, ReadContext, CallbackReturns, CallbackPanics,
          PostMsg3, WaitMsg4, Clear, CallStep, Unwrap, CallPoint
    <3>2. ASSUME NEW u \in Thread, NEW t \in Thread, Call(u, t)
          PROVE  FALSE
      BY <1>1, <3>2 DEF Call
    <3>3. ASSUME NEW u \in Thread, Handler(u)
          PROVE  FALSE
      BY <1>1, <3>3
      DEF Handler, Deliver, CopyContext, PostMsg2, EnterMsg3, WaitMsg3, PostMsg4, HandlerReturns
    <3> QED
      BY <1>1, <3>1, <3>2, <3>3 DEF Next, Interrupted, Retry, Run, Exit, vars
  <2> QED
    BY <1>1, <2>1 DEF HandshakeInv, NoLeftover
<1>2. TypeOK /\ HandshakeInv /\ [Next]_vars =>
        [\A s \in Thread : pc[s] # "out" /\ pc'[s] = "out" =>
           handler[target[s]] \in {"none", "ret"}]_vars
  BY <1>1
<1> QED
  BY <1>2, TypeCorrect, HandshakeCorrect, PTL DEF Spec, ResumedBeforeReturn

\* At no point of a call do caller and target wait for each other: some
\* thread always has a step of the handshake to take, as long as the target
\* can answer.  With callbacks that panic too, and threads that terminate.
THEOREM NobodyStuckCorrect == Spec => []NobodyStuck
<1>1. ASSUME TypeOK, HandshakeInv, NEW s \in Thread, pc[s] # "out", CanAnswer(s)
      PROVE  \E t \in Thread : Ready(t)
  <2> USE NoneAssumption DEF TypeOK
  <2> DEFINE t == target[s]
  <2>1. /\ s \in alive /\ t \in Thread /\ t # s /\ pc[s] # "unwrap"
        /\ \A u \in Thread : u \notin alive => handler[u] = "none"
    BY <1>1 DEF HandshakeInv, Actors, Baton, CanAnswer
  <2>2. OnItsOwn(s)
    BY <1>1, <2>1 DEF HandshakeInv, Moving, OnItsOwn
  <2>3. Asking(s) /\ Releasing(s)
    BY <1>1 DEF HandshakeInv, Baton
  <2>4. CASE pc[s] \in {"signal", "read", "callback", "post3", "clear"}
    BY <2>2, <2>4 DEF Ready, CallReady
  <2>5. CASE pc[s] = "wait2"
    <3>1. CASE Tokens(0, 0, 0)
      <4>1. t \in alive /\ handler[t] \notin {"wait3", "unwrap"}
        BY <1>1, <2>5, <3>1 DEF CanAnswer, Tokens
      <4>2. handler[t] = "none" => t \in pending
        BY <1>1, <2>3, <2>5, <3>1, <4>1
        DEF HandshakeInv, Moving, Asking, Tokens, ContextOf, Context
      <4>3. t \in eintr \/ HandlerReady(t)
        BY <1>1, <2>1, <4>1, <4>2 DEF HandlerReady, HandlerPoint
      <4> QED
        BY <2>1, <4>3 DEF Ready
    <3>2. CASE Tokens(1, 0, 0)
      BY <2>2, <2>5, <3>2 DEF Ready, CallReady, CanTake, Tokens
    <3> QED
      BY <2>3, <2>5, <3>1, <3>2 DEF Asking
  <2>6. CASE pc[s] = "wait4"
    <3>1. CASE Tokens(0, 1, 0)
      <4>1. PICK u \in Thread : handler[u] \in {"enter3", "wait3"}
        BY <1>1, <2>6, <3>1 DEF HandshakeInv, Moving, Tokens
      <4> QED
        BY <2>1, <3>1, <4>1 DEF Ready, HandlerReady, CanTake, Tokens
    <3>2. ASSUME NEW u \in Thread, handler[u] = "post4"
          PROVE  Ready(u)
      BY <2>1, <3>2 DEF Ready, HandlerReady
    <3>3. CASE Tokens(0, 0, 1)
      BY <2>2, <2>6, <3>3 DEF Ready, CallReady, CanTake, Tokens
    <3> QED
      BY <2>3, <2>6, <3>1, <3>2, <3>3 DEF Releasing
  <2> QED
    BY <1>1, <2>1, <2>4, <2>5, <2>6 DEF CallPoint
<1>2. TypeOK /\ HandshakeInv => NobodyStuck
  BY <1>1 DEF NobodyStuck
<1> QED
  BY <1>2, TypeCorrect, HandshakeCorrect, PTL

-------------------------------------------------------------------------------
(* Refinement                                                              *)

Frozen == {t \in Thread : handler[t] \in {"copy", "post2", "enter3", "wait3"}}
Phases == [s \in Thread |-> CallPhase(pc[s])]

\* A step of one thread's call changes at most the phase of that call.
LEMMA PhaseStep ==
  ASSUME TypeOK, NEW s \in Thread, NEW from \in CallPoint, NEW to \in CallPoint,
         CallStep(s, from, to)
  PROVE  /\ Phases[s] = CallPhase(from)
         /\ Phases' = [Phases EXCEPT ![s] = CallPhase(to)]
BY DEF TypeOK, CallStep, Phases

\* A step of one thread's handler changes at most whether that thread is
\* frozen.
LEMMA FrozenStep ==
  ASSUME TypeOK, NEW t \in Thread, NEW from \in HandlerPoint, NEW to \in HandlerPoint,
         HandlerStep(t, from, to)
  PROVE  /\ t \in Frozen <=> from \in {"copy", "post2", "enter3", "wait3"}
         /\ Frozen' = IF to \in {"copy", "post2", "enter3", "wait3"}
                      THEN Frozen \cup {t} ELSE Frozen \ {t}
BY DEF TypeOK, HandlerStep, Frozen

\* The phases, one by one.
LEMMA PhaseOf ==
  /\ CallPhase("out") = "out"
  /\ CallPhase("signal") = "asked"
  /\ CallPhase("wait2") = "asked"
  /\ CallPhase("read") = "asked"
  /\ CallPhase("callback") = "inside"
  /\ CallPhase("post3") = "leaving"
  /\ CallPhase("wait4") = "leaving"
  /\ CallPhase("clear") = "leaving"
BY DEF CallPhase

\* Every step of the call is a step of Suspension, or a stutter.
LEMMA CallerRefines ==
  ASSUME TypeOK, BatonInv, NoLeftover, NEW s \in Thread, Caller(s), ~CallbackMayPanic
  PROVE  [Abstract!Next]_(Abstract!vars)
<1> USE NoneAssumption, PhaseOf DEF TypeOK, BatonInv
<1>1. UNCHANGED <<ip, handler>> /\ Frozen' = Frozen
  BY DEF Caller, SendSignal, WaitMsg2, ReadContext, CallbackReturns, CallbackPanics,
         PostMsg3, WaitMsg4, Clear, Frozen
<1>2. pc[s] # "out" /\ target[s] \in Thread
  BY DEF Actors, Caller, SendSignal, WaitMsg2, ReadContext, CallbackReturns, CallbackPanics,
         PostMsg3, WaitMsg4, Clear, CallStep
<1>3. ASSUME UNCHANGED <<target, arg>>, CallPhase(pc[s])' = CallPhase(pc[s]),
             \A u \in Thread \ {s} : pc'[u] = pc[u]
      PROVE  UNCHANGED Abstract!vars
  <2>1. Phases' = Phases
    BY <1>3 DEF Phases
  <2> QED
    BY <1>1, <1>3, <2>1 DEF Abstract!vars, Phases, Frozen
<1>4. CASE SendSignal(s)
  BY <1>3, <1>4 DEF SendSignal, CallStep
<1>5. CASE WaitMsg2(s)
  BY <1>3, <1>5 DEF WaitMsg2, CallStep, Unwrap, CanTake, CallPhase
<1>6. CASE ReadContext(s)
  <2>1. /\ context = ContextOf(target[s]) /\ handler[target[s]] \in {"enter3", "wait3"}
    BY <1>6 DEF Baton, Holding, ReadContext, CallStep
  <2>2. CallStep(s, "read", "callback")
    BY <1>2, <1>6, <2>1 DEF ReadContext, Unwrap, ContextOf, Context
  <2>3. Phases[s] = "asked" /\ Phases' = [Phases EXCEPT ![s] = "inside"]
    BY <2>2, PhaseStep DEF CallPoint
  <2>4. Abstract!Look(s)
    BY <1>1, <1>2, <1>6, <2>1, <2>3
    DEF Abstract!Look, Abstract!Place, Phases, Frozen, ReadContext, ContextOf
  <2> QED
    BY <2>4 DEF Abstract!Next
<1>7. CASE CallbackReturns(s)
  <2>1. Phases[s] = "inside" /\ Phases' = [Phases EXCEPT ![s] = "leaving"]
    BY <1>7, PhaseStep DEF CallPoint, CallbackReturns
  <2>2. Abstract!Leave(s)
    BY <1>1, <1>7, <2>1 DEF Abstract!Leave, Phases, Frozen, CallbackReturns
  <2> QED
    BY <2>2 DEF Abstract!Next
<1>8. CASE PostMsg3(s)
  <2>1. msg3 # None
    BY <1>8 DEF Baton, Holding, PostMsg3, CallStep, Tokens
  <2> QED
    BY <1>3, <1>8, <2>1 DEF PostMsg3, CallStep, Unwrap
<1>9. CASE WaitMsg4(s)
  <2>1. msg4 # None
    BY <1>9 DEF Baton, Releasing, WaitMsg4, CallStep, Tokens
  <2> QED
    BY <1>3, <1>9, <2>1 DEF WaitMsg4, CallStep, Unwrap
<1>10. CASE Clear(s)
  <2>1. handler[target[s]] \in {"none", "ret"}
    BY <1>10 DEF NoLeftover, Clear, CallStep
  <2>2. Phases[s] = "leaving" /\ Phases' = [Phases EXCEPT ![s] = "out"]
    BY <1>10, PhaseStep DEF CallPoint, Clear
  <2>3. Abstract!Return(s)
    BY <1>1, <1>10, <2>1, <2>2 DEF Abstract!Return, Phases, Frozen, Clear
  <2> QED
    BY <2>3 DEF Abstract!Next
<1> QED
  BY <1>4, <1>5, <1>6, <1>7, <1>8, <1>9, <1>10 DEF Caller, CallbackPanics

\* Every step of a handler is a step of Suspension, or a stutter: delivery
\* freezes the thread, the token in msg3 lets it go.
LEMMA HandlerRefines ==
  ASSUME TypeOK, BatonInv, NoLeftover, NEW t \in Thread, Handler(t), ~CallbackMayPanic
  PROVE  [Abstract!Next]_(Abstract!vars)
<1> USE NoneAssumption, PhaseOf DEF TypeOK, BatonInv
<1>1. UNCHANGED <<ip, pc, target, arg>> /\ Phases' = Phases
  BY DEF Handler, Deliver, CopyContext, PostMsg2, EnterMsg3, WaitMsg3, PostMsg4,
         HandlerReturns, Phases
<1>2. ASSUME Frozen' = Frozen
      PROVE  UNCHANGED Abstract!vars
  BY <1>1, <1>2 DEF Abstract!vars, Phases, Frozen
<1>3. CASE Deliver(t)
  <2>1. PICK s \in Thread : pc[s] = "wait2" /\ target[s] = t
    BY <1>3, HandlerMover DEF Deliver
  <2>2. Frozen' = Frozen \cup {t}
    BY <1>3, FrozenStep DEF Deliver, HandlerPoint
  <2>3. Abstract!Freeze(t)
    BY <1>1, <2>1, <2>2 DEF Abstract!Freeze, Phases, Frozen
  <2> QED
    BY <2>3 DEF Abstract!Next
<1>4. CASE CopyContext(t)
  <2>1. t \in Frozen /\ Frozen' = Frozen \cup {t}
    BY <1>4, FrozenStep DEF CopyContext, HandlerPoint
  <2> QED
    BY <1>2, <2>1
<1>5. CASE PostMsg2(t)
  <2>1. msg2 # None
    BY <1>5, HandlerMover DEF PostMsg2, HandlerStep, Tokens
  <2>2. t \in Frozen /\ Frozen' = Frozen \cup {t}
    BY <1>5, <2>1, FrozenStep DEF PostMsg2, HandlerPoint, Unwrap
  <2> QED
    BY <1>2, <2>2
<1>6. CASE EnterMsg3(t)
  <2>1. PICK s \in Thread : pc[s] # "out"
    BY <1>6 DEF NoLeftover, EnterMsg3, HandlerStep
  <2>2. msg3 # None
    BY <2>1 DEF Baton, Asking, Holding, Releasing, Tokens, CallPoint
  <2>3. t \in Frozen /\ Frozen' = Frozen \cup {t}
    BY <1>6, <2>2, FrozenStep DEF EnterMsg3, HandlerPoint, Unwrap
  <2> QED
    BY <1>2, <2>3
<1>7. CASE WaitMsg3(t)
  <2>1. PICK s \in Thread : pc[s] = "wait4"
    BY <1>7, HandlerMover DEF WaitMsg3
  <2>2. target[s] = t
    BY <1>7, <2>1, OnlyCaller DEF NoLeftover, WaitMsg3, HandlerStep
  <2>3. Frozen' = Frozen \ {t}
    BY <1>7, FrozenStep DEF WaitMsg3, HandlerPoint
  <2>4. Abstract!Thaw(t)
    BY <1>1, <2>1, <2>2, <2>3 DEF Abstract!Thaw, Phases, Frozen
  <2> QED
    BY <2>4 DEF Abstract!Next
<1>8. CASE PostMsg4(t)
  <2>1. t \notin Frozen /\ Frozen' = Frozen \ {t}
    BY <1>8, FrozenStep DEF PostMsg4, HandlerPoint, Unwrap
  <2> QED
    BY <1>2, <2>1
<1>9. CASE HandlerReturns(t)
  <2>1. t \notin Frozen /\ Frozen' = Frozen \ {t}
    BY <1>9, FrozenStep DEF HandlerReturns, HandlerPoint
  <2> QED
    BY <1>2, <2>1
<1> QED
  BY <1>3, <1>4, <1>5, <1>6, <1>7, <1>8, <1>9 DEF Handler

\* As long as callbacks return, the signal, the three semaphores and the
\* static implement Suspension: freeze, look, thaw, return.
THEOREM SuspensionImplemented ==
  ASSUME ~CallbackMayPanic
  PROVE  Spec => ImplementsSuspension
<1> USE DEF TypeOK
<1>1. Init => Abstract!Init
  BY PhaseOf DEF Init, Abstract!Init
<1>2. TypeOK /\ HandshakeInv /\ [Next]_vars => [Abstract!Next]_(Abstract!vars)
  <2> SUFFICES ASSUME TypeOK, HandshakeInv, [Next]_vars
               PROVE  [Abstract!Next]_(Abstract!vars)
    OBVIOUS
  <2>1. BatonInv /\ NoLeftover
    BY DEF HandshakeInv, BatonInv
  <2>2. ASSUME NEW s \in Thread, NEW t \in Thread, Call(s, t)
        PROVE  Abstract!Next
    <3>1. Phases[s] = "out" /\ Phases' = [Phases EXCEPT ![s] = "asked"]
      BY <2>2, PhaseStep, PhaseOf DEF Call, CallPoint
    <3>2. \A u \in Thread : Phases[u] = "out"
      BY <2>2, PhaseOf DEF Call, Phases
    <3>3. Abstract!Ask(s, t)
      BY <2>2, <3>1, <3>2 DEF Call, Abstract!Ask, Phases, Frozen
    <3> QED
      BY <3>3 DEF Abstract!Next
  <2>3. ASSUME NEW s \in Thread, Caller(s)
        PROVE  [Abstract!Next]_(Abstract!vars)
    BY <2>1, <2>3, CallerRefines
  <2>4. ASSUME NEW t \in Thread, Handler(t)
        PROVE  [Abstract!Next]_(Abstract!vars)
    BY <2>1, <2>4, HandlerRefines
  <2>5. ASSUME NEW t \in Thread, Run(t)
        PROVE  Abstract!Next
    <3>1. t \notin Frozen /\ Phases' = Phases /\ Frozen' = Frozen
      BY <2>5 DEF Run, OnItsOwn, Frozen, Phases
    <3>2. Abstract!Run(t)
      BY <2>5, <3>1 DEF Run, Abstract!Run, Phases, Frozen
    <3> QED
      BY <3>2 DEF Abstract!Next
  <2>6. ASSUME UNCHANGED <<ip, pc, target, arg, handler>>
        PROVE  UNCHANGED Abstract!vars
    <3>1. Phases' = Phases /\ Frozen' = Frozen
      BY <2>6 DEF Phases, Frozen
    <3> QED
      BY <2>6, <3>1 DEF Abstract!vars, Phases, Frozen
  <2> QED
    BY <2>2, <2>3, <2>4, <2>5, <2>6 DEF Next, Interrupted, Retry, Exit, vars
<1> QED
  BY <1>1, <1>2, TypeCorrect, HandshakeCorrect, PTL DEF Spec, ImplementsSuspension, Abstract!Spec

===============================================================================
