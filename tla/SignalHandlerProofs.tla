-------------------------- MODULE SignalHandlerProofs --------------------------
(***************************************************************************)
(* Theorems about SignalHandler: with nested scopes the dispositions that  *)
(* Samplers remember form a chain, for any number of Samplers.             *)
(***************************************************************************)
EXTENDS SignalHandler, SequenceTheorems, TLAPS

\* A sequence without its last element is the rest of it, unchanged.
LEMMA RemoveLast ==
  ASSUME NEW S, NEW s \in Seq(S), NEW n \in Nat \ {0}, n = Len(s)
  PROVE  /\ SubSeq(s, 1, n - 1) \o SubSeq(s, n + 1, n) \in Seq(S)
         /\ Len(SubSeq(s, 1, n - 1) \o SubSeq(s, n + 1, n)) = n - 1
         /\ \A k \in 1 .. n - 1 : (SubSeq(s, 1, n - 1) \o SubSeq(s, n + 1, n))[k] = s[k]
<1>1. SubSeq(s, n + 1, n) = <<>>
  BY SubSeqEmpty
<1>2. \A k \in 1 .. n - 1 : s[k] \in S
  OBVIOUS
<1> DEFINE m == n - 1
<1>3. m \in Nat /\ m \in Int
  OBVIOUS
<1> HIDE DEF m
<1>4. /\ SubSeq(s, 1, m) \in Seq(S)
      /\ Len(SubSeq(s, 1, m)) = IF 1 <= m THEN m - 1 + 1 ELSE 0
      /\ \A k \in 1 .. m - 1 + 1 : SubSeq(s, 1, m)[k] = s[1 + k - 1]
  BY <1>2, <1>3, SubSeqProperties DEF m
<1>5. /\ Len(SubSeq(s, 1, m)) = m
      /\ \A k \in 1 .. m : SubSeq(s, 1, m)[k] = s[k]
  BY <1>3, <1>4
<1>6. SubSeq(s, 1, m) \o <<>> = SubSeq(s, 1, m)
  BY <1>4, ConcatEmptySeq
<1> QED
  BY <1>1, <1>4, <1>5, <1>6 DEF m

\* Creating a Sampler puts it on top of the chain.
LEMMA NewKeepsChain ==
  ASSUME TypeOK, Chain, NEW i \in Sampler, New(i)
  PROVE  TypeOK' /\ Chain'
<1> USE SamplerAssumption DEF TypeOK, Chain, New
<1>1. TypeOK'
  BY DEF Disposition
<1>2. /\ Len(live') = Len(live) + 1 /\ DOMAIN live' = 1 .. Len(live) + 1
      /\ \A k \in DOMAIN live : live'[k] = live[k]
      /\ live'[Len(live) + 1] = i
      /\ live' # <<>>
  OBVIOUS
<1>3. \A k \in DOMAIN live : live[k] # i
  BY DEF Live
<1>4. live = <<>> <=> Len(live) = 0
  OBVIOUS
<1>5. \A k \in DOMAIN live' :
        old_handler'[live'[k]] = IF k = 1 THEN original ELSE "sigprof_handler"
  BY <1>2, <1>3, <1>4
<1>6. \A j, k \in DOMAIN live' : live'[j] = live'[k] => j = k
  BY <1>2, <1>3
<1>7. sampling # None => sampling \in Live'
  BY <1>2 DEF Live
<1> QED
  BY <1>1, <1>2, <1>5, <1>6, <1>7

\* Dropping the innermost Sampler takes it off again: the one below finds
\* sigprof_handler, and below the last is the application's disposition.
LEMMA DropKeepsChain ==
  ASSUME TypeOK, Chain, NestedScopes, NEW i \in Sampler, Drop(i)
  PROVE  TypeOK' /\ Chain'
<1> USE SamplerAssumption DEF TypeOK, Chain
<1> DEFINE n == Len(live)
<1>1. n \in DOMAIN live /\ live[n] = i /\ n \in Nat \ {0} /\ i # sampling
  BY DEF Drop, MayDrop, Live
<1>2. \A k \in DOMAIN live : live[k] = i => k = n
  BY <1>1
<1>3. (CHOOSE k \in DOMAIN live : live[k] = i) = n
  BY <1>1, <1>2
<1>4. live' = SubSeq(live, 1, n - 1) \o SubSeq(live, n + 1, n)
  BY <1>3 DEF Drop, Without, RemoveAt
<1>5. /\ live' \in Seq(Sampler) /\ Len(live') = n - 1
      /\ \A k \in 1 .. n - 1 : live'[k] = live[k]
  <2>1. live \in Seq(Sampler) /\ n = Len(live) /\ n \in Nat \ {0}
    BY <1>1
  <2> HIDE DEF n, TypeOK, Chain
  <2>2. /\ SubSeq(live, 1, n - 1) \o SubSeq(live, n + 1, n) \in Seq(Sampler)
        /\ Len(SubSeq(live, 1, n - 1) \o SubSeq(live, n + 1, n)) = n - 1
        /\ \A k \in 1 .. n - 1 :
             (SubSeq(live, 1, n - 1) \o SubSeq(live, n + 1, n))[k] = live[k]
    BY <2>1, RemoveLast
  <2> QED
    BY <1>4, <2>2
<1>6. disposition' = IF n = 1 THEN original ELSE "sigprof_handler"
  BY <1>1 DEF Drop
<1>7. TypeOK'
  BY <1>5, <1>6 DEF Drop, Disposition
<1>8. live' = <<>> <=> n = 1
  BY <1>1, <1>5
<1>9. \A k \in DOMAIN live' :
        old_handler'[live'[k]] = IF k = 1 THEN original ELSE "sigprof_handler"
  BY <1>1, <1>2, <1>5 DEF Drop
<1>10. sampling' # None => sampling' \in Live'
  BY <1>1, <1>5 DEF Drop, Live
<1> QED
  BY <1>1, <1>5, <1>6, <1>7, <1>8, <1>9, <1>10 DEF Drop

\* Types and the chain together, from the initial state on.
THEOREM ChainCorrect ==
  ASSUME NestedScopes
  PROVE  Spec => [](TypeOK /\ Chain)
<1>1. Init => TypeOK /\ Chain
  BY SamplerAssumption DEF Init, TypeOK, Chain, Disposition
<1>2. TypeOK /\ Chain /\ [Next]_vars => (TypeOK /\ Chain)'
  <2> SUFFICES ASSUME TypeOK, Chain, [Next]_vars
               PROVE  TypeOK' /\ Chain'
    OBVIOUS
  <2>1. ASSUME NEW i \in Sampler, Signal(i)
        PROVE  TypeOK' /\ Chain'
    BY <2>1, SamplerAssumption DEF TypeOK, Chain, Signal, Live
  <2>2. CASE Deliver
    <3>1. disposition = "sigprof_handler"
      BY <2>2 DEF Deliver, Chain, Live, TypeOK
    <3>2. process' = "running"
      BY <2>2, <3>1 DEF Deliver
    <3> QED
      BY <2>2, <3>2 DEF TypeOK, Chain, Deliver, Live
  <2>3. CASE UNCHANGED vars
    BY <2>3 DEF TypeOK, Chain, vars, Live
  <2> QED
    BY <2>1, <2>2, <2>3, NewKeepsChain, DropKeepsChain DEF Next
<1> QED
  BY <1>1, <1>2, PTL DEF Spec

\* With nested scopes no sample ever meets another disposition than
\* sigprof_handler: it neither kills the process nor waits for nothing.
THEOREM SignalsHandledCorrect ==
  ASSUME NestedScopes
  PROVE  Spec => []SignalsAreHandled
<1>1. Chain => SignalsAreHandled
  BY DEF Chain, SignalsAreHandled
<1> QED
  BY <1>1, ChainCorrect, PTL

\* With nested scopes the application has its own disposition back when the
\* last Sampler is gone.
THEOREM RestoredCorrect ==
  ASSUME NestedScopes
  PROVE  Spec => []AllDroppedRestores
<1>1. Chain => AllDroppedRestores
  BY DEF Chain, AllDroppedRestores
<1> QED
  BY <1>1, ChainCorrect, PTL

===============================================================================
