---------------------------- MODULE OutputterProofs ----------------------------
(***************************************************************************)
(* Theorems about VecHashMap, about the Outputter, its two tables and what *)
(* its profiles mean, and about the whole way from recorded addresses to   *)
(* what speedscope shows: for any images, modules, threads and profiles.   *)
(***************************************************************************)
EXTENDS Recording, WellFoundedInduction, TLAPS

CP == INSTANCE ModuleCacheProofs  \* its lemmas are cited in the last part

-------------------------------------------------------------------------------
(* VecHashMap and the two tables.                                          *)

\* A VecHashMap of items in S.
TableOf(table, S) ==
  /\ table = [vec |-> table.vec, map |-> table.map]
  /\ table.vec \in Seq(S)
  /\ DOMAIN table.map \subseteq S
  /\ table.map \in [DOMAIN table.map -> Nat]

\* get_or_insert keeps list and map in agreement, moves no item, and returns
\* the index at which the item is found (output.rs:92-101).
LEMMA InsertCorrect ==
  ASSUME NEW S, NEW table, TableOf(table, S), Consistent(table), NEW item \in S
  PROVE  /\ TableOf(Insert(table, item), S)
         /\ Consistent(Insert(table, item))
         /\ SameIndices(table, Insert(table, item))
         /\ Has(Insert(table, item), item)
         /\ IndexOf(Insert(table, item), item) \in Nat
         /\ ItemAt(Insert(table, item), IndexOf(Insert(table, item), item)) = item
<1> DEFINE later == Insert(table, item)
           n == Len(table.vec)
<1>1. CASE Has(table, item)
  BY <1>1 DEF Insert, SameIndices, TableOf, Consistent, IndexOf, Has
<1>2. CASE ~Has(table, item)
  <2>1. /\ later.vec = Append(table.vec, item)
        /\ later.map = [x \in DOMAIN table.map \cup {item} |->
                          IF x = item THEN n ELSE table.map[x]]
        /\ later = [vec |-> later.vec, map |-> later.map]
    BY <1>2 DEF Insert
  <2>2. /\ n \in Nat /\ DOMAIN table.vec = 1 .. n
        /\ later.vec \in Seq(S) /\ DOMAIN later.vec = 1 .. n + 1
        /\ \A i \in 1 .. n : later.vec[i] = table.vec[i]
        /\ later.vec[n + 1] = item
    BY <2>1 DEF TableOf
  <2>3. /\ DOMAIN later.map = DOMAIN table.map \cup {item}
        /\ later.map[item] = n
        /\ \A x \in DOMAIN table.map : x # item /\ later.map[x] = table.map[x]
    BY <1>2, <2>1 DEF Has
  <2> HIDE DEF later, n
  <2>4. TableOf(later, S)
    BY <2>1, <2>2, <2>3 DEF TableOf
  <2>5. Consistent(later)
    <3>1. ASSUME NEW i \in 1 .. n + 1
          PROVE  Has(later, later.vec[i]) /\ later.map[later.vec[i]] = i - 1
      <4>1. CASE i = n + 1
        BY <2>2, <2>3, <4>1 DEF Has
      <4>2. CASE i \in 1 .. n
        BY <2>2, <2>3, <4>2 DEF Has, Consistent
      <4> QED
        BY <2>2, <4>1, <4>2
    <3>2. ASSUME NEW x \in DOMAIN later.map
          PROVE  later.map[x] + 1 \in 1 .. n + 1 /\ later.vec[later.map[x] + 1] = x
      <4>1. CASE x = item
        BY <2>2, <2>3, <4>1
      <4>2. CASE x \in DOMAIN table.map
        BY <2>2, <2>3, <4>2 DEF Consistent, ItemAt
      <4> QED
        BY <2>3, <4>1, <4>2
    <3> QED
      BY <2>2, <3>1, <3>2 DEF Consistent, ItemAt
  <2>6. SameIndices(table, later)
    BY <2>2, <2>3 DEF SameIndices, Has
  <2>7. Has(later, item) /\ IndexOf(later, item) = n /\ ItemAt(later, n) = item
    BY <2>2, <2>3 DEF Has, IndexOf, ItemAt
  <2> QED
    BY <2>2, <2>4, <2>5, <2>6, <2>7 DEF later
<1> QED
  BY <1>1, <1>2

-------------------------------------------------------------------------------

FrameItem == [module_index : Nat, relative_ip : Rva]

TablesInv ==
  /\ TableOf(module_index, ModuleInfo) /\ Consistent(module_index)
  /\ TableOf(frames_index, FrameItem) /\ Consistent(frames_index)

\* What a step does to the tables: nothing, or one get_or_insert in each.
LEMMA TablesStep ==
  ASSUME TablesInv, [Next]_vars
  PROVE  /\ TablesInv'
         /\ SameIndices(module_index, module_index')
         /\ SameIndices(frames_index, frames_index')
<1>1. ASSUME NEW found \in Found, OutputFrame(found)
      PROVE  /\ TablesInv'
             /\ SameIndices(module_index, module_index')
             /\ SameIndices(frames_index, frames_index')
  <2>1. module_index' = Insert(module_index, found.info) /\ found.info \in ModuleInfo
    BY <1>1 DEF OutputFrame, Found
  <2>2. /\ TableOf(module_index', ModuleInfo) /\ Consistent(module_index')
        /\ SameIndices(module_index, module_index')
        /\ IndexOf(module_index', found.info) \in Nat
    BY <2>1, InsertCorrect DEF TablesInv
  <2>3. Frame(found.info, found.rva) \in FrameItem
    BY <2>2, OutputterAssumption DEF Frame, FrameItem, Found
  <2>4. frames_index' = Insert(frames_index, Frame(found.info, found.rva))
    BY <1>1 DEF OutputFrame
  <2>5. /\ TableOf(frames_index', FrameItem) /\ Consistent(frames_index')
        /\ SameIndices(frames_index, frames_index')
    BY <2>3, <2>4, InsertCorrect DEF TablesInv
  <2> QED
    BY <2>2, <2>5 DEF TablesInv
<1>2. ASSUME UNCHANGED <<module_index, frames_index>>
      PROVE  /\ TablesInv'
             /\ SameIndices(module_index, module_index')
             /\ SameIndices(frames_index, frames_index')
  BY <1>2 DEF TablesInv, SameIndices, Has
<1> QED
  BY <1>1, <1>2 DEF Next, Begin, NextSample, SkipFrame, Return, NextThread, vars

\* The empty tables.
LEMMA TablesInit == Init => TablesInv
BY DEF Init, TablesInv, TableOf, Consistent, EmptyTable, ItemAt, Has

\* In both tables of an Outputter list and map agree and nothing is stored
\* twice, whatever profiles it is given.
THEOREM TablesCorrect == Spec => []TablesConsistent
<1>1. TablesInv /\ [Next]_vars => TablesInv'
  BY TablesStep
<1>2. TablesInv => TablesConsistent
  BY DEF TablesInv, TablesConsistent
<1> QED
  BY <1>1, <1>2, TablesInit, PTL DEF Spec

\* The index of a module or of a frame never changes, over all the profiles
\* an Outputter is used for.
THEOREM IndicesCorrect == Spec => IndicesNeverChange
<1>1. TablesInv /\ [Next]_vars => TablesInv'
  BY TablesStep
<1>2. TablesInv /\ [Next]_vars =>
        [SameIndices(module_index, module_index') /\ SameIndices(frames_index, frames_index')]_vars
  BY TablesStep
<1> QED
  BY <1>1, <1>2, TablesInit, PTL DEF Spec, IndicesNeverChange

-------------------------------------------------------------------------------
(* The frames of a sample that have a module, by induction on its length.  *)

\* Induction, from the fact that < is well-founded on Nat.
LEMMA SetInduction ==
  ASSUME NEW S \in SUBSET Nat, 0 \in S, \A n \in S : n + 1 \in S
  PROVE  S = Nat
<1> DEFINE R == OpToRel(<, Nat)
<1>1. IsWellFoundedOn(R, Nat)
  BY Zenon, NatLessThanWellFounded
<1>2. R = {ss \in Nat \X Nat : ss[1] < ss[2]}
  BY Zenon DEF OpToRel
<1> HIDE DEF R
<1>3. SUFFICES ASSUME Nat \ S # {} PROVE FALSE
  OBVIOUS
<1>4. PICK x \in Nat \ S : \A y \in Nat \ S : ~(<<y, x>> \in R)
  <2>1. Nat \ S \subseteq Nat 
    OBVIOUS
  <2> QED
    BY <1>1, <1>3, <2>1, WFMin
<1>5. x # 0 /\ x - 1 \in Nat /\ x - 1 < x
  OBVIOUS
<1>6. x - 1 \in S
  BY <1>2, <1>4, <1>5
<1> QED
  BY <1>4, <1>6

\* The function that Recognized defines by recursion.
IsKept(kept, sample, m) ==
  kept = [n \in 0 .. m |->
            IF n = 0 THEN <<>>
            ELSE IF sample[n] = None THEN kept[n - 1] ELSE Append(kept[n - 1], sample[n])]

\* One application of the definition.
LEMMA IsKeptStep ==
  ASSUME NEW kept, NEW sample, NEW m, IsKept(kept, sample, m), NEW i \in 0 .. m
  PROVE  kept[i] = IF i = 0 THEN <<>>
                   ELSE IF sample[i] = None THEN kept[i - 1] ELSE Append(kept[i - 1], sample[i])
BY DEF IsKept

\* There is such a function for every length.
LEMMA KeptExists ==
  ASSUME NEW sample, NEW m \in Nat
  PROVE  \E kept : IsKept(kept, sample, m)
<1> DEFINE E == {n \in Nat : \E kept : IsKept(kept, sample, n)}
<1>1. 0 \in E
  <2>1. IsKept([n \in 0 .. 0 |-> <<>>], sample, 0)
    BY DEF IsKept
  <2> QED
    BY <2>1
<1>2. ASSUME NEW n \in E PROVE n + 1 \in E
  <2>1. PICK f : IsKept(f, sample, n)
    OBVIOUS
  <2> DEFINE x == sample[n + 1]
             g == [i \in 0 .. n + 1 |->
                     IF i = n + 1 THEN IF x = None THEN f[n] ELSE Append(f[n], x) ELSE f[i]]
  <2>2. \A i \in 0 .. n : f[i] = IF i = 0 THEN <<>>
            ELSE IF sample[i] = None THEN f[i - 1] ELSE Append(f[i - 1], sample[i])
    BY <2>1 DEF IsKept
  <2>3. \A i \in 0 .. n + 1 : g[i] = IF i = 0 THEN <<>>
            ELSE IF sample[i] = None THEN g[i - 1] ELSE Append(g[i - 1], sample[i])
    BY <2>2
  <2>4. IsKept(g, sample, n + 1)
    <3> HIDE DEF x
    <3> QED BY <2>3 DEF IsKept
  <2> QED
    BY <2>4
<1> HIDE DEF E
<1>3. E \in SUBSET Nat
  BY DEF E
<1>4. E = Nat
  BY <1>1, <1>2, <1>3, SetInduction
<1> QED
  BY <1>4 DEF E

\* And its values depend on the beginning of the sample only.
LEMMA KeptUnique ==
  ASSUME NEW S, NEW sample \in Seq(S), NEW longer \in Seq(S), NEW m \in Nat, NEW n \in Nat, m <= n,
         \A i \in 1 .. m : sample[i] = longer[i],
         NEW f, IsKept(f, sample, m), NEW g, IsKept(g, longer, n)
  PROVE  f[m] = g[m]
<1> DEFINE E == {i \in Nat : i \in 0 .. m => f[i] = g[i]}
<1>1. /\ \A i \in 0 .. m : f[i] = IF i = 0 THEN <<>>
            ELSE IF sample[i] = None THEN f[i - 1] ELSE Append(f[i - 1], sample[i])
      /\ \A i \in 0 .. n : g[i] = IF i = 0 THEN <<>>
            ELSE IF longer[i] = None THEN g[i - 1] ELSE Append(g[i - 1], longer[i])
  BY DEF IsKept
<1>2. 0 \in E
  BY <1>1
<1>3. ASSUME NEW i \in E PROVE i + 1 \in E
  <2> SUFFICES ASSUME i + 1 \in 0 .. m PROVE f[i + 1] = g[i + 1]
    OBVIOUS
  <2>1. f[i] = g[i] /\ i + 1 \in 1 .. m /\ (i + 1) - 1 = i
    OBVIOUS
  <2> QED
    BY <1>1, <2>1
<1> HIDE DEF E
<1>4. E \in SUBSET Nat
  BY DEF E
<1>5. E = Nat
  BY <1>2, <1>3, <1>4, SetInduction
<1> QED
  BY <1>5 DEF E

\* Recognized takes its result from such a function.
LEMMA KeptOf ==
  ASSUME NEW S, NEW sample \in Seq(S)
  PROVE  \E kept : IsKept(kept, sample, Len(sample)) /\ Recognized(sample) = kept[Len(sample)]
<1> DEFINE kept == CHOOSE f : IsKept(f, sample, Len(sample))
<1>0. \E f : IsKept(f, sample, Len(sample))
  <2>1. Len(sample) \in Nat
    OBVIOUS
  <2> QED
    BY <2>1, KeptExists
<1>1. IsKept(kept, sample, Len(sample))
  BY <1>0, Zenon
<1>2. Recognized(sample) = kept[Len(sample)]
  BY Zenon DEF Recognized, IsKept
<1> QED
  BY <1>1, <1>2, Zenon

\* No frames, none with a module.
LEMMA RecognizedEmpty == Recognized(<<>>) = <<>>
<1>1. <<>> \in Seq({}) /\ Len(<<>>) = 0
  OBVIOUS
<1>2. PICK kept : IsKept(kept, <<>>, 0) /\ Recognized(<<>>) = kept[0]
  BY <1>1, KeptOf
<1> QED
  BY <1>2 DEF IsKept

\* A frame more adds itself, if it has a module.
LEMMA RecognizedAppend ==
  ASSUME NEW S, NEW sample \in Seq(S), NEW x \in S
  PROVE  Recognized(Append(sample, x)) =
           IF x = None THEN Recognized(sample) ELSE Append(Recognized(sample), x)
<1> DEFINE m == Len(sample)
           longer == Append(sample, x)
<1>1. longer \in Seq(S) /\ Len(longer) = m + 1 /\ m \in Nat /\ longer[m + 1] = x
      /\ \A i \in 1 .. m : sample[i] = longer[i]
  OBVIOUS
<1> HIDE DEF longer
<1>2. PICK f : IsKept(f, sample, m) /\ Recognized(sample) = f[m]
  BY KeptOf
<1>3. PICK g : IsKept(g, longer, m + 1) /\ Recognized(longer) = g[m + 1]
  BY <1>1, KeptOf
<1> HIDE DEF m
<1>4. f[m] = g[m]
  <2>1. PICK l \in Nat : l = m
    BY <1>1
  <2>2. PICK n \in Nat : n = m + 1 /\ l <= n
    BY <1>1, <2>1
  <2>3. /\ \A i \in 1 .. l : sample[i] = longer[i]
        /\ IsKept(f, sample, l) /\ IsKept(g, longer, n)
    BY <1>1, <1>2, <1>3, <2>1, <2>2
  <2>4. f[l] = g[l]
    BY <1>1, <2>2, <2>3, KeptUnique
  <2> QED
    BY <2>1, <2>4
<1>5. g[m + 1] = IF longer[m + 1] = None THEN g[m] ELSE Append(g[m], longer[m + 1])
  <2>1. m + 1 \in 0 .. m + 1 /\ m + 1 # 0 /\ (m + 1) - 1 = m
    BY <1>1
  <2> QED
    BY <1>3, <2>1, IsKeptStep
<1> QED
  BY <1>1, <1>2, <1>3, <1>4, <1>5 DEF longer

\* What is left are items of the sample other than None.
LEMMA RecognizedType ==
  ASSUME NEW S, NEW sample \in Seq(S)
  PROVE  Recognized(sample) \in Seq(S \ {None})
<1>2. PICK f : IsKept(f, sample, Len(sample)) /\ Recognized(sample) = f[Len(sample)]
  BY KeptOf
<1> DEFINE E == {i \in Nat : i \in 0 .. Len(sample) => f[i] \in Seq(S \ {None})}
<1>3. 0 \in E
  BY <1>2 DEF IsKept
<1>4. ASSUME NEW i \in E PROVE i + 1 \in E
  <2> SUFFICES ASSUME i + 1 \in 0 .. Len(sample) PROVE f[i + 1] \in Seq(S \ {None})
    OBVIOUS
  <2>1. f[i] \in Seq(S \ {None}) /\ i + 1 \in 1 .. Len(sample) /\ (i + 1) - 1 = i
    OBVIOUS
  <2>2. f[i + 1] = IF sample[i + 1] = None THEN f[i] ELSE Append(f[i], sample[i + 1])
    BY <1>2, <2>1, IsKeptStep
  <2>3. sample[i + 1] \in S
    BY <2>1
  <2> QED
    BY <2>1, <2>2, <2>3
<1> HIDE DEF E
<1>5. E \in SUBSET Nat
  BY DEF E
<1>6. E = Nat
  BY <1>3, <1>4, <1>5, SetInduction
<1>7. Len(sample) \in Nat
  OBVIOUS
<1> QED
  BY <1>2, <1>6, <1>7 DEF E

-------------------------------------------------------------------------------
(* Lists of threads with their samples, and how two of them match.         *)

\* An entry of input, of threads or of ips.
ThreadOf(X) == [thread_id : ThreadId, samples : Seq(Seq(X))]

\* The last sample of the last thread, to which frames are added.
HasSample(s) == s # <<>> /\ Last(s).samples # <<>>

LastSample(s) == Last(Last(s).samples)

Replaced(s, u) == [s EXCEPT ![Len(s)].samples[Len(s[Len(s)].samples)] = u]

\* The same threads, with as many samples, and those related by R.
Match(a, b, R) ==
  /\ Len(a) = Len(b)
  /\ \A i \in DOMAIN a :
       /\ a[i].thread_id = b[i].thread_id
       /\ Len(a[i].samples) = Len(b[i].samples)
       /\ \A j \in DOMAIN a[i].samples : <<a[i].samples[j], b[i].samples[j]>> \in R

\* The entries of a list with one more at its end.
LEMMA AppendLemma ==
  ASSUME NEW S, NEW s \in Seq(S), NEW x \in S
  PROVE  /\ Append(s, x) \in Seq(S)
         /\ Len(s) \in Nat /\ DOMAIN s = 1 .. Len(s)
         /\ Len(Append(s, x)) = Len(s) + 1 /\ DOMAIN Append(s, x) = 1 .. Len(s) + 1
         /\ Append(s, x)[Len(s) + 1] = x
         /\ \A i \in 1 .. Len(s) : Append(s, x)[i] = s[i]
OBVIOUS

\* The parts of an entry of a list of threads.
LEMMA ThreadType ==
  ASSUME NEW X, NEW s \in Seq(ThreadOf(X)), NEW i \in DOMAIN s
  PROVE  /\ s[i] \in ThreadOf(X) /\ s[i].thread_id \in ThreadId /\ s[i].samples \in Seq(Seq(X))
         /\ s[i] = [thread_id |-> s[i].thread_id, samples |-> s[i].samples]
         /\ Len(s[i].samples) \in Nat /\ DOMAIN s[i].samples = 1 .. Len(s[i].samples)
<1>1. s[i] \in ThreadOf(X)
  OBVIOUS
<1>2. s[i].thread_id \in ThreadId /\ s[i].samples \in Seq(Seq(X))
      /\ s[i] = [thread_id |-> s[i].thread_id, samples |-> s[i].samples]
  BY <1>1 DEF ThreadOf
<1> QED
  BY <1>1, <1>2

\* Replacing the last sample changes that sample only.
LEMMA ReplacedLemma ==
  ASSUME NEW X, NEW s \in Seq(ThreadOf(X)), HasSample(s), NEW u \in Seq(X)
  PROVE  LET n == Len(s)
             m == Len(s[n].samples)
             r == Replaced(s, u)
         IN /\ n \in DOMAIN s /\ m \in DOMAIN s[n].samples /\ s[n].samples[m] = LastSample(s)
            /\ LastSample(s) \in Seq(X)
            /\ r \in Seq(ThreadOf(X)) /\ Len(r) = n
            /\ \A i \in DOMAIN s :
                 /\ r[i].thread_id = s[i].thread_id
                 /\ Len(r[i].samples) = Len(s[i].samples)
                 /\ \A j \in DOMAIN s[i].samples :
                      r[i].samples[j] = IF i = n /\ j = m THEN u ELSE s[i].samples[j]
<1> DEFINE n == Len(s)
           m == Len(s[n].samples)
           r == Replaced(s, u)
           last == [s[n] EXCEPT !.samples[m] = u]
<1>1. n \in Nat /\ n # 0 /\ DOMAIN s = 1 .. n /\ Last(s) = s[n]
  BY DEF HasSample, Last
<1>2. /\ s[n] \in ThreadOf(X) /\ s[n].samples \in Seq(Seq(X))
      /\ m \in Nat /\ m # 0 /\ DOMAIN s[n].samples = 1 .. m
  BY <1>1, ThreadType DEF HasSample
<1>3. LastSample(s) = s[n].samples[m] /\ s[n].samples[m] \in Seq(X)
  BY <1>1, <1>2 DEF LastSample, Last
<1>4. /\ last.thread_id = s[n].thread_id /\ Len(last.samples) = m /\ last.samples \in Seq(Seq(X))
      /\ \A j \in 1 .. m : last.samples[j] = IF j = m THEN u ELSE s[n].samples[j]
      /\ last \in ThreadOf(X)
  <2>1. last.samples = [s[n].samples EXCEPT ![m] = u]
    BY <1>2 DEF ThreadOf
  <2>2. last.samples \in Seq(Seq(X)) /\ Len(last.samples) = m
        /\ \A j \in 1 .. m : last.samples[j] = IF j = m THEN u ELSE s[n].samples[j]
    BY <1>2, <2>1
  <2>3. s[n] = [thread_id |-> s[n].thread_id, samples |-> s[n].samples] /\ s[n].thread_id \in ThreadId
    BY <1>1, ThreadType
  <2>4. last = [thread_id |-> s[n].thread_id, samples |-> last.samples]
    BY <2>1, <2>3
  <2> HIDE DEF last
  <2>5. last.thread_id = s[n].thread_id
    BY <2>4
  <2> QED
    BY <2>2, <2>3, <2>4, <2>5 DEF ThreadOf
<1>5. r = [s EXCEPT ![n] = last]
  BY Zenon DEF Replaced
<1> HIDE DEF r, last, m
<1>6. /\ r \in Seq(ThreadOf(X)) /\ Len(r) = n
      /\ \A i \in DOMAIN s : r[i] = IF i = n THEN last ELSE s[i]
  BY <1>1, <1>4, <1>5
<1>7. ASSUME NEW i \in DOMAIN s
      PROVE  /\ r[i].thread_id = s[i].thread_id
             /\ Len(r[i].samples) = Len(s[i].samples)
             /\ \A j \in DOMAIN s[i].samples :
                  r[i].samples[j] = IF i = n /\ j = m THEN u ELSE s[i].samples[j]
  BY <1>2, <1>4, <1>6 DEF m
<1> QED
  BY <1>1, <1>2, <1>3, <1>6, <1>7 DEF r, m

\* Lists that match still do when both get a new last sample, and these match.
LEMMA MatchReplaced ==
  ASSUME NEW X, NEW Y, NEW R, NEW a \in Seq(ThreadOf(X)), NEW b \in Seq(ThreadOf(Y)),
         Match(a, b, R), HasSample(a), NEW u \in Seq(X), NEW v \in Seq(Y),
         <<u, v>> \in R
  PROVE  /\ HasSample(b)
         /\ <<LastSample(a), LastSample(b)>> \in R
         /\ Match(Replaced(a, u), Replaced(b, v), R)
<1>1. HasSample(b)
  <2>1. Len(a) \in DOMAIN a /\ Len(a[Len(a)].samples) # 0 /\ b # <<>>
    BY ReplacedLemma DEF Match, HasSample
  <2>2. Len(b[Len(b)].samples) # 0 /\ Last(b) = b[Len(b)]
    BY <2>1 DEF Match, Last
  <2> QED
    BY <2>1, <2>2 DEF HasSample
<1> DEFINE r == Replaced(a, u)
           q == Replaced(b, v)
           n == Len(a)
           m == Len(a[n].samples)
<1>2. /\ n \in DOMAIN a /\ m \in DOMAIN a[n].samples /\ a[n].samples[m] = LastSample(a)
      /\ r \in Seq(ThreadOf(X)) /\ Len(r) = n
      /\ \A i \in DOMAIN a :
           /\ r[i].thread_id = a[i].thread_id
           /\ Len(r[i].samples) = Len(a[i].samples)
           /\ \A j \in DOMAIN a[i].samples :
                r[i].samples[j] = IF i = n /\ j = m THEN u ELSE a[i].samples[j]
  BY ReplacedLemma
<1>3. Len(b) = n /\ Len(b[n].samples) = m /\ DOMAIN b = DOMAIN a
  BY <1>2 DEF Match
<1>4. /\ b[n].samples[m] = LastSample(b)
      /\ q \in Seq(ThreadOf(Y)) /\ Len(q) = n
      /\ \A i \in DOMAIN a :
           /\ q[i].thread_id = b[i].thread_id
           /\ Len(q[i].samples) = Len(b[i].samples)
           /\ \A j \in DOMAIN b[i].samples :
                q[i].samples[j] = IF i = n /\ j = m THEN v ELSE b[i].samples[j]
  BY <1>1, <1>3, ReplacedLemma
<1>5. DOMAIN r = DOMAIN a /\ DOMAIN q = DOMAIN a
  BY <1>2, <1>4
<1>6. ASSUME NEW i \in DOMAIN a
      PROVE  /\ DOMAIN r[i].samples = DOMAIN a[i].samples
             /\ DOMAIN b[i].samples = DOMAIN a[i].samples
  <2>1. Len(r[i].samples) = Len(a[i].samples) /\ Len(b[i].samples) = Len(a[i].samples)
    BY <1>2 DEF Match
  <2>2. DOMAIN a[i].samples = 1 .. Len(a[i].samples)
    BY ThreadType
  <2>3. DOMAIN r[i].samples = 1 .. Len(r[i].samples)
    BY <1>2, <1>5, ThreadType
  <2>4. DOMAIN b[i].samples = 1 .. Len(b[i].samples)
    BY <1>3, ThreadType
  <2> QED
    BY <2>1, <2>2, <2>3, <2>4
<1> HIDE DEF r, q, n, m
<1>8. Match(r, q, R)
  <2> SUFFICES ASSUME NEW i \in DOMAIN a
               PROVE  /\ r[i].thread_id = q[i].thread_id
                      /\ Len(r[i].samples) = Len(q[i].samples)
                      /\ \A j \in DOMAIN a[i].samples : <<r[i].samples[j], q[i].samples[j]>> \in R
    BY <1>2, <1>4, <1>5, <1>6 DEF Match
  <2>1. r[i].thread_id = q[i].thread_id /\ Len(r[i].samples) = Len(q[i].samples)
    BY <1>2, <1>4 DEF Match
  <2>2. ASSUME NEW j \in DOMAIN a[i].samples PROVE <<r[i].samples[j], q[i].samples[j]>> \in R
    <3>1. j \in DOMAIN b[i].samples
      BY <1>6
    <3>2. r[i].samples[j] = IF i = n /\ j = m THEN u ELSE a[i].samples[j]
      BY <1>2
    <3>3. q[i].samples[j] = IF i = n /\ j = m THEN v ELSE b[i].samples[j]
      BY <1>4, <3>1
    <3>4. <<a[i].samples[j], b[i].samples[j]>> \in R
      BY DEF Match
    <3> QED
      BY <3>2, <3>3, <3>4
  <2> QED
    BY <2>1, <2>2
<1>9. <<LastSample(a), LastSample(b)>> \in R
  BY <1>2, <1>4 DEF Match
<1> QED
  BY <1>1, <1>8, <1>9 DEF r, q

\* A frame is added to the last sample.
LEMMA WithFrameLemma ==
  ASSUME NEW X, NEW s \in Seq(ThreadOf(X)), HasSample(s), NEW x \in X
  PROVE  /\ WithFrame(s, x) = Replaced(s, Append(LastSample(s), x))
         /\ s = Replaced(s, LastSample(s))
         /\ LastSample(s) \in Seq(X)
<1> DEFINE n == Len(s)
           m == Len(s[n].samples)
<1>1. n \in DOMAIN s /\ m \in DOMAIN s[n].samples /\ s[n].samples[m] = LastSample(s)
      /\ LastSample(s) \in Seq(X)
  <2>1. <<>> \in Seq(X)
    OBVIOUS
  <2> QED
    BY <2>1, ReplacedLemma
<1>2. WithFrame(s, x) = Replaced(s, Append(s[n].samples[m], x))
  BY Zenon DEF WithFrame, Replaced
<1>3. /\ s[n].samples \in Seq(Seq(X))
      /\ s[n] = [thread_id |-> s[n].thread_id, samples |-> s[n].samples]
  BY <1>1, ThreadType
<1> HIDE DEF n, m
<1>4. [s[n].samples EXCEPT ![m] = s[n].samples[m]] = s[n].samples
  <2> DEFINE f == s[n].samples
  <2>1. f = [j \in DOMAIN f |-> f[j]]
    BY <1>3
  <2> QED
    BY <2>1
<1>5. [s[n] EXCEPT !.samples = s[n].samples] = s[n]
  BY <1>3
<1>6. [s EXCEPT ![n] = s[n]] = s
  BY <1>1
<1>7. Replaced(s, LastSample(s)) =
        [s EXCEPT ![n] = [s[n] EXCEPT !.samples = [s[n].samples EXCEPT ![m] = s[n].samples[m]]]]
  BY <1>1, Zenon DEF Replaced, n, m
<1> QED
  BY <1>1, <1>2, <1>4, <1>5, <1>6, <1>7

\* Lists that match still do when both get the same thread.
LEMMA MatchThread ==
  ASSUME NEW X, NEW Y, NEW R, NEW a \in Seq(ThreadOf(X)), NEW b \in Seq(ThreadOf(Y)),
         Match(a, b, R), NEW t \in ThreadId
  PROVE  /\ WithThread(a, t) \in Seq(ThreadOf(X)) /\ WithThread(b, t) \in Seq(ThreadOf(Y))
         /\ Match(WithThread(a, t), WithThread(b, t), R)
<1> DEFINE e == [thread_id |-> t, samples |-> <<>>]
           n == Len(a)
<1>1. e \in ThreadOf(X) /\ e \in ThreadOf(Y) /\ e.samples = <<>> /\ e.thread_id = t
  BY DEF ThreadOf
<1> HIDE DEF e
<1>2. WithThread(a, t) = Append(a, e) /\ WithThread(b, t) = Append(b, e)
  BY DEF WithThread, e
<1>3. /\ n \in Nat /\ Len(b) = n /\ DOMAIN a = 1 .. n
      /\ DOMAIN Append(a, e) = 1 .. n + 1 /\ Len(Append(a, e)) = n + 1 /\ Len(Append(b, e)) = n + 1
      /\ Append(a, e)[n + 1] = e /\ Append(b, e)[n + 1] = e
      /\ \A i \in 1 .. n : Append(a, e)[i] = a[i] /\ Append(b, e)[i] = b[i]
  BY DEF Match
<1>4. Match(Append(a, e), Append(b, e), R)
  <2> SUFFICES ASSUME NEW i \in 1 .. n + 1
               PROVE  /\ Append(a, e)[i].thread_id = Append(b, e)[i].thread_id
                      /\ Len(Append(a, e)[i].samples) = Len(Append(b, e)[i].samples)
                      /\ \A j \in DOMAIN Append(a, e)[i].samples :
                           <<Append(a, e)[i].samples[j], Append(b, e)[i].samples[j]>> \in R
    BY <1>3, Zenon DEF Match
  <2>1. CASE i = n + 1
    BY <1>1, <1>3, <2>1
  <2>2. CASE i \in 1 .. n
    BY <1>3, <2>2 DEF Match
  <2> QED
    BY <1>3, <2>1, <2>2
<1> QED
  BY <1>1, <1>2, <1>4

\* An empty sample is added to the last thread.
LEMMA WithSampleLemma ==
  ASSUME NEW X, NEW s \in Seq(ThreadOf(X)), s # <<>>
  PROVE  LET n == Len(s)
             r == WithSample(s)
         IN /\ n \in DOMAIN s /\ n \in Nat /\ r \in Seq(ThreadOf(X)) /\ Len(r) = n
            /\ \A i \in DOMAIN s :
                 /\ r[i].thread_id = s[i].thread_id
                 /\ r[i].samples = IF i = n THEN Append(s[i].samples, <<>>) ELSE s[i].samples
<1> DEFINE n == Len(s)
           r == WithSample(s)
           last == [s[n] EXCEPT !.samples = Append(s[n].samples, <<>>)]
<1>1. n \in Nat /\ n \in DOMAIN s
  OBVIOUS
<1>2. /\ s[n] = [thread_id |-> s[n].thread_id, samples |-> s[n].samples]
      /\ s[n].thread_id \in ThreadId /\ s[n].samples \in Seq(Seq(X))
  BY <1>1, ThreadType
<1>3. <<>> \in Seq(X) /\ Append(s[n].samples, <<>>) \in Seq(Seq(X))
  BY <1>2
<1>4. last = [thread_id |-> s[n].thread_id, samples |-> Append(s[n].samples, <<>>)]
  <2>1. ASSUME NEW w, w = [thread_id |-> w.thread_id, samples |-> w.samples], NEW c
        PROVE  [w EXCEPT !.samples = c] = [thread_id |-> w.thread_id, samples |-> c]
    BY <2>1
  <2> QED
    BY <1>2, <2>1
<1>5. last \in ThreadOf(X)
  BY <1>2, <1>3, <1>4 DEF ThreadOf
<1>6. r = [s EXCEPT ![n] = last]
  BY Zenon DEF WithSample
<1> HIDE DEF r, last
<1>7. /\ r \in Seq(ThreadOf(X)) /\ Len(r) = n
      /\ \A i \in DOMAIN s : r[i] = IF i = n THEN last ELSE s[i]
  BY <1>1, <1>5, <1>6
<1>8. last.thread_id = s[n].thread_id /\ last.samples = Append(s[n].samples, <<>>)
  BY <1>4
<1> QED
  BY <1>1, <1>7, <1>8 DEF r

\* Lists that match still do when both get an empty sample.
LEMMA MatchSample ==
  ASSUME NEW X, NEW Y, NEW R, NEW a \in Seq(ThreadOf(X)), NEW b \in Seq(ThreadOf(Y)),
         Match(a, b, R), a # <<>>, << <<>>, <<>> >> \in R
  PROVE  Match(WithSample(a), WithSample(b), R) /\ b # <<>>
<1> DEFINE n == Len(a)
           r == WithSample(a)
           q == WithSample(b)
<1>1. /\ n \in DOMAIN a /\ n \in Nat /\ r \in Seq(ThreadOf(X)) /\ Len(r) = n
      /\ \A i \in DOMAIN a :
           /\ r[i].thread_id = a[i].thread_id
           /\ r[i].samples = IF i = n THEN Append(a[i].samples, <<>>) ELSE a[i].samples
  BY WithSampleLemma
<1>2. b # <<>> /\ Len(b) = n
  BY <1>1 DEF Match
<1>3. /\ q \in Seq(ThreadOf(Y)) /\ Len(q) = n
      /\ \A i \in DOMAIN b :
           /\ q[i].thread_id = b[i].thread_id
           /\ q[i].samples = IF i = n THEN Append(b[i].samples, <<>>) ELSE b[i].samples
  BY <1>2, WithSampleLemma
<1> HIDE DEF r, q
<1>4. DOMAIN r = DOMAIN a /\ DOMAIN b = DOMAIN a
  BY <1>1, <1>2, <1>3
<1> HIDE DEF n
<1>5. Match(r, q, R)
  <2> SUFFICES ASSUME NEW i \in DOMAIN a
               PROVE  /\ r[i].thread_id = q[i].thread_id
                      /\ Len(r[i].samples) = Len(q[i].samples)
                      /\ \A j \in DOMAIN r[i].samples : <<r[i].samples[j], q[i].samples[j]>> \in R
    BY <1>1, <1>3, <1>4 DEF Match
  <2>1. r[i].thread_id = q[i].thread_id
    BY <1>1, <1>3, <1>4 DEF Match
  <2>2. /\ a[i].samples \in Seq(Seq(X)) /\ b[i].samples \in Seq(Seq(Y))
        /\ Len(a[i].samples) = Len(b[i].samples)
        /\ \A j \in DOMAIN a[i].samples : <<a[i].samples[j], b[i].samples[j]>> \in R
    BY <1>4, ThreadType DEF Match
  <2>3. CASE i # n
    BY <1>1, <1>3, <1>4, <2>1, <2>2, <2>3
  <2>4. CASE i = n
    <3>1. r[i].samples = Append(a[i].samples, <<>>) /\ q[i].samples = Append(b[i].samples, <<>>)
      BY <1>1, <1>3, <1>4, <2>4
    <3> DEFINE l == Len(a[i].samples)
    <3>2. /\ l \in Nat /\ DOMAIN a[i].samples = 1 .. l
          /\ Len(r[i].samples) = l + 1 /\ DOMAIN r[i].samples = 1 .. l + 1 /\ r[i].samples[l + 1] = <<>>
          /\ \A j \in 1 .. l : r[i].samples[j] = a[i].samples[j]
      <4>1. a[i].samples \in Seq(Seq(X)) /\ <<>> \in Seq(X)
        BY <2>2
      <4> QED
        BY <3>1, <4>1, AppendLemma
    <3>3. /\ Len(q[i].samples) = l + 1 /\ q[i].samples[l + 1] = <<>>
          /\ \A j \in 1 .. l : q[i].samples[j] = b[i].samples[j]
      <4>1. b[i].samples \in Seq(Seq(Y)) /\ <<>> \in Seq(Y)
        BY <2>2
      <4> QED
        BY <2>2, <3>1, <4>1, AppendLemma
    <3> HIDE DEF l
    <3>4. ASSUME NEW j \in 1 .. l + 1 PROVE <<r[i].samples[j], q[i].samples[j]>> \in R
      <4>1. CASE j = l + 1
        BY <3>2, <3>3, <4>1
      <4>2. CASE j \in 1 .. l
        BY <2>2, <3>2, <3>3, <4>2
      <4> QED
        BY <3>2, <4>1, <4>2
    <3> QED
      BY <2>1, <3>2, <3>3, <3>4
  <2> QED
    BY <2>3, <2>4
<1> QED
  BY <1>2, <1>5 DEF r, q

\* What matches in a relation matches in a larger one.
LEMMA MatchMonotone ==
  ASSUME NEW X, NEW a \in Seq(ThreadOf(X)), NEW b, NEW R, NEW Q, Match(a, b, R), R \subseteq Q
  PROVE  Match(a, b, Q)
BY DEF Match

-------------------------------------------------------------------------------
(* What a sample of indices means, given the two lists.                    *)

\* What output makes of an input sample, as a relation.
Lists(modules, frames) == [modules |-> modules, frames |-> frames]

Meaning(modules, frames) ==
  {ss \in Seq(Found \cup {None}) \X Seq(Nat) :
     /\ InRange(Lists(modules, frames), ss[2])
     /\ Decoded(Lists(modules, frames), ss[2]) = Recognized(ss[1])}

\* What a reader makes of one index.
FrameAt(modules, frames, index) ==
  [info |-> modules[frames[index + 1].module_index + 1], rva |-> frames[index + 1].relative_ip]

\* Decoding, index by index.
LEMMA MeaningDef ==
  ASSUME NEW modules, NEW frames, NEW out \in Seq(Nat)
  PROVE  /\ Decoded(Lists(modules, frames), out) =
              [k \in 1 .. Len(out) |-> FrameAt(modules, frames, out[k])]
         /\ InRange(Lists(modules, frames), out) <=>
              \A k \in 1 .. Len(out) : /\ out[k] < Len(frames)
                                       /\ frames[out[k] + 1].module_index < Len(modules)
<1>1. Lists(modules, frames).frames = frames /\ Lists(modules, frames).modules = modules
  BY DEF Lists
<1>2. DOMAIN out = 1 .. Len(out)
  OBVIOUS
<1> QED
  BY <1>1, <1>2 DEF Decoded, InRange, FrameAt, ItemAt

\* list is the beginning of longer.
Extends(longer, list) == \A i \in DOMAIN list : i \in DOMAIN longer /\ longer[i] = list[i]

\* Longer lists with the same beginnings give the same meaning.
LEMMA MeaningGrows ==
  ASSUME NEW modules \in Seq(ModuleInfo), NEW frames \in Seq(FrameItem),
         NEW modules2 \in Seq(ModuleInfo), NEW frames2 \in Seq(FrameItem),
         Extends(modules2, modules), Extends(frames2, frames)
  PROVE  Meaning(modules, frames) \subseteq Meaning(modules2, frames2)
<1> SUFFICES ASSUME NEW in \in Seq(Found \cup {None}), NEW out \in Seq(Nat),
                    InRange(Lists(modules, frames), out),
                    Decoded(Lists(modules, frames), out) = Recognized(in)
             PROVE  /\ InRange(Lists(modules2, frames2), out)
                    /\ Decoded(Lists(modules2, frames2), out) = Recognized(in)
  BY DEF Meaning
<1>1. ASSUME NEW k \in 1 .. Len(out)
      PROVE  /\ out[k] < Len(frames2) /\ frames2[out[k] + 1].module_index < Len(modules2)
             /\ FrameAt(modules2, frames2, out[k]) = FrameAt(modules, frames, out[k])
  <2>1. out[k] \in Nat /\ out[k] < Len(frames) /\ frames[out[k] + 1].module_index < Len(modules)
    BY MeaningDef
  <2>2. out[k] + 1 \in DOMAIN frames
    BY <2>1
  <2>3. /\ out[k] + 1 \in DOMAIN frames2 /\ frames2[out[k] + 1] = frames[out[k] + 1]
        /\ frames[out[k] + 1] \in FrameItem
    BY <2>2 DEF Extends
  <2>4. frames[out[k] + 1].module_index \in Nat
    BY <2>3 DEF FrameItem
  <2>5. frames[out[k] + 1].module_index + 1 \in DOMAIN modules
    BY <2>1, <2>4
  <2>6. /\ frames[out[k] + 1].module_index + 1 \in DOMAIN modules2
        /\ modules2[frames[out[k] + 1].module_index + 1] = modules[frames[out[k] + 1].module_index + 1]
    BY <2>5 DEF Extends
  <2>7. /\ Len(frames2) \in Nat /\ Len(modules2) \in Nat
        /\ DOMAIN frames2 = 1 .. Len(frames2) /\ DOMAIN modules2 = 1 .. Len(modules2)
    OBVIOUS
  <2>8. out[k] < Len(frames2)
    BY <2>1, <2>3, <2>7
  <2>9. frames2[out[k] + 1].module_index < Len(modules2)
    <3>1. PICK j \in Nat : j = frames[out[k] + 1].module_index
      BY <2>4
    <3>2. j + 1 \in 1 .. Len(modules2) /\ j = frames2[out[k] + 1].module_index
      BY <2>3, <2>6, <2>7, <3>1
    <3>3. \A m \in Nat : j + 1 \in 1 .. m => j < m
      OBVIOUS
    <3> QED
      BY <2>7, <3>2, <3>3, Zenon
  <2>10. FrameAt(modules2, frames2, out[k]) = FrameAt(modules, frames, out[k])
    BY <2>3, <2>6 DEF FrameAt
  <2> QED
    BY <2>8, <2>9, <2>10
<1>2. InRange(Lists(modules2, frames2), out)
  BY <1>1, MeaningDef
<1>3. Decoded(Lists(modules2, frames2), out) = Decoded(Lists(modules, frames), out)
  BY <1>1, MeaningDef
<1> QED
  BY <1>2, <1>3

\* The empty sample.
LEMMA MeaningEmpty ==
  ASSUME NEW modules, NEW frames
  PROVE  << <<>>, <<>> >> \in Meaning(modules, frames)
<1>1. <<>> \in Seq(Nat) /\ <<>> \in Seq(Found \cup {None}) /\ Len(<<>>) = 0
  OBVIOUS
<1>2. Decoded(Lists(modules, frames), <<>>) = <<>> /\ InRange(Lists(modules, frames), <<>>)
  BY DEF Decoded, InRange
<1> QED
  BY <1>1, <1>2, RecognizedEmpty DEF Meaning

\* A frame without a module does not change what the sample means.
LEMMA MeaningSkip ==
  ASSUME NEW modules, NEW frames, NEW in \in Seq(Found \cup {None}), NEW out \in Seq(Nat),
         <<in, out>> \in Meaning(modules, frames)
  PROVE  <<Append(in, None), out>> \in Meaning(modules, frames)
<1>1. Recognized(Append(in, None)) = Recognized(in)
  BY RecognizedAppend
<1>2. Append(in, None) \in Seq(Found \cup {None})
  OBVIOUS
<1> QED
  BY <1>1, <1>2 DEF Meaning

\* A frame is added together with an index that decodes to it.
LEMMA MeaningAppend ==
  ASSUME NEW modules \in Seq(ModuleInfo), NEW frames \in Seq(FrameItem),
         NEW in \in Seq(Found \cup {None}), NEW out \in Seq(Nat),
         <<in, out>> \in Meaning(modules, frames),
         NEW found \in Found, NEW index \in Nat, index < Len(frames),
         frames[index + 1].module_index < Len(modules),
         FrameAt(modules, frames, index) = found
  PROVE  <<Append(in, found), Append(out, index)>> \in Meaning(modules, frames)
<1> DEFINE n == Len(out)
           longer == Append(out, index)
           l == Lists(modules, frames)
<1>1. /\ longer \in Seq(Nat) /\ n \in Nat /\ Len(longer) = n + 1 /\ longer[n + 1] = index
      /\ \A k \in 1 .. n : longer[k] = out[k]
  BY AppendLemma
<1>2. InRange(l, out) /\ Decoded(l, out) = Recognized(in)
  BY DEF Meaning
<1> HIDE DEF longer, l
<1>3. found # None /\ found \in Found \cup {None}
  BY OutputterAssumption
<1>4. Recognized(Append(in, found)) = Append(Recognized(in), found)
  BY <1>3, RecognizedAppend
<1>5. InRange(l, longer)
  <2> SUFFICES ASSUME NEW k \in 1 .. n + 1
               PROVE longer[k] < Len(frames) /\ frames[longer[k] + 1].module_index < Len(modules)
    BY <1>1, MeaningDef DEF l
  <2>1. CASE k = n + 1
    BY <1>1, <2>1
  <2>2. CASE k \in 1 .. n
    BY <1>1, <1>2, <2>2, MeaningDef DEF l
  <2> QED
    BY <1>1, <2>1, <2>2
<1>6. Decoded(l, longer) = Append(Recognized(in), found)
  <2>1. Recognized(in) \in Seq((Found \cup {None}) \ {None})
    BY RecognizedType
  <2>2. Recognized(in) = [k \in 1 .. n |-> FrameAt(modules, frames, out[k])]
    BY <1>2, MeaningDef DEF l
  <2>3. Decoded(l, longer) = [k \in 1 .. n + 1 |-> FrameAt(modules, frames, longer[k])]
    <3>1. Decoded(l, longer) = [k \in 1 .. Len(longer) |-> FrameAt(modules, frames, longer[k])]
      <4>1. l.frames = frames /\ l.modules = modules /\ DOMAIN longer = 1 .. Len(longer)
        BY <1>1 DEF l, Lists
      <4> QED
        BY <4>1 DEF Decoded, FrameAt, ItemAt
    <3> QED
      BY <1>1, <3>1
  <2>4. Len(Recognized(in)) = n
    BY <1>1, <2>1, <2>2
  <2>5. /\ DOMAIN Append(Recognized(in), found) = 1 .. n + 1
        /\ Append(Recognized(in), found)[n + 1] = found
        /\ \A k \in 1 .. n : Append(Recognized(in), found)[k] = Recognized(in)[k]
        /\ Append(Recognized(in), found) \in Seq(Found)
    <3>1. Recognized(in) \in Seq(Found)
      BY <2>1, OutputterAssumption
    <3> QED
      BY <2>4, <3>1, AppendLemma
  <2>6. Append(Recognized(in), found) = [k \in 1 .. n + 1 |-> Append(Recognized(in), found)[k]]
    <3>1. ASSUME NEW s \in Seq(Found) PROVE s = [k \in DOMAIN s |-> s[k]]
      OBVIOUS
    <3> QED
      BY <2>5, <3>1
  <2>7. \A k \in 1 .. n + 1 : Append(Recognized(in), found)[k] = FrameAt(modules, frames, longer[k])
    <3> SUFFICES ASSUME NEW k \in 1 .. n + 1
                 PROVE  Append(Recognized(in), found)[k] = FrameAt(modules, frames, longer[k])
      OBVIOUS
    <3>1. CASE k = n + 1
      BY <1>1, <2>5, <3>1
    <3>2. CASE k \in 1 .. n
      BY <1>1, <2>2, <2>5, <3>2
    <3>3. k = n + 1 \/ k \in 1 .. n
      BY <1>1
    <3> QED
      BY <3>1, <3>2, <3>3
  <2> QED
    BY <2>3, <2>6, <2>7
<1>7. Append(in, found) \in Seq(Found \cup {None})
  BY <1>3
<1> QED
  BY <1>1, <1>4, <1>5, <1>6, <1>7 DEF Meaning, l, longer

-------------------------------------------------------------------------------
(* The profiles.                                                           *)

\* The index of every module is less than 2^32: `as u32` keeps it.
ModulesFit == Len(module_index.vec) <= U32

\* What get_or_insert returns.
InputItem == Found \cup {None}

\* What has been built so far means what has gone in, with the lists as they
\* are, and the last profile means what went into it with its own.
ProfileInv ==
  /\ TablesInv
  /\ input \in Seq(ThreadOf(InputItem))
  /\ threads \in Seq(ThreadOf(Nat))
  /\ Match(input, threads, Meaning(module_index.vec, frames_index.vec))
  /\ ProfilesDecode

\* Frames are only put out into a sample.
LEMMA AtFrameHasSample ==
  ASSUME AtFrame
  PROVE  HasSample(input) /\ active
BY DEF AtFrame, HasSample

\* What get_or_insert returns for a frame leads a reader of the lists back to
\* module and offset.
LEMMA OutputFrameTables ==
  ASSUME TablesInv, ModulesFit', NEW found \in Found, OutputFrame(found)
  PROVE  LET index == IndexOf(frames_index', Frame(found.info, found.rva))
             modules == module_index'.vec
             frames == frames_index'.vec
         IN /\ index \in Nat /\ index < Len(frames)
            /\ frames[index + 1].module_index < Len(modules)
            /\ FrameAt(modules, frames, index) = found
<1> DEFINE frame == Frame(found.info, found.rva)
           index == IndexOf(frames_index', frame)
           modules == module_index'.vec
           frames == frames_index'.vec
           pos == IndexOf(module_index', found.info)
<1>1. /\ found.info \in ModuleInfo /\ found.rva \in Rva
      /\ found = [info |-> found.info, rva |-> found.rva]
  BY DEF Found
<1>2. /\ module_index' = Insert(module_index, found.info)
      /\ frames_index' = Insert(frames_index, frame)
  BY DEF OutputFrame
<1>3. /\ TableOf(module_index', ModuleInfo) /\ Consistent(module_index')
      /\ Has(module_index', found.info) /\ pos \in Nat /\ modules[pos + 1] = found.info
  BY <1>1, <1>2, InsertCorrect DEF TablesInv, ItemAt
<1>4. modules \in Seq(ModuleInfo) /\ Len(modules) \in Nat /\ pos + 1 \in DOMAIN modules
  <2>1. modules \in Seq(ModuleInfo)
    BY <1>3 DEF TableOf
  <2>2. pos + 1 \in DOMAIN modules
    BY <1>3 DEF Consistent, IndexOf, Has
  <2> QED
    BY <2>1, <2>2
<1>5. pos < Len(modules)
  BY <1>3, <1>4
<1>6. pos % U32 = pos
  <2>1. pos < U32 /\ U32 \in Nat \ {0}
    BY <1>3, <1>4, <1>5, OutputterAssumption DEF ModulesFit
  <2> HIDE DEF pos
  <2> QED
    BY <1>3, <2>1
<1>7. frame = [module_index |-> pos, relative_ip |-> found.rva]
  BY <1>6 DEF Frame
<1>8. frame \in FrameItem
  BY <1>1, <1>3, <1>7 DEF FrameItem
<1> HIDE DEF frame
<1>9. /\ TableOf(frames_index', FrameItem) /\ Consistent(frames_index')
      /\ Has(frames_index', frame) /\ index \in Nat /\ frames[index + 1] = frame
  BY <1>2, <1>8, InsertCorrect DEF TablesInv, ItemAt
<1>10. frames \in Seq(FrameItem) /\ index + 1 \in DOMAIN frames
  BY <1>9 DEF TableOf, Consistent, IndexOf, Has
<1>11. index < Len(frames)
  BY <1>9, <1>10
<1>12. FrameAt(modules, frames, index) = found
  BY <1>1, <1>3, <1>7, <1>9 DEF FrameAt
<1>13. frames[index + 1].module_index < Len(modules)
  BY <1>5, <1>7, <1>9
<1> QED
  BY <1>9, <1>11, <1>12, <1>13 DEF frame

\* The lists of the two tables.
LEMMA TablesTypes ==
  ASSUME TablesInv
  PROVE  module_index.vec \in Seq(ModuleInfo) /\ frames_index.vec \in Seq(FrameItem)
BY DEF TablesInv, TableOf

\* A frame with a module.
LEMMA OutputFrameKeeps ==
  ASSUME ProfileInv, ModulesFit', NEW found \in Found, OutputFrame(found)
  PROVE  ProfileInv'
<1> DEFINE index == IndexOf(frames_index', Frame(found.info, found.rva))
           old == Meaning(module_index.vec, frames_index.vec)
           new == Meaning(module_index'.vec, frames_index'.vec)
           in == LastSample(input)
           out == LastSample(threads)
<1>1. /\ TablesInv /\ input \in Seq(ThreadOf(InputItem)) /\ threads \in Seq(ThreadOf(Nat))
      /\ Match(input, threads, old) /\ ProfilesDecode
  BY DEF ProfileInv
<1>2. /\ TablesInv' /\ SameIndices(module_index, module_index') /\ SameIndices(frames_index, frames_index')
  BY <1>1, TablesStep DEF Next
<1>3. /\ module_index.vec \in Seq(ModuleInfo) /\ frames_index.vec \in Seq(FrameItem)
      /\ module_index'.vec \in Seq(ModuleInfo) /\ frames_index'.vec \in Seq(FrameItem)
  BY <1>1, <1>2 DEF TablesInv, TableOf
<1>4. old \subseteq new
  BY <1>2, <1>3, MeaningGrows DEF Extends, SameIndices
<1>5. /\ index \in Nat /\ index < Len(frames_index'.vec)
      /\ frames_index'.vec[index + 1].module_index < Len(module_index'.vec)
      /\ FrameAt(module_index'.vec, frames_index'.vec, index) = found
  BY <1>1, OutputFrameTables
<1>6. HasSample(input)
  BY AtFrameHasSample DEF OutputFrame
<1>7. input' = WithFrame(input, found) /\ threads' = WithFrame(threads, index) /\ UNCHANGED returned
  BY DEF OutputFrame
<1> HIDE DEF index, old, new
<1>8. Match(input, threads, new)
  BY <1>1, <1>4, MatchMonotone
<1>9. found \in InputItem
  BY DEF InputItem
<1>10. /\ in \in Seq(InputItem) /\ input = Replaced(input, in)
       /\ input' = Replaced(input, Append(in, found))
  BY <1>1, <1>6, <1>7, <1>9, WithFrameLemma
<1>11. Append(in, found) \in Seq(InputItem)
  BY <1>9, <1>10
<1>12. HasSample(threads) /\ <<in, out>> \in new
  <2>1. <<>> \in Seq(InputItem) /\ <<>> \in Seq(Nat) /\ << <<>>, <<>> >> \in new
    BY MeaningEmpty DEF new
  <2> QED
    BY <1>1, <1>6, <1>8, <2>1, MatchReplaced
<1>13. out \in Seq(Nat) /\ threads' = Replaced(threads, Append(out, index))
  BY <1>1, <1>5, <1>7, <1>12, WithFrameLemma
<1>14. Append(out, index) \in Seq(Nat)
  BY <1>5, <1>13
<1>15. <<Append(in, found), Append(out, index)>> \in new
  BY <1>3, <1>5, <1>10, <1>12, <1>13, MeaningAppend DEF new, InputItem
<1>16. Match(input', threads', new)
  BY <1>1, <1>6, <1>8, <1>10, <1>11, <1>13, <1>14, <1>15, MatchReplaced
<1>17. input' \in Seq(ThreadOf(InputItem)) /\ threads' \in Seq(ThreadOf(Nat))
  BY <1>1, <1>6, <1>10, <1>11, <1>12, <1>13, <1>14, ReplacedLemma
<1>18. ProfilesDecode'
  BY <1>1, <1>7 DEF ProfilesDecode
<1> QED
  BY <1>2, <1>16, <1>17, <1>18 DEF ProfileInv, new

\* The invariant holds at the start.
LEMMA ProfileInit == ASSUME Init PROVE ProfileInv
<1>1. TablesInv /\ input = <<>> /\ threads = <<>> /\ returned = Nothing
  BY TablesInit DEF Init
<1>2. /\ <<>> \in Seq(ThreadOf(InputItem)) /\ <<>> \in Seq(ThreadOf(Nat))
      /\ DOMAIN <<>> = {} /\ Len(<<>>) = 0
  OBVIOUS
<1>3. Match(input, threads, Meaning(module_index.vec, frames_index.vec))
  BY <1>1, <1>2 DEF Match
<1>4. ProfilesDecode
  BY <1>1, <1>2 DEF ProfilesDecode, Nothing
<1> QED
  BY <1>1, <1>2, <1>3, <1>4 DEF ProfileInv

\* The profile returned is as good as what was built.
LEMMA ReturnKeeps ==
  ASSUME ProfileInv, Return
  PROVE  ProfileInv'
<1> DEFINE meaning == Meaning(module_index.vec, frames_index.vec)
<1>1. /\ input \in Seq(ThreadOf(InputItem)) /\ threads \in Seq(ThreadOf(Nat))
      /\ Match(input, threads, meaning)
  BY DEF ProfileInv
<1>2. /\ returned' = [input |-> input, profile |-> Profile]
      /\ input' = <<>> /\ threads' = <<>> /\ UNCHANGED <<module_index, frames_index>>
  BY DEF Return
<1>3. /\ Profile.threads = threads
      /\ Profile.modules = module_index.vec /\ Profile.frames = frames_index.vec
  BY DEF Profile
<1>4. ASSUME NEW i \in DOMAIN input
      PROVE  /\ threads[i].thread_id = input[i].thread_id
             /\ Len(threads[i].samples) = Len(input[i].samples)
             /\ \A j \in DOMAIN input[i].samples :
                  /\ InRange(Profile, threads[i].samples[j])
                  /\ Decoded(Profile, threads[i].samples[j]) = Recognized(input[i].samples[j])
  <2>1. /\ threads[i].thread_id = input[i].thread_id
        /\ Len(threads[i].samples) = Len(input[i].samples)
        /\ \A j \in DOMAIN input[i].samples : <<input[i].samples[j], threads[i].samples[j]>> \in meaning
    BY <1>1 DEF Match
  <2>2. ASSUME NEW s
        PROVE  /\ InRange(Profile, s) = InRange(Lists(module_index.vec, frames_index.vec), s)
               /\ Decoded(Profile, s) = Decoded(Lists(module_index.vec, frames_index.vec), s)
    BY <1>3, Zenon DEF InRange, Decoded, Lists, ItemAt
  <2> QED
    BY <2>1, <2>2 DEF Meaning
<1>5. DOMAIN threads = DOMAIN input
  BY <1>1 DEF Match
<1>6. ProfilesDecode'
  BY <1>2, <1>3, <1>4, <1>5 DEF ProfilesDecode
<1>7. /\ <<>> \in Seq(ThreadOf(InputItem)) /\ <<>> \in Seq(ThreadOf(Nat))
      /\ DOMAIN <<>> = {} /\ Len(<<>>) = 0
  OBVIOUS
<1>8. Match(<<>>, <<>>, meaning)
  BY <1>7 DEF Match
<1> QED
  BY <1>2, <1>6, <1>7, <1>8 DEF ProfileInv, TablesInv

\* Every step of an Outputter keeps it.
LEMMA ProfileStep ==
  ASSUME ProfileInv, ModulesFit', [Next]_vars
  PROVE  ProfileInv'
<1> DEFINE meaning == Meaning(module_index.vec, frames_index.vec)
<1>1. /\ TablesInv /\ input \in Seq(ThreadOf(InputItem)) /\ threads \in Seq(ThreadOf(Nat))
      /\ Match(input, threads, meaning) /\ ProfilesDecode
  BY DEF ProfileInv
<1>2. << <<>>, <<>> >> \in meaning
  BY MeaningEmpty
<1>3. ASSUME UNCHANGED <<module_index, frames_index>>, returned' = returned \/ returned' = Nothing,
             input' \in Seq(ThreadOf(InputItem)), threads' \in Seq(ThreadOf(Nat)),
             Match(input', threads', meaning)
      PROVE  ProfileInv'
  <2>1. ProfilesDecode'
    BY <1>1, <1>3 DEF ProfilesDecode, Nothing
  <2> QED
    BY <1>1, <1>3, <2>1 DEF ProfileInv, TablesInv
<1> HIDE DEF meaning
<1>4. CASE Begin
  <2>1. <<>> \in Seq(ThreadOf(InputItem)) /\ <<>> \in Seq(ThreadOf(Nat)) /\ Match(<<>>, <<>>, meaning)
    BY DEF Match
  <2> QED
    BY <1>3, <1>4, <2>1 DEF Begin
<1>5. ASSUME NEW t \in ThreadId, NextThread(t) PROVE ProfileInv'
  BY <1>1, <1>3, <1>5, MatchThread DEF NextThread
<1>6. CASE NextSample
  <2>1. Match(WithSample(input), WithSample(threads), meaning) /\ threads # <<>> /\ input # <<>>
    BY <1>1, <1>2, <1>6, MatchSample DEF NextSample
  <2>2. WithSample(input) \in Seq(ThreadOf(InputItem)) /\ WithSample(threads) \in Seq(ThreadOf(Nat))
    BY <1>1, <2>1, WithSampleLemma
  <2> QED
    BY <1>3, <1>6, <2>1, <2>2 DEF NextSample
<1>7. CASE SkipFrame
  <2> DEFINE in == LastSample(input)
             out == LastSample(threads)
  <2>1. HasSample(input) /\ None \in InputItem
    BY <1>7, AtFrameHasSample DEF SkipFrame, InputItem
  <2>2. /\ in \in Seq(InputItem) /\ input = Replaced(input, in)
        /\ WithFrame(input, None) = Replaced(input, Append(in, None))
    BY <1>1, <2>1, WithFrameLemma
  <2>3. HasSample(threads) /\ <<in, out>> \in meaning
    <3>1. <<>> \in Seq(InputItem) /\ <<>> \in Seq(Nat)
      OBVIOUS
    <3> QED
      BY <1>1, <1>2, <2>1, <3>1, MatchReplaced
  <2>4. out \in Seq(Nat) /\ threads = Replaced(threads, out)
    <3>1. 0 \in Nat
      OBVIOUS
    <3> QED
      BY <1>1, <2>3, <3>1, WithFrameLemma
  <2>5. <<Append(in, None), out>> \in meaning
    BY <2>2, <2>3, <2>4, MeaningSkip DEF meaning, InputItem
  <2>6. Append(in, None) \in Seq(InputItem)
    BY <2>1, <2>2
  <2>7. Match(WithFrame(input, None), threads, meaning)
    <3>1. Match(Replaced(input, Append(in, None)), Replaced(threads, out), meaning)
      BY <1>1, <2>1, <2>4, <2>5, <2>6, MatchReplaced
    <3> QED
      BY <2>2, <2>4, <3>1
  <2>8. WithFrame(input, None) \in Seq(ThreadOf(InputItem))
    <3>1. Replaced(input, Append(in, None)) \in Seq(ThreadOf(InputItem))
      BY <1>1, <2>1, <2>6, ReplacedLemma
    <3> QED
      BY <2>2, <3>1
  <2> QED
    BY <1>1, <1>3, <1>7, <2>7, <2>8 DEF SkipFrame
<1>8. CASE UNCHANGED vars
  BY <1>1, <1>3, <1>8 DEF vars
<1> QED
  BY <1>4, <1>5, <1>6, <1>7, <1>8, OutputFrameKeeps, ReturnKeeps DEF Next

\* The list of modules only grows.
LEMMA FitBefore ==
  ASSUME TablesInv, [Next]_vars, ModulesFit'
  PROVE  ModulesFit
<1>1. TablesInv' /\ SameIndices(module_index, module_index')
  BY TablesStep
<1> DEFINE n == Len(module_index.vec)
           m == Len(module_index'.vec)
<1>2. /\ n \in Nat /\ DOMAIN module_index.vec = 1 .. n
      /\ m \in Nat /\ DOMAIN module_index'.vec = 1 .. m
  BY <1>1 DEF TablesInv, TableOf
<1>3. 1 .. n \subseteq 1 .. m
  BY <1>1, <1>2 DEF SameIndices
<1> HIDE DEF n, m
<1>4. n <= m
  BY <1>2, <1>3
<1> QED
  BY <1>2, <1>4, OutputterAssumption DEF ModulesFit, n, m

\* Every profile decodes to the frames that went into it, whatever the profiles
\* before it left in the two lists, until there are more modules than a
\* u32 can count.
THEOREM ProfilesCorrect == Spec => [](ModulesFit => ProfilesDecode)
<1> DEFINE Inv == TablesInv /\ (ModulesFit => ProfileInv)
<1>1. Init => Inv
  BY TablesInit, ProfileInit
<1>2. Inv /\ [Next]_vars => Inv'
  BY TablesStep, FitBefore, ProfileStep
<1>3. Inv => (ModulesFit => ProfilesDecode)
  BY DEF ProfileInv
<1> QED
  BY <1>1, <1>2, <1>3, PTL DEF Spec

-------------------------------------------------------------------------------
(* The Outputter with its ModuleCache.                                     *)

\* What a step is for the Outputter and for the cache.
LEMMA RecordingParts ==
  ASSUME [RecordingNext]_allVars
  PROVE  [Next]_vars /\ [C!Next]_(C!vars)
<1>1. ASSUME ~panicked, NEW p \in C!Placement, LoadImage(p) PROVE UNCHANGED vars /\ C!Next
  BY <1>1 DEF LoadImage, C!Next
<1>2. ASSUME ~panicked, NEW ip \in C!Addr, OneFrame(ip) PROVE Next /\ C!Next
  BY <1>2 DEF OneFrame, Next, GetOrInsert, C!Next
<1>3. ASSUME ~panicked, NEW ip \in C!Addr, OnePanic(ip) PROVE UNCHANGED vars /\ C!Next
  BY <1>3 DEF OnePanic, GetOrInsert, C!Next
<1>4. ASSUME UNCHANGED cache PROVE UNCHANGED C!vars
  BY <1>4 DEF cache, C!vars, C!loader
<1> QED
  BY <1>1, <1>2, <1>3, <1>4 DEF RecordingNext, allVars, Start, OneSample, Finish, Thread, Next

\* With the cache to answer it the Outputter is still one of Outputter: the
\* two theorems above hold of what is made of recorded addresses.
THEOREM RecordingImplements == RecordingSpec => Spec
<1>1. RecordingInit => Init
  BY DEF RecordingInit
<1>2. [RecordingNext]_allVars => [Next]_vars
  BY RecordingParts
<1> QED
  BY <1>1, <1>2, PTL DEF RecordingSpec, Spec

\* And the cache is one of ModuleCache: what is proved of it holds for the
\* addresses of any profiles, in the order in which output asks for them.
THEOREM RecordingUsesCache == RecordingSpec => C!Spec
<1>1. RecordingInit => C!Init
  BY DEF RecordingInit
<1>2. [RecordingNext]_allVars => [C!Next]_(C!vars)
  BY RecordingParts
<1> QED
  BY <1>1, <1>2, PTL DEF RecordingSpec, C!Spec

-------------------------------------------------------------------------------
(* The cache, as ModuleCacheProofs knows it.                               *)

\* The cache of Recording is the one that ModuleCacheProofs is about.
LEMMA SameCache ==
  /\ CP!CacheAssumption
  /\ CP!Addr = C!Addr /\ CP!Info = C!Info /\ CP!Placement = C!Placement /\ CP!vars = C!vars
  /\ \A r, addr : CP!Contains(r, addr) = C!Contains(r, addr)
  /\ \A f : CP!BuildId(f) = C!BuildId(f)
  /\ \A p : CP!InfoOf(p) = C!InfoOf(p)
<1>1. CP!CacheAssumption
  BY RecordingAssumption, Zenon DEF CP!CacheAssumption, C!CacheAssumption,
     CP!Addr, CP!Info, C!Addr, C!Info, CP!Note, C!Note, CP!Slice, C!Slice
<1>2. CP!Addr = C!Addr /\ CP!Info = C!Info /\ CP!Placement = C!Placement /\ CP!vars = C!vars
  BY Zenon DEF CP!Addr, CP!Info, C!Addr, C!Info, CP!Placement, C!Placement, CP!File, C!File,
     CP!vars, C!vars, CP!loader, C!loader
<1>3. \A r, addr : CP!Contains(r, addr) = C!Contains(r, addr)
  BY Zenon DEF CP!Contains, C!Contains
<1>4. \A f : CP!BuildId(f) = C!BuildId(f)
  BY Zenon DEF CP!BuildId, C!BuildId, CP!ElfBuildId, C!ElfBuildId, CP!MachBuildId, C!MachBuildId,
     CP!First, C!First, CP!IsBuildId, C!IsBuildId
<1>5. \A p : CP!InfoOf(p) = C!InfoOf(p)
  BY <1>4, Zenon DEF CP!InfoOf, C!InfoOf
<1> QED
  BY <1>1, <1>2, <1>3, <1>4, <1>5

\* It starts alike,
LEMMA SameInit == C!Init => CP!Init
BY Zenon DEF CP!Init, C!Init

\* and its steps are the same;
LEMMA SameNext == C!Next => CP!Next
BY Zenon DEF CP!Next, C!Next, CP!Addr, C!Addr, CP!Info, C!Info, CP!Placement, C!Placement, CP!File, C!File,
   CP!Load, C!Load, CP!Unload, C!Unload, CP!Replace, C!Replace, CP!Become, C!Become,
   CP!LinuxGetOrInsert, C!LinuxGetOrInsert, CP!MacGetOrInsert, C!MacGetOrInsert, CP!Lookup, C!Lookup,
   CP!Hit, C!Hit, CP!NoImage, C!NoImage, CP!CannotRead, C!CannotRead, CP!NoBuildId, C!NoBuildId,
   CP!Extend, C!Extend, CP!Insert, C!Insert, CP!Miss, C!Miss, CP!Known, C!Known,
   CP!Contains, C!Contains, CP!FindExisting, C!FindExisting, CP!First, C!First,
   CP!Return, C!Return, CP!ReturnNone, C!ReturnNone, CP!loader, C!loader,
   CP!BuildId, C!BuildId, CP!ElfBuildId, C!ElfBuildId, CP!MachBuildId, C!MachBuildId,
   CP!IsBuildId, C!IsBuildId, CP!InfoOf, C!InfoOf, CP!Entries, C!Entries, CP!Extended, C!Extended,
   CP!NewRange, C!NewRange, CP!Cardinality, C!Cardinality

\* so that its invariant is kept.
LEMMA CacheStep ==
  ASSUME CP!LookupInv, [C!Next]_(C!vars)
  PROVE  CP!LookupInv'
<1>1. [CP!Next]_(CP!vars) /\ CP!CacheAssumption
  BY SameNext, SameCache DEF CP!vars, C!vars, CP!loader, C!loader
<1> QED
  BY <1>1, CP!LookupStep, Zenon

-------------------------------------------------------------------------------
(* Where addresses are.                                                    *)

\* No address is in two of these images.
Disjoint(loaded) ==
  \A p, q \in loaded : p = q \/ p.end <= q.start \/ q.end <= p.start

\* Addresses, and where they are.
Located(loaded) ==
  {ss \in Seq(C!Addr) \X Seq(InputItem) :
     /\ Len(ss[1]) = Len(ss[2])
     /\ \A k \in DOMAIN ss[1] : ss[2][k] = PlaceIn(loaded, ss[1][k])}

\* Where an address is does not change with time, for the same images.
LEMMA PlacesStay ==
  ASSUME os' = os, NEW loaded
  PROVE  Located(loaded)' = Located(loaded)
<1>1. \A p : C!BuildId(p.file)' = C!BuildId(p.file) /\ C!InfoOf(p)' = C!InfoOf(p)
  BY DEF C!BuildId, C!InfoOf
<1>2. \A ip : PlaceIn(loaded, ip)' = PlaceIn(loaded, ip)
  BY <1>1, Zenon DEF PlaceIn
<1> QED
  BY <1>2, Zenon DEF Located

\* A lookup leaves the images alone.
LEMMA LookupChanges ==
  ASSUME NEW ip, GetOrInsert(ip)
  PROVE  os' = os /\ images' = images /\ once' = once /\ query' = ip
BY DEF GetOrInsert, C!LinuxGetOrInsert, C!MacGetOrInsert, C!Lookup, C!Hit, C!NoImage, C!CannotRead,
       C!NoBuildId, C!Extend, C!Insert, C!Return, C!ReturnNone, C!loader

\* One of disjoint images holds an address.
LEMMA OneImage ==
  ASSUME NEW loaded \in SUBSET C!Placement, Disjoint(loaded), NEW ip \in C!Addr,
         NEW p \in loaded, C!Contains(p, ip), NEW q \in loaded, C!Contains(q, ip)
  PROVE  p = q
<1>1. \A r \in C!Placement : r.start \in Nat /\ r.end \in Nat
  BY RecordingAssumption DEF C!CacheAssumption, C!Placement, C!Addr
<1>2. ip \in Nat
  BY DEF C!Addr
<1>3. /\ p.start <= ip /\ ip < p.end /\ q.start <= ip /\ ip < q.end
      /\ p.start \in Nat /\ p.end \in Nat /\ q.start \in Nat /\ q.end \in Nat
  BY <1>1 DEF C!Contains
<1>4. ~(p.end <= q.start) /\ ~(q.end <= p.start)
  BY <1>2, <1>3
<1> QED
  BY <1>4 DEF Disjoint

\* What get_or_insert returns is where the address is.
LEMMA AnswerIsPlace ==
  ASSUME CP!LookupInv, CP!LookupInv', once = images, Disjoint(images),
         NEW ip \in C!Addr, GetOrInsert(ip), ~panicked'
  PROVE  answer' = PlaceIn(images, ip) /\ answer' \in InputItem
<1>1. os' = os /\ images' = images /\ once' = once /\ query' = ip
  BY LookupChanges
<1>2. answer' \in InputItem /\ images \subseteq C!Placement
  BY RecordingAssumption, SameCache DEF CP!LookupInv, CP!TypeOK, InputItem, Found
<1>3. \A p : /\ CP!BuildId(p.file)' = C!BuildId(p.file) /\ CP!InfoOf(p)' = C!InfoOf(p)
             /\ CP!BuildId(p.file) = C!BuildId(p.file)
  BY <1>1, SameCache DEF CP!BuildId, CP!InfoOf
<1>4. /\ answer' # None => \E p \in images : C!Contains(p, ip)
      /\ \A p \in images :
           C!Contains(p, ip) /\ (\A q \in images : C!Contains(q, ip) => q = p)
           => answer' = IF C!BuildId(p.file) = None THEN None
                        ELSE [info |-> C!InfoOf(p), rva |-> ip - p.start]
  <2>1. CP!AnswersExact'
    BY DEF CP!LookupInv
  <2>2. \A p : CP!Told(p, query)' = IF C!BuildId(p.file) = None THEN None
                                  ELSE [info |-> C!InfoOf(p), rva |-> ip - p.start]
    BY <1>1, <1>3, Zenon DEF CP!Told
  <2>3. ip # None
    BY RecordingAssumption DEF C!CacheAssumption
  <2> QED
    BY <1>1, <2>1, <2>2, <2>3, SameCache DEF CP!AnswersExact
<1>5. CASE \A p \in images : ~C!Contains(p, ip)
  BY <1>2, <1>4, <1>5 DEF PlaceIn
<1>6. CASE \E p \in images : C!Contains(p, ip)
  <2>1. PICK p \in images : C!Contains(p, ip)
    BY <1>6
  <2>2. \A q \in images : C!Contains(q, ip) => q = p
    BY <1>2, <2>1, OneImage
  <2>3. answer' = IF C!BuildId(p.file) = None THEN None
                  ELSE [info |-> C!InfoOf(p), rva |-> ip - p.start]
    BY <1>4, <2>1, <2>2
  <2> DEFINE at == {q \in images : C!Contains(q, ip) /\ C!BuildId(q.file) # None}
  <2>4. CASE C!BuildId(p.file) = None
    <3>1. at = {}
      BY <2>2, <2>4
    <3> QED
      BY <1>2, <2>3, <2>4, <3>1 DEF PlaceIn
  <2>5. CASE C!BuildId(p.file) # None
    <3>1. at = {p}
      BY <2>1, <2>2, <2>5
    <3>2. at # {} /\ (CHOOSE q \in at : TRUE) = p
      BY <3>1
    <3> QED
      BY <1>2, <2>3, <2>5, <3>2, Zenon DEF PlaceIn
  <2> QED
    BY <2>4, <2>5
<1> QED
  BY <1>2, <1>5, <1>6

-------------------------------------------------------------------------------
(* The addresses behind a profile.                                         *)

\* No thread has two entries.
Distinct(s) == \A i, j \in DOMAIN s : s[i].thread_id = s[j].thread_id => i = j

\* Of the last profile.
Recorded ==
  /\ recorded.ips \in Seq(ThreadOf(C!Addr)) /\ returned.input \in Seq(ThreadOf(InputItem))
  /\ Match(recorded.ips, returned.input, Located(recorded.images))
  /\ Distinct(returned.input)
  /\ returned.profile.threads \in Seq(ThreadOf(Nat))
  /\ returned.profile.modules \in Seq(ModuleInfo)
  /\ returned.profile.frames \in Seq(FrameItem)

\* No image is ever unloaded, so each is the only one its addresses have been
\* in; the input is where the addresses are.
RecordingInv ==
  /\ ProfileInv /\ CP!LookupInv
  /\ once = images /\ Disjoint(images)
  /\ ips \in Seq(ThreadOf(C!Addr))
  /\ Match(ips, input, Located(images))
  /\ Distinct(input)
  /\ active \/ ips = <<>>
  /\ Recorded

\* A thread that is not there yet can be added,
LEMMA DistinctThread ==
  ASSUME NEW X, NEW s \in Seq(ThreadOf(X)), Distinct(s), NEW t \in ThreadId,
         \A k \in DOMAIN s : s[k].thread_id # t
  PROVE  Distinct(WithThread(s, t))
<1> DEFINE e == [thread_id |-> t, samples |-> <<>>]
           r == Append(s, e)
           n == Len(s)
<1>1. /\ n \in Nat /\ DOMAIN s = 1 .. n /\ DOMAIN r = 1 .. n + 1
      /\ r[n + 1] = e /\ \A k \in 1 .. n : r[k] = s[k]
  OBVIOUS
<1>2. e.thread_id = t
  OBVIOUS
<1> HIDE DEF r, e
<1>3. ASSUME NEW i \in 1 .. n + 1, NEW j \in 1 .. n + 1, r[i].thread_id = r[j].thread_id
      PROVE  i = j
  <2>1. CASE i \in 1 .. n /\ j \in 1 .. n
    BY <1>1, <1>3, <2>1 DEF Distinct
  <2>2. CASE i = n + 1 /\ j \in 1 .. n
    BY <1>1, <1>2, <1>3, <2>2
  <2>3. CASE i \in 1 .. n /\ j = n + 1
    BY <1>1, <1>2, <1>3, <2>3
  <2> QED
    BY <1>1, <2>1, <2>2, <2>3
<1> QED
  BY <1>1, <1>3, Zenon DEF Distinct, WithThread, r, e

\* samples can,
LEMMA DistinctSample ==
  ASSUME NEW X, NEW s \in Seq(ThreadOf(X)), Distinct(s), s # <<>>
  PROVE  Distinct(WithSample(s))
<1>1. /\ WithSample(s) \in Seq(ThreadOf(X)) /\ Len(WithSample(s)) = Len(s)
      /\ \A i \in DOMAIN s : WithSample(s)[i].thread_id = s[i].thread_id
  BY WithSampleLemma
<1> QED
  BY <1>1 DEF Distinct

\* and frames.
LEMMA DistinctFrame ==
  ASSUME NEW X, NEW s \in Seq(ThreadOf(X)), Distinct(s), HasSample(s), NEW x \in X
  PROVE  Distinct(WithFrame(s, x))
<1> DEFINE u == Append(LastSample(s), x)
<1>1. WithFrame(s, x) = Replaced(s, u) /\ u \in Seq(X)
  BY WithFrameLemma
<1> HIDE DEF u
<1>2. /\ Replaced(s, u) \in Seq(ThreadOf(X)) /\ Len(Replaced(s, u)) = Len(s)
      /\ \A i \in DOMAIN s : Replaced(s, u)[i].thread_id = s[i].thread_id
  BY <1>1, ReplacedLemma
<1>3. DOMAIN Replaced(s, u) = DOMAIN s
  BY <1>2
<1> QED
  BY <1>1, <1>2, <1>3 DEF Distinct

\* Of two lists that match both have a sample or none.
LEMMA MatchHas ==
  ASSUME NEW X, NEW Y, NEW R, NEW a \in Seq(ThreadOf(X)), NEW b \in Seq(ThreadOf(Y)),
         Match(a, b, R), HasSample(b)
  PROVE  HasSample(a)
<1> DEFINE n == Len(b)
<1>1. n \in Nat /\ n # 0 /\ n \in DOMAIN b /\ Last(b) = b[n]
  BY DEF HasSample, Last
<1>2. Len(a) = n /\ n \in DOMAIN a /\ a # <<>> /\ Last(a) = a[n]
  BY <1>1 DEF Match, Last
<1>3. Len(b[n].samples) # 0
  <2>1. b[n].samples \in Seq(Seq(Y)) /\ b[n].samples # <<>>
    BY <1>1, ThreadType DEF HasSample
  <2> QED
    BY <2>1
<1> HIDE DEF n
<1>4. Len(a[n].samples) # 0
  BY <1>2, <1>3 DEF Match
<1> QED
  BY <1>2, <1>4 DEF HasSample

\* The empty sample.
LEMMA NothingLocated == ASSUME NEW loaded PROVE << <<>>, <<>> >> \in Located(loaded)
<1>1. <<>> \in Seq(C!Addr) /\ <<>> \in Seq(InputItem) /\ Len(<<>>) = 0 /\ DOMAIN <<>> = {}
  OBVIOUS
<1> QED
  BY <1>1 DEF Located

\* An address is added together with its place.
LEMMA FrameLocated ==
  ASSUME NEW a \in Seq(ThreadOf(C!Addr)), NEW b \in Seq(ThreadOf(InputItem)), NEW loaded,
         Match(a, b, Located(loaded)), HasSample(b), NEW ip \in C!Addr, NEW x \in InputItem,
         x = PlaceIn(loaded, ip)
  PROVE  /\ WithFrame(a, ip) \in Seq(ThreadOf(C!Addr))
         /\ Match(WithFrame(a, ip), WithFrame(b, x), Located(loaded))
<1> DEFINE R == Located(loaded)
           u == LastSample(a)
           v == LastSample(b)
<1>1. HasSample(a)
  BY MatchHas
<1>2. << <<>>, <<>> >> \in R
  BY NothingLocated
<1>3. u \in Seq(C!Addr) /\ WithFrame(a, ip) = Replaced(a, Append(u, ip))
  BY <1>1, WithFrameLemma
<1>4. v \in Seq(InputItem) /\ WithFrame(b, x) = Replaced(b, Append(v, x))
  BY WithFrameLemma
<1> HIDE DEF R
<1>5. <<u, v>> \in R
  <2>1. <<>> \in Seq(C!Addr) /\ <<>> \in Seq(InputItem)
    OBVIOUS
  <2> QED
    BY <1>1, <1>2, <2>1, MatchReplaced DEF R
<1> HIDE DEF u, v
<1>6. Append(u, ip) \in Seq(C!Addr) /\ Append(v, x) \in Seq(InputItem)
  BY <1>3, <1>4
<1>7. <<Append(u, ip), Append(v, x)>> \in R
  <2>1. Len(u) = Len(v) /\ \A k \in DOMAIN u : v[k] = PlaceIn(loaded, u[k])
    BY <1>5 DEF R, Located
  <2>2. /\ Len(Append(u, ip)) = Len(u) + 1 /\ Len(Append(v, x)) = Len(v) + 1
        /\ Len(u) \in Nat /\ DOMAIN u = 1 .. Len(u) /\ DOMAIN Append(u, ip) = 1 .. Len(u) + 1
        /\ Append(u, ip)[Len(u) + 1] = ip
        /\ \A i \in 1 .. Len(u) : Append(u, ip)[i] = u[i]
    BY <1>3, AppendLemma
  <2>3. /\ Append(v, x)[Len(u) + 1] = x
        /\ \A i \in 1 .. Len(u) : Append(v, x)[i] = v[i]
    BY <1>4, <2>1, AppendLemma
  <2>4. ASSUME NEW k \in 1 .. Len(u) + 1
        PROVE  Append(v, x)[k] = PlaceIn(loaded, Append(u, ip)[k])
    <3>1. CASE k = Len(u) + 1
      BY <2>2, <2>3, <3>1
    <3>2. CASE k \in 1 .. Len(u)
      BY <2>1, <2>2, <2>3, <3>2
    <3>3. k = Len(u) + 1 \/ k \in 1 .. Len(u)
      BY <2>2
    <3> QED
      BY <3>1, <3>2, <3>3
  <2> QED
    BY <1>6, <2>1, <2>2, <2>4 DEF R, Located
<1>8. Replaced(a, Append(u, ip)) \in Seq(ThreadOf(C!Addr))
  BY <1>1, <1>6, ReplacedLemma
<1>9. Match(Replaced(a, Append(u, ip)), Replaced(b, Append(v, x)), R)
  BY <1>1, <1>6, <1>7, MatchReplaced DEF R
<1> QED
  BY <1>3, <1>4, <1>8, <1>9 DEF R

\* Loading an image, between two profiles.
LEMMA LoadKeeps ==
  ASSUME RecordingInv, ProfileInv', CP!LookupInv', NEW p \in C!Placement, LoadImage(p)
  PROVE  RecordingInv'
<1>1. /\ UNCHANGED <<input, active, returned, ips, recorded, os>> /\ ips = <<>>
      /\ images' = images \cup {p} /\ once' = once \cup images'
      /\ \A q \in images : p.end <= q.start \/ q.end <= p.start
  BY DEF LoadImage, RecordingInv, vars, C!Load, C!Become
<1>2. once' = images'
  BY <1>1 DEF RecordingInv
<1>3. Disjoint(images')
  BY <1>1 DEF RecordingInv, Disjoint
<1>4. Match(ips', input', Located(images)')
  BY <1>1 DEF RecordingInv, Match
<1>5. Located(recorded.images)' = Located(recorded.images)
  BY <1>1, PlacesStay
<1>6. Recorded'
  BY <1>1, <1>5 DEF RecordingInv, Recorded
<1> QED
  BY <1>1, <1>2, <1>3, <1>4, <1>6 DEF RecordingInv, Distinct, Disjoint

\* The steps that leave the images alone.
LEMMA ImagesStay ==
  ASSUME RecordingInv, ProfileInv', CP!LookupInv', UNCHANGED <<os, images, once>>,
         ips' \in Seq(ThreadOf(C!Addr)), Match(ips', input', Located(images)), Distinct(input'),
         active' \/ ips' = <<>>, Recorded'
  PROVE  RecordingInv'
<1>1. Located(images)' = Located(images)
  BY PlacesStay
<1> QED
  BY <1>1 DEF RecordingInv, Disjoint, Distinct

\* While a profile is built, the last one is not touched.
LEMMA RecordedStays ==
  ASSUME RecordingInv, UNCHANGED <<os, returned, recorded>>
  PROVE  Recorded'
<1>1. Located(recorded.images)' = Located(recorded.images)
  BY PlacesStay
<1> QED
  BY <1>1 DEF RecordingInv, Recorded, Distinct

\* The call of output.
LEMMA StartKeeps ==
  ASSUME RecordingInv, ProfileInv', CP!LookupInv', Start
  PROVE  RecordingInv'
<1>1. /\ UNCHANGED <<os, images, once>> /\ active' = TRUE /\ input' = <<>> /\ ips' = <<>>
      /\ returned' = Nothing /\ recorded' = [ips |-> <<>>, images |-> {}]
  BY DEF Start, Begin, cache
<1>2. /\ <<>> \in Seq(ThreadOf(C!Addr)) /\ <<>> \in Seq(ThreadOf(InputItem))
      /\ <<>> \in Seq(ThreadOf(Nat)) /\ <<>> \in Seq(ModuleInfo) /\ <<>> \in Seq(FrameItem)
      /\ DOMAIN <<>> = {} /\ Len(<<>>) = 0
  OBVIOUS
<1>3. Distinct(<<>>) /\ \A R : Match(<<>>, <<>>, R)
  BY <1>2 DEF Distinct, Match
<1>4. Recorded'
  BY <1>1, <1>2, <1>3 DEF Recorded, Nothing, Distinct
<1> QED
  BY <1>1, <1>2, <1>3, <1>4, ImagesStay

\* A thread.
LEMMA ThreadKeeps ==
  ASSUME RecordingInv, ProfileInv', CP!LookupInv', NEW t \in ThreadId, Thread(t)
  PROVE  RecordingInv'
<1>1. /\ UNCHANGED <<os, images, once, returned, recorded, active>> /\ active
      /\ input' = WithThread(input, t) /\ ips' = WithThread(ips, t)
      /\ \A k \in DOMAIN input : input[k].thread_id # t
  BY DEF Thread, NextThread, cache
<1>2. /\ ips \in Seq(ThreadOf(C!Addr)) /\ input \in Seq(ThreadOf(InputItem))
      /\ Match(ips, input, Located(images)) /\ Distinct(input)
  BY DEF RecordingInv, ProfileInv
<1>3. /\ WithThread(ips, t) \in Seq(ThreadOf(C!Addr))
      /\ Match(WithThread(ips, t), WithThread(input, t), Located(images))
  BY <1>2, MatchThread
<1>4. Distinct(WithThread(input, t))
  BY <1>1, <1>2, DistinctThread
<1> QED
  BY <1>1, <1>3, <1>4, RecordedStays, ImagesStay

\* A sample.
LEMMA SampleKeeps ==
  ASSUME RecordingInv, ProfileInv', CP!LookupInv', OneSample
  PROVE  RecordingInv'
<1>1. /\ UNCHANGED <<os, images, once, returned, recorded, active>> /\ active
      /\ input' = WithSample(input) /\ ips' = WithSample(ips) /\ input # <<>>
  BY DEF OneSample, NextSample, cache
<1>2. /\ ips \in Seq(ThreadOf(C!Addr)) /\ input \in Seq(ThreadOf(InputItem))
      /\ Match(ips, input, Located(images)) /\ Distinct(input)
  BY DEF RecordingInv, ProfileInv
<1>3. << <<>>, <<>> >> \in Located(images)
  BY NothingLocated
<1>4. ips # <<>>
  BY <1>1, <1>2 DEF Match
<1>5. /\ WithSample(ips) \in Seq(ThreadOf(C!Addr))
      /\ Match(WithSample(ips), WithSample(input), Located(images))
  BY <1>2, <1>3, <1>4, MatchSample, WithSampleLemma
<1>6. Distinct(WithSample(input))
  BY <1>1, <1>2, DistinctSample
<1> QED
  BY <1>1, <1>5, <1>6, RecordedStays, ImagesStay

\* A frame: get_or_insert finds its place, and that is put out.
LEMMA FrameKeeps ==
  ASSUME RecordingInv, ProfileInv', CP!LookupInv', NEW ip \in C!Addr, OneFrame(ip)
  PROVE  RecordingInv'
<1>1. /\ UNCHANGED <<returned, recorded, active>> /\ active /\ HasSample(input)
      /\ input' = WithFrame(input, answer') /\ ips' = WithFrame(ips, ip)
  BY AtFrameHasSample DEF OneFrame, SkipFrame, OutputFrame
<1>2. GetOrInsert(ip) /\ ~panicked'
  BY DEF OneFrame
<1>3. UNCHANGED <<os, images, once>>
  BY <1>2, LookupChanges
<1>4. /\ ips \in Seq(ThreadOf(C!Addr)) /\ input \in Seq(ThreadOf(InputItem))
      /\ Match(ips, input, Located(images)) /\ Distinct(input)
  BY DEF RecordingInv, ProfileInv
<1>5. answer' = PlaceIn(images, ip) /\ answer' \in InputItem
  BY <1>2, AnswerIsPlace DEF RecordingInv
<1>6. PICK x \in InputItem : x = answer'
  BY <1>5
<1>7. /\ WithFrame(ips, ip) \in Seq(ThreadOf(C!Addr))
      /\ Match(WithFrame(ips, ip), WithFrame(input, x), Located(images))
  BY <1>1, <1>4, <1>5, <1>6, FrameLocated
<1>8. Distinct(WithFrame(input, x))
  BY <1>1, <1>4, DistinctFrame
<1> QED
  BY <1>1, <1>3, <1>6, <1>7, <1>8, RecordedStays, ImagesStay

\* The profile is returned.
LEMMA FinishKeeps ==
  ASSUME RecordingInv, ProfileInv', CP!LookupInv', Finish
  PROVE  RecordingInv'
<1>1. /\ UNCHANGED <<os, images, once>> /\ input' = <<>> /\ ips' = <<>>
      /\ returned' = [input |-> input, profile |-> Profile]
      /\ recorded' = [ips |-> ips, images |-> images]
  BY DEF Finish, Return, cache
<1>2. /\ <<>> \in Seq(ThreadOf(C!Addr)) /\ DOMAIN <<>> = {} /\ Len(<<>>) = 0
      /\ Distinct(<<>>) /\ \A R : Match(<<>>, <<>>, R)
  BY DEF Distinct, Match
<1>3. Recorded'
  <2>1. Located(images)' = Located(images) /\ recorded'.images = images /\ recorded'.ips = ips
    BY <1>1, PlacesStay
  <2>2. Located(recorded.images)' = Located(images)
    BY <1>1, <2>1
  <2>3. /\ returned'.input = input /\ returned'.profile.threads = threads
        /\ returned'.profile.modules = module_index.vec
        /\ returned'.profile.frames = frames_index.vec
    BY <1>1 DEF Profile
  <2>4. /\ ips \in Seq(ThreadOf(C!Addr)) /\ input \in Seq(ThreadOf(InputItem))
        /\ Match(ips, input, Located(images)) /\ Distinct(input)
        /\ threads \in Seq(ThreadOf(Nat))
        /\ module_index.vec \in Seq(ModuleInfo) /\ frames_index.vec \in Seq(FrameItem)
    BY TablesTypes DEF RecordingInv, ProfileInv
  <2> QED
    BY <2>1, <2>2, <2>3, <2>4 DEF Recorded, Distinct
<1> QED
  BY <1>1, <1>2, <1>3, ImagesStay

\* Every step keeps the invariant,
LEMMA RecordingStep ==
  ASSUME RecordingInv, ModulesFit', [RecordingNext]_allVars
  PROVE  RecordingInv'
<1>1. [Next]_vars /\ [C!Next]_(C!vars)
  BY RecordingParts
<1>2. ProfileInv' /\ CP!LookupInv'
  BY <1>1, ProfileStep, CacheStep DEF RecordingInv
<1>3. ASSUME NEW ip \in C!Addr, OnePanic(ip) PROVE RecordingInv'
  <2>1. UNCHANGED <<os, images, once, input, active, returned, ips, recorded>>
    BY <1>3, LookupChanges DEF OnePanic, vars
  <2> QED
    BY <1>2, <2>1, RecordedStays, ImagesStay DEF RecordingInv, Distinct
<1>4. CASE UNCHANGED allVars
  <2>1. UNCHANGED <<os, images, once, input, active, returned, ips, recorded>>
    BY <1>4 DEF allVars, vars, cache
  <2> QED
    BY <1>2, <2>1, RecordedStays, ImagesStay DEF RecordingInv, Distinct
<1> QED
  BY <1>2, <1>3, <1>4, LoadKeeps, StartKeeps, ThreadKeeps, SampleKeeps, FrameKeeps, FinishKeeps
     DEF RecordingNext

\* which holds at the start,
LEMMA RecordingStarts == ASSUME RecordingInit PROVE RecordingInv
<1>1. /\ input = <<>> /\ ips = <<>> /\ images = {} /\ once = {} /\ returned = Nothing
      /\ recorded = [ips |-> <<>>, images |-> {}]
  BY DEF RecordingInit, Init, C!Init
<1>2. ProfileInv
  BY ProfileInit DEF RecordingInit
<1>3. CP!LookupInv
  BY SameInit, SameCache, CP!LookupInit DEF RecordingInit
<1>4. /\ <<>> \in Seq(ThreadOf(C!Addr)) /\ <<>> \in Seq(ThreadOf(InputItem))
      /\ <<>> \in Seq(ThreadOf(Nat)) /\ <<>> \in Seq(ModuleInfo) /\ <<>> \in Seq(FrameItem)
      /\ DOMAIN <<>> = {} /\ Len(<<>>) = 0
  OBVIOUS
<1>5. Distinct(<<>>) /\ \A R : Match(<<>>, <<>>, R)
  BY <1>4 DEF Distinct, Match
<1>6. Recorded
  BY <1>1, <1>4, <1>5 DEF Recorded, Nothing
<1> QED
  BY <1>1, <1>2, <1>3, <1>4, <1>5, <1>6 DEF RecordingInv, Disjoint

-------------------------------------------------------------------------------
(* The file for speedscope.                                                *)

\* Of several entries of one thread the hash map keeps the last; there is one.
LEMMA OnlyEntry ==
  ASSUME NEW X, NEW s \in Seq(ThreadOf(X)), Distinct(s), NEW i \in DOMAIN s
  PROVE  SpeedSamples(s)[s[i].thread_id] = [j \in DOMAIN s[i].samples |-> Reverse(s[i].samples[j])]
<1> DEFINE I(id) == {k \in 1 .. Len(s) : s[k].thread_id = id}
<1>1. I(s[i].thread_id) = {i} /\ i \in Nat
  BY DEF Distinct
<1>3. SpeedSamples(s) = [id \in {s[k].thread_id : k \in DOMAIN s} |->
        LET last == IF I(id) # {} THEN Max(I(id)) ELSE 0
        IN [j \in DOMAIN s[last].samples |-> Stack(s[last].samples[j])]]
  BY DEF SpeedSamples, SelectLastInSeq
<1> HIDE DEF I
<1>4. Max(I(s[i].thread_id)) = i /\ I(s[i].thread_id) # {}
  BY <1>1 DEF Max
<1>5. s[i].thread_id \in {s[k].thread_id : k \in DOMAIN s}
  OBVIOUS
<1> QED
  BY <1>3, <1>4, <1>5, Zenon DEF Stack

\* The entries of a reversed sequence.
LEMMA ReverseLemma ==
  ASSUME NEW S, NEW s \in Seq(S)
  PROVE  /\ Len(Reverse(s)) = Len(s) /\ DOMAIN Reverse(s) = 1 .. Len(s) /\ Len(s) \in Nat
         /\ \A k \in 1 .. Len(s) : Len(s) - k + 1 \in 1 .. Len(s) /\ Reverse(s)[k] = s[Len(s) - k + 1]
         /\ Reverse(s) = [k \in 1 .. Len(s) |-> s[Len(s) - k + 1]]
<1>1. Reverse(s) = [k \in 1 .. Len(s) |-> s[(Len(s) - k) + 1]]
  BY DEF Reverse
<1> QED
  BY <1>1

\* A reversed sample of indices shows the reversed stack.
LEMMA ShownReversed ==
  ASSUME NEW profile, profile.frames \in Seq(FrameItem), NEW sample \in Seq(Nat),
         InRange(profile, sample)
  PROVE  /\ InRange(profile, Reverse(sample))
         /\ Shown(Export(profile), Reverse(sample)) = Reverse(Decoded(profile, sample))
<1> DEFINE n == Len(sample)
           file == Export(profile)
           decoded == Decoded(profile, sample)
           At(index) == [info |-> profile.modules[profile.frames[index + 1].module_index + 1],
                         rva |-> profile.frames[index + 1].relative_ip]
<1>1. file.frames = [k \in DOMAIN profile.frames |->
                       ResolveFrame(profile.frames[k], profile.modules)]
  BY DEF Export, SpeedscopeFile, ResolvedProfile
<1>2. /\ DOMAIN Reverse(sample) = 1 .. n /\ n \in Nat /\ DOMAIN sample = 1 .. n
      /\ \A k \in 1 .. n : n - k + 1 \in 1 .. n /\ Reverse(sample)[k] = sample[n - k + 1]
  BY ReverseLemma
<1>3. InRange(profile, Reverse(sample))
  BY <1>2 DEF InRange
<1>4. decoded = [k \in 1 .. n |-> At(sample[k])]
  BY <1>2 DEF Decoded, ItemAt

<1> DEFINE S == {At(index) : index \in Nat}
<1> HIDE DEF At, decoded, file, n
<1>5. decoded \in Seq(S) /\ Len(decoded) = n /\ \A k \in 1 .. n : decoded[k] = At(sample[k])
  <2>1. \A k \in 1 .. n : At(sample[k]) \in S
    BY <1>2
  <2> HIDE DEF S
  <2> QED
    BY <1>2, <1>4, <2>1
<1>6. Reverse(decoded) = [k \in 1 .. n |-> decoded[n - k + 1]]
  <2> HIDE DEF S
  <2> QED
    BY <1>5, ReverseLemma
<1>7. Shown(file, Reverse(sample)) = [k \in 1 .. n |-> file.frames[Reverse(sample)[k] + 1]]
  BY <1>2 DEF Shown
<1>8. ASSUME NEW k \in 1 .. n
      PROVE  file.frames[Reverse(sample)[k] + 1] = decoded[n - k + 1]
  <2> DEFINE index == sample[n - k + 1]
  <2>1. n - k + 1 \in 1 .. n /\ Reverse(sample)[k] = index /\ index \in Nat
    BY <1>2
  <2>2. index < Len(profile.frames)
    BY <1>2, <2>1 DEF InRange
  <2> HIDE DEF index
  <2>3. index + 1 \in DOMAIN profile.frames
    BY <2>1, <2>2
  <2>4. file.frames[index + 1] = At(index)
    BY <1>1, <2>3 DEF At, ResolveFrame
  <2> QED
    BY <1>5, <2>1, <2>4 DEF index
<1>9. Shown(file, Reverse(sample)) = Reverse(decoded)
  BY <1>6, <1>7, <1>8
<1> QED
  BY <1>3, <1>9 DEF file, decoded

\* and says what the file shows.
LEMMA ExportIsRight == ASSUME RecordingInv PROVE ExportKeepsStacks
<1> DEFINE profile == returned.profile
           file == Export(profile)
           in == recorded.ips
           found == returned.input
           out == profile.threads
           places == Located(recorded.images)
<1>1. /\ in \in Seq(ThreadOf(C!Addr)) /\ found \in Seq(ThreadOf(InputItem))
      /\ out \in Seq(ThreadOf(Nat)) /\ profile.frames \in Seq(FrameItem)
      /\ Match(in, found, places) /\ Distinct(found) /\ ProfilesDecode
  BY DEF RecordingInv, Recorded, ProfileInv
<1>2. /\ file.profiles = [id \in {out[i].thread_id : i \in DOMAIN out} |->
                            [samples |-> SpeedSamples(out)[id],
                             weights |-> [j \in DOMAIN SpeedSamples(out)[id] |-> 1],
                             end_value |-> Cardinality(DOMAIN SpeedSamples(out))]]
  BY DEF Export, SpeedscopeFile, ResolvedProfile, SpeedSamples
<1>3. /\ DOMAIN out = DOMAIN in /\ DOMAIN found = DOMAIN in
      /\ \A i \in DOMAIN in :
           /\ out[i].thread_id = in[i].thread_id /\ found[i].thread_id = in[i].thread_id
           /\ Len(out[i].samples) = Len(in[i].samples) /\ Len(found[i].samples) = Len(in[i].samples)
           /\ \A j \in DOMAIN found[i].samples :
                /\ InRange(profile, out[i].samples[j])
                /\ Decoded(profile, out[i].samples[j]) = Recognized(found[i].samples[j])
           /\ \A j \in DOMAIN in[i].samples :
                <<in[i].samples[j], found[i].samples[j]>> \in places
  <2>1. DOMAIN found = DOMAIN in /\ DOMAIN out = DOMAIN found
    BY <1>1 DEF Match, ProfilesDecode
  <2>2. ASSUME NEW i \in DOMAIN in
        PROVE  /\ found[i].thread_id = in[i].thread_id
               /\ Len(found[i].samples) = Len(in[i].samples)
               /\ \A j \in DOMAIN in[i].samples :
                    <<in[i].samples[j], found[i].samples[j]>> \in places
    BY <1>1 DEF Match
  <2>3. ASSUME NEW i \in DOMAIN found
        PROVE  /\ out[i].thread_id = found[i].thread_id
               /\ Len(out[i].samples) = Len(found[i].samples)
               /\ \A j \in DOMAIN found[i].samples :
                    /\ InRange(profile, out[i].samples[j])
                    /\ Decoded(profile, out[i].samples[j]) = Recognized(found[i].samples[j])
    BY <1>1, <2>1, Zenon DEF ProfilesDecode
  <2> HIDE DEF profile, in, found, out, places
  <2> QED
    BY <2>1, <2>2, <2>3
<1>4. Distinct(out)
  BY <1>1, <1>3 DEF Distinct
<1> HIDE DEF profile, file, in, found, out, places
<1>5. DOMAIN file.profiles = {in[i].thread_id : i \in DOMAIN in}
  BY <1>2, <1>3
<1>6. ASSUME NEW i \in DOMAIN in
      PROVE  LET shown == file.profiles[in[i].thread_id]
             IN /\ shown.samples = [j \in DOMAIN out[i].samples |-> Reverse(out[i].samples[j])]
                /\ shown.weights = [j \in DOMAIN out[i].samples |-> 1]
  <2>1. SpeedSamples(out)[out[i].thread_id]
          = [j \in DOMAIN out[i].samples |-> Reverse(out[i].samples[j])]
    BY <1>1, <1>3, <1>4, OnlyEntry
  <2>2. out[i].thread_id \in {out[k].thread_id : k \in DOMAIN out}
    BY <1>3
  <2>4. file.profiles[out[i].thread_id]
          = [samples |-> SpeedSamples(out)[out[i].thread_id],
             weights |-> [j \in DOMAIN SpeedSamples(out)[out[i].thread_id] |-> 1],
             end_value |-> Cardinality(DOMAIN SpeedSamples(out))]
    BY <1>2, <2>2, Zenon
  <2>5. out[i].thread_id = in[i].thread_id
    BY <1>3
  <2> QED
    BY <2>1, <2>4, <2>5

<1>7. ASSUME NEW i \in DOMAIN in
      PROVE  LET shown == file.profiles[in[i].thread_id]
             IN /\ Len(shown.samples) = Len(in[i].samples)
                /\ Len(shown.weights) = Len(shown.samples)
                /\ \A j \in DOMAIN in[i].samples :
                     /\ InRange(profile, shown.samples[j])
                     /\ Shown(file, shown.samples[j]) = Reverse(Places(in[i].samples[j]))
  <2> DEFINE shown == file.profiles[in[i].thread_id]
             n == Len(in[i].samples)
  <2>1. /\ in[i].samples \in Seq(Seq(C!Addr)) /\ found[i].samples \in Seq(Seq(InputItem))
        /\ out[i].samples \in Seq(Seq(Nat))
        /\ n \in Nat /\ DOMAIN in[i].samples = 1 .. n
        /\ DOMAIN found[i].samples = 1 .. n /\ DOMAIN out[i].samples = 1 .. n
    BY <1>1, <1>3, ThreadType
  <2>2. /\ shown.samples = [j \in 1 .. n |-> Reverse(out[i].samples[j])]
        /\ shown.weights = [j \in 1 .. n |-> 1]
    BY <1>6, <2>1
  <2> HIDE DEF shown, n
  <2>3. Len(shown.samples) = n /\ Len(shown.weights) = n
    BY <2>1, <2>2
  <2>4. ASSUME NEW j \in 1 .. n
        PROVE  /\ InRange(profile, shown.samples[j])
               /\ Shown(file, shown.samples[j]) = Reverse(Places(in[i].samples[j]))
    <3>1. out[i].samples[j] \in Seq(Nat) /\ shown.samples[j] = Reverse(out[i].samples[j])
      BY <2>1, <2>2
    <3>2. /\ InRange(profile, out[i].samples[j])
          /\ Decoded(profile, out[i].samples[j]) = Recognized(found[i].samples[j])
          /\ <<in[i].samples[j], found[i].samples[j]>> \in places
      BY <1>3, <2>1
    <3>3. /\ InRange(profile, Reverse(out[i].samples[j]))
          /\ Shown(file, Reverse(out[i].samples[j])) = Reverse(Decoded(profile, out[i].samples[j]))
      BY <1>1, <3>1, <3>2, ShownReversed DEF file
    <3>4. found[i].samples[j] = [k \in DOMAIN in[i].samples[j] |->
                                   PlaceIn(recorded.images, in[i].samples[j][k])]
      <4>1. /\ in[i].samples[j] \in Seq(C!Addr) /\ found[i].samples[j] \in Seq(InputItem)
            /\ Len(in[i].samples[j]) = Len(found[i].samples[j])
            /\ \A k \in DOMAIN in[i].samples[j] :
                 found[i].samples[j][k] = PlaceIn(recorded.images, in[i].samples[j][k])
        BY <3>2 DEF places, Located
      <4>2. ASSUME NEW a \in Seq(C!Addr), NEW b \in Seq(InputItem), Len(a) = Len(b)
            PROVE  b = [k \in DOMAIN a |-> b[k]]
        BY <4>2
      <4> QED
        BY <4>1, <4>2
    <3>5. Places(in[i].samples[j]) = Recognized(found[i].samples[j])
      BY <3>4, Zenon DEF Places
    <3> QED
      BY <3>1, <3>2, <3>3, <3>5
  <2> QED
    BY <2>1, <2>3, <2>4 DEF shown, n
<1> QED
  BY <1>5, <1>7, Zenon DEF ExportKeepsStacks, profile, file, in

\* What speedscope shows is what was recorded: the places of the addresses of
\* every sample of every thread, in their order, for any images and any
\* profiles before, until there are more modules than a u32 can count.
THEOREM ExportCorrect == RecordingSpec => [](ModulesFit => ExportKeepsStacks)
<1> DEFINE Inv == TablesInv /\ (ModulesFit => RecordingInv)
<1>1. RecordingInit => Inv
  BY TablesInit, RecordingStarts DEF RecordingInit
<1>2. Inv /\ [RecordingNext]_allVars => Inv'
  BY RecordingParts, TablesStep, FitBefore, RecordingStep
<1>3. Inv => (ModulesFit => ExportKeepsStacks)
  BY ExportIsRight
<1> QED
  BY <1>1, <1>2, <1>3, PTL DEF RecordingSpec

===============================================================================
