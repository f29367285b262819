----------------------------- MODULE ResolverProofs ----------------------------
(***************************************************************************)
(* Theorems about Resolver and Symbolize, for any profile, any symbol      *)
(* files and any number of generators.                                     *)
(***************************************************************************)
EXTENDS Symbolize, TLAPS

(***************************************************************************)
(* The resolver, whatever it reads.                                        *)
(***************************************************************************)

\* What the resolved frame at position k has to do with the frame it was
\* made from: its symbols are the ones cached for that frame's module.
FromCache(k) ==
  resolved_frames[k] # Unknown =>
    /\ resolved_frames[k] \in R!ResolvedFrame
    /\ resolved_frames[k].symbols.module = frames[k].module
    /\ resolved_frames[k].rva = frames[k].rva
    /\ resolved_frames[k].symbols = module_to_cache[frames[k].module]

\* The inductive invariant.
ResolverInv ==
  /\ R!TypeOK
  /\ Len(resolved_frames) = pos
  /\ \A m \in Module : module_to_cache[m] # None => module_to_cache[m].module = m
  /\ \A k \in DOMAIN resolved_frames : FromCache(k)

LEMMA ResolverInit == R!Init => ResolverInv
<1> SUFFICES ASSUME R!Init PROVE ResolverInv
  OBVIOUS
<1>1. PICK n \in 0 .. MaxFrames : frames \in [1 .. n -> R!Frame]
  BY DEF R!Init
<1>2. frames \in Seq(R!Frame) /\ Len(frames) = n
  BY <1>1, SymbolizeAssumption
<1>3. resolved_frames = <<>> /\ pos = 0 /\ panicked = FALSE
  BY DEF R!Init
<1>4. R!TypeOK
  <2>1. Len(frames) \in Nat /\ pos \in 0 .. Len(frames)
    BY <1>2, <1>3
  <2>2. resolved_frames \in Seq(R!ResolvedFrame \cup {Unknown})
    BY <1>3
  <2>3. module_to_cache \in [Module -> R!SymCache \cup {None}]
    BY DEF R!Init
  <2> QED
    BY <1>2, <1>3, <2>1, <2>2, <2>3 DEF R!TypeOK
<1>5. Len(resolved_frames) = 0 /\ DOMAIN resolved_frames = {}
  BY <1>3
<1> QED
  BY <1>2, <1>3, <1>4, <1>5 DEF R!Init, ResolverInv

\* A frame is dealt with: one resolved frame is appended, and the cache
\* keeps what it has.
LEMMA PushKeepsInv ==
  ASSUME ResolverInv, NEW f \in R!Frame, NEW x \in R!ResolvedFrame \cup {Unknown},
         R!NextFrame(f), R!Push(x),
         module_to_cache' \in [Module -> R!SymCache \cup {None}],
         \A m \in Module : module_to_cache'[m] # None => module_to_cache'[m].module = m,
         \A m \in Module : module_to_cache[m] # None => module_to_cache'[m] = module_to_cache[m],
         x # Unknown => /\ x.rva = f.rva
                        /\ x.symbols = module_to_cache'[f.module]
                        /\ x.symbols.module = f.module
  PROVE  ResolverInv'
<1> DEFINE n == Len(resolved_frames)
<1>1. /\ R!TypeOK /\ n = pos /\ n \in Nat /\ f = frames[n + 1]
      /\ pos < Len(frames) /\ Len(frames) \in Nat
      /\ resolved_frames \in Seq(R!ResolvedFrame \cup {Unknown})
      /\ frames \in Seq(R!Frame)
  BY DEF ResolverInv, R!TypeOK, R!NextFrame
<1>2. /\ resolved_frames' \in Seq(R!ResolvedFrame \cup {Unknown})
      /\ Len(resolved_frames') = n + 1
      /\ DOMAIN resolved_frames' = 1 .. n + 1 /\ DOMAIN resolved_frames = 1 .. n
      /\ resolved_frames'[n + 1] = x
      /\ \A k \in 1 .. n : resolved_frames'[k] = resolved_frames[k]
  BY <1>1 DEF R!Push
<1>3. pos' = n + 1 /\ frames' = frames /\ panicked' = panicked
  BY <1>1 DEF R!Push
<1>4. R!TypeOK'
  BY <1>1, <1>2, <1>3 DEF R!TypeOK
<1>5. ASSUME NEW k \in DOMAIN resolved_frames' PROVE FromCache(k)'
  <2>1. CASE k = n + 1
    BY <1>1, <1>2, <1>3, <2>1 DEF FromCache
  <2>2. CASE k \in 1 .. n
    <3>1. FromCache(k) /\ frames[k] \in R!Frame /\ resolved_frames'[k] = resolved_frames[k]
      BY <1>1, <1>2, <2>2 DEF ResolverInv
    <3>2. CASE resolved_frames[k] = Unknown
      BY <1>3, <3>1, <3>2 DEF FromCache
    <3>3. CASE resolved_frames[k] # Unknown
      <4>1. frames[k].module \in Module /\ resolved_frames[k].symbols \in R!SymCache
        BY <3>1, <3>3 DEF FromCache, R!Frame, R!ResolvedFrame
      <4>2. module_to_cache[frames[k].module] # None
        BY <3>1, <3>3, <4>1, SymbolizeAssumption DEF FromCache, R!SymCache
      <4> QED
        BY <1>3, <3>1, <3>3, <4>1, <4>2 DEF FromCache
    <3> QED
      BY <3>2, <3>3
  <2> QED
    BY <1>2, <2>1, <2>2
<1> QED
  BY <1>1, <1>2, <1>3, <1>4, <1>5 DEF ResolverInv

\* What a lookup gives is unknown or has the symbols it was made in.
LEMMA LookupLemma ==
  ASSUME NEW symbols \in R!SymCache, NEW rva \in Rva
  PROVE  /\ R!Lookup(symbols, rva) \in R!ResolvedFrame \cup {Unknown}
         /\ R!Lookup(symbols, rva) # Unknown =>
              R!Lookup(symbols, rva).symbols = symbols /\ R!Lookup(symbols, rva).rva = rva
BY DEF R!Lookup, R!ResolvedFrame

LEMMA ResolverStep ==
  ASSUME ResolverInv, [R!Next]_(R!vars)
  PROVE  ResolverInv'
<1>1. R!TypeOK /\ \A m \in Module : module_to_cache[m] # None => module_to_cache[m].module = m
  BY DEF ResolverInv
<1>2. ASSUME NEW f \in R!Frame, R!UseCache(f) PROVE ResolverInv'
  <2> DEFINE symbols == module_to_cache[f.module]
  <2>1. f.module \in Module /\ f.rva \in Rva /\ symbols \in R!SymCache /\ symbols.module = f.module
    BY <1>1, <1>2 DEF R!UseCache, R!HasEntry, R!Frame, R!TypeOK
  <2>2. R!NextFrame(f) /\ R!Push(R!Lookup(symbols, f.rva)) /\ UNCHANGED module_to_cache
    BY <1>2 DEF R!UseCache
  <2>3. module_to_cache' = module_to_cache /\ module_to_cache \in [Module -> R!SymCache \cup {None}]
    BY <1>1, <2>2 DEF R!TypeOK
  <2>4. PICK x \in R!ResolvedFrame \cup {Unknown} :
          /\ x = R!Lookup(symbols, f.rva)
          /\ x # Unknown => x.symbols = symbols /\ x.rva = f.rva
    BY <2>1, LookupLemma
  <2>5. R!Push(x)
    BY <2>2, <2>4
  <2> QED
    BY <1>1, <2>1, <2>2, <2>3, <2>4, <2>5, PushKeepsInv
<1>3. ASSUME NEW f \in R!Frame, R!OpenFails(f) PROVE ResolverInv'
  <2>1. R!NextFrame(f) /\ R!Push(Unknown) /\ UNCHANGED module_to_cache
    BY <1>3 DEF R!OpenFails
  <2>2. module_to_cache' = module_to_cache /\ module_to_cache \in [Module -> R!SymCache \cup {None}]
    BY <1>1, <2>1 DEF R!TypeOK
  <2> QED
    BY <1>1, <2>1, <2>2, PushKeepsInv
<1>4. ASSUME NEW f \in R!Frame, NEW c \in Seq(Version), R!Load(f, c) PROVE ResolverInv'
  <2> DEFINE symbols == [module |-> f.module, contents |-> c]
  <2>1. f.module \in Module /\ f.rva \in Rva /\ symbols \in R!SymCache /\ symbols.module = f.module
    BY <1>4 DEF R!Frame, R!SymCache
  <2>2. /\ R!NextFrame(f) /\ R!Push(R!Lookup(symbols, f.rva))
        /\ module_to_cache[f.module] = None
        /\ module_to_cache' = [module_to_cache EXCEPT ![f.module] = symbols]
    BY <1>4 DEF R!Load, R!HasEntry
  <2>3. PICK x \in R!ResolvedFrame \cup {Unknown} :
          /\ x = R!Lookup(symbols, f.rva)
          /\ x # Unknown => x.symbols = symbols /\ x.rva = f.rva
    BY <2>1, LookupLemma
  <2>4. R!Push(x)
    BY <2>2, <2>3
  <2> HIDE DEF symbols
  <2>5. /\ module_to_cache' \in [Module -> R!SymCache \cup {None}]
        /\ module_to_cache'[f.module] = symbols
        /\ \A m \in Module \ {f.module} : module_to_cache'[m] = module_to_cache[m]
    BY <1>1, <2>1, <2>2 DEF R!TypeOK
  <2>6. /\ \A m \in Module : module_to_cache'[m] # None => module_to_cache'[m].module = m
        /\ \A m \in Module : module_to_cache[m] # None => module_to_cache'[m] = module_to_cache[m]
    BY <1>1, <2>1, <2>2, <2>5
  <2> QED
    BY <2>1, <2>2, <2>3, <2>4, <2>5, <2>6, PushKeepsInv
<1>5. ASSUME NEW f \in R!Frame, R!ParseFails(f) PROVE ResolverInv'
  <2>1. UNCHANGED <<frames, pos, module_to_cache, resolved_frames>> /\ panicked' = TRUE
    BY <1>5 DEF R!ParseFails
  <2>2. R!TypeOK'
    BY <1>1, <2>1 DEF R!TypeOK
  <2> QED
    BY <2>1, <2>2 DEF ResolverInv, FromCache
<1>6. ASSUME UNCHANGED R!vars PROVE ResolverInv'
  BY <1>6 DEF R!vars, ResolverInv, R!TypeOK, FromCache
<1> QED
  BY <1>2, <1>3, <1>4, <1>5, <1>6 DEF R!Next

-------------------------------------------------------------------------------
(***************************************************************************)
(* The files and their writers.                                            *)
(***************************************************************************)

FileTypes ==
  /\ files \in [Module -> Seq(Version) \cup {None}]
  /\ job \in [Generator -> Job \cup {None}]
  /\ written \in [Generator -> Nat]
  /\ reading \in Module \cup {None}
  /\ contents \in Seq(Version)
  /\ spoilt \subseteq Module /\ sure \subseteq Module
  /\ undisturbed \in BOOLEAN

\* A file that is not spoilt has at most one writer, and holds what that
\* one has written so far, or else a whole version.
Tidy(m) ==
  /\ \A g, h \in Generator : Writes(g, m) /\ Writes(h, m) => g = h
  /\ \A g \in Generator : Writes(g, m) => files[m] = [k \in 1 .. written[g] |-> job[g].version]
  /\ (\A g \in Generator : ~Writes(g, m)) => files[m] = None \/ Whole(files[m])

\* A write is within its version and, once begun, leaves no gap before it.
Within(g) ==
  /\ written[g] <= Size[job[g].version]
  /\ files[job[g].module] # None
  /\ Writing(g) => written[g] <= Len(files[job[g].module])

FilesInv ==
  /\ FileTypes
  /\ \A g \in Generator : job[g] = None => written[g] = 0
  /\ \A g \in Generator : job[g] # None => Within(g)
  /\ \A m \in Module \ spoilt : Tidy(m)

LEMMA FilesInit == Init => FilesInv
<1> SUFFICES ASSUME Init PROVE FilesInv
  OBVIOUS
<1>1. \A v \in Version : Full(v) \in Seq(Version)
  BY SymbolizeAssumption DEF Full
<1>2. FileTypes
  <2>1. files \in [Module -> Seq(Version) \cup {None}]
    BY <1>1 DEF Init
  <2>2. <<>> \in Seq(Version)
    OBVIOUS
  <2> QED
    BY <2>1, <2>2 DEF Init, FileTypes
<1>3. \A m \in Module : files[m] = None \/ Whole(files[m])
  BY DEF Init, Whole
<1> QED
  BY <1>2, <1>3 DEF Init, FilesInv, Tidy, Writes

\* What Tidy(m) is about stays as it is while nobody touches file m.
LEMMA TidyKept ==
  ASSUME NEW m \in Module, Tidy(m), files'[m] = files[m],
         \A g \in Generator : Writes(g, m)' = Writes(g, m),
         \A g \in Generator : Writes(g, m) => job'[g] = job[g] /\ written'[g] = written[g]
  PROVE  Tidy(m)'
BY DEF Tidy, Whole, Full

LEMMA CreateKeepsFiles ==
  ASSUME FilesInv, NEW g \in Generator, NEW m \in Module, NEW v \in Version, Create(g, m, v)
  PROVE  FilesInv'
<1>1. /\ job[g] = None /\ written' = written /\ written[g] = 0
      /\ files' = [files EXCEPT ![m] = <<>>]
      /\ job' = [job EXCEPT ![g] = [module |-> m, version |-> v]]
      /\ spoilt' \in {spoilt \ {m}, spoilt \cup {m}}
      /\ (\E h \in Generator : Writes(h, m)) => m \in spoilt'
      /\ UNCHANGED <<reading, contents, sure>> /\ undisturbed' \in BOOLEAN
  BY DEF FilesInv, FileTypes, Create, Truncated, Writers, reader
<1>2. /\ files \in [Module -> Seq(Version) \cup {None}] /\ job \in [Generator -> Job \cup {None}]
      /\ [module |-> m, version |-> v] \in Job /\ <<>> \in Seq(Version)
  BY DEF FilesInv, FileTypes, Job
<1>3. /\ files' \in [Module -> Seq(Version) \cup {None}] /\ files'[m] = <<>>
      /\ \A n \in Module \ {m} : files'[n] = files[n]
      /\ job' \in [Generator -> Job \cup {None}] /\ job'[g] = [module |-> m, version |-> v]
      /\ \A h \in Generator \ {g} : job'[h] = job[h]
      /\ None \notin Seq(Version) /\ None \notin Job
  BY <1>1, <1>2, SymbolizeAssumption DEF Job
<1>4. FileTypes'
  BY <1>1, <1>3 DEF FilesInv, FileTypes
<1>5. \A h \in Generator : job'[h] = None => written'[h] = 0
  BY <1>1, <1>2, <1>3 DEF FilesInv
<1>6. ASSUME NEW h \in Generator, job'[h] # None
      PROVE  Within(h)'
  <2>1. CASE h = g
    <3>1. /\ job'[h].module = m /\ job'[h].version = v /\ written'[h] = 0
          /\ files'[m] # None /\ Size[v] \in Nat
      BY <1>1, <1>2, <1>3, <2>1, SymbolizeAssumption
    <3> QED
      BY <3>1 DEF Within, Writing
  <2>2. CASE h # g
    <3>1. /\ job'[h] = job[h] /\ job[h] \in Job /\ job[h].module \in Module
          /\ Within(h)
      BY <1>3, <1>6, <2>2 DEF FilesInv, FileTypes, Job
    <3>2. CASE job[h].module = m
      <4>1. ~Writing(h)
        BY <1>3, <1>6, <2>2, <3>2 DEF Create, Writers, Writes
      <4>2. ~Writing(h)'
        BY <1>1, <3>1, <4>1 DEF Writing
      <4>3. files'[m] # None
        BY <1>2, <1>3
      <4> QED
        BY <1>1, <3>1, <3>2, <4>2, <4>3 DEF Within
    <3>3. CASE job[h].module # m
      BY <1>1, <1>3, <3>1, <3>3 DEF Within, Writing
    <3> QED
      BY <3>2, <3>3
  <2> QED
    BY <2>1, <2>2
<1>7. ASSUME NEW n \in Module \ spoilt' PROVE Tidy(n)'
  <2>1. CASE n = m
    <3>1. \A h \in Generator : ~Writes(h, m)
      BY <1>1, <1>7, <2>1
    <3>2. /\ \A h \in Generator \ {g} : ~Writes(h, m)'
          /\ Writes(g, m)'
      <4>1. job'[g] # None /\ job'[g].module = m
        BY <1>2, <1>3
      <4> QED
        BY <1>3, <3>1, <4>1 DEF Writes
    <3>3. files'[m] = [k \in 1 .. written'[g] |-> job'[g].version]
      BY <1>1, <1>3
    <3> QED
      BY <2>1, <3>2, <3>3 DEF Tidy
  <2>2. CASE n # m
    <3>1. Tidy(n) /\ files'[n] = files[n]
      BY <1>1, <1>3, <2>2 DEF FilesInv
    <3>2. \A h \in Generator : Writes(h, n)' = Writes(h, n)
      BY <1>1, <1>3, <2>2 DEF Writes
    <3>3. \A h \in Generator : Writes(h, n) => job'[h] = job[h] /\ written'[h] = written[h]
      BY <1>1, <1>3 DEF Writes
    <3> QED
      BY <3>1, <3>2, <3>3, TidyKept
  <2> QED
    BY <2>1, <2>2
<1> QED
  BY <1>4, <1>5, <1>6, <1>7 DEF FilesInv

\* A file written without a gap stays a sequence, and is of one version as
\* far as it was.
LEMMA PutLemma ==
  ASSUME NEW f \in Seq(Version), NEW v \in Version, NEW k \in Nat \ {0}, k <= Len(f) + 1
  PROVE  /\ Put(f, k, v) \in Seq(Version) /\ Len(Put(f, k, v)) >= k /\ Len(Put(f, k, v)) >= Len(f)
         /\ f = [j \in 1 .. k - 1 |-> v] => Put(f, k, v) = [j \in 1 .. k |-> v]
<1> DEFINE n == IF k > Len(f) THEN k ELSE Len(f)
<1>1. n \in Nat /\ n >= k /\ n >= Len(f) /\ \A j \in 1 .. n : j = k \/ j \in 1 .. Len(f)
  OBVIOUS
<1>2. \A j \in 1 .. Len(f) : f[j] \in Version
  OBVIOUS
<1>3. Put(f, k, v) = [j \in 1 .. n |-> IF j = k THEN v ELSE f[j]]
  BY DEF Put
<1>4. ASSUME f = [j \in 1 .. k - 1 |-> v] PROVE Put(f, k, v) = [j \in 1 .. k |-> v]
  <2>1. k - 1 \in Nat /\ DOMAIN f = 1 .. k - 1 /\ DOMAIN f = 1 .. Len(f) /\ Len(f) \in Nat
    BY <1>4
  <2>2. Len(f) = k - 1
    BY <2>1
  <2>3. n = k /\ \A j \in 1 .. k - 1 : f[j] = v
    BY <1>4, <2>2
  <2> HIDE DEF n
  <2>4. \A j \in 1 .. k : (IF j = k THEN v ELSE f[j]) = v
    BY <2>3
  <2> QED
    BY <1>3, <2>3, <2>4
<1> HIDE DEF n
<1>5. \A j \in 1 .. n : (IF j = k THEN v ELSE f[j]) \in Version
  BY <1>1, <1>2
<1>6. Put(f, k, v) \in Seq(Version) /\ Len(Put(f, k, v)) = n
  BY <1>1, <1>3, <1>5
<1> QED
  BY <1>1, <1>4, <1>6

LEMMA WriteKeepsFiles ==
  ASSUME FilesInv, NEW g \in Generator, Write(g)
  PROVE  FilesInv'
<1> DEFINE m == job[g].module
           v == job[g].version
           k == written[g] + 1
           f == files[m]
           e == Put(f, k, v)
<1>1. job[g] \in Job /\ m \in Module /\ v \in Version /\ k \in Nat \ {0} /\ f \in Seq(Version)
  BY DEF Write, FilesInv, FileTypes, Job, Within
<1>2. /\ k <= Size[v] /\ job' = job
      /\ files' = [files EXCEPT ![m] = e] /\ written' = [written EXCEPT ![g] = k]
      /\ UNCHANGED <<reading, contents, spoilt, undisturbed, sure>>
  BY DEF Write, reader, history
<1>3. k <= Len(f) + 1
  <2>1. Within(g) /\ Size[v] \in Nat \ {0} /\ written[g] \in Nat /\ job[g] # None
    BY <1>1, SymbolizeAssumption DEF FilesInv, FileTypes, Write
  <2>2. written[g] = 0 \/ written[g] <= Len(f)
    BY <1>2, <2>1 DEF Within, Writing
  <2>3. Len(f) \in Nat
    BY <1>1
  <2> QED
    BY <2>1, <2>2, <2>3
<1>4. /\ e \in Seq(Version) /\ Len(e) >= k /\ Len(e) >= Len(f)
      /\ f = [j \in 1 .. k - 1 |-> v] => e = [j \in 1 .. k |-> v]
  BY <1>1, <1>3, PutLemma
<1>5. /\ files' \in [Module -> Seq(Version) \cup {None}] /\ files'[m] = e
      /\ \A i \in Module \ {m} : files'[i] = files[i]
      /\ written' \in [Generator -> Nat] /\ written'[g] = k
      /\ \A h \in Generator \ {g} : written'[h] = written[h]
      /\ None \notin Seq(Version)
  <2>1. files \in [Module -> Seq(Version) \cup {None}] /\ written \in [Generator -> Nat]
    BY DEF FilesInv, FileTypes
  <2> HIDE DEF m, v, k, f, e
  <2> QED
    BY <1>1, <1>2, <1>4, <2>1, SymbolizeAssumption
<1>6. FileTypes'
  BY <1>2, <1>5 DEF FilesInv, FileTypes
<1>7. \A h \in Generator : job'[h] = None => written'[h] = 0
  BY <1>2, <1>5 DEF FilesInv, Write
<1>8. ASSUME NEW h \in Generator, job'[h] # None PROVE Within(h)'
  <2> HIDE DEF e, f
  <2>1. CASE h = g
    BY <1>2, <1>3, <1>4, <1>5, <2>1 DEF Within, Writing
  <2>2. CASE h # g /\ job[h].module = m
    <3>1. Within(h) /\ ~Writing(h)
      BY <1>2, <1>8, <2>2 DEF FilesInv, Write, Writers, Writes
    <3> QED
      BY <1>2, <1>4, <1>5, <2>2, <3>1 DEF Within, Writing
  <2>3. CASE h # g /\ job[h].module # m
    <3>1. Within(h) /\ job[h].module \in Module
      BY <1>2, <1>8 DEF FilesInv, FileTypes, Job
    <3> QED
      BY <1>2, <1>5, <2>3, <3>1 DEF Within, Writing
  <2> QED
    BY <2>1, <2>2, <2>3
<1>9. ASSUME NEW i \in Module \ spoilt' PROVE Tidy(i)'
  <2>1. Tidy(i)
    BY <1>2, <1>9 DEF FilesInv
  <2>2. \A h \in Generator : Writes(h, i)' = Writes(h, i)
    BY <1>2 DEF Writes
  <2>3. CASE i = m
    <3>1. Writes(g, m) /\ \A h \in Generator : Writes(h, m) => h = g
      BY <2>1, <2>3 DEF Tidy, Writes, Write
    <3>2. f = [j \in 1 .. written[g] |-> v]
      BY <2>1, <2>3, <3>1 DEF Tidy
    <3>3. written[g] = k - 1 /\ e = [j \in 1 .. k |-> v]
      BY <1>1, <1>4, <3>2 DEF FilesInv, FileTypes
    <3> HIDE DEF e, f, k, v
    <3>4. files'[m] = [j \in 1 .. written'[g] |-> v]
      BY <1>5, <3>3
    <3> USE DEF v
    <3>5. files'[i] = [j \in 1 .. written'[g] |-> job'[g].version]
      BY <1>2, <2>3, <3>4
    <3> QED
      BY <2>2, <2>3, <3>1, <3>5 DEF Tidy
  <2>4. CASE i # m
    <3>1. \A h \in Generator : Writes(h, i) => job'[h] = job[h] /\ written'[h] = written[h]
      BY <1>2, <1>5, <2>4 DEF Writes
    <3> QED
      BY <1>5, <2>1, <2>2, <2>4, <3>1, TidyKept
  <2> QED
    BY <2>3, <2>4
<1> QED
  BY <1>6, <1>7, <1>8, <1>9 DEF FilesInv

\* A generator ends, with everything written or, leaving the file spoilt,
\* without.
LEMMA EndKeepsFiles ==
  ASSUME FilesInv, NEW g \in Generator, Close(g) \/ StopEarly(g)
  PROVE  FilesInv'
<1> DEFINE m == job[g].module
<1>1. /\ job[g] \in Job /\ m \in Module /\ job[g] # None
      /\ job' = [job EXCEPT ![g] = None] /\ written' = [written EXCEPT ![g] = 0]
      /\ UNCHANGED <<files, reading, contents, undisturbed, sure>>
      /\ \/ spoilt' = spoilt /\ written[g] = Size[job[g].version]
         \/ spoilt' = spoilt \cup {m}
  BY DEF Close, StopEarly, FilesInv, FileTypes, reader, history, Job
<1>2. /\ job' \in [Generator -> Job \cup {None}] /\ job'[g] = None
      /\ \A h \in Generator \ {g} : job'[h] = job[h]
      /\ written' \in [Generator -> Nat] /\ written'[g] = 0
      /\ \A h \in Generator \ {g} : written'[h] = written[h]
  BY <1>1 DEF FilesInv, FileTypes
<1>3. FileTypes'
  BY <1>1, <1>2 DEF FilesInv, FileTypes
<1>4. \A h \in Generator : job'[h] = None => written'[h] = 0
  BY <1>2 DEF FilesInv
<1>5. \A h \in Generator : job'[h] # None => Within(h)'
  BY <1>1, <1>2 DEF FilesInv, Within, Writing
<1>6. ASSUME NEW i \in Module \ spoilt' PROVE Tidy(i)'
  <2>1. Tidy(i)
    BY <1>1, <1>6 DEF FilesInv
  <2>2. CASE i = m
    <3>1. written[g] = Size[job[g].version] /\ Writes(g, m)
      BY <1>1, <1>6, <2>2 DEF Writes
    <3>2. files[m] = Full(job[g].version) /\ job[g].version \in Version
      BY <1>1, <2>1, <2>2, <3>1 DEF Tidy, Full, Job
    <3>3. \A h \in Generator : ~Writes(h, i)'
      BY <1>1, <1>2, <2>1, <2>2, <3>1 DEF Tidy, Writes
    <3> QED
      BY <1>1, <2>2, <3>2, <3>3 DEF Tidy, Whole, Full
  <2>3. CASE i # m
    <3>1. /\ \A h \in Generator : Writes(h, i)' = Writes(h, i)
          /\ \A h \in Generator : Writes(h, i) => job'[h] = job[h] /\ written'[h] = written[h]
      BY <1>1, <1>2, <2>3 DEF Writes
    <3> QED
      BY <1>1, <2>1, <3>1, TidyKept
  <2> QED
    BY <2>2, <2>3
<1> QED
  BY <1>3, <1>4, <1>5, <1>6 DEF FilesInv

-------------------------------------------------------------------------------
(***************************************************************************)
(* The file that is read.                                                  *)
(***************************************************************************)

Prefix(c, f) == Len(c) <= Len(f) /\ \A k \in 1 .. Len(c) : c[k] = f[k]

\* While the file that is read is undisturbed it has no writer, and what was
\* read of it is the beginning of what it holds.
Sound ==
  /\ reading \notin spoilt
  /\ \A g \in Generator : ~Writes(g, reading)
  /\ Prefix(contents, files[reading])

ReadInv ==
  /\ reading # None => files[reading] # None
  /\ undisturbed => reading # None /\ Sound /\ ~panicked
  /\ \A m \in sure : module_to_cache[m] # None /\ Whole(module_to_cache[m].contents)

SymbolizeInv == FilesInv /\ ReadInv

\* A step of a generator leaves what was loaded alone; if it changes the file
\* that is read then that is no longer undisturbed.
LEMMA GeneratorKeepsRead ==
  ASSUME FilesInv, ReadInv, UNCHANGED <<resolver, reader, sure>>,
         \A m \in Module : files[m] # None => files'[m] # None,
         undisturbed' => /\ undisturbed
                         /\ files'[reading] = files[reading]
                         /\ reading \notin spoilt'
                         /\ \A g \in Generator : ~Writes(g, reading)'
  PROVE  ReadInv'
<1>1. /\ reading' = reading /\ contents' = contents /\ sure' = sure
      /\ panicked' = panicked /\ module_to_cache' = module_to_cache
  BY DEF resolver, reader
<1>2. reading' # None => files'[reading'] # None
  BY <1>1 DEF FilesInv, FileTypes, ReadInv
<1>3. ASSUME undisturbed' PROVE (reading # None /\ Sound /\ ~panicked)'
  BY <1>1, <1>3 DEF ReadInv, Sound, Prefix, Writes
<1>4. \A m \in sure' : module_to_cache'[m] # None /\ Whole(module_to_cache'[m].contents)
  BY <1>1 DEF ReadInv
<1> QED
  BY <1>1, <1>2, <1>3, <1>4 DEF ReadInv, Whole, Full

LEMMA GenerateKeepsInv ==
  ASSUME SymbolizeInv, NEW g \in Generator, Generate(g)
  PROVE  SymbolizeInv'
<1>1. FilesInv /\ ReadInv
  BY DEF SymbolizeInv
<1>2. ASSUME NEW m \in Module, NEW v \in Version, Create(g, m, v) PROVE SymbolizeInv'
  <2>1. FilesInv'
    BY <1>1, <1>2, CreateKeepsFiles
  <2>2. /\ UNCHANGED <<resolver, reader, sure>> /\ files' = [files EXCEPT ![m] = <<>>]
        /\ job' = [job EXCEPT ![g] = [module |-> m, version |-> v]]
        /\ spoilt' \in {spoilt \ {m}, spoilt \cup {m}}
        /\ undisturbed' => undisturbed /\ reading # m
    BY <1>2 DEF Create, Truncated
  <2>3. /\ files \in [Module -> Seq(Version) \cup {None}] /\ job \in [Generator -> Job \cup {None}]
        /\ None \notin Seq(Version) /\ <<>> \in Seq(Version)
    BY <1>1, SymbolizeAssumption DEF FilesInv, FileTypes
  <2>4. \A n \in Module : files[n] # None => files'[n] # None
    BY <2>2, <2>3
  <2>5. ASSUME undisturbed'
        PROVE  /\ undisturbed /\ files'[reading] = files[reading]
               /\ reading \notin spoilt' /\ \A h \in Generator : ~Writes(h, reading)'
    BY <1>1, <2>2, <2>3, <2>5 DEF ReadInv, Sound, Writes, reader
  <2> QED
    BY <1>1, <2>1, <2>2, <2>4, <2>5, GeneratorKeepsRead DEF SymbolizeInv
<1>3. ASSUME Write(g) PROVE SymbolizeInv'
  <2> DEFINE m == job[g].module
             e == Put(files[m], written[g] + 1, job[g].version)
  <2>1. FilesInv'
    BY <1>1, <1>3, WriteKeepsFiles
  <2>2. /\ UNCHANGED <<resolver, reader, sure>> /\ files' = [files EXCEPT ![m] = e]
        /\ job' = job /\ job[g] # None /\ spoilt' = spoilt /\ undisturbed' = undisturbed
    BY <1>3 DEF Write, history
  <2>3. files \in [Module -> Seq(Version) \cup {None}] /\ m \in Module
    BY <1>1, <2>2 DEF FilesInv, FileTypes, Job
  <2>4. \A n \in Module : files[n] # None => files'[n] # None
    <3>1. files'[m] # None
      BY <2>1, <2>2, <2>3 DEF FilesInv, Within
    <3> QED
      BY <2>2, <2>3, <3>1
  <2>5. ASSUME undisturbed'
        PROVE  /\ undisturbed /\ files'[reading] = files[reading]
               /\ reading \notin spoilt' /\ \A h \in Generator : ~Writes(h, reading)'
    <3>1. reading # m
      BY <1>1, <2>2, <2>5 DEF ReadInv, Sound, Writes
    <3> QED
      BY <1>1, <2>2, <2>3, <2>5, <3>1 DEF ReadInv, Sound, Writes, reader
  <2> QED
    BY <1>1, <2>1, <2>2, <2>4, <2>5, GeneratorKeepsRead DEF SymbolizeInv
<1>4. ASSUME Close(g) \/ StopEarly(g) PROVE SymbolizeInv'
  <2>1. FilesInv'
    BY <1>1, <1>4, EndKeepsFiles
  <2>2. /\ UNCHANGED <<resolver, reader, sure>> /\ files' = files
        /\ job[g] # None /\ job' = [job EXCEPT ![g] = None] /\ undisturbed' = undisturbed
        /\ spoilt' \in {spoilt, spoilt \cup {job[g].module}}
    BY <1>4 DEF Close, StopEarly, history
  <2>3. job \in [Generator -> Job \cup {None}]
    BY <1>1 DEF FilesInv, FileTypes
  <2>4. ASSUME undisturbed'
        PROVE  /\ undisturbed /\ files'[reading] = files[reading]
               /\ reading \notin spoilt' /\ \A h \in Generator : ~Writes(h, reading)'
    BY <1>1, <2>2, <2>3, <2>4 DEF ReadInv, Sound, Writes, reader
  <2> QED
    BY <1>1, <2>1, <2>2, <2>4, GeneratorKeepsRead DEF SymbolizeInv
<1> QED
  BY <1>2, <1>3, <1>4 DEF Generate

\* The resolver's steps do not touch the files.
LEMMA ReaderKeepsFiles ==
  ASSUME FilesInv, UNCHANGED <<files, job, written, spoilt>>,
         reading' \in Module \cup {None}, contents' \in Seq(Version),
         sure' \subseteq Module, undisturbed' \in BOOLEAN
  PROVE  FilesInv'
<1>1. FileTypes'
  BY DEF FilesInv, FileTypes
<1> QED
  BY <1>1 DEF FilesInv, Within, Writing, Tidy, Writes, Whole, Full

LEMMA ReadToEnd ==
  ASSUME SymbolizeInv, reading # None, AtEnd, undisturbed
  PROVE  Whole(contents)
<1>1. /\ Sound /\ reading \in Module \ spoilt /\ files[reading] # None
      /\ files[reading] \in Seq(Version) /\ contents \in Seq(Version)
  BY DEF SymbolizeInv, FilesInv, FileTypes, ReadInv, Sound
<1>2. Whole(files[reading])
  BY <1>1 DEF SymbolizeInv, FilesInv, Tidy, Sound
<1>3. Len(contents) = Len(files[reading]) /\ \A k \in 1 .. Len(contents) : contents[k] = files[reading][k]
  BY <1>1 DEF AtEnd, Sound, Prefix
<1>4. contents = files[reading]
  BY <1>1, <1>3
<1> QED
  BY <1>2, <1>4

LEMMA ReadKeepsInv ==
  ASSUME SymbolizeInv, Read
  PROVE  SymbolizeInv'
<1> DEFINE f == files[reading]
           x == f[Len(contents) + 1]
<1>1. /\ reading \in Module /\ f \in Seq(Version) /\ contents \in Seq(Version)
      /\ Len(contents) < Len(f) /\ contents' = Append(contents, x)
      /\ UNCHANGED <<resolver, reading, store, history>> /\ FilesInv /\ ReadInv
  BY DEF SymbolizeInv, FilesInv, FileTypes, ReadInv, Read, AtEnd
<1>2. x \in Version
  BY <1>1
<1> HIDE DEF x
<1>3. /\ contents' \in Seq(Version) /\ Len(contents') = Len(contents) + 1
      /\ contents'[Len(contents) + 1] = x
      /\ \A k \in 1 .. Len(contents) : contents'[k] = contents[k]
  BY <1>1, <1>2
<1>4. /\ files' = files /\ job' = job /\ written' = written /\ spoilt' = spoilt
      /\ sure' = sure /\ undisturbed' = undisturbed /\ reading' = reading
      /\ panicked' = panicked /\ module_to_cache' = module_to_cache
  BY <1>1 DEF resolver, store, history
<1>5. FilesInv'
  BY <1>1, <1>3, <1>4, ReaderKeepsFiles DEF FilesInv, FileTypes
<1>6. ASSUME undisturbed PROVE Sound'
  <2>1. Prefix(contents, f) /\ reading \notin spoilt /\ \A g \in Generator : ~Writes(g, reading)
    BY <1>1, <1>6 DEF ReadInv, Sound
  <2>2. \A k \in 1 .. Len(contents) + 1 : contents'[k] = f[k]
    <3> USE DEF x
    <3> QED
      BY <1>1, <1>3, <2>1 DEF Prefix
  <2>3. Prefix(contents', f)
    BY <1>1, <1>3, <2>2 DEF Prefix
  <2> QED
    BY <1>4, <2>1, <2>3 DEF Sound, Writes
<1>7. ReadInv'
  BY <1>1, <1>4, <1>6 DEF ReadInv, Whole, Full
<1> QED
  BY <1>5, <1>7 DEF SymbolizeInv

LEMMA ResolverStepKeepsInv ==
  ASSUME SymbolizeInv, R!TypeOK, NEW f \in R!Frame,
         UseCache(f) \/ OpenFails(f) \/ Open(f) \/ ParseFails(f) \/ Load(f)
  PROVE  SymbolizeInv'
<1>1. FilesInv /\ ReadInv /\ f.module \in Module
  BY DEF SymbolizeInv, R!Frame
<1>2. ASSUME UseCache(f) \/ OpenFails(f) PROVE SymbolizeInv'
  <2>1. UNCHANGED <<reader, store, history, module_to_cache, panicked>>
    BY <1>2 DEF UseCache, OpenFails, R!UseCache, R!OpenFails, R!Push
  <2>2. /\ files' = files /\ job' = job /\ written' = written /\ spoilt' = spoilt
        /\ sure' = sure /\ undisturbed' = undisturbed /\ reading' = reading
        /\ panicked' = panicked /\ module_to_cache' = module_to_cache /\ contents' = contents
    BY <2>1 DEF reader, store, history
  <2>3. FilesInv'
    BY <1>1, <2>2, ReaderKeepsFiles DEF FilesInv, FileTypes
  <2>4. ReadInv'
    BY <1>1, <2>2 DEF ReadInv, Sound, Prefix, Writes, Whole, Full
  <2> QED
    BY <2>3, <2>4 DEF SymbolizeInv
<1>3. ASSUME Open(f) PROVE SymbolizeInv'
  <2>1. /\ files' = files /\ job' = job /\ written' = written /\ spoilt' = spoilt
        /\ sure' = sure /\ reading' = f.module /\ contents' = <<>> /\ ~panicked
        /\ undisturbed' \in BOOLEAN /\ files[f.module] # None
        /\ undisturbed' => f.module \notin spoilt /\ Writers(f.module) = {}
        /\ panicked' = panicked /\ module_to_cache' = module_to_cache
    BY <1>3 DEF Open, resolver, store, R!NextFrame
  <2>2. FilesInv'
    BY <1>1, <2>1, ReaderKeepsFiles DEF FilesInv, FileTypes
  <2>3. files[f.module] \in Seq(Version)
    BY <1>1, <2>1 DEF FilesInv, FileTypes
  <2>4. ASSUME undisturbed' PROVE Sound'
    <3>1. \A g \in Generator : ~Writes(g, f.module)'
      BY <2>1, <2>4 DEF Writers, Writes
    <3>2. Prefix(<<>>, files[f.module])
      BY <2>3 DEF Prefix
    <3> QED
      BY <2>1, <2>4, <3>1, <3>2 DEF Sound
  <2>5. f.module # None
    BY <1>1, SymbolizeAssumption
  <2>6. ReadInv'
    BY <1>1, <2>1, <2>4, <2>5 DEF ReadInv, Whole, Full
  <2> QED
    BY <2>2, <2>6 DEF SymbolizeInv
<1>4. ASSUME ParseFails(f) PROVE SymbolizeInv'
  <2>1. ~undisturbed
    <3>1. reading # None
      BY <1>1, <1>4, SymbolizeAssumption DEF ParseFails
    <3> QED
      BY <1>4, <3>1, ReadToEnd DEF ParseFails
  <2>2. /\ files' = files /\ job' = job /\ written' = written /\ spoilt' = spoilt
        /\ sure' = sure /\ undisturbed' = undisturbed /\ reading' = reading
        /\ module_to_cache' = module_to_cache /\ contents' = contents
    BY <1>4 DEF ParseFails, R!ParseFails, reader, store, history
  <2>3. FilesInv'
    BY <1>1, <2>2, ReaderKeepsFiles DEF FilesInv, FileTypes
  <2>4. ReadInv'
    BY <1>1, <2>1, <2>2 DEF ReadInv, Whole, Full
  <2> QED
    BY <2>3, <2>4 DEF SymbolizeInv
<1>5. ASSUME Load(f) PROVE SymbolizeInv'
  <2> DEFINE symbols == [module |-> f.module, contents |-> contents]
  <2>1. undisturbed => Whole(contents)
    <3>1. reading # None
      BY <1>1, <1>5, SymbolizeAssumption DEF Load
    <3> QED
      BY <1>5, <3>1, ReadToEnd DEF Load
  <2>2. /\ files' = files /\ job' = job /\ written' = written /\ spoilt' = spoilt
        /\ reading' = None /\ contents' = <<>> /\ undisturbed' = FALSE
        /\ sure' = IF undisturbed THEN sure \cup {f.module} ELSE sure
        /\ module_to_cache' = [module_to_cache EXCEPT ![f.module] = symbols]
    BY <1>5 DEF Load, R!Load, store
  <2>3. symbols \in R!SymCache /\ symbols # None /\ <<>> \in Seq(Version)
    BY <1>1, SymbolizeAssumption DEF R!SymCache, FilesInv, FileTypes
  <2>4. FilesInv'
    BY <1>1, <2>2, <2>3, ReaderKeepsFiles DEF FilesInv, FileTypes
  <2>5. module_to_cache \in [Module -> R!SymCache \cup {None}]
    BY DEF R!TypeOK
  <2>6. ASSUME NEW m \in sure'
        PROVE  module_to_cache'[m] # None /\ Whole(module_to_cache'[m].contents)
    <3>1. m \in Module
      BY <2>4 DEF FilesInv, FileTypes
    <3>2. CASE m \in sure
      <4>1. module_to_cache[m] # None /\ ~R!HasEntry(f.module)
        BY <1>1, <1>5, <3>2 DEF ReadInv, Load, R!Load
      <4>2. m # f.module
        BY <4>1 DEF R!HasEntry
      <4> QED
        BY <1>1, <2>2, <2>5, <3>1, <3>2, <4>2 DEF ReadInv
    <3>3. CASE m \notin sure
      <4>1. undisturbed /\ m = f.module
        BY <2>2, <2>6, <3>3
      <4>2. module_to_cache'[m] = symbols
        BY <2>2, <2>5, <3>1, <4>1
      <4> QED
        BY <2>1, <2>3, <4>1, <4>2
    <3> QED
      BY <3>2, <3>3
  <2>7. ReadInv'
    BY <2>2, <2>6 DEF ReadInv, Whole, Full
  <2> QED
    BY <2>4, <2>7 DEF SymbolizeInv
<1> QED
  BY <1>2, <1>3, <1>4, <1>5

LEMMA StepImplements ==
  ASSUME SymbolizeInv, [Next]_vars
  PROVE  [R!Next]_R!vars
<1>1. ASSUME NEW f \in R!Frame, UseCache(f) \/ OpenFails(f) \/ ParseFails(f) PROVE R!Next
  BY <1>1 DEF UseCache, OpenFails, ParseFails, R!Next
<1>2. ASSUME NEW f \in R!Frame, Load(f) PROVE R!Next
  <2>1. contents \in Seq(Version)
    BY DEF SymbolizeInv, FilesInv, FileTypes
  <2> QED
    BY <1>2, <2>1 DEF Load, R!Next
<1>3. ASSUME NEW f \in R!Frame, Open(f) PROVE UNCHANGED R!vars
  BY <1>3 DEF Open, resolver, R!vars
<1>4. ASSUME Read \/ UNCHANGED vars PROVE UNCHANGED R!vars
  BY <1>4 DEF Read, vars, resolver, R!vars
<1>5. ASSUME NEW g \in Generator, Generate(g) PROVE UNCHANGED R!vars
  BY <1>5 DEF Generate, Create, Write, Close, StopEarly, resolver, R!vars
<1> QED
  BY <1>1, <1>2, <1>3, <1>4, <1>5 DEF Next, Resolve

-------------------------------------------------------------------------------
(***************************************************************************)
(* The theorems.                                                           *)
(***************************************************************************)

THEOREM SymbolizeInvariant == Spec => [](ResolverInv /\ SymbolizeInv)
<1>1. Init => ResolverInv /\ SymbolizeInv
  <2> SUFFICES ASSUME Init PROVE ReadInv
    BY FilesInit, ResolverInit DEF SymbolizeInv, Init
  <2> QED
    BY DEF Init, ReadInv
<1>2. ResolverInv /\ SymbolizeInv /\ [Next]_vars => ResolverInv' /\ SymbolizeInv'
  <2> SUFFICES ASSUME ResolverInv, SymbolizeInv, [Next]_vars
               PROVE  ResolverInv' /\ SymbolizeInv'
    OBVIOUS
  <2>1. ASSUME UNCHANGED vars PROVE SymbolizeInv'
    BY <2>1 DEF vars, resolver, reader, store, history, SymbolizeInv, FilesInv, FileTypes,
                ReadInv, Sound, Prefix, Within, Writing, Tidy, Writes, Whole, Full
  <2>2. SymbolizeInv'
    BY <2>1, ReadKeepsInv, ResolverStepKeepsInv, GenerateKeepsInv DEF Next, Resolve, ResolverInv
  <2>3. ResolverInv'
    BY StepImplements, ResolverStep
  <2> QED
    BY <2>2, <2>3
<1> QED
  BY <1>1, <1>2, PTL DEF Spec

\* Reading block after block while generators write, the resolver takes the
\* steps of Resolver and no others: what is true of Resolver's behaviours is
\* true here.
THEOREM SymbolizeImplements == Spec => R!Spec
<1>1. Init => R!Init
  BY DEF Init
<1> QED
  BY <1>1, SymbolizeInvariant, StepImplements, PTL DEF Spec, R!Spec

\* Whatever the files hold and however often they are replaced, a frame that
\* is resolved stands where its own frame stood, and has its module's symbols.
THEOREM FramesCorrect == Spec => []FramesStayInPlace
<1>1. ResolverInv => FramesStayInPlace
  BY DEF ResolverInv, FromCache, R!TypeOK, FramesStayInPlace, R!FramesStayInPlace
<1> QED
  BY <1>1, SymbolizeInvariant, PTL

\* All frames of a module that are known were looked up in one reading.
THEOREM ReadingsCorrect == Spec => []OneReadingPerModule
<1>1. ResolverInv => OneReadingPerModule
  BY DEF ResolverInv, FromCache, R!TypeOK, OneReadingPerModule, R!OneReadingPerModule
<1> QED
  BY <1>1, SymbolizeInvariant, PTL

\* A file whose last generator had it for itself and was not stopped is one
\* version of the symbols.
THEOREM FilesCorrect == Spec => []FinishedFilesAreWhole
<1>1. SymbolizeInv => FinishedFilesAreWhole
  BY DEF SymbolizeInv, FilesInv, Tidy, FinishedFilesAreWhole, Writers
<1> QED
  BY <1>1, SymbolizeInvariant, PTL

\* The resolver panics only over a file that is not finished, and a file that
\* is finished is loaded whole.
THEOREM CleanReadsCorrect == Spec => []CleanReadsAreWhole
<1>1. SymbolizeInv => CleanReadsAreWhole
  BY DEF SymbolizeInv, ReadInv, CleanReadsAreWhole
<1> QED
  BY <1>1, SymbolizeInvariant, PTL

\* The state has the types that TypeOK says.
THEOREM SymbolizeTypes == Spec => []TypeOK
<1>1. ResolverInv /\ SymbolizeInv => TypeOK
  BY DEF ResolverInv, SymbolizeInv, FilesInv, FileTypes, TypeOK
<1> QED
  BY <1>1, SymbolizeInvariant, PTL

===============================================================================
