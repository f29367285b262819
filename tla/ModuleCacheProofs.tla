--------------------------- MODULE ModuleCacheProofs ---------------------------
(***************************************************************************)
(* Theorems about ModuleCache: its guessed ranges never stray from the     *)
(* images they were guessed for, for any images and files, loaded,         *)
(* unloaded and replaced in any order.                                     *)
(***************************************************************************)
EXTENDS ModuleCache, WellFoundedInduction, TLAPS

-------------------------------------------------------------------------------
(* The build ID of a file.                                                 *)

LEMMA FirstLemma ==
  ASSUME NEW S \in SUBSET Nat, S # {}
  PROVE  First(S) \in S
<1> DEFINE R == OpToRel(<, Nat)
<1>1. IsWellFoundedOn(R, Nat)
  BY Zenon, NatLessThanWellFounded
<1>2. R = {ss \in Nat \X Nat : ss[1] < ss[2]}
  BY Zenon DEF OpToRel
<1> HIDE DEF R
<1>3. PICK x \in S : \A y \in S : ~(<<y, x>> \in R)
  BY <1>1, WFMin
<1>4. \A y \in S : ~(y < x)
  BY <1>2, <1>3
<1>5. \A y \in S : x <= y
  BY <1>4
<1> QED
  BY <1>5 DEF First

\* What the loop over the notes finds.
LEMMA ElfLemma ==
  ASSUME NEW f, NEW c \in Seq(Note \cup {Bad}), f.contents = c
  PROVE  /\ ElfBuildId(c) \in Id \cup {None, Bad}
         /\ ElfBuildId(c) \in Id => ElfBuildId(c) \in IdsOf(f)
         /\ ElfBuildId(c) = None => IdsOf(f) = {}
         /\ ElfBuildId(c) = Bad => ~Sound(f)
<1> DEFINE ends == {k \in DOMAIN c : c[k] = Bad \/ IsBuildId(c[k])}
           note == c[First(ends)]
<1> USE CacheAssumption
<1>1. DOMAIN c \subseteq Nat /\ \A k \in DOMAIN c : c[k] \in Note \cup {Bad}
  OBVIOUS
<1>2. c # None
  OBVIOUS
<1>3. CASE ends = {}
  <2>1. ElfBuildId(c) = None
    BY <1>3 DEF ElfBuildId
  <2>2. IdsOf(f) = {}
    <3> SUFFICES ASSUME NEW id \in Id, NEW k \in DOMAIN c,
                        c[k] \in {[name |-> "GNU", n_type |-> "NT_GNU_BUILD_ID", desc |-> id],
                                  [cputype |-> "CPU_TYPE_X86_64", parses |-> TRUE, uuid |-> id]}
                 PROVE  FALSE
      BY <1>2 DEF IdsOf
    <3>1. c[k] \in Note
      BY <1>1, <1>3
    <3>2. c[k] = [name |-> "GNU", n_type |-> "NT_GNU_BUILD_ID", desc |-> id]
      <4>1. DOMAIN c[k] = {"name", "n_type", "desc"}
        BY <3>1 DEF Note
      <4> QED
        BY <4>1
    <3> QED
      BY <1>3, <3>2 DEF IsBuildId
  <2> QED
    BY <2>1, <2>2
<1>4. CASE ends # {}
  <2>1. First(ends) \in ends
    BY <1>1, <1>4, FirstLemma
  <2>2. ElfBuildId(c) = IF note = Bad THEN Bad ELSE note.desc
    BY <1>4 DEF ElfBuildId
  <2>3. PICK k \in DOMAIN c : k = First(ends) /\ (c[k] = Bad \/ IsBuildId(c[k]))
    BY <2>1
  <2> HIDE DEF ends
  <2>4. CASE c[k] = Bad
    BY <1>2, <2>2, <2>3, <2>4 DEF Sound
  <2>5. CASE c[k] # Bad
    <3>1. c[k] \in Note /\ IsBuildId(c[k]) /\ ElfBuildId(c) = c[k].desc
      BY <1>1, <2>2, <2>3, <2>5
    <3>2. c[k] = [name |-> "GNU", n_type |-> "NT_GNU_BUILD_ID", desc |-> c[k].desc] /\ c[k].desc \in Id
      BY <3>1 DEF Note, IsBuildId
    <3> QED
      BY <1>2, <3>1, <3>2 DEF IdsOf
  <2> QED
    BY <2>4, <2>5
<1> QED
  BY <1>3, <1>4

\* What is found in the images of a Mach-O binary.
LEMMA MachLemma ==
  ASSUME NEW f \in MachFile, NEW c \in Seq(Slice \cup {Bad}), f.contents = c, os = "macos"
  PROVE  /\ MachBuildId(c) \in Id \cup {None, Bad}
         /\ MachBuildId(c) \in Id => MachBuildId(c) \in IdsOf(f)
         /\ MachBuildId(c) = None => IdsOf(f) = {}
         /\ MachBuildId(c) = Bad => ~Sound(f)
<1> DEFINE fits == {k \in DOMAIN c : c[k] # Bad /\ c[k].cputype = "CPU_TYPE_X86_64"}
           macho == c[First(fits)]
<1> USE CacheAssumption
<1>1. DOMAIN c \subseteq Nat /\ \A k \in DOMAIN c : c[k] \in Slice \cup {Bad}
  OBVIOUS
<1>2. c # None
  OBVIOUS
<1>3. CASE fits = {}
  <2>1. MachBuildId(c) = Bad
    BY <1>3 DEF MachBuildId
  <2>2. ~Sound(f)
    BY <1>3 DEF Sound
  <2> QED
    BY <2>1, <2>2
<1>4. CASE fits # {}
  <2>1. First(fits) \in fits
    BY <1>1, <1>4, FirstLemma
  <2>2. MachBuildId(c) = IF ~macho.parses THEN Bad ELSE macho.uuid
    BY <1>4 DEF MachBuildId
  <2>3. PICK k \in DOMAIN c : k = First(fits) /\ c[k] \in Slice /\ c[k].cputype = "CPU_TYPE_X86_64" /\ c[k] # Bad
    BY <1>1, <2>1
  <2> HIDE DEF fits
  <2>4. MachBuildId(c) = IF ~c[k].parses THEN Bad ELSE c[k].uuid
    BY <2>2, <2>3
  <2>5. c[k].parses \in BOOLEAN /\ c[k].uuid \in Id \cup {None}
    BY <2>3 DEF Slice
  <2>6. CASE ~c[k].parses
    BY <1>2, <2>4, <2>6 DEF Sound
  <2>7. CASE c[k].parses /\ c[k].uuid \in Id
    <3>1. c[k] = [cputype |-> "CPU_TYPE_X86_64", parses |-> TRUE, uuid |-> c[k].uuid]
      BY <2>3, <2>7 DEF Slice
    <3> QED
      BY <1>2, <2>4, <2>7, <3>1 DEF IdsOf
  <2>8. CASE c[k].parses /\ c[k].uuid = None
    <3>1. \A j \in DOMAIN c : c[j] # Bad /\ c[j].cputype = "CPU_TYPE_X86_64" => c[j].uuid = None
      BY <1>2, <2>3, <2>8
    <3>2. IdsOf(f) = {}
      <4> SUFFICES ASSUME NEW id \in Id, NEW j \in DOMAIN c,
                          c[j] \in {[name |-> "GNU", n_type |-> "NT_GNU_BUILD_ID", desc |-> id],
                                    [cputype |-> "CPU_TYPE_X86_64", parses |-> TRUE, uuid |-> id]}
                   PROVE  FALSE
        BY <1>2 DEF IdsOf
      <4>1. c[j] = Bad \/ c[j] \in Slice
        BY <1>1
      <4>2. CASE c[j] \in Slice
        <5>1. DOMAIN c[j] = {"cputype", "parses", "uuid"}
          BY <4>2 DEF Slice
        <5>2. c[j] = [cputype |-> "CPU_TYPE_X86_64", parses |-> TRUE, uuid |-> id]
          BY <5>1
        <5>3. c[j] # Bad
          BY <4>2
        <5> QED
          BY <3>1, <5>2, <5>3
      <4>3. CASE c[j] = Bad
        <5>1. [name |-> "GNU", n_type |-> "NT_GNU_BUILD_ID", desc |-> id] \in Note
          BY DEF Note
        <5>2. [cputype |-> "CPU_TYPE_X86_64", parses |-> TRUE, uuid |-> id] \in Slice
          BY DEF Slice
        <5> QED
          BY <4>3, <5>1, <5>2
      <4> QED
        BY <4>1, <4>2, <4>3
    <3> QED
      BY <2>4, <2>8, <3>2
  <2> QED
    BY <2>5, <2>6, <2>7, <2>8
<1> QED
  BY <1>3, <1>4

LEMMA BuildIdLemma ==
  ASSUME os \in {"linux", "macos"}, NEW f \in File
  PROVE  /\ BuildId(f) \in Id \cup {None, Bad}
         /\ BuildId(f) \in Id => BuildId(f) \in IdsOf(f)
         /\ BuildId(f) = None => IdsOf(f) = {}
         /\ BuildId(f) = Bad => ~Sound(f)
         /\ f.name \in Name
<1> USE CacheAssumption
<1>1. CASE f.contents = None
  BY <1>1 DEF BuildId, Sound, File
<1>2. CASE f.contents # None /\ os = "linux"
  <2>1. f.contents \in Seq(Note \cup {Bad}) /\ f.name \in Name /\ BuildId(f) = ElfBuildId(f.contents)
    BY <1>2 DEF File, BuildId
  <2> QED
    BY <2>1, ElfLemma
<1>3. CASE f.contents # None /\ os = "macos"
  <2>1. f \in MachFile /\ f.contents \in Seq(Slice \cup {Bad}) /\ f.name \in Name /\ BuildId(f) = MachBuildId(f.contents)
    BY <1>3 DEF File, BuildId
  <2> QED
    BY <1>3, <2>1, MachLemma
<1> QED
  BY <1>1, <1>2, <1>3

-------------------------------------------------------------------------------
(* Facts about one state.                                                  *)

\* Range r was made for image p.
Of(r, p) ==
  /\ r.start = p.start /\ r.end <= p.end
  /\ r.info = InfoOf(p) /\ BuildId(p.file) \in Id

\* What there is to say of an address in image p, without a cache.
Told(p, addr) ==
  IF BuildId(p.file) = None THEN None ELSE [info |-> InfoOf(p), rva |-> addr - p.start]

\* What a file tells does not change while the program runs.
LEMMA SameFile ==
  ASSUME os' = os, NEW p
  PROVE  BuildId(p.file)' = BuildId(p.file) /\ InfoOf(p)' = InfoOf(p)
BY DEF BuildId, InfoOf

LEMMA PlacementType ==
  ASSUME TypeOK, NEW p \in once
  PROVE  /\ p \in Placement /\ p.start \in Nat /\ p.end \in Nat /\ p.start <= MaxAddr
         /\ p.end <= MaxAddr + 1 /\ p.file \in File /\ os \in {"linux", "macos"}
<1>1. p \in Placement /\ os \in {"linux", "macos"}
  BY DEF TypeOK
<1> QED
  BY <1>1, CacheAssumption DEF Placement, Addr

LEMMA RangeType ==
  ASSUME TypeOK, NEW k \in DOMAIN module_ranges
  PROVE  /\ module_ranges[k] \in ModuleRange /\ k \in Nat
         /\ module_ranges[k].start \in Nat /\ module_ranges[k].end \in Nat
<1>1. module_ranges \in Seq(ModuleRange)
  BY DEF TypeOK
<1>2. module_ranges[k] \in ModuleRange /\ k \in Nat
  BY <1>1
<1> QED
  BY <1>2, CacheAssumption DEF ModuleRange, Addr

\* An answer read from a range that contains the address is what there is to
\* say of the image whose range it is, and the assertion holds.
LEMMA ReturnLemma ==
  ASSUME TypeOK, NEW addr \in Addr, NEW r \in ModuleRange, NEW p \in once, Of(r, p),
         Contains(r, addr), Return(r, addr)
  PROVE  /\ query' = addr /\ panicked' = FALSE /\ Contains(p, addr)
         /\ answer' = Told(p, addr) /\ answer' \in [info : Info, rva : Addr]
<1>1. /\ r.start \in Nat /\ r.end \in Nat /\ r.info \in Info /\ addr \in Nat
      /\ addr <= MaxAddr /\ MaxAddr \in Nat
  BY CacheAssumption DEF ModuleRange, Addr
<1>2. /\ r.start <= addr /\ addr < r.end /\ r.start = p.start /\ r.end <= p.end /\ p.end \in Nat
  BY PlacementType DEF Contains, Of
<1>3. query' = addr /\ panicked' = FALSE /\ answer' = [info |-> r.info, rva |-> addr - r.start]
  BY DEF Return
<1>4. addr - r.start \in Addr
  BY <1>1, <1>2 DEF Addr
<1>5. answer' \in [info : Info, rva : Addr]
  BY <1>1, <1>3, <1>4
<1>6. answer' = Told(p, addr)
  BY <1>2, <1>3, CacheAssumption DEF Of, Told
<1>7. Contains(p, addr)
  BY <1>1, <1>2 DEF Contains
<1> QED
  BY <1>3, <1>5, <1>6, <1>7

-------------------------------------------------------------------------------
(* The steps.                                                              *)

RangesExact == \A k \in DOMAIN module_ranges : \E p \in once : Of(module_ranges[k], p)

AnswersExact ==
  /\ answer # None =>
       /\ query # None
       /\ \E p \in once : Contains(p, query) /\ BuildId(p.file) \in Id /\ answer = Told(p, query)
  /\ query # None /\ ~panicked =>
       \A p \in images :
         Contains(p, query) /\ (\A q \in once : Contains(q, query) => q = p)
         => BuildId(p.file) # Bad /\ answer = Told(p, query)

LookupInv ==
  /\ TypeOK
  /\ RangesExact
  /\ AnswersExact
  /\ PanicsOnlyOnUnreadable

LEMMA RangesExactKeeps ==
  ASSUME RangesExact, os' = os, once \subseteq once', module_ranges' = module_ranges
  PROVE  RangesExact'
<1> SUFFICES ASSUME NEW k \in DOMAIN module_ranges
             PROVE  \E p \in once' : Of(module_ranges[k], p)'
  BY DEF RangesExact
<1>1. PICK p \in once : Of(module_ranges[k], p)
  BY DEF RangesExact
<1>2. Of(module_ranges[k], p)'
  BY <1>1, SameFile DEF Of
<1> QED
  BY <1>2

\* An answer from a range, which may have been extended or inserted.
LEMMA AnswerKeeps ==
  ASSUME TypeOK, UNCHANGED loader, RangesExact', module_ranges' \in Seq(ModuleRange),
         NEW addr \in Addr, NEW r \in ModuleRange, NEW p \in once, Of(r, p),
         Contains(r, addr), Return(r, addr)
  PROVE  LookupInv'
<1>1. /\ query' = addr /\ panicked' = FALSE /\ Contains(p, addr)
      /\ answer' = Told(p, addr) /\ answer' \in [info : Info, rva : Addr]
  BY ReturnLemma
<1>2. os' = os /\ images' = images /\ once' = once /\ images \subseteq once
  BY DEF loader, TypeOK
<1>3. TypeOK'
  BY <1>1, <1>2 DEF TypeOK, Placement, File
<1>4. BuildId(p.file) \in Id /\ BuildId(p.file)' = BuildId(p.file) /\ Told(p, addr)' = Told(p, addr)
  BY <1>2, SameFile DEF Of, Told
<1>5. AnswersExact'
  <2>1. \E q \in once' : Contains(q, query') /\ BuildId(q.file)' \in Id /\ answer' = Told(q, query)'
    BY <1>1, <1>2, <1>4
  <2>2. ASSUME NEW q \in images', Contains(q, query'),
               \A x \in once' : Contains(x, query') => x = q
        PROVE  BuildId(q.file)' # Bad /\ answer' = Told(q, query)'
    BY <1>1, <1>2, <1>4, <2>2, CacheAssumption
  <2> QED
    BY <1>1, <2>1, <2>2, CacheAssumption DEF AnswersExact
<1>6. PanicsOnlyOnUnreadable'
  BY <1>1 DEF PanicsOnlyOnUnreadable
<1> QED
  BY <1>3, <1>5, <1>6 DEF LookupInv

LEMMA BecomeKeeps ==
  ASSUME LookupInv, NEW i \in SUBSET Placement, Become(i), ~panicked
  PROVE  LookupInv'
<1>1. /\ images' = i /\ once' = once \cup i /\ query' = None /\ answer' = None
      /\ UNCHANGED <<os, module_ranges, panicked>>
  BY DEF Become
<1>2. TypeOK'
  BY <1>1 DEF LookupInv, TypeOK, Placement, File
<1>3. RangesExact'
  BY <1>1, RangesExactKeeps DEF LookupInv
<1> QED
  BY <1>1, <1>2, <1>3 DEF LookupInv, AnswersExact, PanicsOnlyOnUnreadable

LEMMA HitKeeps ==
  ASSUME LookupInv, NEW addr \in Addr, Hit(addr)
  PROVE  LookupInv'
<1> DEFINE k == FindExisting(addr)
<1>1. TypeOK /\ RangesExact
  BY DEF LookupInv
<1>2. Known(addr) \subseteq Nat /\ Known(addr) # {}
  BY <1>1, RangeType DEF Known, Hit
<1>3. k \in Known(addr)
  BY <1>2, FirstLemma DEF FindExisting
<1>4. k \in DOMAIN module_ranges /\ Contains(module_ranges[k], addr)
  BY <1>3 DEF Known
<1>5. Return(module_ranges[k], addr) /\ UNCHANGED <<loader, module_ranges>>
  BY DEF Hit
<1> HIDE DEF k
<1>6. PICK p \in once : Of(module_ranges[k], p)
  BY <1>1, <1>4 DEF RangesExact
<1>7. module_ranges' \in Seq(ModuleRange) /\ RangesExact'
  BY <1>1, <1>5, RangesExactKeeps DEF TypeOK, loader
<1> QED
  BY <1>1, <1>4, <1>5, <1>6, <1>7, RangeType, AnswerKeeps

\* The lookups that leave the cache alone and answer None.
LEMMA NoneKeeps ==
  ASSUME LookupInv, UNCHANGED <<loader, module_ranges>>, NEW addr \in Addr,
         query' = addr, answer' = None, panicked' \in BOOLEAN,
         ~panicked' =>
           \A p \in images : Contains(p, addr) /\ (\A q \in once : Contains(q, addr) => q = p)
             => BuildId(p.file) = None,
         panicked' => \E p \in images : Contains(p, addr) /\ ~Sound(p.file)
  PROVE  LookupInv'
<1>1. os' = os /\ images' = images /\ once' = once /\ module_ranges' = module_ranges
  BY DEF loader
<1>2. TypeOK'
  BY <1>1 DEF LookupInv, TypeOK, Placement, File
<1>3. AnswersExact'
  <2> SUFFICES ASSUME ~panicked', NEW p \in images, Contains(p, addr),
                      \A q \in once : Contains(q, addr) => q = p
               PROVE  BuildId(p.file)' # Bad /\ answer' = Told(p, query)'
    BY <1>1 DEF AnswersExact
  <2>1. BuildId(p.file) = None /\ BuildId(p.file)' = None
    BY <1>1, SameFile
  <2> QED
    BY <2>1, CacheAssumption DEF Told
<1>4. PanicsOnlyOnUnreadable'
  BY <1>1 DEF PanicsOnlyOnUnreadable, Sound
<1>5. RangesExact'
  BY <1>1, RangesExactKeeps DEF LookupInv
<1> QED
  BY <1>2, <1>3, <1>4, <1>5 DEF LookupInv

\* The range of the image that holds the address, as it is to be.
LEMMA InfoLemma ==
  ASSUME LookupInv, NEW addr \in Addr, NEW p \in images, Miss(p, addr), BuildId(p.file) \in Id
  PROVE  /\ p \in once /\ p.start \in Addr /\ p.start <= addr /\ addr + 1 <= p.end
         /\ addr \in Nat /\ addr + 1 \in 1 .. MaxAddr + 1 /\ p.end \in Nat
         /\ InfoOf(p) \in Info
<1>1. p \in once /\ TypeOK
  BY DEF LookupInv, TypeOK
<1>2. addr \in Nat /\ addr <= MaxAddr /\ MaxAddr \in Nat
  BY CacheAssumption DEF Addr
<1>3. p.start \in Nat /\ p.end \in Nat /\ p.start <= addr /\ addr < p.end
  BY <1>1, PlacementType DEF Miss, Contains
<1>4. p.file \in File /\ os \in {"linux", "macos"} /\ p.start \in Addr
  BY <1>1, PlacementType DEF Placement
<1>5. p.file.name \in Name
  BY <1>4, BuildIdLemma
<1> QED
  BY <1>1, <1>2, <1>3, <1>4, <1>5 DEF InfoOf, Info

LEMMA ExtendKeeps ==
  ASSUME LookupInv, NEW addr \in Addr, NEW p \in images, Extend(p, addr)
  PROVE  /\ LookupInv'
         /\ \E k \in DOMAIN module_ranges :
              module_ranges' = [module_ranges EXCEPT ![k] = Extended(module_ranges[k], addr)]
<1>1. TypeOK /\ RangesExact
  BY DEF LookupInv
<1> DEFINE k == First(Entries(p))
           r == Extended(module_ranges[k], addr)
<1>2. Entries(p) \subseteq Nat /\ Entries(p) # {}
  BY <1>1, RangeType DEF Entries, Extend
<1>3. k \in Entries(p)
  BY <1>2, FirstLemma
<1>4. k \in DOMAIN module_ranges /\ module_ranges[k].info = InfoOf(p) /\ module_ranges[k].start = p.start
  BY <1>3 DEF Entries
<1>5. /\ module_ranges' = [module_ranges EXCEPT ![k] = r] /\ Return(r, addr)
      /\ UNCHANGED loader
  BY DEF Extend
<1>6. /\ p \in once /\ p.start \in Addr /\ p.start <= addr /\ addr + 1 <= p.end
      /\ addr \in Nat /\ addr + 1 \in 1 .. MaxAddr + 1 /\ p.end \in Nat
      /\ InfoOf(p) \in Info /\ BuildId(p.file) \in Id
  BY InfoLemma DEF Extend
<1>7. module_ranges[k] \in ModuleRange /\ module_ranges[k].start \in Nat /\ module_ranges[k].end \in Nat
  BY <1>1, <1>4, RangeType
<1> HIDE DEF k
<1>8. module_ranges[k].end <= addr
  <2>1. ~Contains(module_ranges[k], addr)
    BY <1>4 DEF Extend, Miss, Known
  <2> QED
    BY <1>4, <1>6, <1>7, <2>1 DEF Contains
<1>9. r = [start |-> p.start, end |-> addr + 1, info |-> InfoOf(p)]
  BY <1>4, <1>6, <1>7, <1>8 DEF Extended, ModuleRange
<1>10. r \in ModuleRange /\ Of(r, p) /\ Contains(r, addr)
  BY <1>6, <1>9 DEF ModuleRange, Of, Contains, Addr
<1> HIDE DEF r
<1>11. /\ module_ranges' \in Seq(ModuleRange)
       /\ DOMAIN module_ranges' = DOMAIN module_ranges
       /\ module_ranges'[k] = r
       /\ \A j \in DOMAIN module_ranges \ {k} : module_ranges'[j] = module_ranges[j]
  BY <1>1, <1>4, <1>5, <1>10 DEF TypeOK
<1>12. RangesExact'
  <2> SUFFICES ASSUME NEW j \in DOMAIN module_ranges
               PROVE  \E q \in once : Of(module_ranges'[j], q)
    BY <1>5, <1>11, SameFile DEF RangesExact, Of, loader
  <2>1. CASE j = k
    BY <1>6, <1>10, <1>11, <2>1
  <2>2. CASE j # k
    BY <1>1, <1>11, <2>2 DEF RangesExact
  <2> QED
    BY <2>1, <2>2
<1>13. LookupInv'
  BY <1>1, <1>5, <1>6, <1>10, <1>11, <1>12, AnswerKeeps
<1> QED
  <2> USE DEF r
  <2> QED
    BY <1>4, <1>5, <1>13

LEMMA InsertKeeps ==
  ASSUME LookupInv, NEW addr \in Addr, NEW p \in images, Insert(p, addr)
  PROVE  LookupInv'
<1>1. TypeOK /\ RangesExact
  BY DEF LookupInv
<1> DEFINE r == NewRange(p, addr)
           n == Len(module_ranges)
<1>2. module_ranges' = Append(module_ranges, r) /\ Return(r, addr) /\ UNCHANGED loader
  BY DEF Insert
<1>3. /\ p \in once /\ p.start \in Addr /\ p.start <= addr /\ addr + 1 <= p.end
      /\ addr \in Nat /\ addr + 1 \in 1 .. MaxAddr + 1 /\ p.end \in Nat
      /\ InfoOf(p) \in Info /\ BuildId(p.file) \in Id
  BY InfoLemma DEF Insert
<1>4. r \in ModuleRange /\ Of(r, p) /\ Contains(r, addr)
  BY <1>3 DEF NewRange, ModuleRange, Of, Contains, Addr
<1> HIDE DEF r
<1>5. /\ module_ranges' \in Seq(ModuleRange) /\ n \in Nat
      /\ DOMAIN module_ranges = 1 .. n /\ DOMAIN module_ranges' = 1 .. n + 1
      /\ module_ranges'[n + 1] = r
      /\ \A j \in 1 .. n : module_ranges'[j] = module_ranges[j]
  BY <1>1, <1>2, <1>4 DEF TypeOK
<1> HIDE DEF n
<1>6. RangesExact'
  <2> SUFFICES ASSUME NEW j \in 1 .. n + 1
               PROVE  \E q \in once : Of(module_ranges'[j], q)
    BY <1>2, <1>5, SameFile DEF RangesExact, Of, loader
  <2>1. CASE j = n + 1
    BY <1>3, <1>4, <1>5, <2>1
  <2>2. CASE j \in 1 .. n
    BY <1>1, <1>5, <2>2 DEF RangesExact
  <2> QED
    BY <1>5, <2>1, <2>2
<1> QED
  BY <1>1, <1>2, <1>3, <1>4, <1>5, <1>6, AnswerKeeps

LEMMA LookupInit == Init => LookupInv
<1> SUFFICES ASSUME Init PROVE LookupInv
  OBVIOUS
<1>1. module_ranges \in Seq(ModuleRange)
  BY DEF Init
<1>2. TypeOK
  BY <1>1 DEF Init, TypeOK
<1> QED
  BY <1>2 DEF Init, LookupInv, RangesExact, AnswersExact, PanicsOnlyOnUnreadable

LEMMA LookupStep ==
  ASSUME LookupInv, [Next]_vars
  PROVE  LookupInv'
<1>1. TypeOK /\ images \subseteq Placement /\ panicked \in BOOLEAN
  BY DEF LookupInv, TypeOK
<1>2. ASSUME NEW p \in Placement, Load(p), ~panicked PROVE LookupInv'
  BY <1>1, <1>2, BecomeKeeps DEF Load
<1>3. ASSUME NEW p \in images, Unload(p), ~panicked PROVE LookupInv'
  BY <1>1, <1>3, BecomeKeeps DEF Unload
<1>4. ASSUME NEW p \in images, NEW f \in File, Replace(p, f), ~panicked PROVE LookupInv'
  <2>1. [p EXCEPT !.file = f] \in Placement
    BY <1>1 DEF Placement
  <2> QED
    BY <1>1, <1>4, <2>1, BecomeKeeps DEF Replace
<1>5. ASSUME NEW addr \in Addr, NoImage(addr), ~panicked PROVE LookupInv'
  BY <1>1, <1>5, NoneKeeps DEF NoImage, ReturnNone
<1>6. ASSUME NEW addr \in Addr, NEW p \in images, CannotRead(p, addr) PROVE LookupInv'
  <2>1. ~Sound(p.file)
    BY <1>1, <1>6, PlacementType, BuildIdLemma DEF CannotRead, TypeOK
  <2> QED
    BY <1>6, <2>1, NoneKeeps DEF CannotRead, Miss
<1>7. ASSUME NEW addr \in Addr, NEW p \in images, NoBuildId(p, addr), ~panicked PROVE LookupInv'
  <2>1. BuildId(p.file) = None
    BY <1>7 DEF NoBuildId
  <2>2. \A q \in images : Contains(q, addr) /\ (\A x \in once : Contains(x, addr) => x = q) => q = p
    BY <1>1, <1>7 DEF NoBuildId, Miss, TypeOK
  <2>3. /\ UNCHANGED <<loader, module_ranges>> /\ query' = addr /\ answer' = None
        /\ panicked' = FALSE
    BY <1>1, <1>7 DEF NoBuildId, ReturnNone
  <2> QED
    BY <2>1, <2>2, <2>3, NoneKeeps
<1>8. ASSUME UNCHANGED vars PROVE LookupInv'
  <2>1. /\ os' = os /\ once' = once /\ images' = images /\ module_ranges' = module_ranges
        /\ query' = query /\ answer' = answer /\ panicked' = panicked
    BY <1>8 DEF vars, loader
  <2>2. RangesExact'
    BY <2>1, RangesExactKeeps DEF LookupInv
  <2>3. AnswersExact'
    BY <2>1 DEF LookupInv, AnswersExact, Told, InfoOf, BuildId
  <2> QED
    BY <2>1, <2>2, <2>3 DEF LookupInv, TypeOK, Placement, File, PanicsOnlyOnUnreadable, Sound
<1> QED
  BY <1>2, <1>3, <1>4, <1>5, <1>6, <1>7, <1>8, HitKeeps, ExtendKeeps, InsertKeeps
  DEF Next, LinuxGetOrInsert, MacGetOrInsert, Lookup

-------------------------------------------------------------------------------
(* The properties, from the invariant: what the loop that reads a file      *)
(* finds is what the file carries.                                         *)

LEMMA WhatRangesSay == ASSUME LookupInv PROVE RangesWithinImages
<1> SUFFICES ASSUME NEW k \in DOMAIN module_ranges, NEW p \in once, Of(module_ranges[k], p)
             PROVE  /\ module_ranges[k].info.name = p.file.name
                    /\ module_ranges[k].info.build_id \in IdsOf(p.file)
  BY DEF LookupInv, RangesExact, RangesWithinImages, Of
<1>1. BuildId(p.file) \in IdsOf(p.file)
  BY PlacementType, BuildIdLemma DEF LookupInv, Of
<1> QED
  BY <1>1 DEF Of, InfoOf

LEMMA ToldIsRight ==
  ASSUME LookupInv, NEW p \in once, BuildId(p.file) # Bad, answer = Told(p, query),
         query # None, Contains(p, query)
  PROVE  Right(p, query)
<1>1. /\ BuildId(p.file) \in Id \cup {None}
      /\ BuildId(p.file) \in Id => BuildId(p.file) \in IdsOf(p.file)
      /\ BuildId(p.file) = None => IdsOf(p.file) = {}
  BY PlacementType, BuildIdLemma DEF LookupInv
<1>2. CASE BuildId(p.file) = None
  BY <1>1, <1>2 DEF Told, Right
<1>3. CASE BuildId(p.file) \in Id
  <2>1. answer = [info |-> InfoOf(p), rva |-> query - p.start] /\ IdsOf(p.file) # {}
    BY <1>1, <1>3, CacheAssumption DEF Told
  <2>2. answer # None
    <3>1. InfoOf(p) \in Info
      BY <1>3, PlacementType, BuildIdLemma DEF LookupInv, InfoOf, Info
    <3>2. query - p.start \in Addr
      <4>1. query \in Nat /\ query <= MaxAddr /\ MaxAddr \in Nat
        BY CacheAssumption DEF LookupInv, TypeOK, Addr
      <4>2. p.start \in Nat /\ p.start <= query
        BY PlacementType DEF LookupInv, Contains
      <4> QED
        BY <4>1, <4>2 DEF Addr
    <3> QED
      BY <2>1, <3>1, <3>2, CacheAssumption
  <2> QED
    BY <1>1, <1>3, <2>1, <2>2 DEF Right, InfoOf
<1> QED
  BY <1>1, <1>2, <1>3

LEMMA WhatAnswersSay == ASSUME LookupInv PROVE AnswersAgree /\ AnswersWereRight
<1>1. images \subseteq once
  BY DEF LookupInv, TypeOK
<1>2. AnswersAgree
  BY <1>1, ToldIsRight DEF LookupInv, AnswersExact, AnswersAgree
<1>3. AnswersWereRight
  <2> SUFFICES ASSUME answer # None PROVE \E p \in once : Contains(p, query) /\ Right(p, query)
    BY DEF AnswersWereRight
  <2>1. PICK p \in once : Contains(p, query) /\ BuildId(p.file) \in Id /\ answer = Told(p, query)
    BY DEF LookupInv, AnswersExact
  <2>2. query # None
    BY DEF LookupInv, AnswersExact
  <2> QED
    BY <2>1, <2>2, ToldIsRight, CacheAssumption
<1> QED
  BY <1>2, <1>3

-------------------------------------------------------------------------------
(* The theorems.                                                           *)

\* The invariant behind the answers of get_or_insert, on either system, for
\* any images, files, addresses and order of lookups.
THEOREM LookupCorrect == Spec => []LookupInv
<1> QED
  BY LookupInit, LookupStep, PTL DEF Spec

\* The state has the types that TypeOK says.
THEOREM CacheTypes == Spec => []TypeOK
<1>1. LookupInv => TypeOK
  BY DEF LookupInv
<1> QED
  BY <1>1, LookupCorrect, PTL

\* The guessed ranges lie in images that were once loaded there.
THEOREM RangesCorrect == Spec => []RangesWithinImages
<1>1. LookupInv => RangesWithinImages
  BY WhatRangesSay
<1> QED
  BY <1>1, LookupCorrect, PTL

\* The answers of get_or_insert are the loader's, for addresses that no other
\* image has held.
THEOREM AnswersCorrect == Spec => []AnswersAgree
<1>1. LookupInv => AnswersAgree
  BY WhatAnswersSay
<1> QED
  BY <1>1, LookupCorrect, PTL

\* An answer that is out of date was right once.
THEOREM AnswersWereCorrect == Spec => []AnswersWereRight
<1>1. LookupInv => AnswersWereRight
  BY WhatAnswersSay
<1> QED
  BY <1>1, LookupCorrect, PTL

\* Its assertions never fail: it panics only over a file it cannot read.
THEOREM PanicsCorrect == Spec => []PanicsOnlyOnUnreadable
<1>1. LookupInv => PanicsOnlyOnUnreadable
  BY DEF LookupInv
<1> QED
  BY <1>1, LookupCorrect, PTL

\* A range keeps its place, base and module, and never shrinks.
THEOREM RangesGrow == Spec => RangesOnlyGrow
<1> DEFINE Grows ==
      \A k \in DOMAIN module_ranges :
        /\ k \in DOMAIN module_ranges'
        /\ module_ranges'[k].start = module_ranges[k].start
        /\ module_ranges'[k].info = module_ranges[k].info
        /\ module_ranges'[k].end >= module_ranges[k].end
<1>1. ASSUME LookupInv, UNCHANGED module_ranges PROVE Grows
  BY <1>1, RangeType DEF LookupInv
<1>2. ASSUME LookupInv, NEW addr \in Addr, NEW p \in images, Extend(p, addr) PROVE Grows
  <2>1. PICK k \in DOMAIN module_ranges :
          module_ranges' = [module_ranges EXCEPT ![k] = Extended(module_ranges[k], addr)]
    BY <1>2, ExtendKeeps
  <2>2. \A j \in DOMAIN module_ranges : module_ranges[j] \in ModuleRange /\ module_ranges[j].end \in Nat
    BY <1>2, RangeType DEF LookupInv
  <2>3. addr + 1 \in Nat
    BY CacheAssumption DEF Addr
  <2>4. /\ Extended(module_ranges[k], addr).start = module_ranges[k].start
        /\ Extended(module_ranges[k], addr).info = module_ranges[k].info
        /\ Extended(module_ranges[k], addr).end >= module_ranges[k].end
    BY <2>2, <2>3 DEF Extended, ModuleRange
  <2> QED
    BY <2>1, <2>2, <2>4
<1>3. ASSUME LookupInv, NEW addr \in Addr, NEW p \in images, Insert(p, addr) PROVE Grows
  <2>1. module_ranges' = Append(module_ranges, NewRange(p, addr)) /\ module_ranges \in Seq(ModuleRange)
    BY <1>3 DEF Insert, LookupInv, TypeOK
  <2>2. \A k \in DOMAIN module_ranges : k \in DOMAIN module_ranges' /\ module_ranges'[k] = module_ranges[k]
    BY <2>1
  <2> QED
    BY <1>3, <2>2, RangeType DEF LookupInv
<1>4. LookupInv /\ [Next]_vars => [Grows]_vars
  <2> SUFFICES ASSUME LookupInv, [Next]_vars PROVE Grows
    OBVIOUS
  <2>1. CASE \E addr \in Addr, p \in images : Extend(p, addr) \/ Insert(p, addr)
    BY <1>2, <1>3, <2>1
  <2>2. CASE UNCHANGED module_ranges
    BY <1>1, <2>2
  <2> HIDE DEF Grows
  <2> QED
    BY <2>1, <2>2 DEF Next, vars, Load, Unload, Replace, Become, LinuxGetOrInsert,
       MacGetOrInsert, Lookup, Hit, NoImage, CannotRead, NoBuildId
<1> QED
  BY <1>4, LookupCorrect, PTL DEF Spec, RangesOnlyGrow

===============================================================================
