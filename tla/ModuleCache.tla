------------------------------ MODULE ModuleCache ------------------------------
(***************************************************************************)
(* ModuleCache::get_or_insert (vignette/src/module_cache/linux.rs and      *)
(* mac.rs): which module an instruction pointer belongs to, and where in   *)
(* it.  dladdr knows where a module begins but not where it ends, so the   *)
(* cache keeps, for every module it has met, the range from its base to    *)
(* the highest address seen, and extends it.  The build ID is read from    *)
(* the file that dladdr names, when an address is not in the cache.        *)
(*                                                                         *)
(* The dynamic loader and the file system are external: images may be      *)
(* loaded and unloaded, and their files replaced, between two lookups.     *)
(***************************************************************************)
EXTENDS Naturals, Sequences, FiniteSets

CONSTANTS
  Name, Id,           \* file names and build IDs
  ElfFile, MachFile,  \* the files images may be loaded from
  MaxAddr,            \* bound on the address space
  MaxPlacements,      \* bound on the places and files images have had
  None, Bad           \* Option::None; what does not parse, Result::Err

Addr == 0 .. MaxAddr
Info == [name : Name, build_id : Id]  \* ModuleInfo

Note == [name : {"GNU", "other"}, n_type : {"NT_GNU_BUILD_ID", "other"}, desc : Id]

\* The images of a universal binary, or the only one of a plain binary.
Slice == [cputype : {"CPU_TYPE_X86_64", "other"}, parses : BOOLEAN, uuid : Id \cup {None}]

\* None: dli_fname cannot be opened, mapped or parsed, or has no note segment.
Contents == Seq(Note \cup {Bad}) \cup Seq(Slice \cup {Bad}) \cup {None}

ASSUME CacheAssumption ==
  /\ None \notin Id /\ Bad \notin Id /\ Bad # None
  /\ None \notin Addr /\ None \notin [info : Info, rva : Addr]
  /\ Bad \notin Note /\ Bad \notin Slice
  /\ None \notin Seq(Note \cup {Bad}) /\ None \notin Seq(Slice \cup {Bad})
  /\ MaxAddr \in Nat
  /\ ElfFile \subseteq [name : Name, contents : Seq(Note \cup {Bad}) \cup {None}]
  /\ MachFile \subseteq [name : Name, contents : Seq(Slice \cup {Bad}) \cup {None}]
  \* The x86_64 slices of a binary are linked alike: all have a UUID or none.
  /\ \A f \in MachFile : f.contents # None =>
       \A j, k \in DOMAIN f.contents :
         /\ f.contents[j] # Bad /\ f.contents[j].cputype = "CPU_TYPE_X86_64"
         /\ f.contents[k] # Bad /\ f.contents[k].cputype = "CPU_TYPE_X86_64"
         => (f.contents[j].uuid = None <=> f.contents[k].uuid = None)

VARIABLES
  os,            \* "linux" or "macos": which of the two files is compiled
  images,        \* what is loaded: where, and the file now at its path
  once,          \* history: all that images ever contained
  module_ranges, \* the cache
  query,         \* the argument of the last get_or_insert
  answer,        \* its result
  panicked       \* an expect(), unwrap() or assert!() in it has failed

loader == <<os, images, once>>
vars == <<loader, module_ranges, query, answer, panicked>>

File == IF os = "linux" THEN ElfFile ELSE MachFile
Placement == [start : Addr, end : 1 .. MaxAddr + 1, file : File]
ModuleRange == [start : Addr, end : 1 .. MaxAddr + 1, info : Info]

\* Of a range, and of an image.
Contains(r, addr) == r.start <= addr /\ addr < r.end

TypeOK ==
  /\ os \in {"linux", "macos"}
  /\ images \subseteq once /\ once \subseteq Placement
  /\ module_ranges \in Seq(ModuleRange)
  /\ query \in Addr \cup {None}
  /\ answer \in [info : Info, rva : Addr] \cup {None}
  /\ panicked \in BOOLEAN

Init ==
  /\ os \in {"linux", "macos"}
  /\ images = {} /\ once = {}
  /\ module_ranges = <<>>
  /\ query = None /\ answer = None
  /\ panicked = FALSE

-------------------------------------------------------------------------------
(* The dynamic loader and the files.                                       *)

Become(i) ==
  /\ images' = i /\ once' = once \cup i
  /\ Cardinality(once') <= MaxPlacements
  /\ query' = None /\ answer' = None
  /\ UNCHANGED <<os, module_ranges, panicked>>

\* At program start, or by dlopen.
Load(p) ==
  /\ p.start < p.end
  /\ \A q \in images : p.end <= q.start \/ q.end <= p.start
  /\ Become(images \cup {p})

Unload(p) == p \in images /\ Become(images \ {p})

\* An upgrade puts another file of the same name where p was loaded from.
Replace(p, f) ==
  /\ p \in images
  /\ f.name = p.file.name
  /\ Become((images \ {p}) \cup {[p EXCEPT !.file = f]})

-------------------------------------------------------------------------------
(* The build ID of a file.                                                 *)

First(S) == CHOOSE k \in S : \A j \in S : k <= j

IsBuildId_AnyName(note) == note.n_type = "NT_GNU_BUILD_ID"

IsBuildId(note) == note.name = "GNU" /\ note.n_type = "NT_GNU_BUILD_ID"

\* The loop over the notes ends at the first that counts, or panics before.
ElfBuildId(notes) ==
  LET ends == {k \in DOMAIN notes : notes[k] = Bad \/ IsBuildId(notes[k])}
      note == notes[First(ends)]
  IN IF ends = {} THEN None ELSE IF note = Bad THEN Bad ELSE note.desc

\* The first image for the CPU, which must be there and parse; a slice of a
\* universal binary whose header does not parse is passed over.
MachBuildId(slices) ==
  LET fits == {k \in DOMAIN slices :
                 slices[k] # Bad /\ slices[k].cputype = "CPU_TYPE_X86_64"}
      macho == slices[First(fits)]
  IN IF fits = {} \/ ~macho.parses THEN Bad ELSE macho.uuid

BuildId(f) ==
  CASE f.contents = None -> Bad
    [] f.contents # None /\ os = "linux" -> ElfBuildId(f.contents)
    [] f.contents # None /\ os # "linux" -> MachBuildId(f.contents)

-------------------------------------------------------------------------------
(* get_or_insert(addr), branch by branch.                                  *)

Known(addr) == {k \in DOMAIN module_ranges : Contains(module_ranges[k], addr)}

\* find_existing: the first range that contains addr.
FindExisting(addr) == First(Known(addr))

\* relative_addr and return: its assertion fails if r does not contain addr.
Return(r, addr) ==
  /\ query' = addr
  /\ panicked' = ~Contains(r, addr)
  /\ answer' = IF Contains(r, addr) THEN [info |-> r.info, rva |-> addr - r.start]
                                    ELSE None

ReturnNone(addr) == query' = addr /\ answer' = None /\ UNCHANGED panicked

Hit(addr) ==
  /\ Known(addr) # {}
  /\ Return(module_ranges[FindExisting(addr)], addr)
  /\ UNCHANGED <<loader, module_ranges>>

\* dladdr returns 0.
NoImage(addr) ==
  /\ Known(addr) = {}
  /\ \A p \in images : ~Contains(p, addr)
  /\ ReturnNone(addr)
  /\ UNCHANGED <<loader, module_ranges>>

\* dladdr finds image p for an address the cache does not know.
Miss(p, addr) == Known(addr) = {} /\ p \in images /\ Contains(p, addr)

CannotRead(p, addr) ==
  /\ Miss(p, addr)
  /\ BuildId(p.file) = Bad
  /\ query' = addr /\ answer' = None /\ panicked' = TRUE
  /\ UNCHANGED <<loader, module_ranges>>

NoBuildId(p, addr) ==
  /\ Miss(p, addr)
  /\ BuildId(p.file) = None
  /\ ReturnNone(addr)
  /\ UNCHANGED <<loader, module_ranges>>

InfoOf(p) == [name |-> p.file.name, build_id |-> BuildId(p.file)]

\* The ranges with the name, build ID and base of image p.
Entries(p) ==
  {k \in DOMAIN module_ranges :
     module_ranges[k].info = InfoOf(p) /\ module_ranges[k].start = p.start}

Extended_Moved(r, addr) == [r EXCEPT !.start = addr, !.end = addr + 1]

Extended_OneTooFar(r, addr) == [r EXCEPT !.end = addr + 2]

\* start..(addr + 1).max(end)
Extended(r, addr) == [r EXCEPT !.end = IF addr + 1 > @ THEN addr + 1 ELSE @]

Extend(p, addr) ==
  /\ Miss(p, addr)
  /\ BuildId(p.file) \in Id
  /\ Entries(p) # {}
  /\ LET k == First(Entries(p))
         r == Extended(module_ranges[k], addr)
     IN module_ranges' = [module_ranges EXCEPT ![k] = r] /\ Return(r, addr)
  /\ UNCHANGED loader

NewRange_FromAddr(p, addr) == [start |-> addr, end |-> addr + 1, info |-> InfoOf(p)]

NewRange_Exclusive(p, addr) == [start |-> p.start, end |-> addr, info |-> InfoOf(p)]

\* base..addr + 1
NewRange(p, addr) == [start |-> p.start, end |-> addr + 1, info |-> InfoOf(p)]

Insert(p, addr) ==
  /\ Miss(p, addr)
  /\ BuildId(p.file) \in Id
  /\ Entries(p) = {}
  /\ module_ranges' = Append(module_ranges, NewRange(p, addr))
  /\ Return(NewRange(p, addr), addr)
  /\ UNCHANGED loader

Lookup(addr) ==
  \/ Hit(addr)
  \/ NoImage(addr)
  \/ \E p \in images : CannotRead(p, addr) \/ NoBuildId(p, addr) \/ Extend(p, addr) \/ Insert(p, addr)

LinuxGetOrInsert(addr) == os = "linux" /\ Lookup(addr)
MacGetOrInsert(addr) == os = "macos" /\ Lookup(addr)

-------------------------------------------------------------------------------

Next ==
  /\ ~panicked
  /\ \/ \E p \in Placement : Load(p)
     \/ \E p \in images : Unload(p) \/ \E f \in File : Replace(p, f)
     \/ \E addr \in Addr : LinuxGetOrInsert(addr) \/ MacGetOrInsert(addr)

Spec == Init /\ [][Next]_vars

-------------------------------------------------------------------------------
(* Properties                                                              *)

\* The build IDs that file f carries: those of its GNU build-ID notes, or of
\* its slices for this CPU.
IdsOf(f) ==
  IF f.contents = None THEN {} ELSE
    {id \in Id : \E k \in DOMAIN f.contents : f.contents[k] \in
       {[name |-> "GNU", n_type |-> "NT_GNU_BUILD_ID", desc |-> id],
        [cputype |-> "CPU_TYPE_X86_64", parses |-> TRUE, uuid |-> id]}}

\* Nothing in f stops a reader that wants its build ID.
Sound(f) ==
  /\ f.contents # None
  /\ \A k \in DOMAIN f.contents : f.contents[k] # Bad
  /\ os = "macos" =>
       /\ \E k \in DOMAIN f.contents : f.contents[k].cputype = "CPU_TYPE_X86_64"
       /\ \A k \in DOMAIN f.contents : f.contents[k].parses

\* Every range lies in one image that was once loaded, begins where that
\* began and carries its file's name and a build ID of the file, although its
\* end was guessed from the addresses that happened to be sampled, and other
\* images came and went since.
RangesWithinImages ==
  \A k \in DOMAIN module_ranges : \E p \in once :
    LET r == module_ranges[k] IN
    /\ r.start = p.start /\ r.end <= p.end
    /\ r.info.name = p.file.name /\ r.info.build_id \in IdsOf(p.file)

\* What is said of address addr by an answer that is about image p.
Right(p, addr) ==
  IF IdsOf(p.file) = {} THEN answer = None
  ELSE /\ answer # None
       /\ answer.info.name = p.file.name /\ answer.info.build_id \in IdsOf(p.file)
       /\ answer.rva = addr - p.start

\* An address that has only ever been in the image it is in now, loaded from
\* the file that is there still, gets that image's module and its offset
\* from the base, in whatever order addresses are asked for and whatever was
\* loaded, unloaded or replaced elsewhere.
AnswersAgree ==
  query # None /\ ~panicked =>
    \A p \in images :
      Contains(p, query) /\ (\A q \in once : Contains(q, query) => q = p) => Right(p, query)

\* Any answer, even one that is out of date, was right once: it names a file
\* that was loaded where the address is.
AnswersWereRight ==
  answer # None => \E p \in once : Contains(p, query) /\ Right(p, query)

\* The assertions of get_or_insert hold; it panics only over an image whose
\* file cannot be read.
PanicsOnlyOnUnreadable ==
  panicked => \E p \in images : Contains(p, query) /\ ~Sound(p.file)

\* What the cache has answered once it answers again: ranges keep their
\* place, base and module, and never shrink.
RangesOnlyGrow ==
  [][\A k \in DOMAIN module_ranges :
       /\ k \in DOMAIN module_ranges'
       /\ module_ranges'[k].start = module_ranges[k].start
       /\ module_ranges'[k].info = module_ranges[k].info
       /\ module_ranges'[k].end >= module_ranges[k].end]_vars

===============================================================================
