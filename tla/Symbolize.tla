------------------------------- MODULE Symbolize -------------------------------
(***************************************************************************)
(* The symbol files between their writers and their reader: any number of  *)
(* runs of generate_symbols (vignette/src/bin/generate_symbols.rs), which  *)
(* may be stopped at any point, while resolve reads.                       *)
(*                                                                         *)
(* The file system is external: opening with truncation and a whole write  *)
(* exclude each other and other writes to the file, but a reader may see   *)
(* any part of a write.  The resolver's own steps are those of Resolver.   *)
(***************************************************************************)
EXTENDS Naturals, Sequences

CONSTANTS
  Module, Rva, Version, None, Unknown, MaxFrames,  \* as in Resolver
  Size,       \* Size[v]: the blocks of a complete symbol file of version v
  Generator   \* the processes that may run generate_symbols at the same time

ASSUME SymbolizeAssumption ==
  /\ Size \in [Version -> Nat \ {0}]
  /\ Rva \subseteq Nat \ {0}
  /\ None \notin [module : Module, contents : Seq(Version)]
  /\ None \notin Module /\ None \notin Seq(Version)
  /\ None \notin [module : Module, version : Version]
  /\ MaxFrames \in Nat

VARIABLES
  frames, pos, module_to_cache, resolved_frames, panicked,  \* as in Resolver
  files,        \* files[m]: the file {root}/{name}/{build_id}/{name}.sym
  job,          \* job[g]: the file g has open, with what it is to write
  written,      \* written[g]: how much of that it has written
  reading,      \* the module whose file the resolver has open
  contents,     \* what it has read of it
  spoilt,       \* history: files with an unfinished, or more than one, writer
                \* since they were last opened by one that was alone
  undisturbed,  \* history: the file read was finished and still is
  sure          \* history: the modules loaded from such files

R == INSTANCE Resolver

resolver == <<frames, pos, module_to_cache, resolved_frames, panicked>>
reader == <<reading, contents>>
store == <<files, job, written>>
history == <<spoilt, undisturbed, sure>>
vars == <<resolver, reader, store, history>>

Job == [module : Module, version : Version]

Full(v) == [k \in 1 .. Size[v] |-> v]
Whole(c) == \E v \in Version : c = Full(v)

TypeOK ==
  /\ R!TypeOK
  /\ files \in [Module -> Seq(Version) \cup {None}]
  /\ job \in [Generator -> Job \cup {None}]
  /\ written \in [Generator -> Nat]
  /\ reading \in Module \cup {None}
  /\ contents \in Seq(Version)
  /\ spoilt \subseteq Module /\ sure \subseteq Module
  /\ undisturbed \in BOOLEAN

Init ==
  /\ R!Init
  /\ files \in [Module -> {Full(v) : v \in Version} \cup {None}]
  /\ job = [g \in Generator |-> None]
  /\ written = [g \in Generator |-> 0]
  /\ reading = None /\ contents = <<>>
  /\ spoilt = {} /\ undisturbed = FALSE /\ sure = {}

-------------------------------------------------------------------------------
(* generate_symbols.  dump_syms failing, and a header that is not as       *)
(* expected, end the program before it has touched a file.                 *)

Writes(g, m) == job[g] # None /\ job[g].module = m
Writers(m) == {g \in Generator : Writes(g, m)}

\* The kernel is in the middle of g's write.
Writing(g) == job[g] # None /\ written[g] > 0 /\ written[g] < Size[job[g].version]

Truncated_Not(f) == IF f = None THEN <<>> ELSE f

\* create(true), truncate(true)
Truncated(f) == <<>>

Create(g, m, v) ==
  /\ job[g] = None
  /\ \A h \in Writers(m) : ~Writing(h)
  /\ files' = [files EXCEPT ![m] = Truncated(@)]
  /\ job' = [job EXCEPT ![g] = [module |-> m, version |-> v]]
  /\ spoilt' = IF Writers(m) = {} THEN spoilt \ {m} ELSE spoilt \cup {m}
  /\ undisturbed' = (undisturbed /\ reading # m)
  /\ UNCHANGED <<resolver, reader, written, sure>>

\* f with v for its block k, over what it has there or at its end.
Put(f, k, v) ==
  [j \in 1 .. (IF k > Len(f) THEN k ELSE Len(f)) |-> IF j = k THEN v ELSE f[j]]

\* The next block of the one write.
Write(g) ==
  /\ job[g] # None
  /\ LET m == job[g].module
         v == job[g].version
         k == written[g] + 1
     IN /\ k <= Size[v]
        /\ \A h \in Writers(m) \ {g} : ~Writing(h)
        /\ files' = [files EXCEPT ![m] = Put(@, k, v)]
        /\ written' = [written EXCEPT ![g] = k]
  /\ UNCHANGED <<resolver, reader, job, history>>

\* The end of main: everything is written.
Close(g) ==
  /\ job[g] # None /\ written[g] = Size[job[g].version]
  /\ job' = [job EXCEPT ![g] = None]
  /\ written' = [written EXCEPT ![g] = 0]
  /\ UNCHANGED <<resolver, reader, files, history>>

\* A signal, or a write that fails or is short: its result is not looked
\* at, and main ends in the same way.
StopEarly(g) ==
  /\ job[g] # None /\ written[g] < Size[job[g].version]
  /\ job' = [job EXCEPT ![g] = None]
  /\ written' = [written EXCEPT ![g] = 0]
  /\ spoilt' = spoilt \cup {job[g].module}
  /\ UNCHANGED <<resolver, reader, files, undisturbed, sure>>

-------------------------------------------------------------------------------
(* get_or_create_cache, for the next frame f.                              *)

UseCache(f) == R!UseCache(f) /\ UNCHANGED <<reader, store, history>>

OpenFails(f) ==
  /\ files[f.module] = None
  /\ R!OpenFails(f)
  /\ UNCHANGED <<reader, store, history>>

Open(f) ==
  /\ R!NextFrame(f) /\ ~R!HasEntry(f.module)
  /\ reading = None /\ files[f.module] # None
  /\ reading' = f.module
  /\ contents' = <<>>
  /\ undisturbed' = (f.module \notin spoilt /\ Writers(f.module) = {})
  /\ UNCHANGED <<resolver, store, spoilt, sure>>

AtEnd_OneRead == Len(contents) >= Len(files[reading]) \/ Len(contents) = 1

\* read_to_end goes on until a read returns nothing.
AtEnd == Len(contents) >= Len(files[reading])

Read ==
  /\ reading # None /\ ~panicked /\ ~AtEnd
  /\ contents' = Append(contents, files[reading][Len(contents) + 1])
  /\ UNCHANGED <<resolver, reading, store, history>>

\* An empty file is no object file; one that is cut short, or a mixture,
\* may or may not make sense.
ParseFails(f) ==
  /\ reading = f.module /\ AtEnd
  /\ ~Whole(contents)
  /\ R!ParseFails(f)
  /\ UNCHANGED <<reader, store, history>>

Load(f) ==
  /\ reading = f.module /\ AtEnd
  /\ contents # <<>>
  /\ R!Load(f, contents)
  /\ reading' = None /\ contents' = <<>>
  /\ sure' = IF undisturbed THEN sure \cup {f.module} ELSE sure
  /\ undisturbed' = FALSE
  /\ UNCHANGED <<store, spoilt>>

-------------------------------------------------------------------------------

Resolve ==
  \/ \E f \in R!Frame : UseCache(f) \/ OpenFails(f) \/ Open(f) \/ ParseFails(f) \/ Load(f)
  \/ Read

Generate(g) ==
  \/ \E m \in Module, v \in Version : Create(g, m, v)
  \/ Write(g) \/ Close(g) \/ StopEarly(g)

Next == Resolve \/ \E g \in Generator : Generate(g)

Spec == Init /\ [][Next]_vars

-------------------------------------------------------------------------------
(* Properties                                                              *)

\* As in Resolver, of which every step of this module is a step or none.
FramesStayInPlace == R!FramesStayInPlace
OneReadingPerModule == R!OneReadingPerModule

\* A file that was last opened by a single generator, which was not stopped,
\* is one version of the symbols and nothing else, whatever was there before:
\* no tail of a longer one, no mixture.
FinishedFilesAreWhole ==
  \A m \in Module \ spoilt : Writers(m) = {} => files[m] = None \/ Whole(files[m])

\* The resolver panics only over a file that a generator was in the middle
\* of, or had left unfinished; and what it loads from any other file is all
\* there, so that a frame that has a function is not called unknown.
CleanReadsAreWhole ==
  /\ panicked => ~undisturbed
  /\ \A m \in sure : module_to_cache[m] # None /\ Whole(module_to_cache[m].contents)

===============================================================================
