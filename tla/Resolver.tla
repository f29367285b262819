-------------------------------- MODULE Resolver --------------------------------
(***************************************************************************)
(* The resolve program (vignette/src/bin/resolve.rs), whatever it finds    *)
(* under the symbol root: every frame of a profile, a module with an       *)
(* offset, is given the name of a function, from symbol files that are     *)
(* loaded once per module.  Symbolize adds the files and their writers.    *)
(***************************************************************************)
EXTENDS Naturals, Sequences

CONSTANTS
  Module,    \* output::Module: a name with a build ID
  Rva,       \* offsets in a module
  Version,   \* the complete symbol files a module may have, one after another
  None,      \* no entry in the cache
  Unknown,   \* the resolved frame ("unknown", "unknown", 0)
  MaxFrames  \* bound: frames of the profile

Frame == [module : Module, rva : Rva]

\* What was read of a symbol file is a sequence of blocks, each of some
\* version of the file; block k names the functions at offset k.
SymCache == [module : Module, contents : Seq(Version)]
ResolvedFrame == [symbols : SymCache, rva : Rva]

VARIABLES
  frames,           \* the frames of the profile
  pos,              \* how many of them have been dealt with
  module_to_cache,  \* the symbols loaded
  resolved_frames,  \* the frames of the resolved profile, so far
  panicked          \* an expect() has failed

vars == <<frames, pos, module_to_cache, resolved_frames, panicked>>

TypeOK ==
  /\ frames \in Seq(Frame)
  /\ pos \in 0 .. Len(frames)
  /\ module_to_cache \in [Module -> SymCache \cup {None}]
  /\ resolved_frames \in Seq(ResolvedFrame \cup {Unknown})
  /\ panicked \in BOOLEAN

Init ==
  /\ frames \in UNION {[1 .. n -> Frame] : n \in 0 .. MaxFrames}
  /\ pos = 0
  /\ module_to_cache = [m \in Module |-> None]
  /\ resolved_frames = <<>>
  /\ panicked = FALSE

-------------------------------------------------------------------------------
(* resolve_frame, for the next frame f.                                    *)

NextFrame(f) == ~panicked /\ pos < Len(frames) /\ f = frames[pos + 1]

HasEntry_Never(m) == FALSE

\* contains_key: the key is the name with the build ID.
HasEntry(m) == module_to_cache[m] # None

\* lookup(relative_ip) in the symbols, and unwrap_or_else.
Lookup(symbols, rva) ==
  IF rva \in DOMAIN symbols.contents THEN [symbols |-> symbols, rva |-> rva] ELSE Unknown

Push(x) ==
  /\ resolved_frames' = Append(resolved_frames, x)
  /\ pos' = pos + 1
  /\ UNCHANGED <<frames, panicked>>

UseCache(f) ==
  /\ NextFrame(f) /\ HasEntry(f.module)
  /\ Push(Lookup(module_to_cache[f.module], f.rva))
  /\ UNCHANGED module_to_cache

OpenFails_SkipsFrame(f) ==
  /\ NextFrame(f) /\ ~HasEntry(f.module)
  /\ pos' = pos + 1
  /\ UNCHANGED <<frames, module_to_cache, resolved_frames, panicked>>

\* The file is not there: &None is returned and the frame is unknown.  No
\* entry is made, so the next frame of the module looks for the file again.
OpenFails(f) ==
  /\ NextFrame(f) /\ ~HasEntry(f.module)
  /\ Push(Unknown)
  /\ UNCHANGED module_to_cache

\* expect("valid fatobject") and those after it.
ParseFails(f) ==
  /\ NextFrame(f) /\ ~HasEntry(f.module)
  /\ panicked' = TRUE
  /\ UNCHANGED <<frames, pos, module_to_cache, resolved_frames>>

\* c was read and makes sense.
Load(f, c) ==
  LET symbols == [module |-> f.module, contents |-> c] IN
  /\ NextFrame(f) /\ ~HasEntry(f.module)
  /\ module_to_cache' = [module_to_cache EXCEPT ![f.module] = symbols]
  /\ Push(Lookup(symbols, f.rva))

-------------------------------------------------------------------------------

Next ==
  \E f \in Frame :
    UseCache(f) \/ OpenFails(f) \/ ParseFails(f) \/ \E c \in Seq(Version) : Load(f, c)

Spec == Init /\ [][Next]_vars

-------------------------------------------------------------------------------
(* Properties                                                              *)

\* Samples refer to frames by index, and the resolved profile keeps them:
\* each resolved frame stands where the frame it was made from stood, and
\* has the symbols of that frame's module or is unknown.
FramesStayInPlace ==
  ~panicked =>
    /\ Len(resolved_frames) = pos
    /\ \A k \in DOMAIN resolved_frames : resolved_frames[k] # Unknown =>
         /\ resolved_frames[k].symbols.module = frames[k].module
         /\ resolved_frames[k].rva = frames[k].rva

\* All the frames of a module that are known were looked up in one reading
\* of its symbol file, even if the file was replaced meanwhile.
OneReadingPerModule ==
  \A j, k \in DOMAIN resolved_frames :
    /\ resolved_frames[j] # Unknown /\ resolved_frames[k] # Unknown
    /\ resolved_frames[j].symbols.module = resolved_frames[k].symbols.module
    => resolved_frames[j].symbols = resolved_frames[k].symbols

===============================================================================
