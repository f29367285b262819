------------------------------ MODULE Speedscope -------------------------------
(***************************************************************************)
(* The way of a profile from vignette's file to one that speedscope reads: *)
(* bin/resolve.rs names its frames, bin/speedscope.rs turns the samples    *)
(* round and speedscope.rs lays the file out.                              *)
(*                                                                         *)
(* What symbol files say of an offset is a function of module and offset   *)
(* here (Resolver has more of it); names of profiles and units are left    *)
(* out.                                                                    *)
(***************************************************************************)
EXTENDS Naturals, FiniteSets, SequencesExt

\* resolve_frame: the module is looked up by its index.
ResolveFrame(frame, modules) ==
  [info |-> modules[frame.module_index + 1], rva |-> frame.relative_ip]

\* The resolved profile has the threads of the unresolved one, and its
\* frames each in its place.
ResolvedProfile(profile) ==
  [threads |-> profile.threads,
   frames |-> [k \in DOMAIN profile.frames |-> ResolveFrame(profile.frames[k], profile.modules)]]

-------------------------------------------------------------------------------

Stack_NotReversed(sample) == sample

\* A sample starts with the innermost frame, speedscope with the outermost.
Stack(sample) == Reverse(sample)

\* The samples by thread, collected into a hash map: of two entries with one
\* thread_id the later would win.
SpeedSamples(threads) ==
  [id \in {threads[i].thread_id : i \in DOMAIN threads} |->
     LET last == SelectLastInSeq(threads, LAMBDA thread : thread.thread_id = id)
     IN [j \in DOMAIN threads[last].samples |-> Stack(threads[last].samples[j])]]

\* One profile per thread, each sample with the weight 1; endValue is the
\* number of threads.
SpeedscopeFile(samples, frames) ==
  [profiles |-> [id \in DOMAIN samples |->
                   [samples |-> samples[id],
                    weights |-> [j \in DOMAIN samples[id] |-> 1],
                    end_value |-> Cardinality(DOMAIN samples)]],
   frames |-> frames]

\* Both programs, one after the other.
Export(profile) ==
  LET resolved == ResolvedProfile(profile)
  IN SpeedscopeFile(SpeedSamples(resolved.threads), resolved.frames)

===============================================================================
