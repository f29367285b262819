-------------------------------- MODULE Outputter ------------------------------
(***************************************************************************)
(* Outputter::output (vignette/src/output.rs): in-memory profiles become   *)
(* serializable ones, in which a sample is a list of indices into a list   *)
(* of frames, and a frame has an index into a list of modules.  Both lists *)
(* belong to the Outputter and go on growing from one profile to the next. *)
(*                                                                         *)
(* What ModuleCache::get_or_insert finds for an instruction pointer is the *)
(* input here: a module with an offset, or None.                           *)
(***************************************************************************)
EXTENDS VecHashMap, SequencesExt

CONSTANTS
  ThreadId,    \* kernel thread ids
  ModuleInfo,  \* the modules ModuleCache knows
  Rva,         \* offsets in a module
  None,        \* Option::None
  U32,         \* 2^32: module_index is stored `as u32`
  MaxSamples,  \* bound: samples of one thread
  MaxFrames,   \* bound: frames of one profile
  MaxOutputs   \* bound: profiles written

Found == [info : ModuleInfo, rva : Rva]

ASSUME OutputterAssumption ==
  /\ None \notin Found
  /\ U32 \in Nat \ {0}
  /\ {MaxSamples, MaxFrames, MaxOutputs} \subseteq Nat

VARIABLES
  module_index,  \* VecHashMap of modules
  frames_index,  \* VecHashMap of frames
  active,        \* output() is running
  input,         \* the part of its argument dealt with so far
  threads,       \* what it has made of it
  returned,      \* the last profile returned, with its input
  count          \* profiles returned so far

vars == <<module_index, frames_index, active, input, threads, returned, count>>

Frame(info, rva) == [module_index |-> IndexOf(module_index', info) % U32, relative_ip |-> rva]

\* s with x appended to the last list of its last thread, or to that thread.
WithFrame(s, x) ==
  [s EXCEPT ![Len(s)].samples[Len(s[Len(s)].samples)] = Append(@, x)]
WithSample(s) == [s EXCEPT ![Len(s)].samples = Append(@, <<>>)]
WithThread(s, t) == Append(s, [thread_id |-> t, samples |-> <<>>])

\* The profile returned: copies of both lists as they are now.
Profile == [threads |-> threads, modules |-> module_index.vec, frames |-> frames_index.vec]

Nothing == [input |-> <<>>, profile |-> [threads |-> <<>>, modules |-> <<>>, frames |-> <<>>]]

Init ==
  /\ module_index = EmptyTable
  /\ frames_index = EmptyTable
  /\ active = FALSE
  /\ input = <<>> /\ threads = <<>>
  /\ returned = Nothing
  /\ count = 0

-------------------------------------------------------------------------------

Begin ==
  /\ ~active /\ count < MaxOutputs
  /\ active' = TRUE
  /\ input' = <<>> /\ threads' = <<>>
  /\ returned' = Nothing
  /\ UNCHANGED <<module_index, frames_index, count>>

\* The next entry of profile.threads, a hash map: any order, no id twice.
NextThread(t) ==
  /\ active
  /\ \A k \in DOMAIN input : input[k].thread_id # t
  /\ input' = WithThread(input, t)
  /\ threads' = WithThread(threads, t)
  /\ UNCHANGED <<module_index, frames_index, active, returned, count>>

NextSample ==
  /\ active /\ input # <<>>
  /\ Len(Last(input).samples) < MaxSamples
  /\ input' = WithSample(input)
  /\ threads' = WithSample(threads)
  /\ UNCHANGED <<module_index, frames_index, active, returned, count>>

\* The frames of the profile so far, over all samples.
FrameCount ==
  FoldSeq(LAMBDA thread, n : n + FoldSeq(LAMBDA sample, k : k + Len(sample), 0, thread.samples),
          0, input)

AtFrame == active /\ input # <<>> /\ Last(input).samples # <<>> /\ FrameCount < MaxFrames

\* output_frame and the rest of the loop in output_sample, for an
\* instruction pointer that belongs to a module.
OutputFrame(found) ==
  /\ AtFrame
  /\ module_index' = Insert(module_index, found.info)
  /\ LET frame == Frame(found.info, found.rva)
     IN /\ frames_index' = Insert(frames_index, frame)
        /\ threads' = WithFrame(threads, IndexOf(frames_index', frame))
  /\ input' = WithFrame(input, found)
  /\ UNCHANGED <<active, returned, count>>

SkipFrame_Keeps ==
  /\ AtFrame
  /\ input' = WithFrame(input, None)
  /\ threads' = WithFrame(threads, 0)
  /\ UNCHANGED <<module_index, frames_index, active, returned, count>>

\* An instruction pointer of no module is left out of the sample.
SkipFrame ==
  /\ AtFrame
  /\ input' = WithFrame(input, None)
  /\ UNCHANGED <<module_index, frames_index, active, threads, returned, count>>

Return ==
  /\ active
  /\ active' = FALSE
  /\ returned' = [input |-> input, profile |-> Profile]
  /\ count' = count + 1
  /\ input' = <<>> /\ threads' = <<>>
  /\ UNCHANGED <<module_index, frames_index>>

Next ==
  \/ Begin \/ NextSample \/ SkipFrame \/ Return
  \/ \E t \in ThreadId : NextThread(t)
  \/ \E found \in Found : OutputFrame(found)

Spec == Init /\ [][Next]_vars

-------------------------------------------------------------------------------
(* Properties                                                              *)

\* What a reader of the profile alone makes of a sample: index by index, as
\* resolve_frame in bin/resolve.rs does.
Decoded(profile, sample) ==
  [k \in DOMAIN sample |->
     LET frame == ItemAt([vec |-> profile.frames], sample[k])
     IN [info |-> ItemAt([vec |-> profile.modules], frame.module_index), rva |-> frame.relative_ip]]

\* The instruction pointers of a sample that have a module, in their order.
Recognized(sample) ==
  LET kept[n \in 0 .. Len(sample)] ==
        IF n = 0 THEN <<>>
        ELSE IF sample[n] = None THEN kept[n - 1] ELSE Append(kept[n - 1], sample[n])
  IN kept[Len(sample)]

\* A reader meets no index past the end of a list.
InRange(profile, sample) ==
  \A k \in DOMAIN sample :
    /\ sample[k] < Len(profile.frames)
    /\ profile.frames[sample[k] + 1].module_index < Len(profile.modules)

\* Every profile means what went into it: each sample decodes to the frames
\* that have a module, in their order, under the right thread, although the
\* two lists also serve the profiles before and after it.
ProfilesDecode ==
  LET in == returned.input
      profile == returned.profile
  IN /\ DOMAIN profile.threads = DOMAIN in
     /\ \A i \in DOMAIN in :
          /\ profile.threads[i].thread_id = in[i].thread_id
          /\ Len(profile.threads[i].samples) = Len(in[i].samples)
          /\ \A j \in DOMAIN in[i].samples :
               /\ InRange(profile, profile.threads[i].samples[j])
               /\ Decoded(profile, profile.threads[i].samples[j]) =
                    Recognized(in[i].samples[j])

\* In both tables list and map agree, and no item is stored twice.
TablesConsistent == Consistent(module_index) /\ Consistent(frames_index)

\* The index of an item never changes (output.rs:71-72), so the lists of an
\* earlier profile are the beginnings of the lists of a later one.
IndicesNeverChange ==
  [][SameIndices(module_index, module_index') /\ SameIndices(frames_index, frames_index')]_vars

===============================================================================
