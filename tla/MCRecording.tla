------------------------------ MODULE MCRecording ------------------------------
(***************************************************************************)
(* Small instances of Recording for TLC.                                   *)
(***************************************************************************)
EXTENDS Recording

CONSTANTS libA, libB, id

Names == {libA, libB}
Ids == {id}
Addresses == 0 .. MaxAddr
Infos == [name : Names, build_id : Ids]

Tag(name) == [name |-> name, n_type |-> "NT_GNU_BUILD_ID", desc |-> id]

\* Two libraries, one of which may also be there without a build ID, or not
\* be readable.
ElfFiles ==
  {[name |-> libA, contents |-> <<Tag("GNU")>>], [name |-> libB, contents |-> <<Tag("GNU")>>],
   [name |-> libB, contents |-> <<Tag("other")>>], [name |-> libB, contents |-> None]}

MachFiles ==
  {[name |-> libA, contents |-> <<[cputype |-> "CPU_TYPE_X86_64", parses |-> TRUE, uuid |-> id]>>]}

\* Recognized, a recursion that can be reasoned about, is the filter it is
\* meant to be.
ASSUME RecognizedFilters ==
  \A n \in 0 .. 3 : \A sample \in [1 .. n -> Found \cup {None}] :
    Recognized(sample) = SelectSeq(sample, LAMBDA x : x # None)

\* Threads are interchangeable.
Symmetry == Permutations(ThreadId)

===============================================================================
