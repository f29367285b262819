----------------------------- MODULE MCModuleCache -----------------------------
(***************************************************************************)
(* Small instances of ModuleCache for TLC.                                 *)
(***************************************************************************)
EXTENDS ModuleCache, TLC

CONSTANTS libA, libB, id1, id2

Names == {libA, libB}
Ids == {id1, id2}

Tag(name, type, id) == [name |-> name, n_type |-> type, desc |-> id]
BuildIdNote(id) == Tag("GNU", "NT_GNU_BUILD_ID", id)

SomeFile(name, contents) == [name |-> name, contents |-> contents]

\* Notes before the build ID that are not it: another of GNU's, and one of
\* SystemTap, which has the number of the build ID's type.
ElfFiles ==
  {SomeFile(libA, <<Tag("GNU", "other", id2), Tag("other", "NT_GNU_BUILD_ID", id2), BuildIdNote(id1)>>),
   SomeFile(libA, <<BuildIdNote(id2)>>), SomeFile(libB, <<BuildIdNote(id1)>>),
   SomeFile(libB, <<Tag("GNU", "other", id1)>>), SomeFile(libB, <<Bad, BuildIdNote(id1)>>),
   SomeFile(libB, None)}

Macho(cpu, ok, id) == [cputype |-> cpu, parses |-> ok, uuid |-> id]

MachFiles ==
  {SomeFile(libA, <<Bad, Macho("other", TRUE, id2), Macho("CPU_TYPE_X86_64", TRUE, id1)>>),
   SomeFile(libA, <<Macho("CPU_TYPE_X86_64", TRUE, id2)>>),
   SomeFile(libB, <<Macho("CPU_TYPE_X86_64", TRUE, None)>>),
   SomeFile(libB, <<Macho("CPU_TYPE_X86_64", FALSE, id1)>>),
   SomeFile(libB, <<Macho("other", TRUE, id2)>>)}

===============================================================================
