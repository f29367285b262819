------------------------------- MODULE Recording -------------------------------
(***************************************************************************)
(* From recorded addresses to what speedscope shows: the Outputter with    *)
(* the ModuleCache it asks about every instruction pointer, and the        *)
(* programs that read what it writes (Speedscope).  More images may be     *)
(* loaded between two profiles; that any are unloaded is excluded by the   *)
(* assumption at output.rs:121-122, "that loaded modules in a program do   *)
(* not change", which ModuleCache does without.                            *)
(***************************************************************************)
EXTENDS Outputter, Speedscope

CONSTANTS Name, Id, ElfFile, MachFile, MaxAddr, MaxPlacements, Bad  \* as in ModuleCache

VARIABLES
  os, images, once, module_ranges, query, answer, panicked,  \* as in ModuleCache
  ips,      \* the input, as the addresses it consists of
  recorded  \* history: the input of the last profile, and the images then

C == INSTANCE ModuleCache

ASSUME RecordingAssumption ==
  /\ C!CacheAssumption
  /\ ModuleInfo = C!Info /\ Rva = C!Addr

cache == <<os, images, once, module_ranges, query, answer, panicked>>
allVars == <<vars, cache, ips, recorded>>

RecordingInit ==
  /\ Init
  /\ C!Init
  /\ ips = <<>>
  /\ recorded = [ips |-> <<>>, images |-> {}]

-------------------------------------------------------------------------------

LoadImage(p) == ~active /\ C!Load(p) /\ UNCHANGED <<vars, ips, recorded>>

\* output(profile) is called.
Start ==
  /\ Begin
  /\ ips' = <<>>
  /\ recorded' = [ips |-> <<>>, images |-> {}]
  /\ UNCHANGED cache

Thread(t) == NextThread(t) /\ ips' = WithThread(ips, t) /\ UNCHANGED <<cache, recorded>>

OneSample == NextSample /\ ips' = WithSample(ips) /\ UNCHANGED <<cache, recorded>>

GetOrInsert(ip) == C!LinuxGetOrInsert(ip) \/ C!MacGetOrInsert(ip)

\* output_frame asks the cache about ip, and what it says is put out.
OneFrame(ip) ==
  /\ GetOrInsert(ip) /\ ~panicked'
  /\ \/ answer' = None /\ SkipFrame
     \/ \E found \in Found : answer' = found /\ OutputFrame(found)
  /\ ips' = WithFrame(ips, ip)
  /\ UNCHANGED recorded

\* get_or_insert panics, and output with it: there is no profile.
OnePanic(ip) ==
  /\ AtFrame
  /\ GetOrInsert(ip) /\ panicked'
  /\ UNCHANGED <<vars, ips, recorded>>

Finish ==
  /\ Return
  /\ ips' = <<>>
  /\ recorded' = [ips |-> ips, images |-> images]
  /\ UNCHANGED cache

RecordingNext ==
  /\ ~panicked
  /\ \/ \E p \in C!Placement : LoadImage(p)
     \/ Start \/ OneSample \/ Finish
     \/ \E t \in ThreadId : Thread(t)
     \/ \E ip \in C!Addr : OneFrame(ip) \/ OnePanic(ip)

RecordingSpec == RecordingInit /\ [][RecordingNext]_allVars

-------------------------------------------------------------------------------
(* Properties                                                              *)

\* Where an address is when these images are loaded: in a module with a build
\* ID, at an offset from the base of the image.
PlaceIn(loaded, ip) ==
  LET at == {p \in loaded : C!Contains(p, ip) /\ C!BuildId(p.file) # None}
  IN IF at = {} THEN None
     ELSE LET p == CHOOSE p \in at : TRUE IN [info |-> C!InfoOf(p), rva |-> ip - p.start]

\* The places of the addresses of a sample of the last profile.
Places(sample) ==
  Recognized([k \in DOMAIN sample |-> PlaceIn(recorded.images, sample[k])])

\* The stack that a reader of the exported file sees for one sample.
Shown(file, sample) == [k \in DOMAIN sample |-> file.frames[sample[k] + 1]]

\* What a user sees in speedscope is what was recorded: one profile per
\* thread with the samples in the order they were taken, and in each the
\* places of the recorded addresses that are in a module, outermost first,
\* whatever cached ranges and tables of earlier profiles the addresses went
\* through; and one weight per sample.
ExportKeepsStacks ==
  LET file == Export(returned.profile)
      in == recorded.ips
  IN /\ DOMAIN file.profiles = {in[i].thread_id : i \in DOMAIN in}
     /\ \A i \in DOMAIN in :
          LET profile == file.profiles[in[i].thread_id]
          IN /\ Len(profile.samples) = Len(in[i].samples)
             /\ Len(profile.weights) = Len(profile.samples)
             /\ \A j \in DOMAIN in[i].samples :
                  /\ InRange(returned.profile, profile.samples[j])
                  /\ Shown(file, profile.samples[j]) = Reverse(Places(in[i].samples[j]))

===============================================================================
