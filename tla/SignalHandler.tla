----------------------------- MODULE SignalHandler -----------------------------
(***************************************************************************)
(* Sampler::new and Drop for Sampler (vignette/src/lib_linux.rs): the      *)
(* disposition of SIGPROF belongs to the process, and every Sampler that   *)
(* is created replaces it and remembers the one it found.  A sample is     *)
(* taken through whatever disposition is there when the signal arrives.    *)
(***************************************************************************)
EXTENDS Naturals, SequencesExt

CONSTANTS
  Sampler,      \* the Sampler values the program may have
  None,         \* "no Sampler", "no disposition remembered"
  NestedScopes  \* Samplers are dropped in the reverse order of creation

Disposition == {"default", "ignore", "application", "sigprof_handler"}

ASSUME SamplerAssumption ==
  /\ None \notin Sampler /\ None \notin Disposition
  /\ NestedScopes \in BOOLEAN

VARIABLES
  original,     \* what the application had before any Sampler
  disposition,  \* what the process does on SIGPROF
  live,         \* the Samplers that exist, oldest first
  old_handler,  \* old_handler[i]: the field of Sampler i
  sampling,     \* the Sampler whose call has sent a SIGPROF not yet delivered
  process       \* "running", "killed" by the signal, or "stuck" without answer

vars == <<original, disposition, live, old_handler, sampling, process>>

Live == {live[k] : k \in DOMAIN live}

TypeOK ==
  /\ original \in Disposition \ {"sigprof_handler"}
  /\ disposition \in Disposition
  /\ live \in Seq(Sampler)
  /\ old_handler \in [Sampler -> Disposition \cup {None}]
  /\ sampling \in Sampler \cup {None}
  /\ process \in {"running", "killed", "stuck"}

Init ==
  /\ original \in Disposition \ {"sigprof_handler"}
  /\ disposition = original
  /\ live = <<>>
  /\ old_handler = [i \in Sampler |-> None]
  /\ sampling = None
  /\ process = "running"

-------------------------------------------------------------------------------

New_ForgetsOld(i) ==
  /\ process = "running"
  /\ i \notin Live
  /\ disposition' = "sigprof_handler"
  /\ old_handler' = [old_handler EXCEPT ![i] = "default"]
  /\ live' = Append(live, i)
  /\ UNCHANGED <<original, sampling, process>>

\* sigaction(SIGPROF, &action) returns the disposition it replaces.
New(i) ==
  /\ process = "running"
  /\ i \notin Live
  /\ disposition' = "sigprof_handler"
  /\ old_handler' = [old_handler EXCEPT ![i] = disposition]
  /\ live' = Append(live, i)
  /\ UNCHANGED <<original, sampling, process>>

MayDrop_WhileSampling(i) == i \in Live /\ (NestedScopes => i = live[Len(live)])

\* Locals of nested scopes are dropped innermost first; boxed Samplers, or
\* those of several threads, in any order.  A call borrows its Sampler.
MayDrop(i) ==
  /\ i \in Live /\ i # sampling
  /\ NestedScopes => i = live[Len(live)]

Without(i) == RemoveAt(live, CHOOSE k \in DOMAIN live : live[k] = i)

Drop_SetsDefault(i) ==
  /\ process = "running"
  /\ MayDrop(i)
  /\ disposition' = "default"
  /\ old_handler' = [old_handler EXCEPT ![i] = None]
  /\ live' = Without(i)
  /\ UNCHANGED <<original, sampling, process>>

\* sigaction(SIGPROF, &self.old_handler)
Drop(i) ==
  /\ process = "running"
  /\ MayDrop(i)
  /\ disposition' = old_handler[i]
  /\ old_handler' = [old_handler EXCEPT ![i] = None]
  /\ live' = Without(i)
  /\ UNCHANGED <<original, sampling, process>>

\* suspend_and_resume_thread on Sampler i signals its target; calls do not
\* overlap.
Signal(i) ==
  /\ process = "running"
  /\ i \in Live /\ sampling = None
  /\ sampling' = i
  /\ UNCHANGED <<original, disposition, live, old_handler, process>>

\* The kernel delivers the signal: only sigprof_handler posts msg2.
Deliver ==
  /\ process = "running"
  /\ sampling # None
  /\ sampling' = None
  /\ process' = CASE disposition = "sigprof_handler" -> "running"
                  [] disposition = "default" -> "killed"
                  [] OTHER -> "stuck"
  /\ UNCHANGED <<original, disposition, live, old_handler>>

Next ==
  \/ \E i \in Sampler : New(i) \/ Drop(i) \/ Signal(i)
  \/ Deliver

Spec == Init /\ [][Next]_vars

-------------------------------------------------------------------------------
(* Properties                                                              *)

\* Every SIGPROF a Sampler sends meets sigprof_handler, whatever other
\* Samplers were created and dropped before and in between: no sample kills
\* the process (SIGPROF's default) or waits for an answer that never comes.
SignalsAreHandled == process = "running"

\* When the last Sampler is gone the application has its own disposition
\* back (lib_linux.rs:127, "Dropping this reset's the handler").
AllDroppedRestores == live = <<>> => disposition = original

\* The inductive invariant of nested use: the remembered dispositions form
\* a chain that ends in the application's own.
Chain ==
  /\ process = "running"
  /\ disposition = IF live = <<>> THEN original ELSE "sigprof_handler"
  /\ \A j, k \in DOMAIN live : live[j] = live[k] => j = k
  /\ \A k \in DOMAIN live :
       old_handler[live[k]] = IF k = 1 THEN original ELSE "sigprof_handler"
  /\ sampling # None => sampling \in Live

===============================================================================
