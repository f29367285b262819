------------------------------ MODULE Suspension ------------------------------
(***************************************************************************)
(* What Sampler::suspend_and_resume_thread promises, without signals,      *)
(* semaphores or shared state: one caller at a time asks for a thread, the *)
(* thread is frozen where it stands, the callback looks at exactly that    *)
(* place, and the thread is running again when the call returns.           *)
(*                                                                         *)
(* SuspendResume (Linux) and MachSampler (macOS) are shown to implement it. *)
(***************************************************************************)

CONSTANTS
  Thread,   \* the threads of the process
  IP,       \* the places in the program a thread can be at
  None      \* "no thread", "nothing seen yet"

VARIABLES
  ip,       \* ip[t]: where thread t is
  frozen,   \* the suspended threads
  call,     \* call[s]: how far the call made by s has come
  subject,  \* subject[s]: the thread that call is about
  seen      \* seen[s]: the context the callback of s was given

vars == <<ip, frozen, call, subject, seen>>

Place(t) == [thread |-> t, ip |-> ip[t]]

Init ==
  /\ ip \in [Thread -> IP]
  /\ frozen = {}
  /\ call = [s \in Thread |-> "out"]
  /\ subject = [s \in Thread |-> None]
  /\ seen = [s \in Thread |-> None]

\* A thread that is not frozen runs its own code.
Run(t) ==
  /\ t \notin frozen
  /\ \E a \in IP : ip' = [ip EXCEPT ![t] = a]
  /\ UNCHANGED <<frozen, call, subject, seen>>

\* s asks for t; calls do not overlap.
Ask(s, t) ==
  /\ \A u \in Thread : call[u] = "out"
  /\ call' = [call EXCEPT ![s] = "asked"]
  /\ subject' = [subject EXCEPT ![s] = t]
  /\ UNCHANGED <<ip, frozen, seen>>

\* The thread asked for stops where it is.
Freeze(t) ==
  /\ \E s \in Thread : call[s] = "asked" /\ subject[s] = t
  /\ frozen' = frozen \cup {t}
  /\ UNCHANGED <<ip, call, subject, seen>>

\* The callback starts, with the context of the frozen thread.
Look(s) ==
  /\ call[s] = "asked"
  /\ subject[s] \in frozen
  /\ call' = [call EXCEPT ![s] = "inside"]
  /\ seen' = [seen EXCEPT ![s] = Place(subject[s])]
  /\ UNCHANGED <<ip, frozen, subject>>

\* The callback has returned.
Leave(s) ==
  /\ call[s] = "inside"
  /\ call' = [call EXCEPT ![s] = "leaving"]
  /\ UNCHANGED <<ip, frozen, subject, seen>>

\* The frozen thread goes on, only after the callback has returned.
Thaw(t) ==
  /\ \E s \in Thread : call[s] = "leaving" /\ subject[s] = t
  /\ frozen' = frozen \ {t}
  /\ UNCHANGED <<ip, call, subject, seen>>

\* The call returns, only after the thread has been let go.
Return(s) ==
  /\ call[s] = "leaving"
  /\ subject[s] \notin frozen
  /\ call' = [call EXCEPT ![s] = "out"]
  /\ subject' = [subject EXCEPT ![s] = None]
  /\ seen' = [seen EXCEPT ![s] = None]
  /\ UNCHANGED <<ip, frozen>>

Next ==
  \/ \E t \in Thread : Run(t) \/ Freeze(t) \/ Thaw(t)
  \/ \E s, t \in Thread : Ask(s, t)
  \/ \E s \in Thread : Look(s) \/ Leave(s) \/ Return(s)

Spec == Init /\ [][Next]_vars

===============================================================================
