------------------------------ MODULE WorkerPool ------------------------------
(***************************************************************************)
(* What a message pump promises to a transporter, without saying how: the  *)
(* messages are started in the order in which they arrive, never more than *)
(* MaxHandlers of them are being worked on at a time, a message is removed *)
(* from the broker only when the handler has accepted it and only when it  *)
(* has not been poisoned, work that has begun is brought to an end even    *)
(* when the pool stops, and a stopped pool begins no more work.            *)
(*                                                                         *)
(* MessagePump is shown to implement this specification.                   *)
(***************************************************************************)
EXTENDS Naturals, FiniteSets

CONSTANTS NumMessages,  \* messages are numbered 1 .. NumMessages by arrival
          MaxHandlers   \* the number of messages that may be in work

Messages == 1 .. NumMessages

VARIABLES status,    \* what has become of each message
          accepted,  \* messages that the handler answered with success
          removed,   \* messages removed from the broker
          poisoned,  \* messages given up on
          stopped    \* the pool begins no more work

vars == <<status, accepted, removed, poisoned, stopped>>

Running == {m \in Messages : status[m] = "running"}

Init ==
  /\ status = [m \in Messages |-> "waiting"]
  /\ accepted = {}
  /\ removed = {}
  /\ poisoned = {}
  /\ stopped = FALSE

Start(m) ==
  /\ ~stopped
  /\ status[m] = "waiting"
  /\ \A k \in Messages : k < m => status[k] # "waiting"
  /\ Cardinality(Running) < MaxHandlers
  /\ status' = [status EXCEPT ![m] = "running"]
  /\ UNCHANGED <<accepted, removed, poisoned, stopped>>

Accept(m) ==
  /\ status[m] = "running"
  /\ m \notin removed \cup poisoned
  /\ accepted' = accepted \cup {m}
  /\ UNCHANGED <<status, removed, poisoned, stopped>>

Remove(m) ==
  /\ status[m] = "running"
  /\ m \in accepted \ poisoned
  /\ removed' = removed \cup {m}
  /\ UNCHANGED <<status, accepted, poisoned, stopped>>

Poison(m) ==
  /\ status[m] = "running"
  /\ m \notin removed
  /\ poisoned' = poisoned \cup {m}
  /\ UNCHANGED <<status, accepted, removed, stopped>>

\* Work on a message ends once its fate is known: the handler accepted it (its
\* removal may have failed) or it was poisoned.
Finish(m) ==
  /\ status[m] = "running"
  /\ m \in accepted \cup poisoned
  /\ status' = [status EXCEPT ![m] = "finished"]
  /\ UNCHANGED <<accepted, removed, poisoned, stopped>>

Stop ==
  /\ ~stopped
  /\ stopped' = TRUE
  /\ UNCHANGED <<status, accepted, removed, poisoned>>

Next ==
  \/ Stop
  \/ \E m \in Messages : Start(m) \/ Accept(m) \/ Remove(m) \/ Poison(m) \/ Finish(m)

Spec == Init /\ [][Next]_vars
===============================================================================
