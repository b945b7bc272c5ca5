--------------------------- MODULE OffsetCommitter ---------------------------
(***************************************************************************)
(* What a batching committer promises to the goroutines that call Commit   *)
(* and to the session, without counters, timers and hooks: requests are    *)
(* served one at a time, an offset is acknowledged only when it is marked  *)
(* or will be with the next mark, fewer than CommitBatchSize acknowledged  *)
(* offsets are unmarked, and after Stop it serves no request.  A call that *)
(* finds the committer stopped ends the program.                           *)
(*                                                                         *)
(* BufferedCommitter is shown to implement this specification, and         *)
(* KafkaClaim is built on it.                                              *)
(***************************************************************************)
EXTENDS Naturals, FiniteSets

CONSTANTS NumMessages,     \* offsets are numbered from 1; 0 is none
          CommitBatchSize  \* the number of requests after which the offset is marked

Messages == 1 .. NumMessages

VARIABLES
  caller,   \* calls of Commit: "idle", "sending", "waiting" for the answer
  seen,     \* the offset that the next mark will carry, or 0
  acked,    \* offsets for which a call has returned nil
  marked,   \* the offset up to which the session is marked
  stopped,  \* Stop has been called
  ended,    \* the committer has ended
  crashed   \* a call found the committer stopped

vars == <<caller, seen, acked, marked, stopped, ended, crashed>>

Init ==
  /\ caller = [m \in Messages |-> "idle"]
  /\ seen = 0
  /\ acked = {}
  /\ marked = 0
  /\ stopped = FALSE
  /\ ended = FALSE
  /\ crashed = FALSE

Later(a, b) == IF a < b THEN b ELSE a

Serving == \E m \in Messages : caller[m] = "waiting"

Submit(m) ==
  /\ ~crashed
  /\ caller[m] = "idle"
  /\ caller' = [caller EXCEPT ![m] = "sending"]
  /\ UNCHANGED <<seen, acked, marked, stopped, ended, crashed>>

Take(m) ==
  /\ ~crashed /\ ~stopped /\ ~ended
  /\ ~Serving
  /\ caller[m] = "sending"
  /\ caller' = [caller EXCEPT ![m] = "waiting"]
  /\ seen' = Later(seen, m)
  /\ UNCHANGED <<acked, marked, stopped, ended, crashed>>

\* Because a batch is full or because time has passed.
MarkSeen ==
  /\ ~crashed /\ ~ended
  /\ seen # 0
  /\ marked' = Later(marked, seen)
  /\ seen' = 0
  /\ UNCHANGED <<caller, acked, stopped, ended, crashed>>

Answer(m, ok) ==
  /\ ~crashed
  /\ caller[m] = "waiting"
  /\ acked' = IF ok THEN acked \cup {m} ELSE acked
  /\ ok => m <= marked \/ m <= seen
  /\ Cardinality({k \in acked' : k > marked}) < CommitBatchSize
  /\ caller' = [caller EXCEPT ![m] = "idle"]
  /\ UNCHANGED <<seen, marked, stopped, ended, crashed>>

Stop ==
  /\ ~crashed /\ ~stopped
  /\ stopped' = TRUE
  /\ UNCHANGED <<caller, seen, acked, marked, ended, crashed>>

End ==
  /\ ~crashed /\ stopped /\ ~ended
  /\ ~Serving
  /\ ended' = TRUE
  /\ UNCHANGED <<caller, seen, acked, marked, stopped, crashed>>

Crash ==
  /\ ~crashed /\ stopped
  /\ \E m \in Messages : caller[m] = "sending"
  /\ crashed' = TRUE
  /\ UNCHANGED <<caller, seen, acked, marked, stopped, ended>>

Next ==
  \/ \E m \in Messages : Submit(m) \/ Take(m) \/ \E ok \in BOOLEAN : Answer(m, ok)
  \/ MarkSeen
  \/ Stop
  \/ End
  \/ Crash

Spec == Init /\ [][Next]_vars
==============================================================================
