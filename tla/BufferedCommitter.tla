-------------------------- MODULE BufferedCommitter --------------------------
(***************************************************************************)
(* kafka/buffered_committer.go: the goroutine that commits the offsets of  *)
(* one partition in batches, and the callers of Commit.                    *)
(*                                                                         *)
(* A message is its offset; offsets are numbered from 1 so that 0 is the   *)
(* nil message.  Commit's request channel and the request's done channel   *)
(* are unbuffered; the ticker's channel holds one tick and drops the rest. *)
(* Callers, Stop, the pre-commit hook of the handler and time are the      *)
(* environment.  A panic ends the program.                                 *)
(*                                                                         *)
(* Time is counted in units.  The goroutine reacts within a unit, so that  *)
(* time passes only while it waits, in select or for the hook's answer.    *)
(***************************************************************************)
EXTENDS Integers, FiniteSets

CONSTANTS NumMessages,      \* bound: the offsets are 1 .. NumMessages
          MaxCalls,         \* bound: how often Commit is called per message (it is retried)
          MaxTime,          \* bound: the last value of the clock
          CommitBatchSize,  \* Config.CommitBatchSize, positive where this committer is used
          CommitInterval,   \* Config.CommitIntervalSeconds, in units of time
          HookEnabled       \* Config.PreCommitHookPath is not empty

ASSUME CommitterAssumption ==
  /\ NumMessages \in Nat
  /\ MaxCalls \in Nat
  /\ MaxTime \in Nat
  /\ CommitBatchSize \in Nat \ {0}
  /\ CommitInterval \in Nat \ {0}
  /\ HookEnabled \in BOOLEAN

Messages == 1 .. NumMessages

\* A nil *core.Message, and an empty ticker channel.
Nil == 0

VARIABLES
  \* The goroutine of Start.
  pc,              \* "select", "commit" (commitAndReset), "complete", "exited"
  req,             \* the request being served, Nil for a commit on idle timeout
  reqOk,           \* the result to pass to req.Complete
  observed,        \* numberOfMessagesObserved
  lastSeen,        \* lastSeenMessage
  lastCommitTime,
  \* Its channels.
  tick,            \* the tick in the ticker's channel, or Nil
  closed,          \* commitRequests is closed
  \* The callers of Commit, one per message.
  caller,          \* "idle", "sending" on commitRequests, "waiting" on done
  calls,           \* calls made so far
  acked,           \* messages for which a call has returned nil
  \* The outside world.
  marked,          \* the offset up to which the session is marked
  clock,
  seenAt,          \* history: when lastSeen became non-nil
  crashed          \* the program has panicked

goVars     == <<pc, req, reqOk, observed, lastSeen, lastCommitTime>>
callerVars == <<caller, calls, acked>>
vars       == <<goVars, tick, closed, callerVars, marked, clock, seenAt, crashed>>

TypeOK ==
  /\ pc \in {"select", "commit", "complete", "exited"}
  /\ req \in Messages \cup {Nil}
  /\ reqOk \in BOOLEAN
  /\ observed \in Nat
  /\ lastSeen \in Messages \cup {Nil}
  /\ lastCommitTime \in 0 .. MaxTime
  /\ tick \in 0 .. MaxTime
  /\ closed \in BOOLEAN
  /\ caller \in [Messages -> {"idle", "sending", "waiting"}]
  /\ calls \in [Messages -> 0 .. MaxCalls]
  /\ acked \subseteq Messages
  /\ marked \in Messages \cup {Nil}
  /\ clock \in 0 .. MaxTime
  /\ seenAt \in 0 .. MaxTime
  /\ crashed \in BOOLEAN
  /\ pc = "complete" => req # Nil      \* there is a caller to answer
  /\ pc = "commit" => lastSeen # Nil   \* there is a message to dereference

Init ==
  /\ pc = "select"
  /\ req = Nil
  /\ reqOk = TRUE
  /\ observed = 0
  /\ lastSeen = Nil
  /\ lastCommitTime = 0
  /\ tick = Nil
  /\ closed = FALSE
  /\ caller = [m \in Messages |-> "idle"]
  /\ calls = [m \in Messages |-> 0]
  /\ acked = {}
  /\ marked = Nil
  /\ clock = 0
  /\ seenAt = 0
  /\ crashed = FALSE

------------------------------------------------------------------------------
(***************************************************************************)
(* The callers.                                                            *)
(***************************************************************************)

\* Commit(m) begins: from now on it is blocked on commitRequests.
Commit(m) ==
  /\ ~crashed
  /\ caller[m] = "idle"
  /\ calls[m] < MaxCalls
  /\ caller' = [caller EXCEPT ![m] = "sending"]
  /\ calls' = [calls EXCEPT ![m] = @ + 1]
  /\ UNCHANGED <<goVars, tick, closed, acked, marked, clock, seenAt, crashed>>

\* A send on a closed channel panics, also when the sender was already blocked.
SendOnClosed(m) ==
  /\ ~crashed
  /\ closed
  /\ caller[m] = "sending"
  /\ crashed' = TRUE
  /\ UNCHANGED <<goVars, tick, closed, callerVars, marked, clock, seenAt>>

Stop ==
  /\ ~crashed
  /\ ~closed
  /\ closed' = TRUE
  /\ UNCHANGED <<goVars, tick, callerVars, marked, clock, seenAt, crashed>>

------------------------------------------------------------------------------
(***************************************************************************)
(* The goroutine.                                                          *)
(***************************************************************************)

\* The comparison of the offsets the wrong way round.
Latest_Reversed(a, b) ==
  IF a = Nil THEN b ELSE IF b = Nil THEN a ELSE IF a < b THEN a ELSE b

\* getLatestMessage: nil is earlier than every message.
Latest(a, b) == IF a < b THEN b ELSE a

\* A batch that is full one request too late.
BatchFull_OffByOne == observed > CommitBatchSize

\* The requests observed since the last commit fill a batch.
BatchFull == observed >= CommitBatchSize

\* The select receives the request of m: count it, keep the later of it and the
\* last one seen, and either answer at once or commit.
Receive(m) ==
  /\ ~crashed
  /\ pc = "select"
  /\ ~closed
  /\ caller[m] = "sending"
  /\ caller' = [caller EXCEPT ![m] = "waiting"]
  /\ req' = m
  /\ reqOk' = TRUE
  /\ observed' = observed + 1
  /\ lastSeen' = Latest(m, lastSeen)
  /\ seenAt' = IF lastSeen = Nil THEN clock ELSE seenAt
  /\ pc' = IF BatchFull' THEN "commit" ELSE "complete"
  /\ UNCHANGED <<lastCommitTime, tick, closed, calls, acked, marked, clock, crashed>>

\* req.Complete.
Complete ==
  /\ ~crashed
  /\ pc = "complete"
  /\ caller[req] = "waiting"
  /\ caller' = [caller EXCEPT ![req] = "idle"]
  /\ acked' = IF reqOk THEN acked \cup {req} ELSE acked
  /\ req' = Nil
  /\ pc' = "select"
  /\ UNCHANGED <<reqOk, observed, lastSeen, lastCommitTime, tick, closed, calls,
                 marked, clock, seenAt, crashed>>

\* The operands of Sub the wrong way round.
SinceLastCommit_Reversed == lastCommitTime - tick

\* now.Sub(c.lastCommitTime), where now is the time at which the ticker fired.
SinceLastCommit == tick - lastCommitTime

\* lastCommitTime is read after the event that caused the commit, by less than a
\* unit: a tick that comes an interval later in units may or may not be too soon.
TooSoon    == SinceLastCommit <= CommitInterval
SoonEnough == SinceLastCommit >= CommitInterval

\* A timeout that does not look whether there is a message.
HasMessage_Unchecked == TRUE

\* There is a message to commit.
HasMessage == lastSeen # Nil

\* The select receives a tick and drops it.
TickIgnored ==
  /\ ~crashed
  /\ pc = "select"
  /\ tick # Nil
  /\ TooSoon \/ ~HasMessage
  /\ tick' = Nil
  /\ UNCHANGED <<goVars, closed, callerVars, marked, clock, seenAt, crashed>>

\* The select receives a tick and commits the last message seen.
TickCommits ==
  /\ ~crashed
  /\ pc = "select"
  /\ tick # Nil
  /\ SoonEnough /\ HasMessage
  /\ tick' = Nil
  /\ req' = Nil
  /\ pc' = "commit"
  /\ UNCHANGED <<reqOk, observed, lastSeen, lastCommitTime, closed, callerVars,
                 marked, clock, seenAt, crashed>>

\* Returning to the select without an answer.
AfterCommit_NoAnswer == "select"

\* Who is waiting for the outcome of commitAndReset: a caller or nobody.
AfterCommit == IF req = Nil THEN "select" ELSE "complete"

\* commitAndReset with a pre-commit hook that fails: nothing is reset.
HookFails ==
  /\ ~crashed
  /\ pc = "commit"
  /\ HookEnabled
  /\ reqOk' = FALSE
  /\ pc' = AfterCommit
  /\ UNCHANGED <<req, observed, lastSeen, lastCommitTime, tick, closed, callerVars,
                 marked, clock, seenAt, crashed>>

\* session.MarkMessage: the session's mark only moves forward.
Mark(offset) == Latest(marked, offset)

\* commitAndReset with a hook that succeeds, or with none.
CommitAndReset ==
  /\ ~crashed
  /\ pc = "commit"
  /\ marked' = Mark(lastSeen)
  /\ observed' = 0
  /\ lastCommitTime' = clock
  /\ lastSeen' = Nil
  /\ reqOk' = TRUE
  /\ pc' = AfterCommit
  /\ UNCHANGED <<req, tick, closed, callerVars, clock, seenAt, crashed>>

\* A goroutine that does not return before its last message is committed.
Exit_WhenFlushed ==
  /\ ~crashed
  /\ pc = "select"
  /\ closed
  /\ lastSeen = Nil
  /\ pc' = "exited"
  /\ UNCHANGED <<req, reqOk, observed, lastSeen, lastCommitTime, tick, closed,
                 callerVars, marked, clock, seenAt, crashed>>

\* The select finds commitRequests closed: what was seen and not committed is
\* dropped.
Exit ==
  /\ ~crashed
  /\ pc = "select"
  /\ closed
  /\ pc' = "exited"
  /\ UNCHANGED <<req, reqOk, observed, lastSeen, lastCommitTime, tick, closed,
                 callerVars, marked, clock, seenAt, crashed>>

------------------------------------------------------------------------------
\* The goroutine has nothing to do within this unit of time.
Waiting ==
  \/ pc = "select" /\ tick = Nil /\ ~closed /\ \A m \in Messages : caller[m] # "sending"
  \/ pc = "commit" /\ HookEnabled
  \/ pc = "exited"

\* The ticker fires at every multiple of the interval.  The ticker is never
\* stopped.
TimePasses ==
  /\ ~crashed
  /\ Waiting
  /\ clock < MaxTime
  /\ clock' = clock + 1
  /\ tick' = IF tick = Nil /\ clock' % CommitInterval = 0 THEN clock' ELSE tick
  /\ UNCHANGED <<goVars, closed, callerVars, marked, seenAt, crashed>>

\* Nothing is left to do: the goroutine has returned, or the program is gone.
Terminated ==
  /\ crashed \/ pc = "exited"
  /\ UNCHANGED vars

Goroutine ==
  \/ \E m \in Messages : Receive(m)
  \/ Complete
  \/ TickIgnored
  \/ TickCommits
  \/ HookFails
  \/ CommitAndReset
  \/ Exit

Next ==
  \/ \E m \in Messages : Commit(m) \/ SendOnClosed(m)
  \/ Stop
  \/ Goroutine
  \/ TimePasses
  \/ Terminated

Spec == Init /\ [][Next]_vars

(***************************************************************************)
(* Fairness: the goroutine runs, its select picks among the ready cases at *)
(* random, a panic happens, and the hook answers (an assumption about the  *)
(* handler: the code sets no timeout).                                     *)
(***************************************************************************)
Fairness ==
  /\ \A m \in Messages : SF_vars(Receive(m)) /\ WF_vars(SendOnClosed(m))
  /\ WF_vars(Complete)
  /\ WF_vars(CommitAndReset \/ HookFails)
  /\ SF_vars(TickIgnored \/ TickCommits)
  /\ SF_vars(Exit)

FairSpec == Spec /\ Fairness

------------------------------------------------------------------------------
(***************************************************************************)
(* Properties.                                                             *)
(***************************************************************************)

\* Nothing that Commit has acknowledged is forgotten: the offset is covered by
\* the session's mark or by the message the goroutine will commit next, also
\* after failed hooks, idle timeouts and requests that arrive out of order.
AckedIsCovered ==
  \A m \in acked : m <= marked \/ m <= lastSeen

\* Fewer than CommitBatchSize acknowledged messages are unmarked at any time.
\* This is how many a Stop drops, to be delivered again.  (After a crash the marks
\* that Sarama has not committed yet come on top.)
ExposureBound ==
  Cardinality({m \in acked : m > marked}) < CommitBatchSize

\* Without a hook, a message waits for its commit at most two intervals: the tick
\* after a commit is dropped, the next one is not.
CommittedWithinTwoIntervals ==
  (lastSeen # Nil /\ pc # "exited") => clock - seenAt <= 2 * CommitInterval

\* cmd/kafka.go, --commit-interval-seconds: "delay before automatically
\* committing the offset of the last message".
CommittedWithinInterval ==
  (lastSeen # Nil /\ pc # "exited") => clock - seenAt <= CommitInterval

\* Every call of Commit returns, unless the program panics.
CommitReturns ==
  \A m \in Messages : (caller[m] # "idle") ~> (caller[m] = "idle" \/ crashed)

\* A stopped committer returns, unless the program panics.
StopEnds == closed ~> (pc = "exited" \/ crashed)

------------------------------------------------------------------------------
(***************************************************************************)
(* What the sessions rely on.                                              *)
(***************************************************************************)
Contract == INSTANCE OffsetCommitter WITH
  seen <- lastSeen, stopped <- closed, ended <- (pc = "exited")

\* BufferedCommitter implements OffsetCommitter: its counter, its ticker and its
\* hook are invisible, but for the marks they lead to.
CommitterContract == Contract!Spec
==============================================================================
