------------------------------ MODULE KafkaClaim ------------------------------
(***************************************************************************)
(* kafka/sarama_consumer_group_handler.go and kafka/transporter.go: one    *)
(* partition during one session of the consumer group, from the end of     *)
(* Setup until after Cleanup.  To the runner with its pump and handler     *)
(* this module adds ConsumeClaim, which feeds the pump one message at a    *)
(* time, Cleanup, and the partition's committer, to which Delete leads.    *)
(*                                                                         *)
(* A message is its offset, counted from the one at which the session      *)
(* starts.  The context of the pump and of the handler is the session's;   *)
(* Sarama cancels it for a re-balance or an error, when the program is     *)
(* told to stop, and when a claim's goroutine returns.  What is assumed of *)
(* Sarama: it calls ConsumeClaim at most once per claim, closes the        *)
(* claim's channel once the session is cancelled, and calls Cleanup when   *)
(* every claim's goroutine has returned.                                   *)
(***************************************************************************)
EXTENDS MessagePumpRunner

CONSTANT CommitBatchSize  \* Config.CommitBatchSize, where it is positive

ASSUME ClaimAssumption == CommitBatchSize \in Nat \ {0}

VARIABLES
  claim,     \* the goroutine Sarama runs for the claim, in ConsumeClaim or not
  fetched,   \* messages received from the claim; the last one is being handed over
  cleanup,   \* where Cleanup is: "none", "begun", "awaitRunner", "awaitCommitter", "done"
  buffered,  \* the committer is a BufferedCommitter, not a DirectCommitter
  caller,    \* calls of BufferedCommitter.Commit, see OffsetCommitter
  seen,      \* lastSeenMessage
  marked,    \* the offset up to which the session is marked, and Sarama commits
  stopped,   \* commitRequests is closed
  ended,     \* the committer's goroutine has returned
  panic      \* what the program has panicked of

committerVars == <<caller, seen, marked, stopped, ended>>
sessionVars   == <<claim, fetched, cleanup, buffered>>
claimVars     == <<allVars, sessionVars, committerVars, panic>>

Committer == INSTANCE OffsetCommitter WITH acked <- removed, crashed <- (panic # "none")

ClaimTypeOK ==
  /\ RunnerTypeOK
  /\ claim \in {"none", "receiving", "handing", "returning", "returned", "skipped"}
  /\ fetched \in received .. received + (IF received < NumMessages THEN 1 ELSE 0)
  /\ cleanup \in {"none", "begun", "awaitRunner", "awaitCommitter", "done"}
  /\ buffered \in BOOLEAN
  /\ caller \in [Messages -> {"idle", "sending", "waiting"}]
  /\ seen \in 0 .. received    \* not a message that ConsumeClaim drops
  /\ marked \in 0 .. received
  /\ stopped \in BOOLEAN
  /\ ended \in BOOLEAN
  /\ panic \in {"none", "sendOnClosed", "closeOfClosed"}

\* Setup has started the committer and the runner of the partition.
ClaimInit ==
  /\ RunnerInit
  /\ claim = "none"
  /\ fetched = 0
  /\ cleanup = "none"
  /\ buffered \in BOOLEAN
  /\ caller = [m \in Messages |-> "idle"]
  /\ seen = 0
  /\ marked = 0
  /\ stopped = FALSE
  /\ ended = FALSE
  /\ panic = "none"

Alive == panic = "none"

------------------------------------------------------------------------------
(***************************************************************************)
(* The session's context and the transporter's channel.                    *)
(***************************************************************************)

\* Cancelling a context that is cancelled already has no effect.
CancelSession ==
  /\ IF cancelled THEN UNCHANGED vars ELSE Cancel
  /\ UNCHANGED runnerVars

\* Transporter.Close: closing a closed channel panics.
Close ==
  IF closed
    THEN panic' = "closeOfClosed" /\ UNCHANGED allVars
    ELSE CloseTransporter /\ UNCHANGED <<runnerVars, panic>>

\* A re-balance, an error of the session, or the end of the program.
Revoke ==
  /\ Alive
  /\ ~cancelled
  /\ CancelSession
  /\ UNCHANGED <<sessionVars, committerVars, panic>>

------------------------------------------------------------------------------
(***************************************************************************)
(* ConsumeClaim and the goroutine that calls it.                           *)
(***************************************************************************)

\* PartionHandler.Started forgotten when ConsumeClaim returns.
Started_WhileConsuming == claim \in {"receiving", "handing"}

\* PartionHandler.Started.
ClaimStarted == claim \notin {"none", "skipped"}

\* Sarama calls ConsumeClaim after Setup, which has registered every claim: it always
\* finds its partition (ClaimsAreRegistered of KafkaSessionsProofs).
ConsumeClaim ==
  /\ Alive
  /\ claim = "none"
  /\ claim' = "receiving"
  /\ UNCHANGED <<allVars, fetched, cleanup, buffered, committerVars, panic>>

\* The session is over, or the partition cannot be read: Sarama does not call
\* ConsumeClaim, and its goroutine cancels the session.
SkipClaim ==
  /\ Alive
  /\ claim = "none"
  /\ CancelSession
  /\ claim' = "skipped"
  /\ UNCHANGED <<fetched, cleanup, buffered, committerVars, panic>>

\* The first select receives a message.
ReceiveMessage ==
  /\ Alive
  /\ claim = "receiving"
  /\ fetched < NumMessages
  /\ fetched' = fetched + 1
  /\ claim' = "handing"
  /\ UNCHANGED <<allVars, cleanup, buffered, committerVars, panic>>

\* The second select sends: the pump, waiting in its receive, takes the message.
HandOver ==
  /\ Alive
  /\ claim = "handing"
  /\ pc = "fill" /\ BufferDrained
  /\ PumpLoop
  /\ received' = received + 1
  /\ claim' = "receiving"
  /\ UNCHANGED <<fetched, cleanup, buffered, committerVars, panic>>

\* The end of ReceiveLoop.
LeaveLoop ==
  /\ Close
  /\ claim' = "returning"
  /\ UNCHANGED <<fetched, cleanup, buffered, committerVars>>

\* The claim's channel is closed: because the session is cancelled, or because
\* Sarama has given up on the partition.
MessagesEnd == Alive /\ claim = "receiving" /\ LeaveLoop

\* Both selects watch the runner; a message in hand is dropped.
RunnerEnded == Alive /\ claim \in {"receiving", "handing"} /\ RunnerDone /\ LeaveLoop

\* ConsumeClaim returns, and its goroutine cancels the session.
ClaimReturns ==
  /\ Alive
  /\ claim = "returning"
  /\ CancelSession
  /\ claim' = "returned"
  /\ UNCHANGED <<fetched, cleanup, buffered, committerVars, panic>>

------------------------------------------------------------------------------
(***************************************************************************)
(* Cleanup.                                                                *)
(***************************************************************************)

\* Sarama calls Cleanup.
CleanupBegins ==
  /\ Alive
  /\ cleanup = "none"
  /\ cancelled /\ claim \in {"returned", "skipped"}
  /\ cleanup' = "begun"
  /\ UNCHANGED <<allVars, claim, fetched, buffered, committerVars, panic>>

\* The loop over all partitions comes to this one; the transporter of a claim that was
\* never consumed is closed here.
CleanupTakes ==
  /\ Alive
  /\ cleanup = "begun"
  /\ IF ClaimStarted THEN UNCHANGED <<allVars, panic>> ELSE Close
  /\ cleanup' = "awaitRunner"
  /\ UNCHANGED <<claim, fetched, buffered, committerVars>>

\* A Cleanup that stops the committer without waiting for the runner.
StopCommitter_AtOnce ==
  /\ Alive
  /\ cleanup = "awaitRunner"
  /\ stopped' = buffered
  /\ cleanup' = "awaitCommitter"
  /\ UNCHANGED <<allVars, claim, fetched, buffered, caller, seen, marked, ended, panic>>

\* RunnerAwaiter.Err(), then Committer.Stop(), which a DirectCommitter ignores.
StopCommitter ==
  /\ Alive
  /\ cleanup = "awaitRunner"
  /\ RunnerDone
  /\ stopped' = buffered
  /\ cleanup' = "awaitCommitter"
  /\ UNCHANGED <<allVars, claim, fetched, buffered, caller, seen, marked, ended, panic>>

\* The awaiter of a DirectCommitter has been notified from the start.
CommitterEnded ==
  /\ Alive
  /\ cleanup = "awaitCommitter"
  /\ buffered => ended
  /\ cleanup' = "done"
  /\ UNCHANGED <<allVars, claim, fetched, buffered, committerVars, panic>>

------------------------------------------------------------------------------
(***************************************************************************)
(* Transporter.Delete, which calls Commit of either committer.             *)
(***************************************************************************)

\* A commit that marks nothing.
DirectCommit_Unmarked(m) ==
  /\ Alive
  /\ ~buffered
  /\ DeleteCall(m, TRUE)
  /\ UNCHANGED <<runnerVars, sessionVars, committerVars, panic>>

\* A commit that passes the offset to resume from, which Sarama adds one to.
DirectCommit_NextOffset(m) ==
  /\ Alive
  /\ ~buffered
  /\ DeleteCall(m, TRUE)
  /\ marked' = Committer!Later(marked, m + 1)
  /\ UNCHANGED <<runnerVars, sessionVars, caller, seen, stopped, ended, panic>>

\* DirectCommitter.Commit marks the message and cannot fail.  Sarama does not commit
\* what is marked after the session has been released.
DirectCommit(m) ==
  /\ Alive
  /\ ~buffered
  /\ DeleteCall(m, TRUE)
  /\ \/ marked' = Committer!Later(marked, m)
     \/ cleanup = "done" /\ UNCHANGED marked
  /\ UNCHANGED <<runnerVars, sessionVars, caller, seen, stopped, ended, panic>>

\* BufferedCommitter.Commit sends its request, ...
SendRequest(m) ==
  /\ buffered
  /\ stage[m] = "delete"
  /\ UNCHANGED <<allVars, sessionVars, panic>>
  /\ Committer!Submit(m)

\* ... which the committer's goroutine receives ...
TakeRequest(m) ==
  /\ UNCHANGED <<allVars, sessionVars, panic>>
  /\ Committer!Take(m)

\* ... and answers, with an error when the pre-commit hook fails, ...
AnswerRequest(m, ok) ==
  /\ UNCHANGED <<runnerVars, sessionVars, panic>>
  /\ DeleteCall(m, ok)
  /\ Committer!Answer(m, ok)

\* ... unless the committer is stopped: sending on the closed channel panics.
SendPanics ==
  /\ panic' = "sendOnClosed"
  /\ UNCHANGED <<allVars, sessionVars>>
  /\ Committer!Crash

\* The committer commits what it has seen, because a batch is full or after a tick.
CommitSeen ==
  /\ UNCHANGED <<allVars, sessionVars, panic>>
  /\ Committer!MarkSeen

\* The committer's goroutine finds commitRequests closed.
CommitterEnds ==
  /\ UNCHANGED <<allVars, sessionVars, panic>>
  /\ Committer!End

------------------------------------------------------------------------------
\* A step beside the session and the committer.
Apart(step) == Alive /\ step /\ UNCHANGED <<sessionVars, committerVars, panic>>

\* Steps of the runner, the handler and the pump that do not involve the
\* transporter's channel, except to find it closed.
RunnerPart == Apart(HandlerStep \/ RunStep \/ PumpAlone)

\* Steps of dispatch(m) other than Delete; Transporter.Poison does nothing.
Work(m) ==
  /\ Alive
  /\ \/ PoisonCall(m) /\ UNCHANGED runnerVars
     \/ Signal(m) /\ UNCHANGED runnerVars
     \/ \E ok \in BOOLEAN : Deliver(m, ok)
  /\ UNCHANGED <<sessionVars, committerVars, panic>>

\* The program is gone, or the session is and nothing it started is left.
ClaimTerminated ==
  /\ ~Alive \/ (cleanup = "done" /\ InFlight = {})
  /\ UNCHANGED claimVars

ClaimNext ==
  \/ Revoke
  \/ ConsumeClaim
  \/ SkipClaim
  \/ ReceiveMessage
  \/ HandOver
  \/ MessagesEnd
  \/ RunnerEnded
  \/ ClaimReturns
  \/ CleanupBegins
  \/ CleanupTakes
  \/ StopCommitter
  \/ CommitterEnded
  \/ \E m \in Messages :
       \/ Work(m)
       \/ DirectCommit(m)
       \/ SendRequest(m)
       \/ TakeRequest(m)
       \/ \E ok \in BOOLEAN : AnswerRequest(m, ok)
  \/ SendPanics
  \/ CommitSeen
  \/ CommitterEnds
  \/ RunnerPart
  \/ ClaimTerminated

ClaimSpec == ClaimInit /\ [][ClaimNext]_claimVars

(***************************************************************************)
(* Fairness, one condition per goroutine.  Sarama closes the claim's       *)
(* channel, after finitely many messages, and calls Cleanup for a session  *)
(* that is cancelled; a hook is answered, with an error, once the handler  *)
(* is gone.  Handlers and hooks may hang.                                  *)
(***************************************************************************)
ClaimGoroutine ==
  \/ ConsumeClaim
  \/ SkipClaim
  \/ HandOver
  \/ cancelled /\ MessagesEnd
  \/ RunnerEnded
  \/ ClaimReturns

CleanupGoroutine == CleanupBegins \/ CleanupTakes \/ StopCommitter \/ CommitterEnded

\* The runner's goroutine; a probe of a process that is gone fails.
RunnerGoroutine ==
  \/ DelayOver
  \/ NoProcess /\ Probe(FALSE)
  \/ OneHasEnded
  \/ HandlerHasEnded
  \/ PumpHasEnded

\* The handler manager's goroutine and the kill of the process.
HandlerGoroutine ==
  \/ LaunchHandler
  \/ LaunchFails
  \/ cancelled /\ HandlerExits
  \/ NotifyHandlerExit

ClaimFairness ==
  /\ WF_claimVars(Apart(PumpAlone))
  /\ SF_claimVars(Apart(PumpAlone /\ SelectCancelled))
  /\ WF_claimVars(Apart(RunnerGoroutine))
  /\ WF_claimVars(Apart(HandlerGoroutine))
  /\ WF_claimVars(ClaimGoroutine)
  /\ WF_claimVars(CleanupGoroutine)
  /\ WF_claimVars(CommitterEnds)
  /\ WF_claimVars(NoProcess /\ \E m \in Messages, ok \in BOOLEAN : AnswerRequest(m, ok))

ClaimFairSpec == ClaimSpec /\ ClaimFairness

------------------------------------------------------------------------------
(***************************************************************************)
(* Properties.                                                             *)
(***************************************************************************)

\* Between them, ConsumeClaim and Cleanup close the transporter's channel exactly
\* once, whether the claim was consumed or not.
ClosedExactlyOnce ==
  /\ panic # "closeOfClosed"
  /\ cleanup \notin {"none", "begun"} /\ Alive => closed

\* When a session is handed back, the partition's handler process is gone and
\* nothing feeds it any more: another instance may start its own.
ReleasedIsQuiet ==
  cleanup \in {"awaitCommitter", "done"} =>
    HandlerDone /\ PumpDone /\ claim \in {"returned", "skipped"}

\* Messages handled concurrently are marked as they finish, and the mark covers all
\* earlier offsets.  Fewer than MaxHandlers messages below the mark are neither
\* accepted nor poisoned, which for Kafka does nothing and includes messages whose handler
\* was killed.  A crash, which falls back to this mark or an earlier one, loses no more:
\* nothing with one handler.
LostBelowMark ==
  Cardinality({k \in Messages : k <= marked /\ k \notin accepted \cup poisoned}) < MaxHandlers

\* Messages that the pump considers done are marked, but for fewer than a batch with a
\* BufferedCommitter, and with a DirectCommitter for those that finish after the session
\* is released.  This is what the next session delivers again after a release, besides
\* unfinished messages.  (After a crash, also what Sarama has marked and not committed yet.)
RedeliveredAboveMark ==
  LET redelivered == {k \in removed : k > marked}
  IN  IF buffered THEN Cardinality(redelivered) < CommitBatchSize
      ELSE /\ redelivered # {} => cleanup = "done"
           /\ Cardinality(redelivered) <= MaxHandlers

\* A revoked session is cleaned up, also when handlers and hooks hang, when the claim
\* was never consumed, and while a message is being handed to a pump that is busy.
SessionEnds == cancelled ~> (cleanup = "done" \/ ~Alive)

------------------------------------------------------------------------------
(***************************************************************************)
(* The session as KafkaSessions sees it: one part of one session, from the *)
(* end of Setup.  After a panic nothing moves.                             *)
(***************************************************************************)
Part == <<1, 1>>

If(condition) == IF condition THEN {Part} ELSE {}

AtPart(value) == [i \in {Part} |-> value]

ClaimState == IF claim \in {"receiving", "handing"} THEN "consuming" ELSE claim

CommitterState ==
  IF cleanup \notin {"awaitCommitter", "done"} THEN "running"
  ELSE IF buffered /\ ~ended THEN "stopped" ELSE "ended"

Session == INSTANCE KafkaSessions WITH
  Partitions  <- {1},
  Ports       <- {"port"},
  MaxSessions <- 1,
  binder      <- IF cleanup = "none" THEN "claims" ELSE "cleanup",
  session     <- 1,
  over        <- IF cancelled THEN {1} ELSE {},
  assigned    <- {1},
  claim       <- [p \in {1} |-> ClaimState],
  handlers    <- {Part},
  cleaning    <- If(cleanup \in {"awaitRunner", "awaitCommitter"}),
  port        <- AtPart(IF RunnerDone THEN "none" ELSE "port"),
  life        <- AtPart(LifeState),
  closed      <- If(closed),
  committer   <- AtPart(CommitterState),
  cli         <- "waiting",
  interrupted <- FALSE,
  cancelled   <- FALSE

\* Every step of a partition's session is one that KafkaSessions allows, or is invisible
\* there: the order in which the claim, the handler process, the runner and the committer
\* end, across all crashes and re-balances, is the one on which its properties rest.
SessionView == [][UNCHANGED Session!vars \/ Session!SessionsNext]_claimVars

\* README: "During a re-balance event, blaster gracefully brings the current handler
\* processes down".  The program survives the end of a session.
RevokedGracefully == panic # "sendOnClosed"
==============================================================================
