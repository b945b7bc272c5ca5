--------------------------- MODULE KafkaClaimProofs ---------------------------
(***************************************************************************)
(* Proofs about KafkaClaim, for every number of messages, handlers and     *)
(* retries and every batch size: the runner of a partition is the runner   *)
(* of MessagePumpRunner; Cleanup leaves a partition closed and quiet; and  *)
(* how far the session's mark may be ahead of, or behind, the messages     *)
(* that are done.                                                          *)
(***************************************************************************)
EXTENDS KafkaClaim, MessagePumpRunnerProofs

\* The steps of the session that involve its context or the transporter's channel,
\* and those that only involve goroutines of the claim, of Cleanup or the committer.
LEMMA ContextSteps ==
  /\ Revoke \/ SkipClaim \/ ClaimReturns => [RunnerNext]_allVars
  /\ MessagesEnd \/ RunnerEnded \/ CleanupBegins \/ CleanupTakes => [RunnerNext]_allVars
  /\ ConsumeClaim \/ ReceiveMessage \/ StopCommitter \/ CommitterEnded \/ SendPanics
       \/ CommitSeen \/ CommitterEnds \/ ClaimTerminated => UNCHANGED allVars
  /\ \A m \in Messages : SendRequest(m) \/ TakeRequest(m) => UNCHANGED allVars
<1>1. CancelSession => [RunnerNext]_allVars
  BY DEF CancelSession, RunnerNext, Environment, allVars
<1>2. Close => [RunnerNext]_allVars
  BY DEF Close, RunnerNext, Environment
<1>3. QED
  BY <1>1, <1>2 DEF Revoke, SkipClaim, ClaimReturns, MessagesEnd, RunnerEnded, LeaveLoop,
       CleanupBegins, CleanupTakes, ConsumeClaim, ReceiveMessage, StopCommitter, CommitterEnded,
       SendPanics, CommitSeen, CommitterEnds, ClaimTerminated, claimVars, SendRequest, TakeRequest

\* Delete of kafka/transporter.go, with either committer, is the pump's Delete.
LEMMA DeleteSteps ==
  ASSUME NEW m \in Messages
  PROVE  DirectCommit(m) \/ (\E ok \in BOOLEAN : AnswerRequest(m, ok)) => Settle(m)
BY DEF DirectCommit, AnswerRequest, Settle

\* Whatever happens during a session is, to the runner, one of its steps or nothing.
LEMMA ClaimStepIsRunnerStep == [ClaimNext]_claimVars => [RunnerNext]_allVars
<1>1. HandOver => RunnerNext
  BY DEF HandOver, RunnerNext
<1>2. RunnerPart => RunnerNext
  BY DEF RunnerPart, Apart, PumpAlone, RunnerNext
<1>3. ASSUME NEW m \in Messages, Work(m)
      PROVE  RunnerNext
  BY <1>3 DEF Work, RunnerNext, Settle
<1>4. ASSUME NEW m \in Messages, DirectCommit(m) \/ \E ok \in BOOLEAN : AnswerRequest(m, ok)
      PROVE  RunnerNext
  BY <1>4, DeleteSteps DEF RunnerNext
<1>5. UNCHANGED claimVars => UNCHANGED allVars
  BY DEF claimVars
<1>6. QED
  BY <1>1, <1>2, <1>3, <1>4, <1>5, ContextSteps DEF ClaimNext

\* The runner that Setup starts for a partition behaves as MessagePumpRunner says.
THEOREM ClaimRunsRunner == ClaimSpec => RunnerSpec
<1>1. ClaimInit => RunnerInit
  BY DEF ClaimInit
<1>2. QED
  BY <1>1, ClaimStepIsRunnerStep, PTL DEF ClaimSpec, RunnerSpec

------------------------------------------------------------------------------
(***************************************************************************)
(* ConsumeClaim and Cleanup.                                               *)
(***************************************************************************)

\* The steps of the runner and of dispatch goroutines leave the transporter's
\* channel alone.
LEMMA WorkKeepsChannel ==
  ASSUME RunnerPart \/ \E m \in Messages : Work(m)
  PROVE  UNCHANGED <<closed, received>>
<1>1. CASE RunnerPart
  BY <1>1 DEF RunnerPart, Apart, HandlerStep, LaunchHandler, LaunchFails, HandlerServes, HandlerExits,
       NotifyHandlerExit, RunStep, DelayOver, Probe, OneHasEnded, HandlerHasEnded, PumpHasEnded,
       PumpAlone, PumpLoop, Loop, Fill, TransporterClosed, Plan, Go, Account, SelectCancelled,
       SelectReleased, SelectDefault, Return, envVars, vars
<1>2. ASSUME NEW m \in Messages, Work(m)
      PROVE  UNCHANGED <<closed, received>>
  BY <1>2 DEF Work, Deliver, DispatchCall, PoisonCall, Signal, envVars
<1>3. QED
  BY <1>1, <1>2

\* A commit, too, leaves the channel alone.
LEMMA CommitKeepsChannel ==
  ASSUME NEW m \in Messages, DirectCommit(m) \/ \E ok \in BOOLEAN : AnswerRequest(m, ok)
  PROVE  UNCHANGED <<closed, received>>
BY DEF DirectCommit, AnswerRequest, DeleteCall, envVars

\* Who has closed the channel, and what ConsumeClaim has received and handed over.
ClaimOrder ==
  /\ panic # "closeOfClosed"
  /\ cleanup # "none" => claim \in {"returned", "skipped"}
  /\ closed <=> \/ claim \in {"returning", "returned"}
                \/ claim = "skipped" /\ cleanup \notin {"none", "begun"}
  /\ fetched \in received .. received + 1 /\ fetched <= NumMessages
  /\ claim \in {"none", "receiving"} => fetched = received
  /\ claim = "handing" => fetched = received + 1

\* Every step of a session keeps them so.
LEMMA NextClaimOrder ==
  ASSUME ClaimOrder, received \in Nat, [ClaimNext]_claimVars
  PROVE  ClaimOrder'
<1>1. CASE Revoke \/ SkipClaim \/ ClaimReturns
  BY <1>1 DEF ClaimOrder, Revoke, SkipClaim, ClaimReturns, CancelSession, Cancel, sessionVars, vars,
              envVars
<1>2. CASE MessagesEnd \/ RunnerEnded
  BY <1>2 DEF ClaimOrder, MessagesEnd, RunnerEnded, LeaveLoop, Close, CloseTransporter
<1>3. CASE CleanupTakes
  <2>1. CASE ClaimStarted
    BY <1>3, <2>1 DEF ClaimOrder, CleanupTakes, ClaimStarted, allVars, vars, envVars
  <2>2. CASE ~ClaimStarted
    BY <1>3, <2>2 DEF ClaimOrder, CleanupTakes, ClaimStarted, Close, CloseTransporter
  <2>3. QED
    BY <2>1, <2>2
<1>4. CASE ConsumeClaim \/ ReceiveMessage \/ CleanupBegins \/ StopCommitter \/ CommitterEnded
  <2>1. UNCHANGED <<closed, received, panic>>
    BY <1>4 DEF CleanupBegins, ConsumeClaim, ReceiveMessage, StopCommitter, CommitterEnded, allVars,
       vars, envVars
  <2>2. QED
    BY <1>4, <2>1, PumpAssumption DEF ClaimOrder, CleanupBegins, ConsumeClaim, ReceiveMessage,
       StopCommitter, CommitterEnded
<1>5. CASE HandOver
  <2>1. UNCHANGED closed
    BY <1>5 DEF HandOver, PumpLoop, Loop, Fill, TransporterClosed, Plan, Go, Account,
       SelectCancelled, SelectReleased, SelectDefault, Return, envVars
  <2>2. QED
    BY <1>5, <2>1 DEF ClaimOrder, HandOver
<1>6. CASE RunnerPart \/ \E m \in Messages : Work(m)
  BY <1>6, WorkKeepsChannel DEF ClaimOrder, RunnerPart, Apart, Work, sessionVars
<1>7. ASSUME NEW m \in Messages, DirectCommit(m) \/ \E ok \in BOOLEAN : AnswerRequest(m, ok)
      PROVE  ClaimOrder'
  BY <1>7, CommitKeepsChannel DEF ClaimOrder, DirectCommit, AnswerRequest, sessionVars
<1>8. ASSUME \/ \E m \in Messages : SendRequest(m) \/ TakeRequest(m)
             \/ SendPanics \/ CommitSeen \/ CommitterEnds \/ ClaimTerminated \/ UNCHANGED claimVars
      PROVE  ClaimOrder'
  <2>1. UNCHANGED <<closed, received, sessionVars>>
    BY <1>8 DEF SendRequest, TakeRequest, SendPanics, CommitSeen, CommitterEnds, ClaimTerminated,
       claimVars, allVars, vars, envVars
  <2>2. panic' = panic \/ panic' = "sendOnClosed"
    BY <1>8 DEF SendRequest, TakeRequest, SendPanics, CommitSeen, CommitterEnds, ClaimTerminated,
       claimVars
  <2>3. QED
    BY <2>1, <2>2 DEF ClaimOrder, sessionVars
<1>9. QED
  BY <1>1, <1>2, <1>3, <1>4, <1>5, <1>6, <1>7, <1>8 DEF ClaimNext

\* The pump counts what it has received (NumMessages bounds it).
LEMMA ReceivedIsNat == IInv => received \in Nat
BY PumpAssumption DEF IInv, TypeOK

\* ConsumeClaim and Cleanup keep their order in every execution.
THEOREM ClaimOrdered == ClaimSpec => []ClaimOrder
<1>1. ClaimInit => ClaimOrder
  BY PumpAssumption DEF ClaimInit, RunnerInit, Init, ClaimOrder
<1>2. IInv /\ ClaimOrder /\ [ClaimNext]_claimVars => ClaimOrder'
  BY NextClaimOrder, ReceivedIsNat
<1>3. QED
  BY <1>1, <1>2, ClaimRunsRunner, RunnerRunsPump, Invariance, PTL DEF ClaimSpec

\* The transporter of every claim is closed once, by ConsumeClaim or by Cleanup.
THEOREM ClosedOnce == ClaimSpec => []ClosedExactlyOnce
<1>1. ClaimOrder => ClosedExactlyOnce
  BY DEF ClaimOrder, ClosedExactlyOnce
<1>2. QED
  BY <1>1, ClaimOrdered, PTL

\* A claim is consumed until the session is over, also by a dead handler.
ConsumedUntilOver == claim \in {"receiving", "handing"} /\ RunnerDone => cancelled

\* Both selects of ConsumeClaim watch the runner in vain: while a claim is consumed, its
\* transporter is open, and the runner ends only if the session is over anyway.
THEOREM WatchedInVain == ClaimSpec => []ConsumedUntilOver
<1>1. ClaimOrder /\ EndsInOrder => ConsumedUntilOver
  BY DEF ClaimOrder, EndsInOrder, ConsumedUntilOver
<1>2. QED
  BY <1>1, ClaimOrdered, ClaimRunsRunner, EndOrder, PTL

\* Cleanup stops the committer only after the runner has ended.
QuietOrder == cleanup \in {"awaitCommitter", "done"} => RunnerDone

\* The runner's awaiter stays notified, and Cleanup passes it in one step.
LEMMA NextQuietOrder ==
  ASSUME QuietOrder, [ClaimNext]_claimVars
  PROVE  QuietOrder'
<1>1. RunnerDone => RunnerDone'
  BY ClaimStepIsRunnerStep, RunnerStaysDone
<1>2. CASE UNCHANGED cleanup
  BY <1>1, <1>2 DEF QuietOrder
<1>3. CASE CleanupBegins \/ CleanupTakes \/ StopCommitter \/ CommitterEnded
  BY <1>1, <1>3 DEF QuietOrder, CleanupBegins, CleanupTakes, StopCommitter, CommitterEnded
<1>4. QED
  BY <1>2, <1>3 DEF ClaimNext, Revoke, ConsumeClaim, SkipClaim, ReceiveMessage, HandOver, MessagesEnd,
       RunnerEnded, LeaveLoop, ClaimReturns, Work, DirectCommit, SendRequest, TakeRequest,
       AnswerRequest, SendPanics, CommitSeen, CommitterEnds, RunnerPart, Apart, ClaimTerminated, claimVars,
       sessionVars

\* A partition whose committer has been stopped has no handler process and no pump.
THEOREM ReleasedQuiet == ClaimSpec => []ReleasedIsQuiet
<1>1. ClaimInit => QuietOrder
  BY DEF ClaimInit, QuietOrder
<1>2. QuietOrder /\ [ClaimNext]_claimVars => QuietOrder'
  BY NextQuietOrder
<1>3. QuietOrder /\ ClaimOrder /\ NoOrphans => ReleasedIsQuiet
  BY DEF QuietOrder, ClaimOrder, NoOrphans, ReleasedIsQuiet
<1>4. QED
  BY <1>1, <1>2, <1>3, ClaimOrdered, ClaimRunsRunner, OrphansNever, PTL DEF ClaimSpec

------------------------------------------------------------------------------
(***************************************************************************)
(* The committer's mark.                                                   *)
(***************************************************************************)

\* Every call of Commit is made by a dispatch goroutine that deletes its message, so
\* what the committer has seen, and marked, has been accepted by the handler.  Only a
\* BufferedCommitter is sent requests.
MarkOrder ==
  /\ caller \in [Messages -> {"idle", "sending", "waiting"}]
  /\ \A m \in Messages : caller[m] # "idle" => buffered /\ stage[m] = "delete"
  /\ seen \in accepted \cup {0}
  /\ marked \in accepted \cup {0}

\* What has been accepted stays accepted.
LEMMA AcceptedKept ==
  ASSUME IInv, [Next]_vars
  PROVE  accepted \subseteq accepted'
<1>1. CASE Go
  BY <1>1, GoStartsOldest
<1>2. ASSUME NEW m \in Messages, Dispatch(m)
      PROVE  accepted \subseteq accepted'
  BY <1>2 DEF Dispatch, DispatchCall, DeleteCall, PoisonCall, Signal, outsideVars
<1>3. QED
  BY <1>1, <1>2, LoopKeepsWork DEF Next, Loop

\* Steps that do not involve the committer leave the stages of deletion alone.
LEMMA OthersKeepDeleting ==
  ASSUME IInv, [ClaimNext]_claimVars, NEW m \in Messages, stage[m] = "delete",
         ~DirectCommit(m), \A ok \in BOOLEAN : ~AnswerRequest(m, ok)
  PROVE  stage'[m] = "delete"
<1>1. TypeOK
  BY DEF IInv
<1>2. CASE UNCHANGED <<stage, accepted, removed, poisoned>>
  BY <1>2
<1>3. CASE Go
  BY <1>1, <1>3, GoStartsOldest DEF TypeOK
<1>4. ASSUME NEW k \in Messages,
             \/ Work(k) \/ DirectCommit(k) \/ \E ok \in BOOLEAN : AnswerRequest(k, ok)
      PROVE  stage'[m] = "delete"
  BY <1>1, <1>4 DEF Work, Deliver, DispatchCall, PoisonCall, Signal, DirectCommit, AnswerRequest,
                    DeleteCall, MoveTo, Retry, TypeOK
<1>5. CASE RunnerPart \/ HandOver
  BY <1>2, <1>3, <1>5, LoopKeepsWork DEF RunnerPart, Apart, PumpAlone, PumpLoop, Loop, HandOver, HandlerStep,
       LaunchHandler, LaunchFails, HandlerServes, HandlerExits, NotifyHandlerExit, RunStep, DelayOver,
       Probe, OneHasEnded, HandlerHasEnded, PumpHasEnded, vars, outsideVars, workVars
<1>6. CASE UNCHANGED vars \/ Cancel \/ CloseTransporter
  BY <1>2, <1>6, LoopKeepsWork
<1>7. QED
  BY <1>4, <1>5, <1>6 DEF ClaimNext, Revoke, SkipClaim, ClaimReturns, CancelSession, MessagesEnd,
       RunnerEnded, LeaveLoop, Close, CleanupBegins, CleanupTakes, ConsumeClaim, ReceiveMessage,
       StopCommitter, CommitterEnded, SendPanics, CommitSeen, CommitterEnds, ClaimTerminated, SendRequest,
       TakeRequest, claimVars, allVars

\* Offsets are numbers, and the later of two is one of them.
LEMMA LaterOfTwo ==
  ASSUME NEW S, NEW a \in S \cup {0}, NEW b \in S \cup {0}
  PROVE  Committer!Later(a, b) \in S \cup {0}
BY DEF Committer!Later

\* Every step of a session keeps the committer's book about accepted messages.
LEMMA NextMarkOrder ==
  ASSUME IInv, FateConsistent, MarkOrder, [ClaimNext]_claimVars
  PROVE  MarkOrder'
<1>1. accepted \subseteq accepted'
  BY AcceptedKept, ClaimStepIsRunnerStep, RunnerStepIsPumpStep
<1>2. \A m \in Messages : stage[m] = "delete" => m \in accepted
  BY DEF FateConsistent
<1>3. TypeOK
  BY DEF IInv
<1>4. ASSUME NEW m \in Messages, DirectCommit(m)
      PROVE  MarkOrder'
  <2>1. ~buffered /\ UNCHANGED <<caller, seen, buffered>> /\ m \in accepted
    BY <1>2, <1>4 DEF DirectCommit, DeleteCall, sessionVars
  <2>2. marked' \in accepted \cup {0}
    BY <1>4, <2>1, LaterOfTwo DEF DirectCommit, MarkOrder
  <2>3. QED
    BY <1>1, <2>1, <2>2 DEF MarkOrder
<1>5. ASSUME NEW m \in Messages, NEW ok \in BOOLEAN, AnswerRequest(m, ok)
      PROVE  MarkOrder'
  <2>1. /\ caller' = [caller EXCEPT ![m] = "idle"]
        /\ UNCHANGED <<seen, marked, buffered>>
    BY <1>5 DEF AnswerRequest, Committer!Answer, sessionVars
  <2>2. \A k \in Messages \ {m} : stage'[k] = stage[k]
    BY <1>3, <1>5 DEF AnswerRequest, DeleteCall, MoveTo, Retry, TypeOK
  <2>3. QED
    BY <1>1, <2>1, <2>2 DEF MarkOrder
<1>6. ASSUME NEW m \in Messages, SendRequest(m) \/ TakeRequest(m)
      PROVE  MarkOrder'
  <2>1. UNCHANGED <<stage, accepted, buffered, marked>>
    BY <1>6 DEF SendRequest, TakeRequest, Committer!Submit, Committer!Take, sessionVars, allVars, vars,
                workVars, outsideVars
  <2>2. CASE SendRequest(m)
    BY <2>1, <2>2 DEF MarkOrder, SendRequest, Committer!Submit
  <2>3. CASE TakeRequest(m)
    <3>1. m \in accepted
      BY <1>2, <2>3 DEF MarkOrder, TakeRequest, Committer!Take
    <3>2. seen' \in accepted \cup {0}
      BY <2>3, <3>1, LaterOfTwo DEF MarkOrder, TakeRequest, Committer!Take
    <3>3. QED
      BY <2>1, <2>3, <3>2 DEF MarkOrder, TakeRequest, Committer!Take
  <2>4. QED
    BY <1>6, <2>2, <2>3
<1>7. CASE CommitSeen
  <2>1. UNCHANGED <<stage, accepted, buffered, caller>> /\ seen' = 0
    BY <1>7 DEF CommitSeen, Committer!MarkSeen, sessionVars, allVars, vars, workVars, outsideVars
  <2>2. marked' \in accepted \cup {0}
    BY <1>7, LaterOfTwo DEF CommitSeen, Committer!MarkSeen, MarkOrder
  <2>3. QED
    BY <2>1, <2>2 DEF MarkOrder
<1>8. ASSUME UNCHANGED <<caller, seen, marked, buffered>>,
             \A m \in Messages : ~DirectCommit(m) /\ \A ok \in BOOLEAN : ~AnswerRequest(m, ok)
      PROVE  MarkOrder'
  BY <1>1, <1>8, OthersKeepDeleting DEF MarkOrder
<1>9. ASSUME \/ Revoke \/ SkipClaim \/ ClaimReturns \/ MessagesEnd \/ RunnerEnded
             \/ CleanupBegins \/ CleanupTakes
             \/ ConsumeClaim \/ ReceiveMessage \/ StopCommitter \/ CommitterEnded \/ HandOver
             \/ RunnerPart \/ \E m \in Messages : Work(m)
             \/ SendPanics \/ CommitterEnds \/ ClaimTerminated \/ UNCHANGED claimVars
      PROVE  UNCHANGED <<caller, seen, marked, buffered>>
  BY <1>9 DEF Revoke, SkipClaim, ClaimReturns, MessagesEnd, RunnerEnded, LeaveLoop, CleanupBegins,
       CleanupTakes, ConsumeClaim, ReceiveMessage, StopCommitter, CommitterEnded, HandOver, RunnerPart, Apart, Work,
       SendPanics, Committer!Crash, CommitterEnds, Committer!End, ClaimTerminated, claimVars,
       committerVars, sessionVars
<1>10. QED
  BY <1>4, <1>5, <1>6, <1>7, <1>8, <1>9 DEF ClaimNext

\* The committer knows only accepted messages, in every execution.
THEOREM MarksAccepted == ClaimSpec => []MarkOrder
<1>1. ClaimInit => MarkOrder
  BY DEF ClaimInit, MarkOrder
<1>2. IInv /\ FateConsistent /\ MarkOrder /\ [ClaimNext]_claimVars => MarkOrder'
  BY NextMarkOrder
<1>3. QED
  BY <1>1, <1>2, ClaimRunsRunner, RunnerRunsPump, Invariance, Fates, PTL DEF ClaimSpec

\* When the program stops at any point, with marks made in whatever order, the next
\* session skips fewer than MaxHandlers messages that the pump has neither handed over nor
\* given up (poisoned, also when the handler was killed).
THEOREM FewLostBelowMark == ClaimSpec => []LostBelowMark
<1>1. ASSUME TypeOK, FateConsistent, OvertakingBound, MarkOrder
      PROVE  LostBelowMark
  <2> DEFINE lost == {k \in Messages : k <= marked /\ k \notin accepted \cup poisoned}
  <2>1. CASE marked = 0
    <3>1. lost = {}
      BY <2>1 DEF Messages
    <3>2. QED
      BY <3>1, FS_EmptySet, PumpAssumption DEF LostBelowMark
  <2>2. CASE marked \in accepted /\ marked \in Messages
    <3>1. stage[marked] # "idle"
      BY <1>1, <2>2 DEF FateConsistent
    <3>2. Cardinality(Behind(marked)) < MaxHandlers
      BY <1>1, <2>2, <3>1 DEF OvertakingBound
    <3>3. lost \subseteq Behind(marked)
      BY <1>1, <2>2 DEF FateConsistent, Behind, Messages
    <3>4. /\ IsFiniteSet(Behind(marked)) /\ Cardinality(Behind(marked)) \in Nat
          /\ Cardinality(lost) \in Nat /\ Cardinality(lost) <= Cardinality(Behind(marked))
      <4>1. IsFiniteSet(Behind(marked)) /\ Cardinality(Behind(marked)) \in Nat
        BY MessageSets
      <4>2. QED
        BY <3>3, <4>1, FS_Subset, FS_CardinalityType
    <3>5. QED
      BY <3>2, <3>4, PumpAssumption DEF LostBelowMark
  <2>3. QED
    BY <1>1, <2>1, <2>2 DEF MarkOrder, TypeOK
<1>2. QED
  BY <1>1, MarksAccepted, ClaimRunsRunner, RunnerRunsPump, TypeCorrect, Fates, OvertakingBounded, PTL

------------------------------------------------------------------------------
(***************************************************************************)
(* What the next session delivers again.                                   *)
(***************************************************************************)
Redelivered == {k \in removed : k > marked}

\* Fewer than a batch with a BufferedCommitter.  A DirectCommitter marks at once; of
\* what it no longer marks after the session, all was in work when the session ended.
RedeliveryBook ==
  /\ buffered => Cardinality(Redelivered) < CommitBatchSize
  /\ ~buffered /\ cleanup # "done" => Redelivered = {}
  /\ ~buffered /\ cleanup = "done" => Cardinality(Redelivered \cup InFlight) <= MaxHandlers

\* The committer of kafka/direct_committer.go or kafka/buffered_committer.go counts as
\* the pump does.
LEMMA CommitterCardinality == \A S : Committer!Cardinality(S) = Cardinality(S)
BY DEF Cardinality, Committer!Cardinality, IsFiniteSet, Committer!IsFiniteSet

\* Once the loop has returned no goroutine is started.
LEMMA NoneStartedAfterLoop ==
  ASSUME IInv, pc = "exited", [Next]_vars
  PROVE  InFlight' \subseteq InFlight
<1>1. TypeOK
  BY DEF IInv
<1>2. CASE UNCHANGED stage
  BY <1>2 DEF InFlight
<1>3. ASSUME NEW m \in Messages, Dispatch(m)
      PROVE  InFlight' \subseteq InFlight
  BY <1>1, <1>3 DEF Dispatch, DispatchCall, DeleteCall, PoisonCall, Signal, MoveTo, Retry, TypeOK,
                    InFlight
<1>4. QED
  BY <1>2, <1>3, LoopKeepsWork DEF Next, Loop, Go

\* Only a call of Delete removes a message.
LEMMA OthersKeepRemoved ==
  ASSUME [ClaimNext]_claimVars,
         \A m \in Messages : ~DirectCommit(m) /\ \A ok \in BOOLEAN : ~AnswerRequest(m, ok)
  PROVE  removed' = removed
<1>1. CASE UNCHANGED vars \/ Cancel \/ CloseTransporter
  BY <1>1, LoopKeepsWork
<1>2. CASE RunnerPart \/ HandOver
  BY <1>2, LoopKeepsWork DEF RunnerPart, Apart, PumpAlone, PumpLoop, Loop, Go, HandOver, HandlerStep,
       LaunchHandler, LaunchFails, HandlerServes, HandlerExits, NotifyHandlerExit, RunStep, DelayOver,
       Probe, OneHasEnded, HandlerHasEnded, PumpHasEnded, vars, outsideVars
<1>3. ASSUME NEW m \in Messages, Work(m)
      PROVE  removed' = removed
  BY <1>3 DEF Work, Deliver, DispatchCall, PoisonCall, Signal, outsideVars
<1>4. QED
  BY <1>1, <1>2, <1>3 DEF ClaimNext, Revoke, SkipClaim, ClaimReturns, CancelSession, MessagesEnd,
       RunnerEnded, LeaveLoop, Close, CleanupBegins, CleanupTakes, ConsumeClaim, ReceiveMessage,
       StopCommitter, CommitterEnded, SendPanics, CommitSeen, CommitterEnds, ClaimTerminated, SendRequest,
       TakeRequest, claimVars, allVars

\* The mark never moves back.
LEMMA MarkGrows ==
  ASSUME TypeOK, MarkOrder, [ClaimNext]_claimVars
  PROVE  marked \in Nat /\ marked' \in Nat /\ marked <= marked'
<1>1. marked \in Nat /\ seen \in Nat /\ Messages \subseteq Nat
  BY DEF MarkOrder, TypeOK, Messages
<1>2. CASE UNCHANGED marked
  BY <1>1, <1>2
<1>3. ASSUME NEW m \in Messages, DirectCommit(m)
      PROVE  marked' \in Nat /\ marked <= marked'
  BY <1>1, <1>3 DEF DirectCommit, Committer!Later
<1>4. CASE CommitSeen
  BY <1>1, <1>4 DEF CommitSeen, Committer!MarkSeen, Committer!Later
<1>5. QED
  BY <1>1, <1>2, <1>3, <1>4 DEF ClaimNext, Revoke, SkipClaim, ClaimReturns, MessagesEnd,
       RunnerEnded, LeaveLoop, CleanupBegins, CleanupTakes, ConsumeClaim, ReceiveMessage,
       StopCommitter, CommitterEnded, HandOver, RunnerPart, Apart, Work, SendRequest, Committer!Submit, TakeRequest,
       Committer!Take, AnswerRequest, Committer!Answer, SendPanics, Committer!Crash, CommitterEnds,
       Committer!End, ClaimTerminated, claimVars, committerVars

\* Messages are finitely many, in this state and in the next.
LEMMA BookFinite ==
  ASSUME TypeOK, TypeOK'
  PROVE  /\ IsFiniteSet(Redelivered) /\ IsFiniteSet(Redelivered \cup InFlight)
         /\ Cardinality(Redelivered) \in Nat /\ Cardinality(Redelivered \cup InFlight) \in Nat
         /\ Cardinality(Redelivered') \in Nat
         /\ Cardinality(Redelivered' \cup InFlight') \in Nat
<1>1. IsFiniteSet(Messages)
  BY FS_Interval, PumpAssumption DEF Messages
<1>2. /\ Redelivered \subseteq Messages /\ Redelivered \cup InFlight \subseteq Messages
      /\ Redelivered' \subseteq Messages /\ Redelivered' \cup InFlight' \subseteq Messages
  BY DEF TypeOK, Redelivered, InFlight
<1>3. QED
  BY <1>1, <1>2, FS_Subset, FS_CardinalityType

\* Cleanup ends once, and the kind of the committer is configured.
LEMMA CleanupStaysDone ==
  ASSUME [ClaimNext]_claimVars
  PROVE  /\ buffered' = buffered
         /\ cleanup = "done" => cleanup' = "done"
         /\ cleanup # "done" /\ cleanup' = "done" => CommitterEnded
BY DEF ClaimNext, Revoke, SkipClaim, ClaimReturns, MessagesEnd, RunnerEnded, LeaveLoop,
       CleanupBegins, CleanupTakes, ConsumeClaim, ReceiveMessage, StopCommitter, CommitterEnded, HandOver,
       RunnerPart, Apart, Work, DirectCommit, SendRequest, TakeRequest, AnswerRequest, SendPanics,
       CommitSeen, CommitterEnds, ClaimTerminated, claimVars, sessionVars

\* Every step of a session keeps the book of what will be delivered again.
LEMMA NextRedelivery ==
  ASSUME IInv, IInv', MarkOrder, QuietOrder, EndsInOrder, RedeliveryBook, [ClaimNext]_claimVars
  PROVE  RedeliveryBook'
<1>1. TypeOK /\ TypeOK' /\ [Next]_vars
  BY ClaimStepIsRunnerStep, RunnerStepIsPumpStep DEF IInv
<1>2. /\ marked \in Nat /\ marked' \in Nat /\ marked <= marked'
      /\ \A k \in removed \cup Messages : k \in Nat
  <2>1. Messages \subseteq Nat /\ removed \subseteq Messages
    BY <1>1 DEF TypeOK, Messages
  <2>2. QED
    BY <1>1, <2>1, MarkGrows
<1>3. removed' = removed => Redelivered' \subseteq Redelivered
  BY <1>2 DEF Redelivered
<1>4. cleanup = "done" => InFlight' \subseteq InFlight
  BY <1>1, NoneStartedAfterLoop DEF QuietOrder, EndsInOrder, PumpDone
<1>5. CASE buffered
  <2>1. ASSUME NEW m \in Messages, NEW ok \in BOOLEAN, AnswerRequest(m, ok)
        PROVE  Cardinality(Redelivered') < CommitBatchSize
    <3>1. /\ marked' = marked
          /\ Committer!Cardinality({k \in removed' : k > marked}) < CommitBatchSize
      BY <2>1 DEF AnswerRequest, Committer!Answer
    <3>2. QED
      BY <3>1, CommitterCardinality DEF Redelivered
  <2>2. CASE removed' = removed
    <3>1. Cardinality(Redelivered') <= Cardinality(Redelivered)
      BY <1>1, <1>3, <2>2, BookFinite, FS_Subset
    <3>2. QED
      <4>1. /\ Cardinality(Redelivered) \in Nat /\ Cardinality(Redelivered') \in Nat
            /\ CommitBatchSize \in Nat
        BY <1>1, BookFinite, ClaimAssumption
      <4>2. Cardinality(Redelivered) < CommitBatchSize
        BY <1>5 DEF RedeliveryBook
      <4>3. Cardinality(Redelivered') < CommitBatchSize
        BY <3>1, <4>1, <4>2
      <4>4. QED
        BY <1>5, <4>3, CleanupStaysDone DEF RedeliveryBook
  <2>3. \A m \in Messages : ~DirectCommit(m)
    BY <1>5 DEF DirectCommit
  <2>4. QED
    BY <1>5, <2>1, <2>2, <2>3, OthersKeepRemoved, CleanupStaysDone DEF RedeliveryBook
<1>6. CASE ~buffered
  <2>1. \A m \in Messages, ok \in BOOLEAN : ~AnswerRequest(m, ok)
    BY <1>6 DEF AnswerRequest, Committer!Answer, MarkOrder
  <2>2. ASSUME NEW m \in Messages, DirectCommit(m)
        PROVE  /\ cleanup' = cleanup /\ m \in InFlight /\ Redelivered' \subseteq Redelivered \cup {m}
               /\ cleanup # "done" => Redelivered' \subseteq Redelivered
    <3>1. /\ removed' = removed \cup {m} /\ cleanup' = cleanup /\ stage[m] = "delete"
          /\ cleanup # "done" => marked' = Committer!Later(marked, m)
      BY <2>2 DEF DirectCommit, DeleteCall, sessionVars
    <3>2. cleanup # "done" => ~(m > marked')
      BY <1>2, <3>1 DEF Committer!Later, Messages
    <3>3. QED
      BY <1>2, <3>1, <3>2 DEF Redelivered, InFlight
  <2>3. CASE cleanup # "done"
    <3>1. Redelivered' \subseteq Redelivered
      BY <1>3, <2>1, <2>2, <2>3, OthersKeepRemoved
    <3>2. Redelivered' = {}
      BY <1>6, <2>3, <3>1 DEF RedeliveryBook
    <3>3. Cardinality(Redelivered' \cup InFlight') <= MaxHandlers
      <4>1. MaxHandlersRespected'
        BY SlotsSuffice, PTL
      <4>2. QED
        BY <3>2, <4>1 DEF MaxHandlersRespected
    <3>4. QED
      BY <1>6, <3>2, <3>3, CleanupStaysDone DEF RedeliveryBook
  <2>4. CASE cleanup = "done"
    <3>1. Redelivered' \cup InFlight' \subseteq Redelivered \cup InFlight
      BY <1>3, <1>4, <2>1, <2>2, <2>4, OthersKeepRemoved
    <3>2. Cardinality(Redelivered' \cup InFlight') <= Cardinality(Redelivered \cup InFlight)
      BY <1>1, <3>1, BookFinite, FS_Subset
    <3>3. QED
      BY <1>1, <1>6, <2>4, <3>2, BookFinite, PumpAssumption, CleanupStaysDone DEF RedeliveryBook
  <2>5. QED
    BY <2>3, <2>4
<1>7. QED
  BY <1>5, <1>6

\* Whenever a session is released, the next one delivers fewer than a batch of messages again
\* that the pump took for done, or at most MaxHandlers with a DirectCommitter.
THEOREM FewRedelivered == ClaimSpec => []RedeliveredAboveMark
<1>1. ClaimInit => RedeliveryBook
  <2>1. ASSUME ClaimInit PROVE Redelivered = {} /\ cleanup # "done"
    BY <2>1 DEF ClaimInit, RunnerInit, Init, Redelivered
  <2>2. QED
    BY <2>1, FS_EmptySet, ClaimAssumption DEF RedeliveryBook
<1>2. ClaimInit => QuietOrder
  BY DEF ClaimInit, QuietOrder
<1>3. QuietOrder /\ [ClaimNext]_claimVars => QuietOrder'
  BY NextQuietOrder
<1>4. /\ IInv /\ IInv' /\ MarkOrder /\ QuietOrder /\ EndsInOrder /\ RedeliveryBook
      /\ [ClaimNext]_claimVars
      => RedeliveryBook'
  BY NextRedelivery
<1>5. ASSUME TypeOK, TypeOK', RedeliveryBook
      PROVE  RedeliveredAboveMark
  <2> DEFINE redelivered == {k \in removed : k > marked}
  <2>1. CASE buffered
    BY <1>5, <2>1 DEF RedeliveryBook, RedeliveredAboveMark, Redelivered
  <2>2. CASE ~buffered
    <3>1. Cardinality(Redelivered) <= MaxHandlers
      <4>1. CASE cleanup # "done"
        BY <1>5, <2>2, <4>1, FS_EmptySet, PumpAssumption DEF RedeliveryBook
      <4>2. CASE cleanup = "done"
        <5>1. Cardinality(Redelivered \cup InFlight) <= MaxHandlers
          BY <1>5, <2>2, <4>2 DEF RedeliveryBook
        <5>2. /\ Cardinality(Redelivered) <= Cardinality(Redelivered \cup InFlight)
              /\ Cardinality(Redelivered) \in Nat /\ Cardinality(Redelivered \cup InFlight) \in Nat
          BY <1>5, BookFinite, FS_Subset
        <5>3. QED
          BY <5>1, <5>2, PumpAssumption
      <4>3. QED
        BY <4>1, <4>2
    <3>2. redelivered # {} => cleanup = "done"
      BY <1>5, <2>2 DEF RedeliveryBook, Redelivered
    <3>3. QED
      BY <2>2, <3>1, <3>2 DEF RedeliveredAboveMark, Redelivered
  <2>3. QED
    BY <1>5, <2>1, <2>2
<1>6. QED
  BY <1>1, <1>2, <1>3, <1>4, <1>5, MarksAccepted, ClaimRunsRunner, EndOrder, RunnerRunsPump,
     TypeCorrect, Invariance, PTL DEF ClaimSpec

------------------------------------------------------------------------------
(***************************************************************************)
(* Types.                                                                  *)
(***************************************************************************)

\* The variables whose types no other invariant gives.
Flags ==
  /\ claim \in {"none", "receiving", "handing", "returning", "returned", "skipped"}
  /\ cleanup \in {"none", "begun", "awaitRunner", "awaitCommitter", "done"}
  /\ buffered \in BOOLEAN
  /\ stopped \in BOOLEAN
  /\ ended \in BOOLEAN
  /\ panic \in {"none", "sendOnClosed", "closeOfClosed"}

\* Every step of a session keeps their types.
LEMMA NextFlags ==
  ASSUME Flags, [ClaimNext]_claimVars
  PROVE  Flags'
<1>1. CASE Revoke \/ SkipClaim \/ ClaimReturns \/ ConsumeClaim \/ ReceiveMessage \/ HandOver
           \/ RunnerPart \/ \E m \in Messages : Work(m)
  BY <1>1 DEF Flags, Revoke, SkipClaim, ClaimReturns, ConsumeClaim, ReceiveMessage, HandOver,
       RunnerPart, Apart, Work, sessionVars, committerVars
<1>2. CASE MessagesEnd \/ RunnerEnded \/ CleanupBegins \/ CleanupTakes
  BY <1>2 DEF Flags, MessagesEnd, RunnerEnded, LeaveLoop, CleanupBegins, CleanupTakes, Close,
       committerVars
<1>3. CASE StopCommitter \/ CommitterEnded
  BY <1>3 DEF Flags, StopCommitter, CommitterEnded, committerVars
<1>4. ASSUME NEW m \in Messages, \/ DirectCommit(m) \/ SendRequest(m) \/ TakeRequest(m)
                                 \/ \E ok \in BOOLEAN : AnswerRequest(m, ok)
      PROVE  Flags'
  BY <1>4 DEF Flags, DirectCommit, SendRequest, Committer!Submit, TakeRequest, Committer!Take,
       AnswerRequest, Committer!Answer, sessionVars
<1>5. CASE SendPanics \/ CommitSeen \/ CommitterEnds \/ ClaimTerminated \/ UNCHANGED claimVars
  BY <1>5 DEF Flags, SendPanics, Committer!Crash, CommitSeen, Committer!MarkSeen, CommitterEnds,
       Committer!End, ClaimTerminated, claimVars, sessionVars, committerVars
<1>6. QED
  BY <1>1, <1>2, <1>3, <1>4, <1>5 DEF ClaimNext

\* What the handler has accepted, the pump has received.
LEMMA AcceptedReceived ==
  ASSUME IInv, FateConsistent
  PROVE  accepted \subseteq 1 .. received
<1>1. Len(buffer) \in Nat /\ spawned \in Nat /\ received \in Nat /\ spawned <= Len(buffer)
  BY Numbers, ReceivedIsNat DEF IInv, LoopBounds, TypeOK
<1>2. Started <= received /\ Started \in Int
  BY <1>1 DEF Started
<1>3. \A m \in accepted : m \in Messages /\ m <= Started
  BY <1>2 DEF IInv, TypeOK, FateConsistent, NothingSkipped, Messages
<1>4. QED
  BY <1>1, <1>2, <1>3, PumpAssumption DEF Messages

\* A partition's session is type correct; neither the mark nor what is to be marked next
\* is beyond what the pump has received, and so neither covers a message that is still in
\* ConsumeClaim's hands, or has been dropped there.
THEOREM ClaimTypeCorrect == ClaimSpec => []ClaimTypeOK
<1>1. ClaimInit => Flags
  BY DEF ClaimInit, Flags
<1>2. Flags /\ [ClaimNext]_claimVars => Flags'
  BY NextFlags
<1>3. ASSUME IInv, FateConsistent, RunnerTypeOK, Flags, ClaimOrder, MarkOrder
      PROVE  ClaimTypeOK
  <2>1. TypeOK
    BY <1>3 DEF RunnerTypeOK
  <2>2. seen \in 0 .. received /\ marked \in 0 .. received
    BY <1>3, AcceptedReceived, ReceivedIsNat DEF MarkOrder
  <2>3. fetched \in received .. received + (IF received < NumMessages THEN 1 ELSE 0)
    BY <1>3, <2>1, PumpAssumption DEF ClaimOrder, TypeOK
  <2>4. QED
    BY <1>3, <2>2, <2>3 DEF ClaimTypeOK, Flags, MarkOrder
<1>4. QED
  BY <1>1, <1>2, <1>3, ClaimOrdered, MarksAccepted, ClaimRunsRunner, RunnerRunsPump, Invariance,
     Fates, RunnerTypeCorrect, PTL DEF ClaimSpec
==============================================================================
