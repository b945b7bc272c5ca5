------------------------- MODULE KafkaClaimRefinement -------------------------
(***************************************************************************)
(* Proofs that KafkaClaim fits between the specifications it is built on   *)
(* and the one that is built on it, for every number of messages, handlers *)
(* and retries and every batch size: its committer, when it batches, is an *)
(* OffsetCommitter, whatever the session does to it, and every step of a   *)
(* partition's session is one that KafkaSessions allows.                   *)
(***************************************************************************)
EXTENDS KafkaClaimProofs

(***************************************************************************)
(* What the refinements need to know of the order of Cleanup.              *)
(***************************************************************************)

\* Cleanup runs for a session that is over, stops the committer with its last step but
\* one, and is through when a BufferedCommitter has ended.
CleanupOrder ==
  /\ cleanup # "none" => cancelled
  /\ stopped <=> buffered /\ cleanup \in {"awaitCommitter", "done"}
  /\ ended => stopped
  /\ cleanup = "done" /\ buffered => ended

\* A step of the pump, the runner or the handler process, or of none of these goroutines.
LEMMA CancelledStays ==
  ASSUME [ClaimNext]_claimVars, cancelled
  PROVE  cancelled'
BY ClaimStepIsRunnerStep, RunnerStepIsPumpStep, PumpStaysDone

\* Every step of a session keeps Cleanup in order.
LEMMA NextCleanupOrder ==
  ASSUME Flags, CleanupOrder, [ClaimNext]_claimVars
  PROVE  CleanupOrder'
<1>1. CASE UNCHANGED <<cleanup, buffered, stopped, ended>>
  BY <1>1, CancelledStays DEF CleanupOrder
<1>2. CASE CleanupBegins \/ CleanupTakes \/ StopCommitter \/ CommitterEnded
  <2>1. cancelled'
    BY <1>2, CancelledStays DEF CleanupOrder, CleanupBegins, CleanupTakes, StopCommitter,
       CommitterEnded
  <2>2. QED
    BY <1>2, <2>1 DEF Flags, CleanupOrder, CleanupBegins, CleanupTakes, StopCommitter, CommitterEnded,
       committerVars
<1>3. CASE CommitterEnds
  BY <1>3, CancelledStays DEF CleanupOrder, CommitterEnds, Committer!End, sessionVars
<1>4. QED
  BY <1>1, <1>2, <1>3 DEF ClaimNext, Revoke, ConsumeClaim, SkipClaim, ReceiveMessage, HandOver,
       MessagesEnd, RunnerEnded, LeaveLoop, ClaimReturns, Work, DirectCommit, SendRequest, TakeRequest,
       AnswerRequest, SendPanics, CommitSeen, RunnerPart, Apart, ClaimTerminated, claimVars, sessionVars,
       committerVars, Committer!Submit, Committer!Take, Committer!Answer, Committer!Crash,
       Committer!MarkSeen

\* Flags is the part of the type invariant that the proofs use.
LEMMA FlagsCorrect == ClaimSpec => []Flags
<1>1. ClaimInit => Flags
  BY DEF ClaimInit, Flags
<1>2. Flags /\ [ClaimNext]_claimVars => Flags'
  BY NextFlags
<1>3. QED
  BY <1>1, <1>2, PTL DEF ClaimSpec

\* Cleanup is begun only for a session that is over: the runner it waits for has been told
\* to end.
THEOREM CleanupOrdered == ClaimSpec => []CleanupOrder
<1>1. ClaimInit => CleanupOrder
  BY DEF ClaimInit, CleanupOrder
<1>2. Flags /\ CleanupOrder /\ [ClaimNext]_claimVars => CleanupOrder'
  BY NextCleanupOrder
<1>3. QED
  BY <1>1, <1>2, FlagsCorrect, PTL DEF ClaimSpec

\* The runner that Cleanup waits for has lost its transporter and its context, whether or
\* not the claim was consumed, and it takes only finitely many more steps, whatever the
\* session, the committer and the goroutines of dispatch still do.
THEOREM AwaitedWindsDown ==
  ClaimSpec => /\ [](cleanup = "awaitRunner" => closed /\ cancelled)
               /\ RunnerWindsDown
<1>1. ClaimOrder /\ CleanupOrder => (cleanup = "awaitRunner" => closed /\ cancelled)
  BY DEF ClaimOrder, CleanupOrder
<1>2. QED
  BY <1>1, ClaimOrdered, CleanupOrdered, ClaimRunsRunner, RunnerEnds, PTL

------------------------------------------------------------------------------
(***************************************************************************)
(* The committer within a session is an OffsetCommitter.                   *)
(***************************************************************************)

contractVars == <<caller, seen, removed, marked, stopped, ended, panic>>

\* The pump removes messages with Delete alone.
LEMMA OnlyDeleteRemoves ==
  /\ RunnerPart \/ HandOver => UNCHANGED removed
  /\ \A m \in Messages : Work(m) => UNCHANGED removed
  /\ CancelSession \/ Close => UNCHANGED removed
<1>1. Loop => UNCHANGED removed
  BY DEF Loop, Fill, TransporterClosed, Plan, Go, Account, SelectCancelled, SelectReleased,
         SelectDefault, Return, outsideVars
<1>2. HandlerStep \/ RunStep => UNCHANGED removed
  BY DEF HandlerStep, LaunchHandler, LaunchFails, HandlerServes, HandlerExits, NotifyHandlerExit,
         RunStep, DelayOver, Probe, OneHasEnded, HandlerHasEnded, PumpHasEnded, vars, outsideVars
<1>3. RunnerPart \/ HandOver => UNCHANGED removed
  BY <1>1, <1>2 DEF RunnerPart, Apart, HandOver, PumpAlone, PumpLoop
<1>4. ASSUME NEW m \in Messages, Work(m)
      PROVE  UNCHANGED removed
  BY <1>4 DEF Work, PoisonCall, Signal, Deliver, DispatchCall, outsideVars
<1>5. CancelSession \/ Close => UNCHANGED removed
  BY DEF CancelSession, Cancel, Close, CloseTransporter, allVars, vars, outsideVars
<1>6. QED
  BY <1>3, <1>4, <1>5

\* The steps of a session that are steps of its committer.
LEMMA CommitterSteps ==
  ASSUME buffered, CleanupOrder,
         \/ \E m \in Messages : \/ DirectCommit(m) \/ SendRequest(m) \/ TakeRequest(m)
                                \/ \E ok \in BOOLEAN : AnswerRequest(m, ok)
         \/ StopCommitter \/ SendPanics \/ CommitSeen \/ CommitterEnds
  PROVE  Committer!Next
<1>1. CASE StopCommitter
  <2>1. ~stopped /\ stopped' /\ UNCHANGED <<removed, caller, seen, marked, ended, panic>>
    BY <1>1 DEF StopCommitter, CleanupOrder, allVars, vars, outsideVars
  <2>2. QED
    BY <1>1, <2>1 DEF StopCommitter, Alive, Committer!Stop, Committer!Next
<1>2. ASSUME NEW m \in Messages, \/ SendRequest(m) \/ TakeRequest(m)
                                 \/ \E ok \in BOOLEAN : AnswerRequest(m, ok)
      PROVE  Committer!Next
  BY <1>2 DEF SendRequest, TakeRequest, AnswerRequest, Committer!Next, Committer!Messages, Messages
<1>3. CASE SendPanics \/ CommitSeen \/ CommitterEnds
  BY <1>3 DEF SendPanics, CommitSeen, CommitterEnds, Committer!Next
<1>4. ~\E m \in Messages : DirectCommit(m)
  BY DEF DirectCommit
<1>5. QED
  BY <1>1, <1>2, <1>3, <1>4

\* A BufferedCommitter that Setup chose for a partition stays it, and takes no step that
\* OffsetCommitter does not allow: neither re-balances, nor crashes of the handler, nor
\* Cleanup can make it forget an offset or expose a batch.
THEOREM ClaimKeepsContract == ClaimSpec => (buffered => Committer!Spec)
<1>1. ClaimInit => Committer!Init
  BY DEF ClaimInit, RunnerInit, Init, Committer!Init, Committer!Messages, Messages
<1>2. ASSUME ClaimOrder', CleanupOrder, buffered, [ClaimNext]_claimVars
      PROVE  [Committer!Next]_(Committer!vars)
  <2>1. CASE UNCHANGED contractVars
    BY <2>1 DEF contractVars, Committer!vars
  <2>2. panic' # "closeOfClosed"
    BY <1>2 DEF ClaimOrder
  <2>3. CASE \/ Revoke \/ ConsumeClaim \/ SkipClaim \/ ReceiveMessage \/ HandOver \/ ClaimReturns
             \/ MessagesEnd \/ RunnerEnded \/ CleanupBegins \/ CleanupTakes \/ CommitterEnded
             \/ RunnerPart \/ ClaimTerminated \/ UNCHANGED claimVars
             \/ \E m \in Messages : Work(m)
    <3>1. UNCHANGED removed
      BY <2>3, OnlyDeleteRemoves DEF Revoke, ConsumeClaim, SkipClaim, ReceiveMessage, ClaimReturns,
         MessagesEnd, RunnerEnded, LeaveLoop, CleanupBegins, CleanupTakes, CommitterEnded,
         ClaimTerminated, claimVars, allVars, vars, outsideVars
    <3>2. UNCHANGED <<caller, seen, marked, stopped, ended, panic>>
      BY <2>2, <2>3 DEF Revoke, ConsumeClaim, SkipClaim, ReceiveMessage, HandOver, ClaimReturns,
         MessagesEnd, RunnerEnded, LeaveLoop, Close, CleanupBegins, CleanupTakes, CommitterEnded,
         RunnerPart, Apart, ClaimTerminated, Work, claimVars, committerVars
    <3>3. QED
      BY <2>1, <3>1, <3>2 DEF contractVars
  <2>4. QED
    BY <1>2, <2>3, CommitterSteps DEF ClaimNext
<1>3. buffered /\ [ClaimNext]_claimVars => buffered'
  BY DEF ClaimNext, Revoke, ConsumeClaim, SkipClaim, ReceiveMessage, HandOver, MessagesEnd,
         RunnerEnded, LeaveLoop, ClaimReturns, CleanupBegins, CleanupTakes, StopCommitter,
         CommitterEnded, Work, DirectCommit, SendRequest, TakeRequest, AnswerRequest, SendPanics,
         CommitSeen, CommitterEnds, RunnerPart, Apart, ClaimTerminated, claimVars, sessionVars
<1>4. QED
  BY <1>1, <1>2, <1>3, ClaimOrdered, CleanupOrdered, PTL DEF ClaimSpec, Committer!Spec

------------------------------------------------------------------------------
(***************************************************************************)
(* A partition's session is a session of KafkaSessions.                    *)
(***************************************************************************)

\* A step of a session is one of the runner's life, or KafkaSessions sees nothing of the
\* runner and its handler process.
LEMMA LifeSteps ==
  ASSUME RunnerTypeOK, EndsInOrder, [ClaimNext]_claimVars
  PROVE  \/ UNCHANGED <<LifeState, RunnerDone>>
         \/ RunnerPart /\ Life!Step(LifeState, LifeState', closed, cancelled)
<1>1. CASE UNCHANGED runnerVars
  BY <1>1 DEF runnerVars, LifeState, Starting, RunnerDone
<1>2. CASE RunnerPart /\ (HandlerStep \/ RunStep)
  <2>1. CASE UNCHANGED LifeState
    <3>1. LifeState.runner = "ended" <=> RunnerDone
      BY DEF LifeState, Starting, RunnerDone
    <3>2. LifeState'.runner = "ended" <=> RunnerDone'
      BY DEF LifeState, Starting, RunnerDone
    <3>3. QED
      BY <2>1, <3>1, <3>2 DEF RunnerDone
  <2>2. QED
    BY <1>2, <2>1, HandlerLives, RunLives
<1>3. CASE RunnerPart /\ PumpAlone
  BY <1>1, <1>3 DEF PumpAlone, PumpLoop
<1>4. QED
  BY <1>1, <1>2, <1>3 DEF RunnerPart, Apart, ClaimNext, Revoke, ConsumeClaim, SkipClaim, CancelSession,
     ReceiveMessage, HandOver, PumpLoop, MessagesEnd, RunnerEnded, LeaveLoop, Close, ClaimReturns,
     CleanupBegins, CleanupTakes, StopCommitter, CommitterEnded, Work, Deliver, DirectCommit, SendRequest,
     TakeRequest, AnswerRequest, SendPanics, CommitSeen, CommitterEnds, ClaimTerminated, claimVars,
     allVars

\* What KafkaSessions sees of the goroutines of a claim and of Cleanup.
seenVars == <<claim, cleanup, buffered, ended, closed, cancelled>>

\* The runner's steps leave them alone.
LEMMA RunnerPartUnseen ==
  ASSUME RunnerPart
  PROVE  UNCHANGED seenVars
<1>1. Loop => UNCHANGED cancelled
  BY DEF Loop, Fill, TransporterClosed, Plan, Go, Account, SelectCancelled, SelectReleased,
         SelectDefault, Return, envVars
<1>2. HandlerStep \/ RunStep => UNCHANGED cancelled
  BY DEF HandlerStep, LaunchHandler, LaunchFails, HandlerServes, HandlerExits, NotifyHandlerExit,
         RunStep, DelayOver, Probe, OneHasEnded, HandlerHasEnded, PumpHasEnded, vars, envVars
<1>3. UNCHANGED cancelled
  BY <1>1, <1>2 DEF RunnerPart, Apart, PumpAlone, PumpLoop
<1>4. QED
  BY <1>3, WorkKeepsChannel DEF RunnerPart, Apart, seenVars, sessionVars, committerVars

\* Functions with one argument.
LEMMA AtPartFacts ==
  ASSUME NEW v, NEW w
  PROVE  /\ AtPart(v)[Part] = v
         /\ [AtPart(v) EXCEPT ![Part] = w] = AtPart(w)
BY DEF AtPart

\* A step of the runner or its handler process.
LEMMA LifeStepSeen ==
  ASSUME RunnerTypeOK, RunnerTypeOK', RunnerPart, Life!Step(LifeState, LifeState', closed, cancelled)
  PROVE  Session!Live(Part)
<1>1. LifeState \in Session!Lives /\ LifeState' \in Session!Lives /\ LifeState # Session!NotYet
  BY DEF LifeState, RunnerTypeOK, Starting, Session!Lives, Session!HandlerStates,
         Session!RunnerStates, Session!NotYet
<1>2. Session!Step(LifeState, LifeState', closed, cancelled)
  BY DEF Life!Step, Life!HandlerStep, Life!RunnerStep, Life!MayEnd, Session!Step,
         Session!HandlerStep, Session!RunnerStep, Session!MayEnd
<1>3. /\ (Part \in If(closed)) = closed
      /\ Session!Over(Part[1]) = cancelled
  BY DEF Part, If, Session!Over, RunnerTypeOK, TypeOK
<1>4. LifeState'.runner = "ended" <=> RunnerDone'
  BY DEF LifeState, Starting, RunnerDone
<1>5. RunnerDone => RunnerDone'
  BY RunnerStaysDone DEF RunnerPart, Apart, RunnerNext, PumpAlone
<1>6. UNCHANGED seenVars
  BY RunnerPartUnseen
<1>7. LifeState.handler = "running" => \A q : ~Session!Bound(q)
  BY DEF Session!Bound, Session!Parts, Session!Sessions, AtPart, Part
<1>8. UNCHANGED <<Session!binderVars, Session!groupVars, If(closed), AtPart(CommitterState),
                  Session!cliVars>>
  BY <1>6 DEF seenVars, Session!binderVars, Session!groupVars, Session!cliVars, CommitterState,
     ClaimState, If, AtPart
<1>9. AtPart(LifeState)' = [AtPart(LifeState) EXCEPT ![Part] = LifeState']
  BY AtPartFacts DEF AtPart
<1>10. AtPart(IF RunnerDone THEN "none" ELSE "port")'
         = IF LifeState'.runner = "ended"
             THEN [AtPart(IF RunnerDone THEN "none" ELSE "port") EXCEPT ![Part] = Session!NoPort]
             ELSE AtPart(IF RunnerDone THEN "none" ELSE "port")
  BY <1>4, <1>5, AtPartFacts DEF AtPart, Session!NoPort
<1>11. Session!Step(AtPart(LifeState)[Part], LifeState', Part \in If(closed), Session!Over(Part[1]))
  BY <1>2, <1>3, AtPartFacts
<1>12. AtPart(LifeState)[Part] = LifeState
  BY AtPartFacts
<1>13. QED
  BY <1>1, <1>7, <1>8, <1>9, <1>10, <1>11, <1>12 DEF Session!Live, Session!Running

\* Steps that KafkaSessions does not see.
LEMMA NothingSeen ==
  ASSUME UNCHANGED <<ClaimState, cleanup, CommitterState, closed, cancelled, LifeState, RunnerDone>>
  PROVE  UNCHANGED Session!vars
BY DEF Session!vars, Session!binderVars, Session!groupVars, Session!partVars, Session!cliVars, If,
       AtPart

\* The session's context and ConsumeClaim.
LEMMA ClaimStepsSeen ==
  ASSUME ClaimOrder, ClaimOrder', CleanupOrder, UNCHANGED <<LifeState, RunnerDone>>,
         Revoke \/ ConsumeClaim \/ SkipClaim \/ MessagesEnd \/ RunnerEnded \/ ClaimReturns
  PROVE  UNCHANGED Session!vars \/ Session!SessionsNext
<1> DEFINE claims == [p \in {1} |-> ClaimState]
<1>1. Session!Running
  BY DEF Session!Running
<1>2. UNCHANGED <<cleanup, CommitterState, AtPart(CommitterState), AtPart(LifeState),
                  AtPart(IF RunnerDone THEN "none" ELSE "port")>>
  BY DEF Revoke, ConsumeClaim, SkipClaim, MessagesEnd, RunnerEnded, LeaveLoop, ClaimReturns,
         sessionVars, committerVars, CommitterState, AtPart
<1>3. CASE Revoke
  <2>1. cleanup = "none" /\ ~cancelled /\ cancelled' /\ UNCHANGED <<closed, claim>>
    BY <1>3 DEF Revoke, CancelSession, Cancel, CleanupOrder, sessionVars, vars, envVars
  <2>2. Session!Revoke
    BY <1>1, <1>2, <2>1 DEF Session!Revoke, Session!groupVars, Session!partVars, Session!cliVars,
       ClaimState, If
  <2>3. QED
    BY <2>2 DEF Session!SessionsNext
<1>4. CASE ConsumeClaim
  <2>1. cleanup = "none" /\ claim = "none" /\ claim' = "receiving" /\ UNCHANGED <<closed, cancelled>>
    BY <1>4 DEF ConsumeClaim, ClaimOrder, allVars, vars, envVars
  <2>2. Session!ConsumeClaim(1)
    BY <1>1, <1>2, <2>1 DEF Session!ConsumeClaim, Session!groupVars, Session!partVars,
       Session!cliVars, ClaimState, If
  <2>3. QED
    BY <2>2 DEF Session!SessionsNext
<1>5. CASE SkipClaim
  <2>1. /\ cleanup = "none" /\ claim = "none" /\ claim' = "skipped" /\ cancelled'
        /\ UNCHANGED closed
    BY <1>5 DEF SkipClaim, CancelSession, Cancel, ClaimOrder, vars, envVars
  <2>2. Session!SkipClaim(1)
    BY <1>1, <1>2, <2>1 DEF Session!SkipClaim, Session!groupVars, Session!partVars,
       Session!cliVars, ClaimState, If
  <2>3. QED
    BY <2>2 DEF Session!SessionsNext
<1>6. CASE MessagesEnd \/ RunnerEnded
  <2>1. /\ claim \in {"receiving", "handing"} /\ claim' = "returning" /\ closed' /\ ~closed
        /\ UNCHANGED cancelled
    BY <1>6 DEF MessagesEnd, RunnerEnded, LeaveLoop, Close, CloseTransporter, ClaimOrder
  <2>2. Session!LeaveLoop(1)
    BY <1>1, <1>2, <2>1 DEF Session!LeaveLoop, Session!groupVars, Session!cliVars, ClaimState, If,
       Part
  <2>3. QED
    BY <2>2 DEF Session!SessionsNext
<1>7. CASE ClaimReturns
  <2>1. claim = "returning" /\ claim' = "returned" /\ cancelled' /\ UNCHANGED closed
    BY <1>7 DEF ClaimReturns, CancelSession, Cancel, vars, envVars
  <2>2. Session!ClaimReturns(1)
    BY <1>1, <1>2, <2>1 DEF Session!ClaimReturns, Session!groupVars, Session!partVars,
       Session!cliVars, ClaimState, If
  <2>3. QED
    BY <2>2 DEF Session!SessionsNext
<1>8. QED
  BY <1>3, <1>4, <1>5, <1>6, <1>7

\* Until Cleanup stops it, the committer runs.
CommitterStateFacts ==
  /\ cleanup \notin {"awaitCommitter", "done"} => CommitterState = "running"
  /\ cleanup \in {"awaitCommitter", "done"} => CommitterState \in {"stopped", "ended"}

LEMMA CommitterStates == CommitterStateFacts
BY DEF CommitterStateFacts, CommitterState

\* Cleanup and the end of the committer.
LEMMA CleanupStepsSeen ==
  ASSUME ClaimOrder, ClaimOrder', CleanupOrder, CleanupOrder', RunnerTypeOK,
         UNCHANGED <<LifeState, RunnerDone>>,
         CleanupBegins \/ CleanupTakes \/ StopCommitter \/ CommitterEnds \/ CommitterEnded
  PROVE  UNCHANGED Session!vars \/ Session!SessionsNext
<1>0. CommitterStateFacts /\ CommitterStateFacts'
  BY CommitterStates, PTL
<1>1. Session!Running /\ Part \in Session!Current /\ Part \in Session!Parts /\ Part[2] = 1
  BY DEF Session!Running, Session!Current, Session!Parts, Session!Sessions, Part
<1>2. UNCHANGED <<claim, ClaimState, AtPart(LifeState), cancelled,
                  AtPart(IF RunnerDone THEN "none" ELSE "port")>>
  <2>1. UNCHANGED cancelled
    BY DEF CleanupBegins, CleanupTakes, StopCommitter, CommitterEnds, CommitterEnded, Close,
       CloseTransporter, allVars, vars, envVars
  <2>2. QED
    BY <2>1 DEF CleanupBegins, CleanupTakes, StopCommitter, CommitterEnds, CommitterEnded,
       sessionVars, ClaimState, AtPart
<1>3. CASE CleanupBegins
  <2>1. /\ cleanup = "none" /\ cleanup' = "begun" /\ claim \in {"returned", "skipped"} /\ cancelled
        /\ UNCHANGED <<closed, CommitterState>>
    BY <1>3, <1>0 DEF CommitterStateFacts, CleanupBegins, allVars, vars, envVars
  <2>2. Session!CleanupBegins
    BY <1>1, <1>2, <2>1 DEF Session!CleanupBegins, Session!Over, Session!groupVars,
       Session!partVars, Session!cliVars, ClaimState, If, AtPart
  <2>3. QED
    BY <2>2 DEF Session!SessionsNext
<1>4. CASE CleanupTakes
  <2>1. /\ cleanup = "begun" /\ cleanup' = "awaitRunner" /\ claim \in {"returned", "skipped"}
        /\ closed' /\ (closed <=> claim = "returned")
        /\ CommitterState = "running" /\ UNCHANGED CommitterState
    BY <1>4, <1>0 DEF CommitterStateFacts, CleanupTakes, ClaimOrder
  <2>2. If(closed)' = If(closed) \cup Session!ToClose(Part)
    BY <1>1, <2>1 DEF Session!ToClose, ClaimState, If
  <2>3. AtPart(CommitterState)[Part] = "running" /\ UNCHANGED AtPart(CommitterState)
    BY <2>1 DEF AtPart
  <2>4. Session!CleanupTakes(Part)
    BY <1>1, <1>2, <2>1, <2>2, <2>3 DEF Session!CleanupTakes, Session!binderVars,
       Session!cliVars, If
  <2>5. QED
    BY <1>1, <2>4 DEF Session!SessionsNext
<1>5. CASE StopCommitter
  <2>1. /\ cleanup = "awaitRunner" /\ cleanup' = "awaitCommitter" /\ RunnerDone
        /\ CommitterState = "running" /\ CommitterState' \in {"stopped", "ended"}
        /\ UNCHANGED closed
    BY <1>5, <1>0 DEF CommitterStateFacts, StopCommitter, allVars, vars, envVars
  <2>2. AtPart(LifeState)[Part].runner = "ended"
    BY <2>1 DEF AtPart, LifeState, RunnerDone, Starting
  <2>3. /\ AtPart(CommitterState)[Part] = "running"
        /\ AtPart(CommitterState)' = [AtPart(CommitterState) EXCEPT ![Part] = CommitterState']
    BY <2>1 DEF AtPart
  <2>4. Session!StopCommitter(Part)
    BY <1>1, <1>2, <2>1, <2>2, <2>3 DEF Session!StopCommitter, Session!binderVars,
       Session!groupVars, Session!cliVars, If
  <2>5. QED
    BY <1>1, <2>4 DEF Session!SessionsNext
<1>6. CASE CommitterEnds
  <2>1. /\ cleanup = "awaitCommitter" /\ buffered /\ ~ended /\ ended'
        /\ UNCHANGED <<cleanup, buffered, closed>>
    BY <1>6 DEF CommitterEnds, Committer!End, CleanupOrder, sessionVars, allVars, vars, envVars
  <2>2. CommitterState = "stopped" /\ CommitterState' = "ended"
    BY <2>1 DEF CommitterState
  <2>3. /\ AtPart(CommitterState)[Part] = "stopped"
        /\ AtPart(CommitterState)' = [AtPart(CommitterState) EXCEPT ![Part] = "ended"]
    BY <2>2 DEF AtPart
  <2>4. Session!CommitterEnds(Part)
    BY <1>1, <1>2, <2>1, <2>3 DEF Session!CommitterEnds, Session!binderVars, Session!groupVars,
       Session!cliVars, If
  <2>5. QED
    BY <1>1, <2>4 DEF Session!SessionsNext
<1>7. CASE CommitterEnded
  <2>1. /\ cleanup = "awaitCommitter" /\ cleanup' = "done"
        /\ CommitterState = "ended" /\ UNCHANGED <<CommitterState, closed>>
    BY <1>7 DEF CommitterEnded, CommitterState, committerVars, allVars, vars, envVars
  <2>2. AtPart(CommitterState)[Part] = "ended" /\ UNCHANGED AtPart(CommitterState)
    BY <2>1 DEF AtPart
  <2>3. Session!CommitterHasEnded(Part)
    BY <1>1, <1>2, <2>1, <2>2 DEF Session!CommitterHasEnded, Session!binderVars,
       Session!partVars, Session!cliVars, If
  <2>4. QED
    BY <1>1, <2>3 DEF Session!SessionsNext
<1>8. QED
  BY <1>3, <1>4, <1>5, <1>6, <1>7

\* The messages, the pump and the committer's requests are invisible to KafkaSessions.
LEMMA MessagesUnseen ==
  ASSUME UNCHANGED <<LifeState, RunnerDone>>,
         \/ ReceiveMessage \/ HandOver \/ RunnerPart \/ SendPanics \/ CommitSeen
         \/ ClaimTerminated \/ UNCHANGED claimVars
         \/ \E m \in Messages : \/ Work(m) \/ DirectCommit(m) \/ SendRequest(m) \/ TakeRequest(m)
                                \/ \E ok \in BOOLEAN : AnswerRequest(m, ok)
  PROVE  UNCHANGED Session!vars
<1>1. UNCHANGED <<cleanup, buffered, ended>>
  BY DEF ReceiveMessage, HandOver, RunnerPart, Apart, SendPanics, CommitSeen, ClaimTerminated, claimVars,
     Work, DirectCommit, SendRequest, TakeRequest, AnswerRequest, sessionVars, committerVars,
     Committer!Crash, Committer!MarkSeen, Committer!Submit, Committer!Take, Committer!Answer
<1>2. UNCHANGED ClaimState
  BY DEF ReceiveMessage, HandOver, RunnerPart, Apart, SendPanics, CommitSeen, ClaimTerminated, claimVars,
     Work, DirectCommit, SendRequest, TakeRequest, AnswerRequest, sessionVars, ClaimState
<1>3. UNCHANGED <<closed, cancelled>>
  <2>1. CASE RunnerPart
    BY <2>1, RunnerPartUnseen DEF seenVars
  <2>2. CASE HandOver
    BY <2>2 DEF HandOver, PumpLoop, Loop, Fill, TransporterClosed, Plan, Go, Account,
       SelectCancelled, SelectReleased, SelectDefault, Return, envVars
  <2>3. ASSUME NEW m \in Messages,
               Work(m) \/ DirectCommit(m) \/ \E ok \in BOOLEAN : AnswerRequest(m, ok)
        PROVE  UNCHANGED <<closed, cancelled>>
    BY <2>3 DEF Work, PoisonCall, Signal, Deliver, DispatchCall, DirectCommit, AnswerRequest,
       DeleteCall, envVars
  <2>4. UNCHANGED allVars => UNCHANGED <<closed, cancelled>>
    BY DEF allVars, vars, envVars
  <2>5. QED
    BY <2>1, <2>2, <2>3, <2>4 DEF ReceiveMessage, SendPanics, CommitSeen, ClaimTerminated,
       claimVars, SendRequest, TakeRequest
<1>4. UNCHANGED CommitterState
  BY <1>1 DEF CommitterState
<1>5. QED
  BY <1>1, <1>2, <1>3, <1>4, NothingSeen

\* Within a session, a partition does nothing that KafkaSessions does not allow: what is
\* proved there about handler processes, runners and committers across sessions holds of
\* partitions with messages, retries, crashes of the handler, and batches of offsets.
THEOREM SessionImplemented == ClaimSpec => SessionView
<1> DEFINE A == RunnerTypeOK /\ EndsInOrder /\ ClaimOrder /\ CleanupOrder
<1>1. ASSUME A, A', [ClaimNext]_claimVars
      PROVE  UNCHANGED Session!vars \/ Session!SessionsNext
  <2>1. CASE RunnerPart /\ Life!Step(LifeState, LifeState', closed, cancelled)
    <3>1. Session!Live(Part)
      BY <1>1, <2>1, LifeStepSeen
    <3>2. Part \in Session!Parts
      BY DEF Session!Parts, Session!Sessions, Part
    <3>3. QED
      BY <3>1, <3>2 DEF Session!SessionsNext
  <2>2. CASE UNCHANGED <<LifeState, RunnerDone>>
    BY <1>1, <2>2, ClaimStepsSeen, CleanupStepsSeen, MessagesUnseen DEF ClaimNext
  <2>3. QED
    BY <1>1, <2>1, <2>2, LifeSteps
<1>2. ClaimSpec => []A
  BY ClaimRunsRunner, RunnerTypeCorrect, EndOrder, ClaimOrdered, CleanupOrdered, PTL
<1>3. QED
  BY <1>1, <1>2, PTL DEF ClaimSpec, SessionView
==============================================================================
