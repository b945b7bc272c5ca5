---------------------------- MODULE KafkaSessions ----------------------------
(***************************************************************************)
(* kafka/binder.go, Setup and Cleanup of the consumer group handler, and   *)
(* core/cli_instance.go: the program as started for a Kafka topic, through *)
(* one consumer session after the other.  Each session brings up a handler *)
(* process, a runner, a transporter and a committer per assigned           *)
(* partition, and takes them down before the next one.                     *)
(*                                                                         *)
(* KafkaClaim looks at one partition's messages; here a runner is the life *)
(* that RunnerLife allows it, a committer runs until it is stopped, and a  *)
(* claim is consumed or not.  A session belongs to one call of             *)
(* ConsumerGroup.Consume, a part <<s, p>> to session s and partition p.    *)
(***************************************************************************)
EXTENDS Naturals, FiniteSets, RunnerLife

CONSTANTS
  Partitions,   \* partitions of the topic
  Ports,        \* ports that GetFreePort may try
  MaxSessions   \* bound: how many sessions there are before Consume fails

ASSUME SessionsAssumption == MaxSessions \in Nat \ {0} /\ Ports # {}

Sessions == 1 .. MaxSessions
Parts    == Sessions \X Partitions

VARIABLES
  \* The binder's goroutine, in Consume from "setup" to "cleanup", and Sarama's state.
  binder,
  session,     \* sessions so far; the current one while the binder is in it
  over,        \* sessions whose context Sarama has cancelled
  assigned,    \* partitions claimed in the current session
  claim,       \* the goroutines that Sarama runs for them
  \* The consumer group handler of the current session.
  handlers,    \* PartionHandlers
  cleaning,    \* the part at which the loop of Cleanup is, {} or a singleton
  \* The parts.
  port,        \* the port in the handler's URL, forgotten when the runner has ended
  life,        \* runner and handler process, see RunnerLife
  closed,      \* parts whose transporter is closed
  committer,
  \* The main goroutine.
  cli, interrupted, cancelled

binderVars == <<binder, session, over, assigned, claim>>
groupVars  == <<handlers, cleaning>>
partVars   == <<port, life, closed, committer>>
cliVars    == <<cli, interrupted, cancelled>>
vars       == <<binderVars, groupVars, partVars, cliVars>>

NoPort  == "none"
NotYet  == [handler |-> "none", runner |-> "none"]
Current == {session} \X assigned

SessionsTypeOK ==
  /\ binder \in {"consume", "setup", "claims", "cleanup", "returned", "notified", "exited"}
  /\ session \in 0 .. MaxSessions
  /\ over \subseteq 1 .. session
  /\ assigned \subseteq Partitions
  /\ claim \in [Partitions -> {"none", "consuming", "returning", "returned", "skipped"}]
  /\ handlers \subseteq Current
  /\ cleaning \subseteq handlers /\ Cardinality(cleaning) <= 1
  /\ port \in [Parts -> Ports \cup {NoPort}]
  /\ life \in [Parts -> Lives \cup {NotYet}]
  /\ closed \subseteq Parts
  /\ committer \in [Parts -> {"none", "running", "stopped", "ended"}]
  /\ cli \in {"waiting", "stopping", "exited"}
  /\ interrupted \in BOOLEAN
  /\ cancelled \in BOOLEAN

SessionsInit ==
  /\ binder = "consume"
  /\ session = 0
  /\ over = {}
  /\ assigned = {}
  /\ claim = [p \in Partitions |-> "none"]
  /\ handlers = {}
  /\ cleaning = {}
  /\ port = [i \in Parts |-> NoPort]
  /\ life = [i \in Parts |-> NotYet]
  /\ closed = {}
  /\ committer = [i \in Parts |-> "none"]
  /\ cli = "waiting"
  /\ interrupted = FALSE
  /\ cancelled = FALSE

Running == cli # "exited"

\* A session's context is derived from the program's.
Over(s) == cancelled \/ s \in over

------------------------------------------------------------------------------
(***************************************************************************)
(* Consume begins a session: Sarama joins the group and calls Setup.       *)
(***************************************************************************)

\* A binder that passes the same consumer group handler to every Consume.
NewHandlers_Reused == handlers

\* Each Consume gets a new SaramaConsumerGroupHandler.
NewHandlers == {}

Join ==
  /\ Running
  /\ binder = "consume"
  /\ session < MaxSessions
  /\ binder' = "setup"
  /\ session' = session + 1
  /\ assigned' \in SUBSET Partitions
  /\ claim' = [p \in Partitions |-> "none"]
  /\ handlers' = NewHandlers
  /\ UNCHANGED <<over, cleaning, partVars, cliVars>>

\* Consume returns an error before it has called Setup.
ConsumeFails ==
  /\ Running
  /\ binder = "consume"
  /\ binder' = "notified"
  /\ UNCHANGED <<session, over, assigned, claim, groupVars, partVars, cliVars>>

\* Some process listens on the port.
Bound(q) == \E i \in Parts : life[i].handler = "serving" /\ port[i] = q

\* GetFreePort finds a port on which nobody listens, and releases it.
SetupPartition(p) ==
  /\ Running
  /\ binder = "setup"
  /\ LET i == <<session, p>>
     IN  /\ i \in Current \ handlers
         /\ \E q \in Ports : ~Bound(q) /\ port' = [port EXCEPT ![i] = q]
         /\ committer' = [committer EXCEPT ![i] = "running"]
         /\ life' = [life EXCEPT ![i] = Start]
         /\ handlers' = handlers \cup {i}
  /\ UNCHANGED <<binderVars, cleaning, closed, cliVars>>

\* Sarama starts a goroutine per claim.
SetupReturns ==
  /\ Running
  /\ binder = "setup"
  /\ handlers = Current
  /\ binder' = "claims"
  /\ UNCHANGED <<session, over, assigned, claim, groupVars, partVars, cliVars>>

------------------------------------------------------------------------------
(***************************************************************************)
(* The session.                                                            *)
(***************************************************************************)

\* The handler process and the runner of a part.  A process can listen only on a
\* port that is not in use.
Live(i) ==
  /\ Running
  /\ life[i] # NotYet
  /\ \E s \in Lives :
       /\ Step(life[i], s, i \in closed, Over(i[1]))
       /\ s.handler = "serving" /\ life[i].handler = "running" => ~Bound(port[i])
       /\ life' = [life EXCEPT ![i] = s]
       /\ port' = IF s.runner = "ended" THEN [port EXCEPT ![i] = NoPort] ELSE port
  /\ UNCHANGED <<binderVars, groupVars, closed, committer, cliVars>>

\* A re-balance or an error of the session.
Revoke ==
  /\ Running
  /\ binder \in {"setup", "claims"}
  /\ session \notin over
  /\ over' = over \cup {session}
  /\ UNCHANGED <<binder, session, assigned, claim, groupVars, partVars, cliVars>>

\* The partition is one that Setup has registered (ClaimsAreRegistered of
\* KafkaSessionsProofs), so the return for an unknown one is not taken.
ConsumeClaim(p) ==
  /\ Running
  /\ binder = "claims"
  /\ p \in assigned /\ claim[p] = "none"
  /\ claim' = [claim EXCEPT ![p] = "consuming"]
  /\ UNCHANGED <<binder, session, over, assigned, groupVars, partVars, cliVars>>

\* Sarama does not get to call ConsumeClaim.  As every goroutine of a claim, this one
\* cancels the session when it returns.
SkipClaim(p) ==
  /\ Running
  /\ binder = "claims"
  /\ p \in assigned /\ claim[p] = "none"
  /\ claim' = [claim EXCEPT ![p] = "skipped"]
  /\ over' = over \cup {session}
  /\ UNCHANGED <<binder, session, assigned, groupVars, partVars, cliVars>>

\* ConsumeClaim closes the transporter, for one of the reasons that KafkaClaim tells
\* apart ...
LeaveLoop(p) ==
  /\ Running
  /\ claim[p] = "consuming"
  /\ claim' = [claim EXCEPT ![p] = "returning"]
  /\ closed' = closed \cup {<<session, p>>}
  /\ UNCHANGED <<binder, session, over, assigned, groupVars, port, life, committer, cliVars>>

\* ... and returns; its goroutine cancels the session.
ClaimReturns(p) ==
  /\ Running
  /\ claim[p] = "returning"
  /\ claim' = [claim EXCEPT ![p] = "returned"]
  /\ over' = over \cup {session}
  /\ UNCHANGED <<binder, session, assigned, groupVars, partVars, cliVars>>

------------------------------------------------------------------------------
(***************************************************************************)
(* The end of a session: Sarama calls Cleanup, and Consume returns.        *)
(***************************************************************************)
CleanupBegins ==
  /\ Running
  /\ binder = "claims"
  /\ Over(session)
  /\ \A p \in assigned : claim[p] \in {"returned", "skipped"}
  /\ binder' = "cleanup"
  /\ UNCHANGED <<session, over, assigned, claim, groupVars, partVars, cliVars>>

\* A Cleanup that closes no transporter.
ToClose_None(i) == {}

\* Cleanup closes the transporter of a claim that was never consumed.
ToClose(i) == IF claim[i[2]] = "skipped" THEN {i} ELSE {}

\* The loop of Cleanup comes to the next partition, in the order of a map.
CleanupTakes(i) ==
  /\ Running
  /\ binder = "cleanup"
  /\ cleaning = {}
  /\ i \in handlers /\ committer[i] = "running"
  /\ cleaning' = {i}
  /\ closed' = closed \cup ToClose(i)
  /\ UNCHANGED <<binderVars, handlers, port, life, committer, cliVars>>

\* A Cleanup that stops the committer without waiting for the runner.
StopCommitter_AtOnce(i) ==
  /\ Running
  /\ i \in cleaning
  /\ committer[i] = "running"
  /\ committer' = [committer EXCEPT ![i] = "stopped"]
  /\ UNCHANGED <<binderVars, groupVars, port, life, closed, cliVars>>

\* RunnerAwaiter.Err(), then Committer.Stop().  The awaiter of a DirectCommitter has been
\* notified from the start.
StopCommitter(i) ==
  /\ Running
  /\ i \in cleaning
  /\ committer[i] = "running"
  /\ life[i].runner = "ended"
  /\ \E c \in {"stopped", "ended"} : committer' = [committer EXCEPT ![i] = c]
  /\ UNCHANGED <<binderVars, groupVars, port, life, closed, cliVars>>

\* The goroutine of a BufferedCommitter ends.
CommitterEnds(i) ==
  /\ Running
  /\ committer[i] = "stopped"
  /\ committer' = [committer EXCEPT ![i] = "ended"]
  /\ UNCHANGED <<binderVars, groupVars, port, life, closed, cliVars>>

\* <-Committer.Awaiter().Done()
CommitterHasEnded(i) ==
  /\ Running
  /\ i \in cleaning
  /\ committer[i] = "ended"
  /\ cleaning' = {}
  /\ UNCHANGED <<binderVars, handlers, partVars, cliVars>>

\* The loop is over and h.done is closed.
CleanupReturns ==
  /\ Running
  /\ binder = "cleanup"
  /\ cleaning = {}
  /\ \A i \in handlers : committer[i] = "ended"
  /\ binder' = "returned"
  /\ UNCHANGED <<session, over, assigned, claim, groupVars, partVars, cliVars>>

\* Consume returns.  Without an error the binder finds the handler done and looks
\* at the context.
ConsumeReturns(ok) ==
  /\ Running
  /\ binder = "returned"
  /\ binder' = IF ok /\ ~cancelled THEN "consume" ELSE "notified"
  /\ UNCHANGED <<session, over, assigned, claim, groupVars, partVars, cliVars>>

\* The deferred Group.Close(), after Notify.
CloseGroup ==
  /\ Running
  /\ binder = "notified"
  /\ binder' = "exited"
  /\ UNCHANGED <<session, over, assigned, claim, groupVars, partVars, cliVars>>

------------------------------------------------------------------------------
(***************************************************************************)
(* The main goroutine.                                                     *)
(***************************************************************************)
BinderDone == binder \in {"notified", "exited"}

Interrupt ==
  /\ Running
  /\ ~interrupted
  /\ interrupted' = TRUE
  /\ UNCHANGED <<binderVars, groupVars, partVars, cli, cancelled>>

\* A main goroutine that goes on to wait without calling cancelFunc.
StopCLI_NotCancelling ==
  /\ cli = "waiting"
  /\ interrupted \/ BinderDone
  /\ cli' = "stopping"
  /\ UNCHANGED <<binderVars, groupVars, partVars, interrupted, cancelled>>

\* The select of RunCLIInstance, then cancelFunc.
StopCLI ==
  /\ cli = "waiting"
  /\ interrupted \/ BinderDone
  /\ cli' = "stopping"
  /\ cancelled' = TRUE
  /\ UNCHANGED <<binderVars, groupVars, partVars, interrupted>>

\* A main goroutine that returns as soon as it has cancelled the context.
ExitCLI_AtOnce ==
  /\ cli = "stopping"
  /\ cli' = "exited"
  /\ UNCHANGED <<binderVars, groupVars, partVars, interrupted, cancelled>>

\* binding.Awaiter().Err(), and main returns.
ExitCLI ==
  /\ cli = "stopping"
  /\ BinderDone
  /\ cli' = "exited"
  /\ UNCHANGED <<binderVars, groupVars, partVars, interrupted, cancelled>>

Gone == ~Running /\ UNCHANGED vars

------------------------------------------------------------------------------
SessionsNext ==
  \/ Join
  \/ ConsumeFails
  \/ \E p \in Partitions :
       SetupPartition(p) \/ ConsumeClaim(p) \/ SkipClaim(p) \/ LeaveLoop(p) \/ ClaimReturns(p)
  \/ SetupReturns
  \/ Revoke
  \/ \E i \in Current : CleanupTakes(i) \/ StopCommitter(i) \/ CommitterHasEnded(i)
  \/ \E i \in Parts : Live(i) \/ CommitterEnds(i)
  \/ CleanupBegins
  \/ CleanupReturns
  \/ \E ok \in BOOLEAN : ConsumeReturns(ok)
  \/ CloseGroup
  \/ Interrupt
  \/ StopCLI
  \/ ExitCLI
  \/ Gone

SessionsSpec == SessionsInit /\ [][SessionsNext]_vars

(***************************************************************************)
(* Fairness.  Goroutines run; Consume starts a session or fails, and a     *)
(* claim whose session is over is given up.  A runner whose transporter is *)
(* closed and whose context is cancelled ends (CancelEndsRunner).  Nothing *)
(* else makes a handler, a claim or a session end.                         *)
(***************************************************************************)
SetupAndClaim(p) ==
  \/ SetupPartition(p)
  \/ ConsumeClaim(p)
  \/ SkipClaim(p)
  \/ Over(session) /\ LeaveLoop(p)
  \/ ClaimReturns(p)

ConsumeGoroutine ==
  \/ Join
  \/ ConsumeFails
  \/ SetupReturns
  \/ CleanupBegins
  \/ \E i \in Current : CleanupTakes(i) \/ StopCommitter(i) \/ CommitterHasEnded(i)
  \/ CleanupReturns
  \/ \E ok \in BOOLEAN : ConsumeReturns(ok)

SessionsFairness ==
  /\ WF_vars(ConsumeGoroutine)
  /\ \A p \in Partitions : WF_vars(SetupAndClaim(p))
  /\ WF_vars(\E i \in closed : Over(i[1]) /\ Live(i))
  /\ WF_vars(\E i \in Parts : CommitterEnds(i))
  /\ WF_vars(StopCLI \/ ExitCLI)

SessionsFairSpec == SessionsSpec /\ SessionsFairness

------------------------------------------------------------------------------
(***************************************************************************)
(* Properties.                                                             *)
(***************************************************************************)

\* README: "blaster gracefully brings the current handler processes down and launches
\* new ones": nothing of an earlier session is left when the next one is set up, so
\* that no partition has two handler processes, and no two committers mark its offsets.
SessionsDisjoint ==
  \A i \in Parts :
    i[1] < session /\ life[i] # NotYet =>
      /\ life[i] = [handler |-> "gone", runner |-> "ended"]
      /\ i \in closed
      /\ committer[i] = "ended"

\* The binder reports its end, for whatever reason, only when every handler process
\* of every session is gone: main may return.
NothingLeftBehind ==
  BinderDone \/ ~Running => \A i \in Parts : life[i] # NotYet => life[i].handler = "gone"

InSession == binder \in {"setup", "claims", "cleanup"}

\* A session that is over, because of a re-balance, an error, a claim given up or the
\* end of the program, is taken down whatever handlers and claims were doing, and
\* whichever of its claims were never consumed.
SessionReleased ==
  (InSession /\ Over(session)) ~> ~InSession

\* SIGINT ends the program in every phase of a session.
InterruptEndsProgram == interrupted ~> ~Running

\* README: "the handler process is isolated in its own address space", and handlers
\* listen "on the designated port".  A partition's messages are posted to its own
\* handler: no other process answers on its port.
OwnHandler ==
  \A i, j \in Parts :
    life[i].runner = "pumping" /\ life[j].handler = "serving" /\ port[i] = port[j] => i = j
==============================================================================
