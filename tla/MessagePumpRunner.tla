-------------------------- MODULE MessagePumpRunner --------------------------
(***************************************************************************)
(* core/default_message_pump_runner.go and core/handler_manager.go: the    *)
(* runner launches the handler process, waits for it to get ready, starts  *)
(* the message pump and waits until both have ended.                       *)
(*                                                                         *)
(* This module adds the runner's goroutine, the handler manager's          *)
(* goroutine and the handler process to MessagePump: the pump's loop runs  *)
(* once the runner has started it, and a dispatch succeeds only while the  *)
(* handler process serves requests.  An Awaiter is represented by the      *)
(* state of the goroutine that notifies it: HandlerDone, PumpDone and      *)
(* RunnerDone are the Done channels of the three awaiters.                 *)
(***************************************************************************)
EXTENDS MessagePump

CONSTANTS
  Startups,  \* what HandlerManager.Start may do: "delay" where StartupDelay is set, or "probe"
  MaxProbes  \* how often the readiness endpoint is probed: 5 in the code

ASSUME RunnerAssumption ==
  /\ Startups \subseteq {"delay", "probe"}
  /\ MaxProbes \in Nat \ {0}

VARIABLES
  run,      \* where the goroutine of Run is
  probes,   \* probes of the readiness endpoint that have failed
  handler   \* the handler process and the goroutine that waits for it

runnerVars == <<run, probes, handler>>
allVars    == <<vars, runnerVars>>

RunnerTypeOK ==
  /\ TypeOK
  /\ run \in {"delay", "probe", "awaitEither", "awaitHandler", "awaitPump", "done"}
  /\ probes \in 0 .. MaxProbes - 1
  /\ handler \in {"launching", "running", "serving", "exited", "notified"}

\* The channels that Notify closes, once and for good.
HandlerDone == handler = "notified"
PumpDone    == pc = "exited"
RunnerDone  == run = "done"

\* HandlerManager.Start has not returned: the pump is not running yet.
Starting == run \in {"delay", "probe"}

\* Run has called HandlerManager.Start, which has executed its go statement.
RunnerInit ==
  /\ Init
  /\ run \in Startups
  /\ probes = 0
  /\ handler = "launching"

------------------------------------------------------------------------------
(***************************************************************************)
(* The handler process and the goroutine of HandlerManager.Start.          *)
(***************************************************************************)

\* cmd.Run starts the process, unless the context is already cancelled.
LaunchHandler ==
  /\ handler = "launching"
  /\ ~cancelled
  /\ handler' = "running"
  /\ UNCHANGED <<vars, run, probes>>

\* The URL cannot be parsed, or cmd.Run fails without starting a process.
LaunchFails ==
  /\ handler = "launching"
  /\ handler' = "exited"
  /\ UNCHANGED <<vars, run, probes>>

\* The process listens on its port.
HandlerServes ==
  /\ handler = "running"
  /\ handler' = "serving"
  /\ UNCHANGED <<vars, run, probes>>

\* The process ends: by itself, or killed because the context is cancelled.
HandlerExits ==
  /\ handler \in {"running", "serving"}
  /\ handler' = "exited"
  /\ UNCHANGED <<vars, run, probes>>

\* awaitNotifier.Notify after cmd.Run has returned.
NotifyHandlerExit ==
  /\ handler = "exited"
  /\ handler' = "notified"
  /\ UNCHANGED <<vars, run, probes>>

------------------------------------------------------------------------------
(***************************************************************************)
(* The goroutine of Run.                                                   *)
(***************************************************************************)

\* HandlerManager.Start sleeps for the startup delay; then the pump starts.
DelayOver ==
  /\ run = "delay"
  /\ run' = "awaitEither"
  /\ UNCHANGED <<vars, probes, handler>>

\* A loop with one probe too many.
LastProbe_OneTooMany == probes = MaxProbes

\* The probe about to be made is the last one.
LastProbe == probes + 1 = MaxProbes

\* One GET of the handler's URL.  The answer is conclusive when its status is
\* 200, 404 or 501, and only a serving process gives one.  After the last probe
\* the pump is started whatever the answers were.
Probe(conclusive) ==
  /\ run = "probe"
  /\ conclusive => handler = "serving"
  /\ IF conclusive \/ LastProbe
       THEN run' = "awaitEither" /\ UNCHANGED probes
       ELSE probes' = probes + 1 /\ UNCHANGED run
  /\ UNCHANGED <<vars, handler>>

\* The select on the two awaiters.
OneHasEnded ==
  /\ run = "awaitEither"
  /\ HandlerDone \/ PumpDone
  /\ run' = "awaitHandler"
  /\ UNCHANGED <<vars, probes, handler>>

\* A runner that takes the select as an answer for both awaiters.
HandlerHasEnded_Unchecked ==
  /\ run = "awaitHandler"
  /\ run' = "awaitPump"
  /\ UNCHANGED <<vars, probes, handler>>

\* hm.Awaiter.Err()
HandlerHasEnded ==
  /\ run = "awaitHandler"
  /\ HandlerDone
  /\ run' = "awaitPump"
  /\ UNCHANGED <<vars, probes, handler>>

\* pump.Awaiter().Err(), then the runner's own Notify.
PumpHasEnded ==
  /\ run = "awaitPump"
  /\ PumpDone
  /\ run' = "done"
  /\ UNCHANGED <<vars, probes, handler>>

------------------------------------------------------------------------------
(***************************************************************************)
(* The pump, within the runner.                                            *)
(***************************************************************************)
PumpLoop ==
  /\ ~Starting
  /\ Loop
  /\ UNCHANGED runnerVars

\* HttpDispatcher.Dispatch: a 200 comes only from a serving process.
Deliver(m, ok) ==
  /\ ok => handler = "serving"
  /\ DispatchCall(m, ok)
  /\ UNCHANGED runnerVars

\* The steps of dispatch(m) that do not involve the handler.
Settle(m) ==
  /\ PoisonCall(m) \/ Signal(m) \/ \E ok \in BOOLEAN : DeleteCall(m, ok)
  /\ UNCHANGED runnerVars

Environment ==
  /\ Cancel \/ CloseTransporter
  /\ UNCHANGED runnerVars

HandlerStep ==
  \/ LaunchHandler
  \/ LaunchFails
  \/ HandlerServes
  \/ HandlerExits
  \/ NotifyHandlerExit

RunStep ==
  \/ DelayOver
  \/ \E conclusive \in BOOLEAN : Probe(conclusive)
  \/ OneHasEnded
  \/ HandlerHasEnded
  \/ PumpHasEnded

\* The runner has ended and so has every goroutine of the pump.
RunnerTerminated ==
  /\ RunnerDone
  /\ Terminated
  /\ UNCHANGED runnerVars

RunnerNext ==
  \/ Environment
  \/ HandlerStep
  \/ RunStep
  \/ PumpLoop
  \/ \E m \in Messages : Settle(m) \/ \E ok \in BOOLEAN : Deliver(m, ok)
  \/ RunnerTerminated

RunnerSpec == RunnerInit /\ [][RunnerNext]_allVars

(***************************************************************************)
(* Fairness.  The loop and its transporter are as fair as in MessagePump.  *)
(* The runner's goroutine and the handler manager's run; a process whose   *)
(* context is cancelled is killed, but may run for ever otherwise, without *)
(* ever answering.  A request to a process that is gone fails: so do the   *)
(* probes.                                                                 *)
(***************************************************************************)
NoProcess == handler \notin {"running", "serving"}

\* A step of the loop that needs nothing from the transporter but its end.
PumpAlone == PumpLoop /\ (pc = "fill" => ~BufferDrained \/ closed)

PumpFairness ==
  /\ WF_allVars(PumpAlone)
  /\ SF_allVars(~Starting /\ SelectCancelled /\ UNCHANGED runnerVars)

ProcessFairness ==
  /\ WF_allVars(LaunchHandler \/ LaunchFails)
  /\ WF_allVars(cancelled /\ HandlerExits)
  /\ WF_allVars(NotifyHandlerExit)
  /\ WF_allVars(DelayOver)
  /\ WF_allVars(NoProcess /\ Probe(FALSE))
  /\ WF_allVars(OneHasEnded)
  /\ WF_allVars(HandlerHasEnded)
  /\ WF_allVars(PumpHasEnded)

RunnerFairSpec ==
  /\ RunnerSpec
  /\ PumpFairness
  /\ ProcessFairness
  /\ WF_allVars(cancelled /\ CloseTransporter /\ UNCHANGED runnerVars)

\* Requests to a handler that is gone fail and brokers answer.
SettleFairness ==
  \A m \in Messages : /\ WF_allVars(NoProcess /\ Deliver(m, FALSE))
                      /\ WF_allVars(Settle(m))

RunnerFairWorkSpec == RunnerFairSpec /\ SettleFairness

------------------------------------------------------------------------------
(***************************************************************************)
(* Properties.                                                             *)
(***************************************************************************)

\* When the runner reports its end, the handler process is gone and the pump
\* takes no more messages: a binder may launch the next handler.
NoOrphans == RunnerDone => HandlerDone /\ PumpDone

\* A handler that crashes loses nothing: the pump goes on dispatching messages to
\* the process that is gone, but none that the process had not accepted is ever
\* removed from the broker.
CrashLosesNothing ==
  \A m \in Messages :
    [](handler \in {"exited", "notified"} /\ m \notin accepted => [](m \notin removed))

\* Cancelling the context ends the runner, also while it is still probing, and
\* also when the handler answers nothing.
CancelEndsRunner == cancelled ~> RunnerDone

\* Once the context is cancelled, every message in work is brought to an end, as
\* the handler that might hang is killed, provided that brokers answer.
CancelEndsWork ==
  SettleFairness =>
    \A m \in Messages : (cancelled /\ stage[m] # "idle") ~> (stage[m] = "done")

\* kafka/sarama_consumer_group_handler.go: "Loop until the messages channel is
\* open or one of partion handler components exit. When a partion handler
\* component exit, we return from the method and leave Sarama to cancel the
\* session."  The loop watches the runner's awaiter, so a handler process that
\* exits has to end the runner.
HandlerExitEndsRunner == HandlerDone ~> RunnerDone

------------------------------------------------------------------------------
(***************************************************************************)
(* The runner lives the life that its binder sees.                         *)
(***************************************************************************)
Life == INSTANCE RunnerLife

LifeState ==
  [handler |-> IF handler \in {"exited", "notified"} THEN "gone" ELSE handler,
   runner  |-> CASE Starting -> "starting"
                 [] run = "done" -> "ended"
                 [] OTHER -> "pumping"]

\* MessagePumpRunner implements RunnerLife, on which KafkaSessions is built: the runner
\* ends only after its handler, and only when its transporter is closed or its context
\* cancelled; nothing is launched for a cancelled context.
LifeSpec ==
  /\ LifeState = Life!Start
  /\ [][Life!Step(LifeState, LifeState', closed, cancelled)]_LifeState
==============================================================================
