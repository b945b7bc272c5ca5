----------------------------- MODULE SQSPipeline -----------------------------
(***************************************************************************)
(* sqs/sqs_binder.go and core/cli_instance.go: the program as started for  *)
(* an SQS queue.  To the runner with its pump and handler this module adds *)
(* the transporter's goroutine, which reads a batch ahead of the pump, the *)
(* binder's goroutine, which waits for runner and transporter, and the     *)
(* main goroutine, which cancels the context on an interrupt.              *)
(*                                                                         *)
(* Messages are numbered in the order in which SQS hands them out; a       *)
(* message that becomes visible again is handed out under a new number.    *)
(* When main returns the program is gone, with the goroutines that are     *)
(* still running.                                                          *)
(***************************************************************************)
EXTENDS MessagePumpRunner

VARIABLES
  transporter,  \* "reading" from SQS, "sending" to the pump, "closed"
  held,         \* messages of the batch that is being sent
  fetched,      \* messages that SQS has handed out
  binder,       \* where the goroutine of SQSBinder.Start is
  cli,          \* RunCLIInstance: "waiting", "stopping", "exited"
  interrupted   \* an os.Interrupt is on chanSignal

sqsVars == <<transporter, held, fetched, binder, cli, interrupted>>
pipelineVars == <<allVars, sqsVars>>

PipelineTypeOK ==
  /\ RunnerTypeOK
  /\ transporter \in {"reading", "sending", "closed"}
  /\ held \in 0 .. MaxBatch
  /\ fetched \in received .. NumMessages
  /\ binder \in {"awaitEither", "awaitRunner", "awaitTransporter", "done"}
  /\ cli \in {"waiting", "stopping", "exited"}
  /\ interrupted \in BOOLEAN

\* SQSBinder.Start has called Run and Transporter.Start.
PipelineInit ==
  /\ RunnerInit
  /\ transporter = "reading"
  /\ held = 0
  /\ fetched = 0
  /\ binder = "awaitEither"
  /\ cli = "waiting"
  /\ interrupted = FALSE

Running == cli # "exited"

------------------------------------------------------------------------------
(***************************************************************************)
(* The transporter.                                                        *)
(***************************************************************************)

\* A transporter that reads the next batch while the last one is not taken.
Read_WithoutWaiting(n) ==
  /\ Running
  /\ transporter # "closed"
  /\ fetched + n <= NumMessages
  /\ held' = held + n
  /\ fetched' = fetched + n
  /\ transporter' = "sending"
  /\ UNCHANGED <<allVars, binder, cli, interrupted>>

\* ReceiveMessage returns n messages; none also stands for an error, which is
\* logged and replaced by core.EmptyMessageSet.  The context is not consulted.
Read(n) ==
  /\ Running
  /\ transporter = "reading"
  /\ fetched + n <= NumMessages
  /\ held' = n
  /\ fetched' = fetched + n
  /\ transporter' = "sending"
  /\ UNCHANGED <<allVars, binder, cli, interrupted>>

\* The select sends: the pump, waiting in its receive, takes the batch.
SendBatch ==
  /\ Running
  /\ transporter = "sending"
  /\ pc = "fill" /\ BufferDrained
  /\ PumpLoop
  /\ received' = received + held
  /\ held' = 0
  /\ transporter' = "reading"
  /\ UNCHANGED <<fetched, binder, cli, interrupted>>

\* The select finds the context cancelled: the batch is dropped, and left to its
\* visibility timeout.
StopTransporter ==
  /\ Running
  /\ transporter = "sending"
  /\ cancelled
  /\ CloseTransporter
  /\ transporter' = "closed"
  /\ held' = 0
  /\ UNCHANGED <<runnerVars, fetched, binder, cli, interrupted>>

------------------------------------------------------------------------------
(***************************************************************************)
(* The binder and the main goroutine.                                      *)
(***************************************************************************)
TransporterDone == transporter = "closed"
BinderDone      == binder = "done"

\* Where the binder waits, for what, and where it goes on.
Await(at, event, next) ==
  /\ Running
  /\ binder = at
  /\ event
  /\ binder' = next
  /\ UNCHANGED <<allVars, transporter, held, fetched, cli, interrupted>>

OnePartHasEnded == Await("awaitEither", RunnerDone \/ TransporterDone, "awaitRunner")

\* A binder that does not wait for the runner once the transporter has ended.
RunnerHasEnded_Unchecked == Await("awaitRunner", TRUE, "awaitTransporter")

RunnerHasEnded == Await("awaitRunner", RunnerDone, "awaitTransporter")

TransporterHasEnded == Await("awaitTransporter", TransporterDone, "done")

\* The user sends SIGINT; the channel holds one signal, more are dropped.
Interrupt ==
  /\ Running
  /\ ~interrupted
  /\ interrupted' = TRUE
  /\ UNCHANGED <<allVars, transporter, held, fetched, binder, cli>>

\* A main goroutine that goes on to wait without calling cancelFunc.
StopCLI_NotCancelling ==
  /\ cli = "waiting"
  /\ interrupted \/ BinderDone
  /\ cli' = "stopping"
  /\ UNCHANGED <<allVars, transporter, held, fetched, binder, interrupted>>

\* The select of RunCLIInstance, then cancelFunc.
StopCLI ==
  /\ cli = "waiting"
  /\ interrupted \/ BinderDone
  /\ Cancel
  /\ cli' = "stopping"
  /\ UNCHANGED <<runnerVars, transporter, held, fetched, binder, interrupted>>

\* binding.Awaiter().Err(), and main returns.
ExitCLI ==
  /\ cli = "stopping"
  /\ BinderDone
  /\ cli' = "exited"
  /\ UNCHANGED <<allVars, transporter, held, fetched, binder, interrupted>>

------------------------------------------------------------------------------
\* Steps of the runner, the handler, the pump and its goroutines that do not
\* involve the transporter's channel, except to find it closed.
RunnerPart ==
  /\ Running
  /\ HandlerStep \/ RunStep \/ PumpAlone
  /\ UNCHANGED sqsVars

Work(m) ==
  /\ Running
  /\ Settle(m) \/ \E ok \in BOOLEAN : Deliver(m, ok)
  /\ UNCHANGED sqsVars

Gone == ~Running /\ UNCHANGED pipelineVars

PipelineNext ==
  \/ \E n \in 0 .. MaxBatch : Read(n)
  \/ SendBatch
  \/ StopTransporter
  \/ OnePartHasEnded
  \/ RunnerHasEnded
  \/ TransporterHasEnded
  \/ Interrupt
  \/ StopCLI
  \/ ExitCLI
  \/ RunnerPart
  \/ \E m \in Messages : Work(m)
  \/ Gone

PipelineSpec == PipelineInit /\ [][PipelineNext]_pipelineVars

(***************************************************************************)
(* Fairness: goroutines run, SQS answers a read (the SDK bounds it), and   *)
(* the transporter's select does not ignore the context for ever.          *)
(***************************************************************************)
PipelineFairness ==
  /\ PumpFairness
  /\ ProcessFairness
  /\ WF_pipelineVars(\E n \in 0 .. MaxBatch : Read(n))
  /\ WF_pipelineVars(SendBatch)
  /\ SF_pipelineVars(StopTransporter)
  /\ WF_pipelineVars(OnePartHasEnded)
  /\ WF_pipelineVars(RunnerHasEnded)
  /\ WF_pipelineVars(TransporterHasEnded)
  /\ WF_pipelineVars(StopCLI)
  /\ WF_pipelineVars(ExitCLI)

PipelineFairSpec == PipelineSpec /\ PipelineFairness

\* The handler, its readiness endpoint and the broker answer.
AnswerFairness ==
  /\ \A m \in Messages : WF_pipelineVars(Work(m))
  /\ WF_pipelineVars(Running /\ UNCHANGED sqsVars /\ \E c \in BOOLEAN : Probe(c))

------------------------------------------------------------------------------
(***************************************************************************)
(* Properties.                                                             *)
(***************************************************************************)

\* When main returns, the handler process is gone, the pump has returned and the
\* transporter reads no more: nothing is left behind but goroutines.
OrderlyExit == ~Running => HandlerDone /\ PumpDone /\ TransporterDone

\* At most two batches that SQS has handed out, and whose visibility timeout is
\* running, are not in work: the rest of one in the pump, one in the transporter.
ReadAheadBound == fetched - Started <= 2 * MaxBatch

\* SIGINT ends the program, whatever the handler does, in any phase of start-up.
InterruptEndsProgram == interrupted ~> ~Running

\* When handler and broker answer, every message handed out by SQS is worked on to
\* the end, unless the program is interrupted.
FetchedIsFinished ==
  AnswerFairness =>
    \A m \in Messages : (m <= fetched) ~> (stage[m] = "done" \/ interrupted)
==============================================================================
