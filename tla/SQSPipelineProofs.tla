-------------------------- MODULE SQSPipelineProofs --------------------------
(***************************************************************************)
(* Proofs about SQSPipeline, for every value of the constants: the runner  *)
(* within the pipeline is the runner of MessagePumpRunner; the program     *)
(* ends in order; and a bounded number of messages is read ahead.          *)
(***************************************************************************)
EXTENDS SQSPipeline, MessagePumpRunnerProofs

\* A step of the program that changes the runner, its pump or its handler is one of
\* theirs, whoever of sqs_binder.go and cli_instance.go takes part in it.
LEMMA PipelineStepIsRunnerStep == [PipelineNext]_pipelineVars => [RunnerNext]_allVars
<1>1. SendBatch \/ StopTransporter \/ StopCLI \/ RunnerPart => RunnerNext
  BY DEF SendBatch, StopTransporter, StopCLI, RunnerPart, PumpAlone, RunnerNext, Environment
<1>2. ASSUME NEW m \in Messages, Work(m)
      PROVE  RunnerNext
  BY <1>2 DEF Work, RunnerNext
<1>3. ASSUME \/ \E n \in 0 .. MaxBatch : Read(n)
             \/ OnePartHasEnded \/ RunnerHasEnded \/ TransporterHasEnded
             \/ Interrupt \/ ExitCLI \/ Gone \/ UNCHANGED pipelineVars
      PROVE  UNCHANGED allVars
  BY <1>3 DEF Read, OnePartHasEnded, RunnerHasEnded, TransporterHasEnded, Await, Interrupt,
              ExitCLI, Gone, pipelineVars
<1>4. QED
  BY <1>1, <1>2, <1>3 DEF PipelineNext

\* The runner that SQSBinder.Start runs behaves as MessagePumpRunner says.
THEOREM PipelineRunsRunner == PipelineSpec => RunnerSpec
<1>1. PipelineInit => RunnerInit
  BY DEF PipelineInit
<1>2. QED
  BY <1>1, PipelineStepIsRunnerStep, PTL DEF PipelineSpec, RunnerSpec

------------------------------------------------------------------------------
(***************************************************************************)
(* The end of the program.                                                 *)
(***************************************************************************)

\* The binder has passed its waits, and main has waited for the binder.
BinderOrder ==
  /\ binder \in {"awaitTransporter", "done"} => RunnerDone
  /\ BinderDone => TransporterDone
  /\ ~Running => BinderDone

\* Every step of the program keeps the order.
LEMMA NextBinderOrder ==
  ASSUME BinderOrder, [PipelineNext]_pipelineVars
  PROVE  BinderOrder'
<1>1. RunnerDone => RunnerDone'
  BY PipelineStepIsRunnerStep, RunnerStaysDone
<1>2. CASE UNCHANGED sqsVars
  BY <1>1, <1>2 DEF BinderOrder, BinderDone, TransporterDone, Running, sqsVars
<1>3. CASE \/ \E n \in 0 .. MaxBatch : Read(n)
           \/ SendBatch \/ StopTransporter \/ Interrupt \/ StopCLI \/ ExitCLI
  BY <1>1, <1>3 DEF BinderOrder, BinderDone, TransporterDone, Running, Read, SendBatch,
                    StopTransporter, Interrupt, StopCLI, ExitCLI
<1>4. CASE OnePartHasEnded \/ RunnerHasEnded \/ TransporterHasEnded
  BY <1>1, <1>4 DEF BinderOrder, BinderDone, TransporterDone, Running, OnePartHasEnded,
                    RunnerHasEnded, TransporterHasEnded, Await
<1>5. QED
  BY <1>2, <1>3, <1>4 DEF PipelineNext, RunnerPart, Work, Gone, pipelineVars

\* When main returns, the handler process is gone, the pump has returned and the
\* transporter reads no more.
THEOREM ExitIsOrderly == PipelineSpec => []OrderlyExit
<1>1. PipelineInit => BinderOrder
  BY DEF PipelineInit, BinderOrder, BinderDone, TransporterDone, Running
<1>2. BinderOrder /\ [PipelineNext]_pipelineVars => BinderOrder'
  BY NextBinderOrder
<1>3. BinderOrder /\ NoOrphans => OrderlyExit
  BY DEF BinderOrder, NoOrphans, OrderlyExit, BinderDone
<1>4. QED
  BY <1>1, <1>2, <1>3, PipelineRunsRunner, OrphansNever, PTL DEF PipelineSpec

------------------------------------------------------------------------------
(***************************************************************************)
(* How far the transporter reads ahead.                                    *)
(***************************************************************************)

\* What has been fetched has been handed to the pump or is held for it, and is at most
\* a batch when the transporter has dropped it.
HeldBatch ==
  /\ transporter \in {"reading", "sending", "closed"}
  /\ held \in 0 .. MaxBatch
  /\ fetched \in Nat
  /\ transporter = "reading" => held = 0
  /\ transporter # "closed" => fetched = received + held
  /\ fetched <= received + MaxBatch
  /\ received <= fetched /\ fetched <= NumMessages

\* The pump holds at most one batch.
BufferedBatch == Len(buffer) <= MaxBatch

\* A step of the loop by itself takes nothing from the transporter, and no step leaves
\* more than a batch in the buffer.
LEMMA BufferStep ==
  ASSUME IInv, BufferedBatch, [Next]_vars
  PROVE  BufferedBatch'
<1>1. Len(buffer) \in Nat /\ MaxBatch \in Nat /\ buffer \in Seq(Messages)
  BY PumpAssumption DEF IInv, TypeOK
<1>2. CASE UNCHANGED buffer
  BY <1>2 DEF BufferedBatch
<1>3. CASE Fill
  <2>1. CASE TakeBatch
    <3>1. PICK n \in 0 .. MaxBatch : buffer' = [i \in 1 .. n |-> received + i]
      BY <2>1 DEF TakeBatch
    <3>2. n \in Nat /\ n <= MaxBatch
      BY <1>1
    <3>3. Len(buffer') = n
      BY <3>1, <3>2
    <3>4. QED
      BY <3>2, <3>3 DEF BufferedBatch
  <2>2. QED
    BY <1>2, <1>3, <2>1 DEF Fill
<1>4. CASE Account
  <2>1. toDispatch \in Nat /\ toDispatch <= Len(buffer)
    BY <1>4 DEF IInv, TypeOK, LoopBounds, Account
  <2>2. Len(buffer') = Len(buffer) - toDispatch
    BY <1>1, <1>4, <2>1 DEF Account, Remaining
  <2>3. QED
    BY <1>1, <2>1, <2>2 DEF BufferedBatch
<1>5. QED
  BY <1>2, <1>3, <1>4 DEF Next, Cancel, CloseTransporter, Loop, TransporterClosed, Plan, Go,
       SelectCancelled, SelectReleased, SelectDefault, Return, Dispatch, DispatchCall,
       DeleteCall, PoisonCall, Signal, Terminated, vars, loopVars

\* Only SendBatch moves messages from the transporter to the pump.
LEMMA ReceivesOnlySent ==
  ASSUME PipelineNext, ~SendBatch
  PROVE  received' = received
<1>1. CASE RunnerPart
  BY <1>1 DEF RunnerPart, HandlerStep, LaunchHandler, LaunchFails, HandlerServes, HandlerExits,
       NotifyHandlerExit, RunStep, DelayOver, Probe, OneHasEnded, HandlerHasEnded, PumpHasEnded,
       PumpAlone, PumpLoop, Loop, Fill, TransporterClosed, Plan, Go, Account, SelectCancelled,
       SelectReleased, SelectDefault, Return, envVars, vars
<1>2. ASSUME NEW m \in Messages, Work(m)
      PROVE  received' = received
  BY <1>2 DEF Work, Settle, Deliver, DispatchCall, DeleteCall, PoisonCall, Signal, envVars
<1>3. CASE StopTransporter \/ StopCLI
  BY <1>3 DEF StopTransporter, CloseTransporter, StopCLI, Cancel
<1>4. QED
  BY <1>1, <1>2, <1>3 DEF PipelineNext, Read, OnePartHasEnded, RunnerHasEnded,
       TransporterHasEnded, Await, Interrupt, ExitCLI, Gone, pipelineVars, allVars, vars, envVars

\* Every step of the program keeps account of the batch that is held.
LEMMA NextHeldBatch ==
  ASSUME HeldBatch, received \in Nat, [PipelineNext]_pipelineVars
  PROVE  HeldBatch'
<1>0. MaxBatch \in Nat
  BY PumpAssumption
<1>1. ASSUME NEW n \in 0 .. MaxBatch, Read(n)
      PROVE  HeldBatch'
  <2>1. received' = received
    BY <1>1 DEF Read, allVars, vars, envVars
  <2>2. QED
    BY <1>0, <1>1, <2>1 DEF HeldBatch, Read
<1>2. CASE SendBatch
  BY <1>0, <1>2 DEF HeldBatch, SendBatch
<1>3. CASE StopTransporter
  <2>1. received' = received
    BY <1>3 DEF StopTransporter, CloseTransporter
  <2>2. QED
    BY <1>0, <1>3, <2>1 DEF HeldBatch, StopTransporter
<1>4. CASE UNCHANGED <<transporter, held, fetched, received>>
  BY <1>4 DEF HeldBatch
<1>5. QED
  BY <1>1, <1>2, <1>3, <1>4, ReceivesOnlySent DEF PipelineNext, OnePartHasEnded,
       RunnerHasEnded, TransporterHasEnded, Await, Interrupt, StopCLI, ExitCLI, RunnerPart, Work,
       Gone, pipelineVars, sqsVars, allVars, vars, envVars

\* At most two batches that SQS has handed out are not in work.
THEOREM ReadAheadBounded == PipelineSpec => []ReadAheadBound
<1>1. PipelineInit => HeldBatch /\ BufferedBatch
  BY PumpAssumption DEF PipelineInit, RunnerInit, Init, HeldBatch, BufferedBatch
<1>2. IInv => received \in Nat
  BY PumpAssumption DEF IInv, TypeOK
<1>3. IInv /\ HeldBatch /\ [PipelineNext]_pipelineVars => HeldBatch'
  BY <1>2, NextHeldBatch
<1>4. IInv /\ BufferedBatch /\ [PipelineNext]_pipelineVars => BufferedBatch'
  BY BufferStep, PipelineStepIsRunnerStep, RunnerStepIsPumpStep
<1>5. ASSUME IInv, HeldBatch, BufferedBatch
      PROVE  ReadAheadBound
  <2>1. TypeOK
    BY <1>5 DEF IInv
  <2>2. /\ received \in Nat /\ Len(buffer) \in Nat /\ spawned \in Nat /\ MaxBatch \in Nat
        /\ fetched \in Nat
    BY <1>5, <2>1, Numbers, PumpAssumption DEF HeldBatch
  <2>3. fetched <= received + MaxBatch /\ Len(buffer) <= MaxBatch
    BY <1>5 DEF HeldBatch, BufferedBatch
  <2>4. QED
    BY <2>2, <2>3 DEF ReadAheadBound, Started
<1>6. QED
  BY <1>1, <1>3, <1>4, <1>5, PipelineRunsRunner, RunnerRunsPump, Invariance, PTL
  DEF PipelineSpec

------------------------------------------------------------------------------
(***************************************************************************)
(* Types.                                                                  *)
(***************************************************************************)

\* The binder's and the main goroutine's positions.
Positions ==
  /\ binder \in {"awaitEither", "awaitRunner", "awaitTransporter", "done"}
  /\ cli \in {"waiting", "stopping", "exited"}
  /\ interrupted \in BOOLEAN

\* The program is type correct: no more messages are held than a batch has, and none
\* that the pump has received is counted twice.
THEOREM PipelineTypeCorrect == PipelineSpec => []PipelineTypeOK
<1>1. PipelineInit => HeldBatch /\ Positions
  <2>1. PipelineInit => HeldBatch
    BY PumpAssumption DEF PipelineInit, RunnerInit, Init, HeldBatch
  <2>2. PipelineInit => Positions
    BY DEF PipelineInit, Positions
  <2>3. QED
    BY <2>1, <2>2
<1>2. IInv => received \in Nat
  BY PumpAssumption DEF IInv, TypeOK
<1>3. IInv /\ HeldBatch /\ [PipelineNext]_pipelineVars => HeldBatch'
  BY <1>2, NextHeldBatch
<1>4. Positions /\ [PipelineNext]_pipelineVars => Positions'
  BY DEF Positions, PipelineNext, Read, SendBatch, StopTransporter, OnePartHasEnded, RunnerHasEnded,
         TransporterHasEnded, Await, Interrupt, StopCLI, ExitCLI, RunnerPart, Work, Gone, pipelineVars,
         sqsVars
<1>5. ASSUME IInv, RunnerTypeOK, HeldBatch, Positions
      PROVE  PipelineTypeOK
  <2>1. fetched \in received .. NumMessages
    BY <1>2, <1>5, PumpAssumption DEF HeldBatch
  <2>2. QED
    BY <1>5, <2>1 DEF HeldBatch, Positions, PipelineTypeOK
<1>6. QED
  BY <1>1, <1>3, <1>4, <1>5, PipelineRunsRunner, RunnerTypeCorrect, RunnerRunsPump, Invariance, PTL
  DEF PipelineSpec

------------------------------------------------------------------------------
(***************************************************************************)
(* What makes the program end.                                             *)
(***************************************************************************)

\* Each part that has ended, or waits for another to end, does so after the context was
\* cancelled, and that was after SIGINT.
EndsOnSignal ==
  /\ TransporterDone <=> closed
  /\ closed => cancelled
  /\ binder # "awaitEither" => cancelled
  /\ cli # "waiting" => cancelled
  /\ cancelled => interrupted

\* Only StopCLI cancels and only the transporter closes, whoever else takes a step.
LEMMA WhoCancels ==
  ASSUME [PipelineNext]_pipelineVars
  PROVE  /\ UNCHANGED cancelled \/ StopCLI
         /\ UNCHANGED closed \/ StopTransporter
<1>1. Loop => UNCHANGED <<cancelled, closed>>
  BY DEF Loop, Fill, TransporterClosed, Plan, Go, Account, SelectCancelled, SelectReleased,
         SelectDefault, Return, envVars
<1>2. ASSUME NEW m \in Messages, Work(m)
      PROVE  UNCHANGED <<cancelled, closed>>
  BY <1>2 DEF Work, Settle, Deliver, DispatchCall, DeleteCall, PoisonCall, Signal, envVars
<1>3. CASE SendBatch \/ RunnerPart
  BY <1>1, <1>3 DEF SendBatch, RunnerPart, PumpAlone, PumpLoop, HandlerStep, LaunchHandler,
     LaunchFails, HandlerServes, HandlerExits, NotifyHandlerExit, RunStep, DelayOver, Probe,
     OneHasEnded, HandlerHasEnded, PumpHasEnded, vars, envVars
<1>4. CASE StopCLI \/ StopTransporter
  BY <1>4 DEF StopCLI, StopTransporter, Cancel, CloseTransporter
<1>5. CASE \/ \E n \in 0 .. MaxBatch : Read(n)
           \/ OnePartHasEnded \/ RunnerHasEnded \/ TransporterHasEnded
           \/ Interrupt \/ ExitCLI \/ Gone \/ UNCHANGED pipelineVars
  BY <1>5 DEF Read, OnePartHasEnded, RunnerHasEnded, TransporterHasEnded, Await, Interrupt,
     ExitCLI, Gone, pipelineVars, allVars, vars, envVars
<1>6. QED
  BY <1>2, <1>3, <1>4, <1>5 DEF PipelineNext

\* Every step of the program keeps it so: a runner ends only after its pump, and the pump
\* only when it is told to.
LEMMA NextEndsOnSignal ==
  ASSUME EndsInOrder, EndsOnSignal, [PipelineNext]_pipelineVars
  PROVE  EndsOnSignal'
<1> USE DEF EndsOnSignal, TransporterDone
<1>1. CASE StopCLI
  BY <1>1, WhoCancels DEF StopCLI, Cancel, BinderDone, StopTransporter, CloseTransporter
<1>2. CASE StopTransporter
  BY <1>2, WhoCancels DEF StopTransporter, CloseTransporter
<1>3. CASE ~StopCLI /\ ~StopTransporter
  <2>1. UNCHANGED <<cancelled, closed>>
    BY <1>3, WhoCancels
  <2>2. RunnerDone => cancelled
    BY DEF EndsInOrder
  <2>3. CASE OnePartHasEnded
    BY <2>1, <2>2, <2>3 DEF OnePartHasEnded, Await
  <2>4. CASE RunnerHasEnded \/ TransporterHasEnded
    BY <2>1, <2>4 DEF RunnerHasEnded, TransporterHasEnded, Await
  <2>5. CASE \/ \E n \in 0 .. MaxBatch : Read(n)
             \/ SendBatch \/ Interrupt \/ ExitCLI
    BY <2>1, <2>5 DEF Read, SendBatch, Interrupt, ExitCLI
  <2>6. CASE UNCHANGED sqsVars
    BY <2>1, <2>6 DEF sqsVars
  <2>7. QED
    BY <1>3, <2>3, <2>4, <2>5, <2>6 DEF PipelineNext, RunnerPart, Work, Gone, pipelineVars
<1>4. QED
  BY <1>1, <1>2, <1>3

\* Neither the pump, nor the runner, nor the transporter, nor main has ended.
StillAtWork == ~PumpDone /\ ~RunnerDone /\ ~TransporterDone /\ Running

\* Nothing but SIGINT ends the program for a queue or any of its parts but the handler
\* process, not even the crash of that process: main's other case, an awaiter that is
\* notified first, never occurs.  What a part waits for once SIGINT has come is told to end.
THEOREM EndsOnlyOnSignal ==
  PipelineSpec => [](/\ ~interrupted => StillAtWork
                     /\ cli # "waiting" \/ binder # "awaitEither" => cancelled)
<1>1. PipelineInit => EndsOnSignal
  BY DEF PipelineInit, RunnerInit, Init, EndsOnSignal, TransporterDone
<1>2. EndsInOrder /\ EndsOnSignal /\ [PipelineNext]_pipelineVars => EndsOnSignal'
  BY NextEndsOnSignal
<1>3. EndsInOrder /\ EndsOnSignal =>
        /\ ~interrupted => StillAtWork
        /\ cli # "waiting" \/ binder # "awaitEither" => cancelled
  BY DEF EndsInOrder, EndsOnSignal, StillAtWork, Running
<1>4. QED
  BY <1>1, <1>2, <1>3, PipelineRunsRunner, EndOrder, PTL DEF PipelineSpec
==============================================================================
