----------------------- MODULE MessagePumpRunnerProofs -----------------------
(***************************************************************************)
(* Proofs about MessagePumpRunner, for every value of the constants: the   *)
(* pump inside a runner is the pump of MessagePump, so that whatever is    *)
(* proved of MessagePump holds of it; the runner outlives its handler; and *)
(* the runner implements RunnerLife.                                       *)
(***************************************************************************)
EXTENDS MessagePumpRunner, MessagePumpRefinement

\* What happens to the handler process and in DefaultMessagePumpRunner.Run is
\* invisible to the pump; every other step is one of the pump's.
LEMMA RunnerStepIsPumpStep == [RunnerNext]_allVars => [Next]_vars
<1>1. HandlerStep \/ RunStep => UNCHANGED vars
  BY DEF HandlerStep, LaunchHandler, LaunchFails, HandlerServes, HandlerExits,
         NotifyHandlerExit, RunStep, DelayOver, Probe, OneHasEnded, HandlerHasEnded,
         PumpHasEnded
<1>2. PumpLoop => Next
  BY DEF PumpLoop, Next
<1>3. ASSUME NEW m \in Messages, Settle(m) \/ \E ok \in BOOLEAN : Deliver(m, ok)
      PROVE  Next
  BY <1>3 DEF Settle, Deliver, Next, Dispatch
<1>4. Environment \/ RunnerTerminated => Next
  BY DEF Environment, RunnerTerminated, Next
<1>5. UNCHANGED allVars => UNCHANGED vars
  BY DEF allVars
<1>6. QED
  BY <1>1, <1>2, <1>3, <1>4, <1>5 DEF RunnerNext

\* The pump that DefaultMessagePumpRunner.Run starts behaves as MessagePump says.
THEOREM RunnerRunsPump == RunnerSpec => Spec
<1>1. RunnerInit => Init
  BY DEF RunnerInit
<1>2. QED
  BY <1>1, RunnerStepIsPumpStep, PTL DEF RunnerSpec, Spec

------------------------------------------------------------------------------
(***************************************************************************)
(* The order in which the parts of a runner end.                           *)
(***************************************************************************)

\* The pump has returned for one of two reasons, and Run passes the waits for the
\* handler manager and for the pump in this order.
EndsInOrder ==
  /\ PumpDone => closed \/ cancelled
  /\ run \in {"awaitPump", "done"} => HandlerDone
  /\ RunnerDone => PumpDone

\* Steps of the pump take back neither the end of its loop, nor the end of its
\* transporter, nor the cancellation of its context.
LEMMA PumpStaysDone ==
  ASSUME [Next]_vars
  PROVE  /\ pc = "exited" => pc' = "exited"
         /\ closed => closed'
         /\ cancelled => cancelled'
         /\ pc' = "exited" /\ pc # "exited" => closed \/ cancelled
<1>1. CASE Loop
  BY <1>1 DEF Loop, Fill, TransporterClosed, Plan, Go, Account, SelectCancelled,
              SelectReleased, SelectDefault, Return, envVars
<1>2. CASE \E m \in Messages : Dispatch(m)
  BY <1>2 DEF Dispatch, DispatchCall, DeleteCall, PoisonCall, Signal, loopVars, envVars
<1>3. CASE Cancel \/ CloseTransporter \/ Terminated \/ UNCHANGED vars
  BY <1>3 DEF Cancel, CloseTransporter, Terminated, vars, loopVars, envVars
<1>4. QED
  BY <1>1, <1>2, <1>3 DEF Next

\* Every step of the runner keeps the order.
LEMMA NextEndsInOrder ==
  ASSUME EndsInOrder, [RunnerNext]_allVars
  PROVE  EndsInOrder'
<1>1. [Next]_vars
  BY RunnerStepIsPumpStep
<1>2. CASE UNCHANGED runnerVars
  BY <1>1, <1>2, PumpStaysDone DEF runnerVars, EndsInOrder, HandlerDone, PumpDone, RunnerDone
<1>3. CASE HandlerStep
  BY <1>3 DEF HandlerStep, LaunchHandler, LaunchFails, HandlerServes, HandlerExits,
              NotifyHandlerExit, EndsInOrder, HandlerDone, PumpDone, RunnerDone, vars,
              loopVars, envVars
<1>4. CASE RunStep
  BY <1>4 DEF RunStep, DelayOver, Probe, OneHasEnded, HandlerHasEnded, PumpHasEnded,
              EndsInOrder, HandlerDone, PumpDone, RunnerDone, vars, loopVars, envVars
<1>5. QED
  BY <1>2, <1>3, <1>4 DEF RunnerNext, Environment, PumpLoop, Settle, Deliver,
                          RunnerTerminated, allVars

\* Run passes its waits in order, in every execution.
THEOREM EndOrder == RunnerSpec => []EndsInOrder
<1>1. RunnerInit => EndsInOrder
  BY RunnerAssumption DEF RunnerInit, Init, EndsInOrder, HandlerDone, PumpDone, RunnerDone
<1>2. EndsInOrder /\ [RunnerNext]_allVars => EndsInOrder'
  BY NextEndsInOrder
<1>3. QED
  BY <1>1, <1>2, PTL DEF RunnerSpec

\* When the runner's awaiter is notified, the handler process is gone and the pump's
\* loop has returned.
THEOREM OrphansNever == RunnerSpec => []NoOrphans
<1>1. EndsInOrder => NoOrphans
  BY DEF EndsInOrder, NoOrphans, HandlerDone, PumpDone, RunnerDone
<1>2. QED
  BY <1>1, EndOrder, PTL

\* The runner's awaiter stays notified.
LEMMA RunnerStaysDone ==
  ASSUME RunnerDone, [RunnerNext]_allVars
  PROVE  RunnerDone'
BY DEF RunnerDone, RunnerNext, Environment, HandlerStep, LaunchHandler, LaunchFails,
       HandlerServes, HandlerExits, NotifyHandlerExit, RunStep, DelayOver, Probe, OneHasEnded,
       HandlerHasEnded, PumpHasEnded, PumpLoop, Settle, Deliver, RunnerTerminated, allVars,
       runnerVars

\* The runner is type correct: in particular the probe loop of HandlerManager.Start
\* counts fewer than MaxProbes failures.
THEOREM RunnerTypeCorrect == RunnerSpec => []RunnerTypeOK
<1>1. RunnerInit /\ TypeOK => RunnerTypeOK
  BY RunnerAssumption DEF RunnerInit, RunnerTypeOK
<1>2. ASSUME RunnerTypeOK, TypeOK', [RunnerNext]_allVars
      PROVE  RunnerTypeOK'
  <2>1. CASE UNCHANGED runnerVars
    BY <1>2, <2>1 DEF RunnerTypeOK, runnerVars
  <2>2. CASE HandlerStep
    BY <1>2, <2>2 DEF RunnerTypeOK, HandlerStep, LaunchHandler, LaunchFails, HandlerServes,
                      HandlerExits, NotifyHandlerExit
  <2>3. ASSUME NEW conclusive \in BOOLEAN, Probe(conclusive)
        PROVE  RunnerTypeOK'
    BY <1>2, <2>3, RunnerAssumption DEF RunnerTypeOK, Probe, LastProbe
  <2>4. CASE DelayOver \/ OneHasEnded \/ HandlerHasEnded \/ PumpHasEnded
    BY <1>2, <2>4 DEF RunnerTypeOK, DelayOver, OneHasEnded, HandlerHasEnded, PumpHasEnded
  <2>5. QED
    BY <1>2, <2>1, <2>2, <2>3, <2>4 DEF RunnerNext, RunStep, Environment, PumpLoop, Settle,
                                       Deliver, RunnerTerminated, allVars
<1>3. QED
  BY <1>1, <1>2, RunnerRunsPump, TypeCorrect, PTL DEF RunnerSpec

------------------------------------------------------------------------------
(***************************************************************************)
(* A crash of the handler.                                                 *)
(***************************************************************************)

\* HttpDispatcher.Dispatch gets no 200 from a process that is gone, and a process that
\* is gone stays away.
LEMMA GoneAcceptsNothing ==
  ASSUME NEW m \in Messages, [RunnerNext]_allVars,
         handler \in {"exited", "notified"}, m \notin accepted
  PROVE  handler' \in {"exited", "notified"} /\ m \notin accepted'
<1>1. CASE HandlerStep \/ RunStep \/ UNCHANGED allVars
  BY <1>1 DEF HandlerStep, LaunchHandler, LaunchFails, HandlerServes, HandlerExits,
              NotifyHandlerExit, RunStep, DelayOver, Probe, OneHasEnded, HandlerHasEnded,
              PumpHasEnded, allVars, runnerVars, vars, outsideVars
<1>2. CASE Environment \/ PumpLoop \/ RunnerTerminated
  BY <1>2 DEF Environment, Cancel, CloseTransporter, PumpLoop, Loop, Fill, TransporterClosed,
              Plan, Go, Account, SelectCancelled, SelectReleased, SelectDefault, Return,
              RunnerTerminated, Terminated, runnerVars, vars, outsideVars
<1>3. ASSUME NEW k \in Messages, Settle(k)
      PROVE  handler' = handler /\ accepted' = accepted
  BY <1>3 DEF Settle, PoisonCall, Signal, DeleteCall, runnerVars, outsideVars
<1>4. ASSUME NEW k \in Messages, NEW ok \in BOOLEAN, Deliver(k, ok)
      PROVE  handler' = handler /\ accepted' = accepted
  BY <1>4 DEF Deliver, DispatchCall, runnerVars
<1>5. QED
  BY <1>1, <1>2, <1>3, <1>4 DEF RunnerNext

\* A handler process that crashes loses no message, whenever it does.
THEOREM CrashesLoseNothing == RunnerSpec => CrashLosesNothing
<1> SUFFICES ASSUME NEW m \in Messages
             PROVE  RunnerSpec => [](handler \in {"exited", "notified"} /\ m \notin accepted
                                       => [](m \notin removed))
  BY DEF CrashLosesNothing
<1> DEFINE Lost == handler \in {"exited", "notified"} /\ m \notin accepted
<1>1. Lost /\ [RunnerNext]_allVars => Lost'
  BY GoneAcceptsNothing
<1>2. FateConsistent /\ Lost => m \notin removed
  BY DEF FateConsistent
<1> HIDE DEF Lost
<1>3. RunnerSpec => [](Lost => [](m \notin removed))
  BY <1>1, <1>2, RunnerRunsPump, Fates, PTL DEF RunnerSpec
<1>4. QED
  BY <1>3 DEF Lost

------------------------------------------------------------------------------
(***************************************************************************)
(* The refinement.                                                         *)
(***************************************************************************)

\* A step of HandlerManager.Start's goroutine or of the process is one of the life.
LEMMA HandlerLives ==
  ASSUME RunnerTypeOK, HandlerStep
  PROVE  Life!Step(LifeState, LifeState', closed, cancelled) \/ UNCHANGED LifeState
BY DEF HandlerStep, LaunchHandler, LaunchFails, HandlerServes, HandlerExits,
       NotifyHandlerExit, Life!Step, Life!HandlerStep, LifeState, Starting, RunnerTypeOK

\* A step of Run is one of the life: its last wait is passed only when the pump has
\* returned, which it does for a closed transporter or a cancelled context.
LEMMA RunLives ==
  ASSUME RunnerTypeOK, EndsInOrder, RunStep
  PROVE  Life!Step(LifeState, LifeState', closed, cancelled) \/ UNCHANGED LifeState
BY DEF RunStep, DelayOver, Probe, OneHasEnded, HandlerHasEnded, PumpHasEnded, Life!Step,
       Life!RunnerStep, Life!MayEnd, LifeState, Starting, RunnerTypeOK, EndsInOrder, HandlerDone,
       PumpDone, RunnerDone

\* The runner, its pump and its handler live as RunnerLife allows.
THEOREM RunnerImplementsLife == RunnerSpec => LifeSpec
<1>1. RunnerInit => LifeState = Life!Start
  BY RunnerAssumption DEF RunnerInit, LifeState, Starting, Life!Start
<1>2. ASSUME RunnerTypeOK, EndsInOrder, [RunnerNext]_allVars
      PROVE  [Life!Step(LifeState, LifeState', closed, cancelled)]_LifeState
  <2>1. CASE UNCHANGED runnerVars
    BY <2>1 DEF runnerVars, LifeState, Starting
  <2>2. QED
    BY <1>2, <2>1, HandlerLives, RunLives DEF RunnerNext, Environment, PumpLoop, Settle,
                                              Deliver, RunnerTerminated, allVars
<1>3. QED
  BY <1>1, <1>2, RunnerTypeCorrect, EndOrder, PTL DEF RunnerSpec, LifeSpec

------------------------------------------------------------------------------
(***************************************************************************)
(* Progress: a runner that has been told to end does not go on for ever.   *)
(***************************************************************************)

\* The handler process's states in their order, counted from the last.
HandlerRank ==
  CASE handler = "launching" -> 4
    [] handler = "running"   -> 3
    [] handler = "serving"   -> 2
    [] handler = "exited"    -> 1
    [] handler = "notified"  -> 0

\* The states of Run in their order, each failed probe a step.
RunRank ==
  CASE run = "delay"        -> 4
    [] run = "probe"        -> 4 + MaxProbes - probes
    [] run = "awaitEither"  -> 3
    [] run = "awaitHandler" -> 2
    [] run = "awaitPump"    -> 1
    [] run = "done"         -> 0

\* The bounds are numbers.
LEMMA RunnerRanksAreNat ==
  ASSUME RunnerTypeOK
  PROVE  HandlerRank \in Nat /\ RunRank \in Nat
<1>1. HandlerRank \in Nat
  BY DEF HandlerRank, RunnerTypeOK
<1>2. RunRank \in Nat
  BY RunnerAssumption DEF RunRank, RunnerTypeOK
<1>3. QED
  BY <1>1, <1>2

\* Neither the process nor HandlerManager.Start's goroutine goes back.
LEMMA HandlerLowersRank ==
  ASSUME RunnerTypeOK, HandlerStep
  PROVE  HandlerRank' < HandlerRank /\ UNCHANGED <<vars, run, probes>>
BY DEF RunnerTypeOK, HandlerStep, LaunchHandler, LaunchFails, HandlerServes, HandlerExits,
       NotifyHandlerExit, HandlerRank

\* Nor does Run: it probes at most MaxProbes times and waits twice.
LEMMA RunLowersRank ==
  ASSUME RunnerTypeOK, RunnerTypeOK', RunStep
  PROVE  RunRank' < RunRank /\ UNCHANGED <<vars, handler>>
<1>1. probes \in 0 .. MaxProbes - 1 /\ probes' \in 0 .. MaxProbes - 1 /\ MaxProbes \in Nat
  BY RunnerAssumption DEF RunnerTypeOK
<1>2. ASSUME NEW conclusive \in BOOLEAN, Probe(conclusive)
      PROVE  RunRank' < RunRank /\ UNCHANGED <<vars, handler>>
  <2>1. run = "probe" /\ UNCHANGED <<vars, handler>>
    BY <1>2 DEF Probe
  <2>2. \/ run' = "awaitEither"
        \/ run' = "probe" /\ probes' = probes + 1
    BY <1>2, <2>1 DEF Probe
  <2>3. QED
    BY <1>1, <2>1, <2>2 DEF RunRank
<1>3. CASE DelayOver \/ OneHasEnded \/ HandlerHasEnded \/ PumpHasEnded
  BY <1>3 DEF DelayOver, OneHasEnded, HandlerHasEnded, PumpHasEnded, RunRank
<1>4. QED
  BY <1>2, <1>3 DEF RunStep

\* Steps of the others are neither the loop's nor do they change its bound.
LEMMA NotTheLoop ==
  ASSUME TypeOK, UNCHANGED loopVars
  PROVE  ~Loop /\ LoopRank' = LoopRank
<1>1. spawned \in Nat
  BY DEF TypeOK
<1>2. Loop => pc' # pc \/ spawned' = spawned + 1
  BY DEF Loop, Fill, TransporterClosed, Plan, Go, Account, SelectCancelled, SelectReleased,
         SelectDefault, Return
<1>3. LoopRank' = LoopRank
  BY DEF loopVars, LoopRank, IterationRank, Fresh
<1>4. QED
  BY <1>1, <1>2, <1>3 DEF loopVars

\* Of the steps of the runner, each goroutine's own lower its bound, and no other step
\* changes it.  A closed transporter is enough for this: neither probes nor crashes nor
\* hung requests nor waiting for a slot can keep a runner from getting to its end.
RunnerWindsDown ==
  /\ [](LoopRank \in Nat /\ HandlerRank \in Nat /\ RunRank \in Nat)
  /\ [][/\ IF HandlerStep THEN HandlerRank' < HandlerRank ELSE UNCHANGED HandlerRank
        /\ IF RunStep THEN RunRank' < RunRank ELSE UNCHANGED RunRank
        /\ closed => IF PumpLoop THEN LoopRank' < LoopRank ELSE UNCHANGED LoopRank]_allVars

\* One step of the runner.
LEMMA NextLowersRanks ==
  ASSUME IInv, IInv', IterationStartsWork, RunnerTypeOK, RunnerTypeOK', RunnerNext
  PROVE  /\ IF HandlerStep THEN HandlerRank' < HandlerRank ELSE UNCHANGED HandlerRank
         /\ IF RunStep THEN RunRank' < RunRank ELSE UNCHANGED RunRank
         /\ closed => IF PumpLoop THEN LoopRank' < LoopRank ELSE UNCHANGED LoopRank
<1>1. UNCHANGED handler => HandlerRank' = HandlerRank /\ ~HandlerStep
  BY DEF HandlerRank, HandlerStep, LaunchHandler, LaunchFails, HandlerServes, HandlerExits,
         NotifyHandlerExit
<1>2. UNCHANGED <<run, probes>> => RunRank' = RunRank /\ ~RunStep
  <2>1. probes \in Int
    BY RunnerAssumption DEF RunnerTypeOK
  <2>2. UNCHANGED <<run, probes>> => RunRank' = RunRank
    BY DEF RunRank
  <2>3. RunStep => run' # run \/ probes' = probes + 1
    BY DEF RunStep, DelayOver, Probe, OneHasEnded, HandlerHasEnded, PumpHasEnded
  <2>4. QED
    BY <2>1, <2>2, <2>3
<1>3. UNCHANGED loopVars => LoopRank' = LoopRank /\ ~PumpLoop
  BY NotTheLoop DEF IInv, PumpLoop
<1>4. UNCHANGED vars => UNCHANGED loopVars
  BY DEF vars
<1>5. CASE HandlerStep
  BY <1>2, <1>3, <1>4, <1>5, HandlerLowersRank
<1>6. CASE RunStep
  BY <1>1, <1>3, <1>4, <1>6, RunLowersRank
<1>7. CASE PumpLoop
  BY <1>1, <1>2, <1>7, LoopLowersRank DEF PumpLoop, runnerVars
<1>8. CASE Environment \/ RunnerTerminated \/ \E m \in Messages :
             Settle(m) \/ \E ok \in BOOLEAN : Deliver(m, ok)
  <2>1. UNCHANGED loopVars
    BY <1>8, <1>4 DEF Environment, Cancel, CloseTransporter, RunnerTerminated, Terminated, Settle,
       PoisonCall, Signal, DeleteCall, Deliver, DispatchCall
  <2>2. UNCHANGED runnerVars
    BY <1>8 DEF Environment, RunnerTerminated, Settle, Deliver
  <2>3. QED
    BY <1>1, <1>2, <1>3, <2>1, <2>2 DEF runnerVars
<1>9. QED
  BY <1>5, <1>6, <1>7, <1>8 DEF RunnerNext

\* A runner whose transporter is closed ends, or it waits: for the process, which is killed
\* when the context is cancelled, or for the context.
THEOREM RunnerEnds == RunnerSpec => RunnerWindsDown
<1>1. IInv => LoopRank \in Nat
  BY LoopRankIsNat
<1>2. RunnerTypeOK => HandlerRank \in Nat /\ RunRank \in Nat
  BY RunnerRanksAreNat
<1>3. IInv /\ IInv' /\ IterationStartsWork /\ RunnerTypeOK /\ RunnerTypeOK'
        /\ [RunnerNext]_allVars
      => [/\ IF HandlerStep THEN HandlerRank' < HandlerRank ELSE UNCHANGED HandlerRank
          /\ IF RunStep THEN RunRank' < RunRank ELSE UNCHANGED RunRank
          /\ closed => IF PumpLoop THEN LoopRank' < LoopRank ELSE UNCHANGED LoopRank]_allVars
  BY NextLowersRanks
<1>4. QED
  BY <1>1, <1>2, <1>3, Invariance, IterationsStartWork, RunnerTypeCorrect, RunnerRunsPump, PTL
     DEF RunnerSpec, RunnerWindsDown
==============================================================================
