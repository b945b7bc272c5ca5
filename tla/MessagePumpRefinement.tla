------------------------ MODULE MessagePumpRefinement ------------------------
(***************************************************************************)
(* MessagePump implements WorkerPool, for every number of messages, batch  *)
(* size, number of handlers and number of retries.                         *)
(***************************************************************************)
EXTENDS MessagePumpProofs

(***************************************************************************)
(* The fate of a message.                                                  *)
(***************************************************************************)

\* The steps of message_pump.go that belong to the loop or to its environment and
\* start no goroutine change neither stages nor what the outside world has seen.
LEMMA LoopKeepsWork ==
  ASSUME Cancel \/ CloseTransporter \/ Fill \/ TransporterClosed \/ Plan \/ Account
           \/ SelectCancelled \/ SelectReleased \/ SelectDefault \/ Terminated
           \/ UNCHANGED vars
  PROVE  UNCHANGED <<stage, accepted, removed, poisoned>>
BY DEF Cancel, CloseTransporter, Fill, TransporterClosed, Plan, Account, SelectCancelled,
       SelectReleased, SelectDefault, Return, Terminated, vars, workVars, outsideVars

\* A go statement of the loop: the goroutine it starts is that of a message nobody
\* has worked on, the oldest one, and there is a free handler.
LEMMA GoStartsOldest ==
  ASSUME IInv, Go
  PROVE  \E m \in Messages :
           /\ stage[m] = "idle"
           /\ \A k \in Messages : k < m => stage[k] # "idle"
           /\ Cardinality(InFlight) < MaxHandlers
           /\ stage' = [stage EXCEPT ![m] = "dispatch"]
           /\ UNCHANGED <<pc, accepted, removed, poisoned>>
<1> DEFINE m == buffer[spawned + 1]
<1>1. spawned + 1 \in 1 .. Len(buffer) /\ Len(buffer) \in Nat
  BY DEF IInv, TypeOK, LoopBounds, Go
<1>2. m \in Messages
  BY <1>1 DEF IInv, TypeOK
<1>3. TypeOK
  BY DEF IInv
<1>4. m = Started + 1
  <2>1. m = received - Len(buffer) + (spawned + 1)
    BY <1>1 DEF IInv, NothingSkipped
  <2>2. QED
    BY <1>3, <2>1, Numbers DEF Started
<1>5. m \in Int /\ Started \in Int
  BY <1>3, <1>4, Numbers
<1>6. stage[m] = "idle"
  BY <1>2, <1>4, <1>5 DEF IInv, NothingSkipped
<1>7. \A k \in Messages : k < m => stage[k] # "idle"
  <2>1. \A k \in Messages : k < m => ~(k > Started)
    BY <1>4, <1>5, PumpAssumption DEF Messages
  <2>2. QED
    BY <2>1 DEF IInv, NothingSkipped
<1>8. Cardinality(InFlight) < MaxHandlers
  <2>1. /\ activeHandlers + spawned = Cardinality(InFlight) + dispatchDone
        /\ spawned < toDispatch /\ activeHandlers + toDispatch <= MaxHandlers
    BY DEF IInv, SlotAccounting, LoopBounds, Go
  <2>2. Cardinality(InFlight) \in Nat
    BY InFlightFinite
  <2>3. QED
    BY <1>3, <2>1, <2>2, Numbers
<1>9. /\ stage' = [stage EXCEPT ![m] = "dispatch"]
      /\ UNCHANGED <<pc, accepted, removed, poisoned>>
  BY DEF Go, outsideVars
<1>10. QED
  BY <1>2, <1>6, <1>7, <1>8, <1>9

\* Every step of message_pump.go keeps the fates consistent.
LEMMA NextFate ==
  ASSUME IInv, FateConsistent, [Next]_vars
  PROVE  FateConsistent'
<1>1. TypeOK
  BY DEF IInv
<1>2. CASE UNCHANGED <<stage, accepted, removed, poisoned>>
  BY <1>2 DEF FateConsistent
<1>3. CASE Go
  BY <1>1, <1>3, GoStartsOldest DEF TypeOK, FateConsistent
<1>4. ASSUME NEW m \in Messages, NEW ok \in BOOLEAN, DispatchCall(m, ok)
      PROVE  FateConsistent'
  BY <1>1, <1>4 DEF DispatchCall, MoveTo, Retry, TypeOK, FateConsistent
<1>5. ASSUME NEW m \in Messages, PoisonCall(m)
      PROVE  FateConsistent'
  BY <1>1, <1>5 DEF PoisonCall, MoveTo, TypeOK, FateConsistent
<1>6. ASSUME NEW m \in Messages, NEW ok \in BOOLEAN, DeleteCall(m, ok)
      PROVE  FateConsistent'
  BY <1>1, <1>6 DEF DeleteCall, MoveTo, Retry, TypeOK, FateConsistent
<1>7. ASSUME NEW m \in Messages, Signal(m)
      PROVE  FateConsistent'
  BY <1>1, <1>7 DEF Signal, MoveTo, TypeOK, FateConsistent, outsideVars
<1>8. QED
  BY <1>2, <1>3, <1>4, <1>5, <1>6, <1>7, LoopKeepsWork DEF Next, Loop, Dispatch

\* The fates of messages in message_pump.go are consistent in every state.
THEOREM Fates == Spec => []FateConsistent
<1>1. Init => FateConsistent
  BY DEF Init, FateConsistent
<1>2. IInv /\ FateConsistent /\ [Next]_vars => FateConsistent'
  BY NextFate
<1>3. QED
  BY <1>1, <1>2, Invariance, PTL DEF Spec

(***************************************************************************)
(* The order of dispatch.                                                  *)
(***************************************************************************)

\* Sets of messages are finite, so that those overtaken in message_pump.go can be
\* counted, and a subset has no more elements.
LEMMA MessageSets ==
  /\ IsFiniteSet(InFlight)
  /\ \A m : Cardinality(Behind(m)) \in Nat /\ Cardinality(Behind(m)') \in Nat
  /\ \A m : IsFiniteSet(Behind(m)) /\ IsFiniteSet(Behind(m)')
<1>1. IsFiniteSet(Messages)
  BY FS_Interval, PumpAssumption DEF Messages
<1>2. \A m : Behind(m) \in SUBSET Messages /\ Behind(m)' \in SUBSET Messages
  BY DEF Behind
<1>3. QED
  BY <1>1, <1>2, InFlightFinite, FS_Subset, FS_CardinalityType

\* A step of dispatch after its start leaves idle messages idle, finished ones
\* finished, and started ones started.
LEMMA WorkKeepsOrder ==
  ASSUME TypeOK, NEW m \in Messages, NEW ok \in BOOLEAN,
         DispatchCall(m, ok) \/ DeleteCall(m, ok) \/ PoisonCall(m) \/ Signal(m)
  PROVE  \A k \in Messages : /\ stage[k] = "done" => stage'[k] = "done"
                             /\ stage'[k] # "idle" => stage[k] # "idle"
BY DEF DispatchCall, DeleteCall, PoisonCall, Signal, MoveTo, Retry, TypeOK

\* Every step of message_pump.go keeps the bound on overtaking: a message is
\* started when the earlier ones not finished are all in flight and a handler is
\* free, and from then on their number only falls.
LEMMA NextOvertaking ==
  ASSUME IInv, OvertakingBound, [Next]_vars
  PROVE  OvertakingBound'
<1>1. TypeOK
  BY DEF IInv
<1>2. ASSUME NEW m \in Messages, stage[m] # "idle",
             \A k \in Messages : stage[k] = "done" => stage'[k] = "done"
      PROVE  Cardinality(Behind(m)') < MaxHandlers
  <2>1. Behind(m)' \in SUBSET Behind(m)
    BY <1>2 DEF Behind
  <2>2. Cardinality(Behind(m)') <= Cardinality(Behind(m))
    BY <2>1, MessageSets, FS_Subset
  <2>3. Cardinality(Behind(m)) < MaxHandlers
    BY <1>2 DEF OvertakingBound
  <2>4. QED
    BY <2>2, <2>3, MessageSets, PumpAssumption
<1>3. ASSUME \A k \in Messages : /\ stage[k] = "done" => stage'[k] = "done"
                                 /\ stage'[k] # "idle" => stage[k] # "idle"
      PROVE  OvertakingBound'
  BY <1>2, <1>3 DEF OvertakingBound
<1>4. CASE Go
  <2>1. PICK n \in Messages :
           /\ stage[n] = "idle"
           /\ \A k \in Messages : k < n => stage[k] # "idle"
           /\ Cardinality(InFlight) < MaxHandlers
           /\ stage' = [stage EXCEPT ![n] = "dispatch"]
    BY <1>4, GoStartsOldest
  <2>2. \A k \in Messages : stage[k] = "done" => stage'[k] = "done"
    BY <1>1, <2>1 DEF TypeOK
  <2>3. Cardinality(Behind(n)') < MaxHandlers
    <3>1. Behind(n)' \in SUBSET InFlight
      BY <1>1, <2>1, PumpAssumption DEF TypeOK, Behind, InFlight, Messages
    <3>2. Cardinality(Behind(n)') <= Cardinality(InFlight)
      BY <3>1, MessageSets, FS_Subset
    <3>3. QED
      BY <2>1, <3>2, MessageSets, InFlightFinite, PumpAssumption
  <2>4. ASSUME NEW m \in Messages, stage'[m] # "idle"
        PROVE  Cardinality(Behind(m)') < MaxHandlers
    <3>1. m = n \/ stage[m] # "idle"
      BY <1>1, <2>1, <2>4 DEF TypeOK
    <3>2. QED
      BY <1>2, <2>2, <2>3, <3>1
  <2>5. QED
    BY <2>4 DEF OvertakingBound
<1>5. CASE UNCHANGED stage
  BY <1>3, <1>5
<1>6. ASSUME NEW m \in Messages, Dispatch(m)
      PROVE  OvertakingBound'
  BY <1>1, <1>3, <1>6, WorkKeepsOrder DEF Dispatch
<1>7. QED
  BY <1>4, <1>5, <1>6, LoopKeepsWork DEF Next, Loop

\* In message_pump.go a message overtakes fewer than MaxHandlers earlier ones; with
\* one handler the messages are handled strictly in order.
THEOREM OvertakingBounded == Spec => []OvertakingBound
<1>1. Init => OvertakingBound
  BY DEF Init, OvertakingBound
<1>2. IInv /\ OvertakingBound /\ [Next]_vars => OvertakingBound'
  BY NextOvertaking
<1>3. QED
  BY <1>1, <1>2, Invariance, PTL DEF Spec

(***************************************************************************)
(* The refinement.                                                         *)
(***************************************************************************)

\* What the stages of dispatch are to the pool.
LEMMA StatusOfStage ==
  /\ PoolStatus = [m \in Messages |->
       IF stage[m] = "idle" THEN "waiting" ELSE IF stage[m] = "done" THEN "finished" ELSE "running"]
  /\ PoolStatus' = [m \in Messages |->
       IF stage'[m] = "idle" THEN "waiting" ELSE IF stage'[m] = "done" THEN "finished" ELSE "running"]
BY DEF PoolStatus

\* The pool's running messages are the goroutines in flight.
LEMMA RunningIsInFlight == Pool!Running = InFlight
BY StatusOfStage DEF Pool!Running, Pool!Messages, Messages, InFlight

\* The pool counts as the pump does.
LEMMA SameCardinality == \A S : Pool!Cardinality(S) = Cardinality(S)
BY DEF Cardinality, Pool!Cardinality, IsFiniteSet, Pool!IsFiniteSet

\* A pump that has not started is a pool that has not started.
LEMMA InitRefines ==
  ASSUME Init
  PROVE  Pool!Init
BY StatusOfStage DEF Init, Pool!Init, Pool!Messages, Messages

\* A step between two stages in flight is invisible in the pool's status.
LEMMA StatusKept ==
  ASSUME TypeOK, NEW m \in Messages, NEW next, stage[m] \notin {"idle", "done"},
         next \notin {"idle", "done"},
         stage' = stage \/ stage' = [stage EXCEPT ![m] = next]
  PROVE  PoolStatus' = PoolStatus
BY StatusOfStage DEF TypeOK

\* Every step of message_pump.go is a step of the pool or invisible to it.
LEMMA NextRefines ==
  ASSUME IInv, FateConsistent, [Next]_vars
  PROVE  [Pool!Next]_(Pool!vars)
<1> USE DEF Pool!Messages, Messages
<1>1. TypeOK
  BY DEF IInv
<1>2. CASE TransporterClosed \/ SelectCancelled
  <2>1. PoolStatus' = PoolStatus /\ UNCHANGED <<accepted, removed, poisoned>>
    BY <1>2, LoopKeepsWork, StatusOfStage
  <2>2. pc # "exited" /\ pc' = "exited"
    BY <1>2 DEF TransporterClosed, SelectCancelled, Return
  <2>3. Pool!Stop
    BY <2>1, <2>2 DEF Pool!Stop
  <2>4. QED
    BY <2>3 DEF Pool!Next
<1>3. CASE Cancel \/ CloseTransporter \/ Fill \/ Plan \/ Account \/ SelectReleased
             \/ SelectDefault \/ Terminated \/ UNCHANGED vars
  <2>1. PoolStatus' = PoolStatus /\ UNCHANGED <<accepted, removed, poisoned>>
    BY <1>3, LoopKeepsWork, StatusOfStage
  <2>2. (pc = "exited")' = (pc = "exited")
    BY <1>3 DEF Cancel, CloseTransporter, Fill, Plan, Account, SelectReleased,
                SelectDefault, Terminated, vars, loopVars
  <2>3. QED
    BY <2>1, <2>2 DEF Pool!vars
<1>4. CASE Go
  <2>1. PICK m \in Messages :
           /\ stage[m] = "idle"
           /\ \A k \in Messages : k < m => stage[k] # "idle"
           /\ Cardinality(InFlight) < MaxHandlers
           /\ stage' = [stage EXCEPT ![m] = "dispatch"]
           /\ UNCHANGED <<pc, accepted, removed, poisoned>>
    BY <1>4, GoStartsOldest
  <2>2. pc # "exited"
    BY <1>4 DEF Go
  <2>3. PoolStatus' = [PoolStatus EXCEPT ![m] = "running"]
    BY <1>1, <2>1, StatusOfStage DEF TypeOK
  <2>4. PoolStatus[m] = "waiting" /\ \A k \in Messages : k < m => PoolStatus[k] # "waiting"
    BY <2>1, StatusOfStage
  <2>5. Pool!Cardinality(Pool!Running) < MaxHandlers
    BY <2>1, RunningIsInFlight, SameCardinality
  <2>6. UNCHANGED <<accepted, removed, poisoned, pc = "exited">>
    BY <2>1
  <2>7. Pool!Start(m)
    BY <2>2, <2>3, <2>4, <2>5, <2>6 DEF Pool!Start
  <2>8. QED
    BY <2>7 DEF Pool!Next
<1>5. ASSUME NEW m \in Messages, NEW ok \in BOOLEAN, DispatchCall(m, ok)
      PROVE  [Pool!Next]_(Pool!vars)
  <2>1. PoolStatus' = PoolStatus
    <3>1. stage' = stage \/ \E next \in {"delete", "poison"} : stage' = [stage EXCEPT ![m] = next]
      BY <1>5 DEF DispatchCall, MoveTo, Retry
    <3>2. stage[m] \notin {"idle", "done"}
      BY <1>5 DEF DispatchCall
    <3>3. QED
      BY <1>1, <3>1, <3>2, StatusKept
  <2>2. UNCHANGED <<pc, removed, poisoned>>
    BY <1>5 DEF DispatchCall, loopVars
  <2>3. PoolStatus[m] = "running" /\ m \notin removed \cup poisoned
    BY <1>5, StatusOfStage DEF DispatchCall, FateConsistent
  <2>4. CASE ok
    <3>1. accepted' = accepted \cup {m}
      BY <1>5, <2>4 DEF DispatchCall
    <3>2. Pool!Accept(m)
      BY <2>1, <2>2, <2>3, <3>1 DEF Pool!Accept
    <3>3. QED
      BY <3>2 DEF Pool!Next
  <2>5. CASE ~ok
    <3>1. accepted' = accepted
      BY <1>5, <2>5 DEF DispatchCall
    <3>2. QED
      BY <2>1, <2>2, <3>1 DEF Pool!vars
  <2>6. QED
    BY <2>4, <2>5
<1>6. ASSUME NEW m \in Messages, PoisonCall(m)
      PROVE  [Pool!Next]_(Pool!vars)
  <2>1. PoolStatus' = PoolStatus
    <3>1. /\ stage' = stage \/ stage' = [stage EXCEPT ![m] = "signal"]
          /\ stage[m] \notin {"idle", "done"}
      BY <1>6 DEF PoisonCall, MoveTo
    <3>2. QED
      BY <1>1, <3>1, StatusKept
  <2>2. Pool!Poison(m)
    BY <1>6, <2>1, StatusOfStage DEF PoisonCall, FateConsistent, Pool!Poison, loopVars
  <2>3. QED
    BY <2>2 DEF Pool!Next
<1>7. ASSUME NEW m \in Messages, NEW ok \in BOOLEAN, DeleteCall(m, ok)
      PROVE  [Pool!Next]_(Pool!vars)
  <2>1. PoolStatus' = PoolStatus
    <3>1. /\ stage' = stage \/ stage' = [stage EXCEPT ![m] = "signal"]
          /\ stage[m] \notin {"idle", "done"}
      BY <1>7 DEF DeleteCall, MoveTo, Retry
    <3>2. QED
      BY <1>1, <3>1, StatusKept
  <2>2. UNCHANGED <<pc, accepted, poisoned>>
    BY <1>7 DEF DeleteCall, loopVars
  <2>3. PoolStatus[m] = "running" /\ m \in accepted \ poisoned
    BY <1>7, StatusOfStage DEF DeleteCall, FateConsistent
  <2>4. CASE ok
    <3>1. removed' = removed \cup {m}
      BY <1>7, <2>4 DEF DeleteCall
    <3>2. Pool!Remove(m)
      BY <2>1, <2>2, <2>3, <3>1 DEF Pool!Remove
    <3>3. QED
      BY <3>2 DEF Pool!Next
  <2>5. CASE ~ok
    <3>1. removed' = removed
      BY <1>7, <2>5 DEF DeleteCall
    <3>2. QED
      BY <2>1, <2>2, <3>1 DEF Pool!vars
  <2>6. QED
    BY <2>4, <2>5
<1>8. ASSUME NEW m \in Messages, Signal(m)
      PROVE  [Pool!Next]_(Pool!vars)
  <2>1. stage[m] = "signal" /\ stage' = [stage EXCEPT ![m] = "done"]
    BY <1>8 DEF Signal, MoveTo
  <2>2. PoolStatus[m] = "running" /\ PoolStatus' = [PoolStatus EXCEPT ![m] = "finished"]
    BY <1>1, <2>1, StatusOfStage DEF TypeOK
  <2>3. UNCHANGED <<pc, accepted, removed, poisoned>>
    BY <1>8 DEF Signal, loopVars, outsideVars
  <2>4. Pool!Finish(m)
    BY <2>1, <2>2, <2>3 DEF Pool!Finish, FateConsistent
  <2>5. QED
    BY <2>4 DEF Pool!Next
<1>9. QED
  BY <1>2, <1>3, <1>4, <1>5, <1>6, <1>7, <1>8 DEF Next, Loop, Dispatch

\* message_pump.go implements the worker pool: its loop, its retries and its
\* channel are invisible, and every visible step is one the pool allows.
THEOREM Refinement == Spec => PoolSpec
<1>1. Init => Pool!Init
  BY InitRefines
<1>2. IInv /\ FateConsistent /\ [Next]_vars => [Pool!Next]_(Pool!vars)
  BY NextRefines
<1>3. QED
  BY <1>1, <1>2, Invariance, Fates, PTL DEF Spec, PoolSpec, Pool!Spec
==============================================================================
