-------------------------- MODULE MessagePumpProofs --------------------------
(***************************************************************************)
(* Proofs about MessagePump for every number of messages, batch size,      *)
(* number of handlers and number of retries.                               *)
(***************************************************************************)
EXTENDS MessagePump, FiniteSetTheorems, SequenceTheorems, TLAPS

\* The counters of message_pump.go are numbers.
LEMMA Numbers ==
  ASSUME TypeOK
  PROVE  /\ received \in Nat /\ Len(buffer) \in Nat
         /\ toDispatch \in Nat /\ spawned \in Nat /\ activeHandlers \in Nat
         /\ dispatchDone \in Nat /\ dispatchDone <= MaxHandlers
         /\ MaxHandlers \in Nat /\ Started \in Int
<1>1. /\ received \in Nat /\ Len(buffer) \in Nat
      /\ toDispatch \in Nat /\ spawned \in Nat /\ activeHandlers \in Nat
      /\ dispatchDone \in Nat /\ dispatchDone <= MaxHandlers
      /\ MaxHandlers \in Nat
  BY PumpAssumption DEF TypeOK
<1>2. QED
  BY <1>1 DEF Started

(***************************************************************************)
(* The set of goroutines in flight.                                        *)
(***************************************************************************)

\* Finitely many messages, hence finitely many goroutines of message_pump.go's
\* dispatch, in any state.
LEMMA InFlightFinite ==
  /\ IsFiniteSet(InFlight) /\ Cardinality(InFlight) \in Nat
  /\ IsFiniteSet(InFlight') /\ Cardinality(InFlight') \in Nat
<1>1. IsFiniteSet(Messages)
  BY FS_Interval, PumpAssumption DEF Messages
<1>2. InFlight \in SUBSET Messages /\ InFlight' \in SUBSET Messages
  BY DEF InFlight
<1>3. QED
  BY <1>1, <1>2, FS_Subset, FS_CardinalityType

\* A go statement in the loop of MessagePump.Start adds one goroutine.
LEMMA GoAddsOne ==
  ASSUME TypeOK, NEW m \in Messages, stage[m] = "idle",
         stage' = [stage EXCEPT ![m] = "dispatch"]
  PROVE  Cardinality(InFlight') = Cardinality(InFlight) + 1
<1>1. InFlight' = InFlight \cup {m} /\ m \notin InFlight
  BY DEF TypeOK, InFlight
<1>2. QED
  BY <1>1, InFlightFinite, FS_AddElement

\* The deferred send on DispatchDone takes one goroutine out of flight.
LEMMA SignalRemovesOne ==
  ASSUME TypeOK, NEW m \in Messages, stage[m] = "signal",
         stage' = [stage EXCEPT ![m] = "done"]
  PROVE  Cardinality(InFlight') = Cardinality(InFlight) - 1
<1>1. InFlight' = InFlight \ {m} /\ m \in InFlight
  BY DEF TypeOK, InFlight
<1>2. QED
  BY <1>1, InFlightFinite, FS_RemoveElement

\* The steps of dispatch before its deferred send keep the goroutine in flight.
LEMMA WorkKeepsInFlight ==
  ASSUME TypeOK, NEW m \in Messages, m \in InFlight,
         NEW s \in Stages \ {"idle", "done"},
         stage' = [stage EXCEPT ![m] = s]
  PROVE  InFlight' = InFlight
BY DEF TypeOK, InFlight

\* What the bounds of the loop say of DispatchDone: the number of handlers the
\* loop has accounted for is at most MaxHandlers, also within an iteration.
LEMMA AccountedFor ==
  ASSUME IInv
  PROVE  activeHandlers + spawned <= MaxHandlers
BY PumpAssumption DEF IInv, TypeOK, LoopBounds

------------------------------------------------------------------------------
(***************************************************************************)
(* The inductive invariant.                                                *)
(***************************************************************************)

\* MessagePump.Start begins with an empty buffer, no handlers and no elements.
LEMMA InitIInv == Init => IInv
<1> SUFFICES ASSUME Init PROVE IInv
  OBVIOUS
<1>1. TypeOK
  <2>1. closed \in BOOLEAN /\ cancelled \in BOOLEAN
    BY DEF Init
  <2>2. stage \in [Messages -> Stages] /\ call \in [Messages -> Calls]
    BY RetryCountAssumption DEF Init, Stages, Calls
  <2>3. dispatchDone \in 0 .. MaxHandlers /\ received \in 0 .. NumMessages
    BY PumpAssumption DEF Init
  <2>4. buffer \in Seq(Messages)
    BY DEF Init
  <2>5. QED
    BY <2>1, <2>2, <2>3, <2>4 DEF Init, TypeOK
<1>2. LoopBounds
  BY PumpAssumption DEF Init, LoopBounds
<1>3. NothingSkipped
  BY PumpAssumption DEF Init, NothingSkipped, Started, Messages
<1>4. SlotAccounting
  <2>1. InFlight = {}
    BY DEF Init, InFlight
  <2>2. QED
    BY <2>1, FS_EmptySet DEF Init, SlotAccounting
<1>5. QED
  BY <1>1, <1>2, <1>3, <1>4 DEF IInv

\* The environment's steps touch none of the pump's counts.
LEMMA EnvironmentIInv ==
  ASSUME IInv, Cancel \/ CloseTransporter
  PROVE  IInv'
BY DEF IInv, TypeOK, LoopBounds, NothingSkipped, Started, SlotAccounting, InFlight,
       Cancel, CloseTransporter, loopVars, envVars, workVars, outsideVars

\* Receiving a batch (message_pump.go, the head of the loop).
LEMMA FillIInv ==
  ASSUME IInv, Fill
  PROVE  IInv'
<1> USE DEF Fill, BufferDrained, workVars, outsideVars
<1>1. CASE buffer # <<>> /\ UNCHANGED <<buffer, received>>
  BY <1>1 DEF IInv, TypeOK, LoopBounds, NothingSkipped, Started, SlotAccounting, InFlight
<1>2. CASE buffer = <<>> /\ TakeBatch
  <2>1. PICK n \in 0 .. MaxBatch : /\ received + n <= NumMessages
                                   /\ buffer' = [i \in 1 .. n |-> received + i]
                                   /\ received' = received + n
    BY <1>2 DEF TakeBatch
  <2>2. n \in Nat
    BY <2>1, PumpAssumption
  <2>3. \A i \in 1 .. n : received + i \in Messages
    BY <2>1, <2>2, PumpAssumption DEF IInv, TypeOK, Messages
  <2>4. buffer' \in Seq(Messages) /\ Len(buffer') = n
    BY <2>1, <2>2, <2>3
  <2>5. TypeOK'
    BY <2>1, <2>2, <2>4, PumpAssumption DEF IInv, TypeOK
  <2>6. LoopBounds'
    BY DEF IInv, LoopBounds
  <2>7. NothingSkipped'
    <3>1. Started' = Started
      BY <1>2, <2>1, <2>2, <2>4 DEF IInv, TypeOK, Started
    <3>2. QED
      BY <2>1, <2>2, <2>4, <3>1 DEF IInv, TypeOK, NothingSkipped
  <2>8. SlotAccounting'
    BY DEF IInv, SlotAccounting, InFlight
  <2>9. QED
    BY <2>5, <2>6, <2>7, <2>8 DEF IInv
<1>3. QED
  BY <1>1, <1>2

\* The loop returns: its counters keep their values.
LEMMA ExitIInv ==
  ASSUME IInv, TransporterClosed \/ SelectCancelled
  PROVE  IInv'
BY DEF IInv, TypeOK, LoopBounds, NothingSkipped, Started, SlotAccounting, InFlight,
       TransporterClosed, SelectCancelled, Return, envVars, workVars, outsideVars

\* numberOfMessagesToDispatch is bounded by both of its arguments.
LEMMA PlanIInv ==
  ASSUME IInv, Plan
  PROVE  IInv'
<1> USE DEF Plan, envVars, workVars, outsideVars
<1>1. Len(buffer) \in Nat
  BY DEF IInv, TypeOK
<1>2. /\ toDispatch' \in Nat
      /\ toDispatch' <= Len(buffer)
      /\ activeHandlers + toDispatch' <= MaxHandlers
  BY <1>1, PumpAssumption DEF IInv, TypeOK, LoopBounds, NumberToDispatch, Smaller
<1>3. TypeOK'
  BY <1>2 DEF IInv, TypeOK
<1>4. LoopBounds'
  BY <1>2 DEF IInv, TypeOK, LoopBounds
<1>5. NothingSkipped' /\ SlotAccounting'
  BY DEF IInv, NothingSkipped, Started, SlotAccounting, InFlight
<1>6. QED
  BY <1>3, <1>4, <1>5 DEF IInv

\* A go statement starts the oldest message that has no goroutine.
LEMMA GoIInv ==
  ASSUME IInv, Go
  PROVE  IInv'
<1> USE DEF Go, envVars, outsideVars
<1> DEFINE m == buffer[spawned + 1]
<1>1. spawned + 1 \in 1 .. Len(buffer) /\ Len(buffer) \in Nat
  BY DEF IInv, TypeOK, LoopBounds
<1>2. m \in Messages
  BY <1>1 DEF IInv, TypeOK
<1> TypeOK
  BY DEF IInv
<1>3. m = Started + 1
  <2>1. m = received - Len(buffer) + (spawned + 1)
    BY <1>1 DEF IInv, NothingSkipped
  <2>2. QED
    BY <2>1, Numbers DEF Started
<1>4. stage[m] = "idle"
  <2>1. m > Started
    BY <1>3, Numbers
  <2>2. QED
    BY <1>2, <2>1 DEF IInv, NothingSkipped
<1>5. stage' = [stage EXCEPT ![m] = "dispatch"]
  OBVIOUS
<1>6. TypeOK'
  BY <1>2, <1>5, RetryCountAssumption DEF IInv, TypeOK, Stages, Calls
<1>7. LoopBounds'
  BY DEF IInv, TypeOK, LoopBounds
<1>8. NothingSkipped'
  <2>1. Started \in Int /\ Started' = Started + 1
    BY <1>1 DEF IInv, TypeOK, Started
  <2>2. ASSUME NEW k \in Messages
        PROVE  (stage'[k] = "idle") <=> (k > Started')
    BY <1>2, <1>3, <1>5, <2>1, PumpAssumption DEF IInv, TypeOK, NothingSkipped, Messages
  <2>3. QED
    BY <2>2 DEF IInv, NothingSkipped
<1>9. SlotAccounting'
  <2>1. Cardinality(InFlight') = Cardinality(InFlight) + 1
    BY <1>2, <1>4, <1>5, GoAddsOne DEF IInv
  <2>2. /\ spawned' = spawned + 1
        /\ activeHandlers' = activeHandlers /\ dispatchDone' = dispatchDone
    OBVIOUS
  <2>3. activeHandlers + spawned = Cardinality(InFlight) + dispatchDone
    BY DEF IInv, SlotAccounting
  <2>4. Cardinality(InFlight) \in Nat
    BY InFlightFinite
  <2>5. activeHandlers \in Nat /\ spawned \in Nat /\ dispatchDone \in Nat
    BY DEF TypeOK
  <2> HIDE DEF Go, m
  <2>6. activeHandlers + (spawned + 1) = Cardinality(InFlight) + 1 + dispatchDone
    BY <2>3, <2>4, <2>5
  <2>7. QED
    BY <2>1, <2>2, <2>6 DEF SlotAccounting
<1>10. QED
  BY <1>6, <1>7, <1>8, <1>9 DEF IInv

\* buffer = buffer[n:] and activeHandlers += n.
LEMMA AccountIInv ==
  ASSUME IInv, Account
  PROVE  IInv'
<1> USE DEF Account, Remaining, envVars, workVars, outsideVars
<1>1. Len(buffer) \in Nat /\ toDispatch \in 0 .. Len(buffer)
  BY DEF IInv, TypeOK, LoopBounds
<1>2. /\ buffer' \in Seq(Messages)
      /\ Len(buffer') = Len(buffer) - toDispatch
      /\ \A i \in 1 .. Len(buffer') : buffer'[i] = buffer[toDispatch + i]
  <2>1. \A i \in toDispatch + 1 .. Len(buffer) : buffer[i] \in Messages
    BY <1>1 DEF IInv, TypeOK
  <2>2. toDispatch + 1 \in Int /\ Len(buffer) \in Int
    BY <1>1
  <2>3. QED
    BY <1>1, <2>1, <2>2, SubSeqProperties
<1>3. TypeOK'
  BY <1>2 DEF IInv, TypeOK
<1>4. LoopBounds'
  BY PumpAssumption DEF IInv, TypeOK, LoopBounds
<1>5. NothingSkipped'
  <2>1. TypeOK
    BY DEF IInv
  <2>2. Len(buffer') \in Nat /\ received' = received /\ spawned' = 0 /\ spawned = toDispatch
    BY <1>1, <1>2
  <2>3. Started' = Started
    BY <1>2, <2>1, <2>2, Numbers DEF Started
  <2>4. Len(buffer') <= received'
    BY <1>1, <1>2, <2>1, <2>2, Numbers DEF IInv, NothingSkipped
  <2>5. ASSUME NEW i \in 1 .. Len(buffer')
        PROVE  buffer'[i] = received' - Len(buffer') + i
    <3>1. toDispatch + i \in 1 .. Len(buffer)
      BY <1>1, <1>2, <2>2
    <3>2. buffer[toDispatch + i] = received - Len(buffer) + (toDispatch + i)
      BY <3>1 DEF IInv, NothingSkipped
    <3>3. QED
      BY <1>1, <1>2, <2>1, <2>2, <3>2, Numbers
  <2>6. QED
    BY <2>3, <2>4, <2>5 DEF IInv, NothingSkipped
<1>6. SlotAccounting'
  BY DEF IInv, TypeOK, SlotAccounting, InFlight
<1>7. QED
  BY <1>3, <1>4, <1>5, <1>6 DEF IInv

\* The two ways in which the loop goes round.
LEMMA SelectIInv ==
  ASSUME IInv, SelectReleased \/ SelectDefault
  PROVE  IInv'
<1> USE DEF SelectReleased, Release, SelectDefault, envVars, workVars, outsideVars
<1>1. TypeOK' /\ LoopBounds'
  BY PumpAssumption DEF IInv, TypeOK, LoopBounds
<1>2. NothingSkipped'
  BY DEF IInv, NothingSkipped, Started
<1>3. SlotAccounting'
  <2>1. InFlight' = InFlight
    BY DEF InFlight
  <2>2. QED
    BY <1>1, <2>1, InFlightFinite, Numbers DEF IInv, SlotAccounting
<1>4. QED
  BY <1>1, <1>2, <1>3 DEF IInv

\* The steps of dispatch(m).
LEMMA DispatchIInv ==
  ASSUME IInv, NEW m \in Messages, Dispatch(m)
  PROVE  IInv'
<1> USE DEF envVars, loopVars, outsideVars
<1>1. CASE Signal(m)
  <2>1. stage[m] = "signal" /\ stage' = [stage EXCEPT ![m] = "done"]
    BY <1>1 DEF Signal, MoveTo
  <2>2. TypeOK'
    BY <1>1, RetryCountAssumption, PumpAssumption DEF IInv, TypeOK, Signal, MoveTo, Stages, Calls
  <2>3. LoopBounds' /\ NothingSkipped'
    BY <1>1, <2>1 DEF IInv, TypeOK, LoopBounds, NothingSkipped, Started, Signal
  <2>4. SlotAccounting'
    <3>1. Cardinality(InFlight') = Cardinality(InFlight) - 1
      BY <2>1, SignalRemovesOne DEF IInv
    <3>2. QED
      BY <1>1, <3>1, InFlightFinite DEF IInv, TypeOK, SlotAccounting, Signal
  <2>5. QED
    BY <2>2, <2>3, <2>4 DEF IInv
<1>2. CASE \/ PoisonCall(m)
           \/ \E ok \in BOOLEAN : DispatchCall(m, ok) \/ DeleteCall(m, ok)
  <2> DEFINE Moves == \E s \in Stages \ {"idle", "done"} : stage' = [stage EXCEPT ![m] = s]
  <2>1. /\ m \in InFlight
        /\ Moves
        /\ call' \in [Messages -> Calls]
        /\ UNCHANGED <<loopVars, dispatchDone, envVars>>
    <3>1. CASE PoisonCall(m)
      <4>1. /\ stage[m] = "poison" /\ stage' = [stage EXCEPT ![m] = "signal"]
            /\ call' = [call EXCEPT ![m] = 0]
            /\ UNCHANGED <<loopVars, dispatchDone, envVars>>
        BY <3>1 DEF PoisonCall, MoveTo
      <4>2. Moves
        BY <4>1 DEF Stages
      <4>3. call' \in [Messages -> Calls]
        BY <4>1, RetryCountAssumption DEF IInv, TypeOK, Calls
      <4>4. QED
        BY <4>1, <4>2, <4>3 DEF InFlight
    <3>2. CASE \E ok \in BOOLEAN : DispatchCall(m, ok) \/ DeleteCall(m, ok)
      <4>1. PICK ok \in BOOLEAN : DispatchCall(m, ok) \/ DeleteCall(m, ok)
        BY <3>2
      <4>2. /\ stage[m] \in {"dispatch", "delete"}
            /\ UNCHANGED <<loopVars, dispatchDone, envVars>>
        BY <4>1 DEF DispatchCall, DeleteCall
      <4>3. CASE Retry(m) /\ ~Returns(call[m], ok)
        <5>1. Moves
          BY <4>2, <4>3 DEF IInv, TypeOK, Stages, Retry
        <5>2. call' \in [Messages -> Calls]
          BY <4>3, RetryCountAssumption DEF IInv, TypeOK, Calls, Retry, Returns
        <5>3. QED
          BY <4>2, <5>1, <5>2 DEF InFlight
      <4>4. CASE \E s \in Stages \ {"idle", "done"} : MoveTo(m, s)
        <5>1. Moves /\ call' = [call EXCEPT ![m] = 0]
          BY <4>4 DEF MoveTo
        <5>2. call' \in [Messages -> Calls]
          BY <5>1, RetryCountAssumption DEF IInv, TypeOK, Calls
        <5>3. QED
          BY <4>2, <5>1, <5>2 DEF InFlight
      <4>5. QED
        BY <4>1, <4>3, <4>4 DEF DispatchCall, DeleteCall, Stages
    <3>3. QED
      BY <1>2, <3>1, <3>2
  <2>2. PICK s \in Stages \ {"idle", "done"} : stage' = [stage EXCEPT ![m] = s]
    BY <2>1
  <2>3. accepted' \subseteq Messages /\ removed' \subseteq Messages /\ poisoned' \subseteq Messages
    BY <1>2 DEF IInv, TypeOK, PoisonCall, DispatchCall, DeleteCall
  <2>4. TypeOK'
    BY <2>1, <2>2, <2>3 DEF IInv, TypeOK
  <2>5. LoopBounds'
    BY <2>1 DEF IInv, LoopBounds
  <2>6. NothingSkipped'
    BY <2>1, <2>2 DEF IInv, TypeOK, NothingSkipped, Started, InFlight
  <2>7. SlotAccounting'
    <3>1. InFlight' = InFlight
      BY <2>1, <2>2, WorkKeepsInFlight DEF IInv
    <3>2. QED
      BY <2>1, <3>1 DEF IInv, SlotAccounting
  <2>8. QED
    BY <2>4, <2>5, <2>6, <2>7 DEF IInv
<1>3. QED
  BY <1>1, <1>2 DEF Dispatch

\* A step that changes nothing.
LEMMA StutterIInv ==
  ASSUME IInv, UNCHANGED vars
  PROVE  IInv'
BY DEF IInv, TypeOK, LoopBounds, NothingSkipped, Started, SlotAccounting, InFlight,
       vars, loopVars, envVars, workVars, outsideVars

\* Every step of the pump, its goroutines and its environment preserves IInv.
LEMMA NextIInv ==
  ASSUME IInv, [Next]_vars
  PROVE  IInv'
<1>1. CASE Cancel \/ CloseTransporter
  BY <1>1, EnvironmentIInv
<1>2. CASE Loop
  BY <1>2, FillIInv, ExitIInv, PlanIInv, GoIInv, AccountIInv, SelectIInv DEF Loop
<1>3. CASE \E m \in Messages : Dispatch(m)
  BY <1>3, DispatchIInv
<1>4. CASE UNCHANGED vars
  BY <1>4, StutterIInv
<1>5. QED
  BY <1>1, <1>2, <1>3, <1>4 DEF Next, Terminated

\* IInv is an invariant of the pump.
THEOREM Invariance == Spec => []IInv
BY InitIInv, NextIInv, PTL DEF Spec

\* message_pump.go is type correct: in particular DispatchDone never holds more
\* elements than its capacity.
THEOREM TypeCorrect == Spec => []TypeOK
<1>1. IInv => TypeOK
  BY DEF IInv
<1>2. QED
  BY <1>1, Invariance, PTL

\* buffer[:numberOfMessagesToDispatch] never panics, and the loop dispatches no more than
\* it has room for.
THEOREM LoopInBounds == Spec => []LoopBounds
<1>1. IInv => LoopBounds
  BY DEF IInv
<1>2. QED
  BY <1>1, Invariance, PTL

\* The loop skips no message and dispatches none twice.
THEOREM NoneSkipped == Spec => []NothingSkipped
<1>1. IInv => NothingSkipped
  BY DEF IInv
<1>2. QED
  BY <1>1, Invariance, PTL

\* activeHandlers is what message_pump.go takes it for, in every interleaving of the
\* loop's go statements with the goroutines they start.
THEOREM SlotsAccounted == Spec => []SlotAccounting
<1>1. IInv => SlotAccounting
  BY DEF IInv
<1>2. QED
  BY <1>1, Invariance, PTL

\* At most MaxHandlers goroutines are in flight, and a goroutine that has its
\* element to send finds room for it: consequences of the slot accounting.
LEMMA SlotsSuffice ==
  ASSUME IInv
  PROVE  MaxHandlersRespected /\ SignalNeverBlocks
<1>1. TypeOK /\ activeHandlers + spawned = Cardinality(InFlight) + dispatchDone
  BY DEF IInv, SlotAccounting
<1>2. Cardinality(InFlight) + dispatchDone <= MaxHandlers
  BY <1>1, AccountedFor
<1>3. MaxHandlersRespected
  BY <1>1, <1>2, InFlightFinite, Numbers DEF MaxHandlersRespected
<1>4. ASSUME NEW m \in Messages, stage[m] = "signal"
      PROVE  dispatchDone < MaxHandlers
  <2>1. m \in InFlight
    BY <1>4 DEF InFlight
  <2>2. Cardinality(InFlight) # 0
    BY <2>1, InFlightFinite, FS_EmptySet
  <2>3. QED
    BY <1>1, <1>2, <2>2, InFlightFinite, Numbers
<1>5. QED
  BY <1>3, <1>4 DEF SignalNeverBlocks

\* --max-handlers is respected by message_pump.go in every state, whatever the
\* order in which goroutines finish and the loop notices.
THEOREM HandlersBounded == Spec => []MaxHandlersRespected
BY Invariance, SlotsSuffice, PTL

\* The send on DispatchDone never blocks, before or after the loop has returned:
\* the channel's capacity is enough.
THEOREM SignalsNeverBlock == Spec => []SignalNeverBlocks
BY Invariance, SlotsSuffice, PTL

\* Messages are taken from the transporter only when all earlier ones have been
\* given to a goroutine.
THEOREM NoReadAhead == Spec => ReadAheadOnlyWhenDrained
<1>1. ASSUME IInv, Next, received' # received
      PROVE  \A m \in 1 .. received : stage[m] # "idle"
  <2>1. Fill /\ buffer = <<>>
    BY <1>1 DEF Next, Loop, Cancel, CloseTransporter, Fill, BufferDrained, TransporterClosed, Plan, Go,
                Account, SelectCancelled, SelectReleased, SelectDefault, Dispatch, Return,
                DispatchCall, DeleteCall, PoisonCall, Signal, Terminated, vars, envVars
  <2>2. TypeOK /\ spawned = 0
    BY <1>1, <2>1 DEF IInv, LoopBounds, Fill
  <2>3. Started = received
    BY <2>1, <2>2, Numbers DEF Started
  <2>4. ASSUME NEW m \in 1 .. received
        PROVE  stage[m] # "idle"
    <3>1. m \in Messages
      BY <2>2, PumpAssumption DEF TypeOK, Messages
    <3>2. ~(m > Started)
      BY <2>2, <2>3, Numbers
    <3>3. QED
      BY <1>1, <3>1, <3>2 DEF IInv, NothingSkipped
  <2>5. QED
    BY <2>4
<1>2. IInv /\ [Next]_vars =>
        [received' # received => \A m \in 1 .. received : stage[m] # "idle"]_vars
  BY <1>1
<1>3. QED
  BY <1>2, Invariance, PTL DEF Spec, ReadAheadOnlyWhenDrained

------------------------------------------------------------------------------
(***************************************************************************)
(* Progress.  That the loop and its goroutines come to an end is liveness, *)
(* which TLC checks; the two facts on which it rests for every value of    *)
(* the constants are proved here: nobody waits for something that cannot   *)
(* come, and nothing goes on for ever.  For the second, each step lowers a *)
(* number that is never negative.                                          *)
(***************************************************************************)

\* The loop waits for an element on DispatchDone only when as many goroutines as there
\* are handlers are still to put theirs there: it does not miss one that has finished.
FullWhenWaiting ==
  pc = "select" /\ activeHandlers = MaxHandlers /\ dispatchDone = 0 =>
    Cardinality(InFlight) = MaxHandlers

\* The loop never waits for a goroutine that has finished already.
THEOREM WaitsForWork == Spec => []FullWhenWaiting
<1>1. ASSUME IInv, pc = "select", activeHandlers = MaxHandlers, dispatchDone = 0
      PROVE  Cardinality(InFlight) = MaxHandlers
  BY <1>1, InFlightFinite, PumpAssumption DEF IInv, LoopBounds, SlotAccounting
<1>2. IInv => FullWhenWaiting
  BY <1>1 DEF FullWhenWaiting
<1>3. QED
  BY <1>2, Invariance, PTL

\* An iteration of the loop that finds messages waiting starts one of them: it does not
\* go round and round while it has room and work.
IterationStartsWork == pc = "go" /\ buffer # <<>> => toDispatch # 0

\* What is not empty has a length.
LEMMA NotDrained ==
  ASSUME TypeOK, buffer # <<>>
  PROVE  Len(buffer) \in Nat /\ Len(buffer) # 0
BY EmptySeq DEF TypeOK

\* Every step of the pump keeps it so: there is room when an iteration is planned.
LEMMA NextIterationStarts ==
  ASSUME IInv, IterationStartsWork, [Next]_vars
  PROVE  IterationStartsWork'
<1>1. CASE Plan
  <2>1. ASSUME buffer # <<>>
        PROVE  NumberToDispatch # 0
    BY <1>1, <2>1, NotDrained, Numbers
       DEF IInv, LoopBounds, Plan, NumberToDispatch, Smaller
  <2>2. QED
    BY <1>1, <2>1 DEF Plan, IterationStartsWork
<1>2. CASE UNCHANGED loopVars
  BY <1>2 DEF loopVars, IterationStartsWork
<1>3. CASE Loop /\ ~Plan
  BY <1>3 DEF Loop, Fill, TransporterClosed, Go, Account, SelectCancelled, SelectReleased,
              SelectDefault, Return, IterationStartsWork
<1>4. QED
  BY <1>1, <1>2, <1>3 DEF Next, Cancel, CloseTransporter, Terminated, Dispatch, DispatchCall,
                          DeleteCall, PoisonCall, Signal, vars

\* No iteration of the loop is idle while messages wait.
THEOREM IterationsStartWork == Spec => []IterationStartsWork
<1>1. Init => IterationStartsWork
  BY DEF Init, IterationStartsWork
<1>2. IInv /\ IterationStartsWork /\ [Next]_vars => IterationStartsWork'
  BY NextIterationStarts
<1>3. QED
  BY <1>1, <1>2, Invariance, PTL DEF Spec

\* An iteration that is about to start its first message.
Fresh == buffer # <<>> /\ spawned = 0

IterationRank ==
  CASE pc = "exited" -> 0
    [] pc = "fill"   -> 3
    [] pc = "plan"   -> IF Fresh THEN 2 ELSE 6
    [] pc = "go"     -> IF Fresh THEN 1 ELSE 5
    [] pc = "select" -> 4

\* A bound on the steps that the loop can take when it receives nothing more: five for
\* each message that has no goroutine, and those of the current iteration.
LoopRank == 5 * (Len(buffer) - spawned) + IterationRank

\* The bound is a number, and what is behind Len(buffer).
LEMMA LoopRankIsNat ==
  ASSUME IInv
  PROVE  /\ LoopRank \in Nat /\ IterationRank \in Nat
         /\ Len(buffer) \in Nat /\ spawned \in Nat /\ spawned <= Len(buffer)
<1>1. Len(buffer) \in Nat /\ spawned \in Nat /\ toDispatch \in Nat
  BY Numbers DEF IInv
<1>2. spawned <= Len(buffer)
  BY <1>1 DEF IInv, TypeOK, LoopBounds
<1>3. IterationRank \in Nat
  <2>1. pc \in {"fill", "plan", "go", "select", "exited"}
    BY DEF IInv, TypeOK
  <2>2. QED
    BY <2>1 DEF IterationRank
<1>4. QED
  BY <1>1, <1>2, <1>3 DEF LoopRank

\* Once the transporter is closed, every step of the loop lowers its bound, also when it
\* goes round for a slot, or with an empty batch.
LEMMA LoopLowersRank ==
  ASSUME IInv, IInv', IterationStartsWork, closed, Loop
  PROVE  LoopRank' < LoopRank
<1>1. /\ Len(buffer) \in Nat /\ spawned \in Nat
      /\ Len(buffer') \in Nat /\ spawned' \in Nat
      /\ toDispatch \in Nat /\ (pc = "go" => toDispatch <= Len(buffer))
      /\ pc # "go" => spawned = 0
  BY Numbers, LoopRankIsNat DEF IInv, LoopBounds, TypeOK
<1>2. CASE Fill
  <2>1. pc = "fill" /\ pc' = "plan" /\ buffer # <<>> /\ UNCHANGED <<buffer, spawned>>
    BY <1>2 DEF Fill, BufferDrained
  <2>2. IterationRank = 3 /\ IterationRank' = 2
    BY <1>1, <2>1 DEF IterationRank, Fresh
  <2>3. QED
    BY <1>1, <2>1, <2>2 DEF LoopRank
<1>3. CASE TransporterClosed \/ SelectCancelled
  <2>1. pc \in {"fill", "select"} /\ pc' = "exited" /\ UNCHANGED <<buffer, spawned>>
    BY <1>3 DEF TransporterClosed, SelectCancelled, Return
  <2>2. IterationRank \in {3, 4} /\ IterationRank' = 0
    BY <2>1 DEF IterationRank
  <2>3. QED
    BY <1>1, <2>1, <2>2 DEF LoopRank
<1>4. CASE Plan
  <2>1. pc = "plan" /\ pc' = "go" /\ UNCHANGED <<buffer, spawned>>
    BY <1>4 DEF Plan
  <2>2. IterationRank' = IterationRank - 1
    BY <1>1, <2>1 DEF IterationRank, Fresh
  <2>3. IterationRank \in Nat
    BY LoopRankIsNat
  <2>4. QED
    BY <1>1, <2>1, <2>2, <2>3 DEF LoopRank
<1>5. CASE Go
  <2>1. pc = "go" /\ pc' = "go" /\ UNCHANGED buffer /\ spawned' = spawned + 1
    BY <1>5 DEF Go
  <2>2. IterationRank \in {1, 5} /\ IterationRank' = 5 /\ (spawned # 0 => IterationRank = 5)
    BY <1>1, <2>1 DEF IterationRank, Fresh
  <2>3. QED
    BY <1>1, <2>1, <2>2 DEF LoopRank
<1>6. CASE Account
  <2>1. pc = "go" /\ pc' = "select" /\ spawned = toDispatch /\ spawned' = 0
    BY <1>6 DEF Account
  <2>2. Len(buffer') = Len(buffer) - toDispatch
    <3>1. toDispatch + 1 \in Int /\ Len(buffer) \in Int /\ toDispatch <= Len(buffer)
      BY <1>1, <2>1
    <3>2. \A i \in toDispatch + 1 .. Len(buffer) : buffer[i] \in Messages
      BY <1>1, <3>1 DEF IInv, TypeOK
    <3>3. QED
      BY <1>1, <1>6, <3>1, <3>2, SubSeqProperties DEF Account, Remaining
  <2>3. IterationRank = 5 /\ IterationRank' = 4
    BY <1>1, <2>1 DEF IterationRank, Fresh, IterationStartsWork
  <2>4. QED
    BY <1>1, <2>1, <2>2, <2>3 DEF LoopRank
<1>7. CASE SelectReleased \/ SelectDefault
  <2>1. pc = "select" /\ pc' = "fill" /\ UNCHANGED <<buffer, spawned>>
    BY <1>7 DEF SelectReleased, SelectDefault
  <2>2. IterationRank = 4 /\ IterationRank' = 3
    BY <2>1 DEF IterationRank
  <2>3. QED
    BY <1>1, <2>1, <2>2 DEF LoopRank
<1>8. QED
  BY <1>2, <1>3, <1>4, <1>5, <1>6, <1>7 DEF Loop

\* Whatever the others do leaves the bound as it is.
LEMMA OthersKeepRank ==
  ASSUME [Next]_vars, ~Loop
  PROVE  UNCHANGED LoopRank
BY DEF Next, Cancel, CloseTransporter, Dispatch, DispatchCall, DeleteCall, PoisonCall, Signal,
       Terminated, vars, loopVars, LoopRank, IterationRank, Fresh

\* After its transporter has closed, the loop takes a bounded number of steps: it ends, or
\* it waits for one of MaxHandlers goroutines or for the context.
LoopWindsDown ==
  /\ [](LoopRank \in Nat)
  /\ [][closed => IF Loop THEN LoopRank' < LoopRank ELSE UNCHANGED LoopRank]_vars

\* Closing the transporter is enough for the loop not to go on for ever.
THEOREM LoopEnds == Spec => LoopWindsDown
<1>1. IInv /\ IInv' /\ IterationStartsWork /\ [Next]_vars =>
        [closed => IF Loop THEN LoopRank' < LoopRank ELSE UNCHANGED LoopRank]_vars
  BY LoopLowersRank, OthersKeepRank
<1>2. IInv => LoopRank \in Nat
  BY LoopRankIsNat
<1>3. QED
  BY <1>1, <1>2, Invariance, IterationsStartWork, PTL DEF Spec, LoopWindsDown

\* A bound on the steps that the goroutine of m can still take: the calls that
\* RetryPolicy.Execute may still make of Dispatch and of Delete, and the deferred send.
WorkRank(m) ==
  LET callsLeft == RetryCount + 1 - call[m]
  IN  CASE stage[m] = "idle"     -> 2 * RetryCount + 4
        [] stage[m] = "dispatch" -> RetryCount + 2 + callsLeft
        [] stage[m] = "poison"   -> 2
        [] stage[m] = "delete"   -> 1 + callsLeft
        [] stage[m] = "signal"   -> 1
        [] stage[m] = "done"     -> 0

\* The bound is a number.
LEMMA WorkRankIsNat ==
  ASSUME TypeOK, NEW m \in Messages
  PROVE  WorkRank(m) \in Nat
<1>1. call[m] \in 0 .. RetryCount /\ stage[m] \in Stages
  BY DEF TypeOK, Calls
<1>2. QED
  BY <1>1, RetryCountAssumption DEF WorkRank, Stages

\* A call of RetryPolicy.Execute is the last one or is followed by one fewer.
LEMMA DispatchLowersRank ==
  ASSUME TypeOK, NEW m \in Messages, Dispatch(m)
  PROVE  WorkRank(m)' < WorkRank(m)
<1>1. /\ RetryCount \in Nat /\ call[m] \in 0 .. RetryCount /\ stage[m] \in Stages
      /\ stage \in [Messages -> Stages] /\ call \in [Messages -> Calls]
  BY RetryCountAssumption DEF TypeOK, Calls
<1>2. ASSUME NEW ok \in BOOLEAN, DispatchCall(m, ok)
      PROVE  WorkRank(m)' < WorkRank(m)
  <2>1. stage[m] = "dispatch"
    BY <1>2 DEF DispatchCall
  <2>2. CASE Returns(call[m], ok)
    <3>1. stage'[m] \in {"delete", "poison"} /\ call'[m] = 0
      BY <1>1, <1>2, <2>2 DEF DispatchCall, MoveTo
    <3>2. QED
      BY <1>1, <2>1, <3>1 DEF WorkRank
  <2>3. CASE ~Returns(call[m], ok)
    <3>1. stage'[m] = "dispatch" /\ call'[m] = call[m] + 1
      BY <1>1, <1>2, <2>1, <2>3 DEF DispatchCall, Retry
    <3>2. QED
      BY <1>1, <2>1, <3>1 DEF WorkRank
  <2>4. QED
    BY <2>2, <2>3
<1>3. ASSUME NEW ok \in BOOLEAN, DeleteCall(m, ok)
      PROVE  WorkRank(m)' < WorkRank(m)
  <2>1. stage[m] = "delete"
    BY <1>3 DEF DeleteCall
  <2>2. CASE Returns(call[m], ok)
    <3>1. stage'[m] = "signal" /\ call'[m] = 0
      BY <1>1, <1>3, <2>2 DEF DeleteCall, MoveTo
    <3>2. QED
      BY <1>1, <2>1, <3>1 DEF WorkRank
  <2>3. CASE ~Returns(call[m], ok)
    <3>1. stage'[m] = "delete" /\ call'[m] = call[m] + 1
      BY <1>1, <1>3, <2>1, <2>3 DEF DeleteCall, Retry
    <3>2. QED
      BY <1>1, <2>1, <3>1 DEF WorkRank
  <2>4. QED
    BY <2>2, <2>3
<1>4. CASE PoisonCall(m)
  <2>1. stage[m] = "poison" /\ stage'[m] = "signal"
    BY <1>1, <1>4 DEF PoisonCall, MoveTo
  <2>2. QED
    BY <2>1 DEF WorkRank
<1>5. CASE Signal(m)
  <2>1. stage[m] = "signal" /\ stage'[m] = "done"
    BY <1>1, <1>5 DEF Signal, MoveTo
  <2>2. QED
    BY <2>1 DEF WorkRank
<1>6. QED
  BY <1>2, <1>3, <1>4, <1>5 DEF Dispatch

\* The loop starts the goroutine of m, which is a step too, and nobody else touches its work.
LEMMA OthersKeepWorkRank ==
  ASSUME IInv, NEW m \in Messages, [Next]_vars, ~Dispatch(m)
  PROVE  WorkRank(m)' <= WorkRank(m)
<1>1. stage \in [Messages -> Stages] /\ call \in [Messages -> Calls] /\ RetryCount \in Nat
  BY RetryCountAssumption DEF IInv, TypeOK
<1>2. WorkRank(m) \in Nat
  BY WorkRankIsNat DEF IInv
<1>3. CASE Go
  <2>1. spawned + 1 \in 1 .. Len(buffer) /\ Len(buffer) \in Nat
    BY <1>3 DEF Go, IInv, TypeOK, LoopBounds
  <2>2. buffer[spawned + 1] \in Messages
    BY <2>1 DEF IInv, TypeOK
  <2>3. stage[buffer[spawned + 1]] = "idle"
    <3>1. buffer[spawned + 1] = Started + 1
      BY <2>1, Numbers DEF IInv, NothingSkipped, Started
    <3>2. QED
      BY <2>2, <3>1, Numbers DEF IInv, NothingSkipped
  <2>4. \/ stage'[m] = stage[m] /\ call'[m] = call[m]
        \/ stage[m] = "idle" /\ stage'[m] = "dispatch" /\ call'[m] = 0
    BY <1>1, <1>3, <2>2, <2>3 DEF Go
  <2>5. CASE stage'[m] = stage[m] /\ call'[m] = call[m]
    <3>1. WorkRank(m)' = WorkRank(m)
      BY <2>5 DEF WorkRank
    <3>2. QED
      BY <1>2, <3>1
  <2>6. CASE stage[m] = "idle" /\ stage'[m] = "dispatch" /\ call'[m] = 0
    BY <1>1, <2>6 DEF WorkRank
  <2>7. QED
    BY <2>4, <2>5, <2>6
<1>4. ASSUME NEW k \in Messages, Dispatch(k)
      PROVE  WorkRank(m)' <= WorkRank(m)
  <2>1. stage'[m] = stage[m] /\ call'[m] = call[m]
    BY <1>1, <1>4 DEF Dispatch, DispatchCall, DeleteCall, PoisonCall, Signal, MoveTo, Retry
  <2>2. WorkRank(m)' = WorkRank(m)
    BY <2>1 DEF WorkRank
  <2>3. QED
    BY <1>2, <2>2
<1>5. CASE UNCHANGED workVars
  <2>1. WorkRank(m)' = WorkRank(m)
    BY <1>5 DEF workVars, WorkRank
  <2>2. QED
    BY <1>2, <2>1
<1>6. QED
  BY <1>3, <1>4, <1>5 DEF Next, Cancel, CloseTransporter, Terminated, Loop, Fill,
       TransporterClosed, Plan, Account, SelectCancelled, SelectReleased, SelectDefault, Return, vars

\* However its calls end, the goroutine of a message makes at most 2 * (RetryCount + 1)
\* calls and its deferred send; nothing makes it begin again.
WorkWindsDown ==
  /\ [](\A m \in Messages : WorkRank(m) \in Nat)
  /\ [][\A m \in Messages :
          /\ WorkRank(m)' <= WorkRank(m)
          /\ Dispatch(m) => WorkRank(m)' < WorkRank(m)]_vars

\* Retries do not go on for ever, whatever handlers and brokers answer.
THEOREM WorkEnds == Spec => WorkWindsDown
<1>1. IInv => \A m \in Messages : WorkRank(m) \in Nat
  BY WorkRankIsNat DEF IInv
<1>2. (IInv => \A m \in Messages : WorkRank(m) \in Nat)'
  BY <1>1, PTL
<1>3. ASSUME IInv, IInv', [Next]_vars, NEW m \in Messages
      PROVE  /\ WorkRank(m)' <= WorkRank(m)
             /\ Dispatch(m) => WorkRank(m)' < WorkRank(m)
  <2>1. WorkRank(m) \in Nat
    BY <1>1, <1>3
  <2>2. CASE Dispatch(m)
    <3>1. WorkRank(m)' \in Nat /\ WorkRank(m)' < WorkRank(m)
      BY <1>2, <1>3, <2>2, DispatchLowersRank DEF IInv
    <3>2. QED
      BY <2>1, <2>2, <3>1
  <2>3. CASE ~Dispatch(m)
    BY <1>3, <2>3, OthersKeepWorkRank
  <2>4. QED
    BY <2>2, <2>3
<1>4. IInv /\ IInv' /\ [Next]_vars =>
        [\A m \in Messages :
           /\ WorkRank(m)' <= WorkRank(m)
           /\ Dispatch(m) => WorkRank(m)' < WorkRank(m)]_vars
  BY <1>3
<1>5. QED
  BY <1>1, <1>4, Invariance, PTL DEF Spec, WorkWindsDown
==============================================================================
