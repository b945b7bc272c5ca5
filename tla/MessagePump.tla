----------------------------- MODULE MessagePump -----------------------------
(***************************************************************************)
(* core/message_pump.go: the loop that takes batches of messages from a    *)
(* transporter and runs one goroutine per message, and those goroutines.   *)
(*                                                                         *)
(* Messages are identified by their position in the order in which the     *)
(* transporter hands them over.  The pump's goroutine and the dispatch     *)
(* goroutines interleave; the transporter (whose channel is unbuffered),   *)
(* the handler process behind the Dispatcher and the owner of the context  *)
(* are the environment.                                                    *)
(***************************************************************************)
EXTENDS Integers, Sequences, FiniteSets, RetryPolicy

CONSTANTS NumMessages,  \* bound: how many messages the transporter ever hands over
          MaxBatch,     \* the largest batch the transporter puts on its channel
          MaxHandlers   \* MessagePump.MaxHandlers, also the capacity of DispatchDone

ASSUME PumpAssumption ==
  /\ NumMessages \in Nat
  /\ MaxBatch \in Nat \ {0}
  /\ MaxHandlers \in Nat \ {0}

Messages == 1 .. NumMessages

VARIABLES
  \* The pump's goroutine (Start).
  pc,              \* where it is in the loop
  buffer,          \* messages received and not yet dispatched
  toDispatch,      \* numberOfMessagesToDispatch of this iteration
  spawned,         \* go statements already executed in this iteration
  activeHandlers,
  exitErr,         \* what it passed to awaitNotifier.Notify
  \* The channels and the context.
  dispatchDone,    \* number of elements in the DispatchDone channel
  received,        \* number of messages the transporter has handed over
  closed,          \* the transporter's channel is closed
  cancelled,       \* the context is cancelled
  \* The dispatch goroutines, one per message.
  stage,           \* where dispatch(m) is
  call,            \* which call of RetryPolicy.Execute it makes next
  \* What the outside world has seen.
  accepted,        \* messages for which Dispatch returned nil at least once
  removed,         \* messages for which Transporter.Delete returned nil
  poisoned         \* messages passed to Transporter.Poison

loopVars    == <<pc, buffer, toDispatch, spawned, activeHandlers, exitErr>>
envVars     == <<received, closed, cancelled>>
workVars    == <<stage, call>>
outsideVars == <<accepted, removed, poisoned>>
vars        == <<loopVars, dispatchDone, envVars, workVars, outsideVars>>

Stages == {"idle", "dispatch", "poison", "delete", "signal", "done"}

\* The goroutines that have been started and have not yet put their element on
\* DispatchDone.
InFlight == {m \in Messages : stage[m] \notin {"idle", "done"}}

TypeOK ==
  /\ pc \in {"fill", "plan", "go", "select", "exited"}
  /\ buffer \in Seq(Messages)
  /\ toDispatch \in Nat
  /\ spawned \in Nat
  /\ activeHandlers \in Nat
  /\ exitErr \in {"none", "transporterClosed", "contextCancelled"}
  /\ dispatchDone \in 0 .. MaxHandlers
  /\ received \in 0 .. NumMessages
  /\ closed \in BOOLEAN
  /\ cancelled \in BOOLEAN
  /\ stage \in [Messages -> Stages]
  /\ call \in [Messages -> Calls]
  /\ accepted \subseteq Messages
  /\ removed \subseteq Messages
  /\ poisoned \subseteq Messages

Init ==
  /\ pc = "fill"
  /\ buffer = <<>>
  /\ toDispatch = 0
  /\ spawned = 0
  /\ activeHandlers = 0
  /\ exitErr = "none"
  /\ dispatchDone = 0
  /\ received = 0
  /\ closed = FALSE
  /\ cancelled = FALSE
  /\ stage = [m \in Messages |-> "idle"]
  /\ call = [m \in Messages |-> 0]
  /\ accepted = {}
  /\ removed = {}
  /\ poisoned = {}

------------------------------------------------------------------------------
(***************************************************************************)
(* The environment of the loop.                                            *)
(***************************************************************************)

\* The owner of the context cancels it.
Cancel ==
  /\ ~cancelled
  /\ cancelled' = TRUE
  /\ UNCHANGED <<loopVars, dispatchDone, received, closed, workVars, outsideVars>>

\* The transporter closes its channel.
CloseTransporter ==
  /\ ~closed
  /\ closed' = TRUE
  /\ UNCHANGED <<loopVars, dispatchDone, received, cancelled, workVars, outsideVars>>

------------------------------------------------------------------------------
(***************************************************************************)
(* The pump's loop.                                                        *)
(***************************************************************************)

\* The rendezvous on the transporter's channel: the next n messages.  A batch
\* may be empty (core.EmptyMessageSet).
TakeBatch ==
  \E n \in 0 .. MaxBatch :
    /\ received + n <= NumMessages
    /\ buffer' = [i \in 1 .. n |-> received + i]
    /\ received' = received + n

\* Refilling while one message is still waiting.
BufferDrained_AllButOne == Len(buffer) <= 1

\* The loop reads from the transporter only when nothing is left of the last batch.
BufferDrained == buffer = <<>>

\* Receive a batch unless messages of the last one are still waiting.  A closed
\* channel has no batch to give.
Fill ==
  /\ pc = "fill"
  /\ \/ ~BufferDrained /\ UNCHANGED <<buffer, received>>
     \/ BufferDrained /\ ~closed /\ TakeBatch
  /\ pc' = "plan"
  /\ UNCHANGED <<toDispatch, spawned, activeHandlers, exitErr, dispatchDone,
                 closed, cancelled, workVars, outsideVars>>

\* awaitNotifier.Notify(err) and return, whatever is still in the buffer and
\* whatever is still running.
Return(err) ==
  /\ pc' = "exited"
  /\ exitErr' = err
  /\ UNCHANGED <<buffer, toDispatch, spawned, activeHandlers, dispatchDone,
                 envVars, workVars, outsideVars>>

\* The receive yields !ok.
TransporterClosed ==
  /\ pc = "fill"
  /\ BufferDrained
  /\ closed
  /\ Return("transporterClosed")

Smaller(a, b) == IF a > b THEN b ELSE a

\* A count that ignores the handlers already running.
NumberToDispatch_IgnoreActive == Smaller(Len(buffer), MaxHandlers)

\* As many of the waiting messages as there are handlers available.
NumberToDispatch == Smaller(Len(buffer), MaxHandlers - activeHandlers)

Plan ==
  /\ pc = "plan"
  /\ toDispatch' = NumberToDispatch
  /\ pc' = "go"
  /\ UNCHANGED <<buffer, spawned, activeHandlers, exitErr, dispatchDone,
                 envVars, workVars, outsideVars>>

\* One go statement.  The new goroutine may run, and even finish, before the
\* loop has counted it in activeHandlers.
Go ==
  /\ pc = "go"
  /\ spawned < toDispatch
  /\ LET m == buffer[spawned + 1]
     IN  /\ stage' = [stage EXCEPT ![m] = "dispatch"]
         /\ call' = [call EXCEPT ![m] = 0]
  /\ spawned' = spawned + 1
  /\ UNCHANGED <<pc, buffer, toDispatch, activeHandlers, exitErr, dispatchDone,
                 envVars, outsideVars>>

\* Dropping one message too few when some of them have to wait.
Remaining_LastOneKept ==
  SubSeq(buffer, IF toDispatch = Len(buffer) THEN toDispatch + 1 ELSE toDispatch,
         Len(buffer))

\* buffer[numberOfMessagesToDispatch:]
Remaining == SubSeq(buffer, toDispatch + 1, Len(buffer))

\* The end of the for loop: drop the dispatched messages from the buffer and
\* count their goroutines.
Account ==
  /\ pc = "go"
  /\ spawned = toDispatch
  /\ buffer' = Remaining
  /\ activeHandlers' = activeHandlers + toDispatch
  /\ spawned' = 0
  /\ toDispatch' = 0
  /\ pc' = "select"
  /\ UNCHANGED <<exitErr, dispatchDone, envVars, workVars, outsideVars>>

\* A select that does not look at the context while all handlers are busy.
SelectCancelled_NotWhenFull ==
  /\ pc = "select"
  /\ activeHandlers # MaxHandlers
  /\ cancelled
  /\ Return("contextCancelled")

\* Both selects have a case for the context.
SelectCancelled ==
  /\ pc = "select"
  /\ cancelled
  /\ Return("contextCancelled")

\* Releasing a slot without taking an element off the channel.
Release_Untaken ==
  /\ activeHandlers' = activeHandlers - 1
  /\ UNCHANGED dispatchDone

\* Taking an element off the channel without releasing the slot.
Release_Uncounted ==
  /\ dispatchDone' = dispatchDone - 1
  /\ UNCHANGED activeHandlers

\* An element taken off DispatchDone is a handler released.
Release ==
  /\ dispatchDone' = dispatchDone - 1
  /\ activeHandlers' = activeHandlers - 1

\* All handlers are in use: wait for a goroutine's element.  When the context is
\* cancelled too, Go picks either case.
SelectReleased ==
  /\ pc = "select"
  /\ activeHandlers = MaxHandlers
  /\ dispatchDone > 0
  /\ Release
  /\ pc' = "fill"
  /\ UNCHANGED <<buffer, toDispatch, spawned, exitErr, envVars, workVars, outsideVars>>

\* There is room for more: the default case, taken only when the context is not
\* cancelled.  Elements of finished goroutines stay on DispatchDone.
SelectDefault ==
  /\ pc = "select"
  /\ activeHandlers # MaxHandlers
  /\ ~cancelled
  /\ pc' = "fill"
  /\ UNCHANGED <<buffer, toDispatch, spawned, activeHandlers, exitErr, dispatchDone,
                 envVars, workVars, outsideVars>>

------------------------------------------------------------------------------
(***************************************************************************)
(* The goroutine dispatch(m).  It outlives the loop when the loop returns. *)
(***************************************************************************)

\* Move the goroutine of m to a new stage, or to its next retry.
MoveTo(m, next) ==
  /\ stage' = [stage EXCEPT ![m] = next]
  /\ call' = [call EXCEPT ![m] = 0]

Retry(m) ==
  /\ call' = [call EXCEPT ![m] = @ + 1]
  /\ UNCHANGED stage

\* Deliveries repeated until the handler accepts the message.
DispatchCall_UntilAccepted(m, ok) ==
  /\ stage[m] = "dispatch"
  /\ accepted' = IF ok THEN accepted \cup {m} ELSE accepted
  /\ IF ok THEN MoveTo(m, "delete") ELSE UNCHANGED workVars
  /\ UNCHANGED <<loopVars, dispatchDone, envVars, removed, poisoned>>

\* One call of Dispatcher.Dispatch inside RetryPolicy.Execute: ok is a 200 whose
\* body could be read, anything else an error.
DispatchCall(m, ok) ==
  /\ stage[m] = "dispatch"
  /\ accepted' = IF ok THEN accepted \cup {m} ELSE accepted
  /\ IF Returns(call[m], ok)
       THEN MoveTo(m, IF ok THEN "delete" ELSE "poison")
       ELSE Retry(m)
  /\ UNCHANGED <<loopVars, dispatchDone, envVars, removed, poisoned>>

\* Poisoning that goes on to delete the message (a missing return).
PoisonCall_FallThrough(m) ==
  /\ stage[m] = "poison"
  /\ poisoned' = poisoned \cup {m}
  /\ MoveTo(m, "delete")
  /\ UNCHANGED <<loopVars, dispatchDone, envVars, accepted, removed>>

\* Transporter.Poison is called once; its error is only logged.
PoisonCall(m) ==
  /\ stage[m] = "poison"
  /\ poisoned' = poisoned \cup {m}
  /\ MoveTo(m, "signal")
  /\ UNCHANGED <<loopVars, dispatchDone, envVars, accepted, removed>>

\* One call of Transporter.Delete inside RetryPolicy.Execute; a final error is
\* only logged.
DeleteCall(m, ok) ==
  /\ stage[m] = "delete"
  /\ removed' = IF ok THEN removed \cup {m} ELSE removed
  /\ IF Returns(call[m], ok) THEN MoveTo(m, "signal") ELSE Retry(m)
  /\ UNCHANGED <<loopVars, dispatchDone, envVars, accepted, poisoned>>

\* The deferred send on DispatchDone, which blocks while the channel is full.
Signal(m) ==
  /\ stage[m] = "signal"
  /\ dispatchDone < MaxHandlers
  /\ dispatchDone' = dispatchDone + 1
  /\ MoveTo(m, "done")
  /\ UNCHANGED <<loopVars, envVars, outsideVars>>

------------------------------------------------------------------------------
Loop ==
  \/ Fill
  \/ TransporterClosed
  \/ Plan
  \/ Go
  \/ Account
  \/ SelectCancelled
  \/ SelectReleased
  \/ SelectDefault

Dispatch(m) ==
  \/ \E ok \in BOOLEAN : DispatchCall(m, ok) \/ DeleteCall(m, ok)
  \/ PoisonCall(m)
  \/ Signal(m)

\* The pump has returned and every goroutine it started has ended.
Terminated ==
  /\ pc = "exited"
  /\ InFlight = {}
  /\ UNCHANGED vars

Next ==
  \/ Cancel
  \/ CloseTransporter
  \/ Loop
  \/ \E m \in Messages : Dispatch(m)
  \/ Terminated

Spec == Init /\ [][Next]_vars

(***************************************************************************)
(* Fairness.  The Go scheduler runs every goroutine that can run, and a    *)
(* select with several ready cases picks one at random, so that a case     *)
(* that is ready again and again is picked: strong fairness for the        *)
(* context's case.  Receiving a batch is not fair: the broker may be       *)
(* silent.  Both transporters close their channel after cancellation.      *)
(***************************************************************************)
LoopFairness ==
  /\ WF_vars(~BufferDrained /\ Fill)
  /\ WF_vars(TransporterClosed)
  /\ WF_vars(Plan)
  /\ WF_vars(Go)
  /\ WF_vars(Account)
  /\ WF_vars(SelectReleased)
  /\ WF_vars(SelectDefault)
  /\ SF_vars(SelectCancelled)

TransporterFairness == WF_vars(cancelled /\ CloseTransporter)

\* The handler answers every request and the broker every Delete: an assumption
\* about the environment, since the code sets no timeout.
WorkFairness == \A m \in Messages : WF_vars(Dispatch(m))

\* Handlers may hang for ever.
FairSpec == Spec /\ LoopFairness /\ TransporterFairness

------------------------------------------------------------------------------
(***************************************************************************)
(* Safety.                                                                 *)
(***************************************************************************)

\* How many messages have been handed to a goroutine: the received ones less
\* those waiting in the buffer, the ones of the current iteration included.
Started == received - Len(buffer) + spawned

\* The loop's count of active handlers is the number of goroutines that have not
\* finished plus the number of elements they left on DispatchDone, once the
\* goroutines of the current iteration are added to it.  It holds in the window
\* where a goroutine already runs and activeHandlers does not include it.
SlotAccounting ==
  activeHandlers + spawned = Cardinality(InFlight) + dispatchDone

\* The number of handlers available is never negative (buffer[:n] would panic),
\* and the loop never dispatches more than it has room or messages for.
LoopBounds ==
  /\ activeHandlers <= MaxHandlers
  /\ pc \in {"fill", "plan", "go"} => activeHandlers < MaxHandlers
  /\ pc = "go" => /\ spawned <= toDispatch
                  /\ toDispatch <= Len(buffer)
                  /\ activeHandlers + toDispatch <= MaxHandlers
  /\ pc # "go" => spawned = 0

\* The buffer holds exactly the received messages that have no goroutine, in the
\* order of arrival: no message is skipped and none is dispatched twice.
NothingSkipped ==
  /\ Len(buffer) <= received
  /\ \A i \in 1 .. Len(buffer) : buffer[i] = received - Len(buffer) + i
  /\ \A m \in Messages : (stage[m] = "idle") <=> (m > Started)

\* The conjunction of the above is inductive.
IInv == TypeOK /\ LoopBounds /\ NothingSkipped /\ SlotAccounting

\* --max-handlers: at no time are more than MaxHandlers messages in work,
\* although the loop takes elements off DispatchDone only when it is full.
MaxHandlersRespected == Cardinality(InFlight) <= MaxHandlers

\* A goroutine that has finished its message never blocks on DispatchDone, not
\* even after the loop has returned and nobody receives from the channel.
SignalNeverBlocks ==
  \A m \in Messages : stage[m] = "signal" => dispatchDone < MaxHandlers

\* The messages before m that are not finished.
Behind(m) == {k \in Messages : k < m /\ stage[k] # "done"}

\* A message can overtake fewer than MaxHandlers earlier ones: when its goroutine
\* is started, all but that many earlier messages are finished.  With a single
\* handler, messages are handled one after the other, in order.
OvertakingBound ==
  \A m \in Messages : stage[m] # "idle" => Cardinality(Behind(m)) < MaxHandlers

\* A message is removed from the broker only when the handler has accepted it, and
\* never when it has been poisoned; no goroutine ends without one of the two.  The
\* second conjunct says what is known of a message at each stage of dispatch, which
\* makes this inductive.
FateConsistent ==
  /\ removed \subseteq accepted \ poisoned
  /\ \A m \in Messages :
       /\ stage[m] = "idle" => m \notin accepted \cup poisoned
       /\ stage[m] \in {"dispatch", "poison"} => m \notin removed \cup poisoned
       /\ stage[m] = "delete" => m \in accepted \ poisoned
       /\ stage[m] \in {"signal", "done"} => m \in accepted \cup poisoned

\* The pump takes messages from the transporter only when every message it took
\* before has been given to a goroutine.
ReadAheadOnlyWhenDrained ==
  [][received' # received => \A m \in 1 .. received : stage[m] # "idle"]_vars

\* README, --retry-count: the delivery is retried when the handler does not
\* respond with a 200.  So a message that has been answered with a 200 is not
\* sent again.  RetryPolicy.Execute does not stop at a success in a retry.
RetriedOnlyAfterFailure ==
  \A m \in Messages : stage[m] = "dispatch" => m \notin accepted

------------------------------------------------------------------------------
(***************************************************************************)
(* Liveness.                                                               *)
(***************************************************************************)

\* A cancelled pump returns, even when every handler hangs.
CancelStops == cancelled ~> (pc = "exited")

\* When handlers and brokers answer, a message that was received is worked on to the
\* end, unless the pump returns before it has started a goroutine for it.  None of
\* the goroutines is leaked, also not those that the pump leaves behind.
ReceivedIsFinished ==
  WorkFairness =>
    \A m \in Messages :
      (m <= received) ~> (stage[m] = "done" \/ (stage[m] = "idle" /\ pc = "exited"))

------------------------------------------------------------------------------
(***************************************************************************)
(* The pump is a worker pool.                                              *)
(***************************************************************************)
PoolStatus ==
  [m \in Messages |-> CASE stage[m] = "idle" -> "waiting"
                        [] stage[m] = "done" -> "finished"
                        [] OTHER -> "running"]

Pool == INSTANCE WorkerPool WITH status <- PoolStatus, stopped <- (pc = "exited")

\* MessagePump implements WorkerPool: a goroutine's life is that of a piece of
\* work, and its retries, its signal and the loop's bookkeeping are invisible.
PoolSpec == Pool!Spec
==============================================================================
