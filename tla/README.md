# Blaster in TLA+

Blaster reads messages from a broker (SQS or Kafka) and delivers each one by
HTTP to a handler process that it launches itself. This directory holds TLA+
models of the program, TLC runs that check them on small instances, and TLAPS
proofs for arbitrary ones. Paths below are relative to the repository; the map
from every definition to the lines it models is in `PROJECT.json`.

## Inventory

| part | state | operations | interacts with |
|---|---|---|---|
| `core.MessagePump` | loop's `buffer`, `activeHandlers`; channel `DispatchDone`; one goroutine per message | `Start` (loop), `dispatch` | `Transporter.Messages/Delete/Poison`, `Dispatcher`, `RetryPolicy`, context, its `Awaiter` |
| `core.RetryPolicy` | none (a loop counter) | `Execute` | wraps Dispatch and Delete |
| `core.HttpDispatcher` | none | `Dispatch` | POST to the handler process |
| `core.HandlerManager` | handler process, `Awaiter` | `Start`: launch, delay or probes | context kills the process |
| `core.DefaultMessagePumpRunner` | position in `Run` | `Run` | starts manager and pump, waits for both |
| `core.Awaiter` | closed channel and an error | `Notify`, `Done`, `Err` | how every goroutine reports its end |
| `core.RunCLIInstance` | signal channel | build, start, wait, cancel, wait | binder |
| `core.GetFreePort` | none | probe a random port | Kafka's handler URLs |
| `sqs.SQSTransporter`, `SQSBinder` | one batch read ahead; two awaiters | `Start`, `read`, `Delete`, `Poison` | SQS, runner |
| `kafka.BufferedCommitter` | `lastSeenMessage`, `numberOfMessagesObserved`, `lastCommitTime`; request channel; ticker | `Start` (loop), `Commit`, `Stop`, `commitAndReset` | callers are dispatch goroutines; the hook is the handler process; marks the session |
| `kafka.DirectCommitter` | none | `Commit` | marks the session |
| `kafka.SaramaConsumerGroupHandler` | partition handlers (transporter, runner, committer, `Started`), mutex | `Setup`, `ConsumeClaim`, `Cleanup` | called by Sarama, one goroutine per claim |
| `kafka.Binder` | current session | `Start` (session loop) | Sarama's `Consume` |

What is hard in it: the loop counts goroutines that already run, and drains
`DispatchDone` only when it is full; nothing waits for the dispatch goroutines;
cancellation reaches the loop, the transporter and the handler process
separately and in any order; the handler may crash, hang, or never get ready;
commits arrive concurrently and out of order, are batched, retried, vetoed by a
hook and flushed by a ticker; sessions end while work is in flight. The list,
each at its line, is `hazards` in `PROJECT.json`.

What makes each part correct:

* pump: at most `MaxHandlers` messages in work, none skipped, none dispatched
  twice, bounded overtaking, consistent fates, no leaked goroutine, returns when
  cancelled;
* runner and manager: cancelling ends everything, nothing outlives the runner
  unnoticed, a crash of the handler loses no message;
* committer: no acknowledged offset is forgotten, fewer than a batch are left
  unmarked for a `Stop` to drop, every caller is answered, idle messages are committed in time;
* SQS transporter, binder and CLI: an interrupt ends the program, main returns
  after its parts, a bounded number of messages is read ahead and none of them is
  forgotten;
* a partition's session: the transporter is closed exactly once, a released
  partition has no handler and no pump, fewer than `MaxHandlers` messages that the
  pump has neither handed over nor poisoned lie below the mark (no crash loses
  more; a message poisoned because its handler was killed counts as given up), a
  released session leaves fewer than a batch of done messages to be delivered
  again, a revoked session is cleaned up;
* Kafka sessions: nothing of a session is left when the next one begins or when
  main returns, every session that is over is taken down.

## Modules

`RetryPolicy` has `Returns(call, ok)`: whether `Execute` returns after its
`call`-th call. The code leaves the loop early only on the first call.

`MessagePump` (extends `RetryPolicy`). Messages are numbered by arrival, so
order is comparison. The loop's `pc`:

| `pc` | code in `core/message_pump.go` | actions |
|---|---|---|
| `fill` | `if len(buffer) == 0 { <-Messages() }`, 54-62 | `Fill`, `TransporterClosed` |
| `plan` | the size of the next wave, 66-70 | `Plan` |
| `go` | the `for` with its `go` statements, 71-78 | `Go` (one per statement), `Account` |
| `select` | the two selects, 80-101 | `SelectCancelled`, `SelectReleased`, `SelectDefault` |

`dispatch(m)` moves through `stage[m]`: `dispatch`, then `poison` or `delete`,
then `signal` (the deferred send), then `done`; `call[m]` is the position inside
`Execute`. Every channel operation, every `go` and every call that leaves the
program is a step of its own; local computation in between is merged with it.
`spawned` and `toDispatch` are reset when the `for` loop ends, where the code
has block-local variables. `Delete` and `Dispatch` may return an error at each
call; a `Poison` error is only logged, and both transporters return nil.
`accepted`, `removed` and `poisoned` record what the handler and the broker saw.

`WorkerPool` is the abstract specification: start in order of arrival, at most
`MaxHandlers` running, remove only what was accepted and not given up, finish
only with a known fate, start nothing after the stop. `MessagePump!Pool`
instantiates it with a status computed from `stage` and `stopped <- pc =
"exited"`; `PoolSpec` is checked as a property and proved.

`MessagePumpRunner` (extends `MessagePump`) adds the goroutine of `Run` (`run`),
the failed readiness probes (`probes`) and the handler process together with the
goroutine that waits for it (`handler`). `run` begins at the start-up delay or
at the probes, whichever of them the constant `Startups` allows; the pump's loop
runs once it has left them (`~Starting`). A delivery can succeed only while `handler =
"serving"`. The `Done` channels of the three awaiters are `HandlerDone`,
`PumpDone` and `RunnerDone`.

`SQSPipeline` (extends `MessagePumpRunner`) is the whole program for an SQS queue.
`transporter` is where the goroutine of `SQSTransporter.Start` is: in `read`,
in its select with the batch `held`, or gone. The channel has no buffer, so
sending a batch and the pump's receive are one step (`SendBatch`), and the
pump's other steps are `PumpAlone`. `binder` is the goroutine of
`SQSBinder.Start`: the select on both awaiters, then the two `Err()` calls in
turn. `cli` and `interrupted` are `RunCLIInstance` and its signal channel; once
`cli` is `exited` nothing moves, as a returning main takes every goroutine with
it. A failed read is an empty batch, as in the code. A message that becomes
visible again counts as a new one. `SQSBinder.Start` starts the transporter
without waiting for anything, so both goroutines exist initially; an interrupt
before that is the same as one right after it.

`RunnerLife` is what one `Run` promises to a binder, without messages and probes:
a handler process that is launched, serves and goes, and a runner that ends only
after its handler and only when the transporter is closed or the context
cancelled. A life is a record and `Step` a relation between two of them.
`LifeSpec` in `MessagePumpRunner` says that the runner takes no other steps.

`BufferedCommitter` stands alone. Its goroutine is `pc` (`select`, `commit` for
`commitAndReset`, `complete` for `req.Complete`, `exited`), a caller of
`Commit(m)` is `caller[m]`. Offsets start at 1 so that 0 is nil. A send on the
closed channel is the step `SendOnClosed`, which sets `crashed`, after which
nothing moves. Time: the ticker fires at multiples of the interval into a
channel of one; `lastCommitTime` is a clock reading made slightly after the
event that caused it, so at a distance of exactly one interval a tick may be
taken as too soon or not (`TooSoon` and `SoonEnough` overlap). The goroutine
reacts within a time unit unless it waits for the hook. `Mark` is Sarama's
`MarkMessage`, which only moves forward.

`OffsetCommitter` is the abstract specification of it, without counter, clock
and hook: one request at a time, an acknowledged offset is marked or will be
with the next mark, fewer than a batch of acknowledged offsets are unmarked, no
request is served after `Stop`, and a call that finds it stopped ends the
program. `CommitterContract` instantiates it in `BufferedCommitter`.

`KafkaClaim` (extends `MessagePumpRunner`, instantiates `OffsetCommitter`) is one
partition from the end of `Setup` until after `Cleanup`. `claim` is the goroutine
that calls `ConsumeClaim`, `cleanup` the one that calls `Cleanup`, `buffered`
says which committer the configuration chose, and `panic` what the program has
died of. `ConsumeClaim` hands over messages one at a time through an unbuffered
channel: sending and the pump's receive are one step (`HandOver`), and the pump's
other steps are `PumpAlone`. `Delete` is `SendRequest`, `TakeRequest` and
`AnswerRequest`, or `DirectCommit`. Of Sarama it assumes that `ConsumeClaim` is
called at most once per claim, that the claim's channel is closed once the
session is cancelled, that `Cleanup` is called when all goroutines of claims have
returned, and that what is marked after the release may not be committed.
The end of `ConsumeClaim` is two steps, as other goroutines run between the
deferred `Close` and Sarama's cancellation of the session (`LeaveLoop`,
`ClaimReturns`), and so is the beginning of `Cleanup`, which comes to a partition
after others (`CleanupBegins`, `CleanupTakes`). `SessionView` says that all of
this, seen without messages, is one part of one session of `KafkaSessions`:
`LifeState` stands for the runner and its process, `CommitterState` for the
committer, and a panic for a program in which nothing moves.

`KafkaSessions` (extends `RunnerLife`) is the whole program for a topic. `binder` is
the goroutine of `Binder.Start` inside and outside of Sarama's `Consume`;
`session` counts the sessions; `handlers` and `cleaning` are the consumer group
handler's map and the position of `Cleanup` in it. Each part (a session and a
partition) has a port from `GetFreePort`, a life of its runner, a transporter and
a committer. A re-balance, an error of the session, a claim given up and an
interrupt end a session at any time. `GetFreePort` takes an arbitrary port on
which nobody listens at that moment, as its random choice comes to.

How they compose: `BufferedCommitter` implements `OffsetCommitter`, which
`KafkaClaim` uses; `MessagePumpRunner` implements `RunnerLife`, which
`KafkaSessions` uses; `KafkaClaim` implements, for each partition, what
`KafkaSessions` lets a part of a session do (`SessionView`), and its committer,
with the session around it, is an `OffsetCommitter`; `SQSPipeline` and `KafkaClaim` contain `MessagePumpRunner`,
which contains `MessagePump`, which implements `WorkerPool`. All these steps are
proved.

Each module also has operators whose names end in `_SomeBug`, placed before the
definition they vary: plausible faults of the code that a property must detect.

## Runs

| run | instance | checks |
|---|---|---|
| `PumpSafety` | 4 messages, batches up to 3, 2 handlers, 2 retries | types, loop bounds, order, slot accounting, handler limit, no blocking signal, overtaking, fates, refinement of `WorkerPool`; a cancelled pump returns, although handlers may hang; no received message starves when everybody answers |
| `PumpRetry` | 1 message, 2 retries | **violated**: a delivery is repeated after a 200 |
| `CommitterSafety` | 2 offsets, 3 calls each, batch 2, interval 2, time 4, hook | types (nil is never committed), acknowledged offsets are covered, exposure below a batch, refinement of `OffsetCommitter`; `Commit` returns, a stopped committer ends |
| `CommitterIdle` | 3 offsets, batch never full, no hook, interval 2, time 9 | committed within two intervals |
| `CommitterIdleDelay` | 1 offset | **violated**: committed within one interval |
| `RunnerStops` | 3 messages, batches up to 2, 2 handlers, delay or 2 probes, all may hang | types, no orphaned handler process, refinement of `RunnerLife`, a crash loses nothing; cancelling ends the runner and the work left behind |
| `RunnerHandlerExit` | 1 message, everything fair | **violated**: the handler's exit ends the runner |
| `SQSStops` | 3 messages, batches of 1, 1 handler, 2 probes, all may hang | types, main returns after handler, pump and transporter, at most two batches read ahead; an interrupt ends the program; every message handed out is worked on, unless interrupted |
| `ClaimStops` | 3 messages, 2 handlers, either committer, batch 2, handlers and hooks may hang | types, closed once, bounds on what is lost below and repeated above the mark; a revoked session is cleaned up; a part of a session as in `KafkaSessions`, so that a released partition has no handler and no pump |
| `ClaimRevoke` | 2 messages, 2 handlers, batch 2 | **violated**: the program survives a re-balance |
| `Sessions` | 2 partitions, 2 ports, 2 sessions | types, sessions do not overlap, nothing is left when main returns; sessions are released, an interrupt ends the program |
| `SessionPorts` | 2 partitions, 2 ports, 1 session | **violated**: no other process answers on a partition's port |

Bounds. Two handlers and more messages than handlers are the least with which a
message is held back, another overtakes it and elements pile up on
`DispatchDone`; batches larger than the handler limit leave a rest in the
buffer; two retries allow a success between failures. In `SQSStops` three messages
are one more than the two batches that `ReadAheadBound` allows. A batch of two
with three calls for two offsets has commits that are out of order, repeated and
failing, and a counter above the batch size. Time 4 lets the ticker of interval 2
fire twice; time 9 lets it fire four times, so that a commit falls
in each phase of it. `MaxProbes` is 5 in the code; probes are alike, so 2 show
one that is followed by another and the last one. In `ClaimStops` three messages
are one more than the handlers, so that the mark can pass an unfinished message
while another is held back, and one more than the batch. Retries are left to `PumpSafety`
there (`RetryCount = 0`). Two sessions are enough for one to follow another, two
partitions for one claim to be consumed and the other not. For the safety
properties the proofs lift all these bounds. Deadlock is checked in all runs: the
final states have an explicit stuttering step.

### What the violated runs show

1. `core/retry_policy.go:41`: the retry loop does not stop at a success. The
   README says that the delivery is retried when the handler does not respond
   with a 200. A message can be accepted, sent again, and poisoned when the last
   call fails.
2. `kafka/buffered_committer.go:78`: a tick less than an interval after the last
   commit is dropped, and the next one is an interval away: a message may wait
   up to twice `--commit-interval-seconds`, which the flag calls the delay
   before committing.
3. `core/default_message_pump_runner.go:47`: when the handler exits the runner
   waits for the pump, which nobody stops. The comment in `ConsumeClaim` expects
   that the exit of a component ends the loop, which watches the runner.
4. `kafka/sarama_consumer_group_handler.go:92`: `Cleanup` waits for the runner,
   which does not wait for the dispatch goroutines. One that was accepted just
   before the handler was killed commits after `Stop` and sends on a closed
   channel: the program panics in a re-balance that the README calls graceful.
   With a `DirectCommitter` the late mark is only lost.
5. `core/get_free_port.go:33`: the port is released before the handler binds it, so
   the next partition may be given the same one. The second handler cannot bind
   it and exits; by 3 its runner goes on, and posts to the first handler.

The README says of one partition's messages that they are delivered one after
the other. That holds with one handler; `OvertakingBound` and `LostBelowMark` say
what holds with more.

### Fairness

Goroutines that can run do run: weak fairness for each step of the loop, the
runner, the handler manager and the committer. A Go select picks among ready
cases at random, so a case that is ready again and again is taken: strong
fairness for the loop's context case and for the committer's cases. Receiving a
batch is not fair (the broker may be silent). Both transporters close their
channel after cancellation, SQS in its select and Kafka when Sarama closes the
claim: weak fairness for `CloseTransporter` once cancelled.
`exec.CommandContext` kills the process: weak fairness for `HandlerExits` once
cancelled, none before. In `SQSPipeline` a read answers (the SDK bounds it; the
long poll is `WaitTime`), and the transporter's select, which may prefer a pump
that takes batches, does not ignore the context for ever: weak fairness for
`Read`, strong for `StopTransporter`. A request to a process that is gone fails.

In `KafkaClaim` each goroutine is fair (`ClaimFairness`): Sarama closes the claim's
channel after cancellation and calls `Cleanup`, the committer's goroutine ends when
it can, and a hook or a delivery of a process that is gone is answered with an
error. In `KafkaSessions` a runner that is closed and cancelled ends, which is
`CancelEndsRunner` of `RunnerStops`; `Consume` starts a session or fails. Nothing
makes a session, a claim or a handler end by itself.

That handlers, hooks and brokers answer is never justified by the code, which sets
no timeout. Where a property needs it, it is a premise in the property:
`WorkFairness` in `ReceivedIsFinished`, `SettleFairness` in `CancelEndsWork`,
`AnswerFairness` in `FetchedIsFinished`. It is part of the specification only for
the committer's `Fairness` (hooks) and, to make the counterexample stronger, in
`RunnerHandlerExit`. `CancelStops`, `CancelEndsRunner`, `SessionEnds`,
`SessionReleased` and `InterruptEndsProgram` do without it.

## Proofs

All for arbitrary constants, from the named assumptions of the modules
(`RetryCountAssumption`, `PumpAssumption`, `CommitterAssumption`,
`RunnerAssumption`, `ClaimAssumption`, `SessionsAssumption`: counts are natural
numbers; handler limit, batch sizes, interval, probes and sessions are positive;
there is a port. The code replaces a `MaxHandlers` of 0 and uses the buffered
committer only for a positive batch size). Every invariant, action property and
refinement that a passing run checks is proved. Only liveness is left to TLC:
`CancelStops`, `ReceivedIsFinished`, `CommitReturns`, `StopEnds`,
`CancelEndsRunner`, `CancelEndsWork`, `InterruptEndsProgram`, `FetchedIsFinished`,
`SessionEnds` and `SessionReleased` (TLAPS handles neither fairness nor ENABLED
here). Of these the two facts on which they rest, besides fairness, are proved
where they are not obvious: nobody waits for something that cannot come, and
nothing goes on for ever. For the second, each step of a goroutine lowers a natural number that
no other step raises; the numbers of several goroutines are kept apart.

| liveness, checked by TLC | proved about it |
|---|---|
| `CancelStops`, `ReceivedIsFinished` | `WaitsForWork`, `IterationsStartWork`, `LoopEnds`, `WorkEnds` |
| `CancelEndsRunner`, `CancelEndsWork`, `FetchedIsFinished` | the same for the pump within the runner, and `RunnerEnds` |
| `CommitReturns`, `StopEnds` | `CallersRemembered` |
| `InterruptEndsProgram` (`SQSStops`) | `EndsOnlyOnSignal`: a part that waits has had its context cancelled |
| `SessionEnds` | `AwaitedWindsDown` |
| `SessionReleased`, `InterruptEndsProgram` (`Sessions`) | `CleanupNotStuck`, `PartsWindDown` |

`MessagePumpProofs`. `IInv` is `TypeOK`, `LoopBounds`, `NothingSkipped` and
`SlotAccounting`. None of them is inductive alone: that the loop never sees more
than `MaxHandlers` needs the accounting between `activeHandlers`, the goroutines
in flight and the elements on `DispatchDone`; the accounting at a `go` statement
needs that the message started had no goroutine, which is the order in the
buffer; the order at the end of the wave needs the bounds. One lemma per action
shows that `IInv` is preserved (`NextIInv`). From it follow `TypeCorrect`,
`LoopInBounds`, `NoneSkipped`, `SlotsAccounted`, `HandlersBounded`
(`MaxHandlersRespected`), `SignalsNeverBlock` and the action property
`NoReadAhead`. Progress: with the same invariant, a loop that waits on
`DispatchDone` has `MaxHandlers` goroutines still to send (`WaitsForWork`), and an
iteration with messages in the buffer starts one (`IterationsStartWork`). The
latter is what `LoopEnds` needs: `LoopRank`, five for each message without a
goroutine plus the rest of the iteration, would otherwise not sink with an
iteration that starts nothing. `WorkEnds` counts the calls that `Execute` may
still make of `Dispatch` and `Delete`.

`MessagePumpRefinement`. `FateConsistent` is inductive relative to `IInv`
(`Fates`). `OvertakingBounded`: a message is started when everything earlier and
unfinished is in flight and a handler is free; afterwards that set only shrinks.
`Refinement` shows `Spec => PoolSpec`: each step of the pump is a step of
`WorkerPool` or invisible.

`BufferedCommitterProofs`. `AckedIsCovered` needs that the request being served
is covered too (`RequestCovered`), and `ExposureBound` needs that
`numberOfMessagesObserved` is at least the number of exposed messages
(`ObservedCounts`): after a failed hook the counter may exceed the batch size,
so the bound does not follow from the counter alone. Theorems:
`CommitterTypeCorrect`, `AckedCovered`, `ExposureBounded`, and with the same
invariant `CommitterRefinement`. `IdleCommitted` proves the bound of two
intervals from `TicksSeen`: a tick that finds a message overdue is the present one,
and is waiting to be received or has led to a commit; the lemma
`OneTickPerInterval` puts a tick into the second interval. `CallersRemembered`: a
caller that waits on `done` is the one whose request is being served, also while
a commit on idle timeout, which has no caller, or a failing hook is under way.

`MessagePumpRunnerProofs`. `RunnerRunsPump`: every step of the runner is a step of
the pump or leaves it alone, so all theorems about the pump hold in it. From
`EndsInOrder` (the order in which handler, pump and runner end, against `run`)
follow `OrphansNever`, `RunnerTypeCorrect`, `CrashesLoseNothing` and
`RunnerImplementsLife`. `RunnerEnds` adds the ranks of the handler process and of
`Run`, whose failed probes are counted, to that of the loop.

`SQSPipelineProofs`. `PipelineRunsRunner`, in the same way; then `ExitIsOrderly` from
the order of the waits (`BinderOrder`), and `ReadAheadBounded` and
`PipelineTypeCorrect` from the sizes of the batch that the transporter holds and of
the pump's buffer (`HeldBatch`, `BufferedBatch`). `EndsOnlyOnSignal`: a runner ends
only after its pump, a pump only when it is closed or cancelled, a transporter
only when cancelled, and only main cancels, after SIGINT or the end of the
binder, which is none of these yet. So SIGINT is the only way for this program to
end: the other case of main's select, a binder that has ended, never occurs.

`KafkaClaimProofs`. `ClaimRunsRunner` again. `ClaimOrder` says who has closed the channel
at each position of `ConsumeClaim` and `Cleanup`: `ClosedOnce`. With the order in
which runners end it also gives `WatchedInVain`: the end of the runner, for which
both selects of `ConsumeClaim` watch, comes only in a session that is over anyway. `QuietOrder` gives
`ReleasedQuiet`. `MarkOrder` says that the mark, present or next, is at a message that
the handler has accepted (`MarksAccepted`); with `OvertakingBounded` this gives
`FewLostBelowMark`. `RedeliveryBook` takes the bound of
`OffsetCommitter` for one committer and the goroutines still in flight at the
release for the other: `FewRedelivered`. `ClaimTypeCorrect` adds to the types that
neither the mark nor the next one is beyond what the pump has received
(`AcceptedReceived`): a message that `ConsumeClaim` drops is delivered again.

`KafkaClaimRefinement`. `CleanupOrder` puts cancellation, `Stop` and the end of the
committer in their order in `Cleanup` (`CleanupOrdered`, `AwaitedWindsDown`).
`ClaimKeepsContract`: the steps of a session with a batching committer are those of
`OffsetCommitter`, so that the bounds that `CommitterRefinement` transfers hold in a
session. `SessionImplemented` is `SessionView`: the steps of the runner and its
process are taken from `RunnerImplementsLife`; those of claim and `Cleanup` need
`EndsInOrder`, `ClaimOrder` and `CleanupOrder` to meet the guards of `KafkaSessions`;
those of messages are invisible, but for those that change what a part is seen to
do.

`KafkaSessionsProofs`. The invariant relates, for each part, the phases of `binder` to
what has been set up (types and book-keeping), how far `Cleanup` has come
(teardown), and which claims have returned (phases and claims). No part of it is
inductive alone: that a runner has ended when its committer is stopped is known
only in `Cleanup`, and that earlier sessions stay gone needs that `Cleanup` went
through all of `handlers`, which needs that `Setup` put all of them there.
Theorems: `SessionsTypeCorrect`, `SessionsDoNotOverlap`, `NoHandlerLeftBehind`, and
`PartitionsNotShared`: no partition has two handler processes or two committers
alive, in whichever sessions. `ClaimsAreRegistered`: every claim that Sarama consumes
is one that `Setup` has registered, so `ConsumeClaim` always finds its partition. `CleanupNotStuck` says that a runner for which
`Cleanup` waits has been told to end, and that it or its process can then take
a step that depends on nobody else, and `PartsWindDown` that a part takes at most
seven steps in all.

## Plan

The plan is done: pump with `WorkerPool` and its proofs, committer, runner, the
program for a queue, a partition's session, the program for a topic, and the
proofs of all their safety properties. What could still be added:

1. several partitions with their messages in one model: for safety the two levels
   are joined by proof (`SessionImplemented`, one part at a time, which shares no
   channel with another), but a port shared by two partitions is seen only in
   `KafkaSessions`, and liveness (`CancelEndsRunner` as a fairness condition there)
   is joined in prose;
2. the age of messages in an SQS visibility timeout, of which `ReadAheadBound`
   gives the number of messages exposed but not the time.

## Not modelled

* `Stopwatch` (only log fields), flag parsing in `cmd/` and Kafka's configuration
  (copy values; `WithDefaults` has no caller), log output.
* The encoding of HTTP requests and of broker messages: no property distinguishes
  payloads.
* The handler's mutex: Sarama calls `Setup`, `ConsumeClaim` and `Cleanup` so that it is
  held without contention, but for a read of a map nobody writes. `ConsumeClaim`'s
  return for a partition it does not find (`sarama_consumer_group_handler.go:103-105`),
  which leaves the mutex locked, cannot be reached: `ClaimsAreRegistered`.
* Sarama's own periodic commit of marks. The bounds on repeated messages are about
  the mark; after a crash of the program the marks that Sarama has not committed yet
  are delivered again too. What is lost is bounded at every earlier mark as well, so
  the delay adds nothing to it.
* The order of `Group.Close`, deferred after the binder's notification: main may return before
  the member has left the group (`binder = "notified"` with `cli = "exited"` in
  `KafkaSessions`). Nothing in the repository says otherwise, so there is no
  property about it.
* A commit interval of 0, for which `NewTicker` panics at start-up: the
  interval is assumed positive.
* AWS and Sarama themselves: environment, as described with each module.
* `kinesis/` is an unfinished experiment inside a test file that nothing uses;
  `utils/`, mocks, samples and scripts are test or build support.
