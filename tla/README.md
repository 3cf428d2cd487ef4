# A TLA+ verification of the OJS JavaScript SDK

The SDK (`src/src`) lets TypeScript programs enqueue jobs on an Open Job Spec
server and process them. All paths below are relative to the repository (`worker.ts`
is `src/src/worker.ts`). The project models the parts of the SDK that keep state
across awaits or change what passes through them, checks them with TLC on small
instances, and proves most of the safety properties with TLAPS for all instances.

JavaScript runs one callback at a time. Every action of every module is the code
that runs between two awaits: nothing interleaves inside it, and everything may
interleave between two of them.

## 1. Inventory

| Part | State | Operations | Talks to |
|---|---|---|---|
| `OJSWorker` (`worker.ts`) | `state`, `activeJobs`, `pollTimer`, `heartbeatTimer`, `signalHandler`, `shutdownResolve`, `graceTimerId`, counters | `start`, `stop`, `poll`/`fetchAndProcess`, `processJob`, `ack`, `nack`, `requestWithRetry`, `sendHeartbeat` | transport (fetch, ack, nack, heartbeat), middleware chain, event emitter, process signals |
| `MiddlewareChain`, `composeExecution` (`middleware.ts`), the shipped retry, timeout, metrics, logging (`middleware/`) and OpenTelemetry middleware (`otel.ts`) | the array of the chain, `index` and the frames of each composed execution | `add`, `prepend`, `insertBefore`, `insertAfter`, `remove`, `clear`, `use` of the worker, `dispatch` inside a composed execution | called by the worker for each delivery |
| `HttpTransport` (`transport/http.ts`, `rate-limiter.ts`, `errors.ts`) | per call: attempt, timer, abort controller, listeners | `request`, `executeRequest`, `abortableSleep` | server; used by every client |
| `GrpcTransport` (`transport/grpc.ts`) | `client`, `initPromise` | `request`, `ensureClient`, `initClient`, `call`, `close` | grpc-js, server |
| `DurableContext` (`durable.ts`) | `entries`, `cursor`, `replaying` | `create`, `now`, `random`, `sideEffect`, `checkpoint`, `complete`, `isReplaying` | checkpoint routes of the server |
| `OJSClient` (`client.ts`) and `composeEnqueue` (`middleware.ts`) | the chain, `index` of each composed enqueue | `enqueue`, `enqueueBatch`, single requests | transport, test store |
| Testing mode (`testing.ts`) | the module-level store: mode, `enqueued`, `performed`, handlers | `fake`, `inline`, `restore`, `clearAll`, `registerHandler`, `drain`, assertions | client |
| Serverless adapters (`serverless/`) | none between invocations | `createLambdaHandler` (SQS, HTTP, direct), `createWorkerHandler` (Cloudflare), `createEdgeHandler` (Vercel) | platform, server (ack, nack) |
| `OJSEventEmitter` (`events.ts`) | a Map of Sets of listeners; the loops of each `emit` | `on`, `onAny`, the functions they return, `removeAllListeners`, `emit` | worker, client, user's listeners |
| `subscribe` (`subscribe.ts`) | the parser's variables, the reader, the abort signal | `subscribe`, `unsubscribe`, `readStream` | SSE stream of the server, user's handler |
| Payload encryption (`encryption.ts`) | none of its own: arguments and meta of the job, keys of the provider | `encryptionMiddleware`, `decryptionMiddleware`, `EncryptionCodec` | enqueue chain of the client, execution chain of the worker, `KeyProvider` |
| Retry policies, durations, job options (`retry.ts`, `job.ts`) | none | pure functions | client, worker |
| Workflows (`workflow.ts`) | none | builders of step graphs | client |
| Queue, cron, schema and progress clients; recorder, attestation, agents; ML helpers; validation; error codes (`queue.ts`, `cron.ts`, `schema.ts`, `progress.ts`, `recorder/`, `attest/`, `agent/`, `ml.ts`, `validation/`, `error-codes.ts`) | none, or append-only | one request each, or sequential code | transport |

**What is hard.** The worker: overlapping `start()`/`stop()`, answers that arrive
after shutdown began, shared fields two calls overwrite, requests applied whose
answer is lost, handlers that never end. The middleware: a live array edited
under executions that wait, a `next()` called again, a timeout that abandons a
handler which goes on. The transports: timers and listeners on every way out, a
retry of what was already done, a client that disappears between two awaits. The
durable context: crashes between an effect and its checkpoint, concurrent
effects recorded in another order than they are replayed. The test store: it is
replaced while drains and inline handlers await. The adapters: killed and
duplicated invocations. The emitter: Sets that change while they are iterated, by
the very listeners that are called, and emissions inside emissions. The
subscription: chunks that cut the text anywhere, a handler that throws or
unsubscribes in the middle of one. Encryption: keys that rotate and a chain that is
edited between two awaits of one call, and jobs of several origins at one worker.
`PROJECT.json` lists each hazard at its line with the
properties aimed at it.

**What makes each part correct.**

* Worker: never more executions than `concurrency`; a slot is never leaked or
  lost; a running worker never goes deaf; the wait of `stop()` ends and leaves
  nothing behind; the requests of a delivery come to an end, with the answer or by
  giving up; the state follows the README's life cycle.
* Middleware: a handler runs at most once per execution and inside the whole
  onion; an execution that resolves has done the job; observers report what
  happened; a timeout bounds the execution.
* Transports: a call ends, ends well only if the server carried the operation
  out, has it carried out once unless a proxy's answer was tried again, leaves no
  timer and no channel behind; arguments come back in their places.
* Durable execution: what the checkpoint records is not done again, is seen
  again as it was, and never under another call's name.
* Producer and test store: one request at most per enqueue; a fake job's handler
  starts once; the performed list is the history.
* Adapters: nothing is taken off the queue that no handler finished; SQS is told
  exactly what failed.
* Events: however a stream is cut, a subscriber is told of its events as they were
  sent; an emission that resolves was heard, once, by everyone who was and stayed a
  listener; an ended subscription ends.
* Encryption: a handler is given the arguments that were enqueued or is not called;
  what the encrypting client enqueues is encrypted exactly once; a decryption fails
  only for want of a key.

## 2. Modules

    Worker ----- WorkerProperties ---- MCWorker
                   |  |    \---------- WorkerProofs
       SlotPool <--/  \--> WorkerLifecycle        (abstract specifications)

    HttpTransport --- MCHttpTransport, TransportProofs
          \--> RemoteCall <--/                    (abstract specification)
    GrpcTransport --- ProtoValues, MCGrpcTransport, TransportProofs

    Serverless --- MCServerless, ServerlessProofs
    Producer ----- MCProducer, ProducerProofs
    Middleware --- MCMiddleware, MiddlewareProofs
    Durable ------ MCDurable, DurableProofs
    Payload ------ MCPayload, PayloadProofs

    Subscribe --\
                 EventRelay --- MCEventRelay, EventRelayProofs     (composition)
    Events -----/

`RemoteCall` is the contract between the parts: the two transports are shown to
implement it, and the requests of `Worker` and `Durable` are modelled as it says:
they end, and may be carried out although their answer is lost.
`Middleware` is what lies behind the worker's `HandlerReturns` and
`HandlerFails`: the worker sees an execution that resolves or rejects;
`ResolvedMeansDone` and `TimeoutBounds` say what that means. `Producer` and `Payload`
look at the same enqueue from two sides: `Producer` at how often it sends,
`Payload` at what.

### Worker

State is the class's own fields under their own names (`active` is
`activeJobs`), plus what the event loop keeps for it: `chain` (the poll chain
each `start()` sets going), `phase` (the promise chain of each delivery),
`stopPhase` and `graceArmed` (each `stop()` and its timer), `beating`,
`listening`, and the server's view `srv`. A delivery goes
`handling -> acking -> completed -> settled` or `-> nacking -> failed -> settled`
(`completed` and `failed` wait for the listeners of `job.completed` and `job.failed`);
`rejecting` is the nack of a job without handler, `leaked` the entry that stays
when a handler throws before it returns its promise.

Three assumptions on the surroundings are constants, so that runs and theorems
say where they are needed: `ThrowingListeners` (event listeners may throw),
`MayOverlap` (the server leases a job again to this worker while an earlier
delivery still runs) and `CallsOverlap` (`stop()` may be called before `start()`
resolved). Ack and nack are sent up to `MaxTries` times; each attempt may be
lost before or after the server took it.

`SlotPool` is what the concurrency limit promises without promises, timers or
requests; `WorkerLifecycle` is the README's diagram. The mapping to the pool is
`busy <- ActiveJobs, reserved <- req`.

### Middleware

`arrays` holds every array the chain has been (`clear()` makes a new one, all
other edits are in place), `captured[e]` the one an execution composed. A frame
is one call of a middleware: its kind, where it is, its attempts, its error.
`dispatch(i)` enters in one step every frame that calls `next()` synchronously.
Logging, metrics and OpenTelemetry without a tracer are the kind `observer`;
OpenTelemetry with one is the kind `tracer`, whose span may throw after the count
(`otel.ts:118-132`). A user's middleware may do something of its own before and
after `next()`, and may reject; one that answers without calling `next()`, as in
`middleware.test.ts:140`, is not among the kinds.

### HttpTransport, GrpcTransport, ProtoValues

One call of `request()` with its attempts; the configuration and the state of
the caller's signal are chosen by `Init`. Statuses are classes (success, no
content, 429, 502-504, other 5xx, other 4xx); `answers` keeps that of each attempt, and a
429 is taken to mean that the server has not carried the attempt out. The gRPC module has several calls
that share one client, with `close()` between any two steps; its arguments are
values whose conversion is modelled field by field: a scalar keeps its type and
whether it is its type's zero, which is what the code confuses with "unset". A job comes
back to the call that enqueued it, and to any other that fetches it. Metadata that gRPC
refuses throw in `call()` outside every `try` (`grpc.ts:211-215`), and so does a client
that is gone (`:219`): both leave the promise as it is (`Throws`). The definitions
of `HttpTransport` have names of their own (`CallSpec`, `stage`, `RequestIsRemoteCall`),
so that one module of proofs can extend both.

### Durable

The handler is a program: steps that draw time or randomness, make calls one by
one or together, save a checkpoint, finish. An attempt may end at any point with
its request applied or not; the checkpoint survives, the context does not. The value of
an operation is `<<op, n>>` when it is carried out for the n-th time, so that a value
from another attempt or another operation is told apart. The operations of a handler are
distinct, as `durable.ts:148` asks of their keys; a call in `Keyless` has the empty key,
which matches any call of the log (`durable.ts:163`).

### Serverless

One initial state per adapter. Invocations are started, overlap, and are killed
by the platform; SQS deletes what is not reported as a failure, the other
adapters tell the server with `fetch()`, whose answer they ignore: an ack the server
refuses by a status is an ack to them. What is no job is answered 405, 400 or, for a body
of `null`, by an exception (`ParseFails`).

### Producer

`OJSClient.enqueue` and `enqueueBatch` with `composeEnqueue` in front of the
transport or the test store, calls of `drain()`, and changes of the test mode at
any moment. Middleware may call `next()` as often and as late as they like.

### Subscribe, Events, EventRelay

`Subscribe` is one subscription. The stream is a sequence of tokens (field names,
values, ends of line) that chunks cut anywhere; `buffer`, `lines`, `eventType`,
`eventId` and `eventData` are `readStream`'s variables. Between two of its waits
nobody but the handler runs, so `unsubscribe` is enabled in phase `"handling"`
and while it waits, not in phase `"lines"`; phase `"read"` is the moment in which
`read()` has resolved and `readStream` has not gone on.

`Events` is the emitter. A JavaScript Set is a sequence of entries that keeps the
deleted ones, because the iteration goes by place: what is added behind it is
visited, what is added again is visited again. `emissions` are the calls of
`emit`, `stack` those that are in their loops. Listeners return, return a promise,
throw, and use the emitter.

`EventRelay` composes the two by INSTANCE: the handler of a subscription emits each
event (`handler = "relay"`), or has no emitter (`"plain"`, which leaves `Subscribe`
alone with every cut and every throw). The steps of one are frozen while the other
has the thread.

### Payload

The life of the arguments from `enqueue` to the handler. Arguments are their job
and the layers of encryption around them; a layer is a key and a nonce, and opens
for these only, which is all that is assumed of AES-GCM. The chain is the number of
middlewares before and after the encryption: edits move it past calls that
wait, and `shifted` records the jobs that happened to. `meta` has the entries of today
and those of the earlier SDK; a handler may enqueue another job with the meta of
its own or part of it (`Carried`). Jobs come from a client with the encryption, a client
without it, from batches and workflows (which run no chain and send no meta)
and from the earlier SDK (`OldJobs`).

## 3. Runs

Every passing run explores its whole state space. Bounds are small numbers of
actors because the interesting cases need two of them (or three jobs: two to
fill a pool, one to wait); each row says what its instance makes happen.

| Run | Instance | States | What it shows |
|---|---|---|---|
| `worker_single` | 1 start, 1 stop, 3 jobs with timeouts, 2 slots, 2 tries; jobs symmetric | 431k | concurrency limit, termination leaves nothing behind, no idle wait, the slot pool is implemented |
| `worker_restart` | 2 starts, 2 stops, `CallsOverlap`, throwing listeners, an unhandled job and a handler that throws synchronously, 1 slot, 1 try | 596k | slots neither leaked nor lost, termination aborts what runs |
| `worker_liveness` | 1 start, 1 stop, 2 jobs, 2 slots, fairness | 23k | the requests of a delivery end, the worker keeps fetching, the wait of `stop()` ends, the life cycle is followed and progresses - though handlers and listeners hang |
| `middleware` | 1 execution, chains up to 2 (1 after `clear()`), 2 arrays, `maxRetries` 2, all five kinds, recorders and spans that throw, fairness | 145k | at most once, onion, truth of reports, timeouts |
| `http_transport` | up to 3 retries, 4 configurations, 3 signals | 3.6k | timers, what is carried out twice, aborts, `RemoteCall` with its end |
| `durable` | 2 handlers, one with a call of empty key among calls made together, 4 attempts | 64k | replay |
| `grpc_transport` | 2 calls, one of which fetches what the other enqueued, 2 closes, metadata that are accepted or refused, arguments nested once | 257k | channels, arguments, calls end, `RemoteCall` |
| `grpc_batch` | 2 calls with options | - | violation, see section 6 |
| `serverless` | 4 jobs (2 good, 1 unparsable, 1 unhandled), 2 invocations, batches to 3 | 332k | no job lost, failures exact |
| `producer` | 1 enqueue, 1 batch of 2, 2 drains, 2 middleware, 3 mode switches | 1.0M | once per job, history exact, one request |
| `event_relay` | 3 events (without data, with an id and two data lines, with data that are no JSON), every cut for the plain handler and 2 for the relaying one, 2 listeners, 2 entries in the Sets, 1 emission by the program | 483k | events told as sent, emissions heard, the end of a subscription |
| `payload` | 3 jobs (string, number, old), 2 keys, 1 worker, 1 other middleware, 2 edits, 1 change of keys | 1.8M | arguments, layers, failures of decryption |

Notes on the bounds. One delivery per job (`MaxDeliveries = 1`) is enough for
the runs because a second delivery of a job whose first has ended begins in the
state of a first delivery of another job; the theorems hold for any number. The
middleware chain of two is the shortest with an inside and an outside; the
errors of position arithmetic (an insertion before the frame that waits) show
with two. A chain that `clear()` has started is another array than an execution under
way goes through; one entry tells them apart. Four attempts let two checkpoints be seen, replaced and seen again.
`jobsCompleted` needs no bound: it is bounded by the deliveries. The events of
`event_relay` have every form the parser tells apart; two entries of Sets are enough
for a listener that removes itself and is added again under the iteration. The edits of
`payload` are two because one takes the encryption past a call and a second may take it back.
One other middleware is enough to be before or after it, and one worker
because workers share nothing but keys, which change under it.

The type invariants of the modules with proofs are theorems for every value of the
constants and are not run again (`EventRelay` has its in `IInv`, for the emitter); that of `Durable` is
checked in its run besides.

A passing run has `CHECK_DEADLOCK FALSE` because the systems really stop: a
terminated worker, a settled call or a finished job does nothing more.

Each property comes with mutants of the code's own operations (marked *Mutant* in
the modules) that break it: a dropped guard, a bound off by one, a missing reset,
a cleanup on the wrong path.

## 4. Fairness

Safety is checked without fairness. The liveness properties are checked under the
fairness of `worker_liveness`, `middleware`, `http_transport`, `grpc_transport` and
`event_relay`, which assume

* timers fire (`setTimeout`, grace timer, poll timer, request timeouts) and
  the SDK's own promise continuations run: the event loop's own guarantee;
* in `Worker`, a request is answered or given up: this is `RemoteCall`'s
  promise, shown for the HTTP transport under the fairness of its timers, and for
  the gRPC transport but for the calls that `CallsEnd` excepts;
* in `GrpcTransport`, loading the client ends, and grpc-js reports a deadline
  that has passed.

In `EventRelay` it is assumed besides that the handler of a subscription and the
listeners come to an end: they are synchronous code that holds the thread, and when
one of them does not, nothing in the program goes on. What a listener has returned
may stay pending for ever.

Nothing is assumed of the handlers of jobs, of the promises of listeners, of user
middleware, of the server or of the network. A worker awaits what its listeners return
(`worker.ts:232`, `:322`, `:444`, `:473`, `events.ts:183`), so that one of them that hangs keeps a
slot, or keeps `start()` from polling or `stop()` from returning. The properties say so:

* `EveryDeliveryReports` starts when the handler has ended and goes to the end of the
  ack or nack; the listeners told of it may keep the delivery;
* `RunningKeepsFetching` excepts slots that a handler or a listener keeps, and a
  `start()` that waits for the listeners of `worker.started`;
* `StopEventuallyTerminates` goes to the end of the wait for jobs, though handlers and
  listeners hang; then the listeners of `worker.stopped` are awaited;
* `TimeoutBounds` holds although handlers and the middleware inside hang, and bounds the
  execution unless a user's middleware outside the timeout goes on by itself.

## 5. Proofs

Proved by TLAPS, for all values of the constants.

`WorkerProofs` (any number of jobs, starts, stops, deliveries, slots):

| Theorem | Under | Argument |
|---|---|---|
| `TypeCorrect` | - | `TypeOK` is inductive; one lemma per group of actions |
| `NoSlotLeak` | - | every step, seen from `active` and `phase`, moves a delivery on, ends it or begins some (`NextSlots`); an entry is deleted with the step that ends its delivery |
| `EveryExecutionTracked` | `~MayOverlap` | from the same case split: a job is leased only when it has no entry, so no entry is replaced |
| `TerminatedMeansAborted` | `~MayOverlap` | every live delivery is in the map, and `abortRemaining` goes through the map |
| `PollingNeverDies` | `~ThrowingListeners` | a chain is ended only where the state is not running; `PollingStep` |
| `ReservationsFit` | one `start()` | strengthening `SlotsReserved`: entries plus the count a fetch asked for fit the concurrency - the limit alone is not inductive, for the fetch in flight has read the count earlier |
| `ConcurrencyLimit` | one `start()`, `~MayOverlap` | live deliveries inject into entries, entries fit |
| `PoolImplemented` | one `start()` | `PoolInit`, and each step maps to reserve, grant, release or a stutter |
| `NothingLeftBehind` | one `start()`, `~CallsOverlap` | strengthening `Cleared`: what the start has installed is what the worker has references to, nobody else acts before it has resolved, and a `stop()` that waits has cleared everything |
| `WaitsForJobsOnly` | one `start()` and `stop()`, `~CallsOverlap`, every job has a handler | strengthening `Waits`: a `stop()` that waits is the one the next idle moment wakes; a job without handler would be rejected without telling it |
| `LifecycleFollowed` | one `start()` | strengthening `StartPending`: a `start()` not yet called means a worker still terminated |

`TransportProofs`, for HTTP (any `maxRetries`): `HttpIInv` is `CallTypeOK`,
`TimersCleared`, `SleepInv` (a call sleeps only after a 429 or, where the configuration
says so, a 502, 503 or 504, with attempts left, and never under an aborted signal),
`PastInv` (so did every attempt that was followed by another, and what was answered 429 is
never carried out) and `AnswerInv` (an answer of success
that is being read means that the server carried the attempt out; a call that
has not begun has done nothing). From it `HttpTypeCorrect`, `NoStrayTimer`,
`CarriedOutOnce`, `AbortEndsRequests`, and `HttpRemoteCallImplemented`, the
safety part of the refinement. `CarriedOutOnce` says when the server may carry an operation
out twice: only after a 502, 503 or 504, which come from a proxy and tell nothing of what
the server did, was tried again. That a 429 means "not carried out" is assumed of the server, and
an attempt without an answer is not repeated at all.

For gRPC (any calls, requests and closings): `IInv` is `TypeOK`,
`NoOrphanChannel`, `ClientInv` (one `initClient` is under way exactly while the
promise is pending, a client comes from a promise that is done - this is what
makes "one channel" inductive) and `CallInv` (a call that was sent is waiting or
over). From it `TypeCorrect`, `OneChannel` and `RemoteCallImplemented`, call by
call: the steps of other calls leave a call's outcome alone. `ArgumentsComeBack`
is for arguments nested to any `MaxDepth`, and for the call that enqueued a job as for
one that fetches it: as many come back as were sent, each in its place, those without zeros
unchanged, the others different in zeros and nulls at most. `RoundTrip` says what the
conversions give back (`Blanked`, which puts `null` for zeros), `ToInjective` that different values
are sent as different messages; both are by induction on the nesting (`DepthInduction`, from the well-founded
order of `Nat`), after lemmas that the recursive functions exist
(`ToEquation`, `FromEquation`, `BlankedEquation`).

`ServerlessProofs` (any jobs, invocations, batch sizes): `NoJobLost`. A job
that is deleted has succeeded because every record that is behind has succeeded
or is among the failures (`BehindInv`), and stays succeeded because a record
that is still to come has no outcome (`FreshInv`), the records of a batch being
distinct. Every step touches one invocation, so the invariant is proved per
invocation and lifted by `LocalStep`. `ReportExact` strengthens it with `ExactInv`: a
record among the failures has not succeeded and, while the loop goes on, lies behind.

`ProducerProofs` (any calls, drains, middlewares, batch sizes, switches):
`OneRequest` from `RequestInv` (a request has been sent only when the index of
the call has reached its last value, which it does once), and
`FakesHandledOnce` from `HandlingInv` (a job that is active or has ended never
becomes available, and a batch records its jobs in order). `PerformedExact` needs `History`:
the list has what was performed, once each; what is active is in the store or was
caught by a switch of modes; what the store has as ended is on the list.

Both modules prove `TypeCorrect` besides. `Serverless` needs for it that the
failures are among the records of the batch; `Producer`, that a drain is handling
exactly while the job it took is running.

`MiddlewareProofs` (any executions, kinds, lengths, arrays and `maxRetries`).
`HandlerAtMostOnce` is not inductive; `Stack` makes it so: no frame lies above `index`,
and once the handler has been called its frame lies at `index`, so that every
later `next()` is a second one. `Outcomes` (a frame resolves only after the
handler has), `Order` (the frames up to `index` are the entries of the array) and
`Reports` (nothing is reported before the frame settles; "completed" and then "failed" only
by a tracer that threw after it had counted) join it in `IInv`, from
which `CallsHandlerOnce`, `AckedMeansDone`, `WrapsHandler`, `ReportsAreTrue` and `TypeCorrect` follow.

`DurableProofs` (any handlers, operations, attempts). `PositionInv` relates the step
and the calls made of it to what the handler has been given. `LogInv` is the core: a replay
log lists the operations of the handler in their order up to the place where the
calls of a step were made together and ended in another order, and from there on the
replay cannot be followed; each entry is the value of its own operation. A call with an empty
key made together with others may be given another's entry (`Unnamed`) and is excepted.
`TypeCorrect`, `OwnValuesOnly`, `ValuesStay` and, with `SequentialInv`,
`NothingTwice` (what the checkpoint has is not carried out again) follow.

`PayloadProofs` (any jobs, keys, workers and bounds). `JobInv` says that arguments
are under layers of their own job, that the meta are those of the outermost one
(`Labelled`), and, unless an edit has shifted the call, that the encryption has been
applied exactly if the call is past its place (`Layered`). `WorkInv` says that a
delivery that is being decrypted is as the server has it.
`ArgumentsReachHandler`, `SentEncrypted` and `DecryptionFailures` follow, the last
one as an action property.

`EventRelayProofs` (any events and cuts, any types, listeners, Sets and emissions).
`ResolvedMeansHeard` speaks of iterations that listeners disturb
by adding, removing and emitting while they run. The inductive invariant `IInv`
has four parts: a listener's last entry in a Set is its only live one (`SetsInv`),
no Set belongs to two types (`MapInv`), the stack holds exactly the emissions that
are calling listeners, each begun inside the one below it (`StackInv`), and of every
emission under way (`EmissionsInv`): it has called entries by rising places
(`Called`), and whoever is due and still a listener has been called or lies ahead
(`Due`). `GrownSets` is the heart of the argument: whatever is done to the lists only
adds entries at their ends and lets entries die, to which both are indifferent. At
the end of the second loop nothing lies ahead, so everyone due has been called
(`HeardAtEnd`), which is `HeardByAll`. `EndsReading` is the safety half of
`UnsubscribeEnds`, from `AbortInv` (a subscription that was ended waits for nothing).

`EventsAsSent` (`DeliveredAsSent` for any events, any number of lines, cuts anywhere) says that
`readStream` undoes what the cuts do. Its invariant `ParserInv` finds a place in the stream,
behind `k` events and `s` lines of the next: `eventType`, `eventId` and `eventData` are what
those lines leave (`Parsed`), and `lines`, `buffer` and `chunk` together are the stream from
there to the last token received, cut at its line ends and nowhere else (`Ahead`). `Heard` is what
is to be told of the `k` events, and of one more while the handler runs (`Delivering`).
`Splits` says that the split of a text of any length gives its lines and their rest,
`TextLines` and `StreamLines` say where an event's lines are, and `NextLine` that the first of
`lines` is the next one the event has. `HeardInv` keeps what was told when the
subscription closes in the middle. The model computes texts, lines and what is to be told by
recursive functions, which the prover knows as choices only: `Recursion` shows that such functions
exist, `CountInduction` is induction on a set of numbers, and one lemma per function gives its
equation. The events' values have no line ends and are not empty (`EventRelayAssumption`,
and the definition of `Sent`): `data:` with nothing behind it is not among them.

The assumptions of all proofs are the named `ASSUME` of each module, which TLC
evaluates in the runs.

**Model-checked only.** Liveness (`CallsEnd`, `TimeoutBounds`, the properties
of `worker_liveness` but for the safety half of the life cycle, the second half of
`UnsubscribeEnds` and the end of a remote call): out of the prover's reach. Every invariant and every action property that a passing run
checks is a theorem.

## 6. Where code and documents disagree

A run that TLC refutes, with a finding in `PROJECT.json`: `grpc_batch`. The options
of batch jobs are dropped over gRPC (`transport/grpc.ts:420`).

Seen in the models, at the bounds given:

* Of two overlapping `stop()` calls one never returns when a handler outlives the
  grace period (`worker.ts:588`; `worker.ts:268` says it waits for the active
  jobs "within the shutdown timeout"). `Stops = {t1, t2}` in
  `MCWorkerLiveness.cfg` makes TLC refute `StopEventuallyTerminates`.
* gRPC: the arguments `""`, `0` and `false` of a job come back as `null` (`grpc.ts:730-732`),
  though `grpc.ts:727` converts "a proto Value back to a JS value" and `grpc.ts:6` promises to do so
  "transparently". `ArgumentsReturn` says what holds: nothing else is lost or changed. It does not
  ask for the nulls, and would hold as well if the code kept the zeros.
* gRPC: a call whose client `close()` takes away while it imports grpc-js never settles
  (`grpc.ts:219`). `CallsEnd` excepts it.
* A tracer's span that throws when it ends makes a job that was counted as completed
  be counted as failed too, and rejects (`otel.ts:118-132`). `ObserversTellOutcome` excepts it.
* By default a 502, 503 or 504 is tried again (`rate-limiter.ts:19-28`), though a proxy's answer
  does not say that the server has not done its work: a job may be enqueued twice.
  `DoneOnceUnlessProxied` excepts it.
* `sideEffect('')` takes whatever call comes next on the log (`durable.ts:163`): made together
  with another, it may be given that one's value. `OwnValues` excepts it.
* Metadata that gRPC refuses leave every call pending for ever (`grpc.ts:211-215`).
  `CallsEnd` excepts them.
* A listener whose promise stays pending keeps a slot, `start()` or `stop()` (section 4).
* The retry middleware never calls the handler again: `dispatch` rejects its second
  `next()` (`middleware.ts:137`, `middleware/retry.ts:4`). `HandlerAtMostOnce`, which
  holds with `maxRetries` 2, says the same.
* `unsubscribe()` is to "Stop receiving events" (`subscribe.ts:36`), but the events of
  a chunk that was read are delivered all the same; `UnsubscribeEnds` therefore
  speaks of what is read.
* A handler of a subscription that throws is called again with the raw data, and
  the stream ends without a word when it throws again (`subscribe.ts:150-156`).
* A listener that is removed and added again while `emit` runs is called again by
  the same emission (`events.ts:173`), as often as it does so.
* "Middleware runs before every enqueue operation" (`client.ts:345`): not for
  `enqueueBatch` (`client.ts:203`) nor for workflows, so sensitive data may be "stored
  in plaintext", which `encryption.ts:4-5` rules out. An edit of the chain under
  an enqueue that waits may skip or double the encryption (`middleware.ts:171`); after a
  double one the handler gets what one decryption leaves. A job sent in the clear with
  the meta of an encrypted one fails in the worker, or is given to the
  handler as it is when its first argument is no string (`encryption.ts:252`).

Read off the code while it was modelled; the models do as the code does:

* A handler error with `retryable = false` is nacked as retryable (`worker.ts:465`;
  `README.md:506` says otherwise). A job without handler does not wake a waiting
  `stop()` (`worker.ts:404`).
* With overlapping leases the end of a first delivery deletes the entry of the
  second (`worker.ts:397`). A `stop()` before `start()` has resolved leaves
  heartbeat and signal handlers behind (`worker.ts:232`).
* `create()` takes any error for "no checkpoint" (`durable.ts:94`), and the paths
  of its requests carry the base path twice with the HTTP transport
  (`durable.ts:36`, `http.ts:88`).
* The HTTP adapters ack inside the handler's `try` block: an ack that cannot be
  sent is followed by a nack of a job that was done (`cloudflare.ts:91`,
  `lambda.ts:199`, `vercel.ts:94`; `README.md:753`). An ack that is refused by a status is
  taken for an ack. A body of `null` makes them throw instead of answering 400.
* `enqueueBatch` does not validate (`client.ts:191-222`), and batch jobs lose `meta`;
  steps of a workflow lose priority, delay, uniqueness and meta, and their retry
  policy is sent as it was given (`workflow.ts:188-195`).
* Streams whose lines end in CRLF are never delivered: the empty line is `'\r'`
  (`subscribe.ts:143-147`).
* gRPC: a failed start of the client is kept; progress is never sent; `meta` of a job is not
  put into the message (`grpc.ts:401-407`); a status without a case of its own becomes
  `OJSServerError`.
* The HTTP transport's listener on the caller's signal is never removed
  (`http.ts:118`).

## 7. Not modelled

Headers, URL building, JSON and error-body layouts, logging; durations of
delays (a timer that is armed may fire whenever it likes); cryptography itself,
attestation and signatures; base64 and JSON; queue, cron, schema, progress and
agent clients (one request without state: `RemoteCall` is what there is to
say); ML helpers, validation schemas, tables of codes (plain data). Of parts that are
modelled: `register()` after `start()`; a user's middleware that answers without `next()`
(`middleware.test.ts:140`); events of type `'*'`, which `OJSEventType` excludes and
`emit` would give to the listeners of `onAny` twice (`events.ts:167-178`); streams with CRLF;
a second call of `unsubscribe`; logging at a level that hides completions. The OJS
server, grpc-js, SQS and the platforms are modelled only as far as the SDK can
tell, and marked external.

## 8. Plan

Done, in this order: `Worker` with its abstractions and proofs; `Middleware`;
`HttpTransport` with `RemoteCall` and proofs; `Durable`; `GrpcTransport`;
`Serverless` and `Producer` with proofs; `Subscribe`, `Events` and their composition;
`Payload` with its proofs; the proofs of `Middleware` and `EventRelay`; those of `Durable`, of the performed list, of the
SQS report, of the gRPC arguments and of the parser of event streams. The liveness of the
worker without fairness of listeners, metadata that gRPC refuses, empty keys and spans that
throw came last.

To model, if more is wanted: the pure functions of `retry.ts` (`parseDurationToMs`,
`computeBackoff`) against reference definitions, and the step graphs that `workflow.ts`
builds.
