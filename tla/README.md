# Laminar Inference: a TLA+ verification project

Laminar Inference is a Go gateway (`src/gateway`) that batches HTTP prediction
requests into gRPC calls to C++ workers (`src/backend`).  This directory holds
TLA+ models of the parts that are hard to test, TLC runs that check them on
small instances, and TLAPS proofs.

`PROJECT.json` is the index: which definition models which source lines, which
run checks which property, which seeded fault each property is known to detect,
and the hazards the properties are aimed at.

## 1. The system

| Component | State it keeps | Operations | What makes it correct |
|---|---|---|---|
| **Batcher** (`gateway/main.go`) | `requestChan`, the batch and timer of `run`, `failureCount`/`circuitOpen`, `nextID`, per-request response channels | `submit`, `run`, `flush`, `isCircuitOpen`, `recordSuccess`, `recordFailure`, `deliverResponse`, `Ready` | every request is answered once, with its own result; no batch waits without a timer; no call through an open circuit |
| **Admission controller** (`gateway/admission.go`) | `inFlightTokens`, one lease per request | `TryAcquire`, `Release` | the count is exactly the unreleased leases and within budget |
| **Batch policies** (`gateway/policy.go`) | `currentWait` | `NextWait`, `ShouldFlush`, `Observe` | waits stay within bounds, batches within `MaxBatchSize` |
| **Worker pool** (`gateway/worker_pool.go`) | per endpoint: `inFlight`, `totalBatches`, `consecutiveFailures`, `circuitOpenUntil` | `selectEndpoint`, `begin`, `finish`, `ProcessBatch`, `Stream`, `Recv`, `WorkersReady`, `WorkerSnapshots` | in-flight counts exact, circuits consistent with their counters, calls refused only when every circuit is open |
| **Trace recorder and OTLP exporter** (`gateway/tracing.go`, `gateway/otlp_exporter.go`) | ring of spans, bounded `queue`, `pending`, `flushMu` | `End`, `RecordSpan`, `ExportSpan`, `run`, `Flush`, `Close` | an accepted span is kept until a post with it has succeeded; `Close` returns |
| **HTTP handlers** (`gateway/main.go`) | none of their own | `handlePredict`, `handlePredictStream`, `handleReady`, `handleStats`, `handleTraces` | each stream finishes what it began |
| **Worker gRPC service** (`backend/main.cc`) | one backend object, shared by concurrent calls | `ProcessBatch`, `Stream` | one answer per request, from the prompt at its position, or none; each failure under its status |
| **KV block allocator** (`backend/scheduling/continuous_batcher.cc`) | blocks with reference counts, sequences, prefix cache | `AllocatePrompt`, `AppendTokens`, `ReleaseSequence`, eviction | reference counts exact; a failed call changes no sequence; refused only when full |
| **Continuous batcher** (same file) **and its backend** (`backend/inference_backend.cc`) | sequence states of one batch | `ContinuousBatcher::Run`, `ContinuousTinyLLMBackend::ProcessBatch` | terminates; memory returned on every path; priority order; all or nothing answers |
| **Process runner, llama.cpp backends** (`backend/inference_backend.cc`) | a child process and its pipes; an HTTP connection | `RunProcess`, `StopProcess`, `HttpPostJsonStream`, `ProcessStream` | no child left behind; deadline and cancellation honoured |
| **Simulator, tiny text, tiny LLM, ONNX backends** (`backend/inference_backend.cc`) | `ready` and `unavailable_reason` of ONNX, without a lock; otherwise none across calls | `ProcessBatch` | cancellation honoured in every loop; runtime values released on every path; the reason given is the reason there was |
| **Configuration** | constants | `LoadConfigFromEnv`, `normalized`, `BackendConfigFromEnv`, the backends' constructors | bounds on the constants; what is announced is what is used |

How they interact.  Each HTTP request runs `submit` in its own goroutine and
meets the single goroutine of `Batcher.run` through `requestChan` and its own
response channel.  `run` calls the worker pool synchronously, the pool calls one
worker over gRPC with a deadline, the worker calls its backend, which polls a
callback for cancellation.  `/ready` probes call `isCircuitOpen` from further
goroutines.  Ended spans go to the recorder's ring and to the exporter's queue;
the exporter posts from a goroutine of its own and from clients of `Flush`.

What is hard.  Leases, circuits, in-flight counts, `pending` and the timer are
all touched by several goroutines that hold locks only for single accesses, so
values are used after they have become stale; a client may disappear at any
moment while its request stays in the pipeline; the scheduler must account for
every block over rejection, cancellation and eviction; calls of one worker share
an object whose fields are written on the error paths only.  `hazards` in
`PROJECT.json` lists each such place with its line and the properties aimed at
it.

## 2. Modules and plan

| Module | Models | Composes | Proofs |
|---|---|---|---|
| `BatchPolicy` | fixed and adaptive policy as operators | | |
| `RequestService` | abstract: what `submit` promises its callers | | |
| `Batcher` | `submit`, `run`, `flush`, the aggregate circuit, readiness probes, the admission controller | `BatchPolicy`; implements `RequestService`; the worker RPC is its environment | `BatcherProofs` |
| `WorkerPool` | selection, `begin`/`finish`, per-endpoint circuits | the streaming caller's choice to stop reading | `WorkerPoolProofs` |
| `KvCache` | the allocator as operators from a cache to a cache | | |
| `KvBlockAllocator` | the allocator as an object, called in any order | `KvCache` | `KvBlockAllocatorProofs` |
| `BackendContract` | abstract: one call of `InferenceBackend::ProcessBatch` | | |
| `ContinuousBatcher` | `Run` and the backend that calls it | `KvCache`; implements `BackendContract` | `ContinuousBatcherProofs`, on the lemmas of `KvBlockAllocatorProofs` |
| `OtlpExporter` | `End`, the ring, the queue, `run`, `Flush`, `Close` | | `OtlpExporterProofs` |
| `StreamPath` | one streaming request over client, gateway, worker and llama.cpp server | | `StreamPathProofs` |
| `ProcessRunner` | `RunProcess`, `StopProcess` and the batch loop around them | implements `BackendContract` | `ProcessRunnerProofs` |
| `WorkerConfig` | the worker's numeric settings, from the environment to the members of a backend, as operators | | |
| `WorkerService` | concurrent calls of the worker over one backend object: simulator, tiny text, tiny LLM, ONNX, llama.cpp server | `WorkerConfig`; `BackendContract` for the backends with modules of their own, and as what every call implements | `WorkerServiceProofs` |

`MC<module>` instantiates a module for TLC; definitions with a suffix, such as
`Finish_leak`, are seeded faults: variants of the definition that follows them,
never part of a specification, which show that a property can fail.

The order was: the request path first (`Batcher`, then `WorkerPool`), the
worker's memory and scheduler next (`KvCache`, `ContinuousBatcher`), then the
paths around them (`OtlpExporter`, `StreamPath`, `ProcessRunner`), then the
abstract specifications and the worker as a whole (`RequestService`,
`BackendContract`, `WorkerService`), and the proofs of each.  What could come
next: `StreamPath` composed with `WorkerPool`, so that the leak of finding 1 is
reached from the client's side, and traceparent handling.

## 3. How state and actions correspond to the code

An action is what one goroutine or thread does between two accesses to shared
state; a lock held over several accesses makes them one action.  Data is
abstracted to what the properties distinguish: a prompt is the request it came
from, a token is its number, output is counted in units.

**Batcher.**  `pc`, `lease`, `respChan` and `cancelled` are per request;
`queue` is `requestChan`; `batch`, `timerActive` and `runPc` are the locals of
`run`.  `isCircuitOpen` reads `circuitOpen` under one lock and writes it under
another, so a probe and `run` interleave inside it: that is `FlushSample` and
`FlushWrite`, and `ProbeReady` to `ProbeWrite`.  A capacity of zero makes
`Handoff` the only way into `run`.  The queue gauge is moved in steps of its own,
after the send (`GaugeInc`) and after the receive (`GaugeDec`), by two
goroutines.  The worker's answer (`WorkerAnswers`,
`WorkerFails`) may leave requests out; `submit`'s `select` between its answer
and its context takes either when both are ready.

**WorkerPool.**  `selectEndpoint` locks one endpoint after another, so
`ScanEndpoint` is one iteration; the scan uses the time of its start, however
late.  `finish` gets a time that was read before it takes the endpoint's lock:
`Ends` reads the clock into `sampled`, and `Finish` uses that value whenever it
gets the lock, so that calls may finish in another order than they read the
clock.  `WorkersReady` and `WorkerSnapshots` look at a circuit with any earlier
time.

**KvCache, ContinuousBatcher.**  The allocator is used by one thread, so its
operations are operators.  The scheduler's loops take one iteration per step;
`todo` is what is left of the loop.  Prefill and decode go by priority
(`NextByPriority`), the other loops by the position of the request in the batch
(`NextByIndex`).  The RPC may be cancelled at any step; the scheduler looks at
that only when it begins a step, the backend when it is called and for each text.  A
batch is a member of `Workloads`; that a key stands for one number of tokens,
which `SchedulerAssumption` says of it, is what `PrefixCacheKey` makes sure of.

**OtlpExporter.**  `mu` protects single accesses; `flushMu` a whole `Flush`.
`run` holds a received span in its hand (`hand`) until it has added it to
`pending`.  A post is several steps: the collector takes the spans of the request
(`CollectorTakes`), then the success arrives (`PostSucceeds`), or the post fails,
before or after the collector has taken anything (`PostFails`).  The request has
only the spans that `spansToOTLPExport` leaves, those with W3C ids; they are the
constant `Convertible`.  `received` is what the collector has, `acked` the spans
of the posts that the exporter saw succeed.

**StreamPath.**  The server's reply is a sequence of pieces, each token line
being two of them, so that `recv` may cut anywhere; `received` and `content`
are what the worker has seen and extracted; `wire` is the gRPC stream, `sse`
what the handler has written.  The client receives all of that, or a prefix of it
once it has gone or the server's write deadline has passed (`ClientLeaves`,
`WriteDeadlinePasses`); from then on a write may fail (`Unreachable`).

**ProcessRunner.**  The child writes, exits, and obeys or ignores `SIGTERM` at
any moment; `Exit` between the last read and `waitpid` is the race that the
final read after `waitpid` is there for.  What a child has written is counted
up to `MaxOutput`, beyond the point where the parent keeps nothing more, and
stays there: a child may write for ever.

**WorkerService.**  A call is a thread; its steps lie between two looks at
`is_cancelled`.  Inner loops are cut at `StepCap` iterations, and `kModelBatch`,
3 in the code, is the constant `ModelBatch`.  An output is the index of the
request it was computed from, so a wrong pairing of answers and requests is
visible.  The ONNX fields `ready` and `unavailable_reason` have no lock.
Writing and reading the string take two steps each; when a write overlaps with
another access, `raced` is set, and from then on any text may be stored or read
and the process may die (`Crash`).  Accesses that do not overlap happen in
program order: the reordering a weaker memory model would allow is left out.
`kInvalidArgument` is a code that no backend returns.  A stream over the
llama.cpp server is here only with streaming switched off; otherwise it is
`StreamPath`.

**Refinements.**  `Batcher` maps to `RequestService` by its control points
(everything between admission and return is "pending"), the unreleased leases
(`charged`), and the contexts and answers themselves.  `ProcessRunner`,
`ContinuousBatcher` and each call of `WorkerService` map to `BackendContract` by
their code, the number of outputs so far (none once the call has failed, because
the caller drops them) and the cancellation flag.  For `ContinuousBatcher` an
output counts only if its sequence completed with all of its tokens.

## 4. Runs

| Run | What it checks | Bounds, and why they suffice |
|---|---|---|
| `batcher` | leases exact and released; budget kept; a request in one place; no batch without a timer; no call through an open circuit; abandoned requests not sent | three requests over an unbuffered channel, batches of two, a budget of two: one request each can be in a batch, waiting for a receiver, and refused or cancelled; a circuit that opens at the first failure |
| `batcher_pool` | waits, circuit fields, queue gauge; the batcher implements `RequestService`; every admitted request answered | two requests of cost 2 and 1 against a budget of 3, a channel of one: both fit and share a batch; all error codes; batches of up to four, so that a batch of one raises the wait (4 + 2, cut to 5), a slow worker or queue pressure halves it (below 2, and cut to that) and a failure resets it to 2.  A flush because half a batch waits under queue pressure would need three requests; full batches are in `batcher` |
| `worker_pool` | in-flight counts, circuits, refusals | three batch calls and one stream over two endpoints: two calls share an endpoint whichever way they are routed; threshold 2 needs two failures, and time for a circuit to open and expire; two failures may be counted in the other order than they were timed |
| `kv_allocator` | reference counts, residency, sizes; refusal only when full; failed calls leave sequences alone | three sequences, two keys with changing prefix lengths, three blocks: hits, misses, eviction, orphaned prefixes and exhaustion all occur |
| `scheduler` | memory on every path, priority order, the contract of `ProcessBatch`, rejection only under pressure, termination | 2592 batches of three requests over prompt, output and priority shapes, duplicate and empty ids included; a third request is what makes order observable |
| `otlp_exporter` | no accepted span lost, none sent again after a success; a flush reaches what was queued before it; exported when the collector is back; `Close` returns | two spans, queue and ring of one, `run` and one `Flush` client: the second span finds the queue full or both posters at work; only one of the two can be converted |
| `stream_path` | order and completeness of events, explicit ends, spans, both sides return | three tokens: a first, an inner and a last line, each cut anywhere; the client leaves or the write deadline passes at any moment |
| `process_runner` | children reaped, output complete, signals justified, the contract of `ProcessBatch`, the batch returns | two requests (what the first leaves, the second meets); a pipe of three, read by two and kept up to three; output counted to six, which no read can tell from more |
| `worker_service` | answers and statuses match the requests; every call keeps the contract; the unlocked ONNX fields; runtime values released; the settings announced are the ones used | a batch of three and a stream over every kind of backend: a model of two rows takes the batch in a full chunk and a partial one, and two calls are what it takes to race; a prompt without words; an environment that is unset, malformed, or below, inside and above every bound |
| `worker_pool_stream_leak`, `otlp_exporter_bound`, `stream_truncated` | findings, section 7 | |

A module's type invariant is a theorem of its own (`TypeCorrect`) or a conjunct of
an invariant that its run checks and a theorem states (`WellFormed`,
`MemoryAccounted`, `SpansConserved`, `TokensInOrder`, `AnswersMatchRequests`).

Deadlock is checked in every run.  Where all work of a specification can end, an
explicit stuttering step (`Idle`) stands for the system at rest.

### Fairness

- `Batcher`: every `submit` that can proceed does, `run` does, an armed timer
  fires.  The worker call is part of `run` because the RPC has a deadline.
  Clients need not arrive or cancel, and probes need not come.
- `ContinuousBatcher`: one thread, so it takes steps until it ends.
- `OtlpExporter`: goroutines run, posts end within the client's timeout, the
  ticker ticks; strong fairness for `Done` because Go's `select` picks among
  ready cases at random.  The collector need not come back: `EventuallyExported`
  speaks only of one that stays up.
- `StreamPath`: both threads run and the request's deadline passes; server and
  client owe nothing.  A blocking `recv` returns because of its socket timeout.
- `ProcessRunner`: the thread runs, the deadline passes, `SIGKILL` is delivered;
  the child owes nothing.  `ReadAvailable` reads until the pipe is empty, so a
  child that refills it in time keeps the thread busy, and nothing in the code
  forces it to stop: `Returns` is claimed only of children that do not write for
  ever.

## 5. Proofs

Everything below holds for every value of the constants that satisfies the
module's named assumption.

**`BatcherProofs`** (`BatcherAssumption`, `PolicyAssumption`: what
`Config.normalized` guarantees).  `TypeOK` is inductive.  `LeaseAccounting` (the
count is exact, and a call that has returned holds no lease) and `WithinBudget`
are not: nothing in them says that a request waiting in the pipeline has passed
admission, or that `run` releases a lease before it answers.  `LeaseInvariant`
adds both: a request that has not been sent is not in the pipeline, and one in
hand or answered holds no lease.
The sums over leases are handled by lemmas on `TokensOf`, the cardinality of a
set of (request, unit) pairs, so that adding or removing one request is a
theorem on disjoint unions.  `TimerGuardsBatch` needs `TimerInvariant`: where
the timer must be armed or off, and where the batch must be empty, for every
control point of `run`.  `OpenCircuitHasFailures` and
`CallsThroughClosedCircuit` need `CircuitInvariant`: without a readiness
provider nobody is between the two halves of `isCircuitOpen`.  `GaugeTracksQueue`
is inductive given the types, because it counts both halves that are still to
come: the increments of requests already sent and the decrement of the one
received (`Undiscounted`).

The second half of the module is about where a request is and what its caller is
told.  `OnePlace` is not inductive: a list that `flush` fills again might still hold requests.
`PlaceInvariant` adds at which control points of `run` the active batch, the
answers to deliver and the answer in hand may be there at all; `IdInvariant` that
the ids of submitted requests are distinct and below `nextID`, so that what
`flush` looks up for an id belongs to that request; `ResponseInvariant` that
every answer on its way is the request's own result, a failure of the pipeline,
or the cancellation of a request that was cancelled.
Each operation that moves requests has a lemma of its own on what it does to the
places (`EnqueuePlaces`, `TakePlaces`, `FilterPlaces`, `AnswerPlaces`, ...).
With these, and the lease invariant, every step of `Batcher` is a step of
`RequestService` or changes nothing a caller sees (`ImplementsServiceHolds`).

**`WorkerPoolProofs`** (`PoolAssumption`).  `CircuitSetAtThreshold` is inductive
given the types.  `InFlightAccounting` needs `CallInvariant` (a begun call has
an endpoint), and then `begin` adds one element and `finish` removes one that is
there, so the guard `inFlight > 0` never applies.  `TurnedAwayOnlyIfTripped`
needs `TripInvariant`: no circuit is open beyond the furthest trip of its
endpoint.  A finish that read the clock early and gets the lock late may set
`circuitOpenUntil` back, which is why the furthest trip is recorded and not the
last one.

**`ProcessRunnerProofs`** (`RunnerAssumption`).  `ControlInvariant` ties the
control point to the state of the child and to the reason for stopping it: from
it follow `NoChildLeft`, `StoppedForCause` and `SignalsReachOwnChild`.
`OutputInvariant` says that what is captured is what has been read, up to the
limit, and that nothing is unread when the status is classified: from it follow
`OutputsComplete` and `AnsweredInFull`.  The theorem `Refinement` shows that the
module implements `BackendContract`: under the two invariants every step is one
of the contract's or leaves its variables alone (`StepRefines`, one case per
action).  Without them a failing step could find an answer already given, and a
cancellation could be reported for a call that was not cancelled.

**`WorkerServiceProofs`** (`ServiceAssumption`).  `CallInvariant` describes one
call at each of its control points: that the outputs so far are those of the
first requests in order, when there is a request left, where runtime values may
be held, and that a failure ends the batch.  It yields `AnswersMatchRequests` and
`ValuesReleased`; `CallsKeepContract` maps, under it, every step of every call to
a step of `BackendContract`.  `ReasonIntact` is about the order in which calls
touch two unlocked fields: `ReasonInvariant` says how a call comes to read the
reason (it has recorded one itself, or the backend was never ready, or another
call has recorded one and so is not writing it).  `ConfigInvariant`, that every
setting lies within the bounds it was read with, gives `BannerTellsMembers`.

**`OtlpExporterProofs`** (`ExporterAssumption`).  `MutexInvariant`: `flushMu`
is held exactly from lock to return, and what its holder posts stays the front of
`pending` all the while.  `AckedInvariant`: no span is in two hands, and what the
was posted with success is nowhere else, but for the batch whose post has
succeeded and which is not yet taken off `pending`.  `ReceivedInvariant`: what the
collector has taken it has before the success arrives, so every post that
succeeded left it with all spans that can be converted; and what it has without a
success is still pending.  `OwedInvariant`: of the
spans queued when a flush was called, none is in the queue once it has been
drained, and all but one, the span in the hand of `run`, were posted with success
or are in the batch being posted.  The hard case are two flushes: one may find its spans
already taken by the other, which holds the lock until they are posted or back in
`pending`.

**`StreamPathProofs`** (`StreamAssumption`: an answer has a token).
`ParseInvariant` says that the buffer of the parser is the part of the reply that
was received after the lines of the tokens in `content`, and that between two
calls of `recv` it holds no complete line; lemmas on the reply (`LineAt`) then
give what consuming a line yields, wherever `recv` has cut it.
`DeliveryInvariant` looks at the events on their way to the client as one
sequence, over the wire, the handler's hands and the client: receiving and
writing leave it as it is, so only the worker's `Write` can disturb its order.
`SpanInvariant` and `ControlInvariant` tie spans, statuses and control points
together.  `TokensInOrder` and `SpansTellOutcome` follow for every way the handler
can return, `EndsExplicitly` for every way it can while the client can be
reached.  That a stream ends with an event does not say that its answer is
complete: see finding 3.

**`KvBlockAllocatorProofs`** (`KvAssumption`, `AllocatorAssumption`).  `WellFormed`
is inductive because it says that a sequence which holds one block of a cached
prefix holds all of it (`PrefixesWhole`); without that, a prefix in use might have
blocks that nobody holds and nobody can evict, and `RefusedOnlyWhenFull` would
not follow.  The counts are not exact in the middle of `AllocatePrompt`, when a
prefix is pinned by a sequence that is not there yet, so `AllocateBlocks` is
described from a weaker state (`Consistent`: cached and referenced blocks are
resident) by what it promises (`Promise`): as many fresh blocks as were asked for,
or none, and then too few blocks are free and every entry that is left is in use.
That the loop over the keys has missed no idle entry is shown with the least key
it would have missed; that the lowest free blocks are as many as asked for, with
the bijection between a finite set of numbers and its ranks (`RankIsBijection`).
Each operation then either adds blocks to one sequence (`GrownAccounted`) or
leaves all sequences as they were (`KeptAccounted`), which also gives
`FailureLeavesSequences`.  The lemmas about the operations say more than these
theorems need, for the scheduler's sake: which sequences are live afterwards,
which entries are left and how long they are, and that no resident block gets
lost (`Tracked`) as long as a key is used with one length.

**`ContinuousBatcherProofs`** (`KvAssumption`, `SchedulerAssumption`) builds on
those lemmas.  The inductive invariant has six parts.  `CacheInvariant`: the
bookkeeping is right, no block is lost, and an entry has the length every request
with its key asks for; that makes the blocks no sequence holds all free or
evictable, which `RejectedOnlyUnderPressure` rests on.  `HolderInvariant`: the
live ids are those of the running sequences, and these have different ids;
without the second half, the release of one sequence could take away the blocks
of another.  `ResultInvariant` and `ControlInvariant` tie results, control points
and `todo` together; under them every step is one of `BackendContract` or leaves
its variables alone (`StepRefines`).  `OrderInvariant` is what makes
`PriorityRespected` inductive: while a prompt is not ready, nothing behind it has
memory; a step with prefill budget left has passed over no such prompt, which is
true because a prompt that is cut short uses the budget up; and of the sequences
that can decode, the ones left out stand behind all that are taken (`Foremost` is
closed under `Before`).

Only model-checked: the liveness properties (`EveryRequestAnswered`,
`EventuallyExported`, `CloseReturns`, `BothReturn` and `Returns` of
`ContinuousBatcher` and of `ProcessRunner`), because temporal reasoning under
fairness and `ENABLED` are outside the prover.  Every invariant, action property
and refinement of a passing run is also a theorem.

## 6. Not modelled

- Floating-point arithmetic: which label or token a backend picks, and the
  probabilities it prints.  The loops around it are modelled.
- Parsing and formatting: JSON, traceparent headers, Prometheus text, the names
  of backends, paths and flags.  JSON extraction succeeds on a complete line and
  yields nothing otherwise; which ids are W3C ids is a constant; the
  ranges `Config.normalized` enforces are the assumptions on constants.
- The gRPC health service and RPC metadata.
- Memory orders weaker than program order.
- Latency averages, histograms and counters that nothing reads.
- In `ProcessRunner`, a failing `waitpid`: nobody else waits for the child.
- Process crashes, other than the one a data race can cause: neither side
  persists anything.

## 7. Findings

1. **A stream the gateway abandons stays in flight for ever**
   (`worker_pool_stream_leak`).  `handlePredictStream` returns when a write to
   its client fails, or when the writer cannot flush, without another `Recv`;
   only `Recv` calls `finish`.  The endpoint's `inFlight` stays raised, which
   also biases every later selection against it.  The metric's help text says
   "Current number of batches in flight per worker endpoint."
2. **The exporter's buffer is not bounded** (`otlp_exporter_bound`).  The queue
   is, but a failed post leaves its spans in `pending`, and `run` goes on moving
   the queue into it.  While posts succeed, `pending` holds less than a batch
   whenever `run` is in its `select` and nobody flushes, so `BoundedBuffer` is
   stated of those moments, and the trace has a post that failed.  The
   documentation speaks of a "bounded buffer" with "retry-on-next-flush behavior".
3. **A truncated reply is delivered as complete** (`stream_truncated`).  A
   `recv` that fails in the middle of a streamed reply sets `response.error`
   but leaves `response.ok`, and only `ok` is looked at: the client gets a
   `done` event with the tokens so far and the RPC ends with OK.  A test of the
   repository says that the done event "should include full generated result".

Observations that contradict no statement of the repository:

- a request cancelled while queued is counted as cancelled by `submit` and again
  by the filter in `flush` (`gateway/main.go:513`, `:590`);
- a late success of a call begun before the circuit opened closes it within its
  window (`gateway/worker_pool.go:359`); `CircuitSetAtThreshold` still holds;
- reusing a prefix key with another length overwrites its cache entry; the old
  entry's blocks keep their tag and belong to no entry, so neither release nor
  eviction frees them while the allocator lives
  (`backend/scheduling/continuous_batcher.cc:231`; `Orphans`).  The backend uses
  each key with one length;
- when the RPC is cancelled, `Run` releases the ids of all unfinished requests in
  the order of the batch: one that never got its prompt gives back the blocks of
  a running sequence with the same id before it is that one's turn
  (`backend/scheduling/continuous_batcher.cc:369`).  Nothing reads them in
  between, and everything is released in the end (`HeldByRunningSequences`);
- gauges are set outside the locks that protect their values, so an older value
  may be exported last;
- a span whose ids are not W3C ids is left out of the request without an error
  (`gateway/tracing.go:320`, `:351`), and then taken off `pending` and counted as
  exported (`gateway/otlp_exporter.go:163`).  The handlers keep any trace id a
  client sends (`gateway/main.go:875`, `:951`);
- a post whose success is lost after the collector took its spans is sent again:
  the exporter delivers at least once (`SentAtLeastOnce`);
- the server's `WriteTimeout` runs from the header of a request, five seconds
  longer than the worker timeout, which starts only after the body; a body may
  take ten seconds (`gateway/main.go:977`, `:1231`).  A stream with a slow body
  can lose its final event although its client has stayed;
- a `Flush` may miss the span that `run` has received and not yet added to
  `pending`;
- an error event may follow a done event on a stream whose RPC fails after it;
- stream errors caused by the client, its cancellation included, count as
  failures of the worker and can open its circuit;
- a child that writes for ever, fast enough, keeps `ReadAvailable` from
  returning, and so the deadline and the cancellation from being looked at
  (`backend/inference_backend.cc:1289`);
- the first ONNX operation that fails makes the backend unavailable for good
  (nothing sets `ready` again), while the health service goes on serving;
- two ONNX calls whose operations fail at the same time write
  `unavailable_reason` without a lock; a single failure does not race with the
  calls it turns away (`ReasonIntact`);
- a span that ends after the exporter's `run` has returned is queued, and neither
  exported nor counted as dropped (`gateway/otlp_exporter.go:123`).

## 8. Running

    tlc -workers 2 -config MCBatcher.cfg MCBatcher
    tlapm BatcherProofs.tla

Every run ends within a few minutes on a small machine.
