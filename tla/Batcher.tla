------------------------------- MODULE Batcher -------------------------------
(***************************************************************************)
(* The request path of the gateway (gateway/main.go, Batcher) together     *)
(* with the token-budget admission controller it calls                     *)
(* (gateway/admission.go) and the batching policy (gateway/policy.go).     *)
(*                                                                         *)
(* One goroutine per HTTP request executes Batcher.submit; one goroutine   *)
(* executes Batcher.run, which collects requests from the bounded channel  *)
(* requestChan and flushes them as a batch with one worker RPC; a third    *)
(* kind of goroutine answers readiness probes by calling Batcher.Ready.    *)
(* Each request of Requests is submitted at most once, and its HTTP        *)
(* context may be cancelled at any moment.                                 *)
(***************************************************************************)
EXTENDS BatchPolicy, Sequences, FiniteSets, Functions

CONSTANTS
  Requests,            \* the HTTP requests, one submit goroutine each
  NoRequest,           \* a value that is not a request
  RequestQueueSize,    \* capacity of requestChan (0: an unbuffered channel)
  AdmissionEnabled,    \* cfg.AdmissionEnabled
  MaxInFlightTokens,   \* cfg.AdmissionMaxInFlightTokens (0: no limit)
  MaxTokens,           \* an upper bound on one request's estimate
  Tokens,              \* AdmissionController.Estimate of each request's prompt
  WorkerErrorCodes,    \* the codes classifyWorkerError reports
  Threshold,           \* cfg.CircuitBreakerThreshold
  ReadinessProvider    \* the worker client is a WorkerReadinessProvider

ASSUME BatcherAssumption ==
  /\ IsFiniteSet(Requests)
  /\ NoRequest \notin Requests
  /\ RequestQueueSize \in Nat
  /\ AdmissionEnabled \in BOOLEAN
  /\ MaxInFlightTokens \in Nat
  /\ MaxTokens \in Nat
  /\ Tokens \in [Requests -> 1..MaxTokens]
  /\ WorkerErrorCodes \subseteq
       {"worker_timeout", "worker_unavailable", "worker_error"}
  /\ Threshold \in Nat \ {0}
  /\ ReadinessProvider \in BOOLEAN

VARIABLES
  \* --- the submit goroutines and their HTTP contexts
  pc,                 \* control point of each submit call
  cancelled,          \* has the request's context been cancelled
  id,                 \* Request.ID (0 before GenerateID)
  respChan,           \* Request.RespChan, a channel of capacity one
  answer,             \* what submit returned (NoResponse before)
  \* --- AdmissionController and the leases
  lease,              \* "none", "held" or "released"
  inFlightTokens,     \* AdmissionController.inFlightTokens
  \* --- Batcher fields shared by the goroutines
  nextID,             \* Batcher.nextID
  queue,              \* Batcher.requestChan
  failureCount,       \* Batcher.failureCount
  circuitOpen,        \* Batcher.circuitOpen
  windowElapsed,      \* now - circuitOpenAt has reached CircuitBreakerResetAfter
  currentWait,        \* AdaptiveBatchPolicy.currentWait
  \* --- the goroutine executing Batcher.run
  runPc,              \* its control point
  batch,              \* run's batch; during the filter loop, what is left of it
  active,             \* flush's activeBatch
  outbox,             \* the answers flush still has to deliver, in order
  sending,            \* the answer deliverResponse is about to send, or NoAnswer
  timer,              \* the time.Timer of run
  timerWait,          \* the duration the timer was last armed with
  timerActive,        \* run's timerActive
  \* --- a goroutine answering readiness probes
  probePc,            \* its position inside isCircuitOpen
  queueDepth          \* the gauge laminar_queue_depth

submitVars == <<pc, cancelled, id, respChan, answer>>
leaseVars  == <<lease, inFlightTokens>>
circuitVars == <<failureCount, circuitOpen, windowElapsed>>
timerVars  == <<timer, timerWait, timerActive>>
flushVars  == <<active, outbox, sending>>
\* What no submit goroutine writes.
runVars    == <<circuitVars, currentWait, runPc, batch, flushVars, timerVars,
                probePc>>
vars == <<submitVars, leaseVars, nextID, queue, runVars, queueDepth>>

-----------------------------------------------------------------------------
(* Answers.  An answer names the request whose prompt produced its result. *)

ErrorCodes == {"admission_rejected", "queue_full", "request_cancelled",
               "worker_unavailable", "worker_timeout", "worker_error",
               "missing_response"}
Response == [code : {"ok"}, result : Requests]
              \cup [code : ErrorCodes, result : {NoRequest}]
NoResponse == [code |-> "none", result |-> NoRequest]
errorResponse(code) == [code |-> code, result |-> NoRequest]

\* What deliverResponse is called with: a request and its response.
Delivery == [req : Requests, resp : Response]
NoAnswer == [req |-> NoRequest, resp |-> NoResponse]

\* One delivery per request of seq, the response chosen by resp.
Deliveries(seq, resp) ==
  [i \in 1..Len(seq) |-> [req |-> seq[i], resp |-> resp[seq[i]]]]

-----------------------------------------------------------------------------
(* AdmissionController.                                                    *)

\* Seeded fault: the lease is not guarded by a sync.Once.
Release_twice(r) ==
  /\ lease' = [lease EXCEPT ![r] = IF @ = "held" THEN "released" ELSE @]
  /\ inFlightTokens' = IF lease[r] # "none" /\ AdmissionEnabled
                       THEN MaxDuration(0, inFlightTokens - Tokens[r])
                       ELSE inFlightTokens

\* AdmissionLease.Release: at most once per lease, and the total is clamped.
\* With admission disabled the lease has no controller to return tokens to.
Release(r) ==
  /\ lease' = [lease EXCEPT ![r] = IF @ = "held" THEN "released" ELSE @]
  /\ inFlightTokens' = IF lease[r] = "held" /\ AdmissionEnabled
                       THEN MaxDuration(0, inFlightTokens - Tokens[r])
                       ELSE inFlightTokens

\* Seeded fault: the request's own tokens are left out of the comparison.
OverBudget_before(r) ==
  /\ AdmissionEnabled
  /\ MaxInFlightTokens > 0
  /\ inFlightTokens > MaxInFlightTokens

\* The condition under which TryAcquire refuses a request.
OverBudget(r) ==
  /\ AdmissionEnabled
  /\ MaxInFlightTokens > 0
  /\ inFlightTokens + Tokens[r] > MaxInFlightTokens

-----------------------------------------------------------------------------
(* Batcher.submit, executed by the goroutine of request r.                 *)

\* submit returns resp to its caller.
Return(r, resp) ==
  /\ answer' = [answer EXCEPT ![r] = resp]
  /\ pc' = [pc EXCEPT ![r] = "returned"]

\* Seeded fault: the identifier is read but the counter is not advanced.
GenerateID_stuck(r) ==
  /\ id' = [id EXCEPT ![r] = nextID]
  /\ UNCHANGED nextID

GenerateID(r) ==
  /\ id' = [id EXCEPT ![r] = nextID]
  /\ nextID' = nextID + 1

\* GenerateID and TryAcquire: the request is admitted and holds a lease ...
Admit(r) ==
  /\ pc[r] = "start"
  /\ ~OverBudget(r)
  /\ GenerateID(r)
  /\ lease' = [lease EXCEPT ![r] = "held"]
  /\ inFlightTokens' = inFlightTokens + (IF AdmissionEnabled THEN Tokens[r] ELSE 0)
  /\ pc' = [pc EXCEPT ![r] = "admitted"]
  /\ UNCHANGED <<cancelled, respChan, answer, queue, runVars, queueDepth>>

\* ... or is rejected because the token budget is full.
RejectAdmission(r) ==
  /\ pc[r] = "start"
  /\ OverBudget(r)
  /\ GenerateID(r)
  /\ Return(r, errorResponse("admission_rejected"))
  /\ UNCHANGED <<cancelled, respChan, leaseVars, queue, runVars, queueDepth>>

\* First select of submit: the context is done before the request is queued.
CancelBeforeQueue(r) ==
  /\ pc[r] = "admitted"
  /\ cancelled[r]
  /\ Release(r)
  /\ Return(r, errorResponse("request_cancelled"))
  /\ UNCHANGED <<cancelled, id, respChan, nextID, queue, runVars,
                 queueDepth>>

\* First select of submit: the channel has room.  The gauge is incremented
\* only after the send, in GaugeInc.
Enqueue(r) ==
  /\ pc[r] = "admitted"
  /\ Len(queue) < RequestQueueSize
  /\ queue' = Append(queue, r)
  /\ pc' = [pc EXCEPT ![r] = "sent"]
  /\ UNCHANGED <<cancelled, id, respChan, answer, leaseVars, nextID, runVars,
                 queueDepth>>

\* First select of submit, default branch: neither case is ready.  On an
\* unbuffered channel this can happen whatever run does: its goroutine may
\* not be parked in its select yet.
RejectQueueFull(r) ==
  /\ pc[r] = "admitted"
  /\ ~cancelled[r]
  /\ Len(queue) >= RequestQueueSize
  /\ Release(r)
  /\ Return(r, errorResponse("queue_full"))
  /\ UNCHANGED <<cancelled, id, respChan, nextID, queue, runVars,
                 queueDepth>>

GaugeInc(r) ==
  /\ pc[r] = "sent"
  /\ queueDepth' = queueDepth + 1
  /\ pc' = [pc EXCEPT ![r] = "waiting"]
  /\ UNCHANGED <<cancelled, id, respChan, answer, leaseVars, nextID, queue,
                 runVars>>

\* Second select of submit: the response has arrived.
TakeResponse(r) ==
  /\ pc[r] = "waiting"
  /\ respChan[r] # NoResponse
  /\ respChan' = [respChan EXCEPT ![r] = NoResponse]
  /\ Return(r, respChan[r])
  /\ UNCHANGED <<cancelled, id, leaseVars, nextID, queue, runVars,
                 queueDepth>>

\* Second select of submit: the context is done; the request itself stays
\* where it is in the pipeline.
CancelWaiting(r) ==
  /\ pc[r] = "waiting"
  /\ cancelled[r]
  /\ Release(r)
  /\ Return(r, errorResponse("request_cancelled"))
  /\ UNCHANGED <<cancelled, id, respChan, nextID, queue, runVars,
                 queueDepth>>

\* Environment: the client disconnects while submit runs.
ClientCancels(r) ==
  /\ pc[r] # "returned"
  /\ ~cancelled[r]
  /\ cancelled' = [cancelled EXCEPT ![r] = TRUE]
  /\ UNCHANGED <<pc, id, respChan, answer, leaseVars, nextID, queue, runVars,
                 queueDepth>>

-----------------------------------------------------------------------------
(* Batcher.run, its select loop.                                           *)

\* case req := <-b.requestChan
Receive ==
  /\ runPc = "select"
  /\ queue # <<>>
  /\ queue' = Tail(queue)
  /\ batch' = Append(batch, Head(queue))
  /\ runPc' = "received"
  /\ UNCHANGED <<submitVars, leaseVars, nextID, circuitVars, currentWait,
                 flushVars, timerVars, probePc, queueDepth>>

\* On an unbuffered channel the send of submit and the receive of run are
\* one step, possible when run's goroutine is parked in its select.
Handoff(r) ==
  /\ RequestQueueSize = 0
  /\ pc[r] = "admitted"
  /\ runPc = "select"
  /\ pc' = [pc EXCEPT ![r] = "sent"]
  /\ batch' = Append(batch, r)
  /\ runPc' = "received"
  /\ UNCHANGED <<cancelled, id, respChan, answer, leaseVars, nextID, queue,
                 circuitVars, currentWait, flushVars, timerVars, probePc, queueDepth>>

\* The request just received is the first of a batch and no timer runs.
AfterReceive == IF Len(batch) = 1 /\ ~timerActive THEN "arm" ELSE "decide"

\* Seeded fault: the gauge is not decremented.
GaugeDec_skipped ==
  /\ runPc = "received"
  /\ runPc' = AfterReceive
  /\ UNCHANGED <<submitVars, leaseVars, nextID, queue, circuitVars, currentWait, batch,
                 flushVars, timerVars, probePc, queueDepth>>

\* Only then does run decrement the gauge; the sender may not have incremented
\* it yet.
GaugeDec ==
  /\ runPc = "received"
  /\ queueDepth' = queueDepth - 1
  /\ runPc' = AfterReceive
  /\ UNCHANGED <<submitVars, leaseVars, nextID, queue, circuitVars, currentWait, batch,
                 flushVars, timerVars, probePc>>

\* Seeded fault: the first request of a batch does not start the timer.
ArmTimer_never ==
  /\ runPc = "arm"
  /\ runPc' = "decide"
  /\ UNCHANGED <<submitVars, leaseVars, nextID, queue, circuitVars, currentWait,
                 batch, flushVars, timerVars, probePc, queueDepth>>

\* The first request of a batch starts the timer, for the wait the policy
\* derives from the queue length of that moment.
ArmTimer ==
  /\ runPc = "arm"
  /\ timer' = "running"
  /\ timerWait' = NextWait(currentWait, Len(queue))
  /\ timerActive' = TRUE
  /\ runPc' = "decide"
  /\ UNCHANGED <<submitVars, leaseVars, nextID, queue, circuitVars, currentWait,
                 batch, flushVars, probePc, queueDepth>>

\* Seeded fault: the flush forgets to stop the timer it no longer needs.
StopTimer_skipped ==
  /\ timerActive' = FALSE
  /\ UNCHANGED <<timer, timerWait>>

\* stopTimer: whether or not the timer has fired, its channel is left empty.
StopTimer ==
  /\ timer' = "stopped"
  /\ timerActive' = FALSE
  /\ timerWait' = 0

\* ShouldFlush is evaluated with the queue length of that moment.
Decide ==
  /\ runPc = "decide"
  /\ IF ShouldFlush(Len(batch), Len(queue))
     THEN /\ runPc' = "filter"
          /\ IF timerActive THEN StopTimer ELSE UNCHANGED timerVars
     ELSE /\ runPc' = "select"
          /\ UNCHANGED timerVars
  /\ UNCHANGED <<submitVars, leaseVars, nextID, queue, circuitVars, currentWait,
                 batch, flushVars, probePc, queueDepth>>

\* Environment: the armed duration elapses.
TimerFires ==
  /\ timer = "running"
  /\ timer' = "fired"
  /\ UNCHANGED <<submitVars, leaseVars, nextID, queue, circuitVars, currentWait,
                 runPc, batch, flushVars, timerWait, timerActive, probePc,
                 queueDepth>>

\* case <-timer.C
TimerTick ==
  /\ runPc = "select"
  /\ timer = "fired"
  /\ timer' = "stopped"
  /\ timerActive' = FALSE
  /\ timerWait' = 0
  /\ runPc' = IF Len(batch) > 0 THEN "filter" ELSE "select"
  /\ UNCHANGED <<submitVars, leaseVars, nextID, queue, circuitVars, currentWait,
                 batch, flushVars, probePc, queueDepth>>

-----------------------------------------------------------------------------
(* Batcher.flush.  deliverResponse releases the lease and then sends; the  *)
(* two are separate steps, the second one being SendResponse.              *)

\* Seeded fault: the context of a batched request is not consulted.
Filter_blind ==
  /\ runPc = "filter"
  /\ sending = NoAnswer
  /\ batch # <<>>
  /\ batch' = Tail(batch)
  /\ active' = Append(active, Head(batch))
  /\ UNCHANGED <<submitVars, leaseVars, nextID, queue, circuitVars, currentWait,
                 runPc, outbox, sending, timerVars, probePc, queueDepth>>

\* Seeded fault: a cancelled request is answered and kept all the same.
Filter_keeps ==
  /\ runPc = "filter"
  /\ sending = NoAnswer
  /\ batch # <<>>
  /\ batch' = Tail(batch)
  /\ active' = Append(active, Head(batch))
  /\ IF cancelled[Head(batch)]
     THEN /\ Release(Head(batch))
          /\ sending' = [req |-> Head(batch),
                         resp |-> errorResponse("request_cancelled")]
     ELSE UNCHANGED <<leaseVars, sending>>
  /\ UNCHANGED <<submitVars, nextID, queue, circuitVars, currentWait, runPc,
                 outbox, timerVars, probePc, queueDepth>>

\* The loop that drops cancelled requests looks at one context per step.
Filter ==
  /\ runPc = "filter"
  /\ sending = NoAnswer
  /\ batch # <<>>
  /\ batch' = Tail(batch)
  /\ IF cancelled[Head(batch)]
     THEN /\ Release(Head(batch))
          /\ sending' = [req |-> Head(batch),
                         resp |-> errorResponse("request_cancelled")]
          /\ UNCHANGED active
     ELSE /\ active' = Append(active, Head(batch))
          /\ UNCHANGED <<leaseVars, sending>>
  /\ UNCHANGED <<submitVars, nextID, queue, circuitVars, currentWait, runPc,
                 outbox, timerVars, probePc, queueDepth>>

\* The end of that loop: flush returns when nothing is left to send.
EndFilter ==
  /\ runPc = "filter"
  /\ sending = NoAnswer
  /\ batch = <<>>
  /\ runPc' = IF active = <<>> THEN "select" ELSE "circuit"
  /\ UNCHANGED <<submitVars, leaseVars, nextID, queue, circuitVars, currentWait,
                 batch, flushVars, timerVars, probePc, queueDepth>>

-----------------------------------------------------------------------------
(* Batcher.isCircuitOpen, called by flush and by Ready.                    *)

\* Seeded fault: the half-open transition keeps the failure count.
CircuitCheck_keepCount(open) ==
  LET opensNow == failureCount >= Threshold /\ ~circuitOpen
      halfOpens == circuitOpen /\ windowElapsed
  IN /\ open = (opensNow \/ (circuitOpen /\ ~halfOpens))
     /\ circuitOpen' = open
     /\ windowElapsed' = FALSE
     /\ UNCHANGED failureCount

\* A worker client that reports no readiness: under the lock the circuit opens
\* once Threshold failures have accumulated, and half-opens when the reset
\* window has elapsed since it opened.  open is the result.
CircuitCheck(open) ==
  LET opensNow == failureCount >= Threshold /\ ~circuitOpen
      halfOpens == circuitOpen /\ windowElapsed
  IN /\ open = (opensNow \/ (circuitOpen /\ ~halfOpens))
     /\ circuitOpen' = open
     /\ windowElapsed' = FALSE
     /\ failureCount' = IF halfOpens THEN 0 ELSE failureCount

\* A WorkerReadinessProvider: readiness was sampled before the lock was taken
\* and the aggregate state is overwritten with it.
ReadinessWrite(ready) ==
  /\ failureCount' = IF ready THEN 0 ELSE MaxDuration(failureCount, Threshold)
  /\ circuitOpen' = ~ready
  /\ windowElapsed' = FALSE

\* Environment: CircuitBreakerResetAfter elapses after the circuit opened
\* (nothing reads circuitOpenAt when there is a readiness provider).
WindowElapses ==
  /\ ~ReadinessProvider
  /\ circuitOpen
  /\ ~windowElapsed
  /\ windowElapsed' = TRUE
  /\ UNCHANGED <<submitVars, leaseVars, nextID, queue, failureCount, circuitOpen,
                 currentWait, runPc, batch, flushVars, timerVars, probePc,
                 queueDepth>>

\* Batcher.Ready by a /ready handler, without and with a readiness provider.
ProbeReady ==
  /\ ~ReadinessProvider
  /\ \E open \in BOOLEAN : CircuitCheck(open)
  /\ UNCHANGED <<submitVars, leaseVars, nextID, queue, currentWait, runPc, batch,
                 flushVars, timerVars, probePc, queueDepth>>

ProbeWorkers ==
  /\ ReadinessProvider
  /\ probePc = "idle"
  /\ probePc' \in {"ready", "unready"}
  /\ UNCHANGED <<submitVars, leaseVars, nextID, queue, circuitVars, currentWait,
                 runPc, batch, flushVars, timerVars, queueDepth>>

ProbeWrite ==
  /\ probePc \in {"ready", "unready"}
  /\ ReadinessWrite(probePc = "ready")
  /\ probePc' = "idle"
  /\ UNCHANGED <<submitVars, leaseVars, nextID, queue, currentWait, runPc, batch,
                 flushVars, timerVars, queueDepth>>

-----------------------------------------------------------------------------
(* Batcher.flush, continued: circuit, worker call, delivery.               *)

\* flush acts on the result of isCircuitOpen: it refuses the whole batch, or
\* goes on to call the worker.
ActOnCircuit(open) ==
  IF open
  THEN /\ currentWait' = Observe(currentWait, Len(active), Len(queue), FALSE, FALSE)
       /\ outbox' = Deliveries(active,
                      [r \in Range(active) |-> errorResponse("worker_unavailable")])
       /\ active' = <<>>
       /\ runPc' = "deliver"
  ELSE /\ runPc' = "rpc"
       /\ UNCHANGED <<currentWait, outbox, active>>

FlushCircuit ==
  /\ runPc = "circuit"
  /\ ~ReadinessProvider
  /\ \E open \in BOOLEAN : CircuitCheck(open) /\ ActOnCircuit(open)
  /\ UNCHANGED <<submitVars, leaseVars, nextID, queue, batch, sending, timerVars,
                 probePc, queueDepth>>

\* With a readiness provider flush first samples WorkersReady ...
FlushSample ==
  /\ runPc = "circuit"
  /\ ReadinessProvider
  /\ runPc' \in {"ready", "unready"}
  /\ UNCHANGED <<submitVars, leaseVars, nextID, queue, circuitVars, currentWait,
                 batch, flushVars, timerVars, probePc, queueDepth>>

\* ... and then takes the lock.
FlushWrite ==
  /\ runPc \in {"ready", "unready"}
  /\ ReadinessWrite(runPc = "ready")
  /\ ActOnCircuit(runPc = "unready")
  /\ UNCHANGED <<submitVars, leaseVars, nextID, queue, batch, sending, timerVars,
                 probePc, queueDepth>>

\* ProcessBatch fails; WorkerRequestTimeout bounds the call.
WorkerFails(code) ==
  /\ runPc = "rpc"
  /\ failureCount' = failureCount + 1
  /\ currentWait' \in {Observe(currentWait, Len(active), Len(queue), slow, FALSE) :
                         slow \in BOOLEAN}
  /\ outbox' = Deliveries(active, [r \in Range(active) |-> errorResponse(code)])
  /\ active' = <<>>
  /\ runPc' = "deliver"
  /\ UNCHANGED <<submitVars, leaseVars, nextID, queue, circuitOpen, windowElapsed,
                 batch, sending, timerVars, probePc, queueDepth>>

\* The items of the worker's answer: the result computed from r's prompt is
\* labelled with r's identifier.
ResponseItems(answered) == {[id |-> id[r], result |-> r] : r \in answered}

\* responseMap, looked up with the identifier of request r.
LookupResponse(items, r) ==
  IF \E item \in items : item.id = id[r]
  THEN [code |-> "ok",
        result |-> (CHOOSE item \in items : item.id = id[r]).result]
  ELSE errorResponse("missing_response")

\* Seeded fault: a successful call resets the count but not the circuit.
RecordSuccess_countOnly ==
  /\ failureCount' = 0
  /\ UNCHANGED <<circuitOpen, windowElapsed>>

RecordSuccess ==
  /\ failureCount' = 0
  /\ circuitOpen' = FALSE
  /\ windowElapsed' = FALSE

\* ProcessBatch succeeds; the worker answered the given requests.
WorkerAnswers(answered) ==
  /\ runPc = "rpc"
  /\ answered \subseteq Range(active)
  /\ RecordSuccess
  /\ currentWait' \in {Observe(currentWait, Len(active), Len(queue), slow, TRUE) :
                         slow \in BOOLEAN}
  /\ outbox' = Deliveries(active, [r \in Range(active) |->
                                     LookupResponse(ResponseItems(answered), r)])
  /\ active' = <<>>
  /\ runPc' = "deliver"
  /\ UNCHANGED <<submitVars, leaseVars, nextID, queue, batch, sending, timerVars,
                 probePc, queueDepth>>

\* deliverResponse, first half: the lease of the next request is released.
Deliver ==
  /\ runPc = "deliver"
  /\ sending = NoAnswer
  /\ outbox # <<>>
  /\ Release(Head(outbox).req)
  /\ sending' = Head(outbox)
  /\ outbox' = Tail(outbox)
  /\ UNCHANGED <<submitVars, nextID, queue, circuitVars, currentWait, runPc, batch,
                 active, timerVars, probePc, queueDepth>>

\* deliverResponse, second half: a send that is dropped when the channel is
\* full.
SendResponse ==
  /\ sending # NoAnswer
  /\ respChan' = [respChan EXCEPT ![sending.req] =
                    IF @ = NoResponse THEN sending.resp ELSE @]
  /\ sending' = NoAnswer
  /\ UNCHANGED <<pc, cancelled, id, answer, leaseVars, nextID, queue, circuitVars,
                 currentWait, runPc, batch, active, outbox, timerVars, probePc,
                 queueDepth>>

\* flush returns to the select loop.
EndFlush ==
  /\ runPc = "deliver"
  /\ sending = NoAnswer
  /\ outbox = <<>>
  /\ runPc' = "select"
  /\ UNCHANGED <<submitVars, leaseVars, nextID, queue, circuitVars, currentWait,
                 batch, flushVars, timerVars, probePc, queueDepth>>

-----------------------------------------------------------------------------
Init ==
  /\ pc = [r \in Requests |-> "start"]
  /\ cancelled = [r \in Requests |-> FALSE]
  /\ id = [r \in Requests |-> 0]
  /\ respChan = [r \in Requests |-> NoResponse]
  /\ answer = [r \in Requests |-> NoResponse]
  /\ lease = [r \in Requests |-> "none"]
  /\ inFlightTokens = 0
  /\ nextID = 1
  /\ queue = <<>>
  /\ failureCount = 0 /\ circuitOpen = FALSE /\ windowElapsed = FALSE
  /\ currentWait = InitialWait
  /\ runPc = "select" /\ batch = <<>>
  /\ active = <<>> /\ outbox = <<>> /\ sending = NoAnswer
  /\ timer = "stopped" /\ timerWait = 0 /\ timerActive = FALSE
  /\ probePc = "idle"
  /\ queueDepth = 0

Submit(r) ==
  \/ Admit(r) \/ RejectAdmission(r)
  \/ CancelBeforeQueue(r) \/ Enqueue(r) \/ RejectQueueFull(r)
  \/ GaugeInc(r)
  \/ TakeResponse(r) \/ CancelWaiting(r)

\* What the goroutine of a request that has arrived goes on to do.
Proceed(r) == pc[r] # "start" /\ Submit(r)

Flush ==
  \/ Filter \/ EndFilter
  \/ FlushCircuit \/ FlushSample \/ FlushWrite
  \/ Deliver \/ SendResponse \/ EndFlush

WorkerCall ==
  \/ \E code \in WorkerErrorCodes : WorkerFails(code)
  \/ \E answered \in SUBSET Requests : WorkerAnswers(answered)

Run == Receive \/ GaugeDec \/ ArmTimer \/ Decide \/ TimerTick \/ Flush \/ WorkerCall

Probe == ProbeReady \/ ProbeWorkers \/ ProbeWrite

Next ==
  \/ \E r \in Requests : Submit(r) \/ Handoff(r) \/ ClientCancels(r)
  \/ Run
  \/ TimerFires
  \/ WindowElapses
  \/ Probe

Spec == Init /\ [][Next]_vars

\* Fairness.  Goroutines that can run are run; an armed timer fires; the RPC
\* carries a deadline, so ProcessBatch returns.  Clients need not arrive or
\* cancel, and nobody needs to probe.
Fairness ==
  /\ \A r \in Requests : WF_vars(Proceed(r))
  /\ WF_vars(Run)
  /\ WF_vars(TimerFires)

FairSpec == Spec /\ Fairness

-----------------------------------------------------------------------------
(* Type invariant.                                                         *)

TypeOK ==
  /\ pc \in [Requests -> {"start", "admitted", "sent", "waiting", "returned"}]
  /\ cancelled \in [Requests -> BOOLEAN]
  /\ id \in [Requests -> Nat]
  /\ respChan \in [Requests -> Response \cup {NoResponse}]
  /\ answer \in [Requests -> Response \cup {NoResponse}]
  /\ lease \in [Requests -> {"none", "held", "released"}]
  /\ inFlightTokens \in Nat
  /\ nextID \in Nat \ {0}
  /\ queue \in Seq(Requests)
  /\ failureCount \in Nat
  /\ circuitOpen \in BOOLEAN
  /\ windowElapsed \in BOOLEAN
  /\ currentWait \in Nat
  /\ runPc \in {"select", "received", "arm", "decide", "filter", "circuit", "ready",
                "unready", "rpc", "deliver"}
  /\ batch \in Seq(Requests)
  /\ active \in Seq(Requests)
  /\ outbox \in Seq(Delivery)
  /\ sending \in Delivery \cup {NoAnswer}
  /\ timer \in {"stopped", "running", "fired"}
  /\ timerWait \in Nat
  /\ timerActive \in BOOLEAN
  /\ probePc \in {"idle", "ready", "unready"}
  /\ queueDepth \in Int

-----------------------------------------------------------------------------
(* Admission.                                                              *)

\* The tokens of a set of requests, counted as units.
TokenUnits(S) == {u \in S \X (1..MaxTokens) : u[2] <= Tokens[u[1]]}
TokensOf(S) == Cardinality(TokenUnits(S))

Holders == {r \in Requests : lease[r] = "held"}

\* The admitted, unreleased requests never exceed the configured budget.
WithinBudget ==
  AdmissionEnabled /\ MaxInFlightTokens > 0 => TokensOf(Holders) <= MaxInFlightTokens

TokensExact ==
  inFlightTokens = IF AdmissionEnabled THEN TokensOf(Holders) ELSE 0

ReturnedReleased ==
  \A r \in Requests : pc[r] = "returned" => lease[r] # "held"

\* AdmissionController.inFlightTokens is exactly the tokens of the leases that
\* have not been released, however submit, flush and cancellation race to
\* release them; the clamp in release never hides a deficit.  And when submit
\* has returned, by whichever of its paths, its lease is released: a caller that
\* sees its answer is no longer charged for it.
LeaseAccounting == TokensExact /\ ReturnedReleased

-----------------------------------------------------------------------------
(* The pipeline.                                                           *)

Owed == {outbox[i].req : i \in DOMAIN outbox}
InHand == {sending.req} \ {NoRequest}
Pipeline == Range(queue) \cup Range(batch) \cup Range(active) \cup Owed \cup InHand

\* A queued request is in exactly one place -- the channel, the batch, the
\* active batch, the answers still to be delivered or its response channel --
\* until submit has returned, and only a cancelled request outlives its submit
\* call.  So no answer is lost and none is delivered twice.
OnePlace ==
  /\ IsInjective(queue) /\ IsInjective(batch) /\ IsInjective(active)
  /\ \A i, j \in DOMAIN outbox : outbox[i].req = outbox[j].req => i = j
  /\ Range(queue) \cap (Range(batch) \cup Range(active) \cup Owed \cup InHand) = {}
  /\ Range(batch) \cap (Range(active) \cup Owed \cup InHand) = {}
  /\ Range(active) \cap (Owed \cup InHand) = {}
  /\ Owed \cap InHand = {}
  /\ \A r \in Requests :
       /\ r \in Pipeline => pc[r] \in {"sent", "waiting", "returned"}
       /\ respChan[r] # NoResponse => /\ r \notin Pipeline
                                      /\ pc[r] \in {"sent", "waiting", "returned"}
       /\ pc[r] \in {"sent", "waiting"} => r \in Pipeline \/ respChan[r] # NoResponse
       /\ pc[r] = "returned" /\ (r \in Pipeline \/ respChan[r] # NoResponse)
            => cancelled[r]

\* Why: flush empties each list before the next is filled, so nothing is
\* overwritten.  The inductive invariant behind OnePlace.
PlaceInvariant ==
  /\ OnePlace
  /\ runPc \notin {"filter", "circuit", "ready", "unready", "rpc"} => active = <<>>
  /\ runPc # "deliver" => outbox = <<>>
  /\ sending # NoAnswer => runPc \in {"filter", "deliver"}

\* Why the accounting is exact: a lease is taken once, before the request is
\* queued, and it is released before the answer is sent and before submit
\* returns.  The inductive invariant behind LeaseAccounting and
\* WithinBudget.
Queued(r) == r \in Pipeline \/ respChan[r] # NoResponse
LeaseInvariant ==
  /\ TokensExact
  /\ WithinBudget
  /\ ReturnedReleased
  /\ \A r \in Requests :
       /\ pc[r] = "start" => lease[r] = "none"
       /\ Queued(r) => pc[r] \notin {"start", "admitted"}
       /\ r \in InHand \/ respChan[r] # NoResponse => lease[r] # "held"

\* A request whose submit call has already returned is never put into the
\* batch that flush sends to a worker.
AbandonedNotSent ==
  [][\A r \in Requests :
       r \in Range(active') /\ r \notin Range(active) => pc[r] # "returned"]_vars

\* run waits in its select with requests in hand only while a timer is
\* pending for them, and no timer is pending for an empty batch.
TimerGuardsBatch ==
  /\ timerActive <=> timer # "stopped"
  /\ runPc = "select" => (timerActive <=> batch # <<>>)

\* Why: the timer is armed between the receive that starts a batch and the
\* decision about it, it is off during a flush, and flush leaves no request
\* behind.  The inductive invariant behind TimerGuardsBatch.
TimerInvariant ==
  /\ TimerGuardsBatch
  /\ runPc \in {"received", "arm", "decide"} => batch # <<>>
  /\ runPc = "received" => timerActive \/ Len(batch) = 1
  /\ runPc = "decide" => timerActive
  /\ runPc \notin {"select", "received", "decide"} => ~timerActive
  /\ runPc \notin {"select", "received", "arm", "decide", "filter"} => batch = <<>>

\* The flush timer is armed within the policy's bounds.
WaitBounded ==
  Adaptive => /\ currentWait \in MinWait..MaxWait
              /\ timerActive => timerWait \in MinWait..MaxWait

-----------------------------------------------------------------------------
(* The aggregate circuit breaker.                                          *)

\* The circuit is never open with fewer than Threshold recorded failures,
\* although flush, recordFailure, recordSuccess and readiness probes write the
\* two fields from different goroutines.
OpenCircuitHasFailures == circuitOpen => failureCount >= Threshold

\* Without a readiness provider a worker is called only through a closed
\* circuit and below the threshold, and probes do not change that meanwhile.
CallsThroughClosedCircuit ==
  ~ReadinessProvider /\ runPc = "rpc" => ~circuitOpen /\ failureCount < Threshold

\* The inductive invariant behind the two.
CircuitInvariant ==
  /\ OpenCircuitHasFailures
  /\ CallsThroughClosedCircuit
  /\ ~ReadinessProvider => probePc = "idle" /\ runPc \notin {"ready", "unready"}

-----------------------------------------------------------------------------
(* Metrics.                                                                *)

\* The request that run has received and not yet taken off the gauge.
Undiscounted == IF runPc = "received" THEN 1 ELSE 0

\* The queue-depth gauge is the length of the channel but for what is under way:
\* the senders whose submit call has not reached its increment, and a receive
\* whose decrement is still to come.  The two may overlap for one request, in
\* either order, and the gauge be negative for a while; it never drifts.
GaugeTracksQueue ==
  queueDepth = Len(queue) - Cardinality({r \in Requests : pc[r] = "sent"}) + Undiscounted

-----------------------------------------------------------------------------
(* Liveness.                                                               *)

\* Every submitted request is answered, whatever the worker, the circuit and
\* the other clients do, and the pipeline drains.
EveryRequestAnswered ==
  \A r \in Requests : pc[r] = "admitted" ~> pc[r] = "returned" /\ r \notin Pipeline

-----------------------------------------------------------------------------
(* Refinement.  Everything between the admission of a request and the      *)
(* return of its submit call is one phase of the service.                  *)

Phase == [r \in Requests |-> CASE pc[r] = "start" -> "new"
                               [] pc[r] = "returned" -> "done"
                               [] OTHER -> "pending"]

\* The sets of requests that the token budget can carry at once.
WithinLimit ==
  {S \in SUBSET Requests :
     AdmissionEnabled /\ MaxInFlightTokens > 0 => TokensOf(S) <= MaxInFlightTokens}

\* The answers to an admitted request.
OwnResult(r) == [code |-> "ok", result |-> r]
Failures == {errorResponse(code) :
               code \in ErrorCodes \ {"admission_rejected", "request_cancelled"}}

Service == INSTANCE RequestService WITH
  Affordable <- WithinLimit,
  Refused <- errorResponse("admission_rejected"),
  Cancelled <- errorResponse("request_cancelled"),
  Failed <- Failures,
  OwnResult <- OwnResult,
  phase <- Phase,
  charged <- Holders

\* Identifiers tell the requests apart, so responseMap gives each its own result.
IdInvariant ==
  \A r, s \in Requests :
    /\ pc[r] # "start" => id[r] < nextID
    /\ pc[r] # "start" /\ pc[s] # "start" /\ id[r] = id[s] => r = s

\* What may be said to the caller of request r after its admission.
Justified(r, resp) ==
  \/ resp = OwnResult(r)
  \/ resp \in Failures
  \/ cancelled[r] /\ resp = errorResponse("request_cancelled")

\* Every response on its way is justified.
ResponseInvariant ==
  /\ \A i \in DOMAIN outbox : Justified(outbox[i].req, outbox[i].resp)
  /\ sending # NoAnswer => Justified(sending.req, sending.resp)
  /\ \A r \in Requests : respChan[r] # NoResponse => Justified(r, respChan[r])

\* Batcher.submit keeps the promises of RequestService to its callers: however
\* cancellation, flushes, the worker and the circuit interleave, a request is
\* admitted or refused by the budget alone, answered once and with its own
\* result or a justified error, and no longer charged when it is answered.
ImplementsService == Service!Spec

=============================================================================
