----------------------------- MODULE WorkerPool ------------------------------
(***************************************************************************)
(* The worker pool of the gateway (gateway/worker_pool.go) and its         *)
(* streaming caller handlePredictStream (gateway/main.go).  A call selects *)
(* the least loaded endpoint whose circuit is closed, begins on it, calls  *)
(* the worker and finishes.  Every endpoint has its own mutex; selection,  *)
(* begin and finish take it separately, so concurrent calls interleave     *)
(* between them; the time that selection and finish work with was read     *)
(* before they take it, so it may be old by then.  Endpoints are numbered  *)
(* as in the pool; time is a counter, and 0 is the zero time.Time.         *)
(***************************************************************************)
EXTENDS Integers, FiniteSets

CONSTANTS
  Calls,          \* the calls made to the pool, each at most once
  BatchCalls,     \* those that are ProcessBatch; the others are Stream
  Workers,        \* number of endpoints
  Streaming,      \* the endpoints whose client supports streaming
  Threshold,      \* cfg.CircuitBreakerThreshold
  ResetAfter,     \* cfg.CircuitBreakerResetAfter
  MaxClock        \* bound on the clock

Endpoints == 1..Workers

ASSUME PoolAssumption ==
  /\ IsFiniteSet(Calls) /\ BatchCalls \subseteq Calls
  /\ Workers \in Nat \ {0}
  /\ Streaming \subseteq Endpoints
  /\ Threshold \in Nat \ {0}
  /\ ResetAfter \in Nat \ {0}
  /\ MaxClock \in Nat

VARIABLES
  \* --- the calling goroutines
  pc,                   \* control point of each call
  sampled,              \* the time.Now() selectEndpoint or finish is called with
  scanPos,              \* the endpoint selectEndpoint looks at next
  selected,             \* the best selection state so far, or NoState
  \* --- workerEndpoint
  inFlight,
  totalBatches,
  consecutiveFailures,
  circuitOpenUntil,     \* 0: the circuit is closed
  \* --- environment
  clock,
  trip                  \* history: the latest time a trip has opened each circuit to

callVars == <<pc, sampled, scanPos, selected>>
endpointVars == <<inFlight, totalBatches, consecutiveFailures, circuitOpenUntil>>
vars == <<callVars, endpointVars, clock, trip>>

NoState == [endpoint |-> 0, inFlight |-> 0, totalBatches |-> 0]

-----------------------------------------------------------------------------
(* selectEndpoint.                                                         *)

StartSelect(c) ==
  /\ pc[c] = "idle"
  /\ pc' = [pc EXCEPT ![c] = "select"]
  /\ sampled' = [sampled EXCEPT ![c] = clock]
  /\ scanPos' = [scanPos EXCEPT ![c] = 1]
  /\ UNCHANGED <<selected, endpointVars, clock, trip>>

Expired(e, now) == circuitOpenUntil[e] # 0 /\ now >= circuitOpenUntil[e]
OpenAt(e, now) == circuitOpenUntil[e] # 0 /\ now < circuitOpenUntil[e]

\* Seeded fault: an expired circuit is closed but its failures stay counted.
RefreshCircuit_keepCount(e, now) ==
  /\ circuitOpenUntil' = [circuitOpenUntil EXCEPT ![e] = IF Expired(e, now) THEN 0 ELSE @]
  /\ UNCHANGED consecutiveFailures

\* refreshCircuitLocked: an expired circuit is closed and its failures forgotten.
RefreshCircuit(e, now) ==
  /\ circuitOpenUntil' = [circuitOpenUntil EXCEPT ![e] = IF Expired(e, now) THEN 0 ELSE @]
  /\ consecutiveFailures' = [consecutiveFailures EXCEPT ![e] =
                               IF Expired(e, now) THEN 0 ELSE @]

\* Fewer calls in flight, then fewer calls so far, then the lower index.
LessLoaded(a, b) ==
  \/ a.inFlight < b.inFlight
  \/ a.inFlight = b.inFlight /\ a.totalBatches < b.totalBatches
  \/ /\ a.inFlight = b.inFlight /\ a.totalBatches = b.totalBatches
     /\ a.endpoint < b.endpoint

\* Seeded fault: a circuit counts as open until somebody clears it.
ScanEndpoint_stale(c) ==
  /\ pc[c] = "select"
  /\ scanPos[c] \in Endpoints
  /\ LET e == scanPos[c]
         state == [endpoint |-> e, inFlight |-> inFlight[e],
                   totalBatches |-> totalBatches[e]]
     IN selected' = [selected EXCEPT ![c] =
             IF circuitOpenUntil[e] = 0 /\ (@ = NoState \/ LessLoaded(state, @))
             THEN state ELSE @]
  /\ scanPos' = [scanPos EXCEPT ![c] = @ + 1]
  /\ UNCHANGED <<pc, sampled, endpointVars, clock, trip>>

\* One iteration of the selection loop; each endpoint is sampled under its
\* own lock.
ScanEndpoint(c) ==
  /\ pc[c] = "select"
  /\ scanPos[c] \in Endpoints
  /\ LET e == scanPos[c]
         state == [endpoint |-> e, inFlight |-> inFlight[e],
                   totalBatches |-> totalBatches[e]]
     IN /\ RefreshCircuit(e, sampled[c])
        /\ selected' = [selected EXCEPT ![c] =
             IF ~OpenAt(e, sampled[c]) /\ (@ = NoState \/ LessLoaded(state, @))
             THEN state ELSE @]
  /\ scanPos' = [scanPos EXCEPT ![c] = @ + 1]
  /\ UNCHANGED <<pc, sampled, inFlight, totalBatches, clock, trip>>

\* A call without a usable endpoint returns an error at once: every circuit
\* was open, or a stream was routed to a client that cannot stream.
NoEndpoint(c) ==
  /\ pc[c] = "select"
  /\ scanPos[c] > Workers
  /\ \/ selected[c] = NoState
     \/ c \notin BatchCalls /\ selected[c].endpoint \notin Streaming
  /\ pc' = [pc EXCEPT ![c] = "returned"]
  /\ selected' = [selected EXCEPT ![c] = NoState]
  /\ UNCHANGED <<sampled, scanPos, endpointVars, clock, trip>>

-----------------------------------------------------------------------------
(* begin, the worker call, and finish.                                     *)

\* begin, inside the lock.
Begin(c) ==
  LET e == selected[c].endpoint IN
  /\ pc[c] = "select"
  /\ scanPos[c] > Workers
  /\ selected[c] # NoState
  /\ c \in BatchCalls \/ e \in Streaming
  /\ inFlight' = [inFlight EXCEPT ![e] = @ + 1]
  /\ totalBatches' = [totalBatches EXCEPT ![e] = @ + 1]
  /\ pc' = [pc EXCEPT ![c] = "calling"]
  /\ UNCHANGED <<sampled, scanPos, selected, consecutiveFailures, circuitOpenUntil,
                 clock, trip>>

\* What finish does to the failure counter and the circuit of endpoint e.
CountOutcome(e, failed, now) ==
  LET count == consecutiveFailures[e] + 1
      opens == failed /\ count >= Threshold
      until == now + ResetAfter
  IN /\ consecutiveFailures' = [consecutiveFailures EXCEPT ![e] =
                                  IF failed THEN count ELSE 0]
     /\ circuitOpenUntil' = [circuitOpenUntil EXCEPT ![e] =
          IF opens THEN until ELSE IF failed THEN @ ELSE 0]
     /\ trip' = [trip EXCEPT ![e] = IF opens /\ until > @ THEN until ELSE @]

\* The worker call ends and the goroutine reads the clock for finish.
Ends(c, failed) ==
  /\ pc' = [pc EXCEPT ![c] = IF failed THEN "failed" ELSE "succeeded"]
  /\ sampled' = [sampled EXCEPT ![c] = clock]
  /\ UNCHANGED <<scanPos, selected, endpointVars, clock, trip>>

\* ProcessBatch returns, or Stream fails to open.
CallReturns(c, failed) ==
  /\ pc[c] = "calling"
  /\ c \in BatchCalls \/ failed
  /\ Ends(c, failed)

\* Recv reports the end of the stream, or an error (a cancelled or expired
\* request context included); pooledInferenceStream then finishes.
StreamEnds(c, failed) ==
  /\ pc[c] = "streaming"
  /\ Ends(c, failed)

\* Seeded fault: a failed call is not taken off the in-flight count.
Finish_leak(c) ==
  LET e == selected[c].endpoint
      left == IF inFlight[e] > 0 /\ pc[c] = "succeeded" THEN inFlight[e] - 1 ELSE inFlight[e]
  IN /\ pc[c] \in {"succeeded", "failed"}
     /\ inFlight' = [inFlight EXCEPT ![e] = left]
     /\ CountOutcome(e, pc[c] = "failed", sampled[c])
     /\ pc' = [pc EXCEPT ![c] = "returned"]
     /\ selected' = [selected EXCEPT ![c] = NoState]
     /\ UNCHANGED <<sampled, scanPos, totalBatches, clock>>

\* finish, inside the lock.  Whoever gets the lock later may have read the clock
\* earlier.
Finish(c) ==
  LET e == selected[c].endpoint
      left == IF inFlight[e] > 0 THEN inFlight[e] - 1 ELSE inFlight[e]
  IN /\ pc[c] \in {"succeeded", "failed"}
     /\ inFlight' = [inFlight EXCEPT ![e] = left]
     /\ CountOutcome(e, pc[c] = "failed", sampled[c])
     /\ pc' = [pc EXCEPT ![c] = "returned"]
     /\ selected' = [selected EXCEPT ![c] = NoState]
     /\ UNCHANGED <<sampled, scanPos, totalBatches, clock>>

\* Stream hands an open stream to handlePredictStream.
StreamOpens(c) ==
  /\ pc[c] = "calling"
  /\ c \notin BatchCalls
  /\ pc' = [pc EXCEPT ![c] = "streaming"]
  /\ UNCHANGED <<sampled, scanPos, selected, endpointVars, clock, trip>>

\* handlePredictStream cannot write to its client, or the response writer
\* cannot flush: it returns without another Recv, and nothing finishes.
StreamAbandoned(c) ==
  /\ pc[c] = "streaming"
  /\ pc' = [pc EXCEPT ![c] = "abandoned"]
  /\ UNCHANGED <<sampled, scanPos, selected, endpointVars, clock, trip>>

\* WorkersReady and WorkerSnapshots look at an endpoint, which closes its
\* circuit if it had expired when they read the clock.
ObserveEndpoint(e) ==
  /\ \E now \in 1..clock : RefreshCircuit(e, now)
  /\ UNCHANGED <<callVars, inFlight, totalBatches, clock,
                 trip>>

Tick ==
  /\ clock < MaxClock
  /\ clock' = clock + 1
  /\ UNCHANGED <<callVars, endpointVars, trip>>

-----------------------------------------------------------------------------
Init ==
  /\ pc = [c \in Calls |-> "idle"]
  /\ sampled = [c \in Calls |-> 0]
  /\ scanPos = [c \in Calls |-> 0]
  /\ selected = [c \in Calls |-> NoState]
  /\ inFlight = [e \in Endpoints |-> 0]
  /\ totalBatches = [e \in Endpoints |-> 0]
  /\ consecutiveFailures = [e \in Endpoints |-> 0]
  /\ circuitOpenUntil = [e \in Endpoints |-> 0]
  /\ clock = 1
  /\ trip = [e \in Endpoints |-> 0]

\* The steps of a call that its goroutine, or the worker's answer, takes.
Step(c) ==
  \/ ScanEndpoint(c) \/ NoEndpoint(c)
  \/ Begin(c)
  \/ \E failed \in BOOLEAN : CallReturns(c, failed) \/ StreamEnds(c, failed)
  \/ Finish(c)
  \/ StreamOpens(c) \/ StreamAbandoned(c)

Next ==
  \/ \E c \in Calls : StartSelect(c) \/ Step(c)
  \/ \E e \in Endpoints : ObserveEndpoint(e)
  \/ Tick

Spec == Init /\ [][Next]_vars

-----------------------------------------------------------------------------
TypeOK ==
  /\ pc \in [Calls -> {"idle", "select", "calling", "streaming", "succeeded", "failed",
                       "abandoned", "returned"}]
  /\ sampled \in [Calls -> Nat]
  /\ scanPos \in [Calls -> 0..(Workers + 1)]
  /\ selected \in [Calls -> [endpoint : Endpoints, inFlight : Nat, totalBatches : Nat]
                              \cup {NoState}]
  /\ inFlight \in [Endpoints -> Nat]
  /\ totalBatches \in [Endpoints -> Nat]
  /\ consecutiveFailures \in [Endpoints -> Nat]
  /\ circuitOpenUntil \in [Endpoints -> Nat]
  /\ clock \in Nat \ {0}
  /\ trip \in [Endpoints -> Nat]

-----------------------------------------------------------------------------
(* Accounting and circuits.                                                *)

\* Control points of a call between begin and the end of finish.
BegunPc == {"calling", "streaming", "succeeded", "failed", "abandoned"}

\* The calls that have begun on endpoint e and not finished, the streams that
\* handlePredictStream gave up on included.
Begun(e) == {c \in Calls : /\ pc[c] \in BegunPc
                           /\ selected[c].endpoint = e}

\* inFlight counts exactly the begun calls that have not finished: begin and
\* finish pair up over every path, and the guard in finish never hides a
\* second finish.
InFlightAccounting == \A e \in Endpoints : inFlight[e] = Cardinality(Begun(e))

\* A circuit is set exactly while the failure counter stands at the threshold,
\* whatever calls finish in whatever order and whoever refreshes it.
CircuitSetAtThreshold ==
  \A e \in Endpoints :
    circuitOpenUntil[e] # 0 <=> consecutiveFailures[e] >= Threshold

\* A call is turned away only if every endpoint it looked at had been tripped by
\* then, and to a time that the call came before; finishes that read the clock in
\* one order and get the lock in the other move the time back, never beyond that.
TurnedAwayOnlyIfTripped ==
  \A c \in Calls, e \in Endpoints :
    pc[c] = "select" /\ selected[c] = NoState /\ e < scanPos[c]
      => sampled[c] < trip[e]

\* What makes the last two inductive: a begun call has an endpoint, and no
\* circuit is open for longer than the latest trip said.
CallInvariant ==
  \A c \in Calls : pc[c] \in BegunPc => selected[c].endpoint \in Endpoints
TripInvariant == \A e \in Endpoints : circuitOpenUntil[e] <= trip[e]

-----------------------------------------------------------------------------
(* Statements of the documentation.                                        *)

AllReturned == \A c \in Calls : pc[c] \in {"idle", "returned", "abandoned"}

\* With no call being served, no endpoint counts one in flight.
NoneInFlightWhenIdle == AllReturned => \A e \in Endpoints : inFlight[e] = 0

=============================================================================
