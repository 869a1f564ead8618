-------------------------- MODULE WorkerPoolProofs ---------------------------
(***************************************************************************)
(* Theorems about WorkerPool, for every set of calls, every number of      *)
(* endpoints and every configuration of the circuit breaker.               *)
(***************************************************************************)
EXTENDS WorkerPool, FiniteSetTheorems, TLAPS

-----------------------------------------------------------------------------
(* Type correctness.                                                       *)

State == [endpoint : Endpoints, inFlight : Nat, totalBatches : Nat]

\* What finish does to an endpoint keeps the types.
LEMMA FinishType ==
  ASSUME TypeOK, CallInvariant, NEW c \in Calls, Finish(c)
  PROVE  TypeOK'
<1> DEFINE e == selected[c].endpoint
<1>1. e \in Endpoints
  BY DEF CallInvariant, BegunPc, Finish
<1>2. inFlight' \in [Endpoints -> Nat]
  BY <1>1 DEF TypeOK, Finish
<1>3. /\ consecutiveFailures' \in [Endpoints -> Nat]
      /\ circuitOpenUntil' \in [Endpoints -> Nat]
      /\ trip' \in [Endpoints -> Nat]
  BY <1>1, PoolAssumption DEF TypeOK, Finish, CountOutcome
<1> QED
  BY <1>2, <1>3 DEF TypeOK, Finish, NoState

\* The scan starts at the first endpoint and ends behind the last.
LEMMA Positions ==
  /\ {0, 1} \subseteq 0..(Workers + 1)
  /\ \A e \in Endpoints : e + 1 \in 0..(Workers + 1)
<1>1. Workers \in Nat \ {0}
  BY PoolAssumption
<1> QED
  BY <1>1 DEF Endpoints

\* Every step keeps the types.
LEMMA TypeStep ==
  ASSUME TypeOK, CallInvariant, [Next]_vars
  PROVE  TypeOK'
<1> USE PoolAssumption DEF TypeOK
<1>1. ASSUME NEW c \in Calls, StartSelect(c) PROVE TypeOK'
  <2>1. 1 \in 0..(Workers + 1)
    BY Positions, Zenon
  <2>2. scanPos' \in [Calls -> 0..(Workers + 1)]
    BY <1>1, <2>1, Zenon DEF StartSelect
  <2> QED
    BY <1>1, <2>2 DEF StartSelect, endpointVars
<1>2. ASSUME NEW c \in Calls, ScanEndpoint(c) PROVE TypeOK'
  <2>1. scanPos[c] \in Endpoints
    BY <1>2 DEF ScanEndpoint
  <2>2. /\ circuitOpenUntil' \in [Endpoints -> Nat]
        /\ consecutiveFailures' \in [Endpoints -> Nat]
    BY <1>2 DEF ScanEndpoint, RefreshCircuit
  <2>3. selected' \in [Calls -> State \cup {NoState}]
    BY <1>2, <2>1 DEF ScanEndpoint, State
  <2>4. scanPos[c] + 1 \in 0..(Workers + 1)
    BY <2>1, Positions, Zenon
  <2>5. scanPos' \in [Calls -> 0..(Workers + 1)]
    BY <1>2, <2>4, Zenon DEF ScanEndpoint
  <2> QED
    BY <1>2, <2>2, <2>3, <2>5 DEF ScanEndpoint, State
<1>3. ASSUME NEW c \in Calls, NoEndpoint(c) PROVE TypeOK'
  BY <1>3 DEF NoEndpoint, endpointVars
<1>4. ASSUME NEW c \in Calls, Begin(c) PROVE TypeOK'
  BY <1>4 DEF Begin
<1>5. ASSUME NEW c \in Calls, NEW failed \in BOOLEAN, CallReturns(c, failed) PROVE TypeOK'
  BY <1>5 DEF CallReturns, Ends, endpointVars
<1>6. ASSUME NEW c \in Calls, NEW failed \in BOOLEAN, StreamEnds(c, failed) PROVE TypeOK'
  BY <1>6 DEF StreamEnds, Ends, endpointVars
<1>7. ASSUME NEW c \in Calls, StreamOpens(c) PROVE TypeOK'
  BY <1>7 DEF StreamOpens, endpointVars
<1>8. ASSUME NEW c \in Calls, StreamAbandoned(c) PROVE TypeOK'
  BY <1>8 DEF StreamAbandoned, endpointVars
<1>9. ASSUME NEW e \in Endpoints, ObserveEndpoint(e) PROVE TypeOK'
  BY <1>9 DEF ObserveEndpoint, RefreshCircuit, callVars
<1>10. CASE Tick
  BY <1>10 DEF Tick, callVars, endpointVars
<1>11. CASE UNCHANGED vars
  BY <1>11 DEF vars, callVars, endpointVars
<1>12. ASSUME NEW c \in Calls, Finish(c) PROVE TypeOK'
  BY <1>12, FinishType
<1> QED
  BY <1>1, <1>2, <1>3, <1>4, <1>5, <1>6, <1>7, <1>8, <1>9, <1>10, <1>11, <1>12
  DEF Next, Step

-----------------------------------------------------------------------------
(* Every step is a step of one call, a look at one endpoint, or a tick.     *)

\* A call that has begun and not finished keeps its endpoint.
LEMMA CallStep ==
  ASSUME TypeOK, CallInvariant, [Next]_vars
  PROVE  CallInvariant'
<1> USE PoolAssumption DEF TypeOK, CallInvariant, BegunPc
<1>1. ASSUME NEW c \in Calls, StartSelect(c) PROVE CallInvariant'
  BY <1>1 DEF StartSelect
<1>2. ASSUME NEW c \in Calls, ScanEndpoint(c) PROVE CallInvariant'
  BY <1>2 DEF ScanEndpoint
<1>3. ASSUME NEW c \in Calls, NoEndpoint(c) PROVE CallInvariant'
  BY <1>3 DEF NoEndpoint
<1>4. ASSUME NEW c \in Calls, Begin(c) PROVE CallInvariant'
  <2>1. selected[c].endpoint \in Endpoints
    BY <1>4 DEF Begin
  <2> QED
    BY <1>4, <2>1 DEF Begin
<1>5. ASSUME NEW c \in Calls, Finish(c) PROVE CallInvariant'
  BY <1>5 DEF Finish
<1>6. ASSUME NEW c \in Calls, StreamOpens(c) \/ StreamAbandoned(c) PROVE CallInvariant'
  BY <1>6 DEF StreamOpens, StreamAbandoned
<1>7. ASSUME NEW e \in Endpoints, ObserveEndpoint(e) PROVE CallInvariant'
  BY <1>7 DEF ObserveEndpoint, callVars
<1>8. CASE Tick
  BY <1>8 DEF Tick, callVars
<1>9. CASE UNCHANGED vars
  BY <1>9 DEF vars, callVars
<1>10. ASSUME NEW c \in Calls, NEW failed \in BOOLEAN,
              CallReturns(c, failed) \/ StreamEnds(c, failed)
       PROVE  CallInvariant'
  BY <1>10 DEF CallReturns, StreamEnds, Ends
<1> QED
  BY <1>1, <1>2, <1>3, <1>4, <1>5, <1>6, <1>7, <1>8, <1>9, <1>10 DEF Next, Step

-----------------------------------------------------------------------------
(* The circuits.                                                           *)

\* Closing an expired circuit keeps it in step with its counter and its trip.
LEMMA RefreshKeeps ==
  ASSUME TypeOK, CircuitSetAtThreshold, TripInvariant,
         NEW e \in Endpoints, NEW now \in Nat, RefreshCircuit(e, now),
         UNCHANGED <<clock, trip>>
  PROVE  CircuitSetAtThreshold' /\ TripInvariant'
<1> USE PoolAssumption
<1>1. \A f \in Endpoints :
        /\ circuitOpenUntil'[f] = IF f = e /\ Expired(e, now) THEN 0 ELSE circuitOpenUntil[f]
        /\ consecutiveFailures'[f] =
             IF f = e /\ Expired(e, now) THEN 0 ELSE consecutiveFailures[f]
  BY DEF RefreshCircuit, TypeOK
<1>2. CircuitSetAtThreshold'
  BY <1>1 DEF CircuitSetAtThreshold, TypeOK
<1>3. TripInvariant'
  BY <1>1 DEF TripInvariant, TypeOK
<1> QED
  BY <1>2, <1>3

\* So does the end of a call, and the latest trip never moves back, although the
\* circuit may.
LEMMA FinishKeeps ==
  ASSUME TypeOK, CircuitSetAtThreshold, TripInvariant,
         NEW e \in Endpoints, NEW failed \in BOOLEAN, NEW now \in Nat,
         CountOutcome(e, failed, now)
  PROVE  /\ CircuitSetAtThreshold' /\ TripInvariant'
         /\ \A f \in Endpoints : trip[f] <= trip'[f]
<1> USE PoolAssumption
<1> DEFINE count == consecutiveFailures[e] + 1
           until == now + ResetAfter
<1>1. CASE failed /\ count >= Threshold
  <2>1. \A f \in Endpoints :
          /\ circuitOpenUntil'[f] = IF f = e THEN until ELSE circuitOpenUntil[f]
          /\ trip'[f] = IF f = e /\ until > trip[f] THEN until ELSE trip[f]
          /\ consecutiveFailures'[f] = IF f = e THEN count ELSE consecutiveFailures[f]
    BY <1>1 DEF CountOutcome, TypeOK
  <2> QED
    BY <1>1, <2>1 DEF CircuitSetAtThreshold, TripInvariant, TypeOK
<1>2. CASE failed /\ ~(count >= Threshold)
  <2>1. \A f \in Endpoints :
          /\ circuitOpenUntil'[f] = circuitOpenUntil[f]
          /\ trip'[f] = trip[f]
          /\ consecutiveFailures'[f] = IF f = e THEN count ELSE consecutiveFailures[f]
    BY <1>2 DEF CountOutcome, TypeOK
  <2> QED
    BY <1>2, <2>1 DEF CircuitSetAtThreshold, TripInvariant, TypeOK
<1>3. CASE ~failed
  <2>1. \A f \in Endpoints :
          /\ circuitOpenUntil'[f] = IF f = e THEN 0 ELSE circuitOpenUntil[f]
          /\ trip'[f] = trip[f]
          /\ consecutiveFailures'[f] = IF f = e THEN 0 ELSE consecutiveFailures[f]
    BY <1>3 DEF CountOutcome, TypeOK
  <2> QED
    BY <1>3, <2>1 DEF CircuitSetAtThreshold, TripInvariant, TypeOK
<1> QED
  BY <1>1, <1>2, <1>3

\* finish counts the outcome of the call on its endpoint, with the sample.
LEMMA FinishEnds ==
  ASSUME TypeOK, CallInvariant, NEW c \in Calls, Finish(c)
  PROVE  /\ selected[c].endpoint \in Endpoints /\ (pc[c] = "failed") \in BOOLEAN
         /\ sampled[c] \in Nat
         /\ CountOutcome(selected[c].endpoint, pc[c] = "failed", sampled[c])
BY DEF Finish, CallInvariant, BegunPc, TypeOK

\* Every step keeps the circuits in step with their counters and trips.
LEMMA CircuitStep ==
  ASSUME TypeOK, CallInvariant, CircuitSetAtThreshold, TripInvariant, [Next]_vars
  PROVE  CircuitSetAtThreshold' /\ TripInvariant'
<1>1. ASSUME NEW c \in Calls, ScanEndpoint(c)
      PROVE  CircuitSetAtThreshold' /\ TripInvariant'
  BY <1>1, RefreshKeeps DEF ScanEndpoint, TypeOK
<1>2. ASSUME NEW c \in Calls, Finish(c)
      PROVE  CircuitSetAtThreshold' /\ TripInvariant'
  BY <1>2, FinishEnds, FinishKeeps
<1>3. ASSUME NEW e \in Endpoints, ObserveEndpoint(e)
      PROVE  CircuitSetAtThreshold' /\ TripInvariant'
  <2>1. PICK now \in 1..clock : RefreshCircuit(e, now)
    BY <1>3 DEF ObserveEndpoint
  <2>2. now \in Nat /\ UNCHANGED <<clock, trip>>
    BY <1>3 DEF ObserveEndpoint, TypeOK
  <2> QED
    BY <2>1, <2>2, RefreshKeeps
<1>4. CASE Tick
  BY <1>4, PoolAssumption
  DEF Tick, endpointVars, CircuitSetAtThreshold, TripInvariant, TypeOK
<1>5. ASSUME UNCHANGED <<endpointVars, clock, trip>>
      PROVE  CircuitSetAtThreshold' /\ TripInvariant'
  BY <1>5 DEF endpointVars, CircuitSetAtThreshold, TripInvariant
<1>6. ASSUME NEW c \in Calls, Begin(c)
      PROVE  CircuitSetAtThreshold' /\ TripInvariant'
  BY <1>6 DEF Begin, CircuitSetAtThreshold, TripInvariant
<1> QED
  BY <1>1, <1>2, <1>3, <1>4, <1>5, <1>6
  DEF Next, Step, vars, StartSelect, NoEndpoint, StreamOpens, StreamAbandoned,
      CallReturns, StreamEnds, Ends

-----------------------------------------------------------------------------
(* Who is turned away.                                                     *)

\* A scan that has found nothing has met only endpoints whose latest trip
\* covers its time.
LEMMA TurnedAwayStep ==
  ASSUME TypeOK, CallInvariant, CircuitSetAtThreshold, TripInvariant,
         TurnedAwayOnlyIfTripped, [Next]_vars
  PROVE  TurnedAwayOnlyIfTripped'
<1> USE PoolAssumption
<1>1. ASSUME NEW c \in Calls, StartSelect(c) PROVE TurnedAwayOnlyIfTripped'
  BY <1>1 DEF StartSelect, TurnedAwayOnlyIfTripped, TypeOK, Endpoints
<1>2. ASSUME NEW c \in Calls, ScanEndpoint(c) PROVE TurnedAwayOnlyIfTripped'
  <2> DEFINE e == scanPos[c]
             state == [endpoint |-> e, inFlight |-> inFlight[e],
                       totalBatches |-> totalBatches[e]]
  <2>1. e \in Endpoints /\ e \in Nat \ {0}
    BY <1>2 DEF ScanEndpoint, Endpoints
  <2>2. state # NoState
    BY <2>1 DEF NoState
  <2>3. ASSUME selected'[c] = NoState PROVE selected[c] = NoState /\ sampled[c] < trip[e]
    <3>1. selected'[c] = IF ~OpenAt(e, sampled[c]) /\ (selected[c] = NoState
                                                        \/ LessLoaded(state, selected[c]))
                         THEN state ELSE selected[c]
      BY <1>2 DEF ScanEndpoint, TypeOK
    <3>2. selected[c] = NoState /\ OpenAt(e, sampled[c])
      BY <2>2, <2>3, <3>1
    <3> QED
      BY <3>2, <2>1 DEF OpenAt, TripInvariant, TypeOK
  <2>4. ASSUME NEW d \in Calls, NEW f \in Endpoints,
               pc'[d] = "select", selected'[d] = NoState, f < scanPos'[d]
        PROVE  sampled'[d] < trip'[f]
    <3>1. CASE d # c
      BY <1>2, <2>4, <3>1 DEF ScanEndpoint, TurnedAwayOnlyIfTripped, TypeOK
    <3>2. CASE d = c
      <4>1. scanPos'[c] = e + 1 /\ sampled' = sampled /\ trip' = trip /\ pc' = pc
        BY <1>2 DEF ScanEndpoint, TypeOK
      <4>2. f = e \/ f < e
        BY <2>1, <2>4, <3>2, <4>1 DEF Endpoints
      <4> QED
        BY <2>3, <2>4, <3>2, <4>1, <4>2 DEF TurnedAwayOnlyIfTripped
    <3> QED
      BY <3>1, <3>2
  <2> QED
    BY <2>4 DEF TurnedAwayOnlyIfTripped
<1>3. ASSUME NEW c \in Calls, NoEndpoint(c) PROVE TurnedAwayOnlyIfTripped'
  BY <1>3 DEF NoEndpoint, TurnedAwayOnlyIfTripped, TypeOK
<1>4. ASSUME NEW c \in Calls, Begin(c) PROVE TurnedAwayOnlyIfTripped'
  BY <1>4 DEF Begin, TurnedAwayOnlyIfTripped, TypeOK
<1>5. ASSUME NEW c \in Calls, Finish(c)
      PROVE  TurnedAwayOnlyIfTripped'
  <2>1. \A f \in Endpoints : trip[f] <= trip'[f]
    BY <1>5, FinishEnds, FinishKeeps
  <2>2. TypeOK'
    BY <1>5, FinishType
  <2>3. /\ pc' = [pc EXCEPT ![c] = "returned"]
        /\ selected' = [selected EXCEPT ![c] = NoState]
        /\ sampled' = sampled /\ scanPos' = scanPos
    BY <1>5 DEF Finish
  <2>4. ASSUME NEW d \in Calls, NEW f \in Endpoints,
               pc'[d] = "select", selected'[d] = NoState, f < scanPos'[d]
        PROVE  sampled'[d] < trip'[f]
    <3>1. d # c
      BY <2>3, <2>4 DEF TypeOK
    <3>2. sampled[d] < trip[f]
      BY <2>3, <2>4, <3>1 DEF TurnedAwayOnlyIfTripped, TypeOK
    <3>3. sampled[d] \in Nat /\ trip[f] \in Nat /\ trip'[f] \in Nat
      BY <2>2 DEF TypeOK
    <3> QED
      BY <2>1, <2>3, <3>2, <3>3
  <2> QED
    BY <2>4 DEF TurnedAwayOnlyIfTripped
<1>6. ASSUME NEW c \in Calls, StreamOpens(c) \/ StreamAbandoned(c)
      PROVE  TurnedAwayOnlyIfTripped'
  BY <1>6 DEF StreamOpens, StreamAbandoned, TurnedAwayOnlyIfTripped, TypeOK
<1>7. ASSUME UNCHANGED <<callVars, trip>> PROVE TurnedAwayOnlyIfTripped'
  BY <1>7 DEF callVars, TurnedAwayOnlyIfTripped
<1>8. ASSUME NEW c \in Calls, NEW failed \in BOOLEAN,
             CallReturns(c, failed) \/ StreamEnds(c, failed)
      PROVE  TurnedAwayOnlyIfTripped'
  BY <1>8 DEF CallReturns, StreamEnds, Ends, TurnedAwayOnlyIfTripped, TypeOK
<1> QED
  BY <1>1, <1>2, <1>3, <1>4, <1>5, <1>6, <1>7, <1>8
  DEF Next, Step, vars, ObserveEndpoint, Tick

-----------------------------------------------------------------------------
(* The in-flight counts.                                                   *)

\* begin adds one call to one endpoint, finish takes one off, and no other
\* step changes which calls have begun.
LEMMA AccountingStep ==
  ASSUME TypeOK, CallInvariant, InFlightAccounting, [Next]_vars
  PROVE  InFlightAccounting'
<1> USE PoolAssumption
<1>1. \A e \in Endpoints : IsFiniteSet(Begun(e))
  <2>1. \A e \in Endpoints : Begun(e) \subseteq Calls
    BY DEF Begun
  <2> QED
    BY <2>1, FS_Subset
<1>2. ASSUME NEW c \in Calls, Begin(c) PROVE InFlightAccounting'
  <2> DEFINE s == selected[c].endpoint
  <2>1. s \in Endpoints
    BY <1>2 DEF Begin, TypeOK
  <2>2. c \notin Begun(s)
    BY <1>2 DEF Begin, Begun, BegunPc
  <2>3. \A e \in Endpoints : Begun(e)' = IF e = s THEN Begun(e) \cup {c} ELSE Begun(e)
    BY <1>2 DEF Begin, Begun, BegunPc, TypeOK
  <2>4. Cardinality(Begun(s) \cup {c}) = Cardinality(Begun(s)) + 1
    BY <1>1, <2>1, <2>2, FS_AddElement
  <2>5. \A e \in Endpoints : inFlight'[e] = IF e = s THEN inFlight[e] + 1 ELSE inFlight[e]
    BY <1>2 DEF Begin, TypeOK
  <2>6. ASSUME NEW e \in Endpoints PROVE inFlight'[e] = Cardinality(Begun(e)')
    <3>1. inFlight[e] = Cardinality(Begun(e))
      BY DEF InFlightAccounting
    <3>2. CASE e = s
      BY <2>3, <2>4, <2>5, <3>1, <3>2
    <3>3. CASE e # s
      BY <2>3, <2>5, <3>1, <3>3
    <3> QED
      BY <3>2, <3>3
  <2> QED
    BY <2>6 DEF InFlightAccounting
<1>3. ASSUME NEW c \in Calls, Finish(c)
      PROVE  InFlightAccounting'
  <2> DEFINE s == selected[c].endpoint
  <2>1. s \in Endpoints /\ c \in Begun(s)
    BY <1>3 DEF Finish, CallInvariant, Begun, BegunPc
  <2>2. \A e \in Endpoints : Begun(e)' = IF e = s THEN Begun(e) \ {c} ELSE Begun(e)
    BY <1>3 DEF Finish, Begun, BegunPc, TypeOK
  <2>3. Cardinality(Begun(s) \ {c}) = Cardinality(Begun(s)) - 1
    BY <1>1, <2>1, FS_RemoveElement
  <2>4. Cardinality(Begun(s)) # 0 /\ Cardinality(Begun(s)) \in Nat
    BY <1>1, <2>1, FS_EmptySet, FS_CardinalityType
  <2>5. inFlight[s] = Cardinality(Begun(s)) /\ inFlight[s] > 0
    BY <2>1, <2>4 DEF InFlightAccounting
  <2>6. \A e \in Endpoints : inFlight'[e] = IF e = s THEN inFlight[e] - 1 ELSE inFlight[e]
    BY <1>3, <2>5 DEF Finish, TypeOK
  <2>7. ASSUME NEW e \in Endpoints PROVE inFlight'[e] = Cardinality(Begun(e)')
    <3>1. inFlight[e] = Cardinality(Begun(e))
      BY DEF InFlightAccounting
    <3>2. CASE e = s
      BY <2>2, <2>3, <2>6, <3>1, <3>2
    <3>3. CASE e # s
      BY <2>2, <2>6, <3>1, <3>3
    <3> QED
      BY <3>2, <3>3
  <2> QED
    BY <2>7 DEF InFlightAccounting
<1>4. ASSUME UNCHANGED inFlight, \A e \in Endpoints : Begun(e)' = Begun(e)
      PROVE  InFlightAccounting'
  BY <1>4 DEF InFlightAccounting
<1>5. ASSUME NEW c \in Calls,
             \/ StartSelect(c) \/ ScanEndpoint(c) \/ NoEndpoint(c)
             \/ StreamOpens(c) \/ StreamAbandoned(c)
             \/ \E failed \in BOOLEAN : CallReturns(c, failed) \/ StreamEnds(c, failed)
      PROVE  InFlightAccounting'
  <2>1. UNCHANGED inFlight
    BY <1>5 DEF StartSelect, ScanEndpoint, NoEndpoint, StreamOpens, StreamAbandoned,
                CallReturns, StreamEnds, Ends, endpointVars
  <2>2. \A e \in Endpoints : Begun(e)' = Begun(e)
    BY <1>5 DEF StartSelect, ScanEndpoint, NoEndpoint, StreamOpens, StreamAbandoned,
                CallReturns, StreamEnds, Ends, Begun, BegunPc, TypeOK
  <2> QED
    BY <1>4, <2>1, <2>2
<1>6. ASSUME UNCHANGED <<callVars, inFlight>> PROVE InFlightAccounting'
  BY <1>6 DEF callVars, InFlightAccounting, Begun
<1> QED
  BY <1>2, <1>3, <1>5, <1>6
  DEF Next, Step, vars, endpointVars, ObserveEndpoint, Tick

-----------------------------------------------------------------------------
(* The theorems.                                                           *)

PoolInvariant ==
  /\ TypeOK /\ CallInvariant
  /\ CircuitSetAtThreshold /\ TripInvariant
  /\ TurnedAwayOnlyIfTripped /\ InFlightAccounting

\* The initial states satisfy the invariant.
LEMMA InitInv == Init => PoolInvariant
<1> SUFFICES ASSUME Init PROVE PoolInvariant
  OBVIOUS
<1> USE PoolAssumption DEF Init
<1>1. TypeOK
  <2>1. 0 \in 0..(Workers + 1)
    BY Positions, Zenon
  <2> QED
    BY <2>1 DEF TypeOK
<1>2. CallInvariant /\ CircuitSetAtThreshold /\ TripInvariant /\ TurnedAwayOnlyIfTripped
  BY DEF CallInvariant, BegunPc, CircuitSetAtThreshold, TripInvariant, TurnedAwayOnlyIfTripped
<1>3. InFlightAccounting
  <2>1. \A e \in Endpoints : Begun(e) = {}
    BY DEF Begun, BegunPc
  <2> QED
    BY <2>1, FS_EmptySet DEF InFlightAccounting
<1> QED
  BY <1>1, <1>2, <1>3 DEF PoolInvariant

\* The invariant is inductive.
LEMMA Invariance == Spec => []PoolInvariant
<1>1. PoolInvariant /\ [Next]_vars => PoolInvariant'
  BY TypeStep, CallStep, CircuitStep, TurnedAwayStep, AccountingStep DEF PoolInvariant
<1> QED
  BY InitInv, <1>1, PTL DEF Spec

\* Every reachable state of the pool is well typed.
THEOREM TypeCorrect == Spec => []TypeOK
<1>1. PoolInvariant => TypeOK
  BY DEF PoolInvariant
<1> QED
  BY Invariance, <1>1, PTL

\* begin and finish pair up over every path of a call, so every endpoint's
\* inFlight is the number of calls that have begun on it and not finished.
THEOREM InFlightAccountingHolds == Spec => []InFlightAccounting
<1>1. PoolInvariant => InFlightAccounting
  BY DEF PoolInvariant
<1> QED
  BY Invariance, <1>1, PTL

\* finish and refreshCircuitLocked keep every circuit set exactly while its
\* failure counter stands at the threshold.
THEOREM CircuitSetAtThresholdHolds == Spec => []CircuitSetAtThreshold
<1>1. PoolInvariant => CircuitSetAtThreshold
  BY DEF PoolInvariant
<1> QED
  BY Invariance, <1>1, PTL

\* selectEndpoint passes over an endpoint only if a trip of its circuit reaches
\* beyond the time of the call, although the scan and the trips interleave and
\* the trips may be counted out of order.
THEOREM TurnedAwayOnlyIfTrippedHolds == Spec => []TurnedAwayOnlyIfTripped
<1>1. PoolInvariant => TurnedAwayOnlyIfTripped
  BY DEF PoolInvariant
<1> QED
  BY Invariance, <1>1, PTL

=============================================================================
