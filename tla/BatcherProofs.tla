---------------------------- MODULE BatcherProofs ----------------------------
(***************************************************************************)
(* Theorems about Batcher, for every set of requests and every value of    *)
(* the configuration constants: first the leases, the timer and the        *)
(* circuit; then the way of a request through the batcher, that it is in   *)
(* one place, what its caller is told, and that Batcher implements         *)
(* RequestService.                                                         *)
(***************************************************************************)
EXTENDS Batcher, FiniteSetTheorems, SequenceTheorems, TLAPS

-----------------------------------------------------------------------------
(* A sequence without repetitions as the set of its elements.              *)

\* The elements of a sequence are at its positions.
LEMMA RangeIs ==
  ASSUME NEW S, NEW q \in Seq(S)
  PROVE  /\ Range(q) \subseteq S
         /\ \A x : x \in Range(q) <=> \E i \in 1..Len(q) : q[i] = x
BY DEF Range

\* Appending adds the element.
LEMMA RangeAppend ==
  ASSUME NEW S, NEW q \in Seq(S), NEW x \in S
  PROVE  /\ Append(q, x) \in Seq(S)
         /\ Range(Append(q, x)) = Range(q) \cup {x}
         /\ IsInjective(q) /\ x \notin Range(q) => IsInjective(Append(q, x))
<1>1. /\ Append(q, x) \in Seq(S) /\ Len(Append(q, x)) = Len(q) + 1
      /\ \A i \in 1..Len(q) : Append(q, x)[i] = q[i]
      /\ Append(q, x)[Len(q) + 1] = x
      /\ Len(q) \in Nat
  BY AppendProperties
<1>2. ASSUME NEW y
      PROVE  y \in Range(Append(q, x)) <=> y \in Range(q) \cup {x}
  <2>1. ASSUME y \in Range(Append(q, x))
        PROVE  y \in Range(q) \cup {x}
    <3>0. PICK i \in 1..Len(Append(q, x)) : Append(q, x)[i] = y
      BY <1>1, <2>1, RangeIs
    <3>1. i \in 1..(Len(q) + 1) /\ Append(q, x)[i] = y
      BY <1>1, <3>0
    <3>2. CASE i = Len(q) + 1
      BY <1>1, <3>1, <3>2
    <3>3. CASE i # Len(q) + 1
      <4>1. i \in 1..Len(q)
        BY <1>1, <3>3
      <4> QED
        BY <1>1, <3>1, <4>1, RangeIs
    <3> QED
      BY <3>2, <3>3
  <2>2. ASSUME y \in Range(q)
        PROVE  y \in Range(Append(q, x))
    <3>1. PICK i \in 1..Len(q) : q[i] = y
      BY <2>2, RangeIs
    <3>2. i \in 1..Len(Append(q, x)) /\ Append(q, x)[i] = y
      BY <1>1, <3>1
    <3> QED
      BY <1>1, <3>2, RangeIs
  <2>3. x \in Range(Append(q, x))
    <3>1. Len(q) + 1 \in 1..Len(Append(q, x))
      BY <1>1
    <3> QED
      BY <1>1, <3>1, RangeIs
  <2> QED
    BY <2>1, <2>2, <2>3
<1>3. ASSUME IsInjective(q), x \notin Range(q)
      PROVE  IsInjective(Append(q, x))
  <2> SUFFICES ASSUME NEW i \in 1..(Len(q) + 1), NEW j \in 1..(Len(q) + 1),
                      Append(q, x)[i] = Append(q, x)[j]
               PROVE  i = j
    BY <1>1 DEF IsInjective
  <2>1. \A k \in 1..Len(q) : q[k] # x
    BY <1>3, RangeIs
  <2>2. CASE i = Len(q) + 1 \/ j = Len(q) + 1
    BY <1>1, <2>1, <2>2
  <2>3. CASE i # Len(q) + 1 /\ j # Len(q) + 1
    <3>1. i \in 1..Len(q) /\ j \in 1..Len(q)
      BY <1>1, <2>3
    <3>2. q[i] = q[j]
      BY <1>1, <3>1
    <3> QED
      BY <1>3, <3>1, <3>2 DEF IsInjective
  <2> QED
    BY <2>2, <2>3
<1> QED
  BY <1>1, <1>2, <1>3

\* A sequence is the prefix of length n and the rest.
LEMMA RangeSuffix ==
  ASSUME NEW S, NEW q \in Seq(S), NEW n \in 0..Len(q), IsInjective(q)
  PROVE  LET rest == SubSeq(q, n + 1, Len(q)) IN
         /\ rest \in Seq(S) /\ IsInjective(rest)
         /\ \A x : x \in Range(rest)
                     <=> x \in Range(q) /\ ~\E i \in 1..n : q[i] = x
         /\ Len(rest) = Len(q) - n
<1> DEFINE rest == SubSeq(q, n + 1, Len(q))
<1>0. Len(q) \in Nat
  OBVIOUS
<1>1. /\ rest \in Seq(S) /\ Len(rest) = Len(q) - n
      /\ \A i \in 1..(Len(q) - n) : rest[i] = q[n + i]
  <2>1. rest \in Seq(S) /\ Len(rest) = IF n + 1 <= Len(q) THEN Len(q) - (n + 1) + 1 ELSE 0
    BY <1>0, SubSeqProperties
  <2>2. \A i \in 1..(Len(q) - n) : rest[i] = q[n + 1 + i - 1]
    BY <1>0, SubSeqProperties
  <2> QED
    BY <1>0, <2>1, <2>2
<1> HIDE DEF rest
<1>2. IsInjective(rest)
  <2> SUFFICES ASSUME NEW i \in 1..(Len(q) - n), NEW j \in 1..(Len(q) - n), rest[i] = rest[j]
               PROVE  i = j
    <3>1. DOMAIN rest = 1..(Len(q) - n)
      BY <1>1, LenProperties
    <3> QED
      BY <3>1 DEF IsInjective
  <2>1. q[n + i] = q[n + j] /\ n + i \in 1..Len(q) /\ n + j \in 1..Len(q)
    BY <1>0, <1>1
  <2>2. n + i = n + j
    BY <2>1 DEF IsInjective
  <2> QED
    BY <1>0, <2>2
<1>3. ASSUME NEW x
      PROVE  x \in Range(rest) <=> x \in Range(q) /\ ~\E i \in 1..n : q[i] = x
  <2>1. ASSUME x \in Range(rest)
        PROVE  x \in Range(q) /\ ~\E i \in 1..n : q[i] = x
    <3>1. PICK j \in 1..(Len(q) - n) : rest[j] = x
      BY <1>0, <1>1, <2>1, RangeIs
    <3>2. q[n + j] = x /\ n + j \in 1..Len(q)
      BY <1>0, <1>1, <3>1
    <3>3. ASSUME NEW i \in 1..n, q[i] = x
          PROVE  FALSE
      <4>1. i \in 1..Len(q) /\ i # n + j
        BY <1>0
      <4> QED
        BY <3>2, <3>3, <4>1 DEF IsInjective
    <3> QED
      BY <3>2, <3>3, RangeIs
  <2>2. ASSUME x \in Range(q), ~\E i \in 1..n : q[i] = x
        PROVE  x \in Range(rest)
    <3>1. PICK k \in 1..Len(q) : q[k] = x
      BY <2>2, RangeIs
    <3>2. k - n \in 1..(Len(q) - n) /\ n + (k - n) = k
      BY <1>0, <2>2, <3>1
    <3>3. rest[k - n] = x
      BY <1>1, <3>1, <3>2
    <3> QED
      BY <1>0, <1>1, <3>2, <3>3, RangeIs
  <2> QED
    BY <2>1, <2>2
<1> QED
  BY <1>1, <1>2, <1>3 DEF rest

\* Taking the head off.
LEMMA RangeTail ==
  ASSUME NEW S, NEW q \in Seq(S), q # << >>, IsInjective(q)
  PROVE  /\ Head(q) \in S /\ Head(q) \in Range(q)
         /\ Tail(q) \in Seq(S) /\ IsInjective(Tail(q))
         /\ Range(Tail(q)) = Range(q) \ {Head(q)}
         /\ Len(Tail(q)) = Len(q) - 1
<1>1. /\ Len(q) \in Nat \ {0} /\ Head(q) = q[1] /\ Head(q) \in S
      /\ Tail(q) = SubSeq(q, 1 + 1, Len(q))
  BY HeadTailProperties, TailIsSubSeq
<1>2. 1 \in 0..Len(q)
  BY <1>1
<1>3. /\ Tail(q) \in Seq(S) /\ IsInjective(Tail(q)) /\ Len(Tail(q)) = Len(q) - 1
      /\ \A x : x \in Range(Tail(q)) <=> x \in Range(q) /\ ~\E i \in 1..1 : q[i] = x
  BY <1>1, <1>2, RangeSuffix
<1>4. Range(Tail(q)) = Range(q) \ {Head(q)}
  BY <1>1, <1>3
<1>5. Head(q) \in Range(q)
  BY <1>1, RangeIs
<1> QED
  BY <1>1, <1>3, <1>4, <1>5

-----------------------------------------------------------------------------
(* Lemmas about the operators Batcher is built from.                       *)

\* An error answer is a response whenever its code is an error code.
LEMMA ErrorResponseType ==
  ASSUME NEW code \in ErrorCodes
  PROVE  errorResponse(code) \in Response
BY DEF errorResponse, Response

\* The list flush delivers from pairs every request of the batch with a response.
LEMMA DeliveriesType ==
  ASSUME NEW seq \in Seq(Requests),
         NEW resp, \A r \in Range(seq) : resp[r] \in Response
  PROVE  /\ Deliveries(seq, resp) \in Seq(Delivery)
         /\ Len(Deliveries(seq, resp)) = Len(seq)
         /\ \A i \in 1..Len(seq) : Deliveries(seq, resp)[i].req = seq[i]
<1>1. \A i \in 1..Len(seq) : seq[i] \in Requests /\ resp[seq[i]] \in Response
  BY DEF Range
<1>2. Deliveries(seq, resp) \in [1..Len(seq) -> Delivery]
  BY <1>1 DEF Deliveries, Delivery
<1> QED
  BY <1>2 DEF Deliveries

\* What a request finds in responseMap is a response.
LEMMA LookupType ==
  ASSUME NEW answered \in SUBSET Requests, NEW r \in Requests
  PROVE  LookupResponse(ResponseItems(answered), r) \in Response
<1> DEFINE items == ResponseItems(answered)
<1>1. \A item \in items : item.result \in Requests
  BY DEF ResponseItems
<1>2. CASE \E item \in items : item.id = id[r]
  <2>1. (CHOOSE item \in items : item.id = id[r]) \in items
    BY <1>2
  <2> QED
    BY <1>1, <1>2, <2>1 DEF LookupResponse, Response
<1>3. CASE ~ \E item \in items : item.id = id[r]
  BY <1>3, ErrorResponseType DEF LookupResponse, ErrorCodes
<1> QED
  BY <1>2, <1>3

\* A policy's waits are natural numbers.
LEMMA ObserveType ==
  ASSUME NEW w \in Nat, NEW b \in Nat, NEW q \in Nat, NEW slow, NEW ok
  PROVE  Observe(w, b, q, slow, ok) \in Nat
<1>1. w \div 2 \in Nat
  OBVIOUS
<1> QED
  BY <1>1, PolicyAssumption DEF Observe, MaxDuration, MinDuration, ClampDuration

\* The wait that run arms its timer with is a natural number.
LEMMA NextWaitType ==
  ASSUME NEW w \in Nat, NEW q \in Nat
  PROVE  NextWait(w, q) \in Nat
BY PolicyAssumption DEF NextWait

-----------------------------------------------------------------------------
(* Type correctness.                                                       *)

\* Releasing a lease keeps the admission state well typed.
LEMMA ReleaseType ==
  ASSUME TypeOK, NEW r \in Requests, Release(r)
  PROVE  /\ lease' \in [Requests -> {"none", "held", "released"}]
         /\ inFlightTokens' \in Nat
<1>1. Tokens[r] \in Nat
  BY BatcherAssumption
<1> QED
  BY <1>1 DEF TypeOK, Release, MaxDuration

\* Every step of a submit call preserves the type invariant.
LEMMA SubmitType ==
  ASSUME TypeOK, NEW r \in Requests, Submit(r)
  PROVE  TypeOK'
<1> USE DEF TypeOK
<1>1. Tokens[r] \in Nat
  BY BatcherAssumption
<1>10. /\ errorResponse("admission_rejected") \in Response
       /\ errorResponse("request_cancelled") \in Response
       /\ errorResponse("queue_full") \in Response
  BY ErrorResponseType DEF ErrorCodes
<1>2. CASE Admit(r)
  BY <1>1, <1>2 DEF Admit, GenerateID, runVars, circuitVars, flushVars, timerVars
<1>3. CASE RejectAdmission(r)
  BY <1>3, <1>10 DEF RejectAdmission, GenerateID, Return, leaseVars, runVars, circuitVars,
              flushVars, timerVars
<1>4. CASE CancelBeforeQueue(r)
  BY <1>4, <1>10, ReleaseType DEF CancelBeforeQueue, Return, runVars, circuitVars,
              flushVars, timerVars
<1>5. CASE Enqueue(r)
  BY <1>5 DEF Enqueue, leaseVars, runVars, circuitVars, flushVars, timerVars
<1>6. CASE RejectQueueFull(r)
  BY <1>6, <1>10, ReleaseType DEF RejectQueueFull, Return, runVars, circuitVars, flushVars,
              timerVars
<1>7. CASE GaugeInc(r)
  BY <1>7 DEF GaugeInc, leaseVars, runVars, circuitVars, flushVars, timerVars
<1>8. CASE TakeResponse(r)
  BY <1>8 DEF TakeResponse, Return, leaseVars, runVars, circuitVars, flushVars,
              timerVars
<1>9. CASE CancelWaiting(r)
  BY <1>9, <1>10, ReleaseType DEF CancelWaiting, Return, runVars, circuitVars, flushVars,
              timerVars
<1> QED
  BY <1>2, <1>3, <1>4, <1>5, <1>6, <1>7, <1>8, <1>9 DEF Submit

\* Every step of the run goroutine, flush and the worker call included, preserves
\* the type invariant.
LEMMA RunType ==
  ASSUME TypeOK, Run
  PROVE  TypeOK'
<1> USE DEF TypeOK, submitVars, leaseVars, circuitVars, flushVars, timerVars
<1>0. Len(active) \in Nat /\ Len(queue) \in Nat
  OBVIOUS
<1>1. CASE Receive
  <2>1. queue' \in Seq(Requests) /\ batch' \in Seq(Requests)
    BY <1>1 DEF Receive
  <2> QED
    BY <1>1, <2>1 DEF Receive
<1>2. CASE GaugeDec
  BY <1>2 DEF GaugeDec, AfterReceive
<1>3. CASE ArmTimer
  <2>1. NextWait(currentWait, Len(queue)) \in Nat
    BY <1>0, NextWaitType
  <2> QED
    BY <1>3, <2>1 DEF ArmTimer
<1>4. CASE Decide
  <2>1. CASE UNCHANGED timerVars
    BY <1>4, <2>1 DEF Decide
  <2>2. CASE StopTimer
    BY <1>4, <2>2 DEF Decide, StopTimer
  <2> QED
    BY <1>4, <2>1, <2>2 DEF Decide
<1>5. CASE TimerTick
  BY <1>5 DEF TimerTick
<1>6. CASE Filter
  <2>1. /\ Head(batch) \in Requests
        /\ batch' \in Seq(Requests)
    BY <1>6 DEF Filter
  <2>2. errorResponse("request_cancelled") \in Response
    BY ErrorResponseType DEF ErrorCodes
  <2>3. CASE cancelled[Head(batch)]
    <3>1. sending' \in Delivery /\ UNCHANGED active
      BY <1>6, <2>1, <2>2, <2>3 DEF Filter, Delivery
    <3>2. Release(Head(batch))
      BY <1>6, <2>3 DEF Filter
    <3> QED
      BY <1>6, <2>1, <2>3, <3>1, <3>2, ReleaseType DEF Filter
  <2>4. CASE ~cancelled[Head(batch)]
    <3>1. /\ active' = Append(active, Head(batch))
          /\ UNCHANGED <<leaseVars, sending>>
      BY <1>6, <2>4 DEF Filter
    <3> QED
      BY <1>6, <2>1, <2>4, <3>1 DEF Filter
  <2> QED
    BY <2>3, <2>4
<1>7. CASE EndFilter
  BY <1>7 DEF EndFilter
<1>8. ASSUME NEW open \in BOOLEAN, ActOnCircuit(open), UNCHANGED sending
      PROVE  /\ currentWait' \in Nat
             /\ outbox' \in Seq(Delivery)
             /\ active' \in Seq(Requests)
             /\ runPc' \in {"rpc", "deliver"}
  <2>1. errorResponse("worker_unavailable") \in Response
    BY ErrorResponseType DEF ErrorCodes
  <2>2. Deliveries(active, [r \in Range(active) |-> errorResponse("worker_unavailable")])
          \in Seq(Delivery)
    BY <2>1, DeliveriesType
  <2>3. Observe(currentWait, Len(active), Len(queue), FALSE, FALSE) \in Nat
    BY <1>0, ObserveType
  <2>4. CASE open
    <3>1. /\ currentWait' = Observe(currentWait, Len(active), Len(queue), FALSE, FALSE)
          /\ outbox' = Deliveries(active,
                [r \in Range(active) |-> errorResponse("worker_unavailable")])
          /\ active' = <<>>
          /\ runPc' = "deliver"
      BY <1>8, <2>4 DEF ActOnCircuit
    <3>2. outbox' \in Seq(Delivery)
      BY <2>2, <3>1, Zenon
    <3>3. currentWait' \in Nat
      BY <2>3, <3>1, Zenon
    <3>4. active' \in Seq(Requests)
      BY <3>1
    <3> QED
      BY <3>1, <3>2, <3>3, <3>4
  <2>5. CASE ~open
    BY <1>8, <2>5 DEF ActOnCircuit
  <2> QED
    BY <2>4, <2>5
<1>9. CASE FlushCircuit
  <2>1. PICK open \in BOOLEAN : CircuitCheck(open) /\ ActOnCircuit(open)
    BY <1>9 DEF FlushCircuit
  <2>2. failureCount' \in Nat /\ circuitOpen' \in BOOLEAN /\ windowElapsed' \in BOOLEAN
    BY <2>1 DEF CircuitCheck
  <2> QED
    BY <1>8, <1>9, <2>1, <2>2 DEF FlushCircuit
<1>10. CASE FlushSample
  BY <1>10 DEF FlushSample
<1>11. CASE FlushWrite
  <2>1. ActOnCircuit(runPc = "unready")
    BY <1>11 DEF FlushWrite
  <2>2. failureCount' \in Nat /\ circuitOpen' \in BOOLEAN /\ windowElapsed' \in BOOLEAN
    BY <1>11, BatcherAssumption DEF FlushWrite, ReadinessWrite, MaxDuration
  <2> QED
    BY <1>8, <1>11, <2>1, <2>2 DEF FlushWrite
<1>12. CASE Deliver
  <2>1. /\ Head(outbox) \in Delivery
        /\ outbox' \in Seq(Delivery)
        /\ sending' \in Delivery
    BY <1>12 DEF Deliver
  <2>2. Head(outbox).req \in Requests
    BY <2>1 DEF Delivery
  <2>3. Release(Head(outbox).req)
    BY <1>12 DEF Deliver
  <2> QED
    BY <1>12, <2>1, <2>2, <2>3, ReleaseType DEF Deliver
<1>13. CASE SendResponse
  <2>1. sending.resp \in Response
    BY <1>13 DEF SendResponse, Delivery
  <2> QED
    BY <1>13, <2>1 DEF SendResponse
<1>14. CASE EndFlush
  BY <1>14 DEF EndFlush
<1>15. ASSUME NEW code \in WorkerErrorCodes, WorkerFails(code)
       PROVE  TypeOK'
  <2>1. errorResponse(code) \in Response
    BY ErrorResponseType, BatcherAssumption DEF ErrorCodes
  <2>2. outbox' \in Seq(Delivery)
    BY <1>15, <2>1, DeliveriesType DEF WorkerFails
  <2>3. currentWait' \in Nat
    <3>1. PICK slow \in BOOLEAN : currentWait' =
            Observe(currentWait, Len(active), Len(queue), slow, FALSE)
      BY <1>15 DEF WorkerFails
    <3> QED
      BY <1>0, <3>1, ObserveType
  <2> QED
    BY <1>15, <2>2, <2>3 DEF WorkerFails
<1>16. ASSUME NEW answered \in SUBSET Requests, WorkerAnswers(answered)
       PROVE  TypeOK'
  <2>1. \A r \in Range(active) : r \in Requests
    BY DEF Range
  <2>2. \A r \in Range(active) : LookupResponse(ResponseItems(answered), r) \in Response
    BY <2>1, LookupType
  <2>3. outbox' \in Seq(Delivery)
    BY <1>16, <2>2, DeliveriesType DEF WorkerAnswers
  <2>4. currentWait' \in Nat
    <3>1. PICK slow \in BOOLEAN : currentWait' =
            Observe(currentWait, Len(active), Len(queue), slow, TRUE)
      BY <1>16 DEF WorkerAnswers
    <3> QED
      BY <1>0, <3>1, ObserveType
  <2>5. failureCount' \in Nat /\ circuitOpen' \in BOOLEAN /\ windowElapsed' \in BOOLEAN
    BY <1>16 DEF WorkerAnswers, RecordSuccess
  <2> QED
    BY <1>16, <2>3, <2>4, <2>5 DEF WorkerAnswers
<1> QED
  BY <1>1, <1>2, <1>3, <1>4, <1>5, <1>6, <1>7, <1>9, <1>10, <1>11, <1>12, <1>13, <1>14,
     <1>15, <1>16 DEF Run, Flush, WorkerCall

\* So do the clock, the cancellations and the readiness probe.
LEMMA OtherType ==
  ASSUME TypeOK,
         \/ \E r \in Requests : Handoff(r) \/ ClientCancels(r)
         \/ TimerFires \/ WindowElapses \/ Probe
  PROVE  TypeOK'
<1> USE DEF TypeOK, submitVars, leaseVars, circuitVars, flushVars, timerVars, runVars
<1>1. ASSUME NEW r \in Requests, Handoff(r)
      PROVE  TypeOK'
  <2>1. batch' \in Seq(Requests)
    BY <1>1 DEF Handoff
  <2> QED
    BY <1>1, <2>1 DEF Handoff
<1>2. ASSUME NEW r \in Requests, ClientCancels(r)
      PROVE  TypeOK'
  BY <1>2 DEF ClientCancels
<1>3. CASE TimerFires
  BY <1>3 DEF TimerFires
<1>4. CASE WindowElapses
  BY <1>4 DEF WindowElapses
<1>5. CASE ProbeReady
  <2>1. PICK open \in BOOLEAN : CircuitCheck(open)
    BY <1>5 DEF ProbeReady
  <2>2. failureCount' \in Nat /\ circuitOpen' \in BOOLEAN /\ windowElapsed' \in BOOLEAN
    BY <2>1 DEF CircuitCheck
  <2> QED
    BY <1>5, <2>2 DEF ProbeReady
<1>6. CASE ProbeWorkers
  BY <1>6 DEF ProbeWorkers
<1>7. CASE ProbeWrite
  <2>1. failureCount' \in Nat /\ circuitOpen' \in BOOLEAN /\ windowElapsed' \in BOOLEAN
    BY <1>7, BatcherAssumption DEF ProbeWrite, ReadinessWrite, MaxDuration
  <2> QED
    BY <1>7, <2>1 DEF ProbeWrite
<1> QED
  BY <1>1, <1>2, <1>3, <1>4, <1>5, <1>6, <1>7 DEF Probe

\* The state NewBatcher leaves behind is well typed.
LEMMA InitType == Init => TypeOK
<1>1. InitialWait \in Nat
  BY PolicyAssumption DEF InitialWait, ClampDuration, MaxDuration, MinDuration
<1> SUFFICES ASSUME Init
             PROVE  TypeOK
  OBVIOUS
<1>3. /\ pc \in [Requests -> {"start", "admitted", "sent", "waiting", "returned"}]
      /\ lease \in [Requests -> {"none", "held", "released"}]
      /\ id \in [Requests -> Nat]
  BY DEF Init
<1>4. cancelled \in [Requests -> BOOLEAN]
  BY DEF Init
<1>5. /\ respChan \in [Requests -> Response \cup {NoResponse}]
      /\ answer \in [Requests -> Response \cup {NoResponse}]
  BY DEF Init
<1>6. sending \in Delivery \cup {NoAnswer}
  BY DEF Init
<1>7. currentWait \in Nat
  BY <1>1 DEF Init
<1>8. /\ circuitOpen \in BOOLEAN
      /\ windowElapsed \in BOOLEAN
      /\ timerActive \in BOOLEAN
  BY DEF Init
<1>9. /\ inFlightTokens \in Nat /\ nextID \in Nat \ {0}
      /\ failureCount \in Nat /\ timerWait \in Nat
      /\ queueDepth \in Int
  BY DEF Init
<1>10. /\ queue \in Seq(Requests) /\ batch \in Seq(Requests)
       /\ active \in Seq(Requests) /\ outbox \in Seq(Delivery)
  BY DEF Init
<1>11. /\ runPc = "select" /\ timer = "stopped" /\ probePc = "idle"
  BY DEF Init
<1> QED
  BY <1>3, <1>4, <1>5, <1>6, <1>7, <1>8, <1>9, <1>10, <1>11 DEF TypeOK

\* Type correctness is inductive.
LEMMA NextType == TypeOK /\ [Next]_vars => TypeOK'
<1>1. TypeOK /\ UNCHANGED vars => TypeOK'
  BY DEF TypeOK, vars, submitVars, leaseVars, runVars, circuitVars, flushVars,
         timerVars
<1> QED
  BY <1>1, SubmitType, RunType, OtherType DEF Next

\* Every variable of the request path keeps its type; in particular the token
\* counter of the admission controller is never negative.
THEOREM TypeCorrect == Spec => []TypeOK
BY InitType, NextType, PTL DEF Spec

-----------------------------------------------------------------------------
(* Token arithmetic.                                                       *)

\* The units of a set of requests are finitely many.
LEMMA UnitsFinite ==
  ASSUME NEW S \in SUBSET Requests
  PROVE  IsFiniteSet(TokenUnits(S)) /\ TokensOf(S) \in Nat
<1>1. IsFiniteSet(Requests) /\ IsFiniteSet(1..MaxTokens)
  BY BatcherAssumption, FS_Interval
<1>2. IsFiniteSet(Requests \X (1..MaxTokens))
  BY <1>1, FS_Product
<1>3. TokenUnits(S) \in SUBSET (Requests \X (1..MaxTokens))
  BY DEF TokenUnits
<1>4. IsFiniteSet(TokenUnits(S))
  BY <1>2, <1>3, FS_Subset
<1> QED
  BY <1>4, FS_CardinalityType DEF TokensOf

\* One request has as many units as its estimate says.
LEMMA TokensOfOne ==
  ASSUME NEW r \in Requests
  PROVE  TokensOf({r}) = Tokens[r]
<1> DEFINE f == [k \in 1..Tokens[r] |-> <<r, k>>]
<1>1. Tokens[r] \in 1..MaxTokens /\ MaxTokens \in Nat
  BY BatcherAssumption
<1>2. f \in [1..Tokens[r] -> TokenUnits({r})]
  BY <1>1 DEF TokenUnits
<1>3. \A u \in TokenUnits({r}) : \E k \in 1..Tokens[r] : f[k] = u
  BY <1>1 DEF TokenUnits
<1>4. \A j, k \in 1..Tokens[r] : f[j] = f[k] => j = k
  OBVIOUS
<1>5. f \in Bijection(1..Tokens[r], TokenUnits({r}))
  BY <1>2, <1>3, <1>4 DEF Bijection, Injection, Surjection, IsInjective
<1>6. IsFiniteSet(1..Tokens[r]) /\ Cardinality(1..Tokens[r]) = Tokens[r]
  BY <1>1, FS_Interval
<1> QED
  BY <1>5, <1>6, FS_Bijection DEF TokensOf, ExistsBijection

\* Adding a request to a set adds its estimate to the set's tokens.
LEMMA TokensOfAdd ==
  ASSUME NEW S \in SUBSET Requests, NEW r \in Requests \ S
  PROVE  TokensOf(S \cup {r}) = TokensOf(S) + Tokens[r]
<1>1. TokenUnits(S \cup {r}) = TokenUnits(S) \cup TokenUnits({r})
  BY DEF TokenUnits
<1>2. TokenUnits(S) \cap TokenUnits({r}) = {}
  BY DEF TokenUnits
<1>3. /\ IsFiniteSet(TokenUnits(S)) /\ TokensOf(S) \in Nat
      /\ IsFiniteSet(TokenUnits({r})) /\ TokensOf({r}) \in Nat
  BY UnitsFinite
<1>4. Cardinality(TokenUnits(S \cup {r})) =
        Cardinality(TokenUnits(S)) + Cardinality(TokenUnits({r})) - Cardinality({})
  <2>1. Cardinality(TokenUnits(S) \cup TokenUnits({r})) =
          Cardinality(TokenUnits(S)) + Cardinality(TokenUnits({r}))
            - Cardinality(TokenUnits(S) \cap TokenUnits({r}))
    BY <1>3, FS_Union
  <2> QED
    BY <1>1, <1>2, <2>1
<1>5. TokensOf({r}) = Tokens[r] /\ Cardinality({}) = 0
  BY TokensOfOne, FS_EmptySet
<1>6. TokensOf(S \cup {r}) = TokensOf(S) + TokensOf({r}) - Cardinality({})
  BY <1>4 DEF TokensOf
<1> QED
  BY <1>3, <1>5, <1>6

\* Removing a request from a set takes its estimate away.
LEMMA TokensOfRemove ==
  ASSUME NEW S \in SUBSET Requests, NEW r \in S
  PROVE  TokensOf(S) = TokensOf(S \ {r}) + Tokens[r]
<1>1. S = (S \ {r}) \cup {r}
  OBVIOUS
<1> QED
  BY <1>1, TokensOfAdd

\* No request, no tokens.
LEMMA TokensOfNone == TokensOf({}) = 0
<1>1. TokenUnits({}) = {}
  BY DEF TokenUnits
<1> QED
  BY <1>1, FS_EmptySet DEF TokensOf

-----------------------------------------------------------------------------
(* Admission: what a step may do to the leases and to the control points.  *)

\* A step takes one lease, releases one lease, or leaves the leases alone.
LEMMA LeaseStep ==
  ASSUME TypeOK, [Next]_vars
  PROVE  \/ \E r \in Requests : Admit(r)
         \/ \E r \in Requests : Release(r)
         \/ UNCHANGED leaseVars
<1>1. ASSUME NEW r \in Requests, Submit(r)
      PROVE  Admit(r) \/ Release(r) \/ UNCHANGED leaseVars
  BY <1>1 DEF Submit, RejectAdmission, CancelBeforeQueue, Enqueue, RejectQueueFull,
              GaugeInc, TakeResponse, CancelWaiting
<1>2. CASE Filter
  <2>1. Head(batch) \in Requests
    BY <1>2 DEF TypeOK, Filter
  <2> QED
    BY <1>2, <2>1 DEF Filter, leaseVars
<1>3. CASE Deliver
  <2>1. Head(outbox) \in Delivery
    BY <1>3 DEF TypeOK, Deliver
  <2>2. Head(outbox).req \in Requests
    BY <2>1 DEF Delivery
  <2> QED
    BY <1>3, <2>2 DEF Deliver
<1>4. CASE Run /\ ~Filter /\ ~Deliver
  BY <1>4 DEF Run, Receive, GaugeDec, ArmTimer, Decide, TimerTick, Flush, EndFilter,
              FlushCircuit,
              FlushSample, FlushWrite, SendResponse, EndFlush, WorkerCall, WorkerFails,
              WorkerAnswers
<1>5. ASSUME NEW r \in Requests, Handoff(r) \/ ClientCancels(r)
      PROVE  UNCHANGED leaseVars
  BY <1>5 DEF Handoff, ClientCancels
<1>6. TimerFires \/ WindowElapses \/ Probe \/ UNCHANGED vars => UNCHANGED leaseVars
  BY DEF TimerFires, WindowElapses, Probe, ProbeReady, ProbeWorkers, ProbeWrite, vars
<1> QED
  BY <1>1, <1>2, <1>3, <1>4, <1>5, <1>6 DEF Next

\* A submit call never goes back to its start.
LEMMA NeverRestarted ==
  ASSUME TypeOK, [Next]_vars, NEW r \in Requests
  PROVE  /\ pc'[r] = "start" => pc[r] = "start"
         /\ pc'[r] = "admitted" => pc[r] \in {"start", "admitted"}
<1>1. ASSUME NEW s \in Requests, Submit(s)
      PROVE  \/ Admit(s) /\ pc' = [pc EXCEPT ![s] = "admitted"]
             \/ \E v \in {"sent", "waiting", "returned"} : pc' = [pc EXCEPT ![s] = v]
  BY <1>1 DEF Submit, Admit, RejectAdmission, CancelBeforeQueue, Enqueue,
              RejectQueueFull, GaugeInc, TakeResponse, CancelWaiting, Return
<1>2. ASSUME NEW s \in Requests, Submit(s)
      PROVE  /\ pc'[r] = "start" => pc[r] = "start"
             /\ pc'[r] = "admitted" => pc[r] \in {"start", "admitted"}
  BY <1>1, <1>2 DEF TypeOK, Admit
<1>3. Run => UNCHANGED pc
  BY DEF Run, Receive, GaugeDec, ArmTimer, Decide, TimerTick, Flush, Filter, EndFilter,
         FlushCircuit, FlushSample, FlushWrite, Deliver, SendResponse, EndFlush,
         WorkerCall, WorkerFails, WorkerAnswers, submitVars
<1>4. ASSUME NEW s \in Requests, Handoff(s) \/ ClientCancels(s)
      PROVE  pc' = [pc EXCEPT ![s] = "sent"] \/ UNCHANGED pc
  BY <1>4 DEF Handoff, ClientCancels
<1>5. TimerFires \/ WindowElapses \/ Probe \/ UNCHANGED vars => UNCHANGED pc
  BY DEF TimerFires, WindowElapses, Probe, ProbeReady, ProbeWorkers, ProbeWrite, vars,
         submitVars
<1> QED
  BY <1>2, <1>3, <1>4, <1>5 DEF Next, TypeOK

\* Releasing a lease keeps the token count exact and within the budget.
LEMMA ReleaseAccounting ==
  ASSUME TypeOK, TokensExact, WithinBudget, NEW r \in Requests, Release(r)
  PROVE  TokensExact' /\ WithinBudget'
<1>1. Holders \in SUBSET Requests /\ Tokens[r] \in Nat
  BY BatcherAssumption DEF Holders
<1>2. CASE lease[r] = "held"
  <2>1. Holders' = Holders \ {r} /\ r \in Holders
    BY <1>2 DEF TypeOK, Release, Holders
  <2>2. TokensOf(Holders) = TokensOf(Holders') + Tokens[r]
    BY <1>1, <2>1, TokensOfRemove
  <2>3. TokensOf(Holders') \in Nat /\ TokensOf(Holders) \in Nat
    BY <1>1, <2>1, UnitsFinite
  <2>4. TokensExact'
    BY <1>1, <1>2, <2>2, <2>3, BatcherAssumption
       DEF TypeOK, Release, TokensExact, MaxDuration
  <2>5. WithinBudget'
    BY <1>1, <2>2, <2>3, BatcherAssumption DEF WithinBudget
  <2> QED
    BY <2>4, <2>5
<1>3. CASE lease[r] # "held"
  <2>1. Holders' = Holders /\ inFlightTokens' = inFlightTokens
    BY <1>3 DEF TypeOK, Release, Holders
  <2> QED
    BY <2>1 DEF TokensExact, WithinBudget
<1> QED
  BY <1>2, <1>3

\* Admitting a request keeps the token count exact and within the budget.
LEMMA AdmitAccounting ==
  ASSUME TypeOK, LeaseInvariant, NEW r \in Requests, Admit(r)
  PROVE  TokensExact' /\ WithinBudget'
<1>1. Holders \in SUBSET Requests /\ Tokens[r] \in Nat
  BY BatcherAssumption DEF Holders
<1>2. Holders' = Holders \cup {r} /\ r \in Requests \ Holders
  BY DEF TypeOK, Admit, LeaseInvariant, Holders
<1>3. TokensOf(Holders') = TokensOf(Holders) + Tokens[r]
  BY <1>1, <1>2, TokensOfAdd
<1>4. TokensOf(Holders) \in Nat
  BY <1>1, UnitsFinite
<1>5. TokensExact'
  BY <1>1, <1>3, <1>4 DEF LeaseInvariant, TokensExact, Admit
<1>6. WithinBudget'
  BY <1>1, <1>3, <1>4, BatcherAssumption
     DEF LeaseInvariant, TokensExact, WithinBudget, Admit, OverBudget
<1> QED
  BY <1>5, <1>6

-----------------------------------------------------------------------------
(* The pipeline: where a step can move a request.                          *)

\* The elements of the sequences that the steps build.
LEMMA RangeOfAppend ==
  ASSUME NEW S, NEW seq \in Seq(S), NEW e
  PROVE  Range(Append(seq, e)) = Range(seq) \cup {e}
<1>1. DOMAIN Append(seq, e) = 1..(Len(seq) + 1)
  OBVIOUS
<1> QED
  BY <1>1 DEF Range

\* Receiving from a channel leaves elements that were there before.
LEMMA RangeOfTail ==
  ASSUME NEW S, NEW seq \in Seq(S), seq # <<>>
  PROVE  /\ Range(Tail(seq)) \subseteq Range(seq)
         /\ Head(seq) \in Range(seq)
BY DEF Range

\* A request that is queued after a step was queued before it, or the step
\* queued it.
LEMMA PipelineStep ==
  ASSUME TypeOK, [Next]_vars, NEW r \in Requests, Queued(r)'
  PROVE  Queued(r) \/ pc'[r] = "sent"
<1> USE DEF TypeOK, Queued, Pipeline
<1>1. ASSUME NEW s \in Requests, Submit(s)
      PROVE  Queued(r) \/ pc'[r] = "sent"
  <2>1. CASE Enqueue(s)
    <3>1. Range(queue') = Range(queue) \cup {s}
      BY <2>1, RangeOfAppend DEF Enqueue
    <3> QED
      BY <2>1, <3>1 DEF Enqueue, runVars, flushVars, Owed, InHand
  <2>2. CASE TakeResponse(s)
    BY <2>2 DEF TakeResponse, runVars, flushVars, Owed, InHand
  <2>3. CASE Submit(s) /\ ~Enqueue(s) /\ ~TakeResponse(s)
    BY <2>3 DEF Submit, Admit, RejectAdmission, CancelBeforeQueue, RejectQueueFull,
                GaugeInc, CancelWaiting, runVars, flushVars, Owed, InHand
  <2> QED
    BY <1>1, <2>1, <2>2, <2>3
<1>2. ASSUME NEW s \in Requests, Handoff(s)
      PROVE  Queued(r) \/ pc'[r] = "sent"
  <2>1. Range(batch') = Range(batch) \cup {s}
    BY <1>2, RangeOfAppend DEF Handoff
  <2> QED
    BY <1>2, <2>1 DEF Handoff, flushVars, Owed, InHand
<1>3. CASE Receive
  <2>1. /\ Range(queue') \subseteq Range(queue)
        /\ Range(batch') = Range(batch) \cup {Head(queue)}
        /\ Head(queue) \in Range(queue)
    BY <1>3, RangeOfAppend, RangeOfTail DEF Receive
  <2> QED
    BY <1>3, <2>1 DEF Receive, submitVars, flushVars, Owed, InHand
<1>4. CASE Filter
  <2>1. /\ Range(batch') \subseteq Range(batch)
        /\ Head(batch) \in Range(batch)
    BY <1>4, RangeOfTail DEF Filter
  <2>2. CASE active' = Append(active, Head(batch)) /\ UNCHANGED sending
    <3>1. Range(active') = Range(active) \cup {Head(batch)}
      BY <2>2, RangeOfAppend
    <3> QED
      BY <1>4, <2>1, <2>2, <3>1 DEF Filter, submitVars, Owed, InHand
  <2>3. CASE UNCHANGED active /\ sending'.req = Head(batch)
    BY <1>4, <2>1, <2>3 DEF Filter, submitVars, Owed, InHand
  <2> QED
    BY <1>4, <2>2, <2>3 DEF Filter
<1>5. ASSUME NEW resp, outbox' = Deliveries(active, resp), UNCHANGED respChan,
             UNCHANGED <<queue, batch, sending>>, active' = <<>>
      PROVE  Queued(r)
  <2>1. Owed' \subseteq Range(active)
    BY <1>5 DEF Owed, Deliveries, Range
  <2>2. Range(active') = {}
    BY <1>5 DEF Range
  <2> QED
    BY <1>5, <2>1, <2>2 DEF InHand
<1>6. ASSUME NEW open, ActOnCircuit(open), UNCHANGED respChan,
             UNCHANGED <<queue, batch, sending>>
      PROVE  Queued(r)
  <2>1. CASE active' = active /\ outbox' = outbox
    BY <1>6, <2>1 DEF Owed, InHand
  <2> QED
    BY <1>5, <1>6, <2>1 DEF ActOnCircuit
<1>7. CASE FlushCircuit \/ FlushWrite
  BY <1>6, <1>7 DEF FlushCircuit, FlushWrite, submitVars
<1>8. CASE WorkerCall
  BY <1>5, <1>8 DEF WorkerCall, WorkerFails, WorkerAnswers, submitVars
<1>9. CASE Deliver
  <2>1. Owed' \subseteq Owed /\ Head(outbox).req \in Owed
    <3>1. outbox' = Tail(outbox) /\ outbox # <<>>
      BY <1>9 DEF Deliver
    <3>2. /\ \A i \in DOMAIN Tail(outbox) : i + 1 \in DOMAIN outbox
                                          /\ Tail(outbox)[i] = outbox[i + 1]
          /\ 1 \in DOMAIN outbox /\ Head(outbox) = outbox[1]
      BY <3>1
    <3> QED
      BY <3>1, <3>2 DEF Owed
  <2> QED
    BY <1>9, <2>1 DEF Deliver, submitVars, InHand
<1>10. CASE SendResponse
  <2>1. sending.req \in InHand
    <3>1. sending \in Delivery
      BY <1>10 DEF SendResponse
    <3>2. sending.req \in Requests
      BY <3>1 DEF Delivery
    <3> QED
      BY <3>2, BatcherAssumption DEF InHand
  <2>2. InHand' = {}
    BY <1>10 DEF SendResponse, NoAnswer, InHand
  <2> QED
    BY <1>10, <2>1, <2>2 DEF SendResponse, Owed
<1>11. CASE \/ GaugeDec \/ ArmTimer \/ Decide \/ TimerTick \/ EndFilter \/ FlushSample
            \/ EndFlush
            \/ TimerFires \/ WindowElapses \/ Probe \/ UNCHANGED vars
            \/ \E s \in Requests : ClientCancels(s)
  BY <1>11 DEF GaugeDec, ArmTimer, Decide, TimerTick, EndFilter, FlushSample, EndFlush,
               TimerFires,
               WindowElapses, Probe, ProbeReady, ProbeWorkers, ProbeWrite, ClientCancels,
               vars, runVars, submitVars, flushVars, Owed, InHand
<1> QED
  BY <1>1, <1>2, <1>3, <1>4, <1>7, <1>8, <1>9, <1>10, <1>11 DEF Next, Run, Flush

-----------------------------------------------------------------------------
(* The admission invariant.                                                *)

\* A step sends an answer, or lets submit return, only for a released lease.
LEMMA SettledStep ==
  ASSUME TypeOK, LeaseInvariant, [Next]_vars, NEW r \in Requests,
         \/ r \in InHand' \/ respChan'[r] # NoResponse \/ pc'[r] = "returned"
  PROVE  lease'[r] # "held"
<1> DEFINE Settled == r \in InHand \/ respChan[r] # NoResponse \/ pc[r] = "returned"
<1>1. Settled => lease[r] # "held"
  BY DEF LeaseInvariant, ReturnedReleased
<1>2. \A s \in Requests : Release(s) => /\ lease'[s] # "held"
                                        /\ lease[r] # "held" => lease'[r] # "held"
  BY DEF TypeOK, Release
<1>3. ASSUME Settled
      PROVE  lease'[r] # "held"
  <2>1. ASSUME NEW s \in Requests, Admit(s)
        PROVE  lease'[r] # "held"
    <3>1. r # s
      BY <1>3, <2>1 DEF Admit, LeaseInvariant, Queued, Pipeline
    <3> QED
      BY <1>1, <1>3, <2>1, <3>1 DEF TypeOK, Admit
  <2> QED
    BY <1>1, <1>2, <1>3, <2>1, LeaseStep DEF leaseVars
<1>4. ASSUME ~Settled
      PROVE  lease'[r] # "held"
  <2> USE DEF InHand
  <2>1. ASSUME NEW s \in Requests, Submit(s)
        PROVE  lease'[r] # "held"
    <3>1. UNCHANGED sending
      BY <2>1 DEF Submit, Admit, RejectAdmission, CancelBeforeQueue, Enqueue,
                  RejectQueueFull, GaugeInc, TakeResponse, CancelWaiting, runVars, flushVars
    <3>2. CASE Admit(s) \/ Enqueue(s) \/ GaugeInc(s)
      BY <1>4, <3>1, <3>2 DEF TypeOK, Admit, Enqueue, GaugeInc
    <3>3. CASE RejectAdmission(s)
      <4>1. r = s
        BY <1>4, <3>1, <3>3 DEF TypeOK, RejectAdmission, Return
      <4> QED
        BY <3>3, <4>1 DEF RejectAdmission, LeaseInvariant, leaseVars
    <3>4. CASE CancelBeforeQueue(s) \/ RejectQueueFull(s) \/ CancelWaiting(s)
      <4>1. r = s
        BY <1>4, <3>1, <3>4 DEF TypeOK, CancelBeforeQueue, RejectQueueFull, CancelWaiting,
                                Return
      <4> QED
        BY <1>2, <3>4, <4>1 DEF CancelBeforeQueue, RejectQueueFull, CancelWaiting
    <3>5. CASE TakeResponse(s)
      BY <1>4, <3>1, <3>5 DEF TypeOK, TakeResponse, Return
    <3> QED
      BY <2>1, <3>2, <3>3, <3>4, <3>5 DEF Submit
  <2>2. CASE Filter
    <3>1. Head(batch) \in Requests
      BY <2>2 DEF TypeOK, Filter
    <3>2. sending'.req = Head(batch) /\ Release(Head(batch))
      <4>1. CASE UNCHANGED sending
        BY <1>4, <2>2, <4>1 DEF Filter, submitVars
      <4>2. CASE /\ Release(Head(batch))
                 /\ sending' = [req |-> Head(batch),
                                resp |-> errorResponse("request_cancelled")]
        BY <4>2
      <4> QED
        BY <2>2, <4>1, <4>2 DEF Filter
    <3>3. r = Head(batch)
      BY <1>4, <2>2, <3>2 DEF Filter, submitVars
    <3> QED
      BY <1>2, <3>1, <3>2, <3>3
  <2>3. CASE Deliver
    <3>1. sending' = Head(outbox) /\ Release(Head(outbox).req)
      BY <2>3 DEF Deliver
    <3>2. r = Head(outbox).req
      BY <1>4, <2>3, <3>1 DEF Deliver, submitVars
    <3> QED
      BY <1>2, <3>1, <3>2
  <2>4. CASE SendResponse
    <3>1. sending.req # r
      BY <1>4, BatcherAssumption
    <3>2. UNCHANGED pc /\ respChan'[r] = respChan[r]
      BY <2>4, <3>1 DEF SendResponse, TypeOK
    <3>3. r \notin InHand'
      BY <2>4 DEF SendResponse, NoAnswer
    <3> QED
      BY <1>4, <3>2, <3>3
  <2>5. CASE \/ Run /\ ~Filter /\ ~Deliver /\ ~SendResponse
             \/ TimerFires \/ WindowElapses \/ Probe \/ UNCHANGED vars
             \/ \E s \in Requests : ClientCancels(s)
    BY <1>4, <2>5 DEF Run, Receive, GaugeDec, ArmTimer, Decide, TimerTick, Flush, EndFilter,
         FlushCircuit, FlushSample, FlushWrite, EndFlush, WorkerCall, WorkerFails,
         WorkerAnswers, TimerFires, WindowElapses, Probe, ProbeReady, ProbeWorkers,
         ProbeWrite, ClientCancels, vars, runVars, submitVars, flushVars
  <2>6. ASSUME NEW s \in Requests, Handoff(s)
        PROVE  lease'[r] # "held"
    BY <1>4, <2>6 DEF TypeOK, Handoff, flushVars
  <2> QED
    BY <2>1, <2>2, <2>3, <2>4, <2>5, <2>6 DEF Next
<1> QED
  BY <1>3, <1>4

\* Nothing is admitted, queued or answered at the start.
LEMMA LeaseInvariantInit == Init => LeaseInvariant
<1> SUFFICES ASSUME Init
             PROVE  LeaseInvariant
  OBVIOUS
<1>1. Holders = {}
  BY DEF Init, Holders
<1>2. TokensExact /\ WithinBudget
  BY <1>1, TokensOfNone, BatcherAssumption DEF Init, TokensExact, WithinBudget
<1>3. Pipeline = {}
  BY DEF Init, Pipeline, Range, Owed, InHand, NoAnswer
<1> QED
  BY <1>2, <1>3 DEF Init, LeaseInvariant, ReturnedReleased, Queued, Pipeline

\* The admission invariant is inductive relative to the types.
LEMMA LeaseInvariantStep == TypeOK /\ LeaseInvariant /\ [Next]_vars => LeaseInvariant'
<1> SUFFICES ASSUME TypeOK, LeaseInvariant, [Next]_vars
             PROVE  LeaseInvariant'
  OBVIOUS
<1>1. TokensExact' /\ WithinBudget'
  <2>1. CASE UNCHANGED leaseVars
    BY <2>1 DEF leaseVars, LeaseInvariant, TokensExact, WithinBudget, Holders
  <2> QED
    BY <2>1, LeaseStep, AdmitAccounting, ReleaseAccounting DEF LeaseInvariant
<1>2. ASSUME NEW r \in Requests, pc'[r] = "start"
      PROVE  lease'[r] = "none"
  <2>1. pc[r] = "start" /\ lease[r] = "none"
    BY <1>2, NeverRestarted DEF LeaseInvariant
  <2>2. ASSUME NEW s \in Requests, Admit(s)
        PROVE  lease'[r] = "none"
    BY <1>2, <2>1, <2>2 DEF TypeOK, Admit
  <2>3. ASSUME NEW s \in Requests, Release(s)
        PROVE  lease'[r] = "none"
    BY <2>1, <2>3 DEF TypeOK, Release
  <2> QED
    BY <2>1, <2>2, <2>3, LeaseStep DEF leaseVars
<1>3. ASSUME NEW r \in Requests, Queued(r)'
      PROVE  pc'[r] \notin {"start", "admitted"}
  <2>1. CASE pc'[r] = "sent"
    BY <2>1
  <2>2. CASE Queued(r)
    BY <2>2, NeverRestarted DEF LeaseInvariant
  <2> QED
    BY <1>3, <2>1, <2>2, PipelineStep
<1>4. \A r \in Requests :
        \/ r \in InHand' \/ respChan'[r] # NoResponse \/ pc'[r] = "returned"
        => lease'[r] # "held"
  BY SettledStep
<1> QED
  BY <1>1, <1>2, <1>3, <1>4 DEF LeaseInvariant, ReturnedReleased

\* The admission controller's token count is exact, for every set of requests
\* and every estimate, however submit, flush and cancellation interleave, and
\* whichever way submit returns, its lease has been released by then.
THEOREM LeaseAccountingHolds == Spec => []LeaseAccounting
<1>1. LeaseInvariant => LeaseAccounting
  BY DEF LeaseInvariant, LeaseAccounting
<1> QED
  BY <1>1, LeaseInvariantInit, LeaseInvariantStep, TypeCorrect, PTL DEF Spec

\* The tokens of the admitted requests never exceed the configured budget.
THEOREM WithinBudgetHolds == Spec => []WithinBudget
<1>1. LeaseInvariant => WithinBudget
  BY DEF LeaseInvariant
<1> QED
  BY <1>1, LeaseInvariantInit, LeaseInvariantStep, TypeCorrect, PTL DEF Spec

-----------------------------------------------------------------------------
(* The flush timer.                                                        *)

\* run starts with an empty batch and no timer.
LEMMA TimerInvariantInit == Init => TimerInvariant
BY DEF Init, TimerInvariant, TimerGuardsBatch

\* The timer invariant is inductive: every branch of run's select that fills or
\* empties the batch also arms or clears the timer.
LEMMA TimerInvariantStep == TypeOK /\ TimerInvariant /\ [Next]_vars => TimerInvariant'
<1> SUFFICES ASSUME TypeOK, TimerInvariant, [Next]_vars
             PROVE  TimerInvariant'
  OBVIOUS
<1> USE DEF TimerInvariant, TimerGuardsBatch
<1>1. CASE UNCHANGED <<runPc, batch, timerVars>>
  BY <1>1 DEF timerVars
<1>2. ASSUME NEW r \in Requests, Submit(r) \/ ClientCancels(r)
      PROVE  UNCHANGED <<runPc, batch, timerVars>>
  BY <1>2 DEF Submit, Admit, RejectAdmission, CancelBeforeQueue, Enqueue,
              RejectQueueFull, GaugeInc, TakeResponse, CancelWaiting, ClientCancels, runVars
<1>3. ASSUME NEW r \in Requests, Handoff(r)
      PROVE  TimerInvariant'
  <2>1. batch' # <<>> /\ (batch = <<>> => Len(batch') = 1)
    <3>1. batch \in Seq(Requests) /\ batch' = Append(batch, r)
      BY <1>3 DEF Handoff, TypeOK
    <3> QED
      BY <3>1, AppendProperties
  <2> QED
    BY <1>3, <2>1 DEF Handoff, timerVars
<1>4. CASE Receive
  <2>1. batch' # <<>> /\ (batch = <<>> => Len(batch') = 1)
    <3>1. batch \in Seq(Requests) /\ queue \in Seq(Requests) /\ queue # <<>>
      BY <1>4 DEF Receive, TypeOK
    <3>2. Head(queue) \in Requests
      BY <3>1, HeadTailProperties
    <3>3. Append(batch, Head(queue)) # <<>> /\ Len(Append(batch, Head(queue))) = Len(batch) + 1
      BY <3>1, <3>2, AppendProperties
    <3> QED
      BY <1>4, <3>3 DEF Receive
  <2> QED
    BY <1>4, <2>1 DEF Receive, timerVars
<1>5. CASE GaugeDec
  BY <1>5 DEF GaugeDec, AfterReceive, timerVars
<1>6. CASE ArmTimer
  BY <1>6 DEF ArmTimer
<1>7. CASE Decide
  BY <1>7 DEF Decide, StopTimer, timerVars
<1>8. CASE TimerTick
  <2>1. Len(batch) > 0 <=> batch # <<>>
    BY DEF TypeOK
  <2> QED
    BY <1>8, <2>1 DEF TimerTick
<1>9. CASE Filter
  BY <1>9 DEF Filter, timerVars
<1>10. CASE EndFilter
  BY <1>10 DEF EndFilter, timerVars
<1>11. ASSUME runPc \in {"circuit", "ready", "unready", "rpc", "deliver"},
              runPc' \notin {"received", "arm", "decide"},
              UNCHANGED <<batch, timerVars>>
       PROVE  TimerInvariant'
  BY <1>11 DEF timerVars
<1>12. CASE FlushCircuit \/ FlushSample \/ FlushWrite \/ Deliver \/ EndFlush \/ WorkerCall
  BY <1>11, <1>12 DEF FlushCircuit, FlushSample, FlushWrite, Deliver, EndFlush, WorkerCall,
                      WorkerFails, WorkerAnswers, ActOnCircuit
<1>13. CASE TimerFires
  BY <1>13 DEF TimerFires
<1>14. SendResponse \/ WindowElapses \/ Probe \/ UNCHANGED vars
         => UNCHANGED <<runPc, batch, timerVars>>
  BY DEF SendResponse, WindowElapses, Probe, ProbeReady, ProbeWorkers, ProbeWrite, vars,
         runVars
<1> QED
  BY <1>1, <1>2, <1>3, <1>4, <1>5, <1>6, <1>7, <1>8, <1>9, <1>10, <1>12, <1>13, <1>14
     DEF Next, Run, Flush

\* run never waits with requests in hand and no timer to wake it, nor keeps a
\* stale timer for an empty batch.
THEOREM TimerGuardsBatchHolds == Spec => []TimerGuardsBatch
<1>1. TimerInvariant => TimerGuardsBatch
  BY DEF TimerInvariant
<1> QED
  BY <1>1, TimerInvariantInit, TimerInvariantStep, TypeCorrect, PTL DEF Spec

-----------------------------------------------------------------------------
(* The aggregate circuit breaker.                                          *)

\* isCircuitOpen reports a closed circuit only below the threshold, and leaves
\* the circuit open only above it.
LEMMA CircuitCheckResult ==
  ASSUME TypeOK, CircuitInvariant, NEW open \in BOOLEAN, CircuitCheck(open)
  PROVE  /\ circuitOpen' = open
         /\ open => failureCount' >= Threshold
         /\ ~open => failureCount' < Threshold
         /\ ~circuitOpen /\ failureCount < Threshold => ~open
<1>1. failureCount \in Nat /\ circuitOpen \in BOOLEAN /\ windowElapsed \in BOOLEAN
  BY DEF TypeOK
<1>2. /\ Threshold \in Nat \ {0}
      /\ circuitOpen => failureCount >= Threshold
  BY BatcherAssumption DEF CircuitInvariant, OpenCircuitHasFailures
<1>3. circuitOpen' = open
  BY DEF CircuitCheck
<1>4. CASE circuitOpen /\ windowElapsed
  <2>1. ~open /\ failureCount' = 0
    BY <1>4 DEF CircuitCheck
  <2> QED
    BY <1>2, <1>3, <1>4, <2>1
<1>5. CASE circuitOpen /\ ~windowElapsed
  <2>1. open /\ failureCount' = failureCount
    BY <1>5 DEF CircuitCheck
  <2> QED
    BY <1>2, <1>3, <1>5, <2>1
<1>6. CASE ~circuitOpen
  <2>1. (open <=> failureCount >= Threshold) /\ failureCount' = failureCount
    BY <1>6 DEF CircuitCheck
  <2> QED
    BY <1>1, <1>2, <1>3, <2>1
<1> QED
  BY <1>4, <1>5, <1>6

\* Overwriting the aggregate state with a readiness sample keeps the two fields
\* consistent.
LEMMA ReadinessWriteResult ==
  ASSUME TypeOK, NEW ready \in BOOLEAN, ReadinessWrite(ready)
  PROVE  circuitOpen' => failureCount' >= Threshold
<1>1. failureCount \in Nat /\ Threshold \in Nat
  BY BatcherAssumption DEF TypeOK
<1>2. CASE ready
  BY <1>2 DEF ReadinessWrite
<1>3. CASE ~ready
  BY <1>1, <1>3 DEF ReadinessWrite, MaxDuration
<1> QED
  BY <1>2, <1>3

\* The circuit starts closed with no failures.
LEMMA CircuitInvariantInit == Init => CircuitInvariant
BY DEF Init, CircuitInvariant, OpenCircuitHasFailures, CallsThroughClosedCircuit

\* The circuit invariant is inductive across the flush and the readiness probe.
LEMMA CircuitInvariantStep ==
  TypeOK /\ CircuitInvariant /\ [Next]_vars => CircuitInvariant'
<1> SUFFICES ASSUME TypeOK, CircuitInvariant, [Next]_vars
             PROVE  CircuitInvariant'
  OBVIOUS
<1> USE DEF CircuitInvariant, OpenCircuitHasFailures, CallsThroughClosedCircuit
<1>1. /\ failureCount \in Nat /\ Threshold \in Nat \ {0}
      /\ circuitOpen \in BOOLEAN /\ ReadinessProvider \in BOOLEAN
  BY BatcherAssumption DEF TypeOK
<1>2. CASE /\ UNCHANGED <<circuitVars, probePc>>
           /\ runPc' = "rpc" => runPc = "rpc"
           /\ runPc' \in {"ready", "unready"} => ReadinessProvider
  BY <1>2 DEF circuitVars
<1>3. ASSUME NEW r \in Requests, Submit(r) \/ Handoff(r) \/ ClientCancels(r)
      PROVE  /\ UNCHANGED <<circuitVars, probePc>>
             /\ runPc' \in {runPc, "received"}
  BY <1>3 DEF Submit, Admit, RejectAdmission, CancelBeforeQueue, Enqueue,
              RejectQueueFull, GaugeInc, TakeResponse, CancelWaiting, Handoff,
              ClientCancels, runVars
<1>4. \/ Receive \/ GaugeDec \/ ArmTimer \/ Decide \/ TimerTick \/ Filter \/ EndFilter
      \/ FlushSample \/ Deliver \/ SendResponse \/ EndFlush \/ TimerFires \/ UNCHANGED vars
      => /\ UNCHANGED <<circuitVars, probePc>>
         /\ runPc' = "rpc" => runPc = "rpc"
         /\ runPc' \in {"ready", "unready"} => ReadinessProvider
  BY DEF Receive, AfterReceive, GaugeDec, ArmTimer, Decide, TimerTick, Filter, EndFilter,
         FlushSample, Deliver, SendResponse, EndFlush, TimerFires, vars, runVars
<1>5. CASE FlushCircuit
  <2>1. PICK open \in BOOLEAN : CircuitCheck(open) /\ ActOnCircuit(open)
    BY <1>5 DEF FlushCircuit
  <2>2. runPc' \in {"rpc", "deliver"} /\ (runPc' = "rpc" => ~open)
    BY <2>1 DEF ActOnCircuit
  <2>3. /\ circuitOpen' = open
        /\ open => failureCount' >= Threshold
        /\ ~open => failureCount' < Threshold
    BY <2>1, CircuitCheckResult
  <2> QED
    BY <1>5, <2>2, <2>3 DEF FlushCircuit
<1>6. CASE FlushWrite
  <2>1. ReadinessProvider /\ runPc' \in {"rpc", "deliver"}
    BY <1>6 DEF FlushWrite, ActOnCircuit
  <2>2. circuitOpen' => failureCount' >= Threshold
    BY <1>6, ReadinessWriteResult DEF FlushWrite
  <2> QED
    BY <2>1, <2>2
<1>7. CASE WorkerCall
  <2>1. ASSUME NEW code, WorkerFails(code)
        PROVE  CircuitInvariant'
    BY <1>1, <2>1 DEF WorkerFails
  <2>2. ASSUME NEW answered, WorkerAnswers(answered)
        PROVE  CircuitInvariant'
    BY <2>2 DEF WorkerAnswers, RecordSuccess
  <2> QED
    BY <1>7, <2>1, <2>2 DEF WorkerCall
<1>8. CASE WindowElapses
  BY <1>8 DEF WindowElapses
<1>9. CASE ProbeReady
  <2>1. PICK open \in BOOLEAN : CircuitCheck(open)
    BY <1>9 DEF ProbeReady
  <2>2. /\ circuitOpen' = open
        /\ open => failureCount' >= Threshold
        /\ ~open => failureCount' < Threshold
        /\ ~circuitOpen /\ failureCount < Threshold => ~open
    BY <2>1, CircuitCheckResult
  <2> QED
    BY <1>9, <2>2 DEF ProbeReady
<1>10. CASE ProbeWorkers
  BY <1>10 DEF ProbeWorkers, circuitVars
<1>11. CASE ProbeWrite
  <2>1. ReadinessProvider
    BY <1>11 DEF ProbeWrite
  <2>2. circuitOpen' => failureCount' >= Threshold
    BY <1>11, ReadinessWriteResult DEF ProbeWrite
  <2> QED
    BY <2>1, <2>2
<1> QED
  BY <1>2, <1>3, <1>4, <1>5, <1>6, <1>7, <1>8, <1>9, <1>10, <1>11
     DEF Next, Run, Flush, Probe

\* The circuit is open only on a recorded run of failures, although several
\* goroutines write the two fields.
THEOREM OpenCircuitHasFailuresHolds == Spec => []OpenCircuitHasFailures
<1>1. CircuitInvariant => OpenCircuitHasFailures
  BY DEF CircuitInvariant
<1> QED
  BY <1>1, CircuitInvariantInit, CircuitInvariantStep, TypeCorrect, PTL DEF Spec

\* Without a readiness provider no worker call goes through an open circuit.
THEOREM CallsThroughClosedCircuitHolds == Spec => []CallsThroughClosedCircuit
<1>1. CircuitInvariant => CallsThroughClosedCircuit
  BY DEF CircuitInvariant
<1> QED
  BY <1>1, CircuitInvariantInit, CircuitInvariantStep, TypeCorrect, PTL DEF Spec

-----------------------------------------------------------------------------
(* The requests of the answers that flush has to deliver.                  *)

Reqs(box) == [i \in 1..Len(box) |-> box[i].req]

\* They are a sequence of requests, and Owed is its range.
LEMMA ReqsType ==
  ASSUME NEW box \in Seq(Delivery)
  PROVE  /\ Reqs(box) \in Seq(Requests) /\ Len(Reqs(box)) = Len(box)
         /\ \A i \in 1..Len(box) : Reqs(box)[i] = box[i].req /\ box[i] \in Delivery
         /\ {box[i].req : i \in DOMAIN box} = Range(Reqs(box))
         /\ IsInjective(Reqs(box)) <=> \A i, j \in DOMAIN box : box[i].req = box[j].req => i = j
         /\ DOMAIN box = 1..Len(box) /\ DOMAIN Reqs(box) = 1..Len(box)
<1>1. /\ Len(box) \in Nat /\ DOMAIN box = 1..Len(box)
      /\ \A i \in 1..Len(box) : box[i] \in Delivery
  BY LenProperties, ElementOfSeq
<1>2. \A i \in 1..Len(box) : box[i].req \in Requests
  BY <1>1 DEF Delivery
<1>3. Reqs(box) \in Seq(Requests) /\ Len(Reqs(box)) = Len(box)
  BY <1>1, <1>2 DEF Reqs
<1>4. DOMAIN Reqs(box) = 1..Len(box) /\ \A i \in 1..Len(box) : Reqs(box)[i] = box[i].req
  BY DEF Reqs
<1>5. {box[i].req : i \in DOMAIN box} = Range(Reqs(box))
  BY <1>1, <1>4 DEF Range
<1>6. IsInjective(Reqs(box)) <=> \A i, j \in DOMAIN box : box[i].req = box[j].req => i = j
  BY <1>1, <1>4 DEF IsInjective
<1> QED
  BY <1>1, <1>3, <1>4, <1>5, <1>6

\* Taking the first one off.
LEMMA ReqsTail ==
  ASSUME NEW box \in Seq(Delivery), box # << >>
  PROVE  /\ Reqs(box) # << >> /\ Reqs(Tail(box)) = Tail(Reqs(box))
         /\ Head(Reqs(box)) = Head(box).req /\ Head(box) \in Delivery
         /\ Tail(box) \in Seq(Delivery)
         /\ \A i \in DOMAIN Tail(box) : i + 1 \in DOMAIN box /\ Tail(box)[i] = box[i + 1]
         /\ 1 \in DOMAIN box /\ Head(box) = box[1]
<1>1. /\ Len(box) \in Nat \ {0} /\ Head(box) = box[1] /\ Head(box) \in Delivery
      /\ Tail(box) \in Seq(Delivery) /\ Len(Tail(box)) = Len(box) - 1
      /\ \A i \in 1..(Len(box) - 1) : Tail(box)[i] = box[i + 1]
  BY HeadTailProperties
<1>2. /\ Reqs(box) \in Seq(Requests) /\ Len(Reqs(box)) = Len(box)
      /\ \A i \in 1..Len(box) : Reqs(box)[i] = box[i].req
      /\ DOMAIN box = 1..Len(box)
  BY ReqsType
<1>3. Reqs(box) # << >> /\ Head(Reqs(box)) = Head(box).req
  BY <1>1, <1>2
<1>4. /\ Tail(Reqs(box)) \in Seq(Requests) /\ Len(Tail(Reqs(box))) = Len(box) - 1
      /\ \A i \in 1..(Len(box) - 1) : Tail(Reqs(box))[i] = Reqs(box)[i + 1]
  BY <1>2, <1>3, HeadTailProperties
<1>5. /\ Reqs(Tail(box)) \in Seq(Requests) /\ Len(Reqs(Tail(box))) = Len(box) - 1
      /\ \A i \in 1..(Len(box) - 1) : Reqs(Tail(box))[i] = Tail(box)[i].req
      /\ DOMAIN Tail(box) = 1..(Len(box) - 1)
  BY <1>1, ReqsType
<1>6. \A i \in 1..(Len(box) - 1) : i + 1 \in 1..Len(box)
  BY <1>1
<1>7. \A i \in 1..(Len(box) - 1) : Reqs(Tail(box))[i] = Tail(Reqs(box))[i]
  BY <1>1, <1>2, <1>4, <1>5, <1>6
<1>8. Reqs(Tail(box)) = Tail(Reqs(box))
  BY <1>4, <1>5, <1>7, SeqEqual
<1>9. \A i \in DOMAIN Tail(box) : i + 1 \in DOMAIN box /\ Tail(box)[i] = box[i + 1]
  BY <1>1, <1>2, <1>5, <1>6
<1>10. 1 \in DOMAIN box
  BY <1>1, <1>2
<1> QED
  BY <1>1, <1>3, <1>8, <1>9, <1>10

\* flush answers the requests of the batch, in their order.
LEMMA ReqsDeliveries ==
  ASSUME NEW seq \in Seq(Requests), NEW resp, \A r \in Range(seq) : resp[r] \in Response
  PROVE  Reqs(Deliveries(seq, resp)) = seq /\ Deliveries(seq, resp) \in Seq(Delivery)
<1>1. /\ Deliveries(seq, resp) \in Seq(Delivery)
      /\ Len(Deliveries(seq, resp)) = Len(seq)
      /\ \A i \in 1..Len(seq) : Deliveries(seq, resp)[i].req = seq[i]
  BY DeliveriesType
<1>2. /\ Reqs(Deliveries(seq, resp)) \in Seq(Requests)
      /\ Len(Reqs(Deliveries(seq, resp))) = Len(seq)
      /\ \A i \in 1..Len(seq) : Reqs(Deliveries(seq, resp))[i] = Deliveries(seq, resp)[i].req
  BY <1>1, ReqsType
<1>3. \A i \in 1..Len(seq) : Reqs(Deliveries(seq, resp))[i] = seq[i]
  BY <1>1, <1>2
<1>4. Reqs(Deliveries(seq, resp)) = seq
  BY <1>2, <1>3, SeqEqual
<1> QED
  BY <1>1, <1>4

-----------------------------------------------------------------------------
(* Where a request is.  OnePlace in three parts: no list holds a request   *)
(* twice, no two places share one, and the control point of a submit call  *)
(* and its response channel agree with them.                               *)

Lists ==
  IsInjective(queue) /\ IsInjective(batch) /\ IsInjective(active) /\ IsInjective(Reqs(outbox))

Apart ==
  /\ Range(queue) \cap (Range(batch) \cup Range(active) \cup Owed \cup InHand) = {}
  /\ Range(batch) \cap (Range(active) \cup Owed \cup InHand) = {}
  /\ Range(active) \cap (Owed \cup InHand) = {}
  /\ Owed \cap InHand = {}

Standing(r) ==
  /\ r \in Pipeline => pc[r] \in {"sent", "waiting", "returned"}
  /\ respChan[r] # NoResponse => /\ r \notin Pipeline
                                 /\ pc[r] \in {"sent", "waiting", "returned"}
  /\ pc[r] \in {"sent", "waiting"} => r \in Pipeline \/ respChan[r] # NoResponse
  /\ pc[r] = "returned" /\ (r \in Pipeline \/ respChan[r] # NoResponse) => cancelled[r]

\* The parts make up OnePlace, before a step and after it.
LEMMA OnePlaceParts ==
  ASSUME TypeOK, TypeOK'
  PROVE  /\ OnePlace <=> Lists /\ Apart /\ \A r \in Requests : Standing(r)
         /\ OnePlace' <=> Lists' /\ Apart' /\ \A r \in Requests : Standing(r)'
<1>1. outbox \in Seq(Delivery) /\ outbox' \in Seq(Delivery)
  BY DEF TypeOK
<1>2. /\ IsInjective(Reqs(outbox)) <=>
           \A i, j \in DOMAIN outbox : outbox[i].req = outbox[j].req => i = j
      /\ IsInjective(Reqs(outbox')) <=>
           \A i, j \in DOMAIN outbox' : outbox'[i].req = outbox'[j].req => i = j
  BY <1>1, ReqsType
<1>3. OnePlace <=> Lists /\ Apart /\ \A r \in Requests : Standing(r)
  BY <1>2 DEF OnePlace, Lists, Apart, Standing
<1>4. OnePlace' <=> Lists' /\ Apart' /\ \A r \in Requests : Standing(r)'
  BY <1>2 DEF OnePlace, Lists, Apart, Standing
<1> QED
  BY <1>3, <1>4

\* A pending send has a request and a response.
LEMMA SendingType ==
  ASSUME NEW s \in Delivery \cup {NoAnswer}
  PROVE  /\ s = NoAnswer => {s.req} \ {NoRequest} = {}
         /\ s # NoAnswer => /\ s.req \in Requests /\ {s.req} \ {NoRequest} = {s.req}
                            /\ s.resp \in Response /\ s.resp # NoResponse
<1>1. NoAnswer.req = NoRequest
  BY DEF NoAnswer
<1>2. s \in Delivery => s.req \in Requests /\ s.resp \in Response
  BY DEF Delivery
<1>3. NoResponse \notin Response
  BY DEF NoResponse, Response, ErrorCodes
<1>4. \A r \in Requests : r # NoRequest
  BY BatcherAssumption
<1> QED
  BY <1>1, <1>2, <1>3, <1>4

\* What is owed and what is in hand, before a step and after it.
LEMMA OwedAndInHand ==
  ASSUME TypeOK, TypeOK'
  PROVE  /\ Owed = Range(Reqs(outbox)) /\ Owed' = Range(Reqs(outbox'))
         /\ sending = NoAnswer => InHand = {}
         /\ sending # NoAnswer => sending.req \in Requests /\ InHand = {sending.req}
         /\ sending' = NoAnswer => InHand' = {}
         /\ sending' # NoAnswer => sending'.req \in Requests /\ InHand' = {sending'.req}
         /\ sending # NoAnswer => sending.resp \in Response /\ sending.resp # NoResponse
<1>1. outbox \in Seq(Delivery) /\ outbox' \in Seq(Delivery)
  BY DEF TypeOK
<1>2. Owed = Range(Reqs(outbox)) /\ Owed' = Range(Reqs(outbox'))
  BY <1>1, ReqsType DEF Owed
<1>3. sending \in Delivery \cup {NoAnswer} /\ sending' \in Delivery \cup {NoAnswer}
  BY DEF TypeOK
<1>4. InHand = {sending.req} \ {NoRequest} /\ InHand' = {sending'.req} \ {NoRequest}
  BY DEF InHand
<1> QED
  BY <1>2, <1>3, <1>4, SendingType

\* A submit call may move on, and its context be cancelled, while the request
\* stays where it is.
LEMMA QuietPlaces ==
  ASSUME TypeOK, TypeOK', OnePlace,
         UNCHANGED <<queue, batch, active, outbox, sending, respChan>>,
         \A r \in Requests :
           /\ cancelled[r] => cancelled'[r]
           /\ \/ pc'[r] = pc[r]
              \/ ~Queued(r) /\ pc[r] \notin {"sent", "waiting"}
                            /\ pc'[r] \in {"admitted", "returned"}
              \/ pc[r] = "sent" /\ pc'[r] = "waiting"
              \/ pc[r] = "waiting" /\ pc'[r] = "returned" /\ cancelled[r]
  PROVE  OnePlace'
<1>1. Pipeline' = Pipeline /\ Lists' = Lists /\ Apart' = Apart
  BY DEF Pipeline, Lists, Apart, Owed, InHand
<1>2. ASSUME NEW r \in Requests, Standing(r)
      PROVE  Standing(r)'
  BY <1>1, <1>2 DEF Standing, Queued
<1> QED
  BY <1>1, <1>2, OnePlaceParts

\* run moves requests from one place to the next.
LEMMA MovedPlaces ==
  ASSUME TypeOK, TypeOK', OnePlace, Lists', Apart', Pipeline' = Pipeline,
         UNCHANGED <<pc, cancelled, respChan>>
  PROVE  OnePlace'
<1>1. ASSUME NEW r \in Requests, Standing(r)
      PROVE  Standing(r)'
  BY <1>1 DEF Standing
<1> QED
  BY <1>1, OnePlaceParts

\* submit puts its request into the channel, or hands it to run directly.
LEMMA EnqueuePlaces ==
  ASSUME TypeOK, TypeOK', OnePlace, NEW r \in Requests, Enqueue(r) \/ Handoff(r)
  PROVE  OnePlace'
<1>1. Lists /\ Apart /\ \A s \in Requests : Standing(s)
  BY OnePlaceParts
<1>2. pc[r] = "admitted" /\ r \notin Pipeline /\ respChan[r] = NoResponse
  BY <1>1 DEF Enqueue, Handoff, Standing
<1>3. /\ pc' = [pc EXCEPT ![r] = "sent"]
      /\ UNCHANGED <<cancelled, respChan, active, outbox, sending, Owed, InHand>>
  BY DEF Enqueue, Handoff, runVars, flushVars, Owed, InHand
<1>4. queue \in Seq(Requests) /\ batch \in Seq(Requests)
  BY DEF TypeOK
<1>5. /\ Lists' /\ Apart' /\ Pipeline' = Pipeline \cup {r}
  <2>1. CASE Enqueue(r)
    <3>1. queue' = Append(queue, r) /\ UNCHANGED batch
      BY <2>1 DEF Enqueue, runVars
    <3>2. Range(queue') = Range(queue) \cup {r} /\ IsInjective(queue')
      BY <1>1, <1>2, <1>4, <3>1, RangeAppend DEF Pipeline, Lists
    <3> QED
      BY <1>1, <1>2, <1>3, <3>1, <3>2 DEF Lists, Apart, Pipeline
  <2>2. CASE Handoff(r)
    <3>1. batch' = Append(batch, r) /\ UNCHANGED queue
      BY <2>2 DEF Handoff
    <3>2. Range(batch') = Range(batch) \cup {r} /\ IsInjective(batch')
      BY <1>1, <1>2, <1>4, <3>1, RangeAppend DEF Pipeline, Lists
    <3> QED
      BY <1>1, <1>2, <1>3, <3>1, <3>2 DEF Lists, Apart, Pipeline
  <2> QED
    BY <2>1, <2>2
<1>6. ASSUME NEW s \in Requests
      PROVE  Standing(s)'
  <2>1. CASE s = r
    BY <1>2, <1>3, <1>5, <2>1 DEF Standing, TypeOK
  <2>2. CASE s # r
    BY <1>1, <1>3, <1>5, <2>2 DEF Standing, TypeOK
  <2> QED
    BY <2>1, <2>2
<1> QED
  BY <1>5, <1>6, OnePlaceParts

\* submit takes the response out of its channel.
LEMMA TakePlaces ==
  ASSUME TypeOK, TypeOK', OnePlace, NEW r \in Requests, TakeResponse(r)
  PROVE  OnePlace'
<1>1. Lists /\ Apart /\ \A s \in Requests : Standing(s)
  BY OnePlaceParts
<1>2. /\ pc' = [pc EXCEPT ![r] = "returned"]
      /\ respChan' = [respChan EXCEPT ![r] = NoResponse] /\ respChan[r] # NoResponse
      /\ UNCHANGED <<cancelled, queue, batch, active, outbox, sending>>
  BY DEF TakeResponse, Return, runVars, flushVars
<1>3. Lists' /\ Apart' /\ Pipeline' = Pipeline
  BY <1>1, <1>2 DEF Lists, Apart, Pipeline, Owed, InHand
<1>4. ASSUME NEW s \in Requests
      PROVE  Standing(s)'
  <2>1. CASE s = r
    <3>1. pc'[s] = "returned" /\ respChan'[s] = NoResponse /\ s \notin Pipeline
      BY <1>1, <1>2, <2>1 DEF Standing, TypeOK
    <3> QED
      BY <1>3, <3>1 DEF Standing
  <2>2. CASE s # r
    BY <1>1, <1>2, <1>3, <2>2 DEF Standing, TypeOK
  <2> QED
    BY <2>1, <2>2
<1> QED
  BY <1>3, <1>4, OnePlaceParts

\* run receives a request.
LEMMA ReceivePlaces ==
  ASSUME TypeOK, TypeOK', OnePlace, Receive
  PROVE  OnePlace'
<1>1. Lists /\ Apart
  BY OnePlaceParts
<1>2. /\ queue \in Seq(Requests) /\ batch \in Seq(Requests)
      /\ queue # <<>> /\ queue' = Tail(queue) /\ batch' = Append(batch, Head(queue))
      /\ UNCHANGED <<pc, cancelled, respChan, active, outbox, sending>>
  BY DEF Receive, TypeOK, submitVars, flushVars
<1>3. /\ Range(queue') = Range(queue) \ {Head(queue)} /\ IsInjective(queue')
      /\ Head(queue) \in Range(queue) /\ Head(queue) \in Requests
  BY <1>1, <1>2, RangeTail DEF Lists
<1>4. Head(queue) \notin Range(batch)
  BY <1>1, <1>3 DEF Apart
<1>5. Range(batch') = Range(batch) \cup {Head(queue)} /\ IsInjective(batch')
  BY <1>1, <1>2, <1>3, <1>4, RangeAppend DEF Lists
<1>6. Owed' = Owed /\ InHand' = InHand
  BY <1>2 DEF Owed, InHand
<1>7. Lists'
  BY <1>1, <1>2, <1>3, <1>5 DEF Lists
<1>8. Apart' /\ Pipeline' = Pipeline
  BY <1>1, <1>2, <1>3, <1>5, <1>6 DEF Apart, Pipeline
<1> QED
  BY <1>2, <1>7, <1>8, MovedPlaces

\* flush drops a cancelled request from the batch or keeps it.
LEMMA FilterPlaces ==
  ASSUME TypeOK, TypeOK', OnePlace, Filter
  PROVE  OnePlace'
<1>1. Lists /\ Apart
  BY OnePlaceParts
<1>2. /\ batch \in Seq(Requests) /\ active \in Seq(Requests)
      /\ batch # <<>> /\ batch' = Tail(batch) /\ sending = NoAnswer
      /\ UNCHANGED <<pc, cancelled, respChan, queue, outbox>>
  BY DEF Filter, TypeOK, submitVars
<1>3. /\ Range(batch') = Range(batch) \ {Head(batch)} /\ IsInjective(batch')
      /\ Head(batch) \in Range(batch) /\ Head(batch) \in Requests
  BY <1>1, <1>2, RangeTail DEF Lists
<1>4. Owed' = Owed /\ InHand = {} /\ Head(batch) \notin Range(active)
  BY <1>1, <1>2, <1>3, OwedAndInHand DEF Owed, Apart
<1>5. CASE cancelled[Head(batch)]
  <2>1. /\ UNCHANGED active
        /\ sending' = [req |-> Head(batch), resp |-> errorResponse("request_cancelled")]
    BY <1>5 DEF Filter
  <2>2. sending'.req = Head(batch) /\ sending' # NoAnswer
    BY <1>3, <2>1, BatcherAssumption DEF NoAnswer
  <2>3. InHand' = {Head(batch)}
    BY <2>2, OwedAndInHand
  <2>4. Lists'
    BY <1>1, <1>2, <1>3, <2>1 DEF Lists
  <2>5. Apart' /\ Pipeline' = Pipeline
    BY <1>1, <1>2, <1>3, <1>4, <2>1, <2>3 DEF Apart, Pipeline
  <2> QED
    BY <1>2, <2>4, <2>5, MovedPlaces
<1>6. CASE ~cancelled[Head(batch)]
  <2>1. active' = Append(active, Head(batch)) /\ UNCHANGED sending
    BY <1>6 DEF Filter
  <2>2. Range(active') = Range(active) \cup {Head(batch)} /\ IsInjective(active')
    BY <1>1, <1>2, <1>3, <1>4, <2>1, RangeAppend DEF Lists
  <2>3. InHand' = InHand
    BY <2>1 DEF InHand
  <2>4. Lists'
    BY <1>1, <1>2, <1>3, <2>2 DEF Lists
  <2>5. Apart' /\ Pipeline' = Pipeline
    BY <1>1, <1>2, <1>3, <1>4, <2>2, <2>3 DEF Apart, Pipeline
  <2> QED
    BY <1>2, <2>4, <2>5, MovedPlaces
<1> QED
  BY <1>5, <1>6

\* Identifiers being different, responseMap holds for a request of the batch its
\* own result, or nothing.
LEMMA LookupOwn ==
  ASSUME TypeOK, IdInvariant, NEW answered \in SUBSET Requests, NEW r \in Requests,
         pc[r] # "start", \A s \in answered : pc[s] # "start"
  PROVE  LookupResponse(ResponseItems(answered), r)
           \in {OwnResult(r), errorResponse("missing_response")}
<1> DEFINE items == ResponseItems(answered)
<1>1. \A item \in items : item.id = id[r] => item.result = r
  <2> SUFFICES ASSUME NEW s \in answered, id[s] = id[r]
               PROVE  s = r
    BY DEF ResponseItems
  <2> QED
    BY DEF IdInvariant
<1>2. CASE \E item \in items : item.id = id[r]
  <2> DEFINE found == CHOOSE item \in items : item.id = id[r]
  <2>1. found \in items /\ found.id = id[r]
    BY <1>2
  <2>2. found.result = r
    BY <1>1, <2>1
  <2>3. LookupResponse(items, r) = [code |-> "ok", result |-> found.result]
    BY <1>2 DEF LookupResponse
  <2> QED
    BY <2>2, <2>3 DEF OwnResult
<1>3. CASE ~ \E item \in items : item.id = id[r]
  BY <1>3 DEF LookupResponse
<1> QED
  BY <1>2, <1>3

\* A step of flush between the filter loop and the delivery either leaves the
\* batch to the worker or answers all of it, and what it answers is justified.
Answered(resp) ==
  /\ outbox' = Deliveries(active, resp) /\ active' = <<>> /\ runPc' = "deliver"
  /\ \A r \in Range(active) :
       /\ resp[r] \in Response
       /\ IdInvariant /\ (\A s \in Range(active) : pc[s] # "start") => Justified(r, resp[r])

LEMMA AnswerStep ==
  ASSUME TypeOK, FlushCircuit \/ FlushSample \/ FlushWrite \/ WorkerCall
  PROVE  /\ runPc \in {"circuit", "ready", "unready", "rpc"}
         /\ UNCHANGED <<pc, cancelled, id, respChan, answer, leaseVars, nextID, queue, batch,
                        sending, timerVars, queueDepth>>
         /\ \/ /\ runPc' \in {"ready", "unready", "rpc"} /\ UNCHANGED <<active, outbox>>
            \/ \E resp : Answered(resp)
<1>1. /\ runPc \in {"circuit", "ready", "unready", "rpc"}
      /\ UNCHANGED <<pc, cancelled, id, respChan, answer, leaseVars, nextID, queue, batch,
                     sending, timerVars, queueDepth>>
  BY DEF FlushCircuit, FlushSample, FlushWrite, WorkerCall, WorkerFails, WorkerAnswers,
         submitVars, flushVars
<1>2. \A r \in Range(active) : r \in Requests
  BY RangeIs DEF TypeOK
<1>3. ASSUME NEW code \in ErrorCodes \ {"admission_rejected", "request_cancelled"},
             outbox' = Deliveries(active, [r \in Range(active) |-> errorResponse(code)]),
             active' = <<>>, runPc' = "deliver"
      PROVE  \E resp : Answered(resp)
  <2> DEFINE resp == [r \in Range(active) |-> errorResponse(code)]
  <2>1. errorResponse(code) \in Response
    BY ErrorResponseType
  <2>2. \A r \in Range(active) : resp[r] \in Response /\ Justified(r, resp[r])
    BY <2>1 DEF Justified, Failures
  <2>3. Answered(resp)
    BY <1>3, <2>2 DEF Answered
  <2> QED
    BY <2>3
<1>4. ASSUME NEW open, ActOnCircuit(open)
      PROVE  \/ runPc' = "rpc" /\ UNCHANGED <<active, outbox>>
             \/ \E resp : Answered(resp)
  <2>1. "worker_unavailable" \in ErrorCodes \ {"admission_rejected", "request_cancelled"}
    BY DEF ErrorCodes
  <2> QED
    BY <1>3, <1>4, <2>1 DEF ActOnCircuit
<1>5. CASE FlushCircuit \/ FlushWrite
  BY <1>1, <1>4, <1>5 DEF FlushCircuit, FlushWrite
<1>6. CASE FlushSample
  BY <1>1, <1>6 DEF FlushSample, flushVars
<1>7. ASSUME NEW code \in WorkerErrorCodes, WorkerFails(code)
      PROVE  \E resp : Answered(resp)
  <2>1. code \in ErrorCodes \ {"admission_rejected", "request_cancelled"}
    BY BatcherAssumption DEF ErrorCodes
  <2> QED
    BY <1>3, <1>7, <2>1 DEF WorkerFails
<1>8. ASSUME NEW answered \in SUBSET Requests, WorkerAnswers(answered)
      PROVE  \E resp : Answered(resp)
  <2> DEFINE resp == [r \in Range(active) |-> LookupResponse(ResponseItems(answered), r)]
  <2>1. answered \subseteq Range(active) /\ outbox' = Deliveries(active, resp)
        /\ active' = <<>> /\ runPc' = "deliver"
    BY <1>8 DEF WorkerAnswers
  <2>2. ASSUME NEW r \in Range(active)
        PROVE  /\ resp[r] \in Response
               /\ IdInvariant /\ (\A s \in Range(active) : pc[s] # "start")
                    => Justified(r, resp[r])
    <3>1. resp[r] = LookupResponse(ResponseItems(answered), r) /\ resp[r] \in Response
      BY <1>2, LookupType
    <3>2. ASSUME IdInvariant, \A s \in Range(active) : pc[s] # "start"
          PROVE  Justified(r, resp[r])
      <4>1. resp[r] \in {OwnResult(r), errorResponse("missing_response")}
        BY <1>2, <2>1, <3>1, <3>2, LookupOwn
      <4>2. errorResponse("missing_response") \in Failures
        BY DEF ErrorCodes, Failures
      <4> QED
        BY <4>1, <4>2 DEF Justified
    <3> QED
      BY <3>1, <3>2
  <2> HIDE DEF resp
  <2>3. Answered(resp)
    BY <2>1, <2>2 DEF Answered
  <2> QED
    BY <2>3
<1> QED
  BY <1>1, <1>5, <1>6, <1>7, <1>8 DEF WorkerCall

\* The batch moves to the answers that flush delivers.
LEMMA AnswerPlaces ==
  ASSUME TypeOK, TypeOK', PlaceInvariant,
         FlushCircuit \/ FlushSample \/ FlushWrite \/ WorkerCall
  PROVE  OnePlace'
<1>1. OnePlace /\ Lists /\ Apart
  BY OnePlaceParts DEF PlaceInvariant
<1>2. UNCHANGED <<pc, cancelled, respChan, queue, batch, sending>> /\ outbox = <<>>
  BY AnswerStep DEF PlaceInvariant
<1>3. InHand' = InHand
  BY <1>2 DEF InHand
<1>4. CASE UNCHANGED <<active, outbox>>
  BY <1>1, <1>2, <1>4, QuietPlaces
<1>5. ASSUME NEW resp, Answered(resp)
      PROVE  OnePlace'
  <2>1. active \in Seq(Requests)
    BY DEF TypeOK
  <2>2. Reqs(outbox') = active
    BY <1>5, <2>1, ReqsDeliveries DEF Answered
  <2>3. Owed' = Range(active) /\ Owed = {}
    <3>1. Reqs(outbox) = <<>>
      BY <1>2 DEF Reqs
    <3> QED
      BY <2>2, <3>1, OwedAndInHand DEF Range
  <2>4. Range(active') = {} /\ IsInjective(active')
    BY <1>5 DEF Answered, Range, IsInjective
  <2>5. Lists'
    BY <1>1, <1>2, <2>2, <2>4 DEF Lists
  <2>6. Apart' /\ Pipeline' = Pipeline
    BY <1>1, <1>2, <1>3, <2>3, <2>4 DEF Apart, Pipeline
  <2> QED
    BY <1>1, <1>2, <2>5, <2>6, MovedPlaces
<1> QED
  BY <1>4, <1>5, AnswerStep

\* deliverResponse takes the next answer in hand ...
LEMMA DeliverPlaces ==
  ASSUME TypeOK, TypeOK', OnePlace, Deliver
  PROVE  OnePlace'
<1>1. Lists /\ Apart
  BY OnePlaceParts
<1>2. /\ outbox \in Seq(Delivery) /\ outbox # <<>> /\ outbox' = Tail(outbox)
      /\ sending = NoAnswer /\ sending' = Head(outbox)
      /\ UNCHANGED <<pc, cancelled, respChan, queue, batch, active>>
  BY DEF Deliver, TypeOK, submitVars
<1>3. /\ Reqs(outbox) \in Seq(Requests) /\ Reqs(outbox) # <<>>
      /\ Reqs(outbox') = Tail(Reqs(outbox)) /\ Head(Reqs(outbox)) = sending'.req
      /\ sending' \in Delivery
  BY <1>2, ReqsType, ReqsTail
<1>4. /\ Range(Reqs(outbox')) = Range(Reqs(outbox)) \ {sending'.req}
      /\ IsInjective(Reqs(outbox')) /\ sending'.req \in Range(Reqs(outbox))
      /\ sending'.req \in Requests
  BY <1>1, <1>3, RangeTail DEF Lists
<1>5. sending' # NoAnswer
  BY <1>4, BatcherAssumption DEF NoAnswer
<1>6. Owed' = Owed \ {sending'.req} /\ sending'.req \in Owed
      /\ InHand = {} /\ InHand' = {sending'.req}
  BY <1>2, <1>4, <1>5, OwedAndInHand
<1>7. Lists'
  BY <1>1, <1>2, <1>4 DEF Lists
<1>8. Apart' /\ Pipeline' = Pipeline
  BY <1>1, <1>2, <1>6 DEF Apart, Pipeline
<1> QED
  BY <1>2, <1>7, <1>8, MovedPlaces

\* ... and sends it: the channel is empty, so the answer is never dropped.
LEMMA SendPlaces ==
  ASSUME TypeOK, TypeOK', OnePlace, SendResponse
  PROVE  OnePlace' /\ respChan' = [respChan EXCEPT ![sending.req] = sending.resp]
<1>1. Lists /\ Apart /\ \A s \in Requests : Standing(s)
  BY OnePlaceParts
<1>2. /\ sending # NoAnswer /\ sending' = NoAnswer
      /\ UNCHANGED <<pc, cancelled, queue, batch, active, outbox>>
  BY DEF SendResponse
<1>3. /\ sending.req \in Requests /\ InHand = {sending.req} /\ InHand' = {}
      /\ sending.resp # NoResponse
  BY <1>2, OwedAndInHand
<1>4. sending.req \in Pipeline /\ respChan[sending.req] = NoResponse
  BY <1>1, <1>3 DEF Standing, Pipeline
<1>5. respChan' = [respChan EXCEPT ![sending.req] = sending.resp]
  BY <1>3, <1>4 DEF SendResponse, TypeOK
<1>6. Owed' = Owed
  BY <1>2 DEF Owed
<1>7. Lists'
  BY <1>1, <1>2 DEF Lists
<1>8. Apart' /\ Pipeline' = Pipeline \ {sending.req}
  BY <1>1, <1>2, <1>3, <1>6 DEF Apart, Pipeline
<1>9. ASSUME NEW s \in Requests
      PROVE  Standing(s)'
  <2>1. CASE s = sending.req
    <3>1. respChan'[s] # NoResponse /\ s \notin Pipeline'
      BY <1>3, <1>5, <1>8, <2>1 DEF TypeOK
    <3> QED
      BY <1>1, <1>2, <1>4, <2>1, <3>1 DEF Standing
  <2>2. CASE s # sending.req
    <3>1. respChan'[s] = respChan[s] /\ (s \in Pipeline' <=> s \in Pipeline)
      BY <1>5, <1>8, <2>2 DEF TypeOK
    <3> QED
      BY <1>1, <1>2, <3>1 DEF Standing
  <2> QED
    BY <2>1, <2>2
<1> QED
  BY <1>5, <1>7, <1>8, <1>9, OnePlaceParts

\* The other steps of a submit call and of the client.
LEMMA SubmitQuiet ==
  ASSUME TypeOK, OnePlace, NEW r \in Requests,
         \/ Admit(r) \/ RejectAdmission(r) \/ CancelBeforeQueue(r) \/ RejectQueueFull(r)
         \/ GaugeInc(r) \/ CancelWaiting(r) \/ ClientCancels(r)
  PROVE  /\ UNCHANGED <<queue, batch, active, outbox, sending, respChan, runPc>>
         /\ \A s \in Requests :
              /\ cancelled[s] => cancelled'[s]
              /\ \/ pc'[s] = pc[s]
                 \/ ~Queued(s) /\ pc[s] \notin {"sent", "waiting"}
                               /\ pc'[s] \in {"admitted", "returned"}
                 \/ pc[s] = "sent" /\ pc'[s] = "waiting"
                 \/ pc[s] = "waiting" /\ pc'[s] = "returned" /\ cancelled[s]
<1>1. UNCHANGED <<queue, batch, active, outbox, sending, respChan, runPc>>
  BY DEF Admit, RejectAdmission, CancelBeforeQueue, RejectQueueFull, GaugeInc,
         CancelWaiting, ClientCancels, runVars, flushVars
<1>2. \A s \in Requests : cancelled[s] => cancelled'[s]
  BY DEF Admit, RejectAdmission, CancelBeforeQueue, RejectQueueFull, GaugeInc,
         CancelWaiting, ClientCancels, TypeOK
<1>3. pc[r] \in {"start", "admitted"} => ~Queued(r)
  BY DEF OnePlace, Queued
<1>4. \/ UNCHANGED pc
      \/ /\ pc[r] \in {"start", "admitted"}
         /\ \E v \in {"admitted", "returned"} : pc' = [pc EXCEPT ![r] = v]
      \/ pc[r] = "sent" /\ pc' = [pc EXCEPT ![r] = "waiting"]
      \/ pc[r] = "waiting" /\ cancelled[r] /\ pc' = [pc EXCEPT ![r] = "returned"]
  BY DEF Admit, RejectAdmission, CancelBeforeQueue, RejectQueueFull, GaugeInc,
         CancelWaiting, ClientCancels, Return
<1> QED
  BY <1>1, <1>2, <1>3, <1>4 DEF TypeOK

\* The steps of run, the clock and the probes that move no request.
LEMMA RunQuiet ==
  ASSUME \/ GaugeDec \/ ArmTimer \/ Decide \/ TimerTick \/ EndFilter \/ EndFlush
         \/ TimerFires \/ WindowElapses \/ Probe \/ UNCHANGED vars
  PROVE  UNCHANGED <<pc, cancelled, id, respChan, answer, leaseVars, nextID, queue, batch,
                     active, outbox, sending>>
BY DEF GaugeDec, ArmTimer, Decide, TimerTick, EndFilter, EndFlush, TimerFires, WindowElapses,
       Probe, ProbeReady, ProbeWorkers, ProbeWrite, vars, runVars, submitVars, flushVars

\* No request is anywhere at the start.
LEMMA PlaceInvariantInit == Init => PlaceInvariant
<1> SUFFICES ASSUME Init
             PROVE  PlaceInvariant
  OBVIOUS
<1>1. /\ Range(queue) = {} /\ Range(batch) = {} /\ Range(active) = {} /\ Owed = {}
      /\ InHand = {} /\ Pipeline = {}
  BY DEF Init, Range, Owed, InHand, NoAnswer, Pipeline
<1>2. /\ IsInjective(queue) /\ IsInjective(batch) /\ IsInjective(active)
      /\ \A i, j \in DOMAIN outbox : outbox[i].req = outbox[j].req => i = j
  BY DEF Init, IsInjective
<1>3. \A r \in Requests : pc[r] = "start" /\ respChan[r] = NoResponse
  BY DEF Init
<1>4. OnePlace
  BY <1>1, <1>2, <1>3 DEF OnePlace
<1> QED
  BY <1>4 DEF Init, PlaceInvariant

\* The lists of flush are filled and emptied in turn.
LEMMA PhaseStep ==
  ASSUME TypeOK, PlaceInvariant, [Next]_vars
  PROVE  /\ runPc' \notin {"filter", "circuit", "ready", "unready", "rpc"} => active' = <<>>
         /\ runPc' # "deliver" => outbox' = <<>>
         /\ sending' # NoAnswer => runPc' \in {"filter", "deliver"}
<1> USE DEF PlaceInvariant
<1>1. ASSUME NEW r \in Requests, Submit(r) \/ ClientCancels(r)
      PROVE  UNCHANGED <<active, outbox, sending, runPc>>
  BY <1>1 DEF Submit, Admit, RejectAdmission, CancelBeforeQueue, Enqueue,
              RejectQueueFull, GaugeInc, TakeResponse, CancelWaiting, ClientCancels,
              runVars, flushVars
<1>2. ASSUME \/ Receive \/ \E r \in Requests : Handoff(r)
      PROVE  /\ UNCHANGED <<active, outbox, sending>> /\ runPc = "select"
             /\ runPc' = "received"
  BY <1>2 DEF Receive, Handoff, flushVars
<1>3. CASE GaugeDec \/ ArmTimer \/ Decide \/ TimerTick
  BY <1>3 DEF GaugeDec, AfterReceive, ArmTimer, Decide, TimerTick, flushVars
<1>4. CASE Filter
  BY <1>4 DEF Filter
<1>5. CASE EndFilter \/ EndFlush
  BY <1>5 DEF EndFilter, EndFlush, flushVars
<1>6. CASE FlushCircuit \/ FlushSample \/ FlushWrite \/ WorkerCall
  BY <1>6, AnswerStep DEF Answered
<1>7. CASE Deliver \/ SendResponse
  BY <1>7 DEF Deliver, SendResponse
<1>8. TimerFires \/ WindowElapses \/ Probe \/ UNCHANGED vars
        => UNCHANGED <<active, outbox, sending, runPc>>
  BY DEF TimerFires, WindowElapses, Probe, ProbeReady, ProbeWorkers, ProbeWrite, vars,
         runVars, flushVars
<1> QED
  BY <1>1, <1>2, <1>3, <1>4, <1>5, <1>6, <1>7, <1>8 DEF Next, Run, Flush

\* PlaceInvariant is inductive relative to the types.
LEMMA PlaceInvariantStep == TypeOK /\ PlaceInvariant /\ [Next]_vars => PlaceInvariant'
<1> SUFFICES ASSUME TypeOK, PlaceInvariant, [Next]_vars
             PROVE  PlaceInvariant'
  OBVIOUS
<1>1. TypeOK' /\ OnePlace
  BY NextType DEF PlaceInvariant
<1> SUFFICES OnePlace'
  BY PhaseStep DEF PlaceInvariant
<1>2. ASSUME NEW r \in Requests, Submit(r) \/ ClientCancels(r)
      PROVE  OnePlace'
  <2>1. CASE Enqueue(r)
    BY <1>1, <2>1, EnqueuePlaces
  <2>2. CASE TakeResponse(r)
    BY <1>1, <2>2, TakePlaces
  <2>3. CASE \/ Admit(r) \/ RejectAdmission(r) \/ CancelBeforeQueue(r) \/ RejectQueueFull(r)
             \/ GaugeInc(r) \/ CancelWaiting(r) \/ ClientCancels(r)
    BY <1>1, <2>3, SubmitQuiet, QuietPlaces
  <2> QED
    BY <1>2, <2>1, <2>2, <2>3 DEF Submit
<1>3. ASSUME NEW r \in Requests, Handoff(r)
      PROVE  OnePlace'
  BY <1>1, <1>3, EnqueuePlaces
<1>4. CASE \/ GaugeDec \/ ArmTimer \/ Decide \/ TimerTick \/ EndFilter \/ EndFlush
           \/ TimerFires \/ WindowElapses \/ Probe \/ UNCHANGED vars
  <2>1. UNCHANGED <<pc, cancelled, respChan, queue, batch, active, outbox, sending>>
    BY <1>4, RunQuiet
  <2> QED
    BY <1>1, <2>1, QuietPlaces
<1>5. CASE Receive
  BY <1>1, <1>5, ReceivePlaces
<1>6. CASE Filter
  BY <1>1, <1>6, FilterPlaces
<1>7. CASE FlushCircuit \/ FlushSample \/ FlushWrite \/ WorkerCall
  BY <1>1, <1>7, AnswerPlaces
<1>8. CASE Deliver
  BY <1>1, <1>8, DeliverPlaces
<1>9. CASE SendResponse
  BY <1>1, <1>9, SendPlaces
<1> QED
  BY <1>2, <1>3, <1>4, <1>5, <1>6, <1>7, <1>8, <1>9 DEF Next, Run, Flush

\* PlaceInvariant holds throughout.
LEMMA PlaceInvariantHolds == Spec => []PlaceInvariant
BY PlaceInvariantInit, PlaceInvariantStep, TypeCorrect, PTL DEF Spec

\* For any number of requests and any capacity of the channel, a queued request
\* is in exactly one place until its submit call has returned, and only a
\* cancelled one outlives it: no answer is lost and none is delivered twice.
THEOREM OnePlaceHolds == Spec => []OnePlace
<1>1. PlaceInvariant => OnePlace
  BY DEF PlaceInvariant
<1> QED
  BY <1>1, PlaceInvariantHolds, PTL

\* flush never sends a request whose submit call has returned: the filter loop
\* looks at the context of each, and a request outlives its call only cancelled.
THEOREM AbandonedNotSentHolds == Spec => AbandonedNotSent
<1>1. ASSUME TypeOK, PlaceInvariant, [Next]_vars,
             NEW r \in Requests, r \in Range(active'), r \notin Range(active)
      PROVE  pc[r] # "returned"
  <2>1. CASE Filter
    <3>1. batch \in Seq(Requests) /\ active \in Seq(Requests) /\ batch # <<>>
      BY <1>1, <2>1 DEF TypeOK, Filter
    <3>2. ~cancelled[Head(batch)] /\ active' = Append(active, Head(batch))
      BY <1>1, <2>1 DEF Filter
    <3>3. Head(batch) \in Requests /\ Head(batch) \in Range(batch)
      BY <1>1, <3>1, RangeTail DEF PlaceInvariant, OnePlace
    <3>4. r = Head(batch)
      BY <1>1, <3>1, <3>2, <3>3, RangeAppend
    <3> QED
      BY <1>1, <3>2, <3>3, <3>4 DEF PlaceInvariant, OnePlace, Pipeline
  <2>2. CASE FlushCircuit \/ FlushSample \/ FlushWrite \/ WorkerCall
    <3>1. active' = <<>> \/ UNCHANGED active
      BY <1>1, <2>2, AnswerStep DEF Answered
    <3>2. Range(<<>>) = {}
      BY DEF Range
    <3> QED
      BY <1>1, <3>1, <3>2
  <2>3. CASE UNCHANGED active
    BY <1>1, <2>3
  <2>4. ASSUME NEW s \in Requests, Submit(s) \/ Handoff(s) \/ ClientCancels(s)
        PROVE  UNCHANGED active
    BY <2>4 DEF Submit, Admit, RejectAdmission, CancelBeforeQueue, Enqueue,
                RejectQueueFull, GaugeInc, TakeResponse, CancelWaiting, Handoff,
                ClientCancels, runVars, flushVars
  <2>5. ASSUME \/ Receive \/ GaugeDec \/ ArmTimer \/ Decide \/ TimerTick \/ EndFilter \/ EndFlush
               \/ Deliver \/ SendResponse
               \/ TimerFires \/ WindowElapses \/ Probe \/ UNCHANGED vars
        PROVE  UNCHANGED active
    BY <2>5, RunQuiet DEF Receive, Deliver, SendResponse, flushVars
  <2> QED
    BY <1>1, <2>1, <2>2, <2>3, <2>4, <2>5 DEF Next, Run, Flush
<1>2. ASSUME TypeOK, PlaceInvariant, [Next]_vars
      PROVE  [\A r \in Requests :
                r \in Range(active') /\ r \notin Range(active) => pc[r] # "returned"]_vars
  BY <1>1, <1>2
<1> QED
  BY <1>2, TypeCorrect, PlaceInvariantHolds, PTL DEF Spec, AbandonedNotSent

-----------------------------------------------------------------------------
(* The queue-depth gauge.                                                  *)

Sent == {r \in Requests : pc[r] = "sent"}

\* The submit calls that have sent their request and not yet counted it are
\* finitely many.
LEMMA SentFinite == IsFiniteSet(Sent) /\ Cardinality(Sent) \in Nat
<1>1. Sent \subseteq Requests
  BY DEF Sent
<1>2. IsFiniteSet(Sent)
  BY <1>1, BatcherAssumption, FS_Subset
<1> QED
  BY <1>2, FS_CardinalityType

\* One more of them, one less.
LEMMA SentChanges ==
  ASSUME NEW r \in Requests
  PROVE  /\ Cardinality(Sent) \in Int
         /\ r \notin Sent => Cardinality(Sent \cup {r}) = Cardinality(Sent) + 1
         /\ r \in Sent => Cardinality(Sent \ {r}) = Cardinality(Sent) - 1
<1>1. r \notin Sent => Cardinality(Sent \cup {r}) = Cardinality(Sent) + 1
  BY SentFinite, FS_AddElement
<1>2. r \in Sent => Cardinality(Sent \ {r}) = Cardinality(Sent) - 1
  BY SentFinite, FS_RemoveElement
<1> QED
  BY <1>1, <1>2, SentFinite

\* The gauge is inductive: a request enters the channel and Sent together and is
\* counted when it leaves Sent; it leaves the channel before it is discounted.
LEMMA GaugeStep == TypeOK /\ GaugeTracksQueue /\ [Next]_vars => GaugeTracksQueue'
<1> SUFFICES ASSUME TypeOK, GaugeTracksQueue, [Next]_vars
             PROVE  GaugeTracksQueue'
  OBVIOUS
<1>1. /\ queueDepth \in Int /\ queue \in Seq(Requests) /\ Len(queue) \in Nat
      /\ Undiscounted \in Int
  BY DEF TypeOK, Undiscounted
<1>2. /\ queueDepth = Len(queue) - Cardinality(Sent) + Undiscounted
      /\ GaugeTracksQueue'
           <=> queueDepth' = Len(queue') - Cardinality(Sent') + Undiscounted'
  BY DEF GaugeTracksQueue, Sent
<1>3. CASE UNCHANGED <<queue, queueDepth, Sent, Undiscounted>>
  BY <1>2, <1>3
<1>4. ASSUME NEW r \in Requests, Submit(r)
      PROVE  GaugeTracksQueue'
  <2>0. Undiscounted' = Undiscounted
    BY <1>4 DEF Submit, Admit, RejectAdmission, CancelBeforeQueue, Enqueue, RejectQueueFull,
                GaugeInc, TakeResponse, CancelWaiting, runVars, Undiscounted
  <2>1. CASE Enqueue(r)
    <3>1. Len(queue') = Len(queue) + 1 /\ queueDepth' = queueDepth
      BY <1>1, <2>1 DEF Enqueue
    <3>2. r \notin Sent /\ Sent' = Sent \cup {r}
      BY <2>1 DEF Enqueue, Sent, TypeOK
    <3> QED
      BY <1>1, <1>2, <2>0, <3>1, <3>2, SentChanges
  <2>2. CASE GaugeInc(r)
    <3>1. queue' = queue /\ queueDepth' = queueDepth + 1
      BY <2>2 DEF GaugeInc
    <3>2. r \in Sent /\ Sent' = Sent \ {r}
      BY <2>2 DEF GaugeInc, Sent, TypeOK
    <3> QED
      BY <1>1, <1>2, <2>0, <3>1, <3>2, SentChanges
  <2>3. CASE \/ Admit(r) \/ RejectAdmission(r) \/ CancelBeforeQueue(r) \/ RejectQueueFull(r)
             \/ TakeResponse(r) \/ CancelWaiting(r)
    <3>1. UNCHANGED <<queue, queueDepth>>
      BY <2>3 DEF Admit, RejectAdmission, CancelBeforeQueue, RejectQueueFull, TakeResponse,
                  CancelWaiting
    <3>2. /\ pc[r] # "sent"
          /\ \E v \in {"admitted", "returned"} : pc' = [pc EXCEPT ![r] = v]
      BY <2>3 DEF Admit, RejectAdmission, CancelBeforeQueue, RejectQueueFull, TakeResponse,
                  CancelWaiting, Return
    <3>3. Sent' = Sent
      BY <3>2 DEF Sent, TypeOK
    <3> QED
      BY <1>3, <2>0, <3>1, <3>3
  <2> QED
    BY <1>4, <2>1, <2>2, <2>3 DEF Submit
<1>5. ASSUME NEW r \in Requests, Handoff(r)
      PROVE  GaugeTracksQueue'
  <2>1. queue' = queue /\ queueDepth' = queueDepth /\ Undiscounted = 0 /\ Undiscounted' = 1
    BY <1>5 DEF Handoff, Undiscounted
  <2>2. r \notin Sent /\ Sent' = Sent \cup {r}
    BY <1>5 DEF Handoff, Sent, TypeOK
  <2> QED
    BY <1>1, <1>2, <2>1, <2>2, SentChanges
<1>6. ASSUME NEW r \in Requests, ClientCancels(r)
      PROVE  UNCHANGED <<queue, queueDepth, Sent, Undiscounted>>
  BY <1>6 DEF ClientCancels, Sent, runVars, Undiscounted
<1>7. CASE Receive
  <2>1. /\ Len(queue') = Len(queue) - 1 /\ queueDepth' = queueDepth
        /\ Undiscounted = 0 /\ Undiscounted' = 1
    BY <1>1, <1>7 DEF Receive, Undiscounted
  <2>2. Sent' = Sent
    BY <1>7 DEF Receive, Sent, submitVars
  <2> QED
    BY <1>1, <1>2, <2>1, <2>2, SentFinite
<1>8. CASE GaugeDec
  <2>1. /\ queue' = queue /\ queueDepth' = queueDepth - 1
        /\ Undiscounted = 1 /\ Undiscounted' = 0
    BY <1>8 DEF GaugeDec, AfterReceive, Undiscounted
  <2>2. Sent' = Sent
    BY <1>8 DEF GaugeDec, Sent, submitVars
  <2> QED
    BY <1>1, <1>2, <2>1, <2>2, SentFinite
<1>9. ASSUME \/ Filter \/ FlushCircuit \/ FlushSample \/ FlushWrite \/ WorkerCall
             \/ Deliver \/ SendResponse \/ ArmTimer \/ Decide \/ TimerTick \/ EndFilter
             \/ EndFlush \/ TimerFires \/ WindowElapses \/ Probe \/ UNCHANGED vars
      PROVE  UNCHANGED <<queue, queueDepth, Sent, Undiscounted>>
  <2>1. UNCHANGED <<queue, pc>>
    BY <1>9, RunQuiet, AnswerStep DEF Filter, Deliver, SendResponse, submitVars
  <2>2. UNCHANGED queueDepth
    BY <1>9, AnswerStep DEF Filter, Deliver, SendResponse, ArmTimer, Decide, TimerTick,
                EndFilter, EndFlush, TimerFires, WindowElapses, Probe, ProbeReady, ProbeWorkers,
                ProbeWrite, vars
  <2>3. runPc' = runPc \/ (runPc # "received" /\ runPc' # "received")
    BY <1>9 DEF Filter, FlushCircuit, FlushSample, FlushWrite, ActOnCircuit, WorkerCall,
                WorkerFails, WorkerAnswers, Deliver, SendResponse, ArmTimer, Decide, TimerTick,
                EndFilter, EndFlush, TimerFires, WindowElapses, Probe, ProbeReady,
                ProbeWorkers, ProbeWrite, vars, runVars
  <2> QED
    BY <2>1, <2>2, <2>3 DEF Sent, Undiscounted
<1> QED
  BY <1>3, <1>4, <1>5, <1>6, <1>7, <1>8, <1>9 DEF Next, Run, Flush

\* The gauge starts at the length of the empty channel.
LEMMA GaugeInit == Init => GaugeTracksQueue
<1> SUFFICES ASSUME Init
             PROVE  GaugeTracksQueue
  OBVIOUS
<1>1. queueDepth = 0 /\ Len(queue) = 0 /\ Undiscounted = 0
  BY DEF Init, Undiscounted
<1>2. Sent = {}
  BY DEF Init, Sent
<1>3. Cardinality(Sent) = 0
  BY <1>2, FS_EmptySet
<1>4. queueDepth = Len(queue) - Cardinality(Sent) + Undiscounted
  BY <1>1, <1>3
<1> QED
  BY <1>4 DEF GaugeTracksQueue, Sent

\* For any number of callers the gauge laminar_queue_depth is the length of the
\* channel, short of the sends that are not counted yet and over by the receive
\* that is not discounted yet: it never drifts.
THEOREM GaugeTracksQueueHolds == Spec => []GaugeTracksQueue
BY GaugeInit, GaugeStep, TypeCorrect, PTL DEF Spec

-----------------------------------------------------------------------------
(* The wait of the adaptive policy.                                        *)

\* Observe and NextWait stay within the bounds of the configuration.
LEMMA ObserveBounded ==
  ASSUME Adaptive, NEW w \in MinWait..MaxWait, NEW b \in Nat, NEW q \in Nat, NEW slow, NEW ok
  PROVE  /\ Observe(w, b, q, slow, ok) \in MinWait..MaxWait
         /\ NextWait(w, q) \in MinWait..MaxWait
<1>1. w \div 2 \in Int /\ w \div 2 <= w
  BY PolicyAssumption
<1>2. MaxDuration(MinWait, w \div 2) \in MinWait..MaxWait
  BY <1>1, PolicyAssumption DEF MaxDuration
<1>3. MinDuration(MaxWait, w + Millisecond) \in MinWait..MaxWait
  BY PolicyAssumption DEF MinDuration
<1>4. ClampDuration(w, MinWait, MaxWait) \in MinWait..MaxWait
  BY PolicyAssumption DEF ClampDuration, MaxDuration, MinDuration
<1>5. MinWait \in MinWait..MaxWait
  BY PolicyAssumption
<1> QED
  BY <1>2, <1>3, <1>4, <1>5 DEF Observe, NextWait

\* The bounds are inductive.
LEMMA WaitStep == TypeOK /\ WaitBounded /\ [Next]_vars => WaitBounded'
<1> SUFFICES ASSUME TypeOK, WaitBounded, [Next]_vars, Adaptive
             PROVE  /\ currentWait' \in MinWait..MaxWait
                    /\ timerActive' => timerWait' \in MinWait..MaxWait
  BY DEF WaitBounded
<1>0. /\ currentWait \in MinWait..MaxWait
      /\ timerActive => timerWait \in MinWait..MaxWait
      /\ Len(active) \in Nat /\ Len(queue) \in Nat
  BY DEF WaitBounded, TypeOK
<1>1. CASE UNCHANGED <<currentWait, timerActive, timerWait>>
  BY <1>0, <1>1
<1>2. ASSUME NEW r \in Requests, Submit(r) \/ Handoff(r) \/ ClientCancels(r)
      PROVE  UNCHANGED <<currentWait, timerActive, timerWait>>
  BY <1>2 DEF Submit, Admit, RejectAdmission, CancelBeforeQueue, Enqueue,
              RejectQueueFull, GaugeInc, TakeResponse, CancelWaiting, Handoff,
              ClientCancels, runVars, timerVars
<1>3. CASE ArmTimer
  BY <1>0, <1>3, ObserveBounded DEF ArmTimer
<1>4. CASE Decide
  <2>1. UNCHANGED currentWait /\ (UNCHANGED <<timerActive, timerWait>> \/ timerActive' = FALSE)
    BY <1>4 DEF Decide, StopTimer, timerVars
  <2> QED
    BY <1>0, <2>1
<1>5. CASE TimerTick
  BY <1>0, <1>5 DEF TimerTick
<1>6. ASSUME NEW open, ActOnCircuit(open), UNCHANGED timerVars
      PROVE  /\ currentWait' \in MinWait..MaxWait
             /\ timerActive' => timerWait' \in MinWait..MaxWait
  <2>1. UNCHANGED currentWait
        \/ currentWait' = Observe(currentWait, Len(active), Len(queue), FALSE, FALSE)
    BY <1>6 DEF ActOnCircuit
  <2> QED
    BY <1>0, <1>6, <2>1, ObserveBounded DEF timerVars
<1>7. CASE FlushCircuit \/ FlushWrite
  BY <1>6, <1>7 DEF FlushCircuit, FlushWrite
<1>8. CASE WorkerCall
  <2>1. /\ UNCHANGED timerVars
        /\ \E slow, ok \in BOOLEAN :
             currentWait' = Observe(currentWait, Len(active), Len(queue), slow, ok)
    BY <1>8 DEF WorkerCall, WorkerFails, WorkerAnswers
  <2> QED
    BY <1>0, <2>1, ObserveBounded DEF timerVars
<1>9. ASSUME \/ Receive \/ GaugeDec \/ Filter \/ EndFilter \/ FlushSample \/ Deliver
             \/ SendResponse \/ EndFlush \/ TimerFires \/ WindowElapses \/ Probe
             \/ UNCHANGED vars
      PROVE  UNCHANGED <<currentWait, timerActive, timerWait>>
  BY <1>9 DEF Receive, GaugeDec, Filter, EndFilter, FlushSample, Deliver, SendResponse,
              EndFlush, TimerFires, WindowElapses, Probe, ProbeReady, ProbeWorkers,
              ProbeWrite, vars,
              runVars, timerVars
<1> QED
  BY <1>1, <1>2, <1>3, <1>4, <1>5, <1>7, <1>8, <1>9 DEF Next, Run, Flush

\* For every configuration that normalized lets through, the adaptive policy
\* keeps its wait, and the armed timer, between the two limits.
THEOREM WaitBoundedHolds == Spec => []WaitBounded
<1>1. Init => WaitBounded
  BY PolicyAssumption DEF Init, WaitBounded, InitialWait, ClampDuration, MaxDuration,
                          MinDuration
<1> QED
  BY <1>1, WaitStep, TypeCorrect, PTL DEF Spec

-----------------------------------------------------------------------------
(* Identifiers.                                                            *)

\* A submit call leaves its start with a fresh identifier, and only so.
LEMMA GenerateStep ==
  ASSUME TypeOK, [Next]_vars
  PROVE  \/ \E r \in Requests : /\ GenerateID(r) /\ pc[r] = "start"
                                 /\ \A s \in Requests \ {r} : pc'[s] = pc[s]
         \/ /\ UNCHANGED <<id, nextID>>
            /\ \A s \in Requests : pc'[s] # "start" => pc[s] # "start"
<1>1. ASSUME NEW r \in Requests, Admit(r) \/ RejectAdmission(r)
      PROVE  /\ GenerateID(r) /\ pc[r] = "start"
             /\ \A s \in Requests \ {r} : pc'[s] = pc[s]
  BY <1>1 DEF Admit, RejectAdmission, Return, TypeOK
<1>2. ASSUME NEW r \in Requests,
             \/ CancelBeforeQueue(r) \/ Enqueue(r) \/ RejectQueueFull(r) \/ GaugeInc(r)
             \/ TakeResponse(r) \/ CancelWaiting(r) \/ Handoff(r) \/ ClientCancels(r)
      PROVE  /\ UNCHANGED <<id, nextID>>
             /\ \A s \in Requests : pc'[s] # "start" => pc[s] # "start"
  <2>1. /\ UNCHANGED <<id, nextID>>
        /\ \/ UNCHANGED pc
           \/ pc[r] # "start" /\ \E v : pc' = [pc EXCEPT ![r] = v]
    BY <1>2 DEF CancelBeforeQueue, Enqueue, RejectQueueFull, GaugeInc, TakeResponse,
                CancelWaiting, Handoff, ClientCancels, Return
  <2> QED
    BY <2>1 DEF TypeOK
<1>3. ASSUME Run \/ TimerFires \/ WindowElapses \/ Probe \/ UNCHANGED vars
      PROVE  UNCHANGED <<id, nextID, pc>>
  BY <1>3, RunQuiet, AnswerStep DEF Run, Flush, Receive, Filter, Deliver, SendResponse,
                                    submitVars
<1> QED
  BY <1>1, <1>2, <1>3 DEF Next, Submit

\* Identifiers stay different.
LEMMA IdInvariantStep == TypeOK /\ IdInvariant /\ [Next]_vars => IdInvariant'
<1> SUFFICES ASSUME TypeOK, IdInvariant, [Next]_vars
             PROVE  IdInvariant'
  OBVIOUS
<1>1. id \in [Requests -> Nat] /\ nextID \in Nat
  BY DEF TypeOK
<1>2. ASSUME NEW q \in Requests, GenerateID(q), pc[q] = "start",
             \A s \in Requests \ {q} : pc'[s] = pc[s]
      PROVE  IdInvariant'
  <2>1. /\ id'[q] = nextID /\ nextID' = nextID + 1
        /\ \A s \in Requests \ {q} : id'[s] = id[s]
    BY <1>1, <1>2 DEF GenerateID
  <2>2. \A s \in Requests \ {q} : pc'[s] # "start" => id'[s] < nextID
    BY <1>2, <2>1 DEF IdInvariant
  <2> SUFFICES ASSUME NEW r \in Requests, NEW s \in Requests
               PROVE  /\ pc'[r] # "start" => id'[r] < nextID'
                      /\ pc'[r] # "start" /\ pc'[s] # "start" /\ id'[r] = id'[s] => r = s
    BY DEF IdInvariant
  <2>3. pc'[r] # "start" => id'[r] < nextID'
    <3>1. CASE r = q
      BY <1>1, <2>1, <3>1
    <3>2. CASE r # q
      <4>1. id'[r] \in Nat
        BY <1>1, <2>1, <3>2
      <4> QED
        BY <1>1, <2>1, <2>2, <3>2, <4>1
    <3> QED
      BY <3>1, <3>2
  <2>4. ASSUME pc'[r] # "start", pc'[s] # "start", id'[r] = id'[s]
        PROVE  r = s
    <3>1. CASE r # q /\ s # q
      BY <1>2, <2>1, <2>4, <3>1 DEF IdInvariant
    <3>2. CASE r = q \/ s = q
      BY <1>1, <2>1, <2>2, <2>4, <3>2
    <3> QED
      BY <3>1, <3>2
  <2> QED
    BY <2>3, <2>4
<1>3. ASSUME UNCHANGED <<id, nextID>>,
             \A s \in Requests : pc'[s] # "start" => pc[s] # "start"
      PROVE  IdInvariant'
  BY <1>3 DEF IdInvariant
<1> QED
  BY <1>2, <1>3, GenerateStep

-----------------------------------------------------------------------------
(* What the callers are told.                                              *)

\* Justified by the contexts after the step.
StillJustified(r, resp) ==
  \/ resp = OwnResult(r)
  \/ resp \in Failures
  \/ cancelled'[r] /\ resp = errorResponse("request_cancelled")

\* A cancellation is never taken back, so what was justified stays so.
LEMMA JustifiedKept ==
  ASSUME TypeOK, [Next]_vars, NEW r \in Requests, NEW resp, Justified(r, resp)
  PROVE  StillJustified(r, resp)
<1>1. cancelled[r] => cancelled'[r]
  <2>1. ASSUME NEW s \in Requests, Submit(s) \/ Handoff(s) \/ ClientCancels(s)
        PROVE  UNCHANGED cancelled \/ cancelled' = [cancelled EXCEPT ![s] = TRUE]
    BY <2>1 DEF Submit, Admit, RejectAdmission, CancelBeforeQueue, Enqueue,
                RejectQueueFull, GaugeInc, TakeResponse, CancelWaiting, Handoff,
                ClientCancels
  <2>2. ASSUME Run \/ TimerFires \/ WindowElapses \/ Probe \/ UNCHANGED vars
        PROVE  UNCHANGED cancelled
    BY <2>2, RunQuiet, AnswerStep DEF Run, Flush, Receive, Filter, Deliver, SendResponse,
                                      submitVars
  <2> QED
    BY <2>1, <2>2 DEF Next, TypeOK
<1> QED
  BY <1>1 DEF Justified, StillJustified

\* Every response on its way stays justified.
LEMMA ResponseInvariantStep ==
  TypeOK /\ PlaceInvariant /\ IdInvariant /\ ResponseInvariant /\ [Next]_vars
    => ResponseInvariant'
<1> DEFINE
      AllJustified ==
        /\ \A i \in DOMAIN outbox' : StillJustified(outbox'[i].req, outbox'[i].resp)
        /\ sending' # NoAnswer => StillJustified(sending'.req, sending'.resp)
        /\ \A r \in Requests : respChan'[r] # NoResponse => StillJustified(r, respChan'[r])
<1> SUFFICES ASSUME TypeOK, PlaceInvariant, IdInvariant, ResponseInvariant, [Next]_vars
             PROVE  AllJustified
  BY DEF ResponseInvariant, Justified, StillJustified
<1>0. TypeOK' /\ OnePlace
  BY NextType DEF PlaceInvariant
<1>1. \A r \in Requests : \A resp : Justified(r, resp) => StillJustified(r, resp)
  BY JustifiedKept
<1>2. /\ \A i \in DOMAIN outbox : outbox[i].req \in Requests
                                  /\ StillJustified(outbox[i].req, outbox[i].resp)
      /\ sending # NoAnswer => /\ sending.req \in Requests
                               /\ StillJustified(sending.req, sending.resp)
      /\ \A r \in Requests : respChan[r] # NoResponse => StillJustified(r, respChan[r])
  <2>1. \A i \in DOMAIN outbox : outbox[i].req \in Requests
    <3>1. \A i \in DOMAIN outbox : outbox[i] \in Delivery
      BY DEF TypeOK
    <3> QED
      BY <3>1 DEF Delivery
  <2>2. sending # NoAnswer => sending.req \in Requests
    BY <1>0, OwedAndInHand
  <2> QED
    BY <1>1, <2>1, <2>2 DEF ResponseInvariant
<1>3. CASE UNCHANGED <<outbox, sending, respChan>>
  BY <1>2, <1>3
<1>4. ASSUME NEW r \in Requests, TakeResponse(r)
      PROVE  AllJustified
  <2>1. /\ UNCHANGED <<outbox, sending>>
        /\ \A s \in Requests : respChan'[s] \in {respChan[s], NoResponse}
    BY <1>4 DEF TakeResponse, runVars, flushVars, TypeOK
  <2> QED
    BY <1>2, <2>1
<1>5. CASE Filter
  <2>1. UNCHANGED <<outbox, respChan>> /\ Head(batch) \in Requests /\ sending = NoAnswer
    BY <1>5 DEF Filter, submitVars, TypeOK
  <2>2. sending' # NoAnswer =>
          /\ cancelled[Head(batch)]
          /\ sending' = [req |-> Head(batch), resp |-> errorResponse("request_cancelled")]
    BY <1>5, <2>1 DEF Filter
  <2>3. cancelled[Head(batch)] => Justified(Head(batch), errorResponse("request_cancelled"))
    BY DEF Justified
  <2>4. sending' # NoAnswer => StillJustified(sending'.req, sending'.resp)
    BY <1>1, <2>1, <2>2, <2>3
  <2> QED
    BY <1>2, <2>1, <2>4
<1>6. CASE FlushCircuit \/ FlushSample \/ FlushWrite \/ WorkerCall
  <2>1. UNCHANGED <<sending, respChan>>
    BY <1>6, AnswerStep
  <2>2. ASSUME NEW resp, Answered(resp)
        PROVE  \A i \in DOMAIN outbox' : StillJustified(outbox'[i].req, outbox'[i].resp)
    <3>1. active \in Seq(Requests) /\ outbox' = Deliveries(active, resp)
      BY <2>2 DEF Answered, TypeOK
    <3>2. \A s \in Range(active) : s \in Requests /\ pc[s] # "start"
      <4>1. \A s \in Range(active) : s \in Requests /\ s \in Pipeline
        BY <3>1, RangeIs DEF Pipeline
      <4> QED
        BY <1>0, <4>1 DEF OnePlace
    <3>3. \A s \in Range(active) : StillJustified(s, resp[s])
      BY <1>1, <2>2, <3>2 DEF Answered
    <3> SUFFICES ASSUME NEW i \in DOMAIN outbox'
                 PROVE  StillJustified(outbox'[i].req, outbox'[i].resp)
      OBVIOUS
    <3>4. i \in 1..Len(active) /\ outbox'[i] = [req |-> active[i], resp |-> resp[active[i]]]
      BY <3>1 DEF Deliveries
    <3>5. active[i] \in Range(active)
      BY <3>1, <3>4, RangeIs
    <3> QED
      BY <3>3, <3>4, <3>5
  <2>3. UNCHANGED outbox \/ \E resp : Answered(resp)
    BY <1>6, AnswerStep
  <2> QED
    BY <1>2, <2>1, <2>2, <2>3
<1>7. CASE Deliver
  <2>1. /\ UNCHANGED respChan /\ outbox \in Seq(Delivery) /\ outbox # <<>>
        /\ outbox' = Tail(outbox) /\ sending' = Head(outbox)
    BY <1>7 DEF Deliver, submitVars, TypeOK
  <2>2. /\ \A i \in DOMAIN outbox' : i + 1 \in DOMAIN outbox /\ outbox'[i] = outbox[i + 1]
        /\ 1 \in DOMAIN outbox /\ sending' = outbox[1]
    BY <2>1, ReqsTail
  <2> QED
    BY <1>2, <2>1, <2>2
<1>8. CASE SendResponse
  <2>1. /\ UNCHANGED outbox /\ sending' = NoAnswer /\ sending # NoAnswer
        /\ respChan' = [respChan EXCEPT ![sending.req] = sending.resp]
    BY <1>0, <1>8, SendPlaces DEF SendResponse
  <2>2. \A s \in Requests : respChan'[s] = IF s = sending.req THEN sending.resp ELSE respChan[s]
    BY <2>1 DEF TypeOK
  <2>3. \A s \in Requests : respChan'[s] # NoResponse => StillJustified(s, respChan'[s])
    BY <1>2, <2>1, <2>2
  <2> QED
    BY <1>2, <2>1, <2>3
<1>9. ASSUME NEW r \in Requests, Submit(r) \/ Handoff(r) \/ ClientCancels(r), ~TakeResponse(r)
      PROVE  UNCHANGED <<outbox, sending, respChan>>
  BY <1>9 DEF Submit, Admit, RejectAdmission, CancelBeforeQueue, Enqueue,
              RejectQueueFull, GaugeInc, CancelWaiting, Handoff, ClientCancels,
              runVars, flushVars
<1>10. ASSUME \/ Receive \/ GaugeDec \/ ArmTimer \/ Decide \/ TimerTick \/ EndFilter \/ EndFlush
              \/ TimerFires \/ WindowElapses \/ Probe \/ UNCHANGED vars
       PROVE  UNCHANGED <<outbox, sending, respChan>>
  BY <1>10, RunQuiet DEF Receive, submitVars, flushVars
<1> QED
  BY <1>3, <1>4, <1>5, <1>6, <1>7, <1>8, <1>9, <1>10 DEF Next, Run, Flush

-----------------------------------------------------------------------------
(* Batcher implements RequestService.                                      *)

ServiceInvariant ==
  TypeOK /\ LeaseInvariant /\ PlaceInvariant /\ IdInvariant /\ ResponseInvariant

\* The conjunction is inductive.
LEMMA ServiceInvariantHolds == Spec => []ServiceInvariant
<1>1. Init => IdInvariant
  BY DEF Init, IdInvariant
<1>2. Init => ResponseInvariant
  BY DEF Init, ResponseInvariant
<1>3. Init => ServiceInvariant
  BY <1>1, <1>2, InitType, LeaseInvariantInit, PlaceInvariantInit DEF ServiceInvariant
<1>4. ServiceInvariant /\ [Next]_vars => ServiceInvariant'
  BY NextType, LeaseInvariantStep, PlaceInvariantStep, IdInvariantStep, ResponseInvariantStep
     DEF ServiceInvariant
<1> QED
  BY <1>3, <1>4, PTL DEF Spec

\* The phase of a request, and how it follows the control point.
LEMMA PhaseOf ==
  ASSUME TypeOK, NEW r \in Requests
  PROVE  /\ Phase[r] = "new" <=> pc[r] = "start"
         /\ Phase[r] = "done" <=> pc[r] = "returned"
         /\ Phase[r] = "pending" <=> pc[r] \in {"admitted", "sent", "waiting"}
         /\ pc' = [pc EXCEPT ![r] = "admitted"] => Phase' = [Phase EXCEPT ![r] = "pending"]
         /\ pc' = [pc EXCEPT ![r] = "returned"] => Phase' = [Phase EXCEPT ![r] = "done"]
         /\ pc[r] \in {"admitted", "sent"} =>
              \A v \in {"sent", "waiting"} : pc' = [pc EXCEPT ![r] = v] => Phase' = Phase
<1>1. pc \in [Requests -> {"start", "admitted", "sent", "waiting", "returned"}]
  BY DEF TypeOK
<1>2. pc' = [pc EXCEPT ![r] = "admitted"] => Phase' = [Phase EXCEPT ![r] = "pending"]
  BY <1>1 DEF Phase
<1>3. pc' = [pc EXCEPT ![r] = "returned"] => Phase' = [Phase EXCEPT ![r] = "done"]
  BY <1>1 DEF Phase
<1>4. pc[r] \in {"admitted", "sent"} =>
        \A v \in {"sent", "waiting"} : pc' = [pc EXCEPT ![r] = v] => Phase' = Phase
  BY <1>1 DEF Phase
<1>5. /\ Phase[r] = "new" <=> pc[r] = "start"
      /\ Phase[r] = "done" <=> pc[r] = "returned"
      /\ Phase[r] = "pending" <=> pc[r] \in {"admitted", "sent", "waiting"}
  BY <1>1 DEF Phase
<1> QED
  BY <1>2, <1>3, <1>4, <1>5

\* The charged requests, and how they follow the leases.
LEMMA HoldersChange ==
  ASSUME TypeOK, NEW r \in Requests
  PROVE  /\ Holders \in SUBSET Requests /\ (r \in Holders <=> lease[r] = "held")
         /\ Release(r) => Holders' = Holders \ {r}
         /\ lease' = [lease EXCEPT ![r] = "held"] => Holders' = Holders \cup {r}
         /\ UNCHANGED leaseVars => Holders' = Holders
<1>1. Release(r) => Holders' = Holders \ {r}
  BY DEF Release, Holders, TypeOK
<1>2. lease' = [lease EXCEPT ![r] = "held"] => Holders' = Holders \cup {r}
  BY DEF Holders, TypeOK
<1>3. UNCHANGED leaseVars => Holders' = Holders
  BY DEF Holders, leaseVars
<1> QED
  BY <1>1, <1>2, <1>3 DEF Holders

\* submit lets a request in when the budget carries it ...
LEMMA AcceptStep ==
  ASSUME TypeOK, LeaseInvariant, NEW r \in Requests, Admit(r)
  PROVE  Service!Accept(r)
<1>1. /\ Phase[r] = "new" /\ Phase' = [Phase EXCEPT ![r] = "pending"]
      /\ UNCHANGED <<cancelled, answer>>
  BY PhaseOf DEF Admit
<1>2. Holders' = Holders \cup {r} /\ Holders \in SUBSET Requests
  BY HoldersChange DEF Admit
<1>3. Holders' \in WithinLimit
  BY <1>2, AdmitAccounting DEF WithinLimit, WithinBudget
<1> QED
  BY <1>1, <1>2, <1>3 DEF Service!Accept

\* ... and refuses it when it does not.
LEMMA RefuseStep ==
  ASSUME TypeOK, LeaseInvariant, NEW r \in Requests, RejectAdmission(r)
  PROVE  Service!Refuse(r)
<1>1. /\ Phase[r] = "new" /\ Phase' = [Phase EXCEPT ![r] = "done"]
      /\ answer' = [answer EXCEPT ![r] = errorResponse("admission_rejected")]
      /\ UNCHANGED cancelled
  BY PhaseOf DEF RejectAdmission, Return
<1>2. /\ Holders' = Holders /\ Holders \in SUBSET Requests /\ r \in Requests \ Holders
      /\ OverBudget(r)
  BY HoldersChange DEF RejectAdmission, LeaseInvariant
<1>3. TokensOf(Holders \cup {r}) = inFlightTokens + Tokens[r]
  BY <1>2, TokensOfAdd DEF LeaseInvariant, TokensExact, OverBudget
<1>4. Holders \cup {r} \notin WithinLimit
  <2>1. inFlightTokens + Tokens[r] \in Nat /\ MaxInFlightTokens \in Nat
    BY BatcherAssumption DEF TypeOK
  <2> QED
    BY <1>2, <1>3, <2>1 DEF OverBudget, WithinLimit
<1> QED
  BY <1>1, <1>2, <1>4 DEF Service!Refuse

\* submit returns an answer that is justified, its lease released.
LEMMA ReturnStep ==
  ASSUME ServiceInvariant, NEW r \in Requests,
         CancelBeforeQueue(r) \/ RejectQueueFull(r) \/ CancelWaiting(r) \/ TakeResponse(r)
  PROVE  Service!Answer(r)
<1>0. TypeOK /\ LeaseInvariant /\ ResponseInvariant
  BY DEF ServiceInvariant
<1>1. /\ Phase[r] = "pending" /\ Phase' = [Phase EXCEPT ![r] = "done"]
      /\ UNCHANGED cancelled
  BY <1>0, PhaseOf DEF CancelBeforeQueue, RejectQueueFull, CancelWaiting, TakeResponse, Return
<1>2. \E resp : Justified(r, resp) /\ answer' = [answer EXCEPT ![r] = resp]
  <2>1. CASE CancelBeforeQueue(r) \/ CancelWaiting(r)
    BY <2>1 DEF CancelBeforeQueue, CancelWaiting, Return, Justified
  <2>2. CASE RejectQueueFull(r)
    <3>1. errorResponse("queue_full") \in Failures
      BY DEF Failures, ErrorCodes
    <3> QED
      BY <2>2, <3>1 DEF RejectQueueFull, Return, Justified
  <2>3. CASE TakeResponse(r)
    BY <1>0, <2>3 DEF TakeResponse, Return, ResponseInvariant
  <2> QED
    BY <2>1, <2>2, <2>3
<1>3. Holders' = Holders \ {r}
  <2>1. CASE TakeResponse(r)
    <3>1. UNCHANGED leaseVars /\ lease[r] # "held"
      BY <1>0, <2>1 DEF TakeResponse, LeaseInvariant
    <3> QED
      BY <1>0, <3>1, HoldersChange
  <2>2. CASE CancelBeforeQueue(r) \/ RejectQueueFull(r) \/ CancelWaiting(r)
    BY <1>0, <2>2, HoldersChange DEF CancelBeforeQueue, RejectQueueFull, CancelWaiting
  <2> QED
    BY <2>1, <2>2
<1> QED
  BY <1>1, <1>2, <1>3 DEF Service!Answer, Justified

\* flush gives tokens back before the answer, or finds them given back.
LEMMA DischargeStep ==
  ASSUME ServiceInvariant, NEW r \in Requests, r \in Pipeline, Release(r),
         UNCHANGED <<pc, cancelled, answer>>
  PROVE  Service!Discharge(r) \/ UNCHANGED Service!vars
<1>0. TypeOK /\ LeaseInvariant /\ OnePlace
  BY DEF ServiceInvariant, PlaceInvariant
<1>1. Phase' = Phase
  BY DEF Phase
<1>2. Holders' = Holders \ {r}
  BY <1>0, HoldersChange
<1>3. CASE r \in Holders
  <2>1. pc[r] \in {"sent", "waiting"}
    BY <1>0, <1>3 DEF OnePlace, LeaseInvariant, ReturnedReleased, Holders
  <2> QED
    BY <1>0, <1>1, <1>2, <1>3, <2>1, PhaseOf DEF Service!Discharge
<1>4. CASE r \notin Holders
  BY <1>1, <1>2, <1>4 DEF Service!vars
<1> QED
  BY <1>3, <1>4

\* The initial states correspond.
LEMMA ServiceStart == Init => Service!Init
<1> SUFFICES ASSUME Init
             PROVE  Service!Init
  OBVIOUS
<1>1. Phase = [r \in Requests |-> "new"]
  BY DEF Init, Phase
<1>2. Holders = {}
  BY DEF Init, Holders
<1> QED
  BY <1>1, <1>2 DEF Init, Service!Init

\* Every step of Batcher is a step of the service, or changes nothing of it.
LEMMA ServiceStep == ServiceInvariant /\ [Next]_vars => [Service!Next]_(Service!vars)
<1> SUFFICES ASSUME ServiceInvariant, [Next]_vars
             PROVE  Service!Next \/ UNCHANGED Service!vars
  OBVIOUS
<1>0. TypeOK /\ LeaseInvariant /\ OnePlace
  BY DEF ServiceInvariant, PlaceInvariant
<1>1. CASE UNCHANGED <<pc, cancelled, answer, leaseVars>>
  <2>1. Phase' = Phase /\ Holders' = Holders
    BY <1>1 DEF Phase, Holders, leaseVars
  <2> QED
    BY <1>1, <2>1 DEF Service!vars
<1>2. ASSUME NEW r \in Requests, Enqueue(r) \/ GaugeInc(r) \/ Handoff(r)
      PROVE  UNCHANGED Service!vars
  <2>1. /\ pc[r] \in {"admitted", "sent"}
        /\ \E v \in {"sent", "waiting"} : pc' = [pc EXCEPT ![r] = v]
        /\ UNCHANGED <<cancelled, answer, leaseVars>>
    BY <1>2 DEF Enqueue, GaugeInc, Handoff
  <2>2. Phase' = Phase /\ Holders' = Holders
    BY <1>0, <2>1, PhaseOf, HoldersChange
  <2> QED
    BY <2>1, <2>2 DEF Service!vars
<1>3. ASSUME NEW r \in Requests, Submit(r)
      PROVE  Service!Next \/ UNCHANGED Service!vars
  BY <1>0, <1>2, <1>3, AcceptStep, RefuseStep, ReturnStep DEF Submit, Service!Next
<1>4. ASSUME NEW r \in Requests, ClientCancels(r)
      PROVE  Service!Cancel(r)
  <2>1. Phase' = Phase /\ Holders' = Holders
    BY <1>4 DEF ClientCancels, Phase, Holders, leaseVars
  <2>2. Phase[r] # "done"
    BY <1>0, <1>4, PhaseOf DEF ClientCancels
  <2> QED
    BY <1>4, <2>1, <2>2 DEF ClientCancels, Service!Cancel
<1>5. CASE Filter
  <2>1. UNCHANGED <<pc, cancelled, answer>> /\ Head(batch) \in Requests
        /\ Head(batch) \in Pipeline
    <3>1. UNCHANGED <<pc, cancelled, answer>> /\ batch \in Seq(Requests) /\ batch # <<>>
      BY <1>0, <1>5 DEF Filter, submitVars, TypeOK
    <3> QED
      BY <3>1, RangeOfTail DEF Pipeline
  <2>2. Release(Head(batch)) \/ UNCHANGED leaseVars
    BY <1>5 DEF Filter
  <2> QED
    BY <1>1, <2>1, <2>2, DischargeStep DEF Service!Next
<1>6. CASE Deliver
  <2>1. /\ UNCHANGED <<pc, cancelled, answer>> /\ outbox \in Seq(Delivery) /\ outbox # <<>>
        /\ Release(Head(outbox).req)
    BY <1>0, <1>6 DEF Deliver, submitVars, TypeOK
  <2>2. 1 \in DOMAIN outbox /\ Head(outbox) = outbox[1] /\ Head(outbox) \in Delivery
    BY <2>1, ReqsTail
  <2>3. Head(outbox).req \in Pipeline /\ Head(outbox).req \in Requests
    BY <2>2 DEF Pipeline, Owed, Delivery
  <2> QED
    BY <2>1, <2>3, DischargeStep DEF Service!Next
<1>7. ASSUME \/ Receive \/ FlushCircuit \/ FlushSample \/ FlushWrite \/ WorkerCall
             \/ SendResponse \/ GaugeDec \/ ArmTimer \/ Decide \/ TimerTick \/ EndFilter
             \/ EndFlush \/ TimerFires \/ WindowElapses \/ Probe \/ UNCHANGED vars
      PROVE  UNCHANGED <<pc, cancelled, answer, leaseVars>>
  BY <1>0, <1>7, RunQuiet, AnswerStep DEF Receive, SendResponse, submitVars
<1> QED
  BY <1>1, <1>2, <1>3, <1>4, <1>5, <1>6, <1>7 DEF Next, Run, Flush, Service!Next

\* Batcher keeps the promises of RequestService for every set of requests,
\* budget, channel capacity and policy: a request is let in or refused by the
\* budget alone, answered once, with its own result or a justified error, and
\* no longer charged when it is answered.
THEOREM ImplementsServiceHolds == Spec => ImplementsService
BY ServiceInvariantHolds, ServiceStart, ServiceStep, PTL
   DEF Spec, ImplementsService, Service!Spec

=============================================================================
