------------------------- MODULE OtlpExporterProofs --------------------------
(***************************************************************************)
(* Theorems about OtlpExporter, for every number of spans and of clients   *)
(* that flush, and every capacity.                                         *)
(***************************************************************************)
EXTENDS OtlpExporter, FiniteSetTheorems, SequenceTheorems, TLAPS

-----------------------------------------------------------------------------
(* A sequence without repetitions as the set of its elements.              *)

\* The elements of a sequence are at its positions.
LEMMA RangeIs ==
  ASSUME NEW S, NEW q \in Seq(S)
  PROVE  /\ Range(q) \subseteq S
         /\ \A x : x \in Range(q) <=> \E i \in 1..Len(q) : q[i] = x
BY DEF Range

\* Appending adds the element.
LEMMA RangeAppend ==
  ASSUME NEW S, NEW q \in Seq(S), NEW x \in S
  PROVE  /\ Append(q, x) \in Seq(S)
         /\ Range(Append(q, x)) = Range(q) \cup {x}
         /\ IsInjective(q) /\ x \notin Range(q) => IsInjective(Append(q, x))
<1>1. /\ Append(q, x) \in Seq(S) /\ Len(Append(q, x)) = Len(q) + 1
      /\ \A i \in 1..Len(q) : Append(q, x)[i] = q[i]
      /\ Append(q, x)[Len(q) + 1] = x
      /\ Len(q) \in Nat
  BY AppendProperties
<1>2. ASSUME NEW y
      PROVE  y \in Range(Append(q, x)) <=> y \in Range(q) \cup {x}
  <2>1. ASSUME y \in Range(Append(q, x))
        PROVE  y \in Range(q) \cup {x}
    <3>0. PICK i \in 1..Len(Append(q, x)) : Append(q, x)[i] = y
      BY <1>1, <2>1, RangeIs
    <3>1. i \in 1..(Len(q) + 1) /\ Append(q, x)[i] = y
      BY <1>1, <3>0
    <3>2. CASE i = Len(q) + 1
      BY <1>1, <3>1, <3>2
    <3>3. CASE i # Len(q) + 1
      <4>1. i \in 1..Len(q)
        BY <1>1, <3>3
      <4> QED
        BY <1>1, <3>1, <4>1, RangeIs
    <3> QED
      BY <3>2, <3>3
  <2>2. ASSUME y \in Range(q)
        PROVE  y \in Range(Append(q, x))
    <3>1. PICK i \in 1..Len(q) : q[i] = y
      BY <2>2, RangeIs
    <3>2. i \in 1..Len(Append(q, x)) /\ Append(q, x)[i] = y
      BY <1>1, <3>1
    <3> QED
      BY <1>1, <3>2, RangeIs
  <2>3. x \in Range(Append(q, x))
    <3>1. Len(q) + 1 \in 1..Len(Append(q, x))
      BY <1>1
    <3> QED
      BY <1>1, <3>1, RangeIs
  <2> QED
    BY <2>1, <2>2, <2>3
<1>3. ASSUME IsInjective(q), x \notin Range(q)
      PROVE  IsInjective(Append(q, x))
  <2> SUFFICES ASSUME NEW i \in 1..(Len(q) + 1), NEW j \in 1..(Len(q) + 1),
                      Append(q, x)[i] = Append(q, x)[j]
               PROVE  i = j
    BY <1>1 DEF IsInjective
  <2>1. \A k \in 1..Len(q) : q[k] # x
    BY <1>3, RangeIs
  <2>2. CASE i = Len(q) + 1 \/ j = Len(q) + 1
    BY <1>1, <2>1, <2>2
  <2>3. CASE i # Len(q) + 1 /\ j # Len(q) + 1
    <3>1. i \in 1..Len(q) /\ j \in 1..Len(q)
      BY <1>1, <2>3
    <3>2. q[i] = q[j]
      BY <1>1, <3>1
    <3> QED
      BY <1>3, <3>1, <3>2 DEF IsInjective
  <2> QED
    BY <2>2, <2>3
<1> QED
  BY <1>1, <1>2, <1>3

\* A sequence is the prefix of length n and the rest.
LEMMA RangeSuffix ==
  ASSUME NEW S, NEW q \in Seq(S), NEW n \in 0..Len(q), IsInjective(q)
  PROVE  LET rest == SubSeq(q, n + 1, Len(q)) IN
         /\ rest \in Seq(S) /\ IsInjective(rest)
         /\ \A x : x \in Range(rest)
                     <=> x \in Range(q) /\ ~\E i \in 1..n : q[i] = x
         /\ Len(rest) = Len(q) - n
<1> DEFINE rest == SubSeq(q, n + 1, Len(q))
<1>0. Len(q) \in Nat
  OBVIOUS
<1>1. /\ rest \in Seq(S) /\ Len(rest) = Len(q) - n
      /\ \A i \in 1..(Len(q) - n) : rest[i] = q[n + i]
  <2>1. rest \in Seq(S) /\ Len(rest) = IF n + 1 <= Len(q) THEN Len(q) - (n + 1) + 1 ELSE 0
    BY <1>0, SubSeqProperties
  <2>2. \A i \in 1..(Len(q) - n) : rest[i] = q[n + 1 + i - 1]
    BY <1>0, SubSeqProperties
  <2> QED
    BY <1>0, <2>1, <2>2
<1> HIDE DEF rest
<1>2. IsInjective(rest)
  <2> SUFFICES ASSUME NEW i \in 1..(Len(q) - n), NEW j \in 1..(Len(q) - n), rest[i] = rest[j]
               PROVE  i = j
    <3>1. DOMAIN rest = 1..(Len(q) - n)
      BY <1>1, LenProperties
    <3> QED
      BY <3>1 DEF IsInjective
  <2>1. q[n + i] = q[n + j] /\ n + i \in 1..Len(q) /\ n + j \in 1..Len(q)
    BY <1>0, <1>1
  <2>2. n + i = n + j
    BY <2>1 DEF IsInjective
  <2> QED
    BY <1>0, <2>2
<1>3. ASSUME NEW x
      PROVE  x \in Range(rest) <=> x \in Range(q) /\ ~\E i \in 1..n : q[i] = x
  <2>1. ASSUME x \in Range(rest)
        PROVE  x \in Range(q) /\ ~\E i \in 1..n : q[i] = x
    <3>1. PICK j \in 1..(Len(q) - n) : rest[j] = x
      BY <1>0, <1>1, <2>1, RangeIs
    <3>2. q[n + j] = x /\ n + j \in 1..Len(q)
      BY <1>0, <1>1, <3>1
    <3>3. ASSUME NEW i \in 1..n, q[i] = x
          PROVE  FALSE
      <4>1. i \in 1..Len(q) /\ i # n + j
        BY <1>0
      <4> QED
        BY <3>2, <3>3, <4>1 DEF IsInjective
    <3> QED
      BY <3>2, <3>3, RangeIs
  <2>2. ASSUME x \in Range(q), ~\E i \in 1..n : q[i] = x
        PROVE  x \in Range(rest)
    <3>1. PICK k \in 1..Len(q) : q[k] = x
      BY <2>2, RangeIs
    <3>2. k - n \in 1..(Len(q) - n) /\ n + (k - n) = k
      BY <1>0, <2>2, <3>1
    <3>3. rest[k - n] = x
      BY <1>1, <3>1, <3>2
    <3> QED
      BY <1>0, <1>1, <3>2, <3>3, RangeIs
  <2> QED
    BY <2>1, <2>2
<1> QED
  BY <1>1, <1>2, <1>3 DEF rest

\* Taking the head off.
LEMMA RangeTail ==
  ASSUME NEW S, NEW q \in Seq(S), q # << >>, IsInjective(q)
  PROVE  /\ Head(q) \in S /\ Head(q) \in Range(q)
         /\ Tail(q) \in Seq(S) /\ IsInjective(Tail(q))
         /\ Range(Tail(q)) = Range(q) \ {Head(q)}
         /\ Len(Tail(q)) = Len(q) - 1
<1>1. /\ Len(q) \in Nat \ {0} /\ Head(q) = q[1] /\ Head(q) \in S
      /\ Tail(q) = SubSeq(q, 1 + 1, Len(q))
  BY HeadTailProperties, TailIsSubSeq
<1>2. 1 \in 0..Len(q)
  BY <1>1
<1>3. /\ Tail(q) \in Seq(S) /\ IsInjective(Tail(q)) /\ Len(Tail(q)) = Len(q) - 1
      /\ \A x : x \in Range(Tail(q)) <=> x \in Range(q) /\ ~\E i \in 1..1 : q[i] = x
  BY <1>1, <1>2, RangeSuffix
<1>4. Range(Tail(q)) = Range(q) \ {Head(q)}
  BY <1>1, <1>3
<1>5. Head(q) \in Range(q)
  BY <1>1, RangeIs
<1> QED
  BY <1>1, <1>3, <1>4, <1>5

\* A sequence without repetitions has as many elements as positions.
LEMMA DistinctCardinality ==
  ASSUME NEW S, NEW q \in Seq(S), IsInjective(q)
  PROVE  IsFiniteSet(Range(q)) /\ Cardinality(Range(q)) = Len(q)
<1>1. Len(q) \in Nat /\ q \in [1..Len(q) -> S]
  BY LenProperties
<1>2. q \in [1..Len(q) -> Range(q)]
  BY <1>1, RangeIs
<1>3. q \in Bijection(1..Len(q), Range(q))
  BY <1>1, <1>2, RangeIs DEF Bijection, Injection, Surjection, IsInjective, IsInjective
<1>4. IsFiniteSet(1..Len(q)) /\ Cardinality(1..Len(q)) = Len(q)
  BY <1>1, FS_Interval
<1>5. ExistsBijection(1..Len(q), Range(q))
  BY <1>3 DEF ExistsBijection
<1> QED
  BY <1>4, <1>5, FS_Bijection

-----------------------------------------------------------------------------
(* Types.                                                                  *)

\* The recorder keeps no more than its capacity.
LEMMA NewestType ==
  ASSUME NEW q \in Seq(Spans), NEW s \in Spans
  PROVE  LET kept == Newest(Append(q, s)) IN kept \in Seq(Spans) /\ Len(kept) <= TraceCapacity
<1>1. PICK longer \in Seq(Spans) : longer = Append(q, s)
  BY AppendProperties
<1>2. TraceCapacity \in Nat \ {0} /\ Len(longer) \in Nat
  BY ExporterAssumption
<1>3. CASE Len(longer) > TraceCapacity
  <2>0. Len(longer) - TraceCapacity + 1 \in 1..(Len(longer) + 1)
    BY <1>2, <1>3
  <2>1. PICK m \in 1..(Len(longer) + 1) : m = Len(longer) - TraceCapacity + 1
    BY <2>0
  <2>2. /\ SubSeq(longer, m, Len(longer)) \in Seq(Spans)
        /\ Len(SubSeq(longer, m, Len(longer)))
             = IF m <= Len(longer) THEN Len(longer) - m + 1 ELSE 0
    BY <1>2, SubSeqProperties
  <2> QED
    BY <1>1, <1>2, <1>3, <2>1, <2>2 DEF Newest
<1>4. CASE ~(Len(longer) > TraceCapacity)
  BY <1>1, <1>2, <1>4 DEF Newest
<1> QED
  BY <1>3, <1>4

\* Types are kept by every step.
LEMMA TypeStep ==
  ASSUME TypeOK, MutexInvariant, IsInjective(queue), IsInjective(pending), [Next]_vars
  PROVE  TypeOK'
<1> USE DEF TypeOK, spanVars, actorVars, counters, Actors
<1>1. ASSUME NEW s \in Spans, End(s)
      PROVE  TypeOK'
  <2>1. ring' \in Seq(Spans) /\ Len(ring') <= TraceCapacity
    BY <1>1, NewestType DEF End
  <2> QED
    BY <1>1, <2>1 DEF End
<1>2. ASSUME NEW s \in Spans, ExportSpan(s)
      PROVE  TypeOK'
  <2>1. CASE Len(queue) < QueueSize
    <3>1. /\ Append(queue, s) \in Seq(Spans) /\ Len(Append(queue, s)) = Len(queue) + 1
          /\ QueueSize \in Nat /\ Len(queue) \in Nat
      BY AppendProperties, ExporterAssumption
    <3>2. queue' \in Seq(Spans) /\ Len(queue') <= QueueSize
      <4>1. queue' = Append(queue, s)
        BY <1>2, <2>1 DEF ExportSpan
      <4>2. Len(queue) + 1 <= QueueSize
        BY <2>1, <3>1
      <4> QED
        BY <3>1, <4>1, <4>2
    <3> QED
      BY <1>2, <2>1, <3>2 DEF ExportSpan
  <2>2. CASE ~(Len(queue) < QueueSize)
    BY <1>2, <2>2 DEF ExportSpan
  <2> QED
    BY <2>1, <2>2
<1>3. ASSUME queue # << >>
      PROVE  Head(queue) \in Spans /\ Tail(queue) \in Seq(Spans) /\ Len(Tail(queue)) <= QueueSize
  BY <1>3, RangeTail, ExporterAssumption
<1>4. CASE Receive
  BY <1>3, <1>4 DEF Receive
<1>5. CASE Tick
  BY <1>5 DEF Tick
<1>6. CASE Done
  BY <1>6 DEF Done
<1>7. ASSUME NEW f \in Flushers, CallFlush(f)
      PROVE  TypeOK'
  BY <1>7 DEF CallFlush, Remember
<1>8. CASE Close
  BY <1>8 DEF Close, Remember
<1>9. CASE CollectorChanges
  BY <1>9 DEF CollectorChanges
<1>10. ASSUME NEW a \in Actors, Flush(a)
       PROVE  TypeOK'
  <2>1. CASE Lock(a)
    BY <2>1 DEF Lock
  <2>2. CASE Drain(a)
    BY <1>3, <2>2 DEF Drain
  <2>3. CASE AddPending(a)
    <3>1. pending' \in Seq(Spans)
      BY <2>3, AppendProperties DEF AddPending
    <3> QED
      BY <2>3, <3>1 DEF AddPending
  <2>4. CASE Drained(a)
    BY <2>4 DEF Drained
  <2>5. CASE Copy(a)
    <3>1. CASE pending = << >>
      BY <2>5, <3>1 DEF Copy, Return
    <3>2. CASE pending # << >>
      BY <2>5, <3>2 DEF Copy
    <3> QED
      BY <3>1, <3>2
  <2>6. CASE PostFails(a)
    BY <2>6 DEF PostFails, Return
  <2>7. CASE PostSucceeds(a)
    <3>1. Range(batch[a]) \subseteq Spans
      BY RangeIs
    <3> QED
      BY <2>7, <3>1 DEF PostSucceeds
  <2>8. CASE CollectorTakes(a)
    <3>1. spansToOTLPExport(batch[a]) \subseteq Spans
      BY ExporterAssumption DEF spansToOTLPExport
    <3> QED
      BY <2>8, <3>1 DEF CollectorTakes
  <2>9. CASE Commit(a)
    <3>1. Len(batch[a]) \in 0..Len(pending)
      BY <2>9 DEF Commit, MutexInvariant
    <3>2. pending' \in Seq(Spans)
      BY <2>9, <3>1, RangeSuffix DEF Commit
    <3>3. exportedSpans' \in Nat
      BY <2>9, <3>1 DEF Commit
    <3> QED
      BY <2>9, <3>2, <3>3 DEF Commit, Return
  <2> QED
    BY <1>10, <2>1, <2>2, <2>3, <2>4, <2>5, <2>6, <2>7, <2>9, <2>8 DEF Flush
<1>11. CASE UNCHANGED vars
  BY <1>11 DEF vars
<1> QED
  BY <1>1, <1>2, <1>4, <1>5, <1>6, <1>7, <1>8, <1>9, <1>10, <1>11 DEF Next, Run

-----------------------------------------------------------------------------
(* flushMu.                                                                *)

\* Every step keeps the mutex exclusive and the batches in front.
LEMMA MutexStep ==
  ASSUME TypeOK, TypeOK', MutexInvariant, IsInjective(queue), [Next]_vars
  PROVE  MutexInvariant'
<1> USE DEF TypeOK, MutexInvariant, spanVars, actorVars, counters, Actors
<1>0. Runner \notin Flushers /\ Nobody \notin Flushers /\ Nobody # Runner /\ NoSpan \notin Spans
  BY ExporterAssumption
\* A move of one actor that touches nothing else the invariant is about.
<1>move. ASSUME NEW a \in Actors, NEW label,
              \A d \in Actors : pc'[d] = IF d = a THEN label ELSE pc[d],
              UNCHANGED <<pending, hand, batch, flushMu>>,
              label \in {"drain", "copy", "post", "taken", "commit"} <=> flushMu = a,
              label \in {"select", "received", "finaldrain", "exited"} => a = Runner,
              hand[a] = NoSpan \/ label \in {"received", "finaldrain", "drain"},
              label \in {"post", "taken", "commit"} => pc[a] \in {"post", "taken", "commit"}
       PROVE  MutexInvariant'
  BY <1>move
<1>1. ASSUME NEW s \in Spans, End(s) \/ ExportSpan(s)
      PROVE  MutexInvariant'
  <2>1. UNCHANGED <<pending, pc, hand, batch, flushMu>>
    BY <1>1 DEF End, ExportSpan
  <2> QED
    BY <2>1
<1>2. CASE Receive
  BY <1>2 DEF Receive
<1>3. CASE Tick \/ Done
  <2>1. PICK label \in {"lock", "finaldrain"} : pc' = [pc EXCEPT ![Runner] = label]
    BY <1>3 DEF Tick, Done
  <2>2. UNCHANGED <<pending, hand, batch, flushMu>> /\ pc[Runner] = "select"
    BY <1>3 DEF Tick, Done
  <2>3. hand[Runner] = NoSpan /\ flushMu # Runner
    BY <2>2
  <2>4. \A d \in Actors : pc'[d] = IF d = Runner THEN label ELSE pc[d]
    BY <2>1
  <2> QED
    BY <1>move, <2>2, <2>3, <2>4
<1>4. ASSUME NEW f \in Flushers, CallFlush(f)
      PROVE  MutexInvariant'
  <2>1. \A d \in Actors : pc'[d] = IF d = f THEN "lock" ELSE pc[d]
    BY <1>4 DEF CallFlush
  <2>2. UNCHANGED <<pending, hand, batch, flushMu>> /\ pc[f] = "idle"
    BY <1>4 DEF CallFlush
  <2>3. hand[f] = NoSpan /\ flushMu # f
    BY <2>2
  <2> QED
    BY <1>move, <2>1, <2>2, <2>3
<1>5. CASE Close
  BY <1>5 DEF Close
<1>6. CASE CollectorChanges
  BY <1>6 DEF CollectorChanges
<1>7. ASSUME NEW a \in Actors, Flush(a)
      PROVE  MutexInvariant'
  <2>1. CASE Lock(a)
    BY <1>0, <2>1 DEF Lock
  <2>2. CASE Drain(a)
    BY <2>2 DEF Drain
  <2>3. CASE AddPending(a)
    <3>1. /\ Len(pending') = Len(pending) + 1
          /\ \A i \in 1..Len(pending) : pending'[i] = pending[i]
      BY <2>3, AppendProperties DEF AddPending
    <3>2. /\ \A d \in Actors : d # a => pc'[d] = pc[d] /\ hand'[d] = hand[d]
          /\ hand'[a] = NoSpan /\ UNCHANGED <<batch, flushMu>>
          /\ pc[a] \in {"received", "finaldrain", "drain"}
          /\ pc'[a] = pc[a] \/ (pc[a] = "received" /\ pc'[a] \in {"lock", "select"})
      BY <2>3 DEF AddPending
    <3>3. Len(pending) \in Nat /\ \A d \in Actors : Len(batch[d]) \in Nat
      OBVIOUS
    <3> QED
      BY <3>1, <3>2, <3>3
  <2>4. CASE Drained(a)
    <3>1. PICK label \in {"copy", "lock"} :
            /\ pc' = [pc EXCEPT ![a] = label]
            /\ label = "copy" <=> pc[a] = "drain"
      BY <2>4 DEF Drained
    <3>2. /\ UNCHANGED <<pending, hand, batch, flushMu>> /\ hand[a] = NoSpan
          /\ pc[a] \in {"finaldrain", "drain"}
      BY <2>4 DEF Drained
    <3>3. \A d \in Actors : pc'[d] = IF d = a THEN label ELSE pc[d]
      BY <3>1
    <3> QED
      BY <1>move, <3>1, <3>2, <3>3
  <2>5. CASE Copy(a)
    BY <1>0, <2>5 DEF Copy, Return
  <2>6. CASE PostFails(a)
    BY <1>0, <2>6 DEF PostFails, Return
  <2>7. CASE CollectorTakes(a) \/ PostSucceeds(a)
    <3>0. PICK label \in {"taken", "commit"} : pc' = [pc EXCEPT ![a] = label]
      BY <2>7 DEF CollectorTakes, PostSucceeds
    <3>1. \A d \in Actors : pc'[d] = IF d = a THEN label ELSE pc[d]
      BY <3>0
    <3>2. UNCHANGED <<pending, hand, batch, flushMu>> /\ pc[a] \in {"post", "taken"}
      BY <2>7 DEF CollectorTakes, PostSucceeds
    <3>3. hand[a] = NoSpan /\ flushMu = a
      BY <3>2
    <3> QED
      BY <1>move, <3>1, <3>2, <3>3
  <2>8. CASE Commit(a)
    <3>1. flushMu = a /\ \A d \in Actors : d # a => pc[d] \notin {"drain", "copy", "post", "taken", "commit"}
      BY <2>8 DEF Commit
    <3>2. /\ \A d \in Actors : d # a => pc'[d] = pc[d]
          /\ UNCHANGED hand /\ flushMu' = Nobody
          /\ pc'[a] = IF a # Runner THEN "ok" ELSE IF final THEN "exited" ELSE "select"
          /\ hand[a] = NoSpan
      BY <2>8 DEF Commit, Return
    <3> QED
      BY <1>0, <3>1, <3>2
  <2> QED
    BY <1>7, <2>1, <2>2, <2>3, <2>4, <2>5, <2>6, <2>7, <2>8 DEF Flush
<1>8. CASE UNCHANGED vars
  BY <1>8 DEF vars
<1> QED
  BY <1>1, <1>2, <1>3, <1>4, <1>5, <1>6, <1>7, <1>8 DEF Next, Run

-----------------------------------------------------------------------------
(* Where the spans are.                                                    *)

Queued == {s \in Spans : spanPc[s] = "queued"}
Dropped == {s \in Spans : spanPc[s] = "dropped"}

\* Steps that move no span.
LEMMA AckedSame ==
  ASSUME AckedInvariant, TypeOK',
         UNCHANGED <<queue, pending, hand, acked, exportedSpans, droppedSpans>>,
         UNCHANGED <<Queued, Dropped>>,
         \A a \in Actors : pc'[a] = "commit" <=> pc[a] = "commit",
         \A a \in Actors : pc[a] = "commit" => batch'[a] = batch[a]
  PROVE  AckedInvariant'
<1>1. UNCHANGED <<InHand, Committing>>
  BY DEF InHand, Committing
<1>2. SpansPlaced'
  BY <1>1 DEF AckedInvariant, SpansPlaced, Queued, Dropped, IsInjective
<1> QED
  BY <1>1, <1>2 DEF AckedInvariant

\* A span passes from the queue to a hand.
LEMMA AckedTake ==
  ASSUME AckedInvariant, TypeOK', NEW a \in Actors, hand[a] = NoSpan, queue # << >>,
         hand' = [hand EXCEPT ![a] = Head(queue)], queue' = Tail(queue),
         UNCHANGED <<spanPc, pending, batch, acked, exportedSpans, droppedSpans>>,
         \A b \in Actors : pc'[b] = "commit" <=> pc[b] = "commit"
  PROVE  AckedInvariant'
<1> DEFINE h == Head(queue)
<1>1. /\ h \in Spans /\ h \in Range(queue) /\ IsInjective(queue')
      /\ Range(queue') = Range(queue) \ {h}
  BY RangeTail DEF AckedInvariant, SpansPlaced, TypeOK
<1>2. h # NoSpan
  BY <1>1, ExporterAssumption
<1>3. \A b \in Actors : hand'[b] = IF b = a THEN h ELSE hand[b]
  BY DEF AckedInvariant, SpansPlaced, TypeOK
<1> HIDE DEF h
<1>4. InHand' = InHand \cup {h}
  BY <1>2, <1>3 DEF InHand
<1>5. Committing' = Committing
  BY DEF Committing
<1>6. h \notin InHand /\ h \notin Range(pending) /\ h \notin acked
  BY <1>1 DEF AckedInvariant, SpansPlaced
<1>7. SpansPlaced'
  BY <1>1, <1>4, <1>5, <1>6 DEF AckedInvariant, SpansPlaced
<1>8. \A b, d \in Actors : hand'[b] = hand'[d] /\ hand'[b] # NoSpan => b = d
  <2>1. \A b \in Actors : hand[b] # h
    BY <1>2, <1>6 DEF InHand
  <2> QED
    BY <1>3, <2>1 DEF AckedInvariant
<1>9. acked' \cap (Range(queue') \cup InHand') = {}
  BY <1>1, <1>4, <1>6 DEF AckedInvariant
<1> QED
  BY <1>7, <1>8, <1>9 DEF AckedInvariant

\* A span passes from a hand to pending.
LEMMA AckedAdd ==
  ASSUME AckedInvariant, TypeOK', NEW a \in Actors, AddPending(a)
  PROVE  AckedInvariant'
<1> DEFINE h == hand[a]
<1>1. h \in Spans /\ h \in InHand /\ pending' = Append(pending, h) /\ h # NoSpan
  BY DEF AddPending, AckedInvariant, SpansPlaced, TypeOK, InHand
<1>2. \A b \in Actors : hand'[b] = IF b = a THEN NoSpan ELSE hand[b]
  BY DEF AddPending, AckedInvariant, SpansPlaced, TypeOK
<1>3. \A b \in Actors : b # a => hand[b] # h
  BY <1>1 DEF AckedInvariant
<1> HIDE DEF h
<1>4. InHand' = InHand \ {h}
  <2>1. hand[a] = h
    BY DEF h
  <2> QED
    BY <1>1, <1>2, <1>3, <2>1 DEF InHand
<1>5. h \notin Range(queue) /\ h \notin Range(pending) /\ h \notin acked
  BY <1>1 DEF AckedInvariant, SpansPlaced
<1>6. Range(pending') = Range(pending) \cup {h} /\ IsInjective(pending')
  BY <1>1, <1>5, RangeAppend DEF AckedInvariant, SpansPlaced, TypeOK
<1>7. /\ \A b \in Actors : pc'[b] = "commit" <=> pc[b] = "commit"
      /\ UNCHANGED <<spanPc, queue, batch, acked, exportedSpans, droppedSpans>>
  BY DEF AddPending, AckedInvariant, SpansPlaced, TypeOK, spanVars, counters
<1>8. Committing' = Committing
  BY <1>7 DEF Committing
<1>9. SpansPlaced'
  <2>1. /\ IsInjective(queue') /\ IsInjective(pending')
        /\ droppedSpans' = Cardinality({s \in Spans : spanPc'[s] = "dropped"})
    BY <1>6, <1>7 DEF AckedInvariant, SpansPlaced
  <2>2. /\ Range(queue') \cap (InHand' \cup Range(pending')) = {}
        /\ InHand' \cap Range(pending') = {}
    BY <1>4, <1>5, <1>6, <1>7 DEF AckedInvariant, SpansPlaced
  <2>3. {s \in Spans : spanPc'[s] = "queued"}
          = Range(queue') \cup InHand' \cup Range(pending') \cup acked'
    BY <1>1, <1>4, <1>6, <1>7 DEF AckedInvariant, SpansPlaced
  <2>4. ~Committing' => /\ acked' \cap Range(pending') = {}
                        /\ exportedSpans' = Cardinality(acked')
    BY <1>5, <1>6, <1>7, <1>8 DEF AckedInvariant, SpansPlaced
  <2> QED
    BY <2>1, <2>2, <2>3, <2>4 DEF SpansPlaced
<1>10. \A b, d \in Actors : hand'[b] = hand'[d] /\ hand'[b] # NoSpan => b = d
  BY <1>2 DEF AckedInvariant
<1>11. acked' \cap (Range(queue') \cup InHand') = {}
  BY <1>4, <1>7 DEF AckedInvariant
<1>12. \A b \in Actors : pc'[b] = "commit" =>
          /\ acked' \cap Range(pending') = Range(batch'[b])
          /\ exportedSpans' + Len(batch'[b]) = Cardinality(acked')
  BY <1>5, <1>6, <1>7 DEF AckedInvariant
<1> QED
  BY <1>9, <1>10, <1>11, <1>12 DEF AckedInvariant

\* The batch of an actor that holds the mutex is a part of what is pending.
LEMMA BatchInPending ==
  ASSUME TypeOK, MutexInvariant, IsInjective(pending), NEW a \in Actors,
         pc[a] \in {"post", "taken", "commit"}
  PROVE  /\ IsInjective(batch[a]) /\ Range(batch[a]) \subseteq Range(pending)
         /\ Len(batch[a]) \in 0..Len(pending)
         /\ \A x : x \in Range(batch[a]) <=> \E i \in 1..Len(batch[a]) : pending[i] = x
<1>1. /\ batch[a] \in Seq(Spans) /\ pending \in Seq(Spans)
      /\ Len(batch[a]) <= Len(pending)
      /\ \A i \in 1..Len(batch[a]) : batch[a][i] = pending[i]
  BY DEF TypeOK, MutexInvariant
<1>2. Len(batch[a]) \in Nat /\ Len(pending) \in Nat /\ DOMAIN batch[a] = 1..Len(batch[a])
      /\ DOMAIN pending = 1..Len(pending)
  BY <1>1, LenProperties
<1>3. 1..Len(batch[a]) \subseteq 1..Len(pending)
  BY <1>1, <1>2
<1>4. IsInjective(batch[a])
  BY <1>1, <1>2, <1>3 DEF IsInjective
<1>5. \A x : x \in Range(batch[a]) <=> \E i \in 1..Len(batch[a]) : pending[i] = x
  BY <1>1, RangeIs
<1>6. Range(batch[a]) \subseteq Range(pending)
  BY <1>1, <1>3, <1>5, RangeIs
<1> QED
  BY <1>1, <1>2, <1>4, <1>5, <1>6

\* A span enters the queue, or is dropped and counted.
LEMMA AckedExport ==
  ASSUME AckedInvariant, TypeOK', NEW s \in Spans, ExportSpan(s)
  PROVE  AckedInvariant'
<1>1. /\ spanPc \in [Spans -> {"open", "recorded", "queued", "dropped"}]
      /\ spanPc[s] = "recorded"
      /\ UNCHANGED <<pending, hand, pc, batch, acked, exportedSpans>>
  BY DEF ExportSpan, AckedInvariant, SpansPlaced, TypeOK, actorVars
<1>2. UNCHANGED <<InHand, Committing>>
  BY <1>1 DEF InHand, Committing
<1>3. s \notin Queued /\ s \notin Dropped
  BY <1>1 DEF Queued, Dropped
<1>4. CASE Len(queue) < QueueSize
  <2>1. /\ queue' = Append(queue, s) /\ spanPc' = [spanPc EXCEPT ![s] = "queued"]
        /\ UNCHANGED droppedSpans
    BY <1>4 DEF ExportSpan
  <2>2. Queued' = Queued \cup {s} /\ Dropped' = Dropped
    BY <1>1, <2>1 DEF Queued, Dropped
  <2>3. s \notin Range(queue) \cup InHand \cup Range(pending) \cup acked
    BY <1>3 DEF AckedInvariant, SpansPlaced, Queued
  <2>4. Range(queue') = Range(queue) \cup {s} /\ IsInjective(queue')
    BY <2>1, <2>3, RangeAppend DEF AckedInvariant, SpansPlaced, TypeOK
  <2>5. SpansPlaced'
    <3>1. Queued' = Range(queue') \cup InHand' \cup Range(pending') \cup acked'
      BY <1>1, <1>2, <2>2, <2>4 DEF AckedInvariant, SpansPlaced, Queued
    <3>2. droppedSpans' = Cardinality(Dropped')
      BY <2>1, <2>2 DEF AckedInvariant, SpansPlaced, Dropped
    <3> QED
      BY <1>1, <1>2, <2>3, <2>4, <3>1, <3>2 DEF AckedInvariant, SpansPlaced, Queued, Dropped
  <2> QED
    BY <1>1, <1>2, <2>3, <2>4, <2>5 DEF AckedInvariant
<1>5. CASE ~(Len(queue) < QueueSize)
  <2>1. /\ droppedSpans' = droppedSpans + 1 /\ spanPc' = [spanPc EXCEPT ![s] = "dropped"]
        /\ UNCHANGED queue
    BY <1>5 DEF ExportSpan
  <2>2. Queued' = Queued /\ Dropped' = Dropped \cup {s}
    BY <1>1, <2>1 DEF Queued, Dropped
  <2>3. IsFiniteSet(Dropped)
    BY ExporterAssumption, FS_Subset DEF Dropped
  <2>4. Cardinality(Dropped') = Cardinality(Dropped) + 1
    BY <1>3, <2>2, <2>3, FS_AddElement
  <2>5. SpansPlaced'
    <3>1. Queued' = Range(queue') \cup InHand' \cup Range(pending') \cup acked'
      BY <1>1, <1>2, <2>1, <2>2 DEF AckedInvariant, SpansPlaced, Queued
    <3>2. droppedSpans' = Cardinality(Dropped')
      BY <2>1, <2>4 DEF AckedInvariant, SpansPlaced, Dropped
    <3> QED
      BY <1>1, <1>2, <2>1, <3>1, <3>2 DEF AckedInvariant, SpansPlaced, Queued, Dropped, IsInjective
  <2> QED
    BY <1>1, <1>2, <2>1, <2>5 DEF AckedInvariant
<1> QED
  BY <1>4, <1>5

\* A post that succeeds.
LEMMA AckedPost ==
  ASSUME AckedInvariant, MutexInvariant, TypeOK', NEW a \in Actors, PostSucceeds(a)
  PROVE  AckedInvariant'
<1>1. /\ pc[a] = "taken" /\ acked' = acked \cup Range(batch[a])
      /\ \A b \in Actors : pc'[b] = IF b = a THEN "commit" ELSE pc[b]
      /\ UNCHANGED <<spanPc, queue, pending, hand, batch, exportedSpans, droppedSpans>>
  BY DEF PostSucceeds, AckedInvariant, SpansPlaced, TypeOK, spanVars
<1>2. \A b \in Actors : b # a => pc[b] # "commit"
  BY <1>1 DEF MutexInvariant
<1>3. ~Committing
  BY <1>1, <1>2 DEF Committing
<1>4. acked \cap Range(pending) = {} /\ exportedSpans = Cardinality(acked)
  BY <1>3 DEF AckedInvariant, SpansPlaced
<1>5. IsInjective(batch[a]) /\ Range(batch[a]) \subseteq Range(pending)
  BY <1>1, BatchInPending DEF AckedInvariant, SpansPlaced
<1>6. Cardinality(acked') = exportedSpans + Len(batch[a])
  <2>1. IsFiniteSet(acked) /\ IsFiniteSet(Range(batch[a]))
        /\ Cardinality(Range(batch[a])) = Len(batch[a])
    BY <1>5, ExporterAssumption, FS_Subset, DistinctCardinality
       DEF AckedInvariant, SpansPlaced, TypeOK
  <2>2. acked \cap Range(batch[a]) = {}
    BY <1>4, <1>5
  <2>3. Cardinality(acked \cup Range(batch[a]))
          = Cardinality(acked) + Cardinality(Range(batch[a])) - Cardinality(acked \cap Range(batch[a]))
    BY <2>1, FS_Union
  <2>4. Cardinality(acked \cap Range(batch[a])) = 0
    BY <2>2, FS_EmptySet
  <2>5. Cardinality(acked) \in Nat /\ Len(batch[a]) \in Nat
    BY <2>1, FS_CardinalityType
  <2> QED
    BY <1>1, <1>4, <2>1, <2>3, <2>4, <2>5
<1>7. UNCHANGED InHand /\ Committing'
  BY <1>1 DEF InHand, Committing
<1>8. Range(batch[a]) \cap (Range(queue) \cup InHand) = {}
  BY <1>5 DEF AckedInvariant, SpansPlaced
<1>9. SpansPlaced'
  BY <1>1, <1>5, <1>7 DEF AckedInvariant, SpansPlaced, IsInjective
<1>10. acked' \cap (Range(queue') \cup InHand') = {}
  BY <1>1, <1>7, <1>8 DEF AckedInvariant
<1>11. \A b \in Actors : pc'[b] = "commit" =>
          /\ acked' \cap Range(pending') = Range(batch'[b])
          /\ exportedSpans' + Len(batch'[b]) = Cardinality(acked')
  BY <1>1, <1>2, <1>4, <1>5, <1>6
<1> QED
  BY <1>1, <1>9, <1>10, <1>11 DEF AckedInvariant

\* What was posted is taken off the front of pending, and nothing else.
LEMMA AckedCommit ==
  ASSUME AckedInvariant, MutexInvariant, TypeOK', NEW a \in Actors, Commit(a)
  PROVE  AckedInvariant'
<1>1. /\ pc[a] = "commit"
      /\ pending' = SubSeq(pending, Len(batch[a]) + 1, Len(pending))
      /\ exportedSpans' = exportedSpans + Len(batch[a])
      /\ pc'[a] # "commit" /\ \A b \in Actors : b # a => pc'[b] = pc[b]
      /\ UNCHANGED <<spanPc, queue, hand, acked, droppedSpans>>
  BY DEF Commit, Return, AckedInvariant, SpansPlaced, TypeOK, spanVars
<1>2. \A b \in Actors : pc'[b] # "commit"
  BY <1>1 DEF MutexInvariant
<1>3. UNCHANGED InHand /\ ~Committing'
  BY <1>1, <1>2 DEF InHand, Committing
<1>4. /\ IsInjective(batch[a]) /\ Range(batch[a]) \subseteq Range(pending)
      /\ Len(batch[a]) \in 0..Len(pending)
      /\ \A x : x \in Range(batch[a]) <=> \E i \in 1..Len(batch[a]) : pending[i] = x
  BY <1>1, BatchInPending DEF AckedInvariant, SpansPlaced
<1>5. IsInjective(pending') /\ Range(pending') = Range(pending) \ Range(batch[a])
  <2>1. pending \in Seq(Spans) /\ IsInjective(pending)
    BY DEF AckedInvariant, SpansPlaced, TypeOK
  <2>2. /\ IsInjective(pending')
        /\ \A x : x \in Range(pending')
                    <=> x \in Range(pending) /\ ~\E i \in 1..Len(batch[a]) : pending[i] = x
    <3>1. PICK n \in 0..Len(pending) : n = Len(batch[a])
      BY <1>4
    <3>2. pending' = SubSeq(pending, n + 1, Len(pending))
      BY <1>1, <3>1
    <3> QED
      BY <2>1, <3>1, <3>2, RangeSuffix
  <2> QED
    BY <1>4, <2>2
<1>6. /\ acked \cap Range(pending) = Range(batch[a])
      /\ exportedSpans' = Cardinality(acked)
  BY <1>1 DEF AckedInvariant
<1>7. SpansPlaced'
  <2>1. /\ IsInjective(queue') /\ IsInjective(pending')
        /\ droppedSpans' = Cardinality({s \in Spans : spanPc'[s] = "dropped"})
    BY <1>1, <1>5 DEF AckedInvariant, SpansPlaced
  <2>2. /\ Range(queue') \cap (InHand' \cup Range(pending')) = {}
        /\ InHand' \cap Range(pending') = {}
    BY <1>1, <1>3, <1>5 DEF AckedInvariant, SpansPlaced
  <2>3. {s \in Spans : spanPc'[s] = "queued"}
          = Range(queue') \cup InHand' \cup Range(pending') \cup acked'
    BY <1>1, <1>3, <1>5, <1>6 DEF AckedInvariant, SpansPlaced
  <2>4. acked' \cap Range(pending') = {} /\ exportedSpans' = Cardinality(acked')
    BY <1>1, <1>5, <1>6
  <2> QED
    BY <2>1, <2>2, <2>3, <2>4 DEF SpansPlaced
<1> QED
  BY <1>1, <1>2, <1>3, <1>7 DEF AckedInvariant

\* Every step leaves each accepted span in one place.
LEMMA AckedStep ==
  ASSUME AckedInvariant, MutexInvariant, TypeOK', [Next]_vars
  PROVE  AckedInvariant'
<1> USE DEF spanVars, actorVars, counters, Actors
<1>0. TypeOK
  BY DEF AckedInvariant, SpansPlaced
<1>1. ASSUME NEW s \in Spans, End(s)
      PROVE  AckedInvariant'
  <2>1. UNCHANGED <<queue, pending, hand, acked, exportedSpans, droppedSpans, pc, batch>>
    BY <1>1 DEF End
  <2>2. UNCHANGED <<Queued, Dropped>>
    BY <1>0, <1>1 DEF End, Queued, Dropped, TypeOK
  <2> QED
    BY <2>1, <2>2, AckedSame
<1>2. ASSUME NEW s \in Spans, ExportSpan(s)
      PROVE  AckedInvariant'
  BY <1>2, AckedExport
<1>3. CASE Receive
  <2>1. hand[Runner] = NoSpan
    BY <1>3 DEF Receive, MutexInvariant
  <2>2. \A b \in Actors : pc'[b] = "commit" <=> pc[b] = "commit"
    BY <1>0, <1>3 DEF Receive, TypeOK
  <2> QED
    BY <1>3, <2>1, <2>2, AckedTake DEF Receive
<1>4. ASSUME NEW a \in Actors, Drain(a)
      PROVE  AckedInvariant'
  BY <1>4, AckedTake DEF Drain
<1>5. ASSUME NEW a \in Actors,
             \/ Tick \/ Done \/ Lock(a) \/ Drained(a) \/ Copy(a)
             \/ CollectorTakes(a) \/ PostFails(a)
             \/ Close \/ CollectorChanges \/ (a \in Flushers /\ CallFlush(a)) \/ UNCHANGED vars
      PROVE  AckedInvariant'
  <2>1. /\ UNCHANGED <<queue, pending, hand, acked, exportedSpans, droppedSpans, spanPc>>
        /\ \A b \in Actors : pc'[b] = "commit" <=> pc[b] = "commit"
        /\ \A b \in Actors : pc[b] = "commit" => batch'[b] = batch[b]
    <3>1. CASE Tick \/ Done \/ Lock(a) \/ Drained(a)
      BY <1>0, <3>1 DEF Tick, Done, Lock, Drained, TypeOK
    <3>2. CASE Copy(a) \/ CollectorTakes(a) \/ PostFails(a)
      BY <1>0, <3>2 DEF Copy, CollectorTakes, PostFails, Return, TypeOK
    <3>3. CASE Close \/ CollectorChanges \/ (a \in Flushers /\ CallFlush(a)) \/ UNCHANGED vars
      BY <1>0, <3>3 DEF Close, CollectorChanges, CallFlush, vars, TypeOK
    <3> QED
      BY <1>5, <3>1, <3>2, <3>3
  <2>2. UNCHANGED <<Queued, Dropped>>
    BY <2>1 DEF Queued, Dropped
  <2> QED
    BY <2>1, <2>2, AckedSame
<1>6. ASSUME NEW a \in Actors, Flush(a)
      PROVE  AckedInvariant'
  BY <1>4, <1>5, <1>6, AckedAdd, AckedPost, AckedCommit DEF Flush
<1> QED
  BY <1>1, <1>2, <1>3, <1>5, <1>6 DEF Next, Run

-----------------------------------------------------------------------------
(* What the collector has.                                                 *)

\* Steps that post nothing and take nothing off pending.
LEMMA ReceivedSame ==
  ASSUME ReceivedInvariant, UNCHANGED <<received, acked>>,
         Range(pending) \subseteq Range(pending'),
         \A a \in Actors : pc'[a] \in {"post", "taken"} => pc'[a] = pc[a] /\ batch'[a] = batch[a]
  PROVE  ReceivedInvariant'
BY DEF ReceivedInvariant, SentAtLeastOnce

\* Every step keeps what the collector has in step with what is confirmed and
\* what is pending.
LEMMA ReceivedStep ==
  ASSUME AckedInvariant, AckedInvariant', MutexInvariant, ReceivedInvariant, [Next]_vars
  PROVE  ReceivedInvariant'
<1> USE DEF spanVars, actorVars, counters, Actors
<1>0. TypeOK /\ IsInjective(pending) /\ Convertible \subseteq Spans
  BY ExporterAssumption DEF AckedInvariant, SpansPlaced
<1>1. ASSUME NEW a \in Actors, AddPending(a)
      PROVE  ReceivedInvariant'
  <2>1. Range(pending) \subseteq Range(pending')
    BY <1>0, <1>1, RangeAppend DEF AddPending, TypeOK
  <2>2. /\ UNCHANGED <<received, acked, batch>>
        /\ \A b \in Actors : pc'[b] \in {"post", "taken"} => pc'[b] = pc[b]
    BY <1>0, <1>1 DEF AddPending, TypeOK
  <2> QED
    BY <2>1, <2>2, ReceivedSame
<1>2. ASSUME NEW a \in Actors, Copy(a), pending # << >>
      PROVE  ReceivedInvariant'
  <2>1. /\ UNCHANGED <<received, acked, pending>>
        /\ \A b \in Actors : b # a => pc'[b] = pc[b] /\ batch'[b] = batch[b]
        /\ pc'[a] = "post" /\ batch'[a] = pending /\ pc[a] = "copy"
    BY <1>0, <1>2 DEF Copy, TypeOK
  <2>2. ~Committing
    BY <2>1 DEF Committing, MutexInvariant
  <2>3. acked \cap Range(pending) = {}
    BY <2>2 DEF AckedInvariant, SpansPlaced
  <2> QED
    BY <2>1, <2>3 DEF ReceivedInvariant, SentAtLeastOnce
<1>3. ASSUME NEW a \in Actors, CollectorTakes(a)
      PROVE  ReceivedInvariant'
  <2>1. /\ UNCHANGED <<acked, pending, batch>> /\ pc[a] = "post" /\ pc'[a] = "taken"
        /\ \A b \in Actors : b # a => pc'[b] = pc[b]
        /\ received' = received \cup (Range(batch[a]) \cap Convertible)
    BY <1>0, <1>3 DEF CollectorTakes, spansToOTLPExport, TypeOK
  <2>2. Range(batch[a]) \subseteq Range(pending)
    BY <1>0, <2>1, BatchInPending
  <2> QED
    BY <2>1, <2>2 DEF ReceivedInvariant, SentAtLeastOnce
<1>4. ASSUME NEW a \in Actors, PostSucceeds(a)
      PROVE  ReceivedInvariant'
  <2>1. /\ UNCHANGED <<received, pending, batch>> /\ pc[a] = "taken" /\ pc'[a] = "commit"
        /\ \A b \in Actors : b # a => pc'[b] = pc[b]
        /\ acked' = acked \cup Range(batch[a])
    BY <1>0, <1>4 DEF PostSucceeds, TypeOK
  <2>2. \A b \in Actors : pc'[b] \notin {"post", "taken"}
    BY <2>1 DEF MutexInvariant
  <2> QED
    BY <2>1, <2>2 DEF ReceivedInvariant, SentAtLeastOnce
<1>5. ASSUME NEW a \in Actors, Commit(a)
      PROVE  ReceivedInvariant'
  <2>1. /\ UNCHANGED <<received, acked, spanPc, queue, hand>> /\ pc[a] = "commit"
        /\ \A b \in Actors : b # a => pc'[b] = pc[b] /\ batch'[b] = batch[b]
        /\ pc'[a] \notin {"post", "taken"}
    BY <1>0, <1>5 DEF Commit, Return, TypeOK
  <2>2. /\ Queued = Range(queue) \cup InHand \cup Range(pending) \cup acked
        /\ Queued' = Range(queue') \cup InHand' \cup Range(pending') \cup acked'
        /\ Range(pending) \cap (Range(queue) \cup InHand) = {}
    BY DEF AckedInvariant, SpansPlaced, Queued
  <2>3. UNCHANGED <<Queued, InHand>>
    BY <2>1 DEF Queued, InHand
  <2>4. acked \cup Range(pending) \subseteq acked' \cup Range(pending')
    <3>1. acked \cap (Range(queue) \cup InHand) = {}
      BY DEF AckedInvariant
    <3> QED
      BY <2>1, <2>2, <2>3, <3>1
  <2> QED
    BY <2>1, <2>4 DEF ReceivedInvariant, SentAtLeastOnce
<1>6. ASSUME NEW s \in Spans, End(s) \/ ExportSpan(s)
      PROVE  ReceivedInvariant'
  BY <1>6, ReceivedSame DEF End, ExportSpan
<1>7. ASSUME NEW a \in Actors,
             Lock(a) \/ Drain(a) \/ Drained(a) \/ PostFails(a) \/ (Copy(a) /\ pending = << >>)
      PROVE  ReceivedInvariant'
  <2>1. /\ UNCHANGED <<received, acked, pending>>
        /\ \A b \in Actors :
             pc'[b] \in {"post", "taken"} => pc'[b] = pc[b] /\ batch'[b] = batch[b]
    <3>1. CASE Lock(a) \/ Drain(a) \/ Drained(a)
      BY <1>0, <3>1 DEF Lock, Drain, Drained, TypeOK
    <3>2. CASE PostFails(a) \/ (Copy(a) /\ pending = << >>)
      BY <1>0, <3>2 DEF PostFails, Copy, Return, TypeOK
    <3> QED
      BY <1>7, <3>1, <3>2
  <2> QED
    BY <2>1, ReceivedSame
<1>8. CASE Receive \/ Tick \/ Done \/ Close \/ CollectorChanges \/ UNCHANGED vars
  <2>1. /\ UNCHANGED <<received, acked, pending, batch>>
        /\ \A b \in Actors : pc'[b] \in {"post", "taken"} => pc'[b] = pc[b]
    BY <1>0, <1>8 DEF Receive, Tick, Done, Close, CollectorChanges, vars, TypeOK
  <2> QED
    BY <2>1, ReceivedSame
<1>9. ASSUME NEW f \in Flushers, CallFlush(f)
      PROVE  ReceivedInvariant'
  <2>1. /\ UNCHANGED <<received, acked, pending, batch>>
        /\ \A b \in Actors : pc'[b] \in {"post", "taken"} => pc'[b] = pc[b]
    BY <1>0, <1>9 DEF CallFlush, TypeOK
  <2> QED
    BY <2>1, ReceivedSame
<1>10. ASSUME NEW a \in Actors, Flush(a)
       PROVE  ReceivedInvariant'
  BY <1>1, <1>2, <1>3, <1>4, <1>5, <1>7, <1>10 DEF Flush
<1> QED
  BY <1>6, <1>8, <1>9, <1>10 DEF Next, Run

-----------------------------------------------------------------------------
(* What a flush was called for.                                            *)

ExporterInvariant ==
  MutexInvariant /\ AckedInvariant /\ ReceivedInvariant /\ OwedInvariant

\* Nothing that was queued comes back to the queue, and nothing acknowledged is
\* forgotten.
LEMMA NeverBack ==
  ASSUME ExporterInvariant, [Next]_vars
  PROVE  /\ \A s \in Queued : s \in Range(queue') => s \in Range(queue)
         /\ Queued \subseteq Queued' /\ acked \subseteq acked'
<1> USE DEF spanVars, actorVars, counters, Actors
<1>0. TypeOK /\ IsInjective(queue)
  BY DEF ExporterInvariant, AckedInvariant, SpansPlaced
<1>1. queue # << >> => Range(Tail(queue)) \subseteq Range(queue)
  BY <1>0, RangeTail DEF TypeOK
<1>2. ASSUME NEW s \in Spans, End(s) \/ ExportSpan(s)
      PROVE  /\ \A t \in Queued : t \in Range(queue') => t \in Range(queue)
             /\ Queued \subseteq Queued' /\ acked \subseteq acked'
  <2>1. CASE End(s)
    BY <1>0, <2>1 DEF End, Queued, TypeOK
  <2>2. CASE ExportSpan(s)
    <3>1. Range(Append(queue, s)) = Range(queue) \cup {s}
      BY <1>0, RangeAppend DEF TypeOK
    <3>2. s \notin Queued
      BY <2>2 DEF ExportSpan, Queued
    <3>3. queue' = queue \/ queue' = Append(queue, s)
      BY <2>2 DEF ExportSpan
    <3>4. Queued \subseteq Queued' /\ acked' = acked
      BY <1>0, <2>2 DEF ExportSpan, Queued, TypeOK
    <3> QED
      BY <3>1, <3>2, <3>3, <3>4
  <2> QED
    BY <1>2, <2>1, <2>2
<1>3. CASE ~\E s \in Spans : End(s) \/ ExportSpan(s)
  <2>1. UNCHANGED spanPc /\ (queue' = queue \/ (queue # << >> /\ queue' = Tail(queue)))
        /\ acked \subseteq acked'
    <3>1. ASSUME NEW a \in Actors, Flush(a)
          PROVE  /\ UNCHANGED spanPc /\ (queue' = queue \/ (queue # << >> /\ queue' = Tail(queue)))
                 /\ acked \subseteq acked'
      BY <3>1 DEF Flush, Lock, Drain, AddPending, Drained, Copy, CollectorTakes, PostFails, PostSucceeds, Commit
    <3>2. CASE Receive \/ Tick \/ Done \/ Close \/ CollectorChanges \/ UNCHANGED vars
      BY <3>2 DEF Receive, Tick, Done, Close, CollectorChanges, vars
    <3>3. ASSUME NEW f \in Flushers, CallFlush(f)
          PROVE  UNCHANGED <<spanPc, queue, acked>>
      BY <3>3 DEF CallFlush
    <3> QED
      BY <1>3, <3>1, <3>2, <3>3 DEF Next, Run
  <2> QED
    BY <1>1, <2>1 DEF Queued
<1> QED
  BY <1>2, <1>3

\* What is owed is kept in sight.
LEMMA OwedStep ==
  ASSUME ExporterInvariant, TypeOK', MutexInvariant', AckedInvariant', [Next]_vars
  PROVE  OwedInvariant'
<1> USE DEF spanVars, actorVars, counters, Actors
<1>0. TypeOK /\ MutexInvariant /\ AckedInvariant /\ OwedInvariant
  BY DEF ExporterInvariant, AckedInvariant, SpansPlaced
<1>1. /\ \A s \in Queued : s \in Range(queue') => s \in Range(queue)
      /\ Queued \subseteq Queued' /\ acked \subseteq acked'
  BY NeverBack
<1>2. \A a \in Actors : owed[a] \subseteq Queued
  BY <1>0 DEF OwedInvariant, Queued
<1>3. Runner \notin Flushers
  BY ExporterAssumption
\* The steps that leave alone what the invariant is about, of an actor.
<1>4. ASSUME NEW f \in Flushers, pc'[f] = pc[f], owed'[f] = owed[f],
             pc[f] \in {"post", "taken", "commit"} => batch'[f] = batch[f]
      PROVE  /\ owed'[f] \subseteq Queued'
             /\ pc'[f] \in {"copy", "post", "taken", "commit", "ok"} => owed'[f] \cap Range(queue') = {}
             /\ pc'[f] \in {"post", "taken", "commit", "ok"} =>
                  \E s \in Spans \cup {NoSpan} :
                    owed'[f] \subseteq acked' \cup {s}
                                        \cup IF pc'[f] = "ok" THEN {} ELSE Range(batch'[f])
  <2>1. owed'[f] \subseteq Queued'
    BY <1>1, <1>2, <1>4
  <2>2. pc'[f] \in {"copy", "post", "taken", "commit", "ok"} => owed'[f] \cap Range(queue') = {}
    BY <1>0, <1>1, <1>2, <1>4 DEF OwedInvariant
  <2>3. ASSUME pc'[f] \in {"post", "taken", "commit", "ok"}
        PROVE  \E s \in Spans \cup {NoSpan} :
                 owed'[f] \subseteq acked' \cup {s}
                                     \cup IF pc'[f] = "ok" THEN {} ELSE Range(batch'[f])
    <3>1. PICK s \in Spans \cup {NoSpan} :
            owed[f] \subseteq acked \cup {s} \cup IF pc[f] = "ok" THEN {} ELSE Range(batch[f])
      BY <1>0, <1>4, <2>3 DEF OwedInvariant
    <3>2. owed'[f] \subseteq acked' \cup {s} \cup IF pc'[f] = "ok" THEN {} ELSE Range(batch'[f])
      BY <1>1, <1>4, <2>3, <3>1
    <3> QED
      BY <3>2
  <2> QED
    BY <2>1, <2>2, <2>3
<1>5. ASSUME pc'[Runner] = pc[Runner], owed'[Runner] = owed[Runner],
             UNCHANGED <<final, closing>>
      PROVE  /\ final' => closing'
             /\ pc'[Runner] \in {"finaldrain", "exited"} => final'
             /\ final' /\ pc'[Runner] # "finaldrain" => owed'[Runner] \cap Range(queue') = {}
             /\ owed'[Runner] \subseteq Queued'
  BY <1>0, <1>1, <1>2, <1>5 DEF OwedInvariant
<1>6. CASE UNCHANGED <<pc, owed, batch, final, closing>>
  BY <1>4, <1>5, <1>6 DEF OwedInvariant, Queued
<1>7. ASSUME NEW s \in Spans, End(s) \/ ExportSpan(s)
      PROVE  OwedInvariant'
  BY <1>6, <1>7 DEF End, ExportSpan
<1>8. CASE CollectorChanges \/ UNCHANGED vars
  BY <1>6, <1>8 DEF CollectorChanges, vars
<1>9. CASE Close
  <2>1. ~closing /\ closing' /\ UNCHANGED <<pc, batch, final>> /\ ~final
    BY <1>0, <1>9 DEF Close, OwedInvariant
  <2>2. /\ owed'[Runner] = Queued /\ \A f \in Flushers : owed'[f] = owed[f]
    BY <1>0, <1>3, <1>9 DEF Close, Remember, Queued, TypeOK
  <2>3. ~final' /\ pc'[Runner] \notin {"finaldrain", "exited"}
    BY <1>0, <2>1 DEF OwedInvariant
  <2> QED
    BY <1>1, <1>4, <2>1, <2>2, <2>3 DEF OwedInvariant, Queued
<1>10. ASSUME NEW f \in Flushers, CallFlush(f)
       PROVE  OwedInvariant'
  <2>1. /\ pc'[f] = "lock" /\ owed'[f] = Queued /\ UNCHANGED <<batch, final, closing>>
        /\ \A a \in Actors : a # f => pc'[a] = pc[a] /\ owed'[a] = owed[a]
    BY <1>0, <1>10 DEF CallFlush, Remember, Queued, TypeOK
  <2> QED
    BY <1>1, <1>3, <1>4, <1>5, <2>1 DEF OwedInvariant, Queued
\* The steps of run are not those of a client.
<1>11. ASSUME UNCHANGED <<owed, closing>>,
              \A f \in Flushers : pc'[f] = pc[f] /\ batch'[f] = batch[f],
              final' => closing,
              pc'[Runner] \in {"finaldrain", "exited"} => final',
              final' /\ pc'[Runner] # "finaldrain" => owed[Runner] \cap Range(queue) = {}
       PROVE  OwedInvariant'
  <2>1. /\ owed'[Runner] \subseteq Queued'
        /\ final' /\ pc'[Runner] # "finaldrain" => owed'[Runner] \cap Range(queue') = {}
    BY <1>1, <1>2, <1>11
  <2> QED
    BY <1>4, <1>11, <2>1 DEF OwedInvariant, Queued
<1>12. CASE Receive \/ Tick \/ Done
  BY <1>0, <1>3, <1>11, <1>12 DEF Receive, Tick, Done, OwedInvariant, TypeOK
<1>13. CASE Flush(Runner)
  <2>1. UNCHANGED <<owed, closing, final>>
        /\ \A f \in Flushers : pc'[f] = pc[f] /\ batch'[f] = batch[f]
    BY <1>0, <1>3, <1>13 DEF Flush, Lock, Drain, AddPending, Drained, Copy, CollectorTakes, PostFails, PostSucceeds,
       Commit, Return, TypeOK
  <2>2. CASE Drained(Runner)
    <3>1. Range(queue) = {}
      BY <2>2 DEF Drained, Range
    <3> QED
      BY <1>0, <1>11, <2>1, <2>2, <3>1 DEF Drained, OwedInvariant, TypeOK
  <2>3. CASE ~Drained(Runner)
    <3>1. /\ pc'[Runner] = "finaldrain" <=> pc[Runner] = "finaldrain"
          /\ pc'[Runner] = "exited" => final
      BY <1>0, <1>13, <2>3 DEF Flush, Lock, Drain, AddPending, Copy, CollectorTakes, PostFails, PostSucceeds,
         Commit, Return, TypeOK, OwedInvariant
    <3> QED
      BY <1>0, <1>11, <2>1, <3>1 DEF OwedInvariant
  <2> QED
    BY <2>2, <2>3
<1>14. ASSUME NEW f \in Flushers, Flush(f)
       PROVE  OwedInvariant'
  <2>1. /\ UNCHANGED <<owed, closing, final>>
        /\ \A a \in Actors : a # f => pc'[a] = pc[a] /\ batch'[a] = batch[a]
    BY <1>0, <1>14 DEF Flush, Lock, Drain, AddPending, Drained, Copy, CollectorTakes, PostFails, PostSucceeds,
       Commit, Return, TypeOK
  <2>2. f # Runner /\ pc[f] \notin {"received", "finaldrain"}
    BY <1>0, <1>3 DEF MutexInvariant
  <2>3. ASSUME pc'[f] \in {"copy", "post", "taken", "commit", "ok"} => owed[f] \cap Range(queue) = {},
               pc'[f] \in {"post", "taken", "commit", "ok"} =>
                 \E s \in Spans \cup {NoSpan} :
                   owed[f] \subseteq acked' \cup {s}
                                       \cup IF pc'[f] = "ok" THEN {} ELSE Range(batch'[f])
        PROVE  OwedInvariant'
    <3>1. /\ owed'[f] \subseteq Queued'
          /\ pc'[f] \in {"copy", "post", "taken", "commit", "ok"} => owed'[f] \cap Range(queue') = {}
      BY <1>1, <1>2, <2>1, <2>3
    <3> QED
      BY <1>4, <1>5, <2>1, <2>2, <2>3, <3>1 DEF OwedInvariant, Queued
  <2>4. CASE Lock(f) \/ PostFails(f)
    <3>1. pc'[f] \in {"drain", "error"}
      BY <1>0, <2>2, <2>4 DEF Lock, PostFails, Return, TypeOK
    <3> QED
      BY <2>3, <3>1
  <2>5. CASE Drain(f) \/ AddPending(f)
    <3>1. UNCHANGED <<batch, owed, closing, final>> /\ pc'[f] = pc[f]
      BY <1>0, <2>1, <2>2, <2>5 DEF Drain, AddPending, TypeOK
    <3> QED
      BY <1>4, <1>5, <2>1, <2>2, <3>1 DEF OwedInvariant, Queued
  <2>6. CASE Drained(f)
    <3>1. pc'[f] = "copy" /\ Range(queue) = {}
      BY <1>0, <2>2, <2>6 DEF Drained, TypeOK, Range
    <3> QED
      BY <2>3, <3>1
  <2>7. CASE Copy(f)
    <3>1. pc[f] = "copy" /\ owed[f] \cap Range(queue) = {}
      BY <1>0, <2>7 DEF Copy, OwedInvariant
    <3>2. \A b \in Actors : b # Runner => hand[b] = NoSpan
      BY <1>0, <3>1 DEF MutexInvariant
    <3>3. InHand \subseteq {hand[Runner]}
      BY <3>2 DEF InHand
    <3>4. owed[f] \subseteq {hand[Runner]} \cup Range(pending) \cup acked
      BY <1>0, <1>2, <3>1, <3>3 DEF AckedInvariant, SpansPlaced, Queued
    <3>5. hand[Runner] \in Spans \cup {NoSpan} /\ acked' = acked
      BY <1>0, <2>7 DEF Copy, TypeOK
    <3>6. CASE pending = << >>
      <4>1. pc'[f] = "ok" /\ Range(pending) = {}
        BY <1>0, <2>2, <2>7, <3>6 DEF Copy, Return, TypeOK, Range
      <4>2. owed[f] \subseteq acked' \cup {hand[Runner]} \cup {}
        BY <3>4, <3>5, <4>1
      <4> QED
        BY <2>3, <3>1, <3>5, <4>1, <4>2
    <3>7. CASE pending # << >>
      <4>1. pc'[f] = "post" /\ batch'[f] = pending
        BY <1>0, <2>7, <3>7 DEF Copy, TypeOK
      <4>2. owed[f] \subseteq acked' \cup {hand[Runner]} \cup Range(batch'[f])
        BY <3>4, <3>5, <4>1
      <4> QED
        BY <2>3, <3>1, <3>5, <4>1, <4>2
    <3> QED
      BY <3>6, <3>7
  <2>8. CASE CollectorTakes(f) \/ PostSucceeds(f) \/ Commit(f)
    <3>1. /\ pc[f] \in {"post", "taken", "commit"}
          /\ pc[f] = "post" => pc'[f] = "taken" /\ batch'[f] = batch[f]
          /\ pc[f] = "taken" => pc'[f] = "commit" /\ batch'[f] = batch[f]
          /\ pc[f] = "commit" => pc'[f] = "ok"
      BY <1>0, <2>2, <2>8 DEF CollectorTakes, PostSucceeds, Commit, Return, TypeOK
    <3>2. PICK s \in Spans \cup {NoSpan} : owed[f] \subseteq acked \cup {s} \cup Range(batch[f])
      BY <1>0, <3>1 DEF OwedInvariant
    <3>3. owed[f] \cap Range(queue) = {}
      BY <1>0, <3>1 DEF OwedInvariant
    <3>4. pc[f] = "commit" => Range(batch[f]) \subseteq acked
      BY <1>0 DEF AckedInvariant
    <3>5. owed[f] \subseteq acked' \cup {s} \cup IF pc'[f] = "ok" THEN {} ELSE Range(batch'[f])
      BY <1>1, <3>1, <3>2, <3>4
    <3> QED
      BY <2>3, <3>3, <3>5
  <2> QED
    BY <1>14, <2>4, <2>5, <2>6, <2>7, <2>8 DEF Flush
<1> QED
  BY <1>7, <1>8, <1>9, <1>10, <1>12, <1>13, <1>14 DEF Next, Run

-----------------------------------------------------------------------------
(* Theorems.                                                               *)

\* The start.
LEMMA ExporterInit == Init => ExporterInvariant
<1> SUFFICES ASSUME Init
             PROVE  ExporterInvariant
  OBVIOUS
<1> USE DEF Init, Actors
<1>0. /\ Runner \notin Flushers /\ Nobody \notin Flushers /\ Nobody # Runner
      /\ TraceCapacity \in Nat /\ QueueSize \in Nat
  BY ExporterAssumption
<1>1. TypeOK
  <2>1. << >> \in Seq(Spans) /\ Len(<< >>) = 0
    OBVIOUS
  <2>2. /\ spanPc \in [Spans -> {"open", "recorded", "queued", "dropped"}]
        /\ hand \in [Actors -> Spans \cup {NoSpan}]
        /\ owed \in [Actors -> SUBSET Spans]
        /\ pc \in [Actors -> {"idle", "select", "received", "finaldrain", "lock", "drain",
                              "copy", "post", "taken", "commit", "ok", "error", "exited"}]
    OBVIOUS
  <2>3. batch \in [Actors -> Seq(Spans)]
    BY <2>1
  <2>4. /\ ring \in Seq(Spans) /\ Len(ring) <= TraceCapacity
        /\ queue \in Seq(Spans) /\ Len(queue) <= QueueSize /\ pending \in Seq(Spans)
    BY <1>0, <2>1
  <2>5. /\ closing \in BOOLEAN /\ final \in BOOLEAN /\ collectorUp \in BOOLEAN
        /\ received \subseteq Spans /\ acked \subseteq Spans /\ exportedSpans \in Nat /\ droppedSpans \in Nat
        /\ flushMu \in Actors \cup {Nobody}
    OBVIOUS
  <2> QED
    BY <2>2, <2>3, <2>4, <2>5 DEF TypeOK
<1>2. MutexInvariant
  BY <1>0 DEF MutexInvariant
<1>3. Range(<< >>) = {} /\ InHand = {} /\ Cardinality({}) = 0 /\ IsInjective(<< >>)
  BY FS_EmptySet DEF Range, InHand, IsInjective
<1>4. {s \in Spans : spanPc[s] = "queued"} = {} /\ {s \in Spans : spanPc[s] = "dropped"} = {}
  OBVIOUS
<1>5. SpansPlaced
  BY <1>1, <1>3, <1>4 DEF SpansPlaced
<1>6. AckedInvariant
  BY <1>5 DEF AckedInvariant
<1>7. OwedInvariant
  BY <1>0 DEF OwedInvariant
<1>8. ReceivedInvariant
  BY <1>0 DEF ReceivedInvariant, SentAtLeastOnce
<1> QED
  BY <1>2, <1>6, <1>7, <1>8 DEF ExporterInvariant

\* The invariant holds in every state.
LEMMA ExporterInductive == Spec => []ExporterInvariant
<1>1. ExporterInvariant /\ [Next]_vars => ExporterInvariant'
  <2> SUFFICES ASSUME ExporterInvariant, [Next]_vars
               PROVE  ExporterInvariant'
    OBVIOUS
  <2>0. TypeOK /\ MutexInvariant /\ AckedInvariant /\ IsInjective(queue) /\ IsInjective(pending)
    BY DEF ExporterInvariant, AckedInvariant, SpansPlaced
  <2>1. TypeOK'
    BY <2>0, TypeStep
  <2>2. MutexInvariant'
    BY <2>0, <2>1, MutexStep
  <2>3. AckedInvariant'
    BY <2>0, <2>1, AckedStep
  <2>4. OwedInvariant'
    BY <2>1, <2>2, <2>3, OwedStep
  <2>5. ReceivedInvariant'
    BY <2>0, <2>3, ReceivedStep DEF ExporterInvariant
  <2> QED
    BY <2>2, <2>3, <2>4, <2>5 DEF ExporterInvariant
<1> QED
  BY <1>1, ExporterInit, PTL DEF Spec

\* A span that ExportSpan and toOTLP accept is kept until a post with it has
\* succeeded, and then the collector has it; no span is posted again after that,
\* and the counters tell what happened.
THEOREM SpansConservedHolds == Spec => []SpansConserved
<1>1. ExporterInvariant => SpansConserved
  BY DEF ExporterInvariant, AckedInvariant, ReceivedInvariant, SpansConserved
<1> QED
  BY <1>1, ExporterInductive, PTL

\* Once run has returned nothing queued before Close is in the queue, and when a
\* Flush has returned without an error, all that was queued when it was called is
\* with the collector or was left out of a post that succeeded, but for at most
\* one span.
THEOREM FlushesReachQueuedHolds == Spec => []FlushesReachQueued
<1>1. ExporterInvariant => FlushesReachQueued
  <2> SUFFICES ASSUME ExporterInvariant
               PROVE  FlushesReachQueued
    OBVIOUS
  <2>1. pc[Runner] = "exited" => owed[Runner] \cap Range(queue) = {}
    BY DEF ExporterInvariant, OwedInvariant
  <2>2. ASSUME NEW f \in Flushers, pc[f] = "ok"
        PROVE  Cardinality(owed[f] \ (received \cup (acked \ Convertible))) <= 1
    <3>1. PICK s \in Spans \cup {NoSpan} : owed[f] \subseteq acked \cup {s}
      BY <2>2 DEF ExporterInvariant, OwedInvariant
    <3>2. acked \cap Convertible \subseteq received
      BY DEF ExporterInvariant, ReceivedInvariant, SentAtLeastOnce
    <3>3. owed[f] \ (received \cup (acked \ Convertible)) \subseteq {s}
      BY <3>1, <3>2
    <3>4. IsFiniteSet({s}) /\ Cardinality({s}) = 1
      BY FS_Singleton
    <3> QED
      BY <3>3, <3>4, FS_Subset
  <2> QED
    BY <2>1, <2>2 DEF FlushesReachQueued
<1> QED
  BY <1>1, ExporterInductive, PTL

=============================================================================
