---------------------------- MODULE OtlpExporter -----------------------------
(***************************************************************************)
(* The way of a span from ActiveSpan.End through TraceRecorder.RecordSpan  *)
(* (gateway/tracing.go) to the background exporter                         *)
(* (gateway/otlp_exporter.go).  Request goroutines end spans; the          *)
(* goroutine of OTLPHTTPExporter.run collects and posts them; clients may  *)
(* call Flush, and Close.  mu is held for single accesses, which are the   *)
(* steps here; flushMu is held over a whole Flush, the HTTP post included. *)
(***************************************************************************)
EXTENDS Integers, Sequences, FiniteSets, Functions

CONSTANTS
  Spans,             \* the spans, each ended once
  Convertible,       \* those whose ids toOTLP accepts
  NoSpan,            \* a value that is not a span
  Flushers,          \* clients that call Flush, once each
  Runner,            \* the goroutine executing run
  Nobody,            \* the holder of a free mutex
  TraceCapacity,     \* TraceRecorder.capacity
  QueueSize,         \* config.QueueSize
  MaxBatchSize       \* config.MaxBatchSize

ASSUME ExporterAssumption ==
  /\ IsFiniteSet(Spans) /\ NoSpan \notin Spans /\ Convertible \subseteq Spans
  /\ Runner \notin Flushers /\ Nobody \notin Flushers \cup {Runner}
  /\ TraceCapacity \in Nat \ {0}
  /\ QueueSize \in Nat \ {0}
  /\ MaxBatchSize \in Nat \ {0}

Actors == Flushers \cup {Runner}

VARIABLES
  spanPc,            \* "open", "recorded", "queued" or "dropped"
  ring,              \* TraceRecorder.spans
  queue,             \* OTLPHTTPExporter.queue
  pending,           \* OTLPHTTPExporter.pending
  pc,                \* control point of each actor
  hand,              \* the span an actor has received and not yet added
  batch,             \* the copy of pending an actor is posting
  flushMu,           \* the holder of flushMu
  closing,           \* the channel done is closed
  final,             \* run has seen that
  collectorUp,       \* the collector takes a post and its success arrives in time
  received,          \* the spans that the collector has taken, once or more often
  acked,             \* the spans of the posts that the exporter saw succeed
  exportedSpans,
  droppedSpans,
  owed               \* history: the spans queued when Flush or Close was called

spanVars == <<spanPc, ring>>
actorVars == <<pc, hand, batch>>
counters == <<received, acked, exportedSpans, droppedSpans>>
vars == <<spanVars, queue, pending, actorVars, flushMu, closing, final, collectorUp,
          counters, owed>>

-----------------------------------------------------------------------------
(* Ending a span.                                                          *)

\* The newest spans of seq, as many as the recorder keeps.
Newest(seq) ==
  IF Len(seq) > TraceCapacity
  THEN SubSeq(seq, Len(seq) - TraceCapacity + 1, Len(seq)) ELSE seq

\* ActiveSpan.End and RecordSpan under their locks.  A second End of the same
\* span finds it ended and does nothing.
End(s) ==
  /\ spanPc[s] = "open"
  /\ spanPc' = [spanPc EXCEPT ![s] = "recorded"]
  /\ ring' = Newest(Append(ring, s))
  /\ UNCHANGED <<queue, pending, actorVars, flushMu, closing, final, collectorUp,
                 counters, owed>>

\* ExportSpan, after RecordSpan has dropped its lock: the span is queued, or
\* dropped and counted when the queue is full.
ExportSpan(s) ==
  /\ spanPc[s] = "recorded"
  /\ IF Len(queue) < QueueSize
     THEN /\ queue' = Append(queue, s)
          /\ spanPc' = [spanPc EXCEPT ![s] = "queued"]
          /\ UNCHANGED droppedSpans
     ELSE /\ droppedSpans' = droppedSpans + 1
          /\ spanPc' = [spanPc EXCEPT ![s] = "dropped"]
          /\ UNCHANGED queue
  /\ UNCHANGED <<ring, pending, actorVars, flushMu, closing, final, collectorUp,
                 received, acked, exportedSpans, owed>>

-----------------------------------------------------------------------------
(* The select loop of run.                                                 *)

\* case span := <-e.queue
Receive ==
  /\ pc[Runner] = "select"
  /\ queue # <<>>
  /\ hand' = [hand EXCEPT ![Runner] = Head(queue)]
  /\ queue' = Tail(queue)
  /\ pc' = [pc EXCEPT ![Runner] = "received"]
  /\ UNCHANGED <<spanVars, pending, batch, flushMu, closing, final, collectorUp,
                 counters, owed>>

\* Seeded fault: the ticker flushes full batches only.
Tick_full ==
  /\ pc[Runner] = "select"
  /\ Len(pending) >= MaxBatchSize
  /\ pc' = [pc EXCEPT ![Runner] = "lock"]
  /\ UNCHANGED <<spanVars, queue, pending, hand, batch, flushMu, closing, final,
                 collectorUp, counters, owed>>

\* case <-ticker.C
Tick ==
  /\ pc[Runner] = "select"
  /\ pc' = [pc EXCEPT ![Runner] = "lock"]
  /\ UNCHANGED <<spanVars, queue, pending, hand, batch, flushMu, closing, final,
                 collectorUp, counters, owed>>

\* case <-e.done: drain without the mutex, flush, return.
Done ==
  /\ pc[Runner] = "select"
  /\ closing
  /\ final' = TRUE
  /\ pc' = [pc EXCEPT ![Runner] = "finaldrain"]
  /\ UNCHANGED <<spanVars, queue, pending, hand, batch, flushMu, closing, collectorUp,
                 counters, owed>>

\* addPending; in run's first case it decides whether the batch is full.
AddPending(a) ==
  /\ hand[a] # NoSpan
  /\ pending' = Append(pending, hand[a])
  /\ hand' = [hand EXCEPT ![a] = NoSpan]
  /\ pc' = [pc EXCEPT ![a] =
              IF @ # "received" THEN @
              ELSE IF Len(pending) + 1 >= MaxBatchSize THEN "lock" ELSE "select"]
  /\ UNCHANGED <<spanVars, queue, batch, flushMu, closing, final, collectorUp, counters,
                 owed>>

-----------------------------------------------------------------------------
(* Flush, by run or by a client.                                           *)

Remember(a) == owed' = [owed EXCEPT ![a] = {s \in Spans : spanPc[s] = "queued"}]

\* A client calls Flush.
CallFlush(f) ==
  /\ pc[f] = "idle"
  /\ pc' = [pc EXCEPT ![f] = "lock"]
  /\ Remember(f)
  /\ UNCHANGED <<spanVars, queue, pending, hand, batch, flushMu, closing, final,
                 collectorUp, counters>>

\* Seeded fault: flushes do not exclude each other.
Lock_shared(a) ==
  /\ pc[a] = "lock"
  /\ flushMu' = a
  /\ pc' = [pc EXCEPT ![a] = "drain"]
  /\ UNCHANGED <<spanVars, queue, pending, hand, batch, closing, final, collectorUp,
                 counters, owed>>

Lock(a) ==
  /\ pc[a] = "lock"
  /\ flushMu = Nobody
  /\ flushMu' = a
  /\ pc' = [pc EXCEPT ![a] = "drain"]
  /\ UNCHANGED <<spanVars, queue, pending, hand, batch, closing, final, collectorUp,
                 counters, owed>>

\* drainQueue takes one span after the other ...
Drain(a) ==
  /\ pc[a] \in {"finaldrain", "drain"}
  /\ hand[a] = NoSpan
  /\ queue # <<>>
  /\ hand' = [hand EXCEPT ![a] = Head(queue)]
  /\ queue' = Tail(queue)
  /\ UNCHANGED <<spanVars, pending, pc, batch, flushMu, closing, final, collectorUp,
                 counters, owed>>

\* Seeded fault: Flush posts what is pending and leaves the queue to run.
Drained_early(a) ==
  /\ pc[a] \in {"finaldrain", "drain"}
  /\ hand[a] = NoSpan
  /\ pc' = [pc EXCEPT ![a] = IF @ = "drain" THEN "copy" ELSE "lock"]
  /\ UNCHANGED <<spanVars, queue, pending, hand, batch, flushMu, closing, final,
                 collectorUp, counters, owed>>

\* ... until the queue is empty.
Drained(a) ==
  /\ pc[a] \in {"finaldrain", "drain"}
  /\ hand[a] = NoSpan
  /\ queue = <<>>
  /\ pc' = [pc EXCEPT ![a] = IF @ = "drain" THEN "copy" ELSE "lock"]
  /\ UNCHANGED <<spanVars, queue, pending, hand, batch, flushMu, closing, final,
                 collectorUp, counters, owed>>

\* Flush returns, with or without an error, and unlocks.
Return(a, result) ==
  /\ flushMu' = Nobody
  /\ batch' = [batch EXCEPT ![a] = <<>>]
  /\ pc' = [pc EXCEPT ![a] = IF a # Runner THEN result
                             ELSE IF final THEN "exited" ELSE "select"]

\* Seeded fault: with nothing pending Flush returns without unlocking.
Copy_locked(a) ==
  /\ pc[a] = "copy"
  /\ IF pending = <<>>
     THEN /\ pc' = [pc EXCEPT ![a] = IF a # Runner THEN "ok"
                                     ELSE IF final THEN "exited" ELSE "select"]
          /\ UNCHANGED batch
     ELSE /\ batch' = [batch EXCEPT ![a] = pending]
          /\ pc' = [pc EXCEPT ![a] = "post"]
  /\ UNCHANGED <<spanVars, queue, pending, hand, flushMu, closing, final, collectorUp,
                 counters, owed>>

\* The pending spans are copied, or there are none.
Copy(a) ==
  /\ pc[a] = "copy"
  /\ IF pending = <<>> THEN Return(a, "ok")
     ELSE /\ batch' = [batch EXCEPT ![a] = pending]
          /\ pc' = [pc EXCEPT ![a] = "post"]
          /\ UNCHANGED flushMu
  /\ UNCHANGED <<spanVars, queue, pending, hand, closing, final, collectorUp, counters,
                 owed>>

\* What the request of a post holds: spansToOTLPExport leaves out the spans whose
\* ids are not those of the W3C format.
spansToOTLPExport(spans) == Range(spans) \cap Convertible

\* The collector takes the spans of the request; its answer is still to come.
CollectorTakes(a) ==
  /\ pc[a] = "post"
  /\ collectorUp
  /\ received' = received \cup spansToOTLPExport(batch[a])
  /\ pc' = [pc EXCEPT ![a] = "taken"]
  /\ UNCHANGED <<spanVars, queue, pending, hand, batch, flushMu, closing, final,
                 collectorUp, acked, exportedSpans, droppedSpans, owed>>

\* post returns an error, which leaves the spans pending: its timeout or the
\* context of the client's Flush ends it, before or after the collector has
\* taken the spans, or the collector refuses them.
PostFails(a) ==
  /\ pc[a] \in {"post", "taken"}
  /\ ~collectorUp \/ a \in Flushers
  /\ Return(a, "error")
  /\ UNCHANGED <<spanVars, queue, pending, hand, closing, final, collectorUp, counters,
                 owed>>

\* The answer arrives.
PostSucceeds(a) ==
  /\ pc[a] = "taken"
  /\ collectorUp
  /\ acked' = acked \cup Range(batch[a])
  /\ pc' = [pc EXCEPT ![a] = "commit"]
  /\ UNCHANGED <<spanVars, queue, pending, hand, batch, flushMu, closing, final,
                 collectorUp, received, exportedSpans, droppedSpans, owed>>

\* As many spans as the batch had, those left out of the request included, are
\* taken off the front of pending, which may have grown meanwhile, and counted
\* as exported.
Commit(a) ==
  /\ pc[a] = "commit"
  /\ pending' = SubSeq(pending, Len(batch[a]) + 1, Len(pending))
  /\ exportedSpans' = exportedSpans + Len(batch[a])
  /\ Return(a, "ok")
  /\ UNCHANGED <<spanVars, queue, hand, closing, final, collectorUp, received, acked,
                 droppedSpans, owed>>

-----------------------------------------------------------------------------
(* Environment.                                                            *)

\* Close closes done; it returns when run has.
Close ==
  /\ ~closing
  /\ closing' = TRUE
  /\ Remember(Runner)
  /\ UNCHANGED <<spanVars, queue, pending, actorVars, flushMu, final, collectorUp,
                 counters>>

CollectorChanges ==
  /\ collectorUp' = ~collectorUp
  /\ UNCHANGED <<spanVars, queue, pending, actorVars, flushMu, closing, final, counters,
                 owed>>

-----------------------------------------------------------------------------
Init ==
  /\ spanPc = [s \in Spans |-> "open"]
  /\ ring = <<>> /\ queue = <<>> /\ pending = <<>>
  /\ pc = [a \in Actors |-> IF a = Runner THEN "select" ELSE "idle"]
  /\ hand = [a \in Actors |-> NoSpan]
  /\ batch = [a \in Actors |-> <<>>]
  /\ flushMu = Nobody
  /\ closing = FALSE /\ final = FALSE
  /\ collectorUp \in BOOLEAN
  /\ received = {} /\ acked = {} /\ exportedSpans = 0 /\ droppedSpans = 0
  /\ owed = [a \in Actors |-> {}]

Flush(a) ==
  \/ Lock(a) \/ Drain(a) \/ AddPending(a) \/ Drained(a) \/ Copy(a)
  \/ CollectorTakes(a) \/ PostFails(a) \/ PostSucceeds(a) \/ Commit(a)

Run == Receive \/ Tick \/ Done \/ Flush(Runner)

Next ==
  \/ \E s \in Spans : End(s) \/ ExportSpan(s)
  \/ Run
  \/ \E f \in Flushers : CallFlush(f) \/ Flush(f)
  \/ Close
  \/ CollectorChanges

Spec == Init /\ [][Next]_vars

\* Goroutines that can run are run, a post ends within its timeout, and the
\* ticker keeps ticking.  Go's select chooses at random among the ready cases,
\* so a closed done channel is seen eventually.
Fairness ==
  /\ \A s \in Spans : WF_vars(ExportSpan(s))
  /\ \A f \in Flushers : WF_vars(Flush(f))
  /\ WF_vars(Run)
  /\ SF_vars(Done)

FairSpec == Spec /\ Fairness

-----------------------------------------------------------------------------
TypeOK ==
  /\ spanPc \in [Spans -> {"open", "recorded", "queued", "dropped"}]
  /\ ring \in Seq(Spans) /\ Len(ring) <= TraceCapacity
  /\ queue \in Seq(Spans) /\ Len(queue) <= QueueSize
  /\ pending \in Seq(Spans)
  /\ pc \in [Actors -> {"idle", "select", "received", "finaldrain", "lock", "drain",
                        "copy", "post", "taken", "commit", "ok", "error", "exited"}]
  /\ hand \in [Actors -> Spans \cup {NoSpan}]
  /\ batch \in [Actors -> Seq(Spans)]
  /\ flushMu \in Actors \cup {Nobody}
  /\ closing \in BOOLEAN /\ final \in BOOLEAN /\ collectorUp \in BOOLEAN
  /\ received \subseteq Spans /\ acked \subseteq Spans
  /\ exportedSpans \in Nat /\ droppedSpans \in Nat
  /\ owed \in [Actors -> SUBSET Spans]

InHand == {hand[a] : a \in Actors} \ {NoSpan}
Committing == \E a \in Actors : pc[a] = "commit"

\* A span that ExportSpan accepted is in the queue, in a hand, pending or in a
\* batch that was posted with success, and it is in one of these places.
SpansPlaced ==
  /\ TypeOK
  /\ IsInjective(queue) /\ IsInjective(pending)
  /\ Range(queue) \cap (InHand \cup Range(pending)) = {}
  /\ InHand \cap Range(pending) = {}
  /\ {s \in Spans : spanPc[s] = "queued"}
       = Range(queue) \cup InHand \cup Range(pending) \cup acked
  /\ droppedSpans = Cardinality({s \in Spans : spanPc[s] = "dropped"})
  /\ ~Committing => /\ acked \cap Range(pending) = {}
                    /\ exportedSpans = Cardinality(acked)

\* Of a batch that was posted with success the collector has every span that
\* toOTLP accepts.  It may have more, by posts whose success never arrived: those
\* spans are still pending.  What was posted with success is not posted again.
SentAtLeastOnce ==
  /\ received \subseteq Convertible
  /\ acked \cap Convertible \subseteq received
  /\ received \subseteq acked \cup Range(pending)
  /\ \A a \in Actors : pc[a] \in {"post", "taken"} => acked \cap Range(batch[a]) = {}

\* Concurrent flushes, failed posts and spans that arrive during a post lose no
\* span that ExportSpan accepted and toOTLP accepts: until a post with the span
\* has succeeded the span is kept, and then the collector has it.  The collector
\* may be sent a span again, but only if no post with it has succeeded before.
\* exportedSpans counts the spans of the posts that succeeded, also those that
\* were left out of the request and are gone; droppedSpans those that were not
\* accepted.
SpansConserved == SpansPlaced /\ SentAtLeastOnce

\* What a flush was called for, it reaches.  Once run has returned, no span
\* that was queued before Close is left in the queue: each was offered to the
\* collector or is in the hands of a client's Flush.  And when a Flush returns
\* without an error, every span that was queued when it was called is with the
\* collector, or was in a post that succeeded and left it out because toOTLP
\* does not accept it; save at most the one that run had received and not yet
\* appended when Flush looked.
FlushesReachQueued ==
  /\ pc[Runner] = "exited" => owed[Runner] \cap Range(queue) = {}
  /\ \A f \in Flushers :
       pc[f] = "ok" => Cardinality(owed[f] \ (received \cup (acked \ Convertible))) <= 1

-----------------------------------------------------------------------------
(* Inductive invariants behind these properties.                           *)

\* flushMu is held exactly from Lock to Return, and a span is in a hand only in
\* the select loop and in drainQueue, which a client runs under the mutex.
\* What an actor posts is the front of pending all the while.
MutexInvariant ==
  \A a \in Actors :
    /\ pc[a] \in {"drain", "copy", "post", "taken", "commit"} <=> flushMu = a
    /\ pc[a] \in {"select", "received", "finaldrain", "exited"} => a = Runner
    /\ hand[a] # NoSpan => pc[a] \in {"received", "finaldrain", "drain"}
    /\ pc[a] \in {"post", "taken", "commit"} =>
         /\ Len(batch[a]) <= Len(pending)
         /\ \A i \in 1..Len(batch[a]) : batch[a][i] = pending[i]

\* No span is in two hands; what is acknowledged is pending no longer, except
\* for the batch whose post has succeeded and is not yet taken off.
AckedInvariant ==
  /\ SpansPlaced
  /\ \A a, b \in Actors : hand[a] = hand[b] /\ hand[a] # NoSpan => a = b
  /\ acked \cap (Range(queue) \cup InHand) = {}
  /\ \A a \in Actors : pc[a] = "commit" =>
       /\ acked \cap Range(pending) = Range(batch[a])
       /\ exportedSpans + Len(batch[a]) = Cardinality(acked)

\* A batch that the collector has taken is known to it before the success arrives.
ReceivedInvariant ==
  /\ SentAtLeastOnce
  /\ \A a \in Actors :
       pc[a] = "taken" => Range(batch[a]) \cap Convertible \subseteq received

\* Of the spans that a flush was called for, none is in the queue once it has
\* been drained; and of those that the client's Flush does not post at most one,
\* that was in the hand of run, is not acknowledged.
OwedInvariant ==
  /\ final => closing
  /\ pc[Runner] \in {"finaldrain", "exited"} => final
  /\ final /\ pc[Runner] # "finaldrain" => owed[Runner] \cap Range(queue) = {}
  /\ \A a \in Actors : owed[a] \subseteq {s \in Spans : spanPc[s] = "queued"}
  /\ \A f \in Flushers :
       /\ pc[f] \in {"copy", "post", "taken", "commit", "ok"} => owed[f] \cap Range(queue) = {}
       /\ pc[f] \in {"post", "taken", "commit", "ok"} =>
            \E s \in Spans \cup {NoSpan} :
              owed[f] \subseteq acked \cup {s} \cup IF pc[f] = "ok" THEN {} ELSE Range(batch[f])

-----------------------------------------------------------------------------
(* Liveness.                                                               *)

\* A queued span that toOTLP accepts reaches the collector eventually if the
\* collector comes back for good and the exporter stays open.
EventuallyExported ==
  <>[](collectorUp /\ ~closing)
    => \A s \in Convertible : spanPc[s] = "queued" ~> s \in received

\* Close returns: run sees the closed channel, and no Flush keeps the mutex.
CloseReturns == closing ~> pc[Runner] = "exited"

-----------------------------------------------------------------------------
(* A statement of the documentation.                                       *)

\* The spans buffered for the collector are bounded by the configuration: when
\* run waits in its select and nobody flushes, there are at most a full queue and
\* one batch.
BoundedBuffer ==
  pc[Runner] = "select" /\ flushMu = Nobody
    => Len(queue) + Len(pending) <= QueueSize + MaxBatchSize

=============================================================================
