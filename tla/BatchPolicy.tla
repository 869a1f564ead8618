----------------------------- MODULE BatchPolicy -----------------------------
(***************************************************************************)
(* The batching policies of gateway/policy.go.  A policy is consulted by   *)
(* Batcher.run: NextWait when the first request of a batch arms the flush  *)
(* timer, ShouldFlush after every request, and Observe with the outcome of *)
(* every batch.  FixedBatchPolicy keeps no state; AdaptiveBatchPolicy      *)
(* keeps the wait it currently uses.  Durations are naturals; Millisecond  *)
(* is the number of units in the additive step of the adaptive policy.     *)
(***************************************************************************)
EXTENDS Integers

CONSTANTS
  Adaptive,            \* BatchPolicy = "adaptive" (otherwise "fixed")
  MaxBatchSize,        \* cfg.MaxBatchSize
  MaxBatchWaitTime,    \* cfg.MaxBatchWaitTime
  MinWait,             \* cfg.AdaptiveMinBatchWaitTime
  MaxWait,             \* cfg.AdaptiveMaxBatchWaitTime
  QueueHighWatermark,  \* cfg.AdaptiveQueueHighWatermark
  Millisecond          \* the step by which an idle policy lengthens its wait

\* What Config.normalized guarantees about the values a policy is built from.
ASSUME PolicyAssumption ==
  /\ Adaptive \in BOOLEAN
  /\ MaxBatchSize \in Nat \ {0}
  /\ MaxBatchWaitTime \in Nat \ {0}
  /\ MinWait \in Nat \ {0}
  /\ MaxWait \in Nat \ {0}
  /\ MinWait <= MaxWait
  /\ QueueHighWatermark \in Nat \ {0}
  /\ Millisecond \in Nat \ {0}

MinDuration(a, b) == IF a < b THEN a ELSE b
MaxDuration(a, b) == IF a > b THEN a ELSE b
ClampDuration(value, minimum, maximum) ==
  MaxDuration(minimum, MinDuration(value, maximum))

\* The wait a freshly built policy uses.
InitialWait ==
  IF Adaptive THEN ClampDuration(MaxBatchWaitTime, MinWait, MaxWait)
              ELSE MaxBatchWaitTime

\* The duration the flush timer is armed with, given the queue length.
NextWait(currentWait, queueLen) ==
  IF Adaptive /\ queueLen >= QueueHighWatermark THEN MinWait ELSE currentWait

\* A full batch is flushed at once; under queue pressure the adaptive policy
\* is content with half a batch, rounded up.
ShouldFlush(batchSize, queueLen) ==
  \/ batchSize >= MaxBatchSize
  \/ /\ Adaptive
     /\ queueLen >= QueueHighWatermark
     /\ batchSize >= (MaxBatchSize + 1) \div 2

\* Seeded fault: an idle policy lengthens its wait past the maximum.
Observe_unclamped(currentWait, batchSize, queueLen, slow, success) ==
  IF ~Adaptive THEN currentWait
  ELSE IF ~success \/ slow \/ queueLen >= QueueHighWatermark
       THEN MaxDuration(MinWait, currentWait \div 2)
  ELSE IF batchSize < MaxDuration(1, MaxBatchSize \div 2)
       THEN currentWait + Millisecond
  ELSE currentWait

\* The wait after a batch of batchSize requests; slow says that the worker
\* took longer than the target latency.
Observe(currentWait, batchSize, queueLen, slow, success) ==
  IF ~Adaptive THEN currentWait
  ELSE IF ~success THEN MinWait
  ELSE IF slow \/ queueLen >= QueueHighWatermark
       THEN MaxDuration(MinWait, currentWait \div 2)
  ELSE IF batchSize < MaxDuration(1, MaxBatchSize \div 2)
       THEN MinDuration(MaxWait, currentWait + Millisecond)
  ELSE ClampDuration(currentWait, MinWait, MaxWait)

=============================================================================
