--------------------------- MODULE BackendContract ---------------------------
(***************************************************************************)
(* What the worker's gRPC service relies on when it calls the virtual      *)
(* function InferenceBackend::ProcessBatch, whichever class implements it  *)
(* (backend/inference_backend.h, backend/main.cc): one outcome per call;   *)
(* kOk only with an output for every request; kCancelled only for a call   *)
(* that was cancelled; and no outputs that anybody may use with the other  *)
(* codes.  ProcessRunner, ContinuousBatcher and the calls of WorkerService *)
(* implement this specification.                                           *)
(***************************************************************************)
EXTENDS Naturals

CONSTANT Batch        \* the number of requests of the call

VARIABLES
  code,               \* BackendResult.code, "none" while the call runs
  outputs,            \* the number of outputs it has produced
  cancelled           \* is_cancelled()

vars == <<code, outputs, cancelled>>

Init == code = "none" /\ outputs = 0 /\ cancelled \in BOOLEAN

Produce ==
  /\ code = "none"
  /\ outputs' \in (outputs + 1)..Batch
  /\ UNCHANGED <<code, cancelled>>

Succeed ==
  /\ code = "none" /\ outputs = Batch
  /\ code' = "ok"
  /\ UNCHANGED <<outputs, cancelled>>

Fail(failure) ==
  /\ code = "none"
  /\ failure = "cancelled" => cancelled
  /\ code' = failure
  /\ outputs' = 0
  /\ UNCHANGED cancelled

Cancel ==
  /\ ~cancelled
  /\ cancelled' = TRUE
  /\ UNCHANGED <<code, outputs>>

Next ==
  \/ Produce \/ Succeed
  \/ \E failure \in {"cancelled", "unavailable"} : Fail(failure)
  \/ Cancel

Spec == Init /\ [][Next]_vars

=============================================================================
