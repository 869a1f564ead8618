---------------------------- MODULE WorkerService ----------------------------
(***************************************************************************)
(* The worker process (backend/main.cc): concurrent calls of               *)
(* InferenceServiceImpl::ProcessBatch and Stream, each on a thread of its  *)
(* own, over one backend object (backend/inference_backend.cc).            *)
(*                                                                         *)
(* The simulator, tiny text, tiny LLM, ONNX and llama_server backends are  *)
(* modelled loop by loop, a step of a thread being what lies between two   *)
(* looks at is_cancelled.  The command-line and the continuous backend     *)
(* have modules of their own, and here behave in any way that              *)
(* BackendContract allows.  An output is the index of the request whose    *)
(* prompt it was computed from; a prompt is its number of words.           *)
(*                                                                         *)
(* The ONNX backend keeps two fields that its calls share without a lock:  *)
(* ready and unavailable_reason.  A string that is assigned while another  *)
(* thread assigns or copies it is a data race: from then on what is stored *)
(* or read may be any text, and the process may die.  Accesses that do not *)
(* overlap are taken to happen in the order of the program.                *)
(***************************************************************************)
EXTENDS WorkerConfig, Sequences, FiniteSets

CONSTANTS
  Prompts,       \* for each call its prompts, each as a number of words
  Streams,       \* the calls that are Stream
  RawValues,     \* what the environment variables may hold
  ModelBatch,    \* kModelBatch, rows of the ONNX model
  StepCap        \* bound on the iterations of an inner loop

Calls == DOMAIN Prompts
Size(c) == Len(Prompts[c])

ASSUME ServiceAssumption ==
  /\ IsFiniteSet(Calls)
  /\ \A c \in Calls : Prompts[c] \in Seq(Nat) /\ Size(c) > 0
  /\ Streams \subseteq Calls
  /\ \A c \in Streams : Size(c) = 1
  /\ ModelBatch \in Nat \ {0}
  /\ StepCap \in Nat \ {0}
  /\ RawValues \subseteq [given : BOOLEAN, wellFormed : BOOLEAN, value : Int]

\* The operations of the ONNX runtime that can fail, "Initialize" for those of
\* the constructor, and any other text.
Operations == {"CreateTensor", "Run", "GetTensorMutableData"}
Reasons == Operations \cup {"Initialize", "garbage"}

VARIABLES
  \* --- the process
  kind,          \* config.kind
  config,        \* the fields of the BackendConfig that are for this kind
  \* --- OnnxRuntimeBackend::Impl
  ready,
  reason,        \* unavailable_reason
  raced,         \* history: two accesses of reason overlapped
  crashed,       \* the process has died of it
  \* --- a call
  cancelled,     \* context->IsCancelled()
  pc,            \* control point of its thread
  steps,         \* iterations left of an inner loop
  outputs,       \* result.outputs
  values,        \* the OrtValues it holds
  failed,        \* the operation that failed, or "none"
  code,          \* BackendResult.code of ProcessBatch
  message,       \* BackendResult.message where it is the reason, or "none"
  answer,        \* the responses, or the result of the done event
  status         \* the status of the RPC, or "none"

process == <<kind, config>>
shared == <<ready, reason, raced>>
callVars == <<pc, steps, outputs, values, failed, code, message>>
rpcVars == <<answer, status>>
vars == <<process, shared, crashed, cancelled, callVars, rpcVars>>

Least(m, n) == IF m < n THEN m ELSE n
Capped(n) == Least(n, StepCap)
Member(f) == Members(kind, config)[f]
AllOf(c) == [i \in 1..Size(c) |-> i]

\* The thread goes on at another point of ProcessBatch.
GoTo(c, label) == pc' = [pc EXCEPT ![c] = label]

\* ... and enters a loop there.
Loop(c, label, n) == GoTo(c, label) /\ steps' = [steps EXCEPT ![c] = Capped(n)]

\* CancelledResult, UnavailableResult: a result without outputs.
Fail(c, failure) ==
  /\ code' = [code EXCEPT ![c] = failure]
  /\ outputs' = [outputs EXCEPT ![c] = << >>]
  /\ GoTo(c, "returned")

Succeed(c) ==
  /\ code' = [code EXCEPT ![c] = "ok"]
  /\ GoTo(c, "returned")
  /\ UNCHANGED outputs

\* A look at is_cancelled: the batch is given up, or the thread goes on.
GiveUp(c) == cancelled[c] /\ Fail(c, "cancelled") /\ UNCHANGED steps
GoOn(c, label, n) == ~cancelled[c] /\ Loop(c, label, n) /\ UNCHANGED <<outputs, code>>

\* What the loops of the backends leave alone.
Elsewhere == UNCHANGED <<process, shared, crashed, cancelled, values, failed, message, rpcVars>>

-----------------------------------------------------------------------------
(* SimulatorBackend.                                                       *)

Latency(c) ==
  Member("simulator_base_latency_ms") + Size(c) * Member("simulator_per_request_latency_ms")

SimulatorStart(c) ==
  /\ kind = "simulator" /\ pc[c] = "start"
  /\ Loop(c, "sleep", (Latency(c) + 4) \div 5)
  /\ UNCHANGED <<outputs, code>>
  /\ Elsewhere

\* It sleeps in steps of 5 ms ...
Sleep(c) ==
  /\ pc[c] = "sleep" /\ steps[c] > 0
  /\ GiveUp(c) \/ GoOn(c, "sleep", steps[c] - 1)
  /\ Elsewhere

\* ... and then writes all the outputs.
Wake(c) ==
  /\ pc[c] = "sleep" /\ steps[c] = 0
  /\ \/ GiveUp(c)
     \/ /\ ~cancelled[c]
        /\ outputs' = [outputs EXCEPT ![c] = AllOf(c)]
        /\ GoTo(c, "request")
        /\ UNCHANGED <<steps, code>>
  /\ Elsewhere

-----------------------------------------------------------------------------
(* TinyTextModelBackend, TinyLLMBackend and LlamaServerBackend: a loop     *)
(* over the requests.                                                      *)

\* The index of the request the loop is at.
Current(c) == Len(outputs[c]) + 1

\* Seeded fault: the beginning-of-text token and the one that stands for a
\* prompt without words are left out.
PromptTokens_words(words) == words

\* TokenizeForTinyLLM: a token to begin with and one per word, but one also
\* for a prompt that has none.
PromptTokens(words) == 1 + IF words = 0 THEN 1 ELSE words

\* The first look at is_cancelled; llama_server also looks at its URL.
BatchStart(c) ==
  /\ kind \in {"tiny_text_model", "tiny_llm", "llama_server"} /\ pc[c] = "start"
  /\ \/ GiveUp(c) \/ GoOn(c, "request", 0)
     \/ /\ kind = "llama_server" /\ ~cancelled[c]
        /\ Fail(c, "unavailable") /\ UNCHANGED steps
  /\ Elsewhere

NextRequest(c) ==
  /\ pc[c] = "request" /\ Len(outputs[c]) < Size(c)
  /\ \/ GiveUp(c)
     \/ kind = "tiny_text_model" /\ GoOn(c, "iterate", Member("tiny_model_iterations"))
     \/ kind = "tiny_llm" /\ GoOn(c, "prefill", PromptTokens(Prompts[c][Current(c)]))
     \/ kind = "llama_server" /\ GoOn(c, "post", 0)
  /\ Elsewhere

\* TinyLLMPrefill, which returns nothing when it is cancelled.
Prefill(c) ==
  /\ pc[c] = "prefill" /\ steps[c] > 0
  /\ IF cancelled[c] THEN Loop(c, "prefilled", 0) ELSE Loop(c, "prefill", steps[c] - 1)
  /\ UNCHANGED <<outputs, code>>
  /\ Elsewhere

\* No state to decode from is taken for a cancellation.
Prefilled(c) ==
  /\ pc[c] \in {"prefill", "prefilled"} /\ steps[c] = 0
  /\ IF PromptTokens(Prompts[c][Current(c)]) = 0
     THEN Fail(c, "cancelled") /\ UNCHANGED steps
     ELSE GiveUp(c) \/ GoOn(c, "iterate", Member("tiny_llm_max_generated_tokens"))
  /\ Elsewhere

\* The layers of the text model, the tokens of the LLM.
Iterate(c) ==
  /\ pc[c] = "iterate" /\ steps[c] > 0
  /\ GiveUp(c) \/ GoOn(c, "iterate", steps[c] - 1)
  /\ Elsewhere

\* result.outputs.push_back
Push(c) ==
  /\ outputs' = [outputs EXCEPT ![c] = Append(@, Current(c))]
  /\ GoTo(c, "request")
  /\ UNCHANGED <<steps, code>>

Generated(c) ==
  /\ pc[c] = "iterate" /\ steps[c] = 0
  /\ Push(c)
  /\ Elsewhere

\* HttpPostJson returns; its error is "cancelled" only if is_cancelled was true.
Posted(c) ==
  /\ pc[c] = "post"
  /\ \/ GiveUp(c)
     \/ ~cancelled[c] /\ Fail(c, "unavailable") /\ UNCHANGED steps
     \/ ~cancelled[c] /\ Push(c)
  /\ Elsewhere

EndBatch(c) ==
  /\ pc[c] = "request" /\ Len(outputs[c]) = Size(c)
  /\ Succeed(c) /\ UNCHANGED steps
  /\ Elsewhere

LocalBackends(c) ==
  \/ SimulatorStart(c) \/ Sleep(c) \/ Wake(c)
  \/ BatchStart(c) \/ NextRequest(c) \/ Prefill(c) \/ Prefilled(c) \/ Iterate(c)
  \/ Generated(c) \/ Posted(c) \/ EndBatch(c)

\* LlamaCppBackend and ContinuousTinyLLMBackend, by their contract.
Delegated(c) ==
  /\ kind \in {"llama_cpp", "continuous_tiny_llm"} /\ pc[c] = "start"
  /\ \/ /\ Len(outputs[c]) < Size(c)
        /\ outputs' = [outputs EXCEPT ![c] = Append(@, Current(c))]
        /\ UNCHANGED <<pc, code>>
     \/ Len(outputs[c]) = Size(c) /\ Succeed(c)
     \/ Fail(c, "unavailable")
     \/ cancelled[c] /\ Fail(c, "cancelled")
  /\ UNCHANGED steps
  /\ Elsewhere

-----------------------------------------------------------------------------
(* OnnxRuntimeBackend: Impl::Run.                                          *)

\* The requests of the chunk that begins after the outputs so far.
Chunk(c) == Len(outputs[c]) + 1 .. Least(Len(outputs[c]) + ModelBatch, Size(c))

\* What the two calls of the runtime and their results leave alone.
OnnxElsewhere == UNCHANGED <<process, crashed, cancelled, steps, code, rpcVars>>

\* CheckStatus finds an error: the thread is about to record it.
OperationFails(c, operation) ==
  /\ failed' = [failed EXCEPT ![c] = operation]
  /\ GoTo(c, "failed")

OnnxStart(c) ==
  /\ kind = "onnx" /\ pc[c] = "start"
  /\ \/ ~ready /\ GoTo(c, "unavailable") /\ UNCHANGED <<outputs, steps, code>>
     \/ ready /\ (GiveUp(c) \/ GoOn(c, "chunk", 0))
  /\ Elsewhere

NextChunk(c) ==
  /\ pc[c] = "chunk"
  /\ \/ Len(outputs[c]) = Size(c) /\ Succeed(c) /\ UNCHANGED steps
     \/ Len(outputs[c]) < Size(c) /\ (GiveUp(c) \/ GoOn(c, "tensor", 0))
  /\ Elsewhere

CreateTensor(c) ==
  /\ pc[c] = "tensor"
  /\ \/ /\ GoTo(c, "run")
        /\ values' = [values EXCEPT ![c] = {"input"}]
        /\ UNCHANGED failed
     \/ OperationFails(c, "CreateTensor") /\ UNCHANGED values
  /\ UNCHANGED <<shared, outputs, message>>
  /\ OnnxElsewhere

\* The input is released whatever Run says.
RunModel(c) ==
  /\ pc[c] = "run"
  /\ \/ /\ GoTo(c, "data")
        /\ values' = [values EXCEPT ![c] = {"output"}]
        /\ UNCHANGED failed
     \/ /\ OperationFails(c, "Run")
        /\ values' = [values EXCEPT ![c] = {}]
  /\ UNCHANGED <<shared, outputs, message>>
  /\ OnnxElsewhere

\* Seeded fault: the rows of the model are labelled from the first request on,
\* whichever chunk they belong to.
Labels_unshifted(c) == [i \in 1..Cardinality(Chunk(c)) |-> i]

\* The rows of the model that belong to requests, in their order.
Labels(c) == [i \in 1..Cardinality(Chunk(c)) |-> Len(outputs[c]) + i]

GetTensorMutableData(c) ==
  /\ pc[c] = "data"
  /\ \/ /\ GoTo(c, "chunk")
        /\ outputs' = [outputs EXCEPT ![c] = @ \o Labels(c)]
        /\ values' = [values EXCEPT ![c] = {}]
        /\ UNCHANGED failed
     \/ OperationFails(c, "GetTensorMutableData") /\ UNCHANGED <<outputs, values>>
  /\ UNCHANGED <<shared, message>>
  /\ OnnxElsewhere

-----------------------------------------------------------------------------
(* CheckStatus records the failure for all calls; a call that fails or is  *)
(* refused copies what is recorded.                                        *)

Accessing(c, labels) == \E d \in Calls \ {c} : pc[d] \in labels

\* Seeded fault: the backend is marked before the reason is there.
BeginWrite_latched(c) ==
  /\ pc[c] = "failed"
  /\ GoTo(c, "writing")
  /\ ready' = FALSE
  /\ raced' = (raced \/ Accessing(c, {"writing", "reading"}))
  /\ UNCHANGED <<reason, outputs, values, failed, message>>
  /\ OnnxElsewhere

\* unavailable_reason = operation + ...
BeginWrite(c) ==
  /\ pc[c] = "failed"
  /\ GoTo(c, "writing")
  /\ raced' = (raced \/ Accessing(c, {"writing", "reading"}))
  /\ UNCHANGED <<ready, reason, outputs, values, failed, message>>
  /\ OnnxElsewhere

EndWrite(c) ==
  /\ pc[c] = "writing"
  /\ GoTo(c, "written")
  /\ reason' \in {failed[c]} \cup (IF raced THEN {"garbage"} ELSE {})
  /\ UNCHANGED <<ready, raced, outputs, values, failed, message>>
  /\ OnnxElsewhere

\* Seeded fault: the output is not released when its data cannot be had.
Latch_leak(c) ==
  /\ pc[c] = "written"
  /\ GoTo(c, "unavailable")
  /\ ready' = FALSE
  /\ UNCHANGED <<reason, raced, outputs, values, failed, message>>
  /\ OnnxElsewhere

\* ready = false, for good; the call releases what it holds.
Latch(c) ==
  /\ pc[c] = "written"
  /\ GoTo(c, "unavailable")
  /\ ready' = FALSE
  /\ values' = [values EXCEPT ![c] = {}]
  /\ UNCHANGED <<reason, raced, outputs, failed, message>>
  /\ OnnxElsewhere

\* UnavailableResult(unavailable_reason)
BeginRead(c) ==
  /\ pc[c] = "unavailable"
  /\ GoTo(c, "reading")
  /\ raced' = (raced \/ Accessing(c, {"writing"}))
  /\ UNCHANGED <<ready, reason, outputs, values, failed, message>>
  /\ OnnxElsewhere

EndRead(c) ==
  /\ pc[c] = "reading"
  /\ Fail(c, "unavailable")
  /\ \E text \in {reason} \cup (IF raced THEN {"garbage"} ELSE {}) :
       message' = [message EXCEPT ![c] = text]
  /\ UNCHANGED <<process, shared, crashed, cancelled, steps, values, failed, rpcVars>>

Onnx(c) ==
  \/ OnnxStart(c) \/ NextChunk(c) \/ CreateTensor(c) \/ RunModel(c)
  \/ GetTensorMutableData(c)
  \/ BeginWrite(c) \/ EndWrite(c) \/ Latch(c) \/ BeginRead(c) \/ EndRead(c)

\* The race ends the process.
Crash ==
  /\ raced /\ ~crashed
  /\ crashed' = TRUE
  /\ UNCHANGED <<process, shared, cancelled, callVars, rpcVars>>

-----------------------------------------------------------------------------
(* InferenceServiceImpl.                                                   *)

\* The status for a code of the backend, when size outputs were asked for.
StatusFor(c) ==
  CASE code[c] = "cancelled" -> "CANCELLED"
    [] code[c] = "unavailable" -> "UNAVAILABLE"
    [] OTHER -> IF Len(outputs[c]) = Size(c) THEN "OK" ELSE "INTERNAL"

Reply(c, result, rpcStatus) ==
  /\ answer' = [answer EXCEPT ![c] = result]
  /\ status' = [status EXCEPT ![c] = rpcStatus]
  /\ GoTo(c, "replied")
  /\ UNCHANGED <<process, shared, crashed, cancelled, steps, outputs, values, failed, code,
                 message>>

\* ProcessBatch: each output goes back under the identifier at its position.
ReplyBatch(c) ==
  /\ c \notin Streams /\ pc[c] = "returned"
  /\ Reply(c, IF StatusFor(c) = "OK" THEN outputs[c] ELSE << >>, StatusFor(c))

\* InferenceBackend::ProcessStream and Stream: one done event, unless the batch
\* of one failed; a wrong number of outputs is reported as unavailable.
ReplyStream(c) ==
  /\ c \in Streams /\ pc[c] = "returned"
  /\ CASE StatusFor(c) = "OK" -> Reply(c, outputs[c], "OK")
       [] StatusFor(c) = "INTERNAL" -> Reply(c, << >>, "UNAVAILABLE")
       [] OTHER -> Reply(c, << >>, StatusFor(c))

\* ServerWriter::Write fails when the client has gone.
WriteFails(c) ==
  /\ c \in Streams /\ pc[c] = "returned"
  /\ StatusFor(c) = "OK" /\ cancelled[c]
  /\ Reply(c, << >>, "CANCELLED")

\* The client goes away, or its deadline passes.
Cancel(c) ==
  /\ pc[c] # "replied" /\ ~cancelled[c]
  /\ cancelled' = [cancelled EXCEPT ![c] = TRUE]
  /\ UNCHANGED <<process, shared, crashed, callVars, rpcVars>>

-----------------------------------------------------------------------------
\* main: the configuration is read and the backend constructed; whether ONNX
\* is ready depends on its library and model.
Init ==
  /\ kind \in Kinds
  /\ \E raw \in RawValues :
       config = [f \in DOMAIN CreateBackend(kind) |-> BackendConfigFromEnv(raw)[f]]
  /\ ready \in {FALSE, kind = "onnx"}
  /\ reason = "Initialize"
  /\ raced = FALSE /\ crashed = FALSE
  /\ cancelled = [c \in Calls |-> FALSE]
  /\ pc = [c \in Calls |-> "start"]
  /\ steps = [c \in Calls |-> 0]
  /\ outputs = [c \in Calls |-> << >>]
  /\ values = [c \in Calls |-> {}]
  /\ failed = [c \in Calls |-> "none"]
  /\ code = [c \in Calls |-> "none"]
  /\ message = [c \in Calls |-> "none"]
  /\ answer = [c \in Calls |-> << >>]
  /\ status = [c \in Calls |-> "none"]

Call(c) ==
  LocalBackends(c) \/ Delegated(c) \/ Onnx(c) \/ ReplyBatch(c) \/ ReplyStream(c) \/ WriteFails(c)

\* Nothing is left to do.
Idle ==
  /\ crashed \/ \A c \in Calls : pc[c] = "replied"
  /\ UNCHANGED vars

Next ==
  \/ ~crashed /\ \E c \in Calls : Call(c) \/ Cancel(c)
  \/ Crash
  \/ Idle

Spec == Init /\ [][Next]_vars

-----------------------------------------------------------------------------
TypeOK ==
  /\ kind \in Kinds
  /\ config \in [DOMAIN CreateBackend(kind) -> Nat]
  /\ ready \in BOOLEAN /\ raced \in BOOLEAN /\ crashed \in BOOLEAN
  /\ reason \in Reasons
  /\ cancelled \in [Calls -> BOOLEAN]
  /\ pc \in [Calls -> {"start", "sleep", "request", "iterate", "prefill", "prefilled",
                       "post", "chunk", "tensor", "run", "data", "failed", "writing",
                       "written", "unavailable", "reading", "returned", "replied"}]
  /\ steps \in [Calls -> 0..StepCap]
  /\ outputs \in [Calls -> Seq(Nat)] /\ answer \in [Calls -> Seq(Nat)]
  /\ values \in [Calls -> SUBSET {"input", "output"}]
  /\ failed \in [Calls -> Operations \cup {"none"}]
  /\ code \in [Calls -> {"none", "ok", "cancelled", "unavailable"}]
  /\ message \in [Calls -> Reasons \cup {"none"}]
  /\ status \in [Calls -> {"none", "OK", "CANCELLED", "UNAVAILABLE", "INTERNAL"}]

\* Whatever the backend and however calls, failures and cancellations
\* interleave: a call that ends with OK carries one answer per request, each
\* computed from the prompt at its position, although ONNX takes the batch in
\* chunks; a call that ends otherwise carries none; and the service never meets
\* a backend that returned the wrong number of outputs.
AnswersMatchRequests ==
  /\ TypeOK
  /\ \A c \in Calls :
       /\ answer[c] = IF status[c] = "OK" THEN AllOf(c) ELSE << >>
       /\ status[c] # "INTERNAL"

Contract(c) == INSTANCE BackendContract
  WITH Batch <- Size(c), code <- code[c], outputs <- Len(outputs[c]),
       cancelled <- cancelled[c]

\* ProcessBatch of every backend keeps the contract of the virtual function
\* while other calls run in the same object: outputs are only added, kOk comes
\* with all of them, and kCancelled only with a call that was cancelled.
CallsKeepContract ==
  /\ \A c \in Calls : Contract(c)!Init
  /\ [][\A c \in Calls : Contract(c)!Next \/ UNCHANGED Contract(c)!vars]_vars

Failures == {failed[c] : c \in Calls} \ {"none"}

\* The unlocked fields of the ONNX backend survive a single failure: the reason
\* is complete before ready sends other calls to read it, so two accesses
\* overlap only if operations of two calls failed; and until then each call
\* turned away is told of an operation that did fail.
ReasonIntact ==
  /\ raced => Cardinality({c \in Calls : failed[c] # "none"}) > 1
  /\ ~raced => \A c \in Calls :
                 message[c] \in Failures \cup {"none", "Initialize"}
  /\ Failures # {} /\ ~raced => \A c \in Calls : message[c] # "Initialize"

\* A call that has returned from ProcessBatch holds no OrtValue, on any of the
\* error paths.
ValuesReleased ==
  \A c \in Calls : pc[c] \in {"returned", "replied"} => values[c] = {}

\* The numbers printed at startup are the ones the backend works with: the
\* constructor changes nothing that BackendConfigFromEnv let through, for any
\* content of the environment.
BannerTellsMembers ==
  \A f \in Banner(kind) : config[f] = Members(kind, config)[f]

-----------------------------------------------------------------------------
(* Inductive invariants behind these properties.                           *)

\* The values every field of the configuration has; it never changes.
ConfigInvariant ==
  /\ kind \in Kinds
  /\ DOMAIN config = DOMAIN CreateBackend(kind)
  /\ \A f \in DOMAIN CreateBackend(kind) :
       config[f] \in Nat /\ EnvBounds[f][1] <= config[f] /\ config[f] <= EnvBounds[f][2]
  /\ config = [f \in DOMAIN CreateBackend(kind) |-> config[f]]

\* What holds of a call by itself.  Its outputs are those of the first requests,
\* in order; a loop over requests is entered only with one left; a code is there
\* once ProcessBatch has returned, and a status once the RPC has; and OrtValues
\* are held only between their creation and the end of the chunk.  A failure is
\* noted before it is recorded, and ends the batch.
CallInvariant(c) ==
  /\ \A i \in 1..Len(outputs[c]) : outputs[c][i] = i
  /\ Len(outputs[c]) <= Size(c)
  /\ \/ pc[c] = "start" /\ kind \notin {"llama_cpp", "continuous_tiny_llm"}
     \/ pc[c] = "sleep"
     \/ code[c] \in {"cancelled", "unavailable"}
     => outputs[c] = << >>
  /\ pc[c] \in {"iterate", "prefill", "prefilled", "post", "tensor", "run", "data"}
       => Len(outputs[c]) < Size(c)
  /\ pc[c] \in {"prefill", "prefilled"} => kind = "tiny_llm"
  /\ pc[c] \in {"returned", "replied"} <=> code[c] # "none"
  /\ code[c] = "ok" => Len(outputs[c]) = Size(c)
  /\ code[c] = "cancelled" => cancelled[c]
  /\ pc[c] # "replied" => status[c] = "none"
  /\ answer[c] = IF status[c] = "OK" THEN AllOf(c) ELSE << >>
  /\ status[c] # "INTERNAL"
  /\ pc[c] \notin {"run", "data", "failed", "writing", "written"} => values[c] = {}
  /\ pc[c] \in {"failed", "writing", "written"} => failed[c] # "none"
  /\ failed[c] # "none" => pc[c] \in {"failed", "writing", "written", "unavailable",
                                     "reading", "returned", "replied"}

\* The ONNX backend was not ready from the beginning: no operation was tried.
NeverReady ==
  /\ ~ready
  /\ \A c \in Calls :
       /\ failed[c] = "none"
       /\ pc[c] \notin {"chunk", "tensor", "run", "data", "failed", "writing", "written"}

\* The call has recorded its failure.
Recorded(c) == failed[c] # "none" /\ pc[c] \notin {"failed", "writing"}

\* How a call comes to read the reason: it has recorded one itself, or another
\* one had, which then cannot be the call that is writing.
ReasonInvariant ==
  /\ \A c \in Calls : pc[c] \in {"unavailable", "reading"} /\ failed[c] = "none" => ~ready
  /\ ~ready => NeverReady \/ \E c \in Calls : Recorded(c)
  /\ reason = "Initialize" => \A c \in Calls : ~Recorded(c)
  /\ \A c \in Calls : message[c] = "Initialize" => NeverReady
  /\ ~raced => reason \in Failures \cup {"Initialize"}
  /\ ReasonIntact

=============================================================================
