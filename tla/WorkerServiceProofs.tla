------------------------ MODULE WorkerServiceProofs --------------------------
(***************************************************************************)
(* Theorems about WorkerService, for every set of concurrent calls, every  *)
(* size of their batches and every environment.                            *)
(***************************************************************************)
EXTENDS WorkerService, FiniteSetTheorems, SequenceTheorems, TLAPS

-----------------------------------------------------------------------------
(* Configuration.                                                          *)

\* The constructors allow what the environment's bounds allow, and the defaults
\* are within both.
LEMMA BoundsAgree ==
  ASSUME NEW k \in Kinds, NEW f \in DOMAIN CreateBackend(k)
  PROVE  /\ BackendConfig[f] \in Nat
         /\ EnvBounds[f][1] \in Nat /\ EnvBounds[f][2] \in Nat
         /\ EnvBounds[f][1] <= BackendConfig[f] /\ BackendConfig[f] <= EnvBounds[f][2]
         /\ CreateBackend(k)[f][1] \in Nat /\ CreateBackend(k)[f][2] \in Nat
         /\ CreateBackend(k)[f][1] <= EnvBounds[f][1]
         /\ EnvBounds[f][2] <= CreateBackend(k)[f][2]
         /\ f \in DOMAIN BackendConfig
<1> USE DEF CreateBackend, EnvBounds, BackendConfig
<1>1. CASE k = "simulator"
  BY <1>1 DEF SimulatorBackend
<1>2. CASE k = "tiny_text_model"
  BY <1>2 DEF TinyTextModelBackend
<1>3. CASE k = "tiny_llm"
  BY <1>3 DEF TinyLLMBackend
<1>4. CASE k = "continuous_tiny_llm"
  BY <1>4 DEF ContinuousTinyLLMBackend
<1>5. CASE k = "onnx"
  BY <1>5
<1>6. CASE k = "llama_cpp"
  BY <1>6 DEF LlamaCppBackend
<1>7. CASE k = "llama_server"
  BY <1>7 DEF LlamaServerBackend
<1> QED
  BY <1>1, <1>2, <1>3, <1>4, <1>5, <1>6, <1>7 DEF Kinds

\* What BackendConfigFromEnv lets through is within the bounds of the
\* environment, whatever the environment holds.
LEMMA ConfigInBounds ==
  ASSUME NEW k \in Kinds, NEW f \in DOMAIN CreateBackend(k), NEW raw \in RawValues
  PROVE  LET v == BackendConfigFromEnv(raw)[f] IN
         v \in Nat /\ EnvBounds[f][1] <= v /\ v <= EnvBounds[f][2]
<1>1. raw.value \in Int /\ raw.given \in BOOLEAN /\ raw.wellFormed \in BOOLEAN
  BY ServiceAssumption
<1>2. BackendConfigFromEnv(raw)[f] = EnvInt(raw, BackendConfig[f], EnvBounds[f])
  BY BoundsAgree DEF BackendConfigFromEnv
<1>3. /\ BackendConfig[f] \in Nat
      /\ EnvBounds[f][1] \in Nat /\ EnvBounds[f][2] \in Nat
      /\ EnvBounds[f][1] <= BackendConfig[f] /\ BackendConfig[f] <= EnvBounds[f][2]
  BY BoundsAgree
<1> QED
  BY <1>1, <1>2, <1>3 DEF EnvInt, Clamp

\* main reads and bounds the configuration before it serves.
LEMMA ConfigInit == Init => ConfigInvariant
<1> SUFFICES ASSUME Init
             PROVE  ConfigInvariant
  OBVIOUS
<1>1. kind \in Kinds
  BY DEF Init
<1>2. PICK raw \in RawValues :
        config = [f \in DOMAIN CreateBackend(kind) |-> BackendConfigFromEnv(raw)[f]]
  BY DEF Init
<1> QED
  BY <1>1, <1>2, ConfigInBounds DEF ConfigInvariant

\* The members of the backend are the configured values.
LEMMA MembersAreConfig ==
  ASSUME ConfigInvariant, NEW f \in DOMAIN CreateBackend(kind)
  PROVE  Members(kind, config)[f] = config[f] /\ config[f] \in Nat
<1>1. /\ config[f] \in Nat /\ EnvBounds[f][1] <= config[f] /\ config[f] <= EnvBounds[f][2]
      /\ kind \in Kinds
  BY DEF ConfigInvariant
<1>2. /\ EnvBounds[f][1] \in Nat /\ EnvBounds[f][2] \in Nat
      /\ CreateBackend(kind)[f][1] \in Nat /\ CreateBackend(kind)[f][2] \in Nat
      /\ CreateBackend(kind)[f][1] <= EnvBounds[f][1]
      /\ EnvBounds[f][2] <= CreateBackend(kind)[f][2]
  BY <1>1, BoundsAgree
<1>3. Members(kind, config)[f] = Clamp(config[f], CreateBackend(kind)[f])
  BY DEF Members
<1> QED
  BY <1>1, <1>2, <1>3 DEF Clamp

\* No step changes the configuration.
LEMMA ProcessStep ==
  ASSUME [Next]_vars
  PROVE  UNCHANGED process
BY DEF Next, Call, LocalBackends, SimulatorStart, Sleep, Wake, BatchStart, NextRequest,
       Prefill, Prefilled, Iterate, Generated, Posted, EndBatch, Delegated, Onnx, OnnxStart,
       NextChunk, CreateTensor, RunModel, GetTensorMutableData, BeginWrite, EndWrite, Latch,
       BeginRead, EndRead, ReplyBatch, ReplyStream, WriteFails, Reply, Cancel, Crash, Idle,
       Elsewhere, OnnxElsewhere, vars

\* The numbers the worker prints at startup are the ones its backend works with,
\* for every content of the environment.
THEOREM BannerTellsMembersHolds == Spec => []BannerTellsMembers
<1>1. ConfigInvariant /\ [Next]_vars => ConfigInvariant'
  BY ProcessStep DEF ConfigInvariant, process
<1>2. ConfigInvariant => BannerTellsMembers
  BY MembersAreConfig DEF BannerTellsMembers, Banner
<1> QED
  BY <1>1, <1>2, ConfigInit, PTL DEF Spec

-----------------------------------------------------------------------------
(* Types.                                                                  *)

\* Loops are cut at StepCap iterations.
LEMMA CappedType ==
  ASSUME NEW n \in Nat
  PROVE  Capped(n) \in 0..StepCap
BY ServiceAssumption DEF Capped, Least

\* The loop counts of the backends are natural numbers.
LEMMA IterationsType ==
  ASSUME ConfigInvariant, NEW c \in Calls
  PROVE  /\ kind = "simulator" => (Latency(c) + 4) \div 5 \in Nat
         /\ kind = "tiny_text_model" => Member("tiny_model_iterations") \in Nat
         /\ kind = "tiny_llm" => Member("tiny_llm_max_generated_tokens") \in Nat
<1>1. ASSUME kind = "simulator"
      PROVE  (Latency(c) + 4) \div 5 \in Nat
  <2>1. {"simulator_base_latency_ms", "simulator_per_request_latency_ms"}
          \subseteq DOMAIN CreateBackend(kind)
    BY <1>1 DEF CreateBackend, SimulatorBackend
  <2>2. /\ Member("simulator_base_latency_ms") \in Nat
        /\ Member("simulator_per_request_latency_ms") \in Nat
        /\ Size(c) \in Nat
    BY <2>1, MembersAreConfig, ServiceAssumption DEF Member, Size
  <2>3. \A m, n \in Nat : m * n \in Nat
    OBVIOUS
  <2>4. Latency(c) \in Nat
    BY <2>2, <2>3 DEF Latency
  <2> QED
    BY <2>4
<1>2. ASSUME kind = "tiny_text_model"
      PROVE  Member("tiny_model_iterations") \in Nat
  <2>1. "tiny_model_iterations" \in DOMAIN CreateBackend(kind)
    BY <1>2 DEF CreateBackend, TinyTextModelBackend
  <2> QED
    BY <2>1, MembersAreConfig DEF Member
<1>3. ASSUME kind = "tiny_llm"
      PROVE  Member("tiny_llm_max_generated_tokens") \in Nat
  <2>1. "tiny_llm_max_generated_tokens" \in DOMAIN CreateBackend(kind)
    BY <1>3 DEF CreateBackend, TinyLLMBackend
  <2> QED
    BY <2>1, MembersAreConfig DEF Member
<1> QED
  BY <1>1, <1>2, <1>3

\* A prompt has at least one token.
LEMMA PromptTokensType ==
  ASSUME TypeOK, NEW c \in Calls, Len(outputs[c]) < Size(c)
  PROVE  PromptTokens(Prompts[c][Current(c)]) \in Nat \ {0}
<1>1. Prompts[c] \in Seq(Nat) /\ Current(c) \in 1..Len(Prompts[c])
  BY ServiceAssumption DEF TypeOK, Current, Size
<1> QED
  BY <1>1 DEF PromptTokens

-----------------------------------------------------------------------------
(* BackendContract.                                                        *)

\* A step of a call as its contract sees it.
ContractStep(c) == Contract(c)!Next \/ UNCHANGED Contract(c)!vars

\* The steps that the contract allows, in the terms of the call.
LEMMA ContractProduce ==
  ASSUME NEW c \in Calls, code[c] = "none", code'[c] = code[c], cancelled'[c] = cancelled[c],
         Len(outputs'[c]) \in (Len(outputs[c]) + 1)..Size(c)
  PROVE  ContractStep(c)
BY DEF ContractStep, Contract!Next, Contract!Produce

LEMMA ContractSucceed ==
  ASSUME NEW c \in Calls, code[c] = "none", code'[c] = "ok", cancelled'[c] = cancelled[c],
         Len(outputs[c]) = Size(c), outputs'[c] = outputs[c]
  PROVE  ContractStep(c)
BY DEF ContractStep, Contract!Next, Contract!Succeed

LEMMA ContractFail ==
  ASSUME NEW c \in Calls, code[c] = "none", code'[c] \in {"cancelled", "unavailable"},
         code'[c] = "cancelled" => cancelled[c],
         outputs'[c] = << >>, cancelled'[c] = cancelled[c]
  PROVE  ContractStep(c)
<1>1. Contract(c)!Fail(code'[c])
  BY DEF Contract!Fail
<1> QED
  BY <1>1 DEF ContractStep, Contract!Next

LEMMA ContractStutter ==
  ASSUME NEW c \in Calls, code'[c] = code[c], outputs'[c] = outputs[c],
         cancelled'[c] = cancelled[c]
  PROVE  ContractStep(c)
BY DEF ContractStep, Contract!vars

LEMMA ContractCancel ==
  ASSUME NEW c \in Calls, UNCHANGED <<code, outputs>>, ~cancelled[c], cancelled'[c] = TRUE
  PROVE  ContractStep(c)
BY DEF ContractStep, Contract!Cancel, Contract!Next

-----------------------------------------------------------------------------
(* The parts that the actions are put together from.                       *)

\* The call has not returned.
Running(c) == pc[c] \notin {"returned", "replied"}

\* A batch has at least one request.
LEMMA SizeType ==
  ASSUME NEW c \in Calls
  PROVE  Size(c) \in Nat \ {0}
BY ServiceAssumption DEF Size

\* Giving up at a look at is_cancelled keeps a call's invariant.
LEMMA GiveUpKeeps ==
  ASSUME TypeOK, NEW c \in Calls, CallInvariant(c), Running(c), GiveUp(c), Elsewhere,
         pc[c] \notin {"run", "data", "failed", "writing", "written"}
  PROVE  TypeOK' /\ CallInvariant(c)' /\ ContractStep(c)
<1> USE DEF GiveUp, Fail, GoTo, Elsewhere, process, shared, rpcVars
<1>1. TypeOK'
  BY DEF TypeOK
<1>2. /\ outputs'[c] = << >> /\ code'[c] = "cancelled" /\ pc'[c] = "returned"
      /\ cancelled'[c] /\ status'[c] = status[c] /\ answer'[c] = answer[c]
      /\ values'[c] = values[c] /\ UNCHANGED kind
  BY DEF TypeOK
<1>3. CallInvariant(c)'
  BY <1>2, SizeType DEF CallInvariant, Running, AllOf
<1>4. ContractStep(c)
  BY <1>2, ContractFail DEF TypeOK, CallInvariant, Running
<1> QED
  BY <1>1, <1>3, <1>4

\* So does another failure,
LEMMA UnavailableKeeps ==
  ASSUME TypeOK, NEW c \in Calls, CallInvariant(c), Running(c), Fail(c, "unavailable"),
         UNCHANGED steps, Elsewhere,
         pc[c] \notin {"run", "data", "failed", "writing", "written"}
  PROVE  TypeOK' /\ CallInvariant(c)' /\ ContractStep(c)
<1> USE DEF Fail, GoTo, Elsewhere, process, shared, rpcVars
<1>1. TypeOK'
  BY DEF TypeOK
<1>2. /\ outputs'[c] = << >> /\ code'[c] = "unavailable" /\ pc'[c] = "returned"
      /\ status'[c] = status[c] /\ answer'[c] = answer[c]
      /\ values'[c] = values[c] /\ UNCHANGED kind
  BY DEF TypeOK
<1>3. CallInvariant(c)'
  BY <1>2, SizeType DEF CallInvariant, Running, AllOf
<1>4. ContractStep(c)
  BY <1>2, ContractFail DEF TypeOK, CallInvariant, Running
<1> QED
  BY <1>1, <1>3, <1>4

\* success with all outputs,
LEMMA SucceedKeeps ==
  ASSUME TypeOK, NEW c \in Calls, CallInvariant(c), Running(c), Succeed(c),
         Len(outputs[c]) = Size(c), UNCHANGED steps, Elsewhere,
         pc[c] \notin {"run", "data", "failed", "writing", "written"}
  PROVE  TypeOK' /\ CallInvariant(c)' /\ ContractStep(c)
<1> USE DEF Succeed, GoTo, Elsewhere, process, shared, rpcVars
<1>1. TypeOK'
  BY DEF TypeOK
<1>2. /\ outputs'[c] = outputs[c] /\ code'[c] = "ok" /\ pc'[c] = "returned"
      /\ status'[c] = status[c] /\ answer'[c] = answer[c]
      /\ values'[c] = values[c] /\ UNCHANGED kind
  BY DEF TypeOK
<1>3. CallInvariant(c)'
  BY <1>2, SizeType DEF CallInvariant, Running, AllOf
<1>4. ContractStep(c)
  BY <1>2, ContractSucceed DEF TypeOK, CallInvariant, Running
<1> QED
  BY <1>1, <1>3, <1>4

\* entering a loop, or going round in it,
LEMMA LoopKeeps ==
  ASSUME TypeOK, NEW c \in Calls, CallInvariant(c), Running(c), NEW n \in Nat,
         NEW label \in {"request", "sleep", "iterate", "prefill", "prefilled", "post",
                        "chunk", "tensor"},
         Loop(c, label, n), UNCHANGED <<outputs, code>>, Elsewhere,
         pc[c] \notin {"run", "data", "failed", "writing", "written", "unavailable", "reading"},
         label = "sleep" => outputs[c] = << >>,
         label \in {"prefill", "prefilled"} => kind = "tiny_llm",
         label \notin {"sleep", "request", "chunk"} => Len(outputs[c]) < Size(c)
  PROVE  TypeOK' /\ CallInvariant(c)' /\ ContractStep(c)
<1> USE DEF Loop, GoTo, Elsewhere, process, shared, rpcVars
<1>1. TypeOK'
  BY CappedType DEF TypeOK
<1>2. /\ UNCHANGED <<outputs, code, kind>> /\ pc'[c] = label
      /\ status'[c] = status[c] /\ answer'[c] = answer[c] /\ values'[c] = values[c]
  BY DEF TypeOK
<1>3. CallInvariant(c)'
  BY <1>2, SizeType DEF CallInvariant, Running, AllOf
<1>4. ContractStep(c)
  BY <1>2, ContractStutter DEF TypeOK, CallInvariant, Running
<1> QED
  BY <1>1, <1>3, <1>4

\* and one more output.
LEMMA AppendKeeps ==
  ASSUME TypeOK, NEW c \in Calls, CallInvariant(c), Running(c),
         Len(outputs[c]) < Size(c),
         outputs' = [outputs EXCEPT ![c] = Append(@, Current(c))],
         UNCHANGED <<steps, code>>, Elsewhere,
         \/ GoTo(c, "request")
         \/ UNCHANGED pc /\ pc[c] = "start" /\ kind \in {"llama_cpp", "continuous_tiny_llm"},
         pc[c] \notin {"run", "data", "failed", "writing", "written", "unavailable", "reading"}
  PROVE  TypeOK' /\ CallInvariant(c)' /\ ContractStep(c)
<1> USE DEF GoTo, Elsewhere, process, shared, rpcVars
<1>1. outputs[c] \in Seq(Nat) /\ Current(c) \in Nat /\ Current(c) = Len(outputs[c]) + 1
  BY DEF TypeOK, Current
<1>2. TypeOK'
  <2>1. outputs' \in [Calls -> Seq(Nat)]
    BY <1>1 DEF TypeOK
  <2> QED
    BY <2>1 DEF TypeOK
<1>3. outputs'[c] = Append(outputs[c], Len(outputs[c]) + 1)
  BY <1>1 DEF TypeOK
<1>4. /\ \A i \in 1..Len(outputs'[c]) : outputs'[c][i] = i
      /\ Len(outputs'[c]) <= Size(c)
  BY <1>1, <1>3, SizeType DEF CallInvariant
<1>5. /\ pc'[c] = "request" \/ (pc'[c] = "start" /\ kind \in {"llama_cpp", "continuous_tiny_llm"})
      /\ UNCHANGED <<code, kind>>
      /\ status'[c] = status[c] /\ answer'[c] = answer[c] /\ values'[c] = values[c]
      /\ cancelled'[c] = cancelled[c]
  BY DEF TypeOK
<1>6. code[c] = "none"
  BY DEF CallInvariant, Running
<1>7. CallInvariant(c)'
  BY <1>4, <1>5, <1>6 DEF CallInvariant, Running, AllOf
<1>8. ContractStep(c)
  BY <1>1, <1>3, <1>4, <1>5, <1>6, ContractProduce DEF TypeOK
<1> QED
  BY <1>2, <1>7, <1>8

-----------------------------------------------------------------------------
(* The actions, one by one.                                                *)

\* The simulator, the tiny models and the llama.cpp server.
LEMMA LocalKeeps ==
  ASSUME TypeOK, ConfigInvariant, NEW c \in Calls, CallInvariant(c), LocalBackends(c)
  PROVE  TypeOK' /\ CallInvariant(c)' /\ ContractStep(c)
<1> USE DEF Running
<1>0. /\ Len(outputs[c]) \in Nat /\ steps[c] \in Nat /\ Size(c) \in Nat \ {0}
      /\ outputs[c] = << >> <=> Len(outputs[c]) = 0
  BY SizeType DEF TypeOK
<1>1. CASE SimulatorStart(c)
  <2>1. outputs[c] = << >> /\ (Latency(c) + 4) \div 5 \in Nat
    BY <1>1, IterationsType DEF SimulatorStart, CallInvariant
  <2> QED
    BY <1>1, <2>1, LoopKeeps DEF SimulatorStart
<1>2. CASE Sleep(c)
  <2>1. outputs[c] = << >> /\ steps[c] - 1 \in Nat
    BY <1>0, <1>2 DEF Sleep, CallInvariant
  <2> QED
    BY <1>2, <2>1, LoopKeeps, GiveUpKeeps DEF Sleep, GoOn
<1>3. CASE Wake(c)
  <2>1. CASE GiveUp(c)
    BY <1>3, <2>1, GiveUpKeeps DEF Wake
  <2>2. CASE ~GiveUp(c)
    <3> USE DEF GoTo, Elsewhere, process, shared, rpcVars
    <3>1. /\ outputs' = [outputs EXCEPT ![c] = AllOf(c)] /\ GoTo(c, "request")
          /\ UNCHANGED <<steps, code>> /\ Elsewhere /\ pc[c] = "sleep"
      BY <1>3, <2>2 DEF Wake
    <3>2. AllOf(c) \in Seq(Nat) /\ Len(AllOf(c)) = Size(c)
          /\ \A i \in 1..Size(c) : AllOf(c)[i] = i
      BY <1>0 DEF AllOf
    <3>3. TypeOK'
      BY <3>1, <3>2 DEF TypeOK
    <3>4. /\ outputs'[c] = AllOf(c) /\ pc'[c] = "request" /\ UNCHANGED <<code, kind>>
          /\ status'[c] = status[c] /\ answer'[c] = answer[c] /\ values'[c] = values[c]
          /\ cancelled'[c] = cancelled[c] /\ AllOf(c)' = AllOf(c)
      BY <3>1 DEF TypeOK, AllOf
    <3>5. CallInvariant(c)'
      BY <1>0, <3>1, <3>2, <3>4 DEF CallInvariant
    <3>6. ContractStep(c)
      BY <1>0, <3>1, <3>2, <3>4, ContractProduce DEF CallInvariant
    <3> QED
      BY <3>3, <3>5, <3>6
  <2> QED
    BY <2>1, <2>2
<1>4. CASE BatchStart(c)
  BY <1>4, LoopKeeps, GiveUpKeeps, UnavailableKeeps DEF BatchStart, GoOn
<1>5. CASE NextRequest(c)
  <2>1. PromptTokens(Prompts[c][Current(c)]) \in Nat
    BY <1>5, PromptTokensType DEF NextRequest
  <2>2. CASE GiveUp(c)
    BY <1>5, <2>2, GiveUpKeeps DEF NextRequest
  <2>3. CASE kind = "tiny_text_model" /\ GoOn(c, "iterate", Member("tiny_model_iterations"))
    BY <1>5, <2>3, LoopKeeps, IterationsType DEF NextRequest, GoOn
  <2>4. CASE kind = "tiny_llm" /\ GoOn(c, "prefill", PromptTokens(Prompts[c][Current(c)]))
    BY <1>5, <2>1, <2>4, LoopKeeps DEF NextRequest, GoOn
  <2>5. CASE kind = "llama_server" /\ GoOn(c, "post", 0)
    BY <1>5, <2>5, LoopKeeps DEF NextRequest, GoOn
  <2> QED
    BY <1>5, <2>2, <2>3, <2>4, <2>5 DEF NextRequest
<1>6. CASE Prefill(c)
  <2>1. Len(outputs[c]) < Size(c) /\ steps[c] - 1 \in Nat
    BY <1>0, <1>6 DEF Prefill, CallInvariant
  <2> QED
    BY <1>6, <2>1, LoopKeeps DEF Prefill, CallInvariant
<1>7. CASE Prefilled(c)
  <2>1. Len(outputs[c]) < Size(c)
    BY <1>7 DEF Prefilled, CallInvariant
  <2>2. PromptTokens(Prompts[c][Current(c)]) # 0
    BY <2>1, PromptTokensType
  <2>3. kind = "tiny_llm"
    BY <1>7 DEF Prefilled, CallInvariant
  <2> QED
    BY <1>7, <2>1, <2>2, <2>3, LoopKeeps, GiveUpKeeps, IterationsType DEF Prefilled, GoOn
<1>8. CASE Iterate(c)
  <2>1. Len(outputs[c]) < Size(c) /\ steps[c] - 1 \in Nat
    BY <1>0, <1>8 DEF Iterate, CallInvariant
  <2> QED
    BY <1>8, <2>1, LoopKeeps, GiveUpKeeps DEF Iterate, GoOn
<1>9. CASE Generated(c)
  <2>1. Len(outputs[c]) < Size(c)
    BY <1>9 DEF Generated, CallInvariant
  <2> QED
    BY <1>9, <2>1, AppendKeeps DEF Generated, Push
<1>10. CASE Posted(c)
  <2>1. Len(outputs[c]) < Size(c)
    BY <1>10 DEF Posted, CallInvariant
  <2> QED
    BY <1>10, <2>1, AppendKeeps, GiveUpKeeps, UnavailableKeeps DEF Posted, Push
<1>11. CASE EndBatch(c)
  BY <1>11, SucceedKeeps DEF EndBatch
<1> QED
  BY <1>1, <1>2, <1>3, <1>4, <1>5, <1>6, <1>7, <1>8, <1>9, <1>10, <1>11 DEF LocalBackends

\* The backends that are modelled by their contract.
LEMMA DelegatedKeeps ==
  ASSUME TypeOK, NEW c \in Calls, CallInvariant(c), Delegated(c)
  PROVE  TypeOK' /\ CallInvariant(c)' /\ ContractStep(c)
<1> USE DEF Running
<1>1. CASE cancelled[c] /\ Fail(c, "cancelled")
  BY <1>1, GiveUpKeeps DEF Delegated, GiveUp
<1> QED
  BY <1>1, AppendKeeps, SucceedKeeps, UnavailableKeeps DEF Delegated

\* The rows that belong to requests continue the outputs in their order.
LEMMA LabelsContinue ==
  ASSUME TypeOK, NEW c \in Calls, CallInvariant(c), Len(outputs[c]) < Size(c)
  PROVE  /\ outputs[c] \o Labels(c) \in Seq(Nat)
         /\ Len(outputs[c] \o Labels(c)) \in (Len(outputs[c]) + 1)..Size(c)
         /\ \A i \in 1..Len(outputs[c] \o Labels(c)) : (outputs[c] \o Labels(c))[i] = i
<1>1. /\ Len(outputs[c]) \in Nat /\ Size(c) \in Nat /\ ModelBatch \in Nat \ {0}
      /\ outputs[c] \in Seq(Nat)
  BY SizeType, ServiceAssumption DEF TypeOK
<1>2. PICK done \in Nat : done = Len(outputs[c])
  BY <1>1
<1>3. PICK last \in Nat : last = Least(done + ModelBatch, Size(c))
  BY <1>1, <1>2 DEF Least
<1>4. last > done /\ last <= Size(c)
  BY <1>1, <1>2, <1>3 DEF Least
<1>5. PICK rows \in Nat : rows = last - done
  BY <1>4
<1>6. Cardinality(Chunk(c)) = rows
  <2>1. Chunk(c) = (done + 1)..last
    BY <1>2, <1>3 DEF Chunk
  <2>2. done + 1 \in Int /\ last \in Int /\ ~(done + 1 > last)
    BY <1>4
  <2>3. Cardinality((done + 1)..last) = last - (done + 1) + 1
    BY <2>2, FS_Interval
  <2> QED
    BY <1>5, <2>1, <2>3
<1>7. Labels(c) = [i \in 1..rows |-> done + i]
  BY <1>2, <1>6 DEF Labels
<1>8. Labels(c) \in Seq(Nat) /\ Len(Labels(c)) = rows
  BY <1>7
<1>9. \A i \in 1..rows : Labels(c)[i] = done + i
  BY <1>7
<1>10. \A i \in 1..done : outputs[c][i] = i
  BY <1>2 DEF CallInvariant
<1>11. /\ outputs[c] \o Labels(c) \in Seq(Nat)
       /\ Len(outputs[c] \o Labels(c)) = done + rows
       /\ \A i \in 1..(done + rows) :
            (outputs[c] \o Labels(c))[i]
              = IF i <= done THEN outputs[c][i] ELSE Labels(c)[i - done]
  BY <1>1, <1>2, <1>8, ConcatProperties
<1>12. \A i \in 1..(done + rows) : (outputs[c] \o Labels(c))[i] = i
  <2> SUFFICES ASSUME NEW i \in 1..(done + rows)
               PROVE  (outputs[c] \o Labels(c))[i] = i
    OBVIOUS
  <2>1. CASE i <= done
    BY <1>10, <1>11, <2>1
  <2>2. CASE ~(i <= done)
    <3>1. i - done \in 1..rows /\ done + (i - done) = i
      BY <2>2
    <3> QED
      BY <1>9, <1>11, <2>2, <3>1
  <2> QED
    BY <2>1, <2>2
<1> QED
  BY <1>1, <1>2, <1>4, <1>5, <1>11, <1>12

\* The ONNX backend.
LEMMA OnnxKeeps ==
  ASSUME TypeOK, NEW c \in Calls, CallInvariant(c), Onnx(c)
  PROVE  TypeOK' /\ CallInvariant(c)' /\ ContractStep(c)
<1> USE DEF Running
<1>1. CASE OnnxStart(c)
  <2>1. CASE ~ready
    <3> USE DEF GoTo, Elsewhere, process, shared, rpcVars
    <3>1. /\ GoTo(c, "unavailable") /\ UNCHANGED <<outputs, steps, code>> /\ Elsewhere
          /\ pc[c] = "start"
      BY <1>1, <2>1 DEF OnnxStart
    <3>2. TypeOK'
      BY <3>1 DEF TypeOK
    <3>3. CallInvariant(c)'
      BY <3>1 DEF TypeOK, CallInvariant, AllOf
    <3>4. ContractStep(c)
      BY <3>1, ContractStutter
    <3> QED
      BY <3>2, <3>3, <3>4
  <2>2. CASE ready
    BY <1>1, <2>2, LoopKeeps, GiveUpKeeps DEF OnnxStart, GoOn
  <2> QED
    BY <2>1, <2>2
<1>2. CASE NextChunk(c)
  BY <1>2, LoopKeeps, GiveUpKeeps, SucceedKeeps DEF NextChunk, GoOn
<1>3. ASSUME OnnxElsewhere,
             values' \in [Calls -> SUBSET {"input", "output"}],
             failed' \in [Calls -> Operations \cup {"none"}],
             NEW label \in {"run", "data", "failed", "writing", "written", "unavailable",
                            "reading"},
             GoTo(c, label), UNCHANGED <<outputs, message>>,
             ready' \in BOOLEAN, raced' \in BOOLEAN, reason' \in Reasons,
             label \in {"run", "data"} => Len(outputs[c]) < Size(c) /\ failed' = failed,
             label \in {"unavailable", "reading"} => values'[c] = {},
             label \in {"failed", "writing", "written"} => failed'[c] # "none",
             label \in {"run", "data"} => pc[c] \in {"tensor", "run"},
             pc[c] \notin {"start", "sleep", "returned", "replied"}
      PROVE  TypeOK' /\ CallInvariant(c)' /\ ContractStep(c)
  <2> USE <1>3 DEF GoTo, OnnxElsewhere, process, shared, rpcVars
  <2>1. TypeOK'
    BY DEF TypeOK
  <2>2. /\ pc'[c] = label /\ UNCHANGED <<outputs, code, kind, cancelled, status, answer>>
    BY DEF TypeOK
  <2>3. CallInvariant(c)'
    BY <2>2 DEF CallInvariant, AllOf
  <2>4. ContractStep(c)
    BY <2>2, ContractStutter
  <2> QED
    BY <2>1, <2>3, <2>4
<1> USE DEF Operations, Reasons, OperationFails, shared
<1>4. CASE CreateTensor(c)
  <2>1. Len(outputs[c]) < Size(c)
    BY <1>4 DEF CreateTensor, CallInvariant
  <2>2. /\ ready' \in BOOLEAN /\ raced' \in BOOLEAN /\ reason' \in Reasons
        /\ UNCHANGED <<outputs, message>> /\ OnnxElsewhere /\ pc[c] = "tensor"
    BY <1>4 DEF CreateTensor, TypeOK
  <2>3. CASE GoTo(c, "run") /\ values' = [values EXCEPT ![c] = {"input"}] /\ UNCHANGED failed
    <3>1. /\ values' \in [Calls -> SUBSET {"input", "output"}]
          /\ failed' \in [Calls -> Operations \cup {"none"}]
      BY <2>3 DEF TypeOK
    <3> QED
      BY <1>3, <2>1, <2>2, <2>3, <3>1
  <2>4. CASE OperationFails(c, "CreateTensor") /\ UNCHANGED values
    <3>1. /\ values' \in [Calls -> SUBSET {"input", "output"}]
          /\ failed' \in [Calls -> Operations \cup {"none"}] /\ failed'[c] # "none"
      BY <2>4 DEF TypeOK
    <3> QED
      BY <1>3, <2>2, <2>4, <3>1
  <2> QED
    BY <1>4, <2>3, <2>4 DEF CreateTensor
<1>5. CASE RunModel(c)
  <2>1. Len(outputs[c]) < Size(c)
    BY <1>5 DEF RunModel, CallInvariant
  <2>2. /\ ready' \in BOOLEAN /\ raced' \in BOOLEAN /\ reason' \in Reasons
        /\ UNCHANGED <<outputs, message>> /\ OnnxElsewhere /\ pc[c] = "run"
    BY <1>5 DEF RunModel, TypeOK
  <2>3. CASE GoTo(c, "data") /\ values' = [values EXCEPT ![c] = {"output"}] /\ UNCHANGED failed
    <3>1. /\ values' \in [Calls -> SUBSET {"input", "output"}]
          /\ failed' \in [Calls -> Operations \cup {"none"}]
      BY <2>3 DEF TypeOK
    <3> QED
      BY <1>3, <2>1, <2>2, <2>3, <3>1
  <2>4. CASE OperationFails(c, "Run") /\ values' = [values EXCEPT ![c] = {}]
    <3>1. /\ values' \in [Calls -> SUBSET {"input", "output"}]
          /\ failed' \in [Calls -> Operations \cup {"none"}] /\ failed'[c] # "none"
      BY <2>4 DEF TypeOK
    <3> QED
      BY <1>3, <2>2, <2>4, <3>1
  <2> QED
    BY <1>5, <2>3, <2>4 DEF RunModel
<1>6. CASE GetTensorMutableData(c)
  <2>1. CASE OperationFails(c, "GetTensorMutableData") /\ UNCHANGED <<outputs, values>>
    BY <1>3, <1>6, <2>1 DEF GetTensorMutableData, TypeOK
  <2>2. CASE /\ GoTo(c, "chunk")
             /\ outputs' = [outputs EXCEPT ![c] = @ \o Labels(c)]
             /\ values' = [values EXCEPT ![c] = {}]
             /\ UNCHANGED failed
    <3> USE DEF GoTo, OnnxElsewhere, process, shared, rpcVars
    <3>0. Len(outputs[c]) < Size(c)
      BY <1>6 DEF GetTensorMutableData, CallInvariant
    <3>1. /\ outputs[c] \o Labels(c) \in Seq(Nat)
          /\ Len(outputs[c] \o Labels(c)) \in (Len(outputs[c]) + 1)..Size(c)
          /\ \A i \in 1..Len(outputs[c] \o Labels(c)) : (outputs[c] \o Labels(c))[i] = i
      BY <3>0, LabelsContinue
    <3>2. TypeOK'
      BY <1>6, <2>2, <3>1 DEF GetTensorMutableData, TypeOK
    <3>3. /\ outputs'[c] = outputs[c] \o Labels(c) /\ pc'[c] = "chunk" /\ values'[c] = {}
          /\ UNCHANGED <<kind, code, cancelled, status, answer>> /\ pc[c] = "data"
      BY <1>6, <2>2 DEF GetTensorMutableData, TypeOK
    <3>4. code[c] = "none" /\ status[c] = "none" /\ failed'[c] = "none"
      BY <2>2, <3>3 DEF CallInvariant
    <3>5. CallInvariant(c)'
      BY <3>1, <3>3, <3>4 DEF CallInvariant, AllOf
    <3>6. ContractStep(c)
      BY <3>1, <3>3, <3>4, ContractProduce
    <3> QED
      BY <3>2, <3>5, <3>6
  <2> QED
    BY <1>6, <2>1, <2>2 DEF GetTensorMutableData
<1>7. CASE BeginWrite(c)
  BY <1>3, <1>7 DEF BeginWrite, TypeOK, CallInvariant
<1>8. CASE EndWrite(c)
  <2>1. /\ values' \in [Calls -> SUBSET {"input", "output"}]
        /\ failed' \in [Calls -> Operations \cup {"none"}]
        /\ ready' \in BOOLEAN /\ raced' \in BOOLEAN
        /\ UNCHANGED <<outputs, message, failed>> /\ OnnxElsewhere /\ pc[c] = "writing"
        /\ GoTo(c, "written")
    BY <1>8 DEF EndWrite, TypeOK
  <2>2. failed[c] \in Operations
    BY <1>8 DEF EndWrite, CallInvariant, TypeOK
  <2>3. reason' \in Reasons
    BY <1>8, <2>2 DEF EndWrite
  <2> QED
    BY <1>3, <2>1, <2>2, <2>3
<1>9. CASE Latch(c)
  BY <1>3, <1>9 DEF Latch, TypeOK
<1>10. CASE BeginRead(c)
  BY <1>3, <1>10 DEF BeginRead, TypeOK, CallInvariant
<1>11. CASE EndRead(c)
  <2> USE DEF EndRead, Fail, GoTo, process, shared, rpcVars
  <2>1. TypeOK'
    BY <1>11 DEF TypeOK
  <2>2. /\ outputs'[c] = << >> /\ code'[c] = "unavailable" /\ pc'[c] = "returned"
        /\ UNCHANGED <<status, answer, values, kind>> /\ pc[c] = "reading"
    BY <1>11 DEF TypeOK
  <2>3. CallInvariant(c)'
    BY <2>2, SizeType DEF CallInvariant, AllOf
  <2>4. ContractStep(c)
    BY <1>11, <2>2, ContractFail DEF CallInvariant
  <2> QED
    BY <2>1, <2>3, <2>4
<1> QED
  BY <1>1, <1>2, <1>4, <1>5, <1>6, <1>7, <1>8, <1>9, <1>10, <1>11 DEF Onnx

\* The service and the client.
LEMMA ServiceKeeps ==
  ASSUME TypeOK, NEW c \in Calls, CallInvariant(c),
         ReplyBatch(c) \/ ReplyStream(c) \/ WriteFails(c) \/ Cancel(c)
  PROVE  TypeOK' /\ CallInvariant(c)' /\ ContractStep(c)
<1>1. ASSUME NEW result \in Seq(Nat),
             NEW rpcStatus \in {"OK", "CANCELLED", "UNAVAILABLE"},
             result = IF rpcStatus = "OK" THEN AllOf(c) ELSE << >>,
             Reply(c, result, rpcStatus), pc[c] = "returned"
      PROVE  TypeOK' /\ CallInvariant(c)' /\ ContractStep(c)
  <2> USE <1>1 DEF Reply, GoTo, process, shared
  <2>1. TypeOK'
    BY DEF TypeOK
  <2>2. /\ answer'[c] = result /\ status'[c] = rpcStatus /\ pc'[c] = "replied"
        /\ UNCHANGED <<outputs, code, cancelled, values, kind>>
    BY DEF TypeOK
  <2>3. CallInvariant(c)'
    BY <2>2 DEF CallInvariant, AllOf
  <2>4. ContractStep(c)
    BY <2>2, ContractStutter
  <2> QED
    BY <2>1, <2>3, <2>4
<1>2. /\ outputs[c] \in Seq(Nat) /\ << >> \in Seq(Nat)
      /\ Size(c) \in Nat
  BY SizeType DEF TypeOK
<1>3. ASSUME pc[c] = "returned"
      PROVE  /\ StatusFor(c) \in {"OK", "CANCELLED", "UNAVAILABLE"}
             /\ StatusFor(c) = "OK" => outputs[c] = AllOf(c)
  <2>1. code[c] \in {"ok", "cancelled", "unavailable"}
    BY <1>3 DEF TypeOK, CallInvariant
  <2>2. CASE code[c] = "ok"
    <3>1. Len(outputs[c]) = Size(c) /\ \A i \in 1..Len(outputs[c]) : outputs[c][i] = i
      BY <2>2 DEF CallInvariant
    <3>2. outputs[c] = AllOf(c)
      BY <1>2, <3>1 DEF AllOf
    <3> QED
      BY <2>2, <3>1, <3>2 DEF StatusFor
  <2>3. CASE code[c] # "ok"
    BY <2>1, <2>3 DEF StatusFor
  <2> QED
    BY <2>2, <2>3
<1>4. CASE ReplyBatch(c)
  BY <1>1, <1>2, <1>3, <1>4 DEF ReplyBatch
<1>5. CASE ReplyStream(c)
  BY <1>1, <1>2, <1>3, <1>5 DEF ReplyStream
<1>6. CASE WriteFails(c)
  BY <1>1, <1>2, <1>6 DEF WriteFails
<1>7. CASE Cancel(c)
  <2> USE DEF Cancel, callVars, rpcVars, process, shared
  <2>1. TypeOK'
    BY <1>7 DEF TypeOK
  <2>2. CallInvariant(c)'
    BY <1>7 DEF TypeOK, CallInvariant, AllOf
  <2>3. ContractStep(c)
    <3>1. cancelled'[c] = TRUE /\ ~cancelled[c]
      BY <1>7 DEF TypeOK
    <3> QED
      BY <1>7, <3>1, ContractCancel
  <2> QED
    BY <2>1, <2>2, <2>3
<1> QED
  BY <1>4, <1>5, <1>6, <1>7

-----------------------------------------------------------------------------
(* The other calls.                                                        *)

\* What is a call's own.
Slots(d) == <<pc[d], steps[d], outputs[d], values[d], failed[d], code[d], message[d],
              answer[d], status[d], cancelled[d]>>

\* A call writes nothing of another one's.
LEMMA OthersKeep ==
  ASSUME TypeOK, NEW c \in Calls, Call(c) \/ Cancel(c), NEW d \in Calls, d # c
  PROVE  UNCHANGED Slots(d)
<1> USE DEF Slots, GoTo, Loop, Fail, Succeed, GiveUp, GoOn, Elsewhere, rpcVars, OnnxElsewhere,
            TypeOK
<1>1. CASE LocalBackends(c)
  <2>1. CASE SimulatorStart(c) \/ Sleep(c) \/ Wake(c)
    BY <2>1 DEF SimulatorStart, Sleep, Wake
  <2>2. CASE BatchStart(c) \/ NextRequest(c) \/ Prefill(c)
    BY <2>2 DEF BatchStart, NextRequest, Prefill
  <2>3. CASE Prefilled(c) \/ Iterate(c) \/ Generated(c) \/ Posted(c) \/ EndBatch(c)
    BY <2>3 DEF Prefilled, Iterate, Generated, Posted, Push, EndBatch
  <2> QED
    BY <1>1, <2>1, <2>2, <2>3 DEF LocalBackends
<1>2. CASE Delegated(c)
  BY <1>2 DEF Delegated
<1>3. CASE Onnx(c)
  <2>1. CASE OnnxStart(c) \/ NextChunk(c)
    BY <2>1 DEF OnnxStart, NextChunk
  <2>2. CASE CreateTensor(c) \/ RunModel(c) \/ GetTensorMutableData(c)
    BY <2>2 DEF CreateTensor, RunModel, GetTensorMutableData, OperationFails
  <2>3. CASE BeginWrite(c) \/ EndWrite(c) \/ Latch(c) \/ BeginRead(c)
    BY <2>3 DEF BeginWrite, EndWrite, Latch, BeginRead
  <2>4. CASE EndRead(c)
    BY <2>4 DEF EndRead
  <2> QED
    BY <1>3, <2>1, <2>2, <2>3, <2>4 DEF Onnx
<1>4. CASE ReplyBatch(c) \/ ReplyStream(c) \/ WriteFails(c)
  <2>1. PICK result, rpcStatus : Reply(c, result, rpcStatus)
    BY <1>4 DEF ReplyBatch, ReplyStream, WriteFails
  <2> QED
    BY <2>1 DEF Reply
<1>5. CASE Cancel(c)
  BY <1>5 DEF Cancel, callVars
<1> QED
  BY <1>1, <1>2, <1>3, <1>4, <1>5 DEF Call

\* A call whose own part does not change keeps its invariant.
LEMMA OthersInvariant ==
  ASSUME NEW d \in Calls, CallInvariant(d), UNCHANGED Slots(d), UNCHANGED process
  PROVE  CallInvariant(d)' /\ ContractStep(d)
<1>1. CallInvariant(d)'
  BY DEF CallInvariant, Slots, AllOf, process
<1>2. ContractStep(d)
  BY ContractStutter DEF Slots
<1> QED
  BY <1>1, <1>2

\* What holds of the process and of each call.
ServiceInvariant == TypeOK /\ ConfigInvariant /\ \A c \in Calls : CallInvariant(c)

\* The start.
LEMMA ServiceInit == Init => ServiceInvariant
<1> SUFFICES ASSUME Init
             PROVE  ServiceInvariant
  OBVIOUS
<1>1. ConfigInvariant
  BY ConfigInit
<1>2. TypeOK
  <2>1. config \in [DOMAIN CreateBackend(kind) -> Nat]
    BY <1>1 DEF ConfigInvariant
  <2>2. ready \in BOOLEAN
    BY DEF Init
  <2>3. << >> \in Seq(Nat) /\ 0 \in 0..StepCap
    BY ServiceAssumption
  <2> QED
    BY <2>1, <2>2, <2>3 DEF Init, TypeOK, Reasons
<1>3. ASSUME NEW c \in Calls
      PROVE  CallInvariant(c)
  BY SizeType DEF Init, CallInvariant, AllOf
<1> QED
  BY <1>1, <1>2, <1>3 DEF ServiceInvariant

\* Every step keeps the invariant of the call that takes it, touches no other
\* call, and is one that the contract of the backend allows.
LEMMA ServiceStep ==
  ASSUME ServiceInvariant, [Next]_vars
  PROVE  ServiceInvariant' /\ \A c \in Calls : ContractStep(c)
<1>1. UNCHANGED process
  BY ProcessStep
<1>2. ConfigInvariant'
  BY <1>1 DEF ServiceInvariant, ConfigInvariant, process
<1>3. ASSUME NEW c \in Calls, Call(c) \/ Cancel(c)
      PROVE  ServiceInvariant' /\ \A d \in Calls : ContractStep(d)
  <2>1. TypeOK' /\ CallInvariant(c)' /\ ContractStep(c)
    BY <1>3, LocalKeeps, DelegatedKeeps, OnnxKeeps, ServiceKeeps DEF Call, ServiceInvariant
  <2>2. ASSUME NEW d \in Calls, d # c
        PROVE  CallInvariant(d)' /\ ContractStep(d)
    BY <1>1, <1>3, <2>2, OthersKeep, OthersInvariant DEF ServiceInvariant
  <2> QED
    BY <1>2, <2>1, <2>2 DEF ServiceInvariant
<1>4. CASE Crash \/ UNCHANGED vars
  <2>1. /\ UNCHANGED <<pc, steps, outputs, values, failed, code, message, answer, status,
                       cancelled, kind, config, ready, reason, raced>>
        /\ crashed' \in BOOLEAN
    BY <1>4 DEF Crash, vars, process, shared, callVars, rpcVars, ServiceInvariant, TypeOK
  <2>2. TypeOK'
    BY <2>1 DEF ServiceInvariant, TypeOK
  <2>3. ASSUME NEW d \in Calls
        PROVE  CallInvariant(d)' /\ ContractStep(d)
    BY <1>1, <2>1, OthersInvariant DEF Slots, ServiceInvariant
  <2> QED
    BY <1>2, <2>2, <2>3 DEF ServiceInvariant
<1> QED
  BY <1>3, <1>4 DEF Next, Idle

-----------------------------------------------------------------------------
(* The reason for a failure that the calls share.                          *)

\* The calls of which an operation failed.
FailedCalls == {c \in Calls : failed[c] # "none"}

\* Two of them are more than one.
LEMMA TwoFailed ==
  ASSUME NEW c \in FailedCalls, NEW d \in FailedCalls, c # d
  PROVE  Cardinality(FailedCalls) > 1
<1>1. IsFiniteSet(FailedCalls)
  BY ServiceAssumption, FS_Subset DEF FailedCalls
<1>2. {c, d} \subseteq FailedCalls /\ Cardinality({c, d}) = 2
  <2>1. IsFiniteSet({d}) /\ Cardinality({d}) = 1
    BY FS_Singleton
  <2>2. Cardinality({d} \cup {c}) = 2
    BY <2>1, FS_AddElement
  <2>3. {d} \cup {c} = {c, d}
    OBVIOUS
  <2> QED
    BY <2>2, <2>3
<1>3. Cardinality({c, d}) <= Cardinality(FailedCalls)
  BY <1>1, <1>2, FS_Subset
<1>4. Cardinality(FailedCalls) \in Nat
  BY <1>1, FS_CardinalityType
<1> QED
  BY <1>2, <1>3, <1>4

\* A failure is never forgotten, and its number only grows.
LEMMA FailuresGrow ==
  ASSUME ServiceInvariant, ServiceInvariant',
         \A c \in Calls : failed[c] # "none" => failed'[c] = failed[c]
  PROVE  /\ Failures \subseteq Failures'
         /\ Cardinality(FailedCalls) > 1 => Cardinality(FailedCalls') > 1
<1>1. Failures \subseteq Failures'
  BY DEF Failures
<1>2. FailedCalls \subseteq FailedCalls' /\ IsFiniteSet(FailedCalls')
  BY ServiceAssumption, FS_Subset DEF FailedCalls
<1>3. /\ Cardinality(FailedCalls) <= Cardinality(FailedCalls')
      /\ Cardinality(FailedCalls) \in Nat /\ Cardinality(FailedCalls') \in Nat
  BY <1>2, FS_Subset, FS_CardinalityType
<1> QED
  BY <1>1, <1>3

\* The labels between the first look at ready and the failure of an operation,
\* and the labels of a call that has failed and is not done recording it.
Trying == {"chunk", "tensor", "run", "data"}
Recording == {"failed", "writing"}

\* What a step by a call does to the fields that the calls share:
FailureStep(c) ==
  \* nothing, unless the call fails, records, or reads;
  \/ UNCHANGED <<ready, reason, raced, message, failed, pc>>
  \/ /\ UNCHANGED <<ready, reason, raced, message, failed>>
     /\ pc'[c] \in Trying => ready \/ pc[c] \in Trying
     /\ pc'[c] \notin Recording \cup {"written", "reading"}
     /\ pc'[c] = "unavailable" => ~ready
     /\ pc[c] \notin Recording \cup {"written"}
  \* an operation fails,
  \/ /\ UNCHANGED <<ready, reason, raced, message>>
     /\ pc[c] \in Trying /\ pc'[c] = "failed" /\ failed[c] = "none" /\ failed'[c] \in Operations
  \/ BeginWrite(c) \/ EndWrite(c) \/ Latch(c) \/ BeginRead(c) \/ EndRead(c)

\* Every step is one of these.
LEMMA FailureSteps ==
  ASSUME ServiceInvariant, NEW c \in Calls, Call(c) \/ Cancel(c)
  PROVE  FailureStep(c)
<1> USE DEF FailureStep, Trying, Recording, GoTo, Loop, Fail, Succeed, GiveUp, GoOn, Elsewhere,
            OnnxElsewhere, rpcVars, shared, TypeOK, ServiceInvariant
<1>1. CASE LocalBackends(c)
  <2>1. CASE SimulatorStart(c) \/ Sleep(c) \/ Wake(c)
    BY <2>1 DEF SimulatorStart, Sleep, Wake
  <2>2. CASE BatchStart(c) \/ NextRequest(c) \/ Prefill(c)
    BY <2>2 DEF BatchStart, NextRequest, Prefill
  <2>3. CASE Prefilled(c) \/ Iterate(c) \/ Generated(c) \/ Posted(c) \/ EndBatch(c)
    BY <2>3 DEF Prefilled, Iterate, Generated, Posted, Push, EndBatch
  <2> QED
    BY <1>1, <2>1, <2>2, <2>3 DEF LocalBackends
<1>2. CASE Delegated(c)
  BY <1>2 DEF Delegated
<1>3. CASE Onnx(c)
  <2>1. CASE OnnxStart(c) \/ NextChunk(c)
    BY <2>1 DEF OnnxStart, NextChunk
  <2>2. CASE CreateTensor(c) \/ RunModel(c) \/ GetTensorMutableData(c)
    <3>1. failed[c] = "none"
      BY <2>2 DEF CreateTensor, RunModel, GetTensorMutableData, CallInvariant
    <3> QED
      BY <2>2, <3>1 DEF CreateTensor, RunModel, GetTensorMutableData, OperationFails, Operations
  <2> QED
    BY <1>3, <2>1, <2>2 DEF Onnx
<1>4. CASE ReplyBatch(c) \/ ReplyStream(c) \/ WriteFails(c)
  <2>1. PICK result, rpcStatus : Reply(c, result, rpcStatus)
    BY <1>4 DEF ReplyBatch, ReplyStream, WriteFails
  <2> QED
    BY <1>4, <2>1 DEF Reply, ReplyBatch, ReplyStream, WriteFails
<1>5. CASE Cancel(c)
  BY <1>5 DEF Cancel, callVars
<1> QED
  BY <1>1, <1>2, <1>3, <1>4, <1>5 DEF Call

\* The reason is never the one of the constructor again once a call has recorded
\* its own; and a call that comes to read it without a failure of its own finds
\* the failure of another one, recorded.
LEMMA ReasonStep ==
  ASSUME ServiceInvariant, ServiceInvariant', ReasonInvariant,
         NEW c \in Calls, Call(c) \/ Cancel(c)
  PROVE  ReasonInvariant'
<1>1. FailureStep(c)
  BY FailureSteps
<1>2. \A d \in Calls : d # c => /\ pc'[d] = pc[d] /\ failed'[d] = failed[d]
                               /\ message'[d] = message[d]
  BY OthersKeep DEF Slots, ServiceInvariant
<1>3. /\ \A d \in Calls : pc[d] \in {"failed", "writing", "written"} => failed[d] # "none"
      /\ \A d \in Calls : failed[d] # "none" => pc[d] \notin Trying \cup {"start"}
      /\ \A d \in Calls : failed[d] \in Operations \cup {"none"}
  BY DEF ServiceInvariant, CallInvariant, TypeOK, Trying
<1>4. \A d \in Calls : failed[d] # "none" => failed'[d] = failed[d]
  BY <1>1, <1>2 DEF FailureStep, BeginWrite, EndWrite, Latch, BeginRead, EndRead
<1>5. /\ Failures \subseteq Failures'
      /\ Cardinality(FailedCalls) > 1 => Cardinality(FailedCalls') > 1
  BY <1>4, FailuresGrow
<1>6. ready' \in BOOLEAN /\ ready \in BOOLEAN /\ (ready' => ready)
  BY <1>1 DEF FailureStep, BeginWrite, EndWrite, Latch, BeginRead, EndRead, ServiceInvariant,
              TypeOK, shared
<1>7. /\ pc[c] = "failed" => pc'[c] \in Recording
      /\ pc'[c] \in Recording => pc[c] \in Trying \cup Recording
      /\ pc'[c] \in Trying => ready \/ pc[c] \in Trying
      /\ pc'[c] = "written" => pc[c] \in {"writing", "written"}
  BY <1>1 DEF FailureStep, BeginWrite, EndWrite, Latch, BeginRead, EndRead, Trying, Recording,
              Fail, GoTo, ServiceInvariant, TypeOK
<1>8. \A d \in Calls : Recorded(d) => Recorded(d)'
  BY <1>2, <1>3, <1>4, <1>7 DEF Recorded, Recording, Trying
<1>9. NeverReady => NeverReady'
  <2> SUFFICES ASSUME NeverReady
               PROVE  NeverReady'
    OBVIOUS
  <2>1. ~ready' /\ failed[c] = "none" /\ pc[c] \notin Trying \cup Recording \cup {"written"}
    BY <1>6 DEF NeverReady, Trying, Recording
  <2>2. failed'[c] = "none"
    BY <1>1, <2>1 DEF FailureStep, BeginWrite, EndWrite, Latch, BeginRead, EndRead
  <2>3. pc'[c] \notin Trying \cup Recording \cup {"written"}
    BY <1>7, <2>1 DEF NeverReady, Recording
  <2> QED
    BY <1>2, <2>1, <2>2, <2>3 DEF NeverReady, Trying, Recording
<1>10. \A d \in Calls : pc'[d] \in {"unavailable", "reading"} /\ failed'[d] = "none" => ~ready'
  <2>1. pc'[c] \in {"unavailable", "reading"} /\ failed'[c] = "none" => ~ready'
    BY <1>1, <1>3, <1>6 DEF ReasonInvariant, FailureStep, BeginWrite, EndWrite, Latch, BeginRead,
         EndRead, Fail, GoTo, ServiceInvariant, TypeOK
  <2> QED
    BY <1>2, <1>6, <2>1 DEF ReasonInvariant
<1>11. ~ready' => NeverReady' \/ \E d \in Calls : Recorded(d)'
  <2>1. CASE ~ready
    BY <1>8, <1>9, <2>1 DEF ReasonInvariant
  <2>2. CASE ready /\ ~ready'
    <3>1. pc[c] = "written"
      BY <1>1, <2>2 DEF FailureStep, BeginWrite, EndWrite, Latch, BeginRead, EndRead, shared
    <3>2. Recorded(c)
      BY <1>3, <3>1 DEF Recorded
    <3> QED
      BY <1>8, <3>2
  <2> QED
    BY <2>1, <2>2
<1>12. reason' = "Initialize" => \A d \in Calls : ~Recorded(d)'
  <2> SUFFICES ASSUME reason' = "Initialize", NEW d \in Calls
               PROVE  ~Recorded(d)'
    OBVIOUS
  <2>1. ~EndWrite(c)
    BY <1>3 DEF EndWrite, Operations
  <2>2. reason = "Initialize" /\ ~Recorded(d)
    BY <1>1, <2>1 DEF FailureStep, BeginWrite, Latch, BeginRead, EndRead, shared,
         ReasonInvariant
  <2>3. pc[c] = "writing" => pc'[c] = "writing"
    BY <1>1, <2>1 DEF FailureStep, BeginWrite, Latch, BeginRead, EndRead, Recording, Trying
  <2>4. ~Recorded(c)'
    BY <1>1, <2>1, <2>2, <2>3, <1>7 DEF FailureStep, BeginWrite, Latch, BeginRead, EndRead,
         Recording, Recorded, ReasonInvariant
  <2> QED
    BY <1>2, <2>2, <2>4 DEF Recorded
<1>13. \A d \in Calls : message'[d] = "Initialize" => NeverReady'
  <2> SUFFICES ASSUME NEW d \in Calls, message'[d] = "Initialize"
               PROVE  NeverReady'
    OBVIOUS
  <2>1. CASE message[d] = "Initialize"
    BY <1>9, <2>1 DEF ReasonInvariant
  <2>2. CASE message[d] # "Initialize"
    <3>1. d = c /\ EndRead(c) /\ reason = "Initialize" /\ pc[c] = "reading"
      BY <1>1, <1>2, <2>2 DEF FailureStep, BeginWrite, EndWrite, Latch, BeginRead, EndRead,
           ServiceInvariant, TypeOK
    <3>2. \A e \in Calls : ~Recorded(e)
      BY <3>1 DEF ReasonInvariant
    <3>3. failed[c] = "none"
      BY <3>1, <3>2 DEF Recorded
    <3>4. NeverReady
      BY <3>1, <3>2, <3>3 DEF ReasonInvariant
    <3> QED
      BY <1>9, <3>4
  <2> QED
    BY <2>1, <2>2
<1>14. raced' \in BOOLEAN /\ raced \in BOOLEAN /\ (raced => raced')
  BY <1>1 DEF FailureStep, BeginWrite, EndWrite, Latch, BeginRead, EndRead, ServiceInvariant,
              TypeOK, shared
<1>15. ~raced' => reason' \in Failures' \cup {"Initialize"}
  <2> SUFFICES ASSUME ~raced'
               PROVE  reason' \in Failures' \cup {"Initialize"}
    OBVIOUS
  <2>1. CASE EndWrite(c)
    <3>1. reason' = failed[c] /\ failed[c] # "none"
      BY <1>3, <1>14, <2>1 DEF EndWrite
    <3> QED
      BY <1>5, <3>1 DEF Failures
  <2>2. CASE ~EndWrite(c)
    BY <1>1, <1>5, <1>14, <2>2 DEF FailureStep, BeginWrite, Latch, BeginRead, EndRead, shared,
         ReasonInvariant
  <2> QED
    BY <2>1, <2>2
<1>16. raced' => Cardinality(FailedCalls') > 1
  <2> SUFFICES ASSUME raced'
               PROVE  Cardinality(FailedCalls') > 1
    OBVIOUS
  <2>1. CASE raced
    BY <1>5, <2>1 DEF ReasonInvariant, ReasonIntact, FailedCalls
  <2>2. CASE ~raced
    <3>1. PICK w \in Calls, r \in Calls : /\ w # r
                                       /\ pc[w] \in Recording
                                       /\ pc[r] \in {"writing", "reading", "unavailable"}
      BY <1>1, <2>2 DEF FailureStep, BeginWrite, EndWrite, Latch, BeginRead, EndRead, Accessing,
           Recording, shared
    <3>2. w \in FailedCalls
      BY <1>3, <3>1 DEF FailedCalls, Recording
    <3>3. PICK e \in FailedCalls : e # w
      <4>1. CASE failed[r] # "none"
        BY <3>1, <4>1 DEF FailedCalls
      <4>2. CASE failed[r] = "none"
        <5>1. ~ready
          BY <1>3, <3>1, <4>2 DEF ReasonInvariant
        <5>2. ~NeverReady
          BY <3>1 DEF NeverReady, Recording
        <5>3. PICK e \in Calls : Recorded(e)
          BY <5>1, <5>2 DEF ReasonInvariant
        <5> QED
          BY <3>1, <5>3 DEF Recorded, Recording, FailedCalls
      <4> QED
        BY <4>1, <4>2
    <3> QED
      BY <1>5, <3>2, <3>3, TwoFailed
  <2> QED
    BY <2>1, <2>2, <1>14
<1>17. ~raced' => \A d \in Calls : message'[d] \in Failures' \cup {"none", "Initialize"}
  <2> SUFFICES ASSUME ~raced', NEW d \in Calls
               PROVE  message'[d] \in Failures' \cup {"none", "Initialize"}
    OBVIOUS
  <2>1. ~raced /\ message[d] \in Failures \cup {"none", "Initialize"}
    BY <1>14 DEF ReasonInvariant, ReasonIntact
  <2>2. message'[d] \in {message[d], reason}
    BY <1>1, <1>2, <2>1 DEF FailureStep, BeginWrite, EndWrite, Latch, BeginRead, EndRead,
         ServiceInvariant, TypeOK
  <2> QED
    BY <1>5, <2>1, <2>2 DEF ReasonInvariant
<1>18. Failures' # {} /\ ~raced' => \A d \in Calls : message'[d] # "Initialize"
  BY <1>13 DEF NeverReady, Failures
<1>19. ReasonIntact'
  BY <1>16, <1>17, <1>18 DEF ReasonIntact, FailedCalls
<1> QED
  BY <1>10, <1>11, <1>12, <1>13, <1>15, <1>19 DEF ReasonInvariant

-----------------------------------------------------------------------------
(* Theorems.                                                               *)

\* The invariant holds in every state.
LEMMA Inductive == Spec => []ServiceInvariant
BY ServiceInit, ServiceStep, PTL DEF Spec

\* Whatever the backend and however calls, failures and cancellations
\* interleave, a call that ends with OK carries the answers to its requests, in
\* their order, and a call that ends otherwise carries none.
THEOREM AnswersMatchRequestsHolds == Spec => []AnswersMatchRequests
<1>1. ServiceInvariant => AnswersMatchRequests
  BY DEF ServiceInvariant, AnswersMatchRequests, CallInvariant
<1> QED
  BY <1>1, Inductive, PTL

\* No call returns with an OrtValue that it has not released.
THEOREM ValuesReleasedHolds == Spec => []ValuesReleased
<1>1. ServiceInvariant => ValuesReleased
  BY DEF ServiceInvariant, ValuesReleased, CallInvariant
<1> QED
  BY <1>1, Inductive, PTL

\* Each call, whatever the others do in the same object, implements
\* BackendContract.
THEOREM CallsKeepContractHolds == Spec => CallsKeepContract
<1>1. Init => \A c \in Calls : Contract(c)!Init
  BY DEF Init, Contract!Init
<1>2. ServiceInvariant /\ [Next]_vars
        => [\A c \in Calls : Contract(c)!Next \/ UNCHANGED Contract(c)!vars]_vars
  BY ServiceStep DEF ContractStep
<1> QED
  BY <1>1, <1>2, Inductive, PTL DEF Spec, CallsKeepContract

\* Two accesses of the unlocked reason overlap only if operations of two calls
\* failed; until then every call that is turned away is told of an operation
\* that did fail, or of the constructor's failure if none was ever tried.
THEOREM ReasonIntactHolds == Spec => []ReasonIntact
<1>1. Init => ReasonInvariant
  <2> SUFFICES ASSUME Init
               PROVE  ReasonInvariant
    OBVIOUS
  <2>1. /\ \A c \in Calls : failed[c] = "none" /\ pc[c] = "start" /\ message[c] = "none"
        /\ reason = "Initialize" /\ ~raced
    BY DEF Init
  <2>2. Failures = {}
    BY <2>1 DEF Failures
  <2> QED
    BY <2>1, <2>2 DEF ReasonInvariant, ReasonIntact, Recorded, NeverReady
<1>2. ServiceInvariant /\ ServiceInvariant' /\ ReasonInvariant /\ [Next]_vars => ReasonInvariant'
  <2> SUFFICES ASSUME ServiceInvariant, ServiceInvariant', ReasonInvariant, [Next]_vars
               PROVE  ReasonInvariant'
    OBVIOUS
  <2>1. CASE \E c \in Calls : Call(c) \/ Cancel(c)
    BY <2>1, ReasonStep
  <2>2. CASE Crash \/ UNCHANGED vars
    <3>1. UNCHANGED <<ready, reason, raced, pc, failed, message>>
      BY <2>2 DEF Crash, vars, shared, callVars
    <3> QED
      BY <3>1 DEF ReasonInvariant, ReasonIntact, Recorded, NeverReady, Failures
  <2> QED
    BY <2>1, <2>2 DEF Next, Idle
<1>3. ReasonInvariant => ReasonIntact
  BY DEF ReasonInvariant
<1> QED
  BY <1>1, <1>2, <1>3, Inductive, PTL DEF Spec

=============================================================================
