---------------------------- MODULE WorkerConfig -----------------------------
(***************************************************************************)
(* The worker's configuration: what BackendConfigFromEnv makes of the      *)
(* environment, what main prints of it, and what the constructors of the   *)
(* backends make of it again (backend/inference_backend.cc,                *)
(* backend/main.cc).  Numbers only: paths, URLs and flags are handed       *)
(* through.  Temperatures are in hundredths.                               *)
(***************************************************************************)
EXTENDS Integers

\* BackendKind
Kinds == {"simulator", "tiny_text_model", "tiny_llm", "continuous_tiny_llm", "onnx",
          "llama_cpp", "llama_server"}

\* The value of an environment variable: absent or empty, text that is not a
\* (finite) number, or a number.
Unset == [given |-> FALSE, wellFormed |-> FALSE, value |-> 0]
Malformed == [given |-> TRUE, wellFormed |-> FALSE, value |-> 0]
Number(n) == [given |-> TRUE, wellFormed |-> TRUE, value |-> n]

\* std::clamp
Clamp(n, range) ==
  IF n < range[1] THEN range[1] ELSE IF n > range[2] THEN range[2] ELSE n

\* EnvInt, EnvFloat
EnvInt(raw, fallback, range) ==
  IF raw.given /\ raw.wellFormed THEN Clamp(raw.value, range) ELSE fallback

\* The fields of a default BackendConfig.
BackendConfig ==
  [simulator_base_latency_ms |-> 20,
   simulator_per_request_latency_ms |-> 5,
   tiny_model_iterations |-> 8,
   tiny_llm_max_generated_tokens |-> 12,
   tiny_llm_top_k |-> 5,
   tiny_llm_temperature |-> 80,
   continuous_max_prefill_tokens_per_step |-> 32,
   continuous_max_decode_sequences_per_step |-> 8,
   continuous_kv_cache_blocks |-> 512,
   continuous_kv_block_tokens |-> 16,
   continuous_prefix_cache_tokens |-> 2,
   llama_cpp_max_tokens |-> 64,
   llama_cpp_context_size |-> 2048,
   llama_cpp_threads |-> 0,
   llama_cpp_temperature |-> 70,
   llama_cpp_timeout_ms |-> 120000,
   llama_server_max_tokens |-> 64,
   llama_server_temperature |-> 70,
   llama_server_timeout_ms |-> 120000]

\* The bounds BackendConfigFromEnv gives to EnvInt and EnvFloat.
EnvBounds ==
  [simulator_base_latency_ms |-> <<0, 60000>>,
   simulator_per_request_latency_ms |-> <<0, 60000>>,
   tiny_model_iterations |-> <<1, 1024>>,
   tiny_llm_max_generated_tokens |-> <<1, 64>>,
   tiny_llm_top_k |-> <<1, 62>>,
   tiny_llm_temperature |-> <<5, 200>>,
   continuous_max_prefill_tokens_per_step |-> <<1, 1048576>>,
   continuous_max_decode_sequences_per_step |-> <<1, 1048576>>,
   continuous_kv_cache_blocks |-> <<1, 1048576>>,
   continuous_kv_block_tokens |-> <<1, 1048576>>,
   continuous_prefix_cache_tokens |-> <<0, 1024>>,
   llama_cpp_max_tokens |-> <<1, 4096>>,
   llama_cpp_context_size |-> <<128, 262144>>,
   llama_cpp_threads |-> <<0, 1024>>,
   llama_cpp_temperature |-> <<0, 200>>,
   llama_cpp_timeout_ms |-> <<100, 600000>>,
   llama_server_max_tokens |-> <<1, 4096>>,
   llama_server_temperature |-> <<0, 200>>,
   llama_server_timeout_ms |-> <<100, 600000>>]

\* BackendConfigFromEnv, when every variable has the given value.
BackendConfigFromEnv(raw) ==
  [f \in DOMAIN BackendConfig |-> EnvInt(raw, BackendConfig[f], EnvBounds[f])]

-----------------------------------------------------------------------------
(* The constructors: the bounds each clamps its arguments to.              *)

SimulatorBackend ==
  [simulator_base_latency_ms |-> <<0, 2147483647>>,
   simulator_per_request_latency_ms |-> <<0, 2147483647>>]

\* Seeded fault: a limit of the environment was raised and the constructor's
\* was forgotten.
TinyTextModelBackend_lower == [tiny_model_iterations |-> <<1, 512>>]

TinyTextModelBackend == [tiny_model_iterations |-> <<1, 1024>>]

TinyLLMBackend ==
  [tiny_llm_max_generated_tokens |-> <<1, 64>>,
   tiny_llm_temperature |-> <<5, 200>>,
   tiny_llm_top_k |-> <<1, 62>>]

ContinuousTinyLLMBackend ==
  [tiny_llm_max_generated_tokens |-> <<1, 64>>,
   tiny_llm_temperature |-> <<5, 200>>,
   tiny_llm_top_k |-> <<1, 62>>,
   continuous_max_prefill_tokens_per_step |-> <<1, 1048576>>,
   continuous_max_decode_sequences_per_step |-> <<1, 1048576>>,
   continuous_kv_cache_blocks |-> <<1, 1048576>>,
   continuous_kv_block_tokens |-> <<1, 1048576>>,
   continuous_prefix_cache_tokens |-> <<0, 1024>>]

LlamaCppBackend ==
  [llama_cpp_max_tokens |-> <<1, 4096>>,
   llama_cpp_context_size |-> <<128, 262144>>,
   llama_cpp_threads |-> <<0, 1024>>,
   llama_cpp_temperature |-> <<0, 200>>,
   llama_cpp_timeout_ms |-> <<100, 600000>>]

LlamaServerBackend ==
  [llama_server_max_tokens |-> <<1, 4096>>,
   llama_server_temperature |-> <<0, 200>>,
   llama_server_timeout_ms |-> <<100, 600000>>]

\* The constructor CreateBackend calls; onnx takes no numbers.
CreateBackend(kind) ==
  CASE kind = "llama_server" -> LlamaServerBackend
    [] kind = "llama_cpp" -> LlamaCppBackend
    [] kind = "onnx" -> << >>
    [] kind = "continuous_tiny_llm" -> ContinuousTinyLLMBackend
    [] kind = "tiny_llm" -> TinyLLMBackend
    [] kind = "tiny_text_model" -> TinyTextModelBackend
    [] OTHER -> SimulatorBackend

\* The members of the backend that the constructor leaves.
Members(kind, config) ==
  [f \in DOMAIN CreateBackend(kind) |-> Clamp(config[f], CreateBackend(kind)[f])]

\* The numbers that main prints before it serves: the sampling parameters of
\* the continuous backend are left out.
Banner(kind) ==
  DOMAIN CreateBackend(kind) \
    (IF kind = "continuous_tiny_llm" THEN {"tiny_llm_temperature", "tiny_llm_top_k"} ELSE {})

=============================================================================
