-------------------------- MODULE ContinuousBatcher --------------------------
(***************************************************************************)
(* ContinuousTinyLLMBackend::ProcessBatch (backend/inference_backend.cc)   *)
(* and the token-step scheduler it runs, ContinuousBatcher::Run            *)
(* (backend/scheduling/continuous_batcher.cc), over the KV-cache allocator *)
(* of KvCache.  One thread executes it; what it does not control is the    *)
(* moment at which the RPC is cancelled.                                   *)
(*                                                                         *)
(* A loop over sequences takes one iteration per step: todo is what is     *)
(* left of it.  The loops over prefill and decode candidates take them in  *)
(* the order of their priority, the others in the order of the requests.   *)
(***************************************************************************)
EXTENDS KvCache

CONSTANTS
  Indices,           \* the positions of the requests in the batch
  Workloads,         \* the batches: functions from Indices to requests
  MaxPrefill,        \* config_.max_prefill_tokens_per_step
  MaxDecode          \* config_.max_decode_sequences_per_step

\* A SequenceRequest: its token counts are not negative after the
\* normalisation at the start of Run.
Request ==
  [id : Sequences, promptTokens : Nat, maxGenerated : Nat, priority : Int,
   key : Keys \cup {NoKey}, prefixTokens : Int]

\* The tokens of a request's prompt that its prefix-cache key stands for.
CacheableOf(r) == Cacheable(r.promptTokens, r.key, r.prefixTokens)

\* The backend makes a key from the first prefix_cache_tokens_ tokens of a prompt
\* that has as many, so that a key always stands for the same number of tokens.
ASSUME SchedulerAssumption ==
  /\ IsFiniteSet(Indices) /\ Indices \subseteq Nat
  /\ Workloads \subseteq [Indices -> Request]
  /\ \A w \in Workloads : \A i, j \in Indices :
       w[i].key = w[j].key => CacheableOf(w[i]) = CacheableOf(w[j])
  /\ MaxPrefill \in Nat \ {0}
  /\ MaxDecode \in Nat \ {0}

VARIABLES
  request,           \* the batch
  cancelled,         \* is_cancelled()
  pc,                \* control point of the worker thread
  \* --- State of each sequence
  remaining,         \* prefill_remaining
  generated,
  allocated,         \* prompt_allocated
  ready,             \* prompt_ready
  done,
  \* --- SequenceResult of each sequence
  status,            \* "queued" until the result is written
  firstToken,        \* first_token_step
  \* --- the scheduler step
  stepIndex,
  todo,              \* candidates the current loop has not reached
  budget,            \* prefill_budget
  kv,                \* the allocator
  outcome            \* the code of the BackendResult

stateVars == <<remaining, generated, allocated, ready, done>>
resultVars == <<status, firstToken>>
stepVars == <<stepIndex, todo, budget>>
vars == <<request, cancelled, pc, stateVars, resultVars, stepVars, kv, outcome>>

-----------------------------------------------------------------------------
\* by_priority
Before(i, j) ==
  \/ request[i].priority > request[j].priority
  \/ request[i].priority = request[j].priority /\ i < j

Unfinished == {i \in Indices : ~done[i]}

\* The loop takes i next: one over sorted candidates, or one over all sequences.
NextByPriority(i) == i \in todo /\ \A j \in todo \ {i} : Before(i, j)
NextByIndex(i) == i \in todo /\ \A j \in todo : i <= j

\* Seeded fault: the decode slots go to the sequences that arrived first.
Foremost_fifo(S, n) == {i \in S : Cardinality({j \in S : j < i}) < n}

\* The first n candidates.
Foremost(S, n) == {i \in S : Cardinality({j \in S : Before(j, i)}) < n}

\* Control moves on, leaving the sequences and the allocator alone.
GoTo(label) ==
  /\ pc' = label
  /\ UNCHANGED <<request, cancelled, stateVars, resultVars, kv>>

\* A sequence leaves with the given result and allocator.
Settle(i, result, cache) ==
  /\ status' = [status EXCEPT ![i] = result]
  /\ done' = [done EXCEPT ![i] = TRUE]
  /\ kv' = cache

\* This is all that an iteration of a loop does.
Leave(i, result, cache) ==
  /\ Settle(i, result, cache)
  /\ todo' = todo \ {i}
  /\ UNCHANGED <<request, cancelled, pc, remaining, generated, allocated, ready,
                 firstToken, stepIndex, budget, outcome>>

-----------------------------------------------------------------------------
(* ContinuousBatcher::Run.                                                 *)

\* ProcessBatch gives up at once, or starts the scheduler.
Start ==
  /\ pc = "start"
  /\ IF cancelled THEN GoTo("end") /\ outcome' = "cancelled"
                  ELSE GoTo("step") /\ UNCHANGED outcome
  /\ UNCHANGED stepVars

\* A step begins: the prompts that are not ready are its prefill candidates.
BeginStep ==
  /\ pc = "step"
  /\ Unfinished # {}
  /\ ~cancelled
  /\ todo' = {i \in Unfinished : ~ready[i]}
  /\ budget' = MaxPrefill
  /\ GoTo("prefill")
  /\ UNCHANGED <<stepIndex, outcome>>

\* is_cancelled() at the start of a step: all unfinished sequences go.
BeginCancel ==
  /\ pc = "step"
  /\ Unfinished # {}
  /\ cancelled
  /\ todo' = Unfinished
  /\ GoTo("cancel")
  /\ UNCHANGED <<stepIndex, budget, outcome>>

\* Seeded fault: a cancelled sequence keeps its blocks.
Cancel_leak(i) ==
  /\ pc = "cancel"
  /\ NextByIndex(i)
  /\ Leave(i, "cancelled", kv)

Cancel(i) ==
  /\ pc = "cancel"
  /\ NextByIndex(i)
  /\ Leave(i, "cancelled", ReleaseSequence(kv, request[i].id))

\* Run returns.
EndRun ==
  /\ \/ pc = "step" /\ Unfinished = {}
     \/ pc = "cancel" /\ todo = {}
  /\ GoTo("finished")
  /\ UNCHANGED <<stepVars, outcome>>

PromptAllocation(i) ==
  AllocatePrompt(kv, request[i].id, request[i].promptTokens, request[i].key,
                 request[i].prefixTokens)

\* The prompt does not fit (or its id is taken): the sequence is rejected.
RejectPrompt(i) ==
  /\ pc = "prefill" /\ budget > 0
  /\ NextByPriority(i)
  /\ ~allocated[i]
  /\ PromptAllocation(i).reply \notin {"ok", "hit"}
  /\ Leave(i, "rejected", PromptAllocation(i).kv)

\* The prompt is allocated once and consumes what the budget allows.
Prefill(i) ==
  /\ pc = "prefill" /\ budget > 0
  /\ NextByPriority(i)
  /\ \/ allocated[i] /\ kv' = kv
     \/ /\ ~allocated[i]
        /\ PromptAllocation(i).reply \in {"ok", "hit"}
        /\ kv' = PromptAllocation(i).kv
  /\ allocated' = [allocated EXCEPT ![i] = TRUE]
  /\ LET consumed == MinOf(budget, remaining[i]) IN
     /\ remaining' = [remaining EXCEPT ![i] = @ - consumed]
     /\ ready' = [ready EXCEPT ![i] = (remaining[i] = consumed)]
     /\ budget' = budget - consumed
  /\ todo' = todo \ {i}
  /\ UNCHANGED <<request, cancelled, pc, generated, done, resultVars, stepIndex,
                 outcome>>

DecodeCandidates ==
  {i \in Unfinished : ready[i] /\ generated[i] < request[i].maxGenerated}

\* Prefill ends; the foremost ready sequences are decoded.
BeginDecode ==
  /\ pc = "prefill"
  /\ todo = {} \/ budget <= 0
  /\ todo' = Foremost(DecodeCandidates, MaxDecode)
  /\ GoTo("decode")
  /\ UNCHANGED <<stepIndex, budget, outcome>>

TokenAllocation(i) == AppendTokens(kv, request[i].id, 1)

\* Seeded fault: a sequence whose token does not fit is left for a step that
\* begins at once, in the hope that somebody gives back a block.
RejectToken_retry(i) ==
  /\ pc = "decode"
  /\ NextByPriority(i)
  /\ TokenAllocation(i).reply # "ok"
  /\ GoTo("step")
  /\ UNCHANGED <<stepIndex, todo, budget, outcome>>

\* The token does not fit: the sequence is rejected and gives back its blocks.
RejectToken(i) ==
  /\ pc = "decode"
  /\ NextByPriority(i)
  /\ TokenAllocation(i).reply # "ok"
  /\ Leave(i, "rejected", ReleaseSequence(TokenAllocation(i).kv, request[i].id))

\* One token is decoded; the last one completes the sequence.
Decode(i) ==
  /\ pc = "decode"
  /\ NextByPriority(i)
  /\ TokenAllocation(i).reply = "ok"
  /\ generated' = [generated EXCEPT ![i] = @ + 1]
  /\ firstToken' = [firstToken EXCEPT ![i] = IF @ < 0 THEN stepIndex ELSE @]
  /\ IF generated[i] + 1 = request[i].maxGenerated
     THEN Settle(i, "completed", ReleaseSequence(TokenAllocation(i).kv, request[i].id))
     ELSE kv' = TokenAllocation(i).kv /\ UNCHANGED <<status, done>>
  /\ todo' = todo \ {i}
  /\ UNCHANGED <<request, cancelled, pc, remaining, allocated, ready, stepIndex, budget,
                 outcome>>

\* Ready sequences that have nothing to generate complete as they are.
BeginComplete ==
  /\ pc = "decode"
  /\ todo = {}
  /\ todo' = {i \in Unfinished : ready[i] /\ request[i].maxGenerated = 0}
  /\ GoTo("complete")
  /\ UNCHANGED <<stepIndex, budget, outcome>>

Complete(i) ==
  /\ pc = "complete"
  /\ NextByIndex(i)
  /\ Leave(i, "completed", ReleaseSequence(kv, request[i].id))

\* The step is recorded.
EndStep ==
  /\ pc = "complete"
  /\ todo = {}
  /\ stepIndex' = stepIndex + 1
  /\ GoTo("step")
  /\ UNCHANGED <<todo, budget, outcome>>

-----------------------------------------------------------------------------
(* ContinuousTinyLLMBackend::ProcessBatch, after Run.                      *)

\* A cancelled sequence cancels the batch.
ReportCancelled ==
  /\ pc = "finished"
  /\ \E i \in Indices : status[i] = "cancelled"
  /\ outcome' = "cancelled"
  /\ GoTo("end")
  /\ UNCHANGED stepVars

\* Otherwise the texts are generated in the order of the requests ...
BeginTexts ==
  /\ pc = "finished"
  /\ \A i \in Indices : status[i] # "cancelled"
  /\ todo' = Indices
  /\ GoTo("texts")
  /\ UNCHANGED <<stepIndex, budget, outcome>>

\* Seeded fault: a text is generated for a rejected sequence as well.
GenerateText_anyway(i) ==
  /\ pc = "texts"
  /\ NextByIndex(i)
  /\ todo' = todo \ {i}
  /\ \/ /\ cancelled
        /\ outcome' = "cancelled"
        /\ GoTo("end")
     \/ /\ ~cancelled
        /\ GoTo("texts")
        /\ UNCHANGED outcome
  /\ UNCHANGED <<stepIndex, budget>>

\* ... until a rejected sequence fails the batch, or the RPC is cancelled.
GenerateText(i) ==
  /\ pc = "texts"
  /\ NextByIndex(i)
  /\ todo' = todo \ {i}
  /\ \/ /\ status[i] = "rejected"
        /\ outcome' = "unavailable"
        /\ GoTo("end")
     \/ /\ status[i] # "rejected" /\ cancelled
        /\ outcome' = "cancelled"
        /\ GoTo("end")
     \/ /\ status[i] # "rejected" /\ ~cancelled
        /\ GoTo("texts")
        /\ UNCHANGED outcome
  /\ UNCHANGED <<stepIndex, budget>>

ReportOk ==
  /\ pc = "texts"
  /\ todo = {}
  /\ outcome' = "ok"
  /\ GoTo("end")
  /\ UNCHANGED stepVars

\* Environment: the RPC's client goes away or its deadline passes.
RpcCancelled ==
  /\ pc # "end"
  /\ ~cancelled
  /\ cancelled' = TRUE
  /\ UNCHANGED <<request, pc, stateVars, resultVars, stepVars, kv, outcome>>

-----------------------------------------------------------------------------
Init ==
  /\ request \in Workloads
  /\ cancelled = FALSE
  /\ pc = "start"
  /\ remaining = [i \in Indices |-> request[i].promptTokens]
  /\ generated = [i \in Indices |-> 0]
  /\ allocated = [i \in Indices |-> FALSE]
  /\ ready = [i \in Indices |-> FALSE]
  /\ done = [i \in Indices |-> FALSE]
  /\ status = [i \in Indices |-> "queued"]
  /\ firstToken = [i \in Indices |-> -1]
  /\ stepIndex = 0 /\ todo = {} /\ budget = 0
  /\ kv = EmptyCache
  /\ outcome = "none"

Thread ==
  \/ Start \/ BeginStep \/ BeginCancel \/ EndRun
  \/ BeginDecode \/ BeginComplete \/ EndStep
  \/ ReportCancelled \/ BeginTexts \/ ReportOk
  \/ \E i \in Indices :
       \/ Cancel(i) \/ RejectPrompt(i) \/ Prefill(i)
       \/ RejectToken(i) \/ Decode(i) \/ Complete(i)
       \/ GenerateText(i)

\* ProcessBatch has returned: nothing happens any more.
Returned == pc = "end" /\ UNCHANGED vars

Next == Thread \/ RpcCancelled \/ Returned

Spec == Init /\ [][Next]_vars

\* The worker thread runs as long as it has not returned; nobody needs to
\* cancel.  This is weak fairness of Thread, written out: Thread is enabled
\* exactly until pc is "end", because the specification has no deadlock.
Fairness == []<>(pc = "end") \/ []<><<Thread>>_vars

FairSpec == Spec /\ Fairness

-----------------------------------------------------------------------------
TypeOK ==
  /\ request \in [Indices -> Request]
  /\ cancelled \in BOOLEAN
  /\ pc \in {"start", "step", "cancel", "prefill", "decode", "complete", "finished",
             "texts", "end"}
  /\ remaining \in [Indices -> Nat]
  /\ generated \in [Indices -> Nat]
  /\ allocated \in [Indices -> BOOLEAN]
  /\ ready \in [Indices -> BOOLEAN]
  /\ done \in [Indices -> BOOLEAN]
  /\ status \in [Indices -> {"queued", "completed", "rejected", "cancelled"}]
  /\ firstToken \in [Indices -> Int]
  /\ stepIndex \in Nat
  /\ todo \subseteq Indices
  /\ budget \in 0..MaxPrefill
  /\ kv \in Cache
  /\ outcome \in {"none", "ok", "cancelled", "unavailable"}

-----------------------------------------------------------------------------
(* Memory.                                                                 *)

Running == {i \in Indices : allocated[i] /\ ~done[i]}
IdsOf(S) == {request[i].id : i \in S}

\* While the sequences are cancelled one by one, one that never got its prompt
\* may release the blocks of a running one with the same id before it is that
\* one's turn.
HeldByRunningSequences ==
  /\ kv.live \subseteq IdsOf(Running)
  /\ pc # "cancel" => kv.live = IdsOf(Running)

EndsWithPrefixesOnly ==
  pc \in {"finished", "texts", "end"} =>
    /\ kv.live = {}
    /\ kv.occupied = EntryBlocks(kv, kv.cached)
    /\ \A k \in kv.cached : Idle(kv, k)

\* The allocator holds blocks for exactly the sequences that have their prompt
\* allocated and are not done, over every way a sequence can leave: completed,
\* rejected at its prompt or in the middle of decoding, cancelled; a duplicate
\* id neither adds a holder nor takes one away, but when everything is cancelled.
\* And Run leaves nothing in the cache but prefixes that can be evicted.
MemoryAccounted == TypeOK /\ HeldByRunningSequences /\ EndsWithPrefixesOnly

\* The blocks sequence i asks for when it is turned away.
Needed(i) ==
  LET r == request[i]
      cacheable == CacheableOf(r)
  IN IF allocated[i] THEN 1
     ELSE BlocksFor(cacheable) + BlocksFor(r.promptTokens - cacheable)

\* A sequence with an id of its own is rejected only if the blocks it asks for
\* do not fit beside those the running sequences hold: prefixes left behind by
\* finished sequences are never in the way.
RejectedOnlyUnderPressure ==
  [][\A i \in Indices :
       /\ status'[i] = "rejected" /\ status[i] # "rejected"
       /\ request[i].id # EmptyId
       /\ allocated[i] \/ request[i].id \notin kv.live
       => Cardinality(Held(kv)) + Needed(i) > TotalBlocks]_vars

-----------------------------------------------------------------------------
(* Order.                                                                  *)

PromptsInPriorityOrder ==
  \A i, j \in Indices :
    Before(i, j) /\ allocated[j] => allocated[i] \/ done[i]

FirstTokensInPriorityOrder ==
  \A i, j \in Indices :
    Before(i, j) /\ firstToken[j] >= 0 /\ request[i].maxGenerated > 0
      => \/ status[i] = "rejected"
         \/ firstToken[i] \in 0..firstToken[j]

\* A prompt gets memory only after every prompt of higher priority has been
\* given memory or has left; and of two sequences that generate, the one of
\* higher priority has its first token no later, although prompts are prefilled
\* in chunks and a step decodes only some of the sequences that are ready.
PriorityRespected == PromptsInPriorityOrder /\ FirstTokensInPriorityOrder

-----------------------------------------------------------------------------
(* Results.                                                                *)

\* The texts generated so far for sequences that ran to their end.
Outputs ==
  IF pc = "texts" \/ outcome = "ok"
  THEN Cardinality({i \in Indices \ todo :
         status[i] = "completed" /\ generated[i] = request[i].maxGenerated})
  ELSE 0

Contract == INSTANCE BackendContract
  WITH Batch <- Cardinality(Indices), code <- outcome, outputs <- Outputs

\* ProcessBatch keeps the contract of the virtual function: the batch is
\* answered only if every sequence completed with all of its tokens; one that
\* was rejected, before or during decoding, fails the whole batch, and the
\* batch is called cancelled only if the RPC was.
ImplementsContract == Contract!Spec

\* Run comes to an end, and ProcessBatch returns.
Returns == <>(pc = "end" /\ outcome # "none")

=============================================================================
