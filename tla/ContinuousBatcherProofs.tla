----------------------- MODULE ContinuousBatcherProofs -----------------------
(***************************************************************************)
(* Theorems about ContinuousBatcher, for every batch, every size of the    *)
(* cache and every limit on a step.  What the allocator does is taken from *)
(* the lemmas of KvBlockAllocatorProofs about the operations of KvCache;   *)
(* the specification of that module is not used.                           *)
(***************************************************************************)
EXTENDS ContinuousBatcher, KvBlockAllocatorProofs

-----------------------------------------------------------------------------
(* The inductive invariant.                                                *)

\* The allocator's bookkeeping is right, it loses sight of no block, and an
\* entry has the length that every request with its key asks for.
Sound(c) ==
  /\ Accounted(c)
  /\ Tracked(c)
  /\ \A k \in c.cached, i \in Indices :
       request[i].key = k => c.entryTokens[k] = CacheableOf(request[i])

CacheInvariant == request \in Workloads /\ Sound(kv)

\* A sequence holds blocks under an id that no other running sequence has.
HolderInvariant ==
  /\ HeldByRunningSequences
  /\ \A i, j \in Running : request[i].id = request[j].id => i = j

\* The state of a sequence and its result tell the same story.
ResultInvariant ==
  \A i \in Indices :
    /\ done[i] <=> status[i] # "queued"
    /\ ready[i] => allocated[i]
    /\ generated[i] <= request[i].maxGenerated
    /\ status[i] = "completed" => generated[i] = request[i].maxGenerated
    /\ firstToken[i] >= 0 <=> generated[i] > 0
    /\ firstToken[i] <= stepIndex

\* What each control point knows about the sequences and about todo.
ControlInvariant ==
  /\ pc = "start" => \A i \in Indices : ~allocated[i] /\ ~done[i]
  /\ pc = "end" <=> outcome # "none"
  /\ pc = "cancel" => cancelled /\ todo = Unfinished
  /\ pc \in {"finished", "texts"} => Unfinished = {}
  /\ pc = "end" => Running = {}
  /\ pc = "prefill" => \A i \in todo : ~done[i] /\ ~ready[i]
  /\ pc = "decode" => todo \subseteq DecodeCandidates
  /\ pc = "complete" => \A i \in todo : ~done[i] /\ ready[i] /\ request[i].maxGenerated = 0
  /\ pc = "texts" => \A i \in Indices \ todo : status[i] = "completed"
  /\ \A i \in Indices :
       status[i] = "cancelled" => cancelled /\ pc \in {"cancel", "finished", "end"}

\* Memory and decode slots are given out in the order of the priorities: below
\* a prompt that is not ready nothing is allocated, and a step that has not used
\* up its prefill budget has left no such prompt behind; of the sequences that
\* can decode, a step leaves out those behind all that it takes.
OrderInvariant ==
  /\ \A i, j \in Indices : Before(i, j) /\ allocated[j] => ready[i] \/ done[i]
  /\ pc = "prefill" /\ budget > 0 => \A i \in Indices \ todo : ready[i] \/ done[i]
  /\ pc = "decode" => \A i \in DecodeCandidates \ todo, j \in todo :
                        Before(i, j) => generated[i] > 0
  /\ FirstTokensInPriorityOrder

Inv ==
  /\ TypeOK /\ CacheInvariant /\ HolderInvariant
  /\ ResultInvariant /\ ControlInvariant /\ OrderInvariant

-----------------------------------------------------------------------------
(* Requests and their order.                                               *)

\* The fields of a request, and the tokens that its key stands for.
LEMMA RequestIs ==
  ASSUME request \in Workloads, NEW i \in Indices
  PROVE  /\ request[i].id \in Sequences
         /\ request[i].promptTokens \in Nat
         /\ request[i].maxGenerated \in Nat
         /\ request[i].priority \in Int
         /\ request[i].key \in Keys \cup {NoKey}
         /\ request[i].prefixTokens \in Int
         /\ CacheableOf(request[i]) \in 0..request[i].promptTokens
<1>1. request[i] \in Request
  BY SchedulerAssumption
<1>2. /\ request[i].id \in Sequences
      /\ request[i].promptTokens \in Nat
      /\ request[i].maxGenerated \in Nat
      /\ request[i].priority \in Int
      /\ request[i].key \in Keys \cup {NoKey}
      /\ request[i].prefixTokens \in Int
  BY <1>1 DEF Request
<1>3. CacheableOf(request[i]) \in 0..request[i].promptTokens
  BY <1>2, CacheableIs DEF CacheableOf
<1> QED
  BY <1>2, <1>3

\* by_priority is a strict order.
LEMMA BeforeIs ==
  ASSUME request \in Workloads
  PROVE  /\ \A i, j \in Indices : Before(i, j) => ~Before(j, i)
         /\ \A i, j, k \in Indices : Before(i, j) /\ Before(j, k) => Before(i, k)
<1>1. \A i \in Indices : i \in Nat /\ request[i].priority \in Int
  BY SchedulerAssumption, RequestIs
<1> QED
  BY <1>1 DEF Before

\* A sequence that comes before one of the foremost n is one of them.
LEMMA ForemostIs ==
  ASSUME request \in Workloads, NEW S \in SUBSET Indices, NEW n \in Nat,
         NEW i \in S, NEW j \in Foremost(S, n), Before(i, j)
  PROVE  i \in Foremost(S, n)
<1> DEFINE A == {k \in S : Before(k, i)}
           B == {k \in S : Before(k, j)}
<1>1. j \in S /\ Cardinality(B) < n
  BY DEF Foremost
<1>2. A \subseteq B
  BY <1>1, BeforeIs
<1>3. IsFiniteSet(B)
  BY SchedulerAssumption, FS_Subset
<1>4. IsFiniteSet(A) /\ Cardinality(A) <= Cardinality(B)
  BY <1>2, <1>3, FS_Subset
<1>5. Cardinality(A) \in Nat /\ Cardinality(B) \in Nat
  BY <1>3, <1>4, FS_CardinalityType
<1>6. Cardinality(A) < n
  BY <1>1, <1>4, <1>5
<1> QED
  BY <1>6 DEF Foremost

-----------------------------------------------------------------------------
(* The calls of the scheduler to the allocator.                            *)

\* ReleaseSequence.
LEMMA ReleaseIs ==
  ASSUME request \in Workloads, NEW c, Sound(c), NEW i \in Indices
  PROVE  /\ Sound(ReleaseSequence(c, request[i].id))
         /\ ReleaseSequence(c, request[i].id).live = c.live \ {request[i].id}
<1> DEFINE d == ReleaseSequence(c, request[i].id)
<1>1. request[i].id \in Sequences
  BY RequestIs
<1>2. /\ Accounted(d) /\ d.live = c.live \ {request[i].id} /\ OlderEntries(c, d)
      /\ Tracked(c) => Tracked(d)
  BY <1>1, ReleaseSequenceIs DEF Sound
<1> HIDE DEF d
<1>3. Sound(d)
  BY <1>2 DEF Sound, OlderEntries
<1> QED
  BY <1>2, <1>3 DEF d

\* The blocks that no sequence holds are all free or can be evicted.
LEMMA Pressure ==
  ASSUME NEW c, Accounted(c), NEW d, Accounted(d), Tracked(d),
         NEW need \in Nat, Refusal(c, d, need)
  PROVE  Cardinality(Held(c)) \in Nat /\ Cardinality(Held(c)) + need > TotalBlocks
<1>1. d \in Cache /\ Held(d) \in SUBSET Blocks
  BY AccountedIs DEF Consistent
<1>2. Held(c) = Held(d)
  BY DEF Refusal, SameSequences, Held
<1>3. /\ d.occupied \in SUBSET Blocks /\ d.cached \in SUBSET Keys
      /\ d.entryBlocks \in [Keys -> SUBSET Blocks]
  BY <1>1, CacheFields
<1>4. Reclaimable(d) \in SUBSET Blocks
  BY <1>3 DEF Reclaimable, FreeBlocks, EntryBlocks
<1>5. Blocks = Held(d) \cup Reclaimable(d)
  <2>1. ASSUME NEW b \in Blocks, b \notin Held(d), b \in d.occupied
        PROVE  b \in EntryBlocks(d, d.cached)
    BY <2>1 DEF Tracked, TrackedIn, EntryBlocks
  <2>2. Blocks \subseteq Held(d) \cup Reclaimable(d)
    BY <2>1 DEF Reclaimable, FreeBlocks
  <2> QED
    BY <1>1, <1>4, <2>2
<1>6. /\ Cardinality(Held(d)) \in Nat /\ Cardinality(Reclaimable(d)) \in Nat
      /\ Cardinality(Blocks) <= Cardinality(Held(d)) + Cardinality(Reclaimable(d))
  BY <1>1, <1>4, <1>5, BlocksFinite, BlocksUnion
<1>7. Cardinality(Blocks) = TotalBlocks
  <2>1. 1 \in Int /\ TotalBlocks \in Int /\ TotalBlocks \in Nat
    BY KvAssumption
  <2>2. Cardinality(1..TotalBlocks) = IF 1 > TotalBlocks THEN 0 ELSE TotalBlocks - 1 + 1
    BY <2>1, FS_Interval
  <2> QED
    BY <2>1, <2>2, KvAssumption DEF Blocks
<1>8. Cardinality(Reclaimable(d)) < need
  BY DEF Refusal
<1> QED
  BY <1>2, <1>6, <1>7, <1>8, KvAssumption

\* AllocatePrompt for sequence i, whose id must not be in use.
PromptPromise(i, out) ==
  /\ Sound(out.kv)
  /\ out.reply \in {"ok", "hit"} => /\ request[i].id \notin kv.live
                                    /\ out.kv.live = kv.live \cup {request[i].id}
  /\ out.reply \notin {"ok", "hit"} => out.kv.live = kv.live
  /\ out.reply \notin {"ok", "hit"} /\ request[i].id # EmptyId /\ request[i].id \notin kv.live
       => Refusal(kv, out.kv, PromptNeed(kv, request[i].promptTokens, request[i].key,
                                         request[i].prefixTokens))

\* The prompt of i gets its blocks, or nothing changes for the sequences.
LEMMA PromptAllocationIs ==
  ASSUME CacheInvariant, NEW i \in Indices
  PROVE  PromptPromise(i, PromptAllocation(i))
<1> DEFINE r == request[i]
           out == PromptAllocation(i)
           need == PromptNeed(kv, r.promptTokens, r.key, r.prefixTokens)
<1>1. /\ r.id \in Sequences /\ r.promptTokens \in Nat /\ r.promptTokens \in Int
      /\ r.key \in Keys \cup {NoKey} /\ r.prefixTokens \in Int
  BY RequestIs DEF CacheInvariant
<1>2. /\ Accounted(kv) /\ Tracked(kv)
      /\ \A k \in kv.cached, j \in Indices :
           request[j].key = k => kv.entryTokens[k] = CacheableOf(request[j])
  BY DEF CacheInvariant, Sound
<1>3. Cacheable(MaxOf(0, r.promptTokens), r.key, r.prefixTokens) = CacheableOf(r)
  BY <1>1 DEF MaxOf, CacheableOf
<1>4. /\ Accounted(out.kv)
      /\ out.reply \in {"required", "exists", "hit", "ok", "exhausted"}
      /\ out.reply \in {"required", "exists"} => out.kv = kv
      /\ out.reply = "exhausted" => Refusal(kv, out.kv, need)
      /\ out.reply \in {"ok", "hit"} => r.id \notin kv.live /\ out.kv.live = kv.live \cup {r.id}
      /\ NewEntry(kv, out.kv, r.key, CacheableOf(r))
      /\ Tracked(kv) /\ (r.key \in kv.cached => kv.entryTokens[r.key] = CacheableOf(r))
           => Tracked(out.kv)
  <2> DEFINE cacheable == Cacheable(MaxOf(0, r.promptTokens), r.key, r.prefixTokens)
  <2>1. /\ Accounted(out.kv)
        /\ out.reply \in {"required", "exists", "hit", "ok", "exhausted"}
        /\ out.reply \in {"required", "exists"} => out.kv = kv
        /\ out.reply = "exhausted" => Refusal(kv, out.kv, need)
        /\ out.reply \in {"ok", "hit"} => r.id \notin kv.live /\ out.kv.live = kv.live \cup {r.id}
        /\ NewEntry(kv, out.kv, r.key, cacheable)
        /\ Tracked(kv) /\ (r.key \in kv.cached => kv.entryTokens[r.key] = cacheable)
             => Tracked(out.kv)
    BY <1>1, <1>2, AllocatePromptIs DEF PromptAllocation
  <2>2. cacheable = CacheableOf(r)
    BY <1>3
  <2> HIDE DEF cacheable, out, need
  <2> QED
    BY <2>1, <2>2
<1>5. r.id # EmptyId /\ r.id \notin kv.live => out.reply \notin {"required", "exists"}
  BY DEF PromptAllocation, AllocatePrompt, SharePrefix, NewPrefix, Outcome
<1> HIDE DEF out, need
<1>6. \A j \in Indices : request[j].key = r.key => CacheableOf(request[j]) = CacheableOf(r)
  BY SchedulerAssumption DEF CacheInvariant
<1>7. Tracked(out.kv)
  BY <1>2, <1>4
<1>8. ASSUME NEW k \in out.kv.cached, NEW j \in Indices, request[j].key = k
      PROVE  out.kv.entryTokens[k] = CacheableOf(request[j])
  BY <1>2, <1>4, <1>6, <1>8 DEF NewEntry
<1>9. Sound(out.kv)
  BY <1>4, <1>7, <1>8 DEF Sound
<1>10. out.reply \notin {"ok", "hit"} => out.kv.live = kv.live
  BY <1>4 DEF Refusal, SameSequences
<1>11. out.reply \notin {"ok", "hit"} /\ r.id # EmptyId /\ r.id \notin kv.live
         => Refusal(kv, out.kv, need)
  BY <1>4, <1>5
<1> QED
  BY <1>4, <1>9, <1>10, <1>11 DEF PromptPromise, out, need

\* One more token takes at most one more block.
LEMMA OneMoreBlock ==
  ASSUME NEW g \in Nat
  PROVE  BlocksFor(g + 1) - BlocksFor(g) <= 1
<1> DEFINE T == TokensPerBlock
<1>1. T \in Nat \ {0}
  BY KvAssumption
<1> HIDE DEF T
<1>2. CASE g = 0
  <2>1. BlocksFor(g) = 0 /\ BlocksFor(g + 1) = T \div T
    BY <1>1, <1>2 DEF BlocksFor, CeilDiv, T
  <2>2. T \div T = 1
    BY <1>1
  <2> QED
    BY <2>1, <2>2
<1>3. CASE g # 0
  <2>1. /\ BlocksFor(g) = (g + T - 1) \div T
        /\ BlocksFor(g + 1) = (g + T) \div T
    BY <1>1, <1>3 DEF BlocksFor, CeilDiv, T
  <2>2. (g + T) \div T = (g \div T) + 1
    BY <1>1
  <2>3. g \div T <= (g + T - 1) \div T /\ g \div T \in Int /\ (g + T - 1) \div T \in Int
    BY <1>1
  <2> QED
    BY <2>1, <2>2, <2>3
<1> QED
  BY <1>2, <1>3

\* AppendTokens of one token for sequence i.
TokenPromise(i, out) ==
  /\ Sound(out.kv)
  /\ out.kv.live = kv.live
  /\ out.reply # "ok" /\ request[i].id \in kv.live => Refusal(kv, out.kv, 1)

\* The token gets its block, or there is none left that could be reclaimed.
LEMMA TokenAllocationIs ==
  ASSUME CacheInvariant, NEW i \in Indices
  PROVE  TokenPromise(i, TokenAllocation(i))
<1> DEFINE s == request[i].id
           out == TokenAllocation(i)
<1>1. s \in Sequences /\ 1 \in Nat /\ Accounted(kv) /\ Tracked(kv)
  BY RequestIs DEF CacheInvariant, Sound
<1>2. /\ Additional(kv, s, 1) \in Nat
      /\ Accounted(out.kv)
      /\ out.reply \in {"missing", "ok", "exhausted"}
      /\ out.reply = "missing" => out.kv = kv
      /\ out.reply = "exhausted" => Refusal(kv, out.kv, Additional(kv, s, 1))
      /\ out.reply = "missing" <=> s \notin kv.live
      /\ out.kv.live = kv.live
      /\ OlderEntries(kv, out.kv)
      /\ Tracked(kv) => Tracked(out.kv)
  BY <1>1, AppendTokensIs, Zenon DEF TokenAllocation
<1> HIDE DEF out, s
<1>3. Sound(out.kv)
  BY <1>1, <1>2 DEF CacheInvariant, Sound, OlderEntries
<1>4. ASSUME Refusal(kv, out.kv, Additional(kv, s, 1))
      PROVE  Refusal(kv, out.kv, 1)
  <2>1. kv.generated[s] \in Nat
    BY <1>1, CacheFields DEF Accounted
  <2>2. Additional(kv, s, 1) <= 1
    BY <2>1, OneMoreBlock DEF Additional
  <2>3. Cardinality(Reclaimable(out.kv)) \in Nat
    <3>1. out.kv \in Cache
      BY <1>2 DEF Accounted
    <3>2. out.kv.cached \in SUBSET Keys /\ out.kv.entryBlocks \in [Keys -> SUBSET Blocks]
      BY <3>1, CacheFields
    <3>3. Reclaimable(out.kv) \in SUBSET Blocks
      BY <3>2 DEF Reclaimable, FreeBlocks, EntryBlocks
    <3> QED
      BY <3>3, BlocksFinite
  <2>4. Cardinality(Reclaimable(out.kv)) < 1
    BY <1>2, <1>4, <2>2, <2>3 DEF Refusal
  <2> QED
    BY <1>4, <2>4 DEF Refusal
<1>5. out.reply # "ok" /\ s \in kv.live => Refusal(kv, out.kv, 1)
  BY <1>2, <1>4
<1> QED
  BY <1>2, <1>3, <1>5 DEF TokenPromise, out, s

-----------------------------------------------------------------------------
(* Steps.                                                                  *)

\* Steps that leave the sequences, their results and the allocator alone.
Moves ==
  /\ UNCHANGED <<request, stateVars, resultVars, kv>>
  /\ stepIndex' \in {stepIndex, stepIndex + 1}
  /\ \/ BeginStep \/ BeginDecode
     \/ pc' \notin {"prefill", "decode"}
     \/ UNCHANGED <<pc, todo, budget>>

\* An iteration of one of the loops over the sequences.
Iteration(i) ==
  \/ Cancel(i) \/ RejectPrompt(i) \/ Prefill(i)
  \/ RejectToken(i) \/ Decode(i) \/ Complete(i)

\* A step moves control or is an iteration for some sequence.
LEMMA StepCases ==
  ASSUME [Next]_vars
  PROVE  Moves \/ \E i \in Indices : Iteration(i)
<1>1. CASE \E i \in Indices : GenerateText(i)
  BY <1>1 DEF GenerateText, GoTo, Moves
<1>2. CASE UNCHANGED vars
  BY <1>2 DEF vars, stepVars, Moves
<1> QED
  BY <1>1, <1>2
  DEF Next, Thread, Start, BeginStep, BeginCancel, EndRun, BeginDecode, BeginComplete,
      EndStep, ReportCancelled, BeginTexts, ReportOk, RpcCancelled, Returned, vars, stepVars,
      GoTo, Moves, Iteration

\* The calls of an iteration leave the allocator sound.
LEMMA CacheStep ==
  ASSUME CacheInvariant, [Next]_vars
  PROVE  CacheInvariant'
<1>1. request \in Workloads /\ Sound(kv)
  BY DEF CacheInvariant
<1>2. request' = request
  BY StepCases
  DEF Moves, Iteration, Cancel, RejectPrompt, Prefill, RejectToken, Decode, Complete, Leave
<1> SUFFICES Sound(kv')
  BY <1>1, <1>2 DEF CacheInvariant, Sound
<1>3. CASE Moves
  BY <1>1, <1>3 DEF Moves
<1>4. ASSUME NEW i \in Indices, Iteration(i)
      PROVE  Sound(kv')
  <2>1. CASE Cancel(i) \/ Complete(i)
    BY <1>1, <2>1, ReleaseIs DEF Cancel, Complete, Leave, Settle
  <2>2. CASE RejectPrompt(i) \/ Prefill(i)
    <3>1. kv' = kv \/ kv' = PromptAllocation(i).kv
      BY <2>2 DEF RejectPrompt, Prefill, Leave, Settle
    <3> QED
      BY <1>1, <3>1, PromptAllocationIs DEF PromptPromise
  <2>3. CASE RejectToken(i) \/ Decode(i)
    <3>1. \/ kv' = TokenAllocation(i).kv
          \/ kv' = ReleaseSequence(TokenAllocation(i).kv, request[i].id)
      BY <2>3 DEF RejectToken, Decode, Leave, Settle
    <3>2. Sound(TokenAllocation(i).kv)
      BY TokenAllocationIs DEF TokenPromise
    <3> QED
      BY <1>1, <3>1, <3>2, ReleaseIs
  <2> QED
    BY <1>4, <2>1, <2>2, <2>3 DEF Iteration
<1> QED
  BY <1>3, <1>4, StepCases

\* Types, but for the batch and the allocator, which CacheInvariant speaks of.
LEMMA TypeStep ==
  ASSUME TypeOK, CacheInvariant, [Next]_vars
  PROVE  TypeOK'
<1> USE DEF TypeOK
<1>1. request' \in [Indices -> Request] /\ kv' \in Cache
  <2>1. request' \in Workloads /\ Accounted(kv')
    BY CacheStep DEF CacheInvariant, Sound
  <2> QED
    BY <2>1, SchedulerAssumption DEF Accounted
<1>2. MaxPrefill \in Nat \ {0}
  BY SchedulerAssumption
<1>3. CASE Start \/ EndRun \/ ReportCancelled \/ ReportOk
  BY <1>1, <1>3 DEF Start, EndRun, ReportCancelled, ReportOk, GoTo, stateVars, resultVars, stepVars
<1>4. CASE BeginStep
  BY <1>1, <1>2, <1>4 DEF BeginStep, Unfinished, GoTo, stateVars, resultVars
<1>5. CASE BeginCancel \/ BeginComplete \/ BeginTexts
  BY <1>1, <1>5
  DEF BeginCancel, BeginComplete, BeginTexts, Unfinished, GoTo, stateVars, resultVars
<1>6. CASE BeginDecode
  BY <1>1, <1>6
  DEF BeginDecode, Foremost, DecodeCandidates, Unfinished, GoTo, stateVars, resultVars
<1>7. CASE EndStep
  BY <1>1, <1>7 DEF EndStep, GoTo, stateVars, resultVars
<1>8. CASE RpcCancelled
  BY <1>1, <1>8 DEF RpcCancelled, stateVars, resultVars, stepVars
<1>9. CASE UNCHANGED vars
  BY <1>9 DEF vars, stateVars, resultVars, stepVars
<1>10. ASSUME NEW i \in Indices, GenerateText(i)
       PROVE  TypeOK'
  BY <1>1, <1>10 DEF GenerateText, GoTo, stateVars, resultVars
<1>11. ASSUME NEW i \in Indices, Cancel(i) \/ RejectPrompt(i) \/ RejectToken(i) \/ Complete(i)
       PROVE  TypeOK'
  BY <1>1, <1>11 DEF Cancel, RejectPrompt, RejectToken, Complete, Leave, Settle
<1>12. ASSUME NEW i \in Indices, Prefill(i)
       PROVE  TypeOK'
  <2> DEFINE consumed == MinOf(budget, remaining[i])
  <2>1. consumed \in 0..budget /\ consumed <= remaining[i]
    BY <1>2 DEF MinOf
  <2>2. /\ remaining' = [remaining EXCEPT ![i] = @ - consumed]
        /\ ready' = [ready EXCEPT ![i] = (remaining[i] = consumed)]
        /\ budget' = budget - consumed
    BY <1>12 DEF Prefill
  <2> HIDE DEF consumed
  <2>3. remaining' \in [Indices -> Nat] /\ budget' \in 0..MaxPrefill
    BY <1>2, <2>1, <2>2
  <2>4. ready' \in [Indices -> BOOLEAN]
    BY <2>2
  <2>5. allocated' \in [Indices -> BOOLEAN]
    BY <1>12 DEF Prefill
  <2> QED
    BY <1>1, <1>12, <2>3, <2>4, <2>5 DEF Prefill, resultVars
<1>13. ASSUME NEW i \in Indices, Decode(i)
       PROVE  TypeOK'
  <2>1. generated' \in [Indices -> Nat]
    BY <1>13 DEF Decode
  <2>2. firstToken' \in [Indices -> Int]
    BY <1>13 DEF Decode
  <2>3. /\ status' \in [Indices -> {"queued", "completed", "rejected", "cancelled"}]
        /\ done' \in [Indices -> BOOLEAN]
    BY <1>13 DEF Decode, Settle
  <2> QED
    BY <1>1, <1>13, <2>1, <2>2, <2>3 DEF Decode
<1> QED
  BY <1>3, <1>4, <1>5, <1>6, <1>7, <1>8, <1>9, <1>10, <1>11, <1>12, <1>13
  DEF Next, Thread, Returned

\* A sequence leaves with a result that fits its state.
LEMMA ResultStep ==
  ASSUME TypeOK, CacheInvariant, ResultInvariant, ControlInvariant, [Next]_vars
  PROVE  ResultInvariant'
<1> USE DEF ResultInvariant, TypeOK
<1>1. \A i \in Indices : request[i].maxGenerated \in Nat
  BY RequestIs DEF CacheInvariant
<1>2. CASE Moves
  <2>1. stepIndex' \in Nat /\ stepIndex <= stepIndex'
    BY <1>2 DEF Moves
  <2> QED
    BY <1>2, <2>1 DEF Moves, stateVars, resultVars
<1>3. ASSUME NEW i \in Indices, Iteration(i)
      PROVE  ResultInvariant'
  <2>1. CASE Cancel(i) \/ RejectPrompt(i) \/ RejectToken(i)
    BY <1>1, <2>1 DEF Cancel, RejectPrompt, RejectToken, Leave, Settle
  <2>2. CASE Complete(i)
    <3>1. generated[i] = request[i].maxGenerated
      BY <1>1, <2>2 DEF Complete, NextByIndex, ControlInvariant
    <3> QED
      BY <1>1, <2>2, <3>1 DEF Complete, Leave, Settle
  <2>3. CASE Prefill(i)
    BY <1>1, <2>3 DEF Prefill, resultVars
  <2>4. CASE Decode(i)
    <3>1. generated[i] < request[i].maxGenerated
      BY <2>4 DEF Decode, NextByPriority, ControlInvariant, DecodeCandidates
    <3>2. ASSUME NEW j \in Indices, j # i
          PROVE  /\ generated'[j] = generated[j] /\ firstToken'[j] = firstToken[j]
                 /\ status'[j] = status[j] /\ done'[j] = done[j]
      BY <2>4, <3>2 DEF Decode, Settle
    <3>3. /\ generated'[i] = generated[i] + 1
          /\ firstToken'[i] = IF firstToken[i] < 0 THEN stepIndex ELSE firstToken[i]
      BY <2>4 DEF Decode
    <3>4. \/ /\ generated[i] + 1 = request[i].maxGenerated
             /\ done'[i] = TRUE /\ status'[i] = "completed"
          \/ done'[i] = done[i] /\ status'[i] = status[i]
      BY <2>4 DEF Decode, Settle
    <3>5. ~done[i] /\ status[i] = "queued"
      BY <2>4 DEF Decode, NextByPriority, ControlInvariant, DecodeCandidates, Unfinished
    <3>6. request' = request /\ ready' = ready /\ allocated' = allocated /\ stepIndex' = stepIndex
      BY <2>4 DEF Decode
    <3> QED
      BY <1>1, <3>1, <3>2, <3>3, <3>4, <3>5, <3>6
  <2> QED
    BY <1>3, <2>1, <2>2, <2>3, <2>4 DEF Iteration
<1> QED
  BY <1>2, <1>3, StepCases

\* What a control point knows is true when control gets there, and stays true.
LEMMA ControlStep ==
  ASSUME TypeOK, ResultInvariant, ControlInvariant, [Next]_vars
  PROVE  ControlInvariant'
<1> USE DEF TypeOK, ControlInvariant, Unfinished, Running, DecodeCandidates
<1>1. CASE Start
  BY <1>1 DEF Start, GoTo, stateVars, resultVars, stepVars
<1>2. CASE BeginStep
  BY <1>2 DEF BeginStep, GoTo, stateVars, resultVars
<1>3. CASE BeginCancel
  BY <1>3 DEF BeginCancel, GoTo, stateVars, resultVars
<1>4. CASE EndRun
  BY <1>4 DEF EndRun, GoTo, stateVars, resultVars, stepVars
<1>5. CASE BeginDecode
  BY <1>5 DEF BeginDecode, Foremost, GoTo, stateVars, resultVars
<1>6. CASE BeginComplete
  BY <1>6 DEF BeginComplete, GoTo, stateVars, resultVars
<1>7. CASE EndStep
  BY <1>7 DEF EndStep, GoTo, stateVars, resultVars
<1>8. CASE ReportCancelled
  BY <1>8 DEF ReportCancelled, GoTo, stateVars, resultVars, stepVars
<1>9. CASE BeginTexts
  BY <1>9 DEF BeginTexts, GoTo, stateVars, resultVars
<1>10. CASE ReportOk
  BY <1>10 DEF ReportOk, GoTo, stateVars, resultVars, stepVars
<1>11. CASE RpcCancelled
  BY <1>11 DEF RpcCancelled, stateVars, resultVars, stepVars
<1>12. CASE UNCHANGED vars
  BY <1>12 DEF vars, stateVars, resultVars, stepVars
<1>13. ASSUME NEW i \in Indices, GenerateText(i)
       PROVE  ControlInvariant'
  BY <1>13 DEF GenerateText, NextByIndex, GoTo, stateVars, resultVars, ResultInvariant
<1>14. ASSUME NEW i \in Indices, Cancel(i)
       PROVE  ControlInvariant'
  BY <1>14 DEF Cancel, NextByIndex, Leave, Settle
<1>15. ASSUME NEW i \in Indices, RejectPrompt(i)
       PROVE  ControlInvariant'
  BY <1>15 DEF RejectPrompt, NextByPriority, Leave, Settle
<1>16. ASSUME NEW i \in Indices, Prefill(i)
       PROVE  ControlInvariant'
  BY <1>16 DEF Prefill, NextByPriority, resultVars
<1>17. ASSUME NEW i \in Indices, RejectToken(i)
       PROVE  ControlInvariant'
  BY <1>17 DEF RejectToken, NextByPriority, Leave, Settle
<1>18. ASSUME NEW i \in Indices, Decode(i)
       PROVE  ControlInvariant'
  BY <1>18 DEF Decode, NextByPriority, Settle
<1>19. ASSUME NEW i \in Indices, Complete(i)
       PROVE  ControlInvariant'
  BY <1>19 DEF Complete, NextByIndex, Leave, Settle
<1> QED
  BY <1>1, <1>2, <1>3, <1>4, <1>5, <1>6, <1>7, <1>8, <1>9, <1>10, <1>11, <1>12, <1>13,
     <1>14, <1>15, <1>16, <1>17, <1>18, <1>19
  DEF Next, Thread, Returned

\* A running sequence leaves and its id is released; while everything is
\* cancelled, so does one that never ran.
LEMMA LeaverReleased ==
  ASSUME TypeOK, HolderInvariant, NEW i \in Indices, i \in Running \/ pc = "cancel",
         done' = [done EXCEPT ![i] = TRUE], UNCHANGED <<request, pc, allocated>>,
         kv'.live = kv.live \ {request[i].id}
  PROVE  HolderInvariant'
<1>1. Running' = Running \ {i}
  BY DEF TypeOK, Running
<1>2. \A j, k \in Running' : request'[j].id = request'[k].id => j = k
  BY <1>1 DEF HolderInvariant
<1>3. kv'.live \subseteq IdsOf(Running)'
  BY <1>1 DEF HolderInvariant, HeldByRunningSequences, IdsOf
<1>4. ASSUME pc # "cancel"
      PROVE  IdsOf(Running)' \subseteq kv'.live
  BY <1>1, <1>4 DEF HolderInvariant, HeldByRunningSequences, IdsOf
<1> QED
  BY <1>2, <1>3, <1>4 DEF HolderInvariant, HeldByRunningSequences

\* Blocks are held for the running sequences only, each under an id of its own.
LEMMA HolderStep ==
  ASSUME TypeOK, CacheInvariant, HolderInvariant, ResultInvariant, ControlInvariant,
         [Next]_vars
  PROVE  HolderInvariant'
<1>1. CASE Moves
  <2>1. UNCHANGED <<request, allocated, done, kv>>
    BY <1>1 DEF Moves, stateVars
  <2>2. Running' = Running /\ IdsOf(Running)' = IdsOf(Running)
    BY <2>1 DEF Running, IdsOf
  <2>3. pc' # "cancel" => pc # "cancel" \/ Running = {}
    <3>1. CASE pc = "cancel" /\ pc' # "cancel"
      <4>1. EndRun
        BY <1>1, <3>1
        DEF Next, Thread, Start, BeginStep, BeginCancel, BeginDecode, BeginComplete, EndStep,
            ReportCancelled, BeginTexts, ReportOk, RpcCancelled, Returned, GenerateText, Cancel,
            RejectPrompt, Prefill, RejectToken, Decode, Complete, Leave, vars, GoTo
      <4>2. todo = {}
        BY <3>1, <4>1 DEF EndRun
      <4> QED
        BY <3>1, <4>2 DEF ControlInvariant, Unfinished, Running
    <3> QED
      BY <3>1
  <2> QED
    BY <2>1, <2>2, <2>3 DEF HolderInvariant, HeldByRunningSequences, IdsOf
<1>2. ASSUME NEW i \in Indices, Iteration(i)
      PROVE  HolderInvariant'
  <2>1. /\ request \in Workloads /\ Sound(kv)
        /\ PromptPromise(i, PromptAllocation(i))
        /\ TokenPromise(i, TokenAllocation(i))
    BY PromptAllocationIs, TokenAllocationIs DEF CacheInvariant
  <2>2. CASE Cancel(i) \/ Complete(i)
    <3>1. kv'.live = kv.live \ {request[i].id}
      BY <2>1, <2>2, ReleaseIs DEF Cancel, Complete, Leave, Settle
    <3>2. i \in Running \/ pc = "cancel"
      BY <2>2 DEF Cancel, Complete, NextByIndex, ControlInvariant, ResultInvariant, Running
    <3> QED
      BY <2>2, <3>1, <3>2, LeaverReleased DEF Cancel, Complete, Leave, Settle
  <2>3. CASE RejectPrompt(i)
    <3>1. kv'.live = kv.live
      BY <2>1, <2>3 DEF RejectPrompt, Leave, Settle, PromptPromise
    <3>2. UNCHANGED <<request, pc>> /\ Running' = Running
      BY <2>3 DEF RejectPrompt, Leave, Settle, Running, TypeOK
    <3> QED
      BY <3>1, <3>2 DEF HolderInvariant, HeldByRunningSequences, IdsOf
  <2>4. CASE Prefill(i)
    <3>1. pc = "prefill" /\ ~done[i] /\ UNCHANGED <<request, pc>> /\ i \in Indices
      BY <2>4 DEF Prefill, NextByPriority, ControlInvariant
    <3>2. Running' = Running \cup {i}
      BY <2>4, <3>1 DEF Prefill, Running, TypeOK
    <3>3. CASE allocated[i] /\ kv' = kv
      <4>1. Running' = Running
        BY <3>1, <3>2, <3>3 DEF Running
      <4> QED
        BY <3>1, <3>3, <4>1 DEF HolderInvariant, HeldByRunningSequences, IdsOf
    <3>4. CASE ~(allocated[i] /\ kv' = kv)
      <4>1. kv'.live = kv.live \cup {request[i].id} /\ request[i].id \notin kv.live
        BY <2>1, <2>4, <3>4 DEF Prefill, PromptPromise
      <4>2. kv.live = IdsOf(Running)
        BY <3>1 DEF HolderInvariant, HeldByRunningSequences
      <4>3. kv'.live = IdsOf(Running)'
        BY <3>1, <3>2, <4>1, <4>2 DEF IdsOf
      <4>4. \A j \in Running : request[j].id # request[i].id
        BY <4>1, <4>2 DEF IdsOf
      <4>5. \A j, k \in Running' : request'[j].id = request'[k].id => j = k
        BY <3>1, <3>2, <4>4 DEF HolderInvariant
      <4> QED
        BY <4>3, <4>5 DEF HolderInvariant, HeldByRunningSequences
    <3> QED
      BY <3>3, <3>4
  <2>5. CASE RejectToken(i) \/ Decode(i)
    <3>1. /\ i \in Running /\ UNCHANGED <<request, pc, allocated>>
      BY <2>5 DEF RejectToken, Decode, NextByPriority, Leave, ControlInvariant, ResultInvariant,
         DecodeCandidates, Unfinished, Running
    <3>2. \/ kv' = TokenAllocation(i).kv /\ done' = done
          \/ /\ kv' = ReleaseSequence(TokenAllocation(i).kv, request[i].id)
             /\ done' = [done EXCEPT ![i] = TRUE]
      BY <2>5 DEF RejectToken, Decode, Leave, Settle
    <3>3. CASE kv' = TokenAllocation(i).kv /\ done' = done
      <4>1. kv'.live = kv.live /\ Running' = Running
        BY <2>1, <3>1, <3>3 DEF TokenPromise, Running
      <4> QED
        BY <3>1, <4>1 DEF HolderInvariant, HeldByRunningSequences, IdsOf
    <3>4. CASE /\ kv' = ReleaseSequence(TokenAllocation(i).kv, request[i].id)
               /\ done' = [done EXCEPT ![i] = TRUE]
      <4>1. kv'.live = kv.live \ {request[i].id}
        BY <2>1, <3>4, ReleaseIs DEF TokenPromise
      <4> QED
        BY <3>1, <3>4, <4>1, LeaverReleased
    <3> QED
      BY <3>2, <3>3, <3>4
  <2> QED
    BY <1>2, <2>2, <2>3, <2>4, <2>5 DEF Iteration
<1> QED
  BY <1>1, <1>2, StepCases

\* The order of the prompts and of the first tokens, kept by every step.
LEMMA OrderStep ==
  ASSUME TypeOK, CacheInvariant, ResultInvariant, ControlInvariant, OrderInvariant,
         [Next]_vars
  PROVE  OrderInvariant'
<1> USE DEF TypeOK
<1>1. request \in Workloads /\ \A i \in Indices : request[i].maxGenerated \in Nat
  BY RequestIs DEF CacheInvariant
<1>2. request' = request
  BY StepCases
  DEF Moves, Iteration, Cancel, RejectPrompt, Prefill, RejectToken, Decode, Complete, Leave
<1>3. \A i, j : Before(i, j)' <=> Before(i, j)
  BY <1>2 DEF Before
<1>4. CASE Moves
  <2>1. UNCHANGED <<request, stateVars, resultVars>>
    BY <1>4 DEF Moves
  <2>2. DecodeCandidates' = DecodeCandidates
    BY <2>1 DEF DecodeCandidates, Unfinished, stateVars
  <2>3. FirstTokensInPriorityOrder'
    BY <1>3, <2>1 DEF OrderInvariant, FirstTokensInPriorityOrder, resultVars
  <2>4. \A i, j \in Indices : Before(i, j)' /\ allocated'[j] => ready'[i] \/ done'[i]
    BY <1>3, <2>1 DEF OrderInvariant, stateVars
  <2>5. CASE BeginStep
    <3>1. pc' = "prefill" /\ todo' = {i \in Unfinished : ~ready[i]}
      BY <2>5 DEF BeginStep, GoTo
    <3>2. \A i \in Indices \ todo' : ready[i] \/ done[i]
      BY <3>1 DEF Unfinished
    <3> QED
      BY <2>1, <2>3, <2>4, <3>1, <3>2 DEF OrderInvariant, stateVars
  <2>6. CASE BeginDecode
    <3>1. pc' = "decode" /\ todo' = Foremost(DecodeCandidates, MaxDecode)
      BY <2>6 DEF BeginDecode, GoTo
    <3>2. ASSUME NEW i \in DecodeCandidates \ todo', NEW j \in todo', Before(i, j)
          PROVE  FALSE
      <4>1. DecodeCandidates \in SUBSET Indices /\ MaxDecode \in Nat
        BY SchedulerAssumption DEF DecodeCandidates, Unfinished
      <4> QED
        BY <1>1, <3>1, <3>2, <4>1, ForemostIs
    <3> QED
      BY <1>3, <2>2, <2>3, <2>4, <3>1, <3>2 DEF OrderInvariant
  <2>7. CASE pc' \notin {"prefill", "decode"}
    BY <2>3, <2>4, <2>7 DEF OrderInvariant
  <2>8. CASE UNCHANGED <<pc, todo, budget>>
    BY <1>3, <2>1, <2>2, <2>3, <2>4, <2>8 DEF OrderInvariant, stateVars
  <2> QED
    BY <1>4, <2>5, <2>6, <2>7, <2>8 DEF Moves
<1>5. ASSUME NEW i \in Indices,
             Cancel(i) \/ RejectPrompt(i) \/ RejectToken(i) \/ Complete(i)
      PROVE  OrderInvariant'
  <2>1. /\ UNCHANGED <<request, pc, allocated, ready, generated, firstToken, budget>>
        /\ todo' = todo \ {i}
        /\ done' = [done EXCEPT ![i] = TRUE]
    BY <1>5 DEF Cancel, RejectPrompt, RejectToken, Complete, Leave, Settle
  <2>2. status'[i] # "queued" /\ \A j \in Indices : j # i => status'[j] = status[j]
    BY <1>5 DEF Cancel, RejectPrompt, RejectToken, Complete, Leave, Settle
  <2>3. DecodeCandidates' = DecodeCandidates \ {i}
    BY <1>2, <2>1 DEF DecodeCandidates, Unfinished
  <2>4. \A j, k \in Indices : Before(j, k)' /\ allocated'[k] => ready'[j] \/ done'[j]
    BY <1>3, <2>1 DEF OrderInvariant
  <2>5. pc' = "prefill" /\ budget' > 0 => \A j \in Indices \ todo' : ready'[j] \/ done'[j]
    BY <2>1 DEF OrderInvariant
  <2>6. pc' = "decode" => \A j \in DecodeCandidates' \ todo', k \in todo' :
                            Before(j, k)' => generated'[j] > 0
    BY <1>3, <2>1, <2>3 DEF OrderInvariant
  <2>7. ASSUME NEW j \in Indices, NEW k \in Indices, Before(j, k),
               firstToken[k] >= 0, request[j].maxGenerated > 0
        PROVE  status'[j] = "rejected" \/ firstToken[j] \in 0..firstToken[k]
    <3>1. status[j] = "rejected" \/ firstToken[j] \in 0..firstToken[k]
      BY <2>7 DEF OrderInvariant, FirstTokensInPriorityOrder
    <3>2. status[i] = "queued"
      BY <1>5 DEF Cancel, RejectPrompt, RejectToken, Complete, NextByIndex, NextByPriority,
         ControlInvariant, ResultInvariant, DecodeCandidates, Unfinished
    <3> QED
      BY <2>2, <3>1, <3>2
  <2>8. FirstTokensInPriorityOrder'
    BY <1>3, <2>1, <2>7 DEF FirstTokensInPriorityOrder
  <2> QED
    BY <2>4, <2>5, <2>6, <2>8 DEF OrderInvariant
<1>6. ASSUME NEW i \in Indices, Prefill(i)
      PROVE  OrderInvariant'
  <2> DEFINE consumed == MinOf(budget, remaining[i])
  <2>1. /\ pc = "prefill" /\ budget > 0 /\ UNCHANGED <<pc, generated, done, resultVars>>
        /\ NextByPriority(i) /\ todo' = todo \ {i}
        /\ allocated' = [allocated EXCEPT ![i] = TRUE]
        /\ ready' = [ready EXCEPT ![i] = (remaining[i] = consumed)]
        /\ budget' = budget - consumed
    BY <1>6 DEF Prefill
  <2>2. ~ready[i] /\ ~done[i]
    BY <2>1 DEF NextByPriority, ControlInvariant
  <2>3. \A j \in Indices : ready[j] => ready'[j]
    BY <2>1, <2>2
  <2>4. ASSUME NEW j \in Indices, NEW k \in Indices, Before(j, k), allocated'[k]
        PROVE  ready'[j] \/ done'[j]
    <3>1. CASE k = i
      <4>1. j \notin todo
        BY <1>1, <2>1, <2>4, <3>1, BeforeIs DEF NextByPriority
      <4> QED
        BY <2>1, <2>3, <4>1 DEF OrderInvariant
    <3>2. CASE k # i
      BY <2>1, <2>3, <2>4, <3>2 DEF OrderInvariant
    <3> QED
      BY <3>1, <3>2
  <2>5. ASSUME budget' > 0, NEW j \in Indices \ todo'
        PROVE  ready'[j] \/ done'[j]
    <3>1. CASE j = i
      <4>1. remaining[i] = consumed
        BY <2>1, <2>5, SchedulerAssumption DEF MinOf
      <4> QED
        BY <2>1, <3>1, <4>1
    <3>2. CASE j # i
      BY <2>1, <2>3, <3>2 DEF OrderInvariant
    <3> QED
      BY <3>1, <3>2
  <2>6. FirstTokensInPriorityOrder'
    BY <1>2, <1>3, <2>1 DEF OrderInvariant, FirstTokensInPriorityOrder, resultVars
  <2> QED
    BY <1>3, <2>1, <2>4, <2>5, <2>6 DEF OrderInvariant
<1>7. ASSUME NEW i \in Indices, Decode(i)
      PROVE  OrderInvariant'
  <2>1. /\ pc = "decode" /\ UNCHANGED <<pc, allocated, ready, stepIndex>>
        /\ NextByPriority(i) /\ todo' = todo \ {i}
        /\ generated' = [generated EXCEPT ![i] = @ + 1]
        /\ firstToken' = [firstToken EXCEPT ![i] = IF @ < 0 THEN stepIndex ELSE @]
    BY <1>7 DEF Decode
  <2>2. i \in DecodeCandidates /\ ready[i] /\ ~done[i] /\ allocated[i] /\ status[i] = "queued"
    BY <2>1 DEF NextByPriority, ControlInvariant, ResultInvariant, DecodeCandidates, Unfinished
  <2>3. \A j \in Indices : /\ done[j] => done'[j]
                           /\ j # i => status'[j] = status[j] /\ done'[j] = done[j]
    BY <1>7 DEF Decode, Settle
  <2>4. DecodeCandidates' \ {i} \subseteq DecodeCandidates
    BY <1>2, <2>1, <2>3 DEF DecodeCandidates, Unfinished
  <2>5. \A j, k \in Indices : Before(j, k)' /\ allocated'[k] => ready'[j] \/ done'[j]
    BY <1>3, <2>1, <2>3 DEF OrderInvariant
  <2>6. ASSUME NEW j \in DecodeCandidates' \ todo', NEW k \in todo', Before(j, k)
        PROVE  generated'[j] > 0
    <3>1. j \in Indices
      BY DEF DecodeCandidates, Unfinished
    <3>2. CASE j = i
      BY <2>1, <3>1, <3>2
    <3>3. CASE j # i
      <4>1. generated[j] > 0
        BY <2>1, <2>4, <2>6, <3>3 DEF OrderInvariant
      <4> QED
        BY <2>1, <3>1, <3>3, <4>1
    <3> QED
      BY <3>2, <3>3
  <2>7. ASSUME NEW j \in Indices, NEW k \in Indices, Before(j, k),
               firstToken'[k] >= 0, request[j].maxGenerated > 0
        PROVE  status'[j] = "rejected" \/ firstToken'[j] \in 0..firstToken'[k]
    <3>1. j # k
      BY <1>1, <2>7, BeforeIs
    <3>2. firstToken[k] >= 0 => status[j] = "rejected" \/ firstToken[j] \in 0..firstToken[k]
      BY <2>7 DEF OrderInvariant, FirstTokensInPriorityOrder
    <3>3. CASE j = i
      <4>1. firstToken'[k] = firstToken[k]
        BY <2>1, <3>1, <3>3
      <4>2. firstToken[j] \in 0..firstToken[k]
        BY <2>2, <2>7, <3>2, <3>3, <4>1
      <4>3. firstToken'[j] = firstToken[j]
        BY <2>1, <3>3, <4>2
      <4> QED
        BY <4>1, <4>2, <4>3
    <3>4. CASE k = i /\ firstToken[k] < 0
      <4>1. firstToken'[j] = firstToken[j] /\ firstToken'[k] = stepIndex
        BY <2>1, <3>1, <3>4
      <4>2. ready[j] \/ done[j]
        BY <2>2, <2>7, <3>4 DEF OrderInvariant
      <4>3. j \notin todo
        BY <1>1, <2>1, <2>7, <3>1, <3>4, BeforeIs DEF NextByPriority
      <4>4. status[j] = "rejected" \/ generated[j] > 0
        <5>1. CASE done[j]
          <6>1. status[j] \in {"completed", "rejected"}
            BY <2>1, <5>1 DEF ResultInvariant, ControlInvariant
          <6> QED
            BY <2>7, <6>1 DEF ResultInvariant
        <5>2. CASE ~done[j] /\ generated[j] < request[j].maxGenerated
          <6>1. j \in DecodeCandidates \ todo
            BY <4>2, <4>3, <5>2 DEF DecodeCandidates, Unfinished
          <6> QED
            BY <2>1, <2>7, <3>4, <6>1 DEF OrderInvariant, NextByPriority
        <5>3. CASE ~(generated[j] < request[j].maxGenerated)
          BY <1>1, <2>7, <5>3
        <5> QED
          BY <5>1, <5>2, <5>3
      <4>5. status[j] = "rejected" \/ firstToken[j] \in 0..stepIndex
        BY <4>4 DEF ResultInvariant
      <4> QED
        BY <2>3, <3>1, <3>4, <4>1, <4>5
    <3>5. CASE j # i /\ ~(k = i /\ firstToken[k] < 0)
      <4>1. firstToken'[j] = firstToken[j] /\ firstToken'[k] = firstToken[k]
        BY <2>1, <3>5
      <4> QED
        BY <2>3, <2>7, <3>2, <3>5, <4>1
    <3> QED
      BY <3>3, <3>4, <3>5
  <2>8. FirstTokensInPriorityOrder'
    BY <1>2, <1>3, <2>7 DEF FirstTokensInPriorityOrder
  <2> QED
    BY <1>3, <2>1, <2>5, <2>6, <2>8 DEF OrderInvariant
<1> QED
  BY <1>4, <1>5, <1>6, <1>7, StepCases DEF Iteration

-----------------------------------------------------------------------------
(* The invariant holds.                                                    *)

\* The invariant holds when ProcessBatch is called.
LEMMA InitInv == Init => Inv
<1> SUFFICES ASSUME Init PROVE Inv
  OBVIOUS
<1>1. request \in Workloads /\ request \in [Indices -> Request] /\ kv = EmptyCache
  BY SchedulerAssumption DEF Init
<1>2. kv.live = {} /\ kv.cached = {} /\ kv.occupied = {} /\ Accounted(kv) /\ kv \in Cache
  BY <1>1, EmptyAccounted DEF EmptyCache, Accounted
<1>3. CacheInvariant
  BY <1>1, <1>2 DEF CacheInvariant, Sound, Tracked, TrackedIn
<1>4. \A i \in Indices : request[i].promptTokens \in Nat /\ request[i].maxGenerated \in Nat
  BY <1>1, RequestIs
<1>5. TypeOK
  <2>1. /\ remaining \in [Indices -> Nat] /\ generated \in [Indices -> Nat]
        /\ firstToken \in [Indices -> Int] /\ stepIndex \in Nat /\ budget \in 0..MaxPrefill
    BY <1>4, SchedulerAssumption DEF Init
  <2>2. /\ allocated \in [Indices -> BOOLEAN] /\ ready \in [Indices -> BOOLEAN]
        /\ done \in [Indices -> BOOLEAN] /\ todo \subseteq Indices
        /\ status \in [Indices -> {"queued", "completed", "rejected", "cancelled"}]
    BY DEF Init
  <2> QED
    BY <1>1, <1>2, <2>1, <2>2 DEF Init, TypeOK
<1>6. HolderInvariant
  BY <1>2 DEF Init, HolderInvariant, HeldByRunningSequences, Running, IdsOf
<1>7. ResultInvariant
  BY <1>4 DEF Init, ResultInvariant
<1>8. ControlInvariant
  BY DEF Init, ControlInvariant
<1>9. OrderInvariant
  BY DEF Init, OrderInvariant, FirstTokensInPriorityOrder
<1> QED
  BY <1>3, <1>5, <1>6, <1>7, <1>8, <1>9 DEF Inv

\* It is inductive: every step of the thread and of the environment keeps it.
LEMMA Invariance == Spec => []Inv
<1>1. Inv /\ [Next]_vars => Inv'
  BY CacheStep, TypeStep, HolderStep, ResultStep, ControlStep, OrderStep DEF Inv
<1> QED
  BY <1>1, InitInv, PTL DEF Spec

-----------------------------------------------------------------------------
(* Order.                                                                  *)

\* Prompts get memory, and sequences their first token, in the order of the
\* priorities, however prompts are cut into chunks and slots are limited.
THEOREM PriorityRespectedHolds == Spec => []PriorityRespected
<1>1. Inv => PriorityRespected
  <2> SUFFICES ASSUME Inv PROVE PriorityRespected
    OBVIOUS
  <2>1. PromptsInPriorityOrder
    BY DEF Inv, OrderInvariant, ResultInvariant, PromptsInPriorityOrder
  <2> QED
    BY <2>1 DEF Inv, OrderInvariant, PriorityRespected
<1> QED
  BY <1>1, Invariance, PTL

-----------------------------------------------------------------------------
(* Memory.                                                                 *)

\* Without running sequences the cache holds prefixes, and they are idle.
LEMMA PrefixesOnly ==
  ASSUME NEW c, Accounted(c), Tracked(c), c.live = {}
  PROVE  /\ c.occupied = EntryBlocks(c, c.cached)
         /\ \A k \in c.cached : Idle(c, k)
<1>1. Held(c) = {}
  BY DEF Held
<1>2. /\ c \in Cache /\ CachedResident(c)
      /\ \A b \in Blocks : c.refCount[b] \in Nat /\ (c.refCount[b] > 0 <=> b \in Held(c))
  BY AccountedIs DEF Consistent
<1>3. c.occupied \in SUBSET Blocks
  BY <1>2, CacheFields
<1>4. EntryBlocks(c, c.cached) \subseteq c.occupied
  BY <1>2 DEF CachedResident, EntryBlocks
<1>5. c.occupied \subseteq EntryBlocks(c, c.cached)
  BY <1>1 DEF Tracked, TrackedIn, EntryBlocks
<1>6. ASSUME NEW k \in c.cached
      PROVE  Idle(c, k)
  <2>1. c.entryBlocks[k] \subseteq Blocks
    BY <1>2, <1>3 DEF CachedResident
  <2> QED
    BY <1>1, <1>2, <2>1 DEF Idle
<1> QED
  BY <1>4, <1>5, <1>6

\* The allocator holds blocks for the running sequences and for nobody else,
\* whichever way sequences leave, and Run leaves nothing behind but idle prefixes.
THEOREM MemoryAccountedHolds == Spec => []MemoryAccounted
<1>1. Inv => MemoryAccounted
  <2> SUFFICES ASSUME Inv PROVE MemoryAccounted
    OBVIOUS
  <2>1. ASSUME pc \in {"finished", "texts", "end"}
        PROVE  /\ kv.live = {}
               /\ kv.occupied = EntryBlocks(kv, kv.cached)
               /\ \A k \in kv.cached : Idle(kv, k)
    <3>1. Running = {}
      BY <2>1 DEF Inv, ControlInvariant, Unfinished, Running
    <3>2. kv.live = {}
      BY <3>1 DEF Inv, HolderInvariant, HeldByRunningSequences, IdsOf
    <3> QED
      BY <3>2, PrefixesOnly DEF Inv, CacheInvariant, Sound
  <2> QED
    BY <2>1 DEF Inv, HolderInvariant, MemoryAccounted, EndsWithPrefixesOnly
<1> QED
  BY <1>1, Invariance, PTL

\* A prompt never takes more blocks than its prefix and the rest of it need.
LEMMA NeededIs ==
  ASSUME CacheInvariant, NEW i \in Indices, ~allocated[i]
  PROVE  LET need == PromptNeed(kv, request[i].promptTokens, request[i].key,
                                request[i].prefixTokens)
         IN need \in Nat /\ Needed(i) \in Nat /\ need <= Needed(i)
<1> DEFINE r == request[i]
           need == PromptNeed(kv, r.promptTokens, r.key, r.prefixTokens)
           cacheable == CacheableOf(r)
           suffix == BlocksFor(r.promptTokens - cacheable)
           hit == cacheable > 0 /\ r.key \in kv.cached /\ kv.entryTokens[r.key] = cacheable
           new == kv.entryBlocks[r.key] \ Held(kv)
<1>1. r.promptTokens \in Nat /\ cacheable \in 0..r.promptTokens
  BY RequestIs DEF CacheInvariant
<1>2. MaxOf(0, r.promptTokens) = r.promptTokens
  BY <1>1 DEF MaxOf
<1>3. need = IF hit THEN suffix + Cardinality(new) ELSE suffix + BlocksFor(cacheable)
  BY <1>2 DEF PromptNeed, CacheableOf
<1>4. Needed(i) = BlocksFor(cacheable) + suffix
  BY DEF Needed
<1>5. BlocksFor(cacheable) \in Nat /\ suffix \in Nat
  <2>1. cacheable \in Int /\ r.promptTokens - cacheable \in Int
    BY <1>1
  <2> QED
    BY <2>1, BlocksForIs
<1>6. ASSUME hit
      PROVE  Cardinality(new) \in Nat /\ Cardinality(new) <= BlocksFor(cacheable)
  <2>1. kv \in Cache /\ CachedResident(kv)
    BY DEF CacheInvariant, Sound, Accounted, CacheWellFormed
  <2>2. kv.entryBlocks[r.key] \in SUBSET Blocks
    BY <1>6, <2>1, CacheFields
  <2>3. Cardinality(kv.entryBlocks[r.key]) = BlocksFor(cacheable)
    BY <1>6, <2>1 DEF CachedResident
  <2>4. new \in SUBSET kv.entryBlocks[r.key] /\ new \in SUBSET Blocks
    BY <2>2
  <2>5. Cardinality(new) \in Nat
    BY <2>4, BlocksFinite
  <2>6. Cardinality(new) <= Cardinality(kv.entryBlocks[r.key])
    BY <2>2, <2>4, BlocksMonotone
  <2> QED
    BY <2>3, <2>5, <2>6
<1> SUFFICES need \in Nat /\ Needed(i) \in Nat /\ need <= Needed(i)
  OBVIOUS
<1> HIDE DEF r, need, cacheable, suffix, hit, new
<1> QED
  BY <1>3, <1>4, <1>5, <1>6

\* A sequence with an id of its own is turned away only if its blocks do not fit
\* beside those that the running sequences hold.
THEOREM RejectedOnlyUnderPressureHolds == Spec => RejectedOnlyUnderPressure
<1>1. ASSUME Inv, Next, NEW i \in Indices,
             status'[i] = "rejected", status[i] # "rejected", request[i].id # EmptyId,
             allocated[i] \/ request[i].id \notin kv.live
      PROVE  Cardinality(Held(kv)) + Needed(i) > TotalBlocks
  <2>1. TypeOK /\ CacheInvariant /\ HolderInvariant /\ ResultInvariant /\ ControlInvariant
    BY <1>1 DEF Inv
  <2>2. Accounted(kv)
    BY <2>1 DEF CacheInvariant, Sound
  <2>3. RejectPrompt(i) \/ RejectToken(i)
    <3>1. PICK j \in Indices : Iteration(j)
      <4>1. ~Moves
        BY <1>1 DEF Moves, resultVars
      <4> QED
        BY <1>1, <4>1, StepCases
    <3>2. status' # status /\ j = i
      BY <1>1, <2>1, <3>1
      DEF Iteration, Cancel, RejectPrompt, Prefill, RejectToken, Decode, Complete, Leave,
          Settle, resultVars, TypeOK
    <3> QED
      BY <1>1, <2>1, <3>1, <3>2
      DEF Iteration, Cancel, Prefill, Decode, Complete, Leave, Settle, resultVars, TypeOK
  <2>4. CASE RejectPrompt(i)
    <3> DEFINE out == PromptAllocation(i)
               need == PromptNeed(kv, request[i].promptTokens, request[i].key,
                                  request[i].prefixTokens)
    <3>1. ~allocated[i] /\ out.reply \notin {"ok", "hit"}
      BY <2>4 DEF RejectPrompt
    <3>2. Sound(out.kv) /\ Refusal(kv, out.kv, need)
      BY <1>1, <2>1, <3>1, PromptAllocationIs DEF PromptPromise
    <3>3. need \in Nat /\ Needed(i) \in Nat /\ need <= Needed(i)
      BY <2>1, <3>1, NeededIs
    <3> HIDE DEF out, need
    <3>4. Cardinality(Held(kv)) \in Nat /\ Cardinality(Held(kv)) + need > TotalBlocks
      BY <2>2, <3>2, <3>3, Pressure DEF Sound
    <3> QED
      BY <3>3, <3>4, KvAssumption
  <2>5. CASE RejectToken(i)
    <3> DEFINE out == TokenAllocation(i)
    <3>1. i \in Running /\ pc # "cancel" /\ out.reply # "ok"
      BY <2>1, <2>5 DEF RejectToken, NextByPriority, ControlInvariant, ResultInvariant,
         DecodeCandidates, Unfinished, Running
    <3>2. request[i].id \in kv.live
      BY <2>1, <3>1 DEF HolderInvariant, HeldByRunningSequences, IdsOf
    <3>3. Sound(out.kv) /\ Refusal(kv, out.kv, 1)
      BY <2>1, <3>1, <3>2, TokenAllocationIs DEF TokenPromise
    <3> HIDE DEF out
    <3>4. Cardinality(Held(kv)) + 1 > TotalBlocks
      BY <2>2, <3>3, Pressure DEF Sound
    <3>5. Needed(i) = 1
      BY <3>1 DEF Needed, Running
    <3> QED
      BY <3>4, <3>5
  <2> QED
    BY <2>3, <2>4, <2>5
<1>2. Inv /\ [Next]_vars =>
        [\A i \in Indices :
           /\ status'[i] = "rejected" /\ status[i] # "rejected"
           /\ request[i].id # EmptyId
           /\ allocated[i] \/ request[i].id \notin kv.live
           => Cardinality(Held(kv)) + Needed(i) > TotalBlocks]_vars
  BY <1>1
<1> QED
  BY <1>2, Invariance, PTL DEF Spec, RejectedOnlyUnderPressure

-----------------------------------------------------------------------------
(* Refinement.                                                             *)

\* The outputs that the contract speaks of: none until the texts are generated,
\* then one for each sequence the loop has passed.
LEMMA OutputsIs ==
  ASSUME Inv
  PROVE  /\ pc # "texts" /\ outcome # "ok" => Outputs = 0
         /\ pc = "texts" => Outputs = Cardinality(Indices \ todo)
<1>1. ASSUME pc = "texts"
      PROVE  {i \in Indices \ todo :
                status[i] = "completed" /\ generated[i] = request[i].maxGenerated} = Indices \ todo
  BY <1>1 DEF Inv, ControlInvariant, ResultInvariant
<1> QED
  BY <1>1 DEF Outputs

\* ProcessBatch gives up: the texts generated so far are dropped.
LEMMA FailRefines ==
  ASSUME NEW failure \in {"cancelled", "unavailable"},
         outcome = "none", outcome' = failure, pc' = "end", cancelled' = cancelled,
         failure = "cancelled" => cancelled
  PROVE  Contract!Next
<1>1. Outputs' = 0
  BY DEF Outputs
<1>2. Contract!Fail(failure)
  BY <1>1 DEF Contract!Fail
<1> QED
  BY <1>2 DEF Contract!Next

\* Every step of ProcessBatch is a step of the contract or a stutter.
LEMMA StepRefines ==
  ASSUME Inv, [Next]_vars
  PROVE  [Contract!Next]_(Contract!vars)
<1>1. TypeOK /\ ControlInvariant /\ ResultInvariant
  BY DEF Inv
<1>2. Inv'
  BY CacheStep, TypeStep, HolderStep, ResultStep, ControlStep, OrderStep DEF Inv
<1>3. pc # "end" => outcome = "none"
  BY <1>1 DEF ControlInvariant
<1>4. pc' = "texts" => Outputs' = Cardinality(Indices \ todo')
  <2>1. pc' = "texts" => {i \in Indices \ todo' : status'[i] = "completed"
                            /\ generated'[i] = request'[i].maxGenerated} = Indices \ todo'
    BY <1>2 DEF Inv, ControlInvariant, ResultInvariant
  <2> QED
    BY <2>1 DEF Outputs
<1>5. ASSUME cancelled' = cancelled, outcome' = outcome, pc # "texts", pc' # "texts", pc # "end"
      PROVE  UNCHANGED Contract!vars
  <2>1. Outputs = 0 /\ Outputs' = 0
    BY <1>3, <1>5 DEF Outputs
  <2> QED
    BY <1>5, <2>1 DEF Contract!vars
<1>6. CASE Start
  <2>1. /\ pc = "start" /\ cancelled' = cancelled
        /\ \/ cancelled /\ pc' = "end" /\ outcome' = "cancelled"
           \/ pc' = "step" /\ outcome' = outcome
    BY <1>6 DEF Start, GoTo
  <2> QED
    BY <1>3, <1>5, <2>1, FailRefines
<1>7. CASE ReportCancelled
  <2>1. /\ pc = "finished" /\ cancelled' = cancelled /\ cancelled
        /\ pc' = "end" /\ outcome' = "cancelled"
    BY <1>1, <1>7 DEF ReportCancelled, GoTo, ControlInvariant
  <2> QED
    BY <1>3, <2>1, FailRefines
<1>8. CASE BeginTexts
  <2>1. pc = "finished" /\ pc' = "texts" /\ todo' = Indices /\ UNCHANGED <<cancelled, outcome>>
    BY <1>8 DEF BeginTexts, GoTo
  <2>2. Outputs = 0 /\ Outputs' = Cardinality(Indices \ todo')
    BY <1>3, <1>4, <2>1, OutputsIs
  <2>3. Outputs' = 0
    BY <2>1, <2>2, FS_EmptySet
  <2> QED
    BY <2>1, <2>2, <2>3 DEF Contract!vars
<1>9. ASSUME NEW i \in Indices, GenerateText(i)
      PROVE  [Contract!Next]_(Contract!vars)
  <2>1. /\ pc = "texts" /\ i \in todo /\ todo' = todo \ {i} /\ cancelled' = cancelled
        /\ \/ outcome' = "unavailable" /\ pc' = "end"
           \/ cancelled /\ outcome' = "cancelled" /\ pc' = "end"
           \/ outcome' = outcome /\ pc' = "texts"
    BY <1>9 DEF GenerateText, NextByIndex, GoTo
  <2>2. CASE pc' = "end"
    BY <1>3, <2>1, <2>2, FailRefines
  <2>3. CASE outcome' = outcome /\ pc' = "texts"
    <3> DEFINE A == Indices \ todo
    <3>1. Outputs = Cardinality(A) /\ Outputs' = Cardinality(Indices \ todo')
      BY <1>4, <2>1, <2>3, OutputsIs
    <3>2. Indices \ todo' = A \cup {i} /\ i \notin A
      BY <2>1
    <3>3. IsFiniteSet(Indices) /\ IsFiniteSet(A) /\ A \cup {i} \subseteq Indices
      BY SchedulerAssumption, FS_Subset
    <3>4. Cardinality(A \cup {i}) = Cardinality(A) + 1
      BY <3>2, <3>3, FS_AddElement
    <3>5. Cardinality(A \cup {i}) <= Cardinality(Indices)
      BY <3>3, FS_Subset
    <3>6. Cardinality(A) \in Nat /\ Cardinality(Indices) \in Nat
      BY <3>3, FS_CardinalityType
    <3>7. Outputs' = Cardinality(A \cup {i})
      BY <3>1, <3>2
    <3> HIDE DEF A
    <3>8. Outputs' \in (Outputs + 1)..Cardinality(Indices)
      BY <3>1, <3>4, <3>5, <3>6, <3>7
    <3>9. Contract!Produce
      BY <1>3, <2>1, <2>3, <3>8 DEF Contract!Produce
    <3> QED
      BY <3>9 DEF Contract!Next
  <2> QED
    BY <2>1, <2>2, <2>3
<1>10. CASE ReportOk
  <2>1. /\ pc = "texts" /\ todo = {} /\ outcome' = "ok"
        /\ UNCHANGED <<cancelled, todo, status, generated, request>>
    BY <1>10 DEF ReportOk, GoTo, stateVars, resultVars, stepVars
  <2>2. Outputs = Cardinality(Indices)
    BY <2>1, OutputsIs
  <2>3. Outputs' = Outputs
    BY <2>1 DEF Outputs
  <2>4. Contract!Succeed
    BY <1>3, <2>1, <2>2, <2>3 DEF Contract!Succeed
  <2> QED
    BY <2>4 DEF Contract!Next
<1>11. CASE RpcCancelled
  <2>1. /\ ~cancelled /\ cancelled' = TRUE
        /\ UNCHANGED <<pc, outcome, todo, status, generated, request>>
    BY <1>11 DEF RpcCancelled, stateVars, resultVars, stepVars
  <2>2. Outputs' = Outputs
    BY <2>1 DEF Outputs
  <2>3. Contract!Cancel
    BY <2>1, <2>2 DEF Contract!Cancel
  <2> QED
    BY <2>3 DEF Contract!Next
<1>12. CASE UNCHANGED vars
  <2>1. UNCHANGED <<cancelled, pc, outcome, todo, status, generated, request>>
    BY <1>12 DEF vars, stateVars, resultVars, stepVars
  <2>2. Outputs' = Outputs
    BY <2>1 DEF Outputs
  <2> QED
    BY <2>1, <2>2 DEF Contract!vars
<1>13. CASE \/ BeginStep \/ BeginCancel \/ EndRun \/ BeginDecode \/ BeginComplete \/ EndStep
            \/ \E i \in Indices : Iteration(i)
  <2>1. cancelled' = cancelled /\ outcome' = outcome /\ pc \notin {"texts", "end"} /\ pc' # "texts"
    BY <1>13
    DEF BeginStep, BeginCancel, EndRun, BeginDecode, BeginComplete, EndStep, GoTo, Iteration,
        Cancel, RejectPrompt, Prefill, RejectToken, Decode, Complete, Leave
  <2> QED
    BY <1>5, <2>1
<1> QED
  BY <1>6, <1>7, <1>8, <1>9, <1>10, <1>11, <1>12, <1>13
  DEF Next, Thread, Returned, Iteration

\* ContinuousTinyLLMBackend::ProcessBatch implements the contract of
\* InferenceBackend.
THEOREM Refinement == Spec => ImplementsContract
<1>1. Init => Contract!Init
  BY DEF Init, Outputs, Contract!Init
<1>2. Inv /\ [Next]_vars => [Contract!Next]_(Contract!vars)
  BY StepRefines
<1> QED
  BY <1>1, <1>2, Invariance, PTL DEF Spec, ImplementsContract, Contract!Spec

=============================================================================
