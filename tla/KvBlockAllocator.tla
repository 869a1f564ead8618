-------------------------- MODULE KvBlockAllocator ---------------------------
(***************************************************************************)
(* KvBlockAllocator as an object whose client calls its operations in any  *)
(* order: AllocatePrompt, AppendTokens and ReleaseSequence of              *)
(* backend/scheduling/continuous_batcher.cc.                               *)
(***************************************************************************)
EXTENDS KvCache

CONSTANTS
  PromptLengths,     \* the prompt_tokens arguments
  PrefixLengths,     \* the prefix_tokens arguments; -1 is the default
  MaxAppend,         \* bound on one AppendTokens call
  MaxGenerated       \* bound on a sequence's generated tokens

ASSUME AllocatorAssumption ==
  /\ PromptLengths \subseteq Int /\ MaxAppend \in Nat /\ MaxGenerated \in Nat
  /\ PrefixLengths \subseteq Int

VARIABLES
  allocator,         \* the state of the allocator
  reply,             \* the outcome of the last call
  demand             \* history: the unheld blocks the last call had to take

allocatorVars == <<allocator, reply, demand>>

Replies == {"none", "ok", "hit", "required", "exists", "missing", "exhausted"}

\* The blocks a prompt needs that no live sequence holds yet.
PromptDemand(s, promptTokens, key, prefix) ==
  LET tokens == MaxOf(0, promptTokens)
      cacheable == Cacheable(tokens, key, prefix)
      suffix == BlocksFor(tokens - cacheable)
      hit == /\ cacheable > 0 /\ key \in allocator.cached
             /\ allocator.entryTokens[key] = cacheable
  IN IF hit THEN suffix + Cardinality(allocator.entryBlocks[key] \ Held(allocator))
     ELSE suffix + BlocksFor(cacheable)

AllocatorInit == allocator = EmptyCache /\ reply = "none" /\ demand = 0

Answer(outcome) == allocator' = outcome.kv /\ reply' = outcome.reply

Allocate(s, tokens, key, prefix) ==
  /\ Answer(AllocatePrompt(allocator, s, tokens, key, prefix))
  /\ demand' = PromptDemand(s, tokens, key, prefix)

Append(s, n) ==
  /\ allocator.generated[s] + n <= MaxGenerated
  /\ Answer(AppendTokens(allocator, s, n))
  /\ demand' = Additional(allocator, s, n)

Release(s) ==
  /\ allocator' = ReleaseSequence(allocator, s)
  /\ reply' = "none"
  /\ demand' = 0

AllocatorNext ==
  \E s \in Sequences :
    \/ \E tokens \in PromptLengths, key \in Keys \cup {NoKey}, prefix \in PrefixLengths :
         Allocate(s, tokens, key, prefix)
    \/ \E n \in 0..MaxAppend : Append(s, n)
    \/ Release(s)

AllocatorSpec == AllocatorInit /\ [][AllocatorNext]_allocatorVars

-----------------------------------------------------------------------------
AllocatorTypeOK == allocator \in Cache /\ reply \in Replies /\ demand \in Nat

\* The bookkeeping survives every sequence of calls, failed ones included: the
\* reference count of a block is the number of sequences that hold it, what is
\* held or cached is resident, only tagged blocks are shared, and a live
\* sequence holds exactly the blocks its tokens need.
WellFormed == AllocatorTypeOK /\ CacheWellFormed(allocator) /\ SizedRight(allocator)

\* A call that fails leaves every sequence as it was: the pin on a shared
\* prefix is undone and a half-allocated prompt is given back.
FailureLeavesSequences ==
  [][reply' \in {"required", "exists", "missing", "exhausted"} =>
       /\ allocator'.live = allocator.live
       /\ allocator'.blocksOf = allocator.blocksOf
       /\ allocator'.generated = allocator.generated
       /\ allocator'.refCount = allocator.refCount]_allocatorVars

\* The blocks that AllocatePrompt loses sight of when it overwrites the entry of
\* a key that is reused with another prefix length: they keep their tag, so no
\* release frees them, and belong to no entry, so no eviction does.
Orphans ==
  {b \in allocator.occupied \ Held(allocator) :
     b \notin EntryBlocks(allocator, allocator.cached)}

\* A call is refused for lack of blocks only if the blocks that no sequence
\* holds, the orphans apart, could not have satisfied it: every idle prefix is
\* evicted under pressure, those behind a prefix in use included.
RefusedOnlyWhenFull ==
  reply = "exhausted" => Cardinality(Blocks \ (Held(allocator) \cup Orphans)) < demand

=============================================================================
