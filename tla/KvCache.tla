------------------------------- MODULE KvCache -------------------------------
(***************************************************************************)
(* The data structure of KvBlockAllocator                                  *)
(* (backend/scheduling/continuous_batcher.cc) and its operations, as       *)
(* functions from one state of the allocator to the next.  The allocator   *)
(* is used by one thread at a time.                                        *)
(*                                                                         *)
(* Vectors of block ids are sets: their order is never used, and a vector  *)
(* without repetitions is what CacheWellFormed below guarantees.  Prefix   *)
(* keys are numbers, ordered as std::map orders them; 0 is the empty key.  *)
(* The hit, miss, eviction and failure counters are left out: the          *)
(* allocator never reads them.                                             *)
(***************************************************************************)
EXTENDS Integers, FiniteSets

CONSTANTS
  Sequences,         \* the sequence ids
  EmptyId,           \* the empty one
  TotalBlocks,       \* config.total_blocks
  TokensPerBlock,    \* config.tokens_per_block
  PrefixKeys         \* the number of non-empty prefix-cache keys

\* What ClampPositive guarantees about the configuration; a batch has finitely
\* many sequences.
ASSUME KvAssumption ==
  /\ IsFiniteSet(Sequences) /\ EmptyId \in Sequences
  /\ TotalBlocks \in Nat \ {0}
  /\ TokensPerBlock \in Nat \ {0}
  /\ PrefixKeys \in Nat

Blocks == 1..TotalBlocks
Keys == 1..PrefixKeys
NoKey == 0

MinOf(a, b) == IF a < b THEN a ELSE b
MaxOf(a, b) == IF a > b THEN a ELSE b

CeilDiv(value, divisor) ==
  IF value <= 0 THEN 0 ELSE (value + divisor - 1) \div divisor
BlocksFor(tokens) == CeilDiv(tokens, TokensPerBlock)

\* A state of the allocator: Impl::blocks (occupied, refCount, tag), the map
\* sequences (live is its domain) and the map prefix_cache (cached is its
\* domain).
Cache ==
  [occupied      : SUBSET Blocks,
   refCount      : [Blocks -> Nat],
   tag           : [Blocks -> Keys \cup {NoKey}],
   live          : SUBSET Sequences,
   blocksOf      : [Sequences -> SUBSET Blocks],
   promptBlocks  : [Sequences -> Nat],
   generated     : [Sequences -> Nat],
   cached        : SUBSET Keys,
   entryTokens   : [Keys -> Nat],
   entryBlocks   : [Keys -> SUBSET Blocks],
   highWatermark : Nat]

EmptyCache ==
  [occupied      |-> {},
   refCount      |-> [b \in Blocks |-> 0],
   tag           |-> [b \in Blocks |-> NoKey],
   live          |-> {},
   blocksOf      |-> [s \in Sequences |-> {}],
   promptBlocks  |-> [s \in Sequences |-> 0],
   generated     |-> [s \in Sequences |-> 0],
   cached        |-> {},
   entryTokens   |-> [k \in Keys |-> 0],
   entryBlocks   |-> [k \in Keys |-> {}],
   highWatermark |-> 0]

-----------------------------------------------------------------------------
(* Free blocks and eviction.                                               *)

FreeBlocks(kv) == Blocks \ kv.occupied

\* PrefixEntryIsIdle: no sequence refers to the entry's blocks.
Idle(kv, k) == \A b \in kv.entryBlocks[k] : kv.refCount[b] = 0

\* The blocks of the prefix entries keys.
EntryBlocks(kv, keys) == UNION {kv.entryBlocks[k] : k \in keys}

\* FreeBlock, for every block of freed.
Free(kv, freed) ==
  [kv EXCEPT
     !.occupied = @ \ freed,
     !.refCount = [b \in Blocks |-> IF b \in freed THEN 0 ELSE @[b]],
     !.tag = [b \in Blocks |-> IF b \in freed THEN NoKey ELSE @[b]]]

\* Seeded fault: eviction stops at the first entry that is in use.
Evicted_stops(kv, n) ==
  {k \in kv.cached :
     /\ \A j \in kv.cached : j <= k => Idle(kv, j)
     /\ LET earlier == {j \in kv.cached : j < k}
        IN Cardinality(FreeBlocks(kv) \cup EntryBlocks(kv, earlier)) < n}

\* The entries EvictIdlePrefixesUntil erases: in key order, the idle entries
\* reached while there are still fewer than n free blocks.
Evicted(kv, n) ==
  {k \in kv.cached :
     /\ Idle(kv, k)
     /\ LET earlier == {j \in kv.cached : j < k /\ Idle(kv, j)}
        IN Cardinality(FreeBlocks(kv) \cup EntryBlocks(kv, earlier)) < n}

\* EnsureFreeBlocks: nothing is evicted when n blocks are free already.
EnsureFree(kv, n) ==
  LET gone == Evicted(kv, n) IN
  [Free(kv, EntryBlocks(kv, gone)) EXCEPT
     !.cached = @ \ gone,
     !.entryTokens = [k \in Keys |-> IF k \in gone THEN 0 ELSE @[k]],
     !.entryBlocks = [k \in Keys |-> IF k \in gone THEN {} ELSE @[k]]]

\* The n free blocks with the lowest ids.
LowestFree(kv, n) ==
  {b \in FreeBlocks(kv) : Cardinality({c \in FreeBlocks(kv) : c < b}) < n}

\* AllocateBlocks: n blocks tagged with key, or none; idle prefixes that were
\* evicted on the way stay evicted.  The caller compares the number of blocks
\* with n; ok is that comparison.
AllocateBlocks(kv, n, key) ==
  LET room == EnsureFree(kv, n)
      ids == LowestFree(room, n)
      used == room.occupied \cup ids
  IN IF n <= 0 THEN [kv |-> kv, ids |-> {}, ok |-> TRUE]
     ELSE IF n > Cardinality(FreeBlocks(room))
     THEN [kv |-> room, ids |-> {}, ok |-> FALSE]
     ELSE [kv |-> [room EXCEPT
                     !.occupied = used,
                     !.refCount = [b \in Blocks |-> IF b \in ids THEN 1 ELSE @[b]],
                     !.tag = [b \in Blocks |-> IF b \in ids THEN key ELSE @[b]],
                     !.highWatermark = MaxOf(@, Cardinality(used))],
           ids |-> ids, ok |-> TRUE]

-----------------------------------------------------------------------------
(* AllocatePrompt.                                                         *)

Outcome(kv, reply) == [kv |-> kv, reply |-> reply]

\* The prompt tokens that may be cached; a negative prefix means all of them.
Cacheable(tokens, key, prefix) ==
  IF key = NoKey THEN 0 ELSE IF prefix < 0 THEN tokens ELSE MinOf(tokens, prefix)

\* sequences.emplace for a sequence that takes the blocks ids.
Attach(kv, s, ids, count) ==
  [kv EXCEPT !.live = @ \cup {s},
             !.blocksOf[s] = ids,
             !.promptBlocks[s] = count,
             !.generated[s] = 0]

\* The reference counts of ids go up or down by one.
AddRef(kv, ids, delta) ==
  [kv EXCEPT !.refCount = [b \in Blocks |-> IF b \in ids THEN @[b] + delta ELSE @[b]]]

\* Seeded fault: the shared prefix is pinned only after the suffix has been
\* allocated, which may evict it.
SharePrefix_late(kv, s, key, suffix) ==
  LET prefix == kv.entryBlocks[key]
      got == AllocateBlocks(kv, suffix, NoKey)
  IN IF got.ok
     THEN Outcome(Attach(AddRef(got.kv, prefix, 1), s, prefix \cup got.ids,
                         Cardinality(prefix) + suffix), "hit")
     ELSE Outcome(got.kv, "exhausted")

\* Seeded fault: the shared prefix stays pinned when the suffix does not fit.
SharePrefix_noRollback(kv, s, key, suffix) ==
  LET prefix == kv.entryBlocks[key]
      got == AllocateBlocks(AddRef(kv, prefix, 1), suffix, NoKey)
  IN IF got.ok
     THEN Outcome(Attach(got.kv, s, prefix \cup got.ids,
                         Cardinality(prefix) + suffix), "hit")
     ELSE Outcome(got.kv, "exhausted")

\* Cache hit: the cached blocks are pinned first, then the suffix allocated;
\* when it does not fit, the pin is undone.
SharePrefix(kv, s, key, suffix) ==
  LET prefix == kv.entryBlocks[key]
      got == AllocateBlocks(AddRef(kv, prefix, 1), suffix, NoKey)
  IN IF got.ok
     THEN Outcome(Attach(got.kv, s, prefix \cup got.ids,
                         Cardinality(prefix) + suffix), "hit")
     ELSE Outcome(AddRef(got.kv, prefix, -1), "exhausted")

\* Cache miss, or nothing to cache: prefix and suffix are allocated one after
\* the other, the prefix freed again when the suffix does not fit, and the
\* cache entry of key written whatever it held before.
NewPrefix(kv, s, key, tokens, prefix, suffix) ==
  LET first == AllocateBlocks(kv, prefix, key)
      second == AllocateBlocks(first.kv, suffix, NoKey)
      attached == Attach(second.kv, s, first.ids \cup second.ids, prefix + suffix)
  IN IF ~first.ok THEN Outcome(first.kv, "exhausted")
     ELSE IF ~second.ok THEN Outcome(Free(second.kv, first.ids), "exhausted")
     ELSE IF tokens = 0 THEN Outcome(attached, "ok")
     ELSE Outcome([attached EXCEPT !.cached = @ \cup {key},
                                   !.entryTokens[key] = tokens,
                                   !.entryBlocks[key] = first.ids], "ok")

\* Negative token counts were raised to zero by the caller and are again here.
AllocatePrompt(kv, s, promptTokens, key, prefix) ==
  LET tokens == MaxOf(0, promptTokens)
      cacheable == Cacheable(tokens, key, prefix)
      suffix == BlocksFor(tokens - cacheable)
  IN IF s = EmptyId THEN Outcome(kv, "required")
     ELSE IF s \in kv.live THEN Outcome(kv, "exists")
     ELSE IF cacheable > 0 /\ key \in kv.cached /\ kv.entryTokens[key] = cacheable
     THEN SharePrefix(kv, s, key, suffix)
     ELSE NewPrefix(kv, s, key, cacheable, BlocksFor(cacheable), suffix)

-----------------------------------------------------------------------------
(* AppendTokens and ReleaseSequence.                                       *)

\* The blocks that n more generated tokens of sequence s need.
Additional(kv, s, n) ==
  BlocksFor(kv.generated[s] + n) - BlocksFor(kv.generated[s])

AppendTokens(kv, s, n) ==
  LET got == AllocateBlocks(kv, Additional(kv, s, n), NoKey)
  IN IF s \notin kv.live THEN Outcome(kv, "missing")
     ELSE IF n <= 0 THEN Outcome(kv, "ok")
     ELSE IF ~got.ok THEN Outcome(got.kv, "exhausted")
     ELSE Outcome([got.kv EXCEPT !.generated[s] = @ + n,
                                 !.blocksOf[s] = @ \cup got.ids], "ok")

\* The last reference to a block frees it, unless a prefix key is on it.
ReleaseSequence(kv, s) ==
  LET held == kv.blocksOf[s]
      unpinned == [kv EXCEPT !.refCount = [b \in Blocks |->
                     IF b \in held THEN MaxOf(0, @[b] - 1) ELSE @[b]]]
      freed == {b \in held : unpinned.refCount[b] = 0 /\ kv.tag[b] = NoKey}
  IN IF s \notin kv.live THEN kv
     ELSE [Free(unpinned, freed) EXCEPT !.live = @ \ {s},
                                        !.blocksOf[s] = {},
                                        !.promptBlocks[s] = 0,
                                        !.generated[s] = 0]

-----------------------------------------------------------------------------
(* What a state of the allocator has to satisfy.                           *)

Holders(kv, b) == {s \in kv.live : b \in kv.blocksOf[s]}
Held(kv) == UNION {kv.blocksOf[s] : s \in kv.live}

\* Reference counts are exact, held and cached blocks are resident, a cached
\* block carries the key of the one entry it belongs to, two sequences share a
\* block only through the prefix cache, and a sequence that holds a block of a
\* cached prefix holds the whole prefix.
RefCountsExact(kv) ==
  \A b \in Blocks : kv.refCount[b] = Cardinality(Holders(kv, b))
HeldResident(kv) == Held(kv) \subseteq kv.occupied
CachedResident(kv) ==
  \A k \in kv.cached : /\ kv.entryBlocks[k] \subseteq kv.occupied
                       /\ \A b \in kv.entryBlocks[k] : kv.tag[b] = k
                       /\ Cardinality(kv.entryBlocks[k]) = BlocksFor(kv.entryTokens[k])
SharedByPrefixOnly(kv) ==
  \A s, t \in kv.live : s # t =>
    \A b \in kv.blocksOf[s] \cap kv.blocksOf[t] : kv.tag[b] # NoKey
PrefixesWhole(kv) ==
  \A s \in kv.live, k \in kv.cached :
    kv.blocksOf[s] \cap kv.entryBlocks[k] # {} => kv.entryBlocks[k] \subseteq kv.blocksOf[s]
CacheWellFormed(kv) ==
  /\ RefCountsExact(kv)
  /\ HeldResident(kv)
  /\ CachedResident(kv)
  /\ SharedByPrefixOnly(kv)
  /\ PrefixesWhole(kv)

\* A sequence holds the blocks of its prompt and of the tokens generated so
\* far, and no more.
SizedRight(kv) ==
  \A s \in kv.live :
    Cardinality(kv.blocksOf[s]) = kv.promptBlocks[s] + BlocksFor(kv.generated[s])

=============================================================================
