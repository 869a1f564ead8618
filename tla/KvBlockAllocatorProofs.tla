----------------------- MODULE KvBlockAllocatorProofs ------------------------
(***************************************************************************)
(* Theorems about KvBlockAllocator, for every number of blocks, block size,*)
(* set of sequences and set of prefix keys.  The lemmas speak of one state *)
(* c of the allocator and of what an operation of KvCache makes of it.     *)
(***************************************************************************)
EXTENDS KvBlockAllocator, FunctionTheorems, FiniteSetTheorems, TLAPS

-----------------------------------------------------------------------------
(* Elements of a finite set of numbers by their rank.                      *)

Rank(S, x) == Cardinality({y \in S : y < x})

\* The rank numbers the elements of S from 0 without gaps.
LEMMA RankIsBijection ==
  ASSUME NEW S \in SUBSET Int, IsFiniteSet(S)
  PROVE  [x \in S |-> Rank(S, x)] \in Bijection(S, 0..(Cardinality(S) - 1))
<1> DEFINE N == Cardinality(S)
           T == 0..(N - 1)
           f == [x \in S |-> Rank(S, x)]
<1>1. N \in Nat
  BY FS_CardinalityType
<1>2. ASSUME NEW x \in S
      PROVE  /\ Rank(S, x) \in T
             /\ IsFiniteSet({y \in S : y < x})
  <2> DEFINE L == {y \in S : y < x}
  <2>1. L \in SUBSET S /\ L # S
    OBVIOUS
  <2>2. IsFiniteSet(L) /\ Cardinality(L) <= N /\ (N = Cardinality(L) => S = L)
    BY <2>1, FS_Subset
  <2>3. Cardinality(L) \in Nat
    BY <2>2, FS_CardinalityType
  <2> QED
    BY <1>1, <2>1, <2>2, <2>3 DEF Rank
<1>3. ASSUME NEW x \in S, NEW z \in S, x < z
      PROVE  Rank(S, x) < Rank(S, z)
  <2> DEFINE L == {y \in S : y < x}
             M == {y \in S : y < z}
  <2>0. x \in M /\ x \notin L /\ \A y \in S : y < x => y < z
    BY <1>3
  <2>1. L \in SUBSET M /\ L # M
    BY <2>0
  <2>2. IsFiniteSet(M)
    BY <1>2
  <2>3. Cardinality(L) <= Cardinality(M) /\ Cardinality(M) # Cardinality(L)
    BY <2>1, <2>2, FS_Subset
  <2>4. Cardinality(L) \in Nat /\ Cardinality(M) \in Nat
    BY <1>2, <2>2, FS_CardinalityType
  <2> QED
    BY <2>3, <2>4 DEF Rank
<1>4. f \in [S -> T]
  BY <1>2
<1>5. ASSUME NEW a \in S, NEW b \in S, f[a] = f[b]
      PROVE  a = b
  <2>1. Rank(S, a) = Rank(S, b)
    BY <1>5
  <2>2. Rank(S, a) \in T /\ Rank(S, b) \in T
    BY ONLY <1>2, a \in S, b \in S
  <2>3. ~ (a < b) /\ ~ (b < a)
    BY ONLY <1>1, <2>1, <2>2, <1>3, a \in S, b \in S
  <2> QED
    BY <2>3
<1> HIDE DEF f
<1>6. f \in Injection(S, T)
  BY <1>4, <1>5, Fun_IsInj
<1>7. IsFiniteSet(T) /\ Cardinality(T) = N
  BY <1>1, FS_Interval
<1>8. f \in Surjection(S, T)
  BY <1>6, <1>7, FS_Injection
<1> QED
  BY <1>6, <1>8 DEF f, Bijection

\* A set of numbers has a least element.
LEMMA LeastExists ==
  ASSUME NEW S \in SUBSET Int, IsFiniteSet(S), S # {}
  PROVE  \E x \in S : \A y \in S : ~ (y < x)
<1> DEFINE f == [x \in S |-> Rank(S, x)]
<1>1. Cardinality(S) \in Nat /\ Cardinality(S) # 0
  BY FS_CardinalityType, FS_EmptySet
<1>2. 0 \in 0..(Cardinality(S) - 1)
  BY <1>1
<1>3. \E x \in S : f[x] = 0
  BY <1>2, RankIsBijection DEF Bijection, Surjection
<1>4. PICK x \in S : Rank(S, x) = 0
  BY <1>3
<1>5. {y \in S : y < x} \in SUBSET S
  OBVIOUS
<1>6. IsFiniteSet({y \in S : y < x})
  BY <1>5, FS_Subset
<1>7. {y \in S : y < x} = {}
  BY <1>4, <1>6, FS_EmptySet DEF Rank
<1> QED
  BY <1>7

\* The elements of rank below n are n of them, if there are that many.
LEMMA LowestCount ==
  ASSUME NEW S \in SUBSET Int, IsFiniteSet(S), NEW n \in Nat, n <= Cardinality(S)
  PROVE  Cardinality({x \in S : Rank(S, x) < n}) = n
<1> DEFINE L == {x \in S : Rank(S, x) < n}
           f == [x \in S |-> Rank(S, x)]
           g == [x \in L |-> Rank(S, x)]
           T == 0..(n - 1)
<1>1. Cardinality(S) \in Nat
  BY FS_CardinalityType
<1>2. /\ f \in [S -> 0..(Cardinality(S) - 1)]
      /\ \A a, b \in S : f[a] = f[b] => a = b
      /\ \A t \in 0..(Cardinality(S) - 1) : \E x \in S : f[x] = t
  BY RankIsBijection DEF Bijection, Injection, Surjection, IsInjective
<1>3. \A x \in S : Rank(S, x) \in 0..(Cardinality(S) - 1)
  <2>1. \A x \in S : f[x] = Rank(S, x)
    OBVIOUS
  <2> QED
    BY <1>2, <2>1
<1>4. g \in [L -> T]
  <2>1. \A x \in L : Rank(S, x) \in T
    BY <1>1, <1>3
  <2> QED
    BY <2>1
<1>5. \A a, b \in L : g[a] = g[b] => a = b
  BY <1>2
<1>6. \A t \in T : \E x \in L : g[x] = t
  <2> SUFFICES ASSUME NEW t \in T PROVE \E x \in L : g[x] = t
    OBVIOUS
  <2>1. t \in 0..(Cardinality(S) - 1) /\ t < n
    BY <1>1
  <2>2. PICK x \in S : f[x] = t
    BY <2>1, <1>2
  <2> QED
    BY <2>1, <2>2
<1> HIDE DEF g
<1>7. g \in Bijection(L, T)
  BY <1>4, <1>5, <1>6, Fun_IsInj, Fun_IsSurj DEF Bijection
<1>8. ExistsBijection(L, T)
  BY <1>7 DEF ExistsBijection
<1>9. IsFiniteSet(L)
  BY FS_Subset, L \in SUBSET S
<1>10. Cardinality(T) = Cardinality(L)
  BY <1>8, <1>9, FS_Bijection
<1>11. Cardinality(T) = n
  BY FS_Interval
<1> QED
  BY <1>10, <1>11

-----------------------------------------------------------------------------
(* Sizes.                                                                  *)

\* The number of blocks for some tokens is a number that grows with them.
LEMMA BlocksForIs ==
  /\ \A a \in Int : BlocksFor(a) \in Nat
  /\ \A a, b \in Int : a <= b => BlocksFor(a) <= BlocksFor(b)
  /\ \A a \in Int : a <= 0 => BlocksFor(a) = 0
<1>1. TokensPerBlock \in Nat \ {0}
  BY KvAssumption
<1>2. ASSUME NEW a \in Nat, NEW b \in Nat, a <= b
      PROVE  a \div TokensPerBlock \in Nat /\ a \div TokensPerBlock <= b \div TokensPerBlock
  BY <1>1, <1>2
<1>3. ASSUME NEW a \in Int
      PROVE  BlocksFor(a) \in Nat
  <2>1. CASE a <= 0
    BY <2>1 DEF BlocksFor, CeilDiv
  <2>2. CASE ~ (a <= 0)
    <3>1. a + TokensPerBlock - 1 \in Nat
      BY <1>1, <2>2
    <3>2. (a + TokensPerBlock - 1) \div TokensPerBlock \in Nat
      BY <3>1, <1>2
    <3> QED
      BY <2>2, <3>2 DEF BlocksFor, CeilDiv
  <2> QED
    BY <2>1, <2>2
<1>4. ASSUME NEW a \in Int, NEW b \in Int, a <= b
      PROVE  BlocksFor(a) <= BlocksFor(b)
  <2>1. CASE a <= 0
    BY <2>1, <1>3 DEF BlocksFor, CeilDiv
  <2>2. CASE ~ (a <= 0)
    <3>1. /\ a + TokensPerBlock - 1 \in Nat
          /\ b + TokensPerBlock - 1 \in Nat
          /\ a + TokensPerBlock - 1 <= b + TokensPerBlock - 1
          /\ ~ (b <= 0)
      BY <1>1, <1>4, <2>2
    <3>2. (a + TokensPerBlock - 1) \div TokensPerBlock
            <= (b + TokensPerBlock - 1) \div TokensPerBlock
      BY <3>1, <1>2
    <3> QED
      BY <2>2, <3>1, <3>2 DEF BlocksFor, CeilDiv
  <2> QED
    BY <2>1, <2>2
<1> QED
  BY <1>3, <1>4 DEF BlocksFor, CeilDiv

\* Sets of blocks and of keys are finite sets of numbers.
LEMMA BlocksFinite ==
  /\ IsFiniteSet(Blocks) /\ Blocks \subseteq Int
  /\ IsFiniteSet(Keys) /\ Keys \subseteq Nat /\ NoKey \notin Keys
  /\ \A B \in SUBSET Blocks : IsFiniteSet(B) /\ Cardinality(B) \in Nat
<1>1. IsFiniteSet(Blocks) /\ IsFiniteSet(Keys)
  BY KvAssumption, FS_Interval DEF Blocks, Keys
<1>2. Blocks \subseteq Int /\ Keys \subseteq Nat /\ NoKey \notin Keys
  BY KvAssumption DEF Blocks, Keys, NoKey
<1>3. ASSUME NEW B \in SUBSET Blocks
      PROVE  IsFiniteSet(B) /\ Cardinality(B) \in Nat
  BY <1>1, FS_Subset, FS_CardinalityType
<1> QED
  BY <1>1, <1>2, <1>3

\* A set of blocks that contains another has at least as many.
LEMMA BlocksMonotone ==
  ASSUME NEW B \in SUBSET Blocks, NEW A \in SUBSET B
  PROVE  Cardinality(A) <= Cardinality(B)
BY BlocksFinite, FS_Subset

\* Two sets of blocks together, exactly when they are disjoint.
LEMMA BlocksUnion ==
  ASSUME NEW A \in SUBSET Blocks, NEW B \in SUBSET Blocks
  PROVE  /\ Cardinality(A \cup B) <= Cardinality(A) + Cardinality(B)
         /\ A \cap B = {} => Cardinality(A \cup B) = Cardinality(A) + Cardinality(B)
<1>1. /\ IsFiniteSet(A) /\ IsFiniteSet(B) /\ Cardinality(A) \in Nat /\ Cardinality(B) \in Nat
      /\ A \cap B \in SUBSET Blocks
  BY BlocksFinite
<1>2. Cardinality(A \cap B) \in Nat
  BY <1>1, BlocksFinite
<1>3. Cardinality(A \cup B) = Cardinality(A) + Cardinality(B) - Cardinality(A \cap B)
  BY <1>1, FS_Union
<1>4. A \cap B = {} => Cardinality(A \cap B) = 0
  BY FS_EmptySet
<1> QED
  BY <1>1, <1>2, <1>3, <1>4

-----------------------------------------------------------------------------
(* FreeBlock and EvictIdlePrefixesUntil.                                   *)

\* What the operations that take blocks rely on and keep, also in the middle of
\* AllocatePrompt when a shared prefix is pinned by a sequence that does not
\* exist yet: cached and referenced blocks are resident.
Referenced(c) == \A b \in Blocks : c.refCount[b] > 0 => b \in c.occupied
Consistent(c) == c \in Cache /\ CachedResident(c) /\ Referenced(c)

\* The map sequences is the same in both states.
SameSequences(c, d) ==
  /\ d.live = c.live
  /\ d.blocksOf = c.blocksOf
  /\ d.promptBlocks = c.promptBlocks
  /\ d.generated = c.generated

\* The fields of a state of the allocator.
LEMMA CacheFields ==
  ASSUME NEW c \in Cache
  PROVE  /\ c.occupied \in SUBSET Blocks
         /\ c.refCount \in [Blocks -> Nat]
         /\ c.tag \in [Blocks -> Keys \cup {NoKey}]
         /\ c.live \in SUBSET Sequences
         /\ c.blocksOf \in [Sequences -> SUBSET Blocks]
         /\ c.promptBlocks \in [Sequences -> Nat]
         /\ c.generated \in [Sequences -> Nat]
         /\ c.cached \in SUBSET Keys
         /\ c.entryTokens \in [Keys -> Nat]
         /\ c.entryBlocks \in [Keys -> SUBSET Blocks]
         /\ c.highWatermark \in Nat
BY DEF Cache

\* FreeBlock makes the blocks free and unreferenced and leaves the rest alone.
LEMMA FreeIs ==
  ASSUME NEW c \in Cache, NEW freed \in SUBSET Blocks
  PROVE  /\ Free(c, freed) \in Cache
         /\ Free(c, freed).occupied = c.occupied \ freed
         /\ \A b \in Blocks :
              /\ Free(c, freed).refCount[b] = IF b \in freed THEN 0 ELSE c.refCount[b]
              /\ Free(c, freed).tag[b] = IF b \in freed THEN NoKey ELSE c.tag[b]
         /\ SameSequences(c, Free(c, freed))
         /\ Free(c, freed).cached = c.cached
         /\ Free(c, freed).entryTokens = c.entryTokens
         /\ Free(c, freed).entryBlocks = c.entryBlocks
<1> DEFINE occ == c.occupied \ freed
           ref == [b \in Blocks |-> IF b \in freed THEN 0 ELSE c.refCount[b]]
           tg == [b \in Blocks |-> IF b \in freed THEN NoKey ELSE c.tag[b]]
<1>1. occ \in SUBSET Blocks /\ ref \in [Blocks -> Nat] /\ tg \in [Blocks -> Keys \cup {NoKey}]
  BY CacheFields
<1>2. Free(c, freed) = [c EXCEPT !.occupied = occ, !.refCount = ref, !.tag = tg]
  BY DEF Free
<1> HIDE DEF occ, ref, tg
<1>3. /\ Free(c, freed) \in Cache
      /\ Free(c, freed).occupied = occ
      /\ Free(c, freed).refCount = ref
      /\ Free(c, freed).tag = tg
      /\ SameSequences(c, Free(c, freed))
      /\ Free(c, freed).cached = c.cached
      /\ Free(c, freed).entryTokens = c.entryTokens
      /\ Free(c, freed).entryBlocks = c.entryBlocks
  BY <1>1, <1>2 DEF Cache, SameSequences
<1> QED
  BY <1>3 DEF occ, ref, tg

\* Eviction takes idle entries only, in the order of their keys; when it does
\* not find enough, no idle entry is left.
LEMMA EvictedIs ==
  ASSUME NEW c, Consistent(c), NEW n \in Int
  PROVE  /\ Evicted(c, n) \subseteq c.cached
         /\ \A k \in Evicted(c, n) : Idle(c, k)
         /\ EntryBlocks(c, Evicted(c, n)) \subseteq c.occupied
         /\ \A b \in EntryBlocks(c, Evicted(c, n)) : c.refCount[b] = 0
         /\ \A k \in c.cached \ Evicted(c, n) :
              c.entryBlocks[k] \cap EntryBlocks(c, Evicted(c, n)) = {}
         /\ Cardinality(FreeBlocks(c) \cup EntryBlocks(c, Evicted(c, n))) < n
              => \A k \in c.cached \ Evicted(c, n) : ~ Idle(c, k)
<1> DEFINE gone == Evicted(c, n)
<1>1. gone \subseteq c.cached /\ \A k \in gone : Idle(c, k)
  BY DEF Evicted
<1>2. c \in Cache /\ CachedResident(c)
  BY DEF Consistent
<1>3. EntryBlocks(c, gone) \subseteq c.occupied
  BY <1>1, <1>2 DEF EntryBlocks, CachedResident
<1>4. \A b \in EntryBlocks(c, gone) : c.refCount[b] = 0
  BY <1>1 DEF EntryBlocks, Idle
<1>5. ASSUME NEW k \in c.cached \ gone, NEW b \in c.entryBlocks[k] \cap EntryBlocks(c, gone)
      PROVE  FALSE
  <2>1. PICK j \in gone : b \in c.entryBlocks[j]
    BY DEF EntryBlocks
  <2>2. c.tag[b] = j /\ c.tag[b] = k
    BY <2>1, <1>1, <1>2 DEF CachedResident
  <2> QED
    BY <2>1, <2>2
<1>6. ASSUME Cardinality(FreeBlocks(c) \cup EntryBlocks(c, gone)) < n,
             NEW k0 \in c.cached \ gone, Idle(c, k0)
      PROVE  FALSE
  <2> DEFINE left == {k \in c.cached \ gone : Idle(c, k)}
  <2>1. left \in SUBSET Keys /\ left # {}
    BY <1>6, <1>2, CacheFields
  <2> HIDE DEF left
  <2>2. left \in SUBSET Int /\ IsFiniteSet(left)
    <3>1. IsFiniteSet(Keys) /\ Keys \subseteq Int
      BY BlocksFinite
    <3> QED
      BY <2>1, <3>1, FS_Subset
  <2>3. PICK k \in left : \A j \in left : ~ (j < k)
    BY <2>1, <2>2, LeastExists
  <2> DEFINE earlier == {j \in c.cached : j < k /\ Idle(c, j)}
  <2>4. earlier \subseteq gone
    BY <2>3 DEF left
  <2> HIDE DEF earlier, gone
  <2>5. FreeBlocks(c) \cup EntryBlocks(c, earlier) \subseteq FreeBlocks(c) \cup EntryBlocks(c, gone)
    BY <2>4 DEF EntryBlocks
  <2>6. FreeBlocks(c) \cup EntryBlocks(c, gone) \in SUBSET Blocks
    BY <1>2, <1>3, CacheFields DEF FreeBlocks
  <2>7. /\ Cardinality(FreeBlocks(c) \cup EntryBlocks(c, earlier))
             <= Cardinality(FreeBlocks(c) \cup EntryBlocks(c, gone))
        /\ Cardinality(FreeBlocks(c) \cup EntryBlocks(c, gone)) \in Nat
        /\ Cardinality(FreeBlocks(c) \cup EntryBlocks(c, earlier)) \in Nat
    BY <2>5, <2>6, BlocksMonotone, BlocksFinite
  <2>8. Cardinality(FreeBlocks(c) \cup EntryBlocks(c, earlier)) < n
    BY <2>7, <1>6
  <2>9. k \in gone
    BY <2>3, <2>8 DEF left, Evicted, gone, earlier
  <2> QED
    BY <2>9, <2>3 DEF left
<1> QED
  BY <1>1, <1>3, <1>4, <1>5, <1>6

\* Making room keeps what is referenced and what it does not evict.
LEMMA EnsureFreeIs ==
  ASSUME NEW c, Consistent(c), NEW n \in Int
  PROVE  LET d == EnsureFree(c, n) IN
         /\ Consistent(d)
         /\ SameSequences(c, d)
         /\ d.refCount = c.refCount
         /\ \A b \in Blocks : c.refCount[b] > 0 => d.tag[b] = c.tag[b]
         /\ d.cached \subseteq c.cached
         /\ \A k \in d.cached : /\ d.entryBlocks[k] = c.entryBlocks[k]
                                /\ d.entryTokens[k] = c.entryTokens[k]
         /\ \A k \in c.cached : ~ Idle(c, k) => k \in d.cached
         /\ d.occupied \subseteq c.occupied
         /\ \A b \in d.occupied : d.tag[b] = c.tag[b]
         /\ \A k \in c.cached \ d.cached : c.entryBlocks[k] \cap d.occupied = {}
         /\ Cardinality(FreeBlocks(d)) < n => \A k \in d.cached : ~ Idle(c, k)
<1> DEFINE gone == Evicted(c, n)
           E == EntryBlocks(c, gone)
           m == Free(c, E)
           tokens == [k \in Keys |-> IF k \in gone THEN 0 ELSE m.entryTokens[k]]
           entries == [k \in Keys |-> IF k \in gone THEN {} ELSE m.entryBlocks[k]]
           d == EnsureFree(c, n)
<1>1. c \in Cache /\ CachedResident(c) /\ Referenced(c)
  BY DEF Consistent
<1>2. /\ gone \subseteq c.cached /\ \A k \in gone : Idle(c, k)
      /\ E \subseteq c.occupied /\ \A b \in E : c.refCount[b] = 0
      /\ \A k \in c.cached \ gone : c.entryBlocks[k] \cap E = {}
      /\ Cardinality(FreeBlocks(c) \cup E) < n => \A k \in c.cached \ gone : ~ Idle(c, k)
  BY EvictedIs
<1>3. d = [m EXCEPT !.cached = m.cached \ gone, !.entryTokens = tokens, !.entryBlocks = entries]
  BY DEF EnsureFree
<1> HIDE DEF gone, E, d
<1>4. E \in SUBSET Blocks
  BY <1>1, <1>2, CacheFields
<1>5. /\ m \in Cache /\ m.occupied = c.occupied \ E
      /\ \A b \in Blocks : /\ m.refCount[b] = IF b \in E THEN 0 ELSE c.refCount[b]
                           /\ m.tag[b] = IF b \in E THEN NoKey ELSE c.tag[b]
      /\ SameSequences(c, m)
      /\ m.cached = c.cached /\ m.entryTokens = c.entryTokens /\ m.entryBlocks = c.entryBlocks
  BY <1>1, <1>4, FreeIs
<1> HIDE DEF m
<1>6. tokens \in [Keys -> Nat] /\ entries \in [Keys -> SUBSET Blocks]
  BY <1>5, CacheFields
<1>7. /\ \A k \in Keys \ gone : tokens[k] = c.entryTokens[k] /\ entries[k] = c.entryBlocks[k]
  BY <1>5
<1> HIDE DEF tokens, entries
<1>8. /\ d \in Cache /\ d.occupied = m.occupied /\ d.refCount = m.refCount /\ d.tag = m.tag
      /\ d.cached = m.cached \ gone /\ d.entryTokens = tokens /\ d.entryBlocks = entries
      /\ SameSequences(m, d)
  BY <1>3, <1>5, <1>6 DEF Cache, SameSequences
<1>9. d.refCount = c.refCount
  <2>1. \A b \in Blocks : m.refCount[b] = c.refCount[b]
    BY <1>2, <1>5
  <2>2. m.refCount \in [Blocks -> Nat] /\ c.refCount \in [Blocks -> Nat]
    BY <1>1, <1>5, CacheFields
  <2> QED
    BY <2>1, <2>2, <1>8
<1>10. SameSequences(c, d)
  BY <1>5, <1>8 DEF SameSequences
<1>11. \A b \in Blocks : c.refCount[b] > 0 => d.tag[b] = c.tag[b] /\ b \in d.occupied
  BY <1>1, <1>2, <1>5, <1>8 DEF Referenced
<1>12. d.cached = c.cached \ gone /\ d.cached \subseteq Keys
  BY <1>1, <1>5, <1>8, CacheFields
<1>13. \A k \in d.cached : d.entryBlocks[k] = c.entryBlocks[k] /\ d.entryTokens[k] = c.entryTokens[k]
  BY <1>7, <1>8, <1>12
<1>14. \A k \in c.cached : ~ Idle(c, k) => k \in d.cached
  BY <1>2, <1>12
<1>15. CachedResident(d)
  <2> SUFFICES ASSUME NEW k \in d.cached
               PROVE  /\ d.entryBlocks[k] \subseteq d.occupied
                      /\ \A b \in d.entryBlocks[k] : d.tag[b] = k
                      /\ Cardinality(d.entryBlocks[k]) = BlocksFor(d.entryTokens[k])
    BY DEF CachedResident
  <2>1. /\ c.entryBlocks[k] \subseteq c.occupied
        /\ \A b \in c.entryBlocks[k] : c.tag[b] = k
        /\ Cardinality(c.entryBlocks[k]) = BlocksFor(c.entryTokens[k])
        /\ c.entryBlocks[k] \cap E = {}
    BY <1>1, <1>2, <1>12 DEF CachedResident
  <2>2. c.entryBlocks[k] \subseteq Blocks
    BY <1>1, <1>12, CacheFields
  <2> QED
    BY <2>1, <2>2, <1>5, <1>8, <1>13
<1>16. Referenced(d)
  BY <1>9, <1>11 DEF Referenced
<1>17. FreeBlocks(d) = FreeBlocks(c) \cup E
  BY <1>2, <1>4, <1>5, <1>8 DEF FreeBlocks
<1>18. Cardinality(FreeBlocks(d)) < n => \A k \in d.cached : ~ Idle(c, k)
  BY <1>2, <1>12, <1>17
<1>19. d.occupied \subseteq c.occupied
  BY <1>5, <1>8
<1>20. Consistent(d)
  BY <1>8, <1>15, <1>16 DEF Consistent
<1>21. \A b \in d.occupied : d.tag[b] = c.tag[b]
  <2>1. d.occupied \subseteq Blocks
    BY <1>8, CacheFields
  <2> QED
    BY <1>5, <1>8, <2>1
<1>22. \A k \in c.cached \ d.cached : c.entryBlocks[k] \cap d.occupied = {}
  <2> SUFFICES ASSUME NEW k \in gone
               PROVE  c.entryBlocks[k] \cap d.occupied = {}
    BY <1>12
  <2>1. c.entryBlocks[k] \subseteq E
    BY DEF E, EntryBlocks
  <2> QED
    BY <1>5, <1>8, <2>1
<1> QED
  BY <1>9, <1>10, <1>11, <1>12, <1>13, <1>14, <1>18, <1>19, <1>20, <1>21, <1>22 DEF d

-----------------------------------------------------------------------------
(* AllocateBlocks.                                                         *)

\* What the answer got of AllocateBlocks(c, n, key) promises: n fresh blocks, or
\* none and then no idle entry is left and fewer than n blocks are free; what
\* is referenced and the entries in use stay as they are, and an entry that is
\* gone has left no block behind.
Promise(c, n, key, got) ==
  /\ Consistent(got.kv)
  /\ SameSequences(c, got.kv)
  /\ got.ids \subseteq got.kv.occupied
  /\ \A b \in got.ids : c.refCount[b] = 0 /\ got.kv.tag[b] = key
  /\ \A b \in Blocks : /\ got.kv.refCount[b] = IF b \in got.ids THEN 1 ELSE c.refCount[b]
                       /\ c.refCount[b] > 0 => got.kv.tag[b] = c.tag[b]
  /\ got.kv.cached \subseteq c.cached
  /\ \A k \in got.kv.cached : /\ got.kv.entryBlocks[k] = c.entryBlocks[k]
                              /\ got.kv.entryTokens[k] = c.entryTokens[k]
                              /\ c.entryBlocks[k] \cap got.ids = {}
  /\ \A k \in c.cached : ~ Idle(c, k) => k \in got.kv.cached
  /\ \A b \in got.kv.occupied \ got.ids : b \in c.occupied /\ got.kv.tag[b] = c.tag[b]
  /\ \A k \in c.cached \ got.kv.cached : c.entryBlocks[k] \cap got.kv.occupied \subseteq got.ids
  /\ got.ok => Cardinality(got.ids) = n
  /\ ~ got.ok => /\ got.ids = {}
                 /\ Cardinality(FreeBlocks(got.kv)) < n
                 /\ \A k \in got.kv.cached : ~ Idle(c, k)

\* AllocateBlocks keeps the promise.
LEMMA AllocateBlocksIs ==
  ASSUME NEW c, Consistent(c), NEW n \in Nat, NEW key \in Keys \cup {NoKey}
  PROVE  Promise(c, n, key, AllocateBlocks(c, n, key))
<1> DEFINE got == AllocateBlocks(c, n, key)
           room == EnsureFree(c, n)
           ids == LowestFree(room, n)
           used == room.occupied \cup ids
           ref == [b \in Blocks |-> IF b \in ids THEN 1 ELSE room.refCount[b]]
           tg == [b \in Blocks |-> IF b \in ids THEN key ELSE room.tag[b]]
           mark == MaxOf(room.highWatermark, Cardinality(used))
           d == [room EXCEPT !.occupied = used, !.refCount = ref, !.tag = tg,
                             !.highWatermark = mark]
<1>1. /\ Consistent(room)
      /\ SameSequences(c, room)
      /\ room.refCount = c.refCount
      /\ \A b \in Blocks : c.refCount[b] > 0 => room.tag[b] = c.tag[b]
      /\ room.cached \subseteq c.cached
      /\ \A k \in room.cached : /\ room.entryBlocks[k] = c.entryBlocks[k]
                                /\ room.entryTokens[k] = c.entryTokens[k]
      /\ \A k \in c.cached : ~ Idle(c, k) => k \in room.cached
      /\ room.occupied \subseteq c.occupied
      /\ \A b \in room.occupied : room.tag[b] = c.tag[b]
      /\ \A k \in c.cached \ room.cached : c.entryBlocks[k] \cap room.occupied = {}
      /\ Cardinality(FreeBlocks(room)) < n => \A k \in room.cached : ~ Idle(c, k)
  BY EnsureFreeIs
<1>2. got = IF n <= 0 THEN [kv |-> c, ids |-> {}, ok |-> TRUE]
            ELSE IF n > Cardinality(FreeBlocks(room))
            THEN [kv |-> room, ids |-> {}, ok |-> FALSE]
            ELSE [kv |-> d, ids |-> ids, ok |-> TRUE]
  BY DEF AllocateBlocks
<1> SUFFICES Promise(c, n, key, got)
  OBVIOUS
<1> HIDE DEF got, room
<1>3. /\ room \in Cache /\ CachedResident(room) /\ Referenced(room)
      /\ FreeBlocks(room) \in SUBSET Blocks /\ c \in Cache
  BY <1>1 DEF Consistent, FreeBlocks
<1>4. /\ IsFiniteSet(FreeBlocks(room)) /\ Cardinality(FreeBlocks(room)) \in Nat
      /\ FreeBlocks(room) \in SUBSET Int
  BY <1>3, BlocksFinite
<1>5. CASE n <= 0
  <2>1. got.kv = c /\ got.ids = {} /\ got.ok = TRUE /\ n = 0
    BY <1>2, <1>5
  <2>2. Cardinality({}) = 0
    BY FS_EmptySet
  <2>3. \A b \in Blocks : b \notin got.ids
    BY <2>1
  <2> QED
    BY <2>1, <2>2, <2>3 DEF Promise, SameSequences, Consistent
<1>6. CASE ~ (n <= 0) /\ n > Cardinality(FreeBlocks(room))
  <2>1. got.kv = room /\ got.ids = {} /\ got.ok = FALSE
    BY <1>2, <1>6
  <2>2. Cardinality(FreeBlocks(room)) < n
    BY <1>4, <1>6
  <2> QED
    BY <1>1, <2>1, <2>2 DEF Promise
<1>7. CASE ~ (n <= 0) /\ ~ (n > Cardinality(FreeBlocks(room)))
  <2>1. got.kv = d /\ got.ids = ids /\ got.ok = TRUE
    BY <1>2, <1>7
  <2>2. ids = {x \in FreeBlocks(room) : Rank(FreeBlocks(room), x) < n}
    BY DEF LowestFree, Rank
  <2>3. ids \subseteq FreeBlocks(room)
    BY <2>2
  <2> HIDE DEF ids
  <2>4. Cardinality(ids) = n
    <3>1. n <= Cardinality(FreeBlocks(room))
      BY <1>4, <1>7
    <3> QED
      BY <1>4, <2>2, <3>1, LowestCount
  <2>5. /\ ids \subseteq Blocks /\ used \in SUBSET Blocks /\ ids \cap room.occupied = {}
        /\ ref \in [Blocks -> Nat] /\ tg \in [Blocks -> Keys \cup {NoKey}]
    BY <1>3, <2>3, CacheFields DEF FreeBlocks
  <2>6. mark \in Nat
    BY <1>3, <2>5, BlocksFinite, CacheFields DEF MaxOf
  <2>7. \A b \in Blocks : /\ ref[b] = IF b \in ids THEN 1 ELSE c.refCount[b]
                          /\ tg[b] = IF b \in ids THEN key ELSE room.tag[b]
    BY <1>1
  <2> HIDE DEF ref, tg, mark
  <2>8. /\ d \in Cache /\ d.occupied = used /\ d.refCount = ref /\ d.tag = tg
        /\ d.cached = room.cached /\ d.entryBlocks = room.entryBlocks
        /\ d.entryTokens = room.entryTokens /\ SameSequences(room, d)
    BY <1>3, <2>5, <2>6 DEF Cache, SameSequences
  <2> HIDE DEF d
  <2>9. \A k \in room.cached : /\ room.entryBlocks[k] \cap ids = {}
                               /\ room.entryBlocks[k] \subseteq Blocks
    BY <1>3, <2>5, CacheFields DEF CachedResident
  <2>10. CachedResident(d)
    BY <1>3, <2>7, <2>8, <2>9 DEF CachedResident
  <2>11. \A b \in ids : c.refCount[b] = 0
    <3>1. \A b \in Blocks : c.refCount[b] \in Nat
      BY <1>3, CacheFields
    <3> QED
      BY <1>1, <1>3, <2>5, <3>1 DEF Referenced
  <2>12. Referenced(d)
    BY <1>1, <1>3, <2>5, <2>7, <2>8 DEF Referenced
  <2>13. Consistent(d)
    BY <2>8, <2>10, <2>12 DEF Consistent
  <2>14. SameSequences(c, d)
    BY <1>1, <2>8 DEF SameSequences
  <2>15. \A b \in Blocks : c.refCount[b] > 0 => tg[b] = c.tag[b]
    BY <1>1, <2>7, <2>11
  <2>16. \A k \in d.cached : /\ d.entryBlocks[k] = c.entryBlocks[k]
                             /\ d.entryTokens[k] = c.entryTokens[k]
                             /\ c.entryBlocks[k] \cap ids = {}
    BY <1>1, <2>8, <2>9
  <2>17. ids \subseteq d.occupied /\ \A b \in ids : d.tag[b] = key
    BY <2>5, <2>7, <2>8
  <2>18. \A b \in d.occupied \ ids : b \in c.occupied /\ d.tag[b] = c.tag[b]
    <3>1. d.occupied \ ids \subseteq room.occupied /\ room.occupied \subseteq Blocks
      BY <1>3, <2>8, CacheFields
    <3> QED
      BY <1>1, <2>7, <2>8, <3>1
  <2>19. \A k \in c.cached \ d.cached : c.entryBlocks[k] \cap d.occupied \subseteq ids
    BY <1>1, <2>8
  <2> QED
    BY <1>1, <2>1, <2>4, <2>7, <2>8, <2>11, <2>13, <2>14, <2>15, <2>16, <2>17, <2>18, <2>19
       DEF Promise
<1> QED
  BY <1>5, <1>6, <1>7

\* Outside of fresh, a resident block is one of held or belongs to the entry of
\* the key it is tagged with.
TrackedIn(c, held, fresh) ==
  \A b \in c.occupied \ fresh :
    IF c.tag[b] = NoKey THEN b \in held
    ELSE c.tag[b] \in c.cached /\ b \in c.entryBlocks[c.tag[b]]

\* Of the blocks it leaves, AllocateBlocks loses sight of none.
LEMMA TakenTracked ==
  ASSUME NEW c, NEW n, NEW key, NEW got, Promise(c, n, key, got),
         NEW held, NEW fresh, TrackedIn(c, held, fresh)
  PROVE  TrackedIn(got.kv, held, fresh \cup got.ids)
<1> SUFFICES ASSUME NEW b \in got.kv.occupied, b \notin fresh, b \notin got.ids
             PROVE  IF got.kv.tag[b] = NoKey THEN b \in held
                    ELSE got.kv.tag[b] \in got.kv.cached /\ b \in got.kv.entryBlocks[got.kv.tag[b]]
  BY DEF TrackedIn
<1>1. b \in c.occupied /\ got.kv.tag[b] = c.tag[b]
  BY DEF Promise
<1>2. IF c.tag[b] = NoKey THEN b \in held
      ELSE c.tag[b] \in c.cached /\ b \in c.entryBlocks[c.tag[b]]
  BY <1>1 DEF TrackedIn
<1>3. CASE c.tag[b] = NoKey
  BY <1>1, <1>2, <1>3
<1>4. CASE c.tag[b] # NoKey
  <2>1. c.tag[b] \in got.kv.cached
    BY <1>2, <1>4 DEF Promise
  <2> QED
    BY <1>1, <1>2, <1>4, <2>1 DEF Promise
<1> QED
  BY <1>3, <1>4

\* The entries of d are entries of c, of the same length.
OlderEntries(c, d) ==
  \A k \in d.cached : k \in c.cached /\ d.entryTokens[k] = c.entryTokens[k]

-----------------------------------------------------------------------------
(* States between two calls.                                               *)

\* The bookkeeping of WellFormed, for a state c of the allocator.
Accounted(c) == c \in Cache /\ CacheWellFormed(c) /\ SizedRight(c)

\* No resident block is lost: it is held, or part of a prefix.
Tracked(c) == TrackedIn(c, Held(c), {})

\* In such a state the referenced blocks are the held ones.
LEMMA AccountedIs ==
  ASSUME NEW c, Accounted(c)
  PROVE  /\ Consistent(c)
         /\ Held(c) \subseteq Blocks
         /\ \A b \in Blocks : c.refCount[b] \in Nat /\ (c.refCount[b] > 0 <=> b \in Held(c))
         /\ \A b \in Blocks : /\ IsFiniteSet(Holders(c, b))
                              /\ c.refCount[b] = Cardinality(Holders(c, b))
<1>1. c \in Cache /\ RefCountsExact(c) /\ HeldResident(c) /\ CachedResident(c)
  BY DEF Accounted, CacheWellFormed
<1>2. ASSUME NEW b \in Blocks
      PROVE  /\ IsFiniteSet(Holders(c, b))
             /\ c.refCount[b] = Cardinality(Holders(c, b)) /\ c.refCount[b] \in Nat
             /\ c.refCount[b] > 0 <=> b \in Held(c)
  <2>1. Holders(c, b) \in SUBSET Sequences
    BY <1>1, CacheFields DEF Holders
  <2>2. IsFiniteSet(Holders(c, b))
    BY <2>1, KvAssumption, FS_Subset
  <2>3. c.refCount[b] = Cardinality(Holders(c, b)) /\ c.refCount[b] \in Nat
    BY <1>1, CacheFields DEF RefCountsExact
  <2>4. c.refCount[b] = 0 <=> Holders(c, b) = {}
    BY <2>2, <2>3, FS_EmptySet
  <2>5. Holders(c, b) = {} <=> b \notin Held(c)
    BY DEF Holders, Held
  <2> QED
    BY <2>2, <2>3, <2>4, <2>5
<1>3. Referenced(c)
  BY <1>1, <1>2 DEF Referenced, HeldResident
<1>4. Held(c) \subseteq Blocks
  BY <1>1, CacheFields DEF Held
<1> QED
  BY <1>1, <1>2, <1>3, <1>4 DEF Consistent

\* A call that changes no sequence and no reference count, only evicts, leaves
\* the bookkeeping right.
LEMMA KeptAccounted ==
  ASSUME NEW c, Accounted(c), NEW d, Consistent(d), SameSequences(c, d),
         \A b \in Blocks : d.refCount[b] = c.refCount[b],
         \A b \in Held(c) : d.tag[b] = c.tag[b],
         d.cached \subseteq c.cached,
         \A k \in d.cached : d.entryBlocks[k] = c.entryBlocks[k]
  PROVE  Accounted(d) /\ Held(d) = Held(c) /\ d.refCount = c.refCount
<1>1. /\ c \in Cache /\ d \in Cache
      /\ d.live = c.live /\ d.blocksOf = c.blocksOf
      /\ d.promptBlocks = c.promptBlocks /\ d.generated = c.generated
  BY DEF Accounted, Consistent, SameSequences
<1>2. Held(d) = Held(c) /\ \A b : Holders(d, b) = Holders(c, b)
  BY <1>1 DEF Held, Holders
<1>3. d.refCount = c.refCount
  BY <1>1, CacheFields
<1>4. RefCountsExact(d)
  BY <1>2, <1>3 DEF RefCountsExact, Accounted, CacheWellFormed
<1>5. HeldResident(d)
  <2>1. \A b \in Held(c) : b \in Blocks /\ d.refCount[b] > 0
    BY <1>3, AccountedIs
  <2> QED
    BY <1>2, <2>1 DEF HeldResident, Consistent, Referenced
<1>6. SharedByPrefixOnly(d)
  <2> SUFFICES ASSUME NEW s \in d.live, NEW t \in d.live, s # t,
                      NEW b \in d.blocksOf[s] \cap d.blocksOf[t]
               PROVE  d.tag[b] # NoKey
    BY DEF SharedByPrefixOnly
  <2>1. c.tag[b] # NoKey
    BY <1>1 DEF Accounted, CacheWellFormed, SharedByPrefixOnly
  <2>2. b \in Held(c)
    BY <1>1 DEF Held
  <2> QED
    BY <2>1, <2>2
<1>7. PrefixesWhole(d)
  BY <1>1 DEF PrefixesWhole, Accounted, CacheWellFormed
<1>8. SizedRight(d)
  BY <1>1 DEF SizedRight, Accounted
<1> QED
  BY <1>1, <1>2, <1>3, <1>4, <1>5, <1>6, <1>7, <1>8 DEF Accounted, CacheWellFormed, Consistent

\* d is c with sequence s given the blocks extra on top of those it has already:
\* nothing else that is held changes, a block it shares is tagged and a prefix
\* it shares is shared as a whole.
Grown(c, d, s, extra) ==
  /\ d.live = c.live \cup {s}
  /\ \A t \in c.live \ {s} : /\ d.blocksOf[t] = c.blocksOf[t]
                             /\ d.promptBlocks[t] = c.promptBlocks[t]
                             /\ d.generated[t] = c.generated[t]
  /\ d.blocksOf[s] = (IF s \in c.live THEN c.blocksOf[s] ELSE {}) \cup extra
  /\ s \in c.live => c.blocksOf[s] \cap extra = {}
  /\ Cardinality(d.blocksOf[s]) = d.promptBlocks[s] + BlocksFor(d.generated[s])
  /\ extra \subseteq d.occupied
  /\ \A b \in Blocks :
       d.refCount[b] = IF b \in extra THEN c.refCount[b] + 1 ELSE c.refCount[b]
  /\ \A b \in Held(c) : b \in d.occupied /\ d.tag[b] = c.tag[b]
  /\ \A b \in extra \cap Held(c) : d.tag[b] # NoKey
  /\ \A k \in d.cached :
       /\ d.entryBlocks[k] \cap extra # {} => d.entryBlocks[k] \subseteq extra
       /\ \A t \in c.live : c.blocksOf[t] \cap d.entryBlocks[k] # {}
                              => d.entryBlocks[k] \subseteq c.blocksOf[t]

\* Such a step leaves the bookkeeping right.
LEMMA GrownAccounted ==
  ASSUME NEW c, Accounted(c), NEW d \in Cache, CachedResident(d),
         NEW s \in Sequences, NEW extra \in SUBSET Blocks, Grown(c, d, s, extra)
  PROVE  Accounted(d) /\ Held(d) = Held(c) \cup extra
<1> USE DEF Grown
<1> DEFINE before == IF s \in c.live THEN c.blocksOf[s] ELSE {}
<1>1. c \in Cache /\ c.live \subseteq Sequences
  BY CacheFields DEF Accounted
<1>2. ASSUME NEW b \in Blocks
      PROVE  d.refCount[b] = Cardinality(Holders(d, b))
  <2>1. /\ IsFiniteSet(Holders(c, b)) /\ c.refCount[b] = Cardinality(Holders(c, b))
        /\ c.refCount[b] \in Nat
    BY AccountedIs
  <2>2. CASE b \in extra
    <3>1. Holders(d, b) = Holders(c, b) \cup {s} /\ s \notin Holders(c, b)
      BY <2>2 DEF Holders
    <3>2. Cardinality(Holders(c, b) \cup {s}) = Cardinality(Holders(c, b)) + 1
      BY <2>1, <3>1, FS_AddElement
    <3> QED
      BY <2>1, <2>2, <3>1, <3>2
  <2>3. CASE b \notin extra
    <3>1. Holders(d, b) = Holders(c, b)
      BY <2>3 DEF Holders
    <3> QED
      BY <2>1, <2>3, <3>1
  <2> QED
    BY <2>2, <2>3
<1>3. Held(d) = Held(c) \cup extra
  <2>1. \A t \in c.live \ {s} : d.blocksOf[t] \subseteq Held(c) /\ t \in d.live
    BY DEF Held
  <2>2. before \subseteq Held(c) /\ d.blocksOf[s] = before \cup extra /\ s \in d.live
    BY DEF Held
  <2>3. Held(d) \subseteq Held(c) \cup extra
    BY <2>1, <2>2 DEF Held
  <2>4. Held(c) \subseteq Held(d) /\ extra \subseteq Held(d)
    BY <2>2 DEF Held
  <2> QED
    BY <2>3, <2>4
<1>4. HeldResident(d)
  BY <1>3 DEF HeldResident
<1>5. SharedByPrefixOnly(d)
  <2>1. ASSUME NEW t \in c.live, NEW u \in c.live, t # u, NEW b \in c.blocksOf[t] \cap c.blocksOf[u]
        PROVE  d.tag[b] # NoKey
    <3>1. c.tag[b] # NoKey
      BY <2>1 DEF Accounted, CacheWellFormed, SharedByPrefixOnly
    <3>2. b \in Held(c)
      BY DEF Held
    <3> QED
      BY <3>1, <3>2
  <2>2. ASSUME NEW t \in c.live \ {s}, NEW b \in d.blocksOf[t] \cap d.blocksOf[s]
        PROVE  d.tag[b] # NoKey
    <3>1. b \in c.blocksOf[t] /\ b \in Held(c)
      BY DEF Held
    <3>2. CASE b \in extra
      BY <3>1, <3>2
    <3>3. CASE b \notin extra
      <4>1. s \in c.live /\ b \in c.blocksOf[s]
        BY <3>3
      <4> QED
        BY <2>1, <3>1, <4>1
    <3> QED
      BY <3>2, <3>3
  <2>3. \A t, u \in c.live \ {s} : t # u => \A b \in d.blocksOf[t] \cap d.blocksOf[u] : d.tag[b] # NoKey
    BY <2>1
  <2> QED
    BY <2>2, <2>3 DEF SharedByPrefixOnly
<1>6. PrefixesWhole(d)
  <2> SUFFICES ASSUME NEW t \in d.live, NEW k \in d.cached,
                      d.blocksOf[t] \cap d.entryBlocks[k] # {}
               PROVE  d.entryBlocks[k] \subseteq d.blocksOf[t]
    BY DEF PrefixesWhole
  <2>1. CASE t # s
    BY <2>1
  <2>2. CASE t = s
    <3>1. CASE d.entryBlocks[k] \cap extra # {}
      BY <2>2, <3>1
    <3>2. CASE d.entryBlocks[k] \cap extra = {}
      BY <2>2, <3>2
    <3> QED
      BY <3>1, <3>2
  <2> QED
    BY <2>1, <2>2
<1>7. SizedRight(d)
  BY DEF SizedRight, Accounted
<1> QED
  BY <1>2, <1>3, <1>4, <1>5, <1>6, <1>7 DEF Accounted, CacheWellFormed, RefCountsExact

-----------------------------------------------------------------------------
(* AllocatePrompt.                                                         *)

\* AddRef changes reference counts only.
LEMMA AddRefIs ==
  ASSUME NEW c \in Cache, NEW ids \in SUBSET Blocks, NEW delta \in Int,
         \A b \in ids : c.refCount[b] + delta \in Nat
  PROVE  LET d == AddRef(c, ids, delta) IN
         /\ d \in Cache
         /\ \A b \in Blocks :
              d.refCount[b] = IF b \in ids THEN c.refCount[b] + delta ELSE c.refCount[b]
         /\ d.occupied = c.occupied /\ d.tag = c.tag
         /\ d.cached = c.cached /\ d.entryTokens = c.entryTokens
         /\ d.entryBlocks = c.entryBlocks
         /\ SameSequences(c, d)
<1> DEFINE ref == [b \in Blocks |-> IF b \in ids THEN c.refCount[b] + delta ELSE c.refCount[b]]
           d == AddRef(c, ids, delta)
<1>1. ref \in [Blocks -> Nat]
  BY CacheFields
<1>2. d = [c EXCEPT !.refCount = ref]
  BY DEF AddRef
<1>3. \A b \in Blocks : ref[b] = IF b \in ids THEN c.refCount[b] + delta ELSE c.refCount[b]
  OBVIOUS
<1> HIDE DEF ref, d
<1>4. /\ d \in Cache /\ d.refCount = ref
      /\ d.occupied = c.occupied /\ d.tag = c.tag
      /\ d.cached = c.cached /\ d.entryTokens = c.entryTokens
      /\ d.entryBlocks = c.entryBlocks
      /\ SameSequences(c, d)
  BY <1>1, <1>2 DEF Cache, SameSequences
<1> QED
  BY <1>3, <1>4 DEF d

\* d is c with the entry of s written in the map sequences.
Attached(c, d, s, ids, count) ==
  /\ d \in Cache
  /\ d.live = c.live \cup {s}
  /\ d.blocksOf[s] = ids /\ d.promptBlocks[s] = count /\ d.generated[s] = 0
  /\ \A t \in Sequences \ {s} : /\ d.blocksOf[t] = c.blocksOf[t]
                                /\ d.promptBlocks[t] = c.promptBlocks[t]
                                /\ d.generated[t] = c.generated[t]
  /\ d.occupied = c.occupied /\ d.refCount = c.refCount /\ d.tag = c.tag
  /\ d.cached = c.cached /\ d.entryTokens = c.entryTokens
  /\ d.entryBlocks = c.entryBlocks

\* This is what Attach does.
LEMMA AttachIs ==
  ASSUME NEW c \in Cache, NEW s \in Sequences, NEW ids \in SUBSET Blocks, NEW count \in Nat
  PROVE  Attached(c, Attach(c, s, ids, count), s, ids, count)
<1> DEFINE d == Attach(c, s, ids, count)
           held == [c.blocksOf EXCEPT ![s] = ids]
           counts == [c.promptBlocks EXCEPT ![s] = count]
           gen == [c.generated EXCEPT ![s] = 0]
<1>1. /\ held \in [Sequences -> SUBSET Blocks] /\ counts \in [Sequences -> Nat]
      /\ gen \in [Sequences -> Nat] /\ c.live \cup {s} \in SUBSET Sequences
      /\ held[s] = ids /\ counts[s] = count /\ gen[s] = 0
      /\ \A t \in Sequences \ {s} : /\ held[t] = c.blocksOf[t]
                                    /\ counts[t] = c.promptBlocks[t]
                                    /\ gen[t] = c.generated[t]
  BY CacheFields
<1>2. d = [c EXCEPT !.live = c.live \cup {s}, !.blocksOf = held,
                    !.promptBlocks = counts, !.generated = gen]
  BY DEF Attach
<1> HIDE DEF d, held, counts, gen
<1>3. /\ d \in Cache /\ d.live = c.live \cup {s} /\ d.blocksOf = held
      /\ d.promptBlocks = counts /\ d.generated = gen
      /\ d.occupied = c.occupied /\ d.refCount = c.refCount /\ d.tag = c.tag
      /\ d.cached = c.cached /\ d.entryTokens = c.entryTokens
      /\ d.entryBlocks = c.entryBlocks
  BY <1>1, <1>2 DEF Cache
<1>4. Attached(c, d, s, ids, count)
  BY <1>1, <1>3 DEF Attached
<1> QED
  BY <1>4 DEF d

\* The blocks that no sequence holds and that are free or can be evicted.
Reclaimable(c) == FreeBlocks(c) \cup (EntryBlocks(c, c.cached) \ Held(c))

\* They are all free, but for P, when every entry outside of P is in use.
LEMMA ReclaimableIs ==
  ASSUME NEW c, Accounted(c), NEW P,
         \A k \in c.cached : \/ c.entryBlocks[k] \cap Held(c) # {}
                             \/ c.entryBlocks[k] \subseteq P
  PROVE  Reclaimable(c) \subseteq FreeBlocks(c) \cup (P \ Held(c))
<1> SUFFICES ASSUME NEW k \in c.cached, NEW b \in c.entryBlocks[k], b \notin Held(c)
             PROVE  b \in P
  BY DEF Reclaimable, EntryBlocks
<1>1. ASSUME c.entryBlocks[k] \cap Held(c) # {}
      PROVE  FALSE
  <2>1. PICK t \in c.live : c.entryBlocks[k] \cap c.blocksOf[t] # {}
    BY <1>1 DEF Held
  <2>2. c.entryBlocks[k] \subseteq c.blocksOf[t]
    BY <2>1 DEF Accounted, CacheWellFormed, PrefixesWhole
  <2> QED
    BY <2>2 DEF Held
<1> QED
  BY <1>1

\* What a call that is refused for lack of need more blocks promises.
Refusal(c, d, need) ==
  /\ SameSequences(c, d) /\ d.refCount = c.refCount
  /\ Cardinality(Reclaimable(d)) < need

\* A prompt that shares a cached prefix: the bookkeeping stays right, and when
\* the suffix does not fit, the pin is undone and the prompt could not have
\* been served from all the blocks that no sequence holds.
LEMMA SharePrefixIs ==
  ASSUME NEW c, Accounted(c), NEW s \in Sequences, s \notin c.live,
         NEW key \in c.cached, NEW suffix \in Nat
  PROVE  LET out == SharePrefix(c, s, key, suffix) IN
         /\ Accounted(out.kv)
         /\ out.reply \in {"hit", "exhausted"}
         /\ out.reply = "exhausted" =>
              Refusal(c, out.kv, suffix + Cardinality(c.entryBlocks[key] \ Held(c)))
         /\ out.reply = "hit" => out.kv.live = c.live \cup {s}
         /\ OlderEntries(c, out.kv)
         /\ Tracked(c) => Tracked(out.kv)
<1> DEFINE out == SharePrefix(c, s, key, suffix)
           prefix == c.entryBlocks[key]
           pinned == AddRef(c, prefix, 1)
           got == AllocateBlocks(pinned, suffix, NoKey)
           extra == prefix \cup got.ids
           count == Cardinality(prefix) + suffix
           d == Attach(got.kv, s, extra, count)
           undone == AddRef(got.kv, prefix, -1)
<1>1. /\ c \in Cache /\ CachedResident(c) /\ Referenced(c)
      /\ Held(c) \subseteq Blocks
      /\ \A b \in Blocks : c.refCount[b] \in Nat /\ (c.refCount[b] > 0 <=> b \in Held(c))
  BY AccountedIs DEF Consistent
<1>2. /\ key \in Keys /\ prefix \in SUBSET Blocks /\ prefix \subseteq c.occupied
      /\ \A b \in prefix : c.tag[b] = key
  BY <1>1, CacheFields DEF CachedResident
<1>3. out = IF got.ok THEN Outcome(d, "hit") ELSE Outcome(undone, "exhausted")
  BY DEF SharePrefix
<1> SUFFICES /\ Accounted(out.kv)
             /\ out.reply \in {"hit", "exhausted"}
             /\ out.reply = "exhausted" => Refusal(c, out.kv, suffix + Cardinality(prefix \ Held(c)))
             /\ out.reply = "hit" => out.kv.live = c.live \cup {s}
             /\ OlderEntries(c, out.kv)
             /\ Tracked(c) => Tracked(out.kv)
  OBVIOUS
<1> HIDE DEF out, prefix
<1>4. /\ pinned \in Cache
      /\ \A b \in Blocks :
           pinned.refCount[b] = IF b \in prefix THEN c.refCount[b] + 1 ELSE c.refCount[b]
      /\ pinned.occupied = c.occupied /\ pinned.tag = c.tag
      /\ pinned.cached = c.cached /\ pinned.entryTokens = c.entryTokens
      /\ pinned.entryBlocks = c.entryBlocks
      /\ SameSequences(c, pinned)
  <2>1. \A b \in prefix : c.refCount[b] + 1 \in Nat
    BY <1>1, <1>2
  <2>2. c \in Cache /\ prefix \in SUBSET Blocks /\ 1 \in Int
    BY <1>1, <1>2
  <2> QED
    BY ONLY <2>1, <2>2, AddRefIs
<1> HIDE DEF pinned
<1>5. Consistent(pinned)
  <2>1. CachedResident(pinned)
    BY <1>1, <1>4 DEF CachedResident
  <2>2. Referenced(pinned)
    BY <1>1, <1>2, <1>4 DEF Referenced
  <2> QED
    BY <1>4, <2>1, <2>2 DEF Consistent
<1>6. Promise(pinned, suffix, NoKey, got)
  BY <1>5, AllocateBlocksIs
<1> HIDE DEF got
<1>7. /\ got.kv \in Cache /\ CachedResident(got.kv) /\ Referenced(got.kv)
      /\ SameSequences(c, got.kv)
      /\ got.ids \subseteq got.kv.occupied /\ got.ids \in SUBSET Blocks
  BY <1>4, <1>6, CacheFields DEF Promise, Consistent, SameSequences
<1>8. /\ got.ids \cap prefix = {} /\ got.ids \cap Held(c) = {}
      /\ \A b \in got.ids : c.refCount[b] = 0
  <2>1. \A b \in got.ids : b \in Blocks /\ pinned.refCount[b] = 0
    BY <1>6, <1>7 DEF Promise
  <2> QED
    BY <1>1, <1>4, <2>1
<1>9. \A b \in Blocks : got.kv.refCount[b] =
                          IF b \in prefix \cup got.ids THEN c.refCount[b] + 1 ELSE c.refCount[b]
  BY <1>4, <1>6, <1>8 DEF Promise
<1>10. \A b \in Held(c) \cup prefix : b \in got.kv.occupied /\ got.kv.tag[b] = c.tag[b]
  <2>1. \A b \in Held(c) \cup prefix : b \in Blocks /\ pinned.refCount[b] > 0
    BY <1>1, <1>2, <1>4
  <2>2. \A b \in Blocks : pinned.refCount[b] > 0 => got.kv.tag[b] = c.tag[b]
    BY <1>4, <1>6 DEF Promise
  <2>3. \A b \in Held(c) \cup prefix : got.kv.refCount[b] > 0
    BY <1>1, <1>2, <1>9
  <2> QED
    BY <1>7, <2>1, <2>2, <2>3 DEF Referenced
<1>11. /\ got.kv.cached \subseteq c.cached
       /\ \A k \in got.kv.cached : /\ got.kv.entryBlocks[k] = c.entryBlocks[k]
                                   /\ got.kv.entryTokens[k] = c.entryTokens[k]
                                   /\ c.entryBlocks[k] \cap got.ids = {}
  BY <1>4, <1>6 DEF Promise
<1>12. Tracked(c) => TrackedIn(got.kv, Held(c), got.ids)
  <2>1. Tracked(c) => TrackedIn(pinned, Held(c), {})
    BY <1>4 DEF Tracked, TrackedIn
  <2>2. TrackedIn(pinned, Held(c), {}) => TrackedIn(got.kv, Held(c), {} \cup got.ids)
    BY <1>6, TakenTracked
  <2> QED
    BY <2>1, <2>2
<1>13. CASE got.ok
  <2>1. Cardinality(got.ids) = suffix
    BY <1>6, <1>13 DEF Promise
  <2>2. out.kv = d /\ out.reply = "hit"
    BY <1>3, <1>13 DEF Outcome
  <2>3. Cardinality(prefix) \in Nat /\ Cardinality(prefix \cup got.ids) = Cardinality(prefix) + suffix
    BY <1>2, <1>7, <1>8, <2>1, BlocksUnion, BlocksFinite
  <2>4. Attached(got.kv, d, s, extra, count)
    <3>1. extra \in SUBSET Blocks /\ count \in Nat
      BY <1>2, <1>7, <2>3
    <3> HIDE DEF extra, count
    <3> QED
      BY <1>7, <3>1, AttachIs
  <2> HIDE DEF d
  <2> USE DEF Attached
  <2>5. CachedResident(d)
    BY <1>7, <2>4 DEF CachedResident
  <2>6. extra \in SUBSET Blocks /\ extra \subseteq d.occupied
    BY <1>2, <1>7, <1>10, <2>4
  <2>7. /\ d.live = c.live \cup {s} /\ c.live \subseteq Sequences
        /\ \A t \in c.live \ {s} : /\ d.blocksOf[t] = c.blocksOf[t]
                                   /\ d.promptBlocks[t] = c.promptBlocks[t]
                                   /\ d.generated[t] = c.generated[t]
    BY <1>1, <1>7, <2>4, CacheFields DEF SameSequences
  <2>8. Cardinality(d.blocksOf[s]) = d.promptBlocks[s] + BlocksFor(d.generated[s])
    BY <2>3, <2>4, BlocksForIs
  <2>9. \A b \in extra \cap Held(c) : d.tag[b] # NoKey
    BY <1>2, <1>8, <1>10, <2>4, BlocksFinite
  <2>10. ASSUME NEW k \in d.cached
         PROVE  /\ d.entryBlocks[k] \cap extra # {} => d.entryBlocks[k] \subseteq extra
                /\ \A t \in c.live : c.blocksOf[t] \cap d.entryBlocks[k] # {}
                                       => d.entryBlocks[k] \subseteq c.blocksOf[t]
    <3>1. /\ k \in c.cached /\ d.entryBlocks[k] = c.entryBlocks[k]
          /\ c.entryBlocks[k] \cap got.ids = {}
      BY <1>11, <2>4
    <3>2. \A b \in c.entryBlocks[k] : c.tag[b] = k
      BY <1>1, <3>1 DEF CachedResident
    <3>3. d.entryBlocks[k] \cap extra # {} => k = key
      BY <1>2, <3>1, <3>2
    <3>4. d.entryBlocks[k] \cap extra # {} => d.entryBlocks[k] \subseteq extra
      BY <3>1, <3>3 DEF prefix
    <3>5. \A t \in c.live : c.blocksOf[t] \cap c.entryBlocks[k] # {}
                              => c.entryBlocks[k] \subseteq c.blocksOf[t]
      BY <3>1 DEF Accounted, CacheWellFormed, PrefixesWhole
    <3> QED
      BY <3>1, <3>4, <3>5
  <2>11. \A b \in Blocks : d.refCount[b] = IF b \in extra THEN c.refCount[b] + 1 ELSE c.refCount[b]
    BY <1>9, <2>4
  <2>12. \A b \in Held(c) : b \in d.occupied /\ d.tag[b] = c.tag[b]
    BY <1>10, <2>4
  <2>13. d.blocksOf[s] = (IF s \in c.live THEN c.blocksOf[s] ELSE {}) \cup extra
    BY <2>4
  <2> HIDE DEF extra
  <2>14. Grown(c, d, s, extra)
    BY <2>6, <2>7, <2>8, <2>9, <2>10, <2>11, <2>12, <2>13 DEF Grown
  <2>15. Accounted(d) /\ Held(d) = Held(c) \cup extra
    BY <2>4, <2>5, <2>6, <2>14, GrownAccounted
  <2>16. Tracked(c) => Tracked(d)
    <3>1. \A b \in got.ids : d.tag[b] = NoKey /\ b \in Held(d)
      BY <1>6, <2>4, <2>15 DEF Promise, extra
    <3> QED
      BY <1>12, <2>4, <2>15, <3>1 DEF Tracked, TrackedIn
  <2>17. OlderEntries(c, d)
    BY <1>11, <2>4 DEF OlderEntries
  <2> QED
    BY <2>2, <2>7, <2>15, <2>16, <2>17
<1>14. CASE ~ got.ok
  <2>1. /\ got.ids = {} /\ Cardinality(FreeBlocks(got.kv)) < suffix
        /\ \A k \in got.kv.cached : ~ Idle(pinned, k)
    BY <1>6, <1>14 DEF Promise
  <2>2. out.kv = undone /\ out.reply = "exhausted"
    BY <1>3, <1>14 DEF Outcome
  <2>3. \A b \in prefix : got.kv.refCount[b] + -1 \in Nat
    BY <1>1, <1>2, <1>9
  <2>4. /\ undone \in Cache
        /\ \A b \in Blocks : undone.refCount[b] =
             IF b \in prefix THEN got.kv.refCount[b] + -1 ELSE got.kv.refCount[b]
        /\ undone.occupied = got.kv.occupied /\ undone.tag = got.kv.tag
        /\ undone.cached = got.kv.cached /\ undone.entryTokens = got.kv.entryTokens
        /\ undone.entryBlocks = got.kv.entryBlocks
        /\ SameSequences(got.kv, undone)
    BY <1>2, <1>7, <2>3, AddRefIs
  <2> HIDE DEF undone
  <2>5. \A b \in Blocks : undone.refCount[b] = c.refCount[b]
    BY <1>1, <1>2, <1>9, <2>1, <2>4
  <2>6. Consistent(undone)
    <3>1. CachedResident(undone)
      BY <1>7, <2>4 DEF CachedResident
    <3>2. Referenced(undone)
      BY <1>1, <1>10, <2>4, <2>5 DEF Referenced
    <3> QED
      BY <2>4, <3>1, <3>2 DEF Consistent
  <2>7. SameSequences(c, undone)
    BY <1>7, <2>4 DEF SameSequences
  <2>8. Accounted(undone) /\ Held(undone) = Held(c) /\ undone.refCount = c.refCount
    BY <1>10, <1>11, <2>4, <2>5, <2>6, <2>7, KeptAccounted
  <2>9. ASSUME NEW k \in undone.cached
        PROVE  undone.entryBlocks[k] \cap Held(undone) # {} \/ undone.entryBlocks[k] \subseteq prefix
    <3>1. /\ k \in c.cached /\ undone.entryBlocks[k] = c.entryBlocks[k] /\ ~ Idle(pinned, k)
          /\ c.entryBlocks[k] \subseteq Blocks
      BY <1>1, <1>11, <2>1, <2>4, CacheFields
    <3>2. PICK b \in c.entryBlocks[k] : pinned.refCount[b] # 0
      BY <1>4, <3>1 DEF Idle
    <3>3. CASE b \in prefix
      <4>1. k = key
        BY <1>1, <1>2, <3>1, <3>2, <3>3 DEF CachedResident
      <4> QED
        BY <3>1, <4>1 DEF prefix
    <3>4. CASE b \notin prefix
      <4>1. c.refCount[b] > 0
        BY <1>1, <1>4, <3>1, <3>2, <3>4
      <4> QED
        BY <1>1, <2>8, <3>1, <4>1
    <3> QED
      BY <3>3, <3>4
  <2>10. Reclaimable(undone) \subseteq FreeBlocks(undone) \cup (prefix \ Held(c))
    BY <2>8, <2>9, ReclaimableIs
  <2>11. FreeBlocks(undone) = FreeBlocks(got.kv)
    BY <2>4 DEF FreeBlocks
  <2>12. /\ FreeBlocks(got.kv) \in SUBSET Blocks /\ prefix \ Held(c) \in SUBSET Blocks
         /\ FreeBlocks(got.kv) \cup (prefix \ Held(c)) \in SUBSET Blocks
    BY <1>2 DEF FreeBlocks
  <2>13. /\ Cardinality(FreeBlocks(got.kv)) \in Nat /\ Cardinality(prefix \ Held(c)) \in Nat
         /\ Cardinality(FreeBlocks(got.kv) \cup (prefix \ Held(c)))
              <= Cardinality(FreeBlocks(got.kv)) + Cardinality(prefix \ Held(c))
         /\ Cardinality(Reclaimable(undone)) <= Cardinality(FreeBlocks(got.kv) \cup (prefix \ Held(c)))
         /\ Cardinality(Reclaimable(undone)) \in Nat
         /\ Cardinality(FreeBlocks(got.kv) \cup (prefix \ Held(c))) \in Nat
    BY <2>10, <2>11, <2>12, BlocksFinite, BlocksUnion, BlocksMonotone
  <2>14. Cardinality(Reclaimable(undone)) < suffix + Cardinality(prefix \ Held(c))
    BY <2>1, <2>13
  <2>15. Tracked(c) => Tracked(undone)
    BY <1>12, <2>1, <2>4, <2>8 DEF Tracked, TrackedIn
  <2>16. OlderEntries(c, undone)
    BY <1>11, <2>4 DEF OlderEntries
  <2> QED
    BY <2>2, <2>7, <2>8, <2>14, <2>15, <2>16 DEF Refusal
<1> QED
  BY <1>13, <1>14

\* d is c with the entry of key written in the map prefix_cache.
Cached(c, d, key, tokens, ids) ==
  /\ d \in Cache
  /\ d.cached = c.cached \cup {key}
  /\ d.entryBlocks[key] = ids /\ d.entryTokens[key] = tokens
  /\ \A k \in Keys \ {key} : /\ d.entryBlocks[k] = c.entryBlocks[k]
                             /\ d.entryTokens[k] = c.entryTokens[k]
  /\ d.occupied = c.occupied /\ d.refCount = c.refCount /\ d.tag = c.tag
  /\ SameSequences(c, d)

\* This is what the assignment at the end of AllocatePrompt does.
LEMMA CachedIs ==
  ASSUME NEW c \in Cache, NEW key \in Keys, NEW tokens \in Nat, NEW ids \in SUBSET Blocks
  PROVE  Cached(c, [c EXCEPT !.cached = @ \cup {key}, !.entryTokens[key] = tokens,
                             !.entryBlocks[key] = ids], key, tokens, ids)
<1> DEFINE counts == [c.entryTokens EXCEPT ![key] = tokens]
           entries == [c.entryBlocks EXCEPT ![key] = ids]
           d == [c EXCEPT !.cached = c.cached \cup {key}, !.entryTokens = counts,
                          !.entryBlocks = entries]
<1>1. /\ counts \in [Keys -> Nat] /\ entries \in [Keys -> SUBSET Blocks]
      /\ c.cached \cup {key} \in SUBSET Keys
      /\ counts[key] = tokens /\ entries[key] = ids
      /\ \A k \in Keys \ {key} : counts[k] = c.entryTokens[k] /\ entries[k] = c.entryBlocks[k]
  BY CacheFields
<1>2. [c EXCEPT !.cached = @ \cup {key}, !.entryTokens[key] = tokens, !.entryBlocks[key] = ids] = d
  OBVIOUS
<1> HIDE DEF counts, entries
<1>3. /\ d \in Cache /\ d.cached = c.cached \cup {key} /\ d.entryTokens = counts
      /\ d.entryBlocks = entries
      /\ d.occupied = c.occupied /\ d.refCount = c.refCount /\ d.tag = c.tag
      /\ SameSequences(c, d)
  BY <1>1 DEF Cache, SameSequences
<1> HIDE DEF d
<1>4. Cached(c, d, key, tokens, ids)
  BY <1>1, <1>3 DEF Cached
<1> QED
  BY <1>2, <1>4

\* An entry of d is one of c, of the same length, or that of key, of the given one.
NewEntry(c, d, key, tokens) ==
  \A k \in d.cached : \/ k \in c.cached /\ d.entryTokens[k] = c.entryTokens[k]
                      \/ k = key /\ d.entryTokens[k] = tokens

\* A prompt of its own: the bookkeeping stays right, whatever the entry of key
\* was; and when a part does not fit, the other part is given back and the
\* prompt could not have been served from all the blocks that no sequence holds.
LEMMA NewPrefixIs ==
  ASSUME NEW c, Accounted(c), NEW s \in Sequences, s \notin c.live,
         NEW key \in Keys \cup {NoKey}, NEW tokens \in Nat, tokens = 0 \/ key \in Keys,
         NEW suffix \in Nat
  PROVE  LET out == NewPrefix(c, s, key, tokens, BlocksFor(tokens), suffix) IN
         /\ Accounted(out.kv)
         /\ out.reply \in {"ok", "exhausted"}
         /\ out.reply = "exhausted" => Refusal(c, out.kv, suffix + BlocksFor(tokens))
         /\ out.reply = "ok" => out.kv.live = c.live \cup {s}
         /\ NewEntry(c, out.kv, key, tokens)
         /\ Tracked(c) /\ (tokens = 0 \/ key \notin c.cached) => Tracked(out.kv)
<1> DEFINE prefix == BlocksFor(tokens)
           out == NewPrefix(c, s, key, tokens, prefix, suffix)
           first == AllocateBlocks(c, prefix, key)
           second == AllocateBlocks(first.kv, suffix, NoKey)
           extra == first.ids \cup second.ids
           count == prefix + suffix
           attached == Attach(second.kv, s, extra, count)
           written == [attached EXCEPT !.cached = @ \cup {key}, !.entryTokens[key] = tokens,
                                       !.entryBlocks[key] = first.ids]
           freed == Free(second.kv, first.ids)
<1>1. /\ c \in Cache /\ Consistent(c) /\ Held(c) \subseteq Blocks
      /\ \A b \in Blocks : c.refCount[b] \in Nat /\ (c.refCount[b] > 0 <=> b \in Held(c))
  BY AccountedIs DEF Consistent
<1>2. prefix \in Nat
  BY BlocksForIs
<1>3. out = IF ~ first.ok THEN Outcome(first.kv, "exhausted")
            ELSE IF ~ second.ok THEN Outcome(freed, "exhausted")
            ELSE IF tokens = 0 THEN Outcome(attached, "ok")
            ELSE Outcome(written, "ok")
  BY DEF NewPrefix
<1> SUFFICES /\ Accounted(out.kv)
             /\ out.reply \in {"ok", "exhausted"}
             /\ out.reply = "exhausted" => Refusal(c, out.kv, suffix + prefix)
             /\ out.reply = "ok" => out.kv.live = c.live \cup {s}
             /\ NewEntry(c, out.kv, key, tokens)
             /\ Tracked(c) /\ (tokens = 0 \/ key \notin c.cached) => Tracked(out.kv)
  OBVIOUS
<1> HIDE DEF out, prefix
<1>4. Promise(c, prefix, key, first)
  BY <1>1, <1>2, AllocateBlocksIs
<1> HIDE DEF first
<1>5. /\ Consistent(first.kv) /\ first.kv \in Cache
      /\ SameSequences(c, first.kv)
      /\ first.ids \in SUBSET Blocks /\ first.ids \subseteq first.kv.occupied
      /\ \A b \in first.ids : c.refCount[b] = 0 /\ first.kv.tag[b] = key
      /\ \A b \in Blocks : /\ first.kv.refCount[b] = IF b \in first.ids THEN 1 ELSE c.refCount[b]
                           /\ c.refCount[b] > 0 => first.kv.tag[b] = c.tag[b]
      /\ first.kv.cached \subseteq c.cached
      /\ \A k \in first.kv.cached : /\ first.kv.entryBlocks[k] = c.entryBlocks[k]
                                    /\ c.entryBlocks[k] \cap first.ids = {}
  BY <1>4, CacheFields DEF Promise, Consistent
<1>6. \A b \in Held(c) : /\ b \in Blocks /\ c.refCount[b] > 0
                         /\ b \notin first.ids
                         /\ first.kv.refCount[b] > 0 /\ first.kv.tag[b] = c.tag[b]
  BY <1>1, <1>5
<1>7. Tracked(c) => TrackedIn(first.kv, Held(c), first.ids)
  <2>1. TrackedIn(c, Held(c), {}) => TrackedIn(first.kv, Held(c), {} \cup first.ids)
    BY <1>4, TakenTracked
  <2> QED
    BY <2>1 DEF Tracked
<1>8. \A k \in first.kv.cached : k \in c.cached /\ first.kv.entryTokens[k] = c.entryTokens[k]
  BY <1>4 DEF Promise
<1>9. CASE ~ first.ok
  <2>1. /\ first.ids = {} /\ Cardinality(FreeBlocks(first.kv)) < prefix
        /\ \A k \in first.kv.cached : ~ Idle(c, k)
    BY <1>4, <1>9 DEF Promise
  <2>2. out.kv = first.kv /\ out.reply = "exhausted"
    BY <1>3, <1>9 DEF Outcome
  <2>3. Accounted(first.kv) /\ Held(first.kv) = Held(c) /\ first.kv.refCount = c.refCount
    BY <1>5, <1>6, <2>1, KeptAccounted
  <2>4. \A k \in first.kv.cached : first.kv.entryBlocks[k] \cap Held(first.kv) # {}
    <3> SUFFICES ASSUME NEW k \in first.kv.cached
                 PROVE  first.kv.entryBlocks[k] \cap Held(c) # {}
      BY <2>3
    <3>1. k \in c.cached /\ c.entryBlocks[k] \subseteq Blocks
      BY <1>1, <1>5, CacheFields
    <3>2. PICK b \in c.entryBlocks[k] : c.refCount[b] # 0
      BY <2>1 DEF Idle
    <3> QED
      BY <1>1, <1>5, <3>1, <3>2
  <2>5. Reclaimable(first.kv) \subseteq FreeBlocks(first.kv)
    <3>1. Reclaimable(first.kv) \subseteq FreeBlocks(first.kv) \cup ({} \ Held(first.kv))
      BY <2>3, <2>4, ReclaimableIs
    <3> QED
      BY <3>1
  <2>6. FreeBlocks(first.kv) \in SUBSET Blocks
    BY DEF FreeBlocks
  <2>7. /\ Cardinality(Reclaimable(first.kv)) <= Cardinality(FreeBlocks(first.kv))
        /\ Cardinality(Reclaimable(first.kv)) \in Nat /\ Cardinality(FreeBlocks(first.kv)) \in Nat
    BY <2>5, <2>6, BlocksMonotone, BlocksFinite
  <2>8. Cardinality(Reclaimable(first.kv)) < suffix + prefix
    BY <1>2, <2>1, <2>7
  <2>9. Tracked(c) => Tracked(first.kv)
    BY <1>7, <2>1, <2>3 DEF Tracked, TrackedIn
  <2> QED
    BY <1>5, <1>8, <2>2, <2>3, <2>8, <2>9 DEF Refusal, NewEntry
<1>10. Promise(first.kv, suffix, NoKey, second)
  BY <1>5, AllocateBlocksIs
<1> HIDE DEF second
<1>11. /\ second.kv \in Cache /\ CachedResident(second.kv) /\ Referenced(second.kv)
       /\ SameSequences(c, second.kv)
       /\ second.ids \in SUBSET Blocks /\ second.ids \subseteq second.kv.occupied
       /\ \A b \in second.ids : first.kv.refCount[b] = 0
       /\ \A b \in Blocks : /\ second.kv.refCount[b] = IF b \in second.ids THEN 1
                                                       ELSE first.kv.refCount[b]
                            /\ first.kv.refCount[b] > 0 => second.kv.tag[b] = first.kv.tag[b]
       /\ second.kv.cached \subseteq c.cached /\ second.kv.cached \subseteq first.kv.cached
       /\ \A k \in second.kv.cached : /\ second.kv.entryBlocks[k] = c.entryBlocks[k]
                                      /\ c.entryBlocks[k] \cap first.ids = {}
                                      /\ c.entryBlocks[k] \cap second.ids = {}
  BY <1>5, <1>10, CacheFields DEF Promise, Consistent, SameSequences
<1>12. /\ first.ids \cap second.ids = {} /\ extra \in SUBSET Blocks
       /\ \A b \in extra : c.refCount[b] = 0 /\ b \notin Held(c)
       /\ \A b \in Blocks : second.kv.refCount[b] =
                              IF b \in extra THEN c.refCount[b] + 1 ELSE c.refCount[b]
  <2>1. \A b \in first.ids : b \in Blocks /\ first.kv.refCount[b] = 1
    BY <1>5
  <2>2. first.ids \cap second.ids = {}
    BY <1>11, <2>1
  <2>3. \A b \in second.ids : b \in Blocks /\ c.refCount[b] = 0
    BY <1>5, <1>11, <2>2
  <2>4. \A b \in extra : b \in Blocks /\ c.refCount[b] = 0
    BY <1>5, <2>3
  <2>5. \A b \in Blocks : second.kv.refCount[b] =
                            IF b \in extra THEN c.refCount[b] + 1 ELSE c.refCount[b]
    BY <1>5, <1>11, <2>1, <2>2, <2>4
  <2> QED
    BY <1>1, <2>2, <2>4, <2>5
<1>13. /\ \A b \in Held(c) : b \in second.kv.occupied /\ second.kv.tag[b] = c.tag[b]
       /\ \A b \in first.ids : b \in second.kv.occupied /\ second.kv.tag[b] = key
  <2>1. \A b \in first.ids : b \in Blocks /\ first.kv.refCount[b] > 0 /\ first.kv.tag[b] = key
    BY <1>5
  <2>2. \A b \in Held(c) \cup first.ids : b \in Blocks /\ second.kv.refCount[b] > 0
    BY <1>6, <1>11, <2>1
  <2> QED
    BY <1>6, <1>11, <2>1, <2>2 DEF Referenced
<1>14. Tracked(c) => TrackedIn(second.kv, Held(c), extra)
  <2>1. TrackedIn(first.kv, Held(c), first.ids) => TrackedIn(second.kv, Held(c), first.ids \cup second.ids)
    BY <1>10, TakenTracked
  <2> QED
    BY <1>7, <2>1
<1>15. \A k \in second.kv.cached : k \in c.cached /\ second.kv.entryTokens[k] = c.entryTokens[k]
  BY <1>10, <1>8 DEF Promise
<1>16. CASE first.ok /\ ~ second.ok
  <2>1. /\ second.ids = {} /\ Cardinality(FreeBlocks(second.kv)) < suffix
        /\ \A k \in second.kv.cached : ~ Idle(first.kv, k)
        /\ Cardinality(first.ids) = prefix
    BY <1>4, <1>10, <1>16 DEF Promise
  <2>2. out.kv = freed /\ out.reply = "exhausted"
    BY <1>3, <1>16 DEF Outcome
  <2>3. /\ freed \in Cache /\ freed.occupied = second.kv.occupied \ first.ids
        /\ \A b \in Blocks :
             /\ freed.refCount[b] = IF b \in first.ids THEN 0 ELSE second.kv.refCount[b]
             /\ freed.tag[b] = IF b \in first.ids THEN NoKey ELSE second.kv.tag[b]
        /\ SameSequences(second.kv, freed)
        /\ freed.cached = second.kv.cached /\ freed.entryTokens = second.kv.entryTokens
        /\ freed.entryBlocks = second.kv.entryBlocks
    BY <1>5, <1>11, FreeIs
  <2> HIDE DEF freed
  <2>4. \A b \in Blocks : freed.refCount[b] = c.refCount[b]
    BY <1>12, <2>1, <2>3
  <2>5. Consistent(freed)
    <3>1. CachedResident(freed)
      <4> SUFFICES ASSUME NEW k \in freed.cached
                   PROVE  /\ freed.entryBlocks[k] \subseteq freed.occupied
                          /\ \A b \in freed.entryBlocks[k] : freed.tag[b] = k
                          /\ Cardinality(freed.entryBlocks[k]) = BlocksFor(freed.entryTokens[k])
        BY DEF CachedResident
      <4>1. /\ second.kv.entryBlocks[k] \subseteq second.kv.occupied
            /\ \A b \in second.kv.entryBlocks[k] : second.kv.tag[b] = k
            /\ Cardinality(second.kv.entryBlocks[k]) = BlocksFor(second.kv.entryTokens[k])
            /\ second.kv.entryBlocks[k] \cap first.ids = {}
        BY <1>11, <2>3 DEF CachedResident
      <4>2. second.kv.occupied \subseteq Blocks
        BY <1>11, CacheFields
      <4> QED
        BY <2>3, <4>1, <4>2
    <3>2. Referenced(freed)
      BY <1>11, <2>3 DEF Referenced
    <3> QED
      BY <2>3, <3>1, <3>2 DEF Consistent
  <2>6. SameSequences(c, freed)
    BY <1>11, <2>3 DEF SameSequences
  <2>7. \A b \in Held(c) : freed.tag[b] = c.tag[b]
    BY <1>6, <1>13, <2>3
  <2>8. Accounted(freed) /\ Held(freed) = Held(c) /\ freed.refCount = c.refCount
    BY <1>11, <2>3, <2>4, <2>5, <2>6, <2>7, KeptAccounted
  <2>9. \A k \in freed.cached : freed.entryBlocks[k] \cap Held(freed) # {}
    <3> SUFFICES ASSUME NEW k \in freed.cached
                 PROVE  freed.entryBlocks[k] \cap Held(c) # {}
      BY <2>8
    <3>1. /\ k \in second.kv.cached /\ k \in c.cached /\ k \in first.kv.cached
          /\ freed.entryBlocks[k] = c.entryBlocks[k] /\ first.kv.entryBlocks[k] = c.entryBlocks[k]
          /\ c.entryBlocks[k] \cap first.ids = {} /\ c.entryBlocks[k] \subseteq Blocks
      BY <1>1, <1>5, <1>11, <2>3, CacheFields
    <3>2. PICK b \in c.entryBlocks[k] : first.kv.refCount[b] # 0
      BY <2>1, <3>1 DEF Idle
    <3>3. c.refCount[b] # 0 /\ b \in Blocks
      BY <1>5, <3>1, <3>2
    <3> QED
      BY <1>1, <3>1, <3>3
  <2>10. Reclaimable(freed) \subseteq FreeBlocks(second.kv) \cup first.ids
    <3>1. Reclaimable(freed) \subseteq FreeBlocks(freed) \cup ({} \ Held(freed))
      BY <2>8, <2>9, ReclaimableIs
    <3>2. FreeBlocks(freed) \subseteq FreeBlocks(second.kv) \cup first.ids
      BY <2>3 DEF FreeBlocks
    <3> QED
      BY <3>1, <3>2
  <2>11. /\ FreeBlocks(second.kv) \in SUBSET Blocks /\ first.ids \in SUBSET Blocks
         /\ FreeBlocks(second.kv) \cup first.ids \in SUBSET Blocks
    BY <1>5 DEF FreeBlocks
  <2>12. /\ Cardinality(FreeBlocks(second.kv)) \in Nat
         /\ Cardinality(FreeBlocks(second.kv) \cup first.ids) \in Nat
         /\ Cardinality(FreeBlocks(second.kv) \cup first.ids)
              <= Cardinality(FreeBlocks(second.kv)) + Cardinality(first.ids)
         /\ Cardinality(Reclaimable(freed)) \in Nat
         /\ Cardinality(Reclaimable(freed)) <= Cardinality(FreeBlocks(second.kv) \cup first.ids)
    BY <2>10, <2>11, BlocksFinite, BlocksUnion, BlocksMonotone
  <2>13. Cardinality(Reclaimable(freed)) < suffix + prefix
    BY <1>2, <2>1, <2>12
  <2>14. Tracked(c) => Tracked(freed)
    <3>1. freed.occupied \subseteq Blocks \ first.ids
      BY <2>3, CacheFields
    <3> QED
      BY <1>14, <2>1, <2>3, <2>8, <3>1 DEF Tracked, TrackedIn
  <2>15. NewEntry(c, freed, key, tokens)
    BY <1>15, <2>3 DEF NewEntry
  <2> QED
    BY <2>2, <2>6, <2>8, <2>13, <2>14, <2>15 DEF Refusal
<1>17. CASE first.ok /\ second.ok
  <2>1. Cardinality(first.ids) = prefix /\ Cardinality(second.ids) = suffix
    BY <1>4, <1>10, <1>17 DEF Promise
  <2>2. out.reply = "ok" /\ out.kv = IF tokens = 0 THEN attached ELSE written
    BY <1>3, <1>17 DEF Outcome
  <2>3. Cardinality(extra) = count /\ count \in Nat
    <3>1. Cardinality(first.ids \cup second.ids) = Cardinality(first.ids) + Cardinality(second.ids)
      BY <1>5, <1>11, <1>12, BlocksUnion
    <3> QED
      BY <1>2, <2>1, <3>1
  <2>4. Attached(second.kv, attached, s, extra, count)
    <3> HIDE DEF extra, count
    <3> QED
      BY <1>11, <1>12, <2>3, AttachIs
  <2>5. ASSUME key \in Keys
        PROVE  Cached(attached, written, key, tokens, first.ids)
    <3>1. attached \in Cache
      BY <2>4 DEF Attached
    <3> HIDE DEF attached
    <3> QED
      BY <1>5, <2>5, <3>1, CachedIs
  <2> HIDE DEF attached, written
  <2> DEFINE d == out.kv
  <2>6. /\ d \in Cache /\ d.live = c.live \cup {s} /\ c.live \subseteq Sequences
        /\ d.blocksOf[s] = extra /\ d.promptBlocks[s] = count /\ d.generated[s] = 0
        /\ \A t \in Sequences \ {s} : /\ d.blocksOf[t] = c.blocksOf[t]
                                      /\ d.promptBlocks[t] = c.promptBlocks[t]
                                      /\ d.generated[t] = c.generated[t]
        /\ d.occupied = second.kv.occupied /\ d.refCount = second.kv.refCount
        /\ d.tag = second.kv.tag
    <3>1. c.live \subseteq Sequences
      BY <1>1, CacheFields
    <3>2. CASE tokens = 0
      BY <1>11, <2>2, <2>4, <3>1, <3>2 DEF Attached, SameSequences
    <3>3. CASE tokens # 0
      BY <1>11, <2>2, <2>4, <2>5, <3>1, <3>3 DEF Attached, Cached, SameSequences
    <3> QED
      BY <3>2, <3>3
  <2>7. \A k \in d.cached :
          \/ /\ k \in second.kv.cached
             /\ d.entryBlocks[k] = second.kv.entryBlocks[k]
             /\ d.entryTokens[k] = second.kv.entryTokens[k]
          \/ /\ k = key /\ d.entryBlocks[k] = first.ids /\ d.entryTokens[k] = tokens
    <3>1. second.kv.cached \subseteq Keys
      BY <1>11, CacheFields
    <3>2. CASE tokens = 0
      BY <2>2, <2>4, <3>2 DEF Attached
    <3>3. CASE tokens # 0
      BY <2>2, <2>4, <2>5, <3>1, <3>3 DEF Attached, Cached
    <3> QED
      BY <3>2, <3>3
  <2>8. /\ \A k \in second.kv.cached : /\ k \in d.cached
                                       /\ tokens = 0 \/ k # key =>
                                            d.entryBlocks[k] = second.kv.entryBlocks[k]
        /\ tokens # 0 => key \in d.cached /\ d.entryBlocks[key] = first.ids
    <3>1. second.kv.cached \subseteq Keys
      BY <1>11, CacheFields
    <3>2. CASE tokens = 0
      BY <2>2, <2>4, <3>2 DEF Attached
    <3>3. CASE tokens # 0
      BY <2>2, <2>4, <2>5, <3>1, <3>3 DEF Attached, Cached
    <3> QED
      BY <3>2, <3>3
  <2> HIDE DEF d
  <2>9. CachedResident(d)
    <3> SUFFICES ASSUME NEW k \in d.cached
                 PROVE  /\ d.entryBlocks[k] \subseteq d.occupied
                        /\ \A b \in d.entryBlocks[k] : d.tag[b] = k
                        /\ Cardinality(d.entryBlocks[k]) = BlocksFor(d.entryTokens[k])
      BY DEF CachedResident
    <3>1. CASE /\ k \in second.kv.cached
               /\ d.entryBlocks[k] = second.kv.entryBlocks[k]
               /\ d.entryTokens[k] = second.kv.entryTokens[k]
      BY <1>11, <2>6, <3>1 DEF CachedResident
    <3>2. CASE k = key /\ d.entryBlocks[k] = first.ids /\ d.entryTokens[k] = tokens
      BY <1>13, <2>1, <2>6, <3>2 DEF prefix
    <3> QED
      BY <2>7, <3>1, <3>2
  <2>10. ASSUME NEW k \in d.cached
         PROVE  /\ d.entryBlocks[k] \cap extra # {} => d.entryBlocks[k] \subseteq extra
                /\ \A t \in c.live : c.blocksOf[t] \cap d.entryBlocks[k] # {}
                                       => d.entryBlocks[k] \subseteq c.blocksOf[t]
    <3>1. CASE k \in second.kv.cached /\ d.entryBlocks[k] = second.kv.entryBlocks[k]
      <4>1. /\ k \in c.cached /\ d.entryBlocks[k] = c.entryBlocks[k]
            /\ d.entryBlocks[k] \cap extra = {}
        BY <1>11, <3>1
      <4> QED
        BY <4>1 DEF Accounted, CacheWellFormed, PrefixesWhole
    <3>2. CASE d.entryBlocks[k] = first.ids
      BY <1>12, <3>2 DEF Held
    <3> QED
      BY <2>7, <3>1, <3>2
  <2>11. extra \subseteq d.occupied
    BY <1>11, <1>13, <2>6
  <2>12. Cardinality(d.blocksOf[s]) = d.promptBlocks[s] + BlocksFor(d.generated[s])
    BY <2>3, <2>6, BlocksForIs
  <2>13. d.blocksOf[s] = (IF s \in c.live THEN c.blocksOf[s] ELSE {}) \cup extra
    BY <2>6
  <2>14. extra \cap Held(c) = {}
    BY <1>12
  <2>15. \A b \in Held(c) : b \in d.occupied /\ d.tag[b] = c.tag[b]
    BY <1>13, <2>6
  <2>16. \A b \in Blocks : d.refCount[b] = IF b \in extra THEN c.refCount[b] + 1 ELSE c.refCount[b]
    BY <1>12, <2>6
  <2> HIDE DEF extra
  <2>17. Grown(c, d, s, extra)
    BY <2>6, <2>10, <2>11, <2>12, <2>13, <2>14, <2>15, <2>16 DEF Grown
  <2>18. Accounted(d) /\ Held(d) = Held(c) \cup extra
    BY <1>12, <2>6, <2>9, <2>17, GrownAccounted
  <2>19. ASSUME Tracked(c), tokens = 0 \/ key \notin c.cached
         PROVE  Tracked(d)
    <3> SUFFICES ASSUME NEW b \in d.occupied
                 PROVE  IF d.tag[b] = NoKey THEN b \in Held(d)
                        ELSE d.tag[b] \in d.cached /\ b \in d.entryBlocks[d.tag[b]]
      BY DEF Tracked, TrackedIn
    <3>1. CASE b \in second.ids
      BY <1>10, <2>6, <2>18, <3>1 DEF Promise, extra
    <3>2. CASE b \in first.ids
      <4>1. tokens # 0
        <5> SUFFICES ASSUME tokens = 0 PROVE FALSE
          OBVIOUS
        <5>1. prefix = 0
          BY BlocksForIs DEF prefix
        <5>2. IsFiniteSet(first.ids)
          BY <1>5, BlocksFinite
        <5>3. first.ids = {}
          BY <2>1, <5>1, <5>2, FS_EmptySet
        <5> QED
          BY <3>2, <5>3
      <4>2. d.tag[b] = key /\ key # NoKey
        BY <1>13, <2>6, <3>2, <4>1, BlocksFinite
      <4> QED
        BY <2>8, <3>2, <4>1, <4>2
    <3>3. CASE b \notin extra
      <4>1. IF d.tag[b] = NoKey THEN b \in Held(c)
            ELSE d.tag[b] \in second.kv.cached /\ b \in second.kv.entryBlocks[d.tag[b]]
        BY <1>14, <2>6, <2>19, <3>3 DEF TrackedIn
      <4> QED
        BY <1>11, <2>18, <2>8, <2>19, <4>1
    <3> QED
      BY <3>1, <3>2, <3>3 DEF extra
  <2>20. NewEntry(c, d, key, tokens)
    BY <1>15, <2>7 DEF NewEntry
  <2> QED
    BY <2>2, <2>6, <2>18, <2>19, <2>20 DEF d
<1> QED
  BY <1>9, <1>16, <1>17

\* The part of a prompt that can be cached is no longer than the prompt, and
\* nothing is cached without a key.
LEMMA CacheableIs ==
  ASSUME NEW tokens \in Nat, NEW key \in Keys \cup {NoKey}, NEW prefix \in Int
  PROVE  /\ Cacheable(tokens, key, prefix) \in 0..tokens
         /\ Cacheable(tokens, key, prefix) = 0 \/ key \in Keys
BY DEF Cacheable, MinOf

\* The blocks AllocatePrompt takes that no sequence holds yet.
PromptNeed(c, promptTokens, key, prefix) ==
  LET tokens == MaxOf(0, promptTokens)
      cacheable == Cacheable(tokens, key, prefix)
      suffix == BlocksFor(tokens - cacheable)
      hit == cacheable > 0 /\ key \in c.cached /\ c.entryTokens[key] = cacheable
  IN IF hit THEN suffix + Cardinality(c.entryBlocks[key] \ Held(c))
     ELSE suffix + BlocksFor(cacheable)

\* AllocatePrompt keeps the bookkeeping right, and a prompt that is turned away
\* changes nothing and could not have been served.
LEMMA AllocatePromptIs ==
  ASSUME NEW c, Accounted(c), NEW s \in Sequences, NEW promptTokens \in Int,
         NEW key \in Keys \cup {NoKey}, NEW prefix \in Int
  PROVE  LET out == AllocatePrompt(c, s, promptTokens, key, prefix)
             need == PromptNeed(c, promptTokens, key, prefix)
             cacheable == Cacheable(MaxOf(0, promptTokens), key, prefix)
         IN /\ need \in Nat
            /\ Accounted(out.kv)
            /\ out.reply \in {"required", "exists", "hit", "ok", "exhausted"}
            /\ out.reply \in {"required", "exists"} => out.kv = c
            /\ out.reply = "exhausted" => Refusal(c, out.kv, need)
            /\ out.reply \in {"ok", "hit"} => s \notin c.live /\ out.kv.live = c.live \cup {s}
            /\ NewEntry(c, out.kv, key, cacheable)
            /\ Tracked(c) /\ (key \in c.cached => c.entryTokens[key] = cacheable) => Tracked(out.kv)
<1> DEFINE out == AllocatePrompt(c, s, promptTokens, key, prefix)
           need == PromptNeed(c, promptTokens, key, prefix)
           tokens == MaxOf(0, promptTokens)
           cacheable == Cacheable(tokens, key, prefix)
           suffix == BlocksFor(tokens - cacheable)
           hit == cacheable > 0 /\ key \in c.cached /\ c.entryTokens[key] = cacheable
           shared == SharePrefix(c, s, key, suffix)
           fresh == NewPrefix(c, s, key, cacheable, BlocksFor(cacheable), suffix)
<1>1. tokens \in Nat
  BY DEF MaxOf
<1>2. out = IF s = EmptyId THEN Outcome(c, "required")
            ELSE IF s \in c.live THEN Outcome(c, "exists")
            ELSE IF hit THEN shared ELSE fresh
  BY DEF AllocatePrompt
<1>3. need = IF hit THEN suffix + Cardinality(c.entryBlocks[key] \ Held(c))
             ELSE suffix + BlocksFor(cacheable)
  BY DEF PromptNeed
<1> SUFFICES /\ need \in Nat
             /\ Accounted(out.kv)
             /\ out.reply \in {"required", "exists", "hit", "ok", "exhausted"}
             /\ out.reply \in {"required", "exists"} => out.kv = c
             /\ out.reply = "exhausted" => Refusal(c, out.kv, need)
             /\ out.reply \in {"ok", "hit"} => s \notin c.live /\ out.kv.live = c.live \cup {s}
             /\ NewEntry(c, out.kv, key, cacheable)
             /\ Tracked(c) /\ (key \in c.cached => c.entryTokens[key] = cacheable) => Tracked(out.kv)
  OBVIOUS
<1> HIDE DEF out, need, tokens
<1>4. cacheable \in 0..tokens /\ (cacheable = 0 \/ key \in Keys)
  BY <1>1, CacheableIs
<1> HIDE DEF cacheable
<1>5. cacheable \in Nat /\ tokens - cacheable \in Int
  BY <1>1, <1>4
<1>6. suffix \in Nat /\ BlocksFor(cacheable) \in Nat
  BY <1>5, BlocksForIs
<1> HIDE DEF suffix
<1>7. need \in Nat
  <2>1. CASE hit
    <3>1. c \in Cache /\ c.cached \subseteq Keys /\ c.entryBlocks \in [Keys -> SUBSET Blocks]
      BY CacheFields DEF Accounted
    <3>2. c.entryBlocks[key] \ Held(c) \in SUBSET Blocks
      BY <2>1, <3>1
    <3>3. Cardinality(c.entryBlocks[key] \ Held(c)) \in Nat
      BY <3>2, BlocksFinite
    <3> QED
      BY <1>3, <1>6, <2>1, <3>3
  <2>2. CASE ~ hit
    BY <1>3, <1>6, <2>2
  <2> QED
    BY <2>1, <2>2
<1>8. CASE s = EmptyId
  BY <1>2, <1>7, <1>8 DEF Outcome, NewEntry
<1>9. CASE s # EmptyId /\ s \in c.live
  BY <1>2, <1>7, <1>9 DEF Outcome, NewEntry
<1>10. CASE s # EmptyId /\ s \notin c.live /\ hit
  <2>1. /\ Accounted(shared.kv) /\ shared.reply \in {"hit", "exhausted"}
        /\ shared.reply = "exhausted" =>
             Refusal(c, shared.kv, suffix + Cardinality(c.entryBlocks[key] \ Held(c)))
        /\ shared.reply = "hit" => shared.kv.live = c.live \cup {s}
        /\ OlderEntries(c, shared.kv)
        /\ Tracked(c) => Tracked(shared.kv)
    BY <1>6, <1>10, SharePrefixIs
  <2> HIDE DEF shared
  <2>2. out = shared /\ need = suffix + Cardinality(c.entryBlocks[key] \ Held(c))
    BY <1>2, <1>3, <1>10
  <2> QED
    BY <1>7, <1>10, <2>1, <2>2 DEF OlderEntries, NewEntry
<1>11. CASE s # EmptyId /\ s \notin c.live /\ ~ hit
  <2>1. /\ Accounted(fresh.kv) /\ fresh.reply \in {"ok", "exhausted"}
        /\ fresh.reply = "exhausted" => Refusal(c, fresh.kv, suffix + BlocksFor(cacheable))
        /\ fresh.reply = "ok" => fresh.kv.live = c.live \cup {s}
        /\ NewEntry(c, fresh.kv, key, cacheable)
        /\ Tracked(c) /\ (cacheable = 0 \/ key \notin c.cached) => Tracked(fresh.kv)
    BY <1>4, <1>5, <1>6, <1>11, NewPrefixIs
  <2> HIDE DEF fresh
  <2>2. out = fresh /\ need = suffix + BlocksFor(cacheable)
    BY <1>2, <1>3, <1>11
  <2>3. (key \in c.cached => c.entryTokens[key] = cacheable) => cacheable = 0 \/ key \notin c.cached
    BY <1>5, <1>11
  <2> QED
    BY <1>7, <1>11, <2>1, <2>2, <2>3
<1> QED
  BY <1>8, <1>9, <1>10, <1>11

-----------------------------------------------------------------------------
(* AppendTokens and ReleaseSequence.                                       *)

\* AppendTokens keeps the bookkeeping right, and tokens that are turned away
\* change nothing and could not have been stored.
LEMMA AppendTokensIs ==
  ASSUME NEW c, Accounted(c), NEW s \in Sequences, NEW n \in Nat
  PROVE  LET out == AppendTokens(c, s, n) IN
         /\ Additional(c, s, n) \in Nat
         /\ Accounted(out.kv)
         /\ out.reply \in {"missing", "ok", "exhausted"}
         /\ out.reply = "missing" => out.kv = c
         /\ out.reply = "exhausted" => Refusal(c, out.kv, Additional(c, s, n))
         /\ out.reply = "missing" <=> s \notin c.live
         /\ out.kv.live = c.live
         /\ OlderEntries(c, out.kv)
         /\ Tracked(c) => Tracked(out.kv)
<1> DEFINE out == AppendTokens(c, s, n)
           more == Additional(c, s, n)
           got == AllocateBlocks(c, more, NoKey)
           gen == [got.kv.generated EXCEPT ![s] = got.kv.generated[s] + n]
           held == [got.kv.blocksOf EXCEPT ![s] = got.kv.blocksOf[s] \cup got.ids]
           d == [got.kv EXCEPT !.generated = gen, !.blocksOf = held]
<1>1. /\ c \in Cache /\ Consistent(c) /\ Held(c) \subseteq Blocks
      /\ \A b \in Blocks : c.refCount[b] \in Nat /\ (c.refCount[b] > 0 <=> b \in Held(c))
  BY AccountedIs DEF Consistent
<1>2. /\ c.generated[s] \in Nat /\ BlocksFor(c.generated[s]) \in Nat
      /\ BlocksFor(c.generated[s] + n) \in Nat /\ more \in Nat
      /\ more = BlocksFor(c.generated[s] + n) - BlocksFor(c.generated[s])
  <2>1. c.generated[s] \in Nat
    BY <1>1, CacheFields
  <2>2. c.generated[s] + n \in Int /\ c.generated[s] \in Int /\ c.generated[s] <= c.generated[s] + n
    BY <2>1
  <2>3. /\ BlocksFor(c.generated[s]) \in Nat /\ BlocksFor(c.generated[s] + n) \in Nat
        /\ BlocksFor(c.generated[s]) <= BlocksFor(c.generated[s] + n)
    BY <2>2, BlocksForIs
  <2> QED
    BY <2>1, <2>3 DEF Additional
<1>3. out = IF s \notin c.live THEN Outcome(c, "missing")
            ELSE IF n <= 0 THEN Outcome(c, "ok")
            ELSE IF ~ got.ok THEN Outcome(got.kv, "exhausted")
            ELSE Outcome(d, "ok")
  BY DEF AppendTokens
<1> SUFFICES /\ Accounted(out.kv)
             /\ out.reply \in {"missing", "ok", "exhausted"}
             /\ out.reply = "missing" => out.kv = c
             /\ out.reply = "exhausted" => Refusal(c, out.kv, more)
             /\ out.reply = "missing" <=> s \notin c.live
             /\ out.kv.live = c.live
             /\ OlderEntries(c, out.kv)
             /\ Tracked(c) => Tracked(out.kv)
  BY <1>2
<1> HIDE DEF out, more
<1>4. Promise(c, more, NoKey, got)
  BY <1>1, <1>2, AllocateBlocksIs
<1> HIDE DEF got
<1>5. /\ Consistent(got.kv) /\ got.kv \in Cache /\ CachedResident(got.kv) /\ Referenced(got.kv)
      /\ SameSequences(c, got.kv)
      /\ got.ids \in SUBSET Blocks /\ got.ids \subseteq got.kv.occupied
      /\ \A b \in got.ids : c.refCount[b] = 0
      /\ \A b \in Blocks : /\ got.kv.refCount[b] = IF b \in got.ids THEN 1 ELSE c.refCount[b]
                           /\ c.refCount[b] > 0 => got.kv.tag[b] = c.tag[b]
      /\ got.kv.cached \subseteq c.cached
      /\ \A k \in got.kv.cached : /\ got.kv.entryBlocks[k] = c.entryBlocks[k]
                                  /\ c.entryBlocks[k] \cap got.ids = {}
  BY <1>4, CacheFields DEF Promise, Consistent
<1>6. \A b \in Held(c) : /\ b \in Blocks /\ b \notin got.ids /\ c.refCount[b] > 0
                         /\ b \in got.kv.occupied /\ got.kv.tag[b] = c.tag[b]
  BY <1>1, <1>5 DEF Referenced
<1>7. Tracked(c) => TrackedIn(got.kv, Held(c), got.ids)
  <2>1. TrackedIn(c, Held(c), {}) => TrackedIn(got.kv, Held(c), {} \cup got.ids)
    BY <1>4, TakenTracked
  <2> QED
    BY <2>1 DEF Tracked
<1>8. OlderEntries(c, got.kv)
  BY <1>4 DEF Promise, OlderEntries
<1>9. CASE s \notin c.live
  BY <1>3, <1>9 DEF Outcome, OlderEntries
<1>10. CASE s \in c.live /\ n <= 0
  BY <1>3, <1>10 DEF Outcome, OlderEntries
<1>11. CASE s \in c.live /\ ~ (n <= 0) /\ ~ got.ok
  <2>1. /\ got.ids = {} /\ Cardinality(FreeBlocks(got.kv)) < more
        /\ \A k \in got.kv.cached : ~ Idle(c, k)
    BY <1>4, <1>11 DEF Promise
  <2>2. out.kv = got.kv /\ out.reply = "exhausted"
    BY <1>3, <1>11 DEF Outcome
  <2>3. Accounted(got.kv) /\ Held(got.kv) = Held(c) /\ got.kv.refCount = c.refCount
    BY <1>5, <1>6, <2>1, KeptAccounted
  <2>4. \A k \in got.kv.cached : got.kv.entryBlocks[k] \cap Held(got.kv) # {}
    <3> SUFFICES ASSUME NEW k \in got.kv.cached
                 PROVE  got.kv.entryBlocks[k] \cap Held(c) # {}
      BY <2>3
    <3>1. k \in c.cached /\ c.entryBlocks[k] \subseteq Blocks
      BY <1>1, <1>5, CacheFields
    <3>2. PICK b \in c.entryBlocks[k] : c.refCount[b] # 0
      BY <2>1 DEF Idle
    <3> QED
      BY <1>1, <1>5, <3>1, <3>2
  <2>5. Reclaimable(got.kv) \subseteq FreeBlocks(got.kv)
    <3>1. Reclaimable(got.kv) \subseteq FreeBlocks(got.kv) \cup ({} \ Held(got.kv))
      BY <2>3, <2>4, ReclaimableIs
    <3> QED
      BY <3>1
  <2>6. FreeBlocks(got.kv) \in SUBSET Blocks
    BY DEF FreeBlocks
  <2>7. /\ Cardinality(Reclaimable(got.kv)) <= Cardinality(FreeBlocks(got.kv))
        /\ Cardinality(Reclaimable(got.kv)) \in Nat /\ Cardinality(FreeBlocks(got.kv)) \in Nat
    BY <2>5, <2>6, BlocksMonotone, BlocksFinite
  <2>8. Cardinality(Reclaimable(got.kv)) < more
    BY <1>2, <2>1, <2>7
  <2>9. Tracked(c) => Tracked(got.kv)
    BY <1>7, <2>1, <2>3 DEF Tracked, TrackedIn
  <2> QED
    BY <1>5, <1>11, <1>8, <2>2, <2>3, <2>8, <2>9 DEF Refusal, SameSequences
<1>12. CASE s \in c.live /\ ~ (n <= 0) /\ got.ok
  <2>1. Cardinality(got.ids) = more
    BY <1>4, <1>12 DEF Promise
  <2>2. out.kv = d /\ out.reply = "ok"
    BY <1>3, <1>12 DEF Outcome
  <2>3. /\ gen \in [Sequences -> Nat] /\ held \in [Sequences -> SUBSET Blocks]
        /\ gen[s] = c.generated[s] + n /\ held[s] = c.blocksOf[s] \cup got.ids
        /\ \A t \in Sequences \ {s} : gen[t] = c.generated[t] /\ held[t] = c.blocksOf[t]
    BY <1>5, CacheFields DEF SameSequences
  <2> HIDE DEF gen, held
  <2>4. /\ d \in Cache /\ d.live = got.kv.live /\ d.blocksOf = held /\ d.generated = gen
        /\ d.promptBlocks = got.kv.promptBlocks
        /\ d.occupied = got.kv.occupied /\ d.refCount = got.kv.refCount /\ d.tag = got.kv.tag
        /\ d.cached = got.kv.cached /\ d.entryTokens = got.kv.entryTokens
        /\ d.entryBlocks = got.kv.entryBlocks
    BY <1>5, <2>3 DEF Cache
  <2> HIDE DEF d
  <2>5. CachedResident(d)
    BY <1>5, <2>4 DEF CachedResident
  <2>6. /\ d.live = c.live \cup {s} /\ c.live \subseteq Sequences
        /\ \A t \in c.live \ {s} : /\ d.blocksOf[t] = c.blocksOf[t]
                                   /\ d.promptBlocks[t] = c.promptBlocks[t]
                                   /\ d.generated[t] = c.generated[t]
        /\ d.blocksOf[s] = (IF s \in c.live THEN c.blocksOf[s] ELSE {}) \cup got.ids
    BY <1>1, <1>5, <1>12, <2>3, <2>4, CacheFields DEF SameSequences
  <2>7. c.blocksOf[s] \in SUBSET Blocks /\ c.blocksOf[s] \cap got.ids = {}
    <3>1. c.blocksOf[s] \subseteq Held(c)
      BY <1>12 DEF Held
    <3> QED
      BY <1>1, <1>6, <3>1
  <2>8. Cardinality(d.blocksOf[s]) = d.promptBlocks[s] + BlocksFor(d.generated[s])
    <3>1. Cardinality(c.blocksOf[s] \cup got.ids) = Cardinality(c.blocksOf[s]) + Cardinality(got.ids)
      BY <1>5, <2>7, BlocksUnion
    <3>2. Cardinality(c.blocksOf[s]) = c.promptBlocks[s] + BlocksFor(c.generated[s])
      BY <1>12 DEF Accounted, SizedRight
    <3>3. /\ d.blocksOf[s] = c.blocksOf[s] \cup got.ids /\ d.generated[s] = c.generated[s] + n
          /\ d.promptBlocks[s] = c.promptBlocks[s] /\ c.promptBlocks[s] \in Nat
      BY <1>1, <1>5, <2>3, <2>4, CacheFields DEF SameSequences
    <3> QED
      BY <1>2, <2>1, <3>1, <3>2, <3>3
  <2>9. ASSUME NEW k \in d.cached
        PROVE  /\ d.entryBlocks[k] \cap got.ids # {} => d.entryBlocks[k] \subseteq got.ids
               /\ \A t \in c.live : c.blocksOf[t] \cap d.entryBlocks[k] # {}
                                      => d.entryBlocks[k] \subseteq c.blocksOf[t]
    <3>1. /\ k \in c.cached /\ d.entryBlocks[k] = c.entryBlocks[k]
          /\ d.entryBlocks[k] \cap got.ids = {}
      BY <1>5, <2>4
    <3> QED
      BY <3>1 DEF Accounted, CacheWellFormed, PrefixesWhole
  <2>10. \A b \in Blocks :
           d.refCount[b] = IF b \in got.ids THEN c.refCount[b] + 1 ELSE c.refCount[b]
    BY <1>5, <2>4
  <2>11. Grown(c, d, s, got.ids)
    BY <1>5, <1>6, <2>4, <2>6, <2>7, <2>8, <2>9, <2>10 DEF Grown
  <2>12. Accounted(d) /\ Held(d) = Held(c) \cup got.ids
    BY <1>5, <2>4, <2>5, <2>11, GrownAccounted
  <2>13. Tracked(c) => Tracked(d)
    <3>1. \A b \in got.ids : d.tag[b] = NoKey /\ b \in Held(d)
      BY <1>4, <2>4, <2>12 DEF Promise
    <3> QED
      BY <1>7, <2>4, <2>12, <3>1 DEF Tracked, TrackedIn
  <2>14. OlderEntries(c, d)
    BY <1>8, <2>4 DEF OlderEntries
  <2>15. d.live = c.live
    BY <1>5, <2>4 DEF SameSequences
  <2> QED
    BY <1>12, <2>2, <2>12, <2>13, <2>14, <2>15
<1> QED
  BY <1>9, <1>10, <1>11, <1>12

\* ReleaseSequence keeps the bookkeeping right: it frees exactly the blocks that
\* lose their last holder and are not part of a prefix.
LEMMA ReleaseSequenceIs ==
  ASSUME NEW c, Accounted(c), NEW s \in Sequences
  PROVE  LET d == ReleaseSequence(c, s) IN
         /\ Accounted(d)
         /\ d.live = c.live \ {s}
         /\ OlderEntries(c, d)
         /\ Tracked(c) => Tracked(d)
<1>1. CASE s \notin c.live
  BY <1>1 DEF ReleaseSequence, OlderEntries
<1>2. CASE s \in c.live
  <2> DEFINE held == c.blocksOf[s]
             ref == [b \in Blocks |-> IF b \in held THEN MaxOf(0, c.refCount[b] - 1)
                                      ELSE c.refCount[b]]
             unpinned == [c EXCEPT !.refCount = ref]
             freed == {b \in held : unpinned.refCount[b] = 0 /\ c.tag[b] = NoKey}
             m == Free(unpinned, freed)
             blocks == [m.blocksOf EXCEPT ![s] = {}]
             prompts == [m.promptBlocks EXCEPT ![s] = 0]
             gen == [m.generated EXCEPT ![s] = 0]
             d == [m EXCEPT !.live = m.live \ {s}, !.blocksOf = blocks,
                            !.promptBlocks = prompts, !.generated = gen]
  <2>1. /\ c \in Cache /\ CachedResident(c) /\ HeldResident(c)
        /\ Held(c) \subseteq Blocks /\ held \subseteq Held(c)
        /\ \A b \in Blocks : /\ c.refCount[b] \in Nat /\ (c.refCount[b] > 0 <=> b \in Held(c))
                             /\ IsFiniteSet(Holders(c, b))
                             /\ c.refCount[b] = Cardinality(Holders(c, b))
    BY <1>2, AccountedIs DEF Accounted, CacheWellFormed, Held
  <2>2. ReleaseSequence(c, s) = d
    BY <1>2 DEF ReleaseSequence
  <2>3. /\ ref \in [Blocks -> Nat]
        /\ \A b \in Blocks : ref[b] = IF b \in held THEN c.refCount[b] - 1 ELSE c.refCount[b]
    <3>1. \A b \in Blocks : /\ c.refCount[b] \in Nat /\ (b \in held => c.refCount[b] > 0)
      BY <2>1
    <3>2. \A b \in Blocks : b \in held => MaxOf(0, c.refCount[b] - 1) = c.refCount[b] - 1
      BY <3>1 DEF MaxOf
    <3> QED
      BY <3>1, <3>2
  <2> HIDE DEF ref, held
  <2>4. /\ unpinned \in Cache /\ unpinned.refCount = ref /\ unpinned.occupied = c.occupied
        /\ unpinned.tag = c.tag /\ SameSequences(c, unpinned)
        /\ unpinned.cached = c.cached /\ unpinned.entryTokens = c.entryTokens
        /\ unpinned.entryBlocks = c.entryBlocks
    BY <2>1, <2>3 DEF Cache, SameSequences
  <2>5. /\ freed \in SUBSET Blocks
        /\ \A b \in freed : b \in held /\ ref[b] = 0 /\ c.tag[b] = NoKey
    BY <2>1, <2>4
  <2> HIDE DEF unpinned, freed
  <2>6. /\ m \in Cache /\ m.occupied = c.occupied \ freed
        /\ \A b \in Blocks : /\ m.refCount[b] = IF b \in freed THEN 0 ELSE ref[b]
                             /\ m.tag[b] = IF b \in freed THEN NoKey ELSE c.tag[b]
        /\ SameSequences(unpinned, m)
        /\ m.cached = c.cached /\ m.entryTokens = c.entryTokens /\ m.entryBlocks = c.entryBlocks
    BY <2>4, <2>5, FreeIs
  <2> HIDE DEF m
  <2>7. /\ m.live = c.live /\ m.blocksOf = c.blocksOf /\ m.promptBlocks = c.promptBlocks
        /\ m.generated = c.generated
    BY <2>4, <2>6 DEF SameSequences
  <2>8. /\ blocks \in [Sequences -> SUBSET Blocks] /\ prompts \in [Sequences -> Nat]
        /\ gen \in [Sequences -> Nat] /\ m.live \ {s} \in SUBSET Sequences
        /\ \A t \in Sequences \ {s} : /\ blocks[t] = c.blocksOf[t]
                                      /\ prompts[t] = c.promptBlocks[t]
                                      /\ gen[t] = c.generated[t]
    BY <2>6, <2>7, CacheFields
  <2> HIDE DEF blocks, prompts, gen
  <2>9. /\ d \in Cache /\ d.live = c.live \ {s} /\ d.blocksOf = blocks
        /\ d.promptBlocks = prompts /\ d.generated = gen
        /\ d.occupied = m.occupied /\ d.refCount = m.refCount /\ d.tag = m.tag
        /\ d.cached = c.cached /\ d.entryTokens = c.entryTokens /\ d.entryBlocks = c.entryBlocks
    BY <2>6, <2>7, <2>8 DEF Cache
  <2> HIDE DEF d
  <2>10. /\ d.live \subseteq c.live /\ d.live \subseteq Sequences \ {s}
         /\ \A t \in d.live : /\ d.blocksOf[t] = c.blocksOf[t]
                              /\ d.promptBlocks[t] = c.promptBlocks[t]
                              /\ d.generated[t] = c.generated[t]
    BY <2>1, <2>8, <2>9, CacheFields
  <2>11. ASSUME NEW b \in Blocks
         PROVE  /\ d.refCount[b] = Cardinality(Holders(d, b))
                /\ b \in Held(d) => b \notin freed
                /\ b \in held /\ c.tag[b] = NoKey /\ b \notin freed => b \in Held(d)
    <3>1. Holders(d, b) = Holders(c, b) \ {s}
      BY <2>9, <2>10 DEF Holders
    <3>2. s \in Holders(c, b) <=> b \in held
      BY <1>2 DEF Holders, held
    <3>3. /\ IsFiniteSet(Holders(d, b))
          /\ Cardinality(Holders(d, b)) = IF b \in held THEN c.refCount[b] - 1 ELSE c.refCount[b]
      BY <2>1, <3>1, <3>2, FS_RemoveElement
    <3>4. ref[b] = Cardinality(Holders(d, b))
      BY <2>3, <3>3
    <3>5. d.refCount[b] = Cardinality(Holders(d, b))
      BY <2>5, <2>6, <2>9, <3>4
    <3>6. b \in Held(d) => Holders(d, b) # {}
      BY DEF Held, Holders
    <3>7. b \in freed => Holders(d, b) = {}
      BY <2>5, <3>3, <3>4, FS_EmptySet
    <3>8. b \in held /\ c.tag[b] = NoKey /\ b \notin freed => Holders(d, b) # {}
      <4>1. b \in held /\ c.tag[b] = NoKey /\ b \notin freed => ref[b] # 0
        BY <2>4 DEF freed
      <4> QED
        BY <3>4, <4>1, FS_EmptySet
    <3>9. Holders(d, b) # {} => b \in Held(d)
      BY DEF Held, Holders
    <3> QED
      BY <3>5, <3>6, <3>7, <3>8, <3>9
  <2>12. Held(d) \subseteq Held(c)
    BY <2>10 DEF Held
  <2>13. \A b \in Held(d) : b \in Blocks /\ b \in d.occupied /\ d.tag[b] = c.tag[b]
    BY <2>1, <2>6, <2>9, <2>11, <2>12 DEF HeldResident
  <2>14. CachedResident(d)
    <3> SUFFICES ASSUME NEW k \in d.cached
                 PROVE  /\ d.entryBlocks[k] \subseteq d.occupied
                        /\ \A b \in d.entryBlocks[k] : d.tag[b] = k
                        /\ Cardinality(d.entryBlocks[k]) = BlocksFor(d.entryTokens[k])
      BY DEF CachedResident
    <3>1. /\ c.entryBlocks[k] \subseteq c.occupied /\ c.entryBlocks[k] \subseteq Blocks
          /\ \A b \in c.entryBlocks[k] : c.tag[b] = k
          /\ Cardinality(c.entryBlocks[k]) = BlocksFor(c.entryTokens[k]) /\ k \in Keys
      BY <2>1, <2>9, CacheFields DEF CachedResident
    <3>2. c.entryBlocks[k] \cap freed = {}
      BY <2>5, <3>1, BlocksFinite
    <3> QED
      BY <2>6, <2>9, <3>1, <3>2
  <2>15. SharedByPrefixOnly(d)
    <3> SUFFICES ASSUME NEW t \in d.live, NEW u \in d.live, t # u,
                        NEW b \in d.blocksOf[t] \cap d.blocksOf[u]
                 PROVE  d.tag[b] # NoKey
      BY DEF SharedByPrefixOnly
    <3>1. c.tag[b] # NoKey
      BY <2>10 DEF Accounted, CacheWellFormed, SharedByPrefixOnly
    <3>2. b \in Held(d)
      BY DEF Held
    <3> QED
      BY <2>13, <3>1, <3>2
  <2>16. PrefixesWhole(d)
    BY <2>9, <2>10 DEF PrefixesWhole, Accounted, CacheWellFormed
  <2>17. SizedRight(d)
    BY <2>10 DEF SizedRight, Accounted
  <2>18. RefCountsExact(d) /\ HeldResident(d)
    BY <2>11, <2>13 DEF RefCountsExact, HeldResident
  <2>19. Accounted(d)
    BY <2>9, <2>14, <2>15, <2>16, <2>17, <2>18 DEF Accounted, CacheWellFormed
  <2>20. ASSUME Tracked(c)
         PROVE  Tracked(d)
    <3> SUFFICES ASSUME NEW b \in d.occupied
                 PROVE  IF d.tag[b] = NoKey THEN b \in Held(d)
                        ELSE d.tag[b] \in d.cached /\ b \in d.entryBlocks[d.tag[b]]
      BY DEF Tracked, TrackedIn
    <3>1. b \in c.occupied /\ b \notin freed /\ b \in Blocks /\ d.tag[b] = c.tag[b]
      BY <2>1, <2>6, <2>9, CacheFields
    <3>2. IF c.tag[b] = NoKey THEN b \in Held(c)
          ELSE c.tag[b] \in c.cached /\ b \in c.entryBlocks[c.tag[b]]
      BY <2>20, <3>1 DEF Tracked, TrackedIn
    <3>3. ASSUME b \in Held(c), b \notin held
          PROVE  b \in Held(d)
      <4>1. PICK t \in c.live : b \in c.blocksOf[t]
        BY <3>3 DEF Held
      <4>2. t # s
        BY <3>3, <4>1 DEF held
      <4>3. t \in d.live /\ d.blocksOf[t] = c.blocksOf[t]
        BY <2>9, <2>10, <4>2
      <4> QED
        BY <4>1, <4>3 DEF Held
    <3> QED
      BY <2>9, <2>11, <3>1, <3>2, <3>3
  <2>21. OlderEntries(c, d)
    BY <2>9 DEF OlderEntries
  <2> QED
    BY <2>2, <2>9, <2>19, <2>20, <2>21
<1> QED
  BY <1>1, <1>2

-----------------------------------------------------------------------------
(* The theorems.                                                           *)

\* The empty allocator is accounted for.
LEMMA EmptyAccounted == Accounted(EmptyCache)
<1>1. EmptyCache \in Cache
  BY DEF EmptyCache, Cache, NoKey
<1>2. EmptyCache.live = {} /\ EmptyCache.cached = {}
  BY DEF EmptyCache
<1>3. \A b \in Blocks : EmptyCache.refCount[b] = 0
  BY DEF EmptyCache
<1>4. \A b : Holders(EmptyCache, b) = {}
  BY <1>2 DEF Holders
<1>5. RefCountsExact(EmptyCache)
  BY <1>3, <1>4, FS_EmptySet DEF RefCountsExact
<1> QED
  BY <1>1, <1>2, <1>5 DEF Accounted, CacheWellFormed, HeldResident, Held, CachedResident,
     SharedByPrefixOnly, PrefixesWhole, SizedRight

Failures == {"required", "exists", "missing", "exhausted"}

\* What every call does to the allocator, whatever its answer.
LEMMA CallIs ==
  ASSUME Accounted(allocator), AllocatorNext
  PROVE  /\ Accounted(allocator') /\ reply' \in Replies /\ demand' \in Nat
         /\ reply' \in Failures => /\ SameSequences(allocator, allocator')
                                    /\ allocator'.refCount = allocator.refCount
         /\ reply' = "exhausted" => Cardinality(Reclaimable(allocator')) < demand'
<1>1. PICK s \in Sequences :
        \/ \E tokens \in PromptLengths, key \in Keys \cup {NoKey}, prefix \in PrefixLengths :
             Allocate(s, tokens, key, prefix)
        \/ \E n \in 0..MaxAppend : Append(s, n)
        \/ Release(s)
  BY DEF AllocatorNext
<1>2. ASSUME NEW tokens \in PromptLengths, NEW key \in Keys \cup {NoKey},
             NEW prefix \in PrefixLengths, Allocate(s, tokens, key, prefix)
      PROVE  /\ Accounted(allocator') /\ reply' \in Replies /\ demand' \in Nat
             /\ reply' \in Failures => /\ SameSequences(allocator, allocator')
                                        /\ allocator'.refCount = allocator.refCount
             /\ reply' = "exhausted" => Cardinality(Reclaimable(allocator')) < demand'
  <2> DEFINE out == AllocatePrompt(allocator, s, tokens, key, prefix)
             need == PromptNeed(allocator, tokens, key, prefix)
  <2>1. tokens \in Int /\ prefix \in Int
    BY AllocatorAssumption
  <2>2. /\ need \in Nat /\ Accounted(out.kv)
        /\ out.reply \in {"required", "exists", "hit", "ok", "exhausted"}
        /\ out.reply \in {"required", "exists"} => out.kv = allocator
        /\ out.reply = "exhausted" => Refusal(allocator, out.kv, need)
    BY <2>1, AllocatePromptIs
  <2>3. allocator' = out.kv /\ reply' = out.reply
    BY <1>2 DEF Allocate, Answer
  <2>4. demand' = need
    BY <1>2 DEF Allocate, PromptDemand, PromptNeed
  <2> HIDE DEF out, need
  <2> QED
    BY <2>2, <2>3, <2>4 DEF Replies, Failures, Refusal, SameSequences
<1>3. ASSUME NEW n \in 0..MaxAppend, Append(s, n)
      PROVE  /\ Accounted(allocator') /\ reply' \in Replies /\ demand' \in Nat
             /\ reply' \in Failures => /\ SameSequences(allocator, allocator')
                                        /\ allocator'.refCount = allocator.refCount
             /\ reply' = "exhausted" => Cardinality(Reclaimable(allocator')) < demand'
  <2> DEFINE out == AppendTokens(allocator, s, n)
  <2>1. n \in Nat
    BY AllocatorAssumption
  <2>2. /\ Additional(allocator, s, n) \in Nat /\ Accounted(out.kv)
        /\ out.reply \in {"missing", "ok", "exhausted"}
        /\ out.reply = "missing" => out.kv = allocator
        /\ out.reply = "exhausted" => Refusal(allocator, out.kv, Additional(allocator, s, n))
    BY <2>1, AppendTokensIs
  <2>3. allocator' = out.kv /\ reply' = out.reply /\ demand' = Additional(allocator, s, n)
    BY <1>3 DEF Append, Answer
  <2> HIDE DEF out
  <2> QED
    BY <2>2, <2>3 DEF Replies, Failures, Refusal, SameSequences
<1>4. ASSUME Release(s)
      PROVE  /\ Accounted(allocator') /\ reply' \in Replies /\ demand' \in Nat
             /\ reply' \notin Failures /\ reply' # "exhausted"
  <2>1. allocator' = ReleaseSequence(allocator, s) /\ reply' = "none" /\ demand' = 0
    BY <1>4 DEF Release
  <2>2. Accounted(allocator')
    BY <2>1, ReleaseSequenceIs
  <2> QED
    BY <2>1, <2>2 DEF Replies, Failures
<1> QED
  BY <1>1, <1>2, <1>3, <1>4

\* After every sequence of calls the reference count of a block is the number
\* of sequences that hold it, held and cached blocks are resident, sequences
\* share nothing but whole prefixes, and each holds what its tokens need.
THEOREM WellFormedHolds == AllocatorSpec => []WellFormed
<1>1. AllocatorInit => WellFormed
  BY EmptyAccounted DEF AllocatorInit, WellFormed, AllocatorTypeOK, Accounted, Replies
<1>2. WellFormed /\ [AllocatorNext]_allocatorVars => WellFormed'
  <2> SUFFICES ASSUME WellFormed, [AllocatorNext]_allocatorVars PROVE WellFormed'
    OBVIOUS
  <2>1. CASE AllocatorNext
    <3>1. Accounted(allocator)
      BY DEF WellFormed, AllocatorTypeOK, Accounted
    <3>2. Accounted(allocator') /\ reply' \in Replies /\ demand' \in Nat
      BY <2>1, <3>1, CallIs
    <3> QED
      BY <3>2 DEF WellFormed, AllocatorTypeOK, Accounted
  <2>2. CASE UNCHANGED allocatorVars
    BY <2>2 DEF allocatorVars, WellFormed, AllocatorTypeOK, CacheWellFormed, SizedRight,
       RefCountsExact, HeldResident, Held, Holders, CachedResident, SharedByPrefixOnly, PrefixesWhole
  <2> QED
    BY <2>1, <2>2
<1> QED
  BY <1>1, <1>2, PTL DEF AllocatorSpec

\* A call that fails leaves the sequences and every reference count as they
\* were, although it may have evicted prefixes, pinned one or allocated half a
\* prompt on the way.
THEOREM FailureLeavesSequencesHolds == AllocatorSpec => FailureLeavesSequences
<1>1. WellFormed /\ [AllocatorNext]_allocatorVars =>
        [reply' \in {"required", "exists", "missing", "exhausted"} =>
           /\ allocator'.live = allocator.live
           /\ allocator'.blocksOf = allocator.blocksOf
           /\ allocator'.generated = allocator.generated
           /\ allocator'.refCount = allocator.refCount]_allocatorVars
  <2> SUFFICES ASSUME WellFormed, AllocatorNext, reply' \in Failures
               PROVE  /\ allocator'.live = allocator.live
                      /\ allocator'.blocksOf = allocator.blocksOf
                      /\ allocator'.generated = allocator.generated
                      /\ allocator'.refCount = allocator.refCount
    BY DEF Failures
  <2>1. Accounted(allocator)
    BY DEF WellFormed, AllocatorTypeOK, Accounted
  <2> QED
    BY <2>1, CallIs DEF SameSequences
<1> QED
  BY <1>1, WellFormedHolds, PTL DEF AllocatorSpec, FailureLeavesSequences

\* A call is refused only when the blocks that no sequence holds, without the
\* orphans, are fewer than it needs: eviction under pressure overlooks nothing.
THEOREM RefusedOnlyWhenFullHolds == AllocatorSpec => []RefusedOnlyWhenFull
<1>1. AllocatorInit => RefusedOnlyWhenFull
  BY DEF AllocatorInit, RefusedOnlyWhenFull
<1>2. RefusedOnlyWhenFull /\ WellFormed /\ [AllocatorNext]_allocatorVars => RefusedOnlyWhenFull'
  <2> SUFFICES ASSUME RefusedOnlyWhenFull, WellFormed, [AllocatorNext]_allocatorVars
               PROVE  RefusedOnlyWhenFull'
    OBVIOUS
  <2>1. CASE AllocatorNext
    <3> SUFFICES ASSUME reply' = "exhausted"
                 PROVE  Cardinality(Blocks \ (Held(allocator') \cup Orphans')) < demand'
      BY DEF RefusedOnlyWhenFull
    <3>1. Accounted(allocator)
      BY DEF WellFormed, AllocatorTypeOK, Accounted
    <3>2. Accounted(allocator') /\ Cardinality(Reclaimable(allocator')) < demand' /\ demand' \in Nat
      BY <2>1, <3>1, CallIs
    <3>3. Blocks \ (Held(allocator') \cup Orphans') \subseteq Reclaimable(allocator')
      BY DEF Orphans, Reclaimable, FreeBlocks
    <3>4. Reclaimable(allocator') \in SUBSET Blocks
      <4>1. allocator' \in Cache
        BY <3>2 DEF Accounted
      <4>2. allocator'.cached \subseteq Keys /\ allocator'.entryBlocks \in [Keys -> SUBSET Blocks]
        BY <4>1, CacheFields
      <4> QED
        BY <4>2 DEF Reclaimable, FreeBlocks, EntryBlocks
    <3> DEFINE left == Blocks \ (Held(allocator') \cup Orphans')
    <3>5. /\ Cardinality(left) <= Cardinality(Reclaimable(allocator'))
          /\ Cardinality(Reclaimable(allocator')) \in Nat /\ Cardinality(left) \in Nat
      BY <3>3, <3>4, BlocksMonotone, BlocksFinite
    <3> QED
      BY <3>2, <3>5
  <2>2. CASE UNCHANGED allocatorVars
    BY <2>2 DEF allocatorVars, RefusedOnlyWhenFull, Orphans, Held, EntryBlocks
  <2> QED
    BY <2>1, <2>2
<1> QED
  BY <1>1, <1>2, WellFormedHolds, PTL DEF AllocatorSpec

=============================================================================
