------------------------- MODULE MCKvBlockAllocator --------------------------
(***************************************************************************)
(* KvBlockAllocator on small instances: the empty id s0 and real ids.      *)
(***************************************************************************)
EXTENDS KvBlockAllocator, TLC

CONSTANTS s0, s1, s2, s3

ThreeSequences == {s0, s1, s2, s3}
SequenceSymmetry == Permutations(Sequences \ {EmptyId})
AnyLength == {-1, 1, 3}
MixedPrefixes == {-1, 1}

=============================================================================
