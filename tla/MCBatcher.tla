------------------------------ MODULE MCBatcher ------------------------------
(***************************************************************************)
(* Batcher on small instances.  In the run with two requests these cost    *)
(* two tokens and one, and the budget admits both; in the run with three   *)
(* requests all cost one, are symmetric, and the budget admits two.        *)
(***************************************************************************)
EXTENDS Batcher, TLC

CONSTANTS r1, r2, r3

TwoRequests == {r1, r2}
ThreeRequests == {r1, r2, r3}
UnequalTokens == [r \in Requests |-> IF r = r1 THEN 2 ELSE 1]
EqualTokens == [r \in Requests |-> 1]
RequestSymmetry == Permutations(Requests)

=============================================================================
