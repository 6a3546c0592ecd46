------------------------------ MODULE MCRefunds ------------------------------
(* A payment of two units: refunded in full, in halves, or half.           *)
EXTENDS Refunds, TLC

CONSTANTS r1, r2, r3, w1, w2

Symmetry == Permutations({r1, r2, r3}) \union Permutations({w1, w2})
TwoRows == Permutations({r1, r2}) \union Permutations({w1, w2})
=============================================================================
