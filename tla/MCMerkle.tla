------------------------------ MODULE MCMerkle ------------------------------
(***************************************************************************)
(* Trees of 1 to 9 leaves, which have levels of odd width at every height, *)
(* hashed into the numbers below a prime.                                  *)
(***************************************************************************)
EXTENDS Merkle

SmallHashes == 0 .. 498
SmallKeccak(a, b) == (101 * a + b + 1) % 499
SmallBelow(a, b) == a < b
SmallLists == {[i \in 1 .. n |-> 53 * i] : n \in 1 .. 9}
=============================================================================
