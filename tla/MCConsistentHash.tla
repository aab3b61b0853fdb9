-------------------------- MODULE MCConsistentHash --------------------------
(* Values of the constants of ConsistentHash for TLC.                      *)
EXTENDS ConsistentHash, Functions

CONSTANTS b1, b2, b3

\* Three backends listed once, and one of two listed twice.
OnceAndTwice == {<<b1, b2, b3>>, <<b1, b2, b1>>}

\* The selector only compares hashes, so one hash function for each way to order
\* the keys, some of them equal, stands for all: those whose values have no gap.
Orders ==
  LET Last == Cardinality(Keys) - 1
  IN  {f \in [Keys -> 0 .. Last] : \E k \in 0 .. Last : Range(f) = 0 .. k}
=============================================================================
