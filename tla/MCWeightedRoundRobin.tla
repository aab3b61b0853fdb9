------------------------ MODULE MCWeightedRoundRobin ------------------------
(* Values of the constants of WeightedRoundRobin for TLC.                  *)
EXTENDS WeightedRoundRobin

CONSTANTS b1, b2, b3, b4

Endpoint(b, w) == [backend |-> b, weight |-> w]

\* Two equal weights, whose order the sort leaves open, and a weight of 0.
FourBackends == <<Endpoint(b1, 0), Endpoint(b2, 2), Endpoint(b3, 3), Endpoint(b4, 2)>>
=============================================================================
