------------------------- MODULE MCLeastResponseTime -------------------------
(* Values of the constants of LeastResponseTime for TLC.                   *)
EXTENDS LeastResponseTime

CONSTANTS b1, b2, b3

\* Three endpoints, and one of two listed twice; a clock set back, and two
\* response times.
SomeConfigs == {<<b1, b2, b3>>, <<b1, b2, b1>>}
SomeSamples == {-1, 1, 3}
=============================================================================
