----------------------------- MODULE MCBalancer -----------------------------
(* Values of the constants of Balancer for TLC.                            *)
EXTENDS Balancer

CONSTANTS b1, b2, u1, c1, c2, c3, t1, t2

\* Two ip backends, or an ip and a URL backend, each listed once.
TwoBackends == <<b1, b2>>
MixedBackends == <<b1, u1>>
=============================================================================
