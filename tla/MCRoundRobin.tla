---------------------------- MODULE MCRoundRobin ----------------------------
(* Values of the constants of RoundRobin for TLC.                          *)
EXTENDS RoundRobin

CONSTANTS b1, b2, b3, b4

FourBackends == <<b1, b2, b3, b4>>
=============================================================================
