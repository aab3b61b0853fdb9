------------------------------ MODULE MCIpHash ------------------------------
(* Values of the constants of IpHash for TLC.                              *)
EXTENDS IpHash

CONSTANTS b1, b2, b3, b4, a1, a2

FourBackends == <<b1, b2, b3, b4>>
=============================================================================
