------------------------------ MODULE Selector ------------------------------
(***************************************************************************)
(* What ISelector (src/lb/tcp/selectors.hpp) promises the connector,       *)
(* whatever the algorithm behind it: SelectBackend answers with a backend  *)
(* in rotation, ExcludeBackend takes a backend out of rotation for good,   *)
(* and the call that takes out the last one, and no earlier one, throws    *)
(* "All backends are excluded!".  Nothing is promised of a selection when  *)
(* no backend is left.                                                     *)
(***************************************************************************)
CONSTANT Backends

VARIABLES alive,    \* backends in rotation
          answer    \* what the last call returned

vars == <<alive, answer>>

\* Answers of the calls.
None      == <<"none">>
Chosen(b) == <<"chosen", b>>
Excluded  == <<"excluded">>      \* ExcludeBackend returned
Exhausted == <<"exhausted">>     \* an exception
Undefined == <<"undefined">>     \* undefined behaviour: nothing follows

Init == alive \in SUBSET Backends /\ answer = None

SelectBackend ==
  /\ \E b \in alive : answer' = Chosen(b)
  /\ UNCHANGED alive

SelectFromNone ==
  /\ alive = {}
  /\ answer' \in {Exhausted, Undefined}
  /\ UNCHANGED alive

\* A client that a backend refused before it was excluded may be the second to
\* exclude it; with no backend left such a call may or may not throw.
ExcludeBackend(b) ==
  /\ alive' = alive \ {b}
  /\ answer' \in IF alive = {} THEN {Excluded, Exhausted}
                 ELSE IF alive' = {} THEN {Exhausted} ELSE {Excluded}

Next ==
  /\ answer # Undefined
  /\ SelectBackend \/ SelectFromNone \/ \E b \in Backends : ExcludeBackend(b)

Spec == Init /\ [][Next]_vars
=============================================================================
