------------------------------- MODULE Vector -------------------------------
(***************************************************************************)
(* v.erase(std::remove(v.begin(), v.end(), x), v.end()), by which          *)
(* RoundRobinSelector and IpHashSelector (src/lb/tcp/selectors.cpp) take a *)
(* backend out of their vectors.                                           *)
(***************************************************************************)
EXTENDS Naturals, Sequences, FiniteSets

\* The k-th smallest number of S.
Kth(S, k) == CHOOSE i \in S : Cardinality({j \in S : j <= i}) = k

\* The entries of v other than x, in their order.
Removed(v, x) ==
  LET kept == {i \in DOMAIN v : v[i] # x}
  IN  [k \in 1 .. Cardinality(kept) |-> v[Kth(kept, k)]]
=============================================================================
