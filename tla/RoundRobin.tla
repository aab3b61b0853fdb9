----------------------------- MODULE RoundRobin -----------------------------
(***************************************************************************)
(* RoundRobinSelector (src/lb/tcp/selectors.cpp).  Both member functions   *)
(* hold the mutex throughout, so each is one atomic action, called by any  *)
(* thread at any time.                                                     *)
(***************************************************************************)
EXTENDS Vector

CONSTANTS Backends,   \* names of backends
          Config      \* the "endpoints" list of the configuration, in order

ASSUME ConfigAssumption == Config \in Seq(Backends)

VARIABLES backends_,  \* the vector of backends in rotation
          counter,    \* index from 0 of the last selection
          answer,     \* what the last call returned
          waited      \* history: selections since a backend was last selected

vars == <<backends_, counter, answer, waited>>

Names == {Config[i] : i \in DOMAIN Config}
InRotation == {backends_[i] : i \in DOMAIN backends_}

\* No endpoint is listed twice.
NoDuplicates == \A i, j \in DOMAIN Config : Config[i] = Config[j] => i = j

S == INSTANCE Selector WITH alive <- InRotation

Init ==
  /\ backends_ = Config
  /\ counter = 0
  /\ answer = S!None
  /\ waited = [b \in Names |-> 0]

-----------------------------------------------------------------------------
\* history: one more selection for every backend in rotation but the selected.
CountWaits ==
  waited' = [b \in Names |->
               IF S!Chosen(b) = answer' \/ b \notin InRotation
               THEN 0 ELSE waited[b] + 1]

SelectBackend ==
  /\ backends_ # <<>>
  /\ counter' = (counter + 1) % Len(backends_)
  /\ answer' = S!Chosen(backends_[counter' + 1])
  /\ CountWaits
  /\ UNCHANGED backends_

\* counter % backends_.size() with no backend left is a division by zero.
SelectUndefined ==
  /\ backends_ = <<>>
  /\ answer' = S!Undefined
  /\ UNCHANGED <<backends_, counter, waited>>

\* Faults: the counter restarts, or steps back over the erased entry; empty()
\* is asked before the entries are erased.
ExcludeAndRestart(b) ==
  /\ backends_' = Removed(backends_, b)
  /\ answer' = IF backends_' = <<>> THEN S!Exhausted ELSE S!Excluded
  /\ counter' = 0
  /\ waited' = [waited EXCEPT ![b] = 0]

ExcludeAndStepBack(b) ==
  /\ backends_' = Removed(backends_, b)
  /\ answer' = IF backends_' = <<>> THEN S!Exhausted ELSE S!Excluded
  /\ counter' = counter - 1
  /\ waited' = [waited EXCEPT ![b] = 0]

ExcludeChecksFirst(b) ==
  /\ backends_' = Removed(backends_, b)
  /\ answer' = IF backends_ = <<>> THEN S!Exhausted ELSE S!Excluded
  /\ waited' = [waited EXCEPT ![b] = 0]
  /\ UNCHANGED counter

\* Every entry equal to b is erased; the counter stays.
ExcludeBackend(b) ==
  /\ backends_' = Removed(backends_, b)
  /\ answer' = IF backends_' = <<>> THEN S!Exhausted ELSE S!Excluded
  /\ waited' = [waited EXCEPT ![b] = 0]
  /\ UNCHANGED counter

\* The connector only excludes a backend it was once given; an exclusion may
\* come long after that, and more than once.
Next ==
  /\ answer # S!Undefined
  /\ \/ SelectBackend
     \/ SelectUndefined
     \/ \E b \in Names : ExcludeBackend(b)

Spec == Init /\ [][Next]_vars

-----------------------------------------------------------------------------
(* Properties *)

TypeOK ==
  /\ backends_ \in Seq(Names)
  /\ counter \in Nat
  /\ counter < Len(Config) \/ counter = 0
  /\ waited \in [Names -> Nat]

\* The selections other backends may get between two of a backend in rotation:
\* one round, and for each exclusion one more round of the backends then left.
\* Erasing an entry before the counter makes the next in turn miss its turn,
\* and n-1, n-2, ..., m-1 is what rounds of n down to m backends add up to.
MostWaits ==
  LET n == Len(Config)
      m == Len(backends_)
  IN  ((n - 1) * n - (m - 1) * (m - 2)) \div 2

\* SelectBackend starves no backend, in whatever order backends are excluded:
\* the counter that ExcludeBackend leaves alone costs at most a round each time.
NoStarvation ==
  NoDuplicates => \A b \in InRotation : waited[b] <= MostWaits

\* The selector is a Selector, duplicates in the configuration included.
ImplementsSelector == S!Spec
=============================================================================
