------------------------- MODULE WeightedRoundRobin -------------------------
(***************************************************************************)
(* WeightedRoundRobinSelector (src/lb/tcp/selectors.cpp): in each round a  *)
(* backend has one turn of as many selections as its weight.  Both member  *)
(* functions hold the mutex throughout, so each is one atomic action.      *)
(***************************************************************************)
EXTENDS Integers, Sequences, Functions

CONSTANTS Backends,   \* names of backends
          Config      \* the "endpoints" list: records [backend, weight]

ASSUME ConfigAssumption == Config \in Seq([backend : Backends, weight : Nat])

VARIABLES backends_,  \* the vector of WeightWrapper
          counter_,   \* index from 0 of the backend whose turn it is
          answer,     \* what the last call returned
          turn,       \* history: selections made in the present turn
          got,        \* history: selections since the rotation last restarted,
                      \* less those of the rounds completed since
          late        \* history: a backend was excluded a second time

history == <<turn, got, late>>
vars == <<backends_, counter_, answer, history>>

Names == {Config[i].backend : i \in DOMAIN Config}
InRotation == {backends_[i].backend : i \in DOMAIN backends_}

\* No endpoint is listed twice.
NoDuplicates ==
  \A i, j \in DOMAIN Config : Config[i].backend = Config[j].backend => i = j

S == INSTANCE Selector WITH alive <- InRotation

\* Configure sorts by falling weight; std::sort leaves the order of equal
\* weights open.
Sorted(p) ==
  \A i, j \in DOMAIN Config : i < j => Config[p[i]].weight >= Config[p[j]].weight

Init ==
  /\ \E p \in Bijection(DOMAIN Config, DOMAIN Config) :
       /\ Sorted(p)
       /\ backends_ = [i \in DOMAIN Config |->
                         [backend |-> Config[p[i]].backend,
                          weight  |-> Config[p[i]].weight,
                          current |-> 0]]
  /\ counter_ = 0
  /\ answer = S!None
  /\ turn = 0 /\ got = [b \in Names |-> 0] /\ late = FALSE

-----------------------------------------------------------------------------
\* A backend of weight 0 has a turn of one selection: AdvanceCounter moves on
\* after the selection, not before it.
Share(e) == IF e.weight = 0 THEN 1 ELSE e.weight

\* history: a round is complete when every backend has had its share.
LessOneRound(g) ==
  IF \A e \in {backends_[i] : i \in DOMAIN backends_} : g[e.backend] >= Share(e)
  THEN [b \in Names |->
          IF \E i \in DOMAIN backends_ : backends_[i].backend = b
          THEN g[b] - Share(CHOOSE e \in {backends_[i] : i \in DOMAIN backends_} :
                              e.backend = b)
          ELSE g[b]]
  ELSE g

\* The entry whose turn it is: index from 1.
At == counter_ + 1

AdvanceCounter ==
  LET e == backends_[At]
  IN  IF e.current + 1 < e.weight
      THEN /\ backends_' = [backends_ EXCEPT ![At].current = @ + 1]
           /\ turn' = turn + 1
           /\ UNCHANGED counter_
      ELSE /\ backends_' = [backends_ EXCEPT ![At].current = 0]
           /\ turn' = 0
           /\ counter_' = (counter_ + 1) % Len(backends_)

SelectBackend ==
  /\ backends_ # <<>>
  /\ answer' = S!Chosen(backends_[At].backend)
  /\ AdvanceCounter
  /\ got' = LessOneRound([got EXCEPT ![backends_[At].backend] = @ + 1])
  /\ UNCHANGED late

\* backends_[0] of an empty vector.
SelectUndefined ==
  /\ backends_ = <<>>
  /\ answer' = S!Undefined
  /\ UNCHANGED <<backends_, counter_, history>>

Without(s, i) == SubSeq(s, 1, i - 1) \o SubSeq(s, i + 1, Len(s))

\* The first entry with name b goes, and the turn in progress is given up
\* unless it is the turn of that entry.
Erased(b) ==
  IF b \notin InRotation
  THEN backends_
  ELSE LET i == CHOOSE k \in DOMAIN backends_ :
                  /\ backends_[k].backend = b
                  /\ \A m \in 1 .. k - 1 : backends_[m].backend # b
       IN  Without([backends_ EXCEPT ![At].current = 0], i)

\* history: only the turn of the first backend goes on when nothing is erased.
Restart(b) ==
  /\ turn' = IF b \notin InRotation /\ counter_ = 0 THEN turn ELSE 0
  /\ got' = [x \in Names |-> 0]
  /\ late' = (late \/ b \notin InRotation)

\* Faults: the turn in progress is kept; the counter is kept; empty() is asked
\* before the entry is erased.
ExcludeKeepsTurn(b) ==
  /\ backends_' = SelectSeq(backends_, LAMBDA e : e.backend # b)
  /\ counter_' = 0
  /\ answer' = IF backends_' = <<>> THEN S!Exhausted ELSE S!Excluded
  /\ Restart(b)

ExcludeKeepsCounter(b) ==
  /\ backends_' = Erased(b)
  /\ answer' = IF backends_' = <<>> THEN S!Exhausted ELSE S!Excluded
  /\ Restart(b)
  /\ UNCHANGED counter_

ExcludeChecksFirst(b) ==
  /\ backends_' = Erased(b)
  /\ counter_' = 0
  /\ answer' = IF backends_ = <<>> THEN S!Exhausted ELSE S!Excluded
  /\ Restart(b)

\* The counter goes back to 0 even when there is nothing to erase.
ExcludeBackend(b) ==
  /\ backends_' = Erased(b)
  /\ counter_' = 0
  /\ answer' = IF backends_' = <<>> THEN S!Exhausted ELSE S!Excluded
  /\ Restart(b)

\* The connector only excludes a backend it was once given; two clients that
\* it refuses exclude it one after the other.
Next ==
  /\ answer # S!Undefined
  /\ \/ SelectBackend
     \/ SelectUndefined
     \/ \E b \in Names : ExcludeBackend(b)

Spec == Init /\ [][Next]_vars

-----------------------------------------------------------------------------
(* Properties *)

\* The index stays in the vector and an entry within its turn, whatever
\* ExcludeBackend erases.
TypeOK ==
  /\ InRotation \subseteq Names
  /\ counter_ \in Nat /\ (counter_ < Len(backends_) \/ counter_ = 0)
  /\ \A i \in DOMAIN backends_ : backends_[i].current \in 0 .. Share(backends_[i]) - 1
  /\ turn \in Nat /\ got \in [Names -> Nat] /\ late \in BOOLEAN

\* Backends are selected in proportion to their weights: since the rotation
\* last restarted, no backend is more than one whole turn ahead of another.
\* Left out is what follows a second exclusion of the same backend.
ProportionalShares ==
  NoDuplicates /\ ~late =>
    \A i, j \in DOMAIN backends_ :
      LET a == backends_[i]
          b == backends_[j]
      IN  got[a.backend] * Share(b) - got[b.backend] * Share(a) <= Share(a) * Share(b)

\* Every turn that SelectBackend ends was as long as the weight of its backend.
FullTurns ==
  [][\A b \in Names : answer' = S!Chosen(b) /\ turn' = 0
        => turn + 1 = Share(backends_[At])]_vars

\* The selector is a Selector, as long as no endpoint is listed twice.
ImplementsSelector == S!Init /\ [][NoDuplicates => S!Next]_(S!vars)
=============================================================================
