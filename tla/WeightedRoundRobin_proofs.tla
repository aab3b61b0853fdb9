---------------------- MODULE WeightedRoundRobin_proofs ----------------------
(***************************************************************************)
(* Theorems of WeightedRoundRobin for every list of endpoints and weights. *)
(***************************************************************************)
EXTENDS WeightedRoundRobin, SequenceTheorems, WellFoundedInduction, TLAPS

-----------------------------------------------------------------------------
(* Least numbers. *)

LEMMA LeastElement ==
  ASSUME NEW N \in SUBSET Nat, N # {}
  PROVE  \E x \in N : \A y \in N : x <= y
<1> DEFINE R == {ss \in Nat \X Nat : ss[1] < ss[2]}
<1>1. IsWellFoundedOn(R, Nat)
  BY NatLessThanWellFounded DEF OpToRel
<1>2. \E x \in N : \A y \in N : ~(<<y, x>> \in R)
  <2> HIDE DEF R
  <2> QED BY <1>1, WFMin
<1>3. PICK x \in N : \A y \in N : ~(<<y, x>> \in R)
  BY <1>2
<1>4. ASSUME NEW y \in N PROVE x <= y
  <2>1. x \in Nat /\ y \in Nat /\ ~(<<y, x>> \in R)
    BY <1>3
  <2>2. ~(y < x)
    BY <2>1
  <2> QED BY <2>1, <2>2
<1> QED BY <1>4

-----------------------------------------------------------------------------
(* The inductive invariant. *)

Entries == [backend : Names, weight : Nat, current : Nat]

Distinct(v) == \A i, j \in DOMAIN v : v[i].backend = v[j].backend => i = j

\* Entries have weights; names stay apart if they were.
EntriesOK == backends_ \in Seq(Entries) /\ (NoDuplicates => Distinct(backends_))

\* Only the entry whose turn it is has a turn in progress, and that is as long as
\* the selections made in it.
OneTurn ==
  ~late =>
    \A i \in DOMAIN backends_ : backends_[i].current = IF i = At THEN turn ELSE 0

\* Of the present round those before At have had their share, those after it
\* nothing.
InRound ==
  NoDuplicates /\ ~late =>
    \A i \in DOMAIN backends_ :
      got[backends_[i].backend] = IF i < At THEN Share(backends_[i])
                                  ELSE IF i = At THEN turn ELSE 0

Inv == TypeOK /\ EntriesOK /\ OneTurn /\ InRound

LEMMA Configuration ==
  /\ DOMAIN Config = 1 .. Len(Config) /\ Len(Config) \in Nat /\ Names \subseteq Backends
  /\ \A i \in DOMAIN Config :
       Config[i].backend \in Names /\ Config[i].backend \in Backends /\ Config[i].weight \in Nat
<1> DEFINE R == [backend : Backends, weight : Nat]
<1>1. Config \in Seq(R)
  BY ConfigAssumption
<1>2. DOMAIN Config = 1 .. Len(Config) /\ Len(Config) \in Nat
  BY <1>1
<1>3. \A i \in DOMAIN Config : Config[i] \in R
  <2> HIDE DEF R
  <2> QED BY <1>1
<1>4. \A i \in DOMAIN Config : Config[i].backend \in Backends /\ Config[i].weight \in Nat
  BY <1>3
<1>5. \A i \in DOMAIN Config : Config[i].backend \in Names
  BY DEF Names
<1>6. Names \subseteq Backends
  BY <1>4 DEF Names
<1> QED BY <1>2, <1>4, <1>5, <1>6

LEMMA EntryProperties ==
  ASSUME EntriesOK, NEW i \in DOMAIN backends_
  PROVE  /\ Len(backends_) \in Nat \ {0} /\ i \in 1 .. Len(backends_)
         /\ backends_[i] \in Entries /\ backends_[i].backend \in Names
         /\ backends_[i].weight \in Nat /\ backends_[i].current \in Nat
         /\ Share(backends_[i]) \in Nat \ {0}
<1>1. /\ Len(backends_) \in Nat \ {0} /\ i \in 1 .. Len(backends_)
      /\ backends_[i] \in Entries
  BY DEF EntriesOK
<1>2. /\ backends_[i].backend \in Names /\ backends_[i].weight \in Nat
      /\ backends_[i].current \in Nat
  BY <1>1 DEF Entries
<1>3. Share(backends_[i]) \in Nat \ {0}
  BY <1>2 DEF Share
<1> QED BY <1>1, <1>2, <1>3

LEMMA InvInit == Init => Inv
<1> SUFFICES ASSUME Init PROVE Inv
  OBVIOUS
<1> DEFINE D == DOMAIN Config
<1>1. PICK p \in Bijection(D, D) :
        backends_ = [i \in D |-> [backend |-> Config[p[i]].backend,
                                  weight  |-> Config[p[i]].weight,
                                  current |-> 0]]
  BY DEF Init
<1>2. p \in [D -> D]
  BY <1>1 DEF Bijection, Injection
<1>3. \A i, j \in D : p[i] = p[j] => i = j
  BY <1>1, <1>2 DEF Bijection, Injection, IsInjective
<1>4. D = 1 .. Len(Config) /\ Len(Config) \in Nat
  BY Configuration
<1>5. DOMAIN backends_ = D /\ Len(backends_) = Len(Config) /\ backends_ \in Seq(Entries)
  <2>1. \A i \in D : backends_[i] \in Entries
    BY <1>1, <1>2, Configuration DEF Entries
  <2> HIDE DEF D
  <2>2. backends_ \in [1 .. Len(Config) -> Entries]
    BY <1>1, <1>4, <2>1
  <2> QED BY <1>4, <2>2
<1>6. \A i \in D : backends_[i].backend = Config[p[i]].backend /\ backends_[i].current = 0
  BY <1>1
<1>7. EntriesOK
  BY <1>2, <1>3, <1>5, <1>6 DEF EntriesOK, Distinct, NoDuplicates
<1>8. TypeOK
  <2>1. InRotation \subseteq Names
    BY <1>2, <1>5, <1>6, Configuration, SMTT(30) DEF InRotation
  <2>2. \A i \in DOMAIN backends_ : backends_[i].current \in 0 .. Share(backends_[i]) - 1
    BY <1>5, <1>6, <1>7, EntryProperties
  <2> QED BY <2>1, <2>2 DEF Init, TypeOK
<1>9. OneTurn
  BY <1>5, <1>6 DEF OneTurn, Init
<1>10. InRound
  <2>1. \A i \in DOMAIN backends_ : ~(i < At) /\ backends_[i].backend \in Names
    BY <1>4, <1>5, <1>7, EntryProperties DEF At, Init
  <2> QED BY <2>1 DEF InRound, Init
<1> QED BY <1>7, <1>8, <1>9, <1>10 DEF Inv

-----------------------------------------------------------------------------
(* SelectBackend. *)

\* A round taken off leaves no less than nothing; it is taken off only when every
\* backend has had its share.
LEMMA RoundProperties ==
  ASSUME EntriesOK, NEW g \in [Names -> Nat]
  PROVE  /\ LessOneRound(g) \in [Names -> Nat]
         /\ (\E i \in DOMAIN backends_ : g[backends_[i].backend] < Share(backends_[i]))
              => LessOneRound(g) = g
         /\ Distinct(backends_) /\ (\A i \in DOMAIN backends_ :
                                      g[backends_[i].backend] = Share(backends_[i]))
              => \A i \in DOMAIN backends_ : LessOneRound(g)[backends_[i].backend] = 0
<1> DEFINE Es == {backends_[i] : i \in DOMAIN backends_}
           Of(b) == CHOOSE e \in Es : e.backend = b
           Less == [b \in Names |->
                      IF \E i \in DOMAIN backends_ : backends_[i].backend = b
                      THEN g[b] - Share(Of(b)) ELSE g[b]]
           Full == \A e \in Es : g[e.backend] >= Share(e)
<1>1. LessOneRound(g) = IF Full THEN Less ELSE g
  BY DEF LessOneRound
<1>2. \A i \in DOMAIN backends_ :
        /\ backends_[i].backend \in Names /\ g[backends_[i].backend] \in Nat
        /\ Share(backends_[i]) \in Nat
  BY EntryProperties
<1>3. ASSUME NEW i \in DOMAIN backends_
      PROVE  \E j \in DOMAIN backends_ :
               Of(backends_[i].backend) = backends_[j] /\ backends_[j].backend = backends_[i].backend
  OBVIOUS
<1>4. ASSUME Full PROVE Less \in [Names -> Nat]
  <2> SUFFICES ASSUME NEW b \in Names PROVE Less[b] \in Nat
    OBVIOUS
  <2>1. CASE \E i \in DOMAIN backends_ : backends_[i].backend = b
    <3>1. PICK j \in DOMAIN backends_ : Of(b) = backends_[j] /\ backends_[j].backend = b
      BY <1>3, <2>1
    <3>2. g[b] >= Share(Of(b)) /\ g[b] \in Nat /\ Share(Of(b)) \in Nat
      BY <1>2, <1>4, <3>1
    <3> QED BY <2>1, <3>2
  <2>2. CASE ~ \E i \in DOMAIN backends_ : backends_[i].backend = b
    BY <2>2
  <2> QED BY <2>1, <2>2
<1>5. ASSUME NEW i \in DOMAIN backends_, g[backends_[i].backend] < Share(backends_[i])
      PROVE  ~Full
  BY <1>2, <1>5
<1>6. ASSUME Distinct(backends_),
             \A i \in DOMAIN backends_ : g[backends_[i].backend] = Share(backends_[i]),
             NEW i \in DOMAIN backends_
      PROVE  Full /\ Less[backends_[i].backend] = 0
  <2>1. Full
    BY <1>2, <1>6
  <2>2. Of(backends_[i].backend) = backends_[i]
    BY <1>3, <1>6 DEF Distinct
  <2> QED BY <1>2, <1>6, <2>1, <2>2
<1> HIDE DEF Full, Less
<1> QED BY <1>1, <1>4, <1>5, <1>6

\* The counter moves on when a turn is over, and the round with the last turn.
LEMMA SelectKeeps == ASSUME Inv, SelectBackend PROVE Inv'
<1> DEFINE m == Len(backends_)
           e == backends_[At]
           goesOn == e.current + 1 < e.weight
           c == IF goesOn THEN e.current + 1 ELSE 0
           g == [got EXCEPT ![e.backend] = @ + 1]
<1>1. /\ m \in Nat \ {0} /\ At \in 1 .. m /\ At \in DOMAIN backends_ /\ counter_ \in Nat
      /\ DOMAIN backends_ = 1 .. m /\ counter_ = At - 1 /\ backends_ \in Seq(Entries)
  <2>1. backends_ \in Seq(Entries) /\ backends_ # <<>>
    BY DEF Inv, EntriesOK, SelectBackend
  <2>2. m \in Nat \ {0} /\ DOMAIN backends_ = 1 .. m
    BY <2>1
  <2> QED BY <2>1, <2>2 DEF Inv, TypeOK, At
<1>2. /\ e.backend \in Names /\ e.weight \in Nat /\ e.current \in 0 .. Share(e) - 1
      /\ Share(e) \in Nat \ {0} /\ e \in Entries
  BY <1>1, EntryProperties DEF Inv, TypeOK
<1>3. c \in 0 .. Share(e) - 1 /\ (~goesOn => e.current + 1 = Share(e))
  BY <1>2 DEF Share
<1>4. /\ backends_' = [backends_ EXCEPT ![At].current = c]
      /\ turn' = (IF goesOn THEN turn + 1 ELSE 0)
      /\ counter_' = (IF goesOn THEN counter_ ELSE At % m)
      /\ got' = LessOneRound(g) /\ late' = late
  BY <1>2 DEF SelectBackend, AdvanceCounter, At
<1>5. backends_' = [backends_ EXCEPT ![At] = [e EXCEPT !.current = c]]
  BY <1>4
<1>6. g \in [Names -> Nat] /\ got \in [Names -> Nat] /\ turn \in Nat /\ late \in BOOLEAN
  BY <1>2 DEF Inv, TypeOK
<1> HIDE DEF e, g, c, goesOn, m
<1>7. [e EXCEPT !.current = c] \in Entries
  BY <1>2, <1>3 DEF Entries
<1>8. backends_' \in Seq(Entries) /\ Len(backends_') = m /\ DOMAIN backends_' = 1 .. m
  BY <1>1, <1>5, <1>7 DEF m
<1>9. \A i \in 1 .. m : /\ i # At => backends_'[i] = backends_[i]
                        /\ backends_'[i].backend = backends_[i].backend
                        /\ Share(backends_'[i]) = Share(backends_[i])
                        /\ backends_'[i].current = IF i = At THEN c ELSE backends_[i].current
  <2>1. backends_'[At] = [e EXCEPT !.current = c]
    BY <1>1, <1>5
  <2>2. /\ backends_'[At].backend = e.backend /\ backends_'[At].weight = e.weight
        /\ backends_'[At].current = c
    BY <1>2, <2>1 DEF Entries
  <2>3. \A i \in 1 .. m : i # At => backends_'[i] = backends_[i]
    BY <1>1, <1>5
  <2> QED BY <1>1, <2>2, <2>3 DEF Share, e
<1>10. /\ counter_' \in 0 .. m - 1
       /\ ~goesOn => counter_' = IF At = m THEN 0 ELSE At
  <2>1. \A x \in Nat, y \in Nat \ {0} : x % y \in 0 .. y - 1 /\ (x < y => x % y = x) /\ y % y = 0
    OBVIOUS
  <2>2. At \in Nat /\ m \in Nat \ {0} /\ counter_ \in 0 .. m - 1
    BY <1>1
  <2>3. At % m \in 0 .. m - 1 /\ (At < m => At % m = At) /\ m % m = 0
    BY <2>1, <2>2
  <2>4. At # m => At < m
    BY <1>1
  <2> QED BY <1>4, <2>2, <2>3, <2>4
<1>11. EntriesOK'
  <2>1. ASSUME Distinct(backends_) PROVE Distinct(backends_')
    BY <1>1, <1>8, <1>9, <2>1 DEF Distinct
  <2> QED BY <1>8, <2>1 DEF Inv, EntriesOK, NoDuplicates
<1>12. got' \in [Names -> Nat]
  BY <1>4, <1>6, RoundProperties DEF Inv
<1>13. TypeOK'
  <2>1. InRotation' \subseteq Names
    BY <1>1, <1>8, <1>9 DEF Inv, TypeOK, InRotation
  <2>2. \A i \in DOMAIN backends_' : backends_'[i].current \in 0 .. Share(backends_'[i]) - 1
    BY <1>1, <1>3, <1>8, <1>9 DEF Inv, TypeOK, e
  <2>3. counter_' \in Nat /\ counter_' < Len(backends_')
    BY <1>1, <1>8, <1>10
  <2>4. turn' \in Nat /\ late' \in BOOLEAN
    BY <1>4, <1>6
  <2> QED BY <1>12, <2>1, <2>2, <2>3, <2>4 DEF TypeOK
<1>14. ASSUME ~late
       PROVE  e.current = turn /\ \A i \in 1 .. m : i # At => backends_[i].current = 0
  BY <1>1, <1>14 DEF Inv, OneTurn, e
<1>15. OneTurn'
  <2> SUFFICES ASSUME ~late, NEW i \in 1 .. m
               PROVE  backends_'[i].current = IF i = At' THEN turn' ELSE 0
    BY <1>4, <1>8 DEF OneTurn
  <2>1. CASE goesOn
    <3>1. At' = At /\ c = turn' /\ c = turn + 1
      BY <1>4, <1>14, <2>1 DEF At, c
    <3> QED BY <1>9, <1>14, <3>1
  <2>2. CASE ~goesOn
    <3>1. c = 0 /\ turn' = 0
      BY <1>4, <2>2 DEF c
    <3> QED BY <1>9, <1>14, <3>1
  <2> QED BY <2>1, <2>2
<1>16. InRound'
  <2> SUFFICES ASSUME NoDuplicates, ~late, NEW i \in 1 .. m
               PROVE  got'[backends_[i].backend] = IF i < At' THEN Share(backends_[i])
                                                   ELSE IF i = At' THEN turn' ELSE 0
    BY <1>4, <1>8, <1>9 DEF InRound, NoDuplicates
  <2>1. \A j \in 1 .. m :
          /\ backends_[j].backend \in Names /\ Share(backends_[j]) \in Nat \ {0}
          /\ g[backends_[j].backend] = IF j < At THEN Share(backends_[j])
                                       ELSE IF j = At THEN turn + 1 ELSE 0
    <3> SUFFICES ASSUME NEW j \in 1 .. m
                 PROVE  /\ backends_[j].backend \in Names /\ Share(backends_[j]) \in Nat \ {0}
                        /\ g[backends_[j].backend] = IF j < At THEN Share(backends_[j])
                                                     ELSE IF j = At THEN turn + 1 ELSE 0
      OBVIOUS
    <3>1. backends_[j].backend \in Names /\ Share(backends_[j]) \in Nat \ {0}
      BY <1>1, EntryProperties DEF Inv
    <3>2. backends_[j].backend = e.backend <=> j = At
      BY <1>1 DEF Inv, EntriesOK, Distinct, e
    <3>3. got[backends_[j].backend] = IF j < At THEN Share(backends_[j])
                                      ELSE IF j = At THEN turn ELSE 0
      BY <1>1 DEF Inv, InRound
    <3>4. g[backends_[j].backend] = IF j = At THEN got[backends_[j].backend] + 1
                                    ELSE got[backends_[j].backend]
      BY <1>6, <3>1, <3>2 DEF g
    <3> QED BY <1>1, <3>1, <3>3, <3>4
  <2>2. Distinct(backends_)
    BY DEF Inv, EntriesOK
  <2>3. CASE goesOn
    <3>1. At' = At /\ turn' = turn + 1 /\ turn + 1 < Share(e)
      BY <1>2, <1>4, <1>14, <2>3 DEF At, goesOn, Share
    <3>2. g[backends_[At].backend] < Share(backends_[At])
      BY <1>1, <2>1, <3>1 DEF e
    <3>3. got' = g
      BY <1>1, <1>4, <1>6, <3>2, RoundProperties DEF Inv
    <3> QED BY <1>1, <2>1, <3>1, <3>3
  <2>4. CASE ~goesOn /\ At # m
    <3>1. counter_' = At /\ At' = At + 1 /\ turn' = 0 /\ At < m
      BY <1>1, <1>4, <1>10, <2>4 DEF At
    <3>2. g[backends_[m].backend] < Share(backends_[m]) /\ m \in DOMAIN backends_
      BY <1>1, <2>1, <3>1
    <3>3. got' = g
      BY <1>4, <1>6, <3>2, RoundProperties DEF Inv
    <3>4. turn + 1 = Share(backends_[At])
      BY <1>3, <1>14, <2>4 DEF e
    <3> QED BY <1>1, <2>1, <3>1, <3>3, <3>4
  <2>5. CASE ~goesOn /\ At = m
    <3>1. At' = 1 /\ turn' = 0
      BY <1>1, <1>4, <1>10, <2>5 DEF At
    <3>2. turn + 1 = Share(backends_[At])
      BY <1>3, <1>14, <2>5 DEF e
    <3>3. \A j \in DOMAIN backends_ : g[backends_[j].backend] = Share(backends_[j])
      BY <1>1, <2>1, <2>5, <3>2
    <3>4. got'[backends_[i].backend] = 0
      BY <1>1, <1>4, <1>6, <2>2, <3>3, RoundProperties DEF Inv
    <3> QED BY <3>1, <3>4
  <2> QED BY <2>3, <2>4, <2>5
<1> QED BY <1>11, <1>13, <1>15, <1>16 DEF Inv

-----------------------------------------------------------------------------
(* ExcludeBackend. *)

LEMMA WithoutProperties ==
  ASSUME NEW X, NEW v \in Seq(X), NEW i \in 1 .. Len(v)
  PROVE  /\ Without(v, i) \in Seq(X) /\ Len(Without(v, i)) = Len(v) - 1
         /\ \A k \in 1 .. Len(v) - 1 : Without(v, i)[k] = IF k < i THEN v[k] ELSE v[k + 1]
<1> DEFINE l == Len(v)
           s1 == SubSeq(v, 1, i - 1)
           s2 == SubSeq(v, i + 1, l)
<1>1. l \in Nat /\ i \in Int /\ i >= 1 /\ i <= l /\ \A k \in 1 .. l : v[k] \in X
  OBVIOUS
<1>2. s1 \in Seq(X) /\ Len(s1) = i - 1 /\ \A k \in 1 .. i - 1 : s1[k] = v[k]
  <2>1. 1 \in Int /\ i - 1 \in Int /\ \A k \in 1 .. i - 1 : v[k] \in X
    BY <1>1
  <2>2. /\ s1 \in Seq(X) /\ Len(s1) = IF 1 <= i - 1 THEN (i - 1) - 1 + 1 ELSE 0
        /\ \A k \in 1 .. (i - 1) - 1 + 1 : s1[k] = v[1 + k - 1]
    BY <2>1, SubSeqProperties
  <2>3. (i - 1) - 1 + 1 = i - 1 /\ \A k \in 1 .. i - 1 : 1 + k - 1 = k
    BY <1>1
  <2> QED BY <1>1, <2>2, <2>3
<1>3. s2 \in Seq(X) /\ Len(s2) = l - i /\ \A k \in 1 .. l - i : s2[k] = v[i + k]
  <2>1. i + 1 \in Int /\ l \in Int /\ \A k \in i + 1 .. l : v[k] \in X
    BY <1>1
  <2>2. /\ s2 \in Seq(X) /\ Len(s2) = IF i + 1 <= l THEN l - (i + 1) + 1 ELSE 0
        /\ \A k \in 1 .. l - (i + 1) + 1 : s2[k] = v[(i + 1) + k - 1]
    BY <2>1, SubSeqProperties
  <2>3. l - (i + 1) + 1 = l - i /\ \A k \in 1 .. l - i : (i + 1) + k - 1 = i + k
    BY <1>1
  <2>4. Len(s2) = l - i
    BY <1>1, <2>2
  <2>5. \A k \in 1 .. l - i : s2[k] = v[i + k]
    BY <2>2, <2>3
  <2> QED BY <2>2, <2>4, <2>5
<1> HIDE DEF s1, s2
<1>4. /\ s1 \o s2 \in Seq(X) /\ Len(s1 \o s2) = Len(s1) + Len(s2)
      /\ \A k \in 1 .. Len(s1) + Len(s2) :
           (s1 \o s2)[k] = IF k <= Len(s1) THEN s1[k] ELSE s2[k - Len(s1)]
  BY <1>2, <1>3, ConcatProperties
<1>5. Without(v, i) = s1 \o s2
  BY DEF Without, s1, s2
<1>6. ASSUME NEW k \in 1 .. l - 1
      PROVE  (s1 \o s2)[k] = IF k < i THEN v[k] ELSE v[k + 1]
  <2>1. (s1 \o s2)[k] = IF k <= i - 1 THEN s1[k] ELSE s2[k - (i - 1)]
    BY <1>1, <1>2, <1>3, <1>4
  <2>2. CASE k < i
    BY <1>1, <1>2, <2>1, <2>2
  <2>3. CASE ~(k < i)
    <3>1. k - (i - 1) \in 1 .. l - i /\ i + (k - (i - 1)) = k + 1 /\ ~(k <= i - 1)
      BY <1>1, <2>3
    <3> QED BY <1>3, <2>1, <2>3, <3>1
  <2> QED BY <2>2, <2>3
<1>7. Without(v, i) \in Seq(X)
  BY <1>4, <1>5
<1>8. Len(Without(v, i)) = l - 1
  <2>1. Len(s1) + Len(s2) = l - 1
    BY <1>1, <1>2, <1>3
  <2> QED BY <1>4, <1>5, <2>1
<1>9. \A k \in 1 .. l - 1 : Without(v, i)[k] = IF k < i THEN v[k] ELSE v[k + 1]
  BY <1>5, <1>6
<1> QED BY <1>7, <1>8, <1>9

\* What is left when an entry with name b goes: the others in their order.
LEMMA ErasedProperties ==
  ASSUME Inv, NEW b, b \in InRotation
  PROVE  \E i \in DOMAIN backends_ :
           /\ backends_[i].backend = b
           /\ Erased(b) \in Seq(Entries) /\ Len(Erased(b)) = Len(backends_) - 1
           /\ \A k \in 1 .. Len(backends_) - 1 :
                \E j \in DOMAIN backends_ :
                  /\ j = IF k < i THEN k ELSE k + 1
                  /\ Erased(b)[k] = IF j = At THEN [backends_[j] EXCEPT !.current = 0]
                                    ELSE backends_[j]
<1> DEFINE l == Len(backends_)
           IsFirst(k) == /\ backends_[k].backend = b
                         /\ \A m \in 1 .. k - 1 : backends_[m].backend # b
           first == CHOOSE k \in DOMAIN backends_ : IsFirst(k)
           v == [backends_ EXCEPT ![At].current = 0]
<1>1. l \in Nat /\ DOMAIN backends_ = 1 .. l /\ backends_ \in Seq(Entries)
  BY DEF Inv, EntriesOK
<1>2. \E k \in DOMAIN backends_ : IsFirst(k)
  <2> DEFINE N == {k \in 1 .. l : backends_[k].backend = b}
  <2>1. N \in SUBSET Nat /\ N # {}
    BY <1>1 DEF InRotation
  <2>2. PICK k \in N : \A m \in N : k <= m
    <3> HIDE DEF N
    <3> QED BY <2>1, LeastElement
  <2>3. \A m \in 1 .. k - 1 : m \in 1 .. l /\ ~(k <= m)
    BY <1>1, <2>2
  <2> QED BY <1>1, <2>2, <2>3
<1>3. first \in 1 .. l /\ backends_[first].backend = b
  BY <1>1, <1>2
<1>4. v = [backends_ EXCEPT ![At] = [backends_[At] EXCEPT !.current = 0]]
  OBVIOUS
<1>5. v \in Seq(Entries) /\ Len(v) = l
  <2>1. At \in 1 .. l => [backends_[At] EXCEPT !.current = 0] \in Entries
    <3>1. At \in 1 .. l => backends_[At] \in Entries
      BY <1>1
    <3> QED BY <3>1 DEF Entries
  <2>2. \A j \in 1 .. l : backends_[j] \in Entries
    BY <1>1
  <2>3. DOMAIN v = 1 .. l /\ \A j \in 1 .. l : v[j] \in Entries
    BY <1>1, <1>4, <2>1, <2>2
  <2>4. v = [j \in 1 .. l |-> v[j]]
    BY <1>1, <1>4
  <2> HIDE DEF v
  <2>5. v \in [1 .. l -> Entries]
    BY <2>3, <2>4
  <2> QED BY <1>1, <2>5
<1>6. \A j \in 1 .. l : v[j] = IF j = At THEN [backends_[j] EXCEPT !.current = 0]
                               ELSE backends_[j]
  BY <1>1, <1>4
<1>7. Erased(b) = Without(v, first)
  BY DEF Erased
<1> HIDE DEF v, first
<1>8. /\ Without(v, first) \in Seq(Entries) /\ Len(Without(v, first)) = l - 1
      /\ \A k \in 1 .. l - 1 :
           Without(v, first)[k] = IF k < first THEN v[k] ELSE v[k + 1]
  <2>1. first \in 1 .. Len(v)
    BY <1>3, <1>5
  <2>2. /\ Without(v, first) \in Seq(Entries) /\ Len(Without(v, first)) = Len(v) - 1
        /\ \A k \in 1 .. Len(v) - 1 :
             Without(v, first)[k] = IF k < first THEN v[k] ELSE v[k + 1]
    BY <1>5, <2>1, WithoutProperties
  <2> QED BY <1>5, <2>2
<1>9. ASSUME NEW k \in 1 .. l - 1
      PROVE  \E j \in 1 .. l : /\ j = IF k < first THEN k ELSE k + 1
                               /\ Erased(b)[k] = IF j = At THEN [backends_[j] EXCEPT !.current = 0]
                                                 ELSE backends_[j]
  <2> DEFINE j == IF k < first THEN k ELSE k + 1
  <2>1. j \in 1 .. l
    BY <1>1
  <2>2. Erased(b)[k] = v[j]
    BY <1>7, <1>8
  <2> HIDE DEF j
  <2>3. Erased(b)[k] = IF j = At THEN [backends_[j] EXCEPT !.current = 0] ELSE backends_[j]
    BY <1>6, <2>1, <2>2
  <2> QED BY <2>1, <2>3 DEF j
<1> QED BY <1>1, <1>3, <1>7, <1>8, <1>9

\* The backends that are left keep their weights and start from the first, each
\* without a turn in progress.
LEMMA ExcludeKeeps == ASSUME Inv, NEW b \in Names, ExcludeBackend(b) PROVE Inv'
<1>1. /\ backends_' = Erased(b) /\ counter_' = 0
      /\ turn' = (IF b \notin InRotation /\ counter_ = 0 THEN turn ELSE 0)
      /\ got' = [x \in Names |-> 0] /\ late' = (late \/ b \notin InRotation)
  BY DEF ExcludeBackend, Restart
<1>2. At' = 1 /\ counter_' \in Nat /\ turn' \in Nat /\ late' \in BOOLEAN /\ got' \in [Names -> Nat]
  BY <1>1 DEF At, Inv, TypeOK
<1>3. CASE b \notin InRotation
  <2>1. backends_' = backends_ /\ late'
    BY <1>1, <1>3 DEF Erased
  <2>2. InRotation' \subseteq Names
    BY <2>1 DEF InRotation, Inv, TypeOK
  <2>3. TypeOK'
    BY <1>1, <1>2, <2>1, <2>2 DEF Inv, TypeOK
  <2> QED BY <2>1, <2>3 DEF Inv, EntriesOK, NoDuplicates, OneTurn, InRound
<1>4. CASE b \in InRotation
  <2> DEFINE l == Len(backends_)
             At0 == At
             Old(i, k) == IF k < i THEN k ELSE k + 1
  <2>1. turn' = 0 /\ late' = late
    BY <1>1, <1>4 DEF Inv, TypeOK
  <2>2. PICK i \in DOMAIN backends_ :
          /\ backends_' \in Seq(Entries) /\ Len(backends_') = l - 1
          /\ \A k \in 1 .. l - 1 :
               \E j \in DOMAIN backends_ :
                 /\ j = Old(i, k)
                 /\ backends_'[k] = IF j = At0 THEN [backends_[j] EXCEPT !.current = 0]
                                    ELSE backends_[j]
    BY <1>1, <1>4, ErasedProperties
  <2> HIDE DEF At0
  <2>3. /\ l \in Nat \ {0} /\ i \in 1 .. l /\ l - 1 \in Nat /\ DOMAIN backends_ = 1 .. l
        /\ DOMAIN backends_' = 1 .. l - 1
    <3>1. l \in Nat \ {0} /\ i \in 1 .. l /\ DOMAIN backends_ = 1 .. l
      BY EntryProperties DEF Inv, EntriesOK
    <3> HIDE DEF l
    <3> QED BY <2>2, <3>1
  <2>4. ASSUME NEW k \in 1 .. l - 1
        PROVE  /\ Old(i, k) \in DOMAIN backends_ /\ backends_'[k].backend = backends_[Old(i, k)].backend
               /\ Share(backends_'[k]) = Share(backends_[Old(i, k)])
               /\ backends_'[k].current = IF Old(i, k) = At0 THEN 0 ELSE backends_[Old(i, k)].current
    <3>1. PICK j \in DOMAIN backends_ :
            /\ j = Old(i, k)
            /\ backends_'[k] = IF j = At0 THEN [backends_[j] EXCEPT !.current = 0]
                               ELSE backends_[j]
      BY <2>2
    <3>2. backends_[j] \in Entries
      BY EntryProperties DEF Inv
    <3>3. LET e == [backends_[j] EXCEPT !.current = 0]
          IN  e.backend = backends_[j].backend /\ e.weight = backends_[j].weight /\ e.current = 0
      BY <3>2 DEF Entries
    <3> HIDE DEF Old
    <3> QED BY <3>1, <3>3 DEF Share
  <2>5. EntriesOK'
    <3>1. ASSUME Distinct(backends_), NEW k \in 1 .. l - 1, NEW m \in 1 .. l - 1,
                 backends_'[k].backend = backends_'[m].backend
          PROVE  k = m
      <4>1. Old(i, k) = Old(i, m)
        BY <2>4, <3>1 DEF Distinct
      <4> QED BY <2>3, <4>1
    <3>2. Distinct(backends_) => Distinct(backends_')
      BY <2>3, <3>1 DEF Distinct
    <3> QED BY <2>2, <3>2 DEF Inv, EntriesOK, NoDuplicates
  <2>6. TypeOK'
    <3>1. InRotation' \subseteq Names
      BY <2>3, <2>4 DEF InRotation, Inv, TypeOK
    <3>2. ASSUME NEW k \in 1 .. l - 1
          PROVE  backends_'[k].current \in 0 .. Share(backends_'[k]) - 1
      <4> DEFINE j == Old(i, k)
      <4>1. j \in DOMAIN backends_ /\ backends_'[k].current = (IF j = At0 THEN 0 ELSE backends_[j].current)
            /\ Share(backends_'[k]) = Share(backends_[j])
        BY <2>4
      <4> HIDE DEF j
      <4>2. backends_[j].current \in 0 .. Share(backends_[j]) - 1 /\ Share(backends_[j]) \in Nat \ {0}
        BY <4>1, EntryProperties DEF Inv, TypeOK
      <4> QED BY <4>1, <4>2
    <3> QED BY <1>1, <1>2, <2>3, <3>1, <3>2 DEF TypeOK
  <2>7. OneTurn'
    <3> SUFFICES ASSUME ~late, NEW k \in 1 .. l - 1 PROVE backends_'[k].current = 0
      BY <1>2, <2>1, <2>3 DEF OneTurn
    <3> DEFINE j == Old(i, k)
    <3>1. j \in DOMAIN backends_ /\ backends_'[k].current = (IF j = At0 THEN 0 ELSE backends_[j].current)
      BY <2>4
    <3> HIDE DEF j
    <3>2. j # At => backends_[j].current = 0
      BY <3>1 DEF Inv, OneTurn
    <3> QED BY <3>1, <3>2 DEF At0
  <2>8. InRound'
    <3>1. ASSUME NEW k \in DOMAIN backends_'
          PROVE  got'[backends_'[k].backend] = 0 /\ ~(k < 1)
      <4>1. backends_'[k].backend \in Names
        <5>1. backends_'[k] \in Entries
          BY <2>2, <3>1
        <5> QED BY <5>1 DEF Entries
      <4> QED BY <1>1, <2>3, <4>1
    <3> QED BY <1>2, <2>1, <3>1 DEF InRound
  <2> QED BY <2>5, <2>6, <2>7, <2>8 DEF Inv
<1> QED BY <1>3, <1>4

LEMMA InvNext == Inv /\ [Next]_vars => Inv'
<1> SUFFICES ASSUME Inv, [Next]_vars PROVE Inv'
  OBVIOUS
<1>1. CASE SelectBackend
  BY <1>1, SelectKeeps
<1>2. ASSUME NEW b \in Names, ExcludeBackend(b) PROVE Inv'
  BY <1>2, ExcludeKeeps
<1>3. CASE UNCHANGED <<backends_, counter_, history>>
  BY <1>3 DEF Inv, TypeOK, InRotation, EntriesOK, NoDuplicates, OneTurn, InRound, At, history
<1> QED BY <1>1, <1>2, <1>3 DEF Next, SelectUndefined, vars

LEMMA Invariant == Spec => []Inv
BY InvInit, InvNext, PTL DEF Spec

-----------------------------------------------------------------------------
(* Theorems *)

\* AdvanceCounter and ExcludeBackend keep the counter an index of the vector and
\* every entry within its turn, even after an exclusion that erases nothing.
THEOREM TypeCorrect == Spec => []TypeOK
<1>1. Inv => TypeOK
  BY DEF Inv
<1> QED BY Invariant, <1>1, PTL

LEMMA Products ==
  ASSUME NEW x \in Nat, NEW y \in Nat, NEW p \in Nat, NEW q \in Nat, x <= p
  PROVE  x * q - y * p <= p * q
<1>1. PICK d \in Nat : p = x + d
  <2>1. p - x \in Nat /\ p = x + (p - x)
    OBVIOUS
  <2> QED BY <2>1
<1>2. p * q = x * q + d * q
  BY <1>1
<1>3. x * q \in Nat /\ d * q \in Nat /\ y * p \in Nat /\ p * q \in Nat
  OBVIOUS
<1> QED BY <1>2, <1>3

\* SelectBackend gives the backends turns of their weights in one order, and
\* ExcludeBackend starts a new round with no turn in progress: as long as no
\* backend is excluded twice, none is more than one turn ahead of another.
THEOREM SharesAreProportional == Spec => []ProportionalShares
<1>1. ASSUME Inv, NoDuplicates, ~late, NEW i \in DOMAIN backends_
      PROVE  /\ got[backends_[i].backend] \in 0 .. Share(backends_[i])
             /\ Share(backends_[i]) \in Nat
  <2>1. Share(backends_[i]) \in Nat \ {0}
    BY <1>1, EntryProperties DEF Inv
  <2>2. i = At => turn \in 0 .. Share(backends_[i]) - 1
    BY <1>1 DEF Inv, TypeOK, OneTurn
  <2>3. got[backends_[i].backend] = IF i < At THEN Share(backends_[i])
                                    ELSE IF i = At THEN turn ELSE 0
    BY <1>1 DEF Inv, InRound
  <2> QED BY <2>1, <2>2, <2>3
<1>2. Inv => ProportionalShares
  <2> SUFFICES ASSUME Inv, NoDuplicates, ~late, NEW i \in DOMAIN backends_, NEW j \in DOMAIN backends_
               PROVE  got[backends_[i].backend] * Share(backends_[j])
                        - got[backends_[j].backend] * Share(backends_[i])
                        <= Share(backends_[i]) * Share(backends_[j])
    BY DEF ProportionalShares
  <2> DEFINE x == got[backends_[i].backend]
             y == got[backends_[j].backend]
             p == Share(backends_[i])
             q == Share(backends_[j])
  <2>1. x \in Nat /\ y \in Nat /\ p \in Nat /\ q \in Nat /\ x <= p
    BY <1>1
  <2> HIDE DEF x, y, p, q
  <2>2. x * q - y * p <= p * q
    BY <2>1, Products
  <2> QED BY <2>2 DEF x, y, p, q
<1> QED BY Invariant, <1>2, PTL

\* With no endpoint listed twice the selector does what ISelector promises.
THEOREM WeightedRoundRobinImplementsSelector == Spec => ImplementsSelector
<1>1. Init => S!Init
  <2> SUFFICES ASSUME Init PROVE S!Init
    OBVIOUS
  <2>1. InRotation \subseteq Names
    BY InvInit DEF Inv, TypeOK
  <2> QED BY <2>1, Configuration DEF Init, S!Init, S!None
<1>2. ASSUME Inv, [Next]_vars, NoDuplicates PROVE [S!Next]_(S!vars)
  <2>1. CASE Next /\ SelectBackend
    <3>1. backends_ # <<>> /\ At \in DOMAIN backends_
      BY <1>2, <2>1 DEF SelectBackend, Inv, TypeOK, EntriesOK, At
    <3>2. DOMAIN backends_' = DOMAIN backends_
          /\ \A i \in DOMAIN backends_ : backends_'[i].backend = backends_[i].backend
      <4>1. PICK c : backends_' = [backends_ EXCEPT ![At].current = c]
        BY <2>1 DEF SelectBackend, AdvanceCounter
      <4>2. backends_[At] \in Entries
        BY <1>2, <3>1, EntryProperties DEF Inv
      <4>3. [backends_[At] EXCEPT !.current = c].backend = backends_[At].backend
        BY <4>2 DEF Entries
      <4> QED BY <3>1, <4>1, <4>3
    <3>3. InRotation' = InRotation
      BY <3>2 DEF InRotation
    <3>4. backends_[At].backend \in InRotation
      BY <3>1 DEF InRotation
    <3> QED BY <2>1, <3>3, <3>4 DEF SelectBackend, Next, S!Next, S!SelectBackend
  <2>2. CASE Next /\ SelectUndefined
    <3>1. InRotation = {} /\ InRotation' = InRotation
      BY <2>2 DEF SelectUndefined, InRotation
    <3> QED BY <2>2, <3>1 DEF SelectUndefined, Next, S!Next, S!SelectFromNone
  <2>3. ASSUME Next, NEW b \in Names, ExcludeBackend(b) PROVE S!Next
    <3>1. b \in Backends
      BY Configuration
    <3>2. InRotation' = InRotation \ {b} /\ (backends_' = <<>> <=> InRotation' = {})
      <4>1. CASE b \notin InRotation
        <5>1. backends_' = backends_ /\ InRotation' = InRotation
          BY <2>3, <4>1 DEF ExcludeBackend, Erased, InRotation
        <5>2. backends_ = <<>> <=> InRotation = {}
          <6>1. backends_ # <<>> => 1 \in DOMAIN backends_
            BY <1>2 DEF Inv, EntriesOK
          <6>2. backends_ = <<>> => DOMAIN backends_ = {}
            OBVIOUS
          <6> QED BY <6>1, <6>2 DEF InRotation
        <5> QED BY <4>1, <5>1, <5>2
      <4>2. CASE b \in InRotation
        <5> DEFINE l == Len(backends_)
        <5>1. PICK i \in DOMAIN backends_ :
                /\ backends_[i].backend = b
                /\ Erased(b) \in Seq(Entries) /\ Len(Erased(b)) = l - 1
                /\ \A k \in 1 .. l - 1 :
                     \E j \in DOMAIN backends_ :
                       /\ j = IF k < i THEN k ELSE k + 1
                       /\ Erased(b)[k] = IF j = At THEN [backends_[j] EXCEPT !.current = 0]
                                         ELSE backends_[j]
          BY <1>2, <4>2, ErasedProperties
        <5>2. /\ l \in Nat \ {0} /\ i \in 1 .. l /\ DOMAIN backends_ = 1 .. l
              /\ backends_' = Erased(b) /\ Distinct(backends_)
          BY <1>2, <2>3, EntryProperties DEF Inv, EntriesOK, ExcludeBackend
        <5> HIDE DEF l
        <5>3. DOMAIN backends_' = 1 .. l - 1 /\ backends_' \in Seq(Entries)
          BY <5>1, <5>2
        <5>4. ASSUME NEW k \in 1 .. l - 1
              PROVE  \E j \in 1 .. l : /\ j = IF k < i THEN k ELSE k + 1
                                       /\ backends_'[k].backend = backends_[j].backend
          <6>1. PICK j \in 1 .. l :
                  /\ j = IF k < i THEN k ELSE k + 1
                  /\ backends_'[k] = IF j = At THEN [backends_[j] EXCEPT !.current = 0]
                                     ELSE backends_[j]
            BY <5>1, <5>2
          <6>2. backends_[j] \in Entries
            BY <1>2, <5>2, EntryProperties DEF Inv
          <6>3. [backends_[j] EXCEPT !.current = 0].backend = backends_[j].backend
            BY <6>2 DEF Entries
          <6> QED BY <6>1, <6>3
        <5>5. ASSUME NEW k \in 1 .. l - 1
              PROVE  backends_'[k].backend \in InRotation \ {b}
          <6>1. PICK j \in 1 .. l : /\ j = IF k < i THEN k ELSE k + 1
                                    /\ backends_'[k].backend = backends_[j].backend
            BY <5>4
          <6>2. j # i
            BY <5>2, <6>1
          <6> QED BY <5>1, <5>2, <6>1, <6>2 DEF InRotation, Distinct
        <5>6. ASSUME NEW j \in 1 .. l, backends_[j].backend # b
              PROVE  \E k \in 1 .. l - 1 : backends_'[k].backend = backends_[j].backend
          <6>1. j # i
            BY <5>1, <5>6
          <6> DEFINE k == IF j < i THEN j ELSE j - 1
          <6>2. k \in 1 .. l - 1 /\ j = IF k < i THEN k ELSE k + 1
            BY <5>2, <6>1
          <6> HIDE DEF k
          <6> QED BY <5>4, <6>2
        <5>7. InRotation' = {backends_'[k].backend : k \in 1 .. l - 1}
          BY <5>3 DEF InRotation
        <5>8. InRotation' = InRotation \ {b}
          <6>1. \A x : x \in InRotation <=> \E j \in 1 .. l : backends_[j].backend = x
            BY <5>2 DEF InRotation
          <6>2. \A x \in InRotation' : x \in InRotation \ {b}
            BY <5>5, <5>7
          <6>3. \A x \in InRotation \ {b} : x \in InRotation'
            BY <5>6, <5>7, <6>1
          <6> QED BY <6>2, <6>3
        <5>9. backends_' = <<>> <=> InRotation' = {}
          <6>1. backends_' # <<>> => 1 \in DOMAIN backends_'
            <7>1. \A v \in Seq(Entries) : v # <<>> => 1 \in DOMAIN v
              OBVIOUS
            <7> QED BY <5>3, <7>1
          <6>2. backends_' = <<>> => DOMAIN backends_' = {}
            OBVIOUS
          <6> QED BY <6>1, <6>2 DEF InRotation
        <5> QED BY <5>8, <5>9
      <4> QED BY <4>1, <4>2
    <3>3. S!ExcludeBackend(b)
      BY <2>3, <3>2 DEF ExcludeBackend, S!ExcludeBackend
    <3> QED BY <2>3, <3>1, <3>3 DEF Next, S!Next
  <2>4. CASE UNCHANGED vars
    BY <2>4 DEF vars, S!vars, InRotation
  <2> QED BY <1>2, <2>1, <2>2, <2>3, <2>4 DEF Next
<1>3. Inv /\ [Next]_vars => [NoDuplicates => S!Next]_(S!vars)
  BY <1>2
<1> QED BY Invariant, <1>1, <1>3, PTL DEF Spec, ImplementsSelector
=============================================================================
