-------------------------- MODULE RoundRobin_proofs --------------------------
(***************************************************************************)
(* Theorems of RoundRobin for every list of endpoints.                     *)
(***************************************************************************)
EXTENDS RoundRobin, FiniteSetTheorems, TLAPS

-----------------------------------------------------------------------------
(* What std::remove leaves of a vector. *)

\* Below the number of its elements, every number is the rank of exactly one
\* element of a finite set.
LEMMA KthElement ==
  ASSUME NEW N \in SUBSET Nat, IsFiniteSet(N)
  PROVE  /\ Cardinality(N) \in Nat
         /\ \A k \in 1 .. Cardinality(N) :
              Kth(N, k) \in N /\ Cardinality({j \in N : j <= Kth(N, k)}) = k
         /\ \A i \in N : \E k \in 1 .. Cardinality(N) : Kth(N, k) = i
<1> DEFINE Below(i) == {j \in N : j <= i}
           rank == [i \in N |-> Cardinality(Below(i))]
           n == Cardinality(N)
<1>1. n \in Nat
  BY FS_CardinalityType
<1>2. ASSUME NEW i \in N
      PROVE  IsFiniteSet(Below(i)) /\ Cardinality(Below(i)) \in 1 .. n
  <2>1. Below(i) \in SUBSET N /\ i \in Below(i)
    OBVIOUS
  <2>2. /\ IsFiniteSet(Below(i)) /\ Cardinality(Below(i)) <= n
        /\ Cardinality(Below(i)) \in Nat
    BY <2>1, FS_Subset, FS_CardinalityType
  <2>3. Cardinality(Below(i)) # 0
    BY <2>1, <2>2, FS_EmptySet
  <2> QED BY <1>1, <2>2, <2>3
<1>3. ASSUME NEW i \in N, NEW j \in N, rank[i] = rank[j] PROVE i = j
  <2>1. ASSUME NEW a \in N, NEW b \in N, a < b, Cardinality(Below(a)) = Cardinality(Below(b))
        PROVE  FALSE
    <3>1. Below(a) \in SUBSET Below(b) /\ b \in Below(b) /\ b \notin Below(a)
      <4>1. \A x \in N : x \in Nat
        OBVIOUS
      <4>2. \A x \in N : x <= a => x <= b
        BY <2>1, <4>1
      <4>3. b <= b /\ ~(b <= a)
        BY <2>1, <4>1
      <4> QED BY <4>2, <4>3
    <3>2. Below(a) = Below(b)
      BY <1>2, <2>1, <3>1, FS_Subset
    <3> QED BY <3>1, <3>2
  <2>2. Cardinality(Below(i)) = Cardinality(Below(j))
    BY <1>3
  <2>3. i \in Nat /\ j \in Nat
    OBVIOUS
  <2> QED BY <2>1, <2>2, <2>3
<1>4. IsFiniteSet(1 .. n) /\ Cardinality(1 .. n) = n
  BY <1>1, FS_Interval
<1>5. rank \in Injection(N, 1 .. n)
  BY <1>2, <1>3 DEF Injection, IsInjective
<1>6. rank \in Surjection(N, 1 .. n)
  BY <1>4, <1>5, FS_Injection
<1>7. \A k \in 1 .. n : \E i \in N : Cardinality(Below(i)) = k
  BY <1>6 DEF Surjection
<1>8. \A k \in 1 .. n : Kth(N, k) \in N /\ Cardinality(Below(Kth(N, k))) = k
  BY <1>7 DEF Kth
<1>9. ASSUME NEW i \in N PROVE \E k \in 1 .. n : Kth(N, k) = i
  <2>1. Cardinality(Below(i)) \in 1 .. n
    BY <1>2
  <2>2. Kth(N, Cardinality(Below(i))) = i
    BY <1>3, <1>8, <2>1
  <2> QED BY <2>1, <2>2
<1> QED BY <1>1, <1>8, <1>9

\* Removed leaves exactly the entries other than x; of a vector that has no two
\* entries equal, it takes one or none.
LEMMA RemovedProperties ==
  ASSUME NEW X, NEW v \in Seq(X), NEW x
  PROVE  /\ Removed(v, x) \in Seq(X) /\ Len(Removed(v, x)) <= Len(v)
         /\ \A k \in DOMAIN Removed(v, x) :
              Removed(v, x)[k] # x /\ \E i \in DOMAIN v : v[i] = Removed(v, x)[k]
         /\ \A i \in DOMAIN v :
              v[i] # x => \E k \in DOMAIN Removed(v, x) : Removed(v, x)[k] = v[i]
<1> DEFINE kept == {i \in DOMAIN v : v[i] # x}
           n == Cardinality(kept)
           r == Removed(v, x)
<1>1. DOMAIN v = 1 .. Len(v) /\ Len(v) \in Nat
  OBVIOUS
<1>2. kept \in SUBSET Nat /\ IsFiniteSet(kept) /\ n \in Nat /\ n <= Len(v)
  <2>1. IsFiniteSet(1 .. Len(v)) /\ Cardinality(1 .. Len(v)) = Len(v)
    BY <1>1, FS_Interval
  <2> QED BY <1>1, <2>1, FS_Subset, FS_CardinalityType
<1>3. /\ \A k \in 1 .. n : Kth(kept, k) \in kept
      /\ \A i \in kept : \E k \in 1 .. n : Kth(kept, k) = i
  <2> HIDE DEF kept
  <2> QED BY <1>2, KthElement
<1>4. r = [k \in 1 .. n |-> v[Kth(kept, k)]]
  BY DEF Removed
<1>5. r \in Seq(X) /\ Len(r) = n /\ DOMAIN r = 1 .. n
  <2>1. \A k \in 1 .. n : v[Kth(kept, k)] \in X
    BY <1>3
  <2> HIDE DEF r, n
  <2> QED BY <1>2, <1>4, <2>1
<1>6. \A k \in 1 .. n : r[k] # x /\ \E i \in DOMAIN v : v[i] = r[k]
  BY <1>3, <1>4
<1>7. ASSUME NEW i \in DOMAIN v, v[i] # x PROVE \E k \in 1 .. n : r[k] = v[i]
  BY <1>3, <1>4, <1>7
<1> QED BY <1>2, <1>5, <1>6, <1>7

Distinct(v) == \A i, j \in DOMAIN v : v[i] = v[j] => i = j

LEMMA RemovedFromDistinct ==
  ASSUME NEW X, NEW v \in Seq(X), Distinct(v), NEW x
  PROVE  /\ Distinct(Removed(v, x))
         /\ x \in {v[i] : i \in DOMAIN v} => Len(Removed(v, x)) = Len(v) - 1
         /\ x \notin {v[i] : i \in DOMAIN v} => Removed(v, x) = v
<1> DEFINE kept == {i \in DOMAIN v : v[i] # x}
           n == Cardinality(kept)
           r == Removed(v, x)
<1>1. DOMAIN v = 1 .. Len(v) /\ Len(v) \in Nat
  OBVIOUS
<1>2. IsFiniteSet(1 .. Len(v)) /\ Cardinality(1 .. Len(v)) = Len(v)
  BY <1>1, FS_Interval
<1>3. kept \in SUBSET Nat /\ IsFiniteSet(kept) /\ n \in Nat
  BY <1>1, <1>2, FS_Subset, FS_CardinalityType
<1>4. /\ \A k \in 1 .. n : Kth(kept, k) \in kept
      /\ \A k \in 1 .. n : Cardinality({j \in kept : j <= Kth(kept, k)}) = k
  <2> HIDE DEF kept
  <2> QED BY <1>3, KthElement
<1>5. r = [k \in 1 .. n |-> v[Kth(kept, k)]]
  BY DEF Removed
<1>6. Distinct(r)
  <2> SUFFICES ASSUME NEW k \in 1 .. n, NEW m \in 1 .. n, r[k] = r[m] PROVE k = m
    BY <1>5 DEF Distinct
  <2>1. Kth(kept, k) = Kth(kept, m)
    BY <1>4, <1>5 DEF Distinct
  <2> QED BY <1>4, <2>1
<1>7. ASSUME x \in {v[i] : i \in DOMAIN v} PROVE Len(r) = Len(v) - 1
  <2>1. PICK p \in 1 .. Len(v) : v[p] = x
    BY <1>1, <1>7
  <2>2. kept = (1 .. Len(v)) \ {p}
    BY <1>1, <2>1 DEF Distinct
  <2>3. n = Len(v) - 1
    <3>1. Cardinality((1 .. Len(v)) \ {p}) = Cardinality(1 .. Len(v)) - 1
      BY <1>2, <2>1, FS_RemoveElement
    <3> QED BY <1>2, <2>2, <3>1
  <2>4. Len(r) = n
    <3> HIDE DEF r, n, kept
    <3> QED BY <1>3, <1>5
  <2> QED BY <2>3, <2>4
<1>8. ASSUME x \notin {v[i] : i \in DOMAIN v} PROVE r = v
  <2>1. kept = 1 .. Len(v) /\ n = Len(v)
    BY <1>1, <1>2, <1>8
  <2>2. ASSUME NEW k \in 1 .. Len(v) PROVE Kth(kept, k) = k
    <3>1. PICK i \in 1 .. Len(v) : i = Kth(kept, k) /\ Cardinality({j \in kept : j <= i}) = k
      BY <1>4, <2>1
    <3>2. {j \in kept : j <= i} = 1 .. i
      BY <1>1, <2>1
    <3>3. Cardinality(1 .. i) = i
      BY FS_Interval
    <3> QED BY <3>1, <3>2, <3>3
  <2>3. r = [k \in 1 .. Len(v) |-> v[k]]
    BY <1>5, <2>1, <2>2
  <2> QED BY <1>1, <2>3
<1> QED BY <1>6, <1>7, <1>8

-----------------------------------------------------------------------------
(* The inductive invariant. *)

\* Index from 0 of the backend next in turn, and how many come before entry i.
Upcoming == (counter + 1) % Len(backends_)
Ahead(i) ==
  IF i - 1 >= Upcoming THEN i - 1 - Upcoming ELSE i - 1 - Upcoming + Len(backends_)

\* Twice what a backend may wait when m are left.
Twice(m) == (Len(Config) - 1) * Len(Config) - (m - 1) * (m - 2)

\* What a backend has waited and what is still ahead of it keep to the bound.
WaitsBounded ==
  NoDuplicates =>
    /\ Distinct(backends_)
    /\ \A i \in DOMAIN backends_ :
         2 * (waited[backends_[i]] + Ahead(i)) <= Twice(Len(backends_))

Inv == TypeOK /\ Len(backends_) <= Len(Config) /\ WaitsBounded

LEMMA Configuration ==
  /\ Config \in Seq(Names) /\ Names \subseteq Backends
  /\ Len(Config) \in Nat
<1>1. Config \in Seq(Backends)
  BY ConfigAssumption
<1>2. \A i \in 1 .. Len(Config) : Config[i] \in Names
  BY <1>1 DEF Names
<1>3. Config \in Seq(Names)
  BY <1>1, <1>2
<1> QED BY <1>1, <1>3 DEF Names

LEMMA NextIndex ==
  ASSUME NEW m \in Nat \ {0}, NEW c \in Nat
  PROVE  c % m \in 0 .. m - 1 /\ (c < m => c % m = c) /\ m % m = 0
OBVIOUS

\* One exclusion allows one more round of those left; a round is allowed anyway.
LEMMA TwiceProperties ==
  ASSUME NEW m \in Nat \ {0}
  PROVE  /\ Twice(m) \in Int /\ Twice(m - 1) = Twice(m) + 2 * (m - 2)
         /\ m <= Len(Config) => 2 * (m - 1) <= Twice(m)
<1> DEFINE n == Len(Config)
<1>1. n \in Nat
  BY Configuration
<1>2. (m - 2) * (m - 3) = (m - 1) * (m - 2) - 2 * (m - 2)
  OBVIOUS
<1>3. ASSUME m <= n PROVE (m - 1) * m <= (n - 1) * n
  <2>1. PICK d \in Nat : n = m + d
    BY <1>1, <1>3
  <2>2. (n - 1) * n = (m - 1) * m + d * (2 * m - 1 + d)
    BY <2>1
  <2>3. d * (2 * m - 1 + d) >= 0
    <3>1. 2 * m - 1 + d \in Nat
      OBVIOUS
    <3> QED BY <3>1
  <2>4. (m - 1) * m \in Int /\ d * (2 * m - 1 + d) \in Int
    OBVIOUS
  <2> QED BY <2>2, <2>3, <2>4
<1>4. (m - 1) * m = (m - 1) * (m - 2) + 2 * (m - 1)
  OBVIOUS
<1>5. (m - 1) * (m - 2) \in Int /\ (n - 1) * n \in Int /\ (m - 2) * (m - 3) \in Int
      /\ (m - 1) * m \in Int
  BY <1>1
<1>6. Twice(m) = (n - 1) * n - (m - 1) * (m - 2)
  BY DEF Twice
<1>7. Twice(m - 1) = (n - 1) * n - (m - 2) * (m - 3)
  BY DEF Twice
<1> QED BY <1>2, <1>3, <1>4, <1>5, <1>6, <1>7

LEMMA AheadInRound ==
  ASSUME TypeOK, NEW i \in DOMAIN backends_
  PROVE  /\ Len(backends_) \in Nat \ {0}
         /\ Upcoming \in 0 .. Len(backends_) - 1
         /\ Ahead(i) \in 0 .. Len(backends_) - 1
<1>1. i \in 1 .. Len(backends_) /\ Len(backends_) \in Nat \ {0} /\ counter + 1 \in Nat
  BY DEF TypeOK
<1>2. Upcoming \in 0 .. Len(backends_) - 1
  BY <1>1, NextIndex DEF Upcoming
<1> QED BY <1>1, <1>2 DEF Ahead

LEMMA InvInit == Init => Inv
<1> SUFFICES ASSUME Init PROVE Inv
  OBVIOUS
<1>1. TypeOK /\ Len(backends_) <= Len(Config)
  BY Configuration DEF Init, TypeOK
<1>2. ASSUME NoDuplicates PROVE Distinct(backends_)
  BY <1>2 DEF Init, NoDuplicates, Distinct
<1>3. ASSUME NEW i \in DOMAIN backends_
      PROVE  2 * (waited[backends_[i]] + Ahead(i)) <= Twice(Len(backends_))
  <2>1. waited[backends_[i]] = 0 /\ Len(backends_) = Len(Config)
    BY <1>1 DEF Init, TypeOK
  <2>2. Ahead(i) \in 0 .. Len(backends_) - 1 /\ Len(backends_) \in Nat \ {0}
    BY <1>1, AheadInRound
  <2>3. 2 * (Len(backends_) - 1) <= Twice(Len(backends_)) /\ Twice(Len(backends_)) \in Int
    BY <2>1, <2>2, TwiceProperties
  <2> QED BY <2>1, <2>2, <2>3
<1> QED BY <1>1, <1>2, <1>3 DEF Inv, WaitsBounded

\* The backend selected starts a new wait; every other one comes one nearer.
LEMMA SelectKeeps == ASSUME Inv, SelectBackend PROVE Inv'
<1> DEFINE m == Len(backends_)
<1>1. m \in Nat \ {0} /\ backends_ \in Seq(Names) /\ m <= Len(Config)
      /\ backends_' = backends_ /\ counter' = Upcoming /\ Upcoming \in 0 .. m - 1
  <2>1. 1 \in DOMAIN backends_
    BY DEF Inv, TypeOK, SelectBackend
  <2> QED BY <2>1, AheadInRound DEF Inv, TypeOK, SelectBackend, Upcoming
<1>2. answer' = S!Chosen(backends_[Upcoming + 1])
  BY <1>1 DEF SelectBackend
<1>3. \A b \in Names :
        waited'[b] = IF b = backends_[Upcoming + 1] \/ b \notin InRotation
                     THEN 0 ELSE waited[b] + 1
  BY <1>2 DEF SelectBackend, CountWaits, S!Chosen
<1>4. TypeOK'
  BY <1>1 DEF Inv, TypeOK, SelectBackend, CountWaits
<1>5. ASSUME NoDuplicates, NEW i \in DOMAIN backends_
      PROVE  2 * (waited'[backends_[i]] + Ahead(i)') <= Twice(m)
  <2>1. Upcoming' = IF Upcoming + 1 = m THEN 0 ELSE Upcoming + 1
    <3>1. Upcoming' = (counter' + 1) % Len(backends_')
      BY DEF Upcoming
    <3>2. Upcoming' = (Upcoming + 1) % m
      BY <1>1, <3>1
    <3>3. Upcoming \in Nat /\ m \in Nat \ {0} /\ Upcoming + 1 <= m
      BY <1>1
    <3> HIDE DEF m
    <3>4. CASE Upcoming + 1 = m
      <4>1. m % m = 0
        BY <3>3, NextIndex
      <4> QED BY <3>2, <3>4, <4>1
    <3>5. CASE Upcoming + 1 < m
      <4>1. Upcoming + 1 \in Nat
        BY <3>3
      <4>2. (Upcoming + 1) % m = Upcoming + 1
        BY <3>3, <3>5, <4>1, NextIndex
      <4> QED BY <3>2, <3>3, <3>5, <4>2
    <3> QED BY <3>3, <3>4, <3>5
  <2>2. backends_[i] \in Names /\ backends_[i] \in InRotation /\ i \in 1 .. m
    BY <1>1 DEF InRotation
  <2>3. CASE i = Upcoming + 1
    <3>1. Ahead(i)' = m - 1 /\ waited'[backends_[i]] = 0
      BY <1>1, <1>3, <2>1, <2>2, <2>3 DEF Ahead
    <3> QED BY <1>1, <3>1, TwiceProperties
  <2>4. CASE i # Upcoming + 1
    <3>1. backends_[i] # backends_[Upcoming + 1]
      BY <1>1, <1>5, <2>2, <2>4 DEF Inv, WaitsBounded, Distinct
    <3>2. Ahead(i)' = Ahead(i) - 1
      BY <1>1, <2>1, <2>2, <2>4 DEF Ahead
    <3>3. waited'[backends_[i]] = waited[backends_[i]] + 1
      BY <1>3, <2>2, <3>1
    <3>4. Ahead(i) \in Nat /\ waited[backends_[i]] \in Nat
      BY <2>2, AheadInRound DEF Inv, TypeOK
    <3>5. 2 * (waited[backends_[i]] + Ahead(i)) <= Twice(m)
      BY <1>5 DEF Inv, WaitsBounded
    <3> QED BY <3>2, <3>3, <3>4, <3>5
  <2> QED BY <2>3, <2>4
<1>6. WaitsBounded'
  BY <1>1, <1>5 DEF Inv, WaitsBounded, Distinct, NoDuplicates
<1> QED BY <1>1, <1>4, <1>6 DEF Inv

LEMMA ExcludeShrinks ==
  ASSUME backends_ \in Seq(Names), NEW b, ExcludeBackend(b)
  PROVE  /\ backends_' \in Seq(Names) /\ Len(backends_') <= Len(backends_)
         /\ InRotation' = InRotation \ {b}
<1>1. /\ Removed(backends_, b) \in Seq(Names)
      /\ Len(Removed(backends_, b)) <= Len(backends_)
  BY RemovedProperties
<1>2. /\ \A k \in DOMAIN Removed(backends_, b) :
           /\ Removed(backends_, b)[k] # b
           /\ \E i \in DOMAIN backends_ : backends_[i] = Removed(backends_, b)[k]
      /\ \A i \in DOMAIN backends_ :
           backends_[i] # b =>
             \E k \in DOMAIN Removed(backends_, b) : Removed(backends_, b)[k] = backends_[i]
  BY RemovedProperties
<1>3. backends_' = Removed(backends_, b)
  BY DEF ExcludeBackend
<1>4. InRotation' = InRotation \ {b}
  BY <1>2, <1>3 DEF InRotation
<1> QED BY <1>1, <1>3, <1>4

\* Whatever entry goes, fewer than those left can be ahead of a backend.
LEMMA ExcludeKeeps == ASSUME Inv, NEW b \in Names, ExcludeBackend(b) PROVE Inv'
<1> DEFINE m == Len(backends_)
<1>1. backends_ \in Seq(Names) /\ m \in Nat /\ m <= Len(Config)
      /\ backends_' = Removed(backends_, b) /\ counter' = counter
      /\ waited' = [waited EXCEPT ![b] = 0] /\ waited \in [Names -> Nat]
  BY DEF Inv, TypeOK, ExcludeBackend
<1>2. backends_' \in Seq(Names) /\ Len(backends_') <= m
      /\ {backends_'[k] : k \in DOMAIN backends_'} = InRotation \ {b}
  BY <1>1, ExcludeShrinks DEF InRotation
<1>3. TypeOK' /\ Len(backends_') <= Len(Config)
  BY <1>1, <1>2, Configuration DEF Inv, TypeOK
<1>4. ASSUME NoDuplicates, NEW k \in DOMAIN backends_'
      PROVE  2 * (waited'[backends_'[k]] + Ahead(k)') <= Twice(Len(backends_'))
  <2>1. Distinct(backends_)
    BY <1>4 DEF Inv, WaitsBounded
  <2>2. PICK i \in DOMAIN backends_ : backends_[i] = backends_'[k] /\ backends_[i] # b
    BY <1>2 DEF InRotation
  <2>3. waited'[backends_'[k]] = waited[backends_[i]] /\ waited[backends_[i]] \in Nat
    BY <1>1, <2>2
  <2>4. 2 * (waited[backends_[i]] + Ahead(i)) <= Twice(m) /\ Ahead(i) \in 0 .. m - 1
        /\ m \in Nat \ {0}
    BY <1>4, AheadInRound DEF Inv, WaitsBounded
  <2>5. CASE b \in InRotation
    <3>1. Len(backends_') = m - 1
      BY <1>1, <2>1, <2>5, RemovedFromDistinct DEF InRotation
    <3>2. Ahead(k)' \in 0 .. m - 2
      <4>1. k \in 1 .. m - 1 /\ m - 1 \in Nat \ {0}
        BY <1>2, <2>4, <3>1
      <4>2. Upcoming' = (counter + 1) % (m - 1)
        BY <1>1, <3>1 DEF Upcoming
      <4>3. counter + 1 \in Nat
        BY DEF Inv, TypeOK
      <4>4. (counter + 1) % (m - 1) \in 0 .. (m - 1) - 1
        <5> DEFINE c == counter + 1
                   l == m - 1
        <5>1. c \in Nat /\ l \in Nat \ {0}
          BY <4>1, <4>3
        <5> HIDE DEF c, l
        <5>2. c % l \in 0 .. l - 1
          BY <5>1, NextIndex
        <5> QED BY <5>2 DEF c, l
      <4>5. Ahead(k)' = IF k - 1 >= Upcoming' THEN k - 1 - Upcoming'
                        ELSE k - 1 - Upcoming' + (m - 1)
        BY <3>1 DEF Ahead
      <4> QED BY <4>1, <4>2, <4>4, <4>5
    <3>3. Twice(m - 1) = Twice(m) + 2 * (m - 2) /\ Twice(m) \in Int
      BY <2>4, TwiceProperties
    <3> QED BY <2>3, <2>4, <3>1, <3>2, <3>3
  <2>6. CASE b \notin InRotation
    <3>1. backends_' = backends_
      BY <1>1, <2>1, <2>6, RemovedFromDistinct DEF InRotation
    <3>2. i = k
      BY <2>1, <2>2, <3>1 DEF Distinct
    <3>3. Ahead(k)' = Ahead(k)
      BY <1>1, <3>1 DEF Ahead, Upcoming
    <3> QED BY <2>3, <2>4, <3>1, <3>2, <3>3
  <2> QED BY <2>5, <2>6
<1>5. ASSUME NoDuplicates PROVE Distinct(backends_')
  BY <1>1, <1>5, RemovedFromDistinct DEF Inv, WaitsBounded
<1>6. WaitsBounded'
  BY <1>4, <1>5 DEF WaitsBounded, NoDuplicates, Distinct
<1> QED BY <1>3, <1>6 DEF Inv

LEMMA InvNext == Inv /\ [Next]_vars => Inv'
<1> SUFFICES ASSUME Inv, [Next]_vars PROVE Inv'
  OBVIOUS
<1>1. CASE SelectBackend
  BY <1>1, SelectKeeps
<1>2. ASSUME NEW b \in Names, ExcludeBackend(b) PROVE Inv'
  BY <1>2, ExcludeKeeps
<1>3. CASE UNCHANGED <<backends_, counter, waited>>
  BY <1>3 DEF Inv, TypeOK, WaitsBounded, Distinct, Ahead, Upcoming, NoDuplicates
<1> QED BY <1>1, <1>2, <1>3 DEF Next, SelectUndefined, vars

LEMMA Invariant == Spec => []Inv
BY InvInit, InvNext, PTL DEF Spec

-----------------------------------------------------------------------------
(* Theorems *)

\* The vector holds endpoints of the configuration and the counter is an index
\* into the configuration, whatever ExcludeBackend erases.
THEOREM TypeCorrect == Spec => []TypeOK
<1>1. Inv => TypeOK
  BY DEF Inv
<1> QED BY Invariant, <1>1, PTL

\* With n endpoints, none listed twice, no backend in rotation waits for more
\* selections than rounds of n down to m backends have, m being those left: the
\* counter that ExcludeBackend leaves alone costs a round at most.
THEOREM NoBackendStarves == Spec => []NoStarvation
<1>1. Inv => NoStarvation
  <2> SUFFICES ASSUME Inv, NoDuplicates, NEW i \in DOMAIN backends_
               PROVE  waited[backends_[i]] <= MostWaits
    BY DEF NoStarvation, InRotation
  <2>1. waited[backends_[i]] \in Nat /\ Ahead(i) \in Nat /\ Len(backends_) \in Nat \ {0}
    BY AheadInRound DEF Inv, TypeOK
  <2>2. Twice(Len(backends_)) \in Int
    BY <2>1, TwiceProperties
  <2>3. 2 * (waited[backends_[i]] + Ahead(i)) <= Twice(Len(backends_))
    BY DEF Inv, WaitsBounded
  <2>4. MostWaits = Twice(Len(backends_)) \div 2
    BY DEF MostWaits, Twice
  <2> QED BY <2>1, <2>2, <2>3, <2>4
<1> QED BY Invariant, <1>1, PTL

\* The selector does what ISelector promises: it answers with a backend in
\* rotation, and the exclusion of the last backend, and of no other, throws.
THEOREM RoundRobinImplementsSelector == Spec => ImplementsSelector
<1>1. Init => S!Init
  BY Configuration DEF Init, S!Init, InRotation, S!None
<1>2. Inv /\ [Next]_vars => [S!Next]_(S!vars)
  <2> SUFFICES ASSUME Inv, [Next]_vars PROVE [S!Next]_(S!vars)
    OBVIOUS
  <2>1. CASE Next /\ SelectBackend
    <3>1. InRotation' = InRotation
      BY <2>1 DEF SelectBackend, InRotation
    <3>2. backends_[counter' + 1] \in InRotation
      <4>1. backends_ # <<>> /\ backends_ \in Seq(Names) /\ counter' = (counter + 1) % Len(backends_)
        BY <2>1 DEF SelectBackend, Inv, TypeOK
      <4>2. Len(backends_) \in Nat \ {0} /\ counter + 1 \in Nat
        BY <4>1 DEF Inv, TypeOK
      <4>3. counter' \in 0 .. Len(backends_) - 1
        BY <4>1, <4>2, NextIndex
      <4> QED BY <4>1, <4>2, <4>3 DEF InRotation
    <3> QED BY <2>1, <3>1, <3>2 DEF SelectBackend, Next, S!Next, S!SelectBackend
  <2>2. CASE Next /\ SelectUndefined
    <3>1. InRotation = {} /\ InRotation' = InRotation
      BY <2>2 DEF SelectUndefined, InRotation
    <3> QED BY <2>2, <3>1 DEF SelectUndefined, Next, S!Next, S!SelectFromNone
  <2>3. ASSUME Next, NEW b \in Names, ExcludeBackend(b) PROVE S!Next
    <3>1. InRotation' = InRotation \ {b} /\ backends_' \in Seq(Names)
      BY <2>3, ExcludeShrinks DEF Inv, TypeOK
    <3>2. backends_' = <<>> <=> InRotation' = {}
      BY <3>1 DEF InRotation
    <3>3. b \in Backends
      BY Configuration
    <3>4. S!ExcludeBackend(b)
      BY <2>3, <3>1, <3>2 DEF ExcludeBackend, S!ExcludeBackend
    <3> QED BY <2>3, <3>3, <3>4 DEF Next, S!Next
  <2>4. CASE UNCHANGED vars
    BY <2>4 DEF vars, S!vars, InRotation
  <2> QED BY <2>1, <2>2, <2>3, <2>4 DEF Next
<1> QED BY Invariant, <1>1, <1>2, PTL DEF Spec, ImplementsSelector, S!Spec
=============================================================================
