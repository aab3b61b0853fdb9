---------------------------- MODULE IpHash_proofs ----------------------------
(***************************************************************************)
(* Theorems of IpHash for every list of endpoints, every set of addresses  *)
(* and ports and every hash of the addresses.                              *)
(***************************************************************************)
EXTENDS IpHash, FiniteSetTheorems, TLAPS

-----------------------------------------------------------------------------
(* What std::remove leaves of a vector. *)

\* Below the number of its elements, every number is the rank of exactly one
\* element of a finite set.
LEMMA KthElement ==
  ASSUME NEW N \in SUBSET Nat, IsFiniteSet(N)
  PROVE  /\ Cardinality(N) \in Nat
         /\ \A k \in 1 .. Cardinality(N) :
              Kth(N, k) \in N /\ Cardinality({j \in N : j <= Kth(N, k)}) = k
         /\ \A i \in N : \E k \in 1 .. Cardinality(N) : Kth(N, k) = i
<1> DEFINE Below(i) == {j \in N : j <= i}
           rank == [i \in N |-> Cardinality(Below(i))]
           n == Cardinality(N)
<1>1. n \in Nat
  BY FS_CardinalityType
<1>2. ASSUME NEW i \in N
      PROVE  IsFiniteSet(Below(i)) /\ Cardinality(Below(i)) \in 1 .. n
  <2>1. Below(i) \in SUBSET N /\ i \in Below(i)
    OBVIOUS
  <2>2. /\ IsFiniteSet(Below(i)) /\ Cardinality(Below(i)) <= n
        /\ Cardinality(Below(i)) \in Nat
    BY <2>1, FS_Subset, FS_CardinalityType
  <2>3. Cardinality(Below(i)) # 0
    BY <2>1, <2>2, FS_EmptySet
  <2> QED BY <1>1, <2>2, <2>3
<1>3. ASSUME NEW i \in N, NEW j \in N, rank[i] = rank[j] PROVE i = j
  <2>1. ASSUME NEW a \in N, NEW b \in N, a < b, Cardinality(Below(a)) = Cardinality(Below(b))
        PROVE  FALSE
    <3>1. Below(a) \in SUBSET Below(b) /\ b \in Below(b) /\ b \notin Below(a)
      <4>1. \A x \in N : x \in Nat
        OBVIOUS
      <4>2. \A x \in N : x <= a => x <= b
        BY <2>1, <4>1
      <4>3. b <= b /\ ~(b <= a)
        BY <2>1, <4>1
      <4> QED BY <4>2, <4>3
    <3>2. Below(a) = Below(b)
      BY <1>2, <2>1, <3>1, FS_Subset
    <3> QED BY <3>1, <3>2
  <2>2. Cardinality(Below(i)) = Cardinality(Below(j))
    BY <1>3
  <2>3. i \in Nat /\ j \in Nat
    OBVIOUS
  <2> QED BY <2>1, <2>2, <2>3
<1>4. IsFiniteSet(1 .. n) /\ Cardinality(1 .. n) = n
  BY <1>1, FS_Interval
<1>5. rank \in Injection(N, 1 .. n)
  BY <1>2, <1>3 DEF Injection, IsInjective
<1>6. rank \in Surjection(N, 1 .. n)
  BY <1>4, <1>5, FS_Injection
<1>7. \A k \in 1 .. n : \E i \in N : Cardinality(Below(i)) = k
  BY <1>6 DEF Surjection
<1>8. \A k \in 1 .. n : Kth(N, k) \in N /\ Cardinality(Below(Kth(N, k))) = k
  BY <1>7 DEF Kth
<1>9. ASSUME NEW i \in N PROVE \E k \in 1 .. n : Kth(N, k) = i
  <2>1. Cardinality(Below(i)) \in 1 .. n
    BY <1>2
  <2>2. Kth(N, Cardinality(Below(i))) = i
    BY <1>3, <1>8, <2>1
  <2> QED BY <2>1, <2>2
<1> QED BY <1>1, <1>8, <1>9

\* Removed leaves exactly the entries other than x.
LEMMA RemovedProperties ==
  ASSUME NEW X, NEW v \in Seq(X), NEW x
  PROVE  /\ Removed(v, x) \in Seq(X) /\ Len(Removed(v, x)) <= Len(v)
         /\ \A k \in DOMAIN Removed(v, x) :
              Removed(v, x)[k] # x /\ \E i \in DOMAIN v : v[i] = Removed(v, x)[k]
         /\ \A i \in DOMAIN v :
              v[i] # x => \E k \in DOMAIN Removed(v, x) : Removed(v, x)[k] = v[i]
<1> DEFINE kept == {i \in DOMAIN v : v[i] # x}
           n == Cardinality(kept)
           r == Removed(v, x)
<1>1. DOMAIN v = 1 .. Len(v) /\ Len(v) \in Nat
  OBVIOUS
<1>2. kept \in SUBSET Nat /\ IsFiniteSet(kept) /\ n \in Nat /\ n <= Len(v)
  <2>1. IsFiniteSet(1 .. Len(v)) /\ Cardinality(1 .. Len(v)) = Len(v)
    BY <1>1, FS_Interval
  <2> QED BY <1>1, <2>1, FS_Subset, FS_CardinalityType
<1>3. /\ \A k \in 1 .. n : Kth(kept, k) \in kept
      /\ \A i \in kept : \E k \in 1 .. n : Kth(kept, k) = i
  <2> HIDE DEF kept
  <2> QED BY <1>2, KthElement
<1>4. r = [k \in 1 .. n |-> v[Kth(kept, k)]]
  BY DEF Removed
<1>5. r \in Seq(X) /\ Len(r) = n /\ DOMAIN r = 1 .. n
  <2>1. \A k \in 1 .. n : v[Kth(kept, k)] \in X
    BY <1>3
  <2> HIDE DEF r, n
  <2> QED BY <1>2, <1>4, <2>1
<1>6. \A k \in 1 .. n : r[k] # x /\ \E i \in DOMAIN v : v[i] = r[k]
  BY <1>3, <1>4
<1>7. ASSUME NEW i \in DOMAIN v, v[i] # x PROVE \E k \in 1 .. n : r[k] = v[i]
  BY <1>3, <1>4, <1>7
<1> QED BY <1>2, <1>5, <1>6, <1>7

-----------------------------------------------------------------------------
(* Remainders. *)

LEMMA Division ==
  ASSUME NEW n \in Nat \ {0}, NEW x \in Nat
  PROVE  /\ x % n \in 0 .. n - 1 /\ x \div n \in Nat
         /\ x = n * (x \div n) + (x % n)
<1>1. x % n \in 0 .. n - 1
  OBVIOUS
<1>2. x \div n \in Int /\ x \div n >= 0
  OBVIOUS
<1>3. x = n * (x \div n) + (x % n)
  OBVIOUS
<1> QED BY <1>1, <1>2, <1>3

\* The only multiple of n less than n away from 0 is 0.
LEMMA SmallMultiple ==
  ASSUME NEW n \in Nat \ {0}, NEW k \in Int, NEW r \in Int, r = n * k, -n < r, r < n
  PROVE  r = 0
<1>1. k <= -1 => n * k <= -n
  OBVIOUS
<1>2. k >= 1 => n * k >= n
  OBVIOUS
<1> QED BY <1>1, <1>2

\* Adding y to x adds y to the remainder too, as long as it does not wrap.
LEMMA NoWrap ==
  ASSUME NEW n \in Nat \ {0}, NEW x \in Nat, NEW y \in Nat, (x % n) + y < n
  PROVE  (x + y) % n = (x % n) + y
<1> DEFINE r == (x + y) % n
           q == (x + y) \div n
           s == x % n
           t == x \div n
<1>1. r \in 0 .. n - 1 /\ q \in Nat /\ x + y = n * q + r
  BY Division
<1>2. s \in 0 .. n - 1 /\ t \in Nat /\ x = n * t + s
  BY Division
<1>3. s + y < n
  OBVIOUS
<1> HIDE DEF r, q, s, t
<1>4. r - (s + y) = n * (t - q)
  BY <1>1, <1>2
<1>5. r - (s + y) = 0
  BY <1>1, <1>2, <1>3, <1>4, SmallMultiple
<1> QED BY <1>1, <1>2, <1>5 DEF r, s

LEMMA SameRemainder ==
  ASSUME NEW n \in Nat \ {0}, NEW x \in Nat, NEW y \in Nat, x % n = y % n
  PROVE  \E k \in Int : x - y = n * k
<1>1. x \div n \in Nat /\ x % n \in 0 .. n - 1 /\ x = n * (x \div n) + (x % n)
  BY Division
<1>2. y \div n \in Nat /\ y = n * (y \div n) + (y % n)
  BY Division
<1> DEFINE a == x \div n
           b == y \div n
           c == x % n
<1>3. a \in Nat /\ b \in Nat /\ c \in Int /\ x = n * a + c /\ y = n * b + c
  BY <1>1, <1>2
<1> HIDE DEF a, b, c
<1>4. x - y = n * (a - b) /\ a - b \in Int
  BY <1>3
<1> QED BY <1>4

\* 37 is a prime: no number below it divides 37 * d unless it divides d.
LEMMA Prime ==
  ASSUME NEW n \in 1 .. 36, NEW d \in 1 .. n - 1, NEW k \in Int
  PROVE  37 * 37 * d # n * k
<1>1. d \in Int /\ 0 < d /\ d < n
  OBVIOUS
<1> QED BY <1>1, SMTT(60)

\* Steps of 37 * 37 visit every index of a vector of fewer than 37 entries.
LEMMA PortsSpreadIndexes ==
  ASSUME NEW n \in 1 .. 36, NEW c \in Nat, NEW p \in Nat
  PROVE  \A i \in 1 .. n : \E q \in p .. p + n - 1 : 1 + ((c + q * 37 * 37) % n) = i
<1> DEFINE block == p .. p + n - 1
           f == [q \in block |-> 1 + ((c + q * 37 * 37) % n)]
<1>1. n \in Nat \ {0} /\ \A q \in block : q \in Nat /\ c + q * 37 * 37 \in Nat
  OBVIOUS
<1>2. ASSUME NEW q \in block PROVE f[q] \in 1 .. n
  <2>1. (c + q * 37 * 37) % n \in 0 .. n - 1
    BY <1>1, Division
  <2> QED BY <1>1, <2>1
<1>3. ASSUME NEW q \in block, NEW r \in block, r < q PROVE f[q] # f[r]
  <2> SUFFICES ASSUME f[q] = f[r] PROVE FALSE
    OBVIOUS
  <2>1. (c + q * 37 * 37) % n = (c + r * 37 * 37) % n
    <3>1. (c + q * 37 * 37) % n \in Nat /\ (c + r * 37 * 37) % n \in Nat
      BY <1>1, Division
    <3> QED BY <3>1
  <2>2. PICK k \in Int : (c + q * 37 * 37) - (c + r * 37 * 37) = n * k
    BY <1>1, <2>1, SameRemainder
  <2>3. q - r \in 1 .. n - 1 /\ 37 * 37 * (q - r) = n * k
    BY <1>1, <1>3, <2>2
  <2> QED BY <2>3, Prime
<1>4. f \in Injection(block, 1 .. n)
  <2>1. \A q, r \in block : f[q] = f[r] => q = r
    BY <1>1, <1>3
  <2> HIDE DEF block
  <2>2. f \in [block -> 1 .. n]
    BY <1>2
  <2> HIDE DEF f
  <2> QED BY <2>1, <2>2 DEF Injection, IsInjective
<1>5. IsFiniteSet(1 .. n) /\ Cardinality(1 .. n) = n /\ IsFiniteSet(block) /\ Cardinality(block) = n
  <2>1. 1 \in Int /\ n \in Int /\ p \in Int /\ p + n - 1 \in Int
    OBVIOUS
  <2>2. p <= p + n - 1 /\ (p + n - 1) - p + 1 = n
    OBVIOUS
  <2> QED BY <2>1, <2>2, FS_Interval
<1>6. f \in Surjection(block, 1 .. n)
  <2> HIDE DEF f, block
  <2> QED BY <1>4, <1>5, FS_Injection
<1> QED BY <1>6 DEF Surjection

-----------------------------------------------------------------------------
(* The inductive invariant: the types of the variables. *)

Inv == hash \in [Addresses -> AddressHashes] /\ backends_ \in Seq(Names)

LEMMA Configuration ==
  ASSUME ConstantsOK PROVE Config \in Seq(Names) /\ Names \subseteq Backends
<1>1. Config \in Seq(Backends)
  BY DEF ConstantsOK
<1>2. \A i \in 1 .. Len(Config) : Config[i] \in Names
  BY <1>1 DEF Names
<1> QED BY <1>1, <1>2 DEF Names

LEMMA ExcludeShrinks ==
  ASSUME backends_ \in Seq(Names), NEW b, ExcludeBackend(b)
  PROVE  backends_' \in Seq(Names) /\ InRotation' = InRotation \ {b}
<1>1. Removed(backends_, b) \in Seq(Names)
  BY RemovedProperties
<1>2. /\ \A k \in DOMAIN Removed(backends_, b) :
           /\ Removed(backends_, b)[k] # b
           /\ \E i \in DOMAIN backends_ : backends_[i] = Removed(backends_, b)[k]
      /\ \A i \in DOMAIN backends_ :
           backends_[i] # b =>
             \E k \in DOMAIN Removed(backends_, b) : Removed(backends_, b)[k] = backends_[i]
  BY RemovedProperties
<1>3. backends_' = Removed(backends_, b)
  BY DEF ExcludeBackend
<1>4. InRotation' = InRotation \ {b}
  BY <1>2, <1>3 DEF InRotation
<1> QED BY <1>1, <1>3, <1>4

LEMMA Invariant == ASSUME ConstantsOK PROVE Spec => []Inv
<1>1. Init => Inv
  BY Configuration DEF Init, Inv
<1>2. Inv /\ [Next]_vars => Inv'
  <2> SUFFICES ASSUME Inv, [Next]_vars PROVE Inv'
    OBVIOUS
  <2>1. ASSUME NEW b \in Names, ExcludeBackend(b) PROVE Inv'
    BY <2>1, ExcludeShrinks DEF Inv, ExcludeBackend
  <2>2. CASE UNCHANGED <<hash, backends_>>
    BY <2>2 DEF Inv
  <2> QED BY <2>1, <2>2 DEF Next, SelectBackend, SelectUndefined, vars
<1> QED BY <1>1, <1>2, PTL DEF Spec

-----------------------------------------------------------------------------
(* How far one address is from having one backend *)

\* The port wraps the hash of none of these endpoints around.
Unwrapped(e) == ((hash[e[1]] * 37) % HashValues) + e[2] * 37 * 37 < HashValues

\* The connections of one address are not kept together: any consecutive ports
\* of it, as many as there are backends in rotation, are spread over all of them,
\* for 37 is a prime and no number of backends below it has a factor in common.
PortsSpread ==
  \A a \in Addresses, p \in Ports :
    LET block == {a} \X (p .. p + Len(backends_) - 1) IN
    Len(backends_) < 37 /\ block \subseteq Endpoint /\ (\A e \in block : Unwrapped(e))
      => {Home(e) : e \in block} = InRotation

-----------------------------------------------------------------------------
(* Theorems *)

\* SelectBackend leads as many consecutive ports of one address as there are
\* backends in rotation to all of them, whatever the hash of the address, as
\* long as there are fewer than 37 and the sum does not wrap.
THEOREM PortsAreSpread == ASSUME ConstantsOK PROVE Spec => []PortsSpread
<1> DEFINE n == Len(backends_)
<1>1. ASSUME Inv, NEW a \in Addresses, NEW p \in Ports, n < 37,
             {a} \X (p .. p + n - 1) \subseteq Endpoint,
             \A e \in {a} \X (p .. p + n - 1) : Unwrapped(e)
      PROVE  {Home(e) : e \in {a} \X (p .. p + n - 1)} = InRotation
  <2> DEFINE c == (hash[a] * 37) % HashValues
  <2>1. p \in Nat /\ n \in Nat /\ hash[a] \in Nat /\ HashValues \in Nat \ {0}
        /\ DOMAIN backends_ = 1 .. n
    <3>1. hash[a] \in AddressHashes /\ backends_ \in Seq(Names)
      BY <1>1 DEF Inv
    <3>2. n \in Nat /\ DOMAIN backends_ = 1 .. n
      BY <3>1
    <3> QED BY <3>1, <3>2 DEF ConstantsOK
  <2>2. c \in Nat
    <3>1. hash[a] * 37 \in Nat
      BY <2>1
    <3>2. (hash[a] * 37) % HashValues \in 0 .. HashValues - 1
      BY <2>1, <3>1, Division
    <3> QED BY <2>1, <3>2
  <2>3. ASSUME NEW q \in p .. p + n - 1
        PROVE  Home(<<a, q>>) = backends_[1 + ((c + q * 37 * 37) % n)]
    <3>1. Unwrapped(<<a, q>>)
      BY <1>1
    <3>2. c + q * 37 * 37 < HashValues
      BY <3>1 DEF Unwrapped
    <3>3. hash[a] * 37 \in Nat /\ q * 37 * 37 \in Nat
      BY <2>1
    <3>4. (hash[a] * 37 + q * 37 * 37) % HashValues = c + q * 37 * 37
      BY <2>1, <3>2, <3>3, NoWrap
    <3> QED BY <3>4 DEF Home, ComputeHash
  <2>4. CASE n = 0
    BY <2>1, <2>4 DEF InRotation
  <2>5. CASE n # 0
    <3>1. n \in 1 .. 36 /\ n \in Nat \ {0}
      <4> HIDE DEF n
      <4> QED BY <1>1, <2>1, <2>5
    <3>2. \A i \in 1 .. n : \E q \in p .. p + n - 1 : 1 + ((c + q * 37 * 37) % n) = i
      <4> HIDE DEF c, n
      <4> QED BY <2>1, <2>2, <3>1, PortsSpreadIndexes, ZenonT(60)
    <3>3. \A q \in p .. p + n - 1 : 1 + ((c + q * 37 * 37) % n) \in 1 .. n
      <4> SUFFICES ASSUME NEW q \in p .. p + n - 1 PROVE 1 + ((c + q * 37 * 37) % n) \in 1 .. n
        OBVIOUS
      <4>1. c + q * 37 * 37 \in Nat
        BY <2>1, <2>2
      <4>2. (c + q * 37 * 37) % n \in 0 .. n - 1
        <5> HIDE DEF c, n
        <5> QED BY <3>1, <4>1, Division
      <4> QED BY <2>1, <4>2
    <3>4. ASSUME NEW e \in {a} \X (p .. p + n - 1) PROVE Home(e) \in InRotation
      <4>1. PICK q \in p .. p + n - 1 : e = <<a, q>>
        OBVIOUS
      <4> QED BY <2>1, <2>3, <3>3, <4>1 DEF InRotation
    <3>5. ASSUME NEW i \in DOMAIN backends_
          PROVE  \E e \in {a} \X (p .. p + n - 1) : Home(e) = backends_[i]
      <4>1. PICK q \in p .. p + n - 1 : 1 + ((c + q * 37 * 37) % n) = i
        BY <2>1, <3>2
      <4>2. Home(<<a, q>>) = backends_[i] /\ <<a, q>> \in {a} \X (p .. p + n - 1)
        BY <2>3, <4>1
      <4> QED BY <4>2
    <3> QED BY <3>4, <3>5 DEF InRotation
  <2> QED BY <2>4, <2>5
<1>2. Inv => PortsSpread
  BY <1>1 DEF PortsSpread
<1> QED BY Invariant, <1>2, PTL

\* The selector does what ISelector promises: it answers with a backend in
\* rotation, and the exclusion of the last backend, and of no other, throws.
THEOREM IpHashImplementsSelector == ASSUME ConstantsOK PROVE Spec => ImplementsSelector
<1>1. Init => S!Init
  BY Configuration DEF Init, S!Init, InRotation, S!None
<1>2. Inv /\ [Next]_vars => [S!Next]_(S!vars)
  <2> SUFFICES ASSUME Inv, [Next]_vars PROVE [S!Next]_(S!vars)
    OBVIOUS
  <2>1. ASSUME Next, NEW e \in Endpoint, SelectBackend(e) PROVE S!Next
    <3>1. InRotation' = InRotation
      BY <2>1 DEF SelectBackend, InRotation
    <3>2. Home(e) \in InRotation
      <4>1. backends_ # <<>> /\ backends_ \in Seq(Names) /\ Len(backends_) \in Nat \ {0}
        BY <2>1 DEF SelectBackend, Inv
      <4>2. hash[e[1]] \in Nat /\ e[2] \in Nat /\ HashValues \in Nat \ {0}
        BY DEF ConstantsOK, Inv, Endpoint
      <4>3. hash[e[1]] * 37 + e[2] * 37 * 37 \in Nat
        BY <4>2
      <4>4. ComputeHash(e) \in Nat
        <5>1. (hash[e[1]] * 37 + e[2] * 37 * 37) % HashValues \in 0 .. HashValues - 1
          BY <4>2, <4>3, Division
        <5> QED BY <4>2, <5>1 DEF ComputeHash
      <4>5. ComputeHash(e) % Len(backends_) \in 0 .. Len(backends_) - 1
        BY <4>1, <4>4, Division
      <4>6. 1 + (ComputeHash(e) % Len(backends_)) \in DOMAIN backends_
        BY <4>1, <4>5
      <4> QED BY <4>6 DEF Home, InRotation
    <3> QED BY <2>1, <3>1, <3>2 DEF SelectBackend, Next, S!Next, S!SelectBackend
  <2>2. CASE Next /\ SelectUndefined
    <3>1. InRotation = {} /\ InRotation' = InRotation
      BY <2>2 DEF SelectUndefined, InRotation
    <3> QED BY <2>2, <3>1 DEF SelectUndefined, Next, S!Next, S!SelectFromNone
  <2>3. ASSUME Next, NEW b \in Names, ExcludeBackend(b) PROVE S!Next
    <3>1. InRotation' = InRotation \ {b} /\ backends_' \in Seq(Names)
      BY <2>3, ExcludeShrinks DEF Inv
    <3>2. backends_' = <<>> <=> InRotation' = {}
      BY <3>1 DEF InRotation
    <3>3. b \in Backends
      BY Configuration
    <3>4. S!ExcludeBackend(b)
      BY <2>3, <3>1, <3>2 DEF ExcludeBackend, S!ExcludeBackend
    <3> QED BY <2>3, <3>3, <3>4 DEF Next, S!Next
  <2>4. CASE UNCHANGED vars
    BY <2>4 DEF vars, S!vars, InRotation
  <2> QED BY <2>1, <2>2, <2>3, <2>4 DEF Next
<1> QED BY Invariant, <1>1, <1>2, PTL DEF Spec, ImplementsSelector, S!Spec
=============================================================================
