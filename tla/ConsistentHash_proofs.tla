------------------------ MODULE ConsistentHash_proofs ------------------------
(***************************************************************************)
(* Theorems of ConsistentHash for every configuration, every number of     *)
(* replicas and every hash function.                                       *)
(***************************************************************************)
EXTENDS ConsistentHash, WellFoundedInduction, TLAPS

-----------------------------------------------------------------------------
(* Least and greatest numbers. *)

LEMMA LeastElement ==
  ASSUME NEW N \in SUBSET Nat, N # {}
  PROVE  \E x \in N : \A y \in N : x <= y
<1> DEFINE R == {ss \in Nat \X Nat : ss[1] < ss[2]}
<1>1. IsWellFoundedOn(R, Nat)
  BY NatLessThanWellFounded DEF OpToRel
<1>2. \E x \in N : \A y \in N : ~(<<y, x>> \in R)
  <2> HIDE DEF R
  <2> QED BY <1>1, WFMin
<1>3. PICK x \in N : \A y \in N : ~(<<y, x>> \in R)
  BY <1>2
<1>4. ASSUME NEW y \in N PROVE x <= y
  <2>1. x \in Nat /\ y \in Nat /\ ~(<<y, x>> \in R)
    BY <1>3
  <2>2. ~(y < x)
    BY <2>1
  <2> QED BY <2>1, <2>2
<1> QED BY <1>4

LEMMA MinProperties ==
  ASSUME NEW N \in SUBSET Nat, N # {}
  PROVE  Min(N) \in N /\ \A y \in N : Min(N) <= y
BY LeastElement DEF Min

\* The minimum of a set is that of every part it belongs to.
LEMMA MinOfPart ==
  ASSUME NEW N \in SUBSET Nat, NEW M \in SUBSET N, Min(N) \in M
  PROVE  Min(M) = Min(N)
<1>1. M # {} /\ N # {} /\ M \in SUBSET Nat
  OBVIOUS
<1>2. Min(M) \in M /\ Min(M) <= Min(N)
  BY <1>1, MinProperties
<1>3. Min(N) <= Min(M) /\ Min(N) \in Nat /\ Min(M) \in Nat
  BY <1>1, <1>2, MinProperties
<1> QED BY <1>2, <1>3

LEMMA MaxProperties ==
  ASSUME NEW l \in Nat, NEW N \in SUBSET (1 .. l), N # {}
  PROVE  Max(N) \in N /\ \A y \in N : y <= Max(N)
<1> DEFINE M == {l - x : x \in N}
<1>1. M \in SUBSET Nat /\ M # {}
  <2>1. \A x \in N : x \in 1 .. l /\ l - x \in Nat
    OBVIOUS
  <2> QED BY <2>1
<1>2. PICK m \in M : \A y \in M : m <= y
  BY <1>1, LeastElement
<1>3. PICK x \in N : m = l - x
  BY <1>2
<1>4. ASSUME NEW y \in N PROVE x >= y
  <2>1. l - x <= l - y /\ x \in 1 .. l /\ y \in 1 .. l
    BY <1>2, <1>3
  <2> QED BY <2>1
<1>5. Max(N) \in N /\ \A y \in N : Max(N) >= y
  BY <1>4 DEF Max
<1> QED BY <1>5

-----------------------------------------------------------------------------
(* The inductive invariant. *)

\* An entry is a hash of its node's name or of a replica of it, and its node is
\* the last one listed under that name.
EntriesOfLast ==
  \A h \in DOMAIN ring_ :
    /\ h \in ReplicasOf(ring_[h])
    /\ \A m \in Node : config[m] = config[ring_[h]] => m <= ring_[h]

\* A name with an entry on the ring has the entry EraseNode looks for.
NamesOnRing ==
  NamesApart => \A h \in DOMAIN ring_ : HashOf(config[ring_[h]]) \in DOMAIN ring_

\* A node of the list has the entry of its name.
ListOnRing ==
  NoDuplicates /\ NamesApart =>
    \A n \in physical_nodes_ : HashOf(config[n]) \in DOMAIN ring_

Inv == TypeOK /\ EntriesOfLast /\ NamesOnRing /\ ListOnRing

LEMMA Configuration ==
  ASSUME config \in Configs, hash \in Hashings
  PROVE  /\ config \in Seq(Backends) /\ Node = 1 .. Len(config) /\ Len(config) \in Nat
         /\ Names \subseteq Backends /\ \A n \in Node : config[n] \in Names
         /\ \A n \in Node : ReplicasOf(n) \subseteq Hashes /\ HashOf(config[n]) \in ReplicasOf(n)
         /\ \A b \in Names : HashOf(b) \in Hashes
<1>1. config \in Seq(Backends) /\ Replicas \in Nat \ {0} /\ hash \in [Keys -> Hashes]
  BY ConfigAssumption
<1>2. Node = 1 .. Len(config) /\ Len(config) \in Nat
  BY <1>1 DEF Node
<1>3. \A n \in Node : config[n] \in Names /\ config[n] \in Backends
  BY <1>1, <1>2 DEF Names
<1>4. Names \subseteq Backends
  BY <1>3 DEF Names
<1>5. 0 \in 0 .. Replicas - 1
  BY <1>1
<1>6. \A b \in Backends, i \in 0 .. Replicas - 1 : hash[<<b, i>>] \in Hashes
  BY <1>1 DEF Keys
<1>7. \A n \in Node : ReplicasOf(n) \subseteq Hashes /\ HashOf(config[n]) \in ReplicasOf(n)
  BY <1>3, <1>5, <1>6 DEF ReplicasOf, HashOf
<1>8. \A b \in Names : HashOf(b) \in Hashes
  BY <1>4, <1>5, <1>6 DEF HashOf
<1> QED BY <1>1, <1>2, <1>3, <1>4, <1>7, <1>8

\* The node found under the hash of a name has that name.
LEMMA FoundHasName ==
  ASSUME TypeOK, EntriesOfLast, NamesApart, NEW b \in Names, HashOf(b) \in DOMAIN ring_
  PROVE  ring_[HashOf(b)] \in Node /\ config[ring_[HashOf(b)]] = b
<1>1. ring_[HashOf(b)] \in Node /\ HashOf(b) \in ReplicasOf(ring_[HashOf(b)])
  BY DEF TypeOK, EntriesOfLast
<1>2. config[ring_[HashOf(b)]] \in Names
  BY <1>1, Configuration DEF TypeOK
<1> QED BY <1>1, <1>2 DEF NamesApart, ReplicasOf, HashOf

\* It is the only node with that name on the ring.
LEMMA OneNodePerName ==
  ASSUME TypeOK, EntriesOfLast, NamesApart, NEW b \in Names, HashOf(b) \in DOMAIN ring_,
         NEW h \in DOMAIN ring_, config[ring_[h]] = b
  PROVE  ring_[h] = ring_[HashOf(b)]
<1>1. ring_[h] \in Node /\ ring_[HashOf(b)] \in Node /\ config[ring_[HashOf(b)]] = b
  BY FoundHasName DEF TypeOK
<1>2. ring_[h] <= ring_[HashOf(b)] /\ ring_[HashOf(b)] <= ring_[h]
  BY <1>1 DEF EntriesOfLast
<1>3. ring_[h] \in Nat /\ ring_[HashOf(b)] \in Nat
  BY <1>1, Configuration DEF TypeOK
<1> QED BY <1>2, <1>3

LEMMA InvInit == Init => Inv
<1> SUFFICES ASSUME Init PROVE Inv
  OBVIOUS
<1> DEFINE Homes(h) == {n \in Node : h \in ReplicasOf(n)}
<1>1. /\ config \in Configs /\ hash \in Hashings /\ physical_nodes_ = Node
      /\ ring_ = [h \in UNION {ReplicasOf(n) : n \in Node} |-> Max(Homes(h))]
  BY DEF Init
<1>2. \A h \in DOMAIN ring_ : /\ ring_[h] \in Node /\ h \in ReplicasOf(ring_[h])
                              /\ \A m \in Node : h \in ReplicasOf(m) => m <= ring_[h]
  <2> SUFFICES ASSUME NEW h \in DOMAIN ring_
               PROVE  /\ ring_[h] \in Node /\ h \in ReplicasOf(ring_[h])
                      /\ \A m \in Node : h \in ReplicasOf(m) => m <= ring_[h]
    OBVIOUS
  <2>1. Homes(h) \in SUBSET (1 .. Len(config)) /\ Homes(h) # {} /\ Len(config) \in Nat
    BY <1>1, Configuration
  <2>2. Max(Homes(h)) \in Homes(h) /\ \A m \in Homes(h) : m <= Max(Homes(h))
    <3> HIDE DEF Homes
    <3> QED BY <2>1, MaxProperties
  <2> QED BY <1>1, <2>2
<1>3. \A n \in Node : ReplicasOf(n) \subseteq DOMAIN ring_
  BY <1>1
<1>4. TypeOK
  <2>1. DOMAIN ring_ \subseteq Hashes
    BY <1>1, Configuration
  <2>2. ring_ \in [DOMAIN ring_ -> physical_nodes_]
    BY <1>1, <1>2
  <2> QED BY <1>1, <2>1, <2>2 DEF TypeOK
<1>5. EntriesOfLast
  <2> SUFFICES ASSUME NEW h \in DOMAIN ring_, NEW m \in Node, config[m] = config[ring_[h]]
               PROVE  m <= ring_[h]
    BY <1>2 DEF EntriesOfLast
  <2>1. ReplicasOf(m) = ReplicasOf(ring_[h])
    BY DEF ReplicasOf
  <2> QED BY <1>2, <2>1
<1>6. \A n \in Node : HashOf(config[n]) \in DOMAIN ring_
  BY <1>1, <1>3, Configuration
<1>7. NamesOnRing /\ ListOnRing
  BY <1>1, <1>2, <1>6 DEF NamesOnRing, ListOnRing
<1> QED BY <1>4, <1>5, <1>7 DEF Inv

-----------------------------------------------------------------------------
(* EraseNode takes a node and all its entries, or nothing. *)

LEMMA Erased ==
  ASSUME Inv, NEW b \in Names, ExcludeBackend(b)
  PROVE  /\ config' = config /\ hash' = hash
         /\ \/ /\ HashOf(b) \notin DOMAIN ring_
               /\ UNCHANGED <<ring_, physical_nodes_>>
            \/ /\ HashOf(b) \in DOMAIN ring_
               /\ physical_nodes_' = physical_nodes_ \ {ring_[HashOf(b)]}
               /\ DOMAIN ring_' = {h \in DOMAIN ring_ : ring_[h] # ring_[HashOf(b)]}
               /\ \A h \in DOMAIN ring_' : ring_'[h] = ring_[h]
               /\ ring_' = [h \in DOMAIN ring_' |-> ring_[h]]
BY DEF ExcludeBackend, EraseNode, WithoutNode, configVars

\* Of the names apart, the entries that go are those of the backend's name.
LEMMA ErasedByName ==
  ASSUME Inv, NamesApart, NEW b \in Names, ExcludeBackend(b)
  PROVE  /\ DOMAIN ring_' = {h \in DOMAIN ring_ : config[ring_[h]] # b}
         /\ \A h \in DOMAIN ring_' : ring_'[h] = ring_[h]
<1>1. CASE HashOf(b) \notin DOMAIN ring_
  <2>1. \A h \in DOMAIN ring_ : config[ring_[h]] # b
    BY <1>1 DEF Inv, NamesOnRing
  <2> QED BY <1>1, <2>1, Erased
<1>2. CASE HashOf(b) \in DOMAIN ring_
  <2>1. \A h \in DOMAIN ring_ : config[ring_[h]] = b <=> ring_[h] = ring_[HashOf(b)]
    BY <1>2, FoundHasName, OneNodePerName DEF Inv
  <2> QED BY <1>2, <2>1, Erased
<1> QED BY <1>1, <1>2

LEMMA ExcludeKeeps == ASSUME Inv, NEW b \in Names, ExcludeBackend(b) PROVE Inv'
<1>1. config' = config /\ hash' = hash /\ Node' = Node
  BY Erased DEF Node
<1>2. /\ DOMAIN ring_' \subseteq DOMAIN ring_
      /\ \A h \in DOMAIN ring_' : ring_'[h] = ring_[h]
      /\ physical_nodes_' \subseteq physical_nodes_
  BY Erased
<1>3. ring_' \in [DOMAIN ring_' -> physical_nodes_']
  <2>1. ring_' = [h \in DOMAIN ring_' |-> ring_'[h]]
    BY Erased DEF Inv, TypeOK
  <2>2. \A h \in DOMAIN ring_' : ring_'[h] \in physical_nodes_'
    BY Erased DEF Inv, TypeOK
  <2> QED BY <2>1, <2>2
<1>4. TypeOK'
  BY <1>1, <1>2, <1>3 DEF Inv, TypeOK
<1>5. \A n : ReplicasOf(n)' = ReplicasOf(n)
  BY <1>1 DEF ReplicasOf
<1>6. EntriesOfLast'
  BY <1>1, <1>2, <1>5 DEF Inv, EntriesOfLast
<1>7. (NamesApart' <=> NamesApart) /\ (NoDuplicates' <=> NoDuplicates) /\ Names' = Names
  BY <1>1 DEF NamesApart, NoDuplicates, Names, Node
<1>8. NamesOnRing'
  <2> SUFFICES ASSUME NamesApart, NEW h \in DOMAIN ring_'
               PROVE  HashOf(config[ring_[h]]) \in DOMAIN ring_'
    BY <1>1, <1>2, <1>7 DEF NamesOnRing, HashOf
  <2> DEFINE c == config[ring_[h]]
  <2>1. h \in DOMAIN ring_ /\ c # b
    BY ErasedByName
  <2>2. ring_[h] \in Node /\ c \in Names
    BY <2>1, Configuration DEF Inv, TypeOK
  <2>3. HashOf(c) \in DOMAIN ring_
    BY <2>1 DEF Inv, NamesOnRing
  <2>4. config[ring_[HashOf(c)]] = c
    BY <2>2, <2>3, FoundHasName DEF Inv
  <2> QED BY <2>1, <2>3, <2>4, ErasedByName
<1>9. ListOnRing'
  <2> SUFFICES ASSUME NoDuplicates, NamesApart, NEW n \in physical_nodes_'
               PROVE  HashOf(config[n]) \in DOMAIN ring_'
    BY <1>1, <1>7 DEF ListOnRing, HashOf
  <2>1. n \in physical_nodes_ /\ n \in Node /\ config[n] \in Names
    BY <1>2, Configuration DEF Inv, TypeOK
  <2>2. HashOf(config[n]) \in DOMAIN ring_
    BY <2>1 DEF Inv, ListOnRing
  <2>3. config[ring_[HashOf(config[n])]] = config[n]
    BY <2>1, <2>2, FoundHasName DEF Inv
  <2>4. config[n] # b
    <3> SUFFICES ASSUME config[n] = b PROVE FALSE
      OBVIOUS
    <3>1. ring_[HashOf(b)] \in Node /\ config[ring_[HashOf(b)]] = b
      BY <2>2, FoundHasName DEF Inv
    <3>2. ring_[HashOf(b)] = n
      BY <2>1, <3>1 DEF NoDuplicates
    <3>3. ring_[HashOf(b)] \notin physical_nodes_'
      BY <2>2, Erased
    <3> QED BY <3>2, <3>3
  <2> QED BY <2>2, <2>3, <2>4, ErasedByName
<1> QED BY <1>4, <1>6, <1>8, <1>9 DEF Inv

LEMMA InvNext == Inv /\ [Next]_vars => Inv'
<1> SUFFICES ASSUME Inv, [Next]_vars PROVE Inv'
  OBVIOUS
<1>1. ASSUME NEW b \in Names, ExcludeBackend(b) PROVE Inv'
  BY <1>1, ExcludeKeeps
<1>2. CASE UNCHANGED <<configVars, ring_, physical_nodes_>>
  BY <1>2 DEF Inv, TypeOK, EntriesOfLast, NamesOnRing, ListOnRing, NamesApart, NoDuplicates,
              Names, Node, ReplicasOf, HashOf, configVars
<1> QED BY <1>1, <1>2 DEF Next, SelectBackend, SelectThrows, SelectUndefined, vars, configVars

LEMMA Invariant == Spec => []Inv
BY InvInit, InvNext, PTL DEF Spec

-----------------------------------------------------------------------------
(* Theorems *)

\* EraseNode leaves no entry of the ring that leads to a node out of the list,
\* whatever the endpoints and however their hashes collide: SelectNode never
\* follows an iterator to a freed element.
THEOREM TypeCorrect == Spec => []TypeOK
<1>1. Inv => TypeOK
  BY DEF Inv
<1> QED BY Invariant, <1>1, PTL

\* EraseNode of a backend leads only the clients of that backend elsewhere.
THEOREM DisruptionIsMinimal == Spec => MinimalDisruption
<1>1. ASSUME Inv, NEW b \in Names, NEW h \in Hashes, NamesApart, ExcludeBackend(b),
             DOMAIN ring_ # {}, SelectNode(h) # b
      PROVE  DOMAIN ring_' # {} /\ SelectNode(h)' = SelectNode(h)
  <2> DEFINE k == Successor(h)
             after == {j \in DOMAIN ring_ : j >= h}
  <2>1. DOMAIN ring_ \subseteq Nat
    BY ConfigAssumption, <1>1 DEF Inv, TypeOK
  <2>2. k \in DOMAIN ring_
    BY <1>1, <2>1, MinProperties DEF Successor
  <2>3. DOMAIN ring_' \subseteq DOMAIN ring_ /\ k \in DOMAIN ring_' /\ ring_'[k] = ring_[k]
    BY <1>1, <2>2, ErasedByName DEF SelectNode
  <2>4. Successor(h)' = k
    <3>1. after' = {j \in DOMAIN ring_' : j >= h} /\ after' \subseteq after
      BY <2>3
    <3>2. CASE after # {}
      <4>1. k = Min(after) /\ k \in after
        BY <2>1, <3>2, MinProperties DEF Successor
      <4>2. k \in after'
        BY <2>3, <4>1
      <4>3. Min(after') = Min(after)
        BY <2>1, <3>1, <4>1, <4>2, MinOfPart
      <4> QED BY <3>1, <4>1, <4>2, <4>3 DEF Successor
    <3>3. CASE after = {}
      <4>1. k = Min(DOMAIN ring_) /\ after' = {}
        BY <3>1, <3>3 DEF Successor
      <4>2. Min(DOMAIN ring_') = Min(DOMAIN ring_)
        BY <2>1, <2>3, <4>1, MinOfPart
      <4> QED BY <3>1, <4>1, <4>2 DEF Successor
    <3> QED BY <3>2, <3>3
  <2>5. config' = config
    BY <1>1, Erased
  <2> QED BY <2>3, <2>4, <2>5 DEF SelectNode
<1>2. Inv => \A b \in Names, h \in Hashes :
               NamesApart /\ ExcludeBackend(b) /\ DOMAIN ring_ # {} /\ SelectNode(h) # b
                  => DOMAIN ring_' # {} /\ SelectNode(h)' = SelectNode(h)
  BY <1>1
<1> QED BY Invariant, <1>2, PTL DEF MinimalDisruption

\* EraseNode leaves no entry of a refused backend on the ring, even when its
\* endpoint is listed twice.
THEOREM RefusedLeaves == Spec => RefusedLeavesRing
<1>1. Inv => \A b \in Names :
               ExcludeBackend(b) /\ NamesApart => \A h \in DOMAIN ring_' : config[ring_'[h]] # b
  BY ErasedByName
<1> QED BY Invariant, <1>1, PTL DEF RefusedLeavesRing

\* With no endpoint listed twice and the names' hashes apart the selector does
\* what ISelector promises: the ring never runs out before the list does.
THEOREM ConsistentHashImplementsSelector == Spec => ImplementsSelector
<1>1. Init => S!Init
  <2> SUFFICES ASSUME Init PROVE S!Init
    OBVIOUS
  <2>1. InRotation \subseteq Backends
    BY Configuration DEF Init, InRotation
  <2> QED BY <2>1 DEF Init, S!Init, S!None
<1>2. ASSUME Inv, [Next]_vars, NoDuplicates, NamesApart PROVE [S!Next]_(S!vars)
  <2>1. ASSUME Next, NEW h \in Hashes, SelectBackend(h) PROVE S!Next
    <3>1. InRotation' = InRotation
      BY <2>1 DEF SelectBackend, InRotation, configVars
    <3>2. Successor(h) \in DOMAIN ring_
      <4>1. DOMAIN ring_ \subseteq Nat /\ DOMAIN ring_ # {}
        BY ConfigAssumption, <1>2, <2>1 DEF Inv, TypeOK, SelectBackend
      <4> QED BY <4>1, MinProperties DEF Successor
    <3>3. SelectNode(h) \in InRotation
      BY <1>2, <3>2 DEF Inv, TypeOK, SelectNode, InRotation
    <3> QED BY <2>1, <3>1, <3>3 DEF Next, SelectBackend, S!Next, S!SelectBackend
  <2>2. CASE Next /\ SelectThrows
    <3>1. InRotation = {} /\ InRotation' = InRotation
      BY <2>2 DEF SelectThrows, InRotation, configVars
    <3> QED BY <2>2, <3>1 DEF SelectThrows, Next, S!Next, S!SelectFromNone
  <2>3. ~SelectUndefined
    BY <1>2 DEF SelectUndefined, Inv, ListOnRing
  <2>4. ASSUME Next, NEW b \in Names, ExcludeBackend(b) PROVE S!Next
    <3>1. InRotation' = InRotation \ {b}
      <4>1. config' = config /\ physical_nodes_ \subseteq Node
        BY <1>2, <2>4, Erased DEF Inv, TypeOK
      <4>2. CASE HashOf(b) \notin DOMAIN ring_
        <5>1. b \notin InRotation
          BY <1>2, <4>2 DEF Inv, ListOnRing, InRotation
        <5>2. physical_nodes_' = physical_nodes_
          BY <1>2, <2>4, <4>2, Erased
        <5> QED BY <4>1, <5>1, <5>2 DEF InRotation
      <4>3. CASE HashOf(b) \in DOMAIN ring_
        <5>1. ring_[HashOf(b)] \in Node /\ config[ring_[HashOf(b)]] = b
          BY <1>2, <4>3, FoundHasName DEF Inv
        <5>2. \A n \in physical_nodes_ : config[n] = b <=> n = ring_[HashOf(b)]
          BY <1>2, <4>1, <5>1 DEF NoDuplicates
        <5>3. physical_nodes_' = physical_nodes_ \ {ring_[HashOf(b)]}
          BY <1>2, <2>4, <4>3, Erased
        <5> QED BY <4>1, <5>2, <5>3 DEF InRotation
      <4> QED BY <4>2, <4>3
    <3>2. physical_nodes_' = {} <=> InRotation' = {}
      BY DEF InRotation
    <3>3. b \in Backends
      BY <1>2, Configuration DEF Inv, TypeOK
    <3>4. S!ExcludeBackend(b)
      BY <2>4, <3>1, <3>2 DEF ExcludeBackend, S!ExcludeBackend
    <3> QED BY <2>4, <3>3, <3>4 DEF Next, S!Next
  <2>5. CASE UNCHANGED vars
    BY <2>5 DEF vars, S!vars, InRotation
  <2> QED BY <1>2, <2>1, <2>2, <2>3, <2>4, <2>5 DEF Next
<1> QED BY Invariant, <1>1, <1>2, PTL DEF Spec, ImplementsSelector
=============================================================================
