--------------------------- MODULE ConsistentHash ---------------------------
(***************************************************************************)
(* ConsistentHashSelector (src/lb/tcp/selectors.cpp) on the router of      *)
(* third_party/pumba: a ring, a map from hashes to physical nodes, and the *)
(* list of physical nodes.  Both member functions hold the mutex, so each  *)
(* is one atomic action.                                                   *)
(*                                                                         *)
(* A physical node, an iterator of the list, is the position of its        *)
(* endpoint in the configuration.  std::hash is any function the constant  *)
(* Hashings allows.                                                        *)
(***************************************************************************)
EXTENDS Naturals, Sequences, FiniteSetsExt

CONSTANTS Backends,   \* names of backends: Backend::ToString()
          Configs,    \* "endpoints" lists of the configuration, in order
          Replicas,   \* the "replicas" field
          Hashes,     \* values of the hash
          Hashings    \* the hash functions

\* What is hashed: a name, and the name with "#0" .. "#<Replicas - 2>" behind it.
Keys == Backends \X (0 .. Replicas - 1)

ASSUME ConfigAssumption ==
  /\ Configs \subseteq Seq(Backends) \ {<<>>}
  /\ Replicas \in Nat \ {0}
  /\ Hashes \subseteq Nat
  /\ Hashings \subseteq [Keys -> Hashes]

VARIABLES config,           \* the configuration, which never changes
          hash,             \* the hash function, which never changes
          ring_,            \* hash -> physical node
          physical_nodes_,  \* the list
          answer            \* what the last call returned

configVars == <<config, hash>>
vars == <<config, hash, ring_, physical_nodes_, answer>>

Node == DOMAIN config
Names == {config[n] : n \in Node}
InRotation == {config[n] : n \in physical_nodes_}

\* No endpoint is listed twice.
NoDuplicates == \A m, n \in Node : config[m] = config[n] => m = n

\* The hash of a name is no hash of another endpoint's name or replicas.
NamesApart ==
  \A b, c \in Names, i \in 0 .. Replicas - 1 :
    hash[<<b, 0>>] = hash[<<c, i>>] => b = c

S == INSTANCE Selector WITH alive <- InRotation

\* GetHash of the node and Replicate
ReplicasOf(n) == {hash[<<config[n], i>>] : i \in 0 .. Replicas - 1}

\* EmplaceNode, endpoint after endpoint: SpawnReplicas assigns ring_[h], so of
\* the nodes with hash h the last one inserted keeps it.
Init ==
  /\ config \in Configs /\ hash \in Hashings
  /\ physical_nodes_ = Node
  /\ ring_ = [h \in UNION {ReplicasOf(n) : n \in Node} |->
                Max({n \in Node : h \in ReplicasOf(n)})]
  /\ answer = S!None

-----------------------------------------------------------------------------
\* The entry of the ring a client with hash h is led to: lower_bound, and the
\* first entry when there is none at or after h.
Successor(h) ==
  LET after == {k \in DOMAIN ring_ : k >= h}
  IN  IF after # {} THEN Min(after) ELSE Min(DOMAIN ring_)

SelectNode(h) == config[ring_[Successor(h)]]

SelectBackend(h) ==
  /\ physical_nodes_ # {} /\ DOMAIN ring_ # {}
  /\ answer' = S!Chosen(SelectNode(h))
  /\ UNCHANGED <<configVars, ring_, physical_nodes_>>

\* Empty() asks the list: the router throws "no nodes on the ring".
SelectThrows ==
  /\ physical_nodes_ = {}
  /\ answer' = S!Exhausted
  /\ UNCHANGED <<configVars, ring_, physical_nodes_>>

\* Nodes in the list but none on the ring: *ring_.begin() of an empty map.
SelectUndefined ==
  /\ physical_nodes_ # {} /\ DOMAIN ring_ = {}
  /\ answer' = S!Undefined
  /\ UNCHANGED <<configVars, ring_, physical_nodes_>>

HashOf(b) == hash[<<b, 0>>]

WithoutNode(n) == [h \in {k \in DOMAIN ring_ : ring_[k] # n} |-> ring_[h]]

\* Faults: only the entry of the name is erased and the other replicas stay;
\* the node stays in the list; lower_bound is used in place of find; the node is
\* looked for in the list.
EraseOneReplica(b) ==
  IF HashOf(b) \in DOMAIN ring_
  THEN /\ ring_' = [h \in DOMAIN ring_ \ {HashOf(b)} |-> ring_[h]]
       /\ physical_nodes_' = physical_nodes_ \ {ring_[HashOf(b)]}
  ELSE UNCHANGED <<ring_, physical_nodes_>>

EraseFromRing(b) ==
  /\ ring_' = IF HashOf(b) \in DOMAIN ring_ THEN WithoutNode(ring_[HashOf(b)]) ELSE ring_
  /\ UNCHANGED physical_nodes_

EraseSuccessor(b) ==
  IF DOMAIN ring_ # {}
  THEN LET n == ring_[Successor(HashOf(b))]
       IN  ring_' = WithoutNode(n) /\ physical_nodes_' = physical_nodes_ \ {n}
  ELSE UNCHANGED <<ring_, physical_nodes_>>

EraseFirstListed(b) ==
  LET listed == {n \in physical_nodes_ : config[n] = b}
  IN  IF listed # {}
      THEN /\ ring_' = WithoutNode(Min(listed))
           /\ physical_nodes_' = physical_nodes_ \ {Min(listed)}
      ELSE UNCHANGED <<ring_, physical_nodes_>>

\* EraseNode: the node erased is the one that the hash of the name leads to.
EraseNode(b) ==
  IF HashOf(b) \in DOMAIN ring_
  THEN LET n == ring_[HashOf(b)]
       IN  ring_' = WithoutNode(n) /\ physical_nodes_' = physical_nodes_ \ {n}
  ELSE UNCHANGED <<ring_, physical_nodes_>>

ExcludeBackend(b) ==
  /\ EraseNode(b)
  /\ answer' = IF physical_nodes_' = {} THEN S!Exhausted ELSE S!Excluded
  /\ UNCHANGED configVars

\* The connector only excludes a backend it was once given; two clients that
\* it refuses exclude it one after the other.
Next ==
  /\ answer # S!Undefined
  /\ \/ \E h \in Hashes : SelectBackend(h)
     \/ SelectThrows
     \/ SelectUndefined
     \/ \E b \in Names : ExcludeBackend(b)

Spec == Init /\ [][Next]_vars

-----------------------------------------------------------------------------
(* Properties *)

\* Every entry of the ring leads to a node of the list: no iterator on the ring
\* outlives the list's element (SelectNode would use it after it is freed).
TypeOK ==
  /\ DOMAIN ring_ \subseteq Hashes
  /\ physical_nodes_ \subseteq Node
  /\ ring_ \in [DOMAIN ring_ -> physical_nodes_]
  /\ config \in Configs /\ hash \in Hashings

\* Excluding a backend leads no client away from any other backend, however
\* many replicas it has, however often it is excluded, as long as the names' hashes are apart.
MinimalDisruption ==
  [][\A b \in Names, h \in Hashes :
       NamesApart /\ ExcludeBackend(b) /\ DOMAIN ring_ # {} /\ SelectNode(h) # b
          => DOMAIN ring_' # {} /\ SelectNode(h)' = SelectNode(h)]_vars

\* A client that a backend refused is never led back to it: no entry of the ring
\* outlives the exclusion of its backend, though the endpoint be listed twice.
RefusedLeavesRing ==
  [][\A b \in Names :
       ExcludeBackend(b) /\ NamesApart => \A h \in DOMAIN ring_' : config[ring_'[h]] # b]_vars

\* The selector is a Selector, as long as no endpoint is listed twice and the
\* names' hashes are apart (those of replicas may collide): the ring then never
\* runs out of entries before the list runs out of nodes, and so every call with
\* a node left finds one and the exclusion of the last one throws.
ImplementsSelector ==
  S!Init /\ [][NoDuplicates /\ NamesApart => S!Next]_(S!vars)
=============================================================================
