-------------------------- MODULE LeastConnections --------------------------
(***************************************************************************)
(* LeastConnectionsSelector (src/lb/tcp/selectors.cpp): a pairing heap of  *)
(* CounterWrapper nodes ordered by their counter, and handle_pool_, a map  *)
(* from a backend's name to the handle of its node.  Every public member   *)
(* function holds the recursive mutex from its first line to its last, so  *)
(* each is one atomic action here.                                         *)
(*                                                                         *)
(* A node is identified by the position of its endpoint in the             *)
(* configuration: the same endpoint may be configured more than once, and  *)
(* then it has several nodes in the heap but one handle.                   *)
(***************************************************************************)
EXTENDS Naturals, Sequences, FiniteSets

CONSTANTS Backends,   \* names of backends: Backend::ToString()
          Config      \* the "endpoints" list of the configuration, in order

ASSUME ConfigAssumption == Config \in Seq(Backends)

VARIABLES backends_,    \* the heap: node -> its counter
          handle_pool_  \* name -> node of its handle

lcVars == <<backends_, handle_pool_>>

Node == DOMAIN Config
Names == {Config[n] : n \in Node}

(***************************************************************************)
(* Configure inserts the endpoints in order with counter 0.  Assigning     *)
(* handle_pool_[name] again, for a repeated endpoint, overwrites the       *)
(* handle: the last insertion wins.                                        *)
(***************************************************************************)
Configure ==
  /\ backends_ = [n \in Node |-> 0]
  /\ handle_pool_ \in [Names -> Node]
  /\ \A b \in Names :
       /\ Config[handle_pool_[b]] = b
       /\ \A n \in Node : Config[n] = b => n <= handle_pool_[b]

\* No endpoint is listed twice.
NoDuplicates == \A m, n \in Node : Config[m] = Config[n] => m = n

-----------------------------------------------------------------------------
InPool(b) == b \in DOMAIN handle_pool_

\* backends_.top(): which of several nodes with the least counter is on top
\* depends on the history of the pairing heap and is left open.
IsTop(n) ==
  /\ n \in DOMAIN backends_
  /\ \A m \in DOMAIN backends_ : backends_[n] <= backends_[m]

\* Counters after IncreaseConnectionCount(b): no effect once b is excluded.
Increased(b) ==
  IF InPool(b) THEN [backends_ EXCEPT ![handle_pool_[b]] = @ + 1] ELSE backends_

\* Fault: the guard spares a counter of 1.
DecreasedAboveOne(b) ==
  IF InPool(b) /\ backends_[handle_pool_[b]] > 1
  THEN [backends_ EXCEPT ![handle_pool_[b]] = @ - 1]
  ELSE backends_

\* Counters after DecreaseConnectionCount(b): a counter never goes below 0.
Decreased(b) ==
  IF InPool(b) /\ backends_[handle_pool_[b]] > 0
  THEN [backends_ EXCEPT ![handle_pool_[b]] = @ - 1]
  ELSE backends_

IncreaseConnectionCount(b) ==
  backends_' = Increased(b) /\ UNCHANGED handle_pool_

DecreaseConnectionCount(b) ==
  backends_' = Decreased(b) /\ UNCHANGED handle_pool_

\* Fault: SelectBackend leaves the counting to OnConnect.
SelectUncounted(b) ==
  /\ \E n \in DOMAIN backends_ : IsTop(n) /\ b = Config[n]
  /\ UNCHANGED lcVars

\* SelectBackend returns b, the backend on top, and counts the connection
\* that is about to be made.  On an empty heap top() is undefined behaviour:
\* SelectUndefined.
SelectBackend(b) ==
  /\ \E n \in DOMAIN backends_ : IsTop(n) /\ b = Config[n]
  /\ IncreaseConnectionCount(b)

SelectUndefined == DOMAIN backends_ = {}

\* Faults: the handle outlives its node; the node outlives its handle.
ExcludeKeepsHandle(b) ==
  /\ backends_' = IF InPool(b)
                  THEN [n \in DOMAIN backends_ \ {handle_pool_[b]} |-> backends_[n]]
                  ELSE backends_
  /\ UNCHANGED handle_pool_

ExcludeKeepsNode(b) ==
  /\ handle_pool_' = [x \in DOMAIN handle_pool_ \ {b} |-> handle_pool_[x]]
  /\ UNCHANGED backends_

\* ExcludeBackend erases the node of b's handle and the handle; it does
\* nothing, and does not throw, when the name has no handle any more.
ExcludeBackend(b) ==
  IF InPool(b)
  THEN /\ backends_' =
            [n \in DOMAIN backends_ \ {handle_pool_[b]} |-> backends_[n]]
       /\ handle_pool_' =
            [x \in DOMAIN handle_pool_ \ {b} |-> handle_pool_[x]]
  ELSE UNCHANGED lcVars

\* Fault: empty() is asked before the node is erased.
ThrowsIfEmptyBefore(b) == InPool(b) /\ DOMAIN backends_ = {}

\* The call just made has emptied the heap: "All backends are excluded!".
ExcludeThrows(b) ==
  InPool(b) /\ DOMAIN backends_ = {handle_pool_[b]}

LCTypeOK ==
  /\ DOMAIN backends_ \subseteq Node
  /\ backends_ \in [DOMAIN backends_ -> Nat]
  /\ DOMAIN handle_pool_ \subseteq Names
  /\ handle_pool_ \in [DOMAIN handle_pool_ -> DOMAIN backends_]
=============================================================================
