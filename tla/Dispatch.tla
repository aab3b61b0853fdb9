------------------------------ MODULE Dispatch ------------------------------
(***************************************************************************)
(* What the balancer promises its clients, whatever the algorithm: a       *)
(* client is tried on one backend in rotation at a time, a backend leaves  *)
(* the rotation only because it refused a client that was tried on it, and *)
(* such a client is tried again for as long as a backend is left.          *)
(***************************************************************************)
CONSTANTS Backends, Clients, NoBackend

VARIABLES alive,    \* backends in rotation
          fate,     \* what has become of each client
          target    \* the backend each client was last tried on

vars == <<alive, fate, target>>

Fates == {"outside", "waiting", "trying", "served", "ended"}

Init ==
  /\ alive \in SUBSET Backends
  /\ fate = [c \in Clients |-> "outside"]
  /\ target = [c \in Clients |-> NoBackend]

Become(c, from, to) == fate[c] = from /\ fate' = [fate EXCEPT ![c] = to]

Arrive(c) == Become(c, "outside", "waiting") /\ UNCHANGED <<alive, target>>

Try(c) ==
  /\ Become(c, "waiting", "trying")
  /\ \E b \in alive : target' = [target EXCEPT ![c] = b]
  /\ UNCHANGED alive

\* The client goes back to waiting, unless it was the last backend that left.
Refuse(c) ==
  /\ alive' = alive \ {target[c]}
  /\ \/ Become(c, "trying", "waiting") /\ (alive' = {} => alive = {})
     \/ Become(c, "trying", "ended") /\ alive' = {}
  /\ UNCHANGED target

Serve(c) == Become(c, "trying", "served") /\ UNCHANGED <<alive, target>>

\* The connection attempt fails otherwise, or the client has gone.
Drop(c) ==
  /\ Become(c, "waiting", "ended") \/ Become(c, "trying", "ended")
  /\ UNCHANGED <<alive, target>>

End(c) == Become(c, "served", "ended") /\ UNCHANGED <<alive, target>>

Next ==
  \E c \in Clients :
    Arrive(c) \/ Try(c) \/ Refuse(c) \/ Serve(c) \/ Drop(c) \/ End(c)

Spec == Init /\ [][Next]_vars
=============================================================================
