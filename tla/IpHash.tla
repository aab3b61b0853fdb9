------------------------------- MODULE IpHash -------------------------------
(***************************************************************************)
(* IpHashSelector (src/lb/tcp/selectors.cpp): a vector of backends, and a  *)
(* hash of the client's address and port that is the index, modulo the     *)
(* size.  Both member functions hold the mutex throughout, so each is one  *)
(* atomic action.                                                          *)
(***************************************************************************)
EXTENDS Vector

CONSTANTS Backends,        \* names of backends
          Config,          \* the "endpoints" list of the configuration, in order
          Addresses,       \* addresses of clients
          Ports,           \* their ports
          AddressHashes,   \* values of std::hash of an address
          HashValues       \* values of std::size_t: 2 ^ 64

\* The types of the constants, which the theorems assume.
ConstantsOK ==
  /\ Config \in Seq(Backends)
  /\ Ports \subseteq Nat /\ AddressHashes \subseteq Nat /\ HashValues \in Nat \ {0}

VARIABLES hash,        \* std::hash of the addresses, which never changes
          backends_,   \* the vector of backends in rotation
          answer,      \* what the last call returned
          led          \* history: the backends that each address was given, since
                       \* the last exclusion

vars == <<hash, backends_, answer, led>>

Names == {Config[i] : i \in DOMAIN Config}
InRotation == {backends_[i] : i \in DOMAIN backends_}

\* A client connection's remote endpoint: address and port.
Endpoint == Addresses \X Ports

S == INSTANCE Selector WITH alive <- InRotation

Init ==
  /\ hash \in [Addresses -> AddressHashes]
  /\ backends_ = Config
  /\ answer = S!None
  /\ led = [a \in Addresses |-> {}]

-----------------------------------------------------------------------------
ComputeHash(e) == (hash[e[1]] * 37 + e[2] * 37 * 37) % HashValues

\* The backend a client is led to.
Home(e) == backends_[1 + (ComputeHash(e) % Len(backends_))]

SelectBackend(e) ==
  /\ backends_ # <<>>
  /\ answer' = S!Chosen(Home(e))
  /\ led' = [led EXCEPT ![e[1]] = @ \cup {Home(e)}]
  /\ UNCHANGED <<hash, backends_>>

\* Modulo the size of an empty vector.
SelectUndefined ==
  /\ backends_ = <<>>
  /\ answer' = S!Undefined
  /\ UNCHANGED <<hash, backends_, led>>

\* Every entry equal to b is erased, and the others close up.
ExcludeBackend(b) ==
  /\ backends_' = Removed(backends_, b)
  /\ answer' = IF backends_' = <<>> THEN S!Exhausted ELSE S!Excluded
  /\ led' = [a \in Addresses |-> {}]
  /\ UNCHANGED hash

\* The connector only excludes a backend it was once given; an exclusion may
\* come long after that, and more than once.
Next ==
  /\ answer # S!Undefined
  /\ \/ \E e \in Endpoint : SelectBackend(e)
     \/ SelectUndefined
     \/ \E b \in Names : ExcludeBackend(b)

Spec == Init /\ [][Next]_vars

-----------------------------------------------------------------------------
(* Properties *)

\* The hash is of the ip: all connections of one address, whatever their ports,
\* are given the same backend until one is excluded.
OneAddressOneBackend ==
  \A a \in Addresses : \A b, c \in led[a] : b = c

\* The selector is a Selector, duplicates in the configuration included.
ImplementsSelector == S!Spec
=============================================================================
