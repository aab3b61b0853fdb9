-------------------------- MODULE LeastResponseTime --------------------------
(***************************************************************************)
(* LeastResponseTimeSelector (src/lb/tcp/selectors.cpp): a pairing heap of *)
(* AverageTimeWrapper nodes with the least moving average on top, and      *)
(* handle_pool_, a map from a backend's name to the handle of its node.    *)
(* Every public member function holds the mutex from its first line to its *)
(* last, so each is one atomic action here.  The reports come from the     *)
(* notifiers of all sessions, in any order and also after the exclusion of *)
(* their backend.                                                          *)
(*                                                                         *)
(* Averages are whole multiples of 1 / Scale, so that the first MaxReports *)
(* of a backend are exact; the code's are doubles.                         *)
(***************************************************************************)
EXTENDS Integers, Sequences, FiniteSetsExt

CONSTANTS Backends,    \* names of backends: Backend::ToString()
          Configs,     \* the "endpoints" lists the program may be started with
          Samples,     \* response times a session may report
          MaxReports   \* reports counted of one backend, at most

ASSUME ConfigAssumption ==
  /\ Configs \subseteq Seq(Backends)
  /\ Samples \subseteq Int
  /\ MaxReports \in Nat

VARIABLES config,        \* the list, which never changes
          backends_,     \* the heap: node -> response_time_ema
          top,           \* the node on top of it
          handle_pool_,  \* name -> node of its handle
          answer,        \* what the last call returned
          samples        \* history: name -> the reports counted, in order

vars == <<config, backends_, top, handle_pool_, answer, samples>>

Node == DOMAIN config
Names == {config[n] : n \in Node}
InRotation == {config[n] : n \in DOMAIN backends_}

\* No endpoint is listed twice.
NoDuplicates == \A m, n \in Node : config[m] = config[n] => m = n

S == INSTANCE Selector WITH alive <- InRotation

NoNode == 0

\* Ten to the power of k.
Power[k \in Nat] == IF k = 0 THEN 1 ELSE 10 * Power[k - 1]

Scale == Power[MaxReports]

-----------------------------------------------------------------------------
\* Fault: the comparison is the wrong way round.
GreatestOf(heap) == {n \in DOMAIN heap : \A m \in DOMAIN heap : heap[m] <= heap[n]}

\* Which of several nodes with the least average is on top depends on the
\* history of the pairing heap and is left open.
LeastOf(heap) == {n \in DOMAIN heap : \A m \in DOMAIN heap : heap[n] <= heap[m]}

\* The top of a heap that has just changed: both `decrease` and `increase` of a
\* pairing heap restore its order, whichever way the value went.
TopOf(heap) == IF DOMAIN heap = {} THEN {NoNode} ELSE LeastOf(heap)

\* Configure inserts the endpoints in order with an average of 0; for a
\* repeated endpoint the last insertion keeps the handle.
Init ==
  /\ config \in Configs
  /\ backends_ = [n \in Node |-> 0]
  /\ top \in TopOf(backends_)
  /\ handle_pool_ = [b \in Names |-> Max({n \in Node : config[n] = b})]
  /\ answer = S!None
  /\ samples = [b \in Names |-> <<>>]

InPool(b) == b \in DOMAIN handle_pool_

\* The heap becomes h.
Becomes(h) == backends_' = h /\ top' \in TopOf(h)

Without(nodes) == [n \in DOMAIN backends_ \ nodes |-> backends_[n]]

SelectBackend ==
  /\ top # NoNode
  /\ answer' = S!Chosen(config[top])
  /\ UNCHANGED <<config, backends_, top, handle_pool_, samples>>

\* top() of an empty heap.
SelectUndefined ==
  /\ top = NoNode
  /\ answer' = S!Undefined
  /\ UNCHANGED <<config, backends_, top, handle_pool_, samples>>

ForgetHandle(b) == handle_pool_' = [x \in DOMAIN handle_pool_ \ {b} |-> handle_pool_[x]]

\* Faults: every node of the name is erased; the handle outlives its node;
\* the exception comes one backend early.
ErasesEveryNode(b) ==
  /\ Becomes(Without({n \in DOMAIN backends_ : config[n] = b}))
  /\ ForgetHandle(b)
  /\ answer' = IF top' = NoNode THEN S!Exhausted ELSE S!Excluded
  /\ UNCHANGED <<config, samples>>

KeepsHandle(b) ==
  /\ Becomes(Without({handle_pool_[b]}))
  /\ answer' = IF top' = NoNode THEN S!Exhausted ELSE S!Excluded
  /\ UNCHANGED <<config, handle_pool_, samples>>

ThrowsEarly(b) ==
  /\ Becomes(Without({handle_pool_[b]}))
  /\ ForgetHandle(b)
  /\ answer' = IF DOMAIN backends_' \subseteq {top'} THEN S!Exhausted ELSE S!Excluded
  /\ UNCHANGED <<config, samples>>

\* The node of b's handle goes, and the handle.
EraseBackend(b) ==
  /\ Becomes(Without({handle_pool_[b]}))
  /\ ForgetHandle(b)
  /\ answer' = IF top' = NoNode THEN S!Exhausted ELSE S!Excluded
  /\ UNCHANGED <<config, samples>>

\* A name without a handle is passed over in silence.
ExcludeBackend(b) ==
  IF InPool(b)
  THEN EraseBackend(b)
  ELSE answer' = S!Excluded /\ UNCHANGED <<config, backends_, top, handle_pool_, samples>>

\* Fault: alpha weighs the old average.
WeighsOldMost(old, sample) == (9 * old + sample * Scale) \div 10

\* (1 - alpha) * old_ema + alpha * response_time, with alpha = 0.9
Averaged(old, sample) == (old + 9 * sample * Scale) \div 10

\* The report of a session on b: no effect once b is excluded.
AddResponseTime(b, sample) ==
  /\ InPool(b) /\ Len(samples[b]) < MaxReports
  /\ Becomes([backends_ EXCEPT ![handle_pool_[b]] = Averaged(@, sample)])
  /\ samples' = [samples EXCEPT ![b] = Append(@, sample)]
  /\ UNCHANGED <<config, handle_pool_, answer>>

\* The connector only excludes a backend it was once given; two clients that
\* it refuses exclude it one after the other.
Next ==
  /\ answer # S!Undefined
  /\ \/ SelectBackend
     \/ SelectUndefined
     \/ \E b \in Names : ExcludeBackend(b)
     \/ \E b \in Names, s \in Samples : AddResponseTime(b, s)

Spec == Init /\ [][Next]_vars

-----------------------------------------------------------------------------
(* Properties *)

\* Types; and no handle outlives its node or leads to another name's.
TypeOK ==
  /\ config \in Configs
  /\ DOMAIN backends_ \subseteq Node /\ \A n \in DOMAIN backends_ : backends_[n] \in Int
  /\ top \in DOMAIN backends_ \cup {NoNode}
  /\ DOMAIN handle_pool_ \subseteq Names
  /\ \A b \in DOMAIN handle_pool_ :
       handle_pool_[b] \in DOMAIN backends_ /\ config[handle_pool_[b]] = b
  /\ \A b \in Names : Len(samples[b]) <= MaxReports

\* The average of a sequence of reports: each weighs ten times as much as the
\* one before it.
Average(s) ==
  LET FirstOf[k \in 0 .. Len(s)] ==
        IF k = 0
        THEN 0
        ELSE FirstOf[k - 1] + 9 * s[k] * Power[MaxReports - 1 - (Len(s) - k)]
  IN  FirstOf[Len(s)]

AverageOf(b) == Average(samples[b])

\* The backend the next client is given has the least average of those in
\* rotation, whatever the order in which the sessions of all of them report.
LeastAverage ==
  NoDuplicates =>
    \A n \in DOMAIN backends_ : AverageOf(config[top]) <= AverageOf(config[n])

\* No session measured a negative time: the clock has not been set back.
ClockRanForward == \A b \in Names : \A k \in DOMAIN samples[b] : samples[b][k] >= 0

Measured(b) == \E k \in DOMAIN samples[b] : samples[b][k] # 0

\* As long as a backend in rotation has not been measured, no measured backend
\* is given to a client, unless the clock was set back between the two readings
\* of a session: a backend that never answers draws every client.
UntriedFirst ==
  NoDuplicates /\ ClockRanForward /\ (\E b \in InRotation : ~Measured(b))
    => ~Measured(config[top])

Repeated(b) == \E m, n \in Node : m # n /\ config[m] = b /\ config[n] = b

\* The first node of a repeated endpoint has no handle: the endpoint is never
\* out of rotation, no exclusion reports that all are, and once all backends
\* have been measured every client is given a repeated one.
RepeatedStays ==
  \A b \in Names : Repeated(b) =>
    /\ b \in InRotation /\ answer # S!Exhausted
    /\ ClockRanForward /\ (\A x \in InRotation : Measured(x)) => Repeated(config[top])

\* The selector is a Selector, as long as no endpoint is listed twice.
ImplementsSelector == S!Init /\ [][NoDuplicates => S!Next]_(S!vars)
=============================================================================
