# lb2 in TLA+

lb2 is a TCP/HTTP load balancer on Boost.Asio. A pool of threads runs the
completion handlers of one `io_context`; an acceptor takes client connections, a
connector asks a selector for a backend and connects to it, and a session relays
requests and responses between the two sockets. This directory holds TLA+
specifications of that program, the TLC configurations that check them, and
proofs checked by TLAPS. Line numbers below are those of the files under `src/`,
`tests/` and `third_party/` of the repository.

## The system

| Component | State | Operations | Talks to |
|---|---|---|---|
| `Acceptor` (`lb/tcp/acceptor.cpp`) | the listening socket, one pending `async_accept` | `DoAccept` (re-arms itself), `Stop` | calls `Connector::MakeAndRunSession` from its handler; stopped by the signal handler |
| `Connector` (`lb/tcp/connector.cpp`) | none of its own; sockets and backend travel in the captures of its handlers | `MakeAndRunSession`, the handlers of connect and resolve, `MakeSession` | calls `SelectBackend` and `ExcludeBackend`; starts sessions |
| `HttpSession` (`lb/tcp/session.cpp`) | two streams, buffers, a `StateNotifier` | `Run`, four reads and writes in a loop, `Cancel`, the destructor (which cancels again) | tells the notifier: `OnConnect`, `OnDisconnect`, `OnRequestSent`, `OnResponseReceive` |
| Selectors (`lb/tcp/selectors.cpp`) | the backends in rotation, and what the algorithm keeps of them, under a mutex | `Configure`, `SelectBackend`, `ExcludeBackend`; least connections and least response time take reports of the notifiers too | called by connector and notifiers from every thread |
| Router (`third_party/pumba`) | a ring from hashes to list iterators, the list of nodes | `EmplaceNode`, `EraseNode`, `SelectNode`, `Empty` | used by the consistent hash selector |
| `Application` (`lb/application.cpp`) | configuration, `io_context`, threads, exit code | start-up, `ThreadRoutine`, the signal handler, `Terminate`, `SetExitCode` | owns the others |
| `Backend`, `Url`, logging, formatters | immutable values, output | parsing, formatting | everybody |

What makes it hard:

* **Interleaving.** Every handler may run on any thread. Selectors are safe one
  call at a time, but the connector's exclude-then-select, the two calls of
  `Cancel`, and a thread's exception followed by `io_context::stop` are several
  critical sections, with other threads' handlers in between.
* **Failure.** A backend may refuse, time out or fail to resolve; the client may
  leave at any moment; an exception in any handler ends the whole process.
* **Retry.** A refused client is started over from inside the handler of the
  failed connect.
* **Loss inside a session.** A read may take more than one message from a socket,
  and the loop clears its buffers, and its messages only in part, between two
  requests.
* **Starting.** Handlers use locals of `Start`, which creates the threads last and
  one by one; until the last of them exists, an exception still ends `Start`, and a
  barrier holds the others back.
* **Ending.** A signal, the loss of the last backend and several threads leaving
  at once race for the exit code.

The hazards at their lines, and the properties aimed at each, are the `hazards`
of `PROJECT.json`.

## Modules

| Module | What it is |
|---|---|
| `LeastConnections` | `LeastConnectionsSelector`: the heap as a function from nodes to counters, the map of handles; one operator per member function |
| `Balancer` | extends it: acceptor, connector, life cycle of sessions, threads, signals, exit code |
| `Dispatch` | abstract: what the balancer promises its clients; `Balancer` implements it |
| `Selector` | abstract: what `ISelector` promises the connector |
| `RoundRobin`, `WeightedRoundRobin`, `ConsistentHash`, `IpHash`, `LeastResponseTime` | the selectors of those names, each shown to implement `Selector`, `IpHash` by its proof alone |
| `Session` | `HttpSession` between a client and a server: the loop of four operations, its buffers, its errors |
| `Startup` | `ConfigureApplication`, `Application::Start` and the barrier, under many configurations |
| `Vector` | `erase` after `std::remove`, which `RoundRobin` and `IpHash` share |
| `Balancer_proofs`, `RoundRobin_proofs`, `WeightedRoundRobin_proofs`, `ConsistentHash_proofs`, `IpHash_proofs`, `LeastResponseTime_proofs`, `Session_proofs`, `Startup_proofs` | theorems about the modules of those names, and their proofs |
| `MCBalancer`, `MCRoundRobin`, ... | values of the constants for TLC |

### State and actions of `Balancer`

`conn[c]` is how far client connection `c` has come. `outside`: not accepted.
`selecting`: a thread is in `MakeAndRunSession`, before `SelectBackend`.
`resolving`, `connecting`: the asynchronous operation is outstanding. `refused`:
a thread is in the handler of a refused connect, before `ExcludeBackend`.
`serving`: a session exists. `cancelled`: a thread is between the `Cancel` of a
session's handler and the one of its destructor. `closed`, `dropped` and `lost`
are the ends. `target[c]` is the `backend` that the handlers of `c` capture.
`at[t]` says where thread `t` is: in `io_context::run` between handlers (`run`),
in a handler of `job[t]`, in the catch block of `ThreadRoutine` (`caught`), on
its way to `io_context::stop` (`terminate`), or out of `ThreadRoutine`.

A handler is one step unless it enters the selector twice; then each critical
section is a step. That is as fine as it must be: handlers share nothing but the
selector, whose member functions hold a mutex from the first line to the last,
the `io_context` and the exit code.

| Action | Code |
|---|---|
| `Accept`, `AcceptError` | handler of `async_accept`, `acceptor.cpp:43-53` |
| `Select`, `SelectCrash`, `ClientGone` | `MakeAndRunSession`, `connector.cpp:96-131`: with a backend, on an empty heap, and when `remote_endpoint()` throws |
| `Resolved`, `Connected`, `ConnectFailed` | the handlers without error and with an error that is not a refusal |
| `Refused`, `Exclude` | the handlers with `connection_refused`, before and at `ExcludeBackend`, `connector.cpp:112-115, 135-138` |
| `SessionError`, `Destroy` | `Cancel` in a handler of the session, and in its destructor |
| `Signal` | `application.cpp:237-240`; `acceptor.cancel()` throws when the socket is closed already |
| `Catch`, `Terminate`, `Leave` | `ThreadRoutine` and `Application::Terminate` |

The node on top of a pairing heap among several with the least counter depends
on the history of the heap; `IsTop` leaves it open, so what is checked does not
depend on it. A node is the position of an endpoint in the configuration, for an
endpoint may be listed twice. Undefined behaviour (`top()` of an empty heap)
sets `crashed` in `Balancer`, after which nothing happens; in `Selector` it is
the answer `Undefined`.

### The selectors

`Selector` says that `SelectBackend` answers with a backend in rotation, that
`ExcludeBackend` takes a backend out for good, and that the call that takes out
the last one, and no call before it, throws. A second exclusion of a backend
does nothing; it is possible because two clients refused by the same backend
both exclude it. Nothing is promised of a selection from no backend, which the
vectors turn into undefined behaviour and the ring into an exception.

* `RoundRobin`: vector and counter. The history variable `waited` counts the
  selections since each backend was last selected.
* `WeightedRoundRobin`: the vector in an order that `std::sort` may produce, the
  index, and `current` in each entry. A weight of 0 counts as 1, because
  `AdvanceCounter` moves on after the selection. The history variables count the
  selections in the present turn and since the rotation last restarted.
* `ConsistentHash`: the ring maps a hash to the position of the endpoint; the
  hash function is chosen in the initial state among those a constant allows.
  `ring_[h] = node` in `SpawnReplicas` overwrites, so the last node with a hash
  keeps it.
* `IpHash`: vector and a hash of each client address, chosen in the initial
  state. The arithmetic of `ComputeHash` is exact modulo `HashValues`, the
  number of values of a `std::size_t`. The history variable `led` holds the
  backends that each address was given since the last exclusion.
* `LeastResponseTime`: the heap as a function from nodes to averages, the node on
  top of it, the map of handles. Averages are whole multiples of
  `1 / Scale`, the `MaxReports`-th power of ten, which makes the first `MaxReports` reports of a backend
  exact. The node on top is a variable, because the code reads it and computes
  it at different moments; among several with the least average any may be it.
  The history variable `samples` holds what was reported of each backend.

### `Session`

`stage` is the operation outstanding (`ClientRead`, `SendToServer`,
`ServerRead`, `SendToClient`) or the state of a session that is `new`,
`cancelled` or `closed`; `cancelled` lies between the `Cancel` of a handler and
the one of the destructor. The handler of an operation starts the next one, so
each `Handle...` is one action, and `Fail` is the error branch of all four.

A message is two parts. A read takes any number of parts from the socket,
consumes one message and leaves the rest in the buffer, which is what Beast's
`async_read` into a `flat_buffer` does; if the next message seems to start with
the second half of one, the read fails. `Clears` is the start of `ClientRead`:
both buffers are emptied, the fields of both messages are cleared, and
`client_body_` and `server_body_`, the requests whose bodies the two strings
hold, stay as they are. (`clear()` is a member of `basic_fields`, not of
`message`, and the reader of `string_body` appends; Beast's documentation leaves
a read into a message with contents undefined, and appending is what the library
of `conanfile.txt`, Boost 1.74, does.) What a peer makes of bytes that belong to
no message is left open: it goes on as before, or the session fails.

The peers are the environment. The client may send ahead; the server answers in
order and may put one interim response before an answer. `atServer` and
`delivered` are the messages that have arrived, `requestBodies` and
`responseBodies` the bodies that each of them brought. `pipelined` is a history:
which requests were sent too early. `begun` is the request at whose sending
`LeastResponseTimeCallbacks` read its clock.

### `Startup`

`pc` follows the first thread through `ConfigureApplication` and the statements
of `Start`; `made` is the set of objects that exist, `threads` what each thread
of the pool is doing. A configuration is a record of the fields the code reads;
a field may be `Undefined`, and `Junk` stands for any value of the wrong type (a
scalar in place of a map, a `thread_pool` without `threads_number`, a sink
without a level). `LoggingAccepted`, `AcceptorAccepted` and `SelectorAccepted`
say which values the readers let pass, an exception being the end of the
process. Reading the configuration, opening the log file, binding the acceptor
and creating a thread may also fail for reasons of the system.

Ports are numbers. That of an ip endpoint is read as an `int`, that of the
acceptor as an `unsigned`, and both are narrowed to 16 bits (`Narrowed`), so that
70000 becomes 4464. That of a URL is text: the pattern takes two to five digits
for it, leaves a single digit and a sixth to the path, and checks no range
(`UrlPort`). `bound` is what the acceptor is bound to, `backends` holds the port
of each backend.

Handlers are only what they do to the pool: `Stop` is the one that stops the
`io_context`, which may happen before another thread has entered `run`.

## Runs

| Run | Checks | Bounds |
|---|---|---|
| `Balancer` | `TypeOK`, `Accounting`, `RefusedIsOut`, `ExhaustionReported`, `ExitCodeTruthful`, `StopHasCause`, `WithinFactorTwo`, `ExclusionHasCause`, `ImplementsDispatch`, `Settles`, `ShutdownCompletes`, `ExhaustionEnds` | 3 clients, 2 threads, an ip and a URL backend |
| `Balancer_Fewest` | violates `FewestConnections` | 3 clients, 2 threads, 2 ip backends |
| `Balancer_LastBackend` | violates `NeverCrashes` | the same |
| `RoundRobin` | `TypeOK`, `NoStarvation`, `ImplementsSelector` | 4 backends |
| `WeightedRoundRobin` | `TypeOK`, `ProportionalShares`, `ImplementsSelector` | 4 backends of weights 0, 2, 3, 2 |
| `WeightedRoundRobin_FullTurns` | violates `FullTurns` | the same |
| `ConsistentHash` | `TypeOK`, `MinimalDisruption`, `RefusedLeavesRing`, `ImplementsSelector` | 3 endpoints, one perhaps repeated, 2 replicas, every order of the 6 hashes |
| `IpHash_OneBackend` | violates `OneAddressOneBackend` | 4 backends, 2 addresses, 6 ports, 7 hashes of an address, 13 bits |
| `LeastResponseTime` | `TypeOK`, `LeastAverage`, `UntriedFirst`, `RepeatedStays`, `ImplementsSelector` | 3 endpoints, one perhaps repeated, 2 reports of each of -1, 1 or 3 |
| `Session` | `TypeOK`, `RelayedInOrder`, `LossHasCause`, `SpoiledHasCause`, `AnswersMatch`, `RequestsSettle` | 5 requests, the third and the fourth and the third response with a body |
| `Startup` | `TypeOK`, `RunsOnlyWhenReady`, `ServesAsConfigured`, `ServesOrEnds`, `StopEndsProcess` | 459 configurations, up to 3 threads |
| `Startup_IpVersion` | violates `IpVersionHonoured` | the same |

Every client connects at most once, which bounds the counters of the heap; three
clients and two backends allow a refused client to meet one that is served, a
second exclusion of the same backend, and the loss of the last backend in one
handler while another selects. Two threads are enough for any pair of critical
sections to interleave. The selectors' states are finite without any bound: the
histories are reset by what they measure. Two backends must be left after an
exclusion for the order among them to matter, and a weight of 3 lets a turn be
interrupted at two places. The ring only compares hashes, so the functions from
the six keys of three backends onto an initial segment of the numbers stand for
all hash functions: there is one for each way to order the keys, with or without
collisions. A client's hash is one of the keys' or above all of them, which is
where a hash between two keys' and the wrap at the end of the ring lead too.

Two reports of each backend are enough for the weight of an older one to matter,
and the sample -1 stands for a clock set back. In a session, five requests
let one be lost in a buffer, the stream continue in the middle of the next, and
another follow; the only bodies are in the middle, two in a row among the
requests, so that the messages before them show the session unspoiled and those
after them which bodies they bring. The configurations of `MCStartup` are all
combinations of the fields that one part of the start-up reads, with good values
for the others; the ports among them lie on both sides of what 16 bits and two to
five digits can hold. Three threads make one thread that arrives at the barrier
first, one that is last, and one in between.

The hashes of `IpHash_OneBackend` include one whose product with 37 wraps in 13
bits by itself (1771) and two that wrap only when the port is added (216, 221);
the counterexample needs none of them.

Deadlock is checked for `Balancer` and `Startup`; their `Finished` and `Over`
steps stand for the ended process. The selectors' configurations switch it off,
because the specifications stop where the code's behaviour is undefined, and
`Session`'s does because a session ends when it is closed.

### What the runs show

* `Accounting`: the count of a backend is exactly one for each connect in
  progress, two for each session, one for each session half cancelled, and one
  for ever for each connect that failed without a refusal. No interleaving loses
  an update, and the guard `counter > 0` never swallows one: `Cancel` takes back
  twice what `SelectBackend` and `OnConnect` counted once each.
* Hence `least_connections` does not select the backend with the fewest
  connections (`Balancer_Fewest`), but one with at most twice the connections of
  any other, that one's failed connects counted (`WithinFactorTwo`).
* A refused client never selects the backend that refused it again
  (`RefusedIsOut`), so its retries end (`Settles`). Both need every endpoint to
  be listed once: the first of two nodes of the same name has no handle.
* Losing the last backend stops the process with a failure, unless another
  thread selects from the empty heap first (`Balancer_LastBackend`). With one
  thread that cannot happen (theorem `OneThreadNeverCrashes`).
* The exit code is a failure when an exception ended a client's handler, and
  otherwise only in a process that was sent a signal and ends with the listening
  socket closed: `acceptor.cancel()` throws when an accept error closed it before
  (`ExitCodeTruthful`).
* Round robin skips the next backend in turn when one before it is erased.
  `NoStarvation` gives the exact price: one more round per exclusion.
* Weighted round robin keeps to the weights (`ProportionalShares`) until a
  backend is excluded a second time, which restarts the rotation and leaves a
  turn half used (`WeightedRoundRobin_FullTurns`).
* Excluding a backend from the ring moves its own clients only
  (`MinimalDisruption`), and no entry of it stays on the ring, though its endpoint
  be listed twice (`RefusedLeavesRing`). Consistent hashing is a `Selector` as
  long as no endpoint is listed twice and the hash of no name is one of another
  endpoint's. Otherwise the ring may run out of entries before the list runs out
  of nodes: then nothing throws, and the next selection dereferences the end of
  an empty map.
* Ip hash does not keep the connections of one ip at one backend, for the port is
  part of the hash (`IpHash_OneBackend`). Theorem `PortsAreSpread` says how far it
  goes: consecutive ports of one address lead to all backends.
* Least response time gives the backend with the least average
  (`LeastAverage`), which is 0 for every backend that no response of has been
  measured: one that accepts connections and never answers is given to every
  client (`UntriedFirst`). The first node of a repeated endpoint can neither be
  measured nor excluded (`RepeatedStays`).
* A session relays requests and responses in order and each at most once
  (`RelayedInOrder`). It loses a request only if that was sent before the answer
  to the one before, and a response only if the server sent an interim one before
  it, to any request: from then on the session is a response behind
  (`LossHasCause`), and `ClientRead` empties the buffers. A message brings its own
  body, and besides that only bodies of messages that arrived before it in the same
  direction (`SpoiledHasCause`): the strings that hold the bodies are never
  emptied. Between
  peers that do none of this, on a session without a body to repeat, the
  responses are the answers to the requests one by one (`AnswersMatch`) and
  every request is answered (`RequestsSettle`).
* No handler runs while a statement of `Start` can still throw: every thread has
  reached the barrier by then, and the locals that handlers use have been made
  (`RunsOnlyWhenReady`). `threads_number: 0` ends the process, because the
  constructor of the barrier throws (`ServesOrEnds`). A stop ends the process too,
  a thread that had not entered `run` yet included (`StopEndsProcess`).
* A process that serves has the threads, the listening port and the backends' ports
  that it was configured with, as far as they are ports (`ServesAsConfigured`); a
  number that is none silently becomes another. `ip_version` is ignored: the
  balancer always listens on IPv4 (`Startup_IpVersion`); without the field it does
  not start.

### Fairness

Safety is checked of `Spec`, without fairness. `FairSpec` adds that a thread
inside a handler, in its catch block or in a stopped `io_context` goes on, which
the scheduler and the absence of blocking calls justify, and that every resolve
and connect completes, which the kernel and the resolver do after a timeout at
the latest. No fairness is assumed of clients, of signals, or of reads and writes
of a session, which have no timeout; so nothing is claimed of how a session ends.

In `Session` weak fairness of `SessionStep` says that an operation that can
complete does, and that a read of a stream no message can start at fails; of
`ServerAnswers`, that the server answers what it has received. The latter is an
assumption about the server, not the code, and `RequestsSettle` is about what the
session makes of it. In `Startup` every thread is scheduled; no signal has to
arrive.

## Proofs

TLAPS checks every safety invariant of the passing runs, every action property
and every refinement for all values of the constants, and the refinement of
`IpHash`, which no run checks. Assumed are the named
assumptions of the modules, which give the constants their types; any further
assumption is in the theorem, and so is `ConstantsOK`, the types of `IpHash`. For each module the proof is an inductive
invariant `Inv`, a lemma for each action that preserves it, and the theorems,
which follow from it. TLC evaluates each `Inv` without error on the states of the
module's run.

### `Balancer`

* The basis is `Inv`: `TypeOK`, `PoolConsistent` (a handle leads to a node of its
  own name; without duplicates every node on the heap has its handle) and
  `HandlersOwned` (a thread in a handler holds a connection that is inside one,
  no two threads the same, and a thread outside a handler holds none). Without
  the last part an action of one thread could advance a connection in the hands
  of another. Theorem `TypeCorrect`.
* `ShutdownInv` follows an exception from the catch block to the exit code:
  `StopsOnlyForCause`, `ExitCodeIsTruthful`.
* `HeapSteps` says which steps change the set of nodes on the heap, and how; from
  it come `ExhaustionIsReported` and `ExclusionsHaveCause`.
* `RetryInv` makes `RefusedIsOut` inductive: a client not accepted yet was never
  tried, and the heap only ever loses nodes. `RefusedStaysOut`.
* `OneThreadNeverCrashes` assumes a single thread and at least one endpoint: the
  thread that emptied the heap is the only one, and it is not in a handler any
  more (`ExhaustionReported`).
* `CountersAccounted` assumes finitely many clients and is an induction over the
  actions with one lemma for what each does to the cardinalities in
  `Contribution`. `SelectionWithinFactorTwo` is arithmetic on top of it.
* `BalancerImplementsDispatch` assumes that no endpoint is listed twice, and maps
  every action to one of `Dispatch` or to a stutter.

### The selectors

Each selector's refinement of `Selector` maps `alive` to the names in its data
structure; every step is one of `Selector` or a stutter.

* `RoundRobin_proofs`. `KthElement` and `RemovedProperties` say what
  `std::remove` leaves: the entries other than the one removed, each as often as
  before. `NoBackendStarves` is not inductive by itself: a step that skips a
  backend would break it. `WaitsBounded` adds what is still `Ahead` of a backend
  to what it has waited; a selection takes one from the former and adds one to
  the latter, and an exclusion, which leaves the counter where it is, puts at most
  all the others ahead of it, which is what `Twice` allows for it.
* `WeightedRoundRobin_proofs`. `OneTurn`: only the entry at the counter has a turn
  in progress. `InRound`: those before it have had their share of the round,
  those after it nothing. So a backend has had between nothing and its share, and
  `SharesAreProportional` follows. Both parts need that no backend was excluded
  twice, the type invariant does not.
* `ConsistentHash_proofs`, for every hash function. `EntriesOfLast`: an entry of
  the ring is a hash of its node, and the node is the last listed under its name;
  so `EraseNode`, which starts from the entry under the hash of the name, finds
  the only node of that name. `NamesOnRing` and `ListOnRing`: that entry is there
  as long as any entry of the name is, and as long as the node is in the list.
  `DisruptionIsMinimal` adds that the least element of a set stays the least of
  every part it belongs to.
* `IpHash_proofs`. The invariant only gives types. `PortsAreSpread` is about how
  `OneAddressOneBackend` fails, and `PortsSpreadIndexes` is its
  arithmetic. Two ports less than `n` apart that lead to the same of `n` backends
  would make `n` a divisor of 37 * 37 times their distance; 37 is a prime, so as
  many ports lead to as many backends.
* `LeastResponseTime_proofs`. `AverageOfAppend`: folding one report into the
  average of those before it gives the average of all, and the division leaves
  no remainder. It is an induction over the reports, which the library's theorems
  do not offer to the provers, and so the module proves induction, and the
  existence of functions defined by recursion, from the fact that every set of
  natural numbers has a least element (`Induction`, `Recursion`). With it
  `AveragesExact` is inductive: the value at every handle is the average of all
  reports on its name. `OthersStay` says that the nodes without a handle stay in
  the heap at 0, and gives `RepeatedCannotLeave`; `HandlesOfLast`, that all
  others have one.

### `Session`

The streams are what makes this proof long. `StreamsOK` says that a buffer and
the socket behind it hold, in order, the last parts of what a peer has sent:
`TakenRequests` and `TakenResponses` count the parts that were parsed or cleared
before. A position in a stream then stands for a message. `RequestsInOrder` and
`ResponsesInOrder` place what was relayed before what is being relayed, and that
before what was taken. `RequestsAccounted` and `ResponsesAccounted` say what may
have become of each message taken, and that whatever is in a buffer when
`ClientRead` clears it is pipelined, or was sent after an interim response.
`ServerInOrder` and `Exchanges` tie the responses to the requests that the server
has received. `BodiesAccounted` says whose bodies the two strings hold, and
`AnswersInStep` that an orderly session has at most one exchange under way.
Theorems `RelaysInOrder`, `LossHasACause`, `SpoiledHasACause`,
`AnswersMatchRequests`.

### `Startup`

`ProgressOK` says which objects exist, what the acceptor is bound to, and what was
read of the configuration, at each statement of `Start`; `CreationOK`, which threads exist; `BarrierOK`, that
the barrier has let no thread pass or all. The latter is inductive because the
last to arrive releases all at once. No assumption is made about the order of
the threads.

### What stays with TLC

Liveness: `Settles`, `ShutdownCompletes`, `ExhaustionEnds`, `RequestsSettle`,
`ServesOrEnds`, `StopEndsProcess`. The properties that violated runs refute are not theorems, of
course; the counterexamples are TLC's.

## Not modelled

* The command line, the syntax of YAML and of a URL but for its port,
  `Backend::ToString` and what is logged: pure functions and output. A backend is its name.
* The contents and the framing of HTTP messages. A response to HEAD, or one that
  ends with the connection, is read by a parser that does not know the request;
  that is the library's, and in `Session` a read waits for ever only on a silent
  peer.
* A repeated endpoint under `least_connections`: `Balancer` has it, but its
  properties are stated for endpoints listed once. `RepeatedStays` shows what the
  same code does in `LeastResponseTime`.
* Rounding of the averages of `LeastResponseTime`, which are doubles.
* Destruction of outstanding handlers after `run` has returned.
* Data races on the acceptor, whose `Stop` may run beside its own handler: both
  orders of the two calls are modelled, a torn state of the socket is not.

## Plan

1. Done: `LeastConnections`, `Balancer`, `Dispatch`; `Selector` and the five other
   selectors; `Session`; `Startup`.
2. Done: the proofs of every safety property and refinement of the runs.
3. `Session` as a refinement of the `serving`, `cancelled`, `closed` part of
   `Balancer`, and its proof.
4. Theorems without a run: that `ProportionalShares` holds per rotation with the
   order of `std::sort` fixed; that the counters of `Balancer` return to zero when
   no connection is left and none has failed.
