------------------------------ MODULE Balancer ------------------------------
(***************************************************************************)
(* The running balancer under the least_connections algorithm: the         *)
(* acceptor, the connector, the life cycle of the sessions and the threads *)
(* that run their completion handlers.                                     *)
(*                                                                         *)
(* All work is done in completion handlers run by the threads inside       *)
(* io_context::run.  A thread takes one handler at a time; a handler that  *)
(* calls the selector twice (exclude then select again; the two calls of   *)
(* Cancel) is two steps here, for the selector's mutex is released between *)
(* the calls and a handler of another thread may run there.                *)
(***************************************************************************)
EXTENDS LeastConnections

CONSTANTS Clients,    \* client connections, each accepted at most once
          Threads,    \* the threads of the pool
          Urls,       \* the backends given by a URL rather than by ip and port
          NoBackend, NoClient

ASSUME BalancerAssumption ==
  /\ Urls \subseteq Backends
  /\ NoBackend \notin Backends
  /\ NoClient \notin Clients

VARIABLES
  acceptor,    \* state of the listening socket and its pending async_accept
  conn,        \* stage each client connection has reached
  target,      \* backend captured by the connection's handlers
  at,          \* what each thread is doing
  job,         \* connection whose handler the thread is running
  stopped,     \* io_context::stop has been called
  signalled,   \* the one pending signal wait has fired
  exit_code,
  crashed      \* undefined behaviour has been reached

appVars == <<acceptor, stopped, signalled, exit_code>>
vars == <<backends_, handle_pool_, conn, target, at, job, crashed, appVars>>

(***************************************************************************)
(* The stages of a connection.  "selecting", "refused" and "cancelled" are *)
(* reached inside a handler; in "resolving", "connecting" and "serving" an *)
(* asynchronous operation is outstanding and no thread holds it.  "closed" *)
(* ended as a session, "dropped" failed before one was made, "lost" was    *)
(* destroyed by an exception.                                              *)
(***************************************************************************)
InHandler == {"selecting", "refused", "cancelled"}
Waiting   == {"resolving", "connecting", "serving"}
Stages    == {"outside"} \cup InHandler \cup Waiting \cup {"closed", "dropped", "lost"}

ThreadStates == {"run", "handler", "caught", "terminate", "exited"}

TypeOK ==
  /\ LCTypeOK
  /\ acceptor \in {"listening", "aborted", "closed"}
  /\ conn \in [Clients -> Stages]
  /\ target \in [Clients -> Backends \cup {NoBackend}]
  /\ at \in [Threads -> ThreadStates]
  /\ job \in [Threads -> Clients \cup {NoClient}]
  /\ stopped \in BOOLEAN /\ signalled \in BOOLEAN /\ crashed \in BOOLEAN
  /\ exit_code \in {"success", "failure"}

\* ThreadRoutine once every thread has passed the barrier.
Init ==
  /\ Configure
  /\ acceptor = "listening"
  /\ conn = [c \in Clients |-> "outside"]
  /\ target = [c \in Clients |-> NoBackend]
  /\ at = [t \in Threads |-> "run"]
  /\ job = [t \in Threads |-> NoClient]
  /\ stopped = FALSE /\ signalled = FALSE /\ crashed = FALSE
  /\ exit_code = "success"

-----------------------------------------------------------------------------
\* A thread in io_context::run that can be given a ready handler.
Free(t) == at[t] = "run" /\ ~stopped /\ ~crashed

\* Thread t is inside the handler of its connection, at the given stage.
Running(t, stage) ==
  at[t] = "handler" /\ conn[job[t]] = stage /\ ~crashed

Advance(c, stage) == conn' = [conn EXCEPT ![c] = stage]

\* A handler of c begins on thread t and needs further steps.
Begin(t, c) == at' = [at EXCEPT ![t] = "handler"] /\ job' = [job EXCEPT ![t] = c]

\* The handler t was running returns to io_context::run.
Return(t) == at' = [at EXCEPT ![t] = "run"] /\ job' = [job EXCEPT ![t] = NoClient]

\* An exception leaves the handler, and io_context::run with it.
Throw(t) == at' = [at EXCEPT ![t] = "caught"] /\ job' = [job EXCEPT ![t] = NoClient]

-----------------------------------------------------------------------------
(* Acceptor *)

\* The accept handler re-arms itself, then enters MakeAndRunSession.  After
\* Acceptor::Stop an accept that had already completed still gets here.
Accept(t, c) ==
  /\ Free(t) /\ acceptor # "closed" /\ conn[c] = "outside"
  /\ acceptor' = "listening"
  /\ Advance(c, "selecting") /\ Begin(t, c)
  /\ UNCHANGED <<lcVars, target, stopped, signalled, exit_code, crashed>>

\* Any accept error, the abort by Stop included, closes the listening socket.
AcceptError(t) ==
  /\ Free(t) /\ acceptor # "closed"
  /\ acceptor' = "closed"
  /\ UNCHANGED <<lcVars, conn, target, at, job, stopped, signalled, exit_code, crashed>>

-----------------------------------------------------------------------------
(* Connector::MakeAndRunSession *)

\* SelectBackend, then the resolve or connect is started and the handler
\* returns.
Select(t) ==
  LET c == job[t] IN
  /\ Running(t, "selecting")
  /\ \E b \in Backends :
       /\ SelectBackend(b)
       /\ target' = [target EXCEPT ![c] = b]
       /\ Advance(c, IF b \in Urls THEN "resolving" ELSE "connecting")
  /\ Return(t)
  /\ UNCHANGED <<appVars, crashed>>

\* SelectBackend on an empty heap.
SelectCrash(t) ==
  /\ Running(t, "selecting") /\ SelectUndefined
  /\ crashed' = TRUE
  /\ UNCHANGED <<lcVars, conn, target, at, job, appVars>>

\* client_socket.remote_endpoint() throws when the client has disconnected.
ClientGone(t) ==
  /\ Running(t, "selecting")
  /\ Advance(job[t], "lost") /\ Throw(t)
  /\ UNCHANGED <<lcVars, target, appVars, crashed>>

Resolved(t, c) ==
  /\ Free(t) /\ conn[c] = "resolving"
  /\ Advance(c, "connecting")
  /\ UNCHANGED <<lcVars, target, at, job, appVars, crashed>>

\* connection_refused: from the resolver, or from the connect to an ip
\* endpoint.  The connect that follows a resolve has no such branch.
Refused(t, c) ==
  /\ Free(t)
  /\ \/ conn[c] = "resolving"
     \/ conn[c] = "connecting" /\ target[c] \notin Urls
  /\ Advance(c, "refused") /\ Begin(t, c)
  /\ UNCHANGED <<lcVars, target, appVars, crashed>>

\* Fault: every error excludes the backend.
ConnectFailedExcludes(t, c) ==
  /\ Free(t) /\ conn[c] \in {"resolving", "connecting"}
  /\ ExcludeBackend(target[c])
  /\ Advance(c, "dropped")
  /\ UNCHANGED <<target, at, job, appVars, crashed>>

\* Every other error: the handler logs it and returns, which destroys both
\* sockets.  No session exists, so nothing tells the selector.
ConnectFailed(t, c) ==
  /\ Free(t) /\ conn[c] \in {"resolving", "connecting"}
  /\ Advance(c, "dropped")
  /\ UNCHANGED <<lcVars, target, at, job, appVars, crashed>>

\* MakeSession and Run, which calls OnConnect and starts the first read.
Connected(t, c) ==
  /\ Free(t) /\ conn[c] = "connecting"
  /\ IncreaseConnectionCount(target[c])
  /\ Advance(c, "serving")
  /\ UNCHANGED <<target, at, job, appVars, crashed>>

\* ExcludeBackend in the handler of a refused connect; then either it throws
\* or MakeAndRunSession is called again with the same client.
Exclude(t) ==
  LET c == job[t] IN
  /\ Running(t, "refused")
  /\ ExcludeBackend(target[c])
  /\ IF ExcludeThrows(target[c])
     THEN Throw(t) /\ Advance(c, "lost")
     ELSE Advance(c, "selecting") /\ UNCHANGED <<at, job>>
  /\ UNCHANGED <<target, appVars, crashed>>

-----------------------------------------------------------------------------
(* HttpSession, as the selector sees it: requests and responses relayed     *)
(* without error change nothing here.                                       *)

\* A read or write of the session completes with an error: Cancel.
SessionError(t, c) ==
  /\ Free(t) /\ conn[c] = "serving"
  /\ DecreaseConnectionCount(target[c])
  /\ Advance(c, "cancelled") /\ Begin(t, c)
  /\ UNCHANGED <<target, appVars, crashed>>

\* The handler returns and drops the last reference to the session, whose
\* destructor calls Cancel once more.
Destroy(t) ==
  /\ Running(t, "cancelled")
  /\ DecreaseConnectionCount(target[job[t]])
  /\ Advance(job[t], "closed") /\ Return(t)
  /\ UNCHANGED <<target, appVars, crashed>>

-----------------------------------------------------------------------------
(* ThreadRoutine, the signal handler and Application::Terminate *)

\* Faults: the failure is not recorded; the thread goes back to io_context::run.
CatchUnrecorded(t) ==
  /\ at[t] = "caught" /\ ~crashed
  /\ at' = [at EXCEPT ![t] = "terminate"]
  /\ UNCHANGED <<lcVars, conn, target, job, appVars, crashed>>

CatchAndContinue(t) ==
  /\ at[t] = "caught" /\ ~crashed
  /\ exit_code' = "failure"
  /\ at' = [at EXCEPT ![t] = "run"]
  /\ UNCHANGED <<lcVars, conn, target, job, acceptor, stopped, signalled, crashed>>

\* The catch block records the failure, then terminates.
Catch(t) ==
  /\ at[t] = "caught" /\ ~crashed
  /\ exit_code' = "failure"
  /\ at' = [at EXCEPT ![t] = "terminate"]
  /\ UNCHANGED <<lcVars, conn, target, job, acceptor, stopped, signalled, crashed>>

\* SIGINT or SIGTERM: the handler stops the acceptor, then terminates.  The
\* cancel in Acceptor::Stop throws when the listening socket is closed already.
Signal(t) ==
  /\ Free(t) /\ ~signalled
  /\ signalled' = TRUE
  /\ IF acceptor = "closed"
     THEN at' = [at EXCEPT ![t] = "caught"] /\ UNCHANGED acceptor
     ELSE at' = [at EXCEPT ![t] = "terminate"] /\ acceptor' = "aborted"
  /\ UNCHANGED <<lcVars, conn, target, job, stopped, exit_code, crashed>>

\* Fault: SetExitCode(EXIT_SUCCESS) overwrites the failure.
TerminateOverwrites(t) ==
  /\ at[t] = "terminate" /\ ~crashed
  /\ stopped' = TRUE
  /\ exit_code' = "success"
  /\ at' = [at EXCEPT ![t] = "exited"]
  /\ UNCHANGED <<lcVars, conn, target, job, acceptor, signalled, crashed>>

\* io_context::stop; the thread then leaves ThreadRoutine, and its last
\* SetExitCode(EXIT_SUCCESS) has no effect.
Terminate(t) ==
  /\ at[t] = "terminate" /\ ~crashed
  /\ stopped' = TRUE
  /\ at' = [at EXCEPT ![t] = "exited"]
  /\ UNCHANGED <<lcVars, conn, target, job, acceptor, signalled, exit_code, crashed>>

\* Fault: run returns only once no connection has an operation outstanding.
LeaveWhenIdle(t) ==
  /\ at[t] = "run" /\ stopped /\ ~crashed
  /\ \A c \in Clients : conn[c] \notin Waiting
  /\ at' = [at EXCEPT ![t] = "exited"]
  /\ UNCHANGED <<lcVars, conn, target, job, appVars, crashed>>

\* io_context::run returns in a thread between handlers.
Leave(t) ==
  /\ at[t] = "run" /\ stopped /\ ~crashed
  /\ at' = [at EXCEPT ![t] = "exited"]
  /\ UNCHANGED <<lcVars, conn, target, job, appVars, crashed>>

AllExited == \A t \in Threads : at[t] = "exited"

\* The process is over.
Finished == (crashed \/ AllExited) /\ UNCHANGED vars

-----------------------------------------------------------------------------
\* Steps a thread takes on its own, once given a handler.
ThreadStep(t) ==
  \/ Select(t) \/ SelectCrash(t) \/ ClientGone(t) \/ Exclude(t) \/ Destroy(t)
  \/ Catch(t) \/ Terminate(t) \/ Leave(t)

\* The outstanding resolve or connect of c completes.
ConnectStep(c) ==
  \E t \in Threads :
    Resolved(t, c) \/ Refused(t, c) \/ ConnectFailed(t, c) \/ Connected(t, c)

Next ==
  \/ \E t \in Threads : ThreadStep(t) \/ AcceptError(t) \/ Signal(t)
  \/ \E c \in Clients : ConnectStep(c)
  \/ \E t \in Threads, c \in Clients : Accept(t, c) \/ SessionError(t, c)
  \/ Finished

Spec == Init /\ [][Next]_vars

\* Threads are scheduled, and the kernel completes every resolve and connect,
\* with a timeout if need be.  Nothing obliges a client to come, a session to
\* end (its reads have no timeout) or a signal to arrive.
Fairness ==
  /\ \A t \in Threads : WF_vars(ThreadStep(t))
  /\ \A c \in Clients : WF_vars(ConnectStep(c))

FairSpec == Spec /\ Fairness

-----------------------------------------------------------------------------
(* Properties *)

On(b, stages) == {c \in Clients : target[c] = b /\ conn[c] \in stages}

\* Connections that exist on b: their backend socket is open or opening.
Live(b) == Cardinality(On(b, {"resolving", "connecting", "refused", "serving", "cancelled"}))

\* What the live and the dropped connections of b contribute to its counter:
\* SelectBackend counts once and OnConnect once more, Cancel takes one back
\* each time it is called, and nothing takes back the count of a connect that
\* failed.
Contribution(b) ==
  Cardinality(On(b, {"resolving", "connecting", "refused", "cancelled", "dropped"}))
    + 2 * Cardinality(On(b, {"serving"}))

\* Every counter in the heap is accounted for by connections, exactly: no
\* increment or decrement of SelectBackend, OnConnect or the two calls of
\* Cancel is lost to an interleaving or swallowed by the counter > 0 guard.
Accounting ==
  NoDuplicates =>
    \A n \in DOMAIN backends_ : backends_[n] = Contribution(Config[n])

\* The connector's retry makes progress: while a refused client selects again
\* its last target is no longer on the heap.
RefusedIsOut ==
  NoDuplicates => \A c \in Clients :
    conn[c] = "selecting" /\ target[c] # NoBackend =>
      \A n \in DOMAIN backends_ : Config[n] # target[c]

\* ExcludeBackend's exception is never lost: once the last backend is
\* excluded, a thread is on its way to stop the io_context, or has.
ExhaustionReported ==
  Node # {} /\ DOMAIN backends_ = {} =>
    stopped \/ \E t \in Threads : at[t] \in {"caught", "terminate"}

\* The process reports failure when an exception ended the handler of a client,
\* and otherwise only after a signal, with the listening socket closed at the end:
\* the handler of a signal fails when an accept error closed the socket before.
ExitCodeTruthful ==
  AllExited =>
    /\ (\E c \in Clients : conn[c] = "lost") => exit_code = "failure"
    /\ exit_code = "failure" =>
         (\E c \in Clients : conn[c] = "lost") \/ (signalled /\ acceptor = "closed")

\* The io_context stops only for a signal or for an exception.
StopHasCause == stopped => signalled \/ exit_code = "failure"

\* SelectBackend is never called on an empty heap.
NeverCrashes == ~crashed

Selected(c) == conn[c] = "selecting" /\ conn'[c] \in {"resolving", "connecting"}

\* The backend selected has the fewest connections of all in rotation.
FewestConnections ==
  [][\A c \in Clients : Selected(c) =>
       \A n \in DOMAIN backends_ : Live(target'[c]) <= Live(Config[n])]_vars

Dropped(b) == Cardinality(On(b, {"dropped"}))

\* What the counting of SelectBackend and OnConnect does guarantee: the
\* backend selected has at most twice the connections of any other, connects
\* that failed counted.
WithinFactorTwo ==
  [][NoDuplicates => \A c \in Clients : Selected(c) =>
       \A n \in DOMAIN backends_ :
         Live(target'[c]) <= 2 * Live(Config[n]) + Dropped(Config[n])]_vars

\* A backend leaves the rotation only in the handler of a client it refused.
ExclusionHasCause ==
  [][\A n \in DOMAIN backends_ \ DOMAIN backends_' :
       \E c \in Clients : conn[c] = "refused" /\ conn'[c] # "refused"
                          /\ target[c] = Config[n]]_vars

\* A client that has been accepted is not retried for ever.
Settles ==
  \A c \in Clients :
    conn[c] \in {"selecting", "resolving", "connecting", "refused"}
      ~> (conn[c] \in {"serving", "closed", "dropped", "lost"} \/ stopped \/ crashed)

\* Once one thread stops the io_context every thread leaves it.
ShutdownCompletes == stopped ~> (AllExited \/ crashed)

\* Losing the last backend ends the process.
ExhaustionEnds == Node # {} /\ DOMAIN backends_ = {} ~> (AllExited \/ crashed)

-----------------------------------------------------------------------------
(* Refinement of Dispatch *)

FateOf(stage) ==
  CASE stage = "outside" -> "outside"
    [] stage = "selecting" -> "waiting"
    [] stage \in {"resolving", "connecting", "refused"} -> "trying"
    [] stage \in {"serving", "cancelled"} -> "served"
    [] stage \in {"closed", "dropped", "lost"} -> "ended"

InRotation == {Config[n] : n \in DOMAIN backends_}

D == INSTANCE Dispatch WITH
       alive <- InRotation, fate <- [c \in Clients |-> FateOf(conn[c])]

ImplementsDispatch == D!Spec
=============================================================================
