------------------------------- MODULE Startup -------------------------------
(***************************************************************************)
(* From main to the threads of the pool and back (src/lb/application.cpp): *)
(* run, ConfigureApplication and Application::Start, with the parts of the *)
(* configuration that each of them reads.  Start builds the acceptor, the  *)
(* signal set, the selector and the connector as locals, creates all       *)
(* threads but its own, and each thread enters io_context::run once all    *)
(* have reached a barrier.                                                 *)
(*                                                                         *)
(* An exception in Start is caught by nobody and ends the process, as      *)
(* does one in ConfigureApplication, whose handler calls abort.            *)
(***************************************************************************)
EXTENDS Integers, Sequences, FiniteSets

CONSTANTS
  Configs,      \* the configurations the program may be started with
  Hardware,     \* boost::thread::hardware_concurrency()
  MaxThreads,   \* the largest number of threads a configuration asks for
  Undefined,    \* the value of a field that is not there
  Junk,         \* a value that cannot be read as the type the code asks for
  AutoThreads   \* threads_number: auto

ASSUME StartupAssumption ==
  /\ Hardware \in 1 .. MaxThreads /\ MaxThreads \in Nat
  /\ Undefined \notin Int /\ Junk \notin Int /\ AutoThreads \notin Int
  /\ \A c \in Configs : c.threads_number \in 0 .. MaxThreads \cup {Undefined, Junk, AutoThreads}

\* "endpoints" is a list unless it is missing or of the wrong type.  A port is
\* an int; in a URL it is written in at most six digits, without leading zeros.
ASSUME EndpointsAssumption ==
  \A c \in Configs :
    c.endpoints \notin {Undefined, Junk} =>
      /\ Len(c.endpoints) \in Nat /\ DOMAIN c.endpoints = 1 .. Len(c.endpoints)
      /\ \A i \in DOMAIN c.endpoints :
           LET e == c.endpoints[i]
           IN  IF e.url = Undefined
               THEN e.port \in {Undefined, Junk} \/ e.port \in Int
               ELSE e.url.port # Undefined => e.url.port \in Nat /\ e.url.port < 1000000

VARIABLES
  config,       \* what LoadConfig has read
  pc,           \* the next step of the first thread, or how the process ended
  made,         \* the objects that exist
  bound,        \* the family and port the acceptor is bound to
  backends,     \* the selector's backends
  threads_num,  \* size of the barrier
  threads,      \* state of each thread; 0 is the first
  stopped       \* io_context::stop has been called

vars == <<config, pc, made, bound, backends, threads_num, threads, stopped>>

Thread == 0 .. MaxThreads - 1

Starting == {"ConfigureApplication", "MakeAcceptor", "MakeSignals", "DetectSelector",
             "RegisterConnector", "ConfigureThreadPool", "CreateThreads"}
Ended == {"finished", "aborted", "killed"}
Phases == Starting \cup {"ThreadRoutine", "JoinAll"} \cup Ended

ThreadStates == {"none", "created", "waiting", "released", "running", "returned"}

Init ==
  /\ config \in Configs
  /\ pc = "ConfigureApplication"
  /\ made = {} /\ bound = Undefined /\ backends = <<>> /\ threads_num = 0
  /\ threads = [t \in Thread |-> "none"]
  /\ stopped = FALSE

-----------------------------------------------------------------------------
(* What is read of the configuration *)

\* A sink is left out, or a map with a level.
SinkAccepted(sink) == sink # Junk

\* ConfigureLogging: a map must be there; either sink may be left out.
LoggingAccepted ==
  /\ config.logging \notin {Undefined, Junk}
  /\ SinkAccepted(config.logging.console) /\ SinkAccepted(config.logging.file)

\* ConfigFromYAML.  An ip_version that is there is not looked at; one that is
\* not there is read as an int, which throws.
AcceptorAccepted ==
  /\ config.acceptor \notin {Undefined, Junk}
  /\ config.acceptor.ip_version # Undefined
  /\ config.acceptor.port \notin {Undefined, Junk}

FamilyRead == "v4"

\* A number becomes the unsigned short of an asio endpoint.
Narrowed(n) == n % 65536

AcceptorEndpoint == [family |-> FamilyRead, port |-> Narrowed(config.acceptor.port)]

\* Fault: an unknown protocol has port 0.
NoPortForUnknown(protocol) ==
  CASE protocol = "http" -> 80 [] protocol = "https" -> 443
    [] protocol = "ftp" -> 21 [] protocol = "ssh" -> 22
    [] OTHER -> 0

\* The port a URL without one gets.  It is http's when no protocol is given; of
\* an unknown protocol there is none, and the constructor throws.
DefaultProtocolPort(protocol) ==
  CASE protocol = "http" -> 80 [] protocol = "https" -> 443
    [] protocol = "ftp" -> 21 [] protocol = "ssh" -> 22
    [] OTHER -> Undefined

\* The pattern of Url takes two to five digits for a port.  A single digit is
\* taken for the path, and so is a sixth, behind the five that are the port.
UrlPort(url) ==
  IF url.port = Undefined \/ url.port < 10
  THEN DefaultProtocolPort(IF url.protocol = Undefined THEN "http" ELSE url.protocol)
  ELSE IF url.port < 100000 THEN url.port ELSE url.port \div 10

IpPort(endpoint) ==
  IF endpoint.ip \in {Undefined, Junk} \/ endpoint.port \in {Undefined, Junk}
  THEN Undefined ELSE Narrowed(endpoint.port)

\* An endpoint is read as a URL if it has one, and as ip and port if not; there
\* is no port if the constructor of Backend is not reached or throws.
PortOf(endpoint) ==
  IF endpoint.url # Undefined THEN UrlPort(endpoint.url) ELSE IpPort(endpoint)

Loopback6 == "::1"

\* The name of a replica, "<address>:<port>#0" of an ip endpoint, is read as a
\* URL again; it is none when the address begins with a colon.
ReplicasNamed(endpoint) ==
  endpoint.url # Undefined \/ config.replicas = 1 \/ endpoint.ip # Loopback6

EndpointAccepted(endpoint) ==
  /\ PortOf(endpoint) # Undefined
  /\ config.algorithm = "weighted_round_robin" => endpoint.weight \notin {Undefined, Junk}
  /\ config.algorithm = "consistent_hash" => ReplicasNamed(endpoint)

Algorithms == {"round_robin", "weighted_round_robin", "consistent_hash", "ip_hash",
               "least_connections", "least_response_time"}

\* DetectSelector and the Configure of the selector: a list of no endpoints
\* is accepted.
SelectorAccepted ==
  /\ config.algorithm \in Algorithms
  /\ config.algorithm = "consistent_hash" => config.replicas \notin {Undefined, Junk, 0}
  /\ config.endpoints \notin {Undefined, Junk}
  /\ \A i \in DOMAIN config.endpoints : EndpointAccepted(config.endpoints[i])

\* ConfigureThreadPool
ThreadsRead ==
  IF config.threads_number \in {Undefined, AutoThreads} THEN Hardware ELSE config.threads_number

-----------------------------------------------------------------------------
(* The first thread *)

Alive == pc \notin Ended

\* An exception leaves main, or abort is called.
Abort ==
  /\ pc' = "aborted"
  /\ UNCHANGED <<config, made, bound, backends, threads_num, threads, stopped>>

\* The configuration may fail to load, and the log file to open.
ConfigureApplication ==
  /\ pc = "ConfigureApplication"
  /\ \/ /\ LoggingAccepted
        /\ pc' = "MakeAcceptor"
        /\ made' = made \cup {"logger"}
        /\ UNCHANGED <<config, bound, backends, threads_num, threads, stopped>>
     \/ Abort

\* The constructor opens, binds and listens, which may fail; Run then starts
\* the first async_accept.
MakeAcceptor ==
  /\ pc = "MakeAcceptor"
  /\ \/ /\ AcceptorAccepted
        /\ pc' = "MakeSignals"
        /\ made' = made \cup {"acceptor"} /\ bound' = AcceptorEndpoint
        /\ UNCHANGED <<config, backends, threads_num, threads, stopped>>
     \/ Abort

MakeSignals ==
  /\ pc = "MakeSignals"
  /\ pc' = "DetectSelector"
  /\ made' = made \cup {"signals"}
  /\ UNCHANGED <<config, bound, backends, threads_num, threads, stopped>>

DetectSelector ==
  /\ pc = "DetectSelector"
  /\ IF SelectorAccepted
     THEN /\ pc' = "RegisterConnector"
          /\ backends' = [i \in DOMAIN config.endpoints |-> PortOf(config.endpoints[i])]
          /\ UNCHANGED <<config, made, bound, threads_num, threads, stopped>>
     ELSE Abort

RegisterConnector ==
  /\ pc = "RegisterConnector"
  /\ pc' = "ConfigureThreadPool"
  /\ made' = made \cup {"connector"}
  /\ UNCHANGED <<config, bound, backends, threads_num, threads, stopped>>

\* Fault: a barrier of 0 threads is made.
MakeAnyBarrier ==
  /\ pc = "ConfigureThreadPool"
  /\ IF config.threads_number = Junk
     THEN Abort
     ELSE /\ pc' = "CreateThreads"
          /\ threads_num' = ThreadsRead
          /\ UNCHANGED <<config, made, bound, backends, threads, stopped>>

\* The number of threads is read and the barrier made; boost::barrier throws
\* when it is 0.
ConfigureThreadPool ==
  /\ pc = "ConfigureThreadPool"
  /\ IF config.threads_number = Junk \/ ThreadsRead = 0
     THEN Abort
     ELSE /\ pc' = "CreateThreads"
          /\ threads_num' = ThreadsRead
          /\ UNCHANGED <<config, made, bound, backends, threads, stopped>>

Created == {t \in Thread \ {0} : threads[t] # "none"}

Becomes(t, state) == threads' = [threads EXCEPT ![t] = state]

\* Fault: the loop counts to threads_num.
CreateOneMore ==
  /\ pc = "CreateThreads"
  /\ Cardinality(Created) < threads_num
  /\ Becomes(Cardinality(Created) + 1, "created")
  /\ UNCHANGED <<config, pc, made, bound, backends, threads_num, stopped>>

\* All threads but the first are created, one by one; the system may refuse.
CreateThread ==
  /\ pc = "CreateThreads"
  /\ Cardinality(Created) + 1 < threads_num
  /\ \/ /\ Becomes(Cardinality(Created) + 1, "created")
        /\ UNCHANGED <<config, pc, made, bound, backends, threads_num, stopped>>
     \/ Abort

\* The first thread enters ThreadRoutine itself.
EnterThreadRoutine ==
  /\ pc = "CreateThreads"
  /\ Cardinality(Created) + 1 >= threads_num
  /\ Becomes(0, "created")
  /\ pc' = "ThreadRoutine"
  /\ UNCHANGED <<config, made, bound, backends, threads_num, stopped>>

\* join_all; then Start returns and its locals are destroyed.
JoinAll ==
  /\ pc = "JoinAll"
  /\ \A t \in Created : threads[t] = "returned"
  /\ pc' = "finished"
  /\ made' = made \ {"acceptor", "signals", "connector"}
  /\ UNCHANGED <<config, bound, backends, threads_num, threads, stopped>>

-----------------------------------------------------------------------------
(* ThreadRoutine *)

Waiting == {t \in Thread : threads[t] = "waiting"}

\* Fault: a thread does not wait for the others.
PassAtOnce(t) ==
  /\ Alive /\ threads[t] = "created"
  /\ Becomes(t, "released")
  /\ UNCHANGED <<config, pc, made, bound, backends, threads_num, stopped>>

\* barrier.wait(): the last thread to arrive releases all.
Arrive(t) ==
  /\ Alive /\ threads[t] = "created"
  /\ IF Cardinality(Waiting) + 1 = threads_num
     THEN threads' = [u \in Thread |-> IF u \in Waiting \cup {t} THEN "released" ELSE threads[u]]
     ELSE Becomes(t, "waiting")
  /\ UNCHANGED <<config, pc, made, bound, backends, threads_num, stopped>>

\* Fault: the io_context is restarted before it is run.
EnterRunRestarts(t) ==
  /\ Alive /\ threads[t] = "released"
  /\ Becomes(t, "running")
  /\ stopped' = FALSE
  /\ UNCHANGED <<config, pc, made, bound, backends, threads_num>>

\* The thread enters io_context::run, which another may have stopped already.
EnterRun(t) ==
  /\ Alive /\ threads[t] = "released"
  /\ Becomes(t, "running")
  /\ UNCHANGED <<config, pc, made, bound, backends, threads_num, stopped>>

\* A handler run by t stops the io_context: that of the signal, or one that an
\* exception leaves.
Stop(t) ==
  /\ Alive /\ threads[t] = "running" /\ ~stopped
  /\ stopped' = TRUE
  /\ UNCHANGED <<config, pc, made, bound, backends, threads_num, threads>>

\* run returns, and ThreadRoutine.
Leave(t) ==
  /\ Alive /\ threads[t] = "running" /\ stopped
  /\ Becomes(t, "returned")
  /\ pc' = IF t = 0 THEN "JoinAll" ELSE pc
  /\ UNCHANGED <<config, made, bound, backends, threads_num, stopped>>

\* A signal that arrives before the signal set is made ends the process.
Kill ==
  /\ Alive /\ "signals" \notin made
  /\ pc' = "killed"
  /\ UNCHANGED <<config, made, bound, backends, threads_num, threads, stopped>>

-----------------------------------------------------------------------------
FirstThread ==
  \/ ConfigureApplication \/ MakeAcceptor \/ MakeSignals \/ DetectSelector
  \/ RegisterConnector \/ ConfigureThreadPool \/ CreateThread \/ EnterThreadRoutine
  \/ JoinAll

PoolThread(t) == Arrive(t) \/ EnterRun(t) \/ Leave(t)

\* The process is over.
Over == ~Alive /\ UNCHANGED vars

Next ==
  \/ FirstThread
  \/ \E t \in Thread : PoolThread(t) \/ Stop(t)
  \/ Kill
  \/ Over

Spec == Init /\ [][Next]_vars

\* Threads are scheduled; nothing obliges a signal to arrive.
FairSpec == Spec /\ WF_vars(FirstThread) /\ \A t \in Thread : WF_vars(PoolThread(t))

-----------------------------------------------------------------------------
(* Properties *)

\* Types; and no more threads than the barrier counts are ever created: one too
\* many would wait at it for a round that never fills.
TypeOK ==
  /\ config \in Configs /\ pc \in Phases
  /\ made \subseteq {"logger", "acceptor", "signals", "connector"}
  /\ threads_num \in 0 .. MaxThreads
  /\ threads \in [Thread -> ThreadStates]
  /\ \A t \in Thread : threads[t] # "none" => t < threads_num
  /\ stopped \in BOOLEAN

\* No handler runs before Start is past every statement that may throw, the
\* creation of the last thread included: an exception there would destroy the
\* acceptor, the connector and the barrier under the handlers of the threads that
\* exist already.  And all that a handler may use has been made.
RunsOnlyWhenReady ==
  (\E t \in Thread : threads[t] = "running") /\ Alive =>
    /\ made = {"logger", "acceptor", "signals", "connector"}
    /\ \A t \in 0 .. threads_num - 1 : threads[t] \in {"released", "running", "returned"}

PortNumber == {n \in Nat : n < 65536}

PortNamed(endpoint) == IF endpoint.url # Undefined THEN endpoint.url.port ELSE endpoint.port

\* The ports that an endpoint can name: a URL's have two digits at least.
Nameable(endpoint) == IF endpoint.url # Undefined THEN {n \in PortNumber : n >= 10} ELSE PortNumber

\* A process that serves has as many threads as the configuration asks for and
\* listens on the port it names; and a backend for every endpoint in it, with the
\* port that is named, or, when none is, with a port that can be connected to.
\* Of numbers that are no port this says nothing: the code makes them others.
ServesAsConfigured ==
  threads[0] = "running" =>
    /\ Cardinality({t \in Thread : threads[t] # "none"}) =
         IF config.threads_number \in Nat THEN config.threads_number ELSE Hardware
    /\ config.acceptor.port \in PortNumber => bound.port = config.acceptor.port
    /\ Len(backends) = Len(config.endpoints)
    /\ \A i \in DOMAIN backends :
         LET e == config.endpoints[i] IN
         /\ PortNamed(e) \in Nameable(e) => backends[i] = PortNamed(e)
         /\ PortNamed(e) = Undefined => backends[i] \in PortNumber \ {0}

\* Started with a configuration that Start accepts, or with one it rejects, the
\* process ends up serving with all its threads or ends: no thread is left at a
\* barrier that never fills.
ServesOrEnds ==
  pc = "ConfigureApplication"
    ~> \/ pc \in Ended
       \/ threads_num > 0 /\ \A t \in 0 .. threads_num - 1 : threads[t] \in {"running", "returned"}

\* A stop lets every thread out of run, also one that enters it only afterwards,
\* because a handler of a faster thread has stopped the io_context: join_all would
\* wait for that one for ever.
StopEndsProcess == stopped ~> pc = "finished"

\* The acceptor listens on the address family the configuration names.
IpVersionHonoured ==
  threads[0] = "running" /\ config.acceptor.ip_version = 6 => bound.family = "v6"
=============================================================================
