--------------------------- MODULE Startup_proofs ---------------------------
(***************************************************************************)
(* Theorems of Startup for every set of configurations, every number of    *)
(* threads they ask for and every number of processors.                    *)
(***************************************************************************)
EXTENDS Startup, FiniteSetTheorems, TLAPS

-----------------------------------------------------------------------------
(* The inductive invariant. *)

AllMade == {"logger", "acceptor", "signals", "connector"}

\* What the first thread has done by the time it is where pc says.
ProgressOK ==
  /\ pc \in Starting \ {"CreateThreads"} => \A t \in Thread : threads[t] = "none"
  /\ pc = "ConfigureApplication" => made = {}
  /\ pc = "MakeAcceptor" => made = {"logger"}
  /\ pc = "MakeSignals" => made = {"logger", "acceptor"}
  /\ pc \in {"DetectSelector", "RegisterConnector"} => made = {"logger", "acceptor", "signals"}
  /\ pc \in {"ConfigureThreadPool", "CreateThreads", "ThreadRoutine", "JoinAll"}
       => made = AllMade
  /\ pc \in {"MakeSignals", "DetectSelector", "RegisterConnector", "ConfigureThreadPool",
             "CreateThreads", "ThreadRoutine", "JoinAll"}
       => bound = AcceptorEndpoint
  /\ pc \in {"CreateThreads", "ThreadRoutine", "JoinAll"}
       => threads_num \in Nat \ {0} /\ threads_num = ThreadsRead /\ config.threads_number # Junk
  /\ pc \in {"RegisterConnector", "ConfigureThreadPool", "CreateThreads",
             "ThreadRoutine", "JoinAll"}
       => /\ SelectorAccepted
          /\ backends = [i \in DOMAIN config.endpoints |-> PortOf(config.endpoints[i])]

\* While threads are created, those that exist are 1 .. n; then all exist, and
\* the first is through with ThreadRoutine when it joins the others.
CreationOK ==
  /\ pc = "CreateThreads" =>
       /\ threads[0] = "none"
       /\ \E n \in 0 .. threads_num - 1 : Created = 1 .. n
  /\ pc \in {"ThreadRoutine", "JoinAll"} => \A t \in 0 .. threads_num - 1 : threads[t] # "none"
  /\ pc \in {"ThreadRoutine", "JoinAll"} => (pc = "JoinAll" <=> threads[0] = "returned")
  /\ pc = "finished" => \A t \in Thread : threads[t] \in {"none", "returned"}
  /\ pc \in {"aborted", "killed"} => threads[0] = "none"

Past == {"released", "running", "returned"}

\* The barrier has let no thread pass, or all.
BarrierOK ==
  \/ \A t \in Thread : threads[t] \notin Past
  \/ \A t \in 0 .. threads_num - 1 : threads[t] \in Past

Inv == TypeOK /\ ProgressOK /\ CreationOK /\ BarrierOK

LEMMA Constants ==
  /\ MaxThreads \in Nat /\ 0 \in Thread /\ Thread \subseteq Nat
  /\ IsFiniteSet(Thread)
BY StartupAssumption, FS_Interval DEF Thread

LEMMA InvInit == Init => Inv
<1> SUFFICES ASSUME Init PROVE Inv
  OBVIOUS
<1>1. TypeOK
  <2>1. threads \in [Thread -> ThreadStates] /\ \A t \in Thread : threads[t] = "none"
    BY DEF Init, ThreadStates
  <2>2. threads_num \in 0 .. MaxThreads
    BY Constants DEF Init
  <2>3. config \in Configs /\ pc \in Phases /\ made = {} /\ stopped \in BOOLEAN
    BY DEF Init, Phases, Starting
  <2> QED BY <2>1, <2>2, <2>3 DEF TypeOK
<1>2. ProgressOK
  BY DEF Init, ProgressOK, Starting
<1>3. CreationOK /\ BarrierOK
  BY DEF Init, CreationOK, BarrierOK, Past
<1> QED BY <1>1, <1>2, <1>3 DEF Inv

-----------------------------------------------------------------------------
(* The steps of the first thread *)

\* A step of the configuration touches no thread.
LEMMA AbortKeeps ==
  ASSUME Inv, Abort, \A t \in Thread : threads[t] = "none" \/ pc = "CreateThreads"
  PROVE  Inv'
<1>1. threads[0] = "none"
  BY Constants DEF Inv, CreationOK, Abort
<1>2. TypeOK'
  BY DEF Inv, TypeOK, Abort, Phases, Starting, Ended
<1>3. ProgressOK' /\ CreationOK' /\ BarrierOK'
  BY <1>1 DEF Inv, ProgressOK, CreationOK, BarrierOK, Abort, Starting
<1> QED BY <1>2, <1>3 DEF Inv

LEMMA ConfigurationKeeps ==
  ASSUME Inv,
         \/ ConfigureApplication \/ MakeAcceptor \/ MakeSignals
         \/ DetectSelector \/ RegisterConnector \/ ConfigureThreadPool
  PROVE  Inv'
<1>1. pc \in Starting \ {"CreateThreads"} /\ \A t \in Thread : threads[t] = "none"
  BY DEF Inv, ProgressOK, Starting, ConfigureApplication, MakeAcceptor, MakeSignals,
         DetectSelector, RegisterConnector, ConfigureThreadPool
<1>2. CASE Abort
  BY <1>1, <1>2, AbortKeeps
<1>3. CASE ~Abort
  <2>1. threads' = threads /\ config' = config /\ stopped' = stopped
    BY <1>3 DEF ConfigureApplication, MakeAcceptor, MakeSignals, DetectSelector,
                RegisterConnector, ConfigureThreadPool
  <2>2. BarrierOK' /\ CreationOK'
    <3>1. Created' = 1 .. 0
      BY <1>1, <2>1 DEF Created
    <3>2. pc' \in Starting
      BY <1>3 DEF ConfigureApplication, MakeAcceptor, MakeSignals, DetectSelector,
                  RegisterConnector, ConfigureThreadPool, Starting
    <3>3. pc' = "CreateThreads" => threads_num' \in Nat \ {0}
      BY <1>3, StartupAssumption
      DEF ConfigureApplication, MakeAcceptor, MakeSignals, DetectSelector, RegisterConnector,
          ConfigureThreadPool, ThreadsRead, Inv, TypeOK
    <3> QED BY <1>1, <2>1, <3>1, <3>2, <3>3, Constants
            DEF BarrierOK, CreationOK, Past, Starting
  <2>3. CASE ConfigureThreadPool
    <3>1. threads_num' = ThreadsRead /\ ThreadsRead # 0 /\ config.threads_number # Junk
      BY <1>3, <2>3 DEF ConfigureThreadPool
    <3>2. ThreadsRead \in 1 .. MaxThreads
      BY <3>1, StartupAssumption DEF Inv, TypeOK, ThreadsRead
    <3>3. TypeOK'
      <4>1. pc' = "CreateThreads" /\ made' = made
        BY <1>3, <2>3 DEF ConfigureThreadPool
      <4>2. threads_num' \in 0 .. MaxThreads
        BY <3>1, <3>2, Constants
      <4> QED BY <1>1, <2>1, <4>1, <4>2 DEF Inv, TypeOK, Phases, Starting
    <3>4. ProgressOK'
      <4>1. /\ SelectorAccepted' = SelectorAccepted /\ ThreadsRead' = ThreadsRead
            /\ AcceptorEndpoint' = AcceptorEndpoint
        BY <2>1 DEF SelectorAccepted, EndpointAccepted, ReplicasNamed, AcceptorEndpoint, ThreadsRead
      <4> QED
        BY <1>1, <1>3, <2>1, <2>3, <3>1, <3>2, <4>1
        DEF Inv, ProgressOK, ConfigureThreadPool, Starting
    <3> QED BY <2>2, <3>3, <3>4 DEF Inv
  <2>4. CASE ~ConfigureThreadPool
    <3>1. TypeOK'
      BY <1>1, <1>3, <2>1, <2>4
      DEF Inv, TypeOK, ConfigureApplication, MakeAcceptor, MakeSignals, DetectSelector,
          RegisterConnector, Phases, Starting
    <3>2. ProgressOK'
      <4>1. SelectorAccepted' = SelectorAccepted /\ AcceptorEndpoint' = AcceptorEndpoint
        BY <2>1 DEF SelectorAccepted, EndpointAccepted, ReplicasNamed, AcceptorEndpoint
      <4> QED
        BY <1>1, <1>3, <2>1, <2>4, <4>1
        DEF Inv, ProgressOK, ConfigureApplication, MakeAcceptor, MakeSignals, DetectSelector,
            RegisterConnector, Starting, AllMade
    <3> QED BY <2>2, <3>1, <3>2 DEF Inv
  <2> QED BY <2>3, <2>4
<1> QED BY <1>2, <1>3

\* The threads created are an initial segment, so the next has the number of
\* those there are, plus one.
LEMMA NextThread ==
  ASSUME Inv, pc = "CreateThreads"
  PROVE  /\ Created = 1 .. Cardinality(Created)
         /\ Cardinality(Created) \in 0 .. threads_num - 1
         /\ threads_num \in Nat /\ threads_num <= MaxThreads
<1>1. PICK n \in 0 .. threads_num - 1 : Created = 1 .. n
  BY DEF Inv, CreationOK
<1>2. threads_num \in Nat /\ threads_num <= MaxThreads
  BY Constants DEF Inv, TypeOK
<1>3. Cardinality(Created) = n
  BY <1>1, <1>2, FS_Interval
<1> QED BY <1>1, <1>2, <1>3

LEMMA CreateThreadKeeps == ASSUME Inv, CreateThread PROVE Inv'
<1>1. CASE Abort
  BY <1>1, AbortKeeps DEF CreateThread
<1>2. CASE ~Abort
  <2> DEFINE t == Cardinality(Created) + 1
  <2>1. /\ pc = "CreateThreads" /\ threads' = [threads EXCEPT ![t] = "created"]
        /\ UNCHANGED <<config, pc, made, bound, backends, threads_num, stopped>>
        /\ t < threads_num
    BY <1>2 DEF CreateThread, Becomes
  <2>2. /\ t \in Thread \ {0} /\ Created = 1 .. t - 1
        /\ threads_num \in Nat /\ threads_num <= MaxThreads
    BY <2>1, NextThread, Constants DEF Thread
  <2> HIDE DEF t
  <2>3. TypeOK'
    BY <2>1, <2>2 DEF Inv, TypeOK, ThreadStates
  <2>4. ProgressOK'
    <3>1. /\ SelectorAccepted' = SelectorAccepted /\ ThreadsRead' = ThreadsRead
          /\ AcceptorEndpoint' = AcceptorEndpoint
      BY <2>1 DEF SelectorAccepted, EndpointAccepted, ReplicasNamed, AcceptorEndpoint, ThreadsRead
    <3> QED BY <2>1, <3>1 DEF Inv, ProgressOK, Starting
  <2>5. CreationOK'
    <3>1. Created' = Created \cup {t}
      BY <2>1, <2>2 DEF Created, Inv, TypeOK
    <3>2. Created' = 1 .. t /\ t \in 0 .. threads_num - 1
      BY <2>1, <2>2, <3>1, Constants
    <3> QED BY <2>1, <2>2, <3>2, Constants DEF Inv, CreationOK, TypeOK
  <2>6. BarrierOK'
    <3>1. threads[0] = "none" /\ 0 \in 0 .. threads_num - 1
      BY <2>1, <2>2, Constants DEF Inv, CreationOK, ProgressOK
    <3>2. \A u \in Thread : threads[u] \notin Past
      BY <3>1 DEF Inv, BarrierOK, Past
    <3> QED BY <2>1, <2>2, <3>2 DEF BarrierOK, Past, Inv, TypeOK
  <2> QED BY <2>3, <2>4, <2>5, <2>6 DEF Inv
<1> QED BY <1>1, <1>2

LEMMA EnterThreadRoutineKeeps == ASSUME Inv, EnterThreadRoutine PROVE Inv'
<1>1. /\ pc = "CreateThreads" /\ pc' = "ThreadRoutine"
      /\ threads' = [threads EXCEPT ![0] = "created"]
      /\ UNCHANGED <<config, made, bound, backends, threads_num, stopped>>
  BY DEF EnterThreadRoutine, Becomes
<1>2. /\ Created = 1 .. threads_num - 1
      /\ threads_num \in Nat \ {0} /\ threads_num <= MaxThreads
      /\ threads[0] = "none"
  <2>1. Cardinality(Created) + 1 >= threads_num
    BY DEF EnterThreadRoutine
  <2> QED BY <1>1, <2>1, NextThread DEF Inv, ProgressOK, CreationOK
<1>3. TypeOK'
  BY <1>1, <1>2, Constants DEF Inv, TypeOK, ThreadStates, Phases
<1>4. ProgressOK'
  <2>1. /\ SelectorAccepted' = SelectorAccepted /\ ThreadsRead' = ThreadsRead
        /\ AcceptorEndpoint' = AcceptorEndpoint
    BY <1>1 DEF SelectorAccepted, EndpointAccepted, ReplicasNamed, AcceptorEndpoint, ThreadsRead
  <2> QED BY <1>1, <2>1 DEF Inv, ProgressOK, Starting
<1>5. CreationOK'
  <2>1. \A t \in 0 .. threads_num - 1 : t \in Thread /\ (t = 0 \/ t \in Created)
    BY <1>2, Constants DEF Thread
  <2> QED BY <1>1, <2>1, Constants DEF CreationOK, Created, Inv, TypeOK
<1>6. BarrierOK'
  <2>1. \A u \in Thread : threads[u] \notin Past
    BY <1>2 DEF Inv, BarrierOK, Past
  <2> QED BY <1>1, <2>1, Constants DEF BarrierOK, Past, Inv, TypeOK
<1> QED BY <1>3, <1>4, <1>5, <1>6 DEF Inv

LEMMA JoinAllKeeps == ASSUME Inv, JoinAll PROVE Inv'
<1>1. /\ pc = "JoinAll" /\ pc' = "finished" /\ threads' = threads
      /\ config' = config /\ backends' = backends
      /\ threads_num' = threads_num /\ stopped' = stopped
      /\ made' \subseteq made
  BY DEF JoinAll
<1>2. \A t \in Thread : threads[t] \in {"none", "returned"}
  BY <1>1, Constants DEF JoinAll, Created, Inv, CreationOK
<1>3. TypeOK'
  BY <1>1 DEF Inv, TypeOK, Phases, Ended
<1>4. ProgressOK' /\ CreationOK' /\ BarrierOK'
  BY <1>1, <1>2 DEF Inv, ProgressOK, CreationOK, BarrierOK, Starting
<1> QED BY <1>3, <1>4 DEF Inv

LEMMA KillKeeps == ASSUME Inv, Kill PROVE Inv'
<1>1. /\ pc' = "killed"
      /\ UNCHANGED <<config, made, bound, backends, threads_num, threads, stopped>>
      /\ pc \in Starting \ {"CreateThreads"}
  BY DEF Kill, Alive, Ended, Inv, TypeOK, ProgressOK, Phases, Starting, AllMade
<1>2. \A t \in Thread : threads[t] = "none"
  BY <1>1 DEF Inv, ProgressOK
<1>3. TypeOK'
  BY <1>1 DEF Inv, TypeOK, Phases, Ended
<1>4. ProgressOK' /\ CreationOK' /\ BarrierOK'
  BY <1>1, <1>2, Constants DEF Inv, ProgressOK, CreationOK, BarrierOK, Starting
<1> QED BY <1>3, <1>4 DEF Inv

-----------------------------------------------------------------------------
(* The steps of the threads in ThreadRoutine *)

\* A thread that is created, waits or runs is one of the pool, and the
\* configuration has been read.
LEMMA InPool ==
  ASSUME Inv, Alive, NEW t \in Thread, threads[t] # "none"
  PROVE  /\ pc \in {"CreateThreads", "ThreadRoutine", "JoinAll"}
         /\ t \in 0 .. threads_num - 1
         /\ threads_num \in Nat \ {0} /\ threads_num <= MaxThreads
<1>1. pc \in {"CreateThreads", "ThreadRoutine", "JoinAll"}
  BY DEF Inv, TypeOK, ProgressOK, Alive, Phases
<1>2. threads_num \in Nat \ {0} /\ threads_num <= MaxThreads
  BY <1>1, Constants DEF Inv, TypeOK, ProgressOK
<1> QED BY <1>1, <1>2, Constants DEF Inv, TypeOK

\* A step that only changes the states of threads that exist, and not to "none",
\* leaves the configuration and the creation of threads alone.
LEMMA ThreadStepKeeps ==
  ASSUME Inv, Alive,
         UNCHANGED <<config, made, bound, backends, threads_num>>, stopped' \in BOOLEAN,
         threads' \in [Thread -> ThreadStates],
         \A t \in Thread : threads'[t] = "none" <=> threads[t] = "none",
         \E t \in Thread : threads[t] # "none",
         threads[0] = "returned" => threads'[0] = "returned",
         pc' = IF threads'[0] = "returned" THEN "JoinAll" ELSE pc
  PROVE  TypeOK' /\ ProgressOK' /\ CreationOK'
<1>1. pc \in {"CreateThreads", "ThreadRoutine", "JoinAll"} /\ threads_num \in Nat \ {0}
      /\ threads_num <= MaxThreads
  BY InPool
<1>2. /\ SelectorAccepted' = SelectorAccepted /\ ThreadsRead' = ThreadsRead
      /\ AcceptorEndpoint' = AcceptorEndpoint
  BY DEF SelectorAccepted, EndpointAccepted, ReplicasNamed, AcceptorEndpoint, ThreadsRead
<1>3. Created' = Created
  BY DEF Created
<1>4. TypeOK'
  BY <1>1 DEF Inv, TypeOK, Phases
<1>5. ProgressOK'
  BY <1>1, <1>2 DEF Inv, ProgressOK, Starting
<1>6. CreationOK'
  <2>1. 0 .. threads_num - 1 \subseteq Thread
    BY <1>1, Constants DEF Thread
  <2> QED BY <1>1, <1>3, <2>1, Constants DEF Inv, CreationOK
<1> QED BY <1>4, <1>5, <1>6

LEMMA ArriveKeeps == ASSUME Inv, NEW t \in Thread, Arrive(t) PROVE Inv'
<1>1. /\ Alive /\ threads[t] = "created"
      /\ UNCHANGED <<config, pc, made, bound, backends, threads_num, stopped>>
  BY DEF Arrive
<1>2. /\ pc \in {"CreateThreads", "ThreadRoutine", "JoinAll"}
      /\ t \in 0 .. threads_num - 1 /\ 0 .. threads_num - 1 \subseteq Thread
      /\ threads_num \in Nat \ {0} /\ threads_num <= MaxThreads
  BY <1>1, InPool, Constants DEF Thread
<1>3. \A u \in Thread : threads[u] \notin Past
  BY <1>1, <1>2 DEF Inv, BarrierOK, Past
<1>4. CASE Cardinality(Waiting) + 1 = threads_num
  <2>1. threads' = [u \in Thread |-> IF u \in Waiting \cup {t} THEN "released" ELSE threads[u]]
    BY <1>4 DEF Arrive
  <2>2. Waiting \cup {t} = 0 .. threads_num - 1
    <3>1. Waiting \subseteq 0 .. threads_num - 1 /\ t \notin Waiting
      <4>1. \A u \in Thread : threads[u] # "none" => u < threads_num
        BY DEF Inv, TypeOK
      <4>2. \A u \in Waiting : u \in Nat /\ u < threads_num
        BY <4>1, Constants DEF Waiting
      <4>3. t \notin Waiting
        BY <1>1 DEF Waiting
      <4> QED BY <1>2, <4>2, <4>3
    <3>2. /\ IsFiniteSet(0 .. threads_num - 1)
          /\ Cardinality(0 .. threads_num - 1) = threads_num
      <4>1. 0 \in Int /\ threads_num - 1 \in Int /\ threads_num \in Nat \ {0}
        BY <1>2
      <4> QED BY <4>1, FS_Interval
    <3>3. /\ IsFiniteSet(Waiting) /\ Cardinality(Waiting) \in Nat
          /\ Cardinality(Waiting \cup {t}) = Cardinality(Waiting) + 1
      BY <3>1, <3>2, FS_Subset, FS_AddElement, FS_CardinalityType
    <3> QED BY <1>2, <1>4, <3>1, <3>2, <3>3, FS_Subset
  <2>3. threads[0] \in {"created", "waiting"} /\ threads'[0] = "released"
    BY <1>1, <1>2, <2>1, <2>2, Constants DEF Waiting
  <2>4. TypeOK' /\ ProgressOK' /\ CreationOK'
    <3>1. \A u \in Thread : threads'[u] = "none" <=> threads[u] = "none"
      BY <1>1, <2>1 DEF Waiting
    <3>2. threads' \in [Thread -> ThreadStates]
      BY <2>1 DEF Inv, TypeOK, ThreadStates
    <3>3. pc # "JoinAll"
      BY <2>3 DEF Inv, CreationOK
    <3> QED BY <1>1, <2>3, <3>1, <3>2, <3>3, ThreadStepKeeps DEF Inv, TypeOK
  <2>5. BarrierOK'
    BY <1>1, <1>2, <2>1, <2>2 DEF BarrierOK, Past
  <2> QED BY <2>4, <2>5 DEF Inv
<1>5. CASE Cardinality(Waiting) + 1 # threads_num
  <2>1. threads' = [threads EXCEPT ![t] = "waiting"]
    BY <1>5 DEF Arrive, Becomes
  <2>2. threads'[0] # "returned" /\ threads[0] # "returned" /\ pc # "JoinAll"
    BY <1>1, <1>3, <2>1, Constants DEF Past, Inv, TypeOK, CreationOK
  <2>3. TypeOK' /\ ProgressOK' /\ CreationOK'
    BY <1>1, <2>1, <2>2, ThreadStepKeeps DEF Inv, TypeOK, ThreadStates
  <2>4. BarrierOK'
    BY <1>3, <2>1 DEF BarrierOK, Past, Inv, TypeOK
  <2> QED BY <2>3, <2>4 DEF Inv
<1> QED BY <1>4, <1>5

LEMMA EnterRunKeeps == ASSUME Inv, NEW t \in Thread, EnterRun(t) PROVE Inv'
<1>1. /\ Alive /\ threads[t] = "released" /\ threads' = [threads EXCEPT ![t] = "running"]
      /\ UNCHANGED <<config, pc, made, bound, backends, threads_num, stopped>>
  BY DEF EnterRun, Becomes
<1>2. threads'[0] = "returned" <=> threads[0] = "returned"
  BY <1>1, Constants DEF Inv, TypeOK
<1>3. threads[0] = "returned" => pc = "JoinAll"
  BY <1>1, InPool, Constants DEF Inv, CreationOK
<1>4. TypeOK' /\ ProgressOK' /\ CreationOK'
  BY <1>1, <1>2, <1>3, ThreadStepKeeps DEF Inv, TypeOK, ThreadStates
<1>5. BarrierOK'
  BY <1>1, InPool, Constants DEF BarrierOK, Past, Inv, TypeOK, Thread
<1> QED BY <1>4, <1>5 DEF Inv

LEMMA StopKeeps == ASSUME Inv, NEW t \in Thread, Stop(t) PROVE Inv'
<1>1. /\ Alive /\ threads[t] = "running" /\ threads' = threads /\ stopped' = TRUE
      /\ UNCHANGED <<config, pc, made, bound, backends, threads_num>>
  BY DEF Stop
<1>2. threads[0] = "returned" => pc = "JoinAll"
  BY <1>1, InPool, Constants DEF Inv, CreationOK
<1>3. TypeOK' /\ ProgressOK' /\ CreationOK'
  BY <1>1, <1>2, ThreadStepKeeps DEF Inv, TypeOK
<1>4. BarrierOK'
  BY <1>1 DEF BarrierOK, Inv
<1> QED BY <1>3, <1>4 DEF Inv

LEMMA LeaveKeeps == ASSUME Inv, NEW t \in Thread, Leave(t) PROVE Inv'
<1>1. /\ Alive /\ threads[t] = "running" /\ threads' = [threads EXCEPT ![t] = "returned"]
      /\ pc' = (IF t = 0 THEN "JoinAll" ELSE pc)
      /\ UNCHANGED <<config, made, bound, backends, threads_num, stopped>>
  BY DEF Leave, Becomes
<1>2. threads'[0] = "returned" <=> t = 0 \/ threads[0] = "returned"
  BY <1>1, Constants DEF Inv, TypeOK
<1>3. threads[0] = "returned" => pc = "JoinAll"
  BY <1>1, InPool, Constants DEF Inv, CreationOK
<1>4. TypeOK' /\ ProgressOK' /\ CreationOK'
  BY <1>1, <1>2, <1>3, ThreadStepKeeps DEF Inv, TypeOK, ThreadStates
<1>5. BarrierOK'
  BY <1>1, InPool, Constants DEF BarrierOK, Past, Inv, TypeOK, Thread
<1> QED BY <1>4, <1>5 DEF Inv

LEMMA InvNext == Inv /\ [Next]_vars => Inv'
<1> SUFFICES ASSUME Inv, [Next]_vars PROVE Inv'
  OBVIOUS
<1>1. CASE FirstThread
  BY <1>1, ConfigurationKeeps, CreateThreadKeeps, EnterThreadRoutineKeeps, JoinAllKeeps
  DEF FirstThread
<1>2. ASSUME NEW t \in Thread, PoolThread(t) \/ Stop(t) PROVE Inv'
  BY <1>2, ArriveKeeps, EnterRunKeeps, LeaveKeeps, StopKeeps DEF PoolThread
<1>3. CASE Kill
  BY <1>3, KillKeeps
<1>4. CASE UNCHANGED vars
  <2>1. /\ SelectorAccepted' = SelectorAccepted /\ ThreadsRead' = ThreadsRead
        /\ AcceptorEndpoint' = AcceptorEndpoint
        /\ Created' = Created
    BY <1>4 DEF vars, SelectorAccepted, EndpointAccepted, ReplicasNamed, AcceptorEndpoint,
                ThreadsRead, Created
  <2> QED BY <1>4, <2>1 DEF vars, Inv, TypeOK, ProgressOK, CreationOK, BarrierOK
<1> QED BY <1>1, <1>2, <1>3, <1>4 DEF Next, Over

LEMMA Invariant == Spec => []Inv
BY InvInit, InvNext, PTL DEF Spec

-----------------------------------------------------------------------------
(* Theorems *)

\* Application::Start never creates more threads than the barrier counts, with
\* any configuration: the type invariant holds.
THEOREM TypeCorrect == Spec => []TypeOK
<1>1. Inv => TypeOK
  BY DEF Inv
<1> QED BY Invariant, <1>1, PTL

\* No handler runs before the acceptor, the signal set, the selector and the
\* connector exist and every thread has passed the barrier, however many threads
\* there are and in whatever order they arrive.
THEOREM HandlersRunWhenReady == Spec => []RunsOnlyWhenReady
<1>1. Inv => RunsOnlyWhenReady
  <2> SUFFICES ASSUME Inv, Alive, NEW t \in Thread, threads[t] = "running"
               PROVE  RunsOnlyWhenReady
    BY DEF RunsOnlyWhenReady
  <2>1. threads[t] \in Past
    BY DEF Past
  <2>2. pc # "CreateThreads"
    BY <2>1, InPool, Constants DEF Inv, BarrierOK, CreationOK, Past
  <2> QED BY <2>1, <2>2, InPool DEF RunsOnlyWhenReady, Inv, ProgressOK, BarrierOK, Past, AllMade
<1> QED BY Invariant, <1>1, PTL

\* A process that serves has as many threads as its configuration asks for, listens
\* on the port it names, and has a backend for every endpoint listed, with the port
\* the endpoint names or, when it names none, with the default port of its protocol.
THEOREM ServesWhatIsConfigured == Spec => []ServesAsConfigured
<1>1. Inv => ServesAsConfigured
  <2> SUFFICES ASSUME Inv, threads[0] = "running" PROVE ServesAsConfigured
    BY DEF ServesAsConfigured
  <2>1. pc = "ThreadRoutine"
    BY Constants DEF Inv, TypeOK, ProgressOK, CreationOK, Phases, Ended
  <2>2. /\ threads_num \in Nat \ {0} /\ threads_num <= MaxThreads
        /\ threads_num = ThreadsRead /\ config.threads_number # Junk /\ config \in Configs
        /\ SelectorAccepted /\ bound = AcceptorEndpoint
        /\ backends = [i \in DOMAIN config.endpoints |-> PortOf(config.endpoints[i])]
    BY <2>1, Constants DEF Inv, TypeOK, ProgressOK
  <2>3. Cardinality({t \in Thread : threads[t] # "none"}) =
          IF config.threads_number \in Nat THEN config.threads_number ELSE Hardware
    <3>1. {t \in Thread : threads[t] # "none"} = 0 .. threads_num - 1
      <4>1. \A t \in Thread : threads[t] # "none" <=> t < threads_num
        BY <2>1, <2>2, Constants DEF Inv, TypeOK, CreationOK
      <4> QED BY <2>2, <4>1, Constants DEF Thread
    <3>2. Cardinality(0 .. threads_num - 1) = threads_num
      <4>1. 0 \in Int /\ threads_num - 1 \in Int /\ threads_num \in Nat \ {0}
        BY <2>2
      <4> QED BY <4>1, FS_Interval
    <3>3. threads_num = IF config.threads_number \in Nat THEN config.threads_number ELSE Hardware
      <4>1. /\ config.threads_number \in 0 .. MaxThreads \cup {Undefined, Junk, AutoThreads}
            /\ Undefined \notin Nat /\ AutoThreads \notin Nat
        BY <2>2, StartupAssumption
      <4> QED BY <2>2, <4>1 DEF ThreadsRead
    <3> QED BY <3>1, <3>2, <3>3
  <2> DEFINE list == config.endpoints
  <2>4. list \notin {Undefined, Junk} /\ \A i \in DOMAIN list : EndpointAccepted(list[i])
    BY <2>2 DEF SelectorAccepted
  <2>5. Len(list) \in Nat /\ DOMAIN list = 1 .. Len(list)
    BY <2>2, <2>4, EndpointsAssumption, SMT
  <2>6. Len(backends) = Len(list)
    BY <2>2, <2>5
  <2>7. ASSUME NEW i \in DOMAIN backends
        PROVE  /\ PortNamed(list[i]) \in Nameable(list[i]) => backends[i] = PortNamed(list[i])
               /\ PortNamed(list[i]) = Undefined => backends[i] \in PortNumber \ {0}
    <3>1. i \in DOMAIN list /\ backends[i] = PortOf(list[i])
      BY <2>2
    <3>2. PortOf(list[i]) # Undefined
      BY <2>4, <3>1 DEF EndpointAccepted
    <3>3. CASE list[i].url # Undefined
      <4> DEFINE url == list[i].url
                 protocol == IF url.protocol = Undefined THEN "http" ELSE url.protocol
      <4>1. backends[i] = UrlPort(url) /\ PortNamed(list[i]) = url.port
            /\ Nameable(list[i]) = {n \in PortNumber : n >= 10}
        BY <3>1, <3>3 DEF PortOf, PortNamed, Nameable
      <4>2. ASSUME url.port \in PortNumber, url.port >= 10 PROVE UrlPort(url) = url.port
        BY <4>2, StartupAssumption, SMT DEF UrlPort, PortNumber
      <4>3. ASSUME url.port = Undefined PROVE UrlPort(url) \in PortNumber \ {0}
        <5>1. UrlPort(url) = DefaultProtocolPort(protocol)
          BY <4>3, StartupAssumption, SMT DEF UrlPort
        <5>2. UrlPort(url) \in {80, 443, 21, 22}
          BY <3>1, <3>2, <4>1, <5>1 DEF DefaultProtocolPort
        <5> QED BY <5>2, SMT DEF PortNumber
      <4> QED BY <4>1, <4>2, <4>3
    <3>4. CASE list[i].url = Undefined
      <4>1. /\ backends[i] = IpPort(list[i]) /\ PortNamed(list[i]) = list[i].port
            /\ Nameable(list[i]) = PortNumber
        BY <3>1, <3>4 DEF PortOf, PortNamed, Nameable
      <4>2. list[i].port # Undefined /\ IpPort(list[i]) = Narrowed(list[i].port)
        BY <3>1, <3>2, <4>1 DEF IpPort
      <4>3. list[i].port \in PortNumber => Narrowed(list[i].port) = list[i].port
        BY SMT DEF Narrowed, PortNumber
      <4> QED BY <4>1, <4>2, <4>3
    <3> QED BY <3>3, <3>4
  <2>8. config.acceptor.port \in PortNumber => bound.port = config.acceptor.port
    BY <2>2, SMT DEF AcceptorEndpoint, Narrowed, PortNumber
  <2> QED BY <2>3, <2>6, <2>7, <2>8 DEF ServesAsConfigured
<1> QED BY Invariant, <1>1, PTL
=============================================================================
