--------------------------- MODULE Balancer_proofs ---------------------------
(***************************************************************************)
(* Theorems of Balancer for every number of clients, threads and backends, *)
(* and every configuration.                                                *)
(***************************************************************************)
EXTENDS Balancer, FiniteSetTheorems, TLAPS

-----------------------------------------------------------------------------
(* The inductive invariant that carries the types. *)

\* The handle of a name is a node of that name, so two names never share one;
\* without duplicates every node on the heap has its handle.
PoolConsistent ==
  /\ \A b \in DOMAIN handle_pool_ : Config[handle_pool_[b]] = b
  /\ NoDuplicates =>
       \A n \in DOMAIN backends_ : InPool(Config[n]) /\ handle_pool_[Config[n]] = n

\* A thread holds a connection exactly while it runs its handler, and no two
\* threads hold the same one.
HandlersOwned ==
  /\ \A t \in Threads :
       IF at[t] = "handler"
       THEN job[t] \in Clients /\ conn[job[t]] \in InHandler
       ELSE job[t] = NoClient
  /\ \A t, u \in Threads :
       at[t] = "handler" /\ at[u] = "handler" /\ job[t] = job[u] => t = u

Inv == TypeOK /\ PoolConsistent /\ HandlersOwned

LEMMA NodesHaveNames ==
  /\ Node \subseteq Nat
  /\ Names \subseteq Backends
  /\ \A n \in Node : Config[n] \in Names
<1>1. Node = 1 .. Len(Config)
  BY ConfigAssumption DEF Node
<1> QED
  BY <1>1, ConfigAssumption DEF Node, Names

\* What the calls of the selector keep, whoever makes them.
LEMMA UnchangedKeeps ==
  ASSUME LCTypeOK, PoolConsistent, UNCHANGED lcVars
  PROVE  LCTypeOK' /\ PoolConsistent'
BY DEF LCTypeOK, PoolConsistent, InPool, NoDuplicates, lcVars

LEMMA IncreaseKeeps ==
  ASSUME LCTypeOK, PoolConsistent, NEW b, IncreaseConnectionCount(b)
  PROVE  LCTypeOK' /\ PoolConsistent' /\ DOMAIN backends_' = DOMAIN backends_
BY DEF LCTypeOK, PoolConsistent, IncreaseConnectionCount, Increased, InPool, NoDuplicates

LEMMA DecreaseKeeps ==
  ASSUME LCTypeOK, PoolConsistent, NEW b, DecreaseConnectionCount(b)
  PROVE  LCTypeOK' /\ PoolConsistent' /\ DOMAIN backends_' = DOMAIN backends_
BY DEF LCTypeOK, PoolConsistent, DecreaseConnectionCount, Decreased, InPool, NoDuplicates

LEMMA ExcludeKeeps ==
  ASSUME LCTypeOK, PoolConsistent, NEW b, ExcludeBackend(b)
  PROVE  LCTypeOK' /\ PoolConsistent'
<1>1. CASE ~InPool(b)
  BY <1>1 DEF LCTypeOK, PoolConsistent, ExcludeBackend, InPool, NoDuplicates, lcVars
<1>2. CASE InPool(b)
  <2>1. /\ DOMAIN backends_' = DOMAIN backends_ \ {handle_pool_[b]}
        /\ DOMAIN handle_pool_' = DOMAIN handle_pool_ \ {b}
        /\ \A n \in DOMAIN backends_' : backends_'[n] = backends_[n]
        /\ \A x \in DOMAIN handle_pool_' : handle_pool_'[x] = handle_pool_[x]
        /\ backends_' \in [DOMAIN backends_' -> Nat]
        /\ handle_pool_' \in [DOMAIN handle_pool_' -> DOMAIN backends_]
    BY <1>2 DEF LCTypeOK, ExcludeBackend
  <2>2. \A x \in DOMAIN handle_pool_' : handle_pool_'[x] # handle_pool_[b]
    BY <1>2, <2>1 DEF PoolConsistent, InPool
  <2>3. handle_pool_' \in [DOMAIN handle_pool_' -> DOMAIN backends_']
    BY <2>1, <2>2
  <2>4. PoolConsistent'
    BY <1>2, <2>1, <2>2 DEF PoolConsistent, InPool, NoDuplicates
  <2> QED
    BY <2>1, <2>3, <2>4 DEF LCTypeOK
<1> QED
  BY <1>1, <1>2

-----------------------------------------------------------------------------
LEMMA InvInit == Init => Inv
<1> SUFFICES ASSUME Init PROVE Inv
  OBVIOUS
<1>1. LCTypeOK /\ PoolConsistent
  BY NodesHaveNames
  DEF Init, Configure, LCTypeOK, PoolConsistent, InPool, NoDuplicates, Names
<1>2. TypeOK
  BY <1>1 DEF Init, TypeOK, Stages, ThreadStates
<1>3. HandlersOwned
  BY DEF Init, HandlersOwned
<1> QED
  BY <1>1, <1>2, <1>3 DEF Inv

LEMMA InvNext == Inv /\ [Next]_vars => Inv'
<1> SUFFICES ASSUME Inv, [Next]_vars PROVE Inv'
  OBVIOUS
<1>b. NoBackend \notin Backends /\ NoClient \notin Clients
  BY BalancerAssumption
<1> USE <1>b DEF Inv, TypeOK, HandlersOwned, Stages, InHandler, Waiting, ThreadStates,
             Free, Running, Advance, Begin, Return, Throw, appVars
<1>0. LCTypeOK /\ PoolConsistent
  OBVIOUS
<1>1. ASSUME NEW t \in Threads, NEW c \in Clients, Accept(t, c) PROVE Inv'
  <2>1. LCTypeOK' /\ PoolConsistent'
    BY <1>0, <1>1, UnchangedKeeps DEF Accept
  <2> QED BY <1>1, <2>1 DEF Accept
<1>2. ASSUME NEW t \in Threads, AcceptError(t) PROVE Inv'
  <2>1. LCTypeOK' /\ PoolConsistent'
    BY <1>0, <1>2, UnchangedKeeps DEF AcceptError
  <2> QED BY <1>2, <2>1 DEF AcceptError
<1>3. ASSUME NEW t \in Threads, Select(t) PROVE Inv'
  <2>1. PICK b \in Backends :
          /\ SelectBackend(b)
          /\ target' = [target EXCEPT ![job[t]] = b]
          /\ Advance(job[t], IF b \in Urls THEN "resolving" ELSE "connecting")
    BY <1>3 DEF Select
  <2>2. LCTypeOK' /\ PoolConsistent'
    BY <1>0, <2>1, IncreaseKeeps DEF SelectBackend
  <2> QED BY <1>3, <2>1, <2>2 DEF Select
<1>4. ASSUME NEW t \in Threads, SelectCrash(t) PROVE Inv'
  <2>1. LCTypeOK' /\ PoolConsistent'
    BY <1>0, <1>4, UnchangedKeeps DEF SelectCrash
  <2> QED BY <1>4, <2>1 DEF SelectCrash
<1>5. ASSUME NEW t \in Threads, ClientGone(t) PROVE Inv'
  <2>1. LCTypeOK' /\ PoolConsistent'
    BY <1>0, <1>5, UnchangedKeeps DEF ClientGone
  <2> QED BY <1>5, <2>1 DEF ClientGone
<1>6. ASSUME NEW t \in Threads, NEW c \in Clients, Resolved(t, c) PROVE Inv'
  <2>1. LCTypeOK' /\ PoolConsistent'
    BY <1>0, <1>6, UnchangedKeeps DEF Resolved
  <2> QED BY <1>6, <2>1 DEF Resolved
<1>7. ASSUME NEW t \in Threads, NEW c \in Clients, Refused(t, c) PROVE Inv'
  <2>1. LCTypeOK' /\ PoolConsistent'
    BY <1>0, <1>7, UnchangedKeeps DEF Refused
  <2> QED BY <1>7, <2>1 DEF Refused
<1>8. ASSUME NEW t \in Threads, NEW c \in Clients, ConnectFailed(t, c) PROVE Inv'
  <2>1. LCTypeOK' /\ PoolConsistent'
    BY <1>0, <1>8, UnchangedKeeps DEF ConnectFailed
  <2> QED BY <1>8, <2>1 DEF ConnectFailed
<1>9. ASSUME NEW t \in Threads, NEW c \in Clients, Connected(t, c) PROVE Inv'
  <2>1. LCTypeOK' /\ PoolConsistent'
    BY <1>0, <1>9, IncreaseKeeps DEF Connected
  <2> QED BY <1>9, <2>1 DEF Connected
<1>10. ASSUME NEW t \in Threads, Exclude(t) PROVE Inv'
  <2>1. LCTypeOK' /\ PoolConsistent'
    BY <1>0, <1>10, ExcludeKeeps DEF Exclude
  <2>2. CASE ExcludeThrows(target[job[t]])
    BY <1>10, <2>1, <2>2 DEF Exclude
  <2>3. CASE ~ExcludeThrows(target[job[t]])
    BY <1>10, <2>1, <2>3 DEF Exclude
  <2> QED BY <2>2, <2>3
<1>11. ASSUME NEW t \in Threads, NEW c \in Clients, SessionError(t, c) PROVE Inv'
  <2>1. LCTypeOK' /\ PoolConsistent'
    BY <1>0, <1>11, DecreaseKeeps DEF SessionError
  <2> QED BY <1>11, <2>1 DEF SessionError
<1>12. ASSUME NEW t \in Threads, Destroy(t) PROVE Inv'
  <2>1. LCTypeOK' /\ PoolConsistent'
    BY <1>0, <1>12, DecreaseKeeps DEF Destroy
  <2> QED BY <1>12, <2>1 DEF Destroy
<1>13. ASSUME NEW t \in Threads, Catch(t) PROVE Inv'
  <2>1. LCTypeOK' /\ PoolConsistent'
    BY <1>0, <1>13, UnchangedKeeps DEF Catch
  <2> QED BY <1>13, <2>1 DEF Catch
<1>14. ASSUME NEW t \in Threads, Signal(t) PROVE Inv'
  <2>1. LCTypeOK' /\ PoolConsistent'
    BY <1>0, <1>14, UnchangedKeeps DEF Signal
  <2> QED BY <1>14, <2>1 DEF Signal
<1>15. ASSUME NEW t \in Threads, Terminate(t) PROVE Inv'
  <2>1. LCTypeOK' /\ PoolConsistent'
    BY <1>0, <1>15, UnchangedKeeps DEF Terminate
  <2> QED BY <1>15, <2>1 DEF Terminate
<1>16. ASSUME NEW t \in Threads, Leave(t) PROVE Inv'
  <2>1. LCTypeOK' /\ PoolConsistent'
    BY <1>0, <1>16, UnchangedKeeps DEF Leave
  <2> QED BY <1>16, <2>1 DEF Leave
<1>17. CASE UNCHANGED vars
  BY <1>0, <1>17, UnchangedKeeps DEF vars, lcVars
<1> QED
  BY <1>1, <1>2, <1>3, <1>4, <1>5, <1>6, <1>7, <1>8, <1>9, <1>10, <1>11, <1>12,
     <1>13, <1>14, <1>15, <1>16, <1>17 DEF Next, ThreadStep, ConnectStep, Finished

LEMMA Invariance == Spec => []Inv
  BY InvInit, InvNext, PTL DEF Spec

\* Types: in particular the handle of every name in the pool is a node that is
\* on the heap, so ExcludeBackend and the counting never follow a handle that
\* erase() has left dangling.
THEOREM TypeCorrect == Spec => []TypeOK
  BY Invariance, PTL DEF Inv

-----------------------------------------------------------------------------
(* How the process ends. *)

\* A thread terminates only after a signal or a recorded failure; a failure is
\* recorded or about to be when an exception ended the handler of a client, and
\* otherwise only when the signal found the listening socket closed.
ShutdownInv ==
  /\ \A t \in Threads : at[t] = "terminate" => signalled \/ exit_code = "failure"
  /\ StopHasCause
  /\ (\E c \in Clients : conn[c] = "lost") =>
       exit_code = "failure" \/ \E t \in Threads : at[t] = "caught"
  /\ (exit_code = "failure" \/ \E t \in Threads : at[t] = "caught") =>
       (\E c \in Clients : conn[c] = "lost") \/ (signalled /\ acceptor = "closed")

LEMMA ShutdownInvInit == Init => ShutdownInv
BY DEF Init, ShutdownInv, StopHasCause

LEMMA ShutdownInvNext == Inv /\ ShutdownInv /\ [Next]_vars => ShutdownInv'
<1> SUFFICES ASSUME Inv, ShutdownInv, [Next]_vars PROVE ShutdownInv'
  OBVIOUS
<1> USE DEF Inv, TypeOK, HandlersOwned, Stages, InHandler, Waiting, ThreadStates,
            Free, Running, Advance, Begin, Return, Throw, appVars, ShutdownInv, StopHasCause
<1>1. ASSUME NEW t \in Threads, NEW c \in Clients, Accept(t, c) PROVE ShutdownInv'
  BY <1>1 DEF Accept
<1>2. ASSUME NEW t \in Threads, AcceptError(t) PROVE ShutdownInv'
  BY <1>2 DEF AcceptError
<1>3. ASSUME NEW t \in Threads, Select(t) PROVE ShutdownInv'
  BY <1>3 DEF Select
<1>4. ASSUME NEW t \in Threads, SelectCrash(t) PROVE ShutdownInv'
  BY <1>4 DEF SelectCrash
<1>5. ASSUME NEW t \in Threads, ClientGone(t) PROVE ShutdownInv'
  BY <1>5 DEF ClientGone
<1>6. ASSUME NEW t \in Threads, NEW c \in Clients, Resolved(t, c) PROVE ShutdownInv'
  BY <1>6 DEF Resolved
<1>7. ASSUME NEW t \in Threads, NEW c \in Clients, Refused(t, c) PROVE ShutdownInv'
  BY <1>7 DEF Refused
<1>8. ASSUME NEW t \in Threads, NEW c \in Clients, ConnectFailed(t, c) PROVE ShutdownInv'
  BY <1>8 DEF ConnectFailed
<1>9. ASSUME NEW t \in Threads, NEW c \in Clients, Connected(t, c) PROVE ShutdownInv'
  BY <1>9 DEF Connected
<1>10. ASSUME NEW t \in Threads, Exclude(t) PROVE ShutdownInv'
  <2>1. CASE ExcludeThrows(target[job[t]])
    BY <1>10, <2>1 DEF Exclude
  <2>2. CASE ~ExcludeThrows(target[job[t]])
    BY <1>10, <2>2 DEF Exclude
  <2> QED BY <2>1, <2>2
<1>11. ASSUME NEW t \in Threads, NEW c \in Clients, SessionError(t, c) PROVE ShutdownInv'
  BY <1>11 DEF SessionError
<1>12. ASSUME NEW t \in Threads, Destroy(t) PROVE ShutdownInv'
  BY <1>12 DEF Destroy
<1>13. ASSUME NEW t \in Threads, Catch(t) PROVE ShutdownInv'
  BY <1>13 DEF Catch
<1>14. ASSUME NEW t \in Threads, Signal(t) PROVE ShutdownInv'
  <2>1. CASE acceptor = "closed"
    BY <1>14, <2>1 DEF Signal
  <2>2. CASE acceptor # "closed"
    BY <1>14, <2>2 DEF Signal
  <2> QED BY <2>1, <2>2
<1>15. ASSUME NEW t \in Threads, Terminate(t) PROVE ShutdownInv'
  BY <1>15 DEF Terminate
<1>16. ASSUME NEW t \in Threads, Leave(t) PROVE ShutdownInv'
  BY <1>16 DEF Leave
<1>17. CASE UNCHANGED vars
  BY <1>17 DEF vars
<1> QED
  BY <1>1, <1>2, <1>3, <1>4, <1>5, <1>6, <1>7, <1>8, <1>9, <1>10, <1>11, <1>12,
     <1>13, <1>14, <1>15, <1>16, <1>17 DEF Next, ThreadStep, ConnectStep, Finished

LEMMA ShutdownInvariance == Spec => []ShutdownInv
  BY Invariance, ShutdownInvInit, ShutdownInvNext, PTL DEF Spec

\* Application::Terminate is reached only from the signal handler and from the
\* catch blocks of ThreadRoutine.
THEOREM StopsOnlyForCause == Spec => []StopHasCause
  BY ShutdownInvariance, PTL DEF ShutdownInv

\* The value run() returns from GetExitCode, whatever the order in which the
\* threads leave ThreadRoutine.
THEOREM ExitCodeIsTruthful == Spec => []ExitCodeTruthful
<1>1. ShutdownInv => ExitCodeTruthful
  BY DEF ShutdownInv, ExitCodeTruthful, AllExited
<1> QED
  BY <1>1, ShutdownInvariance, PTL

-----------------------------------------------------------------------------
(* Exclusion. *)

\* Only ExcludeBackend changes which nodes are on the heap; the thread that
\* takes the last one off leaves its handler with the exception.
HeapStep ==
  \/ DOMAIN backends_' = DOMAIN backends_
  \/ \E t \in Threads :
       /\ Running(t, "refused") /\ InPool(target[job[t]])
       /\ conn'[job[t]] # "refused"
       /\ DOMAIN backends_' = DOMAIN backends_ \ {handle_pool_[target[job[t]]]}
       /\ DOMAIN backends_' = {} => at'[t] = "caught"

LEMMA HeapSteps == Inv /\ [Next]_vars => HeapStep
<1> SUFFICES ASSUME Inv, [Next]_vars PROVE HeapStep
  OBVIOUS
<1>0. LCTypeOK /\ PoolConsistent
  BY DEF Inv, TypeOK
<1> USE DEF HeapStep
<1>1. ASSUME NEW t \in Threads, NEW c \in Clients, Accept(t, c) PROVE HeapStep
  BY <1>1 DEF Accept, lcVars
<1>2. ASSUME NEW t \in Threads, AcceptError(t) PROVE HeapStep
  BY <1>2 DEF AcceptError, lcVars
<1>3. ASSUME NEW t \in Threads, Select(t) PROVE HeapStep
  BY <1>0, <1>3, IncreaseKeeps DEF Select, SelectBackend
<1>4. ASSUME NEW t \in Threads, SelectCrash(t) PROVE HeapStep
  BY <1>4 DEF SelectCrash, lcVars
<1>5. ASSUME NEW t \in Threads, ClientGone(t) PROVE HeapStep
  BY <1>5 DEF ClientGone, lcVars
<1>6. ASSUME NEW t \in Threads, NEW c \in Clients, Resolved(t, c) PROVE HeapStep
  BY <1>6 DEF Resolved, lcVars
<1>7. ASSUME NEW t \in Threads, NEW c \in Clients, Refused(t, c) PROVE HeapStep
  BY <1>7 DEF Refused, lcVars
<1>8. ASSUME NEW t \in Threads, NEW c \in Clients, ConnectFailed(t, c) PROVE HeapStep
  BY <1>8 DEF ConnectFailed, lcVars
<1>9. ASSUME NEW t \in Threads, NEW c \in Clients, Connected(t, c) PROVE HeapStep
  BY <1>0, <1>9, IncreaseKeeps DEF Connected
<1>10. ASSUME NEW t \in Threads, Exclude(t) PROVE HeapStep
  <2> DEFINE b == target[job[t]]
  <2>1. CASE ~InPool(b)
    BY <1>10, <2>1 DEF Exclude, ExcludeBackend, lcVars
  <2>2. CASE InPool(b)
    <3>1. DOMAIN backends_' = DOMAIN backends_ \ {handle_pool_[b]}
      BY <1>10, <2>2 DEF Exclude, ExcludeBackend
    <3>2. handle_pool_[b] \in DOMAIN backends_
      BY <1>0, <2>2 DEF InPool, LCTypeOK
    <3>3. DOMAIN backends_' = {} => at'[t] = "caught"
      BY <1>10, <2>2, <3>1, <3>2
      DEF Exclude, ExcludeThrows, Throw, Inv, TypeOK
    <3>4. conn'[job[t]] # "refused"
      BY <1>10 DEF Exclude, Running, Advance, Throw, Inv, TypeOK, HandlersOwned
    <3> QED BY <1>10, <2>2, <3>1, <3>3, <3>4 DEF Exclude
  <2> QED BY <2>1, <2>2
<1>11. ASSUME NEW t \in Threads, NEW c \in Clients, SessionError(t, c) PROVE HeapStep
  BY <1>0, <1>11, DecreaseKeeps DEF SessionError
<1>12. ASSUME NEW t \in Threads, Destroy(t) PROVE HeapStep
  BY <1>0, <1>12, DecreaseKeeps DEF Destroy
<1>13. ASSUME NEW t \in Threads, Catch(t) PROVE HeapStep
  BY <1>13 DEF Catch, lcVars
<1>14. ASSUME NEW t \in Threads, Signal(t) PROVE HeapStep
  BY <1>14 DEF Signal, lcVars
<1>15. ASSUME NEW t \in Threads, Terminate(t) PROVE HeapStep
  BY <1>15 DEF Terminate, lcVars
<1>16. ASSUME NEW t \in Threads, Leave(t) PROVE HeapStep
  BY <1>16 DEF Leave, lcVars
<1>17. CASE UNCHANGED vars
  BY <1>17 DEF vars
<1> QED
  BY <1>1, <1>2, <1>3, <1>4, <1>5, <1>6, <1>7, <1>8, <1>9, <1>10, <1>11, <1>12,
     <1>13, <1>14, <1>15, <1>16, <1>17 DEF Next, ThreadStep, ConnectStep, Finished

\* A thread on its way to io_context::stop, after an exception or a signal.
Ending(t) == at[t] \in {"caught", "terminate"}

LEMMA EndingSteps ==
  ASSUME Inv, [Next]_vars, NEW u \in Threads, Ending(u)
  PROVE  stopped' \/ Ending(u)'
<1> USE DEF Inv, TypeOK, Ending, Free, Running, Begin, Return, Throw, appVars
<1>1. ASSUME NEW t \in Threads, NEW c \in Clients, Accept(t, c) PROVE stopped' \/ Ending(u)'
  BY <1>1 DEF Accept
<1>2. ASSUME NEW t \in Threads, AcceptError(t) PROVE stopped' \/ Ending(u)'
  BY <1>2 DEF AcceptError
<1>3. ASSUME NEW t \in Threads, Select(t) PROVE stopped' \/ Ending(u)'
  BY <1>3 DEF Select
<1>4. ASSUME NEW t \in Threads, SelectCrash(t) PROVE stopped' \/ Ending(u)'
  BY <1>4 DEF SelectCrash
<1>5. ASSUME NEW t \in Threads, ClientGone(t) PROVE stopped' \/ Ending(u)'
  BY <1>5 DEF ClientGone
<1>6. ASSUME NEW t \in Threads, NEW c \in Clients, Resolved(t, c) PROVE stopped' \/ Ending(u)'
  BY <1>6 DEF Resolved
<1>7. ASSUME NEW t \in Threads, NEW c \in Clients, Refused(t, c) PROVE stopped' \/ Ending(u)'
  BY <1>7 DEF Refused
<1>8. ASSUME NEW t \in Threads, NEW c \in Clients, ConnectFailed(t, c) PROVE stopped' \/ Ending(u)'
  BY <1>8 DEF ConnectFailed
<1>9. ASSUME NEW t \in Threads, NEW c \in Clients, Connected(t, c) PROVE stopped' \/ Ending(u)'
  BY <1>9 DEF Connected
<1>10. ASSUME NEW t \in Threads, Exclude(t) PROVE stopped' \/ Ending(u)'
  BY <1>10 DEF Exclude
<1>11. ASSUME NEW t \in Threads, NEW c \in Clients, SessionError(t, c) PROVE stopped' \/ Ending(u)'
  BY <1>11 DEF SessionError
<1>12. ASSUME NEW t \in Threads, Destroy(t) PROVE stopped' \/ Ending(u)'
  BY <1>12 DEF Destroy
<1>13. ASSUME NEW t \in Threads, Catch(t) PROVE stopped' \/ Ending(u)'
  BY <1>13 DEF Catch
<1>14. ASSUME NEW t \in Threads, Signal(t) PROVE stopped' \/ Ending(u)'
  BY <1>14 DEF Signal
<1>15. ASSUME NEW t \in Threads, Terminate(t) PROVE stopped' \/ Ending(u)'
  BY <1>15 DEF Terminate
<1>16. ASSUME NEW t \in Threads, Leave(t) PROVE stopped' \/ Ending(u)'
  BY <1>16 DEF Leave
<1>17. CASE UNCHANGED vars
  BY <1>17 DEF vars
<1> QED
  BY <1>1, <1>2, <1>3, <1>4, <1>5, <1>6, <1>7, <1>8, <1>9, <1>10, <1>11, <1>12,
     <1>13, <1>14, <1>15, <1>16, <1>17 DEF Next, ThreadStep, ConnectStep, Finished

\* Once set, the stopped flag of the io_context is never reset.
LEMMA StoppedStays == [Next]_vars => (stopped => stopped')
BY DEF Next, ThreadStep, ConnectStep, Finished, vars, appVars, Accept, AcceptError,
   Select, SelectCrash, ClientGone, Resolved, Refused, ConnectFailed, Connected,
   Exclude, SessionError, Destroy, Catch, Signal, Terminate, Leave

LEMMA ExhaustionInit == Init => ExhaustionReported
BY DEF Init, Configure, ExhaustionReported

LEMMA ExhaustionNext ==
  Inv /\ ExhaustionReported /\ [Next]_vars => ExhaustionReported'
<1> SUFFICES ASSUME Inv, ExhaustionReported, [Next]_vars,
                    Node # {}, DOMAIN backends_' = {}
             PROVE  stopped' \/ \E u \in Threads : Ending(u)'
  BY DEF ExhaustionReported, Ending
<1>1. HeapStep
  BY HeapSteps
<1>2. CASE DOMAIN backends_' = DOMAIN backends_
  <2>1. stopped \/ \E u \in Threads : Ending(u)
    BY <1>2 DEF ExhaustionReported, Ending
  <2>2. CASE stopped
    BY <2>2, StoppedStays
  <2>3. ASSUME NEW u \in Threads, Ending(u) PROVE stopped' \/ Ending(u)'
    BY <2>3, EndingSteps
  <2> QED BY <2>1, <2>2, <2>3
<1>3. CASE DOMAIN backends_' # DOMAIN backends_
  BY <1>1, <1>3 DEF HeapStep, Ending
<1> QED BY <1>2, <1>3

\* The exception of ExcludeBackend always reaches a catch block of
\* ThreadRoutine and from there io_context::stop.
THEOREM ExhaustionIsReported == Spec => []ExhaustionReported
  BY Invariance, ExhaustionInit, ExhaustionNext, PTL DEF Spec

\* The node that left the heap in this step belongs to a refusal just handled.
ExcludedByRefusal ==
  \A n \in DOMAIN backends_ \ DOMAIN backends_' :
    \E c \in Clients : conn[c] = "refused" /\ conn'[c] # "refused"
                       /\ target[c] = Config[n]

\* No error but connection_refused, and no session that ends, takes a backend
\* out of rotation.
THEOREM ExclusionsHaveCause == Spec => ExclusionHasCause
<1>1. Inv /\ [Next]_vars => ExcludedByRefusal
  <2> SUFFICES ASSUME Inv, [Next]_vars,
                      NEW n \in DOMAIN backends_, n \notin DOMAIN backends_'
               PROVE  \E c \in Clients : conn[c] = "refused" /\ conn'[c] # "refused"
                                         /\ target[c] = Config[n]
    BY DEF ExcludedByRefusal
  <2>1. PICK t \in Threads :
          /\ Running(t, "refused") /\ InPool(target[job[t]])
          /\ conn'[job[t]] # "refused"
          /\ DOMAIN backends_' = DOMAIN backends_ \ {handle_pool_[target[job[t]]]}
    BY HeapSteps DEF HeapStep
  <2>2. n = handle_pool_[target[job[t]]]
    BY <2>1
  <2>3. job[t] \in Clients
    BY <2>1 DEF Running, Inv, HandlersOwned
  <2>4. Config[n] = target[job[t]]
    BY <2>1, <2>2 DEF Inv, PoolConsistent, InPool
  <2> QED BY <2>1, <2>3, <2>4 DEF Running
<1>2. [][ExcludedByRefusal]_vars => ExclusionHasCause
  BY PTL DEF ExclusionHasCause, ExcludedByRefusal
<1> QED
  BY <1>1, <1>2, Invariance, PTL DEF Spec

-----------------------------------------------------------------------------
(* Retry and the single thread. *)

\* A client that has not been accepted yet was never tried.
RetryInv ==
  /\ \A c \in Clients : conn[c] = "outside" => target[c] = NoBackend
  /\ RefusedIsOut

LEMMA RetryInvNext == Inv /\ RetryInv /\ [Next]_vars => RetryInv'
<1> SUFFICES ASSUME Inv, RetryInv, [Next]_vars PROVE RetryInv'
  OBVIOUS
<1>0. NoDuplicates' <=> NoDuplicates
  BY DEF NoDuplicates
<1>h. DOMAIN backends_' \subseteq DOMAIN backends_
  BY HeapSteps DEF HeapStep
<1> USE <1>0, <1>h DEF Inv, TypeOK, HandlersOwned, Stages, InHandler, Waiting,
                       ThreadStates, Free, Running, Advance, Begin, Return, Throw,
                       appVars, RetryInv, RefusedIsOut
<1>1. ASSUME NEW t \in Threads, NEW c \in Clients, Accept(t, c) PROVE RetryInv'
  BY <1>1 DEF Accept
<1>2. ASSUME NEW t \in Threads, AcceptError(t) PROVE RetryInv'
  BY <1>2 DEF AcceptError
<1>3. ASSUME NEW t \in Threads, Select(t) PROVE RetryInv'
  BY <1>3 DEF Select
<1>4. ASSUME NEW t \in Threads, SelectCrash(t) PROVE RetryInv'
  BY <1>4 DEF SelectCrash
<1>5. ASSUME NEW t \in Threads, ClientGone(t) PROVE RetryInv'
  BY <1>5 DEF ClientGone
<1>6. ASSUME NEW t \in Threads, NEW c \in Clients, Resolved(t, c) PROVE RetryInv'
  BY <1>6 DEF Resolved
<1>7. ASSUME NEW t \in Threads, NEW c \in Clients, Refused(t, c) PROVE RetryInv'
  BY <1>7 DEF Refused
<1>8. ASSUME NEW t \in Threads, NEW c \in Clients, ConnectFailed(t, c) PROVE RetryInv'
  BY <1>8 DEF ConnectFailed
<1>9. ASSUME NEW t \in Threads, NEW c \in Clients, Connected(t, c) PROVE RetryInv'
  BY <1>9 DEF Connected
<1>10. ASSUME NEW t \in Threads, Exclude(t) PROVE RetryInv'
  <2> DEFINE c == job[t]
  <2>1. NoDuplicates => \A n \in DOMAIN backends_' : Config[n] # target[c]
    BY <1>10 DEF Exclude, ExcludeBackend, InPool, PoolConsistent, lcVars
  <2>2. c \in Clients /\ conn[c] = "refused"
    BY <1>10 DEF Exclude
  <2>3. CASE ExcludeThrows(target[c])
    BY <1>10, <2>2, <2>3 DEF Exclude
  <2>4. CASE ~ExcludeThrows(target[c])
    BY <1>10, <2>1, <2>2, <2>4 DEF Exclude
  <2> QED BY <2>3, <2>4
<1>11. ASSUME NEW t \in Threads, NEW c \in Clients, SessionError(t, c) PROVE RetryInv'
  BY <1>11 DEF SessionError
<1>12. ASSUME NEW t \in Threads, Destroy(t) PROVE RetryInv'
  BY <1>12 DEF Destroy
<1>13. ASSUME NEW t \in Threads, Catch(t) PROVE RetryInv'
  BY <1>13 DEF Catch
<1>14. ASSUME NEW t \in Threads, Signal(t) PROVE RetryInv'
  BY <1>14 DEF Signal
<1>15. ASSUME NEW t \in Threads, Terminate(t) PROVE RetryInv'
  BY <1>15 DEF Terminate
<1>16. ASSUME NEW t \in Threads, Leave(t) PROVE RetryInv'
  BY <1>16 DEF Leave
<1>17. CASE UNCHANGED vars
  BY <1>17 DEF vars
<1> QED
  BY <1>1, <1>2, <1>3, <1>4, <1>5, <1>6, <1>7, <1>8, <1>9, <1>10, <1>11, <1>12,
     <1>13, <1>14, <1>15, <1>16, <1>17 DEF Next, ThreadStep, ConnectStep, Finished

\* With every endpoint listed once, a refused client never comes back to the
\* backend that refused it.
THEOREM RefusedStaysOut == Spec => []RefusedIsOut
<1>1. Init => RetryInv
  BY DEF Init, RetryInv, RefusedIsOut
<1>2. RetryInv => RefusedIsOut
  BY DEF RetryInv
<1> QED
  BY <1>1, <1>2, Invariance, RetryInvNext, PTL DEF Spec

\* With threads_number: 1 and at least one endpoint the race that ends in
\* SelectBackend on an empty heap cannot happen: the thread that excluded the
\* last backend is the one that would select.
THEOREM OneThreadNeverCrashes ==
  ASSUME NEW t0, Threads = {t0}, Node # {}
  PROVE  Spec => []NeverCrashes
<1> DEFINE Alone == ~crashed /\ (stopped => at[t0] = "exited")
<1>1. Init => Alone
  BY DEF Init
<1>2. Inv /\ ExhaustionReported /\ Alone /\ [Next]_vars => Alone'
  <2> SUFFICES ASSUME Inv, ExhaustionReported, Alone, [Next]_vars PROVE Alone'
    OBVIOUS
  <2>1. ASSUME NEW t \in Threads, SelectCrash(t) PROVE FALSE
    <3>1. at[t0] = "handler" /\ DOMAIN backends_ = {}
      BY <2>1 DEF SelectCrash, Running, SelectUndefined
    <3> QED BY <3>1 DEF ExhaustionReported
  <2>2. UNCHANGED crashed
    BY <2>1 DEF Next, ThreadStep, ConnectStep, Finished, vars, Accept, AcceptError, Select,
       ClientGone, Resolved, Refused, ConnectFailed, Connected, Exclude, SessionError,
       Destroy, Catch, Signal, Terminate, Leave
  <2>3. stopped' => at'[t0] = "exited"
    BY DEF Next, ThreadStep, ConnectStep, Finished, vars, appVars, Free, Running,
       Begin, Return, Throw, Inv, TypeOK, Accept, AcceptError, Select,
       SelectCrash, ClientGone, Resolved, Refused, ConnectFailed, Connected, Exclude,
       SessionError, Destroy, Catch, Signal, Terminate, Leave
  <2> QED BY <2>2, <2>3
<1>3. Alone => NeverCrashes
  BY DEF NeverCrashes
<1> QED
  BY <1>1, <1>2, <1>3, Invariance, ExhaustionIsReported, PTL DEF Spec

-----------------------------------------------------------------------------
(* Accounting. *)

LEMMA CountsUp ==
  ASSUME NoDuplicates, LCTypeOK, PoolConsistent, NEW b, IncreaseConnectionCount(b),
         NEW n \in DOMAIN backends_
  PROVE  backends_'[n] = IF Config[n] = b THEN backends_[n] + 1 ELSE backends_[n]
BY DEF LCTypeOK, PoolConsistent, IncreaseConnectionCount, Increased, InPool

LEMMA CountsDown ==
  ASSUME NoDuplicates, LCTypeOK, PoolConsistent, NEW b, DecreaseConnectionCount(b),
         NEW n \in DOMAIN backends_, backends_[n] > 0
  PROVE  backends_'[n] = IF Config[n] = b THEN backends_[n] - 1 ELSE backends_[n]
BY DEF LCTypeOK, PoolConsistent, DecreaseConnectionCount, Decreased, InPool

LEMMA CountsDownElsewhere ==
  ASSUME LCTypeOK, PoolConsistent, NEW b, DecreaseConnectionCount(b),
         NEW n \in DOMAIN backends_, Config[n] # b
  PROVE  backends_'[n] = backends_[n]
BY DEF LCTypeOK, PoolConsistent, DecreaseConnectionCount, Decreased, InPool

\* No connection but c changes its stage or its target.
Moves(c) ==
  \A d \in Clients : d # c => conn'[d] = conn[d] /\ target'[d] = target[d]

\* 1 if c is one of the connections On(b, S), else 0.
Counted(c, b, S) == IF target[c] = b /\ conn[c] \in S THEN 1 ELSE 0

LEMMA CardinalityWithout ==
  ASSUME NEW A, IsFiniteSet(A), NEW x
  PROVE  /\ Cardinality(A) \in Nat
         /\ Cardinality(A \ {x}) \in Nat
         /\ Cardinality(A) = Cardinality(A \ {x}) + (IF x \in A THEN 1 ELSE 0)
<1>1. /\ IsFiniteSet(A \ {x})
      /\ Cardinality(A \ {x}) = IF x \in A THEN Cardinality(A) - 1 ELSE Cardinality(A)
  BY FS_RemoveElement
<1>2. Cardinality(A) \in Nat /\ Cardinality(A \ {x}) \in Nat
  BY <1>1, FS_CardinalityType
<1> QED
  BY <1>1, <1>2

LEMMA OnMoves ==
  ASSUME IsFiniteSet(Clients), NEW c \in Clients, Moves(c), NEW b, NEW S
  PROVE  /\ Cardinality(On(b, S)) \in Nat
         /\ Cardinality(On(b, S)') \in Nat
         /\ Cardinality(On(b, S)') + Counted(c, b, S)
              = Cardinality(On(b, S)) + Counted(c, b, S)'
         /\ Counted(c, b, S) <= Cardinality(On(b, S))
         /\ Counted(c, b, S) \in {0, 1} /\ Counted(c, b, S)' \in {0, 1}
<1> DEFINE A == On(b, S)
           B == On(b, S)'
<1>1. IsFiniteSet(A) /\ IsFiniteSet(B)
  <2>1. A \subseteq Clients /\ B \subseteq Clients
    BY DEF On
  <2> QED BY <2>1, FS_Subset
<1>2. A \ {c} = B \ {c}
  BY DEF On, Moves
<1>3. Counted(c, b, S) = (IF c \in A THEN 1 ELSE 0)
  BY DEF On, Counted
<1>4. Counted(c, b, S)' = (IF c \in B THEN 1 ELSE 0)
  BY DEF On, Counted
<1> HIDE DEF A, B
<1>5. /\ Cardinality(A) \in Nat
      /\ Cardinality(A \ {c}) \in Nat
      /\ Cardinality(A) = Cardinality(A \ {c}) + Counted(c, b, S)
  BY <1>1, <1>3, CardinalityWithout
<1>6. /\ Cardinality(B) \in Nat
      /\ Cardinality(B) = Cardinality(A \ {c}) + Counted(c, b, S)'
  BY <1>1, <1>2, <1>4, CardinalityWithout
<1>7. Counted(c, b, S) \in {0, 1} /\ Counted(c, b, S)' \in {0, 1}
  BY <1>3, <1>4
<1>8. /\ Cardinality(B) + Counted(c, b, S) = Cardinality(A) + Counted(c, b, S)'
      /\ Counted(c, b, S) <= Cardinality(A)
  BY <1>5, <1>6, <1>7
<1> QED
  BY <1>5, <1>6, <1>7, <1>8 DEF A, B

\* The stages that count once, and the weight of a connection.
CountedOnce == {"resolving", "connecting", "refused", "cancelled", "dropped"}

Weight(c, b) ==
  IF target[c] # b THEN 0
  ELSE IF conn[c] = "serving" THEN 2
  ELSE IF conn[c] \in CountedOnce THEN 1 ELSE 0

LEMMA ContributionMoves ==
  ASSUME IsFiniteSet(Clients), NEW c \in Clients, Moves(c), NEW b
  PROVE  /\ Contribution(b) \in Nat
         /\ Contribution(b)' \in Nat
         /\ Contribution(b)' + Weight(c, b) = Contribution(b) + Weight(c, b)'
         /\ Weight(c, b) <= Contribution(b)
<1> DEFINE one == Cardinality(On(b, CountedOnce))
           two == Cardinality(On(b, {"serving"}))
           oneNext == Cardinality(On(b, CountedOnce)')
           twoNext == Cardinality(On(b, {"serving"})')
           in1 == Counted(c, b, CountedOnce)
           in2 == Counted(c, b, {"serving"})
           in1Next == Counted(c, b, CountedOnce)'
           in2Next == Counted(c, b, {"serving"})'
<1>1. /\ one \in Nat /\ oneNext \in Nat /\ in1 <= one /\ oneNext + in1 = one + in1Next
      /\ in1 \in {0, 1} /\ in1Next \in {0, 1}
  BY OnMoves DEF CountedOnce
<1>2. /\ two \in Nat /\ twoNext \in Nat /\ in2 <= two /\ twoNext + in2 = two + in2Next
      /\ in2 \in {0, 1} /\ in2Next \in {0, 1}
  BY OnMoves
<1>3. Contribution(b) = one + 2 * two /\ Contribution(b)' = oneNext + 2 * twoNext
  BY DEF Contribution, CountedOnce
<1>4. Weight(c, b) = in1 + 2 * in2 /\ Weight(c, b)' = in1Next + 2 * in2Next
  BY DEF Weight, Counted, CountedOnce
<1> HIDE DEF one, two, oneNext, twoNext, in1, in2, in1Next, in2Next
<1> QED
  BY <1>1, <1>2, <1>3, <1>4

LEMMA AccountingNext ==
  IsFiniteSet(Clients) /\ Inv /\ Accounting /\ [Next]_vars => Accounting'
<1> SUFFICES ASSUME IsFiniteSet(Clients), Inv, Accounting, [Next]_vars, NoDuplicates
             PROVE  \A n \in DOMAIN backends_' : backends_'[n] = Contribution(Config[n])'
  BY DEF Accounting, NoDuplicates
<1> DEFINE Goal == \A n \in DOMAIN backends_' : backends_'[n] = Contribution(Config[n])'
<1>0. /\ LCTypeOK /\ PoolConsistent
      /\ \A n \in DOMAIN backends_ :
           backends_[n] \in Nat /\ backends_[n] = Contribution(Config[n])
  BY DEF Inv, TypeOK, LCTypeOK, Accounting
\* Nothing the counters depend on changes.
<1>s. ASSUME UNCHANGED <<backends_, conn, target>> PROVE Goal
  BY <1>0, <1>s DEF Contribution, On
\* A connection moves between stages of the same weight.
<1>q. ASSUME NEW c \in Clients, Moves(c), UNCHANGED backends_,
             \A b : Weight(c, b)' = Weight(c, b)
      PROVE  Goal
  <2> SUFFICES ASSUME NEW n \in DOMAIN backends_
               PROVE  backends_[n] = Contribution(Config[n])'
    BY <1>q
  <2>1. Weight(c, Config[n]) \in Nat
    BY DEF Weight
  <2> QED BY <1>0, <1>q, <2>1, ContributionMoves
\* A connection gains one on b, and so does the counter of b.
<1>u. ASSUME NEW c \in Clients, Moves(c), NEW b, IncreaseConnectionCount(b),
             \A x : Weight(c, x)' = Weight(c, x) + (IF x = b THEN 1 ELSE 0)
      PROVE  Goal
  <2> SUFFICES ASSUME NEW n \in DOMAIN backends_
               PROVE  backends_'[n] = Contribution(Config[n])'
    BY <1>0, <1>u, IncreaseKeeps
  <2>1. backends_'[n] = backends_[n] + (IF Config[n] = b THEN 1 ELSE 0)
    BY <1>0, <1>u, CountsUp
  <2>2. Weight(c, Config[n]) \in Nat
    BY DEF Weight
  <2>3. Weight(c, Config[n])' = Weight(c, Config[n]) + (IF Config[n] = b THEN 1 ELSE 0)
    BY <1>u
  <2>4. /\ Contribution(Config[n]) \in Nat /\ Contribution(Config[n])' \in Nat
        /\ Contribution(Config[n])' + Weight(c, Config[n])
             = Contribution(Config[n]) + Weight(c, Config[n])'
    BY <1>u, ContributionMoves
  <2> QED BY <1>0, <2>1, <2>2, <2>3, <2>4
\* A connection loses one on b, and so does the counter of b, for it is not 0.
<1>d. ASSUME NEW c \in Clients, Moves(c), NEW b, DecreaseConnectionCount(b),
             \/ \A x : /\ Weight(c, x) = (IF x = b THEN 2 ELSE 0)
                       /\ Weight(c, x)' = (IF x = b THEN 1 ELSE 0)
             \/ \A x : /\ Weight(c, x) = (IF x = b THEN 1 ELSE 0)
                       /\ Weight(c, x)' = 0
      PROVE  Goal
  <2> SUFFICES ASSUME NEW n \in DOMAIN backends_
               PROVE  backends_'[n] = Contribution(Config[n])'
    BY <1>0, <1>d, DecreaseKeeps
  <2>1. /\ Contribution(Config[n]) \in Nat /\ Contribution(Config[n])' \in Nat
        /\ Contribution(Config[n])' + Weight(c, Config[n])
             = Contribution(Config[n]) + Weight(c, Config[n])'
        /\ Weight(c, Config[n]) <= Contribution(Config[n])
    BY <1>d, ContributionMoves
  <2>2. CASE Config[n] = b
    <3>1. Weight(c, b) \in {1, 2} /\ Weight(c, b) = Weight(c, b)' + 1 /\ Weight(c, b)' \in {0, 1}
      BY <1>d
    <3>2. backends_[n] > 0
      BY <1>0, <2>1, <2>2, <3>1
    <3>3. backends_'[n] = backends_[n] - 1
      BY <1>0, <1>d, <2>2, <3>2, CountsDown
    <3> QED BY <1>0, <2>1, <2>2, <3>1, <3>3
  <2>3. CASE Config[n] # b
    <3>1. Weight(c, Config[n]) = 0 /\ Weight(c, Config[n])' = 0
      BY <1>d, <2>3
    <3>2. backends_'[n] = backends_[n]
      BY <1>0, <1>d, <2>3, CountsDownElsewhere
    <3> QED BY <1>0, <2>1, <3>1, <3>2
  <2> QED BY <2>2, <2>3
<1> USE DEF Inv, TypeOK, HandlersOwned, Stages, InHandler, Waiting, ThreadStates,
            Free, Running, Advance, Begin, Return, Throw, appVars, Weight, CountedOnce
<1>1. ASSUME NEW t \in Threads, NEW c \in Clients, Accept(t, c) PROVE Goal
  <2>1. Moves(c) /\ UNCHANGED backends_
    BY <1>1 DEF Accept, Moves, lcVars
  <2>2. \A b : Weight(c, b)' = Weight(c, b)
    BY <1>1 DEF Accept
  <2> QED BY <2>1, <2>2, <1>q
<1>2. ASSUME NEW t \in Threads, AcceptError(t) PROVE Goal
  BY <1>2, <1>s DEF AcceptError, lcVars
<1>3. ASSUME NEW t \in Threads, Select(t) PROVE Goal
  <2>0. PICK c \in Clients : c = job[t]
    BY <1>3 DEF Select
  <2>1. PICK b \in Backends :
          /\ SelectBackend(b)
          /\ target' = [target EXCEPT ![c] = b]
          /\ Advance(c, IF b \in Urls THEN "resolving" ELSE "connecting")
    BY <1>3, <2>0 DEF Select
  <2>2. c \in Clients /\ conn[c] = "selecting" /\ Moves(c)
    BY <1>3, <2>0, <2>1 DEF Select, Moves
  <2>3. \A x : Weight(c, x) = 0 /\ Weight(c, x)' = IF x = b THEN 1 ELSE 0
    BY <2>1, <2>2
  <2>4. IncreaseConnectionCount(b)
    BY <2>1 DEF SelectBackend
  <2> QED BY <2>2, <2>3, <2>4, <1>u
<1>4. ASSUME NEW t \in Threads, SelectCrash(t) PROVE Goal
  BY <1>4, <1>s DEF SelectCrash, lcVars
<1>5. ASSUME NEW t \in Threads, ClientGone(t) PROVE Goal
  <2>0. PICK c \in Clients : c = job[t]
    BY <1>5 DEF ClientGone
  <2>1. c \in Clients /\ Moves(c) /\ UNCHANGED backends_
    BY <1>5, <2>0 DEF ClientGone, Moves, lcVars
  <2>2. \A b : Weight(c, b)' = Weight(c, b)
    BY <1>5, <2>0, <2>1 DEF ClientGone
  <2> QED BY <2>1, <2>2, <1>q
<1>6. ASSUME NEW t \in Threads, NEW c \in Clients, Resolved(t, c) PROVE Goal
  <2>1. Moves(c) /\ UNCHANGED backends_
    BY <1>6 DEF Resolved, Moves, lcVars
  <2>2. \A b : Weight(c, b)' = Weight(c, b)
    BY <1>6 DEF Resolved
  <2> QED BY <2>1, <2>2, <1>q
<1>7. ASSUME NEW t \in Threads, NEW c \in Clients, Refused(t, c) PROVE Goal
  <2>1. Moves(c) /\ UNCHANGED backends_
    BY <1>7 DEF Refused, Moves, lcVars
  <2>2. \A b : Weight(c, b)' = Weight(c, b)
    BY <1>7 DEF Refused
  <2> QED BY <2>1, <2>2, <1>q
<1>8. ASSUME NEW t \in Threads, NEW c \in Clients, ConnectFailed(t, c) PROVE Goal
  <2>1. Moves(c) /\ UNCHANGED backends_
    BY <1>8 DEF ConnectFailed, Moves, lcVars
  <2>2. \A b : Weight(c, b)' = Weight(c, b)
    BY <1>8 DEF ConnectFailed
  <2> QED BY <2>1, <2>2, <1>q
<1>9. ASSUME NEW t \in Threads, NEW c \in Clients, Connected(t, c) PROVE Goal
  <2>1. Moves(c) /\ IncreaseConnectionCount(target[c])
    BY <1>9 DEF Connected, Moves
  <2>2. \A x : /\ Weight(c, x) = (IF x = target[c] THEN 1 ELSE 0)
              /\ Weight(c, x)' = (IF x = target[c] THEN 2 ELSE 0)
    BY <1>9 DEF Connected
  <2>3. \A x : Weight(c, x)' = Weight(c, x) + (IF x = target[c] THEN 1 ELSE 0)
    BY <2>2
  <2> QED BY <2>1, <2>2, <2>3, <1>u
<1>10. ASSUME NEW t \in Threads, Exclude(t) PROVE Goal
  <2>0. PICK c \in Clients : c = job[t]
    BY <1>10 DEF Exclude
  <2>1. c \in Clients /\ Moves(c) /\ target' = target
    BY <1>10, <2>0 DEF Exclude, Moves
  <2>2. conn'[c] \in {"selecting", "lost"}
    BY <1>10, <2>0, <2>1 DEF Exclude
  <2>3. \A n \in DOMAIN backends_' :
          n \in DOMAIN backends_ /\ backends_'[n] = backends_[n] /\ Config[n] # target[c]
    BY <1>10, <2>0, <2>1 DEF Exclude, ExcludeBackend, InPool, PoolConsistent, lcVars
  <2>4. \A x : x # target[c] => Weight(c, x) = 0 /\ Weight(c, x)' = 0
    BY <2>1
  <2>5. ASSUME NEW n \in DOMAIN backends_' PROVE backends_'[n] = Contribution(Config[n])'
    <3>1. Contribution(Config[n])' = Contribution(Config[n])
      BY <2>1, <2>3, <2>4, ContributionMoves
    <3> QED BY <2>3, <3>1 DEF Accounting
  <2> QED BY <2>5
<1>11. ASSUME NEW t \in Threads, NEW c \in Clients, SessionError(t, c) PROVE Goal
  <2>1. Moves(c) /\ DecreaseConnectionCount(target[c])
    BY <1>11 DEF SessionError, Moves
  <2>2. \A x : /\ Weight(c, x) = (IF x = target[c] THEN 2 ELSE 0)
              /\ Weight(c, x)' = (IF x = target[c] THEN 1 ELSE 0)
    BY <1>11 DEF SessionError
  <2> QED BY <2>1, <2>2, <1>d
<1>12. ASSUME NEW t \in Threads, Destroy(t) PROVE Goal
  <2>0. PICK c \in Clients : c = job[t]
    BY <1>12 DEF Destroy
  <2>1. c \in Clients /\ Moves(c) /\ DecreaseConnectionCount(target[c])
    BY <1>12, <2>0 DEF Destroy, Moves
  <2>2. \A x : /\ Weight(c, x) = (IF x = target[c] THEN 1 ELSE 0)
              /\ Weight(c, x)' = 0
    BY <1>12, <2>0, <2>1 DEF Destroy
  <2> QED BY <2>1, <2>2, <1>d
<1>13. ASSUME NEW t \in Threads, Catch(t) PROVE Goal
  BY <1>13, <1>s DEF Catch, lcVars
<1>14. ASSUME NEW t \in Threads, Signal(t) PROVE Goal
  BY <1>14, <1>s DEF Signal, lcVars
<1>15. ASSUME NEW t \in Threads, Terminate(t) PROVE Goal
  BY <1>15, <1>s DEF Terminate, lcVars
<1>16. ASSUME NEW t \in Threads, Leave(t) PROVE Goal
  BY <1>16, <1>s DEF Leave, lcVars
<1>17. CASE UNCHANGED vars
  BY <1>17, <1>s DEF vars
<1> HIDE DEF Inv, TypeOK, HandlersOwned, Stages, InHandler, Waiting, ThreadStates,
             Free, Running, Advance, Begin, Return, Throw, appVars, Weight, CountedOnce
<1>18. Goal
  BY <1>1, <1>2, <1>3, <1>4, <1>5, <1>6, <1>7, <1>8, <1>9, <1>10, <1>11, <1>12,
     <1>13, <1>14, <1>15, <1>16, <1>17 DEF Next, ThreadStep, ConnectStep, Finished
<1> QED BY <1>18 DEF Goal

\* Whatever the interleaving of selections, failed connects, session ends and
\* exclusions, the counter SelectBackend orders the heap by is determined by
\* the connections there are: no update is lost and none is swallowed by the
\* counter > 0 guard of DecreaseConnectionCount.
THEOREM CountersAccounted ==
  ASSUME IsFiniteSet(Clients)
  PROVE  Spec => []Accounting
<1>1. Init => Accounting
  <2> SUFFICES ASSUME Init PROVE Accounting
    OBVIOUS
  <2>1. ASSUME NEW n \in Node PROVE Contribution(Config[n]) = 0
    <3>1. \A S : "outside" \notin S => On(Config[n], S) = {}
      BY DEF Init, On
    <3>2. /\ On(Config[n], {"serving"}) = {}
          /\ On(Config[n], {"resolving", "connecting", "refused", "cancelled", "dropped"}) = {}
      BY <3>1
    <3> QED BY <3>2, FS_EmptySet DEF Contribution
  <2> QED BY <2>1 DEF Init, Configure, Accounting
<1> QED
  BY <1>1, Invariance, AccountingNext, PTL DEF Spec

-----------------------------------------------------------------------------
(* How far from the fewest connections the selection can be. *)

LEMMA CardinalityDisjoint ==
  ASSUME NEW S, NEW T, IsFiniteSet(S), IsFiniteSet(T), S \cap T = {}
  PROVE  Cardinality(S \cup T) = Cardinality(S) + Cardinality(T)
<1>1. /\ Cardinality(S) \in Nat /\ Cardinality(T) \in Nat
      /\ Cardinality(S \cup T) = Cardinality(S) + Cardinality(T) - Cardinality(S \cap T)
  BY FS_Union, FS_CardinalityType
<1>2. Cardinality(S \cap T) = 0
  BY FS_EmptySet
<1> QED
  BY <1>1, <1>2

\* What a counter says of the connections that are alive.
LEMMA ContributionBounds ==
  ASSUME IsFiniteSet(Clients), NEW b
  PROVE  /\ Live(b) \in Nat /\ Contribution(b) \in Nat /\ Dropped(b) \in Nat
         /\ Live(b) <= Contribution(b)
         /\ Contribution(b) <= 2 * Live(b) + Dropped(b)
<1> DEFINE P == On(b, {"resolving", "connecting", "refused", "cancelled"})
           S == On(b, {"serving"})
           X == On(b, {"dropped"})
<1>1. IsFiniteSet(P) /\ IsFiniteSet(S) /\ IsFiniteSet(X)
  <2>1. P \subseteq Clients /\ S \subseteq Clients /\ X \subseteq Clients
    BY DEF On
  <2> QED BY <2>1, FS_Subset
<1>2. P \cap S = {} /\ P \cap X = {}
  BY DEF On
<1>3. /\ On(b, {"resolving", "connecting", "refused", "serving", "cancelled"}) = P \cup S
      /\ On(b, {"resolving", "connecting", "refused", "cancelled", "dropped"}) = P \cup X
  BY DEF On
<1>4. /\ Live(b) = Cardinality(P \cup S)
      /\ Contribution(b) = Cardinality(P \cup X) + 2 * Cardinality(S)
      /\ Dropped(b) = Cardinality(X)
  BY <1>3 DEF Live, Contribution, Dropped
<1> HIDE DEF P, S, X
<1>5. /\ Cardinality(P \cup S) = Cardinality(P) + Cardinality(S)
      /\ Cardinality(P \cup X) = Cardinality(P) + Cardinality(X)
  BY <1>1, <1>2, CardinalityDisjoint
<1>6. Cardinality(P) \in Nat /\ Cardinality(S) \in Nat /\ Cardinality(X) \in Nat
  BY <1>1, FS_CardinalityType
<1> QED
  BY <1>4, <1>5, <1>6

LEMMA SelectedFromTop ==
  ASSUME Inv, [Next]_vars, NEW x \in Clients, Selected(x)
  PROVE  \E n \in DOMAIN backends_ : IsTop(n) /\ target'[x] = Config[n]
<1> DEFINE Goal == \E n \in DOMAIN backends_ : IsTop(n) /\ target'[x] = Config[n]
<1> USE DEF Inv, TypeOK, HandlersOwned, Stages, InHandler, Waiting, ThreadStates,
            Free, Running, Advance, Begin, Return, Throw, appVars, Selected
<1>1. ASSUME NEW t \in Threads, NEW c \in Clients, Accept(t, c) PROVE Goal
  BY <1>1 DEF Accept
<1>2. ASSUME NEW t \in Threads, AcceptError(t) PROVE Goal
  BY <1>2 DEF AcceptError
<1>3. ASSUME NEW t \in Threads, Select(t) PROVE Goal
  BY <1>3 DEF Select, SelectBackend
<1>4. ASSUME NEW t \in Threads, SelectCrash(t) PROVE Goal
  BY <1>4 DEF SelectCrash
<1>5. ASSUME NEW t \in Threads, ClientGone(t) PROVE Goal
  BY <1>5 DEF ClientGone
<1>6. ASSUME NEW t \in Threads, NEW c \in Clients, Resolved(t, c) PROVE Goal
  BY <1>6 DEF Resolved
<1>7. ASSUME NEW t \in Threads, NEW c \in Clients, Refused(t, c) PROVE Goal
  BY <1>7 DEF Refused
<1>8. ASSUME NEW t \in Threads, NEW c \in Clients, ConnectFailed(t, c) PROVE Goal
  BY <1>8 DEF ConnectFailed
<1>9. ASSUME NEW t \in Threads, NEW c \in Clients, Connected(t, c) PROVE Goal
  BY <1>9 DEF Connected
<1>10. ASSUME NEW t \in Threads, Exclude(t) PROVE Goal
  BY <1>10 DEF Exclude
<1>11. ASSUME NEW t \in Threads, NEW c \in Clients, SessionError(t, c) PROVE Goal
  BY <1>11 DEF SessionError
<1>12. ASSUME NEW t \in Threads, Destroy(t) PROVE Goal
  BY <1>12 DEF Destroy
<1>13. ASSUME NEW t \in Threads, Catch(t) PROVE Goal
  BY <1>13 DEF Catch
<1>14. ASSUME NEW t \in Threads, Signal(t) PROVE Goal
  BY <1>14 DEF Signal
<1>15. ASSUME NEW t \in Threads, Terminate(t) PROVE Goal
  BY <1>15 DEF Terminate
<1>16. ASSUME NEW t \in Threads, Leave(t) PROVE Goal
  BY <1>16 DEF Leave
<1>17. CASE UNCHANGED vars
  BY <1>17 DEF vars
<1> QED
  BY <1>1, <1>2, <1>3, <1>4, <1>5, <1>6, <1>7, <1>8, <1>9, <1>10, <1>11, <1>12,
     <1>13, <1>14, <1>15, <1>16, <1>17 DEF Next, ThreadStep, ConnectStep, Finished

\* The bound that the double count of SelectBackend and OnConnect, and the count
\* a failed connect leaves behind, still allow.
THEOREM SelectionWithinFactorTwo ==
  ASSUME IsFiniteSet(Clients)
  PROVE  Spec => WithinFactorTwo
<1> DEFINE Step == NoDuplicates => \A c \in Clients : Selected(c) =>
                     \A n \in DOMAIN backends_ :
                       Live(target'[c]) <= 2 * Live(Config[n]) + Dropped(Config[n])
<1>1. Inv /\ Accounting /\ [Next]_vars => Step
  <2> SUFFICES ASSUME Inv, Accounting, [Next]_vars, NoDuplicates,
                      NEW c \in Clients, Selected(c), NEW n \in DOMAIN backends_
               PROVE  Live(target'[c]) <= 2 * Live(Config[n]) + Dropped(Config[n])
    OBVIOUS
  <2>1. PICK m \in DOMAIN backends_ : IsTop(m) /\ target'[c] = Config[m]
    BY SelectedFromTop
  <2>2. /\ backends_[m] <= backends_[n]
        /\ backends_[m] = Contribution(Config[m])
        /\ backends_[n] = Contribution(Config[n])
    BY <2>1 DEF IsTop, Accounting
  <2>3. Live(Config[m]) <= 2 * Live(Config[n]) + Dropped(Config[n])
    <3>1. /\ Live(Config[m]) \in Nat /\ Contribution(Config[m]) \in Nat
          /\ Live(Config[m]) <= Contribution(Config[m])
      BY ContributionBounds
    <3>2. /\ Live(Config[n]) \in Nat /\ Contribution(Config[n]) \in Nat
          /\ Dropped(Config[n]) \in Nat
          /\ Contribution(Config[n]) <= 2 * Live(Config[n]) + Dropped(Config[n])
      BY ContributionBounds
    <3> QED BY <2>2, <3>1, <3>2
  <2> QED BY <2>1, <2>3
<1>2. [][Step]_vars => WithinFactorTwo
  BY PTL DEF WithinFactorTwo
<1> HIDE DEF Step
<1> QED
  BY <1>1, <1>2, Invariance, CountersAccounted, PTL DEF Spec

-----------------------------------------------------------------------------
(* Refinement. *)

LEMMA DispatchInit == Init => D!Init
<1> SUFFICES ASSUME Init PROVE D!Init
  OBVIOUS
<1>1. InRotation \subseteq Backends
  BY NodesHaveNames DEF Init, Configure, InRotation
<1> QED
  BY <1>1 DEF Init, D!Init, FateOf

LEMMA DispatchNext ==
  NoDuplicates /\ Inv /\ [Next]_vars => [D!Next]_(D!vars)
<1> SUFFICES ASSUME NoDuplicates, Inv, [Next]_vars PROVE [D!Next]_(D!vars)
  OBVIOUS
<1> DEFINE fates == [c \in Clients |-> FateOf(conn[c])]
<1>0. LCTypeOK /\ PoolConsistent
  BY DEF Inv, TypeOK
<1>k. \A b : IncreaseConnectionCount(b) \/ DecreaseConnectionCount(b) => InRotation' = InRotation
  BY <1>0, IncreaseKeeps, DecreaseKeeps DEF InRotation
<1> USE DEF Inv, TypeOK, HandlersOwned, Stages, InHandler, Waiting, ThreadStates,
            Free, Running, Advance, Begin, Return, Throw, appVars, FateOf
<1>1. ASSUME NEW t \in Threads, NEW c \in Clients, Accept(t, c) PROVE [D!Next]_(D!vars)
  <2>1. InRotation' = InRotation /\ target' = target
    BY <1>1, <1>k DEF Accept, InRotation, lcVars
  <2>2. fates' = [fates EXCEPT ![c] = FateOf(conn'[c])]
    BY <1>1 DEF Accept
  <2>3. D!Arrive(c)
    BY <1>1, <2>1, <2>2 DEF Accept, D!Arrive, D!Become
  <2> QED BY <2>3 DEF D!Next
<1>2. ASSUME NEW t \in Threads, AcceptError(t) PROVE [D!Next]_(D!vars)
  <2>1. UNCHANGED <<InRotation, fates, target>>
    BY <1>2 DEF AcceptError, InRotation, lcVars
  <2> QED BY <2>1 DEF D!vars
<1>3. ASSUME NEW t \in Threads, Select(t) PROVE [D!Next]_(D!vars)
  <2>0. PICK c \in Clients : c = job[t]
    BY <1>3 DEF Select
  <2>1. PICK b \in Backends :
          /\ SelectBackend(b)
          /\ target' = [target EXCEPT ![c] = b]
          /\ Advance(c, IF b \in Urls THEN "resolving" ELSE "connecting")
    BY <1>3, <2>0 DEF Select
  <2>2. InRotation' = InRotation /\ b \in InRotation
    BY <2>1, <1>k DEF SelectBackend, InRotation
  <2>3. fates' = [fates EXCEPT ![c] = "trying"]
    BY <2>1
  <2>4. D!Try(c)
    BY <1>3, <2>0, <2>1, <2>2, <2>3 DEF Select, D!Try, D!Become
  <2> QED BY <2>4 DEF D!Next
<1>4. ASSUME NEW t \in Threads, SelectCrash(t) PROVE [D!Next]_(D!vars)
  <2>1. UNCHANGED <<InRotation, fates, target>>
    BY <1>4 DEF SelectCrash, InRotation, lcVars
  <2> QED BY <2>1 DEF D!vars
<1>5. ASSUME NEW t \in Threads, ClientGone(t) PROVE [D!Next]_(D!vars)
  <2>0. PICK c \in Clients : c = job[t]
    BY <1>5 DEF ClientGone
  <2>1. InRotation' = InRotation /\ target' = target
    BY <1>5, <2>0, <1>k DEF ClientGone, InRotation, lcVars
  <2>2. fates' = [fates EXCEPT ![c] = FateOf(conn'[c])]
    BY <1>5, <2>0 DEF ClientGone
  <2>3. D!Drop(c)
    BY <1>5, <2>0, <2>1, <2>2 DEF ClientGone, D!Drop, D!Become
  <2> QED BY <2>3 DEF D!Next
<1>6. ASSUME NEW t \in Threads, NEW c \in Clients, Resolved(t, c) PROVE [D!Next]_(D!vars)
  <2>1. UNCHANGED <<InRotation, fates, target>>
    BY <1>6 DEF Resolved, InRotation, lcVars
  <2> QED BY <2>1 DEF D!vars
<1>7. ASSUME NEW t \in Threads, NEW c \in Clients, Refused(t, c) PROVE [D!Next]_(D!vars)
  <2>1. UNCHANGED <<InRotation, fates, target>>
    BY <1>7 DEF Refused, InRotation, lcVars
  <2> QED BY <2>1 DEF D!vars
<1>8. ASSUME NEW t \in Threads, NEW c \in Clients, ConnectFailed(t, c) PROVE [D!Next]_(D!vars)
  <2>1. InRotation' = InRotation /\ target' = target
    BY <1>8, <1>k DEF ConnectFailed, InRotation, lcVars
  <2>2. fates' = [fates EXCEPT ![c] = FateOf(conn'[c])]
    BY <1>8 DEF ConnectFailed
  <2>3. D!Drop(c)
    BY <1>8, <2>1, <2>2 DEF ConnectFailed, D!Drop, D!Become
  <2> QED BY <2>3 DEF D!Next
<1>9. ASSUME NEW t \in Threads, NEW c \in Clients, Connected(t, c) PROVE [D!Next]_(D!vars)
  <2>1. InRotation' = InRotation /\ target' = target
    BY <1>9, <1>k DEF Connected, InRotation, lcVars
  <2>2. fates' = [fates EXCEPT ![c] = FateOf(conn'[c])]
    BY <1>9 DEF Connected
  <2>3. D!Serve(c)
    BY <1>9, <2>1, <2>2 DEF Connected, D!Serve, D!Become
  <2> QED BY <2>3 DEF D!Next
<1>10. ASSUME NEW t \in Threads, Exclude(t) PROVE [D!Next]_(D!vars)
  <2>0. PICK c \in Clients : c = job[t]
    BY <1>10 DEF Exclude
  <2>1. InRotation' = InRotation \ {target[c]}
    <3>1. CASE ~InPool(target[c])
      BY <1>0, <1>10, <2>0, <3>1
      DEF Exclude, ExcludeBackend, lcVars, InRotation, PoolConsistent, InPool
    <3>2. CASE InPool(target[c])
      BY <1>0, <1>10, <2>0, <3>2
      DEF Exclude, ExcludeBackend, InRotation, PoolConsistent, InPool, LCTypeOK
    <3> QED BY <3>1, <3>2
  <2>2. fates' = [fates EXCEPT ![c] = FateOf(conn'[c])] /\ target' = target
    <3>1. target' = target /\ conn[c] = "refused"
      BY <1>10, <2>0 DEF Exclude
    <3>2. conn' = [conn EXCEPT ![c] = "lost"] \/ conn' = [conn EXCEPT ![c] = "selecting"]
      BY <1>10, <2>0 DEF Exclude
    <3> QED BY <3>1, <3>2, ZenonT(30)
  <2>3. CASE ExcludeThrows(target[c])
    <3>1. InRotation' = {} /\ fates[c] = "trying" /\ FateOf(conn'[c]) = "ended"
      BY <1>0, <1>10, <2>0, <2>3
      DEF Exclude, ExcludeThrows, ExcludeBackend, InRotation
    <3> QED BY <2>1, <2>2, <3>1 DEF D!Next, D!Refuse, D!Become
  <2>4. CASE ~ExcludeThrows(target[c])
    <3>1. fates[c] = "trying" /\ FateOf(conn'[c]) = "waiting"
      BY <1>10, <2>0, <2>4 DEF Exclude
    <3>2. InRotation' = {} => InRotation = {}
      <4>1. CASE ~InPool(target[c])
        BY <1>10, <2>0, <4>1 DEF Exclude, ExcludeBackend, lcVars, InRotation
      <4>2. CASE InPool(target[c])
        <5>1. DOMAIN backends_' = DOMAIN backends_ \ {handle_pool_[target[c]]}
          BY <1>10, <2>0, <4>2 DEF Exclude, ExcludeBackend
        <5>2. handle_pool_[target[c]] \in DOMAIN backends_
          BY <1>0, <4>2 DEF LCTypeOK, InPool
        <5>3. DOMAIN backends_' # {}
          BY <2>4, <4>2, <5>1, <5>2 DEF ExcludeThrows
        <5> QED BY <5>3 DEF InRotation
      <4> QED BY <4>1, <4>2
    <3> QED BY <2>1, <2>2, <3>1, <3>2 DEF D!Next, D!Refuse, D!Become
  <2> QED BY <2>3, <2>4
<1>11. ASSUME NEW t \in Threads, NEW c \in Clients, SessionError(t, c) PROVE [D!Next]_(D!vars)
  <2>1. InRotation' = InRotation /\ target' = target /\ fates' = fates
    BY <1>11, <1>k DEF SessionError
  <2> QED BY <2>1 DEF D!vars
<1>12. ASSUME NEW t \in Threads, Destroy(t) PROVE [D!Next]_(D!vars)
  <2>0. PICK c \in Clients : c = job[t]
    BY <1>12 DEF Destroy
  <2>1. InRotation' = InRotation /\ target' = target
    BY <1>12, <2>0, <1>k DEF Destroy, InRotation, lcVars
  <2>2. fates' = [fates EXCEPT ![c] = FateOf(conn'[c])]
    BY <1>12, <2>0 DEF Destroy
  <2>3. D!End(c)
    BY <1>12, <2>0, <2>1, <2>2 DEF Destroy, D!End, D!Become
  <2> QED BY <2>3 DEF D!Next
<1>13. ASSUME NEW t \in Threads, Catch(t) PROVE [D!Next]_(D!vars)
  <2>1. UNCHANGED <<InRotation, fates, target>>
    BY <1>13 DEF Catch, InRotation, lcVars
  <2> QED BY <2>1 DEF D!vars
<1>14. ASSUME NEW t \in Threads, Signal(t) PROVE [D!Next]_(D!vars)
  <2>1. UNCHANGED <<InRotation, fates, target>>
    BY <1>14 DEF Signal, InRotation, lcVars
  <2> QED BY <2>1 DEF D!vars
<1>15. ASSUME NEW t \in Threads, Terminate(t) PROVE [D!Next]_(D!vars)
  <2>1. UNCHANGED <<InRotation, fates, target>>
    BY <1>15 DEF Terminate, InRotation, lcVars
  <2> QED BY <2>1 DEF D!vars
<1>16. ASSUME NEW t \in Threads, Leave(t) PROVE [D!Next]_(D!vars)
  <2>1. UNCHANGED <<InRotation, fates, target>>
    BY <1>16 DEF Leave, InRotation, lcVars
  <2> QED BY <2>1 DEF D!vars
<1>17. CASE UNCHANGED vars
  BY <1>17 DEF vars, D!vars, InRotation
<1> HIDE DEF Inv, TypeOK, HandlersOwned, Stages, InHandler, Waiting, ThreadStates,
             Free, Running, Advance, Begin, Return, Throw, appVars, FateOf, fates
<1> QED
  BY <1>1, <1>2, <1>3, <1>4, <1>5, <1>6, <1>7, <1>8, <1>9, <1>10, <1>11, <1>12,
     <1>13, <1>14, <1>15, <1>16, <1>17 DEF Next, ThreadStep, ConnectStep, Finished

\* With every endpoint listed once the running balancer keeps the promise of
\* Dispatch, whatever the interleaving of its threads.
THEOREM BalancerImplementsDispatch ==
  ASSUME NoDuplicates
  PROVE  Spec => ImplementsDispatch
<1> QED
  BY Invariance, DispatchInit, DispatchNext, PTL DEF Spec, ImplementsDispatch, D!Spec

=============================================================================
