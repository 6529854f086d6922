----------------------- MODULE GatewayProcess_proofs -----------------------
(***************************************************************************)
(* Proofs about GatewayProcess: type correctness, that the breakers agree  *)
(* with the failures they count, and that a worker process which exits     *)
(* with code 0 has waited for its jobs.  The last needs to know in which   *)
(* states of a shutdown a worker can still be closing.                     *)
(***************************************************************************)
EXTENDS GatewayProcess, TLAPS

\* A job has its worker; only a worker process has any; once the stores are being
\* closed, every worker that is closing has used up its time.
JobsInv ==
  /\ role = "server" => \A w \in Workers : worker[w] = "absent"
  /\ halt \in {"drain", "sockets"} => role = "server"
  /\ halt = "stores" => \A w \in Workers : worker[w] = "closing" => w \in gaveUp
  /\ \A t \in Tasks : task[t].of # Nothing => worker[task[t].of] \in {"open", "closing"}
  /\ exit = "zero" => halt = "stores"

IInv == TypeOK /\ BreakerAgrees /\ JobsInv

-----------------------------------------------------------------------------
(* The breaker.                                                            *)

BreakerInv(b) ==
  /\ b.state = "CLOSED" <=> b.failures < Threshold
  /\ b.state = "HALF_OPEN" => b.rested = Reset

LEMMA FreshAgrees == FreshBreaker \in Breakers /\ BreakerInv(FreshBreaker)
  BY ConnectionsAssumption DEF FreshBreaker, Breakers, BreakerInv

LEMMA AdmittedAgrees ==
  ASSUME NEW b \in Breakers, BreakerInv(b), CanExecute(b)
  PROVE  Admitted(b) \in Breakers /\ BreakerInv(Admitted(b))
  BY ConnectionsAssumption DEF Admitted, CanExecute, Breakers, BreakerInv

LEMMA FailureAgrees ==
  ASSUME NEW b \in Breakers, BreakerInv(b)
  PROVE  RecordFailure(b) \in Breakers /\ BreakerInv(RecordFailure(b))
<1> DEFINE n == IF b.failures < Threshold THEN b.failures + 1 ELSE Threshold
<1>1. b.failures \in 0..Threshold
  BY DEF Breakers
<1>2. n \in 0..Threshold
  BY <1>1, ConnectionsAssumption
<1>3. CASE n = Threshold
  BY <1>2, <1>3, ConnectionsAssumption DEF RecordFailure, Breakers, BreakerInv
<1>4. CASE n # Threshold
  <2>1. n < Threshold /\ b.failures < Threshold
    BY <1>1, <1>2, <1>4, ConnectionsAssumption
  <2>2. RecordFailure(b) = [b EXCEPT !.failures = n]
    BY <1>4 DEF RecordFailure
  <2>3. b.state = "CLOSED"
    BY <2>1 DEF BreakerInv
  <2> HIDE DEF n
  <2> QED
    BY <1>2, <2>1, <2>2, <2>3 DEF Breakers, BreakerInv
<1> QED
  BY <1>3, <1>4

LEMMA RestedAgrees ==
  ASSUME NEW b \in Breakers, BreakerInv(b)
  PROVE  LET c == [b EXCEPT !.rested = IF @ < Reset THEN @ + 1 ELSE Reset]
         IN  c \in Breakers /\ BreakerInv(c)
  BY ConnectionsAssumption DEF Breakers, BreakerInv

\* What every step does to the breakers, from the four above.
BreakersKept == breaker' \in [Guarded -> Breakers] /\ \A d \in Guarded : BreakerInv(breaker'[d])

LEMMA AgreesInv == BreakerAgrees <=> \A d \in Guarded : BreakerInv(breaker[d])
  BY DEF BreakerAgrees, BreakerInv

LEMMA AgreesInvNext == BreakerAgrees' <=> \A d \in Guarded : BreakerInv(breaker'[d])
  BY DEF BreakerAgrees, BreakerInv

LEMMA RecordedKept ==
  ASSUME TypeOK, BreakerAgrees, NEW d \in Guarded, NEW b \in Breakers, BreakerInv(b),
         Recorded(d, b)
  PROVE  BreakersKept
  BY AgreesInv DEF Recorded, BreakersKept, TypeOK, ConnTypeOK

-----------------------------------------------------------------------------
(* Steps of the connections.                                               *)

LEMMA BuildTypes ==
  ASSUME TypeOK, NEW cs \in SUBSET Clients, Build(cs)
  PROVE  /\ link' \in [Clients -> {"none", "new", "ready", "retrying", "ended"}]
         /\ retries' \in [Clients -> 0..MaxRetries]
         /\ registry' \in SUBSET Clients
  BY ConnectionsAssumption DEF Build, TypeOK, ConnTypeOK

LEMMA LoseTypes ==
  ASSUME TypeOK, NEW c \in Clients, Lose(c)
  PROVE  /\ link' \in [Clients -> {"none", "new", "ready", "retrying", "ended"}]
         /\ retries' \in [Clients -> 0..MaxRetries]
         /\ registry' \in SUBSET Clients
<1>1. retries[c] \in 0..MaxRetries
  BY DEF TypeOK, ConnTypeOK
<1> QED
  BY <1>1, ConnectionsAssumption DEF Lose, TypeOK, ConnTypeOK

\* No call changes the worker of a task.
LEMMA ConnStep ==
  ASSUME TypeOK, BreakerAgrees, ConnNext
  PROVE  ConnTypeOK' /\ BreakerAgrees' /\ \A t \in Tasks : task'[t].of = task[t].of
<1> USE AgreesInv
<1>1. ASSUME NEW s \in Servers, Trouble(s) \/ Recover(s)
      PROVE  ConnTypeOK' /\ BreakersKept /\ task' = task
  BY <1>1, ConnectionsAssumption DEF Trouble, Recover, TypeOK, ConnTypeOK, BreakersKept
<1>2. ASSUME NEW c \in Clients, Connect(c) \/ Disconnected(c)
      PROVE  ConnTypeOK' /\ BreakersKept /\ task' = task
  <2>1. /\ link' \in [Clients -> {"none", "new", "ready", "retrying", "ended"}]
        /\ retries' \in [Clients -> 0..MaxRetries]
        /\ registry' \in SUBSET Clients
    <3>1. CASE Lose(c)
      BY <3>1, LoseTypes
    <3>2. CASE ~Lose(c)
      BY <1>2, <3>2, ConnectionsAssumption DEF Connect, Disconnected, TypeOK, ConnTypeOK
    <3> QED
      BY <3>1, <3>2
  <2>2. UNCHANGED <<server, troubles, breaker, task>>
    BY <1>2 DEF Connect, Disconnected
  <2> QED
    BY <2>1, <2>2 DEF TypeOK, ConnTypeOK, BreakersKept
<1>3. ASSUME NEW t \in Tasks, Pipeline(t)
      PROVE  ConnTypeOK' /\ BreakersKept /\ task' = task
  <2>1. Cache \in Guarded /\ breaker[Cache] \in Breakers /\ BreakerInv(breaker[Cache])
    BY DEF Guarded, TypeOK, ConnTypeOK
  <2>2. Admitted(breaker[Cache]) \in Breakers /\ BreakerInv(Admitted(breaker[Cache]))
    BY <1>3, <2>1, AdmittedAgrees DEF Pipeline
  <2>3. breaker' = [breaker EXCEPT ![Cache] = Admitted(breaker[Cache])]
    BY <1>3 DEF Pipeline
  <2>4. UNCHANGED <<server, troubles, link, retries, registry, task>>
    BY <1>3 DEF Pipeline
  <2> QED
    BY <2>1, <2>2, <2>3, <2>4 DEF TypeOK, ConnTypeOK, BreakersKept
<1>4. ASSUME NEW t \in Tasks, NEW d \in Guarded, Call(t, d)
      PROVE  ConnTypeOK' /\ BreakersKept /\ task'[t].of = task[t].of
             /\ \A u \in Tasks \ {t} : task'[u] = task[u]
  <2>1. /\ link' \in [Clients -> {"none", "new", "ready", "retrying", "ended"}]
        /\ retries' \in [Clients -> 0..MaxRetries]
        /\ registry' \in SUBSET Clients
    <3>1. CASE d = Cache /\ link[d] = "none"
      <4>1. {d} \in SUBSET Clients
        BY <3>1, ConnectionsAssumption DEF Clients
      <4> QED
        BY <1>4, <3>1, <4>1, BuildTypes DEF Call
    <3>2. CASE ~(d = Cache /\ link[d] = "none")
      BY <1>4, <3>2 DEF Call, TypeOK, ConnTypeOK
    <3> QED
      BY <3>1, <3>2
  <2>2. breaker[d] \in Breakers /\ BreakerInv(breaker[d])
    BY DEF TypeOK, ConnTypeOK
  <2>3. BreakersKept
    <3>1. CASE UNCHANGED breaker
      BY <3>1 DEF BreakersKept, TypeOK, ConnTypeOK
    <3>2. CASE CanExecute(breaker[d]) /\ breaker' = [breaker EXCEPT ![d] = Admitted(@)]
      <4>1. Admitted(breaker[d]) \in Breakers /\ BreakerInv(Admitted(breaker[d]))
        BY <2>2, <3>2, AdmittedAgrees
      <4> QED
        BY <3>2, <4>1 DEF BreakersKept, TypeOK, ConnTypeOK
    <3> QED
      BY <1>4, <3>1, <3>2 DEF Call
  <2>4. task[t] \in TaskRecords
    BY DEF TypeOK, ConnTypeOK
  <2>5. PICK at \in {"calling", "refused"} :
          task' \in {task, [task EXCEPT ![t].at = at, ![t].on = d]}
    BY <1>4 DEF Call
  <2>6. task' \in [Tasks -> TaskRecords] /\ task'[t].of = task[t].of
        /\ \A u \in Tasks \ {t} : task'[u] = task[u]
    BY <2>4, <2>5 DEF TypeOK, ConnTypeOK, TaskRecords
  <2>7. UNCHANGED <<server, troubles>>
    BY <1>4 DEF Call
  <2> QED
    BY <2>1, <2>3, <2>6, <2>7 DEF TypeOK, ConnTypeOK, BreakersKept
<1>5. ASSUME NEW t \in Tasks, Answer(t)
      PROVE  ConnTypeOK' /\ BreakersKept /\ task'[t].of = task[t].of
             /\ \A u \in Tasks \ {t} : task'[u] = task[u]
  <2>1. PICK d \in Guarded : Recorded(d, RecordSuccess(breaker[d]))
                             \/ Recorded(d, RecordFailure(breaker[d])) \/ UNCHANGED breaker
    BY <1>5 DEF Answer, CommandReturns, CommandRejected, QueryReturns, QueryFails, Guarded
  <2>2. BreakersKept
    <3>1. breaker[d] \in Breakers /\ BreakerInv(breaker[d])
      BY DEF TypeOK, ConnTypeOK
    <3>2. RecordSuccess(breaker[d]) \in Breakers /\ BreakerInv(RecordSuccess(breaker[d]))
      BY FreshAgrees DEF RecordSuccess
    <3>3. RecordFailure(breaker[d]) \in Breakers /\ BreakerInv(RecordFailure(breaker[d]))
      BY <3>1, FailureAgrees
    <3>4. CASE UNCHANGED breaker
      BY <3>4 DEF BreakersKept, TypeOK, ConnTypeOK
    <3>5. CASE Recorded(d, RecordSuccess(breaker[d]))
      BY <3>2, <3>5, RecordedKept
    <3>6. CASE Recorded(d, RecordFailure(breaker[d]))
      BY <3>3, <3>6, RecordedKept
    <3> QED
      BY <2>1, <3>4, <3>5, <3>6
  <2>3. Returned(t) /\ UNCHANGED <<server, troubles, link, retries, registry>>
    BY <1>5 DEF Answer, CommandReturns, CommandRejected, QueryReturns, QueryFails
  <2>4. task[t] \in TaskRecords
    BY DEF TypeOK, ConnTypeOK
  <2>5. task' \in [Tasks -> TaskRecords] /\ task'[t].of = task[t].of
        /\ \A u \in Tasks \ {t} : task'[u] = task[u]
    BY <2>3, <2>4 DEF Returned, TypeOK, ConnTypeOK, TaskRecords
  <2> QED
    BY <2>2, <2>3, <2>5 DEF TypeOK, ConnTypeOK, BreakersKept
<1> QED
  BY <1>1, <1>2, <1>3, <1>4, <1>5, AgreesInvNext DEF ConnNext, BreakersKept

-----------------------------------------------------------------------------
(* Steps of the process.                                                   *)

LEMMA StartStep ==
  ASSUME IInv, Running, Start
  PROVE  IInv'
<1> USE AgreesInv, ProcessAssumption, ConnectionsAssumption DEF IInv, JobsInv, Running, Leave
<1>1. ASSUME NEW d \in Databases, ConnectDatabase(d)
      PROVE  IInv'
  <2>1. /\ attempts' \in [Databases -> 0..MaxAttempts + 1]
        /\ exit' \in {"running", "one"}
    BY <1>1 DEF ConnectDatabase, TypeOK, Connected
  <2>2. UNCHANGED <<connVars, role, boot, worker, halt, elapsed, gaveUp, destroyed, toQuit, sqlClosed>>
    BY <1>1 DEF ConnectDatabase
  <2> QED
    BY <2>1, <2>2 DEF TypeOK, ConnTypeOK, BreakerAgrees, connVars
<1>2. ASSUME ConnectRedis
      PROVE  IInv'
  <2>1. /\ link' \in [Clients -> {"none", "new", "ready", "retrying", "ended"}]
        /\ retries' \in [Clients -> 0..MaxRetries]
        /\ registry' \in SUBSET Clients
    BY <1>2, BuildTypes DEF ConnectRedis, Clients
  <2> QED
    BY <1>2, <2>1 DEF ConnectRedis, TypeOK, ConnTypeOK, BreakerAgrees
<1>3. ASSUME StartWorkers
      PROVE  IInv'
  <2>1. /\ link' \in [Clients -> {"none", "new", "ready", "retrying", "ended"}]
        /\ retries' \in [Clients -> 0..MaxRetries]
        /\ registry' \in SUBSET Clients
    BY <1>3, BuildTypes DEF StartWorkers, Clients
  <2>2. worker' \in [Workers -> {"absent", "open", "closing", "closed"}]
    BY <1>3 DEF StartWorkers, TypeOK
  <2>3. JobsInv'
    <3>1. \A w \in Workers : worker'[w] \in {"open", worker[w]}
      BY <1>3 DEF StartWorkers
    <3>2. \A t \in Tasks : task[t].of \in Workers \cup {Nothing}
      BY DEF TypeOK, ConnTypeOK, TaskRecords
    <3>3. UNCHANGED <<role, halt, gaveUp, task, exit>> /\ role = "worker"
      BY <1>3 DEF StartWorkers
    <3> QED
      BY <3>1, <3>2, <3>3
  <2> QED
    BY <1>3, <2>1, <2>2, <2>3 DEF StartWorkers, TypeOK, ConnTypeOK, BreakerAgrees
<1>4. ASSUME RedisTried \/ WorkersReady \/ Listen \/ \E w \in Workers : WorkerFails(w)
      PROVE  IInv'
  BY <1>4 DEF RedisTried, WorkersReady, Listen, WorkerFails, TypeOK, ConnTypeOK, BreakerAgrees, connVars
<1> QED
  BY <1>1, <1>2, <1>3, <1>4 DEF Start

LEMMA ShutdownStep ==
  ASSUME IInv, Running, Shutdown
  PROVE  IInv'
<1> USE ProcessAssumption, ConnectionsAssumption DEF IInv, JobsInv, Running, Leave
<1>1. ASSUME Signal
      PROVE  IInv'
  <2>1. /\ worker' \in [Workers -> {"absent", "open", "closing", "closed"}]
        /\ \A w \in Workers : \/ worker'[w] = worker[w]
                              \/ role = "worker" /\ worker'[w] = "closing" /\ worker[w] = "open"
    BY <1>1 DEF Signal, TypeOK
  <2>2. /\ halt' \in {"drain", "workers"}
        /\ halt' = "drain" => role = "server"
        /\ exit' \in {"running", "one"} /\ elapsed' = 0
        /\ UNCHANGED <<connVars, role, boot, attempts, gaveUp, destroyed, toQuit, sqlClosed>>
    BY <1>1 DEF Signal
  <2>3. \A t \in Tasks : task[t].of \in Workers \cup {Nothing}
    BY DEF TypeOK, ConnTypeOK, TaskRecords
  <2>4. TypeOK' /\ BreakerAgrees'
    BY <2>1, <2>2 DEF TypeOK, ConnTypeOK, BreakerAgrees, connVars
  <2> QED
    BY <2>1, <2>2, <2>3, <2>4 DEF connVars
<1>2. ASSUME NEW w \in Workers, CloseWorker(w)
      PROVE  IInv'
  <2>1. \A t \in Tasks : task[t].of \in Workers \cup {Nothing}
    BY DEF TypeOK, ConnTypeOK, TaskRecords
  <2> QED
    BY <1>2, <2>1 DEF CloseWorker, TypeOK, ConnTypeOK, BreakerAgrees, connVars
<1>3. ASSUME NEW w \in Workers, StopTimesOut(w)
      PROVE  IInv'
  BY <1>3 DEF StopTimesOut, TypeOK, ConnTypeOK, BreakerAgrees, connVars
<1>4. CASE WorkersStopped
  <2>1. halt' = "stores" /\ toQuit' = registry
    BY <1>4 DEF WorkersStopped, BeginStores
  <2>2. TypeOK' /\ BreakerAgrees'
    BY <1>4, <2>1 DEF WorkersStopped, TypeOK, ConnTypeOK, BreakerAgrees, connVars
  <2> QED
    BY <1>4, <2>1, <2>2 DEF WorkersStopped, connVars
<1>6. CASE Drained \/ DestroySockets \/ DisconnectDatabases \/ Finish \/ ForceExit
  <2>1. /\ halt' \in {halt, "sockets"} /\ destroyed' \in BOOLEAN /\ sqlClosed' \in BOOLEAN
        /\ exit' \in {exit, "zero", "one"}
        /\ UNCHANGED <<connVars, role, boot, attempts, worker, elapsed, gaveUp, toQuit>>
    BY <1>6 DEF Drained, DestroySockets, DisconnectDatabases, Finish, ForceExit, TypeOK
  <2>2. TypeOK' /\ BreakerAgrees'
    BY <2>1 DEF TypeOK, ConnTypeOK, BreakerAgrees, connVars
  <2> QED
    BY <1>6, <2>1, <2>2 DEF Drained, DestroySockets, DisconnectDatabases, Finish, ForceExit, connVars
<1>7. CASE CloseWebsocketGateway
  <2>1. role = "server" /\ halt' \in {halt, "stores"} /\ toQuit' \in {toQuit, registry}
        /\ exit' \in {exit, "one"}
    BY <1>7 DEF CloseWebsocketGateway, BeginStores
  <2>2. UNCHANGED <<connVars, role, boot, attempts, worker, elapsed, gaveUp, destroyed, sqlClosed>>
    BY <1>7 DEF CloseWebsocketGateway
  <2>3. TypeOK' /\ BreakerAgrees'
    BY <2>1, <2>2 DEF TypeOK, ConnTypeOK, BreakerAgrees, connVars
  <2> QED
    BY <2>1, <2>2, <2>3 DEF connVars
<1>5. ASSUME NEW c \in Clients, QuitRedis(c)
      PROVE  IInv'
  BY <1>5 DEF QuitRedis, TypeOK, ConnTypeOK, BreakerAgrees
<1> QED
  BY <1>1, <1>2, <1>3, <1>4, <1>5, <1>6, <1>7 DEF Shutdown

LEMMA WorkStep ==
  ASSUME IInv, NEW t \in Tasks, Arrive(t) \/ EndTask(t) \/ \E w \in Workers : TakeJob(t, w)
  PROVE  IInv'
<1>1. task[t] \in TaskRecords
  BY DEF IInv, TypeOK, ConnTypeOK
<1>2. PICK r \in TaskRecords :
        /\ task' = [task EXCEPT ![t] = r]
        /\ r.of # Nothing => r.of = task[t].of \/ worker[r.of] = "open"
  <2>1. CASE Arrive(t)
    <3>1. [task[t] EXCEPT !.at = "busy"] \in TaskRecords
      BY <1>1 DEF TaskRecords
    <3> QED
      BY <2>1, <3>1 DEF Arrive, TaskRecords
  <2>2. CASE EndTask(t)
    <3>1. IdleTask \in TaskRecords /\ IdleTask.of = Nothing
      BY DEF IdleTask, TaskRecords
    <3>2. task' = [task EXCEPT ![t] = IdleTask]
      BY <2>2 DEF EndTask
    <3> QED
      BY <3>1, <3>2
  <2>3. ASSUME NEW w \in Workers, TakeJob(t, w)
        PROVE  [IdleTask EXCEPT !.at = "busy", !.of = w] \in TaskRecords /\ worker[w] = "open"
               /\ task' = [task EXCEPT ![t] = [IdleTask EXCEPT !.at = "busy", !.of = w]]
    BY <2>3 DEF TakeJob, TaskRecords, IdleTask
  <2> QED
    BY <2>1, <2>2, <2>3 DEF IdleTask
<1>3. UNCHANGED <<server, troubles, link, retries, registry, breaker, procVars>>
  BY DEF Arrive, EndTask, TakeJob
<1> QED
  BY <1>2, <1>3 DEF IInv, JobsInv, TypeOK, ConnTypeOK, BreakerAgrees, procVars

LEMMA TickStep ==
  ASSUME IInv, Tick
  PROVE  IInv'
<1>1. breaker' \in [Guarded -> Breakers] /\ \A d \in Guarded : BreakerInv(breaker'[d])
  BY RestedAgrees, AgreesInv DEF IInv, TypeOK, ConnTypeOK, Tick, Rested
<1>2. elapsed' \in 0..ShutdownTimeout
  BY ProcessAssumption DEF IInv, TypeOK, Tick
<1> QED
  BY <1>1, <1>2, AgreesInvNext DEF Tick, IInv, JobsInv, TypeOK, ConnTypeOK

-----------------------------------------------------------------------------
(* The theorems.                                                           *)

LEMMA InvInit == Init => IInv
<1> SUFFICES ASSUME Init PROVE IInv
  OBVIOUS
<1>1. ConnTypeOK
  BY FreshAgrees, ConnectionsAssumption DEF Init, ConnInit, ConnTypeOK, TaskRecords, IdleTask, Servers
<1>2. BreakerAgrees
  BY FreshAgrees, AgreesInv DEF Init, ConnInit
<1> QED
  <2>1. TypeOK
    <3>1. 0 \in 0..MaxAttempts + 1 /\ 0 \in 0..ShutdownTimeout
      BY ProcessAssumption
    <3> QED
      BY <1>1, <3>1 DEF Init, TypeOK
  <2>2. \A t \in Tasks : task[t].of = Nothing
    BY DEF Init, ConnInit, IdleTask
  <2>3. JobsInv
    BY <2>2 DEF Init, JobsInv
  <2> QED
    BY <1>2, <2>1, <2>3 DEF IInv

LEMMA InvNext == IInv /\ [Next]_vars => IInv'
<1> SUFFICES ASSUME IInv, [Next]_vars PROVE IInv'
  OBVIOUS
<1>1. CASE ConnNext /\ UNCHANGED procVars
  <2>1. ConnTypeOK' /\ BreakerAgrees' /\ \A t \in Tasks : task'[t].of = task[t].of
    BY <1>1, ConnStep DEF IInv
  <2> QED
    BY <1>1, <2>1 DEF IInv, TypeOK, JobsInv, procVars
<1>2. CASE UNCHANGED vars
  BY <1>2 DEF vars, connVars, procVars, IInv, TypeOK, ConnTypeOK, BreakerAgrees, JobsInv
<1> QED
  BY <1>1, <1>2, StartStep, ShutdownStep, TickStep, WorkStep DEF Next

\* The inductive invariant: types, breakers, and which workers can still have jobs.
THEOREM InvCorrect == Spec => []IInv
  BY InvInit, InvNext, PTL DEF Spec

\* The variables of a process of the gateway keep their types, for any workers,
\* databases, limits and timeouts.
THEOREM TypeCorrect == Spec => []TypeOK
<1>1. IInv => TypeOK
  BY DEF IInv
<1> QED
  BY <1>1, InvCorrect, PTL

\* Every breaker (createCircuitBreaker) is closed exactly while it counts fewer failures
\* than its threshold, in whatever order the outcomes of concurrent calls come in.
THEOREM BreakerCorrect == Spec => []BreakerAgrees
<1>1. IInv => BreakerAgrees
  BY DEF IInv
<1> QED
  BY <1>1, InvCorrect, PTL

\* A worker process that exits with code 0 (gracefulShutdown of worker.js) leaves a job
\* behind only if it has given up on its worker, or started it behind its own shutdown.
THEOREM AbandonedCorrect == Spec => []AbandonedHadTime
<1>1. IInv => AbandonedHadTime
  <2>1. IInv => \A t \in Tasks : task[t].of \in Workers \cup {Nothing}
    BY DEF IInv, TypeOK, ConnTypeOK, TaskRecords
  <2> QED
    BY <2>1 DEF IInv, JobsInv, AbandonedHadTime
<1> QED
  BY <1>1, InvCorrect, PTL
=============================================================================
