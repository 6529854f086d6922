-------------------------- MODULE GatewayProcess --------------------------
(***************************************************************************)
(* The life of one process of the API gateway, the worker (worker.js) or   *)
(* the HTTP server (server.js): how it starts, what it does when it is     *)
(* asked to stop, and how it exits, on top of ServiceConnections.  Start   *)
(* and shutdown are separate chains of awaits, and the one does not stop   *)
(* the other.  BullMQ and the HTTP server are modelled from how they are   *)
(* used; the cron has nothing to lose and is left out.                     *)
(***************************************************************************)
EXTENDS ServiceConnections

CONSTANTS
  Roles,         \* {"worker", "server"}, or one of them
  Concurrency,   \* jobs that a worker does at the same time
  MaxAttempts,   \* MAX_RETRIES of connectWithRetry
  StopTimeout, DrainTimeout, ShutdownTimeout   \* of a shutdown, in ticks

ASSUME ProcessAssumption ==
  /\ Roles \subseteq {"worker", "server"}
  /\ Concurrency \in Nat \ {0}
  /\ MaxAttempts \in Nat \ {0}
  /\ StopTimeout \in 1..ShutdownTimeout
  /\ DrainTimeout \in 1..ShutdownTimeout
  /\ ShutdownTimeout \in Nat

VARIABLES
  role,       \* which of the two it is
  boot,       \* where the start is: "databases", "redis", "start", "wait" or "ready"
  attempts,   \* database -> failed attempts to connect, or Connected
  worker,     \* worker -> "absent", "open", "closing" or "closed"
  halt,       \* where the shutdown is: "none", "drain", "sockets", "workers" or "stores"
  elapsed,    \* ticks since it began
  gaveUp,     \* workers whose stop timed out
  destroyed,  \* whether the sockets of the server have been destroyed
  toQuit,     \* Redis clients that disconnectRedis has yet to quit
  sqlClosed,  \* whether the database is disconnected
  exit        \* "running", or the exit code: "zero" or "one"

procVars == <<role, boot, attempts, worker, halt, elapsed, gaveUp, destroyed, toQuit,
              sqlClosed, exit>>
vars == <<connVars, procVars>>

Connected == MaxAttempts + 1

TypeOK ==
  /\ ConnTypeOK
  /\ role \in Roles
  /\ boot \in {"databases", "redis", "start", "wait", "ready"}
  /\ attempts \in [Databases -> 0..MaxAttempts + 1]
  /\ worker \in [Workers -> {"absent", "open", "closing", "closed"}]
  /\ halt \in {"none", "drain", "sockets", "workers", "stores"}
  /\ elapsed \in 0..ShutdownTimeout
  /\ gaveUp \in SUBSET Workers
  /\ destroyed \in BOOLEAN
  /\ toQuit \in SUBSET Clients
  /\ sqlClosed \in BOOLEAN
  /\ exit \in {"running", "zero", "one"}

Init ==
  /\ ConnInit
  /\ role \in Roles
  /\ boot = "databases"
  /\ attempts = [d \in Databases |-> 0]
  /\ worker = [w \in Workers |-> "absent"]
  /\ halt = "none"
  /\ elapsed = 0
  /\ gaveUp = {}
  /\ destroyed = FALSE
  /\ toQuit = {}
  /\ sqlClosed = FALSE
  /\ exit = "running"

Running == exit = "running"

Leave(code) == exit' = code

-----------------------------------------------------------------------------
(* The start.                                                              *)

\* connectWithRetry, of both databases at once.  The last attempt that fails rejects the
\* start, and the process exits, be it shutting down or not.
ConnectDatabase(d) ==
  /\ boot = "databases"
  /\ attempts[d] < MaxAttempts
  /\ attempts' = [attempts EXCEPT ![d] = IF server["sql"] = "up" THEN Connected ELSE @ + 1]
  /\ IF attempts'[d] = MaxAttempts THEN Leave("one") ELSE UNCHANGED exit
  /\ UNCHANGED <<connVars, role, boot, worker, halt, elapsed, gaveUp, destroyed, toQuit, sqlClosed>>

\* connectRedis connects the clients of the cache and of the queue.
ConnectRedis ==
  /\ boot = "databases"
  /\ \A d \in Databases : attempts[d] = Connected
  /\ boot' = "redis"
  /\ Build(Shared)
  /\ UNCHANGED <<server, troubles, breaker, task, role, attempts, worker, halt, elapsed, gaveUp,
                 destroyed, toQuit, sqlClosed, exit>>

\* Both have connected, or failed to once, which is only logged.
RedisTried ==
  /\ boot = "redis"
  /\ \A c \in Shared : link[c] # "new"
  /\ boot' = "start"
  /\ UNCHANGED <<connVars, role, attempts, worker, halt, elapsed, gaveUp, destroyed, toQuit,
                 sqlClosed, exit>>

\* The workers are started side by side.  One that is refused a connection is skipped.
StartWorkers ==
  /\ role = "worker" /\ boot = "start"
  /\ boot' = "wait"
  /\ Build(Workers)
  /\ worker' = [w \in Workers |-> IF w \in registry' THEN "open" ELSE worker[w]]
  /\ UNCHANGED <<server, troubles, breaker, task, role, attempts, halt, elapsed, gaveUp, destroyed,
                 toQuit, sqlClosed, exit>>

WorkersReady ==
  /\ role = "worker" /\ boot = "wait"
  /\ \A w \in Workers : worker[w] = "open" => link[w] = "ready"
  /\ boot' = "ready"
  /\ UNCHANGED <<connVars, role, attempts, worker, halt, elapsed, gaveUp, destroyed, toQuit,
                 sqlClosed, exit>>

\* waitUntilReady of a worker whose connection failed may reject.
WorkerFails(w) ==
  /\ role = "worker" /\ boot = "wait"
  /\ worker[w] = "open" /\ link[w] \in {"retrying", "ended"}
  /\ Leave("one")
  /\ UNCHANGED <<connVars, role, boot, attempts, worker, halt, elapsed, gaveUp, destroyed, toQuit,
                 sqlClosed>>

\* The server listens, or its port is taken.
Listen ==
  /\ role = "server" /\ boot = "start"
  /\ \/ boot' = "ready" /\ UNCHANGED exit
     \/ Leave("one") /\ UNCHANGED boot
  /\ UNCHANGED <<connVars, role, attempts, worker, halt, elapsed, gaveUp, destroyed, toQuit, sqlClosed>>

-----------------------------------------------------------------------------
(* Work.                                                                   *)

\* A worker takes a job, which it does until close is called.
TakeJob(t, w) ==
  /\ role = "worker"
  /\ task[t].at = "idle"
  /\ Cardinality({u \in Tasks : task[u].of = w}) < Concurrency
  /\ worker[w] = "open"
  /\ link[w] = "ready" /\ server["redis"] = "up"
  /\ task' = [task EXCEPT ![t] = [IdleTask EXCEPT !.at = "busy", !.of = w]]
  /\ UNCHANGED <<server, troubles, link, retries, registry, breaker, procVars>>

\* A request arrives; during a shutdown it is answered 503.
Arrive(t) ==
  /\ role = "server" /\ boot = "ready" /\ halt = "none"
  /\ task[t].at = "idle"
  /\ task' = [task EXCEPT ![t].at = "busy"]
  /\ UNCHANGED <<server, troubles, link, retries, registry, breaker, procVars>>

EndTask(t) ==
  /\ task[t].at \in {"busy", "refused"}
  /\ task' = [task EXCEPT ![t] = IdleTask]
  /\ UNCHANGED <<server, troubles, link, retries, registry, breaker, procVars>>

-----------------------------------------------------------------------------
(* The shutdown.                                                           *)

\* A signal, or an exception nobody caught.  Workers that do not exist need no stop.
\* A server that does not listen cannot close, which is an error.
Signal ==
  /\ halt = "none"
  /\ elapsed' = 0
  /\ \/ /\ role = "worker"
        /\ halt' = "workers"
        /\ worker' = [w \in Workers |-> IF worker[w] = "open" THEN "closing" ELSE worker[w]]
        /\ UNCHANGED exit
     \/ /\ role = "server"
        /\ halt' = "drain"
        /\ IF boot = "ready" THEN UNCHANGED exit ELSE Leave("one")
        /\ UNCHANGED worker
  /\ UNCHANGED <<connVars, role, boot, attempts, gaveUp, destroyed, toQuit, sqlClosed>>

\* close() waits for the jobs of the worker.
CloseWorker(w) ==
  /\ worker[w] = "closing"
  /\ \A t \in Tasks : task[t].of # w
  /\ worker' = [worker EXCEPT ![w] = "closed"]
  /\ UNCHANGED <<connVars, role, boot, attempts, halt, elapsed, gaveUp, destroyed, toQuit, sqlClosed,
                 exit>>

\* withTimeout.
StopTimesOut(w) ==
  /\ halt = "workers"
  /\ worker[w] = "closing" /\ w \notin gaveUp
  /\ elapsed >= StopTimeout
  /\ gaveUp' = gaveUp \cup {w}
  /\ UNCHANGED <<connVars, role, boot, attempts, worker, halt, elapsed, destroyed, toQuit, sqlClosed,
                 exit>>

\* disconnectRedis notes the clients there are.  Without any it is done at once.
BeginStores ==
  /\ halt' = "stores"
  /\ toQuit' = registry

\* Mutant: it does not wait for the workers.
WorkersStoppedUnawaited ==
  /\ halt = "workers"
  /\ BeginStores
  /\ UNCHANGED <<connVars, role, boot, attempts, worker, elapsed, gaveUp, destroyed, sqlClosed, exit>>

WorkersStopped ==
  /\ halt = "workers"
  /\ \A w \in Workers : worker[w] = "closing" => w \in gaveUp
  /\ BeginStores
  /\ UNCHANGED <<connVars, role, boot, attempts, worker, elapsed, gaveUp, destroyed, sqlClosed, exit>>

\* The server has no connections left.
Drained ==
  /\ halt = "drain"
  /\ destroyed \/ \A t \in Tasks : task[t].at = "idle"
  /\ halt' = "sockets"
  /\ UNCHANGED <<connVars, role, boot, attempts, worker, elapsed, gaveUp, destroyed, toQuit, sqlClosed,
                 exit>>

DestroySockets ==
  /\ role = "server" /\ halt # "none"
  /\ ~destroyed /\ elapsed >= DrainTimeout
  /\ destroyed' = TRUE
  /\ UNCHANGED <<connVars, role, boot, attempts, worker, halt, elapsed, gaveUp, toQuit, sqlClosed, exit>>

\* closeWebsocketGateway: socket.io closes the HTTP server too, which is closed by now,
\* and may report that as an error.
CloseWebsocketGateway ==
  /\ halt = "sockets"
  /\ \/ BeginStores /\ UNCHANGED exit
     \/ Leave("one") /\ UNCHANGED <<halt, toQuit>>
  /\ UNCHANGED <<connVars, role, boot, attempts, worker, elapsed, gaveUp, destroyed, sqlClosed>>

DisconnectDatabases ==
  /\ halt = "stores" /\ ~sqlClosed
  /\ sqlClosed' = TRUE
  /\ UNCHANGED <<connVars, role, boot, attempts, worker, halt, elapsed, gaveUp, destroyed, toQuit, exit>>

\* disconnectRedis, one client after the other.  QUIT waits until the client is connected,
\* as every command does.  In the end the registry is empty and the cache client forgotten.
QuitRedis(c) ==
  /\ halt = "stores" /\ c \in toQuit
  /\ link[c] # "ended" => link[c] = "ready" /\ server["redis"] = "up"
  /\ toQuit' = toQuit \ {c}
  /\ registry' = IF toQuit' = {} THEN {} ELSE registry \ {c}
  /\ link' = [d \in Clients |-> IF toQuit' = {} /\ d \in Shared THEN "none"
                                ELSE IF d = c THEN "ended" ELSE link[d]]
  /\ UNCHANGED <<server, troubles, retries, breaker, task, role, boot, attempts, worker, halt, elapsed,
                 gaveUp, destroyed, sqlClosed, exit>>

Finish ==
  /\ halt = "stores" /\ sqlClosed /\ toQuit = {}
  /\ Leave("zero")
  /\ UNCHANGED <<connVars, role, boot, attempts, worker, halt, elapsed, gaveUp, destroyed, toQuit,
                 sqlClosed>>

\* Mutant: the timer is set once the workers have stopped.
ForceExitOfStores ==
  /\ halt = "stores" /\ elapsed = ShutdownTimeout
  /\ Leave("one")
  /\ UNCHANGED <<connVars, role, boot, attempts, worker, halt, elapsed, gaveUp, destroyed, toQuit,
                 sqlClosed>>

\* The force timer.
ForceExit ==
  /\ halt # "none" /\ elapsed = ShutdownTimeout
  /\ Leave("one")
  /\ UNCHANGED <<connVars, role, boot, attempts, worker, halt, elapsed, gaveUp, destroyed, toQuit,
                 sqlClosed>>

-----------------------------------------------------------------------------

Tick ==
  /\ breaker' = Rested
  /\ elapsed' = IF halt # "none" /\ elapsed < ShutdownTimeout THEN elapsed + 1 ELSE elapsed
  /\ UNCHANGED <<server, troubles, link, retries, registry, task, role, boot, attempts, worker, halt,
                 gaveUp, destroyed, toQuit, sqlClosed, exit>>

Start ==
  \/ \E d \in Databases : ConnectDatabase(d)
  \/ ConnectRedis \/ RedisTried \/ StartWorkers \/ WorkersReady \/ Listen
  \/ \E w \in Workers : WorkerFails(w)

Shutdown ==
  \/ Signal
  \/ \E w \in Workers : CloseWorker(w) \/ StopTimesOut(w)
  \/ WorkersStopped \/ Drained \/ DestroySockets \/ CloseWebsocketGateway
  \/ DisconnectDatabases \/ Finish \/ ForceExit
  \/ \E c \in Clients : QuitRedis(c)

Next ==
  /\ Running
  /\ \/ ConnNext /\ UNCHANGED procVars
     \/ Start \/ Shutdown \/ Tick
     \/ \E t \in Tasks : Arrive(t) \/ EndTask(t) \/ \E w \in Workers : TakeJob(t, w)

Spec == Init /\ [][Next]_vars

\* Timers fire, clients go on trying to connect, a call is answered if it can be, and a task
\* that waits for none ends.  Servers need not recover, and nobody need call.
FairSpec ==
  /\ Spec
  /\ WF_vars(Running /\ Tick)
  /\ WF_vars(Running /\ ForceExit)
  /\ \A c \in Clients : WF_vars(Running /\ (Connect(c) \/ Disconnected(c)) /\ UNCHANGED procVars)
  /\ \A t \in Tasks : WF_vars(Running /\ Answer(t) /\ UNCHANGED procVars)
  /\ \A t \in Tasks : WF_vars(Running /\ EndTask(t))

-----------------------------------------------------------------------------
(* Properties.                                                             *)

\* A worker process that exits with code 0 leaves a job behind only if the stop of the
\* job's worker timed out, or the worker was started while the process was shutting
\* down already: its stop had found no worker then, and nothing stops the start.
AbandonedHadTime ==
  exit = "zero" =>
    \A t \in Tasks : task[t].of # Nothing =>
      \/ task[t].of \in gaveUp
      \/ worker[task[t].of] = "open"

\* Every call ends, though Redis commands have no timeout: the client connects again or
\* ends, unless the process exits before.
CallsEnd ==
  \A t \in Tasks : task[t].at = "calling" ~> task[t].at # "calling" \/ ~Running

\* Once a server is up for good, its breaker sooner or later refuses no call, unless the
\* client of the cache has ended: it is kept, and no other is built.
RefusalsEnd ==
  \A d \in Guarded :
    <>[](server[ServerOf(d)] = "up" /\ (d = Cache => link[d] # "ended") /\ Running)
      => <>[](\A t \in Tasks : task[t].at = "refused" => task[t].on # d)

\* A process that is asked to stop exits, whatever its jobs and its servers do.
ExitsOnceAsked == halt # "none" ~> ~Running
=============================================================================
