------------------------ MODULE ServiceConnections ------------------------
(***************************************************************************)
(* What a process of the API gateway calls through a circuit breaker: the  *)
(* Redis cache (config/redis.config.js) and the Prisma clients of the      *)
(* write and the read database (config/database.config.js).  Both files    *)
(* have the same breaker.  Its failures matter up to the threshold, its    *)
(* lastFailureTime while it is open, up to the reset timeout: no more of   *)
(* them is kept.                                                           *)
(*                                                                         *)
(* A Redis client never fails a command because Redis is away: the command *)
(* waits in the client until it is connected again, or until the client    *)
(* ends because its retries are used up, and does not come back.  ioredis, *)
(* Prisma and the servers are modelled from how the code uses them.        *)
(***************************************************************************)
EXTENDS Integers, FiniteSets

CONSTANTS
  Shared,          \* the Redis clients that connectRedis opens: cache and queue
  Cache,           \* the one that is called through a breaker
  Workers,         \* the Redis clients of the workers, one each
  Databases,       \* the roles of the database: write, read
  Tasks,           \* jobs or HTTP requests in progress at the same time
  Nothing,
  Threshold,       \* CB_FAILURE_THRESHOLD
  Reset,           \* CB_RESET_TIMEOUT_MS, in ticks
  MaxRetries,      \* MAX_RETRIES of a Redis client
  MaxConnections,  \* MAX_CONNECTIONS
  MaxTroubles      \* bound of the model: times a server goes away or slow

Clients == Workers \cup Shared
Guarded == Databases \cup {Cache}
Servers == {"redis", "sql"}

ASSUME ConnectionsAssumption ==
  /\ Clients \cap Databases = {}
  /\ Cache \in Shared
  /\ Shared \cap Workers = {}
  /\ Nothing \notin Guarded \cup Workers
  /\ Threshold \in Nat \ {0}
  /\ Reset \in Nat \ {0}
  /\ MaxRetries \in Nat
  /\ MaxConnections \in Nat
  /\ MaxTroubles \in Nat

VARIABLES
  server,    \* server -> "up", "slow" or "down"
  troubles,  \* how often one went away so far
  link,      \* Redis client -> "none", "new", "ready", "retrying" or "ended"
  retries,   \* Redis client -> times its retryStrategy was asked since it was ready
  registry,  \* the Redis clients in the registry
  breaker,   \* guarded dependency -> state of createCircuitBreaker
  task       \* task -> what it is doing

connVars == <<server, troubles, link, retries, registry, breaker, task>>

Breakers == [state : {"CLOSED", "OPEN", "HALF_OPEN"},
             failures : 0..Threshold, rested : 0..Reset]

\* at: "idle", "busy", "calling" the dependency on, or "refused" by its breaker.
\* of: the worker whose job it is.
TaskRecords == [at : {"idle", "busy", "calling", "refused"},
                on : Guarded \cup {Nothing}, of : Workers \cup {Nothing}]

ConnTypeOK ==
  /\ server \in [Servers -> {"up", "slow", "down"}]
  /\ troubles \in 0..MaxTroubles
  /\ link \in [Clients -> {"none", "new", "ready", "retrying", "ended"}]
  /\ retries \in [Clients -> 0..MaxRetries]
  /\ registry \in SUBSET Clients
  /\ breaker \in [Guarded -> Breakers]
  /\ task \in [Tasks -> TaskRecords]

FreshBreaker == [state |-> "CLOSED", failures |-> 0, rested |-> Reset]
IdleTask == [at |-> "idle", on |-> Nothing, of |-> Nothing]

ConnInit ==
  /\ server = [s \in Servers |-> "up"]
  /\ troubles = 0
  /\ link = [c \in Clients |-> "none"]
  /\ retries = [c \in Clients |-> 0]
  /\ registry = {}
  /\ breaker = [d \in Guarded |-> FreshBreaker]
  /\ task = [t \in Tasks |-> IdleTask]

ServerOf(d) == IF d \in Databases THEN "sql" ELSE "redis"

-----------------------------------------------------------------------------
(* The circuit breaker.                                                    *)

\* Mutant: a half-open breaker lets only the call through that made it half open.
CanExecuteOnce(b) == b.state # "HALF_OPEN" /\ (b.state = "OPEN" => b.rested = Reset)

CanExecute(b) == b.state = "OPEN" => b.rested = Reset

Admitted(b) == IF b.state = "OPEN" THEN [b EXCEPT !.state = "HALF_OPEN"] ELSE b

\* Mutant: the failures are not forgotten.
RecordSuccessOnly(b) == [b EXCEPT !.state = "CLOSED"]

RecordSuccess(b) == FreshBreaker

\* Of an infrastructure error; any other leaves the breaker alone.
RecordFailure(b) ==
  LET n == IF b.failures < Threshold THEN b.failures + 1 ELSE Threshold IN
  IF n = Threshold THEN [state |-> "OPEN", failures |-> n, rested |-> 0]
  ELSE [b EXCEPT !.failures = n]

\* Time passes.
Rested == [d \in Guarded |->
             [breaker[d] EXCEPT !.rested = IF @ < Reset THEN @ + 1 ELSE Reset]]

-----------------------------------------------------------------------------
(* The servers.                                                            *)

\* A slow database answers or times out, or its pool of connections does.
Trouble(s) ==
  /\ troubles < MaxTroubles
  /\ troubles' = troubles + 1
  /\ server[s] = "up"
  /\ \E how \in IF s = "sql" THEN {"slow", "down"} ELSE {"down"} :
       server' = [server EXCEPT ![s] = how]
  /\ UNCHANGED <<link, retries, registry, breaker, task>>

Recover(s) ==
  /\ server[s] # "up"
  /\ server' = [server EXCEPT ![s] = "up"]
  /\ UNCHANGED <<troubles, link, retries, registry, breaker, task>>

-----------------------------------------------------------------------------
(* The Redis clients.                                                      *)

\* buildClient of the clients of cs in some order: those that exist stay, and the
\* registry takes no more than MAX_CONNECTIONS.  Whoever builds one also connects it.
Build(cs) ==
  \E new \in SUBSET (cs \ registry) :
    /\ Cardinality(registry \cup new) <= MaxConnections \/ new = {}
    /\ new = cs \ registry \/ Cardinality(registry \cup new) >= MaxConnections
    /\ registry' = registry \cup new
    /\ link' = [c \in Clients |-> IF c \in new THEN "new" ELSE link[c]]
    /\ retries' = [c \in Clients |-> IF c \in new THEN 0 ELSE retries[c]]

\* Mutant: it never gives up.
LoseForNow(c) ==
  /\ link' = [link EXCEPT ![c] = "retrying"]
  /\ UNCHANGED <<retries, registry>>

\* A connection that could not be made, or broke: retryStrategy gives a delay, or
\* nothing once the retries are used up, which ends the client for good.
Lose(c) ==
  IF retries[c] < MaxRetries
  THEN /\ retries' = [retries EXCEPT ![c] = @ + 1]
       /\ link' = [link EXCEPT ![c] = "retrying"]
       /\ UNCHANGED registry
  ELSE /\ link' = [link EXCEPT ![c] = "ended"]
       /\ registry' = registry \ {c}
       /\ UNCHANGED retries

Connect(c) ==
  /\ link[c] \in {"new", "retrying"}
  /\ IF server["redis"] = "up"
     THEN /\ link' = [link EXCEPT ![c] = "ready"]
          /\ retries' = [retries EXCEPT ![c] = 0]
          /\ UNCHANGED registry
     ELSE Lose(c)
  /\ UNCHANGED <<server, troubles, breaker, task>>

Disconnected(c) ==
  /\ link[c] = "ready"
  /\ server["redis"] = "down"
  /\ Lose(c)
  /\ UNCHANGED <<server, troubles, breaker, task>>

-----------------------------------------------------------------------------
(* Calls.                                                                  *)

\* Task t calls d.  The client of the cache is built when it is first needed; if it
\* cannot be, its callers do without.
Call(t, d) ==
  /\ task[t].at \in {"busy", "refused"}
  /\ IF d = Cache /\ link[d] = "none" THEN Build({d}) ELSE UNCHANGED <<link, retries, registry>>
  /\ IF d = Cache => link'[d] # "none"
     THEN IF CanExecute(breaker[d])
          THEN /\ breaker' = [breaker EXCEPT ![d] = Admitted(@)]
               /\ task' = [task EXCEPT ![t].at = "calling", ![t].on = d]
          ELSE /\ task' = [task EXCEPT ![t].at = "refused", ![t].on = d]
               /\ UNCHANGED breaker
     ELSE UNCHANGED <<breaker, task>>
  /\ UNCHANGED <<server, troubles>>

\* pipeline() returns at once: it passes the breaker, which never hears of its outcome.
Pipeline(t) ==
  /\ task[t].at \in {"busy", "refused"}
  /\ link[Cache] # "none"
  /\ CanExecute(breaker[Cache])
  /\ breaker' = [breaker EXCEPT ![Cache] = Admitted(@)]
  /\ UNCHANGED <<server, troubles, link, retries, registry, task>>

Returned(t) == task' = [task EXCEPT ![t].at = "busy", ![t].on = Nothing]

Recorded(d, b) == breaker' = [breaker EXCEPT ![d] = b]

\* The reply to a command, or an error Redis replies with.
CommandReturns(t) ==
  /\ task[t].at = "calling" /\ task[t].on = Cache
  /\ link[Cache] = "ready" /\ server["redis"] = "up"
  /\ Returned(t)
  /\ Recorded(Cache, RecordSuccess(breaker[Cache])) \/ UNCHANGED breaker
  /\ UNCHANGED <<server, troubles, link, retries, registry>>

\* "Connection is closed": the client has ended, or has been thrown away.
CommandRejected(t) ==
  /\ task[t].at = "calling" /\ task[t].on = Cache
  /\ link[Cache] \in {"ended", "none"}
  /\ Returned(t)
  /\ Recorded(Cache, RecordFailure(breaker[Cache]))
  /\ UNCHANGED <<server, troubles, link, retries, registry>>

\* A query of d ends: with rows, or an error of the query.
QueryReturns(t, d) ==
  /\ task[t].at = "calling" /\ task[t].on = d
  /\ server["sql"] # "down"
  /\ Returned(t)
  /\ Recorded(d, RecordSuccess(breaker[d])) \/ UNCHANGED breaker
  /\ UNCHANGED <<server, troubles, link, retries, registry>>

\* Or with an error of the infrastructure.
QueryFails(t, d) ==
  /\ task[t].at = "calling" /\ task[t].on = d
  /\ server["sql"] # "up"
  /\ Returned(t)
  /\ Recorded(d, RecordFailure(breaker[d]))
  /\ UNCHANGED <<server, troubles, link, retries, registry>>

-----------------------------------------------------------------------------
\* What ends the calls of t.
Answer(t) ==
  \/ CommandReturns(t) \/ CommandRejected(t)
  \/ \E d \in Databases : QueryReturns(t, d) \/ QueryFails(t, d)

ConnNext ==
  \/ \E s \in Servers : Trouble(s) \/ Recover(s)
  \/ \E c \in Clients : Connect(c) \/ Disconnected(c)
  \/ \E t \in Tasks : Pipeline(t) \/ Answer(t) \/ \E d \in Guarded : Call(t, d)

-----------------------------------------------------------------------------
(* Properties.                                                             *)

\* Success and failure of calls come back in any order, late ones too, whatever state
\* the breaker is in by then.  Yet it is closed exactly while fewer than
\* CB_FAILURE_THRESHOLD failures are counted, and a half-open breaker has seen no failure for a
\* whole CB_RESET_TIMEOUT_MS and remembers them, so that the next one opens it again.
BreakerAgrees ==
  \A d \in Guarded :
    /\ breaker[d].state = "CLOSED" <=> breaker[d].failures < Threshold
    /\ breaker[d].state = "HALF_OPEN" => breaker[d].rested = Reset
=============================================================================
