--------------------------- MODULE ChatbotBridge ---------------------------
(***************************************************************************)
(* The chatbot bridge: the BullMQ queue `chatbot-bridge`, the worker that  *)
(* forwards its jobs to the Python chatbot service over HTTP, and the      *)
(* circuit breaker between them (modules/ai/bridge of the API gateway).    *)
(*                                                                         *)
(* One worker process runs up to Concurrency jobs at once, and they share  *)
(* one breaker object.  A job's processor runs without an await from its   *)
(* start to the sending of the request, so that part is one action         *)
(* (SendRequest or RejectOpen); the answer arrives in a later one          *)
(* (RequestSucceeds or RequestFails), when the breaker may be in another   *)
(* state than the one the request was sent in.                             *)
(*                                                                         *)
(* Time is counted in ticks.  Date.now() - #lastFailureTime is kept as     *)
(* what is left of the recovery window, a delayed job as the ticks left    *)
(* before it wakes up.                                                     *)
(***************************************************************************)
EXTENDS Integers, FiniteSets

CONSTANTS
  Jobs,              \* the jobs producers may enqueue
  Concurrency,       \* worker option `concurrency`
  MaxAttempts,       \* job option `attempts`
  Backoff,           \* ticks before a failed job is tried again
  FailureThreshold,  \* breaker: consecutive failures that open it
  SuccessThreshold,  \* breaker: consecutive successes that close it
  RecoveryTicks,     \* breaker: recoveryTimeout
  WakeSlack,         \* ticks a rejected job waits beyond the recovery window
  MaxStalls,         \* BullMQ's maxStalledCount
  MaxCrashes         \* bound of the model: worker crashes in one behaviour

ASSUME BridgeAssumption ==
  /\ Concurrency \in Nat \ {0}
  /\ MaxAttempts \in Nat \ {0}
  /\ Backoff \in Nat
  /\ FailureThreshold \in Nat \ {0}
  /\ SuccessThreshold \in Nat \ {0}
  /\ RecoveryTicks \in Nat \ {0}
  /\ WakeSlack \in Nat
  /\ MaxStalls \in Nat
  /\ MaxCrashes \in Nat

VARIABLES
  state,      \* CircuitBreaker #state
  failures,   \* CircuitBreaker #failures
  successes,  \* CircuitBreaker #successes
  remaining,  \* what is left of recoveryTimeout since #lastFailureTime
  status,     \* job -> where BullMQ keeps it
  attempts,   \* job -> attemptsMade
  delay,      \* job -> ticks left in the delayed set
  stalls,     \* job -> times it was found stalled
  request,    \* job -> its outstanding HTTP request, if any
  crashes,    \* crashes so far
  called,     \* history: job -> HTTP requests sent for it
  run,        \* history: length and outcome of the last run of equal outcomes
  aligned     \* history: jobs the breaker delayed with no failure recorded since

breakerVars == <<state, failures, successes, remaining, run>>
vars == <<state, failures, successes, remaining, status, attempts, delay,
          stalls, request, crashes, called, run, aligned>>

BreakerStates == {"CLOSED", "OPEN", "HALF_OPEN"}
JobStates == {"absent", "waiting", "delayed", "active", "completed", "failed"}

\* A request is a probe when it was sent while the breaker was HALF_OPEN.
Requests == {"none", "regular", "probe"}

RunCap == IF FailureThreshold > SuccessThreshold
          THEN FailureThreshold ELSE SuccessThreshold

TypeOK ==
  /\ state \in BreakerStates
  /\ failures \in Nat
  /\ successes \in Nat
  /\ remaining \in 0..RecoveryTicks
  /\ status \in [Jobs -> JobStates]
  /\ attempts \in [Jobs -> Nat]
  /\ delay \in [Jobs -> Nat]
  /\ stalls \in [Jobs -> Nat]
  /\ request \in [Jobs -> Requests]
  /\ crashes \in 0..MaxCrashes
  /\ called \in [Jobs -> Nat]
  /\ run \in [ok : BOOLEAN, length : 0..RunCap]
  /\ aligned \in SUBSET Jobs

\* A new CircuitBreaker: the state of the singleton when the process starts.
FreshBreaker ==
  [state |-> "CLOSED", failures |-> 0, successes |-> 0, remaining |-> 0,
   run |-> [ok |-> TRUE, length |-> 0]]

Init ==
  /\ state = FreshBreaker.state
  /\ failures = FreshBreaker.failures
  /\ successes = FreshBreaker.successes
  /\ remaining = FreshBreaker.remaining
  /\ run = FreshBreaker.run
  /\ status = [j \in Jobs |-> "absent"]
  /\ attempts = [j \in Jobs |-> 0]
  /\ delay = [j \in Jobs |-> 0]
  /\ stalls = [j \in Jobs |-> 0]
  /\ request = [j \in Jobs |-> "none"]
  /\ crashes = 0
  /\ called = [j \in Jobs |-> 0]
  /\ aligned = {}

-----------------------------------------------------------------------------
(* The breaker.                                                            *)

LongerRun(ok) ==
  [ok |-> ok,
   length |-> IF run.ok # ok THEN 1
              ELSE IF run.length < RunCap THEN run.length + 1 ELSE RunCap]

\* Mutant: the recovery timeout is forgotten.
FailsFastForEver == state = "OPEN"

\* remainingOpenMs() > 0: the window in which fire() fails fast.
FailsFast == state = "OPEN" /\ remaining > 0

\* The part of fire() before `await fn()`, when it lets the request through.
AdmitRequest ==
  /\ ~FailsFast
  /\ IF state = "OPEN"
     THEN /\ state' = "HALF_OPEN"
          /\ successes' = 0
     ELSE UNCHANGED <<state, successes>>
  /\ UNCHANGED <<failures, remaining, run>>

\* Mutant: the failure count survives a recovery.
OnSuccessKeepsFailures ==
  /\ IF state = "HALF_OPEN" /\ successes + 1 >= SuccessThreshold
     THEN state' = "CLOSED" /\ successes' = 0
     ELSE /\ successes' = IF state = "HALF_OPEN" THEN successes + 1 ELSE successes
          /\ UNCHANGED state
  /\ run' = LongerRun(TRUE)
  /\ UNCHANGED <<failures, remaining>>

OnSuccess ==
  /\ failures' = 0
  /\ IF state = "HALF_OPEN"
     THEN IF successes + 1 >= SuccessThreshold
          THEN state' = "CLOSED" /\ successes' = 0
          ELSE successes' = successes + 1 /\ UNCHANGED state
     ELSE UNCHANGED <<state, successes>>
  /\ run' = LongerRun(TRUE)
  /\ UNCHANGED remaining

\* Mutant: a failed probe does not reset the success count.
OnFailureKeepsSuccesses ==
  /\ remaining' = RecoveryTicks
  /\ state' = IF state = "HALF_OPEN" \/ failures + 1 >= FailureThreshold
              THEN "OPEN" ELSE state
  /\ failures' = IF state = "HALF_OPEN" THEN failures ELSE failures + 1
  /\ run' = LongerRun(FALSE)
  /\ UNCHANGED successes

OnFailure ==
  /\ remaining' = RecoveryTicks
  /\ IF state = "HALF_OPEN"
     THEN /\ state' = "OPEN"
          /\ successes' = 0
          /\ UNCHANGED failures
     ELSE /\ failures' = failures + 1
          /\ state' = IF failures + 1 >= FailureThreshold THEN "OPEN" ELSE state
          /\ UNCHANGED successes
  /\ run' = LongerRun(FALSE)

-----------------------------------------------------------------------------
(* Producers and the worker.                                               *)

Active == {j \in Jobs : status[j] = "active"}

\* enqueueProcessDocument and its siblings, with Redis reachable.
Enqueue(j) ==
  /\ status[j] = "absent"
  /\ status' = [status EXCEPT ![j] = "waiting"]
  /\ UNCHANGED <<breakerVars, attempts, delay, stalls, request, crashes, called,
                 aligned>>

\* A concurrency slot is free and the worker starts a waiting job.
CanStart(j) == status[j] = "waiting" /\ Cardinality(Active) < Concurrency

\* processor -> handler -> callChatbot -> fire(): the request goes out.
SendRequest(j) ==
  /\ CanStart(j)
  /\ AdmitRequest
  /\ status' = [status EXCEPT ![j] = "active"]
  /\ request' = [request EXCEPT ![j] =
                   IF state = "CLOSED" THEN "regular" ELSE "probe"]
  /\ called' = [called EXCEPT ![j] = @ + 1]
  /\ UNCHANGED <<attempts, delay, stalls, crashes, aligned>>

\* Mutant: the delay ignores the rest of the recovery window.
DelayOfSlackOnly == WakeSlack

\* delayMs of a job the breaker rejects.
DelayMs == remaining + WakeSlack

\* Mutant: CircuitOpenError is rethrown and costs the job an attempt.
RejectOpenAsFailure(j) ==
  /\ CanStart(j)
  /\ FailsFast
  /\ attempts' = [attempts EXCEPT ![j] = @ + 1]
  /\ status' = [status EXCEPT ![j] =
                  IF attempts[j] + 1 < MaxAttempts THEN "delayed" ELSE "failed"]
  /\ delay' = [delay EXCEPT ![j] = Backoff]
  /\ UNCHANGED <<breakerVars, stalls, request, crashes, called, aligned>>

\* fire() throws CircuitOpenError and the processor calls moveToDelayed.
RejectOpen(j) ==
  /\ CanStart(j)
  /\ FailsFast
  /\ status' = [status EXCEPT ![j] = "delayed"]
  /\ delay' = [delay EXCEPT ![j] = DelayMs]
  /\ aligned' = aligned \cup {j}
  /\ UNCHANGED <<breakerVars, attempts, stalls, request, crashes, called>>

\* A 2xx answer: BullMQ moves the job to completed.
RequestSucceeds(j) ==
  /\ request[j] # "none"
  /\ OnSuccess
  /\ request' = [request EXCEPT ![j] = "none"]
  /\ status' = [status EXCEPT ![j] = "completed"]
  /\ UNCHANGED <<attempts, delay, stalls, crashes, called, aligned>>

\* A network error, a status outside 2xx or the 60 s timeout: the error goes
\* back to BullMQ, which retries with backoff until the attempts are spent.
RequestFails(j) ==
  /\ request[j] # "none"
  /\ OnFailure
  /\ request' = [request EXCEPT ![j] = "none"]
  /\ attempts' = [attempts EXCEPT ![j] = @ + 1]
  /\ IF attempts[j] + 1 < MaxAttempts
     THEN /\ status' = [status EXCEPT ![j] = "delayed"]
          /\ delay' = [delay EXCEPT ![j] = Backoff]
     ELSE /\ status' = [status EXCEPT ![j] = "failed"]
          /\ UNCHANGED delay
  /\ aligned' = {}
  /\ UNCHANGED <<stalls, crashes, called>>

\* BullMQ moves a delayed job that is due back to the wait list.
Wake(j) ==
  /\ status[j] = "delayed"
  /\ delay[j] = 0
  /\ status' = [status EXCEPT ![j] = "waiting"]
  /\ aligned' = aligned \ {j}
  /\ UNCHANGED <<breakerVars, attempts, delay, stalls, request, crashes, called>>

Countdown(n) == IF n > 0 THEN n - 1 ELSE 0

Tick ==
  /\ \/ remaining > 0
     \/ \E j \in Jobs : status[j] = "delayed" /\ delay[j] > 0
  /\ remaining' = Countdown(remaining)
  /\ delay' = [j \in Jobs |-> Countdown(delay[j])]
  /\ UNCHANGED <<state, failures, successes, run, status, attempts, stalls,
                 request, crashes, called, aligned>>

\* The worker process dies, or is stopped before its jobs are done, and is
\* started again: requests are lost, the breaker is a new one.
Crash ==
  /\ crashes < MaxCrashes
  /\ crashes' = crashes + 1
  /\ state' = FreshBreaker.state
  /\ failures' = FreshBreaker.failures
  /\ successes' = FreshBreaker.successes
  /\ remaining' = FreshBreaker.remaining
  /\ run' = FreshBreaker.run
  /\ request' = [j \in Jobs |-> "none"]
  /\ UNCHANGED <<status, attempts, delay, stalls, called, aligned>>

\* BullMQ finds an active job whose lock nobody renews.
RecoverStalled(j) ==
  /\ status[j] = "active"
  /\ request[j] = "none"
  /\ stalls' = [stalls EXCEPT ![j] = @ + 1]
  /\ status' = [status EXCEPT ![j] =
                  IF stalls[j] < MaxStalls THEN "waiting" ELSE "failed"]
  /\ UNCHANGED <<breakerVars, attempts, delay, request, crashes, called, aligned>>

Settled(j) == status[j] \in {"completed", "failed"}

\* Every job is done and the clocks have run out.
Quiescent ==
  /\ \A j \in Jobs : Settled(j)
  /\ remaining = 0
  /\ UNCHANGED vars

Next ==
  \/ \E j \in Jobs :
       \/ Enqueue(j)
       \/ SendRequest(j)
       \/ RejectOpen(j)
       \/ RequestSucceeds(j)
       \/ RequestFails(j)
       \/ Wake(j)
       \/ RecoverStalled(j)
  \/ Tick
  \/ Crash
  \/ Quiescent

Spec == Init /\ [][Next]_vars

\* Time passes, BullMQ promotes due jobs and recovers stalled ones, a free slot
\* takes a waiting job, and AbortSignal.timeout ends every request.
Fairness ==
  /\ WF_vars(Tick)
  /\ \A j \in Jobs :
       /\ WF_vars(SendRequest(j) \/ RejectOpen(j))
       /\ WF_vars(RequestSucceeds(j) \/ RequestFails(j))
       /\ WF_vars(Wake(j))
       /\ WF_vars(RecoverStalled(j))

FairSpec == Spec /\ Fairness

-----------------------------------------------------------------------------
(* Properties.                                                             *)

\* The counters agree with the state of the breaker: it is closed only below
\* the failure threshold, and counts successes only while half open and only
\* below the success threshold, whatever order the answers of requests sent in
\* other states come back in (CircuitBreaker fire, #onSuccess, #onFailure).
BreakerConsistent ==
  /\ state = "CLOSED" => failures < FailureThreshold
  /\ state = "HALF_OPEN" => successes < SuccessThreshold
  /\ state # "HALF_OPEN" => successes = 0

\* HTTP requests of a job that were sent and have an outcome, or still wait.
Accounted(j) ==
  attempts[j] + stalls[j]
    + (IF status[j] \in {"active", "completed"} THEN 1 ELSE 0)

\* A job's retry budget is spent on real requests only: each attempt or stall
\* counted against it is a request that was sent, none is counted twice, and a
\* job fails only with its attempts (or its stalls) used up.  What the breaker
\* rejects costs nothing (chatbot.bridge.worker.js processor, retry of BullMQ).
BudgetSpentOnCalls ==
  \A j \in Jobs :
    /\ called[j] = Accounted(j)
    /\ status[j] = "failed" => attempts[j] = MaxAttempts \/ stalls[j] = MaxStalls + 1

\* A job the breaker delayed comes back after the recovery window it was told
\* of, so that it finds the breaker ready to probe unless another request failed
\* meanwhile (delayMs of the processor against remainingOpenMs).
WakesIntoProbe ==
  \A j \in aligned : status[j] = "delayed" /\ delay[j] >= remaining

OpensAfterFailures ==
  state = "CLOSED" /\ state' = "OPEN"
    => ~run'.ok /\ run'.length >= FailureThreshold

ClosesAfterSuccesses ==
  state # "CLOSED" /\ state' = "CLOSED" /\ crashes' = crashes
    => run'.ok /\ run'.length >= SuccessThreshold

\* The breaker opens from CLOSED only when the last FailureThreshold requests to
\* finish all failed, and closes only when the last SuccessThreshold all
\* succeeded; a restart of the process is the one other way to CLOSED.
TransitionsNeedRuns == [][OpensAfterFailures /\ ClosesAfterSuccesses]_vars

\* What a job's producer may observe of it.
JobPhase(j) ==
  CASE status[j] = "absent" -> "absent"
    [] status[j] = "completed" -> "done"
    [] status[j] = "failed" -> "dead"
    [] OTHER -> "pending"

phaseOf == [j \in Jobs |-> JobPhase(j)]
fewestTries == IF MaxAttempts <= MaxStalls THEN MaxAttempts ELSE MaxStalls + 1

Service ==
  INSTANCE JobService
  WITH phase <- phaseOf,
       tries <- called,
       MinTries <- fewestTries,
       MaxTries <- MaxAttempts + MaxStalls

\* The bridge implements the service its producers count on: with its breaker, its
\* delays and its crashes, a job is done only after a request of its own, is given
\* up only after MinTries of them and never costs more than MaxTries.
ImplementsJobService == Service!Spec

\* Every enqueued job is completed or failed in the end: no job is passed
\* between the wait list and the delayed set for ever, even when the service
\* never recovers or the worker crashes.
JobsSettle == \A j \in Jobs : status[j] = "waiting" ~> Settled(j)
=============================================================================
