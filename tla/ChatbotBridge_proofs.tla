------------------------ MODULE ChatbotBridge_proofs ------------------------
(***************************************************************************)
(* The safety properties of ChatbotBridge, for every number of jobs, every *)
(* concurrency and every threshold.  All of them follow from one inductive *)
(* invariant, IInv, which adds to the type invariant what ties a job's     *)
(* budget to its status (JobInv) and the counters of the breaker to the    *)
(* outcomes it has seen (RunInv).                                          *)
(***************************************************************************)
EXTENDS ChatbotBridge, TLAPS

\* A request is outstanding for active jobs only, and a job that has not failed
\* has attempts and stalls left.
JobInv ==
  \A j \in Jobs :
    /\ request[j] # "none" => status[j] = "active"
    /\ status[j] # "failed" => attempts[j] < MaxAttempts /\ stalls[j] <= MaxStalls

\* The failure count is within the last run of failures and the success count
\* within the last run of successes, as far as the run is counted.
RunInv ==
  /\ IF run.ok THEN failures = 0
     ELSE failures <= run.length \/ run.length = RunCap
  /\ successes > 0 => run.ok /\ (successes <= run.length \/ run.length = RunCap)

IInv ==
  /\ TypeOK
  /\ BreakerConsistent
  /\ JobInv
  /\ RunInv
  /\ BudgetSpentOnCalls
  /\ WakesIntoProbe

-----------------------------------------------------------------------------
(* Lemmas about the operators.                                             *)

\* RunCap reaches both thresholds.
LEMMA RunCapReaches ==
  /\ RunCap \in Nat \ {0}
  /\ RunCap >= FailureThreshold
  /\ RunCap >= SuccessThreshold
BY BridgeAssumption DEF RunCap

\* One more outcome keeps the run within its cap, and makes it longer unless the
\* outcome differs from the last one or the cap is reached.
LEMMA LongerRunType ==
  ASSUME NEW ok \in BOOLEAN, run \in [ok : BOOLEAN, length : 0..RunCap]
  PROVE  /\ LongerRun(ok) \in [ok : BOOLEAN, length : 0..RunCap]
         /\ LongerRun(ok).ok = ok
         /\ run.ok # ok => LongerRun(ok).length = 1
         /\ run.ok = ok => LongerRun(ok).length = run.length + 1 \/ LongerRun(ok).length = RunCap
BY RunCapReaches DEF LongerRun

\* A counter of the outcomes of one kind that is within the run, and starts again
\* when the outcome changes, is within the run after one more outcome.
LEMMA LongerRunCounts ==
  ASSUME NEW ok \in BOOLEAN, NEW n \in Nat,
         run \in [ok : BOOLEAN, length : 0..RunCap],
         run.ok # ok => n = 0,
         run.ok = ok => n <= run.length \/ run.length = RunCap
  PROVE  n + 1 <= LongerRun(ok).length \/ LongerRun(ok).length = RunCap
<1> DEFINE len == LongerRun(ok).length
<1>1. run.length \in Nat /\ run.length <= RunCap /\ len \in 0..RunCap
  BY RunCapReaches, LongerRunType
<1>2. CASE run.ok # ok
  BY <1>2, LongerRunType
<1>3. CASE run.ok = ok
  <2>1. len = run.length + 1 \/ len = RunCap
    BY <1>3, LongerRunType
  <2>2. n <= run.length \/ run.length = RunCap
    BY <1>3
  <2> HIDE DEF len
  <2>3. n + 1 <= len \/ len = RunCap
    BY <1>1, <2>1, <2>2, RunCapReaches
  <2> QED BY <2>3 DEF len
<1> QED BY <1>2, <1>3

\* Counting down stays in the naturals and loses at most one tick.
LEMMA CountdownNat ==
  ASSUME NEW n \in Nat
  PROVE  /\ Countdown(n) \in Nat
         /\ Countdown(n) <= n
         /\ \A m \in Nat : m <= n => Countdown(m) <= Countdown(n)
BY DEF Countdown

-----------------------------------------------------------------------------
(* Type correctness.                                                       *)

\* The variables have their types in a fresh process with no job enqueued.
LEMMA TypeInit == Init => TypeOK
BY BridgeAssumption, RunCapReaches
   DEF Init, TypeOK, FreshBreaker, BreakerStates, JobStates, Requests

\* Every step keeps the types.
LEMMA TypeStep == TypeOK /\ [Next]_vars => TypeOK'
<1> SUFFICES ASSUME TypeOK, [Next]_vars PROVE TypeOK'
  OBVIOUS
<1> USE DEF TypeOK, BreakerStates, JobStates, Requests
<1>1. ASSUME NEW j \in Jobs, Enqueue(j) PROVE TypeOK'
  BY <1>1 DEF Enqueue, breakerVars
<1>2. ASSUME NEW j \in Jobs, SendRequest(j) PROVE TypeOK'
  BY <1>2 DEF SendRequest, AdmitRequest, CanStart
<1>3. ASSUME NEW j \in Jobs, RejectOpen(j) PROVE TypeOK'
  <2>1. DelayMs \in Nat
    BY BridgeAssumption DEF DelayMs
  <2> QED BY <1>3, <2>1 DEF RejectOpen, CanStart, breakerVars
<1>4. ASSUME NEW j \in Jobs, RequestSucceeds(j) PROVE TypeOK'
  <2>1. run' \in [ok : BOOLEAN, length : 0..RunCap]
    BY <1>4, LongerRunType DEF RequestSucceeds, OnSuccess
  <2>2. state' \in BreakerStates /\ failures' \in Nat /\ successes' \in Nat
    BY <1>4 DEF RequestSucceeds, OnSuccess
  <2>3. status' \in [Jobs -> JobStates] /\ request' \in [Jobs -> Requests]
    BY <1>4 DEF RequestSucceeds
  <2> QED BY <1>4, <2>1, <2>2, <2>3 DEF RequestSucceeds, OnSuccess
<1>5. ASSUME NEW j \in Jobs, RequestFails(j) PROVE TypeOK'
  <2>1. run' \in [ok : BOOLEAN, length : 0..RunCap]
    BY <1>5, LongerRunType DEF RequestFails, OnFailure
  <2>2. /\ state' \in BreakerStates /\ failures' \in Nat /\ successes' \in Nat
        /\ remaining' \in 0..RecoveryTicks
    BY <1>5, BridgeAssumption DEF RequestFails, OnFailure
  <2>3. /\ status' \in [Jobs -> JobStates] /\ request' \in [Jobs -> Requests]
        /\ attempts' \in [Jobs -> Nat] /\ delay' \in [Jobs -> Nat]
    BY <1>5, BridgeAssumption DEF RequestFails
  <2> QED BY <1>5, <2>1, <2>2, <2>3 DEF RequestFails
<1>6. ASSUME NEW j \in Jobs, Wake(j) PROVE TypeOK'
  BY <1>6 DEF Wake, breakerVars
<1>7. ASSUME NEW j \in Jobs, RecoverStalled(j) PROVE TypeOK'
  BY <1>7, BridgeAssumption DEF RecoverStalled, breakerVars
<1>8. CASE Tick
  BY <1>8, CountdownNat, BridgeAssumption DEF Tick, Countdown
<1>9. CASE Crash
  BY <1>9, BridgeAssumption, RunCapReaches DEF Crash, FreshBreaker
<1>10. CASE UNCHANGED vars
  BY <1>10 DEF vars
<1> QED
  BY <1>1, <1>2, <1>3, <1>4, <1>5, <1>6, <1>7, <1>8, <1>9, <1>10 DEF Next, Quiescent

\* Every variable keeps its type: the breaker's state and counters, and for each
\* job its BullMQ state, its counters and its outstanding request.
THEOREM TypeCorrect == Spec => []TypeOK
BY TypeInit, TypeStep, PTL DEF Spec

-----------------------------------------------------------------------------
(* The inductive invariant: one lemma per conjunct, one step per action.   *)

\* Every step keeps the counters of the breaker below their thresholds.
LEMMA BreakerStep ==
  TypeOK /\ BreakerConsistent /\ [Next]_vars => BreakerConsistent'
<1> SUFFICES ASSUME TypeOK, BreakerConsistent, [Next]_vars
             PROVE  BreakerConsistent'
  OBVIOUS
<1> USE BridgeAssumption DEF TypeOK, BreakerStates, BreakerConsistent
<1>1. ASSUME NEW j \in Jobs, SendRequest(j) PROVE BreakerConsistent'
  BY <1>1 DEF SendRequest, AdmitRequest, FailsFast
<1>2. ASSUME NEW j \in Jobs, RequestSucceeds(j) PROVE BreakerConsistent'
  BY <1>2 DEF RequestSucceeds, OnSuccess
<1>3. ASSUME NEW j \in Jobs, RequestFails(j) PROVE BreakerConsistent'
  BY <1>3 DEF RequestFails, OnFailure
<1>4. CASE Crash
  BY <1>4 DEF Crash, FreshBreaker
<1>5. CASE UNCHANGED <<state, failures, successes>>
  BY <1>5
<1> QED
  BY <1>1, <1>2, <1>3, <1>4, <1>5
     DEF Next, Enqueue, RejectOpen, Wake, RecoverStalled, Tick, Quiescent,
         breakerVars, vars

\* Every step keeps requests with active jobs and leaves attempts to live jobs.
LEMMA JobStep == TypeOK /\ JobInv /\ [Next]_vars => JobInv'
<1> SUFFICES ASSUME TypeOK, JobInv, [Next]_vars PROVE JobInv'
  OBVIOUS
<1> USE BridgeAssumption DEF TypeOK, Requests, JobStates, JobInv
<1>1. ASSUME NEW j \in Jobs, Enqueue(j) PROVE JobInv'
  BY <1>1 DEF Enqueue
<1>2. ASSUME NEW j \in Jobs, SendRequest(j) PROVE JobInv'
  BY <1>2 DEF SendRequest, CanStart
<1>3. ASSUME NEW j \in Jobs, RejectOpen(j) PROVE JobInv'
  BY <1>3 DEF RejectOpen, CanStart
<1>4. ASSUME NEW j \in Jobs, RequestSucceeds(j) PROVE JobInv'
  BY <1>4 DEF RequestSucceeds
<1>5. ASSUME NEW j \in Jobs, RequestFails(j) PROVE JobInv'
  BY <1>5 DEF RequestFails
<1>6. ASSUME NEW j \in Jobs, Wake(j) PROVE JobInv'
  BY <1>6 DEF Wake
<1>7. ASSUME NEW j \in Jobs, RecoverStalled(j) PROVE JobInv'
  BY <1>7 DEF RecoverStalled
<1>8. CASE Crash
  BY <1>8 DEF Crash
<1>9. CASE UNCHANGED <<status, attempts, stalls, request>>
  BY <1>9
<1> QED
  BY <1>1, <1>2, <1>3, <1>4, <1>5, <1>6, <1>7, <1>8, <1>9
     DEF Next, Tick, Quiescent, vars

\* Every step keeps the counters of the breaker within the run of outcomes.
LEMMA RunStep ==
  TypeOK /\ BreakerConsistent /\ RunInv /\ [Next]_vars => RunInv'
<1> SUFFICES ASSUME TypeOK, BreakerConsistent, RunInv, [Next]_vars
             PROVE  RunInv'
  OBVIOUS
<1> USE RunCapReaches DEF TypeOK, BreakerConsistent, RunInv
<1>1. ASSUME NEW j \in Jobs, SendRequest(j) PROVE RunInv'
  BY <1>1 DEF SendRequest, AdmitRequest
<1>2. ASSUME NEW j \in Jobs, RequestSucceeds(j) PROVE RunInv'
  <2>1. run'.ok /\ failures' = 0
    BY <1>2, LongerRunType DEF RequestSucceeds, OnSuccess
  <2>2. successes' > 0 => successes' <= run'.length \/ run'.length = RunCap
    <3>1. successes' = 0 \/ successes' = successes + 1
      BY <1>2 DEF RequestSucceeds, OnSuccess
    <3>2. run' = LongerRun(TRUE)
      BY <1>2 DEF RequestSucceeds, OnSuccess
    <3>3. successes \in Nat
      OBVIOUS
    <3>4. ~(successes > 0) => successes = 0
      BY <3>3
    <3>6. run.ok # TRUE => successes = 0
      BY <3>4
    <3>7. successes <= run.length \/ run.length = RunCap
      BY <3>4
    <3>5. successes + 1 <= run'.length \/ run'.length = RunCap
      BY <3>2, <3>3, <3>6, <3>7, LongerRunCounts
    <3> QED BY <3>1, <3>5
  <2> QED BY <2>1, <2>2
<1>3. ASSUME NEW j \in Jobs, RequestFails(j) PROVE RunInv'
  <2>1. ~run'.ok
    BY <1>3, LongerRunType DEF RequestFails, OnFailure
  <2>2. failures' <= run'.length \/ run'.length = RunCap
    <3>1. failures' = failures \/ failures' = failures + 1
      BY <1>3 DEF RequestFails, OnFailure
    <3>2. run' = LongerRun(FALSE)
      BY <1>3 DEF RequestFails, OnFailure
    <3>3. failures + 1 <= run'.length \/ run'.length = RunCap
      BY <3>2, LongerRunCounts
    <3>4. run'.length \in 0..RunCap
      BY <3>2, LongerRunType
    <3> QED BY <3>1, <3>3, <3>4
  <2>3. successes' = 0
    BY <1>3 DEF RequestFails, OnFailure
  <2> QED BY <2>1, <2>2, <2>3
<1>4. CASE Crash
  BY <1>4 DEF Crash, FreshBreaker
<1>5. CASE UNCHANGED <<failures, successes, run>>
  BY <1>5
<1> QED
  BY <1>1, <1>2, <1>3, <1>4, <1>5
     DEF Next, Enqueue, RejectOpen, Wake, RecoverStalled, Tick, Quiescent,
         breakerVars, vars

\* Every step keeps each attempt and each stall paid for by a request.
LEMMA BudgetStep ==
  TypeOK /\ JobInv /\ BudgetSpentOnCalls /\ [Next]_vars => BudgetSpentOnCalls'
<1> SUFFICES ASSUME TypeOK, JobInv, BudgetSpentOnCalls, [Next]_vars
             PROVE  BudgetSpentOnCalls'
  OBVIOUS
<1> USE BridgeAssumption
    DEF TypeOK, Requests, JobStates, JobInv, BudgetSpentOnCalls, Accounted
<1>1. ASSUME NEW j \in Jobs, Enqueue(j) PROVE BudgetSpentOnCalls'
  BY <1>1 DEF Enqueue
<1>2. ASSUME NEW j \in Jobs, SendRequest(j) PROVE BudgetSpentOnCalls'
  BY <1>2 DEF SendRequest, CanStart
<1>3. ASSUME NEW j \in Jobs, RejectOpen(j) PROVE BudgetSpentOnCalls'
  BY <1>3 DEF RejectOpen, CanStart
<1>4. ASSUME NEW j \in Jobs, RequestSucceeds(j) PROVE BudgetSpentOnCalls'
  BY <1>4 DEF RequestSucceeds
<1>5. ASSUME NEW j \in Jobs, RequestFails(j) PROVE BudgetSpentOnCalls'
  BY <1>5 DEF RequestFails
<1>6. ASSUME NEW j \in Jobs, Wake(j) PROVE BudgetSpentOnCalls'
  BY <1>6 DEF Wake
<1>7. ASSUME NEW j \in Jobs, RecoverStalled(j) PROVE BudgetSpentOnCalls'
  BY <1>7 DEF RecoverStalled
<1>8. CASE UNCHANGED <<status, attempts, stalls, called>>
  BY <1>8
<1> QED
  BY <1>1, <1>2, <1>3, <1>4, <1>5, <1>6, <1>7, <1>8
     DEF Next, Tick, Crash, Quiescent, vars

\* Every step keeps delayed jobs asleep until the recovery window is over.
LEMMA WakeStep ==
  TypeOK /\ JobInv /\ WakesIntoProbe /\ [Next]_vars => WakesIntoProbe'
<1> SUFFICES ASSUME TypeOK, JobInv, WakesIntoProbe, [Next]_vars
             PROVE  WakesIntoProbe'
  OBVIOUS
<1> USE BridgeAssumption DEF TypeOK, Requests, JobStates, JobInv, WakesIntoProbe
<1>1. ASSUME NEW j \in Jobs, Enqueue(j) PROVE WakesIntoProbe'
  BY <1>1 DEF Enqueue, breakerVars
<1>2. ASSUME NEW j \in Jobs, SendRequest(j) PROVE WakesIntoProbe'
  BY <1>2 DEF SendRequest, CanStart, AdmitRequest
<1>3. ASSUME NEW j \in Jobs, RejectOpen(j) PROVE WakesIntoProbe'
  BY <1>3 DEF RejectOpen, CanStart, DelayMs, breakerVars
<1>4. ASSUME NEW j \in Jobs, RequestSucceeds(j) PROVE WakesIntoProbe'
  BY <1>4 DEF RequestSucceeds, OnSuccess
<1>5. ASSUME NEW j \in Jobs, RequestFails(j) PROVE WakesIntoProbe'
  BY <1>5 DEF RequestFails
<1>6. ASSUME NEW j \in Jobs, Wake(j) PROVE WakesIntoProbe'
  BY <1>6 DEF Wake, breakerVars
<1>7. ASSUME NEW j \in Jobs, RecoverStalled(j) PROVE WakesIntoProbe'
  BY <1>7 DEF RecoverStalled, breakerVars
<1>8. CASE Tick
  BY <1>8, CountdownNat DEF Tick
<1>9. CASE Crash
  BY <1>9 DEF Crash, FreshBreaker
<1>10. CASE UNCHANGED vars
  BY <1>10 DEF vars
<1> QED
  BY <1>1, <1>2, <1>3, <1>4, <1>5, <1>6, <1>7, <1>8, <1>9, <1>10
     DEF Next, Quiescent

\* The initial states satisfy the inductive invariant.
LEMMA InvInit == Init => IInv
<1> SUFFICES ASSUME Init PROVE IInv
  OBVIOUS
<1>1. TypeOK
  BY TypeInit
<1>2. BreakerConsistent /\ RunInv
  BY BridgeAssumption DEF Init, FreshBreaker, BreakerConsistent, RunInv
<1>3. JobInv /\ BudgetSpentOnCalls /\ WakesIntoProbe
  BY BridgeAssumption
     DEF Init, JobInv, BudgetSpentOnCalls, Accounted, WakesIntoProbe
<1> QED BY <1>1, <1>2, <1>3 DEF IInv

\* The inductive invariant holds in every reachable state of the bridge.
THEOREM InvCorrect == Spec => []IInv
<1>1. IInv /\ [Next]_vars => IInv'
  BY TypeStep, BreakerStep, JobStep, RunStep, BudgetStep, WakeStep DEF IInv
<1> QED BY InvInit, <1>1, PTL DEF Spec

-----------------------------------------------------------------------------
(* The properties of the breaker and of the jobs.                          *)

\* The counters of the breaker agree with its state at all times, in whatever
\* order the answers of concurrent requests come back (CircuitBreaker).
THEOREM BreakerCorrect == Spec => []BreakerConsistent
BY InvCorrect, PTL DEF IInv

\* A job's attempts and stalls are requests that were sent for it, each counted
\* once; what an open breaker rejects costs a job nothing (processor).
THEOREM BudgetCorrect == Spec => []BudgetSpentOnCalls
BY InvCorrect, PTL DEF IInv

\* A job the breaker delayed never wakes up inside the recovery window it was
\* delayed for (delayMs of the processor against remainingOpenMs).
THEOREM WakeCorrect == Spec => []WakesIntoProbe
BY InvCorrect, PTL DEF IInv

\* The breaker opens from CLOSED only after FailureThreshold failures in a row and
\* closes only after SuccessThreshold successes in a row, or with a new process.
THEOREM TransitionCorrect == Spec => TransitionsNeedRuns
<1>1. ASSUME TypeOK, RunInv, Next
      PROVE  OpensAfterFailures /\ ClosesAfterSuccesses
  <2>1. /\ failures \in Nat /\ successes \in Nat
        /\ run \in [ok : BOOLEAN, length : 0..RunCap]
    BY <1>1 DEF TypeOK
  <2>2. ASSUME NEW j \in Jobs, RequestSucceeds(j)
        PROVE  OpensAfterFailures /\ ClosesAfterSuccesses
    <3>1. run' = LongerRun(TRUE) /\ OnSuccess
      BY <2>2 DEF RequestSucceeds, OnSuccess
    <3>2. run'.ok = TRUE /\ run'.length \in 0..RunCap
      BY <2>1, <3>1, LongerRunType
    <3>3. OpensAfterFailures
      BY <3>1 DEF OnSuccess, OpensAfterFailures
    <3>4. successes + 1 <= run'.length \/ run'.length = RunCap
      <4>1. run.ok # TRUE => successes = 0
        <5>1. successes > 0 => run.ok
          BY <1>1 DEF RunInv
        <5>2. successes > 0 \/ successes = 0
          BY <2>1
        <5> QED BY <2>1, <5>1, <5>2
      <4>2. run.ok = TRUE => successes <= run.length \/ run.length = RunCap
        BY <1>1, <2>1 DEF RunInv
      <4> QED BY <2>1, <3>1, <4>1, <4>2, LongerRunCounts
    <3>5. successes + 1 >= SuccessThreshold => run'.length >= SuccessThreshold
      BY <2>1, <3>2, <3>4, RunCapReaches, BridgeAssumption
    <3>6. ClosesAfterSuccesses
      BY <3>1, <3>2, <3>5 DEF OnSuccess, ClosesAfterSuccesses
    <3> QED BY <3>3, <3>6
  <2>3. ASSUME NEW j \in Jobs, RequestFails(j)
        PROVE  OpensAfterFailures /\ ClosesAfterSuccesses
    <3>1. run' = LongerRun(FALSE) /\ OnFailure
      BY <2>3 DEF RequestFails, OnFailure
    <3>2. run'.ok = FALSE /\ run'.length \in 0..RunCap
      BY <2>1, <3>1, LongerRunType
    <3>3. ClosesAfterSuccesses
      BY <3>1 DEF OnFailure, ClosesAfterSuccesses
    <3>4. failures + 1 <= run'.length \/ run'.length = RunCap
      <4>1. run.ok # FALSE => failures = 0
        BY <1>1, <2>1 DEF RunInv
      <4>2. run.ok = FALSE => failures <= run.length \/ run.length = RunCap
        BY <1>1, <2>1 DEF RunInv
      <4> QED BY <2>1, <3>1, <4>1, <4>2, LongerRunCounts
    <3>5. failures + 1 >= FailureThreshold => run'.length >= FailureThreshold
      BY <2>1, <3>2, <3>4, RunCapReaches, BridgeAssumption
    <3>6. OpensAfterFailures
      BY <3>1, <3>2, <3>5 DEF OnFailure, OpensAfterFailures
    <3> QED BY <3>3, <3>6
  <2>4. ASSUME NEW j \in Jobs, SendRequest(j)
        PROVE  OpensAfterFailures /\ ClosesAfterSuccesses
    BY <2>4 DEF SendRequest, AdmitRequest, OpensAfterFailures, ClosesAfterSuccesses
  <2>5. CASE Crash
    BY <2>5, <1>1
       DEF Crash, FreshBreaker, OpensAfterFailures, ClosesAfterSuccesses, TypeOK
  <2>6. CASE UNCHANGED state
    BY <2>6 DEF OpensAfterFailures, ClosesAfterSuccesses
  <2> QED
    BY <1>1, <2>2, <2>3, <2>4, <2>5, <2>6
       DEF Next, Enqueue, RejectOpen, Wake, RecoverStalled, Tick, Quiescent,
           breakerVars, vars
<1>2. IInv /\ [Next]_vars => [OpensAfterFailures /\ ClosesAfterSuccesses]_vars
  BY <1>1 DEF IInv
<1> QED BY InvCorrect, <1>2, PTL DEF Spec, TransitionsNeedRuns
-----------------------------------------------------------------------------
(* The bridge implements JobService.                                       *)

\* A step that leaves every job's phase and count of requests alone stutters.
LEMMA StutterService ==
  ASSUME TypeOK, UNCHANGED called, \A j \in Jobs : JobPhase(j)' = JobPhase(j)
  PROVE  UNCHANGED Service!vars
BY DEF Service!vars, phaseOf

\* The initial states are initial states of the service.
LEMMA ServiceInit == Init => Service!Init
BY DEF Init, Service!Init, phaseOf, JobPhase

\* The fewest requests a job gets are within both of its budgets.
LEMMA FewestTries ==
  /\ fewestTries \in Nat
  /\ fewestTries <= MaxAttempts
  /\ fewestTries <= MaxStalls + 1
BY BridgeAssumption DEF fewestTries

\* A job of which a step only changes the phase: the map of phases changes there.
LEMMA PhaseChange ==
  ASSUME NEW j \in Jobs, NEW p, JobPhase(j)' = p,
         \A i \in Jobs : i # j => JobPhase(i)' = JobPhase(i)
  PROVE  phaseOf' = [phaseOf EXCEPT ![j] = p]
BY DEF phaseOf

\* Every step of the bridge is a step of the service or a stutter.
LEMMA ServiceStep ==
  IInv /\ [Next]_vars => [Service!Next]_(Service!vars)
<1> SUFFICES ASSUME IInv, [Next]_vars PROVE [Service!Next]_(Service!vars)
  OBVIOUS
<1> USE DEF TypeOK, JobStates, Requests
<1>a. TypeOK /\ JobInv /\ BudgetSpentOnCalls
  BY DEF IInv
<1>1. ASSUME NEW j \in Jobs, Enqueue(j) PROVE Service!Submit(j)
  <2>1. JobPhase(j) = "absent" /\ JobPhase(j)' = "pending" /\ UNCHANGED called
    BY <1>1, <1>a DEF Enqueue, JobPhase
  <2>2. \A i \in Jobs : i # j => JobPhase(i)' = JobPhase(i)
    BY <1>1, <1>a DEF Enqueue, JobPhase
  <2> QED BY <2>1, <2>2, PhaseChange DEF Service!Submit, phaseOf
<1>2. ASSUME NEW j \in Jobs, SendRequest(j) PROVE Service!Try(j)
  <2>1. JobPhase(j) = "pending" /\ \A i \in Jobs : JobPhase(i)' = JobPhase(i)
    BY <1>2, <1>a DEF SendRequest, CanStart, JobPhase
  <2>2. called' = [called EXCEPT ![j] = called[j] + 1]
    BY <1>2 DEF SendRequest
  <2>3. called[j] < MaxAttempts + MaxStalls
    <3>1. called[j] = attempts[j] + stalls[j]
      BY <1>2, <1>a DEF SendRequest, CanStart, BudgetSpentOnCalls, Accounted
    <3>2. attempts[j] < MaxAttempts /\ stalls[j] <= MaxStalls
      BY <1>2, <1>a DEF SendRequest, CanStart, JobInv
    <3> QED BY <1>a, <3>1, <3>2, BridgeAssumption
  <2> QED BY <2>1, <2>2, <2>3 DEF Service!Try, phaseOf
<1>3. ASSUME NEW j \in Jobs, RequestSucceeds(j) PROVE Service!Succeed(j)
  <2>1. JobPhase(j) = "pending" /\ JobPhase(j)' = "done" /\ UNCHANGED called
    BY <1>3, <1>a DEF RequestSucceeds, JobInv, JobPhase
  <2>2. \A i \in Jobs : i # j => JobPhase(i)' = JobPhase(i)
    BY <1>3, <1>a DEF RequestSucceeds, JobPhase
  <2>3. called[j] > 0
    BY <1>3, <1>a DEF RequestSucceeds, JobInv, BudgetSpentOnCalls, Accounted
  <2> QED BY <2>1, <2>2, <2>3, PhaseChange DEF Service!Succeed, phaseOf
<1>4. ASSUME NEW j \in Jobs, RequestFails(j), attempts[j] + 1 < MaxAttempts
      PROVE  UNCHANGED Service!vars
  <2>1. UNCHANGED called /\ \A i \in Jobs : JobPhase(i)' = JobPhase(i)
    BY <1>4, <1>a DEF RequestFails, JobInv, JobPhase
  <2> QED BY <1>a, <2>1, StutterService
<1>5. ASSUME NEW j \in Jobs, RequestFails(j), ~(attempts[j] + 1 < MaxAttempts)
      PROVE  Service!GiveUp(j)
  <2>1. JobPhase(j) = "pending" /\ JobPhase(j)' = "dead" /\ UNCHANGED called
    BY <1>5, <1>a DEF RequestFails, JobInv, JobPhase
  <2>2. \A i \in Jobs : i # j => JobPhase(i)' = JobPhase(i)
    BY <1>5, <1>a DEF RequestFails, JobPhase
  <2>3. called[j] = attempts[j] + stalls[j] + 1
    BY <1>5, <1>a DEF RequestFails, JobInv, BudgetSpentOnCalls, Accounted
  <2>4. called[j] >= fewestTries
    BY <1>5, <1>a, <2>3, FewestTries, BridgeAssumption
  <2> QED BY <2>1, <2>2, <2>4, PhaseChange DEF Service!GiveUp, phaseOf
<1>6. ASSUME NEW j \in Jobs, RecoverStalled(j), stalls[j] < MaxStalls
      PROVE  UNCHANGED Service!vars
  <2>1. UNCHANGED called /\ \A i \in Jobs : JobPhase(i)' = JobPhase(i)
    BY <1>6, <1>a DEF RecoverStalled, JobPhase
  <2> QED BY <1>a, <2>1, StutterService
<1>7. ASSUME NEW j \in Jobs, RecoverStalled(j), ~(stalls[j] < MaxStalls)
      PROVE  Service!GiveUp(j)
  <2>1. JobPhase(j) = "pending" /\ JobPhase(j)' = "dead" /\ UNCHANGED called
    BY <1>7, <1>a DEF RecoverStalled, JobPhase
  <2>2. \A i \in Jobs : i # j => JobPhase(i)' = JobPhase(i)
    BY <1>7, <1>a DEF RecoverStalled, JobPhase
  <2>3. called[j] = attempts[j] + stalls[j] + 1
    BY <1>7, <1>a DEF RecoverStalled, BudgetSpentOnCalls, Accounted
  <2>4. called[j] >= fewestTries
    BY <1>7, <1>a, <2>3, FewestTries, BridgeAssumption
  <2> QED BY <2>1, <2>2, <2>4, PhaseChange DEF Service!GiveUp, phaseOf
<1>8. ASSUME NEW j \in Jobs, RejectOpen(j) \/ Wake(j) PROVE UNCHANGED Service!vars
  <2>1. UNCHANGED called /\ \A i \in Jobs : JobPhase(i)' = JobPhase(i)
    BY <1>8, <1>a DEF RejectOpen, CanStart, Wake, JobPhase
  <2> QED BY <1>a, <2>1, StutterService
<1>9. ASSUME UNCHANGED <<status, called>> PROVE UNCHANGED Service!vars
  <2>1. \A i \in Jobs : JobPhase(i)' = JobPhase(i)
    BY <1>9 DEF JobPhase
  <2> QED BY <1>9, <1>a, <2>1, StutterService
<1> QED
  BY <1>1, <1>2, <1>3, <1>4, <1>5, <1>6, <1>7, <1>8, <1>9
     DEF Next, Tick, Crash, Quiescent, vars, Service!Next

\* The bridge implements the service its producers count on, for every number of
\* jobs, every budget and every setting of the breaker (ImplementsJobService).
THEOREM ServiceCorrect == Spec => ImplementsJobService
BY InvCorrect, ServiceInit, ServiceStep, PTL
   DEF Spec, ImplementsJobService, Service!Spec
=============================================================================
