------------------------ MODULE ChatbotService_proofs ------------------------
(***************************************************************************)
(* The safety properties of the chatbot service's agent (AgentRun) and of  *)
(* what it keeps in Redis (ChatbotConversations), for any number of        *)
(* requests, runs and turns and any limits.                                *)
(*                                                                         *)
(* Those of the agent follow from IInv: the type invariant, how many steps *)
(* and attempts a run has behind it (StepInv), and the shared call count   *)
(* as a run that is alone sees it (SoloInv).                               *)
(*                                                                         *)
(* Those of the rest follow from ConversationsInv: which updates hold the  *)
(* state that is stored (StateInv), who may still record in a window       *)
(* (LimiterInv), what a list to be summarised tells (MemoryInv), and, of a *)
(* session, where the turns that it has had to keep are and which turns    *)
(* are found nowhere any more (SessionInv).                                *)
(***************************************************************************)
EXTENDS AgentRun, ChatbotConversations, Sequences, FiniteSetTheorems, TLAPS

-----------------------------------------------------------------------------
(* Runs of the agent.                                                      *)

\* A run takes at most MaxAgentSteps steps and has one left while it executes a
\* tool; it makes one LLM call more than steps; the attempts are within retries.
StepInv ==
  \A r \in Runs :
    /\ steps[r] <= MaxAgentSteps
    /\ llmCalls[r] <= steps[r] + 1
    /\ attempt[r] <= MaxRetries
    /\ pc[r] \in {"tool", "delay"} => steps[r] < MaxAgentSteps
    /\ pc[r] = "delay" => attempt[r] < MaxRetries

\* While a run is alone no other one is active, the count is the number of its
\* own executions, and all of them but the retries of one call are within the limit.
SoloInv ==
  \A r \in Runs :
    solo[r] =>
      /\ Active(r) => callCount = executed[r] /\ \A q \in Runs : Active(q) => q = r
      /\ executed[r] <= MaxToolCalls + MaxRetries
      /\ pc[r] \in {"tool", "delay"} => executed[r] <= MaxToolCalls + attempt[r]

IInv ==
  /\ TypeOK
  /\ StepInv
  /\ SoloInv
  /\ ReturnsFinalDecision
  /\ ExecutionsPerStep

\* Each action with the choices of Next made.
Step(r) ==
  \/ \E dry \in BOOLEAN : Start(r, dry) \/ Blocked(r, dry)
  \/ \E action \in Actions : Answer(r, action)
  \/ LlmFails(r)
  \/ OutOfSteps(r)
  \/ SimulateTool(r)
  \/ RefuseTool(r)
  \/ CallTool(r)
  \/ ToolDone(r)
  \/ ToolFails(r)
  \/ RetryTool(r)

-----------------------------------------------------------------------------
(* Lemmas about groups of actions.                                         *)

\* Next is a step of some run.
LEMMA NextIsStep == Next => \E r \in Runs : Step(r)
BY DEF Next, Step

\* The four ways a run returns change its pc and its decision only, and the
\* decision they leave is final.
LEMMA ReturnSteps ==
  ASSUME NEW r \in Runs,
         \/ \E action \in Actions : Answer(r, action)
         \/ LlmFails(r)
         \/ OutOfSteps(r)
  PROVE  \E a \in Actions : a # "tool_call" /\ pc[r] = "llm" /\ Return(r, a)
<1>1. ASSUME NEW action \in Actions, Answer(r, action)
      PROVE \E a \in Actions : a # "tool_call" /\ pc[r] = "llm" /\ Return(r, a)
  BY <1>1 DEF Answer
<1>2. "escalate" \in Actions /\ "escalate" # "tool_call"
  BY DEF Actions
<1>3. CASE LlmFails(r)
  BY <1>2, <1>3 DEF LlmFails
<1>4. CASE OutOfSteps(r)
  BY <1>2, <1>4 DEF OutOfSteps
<1> QED BY <1>1, <1>3, <1>4

\* The steps that end in a follow-up call of the LLM without executing a tool.
FollowUpStep(r) ==
  /\ FollowUp(r)
  /\ UNCHANGED execVars
  /\ \/ pc[r] = "llm" /\ decision' = [decision EXCEPT ![r] = "tool_call"]
     \/ pc[r] = "tool" /\ UNCHANGED decision
  /\ steps[r] < MaxAgentSteps

\* SimulateTool, RefuseTool and ToolDone are such steps.
LEMMA FollowUpSteps ==
  ASSUME NEW r \in Runs, TypeOK, StepInv,
         SimulateTool(r) \/ RefuseTool(r) \/ ToolDone(r)
  PROVE  FollowUpStep(r)
<1>1. CASE SimulateTool(r)
  BY <1>1, AgentAssumption DEF SimulateTool, WantsTool, StepsSpent, FollowUpStep, TypeOK
<1>2. CASE RefuseTool(r)
  BY <1>2, AgentAssumption DEF RefuseTool, WantsTool, StepsSpent, FollowUpStep, TypeOK
<1>3. CASE ToolDone(r)
  BY <1>3, AgentAssumption DEF ToolDone, StepInv, FollowUpStep, execVars, TypeOK
<1> QED BY <1>1, <1>2, <1>3

\* The steps that start an execution of a tool: the first attempt, with the count
\* below the limit, or one more.
ExecuteStep(r, n) ==
  /\ Execute(r, n)
  /\ \/ /\ pc[r] = "llm" /\ n = 0 /\ callCount < MaxToolCalls
        /\ steps[r] < MaxAgentSteps
        /\ decision' = [decision EXCEPT ![r] = "tool_call"]
     \/ pc[r] = "delay" /\ n = attempt[r] + 1 /\ UNCHANGED decision

\* CallTool and RetryTool are such steps.
LEMMA ExecuteSteps ==
  ASSUME NEW r \in Runs, TypeOK, CallTool(r) \/ RetryTool(r)
  PROVE  \E n \in Nat : ExecuteStep(r, n)
<1>1. CASE CallTool(r)
  <2>1. ExecuteStep(r, 0)
    BY <1>1, AgentAssumption
       DEF CallTool, WantsTool, StepsSpent, LimitReached, ExecuteStep, TypeOK
  <2> QED BY <2>1
<1>2. CASE RetryTool(r)
  <2>1. ExecuteStep(r, attempt[r] + 1)
    BY <1>2 DEF RetryTool, ExecuteStep
  <2> QED BY <2>1 DEF TypeOK
<1> QED BY <1>1, <1>2

\* Every step of a run is of one of these forms.
LEMMA StepForms ==
  ASSUME NEW r \in Runs, TypeOK, StepInv, Step(r)
  PROVE  \/ \E dry \in BOOLEAN : Start(r, dry)
         \/ \E dry \in BOOLEAN : Blocked(r, dry)
         \/ \E a \in Actions : a # "tool_call" /\ pc[r] = "llm" /\ Return(r, a)
         \/ FollowUpStep(r)
         \/ \E n \in Nat : ExecuteStep(r, n)
         \/ ToolFails(r)
BY ReturnSteps, FollowUpSteps, ExecuteSteps DEF Step

\* One more step pays for the executions of one tool call.
LEMMA OneMoreStep ==
  ASSUME NEW e \in Nat, NEW s \in Nat, NEW a \in Nat, NEW m \in Nat,
         e <= (m + 1) * s + a + 1, a <= m
  PROVE  e <= (m + 1) * (s + 1)
<1>1. (m + 1) * (s + 1) = (m + 1) * s + (m + 1)
  OBVIOUS
<1>2. (m + 1) * s \in Nat
  OBVIOUS
<1> QED BY <1>1, <1>2

-----------------------------------------------------------------------------
(* The invariant holds at first, and every step keeps it.                  *)

\* The initial states satisfy the invariant.
LEMMA InvInit == Init => IInv
<1> SUFFICES ASSUME Init PROVE IInv
  OBVIOUS
<1>1. TypeOK
  BY DEF Init, TypeOK, Awaits, Actions
<1>2. StepInv
  <2> SUFFICES ASSUME NEW r \in Runs
               PROVE  /\ steps[r] <= MaxAgentSteps
                      /\ llmCalls[r] <= steps[r] + 1
                      /\ attempt[r] <= MaxRetries
                      /\ pc[r] \notin {"tool", "delay"}
    BY DEF StepInv
  <2>1. steps[r] = 0 /\ llmCalls[r] = 0 /\ attempt[r] = 0 /\ pc[r] = "idle"
    BY DEF Init
  <2> QED BY <2>1, AgentAssumption
<1>3. SoloInv
  BY DEF Init, SoloInv
<1>4. ReturnsFinalDecision
  BY DEF Init, ReturnsFinalDecision
<1>5. ExecutionsPerStep
  <2> SUFFICES ASSUME NEW r \in Runs
               PROVE  executed[r] <= (MaxRetries + 1) * steps[r]
                        + (IF pc[r] \in {"tool", "delay"} THEN attempt[r] + 1 ELSE 0)
    BY DEF ExecutionsPerStep
  <2>1. executed[r] = 0 /\ steps[r] = 0 /\ pc[r] = "idle"
    BY DEF Init
  <2>2. (MaxRetries + 1) * 0 = 0
    BY AgentAssumption
  <2> QED BY <2>1, <2>2
<1> QED BY <1>1, <1>2, <1>3, <1>4, <1>5 DEF IInv

\* Every step keeps the types.
LEMMA TypeStep ==
  ASSUME NEW r \in Runs, TypeOK, StepInv, Step(r)
  PROVE  TypeOK'
<1> USE DEF TypeOK, Awaits, Actions
<1>1. ASSUME NEW dry \in BOOLEAN, Start(r, dry) PROVE TypeOK'
  BY <1>1 DEF Start, Enter, ResetCallCount
<1>2. ASSUME NEW dry \in BOOLEAN, Blocked(r, dry) PROVE TypeOK'
  BY <1>2 DEF Blocked, Enter, ResetCallCount
<1>3. ASSUME NEW a \in Actions, Return(r, a) PROVE TypeOK'
  BY <1>3 DEF Return
<1>4. CASE FollowUpStep(r)
  <2>1. decision' \in [Runs -> Actions]
    BY <1>4 DEF FollowUpStep
  <2>2. llmCalls' \in [Runs -> Nat]
    BY <1>4 DEF FollowUpStep, FollowUp, CountLlmCall
  <2>3. FollowUp(r) /\ UNCHANGED execVars
    BY <1>4 DEF FollowUpStep
  <2> QED BY <2>1, <2>2, <2>3 DEF FollowUp, execVars
<1>5. ASSUME NEW n \in Nat, ExecuteStep(r, n) PROVE TypeOK'
  <2>1. decision' \in [Runs -> Actions]
    BY <1>5 DEF ExecuteStep
  <2>2. Execute(r, n)
    BY <1>5 DEF ExecuteStep
  <2> QED BY <2>1, <2>2 DEF Execute
<1>6. CASE ToolFails(r)
  BY <1>6 DEF ToolFails, execVars
<1> QED BY <1>1, <1>2, <1>3, <1>4, <1>5, <1>6, StepForms

\* Every step keeps the bounds on steps and attempts.
LEMMA StepInvStep ==
  ASSUME NEW r \in Runs, TypeOK, StepInv, Step(r)
  PROVE  StepInv'
<1> USE AgentAssumption DEF TypeOK, StepInv
<1>1. ASSUME NEW dry \in BOOLEAN, Start(r, dry) PROVE StepInv'
  BY <1>1 DEF Start, Enter
<1>2. ASSUME NEW dry \in BOOLEAN, Blocked(r, dry) PROVE StepInv'
  BY <1>2 DEF Blocked, Enter
<1>3. ASSUME NEW a \in Actions, pc[r] = "llm", Return(r, a) PROVE StepInv'
  BY <1>3 DEF Return
<1>4. CASE FollowUpStep(r)
  BY <1>4 DEF FollowUpStep, FollowUp, CountLlmCall, execVars
<1>5. ASSUME NEW n \in Nat, ExecuteStep(r, n) PROVE StepInv'
  BY <1>5 DEF ExecuteStep, Execute
<1>6. CASE ToolFails(r)
  BY <1>6 DEF ToolFails, MayRetry, execVars
<1> QED BY <1>1, <1>2, <1>3, <1>4, <1>5, <1>6, StepForms

\* Every step keeps what a run that is alone knows of the count.
LEMMA SoloInvStep ==
  ASSUME NEW r \in Runs, TypeOK, StepInv, SoloInv, Step(r)
  PROVE  SoloInv'
<1> USE AgentAssumption DEF TypeOK, SoloInv, Active
<1>1. ASSUME NEW dry \in BOOLEAN, Start(r, dry) PROVE SoloInv'
  <2> SUFFICES ASSUME NEW q \in Runs, solo'[q]
               PROVE  /\ Active(q)' => /\ callCount' = executed'[q]
                                       /\ \A o \in Runs : Active(o)' => o = q
                      /\ executed'[q] <= MaxToolCalls + MaxRetries
                      /\ pc'[q] \in {"tool", "delay"}
                           => executed'[q] <= MaxToolCalls + attempt'[q]
    OBVIOUS
  <2>1. /\ pc' = [pc EXCEPT ![r] = "llm"]
        /\ callCount' = 0 /\ executed' = [executed EXCEPT ![r] = 0]
        /\ solo' = [o \in Runs |-> IF o = r THEN \A o2 \in Runs : ~Active(o2)
                                    ELSE solo[o] /\ ~Active(o)]
    BY <1>1 DEF Start, Enter, ResetCallCount
  <2>2. CASE q = r
    BY <2>1, <2>2
  <2>3. CASE q # r
    <3>1. solo[q] /\ ~Active(q) /\ pc'[q] = pc[q] /\ executed'[q] = executed[q]
      BY <2>1, <2>3
    <3> QED BY <3>1
  <2> QED BY <2>2, <2>3
<1>2. ASSUME NEW dry \in BOOLEAN, Blocked(r, dry) PROVE SoloInv'
  BY <1>2 DEF Blocked, Enter, ResetCallCount
<1>3. ASSUME NEW a \in Actions, pc[r] = "llm", Return(r, a) PROVE SoloInv'
  BY <1>3 DEF Return
<1>4. CASE FollowUpStep(r)
  BY <1>4 DEF FollowUpStep, FollowUp, execVars, StepInv
<1>5. ASSUME NEW n \in Nat, ExecuteStep(r, n) PROVE SoloInv'
  <2> SUFFICES ASSUME NEW q \in Runs, solo'[q]
               PROVE  /\ Active(q)' => /\ callCount' = executed'[q]
                                       /\ \A o \in Runs : Active(o)' => o = q
                      /\ executed'[q] <= MaxToolCalls + MaxRetries
                      /\ pc'[q] \in {"tool", "delay"}
                           => executed'[q] <= MaxToolCalls + attempt'[q]
    OBVIOUS
  <2>1. Active(r) /\ solo[q]
    BY <1>5 DEF ExecuteStep, Execute
  <2>2. CASE q # r
    BY <1>5, <2>1, <2>2 DEF ExecuteStep, Execute
  <2>3. CASE q = r
    <3>1. /\ executed'[q] = executed[q] + 1 /\ callCount' = callCount + 1
          /\ attempt'[q] = n /\ pc' = [pc EXCEPT ![q] = "tool"]
      BY <1>5, <2>3 DEF ExecuteStep, Execute
    <3>2. callCount = executed[q] /\ \A o \in Runs : Active(o) => o = q
      BY <2>1, <2>3
    <3>3. executed[q] + 1 <= MaxToolCalls + n
      BY <1>5, <2>1, <2>3, <3>2 DEF ExecuteStep
    <3>4. n <= MaxRetries
      BY <1>5, <2>3 DEF ExecuteStep, StepInv
    <3> QED BY <3>1, <3>2, <3>3, <3>4
  <2> QED BY <2>2, <2>3
<1>6. CASE ToolFails(r)
  BY <1>6 DEF ToolFails, execVars
<1> QED BY <1>1, <1>2, <1>3, <1>4, <1>5, <1>6, StepForms

\* Every step keeps the decisions of returned runs final.
LEMMA DecisionStep ==
  ASSUME NEW r \in Runs, TypeOK, StepInv, ReturnsFinalDecision, Step(r)
  PROVE  ReturnsFinalDecision'
<1> USE DEF TypeOK, ReturnsFinalDecision
<1>1. ASSUME NEW dry \in BOOLEAN, Start(r, dry) PROVE ReturnsFinalDecision'
  BY <1>1 DEF Start, Enter
<1>2. ASSUME NEW dry \in BOOLEAN, Blocked(r, dry) PROVE ReturnsFinalDecision'
  BY <1>2 DEF Blocked, Enter
<1>3. ASSUME NEW a \in Actions, a # "tool_call", Return(r, a)
      PROVE ReturnsFinalDecision'
  BY <1>3 DEF Return
<1>4. CASE FollowUpStep(r)
  BY <1>4 DEF FollowUpStep, FollowUp
<1>5. ASSUME NEW n \in Nat, ExecuteStep(r, n) PROVE ReturnsFinalDecision'
  BY <1>5 DEF ExecuteStep, Execute
<1>6. CASE ToolFails(r)
  BY <1>6 DEF ToolFails
<1> QED BY <1>1, <1>2, <1>3, <1>4, <1>5, <1>6, StepForms

\* Every step keeps the executions of a run within its steps.
LEMMA ExecutionsStep ==
  ASSUME NEW r \in Runs, TypeOK, StepInv, ExecutionsPerStep, Step(r)
  PROVE  ExecutionsPerStep'
<1> DEFINE Paid(e, s, a, p) ==
      e <= (MaxRetries + 1) * s + (IF p \in {"tool", "delay"} THEN a + 1 ELSE 0)
<1>0. /\ ExecutionsPerStep
             <=> \A q \in Runs : Paid(executed[q], steps[q], attempt[q], pc[q])
      /\ ExecutionsPerStep'
             <=> \A q \in Runs : Paid(executed'[q], steps'[q], attempt'[q], pc'[q])
  BY DEF ExecutionsPerStep
<1> SUFFICES ASSUME NEW q \in Runs
             PROVE  Paid(executed'[q], steps'[q], attempt'[q], pc'[q])
  BY <1>0
<1>a. Paid(executed[q], steps[q], attempt[q], pc[q])
  BY <1>0
<1>b. /\ executed[q] \in Nat /\ steps[q] \in Nat /\ attempt[q] \in Nat
      /\ MaxRetries \in Nat /\ (MaxRetries + 1) * steps[q] \in Nat
  BY AgentAssumption DEF TypeOK
<1>1. ASSUME q # r
      PROVE  /\ executed'[q] = executed[q] /\ steps'[q] = steps[q]
             /\ attempt'[q] = attempt[q] /\ pc'[q] = pc[q]
  <2> USE <1>1 DEF TypeOK
  <2>1. ASSUME NEW dry \in BOOLEAN, Start(r, dry) \/ Blocked(r, dry)
        PROVE  /\ executed'[q] = executed[q] /\ steps'[q] = steps[q]
               /\ attempt'[q] = attempt[q] /\ pc'[q] = pc[q]
    BY <2>1 DEF Start, Blocked, Enter, ResetCallCount
  <2>2. ASSUME NEW a \in Actions, Return(r, a)
        PROVE  /\ executed'[q] = executed[q] /\ steps'[q] = steps[q]
               /\ attempt'[q] = attempt[q] /\ pc'[q] = pc[q]
    BY <2>2 DEF Return
  <2>3. CASE FollowUpStep(r)
    BY <2>3 DEF FollowUpStep, FollowUp, execVars
  <2>4. ASSUME NEW n \in Nat, ExecuteStep(r, n)
        PROVE  /\ executed'[q] = executed[q] /\ steps'[q] = steps[q]
               /\ attempt'[q] = attempt[q] /\ pc'[q] = pc[q]
    BY <2>4 DEF ExecuteStep, Execute
  <2>5. CASE ToolFails(r)
    BY <2>5 DEF ToolFails, execVars
  <2> QED BY <2>1, <2>2, <2>3, <2>4, <2>5, StepForms
<1>2. ASSUME q = r PROVE Paid(executed'[q], steps'[q], attempt'[q], pc'[q])
  <2> USE <1>2 DEF TypeOK
  <2>1. ASSUME NEW dry \in BOOLEAN, Start(r, dry) \/ Blocked(r, dry)
        PROVE  Paid(executed'[q], steps'[q], attempt'[q], pc'[q])
    <3>1. executed'[q] = 0 /\ steps'[q] = 0 /\ pc'[q] \notin {"tool", "delay"}
      BY <2>1 DEF Start, Blocked, Enter, ResetCallCount
    <3>2. (MaxRetries + 1) * 0 = 0
      BY <1>b
    <3> QED BY <3>1, <3>2
  <2>2. ASSUME NEW a \in Actions, pc[r] = "llm", Return(r, a)
        PROVE  Paid(executed'[q], steps'[q], attempt'[q], pc'[q])
    BY <2>2, <1>a DEF Return
  <2>3. CASE FollowUpStep(r)
    <3>1. /\ executed'[q] = executed[q] /\ steps'[q] = steps[q] + 1
          /\ pc'[q] = "llm" /\ pc[q] \in {"llm", "tool"} /\ attempt[q] <= MaxRetries
      BY <2>3 DEF FollowUpStep, FollowUp, execVars, StepInv
    <3>2. executed[q] <= (MaxRetries + 1) * steps[q] + attempt[q] + 1
      BY <1>a, <1>b, <3>1
    <3>3. executed[q] <= (MaxRetries + 1) * (steps[q] + 1)
      BY <1>b, <3>1, <3>2, OneMoreStep
    <3>4. (MaxRetries + 1) * (steps[q] + 1) \in Nat
      BY <1>b
    <3> QED BY <1>b, <3>1, <3>3, <3>4
  <2>4. ASSUME NEW n \in Nat, ExecuteStep(r, n)
        PROVE  Paid(executed'[q], steps'[q], attempt'[q], pc'[q])
    <3>1. /\ executed'[q] = executed[q] + 1 /\ steps'[q] = steps[q]
          /\ attempt'[q] = n /\ pc'[q] = "tool"
      BY <2>4 DEF ExecuteStep, Execute
    <3>2. executed[q] <= (MaxRetries + 1) * steps[q] + n
      BY <1>a, <1>b, <2>4 DEF ExecuteStep
    <3> QED BY <1>b, <3>1, <3>2
  <2>5. CASE ToolFails(r)
    <3>1. /\ executed'[q] = executed[q] /\ steps'[q] = steps[q]
          /\ attempt'[q] = attempt[q] /\ pc[q] = "tool" /\ pc'[q] = "delay"
      BY <2>5 DEF ToolFails, execVars
    <3> QED BY <1>a, <3>1
  <2> QED BY <2>1, <2>2, <2>3, <2>4, <2>5, StepForms
<1> QED
  <2>1. CASE q # r
    BY <1>1, <1>a, <2>1
  <2>2. CASE q = r
    BY <1>2, <2>2
  <2> QED BY <2>1, <2>2

\* A stuttering step keeps the invariant, and so does a step of any run.
LEMMA InvStep == IInv /\ [Next]_vars => IInv'
<1> SUFFICES ASSUME IInv, [Next]_vars PROVE IInv'
  OBVIOUS
<1>1. CASE Next
  <2>1. PICK r \in Runs : Step(r)
    BY <1>1, NextIsStep
  <2> QED BY <2>1, TypeStep, StepInvStep, SoloInvStep, DecisionStep, ExecutionsStep
          DEF IInv
<1>2. CASE UNCHANGED vars
  BY <1>2 DEF IInv, vars, TypeOK, StepInv, SoloInv, Active, ReturnsFinalDecision,
              ExecutionsPerStep
<1> QED BY <1>1, <1>2

-----------------------------------------------------------------------------
(* The theorems.                                                           *)

\* The inductive invariant holds in every reachable state of the agent's runs.
THEOREM InvCorrect == Spec => []IInv
BY InvInit, InvStep, PTL DEF Spec

\* Every variable keeps its type, whatever runs overlap.
THEOREM TypeCorrect == Spec => []TypeOK
<1>1. IInv => TypeOK
  BY DEF IInv
<1> QED BY <1>1, InvCorrect, PTL

\* A run makes at most one LLM call more than MAX_AGENT_STEPS (agent.py, the loop
\* of _run_inner), for every limit and any number of concurrent runs.
THEOREM LlmCallsCorrect == Spec => []LlmCallsBounded
<1>1. IInv => LlmCallsBounded
  <2> SUFFICES ASSUME IInv, NEW r \in Runs
               PROVE  steps[r] <= MaxAgentSteps /\ llmCalls[r] <= MaxAgentSteps + 1
    BY DEF LlmCallsBounded
  <2>1. /\ steps[r] \in Nat /\ llmCalls[r] \in Nat
        /\ steps[r] <= MaxAgentSteps /\ llmCalls[r] <= steps[r] + 1
    BY DEF IInv, StepInv, TypeOK
  <2> QED BY <2>1, AgentAssumption
<1> QED BY <1>1, InvCorrect, PTL

\* A run never returns a decision that still asks for a tool (agent.py, the break
\* at the step limit).
THEOREM DecisionCorrect == Spec => []ReturnsFinalDecision
<1>1. IInv => ReturnsFinalDecision
  BY DEF IInv
<1> QED BY <1>1, InvCorrect, PTL

\* A run no other run overlaps exceeds MAX_TOOL_CALLS_PER_RUN by the retries of
\* one call at most (executor.py, execute).
THEOREM AloneCorrect == Spec => []AloneWithinBudget
<1>1. IInv => AloneWithinBudget
  BY DEF IInv, SoloInv, AloneWithinBudget
<1> QED BY <1>1, InvCorrect, PTL

\* A run executes tools at most MAX_RETRIES + 1 times per step, with any number
\* of runs sharing the executor (executor.py, execute).
THEOREM ExecutionsCorrect == Spec => []ExecutionsPerStep
<1>1. IInv => ExecutionsPerStep
  BY DEF IInv
<1> QED BY <1>1, InvCorrect, PTL

-----------------------------------------------------------------------------
(* Conversations.                                                          *)

\* An update that is about to write and is not behind holds the state that is stored,
\* unless that has expired.
StateInv ==
  \A p \in Requests :
    update[p].at = "write" /\ p \notin behind => update[p].state = conv \/ conv = Fresh

\* The entries of a window that count, and the requests that are about to add theirs.
Counted(k) == {e \in window[k] : e > old}
Passing(k) == {p \in Requests : check[p].at = "record" /\ check[p].key = k}

\* Each request that has passed the count may still record: together they are within the
\* bound.  A request's window begins no later than the window does now.
LimiterInv ==
  /\ \A k \in Limiter!Keys :
       Cardinality(Counted(k)) + Cardinality(Passing(k))
         < Limiter!LimitOf(k) + Cardinality(Requests)
  /\ \A p \in Requests :
       check[p].since <= old /\ (check[p].at # "idle" => check[p].entry # 0)

\* What a summary will be made of tells all that is in memory, but for what came later.
MemoryInv ==
  /\ MemoryTellsAll
  /\ \A p \in Requests :
       /\ talk[p].at \in {"user", "assistant"} => talk[p].turn # 0
       /\ talk[p].at = "replace" =>
            heard \subseteq Ticket!Told(talk[p].list) \cup raced \cup forgotten

-----------------------------------------------------------------------------
(* The invariant of a session.                                             *)

Inside(p) == visit[p].at \in Widget!Inside
Told(t) == \E e \in Widget!Turns : t \in tickets[e]

\* Turns are numbered as they begin, one request each.
TurnInv ==
  /\ \A p \in Requests :
       /\ visit[p].turn <= last
       /\ visit[p].at = "idle" <=> visit[p].turn = 0
       /\ ~Inside(p) => visit[p].loaded = {} /\ visit[p].list = <<>>
  /\ \A p, q \in Requests : visit[p].turn = visit[q].turn => p = q \/ visit[p].turn = 0
  /\ alone \subseteq 1..last

\* A turn found anywhere has begun, and its request has loaded the session.
Begun(u) == u <= last /\ \A p \in Requests : visit[p].at = "load" => visit[p].turn # u

BegunInv ==
  /\ \A u \in alone : Begun(u)
  /\ \A u \in Widget!TurnsIn(session) : Begun(u)
  /\ \A p \in Requests :
       /\ \A u \in visit[p].loaded : Begun(u)
       /\ \A u \in Widget!TurnsIn(visit[p].list) : Begun(u)
  /\ \A e \in Widget!Turns : \A u \in tickets[e] : Begun(u)

\* A turn in the session that counts as alone is the only one.
AloneInv ==
  \A p, q \in Requests : Inside(p) /\ visit[p].turn \in alone /\ Inside(q) => p = q

\* A request's turn has its ticket, which tells what it loaded, when it goes on to clear
\* the session; after that it writes no message.
TicketInv ==
  /\ \A p \in Requests :
       /\ visit[p].at \in {"create", "clear"} => visit[p].act \in {"gate", "escalate"}
       /\ visit[p].at = "clear" => visit[p].loaded \subseteq tickets[visit[p].turn]
       /\ visit[p].at \notin {"idle", "clear"} /\ tickets[visit[p].turn] # {} =>
            visit[p].at = "state" /\ visit[p].act = "escalate"
  /\ \A e \in Widget!Turns : e > last => tickets[e] = {}

\* What the ticket of a turn alone tells is found nowhere else once the session is cleared.
SealInv ==
  \A e \in alone : tickets[e] # {} =>
    /\ \A p \in Requests : visit[p].turn # e =>
         /\ visit[p].turn \notin tickets[e]
         /\ visit[p].loaded \cap tickets[e] = {}
         /\ Widget!TurnsIn(visit[p].list) \cap tickets[e] = {}
    /\ \/ \E p \in Requests : visit[p].turn = e /\ visit[p].at = "clear"
       \/ Widget!TurnsIn(session) \cap tickets[e] = {}

\* What the session has had to keep, every request that may replace it has.
KeptInv ==
  \A t \in kept : Told(t) \/
    /\ Widget!WholeIn(t, session)
    /\ \A p \in Requests :
         /\ visit[p].at \in {"writeUser", "writeReply"} => Widget!WholeIn(t, visit[p].list)
         /\ Inside(p) /\ ~visit[p].blind => t \in visit[p].loaded

\* The message of a turn alone is the last in the session until its reply follows.
EndsWith(s, t) == s # <<>> /\ s[Len(s)] = [turn |-> t, by |-> "user"]

ReplyInv ==
  \A p \in Requests : visit[p].turn \in alone =>
    /\ visit[p].at = "readReply" => EndsWith(session, visit[p].turn)
    /\ visit[p].at = "writeReply" => EndsWith(visit[p].list, visit[p].turn)

SessionInv ==
  /\ TurnInv
  /\ BegunInv
  /\ AloneInv
  /\ TicketInv
  /\ SealInv
  /\ KeptInv
  /\ ReplyInv
  /\ TurnsToldOnce

-----------------------------------------------------------------------------
(* The conversation state.                                                 *)

\* All that happens to the state: what update() does, and that the key expires.
StateStep ==
  \/ UNCHANGED stateVars
  \/ \E p \in Requests :
       \/ ReadState(p)
       \/ \E responded \in BOOLEAN : WriteState(p, responded)
       \/ DropUpdate(p)
       \/ update' = [update EXCEPT ![p].at = "read"] /\ UNCHANGED <<conv, behind>>
  \/ ExpireState

\* The operators of ConversationState are the same in the modules that extend it.
LEMMA WidgetState ==
  ASSUME NEW p \in Requests
  PROVE  /\ Widget!ReadState(p) => ReadState(p)
         /\ \A responded \in BOOLEAN : Widget!WriteState(p, responded) => WriteState(p, responded)
         /\ Widget!DropUpdate(p) => DropUpdate(p)
         /\ Widget!ExpireState => ExpireState
<1>1. Widget!Fresh = Fresh
  BY DEF Widget!Fresh, Fresh, Widget!Opening, Opening
<1>2. Widget!NoUpdate = NoUpdate
  BY <1>1 DEF Widget!NoUpdate, NoUpdate
<1>3. Widget!ReadState(p) => ReadState(p)
  BY <1>1 DEF Widget!ReadState, ReadState, Widget!Trouble, Trouble
<1>4. ASSUME NEW responded \in BOOLEAN, Widget!WriteState(p, responded)
      PROVE  WriteState(p, responded)
  BY <1>2, <1>4
     DEF Widget!WriteState, WriteState, Widget!Trouble, Trouble, Widget!ApplyTurn, ApplyTurn,
         Widget!AdvanceStage, AdvanceStage, Widget!MaxCount, MaxCount, Widget!Opening, Opening,
         Widget!Gathering, Gathering, Widget!Investigating, Investigating, Widget!Resolving,
         Resolving, Widget!Closing, Closing
<1>5. Widget!DropUpdate(p) => DropUpdate(p)
  BY <1>2 DEF Widget!DropUpdate, DropUpdate
<1>6. Widget!ExpireState => ExpireState
  BY <1>1 DEF Widget!ExpireState, ExpireState
<1> QED BY <1>3, <1>4, <1>5, <1>6

\* The same of the turns on a ticket.
LEMMA TicketState ==
  ASSUME NEW p \in Requests
  PROVE  /\ Ticket!ReadState(p) => ReadState(p)
         /\ \A responded \in BOOLEAN : Ticket!WriteState(p, responded) => WriteState(p, responded)
         /\ Ticket!DropUpdate(p) => DropUpdate(p)
         /\ Ticket!ExpireState => ExpireState
<1>1. Ticket!Fresh = Fresh
  BY DEF Ticket!Fresh, Fresh, Ticket!Opening, Opening
<1>2. Ticket!NoUpdate = NoUpdate
  BY <1>1 DEF Ticket!NoUpdate, NoUpdate
<1>3. Ticket!ReadState(p) => ReadState(p)
  BY <1>1 DEF Ticket!ReadState, ReadState, Ticket!Trouble, Trouble
<1>4. ASSUME NEW responded \in BOOLEAN, Ticket!WriteState(p, responded)
      PROVE  WriteState(p, responded)
  BY <1>2, <1>4
     DEF Ticket!WriteState, WriteState, Ticket!Trouble, Trouble, Ticket!ApplyTurn, ApplyTurn,
         Ticket!AdvanceStage, AdvanceStage, Ticket!MaxCount, MaxCount, Ticket!Opening, Opening,
         Ticket!Gathering, Gathering, Ticket!Investigating, Investigating, Ticket!Resolving,
         Resolving, Ticket!Closing, Closing
<1>5. Ticket!DropUpdate(p) => DropUpdate(p)
  BY <1>2 DEF Ticket!DropUpdate, DropUpdate
<1>6. Ticket!ExpireState => ExpireState
  BY <1>1 DEF Ticket!ExpireState, ExpireState
<1> QED BY <1>3, <1>4, <1>5, <1>6

\* What a request of the widget does to the state.
LEMMA SessionStateStep ==
  ASSUME Widget!SessionNext
  PROVE  StateStep
<1>1. ASSUME NEW p \in Requests,
             \/ Widget!Arrive(p) \/ Widget!Load(p) \/ Widget!CreateTicket(p)
             \/ Widget!ReadMessages(p) \/ Widget!WriteMessages(p)
      PROVE  StateStep
  BY <1>1 DEF StateStep, stateVars, Widget!stateVars, Widget!Arrive, Widget!Load,
              Widget!CreateTicket, Widget!ReadMessages, Widget!WriteMessages
<1>2. ASSUME NEW p \in Requests,
             Widget!Decide(p) \/ Widget!TicketFails(p) \/ Widget!ClearSession(p)
      PROVE  StateStep
  <2>1. UNCHANGED stateVars \/ Widget!BeginUpdate(p)
    BY <1>2 DEF stateVars, Widget!stateVars, Widget!Decide, Widget!TicketFails,
                Widget!ClearSession, Widget!Escalated
  <2> QED BY <2>1 DEF StateStep, Widget!BeginUpdate
<1>3. ASSUME NEW p \in Requests, Widget!UpdateState(p)
      PROVE  StateStep
  <2>1. ReadState(p) \/ WriteState(p, visit[p].act = "respond")
    BY <1>3, WidgetState DEF Widget!UpdateState
  <2> QED BY <2>1 DEF StateStep
<1>4. ASSUME NEW p \in Requests, Widget!Abandon(p)
      PROVE  StateStep
  BY <1>4, WidgetState DEF StateStep, Widget!Abandon
<1>5. CASE Widget!ExpireSession
  BY <1>5 DEF StateStep, stateVars, Widget!stateVars, Widget!ExpireSession
<1>6. ASSUME Widget!ExpireState PROVE StateStep
  BY <1>6 DEF StateStep, ExpireState, Widget!ExpireState, Fresh, Opening, Widget!Fresh,
              Widget!Opening
<1> QED BY <1>1, <1>2, <1>3, <1>4, <1>5, <1>6 DEF Widget!SessionNext

\* What a turn on a ticket does to it.
LEMMA TicketStateStep ==
  ASSUME Ticket!ChatNext \/ Ticket!MemoryNext
  PROVE  StateStep
<1>1. ASSUME NEW p \in Requests,
             \/ Ticket!Stream(p) \/ Ticket!AddMessage(p) \/ Ticket!Measure(p)
             \/ Ticket!ReadAll(p) \/ Ticket!Replace(p) \/ Ticket!ExpireMemory
      PROVE  StateStep
  BY <1>1 DEF StateStep, stateVars, Ticket!stateVars, Ticket!Stream, Ticket!AddMessage,
              Ticket!Measure, Ticket!ReadAll, Ticket!Replace, Ticket!ExpireMemory
<1>2. ASSUME NEW p \in Requests, Ticket!Chat(p)
      PROVE  StateStep
  BY <1>2 DEF StateStep, Ticket!Chat
<1>3. ASSUME NEW p \in Requests, Ticket!UpdateState(p)
      PROVE  StateStep
  BY <1>3, TicketState DEF StateStep, Ticket!UpdateState
<1>4. ASSUME NEW p \in Requests, Ticket!Abandon(p)
      PROVE  StateStep
  BY <1>4, TicketState DEF StateStep, Ticket!Abandon
<1>5. ASSUME Ticket!ExpireState PROVE StateStep
  BY <1>5 DEF StateStep, ExpireState, Ticket!ExpireState, Fresh, Opening, Ticket!Fresh,
              Ticket!Opening
<1>6. ASSUME Ticket!ExpireMemory PROVE StateStep
  BY <1>6 DEF StateStep, stateVars, Ticket!stateVars, Ticket!ExpireMemory
<1> QED BY <1>1, <1>2, <1>3, <1>4, <1>5, <1>6 DEF Ticket!ChatNext, Ticket!MemoryNext

\* And so every step.
LEMMA EveryStateStep ==
  ASSUME [ConversationsNext]_conversationVars
  PROVE  StateStep
BY SessionStateStep, TicketStateStep DEF ConversationsNext, conversationVars, stateVars, StateStep

\* A turn takes the state forward.
LEMMA TurnAdvances ==
  ASSUME NEW c \in States, NEW responded \in BOOLEAN, NEW actionable \in BOOLEAN,
         NEW satisfied \in BOOLEAN
  PROVE  LET d == ApplyTurn(c, responded, actionable, satisfied) IN
         d \in States /\ d.stage >= c.stage /\ d.turns >= c.turns
<1> DEFINE counted == [c EXCEPT !.turns = IF @ < MaxCount THEN @ + 1 ELSE MaxCount]
           advanced == AdvanceStage(counted, responded, actionable, satisfied)
<1>1. /\ counted \in States /\ counted.stage = c.stage /\ counted.turns >= c.turns
  BY DEF States, MaxCount, Opening, Closing
<1> HIDE DEF counted
<1>2. advanced \in Opening..Closing /\ advanced >= counted.stage
  BY <1>1 DEF AdvanceStage, States, Opening, Gathering, Investigating, Resolving, Closing
<1> HIDE DEF advanced
<1>3. [counted EXCEPT !.stage = advanced] \in States
  BY <1>1, <1>2 DEF States
<1>4. ApplyTurn(c, responded, actionable, satisfied) = [counted EXCEPT !.stage = advanced]
  BY DEF ApplyTurn, counted, advanced
<1> QED BY <1>1, <1>2, <1>3, <1>4 DEF States, Opening, Closing

\* The state of a key that does not exist.
LEMMA FreshTyped == Fresh \in States /\ NoUpdate.at = "none" /\ NoUpdate.state \in States
BY DEF Fresh, States, NoUpdate, Opening, Closing, MaxCount

\* The state keeps its type.
LEMMA StateTypes ==
  ASSUME StateTypeOK, StateStep, troubles' \in 0..MaxTroubles
  PROVE  StateTypeOK'
<1> DEFINE Updates == [at : {"none", "read", "write"}, state : States]
<1>1. CASE UNCHANGED stateVars
  BY <1>1 DEF StateTypeOK, stateVars
<1>2. ASSUME NEW p \in Requests, ReadState(p)
      PROVE  StateTypeOK'
  BY <1>2, FreshTyped DEF ReadState, StateTypeOK
<1>3. ASSUME NEW p \in Requests, NEW responded \in BOOLEAN, WriteState(p, responded)
      PROVE  StateTypeOK'
  <2>1. NoUpdate \in Updates
    BY FreshTyped DEF NoUpdate
  <2>2. update' \in [Requests -> Updates] /\ behind' \in SUBSET Requests
    BY <1>3, <2>1 DEF WriteState, StateTypeOK
  <2>3. conv' \in States
    BY <1>3, TurnAdvances DEF WriteState, StateTypeOK
  <2> QED BY <2>2, <2>3 DEF StateTypeOK
<1>4. ASSUME NEW p \in Requests, DropUpdate(p)
      PROVE  StateTypeOK'
  <2>1. NoUpdate \in Updates
    BY FreshTyped DEF NoUpdate
  <2> QED BY <1>4, <2>1 DEF DropUpdate, StateTypeOK
<1>5. ASSUME NEW p \in Requests,
             update' = [update EXCEPT ![p].at = "read"] /\ UNCHANGED <<conv, behind>>
      PROVE  StateTypeOK'
  BY <1>5 DEF StateTypeOK
<1>6. CASE ExpireState
  BY <1>6, FreshTyped DEF ExpireState, StateTypeOK
<1> QED BY <1>1, <1>2, <1>3, <1>4, <1>5, <1>6 DEF StateStep

\* Who reads is not behind; who writes leaves the other readers behind.
LEMMA StateKeeps ==
  ASSUME StateTypeOK, StateInv, StateStep
  PROVE  StateInv'
<1>1. CASE UNCHANGED stateVars
  BY <1>1 DEF StateInv, stateVars
<1>2. ASSUME NEW p \in Requests, ReadState(p)
      PROVE  StateInv'
  BY <1>2 DEF ReadState, StateTypeOK, StateInv
<1>3. ASSUME NEW p \in Requests, NEW responded \in BOOLEAN, WriteState(p, responded)
      PROVE  StateInv'
  <2>1. /\ update'[p].at = "none"
        /\ \A q \in Requests \ {p} : update'[q] = update[q]
    BY <1>3, FreshTyped DEF WriteState, StateTypeOK
  <2>2. \/ behind' = {q \in Requests \ {p} : update[q].at = "write"}
        \/ behind' = behind \ {p} /\ conv' = conv
    BY <1>3 DEF WriteState
  <2> QED BY <2>1, <2>2 DEF StateInv
<1>4. ASSUME NEW p \in Requests, DropUpdate(p)
      PROVE  StateInv'
  BY <1>4, FreshTyped DEF DropUpdate, StateTypeOK, StateInv
<1>5. ASSUME NEW p \in Requests,
             update' = [update EXCEPT ![p].at = "read"] /\ UNCHANGED <<conv, behind>>
      PROVE  StateInv'
  BY <1>5 DEF StateTypeOK, StateInv
<1>6. CASE ExpireState
  BY <1>6 DEF ExpireState, StateInv
<1> QED BY <1>1, <1>2, <1>3, <1>4, <1>5, <1>6 DEF StateStep

\* What StageAdvances says of a step.
Advances ==
  \/ conv'.stage >= conv.stage /\ conv'.turns >= conv.turns
  \/ conv' = Fresh
  \/ \E p \in behind : update[p].at = "write" /\ update'[p].at = "none"

\* Only an update that is behind takes the state back.
LEMMA StepAdvances ==
  ASSUME StateTypeOK, StateInv, StateStep
  PROVE  Advances
<1>1. conv' = conv => Advances
  BY DEF Advances, StateTypeOK, States, Opening, Closing, MaxCount
<1>2. CASE ExpireState
  BY <1>2 DEF ExpireState, Advances
<1>3. ASSUME NEW p \in Requests, NEW responded \in BOOLEAN, WriteState(p, responded),
             conv' # conv
      PROVE  Advances
  <2>1. update[p].at = "write" /\ update[p].state \in States
    BY <1>3 DEF WriteState, StateTypeOK
  <2>2. update'[p].at = "none"
    BY <1>3, FreshTyped DEF WriteState, StateTypeOK
  <2>3. CASE p \in behind
    BY <2>1, <2>2, <2>3 DEF Advances
  <2>4. CASE p \notin behind
    <3>1. update[p].state = conv \/ conv = Fresh
      BY <2>1, <2>4 DEF StateInv
    <3>2. PICK actionable \in BOOLEAN, satisfied \in BOOLEAN :
            conv' = ApplyTurn(update[p].state, responded, actionable, satisfied)
      BY <1>3 DEF WriteState
    <3>3. /\ conv' \in States
          /\ conv'.stage >= update[p].state.stage /\ conv'.turns >= update[p].state.turns
      BY <2>1, <3>2, TurnAdvances
    <3>4. CASE update[p].state = conv
      BY <3>3, <3>4 DEF Advances
    <3>5. CASE conv = Fresh
      BY <3>3, <3>5 DEF Advances, States, Fresh, Opening, Closing, MaxCount
    <3> QED BY <3>1, <3>4, <3>5
  <2> QED BY <2>3, <2>4
<1> QED BY <1>1, <1>2, <1>3 DEF StateStep, ReadState, DropUpdate, stateVars
-----------------------------------------------------------------------------
(* The rate limiter.                                                       *)

\* FiniteSets is instantiated with RateLimiter: its Cardinality is the same.
LEMMA SameCardinality == \A S : Limiter!Cardinality(S) = Cardinality(S)
BY DEF Limiter!Cardinality, Cardinality

\* While turns of the other parts are numbered, the limiter stays as it was.
LEMMA LimiterLater ==
  ASSUME Limiter!LimiterTypeOK, UNCHANGED limiterOnly, last' \in last..MaxTurns
  PROVE  Limiter!LimiterTypeOK'
<1>1. last \in 0..MaxTurns /\ last' \in 0..MaxTurns /\ 0..last \subseteq 0..last'
      /\ 1..last \subseteq 1..last'
  BY DEF Limiter!LimiterTypeOK
<1>2. old' \in 0..last'
  BY <1>1 DEF Limiter!LimiterTypeOK, limiterOnly
<1>3. window' \in [Limiter!Keys -> SUBSET (1..last')]
  BY <1>1 DEF Limiter!LimiterTypeOK, limiterOnly
<1>4. check' \in [Requests -> [at : {"idle", "count", "record"}, key : Limiter!Keys,
                               ip : Limiter!Keys, entry : 0..last', since : 0..last']]
  BY <1>1 DEF Limiter!LimiterTypeOK, limiterOnly
<1> QED BY <1>1, <1>2, <1>3, <1>4 DEF Limiter!LimiterTypeOK

\* A request that is not being checked.
LEMMA IdleCheck ==
  ASSUME Limiter!LimiterTypeOK
  PROVE  Limiter!Idle \in [at : {"idle", "count", "record"}, key : Limiter!Keys,
                           ip : Limiter!Keys, entry : 0..last, since : 0..last]
<1>1. 0 \in 0..last /\ OrgKey \in Limiter!Keys
  BY DEF Limiter!LimiterTypeOK, Limiter!Keys
<1> QED BY <1>1 DEF Limiter!Idle

\* The limiter keeps its types.
LEMMA LimiterTypes ==
  ASSUME Limiter!LimiterTypeOK, LimiterInv, Limiter!LimiterNext
  PROVE  Limiter!LimiterTypeOK'
<1> DEFINE Checks == [at : {"idle", "count", "record"}, key : Limiter!Keys, ip : Limiter!Keys,
                      entry : 0..last, since : 0..last]
<1>1. /\ last \in 0..MaxTurns /\ old \in 0..last
      /\ window \in [Limiter!Keys -> SUBSET (1..last)] /\ check \in [Requests -> Checks]
  BY DEF Limiter!LimiterTypeOK
<1>2. Limiter!Idle \in Checks
  BY IdleCheck
<1>3. ASSUME NEW p \in Requests, NEW ip \in Addresses, Limiter!Arrive(p, ip)
      PROVE  Limiter!LimiterTypeOK'
  <2> DEFINE Later == [at : {"idle", "count", "record"}, key : Limiter!Keys, ip : Limiter!Keys,
                       entry : 0..last', since : 0..last']
             arrived == [at |-> "count", key |-> OrgKey, ip |-> ip, entry |-> last', since |-> old]
  <2>1. /\ last' = last + 1 /\ last' \in 0..MaxTurns
        /\ 0..last \subseteq 0..last' /\ 1..last \subseteq 1..last' /\ last' \in 0..last'
    BY <1>1, <1>3, ConversationsAssumption DEF Limiter!Arrive
  <2>2. OrgKey \in Limiter!Keys /\ ip \in Limiter!Keys
    BY DEF Limiter!Keys
  <2>3. arrived \in Later
    BY <1>1, <2>1, <2>2
  <2>4. check \in [Requests -> Later]
    BY <1>1, <2>1
  <2>5. check' = [check EXCEPT ![p] = arrived]
    BY <1>3 DEF Limiter!Arrive
  <2>6. check' \in [Requests -> Later]
    BY <2>3, <2>4, <2>5
  <2>7. old' \in 0..last' /\ window' \in [Limiter!Keys -> SUBSET (1..last')]
    BY <1>1, <1>3, <2>1 DEF Limiter!Arrive
  <2> QED BY <2>1, <2>6, <2>7 DEF Limiter!LimiterTypeOK
<1>4. ASSUME NEW p \in Requests, Limiter!Count(p)
      PROVE  Limiter!LimiterTypeOK'
  <2>1. check[p].key \in Limiter!Keys
    BY <1>1
  <2>2. Limiter!InWindow(p) \subseteq 1..last
    BY <1>1, <2>1 DEF Limiter!InWindow
  <2>3. window' \in [Limiter!Keys -> SUBSET (1..last)] /\ last' = last /\ old' = old
    BY <1>1, <1>4, <2>1, <2>2 DEF Limiter!Count
  <2>4. check' = [check EXCEPT ![p] = Limiter!Idle] \/ check' = [check EXCEPT ![p].at = "record"]
    BY <1>4 DEF Limiter!Count, Limiter!Leave
  <2>5. check' \in [Requests -> Checks]
    BY <1>1, <1>2, <2>4
  <2> QED BY <1>1, <2>3, <2>5 DEF Limiter!LimiterTypeOK
<1>5. ASSUME NEW p \in Requests, Limiter!Record(p)
      PROVE  Limiter!LimiterTypeOK'
  <2>1. check[p].key \in Limiter!Keys /\ check[p].entry \in 1..last /\ check[p].ip \in Limiter!Keys
    BY <1>1, <1>5 DEF Limiter!Record, LimiterInv
  <2>2. last' = last /\ old' = old
    BY <1>5 DEF Limiter!Record
  <2>3. check' \in [Requests -> Checks]
    <3>1. CASE check[p].key = OrgKey
      <4>1. check' = [check EXCEPT ![p] = [check[p] EXCEPT !.at = "count", !.key = check[p].ip]]
        BY <1>1, <1>5, <3>1 DEF Limiter!Record
      <4>2. [check[p] EXCEPT !.at = "count", !.key = check[p].ip] \in Checks
        BY <1>1, <2>1
      <4> QED BY <1>1, <4>1, <4>2
    <3>2. CASE check[p].key # OrgKey
      BY <1>1, <1>2, <1>5, <3>2 DEF Limiter!Record, Limiter!Leave
    <3> QED BY <3>1, <3>2
  <2>4. window' \in [Limiter!Keys -> SUBSET (1..last)]
    BY <1>1, <1>5, <2>1 DEF Limiter!Record
  <2> QED BY <1>1, <2>2, <2>3, <2>4 DEF Limiter!LimiterTypeOK
<1>6. ASSUME NEW p \in Requests, Limiter!FailOpen(p)
      PROVE  Limiter!LimiterTypeOK'
  <2>1. check' \in [Requests -> Checks]
    BY <1>1, <1>2, <1>6 DEF Limiter!FailOpen, Limiter!Leave
  <2> QED BY <1>1, <1>6, <2>1 DEF Limiter!FailOpen, Limiter!LimiterTypeOK
<1>7. CASE Limiter!Age
  BY <1>1, <1>7 DEF Limiter!Age, Limiter!LimiterTypeOK
<1> QED BY <1>3, <1>4, <1>5, <1>6, <1>7 DEF Limiter!LimiterNext

\* Windows and requests are finite, and their sizes numbers.
LEMMA Sizes ==
  ASSUME Limiter!LimiterTypeOK, NEW k \in Limiter!Keys
  PROVE  /\ IsFiniteSet(Counted(k)) /\ IsFiniteSet(Passing(k)) /\ IsFiniteSet(window[k])
         /\ Cardinality(Counted(k)) \in Nat /\ Cardinality(Passing(k)) \in Nat
         /\ Cardinality(Requests) \in Nat
         /\ Cardinality(Passing(k)) <= Cardinality(Requests)
<1>1. IsFiniteSet(1..last)
  BY FS_Interval DEF Limiter!LimiterTypeOK
<1>2. IsFiniteSet(window[k])
  BY <1>1, FS_Subset DEF Limiter!LimiterTypeOK
<1>3. IsFiniteSet(Counted(k))
  BY <1>2, FS_Subset DEF Counted
<1>4. Passing(k) \subseteq Requests
  BY DEF Passing
<1> QED BY <1>2, <1>3, <1>4, FS_Subset, FS_CardinalityType, ConversationsAssumption

\* The bound of one key holds on if the entries that count and the requests that pass only
\* become fewer.
LEMMA FewerHold ==
  ASSUME Limiter!LimiterTypeOK, Limiter!LimiterTypeOK', LimiterInv, NEW k \in Limiter!Keys,
         Counted(k)' \subseteq Counted(k), Passing(k)' \subseteq Passing(k)
  PROVE  Cardinality(Counted(k)') + Cardinality(Passing(k)')
           < Limiter!LimitOf(k) + Cardinality(Requests)
<1>1. /\ Cardinality(Counted(k)') <= Cardinality(Counted(k))
      /\ Cardinality(Passing(k)') <= Cardinality(Passing(k))
  BY Sizes, FS_Subset
<1>2. Cardinality(Counted(k)') \in Nat /\ Cardinality(Passing(k)') \in Nat
  BY Sizes, FS_Subset, FS_CardinalityType
<1>3. Limiter!LimitOf(k) \in Nat
  BY ConversationsAssumption DEF Limiter!LimitOf
<1>4. Cardinality(Counted(k)) + Cardinality(Passing(k))
        < Limiter!LimitOf(k) + Cardinality(Requests)
  BY DEF LimiterInv
<1> QED BY <1>1, <1>2, <1>3, <1>4, Sizes

\* A request that passes the count found room for itself and all that are about to record.
LEMMA LimiterKeeps ==
  ASSUME Limiter!LimiterTypeOK, Limiter!LimiterTypeOK', LimiterInv, Limiter!LimiterNext
  PROVE  LimiterInv'
<1>1. /\ last \in Nat /\ old \in 0..last
      /\ window \in [Limiter!Keys -> SUBSET (1..last)]
      /\ check \in [Requests -> [at : {"idle", "count", "record"}, key : Limiter!Keys,
                                 ip : Limiter!Keys, entry : 0..last, since : 0..last]]
  BY DEF Limiter!LimiterTypeOK
<1>2. Limiter!Idle.at = "idle" /\ Limiter!Idle.since = 0
  BY DEF Limiter!Idle
<1> DEFINE Since(p) == check[p].since <= old /\ (check[p].at # "idle" => check[p].entry # 0)
           Bound(k) == Cardinality(Counted(k)) + Cardinality(Passing(k))
                         < Limiter!LimitOf(k) + Cardinality(Requests)
<1>3. /\ \A p \in Requests : Since(p)
      /\ \A k \in Limiter!Keys : Bound(k)
  BY DEF LimiterInv
<1>4. ASSUME \A p \in Requests : Since(p)', \A k \in Limiter!Keys : Bound(k)'
      PROVE  LimiterInv'
  BY <1>4 DEF LimiterInv
<1>5. ASSUME NEW k \in Limiter!Keys,
             Counted(k)' \subseteq Counted(k), Passing(k)' \subseteq Passing(k)
      PROVE  Bound(k)'
  BY <1>5, FewerHold
<1>6. ASSUME NEW p \in Requests, NEW ip \in Addresses, Limiter!Arrive(p, ip)
      PROVE  LimiterInv'
  <2>1. /\ check' = [check EXCEPT ![p] =
              [at |-> "count", key |-> OrgKey, ip |-> ip, entry |-> last + 1, since |-> old]]
        /\ UNCHANGED <<old, window>>
    BY <1>6 DEF Limiter!Arrive
  <2>2. \A q \in Requests : Since(q)'
    BY <1>1, <1>3, <2>1
  <2>3. \A k \in Limiter!Keys : Counted(k)' = Counted(k) /\ Passing(k)' \subseteq Passing(k)
    BY <1>1, <2>1 DEF Counted, Passing
  <2> QED BY <1>4, <1>5, <2>2, <2>3
<1>7. ASSUME NEW p \in Requests, Limiter!FailOpen(p)
      PROVE  LimiterInv'
  <2>1. check' = [check EXCEPT ![p] = Limiter!Idle] /\ UNCHANGED <<old, window>>
    BY <1>7 DEF Limiter!FailOpen, Limiter!Leave
  <2>2. \A q \in Requests : Since(q)'
    BY <1>1, <1>2, <1>3, <2>1
  <2>3. \A k \in Limiter!Keys : Counted(k)' = Counted(k) /\ Passing(k)' \subseteq Passing(k)
    BY <1>1, <1>2, <2>1 DEF Counted, Passing
  <2> QED BY <1>4, <1>5, <2>2, <2>3
<1>8. CASE Limiter!Age
  <2>1. old' = old + 1 /\ UNCHANGED <<window, check>>
    BY <1>8 DEF Limiter!Age
  <2>2. \A q \in Requests : Since(q)'
    BY <1>1, <1>3, <2>1
  <2>3. \A k \in Limiter!Keys : Counted(k)' \subseteq Counted(k) /\ Passing(k)' = Passing(k)
    BY <1>1, <2>1 DEF Counted, Passing
  <2> QED BY <1>4, <1>5, <2>2, <2>3
<1>9. ASSUME NEW p \in Requests, Limiter!Count(p)
      PROVE  LimiterInv'
  <2>a. PICK key \in Limiter!Keys : key = check[p].key
    BY <1>1
  <2> DEFINE refused == Cardinality(Limiter!InWindow(p)) >= Limiter!LimitOf(key)
  <2>b. IF refused THEN check' = [check EXCEPT ![p] = Limiter!Idle]
                   ELSE check' = [check EXCEPT ![p].at = "record"]
    BY <1>9, <2>a, SameCardinality DEF Limiter!Count, Limiter!Leave
  <2> HIDE DEF refused
  <2>1. /\ key = check[p].key /\ old' = old
        /\ window' = [window EXCEPT ![key] = Limiter!InWindow(p)]
        /\ refused => check' = [check EXCEPT ![p] = Limiter!Idle]
        /\ ~refused => check' = [check EXCEPT ![p].at = "record"]
        /\ check[p].at = "count"
    BY <1>9, <2>a, <2>b DEF Limiter!Count
  <2>2. \A q \in Requests : Since(q)'
    BY <1>1, <1>2, <1>3, <2>1
  <2>3. \A k \in Limiter!Keys : Counted(k)' = Counted(k)
    BY <1>1, <1>3, <2>1 DEF Counted, Limiter!InWindow
  <2>4. \A k \in Limiter!Keys \ {key} : Passing(k)' = Passing(k)
    BY <1>1, <1>2, <2>1 DEF Passing
  <2>5. CASE refused
    <3>1. Passing(key)' \subseteq Passing(key)
      BY <1>1, <1>2, <2>1, <2>5 DEF Passing
    <3> QED BY <1>4, <1>5, <2>1, <2>2, <2>3, <2>4, <3>1
  <2>6. CASE ~refused
    <3>1. Counted(key) \subseteq Limiter!InWindow(p)
      BY <1>1, <1>3, <2>1 DEF Counted, Limiter!InWindow
    <3>2. /\ IsFiniteSet(Limiter!InWindow(p)) /\ Cardinality(Limiter!InWindow(p)) \in Nat
          /\ Cardinality(Counted(key)) <= Cardinality(Limiter!InWindow(p))
      BY <2>1, <3>1, Sizes, FS_Subset, FS_CardinalityType DEF Limiter!InWindow
    <3>3. Limiter!LimitOf(key) \in Nat
      BY ConversationsAssumption DEF Limiter!LimitOf
    <3>4. Cardinality(Counted(key)) < Limiter!LimitOf(key)
      BY <2>1, <2>6, <3>2, <3>3, Sizes DEF refused
    <3>5. /\ Passing(key)' \subseteq Requests
          /\ Cardinality(Passing(key)') \in Nat
          /\ Cardinality(Passing(key)') <= Cardinality(Requests)
      <4>1. Passing(key)' \subseteq Requests
        BY DEF Passing
      <4> QED BY <4>1, FS_Subset, FS_CardinalityType, ConversationsAssumption
    <3>6. Cardinality(Counted(key)') = Cardinality(Counted(key))
      BY <2>1, <2>3
    <3>7. Bound(key)'
      BY <2>1, <3>3, <3>4, <3>5, <3>6, Sizes
    <3> QED BY <1>4, <1>5, <2>2, <2>3, <2>4, <3>7
  <2> QED BY <2>5, <2>6
<1>10. ASSUME NEW p \in Requests, Limiter!Record(p)
       PROVE  LimiterInv'
  <2>a. PICK key \in Limiter!Keys : key = check[p].key
    BY <1>1
  <2>b. key = OrgKey =>
          check' = [check EXCEPT ![p] = [check[p] EXCEPT !.at = "count", !.key = check[p].ip]]
    BY <1>1, <1>10, <2>a DEF Limiter!Record
  <2>1. /\ key = check[p].key /\ old' = old
        /\ window' = [window EXCEPT ![key] = window[key] \cup {check[p].entry}]
        /\ key # OrgKey => check' = [check EXCEPT ![p] = Limiter!Idle]
        /\ check[p].at = "record"
    BY <1>1, <1>10, <2>a DEF Limiter!Record, Limiter!Leave
  <2>c. /\ \A q \in Requests \ {p} : check'[q] = check[q]
        /\ check'[p].at # "record"
        /\ \/ check'[p] = Limiter!Idle
           \/ check'[p].since = check[p].since /\ check'[p].entry = check[p].entry
    <3>1. CASE key = OrgKey
      BY <1>1, <2>b, <3>1
    <3>2. CASE key # OrgKey
      BY <1>1, <1>2, <2>1, <3>2
    <3> QED BY <3>1, <3>2
  <2>2. \A q \in Requests : Since(q)'
    BY <1>1, <1>2, <1>3, <2>1, <2>c
  <2>3. \A k \in Limiter!Keys \ {key} : Counted(k)' = Counted(k) /\ Passing(k)' = Passing(k)
    BY <1>1, <2>1, <2>c DEF Counted, Passing
  <2>4. Counted(key)' \subseteq Counted(key) \cup {check[p].entry}
    BY <1>1, <2>1 DEF Counted
  <2>5. p \in Passing(key) /\ Passing(key)' = Passing(key) \ {p}
    BY <1>1, <2>1, <2>c DEF Passing
  <2>6. /\ IsFiniteSet(Counted(key) \cup {check[p].entry})
        /\ Cardinality(Counted(key) \cup {check[p].entry}) <= Cardinality(Counted(key)) + 1
        /\ Cardinality(Counted(key) \cup {check[p].entry}) \in Nat
    <3>1. IsFiniteSet(Counted(key)) /\ Cardinality(Counted(key)) \in Nat
      BY Sizes
    <3>2. /\ IsFiniteSet(Counted(key) \cup {check[p].entry})
          /\ Cardinality(Counted(key) \cup {check[p].entry})
               = IF check[p].entry \in Counted(key) THEN Cardinality(Counted(key))
                 ELSE Cardinality(Counted(key)) + 1
      BY <3>1, FS_AddElement, Zenon
    <3> QED BY <3>1, <3>2
  <2>7. /\ Cardinality(Counted(key)') \in Nat
        /\ Cardinality(Counted(key)') <= Cardinality(Counted(key)) + 1
    <3>1. IsFiniteSet(Counted(key)')
      BY <2>4, <2>6, FS_Subset
    <3>2. Cardinality(Counted(key)') <= Cardinality(Counted(key) \cup {check[p].entry})
      BY <2>4, <2>6, FS_Subset
    <3>3. Cardinality(Counted(key)') \in Nat /\ Cardinality(Counted(key)) \in Nat
      BY <2>1, <3>1, Sizes, FS_CardinalityType
    <3> QED BY <2>6, <3>2, <3>3
  <2>8. Cardinality(Passing(key)') = Cardinality(Passing(key)) - 1
    BY <2>1, <2>5, Sizes, FS_RemoveElement
  <2>9. Limiter!LimitOf(key) \in Nat
    BY ConversationsAssumption DEF Limiter!LimitOf
  <2>10. Bound(key)'
    BY <1>3, <2>1, <2>7, <2>8, <2>9, Sizes
  <2> QED BY <1>4, <1>5, <2>2, <2>3, <2>10
<1> QED BY <1>6, <1>7, <1>8, <1>9, <1>10 DEF Limiter!LimiterNext
-----------------------------------------------------------------------------
(* The memory of a ticket.                                                 *)

\* What a list tells, after a message and of its parts.
LEMMA ToldAppend ==
  ASSUME NEW s \in Seq(Ticket!Entries), NEW e \in Ticket!Entries
  PROVE  /\ Append(s, e) \in Seq(Ticket!Entries)
         /\ Ticket!Told(s) \cup e.tells \subseteq Ticket!Told(Append(s, e))
<1>1. /\ Append(s, e) \in Seq(Ticket!Entries) /\ Len(Append(s, e)) = Len(s) + 1
      /\ \A i \in 1..Len(s) : Append(s, e)[i] = s[i]
      /\ Append(s, e)[Len(s) + 1] = e
      /\ Len(s) \in Nat /\ DOMAIN s = 1..Len(s) /\ DOMAIN Append(s, e) = 1..Len(s) + 1
  OBVIOUS
<1>2. ASSUME NEW m \in Ticket!Told(s)
      PROVE  m \in Ticket!Told(Append(s, e))
  <2>1. PICK i \in 1..Len(s) : m \in s[i].tells
    BY <1>1, <1>2 DEF Ticket!Told
  <2> QED BY <1>1, <2>1 DEF Ticket!Told
<1>3. e.tells \subseteq Ticket!Told(Append(s, e))
  BY <1>1 DEF Ticket!Told
<1> QED BY <1>1, <1>2, <1>3

\* Cutting a list in two: every entry is in one of the parts.
LEMMA Parted ==
  ASSUME NEW s \in Seq(Ticket!Entries)
  PROVE  /\ Ticket!Older(s) \in Seq(Ticket!Entries) /\ Ticket!Recent(s) \in Seq(Ticket!Entries)
         /\ \A i \in 1..Len(s) :
              \/ \E j \in 1..Len(Ticket!Older(s)) : Ticket!Older(s)[j] = s[i]
              \/ \E j \in 1..Len(Ticket!Recent(s)) : Ticket!Recent(s)[j] = s[i]
<1>1. Keep \in Nat \ {0} /\ Len(s) \in Nat
  BY ConversationsAssumption
<1>2. CASE Len(s) > Keep
  <2>1. Ticket!Older(s) = SubSeq(s, 1, Len(s) - Keep)
        /\ Ticket!Recent(s) = SubSeq(s, Len(s) - Keep + 1, Len(s))
    BY <1>2 DEF Ticket!Older, Ticket!Recent
  <2>2. /\ SubSeq(s, 1, Len(s) - Keep) \in Seq(Ticket!Entries)
        /\ Len(SubSeq(s, 1, Len(s) - Keep)) = Len(s) - Keep
        /\ \A j \in 1..Len(s) - Keep : SubSeq(s, 1, Len(s) - Keep)[j] = s[j]
    BY <1>1, <1>2
  <2>3. /\ SubSeq(s, Len(s) - Keep + 1, Len(s)) \in Seq(Ticket!Entries)
        /\ Len(SubSeq(s, Len(s) - Keep + 1, Len(s))) = Keep
        /\ \A j \in 1..Keep : SubSeq(s, Len(s) - Keep + 1, Len(s))[j] = s[Len(s) - Keep + j]
    BY <1>1, <1>2
  <2>4. ASSUME NEW i \in 1..Len(s)
        PROVE  \/ \E j \in 1..Len(Ticket!Older(s)) : Ticket!Older(s)[j] = s[i]
               \/ \E j \in 1..Len(Ticket!Recent(s)) : Ticket!Recent(s)[j] = s[i]
    <3>1. CASE i <= Len(s) - Keep
      <4>1. i \in 1..Len(s) - Keep
        BY <1>1, <3>1
      <4> QED BY <2>1, <2>2, <4>1
    <3>2. CASE ~(i <= Len(s) - Keep)
      <4>1. i - (Len(s) - Keep) \in 1..Keep /\ Len(s) - Keep + (i - (Len(s) - Keep)) = i
        BY <1>1, <1>2, <3>2
      <4> QED BY <2>1, <2>3, <4>1
    <3> QED BY <3>1, <3>2
  <2> QED BY <2>1, <2>2, <2>3, <2>4
<1>3. CASE ~(Len(s) > Keep)
  BY <1>3 DEF Ticket!Older, Ticket!Recent
<1> QED BY <1>2, <1>3

\* A list that is replaced tells what it told, but for what earlier summaries did.
LEMMA ToldReplaced ==
  ASSUME NEW s \in Seq(Ticket!Entries), NEW summary \in Ticket!Entries,
         summary.tells = Ticket!ToldBy({"user", "assistant"}, Ticket!Older(s))
  PROVE  /\ <<summary>> \o Ticket!Recent(s) \in Seq(Ticket!Entries)
         /\ Ticket!Told(s) \subseteq
              Ticket!Told(<<summary>> \o Ticket!Recent(s))
                \cup Ticket!ToldBy({"system"}, Ticket!Older(s))
<1> DEFINE older == Ticket!Older(s)
           recent == Ticket!Recent(s)
           new == <<summary>> \o recent
<1>1. /\ older \in Seq(Ticket!Entries) /\ recent \in Seq(Ticket!Entries)
      /\ \A i \in 1..Len(s) : \/ \E j \in 1..Len(older) : older[j] = s[i]
                              \/ \E j \in 1..Len(recent) : recent[j] = s[i]
  BY Parted
<1> HIDE DEF older, recent
<1>2. /\ new \in Seq(Ticket!Entries) /\ DOMAIN new = 1..Len(recent) + 1
      /\ new[1] = summary
      /\ \A j \in 1..Len(recent) : new[j + 1] = recent[j]
  BY <1>1
<1> HIDE DEF new
<1>3. ASSUME NEW m \in Ticket!Told(s)
      PROVE  m \in Ticket!Told(new) \cup Ticket!ToldBy({"system"}, older)
  <2>1. PICK i \in 1..Len(s) : m \in s[i].tells
    BY <1>3 DEF Ticket!Told
  <2>2. ASSUME NEW j \in 1..Len(older), older[j] = s[i]
        PROVE  m \in Ticket!Told(new) \cup Ticket!ToldBy({"system"}, older)
    <3>1. older[j].role \in {"user", "assistant", "system"}
      <4>1. older[j] \in Ticket!Entries
        BY <1>1
      <4> QED BY <4>1 DEF Ticket!Entries
    <3>2. CASE older[j].role = "system"
      BY <1>1, <2>1, <2>2, <3>2 DEF Ticket!ToldBy
    <3>3. CASE older[j].role \in {"user", "assistant"}
      <4>1. m \in Ticket!ToldBy({"user", "assistant"}, older)
        BY <1>1, <2>1, <2>2, <3>3 DEF Ticket!ToldBy
      <4>2. m \in summary.tells /\ 1 \in DOMAIN new
        BY <1>1, <1>2, <4>1 DEF older
      <4> QED BY <1>2, <4>2 DEF Ticket!Told
    <3> QED BY <3>1, <3>2, <3>3
  <2>3. ASSUME NEW j \in 1..Len(recent), recent[j] = s[i]
        PROVE  m \in Ticket!Told(new)
    <3>1. new[j + 1] = s[i] /\ j + 1 \in DOMAIN new
      BY <1>1, <1>2, <2>3
    <3> QED BY <2>1, <3>1 DEF Ticket!Told
  <2> QED BY <1>1, <2>2, <2>3
<1> QED BY <1>2, <1>3 DEF older, recent, new

\* What the summary of p does to the memory.
LEMMA Replaces ==
  ASSUME NEW p \in Requests, talk[p].list \in Seq(Ticket!Entries),
         forgotten \in SUBSET Ticket!Messages, Ticket!Replace(p)
  PROVE  /\ memory' \in Seq(Ticket!Entries) /\ forgotten' \in SUBSET Ticket!Messages
         /\ forgotten \subseteq forgotten'
         /\ Ticket!Told(talk[p].list) \subseteq Ticket!Told(memory') \cup forgotten'
<1> DEFINE older == Ticket!Older(talk[p].list)
           told(roles) == Ticket!ToldBy(roles, older)
           summary == [role |-> "system", tells |-> told({"user", "assistant"})]
<1>1. /\ memory' = <<summary>> \o Ticket!Recent(talk[p].list)
      /\ forgotten' = forgotten \cup told({"system"})
  BY DEF Ticket!Replace
<1>2. older \in Seq(Ticket!Entries)
  BY Parted
<1>3. ASSUME NEW roles PROVE told(roles) \subseteq Ticket!Messages
  <2>1. ASSUME NEW i \in DOMAIN older
        PROVE  older[i].tells \subseteq Ticket!Messages
    <3>1. older[i] \in Ticket!Entries
      BY <1>2
    <3> QED BY <3>1 DEF Ticket!Entries
  <2> QED BY <2>1 DEF Ticket!ToldBy
<1>4. summary \in Ticket!Entries
  BY <1>3 DEF Ticket!Entries
<1>5. /\ <<summary>> \o Ticket!Recent(talk[p].list) \in Seq(Ticket!Entries)
      /\ Ticket!Told(talk[p].list) \subseteq
           Ticket!Told(<<summary>> \o Ticket!Recent(talk[p].list)) \cup told({"system"})
  BY <1>4, ToldReplaced
<1> QED BY <1>1, <1>3, <1>5

\* Streamed turns keep the types of the memory.
LEMMA MemoryTypes ==
  ASSUME Ticket!MemoryTypeOK, MemoryInv, Ticket!MemoryNext
  PROVE  Ticket!MemoryTypeOK' /\ last' \in last..MaxTurns
<1>1. /\ last \in 0..MaxTurns /\ MaxTurns \in Nat
      /\ memory \in Seq(Ticket!Entries) /\ talk \in [Requests -> Ticket!Talks]
      /\ heard \in SUBSET Ticket!Messages /\ raced \in SUBSET Ticket!Messages
      /\ forgotten \in SUBSET Ticket!Messages
  BY ConversationsAssumption DEF Ticket!MemoryTypeOK
<1>2. Ticket!Idle \in Ticket!Talks /\ <<>> \in Seq(Ticket!Entries)
  BY <1>1 DEF Ticket!Idle, Ticket!Talks
<1>3. ASSUME NEW p \in Requests,
             NEW step \in {"idle", "state", "user", "assistant", "measure", "read", "replace"}
      PROVE  [talk EXCEPT ![p].at = step] \in [Requests -> Ticket!Talks]
  BY <1>1 DEF Ticket!Talks
<1>4. ASSUME NEW p \in Requests, Ticket!Stream(p)
      PROVE  Ticket!MemoryTypeOK' /\ last' \in last..MaxTurns
  <2>1. last' = last + 1 /\ last' \in 0..MaxTurns /\ last' \in last..MaxTurns
    BY <1>1, <1>4 DEF Ticket!Stream
  <2>2. talk' \in [Requests -> Ticket!Talks]
    BY <1>1, <1>4, <2>1 DEF Ticket!Stream, Ticket!Talks
  <2> QED BY <1>1, <1>4, <2>1, <2>2 DEF Ticket!Stream, Ticket!MemoryTypeOK
<1>5. ASSUME NEW p \in Requests, Ticket!AddMessage(p)
      PROVE  Ticket!MemoryTypeOK' /\ last' \in last..MaxTurns
  <2>1. talk[p].at \in {"user", "assistant"} /\ talk[p].turn \in 1..MaxTurns
    <3>1. talk[p].turn \in 0..MaxTurns
      BY <1>1 DEF Ticket!Talks
    <3> QED BY <1>5, <3>1 DEF Ticket!AddMessage, MemoryInv
  <2>2. PICK m : /\ m = IF talk[p].at = "user" THEN 2 * talk[p].turn - 1 ELSE 2 * talk[p].turn
                 /\ memory' = Append(memory, [role |-> talk[p].at, tells |-> {m}])
                 /\ heard' = heard \cup {m}
                 /\ raced' = raced \/ raced' = raced \cup {m}
    BY <1>5 DEF Ticket!AddMessage
  <2>3. m \in Ticket!Messages
    BY <1>1, <2>1, <2>2 DEF Ticket!Messages
  <2>4. [role |-> talk[p].at, tells |-> {m}] \in Ticket!Entries
    BY <2>1, <2>3 DEF Ticket!Entries
  <2>5. memory' \in Seq(Ticket!Entries)
    BY <1>1, <2>2, <2>4
  <2>6. talk' \in [Requests -> Ticket!Talks]
    <3>1. \/ talk' = [talk EXCEPT ![p].at = "assistant"]
          \/ talk' = [talk EXCEPT ![p].at = "measure"]
          \/ talk' = [talk EXCEPT ![p] = Ticket!Idle]
      BY <1>5 DEF Ticket!AddMessage, Ticket!Goto, Ticket!Leave
    <3> QED BY <1>1, <1>2, <1>3, <3>1
  <2>7. UNCHANGED <<last, forgotten>>
    BY <1>5 DEF Ticket!AddMessage
  <2>8. heard' \in SUBSET Ticket!Messages /\ raced' \in SUBSET Ticket!Messages
    BY <1>1, <2>2, <2>3
  <2> QED BY <1>1, <2>5, <2>6, <2>7, <2>8 DEF Ticket!MemoryTypeOK
<1>6. ASSUME NEW p \in Requests, Ticket!Measure(p)
      PROVE  Ticket!MemoryTypeOK' /\ last' \in last..MaxTurns
  <2>1. talk' = [talk EXCEPT ![p] = Ticket!Idle] \/ talk' = [talk EXCEPT ![p].at = "read"]
    BY <1>6 DEF Ticket!Measure, Ticket!Leave, Ticket!Goto
  <2>2. talk' \in [Requests -> Ticket!Talks]
    BY <1>1, <1>2, <1>3, <2>1
  <2> QED BY <1>1, <1>6, <2>2 DEF Ticket!Measure, Ticket!MemoryTypeOK
<1>7. ASSUME NEW p \in Requests, Ticket!ReadAll(p)
      PROVE  Ticket!MemoryTypeOK' /\ last' \in last..MaxTurns
  <2>1. talk' \in [Requests -> Ticket!Talks]
    BY <1>1, <1>7 DEF Ticket!ReadAll, Ticket!Talks
  <2> QED BY <1>1, <1>7, <2>1 DEF Ticket!ReadAll, Ticket!MemoryTypeOK
<1>8. ASSUME NEW p \in Requests, Ticket!Replace(p)
      PROVE  Ticket!MemoryTypeOK' /\ last' \in last..MaxTurns
  <2>1. talk' \in [Requests -> Ticket!Talks]
    BY <1>1, <1>2, <1>8 DEF Ticket!Replace, Ticket!Leave
  <2>2. talk[p].list \in Seq(Ticket!Entries)
    BY <1>1 DEF Ticket!Talks
  <2>3. memory' \in Seq(Ticket!Entries) /\ forgotten' \in SUBSET Ticket!Messages
    BY <1>1, <1>8, <2>2, Replaces
  <2> QED BY <1>1, <1>8, <2>1, <2>3 DEF Ticket!Replace, Ticket!MemoryTypeOK
<1>9. ASSUME NEW p \in Requests, Ticket!Abandon(p)
      PROVE  Ticket!MemoryTypeOK' /\ last' \in last..MaxTurns
  <2>1. talk' \in [Requests -> Ticket!Talks]
    BY <1>1, <1>2, <1>9 DEF Ticket!Abandon, Ticket!Leave
  <2> QED BY <1>1, <1>9, <2>1 DEF Ticket!Abandon, Ticket!MemoryTypeOK
<1>10. CASE Ticket!ExpireMemory
  BY <1>1, <1>2, <1>10 DEF Ticket!ExpireMemory, Ticket!MemoryTypeOK
<1> QED BY <1>4, <1>5, <1>6, <1>7, <1>8, <1>9, <1>10 DEF Ticket!MemoryNext

\* Plain turns leave the memory alone.
LEMMA ChatTypes ==
  ASSUME Ticket!MemoryTypeOK, MemoryInv, Ticket!ChatNext
  PROVE  Ticket!MemoryTypeOK' /\ MemoryInv' /\ last' \in last..MaxTurns
<1>1. /\ last \in 0..MaxTurns /\ MaxTurns \in Nat /\ talk \in [Requests -> Ticket!Talks]
  BY ConversationsAssumption DEF Ticket!MemoryTypeOK
<1>2. Ticket!Idle \in Ticket!Talks /\ Ticket!Idle.at = "idle"
  BY <1>1 DEF Ticket!Idle, Ticket!Talks
<1>3. UNCHANGED <<last, memory, heard, raced, forgotten>>
  BY DEF Ticket!ChatNext, Ticket!Chat, Ticket!UpdateState, Ticket!Abandon, Ticket!memoryVars
<1>4. \/ UNCHANGED talk
      \/ \E p \in Requests : talk' = [talk EXCEPT ![p].at = "state"]
      \/ \E p \in Requests : talk' = [talk EXCEPT ![p] = Ticket!Idle]
  BY DEF Ticket!ChatNext, Ticket!Chat, Ticket!UpdateState, Ticket!Abandon, Ticket!memoryVars,
         Ticket!Leave, Ticket!Goto
<1>5. /\ talk' \in [Requests -> Ticket!Talks]
      /\ \A q \in Requests : talk'[q] = talk[q] \/ talk'[q].at \in {"state", "idle"}
  <2>1. CASE UNCHANGED talk
    BY <1>1, <2>1
  <2>2. ASSUME NEW p \in Requests, talk' = [talk EXCEPT ![p].at = "state"]
        PROVE  <1>5
    <3>1. [talk[p] EXCEPT !.at = "state"] \in Ticket!Talks
      BY <1>1 DEF Ticket!Talks
    <3> QED BY <1>1, <2>2, <3>1 DEF Ticket!Talks
  <2>3. ASSUME NEW p \in Requests, talk' = [talk EXCEPT ![p] = Ticket!Idle]
        PROVE  <1>5
    BY <1>1, <1>2, <2>3
  <2> QED BY <1>4, <2>1, <2>2, <2>3
<1>7. MemoryInv'
  BY <1>3, <1>5 DEF MemoryInv, MemoryTellsAll, Ticket!MemoryTellsAll, Ticket!Told
<1> QED BY <1>1, <1>3, <1>5, <1>7 DEF Ticket!MemoryTypeOK
\* A later turn of another part leaves the memory as it was.
LEMMA MemoryLater ==
  ASSUME Ticket!MemoryTypeOK, UNCHANGED memoryOnly, last' \in last..MaxTurns
  PROVE  Ticket!MemoryTypeOK'
<1>1. /\ last \in 0..MaxTurns /\ last' \in 0..MaxTurns
      /\ UNCHANGED <<memory, talk, heard, raced, forgotten>>
  BY DEF Ticket!MemoryTypeOK, memoryOnly
<1> QED BY <1>1 DEF Ticket!MemoryTypeOK

\* Streamed turns keep what the memory and the lists to be summarised tell.
LEMMA MemoryKeeps ==
  ASSUME Ticket!MemoryTypeOK, MemoryInv, Ticket!MemoryNext
  PROVE  MemoryInv'
<1> DEFINE Lost == raced \cup forgotten
           Fits(q) == /\ talk[q].at \in {"user", "assistant"} => talk[q].turn # 0
                      /\ talk[q].at = "replace" =>
                           heard \subseteq Ticket!Told(talk[q].list) \cup raced \cup forgotten
<1>1. /\ last \in 0..MaxTurns /\ memory \in Seq(Ticket!Entries)
      /\ talk \in [Requests -> Ticket!Talks]
      /\ forgotten \in SUBSET Ticket!Messages /\ MaxTurns \in Nat
  BY ConversationsAssumption DEF Ticket!MemoryTypeOK
<1>2. /\ heard \subseteq Ticket!Told(memory) \cup Lost
      /\ \A q \in Requests : Fits(q)
  BY DEF MemoryInv, MemoryTellsAll, Ticket!MemoryTellsAll
<1>3. ASSUME heard' \subseteq Ticket!Told(memory') \cup Lost', \A q \in Requests : Fits(q)'
      PROVE  MemoryInv'
  BY <1>3 DEF MemoryInv, MemoryTellsAll, Ticket!MemoryTellsAll, Ticket!Told
<1>4. Ticket!Idle.at = "idle"
  BY DEF Ticket!Idle
<1>5. ASSUME UNCHANGED <<memory, heard, raced, forgotten>>,
             NEW p \in Requests, \A q \in Requests \ {p} : talk'[q] = talk[q],
             Fits(p)'
      PROVE  MemoryInv'
  <2>1. \A q \in Requests : Fits(q)'
    BY <1>2, <1>5
  <2> QED BY <1>2, <1>3, <1>5, <2>1
<1>6. ASSUME NEW p \in Requests, Ticket!Stream(p)
      PROVE  MemoryInv'
  <2>1. talk'[p].turn = last + 1 /\ talk'[p].at = "user"
        /\ \A q \in Requests \ {p} : talk'[q] = talk[q]
    BY <1>1, <1>6 DEF Ticket!Stream, Ticket!Talks
  <2>2. UNCHANGED <<memory, heard, raced, forgotten>>
    BY <1>6 DEF Ticket!Stream
  <2> QED BY <1>1, <1>5, <2>1, <2>2
<1>7. ASSUME NEW p \in Requests, Ticket!AddMessage(p)
      PROVE  MemoryInv'
  <2>1. talk[p].at \in {"user", "assistant"} /\ talk[p].turn \in 1..MaxTurns
    <3>1. talk[p].turn \in 0..MaxTurns
      BY <1>1 DEF Ticket!Talks
    <3> QED BY <1>2, <1>7, <3>1 DEF Ticket!AddMessage
  <2>2. PICK m : /\ m = IF talk[p].at = "user" THEN 2 * talk[p].turn - 1 ELSE 2 * talk[p].turn
                 /\ memory' = Append(memory, [role |-> talk[p].at, tells |-> {m}])
                 /\ heard' = heard \cup {m}
                 /\ raced' = IF \E q \in Requests : talk[q].at = "replace" THEN raced \cup {m}
                             ELSE raced
    BY <1>7 DEF Ticket!AddMessage
  <2>3. [role |-> talk[p].at, tells |-> {m}] \in Ticket!Entries
    <3>1. m \in Ticket!Messages
      BY <1>1, <2>1, <2>2 DEF Ticket!Messages
    <3> QED BY <2>1, <3>1 DEF Ticket!Entries
  <2>4. forgotten' = forgotten /\ raced \subseteq raced'
    BY <1>7, <2>2 DEF Ticket!AddMessage
  <2>5. heard' \subseteq Ticket!Told(memory') \cup Lost'
    <3>1. Ticket!Told(memory) \cup {m} \subseteq Ticket!Told(memory')
      BY <1>1, <2>2, <2>3, ToldAppend
    <3> QED BY <1>2, <2>2, <2>4, <3>1
  <2>6. /\ \A q \in Requests \ {p} : talk'[q] = talk[q]
        /\ talk'[p].at # "replace"
        /\ talk'[p].turn # 0 \/ talk'[p].at \notin {"user", "assistant"}
    <3>1. CASE talk' = [talk EXCEPT ![p].at = "assistant"]
      BY <1>1, <2>1, <3>1 DEF Ticket!Talks
    <3>2. CASE talk' = [talk EXCEPT ![p].at = "measure"]
      BY <1>1, <3>2 DEF Ticket!Talks
    <3>3. CASE talk' = [talk EXCEPT ![p] = Ticket!Idle]
      BY <1>1, <1>4, <3>3
    <3> QED BY <1>7, <3>1, <3>2, <3>3 DEF Ticket!AddMessage, Ticket!Goto, Ticket!Leave
  <2>7. ASSUME NEW q \in Requests
        PROVE  Fits(q)'
    <3>1. CASE q = p
      BY <2>6, <3>1
    <3>2. CASE q # p
      <4>1. talk'[q] = talk[q]
        BY <2>6, <3>2
      <4>2. ASSUME talk[q].at = "replace"
            PROVE  heard' \subseteq Ticket!Told(talk[q].list) \cup raced' \cup forgotten'
        <5>1. raced' = raced \cup {m}
          BY <2>2, <4>2
        <5> QED BY <1>2, <2>2, <2>4, <4>2, <5>1
      <4> QED BY <1>2, <4>1, <4>2
    <3> QED BY <3>1, <3>2
  <2> QED BY <1>3, <2>5, <2>7
<1>8. ASSUME NEW p \in Requests, Ticket!Measure(p) \/ Ticket!Abandon(p)
      PROVE  MemoryInv'
  <2>1. talk' = [talk EXCEPT ![p] = Ticket!Idle] \/ talk' = [talk EXCEPT ![p].at = "read"]
    BY <1>8 DEF Ticket!Measure, Ticket!Abandon, Ticket!Leave, Ticket!Goto
  <2>2. /\ \A q \in Requests \ {p} : talk'[q] = talk[q]
        /\ talk'[p].at \in {"idle", "read"}
    BY <1>1, <1>4, <2>1 DEF Ticket!Talks
  <2>3. UNCHANGED <<memory, heard, raced, forgotten>>
    BY <1>8 DEF Ticket!Measure, Ticket!Abandon
  <2> QED BY <1>5, <2>2, <2>3
<1>9. ASSUME NEW p \in Requests, Ticket!ReadAll(p)
      PROVE  MemoryInv'
  <2>1. /\ \A q \in Requests \ {p} : talk'[q] = talk[q]
        /\ talk'[p].at = "replace" /\ talk'[p].list = memory
    BY <1>1, <1>9 DEF Ticket!ReadAll, Ticket!Talks
  <2>2. UNCHANGED <<memory, heard, raced, forgotten>>
    BY <1>9 DEF Ticket!ReadAll
  <2> QED BY <1>2, <1>5, <2>1, <2>2
<1>10. ASSUME NEW p \in Requests, Ticket!Replace(p)
       PROVE  MemoryInv'
  <2>1. /\ talk[p].list \in Seq(Ticket!Entries) /\ talk[p].at = "replace"
        /\ UNCHANGED <<heard, raced>>
    BY <1>1, <1>10 DEF Ticket!Replace, Ticket!Talks
  <2>2. /\ forgotten \subseteq forgotten'
        /\ Ticket!Told(talk[p].list) \subseteq Ticket!Told(memory') \cup forgotten'
    BY <1>1, <1>10, <2>1, Replaces
  <2>3. heard' \subseteq Ticket!Told(memory') \cup Lost'
    BY <1>2, <2>1, <2>2
  <2>4. /\ \A q \in Requests \ {p} : talk'[q] = talk[q]
        /\ talk'[p].at = "idle"
    BY <1>1, <1>4, <1>10 DEF Ticket!Replace, Ticket!Leave
  <2>5. \A q \in Requests : Fits(q)'
    BY <1>2, <2>1, <2>2, <2>4
  <2> QED BY <1>3, <2>3, <2>5
<1>11. CASE Ticket!ExpireMemory
  <2>1. heard' = {} /\ UNCHANGED talk
    BY <1>11 DEF Ticket!ExpireMemory
  <2>2. \A q \in Requests : Fits(q)'
    BY <1>2, <2>1
  <2> QED BY <1>3, <2>1, <2>2
<1> QED BY <1>6, <1>7, <1>8, <1>9, <1>10, <1>11 DEF Ticket!MemoryNext

-----------------------------------------------------------------------------
(* Lists of messages.                                                      *)

\* The list that is written: the last messages of it, at most Cap.
LEMMA NewestIs ==
  ASSUME NEW s \in Seq(Widget!Message)
  PROVE  LET new == Widget!Newest(s)
             n == Len(s) - Len(new)
         IN /\ new \in Seq(Widget!Message) /\ Len(new) <= Cap
            /\ n \in Nat
            /\ \A j \in 1..Len(new) : new[j] = s[n + j]
            /\ \A i \in 1..n : s[i].turn \in Widget!Surplus(s)
            /\ Len(s) >= 1 => Len(new) >= 1
            /\ Len(s) >= 2 => Len(new) >= 2
<1>1. Cap \in Nat /\ Cap >= 2 /\ Len(s) \in Nat
  BY ConversationsAssumption
<1>2. CASE Len(s) > Cap
  <2>1. Widget!Newest(s) = SubSeq(s, Len(s) - Cap + 1, Len(s))
    BY <1>2 DEF Widget!Newest
  <2>2. /\ SubSeq(s, Len(s) - Cap + 1, Len(s)) \in Seq(Widget!Message)
        /\ Len(SubSeq(s, Len(s) - Cap + 1, Len(s))) = Cap
        /\ \A j \in 1..Cap : SubSeq(s, Len(s) - Cap + 1, Len(s))[j] = s[Len(s) - Cap + j]
    BY <1>1, <1>2
  <2>3. /\ Len(SubSeq(s, 1, Len(s) - Cap)) = Len(s) - Cap
        /\ DOMAIN SubSeq(s, 1, Len(s) - Cap) = 1..Len(s) - Cap
        /\ \A j \in 1..Len(s) - Cap : SubSeq(s, 1, Len(s) - Cap)[j] = s[j]
    BY <1>1, <1>2
  <2>4. \A i \in 1..Len(s) - Cap : s[i].turn \in Widget!Surplus(s)
    BY <1>2, <2>3 DEF Widget!Surplus, Widget!TurnsIn
  <2>5. /\ Len(Widget!Newest(s)) = Cap /\ Len(s) - Len(Widget!Newest(s)) = Len(s) - Cap
        /\ Widget!Newest(s) \in Seq(Widget!Message)
        /\ \A j \in 1..Cap : Widget!Newest(s)[j] = s[Len(s) - Cap + j]
    BY <2>1, <2>2
  <2>6. Cap <= Cap /\ Len(s) - Cap \in Nat
    BY <1>1, <1>2
  <2>7. \A i \in 1..Len(s) - Len(Widget!Newest(s)) : s[i].turn \in Widget!Surplus(s)
    BY <2>4, <2>5
  <2>8. \A j \in 1..Len(Widget!Newest(s)) :
          Widget!Newest(s)[j] = s[Len(s) - Len(Widget!Newest(s)) + j]
    BY <2>5
  <2> QED BY <1>1, <2>5, <2>6, <2>7, <2>8
<1>3. CASE ~(Len(s) > Cap)
  <2>1. Widget!Newest(s) = s
    BY <1>3 DEF Widget!Newest
  <2> QED BY <1>1, <1>3, <2>1
<1> QED BY <1>2, <1>3

\* No turn comes into the session by dropping messages.
LEMMA NewestTurns ==
  ASSUME NEW s \in Seq(Widget!Message)
  PROVE  Widget!TurnsIn(Widget!Newest(s)) \subseteq Widget!TurnsIn(s)
<1> DEFINE new == Widget!Newest(s)
           n == Len(s) - Len(new)
<1>1. /\ new \in Seq(Widget!Message) /\ n \in Nat /\ \A j \in 1..Len(new) : new[j] = s[n + j]
  BY NewestIs
<1> HIDE DEF new
<1>2. ASSUME NEW u \in Widget!TurnsIn(new)
      PROVE  u \in Widget!TurnsIn(s)
  <2>1. PICK j \in 1..Len(new) : u = new[j].turn
    BY <1>1, <1>2 DEF Widget!TurnsIn
  <2>2. n + j \in 1..Len(s) /\ u = s[n + j].turn
    BY <1>1, <2>1
  <2> QED BY <2>2 DEF Widget!TurnsIn
<1> QED BY <1>2 DEF new

\* A turn of which no message is dropped stays whole.
LEMMA NewestWhole ==
  ASSUME NEW s \in Seq(Widget!Message), NEW t, Widget!WholeIn(t, s), t \notin Widget!Surplus(s)
  PROVE  Widget!WholeIn(t, Widget!Newest(s))
<1> DEFINE new == Widget!Newest(s)
           n == Len(s) - Len(new)
<1>1. /\ new \in Seq(Widget!Message) /\ n \in Nat /\ Len(s) \in Nat /\ Len(new) \in Nat
      /\ \A j \in 1..Len(new) : new[j] = s[n + j]
      /\ \A i \in 1..n : s[i].turn \in Widget!Surplus(s)
  BY NewestIs
<1> HIDE DEF new
<1>2. PICK i \in 1..Len(s) - 1 : /\ s[i] = [turn |-> t, by |-> "user"]
                                 /\ s[i + 1] = [turn |-> t, by |-> "assistant"]
  BY DEF Widget!WholeIn
<1>3. i \notin 1..n
  BY <1>1, <1>2
<1>4. /\ i - n \in 1..Len(new) - 1 /\ n + (i - n) = i /\ n + (i - n + 1) = i + 1
      /\ i - n \in 1..Len(new) /\ i - n + 1 \in 1..Len(new)
  BY <1>1, <1>2, <1>3
<1>5. new[i - n] = s[i] /\ new[i - n + 1] = s[i + 1]
  BY <1>1, <1>4
<1> QED BY <1>2, <1>4, <1>5 DEF Widget!WholeIn, new

\* One message more: its turn comes in, and whole turns stay whole.
LEMMA AppendTurns ==
  ASSUME NEW s \in Seq(Widget!Message), NEW m \in Widget!Message
  PROVE  /\ Append(s, m) \in Seq(Widget!Message)
         /\ Widget!TurnsIn(Append(s, m)) = Widget!TurnsIn(s) \cup {m.turn}
         /\ \A t : Widget!WholeIn(t, s) => Widget!WholeIn(t, Append(s, m))
<1>1. /\ Append(s, m) \in Seq(Widget!Message) /\ Len(Append(s, m)) = Len(s) + 1
      /\ \A i \in 1..Len(s) : Append(s, m)[i] = s[i]
      /\ Append(s, m)[Len(s) + 1] = m
      /\ Len(s) \in Nat /\ DOMAIN s = 1..Len(s) /\ DOMAIN Append(s, m) = 1..Len(s) + 1
  OBVIOUS
<1>2. Widget!TurnsIn(Append(s, m)) = Widget!TurnsIn(s) \cup {m.turn}
  <2>1. ASSUME NEW i \in 1..Len(s) + 1
        PROVE  Append(s, m)[i].turn \in Widget!TurnsIn(s) \cup {m.turn}
    <3>1. i \in 1..Len(s) \/ i = Len(s) + 1
      BY <1>1
    <3> QED BY <1>1, <3>1 DEF Widget!TurnsIn
  <2>2. ASSUME NEW i \in 1..Len(s)
        PROVE  s[i].turn \in Widget!TurnsIn(Append(s, m))
    <3>1. i \in DOMAIN Append(s, m) /\ Append(s, m)[i].turn = s[i].turn
      BY <1>1
    <3> QED BY <3>1 DEF Widget!TurnsIn
  <2>3. m.turn \in Widget!TurnsIn(Append(s, m))
    <3>1. Len(s) + 1 \in DOMAIN Append(s, m)
      BY <1>1
    <3> QED BY <1>1, <3>1 DEF Widget!TurnsIn
  <2> QED BY <1>1, <2>1, <2>2, <2>3 DEF Widget!TurnsIn
<1>3. ASSUME NEW t, Widget!WholeIn(t, s)
      PROVE  Widget!WholeIn(t, Append(s, m))
  <2>1. PICK i \in 1..Len(s) - 1 : /\ s[i] = [turn |-> t, by |-> "user"]
                                   /\ s[i + 1] = [turn |-> t, by |-> "assistant"]
    BY <1>3 DEF Widget!WholeIn
  <2>2. /\ i \in 1..Len(Append(s, m)) - 1 /\ Append(s, m)[i] = s[i]
        /\ Append(s, m)[i + 1] = s[i + 1]
    BY <1>1, <2>1
  <2> QED BY <2>1, <2>2 DEF Widget!WholeIn
<1> QED BY <1>1, <1>2, <1>3

\* The last messages are not dropped: Cap is at least 2.
LEMMA AppendEnds ==
  ASSUME NEW s \in Seq(Widget!Message), NEW t \in Widget!Turns
  PROVE  /\ EndsWith(Widget!Newest(Append(s, [turn |-> t, by |-> "user"])), t)
         /\ EndsWith(s, t) =>
              Widget!WholeIn(t, Widget!Newest(Append(s, [turn |-> t, by |-> "assistant"])))
<1>1. ASSUME NEW m \in Widget!Message
      PROVE  LET new == Widget!Newest(Append(s, m)) IN
             /\ new \in Seq(Widget!Message) /\ Len(new) >= 1 /\ new[Len(new)] = m
             /\ Len(s) >= 1 => Len(new) >= 2 /\ new[Len(new) - 1] = s[Len(s)]
  <2> DEFINE list == Append(s, m)
             new == Widget!Newest(list)
             n == Len(list) - Len(new)
  <2>1. /\ list \in Seq(Widget!Message) /\ Len(list) = Len(s) + 1 /\ Len(s) \in Nat
        /\ list[Len(s) + 1] = m /\ \A i \in 1..Len(s) : list[i] = s[i]
    BY <1>1
  <2> HIDE DEF list
  <2>2. /\ new \in Seq(Widget!Message) /\ n \in Nat
        /\ \A j \in 1..Len(new) : new[j] = list[n + j]
        /\ Len(list) >= 1 => Len(new) >= 1
        /\ Len(list) >= 2 => Len(new) >= 2
    BY <2>1, NewestIs
  <2> HIDE DEF new
  <2>3. Len(new) \in Nat /\ Len(new) >= 1 /\ n + Len(new) = Len(s) + 1
    BY <2>1, <2>2
  <2>4. new[Len(new)] = m
    BY <2>1, <2>2, <2>3
  <2>5. ASSUME Len(s) >= 1
        PROVE  Len(new) >= 2 /\ new[Len(new) - 1] = s[Len(s)]
    <3>1. Len(new) >= 2 /\ n + (Len(new) - 1) = Len(s) /\ Len(new) - 1 \in 1..Len(new)
      BY <2>1, <2>2, <2>3, <2>5
    <3> QED BY <2>1, <2>2, <2>5, <3>1
  <2> QED BY <2>2, <2>3, <2>4, <2>5 DEF new, list
<1>2. [turn |-> t, by |-> "user"] \in Widget!Message
      /\ [turn |-> t, by |-> "assistant"] \in Widget!Message
  BY DEF Widget!Message
<1>3. EndsWith(Widget!Newest(Append(s, [turn |-> t, by |-> "user"])), t)
  BY <1>1, <1>2 DEF EndsWith
<1>4. ASSUME EndsWith(s, t)
      PROVE  Widget!WholeIn(t, Widget!Newest(Append(s, [turn |-> t, by |-> "assistant"])))
  <2> DEFINE new == Widget!Newest(Append(s, [turn |-> t, by |-> "assistant"]))
  <2>1. s[Len(s)] = [turn |-> t, by |-> "user"] /\ Len(s) >= 1
    BY <1>4 DEF EndsWith
  <2>2. /\ new \in Seq(Widget!Message) /\ Len(new) >= 2
        /\ new[Len(new)] = [turn |-> t, by |-> "assistant"]
        /\ new[Len(new) - 1] = [turn |-> t, by |-> "user"]
    BY <1>1, <1>2, <2>1
  <2> HIDE DEF new
  <2>3. Len(new) - 1 \in 1..Len(new) - 1 /\ Len(new) - 1 + 1 = Len(new)
    BY <2>2
  <2> QED BY <2>2, <2>3 DEF Widget!WholeIn, new
<1> QED BY <1>3, <1>4

-----------------------------------------------------------------------------
(* The session of a widget.                                                *)

\* A request that is not being served.
LEMMA IdleVisit ==
  /\ Widget!Idle \in [at : Widget!Inside \cup {"idle", "load"}, turn : {0}, loaded : {{}},
                      blind : BOOLEAN, act : {"none"}, list : {<<>>}]
  /\ Widget!Idle \in Widget!Visits
  /\ Widget!Idle.at = "idle" /\ "idle" \notin Widget!Inside /\ "load" \notin Widget!Inside
  /\ Widget!TurnsIn(<<>>) = {}
<1>1. <<>> \in Seq(Widget!Message) /\ 0 \in 0..MaxTurns
  BY ConversationsAssumption
<1> QED BY <1>1 DEF Widget!Idle, Widget!Visits, Widget!Inside, Widget!TurnsIn

\* A request goes on in the session, and writes no message and makes no ticket.
Continues(p, v) ==
  /\ Inside(p) /\ v.at \in Widget!Inside \ {"clear", "writeUser", "writeReply"}
  /\ v.turn = visit[p].turn /\ v.loaded = visit[p].loaded /\ v.blind = visit[p].blind
  /\ v.list \in {visit[p].list, <<>>}
  /\ v.at = "create" => v.act \in {"gate", "escalate"}
  /\ tickets[v.turn] # {} => v.at = "state" /\ v.act = "escalate"

\* All steps that leave the messages and the tickets as they are, but for the first two.
LEMMA Moves ==
  ASSUME Widget!SessionTypeOK, SessionInv, NEW p \in Requests, NEW v \in Widget!Visits,
         visit' = [visit EXCEPT ![p] = v],
         UNCHANGED <<last, session, tickets, kept>>,
         alone' = alone \/ alone' = alone \ {visit[p].turn},
         visit[p].at = "clear" => visit[p].turn \notin alone',
         v = Widget!Idle \/ Continues(p, v),
         v.at = "readReply" => v.turn \notin alone'
  PROVE  Widget!SessionTypeOK' /\ SessionInv'
<1>1. /\ visit \in [Requests -> Widget!Visits] /\ tickets \in [Widget!Turns -> SUBSET Widget!Turns]
      /\ last \in 0..MaxTurns /\ MaxTurns \in Nat /\ alone \in SUBSET Widget!Turns
      /\ alone' \subseteq alone
  BY ConversationsAssumption DEF Widget!SessionTypeOK
<1>2. visit'[p] = v /\ \A q \in Requests \ {p} : visit'[q] = visit[q]
  BY <1>1
<1>3. Widget!SessionTypeOK'
  BY <1>1 DEF Widget!SessionTypeOK
<1>4. TurnInv /\ BegunInv /\ AloneInv /\ TicketInv /\ SealInv /\ KeptInv /\ ReplyInv
      /\ TurnsToldOnce
  BY DEF SessionInv
<1>5. \/ /\ v.at = "idle" /\ v.turn = 0 /\ v.loaded = {} /\ v.list = <<>> /\ ~Inside(p)'
      \/ Continues(p, v)
  BY <1>2, IdleVisit DEF Inside, Widget!Idle
<1>6. TurnInv'
  BY <1>1, <1>2, <1>4, <1>5, IdleVisit DEF TurnInv, Inside, Continues
<1>7. ASSUME NEW u, Begun(u)
      PROVE  Begun(u)'
  BY <1>2, <1>5, <1>7, IdleVisit DEF Begun, Continues
<1>8. BegunInv'
  BY <1>1, <1>2, <1>4, <1>5, <1>7, IdleVisit DEF BegunInv, Continues
<1>9. AloneInv'
  BY <1>1, <1>2, <1>4, <1>5 DEF AloneInv, Inside, Continues
<1>10. TicketInv'
  BY <1>1, <1>2, <1>4, <1>5 DEF TicketInv, Continues
<1>11. SealInv'
  BY <1>1, <1>2, <1>4, <1>5, IdleVisit DEF SealInv, Continues, Widget!Turns
<1>12. KeptInv'
  BY <1>1, <1>2, <1>4, <1>5 DEF KeptInv, Continues, Told, Inside
<1>13. ReplyInv'
  BY <1>1, <1>2, <1>4, <1>5 DEF ReplyInv, Continues
<1>14. TurnsToldOnce'
  BY <1>1, <1>4 DEF TurnsToldOnce, Widget!TurnsToldOnce
<1> QED BY <1>3, <1>6, <1>8, <1>9, <1>10, <1>11, <1>12, <1>13, <1>14 DEF SessionInv

\* Turns found in messages are turns.
LEMMA TurnsTyped ==
  \A s \in Seq(Widget!Message) : Widget!TurnsIn(s) \subseteq Widget!Turns
<1>1. ASSUME NEW s \in Seq(Widget!Message), NEW i \in DOMAIN s
      PROVE  s[i].turn \in Widget!Turns
  <2>1. s[i] \in Widget!Message
    OBVIOUS
  <2> QED BY <2>1 DEF Widget!Message
<1> QED BY <1>1 DEF Widget!TurnsIn

\* A turn begins.
LEMMA Arrives ==
  ASSUME Widget!SessionTypeOK, SessionInv, NEW p \in Requests, Widget!Arrive(p)
  PROVE  Widget!SessionTypeOK' /\ SessionInv' /\ last' \in last..MaxTurns
<1>1. /\ visit \in [Requests -> Widget!Visits] /\ tickets \in [Widget!Turns -> SUBSET Widget!Turns]
      /\ last \in 0..MaxTurns /\ MaxTurns \in Nat /\ alone \in SUBSET Widget!Turns
      /\ last' = last + 1 /\ last' \in 0..MaxTurns /\ last' \in last..MaxTurns
      /\ last' \in Widget!Turns /\ last' # 0
      /\ UNCHANGED <<session, tickets, alone, kept>>
  BY ConversationsAssumption DEF Widget!SessionTypeOK, Widget!Arrive, Widget!Turns
<1>2. /\ visit[p].at = "idle" /\ visit[p].turn = 0
      /\ visit[p].loaded = {} /\ visit[p].list = <<>>
  BY IdleVisit DEF Widget!Arrive, SessionInv, TurnInv, Inside
<1>3. /\ visit' = [visit EXCEPT ![p] = [visit[p] EXCEPT !.at = "load", !.turn = last']]
      /\ [visit[p] EXCEPT !.at = "load", !.turn = last'] \in Widget!Visits
  BY <1>1 DEF Widget!Arrive, Widget!Visits
<1>4. /\ visit'[p].at = "load" /\ visit'[p].turn = last + 1
      /\ visit'[p].loaded = {} /\ visit'[p].list = <<>>
      /\ \A q \in Requests \ {p} : visit'[q] = visit[q]
  BY <1>1, <1>2, <1>3 DEF Widget!Visits
<1>5. Widget!SessionTypeOK'
  BY <1>1, <1>3 DEF Widget!SessionTypeOK
<1>6. TurnInv /\ BegunInv /\ AloneInv /\ TicketInv /\ SealInv /\ KeptInv /\ ReplyInv
      /\ TurnsToldOnce
  BY DEF SessionInv
<1>7. \A q \in Requests : visit[q].turn \in 0..last
  BY <1>1, <1>6 DEF TurnInv, Widget!Visits
<1>8. TurnInv'
  <2>1. ASSUME NEW q \in Requests
        PROVE  /\ visit'[q].turn <= last'
               /\ visit'[q].at = "idle" <=> visit'[q].turn = 0
               /\ ~Inside(q)' => visit'[q].loaded = {} /\ visit'[q].list = <<>>
    <3>1. CASE q = p
      BY <1>1, <1>4, <3>1
    <3>2. CASE q # p
      BY <1>1, <1>4, <1>6, <1>7, <3>2 DEF TurnInv, Inside
    <3> QED BY <3>1, <3>2
  <2>2. ASSUME NEW q \in Requests, NEW r \in Requests, visit'[q].turn = visit'[r].turn
        PROVE  q = r \/ visit'[q].turn = 0
    BY <1>1, <1>4, <1>6, <1>7, <2>2 DEF TurnInv
  <2>3. alone' \subseteq 1..last'
    BY <1>1, <1>6 DEF TurnInv
  <2> QED BY <2>1, <2>2, <2>3 DEF TurnInv, Inside
<1>9. ASSUME NEW u \in Widget!Turns, Begun(u)
      PROVE  Begun(u)'
  BY <1>1, <1>4, <1>9 DEF Begun, Widget!Turns
<1>10. BegunInv'
  <2>1. /\ Widget!TurnsIn(session) \subseteq Widget!Turns
        /\ \A q \in Requests : /\ visit[q].loaded \subseteq Widget!Turns
                               /\ Widget!TurnsIn(visit[q].list) \subseteq Widget!Turns
    BY <1>1, TurnsTyped DEF Widget!SessionTypeOK, Widget!Visits
  <2>2. \A q \in Requests : visit'[q].loaded = visit[q].loaded /\ visit'[q].list = visit[q].list
    BY <1>2, <1>4
  <2>3. Widget!TurnsIn(session') = Widget!TurnsIn(session)
        /\ \A q \in Requests : Widget!TurnsIn(visit'[q].list) = Widget!TurnsIn(visit[q].list)
    BY <1>1, <2>2
  <2>4. /\ \A u \in alone' : Begun(u)'
        /\ \A u \in Widget!TurnsIn(session') : Begun(u)'
    BY <1>1, <1>6, <1>9, <2>1, <2>3 DEF BegunInv
  <2>5. ASSUME NEW q \in Requests
        PROVE  /\ \A u \in visit'[q].loaded : Begun(u)'
               /\ \A u \in Widget!TurnsIn(visit'[q].list) : Begun(u)'
    BY <1>6, <1>9, <2>1, <2>2, <2>3 DEF BegunInv
  <2>6. ASSUME NEW e \in Widget!Turns, NEW u \in tickets'[e]
        PROVE  Begun(u)'
    BY <1>1, <1>6, <1>9, <2>6 DEF BegunInv
  <2> QED BY <2>4, <2>5, <2>6 DEF BegunInv, Widget!TurnsIn
<1>11. AloneInv'
  BY <1>1, <1>4, <1>6, IdleVisit DEF AloneInv, Inside
<1>12. TicketInv'
  BY <1>1, <1>4, <1>6 DEF TicketInv, Widget!Turns
<1>13. SealInv'
  <2>1. \A e \in Widget!Turns : last + 1 \notin tickets[e]
    BY <1>1, <1>6 DEF BegunInv, Begun
  <2>2. last + 1 \notin alone
    BY <1>1, <1>6 DEF TurnInv
  <2> QED BY <1>1, <1>2, <1>4, <1>6, <2>1, <2>2, IdleVisit DEF SealInv
<1>14. KeptInv'
  BY <1>1, <1>4, <1>6, IdleVisit DEF KeptInv, Inside, Told
<1>15. ReplyInv'
  BY <1>1, <1>4, <1>6 DEF ReplyInv
<1>16. TurnsToldOnce'
  BY <1>1, <1>6 DEF TurnsToldOnce, Widget!TurnsToldOnce
<1> QED BY <1>1, <1>5, <1>8, <1>10, <1>11, <1>12, <1>13, <1>14, <1>15, <1>16 DEF SessionInv

\* A request enters the session, which it may have to itself.
LEMMA LoadsKeeps ==
  ASSUME Widget!SessionTypeOK, SessionInv, NEW p \in Requests, Widget!Load(p)
  PROVE  Widget!SessionTypeOK' /\ SessionInv'
<1> DEFINE t == visit[p].turn
           others == {q \in Requests \ {p} : visit[q].at \in Widget!Inside}
<1>1. /\ visit \in [Requests -> Widget!Visits] /\ tickets \in [Widget!Turns -> SUBSET Widget!Turns]
      /\ last \in 0..MaxTurns /\ MaxTurns \in Nat /\ alone \in SUBSET Widget!Turns
      /\ session \in Seq(Widget!Message)
      /\ visit[p].at = "load" /\ UNCHANGED <<last, session, tickets, kept>>
  BY ConversationsAssumption DEF Widget!SessionTypeOK, Widget!Load
<1>2. PICK found \in SUBSET Widget!Turns, blind \in BOOLEAN :
        /\ Widget!Loads(p, found, blind)
        /\ found \subseteq Widget!TurnsIn(session)
        /\ ~blind => found = Widget!TurnsIn(session)
  <2>1. Widget!TurnsIn(session) \in SUBSET Widget!Turns /\ {} \in SUBSET Widget!Turns
    BY <1>1, TurnsTyped
  <2> QED BY <2>1 DEF Widget!Load
<1>3. /\ visit'[p].at = "decide" /\ visit'[p].turn = t /\ visit'[p].loaded = found
      /\ visit'[p].blind = blind /\ visit'[p].list = visit[p].list
      /\ visit'[p].act = visit[p].act
      /\ \A q \in Requests \ {p} : visit'[q] = visit[q]
      /\ visit' \in [Requests -> Widget!Visits]
      /\ alone' = IF others = {} /\ ~blind THEN alone \cup {t}
                  ELSE alone \ {visit[q].turn : q \in others}
  BY <1>1, <1>2 DEF Widget!Loads, Widget!Visits, Widget!Inside
<1>4. TurnInv /\ BegunInv /\ AloneInv /\ TicketInv /\ SealInv /\ KeptInv /\ ReplyInv
      /\ TurnsToldOnce
  BY DEF SessionInv
<1>5. t \in 1..last /\ t \in Widget!Turns /\ t # 0 /\ visit[p].list = <<>> /\ tickets[t] = {}
  <2>1. visit[p].turn \in 0..MaxTurns
    BY <1>1 DEF Widget!Visits
  <2>2. visit[p].turn <= last /\ visit[p].turn # 0 /\ visit[p].list = <<>>
    BY <1>1, <1>4, IdleVisit DEF TurnInv, Inside
  <2> QED BY <1>1, <1>4, <2>1, <2>2 DEF TicketInv, Widget!Turns
<1>6. \A q \in Requests \ {p} : visit[q].turn # t
  BY <1>4, <1>5 DEF TurnInv
<1>7. t \notin alone
  BY <1>1, <1>4 DEF BegunInv, Begun
<1>8. Widget!SessionTypeOK'
  <2>1. alone' \in SUBSET Widget!Turns
    BY <1>1, <1>3, <1>5
  <2> QED BY <1>1, <1>3, <2>1 DEF Widget!SessionTypeOK
<1>9. TurnInv'
  <2>1. alone' \subseteq 1..last
    BY <1>3, <1>4, <1>5 DEF TurnInv
  <2> QED BY <1>1, <1>3, <1>4, <1>5, <2>1 DEF TurnInv, Inside, Widget!Inside
<1>10. /\ \A u : Begun(u) => Begun(u)'
       /\ Begun(t)'
  BY <1>1, <1>3, <1>5, <1>6 DEF Begun
<1>11. BegunInv'
  <2>1. Widget!TurnsIn(session') = Widget!TurnsIn(session)
        /\ \A q \in Requests : Widget!TurnsIn(visit'[q].list) = Widget!TurnsIn(visit[q].list)
    BY <1>1, <1>3
  <2>2. \A u \in alone' : Begun(u)'
    BY <1>3, <1>4, <1>10 DEF BegunInv
  <2>3. \A u \in Widget!TurnsIn(session') : Begun(u)'
    BY <1>4, <1>10, <2>1 DEF BegunInv
  <2>4. ASSUME NEW q \in Requests
        PROVE  /\ \A u \in visit'[q].loaded : Begun(u)'
               /\ \A u \in Widget!TurnsIn(visit'[q].list) : Begun(u)'
    BY <1>2, <1>3, <1>4, <1>10, <2>1 DEF BegunInv
  <2>5. \A e \in Widget!Turns : \A u \in tickets'[e] : Begun(u)'
    BY <1>1, <1>4, <1>10 DEF BegunInv
  <2> QED BY <2>2, <2>3, <2>4, <2>5 DEF BegunInv, Widget!TurnsIn
<1>12. AloneInv'
  <2>1. CASE others = {}
    <3>1. \A q \in Requests : Inside(q)' => q = p
      BY <1>3, <2>1 DEF Inside
    <3> QED BY <3>1 DEF AloneInv
  <2>2. CASE others # {}
    <3>1. alone' = alone \ {visit[q].turn : q \in others}
      BY <1>3, <2>2
    <3>2. ASSUME NEW q \in Requests, Inside(q)'
          PROVE  visit'[q].turn \notin alone'
      <4>1. CASE q = p
        BY <1>3, <1>7, <3>1, <4>1
      <4>2. CASE q # p
        BY <1>3, <3>1, <3>2, <4>2 DEF Inside
      <4> QED BY <4>1, <4>2
    <3> QED BY <3>2 DEF AloneInv
  <2> QED BY <2>1, <2>2
<1>13. TicketInv'
  BY <1>1, <1>3, <1>4, <1>5 DEF TicketInv
<1>14. ASSUME NEW e \in alone', tickets[e] # {}
       PROVE  e \in alone /\ e # t /\ Widget!TurnsIn(session) \cap tickets[e] = {}
  <2>1. e \in alone /\ e # t
    BY <1>3, <1>5, <1>14
  <2>2. ASSUME NEW q \in Requests, visit[q].turn = e, visit[q].at = "clear"
        PROVE  FALSE
    <3>1. q \in others
      BY <1>1, <2>2 DEF Widget!Inside
    <3> QED BY <1>3, <1>14, <2>2, <3>1
  <2> QED BY <1>4, <1>14, <2>1, <2>2 DEF SealInv
<1>15. SealInv'
  <2>1. ASSUME NEW e \in alone', tickets[e] # {}, NEW q \in Requests, visit'[q].turn # e
        PROVE  /\ visit'[q].turn \notin tickets[e]
               /\ visit'[q].loaded \cap tickets[e] = {}
               /\ Widget!TurnsIn(visit'[q].list) \cap tickets[e] = {}
    BY <1>2, <1>3, <1>4, <1>14, <2>1 DEF SealInv
  <2>2. Widget!TurnsIn(session') = Widget!TurnsIn(session)
    BY <1>1
  <2> QED BY <1>1, <1>14, <2>1, <2>2 DEF SealInv, Widget!TurnsIn
<1>16. KeptInv'
  <2>1. ASSUME NEW u, Widget!WholeIn(u, session)
        PROVE  u \in Widget!TurnsIn(session)
    BY <1>1, <2>1 DEF Widget!WholeIn, Widget!TurnsIn
  <2>2. ASSUME NEW u \in kept, ~Told(u), NEW q \in Requests
        PROVE  /\ visit'[q].at \in {"writeUser", "writeReply"} =>
                    Widget!WholeIn(u, visit'[q].list)
               /\ Inside(q)' /\ ~visit'[q].blind => u \in visit'[q].loaded
    BY <1>2, <1>3, <1>4, <2>1, <2>2 DEF KeptInv, Inside
  <2>3. \A u : Told(u)' = Told(u)
    BY <1>1 DEF Told
  <2> QED BY <1>1, <1>4, <2>2, <2>3 DEF KeptInv, Inside, Widget!WholeIn
<1>17. ReplyInv'
  BY <1>1, <1>3, <1>4, <1>6 DEF ReplyInv
<1>18. TurnsToldOnce'
  BY <1>1, <1>3, <1>4, <1>5 DEF TurnsToldOnce, Widget!TurnsToldOnce
<1> QED BY <1>8, <1>9, <1>11, <1>12, <1>13, <1>15, <1>16, <1>17, <1>18 DEF SessionInv

\* A ticket tells the request's turn and what it loaded; it may be told that this failed.
LEMMA Tickets ==
  ASSUME Widget!SessionTypeOK, SessionInv, NEW p \in Requests, NEW v \in Widget!Visits,
         visit[p].at = "create",
         visit' = [visit EXCEPT ![p] = v],
         tickets' = Widget!Ticket(p),
         UNCHANGED <<last, session, kept>>,
         \/ v = [visit[p] EXCEPT !.at = "clear"] /\ alone' = alone
         \/ v = [visit[p] EXCEPT !.at = "state"] /\ alone' = alone \ {visit[p].turn}
              /\ visit[p].act = "escalate"
         \/ v = Widget!Idle /\ alone' = alone \ {visit[p].turn}
  PROVE  Widget!SessionTypeOK' /\ SessionInv'
<1> DEFINE t == visit[p].turn
           told == visit[p].loaded \cup {t}
<1>1. /\ visit \in [Requests -> Widget!Visits] /\ tickets \in [Widget!Turns -> SUBSET Widget!Turns]
      /\ last \in 0..MaxTurns /\ MaxTurns \in Nat /\ alone \in SUBSET Widget!Turns
      /\ session \in Seq(Widget!Message)
      /\ alone' \subseteq alone
  BY ConversationsAssumption DEF Widget!SessionTypeOK
<1>2. visit'[p] = v /\ \A q \in Requests \ {p} : visit'[q] = visit[q]
  BY <1>1
<1>3. TurnInv /\ BegunInv /\ AloneInv /\ TicketInv /\ SealInv /\ KeptInv /\ ReplyInv
      /\ TurnsToldOnce
  BY DEF SessionInv
<1>4. /\ t \in Widget!Turns /\ t # 0 /\ t <= last /\ tickets[t] = {} /\ Inside(p)
      /\ visit[p].loaded \subseteq Widget!Turns
      /\ visit[p].act \in {"gate", "escalate"}
  <2>1. visit[p].turn \in 0..MaxTurns /\ visit[p].loaded \subseteq Widget!Turns
    BY <1>1 DEF Widget!Visits
  <2>2. visit[p].turn <= last /\ visit[p].turn # 0
    BY <1>1, <1>3, IdleVisit DEF TurnInv, Inside
  <2> QED BY <1>1, <1>3, <2>1, <2>2 DEF TicketInv, Widget!Turns, Inside, Widget!Inside
<1>5. /\ tickets'[t] = told /\ \A e \in Widget!Turns \ {t} : tickets'[e] = tickets[e]
      /\ tickets' \in [Widget!Turns -> SUBSET Widget!Turns]
  BY <1>1, <1>4 DEF Widget!Ticket
<1>6. \A q \in Requests \ {p} : visit[q].turn # t
  BY <1>3, <1>4 DEF TurnInv
<1>7. Widget!SessionTypeOK'
  BY <1>1, <1>5 DEF Widget!SessionTypeOK
<1>8. \/ /\ v.at = "clear" /\ v.turn = t /\ v.loaded = visit[p].loaded /\ v.list = visit[p].list
         /\ v.blind = visit[p].blind /\ v.act = visit[p].act /\ alone' = alone
      \/ /\ v.at = "state" /\ v.turn = t /\ v.loaded = visit[p].loaded /\ v.list = visit[p].list
         /\ v.blind = visit[p].blind /\ v.act = "escalate" /\ t \notin alone'
      \/ /\ v.at = "idle" /\ v.turn = 0 /\ v.loaded = {} /\ v.list = <<>> /\ ~Inside(p)'
         /\ t \notin alone'
  <2>1. CASE v = Widget!Idle /\ alone' = alone \ {visit[p].turn}
    BY <1>2, <2>1, IdleVisit DEF Inside, Widget!Idle
  <2> QED BY <1>1, <2>1 DEF Widget!Visits
<1>9. TurnInv'
  BY <1>1, <1>2, <1>3, <1>4, <1>8, IdleVisit DEF TurnInv, Inside, Widget!Inside
<1>10. /\ \A u : Begun(u) => Begun(u)'
       /\ Begun(t)
  BY <1>1, <1>2, <1>4, <1>6, <1>8 DEF Begun
<1>11. BegunInv'
  <2>1. Widget!TurnsIn(session') = Widget!TurnsIn(session)
        /\ \A q \in Requests : \/ Widget!TurnsIn(visit'[q].list) = Widget!TurnsIn(visit[q].list)
                               \/ Widget!TurnsIn(visit'[q].list) = {}
    BY <1>1, <1>2, <1>8, IdleVisit
  <2>2. \A u \in alone' \cup Widget!TurnsIn(session') : Begun(u)'
    BY <1>1, <1>3, <1>10, <2>1 DEF BegunInv
  <2>3. ASSUME NEW q \in Requests
        PROVE  /\ \A u \in visit'[q].loaded : Begun(u)'
               /\ \A u \in Widget!TurnsIn(visit'[q].list) : Begun(u)'
    BY <1>2, <1>3, <1>8, <1>10, <2>1 DEF BegunInv
  <2>4. \A e \in Widget!Turns : \A u \in tickets'[e] : Begun(u)'
    BY <1>3, <1>5, <1>10 DEF BegunInv
  <2> QED BY <2>2, <2>3, <2>4 DEF BegunInv, Widget!TurnsIn
<1>12. AloneInv'
  BY <1>1, <1>2, <1>3, <1>4, <1>8 DEF AloneInv, Inside
<1>13. TicketInv'
  <2>1. ASSUME NEW q \in Requests \ {p}, visit[q].at # "idle"
        PROVE  tickets'[visit[q].turn] = tickets[visit[q].turn]
    <3>1. visit[q].turn \in Widget!Turns
      BY <1>1, <1>3, <2>1 DEF TurnInv, Widget!Visits, Widget!Turns
    <3> QED BY <1>5, <1>6, <3>1
  <2>2. \A e \in Widget!Turns : e > last' => tickets'[e] = {}
    BY <1>1, <1>3, <1>4, <1>5 DEF TicketInv, Widget!Turns
  <2>3. ASSUME NEW q \in Requests
        PROVE  /\ visit'[q].at \in {"create", "clear"} => visit'[q].act \in {"gate", "escalate"}
               /\ visit'[q].at = "clear" => visit'[q].loaded \subseteq tickets'[visit'[q].turn]
               /\ visit'[q].at \notin {"idle", "clear"} /\ tickets'[visit'[q].turn] # {} =>
                    visit'[q].at = "state" /\ visit'[q].act = "escalate"
    <3>1. CASE q = p
      BY <1>2, <1>4, <1>5, <1>8, <3>1
    <3>2. CASE q # p
      BY <1>2, <1>3, <2>1, <3>2 DEF TicketInv
    <3> QED BY <3>1, <3>2
  <2> QED BY <2>2, <2>3 DEF TicketInv
<1>14. ASSUME t \in alone', NEW q \in Requests, q # p
       PROVE  /\ visit[q].turn \notin told /\ visit[q].loaded = {} /\ visit[q].list = <<>>
  <2>1. ~Inside(q)
    BY <1>1, <1>3, <1>4, <1>14 DEF AloneInv
  <2>2. visit[q].loaded = {} /\ visit[q].list = <<>>
    BY <1>3, <2>1 DEF TurnInv
  <2>3. visit[q].at \in {"idle", "load"}
    BY <1>1, <2>1 DEF Inside, Widget!Visits
  <2>4. CASE visit[q].at = "idle"
    <3>1. visit[q].turn = 0
      BY <1>3, <2>4 DEF TurnInv
    <3> QED BY <1>4, <2>2, <3>1 DEF Widget!Turns
  <2>5. CASE visit[q].at = "load"
    BY <1>3, <1>6, <1>14, <2>2, <2>5 DEF BegunInv, Begun
  <2> QED BY <2>3, <2>4, <2>5
<1>15. SealInv'
  <2>1. ASSUME NEW e \in alone', tickets'[e] # {}
        PROVE  /\ \A q \in Requests : visit'[q].turn # e =>
                    /\ visit'[q].turn \notin tickets'[e]
                    /\ visit'[q].loaded \cap tickets'[e] = {}
                    /\ Widget!TurnsIn(visit'[q].list) \cap tickets'[e] = {}
               /\ \/ \E q \in Requests : visit'[q].turn = e /\ visit'[q].at = "clear"
                  \/ Widget!TurnsIn(session') \cap tickets'[e] = {}
    <3>1. CASE e = t
      <4>1. v.at = "clear" /\ v.turn = t
        BY <1>8, <2>1, <3>1
      <4> QED BY <1>2, <1>5, <1>14, <2>1, <3>1, <4>1, IdleVisit
    <3>2. CASE e # t
      <4>1. tickets'[e] = tickets[e] /\ tickets[e] # {} /\ e \in alone
        BY <1>1, <1>5, <2>1, <3>2
      <4>2. 0 \notin tickets[e] /\ Widget!TurnsIn(<<>>) = {}
        BY <1>1, <4>1, IdleVisit DEF Widget!Turns
      <4>3. Widget!TurnsIn(session') = Widget!TurnsIn(session)
        BY <1>1
      <4>4. ASSUME NEW q \in Requests, visit'[q].turn # e
            PROVE  /\ visit'[q].turn \notin tickets[e]
                   /\ visit'[q].loaded \cap tickets[e] = {}
                   /\ Widget!TurnsIn(visit'[q].list) \cap tickets[e] = {}
        <5>1. CASE q = p
          BY <1>2, <1>3, <1>8, <3>2, <4>1, <4>2, <4>4, <5>1 DEF SealInv
        <5>2. CASE q # p
          BY <1>2, <1>3, <4>1, <4>4, <5>2 DEF SealInv
        <5> QED BY <5>1, <5>2
      <4>5. ASSUME NEW q \in Requests, visit[q].turn = e, visit[q].at = "clear"
            PROVE  visit'[q].turn = e /\ visit'[q].at = "clear"
        BY <1>2, <3>2, <4>5
      <4> QED BY <1>3, <4>1, <4>3, <4>4, <4>5 DEF SealInv
    <3> QED BY <3>1, <3>2
  <2> QED BY <2>1 DEF SealInv, Widget!TurnsIn
<1>16. \A u : Told(u) => Told(u)'
  BY <1>4, <1>5 DEF Told
<1>17. KeptInv'
  BY <1>1, <1>2, <1>3, <1>8, <1>16, IdleVisit DEF KeptInv, Inside, Widget!Inside
<1>18. ReplyInv'
  BY <1>1, <1>2, <1>3, <1>8 DEF ReplyInv
<1>19. TurnsToldOnce'
  <2>1. \A u \in kept' : Widget!WholeIn(u, session)' \/ Told(u)'
    BY <1>17 DEF KeptInv
  <2>2. ASSUME NEW e \in alone', NEW f \in alone', e # f, e # t
        PROVE  tickets'[e] \cap tickets'[f] = {}
    <3>1. tickets'[e] = tickets[e] /\ e \in alone
      BY <1>1, <1>5, <2>2
    <3>2. CASE f # t
      BY <1>1, <1>3, <1>5, <2>2, <3>1, <3>2 DEF TurnsToldOnce, Widget!TurnsToldOnce
    <3>3. CASE f = t
      BY <1>3, <1>5, <2>2, <3>1, <3>3 DEF SealInv
    <3> QED BY <3>2, <3>3
  <2>3. \A e, f \in alone' : e # f => tickets'[e] \cap tickets'[f] = {}
    BY <2>2
  <2> QED BY <2>1, <2>3 DEF TurnsToldOnce, Widget!TurnsToldOnce, Told
<1> QED BY <1>7, <1>9, <1>11, <1>12, <1>13, <1>15, <1>17, <1>18, <1>19 DEF SessionInv

\* The session is cleared.
LEMMA Clears ==
  ASSUME Widget!SessionTypeOK, SessionInv, NEW p \in Requests, NEW v \in Widget!Visits,
         visit[p].at = "clear",
         visit' = [visit EXCEPT ![p] = v],
         session' = <<>>,
         kept' = IF visit[p].blind THEN {} ELSE kept,
         UNCHANGED <<last, tickets, alone>>,
         \/ v = Widget!Idle
         \/ v = [visit[p] EXCEPT !.at = "state"] /\ visit[p].act = "escalate"
  PROVE  Widget!SessionTypeOK' /\ SessionInv'
<1>1. /\ visit \in [Requests -> Widget!Visits] /\ tickets \in [Widget!Turns -> SUBSET Widget!Turns]
      /\ last \in 0..MaxTurns /\ MaxTurns \in Nat /\ alone \in SUBSET Widget!Turns
      /\ kept' \subseteq kept /\ kept \in SUBSET Widget!Turns
      /\ session' \in Seq(Widget!Message) /\ Len(session') <= Cap
  BY ConversationsAssumption DEF Widget!SessionTypeOK
<1>2. visit'[p] = v /\ \A q \in Requests \ {p} : visit'[q] = visit[q]
  BY <1>1
<1>3. Widget!SessionTypeOK'
  BY <1>1 DEF Widget!SessionTypeOK
<1>4. TurnInv /\ BegunInv /\ AloneInv /\ TicketInv /\ SealInv /\ KeptInv /\ ReplyInv
      /\ TurnsToldOnce
  BY DEF SessionInv
<1>5. /\ Inside(p) /\ visit[p].turn \in Widget!Turns
      /\ visit[p].loaded \subseteq tickets[visit[p].turn]
  <2>1. visit[p].turn # 0 /\ visit[p].turn \in 0..MaxTurns
    BY <1>1, <1>4 DEF TurnInv, Widget!Visits
  <2> QED BY <1>1, <1>4, <2>1 DEF Inside, Widget!Inside, TicketInv, Widget!Turns
<1>6. \/ /\ v.at = "state" /\ v.turn = visit[p].turn /\ v.loaded = visit[p].loaded
         /\ v.list = visit[p].list /\ v.blind = visit[p].blind /\ v.act = "escalate"
      \/ /\ v.at = "idle" /\ v.turn = 0 /\ v.loaded = {} /\ v.list = <<>> /\ ~Inside(p)'
  <2>1. CASE v = Widget!Idle
    BY <1>2, <2>1, IdleVisit DEF Inside, Widget!Idle
  <2> QED BY <1>1, <2>1 DEF Widget!Visits
<1>7. TurnInv'
  BY <1>1, <1>2, <1>4, <1>5, <1>6, IdleVisit DEF TurnInv, Inside, Widget!Inside
<1>8. \A u : Begun(u) => Begun(u)'
  BY <1>2, <1>6 DEF Begun
<1>9. BegunInv'
  <2>1. Widget!TurnsIn(session') = {}
        /\ \A q \in Requests : \/ Widget!TurnsIn(visit'[q].list) = Widget!TurnsIn(visit[q].list)
                               \/ Widget!TurnsIn(visit'[q].list) = {}
    BY <1>2, <1>6, IdleVisit
  <2>2. \A u \in alone' \cup Widget!TurnsIn(session') : Begun(u)'
    BY <1>4, <1>8, <2>1 DEF BegunInv
  <2>3. ASSUME NEW q \in Requests
        PROVE  /\ \A u \in visit'[q].loaded : Begun(u)'
               /\ \A u \in Widget!TurnsIn(visit'[q].list) : Begun(u)'
    BY <1>2, <1>4, <1>6, <1>8, <2>1 DEF BegunInv
  <2>4. \A e \in Widget!Turns : \A u \in tickets'[e] : Begun(u)'
    BY <1>4, <1>8 DEF BegunInv
  <2> QED BY <2>2, <2>3, <2>4 DEF BegunInv, Widget!TurnsIn
<1>10. AloneInv'
  BY <1>2, <1>4, <1>5, <1>6 DEF AloneInv, Inside
<1>11. TicketInv'
  BY <1>1, <1>2, <1>4, <1>6 DEF TicketInv
<1>12. SealInv'
  <2>1. Widget!TurnsIn(session') = {}
    BY IdleVisit
  <2>2. ASSUME NEW e \in alone, tickets[e] # {}, NEW q \in Requests, visit'[q].turn # e
        PROVE  /\ visit'[q].turn \notin tickets[e]
               /\ visit'[q].loaded \cap tickets[e] = {}
               /\ Widget!TurnsIn(visit'[q].list) \cap tickets[e] = {}
    <3>1. 0 \notin tickets[e]
      BY <1>1, <2>2 DEF Widget!Turns
    <3>2. CASE q = p
      BY <1>2, <1>4, <1>6, <2>2, <3>1, <3>2, IdleVisit DEF SealInv
    <3>3. CASE q # p
      BY <1>2, <1>4, <2>2, <3>3 DEF SealInv
    <3> QED BY <3>2, <3>3
  <2> QED BY <2>1, <2>2 DEF SealInv, Widget!TurnsIn
<1>13. \A u \in kept' : Told(u)
  BY <1>1, <1>4, <1>5 DEF KeptInv, Told
<1>14. KeptInv'
  BY <1>13 DEF KeptInv, Told
<1>15. ReplyInv'
  BY <1>2, <1>4, <1>5, <1>6 DEF ReplyInv, AloneInv, Inside, Widget!Inside
<1>16. TurnsToldOnce'
  BY <1>4, <1>13 DEF TurnsToldOnce, Widget!TurnsToldOnce, Told
<1> QED BY <1>3, <1>7, <1>9, <1>10, <1>11, <1>12, <1>14, <1>15, <1>16 DEF SessionInv

\* append_message has read the messages.
LEMMA Reads ==
  ASSUME Widget!SessionTypeOK, SessionInv, NEW p \in Requests,
         NEW step \in {"writeUser", "writeReply"},
         visit[p].at = IF step = "writeUser" THEN "readUser" ELSE "readReply",
         visit' = [visit EXCEPT ![p].at = step, ![p].list = session],
         UNCHANGED <<last, session, tickets, alone, kept>>
  PROVE  Widget!SessionTypeOK' /\ SessionInv'
<1>1. /\ visit \in [Requests -> Widget!Visits] /\ session \in Seq(Widget!Message)
  BY ConversationsAssumption DEF Widget!SessionTypeOK
<1>2. /\ visit'[p].at = step /\ visit'[p].turn = visit[p].turn /\ visit'[p].list = session
      /\ visit'[p].loaded = visit[p].loaded /\ visit'[p].blind = visit[p].blind
      /\ visit'[p].act = visit[p].act
      /\ \A q \in Requests \ {p} : visit'[q] = visit[q]
      /\ visit' \in [Requests -> Widget!Visits]
  <2> DEFINE v == [visit[p] EXCEPT !.at = step, !.list = session]
  <2>1. visit' = [visit EXCEPT ![p] = v]
    BY <1>1
  <2>2. /\ v.at = step /\ v.turn = visit[p].turn /\ v.list = session
        /\ v.loaded = visit[p].loaded /\ v.blind = visit[p].blind /\ v.act = visit[p].act
        /\ v \in Widget!Visits
    BY <1>1 DEF Widget!Visits, Widget!Inside
  <2> HIDE DEF v
  <2> QED BY <1>1, <2>1, <2>2
<1>3. Widget!SessionTypeOK'
  BY <1>1, <1>2 DEF Widget!SessionTypeOK
<1>4. TurnInv /\ BegunInv /\ AloneInv /\ TicketInv /\ SealInv /\ KeptInv /\ ReplyInv
      /\ TurnsToldOnce
  BY DEF SessionInv
<1>5. Inside(p) /\ Inside(p)' /\ visit[p].at \notin {"idle", "clear", "state"}
  BY <1>2 DEF Inside, Widget!Inside
<1>6. TurnInv'
  BY <1>2, <1>4, <1>5, IdleVisit DEF TurnInv, Inside
<1>7. \A u : Begun(u) => Begun(u)'
  BY <1>2 DEF Begun
<1>8. BegunInv'
  <2>1. Widget!TurnsIn(session') = Widget!TurnsIn(session)
        /\ Widget!TurnsIn(visit'[p].list) = Widget!TurnsIn(session)
        /\ \A q \in Requests \ {p} : Widget!TurnsIn(visit'[q].list) = Widget!TurnsIn(visit[q].list)
    BY <1>2
  <2>2. \A u \in alone' \cup Widget!TurnsIn(session') : Begun(u)'
    BY <1>4, <1>7, <2>1 DEF BegunInv
  <2>3. ASSUME NEW q \in Requests
        PROVE  /\ \A u \in visit'[q].loaded : Begun(u)'
               /\ \A u \in Widget!TurnsIn(visit'[q].list) : Begun(u)'
    BY <1>2, <1>4, <1>7, <2>1 DEF BegunInv
  <2>4. \A e \in Widget!Turns : \A u \in tickets'[e] : Begun(u)'
    BY <1>4, <1>7 DEF BegunInv
  <2> QED BY <2>2, <2>3, <2>4 DEF BegunInv, Widget!TurnsIn
<1>9. AloneInv'
  BY <1>2, <1>4, <1>5 DEF AloneInv, Inside
<1>10. TicketInv'
  BY <1>2, <1>4, <1>5 DEF TicketInv
<1>11. SealInv'
  <2>1. ASSUME NEW e \in alone, tickets[e] # {}
        PROVE  Widget!TurnsIn(session) \cap tickets[e] = {}
    <3>1. ASSUME NEW q \in Requests, visit[q].turn = e, visit[q].at = "clear"
          PROVE  FALSE
      BY <1>4, <1>5, <2>1, <3>1 DEF AloneInv, Inside, Widget!Inside
    <3> QED BY <1>4, <2>1, <3>1 DEF SealInv
  <2>2. ASSUME NEW e \in alone, tickets[e] # {}, NEW q \in Requests, visit'[q].turn # e
        PROVE  /\ visit'[q].turn \notin tickets[e]
               /\ visit'[q].loaded \cap tickets[e] = {}
               /\ Widget!TurnsIn(visit'[q].list) \cap tickets[e] = {}
    <3>1. CASE q = p
      BY <1>2, <1>4, <2>1, <2>2, <3>1 DEF SealInv
    <3>2. CASE q # p
      BY <1>2, <1>4, <2>2, <3>2 DEF SealInv
    <3> QED BY <3>1, <3>2
  <2>3. Widget!TurnsIn(session') = Widget!TurnsIn(session)
    OBVIOUS
  <2> QED BY <2>1, <2>2, <2>3 DEF SealInv, Widget!TurnsIn
<1>12. KeptInv'
  <2>1. \A u : Told(u)' = Told(u)
    BY DEF Told
  <2>2. ASSUME NEW u \in kept, ~Told(u), NEW q \in Requests
        PROVE  /\ visit'[q].at \in {"writeUser", "writeReply"} =>
                    Widget!WholeIn(u, visit'[q].list)
               /\ Inside(q)' /\ ~visit'[q].blind => u \in visit'[q].loaded
    <3>1. CASE q = p
      BY <1>2, <1>4, <1>5, <2>2, <3>1 DEF KeptInv
    <3>2. CASE q # p
      BY <1>2, <1>4, <2>2, <3>2 DEF KeptInv, Inside
    <3> QED BY <3>1, <3>2
  <2> QED BY <1>4, <2>1, <2>2 DEF KeptInv, Inside, Widget!WholeIn
<1>13. ReplyInv'
  <2>1. ASSUME NEW q \in Requests, visit'[q].turn \in alone
        PROVE  /\ visit'[q].at = "readReply" => EndsWith(session, visit'[q].turn)
               /\ visit'[q].at = "writeReply" => EndsWith(visit'[q].list, visit'[q].turn)
    BY <1>2, <1>4, <2>1 DEF ReplyInv
  <2> QED BY <2>1 DEF ReplyInv, EndsWith
<1>14. TurnsToldOnce'
  BY <1>4 DEF TurnsToldOnce, Widget!TurnsToldOnce, Widget!WholeIn
<1> QED BY <1>3, <1>6, <1>8, <1>9, <1>10, <1>11, <1>12, <1>13, <1>14 DEF SessionInv

\* The session expires, while no request is between its message and its reply.
LEMMA Expires ==
  ASSUME Widget!SessionTypeOK, SessionInv, Widget!ExpireSession
  PROVE  Widget!SessionTypeOK' /\ SessionInv'
<1>1. /\ session' = <<>> /\ kept' = {}
      /\ \A p \in Requests : visit[p].at \notin {"readReply", "writeReply"}
      /\ UNCHANGED <<last, visit, tickets, alone>>
      /\ <<>> \in Seq(Widget!Message) /\ Len(<<>>) <= Cap
  BY ConversationsAssumption DEF Widget!ExpireSession
<1>2. Widget!SessionTypeOK'
  BY <1>1 DEF Widget!SessionTypeOK
<1>3. TurnInv /\ BegunInv /\ AloneInv /\ TicketInv /\ SealInv /\ KeptInv /\ ReplyInv
      /\ TurnsToldOnce
  BY DEF SessionInv
<1>4. Widget!TurnsIn(session') = {}
  BY <1>1, IdleVisit
<1>5. TurnInv' /\ AloneInv' /\ TicketInv' /\ KeptInv' /\ ReplyInv'
  BY <1>1, <1>3 DEF TurnInv, AloneInv, TicketInv, KeptInv, ReplyInv, Inside
<1>6. \A u : Begun(u) => Begun(u)'
  BY <1>1 DEF Begun
<1>7. BegunInv'
  <2>1. \A u \in alone' \cup Widget!TurnsIn(session') : Begun(u)'
    BY <1>1, <1>3, <1>4, <1>6 DEF BegunInv
  <2>2. ASSUME NEW q \in Requests
        PROVE  /\ \A u \in visit'[q].loaded : Begun(u)'
               /\ \A u \in Widget!TurnsIn(visit'[q].list) : Begun(u)'
    BY <1>1, <1>3, <1>6 DEF BegunInv
  <2>3. \A e \in Widget!Turns : \A u \in tickets'[e] : Begun(u)'
    BY <1>1, <1>3, <1>6 DEF BegunInv
  <2> QED BY <2>1, <2>2, <2>3 DEF BegunInv, Widget!TurnsIn
<1>8. SealInv'
  BY <1>1, <1>3, <1>4 DEF SealInv
<1>9. TurnsToldOnce'
  BY <1>1, <1>3 DEF TurnsToldOnce, Widget!TurnsToldOnce
<1> QED BY <1>2, <1>3, <1>5, <1>7, <1>8, <1>9 DEF SessionInv

\* append_message writes the list that it has read and one message more.
LEMMA Writes ==
  ASSUME Widget!SessionTypeOK, SessionInv, NEW p \in Requests, NEW v \in Widget!Visits,
         NEW by \in {"user", "assistant"}, NEW list,
         visit[p].at = IF by = "user" THEN "writeUser" ELSE "writeReply",
         list = Append(visit[p].list, [turn |-> visit[p].turn, by |-> by]),
         session' = Widget!Newest(list),
         kept' = (kept \ Widget!Surplus(list))
                   \cup (IF by = "user" THEN {} ELSE {visit[p].turn} \cap alone),
         visit' = [visit EXCEPT ![p] = v],
         v = IF by = "user" THEN [visit[p] EXCEPT !.at = "readReply", !.list = <<>>]
             ELSE Widget!Idle,
         UNCHANGED <<last, tickets, alone>>
  PROVE  Widget!SessionTypeOK' /\ SessionInv'
<1> DEFINE t == visit[p].turn
<1>1. /\ visit \in [Requests -> Widget!Visits] /\ tickets \in [Widget!Turns -> SUBSET Widget!Turns]
      /\ last \in 0..MaxTurns /\ MaxTurns \in Nat /\ alone \in SUBSET Widget!Turns
      /\ visit[p].list \in Seq(Widget!Message) /\ kept \in SUBSET Widget!Turns
  BY ConversationsAssumption DEF Widget!SessionTypeOK, Widget!Visits
<1>2. visit'[p] = v /\ \A q \in Requests \ {p} : visit'[q] = visit[q]
  BY <1>1
<1>3. TurnInv /\ BegunInv /\ AloneInv /\ TicketInv /\ SealInv /\ KeptInv /\ ReplyInv
      /\ TurnsToldOnce
  BY DEF SessionInv
<1>4. /\ Inside(p) /\ t \in Widget!Turns /\ t # 0 /\ t <= last /\ tickets[t] = {}
      /\ visit[p].at \in {"writeUser", "writeReply"}
  <2>1. visit[p].turn \in 0..MaxTurns /\ Inside(p) /\ visit[p].at \in {"writeUser", "writeReply"}
    BY <1>1 DEF Widget!Visits, Inside, Widget!Inside
  <2>2. visit[p].turn <= last /\ visit[p].turn # 0
    BY <1>3, <2>1 DEF TurnInv
  <2> QED BY <1>3, <2>1, <2>2 DEF TicketInv, Widget!Turns
<1>5. /\ list \in Seq(Widget!Message)
      /\ Widget!TurnsIn(list) = Widget!TurnsIn(visit[p].list) \cup {t}
      /\ \A u : Widget!WholeIn(u, visit[p].list) => Widget!WholeIn(u, list)
  <2>1. [turn |-> t, by |-> by] \in Widget!Message
    BY <1>4 DEF Widget!Message
  <2> QED BY <1>1, <2>1, AppendTurns
<1>6. /\ session' \in Seq(Widget!Message) /\ Len(session') <= Cap
      /\ Widget!TurnsIn(session') \subseteq Widget!TurnsIn(visit[p].list) \cup {t}
      /\ \A u : Widget!WholeIn(u, list) /\ u \notin Widget!Surplus(list) =>
                  Widget!WholeIn(u, session')
  BY <1>5, NewestIs, NewestTurns, NewestWhole
<1>7. /\ by = "user" => EndsWith(session', t)
      /\ by = "assistant" /\ EndsWith(visit[p].list, t) => Widget!WholeIn(t, session')
  BY <1>1, <1>4, AppendEnds
<1>8. Widget!SessionTypeOK'
  BY <1>1, <1>4, <1>6 DEF Widget!SessionTypeOK
<1>9. \/ /\ v.at = "readReply" /\ v.turn = t /\ v.loaded = visit[p].loaded /\ v.list = <<>>
         /\ v.blind = visit[p].blind /\ v.act = visit[p].act /\ by = "user"
      \/ /\ v.at = "idle" /\ v.turn = 0 /\ v.loaded = {} /\ v.list = <<>> /\ ~Inside(p)'
         /\ by = "assistant"
  <2>1. CASE by = "user"
    BY <1>1, <2>1 DEF Widget!Visits
  <2>2. CASE by = "assistant"
    BY <1>2, <2>2, IdleVisit DEF Inside, Widget!Idle
  <2> QED BY <2>1, <2>2
<1>10. TurnInv'
  BY <1>1, <1>2, <1>3, <1>4, <1>9, IdleVisit DEF TurnInv, Inside, Widget!Inside
<1>11. /\ \A u : Begun(u) => Begun(u)'
       /\ Begun(t)
  BY <1>1, <1>2, <1>3, <1>4, <1>9 DEF Begun, TurnInv
<1>12. BegunInv'
  <2>1. \A q \in Requests : \/ Widget!TurnsIn(visit'[q].list) = Widget!TurnsIn(visit[q].list)
                            \/ Widget!TurnsIn(visit'[q].list) = {}
    BY <1>2, <1>9, IdleVisit
  <2>2. \A u \in alone' \cup Widget!TurnsIn(session') : Begun(u)'
    BY <1>3, <1>6, <1>11 DEF BegunInv
  <2>3. ASSUME NEW q \in Requests
        PROVE  /\ \A u \in visit'[q].loaded : Begun(u)'
               /\ \A u \in Widget!TurnsIn(visit'[q].list) : Begun(u)'
    BY <1>2, <1>3, <1>9, <1>11, <2>1 DEF BegunInv
  <2>4. \A e \in Widget!Turns : \A u \in tickets'[e] : Begun(u)'
    BY <1>3, <1>11 DEF BegunInv
  <2> QED BY <2>2, <2>3, <2>4 DEF BegunInv, Widget!TurnsIn
<1>13. AloneInv'
  BY <1>2, <1>3, <1>4, <1>9 DEF AloneInv, Inside
<1>14. TicketInv'
  BY <1>1, <1>2, <1>3, <1>4, <1>9 DEF TicketInv
<1>15. ASSUME NEW e \in alone, tickets[e] # {}
       PROVE  /\ t # e /\ 0 \notin tickets[e] /\ 0 # e
              /\ Widget!TurnsIn(session') \cap tickets[e] = {}
  <2>1. t # e /\ 0 \notin tickets[e] /\ 0 # e
    BY <1>1, <1>4, <1>15 DEF Widget!Turns
  <2>2. t \notin tickets[e] /\ Widget!TurnsIn(visit[p].list) \cap tickets[e] = {}
    BY <1>3, <1>15, <2>1 DEF SealInv
  <2> QED BY <1>6, <2>1, <2>2
<1>16. SealInv'
  <2>1. ASSUME NEW e \in alone, tickets[e] # {}, NEW q \in Requests, visit'[q].turn # e
        PROVE  /\ visit'[q].turn \notin tickets[e]
               /\ visit'[q].loaded \cap tickets[e] = {}
               /\ Widget!TurnsIn(visit'[q].list) \cap tickets[e] = {}
    <3>1. CASE q = p
      BY <1>2, <1>3, <1>9, <1>15, <2>1, <3>1, IdleVisit DEF SealInv
    <3>2. CASE q # p
      BY <1>2, <1>3, <2>1, <3>2 DEF SealInv
    <3> QED BY <3>1, <3>2
  <2> QED BY <1>15, <2>1 DEF SealInv, Widget!TurnsIn
<1>17. ASSUME by = "assistant", t \in alone
       PROVE  Widget!WholeIn(t, session') /\ \A q \in Requests : ~Inside(q)'
  <2>1. Widget!WholeIn(t, session')
    BY <1>3, <1>7, <1>17 DEF ReplyInv
  <2>2. \A q \in Requests : Inside(q) => q = p
    BY <1>3, <1>4, <1>17 DEF AloneInv
  <2>3. \A q \in Requests : ~Inside(q)'
    BY <1>2, <1>9, <1>17, <2>2 DEF Inside
  <2> QED BY <2>1, <2>3
<1>18. KeptInv'
  <2>1. \A u : Told(u)' = Told(u)
    BY DEF Told
  <2>2. ASSUME NEW u \in kept, u \notin Widget!Surplus(list), ~Told(u)
        PROVE  /\ Widget!WholeIn(u, session')
               /\ \A q \in Requests :
                    /\ visit'[q].at \in {"writeUser", "writeReply"} =>
                         Widget!WholeIn(u, visit'[q].list)
                    /\ Inside(q)' /\ ~visit'[q].blind => u \in visit'[q].loaded
    <3>1. Widget!WholeIn(u, session')
      BY <1>3, <1>4, <1>5, <1>6, <2>2 DEF KeptInv
    <3>2. ASSUME NEW q \in Requests
          PROVE  /\ visit'[q].at \in {"writeUser", "writeReply"} =>
                      Widget!WholeIn(u, visit'[q].list)
                 /\ Inside(q)' /\ ~visit'[q].blind => u \in visit'[q].loaded
      <4>1. CASE q = p
        BY <1>2, <1>3, <1>4, <1>9, <2>2, <4>1 DEF KeptInv
      <4>2. CASE q # p
        BY <1>2, <1>3, <2>2, <4>2 DEF KeptInv, Inside
      <4> QED BY <4>1, <4>2
    <3> QED BY <3>1, <3>2
  <2>3. ASSUME by = "assistant", t \in alone
        PROVE  /\ Widget!WholeIn(t, session')
               /\ \A q \in Requests :
                    /\ visit'[q].at \in {"writeUser", "writeReply"} =>
                         Widget!WholeIn(t, visit'[q].list)
                    /\ Inside(q)' /\ ~visit'[q].blind => t \in visit'[q].loaded
    BY <1>17, <2>3 DEF Inside, Widget!Inside
  <2>4. ASSUME NEW u \in kept', ~Told(u)
        PROVE  /\ Widget!WholeIn(u, session')
               /\ \A q \in Requests :
                    /\ visit'[q].at \in {"writeUser", "writeReply"} =>
                         Widget!WholeIn(u, visit'[q].list)
                    /\ Inside(q)' /\ ~visit'[q].blind => u \in visit'[q].loaded
    <3>1. CASE u \in kept /\ u \notin Widget!Surplus(list)
      BY <2>2, <2>4, <3>1
    <3>2. CASE ~(u \in kept /\ u \notin Widget!Surplus(list))
      <4>1. by = "assistant" /\ u = t /\ t \in alone
        BY <2>4, <3>2
      <4> QED BY <2>3, <4>1
    <3> QED BY <3>1, <3>2
  <2> QED BY <2>1, <2>4 DEF KeptInv, Inside, Widget!WholeIn
<1>19. ReplyInv'
  <2>1. ASSUME NEW q \in Requests, visit'[q].turn \in alone
        PROVE  /\ visit'[q].at = "readReply" => EndsWith(session', visit'[q].turn)
               /\ visit'[q].at = "writeReply" => EndsWith(visit'[q].list, visit'[q].turn)
    <3>1. CASE q = p
      BY <1>2, <1>7, <1>9, <3>1
    <3>2. CASE q # p
      <4>1. ~Inside(q)
        BY <1>2, <1>3, <1>4, <2>1, <3>2 DEF AloneInv
      <4> QED BY <1>2, <3>2, <4>1 DEF Inside, Widget!Inside
    <3> QED BY <3>1, <3>2
  <2> QED BY <2>1 DEF ReplyInv, EndsWith
<1>20. TurnsToldOnce'
  <2>1. \A u \in kept' : Widget!WholeIn(u, session)' \/ Told(u)'
    BY <1>18 DEF KeptInv
  <2> QED BY <1>3, <2>1 DEF TurnsToldOnce, Widget!TurnsToldOnce, Told
<1> QED BY <1>8, <1>10, <1>12, <1>13, <1>14, <1>16, <1>18, <1>19, <1>20 DEF SessionInv

\* A step of another part may number a turn; no session is touched.
LEMMA SessionLater ==
  ASSUME Widget!SessionTypeOK, SessionInv, UNCHANGED sessionOnly, last' \in last..MaxTurns
  PROVE  Widget!SessionTypeOK' /\ SessionInv'
<1>1. /\ last \in 0..MaxTurns /\ last' \in 0..MaxTurns /\ last' >= last
      /\ 1..last \subseteq 1..last' /\ visit \in [Requests -> Widget!Visits]
      /\ UNCHANGED <<session, visit, tickets, alone, kept>>
  BY DEF Widget!SessionTypeOK, sessionOnly
<1>2. TurnInv /\ BegunInv /\ AloneInv /\ TicketInv /\ SealInv /\ KeptInv /\ ReplyInv
      /\ TurnsToldOnce
  BY DEF SessionInv
<1>3. Widget!SessionTypeOK'
  BY <1>1 DEF Widget!SessionTypeOK
<1>4. TurnInv'
  <2>1. \A p \in Requests : visit[p].turn \in 0..MaxTurns
    BY <1>1 DEF Widget!Visits
  <2> QED BY <1>1, <1>2, <2>1 DEF TurnInv, Inside
<1>5. ASSUME NEW u \in Widget!Turns, Begun(u)
      PROVE  Begun(u)'
  BY <1>1, <1>5 DEF Begun, Widget!Turns
<1>6. BegunInv'
  <2>1. /\ Widget!TurnsIn(session) \subseteq Widget!Turns
        /\ alone \subseteq Widget!Turns
        /\ \A p \in Requests : /\ visit[p].loaded \subseteq Widget!Turns
                               /\ Widget!TurnsIn(visit[p].list) \subseteq Widget!Turns
        /\ \A e \in Widget!Turns : tickets[e] \subseteq Widget!Turns
    BY <1>1, TurnsTyped DEF Widget!SessionTypeOK, Widget!Visits
  <2>2. /\ \A u \in alone' : Begun(u)'
        /\ \A u \in Widget!TurnsIn(session) : Begun(u)'
    BY <1>1, <1>2, <1>5, <2>1 DEF BegunInv
  <2>3. ASSUME NEW p \in Requests
        PROVE  /\ \A u \in visit[p].loaded : Begun(u)'
               /\ \A u \in Widget!TurnsIn(visit[p].list) : Begun(u)'
    BY <1>1, <1>2, <1>5, <2>1 DEF BegunInv
  <2>4. \A e \in Widget!Turns : \A u \in tickets'[e] : Begun(u)'
    BY <1>1, <1>2, <1>5, <2>1 DEF BegunInv
  <2>5. Widget!TurnsIn(session') = Widget!TurnsIn(session)
        /\ \A p \in Requests : Widget!TurnsIn(visit'[p].list) = Widget!TurnsIn(visit[p].list)
    BY <1>1
  <2> QED BY <1>1, <2>2, <2>3, <2>4, <2>5 DEF BegunInv, Widget!TurnsIn
<1>7. AloneInv' /\ ReplyInv'
  BY <1>1, <1>2 DEF AloneInv, ReplyInv, Inside, EndsWith
<1>8. TicketInv'
  BY <1>1, <1>2 DEF TicketInv, Widget!Turns
<1>9. SealInv'
  BY <1>1, <1>2 DEF SealInv, Widget!TurnsIn
<1>10. KeptInv'
  BY <1>1, <1>2 DEF KeptInv, Told, Inside, Widget!WholeIn
<1>11. TurnsToldOnce'
  BY <1>1, <1>2 DEF TurnsToldOnce, Widget!TurnsToldOnce, Widget!WholeIn
<1> QED BY <1>3, <1>4, <1>6, <1>7, <1>8, <1>9, <1>10, <1>11 DEF SessionInv

\* Every step of a session is one of those above.
LEMMA SessionKeeps ==
  ASSUME Widget!SessionTypeOK, SessionInv, Widget!SessionNext
  PROVE  Widget!SessionTypeOK' /\ SessionInv' /\ last' \in last..MaxTurns
<1> DEFINE Kept == Widget!SessionTypeOK' /\ SessionInv' /\ last' \in last..MaxTurns
<1>1. /\ visit \in [Requests -> Widget!Visits] /\ session \in Seq(Widget!Message)
      /\ last \in 0..MaxTurns /\ MaxTurns \in Nat /\ TicketInv
  BY ConversationsAssumption DEF Widget!SessionTypeOK, SessionInv
<1>2. last \in last..MaxTurns
  BY <1>1
<1>3. ASSUME NEW p \in Requests,
             NEW step \in Widget!Inside \ {"clear", "writeUser", "writeReply"},
             Inside(p)
      PROVE  LET v == [visit[p] EXCEPT !.at = step] IN
             /\ v \in Widget!Visits /\ v # Widget!Idle
             /\ v.at = step /\ v.turn = visit[p].turn /\ v.loaded = visit[p].loaded
             /\ v.blind = visit[p].blind /\ v.act = visit[p].act /\ v.list = visit[p].list
             /\ [visit EXCEPT ![p].at = step] = [visit EXCEPT ![p] = v]
  BY <1>1, <1>3, IdleVisit DEF Widget!Visits
<1>4. ASSUME NEW p \in Requests, Widget!Arrive(p)
      PROVE  Kept
  BY <1>4, Arrives
<1>5. ASSUME NEW p \in Requests, Widget!Load(p)
      PROVE  Kept
  <2>1. last' = last
    BY <1>5 DEF Widget!Load
  <2> QED BY <1>2, <1>5, <2>1, LoadsKeeps
<1>6. ASSUME NEW p \in Requests, Widget!Decide(p)
      PROVE  Kept
  <2>1. PICK act \in {"gate", "respond", "other", "escalate"} :
          visit' = [visit EXCEPT ![p].act = act,
                      ![p].at = IF act = "escalate" THEN "create" ELSE "state"]
    BY <1>6 DEF Widget!Decide
  <2>2. Inside(p) /\ visit[p].at = "decide" /\ UNCHANGED <<last, session, tickets, alone, kept>>
    BY <1>6 DEF Widget!Decide, Inside, Widget!Inside
  <2>3. PICK step \in {"create", "state"} :
          /\ visit' = [visit EXCEPT ![p].act = act, ![p].at = step]
          /\ step = "create" => act = "escalate"
    BY <2>1
  <2> DEFINE v == [visit[p] EXCEPT !.act = act, !.at = step]
  <2>4. visit' = [visit EXCEPT ![p] = v]
    BY <1>1, <2>3 DEF Widget!Visits
  <2>5. v \in Widget!Visits /\ v.at = step /\ v.turn = visit[p].turn
        /\ v.loaded = visit[p].loaded /\ v.blind = visit[p].blind /\ v.act = act
        /\ v.list = visit[p].list
    BY <1>1 DEF Widget!Visits, Widget!Inside
  <2> HIDE DEF v
  <2>6. Continues(p, v)
    <3>1. tickets[v.turn] = {}
      BY <1>1, <2>2, <2>5 DEF TicketInv
    <3>2. step \in Widget!Inside \ {"clear", "writeUser", "writeReply"}
      BY DEF Widget!Inside
    <3> QED BY <2>2, <2>3, <2>5, <3>1, <3>2 DEF Continues
  <2>7. Widget!SessionTypeOK' /\ SessionInv'
    BY <2>2, <2>3, <2>4, <2>5, <2>6, Moves
  <2> QED BY <1>2, <2>2, <2>7
<1>7. ASSUME NEW p \in Requests, Widget!UpdateState(p)
      PROVE  Kept
  <2>1. /\ visit[p].at = "state" /\ Inside(p)
        /\ UNCHANGED <<last, session, tickets, alone, kept>>
    BY <1>7 DEF Widget!UpdateState, Inside, Widget!Inside
  <2>2. CASE UNCHANGED visit
    <3>1. UNCHANGED sessionOnly
      BY <2>1, <2>2 DEF sessionOnly
    <3> QED BY <1>2, <2>1, <3>1, SessionLater
  <2>3. CASE visit' = [visit EXCEPT ![p] = Widget!Idle]
    <3>1. Widget!SessionTypeOK' /\ SessionInv'
      BY <2>1, <2>3, IdleVisit, Moves
    <3> QED BY <1>2, <2>1, <3>1
  <2>4. ASSUME NEW step \in {"create", "readUser"}, visit' = [visit EXCEPT ![p].at = step],
               visit[p].act # "escalate", step = "create" => visit[p].act = "gate"
        PROVE  Kept
    <3> DEFINE v == [visit[p] EXCEPT !.at = step]
    <3>1. /\ v \in Widget!Visits
          /\ v.at = step /\ v.turn = visit[p].turn /\ v.loaded = visit[p].loaded
          /\ v.blind = visit[p].blind /\ v.act = visit[p].act /\ v.list = visit[p].list
          /\ visit' = [visit EXCEPT ![p] = v]
      BY <1>3, <2>1, <2>4 DEF Widget!Inside
    <3> HIDE DEF v
    <3>2. Continues(p, v)
      BY <1>1, <2>1, <2>4, <3>1 DEF Continues, TicketInv, Widget!Inside
    <3>3. Widget!SessionTypeOK' /\ SessionInv'
      BY <2>1, <2>4, <3>1, <3>2, Moves
    <3> QED BY <1>2, <2>1, <3>3
  <2>5. CASE visit[p].act = "gate"
    BY <1>7, <2>2, <2>4, <2>5 DEF Widget!UpdateState, Widget!Goto
  <2>6. CASE visit[p].act = "escalate"
    BY <1>7, <2>2, <2>3, <2>6 DEF Widget!UpdateState, Widget!Leave
  <2>7. CASE visit[p].act \notin {"gate", "escalate"}
    BY <1>7, <2>2, <2>4, <2>7 DEF Widget!UpdateState, Widget!Goto
  <2> QED BY <2>5, <2>6, <2>7
<1>8. ASSUME NEW p \in Requests, Widget!CreateTicket(p)
      PROVE  Kept
  <2>1. /\ visit[p].at = "create" /\ visit' = [visit EXCEPT ![p].at = "clear"]
        /\ tickets' = Widget!Ticket(p) /\ UNCHANGED <<last, session, alone, kept>>
    BY <1>8 DEF Widget!CreateTicket, Widget!Goto
  <2> DEFINE v == [visit[p] EXCEPT !.at = "clear"]
  <2>2. v \in Widget!Visits /\ visit' = [visit EXCEPT ![p] = v]
    BY <1>1, <2>1 DEF Widget!Visits, Widget!Inside
  <2>3. Widget!SessionTypeOK' /\ SessionInv'
    BY <2>1, <2>2, Tickets
  <2> QED BY <1>2, <2>1, <2>3
<1>9. ASSUME NEW p \in Requests, Widget!Escalated(p)
      PROVE  \/ visit[p].act = "gate" /\ visit' = [visit EXCEPT ![p] = Widget!Idle]
             \/ visit[p].act # "gate" /\ visit' = [visit EXCEPT ![p].at = "state"]
  BY <1>9 DEF Widget!Escalated, Widget!Leave, Widget!Goto
<1>10. ASSUME NEW p \in Requests, Widget!TicketFails(p)
       PROVE  Kept
  <2>1. /\ visit[p].at = "create" /\ Inside(p) /\ visit[p].act \in {"gate", "escalate"}
        /\ tickets' = tickets \/ tickets' = Widget!Ticket(p)
        /\ alone' = alone \ {visit[p].turn}
        /\ UNCHANGED <<last, session, kept>>
    BY <1>1, <1>10 DEF Widget!TicketFails, Widget!AloneNoMore, Inside, Widget!Inside, TicketInv
  <2>2. CASE visit' = [visit EXCEPT ![p] = Widget!Idle]
    <3>1. CASE tickets' = tickets
      <4>1. Widget!SessionTypeOK' /\ SessionInv'
        BY <2>1, <2>2, <3>1, IdleVisit, Moves
      <4> QED BY <1>2, <2>1, <4>1
    <3>2. CASE tickets' = Widget!Ticket(p)
      <4>1. Widget!SessionTypeOK' /\ SessionInv'
        BY <2>1, <2>2, <3>2, IdleVisit, Tickets
      <4> QED BY <1>2, <2>1, <4>1
    <3> QED BY <2>1, <3>1, <3>2
  <2>3. CASE visit[p].act # "gate" /\ visit' = [visit EXCEPT ![p].at = "state"]
    <3> DEFINE v == [visit[p] EXCEPT !.at = "state"]
    <3>1. /\ v \in Widget!Visits
          /\ v.at = "state" /\ v.turn = visit[p].turn /\ v.loaded = visit[p].loaded
          /\ v.blind = visit[p].blind /\ v.act = visit[p].act /\ v.list = visit[p].list
          /\ visit' = [visit EXCEPT ![p] = v]
      BY <1>3, <2>1, <2>3 DEF Widget!Inside
    <3>2. visit[p].act = "escalate"
      BY <2>1, <2>3
    <3>3. CASE tickets' = tickets
      <4>1. Continues(p, v)
        BY <2>1, <3>1, <3>2 DEF Continues, Widget!Inside
      <4> HIDE DEF v
      <4>2. Widget!SessionTypeOK' /\ SessionInv'
        BY <2>1, <3>1, <3>3, <4>1, Moves
      <4> QED BY <1>2, <2>1, <4>2
    <3>4. CASE tickets' = Widget!Ticket(p)
      <4>1. Widget!SessionTypeOK' /\ SessionInv'
        BY <2>1, <3>1, <3>2, <3>4, Tickets
      <4> QED BY <1>2, <2>1, <4>1
    <3> QED BY <2>1, <3>3, <3>4
  <2>4. Widget!Escalated(p)
    BY <1>10 DEF Widget!TicketFails
  <2> QED BY <1>9, <2>2, <2>3, <2>4
<1>11. ASSUME NEW p \in Requests, Widget!ClearSession(p)
       PROVE  Kept
  <2>1. /\ visit[p].at = "clear" /\ Inside(p) /\ visit[p].act \in {"gate", "escalate"}
        /\ UNCHANGED <<last, tickets>>
        /\ \/ /\ session' = <<>> /\ kept' = IF visit[p].blind THEN {} ELSE kept
              /\ alone' = alone
           \/ alone' = alone \ {visit[p].turn} /\ UNCHANGED <<session, kept>>
        /\ Widget!Escalated(p)
    BY <1>1, <1>11 DEF Widget!ClearSession, Widget!AloneNoMore, Inside, Widget!Inside, TicketInv
  <2>2. PICK v \in Widget!Visits :
          /\ visit' = [visit EXCEPT ![p] = v]
          /\ \/ v = Widget!Idle
             \/ v = [visit[p] EXCEPT !.at = "state"] /\ visit[p].act = "escalate"
    <3>1. CASE visit' = [visit EXCEPT ![p] = Widget!Idle]
      BY <3>1, IdleVisit
    <3>2. CASE visit[p].act # "gate" /\ visit' = [visit EXCEPT ![p].at = "state"]
      BY <1>3, <2>1, <3>2 DEF Widget!Inside
    <3> QED BY <1>9, <2>1, <3>1, <3>2
  <2>3. CASE /\ session' = <<>> /\ kept' = (IF visit[p].blind THEN {} ELSE kept)
             /\ alone' = alone
    <3>1. session' = <<>> /\ kept' = (IF visit[p].blind THEN {} ELSE kept)
          /\ UNCHANGED <<last, tickets, alone>>
      BY <2>1, <2>3
    <3>2. Widget!SessionTypeOK' /\ SessionInv'
      BY <2>1, <2>2, <3>1, Clears
    <3> QED BY <1>2, <2>1, <3>2
  <2>4. CASE alone' = alone \ {visit[p].turn} /\ UNCHANGED <<session, kept>>
    <3>1. CASE v = Widget!Idle
      <4>1. Widget!SessionTypeOK' /\ SessionInv'
        BY <2>1, <2>2, <2>4, <3>1, IdleVisit, Moves
      <4> QED BY <1>2, <2>1, <4>1
    <3>2. CASE v = [visit[p] EXCEPT !.at = "state"] /\ visit[p].act = "escalate"
      <4>1. /\ v.at = "state" /\ v.turn = visit[p].turn /\ v.loaded = visit[p].loaded
            /\ v.blind = visit[p].blind /\ v.act = "escalate" /\ v.list = visit[p].list
        BY <1>3, <2>1, <3>2 DEF Widget!Inside
      <4>2. Continues(p, v)
        BY <2>1, <4>1 DEF Continues, Widget!Inside
      <4>3. Widget!SessionTypeOK' /\ SessionInv'
        BY <2>1, <2>2, <2>4, <4>1, <4>2, Moves
      <4> QED BY <1>2, <2>1, <4>3
    <3> QED BY <2>2, <3>1, <3>2
  <2> QED BY <2>1, <2>3, <2>4
<1>12. ASSUME NEW p \in Requests, Widget!ReadMessages(p)
       PROVE  Kept
  <2>1. /\ visit[p].at \in {"readUser", "readReply"} /\ Inside(p)
        /\ UNCHANGED <<last, session, tickets, kept>>
    BY <1>12 DEF Widget!ReadMessages, Inside, Widget!Inside
  <2>2. ASSUME NEW step \in {"writeUser", "writeReply"},
               visit[p].at = IF step = "writeUser" THEN "readUser" ELSE "readReply",
               visit' = [visit EXCEPT ![p].at = step, ![p].list = session],
               alone' = alone
        PROVE  Kept
    <3>1. Widget!SessionTypeOK' /\ SessionInv'
      BY <2>1, <2>2, Reads
    <3> QED BY <1>2, <2>1, <3>1
  <2>3. CASE visit' = [visit EXCEPT ![p].at = "readReply"] /\ alone' = alone \ {visit[p].turn}
             /\ visit[p].at = "readUser"
    <3> DEFINE v == [visit[p] EXCEPT !.at = "readReply"]
    <3>1. /\ v \in Widget!Visits
          /\ v.at = "readReply" /\ v.turn = visit[p].turn /\ v.loaded = visit[p].loaded
          /\ v.blind = visit[p].blind /\ v.act = visit[p].act /\ v.list = visit[p].list
          /\ visit' = [visit EXCEPT ![p] = v]
      BY <1>3, <2>1, <2>3 DEF Widget!Inside
    <3> HIDE DEF v
    <3>2. Continues(p, v)
      BY <1>1, <2>1, <2>3, <3>1 DEF Continues, TicketInv, Widget!Inside
    <3>3. Widget!SessionTypeOK' /\ SessionInv'
      BY <2>1, <2>3, <3>1, <3>2, Moves
    <3> QED BY <1>2, <2>1, <3>3
  <2>4. CASE visit' = [visit EXCEPT ![p] = Widget!Idle] /\ alone' = alone \ {visit[p].turn}
    <3>1. Widget!SessionTypeOK' /\ SessionInv'
      BY <2>1, <2>4, IdleVisit, Moves
    <3> QED BY <1>2, <2>1, <3>1
  <2>5. CASE visit[p].at = "readUser"
    BY <1>12, <2>2, <2>3, <2>5
       DEF Widget!ReadMessages, Widget!AloneNoMore, Widget!Goto
  <2>6. CASE visit[p].at = "readReply"
    BY <1>12, <2>2, <2>4, <2>6
       DEF Widget!ReadMessages, Widget!AloneNoMore, Widget!Leave
  <2> QED BY <2>1, <2>5, <2>6
<1>13. ASSUME NEW p \in Requests, Widget!WriteMessages(p)
       PROVE  Kept
  <2>1. PICK by \in {"user", "assistant"} :
          visit[p].at = IF by = "user" THEN "writeUser" ELSE "writeReply"
    BY <1>13 DEF Widget!WriteMessages
  <2> DEFINE list == Append(visit[p].list, [turn |-> visit[p].turn, by |-> by])
             v == IF by = "user" THEN [visit[p] EXCEPT !.at = "readReply", !.list = <<>>]
                  ELSE Widget!Idle
  <2>2. /\ Inside(p) /\ UNCHANGED <<last, tickets>> /\ visit[p].at # "clear"
        /\ visit[p].at \in {"writeUser", "writeReply"}
    BY <1>13, <2>1 DEF Widget!WriteMessages, Inside, Widget!Inside
  <2>3. v \in Widget!Visits
    BY <1>1, IdleVisit DEF Widget!Visits, Widget!Inside
  <2>4. visit' = [visit EXCEPT ![p] = v]
    <3>1. CASE by = "user"
      BY <1>1, <1>13, <2>1, <3>1 DEF Widget!WriteMessages
    <3>2. CASE by = "assistant"
      BY <1>13, <2>1, <3>2 DEF Widget!WriteMessages, Widget!Leave
    <3> QED BY <3>1, <3>2
  <2>5. \/ /\ session' = Widget!Newest(list)
           /\ kept' = (kept \ Widget!Surplus(list))
                        \cup (IF by = "user" THEN {} ELSE {visit[p].turn} \cap alone)
           /\ alone' = alone
        \/ alone' = alone \ {visit[p].turn} /\ UNCHANGED <<session, kept>>
    <3>1. CASE by = "user"
      BY <1>13, <2>1, <3>1 DEF Widget!WriteMessages, Widget!AloneNoMore
    <3>2. CASE by = "assistant"
      BY <1>13, <2>1, <3>2 DEF Widget!WriteMessages, Widget!AloneNoMore
    <3> QED BY <3>1, <3>2
  <2>6. CASE /\ session' = Widget!Newest(list)
             /\ kept' = (kept \ Widget!Surplus(list))
                          \cup (IF by = "user" THEN {} ELSE {visit[p].turn} \cap alone)
             /\ alone' = alone
    <3>1. Widget!SessionTypeOK' /\ SessionInv'
      BY <2>1, <2>2, <2>3, <2>4, <2>6, Writes
    <3> QED BY <1>2, <2>2, <3>1
  <2>7. CASE alone' = alone \ {visit[p].turn} /\ UNCHANGED <<session, kept>>
    <3>1. CASE by = "assistant"
      <4>1. v = Widget!Idle
        BY <3>1
      <4>2. Widget!SessionTypeOK' /\ SessionInv'
        BY <2>2, <2>3, <2>4, <2>7, <4>1, IdleVisit, Moves
      <4> QED BY <1>2, <2>2, <4>2
    <3>2. CASE by = "user"
      <4>1. /\ v.at = "readReply" /\ v.turn = visit[p].turn /\ v.loaded = visit[p].loaded
            /\ v.blind = visit[p].blind /\ v.act = visit[p].act /\ v.list = <<>>
        BY <1>1, <3>2 DEF Widget!Visits
      <4> HIDE DEF v
      <4>2. Continues(p, v)
        BY <1>1, <2>2, <4>1 DEF Continues, TicketInv, Widget!Inside
      <4>3. Widget!SessionTypeOK' /\ SessionInv'
        BY <2>2, <2>3, <2>4, <2>7, <4>1, <4>2, Moves
      <4> QED BY <1>2, <2>2, <4>3
    <3> QED BY <3>1, <3>2
  <2> QED BY <2>5, <2>6, <2>7
<1>14. ASSUME NEW p \in Requests, Widget!Abandon(p)
       PROVE  Kept
  <2>1. /\ visit' = [visit EXCEPT ![p] = Widget!Idle] /\ alone' = alone \ {visit[p].turn}
        /\ UNCHANGED <<last, session, tickets, kept>>
    BY <1>14 DEF Widget!Abandon, Widget!Leave, Widget!AloneNoMore
  <2>2. Widget!SessionTypeOK' /\ SessionInv'
    BY <2>1, IdleVisit, Moves
  <2> QED BY <1>2, <2>1, <2>2
<1>15. CASE Widget!ExpireSession
  <2>1. last' = last
    BY <1>15 DEF Widget!ExpireSession
  <2> QED BY <1>2, <1>15, <2>1, Expires
<1>16. CASE UNCHANGED Widget!sessionVars
  <2>1. UNCHANGED sessionOnly /\ last' = last
    BY <1>16 DEF Widget!sessionVars, sessionOnly
  <2> QED BY <1>2, <2>1, SessionLater
<1> QED BY <1>4, <1>5, <1>6, <1>7, <1>8, <1>10, <1>11, <1>12, <1>13, <1>14, <1>15, <1>16
        DEF Widget!SessionNext

-----------------------------------------------------------------------------
(* All four parts.                                                         *)

ConversationsInv ==
  /\ ConversationsTypeOK
  /\ StateInv
  /\ LimiterInv
  /\ MemoryInv
  /\ SessionInv

\* Nothing is stored and no request is served.
LEMMA ConversationsInvInit ==
  ASSUME ConversationsInit
  PROVE  ConversationsInv
<1>1. /\ MaxTroubles \in Nat /\ MaxTurns \in Nat /\ Cap \in Nat
      /\ OrgLimit \in Nat \ {0} /\ IpLimit \in Nat \ {0}
      /\ IsFiniteSet(Requests) /\ Cardinality(Requests) \in Nat
  BY StateAssumption, ConversationsAssumption, FS_CardinalityType
<1>2. StateTypeOK /\ StateInv
  <2>1. NoUpdate \in [at : {"none", "read", "write"}, state : States]
    BY FreshTyped DEF NoUpdate
  <2> QED BY <1>1, <2>1, FreshTyped DEF ConversationsInit, StateInit, StateTypeOK, StateInv
<1>3. Limiter!LimiterTypeOK /\ LimiterInv
  <2>1. /\ last = 0 /\ old = 0 /\ window = [k \in Limiter!Keys |-> {}]
        /\ check = [p \in Requests |-> Limiter!Idle]
        /\ Limiter!Idle.at = "idle" /\ Limiter!Idle.since = 0
    BY DEF ConversationsInit, Limiter!LimiterInit, Limiter!Idle
  <2>2. Limiter!LimiterTypeOK
    <3>1. Limiter!Idle \in [at : {"idle", "count", "record"}, key : Limiter!Keys,
                            ip : Limiter!Keys, entry : 0..last, since : 0..last]
      BY <2>1 DEF Limiter!Idle, Limiter!Keys
    <3> QED BY <1>1, <2>1, <3>1 DEF Limiter!LimiterTypeOK
  <2>3. ASSUME NEW k \in Limiter!Keys
        PROVE  Cardinality(Counted(k)) + Cardinality(Passing(k))
                 < Limiter!LimitOf(k) + Cardinality(Requests)
    <3>1. Counted(k) = {} /\ Passing(k) = {}
      BY <2>1 DEF Counted, Passing
    <3>2. Cardinality(Counted(k)) = 0 /\ Cardinality(Passing(k)) = 0
      BY <3>1, FS_EmptySet
    <3>3. Limiter!LimitOf(k) \in Nat \ {0}
      BY <1>1 DEF Limiter!LimitOf
    <3> QED BY <1>1, <3>2, <3>3
  <2> QED BY <2>1, <2>2, <2>3 DEF LimiterInv
<1>4. Ticket!MemoryTypeOK /\ MemoryInv
  <2>1. Ticket!Idle \in Ticket!Talks /\ <<>> \in Seq(Ticket!Entries) /\ Ticket!Idle.at = "idle"
    BY <1>1 DEF Ticket!Idle, Ticket!Talks
  <2> QED BY <1>1, <2>1
          DEF ConversationsInit, Ticket!MemoryInit, Ticket!MemoryTypeOK, MemoryInv,
              MemoryTellsAll, Ticket!MemoryTellsAll
<1>5. Widget!SessionTypeOK /\ SessionInv
  <2>1. /\ last = 0 /\ session = <<>> /\ alone = {} /\ kept = {}
        /\ visit = [p \in Requests |-> Widget!Idle]
        /\ tickets = [t \in Widget!Turns |-> {}]
        /\ <<>> \in Seq(Widget!Message) /\ Len(<<>>) = 0 /\ Len(<<>>) <= Cap
    BY <1>1 DEF ConversationsInit, Widget!SessionInit
  <2>2. \A p \in Requests :
          /\ visit[p].at = "idle" /\ visit[p].turn = 0 /\ visit[p].loaded = {}
          /\ visit[p].list = <<>> /\ ~Inside(p)
    BY <2>1, IdleVisit DEF Inside, Widget!Idle
  <2>3. Widget!SessionTypeOK
    BY <1>1, <2>1, IdleVisit DEF Widget!SessionTypeOK
  <2>4. TurnInv /\ AloneInv /\ TicketInv /\ SealInv /\ KeptInv /\ ReplyInv
    BY <2>1, <2>2 DEF TurnInv, AloneInv, TicketInv, SealInv, KeptInv, ReplyInv
  <2>5. BegunInv
    BY <2>1, <2>2, IdleVisit DEF BegunInv
  <2>6. TurnsToldOnce
    BY <2>1 DEF TurnsToldOnce, Widget!TurnsToldOnce
  <2> QED BY <2>3, <2>4, <2>5, <2>6 DEF SessionInv
<1>6. part \in Parts
  BY DEF ConversationsInit
<1> QED BY <1>2, <1>3, <1>4, <1>5, <1>6 DEF ConversationsInv, ConversationsTypeOK

\* Failures are counted up to their bound.
LEMMA TroublesCounted ==
  ASSUME StateTypeOK, ConversationsNext
  PROVE  troubles' \in 0..MaxTroubles
<1>1. troubles \in 0..MaxTroubles /\ MaxTroubles \in Nat
  BY StateAssumption DEF StateTypeOK
<1>2. ASSUME UNCHANGED troubles \/ Trouble
      PROVE  troubles' \in 0..MaxTroubles
  BY <1>1, <1>2 DEF Trouble
<1>3. (Widget!Trouble => Trouble) /\ (Ticket!Trouble => Trouble)
  BY DEF Trouble, Widget!Trouble, Ticket!Trouble
<1>4. ASSUME NEW p \in Requests
      PROVE  /\ ReadState(p) => UNCHANGED troubles \/ Trouble
             /\ \A responded \in BOOLEAN :
                  WriteState(p, responded) => UNCHANGED troubles \/ Trouble
  BY DEF ReadState, WriteState
<1>5. ASSUME Widget!SessionNext
      PROVE  UNCHANGED troubles \/ Trouble
  <2>1. ASSUME NEW p \in Requests, Widget!UpdateState(p)
        PROVE  UNCHANGED troubles \/ Trouble
    <3>1. ReadState(p) \/ WriteState(p, visit[p].act = "respond")
      BY <2>1, WidgetState DEF Widget!UpdateState
    <3> QED BY <1>4, <3>1
  <2>2. ASSUME NEW p \in Requests,
               \/ Widget!Arrive(p) \/ Widget!Load(p) \/ Widget!Decide(p)
               \/ Widget!CreateTicket(p) \/ Widget!TicketFails(p) \/ Widget!ClearSession(p)
               \/ Widget!ReadMessages(p) \/ Widget!WriteMessages(p) \/ Widget!Abandon(p)
        PROVE  UNCHANGED troubles \/ Trouble
    BY <1>3, <2>2 DEF Widget!Arrive, Widget!Load, Widget!Decide, Widget!CreateTicket,
         Widget!TicketFails, Widget!ClearSession, Widget!ReadMessages, Widget!WriteMessages,
         Widget!Abandon
  <2>3. CASE Widget!ExpireSession \/ Widget!ExpireState
    BY <2>3 DEF Widget!ExpireSession, Widget!ExpireState
  <2> QED BY <1>5, <2>1, <2>2, <2>3 DEF Widget!SessionNext
<1>6. ASSUME Ticket!ChatNext \/ Ticket!MemoryNext
      PROVE  UNCHANGED troubles \/ Trouble
  <2>1. ASSUME NEW p \in Requests, Ticket!UpdateState(p)
        PROVE  UNCHANGED troubles \/ Trouble
    BY <1>4, <2>1, TicketState DEF Ticket!UpdateState
  <2>2. ASSUME NEW p \in Requests,
               \/ Ticket!Chat(p) \/ Ticket!Abandon(p) \/ Ticket!Stream(p)
               \/ Ticket!AddMessage(p) \/ Ticket!Measure(p) \/ Ticket!ReadAll(p)
               \/ Ticket!Replace(p)
        PROVE  UNCHANGED troubles
    BY <2>2 DEF Ticket!Chat, Ticket!Abandon, Ticket!Stream, Ticket!AddMessage, Ticket!Measure,
         Ticket!ReadAll, Ticket!Replace
  <2>3. CASE Ticket!ExpireMemory \/ Ticket!ExpireState
    BY <2>3 DEF Ticket!ExpireMemory, Ticket!ExpireState
  <2> QED BY <1>6, <2>1, <2>2, <2>3 DEF Ticket!ChatNext, Ticket!MemoryNext
<1> QED BY <1>2, <1>5, <1>6 DEF ConversationsNext

\* A step of one part leaves the others as they are, but that turns are numbered.
LEMMA ConversationsInvStep ==
  ASSUME ConversationsInv, [ConversationsNext]_conversationVars
  PROVE  ConversationsInv'
<1>1. /\ StateTypeOK /\ Limiter!LimiterTypeOK /\ Widget!SessionTypeOK /\ Ticket!MemoryTypeOK
      /\ StateInv /\ LimiterInv /\ MemoryInv /\ SessionInv /\ part \in Parts
      /\ last \in 0..MaxTurns /\ MaxTurns \in Nat /\ last \in last..MaxTurns
  BY ConversationsAssumption DEF ConversationsInv, ConversationsTypeOK, Widget!SessionTypeOK
<1>2. StateTypeOK' /\ StateInv'
  <2>1. troubles' \in 0..MaxTroubles
    BY <1>1, TroublesCounted DEF conversationVars, StateTypeOK
  <2> QED BY <1>1, <2>1, EveryStateStep, StateTypes, StateKeeps
<1>3. part' \in Parts
  BY <1>1 DEF ConversationsNext, conversationVars
<1>4. ASSUME UNCHANGED limiterOnly, last' \in last..MaxTurns
      PROVE  Limiter!LimiterTypeOK' /\ LimiterInv'
  <2>1. UNCHANGED <<old, window, check>>
    BY <1>4 DEF limiterOnly
  <2>2. \A k \in Limiter!Keys : Counted(k)' = Counted(k) /\ Passing(k)' = Passing(k)
    BY <2>1 DEF Counted, Passing
  <2>3. LimiterInv'
    BY <1>1, <2>1, <2>2 DEF LimiterInv
  <2> QED BY <1>1, <1>4, <2>3, LimiterLater
<1>5. ASSUME UNCHANGED memoryOnly, last' \in last..MaxTurns
      PROVE  Ticket!MemoryTypeOK' /\ MemoryInv'
  <2>1. MemoryInv'
    BY <1>1, <1>5 DEF memoryOnly, MemoryInv, MemoryTellsAll, Ticket!MemoryTellsAll, Ticket!Told
  <2> QED BY <1>1, <1>5, <2>1, MemoryLater
<1>6. ASSUME Limiter!LimiterTypeOK' /\ LimiterInv', Widget!SessionTypeOK' /\ SessionInv',
             Ticket!MemoryTypeOK' /\ MemoryInv'
      PROVE  ConversationsInv'
  BY <1>2, <1>3, <1>6 DEF ConversationsInv, ConversationsTypeOK
<1>7. CASE UNCHANGED conversationVars
  <2>1. UNCHANGED <<limiterOnly, sessionOnly, memoryOnly>> /\ last' = last
    BY <1>7 DEF conversationVars
  <2> QED BY <1>1, <1>4, <1>5, <1>6, <2>1, SessionLater
<1>8. CASE Limiter!LimiterNext /\ UNCHANGED <<sessionOnly, memoryOnly>>
  <2>1. Limiter!LimiterTypeOK' /\ LimiterInv'
    BY <1>1, <1>8, LimiterTypes, LimiterKeeps
  <2>2. last' \in last..MaxTurns
    <3>1. last' = last \/ (last < MaxTurns /\ last' = last + 1)
      BY <1>8 DEF Limiter!LimiterNext, Limiter!Count, Limiter!Record, Limiter!FailOpen,
           Limiter!Arrive, Limiter!Age
    <3> QED BY <1>1, <3>1
  <2> QED BY <1>1, <1>5, <1>6, <1>8, <2>1, <2>2, SessionLater
<1>9. CASE Widget!SessionNext /\ UNCHANGED <<limiterOnly, memoryOnly>>
  BY <1>1, <1>4, <1>5, <1>6, <1>9, SessionKeeps
<1>10. CASE Ticket!ChatNext /\ UNCHANGED <<limiterOnly, sessionOnly>>
  BY <1>1, <1>4, <1>6, <1>10, ChatTypes, SessionLater
<1>11. CASE Ticket!MemoryNext /\ UNCHANGED <<limiterOnly, sessionOnly>>
  BY <1>1, <1>4, <1>6, <1>11, MemoryTypes, MemoryKeeps, SessionLater
<1> QED BY <1>7, <1>8, <1>9, <1>10, <1>11 DEF ConversationsNext

\* Every reachable state of the limiter, the session, the conversation state and the
\* ticket's memory satisfies the invariant that the properties below follow from.
THEOREM ConversationsInvCorrect == ConversationsSpec => []ConversationsInv
BY ConversationsInvInit, ConversationsInvStep, PTL DEF ConversationsSpec

\* All that the chatbot service keeps of a conversation has its type: a session at most
\* its cap of messages, entries of a window no later than the last request.
THEOREM ConversationsTypeCorrect == ConversationsSpec => []ConversationsTypeOK
<1>1. ConversationsInv => ConversationsTypeOK
  BY DEF ConversationsInv
<1> QED BY <1>1, ConversationsInvCorrect, PTL

\* Requests that count before others record pass the limiter together, and yet no window
\* holds as many as its limit and all requests served at the same time.
THEOREM WindowsCorrect == ConversationsSpec => []WindowsHold
<1>1. ASSUME ConversationsInv
      PROVE  WindowsHold
  <2>1. Limiter!LimiterTypeOK /\ LimiterInv
    BY <1>1 DEF ConversationsInv, ConversationsTypeOK
  <2>2. ASSUME NEW k \in Limiter!Keys
        PROVE  Limiter!Cardinality({e \in window[k] : e > old})
                 < Limiter!LimitOf(k) + Limiter!Cardinality(Requests)
    <3>1. Limiter!LimitOf(k) \in Nat
      BY ConversationsAssumption DEF Limiter!LimitOf
    <3>2. Cardinality(Counted(k)) < Limiter!LimitOf(k) + Cardinality(Requests)
      BY <2>1, <3>1, Sizes DEF LimiterInv
    <3> QED BY <3>2, SameCardinality DEF Counted
  <2> QED BY <2>2 DEF WindowsHold, Limiter!WindowsHold
<1> QED BY <1>1, ConversationsInvCorrect, PTL

\* A turn answered alone stays whole in the session until it expires or is pushed out, or
\* is told in a ticket, and no turn in the tickets of two such turns.
THEOREM TurnsCorrect == ConversationsSpec => []TurnsToldOnce
<1>1. ConversationsInv => TurnsToldOnce
  BY DEF ConversationsInv, SessionInv
<1> QED BY <1>1, ConversationsInvCorrect, PTL

\* What is said on a ticket is in its memory, in its words or in a summary, unless it was
\* said while one was made or only an older summary told it.
THEOREM MemoryCorrect == ConversationsSpec => []MemoryTellsAll
<1>1. ConversationsInv => MemoryTellsAll
  BY DEF ConversationsInv, MemoryInv
<1> QED BY <1>1, ConversationsInvCorrect, PTL

\* The stage of a conversation does not go back, nor its count of turns, but where an
\* update writes what it has not read or the state is new.
THEOREM StageCorrect == ConversationsSpec => StageAdvances
<1>1. ASSUME ConversationsInv, [ConversationsNext]_conversationVars
      PROVE  [\/ conv'.stage >= conv.stage /\ conv'.turns >= conv.turns
              \/ conv' = Fresh
              \/ \E p \in behind : update[p].at = "write" /\ update'[p].at = "none"]_stateVars
  <2>1. Advances
    BY <1>1, EveryStateStep, StepAdvances DEF ConversationsInv, ConversationsTypeOK
  <2> QED BY <2>1 DEF Advances
<1> QED BY <1>1, ConversationsInvCorrect, PTL DEF ConversationsSpec, StageAdvances
=============================================================================
