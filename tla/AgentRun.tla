------------------------------ MODULE AgentRun ------------------------------
(***************************************************************************)
(* The unified agent of the chatbot service: runs of                       *)
(* UnifiedAgent.run (app/agent/agent.py) and the one ToolExecutor          *)
(* (app/agent/executor.py) they share.                                     *)
(*                                                                         *)
(* The service is a single asyncio event loop, so a run executes without   *)
(* interruption from one await to the next: an action takes a run from the *)
(* answer it awaited (the LLM's, the tool's, the end of a retry delay) to  *)
(* the next thing it awaits.  The executor's call count is one attribute,  *)
(* reset whenever any run starts.                                          *)
(*                                                                         *)
(* Awaiting the context of a run (retrieval, memory; their failures are    *)
(* swallowed) touches nothing shared and is part of awaiting its first LLM *)
(* answer.  All tools are ACTIVE: no code calls set_tool_status.           *)
(***************************************************************************)
EXTENDS Integers

CONSTANTS
  Runs,           \* concurrent callers of unified_agent.run
  MaxAgentSteps,  \* MAX_AGENT_STEPS
  MaxToolCalls,   \* MAX_TOOL_CALLS_PER_RUN
  MaxRetries      \* MAX_RETRIES

ASSUME AgentAssumption ==
  /\ MaxAgentSteps \in Nat \ {0}
  /\ MaxToolCalls \in Nat \ {0}
  /\ MaxRetries \in Nat

VARIABLES
  callCount,  \* ToolExecutor._call_count
  pc,         \* run -> what it awaits
  dryRun,     \* run -> inp.dry_run
  decision,   \* run -> decision.action of the last decision taken
  steps,      \* run -> agent_step
  attempt,    \* run -> attempt, the loop variable of execute
  llmCalls,   \* history: run -> LLM decision calls made
  executed,   \* history: run -> times it executed a tool
  solo        \* history: run -> no other run overlapped it so far

execVars == <<callCount, executed, attempt>>
vars == <<callCount, pc, dryRun, decision, steps, attempt, llmCalls, executed,
          solo>>

Actions == {"respond", "tool_call", "escalate", "suggest"}
Awaits == {"idle", "llm", "tool", "delay", "returned"}

TypeOK ==
  /\ callCount \in Nat
  /\ pc \in [Runs -> Awaits]
  /\ dryRun \in [Runs -> BOOLEAN]
  /\ decision \in [Runs -> Actions]
  /\ steps \in [Runs -> Nat]
  /\ attempt \in [Runs -> Nat]
  /\ llmCalls \in [Runs -> Nat]
  /\ executed \in [Runs -> Nat]
  /\ solo \in [Runs -> BOOLEAN]

Init ==
  /\ callCount = 0
  /\ pc = [r \in Runs |-> "idle"]
  /\ dryRun = [r \in Runs |-> FALSE]
  /\ decision = [r \in Runs |-> "escalate"]
  /\ steps = [r \in Runs |-> 0]
  /\ attempt = [r \in Runs |-> 0]
  /\ llmCalls = [r \in Runs |-> 0]
  /\ executed = [r \in Runs |-> 0]
  /\ solo = [r \in Runs |-> FALSE]

Active(r) == pc[r] \in {"llm", "tool", "delay"}

-----------------------------------------------------------------------------
(* The start of a run.                                                     *)

\* reset_call_count().
ResetCallCount(r) ==
  /\ callCount' = 0
  /\ executed' = [executed EXCEPT ![r] = 0]

Enter(r, dry) ==
  /\ ~Active(r)
  /\ ResetCallCount(r)
  /\ dryRun' = [dryRun EXCEPT ![r] = dry]
  /\ steps' = [steps EXCEPT ![r] = 0]
  /\ attempt' = [attempt EXCEPT ![r] = 0]

\* The input guard passes the query: the context is built, the first LLM call made.
Start(r, dry) ==
  /\ Enter(r, dry)
  /\ pc' = [pc EXCEPT ![r] = "llm"]
  /\ llmCalls' = [llmCalls EXCEPT ![r] = 1]
  /\ solo' = [q \in Runs |-> IF q = r THEN \A o \in Runs : ~Active(o)
                              ELSE solo[q] /\ ~Active(q)]
  /\ UNCHANGED decision

\* The input guard blocks it; the count has been reset all the same.
Blocked(r, dry) ==
  /\ Enter(r, dry)
  /\ pc' = [pc EXCEPT ![r] = "returned"]
  /\ decision' = [decision EXCEPT ![r] = "escalate"]
  /\ llmCalls' = [llmCalls EXCEPT ![r] = 0]
  /\ solo' = [q \in Runs |-> q # r /\ solo[q] /\ ~Active(q)]

-----------------------------------------------------------------------------
(* What a run does with a decision of the LLM.                             *)

Return(r, action) ==
  /\ pc' = [pc EXCEPT ![r] = "returned"]
  /\ decision' = [decision EXCEPT ![r] = action]
  /\ UNCHANGED <<callCount, dryRun, steps, attempt, llmCalls, executed, solo>>

\* A final answer; an answer that does not parse or validate is "escalate".
Answer(r, action) ==
  /\ pc[r] = "llm"
  /\ action # "tool_call"
  /\ Return(r, action)

\* generate() or building the decision raises: run() catches it.
LlmFails(r) ==
  /\ pc[r] = "llm"
  /\ Return(r, "escalate")

\* Mutant: the check against MAX_AGENT_STEPS stands one step too late.
OneStepMore(r) == steps[r] > MaxAgentSteps

StepsSpent(r) == steps[r] >= MaxAgentSteps

\* Mutant: a dry run out of steps starts over instead of leaving the loop.
OutOfStepsStartsOver(r) ==
  /\ pc[r] = "llm"
  /\ StepsSpent(r)
  /\ IF dryRun[r]
     THEN /\ steps' = [steps EXCEPT ![r] = 0]
          /\ UNCHANGED <<callCount, pc, dryRun, decision, attempt, llmCalls, executed,
                         solo>>
     ELSE Return(r, "escalate")

\* A tool call after the last step: the loop breaks with the fallback decision.
OutOfSteps(r) ==
  /\ pc[r] = "llm"
  /\ StepsSpent(r)
  /\ Return(r, "escalate")

\* One more LLM decision call, counted up to one more than is ever made.
CountLlmCall(r) ==
  llmCalls' = [llmCalls EXCEPT ![r] = IF @ < MaxAgentSteps + 2 THEN @ + 1 ELSE @]

\* The tool's result is known: count the step and ask the LLM again.
FollowUp(r) ==
  /\ pc' = [pc EXCEPT ![r] = "llm"]
  /\ steps' = [steps EXCEPT ![r] = @ + 1]
  /\ CountLlmCall(r)
  /\ UNCHANGED <<dryRun, solo>>

WantsTool(r) ==
  /\ pc[r] = "llm"
  /\ ~StepsSpent(r)
  /\ decision' = [decision EXCEPT ![r] = "tool_call"]

\* simulate(): nothing runs and nothing is counted.
SimulateTool(r) ==
  /\ WantsTool(r)
  /\ dryRun[r]
  /\ FollowUp(r)
  /\ UNCHANGED execVars

\* Mutant: the check allows one call too many.
LimitPassed == callCount > MaxToolCalls

LimitReached == callCount >= MaxToolCalls

\* execute() returns at its first guard, without an await.
RefuseTool(r) ==
  /\ WantsTool(r)
  /\ ~dryRun[r]
  /\ LimitReached
  /\ FollowUp(r)
  /\ UNCHANGED execVars

\* One pass of the retry loop up to `await tool.execute`.
Execute(r, n) ==
  /\ pc' = [pc EXCEPT ![r] = "tool"]
  /\ callCount' = callCount + 1
  /\ executed' = [executed EXCEPT ![r] = @ + 1]
  /\ attempt' = [attempt EXCEPT ![r] = n]
  /\ UNCHANGED <<dryRun, steps, llmCalls, solo>>

CallTool(r) ==
  /\ WantsTool(r)
  /\ ~dryRun[r]
  /\ ~LimitReached
  /\ Execute(r, 0)

-----------------------------------------------------------------------------
(* What the executor does with the outcome of a tool.                      *)

\* It succeeds, fails for good, or fails with no retry left.
ToolDone(r) ==
  /\ pc[r] = "tool"
  /\ FollowUp(r)
  /\ UNCHANGED <<execVars, decision>>

\* Mutant: the last attempt is retried too.
RetriesWithoutEnd(r) == TRUE

MayRetry(r) == attempt[r] < MaxRetries

\* A retriable ToolExecutionError: sleep before the next attempt.
ToolFails(r) ==
  /\ pc[r] = "tool"
  /\ MayRetry(r)
  /\ pc' = [pc EXCEPT ![r] = "delay"]
  /\ UNCHANGED <<execVars, dryRun, decision, steps, llmCalls, solo>>

\* The retry does not look at the call limit again.
RetryTool(r) ==
  /\ pc[r] = "delay"
  /\ Execute(r, attempt[r] + 1)
  /\ UNCHANGED decision

Next ==
  \E r \in Runs :
    \/ \E dry \in BOOLEAN : Start(r, dry) \/ Blocked(r, dry)
    \/ \E action \in Actions : Answer(r, action)
    \/ LlmFails(r)
    \/ OutOfSteps(r)
    \/ SimulateTool(r)
    \/ RefuseTool(r)
    \/ CallTool(r)
    \/ ToolDone(r)
    \/ ToolFails(r)
    \/ RetryTool(r)

Spec == Init /\ [][Next]_vars

OnLlmAnswer(r) ==
  \/ \E action \in Actions : Answer(r, action)
  \/ LlmFails(r)
  \/ OutOfSteps(r)
  \/ SimulateTool(r)
  \/ RefuseTool(r)
  \/ CallTool(r)

\* The HTTP clients of the LLM and of the tools time out, and sleeps end: every
\* await of a run is over some time.  Nothing makes a caller start a run.
Fairness ==
  \A r \in Runs :
    /\ WF_vars(OnLlmAnswer(r))
    /\ WF_vars(ToolDone(r) \/ ToolFails(r))
    /\ WF_vars(RetryTool(r))

FairSpec == Spec /\ Fairness

-----------------------------------------------------------------------------
(* Properties.                                                             *)

\* Every decision call of a run but the last possible one pays for a step, so a
\* run makes at most one LLM call more than MAX_AGENT_STEPS, however many of
\* its tool calls the executor refuses (the loop of _run_inner).
LlmCallsBounded ==
  \A r \in Runs :
    /\ Active(r) => steps[r] <= MaxAgentSteps
    /\ llmCalls[r] <= MaxAgentSteps + 1

\* No run returns a decision that still asks for a tool: the loop ends with an
\* answer or with the escalation of a run that is out of steps.
ReturnsFinalDecision == \A r \in Runs : pc[r] = "returned" => decision[r] # "tool_call"

\* A run no other run overlaps executes tools at most MAX_TOOL_CALLS_PER_RUN
\* times, but for the retries of its last call (execute checks the count once,
\* before the retry loop).
AloneWithinBudget ==
  \A r \in Runs : solo[r] => executed[r] <= MaxToolCalls + MaxRetries

\* Whatever the other runs do to the shared count, a run executes tools at most
\* MAX_RETRIES + 1 times per step.
ExecutionsPerStep ==
  \A r \in Runs :
    executed[r] <= (MaxRetries + 1) * steps[r]
                     + (IF pc[r] \in {"tool", "delay"} THEN attempt[r] + 1 ELSE 0)

\* Every run that starts returns a decision ("Never raises", agent.py run).
RunsReturn == \A r \in Runs : Active(r) ~> pc[r] = "returned"
=============================================================================
