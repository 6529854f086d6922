SPECIFICATION FairSpec
CONSTANTS
  Runs = {r1, r2}
  MaxAgentSteps = 3
  MaxToolCalls = 2
  MaxRetries = 1
INVARIANTS LlmCallsBounded AloneWithinBudget ExecutionsPerStep
PROPERTY RunsReturn
