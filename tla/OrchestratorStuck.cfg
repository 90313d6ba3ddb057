SPECIFICATION Spec
CONSTANTS
    MaxRecursionDepth = 2
    MaxConsecutiveFailures = 4
    TokenBudget = 1
    MaxPlan = 4
    MaxProposed = 1
    AskedAttempts <- MCAsked
    TokenCosts <- MCFree
INVARIANT StuckRunIsAFailure
