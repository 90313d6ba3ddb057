SPECIFICATION Spec
CONSTANTS
    MaxRecursionDepth = 2
    MaxConsecutiveFailures = 4
    TokenBudget = 1
    MaxPlan = 3
    MaxProposed = 0
    AskedAttempts <- MCAsked
    TokenCosts <- MCCosts
INVARIANT TokensBounded
