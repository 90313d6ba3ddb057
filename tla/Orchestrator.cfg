SPECIFICATION FairSpec
CONSTANTS
    MaxRecursionDepth = 2
    MaxConsecutiveFailures = 2
    TokenBudget = 0
    MaxPlan = 2
    MaxProposed = 3
    AskedAttempts <- MCAsked
    TokenCosts <- MCFree
INVARIANTS
    TypeOK
    BudgetConserved
    ProcessedOnce
    CapIsSlack
    StreakIsTrailingFailures
    VerdictMatchesWork
PROPERTIES
    SettledStays
    Terminates
    ImplementsContract
