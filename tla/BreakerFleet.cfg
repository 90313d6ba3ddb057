SPECIFICATION FairSpec
CONSTANTS
    Runs <- MCRuns
    Intents <- MCOne
    Threshold = 2
    Cooldown = 2
INVARIANTS
    TypeOK
    TripIsEarned
    OnlyEarlierRunsInFlight
PROPERTIES
    RunsKeepContract
    AcceptedAgain
