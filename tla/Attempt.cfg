SPECIFICATION FairSpec
CONSTANTS
    Specialists = {"coder", "researcher", "planner", "context_builder", "artist"}
    Providers = {"openai", "local"}
    Batches <- MCBatches
    Networked = TRUE
    MaxAttempts = 2
    Tries = 2
INVARIANTS
    UsageTraced
    PassIsEarned
    HoldersWatched
PROPERTIES
    SubtaskEnds
