SPECIFICATION Spec
CONSTANTS
    p1 = p1
    p2 = p2
    Nobody = Nobody
    Toucher = Toucher
    Passes <- MCPasses
    N = 4
    DedupBatch = 3
    UtilityBatch = 3
    Clusters <- MCClusters
    Steady = {1}
    Touched = {1}
    MaxTouches = 1
SYMMETRY Symmetric
INVARIANTS
    ClusterSurvives
    SurvivorsDissimilar
    LostOnlyByFailedPass
    UsedDoNotDecay
CHECK_DEADLOCK FALSE
