SPECIFICATION Spec
CONSTANTS
    f1 = f1
    f2 = f2
    Files = {f1, f2}
    Contents <- MCContents
    Projects = {a, b}
    Ingests = {i1, i2}
    WindowLines = 2
    Overlap = 1
    Concurrency = 1
    BatchSize = 2
    CacheMax = 2
    MaxEdits = 1
    MaxGaps = 1
    NoVersion = NoVersion
    None = None
SYMMETRY Symmetric
INVARIANTS StatsHonest VectorsBelong LinesFindable
PROPERTY OverwriteKeepsText
CHECK_DEADLOCK FALSE
