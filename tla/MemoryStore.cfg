SPECIFICATION FairSpec
CONSTANTS
    r1 = r1
    r2 = r2
    r3 = r3
    ann = ann
    bob = bob
    x = x
    y = y
    Nobody = Nobody
    Requests <- MCPair
    Users <- MCUsers
    Demo = ann
    Contents <- MCContents
    MaxWrites = 2
INVARIANTS
    TypeOK
    MemoriesHaveEpisode
    AnnouncedAllOrNothing
    PointBeforeRow
PROPERTY EveryRequestEnds
