SPECIFICATION Spec
CONSTANTS
    Passes = {p1, p2, p3}
    Trees = {"alone", "package", "plain", "members"}
    Content <- MCContent
    NoTree = "none"
    MaxNodes = 2
    Depths = {1, 3}
SYMMETRY Symmetric
INVARIANTS OldPassesReplaced NeighborsExact ClustersAreComponents QueryOfOneIndex
