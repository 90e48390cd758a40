CONSTANTS
    TBSets = 2
    TBWays = 2
    Tags = {0, 1, 2, 4}
    Configs <- AllSchemes
SPECIFICATION Spec
INVARIANTS
    OccupancyExact
    TLBMatchesCache
    ChunksMatchCache
    ReplacementFits
    StaleMappingsBuffered
    NewestDataServed
