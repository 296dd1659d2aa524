SPECIFICATION MCSpec
CONSTANTS
    None = None
    Unknown = Unknown
    Ghost = Ghost
    Red = Red
    Blue = Blue
    a1 = a1
    Players = {1, 2, 3}
    Cities = {1, 2, 3, 4}
    Alliances = {a1}
    Edges <- FogEdges
    Yield <- FogYield
    Population <- MCPopulation
    StartingCities <- FogCities
    StartingResources <- FogStart
    Batches <- FogBatches
    MaxTick = 6
INVARIANTS
    BoardConsistent
    AbsentNeverLeads
    HarnessRight
PROPERTIES
    BoardSound
    TiersByRule
    EliminationIsFinal
    FogHolds
CHECK_DEADLOCK FALSE
