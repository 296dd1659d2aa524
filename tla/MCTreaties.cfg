SPECIFICATION MCSpec
CONSTANTS
    c1 = c1
    c2 = c2
    nap = nap
    trade = trade
    None = None
    Players <- TwoPlayers
    Armies <- ThreeArmies
    ArmyOwner <- OwnArmy
    Types <- OneType
    Cities <- TwoCities
    Distance <- ShortRoad
    MaxTreaties = 2
SYMMETRY CitySymmetry
INVARIANTS
    TypeOK
    TreatiesSound
PROPERTIES
    BreaksAreJust
    EndedIsFinal
    BreaksTold
