SPECIFICATION MCSpec
CONSTANTS
    c1 = c1 c2 = c2
    amy = amy bob = bob cid = cid
    None = None
    Players <- ThreePlayers
    Cities <- TwoCities
    Threshold = 2
INVARIANTS
    TypeOK
    RecordConsistent
    SustainedControl
PROPERTIES
    CompletionIsFinal
    SteadyLeaderOfTwoWins
    MessagesKept
CHECK_DEADLOCK FALSE
