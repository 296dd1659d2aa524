SPECIFICATION MCSpec
CONSTANTS
    c1 = c1 c2 = c2
    amy = amy bob = bob cid = cid
    None = None
    Players <- ThreePlayers
    Cities <- TwoCities
    Threshold = 2
PROPERTIES
    HandoffClearsCountdown
CHECK_DEADLOCK FALSE
