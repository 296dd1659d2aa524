SPECIFICATION MCSpec
CONSTANTS
    None = None
    Keys = {key1}
    Humans = {ann}
    Hosts = {home}
    Routes = {"orders", "messages", "keys", "ws", "wsLegacy"}
    Kind <- MCKind
    Canonical <- MCCanonical
    Bodies <- AllBodies
    Limit = 2
    Window = 2
    MaxTime = 4
    MaxRequests = 4
INVARIANTS
    BurstBounded
    AnswersFit
PROPERTIES
    DenialEarned
    CallersMendingEnds
CHECK_DEADLOCK FALSE
