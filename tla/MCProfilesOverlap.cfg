SPECIFICATION MCSpec
CONSTANTS
    None = None
    ann = ann bob = bob
    key1 = key1 key2 = key2
    m1 = m1 m2 = m2
    red = red
    Users = {ann, bob}
    Keys = {key1}
    Owner <- MCOwner
    Matches = {1, 2}
    Alliances = {red}
    Finals <- MCFinals
    MatchIds = {1, 2}
    People = {ann, bob}
    Agents = {key1}
    Name <- MCName
    MaxPlayers = 3
    MaxTick = 3
    MaxClock = 1
INVARIANT AdjustmentsAddUp
CHECK_DEADLOCK FALSE
