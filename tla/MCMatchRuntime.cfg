SPECIFICATION MCSpec
CONSTANTS
    p1 = p1 p2 = p2
    Nothing = Nothing a1 = a1 a2 = a2 a3 = a3
    ann = ann bob = bob k1 = k1 k2 = k2 k3 = k3 s1 = s1 s2 = s2 s3 = s3
    Players <- TwoPlayers
    MaxTick = 3
    MaxSubmissions = 3
    Users = {ann, bob}
    Keys = {k1, k2, k3}
    Owner <- MCOwner
    Seat <- MCSeat
    Parties = {s1, s2}
    Revocable = {k1}
    Agents = {a1, a2}
    Partner <- MCPartner
    Matches = {1}
    MaxPlayers = 3
    Allowance = 2
    MaxServerTick = 1
    MaxRuns = 2
    LastTick = 3
    MaxWhispers = 2
    MaxOrders = 3
    MaxReloads = 1
INVARIANTS
    TypeOK
    MemoryMatchesRow
    OrdersHonored
    AgentsServed
PROPERTIES
    HistorySpec
    PlayGoesOn
    OwnersServed
CHECK_DEADLOCK FALSE
