SPECIFICATION MCSpec
CONSTANTS
    None = None
    ann = ann bob = bob
    key1 = key1 key2 = key2
    Users = {ann, bob}
    Keys = {key1, key2}
    Owner <- CrowdOwner
    Allowance <- CrowdAllowance
    Matches = {m1, m2}
    MaxPlayers = 3
    Unassigned = Unassigned
    Players = {1, 2, 3}
    Cities = {1, 2, 3, 4, 5, 6, 7}
    Legal = {1, 2, 3, 4, 5, 6}
    Maps <- AllMaps
    Rosters <- TwoPlayers
    PerPlayer = 2
INVARIANTS
    AssignmentRight
PROPERTIES
    SeatsRight
    Terminates
    SetupGivesBaseline
CHECK_DEADLOCK FALSE
