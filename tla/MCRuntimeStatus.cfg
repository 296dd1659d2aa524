SPECIFICATION MCSpec
CONSTANTS
    m1 = m1 m2 = m2 s1 = s1 s2 = s2
    None = None ann = ann bob = bob
    Matches <- TwoMatches
    Sockets <- OneSocket
    Clients = {s1, s2}
    Humans = {ann, bob}
    Seats = {"p1", "p2"}
    SeatOf <- MCSeatOf
    SendSlots = 2
    MaxEdition = 2
    Interval = 6
    Work = 1
    SendTimeout = 1
    Horizon = 13
    MaxStarts = 1
    MaxFailures = 1
    MaxUpdates = 0
INVARIANTS
    ReportTrue
    OnTimeAndTold
PROPERTIES
    ViewersServed
    QueueMovesOn
CHECK_DEADLOCK FALSE
