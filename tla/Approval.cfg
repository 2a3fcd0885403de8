SPECIFICATION SweepSpec
CONSTANTS
    Ids = {1}
    Approvers <- MCApprovers
    Initiator = "eve"
    Requests <- MCRequests
    Callers = {"c1", "c2"}
    Sweepers = {"s1", "s2"}
    Kickoffs = {"k1", "k2"}
    CasMaxAttempts = 4
    NoRec = NoRec
INVARIANTS
    RecordsSound
    AckedVoteCounts
PROPERTIES
    IsBallot
    SettledStays
    OverdueSettles
