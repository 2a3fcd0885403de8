SPECIFICATION LoopSpec
CONSTANTS
    Nodes <- MCNodes
    Dispatchers <- MCNodes
    MaxFaults = 1
    MaxApprovals = 0
    NoAsg = NoAsg
INVARIANTS
    EpochClaimedOnce
    ResultOfDoneEpoch
PROPERTIES
    ClaimNotStolen
    PendingIsClaimed
