SPECIFICATION Spec
CONSTANTS
    Nodes <- MCNodes
    Dispatchers <- MCLeader
    MaxFaults = 1
    MaxApprovals = 1
    NoAsg = NoAsg
PROPERTIES
    ClaimNotStolen
