SPECIFICATION Spec
CONSTANTS
    Nodes <- MCNodes
    Execs <- MCExecs
    NodeOf <- MCNodeOf
    TTL = 2
    NoRow = NoRow
INVARIANTS
    EpochBelongsToOneNode
PROPERTIES
    LostStaysLost
    WritesInEpochOrder
    NoReclaimWithinTTL
