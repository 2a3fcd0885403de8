SPECIFICATION RunSpec
CONSTANTS
    Nodes <- TwoNodes
    Execs <- ThreeExecs
    NodeOf <- NodeOfThree
    TTL = 1
    Calls = {"apply"}
    Sweepers <- TwoNodes
    Leader = "n1"
    NoRow = NoRow
    NoNode = NoNode
INVARIANTS
    SingleFlight
PROPERTIES
    EvidenceOfTheHolder
