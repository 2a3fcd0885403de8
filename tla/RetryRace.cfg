SPECIFICATION RunSpec
CONSTANTS
    Nodes <- TwoNodes
    Execs <- ThreeExecs
    NodeOf <- NodeOfThree
    TTL = 2
    Calls = {"apply", "retry"}
    Sweepers = {"n1"}
    Leader = "n1"
    NoRow = NoRow
    NoNode = NoNode
INVARIANTS
    SingleFlight
