SPECIFICATION LiveSpec
CONSTANTS
    Nodes <- TwoNodes
    Execs <- TwoExecs
    NodeOf <- NodeOfTwo
    TTL = 1
    Calls = {"apply", "autoApprove", "retry", "retryHost"}
    Sweepers = {"n1"}
    Leader = "n1"
    NoRow = NoRow
    NoNode = NoNode
PROPERTIES
    TerminalOnlyReopens
    RunningSettles
