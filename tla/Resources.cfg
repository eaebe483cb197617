SPECIFICATION FairSpec
CONSTANTS
    Nil = Nil
    Src = "src"
    Tx <- MCTx
    NICs <- MCNICs
    Ports <- MCPorts
    Subnet <- MCSubnet
    Callers = {"u1", "u2"}
    APIPorts <- MCAPIPorts
    Plans <- MCPlans
INVARIANTS SlotHeldOnce AllOrNothing NoLeak Agreed SnapshotsMatch TakenStays Backed
PROPERTIES ClaimedEnds EveryAddressTried
CHECK_DEADLOCK FALSE
