\* Two clients of one server, a small and a sufficient cache, two faults.
SPECIFICATION FairSpec
CONSTANTS
    Client <- MCClient
    Link <- MCLink
    Block <- MCBlock
    Root <- MCRoot
    Proofs <- MCProofs
    Rank <- MCRank
    Attached <- MCAttached
    Extra <- MCExtra
    TooLarge <- MCTooLarge
    MayReject <- MCMayReject
    HandlerStatus <- AnyStatus
    Capacities <- SmallAndRoomy
    MaxResends = 1
    MaxFaults = 1
INVARIANTS
    TypeOK
    NeverAskedTwice
PROPERTIES
    ImplementsRemoteInvocation
    ExecuteReturns
    ExecuteSucceeds
CHECK_DEADLOCK FALSE
