\* Blocks attached to an invocation that is sent in parts.
SPECIFICATION Spec
CONSTANTS
    Client <- MCClient
    Link <- MCLink
    Block <- MCBlock
    Root <- MCRoot
    Proofs <- MCProofs
    Rank <- MCRank
    Attached <- MCAttached
    Extra <- MCExtra
    TooLarge <- MCTooLarge
    MayReject <- MCMayReject
    HandlerStatus <- Delivered
    Capacities <- Roomy
    MaxResends = 0
    MaxFaults = 0
INVARIANTS
    AttachmentsDelivered
CHECK_DEADLOCK FALSE
