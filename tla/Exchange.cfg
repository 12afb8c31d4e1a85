\* A connection that holds one block, so that writers wait for readers; two faults.
SPECIFICATION FairSpec
CONSTANTS
    Block <- MCBlock
    Blocks <- MCBlocks
    Root <- MCRoot
    Buffer = 1
    MaxFaults = 2
INVARIANTS
    TypeOK
    ResultComplete
PROPERTIES
    ImplementsRemoteInvocation
    ExecuteReturns
    EncodersEnd
CHECK_DEADLOCK FALSE
