\* Two goroutines attach blocks to one delegation.
SPECIFICATION Spec
CONSTANTS
    Thread <- MCThread
    Block <- MCBlock
    Putters <- TwoPutters
    Getters <- Others
    Iterators <- Others
    Capacities <- MCCapacities
    None = None
INVARIANTS
    AttachedIsIterated
CHECK_DEADLOCK FALSE
