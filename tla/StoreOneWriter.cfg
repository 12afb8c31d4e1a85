\* One goroutine puts, one gets and one iterates.
SPECIFICATION Spec
CONSTANTS
    Thread <- MCThread
    Block <- MCBlock
    Putters <- OnePutter
    Getters <- OneGetter
    Iterators <- OneIterator
    Capacities <- MCCapacities
    None = None
INVARIANTS
    TypeOK
    FatalOnlyInIteration
PROPERTIES
    ImplementsBlockSet
CHECK_DEADLOCK FALSE
