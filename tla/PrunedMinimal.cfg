\* Proofs that pruning leaves in although they are not needed.
SPECIFICATION Spec
CONSTANTS
    NoExpiration = NoExpiration
    Unset = Unset
    NoMatch = NoMatch
    Link <- MCLink
    Caveats <- MCCaveats
    Worlds <- MCWorlds
    Service <- MCService
    ServiceKey <- MCServiceKey
    Provided <- MCProvided
    MaxTime = 3
INVARIANTS
    PrunedIsMinimal
CHECK_DEADLOCK FALSE
