\* A revoked authorization hides the other proofs.
SPECIFICATION Spec
CONSTANTS
    NoExpiration = NoExpiration
    Unset = Unset
    NoMatch = NoMatch
    Link <- MCLink
    Caveats <- MCCaveats
    Worlds <- MCWorlds
    Service <- MCService
    ServiceKey <- MCServiceKey
    Provided <- MCProvided
    MaxTime = 3
INVARIANTS
    ExploresEveryOption
CHECK_DEADLOCK FALSE
