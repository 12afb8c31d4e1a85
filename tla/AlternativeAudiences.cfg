\* A retrieval server refuses its alternative audiences.
SPECIFICATION Spec
CONSTANTS
    NoExpiration = NoExpiration
    Unset = Unset
    NoMatch = NoMatch
    Link <- MCLink
    Caveats <- MCCaveats
    Worlds <- MCWorlds
    Service <- MCService
    ServiceKey <- MCServiceKey
    Provided <- MCProvided
    MaxTime = 3
INVARIANTS
    AlternativesAccepted
CHECK_DEADLOCK FALSE
