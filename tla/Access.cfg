\* Invocations against the clock, revocations, options, signatures and the reference definition.
SPECIFICATION FairSpec
CONSTANTS
    NoExpiration = NoExpiration
    Unset = Unset
    NoMatch = NoMatch
    Link <- MCLink
    Caveats <- MCCaveats
    Worlds <- MCWorlds
    Service <- MCService
    ServiceKey <- MCServiceKey
    Provided <- MCProvided
    MaxTime = 3
INVARIANTS
    TypeOK
    HandledOnPath
    AttestationsGrounded
    OnlyAsIssued
    RevokedNeverHandled
    ValidWhileValidating
    RefusalExplained
    RefusalTrue
    DepthBounded
    CrashNeedsEmptyProof
    AccessDecides
    PrunedStillAuthorizes
PROPERTIES
    Answered
CHECK_DEADLOCK FALSE
