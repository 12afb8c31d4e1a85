\* Views made from views, in every order.
SPECIFICATION Spec
CONSTANTS
    Link <- MCLink
    Proofs <- MCProofs
    Extra <- MCExtra
    Receipt <- MCReceipt
    Ran <- MCRan
    Refs <- MCRefs
    MaxViews = 5
INVARIANTS
    TypeOK
    ProofsTravel
    ExportsOnlyOwn
    AttachmentsTravel
PROPERTIES
    BlocksKept
    ReceiptsIndependent
CHECK_DEADLOCK FALSE
