SPECIFICATION Spec
INVARIANTS
    PipelineInv
    ProtectedNeedsAdmin
    PublicIsOpen
    OnlyPricesShown
    RefusalChangesNothing
    ErrorsAreKnown
CHECK_DEADLOCK FALSE
