SPECIFICATION LoopSpec
CONSTANTS
    Config <- MCConfig
    ProfileFields <- MCProfileFields
    MaxTx = 2
    MaxQueue = 4
    MaxUpsets = 4
INVARIANTS
    StaysUp
    ReadyIsTrue
PROPERTIES
    AlwaysReadyAgain
    OnlyKnownStalls
CHECK_DEADLOCK FALSE
