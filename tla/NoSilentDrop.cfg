SPECIFICATION Spec
CONSTANTS
    Config <- MCConfig
    ProfileFields <- MCProfileFields
    MaxTx = 2
    MaxQueue = 1
INVARIANT NoSilentDrop
CHECK_DEADLOCK FALSE
