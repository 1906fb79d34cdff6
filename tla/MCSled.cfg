SPECIFICATION Spec
CONSTANTS
    Config <- MCConfig
    ProfileFields <- MCProfileFields
    MaxTx = 2
    MaxQueue = 1
INVARIANTS
    TypeOK
    Cascade
    NoLostWakeup
    NoStaleCommand
    ConfiguredBeforeStart
    SetpointEdge
    SetpointOnItsWay
PROPERTIES
    ImplementsSupervisor
CHECK_DEADLOCK FALSE
