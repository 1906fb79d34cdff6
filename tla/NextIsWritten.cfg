SPECIFICATION Spec
CONSTANTS
    NProfiles = 2
    Tables = {0}
    PositionTypes = {"pos_relative_actual"}
    Positions = {1000}
    Times = {500}
    Delays = {5}
    BlendTypes = {"bln_after"}
    MaxCalls = 6
    MaxLosses = 1
PROPERTY NextIsWritten
CHECK_DEADLOCK FALSE
