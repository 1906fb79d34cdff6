SPECIFICATION RampSpec
CONSTANTS
    NProfiles = 4
    Tables = {}
    PositionTypes = {}
    Positions = {1000}
    Times = {500}
    Delays = {}
    BlendTypes = {}
    Amplitudes = {1000}
    MaxCalls = 6
    MaxLosses = 0
    MaxQueue = 20
INVARIANT RStopEnds
CHECK_DEADLOCK FALSE
