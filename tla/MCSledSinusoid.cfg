SPECIFICATION SinusoidSpec
CONSTANTS
    NProfiles = 4
    Tables = {}
    PositionTypes = {}
    Positions = {1000}
    Times = {500}
    Delays = {}
    BlendTypes = {}
    Amplitudes = {1000}
    MaxCalls = 4
    MaxLosses = 1
    MaxQueue = 2
INVARIANTS
    TaskIsProfile
    StopEnds
    LoopIsClosed
PROPERTIES
    StopTakesEffect
CHECK_DEADLOCK FALSE
