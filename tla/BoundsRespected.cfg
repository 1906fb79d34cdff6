SPECIFICATION Spec
CONSTANTS
    Clients = {c1}
    BufferSize = 1023
    Backlog = 0
    Cuts = {2, 10}
    MaxConnects = 1
    ByteValues = 256
    Lengths = {6}
    Packets <- MCPackets
    Delays = {0, 5}
    NProfiles = 6
    NBuiltIn = 4
    MaxPackets = 2
    MaxOut = 1
INVARIANTS
    BoundsRespected
CHECK_DEADLOCK FALSE
