SPECIFICATION Spec
CONSTANTS
    Clients = {c1, c2}
    BufferSize = 1023
    Backlog = 0
    Cuts = {2, 10}
    MaxConnects = 2
    ByteValues = 256
    Lengths = {6}
    Packets <- MCPackets
    Delays = {0, 5}
    NProfiles = 6
    NBuiltIn = 4
    MaxPackets = 2
    MaxOut = 1
INVARIANTS
    ServerTypeOK
    InStep
    StreamsAreConnected
    ProfilesApart
    SetIsWhole
PROPERTIES
    Served
CHECK_DEADLOCK FALSE
