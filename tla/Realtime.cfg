CONSTANTS
    c1 = c1
    c2 = c2
    c3 = c3
    Conns = {c1, c2, c3}
    ChannelSize = 1
    Scripts <- MCScripts
    MaxHangups = 1
    MaxStalled = 1
    MaxMembers = 2
    MaxRooms = 2
SPECIFICATION Spec
INVARIANTS
    RoomsConsistent
PROPERTIES
    TasksFinish
CHECK_DEADLOCK FALSE
