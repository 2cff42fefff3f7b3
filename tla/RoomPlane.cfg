SPECIFICATION Spec
CONSTANTS
    Users = {u1, u2}
    Rooms = {r1}
    Nodes = {n1}
    Sfus = {s1}
    Procs = {h1, h2}
    Sweepers = {}
    None = None
    MaxRooms = 1
    MaxFaults = 0
SYMMETRY Symmetry
INVARIANTS
    LoweredOnce
    NoEmptyRoomStays
