SPECIFICATION Spec
CONSTANTS
    Rooms = {r1}
    Parts = {p1}
    Sigs = {g1}
    Streams = {k1, k2}
    Calls = {c1}
    None = None
    MaxCreates = 2
INVARIANT
    CrashLeavesNoPeer
