SPECIFICATION FairSpec
CONSTANTS
    Rooms = {r1}
    Parts = {p1, p2}
    Sigs = {g1}
    Streams = {k1, k2}
    Calls = {c1, c2}
    None = None
    MaxCreates = 3
INVARIANTS
    TypeOK
    PeersReclaimable
    NoDeadPeer
    RoomsExact
PROPERTY
    StreamLossReclaims
