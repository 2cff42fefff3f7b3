SPECIFICATION Spec

CONSTANTS
    Sessions = {s1, s2}
    Rooms = {r1, r2}
    Me = me
    Peers = {p1, p2}
    Requests = {q1, q2}
    None = None
    MaxSockets = 3
    TilesPerPage = 2
    RailTilesPerPage = 1

INVARIANTS
    NoGhost
    MediaFollowsRoom
    DeadSocketRenews
    OnlyLateAnswersDivert
    PagesPartition

PROPERTY SliceInBounds


SYMMETRY Symmetry
