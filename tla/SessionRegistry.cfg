SPECIFICATION Spec
CONSTANTS
    Sessions = {s1, s2, s3}
    Rooms = {r1, r2}
    NoRoom = NoRoom
INVARIANTS
    IndexExact
PROPERTY RefinesMap
