SPECIFICATION FairSpec
CONSTANTS
    Users = {u1}
    Rooms = {r1}
    Nodes = {n1}
    Sfus = {s1}
    Procs = {h1}
    Sweepers = {"probe", "janitor"}
    None = None
    MaxRooms = 1
    MaxFaults = 1
INVARIANT
    TypeOK
PROPERTIES
    RefinesLifecycle
    DeadNodeReclaimed
    DeadSfuReclaimed
    OrphansReclaimed
