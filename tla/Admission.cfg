SPECIFICATION FairSpec
CONSTANTS
    Nodes = {n1}
    Users = {u1}
    None = None
    MaxLoad = 2
    MaxFaults = 3
INVARIANTS
    TypeOK
    LoadExact
PROPERTIES
    DeadLoadReclaimed
    OutagePurges
