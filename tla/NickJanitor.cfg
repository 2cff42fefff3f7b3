SPECIFICATION FairSpec
CONSTANTS
    Sessions = {s1}
    Nicks = {n1}
    Nodes = {nd1, nd2}
    None = None
    MaxFaults = 1
PROPERTY DeadOwnerReclaimed
