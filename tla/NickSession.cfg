SPECIFICATION Spec
CONSTANTS
    Sessions = {s1, s2}
    Nicks = {n1}
    Nodes = {nd1}
    None = None
    MaxFaults = 1
INVARIANTS
    NicknameUnique
PROPERTY LoggedOutStaysOut
SYMMETRY Symmetry
