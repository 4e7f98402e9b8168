SPECIFICATION Spec
CONSTANTS
    Processes = {p1, p2}
    Inodes = {i1, i2, i3}
    NoFile = NoFile
    Empty = Empty
    SerialClaims = FALSE
    ProbeMayFail = FALSE
SYMMETRY Symmetry
INVARIANT AtMostOneSupervisor
CHECK_DEADLOCK FALSE
