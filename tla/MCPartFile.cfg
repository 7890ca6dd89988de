SPECIFICATION Spec
CONSTANTS
    s = s
    t = t
    m = m
    n = n
    None = None
    Absent = Absent
    Hole = Hole
    Sources = {s, t}
    Size <- MCSize
    Names = {m, n}
    Segments = 2
    MinSegment = 1
    SavesFail = FALSE
INVARIANTS
    TypeOK
    PublishedIsWhole
    CountedIsWritten
    HolesArePlanned
SYMMETRY Symmetric
CHECK_DEADLOCK FALSE
