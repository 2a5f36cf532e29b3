SPECIFICATION Spec
CONSTANTS
    Procs = {p1, p2}
    Names = {n1, n2}
    NoName = noname
    Nobody = nobody
    Ids = {i1, i2}
    StaticSalt = static
    Passwords = {q1}
    NoPassword = nopassword
    Absent = absent
    NoProfile = noprofile
    MaxChanges = 2
    MaxFaults = 0
SYMMETRY Symmetry
INVARIANTS
    SavesWithLock
CHECK_DEADLOCK FALSE
