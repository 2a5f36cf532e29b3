SPECIFICATION Spec
CONSTANTS
    Procs = {p1, p2}
    Names = {n1, n2}
    NoName = noname
    Nobody = nobody
    Ids = {i1, i2}
    StaticSalt = static
    Passwords = {q1, q2}
    NoPassword = nopassword
    Absent = absent
    NoProfile = noprofile
    MaxChanges = 2
    MaxFaults = 1
SYMMETRY Symmetry
INVARIANTS
    TypeOK
    HistoryFoundAgain
    HistoryKept
    HistoryOpens
    NoForeignHistory
    NothingLeftToOpen
    ExclusiveUse
PROPERTIES
    TakenOnlyUnlocked
CHECK_DEADLOCK FALSE
