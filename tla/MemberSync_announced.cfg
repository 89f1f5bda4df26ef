SPECIFICATION Spec
CONSTANTS
    a = a
    b = b
    c = c
    r1 = r1
    s1 = s1
    s2 = s2
    Jids = {a, b, c}
    Syncs = {s1, s2}
    Concurrency = 1
    Commands = {s1, s2}
    Readers = {r1}
    Founders = {a, b}
    MaxFaults = 0
    MaxLosses = 0
    MaxMoves = 1
SYMMETRY Symmetry
INVARIANTS AnnouncedIsSynced
CHECK_DEADLOCK FALSE
