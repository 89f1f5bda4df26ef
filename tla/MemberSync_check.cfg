SPECIFICATION FairSpec
CONSTANTS
    a = a
    b = b
    c = c
    r1 = r1
    s1 = s1
    s2 = s2
    Jids = {a, b, c}
    Syncs = {s1, s2}
    Concurrency = 2
    Commands = {s1}
    Readers = {r1}
    Founders = {a, b}
    MaxFaults = 2
    MaxLosses = 1
    MaxMoves = 1
INVARIANTS TypeOK LinksAreBacked StaleListIsExplained
PROPERTIES EverybodyLinked
CHECK_DEADLOCK FALSE
