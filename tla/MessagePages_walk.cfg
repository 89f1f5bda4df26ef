SPECIFICATION Spec
CONSTANTS
    Readers = {r1}
    r1 = r1
    MaxMessages = 3
    Old = {1}
    Limit = 1
    MaxPages = 2
    NoPage = NoPage
INVARIANTS TypeOK StalePageIsExplained WalkSkipsNothing
PROPERTIES WalkNeverRepeats
