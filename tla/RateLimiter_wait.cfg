SPECIFICATION FairSpec
CONSTANTS
    Posts = {p1, p2}
    p1 = p1
    p2 = p2
    Maximum = 1
    Window = 1
    MaxCount = 2
PROPERTIES WaitingIsEnough
