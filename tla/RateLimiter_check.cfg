SPECIFICATION FairSpec
CONSTANTS
    Posts = {p1, p2, p3}
    p1 = p1
    p2 = p2
    p3 = p3
    Maximum = 2
    Window = 3
    MaxCount = 4
INVARIANTS TypeOK TtlIsExplained AtMostTwoWindows
PROPERTIES WindowNeverProlonged BlockedRecovers
