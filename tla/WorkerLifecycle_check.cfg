SPECIFICATION FairSpec
CONSTANTS
    Workers = {w1, w2}
    w1 = w1
    w2 = w2
    MaxTasks = 2
    MaxWaiting = 2
INVARIANTS TypeOK ResourcesStayOnTheirLoop StartedMeansReady
PROPERTIES KeepsSetUp BrokenIsReplaced
