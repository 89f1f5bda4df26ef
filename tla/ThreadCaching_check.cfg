SPECIFICATION FairSpec
CONSTANTS
    Requests = {r1}
    Handlers = {h1}
    r1 = r1
    h1 = h1
    RequestOps = {"list", "connect", "post"}
    HandlerOps = {"create", "lock", "edit", "sync"}
    MaxCommits = 2
    NoCopy = NoCopy
INVARIANTS TypeOK StaleCopyIsExplained
PROPERTIES NoResurrection EventualCoherence LockEventuallyEnforced
