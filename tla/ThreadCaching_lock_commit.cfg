SPECIFICATION Spec
CONSTANTS
    Requests = {r1}
    Handlers = {h1, h2}
    r1 = r1
    h1 = h1
    h2 = h2
    RequestOps = {"post"}
    HandlerOps = {"create", "lock", "unlock"}
    MaxCommits = 6
    NoCopy = NoCopy
SYMMETRY Symmetry
PROPERTIES LockCommitLocks
