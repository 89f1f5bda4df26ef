SPECIFICATION Spec
CONSTANTS
    Readers = {r1}
    r1 = r1
    MaxMessages = 3
    Old = {1, 2}
    Limit = 2
    MaxPages = 2
    NoPage = NoPage
INVARIANTS GoingBackReturnsThePage
