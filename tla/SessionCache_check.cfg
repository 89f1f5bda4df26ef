SPECIFICATION FairSpec
CONSTANTS
    Requests = {r1, r2}
    NoCopy = NoCopy
INVARIANTS TypeOK LogoutIsFinal EndIsFinal
PROPERTIES DeletedForGood RevokedEventuallyRefused
CHECK_DEADLOCK FALSE
