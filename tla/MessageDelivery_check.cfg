SPECIFICATION FairSpec
CONSTANTS
    Messages = {m1, m2}
    Workers = {w1, w2}
    m1 = m1
    m2 = m2
    w1 = w1
    w2 = w2
    MaxAttempts = 2
    Nobody = Nobody
INVARIANTS TypeOK PendingIsExplained CopiesBounded
PROPERTIES DowngradeNeedsRedelivery KeepsContract TasksSettle
