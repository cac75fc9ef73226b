SPECIFICATION Spec
CONSTANTS
    wolf = wolf
    MaxId = 2
    Entries = {wolf}
    None = None
    CleanDeadRefMaxCount = 1
    MaxAttempts = 2
    MaxFailures = 1
    MaxName = 2
    MaxDead = 1
    MaxQueue = 1
INVARIANTS TypeOK WorldIsPromise StartKeepsPromise MapShowsWorld
CHECK_DEADLOCK FALSE
