\* Three requests sharing the wrapper's store, two of them at a time.
CONSTANTS
    t1 = t1  t2 = t2  t3 = t3
    Transfers = {t1, t2, t3}
    Size <- Mixed
    ChunkSize = 2
    MaxResult = 3
    MaxResults = 2
    MaxBytes = 4
    Ttl = 2
    Timeout = 2
    ChunkTimeout = 1
    TransferFaults = {}
SPECIFICATION Spec
INVARIANTS StoreBounded NotExpiredInTransfer
PROPERTIES RefusedOnlyWhenFull FailsOnlyForTime
