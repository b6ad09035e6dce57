\* One request with every fault of the network, the wrapper and WhisperX.
CONSTANTS
    t1 = t1  t2 = t2  t3 = t3
    Transfers = {t1}
    Size <- ThreeChunks
    ChunkSize = 2
    MaxResult = 6
    MaxResults = 1
    MaxBytes = 6
    Ttl = 4
    Timeout = 3
    ChunkTimeout = 2
    TransferFaults = {"loss", "damage", "restart", "upstream"}
SPECIFICATION FairSpec
INVARIANTS ChunksInOrder DeliveredWhole CleanedIsGone HandleDeleted
PROPERTIES TransferEnds
