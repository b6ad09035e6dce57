\* One program of the pod: two streams, two runs, one fault, and drains.
CONSTANTS
    Streams = {1, 2}
    PipeSize = 2
    ChunkSize = 2
    MaxBytes <- OneLong
    MaxRuns = 2
    MaxFaults = 1
    MaxTail = 1
SPECIFICATION Spec
INVARIANTS Alone LogBehindConsole
PROPERTIES DrainedTail NothingLost NeverBlockedForGood DeathNoticed StopEndsChild
CHECK_DEADLOCK FALSE
