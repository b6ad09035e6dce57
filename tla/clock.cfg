\* RunPod with every movement and fault; the threshold is a round and a half.
CONSTANTS
    PollInterval = 1
    CallTime = 1
    ProbeTime = 2
    Deadline = 12
    StuckTimeout = 2
    Template = TRUE
    Born <- AnyPod
    MaxMoves = 2
    MaxPods = 3
    StuckInitPods = 2
SPECIFICATION Spec
INVARIANTS StuckPodReplaced AnsweredInTime
PROPERTIES ReplacedOnlyWhenFrozen WaitContractKept
