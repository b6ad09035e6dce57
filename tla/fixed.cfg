\* Fixed-pod mode: RUNPOD_POD_ID is set, the idle action is stop.
CONSTANTS
    a1 = a1  a2 = a2  r1 = r1  r2 = r2  p1 = p1  p2 = p2  p3 = p3
    Adapters = {a1}
    Requests = {r1, r2}
    Pods = {p1}
    Home <- OneHome
    NoPod = NoPod
    NoReq = NoReq
    ConfiguredPod = p1
    Template = FALSE
    IdleSetting = ""
    StuckWatch = TRUE
    HasPath = TRUE
    Faults = {"no_capacity", "pod_loss"}
SPECIFICATION FairSpec
INVARIANTS FixedPodOnlyStopped
PROPERTY PodsReleased
