\* RunPod may have no machine.
CONSTANTS
    a1 = a1  a2 = a2  r1 = r1  r2 = r2  p1 = p1  p2 = p2  p3 = p3
    Adapters = {a1}
    Requests = {r1, r2}
    Pods = {p1, p2}
    Home <- OneHome
    NoPod = NoPod
    NoReq = NoReq
    ConfiguredPod = NoPod
    Template = TRUE
    IdleSetting = ""
    StuckWatch = TRUE
    HasPath = TRUE
    Faults = {"no_capacity"}
SPECIFICATION Spec
INVARIANT NoMachineMeans503
