\* Two adapters share the active-pod-id file, nothing fails.
CONSTANTS
    a1 = a1  a2 = a2  r1 = r1  r2 = r2  p1 = p1  p2 = p2  p3 = p3
    Adapters = {a1, a2}
    Requests = {r1, r2}
    Pods = {p1, p2, p3}
    Home <- TwoHomes
    NoPod = NoPod
    NoReq = NoReq
    ConfiguredPod = NoPod
    Template = TRUE
    IdleSetting = ""
    StuckWatch = TRUE
    HasPath = TRUE
    Faults = {}
SPECIFICATION Spec
PROPERTY ForgottenOnlyWhenGone
