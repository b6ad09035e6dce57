------------------------------- MODULE Config -------------------------------
(***************************************************************************)
(* The deployment a run is about: which adapters, /asr requests and RunPod *)
(* pods there are, the settings of adapter/adapter/config.py the lifecycle *)
(* depends on, and the faults the environment may commit.                  *)
(***************************************************************************)
EXTENDS Naturals, FiniteSets

CONSTANTS
    Adapters,        \* adapter processes; they share one active-pod-id path
    Requests,        \* the /asr requests that may arrive, each at most once
    Home,            \* Home[r]: the adapter request r is sent to
    Pods,            \* ids RunPod can give to a pod (bounds the deploys)
    NoPod,           \* "" : no pod id
    NoReq,           \* None: no request, no lock holder, no task
    ConfiguredPod,   \* RUNPOD_POD_ID, NoPod when unset
    Template,        \* RUNPOD_TEMPLATE_ID is set
    IdleSetting,     \* RUNPOD_IDLE_ACTION, "" when unset
    StuckWatch,      \* RUNPOD_STUCK_INIT_TIMEOUT_SECONDS > 0
    HasPath,         \* RUNPOD_ACTIVE_POD_ID_PATH is not empty
    Faults           \* what the environment may do wrong, a set of FaultNames

FaultNames ==
    { "call_error",     \* a GraphQL call raises, whether or not it took effect
      "cancel_unsent",  \* a cancelled call may not have left the process yet
      "no_capacity",    \* RunPod refuses a deploy or a resume: no GPU
      "forward_error",  \* the upload or the result transfer of a request fails
      "pod_loss",       \* RunPod takes a running pod away
      "old_image",      \* a pod's wrapper lacks the result protocol
      "file_error",     \* writing or removing the active-pod-id file fails
      "crash" }         \* an adapter process dies and is started again

ASSUME ConfigAssumption ==
    /\ NoPod \notin Pods
    /\ NoReq \notin Requests
    /\ Home \in [Requests -> Adapters]
    /\ ConfiguredPod \in Pods \cup {NoPod}
    /\ Template \in BOOLEAN
    /\ StuckWatch \in BOOLEAN
    /\ HasPath \in BOOLEAN
    /\ Faults \subseteq FaultNames

ASSUME RequestsFinite == IsFiniteSet(Requests)

TemplateModeEnabled == Template

\* Mutants: the default depending on the mode is forgotten, or is wrong.
IdleActionUnset == IdleSetting

IdleActionTerminates == IF IdleSetting # "" THEN IdleSetting ELSE "terminate"

\* "stop", "terminate", or any other string the variable was set to.
IdleAction ==
    IF IdleSetting # "" THEN IdleSetting
    ELSE IF TemplateModeEnabled THEN "terminate" ELSE "stop"

=============================================================================
