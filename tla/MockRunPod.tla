---------------------------- MODULE MockRunPod ------------------------------
(***************************************************************************)
(* The pods of scripts/mock_runpod_graphql.py as get_pod shows them: the   *)
(* first MOCK_STUCK_INIT_PODS pods never get a runtime, all others have it *)
(* from the start.                                                         *)
(***************************************************************************)
EXTENDS Integers

CONSTANT StuckInitPods   \* MOCK_STUCK_INIT_PODS

InitializingPod ==
    [mark |-> 0, machine |-> TRUE, runtime |-> "unset", wrapper |-> "silent",
     gone |-> FALSE, moved |-> 0]

RunningPod ==
    [InitializingPod EXCEPT !.runtime = "mapped", !.wrapper = "healthy"]

\* podFindAndDeployOnDemand, the k-th one.
MockPod(k) == IF k <= StuckInitPods THEN {InitializingPod} ELSE {RunningPod}

=============================================================================
