---------------------------- MODULE RunPodCloud -----------------------------
(***************************************************************************)
(* RunPod as adapter/adapter/runpod_client.py sees it: the life of each    *)
(* pod, and the GraphQL mutations on their way to it.  A mutation is sent, *)
(* takes effect at RunPod, and is answered in three steps, so that         *)
(* anything may happen between them.  Who calls is a pair: the handler of  *)
(* a request, or the idle task scheduled when that request finished.       *)
(***************************************************************************)
EXTENDS Config

VARIABLES
    cloud,   \* cloud[p]: state of pod p at RunPod
    call     \* call[c]: the mutation caller c has outstanding

cloudVars == <<cloud, call>>

Callers == {"asr", "idle"} \X Requests

\* unborn: never deployed.  booting: desired RUNNING, no port mapping.
\* mapped: public TCP mapping, wrapper not answering.  ready: wrapper healthy.
\* exited: stopped, exists without a mapping.  gone: no such pod.
PodStatuses == {"unborn", "booting", "mapped", "ready", "exited", "gone"}

Live(p)       == cloud[p] \in {"booting", "mapped", "ready", "exited"}
HasMapping(p) == cloud[p] \in {"mapped", "ready"}
\* machineId without runtime: what the stuck-init watchdog looks for.
NoRuntime(p)  == cloud[p] \in {"booting", "exited"}
PodIsExpectedRunning(p) == cloud[p] \in {"booting", "mapped", "ready"}

Ops == {"none", "deploy", "start", "stop", "terminate"}

\* sent: RunPod has not acted on it.  done, notfound, rejected: acted on, the
\* answer is on its way.  lost: the caller gave up, RunPod may still act on it.
CallStatuses == {"none", "sent", "done", "notfound", "rejected", "lost"}

CallType == [op : Ops, pod : Pods \cup {NoPod}, st : CallStatuses]

NoCall == [op |-> "none", pod |-> NoPod, st |-> "none"]

\* A fixed pod exists before the adapter starts, stopped.
RunPodInit ==
    /\ cloud = [p \in Pods |-> IF p = ConfiguredPod THEN "exited" ELSE "unborn"]
    /\ call = [c \in Callers |-> NoCall]

-----------------------------------------------------------------------------
\* The caller's side: start_pod, stop_pod, terminate_pod, deploy_from_template.

Send(c, op, p) ==
    call' = [call EXCEPT ![c] = [op |-> op, pod |-> p, st |-> "sent"]]

Replied(c, st) == call[c].st = st

TakeReply(c) == call' = [call EXCEPT ![c] = NoCall]

\* The caller stops waiting.  A mutation that already took effect is over; one
\* that did not may still reach RunPod, or never left when mayDrop holds.
AfterAbandon(c, mayDrop) ==
    IF call[c].st \in {"sent", "lost"}
    THEN {[call[c] EXCEPT !.st = "lost"]} \cup (IF mayDrop THEN {NoCall} ELSE {})
    ELSE {NoCall}

Abandon(c, mayDrop) ==
    \E m \in AfterAbandon(c, mayDrop) : call' = [call EXCEPT ![c] = m]

\* What _graphql can raise besides the answers above: TemporaryRunPodError,
\* BadUpstreamResponseError, httpx.ConnectError or RemoteProtocolError,
\* httpx.TimeoutException, any other httpx error.
CallErrors == {"temporary", "bad_upstream", "connect", "http_timeout", "network"}

-----------------------------------------------------------------------------
\* RunPod's side.

Answer(c, st, p) ==
    call' = [call EXCEPT ![c] =
                IF @.st = "lost" THEN NoCall ELSE [@ EXCEPT !.st = st, !.pod = p]]

Pending(c, op) == call[c].op = op /\ call[c].st \in {"sent", "lost"}

ProcessDeploy(c) ==
    /\ Pending(c, "deploy")
    /\ \E p \in Pods :
          /\ cloud[p] = "unborn"
          /\ cloud' = [cloud EXCEPT ![p] = "booting"]
          /\ Answer(c, "done", p)

\* No GPU left; also how a run ends that has used up its Pods.
RefuseForCapacity(c) ==
    /\ \/ Pending(c, "deploy")
       \/ Pending(c, "start") /\ "no_capacity" \in Faults
    /\ \/ "no_capacity" \in Faults
       \/ \A p \in Pods : cloud[p] # "unborn"
    /\ Answer(c, "rejected", call[c].pod)
    /\ UNCHANGED cloud

ProcessOnPod(c, op, status) ==
    /\ Pending(c, op)
    /\ LET p == call[c].pod IN
          IF Live(p)
          THEN /\ cloud' = [cloud EXCEPT ![p] = status]
               /\ Answer(c, "done", p)
          ELSE /\ Answer(c, "notfound", p)
               /\ UNCHANGED cloud

ProcessStart(c)     == /\ call[c].st \in {"sent", "lost"}
                       /\ ProcessOnPod(c, "start",
                             IF cloud[call[c].pod] = "exited"
                             THEN "booting" ELSE cloud[call[c].pod])
ProcessStop(c)      == ProcessOnPod(c, "stop", "exited")
ProcessTerminate(c) == ProcessOnPod(c, "terminate", "gone")

\* A pod gets its port mapping, then its wrapper starts to answer.
PodBoots(p) ==
    /\ \/ cloud[p] = "booting" /\ cloud' = [cloud EXCEPT ![p] = "mapped"]
       \/ cloud[p] = "mapped"  /\ cloud' = [cloud EXCEPT ![p] = "ready"]
    /\ UNCHANGED call

\* RunPod stops or removes a pod by itself.
PodLost(p) ==
    /\ "pod_loss" \in Faults
    /\ Live(p)
    /\ \E s \in {"exited", "gone"} \ {cloud[p]} : cloud' = [cloud EXCEPT ![p] = s]
    /\ UNCHANGED call

RunPodTypeOK ==
    /\ cloud \in [Pods -> PodStatuses]
    /\ call \in [Callers -> CallType]

=============================================================================
