----------------------------- MODULE Readiness ------------------------------
(***************************************************************************)
(* RunPodManager._wait_until_ready (adapter/adapter/runpod.py) with its    *)
(* clock: the readiness deadline and the stuck-init watchdog, for one      *)
(* request of the only adapter.  The handler is suspended in a sleep or in *)
(* a call; `due' is when the sleep ends or the call times out, and time    *)
(* passes up to that moment and no further.                                *)
(***************************************************************************)
EXTENDS Integers

CONSTANTS
    PollInterval,   \* RUNPOD_POLL_INTERVAL_SECONDS
    CallTime,       \* the longest a GraphQL call takes
    ProbeTime,      \* the longest a look at the wrapper's /health takes
    Deadline,       \* RUNPOD_READINESS_TIMEOUT_SECONDS, left when the wait begins
    StuckTimeout,   \* RUNPOD_STUCK_INIT_TIMEOUT_SECONDS, 0 turns the watchdog off
    Template,       \* template_mode_enabled
    Born(_),        \* Born(k): what the k-th pod may be when it is created
    MaxMoves,       \* bound on the changes RunPod reports of a pod
    MaxPods         \* bound on the pods RunPod gives

\* unset: runtime is null.  up: it is there, without the wrapper's port.
Runtimes == {"unset", "up", "mapped"}

\* mark counts the changes of the lifecycle fields, moved is when the last of
\* them happened.  wrapper: what /health says.
PodType ==
    [mark : Nat, machine : BOOLEAN, runtime : Runtimes,
     wrapper : {"silent", "healthy", "old"}, gone : BOOLEAN, moved : Nat]

ASSUME ReadinessAssumption ==
    /\ {PollInterval, CallTime, ProbeTime, Deadline} \subseteq Nat \ {0}
    /\ {StuckTimeout, MaxMoves} \subseteq Nat /\ MaxPods \in Nat \ {0}
    /\ Template \in BOOLEAN
    /\ \A k \in 1..MaxPods : \A p \in Born(k) : p \in PodType /\ p.moved = 0

VARIABLES
    now,       \* asyncio.get_running_loop().time(), 0 when the wait begins
    pc, due,   \* the await the handler is suspended in
    tracked,   \* number of the pod in pod_id
    pod,       \* that pod at RunPod
    answer,    \* what get_pod was answered
    since,     \* stuck_init_since
    prev       \* progress_prev

vars == <<now, pc, due, tracked, pod, answer, since, prev>>

\* asked: get_pod sent.  answered: the answer is on its way to the handler.  ready, timeout, failed: _wait_until_ready has returned or raised.
Sleeps == {"sleep", "backoff"}
Calls  == {"asked", "terminating", "deploying"}
Over   == {"ready", "timeout", "failed"}
PCs    == Sleeps \cup Calls \cup {"answered", "probe"} \cup Over

None == -1
NoPrint == <<None, FALSE>>

Init ==
    /\ now = 0
    /\ pc = "sleep" /\ due = PollInterval
    /\ tracked = 1
    /\ pod \in Born(1)
    /\ answer = pod
    /\ since = None
    /\ prev = NoPrint

-----------------------------------------------------------------------------
\* startup_progress_fingerprint: whatever RunPod reports of the lifecycle, and
\* whether there is a runtime (FingerprintIsProgress of module PodReports).
Fingerprint(p) == <<p.mark, p.runtime # "unset">>

Suspend(where, time) == pc' = where /\ due' = now + time

End(how) == pc' = how /\ due' = now

\* The head of the loop of _wait_until_ready.
NextRound ==
    IF now < Deadline THEN Suspend("sleep", PollInterval) ELSE End("timeout")

\* Mutant: the deploy loop has no deadline.
DeployAlways == Suspend("deploying", CallTime)

\* The head of the loop of _deploy_from_template_with_retry: the record is
\* empty, and nobody else holds the deploy lock.
DeployFromTemplate ==
    IF now < Deadline THEN Suspend("deploying", CallTime) ELSE End("timeout")

\* The sleep is over: get_pod.
Wake ==
    /\ pc = "sleep" /\ now = due
    /\ Suspend("asked", CallTime)
    /\ UNCHANGED <<now, tracked, pod, answer, since, prev>>

Answered ==
    /\ pc = "asked"
    /\ pc' = "answered"
    /\ answer' = pod
    /\ UNCHANGED <<now, due, tracked, pod, since, prev>>

\* RunPodNotFoundError.
NotFound ==
    /\ pc = "answered" /\ answer.gone
    /\ IF Template THEN DeployFromTemplate ELSE End("failed")
    /\ UNCHANGED <<now, tracked, pod, answer, since, prev>>

\* Mutant: another fingerprint does not reset the timer.
SinceRegardless == since

\* stuck_init_since after the comparison with the previous fingerprint.
SinceProgress ==
    IF prev # NoPrint /\ Fingerprint(answer) # prev THEN None ELSE since

Watched ==
    Template /\ StuckTimeout > 0 /\ answer.machine /\ answer.runtime = "unset"

\* Mutant: the timer starts anew with every answer.
RearmedSince == IF ~Watched THEN None ELSE now

\* stuck_init_since after an answer that did not fire the watchdog.
ArmedSince ==
    IF ~Watched THEN None ELSE IF SinceProgress = None THEN now ELSE SinceProgress

Stuck == Watched /\ SinceProgress # None /\ now - SinceProgress > StuckTimeout

\* The watchdog fires: _terminate.
Fires ==
    /\ pc = "answered" /\ ~answer.gone
    /\ Stuck
    /\ Suspend("terminating", CallTime)
    /\ since' = SinceProgress
    /\ prev' = Fingerprint(answer)
    /\ UNCHANGED <<now, tracked, pod, answer>>

\* It does not: the wrapper is probed if there is a mapping.
Looks ==
    /\ pc = "answered" /\ ~answer.gone
    /\ ~Stuck
    /\ since' = ArmedSince
    /\ prev' = Fingerprint(answer)
    /\ IF answer.runtime = "mapped" THEN Suspend("probe", ProbeTime) ELSE NextRound
    /\ UNCHANGED <<now, tracked, pod, answer>>

\* wrapper_healthy_detail: healthy, an old image, or not healthy; a wrapper
\* that is up may fail a probe for a time.
Probed ==
    /\ pc = "probe"
    /\ \/ pod.wrapper = "healthy" /\ ~pod.gone /\ End("ready")
       \/ pod.wrapper = "old" /\ ~pod.gone /\ End("failed")
       \/ NextRound
    /\ UNCHANGED <<now, tracked, pod, answer, since, prev>>

Terminated ==
    /\ pc = "terminating"
    /\ pod' = [pod EXCEPT !.gone = TRUE]
    /\ DeployFromTemplate
    /\ UNCHANGED <<now, tracked, answer, since, prev>>

\* Mutant: the timer of the old pod goes on.
KeepTimer == UNCHANGED since /\ prev' = NoPrint

ResetTimer == since' = None /\ prev' = NoPrint

Deployed ==
    /\ pc = "deploying"
    /\ tracked < MaxPods
    /\ tracked' = tracked + 1
    /\ \E p \in Born(tracked + 1) : pod' = [p EXCEPT !.moved = now]
    /\ ResetTimer
    /\ NextRound
    /\ UNCHANGED <<now, answer>>

\* TemporaryRunPodError or BadUpstreamResponseError: another attempt.
DeployRefused ==
    /\ pc = "deploying"
    /\ Suspend("backoff", PollInterval)
    /\ UNCHANGED <<now, tracked, pod, answer, since, prev>>

DeployAgain ==
    /\ pc = "backoff" /\ now = due
    /\ DeployFromTemplate
    /\ UNCHANGED <<now, tracked, pod, answer, since, prev>>

\* The call raises or times out.
CallFails ==
    /\ pc \in Calls
    /\ End("failed")
    /\ UNCHANGED <<now, tracked, pod, answer, since, prev>>

-----------------------------------------------------------------------------
\* RunPod.

PodChanges(p) ==
    /\ pc \notin Over /\ ~pod.gone
    /\ pod' = p
    /\ UNCHANGED <<now, pc, due, tracked, answer, since, prev>>

\* A lifecycle field changes, among them podHostId with the machine.
Progresses ==
    /\ pod.mark < MaxMoves
    /\ \E m \in {pod.machine, TRUE} :
          PodChanges([pod EXCEPT !.mark = @ + 1, !.machine = m, !.moved = now])

Starts ==
    /\ pod.runtime = "unset" /\ pod.machine /\ MaxMoves > 0
    /\ PodChanges([pod EXCEPT !.runtime = "up", !.moved = now])

Exposes ==
    /\ pod.runtime = "up"
    /\ PodChanges([pod EXCEPT !.runtime = "mapped"])

WrapperUp ==
    /\ pod.runtime = "mapped" /\ pod.wrapper = "silent"
    /\ \E w \in {"healthy", "old"} : PodChanges([pod EXCEPT !.wrapper = w])

Lost == PodChanges([pod EXCEPT !.gone = TRUE])

\* Time passes while the handler is suspended.
Tick ==
    /\ pc \notin Over /\ now < due
    /\ now' = now + 1
    /\ UNCHANGED <<pc, due, tracked, pod, answer, since, prev>>

\* The wait is over.
Finished == pc \in Over /\ UNCHANGED vars

-----------------------------------------------------------------------------
HandlerStep ==
    \/ Wake \/ Answered \/ NotFound \/ Fires \/ Looks \/ Probed
    \/ Terminated \/ Deployed \/ DeployRefused \/ DeployAgain \/ CallFails

RunPodStep == Progresses \/ Starts \/ Exposes \/ WrapperUp \/ Lost

Next == HandlerStep \/ RunPodStep \/ Tick \/ Finished

Spec == Init /\ [][Next]_vars

=============================================================================
