--------------------------- MODULE RunPodManager ----------------------------
(***************************************************************************)
(* adapter/adapter/runpod.py: how the handler of a request finds, deploys, *)
(* replaces and waits for the pod (ensure_ready and what it calls), one    *)
(* action per await.  A GraphQL query changes nothing at RunPod, so asking *)
(* and deciding on the answer are one action; mutations take three.        *)
(***************************************************************************)
EXTENDS IdleRelease

VARIABLES
    req,    \* req[r]: where the handler of r is and its local variables
    lock    \* lock[a]: the request whose handler holds RunPodManager._lock

managerVars == <<req, lock>>

\* The awaits a handler can be suspended in.
DeployPCs == {"flock", "deploying", "unflock", "backoff"}
LockedPCs == {"inspect", "probe", "poll", "terminating", "starting"} \cup DeployPCs
PCs == {"new", "spooling", "lockwait", "forward", "done"} \cup LockedPCs

\* Where _deploy_from_template_with_retry was called from: nowhere yet, twice
\* from _get_or_deploy_pod, or from a place that goes on to wait for the pod.
Returns == {"none", "inspect", "reinspect", "poll"}

Exceptions == {"config", "readiness_timeout", "not_found"} \cup CallErrors

Statuses == {0, 200, 400, 413, 500, 502, 503, 504}

RequestType ==
    [pc : PCs, pod : Pods \cup {NoPod}, back : Returns, armed : BOOLEAN,
     late : BOOLEAN, exc : Exceptions \cup {"none"}, status : Statuses]

NewRequest ==
    [pc |-> "new", pod |-> NoPod, back |-> "none", armed |-> FALSE,
     late |-> FALSE, exc |-> "none", status |-> 0]

ManagerInit ==
    /\ req = [r \in Requests |-> NewRequest]
    /\ lock = [a \in Adapters |-> NoReq]

AsrCaller(r) == <<"asr", r>>

\* The except clauses of the /asr handler, first match first.
StatusOf(e) ==
    CASE e = "config"                                -> 500
      [] e = "readiness_timeout"                     -> 504
      [] e \in {"temporary", "not_found", "connect"} -> 503
      [] e = "http_timeout"                          -> 504
      [] e = "bad_upstream"                          -> 502
      [] OTHER                                       -> 500

-----------------------------------------------------------------------------
\* How a step of a handler that holds _lock ends.

\* Suspended again, with the locals of `next`.
Proceed(r, next) ==
    /\ req' = [req EXCEPT ![r] = next]
    /\ lock' = [lock EXCEPT ![Home[r]] = r]
    /\ UNCHANGED idleVars

Answered(status) == [NewRequest EXCEPT !.pc = "done", !.status = status]

\* Mutants: an unhandled exception skips the finally clause, or a timer is
\* started only after a success.
RespondIfHandled(r, status) ==
    /\ req' = [req EXCEPT ![r] = Answered(status)]
    /\ IF status = 500 THEN UNCHANGED idleVars ELSE RequestFinished(r)

RespondTimerOnSuccess(r, status) ==
    /\ req' = [req EXCEPT ![r] = Answered(status)]
    /\ IF status = 200 THEN RequestFinished(r)
       ELSE /\ active' = [active EXCEPT ![Home[r]] = @ - 1]
            /\ UNCHANGED <<task, current>>

\* The response is decided: the finally clause of the /asr handler.
Respond(r, status) ==
    /\ req' = [req EXCEPT ![r] = Answered(status)]
    /\ RequestFinished(r)

\* Mutant: an exception leaves ensure_ready with the lock taken.
RaiseLocked(r, e) == Respond(r, StatusOf(e)) /\ UNCHANGED lock

Raise(r, e) ==
    /\ Respond(r, StatusOf(e))
    /\ lock' = [lock EXCEPT ![Home[r]] = NoReq]

\* The head of the loop of _wait_until_ready.
WaitUntilReady(r, p, armed) ==
    IF req[r].late
    THEN Raise(r, "readiness_timeout")
    ELSE Proceed(r, [req[r] EXCEPT !.pc = "poll", !.pod = p, !.armed = armed])

\* _deploy_from_template_with_retry returns p to its caller.
ReturnPod(r, back, p) ==
    IF back = "poll"
    THEN WaitUntilReady(r, p, FALSE)
    ELSE Proceed(r, [req[r] EXCEPT !.pc = "inspect", !.pod = p, !.back = back])

\* Mutant: the deploy loop has no deadline.
DeployForever(r, back) ==
    LET existing == Load(Home[r])' IN
    IF existing # NoPod
    THEN ReturnPod(r, back, existing)
    ELSE Proceed(r, [req[r] EXCEPT !.pc = "flock", !.pod = NoPod, !.back = back])

\* The head of the loop of _deploy_from_template_with_retry.  The record is
\* read as this step leaves it: callers clear it and come here without a pause.
DeployFromTemplate(r, back) ==
    LET existing == Load(Home[r])' IN
    IF req[r].late
    THEN Raise(r, "readiness_timeout")
    ELSE IF existing # NoPod
    THEN ReturnPod(r, back, existing)
    ELSE Proceed(r, [req[r] EXCEPT !.pc = "flock", !.pod = NoPod, !.back = back])

-----------------------------------------------------------------------------
\* Entering ensure_ready.

Configured(a) == Load(a) # NoPod \/ Template

\* _get_or_deploy_pod up to its first await, when the deadline is ahead.
GetOrDeploy(r) ==
    IF Load(Home[r]) # NoPod
    THEN [req[r] EXCEPT !.pc = "inspect", !.pod = Load(Home[r])]
    ELSE [req[r] EXCEPT !.pc = "flock", !.back = "inspect"]

\* asyncio.Lock: free, and nobody queues for it.
LockFree(a) ==
    /\ lock[a] = NoReq
    /\ \A r \in Requests : Home[r] = a => req[r].pc # "lockwait"

\* The body is on disk.  request_started, configured and, if the lock is free,
\* the first read of the record happen without a pause.
Spooled(r) ==
    /\ req[r].pc = "spooling"
    /\ IF ~Configured(Home[r])
       THEN /\ req' = [req EXCEPT ![r] = Answered(StatusOf("config"))]
            /\ ScheduleIdleRelease(r)
            /\ UNCHANGED <<active, lock>>
       ELSE /\ RequestStarted(r)
            /\ IF LockFree(Home[r])
               THEN /\ req' = [req EXCEPT ![r] = GetOrDeploy(r)]
                    /\ lock' = [lock EXCEPT ![Home[r]] = r]
               ELSE /\ req' = [req EXCEPT ![r].pc = "lockwait"]
                    /\ UNCHANGED lock
    /\ UNCHANGED <<podStateVars, cloudVars>>

\* _lock is handed to a handler that waited for it, in any order.
LockAcquired(r) ==
    /\ req[r].pc = "lockwait"
    /\ lock[Home[r]] = NoReq
    /\ IF req[r].late /\ Load(Home[r]) = NoPod
       THEN Raise(r, "readiness_timeout")
       ELSE Proceed(r, GetOrDeploy(r))
    /\ UNCHANGED <<podStateVars, cloudVars>>

\* RUNPOD_READINESS_TIMEOUT_SECONDS have passed since ensure_ready was entered.
DeadlinePasses(r) ==
    /\ req[r].pc \in LockedPCs \cup {"lockwait"}
    /\ ~req[r].late
    /\ req' = [req EXCEPT ![r].late = TRUE]
    /\ UNCHANGED <<lock, idleVars, podStateVars, cloudVars>>

-----------------------------------------------------------------------------
\* The deploy loop.

\* Mutant: the record is not read again under the deploy lock.
DeployWithoutRecheck(r) ==
    /\ req[r].pc = "flock"
    /\ AcquireDeployLock(r)
    /\ Proceed(r, [req[r] EXCEPT !.pc = "deploying"])
    /\ Send(AsrCaller(r), "deploy", NoPod)
    /\ KeepRecord
    /\ UNCHANGED cloud

\* The deploy lock is ours, or opening its file failed.
DeployLockAcquired(r) ==
    /\ req[r].pc = "flock"
    /\ \/ /\ AcquireDeployLock(r)
          /\ LET existing == Load(Home[r]) IN
             IF existing # NoPod
             THEN /\ Proceed(r, [req[r] EXCEPT !.pc = "unflock", !.pod = existing])
                  /\ UNCHANGED call
             ELSE IF ~Template
             THEN /\ Proceed(r, [req[r] EXCEPT !.pc = "unflock", !.exc = "config"])
                  /\ UNCHANGED call
             ELSE /\ Proceed(r, [req[r] EXCEPT !.pc = "deploying"])
                  /\ Send(AsrCaller(r), "deploy", NoPod)
       \/ /\ "file_error" \in Faults
          /\ Proceed(r, [req[r] EXCEPT !.pc = "backoff"])
          /\ UNCHANGED <<flock, call>>
    /\ KeepRecord
    /\ UNCHANGED cloud

\* httpx errors leave the loop, RunPod's own refusals are tried again.
Retried == {"temporary", "bad_upstream"}

Deployed(r) ==
    /\ req[r].pc = "deploying"
    /\ \/ /\ Replied(AsrCaller(r), "done")
          /\ LET p == call[AsrCaller(r)].pod IN
                /\ Store(Home[r], p)
                /\ Proceed(r, [req[r] EXCEPT !.pc = "unflock", !.pod = p])
          /\ TakeReply(AsrCaller(r))
       \/ /\ Replied(AsrCaller(r), "rejected")
          /\ KeepRecord
          /\ Proceed(r, [req[r] EXCEPT !.pc = "unflock", !.exc = "temporary"])
          /\ TakeReply(AsrCaller(r))
       \/ /\ "call_error" \in Faults
          /\ KeepRecord
          /\ \E e \in CallErrors :
                Proceed(r, [req[r] EXCEPT !.pc = "unflock", !.exc = e])
          /\ Abandon(AsrCaller(r), TRUE)
    /\ UNCHANGED <<cloud, flock>>

\* The lock file is released in a thread, then the attempt's outcome applies.
DeployLockReleased(r) ==
    /\ req[r].pc = "unflock"
    /\ ReleaseDeployLock(r)
    /\ IF req[r].exc = "none"
       THEN ReturnPod(r, req[r].back, req[r].pod)
       ELSE IF req[r].exc \in Retried
       THEN Proceed(r, [req[r] EXCEPT !.pc = "backoff", !.exc = "none"])
       ELSE Raise(r, req[r].exc)
    /\ KeepRecord
    /\ UNCHANGED cloudVars

\* asyncio.sleep(poll interval) between two attempts.
RetryDeploy(r) ==
    /\ req[r].pc = "backoff"
    /\ KeepRecord
    /\ DeployFromTemplate(r, req[r].back)
    /\ UNCHANGED <<flock, cloudVars>>

-----------------------------------------------------------------------------
\* Looking at the pod.

\* Mutants: the pod is replaced without terminating it, or forgotten too early.
ReplaceOnly(r, p) ==
    /\ Clear(Home[r], p)
    /\ UNCHANGED call
    /\ DeployFromTemplate(r, "poll")

ReplaceForgetFirst(r, p) ==
    /\ Clear(Home[r], p)
    /\ Send(AsrCaller(r), "terminate", p)
    /\ Proceed(r, [req[r] EXCEPT !.pc = "terminating", !.armed = FALSE])

\* _terminate(p), to deploy another pod in its place.
ReplacePod(r, p) ==
    /\ KeepRecord
    /\ Send(AsrCaller(r), "terminate", p)
    /\ Proceed(r, [req[r] EXCEPT !.pc = "terminating", !.armed = FALSE])

\* get_pod(p) of _get_or_deploy_pod and what ensure_ready does with the answer.
Inspect(r) ==
    LET p == req[r].pod
        justDeployed == req[r].back # "none"
    IN
    /\ req[r].pc = "inspect"
    /\ \/ /\ ~Live(p)
          /\ UNCHANGED call
          /\ IF req[r].back = "reinspect"
             THEN KeepRecord /\ Raise(r, "not_found")
             ELSE /\ Clear(Home[r], p)
                  /\ IF ~Template THEN Raise(r, "not_found")
                     ELSE DeployFromTemplate(r, "reinspect")
       \/ /\ HasMapping(p)
          /\ KeepRecord /\ UNCHANGED call
          /\ Proceed(r, [req[r] EXCEPT !.pc = "probe"])
       \/ /\ Live(p) /\ ~HasMapping(p) /\ Template
          /\ IF justDeployed \/ PodIsExpectedRunning(p)
             THEN KeepRecord /\ UNCHANGED call /\ WaitUntilReady(r, p, FALSE)
             ELSE ReplacePod(r, p)
       \/ /\ Live(p) /\ ~HasMapping(p) /\ ~Template
          /\ KeepRecord
          /\ Send(AsrCaller(r), "start", p)
          /\ Proceed(r, [req[r] EXCEPT !.pc = "starting"])
    /\ UNCHANGED <<cloud, flock>>

\* start_pod has been answered, or raised.
Started(r) ==
    /\ req[r].pc = "starting"
    /\ \/ /\ Replied(AsrCaller(r), "done")
          /\ TakeReply(AsrCaller(r))
          /\ WaitUntilReady(r, req[r].pod, FALSE)
       \/ /\ \/ Replied(AsrCaller(r), "notfound") /\ Raise(r, "not_found")
             \/ Replied(AsrCaller(r), "rejected") /\ Raise(r, "temporary")
          /\ TakeReply(AsrCaller(r))
       \/ /\ "call_error" \in Faults
          /\ \E e \in CallErrors : Raise(r, e)
          /\ Abandon(AsrCaller(r), TRUE)
    /\ UNCHANGED <<cloud, podStateVars>>

\* _terminate(pod) of a handler: the record is cleared however the call ends.
Terminated(r) ==
    /\ req[r].pc = "terminating"
    /\ Clear(Home[r], req[r].pod)
    /\ \/ /\ \E st \in {"done", "notfound"} : Replied(AsrCaller(r), st)
          /\ TakeReply(AsrCaller(r))
          /\ DeployFromTemplate(r, "poll")
       \/ /\ "call_error" \in Faults
          /\ \E e \in CallErrors : Raise(r, e)
          /\ Abandon(AsrCaller(r), TRUE)
    /\ UNCHANGED <<cloud, flock>>

\* One round of _wait_until_ready: sleep, get_pod, and the stuck-init watchdog,
\* which fires only on a pod a previous round had armed it for.
Poll(r) ==
    LET p == req[r].pod
        watched == Template /\ StuckWatch /\ NoRuntime(p)
    IN
    /\ req[r].pc = "poll"
    /\ \/ /\ ~Live(p)
          /\ Clear(Home[r], p)
          /\ UNCHANGED call
          /\ IF ~Template THEN Raise(r, "not_found") ELSE DeployFromTemplate(r, "poll")
       \/ watched /\ req[r].armed /\ ReplacePod(r, p)
       \/ /\ Live(p) /\ ~HasMapping(p)
          /\ KeepRecord /\ UNCHANGED call
          /\ \E armed \in BOOLEAN : (armed => watched) /\ WaitUntilReady(r, p, armed)
       \/ /\ HasMapping(p)
          /\ KeepRecord /\ UNCHANGED call
          /\ Proceed(r, [req[r] EXCEPT !.pc = "probe", !.armed = FALSE])
    /\ UNCHANGED <<cloud, flock>>

\* get_pod raised: nobody on the way out catches it.
QueryFails(r) ==
    /\ "call_error" \in Faults
    /\ req[r].pc \in {"inspect", "poll"}
    /\ \E e \in CallErrors : Raise(r, e)
    /\ UNCHANGED <<podStateVars, cloudVars>>

\* wrapper_healthy_detail: healthy, too old, or not healthy; a wrapper that is
\* up may fail a probe for a time.
Probe(r) ==
    LET p == req[r].pod IN
    /\ req[r].pc = "probe"
    /\ \/ /\ cloud[p] = "ready"
          /\ req' = [req EXCEPT ![r] = [NewRequest EXCEPT !.pc = "forward", !.pod = p]]
          /\ lock' = [lock EXCEPT ![Home[r]] = NoReq]
          /\ UNCHANGED idleVars
       \/ /\ cloud[p] = "ready" /\ "old_image" \in Faults
          /\ Raise(r, "temporary")
       \/ WaitUntilReady(r, p, FALSE)
    /\ UNCHANGED <<podStateVars, cloudVars>>

ManagerTypeOK ==
    /\ req \in [Requests -> RequestType]
    /\ lock \in [Adapters -> Requests \cup {NoReq}]

=============================================================================
