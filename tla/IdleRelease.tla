---------------------------- MODULE IdleRelease -----------------------------
(***************************************************************************)
(* adapter/adapter/idle.py and RunPodManager.release_idle_pod: the count   *)
(* of requests in flight at each adapter, and the asyncio task that        *)
(* releases the pod after a quiet period.  Every finished request creates  *)
(* one such task, so the task is named by that request.                    *)
(*                                                                         *)
(* task.cancel() only marks the task: CancelledError is raised at the      *)
(* await the task is suspended in when the event loop next runs it.        *)
(***************************************************************************)
EXTENDS PodState, RunPodCloud

VARIABLES
    active,    \* active[a]: _active_requests of adapter a
    current,   \* current[a]: _idle_stop_task of adapter a, NoReq when None
    task       \* task[r]: the task created when r finished

idleVars == <<active, current, task>>

\* sleeping: in the idle delay.  draining: in drain_cloud_pod_logs.
\* calling: terminate or stop sent to RunPod.  over: task.done().
TaskStatuses == {"none", "sleeping", "draining", "calling", "over"}

TaskType == [st : TaskStatuses, pod : Pods \cup {NoPod}, cancelled : BOOLEAN]

NoTask == [st |-> "none", pod |-> NoPod, cancelled |-> FALSE]

IdleInit ==
    /\ active = [a \in Adapters |-> 0]
    /\ current = [a \in Adapters |-> NoReq]
    /\ task = [r \in Requests |-> NoTask]

Running(r) == task[r].st \in {"sleeping", "draining", "calling"}

\* What _idle_stop_task.cancel() does to the tasks, if there is one not done.
Cancelled(a) ==
    [r \in Requests |->
        IF r = current[a] /\ Running(r)
        THEN [task[r] EXCEPT !.cancelled = TRUE] ELSE task[r]]

\* Mutant: a starting request leaves the timer running.
StartedWithoutCancel(r) ==
    /\ active' = [active EXCEPT ![Home[r]] = @ + 1]
    /\ UNCHANGED <<task, current>>

RequestStarted(r) ==
    /\ active' = [active EXCEPT ![Home[r]] = @ + 1]
    /\ task' = Cancelled(Home[r])
    /\ UNCHANGED current

\* Mutant: the running timer is replaced but not cancelled.
ScheduleAnother(r) ==
    /\ task' = [task EXCEPT ![r] =
                   [st |-> "sleeping", pod |-> NoPod, cancelled |-> FALSE]]
    /\ current' = [current EXCEPT ![Home[r]] = r]

\* _schedule_idle_release: supersede the running timer and start a new one.
ScheduleIdleRelease(r) ==
    /\ task' = [Cancelled(Home[r]) EXCEPT ![r] =
                   [st |-> "sleeping", pod |-> NoPod, cancelled |-> FALSE]]
    /\ current' = [current EXCEPT ![Home[r]] = r]

RequestFinished(r) ==
    /\ active' = [active EXCEPT ![Home[r]] = @ - 1]
    /\ ScheduleIdleRelease(r)

-----------------------------------------------------------------------------
\* The task, one action per await.

IdleCaller(r) == <<"idle", r>>

TaskMovesTo(r, st, p) == task' = [task EXCEPT ![r].st = st, ![r].pod = p]

TaskEnds(r) == task' = [task EXCEPT ![r] = [NoTask EXCEPT !.st = "over"]]

\* Mutant: the timer does not look at the requests in flight.
AlwaysQuiet(a) == TRUE

Quiet(a) == active[a] = 0

\* The delay is over.  The count is read here and never again: draining the
\* logs and calling RunPod come later.
Wake(r) ==
    /\ task[r].st = "sleeping"
    /\ ~task[r].cancelled
    /\ LET p == Load(Home[r]) IN
          IF \/ ~Quiet(Home[r])
             \/ p = NoPod
             \/ IdleAction \notin {"stop", "terminate"}
          THEN TaskEnds(r) /\ UNCHANGED call
          ELSE IF IdleAction = "terminate"
          THEN TaskMovesTo(r, "draining", p) /\ UNCHANGED call
          ELSE TaskMovesTo(r, "calling", p) /\ Send(IdleCaller(r), "stop", p)
    /\ UNCHANGED <<active, current, cloud, podStateVars>>

\* drain_cloud_pod_logs has returned; whether it got the logs is ignored.
Drained(r) ==
    /\ task[r].st = "draining"
    /\ ~task[r].cancelled
    /\ TaskMovesTo(r, "calling", task[r].pod)
    /\ Send(IdleCaller(r), "terminate", task[r].pod)
    /\ UNCHANGED <<active, current, cloud, podStateVars>>

\* _terminate clears the record in its finally clause; a stop keeps it.
ForgetIfTerminating(r) ==
    IF call[IdleCaller(r)].op = "terminate"
    THEN Clear(Home[r], task[r].pod) ELSE KeepRecord

\* RunPod has answered, or the call raised: release_idle_pod only logs that.
Released(r) ==
    /\ task[r].st = "calling"
    /\ ~task[r].cancelled
    /\ \/ /\ \E st \in {"done", "notfound"} : Replied(IdleCaller(r), st)
          /\ TakeReply(IdleCaller(r))
       \/ /\ "call_error" \in Faults
          /\ Abandon(IdleCaller(r), TRUE)
    /\ ForgetIfTerminating(r)
    /\ TaskEnds(r)
    /\ UNCHANGED <<active, current, cloud, flock>>

\* CancelledError reaches the task wherever it waits.
CancelDelivered(r) ==
    /\ Running(r)
    /\ task[r].cancelled
    /\ TaskEnds(r)
    /\ IF task[r].st = "calling"
       THEN /\ Abandon(IdleCaller(r), "cancel_unsent" \in Faults)
            /\ ForgetIfTerminating(r)
       ELSE UNCHANGED call /\ KeepRecord
    /\ UNCHANGED <<active, current, cloud, flock>>

IdleTypeOK ==
    /\ active \in [Adapters -> Nat]
    /\ current \in [Adapters -> Requests \cup {NoReq}]
    /\ task \in [Requests -> TaskType]

=============================================================================
