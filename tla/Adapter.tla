------------------------------ MODULE Adapter -------------------------------
(***************************************************************************)
(* The adapter service (adapter/app.py) composed of the record of the      *)
(* active pod, RunPod, the idle release and the pod manager: adapter       *)
(* processes serving /asr requests, and what the environment does to them. *)
(***************************************************************************)
EXTENDS RunPodManager

vars == <<podStateVars, cloudVars, idleVars, managerVars>>

Init == PodStateInit /\ RunPodInit /\ IdleInit /\ ManagerInit

-----------------------------------------------------------------------------
\* The /asr handler around ensure_ready.

\* The first bytes of the body arrive.
Arrive(r) ==
    /\ req[r].pc = "new"
    /\ req' = [req EXCEPT ![r].pc = "spooling"]
    /\ UNCHANGED <<lock, podStateVars, cloudVars, idleVars>>

\* Mutant: the 413 path runs the finally clause of the handler.
TooLargeFinishes(r) ==
    /\ req[r].pc = "spooling"
    /\ req' = [req EXCEPT ![r] = Answered(413)]
    /\ RequestFinished(r)
    /\ UNCHANGED <<lock, podStateVars, cloudVars>>

\* spool_request_body raises 413: the idle release never hears of the request.
TooLarge(r) ==
    /\ req[r].pc = "spooling"
    /\ req' = [req EXCEPT ![r] = Answered(413)]
    /\ UNCHANGED <<lock, podStateVars, cloudVars, idleVars>>

\* What forward_asr may end in: a result, a status passed through, an error.
ForwardStatuses(p) ==
    IF cloud[p] # "ready"
    THEN {StatusOf(e) : e \in {"connect", "http_timeout", "network"}}
    ELSE {200} \cup (IF "forward_error" \in Faults
                     THEN {400, 413} \cup {StatusOf(e) : e \in CallErrors}
                     ELSE {})

Forward(r) ==
    /\ req[r].pc = "forward"
    /\ \E status \in ForwardStatuses(req[r].pod) : Respond(r, status)
    /\ UNCHANGED <<lock, podStateVars, cloudVars>>

-----------------------------------------------------------------------------
\* An adapter dies and starts again: its handlers and tasks are gone, the
\* kernel releases its locks, the file and the mutations it sent remain.
Hit(a, r) == Home[r] = a /\ req[r].pc # "new"

Crash(a) ==
    /\ "crash" \in Faults
    /\ \E r \in Requests : Hit(a, r)
    /\ activePodId' = [activePodId EXCEPT ![a] = ConfiguredPod]
    /\ flock' = IF \E r \in Requests : Home[r] = a /\ flock = r THEN NoReq ELSE flock
    /\ req' = [r \in Requests |->
                  IF Hit(a, r) /\ req[r].pc # "done" THEN Answered(0) ELSE req[r]]
    /\ lock' = [lock EXCEPT ![a] = NoReq]
    /\ active' = [active EXCEPT ![a] = 0]
    /\ current' = [current EXCEPT ![a] = NoReq]
    /\ task' = [r \in Requests |->
                  IF Home[r] = a THEN NoTask ELSE task[r]]
    /\ \E lost \in SUBSET {c \in Callers : call[c].st \in {"sent", "lost"}} :
          call' = [c \in Callers |->
                      IF Home[c[2]] # a THEN call[c]
                      ELSE IF c \in lost THEN [call[c] EXCEPT !.st = "lost"]
                      ELSE NoCall]
    /\ UNCHANGED <<podFile, cloud>>

-----------------------------------------------------------------------------
HandlerStep(r) ==
    \/ LockAcquired(r) \/ DeployLockAcquired(r) \/ Deployed(r)
    \/ DeployLockReleased(r) \/ RetryDeploy(r) \/ Inspect(r) \/ Started(r)
    \/ Terminated(r) \/ Poll(r) \/ QueryFails(r) \/ Probe(r) \/ Forward(r)

TaskStep(r) ==
    /\ Wake(r) \/ Drained(r) \/ Released(r) \/ CancelDelivered(r)
    /\ UNCHANGED managerVars

MutationStep(c) ==
    /\ \/ ProcessDeploy(c) \/ RefuseForCapacity(c)
       \/ ProcessStart(c) \/ ProcessStop(c) \/ ProcessTerminate(c)
    /\ UNCHANGED <<podStateVars, idleVars, managerVars>>

PodStep(p) ==
    /\ PodBoots(p) \/ PodLost(p)
    /\ UNCHANGED <<podStateVars, idleVars, managerVars>>

\* Every request is answered and every task is over: nothing more to do.
AllServed ==
    /\ \A r \in Requests : req[r].pc = "done" /\ ~Running(r)
    /\ UNCHANGED vars

Next ==
    \/ \E r \in Requests :
          \/ Arrive(r) \/ TooLarge(r) \/ Spooled(r) \/ DeadlinePasses(r)
          \/ HandlerStep(r) \/ TaskStep(r)
    \/ \E c \in Callers : MutationStep(c)
    \/ \E p \in Pods : PodStep(p)
    \/ \E a \in Adapters : Crash(a)
    \/ AllServed

Spec == Init /\ [][Next]_vars

\* The event loop runs what is ready, timers expire, RunPod answers what it is
\* asked.  Nothing makes a client send its body, a pod boot, or a fault happen.
Fairness ==
    /\ \A r \in Requests :
          /\ WF_vars(HandlerStep(r))
          /\ WF_vars(TaskStep(r))
          /\ WF_vars(DeadlinePasses(r))
    /\ \A c \in Callers : WF_vars(MutationStep(c))

FairSpec == Spec /\ Fairness

=============================================================================
