------------------------- MODULE AdapterPods_proofs --------------------------
(***************************************************************************)
(* What becomes of the pods: none is left that nobody knows of, none is    *)
(* kept beside another, and none is forgotten while it runs.  These hold   *)
(* without the faults that Survivable excludes.  A fixed pod is only       *)
(* stopped and resumed, whatever goes wrong.                               *)
(***************************************************************************)
EXTENDS Adapter_proofs

USE DEF LockedPCs, DeployPCs

\* A pod that RunPod has once created.  Pods never become unborn again.
Born(p) == p \in Pods /\ cloud[p] # "unborn"

\* What the call of a handler can be, and which pod it refers to, by the await
\* it is suspended in: q are its locals, c is its call.
Handled(q, c) ==
    /\ q.pc = "deploying" => c.op = "deploy" /\ c.st \in {"sent", "done", "rejected"}
    /\ q.pc = "starting" => c.op = "start" /\ c.pod = q.pod /\ c.st # "lost"
    /\ q.pc = "terminating" => /\ c.op = "terminate" /\ c.pod = q.pod
                               /\ c.st \in {"sent", "done", "notfound"}
    /\ q.pc \notin {"deploying", "starting", "terminating"} => c = NoCall
    /\ q.pc \in {"inspect", "probe", "poll", "terminating", "starting"} => Born(q.pod)
    /\ q.pc = "unflock" /\ q.exc = "none" => Born(q.pod)

\* The same for an idle task t, created when its request had been answered.
Timed(t, q, c) ==
    /\ t.st \in {"none", "sleeping", "draining"} => c = NoCall
    /\ t.st = "calling" => /\ c.op \in {"stop", "terminate"} /\ c.pod = t.pod
                           /\ c.st \in {"sent", "done", "notfound"}
    /\ t.st = "over" => c = NoCall \/ (c.op \in {"stop", "terminate"} /\ c.st = "lost")
    /\ t.st # "none" => q.pc = "done"
    /\ t.st \in {"draining", "calling"} => Born(t.pod)

\* What an answer says of its pod.
Acted(c) ==
    /\ c.op \in {"start", "stop", "terminate"} => Born(c.pod)
    /\ c.op = "deploy" /\ c.st = "done" => Born(c.pod)
    /\ c.op = "terminate" /\ c.st \in {"done", "notfound"} => cloud[c.pod] = "gone"

\* The record names pods that were created.
RecordBorn ==
    /\ \A a \in Adapters : activePodId[a] # NoPod => Born(activePodId[a])
    /\ podFile # NoPod => Born(podFile)

\* NoOrphan without the file: it may be emptied while an adapter still
\* remembers the pod it named.
Tracked ==
    \A p \in Pods :
        Live(p) => \/ \E a \in Adapters : activePodId[a] = p
                   \/ DeployAnswerPending(p) \/ TerminatePending(p)

HandlersKnown == \A r \in Requests : Handled(req[r], call[AsrCaller(r)])
TimersKnown == \A r \in Requests : Timed(task[r], req[r], call[IdleCaller(r)])
CallsKnown == \A c \in Callers : Acted(call[c])

Known == HandlersKnown /\ TimersKnown /\ CallsKnown /\ RecordBorn

PodsInv == IInv /\ Known /\ Tracked

-----------------------------------------------------------------------------
\* How the loops and the errors of the manager leave a handler: without a call,
\* and with a pod that was created.

\* The faults a proof may rule out.
LEMMA NoSuchFault ==
    ASSUME Survivable
    PROVE  "call_error" \notin Faults /\ "cancel_unsent" \notin Faults /\ "crash" \notin Faults
BY DEF Survivable

\* The callers of different requests and of a handler and a task differ.
LEMMA CallersDiffer ==
    ASSUME NEW r \in Requests, NEW q \in Requests
    PROVE  /\ AsrCaller(r) # IdleCaller(q)
           /\ AsrCaller(r) \in Callers /\ IdleCaller(r) \in Callers
           /\ r # q => AsrCaller(r) # AsrCaller(q) /\ IdleCaller(r) # IdleCaller(q)
BY DEF AsrCaller, IdleCaller, Callers

\* No caller but those of the requests.
LEMMA CallersAre ==
    ASSUME NEW c \in Callers
    PROVE  \E r \in Requests : c = AsrCaller(r) \/ c = IdleCaller(r)
BY DEF AsrCaller, IdleCaller, Callers

\* An error ends the handler.
LEMMA RaiseHandled ==
    ASSUME ConfigAssumption, Typed, NEW r \in Requests, NEW e, Raise(r, e)
    PROVE  Handled(req'[r], NoCall)
BY RaiseAnswers DEF Handled

\* The wait loop goes on with the pod it is given.
LEMMA WaitHandled ==
    ASSUME ConfigAssumption, Typed, NEW r \in Requests, NEW p, NEW armed, Born(p),
           WaitUntilReady(r, p, armed)
    PROVE  Handled(req'[r], NoCall)
<1>1. CASE Raise(r, "readiness_timeout")
  BY <1>1, RaiseHandled
<1>2. CASE Proceed(r, [req[r] EXCEPT !.pc = "poll", !.pod = p, !.armed = armed])
  <2>1. req'[r].pc = "poll" /\ req'[r].pod = p
    BY <1>2, Locals DEF Proceed, Typed, ManagerTypeOK, RequestType
  <2> QED BY <2>1 DEF Handled
<1> QED BY <1>1, <1>2 DEF WaitUntilReady

\* So does the caller of the deploy loop.
LEMMA ReturnHandled ==
    ASSUME ConfigAssumption, Typed, NEW r \in Requests, NEW p, NEW back, Born(p),
           ReturnPod(r, back, p)
    PROVE  Handled(req'[r], NoCall)
<1>1. CASE WaitUntilReady(r, p, FALSE)
  BY <1>1, WaitHandled
<1>2. CASE Proceed(r, [req[r] EXCEPT !.pc = "inspect", !.pod = p, !.back = back])
  <2>1. req'[r].pc = "inspect" /\ req'[r].pod = p
    BY <1>2, Locals DEF Proceed, Typed, ManagerTypeOK, RequestType
  <2> QED BY <2>1 DEF Handled
<1> QED BY <1>1, <1>2 DEF ReturnPod

\* What an adapter loads was created.
LEMMA LoadBorn ==
    ASSUME NEW a \in Adapters, RecordBorn, Load(a) # NoPod
    PROVE  Born(Load(a))
BY DEF Load, RecordBorn

\* The deploy loop waits for its lock, returns the pod on record, or fails.
LEMMA DeployHandled ==
    ASSUME ConfigAssumption, Typed, NEW r \in Requests, NEW back,
           RecordBorn', UNCHANGED cloud, DeployFromTemplate(r, back)
    PROVE  Handled(req'[r], NoCall)
<1> DEFINE existing == Load(Home[r])'
<1>1. existing # NoPod => Born(existing)
  <2>1. Home[r] \in Adapters
    BY DEF ConfigAssumption
  <2> QED BY <2>1 DEF Load, RecordBorn, Born
<1>2. CASE Raise(r, "readiness_timeout")
  BY <1>2, RaiseHandled
<1>3. CASE existing # NoPod /\ ReturnPod(r, back, existing)
  BY <1>1, <1>3, ReturnHandled
<1>4. CASE Proceed(r, [req[r] EXCEPT !.pc = "flock", !.pod = NoPod, !.back = back])
  <2>1. req'[r].pc = "flock"
    BY <1>4, Locals DEF Proceed, Typed, ManagerTypeOK, RequestType
  <2> QED BY <2>1 DEF Handled
<1> QED BY <1>2, <1>3, <1>4 DEF DeployFromTemplate

\* Emptying the record leaves pods that were created.
LEMMA EmptiedBorn ==
    ASSUME RecordBorn, Emptied, UNCHANGED cloud
    PROVE  RecordBorn'
BY DEF RecordBorn, Emptied, Born

-----------------------------------------------------------------------------
\* The steps of a handler.

\* A call whose answer can be dropped: no pod was created or removed by it that
\* only this call knows of.
Harmless(c) ==
    /\ ~(c.op = "deploy" /\ c.st = "done")
    /\ ~(c.op = "terminate" /\ c.st \in {"sent", "lost"})

\* The record is kept, or emptied of a pod that is gone.
ForgetsGone(r) == KeepRecord \/ \E p : ~Live(p) /\ Clear(Home[r], p)

\* What every step of the handler of r does to calls and pods.
Carries(r) ==
    /\ UNCHANGED cloud
    /\ \A c \in Callers \ {AsrCaller(r)} : call'[c] = call[c]
    /\ Handled(req'[r], call'[AsrCaller(r)])
    /\ Acted(call'[AsrCaller(r)])
    /\ \/ ForgetsGone(r) /\ Harmless(call[AsrCaller(r)])
       \/ \E p \in Pods : /\ req[r].pc = "deploying"
                          /\ call[AsrCaller(r)] = [op |-> "deploy", pod |-> p, st |-> "done"]
                          /\ Store(Home[r], p)

Calling == {"deploying", "starting", "terminating"}

\* A step without a call.
LEMMA QuietCarries ==
    ASSUME ConfigAssumption, Typed, Known, NEW r \in Requests, req[r].pc \notin Calling,
           UNCHANGED cloudVars, Handled(req'[r], NoCall), ForgetsGone(r)
    PROVE  Carries(r)
<1>1. call[AsrCaller(r)] = NoCall
  BY DEF Known, HandlersKnown, Handled, Calling
<1>2. Harmless(NoCall) /\ Acted(NoCall)
  BY DEF Harmless, Acted, NoCall
<1> QED BY <1>1, <1>2 DEF Carries, cloudVars

\* A step that takes the answer to a call.
LEMMA ReplyCarries ==
    ASSUME ConfigAssumption, Typed, NEW r \in Requests, Harmless(call[AsrCaller(r)]),
           UNCHANGED cloud, TakeReply(AsrCaller(r)), Handled(req'[r], NoCall), ForgetsGone(r)
    PROVE  Carries(r)
<1>1. call'[AsrCaller(r)] = NoCall
      /\ \A c \in Callers \ {AsrCaller(r)} : call'[c] = call[c]
  BY CallersDiffer DEF TakeReply, Typed, RunPodTypeOK
<1>2. Acted(NoCall)
  BY DEF Acted, NoCall
<1> QED BY <1>1, <1>2 DEF Carries

\* A step that sends one about the pod the handler holds.
LEMMA SendCarries ==
    ASSUME ConfigAssumption, Typed, Known, NEW r \in Requests, req[r].pc \notin Calling,
           NEW op \in {"start", "terminate"}, NEW next \in RequestType,
           next.pc = IF op = "start" THEN "starting" ELSE "terminating",
           Born(next.pod), Proceed(r, next),
           UNCHANGED cloud, KeepRecord, Send(AsrCaller(r), op, next.pod)
    PROVE  Carries(r)
<1> DEFINE sent == [op |-> op, pod |-> next.pod, st |-> "sent"]
<1>1. call'[AsrCaller(r)] = sent
      /\ \A c \in Callers \ {AsrCaller(r)} : call'[c] = call[c]
  BY CallersDiffer DEF Send, Typed, RunPodTypeOK
<1>2. req'[r] = next
  BY DEF Proceed, Typed, ManagerTypeOK
<1>3. Handled(next, sent) /\ Acted(sent)
  BY DEF Handled, Acted
<1>4. call[AsrCaller(r)] = NoCall /\ Harmless(NoCall)
  BY DEF Known, HandlersKnown, Handled, Calling, Harmless, NoCall
<1> QED BY <1>1, <1>2, <1>3, <1>4 DEF Carries, ForgetsGone

\* Getting _lock: the pod on record was created.
LEMMA LockAcquiredCarries ==
    ASSUME ConfigAssumption, Typed, Known, NEW r \in Requests, LockAcquired(r)
    PROVE  Carries(r)
<1>1. CASE Raise(r, "readiness_timeout")
  BY <1>1, RaiseHandled, QuietCarries
     DEF LockAcquired, Calling, podStateVars, ForgetsGone, KeepRecord
<1>2. CASE Proceed(r, GetOrDeploy(r))
  <2>1. req'[r] = GetOrDeploy(r)
    BY <1>2 DEF Proceed, Typed, ManagerTypeOK
  <2>2. Load(Home[r]) # NoPod => Born(Load(Home[r]))
    BY Locals, LoadBorn DEF Known
  <2>3. \/ GetOrDeploy(r).pc = "flock"
        \/ /\ Load(Home[r]) # NoPod /\ GetOrDeploy(r).pc = "inspect"
           /\ GetOrDeploy(r).pod = Load(Home[r])
    BY Locals DEF GetOrDeploy, RequestType
  <2>4. Handled(req'[r], NoCall)
    BY <2>1, <2>2, <2>3 DEF Handled
  <2> QED BY <2>4, QuietCarries
          DEF LockAcquired, Calling, podStateVars, ForgetsGone, KeepRecord
<1> QED BY <1>1, <1>2 DEF LockAcquired

\* Getting the deploy lock: a deploy is sent, or the pod on record was created.
LEMMA DeployLockAcquiredCarries ==
    ASSUME ConfigAssumption, Typed, Known, NEW r \in Requests, DeployLockAcquired(r)
    PROVE  Carries(r)
<1> DEFINE existing == Load(Home[r])
           found  == [req[r] EXCEPT !.pc = "unflock", !.pod = existing]
           config == [req[r] EXCEPT !.pc = "unflock", !.exc = "config"]
           deploy == [req[r] EXCEPT !.pc = "deploying"]
           pause  == [req[r] EXCEPT !.pc = "backoff"]
           sent   == [op |-> "deploy", pod |-> NoPod, st |-> "sent"]
<1>1. req[r].pc = "flock" /\ KeepRecord /\ UNCHANGED cloud
  BY DEF DeployLockAcquired
<1>2. /\ found.pc = "unflock" /\ found.pod = existing
      /\ config.pc = "unflock" /\ config.exc = "config"
      /\ deploy.pc = "deploying" /\ pause.pc = "backoff"
  BY Locals DEF RequestType
<1> HIDE DEF found, config, deploy, pause
<1>3. existing # NoPod => Born(existing)
  BY Locals, LoadBorn DEF Known
<1>4. \A next : Proceed(r, next) => req'[r] = next
  BY DEF Proceed, Typed, ManagerTypeOK
<1>5. CASE UNCHANGED call /\ existing # NoPod /\ Proceed(r, found)
  <2>1. Handled(req'[r], NoCall)
    BY <1>2, <1>3, <1>4, <1>5 DEF Handled
  <2> QED BY <1>1, <1>5, <2>1, QuietCarries DEF Calling, ForgetsGone, cloudVars
<1>6. CASE UNCHANGED call /\ (Proceed(r, config) \/ Proceed(r, pause))
  <2>1. Handled(req'[r], NoCall)
    BY <1>2, <1>4, <1>6 DEF Handled
  <2> QED BY <1>1, <1>6, <2>1, QuietCarries DEF Calling, ForgetsGone, cloudVars
<1>7. CASE Proceed(r, deploy) /\ Send(AsrCaller(r), "deploy", NoPod)
  <2>1. call'[AsrCaller(r)] = sent
        /\ \A c \in Callers \ {AsrCaller(r)} : call'[c] = call[c]
    BY <1>7, CallersDiffer DEF Send, Typed, RunPodTypeOK
  <2>2. Handled(deploy, sent) /\ Acted(sent)
    BY <1>2 DEF Handled, Acted
  <2>3. call[AsrCaller(r)] = NoCall /\ Harmless(NoCall)
    BY <1>1 DEF Known, HandlersKnown, Handled, Harmless, NoCall
  <2> QED BY <1>1, <1>4, <1>7, <2>1, <2>2, <2>3 DEF Carries, ForgetsGone
<1> QED BY <1>5, <1>6, <1>7 DEF DeployLockAcquired, found, config, deploy, pause

\* A deploy is answered: the pod it created is recorded.
LEMMA DeployedCarries ==
    ASSUME ConfigAssumption, Typed, Known, Survivable, NEW r \in Requests, Deployed(r)
    PROVE  Carries(r)
<1> DEFINE c == call[AsrCaller(r)]
<1>1. req[r].pc = "deploying" /\ UNCHANGED cloud
  BY DEF Deployed
<1>2. c.op = "deploy" /\ c \in CallType /\ Acted(c)
  BY <1>1, CallersDiffer
     DEF Known, HandlersKnown, Handled, CallsKnown, Typed, RunPodTypeOK
<1>3. \A next : Proceed(r, next) => req'[r] = next
  BY DEF Proceed, Typed, ManagerTypeOK
<1>4. CASE /\ c.st = "done" /\ Store(Home[r], c.pod)
           /\ Proceed(r, [req[r] EXCEPT !.pc = "unflock", !.pod = c.pod])
           /\ TakeReply(AsrCaller(r))
  <2> DEFINE next == [req[r] EXCEPT !.pc = "unflock", !.pod = c.pod]
  <2>1. next.pc = "unflock" /\ next.pod = c.pod
    BY Locals DEF RequestType
  <2>2. Born(c.pod)
    BY <1>2, <1>4 DEF Acted
  <2>3. req'[r] = next
    BY <1>3, <1>4
  <2> HIDE DEF next
  <2>4. Handled(req'[r], NoCall)
    BY <2>1, <2>2, <2>3 DEF Handled
  <2>5. c = [op |-> "deploy", pod |-> c.pod, st |-> "done"]
    BY <1>2, <1>4 DEF CallType
  <2>6. /\ call'[AsrCaller(r)] = NoCall
        /\ \A d \in Callers \ {AsrCaller(r)} : call'[d] = call[d]
    BY <1>4, CallersDiffer DEF TakeReply, Typed, RunPodTypeOK
  <2>7. Acted(NoCall) /\ c.pod \in Pods
    BY <2>2 DEF Acted, NoCall, Born
  <2> HIDE DEF c
  <2> QED BY <1>1, <1>4, <2>4, <2>5, <2>6, <2>7 DEF Carries, c
<1>5. CASE /\ c.st = "rejected" /\ KeepRecord
           /\ Proceed(r, [req[r] EXCEPT !.pc = "unflock", !.exc = "temporary"])
           /\ TakeReply(AsrCaller(r))
  <2> DEFINE next == [req[r] EXCEPT !.pc = "unflock", !.exc = "temporary"]
  <2>1. next.pc = "unflock" /\ next.exc # "none"
    BY Locals DEF RequestType
  <2>2. req'[r] = next
    BY <1>3, <1>5
  <2> HIDE DEF next
  <2>3. Handled(req'[r], NoCall)
    BY <2>1, <2>2 DEF Handled
  <2>4. Harmless(c)
    BY <1>2, <1>5 DEF Harmless
  <2> QED BY <1>1, <1>5, <2>3, <2>4, ReplyCarries DEF ForgetsGone
<1> QED BY <1>4, <1>5, NoSuchFault DEF Deployed, Replied

\* The deploy lock is let go, and the pod that was recorded is waited for.
LEMMA DeployLockReleasedCarries ==
    ASSUME ConfigAssumption, Typed, Known, NEW r \in Requests, DeployLockReleased(r)
    PROVE  Carries(r)
<1>1. req[r].pc = "unflock" /\ KeepRecord /\ UNCHANGED cloudVars
  BY DEF DeployLockReleased
<1>2. CASE req[r].exc = "none" /\ ReturnPod(r, req[r].back, req[r].pod)
  <2>1. Born(req[r].pod)
    BY <1>1, <1>2 DEF Known, HandlersKnown, Handled
  <2> QED BY <1>1, <1>2, <2>1, ReturnHandled, QuietCarries DEF Calling, ForgetsGone
<1>3. CASE Proceed(r, [req[r] EXCEPT !.pc = "backoff", !.exc = "none"])
  <2>1. req'[r].pc = "backoff"
    BY <1>3, Locals DEF Proceed, Typed, ManagerTypeOK, RequestType
  <2>2. Handled(req'[r], NoCall)
    BY <2>1 DEF Handled
  <2> QED BY <1>1, <2>2, QuietCarries DEF Calling, ForgetsGone
<1>4. CASE Raise(r, req[r].exc)
  BY <1>1, <1>4, RaiseHandled, QuietCarries DEF Calling, ForgetsGone
<1> QED BY <1>2, <1>3, <1>4 DEF DeployLockReleased

\* The deploy loop turns.
LEMMA RetryDeployCarries ==
    ASSUME ConfigAssumption, Typed, Known, NEW r \in Requests, RetryDeploy(r)
    PROVE  Carries(r)
<1>1. /\ req[r].pc = "backoff" /\ KeepRecord /\ UNCHANGED cloudVars
      /\ DeployFromTemplate(r, req[r].back)
  BY DEF RetryDeploy
<1>2. RecordBorn' /\ UNCHANGED cloud
  BY <1>1 DEF Known, RecordBorn, Born, KeepRecord, cloudVars
<1> QED BY <1>1, <1>2, DeployHandled, QuietCarries DEF Calling, ForgetsGone

\* A pod that is gone is forgotten, and another deployed, or the handler fails.
LEMMA ForgetHandled ==
    ASSUME ConfigAssumption, Typed, Known, NEW r \in Requests, NEW back, NEW p, NEW e,
           Clear(Home[r], p), UNCHANGED cloud,
           Raise(r, e) \/ DeployFromTemplate(r, back)
    PROVE  Handled(req'[r], NoCall)
<1>1. RecordBorn'
  BY Locals, ClearEmpties, EmptiedBorn DEF Known
<1> QED BY <1>1, RaiseHandled, DeployHandled

\* Looking at the pod.
LEMMA InspectCarries ==
    ASSUME ConfigAssumption, Typed, Known, NEW r \in Requests, Inspect(r)
    PROVE  Carries(r)
<1> DEFINE p == req[r].pod
<1>1. req[r].pc = "inspect" /\ UNCHANGED cloud /\ req[r].pc \notin Calling
  BY DEF Inspect, Calling
<1>2. Born(p)
  BY <1>1 DEF Known, HandlersKnown, Handled
<1>3. CASE /\ ~Live(p) /\ UNCHANGED call /\ Clear(Home[r], p)
           /\ Raise(r, "not_found") \/ DeployFromTemplate(r, "reinspect")
  <2>1. Handled(req'[r], NoCall)
    BY <1>1, <1>3, ForgetHandled
  <2> QED BY <1>1, <1>3, <2>1, QuietCarries DEF ForgetsGone, cloudVars
<1>4. CASE /\ KeepRecord /\ UNCHANGED call
           /\ Raise(r, "not_found") \/ WaitUntilReady(r, p, FALSE)
  BY <1>1, <1>2, <1>4, RaiseHandled, WaitHandled, QuietCarries DEF ForgetsGone, cloudVars
<1>5. CASE /\ KeepRecord /\ UNCHANGED call
           /\ Proceed(r, [req[r] EXCEPT !.pc = "probe"])
  <2>1. req'[r].pc = "probe" /\ req'[r].pod = p
    BY <1>5, Locals DEF Proceed, Typed, ManagerTypeOK, RequestType
  <2>2. Handled(req'[r], NoCall)
    BY <1>2, <2>1 DEF Handled
  <2> QED BY <1>1, <1>5, <2>2, QuietCarries DEF ForgetsGone, cloudVars
<1>6. CASE ReplacePod(r, p)
  <2> DEFINE next == [req[r] EXCEPT !.pc = "terminating", !.armed = FALSE]
  <2>1. next \in RequestType /\ next.pc = "terminating" /\ next.pod = p
    BY Locals DEF RequestType, PCs
  <2>2. Proceed(r, next) /\ KeepRecord /\ Send(AsrCaller(r), "terminate", p)
    BY <1>6 DEF ReplacePod
  <2> HIDE DEF next
  <2> QED BY <1>1, <1>2, <2>1, <2>2, SendCarries
<1>7. CASE /\ KeepRecord /\ Send(AsrCaller(r), "start", p)
           /\ Proceed(r, [req[r] EXCEPT !.pc = "starting"])
  <2> DEFINE next == [req[r] EXCEPT !.pc = "starting"]
  <2>1. next \in RequestType /\ next.pc = "starting" /\ next.pod = p
    BY Locals DEF RequestType, PCs
  <2>2. Proceed(r, next)
    BY <1>7
  <2> HIDE DEF next
  <2> QED BY <1>1, <1>2, <1>7, <2>1, <2>2, SendCarries
<1> QED BY <1>3, <1>4, <1>5, <1>6, <1>7 DEF Inspect

\* podResume has been answered.
LEMMA StartedCarries ==
    ASSUME ConfigAssumption, Typed, Known, Survivable, NEW r \in Requests, Started(r)
    PROVE  Carries(r)
<1> DEFINE c == call[AsrCaller(r)]
<1>1. req[r].pc = "starting" /\ UNCHANGED cloud /\ KeepRecord
  BY DEF Started, podStateVars, KeepRecord
<1>2. c.op = "start" /\ c.pod = req[r].pod /\ Born(req[r].pod)
  BY <1>1 DEF Known, HandlersKnown, Handled
<1>3. Harmless(c)
  BY <1>2 DEF Harmless
<1>4. TakeReply(AsrCaller(r))
  BY NoSuchFault DEF Started
<1>5. \/ WaitUntilReady(r, req[r].pod, FALSE)
      \/ Raise(r, "not_found") \/ Raise(r, "temporary")
  BY NoSuchFault DEF Started
<1>6. Handled(req'[r], NoCall)
  BY <1>2, <1>5, RaiseHandled, WaitHandled
<1> QED BY <1>1, <1>3, <1>4, <1>6, ReplyCarries DEF ForgetsGone

\* podTerminate has been answered: the pod is gone.
LEMMA TerminatedCarries ==
    ASSUME ConfigAssumption, Typed, Known, Survivable, NEW r \in Requests, Terminated(r)
    PROVE  Carries(r)
<1> DEFINE c == call[AsrCaller(r)]
<1>1. req[r].pc = "terminating" /\ UNCHANGED cloud /\ Clear(Home[r], req[r].pod)
  BY DEF Terminated
<1>2. c.op = "terminate" /\ c.pod = req[r].pod /\ Acted(c)
  BY <1>1, CallersDiffer DEF Known, HandlersKnown, Handled, CallsKnown
<1>3. /\ c.st \in {"done", "notfound"} /\ TakeReply(AsrCaller(r))
      /\ DeployFromTemplate(r, "poll")
  BY NoSuchFault DEF Terminated, Replied
<1>4. Harmless(c) /\ ~Live(req[r].pod)
  BY <1>2, <1>3 DEF Harmless, Acted, Live
<1>5. Handled(req'[r], NoCall)
  BY <1>1, <1>3, ForgetHandled
<1> QED BY <1>1, <1>3, <1>4, <1>5, ReplyCarries DEF ForgetsGone

\* A round of the wait.
LEMMA PollCarries ==
    ASSUME ConfigAssumption, Typed, Known, NEW r \in Requests, Poll(r)
    PROVE  Carries(r)
<1> DEFINE p == req[r].pod
<1>1. req[r].pc = "poll" /\ UNCHANGED cloud /\ req[r].pc \notin Calling
  BY DEF Poll, Calling
<1>2. Born(p)
  BY <1>1 DEF Known, HandlersKnown, Handled
<1>3. CASE /\ ~Live(p) /\ UNCHANGED call /\ Clear(Home[r], p)
           /\ Raise(r, "not_found") \/ DeployFromTemplate(r, "poll")
  <2>1. Handled(req'[r], NoCall)
    BY <1>1, <1>3, ForgetHandled
  <2> QED BY <1>1, <1>3, <2>1, QuietCarries DEF ForgetsGone, cloudVars
<1>4. CASE /\ KeepRecord /\ UNCHANGED call
           /\ \E armed \in BOOLEAN : WaitUntilReady(r, p, armed)
  BY <1>1, <1>2, <1>4, WaitHandled, QuietCarries DEF ForgetsGone, cloudVars
<1>5. CASE /\ KeepRecord /\ UNCHANGED call
           /\ Proceed(r, [req[r] EXCEPT !.pc = "probe", !.armed = FALSE])
  <2>1. req'[r].pc = "probe" /\ req'[r].pod = p
    BY <1>5, Locals DEF Proceed, Typed, ManagerTypeOK, RequestType
  <2>2. Handled(req'[r], NoCall)
    BY <1>2, <2>1 DEF Handled
  <2> QED BY <1>1, <1>5, <2>2, QuietCarries DEF ForgetsGone, cloudVars
<1>6. CASE ReplacePod(r, p)
  <2> DEFINE next == [req[r] EXCEPT !.pc = "terminating", !.armed = FALSE]
  <2>1. next \in RequestType /\ next.pc = "terminating" /\ next.pod = p
    BY Locals DEF RequestType, PCs
  <2>2. Proceed(r, next) /\ KeepRecord /\ Send(AsrCaller(r), "terminate", p)
    BY <1>6 DEF ReplacePod
  <2> HIDE DEF next
  <2> QED BY <1>1, <1>2, <2>1, <2>2, SendCarries
<1> QED BY <1>3, <1>4, <1>5, <1>6 DEF Poll

\* The health probe.
LEMMA ProbeCarries ==
    ASSUME ConfigAssumption, Typed, Known, NEW r \in Requests, Probe(r)
    PROVE  Carries(r)
<1>1. req[r].pc = "probe" /\ UNCHANGED cloudVars /\ KeepRecord
  BY DEF Probe, podStateVars, KeepRecord
<1>2. Born(req[r].pod)
  BY <1>1 DEF Known, HandlersKnown, Handled
<1>3. CASE Raise(r, "temporary") \/ WaitUntilReady(r, req[r].pod, FALSE)
  BY <1>1, <1>2, <1>3, RaiseHandled, WaitHandled, QuietCarries DEF Calling, ForgetsGone
<1>4. CASE req' = [req EXCEPT ![r] = [NewRequest EXCEPT !.pc = "forward",
                                                        !.pod = req[r].pod]]
  <2>1. req'[r].pc = "forward"
    BY <1>4 DEF Typed, ManagerTypeOK, NewRequest
  <2>2. Handled(req'[r], NoCall)
    BY <2>1 DEF Handled
  <2> QED BY <1>1, <2>2, QuietCarries DEF Calling, ForgetsGone
<1> QED BY <1>3, <1>4 DEF Probe

\* The response is passed on.
LEMMA ForwardCarries ==
    ASSUME ConfigAssumption, Typed, Known, NEW r \in Requests, Forward(r)
    PROVE  Carries(r)
<1>1. req[r].pc = "forward" /\ UNCHANGED cloudVars /\ KeepRecord
  BY DEF Forward, podStateVars, KeepRecord
<1>2. PICK status \in Statuses : Respond(r, status)
  BY ForwardStep DEF Passes
<1>3. req'[r].pc = "done"
  BY <1>2, AnsweredTyped DEF Respond, Typed, ManagerTypeOK
<1>4. Handled(req'[r], NoCall)
  BY <1>3 DEF Handled
<1> QED BY <1>1, <1>4, QuietCarries DEF Calling, ForgetsGone

\* Every step of a handler.
LEMMA HandlerCarries ==
    ASSUME ConfigAssumption, Typed, Known, Survivable, NEW r \in Requests, HandlerStep(r)
    PROVE  Carries(r)
<1>1. ~QueryFails(r)
  BY NoSuchFault DEF QueryFails
<1> QED BY <1>1, LockAcquiredCarries, DeployLockAcquiredCarries, DeployedCarries,
           DeployLockReleasedCarries, RetryDeployCarries, InspectCarries, StartedCarries,
           TerminatedCarries, PollCarries, ProbeCarries, ForwardCarries DEF HandlerStep

-----------------------------------------------------------------------------
\* What the invariants keep through a step of a handler.

\* Cancelling a task leaves it where it is.
LEMMA CancelledStays ==
    ASSUME ConfigAssumption, Typed, NEW a \in Adapters, NEW q \in Requests
    PROVE  Cancelled(a)[q].st = task[q].st /\ Cancelled(a)[q].pod = task[q].pod
BY DEF Cancelled, Typed, TaskType

\* Timers are known when only their cancel marks change, or when r has been
\* answered and starts a new one.
LEMMA TimersKept ==
    ASSUME ConfigAssumption, Typed, TimersKnown, NEW r \in Requests,
           UNCHANGED cloud,
           \A q \in Requests : call'[IdleCaller(q)] = call[IdleCaller(q)],
           \A q \in Requests \ {r} : req'[q].pc = req[q].pc,
           \/ /\ req[r].pc = "done" => req'[r].pc = "done"
              /\ task' = task \/ task' = Cancelled(Home[r])
           \/ /\ req[r].pc # "done" /\ req'[r].pc = "done"
              /\ ScheduleIdleRelease(r)
    PROVE  TimersKnown'
<1> SUFFICES ASSUME NEW q \in Requests
             PROVE  Timed(task'[q], req'[q], call'[IdleCaller(q)])
  BY DEF TimersKnown, Timed, Born
<1>1. Home[r] \in Adapters
  BY DEF ConfigAssumption
<1>2. Timed(task[q], req[q], call[IdleCaller(q)])
  BY DEF TimersKnown
<1>3. req[q].pc = "done" => req'[q].pc = "done"
  OBVIOUS
<1>4. CASE task'[q].st = task[q].st /\ task'[q].pod = task[q].pod
  BY <1>2, <1>3, <1>4 DEF Timed, Born
<1>5. CASE q = r /\ req[r].pc # "done" /\ req'[r].pc = "done" /\ ScheduleIdleRelease(r)
  <2>1. task'[r] = [st |-> "sleeping", pod |-> NoPod, cancelled |-> FALSE]
    BY <1>5 DEF ScheduleIdleRelease, Cancelled
  <2>2. task[r].st = "none"
    BY <1>2, <1>5 DEF Timed
  <2> QED BY <1>2, <1>5, <2>1, <2>2 DEF Timed
<1>6. CASE task' = Cancelled(Home[r])
  BY <1>1, <1>4, <1>6, CancelledStays
<1>7. CASE q # r /\ ScheduleIdleRelease(r)
  <2>1. task'[q] = Cancelled(Home[r])[q]
    BY <1>7 DEF ScheduleIdleRelease, Cancelled
  <2> QED BY <1>1, <1>4, <2>1, CancelledStays
<1> QED BY <1>4, <1>5, <1>6, <1>7

\* What the handler of r does with the timers.
LEMMA HandlerTimers ==
    ASSUME ConfigAssumption, Typed, NEW r \in Requests, HandlerStep(r)
    PROVE  /\ req[r].pc # "done"
           /\ UNCHANGED task \/ (req'[r].pc = "done" /\ ScheduleIdleRelease(r))
<1>1. CASE Inside(r)
  <2>1. CASE \E next \in RequestType : Proceed(r, next)
    BY <1>1, <2>1 DEF Inside, Proceed, idleVars
  <2>2. CASE \E e \in Exceptions : Raise(r, e)
    BY <1>1, <2>2, RaiseAnswers DEF Inside, RequestFinished
  <2> QED BY <1>1, <2>1, <2>2 DEF Inside, Advance
<1>2. CASE Leaves(r)
  BY <1>2 DEF Leaves, idleVars
<1>3. CASE Passes(r)
  <2>1. PICK status \in Statuses : Respond(r, status)
    BY <1>3 DEF Passes
  <2>2. req'[r].pc = "done"
    BY <2>1, AnsweredTyped DEF Respond, Typed, ManagerTypeOK
  <2> QED BY <1>3, <2>1, <2>2 DEF Passes, Respond, RequestFinished
<1> QED BY <1>1, <1>2, <1>3, HandlerSteps

\* Storing the pod of an answer records a pod that was created.
LEMMA StoreBorn ==
    ASSUME ConfigAssumption, Typed, RecordBorn, UNCHANGED cloud,
           NEW a \in Adapters, NEW p, Born(p), Store(a, p)
    PROVE  RecordBorn'
<1>1. podFile' \in {p, podFile, NoPod}
  BY DEF Store, FileAfter
<1>2. \A b \in Adapters : activePodId'[b] \in {p, activePodId[b]}
  BY DEF Store, Typed, PodStateTypeOK
<1> QED BY <1>1, <1>2 DEF RecordBorn, Born

\* Clearing the record of a pod leaves every other pod where it is remembered.
LEMMA ClearForgets ==
    ASSUME ConfigAssumption, Typed, NEW a \in Adapters, NEW p, Clear(a, p),
           NEW b \in Adapters, NEW q \in Pods, q # p, activePodId[b] = q
    PROVE  activePodId'[b] = q
BY DEF Clear, Typed, PodStateTypeOK, ConfigAssumption

\* A handler step leaves what is known of handlers, timers, calls and record.
LEMMA HandlerKnown ==
    ASSUME ConfigAssumption, Typed, Known, Survivable, NEW r \in Requests, HandlerStep(r)
    PROVE  Known'
<1> DEFINE c == call[AsrCaller(r)]
<1>1. Carries(r) /\ UNCHANGED cloud
  BY HandlerCarries DEF Carries
<1>2. \A q \in Requests \ {r} : req'[q] = req[q]
  BY OthersStay
<1>3. HandlersKnown'
  <2> SUFFICES ASSUME NEW q \in Requests
               PROVE  Handled(req'[q], call'[AsrCaller(q)])
    BY <1>1 DEF HandlersKnown, Handled, Born
  <2>1. CASE q = r
    BY <1>1, <2>1 DEF Carries
  <2>2. CASE q # r
    BY <1>1, <1>2, <2>2, CallersDiffer DEF Carries, Known, HandlersKnown
  <2> QED BY <2>1, <2>2
<1>4. CallsKnown'
  <2>1. \A d \in Callers : Acted(call'[d])
    BY <1>1 DEF Carries, Known, CallsKnown
  <2> QED BY <1>1, <2>1 DEF CallsKnown, Acted, Born
<1>5. TimersKnown'
  <2>1. \A q \in Requests : call'[IdleCaller(q)] = call[IdleCaller(q)]
    BY <1>1, CallersDiffer DEF Carries
  <2> QED BY <1>1, <1>2, <2>1, HandlerTimers, TimersKept DEF Known
<1>6. RecordBorn'
  <2>1. CASE ForgetsGone(r)
    BY <1>1, <2>1, Locals, ClearEmpties, EmptiedBorn DEF ForgetsGone, Known
  <2>2. ASSUME NEW p \in Pods, c = [op |-> "deploy", pod |-> p, st |-> "done"],
               Store(Home[r], p)
        PROVE  RecordBorn'
    <3>1. Acted(c)
      BY CallersDiffer DEF Known, CallsKnown
    <3>2. Born(p)
      BY <2>2, <3>1 DEF Acted
    <3> QED BY <1>1, <2>2, <3>2, Locals, StoreBorn DEF Known
  <2> QED BY <1>1, <2>1, <2>2 DEF Carries
<1> QED BY <1>3, <1>4, <1>5, <1>6 DEF Known

\* A handler step loses track of no pod that exists.
LEMMA HandlerTracks ==
    ASSUME ConfigAssumption, PodsInv, Survivable, NEW r \in Requests, HandlerStep(r)
    PROVE  Tracked'
<1> DEFINE c == call[AsrCaller(r)]
<1>1. Carries(r) /\ UNCHANGED cloud /\ Home[r] \in Adapters
  BY HandlerCarries, Locals DEF Carries, PodsInv, IInv
<1> SUFFICES ASSUME NEW p \in Pods, Live(p)
             PROVE  \/ \E a \in Adapters : activePodId'[a] = p
                    \/ DeployAnswerPending(p)' \/ TerminatePending(p)'
  BY <1>1 DEF Tracked, Live
<1>2. CASE ForgetsGone(r) /\ Harmless(c)
  <2>1. ASSUME NEW a \in Adapters, activePodId[a] = p
        PROVE  activePodId'[a] = p
    BY <1>1, <1>2, <2>1, ClearForgets DEF ForgetsGone, KeepRecord, PodsInv, IInv
  <2>2. ASSUME NEW d \in Callers, call[d] = [op |-> "deploy", pod |-> p, st |-> "done"]
        PROVE  DeployAnswerPending(p)'
    <3>1. d # AsrCaller(r)
      BY <1>2, <2>2 DEF Harmless
    <3> QED BY <1>1, <2>2, <3>1 DEF Carries, DeployAnswerPending
  <2>3. ASSUME NEW d \in Callers, Pending(d, "terminate"), call[d].pod = p
        PROVE  TerminatePending(p)'
    <3>1. d # AsrCaller(r)
      BY <1>2, <2>3 DEF Harmless, Pending
    <3>2. call'[d] = call[d]
      BY <1>1, <3>1 DEF Carries
    <3> QED BY <2>3, <3>2 DEF TerminatePending, Pending
  <2> QED BY <2>1, <2>2, <2>3 DEF PodsInv, Tracked, DeployAnswerPending, TerminatePending
<1>3. ASSUME NEW s \in Pods, req[r].pc = "deploying",
             c = [op |-> "deploy", pod |-> s, st |-> "done"], Store(Home[r], s)
      PROVE  \/ \E a \in Adapters : activePodId'[a] = p
             \/ DeployAnswerPending(p)' \/ TerminatePending(p)'
  <2>1. activePodId[Home[r]] = NoPod
    BY <1>3 DEF PodsInv, IInv, DeployOnlyWhenUntracked
  <2>2. ConfiguredPod = NoPod
    BY <1>1, <2>1 DEF PodsInv, IInv, Pinned
  <2>3. activePodId' = [activePodId EXCEPT ![Home[r]] = s]
    BY <1>3, <2>2 DEF Store
  <2>4. activePodId \in [Adapters -> Pods \cup {NoPod}] /\ NoPod \notin Pods
    BY DEF PodsInv, IInv, Typed, PodStateTypeOK, ConfigAssumption
  <2>5. \A d \in Callers \ {AsrCaller(r)} : call'[d] = call[d]
    BY <1>1 DEF Carries
  <2>6. ASSUME NEW d \in Callers, call[d] = [op |-> "deploy", pod |-> p, st |-> "done"]
        PROVE  DeployAnswerPending(p)' \/ activePodId'[Home[r]] = p
    <3>1. CASE d = AsrCaller(r)
      <4>1. s = p
        BY <1>3, <2>6, <3>1
      <4> QED BY <1>1, <2>3, <2>4, <4>1
    <3>2. CASE d # AsrCaller(r)
      BY <2>5, <2>6, <3>2 DEF DeployAnswerPending
    <3> QED BY <3>1, <3>2
  <2>7. ASSUME NEW d \in Callers, Pending(d, "terminate"), call[d].pod = p
        PROVE  TerminatePending(p)'
    <3>1. d # AsrCaller(r)
      BY <1>3, <2>7 DEF Pending
    <3>2. call'[d] = call[d]
      BY <2>5, <3>1
    <3> QED BY <2>7, <3>2 DEF TerminatePending, Pending
  <2>8. ASSUME NEW a \in Adapters, activePodId[a] = p
        PROVE  activePodId'[a] = p
    BY <2>1, <2>3, <2>4, <2>8
  <2> QED BY <1>1, <2>6, <2>7, <2>8 DEF PodsInv, Tracked, DeployAnswerPending, TerminatePending
<1> QED BY <1>1, <1>2, <1>3 DEF Carries

-----------------------------------------------------------------------------
\* The idle tasks.

\* A pod that may be forgotten: it is gone, or has been told to terminate.
Dismissed(p) == ~Live(p) \/ TerminatePending(p)

\* What every step of the idle task of r does to calls, pods and record.
Winds(r) ==
    /\ UNCHANGED <<cloud, flock, managerVars>>
    /\ \A c \in Callers \ {IdleCaller(r)} : call'[c] = call[c]
    /\ \A q \in Requests \ {r} : task'[q] = task[q]
    /\ Timed(task'[r], req[r], call'[IdleCaller(r)])
    /\ Acted(call'[IdleCaller(r)])
    /\ call[IdleCaller(r)].op # "deploy"
    /\ Pending(IdleCaller(r), "terminate")
           => /\ Pending(IdleCaller(r), "terminate")'
              /\ call'[IdleCaller(r)].pod = call[IdleCaller(r)].pod
    /\ KeepRecord \/ \E p \in Pods : Dismissed(p) /\ Clear(Home[r], p)

\* The timer ends, or goes on to the log drain or to a stop.
LEMMA WakeWinds ==
    ASSUME ConfigAssumption, Typed, Known, NEW r \in Requests, Wake(r), UNCHANGED managerVars
    PROVE  Winds(r)
<1> DEFINE i == IdleCaller(r)
           p == Load(Home[r])
<1>1. Home[r] \in Adapters /\ i \in Callers /\ call \in [Callers -> CallType]
      /\ task \in [Requests -> TaskType]
  BY Locals DEF Typed
<1>2. task[r].st = "sleeping" /\ call[i] = NoCall /\ req[r].pc = "done"
  BY DEF Wake, Known, TimersKnown, Timed
<1>3. UNCHANGED <<cloud, flock, managerVars>> /\ KeepRecord
  BY DEF Wake, podStateVars, KeepRecord
<1>4. CASE TaskEnds(r) /\ UNCHANGED call
  <2>1. task'[r].st = "over" /\ \A q \in Requests \ {r} : task'[q] = task[q]
    BY <1>1, <1>4 DEF TaskEnds, NoTask
  <2> QED BY <1>2, <1>3, <1>4, <2>1 DEF Winds, Timed, Acted, Pending, NoCall
<1>5. CASE p # NoPod /\ TaskMovesTo(r, "draining", p) /\ UNCHANGED call
  <2>1. Born(p)
    BY <1>1, <1>5, LoadBorn DEF Known
  <2>2. /\ task'[r].st = "draining" /\ task'[r].pod = p
        /\ \A q \in Requests \ {r} : task'[q] = task[q]
    BY <1>1, <1>5 DEF TaskMovesTo, TaskType
  <2> QED BY <1>2, <1>3, <1>5, <2>1, <2>2 DEF Winds, Timed, Acted, Pending, NoCall
<1>6. CASE p # NoPod /\ TaskMovesTo(r, "calling", p) /\ Send(i, "stop", p)
  <2>1. Born(p)
    BY <1>1, <1>6, LoadBorn DEF Known
  <2>2. /\ task'[r].st = "calling" /\ task'[r].pod = p
        /\ \A q \in Requests \ {r} : task'[q] = task[q]
    BY <1>1, <1>6 DEF TaskMovesTo, TaskType
  <2>3. /\ call'[i] = [op |-> "stop", pod |-> p, st |-> "sent"]
        /\ \A c \in Callers \ {i} : call'[c] = call[c]
    BY <1>1, <1>6 DEF Send
  <2> QED BY <1>2, <1>3, <2>1, <2>2, <2>3 DEF Winds, Timed, Acted, Pending, NoCall
<1> QED BY <1>4, <1>5, <1>6 DEF Wake

\* The logs are drained: RunPod is told to terminate the pod.
LEMMA DrainedWinds ==
    ASSUME ConfigAssumption, Typed, Known, NEW r \in Requests, Drained(r),
           UNCHANGED managerVars
    PROVE  Winds(r)
<1> DEFINE i == IdleCaller(r)
           p == task[r].pod
<1>1. i \in Callers /\ call \in [Callers -> CallType] /\ task \in [Requests -> TaskType]
  BY Locals DEF Typed
<1>2. call[i] = NoCall /\ req[r].pc = "done" /\ Born(p)
  BY DEF Drained, Known, TimersKnown, Timed
<1>3. UNCHANGED <<cloud, flock, managerVars>> /\ KeepRecord
  BY DEF Drained, podStateVars, KeepRecord
<1>4. /\ task'[r].st = "calling" /\ task'[r].pod = p
      /\ \A q \in Requests \ {r} : task'[q] = task[q]
  BY <1>1 DEF Drained, TaskMovesTo, TaskType
<1>5. /\ call'[i] = [op |-> "terminate", pod |-> p, st |-> "sent"]
      /\ \A c \in Callers \ {i} : call'[c] = call[c]
  BY <1>1 DEF Drained, Send
<1> QED BY <1>2, <1>3, <1>4, <1>5 DEF Winds, Timed, Acted, Pending, NoCall

\* The answer is read.
LEMMA ReleasedWinds ==
    ASSUME ConfigAssumption, Typed, Known, Survivable, NEW r \in Requests, Released(r),
           UNCHANGED managerVars
    PROVE  Winds(r)
<1> DEFINE i == IdleCaller(r)
<1>1. i \in Callers /\ call \in [Callers -> CallType] /\ task \in [Requests -> TaskType]
  BY Locals DEF Typed
<1>2. /\ call[i].st \in {"done", "notfound"} /\ TakeReply(i)
      /\ ForgetIfTerminating(r) /\ TaskEnds(r)
      /\ UNCHANGED <<cloud, flock, managerVars>>
  BY NoSuchFault DEF Released, Replied
<1>3. /\ call[i].op \in {"stop", "terminate"} /\ call[i].pod = task[r].pod
      /\ Born(task[r].pod) /\ req[r].pc = "done"
  BY DEF Released, Known, TimersKnown, Timed
<1>4. Acted(call[i])
  BY <1>1 DEF Known, CallsKnown
<1>5. call'[i] = NoCall /\ \A c \in Callers \ {i} : call'[c] = call[c]
  BY <1>1, <1>2 DEF TakeReply
<1>6. task'[r].st = "over" /\ \A q \in Requests \ {r} : task'[q] = task[q]
  BY <1>1, <1>2 DEF TaskEnds, NoTask
<1>7. KeepRecord \/ \E p \in Pods : Dismissed(p) /\ Clear(Home[r], p)
  BY <1>2, <1>3, <1>4 DEF ForgetIfTerminating, Acted, Dismissed, Live, Born
<1> QED BY <1>2, <1>3, <1>5, <1>6, <1>7 DEF Winds, Timed, Acted, Pending, NoCall

\* The task is cancelled: a call that was sent still reaches RunPod.
LEMMA CancelDeliveredWinds ==
    ASSUME ConfigAssumption, Typed, Known, Survivable, NEW r \in Requests,
           CancelDelivered(r), UNCHANGED managerVars
    PROVE  Winds(r)
<1> DEFINE i == IdleCaller(r)
<1>1. i \in Callers /\ call \in [Callers -> CallType] /\ task \in [Requests -> TaskType]
  BY Locals DEF Typed
<1>2. task'[r].st = "over" /\ \A q \in Requests \ {r} : task'[q] = task[q]
  BY <1>1 DEF CancelDelivered, TaskEnds, NoTask
<1>3. UNCHANGED <<cloud, flock, managerVars>> /\ Timed(task[r], req[r], call[i])
  BY DEF CancelDelivered, Known, TimersKnown
<1>4. req[r].pc = "done"
  BY <1>3 DEF CancelDelivered, Running, Timed
<1>5. CASE task[r].st # "calling"
  <2>1. call[i] = NoCall /\ UNCHANGED call /\ KeepRecord
    BY <1>3, <1>5 DEF CancelDelivered, Running, Timed
  <2> QED BY <1>2, <1>3, <1>4, <2>1 DEF Winds, Timed, Acted, Pending, NoCall
<1>6. CASE task[r].st = "calling"
  <2>1. /\ call[i].op \in {"stop", "terminate"} /\ call[i].pod = task[r].pod
        /\ call[i].st \in {"sent", "done", "notfound"} /\ Born(task[r].pod)
    BY <1>3, <1>6 DEF Timed
  <2>2. Abandon(i, FALSE) /\ ForgetIfTerminating(r)
    BY <1>6, NoSuchFault DEF CancelDelivered, Abandon, AfterAbandon
  <2>3. \A c \in Callers \ {i} : call'[c] = call[c]
    BY <1>1, <2>2 DEF Abandon
  <2>4. CASE call[i].st = "sent"
    <3>1. call'[i] = [call[i] EXCEPT !.st = "lost"]
      BY <1>1, <2>2, <2>4 DEF Abandon, AfterAbandon
    <3>2. /\ call'[i].op = call[i].op /\ call'[i].pod = call[i].pod
          /\ call'[i].st = "lost"
      BY <1>1, <3>1 DEF CallType
    <3>3. call[i].op = "terminate" => TerminatePending(task[r].pod)
      BY <1>1, <2>1, <2>4 DEF TerminatePending, Pending
    <3>4. KeepRecord \/ \E p \in Pods : Dismissed(p) /\ Clear(Home[r], p)
      BY <2>1, <2>2, <3>3 DEF ForgetIfTerminating, Dismissed, Born
    <3> QED BY <1>2, <1>3, <1>4, <2>1, <2>3, <3>2, <3>4 DEF Winds, Timed, Acted, Pending, Born
  <2>5. CASE call[i].st \in {"done", "notfound"}
    <3>1. call'[i] = NoCall
      BY <1>1, <2>2, <2>5 DEF Abandon, AfterAbandon
    <3>2. Acted(call[i])
      BY <1>1 DEF Known, CallsKnown
    <3>3. KeepRecord \/ \E p \in Pods : Dismissed(p) /\ Clear(Home[r], p)
      BY <2>1, <2>2, <2>5, <3>2 DEF ForgetIfTerminating, Acted, Dismissed, Live, Born
    <3> QED BY <1>2, <1>3, <1>4, <2>1, <2>3, <2>5, <3>1, <3>3
            DEF Winds, Timed, Acted, Pending, NoCall
  <2> QED BY <2>1, <2>4, <2>5
<1> QED BY <1>5, <1>6

\* Every step of an idle task.
LEMMA TaskWinds ==
    ASSUME ConfigAssumption, Typed, Known, Survivable, NEW r \in Requests, TaskStep(r)
    PROVE  Winds(r)
BY WakeWinds, DrainedWinds, ReleasedWinds, CancelDeliveredWinds DEF TaskStep

\* A step of an idle task leaves what is known of handlers, timers, calls and
\* record.
LEMMA TaskKnown ==
    ASSUME ConfigAssumption, Typed, Known, Survivable, NEW r \in Requests, TaskStep(r)
    PROVE  Known'
<1>1. Winds(r) /\ UNCHANGED cloud /\ UNCHANGED req
  BY TaskWinds DEF Winds, managerVars
<1>2. HandlersKnown'
  <2> SUFFICES ASSUME NEW q \in Requests
               PROVE  Handled(req[q], call'[AsrCaller(q)])
    BY <1>1 DEF HandlersKnown, Handled, Born
  <2> QED BY <1>1, CallersDiffer DEF Winds, Known, HandlersKnown
<1>3. TimersKnown'
  <2> SUFFICES ASSUME NEW q \in Requests
               PROVE  Timed(task'[q], req[q], call'[IdleCaller(q)])
    BY <1>1 DEF TimersKnown, Timed, Born
  <2>1. CASE q = r
    BY <1>1, <2>1 DEF Winds
  <2>2. CASE q # r
    BY <1>1, <2>2, CallersDiffer DEF Winds, Known, TimersKnown
  <2> QED BY <2>1, <2>2
<1>4. CallsKnown'
  <2>1. \A d \in Callers : Acted(call'[d])
    BY <1>1 DEF Winds, Known, CallsKnown
  <2> QED BY <1>1, <2>1 DEF CallsKnown, Acted, Born
<1>5. RecordBorn'
  BY <1>1, Locals, ClearEmpties, EmptiedBorn DEF Winds, Known
<1> QED BY <1>2, <1>3, <1>4, <1>5 DEF Known

\* A step of an idle task loses track of no pod that exists.
LEMMA TaskTracks ==
    ASSUME ConfigAssumption, PodsInv, Survivable, NEW r \in Requests, TaskStep(r)
    PROVE  Tracked'
<1> DEFINE i == IdleCaller(r)
<1>1. Winds(r) /\ UNCHANGED cloud /\ Home[r] \in Adapters
  BY TaskWinds, Locals DEF Winds, PodsInv, IInv
<1> SUFFICES ASSUME NEW p \in Pods, Live(p)
             PROVE  \/ \E a \in Adapters : activePodId'[a] = p
                    \/ DeployAnswerPending(p)' \/ TerminatePending(p)'
  BY <1>1 DEF Tracked, Live
<1>2. TerminatePending(p) => TerminatePending(p)'
  <2> SUFFICES ASSUME NEW d \in Callers, Pending(d, "terminate"), call[d].pod = p
               PROVE  Pending(d, "terminate")' /\ call'[d].pod = p
    BY DEF TerminatePending
  <2> QED BY <1>1 DEF Winds, Pending
<1>3. DeployAnswerPending(p) => DeployAnswerPending(p)'
  <2> SUFFICES ASSUME NEW d \in Callers, call[d] = [op |-> "deploy", pod |-> p, st |-> "done"]
               PROVE  call'[d] = call[d]
    BY DEF DeployAnswerPending
  <2> QED BY <1>1 DEF Winds
<1>4. ASSUME NEW a \in Adapters, activePodId[a] = p
      PROVE  activePodId'[a] = p \/ TerminatePending(p)
  <2>1. CASE KeepRecord
    BY <1>4, <2>1 DEF KeepRecord
  <2>2. CASE \E q \in Pods : Dismissed(q) /\ Clear(Home[r], q)
    <3>1. PICK q \in Pods : Dismissed(q) /\ Clear(Home[r], q)
      BY <2>2
    <3>2. CASE q = p
      BY <3>1, <3>2 DEF Dismissed
    <3>3. CASE q # p
      BY <1>1, <1>4, <3>1, <3>3, ClearForgets DEF PodsInv, IInv
    <3> QED BY <3>2, <3>3
  <2> QED BY <1>1, <2>1, <2>2 DEF Winds
<1> QED BY <1>2, <1>3, <1>4 DEF PodsInv, Tracked

-----------------------------------------------------------------------------
\* What RunPod and the pods do.

\* Pods come into being and go, and do not come back.
Ages ==
    /\ UNCHANGED <<podStateVars, idleVars, managerVars>>
    /\ \A p \in Pods : /\ Born(p) => cloud'[p] # "unborn"
                       /\ cloud[p] = "gone" => cloud'[p] = "gone"
                       /\ Live(p)' => Live(p) \/ DeployAnswerPending(p)'

\* What RunPod's answer may do to the call of c.
Answers(c) ==
    /\ Acted(call[c])'
    /\ call[c].op = "terminate" => cloud'[call[c].pod] = "gone"
    /\ \/ call[c].st = "lost" /\ call'[c] = NoCall
       \/ /\ call[c].st = "sent" /\ call'[c].op = call[c].op
          /\ call[c].op # "deploy" => call'[c].pod = call[c].pod
          /\ call'[c].st \in {"done", "notfound", "rejected"}
          /\ call'[c].st = "rejected" => call[c].op \in {"start", "deploy"}
          /\ call'[c].st = "notfound" => call[c].op # "deploy"

\* RunPod turns the call of one caller into an answer, or drops it.
LEMMA AnswerGiven ==
    ASSUME Typed, NEW c \in Callers, NEW st \in CallStatuses, NEW p \in Pods \cup {NoPod},
           Answer(c, st, p)
    PROVE  /\ \A d \in Callers \ {c} : call'[d] = call[d]
           /\ call[c].st = "lost" => call'[c] = NoCall
           /\ call[c].st # "lost" => call'[c] = [op |-> call[c].op, pod |-> p, st |-> st]
<1>1. call \in [Callers -> CallType]
  BY DEF Typed, RunPodTypeOK
<1>2. call[c] \in [op : Ops, pod : Pods \cup {NoPod}, st : CallStatuses]
  BY <1>1 DEF CallType
<1> DEFINE m == [call[c] EXCEPT !.st = st, !.pod = p]
<1>3. /\ m \in [op : Ops, pod : Pods \cup {NoPod}, st : CallStatuses]
      /\ m.op = call[c].op /\ m.pod = p /\ m.st = st
  BY <1>2
<1>4. m = [op |-> m.op, pod |-> m.pod, st |-> m.st]
  <2> HIDE DEF m
  <2> QED BY <1>3
<1>5. call'[c] = IF call[c].st = "lost" THEN NoCall ELSE m
  BY <1>1 DEF Answer
<1>6. \A d \in Callers \ {c} : call'[d] = call[d]
  BY <1>1 DEF Answer
<1> QED BY <1>3, <1>4, <1>5, <1>6

\* Only deploys can be outstanding without a pod, and nobody gives one up.
LEMMA CallOf ==
    ASSUME Typed, Known, NEW c \in Callers
    PROVE  /\ Acted(call[c])
           /\ call[c].op = "deploy" => call[c].st # "lost"
           /\ call[c].op \in {"start", "stop", "terminate"} => Born(call[c].pod)
<1>1. PICK r \in Requests : c = AsrCaller(r) \/ c = IdleCaller(r)
  BY CallersAre
<1>2. Handled(req[r], call[AsrCaller(r)]) /\ Timed(task[r], req[r], call[IdleCaller(r)])
  BY DEF Known, HandlersKnown, TimersKnown
<1>3. Acted(call[c])
  BY DEF Known, CallsKnown
<1>4. call[AsrCaller(r)].op = "deploy" => call[AsrCaller(r)].st # "lost"
  BY <1>2 DEF Handled, NoCall
<1>5. CASE c = IdleCaller(r)
  <2>1. task[r].st \in {"none", "sleeping", "draining", "calling", "over"}
    BY DEF Typed, TaskType, TaskStatuses
  <2>2. call[c].op # "deploy"
    BY <1>2, <1>5, <2>1 DEF Timed, NoCall
  <2> QED BY <1>3, <2>2 DEF Acted
<1> QED BY <1>1, <1>3, <1>4, <1>5 DEF Acted

\* RunPod acts on the mutation of c and answers it.
LEMMA MutationAnswers ==
    ASSUME ConfigAssumption, Typed, Known, NEW c \in Callers, MutationStep(c)
    PROVE  /\ Ages /\ Answers(c)
           /\ \A d \in Callers \ {c} : call'[d] = call[d]
<1> DEFINE p == call[c].pod
<1>1. /\ cloud \in [Pods -> PodStatuses] /\ call \in [Callers -> CallType]
      /\ p \in Pods \cup {NoPod} /\ NoPod \notin Pods
  BY DEF Typed, RunPodTypeOK, CallType, ConfigAssumption
<1>2. UNCHANGED <<podStateVars, idleVars, managerVars>>
  BY DEF MutationStep
<1>3. /\ Acted(call[c]) /\ (call[c].op = "deploy" => call[c].st # "lost")
      /\ call[c].op \in {"start", "stop", "terminate"} => Born(p)
  BY CallOf
<1>4. CASE ProcessDeploy(c)
  <2>1. PICK s \in Pods : /\ cloud[s] = "unborn" /\ Answer(c, "done", s)
                          /\ cloud' = [cloud EXCEPT ![s] = "booting"]
    BY <1>4 DEF ProcessDeploy
  <2>2. call[c].op = "deploy" /\ call[c].st = "sent"
    BY <1>3, <1>4 DEF ProcessDeploy, Pending
  <2>3. /\ call'[c] = [op |-> "deploy", pod |-> s, st |-> "done"]
        /\ \A d \in Callers \ {c} : call'[d] = call[d]
    BY <2>1, <2>2, AnswerGiven DEF CallStatuses
  <2>4. cloud'[s] = "booting" /\ \A q \in Pods \ {s} : cloud'[q] = cloud[q]
    BY <1>1, <2>1
  <2>5. Ages
    BY <1>2, <2>1, <2>3, <2>4 DEF Ages, Born, Live, DeployAnswerPending
  <2>6. Answers(c)
    BY <2>2, <2>3, <2>4 DEF Answers, Acted, Born
  <2> QED BY <2>3, <2>5, <2>6
<1>5. CASE RefuseForCapacity(c)
  <2>1. /\ call[c].op \in {"deploy", "start"} /\ call[c].st \in {"sent", "lost"}
        /\ Answer(c, "rejected", p) /\ UNCHANGED cloud
    BY <1>5 DEF RefuseForCapacity, Pending
  <2>2. /\ \A d \in Callers \ {c} : call'[d] = call[d]
        /\ call[c].st = "lost" => call'[c] = NoCall
        /\ call[c].st # "lost" => call'[c] = [op |-> call[c].op, pod |-> p, st |-> "rejected"]
    BY <1>1, <2>1, AnswerGiven DEF CallStatuses
  <2>3. Ages
    BY <1>2, <2>1 DEF Ages, Born, Live
  <2>4. Answers(c)
    BY <1>3, <2>1, <2>2 DEF Answers, Acted, Born, NoCall
  <2> QED BY <2>2, <2>3, <2>4
<1>6. ASSUME NEW op \in {"start", "stop", "terminate"}, NEW status,
             ProcessOnPod(c, op, status), status \in {"booting", "mapped", "ready", "exited", "gone"},
             op = "terminate" => status = "gone",
             status # "gone" \/ op = "terminate" \/ ~Live(p)
      PROVE  /\ Ages /\ Answers(c)
             /\ \A d \in Callers \ {c} : call'[d] = call[d]
  <2>1. /\ call[c].op = op /\ call[c].st \in {"sent", "lost"} /\ Born(p)
    BY <1>3, <1>6 DEF ProcessOnPod, Pending
  <2>2. PICK st \in {"done", "notfound"} : Answer(c, st, p)
    BY <1>6 DEF ProcessOnPod
  <2>3. /\ \A d \in Callers \ {c} : call'[d] = call[d]
        /\ call[c].st = "lost" => call'[c] = NoCall
        /\ call[c].st # "lost" => call'[c] = [op |-> op, pod |-> p, st |-> st]
    BY <1>1, <2>1, <2>2, AnswerGiven DEF CallStatuses
  <2>4. /\ p \in Pods
        /\ \A q \in Pods \ {p} : cloud'[q] = cloud[q]
        /\ Live(p) => cloud'[p] = status
        /\ ~Live(p) => cloud'[p] = cloud[p]
    BY <1>1, <1>6, <2>1 DEF ProcessOnPod, Born
  <2>5. ~Live(p) => cloud[p] = "gone"
    BY <1>1, <2>1 DEF Live, Born, PodStatuses
  <2>6. Ages
    BY <1>2, <1>6, <2>4, <2>5 DEF Ages, Born, Live
  <2>7. op = "terminate" => cloud'[p] = "gone"
    BY <1>6, <2>4, <2>5
  <2>8. p \in Pods /\ cloud'[p] # "unborn"
    BY <1>6, <2>1, <2>4, <2>5 DEF Born
  <2>9. Answers(c)
    <3>1. CASE call[c].st = "lost"
      BY <2>1, <2>3, <2>7, <3>1 DEF Answers, Acted, NoCall
    <3>2. CASE call[c].st = "sent"
      <4>1. call'[c].op = op /\ call'[c].pod = p /\ call'[c].st = st
        BY <2>3, <3>2
      <4>2. Acted(call[c])'
        BY <2>7, <2>8, <4>1 DEF Acted, Born
      <4> QED BY <2>1, <2>7, <3>2, <4>1, <4>2 DEF Answers
    <3> QED BY <2>1, <3>1, <3>2
  <2> QED BY <2>3, <2>6, <2>9
<1>7. CASE ProcessStart(c)
  <2> DEFINE status == IF cloud[p] = "exited" THEN "booting" ELSE cloud[p]
  <2>1. ProcessOnPod(c, "start", status) /\ Born(p)
    BY <1>3, <1>7 DEF ProcessStart, ProcessOnPod, Pending
  <2>2. status \in {"booting", "mapped", "ready", "exited", "gone"}
        /\ (status # "gone" \/ ~Live(p))
    BY <1>1, <2>1 DEF Born, PodStatuses, Live
  <2> HIDE DEF status
  <2> QED BY <1>6, <2>1, <2>2
<1>8. CASE ProcessStop(c)
  BY <1>6, <1>8 DEF ProcessStop
<1>9. CASE ProcessTerminate(c)
  BY <1>6, <1>9 DEF ProcessTerminate
<1> QED BY <1>4, <1>5, <1>7, <1>8, <1>9 DEF MutationStep

\* A pod boots, or is lost.
LEMMA PodAges ==
    ASSUME ConfigAssumption, Typed, NEW p \in Pods, PodStep(p)
    PROVE  Ages /\ UNCHANGED call
<1>1. cloud \in [Pods -> PodStatuses]
  BY DEF Typed, RunPodTypeOK
<1>2. UNCHANGED <<podStateVars, idleVars, managerVars>> /\ UNCHANGED call
  BY DEF PodStep, PodBoots, PodLost
<1>3. /\ Live(p) /\ cloud'[p] # "unborn"
      /\ \A q \in Pods \ {p} : cloud'[q] = cloud[q]
  BY <1>1 DEF PodStep, PodBoots, PodLost, Live
<1> QED BY <1>2, <1>3 DEF Ages, Born, Live

\* A step of RunPod or of a pod leaves what is known of handlers, timers, calls
\* and record.
LEMMA CloudKnown ==
    ASSUME Typed, Known, Ages,
           \A c \in Callers : call'[c] = call[c] \/ Answers(c)
    PROVE  Known'
<1>1. \A p : Born(p) => Born(p)'
  BY DEF Ages, Born
<1>2. UNCHANGED <<req, task, activePodId, podFile>>
  BY DEF Ages, podStateVars, idleVars, managerVars
<1>3. HandlersKnown'
  <2> SUFFICES ASSUME NEW r \in Requests
               PROVE  Handled(req[r], call[AsrCaller(r)])'
    BY <1>2 DEF HandlersKnown, Handled, Born
  <2> DEFINE c == call[AsrCaller(r)]
  <2>1. Handled(req[r], c)
    BY DEF Known, HandlersKnown
  <2>2. CASE c' = c
    BY <1>1, <1>2, <2>1, <2>2 DEF Handled
  <2>3. CASE c.st = "sent" /\ Answers(AsrCaller(r))
    BY <1>1, <1>2, <2>1, <2>3 DEF Handled, Answers, NoCall
  <2>4. CASE c.st = "lost"
    BY <2>1, <2>4 DEF Handled, NoCall
  <2> QED BY <2>2, <2>3, <2>4, CallersDiffer DEF Answers
<1>4. TimersKnown'
  <2> SUFFICES ASSUME NEW r \in Requests
               PROVE  Timed(task[r], req[r], call[IdleCaller(r)])'
    BY <1>2 DEF TimersKnown, Timed, Born
  <2> DEFINE c == call[IdleCaller(r)]
  <2>1. Timed(task[r], req[r], c) /\ task[r].st \in TaskStatuses
    BY DEF Known, TimersKnown, Typed, TaskType
  <2>2. CASE c' = c
    BY <1>1, <1>2, <2>1, <2>2 DEF Timed
  <2>3. CASE c.st = "sent" /\ Answers(IdleCaller(r))
    BY <1>1, <1>2, <2>1, <2>3 DEF Timed, Answers, NoCall, TaskStatuses
  <2>4. CASE c.st = "lost" /\ c' = NoCall
    BY <1>1, <1>2, <2>1, <2>4 DEF Timed, NoCall, TaskStatuses
  <2> QED BY <2>2, <2>3, <2>4, CallersDiffer DEF Answers
<1>5. CallsKnown'
  <2> SUFFICES ASSUME NEW c \in Callers
               PROVE  Acted(call[c])'
    BY DEF CallsKnown, Acted
  <2>1. CASE call'[c] = call[c]
    <3>1. Acted(call[c])
      BY DEF Known, CallsKnown
    <3>2. call[c].op = "terminate" /\ call[c].st \in {"done", "notfound"}
             => cloud'[call[c].pod] = "gone"
      BY <3>1 DEF Acted, Ages, Born
    <3> QED BY <1>1, <2>1, <3>1, <3>2 DEF Acted
  <2> QED BY <2>1 DEF Answers
<1>6. RecordBorn'
  BY <1>1, <1>2 DEF Known, RecordBorn
<1> QED BY <1>3, <1>4, <1>5, <1>6 DEF Known

\* It loses track of no pod that exists: what it creates, an answer names.
LEMMA CloudTracks ==
    ASSUME ConfigAssumption, Typed, Known, Tracked, Ages,
           \A c \in Callers : call'[c] = call[c] \/ Answers(c)
    PROVE  Tracked'
<1> SUFFICES ASSUME NEW p \in Pods, Live(p)'
             PROVE  \/ \E a \in Adapters : activePodId'[a] = p
                    \/ DeployAnswerPending(p)' \/ TerminatePending(p)'
  BY DEF Tracked
<1>1. Live(p) \/ DeployAnswerPending(p)'
  BY DEF Ages
<1>2. UNCHANGED activePodId
  BY DEF Ages, podStateVars
<1>3. ASSUME NEW c \in Callers, call[c] = [op |-> "deploy", pod |-> p, st |-> "done"]
      PROVE  DeployAnswerPending(p)'
  <2>1. call'[c] = call[c]
    BY <1>3 DEF Answers
  <2> QED BY <1>3, <2>1 DEF DeployAnswerPending
<1>4. ASSUME NEW c \in Callers, Pending(c, "terminate"), call[c].pod = p
      PROVE  TerminatePending(p)'
  <2>1. call'[c] = call[c]
    BY <1>4 DEF Answers, Pending, Live
  <2> QED BY <1>4, <2>1 DEF TerminatePending, Pending
<1> QED BY <1>1, <1>2, <1>3, <1>4 DEF Tracked, DeployAnswerPending, TerminatePending

-----------------------------------------------------------------------------
\* The steps of a request before and beside ensure_ready.

\* A request that has not entered ensure_ready.
Enters(r) == Arrive(r) \/ TooLarge(r) \/ Spooled(r) \/ DeadlinePasses(r)

\* A handler that arrives, is refused, or begins knows no call, and the pod it
\* begins with is the recorded one.
LEMMA EntersHandled ==
    ASSUME ConfigAssumption, Typed, Known, NEW r \in Requests, Enters(r)
    PROVE  /\ UNCHANGED <<podStateVars, cloudVars>>
           /\ \A q \in Requests \ {r} : req'[q] = req[q]
           /\ Handled(req'[r], call[AsrCaller(r)])
           /\ \/ /\ req[r].pc = "done" => req'[r].pc = "done"
                 /\ task' = task \/ task' = Cancelled(Home[r])
              \/ /\ req[r].pc # "done" /\ req'[r].pc = "done"
                 /\ ScheduleIdleRelease(r)
<1> DEFINE c == call[AsrCaller(r)]
<1>1. req \in [Requests -> RequestType] /\ Home[r] \in Adapters
  BY Locals DEF Typed, ManagerTypeOK
<1>2. Handled(req[r], c)
  BY DEF Known, HandlersKnown
<1>3. CASE Arrive(r)
  <2>1. /\ req[r].pc = "new" /\ req'[r].pc = "spooling"
        /\ \A q \in Requests \ {r} : req'[q] = req[q]
    BY <1>1, <1>3 DEF Arrive, RequestType
  <2> QED BY <1>2, <1>3, <2>1 DEF Arrive, Handled, idleVars
<1>4. CASE TooLarge(r)
  <2>1. /\ req[r].pc = "spooling" /\ req'[r].pc = "done"
        /\ \A q \in Requests \ {r} : req'[q] = req[q]
    BY <1>1, <1>4 DEF TooLarge, Answered, NewRequest
  <2> QED BY <1>2, <1>4, <2>1 DEF TooLarge, Handled, idleVars
<1>5. CASE DeadlinePasses(r)
  <2>1. /\ req'[r].pc = req[r].pc /\ req'[r].pod = req[r].pod
        /\ req'[r].exc = req[r].exc
        /\ \A q \in Requests \ {r} : req'[q] = req[q]
    BY <1>1, <1>5 DEF DeadlinePasses, RequestType
  <2> QED BY <1>2, <1>5, <2>1 DEF DeadlinePasses, Handled, idleVars
<1>6. CASE Spooled(r)
  <2>1. c = NoCall /\ req[r].pc = "spooling" /\ UNCHANGED <<podStateVars, cloudVars>>
    BY <1>2, <1>6 DEF Spooled, Handled
  <2>2. CASE req' = [req EXCEPT ![r] = Answered(StatusOf("config"))] /\ ScheduleIdleRelease(r)
    <3>1. req'[r].pc = "done" /\ \A q \in Requests \ {r} : req'[q] = req[q]
      BY <1>1, <2>2 DEF Answered, NewRequest
    <3> QED BY <2>1, <2>2, <3>1 DEF Handled
  <2>3. CASE RequestStarted(r) /\ req' = [req EXCEPT ![r] = GetOrDeploy(r)]
    <3>1. req'[r] = GetOrDeploy(r) /\ \A q \in Requests \ {r} : req'[q] = req[q]
      BY <1>1, <2>3
    <3>2. CASE Load(Home[r]) # NoPod
      <4>1. req'[r].pc = "inspect" /\ req'[r].pod = Load(Home[r])
        BY <1>1, <3>1, <3>2 DEF GetOrDeploy, RequestType
      <4> QED BY <1>1, <2>1, <2>3, <3>1, <3>2, <4>1, LoadBorn
              DEF Handled, Known, RequestStarted
    <3>3. CASE Load(Home[r]) = NoPod
      <4>1. req'[r].pc = "flock"
        BY <1>1, <3>1, <3>3 DEF GetOrDeploy, RequestType
      <4> QED BY <2>1, <2>3, <3>1, <4>1 DEF Handled, RequestStarted
    <3> QED BY <3>2, <3>3
  <2>4. CASE RequestStarted(r) /\ req' = [req EXCEPT ![r].pc = "lockwait"]
    <3>1. req'[r].pc = "lockwait" /\ \A q \in Requests \ {r} : req'[q] = req[q]
      BY <1>1, <2>4 DEF RequestType
    <3> QED BY <2>1, <2>4, <3>1 DEF Handled, RequestStarted
  <2> QED BY <1>6, <2>2, <2>3, <2>4 DEF Spooled
<1> QED BY <1>3, <1>4, <1>5, <1>6 DEF Enters

\* What is known stays known.
LEMMA EntersKnown ==
    ASSUME ConfigAssumption, Typed, Known, NEW r \in Requests, Enters(r)
    PROVE  Known'
<1>1. UNCHANGED <<cloud, call, activePodId, podFile>>
  BY EntersHandled DEF podStateVars, cloudVars
<1>2. HandlersKnown'
  <2> SUFFICES ASSUME NEW q \in Requests
               PROVE  Handled(req'[q], call[AsrCaller(q)])
    BY <1>1 DEF HandlersKnown, Handled, Born
  <2> QED BY EntersHandled DEF Known, HandlersKnown
<1>3. TimersKnown'
  BY <1>1, EntersHandled, TimersKept DEF Known
<1>4. CallsKnown' /\ RecordBorn'
  BY <1>1 DEF Known, CallsKnown, Acted, RecordBorn, Born
<1> QED BY <1>2, <1>3, <1>4 DEF Known

\* What the invariants speak of may be left alone.
LEMMA TrackedKept ==
    ASSUME Tracked, UNCHANGED <<cloud, call, activePodId>>
    PROVE  Tracked'
BY DEF Tracked, Live, DeployAnswerPending, TerminatePending, Pending

-----------------------------------------------------------------------------
\* The invariant and the theorems.

\* It holds initially: a configured pod is in every memory.
LEMMA PodsInvInit == ASSUME ConfigAssumption, Init, Adapters # {} PROVE PodsInv
<1> USE DEF Init, PodStateInit, RunPodInit, IdleInit, ManagerInit
<1>1. HandlersKnown
  BY CallersDiffer DEF HandlersKnown, Handled, NewRequest
<1>2. TimersKnown
  BY CallersDiffer DEF TimersKnown, Timed, NoTask
<1>3. CallsKnown
  BY DEF CallsKnown, Acted, NoCall
<1>4. RecordBorn /\ Tracked
  BY DEF ConfigAssumption, RecordBorn, Born, Tracked, Live
<1> QED BY <1>1, <1>2, <1>3, <1>4, IInvInit DEF PodsInv, Known

\* It is inductive.
LEMMA PodsInvNext ==
    ASSUME ConfigAssumption, Survivable, PodsInv, [Next]_vars
    PROVE  PodsInv'
<1>1. IInv' /\ Typed /\ Known
  BY IInvNext DEF PodsInv, IInv
<1>2. ASSUME NEW r \in Requests, Enters(r)
      PROVE  Known' /\ Tracked'
  BY <1>1, <1>2, EntersKnown, EntersHandled, TrackedKept
     DEF podStateVars, cloudVars, PodsInv
<1>3. ASSUME NEW r \in Requests, HandlerStep(r)
      PROVE  Known' /\ Tracked'
  BY <1>1, <1>3, HandlerKnown, HandlerTracks
<1>4. ASSUME NEW r \in Requests, TaskStep(r)
      PROVE  Known' /\ Tracked'
  BY <1>1, <1>4, TaskKnown, TaskTracks
<1>5. ASSUME NEW c \in Callers, MutationStep(c)
      PROVE  Known' /\ Tracked'
  BY <1>1, <1>5, MutationAnswers, CloudKnown, CloudTracks DEF PodsInv
<1>6. ASSUME NEW p \in Pods, PodStep(p)
      PROVE  Known' /\ Tracked'
  BY <1>1, <1>6, PodAges, CloudKnown, CloudTracks DEF PodsInv
<1>7. CASE UNCHANGED vars
  <2>1. UNCHANGED <<cloud, call, activePodId, podFile, req, task>>
    BY <1>7 DEF vars, podStateVars, cloudVars, idleVars, managerVars
  <2>2. Ages /\ UNCHANGED call
    BY <1>7, <2>1 DEF vars, Ages, Born, Live, podStateVars, idleVars, managerVars
  <2> QED BY <1>1, <2>1, <2>2, CloudKnown, TrackedKept DEF PodsInv
<1>8. \A a : ~Crash(a)
  BY NoSuchFault DEF Crash
<1> QED BY <1>1, <1>2, <1>3, <1>4, <1>5, <1>6, <1>7, <1>8
        DEF Next, Enters, AllServed, PodsInv

\* Every reachable state satisfies it, whatever number of adapters there are.
THEOREM PodsKnown ==
    ASSUME Survivable, Adapters # {}
    PROVE  Spec => []PodsInv
<1>1. Init => PodsInv
  BY ConfigAssumption, PodsInvInit
<1>2. PodsInv /\ [Next]_vars => PodsInv'
  BY ConfigAssumption, PodsInvNext
<1> QED BY <1>1, <1>2, PTL DEF Spec

\* Every pod that exists is recorded, about to be recorded, or told to terminate.
\* This holds for any number of adapters and with every fault but those after
\* which the code cannot know of the pod.
THEOREM NoPodOrphaned ==
    ASSUME Survivable, Adapters # {}
    PROVE  Spec => []NoOrphan
<1>1. PodsInv => NoOrphan
  BY DEF PodsInv, Tracked, NoOrphan, Recorded
<1> QED BY <1>1, PodsKnown, PTL

\* A deploy that has been answered is the one its handler waits for under the
\* deploy lock, and nothing is on record meanwhile.
LEMMA AnswerAlone ==
    ASSUME ConfigAssumption, PodsInv, NEW p \in Pods, DeployAnswerPending(p)
    PROVE  \E r \in Requests :
              /\ call[AsrCaller(r)].pod = p /\ flock = r
              /\ activePodId[Home[r]] = NoPod /\ podFile = NoPod
<1>1. PICK c \in Callers : call[c] = [op |-> "deploy", pod |-> p, st |-> "done"]
  BY DEF DeployAnswerPending
<1>2. PICK r \in Requests : c = AsrCaller(r) \/ c = IdleCaller(r)
  BY CallersAre
<1>3. c # IdleCaller(r)
  <2>1. task[r].st \in TaskStatuses /\ Timed(task[r], req[r], call[IdleCaller(r)])
    BY DEF PodsInv, IInv, Typed, TaskType, Known, TimersKnown
  <2> QED BY <1>1, <2>1 DEF Timed, TaskStatuses, NoCall
<1>4. req[r].pc = "deploying"
  BY <1>1, <1>2, <1>3 DEF PodsInv, Known, HandlersKnown, Handled, NoCall
<1> QED BY <1>1, <1>2, <1>3, <1>4
        DEF PodsInv, IInv, DeployLockHeld, DeployOnlyWhenUntracked

\* A pod that exists and is not told to terminate is the one the adapter
\* remembers, or the one it is about to.
LEMMA OnePod ==
    ASSUME ConfigAssumption, PodsInv, OneAdapter,
           NEW p \in Pods, NEW q \in Pods,
           Live(p), ~TerminatePending(p), Live(q), ~TerminatePending(q)
    PROVE  p = q
<1>1. \A s \in {p, q} : (\E a \in Adapters : activePodId[a] = s) \/ DeployAnswerPending(s)
  BY DEF PodsInv, Tracked
<1>2. \A r \in Requests : Home[r] \in Adapters
  BY DEF ConfigAssumption
<1> QED BY <1>1, <1>2, AnswerAlone DEF OneAdapter, ConfigAssumption

\* One adapter keeps at most one pod that it is not terminating.
THEOREM OnePodWarm ==
    ASSUME Survivable, OneAdapter, Adapters # {}
    PROVE  Spec => []OneWarmPod
<1>1. ASSUME PodsInv
      PROVE  OneWarmPod
  <2> DEFINE S == {p \in Pods : Live(p) /\ ~TerminatePending(p)}
  <2>1. \A p, q \in S : p = q
    BY <1>1, ConfigAssumption, OnePod
  <2>2. S = {} \/ \E p : S = {p}
    BY <2>1
  <2>3. Cardinality(S) \in {0, 1}
    BY <2>2, FS_EmptySet, FS_Singleton
  <2> QED BY <2>3 DEF OneWarmPod
<1> QED BY <1>1, PodsKnown, PTL

\* The file of a single adapter names the pod it remembers, unless that pod may
\* be forgotten.
LEMMA FileRemembered ==
    ASSUME ConfigAssumption, PodsInv, OneAdapter, podFile # NoPod, ~Dismissed(podFile),
           NEW a \in Adapters
    PROVE  activePodId[a] = podFile
<1>1. podFile \in Pods
  BY DEF PodsInv, Known, RecordBorn, Born
<1> QED BY <1>1, AnswerAlone DEF PodsInv, Tracked, Dismissed, OneAdapter

\* Clearing the record of another pod keeps the file of a single adapter.
LEMMA FileKept ==
    ASSUME ConfigAssumption, PodsInv, OneAdapter, podFile # NoPod, ~Dismissed(podFile),
           NEW a \in Adapters, NEW p, Dismissed(p), Clear(a, p)
    PROVE  podFile' = podFile
BY FileRemembered DEF Clear

\* The file is emptied only of a pod that is gone or told to terminate.
THEOREM ForgottenGone ==
    ASSUME Survivable, OneAdapter, Adapters # {}
    PROVE  Spec => ForgottenOnlyWhenGone
<1>1. ASSUME PodsInv, [Next]_vars, podFile # NoPod, podFile' = NoPod
      PROVE  Dismissed(podFile)
  <2> SUFFICES ASSUME ~Dismissed(podFile)
               PROVE  podFile' = podFile
    BY <1>1
  <2>1. Typed /\ Known
    BY <1>1 DEF PodsInv, IInv
  <2>2. ASSUME NEW r \in Requests, HandlerStep(r)
        PROVE  podFile' = podFile
    <3>1. Carries(r) /\ Home[r] \in Adapters
      BY <2>1, <2>2, ConfigAssumption, HandlerCarries, Locals
    <3>2. req[r].pc # "deploying"
      BY <1>1 DEF PodsInv, IInv, DeployOnlyWhenUntracked
    <3>3. CASE KeepRecord
      BY <3>3 DEF KeepRecord
    <3>4. CASE \E p : ~Live(p) /\ Clear(Home[r], p)
      BY <1>1, <3>1, <3>4, ConfigAssumption, FileKept DEF Dismissed
    <3> QED BY <3>1, <3>2, <3>3, <3>4 DEF Carries, ForgetsGone
  <2>3. ASSUME NEW r \in Requests, TaskStep(r)
        PROVE  podFile' = podFile
    <3>1. Winds(r) /\ Home[r] \in Adapters
      BY <2>1, <2>3, ConfigAssumption, TaskWinds, Locals
    <3> QED BY <1>1, <3>1, ConfigAssumption, FileKept DEF Winds, KeepRecord
  <2>4. ASSUME NEW r \in Requests, Enters(r)
        PROVE  podFile' = podFile
    BY <2>1, <2>4, ConfigAssumption, EntersHandled DEF podStateVars
  <2>5. CASE \/ \E c \in Callers : MutationStep(c)
             \/ \E p \in Pods : PodStep(p)
             \/ UNCHANGED vars
    BY <2>5 DEF MutationStep, PodStep, vars, podStateVars
  <2>6. \A a : ~Crash(a)
    BY NoSuchFault DEF Crash
  <2> QED BY <1>1, <2>2, <2>3, <2>4, <2>5, <2>6 DEF Next, Enters, AllServed
<1> DEFINE A == podFile # NoPod /\ podFile' = NoPod => Dismissed(podFile)
<1>2. PodsInv /\ [Next]_vars => [A]_vars
  BY <1>1
<1> HIDE DEF A
<1>3. Spec => [][A]_vars
  BY <1>2, PodsKnown, PTL DEF Spec
<1>4. ([][A]_vars) <=> ForgottenOnlyWhenGone
  BY DEF A, Dismissed, ForgottenOnlyWhenGone
<1> QED BY <1>3, <1>4

-----------------------------------------------------------------------------
\* A fixed pod, under every fault of the model.

\* A fixed pod is given, and the operator did not set the idle action to
\* "terminate": the default of this mode is "stop".
FixedPod == ConfiguredPod # NoPod /\ ~Template /\ IdleSetting # "terminate"

\* No handler deploys or replaces, no task drains to terminate, and every call
\* there is resumes or stops the pod.
OnlyStopped ==
    /\ \A r \in Requests : req[r].pc \notin DeployPCs \cup {"terminating"}
    /\ \A r \in Requests : task[r].st # "draining"
    /\ \A c \in Callers : call[c].op \in {"none", "start", "stop"}

FixedInv == IInv /\ OnlyStopped

\* Where a handler of a fixed pod may be suspended.
Resumes(r) == req'[r].pc \notin DeployPCs \cup {"terminating"}

\* Errors and the wait loop stay there.
LEMMA WaitResumes ==
    ASSUME ConfigAssumption, Typed, NEW r \in Requests, NEW p, NEW armed, NEW e,
           WaitUntilReady(r, p, armed) \/ Raise(r, e)
    PROVE  Resumes(r)
<1>1. \A x : Raise(r, x) => req'[r].pc = "done"
  BY RaiseAnswers
<1>2. CASE Proceed(r, [req[r] EXCEPT !.pc = "poll", !.pod = p, !.armed = armed])
  <2>1. req'[r].pc = "poll"
    BY <1>2, Locals DEF Proceed, Typed, ManagerTypeOK, RequestType
  <2> QED BY <2>1 DEF Resumes
<1> QED BY <1>1, <1>2 DEF WaitUntilReady, Resumes

\* A handler step of a fixed pod.
LEMMA FixedHandler ==
    ASSUME ConfigAssumption, FixedInv, FixedPod, NEW r \in Requests, HandlerStep(r)
    PROVE  Resumes(r) /\ call'[AsrCaller(r)].op \in {"none", "start", "stop"}
           /\ \A c \in Callers \ {AsrCaller(r)} : call'[c] = call[c]
<1> DEFINE c == AsrCaller(r)
<1>1. /\ Typed /\ OnlyStopped /\ ConfiguredPod # NoPod /\ ~Template
      /\ Home[r] \in Adapters /\ c \in Callers /\ call \in [Callers -> CallType]
      /\ req \in [Requests -> RequestType]
  BY Locals DEF FixedInv, IInv, FixedPod, Typed, ManagerTypeOK
<1>2. Load(Home[r]) = ConfiguredPod
  BY <1>1 DEF FixedInv, IInv, Pinned, Load
<1>3. call[c].op \in {"none", "start", "stop"}
  BY <1>1 DEF OnlyStopped
<1>4. ASSUME UNCHANGED call
      PROVE  /\ call'[c].op \in {"none", "start", "stop"}
             /\ \A d \in Callers \ {c} : call'[d] = call[d]
  BY <1>3, <1>4
<1>5. CASE LockAcquired(r)
  <2>1. UNCHANGED call
    BY <1>5 DEF LockAcquired, cloudVars
  <2>2. CASE Raise(r, "readiness_timeout")
    BY <1>1, <1>4, <2>1, <2>2, WaitResumes
  <2>3. CASE Proceed(r, GetOrDeploy(r))
    <3>1. req'[r].pc = "inspect"
      BY <1>1, <1>2, <2>3 DEF Proceed, GetOrDeploy, RequestType
    <3> QED BY <1>4, <2>1, <3>1 DEF Resumes
  <2> QED BY <1>5, <2>2, <2>3 DEF LockAcquired
<1>6. CASE Inspect(r)
  <2>1. CASE \E e : Raise(r, e) /\ UNCHANGED call
    BY <1>1, <1>4, <2>1, WaitResumes
  <2>2. CASE UNCHANGED call /\ Proceed(r, [req[r] EXCEPT !.pc = "probe"])
    <3>1. req'[r].pc = "probe"
      BY <1>1, <2>2 DEF Proceed, RequestType
    <3> QED BY <1>4, <2>2, <3>1 DEF Resumes
  <2>3. CASE /\ Send(c, "start", req[r].pod)
             /\ Proceed(r, [req[r] EXCEPT !.pc = "starting"])
    <3>1. req'[r].pc = "starting"
      BY <1>1, <2>3 DEF Proceed, RequestType
    <3>2. call'[c].op = "start" /\ \A d \in Callers \ {c} : call'[d] = call[d]
      BY <1>1, <2>3 DEF Send
    <3> QED BY <3>1, <3>2 DEF Resumes
  <2> QED BY <1>1, <1>6, <2>1, <2>2, <2>3 DEF Inspect
<1>7. CASE Started(r)
  <2>1. Resumes(r)
    BY <1>1, <1>7, WaitResumes DEF Started
  <2>2. CASE TakeReply(c)
    BY <1>1, <2>1, <2>2 DEF TakeReply, NoCall
  <2>3. CASE Abandon(c, TRUE)
    <3>1. PICK m \in AfterAbandon(c, TRUE) : call' = [call EXCEPT ![c] = m]
      BY <2>3 DEF Abandon
    <3>2. m.op \in {"none", "start", "stop"}
      BY <1>1, <1>3, <3>1 DEF AfterAbandon, NoCall, CallType
    <3> QED BY <1>1, <2>1, <3>1, <3>2
  <2> QED BY <1>7, <2>2, <2>3 DEF Started
<1>8. CASE Poll(r)
  <2>1. UNCHANGED call
    BY <1>1, <1>8 DEF Poll
  <2>2. CASE Proceed(r, [req[r] EXCEPT !.pc = "probe", !.armed = FALSE])
    <3>1. req'[r].pc = "probe"
      BY <1>1, <2>2 DEF Proceed, RequestType
    <3> QED BY <1>4, <2>1, <3>1 DEF Resumes
  <2>3. CASE \/ Raise(r, "not_found")
             \/ \E armed \in BOOLEAN : WaitUntilReady(r, req[r].pod, armed)
    BY <1>1, <1>4, <2>1, <2>3, WaitResumes
  <2> QED BY <1>1, <1>8, <2>2, <2>3 DEF Poll
<1>9. CASE QueryFails(r)
  BY <1>1, <1>4, <1>9, WaitResumes DEF QueryFails, cloudVars
<1>10. CASE Probe(r)
  <2>1. UNCHANGED call
    BY <1>10 DEF Probe, cloudVars
  <2>2. CASE req' = [req EXCEPT ![r] = [NewRequest EXCEPT !.pc = "forward", !.pod = req[r].pod]]
    <3>1. req'[r].pc = "forward"
      BY <1>1, <2>2 DEF NewRequest
    <3> QED BY <1>4, <2>1, <3>1 DEF Resumes
  <2>3. CASE Raise(r, "temporary") \/ WaitUntilReady(r, req[r].pod, FALSE)
    BY <1>1, <1>4, <2>1, <2>3, WaitResumes
  <2> QED BY <1>10, <2>2, <2>3 DEF Probe
<1>11. CASE Forward(r)
  <2>1. PICK status : Respond(r, status)
    BY <1>11 DEF Forward
  <2>2. req'[r].pc = "done" /\ UNCHANGED call
    BY <1>1, <1>11, <2>1 DEF Respond, Answered, NewRequest, Forward, cloudVars
  <2> QED BY <1>4, <2>2 DEF Resumes
<1>12. req[r].pc \notin DeployPCs \cup {"terminating"}
  BY <1>1 DEF OnlyStopped
<1> QED BY <1>5, <1>6, <1>7, <1>8, <1>9, <1>10, <1>11, <1>12
        DEF HandlerStep, DeployLockAcquired, Deployed, DeployLockReleased, RetryDeploy, Terminated

\* A task step of a fixed pod.
LEMMA FixedTask ==
    ASSUME ConfigAssumption, FixedInv, FixedPod, NEW r \in Requests, TaskStep(r)
    PROVE  OnlyStopped'
<1> DEFINE c == IdleCaller(r)
<1>1. /\ Typed /\ OnlyStopped /\ c \in Callers /\ call \in [Callers -> CallType]
      /\ task \in [Requests -> TaskType] /\ IdleAction # "terminate"
  BY Locals DEF FixedInv, IInv, FixedPod, Typed, IdleAction, TemplateModeEnabled
<1>2. task[r].st # "draining" /\ call[c].op \in {"none", "start", "stop"} /\ UNCHANGED req
  BY <1>1 DEF OnlyStopped, TaskStep, managerVars
<1>3. /\ task'[r].st # "draining"
      /\ \A q \in Requests \ {r} : task'[q] = task[q]
  <2>1. CASE TaskEnds(r)
    BY <1>1, <2>1 DEF TaskEnds, NoTask
  <2>2. CASE \E p : TaskMovesTo(r, "calling", p)
    BY <1>1, <2>2 DEF TaskMovesTo, TaskType
  <2> QED BY <1>1, <1>2, <2>1, <2>2 DEF TaskStep, Wake, Drained, Released, CancelDelivered
<1>4. /\ call'[c].op \in {"none", "start", "stop"}
      /\ \A d \in Callers \ {c} : call'[d] = call[d]
  <2>1. CASE UNCHANGED call
    BY <1>2, <2>1
  <2>2. CASE \E p : Send(c, "stop", p)
    BY <1>1, <2>2 DEF Send
  <2>3. CASE TakeReply(c)
    BY <1>1, <2>3 DEF TakeReply, NoCall
  <2>4. CASE \E drop : Abandon(c, drop)
    <3>1. PICK drop : Abandon(c, drop)
      BY <2>4
    <3>2. PICK m \in AfterAbandon(c, drop) : call' = [call EXCEPT ![c] = m]
      BY <3>1 DEF Abandon
    <3>3. m.op \in {"none", "start", "stop"}
      BY <1>1, <1>2, <3>2 DEF AfterAbandon, NoCall, CallType
    <3> QED BY <1>1, <3>2, <3>3
  <2>5. CASE Wake(r)
    BY <1>1, <2>1, <2>2, <2>5 DEF Wake
  <2>6. CASE Released(r)
    BY <2>3, <2>4, <2>6 DEF Released
  <2>7. CASE CancelDelivered(r)
    BY <2>1, <2>4, <2>7 DEF CancelDelivered
  <2> QED BY <1>2, <2>5, <2>6, <2>7 DEF TaskStep, Drained
<1> QED BY <1>1, <1>2, <1>3, <1>4 DEF OnlyStopped

\* RunPod answers the calls there are and makes none.
LEMMA FixedMutation ==
    ASSUME ConfigAssumption, FixedInv, NEW c \in Callers, MutationStep(c)
    PROVE  OnlyStopped'
<1>1. /\ Typed /\ OnlyStopped /\ call \in [Callers -> CallType]
      /\ call[c].pod \in Pods \cup {NoPod} /\ UNCHANGED <<req, task>>
  BY DEF FixedInv, IInv, Typed, RunPodTypeOK, CallType, MutationStep, idleVars, managerVars
<1>2. PICK st \in CallStatuses, p \in Pods \cup {NoPod} : Answer(c, st, p)
  BY <1>1 DEF MutationStep, ProcessDeploy, RefuseForCapacity, ProcessStart, ProcessStop,
              ProcessTerminate, ProcessOnPod, CallStatuses
<1>3. /\ \A d \in Callers \ {c} : call'[d] = call[d]
      /\ call'[c].op \in {call[c].op, "none"}
  <2>1. /\ \A d \in Callers \ {c} : call'[d] = call[d]
        /\ call'[c] = NoCall \/ call'[c] = [op |-> call[c].op, pod |-> p, st |-> st]
    BY <1>1, <1>2, AnswerGiven
  <2> QED BY <2>1 DEF NoCall
<1> QED BY <1>1, <1>3 DEF OnlyStopped

\* A restarted adapter has no tasks, its calls are dropped or remain.
LEMMA FixedCrash ==
    ASSUME ConfigAssumption, FixedInv, NEW a \in Adapters, Crash(a)
    PROVE  OnlyStopped'
<1>1. /\ OnlyStopped /\ call \in [Callers -> CallType]
  BY DEF FixedInv, IInv, Typed, RunPodTypeOK
<1>2. \A r \in Requests : req'[r].pc \in {"done", req[r].pc}
  BY DEF Crash, Answered, NewRequest
<1>3. \A r \in Requests : task'[r].st \in {"none", task[r].st}
  BY DEF Crash, NoTask
<1>4. \A c \in Callers : call'[c].op \in {"none", call[c].op}
  <2>1. PICK lost \in SUBSET Callers :
          call' = [c \in Callers |-> IF Home[c[2]] # a THEN call[c]
                                     ELSE IF c \in lost THEN [call[c] EXCEPT !.st = "lost"]
                                     ELSE NoCall]
    BY DEF Crash
  <2>2. \A c \in Callers : [call[c] EXCEPT !.st = "lost"].op = call[c].op
    BY <1>1 DEF CallType
  <2> QED BY <2>1, <2>2 DEF NoCall
<1> QED BY <1>1, <1>2, <1>3, <1>4 DEF OnlyStopped

\* A request that arrives looks at the pod on record.
LEMMA FixedEnters ==
    ASSUME ConfigAssumption, FixedInv, FixedPod, NEW r \in Requests, Enters(r)
    PROVE  OnlyStopped'
<1>1. /\ Typed /\ OnlyStopped /\ req \in [Requests -> RequestType]
      /\ Home[r] \in Adapters /\ Load(Home[r]) # NoPod
  BY Locals DEF FixedInv, IInv, Typed, ManagerTypeOK, Pinned, Load, FixedPod
<1>2. UNCHANGED call
  BY DEF Enters, Arrive, TooLarge, Spooled, DeadlinePasses, cloudVars
<1>3. \A q \in Requests : task'[q].st \in {task[q].st, "sleeping"}
  <2>1. CASE UNCHANGED task
    BY <2>1
  <2>2. \A q \in Requests : Cancelled(Home[r])[q].st = task[q].st
    BY <1>1, CancelledStays
  <2>3. CASE ScheduleIdleRelease(r)
    BY <2>2, <2>3 DEF ScheduleIdleRelease, Cancelled
  <2>4. CASE RequestStarted(r)
    BY <2>2, <2>4 DEF RequestStarted
  <2> QED BY <2>1, <2>3, <2>4
          DEF Enters, Arrive, TooLarge, Spooled, DeadlinePasses, idleVars
<1>4. \A q \in Requests :
         req'[q].pc \in {req[q].pc, "spooling", "done", "inspect", "lockwait"}
  <2>1. CASE Arrive(r) \/ TooLarge(r) \/ DeadlinePasses(r)
    <3>1. CASE Arrive(r)
      BY <1>1, <3>1 DEF Arrive, RequestType
    <3>2. CASE TooLarge(r)
      BY <1>1, <3>2 DEF TooLarge, Answered, NewRequest
    <3>3. CASE DeadlinePasses(r)
      BY <1>1, <3>3 DEF DeadlinePasses, RequestType
    <3> QED BY <2>1, <3>1, <3>2, <3>3
  <2>2. Answered(StatusOf("config")).pc = "done"
    BY DEF Answered, NewRequest
  <2>3. GetOrDeploy(r).pc = "inspect"
    BY <1>1 DEF GetOrDeploy, RequestType
  <2>4. CASE Spooled(r)
    BY <1>1, <2>2, <2>3, <2>4 DEF Spooled, RequestType
  <2> QED BY <2>1, <2>4 DEF Enters
<1> QED BY <1>1, <1>2, <1>3, <1>4 DEF OnlyStopped

\* Every step of a deployment with a fixed pod.
LEMMA FixedNext ==
    ASSUME ConfigAssumption, FixedInv, FixedPod, [Next]_vars
    PROVE  FixedInv'
<1>1. IInv'
  BY IInvNext DEF FixedInv
<1>2. ASSUME NEW r \in Requests, HandlerStep(r)
      PROVE  OnlyStopped'
  <2>1. /\ Typed /\ OnlyStopped
    BY DEF FixedInv, IInv
  <2>2. \A q \in Requests : req'[q].pc \notin DeployPCs \cup {"terminating"}
    BY <1>2, <2>1, FixedHandler, OthersStay DEF OnlyStopped, Resumes
  <2>3. \A c \in Callers : call'[c].op \in {"none", "start", "stop"}
    BY <1>2, <2>1, FixedHandler DEF OnlyStopped
  <2>4. \A q \in Requests : task'[q].st \in {task[q].st, "sleeping"}
    <3>1. \A q \in Requests : Cancelled(Home[r])[q].st = task[q].st
      BY <2>1, CancelledStays, Locals
    <3>2. UNCHANGED task \/ ScheduleIdleRelease(r)
      BY <1>2, <2>1, HandlerTimers
    <3>3. CASE ScheduleIdleRelease(r)
      BY <3>1, <3>3 DEF ScheduleIdleRelease, Cancelled
    <3> QED BY <3>2, <3>3
  <2> QED BY <2>1, <2>2, <2>3, <2>4 DEF OnlyStopped
<1>3. ASSUME NEW p \in Pods, PodStep(p)
      PROVE  OnlyStopped'
  BY <1>3 DEF PodStep, PodBoots, PodLost, idleVars, managerVars, FixedInv, OnlyStopped
<1>4. ASSUME UNCHANGED vars
      PROVE  OnlyStopped'
  BY <1>4 DEF vars, cloudVars, idleVars, managerVars, FixedInv, OnlyStopped
<1> QED BY <1>1, <1>2, <1>3, <1>4, FixedTask, FixedMutation, FixedCrash, FixedEnters
        DEF Next, Enters, AllServed, FixedInv

\* In fixed-pod mode the pod is never terminated and none is deployed, whatever
\* fails: crashes, lost answers and a shared or failing file included.
THEOREM FixedOnlyStopped ==
    ASSUME IdleSetting # "terminate"
    PROVE  Spec => []FixedPodOnlyStopped
<1>1. CASE ConfiguredPod # NoPod /\ ~Template
  <2>1. FixedPod
    BY <1>1 DEF FixedPod
  <2>2. Init => FixedInv
    <3>1. Init => OnlyStopped
      BY DEF Init, RunPodInit, IdleInit, ManagerInit, NewRequest, NoTask, NoCall, OnlyStopped
    <3> QED BY <3>1, ConfigAssumption, IInvInit DEF FixedInv
  <2>3. FixedInv /\ [Next]_vars => FixedInv'
    BY <2>1, ConfigAssumption, FixedNext
  <2>4. FixedInv => FixedPodOnlyStopped
    BY DEF FixedInv, OnlyStopped, FixedPodOnlyStopped
  <2> QED BY <2>2, <2>3, <2>4, PTL DEF Spec
<1>2. CASE ~(ConfiguredPod # NoPod /\ ~Template)
  <2>1. TRUE => FixedPodOnlyStopped
    BY <1>2 DEF FixedPodOnlyStopped
  <2> QED BY <2>1, PTL
<1> QED BY <1>1, <1>2

=============================================================================
