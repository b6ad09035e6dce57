------------------------ MODULE AdapterSteps_proofs -------------------------
(***************************************************************************)
(* What each action of module Adapter does to the types, the record and the *)
(* locks, for any number of adapters, requests and pods, any settings and any *)
(* faults.                                                                 *)
(*                                                                         *)
(* A handler that holds RunPodManager._lock leaves every one of its steps in *)
(* one of two ways, Proceed or Raise.  Advance names this, the lemmas about *)
(* single actions establish it once, and the other proofs start from it.   *)
(***************************************************************************)
EXTENDS AdapterProperties, Integers, TLAPS

USE DEF LockedPCs, DeployPCs

\* The handler of r is suspended again at one of the pcs of S, or has answered.
Advance(r, S) ==
    \/ \E next \in RequestType : next.pc \in S /\ Proceed(r, next)
    \/ \E e \in Exceptions : Raise(r, e)

\* Where a handler is after the deploy loop or the wait loop has turned.
Loops == {"inspect", "poll", "flock"}

\* The type of the record alone.
RecordOK ==
    /\ activePodId \in [Adapters -> Pods \cup {NoPod}]
    /\ podFile \in Pods \cup {NoPod}

\* Types, but for the count, which needs an invariant of its own.
Typed ==
    /\ PodStateTypeOK
    /\ RunPodTypeOK
    /\ active \in [Adapters -> Int]
    /\ current \in [Adapters -> Requests \cup {NoReq}]
    /\ task \in [Requests -> TaskType]
    /\ ManagerTypeOK

\* The head of the wait loop suspends the handler at "poll" or ends it.
LEMMA WaitAdvances ==
    ASSUME NEW r \in Requests, NEW p \in Pods \cup {NoPod}, NEW armed \in BOOLEAN,
           req[r] \in RequestType, WaitUntilReady(r, p, armed)
    PROVE  Advance(r, {"poll"})
<1>1. CASE req[r].late
  BY <1>1 DEF WaitUntilReady, Advance, Exceptions
<1>2. CASE ~req[r].late
  <2> DEFINE next == [req[r] EXCEPT !.pc = "poll", !.pod = p, !.armed = armed]
  <2>1. next \in RequestType /\ next.pc = "poll"
    BY DEF RequestType, PCs
  <2>2. Proceed(r, next)
    BY <1>2 DEF WaitUntilReady
  <2> QED BY <2>1, <2>2 DEF Advance
<1> QED BY <1>1, <1>2

\* Returning from the deploy loop does the same, or inspects the pod.
LEMMA ReturnAdvances ==
    ASSUME NEW r \in Requests, NEW p \in Pods \cup {NoPod}, NEW back \in Returns,
           req[r] \in RequestType, ReturnPod(r, back, p)
    PROVE  Advance(r, {"inspect", "poll"})
<1>1. CASE back = "poll"
  <2>1. WaitUntilReady(r, p, FALSE)
    BY <1>1 DEF ReturnPod
  <2> QED BY <2>1, WaitAdvances DEF Advance
<1>2. CASE back # "poll"
  <2> DEFINE next == [req[r] EXCEPT !.pc = "inspect", !.pod = p, !.back = back]
  <2>1. next \in RequestType /\ next.pc = "inspect"
    BY DEF RequestType, PCs
  <2>2. Proceed(r, next)
    BY <1>2 DEF ReturnPod
  <2> QED BY <2>1, <2>2 DEF Advance
<1> QED BY <1>1, <1>2

\* The head of the deploy loop waits for the deploy lock, returns, or ends.
LEMMA DeployAdvances ==
    ASSUME NEW r \in Requests, NEW back \in Returns, req[r] \in RequestType,
           ConfigAssumption, RecordOK', DeployFromTemplate(r, back)
    PROVE  Advance(r, Loops)
<1> DEFINE existing == Load(Home[r])'
<1>1. existing \in Pods \cup {NoPod}
  BY DEF RecordOK, Load, ConfigAssumption
<1>2. CASE req[r].late
  BY <1>2 DEF DeployFromTemplate, Advance, Exceptions
<1>3. CASE ~req[r].late /\ existing # NoPod
  <2>1. ReturnPod(r, back, existing)
    BY <1>3 DEF DeployFromTemplate
  <2>2. Advance(r, {"inspect", "poll"})
    BY <1>1, <2>1, ReturnAdvances
  <2> QED BY <2>2 DEF Advance, Loops
<1>4. CASE ~req[r].late /\ existing = NoPod
  <2> DEFINE next == [req[r] EXCEPT !.pc = "flock", !.pod = NoPod, !.back = back]
  <2>1. next \in RequestType /\ next.pc = "flock"
    BY DEF RequestType, PCs
  <2>2. Proceed(r, next)
    BY <1>4 DEF DeployFromTemplate
  <2> QED BY <2>1, <2>2 DEF Advance, Loops
<1> QED BY <1>2, <1>3, <1>4

-----------------------------------------------------------------------------
\* What the operations of the components preserve.

\* Whatever the code does to the record, it holds pod ids.
LEMMA RecordTyped ==
    ASSUME ConfigAssumption, RecordOK, NEW a \in Adapters, NEW p \in Pods \cup {NoPod},
           Store(a, p) \/ Clear(a, p) \/ KeepRecord
    PROVE  RecordOK'
<1>1. CASE Store(a, p)
  BY <1>1 DEF RecordOK, Store, FileAfter
<1>2. CASE Clear(a, p)
  BY <1>2 DEF RecordOK, Clear, FileAfterUnlink
<1>3. CASE KeepRecord
  BY <1>3 DEF RecordOK, KeepRecord
<1> QED BY <1>1, <1>2, <1>3

\* Whatever a caller does to its call, it holds a mutation or none.
LEMMA CallTyped ==
    ASSUME ConfigAssumption, call \in [Callers -> CallType], NEW c \in Callers,
           NEW op \in Ops, NEW p \in Pods \cup {NoPod}, NEW mayDrop \in BOOLEAN,
           \/ Send(c, op, p) \/ TakeReply(c) \/ Abandon(c, mayDrop) \/ UNCHANGED call
    PROVE  call' \in [Callers -> CallType]
<1>1. NoCall \in CallType
  BY DEF NoCall, CallType, Ops, CallStatuses
<1>2. CASE Send(c, op, p)
  <2>1. [op |-> op, pod |-> p, st |-> "sent"] \in CallType
    BY DEF CallType, CallStatuses
  <2> QED BY <1>2, <2>1 DEF Send
<1>3. CASE TakeReply(c)
  BY <1>1, <1>3 DEF TakeReply
<1>4. CASE Abandon(c, mayDrop)
  <2>1. [call[c] EXCEPT !.st = "lost"] \in CallType
    BY DEF CallType, CallStatuses
  <2>2. AfterAbandon(c, mayDrop) \subseteq CallType
    BY <1>1, <2>1 DEF AfterAbandon
  <2> QED BY <1>4, <2>2 DEF Abandon
<1>5. CASE UNCHANGED call
  BY <1>5
<1> QED BY <1>2, <1>3, <1>4, <1>5

\* Cancelling the timer and starting another leaves tasks.
LEMMA TaskTyped ==
    ASSUME ConfigAssumption, task \in [Requests -> TaskType], NEW r \in Requests,
           ScheduleIdleRelease(r) \/ task' = Cancelled(Home[r])
    PROVE  task' \in [Requests -> TaskType]
<1>1. Cancelled(Home[r]) \in [Requests -> TaskType]
  BY DEF Cancelled, TaskType
<1>2. [st |-> "sleeping", pod |-> NoPod, cancelled |-> FALSE] \in TaskType
  BY DEF TaskType, TaskStatuses
<1> QED BY <1>1, <1>2 DEF ScheduleIdleRelease

\* The statuses the handler maps exceptions to are HTTP statuses it uses.
LEMMA StatusTyped ==
    ASSUME NEW e PROVE StatusOf(e) \in Statuses \ {0}
BY DEF StatusOf, Statuses

\* An answered request's record is well formed, and its handler is over.
LEMMA AnsweredTyped ==
    ASSUME ConfigAssumption, NEW status \in Statuses
    PROVE  Answered(status) \in RequestType /\ Answered(status).pc = "done"
<1>1. NewRequest \in RequestType
  BY DEF NewRequest, RequestType, PCs, Returns, Statuses
<1>2. Answered(status) = [NewRequest EXCEPT !.pc = "done", !.status = status]
  BY DEF Answered
<1> HIDE DEF NewRequest
<1> QED BY <1>1, <1>2 DEF RequestType, PCs

\* Both ways on keep the types of all they touch.
LEMMA AdvanceTyped ==
    ASSUME ConfigAssumption, Typed, NEW r \in Requests, NEW S, Advance(r, S)
    PROVE  /\ active' \in [Adapters -> Int]
           /\ current' \in [Adapters -> Requests \cup {NoReq}]
           /\ task' \in [Requests -> TaskType]
           /\ ManagerTypeOK'
<1>1. Home[r] \in Adapters
  BY DEF ConfigAssumption
<1>2. CASE \E next \in RequestType : next.pc \in S /\ Proceed(r, next)
  BY <1>1, <1>2 DEF Typed, ManagerTypeOK, Proceed, idleVars
<1>3. ASSUME NEW e \in Exceptions, Raise(r, e)
      PROVE  /\ active' \in [Adapters -> Int]
             /\ current' \in [Adapters -> Requests \cup {NoReq}]
             /\ task' \in [Requests -> TaskType]
             /\ ManagerTypeOK'
  <2>1. Answered(StatusOf(e)) \in RequestType
    BY StatusTyped, AnsweredTyped
  <2>2. req' = [req EXCEPT ![r] = Answered(StatusOf(e))]
    BY <1>3 DEF Raise, Respond
  <2>3. ManagerTypeOK'
    BY <1>1, <1>3, <2>1, <2>2 DEF Typed, ManagerTypeOK, Raise
  <2>4. RequestFinished(r)
    BY <1>3 DEF Raise, Respond
  <2>5. task' \in [Requests -> TaskType]
    BY <2>4, TaskTyped DEF Typed, RequestFinished
  <2> QED BY <1>1, <2>3, <2>4, <2>5 DEF Typed, RequestFinished, ScheduleIdleRelease
<1> QED BY <1>2, <1>3 DEF Advance

-----------------------------------------------------------------------------
\* The handler's actions that run under RunPodManager._lock, one lemma each.

\* Where a handler holds RunPodManager._lock but not the deploy lock.
Free == LockedPCs \ {"deploying", "unflock"}

\* What none of these actions spoils.
Kept ==
    /\ RecordOK'
    /\ call' \in [Callers -> CallType]
    /\ UNCHANGED cloud

\* Advance is monotonic in the places the handler may reach.
LEMMA AdvanceMonotonic ==
    ASSUME NEW r, NEW S, NEW T, S \subseteq T, Advance(r, S)
    PROVE  Advance(r, T)
BY DEF Advance

\* An error out of a call ends the handler.
LEMMA RaiseAdvances ==
    ASSUME NEW r, NEW e \in Exceptions, NEW S, Raise(r, e)
    PROVE  Advance(r, S)
BY DEF Advance

\* Facts about the callers and locals of r the lemmas share.
LEMMA Locals ==
    ASSUME ConfigAssumption, Typed, NEW r \in Requests
    PROVE  /\ Home[r] \in Adapters
           /\ AsrCaller(r) \in Callers /\ IdleCaller(r) \in Callers
           /\ req[r] \in RequestType
           /\ req[r].pod \in Pods \cup {NoPod} /\ req[r].back \in Returns
           /\ req[r].exc \in Exceptions \cup {"none"}
           /\ RecordOK
           /\ call \in [Callers -> CallType]
           /\ \A c \in Callers : call[c].pod \in Pods \cup {NoPod}
           /\ Load(Home[r]) \in Pods \cup {NoPod}
<1>1. RecordOK /\ Home[r] \in Adapters
  BY DEF ConfigAssumption, Typed, PodStateTypeOK, RecordOK
<1>2. req[r] \in RequestType
  BY DEF Typed, ManagerTypeOK
<1>3. call \in [Callers -> CallType]
  BY DEF Typed, RunPodTypeOK
<1>4. AsrCaller(r) \in Callers /\ IdleCaller(r) \in Callers
  BY DEF AsrCaller, IdleCaller, Callers
<1>5. Load(Home[r]) \in Pods \cup {NoPod}
  BY <1>1 DEF RecordOK, Load
<1> QED BY <1>1, <1>2, <1>3, <1>4, <1>5 DEF RequestType, CallType

\* Entering ensure_ready: the pod is inspected, or a deploy begins.
LEMMA GetOrDeployTyped ==
    ASSUME ConfigAssumption, Typed, NEW r \in Requests
    PROVE  GetOrDeploy(r) \in RequestType /\ GetOrDeploy(r).pc \in {"inspect", "flock"}
BY Locals DEF GetOrDeploy, RequestType, PCs, Returns

\* Getting _lock leads to the first look at the pod, or to the deadline's error.
LEMMA LockAcquiredStep ==
    ASSUME ConfigAssumption, Typed, NEW r \in Requests, LockAcquired(r)
    PROVE  Advance(r, Free) /\ UNCHANGED flock /\ Kept
<1>1. Kept /\ UNCHANGED flock
  BY Locals DEF LockAcquired, Kept, podStateVars, cloudVars, RecordOK
<1>2. CASE Raise(r, "readiness_timeout")
  BY <1>1, <1>2, RaiseAdvances DEF Exceptions
<1>3. CASE Proceed(r, GetOrDeploy(r))
  BY <1>1, <1>3, GetOrDeployTyped DEF Advance, Free
<1> QED BY <1>2, <1>3 DEF LockAcquired

\* After the pause the deploy loop turns once more.
LEMMA RetryDeployStep ==
    ASSUME ConfigAssumption, Typed, NEW r \in Requests, RetryDeploy(r)
    PROVE  Advance(r, Free) /\ UNCHANGED flock /\ Kept
<1>1. Kept /\ UNCHANGED flock
  BY Locals DEF RetryDeploy, Kept, cloudVars, RecordOK, KeepRecord
<1>2. Advance(r, Loops)
  BY <1>1, Locals, DeployAdvances DEF RetryDeploy, Kept
<1> QED BY <1>1, <1>2, AdvanceMonotonic DEF Loops, Free

\* The record is cleared and the handler deploys another pod, or fails.
LEMMA TerminatedStep ==
    ASSUME ConfigAssumption, Typed, NEW r \in Requests, Terminated(r)
    PROVE  Advance(r, Free) /\ UNCHANGED flock /\ Kept
<1>1. RecordOK'
  BY Locals, RecordTyped DEF Terminated
<1>2. CASE TakeReply(AsrCaller(r)) /\ DeployFromTemplate(r, "poll")
  <2>1. Advance(r, Loops)
    BY <1>1, <1>2, Locals, DeployAdvances DEF Returns
  <2>2. Advance(r, Free)
    BY <2>1, AdvanceMonotonic DEF Loops, Free
  <2>3. call' \in [Callers -> CallType]
    BY <1>2, Locals, CallTyped DEF Ops
  <2> QED BY <1>1, <2>2, <2>3 DEF Terminated, Kept
<1>3. CASE (\E e \in CallErrors : Raise(r, e)) /\ Abandon(AsrCaller(r), TRUE)
  <2>1. Advance(r, Free)
    BY <1>3, RaiseAdvances DEF Exceptions
  <2>2. call' \in [Callers -> CallType]
    BY <1>3, Locals, CallTyped DEF Ops
  <2> QED BY <1>1, <2>1, <2>2 DEF Terminated, Kept
<1> QED BY <1>2, <1>3 DEF Terminated

\* Waiting for the pod does not need the deploy lock.
LEMMA WaitIsFree ==
    ASSUME ConfigAssumption, Typed, NEW r \in Requests,
           WaitUntilReady(r, req[r].pod, FALSE)
    PROVE  Advance(r, Free)
<1>1. Advance(r, {"poll"})
  <2>1. FALSE \in BOOLEAN
    OBVIOUS
  <2> QED BY <2>1, Locals, WaitAdvances
<1> QED BY <1>1, AdvanceMonotonic DEF Free

\* podResume has been answered: the handler waits for the pod, or fails.
LEMMA StartedStep ==
    ASSUME ConfigAssumption, Typed, NEW r \in Requests, Started(r)
    PROVE  Advance(r, Free) /\ UNCHANGED flock /\ Kept
<1>1. RecordOK' /\ UNCHANGED flock
  BY Locals DEF Started, podStateVars, RecordOK
<1>2. CASE TakeReply(AsrCaller(r)) /\ WaitUntilReady(r, req[r].pod, FALSE)
  <2>1. Advance(r, Free)
    BY <1>2, Locals, WaitIsFree
  <2>2. call' \in [Callers -> CallType]
    BY <1>2, Locals, CallTyped DEF Ops
  <2> QED BY <1>1, <2>1, <2>2 DEF Started, Kept
<1>3. CASE /\ \E e \in Exceptions : Raise(r, e)
           /\ TakeReply(AsrCaller(r)) \/ Abandon(AsrCaller(r), TRUE)
  <2>1. Advance(r, Free)
    BY <1>3, RaiseAdvances
  <2>2. call' \in [Callers -> CallType]
    BY <1>3, Locals, CallTyped DEF Ops
  <2> QED BY <1>1, <2>1, <2>2 DEF Started, Kept
<1> QED BY <1>2, <1>3 DEF Started, Exceptions, CallErrors

\* An error of get_pod ends the handler and changes nothing else.
LEMMA QueryFailsStep ==
    ASSUME ConfigAssumption, Typed, NEW r \in Requests, QueryFails(r)
    PROVE  Advance(r, Free) /\ UNCHANGED flock /\ Kept
<1>1. Kept /\ UNCHANGED flock
  BY Locals DEF QueryFails, Kept, podStateVars, cloudVars, RecordOK
<1>2. Advance(r, Free)
  BY RaiseAdvances DEF QueryFails, Exceptions
<1> QED BY <1>1, <1>2

\* Replacing the pod starts with a terminate call.
LEMMA ReplaceAdvances ==
    ASSUME ConfigAssumption, Typed, NEW r \in Requests, ReplacePod(r, req[r].pod)
    PROVE  /\ Advance(r, Free)
           /\ RecordOK'
           /\ call' \in [Callers -> CallType]
<1> DEFINE next == [req[r] EXCEPT !.pc = "terminating", !.armed = FALSE]
<1>1. next \in RequestType /\ next.pc \in Free
  BY Locals DEF RequestType, PCs, Free
<1>2. Proceed(r, next)
  BY DEF ReplacePod
<1>3. Advance(r, Free)
  BY <1>1, <1>2 DEF Advance
<1>4. RecordOK'
  BY Locals DEF ReplacePod, KeepRecord, RecordOK
<1>5. call' \in [Callers -> CallType]
  BY Locals, CallTyped DEF ReplacePod, Ops
<1> QED BY <1>3, <1>4, <1>5

\* Going on to the health probe keeps the locals' types.
LEMMA ProbeNext ==
    ASSUME ConfigAssumption, Typed, NEW r \in Requests,
           \/ Proceed(r, [req[r] EXCEPT !.pc = "probe"])
           \/ Proceed(r, [req[r] EXCEPT !.pc = "probe", !.armed = FALSE])
    PROVE  Advance(r, Free)
<1> DEFINE next1 == [req[r] EXCEPT !.pc = "probe"]
<1> DEFINE next2 == [req[r] EXCEPT !.pc = "probe", !.armed = FALSE]
<1>1. /\ next1 \in RequestType /\ next1.pc \in Free
      /\ next2 \in RequestType /\ next2.pc \in Free
  BY Locals DEF RequestType, PCs, Free
<1> QED BY <1>1 DEF Advance

\* A round of _wait_until_ready leaves the deploy lock alone and keeps the types.
LEMMA PollStep ==
    ASSUME ConfigAssumption, Typed, NEW r \in Requests, Poll(r)
    PROVE  Advance(r, Free) /\ UNCHANGED flock /\ Kept
<1> DEFINE p == req[r].pod
<1>1. CASE /\ Clear(Home[r], p)
           /\ UNCHANGED call
           /\ IF ~Template THEN Raise(r, "not_found") ELSE DeployFromTemplate(r, "poll")
  <2>1. RecordOK'
    BY <1>1, Locals, RecordTyped
  <2>2. Advance(r, Loops)
    BY <1>1, <2>1, Locals, DeployAdvances, RaiseAdvances DEF Returns, Exceptions
  <2>3. Advance(r, Free)
    BY <2>2, AdvanceMonotonic DEF Loops, Free
  <2> QED BY <1>1, <2>1, <2>3, Locals DEF Poll, Kept
<1>2. CASE ReplacePod(r, p)
  BY <1>2, ReplaceAdvances DEF Poll, Kept
<1>3. CASE /\ KeepRecord /\ UNCHANGED call
           /\ \E armed \in BOOLEAN : WaitUntilReady(r, p, armed)
  <2>1. Advance(r, Free)
    <3>1. Advance(r, {"poll"})
      BY <1>3, Locals, WaitAdvances
    <3> QED BY <3>1, AdvanceMonotonic DEF Free
  <2>2. RecordOK' /\ call' \in [Callers -> CallType]
    BY <1>3, Locals DEF KeepRecord, RecordOK
  <2> QED BY <2>1, <2>2 DEF Poll, Kept
<1>4. CASE /\ KeepRecord /\ UNCHANGED call
           /\ Proceed(r, [req[r] EXCEPT !.pc = "probe", !.armed = FALSE])
  <2>1. RecordOK' /\ call' \in [Callers -> CallType]
    BY <1>4, Locals DEF KeepRecord, RecordOK
  <2> QED BY <1>4, <2>1, ProbeNext DEF Poll, Kept
<1> QED BY <1>1, <1>2, <1>3, <1>4 DEF Poll

\* Looking at the pod leaves the deploy lock alone and keeps the types.
LEMMA InspectStep ==
    ASSUME ConfigAssumption, Typed, NEW r \in Requests, Inspect(r)
    PROVE  Advance(r, Free) /\ UNCHANGED flock /\ Kept
<1> DEFINE p == req[r].pod
<1>1. CASE UNCHANGED call /\ KeepRecord /\ Raise(r, "not_found")
  <2>1. Advance(r, Free)
    BY <1>1, RaiseAdvances DEF Exceptions
  <2>2. RecordOK' /\ call' \in [Callers -> CallType]
    BY <1>1, Locals DEF KeepRecord, RecordOK
  <2> QED BY <2>1, <2>2 DEF Inspect, Kept
<1>2. CASE /\ UNCHANGED call
           /\ Clear(Home[r], p)
           /\ IF ~Template THEN Raise(r, "not_found") ELSE DeployFromTemplate(r, "reinspect")
  <2>1. RecordOK'
    BY <1>2, Locals, RecordTyped
  <2>2. Advance(r, Loops)
    BY <1>2, <2>1, Locals, DeployAdvances, RaiseAdvances DEF Returns, Exceptions
  <2>3. Advance(r, Free)
    BY <2>2, AdvanceMonotonic DEF Loops, Free
  <2> QED BY <1>2, <2>1, <2>3, Locals DEF Inspect, Kept
<1>3. CASE /\ KeepRecord /\ UNCHANGED call
           /\ \/ Proceed(r, [req[r] EXCEPT !.pc = "probe"])
              \/ WaitUntilReady(r, p, FALSE)
  <2>1. Advance(r, Free)
    BY <1>3, Locals, ProbeNext, WaitIsFree
  <2>2. RecordOK' /\ call' \in [Callers -> CallType]
    BY <1>3, Locals DEF KeepRecord, RecordOK
  <2> QED BY <2>1, <2>2 DEF Inspect, Kept
<1>4. CASE ReplacePod(r, p)
  BY <1>4, ReplaceAdvances DEF Inspect, Kept
<1>5. CASE /\ KeepRecord
           /\ Send(AsrCaller(r), "start", p)
           /\ Proceed(r, [req[r] EXCEPT !.pc = "starting"])
  <2> DEFINE next == [req[r] EXCEPT !.pc = "starting"]
  <2>1. next \in RequestType /\ next.pc \in Free
    BY Locals DEF RequestType, PCs, Free
  <2>2. Advance(r, Free)
    BY <1>5, <2>1 DEF Advance
  <2>3. RecordOK'
    BY <1>5, Locals DEF KeepRecord, RecordOK
  <2>4. call' \in [Callers -> CallType]
    BY <1>5, Locals, CallTyped DEF Ops
  <2> QED BY <2>2, <2>3, <2>4 DEF Inspect, Kept
<1> QED BY <1>1, <1>2, <1>3, <1>4, <1>5 DEF Inspect

\* The deploy lock is taken, and a deploy is sent only if no pod is on record;
\* or opening the lock file fails and the handler pauses.
LEMMA DeployLockAcquiredStep ==
    ASSUME ConfigAssumption, Typed, NEW r \in Requests, DeployLockAcquired(r)
    PROVE  /\ Kept /\ KeepRecord
           /\ \/ /\ flock = NoReq /\ flock' = r
                 /\ \E next \in RequestType :
                       /\ next.pc \in {"deploying", "unflock"}
                       /\ next.pc = "deploying" => Load(Home[r]) = NoPod
                       /\ Proceed(r, next)
              \/ UNCHANGED flock /\ Advance(r, Free)
<1>1. RecordOK' /\ KeepRecord /\ UNCHANGED cloud
  BY Locals DEF DeployLockAcquired, KeepRecord, RecordOK
<1>2. CASE UNCHANGED <<flock, call>> /\ Proceed(r, [req[r] EXCEPT !.pc = "backoff"])
  <2> DEFINE next == [req[r] EXCEPT !.pc = "backoff"]
  <2>1. next \in RequestType /\ next.pc \in Free
    BY Locals DEF RequestType, PCs, Free
  <2>2. Advance(r, Free)
    BY <1>2, <2>1 DEF Advance
  <2> QED BY <1>1, <1>2, <2>2, Locals DEF Kept
<1>3. CASE AcquireDeployLock(r)
  <2> DEFINE found  == [req[r] EXCEPT !.pc = "unflock", !.pod = Load(Home[r])]
             config == [req[r] EXCEPT !.pc = "unflock", !.exc = "config"]
             deploy == [req[r] EXCEPT !.pc = "deploying"]
  <2>1. /\ found \in RequestType /\ found.pc = "unflock"
        /\ config \in RequestType /\ config.pc = "unflock"
        /\ deploy \in RequestType /\ deploy.pc = "deploying"
    BY Locals DEF RequestType, PCs, Exceptions
  <2>2. \/ Proceed(r, found) /\ UNCHANGED call
        \/ Proceed(r, config) /\ UNCHANGED call
        \/ /\ Load(Home[r]) = NoPod /\ Proceed(r, deploy)
           /\ Send(AsrCaller(r), "deploy", NoPod)
        \/ UNCHANGED <<flock, call>> /\ Proceed(r, [req[r] EXCEPT !.pc = "backoff"])
    BY DEF DeployLockAcquired
  <2>3. CASE UNCHANGED call /\ (Proceed(r, found) \/ Proceed(r, config))
    BY <1>1, <1>3, <2>1, <2>3, Locals DEF AcquireDeployLock, Kept
  <2>4. CASE /\ Load(Home[r]) = NoPod /\ Proceed(r, deploy)
             /\ Send(AsrCaller(r), "deploy", NoPod)
    <3>1. call' \in [Callers -> CallType]
      BY <2>4, Locals, CallTyped DEF Ops
    <3> QED BY <1>1, <1>3, <2>1, <2>4, <3>1 DEF AcquireDeployLock, Kept
  <2> QED BY <1>2, <2>2, <2>3, <2>4
<1> QED BY <1>2, <1>3 DEF DeployLockAcquired

\* A deploy is answered: the pod is recorded if there is one, under the lock.
LEMMA DeployedStep ==
    ASSUME ConfigAssumption, Typed, NEW r \in Requests, Deployed(r)
    PROVE  /\ Kept /\ UNCHANGED flock /\ req[r].pc = "deploying"
           /\ \E next \in RequestType : next.pc = "unflock" /\ Proceed(r, next)
           /\ KeepRecord \/ \E p \in Pods \cup {NoPod} : Store(Home[r], p)
<1>1. CASE \E p \in Pods \cup {NoPod} :
              /\ Store(Home[r], p)
              /\ Proceed(r, [req[r] EXCEPT !.pc = "unflock", !.pod = p])
              /\ TakeReply(AsrCaller(r))
  <2> PICK p \in Pods \cup {NoPod} :
              /\ Store(Home[r], p)
              /\ Proceed(r, [req[r] EXCEPT !.pc = "unflock", !.pod = p])
              /\ TakeReply(AsrCaller(r))
    BY <1>1
  <2> DEFINE next == [req[r] EXCEPT !.pc = "unflock", !.pod = p]
  <2>1. next \in RequestType /\ next.pc = "unflock"
    BY Locals DEF RequestType, PCs
  <2>2. RecordOK'
    BY Locals, RecordTyped
  <2>3. call' \in [Callers -> CallType]
    BY Locals, CallTyped DEF Ops
  <2> QED BY <2>1, <2>2, <2>3 DEF Deployed, Kept
<1>2. CASE \E e \in CallErrors :
              /\ KeepRecord
              /\ Proceed(r, [req[r] EXCEPT !.pc = "unflock", !.exc = e])
              /\ TakeReply(AsrCaller(r)) \/ Abandon(AsrCaller(r), TRUE)
  <2> PICK e \in CallErrors :
              /\ KeepRecord
              /\ Proceed(r, [req[r] EXCEPT !.pc = "unflock", !.exc = e])
              /\ TakeReply(AsrCaller(r)) \/ Abandon(AsrCaller(r), TRUE)
    BY <1>2
  <2> DEFINE next == [req[r] EXCEPT !.pc = "unflock", !.exc = e]
  <2>1. next \in RequestType /\ next.pc = "unflock"
    BY Locals DEF RequestType, PCs, Exceptions
  <2>2. RecordOK'
    BY Locals DEF KeepRecord, RecordOK
  <2>3. call' \in [Callers -> CallType]
    BY Locals, CallTyped DEF Ops
  <2> QED BY <2>1, <2>2, <2>3 DEF Deployed, Kept
<1> QED BY <1>1, <1>2, Locals DEF Deployed, CallErrors

\* The deploy lock is let go, whatever the attempt came to.
LEMMA DeployLockReleasedStep ==
    ASSUME ConfigAssumption, Typed, NEW r \in Requests, DeployLockReleased(r)
    PROVE  /\ Kept /\ KeepRecord /\ req[r].pc = "unflock"
           /\ flock = r /\ flock' = NoReq
           /\ Advance(r, Free)
<1>1. RecordOK' /\ KeepRecord /\ Kept /\ flock = r /\ flock' = NoReq
  BY Locals DEF DeployLockReleased, ReleaseDeployLock, KeepRecord, RecordOK, cloudVars, Kept
<1>2. CASE ReturnPod(r, req[r].back, req[r].pod)
  <2>1. Advance(r, {"inspect", "poll"})
    BY <1>2, Locals, ReturnAdvances
  <2> QED BY <1>1, <2>1, AdvanceMonotonic DEF Free, DeployLockReleased
<1>3. CASE Proceed(r, [req[r] EXCEPT !.pc = "backoff", !.exc = "none"])
  <2> DEFINE next == [req[r] EXCEPT !.pc = "backoff", !.exc = "none"]
  <2>1. next \in RequestType /\ next.pc \in Free
    BY Locals DEF RequestType, PCs, Free
  <2> QED BY <1>1, <1>3, <2>1 DEF Advance, DeployLockReleased
<1>4. CASE req[r].exc # "none" /\ Raise(r, req[r].exc)
  BY <1>1, <1>4, Locals, RaiseAdvances DEF DeployLockReleased
<1> QED BY <1>2, <1>3, <1>4 DEF DeployLockReleased

-----------------------------------------------------------------------------
\* The other actions of a handler.

\* A handler inside ensure_ready, or entering it while the lock is free, takes
\* one of the two ways on.
Inside(r) ==
    /\ \/ req[r].pc \in LockedPCs
       \/ req[r].pc = "lockwait" /\ lock[Home[r]] = NoReq
    /\ Advance(r, LockedPCs)

\* The wrapper is healthy: the handler leaves ensure_ready and forwards.
Leaves(r) ==
    /\ req[r].pc = "probe"
    /\ \E next \in RequestType : next.pc = "forward" /\ req' = [req EXCEPT ![r] = next]
    /\ lock' = [lock EXCEPT ![Home[r]] = NoReq]
    /\ UNCHANGED idleVars

\* The upstream response is passed on.
Passes(r) ==
    /\ req[r].pc = "forward"
    /\ \E status \in Statuses : Respond(r, status)
    /\ UNCHANGED lock

\* The health probe ends ensure_ready, fails, or waits on.
LEMMA ProbeStep ==
    ASSUME ConfigAssumption, Typed, NEW r \in Requests, Probe(r)
    PROVE  /\ Advance(r, Free) \/ Leaves(r)
           /\ UNCHANGED flock /\ Kept
<1>1. Kept /\ UNCHANGED flock
  BY Locals DEF Probe, Kept, podStateVars, cloudVars, RecordOK
<1>2. CASE /\ req' = [req EXCEPT ![r] = [NewRequest EXCEPT !.pc = "forward", !.pod = req[r].pod]]
           /\ lock' = [lock EXCEPT ![Home[r]] = NoReq]
           /\ UNCHANGED idleVars
  <2> DEFINE next == [NewRequest EXCEPT !.pc = "forward", !.pod = req[r].pod]
  <2>1. NewRequest \in RequestType
    BY ConfigAssumption DEF NewRequest, RequestType, PCs, Returns, Statuses
  <2> HIDE DEF NewRequest
  <2>2. next \in RequestType /\ next.pc = "forward"
    BY <2>1, Locals DEF RequestType, PCs
  <2> QED BY <1>1, <1>2, <2>2 DEF Leaves, Probe
<1>3. CASE Raise(r, "temporary")
  BY <1>1, <1>3, RaiseAdvances DEF Exceptions, CallErrors
<1>4. CASE WaitUntilReady(r, req[r].pod, FALSE)
  BY <1>1, <1>4, WaitIsFree
<1> QED BY <1>2, <1>3, <1>4 DEF Probe

\* Forwarding ends the handler with one of the statuses it knows.
LEMMA ForwardStep ==
    ASSUME ConfigAssumption, Typed, NEW r \in Requests, Forward(r)
    PROVE  Passes(r) /\ UNCHANGED flock /\ Kept
<1>1. ForwardStatuses(req[r].pod) \subseteq Statuses
  BY StatusTyped DEF ForwardStatuses, Statuses
<1> QED BY <1>1, Locals DEF Forward, Passes, Kept, podStateVars, cloudVars, RecordOK

\* Every handler step of r, seen from the locks and the count.
LEMMA HandlerSteps ==
    ASSUME ConfigAssumption, Typed, NEW r \in Requests, HandlerStep(r)
    PROVE  Kept /\ (Inside(r) \/ Leaves(r) \/ Passes(r))
<1> USE AdvanceMonotonic
<1>1. CASE LockAcquired(r)
  BY <1>1, LockAcquiredStep DEF LockAcquired, Inside, Free
<1>2. CASE DeployLockAcquired(r)
  BY <1>2, DeployLockAcquiredStep DEF DeployLockAcquired, Inside, Free, Advance
<1>3. CASE Deployed(r)
  BY <1>3, DeployedStep DEF Inside, Advance
<1>4. CASE DeployLockReleased(r)
  BY <1>4, DeployLockReleasedStep DEF Inside, Free
<1>5. CASE RetryDeploy(r)
  BY <1>5, RetryDeployStep DEF RetryDeploy, Inside, Free
<1>6. CASE Inspect(r)
  BY <1>6, InspectStep DEF Inspect, Inside, Free
<1>7. CASE Started(r)
  BY <1>7, StartedStep DEF Started, Inside, Free
<1>8. CASE Terminated(r)
  BY <1>8, TerminatedStep DEF Terminated, Inside, Free
<1>9. CASE Poll(r)
  BY <1>9, PollStep DEF Poll, Inside, Free
<1>10. CASE QueryFails(r)
  BY <1>10, QueryFailsStep DEF QueryFails, Inside, Free
<1>11. CASE Probe(r)
  BY <1>11, ProbeStep DEF Probe, Inside, Free
<1>12. CASE Forward(r)
  BY <1>12, ForwardStep
<1> QED BY <1>1, <1>2, <1>3, <1>4, <1>5, <1>6, <1>7, <1>8, <1>9, <1>10, <1>11, <1>12
        DEF HandlerStep

\* What a handler step does to the other handlers: nothing.
LEMMA OthersStay ==
    ASSUME ConfigAssumption, Typed, NEW r \in Requests, HandlerStep(r)
    PROVE  /\ DOMAIN req = Requests /\ DOMAIN req' = Requests
           /\ \A q \in Requests \ {r} : req'[q] = req[q]
BY HandlerSteps
   DEF Typed, ManagerTypeOK, Inside, Leaves, Passes, Advance, Proceed, Raise, Respond

\* A handler of which pc is in one of these holds the deploy lock.
Deploying == {"deploying", "unflock"}

\* The ways a handler step treats the deploy lock.
LEMMA DeployLockSteps ==
    ASSUME ConfigAssumption, Typed, NEW r \in Requests, HandlerStep(r)
    PROVE  \/ /\ UNCHANGED flock
              /\ req[r].pc \notin Deploying /\ req'[r].pc \notin Deploying
           \/ /\ flock = NoReq /\ flock' = r /\ KeepRecord
              /\ req[r].pc \notin Deploying /\ req'[r].pc \in Deploying
              /\ req'[r].pc = "deploying" => Load(Home[r]) = NoPod
           \/ /\ UNCHANGED flock
              /\ req[r].pc = "deploying" /\ req'[r].pc = "unflock"
           \/ /\ flock = r /\ flock' = NoReq
              /\ req[r].pc = "unflock" /\ req'[r].pc \notin Deploying
<1>1. DOMAIN req = Requests
  BY OthersStay
<1>2. ASSUME NEW S, S \cap Deploying = {}, Advance(r, S)
      PROVE  req'[r].pc \notin Deploying
  <2>1. CASE \E next \in RequestType : next.pc \in S /\ Proceed(r, next)
    BY <1>1, <1>2, <2>1 DEF Proceed
  <2>2. CASE \E e \in Exceptions : Raise(r, e)
    <3> PICK e \in Exceptions : Raise(r, e)
      BY <2>2
    <3>1. Answered(StatusOf(e)).pc = "done"
      BY StatusTyped, AnsweredTyped
    <3> QED BY <1>1, <3>1 DEF Raise, Respond, Deploying
  <2> QED BY <1>2, <2>1, <2>2 DEF Advance
<1>3. Advance(r, Free) => req'[r].pc \notin Deploying
  BY <1>2 DEF Free, Deploying
<1>4. CASE LockAcquired(r)
  BY <1>3, <1>4, LockAcquiredStep DEF LockAcquired, Deploying
<1>5. CASE DeployLockAcquired(r)
  BY <1>1, <1>3, <1>5, DeployLockAcquiredStep DEF DeployLockAcquired, Deploying, Proceed
<1>6. CASE Deployed(r)
  BY <1>1, <1>6, DeployedStep DEF Proceed
<1>7. CASE DeployLockReleased(r)
  BY <1>3, <1>7, DeployLockReleasedStep
<1>8. CASE RetryDeploy(r)
  BY <1>3, <1>8, RetryDeployStep DEF RetryDeploy, Deploying
<1>9. CASE Inspect(r)
  BY <1>3, <1>9, InspectStep DEF Inspect, Deploying
<1>10. CASE Started(r)
  BY <1>3, <1>10, StartedStep DEF Started, Deploying
<1>11. CASE Terminated(r)
  BY <1>3, <1>11, TerminatedStep DEF Terminated, Deploying
<1>12. CASE Poll(r)
  BY <1>3, <1>12, PollStep DEF Poll, Deploying
<1>13. CASE QueryFails(r)
  BY <1>3, <1>13, QueryFailsStep DEF QueryFails, Deploying
<1>14. CASE Probe(r)
  BY <1>1, <1>3, <1>14, ProbeStep DEF Probe, Leaves, Deploying
<1>15. CASE Forward(r)
  <2>1. PICK status \in Statuses : Respond(r, status)
    BY <1>15, ForwardStep DEF Passes
  <2>2. req'[r].pc = "done"
    BY <1>1, <2>1, AnsweredTyped DEF Respond
  <2> QED BY <1>15, <2>2, ForwardStep DEF Forward, Deploying
<1> QED BY <1>4, <1>5, <1>6, <1>7, <1>8, <1>9, <1>10, <1>11, <1>12, <1>13, <1>14, <1>15
        DEF HandlerStep

\* The ways a handler step treats the record.
LEMMA RecordSteps ==
    ASSUME ConfigAssumption, Typed, NEW r \in Requests, HandlerStep(r)
    PROVE  \/ KeepRecord
           \/ \E p \in Pods \cup {NoPod} : Clear(Home[r], p)
           \/ /\ req[r].pc = "deploying"
              /\ \E p \in Pods \cup {NoPod} : Store(Home[r], p)
<1>1. LockAcquired(r) \/ QueryFails(r) \/ Probe(r) \/ Forward(r) \/ Started(r) => KeepRecord
  BY DEF LockAcquired, QueryFails, Probe, Forward, Started, podStateVars, KeepRecord
<1>2. DeployLockAcquired(r) \/ DeployLockReleased(r) \/ RetryDeploy(r) => KeepRecord
  BY DEF DeployLockAcquired, DeployLockReleased, RetryDeploy
<1>3. Terminated(r) => Clear(Home[r], req[r].pod)
  BY DEF Terminated
<1>4. Poll(r) \/ Inspect(r) => KeepRecord \/ Clear(Home[r], req[r].pod)
  BY DEF Poll, Inspect, ReplacePod
<1> QED BY <1>1, <1>2, <1>3, <1>4, DeployedStep, Locals DEF HandlerStep

-----------------------------------------------------------------------------
\* The idle task, RunPod, and a crash.

\* A task that may still act, and one that has begun to release the pod.
Acts(t) == t.st \in {"sleeping", "draining", "calling"} /\ ~t.cancelled
Releases(t) == t.st \in {"draining", "calling"} /\ ~t.cancelled

\* A step of an idle task changes its own task, at most empties the record, and
\* begins a release only at an adapter that counts no request.
LEMMA TaskSteps ==
    ASSUME ConfigAssumption, Typed, NEW r \in Requests, TaskStep(r)
    PROVE  /\ UNCHANGED <<active, current, flock, cloud, managerVars>>
           /\ RecordOK' /\ call' \in [Callers -> CallType]
           /\ KeepRecord \/ \E p \in Pods \cup {NoPod} : Clear(Home[r], p)
           /\ \E t \in TaskType :
                 /\ task' = [task EXCEPT ![r] = t]
                 /\ Acts(t) => Acts(task[r])
                 /\ Releases(t) => Releases(task[r]) \/ active[Home[r]] = 0
<1> DEFINE over == [NoTask EXCEPT !.st = "over"]
           at(st, p) == [task[r] EXCEPT !.st = st, !.pod = p]
<1>1. task[r] \in TaskType /\ task[r].pod \in Pods \cup {NoPod}
  BY DEF Typed, TaskType
<1>2. over \in TaskType /\ ~Acts(over) /\ ~Releases(over)
  BY DEF NoTask, TaskType, TaskStatuses, Acts, Releases
<1>3. \A st \in TaskStatuses, p \in Pods \cup {NoPod} :
         /\ at(st, p) \in TaskType
         /\ at(st, p).cancelled = task[r].cancelled /\ at(st, p).st = st
  BY <1>1 DEF TaskType
<1>4. \A st, p : TaskMovesTo(r, st, p) => task' = [task EXCEPT ![r] = at(st, p)]
  BY <1>1 DEF TaskMovesTo, Typed, TaskType
<1>5. TaskEnds(r) => task' = [task EXCEPT ![r] = over]
  BY DEF TaskEnds
<1>6. ForgetIfTerminating(r) => KeepRecord \/ Clear(Home[r], task[r].pod)
  BY DEF ForgetIfTerminating
<1>7. ForgetIfTerminating(r) => RecordOK'
  BY <1>1, <1>6, Locals, RecordTyped
<1>8. CASE Wake(r)
  <2> DEFINE p == Load(Home[r])
  <2>1. RecordOK' /\ KeepRecord /\ UNCHANGED <<active, current, flock, cloud>>
    BY <1>8, Locals DEF Wake, podStateVars, KeepRecord, RecordOK
  <2>2. \/ TaskEnds(r) /\ UNCHANGED call
        \/ TaskMovesTo(r, "draining", p) /\ UNCHANGED call /\ active[Home[r]] = 0
        \/ /\ TaskMovesTo(r, "calling", p) /\ Send(IdleCaller(r), "stop", p)
           /\ active[Home[r]] = 0
    BY <1>8 DEF Wake, Quiet
  <2>3. call' \in [Callers -> CallType]
    BY <2>2, Locals, CallTyped DEF Ops
  <2>4. Acts(task[r])
    BY <1>8 DEF Wake, Acts
  <2>5. \E t \in TaskType : task' = [task EXCEPT ![r] = t] /\ (Releases(t) => active[Home[r]] = 0)
    <3>1. CASE TaskEnds(r)
      BY <1>2, <1>5, <3>1
    <3>2. ASSUME NEW st \in TaskStatuses, TaskMovesTo(r, st, p), active[Home[r]] = 0
          PROVE  \E t \in TaskType :
                    task' = [task EXCEPT ![r] = t] /\ (Releases(t) => active[Home[r]] = 0)
      <4>1. p \in Pods \cup {NoPod}
        BY Locals
      <4> HIDE DEF p
      <4>2. at(st, p) \in TaskType
        BY <1>3, <4>1
      <4>3. task' = [task EXCEPT ![r] = at(st, p)]
        BY <1>4, <3>2
      <4> HIDE DEF at
      <4> QED BY <3>2, <4>2, <4>3
    <3> QED BY <2>2, <3>1, <3>2 DEF TaskStatuses
  <2>7. UNCHANGED managerVars
    BY DEF TaskStep
  <2> QED BY <2>1, <2>3, <2>4, <2>5, <2>7
<1>9. CASE Drained(r)
  <2>1. RecordOK' /\ KeepRecord /\ UNCHANGED <<active, current, flock, cloud>>
    BY <1>9, Locals DEF Drained, podStateVars, KeepRecord, RecordOK
  <2>2. call' \in [Callers -> CallType]
    BY <1>1, <1>9, Locals, CallTyped DEF Drained, Ops
  <2>3. task' = [task EXCEPT ![r] = at("calling", task[r].pod)]
    BY <1>4, <1>9 DEF Drained
  <2>4. Acts(task[r]) /\ Releases(task[r])
    BY <1>9 DEF Drained, Acts, Releases
  <2> QED BY <1>1, <1>3, <2>1, <2>2, <2>3, <2>4 DEF TaskStep, TaskStatuses
<1>10. CASE Released(r) \/ CancelDelivered(r)
  <2>1. /\ TaskEnds(r)
        /\ UNCHANGED <<active, current, flock, cloud>>
        /\ ForgetIfTerminating(r) \/ KeepRecord
    BY <1>10 DEF Released, CancelDelivered
  <2>2. call' \in [Callers -> CallType]
    <3>1. \/ TakeReply(IdleCaller(r)) \/ Abandon(IdleCaller(r), TRUE)
          \/ Abandon(IdleCaller(r), "cancel_unsent" \in Faults) \/ UNCHANGED call
      BY <1>10 DEF Released, CancelDelivered
    <3>2. ("cancel_unsent" \in Faults) \in BOOLEAN
      OBVIOUS
    <3> QED BY <3>1, <3>2, Locals, CallTyped DEF Ops
  <2>3. RecordOK'
    BY <1>7, <2>1, Locals DEF KeepRecord, RecordOK
  <2> QED BY <1>1, <1>2, <1>5, <1>6, <2>1, <2>2, <2>3 DEF TaskStep
<1> QED BY <1>8, <1>9, <1>10 DEF TaskStep

\* RunPod touches nothing of an adapter but the calls it answers.
LEMMA CloudSteps ==
    ASSUME ConfigAssumption, Typed,
           (\E c \in Callers : MutationStep(c)) \/ (\E p \in Pods : PodStep(p))
    PROVE  RunPodTypeOK' /\ UNCHANGED <<podStateVars, idleVars, managerVars>>
<1>1. ASSUME NEW c \in Callers, NEW st \in CallStatuses, NEW p \in Pods \cup {NoPod},
             Answer(c, st, p)
      PROVE  call' \in [Callers -> CallType]
  <2>1. call \in [Callers -> CallType]
    BY DEF Typed, RunPodTypeOK
  <2>2. NoCall \in CallType
    BY DEF NoCall, CallType, Ops, CallStatuses
  <2>3. [call[c] EXCEPT !.st = st, !.pod = p] \in CallType
    BY <2>1 DEF CallType
  <2> QED BY <1>1, <2>1, <2>2, <2>3 DEF Answer
<1>2. ASSUME NEW c \in Callers, NEW op, NEW status \in PodStatuses,
             ProcessOnPod(c, op, status)
      PROVE  RunPodTypeOK'
  <2>1. call[c].pod \in Pods \cup {NoPod}
    BY DEF Typed, RunPodTypeOK, CallType
  <2>2. call' \in [Callers -> CallType]
    BY <1>1, <1>2, <2>1 DEF ProcessOnPod, CallStatuses
  <2>3. cloud' \in [Pods -> PodStatuses]
    BY <1>2 DEF ProcessOnPod, Typed, RunPodTypeOK
  <2> QED BY <2>2, <2>3 DEF RunPodTypeOK
<1>3. ASSUME NEW c \in Callers, MutationStep(c)
      PROVE  RunPodTypeOK'
  <2>1. CASE ProcessDeploy(c)
    BY <1>1, <2>1 DEF ProcessDeploy, Typed, RunPodTypeOK, PodStatuses, CallStatuses
  <2>2. CASE RefuseForCapacity(c)
    BY <1>1, <2>2 DEF RefuseForCapacity, Typed, RunPodTypeOK, CallType, CallStatuses
  <2>3. CASE ProcessStart(c)
    <3>1. call[c].pod \in Pods => cloud[call[c].pod] \in PodStatuses
      BY DEF Typed, RunPodTypeOK
    <3>2. CASE call[c].pod \in Pods
      <4>1. (IF cloud[call[c].pod] = "exited" THEN "booting" ELSE cloud[call[c].pod])
              \in PodStatuses
        BY <3>1, <3>2 DEF PodStatuses
      <4> QED BY <1>2, <2>3, <4>1 DEF ProcessStart
    <3>3. CASE call[c].pod \notin Pods
      <4>1. call[c].pod \in Pods \cup {NoPod}
        BY DEF Typed, RunPodTypeOK, CallType
      <4>2. call' \in [Callers -> CallType]
        BY <1>1, <2>3, <4>1 DEF ProcessStart, ProcessOnPod, CallStatuses
      <4>3. cloud' \in [Pods -> PodStatuses]
        BY <2>3, <3>3 DEF ProcessStart, ProcessOnPod, Typed, RunPodTypeOK
      <4> QED BY <4>2, <4>3 DEF RunPodTypeOK
    <3> QED BY <3>2, <3>3
  <2>4. CASE ProcessStop(c)
    BY <1>2, <2>4 DEF ProcessStop, PodStatuses
  <2>5. CASE ProcessTerminate(c)
    BY <1>2, <2>5 DEF ProcessTerminate, PodStatuses
  <2> QED BY <1>3, <2>1, <2>2, <2>3, <2>4, <2>5 DEF MutationStep
<1>4. ASSUME NEW p \in Pods, PodStep(p)
      PROVE  RunPodTypeOK'
  BY <1>4 DEF PodStep, PodBoots, PodLost, Typed, RunPodTypeOK, PodStatuses
<1> QED BY <1>3, <1>4 DEF MutationStep, PodStep

-----------------------------------------------------------------------------
\* Every step, seen from the locks, the count and the idle tasks.

\* The body arrives or is refused, or the deadline passes: only the handler's
\* own record changes, and it stays on its side of both locks.
Idles(r) ==
    /\ \E next \in RequestType :
          /\ req' = [req EXCEPT ![r] = next]
          /\ \/ next.pc = req[r].pc
             \/ /\ req[r].pc \in {"new", "spooling"}
                /\ next.pc \in {"spooling", "done"}
    /\ UNCHANGED <<lock, podStateVars, cloudVars, idleVars>>

\* Settings are missing: answered at once, after a timer was started.
Refuses(r) ==
    /\ req[r].pc = "spooling"
    /\ \E next \in RequestType : next.pc = "done" /\ req' = [req EXCEPT ![r] = next]
    /\ ScheduleIdleRelease(r)
    /\ UNCHANGED <<active, lock, podStateVars, cloudVars>>

\* The request is counted, and takes RunPodManager._lock or queues for it.
Starts(r) ==
    /\ req[r].pc = "spooling"
    /\ RequestStarted(r)
    /\ \E next \in RequestType :
          /\ req' = [req EXCEPT ![r] = next]
          /\ \/ next.pc = "lockwait" /\ UNCHANGED lock
             \/ /\ next.pc \in {"inspect", "flock"}
                /\ lock[Home[r]] = NoReq
                /\ lock' = [lock EXCEPT ![Home[r]] = r]
    /\ UNCHANGED <<podStateVars, cloudVars>>

\* The steps of a request before and beside ensure_ready.
LEMMA IdleSteps ==
    ASSUME ConfigAssumption, Typed, NEW r \in Requests,
           Arrive(r) \/ TooLarge(r) \/ DeadlinePasses(r)
    PROVE  Idles(r)
<1>1. req[r] \in RequestType
  BY Locals
<1>2. CASE Arrive(r)
  <2> DEFINE next == [req[r] EXCEPT !.pc = "spooling"]
  <2>1. next \in RequestType /\ next.pc = "spooling"
    BY <1>1 DEF RequestType, PCs
  <2> QED BY <1>2, <2>1 DEF Arrive, Idles
<1>3. CASE TooLarge(r)
  <2>1. 413 \in Statuses
    BY DEF Statuses
  <2>2. Answered(413) \in RequestType /\ Answered(413).pc = "done"
    BY <2>1, AnsweredTyped
  <2> QED BY <1>3, <2>2 DEF TooLarge, Idles
<1>4. CASE DeadlinePasses(r)
  <2> DEFINE next == [req[r] EXCEPT !.late = TRUE]
  <2>1. next \in RequestType /\ next.pc = req[r].pc
    BY <1>1 DEF RequestType
  <2> QED BY <1>4, <2>1 DEF DeadlinePasses, Idles
<1> QED BY <1>2, <1>3, <1>4

\* The handler enters ensure_ready, or finds its settings missing.
LEMMA SpooledStep ==
    ASSUME ConfigAssumption, Typed, NEW r \in Requests, Spooled(r)
    PROVE  Refuses(r) \/ Starts(r)
<1>1. req[r] \in RequestType /\ req[r].pc = "spooling"
  BY Locals DEF Spooled
<1>2. CASE ~Configured(Home[r])
  <2>1. Answered(StatusOf("config")) \in RequestType
        /\ Answered(StatusOf("config")).pc = "done"
    BY StatusTyped, AnsweredTyped
  <2>2. /\ req' = [req EXCEPT ![r] = Answered(StatusOf("config"))]
        /\ ScheduleIdleRelease(r)
        /\ UNCHANGED <<active, lock>>
    BY <1>2 DEF Spooled
  <2> QED BY <1>1, <2>1, <2>2 DEF Spooled, Refuses
<1>3. CASE Configured(Home[r])
  <2>1. CASE LockFree(Home[r])
    <3>1. /\ req' = [req EXCEPT ![r] = GetOrDeploy(r)]
          /\ lock' = [lock EXCEPT ![Home[r]] = r] /\ RequestStarted(r)
      BY <1>3, <2>1 DEF Spooled
    <3>2. lock[Home[r]] = NoReq
      BY <2>1 DEF LockFree
    <3> QED BY <1>1, <3>1, <3>2, GetOrDeployTyped DEF Spooled, Starts
  <2>2. CASE ~LockFree(Home[r])
    <3> DEFINE next == [req[r] EXCEPT !.pc = "lockwait"]
    <3>1. next \in RequestType /\ next.pc = "lockwait"
      BY <1>1 DEF RequestType, PCs
    <3>2. req' = [req EXCEPT ![r] = next] /\ UNCHANGED lock /\ RequestStarted(r)
      BY <1>3, <2>2 DEF Spooled
    <3> QED BY <1>1, <3>1, <3>2 DEF Spooled, Starts
  <2> QED BY <2>1, <2>2
<1> QED BY <1>2, <1>3

\* The steps of the system, by what they mean for the invariants.
LEMMA StepKinds ==
    ASSUME ConfigAssumption, Typed, [Next]_vars
    PROVE  \/ \E r \in Requests :
                 Idles(r) \/ Refuses(r) \/ Starts(r) \/ HandlerStep(r) \/ TaskStep(r)
           \/ RunPodTypeOK' /\ UNCHANGED <<podStateVars, idleVars, managerVars>>
           \/ \E a \in Adapters : Crash(a)
<1>1. CASE UNCHANGED vars
  BY <1>1 DEF vars, cloudVars, Typed, RunPodTypeOK
<1>2. ASSUME NEW r \in Requests,
             \/ Arrive(r) \/ TooLarge(r) \/ Spooled(r) \/ DeadlinePasses(r)
             \/ HandlerStep(r) \/ TaskStep(r)
      PROVE  Idles(r) \/ Refuses(r) \/ Starts(r) \/ HandlerStep(r) \/ TaskStep(r)
  BY <1>2, IdleSteps, SpooledStep
<1> QED BY <1>1, <1>2, CloudSteps DEF Next, AllServed

\* A crash keeps the types.
LEMMA CrashTyped ==
    ASSUME ConfigAssumption, Typed, NEW a \in Adapters, Crash(a)
    PROVE  Typed'
<1>1. Answered(0) \in RequestType
  <2>1. 0 \in Statuses
    BY DEF Statuses
  <2> QED BY <2>1, AnsweredTyped
<1>2. PodStateTypeOK'
  BY DEF Crash, Typed, PodStateTypeOK, ConfigAssumption
<1>3. call' \in [Callers -> CallType]
  <2>1. NoCall \in CallType
    BY DEF NoCall, CallType, Ops, CallStatuses
  <2>2. \A c \in Callers : [call[c] EXCEPT !.st = "lost"] \in CallType
    BY DEF Typed, RunPodTypeOK, CallType, CallStatuses
  <2>3. \A c \in Callers : call[c] \in CallType
    BY DEF Typed, RunPodTypeOK
  <2> HIDE DEF NoCall, CallType
  <2> QED BY <2>1, <2>2, <2>3 DEF Crash
<1>4. task' \in [Requests -> TaskType]
  <2>1. NoTask \in TaskType
    BY DEF NoTask, TaskType, TaskStatuses
  <2> QED BY <2>1 DEF Crash, Typed
<1>5. ManagerTypeOK'
  BY <1>1 DEF Crash, Typed, ManagerTypeOK
<1>6. active' \in [Adapters -> Int] /\ current' \in [Adapters -> Requests \cup {NoReq}]
  BY DEF Crash, Typed
<1> QED BY <1>2, <1>3, <1>4, <1>5, <1>6 DEF Crash, Typed, RunPodTypeOK

\* Types are kept by every step.
LEMMA TypedNext ==
    ASSUME ConfigAssumption, Typed, [Next]_vars
    PROVE  Typed'
<1>1. ASSUME NEW r \in Requests, Idles(r) \/ Refuses(r) \/ Starts(r)
      PROVE  Typed'
  <2>1. PodStateTypeOK' /\ RunPodTypeOK'
    BY <1>1 DEF Idles, Refuses, Starts, podStateVars, cloudVars, Typed, PodStateTypeOK,
                RunPodTypeOK
  <2>2. ManagerTypeOK'
    BY <1>1, Locals DEF Idles, Refuses, Starts, Typed, ManagerTypeOK
  <2>3. task' \in [Requests -> TaskType]
    BY <1>1, TaskTyped DEF Idles, Refuses, Starts, RequestStarted, idleVars, Typed
  <2>4. active' \in [Adapters -> Int]
    BY <1>1, Locals DEF Idles, Refuses, Starts, RequestStarted, idleVars, Typed
  <2>5. current' \in [Adapters -> Requests \cup {NoReq}]
    BY <1>1, Locals DEF Idles, Refuses, Starts, RequestStarted, ScheduleIdleRelease,
                        idleVars, Typed
  <2> QED BY <2>1, <2>2, <2>3, <2>4, <2>5 DEF Typed
<1>2. ASSUME NEW r \in Requests, HandlerStep(r)
      PROVE  Typed'
  <2>1. Kept /\ (Inside(r) \/ Leaves(r) \/ Passes(r))
    BY <1>2, HandlerSteps
  <2>2. flock' \in Requests \cup {NoReq}
    BY <1>2, DeployLockSteps DEF Typed, PodStateTypeOK
  <2>3. PodStateTypeOK' /\ RunPodTypeOK'
    BY <2>1, <2>2 DEF Kept, RecordOK, PodStateTypeOK, RunPodTypeOK, Typed
  <2>4. CASE Inside(r)
    BY <2>3, <2>4, AdvanceTyped DEF Inside, Typed
  <2>5. CASE Leaves(r)
    BY <2>3, <2>5, Locals DEF Leaves, Typed, ManagerTypeOK, idleVars
  <2>6. CASE Passes(r)
    <3>1. PICK status \in Statuses : Respond(r, status)
      BY <2>6 DEF Passes
    <3>2. ManagerTypeOK'
      BY <2>6, <3>1, AnsweredTyped DEF Passes, Respond, Typed, ManagerTypeOK
    <3>3. task' \in [Requests -> TaskType]
      BY <3>1, TaskTyped DEF Respond, RequestFinished, Typed
    <3> QED BY <2>3, <3>1, <3>2, <3>3, Locals
            DEF Respond, RequestFinished, ScheduleIdleRelease, Typed
  <2> QED BY <2>1, <2>4, <2>5, <2>6
<1>3. ASSUME NEW r \in Requests, TaskStep(r)
      PROVE  Typed'
  BY <1>3, TaskSteps DEF Typed, RecordOK, PodStateTypeOK, RunPodTypeOK, ManagerTypeOK,
                         managerVars
<1>4. CASE RunPodTypeOK' /\ UNCHANGED <<podStateVars, idleVars, managerVars>>
  BY <1>4 DEF podStateVars, idleVars, managerVars, Typed, PodStateTypeOK, ManagerTypeOK
<1> QED BY <1>1, <1>2, <1>3, <1>4, StepKinds, CrashTyped

-----------------------------------------------------------------------------
(***************************************************************************)
(* The invariants of RunPodManager._lock, of the deploy lock and of the    *)
(* record of the active pod are kept by every step.                        *)
(***************************************************************************)

\* The locks.

\* An answered handler is at "done".
LEMMA RaiseAnswers ==
    ASSUME ConfigAssumption, Typed, NEW r \in Requests, NEW e, Raise(r, e)
    PROVE  /\ req'[r].pc = "done" /\ RequestFinished(r)
           /\ lock' = [lock EXCEPT ![Home[r]] = NoReq]
<1>1. Answered(StatusOf(e)).pc = "done"
  BY StatusTyped, AnsweredTyped
<1> QED BY <1>1 DEF Raise, Respond, Typed, ManagerTypeOK

\* What Advance means for the lock.
LEMMA AdvanceLock ==
    ASSUME ConfigAssumption, Typed, NEW r \in Requests, NEW S, S \subseteq LockedPCs,
           Advance(r, S)
    PROVE  \/ req'[r].pc \in S /\ lock' = [lock EXCEPT ![Home[r]] = r]
           \/ req'[r].pc = "done" /\ lock' = [lock EXCEPT ![Home[r]] = NoReq]
<1>1. CASE \E next \in RequestType : next.pc \in S /\ Proceed(r, next)
  BY <1>1 DEF Proceed, Typed, ManagerTypeOK
<1>2. CASE \E e \in Exceptions : Raise(r, e)
  BY <1>2, RaiseAnswers
<1> QED BY <1>1, <1>2 DEF Advance

\* The steps of a handler, seen from RunPodManager._lock.
LEMMA LockSteps ==
    ASSUME ConfigAssumption, Typed, NEW r \in Requests,
           Idles(r) \/ Refuses(r) \/ Starts(r) \/ HandlerStep(r) \/ TaskStep(r)
    PROVE  /\ \A q \in Requests \ {r} : req'[q] = req[q]
           /\ \/ /\ UNCHANGED lock
                 /\ req[r].pc \in LockedPCs <=> req'[r].pc \in LockedPCs
              \/ /\ req[r].pc \in LockedPCs \/ lock[Home[r]] = NoReq
                 /\ req'[r].pc \in LockedPCs
                 /\ lock' = [lock EXCEPT ![Home[r]] = r]
              \/ /\ req[r].pc \in LockedPCs \/ lock[Home[r]] = NoReq
                 /\ req'[r].pc \notin LockedPCs
                 /\ lock' = [lock EXCEPT ![Home[r]] = NoReq]
<1>1. DOMAIN req = Requests
  BY DEF Typed, ManagerTypeOK
<1>2. CASE Idles(r)
  BY <1>1, <1>2 DEF Idles
<1>3. CASE Refuses(r)
  BY <1>1, <1>3 DEF Refuses
<1>4. CASE Starts(r)
  BY <1>1, <1>4 DEF Starts
<1>5. CASE TaskStep(r)
  BY <1>5 DEF TaskStep, managerVars
<1>6. CASE HandlerStep(r)
  <2>1. \A q \in Requests \ {r} : req'[q] = req[q]
    BY <1>6, OthersStay
  <2>2. CASE Inside(r)
    BY <2>1, <2>2, AdvanceLock DEF Inside
  <2>3. CASE Leaves(r)
    BY <1>1, <2>1, <2>3 DEF Leaves
  <2>4. CASE Passes(r)
    <3>1. PICK status \in Statuses : Respond(r, status)
      BY <2>4 DEF Passes
    <3>2. req'[r].pc = "done"
      BY <1>1, <3>1, AnsweredTyped DEF Respond
    <3> QED BY <2>1, <2>4, <3>2 DEF Passes
  <2> QED BY <1>6, <2>2, <2>3, <2>4, HandlerSteps
<1> QED BY <1>2, <1>3, <1>4, <1>5, <1>6

\* After a crash every handler of the adapter is gone.
LEMMA CrashEnds ==
    ASSUME ConfigAssumption, Typed, NEW a \in Adapters, Crash(a), NEW r \in Requests
    PROVE  IF Home[r] = a THEN req'[r].pc \in {"new", "done"} ELSE req'[r] = req[r]
<1>1. 0 \in Statuses
  BY DEF Statuses
<1>2. Answered(0).pc = "done"
  BY <1>1, AnsweredTyped
<1> QED BY <1>2 DEF Crash, Hit

\* RunPodManager._lock is held by the handler that is inside ensure_ready.
LEMMA LockHeldNext ==
    ASSUME ConfigAssumption, Typed, LockHeld, [Next]_vars
    PROVE  LockHeld'
<1>1. ASSUME NEW r \in Requests,
             Idles(r) \/ Refuses(r) \/ Starts(r) \/ HandlerStep(r) \/ TaskStep(r),
             NEW q \in Requests
      PROVE  req'[q].pc \in LockedPCs <=> lock'[Home[q]] = q
  <2>1. lock \in [Adapters -> Requests \cup {NoReq}] /\ NoReq \notin Requests
        /\ Home[q] \in Adapters /\ Home[r] \in Adapters
    BY DEF ConfigAssumption, Typed, ManagerTypeOK
  <2>2. /\ req[q].pc \in LockedPCs <=> lock[Home[q]] = q
        /\ req[r].pc \in LockedPCs <=> lock[Home[r]] = r
    BY DEF LockHeld
  <2> HIDE DEF LockedPCs
  <2> QED BY <1>1, <2>1, <2>2, LockSteps
<1>2. CASE UNCHANGED managerVars
  BY <1>2 DEF managerVars, LockHeld
<1>3. ASSUME NEW a \in Adapters, Crash(a), NEW q \in Requests
      PROVE  req'[q].pc \in LockedPCs <=> lock'[Home[q]] = q
  <2>1. /\ lock \in [Adapters -> Requests \cup {NoReq}] /\ NoReq \notin Requests
        /\ Home[q] \in Adapters
    BY DEF ConfigAssumption, Typed, ManagerTypeOK
  <2>2. lock' = [lock EXCEPT ![a] = NoReq]
    BY <1>3 DEF Crash
  <2>3. req[q].pc \in LockedPCs <=> lock[Home[q]] = q
    BY DEF LockHeld
  <2>4. IF Home[q] = a THEN req'[q].pc \notin LockedPCs ELSE req'[q] = req[q]
    BY <1>3, CrashEnds
  <2> HIDE DEF LockedPCs
  <2> QED BY <2>1, <2>2, <2>3, <2>4
<1> QED BY <1>1, <1>2, <1>3, StepKinds DEF LockHeld

\* The deploy lock is held by the handler between its two ends.
LEMMA DeployLockHeldNext ==
    ASSUME ConfigAssumption, Typed, DeployLockHeld, [Next]_vars
    PROVE  DeployLockHeld'
<1> DEFINE in(q) == req[q].pc \in Deploying
<1>1. ASSUME NEW r \in Requests, Idles(r) \/ Refuses(r) \/ Starts(r) \/ TaskStep(r)
      PROVE  UNCHANGED flock /\ \A q \in Requests : in(q)' <=> in(q)
  <2>1. CASE Idles(r) \/ Refuses(r) \/ Starts(r)
    BY <1>1, <2>1 DEF Idles, Refuses, Starts, podStateVars, Typed, ManagerTypeOK, Deploying
  <2>2. CASE TaskStep(r)
    BY <2>2, TaskSteps DEF managerVars
  <2> QED BY <1>1, <2>1, <2>2
<1>2. ASSUME NEW r \in Requests, HandlerStep(r), NEW q \in Requests
      PROVE  in(q)' <=> flock' = q
  <2>1. NoReq \notin Requests
    BY DEF ConfigAssumption
  <2>2. (in(q) <=> flock = q) /\ (in(r) <=> flock = r)
    BY DEF DeployLockHeld, Deploying
  <2>3. \/ UNCHANGED flock /\ (in(r)' <=> in(r))
        \/ flock = NoReq /\ flock' = r /\ in(r)'
        \/ flock = r /\ flock' = NoReq /\ ~in(r)'
    BY <1>2, DeployLockSteps DEF Deploying
  <2>4. q # r => (in(q)' <=> in(q))
    BY <1>2, OthersStay
  <2> HIDE DEF in
  <2> QED BY <2>1, <2>2, <2>3, <2>4
<1>3. CASE UNCHANGED <<podStateVars, managerVars>>
  BY <1>3 DEF podStateVars, managerVars, DeployLockHeld
<1>4. ASSUME NEW a \in Adapters, Crash(a), NEW q \in Requests
      PROVE  in(q)' <=> flock' = q
  <2>1. NoReq \notin Requests
    BY DEF ConfigAssumption
  <2>2. flock' = IF \E r \in Requests : Home[r] = a /\ flock = r THEN NoReq ELSE flock
    BY <1>4 DEF Crash
  <2>3. in(q) <=> flock = q
    BY DEF DeployLockHeld, Deploying
  <2> QED BY <1>4, <2>1, <2>2, <2>3, CrashEnds DEF Deploying
<1> QED BY <1>1, <1>2, <1>3, <1>4, StepKinds DEF DeployLockHeld, Deploying

-----------------------------------------------------------------------------
\* The record of the active pod.

\* A fixed pod stays on record for ever.
Pinned ==
    ConfiguredPod # NoPod => \A a \in Adapters : activePodId[a] = ConfiguredPod

\* Storing and clearing leave the record of a fixed pod alone.
LEMMA PinnedNext ==
    ASSUME ConfigAssumption, Typed, Pinned, [Next]_vars
    PROVE  Pinned'
<1>1. ASSUME NEW r \in Requests, Idles(r) \/ Refuses(r) \/ Starts(r)
      PROVE  Pinned'
  BY <1>1 DEF Idles, Refuses, Starts, podStateVars, Pinned
<1>2. ASSUME NEW r \in Requests, HandlerStep(r)
      PROVE  Pinned'
  BY <1>2, RecordSteps DEF KeepRecord, Clear, Store, Pinned
<1>3. ASSUME NEW r \in Requests, TaskStep(r)
      PROVE  Pinned'
  <2>1. KeepRecord \/ \E p \in Pods \cup {NoPod} : Clear(Home[r], p)
    BY <1>3, TaskSteps
  <2> QED BY <2>1 DEF KeepRecord, Clear, Pinned
<1>4. CASE UNCHANGED podStateVars
  BY <1>4 DEF podStateVars, Pinned
<1>5. ASSUME NEW a \in Adapters, Crash(a)
      PROVE  Pinned'
  BY <1>5 DEF Crash, Pinned, Typed, PodStateTypeOK
<1> QED BY <1>1, <1>2, <1>3, <1>4, <1>5, StepKinds

\* The record of adapter a and the file are kept or emptied.
Emptied ==
    /\ \A a \in Adapters : activePodId'[a] \in {activePodId[a], NoPod}
    /\ podFile' \in {podFile, NoPod}

\* Clearing empties.
LEMMA ClearEmpties ==
    ASSUME ConfigAssumption, Typed, NEW a \in Adapters, NEW p,
           KeepRecord \/ Clear(a, p)
    PROVE  Emptied
BY DEF KeepRecord, Clear, FileAfterUnlink, Emptied, Typed, PodStateTypeOK

\* Every step but the store of a deploy's answer, and a crash, empties at most.
LEMMA RecordKinds ==
    ASSUME ConfigAssumption, Typed, [Next]_vars
    PROVE  \/ Emptied
           \/ \E r \in Requests :
                 /\ HandlerStep(r) /\ req[r].pc = "deploying"
                 /\ \E p \in Pods \cup {NoPod} : Store(Home[r], p)
           \/ \E a \in Adapters : Crash(a)
<1>1. ASSUME NEW r \in Requests,
             Idles(r) \/ Refuses(r) \/ Starts(r)
      PROVE  Emptied
  BY <1>1 DEF Idles, Refuses, Starts, podStateVars, Emptied
<1>2. ASSUME NEW r \in Requests, HandlerStep(r)
      PROVE  \/ Emptied
             \/ /\ req[r].pc = "deploying"
                /\ \E p \in Pods \cup {NoPod} : Store(Home[r], p)
  BY <1>2, RecordSteps, ClearEmpties, Locals
<1>3. ASSUME NEW r \in Requests, TaskStep(r)
      PROVE  Emptied
  <2>1. KeepRecord \/ \E p \in Pods \cup {NoPod} : Clear(Home[r], p)
    BY <1>3, TaskSteps
  <2> QED BY <2>1, ClearEmpties, Locals
<1>4. CASE UNCHANGED podStateVars
  BY <1>4 DEF podStateVars, Emptied
<1> QED BY <1>1, <1>2, <1>3, <1>4, StepKinds

\* No deploy is outstanding while a pod is on record.
LEMMA UntrackedNext ==
    ASSUME ConfigAssumption, Typed, DeployLockHeld, DeployOnlyWhenUntracked, [Next]_vars
    PROVE  DeployOnlyWhenUntracked'
<1> SUFFICES ASSUME NEW q \in Requests, req'[q].pc = "deploying"
             PROVE  activePodId'[Home[q]] = NoPod /\ podFile' = NoPod
  BY DEF DeployOnlyWhenUntracked
<1>1. Home[q] \in Adapters
  BY DEF ConfigAssumption
<1>2. CASE req[q].pc = "deploying"
  <2>1. activePodId[Home[q]] = NoPod /\ podFile = NoPod /\ flock = q
    BY <1>2 DEF DeployOnlyWhenUntracked, DeployLockHeld
  <2>2. CASE Emptied
    BY <1>1, <2>1, <2>2 DEF Emptied
  <2>3. ASSUME NEW r \in Requests, HandlerStep(r), req[r].pc = "deploying"
        PROVE  Emptied
    <3>1. r = q
      BY <2>1, <2>3 DEF DeployLockHeld
    <3>2. req'[r].pc # "deploying"
      BY <2>3, DeployLockSteps DEF Deploying, DeployLockHeld, ConfigAssumption
    <3> QED BY <3>1, <3>2
  <2>4. ASSUME NEW a \in Adapters, Crash(a)
        PROVE  activePodId'[Home[q]] = NoPod /\ podFile' = NoPod
    <3>1. Home[q] # a
      BY <2>4, CrashEnds
    <3> QED BY <1>1, <2>1, <2>4, <3>1 DEF Crash, Typed, PodStateTypeOK
  <2> QED BY <2>2, <2>3, <2>4, RecordKinds
<1>3. CASE req[q].pc # "deploying"
  <2>1. ASSUME NEW r \in Requests, HandlerStep(r)
        PROVE  activePodId'[Home[q]] = NoPod /\ podFile' = NoPod
    <3>1. q = r
      BY <1>3, <2>1, OthersStay
    <3>2. KeepRecord /\ Load(Home[r]) = NoPod
      BY <1>3, <2>1, <3>1, DeployLockSteps DEF Deploying
    <3> QED BY <3>1, <3>2 DEF KeepRecord, Load
  <2>2. ASSUME NEW r \in Requests, Idles(r) \/ Refuses(r) \/ Starts(r) \/ TaskStep(r)
        PROVE  FALSE
    <3>1. DOMAIN req = Requests
      BY DEF Typed, ManagerTypeOK
    <3> QED BY <1>3, <2>2, <3>1 DEF Idles, Refuses, Starts, TaskStep, managerVars
  <2>3. ~UNCHANGED managerVars
    BY <1>3 DEF managerVars
  <2>4. ASSUME NEW a \in Adapters, Crash(a)
        PROVE  FALSE
    BY <1>3, <2>4, CrashEnds
  <2> QED BY <2>1, <2>2, <2>3, <2>4, StepKinds
<1> QED BY <1>2, <1>3

\* A recorded pod is forgotten before another one is recorded.
LEMMA NotOverwritten ==
    ASSUME ConfigAssumption, Typed, Pinned, DeployOnlyWhenUntracked, [Next]_vars
    PROVE  /\ \A a \in Adapters : activePodId'[a] \in {activePodId[a], NoPod}
                                  \/ activePodId[a] = NoPod
           /\ podFile' \in {podFile, NoPod} \/ podFile = NoPod
<1>1. CASE Emptied
  BY <1>1 DEF Emptied
<1>2. ASSUME NEW r \in Requests, req[r].pc = "deploying",
             NEW p \in Pods \cup {NoPod}, Store(Home[r], p),
             NEW a \in Adapters
      PROVE  /\ activePodId'[a] \in {activePodId[a], NoPod} \/ activePodId[a] = NoPod
             /\ podFile' \in {podFile, NoPod} \/ podFile = NoPod
  <2>1. activePodId[Home[r]] = NoPod /\ podFile = NoPod
    BY <1>2 DEF DeployOnlyWhenUntracked
  <2> QED BY <1>2, <2>1 DEF Store, Typed, PodStateTypeOK
<1>3. ASSUME NEW b \in Adapters, Crash(b), NEW a \in Adapters
      PROVE  /\ activePodId'[a] \in {activePodId[a], NoPod} \/ activePodId[a] = NoPod
             /\ podFile' \in {podFile, NoPod} \/ podFile = NoPod
  BY <1>3 DEF Crash, Pinned, Typed, PodStateTypeOK
<1>4. Adapters = {} => Emptied
  BY RecordKinds DEF ConfigAssumption
<1> QED BY <1>1, <1>2, <1>3, <1>4, RecordKinds

=============================================================================
