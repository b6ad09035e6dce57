--------------------------- MODULE Adapter_proofs ---------------------------
(***************************************************************************)
(* The theorems about the adapter.  First that every step keeps the        *)
(* invariants of the request count and of the idle tasks; then the         *)
(* inductive invariant, the properties it implies, and that the adapter    *)
(* implements the contract of the idle release.                            *)
(***************************************************************************)
EXTENDS AdapterSteps_proofs, FiniteSetTheorems

USE DEF LockedPCs, DeployPCs

-----------------------------------------------------------------------------
\* The requests in flight.

\* r is counted, and was not; its timer is revoked.
Joins(r) == ~InFlight(r) /\ InFlight(r)' /\ RequestStarted(r)

\* r is answered and no longer counted; a timer is started.
Quits(r) == InFlight(r) /\ ~InFlight(r)' /\ RequestFinished(r)

\* r is refused, it never was counted; a timer is started.
Refused(r) ==
    /\ ~InFlight(r) /\ ~InFlight(r)'
    /\ ScheduleIdleRelease(r) /\ UNCHANGED active

Stays(r) == (InFlight(r)' <=> InFlight(r)) /\ UNCHANGED idleVars

\* What a step that may end a handler does to the count.
LEMMA AdvanceFlight ==
    ASSUME ConfigAssumption, Typed, NEW r \in Requests, NEW S, S \subseteq LockedPCs,
           InFlight(r), Advance(r, S)
    PROVE  Stays(r) \/ Quits(r)
<1>1. CASE \E next \in RequestType : next.pc \in S /\ Proceed(r, next)
  BY <1>1 DEF Proceed, Typed, ManagerTypeOK, Stays, InFlight
<1>2. CASE \E e \in Exceptions : Raise(r, e)
  BY <1>2, RaiseAnswers DEF Quits, InFlight
<1> QED BY <1>1, <1>2 DEF Advance

\* Every step of a request changes the count as it changes what is in flight.
LEMMA FlightSteps ==
    ASSUME ConfigAssumption, Typed, NEW r \in Requests,
           Idles(r) \/ Refuses(r) \/ Starts(r) \/ HandlerStep(r)
    PROVE  /\ Joins(r) \/ Quits(r) \/ Refused(r) \/ Stays(r)
           /\ \A q \in Requests \ {r} : InFlight(q)' <=> InFlight(q)
<1>1. DOMAIN req = Requests
  BY DEF Typed, ManagerTypeOK
<1>2. \A q \in Requests \ {r} : InFlight(q)' <=> InFlight(q)
  BY LockSteps DEF InFlight
<1>3. CASE Idles(r)
  BY <1>1, <1>3 DEF Idles, Stays, InFlight
<1>4. CASE Refuses(r)
  BY <1>1, <1>4 DEF Refuses, Refused, InFlight
<1>5. CASE Starts(r)
  BY <1>1, <1>5 DEF Starts, Joins, InFlight
<1>6. CASE HandlerStep(r)
  <2>1. CASE Inside(r)
    <3>1. InFlight(r) /\ Advance(r, LockedPCs)
      BY <2>1 DEF Inside, InFlight
    <3>2. Stays(r) \/ Quits(r)
      BY <3>1, AdvanceFlight
    <3> QED BY <1>2, <3>2
  <2>2. CASE Leaves(r)
    BY <1>1, <2>2 DEF Leaves, Stays, InFlight
  <2>3. CASE Passes(r)
    <3>1. PICK status \in Statuses : Respond(r, status)
      BY <2>3 DEF Passes
    <3>2. req'[r].pc = "done"
      BY <1>1, <3>1, AnsweredTyped DEF Respond
    <3> QED BY <2>3, <3>1, <3>2 DEF Passes, Quits, InFlight, Respond
  <2> QED BY <1>6, <2>1, <2>2, <2>3, HandlerSteps
<1> QED BY <1>2, <1>3, <1>4, <1>5, <1>6

\* Adding or removing one request of an adapter changes what is in flight
\* there, and nowhere else.
LEMMA FlightSets ==
    ASSUME ConfigAssumption, NEW r \in Requests,
           \A q \in Requests \ {r} : InFlight(q)' <=> InFlight(q)
    PROVE  /\ \A a \in Adapters \ {Home[r]} : InFlightAt(a)' = InFlightAt(a)
           /\ (InFlight(r)' <=> InFlight(r)) => InFlightAt(Home[r])' = InFlightAt(Home[r])
           /\ ~InFlight(r) /\ InFlight(r)' =>
                 /\ r \notin InFlightAt(Home[r])
                 /\ InFlightAt(Home[r])' = InFlightAt(Home[r]) \cup {r}
           /\ InFlight(r) /\ ~InFlight(r)' =>
                 /\ r \in InFlightAt(Home[r])
                 /\ InFlightAt(Home[r])' = InFlightAt(Home[r]) \ {r}
<1> DEFINE after(q) == InFlight(q)'
<1>1. \A a : InFlightAt(a)' = {q \in Requests : Home[q] = a /\ after(q)}
  BY DEF InFlightAt
<1>2. \A a : InFlightAt(a) = {q \in Requests : Home[q] = a /\ InFlight(q)}
  BY DEF InFlightAt
<1>3. \A q \in Requests \ {r} : after(q) <=> InFlight(q)
  OBVIOUS
<1>4. (InFlight(r)' <=> after(r))
  OBVIOUS
<1> HIDE DEF after
<1> QED BY <1>1, <1>2, <1>3, <1>4

\* Finitely many requests are in flight.
LEMMA FlightFinite ==
    ASSUME NEW a PROVE IsFiniteSet(InFlightAt(a)) /\ Cardinality(InFlightAt(a)) \in Nat
<1>1. InFlightAt(a) \subseteq Requests
  BY DEF InFlightAt
<1> QED BY <1>1, RequestsFinite, FS_Subset, FS_CardinalityType

\* _active_requests counts the requests being served.
LEMMA CountMatchesNext ==
    ASSUME ConfigAssumption, Typed, CountMatches, [Next]_vars
    PROVE  CountMatches'
<1>1. ASSUME NEW r \in Requests,
             Idles(r) \/ Refuses(r) \/ Starts(r) \/ HandlerStep(r)
      PROVE  CountMatches'
  <2> DEFINE h == Home[r]
  <2>1. h \in Adapters /\ active \in [Adapters -> Int]
    BY DEF ConfigAssumption, Typed
  <2>2. \A a \in Adapters \ {h} : InFlightAt(a)' = InFlightAt(a) /\ active'[a] = active[a]
    BY <1>1, <2>1, FlightSteps, FlightSets
       DEF Joins, Quits, Refused, Stays, RequestStarted, RequestFinished, idleVars
  <2>3. active'[h] = Cardinality(InFlightAt(h)')
    <3>1. active[h] = Cardinality(InFlightAt(h))
      BY <2>1 DEF CountMatches
    <3>2. CASE Joins(r)
      <4>1. active'[h] = active[h] + 1
        BY <2>1, <3>2 DEF Joins, RequestStarted
      <4>2. /\ r \notin InFlightAt(h)
            /\ InFlightAt(h)' = InFlightAt(h) \cup {r}
        BY <1>1, <3>2, FlightSteps, FlightSets DEF Joins
      <4>3. Cardinality(InFlightAt(h) \cup {r}) = Cardinality(InFlightAt(h)) + 1
        BY <4>2, FlightFinite, FS_AddElement
      <4> QED BY <3>1, <4>1, <4>2, <4>3
    <3>3. CASE Quits(r)
      <4>1. active'[h] = active[h] - 1
        BY <2>1, <3>3 DEF Quits, RequestFinished
      <4>2. /\ r \in InFlightAt(h)
            /\ InFlightAt(h)' = InFlightAt(h) \ {r}
        BY <1>1, <3>3, FlightSteps, FlightSets DEF Quits
      <4>3. Cardinality(InFlightAt(h) \ {r}) = Cardinality(InFlightAt(h)) - 1
        BY <4>2, FlightFinite, FS_RemoveElement
      <4> QED BY <3>1, <4>1, <4>2, <4>3
    <3>4. CASE Refused(r) \/ Stays(r)
      <4>1. active' = active /\ (InFlight(r)' <=> InFlight(r))
        BY <3>4 DEF Refused, Stays, idleVars
      <4>2. InFlightAt(h)' = InFlightAt(h)
        BY <1>1, <4>1, FlightSteps, FlightSets
      <4> QED BY <3>1, <4>1, <4>2
    <3> QED BY <1>1, <3>2, <3>3, <3>4, FlightSteps
  <2> QED BY <2>2, <2>3 DEF CountMatches
<1>2. CASE UNCHANGED <<active, managerVars>>
  BY <1>2 DEF CountMatches, InFlightAt, InFlight, managerVars
<1>3. ASSUME NEW a \in Adapters, Crash(a), NEW b \in Adapters
      PROVE  active'[b] = Cardinality(InFlightAt(b)')
  <2>1. active' = [active EXCEPT ![a] = 0] /\ active \in [Adapters -> Int]
    BY <1>3 DEF Crash, Typed
  <2>2. CASE b = a
    <3>1. InFlightAt(a)' = {}
      BY <1>3, CrashEnds DEF InFlightAt, InFlight
    <3> QED BY <2>1, <2>2, <3>1, FS_EmptySet
  <2>3. CASE b # a
    <3>1. InFlightAt(b)' = InFlightAt(b)
      BY <1>3, <2>3, CrashEnds DEF InFlightAt, InFlight
    <3> QED BY <2>1, <2>3, <3>1 DEF CountMatches
  <2> QED BY <2>2, <2>3
<1>4. ASSUME NEW r \in Requests, TaskStep(r)
      PROVE  UNCHANGED <<active, managerVars>>
  BY <1>4, TaskSteps
<1> QED BY <1>1, <1>2, <1>3, <1>4, StepKinds DEF CountMatches, idleVars

-----------------------------------------------------------------------------
\* The idle tasks.

\* Of the tasks of an adapter only the current one can act.
Owned == \A r \in Requests : Acts(task[r]) => current[Home[r]] = r

\* An adapter refers to a task of its own.
Local == \A a \in Adapters : current[a] \in Requests => Home[current[a]] = a

\* A task that has begun to release has no request beside it.
Calm == \A r \in Requests : Releases(task[r]) => InFlightAt(Home[r]) = {}

\* The two invariants as AdapterProperties states them.
LEMMA IdleInvariants ==
    (OneReleaseTask <=> Owned) /\ (QuietRelease <=> Calm)
BY DEF OneReleaseTask, QuietRelease, Owned, Calm, Acts, Releases, Running

\* Cancelling the current task of an adapter leaves it no task that can act,
\* and the tasks of the other adapters as they were or cancelled.
LEMMA CancelledActs ==
    ASSUME ConfigAssumption, Typed, Owned, NEW r \in Requests, NEW q \in Requests,
           Acts(Cancelled(Home[r])[q])
    PROVE  Home[q] # Home[r] /\ Cancelled(Home[r])[q] = task[q]
<1>1. task[q] \in TaskType
  BY DEF Typed
<1>2. ~Acts([task[q] EXCEPT !.cancelled = TRUE])
  BY <1>1 DEF Acts, TaskType
<1>3. /\ ~(q = current[Home[r]] /\ Running(q))
      /\ Cancelled(Home[r])[q] = task[q]
  BY <1>2 DEF Cancelled
<1>4. Running(q)
  BY <1>3 DEF Acts, Running
<1> QED BY <1>3, <1>4 DEF Owned

\* A release that begins implies that a task can act.
LEMMA ReleasesActs == ASSUME NEW t, Releases(t) PROVE Acts(t)
BY DEF Releases, Acts

\* When a request starts or ends, its adapter is left with no release, and with
\* one timer at most, the new one.
LEMMA TasksRevoked ==
    ASSUME ConfigAssumption, Typed, Owned, NEW r \in Requests,
           Joins(r) \/ Quits(r) \/ Refused(r)
    PROVE  /\ Owned'
           /\ \A q \in Requests : Releases(task'[q]) =>
                 Home[q] # Home[r] /\ task'[q] = task[q]
           /\ Local => \A q \in Requests : Home[q] # Home[r] => task'[q] = task[q]
<1>1. Home[r] \in Adapters /\ current \in [Adapters -> Requests \cup {NoReq}]
  BY DEF ConfigAssumption, Typed
<1>2. CASE Joins(r)
  <2>1. task' = Cancelled(Home[r]) /\ current' = current
    BY <1>2 DEF Joins, RequestStarted
  <2>2. \A q \in Requests : Acts(task'[q]) => Home[q] # Home[r] /\ task'[q] = task[q]
    BY <2>1, CancelledActs
  <2>3. Owned'
    BY <2>1, <2>2 DEF Owned
  <2>4. Local => \A q \in Requests : Home[q] # Home[r] => task'[q] = task[q]
    BY <1>1, <2>1 DEF Cancelled, Local
  <2> QED BY <2>2, <2>3, <2>4, ReleasesActs
<1>3. CASE Quits(r) \/ Refused(r)
  <2> DEFINE timer == [st |-> "sleeping", pod |-> NoPod, cancelled |-> FALSE]
  <2>1. /\ task' = [Cancelled(Home[r]) EXCEPT ![r] = timer]
        /\ current' = [current EXCEPT ![Home[r]] = r]
    BY <1>3 DEF Quits, Refused, RequestFinished, ScheduleIdleRelease
  <2>2. DOMAIN Cancelled(Home[r]) = Requests
    BY DEF Cancelled
  <2>3. task'[r] = timer /\ ~Releases(timer)
    BY <2>1, <2>2 DEF Releases
  <2>4. \A q \in Requests \ {r} : task'[q] = Cancelled(Home[r])[q]
    BY <2>1, <2>2
  <2>5. \A q \in Requests \ {r} :
           Acts(task'[q]) => Home[q] # Home[r] /\ task'[q] = task[q]
    BY <2>4, CancelledActs
  <2>6. current'[Home[r]] = r /\ \A a \in Adapters \ {Home[r]} : current'[a] = current[a]
    BY <1>1, <2>1
  <2>7. Owned'
    <3> SUFFICES ASSUME NEW q \in Requests, Acts(task'[q]) PROVE current'[Home[q]] = q
      BY DEF Owned
    <3>1. CASE q = r
      BY <2>6, <3>1
    <3>2. CASE q # r
      <4>1. Home[q] \in Adapters
        BY DEF ConfigAssumption
      <4>2. current'[Home[q]] = current[Home[q]] /\ Acts(task[q])
        BY <2>5, <2>6, <3>2, <4>1
      <4> QED BY <4>2 DEF Owned
    <3> QED BY <3>1, <3>2
  <2>8. Local => \A q \in Requests : Home[q] # Home[r] => task'[q] = task[q]
    BY <1>1, <2>4 DEF Cancelled, Local
  <2> HIDE DEF timer
  <2> QED BY <2>3, <2>5, <2>7, <2>8, ReleasesActs
<1> QED BY <1>2, <1>3

\* A quiet adapter serves no request.
LEMMA QuietMeansNone ==
    ASSUME CountMatches, NEW a \in Adapters, active[a] = 0
    PROVE  InFlightAt(a) = {}
BY FlightFinite, FS_EmptySet DEF CountMatches

\* One acting task per adapter, and no request beside a release.
LEMMA IdleNext ==
    ASSUME ConfigAssumption, Typed, CountMatches, Owned, Calm, [Next]_vars
    PROVE  Owned' /\ Calm'
<1>1. ASSUME NEW r \in Requests, Joins(r) \/ Quits(r) \/ Refused(r),
             \A q \in Requests \ {r} : InFlight(q)' <=> InFlight(q)
      PROVE  Owned' /\ Calm'
  <2>1. Owned'
    BY <1>1, TasksRevoked
  <2>2. ASSUME NEW q \in Requests, Releases(task'[q])
        PROVE  InFlightAt(Home[q])' = {}
    <3>1. Home[q] # Home[r] /\ Releases(task[q])
      BY <1>1, <2>2, TasksRevoked
    <3>2. InFlightAt(Home[q])' = InFlightAt(Home[q])
      BY <1>1, <3>1, FlightSets DEF ConfigAssumption
    <3> QED BY <3>1, <3>2 DEF Calm
  <2> QED BY <2>1, <2>2 DEF Calm
<1>2. ASSUME NEW r \in Requests, Stays(r),
             \A q \in Requests \ {r} : InFlight(q)' <=> InFlight(q)
      PROVE  Owned' /\ Calm'
  <2>1. \A a \in Adapters : InFlightAt(a)' = InFlightAt(a)
    BY <1>2, FlightSets DEF Stays
  <2> QED BY <1>2, <2>1 DEF Stays, idleVars, Owned, Calm, ConfigAssumption
<1>3. ASSUME NEW r \in Requests, TaskStep(r)
      PROVE  Owned' /\ Calm'
  <2>1. PICK t \in TaskType :
           /\ task' = [task EXCEPT ![r] = t]
           /\ Acts(t) => Acts(task[r])
           /\ Releases(t) => Releases(task[r]) \/ active[Home[r]] = 0
    BY <1>3, TaskSteps
  <2>2. current' = current /\ UNCHANGED managerVars
    BY <1>3, TaskSteps
  <2>3. \A a : InFlightAt(a)' = InFlightAt(a)
    BY <2>2 DEF managerVars, InFlightAt, InFlight
  <2>4. task'[r] = t /\ \A q \in Requests \ {r} : task'[q] = task[q]
    BY <2>1 DEF Typed
  <2>5. Releases(t) => InFlightAt(Home[r]) = {}
    BY <2>1, QuietMeansNone DEF Calm, ConfigAssumption
  <2>6. Owned'
    BY <2>1, <2>2, <2>4 DEF Owned
  <2>7. Calm'
    BY <2>3, <2>4, <2>5 DEF Calm
  <2> QED BY <2>6, <2>7
<1>4. CASE UNCHANGED <<idleVars, managerVars>>
  BY <1>4 DEF Owned, Calm, InFlightAt, InFlight, managerVars, idleVars
<1>5. ASSUME NEW a \in Adapters, Crash(a)
      PROVE  Owned' /\ Calm'
  <2>1. ~Acts(NoTask) /\ ~Releases(NoTask)
    BY DEF NoTask, Acts, Releases
  <2>2. \A q \in Requests : task'[q] = IF Home[q] = a THEN NoTask ELSE task[q]
    BY <1>5 DEF Crash
  <2>3. \A b \in Adapters \ {a} : InFlightAt(b)' = InFlightAt(b)
    BY <1>5, CrashEnds DEF InFlightAt, InFlight
  <2>4. \A b \in Adapters \ {a} : current'[b] = current[b]
    BY <1>5 DEF Crash, Typed
  <2> QED BY <2>1, <2>2, <2>3, <2>4 DEF Owned, Calm, ConfigAssumption
<1> QED BY <1>1, <1>2, <1>3, <1>4, <1>5, StepKinds, FlightSteps

\* Only the end of one of its own requests gives an adapter a new task.
LEMMA LocalNext ==
    ASSUME ConfigAssumption, Typed, Local, [Next]_vars
    PROVE  Local'
<1>1. ASSUME NEW r \in Requests, Joins(r) \/ Quits(r) \/ Refused(r) \/ Stays(r)
      PROVE  Local'
  <2>1. Home[r] \in Adapters /\ current \in [Adapters -> Requests \cup {NoReq}]
    BY DEF ConfigAssumption, Typed
  <2>2. current' = current \/ current' = [current EXCEPT ![Home[r]] = r]
    BY <1>1 DEF Joins, Quits, Refused, Stays, RequestStarted, RequestFinished,
                ScheduleIdleRelease, idleVars
  <2> QED BY <2>1, <2>2 DEF Local
<1>2. ASSUME NEW r \in Requests, TaskStep(r)
      PROVE  Local'
  BY <1>2, TaskSteps DEF Local
<1>3. CASE UNCHANGED idleVars
  BY <1>3 DEF idleVars, Local
<1>4. ASSUME NEW a \in Adapters, Crash(a)
      PROVE  Local'
  BY <1>4 DEF Crash, Local, Typed, ConfigAssumption
<1> QED BY <1>1, <1>2, <1>3, <1>4, StepKinds, FlightSteps

-----------------------------------------------------------------------------
\* The theorems.

\* What the proofs carry along: the types, and the invariants the others need.
IInv ==
    /\ Typed /\ LockHeld /\ DeployLockHeld /\ CountMatches
    /\ Owned /\ Local /\ Calm
    /\ Pinned /\ DeployOnlyWhenUntracked

\* It holds initially.
LEMMA IInvInit == ASSUME ConfigAssumption, Init PROVE IInv
<1> USE DEF Init, PodStateInit, RunPodInit, IdleInit, ManagerInit
<1>1. NewRequest \in RequestType /\ NewRequest.pc = "new"
  BY DEF ConfigAssumption, NewRequest, RequestType, PCs, Returns, Statuses
<1>2. Typed
  <2>1. PodStateTypeOK
    BY DEF ConfigAssumption, PodStateTypeOK
  <2>2. RunPodTypeOK
    <3>1. NoCall \in CallType
      BY DEF NoCall, CallType, Ops, CallStatuses
    <3> QED BY <3>1 DEF RunPodTypeOK, PodStatuses
  <2>3. task \in [Requests -> TaskType]
    <3>1. NoTask \in TaskType
      BY DEF NoTask, TaskType, TaskStatuses
    <3> QED BY <3>1
  <2>4. active \in [Adapters -> Int] /\ current \in [Adapters -> Requests \cup {NoReq}]
    OBVIOUS
  <2>5. ManagerTypeOK
    BY <1>1 DEF ManagerTypeOK
  <2> QED BY <2>1, <2>2, <2>3, <2>4, <2>5 DEF Typed
<1>3. \A r \in Requests : req[r].pc = "new"
  BY <1>1
<1>4. LockHeld /\ DeployLockHeld
  BY <1>3 DEF ConfigAssumption, LockHeld, DeployLockHeld
<1>5. CountMatches
  <2>1. \A a \in Adapters : InFlightAt(a) = {}
    BY <1>3 DEF InFlightAt, InFlight
  <2> QED BY <2>1, FS_EmptySet DEF CountMatches
<1>6. Owned /\ Calm /\ Local
  BY DEF ConfigAssumption, NoTask, Acts, Releases, Owned, Calm, Local
<1>7. Pinned /\ DeployOnlyWhenUntracked
  BY <1>3 DEF Pinned, DeployOnlyWhenUntracked
<1> QED BY <1>2, <1>4, <1>5, <1>6, <1>7 DEF IInv

\* It is inductive.
LEMMA IInvNext == ASSUME ConfigAssumption, IInv, [Next]_vars PROVE IInv'
BY TypedNext, LockHeldNext, DeployLockHeldNext, CountMatchesNext, IdleNext, LocalNext,
   PinnedNext, UntrackedNext DEF IInv

\* Every reachable state satisfies it.
THEOREM Invariance == Spec => []IInv
<1>1. Init => IInv
  BY ConfigAssumption, IInvInit
<1>2. IInv /\ [Next]_vars => IInv'
  BY ConfigAssumption, IInvNext
<1> QED BY <1>1, <1>2, PTL DEF Spec

\* Types hold; the count is not negative because it counts.
THEOREM TypeCorrect == Spec => []TypeOK
<1>1. IInv => TypeOK
  <2>1. Typed /\ CountMatches => \A a \in Adapters : active[a] \in Nat
    BY FlightFinite DEF CountMatches
  <2>2. Typed /\ CountMatches => active \in [Adapters -> Nat]
    BY <2>1 DEF Typed
  <2> QED BY <2>2 DEF IInv, Typed, TypeOK, IdleTypeOK
<1> QED BY <1>1, Invariance, PTL

\* ensure_ready is serialised: a handler is inside it exactly while its
\* adapter's _lock names it, whatever happened to the handlers before.
THEOREM LockCorrect == Spec => []LockHeld
<1>1. IInv => LockHeld
  BY DEF IInv
<1> QED BY <1>1, Invariance, PTL

\* DeployLock serialises the deploys of all adapters, and every way out of the
\* block it guards, failures and crashes included, releases it.
THEOREM DeployLockCorrect == Spec => []DeployLockHeld
<1>1. IInv => DeployLockHeld
  BY DEF IInv
<1> QED BY <1>1, Invariance, PTL

\* _active_requests is the number of requests being served.
THEOREM CountCorrect == Spec => []CountMatches
<1>1. IInv => CountMatches
  BY DEF IInv
<1> QED BY <1>1, Invariance, PTL

\* Of the idle tasks of an adapter, only the one it refers to can act.
THEOREM OneTask == Spec => []OneReleaseTask
<1>1. IInv => OneReleaseTask
  BY IdleInvariants DEF IInv
<1> QED BY <1>1, Invariance, PTL

\* A release that was not revoked has no request beside it.
THEOREM ReleaseQuiet == Spec => []QuietRelease
<1>1. IInv => QuietRelease
  BY IdleInvariants DEF IInv
<1> QED BY <1>1, Invariance, PTL

\* No adapter deploys while it or the shared file tracks a pod.
THEOREM DeployUntracked == Spec => []DeployOnlyWhenUntracked
<1>1. IInv => DeployOnlyWhenUntracked
  BY DEF IInv
<1> QED BY <1>1, Invariance, PTL

\* A recorded pod is forgotten before another one is recorded.
THEOREM RecordNotOverwritten == Spec => NeverOverwritten
<1> DEFINE A == /\ \A a \in Adapters : activePodId'[a] \in {activePodId[a], NoPod}
                                       \/ activePodId[a] = NoPod
                /\ podFile' \in {podFile, NoPod} \/ podFile = NoPod
<1>1. IInv /\ [Next]_vars => A
  BY ConfigAssumption, NotOverwritten DEF IInv
<1>2. IInv /\ [Next]_vars => [A]_vars
  BY <1>1
<1> HIDE DEF A
<1>3. Spec => [][A]_vars
  BY <1>2, Invariance, PTL DEF Spec
<1> QED BY <1>3 DEF NeverOverwritten, A

-----------------------------------------------------------------------------
\* The idle release implements its contract.

Serving == [a \in Adapters |-> InFlightAt(a)]

Releasing ==
    [a \in Adapters |-> \E r \in Requests : Home[r] = a /\ Releases(task[r])]

ContractVars == <<Serving, Releasing>>

\* The refinement mapping, in the words of this module.
LEMMA Mapping ==
    ASSUME ConfigAssumption
    PROVE  /\ Contract!contractVars = ContractVars
           /\ Contract!Init <=> /\ Serving = [a \in Adapters |-> {}]
                                /\ Releasing = [a \in Adapters |-> FALSE]
BY DEF Contract!contractVars, Contract!Init, ContractVars, Serving, Releasing, Releases

\* The steps of the contract, in the words of this module.
LEMMA ContractSteps ==
    ASSUME NEW a \in Adapters,
           \/ \E r \in Requests :
                 /\ Serving' = [Serving EXCEPT ![a] = @ \cup {r}]
                 /\ Releasing' = [Releasing EXCEPT ![a] = FALSE]
           \/ \E r \in Requests :
                 /\ r \in Serving[a]
                 /\ Serving' = [Serving EXCEPT ![a] = @ \ {r}]
                 /\ Releasing' = [Releasing EXCEPT ![a] = FALSE]
           \/ /\ Serving[a] = {} /\ UNCHANGED Serving
              /\ Releasing' = [Releasing EXCEPT ![a] = TRUE]
           \/ /\ Releasing[a] /\ UNCHANGED Serving
              /\ Releasing' = [Releasing EXCEPT ![a] = FALSE]
           \/ /\ Serving' = [Serving EXCEPT ![a] = {}]
              /\ Releasing' = [Releasing EXCEPT ![a] = FALSE]
    PROVE  Contract!Next
BY DEF Contract!Next, Contract!Start, Contract!Finish, Contract!Begin, Contract!End,
       Contract!Restart, Serving, Releasing, Releases

\* A request that starts or ends revokes the release of its adapter.
LEMMA Revokes ==
    ASSUME ConfigAssumption, IInv, NEW r \in Requests, Joins(r) \/ Quits(r) \/ Refused(r)
    PROVE  Releasing' = [Releasing EXCEPT ![Home[r]] = FALSE]
<1>1. Home[r] \in Adapters
  BY DEF ConfigAssumption
<1>2. \A q \in Requests : Releases(task'[q]) <=> Home[q] # Home[r] /\ Releases(task[q])
  BY TasksRevoked DEF IInv
<1>3. Releasing' = [a \in Adapters |->
                      \E q \in Requests : Home[q] = a /\ Releases(task'[q])]
  BY DEF Releasing, Releases
<1>4. ASSUME NEW a \in Adapters
      PROVE  (\E q \in Requests : Home[q] = a /\ Releases(task'[q]))
               <=> a # Home[r] /\ Releasing[a]
  BY <1>2 DEF Releasing
<1>5. Releasing' = [a \in Adapters |-> a # Home[r] /\ Releasing[a]]
  BY <1>3, <1>4
<1>6. Releasing \in [Adapters -> BOOLEAN]
  BY DEF Releasing
<1> QED BY <1>1, <1>5, <1>6

\* What a step of r does to the requests being served.
LEMMA Serves ==
    ASSUME ConfigAssumption, NEW r \in Requests,
           \A q \in Requests \ {r} : InFlight(q)' <=> InFlight(q)
    PROVE  /\ Joins(r) => Serving' = [Serving EXCEPT ![Home[r]] = @ \cup {r}]
           /\ Quits(r) => /\ r \in Serving[Home[r]]
                          /\ Serving' = [Serving EXCEPT ![Home[r]] = @ \ {r}]
           /\ Refused(r) \/ Stays(r) => UNCHANGED Serving
<1>1. Home[r] \in Adapters
  BY DEF ConfigAssumption
<1>2. Serving' = [a \in Adapters |-> InFlightAt(a)']
  BY DEF Serving
<1>3. \A a \in Adapters \ {Home[r]} : InFlightAt(a)' = InFlightAt(a)
  BY FlightSets
<1>4. CASE Joins(r)
  <2>1. InFlightAt(Home[r])' = InFlightAt(Home[r]) \cup {r} /\ ~InFlight(r) /\ InFlight(r)'
    BY <1>4, FlightSets DEF Joins
  <2> QED BY <1>1, <1>2, <1>3, <2>1 DEF Serving, Quits, Refused, Stays
<1>5. CASE Quits(r)
  <2>1. /\ InFlightAt(Home[r])' = InFlightAt(Home[r]) \ {r} /\ r \in InFlightAt(Home[r])
        /\ InFlight(r) /\ ~InFlight(r)'
    BY <1>5, FlightSets DEF Quits
  <2> QED BY <1>1, <1>2, <1>3, <2>1 DEF Serving, Joins, Refused, Stays
<1>6. CASE InFlight(r)' <=> InFlight(r)
  <2>1. InFlightAt(Home[r])' = InFlightAt(Home[r])
    BY <1>6, FlightSets
  <2> QED BY <1>1, <1>2, <1>3, <1>6, <2>1 DEF Serving, Joins, Quits
<1> QED BY <1>4, <1>5, <1>6 DEF Refused, Stays

\* A step of an idle task begins a release, when the adapter is quiet, ends one,
\* or changes nothing the contract speaks of.
LEMMA TaskContract ==
    ASSUME ConfigAssumption, IInv, NEW r \in Requests, TaskStep(r)
    PROVE  Contract!Next \/ UNCHANGED ContractVars
<1> DEFINE h == Home[r]
<1>1. h \in Adapters
  BY DEF ConfigAssumption
<1>2. PICK t \in TaskType :
         /\ task' = [task EXCEPT ![r] = t]
         /\ Releases(t) => Releases(task[r]) \/ active[h] = 0
  BY TaskSteps DEF IInv
<1>3. UNCHANGED Serving
  BY TaskSteps DEF IInv, Serving, InFlightAt, InFlight, managerVars
<1>4. task'[r] = t /\ \A q \in Requests \ {r} : task'[q] = task[q]
  BY <1>2 DEF IInv, Typed
<1>5. Releasing' = [a \in Adapters |->
                      \E q \in Requests : Home[q] = a /\ Releases(task'[q])]
  BY DEF Releasing, Releases
<1>6. \A a \in Adapters \ {h} : Releasing'[a] = Releasing[a]
  BY <1>4, <1>5 DEF Releasing
<1>7. /\ Releasing' \in [Adapters -> BOOLEAN] /\ Releasing \in [Adapters -> BOOLEAN]
  BY <1>5 DEF Releasing
<1>8. CASE Releasing'[h] = Releasing[h]
  BY <1>3, <1>5, <1>6, <1>8 DEF Releasing, ContractVars
<1>9. CASE Releasing'[h] /\ ~Releasing[h]
  <2>1. Releases(t) /\ ~Releases(task[r])
    BY <1>1, <1>4, <1>5, <1>9 DEF Releasing
  <2>2. Serving[h] = {}
    BY <1>1, <1>2, <2>1, QuietMeansNone DEF IInv, Serving
  <2>3. Releasing' = [Releasing EXCEPT ![h] = TRUE]
    BY <1>1, <1>6, <1>7, <1>9
  <2> QED BY <1>1, <1>3, <2>2, <2>3, ContractSteps
<1>10. CASE ~Releasing'[h] /\ Releasing[h]
  <2>1. Releasing' = [Releasing EXCEPT ![h] = FALSE]
    BY <1>1, <1>6, <1>7, <1>10
  <2> QED BY <1>1, <1>3, <1>10, <2>1, ContractSteps
<1> QED BY <1>1, <1>7, <1>8, <1>9, <1>10

\* Every step of the adapter is a step of the contract or none.
LEMMA ContractNext ==
    ASSUME ConfigAssumption, IInv, [Next]_vars
    PROVE  Contract!Next \/ UNCHANGED ContractVars
<1>1. ASSUME NEW r \in Requests,
             Idles(r) \/ Refuses(r) \/ Starts(r) \/ HandlerStep(r)
      PROVE  Contract!Next \/ UNCHANGED ContractVars
  <2>1. Home[r] \in Adapters
    BY DEF ConfigAssumption
  <2>2. /\ Joins(r) \/ Quits(r) \/ Refused(r) \/ Stays(r)
        /\ \A q \in Requests \ {r} : InFlight(q)' <=> InFlight(q)
    BY <1>1, FlightSteps DEF IInv
  <2>3. CASE Joins(r) \/ Quits(r)
    <3>1. Releasing' = [Releasing EXCEPT ![Home[r]] = FALSE]
      BY <2>3, Revokes
    <3>2. \/ Serving' = [Serving EXCEPT ![Home[r]] = @ \cup {r}]
          \/ /\ r \in Serving[Home[r]]
             /\ Serving' = [Serving EXCEPT ![Home[r]] = @ \ {r}]
      BY <2>2, <2>3, Serves
    <3> QED BY <2>1, <3>1, <3>2, ContractSteps
  <2>4. CASE Refused(r)
    <3>1. UNCHANGED Serving /\ Releasing' = [Releasing EXCEPT ![Home[r]] = FALSE]
      BY <2>2, <2>4, Revokes, Serves
    <3>2. CASE Releasing[Home[r]]
      BY <2>1, <3>1, <3>2, ContractSteps
    <3>3. CASE ~Releasing[Home[r]]
      <4>1. Releasing[Home[r]] = FALSE
        BY <2>1, <3>3 DEF Releasing
      <4>2. [Releasing EXCEPT ![Home[r]] = FALSE] = Releasing
        BY <2>1, <4>1 DEF Releasing
      <4> QED BY <3>1, <4>2 DEF ContractVars
    <3> QED BY <3>2, <3>3
  <2>5. CASE Stays(r)
    <3>1. UNCHANGED Releasing
      BY <2>5 DEF Stays, idleVars, Releasing, Releases
    <3> QED BY <2>2, <2>5, <3>1, Serves DEF ContractVars
  <2> QED BY <2>2, <2>3, <2>4, <2>5
<1>2. CASE UNCHANGED <<idleVars, managerVars>>
  BY <1>2 DEF idleVars, managerVars, ContractVars, Serving, Releasing, Releases,
              InFlightAt, InFlight
<1>3. ASSUME NEW a \in Adapters, Crash(a)
      PROVE  Contract!Next
  <2>1. ~Releases(NoTask)
    BY DEF NoTask, Releases
  <2>2. \A q \in Requests : task'[q] = IF Home[q] = a THEN NoTask ELSE task[q]
    BY <1>3 DEF Crash
  <2>3. \A b \in Adapters :
           InFlightAt(b)' = IF b = a THEN {} ELSE InFlightAt(b)
    BY <1>3, CrashEnds DEF IInv, InFlightAt, InFlight
  <2>4. Serving' = [Serving EXCEPT ![a] = {}]
    <3>1. Serving' = [b \in Adapters |-> InFlightAt(b)']
      BY DEF Serving
    <3> QED BY <2>3, <3>1 DEF Serving
  <2>5. Releasing' = [b \in Adapters |->
                         \E q \in Requests : Home[q] = b /\ Releases(task'[q])]
    BY DEF Releasing, Releases
  <2>6. ASSUME NEW b \in Adapters
        PROVE  (\E q \in Requests : Home[q] = b /\ Releases(task'[q]))
                 <=> b # a /\ Releasing[b]
    BY <2>1, <2>2 DEF Releasing
  <2>7. Releasing' = [Releasing EXCEPT ![a] = FALSE]
    <3>1. Releasing \in [Adapters -> BOOLEAN] /\ Releasing' \in [Adapters -> BOOLEAN]
      BY <2>5 DEF Releasing
    <3>2. \A b \in Adapters : Releasing'[b] <=> b # a /\ Releasing[b]
      BY <2>5, <2>6
    <3> QED BY <3>1, <3>2
  <2> QED BY <2>4, <2>7, ContractSteps
<1> QED BY <1>1, <1>2, <1>3, StepKinds, TaskContract DEF IInv

\* The adapter, with its tasks, timers, locks and failures, implements the
\* contract of the idle release.
THEOREM Implements == Spec => ContractKept
<1>1. Init => Contract!Init
  <2>1. Init => Serving = [a \in Adapters |-> {}] /\ Releasing = [a \in Adapters |-> FALSE]
    BY ConfigAssumption
       DEF Init, IdleInit, ManagerInit, NewRequest, Serving, InFlightAt, InFlight, Releasing, NoTask, Releases
  <2> QED BY <2>1, ConfigAssumption, Mapping
<1>2. IInv /\ [Next]_vars => [Contract!Next]_(Contract!contractVars)
  BY ConfigAssumption, ContractNext
     DEF Contract!contractVars, ContractVars, Serving, Releasing, Releases
<1> QED BY <1>1, <1>2, Invariance, PTL DEF Spec, ContractKept, Contract!Spec

=============================================================================
