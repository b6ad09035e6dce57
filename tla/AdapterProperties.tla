------------------------- MODULE AdapterProperties --------------------------
(***************************************************************************)
(* What the adapter must get right, stated about module Adapter.           *)
(***************************************************************************)
EXTENDS Adapter

\* Every variable has its type: the record of each component is well formed.
TypeOK == PodStateTypeOK /\ RunPodTypeOK /\ IdleTypeOK /\ ManagerTypeOK

InFlight(r) == req[r].pc \in LockedPCs \cup {"lockwait", "forward"}

InFlightAt(a) == {r \in Requests : Home[r] = a /\ InFlight(r)}

\* RunPodManager._lock serialises ensure_ready: the handlers inside it are
\* exactly those a lock names, so each adapter has at most one.
LockHeld == \A r \in Requests : req[r].pc \in LockedPCs <=> lock[Home[r]] = r

\* DeployLock serialises deploys over all adapters, and every way out of the
\* `async with` block, also a failed deploy or a crash, lets it go.
DeployLockHeld ==
    \A r \in Requests : req[r].pc \in {"deploying", "unflock"} <=> flock = r

\* A deploy mutation is outstanding only while its adapter tracks no pod, in
\* memory or in the shared file: the two reads in
\* _deploy_from_template_with_retry leave no gap another store could use.
DeployOnlyWhenUntracked ==
    \A r \in Requests :
        req[r].pc = "deploying" => activePodId[Home[r]] = NoPod /\ podFile = NoPod

\* A release that nobody cancelled and that got past its one look at
\* _active_requests has no request beside it: request_started and
\* request_finished revoke the right task, whatever order tasks run in.
QuietRelease ==
    \A r \in Requests :
        task[r].st \in {"draining", "calling"} /\ ~task[r].cancelled
            => InFlightAt(Home[r]) = {}

\* Of the tasks of an adapter only the one it still refers to can act: a
\* superseded timer has always been cancelled.
OneReleaseTask ==
    \A r \in Requests :
        Running(r) /\ ~task[r].cancelled => current[Home[r]] = r

\* _active_requests is the number of requests being served, over every error
\* path of the handler and across restarts.
CountMatches == \A a \in Adapters : active[a] = Cardinality(InFlightAt(a))

-----------------------------------------------------------------------------
\* The faults after which a pod can be left that the code has no means to find:
\* an answer that is lost, a cancelled call that was never sent, a crash between
\* a deploy and its record.  What is about pods holds without them.
Survivable == Faults \cap {"call_error", "cancel_unsent", "crash"} = {}

OneAdapter == \A a, b \in Adapters : a = b

TerminatePending(p) == \E c \in Callers : Pending(c, "terminate") /\ call[c].pod = p

DeployAnswerPending(p) ==
    \E c \in Callers : call[c] = [op |-> "deploy", pod |-> p, st |-> "done"]

Recorded(p) == podFile = p \/ \E a \in Adapters : activePodId[a] = p

\* Every pod that exists at RunPod is on record, or about to be recorded, or
\* already told to terminate: none is left to bill with nobody knowing of it.
NoOrphan ==
    \A p \in Pods :
        Live(p) => Recorded(p) \/ DeployAnswerPending(p) \/ TerminatePending(p)

\* "Keeps one GPU pod warm": two pods exist at once only while all but one of
\* them are being terminated.
OneWarmPod ==
    Cardinality({p \in Pods : Live(p) /\ ~TerminatePending(p)}) <= 1

\* A recorded pod is forgotten before another is recorded: neither the memory
\* of an adapter nor the shared file ever goes from one pod to another.
NeverOverwritten ==
    [][ /\ \A a \in Adapters : activePodId'[a] \in {activePodId[a], NoPod}
                               \/ activePodId[a] = NoPod
        /\ podFile' \in {podFile, NoPod} \/ podFile = NoPod ]_vars

\* The record on file is removed only when the pod it names no longer exists or
\* has been told to terminate: clear(p) does not forget another pod than p.
\* (tests/test_pod_state.py, test_clear_only_removes_matching_template_pod_id)
ForgottenOnlyWhenGone ==
    [][ podFile # NoPod /\ podFile' = NoPod
            => ~Live(podFile) \/ TerminatePending(podFile) ]_vars

\* In fixed-pod mode the adapter stops and resumes the pod it was given: it
\* never terminates it, and never deploys another one.
FixedPodOnlyStopped ==
    ConfiguredPod # NoPod /\ ~Template
        => \A c \in Callers : call[c].op \notin {"terminate", "deploy"}

\* The idle release implements its contract.
Contract == INSTANCE IdleContract WITH
    serving   <- [a \in Adapters |-> InFlightAt(a)],
    releasing <- [a \in Adapters |->
                    \E r \in Requests : /\ Home[r] = a
                                        /\ task[r].st \in {"draining", "calling"}
                                        /\ ~task[r].cancelled]

ContractKept == Contract!Spec

-----------------------------------------------------------------------------
\* Every request whose body was received is answered: no handler waits for a
\* lock, a pod or a deploy for ever.
EveryRequestAnswered ==
    \A r \in Requests : InFlight(r) ~> req[r].pc = "done"

\* An adapter that stays quiet leaves no pod running: the last timer finds the
\* pod and releases it, also when the last request failed.
PodsReleased ==
    <>[](\A a \in Adapters : active[a] = 0)
        => <>[](\A p \in Pods : cloud[p] \in {"unborn", "exited", "gone"})

-----------------------------------------------------------------------------
\* What the documentation says and the code does not do.

\* "The adapter returns 503 + Retry-After when no machine is available"
\* (docs/decisions/0001-architecture.md): while RunPod has given no pod to
\* anybody, a request that ends without a pod ends with 503.
NoMachineMeans503 ==
    \A r \in Requests :
        req[r].pc = "done" /\ (\A p \in Pods : cloud[p] = "unborn")
            => req[r].status \in {413, 503}

=============================================================================
