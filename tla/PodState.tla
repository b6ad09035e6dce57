------------------------------ MODULE PodState ------------------------------
(***************************************************************************)
(* adapter/adapter/pod_state.py: the record of the active pod, kept in the *)
(* memory of each adapter and in a file the adapters share, and the file   *)
(* lock a deploy is made under.                                            *)
(*                                                                         *)
(* The operators below are the methods of the two classes; each assigns    *)
(* the variables of this module and no others.                             *)
(***************************************************************************)
EXTENDS Config

VARIABLES
    activePodId,   \* activePodId[a]: ActivePodStore._active_pod_id of adapter a
    podFile,       \* content of the active-pod-id file, NoPod: none or empty
    flock          \* the request whose handler holds the deploy lock file

podStateVars == <<activePodId, podFile, flock>>

PodStateInit ==
    /\ activePodId = [a \in Adapters |-> ConfiguredPod]
    /\ podFile = NoPod
    /\ flock = NoReq

\* load(): memory first, then the file.
Load(a) == IF activePodId[a] # NoPod THEN activePodId[a] ELSE podFile

\* What the file may hold after the code has tried to make it hold p: an
\* OSError is only logged, and write_text truncates before it writes.
FileAfter(p) ==
    IF ~HasPath THEN {podFile}
    ELSE IF "file_error" \in Faults THEN {p, podFile, NoPod} ELSE {p}

\* Mutant: the guard on RUNPOD_POD_ID is inverted.
StoreIfConfigured(a, p) ==
    IF ConfiguredPod = NoPod
    THEN UNCHANGED <<activePodId, podFile>>
    ELSE /\ activePodId' = [activePodId EXCEPT ![a] = p]
         /\ podFile' \in FileAfter(p)

Store(a, p) ==
    IF ConfiguredPod # NoPod
    THEN UNCHANGED <<activePodId, podFile>>
    ELSE /\ activePodId' = [activePodId EXCEPT ![a] = p]
         /\ podFile' \in FileAfter(p)

\* What the file may hold after unlink(missing_ok=True).
FileAfterUnlink ==
    IF ~HasPath THEN {podFile}
    ELSE IF "file_error" \in Faults THEN {NoPod, podFile} ELSE {NoPod}

\* clear(p) with a pod id: a memory that names another pod protects the
\* record, an empty memory does not.
Clear(a, p) ==
    IF \/ ConfiguredPod # NoPod
       \/ activePodId[a] # NoPod /\ activePodId[a] # p
    THEN UNCHANGED <<activePodId, podFile>>
    ELSE /\ activePodId' = [activePodId EXCEPT ![a] = NoPod]
         /\ podFile' \in FileAfterUnlink

KeepRecord == UNCHANGED <<activePodId, podFile>>

\* Mutants: the lock is not exclusive, or is never released.
AcquireSharedLock(r) == flock' = r

KeepDeployLock(r) == flock = r /\ UNCHANGED flock

\* DeployLock: flock(LOCK_EX) waits until no other handler holds the lock.
AcquireDeployLock(r) == flock = NoReq /\ flock' = r

ReleaseDeployLock(r) == flock = r /\ flock' = NoReq

PodStateTypeOK ==
    /\ activePodId \in [Adapters -> Pods \cup {NoPod}]
    /\ podFile \in Pods \cup {NoPod}
    /\ flock \in Requests \cup {NoReq}

=============================================================================
