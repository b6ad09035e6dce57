# Verification of the Speakr RunPod adapter

TLA+ models of the adapter that keeps one RunPod GPU pod warm for `/asr` requests, TLC runs
that check them on small instances, and TLAPS proofs for instances of any size. Paths are
relative to the repository (`src/`).

## 1. The system

| Part | State it keeps | Operations | What must hold |
|---|---|---|---|
| `/asr` handler, `adapter/app.py` | the request | spool, account, `ensure_ready`, forward, map exceptions to a status | every request received is answered and is counted down once |
| Idle release, `adapter/adapter/idle.py` | `_active_requests`, `_idle_stop_task` | `request_started`, `request_finished`, the timer task | never releases under a request; always releases a quiet pod |
| Pod manager, `adapter/adapter/runpod.py` | `_lock`, locals of the running `ensure_ready` | inspect, resume, replace, deploy with retry, wait until ready, release | one deploy at a time, no pod leaked or doubled, no lock kept |
| The wait for a pod, `_wait_until_ready` in it | `stuck_init_since`, `progress_prev`, the deadline | poll, compare, arm, fire, probe, redeploy | every stuck pod is replaced in time, and no other; the deadline holds |
| Pod record, `adapter/adapter/pod_state.py` | `_active_pod_id`, the shared file, the lock file | `load`, `store`, `clear`, `DeployLock` | the record names the pod that bills |
| RunPod client, `adapter/adapter/runpod_client.py`, `pod_mapping.py` | none | `get_pod`, `start_pod`, `stop_pod`, `terminate_pod`, `deploy_from_template` | errors are told apart |
| Forwarding, `adapter/adapter/proxy.py`, `result_transfer.py` | an open transfer | upload, chunked download with retry, clean-up | the result arrives whole, once |
| Pod wrapper, `runpod-image/wrapper.py` | finished results, bounded | create, read a chunk, delete, expire | bounds hold, chunks belong together |
| Log tee, `runpod-image/tee_process.py`, `supervisord.conf` | a child, two pipes, the log files | spawn, copy both streams, forward signals, exit; restart, stop, kill | output is whole and in order, nothing blocks, no child is left behind |
| Log drain, `adapter/adapter/pod_logs.py`, `cli_drain.py`, tails of `wrapper.py` | the drain under way | look up, fetch, split, cap, emit | a drain that succeeded has the end of every file |
| Log and header filters, `speakr_common/*.py` | none | | |

The handlers, the idle tasks and the pod manager share one asyncio event loop, so what can
interleave is exactly what is separated by an `await`. Several adapter processes can share
the record file and the lock file. RunPod acts on its own: it executes a mutation some time
after it was sent, possibly after the caller stopped waiting, boots pods, refuses deploys
and takes pods away.

Hard behaviours, each listed at its line under `hazards` in PROJECT.json: the idle task reads
the count once and then awaits two long calls; cancellation of a task is only delivered when
the loop next runs it; `_terminate` clears the record in a `finally`; `clear` trusts the memory
over the file; two processes deploy from the same file; the deadline covers the wait for a
lock; errors nobody catches; crashes with the file left behind; a timer that outlives what it was
measured on; two pipes drained by one process; files read while another process appends.

## 2. Modules

| Module | Models | Size of the idea |
|---|---|---|
| `ResultStore` | `_results` of `wrapper.py` | store, expire, read a slice, delete, restart |
| `ResultTransfer` | `forward_asr` of `proxy.py` and `result_transfer.py` against that store | one action per await of one request |
| `ResultProperties`, `MCResult` | properties and instances of the transfer and the store | |
| `ResultTransfer_proofs`, `ResultStore_proofs` | proofs about the transfer, and about the store alone | section 5 |
| `Config` | the settings of `config.py`, the deployment, the faults allowed | constants and assumptions |
| `PodState` | `pod_state.py` | `Load`, `Store`, `Clear`, the deploy lock |
| `RunPodCloud` | the client and RunPod | pod life cycle; a mutation is sent, takes effect, is answered |
| `IdleRelease` | `idle.py`, `release_idle_pod`, `_terminate` of the idle task | one action per await of the task |
| `RunPodManager` | `runpod.py` | one action per await of `ensure_ready` |
| `Adapter` | `app.py`, composition, crash | `Init`, `Next`, `Spec`, `FairSpec` |
| `IdleContract` | what the idle release promises, no tasks, no timers | abstract specification |
| `AdapterProperties` | the properties, and the refinement mapping to `IdleContract` | |
| `MCAdapter` | small instances | |
| `Readiness` | `_wait_until_ready` with its clock, for one request | one action per await, `Tick`, what RunPod does |
| `WaitContract` | what the wait promises when nobody looks at the clock | abstract specification |
| `ReadinessProperties`, `MCReadiness`, `Readiness_proofs` | properties and refinement mapping, instances, proofs | |
| `MockRunPod` | the pods of `scripts/mock_runpod_graphql.py` | part of the environment of `Readiness` |
| `PodPayload` | `pod_mapping.py` | operators over tagged JSON values |
| `PodReports`, `PodReports_proofs` | the answers of RunPod during a pod's life, their properties, proofs | environment of `PodPayload` |
| `TeeProcess` | `tee_process.py` under `supervisord.conf` | child, pipes, two coroutines, signals, restarts |
| `PodLogs` | the drain against the files `TeeProcess` writes | one action per await or file operation |
| `MCPodLogs`, `PodLogs_proofs` | small instance of both, proofs about both | |
| `AdapterSteps_proofs`, `Adapter_proofs`, `AdapterPods_proofs` | proofs, each on top of the one before | section 5 |

The adapter and the transfer of results are two specifications: the pod manager never looks
at a result, and a transfer sees of the pod only the wrapper. They meet in `forward_asr`,
which in `Adapter` is one action (`Forward`) and in `ResultTransfer` the whole story.

The wait for a pod is modelled twice. In `RunPodManager` it is composed with everything else
and has no clock: once armed the watchdog may fire, and the deadline may pass at any time.
`Readiness` has one request, the clock and the fingerprint. `WaitContract` ties them: it says
when the untimed model lets a pod be removed, redeployed and waited for, and `Readiness` is
shown to implement it. In the same way `PodPayload` backs the pod states of `RunPodCloud`:
`StoppedToldApart`, `MappedWhenReachable` and `FingerprintIsProgress` say that the answers tell
apart what these states stand for.

Each module EXTENDS the ones it builds on: `ResultTransfer` extends `ResultStore`; `Config` is extended by `PodState` and
`RunPodCloud`, both by `IdleRelease`, that by `RunPodManager`, that by `Adapter`.

### State and code

* `activePodId[a]`, `podFile`, `flock`: `ActivePodStore._active_pod_id`, the content of the
  file, the owner of the flock.
* `cloud[p]`: the pod at RunPod. `booting`, `mapped` and `ready` tell apart what
  `extract_tcp_mapping`, `pod_is_expected_running` and `wrapper_healthy_detail` see.
* `call[c]`: the one mutation a caller has outstanding. A caller is the handler of a request
  or the idle task that request started.
* `active[a]`, `current[a]`, `task[r]`: `_active_requests`, `_idle_stop_task`, and every
  task ever created, with its cancel mark.
* `req[r]`, `lock[a]`: the await a handler is suspended in with its locals, and the owner of
  `RunPodManager._lock`.

The pc of a handler names the await: `spooling` (the body), `lockwait` (`_lock`), `inspect`
(`get_pod`), `starting` (`podResume`), `terminating`, `flock` / `deploying` / `unflock` /
`backoff` (the deploy loop), `poll` (the readiness loop), `probe` (health), `forward`.

For the transfer:

* `results`: `_results`, with the time left of every entry. A result is named by its request,
  as `uuid4` makes ids different.
* `fetch[t]`: the await `forward_asr` or `fetch_result` is suspended in (`posted`,
  `fetching` before an attempt, `waiting` for a chunk, `cleaning`, `deleting`), the deadline,
  the manifest, offset, attempt and buffer.
* `job[t]`, `reply[t]`, `erasing`: the wrapper's handler of the POST, the answer on its way to
  the one open request, the DELETEs on their way to the wrapper.

For the wait (`Readiness`):

* `now`: the time of the event loop since the wait began. `pc`, `due`: the await the handler is
  suspended in, and when its sleep ends or its call times out. `Tick` stops at `due`.
* `since`, `prev`: `stuck_init_since` and `progress_prev`, also while a replacement is deployed.
* `pod`, `answer`: the pod at RunPod, and what `get_pod` was answered: RunPod may change the pod
  while the answer is on its way. `moved` is a history variable, the time of the last change the
  fingerprint shows.
* `Fires` and `Looks` are the two ends of a round, after which the handler removes the pod, probes
  the wrapper or goes on; `DeployFromTemplate` is the head of the deploy loop.

For the pod's processes:

* `tee`, `child`, `asked`, `stopping`, `orphans`: the process of `tee_process.py`, its child, the
  SIGTERM to it, the order to supervisord, and children whose tee died before them. `faults`:
  how many writes have failed and tees were killed.
* `pipe[s]`, `opened[s]`, `eof[s]`, `held`: the bytes on their way, the child's end, the end of
  `_tee_stream`, and the chunk between `console.buffer.write` and `log_file.write`. Bytes are
  numbered over all runs, so that a loss, a repetition or a swap shows.
* `drain`, `wrapper`, `content`, `sizes`: the await of `drain_cloud_pod_logs`, the file
  `internal_pod_logs` is at and the size it has read, its answer, and the sizes when it was asked.

### Abstractions

* A GraphQL query changes nothing at RunPod, so asking and deciding on the answer are one
  step. What a delayed answer could add is covered: a pod that is gone stays gone, and the
  other decisions are open to any later change of the pod, which follows as a step of its own.
* Clocks: the readiness deadline is a flag that may be raised at any time once
  `ensure_ready` has been entered, and every loop head tests it. The stuck-init watchdog is
  armed and fires by choice where the code could. Sleeps are suspensions of any length.
* `asyncio.Lock` is first-in first-out; here a waiting handler is chosen in any order, which
  allows more. The fast path of a free lock nobody waits for is kept: it has no suspension.
* Cancelling marks the task. It is delivered in a later step; until then the task does
  nothing else, which is what asyncio does with a task cancelled at an await.
* A GraphQL error is one of five classes the callers tell apart. It may come before or after
  the mutation took effect (`call_error`). A cancelled call normally has left the process;
  with `cancel_unsent` it may not have.
* The API key and the token are set, as `configured` requires them in both modes. Reading the
  record file fails only by its absence. Handlers are not cancelled by their clients.
* `forward_asr` is one step: the statuses it may end in depend on the pod being there.
* A caller has one outstanding mutation. When a mutation whose answer was lost is retried (`Send`),
  the new one takes its place: a lost one that has not reached RunPod by then never does. Runs about
  deployed pods have no lost answers (see the properties); locks, count and record are not about what
  RunPod runs.
* The thread that waits for the flock (`asyncio.to_thread`) and the handler it wakes are one step: the
  flock is taken at the moment its handler goes on. A handler is never cancelled in between.
* A probe may fail although the wrapper is up, so a request may wait for a pod that is ready.
* Time in the transfer: `Tick` lowers every timer at once (deadline, chunk time-out, time to
  live), so both processes' clocks run at the same rate. No clock grows, and none is bounded.
  An answer is taken only while its time-out has not fired. The two seconds of the clean-up
  are less than a tick: they may end at any time. Sleeps between attempts have any length.
* Bytes: byte i of a result is i, an altered byte is 0, and a digest is the sequence it was
  taken of; a damaged digest is that of no result. A manifest may carry a wrong length or
  digest, but the id it carries is right. A chunk may arrive with another status or offset,
  short, long or altered.
* Answers the adapter no longer waits for are dropped: a late GET only expires what any later
  access expires. The token is the same on both sides; an answer that denies access is a
  damaged one, and a DELETE that is denied (`RefuseDelete`) leaves the result in the store.
  `forward_asr` is not cancelled.
* In `Readiness` a call takes at most `CallTime`, a probe at most `ProbeTime`. httpx bounds each
  read and not the whole answer; RunPod's answers and the wrapper's are small. `now` is read when
  the answer is taken. There is one adapter: the deploy lock is free, and the record is empty when
  the deploy loop looks at it (`RunPodManager` has the other cases). A terminate that raises ends
  the request. Without a template the wait ends when the pod is gone; this case is covered by the
  proofs only.
* In `PodReports` each of the six lifecycle fields of `POD_FIELDS` is null at first and may be the
  next to change, one at a time, to a value it never had. An address RunPod has not filled in is null,
  a port is 0, and `isIpPublic` may be true, false or null. A JSON value carries its type, since the code asks for it; a port number in a string
  is `Digits`. `walk_dicts` and `_extract_public_ip` recurse over any value. Here they are written
  out to the depth of `POD_FIELDS`, the only shape the client asks for: pod, `runtime`, `ports`, entry
  (`Walk`, `WalkRuntime`, `WalkPorts`), and no `runtime` within `runtime`.
* A pipe and the buffer of the `StreamReader` are one queue, of `PipeSize` bytes. The child holds
  the only end of its pipes: no process it left behind keeps them open. The console takes what it
  is given. A short write to the unbuffered file is a choice of `LogsShort`, an error one of `Dies`.
* In `PodLogs` the token is set and right; a drain that fails does so for any reason at any await,
  and the answer nobody waits for any more is dropped, since the wrapper only reads. How a tail is
  decoded, split and capped is not modelled: it is a sequence of bytes.
* A request is sent once. `Pods` bounds the deploys of a run: afterwards RunPod refuses.

## 3. Runs

| Run | Instance | Question |
|---|---|---|
| `core` | 1 adapter, 2 requests, 3 pods; no capacity, pods lost; fair | are pods leaked or doubled, does the idle release keep its contract, is every request answered and every quiet pod released |
| `shared` | 2 adapters, 2 requests, 2 pods; call errors, unsent cancels, failing forwards, old images, file errors, crash | do locks, count and record survive every error path, do two processes deploy twice or overwrite the record |
| `fixed` | `RUNPOD_POD_ID` set, 2 requests, fair | is the fixed pod only stopped and resumed |
| `transfer` | one result of 3 chunks; loss, damage, restart, errors of WhisperX; fair | is what arrives whole, and does every transfer end |
| `store` | 3 requests, results of 1 to 3 bytes, room for two and four bytes, no faults | are the bounds kept, does a result outlive its transfer |
| `clock` | rounds of 1, calls of 1, probes of 2, threshold 2, deadline 12; 3 pods of RunPod and of the mock, 2 movements each; failing calls, lost pods | is a stuck pod replaced in time and no other, and does the wait end |
| `payload` | up to 2 of 36 port entries, both shapes, 2 changes among the 6 lifecycle fields, stop and resume | is the right entry found, and every change seen |
| `pod` | streams of 1 and 2 bytes, pipes of 2, 2 runs, 1 fault, stop at any time, drains with tails of 1 byte; fair | is output whole, in order and unblocked, is a death noticed, does a stop reach the child, does a drain have the end of the files |
| `v_released` | 1 adapter, 2 requests, 2 pods; cancels may be unsent; fair | finding 1 |
| `v_capacity` | no capacity | finding 2 |
| `v_clear` | 2 adapters, no faults | finding 3 |
| `v_public` | 1 port entry | finding 4 |

Bounds. With two requests, one can leave a timer behind while the other starts, finishes and sets its
own, or wait for `_lock` while the other deploys; the third deploy needs a replaced replacement.
What a third request could add (a timer, a holder of the lock and one that waits for it, all at once)
is covered by the proofs: every safety property of `core` and of `shared` is a theorem for any number
of requests (section 5), and only `EveryRequestAnswered` and `PodsReleased` rest on two. Two adapters
with one request each meet in the record file and in the deploy lock; their two pods are one each, and
a refused deploy takes the place of a third. Waiting for `_lock` while another handler fails takes a
second request at one adapter: `core` has it without call errors, and the proof of `LockCorrect`
with every fault. Symmetry is used on pods only, and only in `shared`, which has no liveness property.

In `transfer` the last of three chunks is partial, and a manifest may name one byte more or
fewer, which moves the last chunk across each of its borders; three ticks of deadline and two of
chunk time-out let each of the three attempts end by either. In `store` the third result meets
a store full by count, by bytes, by expired entries, and empty; the time-out equals the time to
live, the tightest case the assumption of `NotExpiredInTransfer` allows.

In `clock` the threshold is one round, so that an answer can come on it, before it and after it,
and the deadline leaves time for a second pod to be watched, replaced and followed by a third.
Two port entries are the fewest of which the first can mislead; two changes let any field change from
null and from a value, and any two fields one after the other: a fingerprint that left out any one
of its fields would be noticed. In `pod` a stream can fill its pipe, so that the child blocks, and what the two
runs write meets in the files; the one fault, a failed write or a killed tee, may come at any point
of either run. A tail of one byte makes every file of two bytes longer than its tail.

Deadlock is checked, save in `pod`, where all bytes may be written, all runs used up and the
program stopped: that what should happen does happen is left to liveness there. In `Readiness` the
end of the wait is a step of its own (`Finished`). In the transfer time can always pass, so it says
nothing there and `TransferEnds` takes its place; in the adapter a state with nothing to do must be
one where every request is answered and every task over (`AllServed`).

Fairness (`FairSpec`): weak fairness of each handler, each idle task, each deadline and each
mutation. The event loop runs what is ready, timers expire, RunPod answers or the client
raises. No fairness is given to clients, to the boot of a pod, or to any fault. Weak
fairness is enough for the lock because in a bounded run it is only taken finitely often.
The transfer assumes that time passes, that timers which have run out fire, and that the event
loop goes on; nothing is asked of WhisperX, the wrapper or the network, and no fault must occur.
`TeeFairness`: the event loop of the tee copies what there is, supervisord starts what has ended,
and a child that was asked to end ends; a child need not write, close or end by itself, nor supervisord stop or kill.

### Properties

* Locks: `LockHeld`, `DeployLockHeld`. Accounting: `CountMatches`.
* Idle release: `QuietRelease`, `OneReleaseTask`, `ContractKept` (refinement of
  `IdleContract`, through `serving`, the requests in flight, and `releasing`, whether a task
  that was not revoked is past its look at the count).
* Record: `DeployOnlyWhenUntracked`, `NeverOverwritten`, `ForgottenOnlyWhenGone`.
* Pods: `NoOrphan`, `OneWarmPod`, `FixedPodOnlyStopped`.
* Liveness: `EveryRequestAnswered`, `PodsReleased`.
* The wait: `ReplacedOnlyWhenFrozen` (the timer never counts another pod's time, or the time before
  a movement), `StuckPodReplaced` (nor is it put off), `AnsweredInTime`, `WaitContractKept`.
* Answers: `MappedToWrapper`, `MappedWhenReachable`, `StoppedToldApart`, `FingerprintIsProgress`;
  `MappedToPublic` is checked in `v_public` only.
* Tee: `NothingLost`, `Alone`, `LogBehindConsole`, `NeverBlockedForGood`, `DeathNoticed`,
  `StopEndsChild`. Drain: `DrainedTail`.
* Transfer: `ChunksInOrder` (no retry leaves a part of a chunk behind), `DeliveredWhole`,
  `CleanedIsGone`, `HandleDeleted`, `FailsOnlyForTime`, `TransferEnds`. Store: `StoreBounded`, `RefusedOnlyWhenFull`, and
  `NotExpiredInTransfer`, which ties the wrapper's expiry to the adapter's deadline: it needs
  `RUNPOD_REQUEST_TIMEOUT_SECONDS` (1800 by default, and configurable) to be at most
  `RESULT_TTL_SECONDS` (3600, fixed).

`NoOrphan`, `OneWarmPod`, `ForgottenOnlyWhenGone` and `PodsReleased` are checked without the
faults the code cannot survive: an answer to a deploy that gets lost leaves a pod nobody can
name, and the first finding shows what an unsent cancelled call does. `ForgottenOnlyWhenGone`
holds for one adapter and fails for two (finding 3).

## 4. Findings

1. `v_released`: a request that arrives while the idle task is in its terminate call cancels
   it. If the call had not left the process, the `finally` of `_terminate` has still cleared
   the record: the request is served, finishes, and its own timer finds no active pod. The
   pod bills for ever. `docs/setup.md` promises release after inactivity.
2. `v_capacity`: without a machine the answer is 504 after the readiness deadline, and not the
   503 with `Retry-After` of `docs/decisions/0001-architecture.md` and `README.md`: the deploy
   loop catches the refusal.
3. `v_clear`: `clear(p)` compares `p` with the memory only. An adapter whose memory is empty
   removes the file even when it names another adapter's running pod.
4. `v_public`: a port entry whose `isIpPublic` is null is taken (`adapter/adapter/pod_mapping.py:142`
   asks only whether it is false), and an entry after it that is marked true is never tried.
   `docs/runpod-graphql-api.md` has `isIpPublic` be checked before the address is used, and only
   entries where it is true reachable. `Reachable` is what the document says, `MappedToPublic` its
   claim; `MappedToWrapper` is what the code keeps: beside these entries it takes none but those of
   the wrapper's port without a mark.

Three more observations come from reading, and no run is about them:

* An httpx error the handler does not name (`adapter/app.py:50`), such as a read error during the
  transfer, is answered with 500 by an adapter whose settings are complete; `README.md:78` has 500
  stand for missing settings.
* Adapters that share the record file share the pod, but each counts its own requests
  (`adapter/adapter/idle.py:66`): the timer of one releases the pod while another uses it.
* A tail is cut by the size the file had before it was opened and read to the end it has then
  (`runpod-image/wrapper.py:180`): what the tee appends in between comes on top of the bound. A line
  cut within a character gets U+FFFD in its place (`adapter/adapter/pod_logs.py:56`), so a record can
  be two bytes over its cap.

## 5. Proofs

The theorems about the adapter hold for any sets of adapters, requests (finite) and pods, any settings and any
subset of the faults. They rest on `ConfigAssumption` and `RequestsFinite` (module `Config`),
both evaluated by every run of the adapter.

| Theorem (`Adapter_proofs`) | States |
|---|---|
| `TypeCorrect` | `Spec => []TypeOK` |
| `LockCorrect`, `DeployLockCorrect` | the two lock invariants |
| `CountCorrect` | `_active_requests` counts the requests being served |
| `OneTask`, `ReleaseQuiet` | the idle invariants |
| `DeployUntracked`, `RecordNotOverwritten` | the record, for any number of adapters |
| `Implements` | `Spec => ContractKept`, the refinement |

The argument. `Advance(r, S)` says a handler that holds `_lock` either is suspended again at
a pc in `S` or has answered; one lemma per action establishes it
(`AdapterSteps_proofs`), with the types. `StepKinds` then sorts all steps by what they mean
for the locks, the count and the tasks, and each invariant is proved from that. The inductive
invariant `IInv` adds to the properties what they need:

* `Typed`: types, with an integer count. That it is not negative follows from `CountMatches`,
  and that from how sets of requests grow and shrink by one (`FlightSets`).
* `QuietRelease` is not inductive alone. When a request starts, `cancel` reaches the current
  task only: that no other task can act is `OneReleaseTask` (`Owned`). When a task wakes, the
  count it reads must be the requests there are: `CountMatches`. `Local` (an adapter refers to
  a task of its own) is needed for the refinement, so that other adapters are left alone.
* `DeployOnlyWhenUntracked` needs `DeployLockHeld`: the handler that could store a pod while
  another deploys would have to hold the lock too. `NeverOverwritten` follows, with `Pinned`:
  after a crash the memory is the configured pod, which it was already.

| Theorem (`ResultTransfer_proofs`) | States |
|---|---|
| `ResultTypeCorrect` | `Spec => []ResultTypeOK` |
| `ChunksCorrect`, `WholeResult` | the buffer, and what is delivered |
| `ResultOutlives` | a result does not expire under its transfer |
| `CleanedCorrect` | a deletion the adapter has seen is final |

They hold for any number of requests, results of any length, any chunk size, bounds and
time-outs, and any faults, from `StoreAssumption` and `TransferAssumption`. The invariant
`IInv` is `Good(t)` for every request: what an answer on its way can be (`Listening`,
`Answered`, `Served`, `Erased`), what the buffer holds (`Buffered`, `Blank`, `Whole`), and how
the entry in the store relates to both (`Handled`, `Deleting`, `Gone`, `Outlives`).
`WholeResult` needs `Served`: the bytes after the offset are each at their place or altered, so
that the buffer has the right length and only the right digest lets it pass. `ResultOutlives`
needs that an accepted manifest has been given the full time to live when the deadline was
already running, and that both run down together. Each step changes one request and keeps the
others' entries until they expire (`Keeps`, `OthersGood`, `StepGood`).

| Theorem (`Readiness_proofs`) | States |
|---|---|
| `TypeCorrect` | `Spec => []ReadinessTypeOK` |
| `InTime` | the wait ends within a round of its deadline |
| `StuckInTime` | a stuck pod is replaced in time |
| `OnlyFrozen` | no other pod is replaced |
| `WaitImplements` | `Spec => WaitContractKept`, the refinement |

They hold for all intervals, time-outs and thresholds, with and without a template, any number of
pods and movements, and a RunPod that answers or fails, from `ReadinessAssumption`. The invariant:

* `Ordered`, `SameState`: the handler knows the pod at three times (the last look, the answer under
  way, now), and their fingerprints are ordered; answers with the same fingerprint are of one
  state. A fingerprint never comes back, as the changes are counted.
* `Timing`: when the timer runs, all that has moved since shows in the fingerprint: `OnlyFrozen`.
* `Window`: how far every await may reach beyond the deadline: `InTime`.
* `Watching`: for a stuck pod, either the timer runs for its state and is at most a round late, or
  the last answer missed its last movement and the next will not: `StuckInTime`.

For the other two theorems of this module the invariant grows. `HandleAlwaysDeleted` needs `Asked`:
no manifest before one is accepted, and no way out of the clean-up without a DELETE. It holds under
any faults. `GivenUpForTime` needs, without faults, `Exact`: manifest and buffer are those of the
result itself, and a chunk on its way is the one that was asked for, at its offset and of the
length `Expected`. It assumes `Timeout <= Ttl`, as `ResultOutlives` does in its property: otherwise
the wrapper may expire the result first. The code's defaults, 1800 seconds
(`adapter/adapter/config.py:70`) and 3600 (`runpod-image/wrapper.py:44`), satisfy it.

| Theorem (`AdapterPods_proofs`) | States | Under |
|---|---|---|
| `PodsKnown` | `Spec => []PodsInv` | `Survivable` |
| `NoPodOrphaned` | no pod bills that nobody knows of | `Survivable` |
| `OnePodWarm` | at most one pod that is not being terminated | `Survivable`, `OneAdapter` |
| `ForgottenGone` | the file forgets only pods that are gone or told to terminate | `Survivable`, `OneAdapter` |
| `FixedOnlyStopped` | a configured pod is only stopped and resumed | an idle action other than `terminate` |

`Survivable` excludes three faults: the answer to a mutation that took effect is lost
(`call_error`), a cancelled call never leaves the process (`cancel_unsent`), and a crash. The first
and the last can leave a pod whose id no one has ever recorded, and finding 1 is the second; refused
deploys, pods that RunPod takes away, failing forwards, failing files and old images remain.
`OneAdapter` is how the adapter is deployed by `docker-compose.mock.yml`; with two,
`ForgottenOnlyWhenGone` is false (finding 3). All but `FixedOnlyStopped` also assume that there is
an adapter at all. `FixedOnlyStopped` holds under every fault: it does not go through `PodsInv`.

None of these properties is inductive. `PodsInv` adds to `IInv` what a handler knows: by the await it
is suspended in, which call it has outstanding and for which pod (`Handled`), the same for an idle
task (`Timed`), what an answer says of its pod (`Acted`: after a terminate was answered the pod is
gone), and that the record names only pods RunPod has created (`RecordBorn`). `Tracked` is `NoOrphan`
by memory alone, because the file may be emptied while another adapter still remembers the pod.
The step that matters is the answer to a deploy: until it is taken the new pod is known only by
that call, and the step that takes it stores the pod. For one adapter `FileRemembered` adds that
it remembers the pod its file names, unless that pod may be forgotten.

| Theorem (`ResultStore_proofs`) | States |
|---|---|
| `StoreWithinBounds` | `Spec => []StoreBounded` |
| `RefusedForRoom` | a result is refused only for what is alive in the store |

For any bounds, lengths and requests, from `StoreAssumption` and `TransferAssumption`. `StoreInv` says
that the stored set is finite and within its bounds. The sum of the lengths is a fold, and folds are
defined by recursion over sets; induction over data is not available, so `SumsAgree` and `SumExists`
take a least set for which the claim fails (`Smallest`, from well-foundedness of the strict subset
relation). They give `BytesOne`, `BytesAdd`, `BytesRemove` and `BytesMonotone`: what is stored adds its
length, and what is deleted or expires makes no sum larger.

| Theorem (`PodLogs_proofs`) | States |
|---|---|
| `LogFollowsConsole` | a file has what the console showed, in order and once |
| `ChildAlone` | children are left behind only by failed writes and killed tees |
| `NothingIsLost` | what a child wrote is out when its tee ends |
| `DrainShowsTail` | a drain has the end every file had when it asked |

For any number of streams, sizes of pipes, chunks and tails, runs and faults, from `LogsAssumption`
(streams are numbered in the order of their file names, the order the wrapper lists them in). `TeeInv`
follows the bytes of a stream from the child to the file: the pipe has the last bytes written
(`Piped`), the console all that left the pipe in this run (`Shown`), the chunk in hand comes after
the file and both follow the console (`Kept`), and without a fault nothing is missing
between them (`Lossless`). `Quiet` says that a tee that is down holds nothing. `DrainInv` relates
the drain to files that only grow: the size taken lies between the size when the drain asked and now.

| Theorem (`PodReports_proofs`) | States |
|---|---|
| `OnlyTheWrapper` | `Spec => []MappedToWrapper`: nothing private, of another port, or mixed from two entries |
| `PublicWhereMarked` | `MappedToPublic` whenever every entry is marked true or false |
| `WrapperFound` | `Spec => []MappedWhenReachable` |
| `StoppedIsStopped` | `Spec => []StoppedToldApart` |
| `ProgressShows` | `Spec => FingerprintIsProgress` |

For any number of entries, in any order, and of changes. The inductive invariant is short
(`ReportInv`: ports come in one of the two shapes, a stopped pod has none); the work is in the
operators. `AnswerFinds`: `walk_dicts` finds exactly the objects of the answer (`SetOfFlat` for the
concatenations). `AnswerFields`, `ItemFields`: what each key gives. `MinIsLeast` and `FirstMappingIs`:
a search takes the first hit and finds one if there is one. `RuntimeMapping` and `RestMapping` then say
what each shape maps to, `OtherObjects` that nothing else in the answer looks like a port, and
`MappingTaken` that `extract_tcp_mapping` takes what one object says. `ProgressShows` needs
`FingerprintIs` and that a field with another count has another stamp (`ChangeShows`).

Only model-checked: liveness (`EveryRequestAnswered`, `PodsReleased`, `TransferEnds`,
`NeverBlockedForGood`, `DeathNoticed`, `StopEndsChild`), as fairness is out of the prover's reach, and
with it absence of deadlock. Every other property of a passing run is stated by a theorem.
`ResultTypeOK`, `ReadinessTypeOK` and `PodsInv` are proved and in no run.

## 6. Not modelled, and the plan

Next, in this order:

1. `Forward` of the adapter with the phases of `ResultTransfer`, so that a pod taken away during
   a transfer, an idle release and a restarted wrapper meet in one model.
2. The transfer against an abstract store that keeps a result until it is deleted or its time is
   over, as a refinement like those of `IdleContract` and `WaitContract`.
3. For two adapters, what remains of `OneWarmPod`: how many pods can be kept beside the recorded one.

Left out: parsing of environment variables (`config.py`, beyond the two derived settings), header
and log filters, which are functions of one string each and keep no state; the token checks and
`/health` of the wrapper; the decoding, splitting and capping of log lines; the other operations of the mock RunPod
API, which is a test double, the smoke script, images and workflows. A process that a program of
the pod leaves behind with its pipes open is not modelled: the programs start none.
