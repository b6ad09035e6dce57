--------------------------- MODULE ResultTransfer ---------------------------
(***************************************************************************)
(* One request's way through forward_asr (adapter/adapter/proxy.py) and    *)
(* fetch_result (adapter/adapter/result_transfer.py), one action per       *)
(* await, against the wrapper's store.  Time passes in ticks; the clock is *)
(* kept as the time left until the deadline, until the time-out of the     *)
(* chunk in flight, and until a result expires.                            *)
(***************************************************************************)
EXTENDS ResultStore

CONSTANTS
    Timeout,        \* RUNPOD_REQUEST_TIMEOUT_SECONDS, in ticks
    ChunkTimeout,   \* the 15 s a chunk may take, in ticks
    TransferFaults  \* what may go wrong in this instance

\* loss: connections break and requests vanish.  damage: an answer is not
\* the one that was sent.  restart: the wrapper process dies and supervisord
\* starts it again, which breaks its connections.  upstream: WhisperX answers
\* with an error.
ASSUME TransferAssumption ==
    /\ {Timeout, ChunkTimeout} \subseteq Nat \ {0}
    /\ TransferFaults \subseteq {"loss", "damage", "restart", "upstream"}

\* Connections may break before their time-out.
Breaks == TransferFaults \cap {"loss", "restart"} # {}

VARIABLES
    fetch,    \* fetch[t]: forward_asr and fetch_result of request t
    job,      \* job[t]: the wrapper's handler of the POST of t
    reply,    \* reply[t]: answer on its way to the one open request of t
    erasing   \* the transfers whose DELETE is on its way to the wrapper

vars == <<results, fetch, job, reply, erasing>>

\* posted: waits for the answer to POST /asr and reads the manifest.
\* fetching: about to ask for the chunk at offset.  waiting: GET sent.
\* cleaning: about to send DELETE.  deleting: DELETE sent.
Phases == {"idle", "posted", "fetching", "waiting", "cleaning", "deleting",
           "done"}

Fetches ==
    [st : Phases, left : 0..Timeout, wait : 0..ChunkTimeout,
     length : Nat, digest : Seq(Nat),                 \* the manifest
     offset : Nat, attempt : Nat, body : Seq(Nat),    \* loop and buffer
     verified : BOOLEAN,                              \* body is returned
     deletes : 0..2, cleaned : BOOLEAN]

NoFetch ==
    [st |-> "idle", left |-> 0, wait |-> 0, length |-> 0, digest |-> << >>,
     offset |-> 0, attempt |-> 0, body |-> << >>, verified |-> FALSE,
     deletes |-> 0, cleaned |-> FALSE]

Init ==
    /\ StoreInit
    /\ fetch = [t \in Transfers |-> NoFetch]
    /\ job = [t \in Transfers |-> "none"]
    /\ reply = [t \in Transfers |-> NoReply]
    /\ erasing = {}

-----------------------------------------------------------------------------
\* The network.

DamagedManifests(r) ==
    [status : {"other", "denied"}, n : {0}, data : {<< >>}]
      \cup {[r EXCEPT !.n = k] : k \in 0..MaxResult + 1}
      \cup {[r EXCEPT !.data = << >>]}

\* Another status or offset, and a body that is short, long or altered.
DamagedChunks(r) ==
    [status : {"other", "denied"}, n : {0}, data : {<< >>}]
      \cup {[r EXCEPT !.n = @ + 1]}
      \cup {[r EXCEPT !.data = d] :
              d \in {<< >>, Append(r.data, 0), [i \in DOMAIN r.data |-> 0]}}

Received(r, damaged) ==
    {r} \cup (IF "damage" \in TransferFaults THEN damaged ELSE {})

Set(t, f) == fetch' = [fetch EXCEPT ![t] = f]

HangUp(t) == reply' = [reply EXCEPT ![t] = NoReply]

-----------------------------------------------------------------------------
\* forward_asr: the POST and its manifest.

\* The request fails, or its result has been handed to the caller.
Ended(f) == [f EXCEPT !.st = "done", !.left = 0, !.wait = 0]

Post(t) ==
    /\ fetch[t].st = "idle"
    /\ Set(t, [NoFetch EXCEPT !.st = "posted", !.left = Timeout])
    /\ job' = [job EXCEPT ![t] = "working"]
    /\ UNCHANGED <<results, reply, erasing>>

\* read_manifest accepts it.
ManifestValid(r) == r.status = "accepted" /\ r.n \in 1..MaxResult

\* Mutant: the deadline is counted from the manifest.
AcceptFresh(f, r) ==
    [f EXCEPT !.st = "fetching", !.length = r.n, !.digest = r.data,
              !.attempt = 1, !.left = Timeout]

\* The deadline was fixed before the POST.
Accept(f, r) ==
    [f EXCEPT !.st = "fetching", !.length = r.n, !.digest = r.data,
              !.attempt = 1]

\* An answer that is no valid manifest fails the request at once, and a
\* result the wrapper may have stored for it is left to expire.
TakeManifest(t) ==
    /\ fetch[t].st = "posted"
    /\ reply[t] # NoReply
    /\ \E r \in Received(reply[t], DamagedManifests(reply[t])) :
          Set(t, IF ManifestValid(r)
                 THEN Accept(fetch[t], r) ELSE Ended(fetch[t]))
    /\ HangUp(t)
    /\ UNCHANGED <<results, job, erasing>>

\* The POST raises.  The read time-out of httpx counts from the end of the
\* upload, so it cannot fire before the deadline of the transfer; a
\* connection can break at any time, before or after the wrapper has read
\* the request.
PostFails(t) ==
    /\ fetch[t].st = "posted"
    /\ Breaks \/ fetch[t].left = 0
    /\ Set(t, Ended(fetch[t]))
    /\ HangUp(t)
    /\ \/ UNCHANGED job
       \/ Breaks /\ job' = [job EXCEPT ![t] = "over"]
    /\ UNCHANGED <<results, erasing>>

-----------------------------------------------------------------------------
\* The wrapper's handler of the POST: WhisperX has answered.  It runs on
\* when the adapter has hung up.
Transcribed(t) ==
    /\ job[t] = "working"
    /\ job' = [job EXCEPT ![t] = "over"]
    /\ \/ /\ StoreResult(t)
          /\ reply' = IF fetch[t].st = "posted"
                      THEN [reply EXCEPT ![t] = StoreReply(t)] ELSE reply
       \/ /\ "upstream" \in TransferFaults
          /\ reply' = IF fetch[t].st = "posted"
                      THEN [reply EXCEPT ![t] = Reply("other")] ELSE reply
          /\ UNCHANGED results
    /\ UNCHANGED <<fetch, erasing>>

-----------------------------------------------------------------------------
\* fetch_result: one chunk at a time.

\* TemporaryRunPodError, which the finally clause lets pass.
Failed(f) == [f EXCEPT !.st = "cleaning", !.left = 0, !.wait = 0]

\* Mutant: every chunk is taken to be a full one.
ExpectFullChunk(f) == ChunkSize

Expected(f) ==
    IF f.length - f.offset < ChunkSize THEN f.length - f.offset ELSE ChunkSize

\* Mutant: the deadline is tested outside the try statement.
RequestUnguarded(t) ==
    /\ fetch[t].st = "fetching"
    /\ Set(t, IF fetch[t].left = 0 THEN Ended(fetch[t])
              ELSE [fetch[t] EXCEPT !.st = "waiting", !.wait = 1])
    /\ UNCHANGED <<results, job, reply, erasing>>

\* An attempt begins, unless the deadline has passed.
RequestChunk(t) ==
    /\ fetch[t].st = "fetching"
    /\ IF fetch[t].left = 0
       THEN Set(t, Failed(fetch[t]))
       ELSE Set(t, [fetch[t] EXCEPT
                      !.st = "waiting",
                      !.wait = IF fetch[t].left < ChunkTimeout
                               THEN fetch[t].left ELSE ChunkTimeout])
    /\ UNCHANGED <<results, job, reply, erasing>>

\* The wrapper answers it.
ServeChunk(t) ==
    /\ fetch[t].st = "waiting"
    /\ reply[t] = NoReply
    /\ reply' = [reply EXCEPT ![t] =
                    ResultChunk(t, fetch[t].offset, Expected(fetch[t]))]
    /\ GetResult
    /\ UNCHANGED <<fetch, job, erasing>>

\* Mutant: what came of a short chunk stays in the buffer.
RetryKeeping(f, data) ==
    IF f.attempt = 3 THEN Failed(f)
    ELSE [f EXCEPT !.st = "fetching", !.wait = 0, !.attempt = @ + 1,
                   !.body = @ \o data]

\* Three attempts for each chunk; data is what the attempt received.
Retry(f, data) ==
    IF f.attempt = 3 THEN Failed(f)
    ELSE [f EXCEPT !.st = "fetching", !.wait = 0, !.attempt = @ + 1]

\* Mutant: the digest is not compared.
VerifyNothing(f) == TRUE

Verified(f) == f.body = f.digest

\* The chunk extends the buffer; after the last one the digest is compared.
Extend(f, data) ==
    LET g == [f EXCEPT !.body = @ \o data, !.offset = @ + ChunkSize,
                       !.attempt = 1, !.wait = 0, !.st = "fetching"]
    IN  IF g.offset < g.length THEN g
        ELSE [Failed(g) EXCEPT !.verified = Verified(g)]

TakeChunk(t) ==
    /\ fetch[t].st = "waiting"
    /\ fetch[t].wait > 0
    /\ reply[t] # NoReply
    /\ LET f == fetch[t] IN
       \E r \in Received(reply[t], DamagedChunks(reply[t])) :
          Set(t, IF r.status \in {"notfound", "denied"} THEN Failed(f)
                 ELSE IF /\ r.status = "chunk"
                         /\ r.n = f.offset
                         /\ Len(r.data) = Expected(f)
                 THEN Extend(f, r.data) ELSE Retry(f, r.data))
    /\ HangUp(t)
    /\ UNCHANGED <<results, job, erasing>>

\* The attempt times out or its connection breaks.
ChunkFails(t) ==
    /\ fetch[t].st = "waiting"
    /\ Breaks \/ fetch[t].wait = 0
    /\ Set(t, Retry(fetch[t], << >>))
    /\ HangUp(t)
    /\ UNCHANGED <<results, job, erasing>>

-----------------------------------------------------------------------------
\* The finally clause: at most two DELETEs, and two seconds for all of it.

RequestDelete(t) ==
    /\ fetch[t].st = "cleaning"
    /\ Set(t, [fetch[t] EXCEPT !.st = "deleting", !.deletes = @ + 1])
    /\ erasing' = erasing \cup {t}
    /\ UNCHANGED <<results, job, reply>>

\* The wrapper serves a DELETE, be there anyone to hear the answer or not.
ServeDelete(t) ==
    /\ t \in erasing
    /\ erasing' = erasing \ {t}
    /\ DeleteResult(t)
    /\ reply' = IF fetch[t].st = "deleting"
                THEN [reply EXCEPT ![t] = Reply("gone")] ELSE reply
    /\ UNCHANGED <<fetch, job>>

\* A DELETE that reaches the wrapper without a valid token is refused.
RefuseDelete(t) ==
    /\ "damage" \in TransferFaults
    /\ t \in erasing
    /\ erasing' = erasing \ {t}
    /\ reply' = IF fetch[t].st = "deleting"
                THEN [reply EXCEPT ![t] = Reply("denied")] ELSE reply
    /\ UNCHANGED <<results, fetch, job>>

LoseDelete(t) ==
    /\ Breaks
    /\ t \in erasing
    /\ erasing' = erasing \ {t}
    /\ UNCHANGED <<results, fetch, job, reply>>

\* One more try after any other status, a broken connection included.
TryDeleteAgain(f) ==
    IF f.deletes < 2 THEN [f EXCEPT !.st = "cleaning"] ELSE Ended(f)

\* Mutant: any status counts as success.
CleanedBy(status) == TRUE

Cleaned(status) == status \in {"gone", "notfound"}

TakeDelete(t) ==
    /\ fetch[t].st = "deleting"
    /\ reply[t] # NoReply
    /\ \E r \in Received(reply[t], DamagedChunks(reply[t])) :
          Set(t, IF Cleaned(r.status)
                 THEN [Ended(fetch[t]) EXCEPT !.cleaned = TRUE]
                 ELSE IF r.status = "denied" THEN Ended(fetch[t])
                 ELSE TryDeleteAgain(fetch[t]))
    /\ HangUp(t)
    /\ UNCHANGED <<results, job, erasing>>

DeleteFails(t) ==
    /\ Breaks
    /\ fetch[t].st = "deleting"
    /\ Set(t, TryDeleteAgain(fetch[t]))
    /\ HangUp(t)
    /\ UNCHANGED <<results, job, erasing>>

\* Mutant: only the pause between two tries is timed.
PauseTimesOut(t) ==
    /\ fetch[t].st = "cleaning"
    /\ fetch[t].deletes > 0
    /\ Set(t, Ended(fetch[t]))
    /\ HangUp(t)
    /\ UNCHANGED <<results, job, erasing>>

\* The two seconds are over; they are less than a tick.
CleanupTimesOut(t) ==
    /\ fetch[t].st \in {"cleaning", "deleting"}
    /\ fetch[t].deletes > 0
    /\ Set(t, Ended(fetch[t]))
    /\ HangUp(t)
    /\ UNCHANGED <<results, job, erasing>>

-----------------------------------------------------------------------------
\* A restart empties the store and ends the handlers.
Restart ==
    /\ "restart" \in TransferFaults
    /\ RestartStore
    /\ job' = [t \in Transfers |-> IF job[t] = "working" THEN "over" ELSE job[t]]
    /\ UNCHANGED <<fetch, reply, erasing>>

Tick ==
    /\ StoreTick
    /\ fetch' = [t \in Transfers |->
                    [fetch[t] EXCEPT !.left = Countdown(@), !.wait = Countdown(@)]]
    /\ UNCHANGED <<job, reply, erasing>>

Step(t) ==
    \/ Post(t) \/ TakeManifest(t) \/ PostFails(t) \/ Transcribed(t)
    \/ RequestChunk(t) \/ ServeChunk(t) \/ TakeChunk(t) \/ ChunkFails(t)
    \/ RequestDelete(t) \/ ServeDelete(t) \/ RefuseDelete(t) \/ LoseDelete(t)
    \/ TakeDelete(t) \/ DeleteFails(t) \/ CleanupTimesOut(t)

Next == Restart \/ Tick \/ \E t \in Transfers : Step(t)

Spec == Init /\ [][Next]_vars

\* Time passes, the event loop runs what is ready and its timers fire.
\* Nothing is asked of WhisperX, the wrapper or the network.
FairSpec ==
    /\ Spec
    /\ WF_vars(Tick)
    /\ \A t \in Transfers :
          /\ WF_vars(fetch[t].left = 0 /\ PostFails(t))
          /\ WF_vars(RequestChunk(t))
          /\ WF_vars(fetch[t].wait = 0 /\ ChunkFails(t))
          /\ WF_vars(RequestDelete(t))
          /\ WF_vars(CleanupTimesOut(t))

=============================================================================
