---------------------------- MODULE ResultStore -----------------------------
(***************************************************************************)
(* The store of finished results in runpod-image/wrapper.py.  A result is  *)
(* named by the transfer whose POST produced it, as uuid4 makes every id   *)
(* different.  Byte i of a result is written i, and Size gives its length; *)
(* an altered byte is 0.  No body of the code below holds an await inside  *)
(* _results_lock, so every operation is one step.                          *)
(*                                                                         *)
(* An entry holds the time left until it expires instead of the time of    *)
(* expiry, so `expires <= now' reads results[t] = 0.                       *)
(***************************************************************************)
EXTENDS Integers, Sequences, FiniteSets, FiniteSetsExt

CONSTANTS
    Transfers,    \* the requests whose results are transferred
    Size,         \* Size[t]: length of the result WhisperX produces for t
    ChunkSize,    \* CHUNK_SIZE
    MaxResult,    \* MAX_RESULT_BYTES
    MaxResults,   \* MAX_CACHED_RESULTS
    MaxBytes,     \* MAX_CACHED_BYTES
    Ttl           \* RESULT_TTL_SECONDS, in ticks

ASSUME StoreAssumption ==
    /\ Size \in [Transfers -> Nat]
    /\ {ChunkSize, MaxResult, MaxResults, MaxBytes, Ttl} \subseteq Nat \ {0}

VARIABLE results   \* _results: expiry of every stored result

Original(t) == [i \in 1..Size[t] |-> i]

Countdown(n) == IF n > 0 THEN n - 1 ELSE 0

-----------------------------------------------------------------------------
\* What a server answers.  n is the length in a manifest and the
\* X-ASR-Chunk-Offset of a chunk, data the bytes of a chunk or those the
\* digest of a manifest was taken of: sha256 tells all bodies apart.
Statuses == {"none", "accepted", "chunk", "gone", "full", "notfound",
             "denied", "other"}

Replies == [status : Statuses, n : Nat, data : Seq(Nat)]

Reply(status) == [status |-> status, n |-> 0, data |-> << >>]

NoReply == Reply("none")

-----------------------------------------------------------------------------
StoreInit == results = << >>

Fresh == {t \in DOMAIN results : results[t] > 0}

\* Mutant: entries are kept beyond their time.
ExpireNothing == results

\* _expire_results.
ExpireResults == [t \in Fresh |-> results[t]]

Bytes(S) == MapThenSumSet(LAMBDA t : Size[t], S)

\* Mutant: the body to be stored is not counted.
RoomForSome(t, kept) ==
    Cardinality(DOMAIN kept) < MaxResults /\ Bytes(DOMAIN kept) <= MaxBytes

RoomFor(t, kept) ==
    /\ Cardinality(DOMAIN kept) < MaxResults
    /\ Bytes(DOMAIN kept) + Size[t] <= MaxBytes

Storable(t) == Size[t] \in 1..MaxResult

Manifest(t) == [status |-> "accepted", n |-> Size[t], data |-> Original(t)]

\* _store_result: the entry and the manifest, or status 503.
StoreResult(t) ==
    LET kept == ExpireResults IN
    IF Storable(t) /\ RoomFor(t, kept)
    THEN results' = [u \in DOMAIN kept \cup {t} |->
                        IF u = t THEN Ttl ELSE kept[u]]
    ELSE results' = IF Storable(t) THEN kept ELSE results

StoreReply(t) ==
    IF Storable(t) /\ RoomFor(t, ExpireResults)
    THEN Manifest(t) ELSE Reply("full")

\* _get_result.
GetResult == results' = ExpireResults

\* result_chunk: the slice body[offset:offset + limit] of an unexpired
\* result, status 416 beyond its end.
ResultChunk(t, offset, limit) ==
    IF t \notin Fresh THEN Reply("notfound")
    ELSE IF offset >= Size[t] THEN Reply("other")
    ELSE [status |-> "chunk", n |-> offset,
          data |-> SubSeq(Original(t), offset + 1,
                          IF offset + limit < Size[t]
                          THEN offset + limit ELSE Size[t])]

\* delete_result: the entry goes, whether it was there or not.
DeleteResult(t) == results' = [u \in DOMAIN results \ {t} |-> results[u]]

\* The wrapper process starts anew.
RestartStore == results' = << >>

StoreTick == results' = [t \in DOMAIN results |-> Countdown(results[t])]

StoreTypeOK ==
    /\ DOMAIN results \subseteq Transfers
    /\ \A t \in DOMAIN results : results[t] \in 0..Ttl

=============================================================================
