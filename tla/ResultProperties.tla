-------------------------- MODULE ResultProperties --------------------------
(***************************************************************************)
(* What must hold of the transfer of results from the pod to the adapter.  *)
(***************************************************************************)
EXTENDS ResultTransfer

\* Every variable keeps to its type.
ResultTypeOK ==
    /\ StoreTypeOK
    /\ fetch \in [Transfers -> Fetches]
    /\ job \in [Transfers -> {"none", "working", "over"}]
    /\ reply \in [Transfers -> Replies]
    /\ erasing \subseteq Transfers

\* fetch_result is between two chunks or in one.
InProgress(t) == fetch[t].st \in {"fetching", "waiting"}

\* Between two attempts the buffer of fetch_result holds exactly the bytes
\* before offset, each at its place or altered on the way: no retry leaves a
\* part of a chunk behind, and a chunk is asked for only below the length.
ChunksInOrder ==
    \A t \in Transfers : InProgress(t) =>
       /\ fetch[t].offset < fetch[t].length
       /\ Len(fetch[t].body) = fetch[t].offset
       /\ \A i \in 1..Len(fetch[t].body) : fetch[t].body[i] \in {0, i}

\* forward_asr answers with the result WhisperX produced for this request,
\* whole, whatever answers were lost, late, cut short or altered.
DeliveredWhole ==
    \A t \in Transfers : fetch[t].verified => fetch[t].body = Original(t)

\* The wrapper's store stays within its three bounds.
StoreBounded ==
    /\ Cardinality(DOMAIN results) <= MaxResults
    /\ Bytes(DOMAIN results) <= MaxBytes
    /\ \A t \in DOMAIN results : Size[t] \in 1..MaxResult

\* As long as the request has time left, its result has too: with a time-out
\* no longer than the time to live, "result expired before retrieval" is
\* only ever the answer of a wrapper that was restarted.
NotExpiredInTransfer ==
    "restart" \notin TransferFaults /\ Timeout <= Ttl =>
       \A t \in Transfers : InProgress(t) /\ fetch[t].left > 0 =>
          t \in DOMAIN results /\ results[t] >= fetch[t].left

\* When the adapter has seen its DELETE succeed the result does not occupy
\* the store, neither then nor later.
CleanedIsGone ==
    \A t \in Transfers : fetch[t].cleaned => t \notin DOMAIN results

\* A request that has been given a handle asks the wrapper to delete it before
\* it is answered, on every way out of fetch_result: also when the manifest
\* arrived with no time left (README.md, "retrieval attempts delete their
\* handle").
HandleDeleted ==
    \A t \in Transfers :
        fetch[t].st = "done" /\ fetch[t].length > 0 => fetch[t].deletes > 0

\* With a wrapper and a network that make no mistake a transfer is given up
\* only for time: the deadline is over, or a third attempt has timed out.  No
\* chunk the wrapper cut is refused by the adapter.
GivesUp(t) ==
    InProgress(t) /\ fetch'[t].st = "cleaning" /\ ~fetch'[t].verified

FailsOnlyForTime ==
    [][\A t \in Transfers : TransferFaults = {} /\ GivesUp(t) =>
          \/ fetch[t].left = 0
          \/ fetch[t].attempt = 3 /\ fetch[t].wait = 0]_vars

\* A result is refused only when results that are not expired leave no room
\* for it, or when it is too large itself: what nobody fetched does not keep
\* the store full for longer than its time to live.
Refuses(t) ==
    /\ reply[t].status # "full" /\ reply'[t].status = "full"
    /\ Size[t] \in 1..MaxResult

RefusedOnlyWhenFull ==
    [][\A t \in Transfers : Refuses(t) =>
          LET live == {u \in DOMAIN results : results[u] > 0} IN
          \/ Cardinality(live) >= MaxResults
          \/ Bytes(live) + Size[t] > MaxBytes]_vars

\* Every request that was forwarded ends, whatever the wrapper does or fails
\* to do: no stalled chunk and no stalled clean-up holds it.
TransferEnds ==
    \A t \in Transfers : fetch[t].st = "posted" ~> fetch[t].st = "done"

=============================================================================
