----------------------- MODULE ResultTransfer_proofs ------------------------
(***************************************************************************)
(* Proofs about the transfer of results, for any number of requests,       *)
(* results of any length, any bounds and any faults.                       *)
(***************************************************************************)
EXTENDS ResultProperties, SequenceTheorems, TLAPS

-----------------------------------------------------------------------------
\* The inductive invariant.  Each part speaks of one request.

\* An answer is on its way only to a request that waits for one.
Listening(t) ==
    fetch[t].st \notin {"posted", "waiting", "deleting"} => reply[t] = NoReply

\* The answer to a POST.
Answered(t) ==
    fetch[t].st = "posted" =>
       reply[t] \in {NoReply, Manifest(t), Reply("full"), Reply("other")}

\* The answer to a GET: the bytes after offset, each at its place.
Served(t) ==
    fetch[t].st = "waiting" =>
       /\ reply[t].status \in {"none", "notfound", "other", "chunk"}
       /\ reply[t].status = "chunk" =>
             \A i \in 1..Len(reply[t].data) :
                reply[t].data[i] = fetch[t].offset + i

\* The answer to a DELETE.
Erased(t) ==
    fetch[t].st = "deleting" =>
       /\ reply[t].status \in {"none", "gone", "denied"}
       /\ reply[t].status = "gone" => t \notin DOMAIN results

\* The buffer and the manifest while chunks are fetched.
Buffered(t) ==
    InProgress(t) =>
       /\ fetch[t].offset < fetch[t].length
       /\ Len(fetch[t].body) = fetch[t].offset
       /\ \A i \in 1..Len(fetch[t].body) : fetch[t].body[i] \in {0, i}
       /\ fetch[t].digest \in {Original(t), << >>}

Whole(t) == fetch[t].verified => fetch[t].body = Original(t)

\* The buffer is empty before the first chunk, and nothing is verified
\* before the last; no DELETE is sent before the clean-up, and then two.
Blank(t) ==
    /\ fetch[t].st = "posted" => fetch[t].offset = 0 /\ fetch[t].body = << >>
    /\ fetch[t].verified => fetch[t].st \in {"cleaning", "deleting", "done"}
    /\ fetch[t].st \in {"posted", "fetching", "waiting"} => fetch[t].deletes = 0
    /\ fetch[t].st = "cleaning" => fetch[t].deletes \in {0, 1}

\* The wrapper is through with the POST of every accepted result, so that
\* the result is not stored again.
Handled(t) ==
    (\/ InProgress(t)
     \/ fetch[t].st \in {"cleaning", "deleting"}
     \/ fetch[t].cleaned
     \/ reply[t].status = "accepted")
    => job[t] = "over"

\* A result is deleted only after its transfer.
Deleting(t) ==
    t \in erasing => fetch[t].st \in {"cleaning", "deleting", "done"}

Gone(t) ==
    fetch[t].cleaned => fetch[t].st = "done" /\ t \notin DOMAIN results

\* The result outlives the transfer, from the manifest on.
Outlives(t) ==
    (/\ "restart" \notin TransferFaults
     /\ Timeout <= Ttl
     /\ InProgress(t) \/ reply[t].status = "accepted"
     /\ fetch[t].left > 0)
    => t \in DOMAIN results /\ results[t] >= fetch[t].left

Good(t) ==
    /\ Listening(t) /\ Answered(t) /\ Served(t) /\ Erased(t)
    /\ Buffered(t) /\ Whole(t) /\ Blank(t)
    /\ Handled(t) /\ Deleting(t) /\ Gone(t) /\ Outlives(t)

IInv == ResultTypeOK /\ \A t \in Transfers : Good(t)

-----------------------------------------------------------------------------
\* Lemmas about what arrives.

\* The sizes that the modules declare are natural numbers.
LEMMA Constants ==
    /\ \A t \in Transfers : Size[t] \in Nat
    /\ ChunkSize \in Nat \ {0} /\ MaxResult \in Nat \ {0} /\ Ttl \in Nat \ {0}
    /\ Timeout \in Nat \ {0} /\ ChunkTimeout \in Nat \ {0}
BY StoreAssumption, TransferAssumption

\* A body is a sequence of natural numbers as long as Size says.
LEMMA OriginalBody ==
    ASSUME NEW t \in Transfers
    PROVE  /\ Original(t) \in Seq(Nat)
           /\ Len(Original(t)) = Size[t]
           /\ \A i \in 1..Size[t] : Original(t)[i] = i
BY Constants DEF Original

\* The empty sequence is one of natural numbers.
LEMMA EmptyBody == << >> \in Seq(Nat) /\ Len(<< >>) = 0
OBVIOUS

\* An answer of another status carries nothing.
LEMMA NothingInTheWay ==
    ASSUME NEW s \in [status : {"other", "denied"}, n : {0}, data : {<< >>}]
    PROVE  s.data = << >> /\ s.status \in {"other", "denied"} /\ s \in Replies
<1>1. s.data = << >> /\ s.n = 0 /\ s.status \in {"other", "denied"}
  OBVIOUS
<1>2. s = [status |-> s.status, n |-> s.n, data |-> s.data]
  OBVIOUS
<1> DEFINE st == s.status
           n == s.n
           d == s.data
<1>3. st \in Statuses /\ n \in Nat /\ d \in Seq(Nat)
  BY <1>1, EmptyBody DEF Statuses
<1>4. s = [status |-> st, n |-> n, data |-> d]
  BY <1>2
<1> HIDE DEF st, n, d
<1>5. s \in Replies
  BY <1>3, <1>4 DEF Replies
<1> QED
  BY <1>1, <1>5

\* The plain answers are replies.
LEMMA PlainReplies ==
    /\ NoReply \in Replies /\ Reply("full") \in Replies
    /\ Reply("other") \in Replies /\ Reply("gone") \in Replies
    /\ Reply("denied") \in Replies
    /\ Reply("notfound") \in Replies
BY DEF NoReply, Reply, Replies, Statuses

\* Damage to a chunk alters its bytes or its length, or makes it no chunk:
\* the bytes that arrive are at their place or 0.
LEMMA ChunkDamage ==
    ASSUME NEW r \in Replies, NEW s \in Received(r, DamagedChunks(r))
    PROVE  /\ s \in Replies
           /\ s.status \in {r.status, "other", "denied"}
           /\ s.status = r.status =>
                 \A i \in 1..Len(s.data) :
                    \/ s.data[i] = 0
                    \/ i \in 1..Len(r.data) /\ s.data[i] = r.data[i]
<1>1. s = r \/ s \in DamagedChunks(r)
  BY DEF Received
<1>2. CASE s = r
  BY <1>2 DEF Replies
<1>3. CASE s \in [status : {"other", "denied"}, n : {0}, data : {<< >>}]
  <2>1. s.data = << >> /\ s.status \in {"other", "denied"} /\ s \in Replies
    BY <1>3, NothingInTheWay
  <2> QED
    BY <2>1
<1>4. CASE s = [r EXCEPT !.n = @ + 1]
  BY <1>4 DEF Replies
<1>5. CASE \E d \in {<< >>, Append(r.data, 0), [i \in DOMAIN r.data |-> 0]} :
              s = [r EXCEPT !.data = d]
  <2>1. PICK d \in {<< >>, Append(r.data, 0), [i \in DOMAIN r.data |-> 0]} :
              s = [r EXCEPT !.data = d]
    BY <1>5
  <2>2. r.data \in Seq(Nat) /\ r.status \in Statuses /\ r.n \in Nat
    BY DEF Replies
  <2>3. d \in Seq(Nat) /\ \A i \in 1..Len(d) :
           d[i] = 0 \/ (i \in 1..Len(r.data) /\ d[i] = r.data[i])
    <3>1. CASE d = << >>
      BY <3>1
    <3>2. CASE d = Append(r.data, 0)
      BY <2>2, <3>2
    <3>3. CASE d = [i \in DOMAIN r.data |-> 0]
      BY <2>2, <3>3
    <3> QED
      BY <3>1, <3>2, <3>3
  <2>4. s.data = d /\ s.status = r.status /\ s.n = r.n /\ s \in Replies
    BY <2>1, <2>2, <2>3 DEF Replies
  <2> QED
    BY <2>3, <2>4
<1> QED
  BY <1>1, <1>2, <1>3, <1>4, <1>5 DEF DamagedChunks

\* Damage to a manifest alters its length or its digest, or makes it no
\* manifest.
LEMMA ManifestDamage ==
    ASSUME NEW r \in Replies, NEW s \in Received(r, DamagedManifests(r))
    PROVE  /\ s \in Replies
           /\ s.status \in {r.status, "other", "denied"}
           /\ s.data \in {r.data, << >>}
<1>1. s = r \/ s \in DamagedManifests(r)
  BY DEF Received
<1>2. CASE s = r
  BY <1>2 DEF Replies
<1>3. CASE s \in [status : {"other", "denied"}, n : {0}, data : {<< >>}]
  BY <1>3, NothingInTheWay
<1>4. CASE \E k \in 0..MaxResult + 1 : s = [r EXCEPT !.n = k]
  BY <1>4, Constants DEF Replies
<1>5. CASE s = [r EXCEPT !.data = << >>]
  BY <1>5, EmptyBody DEF Replies
<1> QED
  BY <1>1, <1>2, <1>3, <1>4, <1>5 DEF DamagedManifests

\* A chunk the wrapper serves is a slice of the original result.
LEMMA ChunkServed ==
    ASSUME NEW t \in Transfers, NEW offset \in Nat, NEW limit \in Nat
    PROVE  LET r == ResultChunk(t, offset, limit) IN
           /\ r \in Replies
           /\ r.status \in {"notfound", "other", "chunk"}
           /\ r.status = "chunk" =>
                 \A i \in 1..Len(r.data) : r.data[i] = offset + i
<1> DEFINE hi == IF offset + limit < Size[t] THEN offset + limit ELSE Size[t]
           data == SubSeq(Original(t), offset + 1, hi)
<1>1. CASE t \notin Fresh
  BY <1>1, PlainReplies DEF ResultChunk, Reply
<1>2. CASE t \in Fresh /\ offset >= Size[t]
  BY <1>2, PlainReplies DEF ResultChunk, Reply
<1>3. CASE t \in Fresh /\ offset < Size[t]
  <2>1. hi \in Nat /\ hi <= Size[t] /\ hi >= offset
    BY <1>3, Constants
  <2>2. data \in Seq(Nat) /\ \A i \in 1..Len(data) : data[i] = offset + i
    <3>1. /\ Original(t) \in Seq(Nat) /\ Len(Original(t)) = Size[t]
          /\ \A i \in 1..Size[t] : Original(t)[i] = i
      BY OriginalBody
    <3>2. Size[t] \in Nat /\ hi \in 0..Size[t] /\ offset + 1 \in 1..hi + 1
      BY <2>1, Constants
    <3> DEFINE orig == Original(t)
    <3> HIDE DEF hi, orig
    <3>3. SubSeq(orig, offset + 1, hi) \in Seq(Nat)
      BY <3>1, <3>2 DEF orig
    <3>4. /\ Len(SubSeq(orig, offset + 1, hi)) = hi - offset
          /\ \A i \in 1..(hi - offset) :
                SubSeq(orig, offset + 1, hi)[i] = orig[offset + i]
      BY <3>1, <3>2 DEF orig
    <3> QED
      BY <3>1, <3>2, <3>3, <3>4 DEF orig
  <2>3. ResultChunk(t, offset, limit)
          = [status |-> "chunk", n |-> offset, data |-> data]
    BY <1>3, Constants DEF ResultChunk
  <2> HIDE DEF data
  <2> QED
    BY <2>2, <2>3 DEF Replies, Statuses
<1> QED
  BY <1>1, <1>2, <1>3, Constants

-----------------------------------------------------------------------------
\* What the operations of the store do to one entry.

\* The entry of u is not created, and not lost before it expires.
Keeps(u) ==
    /\ u \in DOMAIN results' => u \in DOMAIN results
    /\ u \in DOMAIN results /\ results[u] > 0 =>
          u \in DOMAIN results' /\ results'[u] = results[u]

\* _expire_results keeps every entry that is not expired.
LEMMA ExpireKeeps ==
    ASSUME StoreTypeOK, GetResult
    PROVE  StoreTypeOK' /\ \A u \in Transfers : Keeps(u)
BY DEF StoreTypeOK, GetResult, ExpireResults, Fresh, Keeps

\* delete_result takes its own entry only.
LEMMA DeleteKeeps ==
    ASSUME StoreTypeOK, NEW t \in Transfers, DeleteResult(t)
    PROVE  /\ StoreTypeOK'
           /\ t \notin DOMAIN results'
           /\ \A u \in Transfers \ {t} : Keeps(u)
BY DEF StoreTypeOK, DeleteResult, Keeps

\* _store_result leaves the other entries, and gives the full time to live
\* to a result it returns a manifest for.
LEMMA StoreKeeps ==
    ASSUME StoreTypeOK, NEW t \in Transfers, StoreResult(t)
    PROVE  /\ StoreTypeOK'
           /\ \A u \in Transfers \ {t} : Keeps(u)
           /\ \/ /\ StoreReply(t) = Manifest(t)
                 /\ t \in DOMAIN results' /\ results'[t] = Ttl
              \/ StoreReply(t) = Reply("full")
<1> DEFINE kept == ExpireResults
<1>1. /\ DOMAIN kept = Fresh
      /\ \A u \in Fresh : kept[u] = results[u] /\ results[u] \in 0..Ttl
      /\ Fresh \subseteq DOMAIN results
      /\ DOMAIN results \subseteq Transfers
      /\ \A u \in DOMAIN results : results[u] \in 0..Ttl
  BY DEF ExpireResults, Fresh, StoreTypeOK
<1>2. Ttl \in 0..Ttl
  BY Constants
<1>3. CASE Storable(t) /\ RoomFor(t, kept)
  <2>1. results' = [u \in DOMAIN kept \cup {t} |->
                      IF u = t THEN Ttl ELSE kept[u]]
    BY <1>3 DEF StoreResult
  <2>2. DOMAIN results' = Fresh \cup {t} /\ results'[t] = Ttl
        /\ \A u \in Fresh \ {t} : results'[u] = results[u]
    BY <1>1, <2>1
  <2>3. StoreReply(t) = Manifest(t)
    BY <1>3 DEF StoreReply
  <2> QED
    BY <1>1, <1>2, <2>2, <2>3 DEF StoreTypeOK, Keeps, Fresh
<1>4. CASE ~(Storable(t) /\ RoomFor(t, kept))
  <2>1. results' = kept \/ results' = results
    BY <1>4 DEF StoreResult
  <2>2. StoreReply(t) = Reply("full")
    BY <1>4 DEF StoreReply
  <2> QED
    BY <1>1, <2>1, <2>2 DEF StoreTypeOK, Keeps, Fresh
<1> QED
  BY <1>3, <1>4

\* A request none of whose own parts changes keeps its part of the invariant.
LEMMA OthersGood ==
    ASSUME NEW u \in Transfers, Good(u), Keeps(u), ResultTypeOK,
           fetch'[u] = fetch[u], reply'[u] = reply[u], job'[u] = job[u],
           u \in erasing' => u \in erasing
    PROVE  Good(u)'
<1> USE DEF Good
<1>1. Listening(u)' /\ Answered(u)' /\ Served(u)'
  BY DEF Listening, Answered, Served
<1>2. Erased(u)' /\ Gone(u)'
  BY DEF Erased, Gone, Keeps
<1>3. Buffered(u)' /\ Whole(u)' /\ Blank(u)'
  BY DEF Buffered, Whole, Blank, InProgress
<1>4. Handled(u)' /\ Deleting(u)'
  BY DEF Handled, Deleting, InProgress
<1>5. Outlives(u)'
  <2>1. fetch[u].left \in 0..Timeout
    BY DEF ResultTypeOK, Fetches
  <2>2. u \in DOMAIN results => results[u] \in 0..Ttl
    BY DEF ResultTypeOK, StoreTypeOK
  <2> QED
    BY <2>1, <2>2, Constants DEF Outlives, InProgress, Keeps
<1> QED
  BY <1>1, <1>2, <1>3, <1>4, <1>5

-----------------------------------------------------------------------------
\* The steps.  A step of t changes nothing of the other requests.

Alone(t) ==
    /\ fetch' = [fetch EXCEPT ![t] = fetch'[t]]
    /\ reply' = [reply EXCEPT ![t] = reply'[t]]
    /\ job' = [job EXCEPT ![t] = job'[t]]
    /\ erasing' \subseteq erasing \cup {t}
    /\ \A u \in Transfers \ {t} : Keeps(u)

TypedAt(t) ==
    /\ fetch'[t] \in Fetches
    /\ reply'[t] \in Replies
    /\ job'[t] \in {"none", "working", "over"}

\* The invariant after a step of t is what it says of t.
LEMMA StepGood ==
    ASSUME IInv, NEW t \in Transfers, StoreTypeOK', Alone(t), TypedAt(t),
           Good(t)'
    PROVE  IInv'
<1>1. ResultTypeOK'
  BY DEF IInv, ResultTypeOK, Alone, TypedAt
<1>2. ASSUME NEW u \in Transfers \ {t} PROVE Good(u)'
  <2>1. /\ fetch'[u] = fetch[u] /\ reply'[u] = reply[u] /\ job'[u] = job[u]
        /\ u \in erasing' => u \in erasing
        /\ Keeps(u) /\ Good(u) /\ ResultTypeOK
    BY DEF IInv, ResultTypeOK, Alone
  <2> QED
    BY <2>1, OthersGood
<1> QED
  BY <1>1, <1>2 DEF IInv

\* A step that leaves the store alone keeps every entry.
LEMMA SameStore ==
    ASSUME StoreTypeOK, UNCHANGED results
    PROVE  StoreTypeOK' /\ \A u \in Transfers : Keeps(u)
BY DEF StoreTypeOK, Keeps

\* What the operators on the local state of a request leave as it was.
LEMMA EndedShape ==
    ASSUME NEW f \in Fetches
    PROVE  /\ Ended(f) \in Fetches
           /\ Ended(f).st = "done"
           /\ Ended(f).verified = f.verified /\ Ended(f).body = f.body
           /\ Ended(f).cleaned = f.cleaned
<1>1. 0 \in 0..Timeout /\ 0 \in 0..ChunkTimeout /\ "done" \in Phases
  BY Constants DEF Phases
<1> QED
  BY <1>1 DEF Ended, Fetches

\* The same of a transfer that fails.
LEMMA FailedShape ==
    ASSUME NEW f \in Fetches
    PROVE  /\ Failed(f) \in Fetches
           /\ Failed(f).st = "cleaning"
           /\ Failed(f).verified = f.verified /\ Failed(f).body = f.body
           /\ Failed(f).cleaned = f.cleaned
           /\ Failed(f).deletes = f.deletes
<1>1. 0 \in 0..Timeout /\ 0 \in 0..ChunkTimeout /\ "cleaning" \in Phases
  BY Constants DEF Phases
<1> QED
  BY <1>1 DEF Failed, Fetches

\* An attempt that failed leaves the buffer and the offset alone.
LEMMA RetryShape ==
    ASSUME NEW f \in Fetches, NEW data
    PROVE  /\ Retry(f, data) \in Fetches
           /\ Retry(f, data).st \in {"cleaning", "fetching"}
           /\ Retry(f, data).verified = f.verified
           /\ Retry(f, data).cleaned = f.cleaned
           /\ Retry(f, data).deletes = f.deletes
           /\ Retry(f, data).body = f.body
           /\ Retry(f, data).st = "fetching" =>
                 /\ Retry(f, data).offset = f.offset
                 /\ Retry(f, data).length = f.length
                 /\ Retry(f, data).digest = f.digest
                 /\ Retry(f, data).left = f.left
<1> DEFINE g == [f EXCEPT !.st = "fetching", !.wait = 0, !.attempt = @ + 1]
<1>1. 0 \in 0..ChunkTimeout /\ "fetching" \in Phases /\ f.attempt + 1 \in Nat
  BY Constants DEF Phases, Fetches
<1>2. /\ g \in Fetches /\ g.st = "fetching" /\ g.verified = f.verified
      /\ g.cleaned = f.cleaned /\ g.body = f.body /\ g.offset = f.offset
      /\ g.length = f.length /\ g.digest = f.digest /\ g.left = f.left
      /\ g.deletes = f.deletes
  BY <1>1 DEF Fetches
<1>3. Retry(f, data) = IF f.attempt = 3 THEN Failed(f) ELSE g
  BY DEF Retry
<1> HIDE DEF g
<1> QED
  BY <1>2, <1>3, FailedShape

\* A valid manifest fixes what is fetched; the deadline stays.
LEMMA AcceptShape ==
    ASSUME NEW f \in Fetches, NEW r \in Replies
    PROVE  /\ Accept(f, r) \in Fetches
           /\ Accept(f, r).st = "fetching"
           /\ Accept(f, r).length = r.n /\ Accept(f, r).digest = r.data
           /\ Accept(f, r).offset = f.offset /\ Accept(f, r).body = f.body
           /\ Accept(f, r).verified = f.verified
           /\ Accept(f, r).cleaned = f.cleaned
           /\ Accept(f, r).deletes = f.deletes
           /\ Accept(f, r).left = f.left
<1>1. r.n \in Nat /\ r.data \in Seq(Nat) /\ 1 \in Nat /\ "fetching" \in Phases
  BY DEF Phases, Replies
<1> QED
  BY <1>1 DEF Accept, Fetches

\* A second DELETE, or the end.
LEMMA TryDeleteShape ==
    ASSUME NEW f \in Fetches
    PROVE  /\ TryDeleteAgain(f) \in Fetches
           /\ TryDeleteAgain(f).st \in {"cleaning", "done"}
           /\ TryDeleteAgain(f).verified = f.verified
           /\ TryDeleteAgain(f).body = f.body
           /\ TryDeleteAgain(f).cleaned = f.cleaned
           /\ TryDeleteAgain(f).st = "cleaning" =>
                 TryDeleteAgain(f).deletes \in {0, 1}
<1> DEFINE g == [f EXCEPT !.st = "cleaning"]
<1>1. /\ g \in Fetches /\ g.st = "cleaning" /\ g.verified = f.verified
      /\ g.body = f.body /\ g.cleaned = f.cleaned /\ g.deletes = f.deletes
      /\ f.deletes \in 0..2
  BY DEF Fetches, Phases
<1>2. TryDeleteAgain(f) = IF f.deletes < 2 THEN g ELSE Ended(f)
  BY DEF TryDeleteAgain
<1> HIDE DEF g
<1>3. CASE f.deletes < 2
  BY <1>1, <1>2, <1>3
<1>4. CASE ~(f.deletes < 2)
  BY <1>2, <1>4, EndedShape
<1> QED
  BY <1>3, <1>4

\* A request that fails, or tries its DELETE again, keeps what it verified.
LEMMA LetGo ==
    ASSUME NEW t \in Transfers, Good(t),
           fetch[t].st \in {"posted", "fetching", "waiting", "cleaning",
                            "deleting"},
           fetch'[t].st \in {"cleaning", "done"},
           fetch'[t].st = "cleaning" =>
              fetch[t].st # "posted" /\ fetch'[t].deletes \in {0, 1},
           fetch'[t].verified = fetch[t].verified,
           fetch'[t].body = fetch[t].body,
           fetch'[t].cleaned = fetch[t].cleaned,
           reply'[t] = NoReply, job'[t] \in {job[t], "over"},
           erasing' = erasing, results' = results
    PROVE  Good(t)'
<1>1. ~fetch[t].cleaned
  BY DEF Good, Gone
<1>2. fetch[t].verified => fetch[t].body = Original(t)
  BY DEF Good, Whole
<1>3. fetch'[t].st = "cleaning" => job'[t] = "over"
  BY DEF Good, Handled, InProgress
<1>4. reply'[t].status = "none"
  BY DEF NoReply, Reply
<1>5. Listening(t)' /\ Answered(t)' /\ Served(t)' /\ Erased(t)' /\ Buffered(t)'
  BY DEF Listening, Answered, Served, Erased, Buffered, InProgress
<1>6. Whole(t)' /\ Blank(t)' /\ Handled(t)' /\ Deleting(t)' /\ Gone(t)'
  BY <1>1, <1>2, <1>3, <1>4
  DEF Whole, Blank, Handled, Deleting, Gone, InProgress
<1>7. Outlives(t)'
  BY <1>4 DEF Outlives, InProgress
<1> QED
  BY <1>5, <1>6, <1>7 DEF Good

\* A chunk of the expected length continues the buffer up to the next
\* offset, and what is verified after the last chunk has the digest.
LEMMA ExtendShape ==
    ASSUME NEW f \in Fetches, NEW data \in Seq(Nat),
           f.offset < f.length, Len(f.body) = f.offset,
           \A i \in 1..Len(f.body) : f.body[i] \in {0, i},
           Len(data) = Expected(f),
           \A i \in 1..Len(data) : data[i] \in {0, f.offset + i},
           ~f.verified
    PROVE  LET g == Extend(f, data) IN
           /\ g \in Fetches
           /\ g.st \in {"fetching", "cleaning"}
           /\ g.cleaned = f.cleaned /\ g.deletes = f.deletes
           /\ g.verified => g.st = "cleaning" /\ g.body = f.digest
                            /\ Len(g.body) > 0
           /\ g.st = "fetching" =>
                 /\ g.offset < g.length /\ Len(g.body) = g.offset
                 /\ \A i \in 1..Len(g.body) : g.body[i] \in {0, i}
                 /\ g.digest = f.digest /\ g.left = f.left
<1> DEFINE b == f.body \o data
           g == [f EXCEPT !.body = @ \o data, !.offset = @ + ChunkSize,
                          !.attempt = 1, !.wait = 0, !.st = "fetching"]
<1>1. /\ f.body \in Seq(Nat) /\ f.offset \in Nat /\ f.length \in Nat
      /\ ChunkSize \in Nat \ {0} /\ 0 \in 0..ChunkTimeout
      /\ "fetching" \in Phases
  BY Constants DEF Fetches, Phases
<1>2. /\ b \in Seq(Nat) /\ Len(b) = f.offset + Len(data)
      /\ \A i \in 1..Len(b) : b[i] \in {0, i}
  <2> DEFINE c == f.body
             n == f.offset
  <2>1. /\ c \in Seq(Nat) /\ Len(c) = n /\ n \in Nat /\ Len(data) \in Nat
        /\ \A i \in 1..n : c[i] \in {0, i}
        /\ \A i \in 1..Len(data) : data[i] \in {0, n + i}
    BY <1>1
  <2> HIDE DEF c, n
  <2>2. /\ c \o data \in Seq(Nat) /\ Len(c \o data) = n + Len(data)
        /\ \A i \in 1..(n + Len(data)) :
              (c \o data)[i] = IF i <= n THEN c[i] ELSE data[i - n]
    <3>1. c \in Seq(Nat)
      BY <2>1
    <3>2. /\ c \o data \in Seq(Nat) /\ Len(c \o data) = Len(c) + Len(data)
          /\ \A i \in 1..(Len(c) + Len(data)) :
                (c \o data)[i] = IF i <= Len(c) THEN c[i] ELSE data[i - Len(c)]
      BY <3>1, ConcatProperties, ZenonT(40)
    <3>3. Len(c) = n
      BY <2>1
    <3> QED
      BY <3>2, <3>3, ZenonT(40)
  <2>3. ASSUME NEW i \in 1..(n + Len(data)) PROVE (c \o data)[i] \in {0, i}
    <3>1. CASE i <= n
      BY <2>1, <2>2, <3>1
    <3>2. CASE i > n
      <4>1. i - n \in 1..Len(data) /\ n + (i - n) = i
        BY <2>1, <3>2
      <4>2. (c \o data)[i] = data[i - n]
        BY <2>1, <2>2, <3>2
      <4> QED
        BY <2>1, <4>1, <4>2
    <3> QED
      BY <2>1, <3>1, <3>2
  <2> QED
    BY <2>2, <2>3 DEF c, n
<1>3. /\ g.body = b /\ g.offset = f.offset + ChunkSize /\ g.st = "fetching"
      /\ g.length = f.length /\ g.digest = f.digest /\ g.left = f.left
      /\ g.verified = f.verified /\ g.cleaned = f.cleaned
      /\ g.deletes = f.deletes
  BY DEF Fetches
<1>4. g \in Fetches
  <2>1. f.offset + ChunkSize \in Nat
    BY <1>1
  <2> QED
    BY <1>1, <1>2, <2>1 DEF Fetches
<1>5. /\ Expected(f) \in Nat /\ Expected(f) > 0
      /\ f.offset + ChunkSize < f.length => Expected(f) = ChunkSize
  BY <1>1 DEF Expected
<1>6. Extend(f, data) = IF g.offset < g.length THEN g
                        ELSE [Failed(g) EXCEPT !.verified = Verified(g)]
  BY DEF Extend
<1> HIDE DEF g, b
<1>7. CASE g.offset < g.length
  BY <1>1, <1>2, <1>3, <1>4, <1>5, <1>6, <1>7
<1>8. CASE ~(g.offset < g.length)
  <2> DEFINE h == [Failed(g) EXCEPT !.verified = Verified(g)]
  <2>1. /\ Failed(g) \in Fetches /\ Failed(g).st = "cleaning"
        /\ Failed(g).body = g.body /\ Failed(g).cleaned = g.cleaned
        /\ Failed(g).deletes = g.deletes
    BY <1>4, FailedShape
  <2>2. Verified(g) \in BOOLEAN
    BY DEF Verified
  <2>3. /\ h \in Fetches /\ h.st = "cleaning" /\ h.body = g.body
        /\ h.cleaned = g.cleaned /\ h.verified = Verified(g)
        /\ h.deletes = g.deletes
    BY <2>1, <2>2 DEF Fetches
  <2> HIDE DEF h
  <2>4. Extend(f, data) = h
    BY <1>6, <1>8 DEF h
  <2>5. h.verified => h.body = f.digest /\ Len(h.body) > 0
    <3>1. h.verified => Verified(g)
      BY <2>3, Zenon
    <3>2. Verified(g) => g.body = f.digest
      BY <1>3 DEF Verified
    <3>3. Len(h.body) > 0
      BY <1>1, <1>2, <1>3, <1>5, <2>3
    <3> QED
      BY <2>3, <3>1, <3>2, <3>3
  <2> QED
    BY <1>3, <2>3, <2>4, <2>5
<1> QED
  BY <1>7, <1>8

\* The request is sent.
LEMMA PostStep ==
    ASSUME IInv, NEW t \in Transfers, Post(t)
    PROVE  IInv'
<1>1. /\ ResultTypeOK /\ Good(t) /\ StoreTypeOK
  BY DEF IInv, ResultTypeOK
<1>2. StoreTypeOK' /\ \A u \in Transfers : Keeps(u)
  BY <1>1, SameStore DEF Post
<1> DEFINE f == [NoFetch EXCEPT !.st = "posted", !.left = Timeout]
<1>3. fetch'[t] = f /\ reply'[t] = reply[t] /\ job'[t] = "working"
      /\ erasing' = erasing /\ results' = results
  BY <1>1 DEF Post, Set, ResultTypeOK
<1>4. /\ f \in Fetches /\ f.st = "posted" /\ f.left = Timeout
      /\ f.verified = FALSE /\ f.cleaned = FALSE
      /\ f.offset = 0 /\ f.body = << >> /\ f.deletes = 0
  <2>1. NoFetch \in Fetches
    BY Constants, EmptyBody DEF NoFetch, Fetches, Phases
  <2>2. f \in Fetches
    <3>1. Timeout \in 0..Timeout /\ "posted" \in Phases
      BY Constants DEF Phases
    <3> QED
      BY <2>1, <3>1 DEF Fetches
  <2>3. /\ f.st = "posted" /\ f.left = Timeout
        /\ f.verified = FALSE /\ f.cleaned = FALSE
        /\ f.offset = 0 /\ f.body = << >> /\ f.deletes = 0
    BY DEF NoFetch
  <2> QED
    BY <2>2, <2>3
<1> HIDE DEF f
<1>5. Alone(t)
  BY <1>1, <1>2, <1>3 DEF Alone, ResultTypeOK, Post, Set
<1>6. TypedAt(t)
  BY <1>1, <1>3, <1>4 DEF TypedAt, ResultTypeOK
<1>7. reply[t] = NoReply /\ t \notin erasing
  BY <1>1 DEF Post, Good, Listening, Deleting
<1>8. Good(t)'
  BY <1>3, <1>4, <1>7
  DEF Good, Listening, Answered, Served, Erased, Buffered, Whole, Blank, Handled,
      Deleting, Gone, Outlives, InProgress, NoReply, Reply
<1> QED
  BY <1>1, <1>2, <1>5, <1>6, <1>8, StepGood

\* The manifest arrives.
LEMMA ManifestStep ==
    ASSUME IInv, NEW t \in Transfers, TakeManifest(t)
    PROVE  IInv'
<1>1. /\ ResultTypeOK /\ Good(t) /\ StoreTypeOK
      /\ fetch[t] \in Fetches /\ reply[t] \in Replies
  BY DEF IInv, ResultTypeOK
<1>2. StoreTypeOK' /\ \A u \in Transfers : Keeps(u)
  BY <1>1, SameStore DEF TakeManifest
<1> DEFINE f == fetch[t]
<1>3. PICK r \in Received(reply[t], DamagedManifests(reply[t])) :
         Set(t, IF ManifestValid(r) THEN Accept(f, r) ELSE Ended(f))
  BY DEF TakeManifest
<1>4. /\ r \in Replies
      /\ r.status \in {reply[t].status, "other", "denied"}
      /\ r.data \in {reply[t].data, << >>}
  BY <1>1, ManifestDamage
<1>5. fetch'[t] = (IF ManifestValid(r) THEN Accept(f, r) ELSE Ended(f))
      /\ reply'[t] = NoReply /\ job'[t] = job[t]
      /\ erasing' = erasing /\ results' = results
  BY <1>1, <1>3 DEF TakeManifest, Set, HangUp, ResultTypeOK
<1>6. Alone(t)
  BY <1>1, <1>2, <1>3, <1>5
  DEF Alone, ResultTypeOK, TakeManifest, Set, HangUp
<1>7. TypedAt(t)
  <2>1. Accept(f, r) \in Fetches
    BY <1>1, <1>4, AcceptShape
  <2>2. Ended(f) \in Fetches
    BY <1>1, EndedShape
  <2>3. job[t] \in {"none", "working", "over"}
    BY <1>1 DEF ResultTypeOK
  <2>4. NoReply \in Replies
    BY PlainReplies
  <2>5. fetch'[t] \in Fetches
    BY <1>5, <2>1, <2>2
  <2> QED
    BY <1>5, <2>3, <2>4, <2>5 DEF TypedAt
<1>8. f.st = "posted" /\ ~f.cleaned /\ t \notin erasing
      /\ f.offset = 0 /\ f.body = << >> /\ ~f.verified /\ f.deletes = 0
  BY <1>1 DEF TakeManifest, Good, Gone, Deleting, Blank
<1>9. ASSUME ManifestValid(r) PROVE Good(t)'
  <2> DEFINE g == Accept(f, r)
  <2>1. /\ g.st = "fetching" /\ g.length = r.n /\ g.digest = r.data
        /\ g.offset = 0 /\ g.body = << >> /\ ~g.verified /\ ~g.cleaned
        /\ g.left = f.left /\ g.deletes = 0 /\ fetch'[t] = g
    BY <1>1, <1>4, <1>5, <1>8, <1>9, AcceptShape
  <2> HIDE DEF g
  <2>2. r.n >= 1 /\ reply[t].status = "accepted"
    BY <1>4, <1>9 DEF ManifestValid
  <2>3. reply[t] = Manifest(t) /\ job[t] = "over"
    BY <1>1, <1>8, <2>2 DEF Good, Answered, Handled, NoReply, Reply
  <2>4. g.digest \in {Original(t), << >>}
    BY <1>4, <2>1, <2>3 DEF Manifest
  <2>5. Outlives(t)'
    BY <1>1, <1>5, <1>8, <2>1, <2>2 DEF Good, Outlives
  <2>6. Listening(t)' /\ Answered(t)' /\ Served(t)' /\ Erased(t)' /\ Whole(t)'
        /\ Blank(t)' /\ Handled(t)' /\ Deleting(t)' /\ Gone(t)'
    BY <1>5, <1>8, <2>1, <2>3
    DEF Listening, Answered, Served, Erased, Whole, Blank, Handled, Deleting,
        Gone, NoReply, Reply
  <2>7. Buffered(t)'
    BY <1>4, <2>1, <2>2, <2>4, EmptyBody DEF Buffered, Replies
  <2> QED
    BY <2>5, <2>6, <2>7 DEF Good
<1>10. ASSUME ~ManifestValid(r) PROVE Good(t)'
  <2> DEFINE g == Ended(f)
  <2>1. g.st = "done" /\ ~g.verified /\ ~g.cleaned /\ fetch'[t] = g
    BY <1>1, <1>5, <1>8, <1>10, EndedShape
  <2> HIDE DEF g
  <2> QED
    BY <1>5, <1>8, <2>1
    DEF Good, Listening, Answered, Served, Erased, Buffered, Whole, Blank,
        Handled, Deleting, Gone, Outlives, InProgress, NoReply, Reply
<1> QED
  BY <1>1, <1>2, <1>6, <1>7, <1>9, <1>10, StepGood

\* The POST fails.
LEMMA PostFailsStep ==
    ASSUME IInv, NEW t \in Transfers, PostFails(t)
    PROVE  IInv'
<1>1. /\ ResultTypeOK /\ Good(t) /\ StoreTypeOK /\ fetch[t] \in Fetches
  BY DEF IInv, ResultTypeOK
<1>2. StoreTypeOK' /\ \A u \in Transfers : Keeps(u)
  BY <1>1, SameStore DEF PostFails
<1> DEFINE g == Ended(fetch[t])
<1>3. /\ fetch'[t] = g /\ reply'[t] = NoReply
      /\ job'[t] \in {job[t], "over"}
      /\ erasing' = erasing /\ results' = results
  BY <1>1 DEF PostFails, Set, HangUp, ResultTypeOK
<1>4. /\ g \in Fetches /\ g.st \in {"cleaning", "done"}
      /\ g.st = "cleaning" => fetch[t].st # "posted" /\ g.deletes \in {0, 1}
      /\ g.verified = fetch[t].verified /\ g.body = fetch[t].body
      /\ g.cleaned = fetch[t].cleaned
  BY <1>1, EndedShape DEF PostFails
<1> HIDE DEF g
<1>5. Alone(t)
  BY <1>1, <1>2, <1>3 DEF Alone, ResultTypeOK, PostFails, Set, HangUp
<1>6. TypedAt(t)
  BY <1>1, <1>3, <1>4, PlainReplies DEF TypedAt, ResultTypeOK
<1>7. Good(t)'
  BY <1>1, <1>3, <1>4, LetGo DEF PostFails
<1> QED
  BY <1>1, <1>2, <1>5, <1>6, <1>7, StepGood

\* A DELETE fails.
LEMMA DeleteFailsStep ==
    ASSUME IInv, NEW t \in Transfers, DeleteFails(t)
    PROVE  IInv'
<1>1. /\ ResultTypeOK /\ Good(t) /\ StoreTypeOK /\ fetch[t] \in Fetches
  BY DEF IInv, ResultTypeOK
<1>2. StoreTypeOK' /\ \A u \in Transfers : Keeps(u)
  BY <1>1, SameStore DEF DeleteFails
<1> DEFINE g == TryDeleteAgain(fetch[t])
<1>3. /\ fetch'[t] = g /\ reply'[t] = NoReply
      /\ job'[t] \in {job[t], "over"}
      /\ erasing' = erasing /\ results' = results
  BY <1>1 DEF DeleteFails, Set, HangUp, ResultTypeOK
<1>4. /\ g \in Fetches /\ g.st \in {"cleaning", "done"}
      /\ g.st = "cleaning" => fetch[t].st # "posted" /\ g.deletes \in {0, 1}
      /\ g.verified = fetch[t].verified /\ g.body = fetch[t].body
      /\ g.cleaned = fetch[t].cleaned
  BY <1>1, TryDeleteShape DEF DeleteFails
<1> HIDE DEF g
<1>5. Alone(t)
  BY <1>1, <1>2, <1>3 DEF Alone, ResultTypeOK, DeleteFails, Set, HangUp
<1>6. TypedAt(t)
  BY <1>1, <1>3, <1>4, PlainReplies DEF TypedAt, ResultTypeOK
<1>7. Good(t)'
  BY <1>1, <1>3, <1>4, LetGo DEF DeleteFails
<1> QED
  BY <1>1, <1>2, <1>5, <1>6, <1>7, StepGood

\* The clean-up takes too long.
LEMMA CleanupTimesOutStep ==
    ASSUME IInv, NEW t \in Transfers, CleanupTimesOut(t)
    PROVE  IInv'
<1>1. /\ ResultTypeOK /\ Good(t) /\ StoreTypeOK /\ fetch[t] \in Fetches
  BY DEF IInv, ResultTypeOK
<1>2. StoreTypeOK' /\ \A u \in Transfers : Keeps(u)
  BY <1>1, SameStore DEF CleanupTimesOut
<1> DEFINE g == Ended(fetch[t])
<1>3. /\ fetch'[t] = g /\ reply'[t] = NoReply
      /\ job'[t] \in {job[t], "over"}
      /\ erasing' = erasing /\ results' = results
  BY <1>1 DEF CleanupTimesOut, Set, HangUp, ResultTypeOK
<1>4. /\ g \in Fetches /\ g.st \in {"cleaning", "done"}
      /\ g.st = "cleaning" => fetch[t].st # "posted" /\ g.deletes \in {0, 1}
      /\ g.verified = fetch[t].verified /\ g.body = fetch[t].body
      /\ g.cleaned = fetch[t].cleaned
  BY <1>1, EndedShape DEF CleanupTimesOut
<1> HIDE DEF g
<1>5. Alone(t)
  BY <1>1, <1>2, <1>3 DEF Alone, ResultTypeOK, CleanupTimesOut, Set, HangUp
<1>6. TypedAt(t)
  BY <1>1, <1>3, <1>4, PlainReplies DEF TypedAt, ResultTypeOK
<1>7. Good(t)'
  BY <1>1, <1>3, <1>4, LetGo DEF CleanupTimesOut
<1> QED
  BY <1>1, <1>2, <1>5, <1>6, <1>7, StepGood

\* WhisperX has answered, and the wrapper has stored the result or not.
LEMMA TranscribedStep ==
    ASSUME IInv, NEW t \in Transfers, Transcribed(t)
    PROVE  IInv'
<1>1. /\ ResultTypeOK /\ Good(t) /\ StoreTypeOK /\ fetch[t] \in Fetches
      /\ reply[t] \in Replies
  BY DEF IInv, ResultTypeOK
<1>2. /\ StoreTypeOK' /\ \A u \in Transfers \ {t} : Keeps(u)
      /\ fetch'[t] = fetch[t] /\ job'[t] = "over" /\ erasing' = erasing
      /\ \/ reply'[t] = reply[t]
         \/ /\ fetch[t].st = "posted" /\ reply'[t] = Reply("other")
         \/ /\ fetch[t].st = "posted" /\ reply'[t] = Reply("full")
         \/ /\ fetch[t].st = "posted" /\ reply'[t] = Manifest(t)
            /\ t \in DOMAIN results' /\ results'[t] = Ttl
  BY <1>1, StoreKeeps, SameStore DEF Transcribed, ResultTypeOK
<1>3. /\ ~InProgress(t) /\ fetch[t].st \notin {"waiting", "cleaning", "deleting"}
      /\ ~fetch[t].cleaned /\ reply[t].status # "accepted"
  BY <1>1 DEF Good, Handled, Transcribed, InProgress
<1>4. /\ Reply("other").status # "accepted" /\ Reply("full").status # "accepted"
      /\ Manifest(t) \in Replies
  BY OriginalBody, Constants DEF Reply, Manifest, Replies, Statuses
<1>5. Alone(t)
  BY <1>1, <1>2 DEF Alone, ResultTypeOK, Transcribed
<1>6. TypedAt(t)
  BY <1>1, <1>2, <1>4, PlainReplies DEF TypedAt
<1>7. Good(t)'
  <2>1. Listening(t)' /\ Answered(t)' /\ Served(t)' /\ Erased(t)'
    BY <1>1, <1>2, <1>3, <1>4
    DEF Good, Listening, Answered, Served, Erased, InProgress
  <2>2. Buffered(t)' /\ Whole(t)' /\ Blank(t)'
    BY <1>1, <1>2, <1>3 DEF Good, Buffered, Whole, Blank, InProgress
  <2>3. Handled(t)' /\ Deleting(t)' /\ Gone(t)'
    BY <1>1, <1>2, <1>3 DEF Good, Handled, Deleting, Gone, InProgress
  <2>4. Outlives(t)'
    <3>1. fetch[t].left \in 0..Timeout
      BY <1>1 DEF Fetches
    <3> QED
      BY <1>2, <1>3, <1>4, <3>1, Constants DEF Outlives, InProgress
  <2> QED
    BY <2>1, <2>2, <2>3, <2>4 DEF Good
<1> QED
  BY <1>1, <1>2, <1>5, <1>6, <1>7, StepGood

\* An attempt begins, or the deadline ends the transfer.
LEMMA RequestChunkStep ==
    ASSUME IInv, NEW t \in Transfers, RequestChunk(t)
    PROVE  IInv'
<1>1. /\ ResultTypeOK /\ Good(t) /\ StoreTypeOK /\ fetch[t] \in Fetches
      /\ fetch[t].st = "fetching"
  BY DEF IInv, ResultTypeOK, RequestChunk
<1>2. StoreTypeOK' /\ \A u \in Transfers : Keeps(u)
  BY <1>1, SameStore DEF RequestChunk
<1> DEFINE f == fetch[t]
           w == IF f.left < ChunkTimeout THEN f.left ELSE ChunkTimeout
           g == [f EXCEPT !.st = "waiting", !.wait = w]
<1>3. reply[t] = NoReply /\ reply'[t] = reply[t] /\ job'[t] = job[t]
      /\ erasing' = erasing /\ results' = results
  BY <1>1 DEF RequestChunk, Good, Listening
<1>4. Alone(t)
  BY <1>1, <1>2 DEF Alone, ResultTypeOK, RequestChunk, Set
<1>5. CASE fetch[t].left = 0
  <2>1. fetch'[t] = Failed(f)
    BY <1>1, <1>5 DEF RequestChunk, Set, ResultTypeOK
  <2>2. TypedAt(t)
    BY <1>1, <1>3, <2>1, FailedShape, PlainReplies DEF TypedAt, ResultTypeOK
  <2>3. f.deletes = 0
    BY <1>1 DEF Good, Blank
  <2>4. Good(t)'
    BY <1>1, <1>3, <2>1, <2>3, FailedShape, LetGo
  <2> QED
    BY <1>1, <1>2, <1>4, <2>2, <2>4, StepGood
<1>6. CASE fetch[t].left # 0
  <2>1. fetch'[t] = g
    BY <1>1, <1>6 DEF RequestChunk, Set, ResultTypeOK
  <2>2. w \in 0..ChunkTimeout
    BY <1>1, Constants DEF Fetches
  <2>3. /\ g \in Fetches /\ g.st = "waiting" /\ g.left = f.left
        /\ g.offset = f.offset /\ g.length = f.length /\ g.body = f.body
        /\ g.digest = f.digest /\ g.verified = f.verified
        /\ g.cleaned = f.cleaned /\ g.deletes = f.deletes
    <3> HIDE DEF w
    <3> QED
      BY <1>1, <2>2 DEF Fetches, Phases
  <2> HIDE DEF g, w
  <2>4. TypedAt(t)
    BY <1>1, <1>3, <2>1, <2>3, PlainReplies DEF TypedAt, ResultTypeOK
  <2>5. Good(t)'
    <3>1. reply[t].status = "none"
      BY <1>3 DEF NoReply, Reply
    <3>2. Listening(t)' /\ Answered(t)' /\ Served(t)' /\ Erased(t)'
      BY <1>3, <2>1, <2>3, <3>1 DEF Listening, Answered, Served, Erased
    <3>3. Buffered(t)' /\ Whole(t)' /\ Blank(t)'
      BY <1>1, <2>1, <2>3 DEF Good, Buffered, Whole, Blank, InProgress
    <3>4. Handled(t)' /\ Deleting(t)' /\ Gone(t)'
      BY <1>1, <1>3, <2>1, <2>3 DEF Good, Handled, Deleting, Gone, InProgress
    <3>5. Outlives(t)'
      BY <1>1, <1>3, <2>1, <2>3 DEF Good, Outlives, InProgress
    <3> QED
      BY <3>2, <3>3, <3>4, <3>5 DEF Good
  <2> QED
    BY <1>1, <1>2, <1>4, <2>4, <2>5, StepGood
<1> QED
  BY <1>5, <1>6

\* The wrapper answers a GET.
LEMMA ServeChunkStep ==
    ASSUME IInv, NEW t \in Transfers, ServeChunk(t)
    PROVE  IInv'
<1>1. /\ ResultTypeOK /\ Good(t) /\ StoreTypeOK /\ fetch[t] \in Fetches
      /\ fetch[t].st = "waiting"
  BY DEF IInv, ResultTypeOK, ServeChunk
<1>2. StoreTypeOK' /\ \A u \in Transfers : Keeps(u)
  BY <1>1, ExpireKeeps DEF ServeChunk
<1> DEFINE r == ResultChunk(t, fetch[t].offset, Expected(fetch[t]))
<1>3. reply'[t] = r /\ fetch'[t] = fetch[t] /\ job'[t] = job[t]
      /\ erasing' = erasing
  BY <1>1 DEF ServeChunk, ResultTypeOK
<1>4. /\ r \in Replies
      /\ r.status \in {"notfound", "other", "chunk"}
      /\ r.status = "chunk" =>
            \A i \in 1..Len(r.data) : r.data[i] = fetch[t].offset + i
  <2>1. fetch[t].offset \in Nat /\ Expected(fetch[t]) \in Nat
    BY <1>1, Constants DEF Good, Buffered, InProgress, Fetches, Expected
  <2> QED
    BY <2>1, ChunkServed
<1> HIDE DEF r
<1>5. Alone(t)
  BY <1>1, <1>2, <1>3 DEF Alone, ResultTypeOK, ServeChunk
<1>6. TypedAt(t)
  BY <1>1, <1>3, <1>4 DEF TypedAt, ResultTypeOK
<1>7. Good(t)'
  <2>1. Listening(t)' /\ Answered(t)' /\ Served(t)' /\ Erased(t)'
    BY <1>1, <1>3, <1>4 DEF Listening, Answered, Served, Erased
  <2>2. Buffered(t)' /\ Whole(t)' /\ Blank(t)'
    BY <1>1, <1>3 DEF Good, Buffered, Whole, Blank, InProgress
  <2>3. Handled(t)' /\ Deleting(t)' /\ Gone(t)'
    BY <1>1, <1>3, <1>4 DEF Good, Handled, Deleting, Gone, InProgress
  <2>4. Outlives(t)'
    BY <1>1, <1>2, <1>3, <1>4, Constants
    DEF Good, Outlives, InProgress, Keeps, StoreTypeOK, Fetches
  <2> QED
    BY <2>1, <2>2, <2>3, <2>4 DEF Good
<1> QED
  BY <1>1, <1>2, <1>5, <1>6, <1>7, StepGood

\* A request that tries a chunk again keeps what it has.
LEMMA TryAgain ==
    ASSUME NEW t \in Transfers, NEW data, ResultTypeOK, Good(t),
           fetch[t].st = "waiting",
           fetch'[t] = Retry(fetch[t], data),
           reply'[t] = NoReply, job'[t] = job[t],
           erasing' = erasing, results' = results
    PROVE  Good(t)'
<1>1. fetch[t] \in Fetches
  BY DEF ResultTypeOK
<1>2. CASE fetch'[t].st = "cleaning"
  <2>1. fetch'[t].deletes = 0
    BY <1>1, RetryShape DEF Good, Blank
  <2> QED
    BY <1>1, <1>2, <2>1, RetryShape, LetGo
<1>3. CASE fetch'[t].st = "fetching"
  <2>1. /\ fetch'[t].offset = fetch[t].offset
        /\ fetch'[t].length = fetch[t].length
        /\ fetch'[t].digest = fetch[t].digest
        /\ fetch'[t].left = fetch[t].left
        /\ fetch'[t].body = fetch[t].body
        /\ fetch'[t].verified = fetch[t].verified
        /\ fetch'[t].cleaned = fetch[t].cleaned
        /\ fetch'[t].deletes = fetch[t].deletes
    BY <1>1, <1>3, RetryShape
  <2>2. Listening(t)' /\ Answered(t)' /\ Served(t)' /\ Erased(t)'
    BY <1>3 DEF Listening, Answered, Served, Erased
  <2>3. Buffered(t)' /\ Whole(t)' /\ Blank(t)'
    BY <1>3, <2>1 DEF Good, Buffered, Whole, Blank, InProgress
  <2>4. Handled(t)' /\ Deleting(t)' /\ Gone(t)'
    BY <1>3, <2>1
    DEF Good, Handled, Deleting, Gone, InProgress, NoReply, Reply
  <2>5. Outlives(t)'
    BY <1>3, <2>1 DEF Good, Outlives, InProgress
  <2> QED
    BY <2>2, <2>3, <2>4, <2>5 DEF Good
<1> QED
  BY <1>1, <1>2, <1>3, RetryShape

\* An attempt fails.
LEMMA ChunkFailsStep ==
    ASSUME IInv, NEW t \in Transfers, ChunkFails(t)
    PROVE  IInv'
<1>1. /\ ResultTypeOK /\ Good(t) /\ StoreTypeOK /\ fetch[t] \in Fetches
      /\ fetch[t].st = "waiting"
  BY DEF IInv, ResultTypeOK, ChunkFails
<1>2. StoreTypeOK' /\ \A u \in Transfers : Keeps(u)
  BY <1>1, SameStore DEF ChunkFails
<1>3. fetch'[t] = Retry(fetch[t], << >>) /\ reply'[t] = NoReply
      /\ job'[t] = job[t] /\ erasing' = erasing /\ results' = results
  BY <1>1 DEF ChunkFails, Set, HangUp, ResultTypeOK
<1>4. Alone(t)
  BY <1>1, <1>2, <1>3 DEF Alone, ResultTypeOK, ChunkFails, Set, HangUp
<1>5. TypedAt(t)
  BY <1>1, <1>3, RetryShape, PlainReplies DEF TypedAt, ResultTypeOK
<1>6. Good(t)'
  BY <1>1, <1>3, TryAgain
<1> QED
  BY <1>1, <1>2, <1>4, <1>5, <1>6, StepGood

\* An answer to a GET arrives.
LEMMA TakeChunkStep ==
    ASSUME IInv, NEW t \in Transfers, TakeChunk(t)
    PROVE  IInv'
<1> DEFINE f == fetch[t]
<1>1. /\ ResultTypeOK /\ Good(t) /\ StoreTypeOK /\ f \in Fetches
      /\ reply[t] \in Replies /\ f.st = "waiting"
  BY DEF IInv, ResultTypeOK, TakeChunk
<1>2. StoreTypeOK' /\ \A u \in Transfers : Keeps(u)
  BY <1>1, SameStore DEF TakeChunk
<1> DEFINE Right(r) == /\ r.status = "chunk" /\ r.n = f.offset
                       /\ Len(r.data) = Expected(f)
<1>3. PICK r \in Received(reply[t], DamagedChunks(reply[t])) :
         fetch' = [fetch EXCEPT ![t] =
            IF r.status \in {"notfound", "denied"} THEN Failed(f)
            ELSE IF Right(r) THEN Extend(f, r.data) ELSE Retry(f, r.data)]
  BY DEF TakeChunk, Set
<1>4. /\ r \in Replies
      /\ r.status \in {reply[t].status, "other", "denied"}
      /\ r.status = reply[t].status =>
            \A i \in 1..Len(r.data) :
               \/ r.data[i] = 0
               \/ i \in 1..Len(reply[t].data) /\ r.data[i] = reply[t].data[i]
  BY <1>1, ChunkDamage
<1>5. reply'[t] = NoReply /\ job'[t] = job[t] /\ erasing' = erasing
      /\ results' = results
  BY <1>1 DEF TakeChunk, HangUp, ResultTypeOK
<1>6. Alone(t)
  BY <1>1, <1>2, <1>3 DEF Alone, ResultTypeOK, TakeChunk, HangUp
<1> SUFFICES TypedAt(t) /\ Good(t)'
  BY <1>1, <1>2, <1>6, StepGood
<1>7. CASE fetch'[t] = Failed(f)
  <2>1. TypedAt(t)
    BY <1>1, <1>5, <1>7, FailedShape, PlainReplies DEF TypedAt, ResultTypeOK
  <2>2. f.deletes = 0
    BY <1>1 DEF Good, Blank
  <2>3. Good(t)'
    BY <1>1, <1>5, <1>7, <2>2, FailedShape, LetGo
  <2> QED
    BY <2>1, <2>3
<1>8. CASE fetch'[t] = Retry(f, r.data)
  <2>1. TypedAt(t)
    BY <1>1, <1>5, <1>8, RetryShape, PlainReplies DEF TypedAt, ResultTypeOK
  <2>2. Good(t)'
    BY <1>1, <1>5, <1>8, TryAgain
  <2> QED
    BY <2>1, <2>2
<1>9. CASE fetch'[t] = Extend(f, r.data) /\ Right(r)
  <2>1. /\ f.offset < f.length /\ Len(f.body) = f.offset
        /\ \A i \in 1..Len(f.body) : f.body[i] \in {0, i}
        /\ f.digest \in {Original(t), << >>} /\ ~f.verified /\ ~f.cleaned
        /\ job[t] = "over" /\ t \notin erasing /\ f.deletes = 0
    BY <1>1
    DEF Good, Buffered, Blank, Gone, Handled, Deleting, InProgress
  <2>2. \A i \in 1..Len(r.data) : r.data[i] \in {0, f.offset + i}
    BY <1>1, <1>4, <1>9 DEF Good, Served
  <2>3. r.data \in Seq(Nat)
    BY <1>4 DEF Replies
  <2> DEFINE g == Extend(f, r.data)
  <2>4. /\ g \in Fetches
        /\ g.st \in {"fetching", "cleaning"}
        /\ g.cleaned = f.cleaned /\ g.deletes = f.deletes
        /\ g.verified => g.st = "cleaning" /\ g.body = f.digest
                         /\ Len(g.body) > 0
        /\ g.st = "fetching" =>
              /\ g.offset < g.length /\ Len(g.body) = g.offset
              /\ \A i \in 1..Len(g.body) : g.body[i] \in {0, i}
              /\ g.digest = f.digest /\ g.left = f.left
    BY <1>1, <1>9, <2>1, <2>2, <2>3, ExtendShape
  <2>5. fetch'[t] = g
    BY <1>9
  <2> HIDE DEF g
  <2>6. TypedAt(t)
    BY <1>1, <1>5, <2>4, <2>5, PlainReplies DEF TypedAt, ResultTypeOK
  <2>7. Listening(t)' /\ Answered(t)' /\ Served(t)' /\ Erased(t)'
    BY <1>5, <2>4, <2>5 DEF Listening, Answered, Served, Erased
  <2>8. Buffered(t)' /\ Blank(t)'
    BY <2>1, <2>4, <2>5 DEF Buffered, Blank, InProgress
  <2>9. Whole(t)'
    BY <2>1, <2>4, <2>5, EmptyBody DEF Whole
  <2>10. Handled(t)' /\ Deleting(t)' /\ Gone(t)'
    BY <1>5, <2>1, <2>4, <2>5 DEF Handled, Deleting, Gone
  <2>11. Outlives(t)'
    BY <1>1, <1>5, <2>4, <2>5
    DEF Good, Outlives, InProgress, NoReply, Reply
  <2> QED
    BY <2>6, <2>7, <2>8, <2>9, <2>10, <2>11 DEF Good
<1> QED
  BY <1>1, <1>3, <1>7, <1>8, <1>9 DEF ResultTypeOK

\* A DELETE is sent.
LEMMA RequestDeleteStep ==
    ASSUME IInv, NEW t \in Transfers, RequestDelete(t)
    PROVE  IInv'
<1>1. /\ ResultTypeOK /\ Good(t) /\ StoreTypeOK /\ fetch[t] \in Fetches
      /\ fetch[t].st = "cleaning"
  BY DEF IInv, ResultTypeOK, RequestDelete
<1>2. StoreTypeOK' /\ \A u \in Transfers : Keeps(u)
  BY <1>1, SameStore DEF RequestDelete
<1>3. PICK g : g = [fetch[t] EXCEPT !.st = "deleting", !.deletes = @ + 1]
  OBVIOUS
<1>4. fetch'[t] = g /\ reply[t] = NoReply /\ reply'[t] = reply[t]
      /\ job'[t] = job[t] /\ erasing' = erasing \cup {t} /\ results' = results
  BY <1>1, <1>3 DEF RequestDelete, Set, ResultTypeOK, Good, Listening
<1>5. fetch[t].deletes \in {0, 1} /\ job[t] = "over" /\ ~fetch[t].cleaned
  BY <1>1 DEF Good, Blank, Handled, Gone
<1>6. /\ g \in Fetches /\ g.st = "deleting" /\ g.verified = fetch[t].verified
      /\ g.body = fetch[t].body /\ g.cleaned = fetch[t].cleaned
  <2>1. fetch[t].deletes + 1 \in 0..2 /\ "deleting" \in Phases
    BY <1>5 DEF Phases
  <2> QED
    BY <1>1, <1>3, <2>1 DEF Fetches
<1>7. Alone(t)
  BY <1>1, <1>2, <1>4 DEF Alone, ResultTypeOK, RequestDelete, Set
<1>8. TypedAt(t)
  BY <1>1, <1>4, <1>6, PlainReplies DEF TypedAt, ResultTypeOK
<1>9. Good(t)'
  BY <1>1, <1>4, <1>5, <1>6
  DEF Good, Listening, Answered, Served, Erased, Buffered, Whole, Blank,
      Handled, Deleting, Gone, Outlives, InProgress, NoReply, Reply
<1> QED
  BY <1>1, <1>2, <1>7, <1>8, <1>9, StepGood

\* The wrapper serves a DELETE.
LEMMA ServeDeleteStep ==
    ASSUME IInv, NEW t \in Transfers, ServeDelete(t)
    PROVE  IInv'
<1>1. /\ ResultTypeOK /\ Good(t) /\ StoreTypeOK /\ fetch[t] \in Fetches
      /\ reply[t] \in Replies
      /\ fetch[t].st \in {"cleaning", "deleting", "done"}
  BY DEF IInv, ResultTypeOK, ServeDelete, Good, Deleting
<1>2. /\ StoreTypeOK' /\ t \notin DOMAIN results'
      /\ \A u \in Transfers \ {t} : Keeps(u)
  BY <1>1, DeleteKeeps DEF ServeDelete
<1>3. /\ fetch'[t] = fetch[t] /\ job'[t] = job[t]
      /\ erasing' = erasing \ {t}
      /\ reply'[t] = IF fetch[t].st = "deleting" THEN Reply("gone") ELSE reply[t]
  BY <1>1 DEF ServeDelete, ResultTypeOK
<1>4. Alone(t)
  BY <1>1, <1>2, <1>3 DEF Alone, ResultTypeOK, ServeDelete
<1>5. TypedAt(t)
  BY <1>1, <1>3, PlainReplies DEF TypedAt, ResultTypeOK
<1>6. Good(t)'
  <2>1. fetch[t].st # "deleting" => reply'[t] = NoReply
    BY <1>1, <1>3 DEF Good, Listening
  <2>2. reply'[t].status \in {"none", "gone"}
    BY <1>3, <2>1 DEF NoReply, Reply
  <2>3. Listening(t)' /\ Answered(t)' /\ Served(t)' /\ Erased(t)'
    BY <1>1, <1>2, <1>3, <2>1, <2>2
    DEF Listening, Answered, Served, Erased
  <2>4. Buffered(t)' /\ Whole(t)' /\ Blank(t)'
    BY <1>1, <1>3 DEF Good, Buffered, Whole, Blank, InProgress
  <2>5. Handled(t)' /\ Deleting(t)' /\ Gone(t)' /\ Outlives(t)'
    BY <1>1, <1>2, <1>3, <2>2
    DEF Good, Handled, Deleting, Gone, Outlives, InProgress
  <2> QED
    BY <2>3, <2>4, <2>5 DEF Good
<1> QED
  BY <1>1, <1>2, <1>4, <1>5, <1>6, StepGood

\* The wrapper refuses a DELETE.
LEMMA RefuseDeleteStep ==
    ASSUME IInv, NEW t \in Transfers, RefuseDelete(t)
    PROVE  IInv'
<1>1. /\ ResultTypeOK /\ Good(t) /\ StoreTypeOK /\ fetch[t] \in Fetches
      /\ reply[t] \in Replies
      /\ fetch[t].st \in {"cleaning", "deleting", "done"}
  BY DEF IInv, ResultTypeOK, RefuseDelete, Good, Deleting
<1>2. StoreTypeOK' /\ \A u \in Transfers : Keeps(u)
  BY <1>1, SameStore DEF RefuseDelete
<1>3. /\ fetch'[t] = fetch[t] /\ job'[t] = job[t] /\ results' = results
      /\ erasing' = erasing \ {t}
      /\ reply'[t] = IF fetch[t].st = "deleting" THEN Reply("denied") ELSE reply[t]
  BY <1>1 DEF RefuseDelete, ResultTypeOK
<1>4. Alone(t)
  BY <1>1, <1>2, <1>3 DEF Alone, ResultTypeOK, RefuseDelete
<1>5. TypedAt(t)
  BY <1>1, <1>3, PlainReplies DEF TypedAt, ResultTypeOK
<1>6. Good(t)'
  <2>1. fetch[t].st # "deleting" => reply'[t] = NoReply
    BY <1>1, <1>3 DEF Good, Listening
  <2>2. reply'[t].status \in {"none", "denied"}
    BY <1>3, <2>1 DEF NoReply, Reply
  <2>3. Listening(t)' /\ Answered(t)' /\ Served(t)' /\ Erased(t)'
    BY <1>1, <1>3, <2>1, <2>2 DEF Listening, Answered, Served, Erased
  <2>4. Buffered(t)' /\ Whole(t)' /\ Blank(t)'
    BY <1>1, <1>3 DEF Good, Buffered, Whole, Blank, InProgress
  <2>5. Handled(t)' /\ Deleting(t)' /\ Gone(t)' /\ Outlives(t)'
    BY <1>1, <1>3, <2>2
    DEF Good, Handled, Deleting, Gone, Outlives, InProgress
  <2> QED
    BY <2>3, <2>4, <2>5 DEF Good
<1> QED
  BY <1>1, <1>2, <1>4, <1>5, <1>6, StepGood

\* A DELETE vanishes.
LEMMA LoseDeleteStep ==
    ASSUME IInv, NEW t \in Transfers, LoseDelete(t)
    PROVE  IInv'
<1>1. /\ ResultTypeOK /\ Good(t) /\ StoreTypeOK /\ fetch[t] \in Fetches
      /\ reply[t] \in Replies
  BY DEF IInv, ResultTypeOK
<1>2. StoreTypeOK' /\ \A u \in Transfers : Keeps(u)
  BY <1>1, SameStore DEF LoseDelete
<1>3. /\ fetch'[t] = fetch[t] /\ job'[t] = job[t] /\ reply'[t] = reply[t]
      /\ erasing' = erasing \ {t}
  BY DEF LoseDelete
<1>4. Alone(t)
  BY <1>1, <1>2, <1>3 DEF Alone, ResultTypeOK, LoseDelete
<1>5. TypedAt(t)
  BY <1>1, <1>3 DEF TypedAt, ResultTypeOK
<1>6. Good(t)'
  BY <1>1, <1>2, <1>3, OthersGood
<1> QED
  BY <1>1, <1>2, <1>4, <1>5, <1>6, StepGood

\* The answer to a DELETE arrives.
LEMMA TakeDeleteStep ==
    ASSUME IInv, NEW t \in Transfers, TakeDelete(t)
    PROVE  IInv'
<1> DEFINE f == fetch[t]
<1>1. /\ ResultTypeOK /\ Good(t) /\ StoreTypeOK /\ f \in Fetches
      /\ reply[t] \in Replies /\ f.st = "deleting"
  BY DEF IInv, ResultTypeOK, TakeDelete
<1>2. StoreTypeOK' /\ \A u \in Transfers : Keeps(u)
  BY <1>1, SameStore DEF TakeDelete
<1> DEFINE e == [Ended(f) EXCEPT !.cleaned = TRUE]
<1>3. PICK r \in Received(reply[t], DamagedChunks(reply[t])) :
         fetch' = [fetch EXCEPT ![t] =
            IF Cleaned(r.status) THEN e
            ELSE IF r.status = "denied" THEN Ended(f) ELSE TryDeleteAgain(f)]
  BY DEF TakeDelete, Set
<1>4. r.status \in {reply[t].status, "other", "denied"}
  BY <1>1, ChunkDamage
<1>5. reply'[t] = NoReply /\ job'[t] = job[t] /\ erasing' = erasing
      /\ results' = results
  BY <1>1 DEF TakeDelete, HangUp, ResultTypeOK
<1>6. Alone(t)
  BY <1>1, <1>2, <1>3 DEF Alone, ResultTypeOK, TakeDelete, HangUp
<1> SUFFICES TypedAt(t) /\ Good(t)'
  BY <1>1, <1>2, <1>6, StepGood
<1>7. CASE fetch'[t] = Ended(f) \/ fetch'[t] = TryDeleteAgain(f)
  <2>1. TypedAt(t)
    BY <1>1, <1>5, <1>7, EndedShape, TryDeleteShape, PlainReplies
    DEF TypedAt, ResultTypeOK
  <2>2. Good(t)'
    BY <1>1, <1>5, <1>7, EndedShape, TryDeleteShape, LetGo
  <2> QED
    BY <2>1, <2>2
<1>8. CASE fetch'[t] = e /\ Cleaned(r.status)
  <2>1. /\ e \in Fetches /\ e.st = "done" /\ e.verified = f.verified
        /\ e.body = f.body
    BY <1>1, EndedShape DEF Fetches
  <2>2. t \notin DOMAIN results /\ job[t] = "over"
    BY <1>1, <1>4, <1>8 DEF Good, Erased, Handled, Cleaned
  <2>3. TypedAt(t)
    BY <1>1, <1>5, <1>8, <2>1, PlainReplies DEF TypedAt, ResultTypeOK
  <2> HIDE DEF e
  <2>4. Good(t)'
    BY <1>1, <1>5, <1>8, <2>1, <2>2
    DEF Good, Listening, Answered, Served, Erased, Buffered, Whole, Blank,
        Handled, Deleting, Gone, Outlives, InProgress, NoReply, Reply
  <2> QED
    BY <2>3, <2>4
<1> QED
  BY <1>1, <1>3, <1>7, <1>8 DEF ResultTypeOK

-----------------------------------------------------------------------------
\* The steps of the wrapper and of the clock, which touch every request.

\* A restart empties the store.
LEMMA RestartStep ==
    ASSUME IInv, Restart
    PROVE  IInv'
<1>1. /\ "restart" \in TransferFaults /\ DOMAIN results' = {}
      /\ fetch' = fetch /\ reply' = reply /\ erasing' = erasing
      /\ job' = [t \in Transfers |->
                   IF job[t] = "working" THEN "over" ELSE job[t]]
  BY DEF Restart, RestartStore
<1>2. ResultTypeOK'
  BY <1>1 DEF IInv, ResultTypeOK, StoreTypeOK
<1>3. ASSUME NEW t \in Transfers PROVE Good(t)'
  <2>1. Good(t) /\ job'[t] \in {job[t], "over"}
    BY <1>1 DEF IInv
  <2>2. Listening(t)' /\ Answered(t)' /\ Served(t)' /\ Erased(t)'
    BY <1>1, <2>1 DEF Good, Listening, Answered, Served, Erased
  <2>3. Buffered(t)' /\ Whole(t)' /\ Blank(t)'
    BY <1>1, <2>1 DEF Good, Buffered, Whole, Blank, InProgress
  <2>4. Handled(t)' /\ Deleting(t)' /\ Gone(t)'
    BY <1>1, <2>1 DEF Good, Handled, Deleting, Gone, InProgress
  <2>5. Outlives(t)'
    BY <1>1 DEF Outlives
  <2> QED
    BY <2>2, <2>3, <2>4, <2>5 DEF Good
<1> QED
  BY <1>2, <1>3 DEF IInv

\* Time passes for the deadlines and for the results alike.
LEMMA TickStep ==
    ASSUME IInv, Tick
    PROVE  IInv'
<1>1. /\ reply' = reply /\ job' = job /\ erasing' = erasing
      /\ DOMAIN results' = DOMAIN results
      /\ \A t \in DOMAIN results : results'[t] = Countdown(results[t])
      /\ \A t \in DOMAIN results : results[t] \in 0..Ttl
      /\ DOMAIN results \subseteq Transfers
  BY DEF Tick, StoreTick, IInv, ResultTypeOK, StoreTypeOK
<1> DEFINE F(t) == [fetch[t] EXCEPT !.left = Countdown(@), !.wait = Countdown(@)]
<1>2. fetch' = [t \in Transfers |-> F(t)]
  BY DEF Tick
<1>3. ASSUME NEW t \in Transfers
      PROVE  /\ F(t) \in Fetches
             /\ F(t).st = fetch[t].st /\ F(t).length = fetch[t].length
             /\ F(t).digest = fetch[t].digest /\ F(t).offset = fetch[t].offset
             /\ F(t).body = fetch[t].body /\ F(t).verified = fetch[t].verified
             /\ F(t).deletes = fetch[t].deletes
             /\ F(t).cleaned = fetch[t].cleaned
             /\ F(t).left = Countdown(fetch[t].left)
  <2>1. fetch[t] \in Fetches
    BY DEF IInv, ResultTypeOK
  <2>2. /\ Countdown(fetch[t].left) \in 0..Timeout
        /\ Countdown(fetch[t].wait) \in 0..ChunkTimeout
    BY <2>1, Constants DEF Fetches, Countdown
  <2> QED
    BY <2>1, <2>2 DEF Fetches
<1> HIDE DEF F
<1>4. ResultTypeOK'
  <2>1. StoreTypeOK'
    BY <1>1, Constants DEF StoreTypeOK, Countdown
  <2>2. fetch' \in [Transfers -> Fetches]
    BY <1>2, <1>3
  <2> QED
    BY <1>1, <2>1, <2>2 DEF IInv, ResultTypeOK
<1>5. ASSUME NEW t \in Transfers PROVE Good(t)'
  <2> DEFINE f == fetch'[t]
  <2>1. /\ f.st = fetch[t].st /\ f.length = fetch[t].length
        /\ f.digest = fetch[t].digest /\ f.offset = fetch[t].offset
        /\ f.body = fetch[t].body /\ f.verified = fetch[t].verified
        /\ f.deletes = fetch[t].deletes /\ f.cleaned = fetch[t].cleaned
        /\ f.left = Countdown(fetch[t].left)
        /\ Good(t) /\ fetch[t].left \in 0..Timeout
    BY <1>2, <1>3 DEF IInv, ResultTypeOK, Fetches
  <2>2. Listening(t)' /\ Answered(t)' /\ Served(t)' /\ Erased(t)'
    BY <1>1, <2>1 DEF Good, Listening, Answered, Served, Erased
  <2>3. Buffered(t)' /\ Whole(t)' /\ Blank(t)'
    BY <1>1, <2>1 DEF Good, Buffered, Whole, Blank, InProgress
  <2>4. Handled(t)' /\ Deleting(t)' /\ Gone(t)'
    BY <1>1, <2>1 DEF Good, Handled, Deleting, Gone, InProgress
  <2>5. Outlives(t)'
    BY <1>1, <2>1, Constants DEF Good, Outlives, InProgress, Countdown
  <2> QED
    BY <2>2, <2>3, <2>4, <2>5 DEF Good
<1> QED
  BY <1>4, <1>5 DEF IInv

-----------------------------------------------------------------------------
\* The theorems.

\* The invariant holds at the start.
LEMMA ResultInit == Init => IInv
<1> SUFFICES ASSUME Init PROVE IInv
  OBVIOUS
<1>1. NoFetch \in Fetches /\ NoFetch.st = "idle" /\ ~NoFetch.verified
      /\ ~NoFetch.cleaned
  BY Constants, EmptyBody DEF NoFetch, Fetches, Phases
<1>2. DOMAIN results = {}
  BY DEF Init, StoreInit
<1>3. ResultTypeOK
  BY <1>1, <1>2, PlainReplies DEF Init, ResultTypeOK, StoreTypeOK
<1>4. ASSUME NEW t \in Transfers PROVE Good(t)
  <2>1. fetch[t] = NoFetch /\ reply[t] = NoReply /\ erasing = {}
    BY DEF Init
  <2> QED
    BY <1>1, <2>1
    DEF Good, Listening, Answered, Served, Erased, Buffered, Whole, Blank,
        Handled, Deleting, Gone, Outlives, InProgress, NoReply, Reply
<1> QED
  BY <1>3, <1>4 DEF IInv

\* Every step keeps it.
LEMMA ResultStep == IInv /\ [Next]_vars => IInv'
<1> SUFFICES ASSUME IInv, [Next]_vars PROVE IInv'
  OBVIOUS
<1>1. CASE UNCHANGED vars
  BY <1>1
  DEF IInv, vars, ResultTypeOK, StoreTypeOK, Good, Listening, Answered, Served,
      Erased, Buffered, Whole, Blank, Handled, Deleting, Gone, Outlives,
      InProgress
<1>2. CASE Restart
  BY <1>2, RestartStep
<1>3. CASE Tick
  BY <1>3, TickStep
<1>4. ASSUME NEW t \in Transfers, Step(t) PROVE IInv'
  BY <1>4, PostStep, ManifestStep, PostFailsStep, TranscribedStep,
     RequestChunkStep, ServeChunkStep, TakeChunkStep, ChunkFailsStep,
     RequestDeleteStep, ServeDeleteStep, RefuseDeleteStep, LoseDeleteStep,
     TakeDeleteStep, DeleteFailsStep, CleanupTimesOutStep
  DEF Step
<1> QED
  BY <1>1, <1>2, <1>3, <1>4 DEF Next

\* The invariant always holds.
LEMMA ResultInvariant == Spec => []IInv
BY ResultInit, ResultStep, PTL DEF Spec

\* Every variable of the transfer keeps to its type.
THEOREM ResultTypeCorrect == Spec => []ResultTypeOK
<1>1. IInv => ResultTypeOK
  BY DEF IInv
<1> QED
  BY <1>1, ResultInvariant, PTL

\* fetch_result collects the chunks in order: no retry leaves a part behind.
THEOREM ChunksCorrect == Spec => []ChunksInOrder
<1>1. IInv => ChunksInOrder
  BY DEF IInv, Good, Buffered, ChunksInOrder
<1> QED
  BY <1>1, ResultInvariant, PTL

\* What forward_asr answers with is the result, whole, under every fault.
THEOREM WholeResult == Spec => []DeliveredWhole
<1>1. IInv => DeliveredWhole
  BY DEF IInv, Good, Whole, DeliveredWhole
<1> QED
  BY <1>1, ResultInvariant, PTL

\* A result does not expire before the deadline of its transfer.
THEOREM ResultOutlives == Spec => []NotExpiredInTransfer
<1>1. IInv => NotExpiredInTransfer
  BY DEF IInv, Good, Outlives, NotExpiredInTransfer
<1> QED
  BY <1>1, ResultInvariant, PTL

\* A result whose deletion was confirmed does not come back.
THEOREM CleanedCorrect == Spec => []CleanedIsGone
<1>1. IInv => CleanedIsGone
  BY DEF IInv, Good, Gone, CleanedIsGone
<1> QED
  BY <1>1, ResultInvariant, PTL

-----------------------------------------------------------------------------
\* Every way out of fetch_result sends a DELETE.

\* A request has no manifest before it accepts one, and it leaves the clean-up
\* only after a DELETE.
Asked(t) ==
    /\ fetch[t].st \in {"idle", "posted"} => fetch[t].length = 0
    /\ (fetch[t].st = "deleting" \/ (fetch[t].st = "done" /\ fetch[t].length > 0))
          => fetch[t].deletes > 0

\* A step of one request changes the locals and the answers of no other.
LEMMA OthersAlone ==
    ASSUME ResultTypeOK, NEW t \in Transfers, Step(t), NEW u \in Transfers \ {t}
    PROVE  fetch'[u] = fetch[u] /\ reply'[u] = reply[u]
<1>1. fetch \in [Transfers -> Fetches] /\ reply \in [Transfers -> Replies]
  BY DEF ResultTypeOK
<1>2. CASE Post(t) \/ TakeManifest(t) \/ PostFails(t) \/ Transcribed(t)
  BY <1>1, <1>2 DEF Post, TakeManifest, PostFails, Transcribed, Set, HangUp
<1>3. CASE RequestChunk(t) \/ ServeChunk(t) \/ TakeChunk(t) \/ ChunkFails(t)
  BY <1>1, <1>3 DEF RequestChunk, ServeChunk, TakeChunk, ChunkFails, Set, HangUp
<1>4. CASE RequestDelete(t) \/ ServeDelete(t) \/ RefuseDelete(t) \/ LoseDelete(t)
  BY <1>1, <1>4 DEF RequestDelete, ServeDelete, RefuseDelete, LoseDelete, Set, HangUp
<1>5. CASE TakeDelete(t) \/ DeleteFails(t) \/ CleanupTimesOut(t)
  BY <1>1, <1>5 DEF TakeDelete, DeleteFails, CleanupTimesOut, Set, HangUp
<1> QED BY <1>2, <1>3, <1>4, <1>5 DEF Step

\* What ends or fails a transfer keeps the manifest and the count of DELETEs.
LEMMA KeepsManifest ==
    ASSUME NEW f \in Fetches, NEW data
    PROVE  /\ \A g \in {Ended(f), Failed(f), Retry(f, data), Extend(f, data),
                        TryDeleteAgain(f)} :
                 g.length = f.length /\ g.deletes = f.deletes
           /\ Ended(f).st = "done"
           /\ Failed(f).st = "cleaning"
           /\ Retry(f, data).st \in {"fetching", "cleaning"}
           /\ Extend(f, data).st \in {"fetching", "cleaning"}
           /\ TryDeleteAgain(f).st \in {"cleaning", "done"}
<1>1. \A g \in Fetches : Ended(g).length = g.length /\ Ended(g).deletes = g.deletes
                         /\ Ended(g).st = "done"
  BY DEF Ended, Fetches
<1>2. /\ Failed(f).length = f.length /\ Failed(f).deletes = f.deletes
      /\ Failed(f).st = "cleaning"
  BY DEF Failed, Fetches
<1>3. /\ Retry(f, data).length = f.length /\ Retry(f, data).deletes = f.deletes
      /\ Retry(f, data).st \in {"fetching", "cleaning"}
  BY <1>2 DEF Retry, Fetches
<1>4. /\ TryDeleteAgain(f).length = f.length /\ TryDeleteAgain(f).deletes = f.deletes
      /\ TryDeleteAgain(f).st \in {"cleaning", "done"}
  BY <1>1 DEF TryDeleteAgain, Fetches
<1>5. /\ Extend(f, data).length = f.length /\ Extend(f, data).deletes = f.deletes
      /\ Extend(f, data).st \in {"fetching", "cleaning"}
  <2> DEFINE g == [f EXCEPT !.body = @ \o data, !.offset = @ + ChunkSize,
                            !.attempt = 1, !.wait = 0, !.st = "fetching"]
             h == [Failed(g) EXCEPT !.verified = Verified(g)]
  <2>1. g.length = f.length /\ g.deletes = f.deletes /\ g.st = "fetching"
    BY DEF Fetches
  <2>2. DOMAIN g = DOMAIN f
    OBVIOUS
  <2>3. h.length = g.length /\ h.deletes = g.deletes /\ h.st = "cleaning"
    BY <2>2 DEF Failed, Fetches
  <2>4. Extend(f, data) = IF g.offset < g.length THEN g ELSE h
    BY DEF Extend
  <2> HIDE DEF g, h
  <2> QED BY <2>1, <2>3, <2>4
<1> QED BY <1>1, <1>2, <1>3, <1>4, <1>5

\* A step of a request keeps it.
LEMMA AskedStep ==
    ASSUME IInv, NEW t \in Transfers, Asked(t), Step(t)
    PROVE  Asked(t)'
<1> DEFINE f == fetch[t]
<1>1. /\ f \in Fetches /\ fetch \in [Transfers -> Fetches]
      /\ f.deletes \in Nat
  BY DEF IInv, ResultTypeOK, Fetches
<1>2. CASE Post(t)
  <2>1. fetch'[t].st = "posted" /\ fetch'[t].length = 0
    BY <1>1, <1>2 DEF Post, Set, NoFetch
  <2> QED BY <2>1 DEF Asked
<1>3. CASE TakeManifest(t)
  <2>1. PICK r : fetch'[t] = Accept(f, r) \/ fetch'[t] = Ended(f)
    BY <1>1, <1>3 DEF TakeManifest, Set
  <2>2. Accept(f, r).st = "fetching"
    BY <1>1 DEF Accept, Fetches
  <2> QED BY <1>1, <1>3, <2>1, <2>2, KeepsManifest DEF Asked, TakeManifest
<1>4. CASE PostFails(t)
  BY <1>1, <1>4, KeepsManifest DEF Asked, PostFails, Set
<1>5. CASE UNCHANGED fetch
  BY <1>5 DEF Asked
<1>6. CASE RequestChunk(t)
  <2>1. fetch'[t].st \in {"waiting", "cleaning"}
    <3>1. PICK w : fetch'[t] \in {Failed(f), [f EXCEPT !.st = "waiting", !.wait = w]}
      BY <1>1, <1>6 DEF RequestChunk, Set
    <3>2. [f EXCEPT !.st = "waiting", !.wait = w].st = "waiting"
      BY <1>1 DEF Fetches
    <3> QED BY <1>1, <3>1, <3>2, KeepsManifest
  <2> QED BY <2>1 DEF Asked
<1>7. CASE TakeChunk(t)
  <2>1. fetch'[t].st \in {"fetching", "cleaning"}
    BY <1>1, <1>7, KeepsManifest DEF TakeChunk, Set
  <2> QED BY <2>1 DEF Asked
<1>8. CASE ChunkFails(t)
  <2>1. fetch'[t].st \in {"fetching", "cleaning"}
    BY <1>1, <1>8, KeepsManifest DEF ChunkFails, Set
  <2> QED BY <2>1 DEF Asked
<1>9. CASE RequestDelete(t)
  <2>1. fetch'[t].st = "deleting" /\ fetch'[t].deletes = f.deletes + 1
    BY <1>1, <1>9 DEF RequestDelete, Set, Fetches
  <2> QED BY <1>1, <2>1 DEF Asked
<1>10. CASE TakeDelete(t)
  <2>1. [Ended(f) EXCEPT !.cleaned = TRUE].deletes = Ended(f).deletes
        /\ [Ended(f) EXCEPT !.cleaned = TRUE].st = Ended(f).st
    BY <1>1 DEF Ended, Fetches
  <2>2. fetch'[t].deletes = f.deletes /\ fetch'[t].st \in {"cleaning", "done"}
    BY <1>1, <1>10, <2>1, KeepsManifest DEF TakeDelete, Set
  <2> QED BY <1>10, <2>2 DEF Asked, TakeDelete
<1>11. CASE DeleteFails(t)
  <2>1. fetch'[t].deletes = f.deletes /\ fetch'[t].st \in {"cleaning", "done"}
    BY <1>1, <1>11, KeepsManifest DEF DeleteFails, Set
  <2> QED BY <1>11, <2>1 DEF Asked, DeleteFails
<1>12. CASE CleanupTimesOut(t)
  BY <1>1, <1>12, KeepsManifest DEF Asked, CleanupTimesOut, Set
<1> QED BY <1>2, <1>3, <1>4, <1>5, <1>6, <1>7, <1>8, <1>9, <1>10, <1>11, <1>12
        DEF Step, Transcribed, ServeChunk, ServeDelete, RefuseDelete, LoseDelete

\* A tick changes clocks only.
LEMMA TickKeeps ==
    ASSUME ResultTypeOK, Tick, NEW t \in Transfers
    PROVE  /\ \A field \in {"st", "length", "digest", "offset", "attempt", "body",
                            "verified", "deletes", "cleaned"} :
                 fetch'[t][field] = fetch[t][field]
           /\ fetch'[t].left = Countdown(fetch[t].left)
           /\ reply'[t] = reply[t]
BY DEF ResultTypeOK, Tick, Fetches

\* Every request that was given a handle has asked for its deletion when it is
\* answered.
THEOREM HandleAlwaysDeleted == Spec => []HandleDeleted
<1> DEFINE A == \A t \in Transfers : Asked(t)
<1>1. Init => A
  BY DEF Init, Asked, NoFetch
<1>2. IInv /\ A /\ [Next]_vars => A'
  <2> SUFFICES ASSUME IInv, A, [Next]_vars, NEW t \in Transfers
               PROVE  Asked(t)'
    OBVIOUS
  <2>1. ASSUME NEW u \in Transfers, Step(u)
        PROVE  Asked(t)'
    <3>1. CASE u = t
      BY <2>1, <3>1, AskedStep
    <3>2. CASE u # t
      BY <2>1, <3>2, OthersAlone DEF IInv, Asked
    <3> QED BY <3>1, <3>2
  <2>2. CASE Tick
    <3>1. /\ fetch'[t].st = fetch[t].st /\ fetch'[t].length = fetch[t].length
          /\ fetch'[t].deletes = fetch[t].deletes
      BY <2>2, TickKeeps DEF IInv
    <3> QED BY <3>1 DEF Asked
  <2>3. CASE Restart \/ UNCHANGED vars
    BY <2>3 DEF Restart, vars, Asked
  <2> QED BY <2>1, <2>2, <2>3 DEF Next
<1>3. A => HandleDeleted
  BY DEF Asked, HandleDeleted
<1> HIDE DEF A
<1> QED BY <1>1, <1>2, <1>3, ResultInvariant, PTL DEF Spec

-----------------------------------------------------------------------------
\* A transfer over a network and from a wrapper that make no mistake.

\* The bytes of a result in their order.
InOrder(body) == \A i \in 1..Len(body) : body[i] = i

\* What is fetched is the result itself, and every chunk on its way is the one
\* that was asked for; only a request without time left may find it expired.
Exact(t) ==
    /\ InProgress(t) =>
          /\ fetch[t].length = Size[t] /\ fetch[t].digest = Original(t)
          /\ InOrder(fetch[t].body)
    /\ fetch[t].st = "waiting" =>
          \/ reply[t] = NoReply
          \/ reply[t].status = "notfound" /\ fetch[t].left = 0
          \/ /\ reply[t].status = "chunk"
             /\ reply[t].n = fetch[t].offset
             /\ Len(reply[t].data) = Expected(fetch[t])

\* A buffer in order continued by the bytes that follow is in order.
LEMMA ContinuedInOrder ==
    ASSUME NEW c \in Seq(Nat), NEW data \in Seq(Nat), InOrder(c),
           \A i \in 1..Len(data) : data[i] = Len(c) + i
    PROVE  /\ c \o data \in Seq(Nat) /\ Len(c \o data) = Len(c) + Len(data)
           /\ InOrder(c \o data)
<1>1. /\ c \o data \in Seq(Nat) /\ Len(c \o data) = Len(c) + Len(data)
      /\ \A i \in 1..(Len(c) + Len(data)) :
            (c \o data)[i] = IF i <= Len(c) THEN c[i] ELSE data[i - Len(c)]
  BY ConcatProperties, ZenonT(40)
<1>2. Len(c) \in Nat /\ Len(data) \in Nat
  OBVIOUS
<1> DEFINE n == Len(c)
           m == Len(data)
           b == c \o data
<1>3. /\ \A i \in 1..n : c[i] = i
      /\ \A i \in 1..m : data[i] = n + i
      /\ \A i \in 1..(n + m) : b[i] = IF i <= n THEN c[i] ELSE data[i - n]
      /\ n \in Nat /\ m \in Nat
  BY <1>1, <1>2 DEF InOrder
<1> HIDE DEF n, m, b
<1>4. ASSUME NEW i \in 1..(n + m) PROVE b[i] = i
  <2>1. CASE i <= n
    BY <1>3, <2>1
  <2>2. CASE i > n
    <3>1. i - n \in 1..m /\ n + (i - n) = i
      BY <1>3, <2>2
    <3> QED BY <1>3, <2>2, <3>1
  <2> QED BY <1>3, <2>1, <2>2
<1>5. InOrder(b)
  BY <1>1, <1>4 DEF InOrder, n, m, b
<1> QED BY <1>1, <1>5 DEF b

\* The last chunk of a result completes it, and the digest agrees.
LEMMA ExtendExact ==
    ASSUME NEW f \in Fetches, NEW data \in Seq(Nat),
           f.offset < f.length, Len(f.body) = f.offset, InOrder(f.body),
           Len(data) = Expected(f),
           \A i \in 1..Len(data) : data[i] = f.offset + i,
           f.digest = [i \in 1..f.length |-> i]
    PROVE  LET g == Extend(f, data) IN
           /\ g.length = f.length /\ g.digest = f.digest
           /\ InOrder(g.body)
           /\ g.st = "cleaning" => g.verified
           /\ g.st \in {"fetching", "cleaning"}
<1> DEFINE b == f.body \o data
           g == [f EXCEPT !.body = @ \o data, !.offset = @ + ChunkSize,
                          !.attempt = 1, !.wait = 0, !.st = "fetching"]
           h == [Failed(g) EXCEPT !.verified = Verified(g)]
<1>1. /\ f.body \in Seq(Nat) /\ f.offset \in Nat /\ f.length \in Nat
      /\ ChunkSize \in Nat \ {0}
  BY Constants DEF Fetches
<1>2. b \in Seq(Nat) /\ Len(b) = f.offset + Expected(f) /\ InOrder(b)
  <2>1. \A i \in 1..Len(data) : data[i] = Len(f.body) + i
    OBVIOUS
  <2>2. /\ b \in Seq(Nat) /\ Len(b) = Len(f.body) + Len(data)
        /\ InOrder(b)
    <3> HIDE DEF b
    <3> QED BY <1>1, <2>1, ContinuedInOrder, Zenon DEF b
  <2> QED BY <2>2
<1>3. /\ g.body = b /\ g.offset = f.offset + ChunkSize /\ g.st = "fetching"
      /\ g.length = f.length /\ g.digest = f.digest
  BY DEF Fetches
<1>4. DOMAIN g = DOMAIN f
  OBVIOUS
<1>5. /\ h.length = g.length /\ h.digest = g.digest /\ h.body = g.body
      /\ h.st = "cleaning" /\ h.verified = Verified(g)
  <2> DEFINE v == Verified(g)
  <2> HIDE DEF v
  <2>1. LET k == [Failed(g) EXCEPT !.verified = v] IN
        /\ k.length = g.length /\ k.digest = g.digest /\ k.body = g.body
        /\ k.st = "cleaning" /\ k.verified = v
    BY <1>4 DEF Failed, Fetches
  <2> QED BY <2>1, Zenon DEF v
<1>6. Extend(f, data) = IF g.offset < g.length THEN g ELSE h
  BY DEF Extend
<1>7. ~(g.offset < g.length) => Verified(g)
  <2> SUFFICES ASSUME ~(g.offset < g.length) PROVE Verified(g)
    OBVIOUS
  <2>1. Expected(f) = f.length - f.offset
    BY <1>1, <1>3 DEF Expected
  <2>2. Len(b) = f.length
    BY <1>1, <1>2, <2>1
  <2> HIDE DEF b, g
  <2>3. b = [i \in 1..f.length |-> i]
    BY <1>1, <1>2, <2>2 DEF InOrder
  <2> QED BY <1>3, <2>3 DEF Verified
<1> HIDE DEF b, g, h
<1>8. CASE g.offset < g.length
  BY <1>2, <1>3, <1>6, <1>8
<1>9. CASE ~(g.offset < g.length)
  <2>1. h.verified
    BY <1>5, <1>7, <1>9, Zenon
  <2> QED BY <1>2, <1>3, <1>5, <1>6, <1>9, <2>1
<1> QED BY <1>8, <1>9

\* A chunk the wrapper cuts from a result has the length that was expected.
LEMMA ChunkExpected ==
    ASSUME NEW t \in Transfers, NEW f \in Fetches,
           f.length = Size[t], f.offset < f.length
    PROVE  LET r == ResultChunk(t, f.offset, Expected(f)) IN
           \/ r.status = "notfound" /\ t \notin Fresh
           \/ r.status = "chunk" /\ r.n = f.offset /\ Len(r.data) = Expected(f)
<1> DEFINE n == f.offset
           m == Expected(f)
           orig == Original(t)
<1>1. /\ n \in Nat /\ m \in Nat /\ n < Size[t] /\ n + m <= Size[t]
      /\ Size[t] \in Nat /\ m > 0
  BY Constants DEF Fetches, Expected
<1>2. orig \in Seq(Nat) /\ Len(orig) = Size[t]
  BY OriginalBody
<1> HIDE DEF n, m, orig
<1>3. Len(SubSeq(orig, n + 1, n + m)) = m
  BY <1>1, <1>2
<1>4. t \in Fresh => ResultChunk(t, n, m)
         = [status |-> "chunk", n |-> n, data |-> SubSeq(orig, n + 1, n + m)]
  <2>1. (IF n + m < Size[t] THEN n + m ELSE Size[t]) = n + m
    BY <1>1
  <2>2. ~(n >= Size[t])
    BY <1>1
  <2> QED BY <2>1, <2>2, Zenon DEF ResultChunk, orig
<1>5. t \notin Fresh => ResultChunk(t, n, m).status = "notfound"
  BY DEF ResultChunk, Reply
<1> DEFINE r == ResultChunk(t, n, m)
<1>6. \/ r.status = "notfound" /\ t \notin Fresh
      \/ r.status = "chunk" /\ r.n = n /\ Len(r.data) = m
  <2> HIDE DEF r
  <2>1. CASE t \in Fresh
    <3>1. r = [status |-> "chunk", n |-> n, data |-> SubSeq(orig, n + 1, n + m)]
      BY <1>4, <2>1, Zenon DEF r
    <3> QED BY <1>3, <3>1
  <2>2. CASE t \notin Fresh
    BY <1>5, <2>2, Zenon DEF r
  <2> QED BY <2>1, <2>2
<1> QED BY <1>6 DEF n, m

\* An undamaged answer is the one that was sent, and no connection breaks.
LEMMA NothingBreaks ==
    ASSUME TransferFaults = {}
    PROVE  /\ ~Breaks
           /\ \A r, damaged : Received(r, damaged) = {r}
BY DEF Breaks, Received

\* What a step that keeps the locals and the answer of a request leaves of it.
LEMMA SameExact ==
    ASSUME NEW t \in Transfers, Exact(t),
           fetch'[t] = fetch[t], reply'[t] = reply[t]
    PROVE  Exact(t)'
BY DEF Exact, InProgress, InOrder, Expected

\* Outside the loop over the chunks there is nothing to keep.
LEMMA NotInProgress ==
    ASSUME NEW t \in Transfers, ~InProgress(t)'
    PROVE  Exact(t)'
BY DEF Exact, InProgress

\* An answer with a chunk extends the buffer; it is never refused.
LEMMA ChunkTaken ==
    ASSUME IInv, TransferFaults = {}, NEW t \in Transfers, Exact(t), TakeChunk(t)
    PROVE  \/ /\ reply[t].status = "notfound" /\ fetch[t].left = 0
              /\ fetch'[t] = Failed(fetch[t])
           \/ /\ fetch'[t] = Extend(fetch[t], reply[t].data)
              /\ LET g == fetch'[t] IN
                 /\ g.length = Size[t] /\ g.digest = Original(t)
                 /\ InOrder(g.body)
                 /\ g.st = "cleaning" => g.verified
                 /\ g.st \in {"fetching", "cleaning"}
<1> DEFINE f == fetch[t]
           r == reply[t]
<1>1. /\ f \in Fetches /\ r \in Replies /\ f.st = "waiting" /\ Good(t)
      /\ fetch \in [Transfers -> Fetches] /\ r # NoReply
  BY DEF IInv, ResultTypeOK, TakeChunk
<1>2. fetch'[t] = IF r.status \in {"notfound", "denied"} THEN Failed(f)
                  ELSE IF /\ r.status = "chunk" /\ r.n = f.offset
                          /\ Len(r.data) = Expected(f)
                  THEN Extend(f, r.data) ELSE Retry(f, r.data)
  <2>1. Received(r, DamagedChunks(r)) = {r}
    BY NothingBreaks
  <2>2. \E q \in {r} : fetch'[t] =
           IF q.status \in {"notfound", "denied"} THEN Failed(f)
           ELSE IF /\ q.status = "chunk" /\ q.n = f.offset
                   /\ Len(q.data) = Expected(f)
           THEN Extend(f, q.data) ELSE Retry(f, q.data)
    BY <1>1, <2>1 DEF TakeChunk, Set
  <2> QED BY <2>2
<1>3. CASE r.status = "notfound" /\ f.left = 0
  BY <1>2, <1>3
<1>4. CASE r.status = "chunk" /\ r.n = f.offset /\ Len(r.data) = Expected(f)
  <2>1. fetch'[t] = Extend(f, r.data)
    BY <1>2, <1>4
  <2>2. /\ r.data \in Seq(Nat)
        /\ f.offset < f.length /\ Len(f.body) = f.offset
        /\ InOrder(f.body) /\ f.length = Size[t] /\ f.digest = Original(t)
        /\ \A i \in 1..Len(r.data) : r.data[i] = f.offset + i
    BY <1>1, <1>4 DEF Good, Buffered, Served, Exact, InProgress, Replies
  <2>3. f.digest = [i \in 1..f.length |-> i]
    BY <2>2 DEF Original
  <2>4. LET g == Extend(f, r.data) IN
        /\ g.length = f.length /\ g.digest = f.digest
        /\ InOrder(g.body)
        /\ g.st = "cleaning" => g.verified
        /\ g.st \in {"fetching", "cleaning"}
    BY <1>1, <1>4, <2>2, <2>3, ExtendExact
  <2> QED BY <2>1, <2>2, <2>4
<1> QED BY <1>1, <1>3, <1>4 DEF Exact

\* A step of the request keeps it.
LEMMA ExactStep ==
    ASSUME IInv, TransferFaults = {}, Timeout <= Ttl,
           NEW t \in Transfers, Exact(t), Step(t)
    PROVE  Exact(t)'
<1> DEFINE f == fetch[t]
<1>1. /\ f \in Fetches /\ reply[t] \in Replies /\ Good(t)
      /\ fetch \in [Transfers -> Fetches] /\ reply \in [Transfers -> Replies]
  BY DEF IInv, ResultTypeOK
<1>2. CASE Post(t)
  <2>1. fetch'[t].st = "posted"
    BY <1>1, <1>2 DEF Post, Set, NoFetch
  <2> QED BY <2>1, NotInProgress DEF InProgress
<1>3. CASE TakeManifest(t)
  <2> DEFINE r == reply[t]
  <2>1. fetch'[t] = IF ManifestValid(r) THEN Accept(f, r) ELSE Ended(f)
    BY <1>1, <1>3, NothingBreaks DEF TakeManifest, Set
  <2>2. CASE ManifestValid(r)
    <3>1. r = Manifest(t)
      BY <1>1, <1>3, <2>2
      DEF TakeManifest, ManifestValid, Good, Answered, Reply, NoReply
    <3>2. /\ fetch'[t].st = "fetching" /\ fetch'[t].length = Size[t]
          /\ fetch'[t].digest = Original(t) /\ fetch'[t].body = << >>
      BY <1>1, <1>3, <2>1, <2>2, <3>1, AcceptShape
      DEF Manifest, TakeManifest, Good, Blank
    <3> QED BY <3>2, EmptyBody DEF Exact, InOrder, InProgress
  <2>3. CASE ~ManifestValid(r)
    <3>1. fetch'[t].st = "done"
      BY <1>1, <2>1, <2>3, EndedShape
    <3> QED BY <3>1, NotInProgress DEF InProgress
  <2> QED BY <2>2, <2>3
<1>4. CASE PostFails(t)
  <2>1. fetch'[t].st = "done"
    BY <1>1, <1>4, EndedShape DEF PostFails, Set
  <2> QED BY <2>1, NotInProgress DEF InProgress
<1>5. CASE Transcribed(t)
  <2>1. fetch'[t] = f
    BY <1>5 DEF Transcribed
  <2>2. CASE f.st = "posted"
    BY <2>1, <2>2, NotInProgress DEF InProgress
  <2>3. CASE f.st # "posted"
    BY <1>5, <2>1, <2>3, SameExact DEF Transcribed
  <2> QED BY <2>2, <2>3
<1>6. CASE RequestChunk(t)
  <2>1. CASE f.left = 0
    <3>1. fetch'[t].st = "cleaning"
      BY <1>1, <1>6, <2>1, FailedShape DEF RequestChunk, Set
    <3> QED BY <3>1, NotInProgress DEF InProgress
  <2>2. CASE f.left # 0
    <3>1. PICK w : fetch'[t] = [f EXCEPT !.st = "waiting", !.wait = w]
      BY <1>1, <1>6, <2>2 DEF RequestChunk, Set
    <3>2. /\ fetch'[t].length = f.length /\ fetch'[t].digest = f.digest
          /\ fetch'[t].body = f.body
      BY <1>1, <3>1 DEF Fetches
    <3>3. reply'[t] = NoReply /\ f.st = "fetching"
      BY <1>1, <1>6 DEF RequestChunk, Good, Listening
    <3> QED BY <3>2, <3>3 DEF Exact, InProgress, InOrder
  <2> QED BY <2>1, <2>2
<1>7. CASE ServeChunk(t)
  <2> DEFINE r == ResultChunk(t, f.offset, Expected(f))
  <2>1. fetch'[t] = f /\ reply'[t] = r /\ f.st = "waiting"
    BY <1>1, <1>7 DEF ServeChunk
  <2>2. f.length = Size[t] /\ f.offset < f.length
    BY <1>1, <2>1 DEF Exact, Good, Buffered, InProgress
  <2>3. \/ r.status = "notfound" /\ t \notin Fresh
        \/ r.status = "chunk" /\ r.n = f.offset /\ Len(r.data) = Expected(f)
    BY <1>1, <2>2, ChunkExpected
  <2>4. t \notin Fresh => f.left = 0
    <3>1. f.left \in Nat /\ (t \in DOMAIN results => results[t] \in Nat)
      BY <1>1, Constants DEF IInv, ResultTypeOK, StoreTypeOK, Fetches
    <3>2. f.left > 0 => t \in DOMAIN results /\ results[t] >= f.left
      BY <1>1, <2>1 DEF Good, Outlives, InProgress
    <3> QED BY <3>1, <3>2 DEF Fresh
  <2>5. /\ fetch'[t] = f
        /\ \/ reply'[t].status = "notfound" /\ f.left = 0
           \/ /\ reply'[t].status = "chunk" /\ reply'[t].n = f.offset
              /\ Len(reply'[t].data) = Expected(f)
    BY <2>1, <2>3, <2>4
  <2> HIDE DEF r
  <2> QED BY <2>1, <2>5 DEF Exact, InProgress, InOrder, Expected
<1>8. CASE TakeChunk(t)
  <2>1. reply'[t] = NoReply
    BY <1>1, <1>8 DEF TakeChunk, HangUp
  <2>2. CASE fetch'[t] = Failed(f)
    <3>1. fetch'[t].st = "cleaning"
      BY <1>1, <2>2, FailedShape
    <3> QED BY <3>1, NotInProgress DEF InProgress
  <2>3. CASE fetch'[t] # Failed(f)
    BY <1>8, <2>1, <2>3, ChunkTaken DEF Exact, InProgress
  <2> QED BY <2>2, <2>3
<1>9. CASE ChunkFails(t)
  <2> DEFINE g == Retry(f, << >>)
  <2>1. fetch'[t] = g /\ reply'[t] = NoReply /\ f.st = "waiting"
    BY <1>1, <1>9 DEF ChunkFails, Set, HangUp
  <2>2. /\ g.st \in {"cleaning", "fetching"} /\ g.body = f.body
        /\ g.st = "fetching" => g.length = f.length /\ g.digest = f.digest
    BY <1>1, RetryShape
  <2> HIDE DEF g
  <2> QED BY <2>1, <2>2 DEF Exact, InProgress, InOrder
<1>10. CASE RequestDelete(t)
  <2>1. fetch'[t].st = "deleting"
    BY <1>1, <1>10 DEF RequestDelete, Set, Fetches
  <2> QED BY <2>1, NotInProgress DEF InProgress
<1>11. CASE ServeDelete(t) \/ RefuseDelete(t)
  <2>1. fetch'[t] = f
    BY <1>11 DEF ServeDelete, RefuseDelete
  <2>2. CASE f.st = "deleting"
    BY <2>1, <2>2, NotInProgress DEF InProgress
  <2>3. CASE f.st # "deleting"
    BY <1>11, <2>1, <2>3, SameExact DEF ServeDelete, RefuseDelete
  <2> QED BY <2>2, <2>3
<1>12. CASE LoseDelete(t)
  BY <1>12, SameExact DEF LoseDelete
<1>13. CASE TakeDelete(t)
  <2>1. [Ended(f) EXCEPT !.cleaned = TRUE].st = Ended(f).st
    BY <1>1 DEF Ended, Fetches
  <2>2. fetch'[t].st \in {"cleaning", "done"}
    BY <1>1, <1>13, <2>1, EndedShape, TryDeleteShape DEF TakeDelete, Set
  <2> QED BY <2>2, NotInProgress DEF InProgress
<1>14. CASE DeleteFails(t)
  <2>1. fetch'[t].st \in {"cleaning", "done"}
    BY <1>1, <1>14, TryDeleteShape DEF DeleteFails, Set
  <2> QED BY <2>1, NotInProgress DEF InProgress
<1>15. CASE CleanupTimesOut(t)
  <2>1. fetch'[t].st = "done"
    BY <1>1, <1>15, EndedShape DEF CleanupTimesOut, Set
  <2> QED BY <2>1, NotInProgress DEF InProgress
<1> QED BY <1>2, <1>3, <1>4, <1>5, <1>6, <1>7, <1>8, <1>9, <1>10, <1>11, <1>12,
           <1>13, <1>14, <1>15 DEF Step

\* A step of a request gives it up for time only.
LEMMA GivesUpForTime ==
    ASSUME IInv, TransferFaults = {}, NEW t \in Transfers, Exact(t), Step(t),
           GivesUp(t)
    PROVE  \/ fetch[t].left = 0
           \/ fetch[t].attempt = 3 /\ fetch[t].wait = 0
<1> DEFINE f == fetch[t]
<1>1. /\ f \in Fetches /\ Good(t)
      /\ fetch \in [Transfers -> Fetches]
      /\ f.st \in {"fetching", "waiting"} /\ fetch'[t] # f
      /\ fetch'[t].st = "cleaning" /\ ~fetch'[t].verified
  BY DEF IInv, ResultTypeOK, GivesUp, InProgress
<1>2. CASE RequestChunk(t)
  <2>1. CASE f.left # 0
    <3>1. PICK w : fetch'[t] = [f EXCEPT !.st = "waiting", !.wait = w]
      BY <1>1, <1>2, <2>1 DEF RequestChunk, Set
    <3>2. fetch'[t].st = "waiting"
      BY <1>1, <3>1 DEF Fetches
    <3> QED BY <1>1, <3>2
  <2> QED BY <2>1
<1>3. CASE TakeChunk(t)
  BY <1>1, <1>3, ChunkTaken
<1>4. CASE ChunkFails(t)
  <2>1. f.wait = 0 /\ fetch'[t] = Retry(f, << >>)
    BY <1>1, <1>4, NothingBreaks DEF ChunkFails, Set
  <2>2. CASE f.attempt # 3
    <3>1. fetch'[t] = [f EXCEPT !.st = "fetching", !.wait = 0, !.attempt = @ + 1]
      BY <2>1, <2>2 DEF Retry
    <3>2. fetch'[t].st = "fetching"
      BY <1>1, <3>1 DEF Fetches
    <3> QED BY <1>1, <3>2
  <2> QED BY <2>1, <2>2
<1>5. ~(Post(t) \/ TakeManifest(t) \/ PostFails(t) \/ RequestDelete(t)
        \/ TakeDelete(t) \/ DeleteFails(t) \/ CleanupTimesOut(t))
  BY <1>1 DEF Post, TakeManifest, PostFails, RequestDelete, TakeDelete,
              DeleteFails, CleanupTimesOut
<1>6. ~(Transcribed(t) \/ ServeChunk(t) \/ ServeDelete(t) \/ RefuseDelete(t)
        \/ LoseDelete(t))
  BY <1>1 DEF Transcribed, ServeChunk, ServeDelete, RefuseDelete, LoseDelete
<1> QED BY <1>2, <1>3, <1>4, <1>5, <1>6 DEF Step

\* With a time-out no longer than the time to live, and with a wrapper and a
\* network that make no mistake, fetch_result gives a transfer up for time
\* only: it refuses no chunk the wrapper cut, no body for its digest, and finds
\* no result expired.
THEOREM GivenUpForTime ==
    ASSUME Timeout <= Ttl PROVE Spec => FailsOnlyForTime
<1> DEFINE E == TransferFaults = {} => \A t \in Transfers : Exact(t)
           P == \A t \in Transfers : TransferFaults = {} /\ GivesUp(t) =>
                   \/ fetch[t].left = 0
                   \/ fetch[t].attempt = 3 /\ fetch[t].wait = 0
<1>1. Init => E
  BY DEF Init, Exact, InProgress, NoFetch
<1>2. IInv /\ E /\ [Next]_vars => E'
  <2> SUFFICES ASSUME IInv, E, [Next]_vars, TransferFaults = {},
                      NEW t \in Transfers
               PROVE  Exact(t)'
    OBVIOUS
  <2>1. ASSUME NEW u \in Transfers, Step(u)
        PROVE  Exact(t)'
    <3>1. CASE u = t
      BY <2>1, <3>1, ExactStep
    <3>2. CASE u # t
      <4>1. fetch'[t] = fetch[t] /\ reply'[t] = reply[t]
        BY <2>1, <3>2, OthersAlone DEF IInv
      <4> QED BY <4>1, SameExact
    <3> QED BY <3>1, <3>2
  <2>2. CASE Tick
    <3>1. /\ fetch'[t].st = fetch[t].st /\ fetch'[t].length = fetch[t].length
          /\ fetch'[t].digest = fetch[t].digest
          /\ fetch'[t].offset = fetch[t].offset
          /\ fetch'[t].body = fetch[t].body
          /\ fetch'[t].left = Countdown(fetch[t].left)
          /\ reply'[t] = reply[t]
      BY <2>2, TickKeeps DEF IInv
    <3>2. fetch[t].left = 0 => fetch'[t].left = 0
      BY <3>1 DEF Countdown
    <3> QED BY <3>1, <3>2 DEF Exact, InProgress, InOrder, Expected
  <2>3. CASE Restart
    BY <2>3 DEF Restart
  <2>4. CASE UNCHANGED vars
    BY <2>4, SameExact DEF vars
  <2> QED BY <2>1, <2>2, <2>3, <2>4 DEF Next
<1>3. IInv /\ E /\ [Next]_vars => [P]_vars
  <2> SUFFICES ASSUME IInv, E, [Next]_vars, TransferFaults = {},
                      NEW t \in Transfers, GivesUp(t)
               PROVE  \/ fetch[t].left = 0
                      \/ fetch[t].attempt = 3 /\ fetch[t].wait = 0
    OBVIOUS
  <2>1. fetch'[t].st # fetch[t].st
    BY DEF GivesUp, InProgress
  <2>2. ASSUME NEW u \in Transfers, Step(u), u # t
        PROVE  FALSE
    BY <2>1, <2>2, OthersAlone DEF IInv
  <2>3. ~Tick
    BY <2>1, TickKeeps DEF IInv
  <2>4. ~Restart /\ ~UNCHANGED vars
    BY <2>1 DEF Restart, vars
  <2> QED BY <2>2, <2>3, <2>4, GivesUpForTime DEF Next
<1>4. Spec => [][P]_vars
  <2> HIDE DEF E, P
  <2> QED BY <1>1, <1>2, <1>3, ResultInvariant, PTL DEF Spec
<1> QED BY <1>4 DEF FailsOnlyForTime
=============================================================================
