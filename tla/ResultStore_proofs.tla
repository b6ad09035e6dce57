------------------------- MODULE ResultStore_proofs -------------------------
(***************************************************************************)
(* The store of the wrapper stays within its bounds, for any number of     *)
(* requests, results of any length, any bounds and any faults.  The sum of *)
(* the stored bytes is a fold over a set; what the proof needs of it is    *)
(* derived from the definition of the fold, by taking a smallest set for   *)
(* which it would fail.                                                    *)
(***************************************************************************)
EXTENDS ResultProperties, FiniteSetTheorems, TLAPS

-----------------------------------------------------------------------------
\* The sum of the sizes.

\* Among finite sets there is one without a proper subset among them.
LEMMA Smallest ==
    ASSUME NEW S, IsFiniteSet(S), NEW C, C \subseteq SUBSET S, C # {}
    PROVE  \E s \in C : \A v \in SUBSET s : v # s => v \notin C
<1> DEFINE R == StrictSubsetOrdering(S)
<1>1. IsWellFoundedOn(R, SUBSET S)
  BY FS_StrictSubsetOrderingWellFounded, FS_FiniteSubsetsOfFinite
<1>2. PICK s \in C : \A v \in C : ~ (<<v, s>> \in R)
  <2> HIDE DEF R
  <2> QED BY <1>1, WFMin
<1>3. ASSUME NEW v \in SUBSET s, v # s PROVE v \notin C
  BY <1>2, <1>3 DEF StrictSubsetOrdering
<1> QED BY <1>3

\* The element the fold takes out of a set.
Pick(s) == CHOOSE x \in s : TRUE

\* The equation of the fold over the subsets of S.
Summed(h, S) ==
    [s \in SUBSET S |-> IF s = {} THEN 0 ELSE Size[Pick(s)] + h[s \ {Pick(s)}]]

IsSum(h, S) == h = Summed(h, S)

\* Bytes is the value at S of a function that solves the equation, if there
\* is one.
LEMMA BytesUnfold ==
    ASSUME NEW S
    PROVE  Bytes(S) = (CHOOSE h : IsSum(h, S))[S]
BY DEF Bytes, MapThenSumSet, MapThenFoldSet, IsSum, Summed, Pick

\* Bytes satisfies the equation itself.
One(s) ==
    Bytes(s) = IF s = {} THEN 0 ELSE Size[Pick(s)] + Bytes(s \ {Pick(s)})

\* A solution for S agrees with Bytes below S if Bytes satisfies the equation
\* below S.
LEMMA SumsAgree ==
    ASSUME NEW S, IsFiniteSet(S), NEW h, IsSum(h, S),
           \A v \in SUBSET S : v # S => One(v)
    PROVE  \A v \in SUBSET S : v # S => h[v] = Bytes(v)
<1> DEFINE C == {v \in SUBSET S : v # S /\ h[v] # Bytes(v)}
<1> SUFFICES ASSUME C # {} PROVE FALSE
  OBVIOUS
<1>1. PICK s \in C : \A v \in SUBSET s : v # s => v \notin C
  <2>1. C \subseteq SUBSET S
    OBVIOUS
  <2> HIDE DEF C
  <2> QED BY <2>1, Smallest
<1>2. h[s] = IF s = {} THEN 0 ELSE Size[Pick(s)] + h[s \ {Pick(s)}]
  BY DEF IsSum, Summed
<1>3. One(s)
  OBVIOUS
<1>4. CASE s = {}
  BY <1>2, <1>3, <1>4 DEF One
<1>5. CASE s # {}
  <2>1. Pick(s) \in s
    BY <1>5 DEF Pick
  <2> DEFINE v == s \ {Pick(s)}
  <2>2. v \in SUBSET s /\ v # s /\ v \in SUBSET S /\ v # S
    BY <2>1
  <2>3. h[v] = Bytes(v)
    BY <1>1, <2>2
  <2> QED BY <1>2, <1>3, <1>5, <2>3 DEF One
<1> QED BY <1>4, <1>5

\* If Bytes satisfies the equation below S, the equation has a solution for S.
LEMMA SumExists ==
    ASSUME NEW S, \A v \in SUBSET S : v # S => One(v)
    PROVE  \E h : IsSum(h, S)
<1> DEFINE h == [s \in SUBSET S |->
                    IF s = {} THEN 0 ELSE Size[Pick(s)] + Bytes(s \ {Pick(s)})]
<1>1. ASSUME NEW v \in SUBSET S, v # S PROVE h[v] = Bytes(v)
  BY <1>1 DEF One
<1>2. ASSUME NEW s \in SUBSET S, s # {}
      PROVE  h[s \ {Pick(s)}] = Bytes(s \ {Pick(s)})
  <2>1. Pick(s) \in s
    BY <1>2 DEF Pick
  <2>2. s \ {Pick(s)} \in SUBSET S /\ s \ {Pick(s)} # S
    BY <2>1
  <2> HIDE DEF h
  <2> QED BY <1>1, <2>2
<1>3. h = Summed(h, S)
  <2> DEFINE k == Summed(h, S)
  <2>1. ASSUME NEW s \in SUBSET S PROVE h[s] = k[s]
    BY <1>2 DEF Summed
  <2>2. k = [s \in SUBSET S |-> k[s]] /\ h = [s \in SUBSET S |-> h[s]]
    BY DEF Summed
  <2> HIDE DEF h, k
  <2>3. h = k
    BY <2>1, <2>2
  <2> QED BY <2>3 DEF k
<1> QED BY <1>3 DEF IsSum

\* Bytes adds up the sizes of any finite set.
LEMMA BytesOne ==
    ASSUME NEW S, IsFiniteSet(S)
    PROVE  One(S)
<1> DEFINE C == {v \in SUBSET S : ~One(v)}
<1> SUFFICES ASSUME C # {} PROVE FALSE
  OBVIOUS
<1>1. PICK s \in C : \A v \in SUBSET s : v # s => v \notin C
  <2>1. C \subseteq SUBSET S
    OBVIOUS
  <2> HIDE DEF C
  <2> QED BY <2>1, Smallest
<1>2. IsFiniteSet(s) /\ s \in SUBSET S
  BY FS_Subset
<1>3. \A v \in SUBSET s : v # s => One(v)
  BY <1>1, <1>2
<1> DEFINE h == CHOOSE h : IsSum(h, s)
<1>4. IsSum(h, s)
  BY <1>3, SumExists
<1>5. Bytes(s) = h[s]
  BY BytesUnfold
<1> HIDE DEF h
<1>6. \A v \in SUBSET s : v # s => h[v] = Bytes(v)
  BY <1>2, <1>3, <1>4, SumsAgree
<1>7. h[s] = IF s = {} THEN 0 ELSE Size[Pick(s)] + h[s \ {Pick(s)}]
  BY <1>4 DEF IsSum, Summed
<1>8. s # {} => h[s \ {Pick(s)}] = Bytes(s \ {Pick(s)})
  <2> SUFFICES ASSUME s # {} PROVE h[s \ {Pick(s)}] = Bytes(s \ {Pick(s)})
    OBVIOUS
  <2>1. Pick(s) \in s
    BY DEF Pick
  <2> QED BY <1>6, <2>1
<1>9. One(s)
  BY <1>5, <1>7, <1>8 DEF One
<1> QED BY <1>9

\* The sum is a number.
LEMMA BytesType ==
    ASSUME StoreAssumption, NEW S, IsFiniteSet(S), S \subseteq Transfers
    PROVE  Bytes(S) \in Nat
<1> DEFINE C == {v \in SUBSET S : Bytes(v) \notin Nat}
<1> SUFFICES ASSUME C # {} PROVE FALSE
  OBVIOUS
<1>1. PICK s \in C : \A v \in SUBSET s : v # s => v \notin C
  <2>1. C \subseteq SUBSET S
    OBVIOUS
  <2> HIDE DEF C
  <2> QED BY <2>1, Smallest
<1>2. One(s)
  <2>1. IsFiniteSet(s)
    BY FS_Subset
  <2> QED BY <2>1, BytesOne
<1>3. s # {}
  BY <1>2 DEF One
<1>4. Pick(s) \in s /\ Pick(s) \in Transfers
  BY <1>3 DEF Pick
<1>5. Bytes(s \ {Pick(s)}) \in Nat
  BY <1>1, <1>4
<1>6. Bytes(s) = Size[Pick(s)] + Bytes(s \ {Pick(s)})
  BY <1>2, <1>3 DEF One
<1>7. Size[Pick(s)] \in Nat
  BY <1>4 DEF StoreAssumption
<1> QED BY <1>5, <1>6, <1>7

\* It does not matter which element is taken out.
LEMMA BytesRemove ==
    ASSUME StoreAssumption, NEW S, IsFiniteSet(S), S \subseteq Transfers, NEW x \in S
    PROVE  Bytes(S) = Size[x] + Bytes(S \ {x})
<1> DEFINE Holds(v) == \A y \in v : Bytes(v) = Size[y] + Bytes(v \ {y})
           C == {v \in SUBSET S : ~Holds(v)}
<1> SUFFICES ASSUME C # {} PROVE FALSE
  OBVIOUS
<1>1. PICK s \in C : \A v \in SUBSET s : v # s => v \notin C
  <2>1. C \subseteq SUBSET S
    OBVIOUS
  <2> HIDE DEF C
  <2> QED BY <2>1, Smallest
<1>2. PICK y \in s : Bytes(s) # Size[y] + Bytes(s \ {y})
  OBVIOUS
<1> DEFINE p == Pick(s)
<1>3. p \in s
  BY <1>2 DEF Pick
<1>4. Bytes(s) = Size[p] + Bytes(s \ {p})
  <2>1. IsFiniteSet(s)
    BY FS_Subset
  <2> QED BY <2>1, <1>2, BytesOne DEF One
<1> HIDE DEF p
<1>5. p # y
  BY <1>2, <1>4
<1>6. Bytes(s \ {p}) = Size[y] + Bytes((s \ {p}) \ {y})
  <2>1. s \ {p} \in SUBSET s /\ s \ {p} # s /\ s \ {p} \in SUBSET S
    BY <1>3
  <2>2. Holds(s \ {p})
    BY <1>1, <2>1
  <2> QED BY <2>2, <1>5, <1>2
<1>7. Bytes(s \ {y}) = Size[p] + Bytes((s \ {y}) \ {p})
  <2>1. s \ {y} \in SUBSET s /\ s \ {y} # s /\ s \ {y} \in SUBSET S
    BY <1>2
  <2>2. Holds(s \ {y})
    BY <1>1, <2>1
  <2> QED BY <2>2, <1>5, <1>3
<1>8. (s \ {p}) \ {y} = (s \ {y}) \ {p}
  OBVIOUS
<1> DEFINE rest == Bytes((s \ {y}) \ {p})
<1>9. rest \in Nat
  <2>1. IsFiniteSet((s \ {y}) \ {p})
    BY FS_Subset
  <2> QED BY <2>1, BytesType
<1>10. Size[p] \in Nat /\ Size[y] \in Nat
  BY <1>2, <1>3 DEF StoreAssumption
<1>11. Bytes(s) = Size[p] + (Size[y] + rest) /\ Bytes(s \ {y}) = Size[p] + rest
  BY <1>4, <1>6, <1>7, <1>8
<1> HIDE DEF rest
<1>12. Size[p] + (Size[y] + rest) = Size[y] + (Size[p] + rest)
  BY <1>9, <1>10
<1> QED BY <1>2, <1>11, <1>12

\* A subset holds no more.
LEMMA BytesMonotone ==
    ASSUME StoreAssumption, NEW S, IsFiniteSet(S), S \subseteq Transfers,
           NEW T \in SUBSET S
    PROVE  Bytes(T) <= Bytes(S)
<1> DEFINE C == {v \in SUBSET S : T \subseteq v /\ ~ (Bytes(T) <= Bytes(v))}
<1> SUFFICES ASSUME C # {} PROVE FALSE
  OBVIOUS
<1>1. PICK s \in C : \A v \in SUBSET s : v # s => v \notin C
  <2>1. C \subseteq SUBSET S
    OBVIOUS
  <2> HIDE DEF C
  <2> QED BY <2>1, Smallest
<1>2. /\ IsFiniteSet(s) /\ s \subseteq Transfers
      /\ IsFiniteSet(T) /\ T \subseteq Transfers
  BY FS_Subset
<1>3. Bytes(T) \in Nat /\ Bytes(s) \in Nat
  BY <1>2, BytesType
<1>4. T # s
  BY <1>3
<1>5. PICK x \in s : x \notin T
  BY <1>4
<1>6. Bytes(s) = Size[x] + Bytes(s \ {x})
  BY <1>2, BytesRemove
<1>7. Bytes(T) <= Bytes(s \ {x})
  <2>1. s \ {x} \in SUBSET s /\ s \ {x} # s /\ s \ {x} \in SUBSET S
        /\ T \subseteq s \ {x}
    BY <1>5
  <2> QED BY <1>1, <2>1
<1>8. Bytes(s \ {x}) \in Nat /\ Size[x] \in Nat
  <2>1. IsFiniteSet(s \ {x}) /\ s \ {x} \subseteq Transfers
    BY <1>2, FS_Subset
  <2>2. Size[x] \in Nat
    BY <1>2, <1>5 DEF StoreAssumption
  <2> QED BY <2>1, <2>2, BytesType
<1>9. Bytes(T) <= Bytes(s)
  <2> DEFINE a == Bytes(T)
             b == Bytes(s \ {x})
  <2>1. a <= b /\ a \in Nat /\ b \in Nat /\ Bytes(s) = Size[x] + b
    BY <1>3, <1>6, <1>7, <1>8
  <2> HIDE DEF a, b
  <2>2. a <= Bytes(s)
    BY <2>1, <1>8
  <2> QED BY <2>2 DEF a
<1> QED BY <1>9

\* What a new result adds.
LEMMA BytesAdd ==
    ASSUME StoreAssumption, NEW S, IsFiniteSet(S), S \subseteq Transfers,
           NEW x \in Transfers, x \notin S
    PROVE  Bytes(S \cup {x}) = Bytes(S) + Size[x]
<1>1. IsFiniteSet(S \cup {x}) /\ S \cup {x} \subseteq Transfers
  BY FS_AddElement
<1>2. Bytes(S \cup {x}) = Size[x] + Bytes((S \cup {x}) \ {x})
  BY <1>1, BytesRemove
<1>3. (S \cup {x}) \ {x} = S
  OBVIOUS
<1>4. Bytes(S) \in Nat /\ Size[x] \in Nat
  BY BytesType DEF StoreAssumption
<1> DEFINE b == Bytes(S)
           c == Bytes(S \cup {x})
<1>5. c = Size[x] + b
  BY <1>2, <1>3
<1> HIDE DEF b, c
<1>6. b \in Nat
  BY <1>4 DEF b
<1>7. c = b + Size[x]
  BY <1>4, <1>5, <1>6
<1> QED BY <1>7 DEF b, c

-----------------------------------------------------------------------------
\* The bounds of the store.

\* A store of the results of S is within the three bounds.
Within(S) ==
    /\ IsFiniteSet(S) /\ S \subseteq Transfers
    /\ Cardinality(S) <= MaxResults
    /\ Bytes(S) <= MaxBytes
    /\ \A t \in S : Size[t] \in 1..MaxResult

\* The inductive invariant.
StoreInv == Within(DOMAIN results)

\* An empty store is.
LEMMA EmptyWithin ==
    ASSUME StoreAssumption
    PROVE  Within({})
<1>1. IsFiniteSet({}) /\ Cardinality({}) = 0
  BY FS_EmptySet
<1>2. Bytes({}) = 0
  BY <1>1, BytesOne DEF One
<1>3. 0 <= MaxResults /\ 0 <= MaxBytes
  BY DEF StoreAssumption
<1> QED BY <1>1, <1>2, <1>3 DEF Within

\* Entries may go.
LEMMA LessWithin ==
    ASSUME StoreAssumption, NEW S, Within(S), NEW T \in SUBSET S
    PROVE  Within(T)
<1>1. IsFiniteSet(S) /\ S \subseteq Transfers
  BY DEF Within
<1>2. IsFiniteSet(T) /\ Cardinality(T) <= Cardinality(S) /\ T \subseteq Transfers
  BY <1>1, FS_Subset
<1>3. Cardinality(S) \in Nat /\ Cardinality(T) \in Nat
  BY <1>1, <1>2, FS_CardinalityType
<1>4. Bytes(S) \in Nat /\ Bytes(T) \in Nat /\ Bytes(T) <= Bytes(S)
  BY <1>1, <1>2, BytesType, BytesMonotone
<1>5. Cardinality(S) <= MaxResults /\ Bytes(S) <= MaxBytes
  BY DEF Within
<1>6. MaxResults \in Nat /\ MaxBytes \in Nat
  BY DEF StoreAssumption
<1>7. Cardinality(T) <= MaxResults
  BY <1>2, <1>3, <1>5, <1>6
<1>8. Bytes(T) <= MaxBytes
  <2> DEFINE a == Bytes(T)
             b == Bytes(S)
  <2>1. a \in Nat /\ b \in Nat /\ a <= b /\ b <= MaxBytes
    BY <1>4, <1>5
  <2> HIDE DEF a, b
  <2>2. a <= MaxBytes
    BY <2>1, <1>6
  <2> QED BY <2>2 DEF a
<1> QED BY <1>2, <1>7, <1>8 DEF Within

\* _store_result leaves room for what it stores, whether the id is in the
\* store or not.
LEMMA StoreWithin ==
    ASSUME StoreAssumption, StoreInv, NEW t \in Transfers, StoreResult(t)
    PROVE  StoreInv'
<1> DEFINE kept == ExpireResults
<1>1. DOMAIN kept = Fresh /\ Fresh \in SUBSET DOMAIN results
  BY DEF ExpireResults, Fresh
<1>2. Within(Fresh)
  BY <1>1, LessWithin DEF StoreInv
<1>3. CASE Storable(t) /\ RoomFor(t, kept) /\ t \notin Fresh
  <2>1. DOMAIN results' = Fresh \cup {t}
    BY <1>1, <1>3 DEF StoreResult
  <2>2. IsFiniteSet(Fresh) /\ Fresh \subseteq Transfers
    BY <1>2 DEF Within
  <2>3. /\ IsFiniteSet(Fresh \cup {t})
        /\ Cardinality(Fresh \cup {t}) = Cardinality(Fresh) + 1
        /\ Cardinality(Fresh) \in Nat
    BY <2>2, <1>3, FS_AddElement, FS_CardinalityType
  <2>4. Cardinality(Fresh) < MaxResults /\ Bytes(Fresh) + Size[t] <= MaxBytes
    BY <1>1, <1>3 DEF RoomFor
  <2>5. Cardinality(Fresh \cup {t}) <= MaxResults
    BY <2>3, <2>4 DEF StoreAssumption
  <2>6. Bytes(Fresh \cup {t}) <= MaxBytes
    BY <2>2, <2>4, <1>3, BytesAdd
  <2>7. \A u \in Fresh \cup {t} : Size[u] \in 1..MaxResult
    BY <1>2, <1>3 DEF Within, Storable
  <2>8. Within(Fresh \cup {t})
    BY <2>2, <2>3, <2>5, <2>6, <2>7 DEF Within
  <2> QED BY <2>1, <2>8 DEF StoreInv
<1>4. CASE Storable(t) /\ RoomFor(t, kept) /\ t \in Fresh
  <2>1. DOMAIN results' = Fresh
    BY <1>1, <1>4 DEF StoreResult
  <2> QED BY <2>1, <1>2 DEF StoreInv
<1>5. CASE Storable(t) /\ ~RoomFor(t, kept)
  <2>1. DOMAIN results' = Fresh
    BY <1>1, <1>5 DEF StoreResult
  <2> QED BY <2>1, <1>2 DEF StoreInv
<1>6. CASE ~Storable(t)
  <2>1. results' = results
    BY <1>6 DEF StoreResult
  <2> QED BY <2>1 DEF StoreInv
<1> QED BY <1>3, <1>4, <1>5, <1>6

\* Every other step takes entries out or leaves the store as it is.
LEMMA OtherSteps ==
    ASSUME [Next]_vars
    PROVE  \/ \E t \in Transfers : Transcribed(t) /\ StoreResult(t)
           \/ DOMAIN results' \subseteq DOMAIN results
<1>1. CASE Restart
  BY <1>1 DEF Restart, RestartStore
<1>2. CASE Tick
  BY <1>2 DEF Tick, StoreTick
<1>3. ASSUME NEW t \in Transfers, Step(t)
      PROVE  \/ Transcribed(t) /\ StoreResult(t)
             \/ DOMAIN results' \subseteq DOMAIN results
  <2>1. CASE Transcribed(t)
    BY <2>1 DEF Transcribed
  <2>2. CASE ServeChunk(t)
    BY <2>2 DEF ServeChunk, GetResult, ExpireResults, Fresh
  <2>3. CASE ServeDelete(t)
    BY <2>3 DEF ServeDelete, DeleteResult
  <2>4. CASE \/ Post(t) \/ TakeManifest(t) \/ PostFails(t) \/ RequestChunk(t)
             \/ TakeChunk(t) \/ ChunkFails(t) \/ RequestDelete(t)
             \/ RefuseDelete(t) \/ LoseDelete(t) \/ TakeDelete(t)
             \/ DeleteFails(t) \/ CleanupTimesOut(t)
    <3>1. results' = results
      BY <2>4 DEF Post, TakeManifest, PostFails, RequestChunk, TakeChunk,
                  ChunkFails, RequestDelete, RefuseDelete, LoseDelete,
                  TakeDelete, DeleteFails, CleanupTimesOut
    <3> QED BY <3>1
  <2> QED BY <1>3, <2>1, <2>2, <2>3, <2>4 DEF Step
<1>4. CASE UNCHANGED vars
  BY <1>4 DEF vars
<1> QED BY <1>1, <1>2, <1>3, <1>4 DEF Next

\* The store starts empty.
LEMMA InitWithin ==
    ASSUME StoreAssumption, Init
    PROVE  StoreInv
<1>1. DOMAIN results = {}
  BY DEF Init, StoreInit
<1> QED BY <1>1, EmptyWithin DEF StoreInv

\* Every step keeps the bounds.
LEMMA StepWithin ==
    ASSUME StoreAssumption, StoreInv, [Next]_vars
    PROVE  StoreInv'
<1>1. CASE DOMAIN results' \subseteq DOMAIN results
  <2>1. DOMAIN results' \in SUBSET DOMAIN results
    BY <1>1
  <2>2. \A T \in SUBSET DOMAIN results : Within(T)
    BY LessWithin DEF StoreInv
  <2> QED BY <2>1, <2>2 DEF StoreInv
<1>2. ASSUME NEW t \in Transfers, StoreResult(t) PROVE StoreInv'
  BY <1>2, StoreWithin
<1> QED BY <1>1, <1>2, OtherSteps

\* The wrapper's store stays within its three bounds: MAX_CACHED_RESULTS
\* entries, MAX_CACHED_BYTES in all and MAX_RESULT_BYTES each.
THEOREM StoreWithinBounds == Spec => []StoreBounded
<1>1. Init => StoreInv
  BY StoreAssumption, InitWithin
<1>2. StoreInv /\ [Next]_vars => StoreInv'
  BY StoreAssumption, StepWithin
<1>3. StoreInv => StoreBounded
  BY DEF StoreInv, Within, StoreBounded
<1> QED BY <1>1, <1>2, <1>3, PTL DEF Spec

-----------------------------------------------------------------------------
\* What a refusal means.

\* There is one answer on its way for each request.
ReplyShape == reply = [t \in Transfers |-> reply[t]]

\* Every step keeps the shape, and only _store_result answers "full".
LEMMA StepReplies ==
    ASSUME ReplyShape, NEW t \in Transfers, Step(t)
    PROVE  /\ ReplyShape'
           /\ \A u \in Transfers :
                 \/ reply'[u] = reply[u]
                 \/ reply'[u].status # "full"
                 \/ u = t /\ StoreResult(t) /\ reply'[u] = StoreReply(t)
<1> DEFINE Only(r) == reply' = [reply EXCEPT ![t] = r]
<1>1. ASSUME NEW r, Only(r)
      PROVE  ReplyShape' /\ reply'[t] = r /\ \A u \in Transfers \ {t} : reply'[u] = reply[u]
  BY <1>1 DEF ReplyShape
<1>2. reply' = reply => ReplyShape' /\ \A u \in Transfers : reply'[u] = reply[u]
  BY DEF ReplyShape
<1>3. /\ NoReply.status # "full" /\ Reply("other").status # "full"
      /\ Reply("gone").status # "full" /\ Reply("denied").status # "full"
  BY DEF NoReply, Reply
<1>4. CASE \/ TakeManifest(t) \/ PostFails(t) \/ TakeChunk(t) \/ ChunkFails(t)
           \/ TakeDelete(t) \/ DeleteFails(t) \/ CleanupTimesOut(t)
  <2>1. Only(NoReply)
    BY <1>4 DEF TakeManifest, PostFails, TakeChunk, ChunkFails, TakeDelete,
                DeleteFails, CleanupTimesOut, HangUp
  <2> HIDE DEF Only
  <2> QED BY <2>1, <1>1, <1>3
<1>5. CASE Post(t) \/ RequestChunk(t) \/ RequestDelete(t) \/ LoseDelete(t)
  <2>1. reply' = reply
    BY <1>5 DEF Post, RequestChunk, RequestDelete, LoseDelete
  <2> QED BY <2>1, <1>2
<1>6. CASE ServeDelete(t) \/ RefuseDelete(t)
  <2>1. reply' = reply \/ Only(Reply("gone")) \/ Only(Reply("denied"))
    BY <1>6 DEF ServeDelete, RefuseDelete
  <2> HIDE DEF Only
  <2> QED BY <2>1, <1>1, <1>2, <1>3
<1>7. CASE ServeChunk(t)
  <2> DEFINE r == ResultChunk(t, fetch[t].offset, Expected(fetch[t]))
  <2>1. Only(r)
    BY <1>7 DEF ServeChunk
  <2>2. r.status # "full"
    BY DEF ResultChunk, Reply
  <2> HIDE DEF Only, r
  <2> QED BY <2>1, <2>2, <1>1
<1>8. CASE Transcribed(t)
  <2>1. \/ reply' = reply \/ Only(Reply("other"))
        \/ Only(StoreReply(t)) /\ StoreResult(t)
    BY <1>8 DEF Transcribed
  <2> HIDE DEF Only
  <2> QED BY <2>1, <1>1, <1>2, <1>3
<1> QED BY <1>4, <1>5, <1>6, <1>7, <1>8 DEF Step

\* A result of a storable size is refused for want of room.
LEMMA NoRoom ==
    ASSUME StoreAssumption, StoreInv, NEW t \in Transfers, Storable(t),
           StoreReply(t).status = "full"
    PROVE  \/ Cardinality(Fresh) >= MaxResults
           \/ Bytes(Fresh) + Size[t] > MaxBytes
<1>1. DOMAIN ExpireResults = Fresh /\ Fresh \subseteq DOMAIN results
  BY DEF ExpireResults, Fresh
<1>2. ~RoomFor(t, ExpireResults)
  BY DEF StoreReply, Manifest
<1>3. \/ ~ (Cardinality(Fresh) < MaxResults)
      \/ ~ (Bytes(Fresh) + Size[t] <= MaxBytes)
  BY <1>1, <1>2 DEF RoomFor
<1>4. IsFiniteSet(DOMAIN results) /\ DOMAIN results \subseteq Transfers
  BY DEF StoreInv, Within
<1>5. IsFiniteSet(Fresh) /\ Fresh \subseteq Transfers
  BY <1>1, <1>4, FS_Subset
<1> DEFINE c == Cardinality(Fresh)
           b == Bytes(Fresh)
<1>6. c \in Nat /\ b \in Nat
  BY <1>5, FS_CardinalityType, BytesType
<1>7. MaxResults \in Nat /\ MaxBytes \in Nat /\ Size[t] \in Nat
  BY DEF StoreAssumption
<1>8. ~ (c < MaxResults) \/ ~ (b + Size[t] <= MaxBytes)
  BY <1>3
<1> HIDE DEF c, b
<1>9. c >= MaxResults \/ b + Size[t] > MaxBytes
  BY <1>6, <1>7, <1>8
<1> QED BY <1>9 DEF c, b

\* Steps of the whole system.
LEMMA NextReplies ==
    ASSUME ReplyShape, [Next]_vars
    PROVE  /\ ReplyShape'
           /\ \A u \in Transfers :
                 \/ reply'[u] = reply[u]
                 \/ reply'[u].status # "full"
                 \/ StoreResult(u) /\ reply'[u] = StoreReply(u)
<1>1. CASE reply' = reply
  BY <1>1 DEF ReplyShape
<1>2. CASE \E t \in Transfers : Step(t)
  BY <1>2, StepReplies
<1>3. Restart \/ Tick \/ UNCHANGED vars => reply' = reply
  BY DEF Restart, Tick, vars
<1> QED BY <1>1, <1>2, <1>3 DEF Next

\* A result that is not too large is refused only when results that are not
\* expired leave no room for it: _store_result forgets what is expired before
\* it counts.
THEOREM RefusedForRoom == Spec => RefusedOnlyWhenFull
<1> DEFINE Inv == StoreInv /\ ReplyShape
           A == \A t \in Transfers : Refuses(t) =>
                   LET live == {u \in DOMAIN results : results[u] > 0} IN
                   \/ Cardinality(live) >= MaxResults
                   \/ Bytes(live) + Size[t] > MaxBytes
<1>1. Init => Inv
  <2>1. Init => ReplyShape
    BY DEF Init, ReplyShape
  <2> QED BY <2>1, StoreAssumption, InitWithin
<1>2. Inv /\ [Next]_vars => Inv'
  BY StoreAssumption, StepWithin, NextReplies
<1>3. Inv /\ [Next]_vars => [A]_vars
  <2> SUFFICES ASSUME Inv, [Next]_vars, NEW t \in Transfers, Refuses(t)
               PROVE  \/ Cardinality(Fresh) >= MaxResults
                      \/ Bytes(Fresh) + Size[t] > MaxBytes
    BY DEF Fresh
  <2>1. reply'[t] = StoreReply(t)
    BY NextReplies DEF Refuses
  <2>2. StoreReply(t).status = "full" /\ Storable(t)
    BY <2>1 DEF Refuses, Storable
  <2> QED BY <2>2, StoreAssumption, NoRoom
<1>4. RefusedOnlyWhenFull <=> [][A]_vars
  BY DEF RefusedOnlyWhenFull
<1> QED
  <2> HIDE DEF Inv, A
  <2> QED BY <1>1, <1>2, <1>3, <1>4, PTL DEF Spec

=============================================================================
