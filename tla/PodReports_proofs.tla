-------------------------- MODULE PodReports_proofs -------------------------
(***************************************************************************)
(* What the adapter reads out of RunPod's answers, for any number of port  *)
(* entries in any order.                                                   *)
(***************************************************************************)
EXTENDS PodReports, WellFoundedInduction, TLAPS

-----------------------------------------------------------------------------
\* Searches and sequences.

\* A set of natural numbers has a least element.
LEMMA Least ==
    ASSUME NEW T, T \subseteq Nat, T # {}
    PROVE  \E n \in T : \A m \in T : n <= m
<1> DEFINE less == {p \in Nat \X Nat : p[1] < p[2]}
<1>1. IsWellFoundedOn(less, Nat)
  BY NatLessThanWellFounded DEF OpToRel
<1>2. PICK n \in T : \A m \in T : ~ (<<m, n>> \in less)
  <2> HIDE DEF less
  <2> QED BY <1>1, WFMin
<1>3. ASSUME NEW m \in T PROVE n <= m
  <2>1. m \in Nat /\ n \in Nat /\ ~ (<<m, n>> \in less)
    BY <1>2
  <2>2. m < n => <<m, n>> \in less
    BY <2>1
  <2> QED BY <2>1, <2>2
<1> QED BY <1>3

\* Min is that element.
LEMMA MinIsLeast ==
    ASSUME NEW T, T \subseteq Nat, T # {}
    PROVE  Min(T) \in T /\ \A m \in T : Min(T) <= m
BY Least DEF Min

\* The elements of a concatenation.
LEMMA SetOfConcat ==
    ASSUME NEW X, NEW a \in Seq(X), NEW b \in Seq(X)
    PROVE  a \o b \in Seq(X) /\ ToSet(a \o b) = ToSet(a) \cup ToSet(b)
<1>1. /\ a \o b \in Seq(X)
      /\ Len(a \o b) = Len(a) + Len(b) /\ Len(a) \in Nat /\ Len(b) \in Nat
      /\ DOMAIN a = 1..Len(a) /\ DOMAIN b = 1..Len(b)
      /\ DOMAIN (a \o b) = 1..(Len(a) + Len(b))
  OBVIOUS
<1>2. ASSUME NEW i \in DOMAIN a PROVE i \in DOMAIN (a \o b) /\ (a \o b)[i] = a[i]
  BY <1>1
<1>3. ASSUME NEW i \in DOMAIN b
      PROVE  Len(a) + i \in DOMAIN (a \o b) /\ (a \o b)[Len(a) + i] = b[i]
  BY <1>1
<1>4. ASSUME NEW i \in DOMAIN (a \o b)
      PROVE  (a \o b)[i] \in ToSet(a) \cup ToSet(b)
  <2>1. CASE i <= Len(a)
    BY <1>1, <2>1 DEF ToSet
  <2>2. CASE i > Len(a)
    <3>1. i - Len(a) \in DOMAIN b /\ (a \o b)[i] = b[i - Len(a)]
      BY <1>1, <2>2
    <3> QED BY <3>1 DEF ToSet
  <2> QED BY <1>1, <2>1, <2>2
<1> DEFINE c == a \o b
<1>5. ToSet(c) \subseteq ToSet(a) \cup ToSet(b)
  BY <1>4 DEF ToSet
<1>6. ToSet(a) \subseteq ToSet(c) /\ ToSet(b) \subseteq ToSet(c)
  <2> HIDE DEF c
  <2>1. \A i \in DOMAIN a : i \in DOMAIN c /\ c[i] = a[i]
    BY <1>2 DEF c
  <2>2. \A i \in DOMAIN b : Len(a) + i \in DOMAIN c /\ c[Len(a) + i] = b[i]
    BY <1>3 DEF c
  <2> QED BY <2>1, <2>2 DEF ToSet
<1> QED BY <1>1, <1>5, <1>6

\* The equation of FlattenSeq, up to the n-th sequence.
Flat(f, s, n) == f = [i \in 1..n |-> IF i = 1 THEN s[i] ELSE f[i-1] \o s[i]]

\* It has a solution.
LEMMA FlatExists ==
    ASSUME NEW s, NEW n \in Nat \ {0}
    PROVE  \E f : Flat(f, s, n)
<1> DEFINE C == {m \in Nat \ {0} : ~ \E f : Flat(f, s, m)}
<1> SUFFICES ASSUME C # {} PROVE FALSE
  OBVIOUS
<1>1. PICK m \in C : \A k \in C : m <= k
  <2>1. C \subseteq Nat
    OBVIOUS
  <2> HIDE DEF C
  <2> QED BY <2>1, Least
<1>2. CASE m = 1
  <2> DEFINE f == [i \in 1..m |-> s[1]]
  <2>1. f = [i \in 1..m |-> IF i = 1 THEN s[i] ELSE f[i-1] \o s[i]]
    BY <1>2
  <2> QED BY <2>1 DEF Flat
<1>3. CASE m # 1
  <2>1. m - 1 \in Nat \ {0} /\ m - 1 < m
    BY <1>3
  <2>2. m - 1 \notin C
    BY <1>1, <2>1
  <2>3. PICK g : Flat(g, s, m - 1)
    BY <2>1, <2>2
  <2> DEFINE f == [i \in 1..m |-> IF i < m THEN g[i] ELSE g[m-1] \o s[m]]
             h == [i \in 1..m |-> IF i = 1 THEN s[i] ELSE f[i-1] \o s[i]]
  <2>4. ASSUME NEW i \in 1..m PROVE f[i] = h[i]
    <3>1. CASE i = m
      <4>1. m - 1 \in 1..m /\ m - 1 < m /\ m \in 1..m /\ ~ (m < m)
        BY <2>1
      <4>2. f[m - 1] = g[m - 1] /\ f[m] = g[m - 1] \o s[m]
        BY <4>1
      <4>3. h[m] = f[m - 1] \o s[m]
        BY <4>1, <1>3
      <4> QED BY <3>1, <4>2, <4>3
    <3>2. CASE i < m
      <4>1. i \in 1..(m - 1)
        BY <3>2
      <4>2. g[i] = IF i = 1 THEN s[i] ELSE g[i-1] \o s[i]
        BY <2>3, <4>1 DEF Flat
      <4>3. i # 1 => i - 1 \in 1..m /\ i - 1 < m
        BY <3>2
      <4> QED BY <3>2, <4>2, <4>3
    <3> QED BY <3>1, <3>2
  <2>5. f = h
    BY <2>4
  <2> QED BY <2>5 DEF Flat
<1> QED BY <1>2, <1>3

\* The elements of the sequences laid end to end.
LEMMA SetOfFlat ==
    ASSUME NEW X, NEW s \in Seq(Seq(X))
    PROVE  /\ FlattenSeq(s) \in Seq(X)
           /\ ToSet(FlattenSeq(s)) = UNION {ToSet(s[i]) : i \in 1..Len(s)}
<1> DEFINE n == Len(s)
<1>1. n \in Nat /\ \A i \in 1..n : s[i] \in Seq(X)
  OBVIOUS
<1>2. CASE n = 0
  <2>1. FlattenSeq(s) = s /\ s = << >>
    BY <1>2 DEF FlattenSeq
  <2> QED BY <2>1 DEF ToSet
<1>3. CASE n # 0
  <2> DEFINE f == CHOOSE f : Flat(f, s, n)
             Upto(i) == UNION {ToSet(s[j]) : j \in 1..i}
             Holds(i) == f[i] \in Seq(X) /\ ToSet(f[i]) = Upto(i)
             C == {i \in 1..n : ~Holds(i)}
  <2>1. Flat(f, s, n)
    BY <1>1, <1>3, FlatExists
  <2>2. FlattenSeq(s) = f[n]
    BY <1>3 DEF FlattenSeq, Flat
  <2>3. ASSUME NEW i \in 1..n PROVE f[i] = IF i = 1 THEN s[i] ELSE f[i-1] \o s[i]
    BY <2>1 DEF Flat
  <2> HIDE DEF f
  <2>6. ASSUME NEW i \in 1..n, i \notin C PROVE Holds(i)
    <3> HIDE DEF Holds
    <3> QED BY <2>6
  <2>4. ASSUME C # {} PROVE FALSE
    <3>1. PICK i \in C : \A k \in C : i <= k
      <4>1. C \subseteq Nat
        BY <1>1
      <4> HIDE DEF C
      <4> QED BY <4>1, <2>4, Least
    <3>2. CASE i = 1
      <4>1. Upto(1) = ToSet(s[1])
        OBVIOUS
      <4> QED BY <1>1, <2>3, <3>2, <4>1
    <3>3. CASE i # 1
      <4>1. i - 1 \in 1..n /\ i - 1 < i
        BY <1>1, <3>3
      <4>2. Holds(i - 1)
        <5>1. i - 1 \notin C
          <6>1. i \in Nat
            BY <1>1
          <6> HIDE DEF C
          <6> QED BY <3>1, <4>1, <6>1
        <5> QED BY <2>6, <4>1, <5>1
      <4>3. f[i] = f[i-1] \o s[i] /\ s[i] \in Seq(X)
        BY <1>1, <2>3, <3>3
      <4>4. f[i] \in Seq(X) /\ ToSet(f[i]) = Upto(i - 1) \cup ToSet(s[i])
        BY <4>2, <4>3, SetOfConcat
      <4>5. Upto(i) = Upto(i - 1) \cup ToSet(s[i])
        <5>1. \A j : j \in 1..i <=> j \in 1..(i - 1) \/ j = i
          BY <1>1, <4>1
        <5> QED BY <5>1
      <4> QED BY <4>4, <4>5
    <3> QED BY <3>2, <3>3
  <2>5. Holds(n)
    <3>1. n \in 1..n
      <4> HIDE DEF n
      <4> QED BY <1>1, <1>3
    <3>2. n \notin C
      <4> HIDE DEF C
      <4> QED BY <2>4
    <3> QED BY <2>6, <3>1, <3>2
  <2> QED BY <2>2, <2>5
<1> QED BY <1>2, <1>3

-----------------------------------------------------------------------------
\* Objects.

\* What an object holds under a key.
LEMMA GetHit ==
    ASSUME NEW d, NEW key, NEW v, <<key, v>> \in ToSet(d.items),
           \A kv \in ToSet(d.items) : kv[1] = key => kv = <<key, v>>
    PROVE  Get(d, key) = v
<1> DEFINE hits == {kv \in ToSet(d.items) : kv[1] = key}
<1>1. <<key, v>> \in hits
  OBVIOUS
<1>2. \A kv \in hits : kv = <<key, v>>
  OBVIOUS
<1> DEFINE hit == CHOOSE kv \in hits : TRUE
<1>3. Get(d, key) = hit[2]
  BY <1>1 DEF Get
<1>4. hit = <<key, v>>
  <2> HIDE DEF hits
  <2> QED BY <1>1, <1>2
<1> HIDE DEF hit
<1> QED BY <1>3, <1>4

\* It holds nothing under a key that none of its pairs has.
LEMMA GetMiss ==
    ASSUME NEW d, NEW key, \A kv \in ToSet(d.items) : kv[1] # key
    PROVE  Get(d, key) = Null
BY DEF Get

\* The kinds of values are different.
LEMMA Kinds ==
    /\ \A s : /\ Text(s).t = "text" /\ Text(s).s = s /\ Text(s) # Null
              /\ List(s).t = "list" /\ List(s).items = s /\ List(s) # Null
              /\ Dict(s).t = "dict" /\ Dict(s).items = s /\ Dict(s) # Null
    /\ \A n : /\ Num(n).t = "num" /\ Num(n).n = n /\ Num(n) # Null
              /\ Digits(n).t = "digits" /\ Digits(n).n = n /\ Digits(n) # Null
    /\ True # Null /\ False # Null /\ True # False
    /\ Null.t = "null"
BY DEF Text, List, Dict, Num, Digits, True, False, Null

\* An object without further objects in it.
LEMMA ItselfOnly ==
    ASSUME NEW v
    PROVE  ToSet(Itself(v)) = IF v.t = "dict" THEN {v} ELSE {}
BY DEF Itself, ToSet

\* Values that hold no others, and objects that hold only such values.
Leaf(v) == v.t \notin {"dict", "list"}

Flatly(d) ==
    /\ d.t = "dict"
    /\ \E n \in Nat : DOMAIN d.items = 1..n
    /\ \A i \in DOMAIN d.items : Leaf(d.items[i][2])

\* What was found is the set S, in some order.
Finds(walk, X, S) == walk \in Seq(X) /\ ToSet(walk) = S

\* One level of walk_dicts, when the parts have been walked.
Found(v, w, n) ==
    (IF v.t = "dict" THEN {v} ELSE {}) \cup UNION {ToSet(w[i]) : i \in 1..n}

LEMMA WalkFinds ==
    ASSUME NEW X, NEW v, v.t = "dict" => v \in X,
           NEW n \in Nat, NEW w \in [1..n -> Seq(X)]
    PROVE  Finds(Itself(v) \o FlattenSeq(w), X, Found(v, w, n))
<1>1. w \in Seq(Seq(X)) /\ Len(w) = n
  OBVIOUS
<1> DEFINE f == FlattenSeq(w)
           g == Itself(v)
           U == UNION {ToSet(w[i]) : i \in 1..n}
<1>2. g \in Seq(X)
  BY DEF Itself
<1>3. f \in Seq(X) /\ ToSet(f) = U
  BY <1>1, SetOfFlat
<1> HIDE DEF f, g, U
<1>4. g \o f \in Seq(X) /\ ToSet(g \o f) = ToSet(g) \cup U
  BY <1>2, <1>3, SetOfConcat
<1>5. ToSet(g) \cup U = Found(v, w, n)
  BY ItselfOnly DEF Found, g, U
<1>6. Finds(g \o f, X, Found(v, w, n))
  BY <1>4, <1>5 DEF Finds
<1> QED BY <1>6 DEF f, g

\* Nothing is found in a leaf.
LEMMA LeafFinds ==
    ASSUME NEW X, NEW v, Leaf(v)
    PROVE  /\ Finds(Itself(v), X, {})
           /\ Finds(WalkPorts(v), X, {})
           /\ Finds(WalkRuntime(v), X, {})
<1>1. Parts(v) = << >> /\ v.t # "dict"
  BY DEF Parts, Leaf
<1>2. Finds(Itself(v), X, {})
  BY <1>1 DEF Itself, Finds, ToSet
<1>3. ASSUME NEW w, w = [i \in {} |-> w[i]]
      PROVE  Finds(Itself(v) \o FlattenSeq(w), X, {})
  <2>1. w \in [1..0 -> Seq(X)]
    BY <1>3
  <2>2. Finds(Itself(v) \o FlattenSeq(w), X, Found(v, w, 0))
    BY <1>1, <2>1, WalkFinds
  <2>3. Found(v, w, 0) = {}
    BY <1>1 DEF Found
  <2> QED BY <2>2, <2>3
<1>4. DOMAIN Parts(v) = {}
  BY <1>1
<1>5. Finds(WalkPorts(v), X, {})
  <2> DEFINE w == [i \in DOMAIN Parts(v) |-> Itself(Parts(v)[i])]
  <2>1. w = [i \in {} |-> w[i]]
    BY <1>4
  <2>2. WalkPorts(v) = Itself(v) \o FlattenSeq(w)
    BY DEF WalkPorts, Walk
  <2> HIDE DEF w
  <2> QED BY <2>1, <2>2, <1>3
<1>6. Finds(WalkRuntime(v), X, {})
  <2> DEFINE w == [i \in DOMAIN Parts(v) |-> WalkPorts(Parts(v)[i])]
  <2>1. w = [i \in {} |-> w[i]]
    BY <1>4
  <2>2. WalkRuntime(v) = Itself(v) \o FlattenSeq(w)
    BY DEF WalkRuntime, Walk
  <2> HIDE DEF w
  <2> QED BY <2>1, <2>2, <1>3
<1> QED BY <1>2, <1>5, <1>6

\* An object of leaves is found alone.
LEMMA FlatlyFinds ==
    ASSUME NEW X, NEW d \in X, Flatly(d)
    PROVE  /\ Finds(Itself(d), X, {d})
           /\ Finds(WalkPorts(d), X, {d})
           /\ Finds(WalkRuntime(d), X, {d})
<1>1. PICK n \in Nat : DOMAIN d.items = 1..n
  BY DEF Flatly
<1>2. d.t = "dict" /\ DOMAIN Parts(d) = 1..n /\ \A i \in 1..n : Leaf(Parts(d)[i])
  BY <1>1 DEF Parts, Flatly
<1>3. Finds(Itself(d), X, {d})
  BY <1>2 DEF Itself, Finds, ToSet
<1>4. ASSUME NEW w, w = [i \in 1..n |-> w[i]],
             \A i \in 1..n : Finds(w[i], X, {})
      PROVE  Finds(Itself(d) \o FlattenSeq(w), X, {d})
  <2>1. w \in [1..n -> Seq(X)] /\ UNION {ToSet(w[i]) : i \in 1..n} = {}
    BY <1>4 DEF Finds
  <2>2. Finds(Itself(d) \o FlattenSeq(w), X, Found(d, w, n))
    BY <2>1, WalkFinds
  <2>3. Found(d, w, n) = {d}
    BY <1>2, <2>1 DEF Found
  <2> QED BY <2>2, <2>3
<1>5. Finds(WalkPorts(d), X, {d})
  <2> DEFINE w == [i \in DOMAIN Parts(d) |-> Itself(Parts(d)[i])]
  <2>1. w = [i \in 1..n |-> w[i]] /\ \A i \in 1..n : w[i] = Itself(Parts(d)[i])
    BY <1>2
  <2>2. WalkPorts(d) = Itself(d) \o FlattenSeq(w)
    BY DEF WalkPorts, Walk
  <2> HIDE DEF w
  <2>3. \A i \in 1..n : Finds(w[i], X, {})
    BY <1>2, <2>1, LeafFinds
  <2> QED BY <2>1, <2>2, <2>3, <1>4
<1>6. Finds(WalkRuntime(d), X, {d})
  <2> DEFINE w == [i \in DOMAIN Parts(d) |-> WalkPorts(Parts(d)[i])]
  <2>1. w = [i \in 1..n |-> w[i]] /\ \A i \in 1..n : w[i] = WalkPorts(Parts(d)[i])
    BY <1>2
  <2>2. WalkRuntime(d) = Itself(d) \o FlattenSeq(w)
    BY DEF WalkRuntime, Walk
  <2> HIDE DEF w
  <2>3. \A i \in 1..n : Finds(w[i], X, {})
    BY <1>2, <2>1, LeafFinds
  <2> QED BY <2>1, <2>2, <2>3, <1>4
<1> QED BY <1>3, <1>5, <1>6

-----------------------------------------------------------------------------
\* The answers of RunPod.

\* The inductive invariant: a pod reports its ports in one of the two shapes,
\* and a stopped one reports none.
ReportInv ==
    /\ desired \in {"RUNNING", "EXITED"}
    /\ moved \in [Lifecycle -> Nat]
    /\ runtime # "none" => runtime \in Seq(Entries)
    /\ rest \in Seq(RestEntries)
    /\ rest # << >> => runtime = "none"
    /\ desired = "EXITED" => runtime = "none" /\ rest = << >>

\* It holds of a new pod and every step keeps it.
LEMMA ReportInvHolds == Spec => []ReportInv
<1>1. Init => ReportInv
  BY DEF Init, ReportInv
<1>2. ReportInv /\ [Next]_vars => ReportInv'
  <2> SUFFICES ASSUME ReportInv, [Next]_vars PROVE ReportInv'
    OBVIOUS
  <2> USE DEF ReportInv
  <2>1. CASE Starts
    BY <2>1 DEF Starts
  <2>2. CASE Exposes
    <3>1. PICK e \in Entries : runtime' = Append(runtime, e)
      BY <2>2 DEF Exposes
    <3>2. runtime \in Seq(Entries) /\ runtime' \in Seq(Entries)
      BY <3>1, <2>2 DEF Exposes
    <3> QED BY <2>2, <3>2 DEF Exposes
  <2>3. CASE ExposesInRest
    <3>1. PICK e \in RestEntries : rest' = Append(rest, e)
      BY <2>3 DEF ExposesInRest
    <3>2. rest' \in Seq(RestEntries)
      BY <3>1
    <3> QED BY <2>3, <3>2 DEF ExposesInRest
  <2>4. CASE Progresses
    <3>1. \E f \in Lifecycle : moved' = [moved EXCEPT ![f] = @ + 1]
      BY <2>4, Zenon DEF Progresses
    <3>2. moved' \in [Lifecycle -> Nat]
      BY <3>1
    <3>3. UNCHANGED <<desired, runtime, rest>>
      BY <2>4, Zenon DEF Progresses
    <3> QED BY <3>2, <3>3
  <2>5. CASE Stops
    BY <2>5 DEF Stops
  <2>6. CASE Resumes
    BY <2>6 DEF Resumes
  <2>7. CASE UNCHANGED vars
    BY <2>7 DEF vars
  <2> QED BY <2>1, <2>2, <2>3, <2>4, <2>5, <2>6, <2>7 DEF Next
<1> QED BY <1>1, <1>2, PTL DEF Spec

\* The objects of an answer.
Machine == Dict(<< <<"podHostId", Stamp("podHostId")>> >>)

Telemetry == Dict(<< <<"state", Stamp("state")>> >>)

PortItems == [i \in DOMAIN runtime |-> Item(runtime[i])]

RuntimeDict == Dict(<< <<"ports", List(PortItems)>> >>)

\* The pairs of keys and values of the answer itself.
Pairs ==
    {<<"id", Text("pod")>>, <<"desiredStatus", Text(desired)>>,
     <<"lastStatusChange", Stamp("lastStatusChange")>>,
     <<"lastStartedAt", Stamp("lastStartedAt")>>,
     <<"version", Stamp("version")>>,
     <<"uptimeSeconds", Stamp("uptimeSeconds")>>,
     <<"machineId", Text("machine")>>,
     <<"machine", Machine>>, <<"latestTelemetry", Telemetry>>,
     <<"runtime", IF runtime = "none" THEN Null ELSE RuntimeDict>>}
      \cup IF rest = << >> THEN {}
           ELSE {<<"publicIp", Text("one")>>, <<"portMappings", Dict(rest)>>}

\* They are what the answer holds.
LEMMA AnswerHolds ==
    /\ Answer.t = "dict"
    /\ \E n \in Nat : DOMAIN Answer.items = 1..n
    /\ ToSet(Answer.items) = Pairs
<1> DEFINE run == IF runtime = "none" THEN Null ELSE RuntimeDict
           a == << <<"id", Text("pod")>>, <<"desiredStatus", Text(desired)>>,
                   <<"lastStatusChange", Stamp("lastStatusChange")>>,
                   <<"lastStartedAt", Stamp("lastStartedAt")>>,
                   <<"version", Stamp("version")>>,
                   <<"uptimeSeconds", Stamp("uptimeSeconds")>>,
                   <<"machineId", Text("machine")>>,
                   <<"machine", Machine>>, <<"latestTelemetry", Telemetry>>,
                   <<"runtime", run>> >>
           b == IF rest = << >> THEN << >>
                ELSE << <<"publicIp", Text("one")>>, <<"portMappings", Dict(rest)>> >>
           A == {<<"id", Text("pod")>>, <<"desiredStatus", Text(desired)>>,
                 <<"lastStatusChange", Stamp("lastStatusChange")>>,
                 <<"lastStartedAt", Stamp("lastStartedAt")>>,
                 <<"version", Stamp("version")>>,
                 <<"uptimeSeconds", Stamp("uptimeSeconds")>>,
                 <<"machineId", Text("machine")>>,
                 <<"machine", Machine>>, <<"latestTelemetry", Telemetry>>,
                 <<"runtime", run>>}
           B == IF rest = << >> THEN {}
                ELSE {<<"publicIp", Text("one")>>, <<"portMappings", Dict(rest)>>}
<1>1. Answer = Dict(a \o b)
  BY DEF Answer, Machine, Telemetry, RuntimeDict, PortItems
<1>2. a \in Seq(A) /\ ToSet(a) = A
  <2> HIDE DEF run
  <2> QED BY DEF ToSet
<1>3. b \in Seq(B) /\ ToSet(b) = B
  <2>1. CASE rest = << >>
    BY <2>1 DEF ToSet
  <2>2. CASE rest # << >>
    <3> DEFINE p == <<"publicIp", Text("one")>>
               q == <<"portMappings", Dict(rest)>>
    <3>1. b = <<p, q>> /\ B = {p, q}
      BY <2>2
    <3> HIDE DEF p, q
    <3>2. <<p, q>> \in Seq({p, q}) /\ ToSet(<<p, q>>) = {p, q}
      BY DEF ToSet
    <3> QED BY <3>1, <3>2
  <2> QED BY <2>1, <2>2
<1>4. Pairs = A \cup B
  BY DEF Pairs
<1> HIDE DEF a, b, A, B
<1>5. a \in Seq(A \cup B) /\ b \in Seq(A \cup B)
  BY <1>2, <1>3
<1>6. a \o b \in Seq(A \cup B) /\ ToSet(a \o b) = A \cup B
  BY <1>2, <1>3, <1>5, SetOfConcat
<1>7. DOMAIN (a \o b) = 1..Len(a \o b) /\ Len(a \o b) \in Nat
  BY <1>6
<1>8. Answer.t = "dict" /\ Answer.items = a \o b
  BY <1>1 DEF Dict
<1> HIDE DEF run
<1> QED BY <1>4, <1>6, <1>7, <1>8

\* What the answer says under each key the adapter asks for.
LEMMA AnswerFields ==
    /\ Get(Answer, "desiredStatus") = Text(desired)
    /\ \A f \in {"lastStatusChange", "lastStartedAt", "version", "uptimeSeconds"} :
          Get(Answer, f) = Stamp(f)
    /\ Get(Answer, "machine") = Machine
    /\ Get(Answer, "latestTelemetry") = Telemetry
    /\ Get(Answer, "runtime") = IF runtime = "none" THEN Null ELSE RuntimeDict
    /\ Get(Answer, "publicIp") = IF rest = << >> THEN Null ELSE Text("one")
    /\ Get(Answer, "portMappings") = IF rest = << >> THEN Null ELSE Dict(rest)
    /\ \A key \in {"publicIP", "ip", "host", "none", "ports", "desired_status",
                   "status"} :
          Get(Answer, key) = Null
<1> DEFINE run == IF runtime = "none" THEN Null ELSE RuntimeDict
<1>1. ToSet(Answer.items) = Pairs
  BY AnswerHolds
<1>2. ASSUME NEW key, NEW v, <<key, v>> \in Pairs,
             \A kv \in Pairs : kv[1] = key => kv = <<key, v>>
      PROVE  Get(Answer, key) = v
  BY <1>1, <1>2, GetHit
<1>3. ASSUME NEW key, \A kv \in Pairs : kv[1] # key
      PROVE  Get(Answer, key) = Null
  BY <1>1, <1>3, GetMiss
<1>4. Get(Answer, "desiredStatus") = Text(desired)
  <2>1. <<"desiredStatus", Text(desired)>> \in Pairs
        /\ \A kv \in Pairs : kv[1] = "desiredStatus" => kv = <<"desiredStatus", Text(desired)>>
    BY DEF Pairs
  <2> QED BY <1>2, <2>1
<1>5. ASSUME NEW f \in {"lastStatusChange", "lastStartedAt", "version", "uptimeSeconds"}
      PROVE  Get(Answer, f) = Stamp(f)
  <2>1. <<f, Stamp(f)>> \in Pairs
        /\ \A kv \in Pairs : kv[1] = f => kv = <<f, Stamp(f)>>
    BY DEF Pairs
  <2> QED BY <1>2, <2>1
<1>6. Get(Answer, "machine") = Machine
  <2>1. <<"machine", Machine>> \in Pairs
        /\ \A kv \in Pairs : kv[1] = "machine" => kv = <<"machine", Machine>>
    BY DEF Pairs
  <2> QED BY <1>2, <2>1
<1>7. Get(Answer, "latestTelemetry") = Telemetry
  <2>1. <<"latestTelemetry", Telemetry>> \in Pairs
        /\ \A kv \in Pairs : kv[1] = "latestTelemetry" => kv = <<"latestTelemetry", Telemetry>>
    BY DEF Pairs
  <2> QED BY <1>2, <2>1
<1>8. Get(Answer, "runtime") = run
  <2>1. <<"runtime", run>> \in Pairs
        /\ \A kv \in Pairs : kv[1] = "runtime" => kv = <<"runtime", run>>
    BY DEF Pairs
  <2> HIDE DEF run
  <2> QED BY <1>2, <2>1
<1>9. ASSUME rest = << >>
      PROVE  Get(Answer, "publicIp") = Null /\ Get(Answer, "portMappings") = Null
  <2>1. \A kv \in Pairs : kv[1] \notin {"publicIp", "portMappings"}
    BY <1>9 DEF Pairs
  <2> QED BY <1>3, <2>1
<1>10. ASSUME rest # << >>
       PROVE  /\ Get(Answer, "publicIp") = Text("one")
              /\ Get(Answer, "portMappings") = Dict(rest)
  <2>1. <<"publicIp", Text("one")>> \in Pairs /\ <<"portMappings", Dict(rest)>> \in Pairs
    BY <1>10 DEF Pairs
  <2>2. \A kv \in Pairs : /\ kv[1] = "publicIp" => kv = <<"publicIp", Text("one")>>
                          /\ kv[1] = "portMappings" => kv = <<"portMappings", Dict(rest)>>
    BY <1>10 DEF Pairs
  <2> QED BY <1>2, <2>1, <2>2
<1>11. ASSUME NEW key \in {"publicIP", "ip", "host", "none", "ports",
                           "desired_status", "status"}
       PROVE  Get(Answer, key) = Null
  <2>1. \A kv \in Pairs : kv[1] # key
    BY DEF Pairs
  <2> QED BY <1>3, <2>1
<1>12. Get(Answer, "publicIp") = IF rest = << >> THEN Null ELSE Text("one")
  BY <1>9, <1>10
<1>13. Get(Answer, "portMappings") = IF rest = << >> THEN Null ELSE Dict(rest)
  BY <1>9, <1>10
<1> QED BY <1>4, <1>5, <1>6, <1>7, <1>8, <1>11, <1>12, <1>13

\* An entry of runtime.ports, under each key.
LEMMA ItemFields ==
    ASSUME NEW e
    PROVE  LET d == Item(e) IN
           /\ Flatly(d) <=> Leaf(e.open) /\ Leaf(e.private)
           /\ Get(d, "ip") = IF e.ip = "none" THEN Null ELSE Text(e.ip)
           /\ Get(d, "isIpPublic") = e.open
           /\ Get(d, "privatePort") = e.private
           /\ Get(d, "publicPort") = Num(e.public)
           /\ \A key \in {"publicIp", "publicIP", "host", "none", "runtime",
                          "ports", "portMappings", "desiredStatus",
                          "desired_status", "status"} : Get(d, key) = Null
<1> DEFINE d == Item(e)
           ip == IF e.ip = "none" THEN Null ELSE Text(e.ip)
           s == << <<"ip", ip>>, <<"isIpPublic", e.open>>,
                   <<"privatePort", e.private>>, <<"publicPort", Num(e.public)>>,
                   <<"type", Text("tcp")>> >>
           P == {<<"ip", ip>>, <<"isIpPublic", e.open>>,
                 <<"privatePort", e.private>>, <<"publicPort", Num(e.public)>>,
                 <<"type", Text("tcp")>>}
<1>1. d.t = "dict" /\ d.items = s
  BY DEF Item, Dict
<1>2. Leaf(ip) /\ Leaf(Num(e.public)) /\ Leaf(Text("tcp"))
  BY DEF Leaf, Null, Text, Num
<1> HIDE DEF d, ip
<1>3. ToSet(d.items) = P /\ DOMAIN d.items = 1..5
  BY <1>1 DEF ToSet
<1>4. Flatly(d) <=> Leaf(e.open) /\ Leaf(e.private)
  <2>1. \A i \in 1..5 : i \in {1, 2, 3, 4, 5}
    OBVIOUS
  <2>2. (\A i \in DOMAIN d.items : Leaf(d.items[i][2]))
           <=> Leaf(e.open) /\ Leaf(e.private)
    BY <1>1, <1>2, <1>3, <2>1
  <2> QED BY <1>1, <1>3, <2>2 DEF Flatly
<1>5. ASSUME NEW key, NEW v, <<key, v>> \in P,
             \A kv \in P : kv[1] = key => kv = <<key, v>>
      PROVE  Get(d, key) = v
  <2> HIDE DEF P
  <2> QED BY <1>3, <1>5, GetHit
<1>6. ASSUME NEW key, \A kv \in P : kv[1] # key
      PROVE  Get(d, key) = Null
  <2> HIDE DEF P
  <2> QED BY <1>3, <1>6, GetMiss
<1>7. Get(d, "ip") = ip
  BY <1>5
<1>8. Get(d, "isIpPublic") = e.open
  BY <1>5
<1>9. Get(d, "privatePort") = e.private
  BY <1>5
<1>10. Get(d, "publicPort") = Num(e.public)
  BY <1>5
<1>11. ASSUME NEW key \in {"publicIp", "publicIP", "host", "none", "runtime",
                           "ports", "portMappings", "desiredStatus",
                           "desired_status", "status"}
       PROVE  Get(d, key) = Null
  <2>1. \A kv \in P : kv[1] # key
    OBVIOUS
  <2> QED BY <1>6, <2>1
<1> QED BY <1>4, <1>7, <1>8, <1>9, <1>10, <1>11 DEF d, ip

\* An object with a single key.
LEMMA SingleKey ==
    ASSUME NEW k, NEW v
    PROVE  LET d == Dict(<< <<k, v>> >>) IN
           /\ d.t = "dict" /\ DOMAIN d.items = 1..1 /\ d.items[1] = <<k, v>>
           /\ Get(d, k) = v
           /\ \A key : key # k => Get(d, key) = Null
<1> DEFINE d == Dict(<< <<k, v>> >>)
<1>1. d.t = "dict" /\ d.items = << <<k, v>> >>
  BY DEF Dict
<1> HIDE DEF d
<1>2. ToSet(d.items) = {<<k, v>>} /\ DOMAIN d.items = 1..1 /\ d.items[1] = <<k, v>>
  BY <1>1 DEF ToSet
<1>3. Get(d, k) = v
  BY <1>2, GetHit
<1>4. \A key : key # k => Get(d, key) = Null
  BY <1>2, GetMiss
<1> QED BY <1>1, <1>2, <1>3, <1>4 DEF d

\* The machine and the telemetry.
LEMMA SmallObjects ==
    /\ Flatly(Machine) /\ Flatly(Telemetry)
    /\ Get(Machine, "podHostId") = Stamp("podHostId")
    /\ Get(Telemetry, "state") = Stamp("state")
    /\ \A key : key # "podHostId" => Get(Machine, key) = Null
    /\ \A key : key # "state" => Get(Telemetry, key) = Null
<1>1. ASSUME NEW k, NEW f
      PROVE  Flatly(Dict(<< <<k, Stamp(f)>> >>))
  <2> DEFINE d == Dict(<< <<k, Stamp(f)>> >>)
  <2>1. d.t = "dict" /\ DOMAIN d.items = 1..1 /\ d.items[1] = <<k, Stamp(f)>>
    BY SingleKey
  <2>2. Leaf(Stamp(f))
    BY DEF Leaf, Stamp, Num, Null
  <2>3. \A i \in 1..1 : i = 1
    OBVIOUS
  <2> HIDE DEF d
  <2>4. Flatly(d)
    BY <2>1, <2>2, <2>3 DEF Flatly
  <2> QED BY <2>4 DEF d
<1>2. Flatly(Machine) /\ Flatly(Telemetry)
  BY <1>1 DEF Machine, Telemetry
<1>3. /\ Get(Machine, "podHostId") = Stamp("podHostId")
      /\ \A key : key # "podHostId" => Get(Machine, key) = Null
  BY SingleKey DEF Machine
<1>4. /\ Get(Telemetry, "state") = Stamp("state")
      /\ \A key : key # "state" => Get(Telemetry, key) = Null
  BY SingleKey DEF Telemetry
<1> QED BY <1>2, <1>3, <1>4

\* The keys of portMappings are ports.
LEMMA RestFields ==
    ASSUME ReportInv
    PROVE  /\ Flatly(Dict(rest))
           /\ \A key : key \notin {"9000/tcp", "9000", "8888/http"} =>
                 Get(Dict(rest), key) = Null
<1> DEFINE d == Dict(rest)
<1>1. d.t = "dict" /\ d.items = rest
  BY DEF Dict
<1>2. Len(rest) \in Nat /\ DOMAIN rest = 1..Len(rest)
      /\ \A i \in DOMAIN rest : rest[i] \in RestEntries
  BY DEF ReportInv
<1>3. \A e \in RestEntries : Leaf(e[2]) /\ e[1] \in {"9000/tcp", "9000", "8888/http"}
  BY DEF RestEntries, Leaf, Num, Digits
<1> HIDE DEF d
<1>4. Flatly(d)
  BY <1>1, <1>2, <1>3 DEF Flatly
<1>5. \A kv \in ToSet(d.items) : kv[1] \in {"9000/tcp", "9000", "8888/http"}
  BY <1>1, <1>2, <1>3 DEF ToSet
<1>6. \A key : key \notin {"9000/tcp", "9000", "8888/http"} => Get(d, key) = Null
  BY <1>5, GetMiss
<1> QED BY <1>4, <1>6 DEF d

\* The objects under runtime.
Items == {Item(e) : e \in ToSet(runtime)}

\* Entries are objects of leaves.
LEMMA EntryFlat ==
    ASSUME ReportInv, runtime # "none"
    PROVE  /\ Len(runtime) \in Nat /\ DOMAIN runtime = 1..Len(runtime)
           /\ \A i \in 1..Len(runtime) :
                 PortItems[i] = Item(runtime[i]) /\ runtime[i] \in Entries
           /\ PortItems \in Seq(Items) /\ ToSet(PortItems) = Items
           /\ \A d \in Items : Flatly(d)
<1>1. runtime \in Seq(Entries)
  BY DEF ReportInv
<1>2. /\ Len(runtime) \in Nat /\ DOMAIN runtime = 1..Len(runtime)
      /\ \A i \in 1..Len(runtime) : runtime[i] \in Entries
  BY <1>1
<1>3. \A i \in 1..Len(runtime) : PortItems[i] = Item(runtime[i])
  BY <1>2 DEF PortItems
<1>4. \A i \in 1..Len(runtime) : runtime[i] \in ToSet(runtime)
  BY <1>2 DEF ToSet
<1>5. PortItems \in [1..Len(runtime) -> Items]
  BY <1>2, <1>4 DEF PortItems, Items
<1>6. PortItems \in Seq(Items)
  BY <1>2, <1>5
<1>7. ToSet(PortItems) = Items
  BY <1>2, <1>3, <1>5 DEF ToSet, Items
<1>8. ASSUME NEW e \in Entries PROVE Flatly(Item(e))
  <2>1. Leaf(e.open) /\ Leaf(e.private)
    BY DEF Entries, Leaf, True, False, Null, Num
  <2> QED BY <2>1, ItemFields
<1>9. \A d \in Items : Flatly(d)
  BY <1>2, <1>8 DEF Items, ToSet
<1> QED BY <1>2, <1>3, <1>6, <1>7, <1>9

\* walk_dicts finds the entries below runtime.
LEMMA RuntimeFinds ==
    ASSUME ReportInv, runtime # "none",
           NEW X, RuntimeDict \in X, Items \subseteq X
    PROVE  Finds(WalkRuntime(RuntimeDict), X, {RuntimeDict} \cup Items)
<1> DEFINE n == Len(runtime)
           ports == List(PortItems)
<1>1. n \in Nat /\ DOMAIN PortItems = 1..n /\ ToSet(PortItems) = Items
      /\ \A i \in 1..n : PortItems[i] \in Items
  BY EntryFlat DEF PortItems
<1>2. ports.t = "list" /\ ports.items = PortItems
  BY DEF List
<1>3. Parts(ports) = PortItems
  BY <1>2 DEF Parts
<1> HIDE DEF ports, n
<1>4. Finds(WalkPorts(ports), X, Items)
  <2> DEFINE w == [i \in DOMAIN Parts(ports) |-> Itself(Parts(ports)[i])]
  <2>1. w = [i \in 1..n |-> w[i]] /\ \A i \in 1..n : w[i] = Itself(PortItems[i])
    BY <1>1, <1>3
  <2>2. WalkPorts(ports) = Itself(ports) \o FlattenSeq(w)
    BY DEF WalkPorts, Walk
  <2> HIDE DEF w
  <2>3. \A i \in 1..n : Finds(w[i], X, {PortItems[i]})
    BY <1>1, <2>1, EntryFlat, FlatlyFinds
  <2>4. w \in [1..n -> Seq(X)] /\ \A i \in 1..n : ToSet(w[i]) = {PortItems[i]}
    BY <2>1, <2>3 DEF Finds
  <2>5. Finds(WalkPorts(ports), X, Found(ports, w, n))
    <3>1. ports.t = "dict" => ports \in X
      BY <1>2
    <3>2. Finds(Itself(ports) \o FlattenSeq(w), X, Found(ports, w, n))
      BY <1>1, <2>4, <3>1, WalkFinds
    <3> QED BY <2>2, <3>2
  <2>6. Found(ports, w, n) = Items
    <3>1. UNION {ToSet(w[i]) : i \in 1..n} = {PortItems[i] : i \in 1..n}
      BY <2>4
    <3>2. {PortItems[i] : i \in 1..n} = Items
      BY <1>1 DEF ToSet
    <3> QED BY <3>1, <3>2, <1>2 DEF Found
  <2> QED BY <2>5, <2>6
<1>5. RuntimeDict.t = "dict" /\ DOMAIN Parts(RuntimeDict) = 1..1
      /\ Parts(RuntimeDict)[1] = ports
  <2>1. RuntimeDict.t = "dict" /\ DOMAIN RuntimeDict.items = 1..1
        /\ RuntimeDict.items[1] = <<"ports", ports>>
    BY SingleKey DEF RuntimeDict, ports
  <2> QED BY <2>1 DEF Parts
<1>6. Finds(WalkRuntime(RuntimeDict), X, {RuntimeDict} \cup Items)
  <2> DEFINE w == [i \in DOMAIN Parts(RuntimeDict) |-> WalkPorts(Parts(RuntimeDict)[i])]
  <2>1. w = [i \in 1..1 |-> w[i]] /\ w[1] = WalkPorts(ports)
    BY <1>5
  <2>2. WalkRuntime(RuntimeDict) = Itself(RuntimeDict) \o FlattenSeq(w)
    BY DEF WalkRuntime, Walk
  <2> HIDE DEF w
  <2>3. w \in [1..1 -> Seq(X)] /\ ToSet(w[1]) = Items
    <3>1. \A i \in 1..1 : i = 1
      OBVIOUS
    <3> QED BY <1>4, <2>1, <3>1 DEF Finds
  <2>4. Finds(WalkRuntime(RuntimeDict), X, Found(RuntimeDict, w, 1))
    BY <2>2, <2>3, WalkFinds
  <2>5. Found(RuntimeDict, w, 1) = {RuntimeDict} \cup Items
    <3>1. UNION {ToSet(w[i]) : i \in 1..1} = ToSet(w[1])
      OBVIOUS
    <3> QED BY <3>1, <2>3, <1>5 DEF Found
  <2> QED BY <2>4, <2>5
<1> QED BY <1>6

\* All objects of an answer.
Inside ==
    {Machine, Telemetry}
      \cup (IF runtime = "none" THEN {} ELSE {RuntimeDict} \cup Items)
      \cup (IF rest = << >> THEN {} ELSE {Dict(rest)})

Objects == {Answer} \cup Inside

\* What is found below each value of the answer.
LEMMA ValueFinds ==
    ASSUME ReportInv
    PROVE  /\ \A kv \in Pairs : \E S \in SUBSET Inside :
                 Finds(WalkRuntime(kv[2]), Objects, S)
           /\ \A d \in Inside : \E kv \in Pairs : \E S \in SUBSET Inside :
                 d \in S /\ Finds(WalkRuntime(kv[2]), Objects, S)
<1> DEFINE run == IF runtime = "none" THEN Null ELSE RuntimeDict
           Run == IF runtime = "none" THEN {} ELSE {RuntimeDict} \cup Items
           Leads(v, S) == S \in SUBSET Inside /\ Finds(WalkRuntime(v), Objects, S)
<1>1. \A v : Leaf(v) => Leads(v, {})
  BY LeafFinds
<1>2. \A s, k : Leaf(Text(s)) /\ Leaf(Stamp(k)) /\ Leaf(Null)
  BY DEF Leaf, Text, Stamp, Num, Null
<1>3. Leads(Machine, {Machine}) /\ Leads(Telemetry, {Telemetry})
  BY FlatlyFinds, SmallObjects DEF Inside, Objects
<1>4. Leads(run, Run)
  <2>1. CASE runtime = "none"
    BY <1>1, <1>2, <2>1
  <2>2. CASE runtime # "none"
    <3>1. RuntimeDict \in Objects /\ Items \subseteq Objects
          /\ {RuntimeDict} \cup Items \subseteq Inside
      BY <2>2 DEF Objects, Inside
    <3>2. Finds(WalkRuntime(RuntimeDict), Objects, {RuntimeDict} \cup Items)
      BY <2>2, <3>1, RuntimeFinds
    <3> QED BY <2>2, <3>1, <3>2
  <2> QED BY <2>1, <2>2
<1>5. ASSUME rest # << >> PROVE Leads(Dict(rest), {Dict(rest)})
  <2>1. Dict(rest) \in Objects /\ {Dict(rest)} \subseteq Inside
    BY <1>5 DEF Objects, Inside
  <2> QED BY <2>1, FlatlyFinds, RestFields
<1>6. Inside = {Machine, Telemetry} \cup Run \cup (IF rest = << >> THEN {} ELSE {Dict(rest)})
  BY DEF Inside
<1>7. /\ <<"machine", Machine>> \in Pairs /\ <<"latestTelemetry", Telemetry>> \in Pairs
      /\ <<"runtime", run>> \in Pairs
      /\ rest # << >> => <<"portMappings", Dict(rest)>> \in Pairs
  BY DEF Pairs
<1>8. \A kv \in Pairs :
         \/ Leaf(kv[2]) \/ kv[2] = Machine \/ kv[2] = Telemetry \/ kv[2] = run
         \/ rest # << >> /\ kv[2] = Dict(rest)
  <2> HIDE DEF run
  <2>1. Pairs \subseteq
          {<<"id", Text("pod")>>, <<"desiredStatus", Text(desired)>>,
           <<"lastStatusChange", Stamp("lastStatusChange")>>,
           <<"lastStartedAt", Stamp("lastStartedAt")>>,
           <<"version", Stamp("version")>>,
           <<"uptimeSeconds", Stamp("uptimeSeconds")>>,
           <<"machineId", Text("machine")>>,
           <<"machine", Machine>>, <<"latestTelemetry", Telemetry>>,
           <<"runtime", run>>, <<"publicIp", Text("one")>>}
            \cup (IF rest = << >> THEN {} ELSE {<<"portMappings", Dict(rest)>>})
    BY DEF Pairs, run
  <2> QED BY <2>1, <1>2
<1> HIDE DEF run, Run, Leads
<1>9. \A kv \in Pairs : \E S : Leads(kv[2], S)
  BY <1>1, <1>3, <1>4, <1>5, <1>8
<1>10. ASSUME NEW d \in Inside
       PROVE  \E kv \in Pairs : \E S : d \in S /\ Leads(kv[2], S)
  <2>1. CASE d = Machine
    <3>1. d \in {Machine} /\ Leads(<<"machine", Machine>>[2], {Machine})
      BY <2>1, <1>3
    <3> QED BY <3>1, <1>7
  <2>2. CASE d = Telemetry
    <3>1. d \in {Telemetry} /\ Leads(<<"latestTelemetry", Telemetry>>[2], {Telemetry})
      BY <2>2, <1>3
    <3> QED BY <3>1, <1>7
  <2>3. CASE d \in Run
    <3>1. Leads(<<"runtime", run>>[2], Run)
      BY <1>4
    <3> QED BY <2>3, <3>1, <1>7
  <2>4. CASE rest # << >> /\ d = Dict(rest)
    <3>1. d \in {Dict(rest)} /\ Leads(<<"portMappings", Dict(rest)>>[2], {Dict(rest)})
      BY <2>4, <1>5
    <3> QED BY <2>4, <3>1, <1>7
  <2>5. \/ d = Machine \/ d = Telemetry \/ d \in Run
        \/ rest # << >> /\ d = Dict(rest)
    BY <1>6
  <2> QED BY <2>1, <2>2, <2>3, <2>4, <2>5
<1> QED BY <1>9, <1>10 DEF Leads

\* walk_dicts finds the objects of the answer and no others.
LEMMA AnswerFinds ==
    ASSUME ReportInv
    PROVE  WalkDicts(Answer) \in Seq(Objects) /\ ToSet(WalkDicts(Answer)) = Objects
<1>1. PICK n \in Nat : DOMAIN Answer.items = 1..n
  BY AnswerHolds
<1>2. Answer.t = "dict" /\ ToSet(Answer.items) = Pairs
  BY AnswerHolds
<1>3. /\ DOMAIN Parts(Answer) = 1..n
      /\ \A i \in 1..n : Parts(Answer)[i] = Answer.items[i][2]
  BY <1>1, <1>2 DEF Parts
<1>4. /\ \A i \in 1..n : Answer.items[i] \in Pairs
      /\ \A kv \in Pairs : \E i \in 1..n : kv = Answer.items[i]
  BY <1>1, <1>2 DEF ToSet
<1> DEFINE w == [i \in DOMAIN Parts(Answer) |-> WalkRuntime(Parts(Answer)[i])]
<1>5. /\ w = [i \in 1..n |-> w[i]]
      /\ \A i \in 1..n : w[i] = WalkRuntime(Answer.items[i][2])
  BY <1>3
<1>6. WalkDicts(Answer) = Itself(Answer) \o FlattenSeq(w)
  BY DEF WalkDicts, Walk
<1> HIDE DEF w
<1>7. ASSUME NEW i \in 1..n PROVE w[i] \in Seq(Objects) /\ ToSet(w[i]) \subseteq Inside
  <2>1. PICK S \in SUBSET Inside : Finds(WalkRuntime(Answer.items[i][2]), Objects, S)
    BY <1>4, ValueFinds
  <2> QED BY <1>5, <2>1 DEF Finds
<1>8. ASSUME NEW d \in Inside PROVE \E i \in 1..n : d \in ToSet(w[i])
  <2>1. PICK kv \in Pairs : \E S \in SUBSET Inside :
           d \in S /\ Finds(WalkRuntime(kv[2]), Objects, S)
    BY ValueFinds
  <2>2. PICK i \in 1..n : kv = Answer.items[i]
    BY <1>4
  <2>3. d \in ToSet(w[i])
    BY <1>5, <2>1, <2>2 DEF Finds
  <2> QED BY <2>3
<1>9. w \in [1..n -> Seq(Objects)] /\ UNION {ToSet(w[i]) : i \in 1..n} = Inside
  <2>1. w \in [1..n -> Seq(Objects)]
    BY <1>5, <1>7
  <2>2. UNION {ToSet(w[i]) : i \in 1..n} = Inside
    BY <1>7, <1>8
  <2> QED BY <2>1, <2>2
<1>10. Answer \in Objects
  BY DEF Objects
<1>11. Finds(Itself(Answer) \o FlattenSeq(w), Objects, Found(Answer, w, n))
  BY <1>9, <1>10, WalkFinds
<1>12. Found(Answer, w, n) = Objects
  BY <1>2, <1>9 DEF Found, Objects
<1> QED BY <1>6, <1>11, <1>12 DEF Finds

-----------------------------------------------------------------------------
\* What the adapter reads.

\* Which values count as given.
LEMMA Given ==
    /\ ~Truthy(Null)
    /\ \A s \in {"one", "two"} : Truthy(Text(s))
    /\ \A n : Truthy(Num(n)) <=> n # 0
<1>1. ~Truthy(Null)
  BY Zenon DEF Truthy, Null
<1>2. \A s : s # "" => Truthy(Text(s))
  BY Zenon DEF Truthy, Text
<1>3. "one" # "" /\ "two" # ""
  BY Zenon
<1>4. \A s \in {"one", "two"} : Truthy(Text(s))
  BY <1>2, <1>3, Zenon
<1>5. ASSUME NEW v, v.t = "num" PROVE Truthy(v) <=> v.n # 0
  BY <1>5, Zenon DEF Truthy
<1>6. \A n : Truthy(Num(n)) <=> n # 0
  BY <1>5, Kinds
<1> QED BY <1>1, <1>4, <1>6

\* A search for a key of four: nothing, the first, or the third.
LEMMA FourKeys ==
    ASSUME NEW T, T \subseteq 1..4
    PROVE  /\ T = {} => (IF T # {} THEN Min(T) ELSE 0) = 0
           /\ 1 \in T => (IF T # {} THEN Min(T) ELSE 0) = 1
           /\ T = {3} => (IF T # {} THEN Min(T) ELSE 0) = 3
<1>1. T \subseteq Nat
  OBVIOUS
<1>2. ASSUME 1 \in T PROVE Min(T) = 1
  <2> DEFINE m == Min(T)
  <2>1. m \in T /\ m <= 1
    BY <1>1, <1>2, MinIsLeast
  <2> HIDE DEF m
  <2>2. m = 1
    BY <2>1
  <2> QED BY <2>2 DEF m
<1>3. ASSUME T = {3} PROVE Min(T) = 3
  BY <1>1, <1>3, MinIsLeast
<1> QED BY <1>2, <1>3

\* The address an object holds, when it has at most one field for it.
LEMMA OwnIpIs ==
    ASSUME NEW d, Get(d, "publicIP") = Null, Get(d, "host") = Null,
           Get(d, "none") = Null
    PROVE  /\ Get(d, "publicIp") = Null /\ Get(d, "ip") = Null => OwnIp(d) = Null
           /\ Get(d, "publicIp") \in {Text("one"), Text("two")} =>
                 OwnIp(d) = Get(d, "publicIp")
           /\ Get(d, "publicIp") = Null /\ Get(d, "ip") \in {Text("one"), Text("two")} =>
                 OwnIp(d) = Get(d, "ip")
<1> DEFINE Test(k) == Get(d, k).t \in {"text", "digits"} /\ Truthy(Get(d, k))
           keys == <<"publicIp", "publicIP", "ip", "host">>
           T == {i \in 1..Len(keys) : Test(keys[i])}
           j == IF T # {} THEN Min(T) ELSE 0
<1>1. OwnIp(d) = Get(d, IF j = 0 THEN "none" ELSE keys[j])
  BY DEF OwnIp, FirstOf, SelectInSeq
<1>2. /\ T \subseteq 1..4
      /\ (1 \in T <=> Test("publicIp")) /\ (2 \in T <=> Test("publicIP"))
      /\ (3 \in T <=> Test("ip")) /\ (4 \in T <=> Test("host"))
  <2>1. /\ Len(keys) = 4 /\ keys[1] = "publicIp" /\ keys[2] = "publicIP"
        /\ keys[3] = "ip" /\ keys[4] = "host"
    OBVIOUS
  <2> HIDE DEF keys, Test
  <2> QED BY <2>1
<1>3. ~Test("publicIP") /\ ~Test("host")
  BY Given
<1>4. ASSUME NEW k, Get(d, k) = Null PROVE ~Test(k)
  BY <1>4, Given
<1>5. ASSUME NEW k, Get(d, k) \in {Text("one"), Text("two")} PROVE Test(k)
  BY <1>5, Given, Kinds
<1> HIDE DEF Test, T
<1>6. ASSUME Get(d, "publicIp") = Null, Get(d, "ip") = Null
      PROVE  OwnIp(d) = Null
  <2>1. T = {}
    BY <1>2, <1>3, <1>4, <1>6
  <2> QED BY <1>1, <2>1
<1>7. ASSUME Get(d, "publicIp") \in {Text("one"), Text("two")}
      PROVE  OwnIp(d) = Get(d, "publicIp")
  <2>1. 1 \in T
    BY <1>2, <1>5, <1>7
  <2>2. j = 1
    BY <1>2, <2>1, FourKeys
  <2> QED BY <1>1, <2>2
<1>8. ASSUME Get(d, "publicIp") = Null, Get(d, "ip") \in {Text("one"), Text("two")}
      PROVE  OwnIp(d) = Get(d, "ip")
  <2>1. 3 \in T /\ 1 \notin T /\ 2 \notin T /\ 4 \notin T
    BY <1>2, <1>3, <1>4, <1>5, <1>8
  <2>2. T = {3}
    <3>1. \A i \in T : i = 3
      BY <1>2, <2>1
    <3> QED BY <2>1, <3>1
  <2>3. j = 3
    BY <1>2, <2>2, FourKeys
  <2> QED BY <1>1, <2>3
<1> QED BY <1>6, <1>7, <1>8

\* Where the pod itself says it can be reached: only portMappings comes with
\* an address.
LEMMA AnswerIp ==
    ExtractPublicIp(Answer) = IF rest = << >> THEN Null ELSE Text("one")
<1>1. /\ Get(Answer, "publicIP") = Null /\ Get(Answer, "host") = Null
      /\ Get(Answer, "none") = Null /\ Get(Answer, "ip") = Null
      /\ Get(Answer, "publicIp") = IF rest = << >> THEN Null ELSE Text("one")
      /\ Get(Answer, "runtime") = IF runtime = "none" THEN Null ELSE RuntimeDict
  BY AnswerFields
<1>2. OwnIp(Answer) = IF rest = << >> THEN Null ELSE Text("one")
  BY <1>1, OwnIpIs
<1>3. OwnIp(RuntimeDict) = Null
  <2>1. \A key : key # "ports" => Get(RuntimeDict, key) = Null
    BY SingleKey DEF RuntimeDict
  <2> QED BY <2>1, OwnIpIs
<1>4. Text("one") # Null /\ Null.t # "dict"
  BY Kinds
<1>5. ExtractPublicIp(Answer) =
         IF OwnIp(Answer) # Null THEN OwnIp(Answer)
         ELSE IF Get(Answer, "runtime").t = "dict"
              THEN OwnIp(Get(Answer, "runtime")) ELSE Null
  BY DEF ExtractPublicIp
<1>6. CASE rest # << >>
  BY <1>2, <1>4, <1>5, <1>6
<1>7. CASE rest = << >> /\ runtime = "none"
  BY <1>1, <1>2, <1>4, <1>5, <1>7
<1>8. CASE rest = << >> /\ runtime # "none"
  BY <1>1, <1>2, <1>3, <1>5, <1>8
<1> QED BY <1>6, <1>7, <1>8

\* The address of an entry of runtime.ports.
LEMMA ItemIp ==
    ASSUME NEW e \in Entries
    PROVE  ExtractPublicIp(Item(e)) = IF e.ip = "none" THEN Null ELSE Text(e.ip)
<1> DEFINE d == Item(e)
<1>1. /\ Get(d, "publicIP") = Null /\ Get(d, "host") = Null
      /\ Get(d, "none") = Null /\ Get(d, "publicIp") = Null
      /\ Get(d, "runtime") = Null
      /\ Get(d, "ip") = IF e.ip = "none" THEN Null ELSE Text(e.ip)
  BY ItemFields
<1>2. e.ip \in {"none", "one", "two"}
  BY DEF Entries
<1> HIDE DEF d
<1>3. OwnIp(d) = IF e.ip = "none" THEN Null ELSE Text(e.ip)
  BY <1>1, <1>2, OwnIpIs
<1>4. Null.t # "dict"
  BY Kinds
<1>5. ExtractPublicIp(d) = IF OwnIp(d) # Null THEN OwnIp(d) ELSE Null
  BY <1>1, <1>4 DEF ExtractPublicIp
<1> QED BY <1>3, <1>5 DEF d

\* Its public port.
LEMMA ItemPort ==
    ASSUME NEW e
    PROVE  ExtractPublicPort(Item(e)) = Num(e.public)
<1> DEFINE d == Item(e)
           Test(k) == Get(d, k).t \in {"num", "digits"}
           keys == <<"publicPort", "hostPort", "externalPort">>
           T == {i \in 1..Len(keys) : Test(keys[i])}
           j == IF T # {} THEN Min(T) ELSE 0
           port == Get(d, IF j = 0 THEN "none" ELSE keys[j])
<1>1. ExtractPublicPort(d) = IF port = Null THEN Null ELSE Num(port.n)
  BY DEF ExtractPublicPort, FirstOf, SelectInSeq
<1>2. Get(d, "publicPort") = Num(e.public)
  BY ItemFields
<1>3. Test("publicPort")
  BY <1>2, Kinds
<1>4. T \subseteq 1..4 /\ 1 \in T /\ keys[1] = "publicPort"
  <2>1. Len(keys) = 3 /\ keys[1] = "publicPort"
    OBVIOUS
  <2> HIDE DEF keys, Test
  <2> QED BY <1>3, <2>1
<1> HIDE DEF T, keys, d
<1>5. j = 1
  BY <1>4, FourKeys
<1>6. port = Num(e.public)
  BY <1>2, <1>4, <1>5
<1> QED BY <1>1, <1>6, Kinds DEF d

\* Which entries are the wrapper's.
LEMMA ItemWrapper ==
    ASSUME NEW e \in Entries
    PROVE  WrapperEntry(Item(e)) <=> e.private = Num(WrapperPort) /\ e.open # False
<1> DEFINE d == Item(e)
           Test(k) == Truthy(Get(d, k))
           keys == <<"privatePort", "containerPort", "internalPort", "port">>
           T == {i \in 1..Len(keys) : Test(keys[i])}
           j == IF T # {} THEN Min(T) ELSE 0
<1>1. GetAny(d, keys) = Get(d, IF j = 0 THEN Last(keys) ELSE keys[j])
  BY DEF GetAny, FirstOf, SelectInSeq
<1>2. Get(d, "privatePort") = e.private /\ Get(d, "isIpPublic") = e.open
      /\ d.t = "dict"
  BY ItemFields, Kinds DEF Item
<1>3. e.private \in {Num(WrapperPort), Num(8888)}
  BY DEF Entries
<1>4. Test("privatePort")
  BY <1>2, <1>3, Given, WrapperPortAssumption
<1>5. T \subseteq 1..4 /\ 1 \in T /\ keys[1] = "privatePort"
  <2>1. Len(keys) = 4 /\ keys[1] = "privatePort"
    OBVIOUS
  <2> HIDE DEF keys, Test
  <2> QED BY <1>4, <2>1
<1> HIDE DEF T, d
<1>6. j = 1
  BY <1>5, FourKeys
<1>7. GetAny(d, keys) = e.private
  BY <1>1, <1>2, <1>5, <1>6
<1>8. \A n : Num(n) # Digits(WrapperPort)
  BY DEF Num, Digits
<1>9. WrapperEntry(d) <=> e.private \in {Num(WrapperPort), Digits(WrapperPort)}
                          /\ e.open # False
  BY <1>2, <1>7 DEF WrapperEntry
<1>10. WrapperEntry(d) <=> e.private = Num(WrapperPort) /\ e.open # False
  BY <1>3, <1>8, <1>9
<1> QED BY <1>10 DEF d

\* The first mapping found, or none if there is none.
LEMMA FirstMappingIs ==
    ASSUME NEW n \in Nat, NEW s, s = [i \in 1..n |-> s[i]]
    PROVE  \/ FirstMapping(s) = NoMapping /\ \A i \in 1..n : s[i] = NoMapping
           \/ \E i \in 1..n : FirstMapping(s) = s[i] /\ s[i] # NoMapping
<1> DEFINE T == {i \in 1..Len(s) : s[i] # NoMapping}
           j == IF T # {} THEN Min(T) ELSE 0
<1>1. FirstMapping(s) = IF j = 0 THEN NoMapping ELSE s[j]
  BY DEF FirstMapping, FirstOf, SelectInSeq
<1>2. Len(s) = n
  <2>1. s \in [1..n -> {s[i] : i \in 1..n}]
    OBVIOUS
  <2>2. s \in Seq({s[i] : i \in 1..n}) /\ DOMAIN s = 1..n
    BY <2>1
  <2> QED BY <2>2
<1>3. CASE T = {}
  BY <1>1, <1>2, <1>3
<1>4. CASE T # {}
  <2>1. T \subseteq Nat /\ T \subseteq 1..n /\ \A i \in T : s[i] # NoMapping
    BY <1>2
  <2>2. Min(T) \in T
    BY <2>1, <1>4, MinIsLeast
  <2> DEFINE m == Min(T)
  <2> HIDE DEF T, m
  <2>3. m \in 1..n /\ s[m] # NoMapping /\ m # 0
    BY <2>1, <2>2 DEF m
  <2>4. j = m
    BY <1>4 DEF m
  <2> QED BY <1>1, <2>3, <2>4
<1> QED BY <1>3, <1>4

\* The entry e leads to the wrapper.
Leads(e) ==
    e.private = Num(WrapperPort) /\ e.open # False /\ e.ip # "none" /\ e.public # 0

\* What is taken: a public endpoint, or one RunPod does not mark.
Usable == Reachable \cup Unmarked

\* What runtime.ports says.
LEMMA RuntimeMapping ==
    ASSUME ReportInv, runtime # "none"
    PROVE  LET m == MappingFromPorts(Answer, PortItems) IN
           /\ m # NoMapping => m \in Usable
           /\ (\E e \in ToSet(runtime) : Leads(e)) => m # NoMapping
<1> DEFINE n == Len(runtime)
           s == [i \in DOMAIN PortItems |->
                    IF WrapperEntry(PortItems[i])
                    THEN Mapping(Fallback(ExtractPublicIp(PortItems[i]), Answer),
                                 ExtractPublicPort(PortItems[i]))
                    ELSE NoMapping]
           m == MappingFromPorts(Answer, PortItems)
<1>1. n \in Nat /\ DOMAIN PortItems = 1..n /\ DOMAIN runtime = 1..n
      /\ \A i \in 1..n : PortItems[i] = Item(runtime[i]) /\ runtime[i] \in Entries
  BY EntryFlat DEF PortItems
<1>2. m = FirstMapping(s)
  BY DEF MappingFromPorts
<1>3. ExtractPublicIp(Answer) = Null
  BY AnswerIp DEF ReportInv
<1>4. ASSUME NEW e \in Entries
      PROVE  (IF WrapperEntry(Item(e))
              THEN Mapping(Fallback(ExtractPublicIp(Item(e)), Answer),
                           ExtractPublicPort(Item(e)))
              ELSE NoMapping)
             = IF Leads(e) THEN <<Text(e.ip), Num(e.public)>> ELSE NoMapping
  <2>1. e.ip \in {"none", "one", "two"}
    BY DEF Entries
  <2> DEFINE host == Fallback(ExtractPublicIp(Item(e)), Answer)
  <2>2. host = IF e.ip = "none" THEN Null ELSE Text(e.ip)
    BY ItemIp, <1>3, Kinds DEF Fallback
  <2>3. Truthy(host) <=> e.ip # "none"
    BY <2>1, <2>2, Given
  <2>4. Truthy(Num(e.public)) <=> e.public # 0
    BY Given
  <2> HIDE DEF host
  <2>5. Mapping(host, ExtractPublicPort(Item(e)))
          = IF e.ip # "none" /\ e.public # 0
            THEN <<Text(e.ip), Num(e.public)>> ELSE NoMapping
    BY <2>2, <2>3, <2>4, ItemPort DEF Mapping
  <2> QED BY <2>5, ItemWrapper DEF Leads, host
<1>5. /\ s = [i \in 1..n |-> s[i]]
      /\ \A i \in 1..n : s[i] = IF Leads(runtime[i])
                                THEN <<Text(runtime[i].ip), Num(runtime[i].public)>>
                                ELSE NoMapping
  BY <1>1, <1>4
<1> HIDE DEF s, m, n
<1>6. \/ m = NoMapping /\ \A i \in 1..n : s[i] = NoMapping
      \/ \E i \in 1..n : m = s[i] /\ s[i] # NoMapping
  BY <1>1, <1>2, <1>5, FirstMappingIs
<1>7. ASSUME m # NoMapping PROVE m \in Usable
  <2>1. PICK i \in 1..n : m = s[i] /\ s[i] # NoMapping
    BY <1>6, <1>7
  <2>2. Leads(runtime[i]) /\ m = <<Text(runtime[i].ip), Num(runtime[i].public)>>
    BY <1>5, <2>1
  <2>3. runtime[i] \in RuntimeEntries
    BY <1>1 DEF RuntimeEntries, ToSet
  <2>4. runtime[i].open \in {True, Null}
    BY <1>1, <2>2 DEF Leads, Entries
  <2> QED BY <2>2, <2>3, <2>4 DEF Leads, Usable, Reachable, Unmarked, Endpoints
<1>8. ASSUME NEW e \in ToSet(runtime), Leads(e) PROVE m # NoMapping
  <2>1. PICK i \in 1..n : runtime[i] = e
    BY <1>1 DEF ToSet
  <2>2. s[i] = <<Text(e.ip), Num(e.public)>>
    BY <1>5, <1>8, <2>1
  <2>3. s[i] # NoMapping
    BY <2>2 DEF NoMapping
  <2> QED BY <1>6, <2>3
<1> QED BY <1>7, <1>8 DEF m

\* What portMappings says.
LEMMA RestMapping ==
    ASSUME ReportInv, rest # << >>
    PROVE  LET m == MappingFromPortMappings(Answer, Dict(rest)) IN
           /\ m # NoMapping => m \in Usable
           /\ (\E e \in ToSet(rest) : KeyPort(e[1]) = WrapperPort) => m # NoMapping
<1> DEFINE d == Dict(rest)
           m == MappingFromPortMappings(Answer, d)
           usable(kv) == /\ KeyPort(kv[1]) = WrapperPort
                         /\ kv[2].t \in {"num", "digits", "dict"}
           T == {i \in 1..Len(d.items) : usable(d.items[i])}
           j == IF T # {} THEN Min(T) ELSE 0
           entry == (IF j = 0 THEN <<"none", Null>> ELSE d.items[j])[2]
           n == Len(rest)
<1>1. m = CASE entry = Null     -> NoMapping
            [] entry.t = "dict" -> Mapping(Fallback(ExtractPublicIp(entry), Answer),
                                           ExtractPublicPort(entry))
            [] OTHER -> IF Truthy(ExtractPublicIp(Answer))
                        THEN <<ExtractPublicIp(Answer), Num(entry.n)>> ELSE NoMapping
  <2> HIDE DEF d
  <2> QED BY DEF MappingFromPortMappings, FirstOf, SelectInSeq
<1>11. d.items = rest
  BY Kinds
<1> HIDE DEF d
<1>2. n \in Nat /\ DOMAIN rest = 1..n /\ \A i \in 1..n : rest[i] \in RestEntries
  BY DEF ReportInv
<1>3. \A e \in RestEntries : e[2] # Null /\ e[2].t \in {"num", "digits"}
  BY Kinds DEF RestEntries
<1>4. ExtractPublicIp(Answer) = Text("one") /\ Truthy(Text("one"))
  BY AnswerIp, Given
<1>5. \A i \in 1..n : i \in T <=> KeyPort(rest[i][1]) = WrapperPort
  BY <1>2, <1>3, <1>11
<1>6. T \subseteq Nat /\ T \subseteq 1..n
  BY <1>2, <1>11
<1> HIDE DEF T, n, m, entry
<1>7. ASSUME T = {} PROVE m = NoMapping
  <2>1. entry = Null
    BY <1>7 DEF entry
  <2>2. entry.t # "dict"
    BY <2>1, Kinds
  <2> QED BY <1>1, <2>1, <2>2
<1>8. ASSUME T # {} PROVE \E i \in T : m = <<Text("one"), Num(rest[i][2].n)>>
  <2> DEFINE k == Min(T)
  <2>1. k \in T
    BY <1>6, <1>8, MinIsLeast
  <2>2. k \in 1..n /\ k # 0
    <3> HIDE DEF k
    <3> QED BY <1>6, <2>1, <1>2
  <2> HIDE DEF k
  <2>3. j = k
    BY <1>8 DEF k
  <2>4. entry = rest[k][2]
    BY <2>2, <2>3, <1>11 DEF entry
  <2>5. entry # Null /\ entry.t # "dict"
    BY <1>2, <1>3, <2>2, <2>4
  <2>6. m = <<Text("one"), Num(entry.n)>>
    BY <1>1, <1>4, <2>5
  <2> QED BY <2>1, <2>4, <2>6
<1>9. ASSUME m # NoMapping PROVE m \in Usable
  <2>1. PICK i \in T : m = <<Text("one"), Num(rest[i][2].n)>>
    BY <1>7, <1>8, <1>9
  <2>2. i \in 1..n /\ KeyPort(rest[i][1]) = WrapperPort
    BY <1>5, <1>6
  <2>3. rest[i] \in ToSet(rest)
    BY <1>2, <2>2 DEF ToSet
  <2> QED BY <2>1, <2>2, <2>3 DEF Usable, Reachable
<1>10. ASSUME NEW e \in ToSet(rest), KeyPort(e[1]) = WrapperPort PROVE m # NoMapping
  <2>1. PICK i \in 1..n : rest[i] = e
    BY <1>2 DEF ToSet
  <2>2. T # {}
    BY <1>5, <1>10, <2>1
  <2>3. PICK k \in T : m = <<Text("one"), Num(rest[k][2].n)>>
    BY <2>2, <1>8
  <2> QED BY <2>3 DEF NoMapping
<1> QED BY <1>9, <1>10 DEF m, d

\* An object without ports says nothing.
LEMMA NothingSaid ==
    ASSUME NEW d, Get(d, "portMappings") = Null, Get(d, "ports") = Null
    PROVE  MappingIn(Answer, d) = NoMapping
BY Kinds DEF MappingIn

\* The keys the other objects of an answer do not have.
LEMMA OtherObjects ==
    ASSUME ReportInv, NEW d \in Inside
    PROVE  /\ \A key \in {"portMappings", "desiredStatus", "desired_status", "status"} :
                 Get(d, key) = Null
           /\ Get(d, "ports") = Null \/ (runtime # "none" /\ d = RuntimeDict)
<1>1. CASE d = Machine \/ d = Telemetry
  BY <1>1, SmallObjects
<1>2. CASE runtime # "none" /\ d = RuntimeDict
  BY <1>2, SingleKey DEF RuntimeDict
<1>3. CASE runtime # "none" /\ d \in Items
  BY <1>3, ItemFields DEF Items
<1>4. CASE d = Dict(rest)
  BY <1>4, RestFields
<1>5. \/ d = Machine \/ d = Telemetry \/ d = Dict(rest)
      \/ runtime # "none" /\ d = RuntimeDict
      \/ runtime # "none" /\ d \in Items
  BY DEF Inside
<1> QED BY <1>1, <1>2, <1>3, <1>4, <1>5

\* What each object of an answer says.
LEMMA ObjectMapping ==
    ASSUME ReportInv
    PROVE  /\ \A d \in Objects : MappingIn(Answer, d) # NoMapping =>
                 MappingIn(Answer, d) \in Usable
           /\ Reachable # {} =>
                 \E d \in Objects : MappingIn(Answer, d) # NoMapping
<1>1. MappingIn(Answer, Answer) =
         IF rest = << >> THEN NoMapping
         ELSE MappingFromPortMappings(Answer, Dict(rest))
  <2>1. Get(Answer, "ports") = Null
        /\ Get(Answer, "portMappings") = IF rest = << >> THEN Null ELSE Dict(rest)
    BY AnswerFields
  <2>2. CASE rest = << >>
    BY <2>1, <2>2, NothingSaid
  <2>3. CASE rest # << >>
    <3> DEFINE m == MappingFromPortMappings(Answer, Dict(rest))
    <3>1. Get(Answer, "portMappings") = Dict(rest) /\ Dict(rest).t = "dict"
          /\ Null.t # "list"
      BY <2>1, <2>3, Kinds
    <3>2. MappingIn(Answer, Answer) = IF m # NoMapping THEN m ELSE NoMapping
      BY <2>1, <3>1 DEF MappingIn
    <3> QED BY <2>3, <3>2
  <2> QED BY <2>2, <2>3
<1>2. ASSUME runtime # "none"
      PROVE  MappingIn(Answer, RuntimeDict) = MappingFromPorts(Answer, PortItems)
  <2>1. Get(RuntimeDict, "ports") = List(PortItems) /\ Get(RuntimeDict, "portMappings") = Null
    BY SingleKey DEF RuntimeDict
  <2>2. List(PortItems).t = "list" /\ List(PortItems).items = PortItems /\ Null.t # "dict"
    BY Kinds
  <2> QED BY <2>1, <2>2 DEF MappingIn
<1>3. ASSUME NEW d \in Objects, MappingIn(Answer, d) # NoMapping
      PROVE  MappingIn(Answer, d) \in Usable
  <2>1. CASE d = Answer
    BY <1>1, <1>3, <2>1, RestMapping
  <2>2. CASE d \in Inside
    <3>1. runtime # "none" /\ d = RuntimeDict
      BY <1>3, <2>2, OtherObjects, NothingSaid
    <3> QED BY <1>2, <1>3, <3>1, RuntimeMapping
  <2> QED BY <2>1, <2>2 DEF Objects
<1>4. ASSUME Reachable # {}
      PROVE  \E d \in Objects : MappingIn(Answer, d) # NoMapping
  <2>1. \/ \E e \in RuntimeEntries : Leads(e)
        \/ \E e \in ToSet(rest) : KeyPort(e[1]) = WrapperPort
    BY <1>4, Kinds DEF Reachable, Endpoints, Leads
  <2>2. CASE \E e \in RuntimeEntries : Leads(e)
    <3>1. runtime # "none" /\ \E e \in ToSet(runtime) : Leads(e)
      BY <2>2 DEF RuntimeEntries
    <3>2. RuntimeDict \in Objects
      BY <3>1 DEF Objects, Inside
    <3> QED BY <1>2, <3>1, <3>2, RuntimeMapping
  <2>3. CASE \E e \in ToSet(rest) : KeyPort(e[1]) = WrapperPort
    <3>1. rest # << >>
      BY <2>3 DEF ToSet
    <3>2. Answer \in Objects
      BY DEF Objects
    <3> QED BY <1>1, <2>3, <3>1, <3>2, RestMapping
  <2> QED BY <2>1, <2>2, <2>3
<1> QED BY <1>3, <1>4

\* extract_tcp_mapping takes what one of the objects says.
LEMMA MappingTaken ==
    ASSUME ReportInv
    PROVE  /\ ExtractTcpMapping(Answer) # NoMapping =>
                 \E d \in Objects : /\ ExtractTcpMapping(Answer) = MappingIn(Answer, d)
                                    /\ MappingIn(Answer, d) # NoMapping
           /\ (\E d \in Objects : MappingIn(Answer, d) # NoMapping) =>
                 ExtractTcpMapping(Answer) # NoMapping
<1> DEFINE dicts == WalkDicts(Answer)
           s == [i \in DOMAIN dicts |-> MappingIn(Answer, dicts[i])]
           m == ExtractTcpMapping(Answer)
<1>1. m = FirstMapping(s)
  BY DEF ExtractTcpMapping
<1>2. dicts \in Seq(Objects) /\ ToSet(dicts) = Objects
  BY AnswerFinds
<1> HIDE DEF dicts
<1>3. PICK n \in Nat : DOMAIN dicts = 1..n
  BY <1>2
<1>4. s = [i \in 1..n |-> s[i]] /\ \A i \in 1..n : s[i] = MappingIn(Answer, dicts[i])
  BY <1>3
<1>5. /\ \A i \in 1..n : dicts[i] \in Objects
      /\ \A d \in Objects : \E i \in 1..n : d = dicts[i]
  BY <1>2, <1>3 DEF ToSet
<1> HIDE DEF s, m
<1>6. \/ m = NoMapping /\ \A i \in 1..n : s[i] = NoMapping
      \/ \E i \in 1..n : m = s[i] /\ s[i] # NoMapping
  BY <1>1, <1>4, FirstMappingIs
<1>7. m # NoMapping =>
         \E d \in Objects : m = MappingIn(Answer, d) /\ MappingIn(Answer, d) # NoMapping
  BY <1>4, <1>5, <1>6
<1>8. (\E d \in Objects : MappingIn(Answer, d) # NoMapping) => m # NoMapping
  BY <1>4, <1>5, <1>6
<1> QED BY <1>7, <1>8 DEF m

\* What startup_progress_fingerprint compares.
Fingerprint ==
    << Text(desired), Stamp("lastStatusChange"), Stamp("lastStartedAt"),
       Stamp("uptimeSeconds"), Stamp("version"), Stamp("state"), Stamp("podHostId"),
       runtime # "none" >>

\* The fingerprint of an answer.
LEMMA FingerprintIs == StartupProgressFingerprint(Answer) = Fingerprint
<1>1. /\ Get(Answer, "desiredStatus") = Text(desired)
      /\ \A f \in {"lastStatusChange", "lastStartedAt", "version", "uptimeSeconds"} :
            Get(Answer, f) = Stamp(f)
  BY AnswerFields
<1>2. /\ Nested(Answer, "latestTelemetry", "state") = Stamp("state")
      /\ Nested(Answer, "machine", "podHostId") = Stamp("podHostId")
  BY AnswerFields, SmallObjects DEF Nested, Flatly
<1>3. (Get(Answer, "runtime") # Null) = (runtime # "none")
  <2>1. RuntimeDict # Null
    BY Kinds DEF RuntimeDict
  <2>2. Get(Answer, "runtime") = IF runtime = "none" THEN Null ELSE RuntimeDict
    BY AnswerFields
  <2> QED BY <2>1, <2>2
<1>4. /\ Get(Answer, "lastStatusChange") = Stamp("lastStatusChange")
      /\ Get(Answer, "lastStartedAt") = Stamp("lastStartedAt")
      /\ Get(Answer, "uptimeSeconds") = Stamp("uptimeSeconds")
      /\ Get(Answer, "version") = Stamp("version")
  BY <1>1
<1> QED BY <1>1, <1>2, <1>3, <1>4, Zenon DEF StartupProgressFingerprint, Fingerprint

\* Two fingerprints are equal when they agree field by field.
LEMMA FieldByField ==
    ASSUME NEW a1, NEW a2, NEW a3, NEW a4, NEW a5, NEW a6, NEW a7, NEW a8,
           NEW b1, NEW b2, NEW b3, NEW b4, NEW b5, NEW b6, NEW b7, NEW b8
    PROVE  <<a1, a2, a3, a4, a5, a6, a7, a8>> = <<b1, b2, b3, b4, b5, b6, b7, b8>>
             <=> /\ a1 = b1 /\ a2 = b2 /\ a3 = b3 /\ a4 = b4
                 /\ a5 = b5 /\ a6 = b6 /\ a7 = b7 /\ a8 = b8
OBVIOUS

\* What a lifecycle field says after m changes tells m.
LEMMA ChangeShows ==
    ASSUME NEW m \in Nat, NEW n \in Nat
    PROVE  (IF m = 0 THEN Null ELSE Num(m)) = (IF n = 0 THEN Null ELSE Num(n)) <=> m = n
<1>1. Num(m) # Null /\ Num(n) # Null /\ Num(m).n = m /\ Num(n).n = n
  BY Kinds
<1> QED BY <1>1

-----------------------------------------------------------------------------
\* The theorems.

\* extract_tcp_mapping never pairs the address of one entry with the port of
\* another, and never takes an entry that is marked private, for another port
\* or not filled in yet: for any number of entries in any order.  An entry that
\* RunPod does not mark may be taken.
THEOREM OnlyTheWrapper == Spec => []MappedToWrapper
<1>1. ReportInv => MappedToWrapper
  <2> SUFFICES ASSUME ReportInv PROVE MappedToWrapper
    OBVIOUS
  <2>1. ExtractTcpMapping(Answer) # NoMapping => ExtractTcpMapping(Answer) \in Usable
    BY MappingTaken, ObjectMapping
  <2> QED BY <2>1 DEF MappedToWrapper, Usable
<1> QED BY <1>1, ReportInvHolds, PTL

\* Where RunPod marks every entry, what is taken can be reached from outside.
THEOREM PublicWhereMarked ==
    Spec => []((\A e \in RuntimeEntries : e.open # Null) => MappedToPublic)
<1>1. ReportInv => ((\A e \in RuntimeEntries : e.open # Null) => MappedToPublic)
  <2> SUFFICES ASSUME ReportInv, \A e \in RuntimeEntries : e.open # Null
               PROVE  MappedToPublic
    OBVIOUS
  <2>1. Unmarked = {}
    BY DEF Unmarked, Endpoints
  <2>2. ExtractTcpMapping(Answer) # NoMapping => ExtractTcpMapping(Answer) \in Usable
    BY MappingTaken, ObjectMapping
  <2> QED BY <2>1, <2>2 DEF MappedToPublic, Usable
<1> QED BY <1>1, ReportInvHolds, PTL

\* It finds the wrapper as soon as one entry leads there, whatever entries come
\* before it.
THEOREM WrapperFound == Spec => []MappedWhenReachable
<1>1. ReportInv => MappedWhenReachable
  BY MappingTaken, ObjectMapping DEF MappedWhenReachable
<1> QED BY <1>1, ReportInvHolds, PTL

\* pod_is_expected_running is true of the pods RunPod is to run, and a stopped
\* pod cannot be reached.
THEOREM StoppedIsStopped == Spec => []StoppedToldApart
<1>1. ReportInv => StoppedToldApart
  <2> SUFFICES ASSUME ReportInv PROVE StoppedToldApart
    OBVIOUS
  <2>1. ToSet(WalkDicts(Answer)) = {Answer} \cup Inside
    BY AnswerFinds DEF Objects
  <2> DEFINE keys == {"desiredStatus", "desired_status", "status"}
             run == {Text(s) : s \in {"RUNNING", "STARTING", "PROVISIONING"}}
  <2>2. Null \notin run
    BY Kinds
  <2>3. \A d \in Inside : \A key \in keys : Get(d, key) = Null
    BY OtherObjects
  <2>4. /\ Get(Answer, "desired_status") = Null /\ Get(Answer, "status") = Null
        /\ Get(Answer, "desiredStatus") = Text(desired)
    BY AnswerFields
  <2>5. Text(desired) \in run <=> desired = "RUNNING"
    <3>1. \A s, u : Text(s) = Text(u) <=> s = u
      BY DEF Text
    <3> QED BY <3>1 DEF ReportInv
  <2>6. PodIsExpectedRunning(Answer)
          <=> \E d \in {Answer} \cup Inside : \E key \in keys : Get(d, key) \in run
    BY <2>1 DEF PodIsExpectedRunning
  <2> HIDE DEF run
  <2>7. PodIsExpectedRunning(Answer) <=> desired = "RUNNING"
    BY <2>2, <2>3, <2>4, <2>5, <2>6
  <2>8. ASSUME desired = "EXITED" PROVE ExtractTcpMapping(Answer) = NoMapping
    <3>1. runtime = "none" /\ rest = << >>
      BY <2>8 DEF ReportInv
    <3>2. Usable = {}
      BY <3>1 DEF Usable, Reachable, Unmarked, Endpoints, RuntimeEntries, ToSet
    <3> QED BY <3>2, MappingTaken, ObjectMapping
  <2> QED BY <2>7, <2>8 DEF StoppedToldApart
<1> QED BY <1>1, ReportInvHolds, PTL

\* The fingerprint changes with every step RunPod reports of a pod, and not with
\* the entries of a container that runs already.
THEOREM ProgressShows == Spec => FingerprintIsProgress
<1> DEFINE same == StartupProgressFingerprint(Answer)' = StartupProgressFingerprint(Answer)
           still == /\ desired' = desired /\ moved' = moved
                    /\ (runtime' = "none") = (runtime = "none")
           F == StartupProgressFingerprint(Answer) = Fingerprint
<1>1. F
  BY FingerprintIs
<1>2. ReportInv /\ ReportInv' /\ F /\ F' /\ [Next]_vars => [same <=> still]_vars
  <2> SUFFICES ASSUME ReportInv, ReportInv', F, F' PROVE same <=> still
    OBVIOUS
  <2>1. same <=> Fingerprint' = Fingerprint
    OBVIOUS
  <2>2. Fingerprint' = Fingerprint
          <=> /\ Text(desired)' = Text(desired)
              /\ Stamp("lastStatusChange")' = Stamp("lastStatusChange")
              /\ Stamp("lastStartedAt")' = Stamp("lastStartedAt")
              /\ Stamp("uptimeSeconds")' = Stamp("uptimeSeconds")
              /\ Stamp("version")' = Stamp("version")
              /\ Stamp("state")' = Stamp("state")
              /\ Stamp("podHostId")' = Stamp("podHostId")
              /\ (runtime # "none")' = (runtime # "none")
    BY FieldByField DEF Fingerprint
  <2>3. Text(desired)' = Text(desired) <=> desired' = desired
    BY DEF Text
  <2>4. moved \in [Lifecycle -> Nat] /\ moved' \in [Lifecycle -> Nat]
    BY DEF ReportInv
  <2>5. ASSUME NEW f \in Lifecycle PROVE Stamp(f)' = Stamp(f) <=> moved'[f] = moved[f]
    <3>1. moved[f] \in Nat /\ moved'[f] \in Nat
      BY <2>4
    <3> QED BY <3>1, ChangeShows DEF Stamp
  <2>6. moved' = moved <=> \A f \in Lifecycle : moved'[f] = moved[f]
    BY <2>4
  <2>7. moved' = moved
          <=> /\ Stamp("lastStatusChange")' = Stamp("lastStatusChange")
              /\ Stamp("lastStartedAt")' = Stamp("lastStartedAt")
              /\ Stamp("uptimeSeconds")' = Stamp("uptimeSeconds")
              /\ Stamp("version")' = Stamp("version")
              /\ Stamp("state")' = Stamp("state")
              /\ Stamp("podHostId")' = Stamp("podHostId")
    BY <2>5, <2>6 DEF Lifecycle
  <2> QED BY <2>1, <2>2, <2>3, <2>7
<1> QED BY <1>1, <1>2, ReportInvHolds, PTL DEF Spec, FingerprintIsProgress

=============================================================================
