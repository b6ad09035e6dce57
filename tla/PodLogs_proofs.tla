--------------------------- MODULE PodLogs_proofs ----------------------------
(***************************************************************************)
(* Proofs about the log of a program and its drain, for any streams, any   *)
(* sizes of the pipe and of the chunks, and any number of runs and faults. *)
(***************************************************************************)
EXTENDS PodLogs, SequenceTheorems, TLAPS

-----------------------------------------------------------------------------
\* The inductive invariant of the tee.

\* What the coroutine of s has on the console and not yet in the file.
HeldOf(s) == IF held # NoChunk /\ held[1] = s THEN held[2] ELSE << >>

TeeTypeOK ==
    /\ tee \in {"down", "spawned", "running"}
    /\ child \in {"none", "running", "ended"}
    /\ orphans \in Nat /\ faults \in Nat
    /\ stopping \in BOOLEAN
    /\ written \in [Streams -> Nat] /\ began \in [Streams -> Nat]
    /\ opened \in [Streams -> BOOLEAN] /\ eof \in [Streams -> BOOLEAN]
    /\ pipe \in [Streams -> Seq(Nat)]
    /\ console \in [Streams -> Seq(Nat)] /\ log \in [Streams -> Seq(Nat)]
    /\ held = NoChunk \/ held \in Streams \X Seq(Nat)

\* Without a tee nothing is on its way.
Quiet ==
    /\ held # NoChunk => tee = "running" /\ ~eof[held[1]]
    /\ tee = "down" => pipe = Empty /\ \A s \in Streams : ~opened[s]

\* A coroutine returns only when its pipe is closed and empty.
Drained(s) == eof[s] => pipe[s] = << >> /\ ~opened[s]

\* The bytes that follow byte n; bytes up to byte n; all from m to n.
After(f, n) == \A i \in 1..Len(f) : f[i] = n + i
UpTo(f, n) == \A i \in 1..Len(f) : f[i] <= n
Covers(f, m, n) == \A b \in m..n : \E i \in 1..Len(f) : f[i] = b

\* How many bytes of s are no longer in the pipe.
Taken(s) == written[s] - Len(pipe[s])

\* The pipe has the last bytes that were written.
Piped(s) == Len(pipe[s]) <= written[s] /\ After(pipe[s], Taken(s))

\* The console has, in order, bytes that have left the pipe: of this run all.
Shown(s) ==
    /\ Ascending(console[s])
    /\ UpTo(console[s], Taken(s))
    /\ tee # "down" => Covers(console[s], began[s] + 1, Taken(s))

\* A file and then the chunk in hand follow a console.
Follow(shown, file, chunk) ==
    /\ Ascending(file) /\ Ascending(chunk)
    /\ \A i \in 1..Len(file) : \E j \in 1..Len(shown) : shown[j] = file[i]
    /\ \A i \in 1..Len(chunk) : \E j \in 1..Len(shown) : shown[j] = chunk[i]
    /\ \A i \in 1..Len(file), j \in 1..Len(chunk) : file[i] < chunk[j]

Kept(s) == Follow(console[s], log[s], HeldOf(s))

\* Without a fault the file, the chunk in hand and the pipe are all that was
\* ever written, as long as the program is to run on.
Lossless(s) ==
    faults = 0 /\ (tee # "down" \/ ~stopping) =>
       /\ Len(log[s]) + Len(HeldOf(s)) + Len(pipe[s]) = written[s]
       /\ After(log[s], 0)
       /\ After(HeldOf(s), Len(log[s]))

Part(s) == Drained(s) /\ Piped(s) /\ Shown(s) /\ Kept(s) /\ Lossless(s)

TeeInv == TeeTypeOK /\ Quiet /\ \A s \in Streams : Part(s)

-----------------------------------------------------------------------------
\* Lemmas about sequences.

\* The empty sequence is one of numbers, in order.
LEMMA NothingThere ==
    /\ << >> \in Seq(Nat) /\ Len(<< >>) = 0 /\ Ascending(<< >>)
    /\ \A n : After(<< >>, n)
BY DEF Ascending, After

\* What the concatenation of two sequences has at each place.
LEMMA Joined ==
    ASSUME NEW f \in Seq(Nat), NEW g \in Seq(Nat)
    PROVE  /\ f \o g \in Seq(Nat) /\ Len(f \o g) = Len(f) + Len(g)
           /\ Len(f) \in Nat /\ Len(g) \in Nat
           /\ \A i \in 1..Len(f) : (f \o g)[i] = f[i]
           /\ \A i \in 1..Len(g) : (f \o g)[Len(f) + i] = g[i]
           /\ \A i \in 1..(Len(f) + Len(g)) :
                 \/ i \in 1..Len(f)
                 \/ \E j \in 1..Len(g) : i = Len(f) + j
<1>1. /\ f \o g \in Seq(Nat) /\ Len(f \o g) = Len(f) + Len(g)
      /\ \A i \in 1..(Len(f) + Len(g)) :
            (f \o g)[i] = IF i <= Len(f) THEN f[i] ELSE g[i - Len(f)]
  BY ConcatProperties, ZenonT(40)
<1> DEFINE n == Len(f)
           m == Len(g)
           h == f \o g
<1>2. n \in Nat /\ m \in Nat
  OBVIOUS
<1>3. \A i \in 1..(n + m) : h[i] = IF i <= n THEN f[i] ELSE g[i - n]
  BY <1>1
<1> HIDE DEF n, m, h
<1>4. \A i \in 1..n : h[i] = f[i]
  BY <1>2, <1>3
<1>5. ASSUME NEW i \in 1..m PROVE h[n + i] = g[i]
  <2>1. n + i \in 1..(n + m) /\ ~(n + i <= n) /\ (n + i) - n = i
    BY <1>2
  <2> QED BY <1>3, <2>1
<1>6. ASSUME NEW i \in 1..(n + m), i \notin 1..n
      PROVE  \E j \in 1..m : i = n + j
  <2>1. i - n \in 1..m /\ i = n + (i - n)
    BY <1>2, <1>6
  <2> QED BY <2>1
<1> QED BY <1>1, <1>2, <1>4, <1>5, <1>6 DEF n, m, h

\* Two ascending sequences, one above the other, make one.
LEMMA JoinedAscending ==
    ASSUME NEW f \in Seq(Nat), NEW g \in Seq(Nat), Ascending(f), Ascending(g),
           \A i \in 1..Len(f), j \in 1..Len(g) : f[i] < g[j]
    PROVE  Ascending(f \o g)
<1> DEFINE n == Len(f)
           m == Len(g)
           h == f \o g
<1>1. /\ n \in Nat /\ m \in Nat /\ DOMAIN h = 1..(n + m)
      /\ DOMAIN f = 1..n /\ DOMAIN g = 1..m
      /\ \A i \in 1..n : h[i] = f[i]
      /\ \A i \in 1..m : h[n + i] = g[i]
      /\ \A i \in 1..(n + m) : i \in 1..n \/ \E j \in 1..m : i = n + j
  <2>1. h \in Seq(Nat) /\ Len(h) = n + m
    BY Joined
  <2> HIDE DEF h
  <2> QED BY <2>1, Joined DEF h
<1>2. /\ \A i, j \in 1..n : i < j => f[i] < f[j]
      /\ \A i, j \in 1..m : i < j => g[i] < g[j]
      /\ \A i \in 1..n, j \in 1..m : f[i] < g[j]
  BY <1>1 DEF Ascending
<1> HIDE DEF n, m, h
<1>3. ASSUME NEW i \in 1..(n + m), NEW j \in 1..(n + m), i < j
      PROVE  h[i] < h[j]
  <2>1. CASE j \in 1..n
    BY <1>1, <1>2, <1>3, <2>1
  <2>2. CASE i \in 1..n /\ j \notin 1..n
    BY <1>1, <1>2, <2>2
  <2>3. CASE i \notin 1..n
    <3>1. PICK k \in 1..m : i = n + k
      BY <1>1, <2>3
    <3>2. PICK l \in 1..m : j = n + l
      BY <1>1, <1>3, <3>1
    <3>3. k < l
      BY <1>1, <1>3, <3>1, <3>2
    <3> QED BY <1>1, <1>2, <3>1, <3>2, <3>3
  <2> QED BY <2>1, <2>2, <2>3
<1> QED BY <1>1, <1>3 DEF Ascending, h

\* A sequence is cut in two.
LEMMA Cut ==
    ASSUME NEW f \in Seq(Nat), NEW n \in 0..Len(f)
    PROVE  /\ SubSeq(f, 1, n) \in Seq(Nat) /\ Len(SubSeq(f, 1, n)) = n
           /\ \A i \in 1..n : SubSeq(f, 1, n)[i] = f[i]
           /\ SubSeq(f, n + 1, Len(f)) \in Seq(Nat)
           /\ Len(SubSeq(f, n + 1, Len(f))) = Len(f) - n
           /\ \A i \in 1..(Len(f) - n) :
                 SubSeq(f, n + 1, Len(f))[i] = f[n + i]
<1> DEFINE m == Len(f)
<1>1. m \in Nat /\ n \in Nat /\ n <= m
  OBVIOUS
<1>2. /\ SubSeq(f, 1, n) \in Seq(Nat) /\ Len(SubSeq(f, 1, n)) = n
      /\ \A i \in 1..n : SubSeq(f, 1, n)[i] = f[i]
  BY <1>1
<1>3. /\ SubSeq(f, n + 1, m) \in Seq(Nat) /\ Len(SubSeq(f, n + 1, m)) = m - n
      /\ \A i \in 1..(m - n) : SubSeq(f, n + 1, m)[i] = f[n + i]
  BY <1>1
<1> QED BY <1>2, <1>3

\* The whole of a sequence is itself.
LEMMA CutAll ==
    ASSUME NEW f \in Seq(Nat) PROVE SubSeq(f, 1, Len(f)) = f
<1>1. /\ SubSeq(f, 1, Len(f)) \in Seq(Nat) /\ Len(SubSeq(f, 1, Len(f))) = Len(f)
      /\ \A i \in 1..Len(f) : SubSeq(f, 1, Len(f))[i] = f[i]
  BY Cut
<1> DEFINE g == SubSeq(f, 1, Len(f))
<1> HIDE DEF g
<1> QED BY <1>1 DEF g


-----------------------------------------------------------------------------
\* The steps of the tee, its child and supervisord.

\* The bounds are natural numbers.
LEMMA Bounds == PipeSize \in Nat \ {0} /\ ChunkSize \in Nat \ {0} /\ MaxTail \in Nat
BY TeeAssumption, LogsAssumption

\* A stream that a step leaves alone keeps its part.
LEMMA Untouched ==
    ASSUME TeeTypeOK, NEW s \in Streams, Part(s),
           written'[s] = written[s], began'[s] = began[s], pipe'[s] = pipe[s],
           console'[s] = console[s], log'[s] = log[s], HeldOf(s)' = HeldOf(s),
           eof'[s] = eof[s], opened'[s] => opened[s],
           faults' = 0 => faults = 0,
           tee' # "down" => tee # "down",
           stopping => stopping' \/ tee' # "down"
    PROVE  Part(s)'
<1>1. Drained(s)'
  BY DEF Part, Drained
<1>2. Piped(s)' /\ Shown(s)'
  BY DEF Part, Piped, Shown, Taken
<1>3. Kept(s)'
  BY DEF Part, Kept
<1>4. Lossless(s)'
  BY DEF Part, Lossless
<1> QED BY <1>1, <1>2, <1>3, <1>4 DEF Part

\* When the tee is gone, so is what was on its way.
LEMMA Torn ==
    ASSUME TeeInv, tee' = "down", pipe' = Empty, held' = NoChunk,
           opened' = [s \in Streams |-> FALSE], eof' = eof,
           written' = written, began' = began, console' = console, log' = log,
           child' \in {child, "none"}, stopping' \in BOOLEAN,
           orphans' \in Nat, faults' \in Nat,
           faults' # 0 \/ stopping' \/
              (faults = 0 /\ ~stopping /\ tee # "down"
               /\ held = NoChunk /\ pipe = Empty)
    PROVE  TeeInv'
<1>1. TeeTypeOK'
  BY NothingThere DEF TeeInv, TeeTypeOK, Empty
<1>2. Quiet'
  BY DEF Quiet
<1>3. ASSUME NEW s \in Streams PROVE Part(s)'
  <2>1. /\ Part(s) /\ HeldOf(s)' = << >> /\ pipe'[s] = << >>
        /\ written[s] \in Nat /\ Len(pipe[s]) \in Nat
        /\ console[s] \in Seq(Nat) /\ log[s] \in Seq(Nat)
    BY DEF TeeInv, TeeTypeOK, HeldOf, Empty
  <2>2. Drained(s)' /\ Kept(s)'
    BY <2>1, NothingThere DEF Part, Drained, Kept, Follow
  <2>5. Piped(s)'
    BY <2>1, NothingThere DEF Piped
  <2>3. Shown(s)'
    <3>1. UpTo(console[s], written[s])
      BY <2>1 DEF Part, Shown, UpTo, Taken
    <3>2. Taken(s)' = written[s]
      BY <2>1, NothingThere DEF Taken
    <3> QED BY <2>1, <3>1, <3>2 DEF Part, Shown
  <2>4. Lossless(s)'
    <3>1. CASE faults' # 0 \/ stopping'
      BY <3>1 DEF Lossless
    <3>2. CASE faults = 0 /\ tee # "down" /\ held = NoChunk /\ pipe = Empty
      BY <2>1, <3>2 DEF Part, Lossless, HeldOf, Empty
    <3> QED BY <3>1, <3>2
  <2> QED BY <2>2, <2>3, <2>4, <2>5 DEF Part
<1> QED BY <1>1, <1>2, <1>3 DEF TeeInv

\* The tee starts.
LEMMA SpawnStep ==
    ASSUME TeeInv, Spawn
    PROVE  TeeInv'
<1>1. /\ tee = "down" /\ ~stopping /\ held = NoChunk /\ pipe = Empty
      /\ pipe' = Empty /\ held' = NoChunk /\ tee' = "spawned" /\ began' = written
      /\ log' = log /\ console' = console /\ written' = written
      /\ faults' = faults /\ eof' = [s \in Streams |-> FALSE]
  BY DEF TeeInv, Quiet, Spawn
<1>2. TeeTypeOK'
  BY <1>1 DEF TeeInv, TeeTypeOK, Spawn
<1>3. Quiet'
  BY <1>1 DEF Quiet
<1>4. ASSUME NEW s \in Streams PROVE Part(s)'
  <2>1. /\ Part(s) /\ HeldOf(s)' = << >> /\ HeldOf(s) = << >> /\ pipe'[s] = << >>
        /\ pipe[s] = << >> /\ written[s] \in Nat /\ ~eof'[s]
    BY <1>1 DEF TeeInv, TeeTypeOK, HeldOf, Empty
  <2>2. Drained(s)' /\ Piped(s)' /\ Kept(s)'
    BY <1>1, <2>1, NothingThere DEF Part, Drained, Piped, Kept, Follow
  <2>3. Shown(s)'
    <3>1. Taken(s)' = Taken(s) /\ Taken(s) = written[s]
      BY <1>1, <2>1, NothingThere DEF Taken
    <3>2. Covers(console[s], written[s] + 1, written[s])
      BY <2>1 DEF Covers
    <3> QED BY <1>1, <2>1, <3>1, <3>2 DEF Part, Shown
  <2>4. Lossless(s)'
    BY <1>1, <2>1 DEF Part, Lossless
  <2> QED BY <2>2, <2>3, <2>4 DEF Part
<1> QED BY <1>2, <1>3, <1>4 DEF TeeInv

\* The steps that move no byte.
LEMMA InstallStep ==
    ASSUME TeeInv, Install
    PROVE  TeeInv'
<1>1. TeeTypeOK' /\ Quiet'
  BY DEF TeeInv, TeeTypeOK, Quiet, Install, Opens
<1>2. ASSUME NEW s \in Streams PROVE Part(s)'
  BY Untouched DEF TeeInv, Install, Opens, HeldOf
<1> QED BY <1>1, <1>2 DEF TeeInv

\* The child closes a stream.
LEMMA ChildClosesStep ==
    ASSUME TeeInv, NEW c \in Streams, ChildCloses(c)
    PROVE  TeeInv'
<1>1. TeeTypeOK' /\ Quiet'
  BY DEF TeeInv, TeeTypeOK, Quiet, ChildCloses, lifecycle, output
<1>2. ASSUME NEW s \in Streams PROVE Part(s)'
  <2>1. opened'[s] => opened[s]
    BY DEF TeeInv, TeeTypeOK, ChildCloses
  <2> QED BY <2>1, Untouched DEF TeeInv, ChildCloses, lifecycle, output, HeldOf
<1> QED BY <1>1, <1>2 DEF TeeInv

\* The child ends.
LEMMA ChildEndsStep ==
    ASSUME TeeInv, ChildEnds
    PROVE  TeeInv'
<1>1. TeeTypeOK' /\ Quiet'
  BY DEF TeeInv, TeeTypeOK, Quiet, ChildEnds, output
<1>2. ASSUME NEW s \in Streams PROVE Part(s)'
  BY Untouched DEF TeeInv, ChildEnds, output, HeldOf
<1> QED BY <1>1, <1>2 DEF TeeInv

\* The child writes a byte.
LEMMA ChildWritesStep ==
    ASSUME TeeInv, NEW c \in Streams, ChildWrites(c)
    PROVE  TeeInv'
<1>1. /\ TeeTypeOK /\ Part(c) /\ opened[c] /\ tee # "down"
      /\ pipe[c] \in Seq(Nat) /\ written[c] \in Nat
      /\ written' = [written EXCEPT ![c] = @ + 1]
      /\ pipe' = [pipe EXCEPT ![c] = Append(@, written[c] + 1)]
      /\ UNCHANGED <<tee, child, asked, orphans, runs, stopping, began, faults,
                     opened, eof, held, console, log>>
  BY DEF TeeInv, TeeTypeOK, Quiet, ChildWrites, lifecycle, output
<1>2. /\ Append(pipe[c], written[c] + 1) \in Seq(Nat)
      /\ Len(Append(pipe[c], written[c] + 1)) = Len(pipe[c]) + 1
      /\ \A i \in 1..(Len(pipe[c]) + 1) :
            Append(pipe[c], written[c] + 1)[i]
              = IF i <= Len(pipe[c]) THEN pipe[c][i] ELSE written[c] + 1
      /\ Len(pipe[c]) \in Nat
  BY <1>1
<1>3. TeeTypeOK' /\ Quiet'
  <2>1. TeeTypeOK'
    BY <1>1, <1>2 DEF TeeTypeOK
  <2> QED BY <1>1, <2>1 DEF TeeInv, Quiet
<1>4. ASSUME NEW s \in Streams \ {c} PROVE Part(s)'
  <2>1. written'[s] = written[s] /\ pipe'[s] = pipe[s]
    BY <1>1 DEF TeeTypeOK
  <2> QED BY <1>1, <2>1, Untouched DEF TeeInv, HeldOf
<1>5. Part(c)'
  <2> DEFINE q == Append(pipe[c], written[c] + 1)
  <2>1. /\ written'[c] = written[c] + 1 /\ pipe'[c] = q
        /\ HeldOf(c)' = HeldOf(c)
    BY <1>1 DEF TeeTypeOK, HeldOf
  <2>2. /\ Len(q) = Len(pipe[c]) + 1
        /\ \A i \in 1..(Len(pipe[c]) + 1) :
              q[i] = IF i <= Len(pipe[c]) THEN pipe[c][i] ELSE written[c] + 1
    BY <1>2
  <2> HIDE DEF q
  <2>3. Drained(c)'
    BY <1>1, <2>1 DEF Part, Drained
  <2>4. Taken(c)' = Taken(c)
    BY <1>1, <1>2, <2>1, <2>2 DEF Taken
  <2>5. Shown(c)'
    BY <1>1, <2>4 DEF Part, Shown
  <2>8. Piped(c)'
    <3> DEFINE p == pipe[c]
               k == Len(p)
               w == written[c]
               u == Taken(c)
    <3>1. /\ k \in Nat /\ w \in Nat /\ k <= w /\ u = w - k
          /\ \A i \in 1..k : p[i] = u + i
          /\ Len(q) = k + 1
          /\ \A i \in 1..(k + 1) : q[i] = IF i <= k THEN p[i] ELSE w + 1
      BY <1>1, <1>2, <2>2 DEF Part, Piped, After, Taken
    <3> HIDE DEF p, k, w, u
    <3>2. Len(q) <= w + 1 /\ \A i \in 1..(k + 1) : q[i] = u + i
      BY <3>1
    <3>3. After(q, u) /\ Len(q) <= w + 1
      BY <3>1, <3>2 DEF After
    <3> QED BY <2>1, <2>4, <3>3 DEF Piped, w, u
  <2>6. Kept(c)'
    BY <1>1, <2>1 DEF Part, Kept
  <2>7. Lossless(c)'
    <3>1. log[c] \in Seq(Nat) /\ HeldOf(c) \in Seq(Nat)
      BY <1>1, NothingThere DEF TeeTypeOK, HeldOf
    <3>2. Len(log[c]) \in Nat /\ Len(HeldOf(c)) \in Nat
      BY <3>1
    <3>3. Lossless(c)
      BY <1>1 DEF Part
    <3> DEFINE h == HeldOf(c)
               n == Len(log[c])
               m == Len(h)
               k == Len(pipe[c])
    <3>4. n + m + k = written[c] => n + m + (k + 1) = written[c] + 1
      <4>1. n \in Nat /\ m \in Nat /\ k \in Nat /\ written[c] \in Nat
        BY <1>1, <1>2, <3>2
      <4> HIDE DEF n, m, k
      <4> QED BY <4>1
    <3> QED BY <1>1, <2>1, <2>2, <3>3, <3>4 DEF Lossless
  <2> QED BY <2>3, <2>5, <2>6, <2>7, <2>8 DEF Part
<1> QED BY <1>3, <1>4, <1>5 DEF TeeInv

\* A coroutine has reached the end of its stream.
LEMMA ReachesEndStep ==
    ASSUME TeeInv, NEW c \in Streams, ReachesEnd(c)
    PROVE  TeeInv'
<1>1. /\ TeeTypeOK /\ held = NoChunk /\ tee = "running"
      /\ pipe[c] = << >> /\ ~opened[c]
      /\ eof' = [eof EXCEPT ![c] = TRUE]
      /\ UNCHANGED <<tee, child, asked, orphans, runs, stopping, began, faults,
                     written, opened, pipe, held, console, log>>
  BY DEF TeeInv, ReachesEnd, lifecycle, output
<1>2. TeeTypeOK' /\ Quiet'
  BY <1>1 DEF TeeTypeOK, Quiet
<1>3. ASSUME NEW s \in Streams \ {c} PROVE Part(s)'
  <2>1. eof'[s] = eof[s]
    BY <1>1 DEF TeeTypeOK
  <2> QED BY <1>1, <2>1, Untouched DEF TeeInv, HeldOf
<1>4. Part(c)'
  <2>1. Drained(c)'
    BY <1>1 DEF Drained
  <2>2. Part(c) /\ HeldOf(c)' = HeldOf(c)
    BY <1>1 DEF TeeInv, HeldOf
  <2>3. Piped(c)' /\ Shown(c)'
    BY <1>1, <2>2 DEF Part, Piped, Shown, Taken
  <2>4. Kept(c)' /\ Lossless(c)'
    BY <1>1, <2>2 DEF Part, Kept, Lossless
  <2> QED BY <2>1, <2>3, <2>4 DEF Part
<1> QED BY <1>2, <1>3, <1>4 DEF TeeInv

\* What a coroutine reads comes next on the console, and is above all that is
\* in the file.
LEMMA ReadNext ==
    ASSUME NEW u \in Nat, NEW b \in Nat,
           NEW p \in Seq(Nat), NEW shown \in Seq(Nat), NEW file \in Seq(Nat),
           NEW n \in 0..Len(p),
           After(p, u), Ascending(shown), UpTo(shown, u), Covers(shown, b, u),
           Follow(shown, file, << >>)
    PROVE  LET c == SubSeq(p, 1, n)
               rest == SubSeq(p, n + 1, Len(p))
               all == shown \o c
           IN
           /\ c \in Seq(Nat) /\ rest \in Seq(Nat) /\ all \in Seq(Nat)
           /\ Len(c) = n /\ Len(rest) = Len(p) - n
           /\ After(c, u) /\ After(rest, u + n)
           /\ Ascending(all) /\ UpTo(all, u + n) /\ Covers(all, b, u + n)
           /\ Follow(all, file, c)
<1> DEFINE c == SubSeq(p, 1, n)
           rest == SubSeq(p, n + 1, Len(p))
           all == shown \o c
           m == Len(p)
           k == Len(shown)
<1>1. /\ c \in Seq(Nat) /\ Len(c) = n /\ \A i \in 1..n : c[i] = p[i]
      /\ rest \in Seq(Nat) /\ Len(rest) = m - n
      /\ \A i \in 1..(m - n) : rest[i] = p[n + i]
  BY Cut
<1>2. m \in Nat /\ n \in Nat /\ k \in Nat /\ n <= m
  OBVIOUS
<1> HIDE DEF c, rest
<1>3. /\ all \in Seq(Nat) /\ Len(all) = k + n
      /\ \A i \in 1..k : all[i] = shown[i]
      /\ \A i \in 1..n : all[k + i] = c[i]
      /\ \A i \in 1..(k + n) : i \in 1..k \/ \E j \in 1..n : i = k + j
  BY <1>1, Joined
<1>12. \A i \in 1..m : p[i] = u + i
  BY DEF After
<1>13. \A i \in 1..k : shown[i] <= u
  BY DEF UpTo
<1>14. \A i \in 1..k : shown[i] \in Nat
  OBVIOUS
<1>15. \A x \in b..u : \E i \in 1..k : shown[i] = x
  BY DEF Covers
<1>16. /\ \A i \in 1..Len(file) : \E j \in 1..k : shown[j] = file[i]
       /\ Ascending(file)
  BY DEF Follow
<1> HIDE DEF all, m, k
<1>5. ASSUME NEW i \in 1..n PROVE c[i] = u + i
  <2>1. i \in 1..m
    BY <1>2
  <2>2. c[i] = p[i]
    BY <1>1
  <2> QED BY <1>12, <2>1, <2>2
<1>6. Ascending(all)
  <2>1. \A i, j \in 1..n : i < j => c[i] < c[j]
    BY <1>2, <1>5
  <2>2. Ascending(c)
    BY <1>1, <2>1 DEF Ascending
  <2>3. \A i \in 1..k, j \in 1..n : shown[i] < c[j]
    <3> TAKE i \in 1..k, j \in 1..n
    <3>1. shown[i] <= u /\ shown[i] \in Nat /\ c[j] = u + j
      BY <1>5, <1>13, <1>14
    <3>2. j > 0 /\ j \in Nat
      OBVIOUS
    <3> QED BY <3>1, <3>2
  <2>4. Ascending(shown \o c)
    BY <1>1, <2>2, <2>3, JoinedAscending DEF k
  <2> QED BY <2>4 DEF all
<1>7. After(rest, u + n)
  <2>1. ASSUME NEW i \in 1..(m - n) PROVE rest[i] = (u + n) + i
    <3>1. n + i \in 1..m /\ u + (n + i) = (u + n) + i
      BY <1>2
    <3> QED BY <1>1, <1>12, <3>1
  <2> QED BY <1>1, <2>1 DEF After
<1>8. UpTo(all, u + n)
  <2>1. ASSUME NEW i \in 1..(k + n) PROVE all[i] <= u + n
    <3>1. CASE i \in 1..k
      <4>1. all[i] = shown[i] /\ shown[i] <= u /\ shown[i] \in Nat
        BY <1>3, <1>13, <1>14, <3>1
      <4> QED BY <1>2, <4>1
    <3>2. ASSUME NEW j \in 1..n, i = k + j PROVE all[i] <= u + n
      <4>1. all[i] = u + j /\ j <= n /\ j \in Nat
        <5>1. all[k + j] = c[j]
          BY <1>3
        <5>2. c[j] = u + j
          BY <1>5
        <5>3. j <= n /\ j \in Nat
          BY <1>2
        <5> QED BY <3>2, <5>1, <5>2, <5>3
      <4> QED BY <1>2, <4>1
    <3> QED BY <1>3, <3>1, <3>2
  <2> QED BY <1>3, <2>1 DEF UpTo
<1>9. Covers(all, b, u + n)
  <2>1. ASSUME NEW x \in b..(u + n) PROVE \E i \in 1..(k + n) : all[i] = x
    <3>1. CASE x <= u
      <4>1. PICK i \in 1..k : shown[i] = x
        BY <1>15, <3>1
      <4>2. i \in 1..(k + n) /\ all[i] = x
        BY <1>2, <1>3, <4>1
      <4> QED BY <4>2
    <3>2. CASE x > u
      <4>1. x - u \in 1..n /\ u + (x - u) = x
        BY <1>2, <3>2
      <4>2. k + (x - u) \in 1..(k + n)
        BY <1>2, <4>1
      <4>3. all[k + (x - u)] = x
        BY <1>3, <1>5, <4>1
      <4> QED BY <4>2, <4>3
    <3> QED BY <3>1, <3>2
  <2> QED BY <1>3, <2>1 DEF Covers
<1>10. Follow(all, file, c)
  <2>1. ASSUME NEW i \in 1..Len(file)
        PROVE  \E j \in 1..Len(all) : all[j] = file[i]
    <3>1. PICK j \in 1..k : shown[j] = file[i]
      BY <1>16
    <3>2. j \in 1..Len(all) /\ all[j] = file[i]
      BY <1>2, <1>3, <3>1
    <3> QED BY <3>2
  <2>2. ASSUME NEW i \in 1..Len(c)
        PROVE  \E j \in 1..Len(all) : all[j] = c[i]
    <3>1. k + i \in 1..Len(all) /\ all[k + i] = c[i]
      BY <1>1, <1>2, <1>3
    <3> QED BY <3>1
  <2>3. ASSUME NEW i \in 1..Len(file), NEW j \in 1..Len(c)
        PROVE  file[i] < c[j]
    <3>1. PICK l \in 1..k : shown[l] = file[i]
      BY <1>16
    <3>2. shown[l] <= u /\ shown[l] \in Nat
      BY <1>13, <1>14, <3>1
    <3>4. c[j] = u + j /\ j \in Nat /\ j > 0
      BY <1>1, <1>2, <1>5
    <3> QED BY <3>1, <3>2, <3>4
  <2>4. Ascending(c)
    <3>1. \A i, j \in 1..n : i < j => c[i] < c[j]
      BY <1>2, <1>5
    <3> QED BY <1>1, <3>1 DEF Ascending
  <2> QED BY <1>16, <2>1, <2>2, <2>3, <2>4 DEF Follow
<1>11. After(c, u)
  BY <1>1, <1>5 DEF After
<1> QED BY <1>1, <1>3, <1>6, <1>7, <1>8, <1>9, <1>10, <1>11
        DEF c, rest, all, m, k

\* A coroutine takes a chunk to the console.
LEMMA ReadsStep ==
    ASSUME TeeInv, NEW c \in Streams, Reads(c)
    PROVE  TeeInv'
<1>1. PICK n \in Chunks(c) :
         /\ pipe' = [pipe EXCEPT ![c] = SubSeq(@, n + 1, Len(@))]
         /\ console' = [console EXCEPT ![c] = @ \o SubSeq(pipe[c], 1, n)]
         /\ held' = <<c, SubSeq(pipe[c], 1, n)>>
  BY DEF Reads
<1>2. /\ TeeTypeOK /\ Part(c) /\ held = NoChunk /\ tee = "running" /\ ~eof[c]
      /\ UNCHANGED <<tee, child, asked, orphans, runs, stopping, began, faults,
                     written, opened, eof, log>>
      /\ n \in 0..Len(pipe[c])
      /\ pipe[c] \in Seq(Nat) /\ console[c] \in Seq(Nat) /\ log[c] \in Seq(Nat)
      /\ written[c] \in Nat /\ began[c] \in Nat
  BY DEF TeeInv, TeeTypeOK, Reads, lifecycle, Chunks
<1> DEFINE p == pipe[c]
           chunk == SubSeq(p, 1, n)
           rest == SubSeq(p, n + 1, Len(p))
           all == console[c] \o chunk
           b == began[c] + 1
           u == Taken(c)
<1>3. HeldOf(c) = << >>
  BY <1>2 DEF HeldOf
<1>4. /\ After(p, u) /\ Ascending(console[c]) /\ UpTo(console[c], u)
      /\ Covers(console[c], b, u) /\ Follow(console[c], log[c], << >>)
      /\ Len(p) <= written[c]
  BY <1>2, <1>3 DEF Part, Piped, Shown, Kept
<1>5. Len(p) \in Nat /\ n \in Nat /\ n <= Len(p) /\ u = written[c] - Len(p)
      /\ u \in Nat /\ b \in Nat
  BY <1>2, <1>4 DEF Taken
<1>6. /\ chunk \in Seq(Nat) /\ rest \in Seq(Nat) /\ all \in Seq(Nat)
      /\ Len(chunk) = n /\ Len(rest) = Len(p) - n
      /\ After(chunk, u) /\ After(rest, u + n)
      /\ Ascending(all) /\ UpTo(all, u + n) /\ Covers(all, b, u + n)
      /\ Follow(all, log[c], chunk)
  <2>1. p \in Seq(Nat) /\ n \in 0..Len(p)
    BY <1>2
  <2> DEFINE shown == console[c]
             file == log[c]
  <2>2. /\ shown \in Seq(Nat) /\ file \in Seq(Nat) /\ u \in Nat /\ b \in Nat
        /\ After(p, u) /\ Ascending(shown) /\ UpTo(shown, u)
        /\ Covers(shown, b, u) /\ Follow(shown, file, << >>)
    BY <1>2, <1>4, <1>5
  <2> HIDE DEF u, b, p, shown, file
  <2>3. LET ch == SubSeq(p, 1, n)
            re == SubSeq(p, n + 1, Len(p))
            al == shown \o ch
        IN
        /\ ch \in Seq(Nat) /\ re \in Seq(Nat) /\ al \in Seq(Nat)
        /\ Len(ch) = n /\ Len(re) = Len(p) - n
        /\ After(ch, u) /\ After(re, u + n)
        /\ Ascending(al) /\ UpTo(al, u + n) /\ Covers(al, b, u + n)
        /\ Follow(al, file, ch)
    BY <2>1, <2>2, ReadNext, Zenon
  <2> QED BY <2>3 DEF shown, file
<1>7. /\ pipe'[c] = rest /\ console'[c] = all /\ held' = <<c, chunk>>
      /\ \A s \in Streams \ {c} : pipe'[s] = pipe[s] /\ console'[s] = console[s]
  BY <1>1, <1>2 DEF TeeTypeOK
<1>8. /\ pipe' = [pipe EXCEPT ![c] = rest]
      /\ console' = [console EXCEPT ![c] = all]
  BY <1>1
<1> HIDE DEF chunk, rest, all
<1>9. /\ HeldOf(c)' = chunk
      /\ \A s \in Streams \ {c} : HeldOf(s)' = << >> /\ HeldOf(s) = << >>
  BY <1>2, <1>7 DEF HeldOf, NoChunk
<1>10. TeeTypeOK' /\ Quiet'
  <2>1. TeeTypeOK'
    BY <1>2, <1>6, <1>7, <1>8 DEF TeeTypeOK
  <2>2. held'[1] = c
    BY <1>7
  <2> QED BY <1>2, <2>1, <2>2 DEF Quiet
<1>11. ASSUME NEW s \in Streams \ {c} PROVE Part(s)'
  <2>1. HeldOf(s)' = HeldOf(s)
    BY <1>9
  <2> QED BY <1>2, <1>7, <2>1, Untouched DEF TeeInv
<1>12. Part(c)'
  <2>1. Taken(c)' = u + n
    <3>1. written'[c] = written[c] /\ Len(pipe'[c]) = Len(p) - n
      BY <1>2, <1>6, <1>7
    <3> DEFINE v == written[c]
               k == Len(p)
    <3>2. v \in Nat /\ k \in Nat /\ n \in Nat /\ u = v - k
      BY <1>2, <1>5
    <3> HIDE DEF v, k, u
    <3>3. v - (k - n) = u + n
      BY <3>2
    <3> QED BY <3>1, <3>3 DEF Taken, v, k
  <2>2. Drained(c)'
    BY <1>2 DEF Drained
  <2>3. Piped(c)'
    <3>1. Len(rest) <= written[c]
      BY <1>2, <1>4, <1>5, <1>6
    <3> QED BY <1>2, <1>6, <1>7, <2>1, <3>1 DEF Piped
  <2>4. Shown(c)'
    BY <1>2, <1>6, <1>7, <2>1 DEF Shown
  <2>5. Kept(c)'
    BY <1>2, <1>6, <1>7, <1>9 DEF Kept
  <2>6. Lossless(c)'
    <3> SUFFICES ASSUME faults = 0
                 PROVE  /\ Len(log[c]) + Len(chunk) + Len(rest) = written[c]
                        /\ After(log[c], 0) /\ After(chunk, Len(log[c]))
      BY <1>2, <1>7, <1>9 DEF Lossless
    <3> DEFINE l == Len(log[c])
               k == Len(p)
               v == written[c]
    <3>1. l + 0 + k = v /\ After(log[c], 0)
      BY <1>2, <1>3, NothingThere DEF Part, Lossless
    <3>2. /\ l \in Nat /\ k \in Nat /\ n \in Nat /\ v \in Nat
          /\ Len(chunk) = n /\ Len(rest) = k - n /\ u = v - k
      BY <1>2, <1>5, <1>6
    <3> HIDE DEF l, k, v, u
    <3>3. l + n + (k - n) = v /\ u = l
      BY <3>1, <3>2
    <3>4. After(chunk, u)
      BY <1>6
    <3> QED BY <3>1, <3>2, <3>3, <3>4 DEF l, v
  <2> QED BY <2>2, <2>3, <2>4, <2>5, <2>6 DEF Part
<1> QED BY <1>10, <1>11, <1>12 DEF TeeInv

\* What is written of the chunk in hand continues the file.
LEMMA WriteNext ==
    ASSUME NEW shown \in Seq(Nat), NEW file \in Seq(Nat),
           NEW chunk \in Seq(Nat), NEW n \in 0..Len(chunk),
           Follow(shown, file, chunk)
    PROVE  LET all == file \o SubSeq(chunk, 1, n) IN
           /\ all \in Seq(Nat) /\ Len(all) = Len(file) + n
           /\ Follow(shown, all, << >>)
           /\ After(file, 0) /\ After(chunk, Len(file)) => After(all, 0)
<1> DEFINE c == SubSeq(chunk, 1, n)
           all == file \o c
           m == Len(file)
<1>1. c \in Seq(Nat) /\ Len(c) = n /\ \A i \in 1..n : c[i] = chunk[i]
  BY Cut
<1>2. m \in Nat /\ n \in Nat /\ n <= Len(chunk) /\ Len(chunk) \in Nat
  OBVIOUS
<1> HIDE DEF c
<1>3. /\ all \in Seq(Nat) /\ Len(all) = m + n
      /\ \A i \in 1..m : all[i] = file[i]
      /\ \A i \in 1..n : all[m + i] = c[i]
      /\ \A i \in 1..(m + n) : i \in 1..m \/ \E j \in 1..n : i = m + j
  BY <1>1, Joined
<1>4. /\ Ascending(file) /\ Ascending(chunk)
      /\ \A i \in 1..m : \E j \in 1..Len(shown) : shown[j] = file[i]
      /\ \A i \in 1..Len(chunk) : \E j \in 1..Len(shown) : shown[j] = chunk[i]
      /\ \A i \in 1..m, j \in 1..Len(chunk) : file[i] < chunk[j]
  BY DEF Follow
<1>5. \A i \in 1..n : i \in 1..Len(chunk)
  BY <1>2
<1> HIDE DEF all, m
<1>6. Ascending(all)
  <2>1. \A i, j \in 1..Len(chunk) : i < j => chunk[i] < chunk[j]
    BY <1>4 DEF Ascending
  <2>2. \A i, j \in 1..n : i < j => c[i] < c[j]
    BY <1>1, <1>5, <2>1
  <2>3. Ascending(c)
    BY <1>1, <2>2 DEF Ascending
  <2>4. \A i \in 1..m, j \in 1..n : file[i] < c[j]
    BY <1>1, <1>4, <1>5
  <2>5. Ascending(file \o c)
    BY <1>1, <1>4, <2>3, <2>4, JoinedAscending DEF m
  <2> QED BY <2>5 DEF all
<1>7. ASSUME NEW i \in 1..(m + n)
      PROVE  \E j \in 1..Len(shown) : shown[j] = all[i]
  <2>1. CASE i \in 1..m
    BY <1>3, <1>4, <2>1
  <2>2. ASSUME NEW k \in 1..n, i = m + k
        PROVE  \E j \in 1..Len(shown) : shown[j] = all[i]
    <3>1. all[i] = chunk[k] /\ k \in 1..Len(chunk)
      BY <1>1, <1>3, <1>5, <2>2
    <3> QED BY <1>4, <3>1
  <2> QED BY <1>3, <2>1, <2>2
<1>8. Follow(shown, all, << >>)
  BY <1>3, <1>6, <1>7, NothingThere DEF Follow
<1>9. ASSUME After(file, 0), After(chunk, m) PROVE After(all, 0)
  <2>1. \A i \in 1..m : file[i] = 0 + i
    BY <1>9 DEF After, m
  <2>2. \A i \in 1..Len(chunk) : chunk[i] = m + i
    BY <1>9 DEF After
  <2>3. ASSUME NEW i \in 1..(m + n) PROVE all[i] = 0 + i
    <3>1. CASE i \in 1..m
      BY <1>3, <2>1, <3>1
    <3>2. ASSUME NEW k \in 1..n, i = m + k PROVE all[i] = 0 + i
      <4>1. all[i] = chunk[k] /\ chunk[k] = m + k
        BY <1>1, <1>3, <1>5, <2>2, <3>2
      <4> QED BY <1>2, <3>2, <4>1
    <3> QED BY <1>3, <3>1, <3>2
  <2> QED BY <1>3, <2>3 DEF After
<1> QED BY <1>3, <1>8, <1>9 DEF all, c, m

\* The chunk in hand, or the beginning of it, goes to the file.
LEMMA WriteStep ==
    ASSUME TeeInv, held # NoChunk, NEW n \in 0..Len(held[2]),
           log' = [log EXCEPT ![held[1]] = @ \o SubSeq(held[2], 1, n)],
           held' = NoChunk,
           UNCHANGED <<lifecycle, written, opened, pipe, eof, console>>,
           faults' \in Nat, faults' = 0 => faults = 0 /\ n = Len(held[2])
    PROVE  TeeInv'
<1>0. PICK c \in Streams, chunk \in Seq(Nat) : held = <<c, chunk>>
  BY DEF TeeInv, TeeTypeOK
<1> DEFINE all == log[c] \o SubSeq(chunk, 1, n)
<1>1. /\ TeeTypeOK /\ held[1] = c /\ held[2] = chunk
      /\ Part(c) /\ HeldOf(c) = chunk /\ n \in 0..Len(chunk)
      /\ log[c] \in Seq(Nat) /\ console[c] \in Seq(Nat)
  BY <1>0 DEF TeeInv, TeeTypeOK, HeldOf
<1>2. UNCHANGED <<tee, child, asked, orphans, runs, stopping, began, written,
                  opened, pipe, eof, console>>
  BY DEF lifecycle
<1>3. log' = [log EXCEPT ![c] = all]
  BY <1>1
<1>4. Follow(console[c], log[c], chunk)
  BY <1>1 DEF Part, Kept
<1>5. /\ all \in Seq(Nat) /\ Len(all) = Len(log[c]) + n
      /\ Follow(console[c], all, << >>)
      /\ After(log[c], 0) /\ After(chunk, Len(log[c])) => After(all, 0)
  <2> DEFINE shown == console[c]
             file == log[c]
  <2>1. shown \in Seq(Nat) /\ file \in Seq(Nat) /\ chunk \in Seq(Nat)
        /\ n \in 0..Len(chunk) /\ Follow(shown, file, chunk)
    BY <1>1, <1>4
  <2> HIDE DEF shown, file
  <2>2. LET al == file \o SubSeq(chunk, 1, n) IN
        /\ al \in Seq(Nat) /\ Len(al) = Len(file) + n
        /\ Follow(shown, al, << >>)
        /\ After(file, 0) /\ After(chunk, Len(file)) => After(al, 0)
    BY <2>1, WriteNext, Zenon
  <2> QED BY <2>2 DEF shown, file
<1> HIDE DEF all
<1>6. log'[c] = all /\ \A s \in Streams \ {c} : log'[s] = log[s]
  BY <1>1, <1>3 DEF TeeTypeOK
<1>7. /\ \A s \in Streams : HeldOf(s)' = << >>
      /\ \A s \in Streams \ {c} : HeldOf(s) = << >>
  BY <1>1 DEF HeldOf
<1>8. TeeTypeOK' /\ Quiet'
  <2>1. TeeTypeOK'
    BY <1>1, <1>2, <1>3, <1>5 DEF TeeTypeOK
  <2> QED BY <1>2, <2>1 DEF TeeInv, Quiet
<1>9. ASSUME NEW s \in Streams \ {c} PROVE Part(s)'
  <2>1. HeldOf(s)' = HeldOf(s)
    BY <1>7
  <2> QED BY <1>1, <1>2, <1>6, <2>1, Untouched DEF TeeInv
<1>10. Part(c)'
  <2>1. Drained(c)'
    BY <1>1, <1>2 DEF Part, Drained
  <2>2. Piped(c)' /\ Shown(c)'
    BY <1>1, <1>2 DEF Part, Piped, Shown, Taken
  <2>3. Kept(c)'
    BY <1>1, <1>2, <1>5, <1>6, <1>7 DEF Kept
  <2>4. Lossless(c)'
    <3> SUFFICES ASSUME faults' = 0, tee # "down" \/ ~stopping
                 PROVE  /\ Len(all) + 0 + Len(pipe[c]) = written[c]
                        /\ After(all, 0)
      BY <1>1, <1>2, <1>6, <1>7, NothingThere DEF Lossless
    <3>1. /\ Len(log[c]) + Len(chunk) + Len(pipe[c]) = written[c]
          /\ After(log[c], 0) /\ After(chunk, Len(log[c]))
      BY <1>1 DEF Part, Lossless
    <3>2. Len(log[c]) \in Nat /\ Len(chunk) \in Nat /\ n = Len(chunk)
          /\ Len(pipe[c]) \in Nat
      BY <1>1 DEF TeeTypeOK
    <3>3. Len(all) = Len(log[c]) + Len(chunk) /\ After(all, 0)
      BY <1>5, <3>1, <3>2
    <3>4. Len(all) + 0 + Len(pipe[c]) = Len(log[c]) + Len(chunk) + Len(pipe[c])
      BY <3>2, <3>3
    <3> QED BY <3>1, <3>3, <3>4
  <2> QED BY <2>1, <2>2, <2>3, <2>4 DEF Part
<1> QED BY <1>8, <1>9, <1>10 DEF TeeInv

\* A write, whole or short.
LEMMA LogsStep ==
    ASSUME TeeInv, Logs \/ LogsShort
    PROVE  TeeInv'
<1>1. held # NoChunk /\ held \in Streams \X Seq(Nat) /\ faults \in Nat
      /\ UNCHANGED <<lifecycle, written, opened, pipe, eof, console>>
      /\ held' = NoChunk
  BY DEF TeeInv, TeeTypeOK, Logs, LogsShort
<1>2. held[2] \in Seq(Nat) /\ Len(held[2]) \in 0..Len(held[2])
  BY <1>1
<1>3. CASE Logs
  <2>1. SubSeq(held[2], 1, Len(held[2])) = held[2]
    BY <1>2, CutAll
  <2>2. log' = [log EXCEPT ![held[1]] =
                   @ \o SubSeq(held[2], 1, Len(held[2]))]
    BY <1>3, <2>1 DEF Logs
  <2>3. faults' = faults
    BY <1>3 DEF Logs
  <2> QED BY <1>1, <1>2, <2>2, <2>3, WriteStep
<1>4. CASE LogsShort
  <2>1. PICK n \in 1..(Len(held[2]) - 1) :
           log' = [log EXCEPT ![held[1]] = @ \o SubSeq(held[2], 1, n)]
    BY <1>4 DEF LogsShort
  <2>2. n \in 0..Len(held[2])
    BY <1>2
  <2>3. faults' \in Nat /\ faults' # 0
    BY <1>1, <1>4 DEF LogsShort, Fault
  <2> QED BY <1>1, <2>1, <2>2, <2>3, WriteStep
<1> QED BY <1>3, <1>4

\* The tee ends after its child: nothing is left on its way.
LEMMA ExitsStep ==
    ASSUME TeeInv, Exits
    PROVE  /\ TeeInv' /\ held = NoChunk /\ pipe = Empty
<1>1. \A s \in Streams : pipe[s] = << >> /\ eof[s]
  BY DEF TeeInv, Part, Drained, Exits, Finished
<1>2. pipe = Empty
  BY <1>1 DEF TeeInv, TeeTypeOK, Empty
<1>3. held = NoChunk
  <2>1. held # NoChunk => held[1] \in Streams /\ ~eof[held[1]]
    BY DEF TeeInv, TeeTypeOK, Quiet
  <2> QED BY <1>1, <2>1
<1>4. TeeInv'
  <2>1. orphans' = orphans /\ child' = "none" /\ orphans \in Nat /\ faults \in Nat
        /\ stopping \in BOOLEAN /\ tee = "running"
    BY DEF TeeInv, TeeTypeOK, Exits, Abandon, Finished
  <2> QED BY <1>2, <1>3, <2>1, Torn DEF Exits, Abandon, output
<1> QED BY <1>2, <1>3, <1>4

\* The tee dies.
LEMMA DiesStep ==
    ASSUME TeeInv, Dies
    PROVE  TeeInv'
<1>1. faults \in Nat /\ orphans \in Nat /\ stopping \in BOOLEAN
  BY DEF TeeInv, TeeTypeOK
<1>2. orphans' \in Nat /\ faults' \in Nat /\ faults' # 0
  BY <1>1 DEF Dies, Fault, Abandon
<1> QED BY <1>1, <1>2, Torn DEF Dies, Abandon, output

\* supervisord is told to stop the program.
LEMMA StopStep ==
    ASSUME TeeInv, Stop
    PROVE  TeeInv'
<1>1. stopping' = TRUE
      /\ UNCHANGED <<child, orphans, runs, faults, written, began, eof, held,
                     console, log>>
  BY DEF Stop, output
<1>2. CASE tee = "spawned"
  <2>1. held = NoChunk /\ faults \in Nat /\ orphans \in Nat
    BY <1>2 DEF TeeInv, TeeTypeOK, Quiet
  <2> QED BY <1>1, <1>2, <2>1, Torn DEF Stop
<1>3. CASE tee # "spawned"
  <2>1. UNCHANGED <<tee, opened, pipe>>
    BY <1>3 DEF Stop
  <2>2. TeeTypeOK' /\ Quiet'
    BY <1>1, <2>1 DEF TeeInv, TeeTypeOK, Quiet
  <2>3. ASSUME NEW s \in Streams PROVE Part(s)'
    BY <1>1, <2>1, Untouched DEF TeeInv, HeldOf
  <2> QED BY <2>2, <2>3 DEF TeeInv
<1> QED BY <1>2, <1>3

\* supervisord kills the group.
LEMMA KillStep ==
    ASSUME TeeInv, Kill
    PROVE  TeeInv'
<1>1. faults \in Nat /\ orphans \in Nat
  BY DEF TeeInv, TeeTypeOK
<1> QED BY <1>1, Torn DEF Kill, output

\* The invariant holds at the start.
LEMMA TeeStarts == TeeInit => TeeInv
<1> SUFFICES ASSUME TeeInit PROVE TeeInv
  OBVIOUS
<1>1. TeeTypeOK /\ Quiet
  BY NothingThere DEF TeeInit, TeeTypeOK, Quiet, Empty, NoChunk
<1>2. ASSUME NEW s \in Streams PROVE Part(s)
  <2>1. /\ pipe[s] = << >> /\ console[s] = << >> /\ log[s] = << >>
        /\ written[s] = 0 /\ HeldOf(s) = << >> /\ ~eof[s] /\ tee = "down"
    BY DEF TeeInit, Empty, NoChunk, HeldOf
  <2>2. UpTo(<< >>, 0)
    BY DEF UpTo
  <2>3. Taken(s) = 0
    <3>1. Len(pipe[s]) = 0 /\ written[s] = 0
      BY <2>1
    <3> QED BY <3>1 DEF Taken
  <2> QED BY <2>1, <2>2, <2>3, NothingThere
          DEF Part, Drained, Piped, Shown, Kept, Follow, Lossless
<1> QED BY <1>1, <1>2 DEF TeeInv

\* Every step of the tee, its child and supervisord keeps it.
LEMMA TeeKeeps ==
    ASSUME TeeInv, [TeeNext]_teeVars
    PROVE  TeeInv'
<1>1. CASE UNCHANGED teeVars
  <2>1. UNCHANGED <<tee, child, orphans, faults, stopping, written, began,
                    opened, pipe, eof, held, console, log>>
    BY <1>1 DEF teeVars
  <2>2. TeeTypeOK' /\ Quiet'
    BY <2>1 DEF TeeInv, TeeTypeOK, Quiet
  <2>3. ASSUME NEW s \in Streams PROVE Part(s)'
    BY <2>1, Untouched DEF TeeInv, HeldOf
  <2> QED BY <2>2, <2>3 DEF TeeInv
<1>2. CASE ChildStep
  BY <1>2, ChildEndsStep, ChildWritesStep, ChildClosesStep DEF ChildStep
<1>3. CASE TeeStep
  BY <1>3, InstallStep, LogsStep, ExitsStep, ReadsStep, ReachesEndStep DEF TeeStep
<1>4. CASE Spawn
  BY <1>4, SpawnStep
<1>5. CASE LogsShort \/ Dies \/ Stop \/ Kill
  BY <1>5, LogsStep, DiesStep, StopStep, KillStep
<1> QED BY <1>1, <1>2, <1>3, <1>4, <1>5 DEF TeeNext

-----------------------------------------------------------------------------
\* The log and the program.

\* The drain changes nothing of the tee.
LEMMA NextIsTee ==
    ASSUME [Next]_vars
    PROVE  [TeeNext]_teeVars
<1>1. CASE UNCHANGED vars
  BY <1>1 DEF vars, teeVars
<1>2. CASE AdapterStep
  BY <1>2 DEF AdapterStep, Drain, DrainFails, Fetches, Emits, DrainEnds
<1>3. CASE WrapperStep
  BY <1>3 DEF WrapperStep, Stats, ReadsTail, Unreadable
<1> QED BY <1>1, <1>2, <1>3 DEF Next

\* The invariant of the tee always holds, whoever reads the files.
LEMMA TeeInvariant == Spec => []TeeInv
<1>1. Init => TeeInv
  BY TeeStarts DEF Init
<1>2. TeeInv /\ [Next]_vars => TeeInv'
  BY NextIsTee, TeeKeeps
<1> QED BY <1>1, <1>2, PTL DEF Spec

\* Whatever has failed, a file holds what the console showed, in that order
\* and once, whichever run wrote it and wherever a run died.
THEOREM LogFollowsConsole == Spec => []LogBehindConsole
<1>1. TeeInv => LogBehindConsole
  <2> SUFFICES ASSUME TeeInv, NEW s \in Streams
               PROVE  /\ Ascending(console[s]) /\ Ascending(log[s])
                      /\ ToSet(log[s]) \subseteq ToSet(console[s])
    BY DEF LogBehindConsole
  <2>1. /\ Ascending(console[s]) /\ Ascending(log[s])
        /\ \A i \in 1..Len(log[s]) :
              \E j \in 1..Len(console[s]) : console[s][j] = log[s][i]
    BY DEF TeeInv, Part, Shown, Kept, Follow
  <2>2. DOMAIN log[s] = 1..Len(log[s]) /\ DOMAIN console[s] = 1..Len(console[s])
    BY DEF TeeInv, TeeTypeOK
  <2> QED BY <2>1, <2>2 DEF ToSet
<1> QED BY <1>1, TeeInvariant, PTL

\* A second child is started beside a living one only where a tee was killed
\* or could not write: every other way the tee ends, it has waited for its
\* child, or killed it, or will not be started again.
THEOREM ChildAlone == Spec => []Alone
<1>1. Init => Alone
  BY DEF Init, TeeInit, Alone
<1>2. TeeInv /\ Alone /\ [Next]_vars => Alone'
  <2> SUFFICES ASSUME TeeInv, Alone, [TeeNext]_teeVars PROVE Alone'
    BY NextIsTee
  <2>1. orphans \in Nat /\ faults \in Nat
    BY DEF TeeInv, TeeTypeOK
  <2>2. CASE Dies
    BY <2>1, <2>2 DEF Dies, Fault, Abandon, Alone
  <2>3. CASE LogsShort
    BY <2>1, <2>3 DEF LogsShort, Fault, Alone, lifecycle
  <2>4. CASE Exits
    BY <2>4 DEF Exits, Finished, Abandon, Alone
  <2>5. CASE Stop \/ Kill \/ Spawn \/ UNCHANGED teeVars
    BY <2>5 DEF Stop, Kill, Spawn, teeVars, Alone
  <2>6. CASE ChildStep
    BY <2>6 DEF ChildStep, ChildEnds, ChildWrites, ChildCloses, lifecycle, Alone
  <2>7. CASE Install \/ Logs \/ \E s \in Streams : Reads(s) \/ ReachesEnd(s)
    BY <2>7 DEF Install, Logs, Reads, ReachesEnd, lifecycle, Alone
  <2> QED BY <2>2, <2>3, <2>4, <2>5, <2>6, <2>7 DEF TeeNext, TeeStep
<1> QED BY <1>1, <1>2, TeeInvariant, PTL DEF Spec

\* A sequence of numbers that counts from 1 is determined by its length.
LEMMA Counting ==
    ASSUME NEW f \in Seq(Nat), After(f, 0)
    PROVE  f = [b \in 1..Len(f) |-> b]
<1>1. \A i \in 1..Len(f) : f[i] = i
  BY DEF After
<1> QED BY <1>1

\* When a tee has waited for its child, all that this run of the child wrote
\* is on the console, and while nothing has failed the file has all that was
\* ever written, by this run and by those before.
THEOREM NothingIsLost == Spec => NothingLost
<1> DEFINE P == Exits =>
        \A s \in Streams :
            /\ \A b \in (began[s] + 1)..written[s] : Contains(console[s], b)
            /\ faults = 0 => log[s] = [b \in 1..written[s] |-> b]
<1>1. TeeInv /\ [Next]_vars => [P]_teeVars
  <2> SUFFICES ASSUME TeeInv, Exits, NEW s \in Streams
               PROVE  /\ \A b \in (began[s] + 1)..written[s] :
                            Contains(console[s], b)
                      /\ faults = 0 => log[s] = [b \in 1..written[s] |-> b]
    OBVIOUS
  <2>1. /\ held = NoChunk /\ pipe[s] = << >> /\ tee = "running"
        /\ written[s] \in Nat /\ log[s] \in Seq(Nat) /\ Part(s)
    BY ExitsStep DEF Empty, Exits, TeeInv, TeeTypeOK
  <2>2. Taken(s) = written[s] /\ HeldOf(s) = << >>
    <3>1. Len(pipe[s]) = 0
      BY <2>1
    <3> QED BY <2>1, <3>1 DEF Taken, HeldOf
  <2>3. Covers(console[s], began[s] + 1, written[s])
    BY <2>1, <2>2 DEF Part, Shown
  <2>4. faults = 0 => After(log[s], 0) /\ Len(log[s]) = written[s]
    BY <2>1, <2>2 DEF Part, Lossless
  <2>5. faults = 0 => log[s] = [b \in 1..written[s] |-> b]
    BY <2>1, <2>4, Counting
  <2> QED BY <2>3, <2>5 DEF Covers, Contains
<1>2. Spec => [][P]_teeVars
  <2> HIDE DEF P
  <2> QED BY <1>1, TeeInvariant, PTL DEF Spec
<1> QED BY <1>2 DEF NothingLost

-----------------------------------------------------------------------------
\* The drain.

\* A piece of f without a gap, which reaches at least to its first size bytes
\* and is as long as the bound or as they are.
Piece(f, size, c) ==
    \E a \in 1..(Len(f) + 1), b \in size..Len(f) :
       c = SubSeq(f, a, b) /\ Len(c) >= Min({MaxTail, size})

\* The files internal_pod_logs is through with.
Passed(s) ==
    wrapper.at = "sent" \/ (wrapper.at \in {"stat", "read"} /\ s < wrapper.file)

DrainTypeOK ==
    /\ drain \in {"idle", "lookup", "fetching"}
    /\ wrapper \in [at : {"none", "stat", "read", "sent"}, file : Nat, size : Nat]
    /\ content \in [Streams -> Seq(Nat)] /\ sizes \in [Streams -> Nat]

\* The file that is read has not shrunk since the drain asked for it, nor since
\* its size was taken, and a file that was read is answered with a piece of it.
DrainInv ==
    /\ DrainTypeOK
    /\ drain # "fetching" => wrapper.at = "none"
    /\ wrapper.at \in {"stat", "read"} => wrapper.file \in Streams
    /\ wrapper.at = "read" =>
          wrapper.size \in sizes[wrapper.file]..Len(log[wrapper.file])
    /\ \A s \in Streams : sizes[s] <= Len(log[s])
    /\ \A s \in Streams \ unread :
          Passed(s) => Piece(log[s], sizes[s], content[s])

\* The smaller and the larger of two numbers.
LEMMA MinMax ==
    ASSUME NEW x \in Int, NEW y \in Int
    PROVE  /\ Min({x, y}) = IF x <= y THEN x ELSE y
           /\ Max({x, y}) = IF x <= y THEN y ELSE x
<1> DEFINE lo == IF x <= y THEN x ELSE y
           hi == IF x <= y THEN y ELSE x
<1>1. lo \in {x, y} /\ \A z \in {x, y} : lo <= z
  OBVIOUS
<1>2. \A w \in {x, y} : (\A z \in {x, y} : w <= z) => w = lo
  OBVIOUS
<1>3. hi \in {x, y} /\ \A z \in {x, y} : hi >= z
  OBVIOUS
<1>4. \A w \in {x, y} : (\A z \in {x, y} : w >= z) => w = hi
  OBVIOUS
<1> HIDE DEF lo, hi
<1>5. Min({x, y}) = lo
  BY <1>1, <1>2 DEF Min
<1>6. Max({x, y}) = hi
  BY <1>3, <1>4 DEF Max
<1> QED BY <1>5, <1>6 DEF lo, hi

\* What _tail_utf8_text reads after it took the size is such a piece.
LEMMA TailIsPiece ==
    ASSUME NEW f \in Seq(Nat), NEW old \in Nat, NEW size \in old..Len(f)
    PROVE  /\ TailOf(f, size) \in Seq(Nat)
           /\ Piece(f, old, TailOf(f, size))
<1> DEFINE n == Len(f)
           skip == Max({0, size - MaxTail})
           c == TailOf(f, size)
           m == Min({MaxTail, old})
<1>1. n \in Nat /\ size \in Nat /\ old <= size /\ size <= n /\ MaxTail \in Nat
  BY Bounds
<1>2. /\ skip = IF 0 <= size - MaxTail THEN size - MaxTail ELSE 0
      /\ m = IF MaxTail <= old THEN MaxTail ELSE old
  BY <1>1, MinMax
<1> HIDE DEF skip, m
<1>3. /\ skip \in 0..n /\ (size - skip) >= m /\ m <= MaxTail
  BY <1>1, <1>2
<1>4. CASE MaxTail = 0
  <2>1. c = << >>
    BY <1>4 DEF TailOf
  <2>2. SubSeq(f, n + 1, n) = << >>
    BY <1>1
  <2>3. n + 1 \in 1..(n + 1) /\ n \in old..n /\ 0 >= m
    BY <1>1, <1>3, <1>4
  <2>4. c = SubSeq(f, n + 1, n) /\ Len(c) >= m
    BY <2>1, <2>2, <2>3
  <2> HIDE DEF c, n
  <2> QED BY <2>1, <2>3, <2>4 DEF Piece, n, c, m
<1>5. CASE MaxTail # 0
  <2>1. c = SubSeq(f, skip + 1, n)
    BY <1>5 DEF TailOf, skip
  <2>2. /\ SubSeq(f, skip + 1, n) \in Seq(Nat)
        /\ Len(SubSeq(f, skip + 1, n)) = n - skip
    BY <1>3, Cut
  <2>3. /\ skip + 1 \in 1..(n + 1) /\ n \in old..n
        /\ n - skip >= m
    <3>1. m \in Nat
      BY <1>1, <1>2
    <3> QED BY <1>1, <1>3, <3>1
  <2> HIDE DEF c, n
  <2> QED BY <2>1, <2>2, <2>3 DEF Piece, n, c, m
<1> QED BY <1>4, <1>5

\* g continues f.
Continues(g, f) == Len(f) <= Len(g) /\ \A i \in 1..Len(f) : g[i] = f[i]

\* A piece of a file is one of the file that has grown.
LEMMA PieceStays ==
    ASSUME NEW f \in Seq(Nat), NEW g \in Seq(Nat), Continues(g, f),
           NEW size \in Nat, NEW c, Piece(f, size, c)
    PROVE  Piece(g, size, c)
<1>1. PICK a \in 1..(Len(f) + 1), b \in size..Len(f) :
         c = SubSeq(f, a, b) /\ Len(c) >= Min({MaxTail, size})
  BY DEF Piece
<1> DEFINE n == Len(f)
           m == Len(g)
<1>2. n \in Nat /\ m \in Nat /\ n <= m /\ \A i \in 1..n : g[i] = f[i]
  BY DEF Continues
<1> HIDE DEF n, m
<1>3. a \in 1..(m + 1) /\ b \in size..m /\ a \in Nat /\ b \in Nat /\ b <= n
  BY <1>2 DEF n
<1>4. SubSeq(g, a, b) = SubSeq(f, a, b)
  <2>1. \A i \in 1..(b + 1 - a) : a + i - 1 \in 1..n
    BY <1>2, <1>3
  <2>2. SubSeq(g, a, b) = [i \in 1..(b + 1 - a) |-> g[a + i - 1]]
    BY <1>3
  <2>3. SubSeq(f, a, b) = [i \in 1..(b + 1 - a) |-> f[a + i - 1]]
    BY <1>3
  <2> QED BY <1>2, <2>1, <2>2, <2>3
<1> QED BY <1>1, <1>3, <1>4 DEF Piece, m

\* Nothing the tee does takes a byte out of a file.
LEMMA LogGrows ==
    ASSUME TeeInv, [TeeNext]_teeVars, NEW s \in Streams
    PROVE  log'[s] \in Seq(Nat) /\ Continues(log'[s], log[s])
<1>1. TeeTypeOK /\ log[s] \in Seq(Nat)
  BY DEF TeeInv, TeeTypeOK
<1>2. log[s] \in Seq(Nat) /\ Continues(log[s], log[s])
  BY <1>1 DEF Continues
<1>3. ASSUME NEW d \in Seq(Nat)
      PROVE  log[s] \o d \in Seq(Nat) /\ Continues(log[s] \o d, log[s])
  <2>1. /\ log[s] \o d \in Seq(Nat) /\ Len(log[s] \o d) = Len(log[s]) + Len(d)
        /\ Len(log[s]) \in Nat /\ Len(d) \in Nat
        /\ \A i \in 1..Len(log[s]) : (log[s] \o d)[i] = log[s][i]
    BY <1>1, Joined
  <2> QED BY <2>1 DEF Continues
<1>4. CASE Logs
  <2>1. held[2] \in Seq(Nat)
    BY <1>1, <1>4 DEF Logs, TeeTypeOK
  <2>2. log'[s] \in {log[s], log[s] \o held[2]}
    BY <1>1, <1>4 DEF Logs, TeeTypeOK
  <2> QED BY <1>2, <1>3, <2>1, <2>2
<1>5. CASE LogsShort
  <2>1. held[2] \in Seq(Nat)
    BY <1>1, <1>5 DEF LogsShort, TeeTypeOK
  <2>2. PICK n \in 1..(Len(held[2]) - 1) :
           log' = [log EXCEPT ![held[1]] = @ \o SubSeq(held[2], 1, n)]
    BY <1>5 DEF LogsShort
  <2>3. SubSeq(held[2], 1, n) \in Seq(Nat)
    <3>1. n \in 0..Len(held[2])
      BY <2>1
    <3> QED BY <2>1, <3>1, Cut
  <2>4. log'[s] \in {log[s], log[s] \o SubSeq(held[2], 1, n)}
    BY <1>1, <2>2 DEF TeeTypeOK
  <2> QED BY <1>2, <1>3, <2>3, <2>4
<1>6. CASE Stop \/ Kill \/ Spawn \/ Exits \/ Dies \/ UNCHANGED teeVars
  BY <1>2, <1>6 DEF Stop, Kill, Spawn, Exits, Dies, teeVars, output
<1>7. CASE ChildStep
  BY <1>2, <1>7 DEF ChildStep, ChildEnds, ChildWrites, ChildCloses, output
<1>8. CASE Install \/ \E t \in Streams : Reads(t) \/ ReachesEnd(t)
  BY <1>2, <1>8 DEF Install, Opens, Reads, ReachesEnd, output
<1> QED BY <1>4, <1>5, <1>6, <1>7, <1>8 DEF TeeNext, TeeStep

\* The steps of the tee find every piece in the file that has grown.
LEMMA DrainWhileLogging ==
    ASSUME TeeInv, DrainInv, [TeeNext]_teeVars, UNCHANGED drainVars
    PROVE  DrainInv'
<1>1. /\ drain' = drain /\ wrapper' = wrapper /\ content' = content
      /\ unread' = unread /\ sizes' = sizes
  BY DEF drainVars
<1>2. ASSUME NEW s \in Streams
      PROVE  /\ log[s] \in Seq(Nat) /\ log'[s] \in Seq(Nat)
             /\ Continues(log'[s], log[s])
             /\ Len(log[s]) <= Len(log'[s])
             /\ Len(log[s]) \in Nat /\ Len(log'[s]) \in Nat
             /\ sizes[s] \in Nat
  <2>1. log[s] \in Seq(Nat) /\ sizes[s] \in Nat
    BY DEF TeeInv, TeeTypeOK, DrainInv, DrainTypeOK
  <2> QED BY <2>1, LogGrows DEF Continues
<1>3. DrainTypeOK'
  BY <1>1 DEF DrainInv, DrainTypeOK
<1>4. \A s \in Streams : sizes[s] <= Len(log'[s])
  BY <1>2 DEF DrainInv
<1>5. ASSUME wrapper.at = "read"
      PROVE  wrapper.size \in sizes[wrapper.file]..Len(log'[wrapper.file])
  <2>1. /\ wrapper.file \in Streams
        /\ wrapper.size \in sizes[wrapper.file]..Len(log[wrapper.file])
    BY <1>5 DEF DrainInv
  <2> QED BY <1>2, <2>1
<1>6. ASSUME NEW s \in Streams \ unread, Passed(s)
      PROVE  Piece(log'[s], sizes[s], content[s])
  <2>1. Piece(log[s], sizes[s], content[s])
    BY <1>6 DEF DrainInv
  <2> QED BY <1>2, <2>1, PieceStays
<1>7. \A s \in Streams : Passed(s)' <=> Passed(s)
  BY <1>1 DEF Passed
<1> QED BY <1>1, <1>3, <1>4, <1>5, <1>6, <1>7 DEF DrainInv

\* A drain that begins or ends.
LEMMA AdapterKeeps ==
    ASSUME TeeInv, DrainInv, AdapterStep
    PROVE  DrainInv'
<1>1. /\ \A s \in Streams : log[s] \in Seq(Nat) /\ Len(log[s]) \in Nat
      /\ log' = log
  BY DEF TeeInv, TeeTypeOK, AdapterStep, Drain, DrainFails, Fetches, Emits,
         DrainEnds, teeVars
<1>2. CASE Drain
  <2>1. drain' = "lookup" /\ UNCHANGED <<wrapper, content, unread, sizes, log>>
        /\ wrapper.at = "none"
    BY <1>1, <1>2 DEF Drain, DrainInv
  <2> QED BY <2>1 DEF DrainInv, DrainTypeOK, Passed
<1>3. CASE Fetches
  <2>1. /\ wrapper' = [at |-> "stat", file |-> 1, size |-> 0]
        /\ drain' = "fetching" /\ content' = content /\ unread' = unread
        /\ sizes' = [s \in Streams |-> Len(log[s])]
    BY <1>3 DEF Fetches, At
  <2>2. DrainTypeOK'
    BY <1>1, <2>1 DEF DrainInv, DrainTypeOK
  <2>3. wrapper'.file \in Streams /\ wrapper'.at = "stat"
    BY <2>1, LogsAssumption
  <2>4. \A s \in Streams : ~Passed(s)'
    <3>1. \A s \in Streams : ~(s < 1)
      BY LogsAssumption
    <3> QED BY <2>1, <3>1 DEF Passed
  <2>5. \A s \in Streams : sizes'[s] <= Len(log'[s])
    BY <1>1, <2>1
  <2> QED BY <2>1, <2>2, <2>3, <2>4, <2>5 DEF DrainInv
<1>4. CASE DrainEnds
  <2>1. /\ wrapper' = [at |-> "none", file |-> 0, size |-> 0]
        /\ drain' = "idle" /\ unread' = {}
        /\ content' = [s \in Streams |-> << >>]
        /\ sizes' = [s \in Streams |-> 0]
    BY <1>4 DEF DrainEnds, NotServing, At, Empty, NoSizes
  <2>2. DrainTypeOK'
    BY <2>1, NothingThere DEF DrainTypeOK
  <2>3. \A s \in Streams : ~Passed(s)'
    BY <2>1 DEF Passed
  <2>4. \A s \in Streams : sizes'[s] <= Len(log'[s])
    BY <1>1, <2>1
  <2> QED BY <2>1, <2>2, <2>3, <2>4 DEF DrainInv
<1> QED BY <1>2, <1>3, <1>4 DEF AdapterStep, DrainFails, Emits

\* internal_pod_logs goes on to the next file, or it has answered with all.
LEMMA GoesOn ==
    ASSUME DrainInv, NEW s \in Streams, wrapper.at \in {"stat", "read"},
           wrapper.file = s, wrapper' = Following(s)
    PROVE  /\ wrapper' \in [at : {"none", "stat", "read", "sent"},
                            file : Nat, size : Nat]
           /\ wrapper'.at \in {"stat", "sent"}
           /\ wrapper'.at = "stat" => wrapper'.file \in Streams
           /\ drain = "fetching"
           /\ \A u \in Streams : Passed(u)' => u = s \/ Passed(u)
<1>1. s \in Nat /\ s > 0 /\ \A u \in Streams : u \in Nat /\ 1..u \subseteq Streams
  BY LogsAssumption
<1>2. CASE s + 1 \in Streams
  <2>1. wrapper' = [at |-> "stat", file |-> s + 1, size |-> 0]
    BY <1>2 DEF Following, At
  <2>2. \A u \in Streams : u < s + 1 => u = s \/ u < s
    BY <1>1
  <2> QED BY <1>1, <1>2, <2>1, <2>2 DEF DrainInv, Passed
<1>3. CASE s + 1 \notin Streams
  <2>1. wrapper' = [at |-> "sent", file |-> s, size |-> 0]
    BY <1>3 DEF Following, At
  <2>2. ASSUME NEW u \in Streams PROVE u = s \/ u < s
    <3>1. u > s => s + 1 \in 1..u
      BY <1>1
    <3> QED BY <1>1, <1>3, <3>1
  <2> QED BY <1>1, <2>1, <2>2 DEF DrainInv, Passed
<1> QED BY <1>2, <1>3

\* The wrapper reads the files one after the other.
LEMMA WrapperKeeps ==
    ASSUME TeeInv, DrainInv, WrapperStep
    PROVE  DrainInv'
<1>1. PICK s \in Streams : Stats(s) \/ ReadsTail(s) \/ Unreadable(s)
  BY DEF WrapperStep
<1>2. /\ log[s] \in Seq(Nat) /\ Len(log[s]) \in Nat /\ s \in Nat
      /\ sizes[s] \in Nat /\ sizes[s] <= Len(log[s])
      /\ log' = log /\ drain' = drain /\ sizes' = sizes
      /\ wrapper.at \in {"stat", "read"} /\ wrapper.file = s
      /\ DrainTypeOK /\ drain = "fetching"
  <2>1. /\ log' = log /\ drain' = drain /\ sizes' = sizes
        /\ wrapper.at \in {"stat", "read"} /\ wrapper.file = s
    BY <1>1 DEF Stats, ReadsTail, Unreadable, teeVars
  <2>2. log[s] \in Seq(Nat) /\ s \in Nat
    BY LogsAssumption DEF TeeInv, TeeTypeOK
  <2>3. DrainTypeOK /\ sizes[s] \in Nat /\ sizes[s] <= Len(log[s])
    BY DEF DrainInv, DrainTypeOK
  <2>4. drain = "fetching"
    BY <2>1 DEF DrainInv
  <2> QED BY <2>1, <2>2, <2>3, <2>4
<1>3. CASE Stats(s)
  <2>1. /\ wrapper' = [at |-> "read", file |-> s, size |-> Len(log[s])]
        /\ content' = content /\ unread' = unread
    BY <1>3 DEF Stats, At
  <2>2. DrainTypeOK'
    BY <1>2, <2>1 DEF DrainTypeOK
  <2>3. wrapper'.size \in sizes'[wrapper'.file]..Len(log'[wrapper'.file])
    BY <1>2, <2>1
  <2>4. \A u \in Streams : Passed(u)' => Passed(u)
    BY <1>2, <2>1 DEF Passed
  <2>5. wrapper'.file \in Streams /\ wrapper'.at = "read"
    BY <2>1
  <2> QED BY <1>2, <2>1, <2>2, <2>3, <2>4, <2>5 DEF DrainInv
<1>4. CASE ReadsTail(s)
  <2> DEFINE c == TailOf(log[s], wrapper.size)
  <2>1. /\ wrapper' = Following(s) /\ unread' = unread
        /\ content' = [content EXCEPT ![s] = c]
        /\ wrapper.size \in sizes[s]..Len(log[s])
    BY <1>2, <1>4 DEF ReadsTail, DrainInv
  <2>2. c \in Seq(Nat) /\ Piece(log[s], sizes[s], c)
    BY <1>2, <2>1, TailIsPiece
  <2> HIDE DEF c
  <2>3. /\ wrapper' \in [at : {"none", "stat", "read", "sent"},
                         file : Nat, size : Nat]
        /\ wrapper'.at \in {"stat", "sent"}
        /\ wrapper'.at = "stat" => wrapper'.file \in Streams
        /\ \A u \in Streams : Passed(u)' => u = s \/ Passed(u)
    BY <1>2, <2>1, GoesOn
  <2>4. DrainTypeOK'
    BY <1>2, <2>1, <2>2, <2>3 DEF DrainTypeOK
  <2>5. ASSUME NEW u \in Streams \ unread, Passed(u)'
        PROVE  Piece(log[u], sizes[u], content'[u])
    <3>1. CASE u = s
      BY <1>2, <2>1, <2>2, <3>1 DEF DrainTypeOK
    <3>2. CASE u # s
      <4>1. content'[u] = content[u] /\ Passed(u)
        BY <1>2, <2>1, <2>3, <2>5, <3>2 DEF DrainTypeOK
      <4> QED BY <4>1 DEF DrainInv
    <3> QED BY <3>1, <3>2
  <2> QED BY <1>2, <2>1, <2>3, <2>4, <2>5 DEF DrainInv
<1>5. CASE Unreadable(s)
  <2>1. /\ wrapper' = Following(s) /\ unread' = unread \cup {s}
        /\ content' = content
    BY <1>5 DEF Unreadable
  <2>2. /\ wrapper' \in [at : {"none", "stat", "read", "sent"},
                         file : Nat, size : Nat]
        /\ wrapper'.at \in {"stat", "sent"}
        /\ wrapper'.at = "stat" => wrapper'.file \in Streams
        /\ \A u \in Streams : Passed(u)' => u = s \/ Passed(u)
    BY <1>2, <2>1, GoesOn
  <2>3. DrainTypeOK'
    BY <1>2, <2>1, <2>2 DEF DrainTypeOK
  <2> QED BY <1>2, <2>1, <2>2, <2>3 DEF DrainInv
<1> QED BY <1>1, <1>3, <1>4, <1>5

\* When the drain reports success, it has emitted of every file that could be
\* read one piece without a gap, which reaches at least to the end the file had
\* when it was asked for, and is as long as the bound or that file, whatever
\* the tee has written in the meantime and however often it was started.
THEOREM DrainShowsTail == Spec => DrainedTail
<1> DEFINE P == Emits =>
        \A s \in Streams \ unread :
            \E a \in 1..(Len(log[s]) + 1), b \in sizes[s]..Len(log[s]) :
                /\ content[s] = SubSeq(log[s], a, b)
                /\ Len(content[s]) >= Min({MaxTail, sizes[s]})
<1>1. Init => DrainInv
  <2> SUFFICES ASSUME Init PROVE DrainInv
    OBVIOUS
  <2>1. /\ wrapper = [at |-> "none", file |-> 0, size |-> 0]
        /\ drain = "idle" /\ unread = {}
        /\ content = [s \in Streams |-> << >>]
        /\ sizes = [s \in Streams |-> 0]
        /\ log = [s \in Streams |-> << >>]
    BY DEF Init, TeeInit, NotServing, At, Empty, NoSizes
  <2> QED BY <2>1, NothingThere DEF DrainInv, DrainTypeOK, Passed
<1>2. TeeInv /\ DrainInv /\ [Next]_vars => DrainInv'
  <2> SUFFICES ASSUME TeeInv, DrainInv, [Next]_vars PROVE DrainInv'
    OBVIOUS
  <2>1. CASE (TeeNext /\ UNCHANGED drainVars) \/ UNCHANGED vars
    BY <2>1, DrainWhileLogging DEF vars
  <2>2. CASE AdapterStep
    BY <2>2, AdapterKeeps
  <2>3. CASE WrapperStep
    BY <2>3, WrapperKeeps
  <2> QED BY <2>1, <2>2, <2>3 DEF Next
<1>3. DrainInv /\ [Next]_vars => [P]_vars
  <2> SUFFICES ASSUME DrainInv, Emits, NEW s \in Streams \ unread
               PROVE  Piece(log[s], sizes[s], content[s])
    BY DEF Piece
  <2>1. wrapper.at = "sent"
    BY DEF Emits
  <2> QED BY <2>1 DEF DrainInv, Passed
<1>4. Spec => [][P]_vars
  <2> HIDE DEF P
  <2> QED BY <1>1, <1>2, <1>3, TeeInvariant, PTL DEF Spec
<1> QED BY <1>4 DEF DrainedTail
=============================================================================
