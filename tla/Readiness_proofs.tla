-------------------------- MODULE Readiness_proofs --------------------------
(***************************************************************************)
(* The invariant of the wait for a pod and what follows from it, for all   *)
(* intervals, time-outs and pods.  It says how the three things the        *)
(* handler knows of the pod are ordered (what it remembers of the last     *)
(* look, the answer under way, the pod itself), what the timer counts, and *)
(* how long every await may last.                                          *)
(***************************************************************************)
EXTENDS ReadinessProperties, TLAPS

USE DEF Sleeps, Calls, Over, PCs, Runtimes, None

-----------------------------------------------------------------------------
\* What is known of the pod.

\* p shows at least the movement of the fingerprint f.
Since(f, p) == f[1] <= p.mark /\ (f[2] => p.runtime # "unset")

\* Fingerprints order the answers: the last look, the answer, the pod.
Ordered ==
    /\ pod.moved <= now /\ answer.moved <= now
    /\ prev # NoPrint => Since(prev, pod)
    /\ pc = "answered" =>
          /\ Since(Fingerprint(answer), pod) /\ (answer.gone => pod.gone)
          /\ prev # NoPrint => Since(prev, answer)
    /\ pc = "probe" => pod.runtime # "unset"

\* A fingerprint names one state of the pod.
SameState ==
    pc = "answered" /\ Fingerprint(answer) = Fingerprint(pod)
      => answer.machine = pod.machine /\ answer.moved = pod.moved

\* The timer runs since a look at the pod, when all that is known had moved.
Timed(p) == Fingerprint(p) = prev => p.moved <= since

Timing ==
    since # None =>
      /\ since <= now /\ prev # NoPrint
      /\ Timed(pod)
      /\ pc = "answered" => Timed(answer)

-----------------------------------------------------------------------------
\* The clock.

\* When an await ends at the latest, after the deadline and after its start.
Window ==
    /\ now <= due
    /\ pc = "sleep" => due < Deadline + PollInterval /\ due <= now + PollInterval
    /\ pc \in {"asked", "answered"} =>
          due < Deadline + PollInterval + CallTime /\ due <= now + CallTime
    /\ pc = "probe" => due < Deadline + PollInterval + CallTime + ProbeTime
    /\ pc = "terminating" => due < Deadline + PollInterval + 2 * CallTime
    /\ pc = "deploying" => due < Deadline + CallTime
    /\ pc = "backoff" => due < Deadline + CallTime + PollInterval
    /\ pc \in Over => now < Deadline + PollInterval + CallTime + LastCall

\* A pod the watchdog is for.
Frozen == Template /\ StuckTimeout > 0 /\ pod.machine /\ pod.runtime = "unset" /\ ~pod.gone

\* The timer runs for the state the pod is in.
Counted == since # None /\ Fingerprint(pod) = prev

\* It does not: the last answer missed the movement.
Missed == ~Counted /\ (pc = "answered" => Fingerprint(answer) # Fingerprint(pod))

Round == PollInterval + CallTime

Watching ==
    Frozen =>
      /\ Counted => since <= pod.moved + Round + CallTime
      /\ pc = "sleep" =>
            IF Counted THEN due <= since + StuckTimeout + PollInterval
                       ELSE due <= pod.moved + Round
      /\ pc \in {"asked", "answered"} =>
            IF Counted THEN due <= since + StuckTimeout + Round
                       ELSE due <= pod.moved + Round + CallTime
      /\ pc = "answered" /\ Fingerprint(answer) # Fingerprint(pod)
            => due <= pod.moved + CallTime

IInv == ReadinessTypeOK /\ Ordered /\ SameState /\ Timing /\ Window /\ Watching

-----------------------------------------------------------------------------
\* The constants, where arithmetic needs them.
LEMMA Constants ==
    /\ PollInterval \in Nat /\ PollInterval > 0
    /\ CallTime \in Nat /\ CallTime > 0
    /\ ProbeTime \in Nat /\ ProbeTime > 0
    /\ Deadline \in Nat /\ Deadline > 0
    /\ StuckTimeout \in Nat
    /\ LastCall \in Nat /\ LastCall >= CallTime /\ LastCall >= ProbeTime
BY ReadinessAssumption DEF LastCall

\* What two fingerprints say.
LEMMA Prints ==
    ASSUME NEW p \in PodType, NEW q \in PodType
    PROVE  /\ Since(Fingerprint(p), q) <=>
                 p.mark <= q.mark /\ (p.runtime # "unset" => q.runtime # "unset")
           /\ Fingerprint(p) = Fingerprint(q) <=>
                 p.mark = q.mark /\ (p.runtime # "unset" <=> q.runtime # "unset")
           /\ Fingerprint(p) \in Nat \X BOOLEAN
           /\ Fingerprint(p) # NoPrint
<1>1. p.mark \in Nat /\ q.mark \in Nat
  BY DEF PodType
<1> DEFINE f == Fingerprint(p)
           g == Fingerprint(q)
<1>2. f[1] = p.mark /\ f[2] = (p.runtime # "unset") /\ g[1] = q.mark /\ g[2] = (q.runtime # "unset")
  BY DEF Fingerprint
<1>3. Since(f, q) <=> p.mark <= q.mark /\ (p.runtime # "unset" => q.runtime # "unset")
  BY <1>2, Zenon DEF Since
<1>4. f = g <=> f[1] = g[1] /\ f[2] = g[2]
  BY DEF Fingerprint
<1>5. f \in Nat \X BOOLEAN
  BY <1>1 DEF Fingerprint
<1>6. f # NoPrint
  <2>1. NoPrint[1] = -1
    BY DEF NoPrint
  <2>2. f[1] # -1
    BY <1>1, <1>2
  <2> QED BY <2>1, <2>2, Zenon
<1> QED BY <1>2, <1>3, <1>4, <1>5, <1>6, Zenon

\* The steps that only move the handler on.

\* The state of RunPod and what is known of it are as before.
LEMMA WakeStep == ASSUME IInv, Wake PROVE IInv'
<1> USE DEF IInv, Wake, Suspend
<1>1. ReadinessTypeOK'
  BY Constants DEF ReadinessTypeOK
<1>2. Ordered' /\ SameState' /\ Timing'
  BY DEF Ordered, SameState, Timing, Timed, Since, Fingerprint
<1>3. Window'
  BY Constants DEF ReadinessTypeOK, Window
<1>4. Watching'
  <2>1. now \in Nat /\ due \in Nat /\ pod.moved \in Nat /\ since \in Nat \cup {None}
    BY DEF ReadinessTypeOK, PodType
  <2> QED BY <2>1, Constants DEF Watching, Frozen, Counted, Round, Fingerprint
<1> QED BY <1>1, <1>2, <1>3, <1>4

\* The answer shows the pod as it is.
LEMMA AnsweredStep == ASSUME IInv, Answered PROVE IInv'
<1> USE DEF IInv, Answered
<1>1. ReadinessTypeOK'
  BY DEF ReadinessTypeOK
<1>2. Ordered'
  <2>1. pod \in PodType
    BY DEF ReadinessTypeOK
  <2>2. pod.mark <= pod.mark
    BY <2>1 DEF PodType
  <2>3. Since(Fingerprint(pod), pod)
    BY <2>1, <2>2, Prints
  <2> QED BY <2>3 DEF Ordered, Fingerprint, Since
<1>3. SameState' /\ Timing'
  BY DEF SameState, Timing, Timed, Fingerprint
<1>4. Window'
  BY DEF Window
<1>5. Watching'
  BY DEF Watching, Frozen, Counted, Round, Fingerprint
<1> QED BY <1>1, <1>2, <1>3, <1>4, <1>5

\* A pod that is gone is not watched.
LEMMA NotFoundStep == ASSUME IInv, NotFound PROVE IInv'
<1> USE DEF IInv, NotFound, DeployFromTemplate, Suspend, End
<1>1. ReadinessTypeOK'
  BY Constants DEF ReadinessTypeOK
<1>2. Ordered' /\ SameState' /\ Timing'
  BY DEF Ordered, SameState, Timing, Timed, Since, Fingerprint
<1>3. Window'
  BY Constants DEF ReadinessTypeOK, Window
<1>4. Watching'
  BY DEF Watching, Frozen, Counted, Fingerprint
<1> QED BY <1>1, <1>2, <1>3, <1>4

\* Looks without a probe, and the probe itself, end a round.
LEMMA FiresStep == ASSUME IInv, Fires PROVE IInv'
<1> USE DEF IInv, Fires, Suspend
<1>1. pod \in PodType /\ answer \in PodType /\ now \in Nat /\ due \in Nat
  BY DEF ReadinessTypeOK
<1>2. since \in Nat /\ SinceProgress = since /\ prev = Fingerprint(answer)
  BY DEF Stuck, SinceProgress, ReadinessTypeOK, Ordered, Timing
<1>3. ReadinessTypeOK'
  BY <1>1, <1>2, Constants, Prints DEF ReadinessTypeOK
<1>4. Ordered' /\ SameState' /\ Timing'
  BY <1>2 DEF Ordered, SameState, Timing, Timed, Fingerprint, Since
<1>5. Window'
  BY <1>1, Constants DEF Window
<1>6. Watching'
  BY <1>2 DEF Watching, Frozen, Counted, Fingerprint
<1> QED BY <1>3, <1>4, <1>5, <1>6

\* The timer after a look that did not fire.
LEMMA Armed ==
    ASSUME IInv, Looks
    PROVE  /\ since' = IF ~Watched THEN None
                       ELSE IF since # None /\ prev = Fingerprint(answer) THEN since ELSE now
           /\ since' \in Nat \cup {None}
           /\ Watched /\ StuckTimeout > 0 => now <= since' + StuckTimeout
<1> USE DEF IInv, Looks
<1>1. now \in Nat /\ since \in Nat \cup {None}
  BY DEF ReadinessTypeOK
<1>2. since # None => prev # NoPrint
  BY DEF Timing
<1>3. SinceProgress = IF since # None /\ prev # Fingerprint(answer) THEN None ELSE since
  BY <1>2 DEF SinceProgress
<1>4. since' = IF ~Watched THEN None
              ELSE IF since # None /\ prev = Fingerprint(answer) THEN since ELSE now
  BY <1>3 DEF ArmedSince
<1>5. ~(Watched /\ SinceProgress # None /\ now - SinceProgress > StuckTimeout)
  BY DEF Stuck
<1> QED BY <1>1, <1>3, <1>4, <1>5, Constants

\* A look remembers what it saw and leaves the timer right for it.
LEMMA LooksStep == ASSUME IInv, Looks PROVE IInv'
<1> USE DEF IInv, Looks, Suspend, NextRound, End
<1>1. pod \in PodType /\ answer \in PodType /\ now \in Nat /\ due \in Nat
      /\ since \in Nat \cup {None}
  BY DEF ReadinessTypeOK
<1>2. pod.moved \in Nat /\ answer.moved \in Nat
  BY <1>1 DEF PodType
<1>3. prev' = Fingerprint(answer) /\ Since(prev', pod) /\ prev' # NoPrint
  BY <1>1, Prints DEF Ordered
<1>4. ReadinessTypeOK'
  BY <1>1, Armed, Constants, Prints DEF ReadinessTypeOK
<1>5. Ordered'
  <2>1. answer.runtime = "mapped" => pod.runtime # "unset"
    BY <1>1, <1>3, Prints
  <2> QED BY <1>3, <2>1 DEF Ordered, Fingerprint, Since
<1>6. SameState'
  BY DEF SameState
<1>7. Timing'
  BY <1>1, <1>2, <1>3, Armed DEF Timing, Timed, Ordered, Fingerprint
<1>8. Window'
  BY <1>1, Constants DEF Window
<1>9. Watching'
  <2> SUFFICES ASSUME Frozen' PROVE Watching'
    BY DEF Watching
  <2>1. Frozen /\ pod' = pod
    BY DEF Frozen
  <2>2. CASE Fingerprint(answer) = Fingerprint(pod)
    <3>1. Watched
      BY <1>1, <2>1, <2>2, Prints DEF SameState, Watched, Frozen
    <3>2. Counted'
      BY <1>1, <2>2, <3>1, Armed DEF Counted, Fingerprint
    <3>3. now <= since' + StuckTimeout /\ since' <= pod.moved + Round + CallTime
      BY <1>1, <1>2, <2>1, <2>2, <3>1, Armed, Constants
      DEF Watching, Window, Counted, Round, Frozen
    <3>4. since' \in Nat
      BY <1>1, <3>2, Armed DEF Counted
    <3>5. pc' \in {"sleep", "timeout"} /\ (pc' = "sleep" => due' = now + PollInterval)
      BY <1>1, <2>1, <2>2, Prints DEF Frozen
    <3> QED BY <1>1, <1>2, <3>2, <3>3, <3>4, <3>5, Constants DEF Watching, Round
  <2>3. CASE Fingerprint(answer) # Fingerprint(pod)
    <3>1. ~Counted'
      BY <1>3, <2>3 DEF Counted, Fingerprint
    <3>2. now <= pod.moved + CallTime
      BY <1>1, <1>2, <2>1, <2>3, Constants DEF Watching, Window
    <3> QED BY <1>1, <1>2, <3>1, <3>2, Constants DEF Watching, Round
  <2> QED BY <2>2, <2>3
<1> QED BY <1>4, <1>5, <1>6, <1>7, <1>8, <1>9

\* A probe that finds the wrapper silent begins a round.
LEMMA ProbedStep == ASSUME IInv, Probed PROVE IInv'
<1> USE DEF IInv, Probed, NextRound, Suspend, End
<1>1. ReadinessTypeOK'
  BY Constants DEF ReadinessTypeOK
<1>2. Ordered' /\ SameState' /\ Timing'
  BY DEF Ordered, SameState, Timing, Timed, Since, Fingerprint
<1>3. Window'
  BY Constants DEF ReadinessTypeOK, Window
<1>4. Watching'
  BY DEF Ordered, Watching, Frozen
<1> QED BY <1>1, <1>2, <1>3, <1>4

\* The pod is removed.
LEMMA TerminatedStep == ASSUME IInv, Terminated PROVE IInv'
<1> USE DEF IInv, Terminated, DeployFromTemplate, Suspend, End
<1>1. pod \in PodType /\ now \in Nat
  BY DEF ReadinessTypeOK
<1>2. /\ pod' \in PodType /\ pod'.gone /\ pod'.moved = pod.moved
      /\ pod'.mark = pod.mark /\ pod'.runtime = pod.runtime
  BY <1>1 DEF PodType
<1>3. Fingerprint(pod') = Fingerprint(pod)
  BY <1>2 DEF Fingerprint
<1>4. ReadinessTypeOK'
  BY <1>1, <1>2, Constants DEF ReadinessTypeOK
<1>5. Ordered' /\ SameState' /\ Timing'
  BY <1>2, <1>3 DEF Ordered, SameState, Timing, Timed, Since
<1>6. Window'
  BY Constants DEF ReadinessTypeOK, Window
<1>7. Watching'
  BY <1>2 DEF Watching, Frozen
<1> QED BY <1>4, <1>5, <1>6, <1>7

\* The new pod starts with a timer of its own.
LEMMA DeployedStep == ASSUME IInv, Deployed PROVE IInv'
<1> USE DEF IInv, Deployed, ResetTimer, NextRound, Suspend, End
<1>1. now \in Nat /\ tracked \in Nat /\ due \in Nat
  BY DEF ReadinessTypeOK
<1>2. pod' \in PodType /\ pod'.moved = now
  <2>1. PICK p \in Born(tracked + 1) : pod' = [p EXCEPT !.moved = now]
    OBVIOUS
  <2>2. tracked + 1 \in 1..MaxPods
    BY <1>1, ReadinessAssumption
  <2>3. p \in PodType
    BY <2>2, ReadinessAssumption
  <2> QED BY <1>1, <2>1, <2>3 DEF PodType
<1>3. ReadinessTypeOK'
  BY <1>1, <1>2, Constants DEF ReadinessTypeOK
<1>4. Ordered' /\ SameState' /\ Timing'
  BY <1>1, <1>2 DEF Ordered, SameState, Timing
<1>5. Window'
  BY <1>1, Constants DEF Window
<1>6. Watching'
  BY <1>1, <1>2, Constants DEF Watching, Counted, Round
<1> QED BY <1>3, <1>4, <1>5, <1>6

\* A failed deploy and a failed call leave RunPod and the timer alone.
LEMMA DeployFailsStep == ASSUME IInv, DeployRefused \/ DeployAgain \/ CallFails PROVE IInv'
<1> USE DEF IInv, DeployRefused, DeployAgain, CallFails, DeployFromTemplate, Suspend, End
<1>1. ReadinessTypeOK'
  BY Constants DEF ReadinessTypeOK
<1>2. Ordered' /\ SameState' /\ Timing'
  BY DEF Ordered, SameState, Timing, Timed, Since, Fingerprint
<1>3. Window'
  BY Constants DEF ReadinessTypeOK, Window
<1>4. Watching'
  BY DEF Watching, Frozen, Counted, Fingerprint
<1> QED BY <1>1, <1>2, <1>3, <1>4

-----------------------------------------------------------------------------
\* RunPod and time.

\* A pod that moves gets another fingerprint.
LEMMA MovedStep == ASSUME IInv, Progresses \/ Starts PROVE IInv'
<1> USE DEF IInv, PodChanges
<1>1. /\ pod \in PodType /\ answer \in PodType /\ now \in Nat /\ due \in Nat
      /\ since \in Nat \cup {None}
  BY DEF ReadinessTypeOK
<1>2. /\ pod' \in PodType /\ pod'.moved = now /\ pod'.gone = pod.gone
      /\ pod'.mark >= pod.mark /\ (pod.runtime # "unset" => pod'.runtime # "unset")
      /\ Fingerprint(pod') # Fingerprint(pod)
  <2>1. CASE Progresses
    <3>1. PICK m \in {pod.machine, TRUE} :
             pod' = [pod EXCEPT !.mark = @ + 1, !.machine = m, !.moved = now]
      BY <2>1 DEF Progresses
    <3>2. /\ pod' \in PodType /\ pod'.mark = pod.mark + 1 /\ pod'.runtime = pod.runtime
          /\ pod'.moved = now /\ pod'.gone = pod.gone /\ pod.mark \in Nat
      <4>1. m \in BOOLEAN /\ pod.mark \in Nat
        BY <1>1 DEF PodType
      <4>2. pod' \in PodType
        <5>1. pod.mark + 1 \in Nat
          BY <4>1
        <5> QED BY <1>1, <3>1, <4>1, <5>1, Zenon DEF PodType
      <4> QED BY <1>1, <3>1, <4>1, <4>2 DEF PodType
    <3> QED BY <1>1, <3>2, Prints
  <2>2. CASE Starts
    <3>1. /\ pod' \in PodType /\ pod'.mark = pod.mark /\ pod'.runtime = "up"
          /\ pod'.moved = now /\ pod'.gone = pod.gone /\ pod.mark \in Nat
      BY <1>1, <2>2 DEF PodType, Starts
    <3>2. pod.runtime = "unset"
      BY <2>2 DEF Starts
    <3>3. Fingerprint(pod') # Fingerprint(pod)
      BY <1>1, <3>1, <3>2, Prints
    <3> QED BY <3>1, <3>2, <3>3
  <2> QED BY <2>1, <2>2
<1>3. UNCHANGED <<now, pc, due, tracked, answer, since, prev>> /\ pc \notin Over
  BY DEF Progresses, Starts
<1>4. ASSUME NEW f \in Nat \X BOOLEAN, Since(f, pod)
      PROVE  Since(f, pod') /\ f # Fingerprint(pod')
  <2>1. f[1] \in Nat /\ pod.mark \in Nat /\ pod'.mark \in Nat
    BY <1>1, <1>2 DEF PodType
  <2>2. f[1] <= pod.mark /\ (f[2] => pod.runtime # "unset")
    BY <1>4, Zenon DEF Since
  <2>3. f[1] <= pod'.mark
    BY <1>2, <2>1, <2>2
  <2>4. Since(f, pod')
    BY <1>2, <2>2, <2>3, Zenon DEF Since
  <2>5. ~Since(Fingerprint(pod'), pod)
    BY <1>1, <1>2, <2>1, Prints
  <2> QED BY <1>4, <2>4, <2>5
<1>5. ReadinessTypeOK'
  BY <1>2, <1>3 DEF ReadinessTypeOK
<1>6. prev # NoPrint => prev \in Nat \X BOOLEAN
  BY DEF ReadinessTypeOK
<1>7. Ordered'
  BY <1>1, <1>2, <1>3, <1>4, <1>6, Prints DEF Ordered
<1>8. SameState' /\ Timing'
  <2>1. pc = "answered" => Fingerprint(answer) # Fingerprint(pod')
    BY <1>1, <1>4, Prints DEF Ordered
  <2>2. since # None => prev # Fingerprint(pod')
    BY <1>4, <1>6 DEF Ordered, Timing
  <2> QED BY <1>3, <2>1, <2>2 DEF SameState, Timing, Timed
<1>9. Window'
  BY <1>3 DEF Window
<1>10. Watching'
  <2>1. ~Counted'
    BY <1>3, <1>4, <1>6 DEF Counted, Ordered, Timing
  <2> QED BY <1>1, <1>2, <1>3, <2>1, Constants DEF Watching, Window, Round
<1> QED BY <1>5, <1>7, <1>8, <1>9, <1>10

\* What changes else of a pod is not in its fingerprint.
LEMMA QuietStep == ASSUME IInv, Exposes \/ WrapperUp \/ Lost PROVE IInv'
<1> USE DEF IInv, PodChanges, Exposes, WrapperUp, Lost
<1>1. UNCHANGED <<now, pc, due, tracked, answer, since, prev>>
  OBVIOUS
<1>2. /\ pod' \in PodType /\ pod'.mark = pod.mark /\ pod'.moved = pod.moved
      /\ pod'.machine = pod.machine /\ (pod'.runtime # "unset" <=> pod.runtime # "unset")
      /\ pod.gone => pod'.gone
  BY DEF ReadinessTypeOK, PodType
<1>3. Fingerprint(pod') = Fingerprint(pod)
  BY <1>2 DEF Fingerprint
<1>4. ReadinessTypeOK'
  BY <1>1, <1>2 DEF ReadinessTypeOK
<1>5. Ordered'
  BY <1>1, <1>2 DEF Ordered, Since
<1>6. SameState' /\ Timing'
  BY <1>1, <1>2, <1>3 DEF SameState, Timing, Timed
<1>7. Window'
  BY <1>1 DEF Window
<1>8. Watching'
  BY <1>1, <1>2, <1>3 DEF Watching, Frozen, Counted
<1> QED BY <1>4, <1>5, <1>6, <1>7, <1>8

\* Time stops at the end of the await.
LEMMA TickStep == ASSUME IInv, Tick PROVE IInv'
<1> USE DEF IInv, Tick
<1>1. now \in Nat /\ due \in Nat /\ pod.moved \in Nat /\ answer.moved \in Nat
      /\ since \in Nat \cup {None}
  BY DEF ReadinessTypeOK, PodType
<1>2. ReadinessTypeOK'
  BY <1>1 DEF ReadinessTypeOK
<1>3. Ordered' /\ SameState'
  BY <1>1 DEF Ordered, SameState, Since, Fingerprint
<1>4. Timing'
  BY <1>1 DEF Timing, Timed, Fingerprint
<1>5. Window'
  BY <1>1, Constants DEF Window
<1>6. Watching'
  BY DEF Watching, Frozen, Counted, Fingerprint
<1> QED BY <1>2, <1>3, <1>4, <1>5, <1>6

-----------------------------------------------------------------------------
\* The theorems.

\* The invariant holds at the start.
LEMMA InitInv == Init => IInv
<1> SUFFICES ASSUME Init PROVE IInv
  OBVIOUS
<1>1. pod \in PodType /\ pod.moved = 0 /\ answer = pod
  BY ReadinessAssumption DEF Init
<1>2. ReadinessTypeOK
  BY <1>1, Constants DEF Init, ReadinessTypeOK
<1>3. Ordered /\ SameState /\ Timing /\ Window
  BY <1>1, Constants DEF Init, Ordered, SameState, Timing, Window
<1>4. Watching
  BY <1>1, Constants DEF Init, Watching, Counted, Round
<1> QED BY <1>2, <1>3, <1>4 DEF IInv

\* Every step keeps it.
LEMMA NextInv == IInv /\ [Next]_vars => IInv'
<1> SUFFICES ASSUME IInv, [Next]_vars PROVE IInv'
  OBVIOUS
<1>1. CASE UNCHANGED vars
  BY <1>1 DEF vars, IInv, ReadinessTypeOK, Ordered, SameState, Timing, Timed, Since,
              Window, Watching, Frozen, Counted, Fingerprint
<1>2. CASE HandlerStep
  BY <1>2, WakeStep, AnsweredStep, NotFoundStep, FiresStep, LooksStep, ProbedStep,
     TerminatedStep, DeployedStep, DeployFailsStep DEF HandlerStep
<1>3. CASE RunPodStep \/ Tick
  BY <1>3, MovedStep, QuietStep, TickStep DEF RunPodStep
<1> QED BY <1>1, <1>2, <1>3 DEF Next, Finished

\* The invariant always holds.
LEMMA Invariant == Spec => []IInv
BY InitInv, NextInv, PTL DEF Spec

\* Every variable of the wait keeps to its type.
THEOREM TypeCorrect == Spec => []ReadinessTypeOK
<1>1. IInv => ReadinessTypeOK
  BY DEF IInv
<1> QED BY <1>1, Invariant, PTL

\* A request is answered by the deadline, but for the round that has begun.
THEOREM InTime == Spec => []AnsweredInTime
<1>1. IInv => AnsweredInTime
  <2> SUFFICES ASSUME IInv PROVE AnsweredInTime
    OBVIOUS
  <2> QED BY Constants DEF IInv, ReadinessTypeOK, Window, AnsweredInTime
<1> QED BY <1>1, Invariant, PTL

\* A stuck pod is replaced in time.
THEOREM StuckInTime == Spec => []StuckPodReplaced
<1>1. IInv => StuckPodReplaced
  <2> SUFFICES ASSUME IInv, Frozen, pc \in {"sleep", "asked", "answered"}
               PROVE  now - pod.moved <= StuckTimeout + 2 * PollInterval + 3 * CallTime
    BY DEF StuckPodReplaced, Frozen
  <2>1. now \in Nat /\ due \in Nat /\ pod.moved \in Nat /\ since \in Nat \cup {None}
    BY DEF IInv, ReadinessTypeOK, PodType
  <2>2. now <= due /\ Round \in Nat /\ Round = PollInterval + CallTime
    BY Constants DEF IInv, Window, Round
  <2>3. CASE Counted
    BY <2>1, <2>2, <2>3, Constants DEF IInv, Watching, Counted
  <2>4. CASE ~Counted
    BY <2>1, <2>2, <2>4, Constants DEF IInv, Watching
  <2> QED BY <2>3, <2>4
<1> QED BY <1>1, Invariant, PTL

\* The watchdog replaces only a pod that stood still for the whole threshold.
THEOREM OnlyFrozen == Spec => ReplacedOnlyWhenFrozen
<1>1. ASSUME IInv, Next, pc = "answered", pc' = "terminating"
      PROVE  /\ answer.machine /\ answer.runtime = "unset"
             /\ now - answer.moved > StuckTimeout
  <2>1. Fires
    BY <1>1 DEF Next, HandlerStep, RunPodStep, Wake, Answered, NotFound, Looks, Probed,
       Terminated, Deployed, DeployRefused, DeployAgain, CallFails, Progresses, Starts,
       Exposes, WrapperUp, Lost, PodChanges, Tick, Finished, DeployFromTemplate, NextRound,
       Suspend, End
  <2>2. since \in Nat /\ prev = Fingerprint(answer) /\ now - since > StuckTimeout
    BY <1>1, <2>1 DEF Fires, Stuck, SinceProgress, IInv, ReadinessTypeOK, Timing
  <2>3. answer.moved <= since /\ answer.moved \in Nat /\ now \in Nat
    BY <1>1, <2>2 DEF IInv, ReadinessTypeOK, PodType, Timing, Timed
  <2> QED BY <2>1, <2>2, <2>3, Constants DEF Fires, Stuck, Watched
<1>2. IInv /\ [Next]_vars =>
        [pc = "answered" /\ pc' = "terminating"
           => /\ answer.machine /\ answer.runtime = "unset"
              /\ now - answer.moved > StuckTimeout]_vars
  BY <1>1
<1> QED BY <1>2, Invariant, PTL DEF Spec, ReplacedOnlyWhenFrozen

-----------------------------------------------------------------------------
\* The wait implements its contract.

\* What each place of the handler is to the contract.
LEMMA Phases ==
    /\ pc \in {"sleep", "asked", "answered", "probe"} => Phase = "watching"
    /\ pc = "terminating" => Phase = "removing"
    /\ pc \in {"deploying", "backoff"} => Phase = "deploying"
    /\ pc \in Over => Phase = "over"
    /\ pc' \in {"sleep", "asked", "answered", "probe"} => Phase' = "watching"
    /\ pc' = "terminating" => Phase' = "removing"
    /\ pc' \in {"deploying", "backoff"} => Phase' = "deploying"
    /\ pc' \in Over => Phase' = "over"
BY DEF Phase

\* The variables of the contract, in the words of this module.
Known == <<Phase, tracked, since # None, pod.gone, now >= Deadline>>

\* The end of the wait.
LEMMA Gives ==
    ASSUME Phase # "over", pc' \in Over, UNCHANGED <<tracked, now>>,
           pod'.gone = pod.gone \/ pod'.gone
    PROVE  Contract!Next
BY Phases DEF Contract!Next, Contract!Give

\* Every step of the handler is one of the contract, or none.
LEMMA HandlerContract ==
    ASSUME IInv, HandlerStep PROVE Contract!Next \/ UNCHANGED Known
<1> USE DEF Suspend, End, NextRound, DeployFromTemplate
<1>1. now' = now
  BY DEF HandlerStep, Wake, Answered, NotFound, Fires, Looks, Probed, Terminated,
         Deployed, DeployRefused, DeployAgain, CallFails
<1>2. CASE Wake \/ Answered \/ DeployRefused
  BY <1>2, Phases DEF Wake, Answered, DeployRefused, Known
<1>3. CASE NotFound
  <2>1. pod.gone /\ UNCHANGED <<tracked, pod, since, now>> /\ pc = "answered"
    BY <1>3 DEF NotFound, IInv, Ordered
  <2>2. pc' \in Over \/ (pc' = "deploying" /\ ~(now >= Deadline))
    BY <1>3, Constants DEF NotFound, IInv, ReadinessTypeOK
  <2> QED BY <2>1, <2>2, Phases, Gives DEF Contract!Next, Contract!Redeploy
<1>4. CASE Fires
  <2>1. since # None /\ UNCHANGED <<tracked, pod, since, now>>
    BY <1>4 DEF Fires, Stuck, SinceProgress
  <2> QED BY <1>4, <2>1, Phases DEF Fires, Contract!Next, Contract!Remove
<1>5. CASE Looks
  <2>1. UNCHANGED <<tracked, pod, now>> /\ pc = "answered"
    BY <1>5 DEF Looks
  <2>2. pc' \in Over \/ pc' \in {"sleep", "probe"}
    BY <1>5 DEF Looks
  <2> QED BY <2>1, <2>2, Phases, Gives DEF Contract!Next, Contract!Look
<1>6. CASE Probed
  <2>1. UNCHANGED <<tracked, pod, now, since>> /\ pc = "probe"
    BY <1>6 DEF Probed
  <2>2. pc' \in Over \/ pc' = "sleep"
    BY <1>6 DEF Probed
  <2> QED BY <2>1, <2>2, Phases, Gives DEF Known
<1>7. CASE Terminated
  <2>1. UNCHANGED <<tracked, now, since>> /\ pc = "terminating" /\ pod'.gone
    BY <1>7 DEF Terminated, IInv, ReadinessTypeOK, PodType
  <2>2. pc' \in Over \/ (pc' = "deploying" /\ ~(now >= Deadline))
    BY <1>7, Constants DEF Terminated, IInv, ReadinessTypeOK
  <2> QED BY <2>1, <2>2, Phases, Gives DEF Contract!Next, Contract!Redeploy
<1>8. CASE Deployed
  <2>1. /\ tracked' = tracked + 1 /\ ~(since' # None) /\ now' = now
        /\ pc = "deploying"
    BY <1>8 DEF Deployed, ResetTimer
  <2>2. IF now >= Deadline THEN pc' = "timeout" ELSE pc' = "sleep"
    BY <1>8, Constants DEF Deployed, IInv, ReadinessTypeOK
  <2>3. pod'.gone \in BOOLEAN
    BY <1>8, DeployedStep DEF IInv, ReadinessTypeOK, PodType
  <2> QED BY <2>1, <2>2, <2>3, Phases DEF Contract!Next, Contract!Deploy
<1>9. CASE DeployAgain
  <2>1. UNCHANGED <<tracked, pod, now, since>> /\ pc = "backoff"
    BY <1>9 DEF DeployAgain
  <2>2. pc' \in Over \/ pc' = "deploying"
    BY <1>9 DEF DeployAgain
  <2> QED BY <2>1, <2>2, Phases, Gives DEF Known
<1>10. CASE CallFails
  BY <1>10, Phases, Gives DEF CallFails
<1> QED BY <1>2, <1>3, <1>4, <1>5, <1>6, <1>7, <1>8, <1>9, <1>10 DEF HandlerStep

\* So is what RunPod does, and the passing of the deadline.
LEMMA OutsideContract ==
    ASSUME IInv, RunPodStep \/ Tick PROVE Contract!Next \/ UNCHANGED Known
<1>1. CASE RunPodStep
  <2>1. UNCHANGED <<now, pc, tracked, since>> /\ pc \notin Over
    BY <1>1 DEF RunPodStep, Progresses, Starts, Exposes, WrapperUp, Lost, PodChanges
  <2>2. pod'.gone = pod.gone \/ pod'.gone
    BY <1>1 DEF RunPodStep, Progresses, Starts, Exposes, WrapperUp, Lost, PodChanges,
                IInv, ReadinessTypeOK, PodType
  <2>3. Phase' = Phase /\ Phase # "over"
    BY <2>1, Phases DEF IInv, ReadinessTypeOK, Phase
  <2> QED BY <2>1, <2>2, <2>3 DEF Contract!Next, Contract!PodLost, Known
<1>2. CASE Tick
  <2>1. UNCHANGED <<pc, tracked, pod, since>> /\ pc \notin Over
    BY <1>2 DEF Tick
  <2>2. Phase' = Phase /\ Phase # "over"
    BY <2>1, Phases DEF IInv, ReadinessTypeOK, Phase
  <2>3. now >= Deadline => now' >= Deadline
    BY <1>2, Constants DEF Tick, IInv, ReadinessTypeOK
  <2> QED BY <2>1, <2>2, <2>3 DEF Contract!Next, Contract!DeadlinePasses, Known
<1> QED BY <1>1, <1>2

\* The timed wait implements what the adapter's model assumes of it: it
\* replaces a pod only when it is gone or timed, every pod gets a timer of its
\* own, and no deploy begins late.
THEOREM WaitImplements == Spec => WaitContractKept
<1>1. Init => Contract!Init
  <2> SUFFICES ASSUME Init PROVE Contract!Init
    OBVIOUS
  <2>1. Phase = "watching"
    BY Phases DEF Init
  <2>2. pod.gone \in BOOLEAN
    BY ReadinessAssumption DEF Init, PodType
  <2> QED BY <2>1, <2>2, Constants DEF Init, Contract!Init
<1>2. IInv /\ [Next]_vars => [Contract!Next]_(Contract!vars)
  <2> SUFFICES ASSUME IInv, [Next]_vars PROVE Contract!Next \/ UNCHANGED Known
    BY DEF Known, Contract!vars
  <2>1. CASE UNCHANGED vars
    BY <2>1 DEF vars, Known, Phase
  <2> QED BY <2>1, HandlerContract, OutsideContract DEF Next, Finished
<1> QED BY <1>1, <1>2, Invariant, PTL DEF Spec, WaitContractKept, Contract!Spec

=============================================================================
