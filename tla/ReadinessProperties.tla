------------------------ MODULE ReadinessProperties -------------------------
(***************************************************************************)
(* What must hold of the wait for a pod, stated about module Readiness.    *)
(***************************************************************************)
EXTENDS Readiness

\* Every variable has its type.
ReadinessTypeOK ==
    /\ {now, due} \subseteq Nat
    /\ pc \in PCs
    /\ tracked \in Nat
    /\ {pod, answer} \subseteq PodType
    /\ since \in Nat \cup {None}
    /\ prev \in (Nat \X BOOLEAN) \cup {NoPrint}

\* The watchdog replaces a pod only if, as far as RunPod had reported when it
\* was asked, that very pod had a machine and no runtime, and nothing about it
\* had moved for more than RUNPOD_STUCK_INIT_TIMEOUT_SECONDS: the time an
\* earlier pod was stuck does not count, nor the time before a movement, nor
\* the threshold itself.
ReplacedOnlyWhenFrozen ==
    [][ pc = "answered" /\ pc' = "terminating"
          => /\ answer.machine /\ answer.runtime = "unset"
             /\ now - answer.moved > StuckTimeout ]_vars

\* A pod that is stuck is replaced in time: while it is waited for it has not
\* stood still for longer than the threshold, two rounds and the answer that
\* missed its last movement.  No answer that changes nothing puts it off.
StuckPodReplaced ==
    /\ Template /\ StuckTimeout > 0
    /\ pc \in {"sleep", "asked", "answered"}
    /\ pod.machine /\ pod.runtime = "unset" /\ ~pod.gone
    => now - pod.moved <= StuckTimeout + 2 * PollInterval + 3 * CallTime

\* The request is answered by the readiness deadline, but for the round that
\* has begun: a sleep, a call, and a probe or the call that removes the pod.
LastCall == IF ProbeTime > CallTime THEN ProbeTime ELSE CallTime

AnsweredInTime == now < Deadline + PollInterval + CallTime + LastCall

\* The wait implements the contract the untimed model of the adapter builds on.
Phase ==
    CASE pc \in {"sleep", "asked", "answered", "probe"} -> "watching"
      [] pc = "terminating" -> "removing"
      [] pc \in {"deploying", "backoff"} -> "deploying"
      [] pc \in Over -> "over"

Contract == INSTANCE WaitContract WITH
    phase <- Phase,
    armed <- since # None,
    gone  <- pod.gone,
    late  <- now >= Deadline

WaitContractKept == Contract!Spec

=============================================================================
