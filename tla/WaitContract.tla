---------------------------- MODULE WaitContract ----------------------------
(***************************************************************************)
(* What _wait_until_ready promises when nobody looks at the clock: this is *)
(* how module RunPodManager has it (Poll, Terminated, Deployed).  The pod  *)
(* is replaced when it is gone, or when a look at this very pod had armed  *)
(* the watchdog, which starts anew with every pod; once it is late no      *)
(* deploy begins, and the one under way is the last step.                  *)
(***************************************************************************)
EXTENDS Integers

VARIABLES
    phase,     \* watching the pod, removing it, deploying another, or over
    tracked,   \* how many pods there have been
    armed,     \* a look at the pod armed the watchdog
    gone,      \* the pod does not exist any more
    late       \* the readiness deadline has passed

vars == <<phase, tracked, armed, gone, late>>

Init == phase = "watching" /\ tracked = 1 /\ ~armed /\ gone \in BOOLEAN /\ ~late

Look ==
    /\ phase = "watching"
    /\ armed' \in BOOLEAN
    /\ UNCHANGED <<phase, tracked, gone, late>>

Remove ==
    /\ phase = "watching" /\ armed
    /\ phase' = "removing"
    /\ UNCHANGED <<tracked, armed, gone, late>>

\* From here on only Deploy leads back.
Redeploy ==
    /\ \/ phase = "watching" /\ gone /\ UNCHANGED gone
       \/ phase = "removing" /\ gone'
    /\ ~late
    /\ phase' = "deploying"
    /\ UNCHANGED <<tracked, armed, late>>

\* The watchdog starts anew with the pod.
Deploy ==
    /\ phase = "deploying"
    /\ tracked' = tracked + 1
    /\ ~armed'
    /\ phase' = IF late THEN "over" ELSE "watching"
    /\ gone' \in BOOLEAN
    /\ UNCHANGED late

Give ==
    /\ phase # "over"
    /\ phase' = "over"
    /\ gone' \in {gone, TRUE}
    /\ armed' \in BOOLEAN
    /\ UNCHANGED <<tracked, late>>

PodLost == phase # "over" /\ gone' /\ UNCHANGED <<phase, tracked, armed, late>>

DeadlinePasses == phase # "over" /\ late' /\ UNCHANGED <<phase, tracked, armed, gone>>

Next == Look \/ Remove \/ Redeploy \/ Deploy \/ Give \/ PodLost \/ DeadlinePasses

Spec == Init /\ [][Next]_vars

=============================================================================
