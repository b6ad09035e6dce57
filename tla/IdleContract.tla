---------------------------- MODULE IdleContract ----------------------------
(***************************************************************************)
(* What the idle release promises, without tasks, timers or RunPod: at     *)
(* each adapter a release begins only when no request is being served, and *)
(* a request that starts revokes a release that has begun.                 *)
(***************************************************************************)
EXTENDS FiniteSets

CONSTANTS Adapters, Requests

VARIABLES
    serving,    \* serving[a]: the requests adapter a is working on
    releasing   \* releasing[a]: adapter a is giving its pod back

contractVars == <<serving, releasing>>

Init ==
    /\ serving = [a \in Adapters |-> {}]
    /\ releasing = [a \in Adapters |-> FALSE]

Start(a, r) ==
    /\ serving' = [serving EXCEPT ![a] = @ \cup {r}]
    /\ releasing' = [releasing EXCEPT ![a] = FALSE]

\* An answer revokes too: quiet is counted from the last request's end.
Finish(a, r) ==
    /\ r \in serving[a]
    /\ serving' = [serving EXCEPT ![a] = @ \ {r}]
    /\ releasing' = [releasing EXCEPT ![a] = FALSE]

Begin(a) ==
    /\ serving[a] = {}
    /\ releasing' = [releasing EXCEPT ![a] = TRUE]
    /\ UNCHANGED serving

\* Released, given up, or the request that came was refused outright.
End(a) ==
    /\ releasing[a]
    /\ releasing' = [releasing EXCEPT ![a] = FALSE]
    /\ UNCHANGED serving

\* The adapter restarts.
Restart(a) ==
    /\ serving' = [serving EXCEPT ![a] = {}]
    /\ releasing' = [releasing EXCEPT ![a] = FALSE]

Next ==
    \E a \in Adapters :
       \/ \E r \in Requests : Start(a, r) \/ Finish(a, r)
       \/ Begin(a) \/ End(a) \/ Restart(a)

Spec == Init /\ [][Next]_contractVars

=============================================================================
