----------------------------- MODULE MCAdapter ------------------------------
(***************************************************************************)
(* Small instances of the adapter for TLC.                                 *)
(***************************************************************************)
EXTENDS AdapterProperties, TLC

CONSTANTS a1, a2, r1, r2, p1, p2, p3

\* All requests go to the one adapter.
OneHome == [r \in Requests |-> a1]

\* One request for each of two adapters.
TwoHomes == [r \in Requests |-> IF r = r1 THEN a1 ELSE a2]

PodSymmetry == Permutations(Pods)

=============================================================================
