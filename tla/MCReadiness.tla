---------------------------- MODULE MCReadiness -----------------------------
(***************************************************************************)
(* Small instances of the wait for TLC.                                    *)
(***************************************************************************)
EXTENDS ReadinessProperties, MockRunPod

\* The pods of the mock, and those of RunPod: one that waits for a machine, and
\* as the first one a pod that was there before.
AnyPod(k) ==
    MockPod(k) \cup {[InitializingPod EXCEPT !.machine = FALSE]}
      \cup (IF k = 1 THEN {[InitializingPod EXCEPT !.runtime = "up"], RunningPod} ELSE {})

=============================================================================
