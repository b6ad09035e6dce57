------------------------------ MODULE MCPodLogs -----------------------------
(***************************************************************************)
(* A small instance of the program, its tee and a drain for TLC.           *)
(***************************************************************************)
EXTENDS PodLogs

\* One stream can fill its pipe, the other only half of it.
OneLong == <<1, 2>>

=============================================================================
