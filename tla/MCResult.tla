------------------------------ MODULE MCResult ------------------------------
(***************************************************************************)
(* Small instances of the transfer of results for TLC.                     *)
(***************************************************************************)
EXTENDS ResultProperties

CONSTANTS t1, t2, t3

\* Three chunks, the last of them partial.
ThreeChunks == [t \in Transfers |-> 5]

\* Results of different lengths, the last one of two chunks.
Mixed == [t \in Transfers |-> CASE t = t1 -> 2 [] t = t2 -> 1 [] t = t3 -> 3]

=============================================================================
