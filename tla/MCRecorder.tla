------------------------------ MODULE MCRecorder ------------------------------
(***************************************************************************)
(* An instance of Recorder for TLC; the constants are in the               *)
(* configuration.  In a behaviour the loop has either requests or purges   *)
(* beside it, not both: together they are out of TLC's reach.              *)
(***************************************************************************)
EXTENDS Recorder

VARIABLE beside \* what works beside the loop

MCInit == Init /\ beside \in {"requests", "purges"}

MCNext ==
    /\ Next
    /\ beside = "requests" => \A p \in Purges : purge'[p] = NoPurge
    /\ beside = "purges" => \A r \in Requests : index'[r] = Idle
    /\ UNCHANGED beside

MCSpec == MCInit /\ [][MCNext]_<<vars, beside>> /\ Fairness
================================================================================
