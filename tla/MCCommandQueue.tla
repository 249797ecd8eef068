----------------------------- MODULE MCCommandQueue -----------------------------
(***************************************************************************)
(* Instances of CommandQueue for TLC; the sets are in the configurations.  *)
(* The number of calls of a behaviour is bounded.                          *)
(***************************************************************************)
EXTENDS CommandQueue, FiniteSets

CONSTANTS MaxCalls, \* calls in a behaviour
          First     \* the PUT that is sent before the others: they are all alike

Begun == {c \in Calls : pc[c] # "idle"}

MCNext == /\ Next
          /\ Cardinality(Begun') <= MaxCalls
          /\ Begun' \cap Puts # {} => First \in Begun'

MCSpec == Init /\ [][MCNext]_vars /\ Fairness
================================================================================
