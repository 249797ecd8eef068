----------------------------- MODULE WorkerRegistry -----------------------------
(***************************************************************************)
(* What frame_source.py gives its callers: each camera has one worker or   *)
(* none, a worker keeps the config it was started with until it is         *)
(* stopped, and a start() with another config gets nowhere: from then on   *)
(* no worker is started or stopped.  FrameSource implements it, and        *)
(* AiSupervisor, which takes a start() or stop() for one step, asks no     *)
(* more of it.                                                             *)
(***************************************************************************)
CONSTANTS Cameras, Configs, None

VARIABLES
    fleet, \* the config of each camera's worker, or None
    hung   \* a start() waits for the lock it holds

vars == <<fleet, hung>>

Init == fleet = [c \in Cameras |-> None] /\ hung = FALSE

Start(c, g) ==
    /\ ~hung /\ fleet[c] = None
    /\ fleet' = [fleet EXCEPT ![c] = g]
    /\ UNCHANGED hung

Stop(c) ==
    /\ ~hung /\ fleet[c] # None
    /\ fleet' = [fleet EXCEPT ![c] = None]
    /\ UNCHANGED hung

\* The config differs from that of the worker.
Hang(c, g) ==
    /\ ~hung /\ fleet[c] \notin {None, g}
    /\ hung' = TRUE
    /\ UNCHANGED fleet

Next == \E c \in Cameras : Stop(c) \/ \E g \in Configs : Start(c, g) \/ Hang(c, g)

Safe == Init /\ [][Next]_vars
================================================================================
