----------------------------- MODULE CommandOutcome -----------------------------
(***************************************************************************)
(* What send_pipeline_command() promises of each command, whichever of the *)
(* two sides carries it out: the pipeline, or the caller that falls back   *)
(* to a direct call.  CommandQueue implements it.                          *)
(***************************************************************************)
EXTENDS Naturals

CONSTANTS Calls

Sides == {"pipeline", "caller"}

VARIABLES
    outcome, \* of each call: new, open, failed, or the side whose result it returned
    runs     \* how often each side has carried it out

vars == <<outcome, runs>>

Open == {c \in Calls : outcome[c] = "open"}

Ask(c) ==
    /\ outcome[c] = "new"
    /\ \E o \in {"open", "failed"} : outcome' = [outcome EXCEPT ![c] = o]
    /\ UNCHANGED runs

\* Each side carries a command out once at most, the caller as long as its call is
\* open, the pipeline at any time.
Run(c, s) ==
    /\ outcome[c] # "new" /\ (s = "caller" => outcome[c] = "open")
    /\ runs[c][s] = 0
    /\ runs' = [runs EXCEPT ![c][s] = 1]
    /\ UNCHANGED outcome

\* What a call returns was done for it: by the pipeline alone, or by the caller.
Return(c, s) ==
    /\ outcome[c] = "open"
    /\ runs[c][s] = 1 /\ (s = "pipeline" => runs[c]["caller"] = 0)
    /\ outcome' = [outcome EXCEPT ![c] = s]
    /\ UNCHANGED runs

\* Calls that raise, or whose process ends.
Fail(cs) ==
    /\ cs # {}
    /\ outcome' = [c \in Calls |-> IF c \in cs THEN "failed" ELSE outcome[c]]
    /\ UNCHANGED runs

Init == /\ outcome = [c \in Calls |-> "new"]
        /\ runs = [c \in Calls |-> [s \in Sides |-> 0]]

Next == \/ \E c \in Calls : Ask(c)
        \/ \E c \in Calls, s \in Sides : Run(c, s) \/ Return(c, s)
        \/ \E cs \in SUBSET Open : Fail(cs)

Safe == Init /\ [][Next]_vars

\* No call stays open, whatever becomes of the other side.
Spec == Safe /\ \A c \in Calls : c \in Open ~> c \notin Open
================================================================================
