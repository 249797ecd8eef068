----------------------------- MODULE MCAiSupervisor -----------------------------
\* An instance of AiSupervisor for TLC; the constants are in the configuration.
EXTENDS AiSupervisor

\* One of the cameras is analysed at the start, with one of the configurations, and
\* the other cameras are off.  The first edits make the other fleets.
First == CHOOSE c \in Cameras : TRUE
Usual == CHOOSE g \in Configs : TRUE
MCInit == Init /\ camera = [c \in Cameras |-> IF c = First THEN Usual ELSE "off"]

MCSpec == MCInit /\ [][Next]_vars /\ Fairness
================================================================================
