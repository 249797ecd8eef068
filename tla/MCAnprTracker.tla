----------------------------- MODULE MCAnprTracker -----------------------------
\* Instances of AnprTracker for TLC; the constants are in the configurations.
EXTENDS AnprTracker, TLC

\* Numbered vehicles are interchangeable, and so are the texts (safety only).
Symmetry == Permutations(Tracks) \cup Permutations(Texts)
================================================================================
