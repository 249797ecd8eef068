---------------------------- MODULE MCIdentityMerge ----------------------------
\* Instances of IdentityMerge for TLC; the constants are in the configuration.
EXTENDS IdentityMerge, TLC

\* The model values of each of the three sets are interchangeable.
Symmetry == Permutations(Plates) \cup Permutations(Requests) \cup Permutations(Batches)
================================================================================
