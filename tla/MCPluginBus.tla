------------------------------ MODULE MCPluginBus ------------------------------
\* Instances of PluginBus for TLC; the constants are in the configurations.
EXTENDS PluginBus, TLC

\* Requests are interchangeable.
Symmetry == Permutations(Requests)
================================================================================
