----------------------------- MODULE MCCameraTasks -----------------------------
\* Instances of CameraTasks for TLC; the constants are in the configurations.
EXTENDS CameraTasks
================================================================================
