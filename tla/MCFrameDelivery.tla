---------------------------- MODULE MCFrameDelivery ----------------------------
\* Instances of FrameDelivery for TLC; the bounds are in the configurations.
EXTENDS FrameDelivery
================================================================================
