----------------------------- MODULE MCFrameSource -----------------------------
(* The instances of FrameSource that TLC checks: a camera with two configs and *)
(* two workers for one reconnect slot, so that the readers of the camera       *)
(* contend for it and every outcome of start() occurs.                         *)
EXTENDS FrameSource
================================================================================
