------------------------------- MODULE FrameFeed -------------------------------
(***************************************************************************)
(* What the delivery of frames promises the analysis loops of a camera: at *)
(* any time at most one frame is on offer, a loop takes only the frame on  *)
(* offer, and as long as it is the camera's it does not leave a new one    *)
(* untaken for ever.  FrameDelivery implements it.                         *)
(***************************************************************************)
CONSTANTS Frames, NoFrame, LoopIds

VARIABLES offered, \* the latest frame of the camera, NoFrame if none or too old
          last,    \* the last frame each loop took for analysis
          owner    \* the set of the loop that is the camera's, or empty

vars == <<offered, last, owner>>

Init == offered = NoFrame /\ last = [l \in LoopIds |-> NoFrame] /\ owner = {}

Offer(f) == f # offered /\ offered' = f /\ UNCHANGED <<last, owner>>
Withdraw == offered # NoFrame /\ offered' = NoFrame /\ UNCHANGED <<last, owner>>

\* A loop that is not the camera's any more may still take a frame.
Take(l) ==
    /\ offered # NoFrame
    /\ last' = [last EXCEPT ![l] = offered]
    /\ UNCHANGED <<offered, owner>>

\* A loop comes with nothing taken, and only when the one before was told to go.
Join(l) ==
    /\ owner = {} /\ last[l] = NoFrame
    /\ owner' = {l}
    /\ UNCHANGED <<offered, last>>
Leave == owner # {} /\ owner' = {} /\ UNCHANGED <<offered, last>>

Next == \/ \E f \in Frames : Offer(f)
        \/ Withdraw \/ Leave
        \/ \E l \in LoopIds : Take(l) \/ Join(l)

\* A frame is known to be new by its serial number alone.
Untaken(l) == l \in owner /\ offered # NoFrame /\ offered.seq # last[l].seq

Safe == Init /\ [][Next]_vars
Live == \A l \in LoopIds : []<>~Untaken(l)
Spec == Safe /\ Live
================================================================================
