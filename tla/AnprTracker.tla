------------------------------ MODULE AnprTracker ------------------------------
(***************************************************************************)
(* The plate accumulator of one camera (anpr_tracker.py) and the end of an *)
(* analysis cycle that feeds it (CameraWorker in pipeline_v2): the plates  *)
(* read in a cycle are recorded, then the vehicles the cycle did not see   *)
(* are counted as missing.  A vehicle known by its ByteTrack number may be *)
(* missed by a cycle while it is in the scene; a plate read on a detection *)
(* without a number is known by its text.                                  *)
(***************************************************************************)
EXTENDS Naturals

CONSTANTS
    Tracks,       \* ByteTrack numbers; a number is not used for two vehicles
    Texts,        \* plates read on a detection that has no number
    MinReadings,  \* min_readings
    LostCycles    \* lost_cycles

\* configure() keeps both at 1 at least.
ASSUME AnprAssumption ==
    /\ MinReadings \in Nat \ {0}
    /\ LostCycles \in Nat \ {0}
    /\ Tracks \cap Texts = {}

Keys == Tracks \cup Texts

VARIABLES
    scene,     \* the numbered vehicles in front of the camera
    departed,  \* those that have left for good
    cycle,     \* "idle", or "ocr" while plates are read and recorded
    seen,      \* the numbers among the detections of the cycle
    known,     \* _tracks[camera_id]; for other keys, what follows has the
               \* value of a new TrackedVehicle
    readings,  \* len(tv.readings), counted up to MinReadings
    emitted,   \* tv.event_emitted
    lost,      \* tv.lost_cycles
    stale,     \* tv.last_seen is more than 10 minutes old
    news,      \* the events the last step appended to _pending_events
    open,      \* history: ENTRY announced; then neither EXIT nor a silent purge
    missed,    \* history: consecutive ticks without the vehicle, up to LostCycles
    stay       \* history: ENTRY announced; then never missed LostCycles times

worldVars == <<scene, departed>>
tableVars == <<known, readings, emitted, lost, stale>>
historyVars == <<open, missed, stay>>
trackerVars == <<worldVars, cycle, seen, tableVars, news, historyVars>>

Entry(k) == <<"ENTRY", k>>
Exit(k) == <<"EXIT", k>>

(***************************************************************************)
(* The world: vehicles and time                                            *)
(***************************************************************************)

Arrive(t) ==
    /\ cycle = "idle" /\ t \notin scene \cup departed
    /\ scene' = scene \cup {t}
    /\ news' = {}
    /\ UNCHANGED <<departed, cycle, seen, tableVars, historyVars>>

Depart(t) ==
    /\ cycle = "idle" /\ t \in scene
    /\ scene' = scene \ {t}
    /\ departed' = departed \cup {t}
    /\ news' = {}
    /\ UNCHANGED <<cycle, seen, tableVars, historyVars>>

\* Ten minutes pass without a reading of k: seeing the vehicle does not count.
GrowOld(k) ==
    /\ cycle = "idle" /\ k \in known /\ ~stale[k]
    /\ stale' = [stale EXCEPT ![k] = TRUE]
    /\ news' = {}
    /\ UNCHANGED <<worldVars, cycle, seen, known, readings, emitted, lost, historyVars>>

(***************************************************************************)
(* The cycle                                                               *)
(***************************************************************************)

\* A cycle that comes to reading plates.  One without any vehicle, or of too low
\* a quality, returns earlier: nothing is recorded, and nothing counted missing.
Detect(s) ==
    /\ cycle = "idle"
    /\ cycle' = "ocr"
    /\ seen' = s
    /\ missed' = [t \in Tracks |-> IF t \in s THEN 0 ELSE missed[t]]
    /\ news' = {}
    /\ UNCHANGED <<worldVars, tableVars, open, stay>>

\* len(self.readings) after one more, counted no further than it matters.
OneMore(n) == IF n < MinReadings THEN n + 1 ELSE n

\* Mutant: event_emitted is not looked at.
AnnouncesAgain(k) == OneMore(readings[k]) >= MinReadings

\* The reading makes the vehicle PRESENT, which is announced once.
Announces(k) == ~emitted[k] /\ OneMore(readings[k]) >= MinReadings

\* record_reading() for a plate of the cycle, on the crop of a vehicle it saw; a
\* reading below min_confidence changes nothing.
Record(k) ==
    /\ cycle = "ocr" /\ k \in seen \cup Texts
    /\ known' = known \cup {k}
    /\ readings' = [readings EXCEPT ![k] = OneMore(@)]
    /\ lost' = [lost EXCEPT ![k] = 0]
    /\ stale' = [stale EXCEPT ![k] = FALSE]
    /\ \/ /\ Announces(k)
          /\ emitted' = [emitted EXCEPT ![k] = TRUE]
          /\ news' = {Entry(k)}
          /\ open' = open \cup {k}
          /\ stay' = stay \cup ({k} \cap Tracks)
       \/ /\ ~Announces(k)
          /\ news' = {}
          /\ UNCHANGED <<emitted, open, stay>>
    /\ UNCHANGED <<worldVars, cycle, seen, missed>>

\* Mutant: only the vehicles that were announced are counted as missing.
UnseenAnnounced == {k \in known \ seen : emitted[k]}

Unseen == known \ seen

\* Mutant: > instead of >=.
LeftLate == {k \in Unseen : lost[k] + 1 > LostCycles}

\* Those that reach the threshold with this tick become LEFT, announced or not.
Left == {k \in Unseen : lost[k] + 1 >= LostCycles}

Orphans == {k \in Unseen \ Left : stale[k]}

Forgotten == Left \cup Orphans

\* tick_missing(): the misses of a vehicle are only reset by a reading.
Tick ==
    /\ cycle = "ocr"
    /\ cycle' = "idle" /\ seen' = {}
    /\ news' = {Exit(k) : k \in {j \in Left : emitted[j]}}
    /\ known' = known \ Forgotten
    /\ lost' = [k \in Keys |-> CASE k \in Forgotten -> 0
                                 [] k \in Unseen \ Forgotten -> lost[k] + 1
                                 [] OTHER -> lost[k]]
    /\ readings' = [k \in Keys |-> IF k \in Forgotten THEN 0 ELSE readings[k]]
    /\ emitted' = [k \in Keys |-> emitted[k] /\ k \notin Forgotten]
    /\ stale' = [k \in Keys |-> stale[k] /\ k \notin Forgotten]
    /\ open' = open \ Forgotten
    /\ missed' = [t \in Tracks |-> IF t \in seen \/ missed[t] = LostCycles
                                   THEN missed[t] ELSE missed[t] + 1]
    /\ stay' = {t \in stay : missed'[t] < LostCycles}
    /\ UNCHANGED worldVars

(***************************************************************************)
(* Specification                                                           *)
(***************************************************************************)

TrackerInit ==
    /\ scene = {} /\ departed = {}
    /\ cycle = "idle" /\ seen = {}
    /\ known = {}
    /\ readings = [k \in Keys |-> 0]
    /\ emitted = [k \in Keys |-> FALSE]
    /\ lost = [k \in Keys |-> 0]
    /\ stale = [k \in Keys |-> FALSE]
    /\ news = {} /\ open = {} /\ stay = {}
    /\ missed = [t \in Tracks |-> 0]

World == \/ \E t \in Tracks : Arrive(t) \/ Depart(t)
         \/ \E k \in Keys : GrowOld(k)

Cycle == \/ \E s \in SUBSET scene : Detect(s)
         \/ \E k \in Keys : Record(k)
         \/ Tick

TrackerNext == World \/ Cycle

TrackerSpec == TrackerInit /\ [][TrackerNext]_trackerVars

(***************************************************************************)
(* Properties                                                              *)
(***************************************************************************)

\* The types of all variables; a vehicle that reaches the threshold of misses is
\* no longer in the table.
TrackerTypeOK ==
    /\ scene \subseteq Tracks /\ departed \subseteq Tracks
    /\ cycle \in {"idle", "ocr"} /\ seen \subseteq Tracks
    /\ known \subseteq Keys
    /\ readings \in [Keys -> 0..MinReadings]
    /\ emitted \in [Keys -> BOOLEAN]
    /\ lost \in [Keys -> 0..(LostCycles - 1)]
    /\ stale \in [Keys -> BOOLEAN]
    /\ news \subseteq {"ENTRY", "EXIT"} \X Keys
    /\ open \subseteq Keys /\ stay \subseteq Tracks
    /\ missed \in [Tracks -> 0..LostCycles]

\* Whatever readings, gaps and purges came before: a vehicle that LostCycles
\* ticks in a row did not see is no longer in the table.
AbsentForgotten == \A t \in known \cap Tracks : missed[t] < LostCycles

\* An EXIT is announced only for a vehicle whose ENTRY was announced and is still
\* open, and no ENTRY is announced while another one is open: the consumer never
\* sees an EXIT twice or out of the blue, nor an ENTRY twice in one tracking.
EventsPaired ==
    [][\A k \in Keys : /\ Entry(k) \in news' => k \notin open
                       /\ Exit(k) \in news' => k \in open]_trackerVars

\* The module's docstring: "un seul événement par véhicule tant qu'il reste dans
\* la scène", where LEFT takes "cycles consécutifs sans re-voir le track".
OneEntryPerStay ==
    [][\A t \in Tracks : Entry(t) \in news' => t \notin stay]_trackerVars
================================================================================
