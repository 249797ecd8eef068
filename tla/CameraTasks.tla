------------------------------ MODULE CameraTasks ------------------------------
(***************************************************************************)
(* The analysis tasks of ai_engine.py: one _camera_loop() per camera,      *)
(* created and cancelled by _reconcile_camera_tasks(), its bursts under a  *)
(* semaphore that all cameras share, the analysis in a pool thread, which  *)
(* no cancellation stops, and the downstream jobs it leaves behind.  A     *)
(* step is what the event loop runs between two awaits.  Frames are those  *)
(* of FrameDelivery: here a wait is woken or times out.                    *)
(***************************************************************************)
EXTENDS Naturals, FiniteSets

CONSTANTS
    Cameras,
    MaxTasks,    \* bounds how many tasks are ever created
    MaxBursts,   \* _MAX_CONCURRENT_BURSTS
    ExtraPasses, \* _BURST_EXTRA_PASSES
    MaxInflight  \* _MAX_DOWNSTREAM_INFLIGHT

ASSUME TasksAssumption ==
    /\ Cameras # {}
    /\ MaxTasks \in Nat /\ MaxBursts \in Nat
    /\ ExtraPasses \in Nat \ {0} /\ MaxInflight \in Nat \ {0}

Tasks == 1..MaxTasks
PCs == {"unborn", "new", "wait", "woken", "analyse", "acquire", "granted", "pause", "done"}

VARIABLES
    specs,       \* the cameras of _camera_specs
    registered,  \* _camera_tasks: the task of each camera, or 0
    born,        \* how many tasks have been created
    camera,      \* the camera of each task
    pc,          \* where each task waits
    left,        \* passes left of its burst, 0 outside of a burst
    free,        \* the value of _burst_semaphore
    analysing,   \* the tasks whose analysis is running in a thread
    inflight,    \* _downstream_inflight
    jobs,        \* the downstream jobs that exist
    escaped      \* history: cancelled tasks that have not seen the cancellation

fleetVars == <<specs, registered, born, camera>>
burstVars == <<left, free>>
downVars == <<inflight, jobs>>
vars == <<fleetVars, pc, burstVars, analysing, downVars, escaped>>

Live(t) == pc[t] \notin {"unborn", "done"}
Goto(t, p) == pc' = [pc EXCEPT ![t] = p]

\* The end of a burst, if t is in one: `finally: _burst_semaphore.release()`.
LeaveBurst(t) == /\ free' = IF left[t] > 0 THEN free + 1 ELSE free
                 /\ left' = [left EXCEPT ![t] = 0]

(***************************************************************************)
(* _reconcile_camera_tasks(), for one camera                               *)
(***************************************************************************)

Create(c) ==
    /\ born < MaxTasks
    /\ born' = born + 1
    /\ camera' = [camera EXCEPT ![born'] = c]
    /\ registered' = [registered EXCEPT ![c] = born']
    /\ Goto(born', "new")

\* The camera is active: its document is updated, its task created if there is none.
\* Mutant: the task that exists is not looked at.
ListAnew(c) ==
    /\ specs' = specs \cup {c}
    /\ Create(c)
    /\ UNCHANGED <<burstVars, analysing, downVars, escaped>>

List(c) ==
    /\ specs' = specs \cup {c}
    /\ IF registered[c] = 0 \/ (registered[c] # 0 /\ pc[registered[c]] = "done")
       THEN Create(c)
       ELSE UNCHANGED <<registered, born, camera, pc>>
    /\ UNCHANGED <<burstVars, analysing, downVars, escaped>>

\* task.cancel(): asyncio.wait_for() of Python 3.11 swallows a cancellation that
\* comes when what it waits for is done and the task has not resumed; anywhere
\* else the task ends.  Its analysis goes on, unless its thread had not begun.
\* Mutant: no `finally` around the burst.
CancelKeepsSlot(t) ==
    IF pc[t] \in {"woken", "granted"}
    THEN /\ escaped' = escaped \cup {t}
         /\ UNCHANGED <<pc, burstVars, analysing>>
    ELSE /\ Goto(t, "done")
         /\ left' = [left EXCEPT ![t] = 0] /\ UNCHANGED free
         /\ analysing' \in {analysing, analysing \ {t}}
         /\ UNCHANGED escaped

Cancel(t) ==
    IF pc[t] \in {"woken", "granted"}
    THEN /\ escaped' = escaped \cup {t}
         /\ UNCHANGED <<pc, burstVars, analysing>>
    ELSE /\ Goto(t, "done")
         /\ LeaveBurst(t)
         /\ analysing' \in {analysing, analysing \ {t}}
         /\ UNCHANGED escaped

\* The camera is not active: its task is forgotten and cancelled.
\* Mutant: its document is kept.
DelistKeepsSpec(c) ==
    /\ registered[c] # 0
    /\ registered' = [registered EXCEPT ![c] = 0]
    /\ IF pc[registered[c]] = "done"
       THEN UNCHANGED <<pc, burstVars, analysing, escaped>>
       ELSE Cancel(registered[c])
    /\ UNCHANGED <<specs, born, camera, downVars>>

Delist(c) ==
    /\ registered[c] # 0
    /\ registered' = [registered EXCEPT ![c] = 0]
    /\ specs' = specs \ {c}
    /\ IF pc[registered[c]] = "done"
       THEN UNCHANGED <<pc, burstVars, analysing, escaped>>
       ELSE Cancel(registered[c])
    /\ UNCHANGED <<born, camera, downVars>>

(***************************************************************************)
(* _camera_loop() and _process_camera()                                    *)
(***************************************************************************)

\* Up to the next wait for a frame; a loop whose camera was removed ends by itself.
Turn(t) == Goto(t, IF camera[t] \in specs THEN "wait" ELSE "done")

\* The first turn of a task, or one after the pause that follows an error.
Start(t) ==
    /\ pc[t] \in {"new", "pause"}
    /\ Turn(t)
    /\ UNCHANGED <<fleetVars, burstVars, analysing, downVars, escaped>>

\* The notification of a frame: the loop will resume.
Wake(t) ==
    /\ pc[t] = "wait"
    /\ Goto(t, "woken")
    /\ UNCHANGED <<fleetVars, burstVars, analysing, downVars, escaped>>

\* No fresh frame, in time or after all: next turn, a burst is over.
NoFrame(t) ==
    /\ pc[t] \in {"wait", "woken"}
    /\ Turn(t)
    /\ LeaveBurst(t)
    /\ UNCHANGED <<fleetVars, analysing, downVars, escaped>>

\* A fresh frame: worker.analyze() is given to a thread.
Analyse(t) ==
    /\ pc[t] = "woken"
    /\ Goto(t, "analyse")
    /\ analysing' = analysing \cup {t}
    /\ UNCHANGED <<fleetVars, burstVars, downVars, escaped>>

ThreadEnds(t) ==
    /\ t \in analysing
    /\ analysing' = analysing \ {t}
    /\ UNCHANGED <<fleetVars, pc, burstVars, downVars, escaped>>

\* The analysis raised: pause before the next turn, or end of the burst.
AnalysisFails(t) ==
    /\ pc[t] = "analyse" /\ t \notin analysing
    /\ IF left[t] = 0 THEN Goto(t, "pause") ELSE Turn(t)
    /\ LeaveBurst(t)
    /\ UNCHANGED <<fleetVars, analysing, downVars, escaped>>

\* A pass is over, without a burst to begin.
EndPass(t) ==
    IF left[t] > 1
    THEN /\ Goto(t, "wait")
         /\ left' = [left EXCEPT ![t] = @ - 1] /\ UNCHANGED free
    ELSE Turn(t) /\ LeaveBurst(t)

\* The rest of _process_camera(): too many downstream jobs, and the result is
\* dropped; else a job begins, and motion may call for a burst.
Dropped(t) ==
    /\ pc[t] = "analyse" /\ t \notin analysing
    /\ inflight[camera[t]] >= MaxInflight
    /\ EndPass(t)
    /\ UNCHANGED <<fleetVars, analysing, downVars, escaped>>

Reported(t) ==
    LET c == camera[t] IN
    /\ pc[t] = "analyse" /\ t \notin analysing
    /\ inflight[c] < MaxInflight
    /\ inflight' = [inflight EXCEPT ![c] = @ + 1]
    /\ jobs' = [jobs EXCEPT ![c] = @ + 1]
    /\ \/ EndPass(t)
       \/ left[t] = 0 /\ Goto(t, "acquire") /\ UNCHANGED burstVars
    /\ UNCHANGED <<fleetVars, analysing, escaped>>

\* Mutant: the semaphore does not bound anything.
GrantAlways(t) ==
    /\ pc[t] = "acquire"
    /\ Goto(t, "granted")
    /\ free' = free - 1
    /\ UNCHANGED <<fleetVars, left, analysing, downVars, escaped>>

\* _burst_semaphore.acquire() succeeds, or the burst is skipped.
Grant(t) ==
    /\ pc[t] = "acquire" /\ free > 0
    /\ Goto(t, "granted")
    /\ free' = free - 1
    /\ UNCHANGED <<fleetVars, left, analysing, downVars, escaped>>

SkipBurst(t) ==
    /\ pc[t] = "acquire"
    /\ Turn(t)
    /\ UNCHANGED <<fleetVars, burstVars, analysing, downVars, escaped>>

BeginBurst(t) ==
    /\ pc[t] = "granted"
    /\ Goto(t, "wait")
    /\ left' = [left EXCEPT ![t] = ExtraPasses]
    /\ UNCHANGED <<fleetVars, free, analysing, downVars, escaped>>

\* _process_downstream() ends, whatever happened in it.
JobEnds(c) ==
    /\ jobs[c] > 0
    /\ jobs' = [jobs EXCEPT ![c] = @ - 1]
    /\ inflight' = [inflight EXCEPT ![c] = IF @ > 0 THEN @ - 1 ELSE 0]
    /\ UNCHANGED <<fleetVars, pc, burstVars, analysing, escaped>>

(***************************************************************************)
(* Specification                                                           *)
(***************************************************************************)

Init ==
    /\ specs = {} /\ registered = [c \in Cameras |-> 0] /\ born = 0
    /\ camera = [t \in Tasks |-> CHOOSE c \in Cameras : TRUE]
    /\ pc = [t \in Tasks |-> "unborn"]
    /\ left = [t \in Tasks |-> 0] /\ free = MaxBursts
    /\ analysing = {}
    /\ inflight = [c \in Cameras |-> 0] /\ jobs = [c \in Cameras |-> 0]
    /\ escaped = {}

Loop(t) == \/ Start(t) \/ Wake(t) \/ NoFrame(t) \/ Analyse(t) \/ AnalysisFails(t)
           \/ Dropped(t) \/ Reported(t) \/ Grant(t) \/ SkipBurst(t) \/ BeginBurst(t)
Fleet(c) == List(c) \/ Delist(c) \/ JobEnds(c)

Next == \/ \E c \in Cameras : Fleet(c)
        \/ \E t \in Tasks : Loop(t) \/ ThreadEnds(t)

Spec == Init /\ [][Next]_vars

\* The event loop runs its tasks, timeouts included, and an analysis ends.
FairSpec == Spec /\ \A t \in Tasks : WF_vars(Loop(t)) /\ WF_vars(ThreadEnds(t))

(***************************************************************************)
(* Properties                                                              *)
(***************************************************************************)

FleetTypes == /\ specs \subseteq Cameras /\ registered \in [Cameras -> 0..born]
              /\ born \in 0..MaxTasks /\ camera \in [Tasks -> Cameras]
LoopTypes == /\ pc \in [Tasks -> PCs] /\ left \in [Tasks -> 0..ExtraPasses]
             /\ analysing \subseteq 1..born /\ escaped \subseteq 1..born
DownTypes == inflight \in [Cameras -> 0..MaxInflight] /\ jobs \in [Cameras -> 0..MaxInflight]

\* Every variable has its type: no more places than the semaphore was given, no
\* more downstream jobs than the backpressure allows (ai_engine.py:918-930).
TypeOK == FleetTypes /\ LoopTypes /\ DownTypes /\ free \in 0..MaxBursts

\* Whatever a cancellation interrupts, a burst gives its place back once: those
\* in a burst, or about to begin it, and the free places are all of them.
Bursting == {t \in Tasks : left[t] > 0 \/ pc[t] = "granted"}
SlotsAccounted == free + Cardinality(Bursting) = MaxBursts

\* The backpressure counts the jobs that exist, even with two loops for a
\* camera: it neither lets more jobs through nor blocks without any.
DownstreamAccounted == inflight = jobs

\* Neither count drifts from what it counts, over errors, timeouts, cancellations and
\* cameras that come back.
PlacesAccounted == SlotsAccounted /\ DownstreamAccounted

\* A loop that runs is the registered one of its camera, or was cancelled at the
\* instant when its wait had ended.
LoopsAccounted ==
    \A t \in Tasks : Live(t) => registered[camera[t]] = t \/ t \in escaped

\* A loop that is not registered ends, the one that missed its cancellation too,
\* unless its camera is given another loop before.
StoppedLoopEnds ==
    \A t \in Tasks :
        Live(t) /\ registered[camera[t]] # t ~> ~Live(t) \/ registered[camera[t]] # 0

\* No camera keeps its place in the bursts: analyses end and passes are counted.
BurstEnds == \A t \in Tasks : left[t] > 0 ~> left[t] = 0

\* Nothing that a camera's departure or turn should end goes on for ever.
LoopsAndBurstsEnd == StoppedLoopEnds /\ BurstEnds
================================================================================
