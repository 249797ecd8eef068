------------------------------ MODULE AiSupervisor ------------------------------
(***************************************************************************)
(* The supervisor of ai_engine.py: ai_loop() reloads the configuration and *)
(* aligns the ffmpeg workers and the analysis tasks with the cameras of    *)
(* the database, on a signal of a route or when a safety delay (TTL) has   *)
(* run out.  A database read is a question and an answer: routes run       *)
(* between the two.  start() and stop() are the calls of FrameSource.      *)
(***************************************************************************)
EXTENDS Naturals, FiniteSets

CONSTANTS
    Cameras,     \* camera identifiers
    Configs,     \* what an ffmpeg worker is started with: url, codec, size
    MaxChanges,  \* bounds the edits by routes and the database errors
    None         \* no worker

\* off: not listed, for the camera is absent, offline or not analysed;
\* nourl: listed, but without any RTSP address.
CameraStates == Configs \cup {"off", "nourl"}

ASSUME ConfigsAssumption ==
    /\ MaxChanges \in Nat
    /\ Configs \cap {"off", "nourl"} = {}
    /\ None \notin CameraStates

\* load_runtime_config() reads two documents, refresh_per_camera_configs() one.
Docs == {"anpr", "ai", "bytetrack"}
Kinds == {"camera", "ai"}
Kind(d) == IF d = "anpr" THEN "camera" ELSE "ai"

VARIABLES
    pc,            \* where ai_loop() is
    booting,       \* before its first cycle
    query,         \* the document read, or "cams"
    reply,         \* the version answered
    memory,        \* the version of each document that is in use
    dirty,         \* _config_dirty and _camera_config_dirty
    topologyDirty, \* _cameras_topology_dirty
    dirtySet,      \* _camera_dirty_set
    expired,       \* the TTL of each reload, and of the full sync, has run out
    snapshot,      \* cams, as answered
    partial,       \* the sync in progress is partial
    only,          \* the cameras it is for
    todo,          \* the cameras it has still to start, then to stop
    workers,       \* the workers of frame_source: camera -> config or None
    tasks,         \* _camera_tasks
    stored,        \* the version of each document in the database
    camera,        \* the cameras in the database
    signalDue,     \* documents and cameras written, signal not yet raised
    patching,      \* update_runtime_config() has not written yet
    changes        \* how many edits and errors so far

loopVars == <<pc, booting, query, reply>>
flagVars == <<dirty, topologyDirty, dirtySet, expired>>
syncVars == <<snapshot, partial, only, todo>>
fleetVars == <<workers, tasks>>
dbVars == <<stored, camera, signalDue, patching, changes>>
vars == <<loopVars, memory, flagVars, syncVars, fleetVars, dbVars>>

Change == changes < MaxChanges /\ changes' = changes + 1

(***************************************************************************)
(* Routes: they write to the database, and raise a signal afterwards       *)
(***************************************************************************)

EditDoc(d) ==
    /\ Change
    /\ stored' = [stored EXCEPT ![d] = changes']
    /\ signalDue' = signalDue \cup {d}
    /\ UNCHANGED <<loopVars, memory, flagVars, syncVars, fleetVars, camera,
                   patching>>

\* update_runtime_config(): the patch goes to memory first; what is written is
\* the memory as it is when the write is done.
Patch ==
    /\ ~patching
    /\ Change
    /\ memory' = [memory EXCEPT !["ai"] = changes']
    /\ patching' = TRUE
    /\ UNCHANGED <<loopVars, flagVars, syncVars, fleetVars, stored, camera,
                   signalDue>>

WritePatch ==
    /\ patching
    /\ stored' = [stored EXCEPT !["ai"] = memory["ai"]]
    /\ patching' = FALSE
    /\ signalDue' = signalDue \cup {"ai"}
    /\ UNCHANGED <<loopVars, memory, flagVars, syncVars, fleetVars, camera, changes>>

\* signal_config_changed(), signal_camera_config_changed()
SignalConfig(d) ==
    /\ d \in signalDue
    /\ signalDue' = signalDue \ {d}
    /\ dirty' = [dirty EXCEPT ![Kind(d)] = TRUE]
    /\ UNCHANGED <<loopVars, memory, topologyDirty, dirtySet, expired, syncVars,
                   fleetVars, stored, camera, patching, changes>>

\* A camera is created, updated or deleted by a route, which will signal it, or
\* goes online or offline, which nobody signals.
EditCamera(c, v) ==
    /\ camera[c] # v
    /\ Change
    /\ camera' = [camera EXCEPT ![c] = v]
    /\ \/ signalDue' = signalDue \cup {c}
       \/ /\ "off" \in {v, camera[c]}
          /\ UNCHANGED signalDue
    /\ UNCHANGED <<loopVars, memory, flagVars, syncVars, fleetVars, stored,
                   patching>>

\* Mutant: a targeted signal does not raise the flag.
SignalWithoutFlag(c) ==
    /\ c \in signalDue
    /\ signalDue' = signalDue \ {c}
    /\ dirtySet' = dirtySet \cup {c}
    /\ UNCHANGED <<loopVars, memory, dirty, topologyDirty, expired, syncVars,
                   fleetVars, stored, camera, patching, changes>>

\* signal_camera_topology_changed(camera_id); the routes that create or update
\* a camera also signal its configuration, the one that deletes it does not.
SignalTopology(c) ==
    /\ c \in signalDue
    /\ signalDue' = signalDue \ {c}
    /\ topologyDirty' = TRUE
    /\ dirtySet' = dirtySet \cup {c}
    /\ \/ UNCHANGED dirty
       \/ dirty' = [dirty EXCEPT !["camera"] = TRUE]
    /\ UNCHANGED <<loopVars, memory, expired, syncVars, fleetVars, stored, camera,
                   patching, changes>>

(***************************************************************************)
(* The cycle: the reloads                                                  *)
(***************************************************************************)

Ask(q) == pc' = "asked" /\ query' = q

\* Mutant: only a signal causes a reload.
DueOnSignal(k) == dirty[k]

\* The flag is up, or the TTL has run out.
Due(k) == dirty[k] \/ expired[k]

AskAiOrCams == Ask(IF Due("ai") THEN "ai" ELSE "cams")

Top ==
    /\ pc = "top"
    /\ booting' = FALSE
    /\ IF Due("camera") THEN Ask("anpr") ELSE AskAiOrCams
    /\ UNCHANGED <<reply, memory, flagVars, syncVars, fleetVars, dbVars>>

\* The database evaluates the query; the answer is still on its way.
DbAnswers ==
    /\ pc = "asked"
    /\ pc' = "answered"
    /\ IF query = "cams"
       THEN snapshot' = camera /\ UNCHANGED reply
       ELSE reply' = stored[query] /\ UNCHANGED snapshot
    /\ UNCHANGED <<booting, query, memory, flagVars, partial, only, todo, fleetVars,
                   dbVars>>

\* An exception ends the cycle, or ai_loop() itself before the first cycle.
DbFails ==
    /\ pc = "asked"
    /\ Change
    /\ pc' = IF booting THEN "dead" ELSE "sleep"
    /\ UNCHANGED <<booting, query, reply, memory, flagVars, syncVars, fleetVars,
                   stored, camera, signalDue, patching>>

\* The flag is lowered and the TTL starts again when the answer is there.
Reloaded(k) ==
    /\ dirty' = [dirty EXCEPT ![k] = FALSE]
    /\ expired' = [expired EXCEPT ![k] = FALSE]
    /\ UNCHANGED <<topologyDirty, dirtySet>>

ReceiveDoc ==
    /\ pc = "answered" /\ query \in Docs
    /\ memory' = [memory EXCEPT ![query] = reply]
    /\ reply' = 0
    /\ \/ query = "anpr" /\ Reloaded("camera") /\ AskAiOrCams
       \/ query = "ai" /\ UNCHANGED flagVars /\ Ask("bytetrack")
       \/ /\ query = "bytetrack" /\ Reloaded("ai")
          /\ IF booting THEN pc' = "top" /\ UNCHANGED query ELSE Ask("cams")
    /\ UNCHANGED <<booting, syncVars, fleetVars, dbVars>>

(***************************************************************************)
(* The cycle: the workers and the tasks                                    *)
(***************************************************************************)

Listed == {c \in Cameras : snapshot[c] # "off"}

HasUrl(c) == snapshot[c] \notin {"off", "nourl"}

\* The local variables of a cycle end with it.
Nothing == [c \in Cameras |-> "off"]
Forget == snapshot' = Nothing /\ partial' = FALSE /\ only' = {} /\ todo' = {}

\* _reconcile_camera_tasks(), at the end of a cycle without an exception.
Reconcile == pc' = "sleep" /\ tasks' = Listed /\ Forget

FullSyncDue == topologyDirty \/ expired["topology"]

BeginSync(p, cs) ==
    /\ pc' = "start"
    /\ partial' = p
    /\ only' = cs
    /\ todo' = {c \in cs : HasUrl(c)}
    /\ topologyDirty' = FALSE
    /\ UNCHANGED <<snapshot, tasks>>

\* Targeted signals make a partial sync, whatever else is due.
Plan ==
    /\ pc = "answered" /\ query = "cams"
    /\ \/ /\ topologyDirty /\ dirtySet # {}
          /\ BeginSync(TRUE, dirtySet)
          /\ dirtySet' = {}
       \/ /\ ~(topologyDirty /\ dirtySet # {}) /\ FullSyncDue
          /\ BeginSync(FALSE, Cameras)
          /\ UNCHANGED dirtySet
       \/ /\ ~FullSyncDue
          /\ Reconcile
          /\ UNCHANGED <<topologyDirty, dirtySet>>
    /\ UNCHANGED <<booting, query, reply, memory, dirty, expired, workers, dbVars>>

\* Mutant: a worker takes over the new config while it runs.
StartOneInPlace(c) ==
    /\ pc = "start" /\ c \in todo
    /\ workers' = [workers EXCEPT ![c] = snapshot[c]]
    /\ todo' = todo \ {c}
    /\ UNCHANGED <<loopVars, memory, flagVars, snapshot, partial, only, tasks, dbVars>>

\* frame_source.start(): a worker that runs with another config is first stopped
\* under the lock start() holds, and the call never returns.
StartOne(c) ==
    /\ pc = "start" /\ c \in todo
    /\ IF workers[c] \in {None, snapshot[c]}
       THEN /\ workers' = [workers EXCEPT ![c] = snapshot[c]]
            /\ todo' = todo \ {c}
            /\ UNCHANGED pc
       ELSE pc' = "hung" /\ UNCHANGED <<workers, todo>>
    /\ UNCHANGED <<booting, query, reply, memory, flagVars, snapshot, partial, only,
                   tasks, dbVars>>

\* active_ids: a camera that is not targeted counts as active when it is listed.
Active == {c \in Cameras : IF c \in only THEN HasUrl(c) ELSE c \in Listed}

\* Mutant: a partial sync stops whatever it did not start.
StaleAll == {c \in Cameras : workers[c] # None} \ {c \in only : HasUrl(c)}

Stale == {c \in Cameras : workers[c] # None /\ (partial => c \in only)} \ Active

Started ==
    /\ pc = "start" /\ todo = {}
    /\ pc' = "stop"
    /\ todo' = Stale
    /\ UNCHANGED <<booting, query, reply, memory, flagVars, snapshot, partial, only,
                   fleetVars, dbVars>>

StopOne(c) ==
    /\ pc = "stop" /\ c \in todo
    /\ workers' = [workers EXCEPT ![c] = None]
    /\ todo' = todo \ {c}
    /\ UNCHANGED <<loopVars, memory, flagVars, snapshot, partial, only, tasks,
                   dbVars>>

\* A partial sync, too, postpones the next full one.
Synced ==
    /\ pc = "stop" /\ todo = {}
    /\ expired' = [expired EXCEPT !["topology"] = FALSE]
    /\ Reconcile
    /\ UNCHANGED <<booting, query, reply, memory, dirty, topologyDirty, dirtySet,
                   workers, dbVars>>

Wake ==
    /\ pc = "sleep"
    /\ pc' = "top"
    /\ UNCHANGED <<booting, query, reply, memory, flagVars, syncVars, fleetVars,
                   dbVars>>

\* Delays are compared with the time the cycle began: they run out between cycles.
Expire(x) ==
    /\ pc = "sleep" /\ ~expired[x]
    /\ expired' = [expired EXCEPT ![x] = TRUE]
    /\ UNCHANGED <<loopVars, memory, dirty, topologyDirty, dirtySet, syncVars,
                   fleetVars, dbVars>>

(***************************************************************************)
(* Specification                                                           *)
(***************************************************************************)

\* Before its loop, ai_loop() calls load_runtime_config().
Init ==
    /\ pc = "asked" /\ booting = TRUE /\ query = "ai" /\ reply = 0
    /\ memory = [d \in Docs |-> 0]
    /\ dirty = [k \in Kinds |-> TRUE]
    /\ topologyDirty = TRUE /\ dirtySet = {}
    /\ expired = [x \in Kinds \cup {"topology"} |-> TRUE]
    /\ snapshot = Nothing
    /\ partial = FALSE /\ only = {} /\ todo = {}
    /\ workers = [c \in Cameras |-> None] /\ tasks = {}
    /\ stored = [d \in Docs |-> 0]
    /\ camera \in [Cameras -> CameraStates]
    /\ signalDue = {} /\ patching = FALSE
    /\ changes = 0

Sync == \/ Started \/ Synced
        \/ \E c \in Cameras : StartOne(c) \/ StopOne(c)

Supervisor == Top \/ ReceiveDoc \/ Plan \/ Sync \/ Wake

Signal == \/ \E d \in Docs : SignalConfig(d)
          \/ \E c \in Cameras : SignalTopology(c)

Edit == \/ \E d \in {"anpr", "bytetrack"} : EditDoc(d)
        \/ Patch
        \/ \E c \in Cameras, v \in CameraStates : EditCamera(c, v)

Next == \/ Supervisor \/ DbAnswers \/ DbFails
        \/ Signal \/ Edit \/ WritePatch
        \/ \E x \in Kinds \cup {"topology"} : Expire(x)

Spec == Init /\ [][Next]_vars

\* The event loop runs, the database answers, a route that began ends, and the
\* delays of at most 30 s run out if the supervisor sleeps often enough.
Fairness ==
    /\ WF_vars(Supervisor)
    /\ WF_vars(DbAnswers)
    /\ WF_vars(WritePatch)
    /\ WF_vars(Signal)
    /\ \A x \in Kinds \cup {"topology"} : SF_vars(Expire(x))

FairSpec == Spec /\ Fairness

(***************************************************************************)
(* Properties                                                              *)
(***************************************************************************)

\* The types of all variables; a worker is only ever started with a config.
TypeOK ==
    /\ pc \in {"top", "asked", "answered", "start", "stop", "sleep", "hung", "dead"}
    /\ booting \in BOOLEAN
    /\ query \in Docs \cup {"cams"}
    /\ reply \in 0..MaxChanges
    /\ memory \in [Docs -> 0..MaxChanges]
    /\ dirty \in [Kinds -> BOOLEAN]
    /\ topologyDirty \in BOOLEAN
    /\ dirtySet \subseteq Cameras
    /\ expired \in [Kinds \cup {"topology"} -> BOOLEAN]
    /\ snapshot \in [Cameras -> CameraStates]
    /\ partial \in BOOLEAN
    /\ only \subseteq Cameras
    /\ todo \subseteq Cameras
    /\ workers \in [Cameras -> Configs \cup {None}]
    /\ tasks \subseteq Cameras
    /\ stored \in [Docs -> 0..MaxChanges]
    /\ camera \in [Cameras -> CameraStates]
    /\ signalDue \subseteq Docs \cup Cameras
    /\ patching \in BOOLEAN
    /\ changes \in 0..MaxChanges

\* A camera never waits in _camera_dirty_set behind a lowered flag: the test of
\* ai_loop() is on both.
TargetsFlagged == dirtySet # {} => topologyDirty

\* "le reste du pipeline continue à tourner intact": while a partial sync is on,
\* the worker of a camera it was not asked to handle neither starts nor stops.
PartialIsSurgical ==
    [][\A c \in Cameras : partial /\ c \notin only => workers'[c] = workers[c]]_vars

\* The supervisor takes of frame_source what WorkerRegistry promises, and FrameSource
\* implements: it never changes the config of a worker that runs, and once a start()
\* does not return it neither starts nor stops any other.
Registry == INSTANCE WorkerRegistry WITH fleet <- workers, hung <- pc = "hung"
RegistryUsed == Registry!Safe

\* A loop that never ran, or that start() never returned to, converges to nothing.
Stopped == pc \in {"dead", "hung"}

\* What has an ffmpeg worker in the database's view.
WorkerWanted(c) == IF camera[c] \in {"off", "nourl"} THEN None ELSE camera[c]

Aligned ==
    /\ memory = stored
    /\ \A c \in Cameras : /\ workers[c] = WorkerWanted(c)
                         /\ c \in tasks <=> camera[c] # "off"

\* Whatever was edited, signalled or not, and whatever failed or was wiped out on the
\* way: in the end the configuration in use is the stored one, each analysed camera
\* has its worker and its task, and no other camera has.  The TTL is the safety net
\* of the signals, even of one lost to a race with a reload (ai_engine.py:194).
Converges == <>[](Stopped \/ Aligned)
================================================================================
