--------------------------- MODULE AiSupervisorProofs ---------------------------
(***************************************************************************)
(* Proofs about AiSupervisor for any fleet, any configurations and any     *)
(* number of edits: types, targeted signals, and that a partial sync is    *)
(* surgical.  Convergence is a liveness property, left to TLC.             *)
(***************************************************************************)
EXTENDS AiSupervisor, TLAPS

\* What a sync may touch: while it starts workers, cameras with an address; and
\* when it is partial, only the cameras it targets.
SyncScope ==
    /\ pc = "start" => \A c \in todo : HasUrl(c)
    /\ partial => todo \subseteq only

\* The inductive invariant.
IInv == TypeOK /\ TargetsFlagged /\ SyncScope

\* The flags, the local variables of the cycle and the fleet keep their types.
LEMMA CycleTypeStep ==
    ASSUME IInv, Supervisor
    PROVE  TypeOK'
<1> USE ConfigsAssumption
<1>1. CASE Top
  BY <1>1 DEF Top, Ask, AskAiOrCams, IInv, TypeOK, Docs, Kinds, flagVars, syncVars, fleetVars,
              dbVars
<1>2. CASE ReceiveDoc
  <2>1. /\ UNCHANGED <<booting, syncVars, fleetVars, dbVars>>
        /\ memory' = [memory EXCEPT ![query] = reply] /\ reply' = 0
        /\ query \in Docs
    BY <1>2 DEF ReceiveDoc
  <2>2. pc' \in {"asked", "top"} /\ query' \in Docs \cup {"cams"}
    BY <1>2 DEF ReceiveDoc, Ask, AskAiOrCams, IInv, TypeOK, Docs
  <2>3. /\ dirty' \in [Kinds -> BOOLEAN]
        /\ expired' \in [Kinds \cup {"topology"} -> BOOLEAN]
        /\ UNCHANGED <<topologyDirty, dirtySet>>
    <3>1. CASE UNCHANGED flagVars
      BY <3>1 DEF flagVars, IInv, TypeOK
    <3>2. ASSUME NEW k \in Kinds, Reloaded(k)
          PROVE  <2>3
      BY <3>2 DEF Reloaded, IInv, TypeOK, Kinds
    <3>. QED BY <1>2, <3>1, <3>2 DEF ReceiveDoc, Kinds
  <2>. QED BY <2>1, <2>2, <2>3 DEF IInv, TypeOK, syncVars, fleetVars, dbVars
<1>3. CASE Plan
  <2>1. UNCHANGED <<booting, query, reply, memory, dirty, expired, workers, dbVars>>
    BY <1>3 DEF Plan
  <2>2. /\ pc' \in {"start", "sleep"} /\ partial' \in BOOLEAN
        /\ only' \subseteq Cameras /\ todo' \subseteq Cameras /\ dirtySet' \subseteq Cameras
        /\ tasks' \subseteq Cameras /\ topologyDirty' \in BOOLEAN
        /\ snapshot' \in {snapshot, Nothing}
    BY <1>3 DEF Plan, BeginSync, Reconcile, Forget, Listed, IInv, TypeOK
  <2>3. Nothing \in [Cameras -> CameraStates]
    BY DEF Nothing, CameraStates
  <2>. QED BY <2>1, <2>2, <2>3 DEF IInv, TypeOK, dbVars
<1>4. ASSUME NEW c \in Cameras, StartOne(c)
      PROVE  TypeOK'
  <2>1. pc = "start" /\ c \in todo /\ snapshot[c] \in Configs
    BY <1>4 DEF StartOne, IInv, SyncScope, HasUrl, TypeOK, CameraStates
  <2>2. UNCHANGED <<booting, query, reply, memory, flagVars, snapshot, partial, only, tasks,
                    dbVars>>
    BY <1>4 DEF StartOne
  <2>3. /\ pc' \in {pc, "hung"} /\ todo' \subseteq todo
        /\ workers' \in [Cameras -> Configs \cup {None}]
    BY <1>4, <2>1 DEF StartOne, IInv, TypeOK
  <2>. QED BY <2>1, <2>2, <2>3 DEF IInv, TypeOK, flagVars, dbVars
<1>5. CASE Started
  BY <1>5 DEF Started, Stale, IInv, TypeOK, flagVars, fleetVars, dbVars
<1>6. ASSUME NEW c \in Cameras, StopOne(c)
      PROVE  TypeOK'
  BY <1>6 DEF StopOne, IInv, TypeOK, loopVars, flagVars, dbVars
<1>7. CASE Synced
  <2>1. Nothing \in [Cameras -> CameraStates]
    BY DEF Nothing, CameraStates
  <2>. QED BY <1>7, <2>1 DEF Synced, Reconcile, Forget, Listed, IInv, TypeOK, dbVars
<1>8. CASE Wake
  BY <1>8 DEF Wake, IInv, TypeOK, flagVars, syncVars, fleetVars, dbVars
<1>. QED BY <1>1, <1>2, <1>3, <1>4, <1>5, <1>6, <1>7, <1>8 DEF Supervisor, Sync

\* The steps of the database and of the routes keep the types.
LEMMA OutsideTypeStep ==
    ASSUME IInv, Next, ~Supervisor
    PROVE  TypeOK'
<1> USE ConfigsAssumption DEF IInv, TypeOK, loopVars, flagVars, syncVars, fleetVars, dbVars
<1>1. CASE DbAnswers
  BY <1>1 DEF DbAnswers
<1>2. CASE DbFails
  BY <1>2 DEF DbFails, Change
<1>3. ASSUME NEW d \in Docs, SignalConfig(d) PROVE TypeOK'
  BY <1>3 DEF SignalConfig, Kind, Kinds
<1>4. ASSUME NEW c \in Cameras, SignalTopology(c) PROVE TypeOK'
  BY <1>4 DEF SignalTopology, Kinds
<1>5. ASSUME NEW d \in {"anpr", "bytetrack"}, EditDoc(d) PROVE TypeOK'
  BY <1>5 DEF EditDoc, Change, Docs
<1>6. CASE Patch
  <2>1. changes' \in 0..MaxChanges /\ patching' = TRUE
    BY <1>6 DEF Patch, Change
  <2>2. memory' \in [Docs -> 0..MaxChanges]
    BY <1>6, <2>1 DEF Patch
  <2>3. UNCHANGED <<loopVars, flagVars, syncVars, fleetVars, stored, camera, signalDue>>
    BY <1>6 DEF Patch
  <2>4. changes' \in 0..MaxChanges /\ memory' \in [Docs -> 0..MaxChanges] /\ patching' \in BOOLEAN
    BY <2>1, <2>2
  <2>. QED BY <2>3, <2>4
<1>7. CASE WritePatch
  BY <1>7 DEF WritePatch, Docs
<1>8. ASSUME NEW c \in Cameras, NEW v \in CameraStates, EditCamera(c, v) PROVE TypeOK'
  BY <1>8 DEF EditCamera, Change
<1>9. ASSUME NEW x \in Kinds \cup {"topology"}, Expire(x) PROVE TypeOK'
  BY <1>9 DEF Expire
<1>. QED BY <1>1, <1>2, <1>3, <1>4, <1>5, <1>6, <1>7, <1>8, <1>9 DEF Next, Signal, Edit

\* Only the planning of a sync lowers the flag or fills the sets it works on.
LEMMA ScopeStep ==
    ASSUME IInv, [Next]_vars
    PROVE  TargetsFlagged' /\ SyncScope'
<1> USE DEF IInv, TargetsFlagged, SyncScope
<1>1. CASE Plan
  BY <1>1 DEF Plan, BeginSync, Reconcile, Forget, HasUrl
<1>2. CASE ReceiveDoc
  <2>1. UNCHANGED <<topologyDirty, dirtySet, syncVars>> /\ pc' # "start"
    BY <1>2 DEF ReceiveDoc, Reloaded, flagVars, Ask, AskAiOrCams
  <2>. QED BY <2>1 DEF syncVars
<1>3. CASE Top \/ Wake
  BY <1>3 DEF Top, Wake, Ask, AskAiOrCams, flagVars, syncVars
<1>4. ASSUME NEW c \in Cameras, StartOne(c) \/ StopOne(c)
      PROVE  TargetsFlagged' /\ SyncScope'
  BY <1>4 DEF StartOne, StopOne, HasUrl, loopVars, flagVars
<1>5. CASE Started
  BY <1>5 DEF Started, Stale, flagVars
<1>6. CASE Synced
  BY <1>6 DEF Synced, Reconcile, Forget
<1>7. CASE DbAnswers \/ DbFails
  BY <1>7 DEF DbAnswers, DbFails, flagVars, syncVars, HasUrl
<1>8. ASSUME NEW c \in Cameras, SignalTopology(c)
      PROVE  TargetsFlagged' /\ SyncScope'
  BY <1>8 DEF SignalTopology, loopVars, syncVars, HasUrl
<1>9. CASE UNCHANGED <<pc, topologyDirty, dirtySet, syncVars>>
  BY <1>9 DEF syncVars, HasUrl
<1>. QED BY <1>1, <1>2, <1>3, <1>4, <1>5, <1>6, <1>7, <1>8, <1>9
     DEF Next, Supervisor, Sync, Signal, Edit, SignalConfig, EditDoc, Patch, WritePatch,
         EditCamera, Expire, loopVars, flagVars, vars

\* The inductive invariant holds at first and is preserved by every step.
THEOREM Invariance == Spec => []IInv
<1>1. ASSUME Init PROVE IInv
  <2>1. /\ pc = "asked" /\ query \in Docs \cup {"cams"} /\ reply \in 0..MaxChanges
        /\ changes \in 0..MaxChanges /\ memory \in [Docs -> 0..MaxChanges]
        /\ stored \in [Docs -> 0..MaxChanges]
    BY <1>1, ConfigsAssumption DEF Init, Docs
  <2>2. dirty \in [Kinds -> BOOLEAN] /\ expired \in [Kinds \cup {"topology"} -> BOOLEAN]
    BY <1>1 DEF Init
  <2>3. booting \in BOOLEAN /\ topologyDirty \in BOOLEAN /\ partial \in BOOLEAN
        /\ patching \in BOOLEAN
    BY <1>1 DEF Init
  <2>4. /\ dirtySet = {} /\ only = {} /\ todo = {} /\ tasks = {} /\ signalDue = {}
    BY <1>1 DEF Init
  <2>5. snapshot \in [Cameras -> CameraStates] /\ camera \in [Cameras -> CameraStates]
    BY <1>1 DEF Init, Nothing, CameraStates
  <2>6. workers \in [Cameras -> Configs \cup {None}]
    BY <1>1 DEF Init
  <2>7. TypeOK
    BY <2>1, <2>2, <2>3, <2>4, <2>5, <2>6 DEF TypeOK
  <2>. QED BY <2>1, <2>4, <2>7 DEF IInv, TargetsFlagged, SyncScope
<1>2. IInv /\ [Next]_vars => IInv'
  <2>1. ASSUME IInv, UNCHANGED vars PROVE TypeOK'
    BY <2>1 DEF IInv, TypeOK, vars, loopVars, flagVars, syncVars, fleetVars, dbVars
  <2>. QED BY <2>1, CycleTypeStep, OutsideTypeStep, ScopeStep DEF IInv
<1>. QED BY <1>1, <1>2, PTL DEF Spec

\* The types hold whatever the fleet and the edits; in particular no worker is
\* ever started without an address.
THEOREM TypeCorrect == Spec => []TypeOK
<1>1. IInv => TypeOK
  BY DEF IInv
<1>. QED BY Invariance, <1>1, PTL

\* A targeted camera always waits behind a raised flag.
THEOREM TargetsNeverForgotten == Spec => []TargetsFlagged
<1>1. IInv => TargetsFlagged
  BY DEF IInv
<1>. QED BY Invariance, <1>1, PTL

\* The worker of a camera that a partial sync does not target is not touched.
THEOREM PartialSyncSurgical == Spec => PartialIsSurgical
<1> DEFINE A == \A c \in Cameras : partial /\ c \notin only => workers'[c] = workers[c]
<1>1. ASSUME IInv, [Next]_vars
      PROVE  [A]_vars
  <2>1. ASSUME NEW c \in Cameras, StartOne(c) \/ StopOne(c)
        PROVE  A
    <3>1. c \in todo /\ (partial => c \in only)
      BY <1>1, <2>1 DEF StartOne, StopOne, IInv, SyncScope
    <3>2. \A b \in Cameras : b # c => workers'[b] = workers[b]
      BY <1>1, <2>1 DEF StartOne, StopOne, IInv, TypeOK
    <3>. QED BY <3>1, <3>2
  <2>2. CASE UNCHANGED workers
    BY <2>2
  <2>3. UNCHANGED workers \/ \E c \in Cameras : StartOne(c) \/ StopOne(c)
    BY <1>1 DEF Next, Supervisor, Sync, Top, ReceiveDoc, Plan, Started, Synced, Wake,
       DbAnswers, DbFails, Signal, SignalConfig, SignalTopology, Edit, EditDoc, Patch,
       EditCamera, WritePatch, Expire, fleetVars, vars
  <2>. QED BY <2>1, <2>2, <2>3
<1>. QED BY <1>1, Invariance, PTL DEF Spec, PartialIsSurgical

\* Starting a worker is a Start of the registry, nothing at all, or a Hang.
LEMMA StartOneShown ==
    ASSUME IInv, NEW c \in Cameras, StartOne(c)
    PROVE  Registry!Next \/ UNCHANGED <<workers, pc = "hung">>
<1>1. pc = "start" /\ snapshot[c] \in Configs /\ workers \in [Cameras -> Configs \cup {None}]
  BY DEF StartOne, IInv, SyncScope, HasUrl, TypeOK, CameraStates
<1>2. CASE workers[c] = None
  <2>1. workers' = [workers EXCEPT ![c] = snapshot[c]] /\ pc' = pc
    BY <1>2 DEF StartOne
  <2>2. Registry!Start(c, snapshot[c])
    BY <1>1, <1>2, <2>1 DEF Registry!Start
  <2>. QED BY <1>1, <2>2 DEF Registry!Next
<1>3. CASE workers[c] = snapshot[c]
  <2>1. workers' = workers /\ pc' = pc
    BY <1>1, <1>3 DEF StartOne
  <2>. QED BY <2>1
<1>4. CASE workers[c] \notin {None, snapshot[c]}
  <2>1. pc' = "hung" /\ workers' = workers
    BY <1>4 DEF StartOne
  <2>2. Registry!Hang(c, snapshot[c])
    BY <1>1, <1>4, <2>1 DEF Registry!Hang
  <2>. QED BY <1>1, <2>2 DEF Registry!Next
<1>. QED BY <1>2, <1>3, <1>4

\* Stopping a worker is a Stop of the registry.
LEMMA StopOneShown ==
    ASSUME IInv, NEW c \in Cameras, StopOne(c)
    PROVE  Registry!Next \/ UNCHANGED <<workers, pc = "hung">>
<1>1. /\ pc = "stop" /\ pc' = pc /\ workers \in [Cameras -> Configs \cup {None}]
      /\ workers' = [workers EXCEPT ![c] = None]
  BY DEF StopOne, loopVars, IInv, TypeOK
<1>2. CASE workers[c] = None
  <2>1. workers' = workers
    BY <1>1, <1>2
  <2>. QED BY <1>1, <2>1
<1>3. CASE workers[c] # None
  <2>1. Registry!Stop(c)
    BY <1>1, <1>3 DEF Registry!Stop
  <2>. QED BY <2>1 DEF Registry!Next
<1>. QED BY <1>2, <1>3

\* Whatever the routes do, the supervisor's calls are among those that WorkerRegistry,
\* and so FrameSource, answers for.  Nothing wakes a supervisor that start() never
\* returned to: no worker of any camera changes after that.
THEOREM RegistryUsedAsPromised == Spec => RegistryUsed
<1>1. Init => Registry!Init
  BY DEF Init, Registry!Init
<1>2. ASSUME IInv, [Next]_vars
      PROVE  [Registry!Next]_<<workers, pc = "hung">>
  <2>1. ASSUME NEW c \in Cameras, StartOne(c) \/ StopOne(c)
        PROVE  [Registry!Next]_<<workers, pc = "hung">>
    BY <1>2, <2>1, StartOneShown, StopOneShown
  <2>2. ASSUME UNCHANGED workers, pc' # "hung", pc # "hung"
        PROVE  [Registry!Next]_<<workers, pc = "hung">>
    BY <2>2
  <2>3. CASE UNCHANGED <<workers, pc>>
    BY <2>3
  <2>4. CASE Top \/ ReceiveDoc \/ Plan \/ Started \/ Synced \/ Wake \/ DbAnswers \/ DbFails
    <3>1. UNCHANGED workers /\ pc' # "hung" /\ pc # "hung"
      BY <2>4 DEF Top, ReceiveDoc, Plan, Started, Synced, Wake, DbAnswers, DbFails, Ask,
         AskAiOrCams, BeginSync, Reconcile, fleetVars
    <3>. QED BY <2>2, <3>1
  <2>. QED BY <1>2, <2>1, <2>3, <2>4 DEF Next, Supervisor, Sync, Signal, SignalConfig,
       SignalTopology, Edit, EditDoc, Patch, EditCamera, WritePatch, Expire, loopVars,
       fleetVars, vars
<1>. QED BY <1>1, <1>2, Invariance, PTL DEF Spec, RegistryUsed, Registry!Safe,
     Registry!vars
================================================================================
