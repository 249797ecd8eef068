--------------------------- MODULE CameraTasksProofs ---------------------------
(***************************************************************************)
(* Proofs about CameraTasks for any cameras, any number of tasks, places   *)
(* in the bursts, passes and downstream jobs: types, burst places,         *)
(* downstream counts and ownership of the running loops.                   *)
(***************************************************************************)
EXTENDS CameraTasks, FiniteSetTheorems, TLAPS

\* A place in the bursts is held by a task that waits or analyses; no task runs
\* before it is created.
Shape == \A t \in Tasks : /\ left[t] > 0 => pc[t] \in {"wait", "woken", "analyse"}
                          /\ t > born => pc[t] = "unborn"

\* A camera's registered task is one of its own.
Registration == \A c \in Cameras : registered[c] # 0 => camera[registered[c]] = c

\* The inductive invariant; the upper bound of the free places follows from it.
IInv == /\ FleetTypes /\ LoopTypes /\ DownTypes /\ free \in Nat
        /\ Shape /\ Registration
        /\ SlotsAccounted /\ DownstreamAccounted /\ LoopsAccounted

LEMMA Initial == Init => IInv
<1>. SUFFICES ASSUME Init PROVE IInv
  OBVIOUS
<1>1. FleetTypes /\ LoopTypes /\ DownTypes /\ free \in Nat
  <2>1. (CHOOSE c \in Cameras : TRUE) \in Cameras
    BY TasksAssumption
  <2>. QED BY <2>1, TasksAssumption DEF Init, FleetTypes, LoopTypes, DownTypes, PCs
<1>2. Shape /\ Registration /\ DownstreamAccounted /\ LoopsAccounted
  BY DEF Init, Shape, Registration, DownstreamAccounted, LoopsAccounted, Live
<1>3. SlotsAccounted
  <2>1. Bursting = {}
    BY DEF Init, Bursting
  <2>. QED BY <2>1, FS_EmptySet, TasksAssumption DEF Init, SlotsAccounted
<1>. QED BY <1>1, <1>2, <1>3 DEF IInv

(***************************************************************************)
(* What the steps have in common                                           *)
(***************************************************************************)

\* A step of a loop moves one live task and changes nothing of the fleet.
LEMMA LoopMoves ==
  ASSUME LoopTypes, NEW t \in Tasks, Loop(t)
  PROVE  /\ pc' = [pc EXCEPT ![t] = pc'[t]] /\ pc'[t] \in PCs \ {"unborn"}
         /\ Live(t)
         /\ UNCHANGED <<fleetVars, escaped>>
<1>. USE DEF LoopTypes, Goto, Turn, PCs, Live
<1>1. CASE Start(t) BY <1>1 DEF Start
<1>2. CASE Wake(t) BY <1>2 DEF Wake
<1>3. CASE NoFrame(t) BY <1>3 DEF NoFrame
<1>4. CASE Analyse(t) BY <1>4 DEF Analyse
<1>5. CASE AnalysisFails(t) BY <1>5 DEF AnalysisFails
<1>6. CASE Dropped(t) BY <1>6 DEF Dropped, EndPass
<1>7. CASE Reported(t) BY <1>7 DEF Reported, EndPass
<1>8. CASE Grant(t) BY <1>8 DEF Grant
<1>9. CASE SkipBurst(t) BY <1>9 DEF SkipBurst
<1>10. CASE BeginBurst(t) BY <1>10 DEF BeginBurst
<1>. QED BY <1>1, <1>2, <1>3, <1>4, <1>5, <1>6, <1>7, <1>8, <1>9, <1>10 DEF Loop

\* How a step of task t treats the places: t keeps what it has, takes a place or
\* gives its place back, and no other task is disturbed.
Holds(t) == left[t] > 0 \/ pc[t] = "granted"
Keeps(t) == (Holds(t)' <=> Holds(t)) /\ free' = free
Takes(t) == ~Holds(t) /\ Holds(t)' /\ free > 0 /\ free' = free - 1
GivesBack(t) == Holds(t) /\ ~Holds(t)' /\ free' = free + 1
Accounts(t) == /\ Keeps(t) \/ Takes(t) \/ GivesBack(t)
               /\ \A u \in Tasks \ {t} : Holds(u)' <=> Holds(u)
               /\ left' \in [Tasks -> 0..ExtraPasses]

\* The end of a burst, in the next state of a task that is not granted a place.
LEMMA Leaving ==
  ASSUME LoopTypes, Shape, NEW t \in Tasks, LeaveBurst(t),
         pc[t] # "granted", pc'[t] # "granted",
         \A u \in Tasks \ {t} : pc'[u] = pc[u]
  PROVE  Accounts(t)
BY TasksAssumption DEF LoopTypes, Shape, LeaveBurst, Accounts, Keeps, GivesBack, Holds

\* Every step of a loop treats the places so.
LEMMA LoopAccounts ==
  ASSUME LoopTypes, Shape, free \in Nat, NEW t \in Tasks, Loop(t)
  PROVE  Accounts(t)
<1>. USE DEF LoopTypes, Goto
<1>0. ASSUME UNCHANGED burstVars, pc[t] # "granted", pc'[t] # "granted",
             \A u \in Tasks \ {t} : pc'[u] = pc[u]
      PROVE  Accounts(t)
  BY <1>0 DEF Accounts, Keeps, Holds, burstVars
<1>1. CASE Start(t) BY <1>0, <1>1 DEF Start, Turn
<1>2. CASE Wake(t) BY <1>0, <1>2 DEF Wake
<1>3. CASE NoFrame(t) BY <1>3, Leaving DEF NoFrame, Turn
<1>4. CASE Analyse(t) BY <1>0, <1>4 DEF Analyse
<1>5. CASE AnalysisFails(t) BY <1>5, Leaving DEF AnalysisFails, Turn
<1>6. ASSUME EndPass(t), pc[t] = "analyse" PROVE Accounts(t)
  <2>1. CASE left[t] > 1
    BY <1>6, <2>1, TasksAssumption DEF EndPass, Accounts, Keeps, Holds
  <2>2. CASE ~(left[t] > 1)
    BY <1>6, <2>2, Leaving DEF EndPass, Turn
  <2>. QED BY <2>1, <2>2
<1>7. CASE Dropped(t) BY <1>6, <1>7 DEF Dropped
<1>8. CASE Reported(t) BY <1>0, <1>6, <1>8 DEF Reported
<1>9. CASE Grant(t) BY <1>9 DEF Grant, Shape, Accounts, Takes, Holds
<1>10. CASE SkipBurst(t) BY <1>0, <1>10 DEF SkipBurst, Turn
<1>11. CASE BeginBurst(t)
  BY <1>11, TasksAssumption DEF BeginBurst, Accounts, Keeps, Holds
<1>. QED BY <1>1, <1>2, <1>3, <1>4, <1>5, <1>7, <1>8, <1>9, <1>10, <1>11 DEF Loop

\* And so does a cancellation.
LEMMA CancelAccounts ==
  ASSUME LoopTypes, Shape, NEW t \in Tasks, Cancel(t)
  PROVE  Accounts(t)
<1>1. CASE pc[t] \in {"woken", "granted"}
  BY <1>1 DEF Cancel, Accounts, Keeps, Holds, burstVars, LoopTypes
<1>2. CASE pc[t] \notin {"woken", "granted"}
  BY <1>2, Leaving DEF Cancel, Goto, LoopTypes
<1>. QED BY <1>1, <1>2

\* A step that treats the places so keeps their number.
LEMMA AccountsKeepPlaces ==
  ASSUME free \in Nat, SlotsAccounted, NEW t \in Tasks, Accounts(t)
  PROVE  SlotsAccounted' /\ free' \in Nat
<1>1. /\ IsFiniteSet(Bursting) /\ Cardinality(Bursting) \in Nat
  <2>1. IsFiniteSet(Tasks)
    BY FS_Interval, TasksAssumption DEF Tasks
  <2>2. Bursting \in SUBSET Tasks
    BY DEF Bursting
  <2>. QED BY <2>1, <2>2, FS_Subset, FS_CardinalityType
<1>2. \A u \in Tasks : u \in Bursting <=> Holds(u)
  BY DEF Bursting, Holds
<1>3. \A u \in Tasks : u \in Bursting' <=> Holds(u)'
  BY DEF Bursting, Holds
<1>4. Bursting \subseteq Tasks /\ Bursting' \subseteq Tasks
  BY DEF Bursting
<1>5. CASE Keeps(t)
  <2>1. Bursting' = Bursting
    BY <1>2, <1>3, <1>4, <1>5 DEF Accounts, Keeps
  <2>. QED BY <2>1, <1>5 DEF SlotsAccounted, Keeps
<1>6. CASE Takes(t)
  <2>1. Bursting' = Bursting \cup {t} /\ t \notin Bursting
    BY <1>2, <1>3, <1>4, <1>6 DEF Accounts, Takes
  <2>2. Cardinality(Bursting') = Cardinality(Bursting) + 1
    BY <2>1, <1>1, FS_AddElement
  <2>. QED BY <2>2, <1>1, <1>6 DEF SlotsAccounted, Takes
<1>7. CASE GivesBack(t)
  <2>1. Bursting' = Bursting \ {t} /\ t \in Bursting
    BY <1>2, <1>3, <1>4, <1>7 DEF Accounts, GivesBack
  <2>2. Cardinality(Bursting') = Cardinality(Bursting) - 1
    BY <2>1, <1>1, FS_RemoveElement
  <2>. QED BY <2>2, <1>1, <1>7 DEF SlotsAccounted, GivesBack
<1>. QED BY <1>5, <1>6, <1>7 DEF Accounts

(***************************************************************************)
(* The steps                                                               *)
(***************************************************************************)

\* A step of a loop.
LEMMA LoopStep ==
  ASSUME IInv, NEW t \in Tasks, Loop(t)
  PROVE  IInv'
<1>. USE DEF IInv
<1>1. /\ pc' = [pc EXCEPT ![t] = pc'[t]] /\ pc'[t] \in PCs \ {"unborn"}
      /\ Live(t)
      /\ UNCHANGED <<fleetVars, escaped>>
  BY LoopMoves
<1>2. Accounts(t)
  BY LoopAccounts
<1>3. SlotsAccounted' /\ free' \in Nat
  BY <1>2, AccountsKeepPlaces
<1>4. t \in 1..born
  BY <1>1 DEF Shape, Live, Tasks, FleetTypes
<1>5. analysing' \subseteq 1..born
  BY <1>4 DEF Loop, LoopTypes, Start, Wake, NoFrame, Analyse, AnalysisFails, Dropped,
     Reported, Grant, SkipBurst, BeginBurst
<1>6. FleetTypes' /\ LoopTypes'
  BY <1>1, <1>2, <1>5 DEF FleetTypes, LoopTypes, fleetVars, Accounts
<1>7. DownTypes' /\ DownstreamAccounted'
  <2>1. CASE Reported(t)
    BY <2>1, TasksAssumption
    DEF Reported, DownTypes, DownstreamAccounted, FleetTypes
  <2>2. CASE ~Reported(t)
    <3>1. UNCHANGED downVars
      BY <2>2 DEF Loop, Start, Wake, NoFrame, Analyse, AnalysisFails, Dropped, Grant,
         SkipBurst, BeginBurst
    <3>. QED BY <3>1 DEF DownTypes, DownstreamAccounted, downVars
  <2>. QED BY <2>1, <2>2
<1>8. Registration' /\ LoopsAccounted'
  BY <1>1 DEF Registration, LoopsAccounted, Live, fleetVars, LoopTypes
<1>9. Shape'
  <2>1. \A u \in Tasks : u > born' => pc'[u] = "unborn"
    <3>1. \A u \in Tasks : u > born => u # t
      BY <1>4, TasksAssumption DEF FleetTypes, Tasks
    <3>2. \A u \in Tasks : u # t => pc'[u] = pc[u]
      BY <1>1 DEF LoopTypes
    <3>3. born' = born
      BY <1>1 DEF fleetVars
    <3>. QED BY <3>1, <3>2, <3>3 DEF Shape
  <2>2. \A u \in Tasks : left'[u] > 0 => pc'[u] \in {"wait", "woken", "analyse"}
    <3>. USE DEF Shape, LoopTypes, Goto, Turn, LeaveBurst, burstVars
    <3>1. CASE Start(t) BY <3>1 DEF Start
    <3>2. CASE Wake(t) BY <3>2 DEF Wake
    <3>3. CASE NoFrame(t) BY <3>3 DEF NoFrame
    <3>4. CASE Analyse(t) BY <3>4 DEF Analyse
    <3>5. CASE AnalysisFails(t) BY <3>5 DEF AnalysisFails
    <3>6. ASSUME EndPass(t)
          PROVE  \A u \in Tasks : left'[u] > 0 => pc'[u] \in {"wait", "woken", "analyse"}
      BY <3>6, TasksAssumption DEF EndPass
    <3>7. CASE Dropped(t) BY <3>6, <3>7 DEF Dropped
    <3>8. CASE Reported(t) BY <3>6, <3>8 DEF Reported
    <3>9. CASE Grant(t) BY <3>9 DEF Grant
    <3>10. CASE SkipBurst(t) BY <3>10 DEF SkipBurst
    <3>11. CASE BeginBurst(t) BY <3>11 DEF BeginBurst
    <3>. QED BY <3>1, <3>2, <3>3, <3>4, <3>5, <3>7, <3>8, <3>9, <3>10, <3>11 DEF Loop
  <2>. QED BY <2>1, <2>2 DEF Shape
<1>. QED BY <1>3, <1>6, <1>7, <1>8, <1>9

\* A camera is listed.
LEMMA ListStep ==
  ASSUME IInv, NEW c \in Cameras, List(c)
  PROVE  IInv'
<1>. USE DEF IInv
<1>1. DownTypes' /\ DownstreamAccounted' /\ free' \in Nat
  BY DEF List, DownTypes, DownstreamAccounted, downVars, burstVars
<1>2. CASE Create(c)
  <2>1. born + 1 \in Tasks /\ pc[born + 1] = "unborn" /\ born' = born + 1
    BY <1>2, TasksAssumption DEF Create, Tasks, FleetTypes, Shape
  <2>2. pc' = [pc EXCEPT ![born + 1] = "new"]
    BY <1>2, <2>1 DEF Create, Goto
  <2>3. FleetTypes'
    <3>1. specs' \subseteq Cameras /\ born' \in 0..MaxTasks
      BY <2>1 DEF List, FleetTypes, Tasks
    <3>2. registered' = [registered EXCEPT ![c] = born + 1]
      BY <1>2, <2>1 DEF Create
    <3>3. registered' \in [Cameras -> 0..born']
      BY <2>1, <3>2 DEF FleetTypes
    <3>4. camera' \in [Tasks -> Cameras]
      BY <1>2 DEF Create, FleetTypes
    <3>. QED BY <3>1, <3>3, <3>4 DEF FleetTypes
  <2>4. LoopTypes'
    BY <2>1, <2>2 DEF List, LoopTypes, FleetTypes, burstVars, PCs
  <2>5. Shape'
    BY <2>1, <2>2 DEF List, Shape, burstVars, LoopTypes, FleetTypes, Tasks
  <2>6. Registration'
    BY <1>2, <2>1 DEF Create, Registration, FleetTypes, Tasks
  <2>7. registered[c] = 0 \/ ~Live(registered[c])
    BY <1>2, <2>1 DEF List, Live, FleetTypes
  <2>8. LoopsAccounted'
    <3>1. camera' = [camera EXCEPT ![born + 1] = c]
          /\ registered' = [registered EXCEPT ![c] = born + 1] /\ escaped' = escaped
      BY <1>2, <2>1 DEF Create, List
    <3>2. registered'[camera'[born + 1]] = born + 1
      BY <2>1, <3>1 DEF FleetTypes
    <3>3. ASSUME NEW u \in Tasks \ {born + 1}, Live(u)'
          PROVE  registered'[camera'[u]] = u \/ u \in escaped'
      <4>1. Live(u) /\ camera'[u] = camera[u] /\ camera[u] \in Cameras
        BY <2>2, <3>1, <3>3 DEF Live, LoopTypes, FleetTypes
      <4>2. registered[camera[u]] = u \/ u \in escaped
        BY <4>1 DEF LoopsAccounted
      <4>3. registered[c] # u
        BY <2>7, <4>1, TasksAssumption DEF Tasks
      <4>. QED BY <3>1, <4>1, <4>2, <4>3 DEF FleetTypes
    <3>. QED BY <3>2, <3>3 DEF LoopsAccounted
  <2>9. SlotsAccounted'
    <3>1. Bursting' = Bursting
      BY <2>1, <2>2 DEF List, Bursting, burstVars, LoopTypes
    <3>. QED BY <3>1 DEF List, SlotsAccounted, burstVars
  <2>. QED BY <1>1, <2>3, <2>4, <2>5, <2>6, <2>8, <2>9
<1>3. CASE UNCHANGED <<registered, born, camera, pc>>
  <2>1. FleetTypes' /\ LoopTypes' /\ Shape' /\ Registration' /\ LoopsAccounted'
    BY <1>3 DEF List, FleetTypes, LoopTypes, Shape, Registration, LoopsAccounted, Live,
       burstVars
  <2>2. SlotsAccounted'
    BY <1>3 DEF List, SlotsAccounted, Bursting, burstVars
  <2>. QED BY <1>1, <2>1, <2>2
<1>. QED BY <1>2, <1>3 DEF List

\* A camera is removed, and its task cancelled.
LEMMA DelistStep ==
  ASSUME IInv, NEW c \in Cameras, Delist(c)
  PROVE  IInv'
<1>. DEFINE t == registered[c]
<1>. USE DEF IInv
<1>1. t \in Tasks /\ t \in 1..born /\ camera[t] = c
  BY TasksAssumption DEF Delist, FleetTypes, Registration, Tasks
<1>2. DownTypes' /\ DownstreamAccounted' /\ UNCHANGED <<born, camera>>
      /\ registered' = [registered EXCEPT ![c] = 0]
  BY DEF Delist, DownTypes, DownstreamAccounted, downVars
<1>3. FleetTypes' /\ Registration'
  BY <1>2 DEF Delist, FleetTypes, Registration
<1>4. CASE UNCHANGED <<pc, burstVars, analysing, escaped>> /\ pc[t] = "done"
  <2>1. LoopTypes' /\ Shape' /\ LoopsAccounted' /\ free' \in Nat
    BY <1>1, <1>2, <1>4
    DEF LoopTypes, Shape, LoopsAccounted, Live, burstVars, FleetTypes, Registration
  <2>2. SlotsAccounted'
    BY <1>4 DEF SlotsAccounted, Bursting, burstVars
  <2>. QED BY <1>2, <1>3, <2>1, <2>2
<1>5. CASE Cancel(t)
  <2>1. Accounts(t)
    BY <1>1, <1>5, CancelAccounts
  <2>2. SlotsAccounted' /\ free' \in Nat
    BY <1>1, <2>1, AccountsKeepPlaces
  <2>3. \/ pc' = pc /\ left' = left /\ escaped' = escaped \cup {t}
        \/ /\ pc' = [pc EXCEPT ![t] = "done"] /\ escaped' = escaped
           /\ left' = [left EXCEPT ![t] = 0]
    BY <1>5 DEF Cancel, Goto, LeaveBurst, burstVars
  <2>4. analysing' \subseteq 1..born
    BY <1>5 DEF Cancel, LoopTypes
  <2>5. LoopTypes'
    BY <1>1, <1>2, <2>1, <2>3, <2>4 DEF LoopTypes, PCs, Accounts
  <2>6. Shape'
    <3>1. \A u \in Tasks : u > born => u # t
      BY <1>1, TasksAssumption DEF FleetTypes, Tasks
    <3>2. \A u \in Tasks \ {t} : pc'[u] = pc[u] /\ left'[u] = left[u]
      BY <2>3 DEF LoopTypes
    <3>3. \/ pc'[t] = pc[t] /\ left'[t] = left[t]
          \/ left'[t] = 0
      BY <1>1, <2>3 DEF LoopTypes
    <3>. QED BY <1>1, <1>2, <3>1, <3>2, <3>3 DEF Shape, FleetTypes
  <2>7. LoopsAccounted'
    BY <1>1, <1>2, <2>3 DEF LoopsAccounted, Live, LoopTypes, FleetTypes
  <2>. QED BY <1>2, <1>3, <2>2, <2>5, <2>6, <2>7
<1>. QED BY <1>4, <1>5 DEF Delist

\* A thread ends, or a downstream job.
LEMMA OutsideStep ==
  ASSUME IInv,
         \/ \E t \in Tasks : ThreadEnds(t)
         \/ \E c \in Cameras : JobEnds(c)
         \/ UNCHANGED vars
  PROVE  IInv'
<1>. USE DEF IInv
<1>1. UNCHANGED <<fleetVars, pc, burstVars, escaped>> /\ analysing' \subseteq analysing
  BY DEF ThreadEnds, JobEnds, vars
<1>2. DownTypes' /\ DownstreamAccounted'
  <2>1. ASSUME NEW c \in Cameras, JobEnds(c) PROVE DownTypes' /\ DownstreamAccounted'
    BY <2>1, TasksAssumption DEF JobEnds, DownTypes, DownstreamAccounted
  <2>2. CASE UNCHANGED downVars
    BY <2>2 DEF DownTypes, DownstreamAccounted, downVars
  <2>. QED BY <2>1, <2>2 DEF ThreadEnds, vars
<1>3. FleetTypes' /\ LoopTypes' /\ Shape' /\ Registration' /\ LoopsAccounted' /\ free' \in Nat
  BY <1>1 DEF FleetTypes, LoopTypes, Shape, Registration, LoopsAccounted, Live, fleetVars,
     burstVars
<1>4. SlotsAccounted'
  BY <1>1 DEF SlotsAccounted, Bursting, burstVars
<1>. QED BY <1>2, <1>3, <1>4

LEMMA Inductive == IInv /\ [Next]_vars => IInv'
<1>. SUFFICES ASSUME IInv, [Next]_vars PROVE IInv'
  OBVIOUS
<1>1. ASSUME NEW c \in Cameras, List(c) PROVE IInv'
  BY <1>1, ListStep
<1>2. ASSUME NEW c \in Cameras, Delist(c) PROVE IInv'
  BY <1>2, DelistStep
<1>3. ASSUME NEW t \in Tasks, Loop(t) PROVE IInv'
  BY <1>3, LoopStep
<1>. QED BY <1>1, <1>2, <1>3, OutsideStep DEF Next, Fleet

LEMMA Invariant == Spec => []IInv
BY Initial, Inductive, PTL DEF Spec

(***************************************************************************)
(* The theorems                                                            *)
(***************************************************************************)

\* Every variable keeps its type: the free places never exceed those the
\* semaphore of ai_engine.py:1004 was given.
THEOREM Types == Spec => []TypeOK
<1>1. IInv => TypeOK
  <2>. SUFFICES ASSUME IInv PROVE TypeOK
    OBVIOUS
  <2>1. IsFiniteSet(Tasks)
    BY FS_Interval, TasksAssumption DEF Tasks
  <2>2. Cardinality(Bursting) \in Nat
    <3>1. Bursting \in SUBSET Tasks
      BY DEF Bursting
    <3>. QED BY <2>1, <3>1, FS_Subset, FS_CardinalityType
  <2>. QED BY <2>2, TasksAssumption DEF IInv, SlotsAccounted, TypeOK
<1>. QED BY <1>1, Invariant, PTL

\* The free places and those held are all the places, and the downstream counter of a
\* camera is the number of its jobs, whatever cancellations, errors and timeouts
\* interrupt (ai_engine.py:918-948, 1053-1079).
THEOREM PlacesHold == Spec => []PlacesAccounted
<1>1. IInv => PlacesAccounted
  BY DEF IInv, PlacesAccounted
<1>. QED BY <1>1, Invariant, PTL

\* A running loop is the one its camera registered, or missed its cancellation
\* (ai_engine.py:1090-1112).
THEOREM LoopsHold == Spec => []LoopsAccounted
BY Invariant, PTL DEF IInv
================================================================================
