-------------------------- MODULE CameraLoopProofs --------------------------
(***************************************************************************)
(* Proofs about the two ends of the loop that analyses a camera: how it    *)
(* gets its frames (FrameDelivery) and how it accumulates the plates of a  *)
(* cycle (AnprTracker).  FrameDelivery, for any number of workers, frames  *)
(* and loops: types, no lost wake-up, the owners of the entries, and that  *)
(* every step is a step of the feed, whose liveness is left to TLC.        *)
(* AnprTracker, for any vehicles, texts and thresholds: types, that an     *)
(* absent vehicle is forgotten in time, and that the announcements come in *)
(* pairs.                                                                  *)
(***************************************************************************)
EXTENDS FrameDelivery, AnprTracker, TLAPS

(***************************************************************************)
(* FrameDelivery                                                           *)
(***************************************************************************)

\* What the listing of the camera relies on: the next loop has done nothing yet.
NextLoopNew ==
    /\ task <= loops
    /\ \A l \in LoopIds : l > loops => pc[l] = "none" /\ last[l] = NoFrame

\* The second look comes with an entry registered, or already notified.
LookAgainRegistered ==
    \A l \in LoopIds : pc[l] = "lookAgain" => l \in waiters \cup woken

\* The inductive invariant.
IInv == /\ TypeOK
        /\ NextLoopNew
        /\ LookAgainRegistered
        /\ NoLostWakeup
        /\ EntriesAccounted

\* The latest frame is a frame or NoFrame, which are different.
LEMMA LatestType ==
    ASSUME TypeOK
    PROVE  /\ Latest \in Frames \cup {NoFrame}
           /\ NoFrame \notin Frames
<1>1. current # 0 => current \in WorkerIds
  BY BoundsAssumption DEF TypeOK, WorkerIds
<1>2. seq > 0 => seq \in 1..MaxFrames
  BY BoundsAssumption DEF TypeOK
<1>. QED BY <1>1, <1>2 DEF TypeOK, Latest, Frames, NoFrame

\* The loops and the supervisor leave the frame on offer alone.
LEMMA LoopStep ==
    ASSUME NEW l \in LoopIds, Consumer(l) \/ Timeout(l)
    PROVE  UNCHANGED <<workerVars, frameVars, reader, taskVars, Latest>>
BY DEF Consumer, Begin, Look, Register, LookAgain, Woken, Analyse, Timeout,
       workerVars, frameVars, taskVars, Latest

\* What a loop takes is what is on offer.
LEMMA TakeStep ==
    ASSUME NEW l \in LoopIds, Consumer(l) \/ Timeout(l)
    PROVE  last' = last \/ (Latest # NoFrame /\ last' = [last EXCEPT ![l] = Latest])
BY DEF Consumer, Begin, Look, Register, LookAgain, Woken, Analyse, Timeout, Take, IsNew

\* A step of a loop moves that loop and changes no entry but its own.
LEMMA OwnStep ==
    ASSUME NEW l \in LoopIds, Consumer(l) \/ Timeout(l), TypeOK
    PROVE  /\ pc' \in [LoopIds -> {"none", "created", "look", "register", "lookAgain",
                                   "wait", "analyse", "cancelled", "gone"}]
           /\ waiters' \subseteq waiters \cup {l} /\ woken' \subseteq woken
           /\ \A k \in LoopIds \ {l} :
                 /\ pc'[k] = pc[k]
                 /\ k \in waiters' <=> k \in waiters
                 /\ k \in woken' <=> k \in woken
                 /\ last'[k] = last[k]
           /\ pc[l] # "none"
<1>1. CASE Begin(l)
  BY <1>1 DEF Begin, Goto, NextTurn, TypeOK
<1>2. CASE Look(l)
  BY <1>2 DEF Look, Take, Goto, TypeOK
<1>3. CASE Register(l)
  BY <1>3 DEF Register, Goto, TypeOK
<1>4. CASE LookAgain(l)
  BY <1>4 DEF LookAgain, Take, Goto, Leave, TypeOK
<1>5. CASE Woken(l)
  BY <1>5 DEF Woken, Take, Goto, Leave, NextTurn, TypeOK
<1>6. CASE Analyse(l)
  BY <1>6 DEF Analyse, Goto, NextTurn, TypeOK
<1>7. CASE Timeout(l)
  BY <1>7 DEF Timeout, Goto, Leave, NextTurn, TypeOK
<1>. QED BY <1>1, <1>2, <1>3, <1>4, <1>5, <1>6, <1>7 DEF Consumer

\* A delisting moves no loop but the camera's, and that one only to its end.
LEMMA DelistStep ==
    ASSUME TypeOK, Delist
    PROVE  /\ task \in LoopIds /\ task' = 0
           /\ UNCHANGED <<workerVars, frameVars, reader, loops, waiters, last>>
           /\ \/ UNCHANGED <<pc, woken>>
              \/ /\ pc[task] = "wait" /\ woken' = woken \ {task}
                 /\ pc' = [pc EXCEPT ![task] = "cancelled"]
              \/ /\ pc[task] \in {"created", "analyse"} /\ woken' = woken
                 /\ pc' = [pc EXCEPT ![task] = "gone"]
<1>1. task \in LoopIds
  BY BoundsAssumption DEF Delist, TypeOK, LoopIds
<1>. QED BY <1>1 DEF Delist, CancelTask, CancelMissed, Goto, Leave

\* The types are preserved by every step.
LEMMA TypeStep ==
    ASSUME TypeOK, [Next]_vars
    PROVE  TypeOK'
<1> USE BoundsAssumption
<1>1. CASE StartWorker
  BY <1>1 DEF StartWorker, TypeOK, frameVars, loopVars, taskVars, WorkerIds
<1>2. CASE StopWorker
  <2>1. current' = 0 /\ seq' = 0 /\ fresh' \in BOOLEAN
    BY <1>2 DEF StopWorker
  <2>2. UNCHANGED <<born, reader, task, loops, pc, waiters, woken, last>>
    BY <1>2 DEF StopWorker, loopVars, taskVars
  <2>. QED BY <2>1, <2>2 DEF TypeOK
<1>3. ASSUME NEW w \in WorkerIds, Gate(w) PROVE TypeOK'
  BY <1>3 DEF Gate, TypeOK, workerVars, frameVars, loopVars, taskVars
<1>4. ASSUME NEW w \in WorkerIds, Publish(w) PROVE TypeOK'
  <2>1. fresh' \in BOOLEAN
    BY <1>4 DEF Publish, TypeOK, frameVars
  <2>2. seq' \in 0..MaxFrames /\ (seq' > 0 => current # 0)
    BY <1>4 DEF Publish, TypeOK, frameVars, WorkerIds
  <2>. QED BY <1>4, <2>1, <2>2 DEF Publish, TypeOK, workerVars, loopVars, taskVars
<1>5. ASSUME NEW w \in WorkerIds, Notify(w) PROVE TypeOK'
  BY <1>5 DEF Notify, TypeOK, workerVars, frameVars, taskVars
<1>6. CASE Age
  BY <1>6 DEF Age, TypeOK, workerVars, loopVars, taskVars
<1>7. ASSUME NEW l \in LoopIds, Consumer(l) \/ Timeout(l) PROVE TypeOK'
  <2>1. last' \in [LoopIds -> Frames \cup {NoFrame}]
    BY <1>7, TakeStep, LatestType DEF TypeOK
  <2>. QED BY <1>7, <2>1, LoopStep, OwnStep DEF TypeOK, workerVars, frameVars, taskVars
<1>8. CASE List
  BY <1>8 DEF List, Goto, TypeOK, workerVars, frameVars, LoopIds
<1>9. CASE Delist
  BY <1>9, DelistStep DEF TypeOK, workerVars, frameVars
<1>10. CASE UNCHANGED vars
  BY <1>10 DEF TypeOK, vars, workerVars, frameVars, loopVars, taskVars
<1>. QED BY <1>1, <1>2, <1>3, <1>4, <1>5, <1>6, <1>7, <1>8, <1>9, <1>10
         DEF Next, Registry, Reader, Reconcile

\* How the frame on offer can change: the workers change it, the loops never.
LEMMA LatestStep ==
    ASSUME TypeOK, [Next]_vars
    PROVE  \/ Latest' = Latest
           \/ UNCHANGED loopVars /\ Latest' = NoFrame
           \/ /\ UNCHANGED <<loopVars, current>>
              /\ current # 0 /\ Publish(current)
              /\ Latest' \in Frames /\ Latest' # Latest
<1> USE BoundsAssumption
<1>1. CASE StartWorker
  BY <1>1 DEF StartWorker, Latest, TypeOK, frameVars
<1>2. CASE StopWorker
  BY <1>2 DEF StopWorker, Latest
<1>3. ASSUME NEW w \in WorkerIds, Gate(w) \/ Notify(w)
      PROVE  Latest' = Latest
  BY <1>3 DEF Gate, Notify, Latest, workerVars, frameVars
<1>4. CASE Age
  BY <1>4 DEF Age, Latest
<1>5. ASSUME NEW w \in WorkerIds, Publish(w)
      PROVE  \/ Latest' = Latest
             \/ /\ UNCHANGED <<loopVars, current>>
                /\ current # 0 /\ Publish(current)
                /\ Latest' \in Frames /\ Latest' # Latest
  <2>1. CASE w # current
    BY <1>5, <2>1 DEF Publish, Latest, workerVars, frameVars
  <2>2. CASE w = current
    <3>1. /\ seq' = seq + 1 /\ fresh' = TRUE /\ seq < MaxFrames
          /\ UNCHANGED <<current, loopVars>>
      BY <1>5, <2>2 DEF Publish, workerVars
    <3>2. seq \in Nat /\ current # 0
      BY <2>2 DEF TypeOK, WorkerIds
    <3>3. Latest' = [worker |-> current, seq |-> seq + 1]
      BY <3>1, <3>2 DEF Latest
    <3>4. Latest' \in Frames
      BY <3>1, <3>2, <3>3, <2>2 DEF Frames
    <3>5. Latest.seq \in {-1, seq}
      BY DEF Latest, NoFrame
    <3>6. Latest' # Latest
      BY <3>2, <3>3, <3>5
    <3>. QED BY <1>5, <2>2, <3>1, <3>2, <3>4, <3>6
  <2>. QED BY <2>1, <2>2
<1>6. ASSUME NEW l \in LoopIds, Consumer(l) \/ Timeout(l)
      PROVE  Latest' = Latest
  BY <1>6, LoopStep
<1>7. CASE Reconcile
  BY <1>7 DEF Reconcile, List, Delist, Latest, workerVars, frameVars
<1>8. CASE UNCHANGED vars
  BY <1>8 DEF vars, Latest, workerVars, frameVars
<1>. QED BY <1>1, <1>2, <1>3, <1>4, <1>5, <1>6, <1>7, <1>8 DEF Next, Registry, Reader

\* The loops come in the order of their numbers.
LEMMA NextLoopStep ==
    ASSUME IInv, [Next]_vars
    PROVE  NextLoopNew'
<1> USE DEF NextLoopNew
<1>1. CASE List
  BY <1>1, BoundsAssumption DEF List, Goto, IInv, TypeOK, LoopIds
<1>2. CASE Delist
  BY <1>2, DelistStep, BoundsAssumption DEF IInv, TypeOK, LoopIds
<1>3. ASSUME NEW l \in LoopIds, Consumer(l) \/ Timeout(l)
      PROVE  NextLoopNew'
  BY <1>3, LoopStep, OwnStep DEF IInv, taskVars
<1>4. ASSUME UNCHANGED <<taskVars, pc, last>>
      PROVE  NextLoopNew'
  BY <1>4 DEF IInv, taskVars
<1>5. CASE UNCHANGED vars \/ Registry \/ Age \/ \E w \in WorkerIds : Reader(w)
  BY <1>4, <1>5 DEF vars, loopVars, Registry, StartWorker, StopWorker, Age, Reader, Gate,
                    Publish, Notify
<1>. QED BY <1>1, <1>2, <1>3, <1>5 DEF Next, Reconcile

\* What the entries and the events promise a loop asleep survives each step.
LEMMA WaitStep ==
    ASSUME IInv, [Next]_vars
    PROVE  LookAgainRegistered' /\ NoLostWakeup' /\ EntriesAccounted'
<1> DEFINE Goal == LookAgainRegistered' /\ NoLostWakeup' /\ EntriesAccounted'
<1> USE DEF LookAgainRegistered, NoLostWakeup, EntriesAccounted
<1>1. ASSUME UNCHANGED <<pc, waiters, woken, last>>, Latest' \in {Latest, NoFrame},
             Latest = NoFrame \/ Latest' = NoFrame \/ reader[current] # "published"
                \/ reader'[current'] = "published"
      PROVE  Goal
  BY <1>1 DEF IInv, IsNew
<1>2. ASSUME NEW w \in WorkerIds, Publish(w), w = current
      PROVE  Goal
  <2>1. UNCHANGED <<current, pc, waiters, woken>> /\ reader'[current] = "published"
    BY <1>2 DEF Publish, IInv, TypeOK, workerVars, loopVars
  <2>. QED BY <2>1 DEF IInv
<1>3. ASSUME NEW w \in WorkerIds, Notify(w)
      PROVE  Goal
  <2>1. /\ woken' = woken \cup {l \in waiters : pc[l] # "cancelled"}
        /\ waiters' = {} /\ pc' = pc
    BY <1>3 DEF Notify
  <2>. QED BY <2>1 DEF IInv, TypeOK
<1>4. CASE Registry \/ Age
  <2>1. Latest' = NoFrame
    BY <1>4 DEF Registry, StartWorker, StopWorker, Age, Latest, IInv, TypeOK, frameVars
  <2>. QED BY <1>1, <1>4, <2>1 DEF Registry, StartWorker, StopWorker, Age, loopVars
<1>5. ASSUME NEW w \in WorkerIds, Gate(w) \/ (Publish(w) /\ w # current)
      PROVE  Goal
  <2>1. UNCHANGED <<current, pc, waiters, woken, last, Latest>>
    BY <1>5 DEF Gate, Publish, workerVars, frameVars, loopVars, Latest
  <2>2. current \in WorkerIds /\ reader[current] = "published"
           => reader'[current] = "published"
    BY <1>5 DEF Gate, Publish, IInv, TypeOK
  <2>3. Latest # NoFrame => current \in WorkerIds
    BY BoundsAssumption DEF Latest, IInv, TypeOK, WorkerIds
  <2>. QED BY <1>1, <2>1, <2>2, <2>3
<1>6. ASSUME NEW l \in LoopIds, Consumer(l) \/ Timeout(l)
      PROVE  Goal
  <2>1. UNCHANGED <<current, reader, Latest>>
    BY <1>6, LoopStep DEF workerVars
  <2>2. /\ waiters' \subseteq waiters \cup {l} /\ woken' \subseteq woken
        /\ \A k \in LoopIds \ {l} : /\ pc'[k] = pc[k]
                                    /\ k \in waiters' <=> k \in waiters
                                    /\ k \in woken' <=> k \in woken
                                    /\ IsNew(k)' <=> IsNew(k)
    BY <1>6, <2>1, OwnStep DEF IInv, IsNew
  <2>3. ASSUME /\ pc'[l] = "lookAgain" => l \in waiters' \cup woken'
               /\ pc'[l] = "wait" /\ l \notin woken' =>
                     l \in waiters' /\ (IsNew(l)' => reader[current] = "published")
               /\ l \in waiters' => l \notin woken' /\ pc'[l] \in {"lookAgain", "wait"}
               /\ l \in woken' => pc'[l] \in {"lookAgain", "wait"}
        PROVE  Goal
    BY <2>1, <2>2, <2>3 DEF IInv, TypeOK
  <2>4. CASE Begin(l) \/ Look(l) \/ Analyse(l)
    <3>1. UNCHANGED <<waiters, woken>> /\ l \notin waiters \cup woken
          /\ pc'[l] \in {"look", "gone", "analyse", "register"}
      BY <2>4 DEF Begin, Look, Analyse, Take, Goto, NextTurn, IInv, TypeOK
    <3>. QED BY <2>3, <3>1
  <2>5. CASE Register(l)
    BY <2>3, <2>5 DEF Register, Goto, IInv, TypeOK
  <2>6. CASE LookAgain(l) /\ ~IsNew(l)
    <3>1. pc[l] = "lookAgain" /\ pc'[l] = "wait" /\ UNCHANGED <<waiters, woken, last>>
      BY <2>6 DEF LookAgain, Goto, IInv, TypeOK
    <3>2. ~IsNew(l)'
      BY <2>1, <2>6, <3>1 DEF IsNew
    <3>. QED BY <2>3, <3>1, <3>2 DEF IInv
  <2>7. CASE (LookAgain(l) /\ IsNew(l)) \/ Timeout(l)
    <3>1. l \notin waiters' \cup woken' /\ pc'[l] \in {"analyse", "look", "gone"}
      BY <2>7 DEF LookAgain, Timeout, Take, Goto, Leave, NextTurn, IInv, TypeOK
    <3>. QED BY <2>3, <3>1
  <2>8. CASE Woken(l)
    <3>1. l \notin waiters' \cup woken' /\ pc'[l] \in {"analyse", "look", "gone"}
      BY <2>8 DEF Woken, Take, Goto, Leave, NextTurn, IInv, TypeOK
    <3>. QED BY <2>3, <3>1
  <2>. QED BY <1>6, <2>4, <2>5, <2>6, <2>7, <2>8 DEF Consumer
<1>7. CASE List
  <2>1. /\ UNCHANGED <<current, reader, waiters, woken, last, Latest>>
        /\ loops + 1 \in LoopIds /\ pc' = [pc EXCEPT ![loops + 1] = "created"]
    BY <1>7, BoundsAssumption DEF List, Goto, workerVars, frameVars, Latest, IInv, TypeOK,
                                  LoopIds
  <2>2. pc[loops + 1] = "none"
    BY <2>1, BoundsAssumption DEF IInv, NextLoopNew, TypeOK
  <2>. QED BY <2>1, <2>2 DEF IInv, TypeOK, IsNew
<1>8. CASE Delist
  <2>1. /\ UNCHANGED <<current, reader, waiters, last, Latest>> /\ task \in LoopIds
        /\ \/ UNCHANGED <<pc, woken>>
           \/ /\ pc[task] = "wait" /\ woken' = woken \ {task}
              /\ pc' = [pc EXCEPT ![task] = "cancelled"]
           \/ /\ pc[task] \in {"created", "analyse"} /\ woken' = woken
              /\ pc' = [pc EXCEPT ![task] = "gone"]
    BY <1>8, DelistStep DEF IInv, workerVars, frameVars, Latest
  <2>. QED BY <2>1 DEF IInv, TypeOK, IsNew
<1>9. CASE UNCHANGED vars
  BY <1>9, <1>1 DEF vars, workerVars, frameVars, loopVars, Latest
<1>. QED BY <1>2, <1>3, <1>4, <1>5, <1>6, <1>7, <1>8, <1>9 DEF Next, Reader, Reconcile

\* The inductive invariant holds at first and is preserved by every step.
THEOREM Invariance == Spec => []IInv
<1>1. Init => IInv
  <2> SUFFICES ASSUME Init PROVE IInv
    OBVIOUS
  <2>1. TypeOK
    <3>1. fresh \in BOOLEAN
      BY DEF Init
    <3>. QED BY <3>1, BoundsAssumption DEF Init, TypeOK
  <2>2. NextLoopNew /\ LookAgainRegistered /\ NoLostWakeup /\ EntriesAccounted
    BY DEF Init, NextLoopNew, LookAgainRegistered, NoLostWakeup, EntriesAccounted
  <2>. QED BY <2>1, <2>2 DEF IInv
<1>2. IInv /\ [Next]_vars => IInv'
  BY TypeStep, NextLoopStep, WaitStep DEF IInv
<1>. QED BY <1>1, <1>2, PTL DEF Spec

\* The types hold for any number of workers, frames and loops.
THEOREM TypeCorrect == Spec => []TypeOK
<1>1. IInv => TypeOK
  BY DEF IInv
<1>. QED BY Invariance, <1>1, PTL

\* A sleeping loop is never forgotten: it is registered, and a new frame it
\* does not know of is about to be notified.
THEOREM WakeupsKept == Spec => []NoLostWakeup
<1>1. IInv => NoLostWakeup
  BY DEF IInv
<1>. QED BY Invariance, <1>1, PTL

\* Every entry has an owner: a loop that waits and was not woken, or one whose wait was
\* ended by a cancellation, the only end that leaves an entry behind.
THEOREM EntriesOwned == Spec => []EntriesAccounted
<1>1. IInv => EntriesAccounted
  BY DEF IInv
<1>. QED BY Invariance, <1>1, PTL

\* The delivery refines the safety part of the abstract feed: initial states map
\* to initial states, and each step to a step of the feed or a stutter.
THEOREM FeedRefined == Spec => OnlyOfferedTaken
<1>1. Init => Feed!Init
  BY BoundsAssumption DEF Init, Feed!Init, Latest
<1>2. ASSUME IInv, [Next]_vars
      PROVE  [Feed!Next]_(Feed!vars)
  <2>1. ASSUME NEW l \in LoopIds, Consumer(l) \/ Timeout(l)
        PROVE  [Feed!Next]_(Feed!vars)
    <3>1. Latest' = Latest /\ task' = task
      BY <2>1, LoopStep DEF taskVars
    <3>. QED BY <2>1, <3>1, TakeStep DEF Feed!Next, Feed!Take, Feed!vars
  <2>2. CASE List
    <3>1. /\ Latest' = Latest /\ last' = last
          /\ task = 0 /\ task' = loops + 1 /\ loops < MaxLoops
      BY <2>2 DEF List, workerVars, frameVars, Latest
    <3>2. loops \in Nat /\ loops + 1 \in LoopIds
      BY <1>2, <3>1, BoundsAssumption DEF IInv, TypeOK, LoopIds
    <3>3. last[loops + 1] = NoFrame /\ loops + 1 # 0
      BY <1>2, <3>2 DEF IInv, NextLoopNew
    <3>4. {task} \ {0} = {} /\ ({task} \ {0})' = {loops + 1}
      BY <3>1, <3>3
    <3>5. Feed!Join(loops + 1)
      BY <3>1, <3>3, <3>4 DEF Feed!Join
    <3>. QED BY <3>5, <3>2 DEF Feed!Next
  <2>3. CASE Delist
    <3>1. Latest' = Latest /\ last' = last /\ task # 0 /\ task' = 0
      BY <2>3 DEF Delist, workerVars, frameVars, Latest
    <3>2. Feed!Leave
      BY <3>1 DEF Feed!Leave
    <3>. QED BY <3>2 DEF Feed!Next
  <2>4. CASE UNCHANGED vars \/ Registry \/ Age \/ \E w \in WorkerIds : Reader(w)
    <3>1. UNCHANGED <<last, task>>
      BY <2>4 DEF vars, loopVars, taskVars, Registry, StartWorker, StopWorker, Age, Reader,
                  Gate, Publish, Notify
    <3>2. ASSUME Latest' # Latest
          PROVE  Latest' \in Frames \/ (Latest # NoFrame /\ Latest' = NoFrame)
      BY <1>2, <3>2, LatestStep DEF IInv
    <3>. QED BY <3>1, <3>2 DEF Feed!Next, Feed!Offer, Feed!Withdraw, Feed!vars
  <2>. QED BY <1>2, <2>1, <2>2, <2>3, <2>4 DEF Next, Reconcile
<1>. QED BY <1>1, <1>2, Invariance, PTL DEF Spec, OnlyOfferedTaken, Feed!Safe

(***************************************************************************)
(* AnprTracker                                                             *)
(***************************************************************************)

\* The misses the code counts are at least those in a row: a reading, which alone
\* resets the count, comes from a vehicle that the cycle has seen.
Counted ==
    /\ \A t \in seen : missed[t] = 0
    /\ \A t \in known \cap Tracks : missed[t] <= lost[t]

\* An ENTRY is open exactly for the vehicles of the table that were announced.
Paired == /\ open = {k \in known : emitted[k]}
          /\ \A k \in Keys : emitted[k] => k \in known

\* The inductive invariant.
TrackerInvariant == TrackerTypeOK /\ Counted /\ Paired

\* The world and the beginning of a cycle leave the table of vehicles alone.
LEMMA WorldStep ==
    ASSUME TrackerInvariant, World \/ \E s \in SUBSET scene : Detect(s)
    PROVE  TrackerInvariant'
<1> USE DEF TrackerInvariant, TrackerTypeOK, Counted, Paired, tableVars, historyVars,
            worldVars, Keys
<1>1. ASSUME NEW t \in Tracks, Arrive(t) \/ Depart(t)
      PROVE  TrackerInvariant'
  BY <1>1 DEF Arrive, Depart
<1>2. ASSUME NEW k \in Keys, GrowOld(k)
      PROVE  TrackerInvariant'
  <2>1. stale' \in [Keys -> BOOLEAN]
    BY <1>2 DEF GrowOld
  <2>. QED BY <1>2, <2>1 DEF GrowOld
<1>3. ASSUME NEW s \in SUBSET scene, Detect(s)
      PROVE  TrackerInvariant'
  <2>1. missed' \in [Tracks -> 0..LostCycles]
    BY <1>3, AnprAssumption DEF Detect
  <2>2. \A t \in Tracks : missed'[t] = 0 \/ missed'[t] = missed[t]
    BY <1>3 DEF Detect
  <2>3. \A t \in seen' : missed'[t] = 0
    BY <1>3 DEF Detect
  <2>4. \A t \in known \cap Tracks : missed'[t] <= lost[t]
    BY <2>2, AnprAssumption
  <2>. QED BY <1>3, <2>1, <2>3, <2>4 DEF Detect
<1>. QED BY <1>1, <1>2, <1>3 DEF World

\* A reading restarts the count of a vehicle that was not missed.
LEMMA RecordStep ==
    ASSUME TrackerInvariant, NEW k \in Keys, Record(k)
    PROVE  TrackerInvariant'
<1> USE AnprAssumption DEF Keys
<1>1. /\ readings' \in [Keys -> 0..MinReadings]
      /\ lost' \in [Keys -> 0..(LostCycles - 1)]
      /\ known' \subseteq Keys
  BY DEF Record, OneMore, TrackerInvariant, TrackerTypeOK
<1>2. stale' \in [Keys -> BOOLEAN]
  BY DEF Record, TrackerInvariant, TrackerTypeOK
<1>3. /\ emitted' \in [Keys -> BOOLEAN]
      /\ news' \subseteq {"ENTRY", "EXIT"} \X Keys
      /\ open' \subseteq Keys /\ stay' \subseteq Tracks
  <2>1. emitted' \in [Keys -> BOOLEAN] /\ open' \subseteq Keys /\ stay' \subseteq Tracks
    BY DEF Record, TrackerInvariant, TrackerTypeOK
  <2>2. news' = {} \/ news' = {Entry(k)}
    BY DEF Record
  <2>. QED BY <2>1, <2>2 DEF Entry
<1>4. TrackerTypeOK'
  BY <1>1, <1>2, <1>3 DEF Record, worldVars, TrackerInvariant, TrackerTypeOK
<1>5. Counted'
  <2>1. ASSUME NEW t \in known' \cap Tracks
        PROVE  missed'[t] <= lost'[t]
    <3>1. CASE t = k
      BY <3>1 DEF Record, Counted, TrackerInvariant, TrackerTypeOK
    <3>2. CASE t # k
      BY <3>2 DEF Record, Counted, TrackerInvariant, TrackerTypeOK
    <3>. QED BY <3>1, <3>2
  <2>. QED BY <2>1 DEF Record, Counted, TrackerInvariant
<1>6. Paired'
  <2>1. CASE Announces(k)
    BY <2>1 DEF Record, Announces, Paired, TrackerInvariant, TrackerTypeOK
  <2>2. CASE ~Announces(k)
    <3>1. k \in known => k \in known'
      BY DEF Record
    <3>2. k \notin known => ~emitted[k]
      BY DEF Paired, TrackerInvariant
    <3>. QED BY <2>2, <3>1, <3>2 DEF Record, Paired, TrackerInvariant, TrackerTypeOK
  <2>. QED BY <2>1, <2>2
<1>. QED BY <1>4, <1>5, <1>6 DEF TrackerInvariant

\* A tick forgets every vehicle whose count reaches the threshold.
LEMMA TickStep ==
    ASSUME TrackerInvariant, Tick
    PROVE  TrackerInvariant'
<1> USE AnprAssumption DEF Keys
<1>1. /\ known' = known \ Forgotten /\ open' = open \ Forgotten
      /\ Unseen = known \ seen /\ Forgotten \subseteq Unseen
  BY DEF Tick, Forgotten, Left, Orphans, Unseen
<1>2. \A k \in Keys : /\ k \in Forgotten => lost'[k] = 0
                      /\ k \in Unseen \ Forgotten => lost'[k] = lost[k] + 1
                      /\ k \notin Unseen => lost'[k] = lost[k]
  BY <1>1 DEF Tick
<1>3. \A k \in Unseen \ Forgotten : lost[k] + 1 < LostCycles
  BY DEF Forgotten, Left, Unseen, TrackerInvariant, TrackerTypeOK
<1>4. lost' \in [Keys -> 0..(LostCycles - 1)]
  <2>1. \A k \in Keys : lost'[k] \in 0..(LostCycles - 1)
    BY <1>1, <1>2, <1>3 DEF TrackerInvariant, TrackerTypeOK
  <2>. QED BY <2>1 DEF Tick
<1>5. missed' \in [Tracks -> 0..LostCycles]
  BY DEF Tick, TrackerInvariant, TrackerTypeOK
<1>6. readings' \in [Keys -> 0..MinReadings]
  BY DEF Tick, TrackerInvariant, TrackerTypeOK
<1>7. emitted' \in [Keys -> BOOLEAN] /\ stale' \in [Keys -> BOOLEAN]
  BY DEF Tick
<1>8. news' \subseteq {"ENTRY", "EXIT"} \X Keys
  BY DEF Tick, Left, Unseen, Exit, TrackerInvariant, TrackerTypeOK
<1>9. TrackerTypeOK'
  BY <1>1, <1>4, <1>5, <1>6, <1>7, <1>8 DEF Tick, worldVars, TrackerInvariant, TrackerTypeOK
<1>10. Counted'
  <2>1. ASSUME NEW t \in known' \cap Tracks
        PROVE  missed'[t] <= lost'[t]
    <3>1. CASE t \in seen
      BY <1>1, <1>2, <3>1 DEF Tick, Counted, TrackerInvariant, TrackerTypeOK
    <3>2. CASE t \notin seen
      <4>1. lost'[t] = lost[t] + 1 /\ missed[t] <= lost[t]
        BY <1>1, <1>2, <3>2 DEF Counted, TrackerInvariant
      <4>2. missed'[t] = missed[t] \/ missed'[t] = missed[t] + 1
        BY DEF Tick
      <4>3. missed[t] \in Nat /\ lost[t] \in Nat
        BY DEF TrackerInvariant, TrackerTypeOK
      <4>. QED BY <4>1, <4>2, <4>3
    <3>. QED BY <3>1, <3>2
  <2>. QED BY <2>1 DEF Tick, Counted
<1>11. Paired'
  <2>1. \A k \in Keys : emitted'[k] <=> (emitted[k] /\ k \notin Forgotten)
    BY DEF Tick
  <2>. QED BY <1>1, <2>1 DEF Paired, TrackerInvariant, TrackerTypeOK
<1>. QED BY <1>9, <1>10, <1>11 DEF TrackerInvariant

\* The inductive invariant holds at first and is preserved by every step.
THEOREM TrackerInvariance == TrackerSpec => []TrackerInvariant
<1>1. TrackerInit => TrackerInvariant
  <2>1. TrackerInit => TrackerTypeOK
    BY AnprAssumption DEF TrackerInit, TrackerTypeOK, Keys
  <2>. QED BY <2>1 DEF TrackerInit, TrackerInvariant, Counted, Paired, Keys
<1>2. TrackerInvariant /\ [TrackerNext]_trackerVars => TrackerInvariant'
  <2>1. ASSUME TrackerInvariant, UNCHANGED trackerVars PROVE TrackerInvariant'
    BY <2>1 DEF TrackerInvariant, TrackerTypeOK, Counted, Paired, trackerVars, worldVars,
       tableVars, historyVars
  <2>. QED BY <2>1, WorldStep, RecordStep, TickStep DEF TrackerNext, Cycle
<1>. QED BY <1>1, <1>2, PTL DEF TrackerSpec

\* The types hold whatever is seen and read; a vehicle in the table has been
\* missed less often than the threshold.
THEOREM TrackerTypes == TrackerSpec => []TrackerTypeOK
<1>1. TrackerInvariant => TrackerTypeOK
  BY DEF TrackerInvariant
<1>. QED BY TrackerInvariance, <1>1, PTL

\* A vehicle that LostCycles ticks in a row did not see has left the table.
THEOREM AbsentVehiclesForgotten == TrackerSpec => []AbsentForgotten
<1>1. TrackerInvariant => AbsentForgotten
  <2>1. ASSUME TrackerInvariant, NEW t \in known \cap Tracks PROVE missed[t] < LostCycles
    <3>1. lost[t] \in 0..(LostCycles - 1) /\ missed[t] \in 0..LostCycles
      BY <2>1 DEF TrackerInvariant, TrackerTypeOK, Keys
    <3>2. missed[t] <= lost[t]
      BY <2>1 DEF TrackerInvariant, Counted
    <3>. QED BY <3>1, <3>2, AnprAssumption
  <2>. QED BY <2>1 DEF AbsentForgotten
<1>. QED BY TrackerInvariance, <1>1, PTL

\* An EXIT answers an open ENTRY, and an ENTRY opens what was not open.
THEOREM AnnouncementsPaired == TrackerSpec => EventsPaired
<1> DEFINE A == \A k \in Keys : /\ Entry(k) \in news' => k \notin open
                                /\ Exit(k) \in news' => k \in open
<1>1. ASSUME TrackerInvariant, [TrackerNext]_trackerVars
      PROVE  [A]_trackerVars
  <2>1. ASSUME NEW k \in Keys, Record(k) PROVE A
    BY <1>1, <2>1 DEF Record, Announces, Entry, Exit, TrackerInvariant, Paired
  <2>2. CASE Tick
    BY <1>1, <2>2 DEF Tick, Left, Unseen, Entry, Exit, TrackerInvariant, Paired
  <2>3. CASE news' = {}
    BY <2>3
  <2>. QED BY <1>1, <2>1, <2>2, <2>3 DEF TrackerNext, World, Cycle, Arrive, Depart,
       GrowOld, Detect
<1>. QED BY <1>1, TrackerInvariance, PTL DEF TrackerSpec, EventsPaired

(***************************************************************************)
(* Where a stay has one ENTRY                                              *)
(***************************************************************************)

\* The plate of a vehicle that comes back into view is read before the cycle ends, and
\* no vehicle stays for ten minutes without a reading.
ReadWhenSeen ==
    /\ \A k \in Keys : ~stale'[k]
    /\ cycle = "ocr" /\ cycle' = "idle" => \A t \in seen \cap known : lost[t] = 0

\* The count of the code is the number of ticks in a row that missed the vehicle, and
\* a vehicle that stays is in the table.
StayKept ==
    /\ cycle = "idle" => seen = {}
    /\ \A k \in Keys : ~stale[k]
    /\ \A t \in (known \cap Tracks) \ seen : lost[t] <= missed[t]
    /\ \A t \in stay : t \in known /\ emitted[t]

\* A tick that forgets a vehicle ends its stay: both counts reach the threshold.
LEMMA StayTickStep ==
    ASSUME TrackerInvariant, StayKept, Tick, ReadWhenSeen
    PROVE  StayKept'
<1> USE AnprAssumption DEF Keys
<1>1. /\ seen' = {} /\ known' = known \ Forgotten
      /\ Unseen = known \ seen /\ Forgotten \subseteq Unseen
  BY DEF Tick, Forgotten, Left, Orphans, Unseen
<1>2. Forgotten = Left
  BY DEF Forgotten, Orphans, Unseen, Left, StayKept, TrackerInvariant, TrackerTypeOK
<1>3. \A t \in Tracks : /\ missed[t] \in 0..LostCycles /\ lost[t] \in 0..(LostCycles - 1)
                        /\ missed'[t] = IF t \in seen \/ missed[t] = LostCycles
                                        THEN missed[t] ELSE missed[t] + 1
  BY DEF Tick, TrackerInvariant, TrackerTypeOK
<1>4. \A k \in Keys : ~stale'[k]
  BY DEF ReadWhenSeen
<1>5. ASSUME NEW t \in known' \cap Tracks
      PROVE  lost'[t] <= missed'[t]
  <2>1. CASE t \in seen
    <3>1. t \in Keys /\ t \notin Unseen /\ t \notin Forgotten
      BY <1>1, <1>5, <2>1
    <3>2. lost'[t] = lost[t]
      BY <3>1 DEF Tick
    <3>3. lost[t] = 0
      BY <1>1, <1>5, <2>1 DEF ReadWhenSeen, Tick
    <3>. QED BY <1>3, <3>2, <3>3
  <2>2. CASE t \notin seen
    <3>1. t \in Unseen \ Forgotten
      BY <1>1, <1>5, <2>2
    <3>2. lost'[t] = lost[t] + 1
      BY <3>1 DEF Tick
    <3>3. lost[t] <= missed[t] /\ lost[t] + 1 < LostCycles
      BY <1>2, <1>3, <2>2, <3>1 DEF StayKept, Unseen, Left
    <3>. QED BY <1>3, <2>2, <3>2, <3>3
  <2>. QED BY <2>1, <2>2
<1>6. ASSUME NEW t \in stay'
      PROVE  t \in known' /\ emitted'[t]
  <2>1. t \in stay /\ t \in Tracks /\ missed'[t] < LostCycles /\ t \in known /\ emitted[t]
    BY <1>6 DEF Tick, StayKept, TrackerInvariant, TrackerTypeOK
  <2>2. t \notin Left
    <3>1. SUFFICES ASSUME t \in Left PROVE FALSE
      OBVIOUS
    <3>2. t \notin seen /\ lost[t] + 1 >= LostCycles /\ lost[t] <= missed[t]
      BY <2>1, <3>1 DEF Left, Unseen, StayKept
    <3>. QED BY <1>3, <2>1, <3>2
  <2>3. emitted'[t] = (emitted[t] /\ t \notin Forgotten)
    BY <2>1 DEF Tick
  <2>. QED BY <1>1, <1>2, <2>1, <2>2, <2>3
<1>. QED BY <1>1, <1>4, <1>5, <1>6 DEF StayKept

\* The other steps shorten no stay and count no miss.
LEMMA StayStep ==
    ASSUME TrackerInvariant, StayKept, [TrackerNext]_trackerVars, [ReadWhenSeen]_trackerVars
    PROVE  StayKept'
<1> USE DEF Keys
<1>1. CASE UNCHANGED trackerVars
  BY <1>1 DEF StayKept, trackerVars, worldVars, tableVars, historyVars
<1>2. ASSUME NEW t \in Tracks, Arrive(t) \/ Depart(t) PROVE StayKept'
  BY <1>2 DEF Arrive, Depart, StayKept, tableVars, historyVars
<1>3. ASSUME NEW k \in Keys, GrowOld(k) PROVE StayKept'
  <2>1. stale'[k] /\ ~stale[k]
    BY <1>3 DEF GrowOld, TrackerInvariant, TrackerTypeOK
  <2>2. ~UNCHANGED trackerVars
    BY <2>1 DEF trackerVars, tableVars
  <2>. QED BY <2>1, <2>2 DEF ReadWhenSeen
<1>4. ASSUME NEW s \in SUBSET scene, Detect(s) PROVE StayKept'
  <2>1. /\ seen = {} /\ seen' = s /\ cycle' = "ocr"
        /\ UNCHANGED <<known, readings, emitted, lost, stale, stay>>
    BY <1>4 DEF Detect, tableVars, StayKept
  <2>2. \A t \in Tracks \ s : missed'[t] = missed[t]
    BY <1>4 DEF Detect
  <2>. QED BY <2>1, <2>2 DEF StayKept
<1>5. ASSUME NEW k \in Keys, Record(k) PROVE StayKept'
  <2>1. /\ cycle = "ocr" /\ k \in seen \cup Texts /\ UNCHANGED <<cycle, seen, missed>>
        /\ known' = known \cup {k}
    BY <1>5 DEF Record
  <2>2. \A t \in Tracks \ {k} : lost'[t] = lost[t]
    BY <1>5 DEF Record, TrackerInvariant, TrackerTypeOK
  <2>3. \A j \in Keys : ~stale'[j]
    BY <1>5 DEF Record, StayKept, TrackerInvariant, TrackerTypeOK
  <2>4. \A t \in stay' : t \in known' /\ emitted'[t]
    <3>1. CASE Announces(k)
      <4>1. /\ emitted' = [emitted EXCEPT ![k] = TRUE]
            /\ stay' = stay \cup ({k} \cap Tracks)
        BY <1>5, <3>1 DEF Record
      <4>. QED BY <2>1, <4>1 DEF StayKept, TrackerInvariant, TrackerTypeOK
    <3>2. CASE ~Announces(k)
      BY <1>5, <2>1, <3>2 DEF Record, StayKept
    <3>. QED BY <3>1, <3>2
  <2>. QED BY <2>1, <2>2, <2>3, <2>4, AnprAssumption DEF StayKept
<1>6. ASSUME Tick PROVE StayKept'
  <2>1. ~UNCHANGED trackerVars
    BY <1>6 DEF Tick, trackerVars
  <2>. QED BY <1>6, <2>1, StayTickStep
<1>. QED BY <1>1, <1>2, <1>3, <1>4, <1>5, <1>6 DEF TrackerNext, World, Cycle

\* What the run anpr_tracker_stay finds needs one of two things: a vehicle that the
\* cycles see again without reading its plate, whose earlier misses then still count, or
\* one that stays for ten minutes unread.  Wherever plates are read as often as vehicles
\* are seen again, the promise of the docstring is kept.
THEOREM OneEntryWhenRead == TrackerSpec /\ [][ReadWhenSeen]_trackerVars => OneEntryPerStay
<1> DEFINE A == \A t \in Tracks : Entry(t) \in news' => t \notin stay
<1>1. TrackerInit => StayKept
  BY DEF TrackerInit, StayKept, Keys
<1>2. ASSUME TrackerInvariant, StayKept, [TrackerNext]_trackerVars
      PROVE  [A]_trackerVars
  <2>1. ASSUME NEW k \in Keys, Record(k) PROVE A
    BY <1>2, <2>1 DEF Record, Announces, Entry, StayKept
  <2>2. CASE Tick
    BY <2>2 DEF Tick, Entry, Exit
  <2>3. CASE news' = {}
    BY <2>3
  <2>. QED BY <1>2, <2>1, <2>2, <2>3 DEF TrackerNext, World, Cycle, Arrive, Depart,
       GrowOld, Detect
<1>. QED BY <1>1, <1>2, StayStep, TrackerInvariance, PTL DEF TrackerSpec, OneEntryPerStay
================================================================================
