----------------------------- MODULE FrameDelivery -----------------------------
(***************************************************************************)
(* How the frames of one camera reach its analysis loop: the reader thread *)
(* of frame_source.py publishes a frame and then wakes the waiters; the    *)
(* coroutine _camera_loop of ai_engine.py runs wait_for_new_frame(), which *)
(* looks, registers, looks again and sleeps.  The worker may be stopped    *)
(* and replaced meanwhile, and its old reader thread may outlive it; the   *)
(* loop may be cancelled and replaced, and miss its cancellation.          *)
(*                                                                         *)
(* The four assignments that publish a frame contain no call, and neither  *)
(* does the pair (latest_frame, latest_seq) the consumer returns: each is  *)
(* one step for threads that share the interpreter lock.                   *)
(***************************************************************************)
EXTENDS Integers

CONSTANTS MaxWorkers,  \* how many workers the camera gets: bounds the restarts
          MaxFrames,   \* frames per worker
          MaxLoops     \* how many loops it gets: bounds the listings

ASSUME BoundsAssumption ==
    MaxWorkers \in Nat \ {0} /\ MaxFrames \in Nat \ {0} /\ MaxLoops \in Nat

VARIABLES
    current,   \* _workers[camera_id]: the number of the worker, 0 if there is none
    born,      \* how many workers were created
    seq,       \* its latest_seq; 0: no worker, or no frame yet
    fresh,     \* its latest frame is not older than max_age_sec
    reader,    \* where the reader thread of each worker is
    task,      \* the number of the loop in _camera_tasks, 0 if the camera is not listed
    loops,     \* how many loops were created
    pc,        \* where each loop is
    waiters,   \* _frame_waiters[camera_id]: the loops whose entry is in it
    woken,     \* the loops whose wait in progress had ev.set() called
    last       \* the last frame a loop took; the code keeps its number, last_seq

workerVars == <<current, born>>
frameVars == <<seq, fresh>>
taskVars == <<task, loops>>
loopVars == <<taskVars, pc, waiters, woken, last>>
vars == <<workerVars, frameVars, reader, loopVars>>

WorkerIds == 1..MaxWorkers
LoopIds == 1..MaxLoops
Frames == [worker : WorkerIds, seq : 1..MaxFrames]
NoFrame == [worker |-> 0, seq |-> -1]

(***************************************************************************)
(* The registry, reduced to what a consumer can see of it                  *)
(***************************************************************************)

StartWorker ==
    /\ current = 0 /\ born < MaxWorkers
    /\ born' = born + 1
    /\ current' = born'
    /\ reader' = [reader EXCEPT ![born'] = "gate"]
    /\ UNCHANGED <<frameVars, loopVars>>

\* stop() need not find the reader thread ended when it returns; nobody looks at the
\* frames of a worker that is not registered any more.
StopWorker ==
    /\ current # 0
    /\ current' = 0 /\ seq' = 0 /\ fresh' = FALSE
    /\ UNCHANGED <<born, reader, loopVars>>

(***************************************************************************)
(* The reader thread of worker w                                           *)
(***************************************************************************)

\* The stop_event of a worker that is not registered any more is set.
Gate(w) ==
    /\ reader[w] = "gate"
    /\ reader' = [reader EXCEPT ![w] = IF w = current THEN "reading" ELSE "dead"]
    /\ UNCHANGED <<workerVars, frameVars, loopVars>>

\* The notification of an earlier frame is over when the next one is read.
Publish(w) ==
    /\ reader[w] = "reading"
    /\ reader' = [reader EXCEPT ![w] = "published"]
    /\ \/ /\ w = current /\ seq < MaxFrames
          /\ seq' = seq + 1 /\ fresh' = TRUE
       \/ /\ w # current
          /\ UNCHANGED frameVars
    /\ UNCHANGED <<workerVars, loopVars>>

\* Mutant: the list of waiters is cleared before it is copied.
NotifyNobody(w) ==
    /\ reader[w] = "published"
    /\ reader' = [reader EXCEPT ![w] = "gate"]
    /\ waiters' = {}
    /\ UNCHANGED <<workerVars, frameVars, taskVars, pc, woken, last>>

\* _notify_new_frame(): the waiters of the camera, whichever worker calls; nobody
\* hears the event of a loop that was cancelled.
Notify(w) ==
    /\ reader[w] = "published"
    /\ reader' = [reader EXCEPT ![w] = "gate"]
    /\ woken' = woken \cup {l \in waiters : pc[l] # "cancelled"}
    /\ waiters' = {}
    /\ UNCHANGED <<workerVars, frameVars, taskVars, pc, last>>

\* Time passes: the frame gets older than max_age_sec.
Age ==
    /\ fresh
    /\ fresh' = FALSE
    /\ UNCHANGED <<workerVars, seq, reader, loopVars>>

(***************************************************************************)
(* The analysis loops: coroutines of one event loop                        *)
(***************************************************************************)

\* The result of get_latest_frame_seq().
Latest == IF seq > 0 /\ fresh THEN [worker |-> current, seq |-> seq] ELSE NoFrame

IsNew(l) == Latest # NoFrame /\ Latest.seq # last[l].seq

Goto(l, p) == pc' = [pc EXCEPT ![l] = p]
Take(l) == last' = [last EXCEPT ![l] = Latest] /\ Goto(l, "analyse")

\* A wait is over, and with it its event.
Leave(l) == woken' = woken \ {l}

\* A coroutine resumes when no other one is between two awaits.
Turn == \A l \in LoopIds : pc[l] \notin {"look", "register", "lookAgain"}

\* The top of the loop: without a spec the loop returns.
NextTurn == IF task = 0 THEN "gone" ELSE "look"

Begin(l) ==
    /\ pc[l] = "created" /\ Turn
    /\ Goto(l, NextTurn)
    /\ UNCHANGED <<workerVars, frameVars, reader, taskVars, waiters, woken, last>>

Look(l) ==
    /\ pc[l] = "look"
    /\ \/ /\ IsNew(l)
          /\ Take(l)
       \/ /\ ~IsNew(l)
          /\ Goto(l, "register")
          /\ UNCHANGED last
    /\ UNCHANGED <<workerVars, frameVars, reader, taskVars, waiters, woken>>

\* A new Event, and its entry in _frame_waiters.
Register(l) ==
    /\ pc[l] = "register"
    /\ waiters' = waiters \cup {l}
    /\ Goto(l, "lookAgain")
    /\ UNCHANGED <<workerVars, frameVars, reader, taskVars, woken, last>>

\* Mutant: no second look after the registration.
SleepAtOnce(l) ==
    /\ pc[l] = "lookAgain"
    /\ Goto(l, "wait")
    /\ UNCHANGED <<workerVars, frameVars, reader, taskVars, waiters, woken, last>>

LookAgain(l) ==
    /\ pc[l] = "lookAgain"
    /\ \/ /\ IsNew(l)
          /\ Take(l)
          /\ waiters' = waiters \ {l}
          /\ Leave(l)
       \/ /\ ~IsNew(l)
          /\ Goto(l, "wait")
          /\ UNCHANGED <<waiters, woken, last>>
    /\ UNCHANGED <<workerVars, frameVars, reader, taskVars>>

\* Mutant: the woken consumer ignores the age of the frame.
WokenTakesAnyFrame(l) ==
    /\ pc[l] = "wait" /\ l \in woken /\ Turn
    /\ Leave(l)
    /\ \/ /\ seq > 0
          /\ last' = [last EXCEPT ![l] = [worker |-> current, seq |-> seq]]
          /\ Goto(l, "analyse")
       \/ /\ Latest = NoFrame
          /\ Goto(l, NextTurn)
          /\ UNCHANGED last
    /\ UNCHANGED <<workerVars, frameVars, reader, taskVars, waiters>>

\* The wait is over: the latest frame is returned without comparing its number.
\* When there is none the loop starts again.
Woken(l) ==
    /\ pc[l] = "wait" /\ l \in woken /\ Turn
    /\ Leave(l)
    /\ \/ /\ Latest # NoFrame
          /\ Take(l)
       \/ /\ Latest = NoFrame
          /\ Goto(l, NextTurn)
          /\ UNCHANGED last
    /\ UNCHANGED <<workerVars, frameVars, reader, taskVars, waiters>>

\* Mutant: a wait that times out leaves its entry behind.
TimeoutKeepsEntry(l) ==
    /\ pc[l] = "wait" /\ Turn
    /\ Leave(l)
    /\ Goto(l, NextTurn)
    /\ UNCHANGED <<workerVars, frameVars, reader, taskVars, waiters, last>>

\* wait_for() may expire although ev.set() is already on its way.
Timeout(l) ==
    /\ pc[l] = "wait" /\ Turn
    /\ waiters' = waiters \ {l}
    /\ Leave(l)
    /\ Goto(l, NextTurn)
    /\ UNCHANGED <<workerVars, frameVars, reader, taskVars, last>>

\* _process_camera(), which may fail: the loop goes on all the same.  A pass of a
\* burst waits for a frame without a look for the spec.
Analyse(l) ==
    /\ pc[l] = "analyse" /\ Turn
    /\ \E p \in {NextTurn, "look"} : Goto(l, p)
    /\ UNCHANGED <<workerVars, frameVars, reader, taskVars, waiters, woken, last>>

(***************************************************************************)
(* _reconcile_camera_tasks(), for this camera                              *)
(***************************************************************************)

List ==
    /\ task = 0 /\ loops < MaxLoops /\ Turn
    /\ loops' = loops + 1
    /\ task' = loops'
    /\ Goto(loops', "created")
    /\ UNCHANGED <<workerVars, frameVars, reader, waiters, woken, last>>

\* The task is cancelled at its await.  CancelledError ends a wait without
\* _drop_waiter(): only asyncio.TimeoutError is handled there.
CancelTask ==
    \/ /\ pc[task] = "wait"
       /\ Goto(task, "cancelled") /\ Leave(task)
    \/ /\ pc[task] \in {"created", "analyse"}
       /\ Goto(task, "gone") /\ UNCHANGED woken

\* wait_for() swallows a cancellation that comes when what it waits for is there: the
\* event, or the place of a burst in the analysis.
CancelMissed ==
    /\ pc[task] = "analyse" \/ (pc[task] = "wait" /\ task \in woken)
    /\ UNCHANGED <<pc, woken>>

Delist ==
    /\ task # 0 /\ Turn
    /\ task' = 0
    /\ CancelTask \/ CancelMissed
    /\ UNCHANGED <<workerVars, frameVars, reader, loops, waiters, last>>

(***************************************************************************)
(* Specification                                                           *)
(***************************************************************************)

Init ==
    /\ current = 0 /\ born = 0
    /\ seq = 0 /\ fresh = FALSE
    /\ reader = [w \in WorkerIds |-> "unborn"]
    /\ task = 0 /\ loops = 0
    /\ pc = [l \in LoopIds |-> "none"]
    /\ waiters = {} /\ woken = {}
    /\ last = [l \in LoopIds |-> NoFrame]

Registry == StartWorker \/ StopWorker
Reader(w) == Gate(w) \/ Publish(w) \/ Notify(w)
Consumer(l) == Begin(l) \/ Look(l) \/ Register(l) \/ LookAgain(l) \/ Woken(l) \/ Analyse(l)
Reconcile == List \/ Delist

Next == \/ Registry \/ Age \/ Reconcile
        \/ \E w \in WorkerIds : Reader(w)
        \/ \E l \in LoopIds : Consumer(l) \/ Timeout(l)

Spec == Init /\ [][Next]_vars

\* The event loop runs what is ready in turn, and a reader thread that published a
\* frame notifies.  The timeout of the wait is not assumed to fire: nobody relies on
\* polling.
FairSpec == /\ Spec
            /\ \A l \in LoopIds : SF_vars(Consumer(l))
            /\ \A w \in WorkerIds : WF_vars(Notify(w))

(***************************************************************************)
(* Properties                                                              *)
(***************************************************************************)

\* The types of all variables; a frame taken for analysis is a frame.
TypeOK ==
    /\ current \in 0..MaxWorkers /\ born \in 0..MaxWorkers
    /\ seq \in 0..MaxFrames /\ fresh \in BOOLEAN
    /\ seq > 0 => current # 0
    /\ reader \in [WorkerIds -> {"unborn", "gate", "reading", "published", "dead"}]
    /\ task \in 0..MaxLoops /\ loops \in 0..MaxLoops
    /\ pc \in [LoopIds -> {"none", "created", "look", "register", "lookAgain", "wait",
                           "analyse", "cancelled", "gone"}]
    /\ waiters \subseteq LoopIds /\ woken \subseteq LoopIds
    /\ last \in [LoopIds -> Frames \cup {NoFrame}]

\* No wake-up is lost, whatever the other loop of the camera does: a loop asleep with
\* no wake-up on its way is among the waiters, and if a frame it would take exists, a
\* notification is to come.
NoLostWakeup ==
    \A l \in LoopIds :
        pc[l] = "wait" /\ l \notin woken =>
            /\ l \in waiters
            /\ IsNew(l) => reader[current] = "published"

\* An entry of _frame_waiters belongs to a loop that waits and was not woken, or to one
\* that was cancelled in its wait: no other end of a wait (second look, wake-up, timeout,
\* a cancellation that comes too late) leaves it behind.  The entries of cancelled loops
\* stay until the next frame, although the comment on line 544 says that single use
\* avoids it.
EntriesAccounted ==
    /\ \A l \in waiters : l \notin woken /\ pc[l] \in {"lookAgain", "wait", "cancelled"}
    /\ \A l \in woken : pc[l] \in {"lookAgain", "wait"}

Feed == INSTANCE FrameFeed
            WITH offered <- Latest, owner <- {task} \ {0}

\* A loop takes nothing but the fresh frame of the registered worker, and whatever the
\* workers, their old readers and the other loops do, its steps are steps of the feed.
OnlyOfferedTaken == Feed!Safe

\* A fresh frame with a new number does not wait for ever for the camera's loop, even if
\* no other frame follows and no timeout fires: the liveness of the feed.
NewFrameTaken == Feed!Live
================================================================================
