------------------------------ MODULE FrameSource ------------------------------
(***************************************************************************)
(* The registry of persistent ffmpeg workers (src/backend/frame_source.py):*)
(* start(), stop() and stop_all(), run by the AI supervisor and by the     *)
(* shutdown handler, against one reader thread per worker, which connects, *)
(* reads frames, retries and finally gives up.  Reconnections share a      *)
(* bounded semaphore.  What a frame is and who consumes it is left to      *)
(* FrameDelivery; delays are left out, a wait is a step that may come late.*)
(***************************************************************************)
EXTENDS Naturals, FiniteSets

CONSTANTS
    Cameras,        \* camera identifiers
    Configs,        \* the (url, codec, width, height) a worker is started with
    Workers,        \* _Worker objects that can be created: bounds the restarts
    MaxReconnects,  \* _MAX_CONCURRENT_RECONNECTS
    MaxFailures,    \* _MAX_CONSECUTIVE_FAILURES
    None            \* Python's None

\* The supervisor runs one start() or stop() at a time, in a pool thread;
\* stop_all() runs on the event loop when the server shuts down.
Callers == {"supervisor", "shutdown"}

ASSUME ConstantsAssumption ==
    /\ IsFiniteSet(Workers)
    /\ MaxReconnects \in Nat \ {0}
    /\ MaxFailures \in Nat \ {0}
    /\ None \notin Cameras \cup Configs \cup Workers \cup Callers

VARIABLES
    lock,        \* _workers_lock: the caller that holds it, or None
    workers,     \* _workers: camera -> worker, or None
    pc,          \* where each caller is
    target,      \* the camera a caller works on
    wanted,      \* the config of the start() in progress
    victim,      \* the worker a stop() has popped
    back,        \* where the stop() in progress returns to
    pendingStops,\* the cameras stop_all() has still to stop
    spec,        \* the camera and config a worker was created with
    phase,       \* where each reader thread is
    slot,        \* got_slot
    freeSlots,   \* _reconnect_semaphore
    proc,        \* the worker's ffmpeg process; off: none yet, or exited
    produced,    \* whether the current attempt has produced a frame
    stopEvent,   \* stop_event
    failures     \* consecutive_failures; gave_up is its reaching MaxFailures

callerVars == <<pc, target, wanted, victim, back, pendingStops>>
readerVars == <<phase, slot, freeSlots, produced, failures>>
vars == <<lock, workers, callerVars, spec, readerVars, proc, stopEvent>>

Phases == {"unborn", "top", "acquire", "spawn", "gate", "reading", "cleanup",
           "verdict", "dead"}
Processes == {"off", "running", "terminating"}
StopSteps == {"pop", "signal", "terminate", "join"}

(***************************************************************************)
(* Callers                                                                 *)
(***************************************************************************)

Goto(t, label) == pc' = [pc EXCEPT ![t] = label]

Unborn == {w \in Workers : phase[w] = "unborn"}

\* The event loop is blocked while stop_all() runs on it: no new call starts.
LoopFree == pc["shutdown"] \in {"idle", "done"}

\* The bound on Workers is in the guard: a start() always finds a fresh one.
CallStart(c, g) ==
    /\ pc["supervisor"] = "idle" /\ LoopFree /\ Unborn # {}
    /\ Goto("supervisor", "start")
    /\ target' = [target EXCEPT !["supervisor"] = c]
    /\ wanted' = g
    /\ UNCHANGED <<lock, workers, victim, back, pendingStops, spec, readerVars,
                   proc, stopEvent>>

EnterStart ==
    /\ pc["supervisor"] = "start"
    /\ lock = None
    /\ lock' = "supervisor"
    /\ Goto("supervisor", "body")
    /\ UNCHANGED <<workers, target, wanted, victim, back, pendingStops, spec,
                   readerVars, proc, stopEvent>>

\* Leaving the `with _workers_lock` of start().
LeaveStart ==
    /\ lock' = None
    /\ Goto("supervisor", "idle")
    /\ target' = [target EXCEPT !["supervisor"] = None]
    /\ wanted' = None
    /\ UNCHANGED <<victim, back, pendingStops, proc, stopEvent>>

Wanted == [cam |-> target["supervisor"], cfg |-> wanted]

Registered(c) == workers[c] # None

\* The worker is created, registered and its thread started under the lock.
StartCreates ==
    /\ pc["supervisor"] = "body"
    /\ ~Registered(Wanted.cam)
    /\ \E w \in Unborn :
          /\ workers' = [workers EXCEPT ![Wanted.cam] = w]
          /\ spec' = [spec EXCEPT ![w] = Wanted]
          /\ phase' = [phase EXCEPT ![w] = "top"]
    /\ UNCHANGED <<slot, freeSlots, produced, failures>>
    /\ LeaveStart

StartKeeps ==
    /\ pc["supervisor"] = "body"
    /\ Registered(Wanted.cam)
    /\ spec[workers[Wanted.cam]] = Wanted
    /\ UNCHANGED <<workers, spec, readerVars>>
    /\ LeaveStart

\* Mutant: a changed config overwrites the registry entry without a stop().
StartOverwrites ==
    /\ pc["supervisor"] = "body"
    /\ Registered(Wanted.cam)
    /\ spec[workers[Wanted.cam]] # Wanted
    /\ \E w \in Unborn :
          /\ workers' = [workers EXCEPT ![Wanted.cam] = w]
          /\ spec' = [spec EXCEPT ![w] = Wanted]
          /\ phase' = [phase EXCEPT ![w] = "top"]
    /\ UNCHANGED <<slot, freeSlots, produced, failures>>
    /\ LeaveStart

\* The config differs: stop(camera_id) is called with the lock still held, and
\* start() goes on to create the worker when it returns.
StartReplaces ==
    /\ pc["supervisor"] = "body"
    /\ Registered(Wanted.cam)
    /\ spec[workers[Wanted.cam]] # Wanted
    /\ Goto("supervisor", "pop")
    /\ back' = [back EXCEPT !["supervisor"] = "body"]
    /\ UNCHANGED <<lock, workers, target, wanted, victim, pendingStops, spec,
                   readerVars, proc, stopEvent>>

\* The supervisor stops the cameras it finds registered and no longer active.
CallStop(c) ==
    /\ pc["supervisor"] = "idle" /\ LoopFree /\ Registered(c)
    /\ Goto("supervisor", "pop")
    /\ target' = [target EXCEPT !["supervisor"] = c]
    /\ back' = [back EXCEPT !["supervisor"] = "idle"]
    /\ UNCHANGED <<lock, workers, wanted, victim, pendingStops, spec, readerVars,
                   proc, stopEvent>>

CallStopAll ==
    /\ pc["shutdown"] = "idle"
    /\ Goto("shutdown", "loop")
    /\ pendingStops' = {c \in Cameras : Registered(c)}
    /\ UNCHANGED <<lock, workers, target, wanted, victim, back, spec, readerVars,
                   proc, stopEvent>>

StopAllNext ==
    /\ pc["shutdown"] = "loop"
    /\ \/ /\ pendingStops = {}
          /\ Goto("shutdown", "done")
          /\ UNCHANGED <<target, back, pendingStops>>
       \/ \E c \in pendingStops :
             /\ pendingStops' = pendingStops \ {c}
             /\ Goto("shutdown", "pop")
             /\ target' = [target EXCEPT !["shutdown"] = c]
             /\ back' = [back EXCEPT !["shutdown"] = "loop"]
    /\ UNCHANGED <<lock, workers, wanted, victim, spec, readerVars, proc, stopEvent>>

\* stop() returns: to start(), which keeps its arguments, or to its caller.
ReturnFromStop(t) ==
    /\ target' = [target EXCEPT ![t] = IF back[t] = "body" THEN @ ELSE None]
    /\ back' = [back EXCEPT ![t] = "idle"]

\* `with _workers_lock: w = _workers.pop(camera_id, None)`: the lock must be
\* free, also for the caller that holds it, for it is not reentrant.
Pop(t) ==
    /\ pc[t] = "pop"
    /\ lock = None
    /\ victim' = [victim EXCEPT ![t] = workers[target[t]]]
    /\ workers' = [workers EXCEPT ![target[t]] = None]
    /\ \/ /\ Registered(target[t])
          /\ Goto(t, "signal")
          /\ UNCHANGED <<target, back>>
       \/ /\ ~Registered(target[t])
          /\ Goto(t, back[t])
          /\ ReturnFromStop(t)
    /\ UNCHANGED <<lock, wanted, pendingStops, spec, readerVars, proc, stopEvent>>

Signal(t) ==
    /\ pc[t] = "signal"
    /\ stopEvent' = [stopEvent EXCEPT ![victim[t]] = TRUE]
    /\ Goto(t, "terminate")
    /\ UNCHANGED <<lock, workers, target, wanted, victim, back, pendingStops, spec,
                   readerVars, proc>>

Terminated(w) ==
    [proc EXCEPT ![w] = IF @ = "running" THEN "terminating" ELSE @]

\* Mutant: stop() forgets to terminate the process.
TerminateForgotten(t) ==
    /\ pc[t] = "terminate"
    /\ Goto(t, "join")
    /\ UNCHANGED <<lock, workers, target, wanted, victim, back, pendingStops, spec,
                   readerVars, stopEvent, proc>>

Terminate(t) ==
    /\ pc[t] = "terminate"
    /\ proc' = Terminated(victim[t])
    /\ Goto(t, "join")
    /\ UNCHANGED <<lock, workers, target, wanted, victim, back, pendingStops, spec,
                   readerVars, stopEvent>>

\* join(timeout=5) returns whether or not the reader thread has ended.
Join(t) ==
    /\ pc[t] = "join"
    /\ Goto(t, back[t])
    /\ ReturnFromStop(t)
    /\ victim' = [victim EXCEPT ![t] = None]
    /\ UNCHANGED <<lock, workers, wanted, pendingStops, spec, readerVars, proc,
                   stopEvent>>

(***************************************************************************)
(* The reader thread of worker w                                           *)
(***************************************************************************)

Step(w, next) == phase' = [phase EXCEPT ![w] = next]

\* Mutant: the slot flag is cleared and the semaphore is not released.
LoseSlot(w) ==
    /\ freeSlots' = freeSlots
    /\ slot' = [slot EXCEPT ![w] = FALSE]

ReleaseSlot(w) ==
    /\ freeSlots' = IF slot[w] THEN freeSlots + 1 ELSE freeSlots
    /\ slot' = [slot EXCEPT ![w] = FALSE]

\* Mutant: the limit is compared with > instead of >=.
CountFailureLate(w) ==
    /\ failures' = [failures EXCEPT ![w] = @ + 1]
    /\ Step(w, IF failures[w] + 1 > MaxFailures THEN "dead" ELSE "top")

\* One more attempt without a frame; the last one makes the worker give up.
CountFailure(w) ==
    /\ failures' = [failures EXCEPT ![w] = @ + 1]
    /\ Step(w, IF failures[w] + 1 >= MaxFailures THEN "dead" ELSE "top")

\* `while not w.stop_event.is_set()`, after the backoff wait if there was one.
Top(w) ==
    /\ phase[w] = "top"
    /\ Step(w, IF stopEvent[w] THEN "dead" ELSE "acquire")
    /\ UNCHANGED <<lock, workers, callerVars, spec, slot, freeSlots, proc, produced,
                   stopEvent, failures>>

AcquireSlot(w) ==
    /\ phase[w] = "acquire"
    /\ freeSlots > 0
    /\ freeSlots' = freeSlots - 1
    /\ slot' = [slot EXCEPT ![w] = TRUE]
    /\ Step(w, "spawn")
    /\ UNCHANGED <<lock, workers, callerVars, spec, proc, produced, stopEvent,
                   failures>>

\* Mutant: acquire() without a timeout.
AcquireForever(w) ==
    /\ phase[w] = "acquire" /\ freeSlots = 0 /\ FALSE
    /\ UNCHANGED vars

\* acquire(timeout=60) gives up: the attempt goes on without a slot.
AcquireTimeout(w) ==
    /\ phase[w] = "acquire"
    /\ freeSlots = 0
    /\ Step(w, "spawn")
    /\ UNCHANGED <<lock, workers, callerVars, spec, slot, freeSlots, proc, produced,
                   stopEvent, failures>>

SpawnOk(w) ==
    /\ phase[w] = "spawn"
    /\ proc' = [proc EXCEPT ![w] = "running"]
    /\ Step(w, "gate")
    /\ UNCHANGED <<lock, workers, callerVars, spec, slot, freeSlots, produced,
                   stopEvent, failures>>

SpawnFails(w) ==
    /\ phase[w] = "spawn"
    /\ ReleaseSlot(w)
    /\ CountFailure(w)
    /\ UNCHANGED <<lock, workers, callerVars, spec, proc, produced, stopEvent>>

\* `while not w.stop_event.is_set() and w.proc.poll() is None`
Gate(w) ==
    /\ phase[w] = "gate"
    /\ Step(w, IF stopEvent[w] \/ proc[w] = "off" THEN "cleanup" ELSE "reading")
    /\ UNCHANGED <<lock, workers, callerVars, spec, slot, freeSlots, proc, produced,
                   stopEvent, failures>>

\* A whole frame arrives, perhaps the last one buffered by a dead process.
ReadFrame(w) ==
    /\ phase[w] = "reading"
    /\ produced' = [produced EXCEPT ![w] = TRUE]
    /\ ReleaseSlot(w)
    /\ Step(w, "gate")
    /\ UNCHANGED <<lock, workers, callerVars, spec, proc, stopEvent, failures>>

\* End of stream, a truncated frame, or the deadline passed between two chunks.
\* A read from a silent, live process is blocked: it never has to return.
ReadFails(w) ==
    /\ phase[w] = "reading"
    /\ Step(w, "cleanup")
    /\ UNCHANGED <<lock, workers, callerVars, spec, slot, freeSlots, proc, produced,
                   stopEvent, failures>>

\* The finally block: the slot if still held, then terminate(), wait(3), kill().
Cleanup(w) ==
    /\ phase[w] = "cleanup"
    /\ ReleaseSlot(w)
    /\ proc' = [proc EXCEPT ![w] = "off"]
    /\ Step(w, "verdict")
    /\ UNCHANGED <<lock, workers, callerVars, spec, produced, stopEvent, failures>>

Verdict(w) ==
    /\ phase[w] = "verdict"
    /\ \/ /\ stopEvent[w]
          /\ Step(w, "dead")
          /\ UNCHANGED failures
       \/ /\ ~stopEvent[w] /\ produced[w]
          /\ failures' = [failures EXCEPT ![w] = 0]
          /\ Step(w, "top")
       \/ /\ ~stopEvent[w] /\ ~produced[w]
          /\ CountFailure(w)
    /\ produced' = [produced EXCEPT ![w] = FALSE]  \* the next attempt counts anew
    /\ UNCHANGED <<lock, workers, callerVars, spec, slot, freeSlots, proc, stopEvent>>

\* ffmpeg ends: by itself, because the stream ended, or because of SIGTERM.
ProcessExits(w) ==
    /\ proc[w] \in {"running", "terminating"}
    /\ proc' = [proc EXCEPT ![w] = "off"]
    /\ UNCHANGED <<lock, workers, callerVars, spec, readerVars, stopEvent>>

(***************************************************************************)
(* Specification                                                           *)
(***************************************************************************)

Init ==
    /\ lock = None
    /\ workers = [c \in Cameras |-> None]
    /\ pc = [t \in Callers |-> "idle"]
    /\ target = [t \in Callers |-> None]
    /\ wanted = None
    /\ victim = [t \in Callers |-> None]
    /\ back = [t \in Callers |-> "idle"]
    /\ pendingStops = {}
    /\ spec = [w \in Workers |-> None]
    /\ phase = [w \in Workers |-> "unborn"]
    /\ slot = [w \in Workers |-> FALSE]
    /\ freeSlots = MaxReconnects
    /\ proc = [w \in Workers |-> "off"]
    /\ produced = [w \in Workers |-> FALSE]
    /\ stopEvent = [w \in Workers |-> FALSE]
    /\ failures = [w \in Workers |-> 0]

Start == EnterStart \/ StartCreates \/ StartKeeps \/ StartReplaces
Stop(t) == Pop(t) \/ Signal(t) \/ Terminate(t) \/ Join(t)

Call == \/ \E c \in Cameras, g \in Configs : CallStart(c, g)
        \/ \E c \in Cameras : CallStop(c)
        \/ CallStopAll

Acquire(w) == AcquireSlot(w) \/ AcquireTimeout(w)
Spawn(w) == SpawnOk(w) \/ SpawnFails(w)

Reader(w) == \/ Top(w) \/ Acquire(w) \/ Spawn(w) \/ Gate(w)
             \/ ReadFrame(w) \/ ReadFails(w) \/ Cleanup(w) \/ Verdict(w)

Next == \/ Call
        \/ Start
        \/ StopAllNext
        \/ \E t \in Callers : Stop(t)
        \/ \E w \in Workers : Reader(w) \/ ProcessExits(w)

Spec == Init /\ [][Next]_vars

\* Threads are scheduled, and a process that received SIGTERM ends.  No frame
\* need ever come, no read of a live process need return, no call need be made.
ReaderFairness(w) ==
    /\ WF_vars(Top(w) \/ Acquire(w) \/ Spawn(w) \/ Gate(w) \/ Cleanup(w) \/ Verdict(w))
    /\ WF_vars(proc[w] = "off" /\ ReadFails(w))
    /\ WF_vars(proc[w] = "terminating" /\ ProcessExits(w))

Fairness ==
    /\ WF_vars(Start)
    /\ WF_vars(StopAllNext)
    /\ \A t \in Callers : WF_vars(Stop(t))
    /\ \A w \in Workers : ReaderFairness(w)

FairSpec == Spec /\ Fairness

(***************************************************************************)
(* Properties                                                              *)
(***************************************************************************)

Specs == [cam : Cameras, cfg : Configs]

\* The types of all variables; freeSlots and failures stay within their limits.
TypeOK ==
    /\ lock \in Callers \cup {None}
    /\ workers \in [Cameras -> Workers \cup {None}]
    /\ pc \in [Callers -> {"idle", "start", "body", "loop", "done"} \cup StopSteps]
    /\ target \in [Callers -> Cameras \cup {None}]
    /\ wanted \in Configs \cup {None}
    /\ victim \in [Callers -> Workers \cup {None}]
    /\ back \in [Callers -> {"idle", "body", "loop"}]
    /\ pendingStops \subseteq Cameras
    /\ spec \in [Workers -> Specs \cup {None}]
    /\ phase \in [Workers -> Phases]
    /\ slot \in [Workers -> BOOLEAN]
    /\ freeSlots \in 0..MaxReconnects
    /\ proc \in [Workers -> Processes]
    /\ produced \in [Workers -> BOOLEAN]
    /\ stopEvent \in [Workers -> BOOLEAN]
    /\ failures \in [Workers -> 0..MaxFailures]

Holders == {w \in Workers : slot[w]}

\* Free and held slots add up.
SlotsAddUp == freeSlots + Cardinality(Holders) = MaxReconnects

\* A slot is held only by a reader that is between its acquire() and its first
\* frame: neither a streaming worker nor one that waits or died blocks others.
SlotOnlyWhileConnecting ==
    \A w \in Holders :
        /\ phase[w] \in {"spawn", "gate", "reading", "cleanup"}
        /\ phase[w] # "spawn" => ~produced[w]

\* Whatever path a reader leaves an attempt by (spawn error, first frame, end of
\* stream, stop), it gives its reconnect slot back exactly once, and before it
\* streams, waits or ends.
SlotsAccounted == SlotsAddUp /\ SlotOnlyWhileConnecting

Live(w) == phase[w] \notin {"unborn", "dead"}

\* A reader thread that nobody told to stop is the registered worker of its
\* camera, or the one a stop() has popped and is about to signal: no reader is
\* ever forgotten, whatever start(), stop() and stop_all() interleave.
NoOrphanReader ==
    \A w \in Workers :
        Live(w) /\ ~stopEvent[w] =>
            \/ workers[spec[w].cam] = w
            \/ \E t \in Callers : pc[t] = "signal" /\ victim[t] = w

\* An ffmpeg process runs only while its reader is in the block whose finally
\* clause ends it: a reader that waits or is dead has left no process behind.
NoOrphanProcess ==
    \A w \in Workers :
        proc[w] \in {"running", "terminating"} =>
            phase[w] \in {"gate", "reading", "cleanup"}

\* Neither a reader thread nor an ffmpeg process is ever lost sight of.
NoOrphan == NoOrphanReader /\ NoOrphanProcess

\* stop() is effective even when it overlaps a spawn or a blocked read, and even
\* though its join() may time out: the reader thread ends.
StoppedReaderDies ==
    \A w \in Workers : stopEvent[w] ~> (phase[w] = "dead")

\* The semaphore never blocks a camera for good, even when processes that never
\* answer hold every slot ("mieux vaut démarrer sans plafond que bloquer").
NoEndlessSlotWait ==
    \A w \in Workers : (phase[w] = "acquire") ~> (phase[w] # "acquire")

\* The docstring of start() and the comment in it: a start() with another config
\* restarts the worker, so the call ends with that config registered.
ConfigChangeApplied ==
    \A s \in Specs :
        (pc["supervisor"] = "body" /\ Wanted = s)
            ~> /\ pc["supervisor"] = "idle"
               /\ Registered(s.cam) /\ spec[workers[s.cam]] = s

Fleet == [c \in Cameras |-> IF Registered(c) THEN spec[workers[c]].cfg ELSE None]
Hung == lock = "supervisor" /\ pc["supervisor"] = "pop"

\* What the callers of start(), stop() and stop_all() see of it all: WorkerRegistry,
\* which AiSupervisor relies on.  A worker changes its config only over a stop(), and
\* after a start() that waits for its own lock no camera's worker comes or goes.
Registry == INSTANCE WorkerRegistry WITH fleet <- Fleet, hung <- Hung
RegistryKept == Registry!Safe

\* A caller that holds _workers_lock and asks for it again stays where it is:
\* the start() that meets a changed config never returns and never unlocks.
NestedStopStuck ==
    [][\A t \in Callers : pc[t] = "pop" /\ lock = t => pc'[t] = "pop" /\ lock' = t]_vars
================================================================================
