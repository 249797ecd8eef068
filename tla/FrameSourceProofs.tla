--------------------------- MODULE FrameSourceProofs ---------------------------
(***************************************************************************)
(* The safety properties of FrameSource for every set of cameras, configs  *)
(* and workers, every number of reconnect slots and every failure limit.   *)
(***************************************************************************)
EXTENDS FrameSource, FiniteSetTheorems, TLAPS

(***************************************************************************)
(* The inductive invariant                                                 *)
(***************************************************************************)

\* What a caller's position says of the lock and of its local variables.
ControlOK ==
    /\ lock \in {"supervisor", None}
    /\ pc["supervisor"] = "body" => lock = "supervisor"
    /\ lock = "supervisor" => pc["supervisor"] \in {"body", "pop"}
    /\ pc["supervisor"] \in {"start", "body"} =>
          target["supervisor"] \in Cameras /\ wanted \in Configs
    /\ \A t \in Callers :
          /\ pc[t] = "pop" => target[t] \in Cameras
          /\ pc[t] \in {"signal", "terminate", "join"} => victim[t] \in Workers
          /\ back[t] = "body" => t = "supervisor" /\ pc[t] = "pop" /\ lock = t

\* A registered worker was created for that camera and nobody told it to stop;
\* a popped one is no longer registered.
RegistryOK ==
    /\ \A w \in Workers :
          /\ phase[w] # "unborn" => spec[w] \in Specs
          /\ stopEvent[w] => phase[w] # "unborn"
    /\ \A c \in Cameras : workers[c] # None =>
          /\ phase[workers[c]] # "unborn"
          /\ spec[workers[c]].cam = c
          /\ ~stopEvent[workers[c]]
    /\ \A t \in Callers : pc[t] = "signal" =>
          /\ phase[victim[t]] # "unborn"
          /\ \A c \in Cameras : workers[c] # victim[t]

\* A reader that goes on has failures left, and a new attempt starts from none.
AttemptOK ==
    \A w \in Workers :
        /\ phase[w] = "dead" \/ failures[w] < MaxFailures
        /\ phase[w] \in {"unborn", "top", "acquire", "spawn"} => ~produced[w]

IInv ==
    /\ TypeOK
    /\ ControlOK
    /\ RegistryOK
    /\ AttemptOK
    /\ SlotsAddUp
    /\ SlotOnlyWhileConnecting
    /\ NoOrphanReader
    /\ NoOrphanProcess

\* Every step keeps every variable within its type (SlotsStep bounds freeSlots).
LEMMA TypeStep ==
    ASSUME IInv, [Next]_vars, freeSlots' \in 0..MaxReconnects
    PROVE  TypeOK'
<1> USE ConstantsAssumption
    DEF IInv, TypeOK, ControlOK, AttemptOK, callerVars, readerVars, Callers,
        StopSteps, Phases, Processes, Specs
<1>1. ASSUME NEW c \in Cameras, NEW g \in Configs, CallStart(c, g)
     PROVE  TypeOK'
  BY <1>1 DEF CallStart, Goto, LoopFree
<1>2. ASSUME NEW c \in Cameras, CallStop(c)
     PROVE  TypeOK'
  BY <1>2 DEF CallStop, Goto, LoopFree, Registered
<1>3. CASE CallStopAll
  BY <1>3 DEF CallStopAll, Goto, Registered
<1>4. CASE EnterStart
  BY <1>4 DEF EnterStart, Goto
<1>5. CASE StartCreates
  BY <1>5 DEF StartCreates, LeaveStart, Goto, Wanted, Registered, Unborn
<1>6. CASE StartKeeps
  BY <1>6 DEF StartKeeps, LeaveStart, Goto, Wanted, Registered
<1>7. CASE StartReplaces
  BY <1>7 DEF StartReplaces, Goto, Wanted, Registered
<1>8. CASE StopAllNext
  BY <1>8 DEF StopAllNext, Goto
<1>9. ASSUME NEW t \in Callers, Pop(t)
     PROVE  TypeOK'
  BY <1>9 DEF Pop, Goto, ReturnFromStop, Registered
<1>10. ASSUME NEW t \in Callers, Signal(t)
     PROVE  TypeOK'
  BY <1>10 DEF Signal, Goto
<1>11. ASSUME NEW t \in Callers, Terminate(t)
     PROVE  TypeOK'
  BY <1>11 DEF Terminate, Goto, Terminated
<1>12. ASSUME NEW t \in Callers, Join(t)
     PROVE  TypeOK'
  BY <1>12 DEF Join, Goto, ReturnFromStop
<1>13. ASSUME NEW w \in Workers, Top(w)
     PROVE  TypeOK'
  BY <1>13 DEF Top, Step
<1>14. ASSUME NEW w \in Workers, AcquireSlot(w)
     PROVE  TypeOK'
  BY <1>14 DEF AcquireSlot, Step
<1>15. ASSUME NEW w \in Workers, AcquireTimeout(w)
     PROVE  TypeOK'
  BY <1>15 DEF AcquireTimeout, Step
<1>16. ASSUME NEW w \in Workers, SpawnOk(w)
     PROVE  TypeOK'
  BY <1>16 DEF SpawnOk, Step
<1>17. ASSUME NEW w \in Workers, SpawnFails(w)
     PROVE  TypeOK'
  BY <1>17 DEF SpawnFails, Step, CountFailure, ReleaseSlot
<1>18. ASSUME NEW w \in Workers, Gate(w)
     PROVE  TypeOK'
  BY <1>18 DEF Gate, Step
<1>19. ASSUME NEW w \in Workers, ReadFrame(w)
     PROVE  TypeOK'
  BY <1>19 DEF ReadFrame, Step, ReleaseSlot
<1>20. ASSUME NEW w \in Workers, ReadFails(w)
     PROVE  TypeOK'
  BY <1>20 DEF ReadFails, Step
<1>21. ASSUME NEW w \in Workers, Cleanup(w)
     PROVE  TypeOK'
  BY <1>21 DEF Cleanup, Step, ReleaseSlot
<1>22. ASSUME NEW w \in Workers, Verdict(w)
     PROVE  TypeOK'
  BY <1>22 DEF Verdict, Step, CountFailure
<1>23. ASSUME NEW w \in Workers, ProcessExits(w)
     PROVE  TypeOK'
  BY <1>23 DEF ProcessExits
<1>24. CASE UNCHANGED vars
  BY <1>24 DEF vars
<1> QED
  BY <1>1, <1>2, <1>3, <1>4, <1>5, <1>6, <1>7, <1>8, <1>9, <1>10, <1>11,
     <1>12, <1>13, <1>14, <1>15, <1>16, <1>17, <1>18, <1>19, <1>20, <1>21,
     <1>22, <1>23, <1>24
  DEF Next, Call, Start, Stop, Reader, Acquire, Spawn

\* Every step keeps the callers' control state consistent with the lock; the
\* readers do not touch it.
LEMMA ControlStep ==
    ASSUME IInv, [Next]_vars
    PROVE  ControlOK'
<1> USE ConstantsAssumption
    DEF IInv, TypeOK, ControlOK, callerVars, readerVars, Callers, StopSteps
<1>1. ASSUME NEW c \in Cameras, NEW g \in Configs, CallStart(c, g)
     PROVE  ControlOK'
  BY <1>1 DEF CallStart, Goto, LoopFree
<1>2. ASSUME NEW c \in Cameras, CallStop(c)
     PROVE  ControlOK'
  BY <1>2 DEF CallStop, Goto, LoopFree, Registered
<1>3. CASE CallStopAll
  BY <1>3 DEF CallStopAll, Goto, Registered
<1>4. CASE EnterStart
  BY <1>4 DEF EnterStart, Goto
<1>5. CASE StartCreates
  BY <1>5 DEF StartCreates, LeaveStart, Goto, Wanted, Registered, Unborn
<1>6. CASE StartKeeps
  BY <1>6 DEF StartKeeps, LeaveStart, Goto, Wanted, Registered
<1>7. CASE StartReplaces
  BY <1>7 DEF StartReplaces, Goto, Wanted, Registered
<1>8. CASE StopAllNext
  BY <1>8 DEF StopAllNext, Goto
<1>9. ASSUME NEW t \in Callers, Pop(t)
     PROVE  ControlOK'
  BY <1>9 DEF Pop, Goto, ReturnFromStop, Registered
<1>10. ASSUME NEW t \in Callers, Signal(t)
     PROVE  ControlOK'
  BY <1>10 DEF Signal, Goto
<1>11. ASSUME NEW t \in Callers, Terminate(t)
     PROVE  ControlOK'
  BY <1>11 DEF Terminate, Goto, Terminated
<1>12. ASSUME NEW t \in Callers, Join(t)
     PROVE  ControlOK'
  BY <1>12 DEF Join, Goto, ReturnFromStop
<1>13. ASSUME NEW w \in Workers,
            Top(w) \/ AcquireSlot(w) \/ AcquireTimeout(w) \/ SpawnOk(w) \/
               SpawnFails(w) \/ Gate(w) \/ ReadFrame(w) \/
               ReadFails(w) \/ Cleanup(w) \/ Verdict(w) \/
               ProcessExits(w)
     PROVE  ControlOK'
  BY <1>13 DEF Top, Step, AcquireSlot, AcquireTimeout, SpawnOk, SpawnFails,
     CountFailure, ReleaseSlot, Gate, ReadFrame, ReadFails, Cleanup,
     Verdict, ProcessExits
<1>14. CASE UNCHANGED vars
  BY <1>14 DEF vars
<1> QED
  BY <1>1, <1>2, <1>3, <1>4, <1>5, <1>6, <1>7, <1>8, <1>9, <1>10, <1>11,
     <1>12, <1>13, <1>14
  DEF Next, Call, Start, Stop, Reader, Acquire, Spawn

\* Every step keeps the registry consistent with the workers.
LEMMA RegistryStep ==
    ASSUME IInv, [Next]_vars
    PROVE  RegistryOK'
<1> USE ConstantsAssumption
    DEF IInv, TypeOK, ControlOK, RegistryOK, callerVars, readerVars, Callers,
        StopSteps, Phases, Specs
<1>1. ASSUME NEW c \in Cameras, NEW g \in Configs, CallStart(c, g)
     PROVE  RegistryOK'
  BY <1>1 DEF CallStart, Goto, LoopFree
<1>2. ASSUME NEW c \in Cameras, CallStop(c)
     PROVE  RegistryOK'
  BY <1>2 DEF CallStop, Goto, LoopFree, Registered
<1>3. CASE CallStopAll
  BY <1>3 DEF CallStopAll, Goto, Registered
<1>4. CASE EnterStart
  BY <1>4 DEF EnterStart, Goto
<1>5. CASE StartCreates
  BY <1>5 DEF StartCreates, LeaveStart, Goto, Wanted, Registered, Unborn
<1>6. CASE StartKeeps
  BY <1>6 DEF StartKeeps, LeaveStart, Goto, Wanted, Registered
<1>7. CASE StartReplaces
  BY <1>7 DEF StartReplaces, Goto, Wanted, Registered
<1>8. CASE StopAllNext
  BY <1>8 DEF StopAllNext, Goto
<1>9. ASSUME NEW t \in Callers, Pop(t)
     PROVE  RegistryOK'
  BY <1>9 DEF Pop, Goto, ReturnFromStop, Registered
<1>10. ASSUME NEW t \in Callers, Signal(t)
     PROVE  RegistryOK'
  BY <1>10 DEF Signal, Goto
<1>11. ASSUME NEW t \in Callers, Terminate(t)
     PROVE  RegistryOK'
  BY <1>11 DEF Terminate, Goto, Terminated
<1>12. ASSUME NEW t \in Callers, Join(t)
     PROVE  RegistryOK'
  BY <1>12 DEF Join, Goto, ReturnFromStop
<1>13. ASSUME NEW w \in Workers, Top(w)
     PROVE  RegistryOK'
  BY <1>13 DEF Top, Step
<1>14. ASSUME NEW w \in Workers, AcquireSlot(w)
     PROVE  RegistryOK'
  BY <1>14 DEF AcquireSlot, Step
<1>15. ASSUME NEW w \in Workers, AcquireTimeout(w)
     PROVE  RegistryOK'
  BY <1>15 DEF AcquireTimeout, Step
<1>16. ASSUME NEW w \in Workers, SpawnOk(w)
     PROVE  RegistryOK'
  BY <1>16 DEF SpawnOk, Step
<1>17. ASSUME NEW w \in Workers, SpawnFails(w)
     PROVE  RegistryOK'
  BY <1>17 DEF SpawnFails, Step, CountFailure, ReleaseSlot
<1>18. ASSUME NEW w \in Workers, Gate(w)
     PROVE  RegistryOK'
  BY <1>18 DEF Gate, Step
<1>19. ASSUME NEW w \in Workers, ReadFrame(w)
     PROVE  RegistryOK'
  BY <1>19 DEF ReadFrame, Step, ReleaseSlot
<1>20. ASSUME NEW w \in Workers, ReadFails(w)
     PROVE  RegistryOK'
  BY <1>20 DEF ReadFails, Step
<1>21. ASSUME NEW w \in Workers, Cleanup(w)
     PROVE  RegistryOK'
  BY <1>21 DEF Cleanup, Step, ReleaseSlot
<1>22. ASSUME NEW w \in Workers, Verdict(w)
     PROVE  RegistryOK'
  BY <1>22 DEF Verdict, Step, CountFailure
<1>23. ASSUME NEW w \in Workers, ProcessExits(w)
     PROVE  RegistryOK'
  BY <1>23 DEF ProcessExits
<1>24. CASE UNCHANGED vars
  BY <1>24 DEF vars
<1> QED
  BY <1>1, <1>2, <1>3, <1>4, <1>5, <1>6, <1>7, <1>8, <1>9, <1>10, <1>11,
     <1>12, <1>13, <1>14, <1>15, <1>16, <1>17, <1>18, <1>19, <1>20, <1>21,
     <1>22, <1>23, <1>24
  DEF Next, Call, Start, Stop, Reader, Acquire, Spawn

\* Every step keeps the failure count below the limit while a reader lives.
LEMMA AttemptStep ==
    ASSUME IInv, [Next]_vars
    PROVE  AttemptOK'
<1> USE ConstantsAssumption
    DEF IInv, TypeOK, AttemptOK, callerVars, readerVars
<1>1. CASE StartCreates
  BY <1>1 DEF StartCreates, LeaveStart, Goto, Wanted, Registered, Unborn
<1>2. ASSUME NEW w \in Workers, Top(w)
     PROVE  AttemptOK'
  BY <1>2 DEF Top, Step
<1>3. ASSUME NEW w \in Workers, AcquireSlot(w)
     PROVE  AttemptOK'
  BY <1>3 DEF AcquireSlot, Step
<1>4. ASSUME NEW w \in Workers, AcquireTimeout(w)
     PROVE  AttemptOK'
  BY <1>4 DEF AcquireTimeout, Step
<1>5. ASSUME NEW w \in Workers, SpawnOk(w)
     PROVE  AttemptOK'
  BY <1>5 DEF SpawnOk, Step
<1>6. ASSUME NEW w \in Workers, SpawnFails(w)
     PROVE  AttemptOK'
  BY <1>6 DEF SpawnFails, Step, CountFailure, ReleaseSlot
<1>7. ASSUME NEW w \in Workers, Gate(w)
     PROVE  AttemptOK'
  BY <1>7 DEF Gate, Step
<1>8. ASSUME NEW w \in Workers, ReadFrame(w)
     PROVE  AttemptOK'
  BY <1>8 DEF ReadFrame, Step, ReleaseSlot
<1>9. ASSUME NEW w \in Workers, ReadFails(w)
     PROVE  AttemptOK'
  BY <1>9 DEF ReadFails, Step
<1>10. ASSUME NEW w \in Workers, Cleanup(w)
     PROVE  AttemptOK'
  BY <1>10 DEF Cleanup, Step, ReleaseSlot
<1>11. ASSUME NEW w \in Workers, Verdict(w)
     PROVE  AttemptOK'
  BY <1>11 DEF Verdict, Step, CountFailure
<1>12. ASSUME NEW w \in Workers, ProcessExits(w)
     PROVE  AttemptOK'
  BY <1>12 DEF ProcessExits
<1>13. ASSUME NEW t \in Callers,
            Pop(t) \/ Signal(t) \/ Terminate(t) \/ Join(t)
     PROVE  AttemptOK'
  BY <1>13 DEF Pop, Goto, ReturnFromStop, Registered, Signal, Terminate,
     Terminated, Join
<1>14. ASSUME (\E c \in Cameras, g \in Configs : CallStart(c, g)) \/ (\E c \in
               Cameras : CallStop(c)) \/ CallStopAll \/
               EnterStart \/ StartKeeps \/ StartReplaces \/
               StopAllNext
     PROVE  AttemptOK'
  BY <1>14 DEF CallStart, Goto, LoopFree, CallStop, Registered, CallStopAll,
     EnterStart, StartKeeps, LeaveStart, Wanted, StartReplaces, StopAllNext
<1>15. CASE UNCHANGED vars
  BY <1>15 DEF vars
<1> QED
  BY <1>1, <1>2, <1>3, <1>4, <1>5, <1>6, <1>7, <1>8, <1>9, <1>10, <1>11,
     <1>12, <1>13, <1>14, <1>15
  DEF Next, Call, Start, Stop, Reader, Acquire, Spawn

\* Every step keeps slots and processes to the readers that may have them.
LEMMA HolderStep ==
    ASSUME IInv, [Next]_vars
    PROVE  (SlotOnlyWhileConnecting /\ NoOrphanProcess)'
<1> USE ConstantsAssumption
    DEF IInv, TypeOK, AttemptOK, SlotOnlyWhileConnecting, NoOrphanProcess,
        Holders, callerVars, readerVars
<1>1. CASE StartCreates
  BY <1>1 DEF StartCreates, LeaveStart, Goto, Wanted, Registered, Unborn
<1>2. ASSUME NEW t \in Callers, Terminate(t)
     PROVE  (SlotOnlyWhileConnecting /\ NoOrphanProcess)'
  BY <1>2 DEF Terminate, Goto, Terminated
<1>3. ASSUME NEW w \in Workers, Top(w)
     PROVE  (SlotOnlyWhileConnecting /\ NoOrphanProcess)'
  BY <1>3 DEF Top, Step
<1>4. ASSUME NEW w \in Workers, AcquireSlot(w)
     PROVE  (SlotOnlyWhileConnecting /\ NoOrphanProcess)'
  BY <1>4 DEF AcquireSlot, Step
<1>5. ASSUME NEW w \in Workers, AcquireTimeout(w)
     PROVE  (SlotOnlyWhileConnecting /\ NoOrphanProcess)'
  BY <1>5 DEF AcquireTimeout, Step
<1>6. ASSUME NEW w \in Workers, SpawnOk(w)
     PROVE  (SlotOnlyWhileConnecting /\ NoOrphanProcess)'
  BY <1>6 DEF SpawnOk, Step
<1>7. ASSUME NEW w \in Workers, SpawnFails(w)
     PROVE  (SlotOnlyWhileConnecting /\ NoOrphanProcess)'
  BY <1>7 DEF SpawnFails, Step, CountFailure, ReleaseSlot
<1>8. ASSUME NEW w \in Workers, Gate(w)
     PROVE  (SlotOnlyWhileConnecting /\ NoOrphanProcess)'
  BY <1>8 DEF Gate, Step
<1>9. ASSUME NEW w \in Workers, ReadFrame(w)
     PROVE  (SlotOnlyWhileConnecting /\ NoOrphanProcess)'
  BY <1>9 DEF ReadFrame, Step, ReleaseSlot
<1>10. ASSUME NEW w \in Workers, ReadFails(w)
     PROVE  (SlotOnlyWhileConnecting /\ NoOrphanProcess)'
  BY <1>10 DEF ReadFails, Step
<1>11. ASSUME NEW w \in Workers, Cleanup(w)
     PROVE  (SlotOnlyWhileConnecting /\ NoOrphanProcess)'
  BY <1>11 DEF Cleanup, Step, ReleaseSlot
<1>12. ASSUME NEW w \in Workers, Verdict(w)
     PROVE  (SlotOnlyWhileConnecting /\ NoOrphanProcess)'
  BY <1>12 DEF Verdict, Step, CountFailure
<1>13. ASSUME NEW w \in Workers, ProcessExits(w)
     PROVE  (SlotOnlyWhileConnecting /\ NoOrphanProcess)'
  BY <1>13 DEF ProcessExits
<1>14. ASSUME NEW t \in Callers,
            Pop(t) \/ Signal(t) \/ Join(t)
     PROVE  (SlotOnlyWhileConnecting /\ NoOrphanProcess)'
  BY <1>14 DEF Pop, Goto, ReturnFromStop, Registered, Signal, Join
<1>15. ASSUME (\E c \in Cameras, g \in Configs : CallStart(c, g)) \/ (\E c \in
               Cameras : CallStop(c)) \/ CallStopAll \/
               EnterStart \/ StartKeeps \/ StartReplaces \/
               StopAllNext
     PROVE  (SlotOnlyWhileConnecting /\ NoOrphanProcess)'
  BY <1>15 DEF CallStart, Goto, LoopFree, CallStop, Registered, CallStopAll,
     EnterStart, StartKeeps, LeaveStart, Wanted, StartReplaces, StopAllNext
<1>16. CASE UNCHANGED vars
  BY <1>16 DEF vars
<1> QED
  BY <1>1, <1>2, <1>3, <1>4, <1>5, <1>6, <1>7, <1>8, <1>9, <1>10, <1>11,
     <1>12, <1>13, <1>14, <1>15, <1>16
  DEF Next, Call, Start, Stop, Reader, Acquire, Spawn

\* Every step keeps the unstopped readers registered, or about to be stopped.
LEMMA OrphanStep ==
    ASSUME IInv, [Next]_vars
    PROVE  NoOrphanReader'
<1> USE ConstantsAssumption
    DEF IInv, TypeOK, ControlOK, RegistryOK, NoOrphanReader, Live, callerVars,
        readerVars, Callers, Phases, Specs
<1>1. ASSUME NEW c \in Cameras, NEW g \in Configs, CallStart(c, g)
     PROVE  NoOrphanReader'
  BY <1>1 DEF CallStart, Goto, LoopFree
<1>2. ASSUME NEW c \in Cameras, CallStop(c)
     PROVE  NoOrphanReader'
  BY <1>2 DEF CallStop, Goto, LoopFree, Registered
<1>3. CASE CallStopAll
  BY <1>3 DEF CallStopAll, Goto, Registered
<1>4. CASE EnterStart
  BY <1>4 DEF EnterStart, Goto
<1>5. CASE StartCreates
  BY <1>5 DEF StartCreates, LeaveStart, Goto, Wanted, Registered, Unborn
<1>6. CASE StartKeeps
  BY <1>6 DEF StartKeeps, LeaveStart, Goto, Wanted, Registered
<1>7. CASE StartReplaces
  BY <1>7 DEF StartReplaces, Goto, Wanted, Registered
<1>8. CASE StopAllNext
  BY <1>8 DEF StopAllNext, Goto
<1>9. ASSUME NEW t \in Callers, Pop(t)
     PROVE  NoOrphanReader'
  BY <1>9 DEF Pop, Goto, ReturnFromStop, Registered
<1>10. ASSUME NEW t \in Callers, Signal(t)
     PROVE  NoOrphanReader'
  BY <1>10 DEF Signal, Goto
<1>11. ASSUME NEW t \in Callers, Terminate(t)
     PROVE  NoOrphanReader'
  BY <1>11 DEF Terminate, Goto, Terminated
<1>12. ASSUME NEW t \in Callers, Join(t)
     PROVE  NoOrphanReader'
  BY <1>12 DEF Join, Goto, ReturnFromStop
<1>13. ASSUME NEW w \in Workers, Top(w)
     PROVE  NoOrphanReader'
  BY <1>13 DEF Top, Step
<1>14. ASSUME NEW w \in Workers, AcquireSlot(w)
     PROVE  NoOrphanReader'
  BY <1>14 DEF AcquireSlot, Step
<1>15. ASSUME NEW w \in Workers, AcquireTimeout(w)
     PROVE  NoOrphanReader'
  BY <1>15 DEF AcquireTimeout, Step
<1>16. ASSUME NEW w \in Workers, SpawnOk(w)
     PROVE  NoOrphanReader'
  BY <1>16 DEF SpawnOk, Step
<1>17. ASSUME NEW w \in Workers, SpawnFails(w)
     PROVE  NoOrphanReader'
  BY <1>17 DEF SpawnFails, Step, CountFailure, ReleaseSlot
<1>18. ASSUME NEW w \in Workers, Gate(w)
     PROVE  NoOrphanReader'
  BY <1>18 DEF Gate, Step
<1>19. ASSUME NEW w \in Workers, ReadFrame(w)
     PROVE  NoOrphanReader'
  BY <1>19 DEF ReadFrame, Step, ReleaseSlot
<1>20. ASSUME NEW w \in Workers, ReadFails(w)
     PROVE  NoOrphanReader'
  BY <1>20 DEF ReadFails, Step
<1>21. ASSUME NEW w \in Workers, Cleanup(w)
     PROVE  NoOrphanReader'
  BY <1>21 DEF Cleanup, Step, ReleaseSlot
<1>22. ASSUME NEW w \in Workers, Verdict(w)
     PROVE  NoOrphanReader'
  BY <1>22 DEF Verdict, Step, CountFailure
<1>23. ASSUME NEW w \in Workers, ProcessExits(w)
     PROVE  NoOrphanReader'
  BY <1>23 DEF ProcessExits
<1>24. CASE UNCHANGED vars
  BY <1>24 DEF vars
<1> QED
  BY <1>1, <1>2, <1>3, <1>4, <1>5, <1>6, <1>7, <1>8, <1>9, <1>10, <1>11,
     <1>12, <1>13, <1>14, <1>15, <1>16, <1>17, <1>18, <1>19, <1>20, <1>21,
     <1>22, <1>23, <1>24
  DEF Next, Call, Start, Stop, Reader, Acquire, Spawn

\* A reconnect slot is given back exactly once: a step that clears a holder's
\* flag increments the semaphore, and one that does not leaves both alone.
LEMMA SlotsStep ==
    ASSUME IInv, [Next]_vars
    PROVE  freeSlots' \in 0..MaxReconnects /\ SlotsAddUp'
<1> DEFINE Good == freeSlots' \in 0..MaxReconnects /\ SlotsAddUp'
<1>1. /\ IsFiniteSet(Holders)
      /\ Cardinality(Holders) \in Nat
      /\ freeSlots \in Nat /\ MaxReconnects \in Nat
      /\ freeSlots + Cardinality(Holders) = MaxReconnects
      /\ slot \in [Workers -> BOOLEAN]
  BY ConstantsAssumption, FS_Subset, FS_CardinalityType
     DEF IInv, TypeOK, SlotsAddUp, Holders
<1>2. ASSUME NEW w \in Workers, ReleaseSlot(w)
      PROVE  Good
  <2>1. CASE slot[w]
    <3>1. Holders' = Holders \ {w} /\ w \in Holders
      BY <1>1, <1>2, <2>1 DEF ReleaseSlot, Holders
    <3>2. Cardinality(Holders') = Cardinality(Holders) - 1
      BY <1>1, <3>1, FS_RemoveElement
    <3>3. IsFiniteSet(Holders') /\ Cardinality(Holders') \in Nat
      BY <1>1, <3>1, FS_RemoveElement, FS_CardinalityType
    <3> QED
      BY <1>1, <1>2, <2>1, <3>2, <3>3 DEF ReleaseSlot, SlotsAddUp
  <2>2. CASE ~slot[w]
    <3>1. Holders' = Holders /\ freeSlots' = freeSlots
      BY <1>1, <1>2, <2>2 DEF ReleaseSlot, Holders
    <3> QED
      BY <1>1, <3>1 DEF SlotsAddUp
  <2> QED
    BY <2>1, <2>2
<1>3. ASSUME NEW w \in Workers, AcquireSlot(w)
      PROVE  Good
  <2>1. ~slot[w]
    BY <1>3 DEF AcquireSlot, IInv, SlotOnlyWhileConnecting, Holders
  <2>2. Holders' = Holders \cup {w} /\ w \notin Holders
    BY <1>1, <1>3, <2>1 DEF AcquireSlot, Holders
  <2>3. Cardinality(Holders') = Cardinality(Holders) + 1
    BY <1>1, <2>2, FS_AddElement
  <2> QED
    BY <1>1, <1>3, <2>3 DEF AcquireSlot, SlotsAddUp
<1>4. ASSUME UNCHANGED <<slot, freeSlots>>
      PROVE  Good
  BY <1>1, <1>4 DEF SlotsAddUp, Holders
<1>5. CASE Call \/ Start \/ StopAllNext \/ \E t \in Callers : Stop(t)
  BY <1>4, <1>5
     DEF Call, Start, Stop, CallStart, CallStop, CallStopAll, EnterStart,
         StartCreates, StartKeeps, StartReplaces, StopAllNext, Pop, Signal,
         Terminate, Join, readerVars
<1>6. ASSUME NEW w \in Workers, Reader(w) \/ ProcessExits(w)
      PROVE  Good
  <2>1. CASE SpawnFails(w) \/ ReadFrame(w) \/ Cleanup(w)
    BY <1>2, <2>1 DEF SpawnFails, ReadFrame, Cleanup
  <2>2. CASE Top(w) \/ AcquireTimeout(w) \/ SpawnOk(w) \/ Gate(w) \/ ReadFails(w)
             \/ Verdict(w) \/ ProcessExits(w)
    BY <1>4, <2>2 DEF Top, AcquireTimeout, SpawnOk, Gate, ReadFails, Verdict,
                      ProcessExits, readerVars
  <2> QED
    BY <1>3, <1>6, <2>1, <2>2 DEF Reader, Acquire, Spawn
<1>7. CASE UNCHANGED vars
  BY <1>4, <1>7 DEF vars, readerVars
<1> QED
  BY <1>5, <1>6, <1>7 DEF Next

(***************************************************************************)
(* Theorems                                                                *)
(***************************************************************************)

\* The inductive invariant holds before the first worker is started.
LEMMA InitEstablishesIInv == Init => IInv
<1> SUFFICES ASSUME Init PROVE IInv
  OBVIOUS
<1>1. Holders = {} /\ SlotsAddUp
  <2>1. Holders = {}
    BY DEF Init, Holders
  <2> QED
    BY <2>1, ConstantsAssumption, FS_EmptySet DEF Init, SlotsAddUp
<1>2. TypeOK
  BY ConstantsAssumption DEF Init, TypeOK, Callers, Phases, Processes
<1>3. ControlOK /\ RegistryOK
  BY ConstantsAssumption DEF Init, ControlOK, RegistryOK, Callers
<1>4. AttemptOK /\ SlotOnlyWhileConnecting /\ NoOrphanReader /\ NoOrphanProcess
  BY <1>1, ConstantsAssumption
     DEF Init, AttemptOK, SlotOnlyWhileConnecting, NoOrphanReader, NoOrphanProcess,
         Live
<1> QED
  BY <1>1, <1>2, <1>3, <1>4 DEF IInv

\* No step of a caller, of a reader, of ffmpeg or of the semaphore breaks it.
LEMMA StepKeepsIInv == IInv /\ [Next]_vars => IInv'
<1> SUFFICES ASSUME IInv, [Next]_vars PROVE IInv'
  OBVIOUS
<1>1. TypeOK'
  BY TypeStep, SlotsStep
<1> QED
  BY <1>1, ControlStep, RegistryStep, AttemptStep, HolderStep, OrphanStep, SlotsStep
     DEF IInv

\* It therefore holds in every state, whatever the cameras, configs and slots.
THEOREM Invariance == Spec => []IInv
<1> QED
  BY InitEstablishesIInv, StepKeepsIInv, PTL DEF Spec

\* Every variable of frame_source keeps its type, whatever start(), stop(),
\* stop_all() and the readers interleave.
THEOREM TypeCorrect == Spec => []TypeOK
<1>1. IInv => TypeOK
  BY DEF IInv
<1> QED
  BY <1>1, Invariance, PTL

\* _reconnect_semaphore is conserved: every slot is free or held by a reader.
THEOREM SlotsConserved == Spec => []SlotsAccounted
<1>1. IInv => SlotsAccounted
  BY DEF IInv, SlotsAccounted
<1> QED
  BY <1>1, Invariance, PTL

\* No reader thread runs that neither the registry nor a stop() knows of, and no
\* ffmpeg process outlives the read loop that started it.
THEOREM NothingOrphaned == Spec => []NoOrphan
<1>1. IInv => NoOrphan
  BY DEF IInv, NoOrphan
<1> QED
  BY <1>1, Invariance, PTL

\* A start() that calls stop() for a changed config waits for the lock it holds,
\* for ever: no step of any thread moves it.
THEOREM NestedStopNeverReturns == Spec => NestedStopStuck
<1> DEFINE Stuck == \A t \in Callers :
                pc[t] = "pop" /\ lock = t => pc'[t] = "pop" /\ lock' = t
<1>1. ASSUME IInv, [Next]_vars PROVE Stuck
  <2> SUFFICES ASSUME NEW t \in Callers, pc[t] = "pop", lock = t
               PROVE  pc'[t] = "pop" /\ lock' = t
    OBVIOUS
  <2>1. t = "supervisor" /\ t # None /\ pc = [u \in Callers |-> pc[u]]
    BY <1>1, ConstantsAssumption DEF IInv, TypeOK, ControlOK, Callers, StopSteps
  <2>2. CASE Call \/ Start \/ StopAllNext
    BY <2>1, <2>2 DEF Call, Start, CallStart, CallStop, CallStopAll, EnterStart,
        StartCreates, StartKeeps, StartReplaces, LeaveStart, StopAllNext, Goto
  <2>3. ASSUME NEW u \in Callers, Stop(u) PROVE pc'[t] = "pop" /\ lock' = t
    BY <2>1, <2>3 DEF Stop, Pop, Signal, Terminate, Join, Goto
  <2>4. ASSUME NEW w \in Workers, Reader(w) \/ ProcessExits(w)
        PROVE  pc'[t] = "pop" /\ lock' = t
    BY <2>4 DEF Reader, Acquire, Spawn, Top, AcquireSlot, AcquireTimeout, SpawnOk,
        SpawnFails, Gate, ReadFrame, ReadFails, Cleanup, Verdict, ProcessExits,
        callerVars
  <2> QED
    BY <1>1, <2>2, <2>3, <2>4 DEF Next, vars, callerVars
<1>2. IInv /\ [Next]_vars => [Stuck]_vars
  BY <1>1
<1> QED
  BY <1>2, Invariance, PTL DEF Spec, NestedStopStuck

(***************************************************************************)
(* The refinement                                                          *)
(***************************************************************************)

\* A step that registers nobody and touches neither the lock nor the supervisor's
\* place in a stop() shows nothing.
LEMMA NothingShown ==
    ASSUME workers' = workers, spec' = spec, Hung' = Hung
    PROVE  UNCHANGED Registry!vars
BY DEF Registry!vars, Fleet, Registered

\* A call begins or goes on without the registry: it shows nothing.
LEMMA CallShown ==
    ASSUME IInv,
           Call \/ EnterStart \/ StartKeeps \/ StopAllNext
                \/ \E t \in Callers : Signal(t) \/ Terminate(t) \/ Join(t)
    PROVE  UNCHANGED Registry!vars
<1> USE ConstantsAssumption DEF IInv, TypeOK, ControlOK, Callers, Hung, Goto
<1>1. UNCHANGED <<workers, spec>>
  BY DEF Call, CallStart, CallStop, CallStopAll, EnterStart, StartKeeps, LeaveStart,
         StopAllNext, Signal, Terminate, Join
<1>2. CASE Call
  BY <1>1, <1>2, NothingShown DEF Call, CallStart, CallStop, CallStopAll
<1>3. CASE EnterStart \/ StartKeeps
  BY <1>1, <1>3, NothingShown DEF EnterStart, StartKeeps, LeaveStart
<1>4. CASE StopAllNext
  BY <1>1, <1>4, NothingShown DEF StopAllNext
<1>5. ASSUME NEW t \in Callers, Signal(t) \/ Terminate(t) \/ Join(t)
      PROVE  UNCHANGED Registry!vars
  <2>1. lock' = lock /\ (t = "supervisor" => lock # "supervisor")
    BY <1>5 DEF Signal, Terminate, Join
  <2>2. Hung' = Hung
    BY <1>5, <2>1 DEF Signal, Terminate, Join
  <2>. QED BY <1>1, <2>2, NothingShown
<1>. QED BY <1>2, <1>3, <1>4, <1>5

\* The worker a start() creates is new: the other cameras keep theirs.
LEMMA CreateShown ==
    ASSUME IInv, StartCreates
    PROVE  Registry!Start(Wanted.cam, Wanted.cfg)
<1> USE ConstantsAssumption DEF IInv, TypeOK, ControlOK, RegistryOK, Callers
<1>1. Wanted.cam \in Cameras /\ Wanted.cfg \in Configs /\ ~Hung /\ Hung' = Hung
  BY DEF StartCreates, LeaveStart, Goto, Wanted, Hung
<1>2. PICK w \in Unborn : /\ workers' = [workers EXCEPT ![Wanted.cam] = w]
                          /\ spec' = [spec EXCEPT ![w] = Wanted]
  BY DEF StartCreates
<1>3. \A c \in Cameras : workers[c] # w
  BY <1>2 DEF Unborn
<1>4. w \in Workers /\ w # None
  BY <1>2 DEF Unborn
<1>5. \A c \in Cameras : Fleet'[c] = IF c = Wanted.cam THEN Wanted.cfg ELSE Fleet[c]
  <2>1. ASSUME NEW c \in Cameras, c # Wanted.cam PROVE Fleet'[c] = Fleet[c]
    BY <1>2, <1>3, <1>4, <2>1 DEF Fleet, Registered
  <2>2. Fleet'[Wanted.cam] = Wanted.cfg
    BY <1>1, <1>2, <1>4 DEF Fleet, Registered
  <2>. QED BY <2>1, <2>2
<1>6. Fleet' = [Fleet EXCEPT ![Wanted.cam] = Wanted.cfg]
  BY <1>5 DEF Fleet
<1>7. Fleet[Wanted.cam] = None
  BY <1>1 DEF StartCreates, Fleet
<1>. QED BY <1>1, <1>6, <1>7 DEF Registry!Start

\* The config of a start() that goes to stop() is not that of the worker.
LEMMA ReplaceShown ==
    ASSUME IInv, StartReplaces
    PROVE  Registry!Hang(Wanted.cam, Wanted.cfg) /\ Wanted.cam \in Cameras
           /\ Wanted.cfg \in Configs
<1> USE ConstantsAssumption DEF IInv, TypeOK, ControlOK, RegistryOK, Callers
<1> DEFINE w == workers[Wanted.cam]
<1>1. Wanted.cam \in Cameras /\ Wanted.cfg \in Configs /\ ~Hung /\ Hung'
  BY DEF StartReplaces, Goto, Wanted, Hung
<1>2. w \in Workers /\ spec[w] \in Specs /\ spec[w].cam = Wanted.cam
  BY <1>1 DEF StartReplaces, Registered
<1>3. spec[w].cfg # Wanted.cfg /\ spec[w].cfg \in Configs
  BY <1>1, <1>2 DEF StartReplaces, Specs, Wanted
<1>4. Fleet[Wanted.cam] \notin {None, Wanted.cfg}
  BY <1>1, <1>3 DEF StartReplaces, Fleet, Registered
<1>5. Fleet' = Fleet
  BY DEF StartReplaces, Fleet, Registered
<1>. QED BY <1>1, <1>4, <1>5 DEF Registry!Hang

\* Whoever pops a worker holds no lock, and no other camera's is touched.
LEMMA PopShown ==
    ASSUME IInv, NEW t \in Callers, Pop(t)
    PROVE  target[t] \in Cameras
           /\ (Registry!Stop(target[t]) \/ UNCHANGED Registry!vars)
<1> USE ConstantsAssumption DEF IInv, TypeOK, ControlOK, RegistryOK, Callers
<1>1. target[t] \in Cameras /\ ~Hung /\ Hung' = Hung /\ spec' = spec
  BY DEF Pop, Hung
<1>2. CASE Registered(target[t])
  <2>1. Fleet' = [Fleet EXCEPT ![target[t]] = None]
    BY <1>1 DEF Pop, Fleet, Registered
  <2>2. Fleet[target[t]] # None
    <3>1. spec[workers[target[t]]] \in Specs
      BY <1>1, <1>2 DEF Registered
    <3>. QED BY <1>1, <1>2, <3>1 DEF Fleet, Specs
  <2>. QED BY <1>1, <2>1, <2>2 DEF Registry!Stop
<1>3. CASE ~Registered(target[t])
  <2>1. workers' = workers
    BY <1>1, <1>3 DEF Pop, Registered
  <2>. QED BY <1>1, <2>1, NothingShown
<1>. QED BY <1>1, <1>2, <1>3

\* Every step of the callers and of the readers is a step of WorkerRegistry, or shows
\* nothing: AiSupervisor may take a start() or a stop() for one step of its own.
THEOREM RegistryRefined == Spec => RegistryKept
<1>1. Init => Registry!Init
  BY DEF Init, Registry!Init, Fleet, Registered, Hung, Callers
<1>2. ASSUME IInv, [Next]_vars PROVE [Registry!Next]_(Registry!vars)
  <2>1. CASE Call \/ EnterStart \/ StartKeeps \/ StopAllNext
    BY <1>2, <2>1, CallShown
  <2>2. CASE StartCreates
    <3>1. Wanted.cam \in Cameras /\ Wanted.cfg \in Configs
      BY <1>2, <2>2 DEF StartCreates, Wanted, IInv, ControlOK
    <3>. QED BY <1>2, <2>2, <3>1, CreateShown DEF Registry!Next
  <2>3. CASE StartReplaces
    BY <1>2, <2>3, ReplaceShown DEF Registry!Next
  <2>4. ASSUME NEW t \in Callers, Stop(t) PROVE [Registry!Next]_(Registry!vars)
    BY <1>2, <2>4, CallShown, PopShown DEF Stop, Registry!Next
  <2>5. ASSUME NEW w \in Workers, Reader(w) \/ ProcessExits(w)
        PROVE  UNCHANGED Registry!vars
    BY <2>5, NothingShown DEF Reader, Acquire, Spawn, Top, AcquireSlot, AcquireTimeout,
        SpawnOk, SpawnFails, Gate, ReadFrame, ReadFails, Cleanup, Verdict, ProcessExits,
        callerVars, Hung
  <2>6. CASE UNCHANGED vars
    BY <2>6, NothingShown DEF vars, callerVars, Hung
  <2>. QED BY <1>2, <2>1, <2>2, <2>3, <2>4, <2>5, <2>6 DEF Next, Start
<1>. QED BY <1>1, <1>2, Invariance, PTL DEF Spec, RegistryKept, Registry!Safe

(***************************************************************************)
(* How far the nested stop reaches                                         *)
(***************************************************************************)

\* Once a start() waits for its own lock, no camera's worker comes or goes any more,
\* whatever the supervisor, the shutdown handler and the readers do.
FrozenForGood == [][Hung => Hung' /\ Fleet' = Fleet]_vars

THEOREM RegistryFrozen == Spec => FrozenForGood
<1>1. [Registry!Next]_(Registry!vars) => [Hung => Hung' /\ Fleet' = Fleet]_vars
  <2>1. Registry!Next => ~Hung
    BY DEF Registry!Next, Registry!Start, Registry!Stop, Registry!Hang
  <2>. QED BY <2>1 DEF Registry!vars
<1>. QED BY <1>1, RegistryRefined, PTL DEF RegistryKept, Registry!Safe, FrozenForGood

\* The supervisor only asks for the config that the camera's worker has, if it has one.
SameConfigAsked ==
    pc["supervisor"] = "idle" /\ pc'["supervisor"] = "start"
        => Fleet[target'["supervisor"]] \in {None, wanted'}

\* The start() in progress finds no worker, or one that has its config.
AskedOK ==
    /\ ~Hung
    /\ pc["supervisor"] \in {"start", "body"}
           => Fleet[target["supervisor"]] \in {None, wanted}

\* Between the question and the lock a worker may only go: stop_all() stops it.
LEMMA AskedStep ==
    ASSUME IInv, AskedOK, [Next]_vars, [SameConfigAsked]_vars
    PROVE  AskedOK'
<1> USE ConstantsAssumption DEF IInv, TypeOK, ControlOK, Callers
<1> DEFINE Asked == <<pc["supervisor"], target["supervisor"], wanted>>
<1>1. CASE Asked' = Asked /\ UNCHANGED Registry!vars
  BY <1>1 DEF AskedOK, Registry!vars
<1>2. CASE pc'["supervisor"] \notin {"start", "body"} /\ UNCHANGED Registry!vars
  BY <1>2 DEF AskedOK, Registry!vars
<1>3. ASSUME NEW c \in Cameras, NEW g \in Configs, CallStart(c, g) PROVE AskedOK'
  <2>1. UNCHANGED Registry!vars
    BY <1>3, CallShown DEF Call
  <2>2. SameConfigAsked
    <3>1. pc' # pc
      BY <1>3 DEF CallStart, Goto
    <3>. QED BY <3>1 DEF vars, callerVars
  <2>. QED BY <1>3, <2>1, <2>2 DEF CallStart, Goto, SameConfigAsked, AskedOK, Registry!vars
<1>4. ASSUME NEW c \in Cameras, CallStop(c) PROVE AskedOK'
  BY <1>2, <1>4, CallShown DEF Call, CallStop, Goto
<1>5. CASE CallStopAll \/ StopAllNext
  BY <1>1, <1>5, CallShown DEF Call, CallStopAll, StopAllNext, Goto
<1>6. CASE EnterStart
  <2>1. UNCHANGED Registry!vars
    BY <1>6, CallShown
  <2>. QED BY <1>6, <2>1 DEF EnterStart, Goto, AskedOK, Registry!vars
<1>7. CASE StartCreates
  BY <1>7 DEF StartCreates, LeaveStart, Goto, AskedOK, Hung
<1>8. CASE StartKeeps
  BY <1>2, <1>8, CallShown DEF StartKeeps, LeaveStart, Goto
<1>9. CASE StartReplaces
  <2>1. Fleet[Wanted.cam] \notin {None, Wanted.cfg}
    BY <1>9, ReplaceShown DEF Registry!Hang
  <2>. QED BY <1>9, <2>1 DEF StartReplaces, AskedOK, Wanted
<1>10. ASSUME NEW t \in Callers, Pop(t) PROVE AskedOK'
  <2>1. target[t] \in Cameras /\ lock = None
        /\ (Registry!Stop(target[t]) \/ UNCHANGED Registry!vars)
    BY <1>10, PopShown DEF Pop
  <2>2. CASE t = "supervisor"
    <3>1. pc'["supervisor"] \notin {"start", "body"} /\ ~Hung'
      BY <1>10, <2>1, <2>2 DEF Pop, Goto, Hung
    <3>. QED BY <3>1 DEF AskedOK
  <2>3. CASE t = "shutdown"
    <3>1. Asked' = Asked /\ ~Hung'
      BY <1>10, <2>1, <2>3 DEF Pop, Goto, ReturnFromStop, Hung
    <3>2. \A c \in Cameras : Fleet'[c] \in {None, Fleet[c]}
      BY <2>1 DEF Registry!Stop, Registry!vars, Fleet
    <3>. QED BY <3>1, <3>2 DEF AskedOK
  <2>. QED BY <2>2, <2>3
<1>11. ASSUME NEW t \in Callers, Signal(t) \/ Terminate(t) \/ Join(t) PROVE AskedOK'
  <2>1. UNCHANGED Registry!vars
    BY <1>11, CallShown
  <2>2. CASE t = "supervisor"
    <3>1. pc'["supervisor"] \notin {"start", "body"}
      BY <1>11, <2>2 DEF Signal, Terminate, Join, Goto
    <3>. QED BY <1>2, <2>1, <3>1
  <2>3. CASE t = "shutdown"
    BY <1>1, <1>11, <2>1, <2>3 DEF Signal, Terminate, Join, Goto, ReturnFromStop
  <2>. QED BY <2>2, <2>3
<1>12. ASSUME NEW w \in Workers, Reader(w) \/ ProcessExits(w) PROVE AskedOK'
  <2>1. UNCHANGED <<lock, workers, spec, callerVars>>
    BY <1>12 DEF Reader, Acquire, Spawn, Top, AcquireSlot, AcquireTimeout, SpawnOk,
       SpawnFails, Gate, ReadFrame, ReadFails, Cleanup, Verdict, ProcessExits
  <2>. QED BY <1>1, <2>1, NothingShown DEF callerVars, Hung
<1>13. CASE UNCHANGED vars
  BY <1>1, <1>13, NothingShown DEF vars, callerVars, Hung
<1>. QED BY <1>3, <1>4, <1>5, <1>6, <1>7, <1>8, <1>9, <1>10, <1>11, <1>12, <1>13
     DEF Next, Call, Start, Stop

\* What the run frame_source_restart finds needs a camera whose config changes while its
\* worker is registered: as long as none does, no start() waits for its own lock, even
\* if stop_all() interferes.
THEOREM OnlyChangesHang == Spec /\ [][SameConfigAsked]_vars => []~Hung
<1>1. Init => AskedOK
  BY DEF Init, AskedOK, Hung, Callers
<1>2. AskedOK => ~Hung
  BY DEF AskedOK
<1>. QED BY <1>1, <1>2, AskedStep, Invariance, PTL DEF Spec
================================================================================
