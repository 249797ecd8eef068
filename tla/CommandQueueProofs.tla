--------------------------- MODULE CommandQueueProofs ---------------------------
(***************************************************************************)
(* Proofs about CommandQueue for any commands and settings: types, that a  *)
(* command is carried out once at most by each side, that the pipeline     *)
(* keeps the order of calls one after the other, which writes can drop a   *)
(* setting, and that every step is a step of CommandOutcome.  The liveness *)
(* of the outcomes and of the queue is left to TLC.                        *)
(***************************************************************************)
EXTENDS CommandQueue, TLAPS

\* The pipeline has yet to carry out a command that is in the list or was just taken
\* from it.
Due(c) == Queued(c) \/ (serving = c /\ step = "popped")

\* A command is in one place of the list at most, or in the hands of the loop.
QueueOK ==
    /\ \A i, j \in DOMAIN queue : queue[i] = queue[j] => i = j
    /\ \A c \in Calls : serving = c => ~Queued(c)

\* What the pipeline has done of a command, from where the command is.
PipelineRuns ==
    \A c \in Calls :
        /\ Due(c) => pc[c] # "idle" /\ runs[c]["pipeline"] = 0
        /\ serving = c => pc[c] # "idle"
        /\ serving = c /\ step \in {"running", "ok", "error"} => runs[c]["pipeline"] = 1
        /\ reply[c] # "none" \/ pc[c] = "answered" => runs[c]["pipeline"] = 1
        /\ pc[c] = "idle" => runs[c]["pipeline"] = 0

\* What the caller has done of it, from where the call is.
CallerRuns ==
    \A c \in Calls :
        /\ pc[c] \in {"idle", "waiting", "local", "answered"} => runs[c]["caller"] = 0
        /\ pc[c] \in {"running", "done"} => runs[c]["caller"] = 1

\* No side has carried a command out twice.
AtMostOnce == \A c \in Calls, s \in Sides : runs[c][s] <= 1

\* Of two calls one after the other, the first has returned and the second has begun,
\* and the command of the first is in front of that of the second until it is carried
\* out or lost.
OrderOK ==
    \A pair \in before :
        /\ pair[1] # pair[2] /\ pc[pair[2]] # "idle"
        /\ pc[pair[1]] \in {"answered", "done", "failed"}
        /\ Queued(pair[1]) \/ serving = pair[1] => runs[pair[2]]["pipeline"] = 0
        /\ Queued(pair[1]) => serving # pair[2]
        /\ \A i, j \in DOMAIN queue : queue[i] = pair[1] /\ queue[j] = pair[2] => i < j

\* The memory of a pipeline that has loaded the document covers it, as long as nobody
\* else has written it.
MemoryCovers == loaded /\ ~foreign => stored \subseteq memory["pipeline"]

\* A write is in flight while its command is carried out.
FlightPlace ==
    \A c \in Calls :
        /\ flight[<<c, "caller">>] # {} => pc[c] = "running"
        /\ flight[<<c, "pipeline">>] # {} => serving = c /\ step = "running"

\* What a write took is still in the memory of its process; taken after the load and
\* overtaken by nobody, it covers what is stored.
FlightCovers ==
    \A w \in Writes :
        /\ flight[w] \subseteq memory[Writer(w[2])]
        /\ flight[w] # {} /\ w \notin stale /\ ~foreign /\ Writer(w[2]) = "pipeline"
              => stored \subseteq flight[w]

\* The inductive invariant.
IInv == /\ TypeOK
        /\ QueueOK
        /\ PipelineRuns /\ CallerRuns /\ AtMostOnce
        /\ OrderOK
        /\ MemoryCovers /\ FlightPlace /\ FlightCovers

(***************************************************************************)
(* Types                                                                   *)
(***************************************************************************)

\* A write is a command and a side; its process is one of the two.
LEMMA WriteType ==
    /\ \A c \in Calls, s \in Sides : <<c, s>> \in Writes /\ <<c, s>>[1] = c /\ <<c, s>>[2] = s
    /\ "caller" \in Sides /\ "pipeline" \in Sides
    /\ \A s \in Sides : Writer(s) \in Procs /\ (~split => Writer(s) = "pipeline")
    /\ Writer("pipeline") = "pipeline"
    /\ \A w \in Writes : w[1] \in Calls /\ w[2] \in Sides /\ w = <<w[1], w[2]>>
BY DEF Writes, Sides, Writer, Home, Procs

\* What a command changes in memory is what its write takes.
LEMMA PatchType ==
    ASSUME TypeOK, NEW c \in Calls, NEW s \in Sides, Patch(c, s)
    PROVE  /\ memory' \in [Procs -> SUBSET Settings]
           /\ \A q \in Procs : memory[q] \subseteq memory'[q]
           /\ \A q \in Procs : q # Writer(s) => memory'[q] = memory[q]
           /\ flight' \in [Writes -> SUBSET Settings]
           /\ flight'[<<c, s>>] \in {flight[<<c, s>>], memory'[Writer(s)]}
           /\ \A w \in Writes : w # <<c, s>> => flight'[w] = flight[w]
           /\ stale \subseteq stale' /\ stale' \subseteq Writes /\ \A w \in stale' : flight'[w] # {}
           /\ flight[<<c, s>>] = {} /\ flight'[<<c, s>>] # {} /\ <<c, s>> \notin stale'
                 => loaded
<1>1. <<c, s>> \in Writes /\ Writer(s) \in Procs
  BY WriteType
<1>2. CASE c \in Puts
  <2>1. c \in Settings
    BY <1>2, PutsAreSettings
  <2>2. /\ memory' = [memory EXCEPT ![Writer(s)] = @ \cup {c}]
        /\ flight' = [flight EXCEPT ![<<c, s>>] = memory'[Writer(s)]]
        /\ stale' = IF loaded THEN stale ELSE stale \cup {<<c, s>>}
    BY <1>2 DEF Patch
  <2>3. memory' \in [Procs -> SUBSET Settings] /\ c \in memory'[Writer(s)]
    BY <1>1, <2>1, <2>2 DEF TypeOK
  <2>4. flight' \in [Writes -> SUBSET Settings] /\ flight'[<<c, s>>] = memory'[Writer(s)]
        /\ \A w \in Writes : w # <<c, s>> => flight'[w] = flight[w]
    BY <1>1, <2>2, <2>3 DEF TypeOK
  <2>. QED BY <1>1, <2>2, <2>3, <2>4 DEF TypeOK
<1>3. CASE c \notin Puts
  <2>1. UNCHANGED <<memory, flight, stale>>
    BY <1>3 DEF Patch
  <2>. QED BY <1>1, <2>1 DEF TypeOK
<1>. QED BY <1>2, <1>3

\* Writes that are dropped leave the others alone.
LEMMA DropType ==
    ASSUME TypeOK, NEW ws \in SUBSET Writes, Drop(ws)
    PROVE  /\ flight' \in [Writes -> SUBSET Settings]
           /\ stale' \subseteq Writes /\ \A w \in stale' : flight'[w] # {}
           /\ \A w \in Writes : w \in ws => flight'[w] = {}
           /\ \A w \in Writes : w \notin ws => flight'[w] = flight[w]
           /\ \A w \in Writes : w \notin ws => (w \in stale' <=> w \in stale)
BY DEF Drop, TypeOK

\* What lands is what the write took or more.
LEMMA LandType ==
    ASSUME TypeOK, NEW w \in Writes, Land(w)
    PROVE  /\ stored' \subseteq Settings
           /\ stored' \in {flight[w], memory[Writer(w[2])]}
           /\ flight' \in [Writes -> SUBSET Settings] /\ flight'[w] = {}
           /\ \A v \in Writes : v # w => flight'[v] = flight[v]
                                       /\ (flight[v] # {} => v \in stale')
           /\ stale' \subseteq Writes /\ \A v \in stale' : flight'[v] # {}
           /\ ~split => foreign' = foreign
<1>1. Writer(w[2]) \in Procs /\ (~split => Writer(w[2]) # "api")
  BY WriteType
<1>2. stored' \in {flight[w], memory[Writer(w[2])]}
  BY DEF Land
<1>. QED BY <1>1, <1>2 DEF Land, TypeOK

\* A command more on one side: once more if it was carried out less than twice.
LEMMA CountType ==
    ASSUME TypeOK, NEW c \in Calls, NEW s \in Sides, Count(c, s)
    PROVE  /\ runs' \in [Calls -> [Sides -> 0..2]]
           /\ runs[c][s] = 0 => runs'[c][s] = 1
           /\ \A d \in Calls, t \in Sides :
                 d # c \/ t # s => runs'[d][t] = runs[d][t]
<1>1. \A d \in Calls : runs[d] \in [Sides -> 0..2]
  BY DEF TypeOK
<1>2. runs' = [runs EXCEPT ![c] = [runs[c] EXCEPT ![s] = IF runs[c][s] < 2
                                                         THEN runs[c][s] + 1
                                                         ELSE runs[c][s]]]
  BY DEF Count
<1>3. (IF runs[c][s] < 2 THEN runs[c][s] + 1 ELSE runs[c][s]) \in 0..2
  BY <1>1
<1>. QED BY <1>1, <1>2, <1>3 DEF TypeOK

\* The calls that end with their process leave no answer behind.
LEMMA CallersEndType ==
    ASSUME TypeOK, CallersEnd
    PROVE  /\ pc' \in [Calls -> {"idle", "waiting", "local", "running",
                                 "answered", "done", "failed", "lost"}]
           /\ reply' \in [Calls -> {"none", "ok", "error"}]
           /\ \A c \in Calls : /\ reply'[c] = "none"
                               /\ pc'[c] # pc[c] => /\ pc'[c] = "lost"
                                                  /\ pc[c] \in {"waiting", "local", "running"}
                               /\ pc'[c] = "idle" <=> pc[c] = "idle"
BY DEF CallersEnd, TypeOK

\* The types are preserved by every step.
LEMMA TypeStep ==
    ASSUME TypeOK, [Next]_vars
    PROVE  TypeOK'
<1>1. ASSUME NEW c \in Calls, Send(c) PROVE TypeOK'
  <2>1. Append(queue, c) \in Seq(Calls)
    BY DEF TypeOK
  <2>2. before' \subseteq Calls \X Calls
    BY <1>1 DEF Send, Returned, TypeOK
  <2>. QED BY <1>1, <2>1, <2>2 DEF Send, Goto, TypeOK, loopVars, settingVars, writeVars
<1>2. ASSUME NEW c \in Calls, Receive(c) PROVE TypeOK'
  BY <1>2 DEF Receive, Goto, TypeOK, loopVars, settingVars, writeVars
<1>3. ASSUME NEW c \in Calls, GiveUp(c) PROVE TypeOK'
  BY <1>3 DEF GiveUp, Goto, TypeOK, loopVars, settingVars, writeVars
<1>4. ASSUME NEW c \in Calls, LocalRun(c) PROVE TypeOK'
  <2>1. runs' \in [Calls -> [Sides -> 0..2]]
    BY <1>4, CountType DEF LocalRun, Sides
  <2>2. /\ memory' \in [Procs -> SUBSET Settings]
        /\ (~split => memory'["api"] = memory["api"])
        /\ flight' \in [Writes -> SUBSET Settings]
        /\ stale' \subseteq Writes /\ \A w \in stale' : flight'[w] # {}
    BY <1>4, WriteType, PatchType DEF LocalRun, Procs
  <2>. QED BY <1>4, <2>1, <2>2 DEF LocalRun, Goto, TypeOK, loopVars
<1>5. ASSUME NEW c \in Calls, LocalEnd(c) PROVE TypeOK'
  BY <1>5 DEF LocalEnd, Goto, TypeOK, loopVars, settingVars, writeVars
<1>6. ASSUME NEW c \in Calls, LocalFails(c) PROVE TypeOK'
  <2>1. {<<c, "caller">>} \in SUBSET Writes
    BY WriteType
  <2>2. /\ flight' \in [Writes -> SUBSET Settings]
        /\ stale' \subseteq Writes /\ \A w \in stale' : flight'[w] # {}
    BY <1>6, <2>1, DropType DEF LocalFails
  <2>. QED BY <1>6, <2>2 DEF LocalFails, Goto, TypeOK, loopVars
<1>7. CASE Pop
  <2>1. Head(queue) \in Calls /\ Tail(queue) \in Seq(Calls)
    BY <1>7 DEF Pop, TypeOK
  <2>. QED BY <1>7, <2>1, NoneIsNoCall DEF Pop, TypeOK, callVars, settingVars, writeVars
<1>8. CASE Execute
  <2>1. serving \in Calls
    BY <1>8 DEF Execute, TypeOK
  <2>2. runs' \in [Calls -> [Sides -> 0..2]]
    BY <1>8, <2>1, CountType DEF Execute, Sides
  <2>3. /\ memory' \in [Procs -> SUBSET Settings] /\ memory'["api"] = memory["api"]
        /\ flight' \in [Writes -> SUBSET Settings]
        /\ stale' \subseteq Writes /\ \A w \in stale' : flight'[w] # {}
    BY <1>8, <2>1, WriteType, PatchType DEF Execute, Procs
  <2>. QED BY <1>8, <2>2, <2>3 DEF Execute, TypeOK, callVars
<1>9. CASE Finish
  BY <1>9 DEF Finish, TypeOK, callVars, settingVars, writeVars
<1>10. CASE ExecuteFails
  <2>1. {<<serving, "pipeline">>} \in SUBSET Writes
    BY <1>10, WriteType DEF ExecuteFails, TypeOK
  <2>. QED BY <1>10, <2>1, DropType DEF ExecuteFails, TypeOK, callVars
<1>11. CASE Answer
  BY <1>11 DEF Answer, TypeOK, settingVars, writeVars
<1>12. CASE Reload
  BY <1>12 DEF Reload, Procs, TypeOK, callVars, loopVars, writeVars
<1>13. CASE PipelineRestarts
  BY <1>13, CallersEndType, DropType DEF PipelineRestarts, Procs, TypeOK
<1>14. CASE ApiRestarts
  BY <1>14, CallersEndType, DropType DEF ApiRestarts, Procs, TypeOK, loopVars
<1>15. CASE RedisRestarts
  BY <1>15 DEF RedisRestarts, TypeOK, loopVars, settingVars, writeVars
<1>16. CASE UNCHANGED vars
  BY <1>16 DEF vars, TypeOK, callVars, loopVars, settingVars, writeVars
<1>17. ASSUME NEW w \in Writes, Land(w) PROVE TypeOK'
  BY <1>17, LandType DEF Land, TypeOK, callVars, loopVars
<1>. QED
  BY <1>1, <1>2, <1>3, <1>4, <1>5, <1>6, <1>7, <1>8, <1>9, <1>10, <1>11, <1>12,
     <1>13, <1>14, <1>15, <1>16, <1>17, WriteType DEF Next, Caller, CommandLoop, Restart

(***************************************************************************)
(* The inductive invariant, action by action                               *)
(***************************************************************************)

\* A command is appended behind the others, and it is not there yet.
LEMMA SendStep ==
    ASSUME IInv, NEW c \in Calls, Send(c)
    PROVE  QueueOK' /\ PipelineRuns' /\ CallerRuns' /\ AtMostOnce' /\ OrderOK'
<1>1. /\ queue \in Seq(Calls)
      /\ pc[c] = "idle" /\ ~Queued(c) /\ serving # c
      /\ runs[c]["pipeline"] = 0 /\ runs[c]["caller"] = 0
      /\ reply[c] = "none"
      /\ \A pair \in before : pair[1] # c /\ pair[2] # c
  BY DEF IInv, TypeOK, Send, PipelineRuns, CallerRuns, OrderOK, Due
<1>2. /\ pc' \in [Calls -> {"idle", "waiting", "local", "running",
                            "answered", "done", "failed", "lost"}]
      /\ pc'[c] \in {"waiting", "local"}
      /\ \A d \in Calls : d # c => pc'[d] = pc[d]
      /\ UNCHANGED <<split, reply, serving, step, runs, memory, loaded, stored, foreign>>
  BY DEF IInv, TypeOK, Send, Goto, loopVars, settingVars, writeVars
<1>3. \/ queue' = queue
      \/ /\ Len(queue') = Len(queue) + 1 /\ queue'[Len(queue')] = c
         /\ \A i \in 1..Len(queue) : queue'[i] = queue[i]
         /\ DOMAIN queue' = 1..Len(queue')
  BY <1>1 DEF Send
<1>4. DOMAIN queue = 1..Len(queue) /\ Len(queue) \in Nat
  BY <1>1
<1>5. /\ \A d \in Calls : d # c => (Queued(d)' <=> Queued(d))
      /\ \A i \in DOMAIN queue' : queue'[i] # c => i \in DOMAIN queue /\ queue'[i] = queue[i]
      /\ \A i \in DOMAIN queue' : queue'[i] = c => i = Len(queue') /\ i = Len(queue) + 1
  BY <1>1, <1>3, <1>4 DEF Queued
<1>6. QueueOK'
  BY <1>1, <1>2, <1>5 DEF IInv, QueueOK
<1>7. PipelineRuns' /\ CallerRuns' /\ AtMostOnce'
  BY <1>1, <1>2, <1>5 DEF IInv, PipelineRuns, CallerRuns, AtMostOnce, Due
<1>8. OrderOK'
  <2> SUFFICES ASSUME NEW pair \in before' PROVE
            /\ pair[1] # pair[2] /\ pc'[pair[2]] # "idle"
            /\ pc'[pair[1]] \in {"answered", "done", "failed"}
            /\ Queued(pair[1])' \/ serving' = pair[1] => runs'[pair[2]]["pipeline"] = 0
            /\ Queued(pair[1])' => serving' # pair[2]
            /\ \A i, j \in DOMAIN queue' :
                  queue'[i] = pair[1] /\ queue'[j] = pair[2] => i < j
    BY DEF OrderOK
  <2>1. before \subseteq Calls \X Calls
    BY DEF IInv, TypeOK
  <2>2. CASE pair \in before
    BY <2>1, <2>2, <1>1, <1>2, <1>5 DEF IInv, OrderOK, Due
  <2>3. CASE pair \notin before
    <3>1. pair[2] = c /\ pair[1] \in Calls /\ pc[pair[1]] \in {"answered", "done", "failed"}
      BY <2>3 DEF Send, Returned
    <3>2. pair[1] # c
      BY <3>1, <1>1
    <3>3. \A i, j \in DOMAIN queue' : queue'[i] = pair[1] /\ queue'[j] = c => i < j
      BY <3>2, <1>4, <1>5
    <3>. QED BY <3>1, <3>2, <3>3, <1>1, <1>2
  <2>. QED BY <2>2, <2>3
<1>. QED BY <1>6, <1>7, <1>8

\* What a caller does after that leaves the list alone, and its call has begun.
LEMMA CallerStep ==
    ASSUME IInv, NEW c \in Calls,
           Receive(c) \/ GiveUp(c) \/ LocalRun(c) \/ LocalEnd(c) \/ LocalFails(c)
    PROVE  QueueOK' /\ PipelineRuns' /\ CallerRuns' /\ AtMostOnce' /\ OrderOK'
<1>1. /\ UNCHANGED <<split, before, queue, serving, step, loaded>>
      /\ \A d \in Calls : Queued(d)' = Queued(d) /\ Due(d)' = Due(d)
  BY DEF Receive, GiveUp, LocalRun, LocalEnd, LocalFails, loopVars, settingVars, writeVars,
         Queued, Due
<1>2. /\ pc[c] \in {"waiting", "local", "running"}
      /\ pc'[c] \in {"local", "answered", "running", "done", "failed"}
      /\ \A d \in Calls : d # c => pc'[d] = pc[d] /\ reply'[d] = reply[d]
      /\ reply'[c] = "none" \/ reply'[c] = reply[c]
  BY DEF Receive, GiveUp, LocalRun, LocalEnd, LocalFails, Goto, IInv, TypeOK
<1>3. /\ \A d \in Calls : runs'[d]["pipeline"] = runs[d]["pipeline"]
      /\ \A d \in Calls : d # c => runs'[d]["caller"] = runs[d]["caller"]
      /\ \/ pc'[c] = "running" /\ pc[c] = "local" /\ runs'[c]["caller"] = 1
         \/ runs' = runs /\ pc'[c] # "running"
  <2>1. CASE LocalRun(c)
    <3>1. Count(c, "caller") /\ "caller" \in Sides /\ "pipeline" \in Sides
      BY <2>1 DEF LocalRun, Sides
    <3>2. runs[c]["caller"] = 0 /\ pc[c] = "local" /\ pc'[c] = "running"
      BY <2>1 DEF LocalRun, Goto, IInv, TypeOK, CallerRuns
    <3>3. runs'[c]["caller"] = 1
          /\ \A d \in Calls, t \in Sides : d # c \/ t # "caller" => runs'[d][t] = runs[d][t]
      BY <3>1, <3>2, CountType DEF IInv
    <3>. QED BY <3>1, <3>2, <3>3
  <2>2. CASE ~LocalRun(c)
    BY <2>2 DEF Receive, GiveUp, LocalEnd, LocalFails, Goto, IInv, TypeOK
  <2>. QED BY <2>1, <2>2
<1>4. pc'[c] = "answered" => runs[c]["pipeline"] = 1 /\ pc[c] = "waiting"
  BY <1>2 DEF Receive, GiveUp, LocalRun, LocalEnd, LocalFails, Goto, IInv, TypeOK,
              PipelineRuns
<1>5. (pc'[c] = "done" => pc[c] = "running") /\ (pc'[c] = "local" => pc[c] = "waiting")
  BY <1>2 DEF Receive, GiveUp, LocalRun, LocalEnd, LocalFails, Goto, IInv, TypeOK
<1>6. QueueOK'
  BY <1>1 DEF IInv, QueueOK
<1>7. PipelineRuns'
  BY <1>1, <1>2, <1>3, <1>4 DEF IInv, PipelineRuns
<1>8. CallerRuns' /\ AtMostOnce'
  <2>1. CallerRuns'
    BY <1>2, <1>3, <1>4, <1>5 DEF IInv, CallerRuns
  <2>2. AtMostOnce'
    BY <1>3 DEF IInv, AtMostOnce, Sides
  <2>. QED BY <2>1, <2>2
<1>9. OrderOK'
  BY <1>1, <1>2, <1>3 DEF IInv, TypeOK, OrderOK
<1>. QED BY <1>6, <1>7, <1>8, <1>9

\* The loop takes the command in front.
LEMMA PopStep ==
    ASSUME IInv, Pop
    PROVE  QueueOK' /\ PipelineRuns' /\ CallerRuns' /\ AtMostOnce' /\ OrderOK'
<1>1. /\ queue \in Seq(Calls) /\ queue # <<>> /\ serving = None /\ step = "none"
      /\ serving' = Head(queue) /\ queue' = Tail(queue) /\ step' = "popped"
      /\ UNCHANGED <<split, pc, reply, before, runs, memory, loaded, stored, foreign>>
  BY DEF IInv, TypeOK, Pop, callVars, settingVars, writeVars
<1>2. /\ Len(queue) \in Nat \ {0} /\ DOMAIN queue = 1..Len(queue)
      /\ DOMAIN queue' = 1..(Len(queue) - 1)
      /\ \A i \in DOMAIN queue' : i + 1 \in DOMAIN queue /\ queue'[i] = queue[i + 1]
      /\ serving' = queue[1] /\ serving' \in Calls
  BY <1>1
<1>3. /\ Queued(Head(queue))
      /\ \A d \in Calls : Queued(d)' => Queued(d) /\ d # serving'
      /\ \A d \in Calls : Due(d)' => Queued(d)
  <2>1. Queued(Head(queue))
    BY <1>1, <1>2 DEF Queued
  <2>2. \A i \in DOMAIN queue' : queue'[i] # serving'
    BY <1>2 DEF IInv, QueueOK
  <2>3. \A d \in Calls : Queued(d)' => Queued(d) /\ d # serving'
    BY <1>2, <2>2 DEF Queued
  <2>4. \A d \in Calls : Due(d)' => Queued(d)' \/ d = serving'
    BY DEF Due
  <2>. QED BY <1>1, <2>1, <2>3, <2>4
<1>4. QueueOK'
  BY <1>2, <1>3 DEF IInv, QueueOK
<1>5. PipelineRuns' /\ CallerRuns' /\ AtMostOnce'
  BY <1>1, <1>2, <1>3 DEF IInv, PipelineRuns, CallerRuns, AtMostOnce, Due
<1>6. OrderOK'
  <2> SUFFICES ASSUME NEW pair \in before PROVE
            /\ pair[1] # pair[2] /\ pc[pair[2]] # "idle"
            /\ pc[pair[1]] \in {"answered", "done", "failed"}
            /\ Queued(pair[1])' \/ serving' = pair[1] => runs[pair[2]]["pipeline"] = 0
            /\ Queued(pair[1])' => serving' # pair[2]
            /\ \A i, j \in DOMAIN queue' :
                  queue'[i] = pair[1] /\ queue'[j] = pair[2] => i < j
    BY <1>1 DEF OrderOK
  <2>1. pair[1] \in Calls /\ pair[2] \in Calls
    BY DEF IInv, TypeOK
  <2>2. Queued(pair[1])' => serving' # pair[2]
    <3> SUFFICES ASSUME Queued(pair[1])', serving' = pair[2] PROVE FALSE
      OBVIOUS
    <3>1. PICK i \in DOMAIN queue' : queue'[i] = pair[1]
      BY DEF Queued
    <3>2. i + 1 \in DOMAIN queue /\ queue[i + 1] = pair[1] /\ i \in Nat
      BY <3>1, <1>2
    <3>3. 1 \in DOMAIN queue /\ queue[1] = pair[2]
      BY <1>2
    <3>4. i + 1 < 1
      BY <3>2, <3>3 DEF IInv, OrderOK
    <3>. QED BY <3>2, <3>4
  <2>3. \A i, j \in DOMAIN queue' : queue'[i] = pair[1] /\ queue'[j] = pair[2] => i < j
    BY <1>2 DEF IInv, OrderOK
  <2>. QED BY <2>1, <2>2, <2>3, <1>1, <1>3 DEF IInv, OrderOK
<1>. QED BY <1>4, <1>5, <1>6

\* What the loop does with the command in its hands leaves the list and the calls
\* alone; what it carries out has not been carried out, nor has any older one to be.
LEMMA ServeStep ==
    ASSUME IInv, Execute \/ Finish \/ ExecuteFails \/ Answer
    PROVE  QueueOK' /\ PipelineRuns' /\ CallerRuns' /\ AtMostOnce' /\ OrderOK'
<1>1. /\ serving \in Calls
      /\ UNCHANGED <<split, pc, before, queue, loaded, foreign>>
      /\ serving' \in {serving, None} /\ None \notin Calls
      /\ \A d \in Calls : Queued(d)' = Queued(d)
      /\ \A d \in Calls : Due(d)' => Due(d) /\ (step = "popped" => d # serving)
  BY NoneIsNoCall
     DEF IInv, TypeOK, Execute, Finish, ExecuteFails, Answer, callVars, settingVars, writeVars,
         Queued, Due, QueueOK
<1>2. /\ \A d \in Calls : d # serving => runs'[d] = runs[d] /\ reply'[d] = reply[d]
      /\ runs'[serving]["caller"] = runs[serving]["caller"]
      /\ \/ /\ step = "popped" /\ step' = "running" /\ serving' = serving
            /\ runs'[serving]["pipeline"] = 1 /\ reply' = reply
         \/ step \in {"running", "ok", "error"} /\ step' # "popped" /\ runs' = runs
  <2>1. CASE Execute
    <3>1. Count(serving, "pipeline") /\ "caller" \in Sides /\ "pipeline" \in Sides
      BY <2>1 DEF Execute, Sides
    <3>2. runs[serving]["pipeline"] = 0 /\ step = "popped" /\ step' = "running"
          /\ serving' = serving /\ reply' = reply
      BY <2>1, <1>1 DEF Execute, callVars, IInv, PipelineRuns, Due
    <3>3. \A d \in Calls : d # serving => runs'[d] = runs[d]
      BY <3>1 DEF Count, IInv, TypeOK
    <3>. QED BY <1>1, <3>1, <3>2, <3>3, CountType DEF IInv
  <2>2. CASE ~Execute
    BY <2>2 DEF Finish, ExecuteFails, Answer, callVars, IInv, TypeOK
  <2>. QED BY <2>1, <2>2
<1>3. QueueOK'
  BY <1>1 DEF IInv, QueueOK
<1>4. PipelineRuns'
  BY <1>1, <1>2 DEF IInv, PipelineRuns
<1>5. CallerRuns' /\ AtMostOnce'
  <2>1. CallerRuns'
    BY <1>1, <1>2 DEF IInv, CallerRuns
  <2>2. AtMostOnce'
    BY <1>1, <1>2 DEF IInv, AtMostOnce, Sides
  <2>. QED BY <2>1, <2>2
<1>6. OrderOK'
  <2> SUFFICES ASSUME NEW pair \in before
               PROVE  /\ Queued(pair[1])' \/ serving' = pair[1]
                             => runs'[pair[2]]["pipeline"] = 0
                      /\ Queued(pair[1])' => serving' # pair[2]
    BY <1>1 DEF IInv, OrderOK
  <2>1. pair[1] \in Calls /\ pair[2] \in Calls
    BY DEF IInv, TypeOK
  <2>2. (Queued(pair[1]) \/ serving = pair[1] => runs[pair[2]]["pipeline"] = 0)
        /\ (Queued(pair[1]) => serving # pair[2])
    BY DEF IInv, OrderOK
  <2>. QED BY <1>1, <1>2, <2>1, <2>2 DEF IInv, OrderOK
<1>. QED BY <1>3, <1>4, <1>5, <1>6

\* A restart forgets commands, calls and settings, and makes up none.
LEMMA RestartStep ==
    ASSUME IInv, Restart \/ Reload
    PROVE  QueueOK' /\ PipelineRuns' /\ CallerRuns' /\ AtMostOnce' /\ OrderOK'
<1>1. /\ UNCHANGED <<before, runs>>
      /\ <<serving', step'>> \in {<<serving, step>>, <<None, "none">>}
      /\ queue' \in {queue, <<>>}
      /\ None \notin Calls
  BY NoneIsNoCall DEF Restart, Reload, PipelineRestarts, ApiRestarts, RedisRestarts,
                      callVars, loopVars, settingVars, writeVars
<1>2. \A d \in Calls : /\ reply'[d] \in {reply[d], "none"}
                       /\ pc'[d] = pc[d] \/ /\ pc'[d] = "lost"
                                             /\ pc[d] \in {"waiting", "local", "running"}
                       /\ pc'[d] = "idle" <=> pc[d] = "idle"
  <2>1. CASE CallersEnd
    BY <2>1, CallersEndType DEF IInv
  <2>2. CASE ~CallersEnd
    BY <2>2 DEF Restart, Reload, PipelineRestarts, ApiRestarts, RedisRestarts, callVars,
                IInv, TypeOK
  <2>. QED BY <2>1, <2>2
<1>3. /\ \A i \in DOMAIN queue' : i \in DOMAIN queue /\ queue'[i] = queue[i]
      /\ \A d \in Calls : (Queued(d)' => Queued(d)) /\ (Due(d)' => Due(d))
  BY <1>1 DEF Queued, Due
<1>4. QueueOK'
  BY <1>1, <1>3 DEF IInv, QueueOK
<1>5. PipelineRuns'
  BY <1>1, <1>2, <1>3 DEF IInv, PipelineRuns
<1>6. CallerRuns' /\ AtMostOnce'
  BY <1>1, <1>2 DEF IInv, CallerRuns, AtMostOnce
<1>7. OrderOK'
  BY <1>1, <1>2, <1>3 DEF IInv, TypeOK, OrderOK
<1>. QED BY <1>4, <1>5, <1>6, <1>7

\* A write that lands shows nothing of the commands.
LEMMA LandStep ==
    ASSUME IInv, NEW w \in Writes, Land(w)
    PROVE  QueueOK' /\ PipelineRuns' /\ CallerRuns' /\ AtMostOnce' /\ OrderOK'
<1>1. UNCHANGED <<split, pc, reply, before, queue, serving, step, runs>>
  BY DEF Land, callVars, loopVars
<1>. QED BY <1>1 DEF IInv, QueueOK, PipelineRuns, CallerRuns, AtMostOnce, OrderOK, Due, Queued

\* A command that begins takes the memory; after the load it covers what is stored.
LEMMA TakeStep ==
    ASSUME IInv, NEW c \in Calls, NEW s \in Sides, Patch(c, s),
           flight[<<c, s>>] = {}, UNCHANGED <<split, loaded, stored, foreign>>
    PROVE  MemoryCovers' /\ FlightCovers'
<1>1. /\ <<c, s>> \in Writes /\ Writer(s) \in Procs /\ <<c, s>>[2] = s
      /\ \A w \in Writes : Writer(w[2]) \in Procs
      /\ \A t : Writer(t)' = Writer(t)
  BY WriteType DEF Writer, Home
<1>2. \A q \in Procs : memory[q] \subseteq memory'[q]
  BY PatchType DEF IInv
<1>3. MemoryCovers'
  BY <1>2 DEF IInv, MemoryCovers, Procs
<1>4. ASSUME NEW w \in Writes, w # <<c, s>>
      PROVE  /\ flight'[w] \subseteq memory'[Writer(w[2])]
             /\ flight'[w] # {} /\ w \notin stale' /\ ~foreign /\ Writer(w[2]) = "pipeline"
                   => stored \subseteq flight'[w]
  <2>1. flight'[w] = flight[w] /\ (w \notin stale' => w \notin stale)
    BY <1>4, PatchType DEF IInv
  <2>. QED BY <1>1, <1>2, <2>1 DEF IInv, FlightCovers
<1>5. /\ flight'[<<c, s>>] \subseteq memory'[Writer(s)]
      /\ flight'[<<c, s>>] # {} /\ <<c, s>> \notin stale' /\ ~foreign /\ Writer(s) = "pipeline"
            => stored \subseteq flight'[<<c, s>>]
  <2>1. flight'[<<c, s>>] \in {{}, memory'[Writer(s)]}
    BY PatchType DEF IInv
  <2>2. flight'[<<c, s>>] # {} /\ <<c, s>> \notin stale' => loaded
    BY PatchType DEF IInv
  <2>. QED BY <1>3, <2>1, <2>2 DEF MemoryCovers
<1>. QED BY <1>1, <1>3, <1>4, <1>5 DEF FlightCovers

\* Writes that are dropped, while what the process of the others has in memory, and
\* what is stored, stay.
LEMMA LeaveStep ==
    ASSUME IInv, NEW ws \in SUBSET Writes, Drop(ws), UNCHANGED <<split, stored, foreign>>,
           \A w \in Writes : w \notin ws => memory'[Writer(w[2])] = memory[Writer(w[2])]
    PROVE  FlightCovers'
<1>1. \A w \in Writes : Writer(w[2])' = Writer(w[2])
  BY DEF Writer, Home
<1>. QED BY <1>1, DropType DEF IInv, FlightCovers

\* Only a command that begins, a landing, a load and a restart touch the memory and
\* the writes.
LEMMA WritesStep ==
    ASSUME IInv, [Next]_vars
    PROVE  MemoryCovers' /\ FlightPlace' /\ FlightCovers'
<1> DEFINE Goal == MemoryCovers' /\ FlightPlace' /\ FlightCovers'
<1>1. ASSUME UNCHANGED <<split, settingVars>>, FlightPlace'
      PROVE  Goal
  BY <1>1 DEF IInv, MemoryCovers, FlightCovers, settingVars, writeVars, Writer, Home
<1>2. ASSUME NEW c \in Calls, Send(c) \/ Receive(c) \/ GiveUp(c) \/ LocalEnd(c)
      PROVE  Goal
  <2>1. /\ UNCHANGED <<split, settingVars, serving, step>>
        /\ \A d \in Calls : d # c => pc'[d] = pc[d]
        /\ pc[c] = "running" => flight[<<c, "caller">>] = {}
    BY <1>2 DEF Send, Receive, GiveUp, LocalEnd, Goto, IInv, TypeOK, loopVars
  <2>2. FlightPlace'
    BY <2>1 DEF IInv, FlightPlace, settingVars, writeVars
  <2>. QED BY <1>1, <2>1, <2>2
<1>3. ASSUME NEW c \in Calls, LocalRun(c)
      PROVE  Goal
  <2>1. /\ pc[c] = "local" /\ pc'[c] = "running" /\ \A d \in Calls : d # c => pc'[d] = pc[d]
        /\ UNCHANGED <<split, loaded, stored, foreign, serving, step>>
        /\ Patch(c, "caller")
    BY <1>3 DEF LocalRun, Goto, IInv, TypeOK, loopVars
  <2>2. flight[<<c, "caller">>] = {} /\ "caller" \in Sides
    BY <2>1 DEF IInv, FlightPlace, Sides
  <2>3. \A w \in Writes : w # <<c, "caller">> => flight'[w] = flight[w]
    BY <2>1, <2>2, PatchType DEF IInv
  <2>4. FlightPlace'
    BY <2>1, <2>3, WriteType DEF IInv, FlightPlace
  <2>. QED BY <2>1, <2>2, <2>4, TakeStep, WriteType
<1>4. CASE Execute
  <2>1. /\ serving \in Calls /\ step = "popped" /\ step' = "running"
        /\ UNCHANGED <<split, pc, loaded, stored, foreign, serving>>
        /\ Patch(serving, "pipeline")
    BY <1>4 DEF Execute, IInv, TypeOK, callVars
  <2>2. (\A c \in Calls : flight[<<c, "pipeline">>] = {}) /\ "pipeline" \in Sides
    BY <2>1 DEF IInv, FlightPlace, Sides
  <2>3. \A w \in Writes : w # <<serving, "pipeline">> => flight'[w] = flight[w]
    BY <2>1, <2>2, PatchType DEF IInv
  <2>4. FlightPlace'
    BY <2>1, <2>2, <2>3, WriteType DEF IInv, FlightPlace
  <2>. QED BY <2>1, <2>2, <2>4, TakeStep, WriteType
<1>5. ASSUME NEW w \in Writes, Land(w)
      PROVE  Goal
  <2>1. /\ UNCHANGED <<split, pc, serving, step, memory, loaded>>
        /\ foreign' = (foreign \/ Writer(w[2]) = "api")
        /\ \A v \in Writes : Writer(v[2])' = Writer(v[2])
    BY <1>5 DEF Land, callVars, loopVars, Writer, Home
  <2>2. /\ flight'[w] = {}
        /\ \A v \in Writes : v # w => flight'[v] = flight[v] /\ (flight[v] # {} => v \in stale')
        /\ stored' \in {flight[w], memory[Writer(w[2])]}
    BY <1>5, LandType DEF IInv
  <2>3. FlightPlace'
    BY <2>1, <2>2, WriteType DEF IInv, FlightPlace
  <2>4. FlightCovers'
    BY <2>1, <2>2 DEF IInv, FlightCovers
  <2>5. stored' \subseteq memory[Writer(w[2])] /\ Writer(w[2]) \in {"api", "pipeline"}
    BY <2>2, WriteType DEF IInv, FlightCovers, Procs
  <2>6. MemoryCovers'
    BY <2>1, <2>5 DEF MemoryCovers
  <2>. QED BY <2>3, <2>4, <2>6
<1>6. ASSUME NEW c \in Calls, LocalFails(c)
      PROVE  Goal
  <2>1. /\ Drop({<<c, "caller">>}) /\ \A d \in Calls : d # c => pc'[d] = pc[d]
        /\ UNCHANGED <<split, memory, loaded, stored, foreign, serving, step>>
        /\ {<<c, "caller">>} \in SUBSET Writes
    BY <1>6, WriteType DEF LocalFails, Goto, IInv, TypeOK, loopVars
  <2>2. FlightPlace'
    BY <2>1, WriteType, DropType DEF IInv, FlightPlace
  <2>3. MemoryCovers'
    BY <2>1 DEF IInv, MemoryCovers
  <2>. QED BY <2>1, <2>2, <2>3, LeaveStep
<1>7. CASE ExecuteFails
  <2>1. /\ Drop({<<serving, "pipeline">>}) /\ step = "running"
        /\ UNCHANGED <<split, pc, memory, loaded, stored, foreign, serving>>
        /\ {<<serving, "pipeline">>} \in SUBSET Writes
    BY <1>7, WriteType DEF ExecuteFails, callVars, IInv, TypeOK
  <2>2. \A c \in Calls : flight'[<<c, "pipeline">>] = {}
    <3>1. \A w \in {<<serving, "pipeline">>} : flight'[w] = {}
      BY <2>1, DropType DEF IInv
    <3>2. \A w \in Writes : w # <<serving, "pipeline">> => flight'[w] = flight[w]
      BY <2>1, DropType DEF IInv
    <3>. QED BY <3>1, <3>2, WriteType DEF IInv, FlightPlace
  <2>3. \A c \in Calls : flight'[<<c, "caller">>] \in {{}, flight[<<c, "caller">>]}
    BY <2>1, WriteType, DropType DEF IInv
  <2>4. FlightPlace'
    BY <2>1, <2>2, <2>3 DEF IInv, FlightPlace
  <2>5. MemoryCovers'
    BY <2>1 DEF IInv, MemoryCovers
  <2>. QED BY <2>1, <2>4, <2>5, LeaveStep
<1>8. CASE Pop \/ Finish \/ Answer
  <2>1. UNCHANGED <<split, settingVars, pc>> /\ (step # "running" \/ Finish)
    BY <1>8 DEF Pop, Finish, Answer, callVars, IInv, TypeOK
  <2>2. \A c \in Calls : flight[<<c, "pipeline">>] = {}
    BY <2>1 DEF Finish, IInv, FlightPlace
  <2>3. FlightPlace'
    BY <2>1, <2>2 DEF IInv, FlightPlace, settingVars, writeVars
  <2>. QED BY <1>1, <2>1, <2>3
<1>9. CASE Reload
  <2>1. /\ UNCHANGED <<split, pc, serving, step, stored, flight, stale, foreign>>
        /\ memory' = [memory EXCEPT !["pipeline"] = @ \cup stored]
    BY <1>9 DEF Reload, callVars, loopVars, writeVars
  <2>2. \A q \in Procs : memory[q] \subseteq memory'[q]
    BY <2>1 DEF IInv, TypeOK
  <2>3. stored \subseteq memory'["pipeline"]
    BY <2>1 DEF IInv, TypeOK, Procs
  <2>4. \A w \in Writes : Writer(w[2])' = Writer(w[2]) /\ Writer(w[2]) \in Procs
    BY <2>1, WriteType DEF Writer, Home
  <2>. QED BY <2>1, <2>2, <2>3, <2>4 DEF IInv, MemoryCovers, FlightPlace, FlightCovers
<1>10. CASE PipelineRestarts
  <2> DEFINE ws == {w \in Writes : Writer(w[2]) = "pipeline"}
  <2>1. /\ Drop(ws) /\ UNCHANGED <<split, stored, foreign>> /\ loaded' = FALSE
        /\ memory' = [memory EXCEPT !["pipeline"] = {}]
        /\ (split => pc' = pc)
    BY <1>10 DEF PipelineRestarts
  <2>2. \A w \in Writes : w \notin ws => memory'[Writer(w[2])] = memory[Writer(w[2])]
    BY <2>1, WriteType DEF IInv, TypeOK
  <2>3. \A w \in Writes : ~split \/ w[2] = "pipeline" => flight'[w] = {}
    BY <2>1, WriteType, DropType DEF IInv
  <2>4. \A w \in Writes : flight'[w] \in {{}, flight[w]}
    BY <2>1, DropType DEF IInv
  <2>5. FlightPlace'
    BY <2>1, <2>3, <2>4, WriteType DEF IInv, FlightPlace
  <2>6. MemoryCovers'
    BY <2>1 DEF MemoryCovers
  <2>. QED BY <2>1, <2>2, <2>5, <2>6, LeaveStep
<1>11. CASE ApiRestarts
  <2> DEFINE ws == {w \in Writes : Writer(w[2]) = "api"}
  <2>1. /\ Drop(ws) /\ split /\ UNCHANGED <<split, stored, foreign, loaded, serving, step>>
        /\ memory' = [memory EXCEPT !["api"] = {}]
    BY <1>11 DEF ApiRestarts, loopVars
  <2>2. \A w \in Writes : w \notin ws => memory'[Writer(w[2])] = memory[Writer(w[2])]
    BY <2>1, WriteType DEF IInv, TypeOK
  <2>3. \A c \in Calls : flight'[<<c, "caller">>] = {}
    BY <2>1, WriteType, DropType DEF IInv, Writer, Home
  <2>4. \A w \in Writes : flight'[w] \in {{}, flight[w]}
    BY <2>1, DropType DEF IInv
  <2>5. FlightPlace'
    BY <2>1, <2>3, <2>4, WriteType DEF IInv, FlightPlace
  <2>6. MemoryCovers'
    BY <2>1 DEF IInv, TypeOK, Procs, MemoryCovers
  <2>. QED BY <2>1, <2>2, <2>5, <2>6, LeaveStep
<1>12. CASE RedisRestarts \/ UNCHANGED vars
  <2>1. UNCHANGED <<split, settingVars, pc, serving, step>>
    BY <1>12 DEF RedisRestarts, vars, callVars, loopVars
  <2>2. FlightPlace'
    BY <2>1 DEF IInv, FlightPlace, settingVars, writeVars
  <2>. QED BY <1>1, <2>1, <2>2
<1>. QED BY <1>2, <1>3, <1>4, <1>5, <1>6, <1>7, <1>8, <1>9, <1>10, <1>11, <1>12, WriteType
         DEF Next, Caller, CommandLoop, Restart

\* The inductive invariant holds at first and is preserved by every step.
THEOREM Invariance == Spec => []IInv
<1>1. Init => IInv
  <2> SUFFICES ASSUME Init PROVE IInv
    OBVIOUS
  <2>1. TypeOK
    <3>1. \A c \in Calls : runs[c] \in [Sides -> 0..2]
      BY DEF Init
    <3>2. queue \in Seq(Calls) /\ memory \in [Procs -> SUBSET Settings]
      BY DEF Init
    <3>4. flight \in [Writes -> SUBSET Settings] /\ stale = {}
      BY DEF Init
    <3>3. runs \in [Calls -> [Sides -> 0..2]]
      BY <3>1 DEF Init
    <3>. QED BY <3>2, <3>3, <3>4 DEF Init, TypeOK, Procs
  <2>2. QueueOK /\ OrderOK /\ MemoryCovers
    BY NoneIsNoCall DEF Init, QueueOK, OrderOK, MemoryCovers, Queued
  <2>4. FlightPlace /\ FlightCovers
    BY WriteType DEF Init, FlightPlace, FlightCovers
  <2>3. PipelineRuns /\ CallerRuns /\ AtMostOnce
    BY NoneIsNoCall DEF Init, PipelineRuns, CallerRuns, AtMostOnce, Due, Queued, Sides
  <2>. QED BY <2>1, <2>2, <2>3, <2>4 DEF IInv
<1>2. ASSUME IInv, [Next]_vars PROVE IInv'
  <2>1. TypeOK'
    BY <1>2, TypeStep DEF IInv
  <2>2. MemoryCovers' /\ FlightPlace' /\ FlightCovers'
    BY <1>2, WritesStep
  <2>3. ASSUME NEW c \in Calls, Send(c) \/ Caller(c) PROVE IInv'
    BY <1>2, <2>1, <2>2, <2>3, SendStep, CallerStep, LandStep, WriteType DEF Caller, IInv
  <2>4. CASE CommandLoop
    BY <1>2, <2>1, <2>2, <2>4, PopStep, ServeStep, LandStep, WriteType DEF CommandLoop, IInv
  <2>5. CASE Reload \/ Restart
    BY <1>2, <2>1, <2>2, <2>5, RestartStep DEF IInv
  <2>6. CASE UNCHANGED vars
    BY <1>2, <2>1, <2>2, <2>6 DEF IInv, vars, callVars, loopVars, QueueOK, PipelineRuns,
       CallerRuns, AtMostOnce, OrderOK, Due, Queued
  <2>. QED BY <1>2, <2>3, <2>4, <2>5, <2>6 DEF Next
<1>. QED BY <1>1, <1>2, PTL DEF Spec

(***************************************************************************)
(* What follows from it                                                    *)
(***************************************************************************)

\* The types hold for any commands and settings; an answer is only kept for a caller
\* that waits, and in one process there is one memory.
THEOREM TypeCorrect == Spec => []TypeOK
<1>1. IInv => TypeOK
  BY DEF IInv
<1>. QED BY Invariance, <1>1, PTL

\* When the pipeline carries a command out, nothing is left of one whose call had
\* returned before, with any number of commands and restarts.  (Of a command that a
\* caller carries out itself this says nothing: an older one may come after it.)
THEOREM OrderKept == Spec => []PipelineInOrder
<1>1. IInv => PipelineInOrder
  <2> SUFFICES ASSUME IInv, NEW pair \in before, runs[pair[2]]["pipeline"] > 0
               PROVE  /\ ~Queued(pair[1]) /\ serving # pair[1]
                      /\ \A s \in Sides : flight[<<pair[1], s>>] = {}
    BY DEF PipelineInOrder
  <2>1. pair[1] \in Calls /\ pair[2] \in Calls
    BY DEF IInv, TypeOK
  <2>2. runs[pair[2]]["pipeline"] # 0
    OBVIOUS
  <2>3. /\ ~Queued(pair[1]) /\ serving # pair[1]
        /\ pc[pair[1]] \in {"answered", "done", "failed"}
    BY <2>2 DEF IInv, OrderOK
  <2>. QED BY <2>1, <2>3 DEF IInv, FlightPlace, Sides
<1>. QED BY Invariance, <1>1, PTL

\* Neither the pipeline nor the caller carries a command out twice.
THEOREM OnceEach == Spec => []AtMostOnce
<1>1. IInv => AtMostOnce
  BY DEF IInv
<1>. QED BY Invariance, <1>1, PTL

\* What a write takes after the load covers what is stored when it lands, unless the API
\* container has written or another write has landed in between.
THEOREM DocumentKept == Spec => SettingsKept
<1>1. ASSUME IInv, [Next]_vars
      PROVE  \/ stored \subseteq stored'
             \/ \E w \in Writes : Land(w) /\ (w \in stale \/ foreign')
  <2>1. ASSUME NEW w \in Writes, Land(w), w \notin stale, ~foreign'
        PROVE  stored \subseteq stored'
    <3>1. /\ flight[w] # {} /\ ~foreign /\ Writer(w[2]) # "api"
          /\ stored' \in {flight[w], memory[Writer(w[2])]}
      BY <2>1 DEF Land
    <3>2. Writer(w[2]) = "pipeline"
      BY <3>1, WriteType DEF Procs
    <3>. QED BY <1>1, <2>1, <3>1, <3>2 DEF IInv, FlightCovers
  <2>2. CASE ~\E w \in Writes : Land(w)
    <3>1. stored' = stored
      BY <1>1, <2>2, WriteType
         DEF Next, Send, Caller, Receive, GiveUp, LocalRun, LocalEnd, LocalFails, CommandLoop,
             Pop, Execute, Finish, ExecuteFails, Answer, Reload, Restart, PipelineRestarts,
             ApiRestarts, RedisRestarts, vars, settingVars, writeVars
    <3>. QED BY <3>1
  <2>. QED BY <2>1, <2>2
<1>. QED BY <1>1, Invariance, PTL DEF Spec, SettingsKept

(***************************************************************************)
(* The refinement                                                          *)
(***************************************************************************)

\* The places of a call, each with its outcome.
LEMMA OutcomeValues ==
    /\ OutcomeAt("idle") = "new"
    /\ \A p \in {"waiting", "local", "running"} : OutcomeAt(p) = "open"
    /\ OutcomeAt("answered") = "pipeline" /\ OutcomeAt("done") = "caller"
    /\ OutcomeAt("failed") = "failed" /\ OutcomeAt("lost") = "failed"
BY DEF OutcomeAt

\* A step that leaves the place of each call, or moves it between places that look the
\* same, shows nothing.
LEMMA NothingShown ==
    ASSUME runs' = runs, \A c \in Calls : OutcomeAt(pc[c])' = OutcomeAt(pc[c])
    PROVE  UNCHANGED Outcome!vars
BY DEF Outcome!vars

\* A step of one call shows its new outcome, and nothing of the others.
LEMMA OneShown ==
    ASSUME TypeOK, NEW c \in Calls, NEW p, Goto(c, p)
    PROVE  [d \in Calls |-> OutcomeAt(pc[d])]'
              = [[d \in Calls |-> OutcomeAt(pc[d])] EXCEPT ![c] = OutcomeAt(p)]
BY DEF Goto, TypeOK

\* Calls that end with their process fail together.
LEMMA EndShown ==
    ASSUME TypeOK, CallersEnd, runs' = runs
    PROVE  [Outcome!Next]_(Outcome!vars)
<1> DEFINE gone == {c \in Calls : pc[c] \in {"waiting", "local", "running"}}
<1>1. \A c \in Calls : pc'[c] = IF c \in gone THEN "lost" ELSE pc[c]
  BY DEF CallersEnd
<1>2. CASE gone = {}
  BY <1>1, <1>2, NothingShown
<1>3. CASE gone # {}
  <2>1. gone \subseteq Outcome!Open
    BY OutcomeValues DEF Outcome!Open
  <2>2. [c \in Calls |-> OutcomeAt(pc[c])]'
          = [c \in Calls |-> IF c \in gone THEN "failed"
                             ELSE [d \in Calls |-> OutcomeAt(pc[d])][c]]
    BY <1>1, OutcomeValues
  <2>3. Outcome!Fail(gone)
    BY <1>3, <2>2 DEF Outcome!Fail
  <2>. QED BY <2>1, <2>3 DEF Outcome!Next
<1>. QED BY <1>2, <1>3

\* A side that carries a command out does it for the first time, and the caller while
\* its call is open.
LEMMA RunShown ==
    ASSUME IInv, NEW c \in Calls, NEW s \in Sides, Count(c, s), runs[c][s] = 0,
           pc[c] # "idle", s = "caller" => pc[c] = "local",
           \A d \in Calls : OutcomeAt(pc[d])' = OutcomeAt(pc[d])
    PROVE  Outcome!Run(c, s)
<1>1. runs' = [runs EXCEPT ![c][s] = 1]
  BY DEF Count, IInv, TypeOK
<1>2. OutcomeAt(pc[c]) # "new" /\ (s = "caller" => OutcomeAt(pc[c]) = "open")
  BY OutcomeValues DEF IInv, TypeOK
<1>. QED BY <1>1, <1>2 DEF Outcome!Run

\* Every step of the queue is a step of CommandOutcome, or shows nothing: the initial
\* states map to initial states.  (That no call stays open is left to TLC.)
THEOREM OutcomeRefined == Spec => OutcomeSafe
<1>1. Init => Outcome!Init
  BY OutcomeValues DEF Init, Outcome!Init, Outcome!Sides, Sides
<1>2. ASSUME IInv, [Next]_vars PROVE [Outcome!Next]_(Outcome!vars)
  <2>. USE <1>2
  <2>1. ASSUME NEW c \in Calls, Send(c) PROVE Outcome!Ask(c)
    <3>1. PICK p \in {"waiting", "local"} : Goto(c, p)
      BY <2>1 DEF Send
    <3>. QED BY <2>1, <3>1, OneShown, OutcomeValues DEF Send, settingVars, writeVars, Outcome!Ask, IInv
  <2>2. ASSUME NEW c \in Calls, Receive(c) PROVE [Outcome!Next]_(Outcome!vars)
    <3>1. runs[c]["pipeline"] = 1 /\ runs[c]["caller"] = 0 /\ pc[c] = "waiting"
          /\ runs' = runs
      BY <2>2 DEF Receive, settingVars, writeVars, IInv, PipelineRuns, CallerRuns
    <3>2. CASE Goto(c, "answered")
      <4>1. Outcome!Return(c, "pipeline")
        BY <3>1, <3>2, OneShown, OutcomeValues DEF Outcome!Return, IInv
      <4>. QED BY <4>1 DEF Outcome!Next, Outcome!Sides
    <3>3. CASE Goto(c, "local")
      BY <3>1, <3>3, NothingShown, OutcomeValues DEF Goto, IInv, TypeOK
    <3>. QED BY <2>2, <3>2, <3>3 DEF Receive
  <2>3. ASSUME NEW c \in Calls, GiveUp(c) PROVE UNCHANGED Outcome!vars
    BY <2>3, NothingShown, OutcomeValues DEF GiveUp, Goto, settingVars, writeVars, IInv, TypeOK
  <2>4. ASSUME NEW c \in Calls, LocalRun(c) PROVE Outcome!Run(c, "caller")
    <3>1. \A d \in Calls : OutcomeAt(pc[d])' = OutcomeAt(pc[d])
      BY <2>4, OutcomeValues DEF LocalRun, Goto, IInv, TypeOK
    <3>. QED BY <2>4, <3>1, RunShown DEF LocalRun, Sides, IInv, CallerRuns
  <2>5. ASSUME NEW c \in Calls, LocalEnd(c) PROVE Outcome!Return(c, "caller")
    <3>1. Goto(c, "done") /\ pc[c] = "running" /\ runs[c]["caller"] = 1 /\ runs' = runs
      BY <2>5 DEF LocalEnd, IInv, CallerRuns
    <3>. QED BY <3>1, OneShown, OutcomeValues DEF Outcome!Return, IInv
  <2>6. ASSUME NEW c \in Calls, LocalFails(c) PROVE [Outcome!Next]_(Outcome!vars)
    <3>1. Goto(c, "failed") /\ pc[c] = "running" /\ runs' = runs
      BY <2>6 DEF LocalFails, settingVars, writeVars
    <3>2. {c} \subseteq Outcome!Open
      BY <3>1, OutcomeValues DEF Outcome!Open
    <3>3. Outcome!Fail({c})
      <4>1. TypeOK
        BY DEF IInv
      <4>. QED BY <3>1, <4>1, OneShown, OutcomeValues DEF Outcome!Fail
    <3>. QED BY <3>2, <3>3 DEF Outcome!Next
  <2>7. CASE Execute
    <3>1. /\ serving \in Calls /\ pc[serving] # "idle"
          /\ runs[serving]["pipeline"] = 0 /\ Count(serving, "pipeline")
          /\ \A d \in Calls : OutcomeAt(pc[d])' = OutcomeAt(pc[d])
      BY <2>7 DEF Execute, callVars, IInv, TypeOK, PipelineRuns, Due
    <3>2. Outcome!Run(serving, "pipeline")
      BY <3>1, RunShown DEF Sides
    <3>. QED BY <3>1, <3>2 DEF Outcome!Next, Outcome!Sides
  <2>8. CASE Pop \/ Finish \/ ExecuteFails \/ Answer \/ Reload \/ RedisRestarts
             \/ \E w \in Writes : Land(w)
    BY <2>8, NothingShown DEF Land, Pop, Finish, ExecuteFails, Answer, Reload, RedisRestarts,
                              callVars, settingVars, writeVars
  <2>9. CASE PipelineRestarts \/ ApiRestarts
    <3>1. runs' = runs /\ (CallersEnd \/ pc' = pc)
      BY <2>9 DEF PipelineRestarts, ApiRestarts
    <3>. QED BY <3>1, NothingShown, EndShown DEF IInv
  <2>10. CASE UNCHANGED vars
    BY <2>10, NothingShown DEF vars, callVars
  <2>11. \A c \in Calls : Send(c) \/ Caller(c) => [Outcome!Next]_(Outcome!vars)
    BY <2>1, <2>2, <2>3, <2>4, <2>5, <2>6, <2>8, WriteType DEF Caller, Outcome!Next,
       Outcome!Sides
  <2>12. CommandLoop \/ Reload \/ Restart => [Outcome!Next]_(Outcome!vars)
    BY <2>7, <2>8, <2>9, WriteType DEF CommandLoop, Restart
  <2>. QED BY <2>10, <2>11, <2>12 DEF Next
<1>. QED BY <1>1, <1>2, Invariance, PTL DEF Spec, OutcomeSafe, Outcome!Safe

(***************************************************************************)
(* Where the direct call is safe                                           *)
(***************************************************************************)

\* FallbackKeepsSettings, which fails with two containers, for one process.
FallbackInOneProcess ==
    [][\A c \in Puts :
          ~split /\ Land(<<c, "caller">>) /\ <<c, "caller">> \notin stale
             => stored \subseteq stored']_vars

\* API and pipeline in one process share the memory that ai_loop() loads: the write of a
\* direct call, taken after the load and not overtaken by the write of another command,
\* drops no setting, whatever the restarts.  What the run command_queue_fallback finds is
\* due to the second container alone; a write that is overtaken drops settings in one
\* process too.
THEOREM FallbackSafeInOneProcess == Spec => FallbackInOneProcess
<1> DEFINE B == \A c \in Puts : ~split /\ Land(<<c, "caller">>) /\ <<c, "caller">> \notin stale
                                   => stored \subseteq stored'
<1>1. ASSUME IInv, [Next]_vars
      PROVE  B
  <2> SUFFICES ASSUME NEW c \in Puts, ~split, Land(<<c, "caller">>), <<c, "caller">> \notin stale
               PROVE  stored \subseteq stored'
    OBVIOUS
  <2>1. <<c, "caller">> \in Writes /\ Writer("caller") = "pipeline" /\ ~foreign
    BY <1>1, WriteType DEF Calls, IInv, TypeOK
  <2>2. flight[<<c, "caller">>] # {} /\ stored' \in {flight[<<c, "caller">>], memory["pipeline"]}
    BY <2>1 DEF Land
  <2>. QED BY <1>1, <2>1, <2>2 DEF IInv, FlightCovers
<1>. QED BY <1>1, Invariance, PTL DEF Spec, FallbackInOneProcess
================================================================================
