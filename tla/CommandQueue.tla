------------------------------ MODULE CommandQueue ------------------------------
(***************************************************************************)
(* The commands that the routes of the API send to the analysis pipeline:  *)
(* a Redis list read by command_loop(), an answer under a key of the       *)
(* command's own, and, if no answer comes in time, the call that the route *)
(* made before the two were separated.  API and pipeline are two           *)
(* containers, or one process (MGVMS_ROLE).  The settings are those of PUT *)
(* /ai/config, which update_runtime_config() keeps in the memory of its    *)
(* process and in one document.                                            *)
(***************************************************************************)
EXTENDS Naturals, Sequences

CONSTANTS
    Settings, \* of the detection: what the document ai_config holds
    Puts,     \* PUT /ai/config, each named after the setting it changes
    Clips,    \* transcode_recording: an answer without a file counts as none
    None      \* no command

ASSUME PutsAreSettings == Puts \subseteq Settings

Calls == Puts \cup Clips

ASSUME NoneIsNoCall == None \notin Calls

Sides == {"pipeline", "caller"}
Procs == {"api", "pipeline"}

\* A command may be carried out by both sides: one write of each.
Writes == Calls \X Sides

VARIABLES
    split,   \* API and pipeline are two containers
    pc,      \* where each call is
    queue,   \* mgvms:pipeline:commands
    reply,   \* the answer under the key of each call
    serving, \* the command of command_loop(), or None
    step,    \* popped, running, or its result
    runs,    \* history: how often each side has carried out each command
    memory,  \* the settings in _runtime_config, in each process
    loaded,  \* load_runtime_config() of ai_loop() has been through
    stored,  \* the settings in the document ai_config
    flight,  \* of each write that has not come to the database: the settings it took
    stale,   \* history: writes in flight taken before the first load, or overtaken
    foreign, \* history: the API container has written the document
    before   \* history: pairs of calls, the first returned before the second began

callVars == <<pc, reply, before>>
loopVars == <<serving, step>>
writeVars == <<stored, flight, stale, foreign>>
settingVars == <<memory, loaded, writeVars>>
vars == <<split, callVars, queue, loopVars, runs, settingVars>>

\* Mutant: what the routes change is never what the pipeline uses.
HomeApart == "api"

\* The process in which a route runs.
Home == IF split THEN "api" ELSE "pipeline"
Writer(s) == IF s = "caller" THEN Home ELSE "pipeline"

Returned == {c \in Calls : pc[c] \in {"answered", "done", "failed"}}
Goto(c, p) == pc' = [pc EXCEPT ![c] = p]
Queued(c) == \E i \in DOMAIN queue : queue[i] = c
Count(c, s) == runs' = [runs EXCEPT ![c][s] = IF @ < 2 THEN @ + 1 ELSE @]

(***************************************************************************)
(* The callers: send_pipeline_command() and the routes around it           *)
(***************************************************************************)

\* Mutant: the command is pushed at the head.
SendFirst(c) ==
    /\ pc[c] = "idle"
    /\ queue' = <<c>> \o queue
    /\ Goto(c, "waiting")
    /\ before' = before \cup (Returned \X {c})
    /\ UNCHANGED <<split, reply, loopVars, runs, settingVars>>

\* RPUSH, or an exception, with or without the command in the list: without an answer
\* the route makes the direct call.
Send(c) ==
    /\ pc[c] = "idle"
    /\ \/ queue' = Append(queue, c) /\ Goto(c, "waiting")
       \/ queue' \in {queue, Append(queue, c)} /\ Goto(c, "local")
    /\ before' = before \cup (Returned \X {c})
    /\ UNCHANGED <<split, reply, loopVars, runs, settingVars>>

\* Mutant: the answers have one key.
ReceiveAny(c) ==
    /\ pc[c] = "waiting"
    /\ \E d \in Calls : /\ reply[d] # "none"
                        /\ reply' = [reply EXCEPT ![d] = "none"]
    /\ Goto(c, "answered")
    /\ UNCHANGED <<split, before, queue, loopVars, runs, settingVars>>

\* BLPOP returns the answer; only the route of a clip looks whether it is an error.
Receive(c) ==
    /\ pc[c] = "waiting" /\ reply[c] # "none"
    /\ reply' = [reply EXCEPT ![c] = "none"]
    /\ Goto(c, IF c \in Clips /\ reply[c] = "error" THEN "local" ELSE "answered")
    /\ UNCHANGED <<split, before, queue, loopVars, runs, settingVars>>

\* BLPOP times out or raises; an answer that is there is lost.
GiveUp(c) ==
    /\ pc[c] = "waiting"
    /\ Goto(c, "local")
    /\ reply' = [reply EXCEPT ![c] = "none"]
    /\ UNCHANGED <<split, before, queue, loopVars, runs, settingVars>>

\* Mutant: only the setting that was changed is written.
WritePatch(c, s) ==
    IF c \in Puts
    THEN /\ memory' = [memory EXCEPT ![Writer(s)] = @ \cup {c}]
         /\ flight' = [flight EXCEPT ![<<c, s>>] = {c}]
         /\ stale' = IF loaded THEN stale ELSE stale \cup {<<c, s>>}
    ELSE UNCHANGED <<memory, flight, stale>>

\* update_runtime_config(): the memory first, and at once a write of all that is in the
\* memory.
Patch(c, s) ==
    IF c \in Puts
    THEN /\ memory' = [memory EXCEPT ![Writer(s)] = @ \cup {c}]
         /\ flight' = [flight EXCEPT ![<<c, s>>] = memory'[Writer(s)]]
         /\ stale' = IF loaded THEN stale ELSE stale \cup {<<c, s>>}
    ELSE UNCHANGED <<memory, flight, stale>>

\* A write comes to the database, in no order: update_one() runs in a thread of the
\* driver, which encodes the memory at once or only when it sends it.
Land(w) ==
    /\ flight[w] # {}
    /\ \E doc \in {flight[w], memory[Writer(w[2])]} : stored' = doc
    /\ flight' = [flight EXCEPT ![w] = {}]
    /\ stale' = {v \in Writes \ {w} : flight[v] # {}}
    /\ foreign' = (foreign \/ Writer(w[2]) = "api")
    /\ UNCHANGED <<split, callVars, queue, loopVars, runs, memory, loaded>>

\* A write that fails, or whose process ends, has landed before or never does.
Drop(ws) ==
    /\ flight' = [w \in Writes |-> IF w \in ws THEN {} ELSE flight[w]]
    /\ stale' = stale \ ws

LocalRun(c) ==
    /\ pc[c] = "local"
    /\ Goto(c, "running")
    /\ Count(c, "caller")
    /\ Patch(c, "caller")
    /\ UNCHANGED <<split, reply, before, queue, loopVars, loaded, stored, foreign>>

LocalEnd(c) ==
    /\ pc[c] = "running" /\ flight[<<c, "caller">>] = {}
    /\ Goto(c, "done")
    /\ UNCHANGED <<split, reply, before, queue, loopVars, runs, settingVars>>

LocalFails(c) ==
    /\ pc[c] = "running"
    /\ Goto(c, "failed")
    /\ Drop({<<c, "caller">>})
    /\ UNCHANGED <<split, reply, before, queue, loopVars, runs, memory, loaded, stored,
                   foreign>>

(***************************************************************************)
(* The pipeline: command_loop(), one command after the other               *)
(***************************************************************************)

Pop ==
    /\ serving = None /\ queue # <<>>
    /\ serving' = Head(queue) /\ queue' = Tail(queue)
    /\ step' = "popped"
    /\ UNCHANGED <<split, callVars, runs, settingVars>>

Execute ==
    /\ step = "popped"
    /\ step' = "running"
    /\ Count(serving, "pipeline")
    /\ Patch(serving, "pipeline")
    /\ UNCHANGED <<split, callVars, queue, serving, loaded, stored, foreign>>

Finish ==
    /\ step = "running" /\ flight[<<serving, "pipeline">>] = {}
    /\ step' = "ok"
    /\ UNCHANGED <<split, callVars, queue, serving, runs, settingVars>>

\* Mutant: an exception of a command ends the loop.
ExecuteFailsForGood ==
    /\ step = "running"
    /\ step' = "dead"
    /\ Drop({<<serving, "pipeline">>})
    /\ UNCHANGED <<split, callVars, queue, serving, runs, memory, loaded, stored, foreign>>

ExecuteFails ==
    /\ step = "running"
    /\ step' = "error"
    /\ Drop({<<serving, "pipeline">>})
    /\ UNCHANGED <<split, callVars, queue, serving, runs, memory, loaded, stored, foreign>>

\* The answer is pushed, or the push raises.  The key of a caller that is gone
\* expires unread.
Answer ==
    /\ step \in {"ok", "error"}
    /\ \/ UNCHANGED reply
       \/ pc[serving] = "waiting" /\ reply' = [reply EXCEPT ![serving] = step]
    /\ serving' = None /\ step' = "none"
    /\ UNCHANGED <<split, pc, before, queue, runs, settingVars>>

\* load_runtime_config() adds what is stored to the memory.
Reload ==
    /\ memory' = [memory EXCEPT !["pipeline"] = @ \cup stored]
    /\ loaded' = TRUE
    /\ UNCHANGED <<split, callVars, queue, loopVars, runs, writeVars>>

(***************************************************************************)
(* Restarts                                                                *)
(***************************************************************************)

\* The calls that a process is serving end with it.
CallersEnd ==
    /\ pc' = [c \in Calls |-> IF pc[c] \in {"waiting", "local", "running"}
                              THEN "lost" ELSE pc[c]]
    /\ reply' = [c \in Calls |-> "none"]

\* ai_loop() loads 15 s after the start: a write that outlives its process has landed.
PipelineRestarts ==
    /\ serving' = None /\ step' = "none"
    /\ memory' = [memory EXCEPT !["pipeline"] = {}] /\ loaded' = FALSE
    /\ Drop({w \in Writes : Writer(w[2]) = "pipeline"})
    /\ IF split THEN UNCHANGED <<pc, reply>> ELSE CallersEnd
    /\ UNCHANGED <<split, before, queue, runs, stored, foreign>>

ApiRestarts ==
    /\ split
    /\ CallersEnd
    /\ memory' = [memory EXCEPT !["api"] = {}]
    /\ Drop({w \in Writes : Writer(w[2]) = "api"})
    /\ UNCHANGED <<split, before, queue, loopVars, runs, loaded, stored, foreign>>

\* Redis keeps nothing on disk.
RedisRestarts ==
    /\ queue' = <<>> /\ reply' = [c \in Calls |-> "none"]
    /\ UNCHANGED <<split, pc, before, loopVars, runs, settingVars>>

(***************************************************************************)
(* Specification                                                           *)
(***************************************************************************)

\* Some settings have been stored by an earlier run of the program.
Init ==
    /\ split \in BOOLEAN
    /\ pc = [c \in Calls |-> "idle"] /\ queue = <<>>
    /\ reply = [c \in Calls |-> "none"]
    /\ serving = None /\ step = "none"
    /\ runs = [c \in Calls |-> [s \in Sides |-> 0]]
    /\ memory = [p \in Procs |-> {}] /\ loaded = FALSE
    /\ stored \in SUBSET Settings
    /\ flight = [w \in Writes |-> {}] /\ stale = {}
    /\ foreign = FALSE /\ before = {}

Caller(c) == \/ Receive(c) \/ GiveUp(c) \/ LocalRun(c) \/ LocalEnd(c) \/ LocalFails(c)
             \/ Land(<<c, "caller">>)
CommandLoop == \/ Pop \/ Execute \/ Finish \/ ExecuteFails \/ Answer
               \/ \E c \in Calls : Land(<<c, "pipeline">>)
Restart == PipelineRestarts \/ ApiRestarts \/ RedisRestarts

Next == \/ \E c \in Calls : Send(c) \/ Caller(c)
        \/ CommandLoop \/ Reload \/ Restart

Spec == Init /\ [][Next]_vars

\* Both event loops run, waits have a timeout, and a command that is carried out ends.
Fairness == WF_vars(CommandLoop) /\ \A c \in Calls : WF_vars(Caller(c))
FairSpec == Spec /\ Fairness

(***************************************************************************)
(* Properties                                                              *)
(***************************************************************************)

\* Every variable has its type; an answer is only kept for a caller that waits, and in
\* one process there is one memory.
TypeOK ==
    /\ split \in BOOLEAN /\ loaded \in BOOLEAN /\ foreign \in BOOLEAN
    /\ pc \in [Calls -> {"idle", "waiting", "local", "running",
                         "answered", "done", "failed", "lost"}]
    /\ queue \in Seq(Calls)
    /\ reply \in [Calls -> {"none", "ok", "error"}]
    /\ \A c \in Calls : reply[c] # "none" => pc[c] = "waiting"
    /\ serving \in Calls \cup {None}
    /\ step \in {"none", "popped", "running", "ok", "error"}
    /\ serving = None <=> step = "none"
    /\ runs \in [Calls -> [Sides -> 0..2]]
    /\ memory \in [Procs -> SUBSET Settings] /\ stored \subseteq Settings
    /\ flight \in [Writes -> SUBSET Settings]
    /\ stale \subseteq Writes /\ \A w \in stale : flight[w] # {}
    /\ ~split => memory["api"] = {} /\ ~foreign
    /\ before \subseteq Calls \X Calls

\* What a call at this place has come to, for CommandOutcome.
OutcomeAt(place) ==
    CASE place = "idle" -> "new"
      [] place \in {"waiting", "local", "running"} -> "open"
      [] place = "answered" -> "pipeline"
      [] place = "done" -> "caller"
      [] OTHER -> "failed"

\* What send_pipeline_command() and its callers promise of a command: no side carries
\* it out twice, whatever restarts and is given up; what a call returns is the result
\* of the side it names, and of no other call; and every call returns, even if the
\* pipeline, busy with a long command, never answers.
Outcome == INSTANCE CommandOutcome WITH outcome <- [c \in Calls |-> OutcomeAt(pc[c])]
OutcomeKept == Outcome!Spec
OutcomeSafe == Outcome!Safe

\* The pipeline keeps the order: when it carries a command out, nothing is left of one
\* whose call had returned before, neither in the list or in hand nor a write in flight.
\* A direct call does not wait for its turn: a command given up comes after a newer one
\* that its own caller carries out, and undoes it.
PipelineInOrder ==
    \A pair \in before :
        runs[pair[2]]["pipeline"] > 0 =>
            /\ ~Queued(pair[1]) /\ serving # pair[1]
            /\ \A s \in Sides : flight[<<pair[1], s>>] = {}

\* A setting disappears from the document only by a write that was taken before the
\* pipeline had read it, or that another write has overtaken, or, with two containers,
\* once the API container has used its direct call.
SettingsKept ==
    [][\/ stored \subseteq stored'
       \/ \E w \in Writes : Land(w) /\ (w \in stale \/ foreign')]_vars

\* Neither a command that fails, nor an answer that cannot be sent, nor a restart stops
\* the loop: what is in the list is taken from it.
QueueDrains == \A c \in Calls : Queued(c) ~> ~Queued(c)

\* "comportement historique garanti inchangé dans tous les cas": the write of a direct
\* call, taken while the settings are loaded and not overtaken by another one, drops
\* none that is stored.
FallbackKeepsSettings ==
    [][\A c \in Puts :
          Land(<<c, "caller">>) /\ <<c, "caller">> \notin stale
             => stored \subseteq stored']_vars
================================================================================
