-------------------------------- MODULE Recorder --------------------------------
(***************************************************************************)
(* recorder.py for one camera: the ffmpeg process that writes one segment  *)
(* after the other, the index of the finished segments with its cursor,    *)
(* kept by the recorder's loop and by requests that look for a recording,  *)
(* and the purges.  A segment is the number of its file in the order of    *)
(* the names.  A step is what happens between two awaits.                  *)
(***************************************************************************)
EXTENDS Integers

CONSTANTS
    MaxSegments, \* bounds how many segments are ever written
    Requests,    \* the calls of _index_segments() by _lookup_recording_for()
    Purges       \* the runs of _apply_retention() beside the loop: the task that the loop
                 \* starts every 20 ticks, and the route of the administrator

ASSUME RecorderAssumption ==
    MaxSegments \in Nat /\ "loop" \notin Requests \cup Purges

Segments == 1..MaxSegments
Indexers == Requests \cup {"loop"}
Purgers == Purges \cup {"loop"}
Docs == Segments \X Indexers
Files == {"open", "good", "bad"}
NoCursor == -1

VARIABLES
    proc,       \* the process in _processes: none, alive or dead
    writing,    \* the segment it is writing, or 0
    born,       \* how many segments have been begun
    disk,       \* each segment: being written, complete, without an end, or deleted
    docs,       \* db.recordings: segments, and who has inserted them
    cursor,     \* _indexed_cursor
    index,      \* each call of _index_segments(); raced, a history, that another one
                \* had its candidate in hand too
    purge,      \* each call of _apply_retention(): its documents, the files left
    stopped,    \* history: segments whose process was terminated while it wrote them
    failed      \* history: segments whose probe or deletion has failed

procVars == <<proc, writing, stopped>>
fileVars == <<born, disk>>
indexVars == <<docs, cursor, index>>
vars == <<procVars, fileVars, indexVars, purge, failed>>

Call(step, s, rest, raced) == [step |-> step, seg |-> s, rest |-> rest, raced |-> raced]
Idle == Call("idle", 0, {}, FALSE)
NoPurge == [all |-> {}, left |-> {}]
Documented(s) == \E d \in docs : d[1] = s
After(c) == {s \in Segments : s > c /\ disk[s] \in Files}

(***************************************************************************)
(* _index_segments()                                                       *)
(***************************************************************************)

\* Mutant: no file is indexed while the process is alive.
ProceedWhenStopped(i, rest, p) ==
    \/ /\ rest = {} \/ p = "alive"
       /\ index' = [index EXCEPT ![i] = Idle]
    \/ \E s \in rest :
          /\ \A u \in rest : s <= u
          /\ p # "alive"
          /\ index' = [index EXCEPT ![i] = Call("find", s, rest \ {s}, FALSE)]

\* The next candidate; the newest file, the last one, is left alone while p, the
\* recording process, is alive.
Proceed(i, rest, p) ==
    \/ /\ rest = {} \/ (p = "alive" /\ \E s \in rest : rest = {s})
       /\ index' = [index EXCEPT ![i] = Idle]
    \/ \E s \in rest :
          /\ \A u \in rest : s <= u
          /\ rest # {s} \/ p # "alive"
          /\ index' = [index EXCEPT ![i] = Call("find", s, rest \ {s}, FALSE)]

Goto(i, step) == index' = [index EXCEPT ![i].step = step]

\* The candidate is done with: the cursor moves to it, forwards or backwards.
Pass(i) == /\ cursor' = index[i].seg
           /\ Proceed(i, index[i].rest, proc)

\* The files after the cursor are listed; after a start it is first read.
Begin(i, p) ==
    /\ index[i] = Idle
    /\ IF cursor = NoCursor
       THEN index' = [index EXCEPT ![i].step = "cursor"]
       ELSE Proceed(i, After(cursor), p)
    /\ UNCHANGED <<docs, cursor>>

Lookup(r) ==
    /\ Begin(r, proc)
    /\ UNCHANGED <<procVars, fileVars, purge, failed>>

\* Mutant: the cursor begins at the newest file.
CursorReadNewest(i) ==
    /\ index[i].step = "cursor"
    /\ cursor' = born
    /\ Proceed(i, After(cursor'), proc)
    /\ UNCHANGED <<procVars, fileVars, docs, purge, failed>>

\* The cursor is the last segment that has a document.
CursorRead(i) ==
    /\ index[i].step = "cursor"
    /\ \E c \in 0..MaxSegments :
          /\ c = 0 \/ Documented(c)
          /\ \A s \in Segments : Documented(s) => s <= c
          /\ cursor' = c
          /\ Proceed(i, After(c), proc)
    /\ UNCHANGED <<procVars, fileVars, docs, purge, failed>>

\* A call that has found no document of its candidate and may insert one; two that
\* have the same candidate race.
InHand(i, s) == index[i].seg = s /\ index[i].step \in {"probe", "flags", "insert"}
Take(i) ==
    LET s == index[i].seg
        others == {j \in Indexers \ {i} : InHand(j, s)} IN
    index' = [j \in Indexers |->
                 IF j = i THEN Call("probe", s, index[i].rest, others # {})
                 ELSE [index[j] EXCEPT !.raced = @ \/ j \in others]]

\* Mutant: no look for a document that is already there.
FindAlways(i) ==
    /\ index[i].step = "find"
    /\ Take(i)
    /\ UNCHANGED <<procVars, fileVars, docs, cursor, purge, failed>>

Find(i) ==
    /\ index[i].step = "find"
    /\ IF Documented(index[i].seg) THEN Pass(i) ELSE Take(i) /\ UNCHANGED cursor
    /\ UNCHANGED <<procVars, fileVars, docs, purge, failed>>

\* _probe_duration(): a file without an end, or a probe that fails, has none.
Probe(i) ==
    LET s == index[i].seg IN
    /\ index[i].step = "probe"
    /\ \/ disk[s] = "good" /\ Goto(i, "flags") /\ UNCHANGED <<cursor, failed>>
       \/ Pass(i) /\ failed' = IF disk[s] = "good" THEN failed \cup {s} ELSE failed
    /\ UNCHANGED <<procVars, fileVars, docs, purge>>

\* A file is deleted, or cannot be; nothing happens to one that has gone.
Unlink(s) ==
    \/ disk' = [disk EXCEPT ![s] = "gone"] /\ UNCHANGED failed
    \/ disk[s] \in Files /\ failed' = failed \cup {s} /\ UNCHANGED disk

\* With the events of its time the segment is kept, if its file is still there,
\* or deleted.
Keep(i) ==
    /\ index[i].step = "flags"
    /\ IF disk[index[i].seg] \in Files
       THEN Goto(i, "insert")
       ELSE index' = [index EXCEPT ![i] = Idle]
    /\ UNCHANGED <<procVars, fileVars, docs, cursor, purge, failed>>

Discard(i) ==
    /\ index[i].step = "flags"
    /\ Unlink(index[i].seg)
    /\ Pass(i)
    /\ UNCHANGED <<procVars, born, docs, purge>>

Insert(i) ==
    /\ index[i].step = "insert"
    /\ docs' = docs \cup {<<index[i].seg, i>>}
    /\ Pass(i)
    /\ UNCHANGED <<procVars, fileVars, purge, failed>>

\* The database raises: the call ends, and the cursor stays before its candidate.
IndexFails(i) ==
    /\ index[i].step # "idle"
    /\ index' = [index EXCEPT ![i] = Idle]
    /\ UNCHANGED <<procVars, fileVars, docs, cursor, purge, failed>>

(***************************************************************************)
(* recorder_loop()                                                         *)
(***************************************************************************)

\* A tick may begin; what it finds, the camera recorded or not, or the disk full,
\* is a choice.
LoopFree == index["loop"] = Idle /\ purge["loop"] = NoPurge

\* The process is started if there is none alive, and the index brought up to date.
Record ==
    /\ LoopFree
    /\ proc' = "alive"
    /\ Begin("loop", "alive")
    /\ UNCHANGED <<writing, stopped, fileVars, purge, failed>>

\* terminate(), and the process is forgotten; it may still be writing.
Terminate ==
    /\ proc' = "none" /\ writing' = 0
    /\ stopped' = IF writing = 0 THEN stopped ELSE stopped \cup {writing}

Stop ==
    /\ LoopFree /\ proc = "alive"
    /\ Terminate
    /\ UNCHANGED <<fileVars, indexVars, purge, failed>>

\* Mutant: the processes are forgotten and go on.
SuspendForgets ==
    /\ LoopFree /\ proc # "none"
    /\ proc' = "none" /\ UNCHANGED <<writing, stopped>>
    /\ UNCHANGED <<fileVars, indexVars, purge, failed>>

Suspend ==
    /\ LoopFree /\ proc # "none"
    /\ Terminate
    /\ UNCHANGED <<fileVars, indexVars, purge, failed>>

(***************************************************************************)
(* _apply_retention()                                                      *)
(***************************************************************************)

\* Documents are read: the old ones, or the oldest one if space is needed.  The task in
\* the background and the route work beside recording and index; a tick on a full disk
\* purges itself, with the recording suspended and nothing else to do.
PurgeBegin(p, D) ==
    /\ purge[p] = NoPurge
    /\ p = "loop" => LoopFree /\ proc = "none"
    /\ purge' = [purge EXCEPT ![p] = [all |-> D, left |-> D]]
    /\ UNCHANGED <<procVars, fileVars, indexVars, failed>>

PurgeOld(p) == \E s \in Segments :
    LET old == {d \in docs : d[1] <= s} IN old # {} /\ PurgeBegin(p, old)

PurgeOldest(p) == \E d \in docs :
    (\A e \in docs : d[1] <= e[1]) /\ PurgeBegin(p, {d})

PurgeFile(p, d) ==
    /\ d \in purge[p].left
    /\ purge' = [purge EXCEPT ![p].left = @ \ {d}]
    /\ Unlink(d[1])
    /\ UNCHANGED <<procVars, born, indexVars>>

\* The documents are deleted, their files deleted or not.
PurgeDocs(p) ==
    /\ purge[p].all # {} /\ purge[p].left = {}
    /\ docs' = docs \ purge[p].all
    /\ purge' = [purge EXCEPT ![p] = NoPurge]
    /\ UNCHANGED <<procVars, fileVars, cursor, index, failed>>

PurgeFails(p) ==
    /\ purge[p] # NoPurge
    /\ purge' = [purge EXCEPT ![p] = NoPurge]
    /\ UNCHANGED <<procVars, fileVars, indexVars, failed>>

(***************************************************************************)
(* The ffmpeg processes and restarts                                      *)
(***************************************************************************)

\* The process begins its next segment; the one before is complete.
NextSegment ==
    /\ proc = "alive" /\ born < MaxSegments
    /\ born' = born + 1 /\ writing' = born'
    /\ disk' = [s \in Segments |-> IF s = writing THEN "good"
                                   ELSE IF s = born' THEN "open" ELSE disk[s]]
    /\ UNCHANGED <<proc, stopped, indexVars, purge, failed>>

\* A process ends, with or without the end of its file.
Die(end) ==
    /\ proc = "alive"
    /\ proc' = "dead" /\ writing' = 0
    /\ disk' = [s \in Segments |-> IF s = writing THEN end ELSE disk[s]]
    /\ UNCHANGED <<stopped, born, indexVars, purge, failed>>

TerminatedEnds(s, end) ==
    /\ disk[s] = "open" /\ s # writing
    /\ disk' = [disk EXCEPT ![s] = end]
    /\ UNCHANGED <<procVars, born, indexVars, purge, failed>>

\* The backend restarts: its processes end or are killed, its memory is lost.
Restart ==
    /\ proc' = "none" /\ writing' = 0
    /\ \E whole \in SUBSET Segments :
          disk' = [s \in Segments |-> IF disk[s] # "open" THEN disk[s]
                                      ELSE IF s \in whole THEN "good" ELSE "bad"]
    /\ cursor' = NoCursor
    /\ index' = [i \in Indexers |-> Idle]
    /\ purge' = [p \in Purgers |-> NoPurge]
    /\ UNCHANGED <<stopped, born, docs, failed>>

(***************************************************************************)
(* Specification                                                           *)
(***************************************************************************)

Init ==
    /\ proc = "none" /\ writing = 0
    /\ born = 0 /\ disk = [s \in Segments |-> "none"]
    /\ docs = {} /\ cursor = NoCursor
    /\ index = [i \in Indexers |-> Idle]
    /\ purge = [p \in Purgers |-> NoPurge]
    /\ stopped = {} /\ failed = {}

Indexing(i) == \/ CursorRead(i) \/ Find(i) \/ Probe(i) \/ Keep(i) \/ Discard(i)
               \/ Insert(i) \/ IndexFails(i)
Purging(p) == \/ PurgeOld(p) \/ PurgeOldest(p) \/ PurgeDocs(p) \/ PurgeFails(p)
              \/ \E d \in purge[p].left : PurgeFile(p, d)
Loop == Record \/ Stop \/ Suspend
Process == \/ NextSegment
           \/ \E end \in {"good", "bad"} :
                 Die(end) \/ \E s \in Segments : TerminatedEnds(s, end)

Next == \/ Loop \/ Process \/ Restart
        \/ \E r \in Requests : Lookup(r)
        \/ \E i \in Indexers : Indexing(i)
        \/ \E p \in Purgers : Purging(p)

Spec == Init /\ [][Next]_vars

\* The loop runs, what it waits for is answered again and again, and its purges end.
Fairness ==
    /\ SF_vars(Record)
    /\ SF_vars(CursorRead("loop")) /\ SF_vars(Find("loop")) /\ SF_vars(Probe("loop"))
    /\ SF_vars(Keep("loop") \/ Discard("loop")) /\ SF_vars(Insert("loop"))
    /\ WF_vars(PurgeDocs("loop") \/ \E d \in purge["loop"].left : PurgeFile("loop", d))

FairSpec == Spec /\ Fairness

(***************************************************************************)
(* Properties                                                              *)
(***************************************************************************)

\* Every variable has its type; the segment being written is that of the process
\* the recorder knows, and an indexed segment was complete.
WriterTypes ==
    /\ proc \in {"none", "alive", "dead"}
    /\ writing \in 0..born /\ born \in 0..MaxSegments
    /\ disk \in [Segments -> Files \cup {"none", "gone"}]
    /\ writing # 0 => proc = "alive" /\ disk[writing] = "open"
IndexTypes ==
    /\ docs \subseteq Docs /\ cursor \in Segments \cup {0, NoCursor}
    /\ index \in [Indexers -> [step : {"idle", "cursor", "find", "probe", "flags", "insert"},
                               seg : 0..MaxSegments, rest : SUBSET Segments,
                               raced : BOOLEAN]]
    /\ \A i \in Indexers : index[i].step \in {"idle", "cursor"} <=> index[i].seg = 0
    /\ \A d \in docs : disk[d[1]] \in {"good", "gone"}
TypeOK ==
    /\ WriterTypes /\ IndexTypes
    /\ purge \in [Purgers -> [all : SUBSET Docs, left : SUBSET Docs]]
    /\ stopped \subseteq Segments /\ failed \subseteq Segments

\* A complete segment that the cursor has passed is in the index, however the
\* calls interleave with the process, the purges and restarts: unless its process
\* had been terminated while it wrote it, or its probe or its deletion failed.
NoSegmentSkipped ==
    \A s \in Segments :
        disk[s] = "good" /\ s <= cursor => Documented(s) \/ s \in stopped \cup failed

\* A segment gets a second document only from calls that have it in hand at once:
\* one that alone is indexing it, whatever was purged, restarted or moved back
\* since, inserts its first (recorder.py:274).
DocumentedOnce ==
    \A i \in Indexers, s \in Segments :
        InHand(i, s) /\ ~index[i].raced => ~Documented(s)

\* A complete segment that another one follows is indexed or purged, if the camera
\* is recorded again and again: no failure of the database, restart or request that
\* moves the cursor makes the loop forget it.
SegmentsIndexed ==
    \A s \in 1..(MaxSegments - 1) :
        disk[s] = "good" /\ s < born /\ s \notin stopped
            ~> Documented(s) \/ disk[s] = "gone" \/ s \in failed
================================================================================
