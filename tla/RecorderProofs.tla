---------------------------- MODULE RecorderProofs ----------------------------
(***************************************************************************)
(* Proofs about Recorder for any number of segments, requests and purges:  *)
(* types, no complete segment is passed over, no second document without a *)
(* race.                                                                   *)
(***************************************************************************)
EXTENDS Recorder, TLAPS

\* A segment the index need not come back to: gone or without an end, or documented,
\* or one of those the code may lose.
Passed(s) == disk[s] \in {"good", "open"} => Documented(s) \/ s \in stopped \cup failed

\* What a call has before it.
Left(i) == {s \in Segments : s = index[i].seg \/ s \in index[i].rest}

\* Files are begun in order, and one that is not being written was cut off.
FilesOK ==
    /\ \A s \in Segments : disk[s] = "none" <=> s > born
    /\ writing \in {0, born}
    /\ \A s \in Segments : disk[s] = "open" => s = writing \/ s \in stopped

\* Whatever precedes what a call has before it is passed; its candidate, if it is
\* still open, was cut off, and is complete or deleted once it has been probed.
CallOK(i) ==
    /\ \A s \in index[i].rest : index[i].seg < s
    /\ \A s \in Left(i) : s <= born
    /\ \A s \in Left(i), u \in Segments : u < s => u \in Left(i) \/ Passed(u)
    /\ index[i].seg # 0 /\ disk[index[i].seg] = "open" => index[i].seg \in stopped
    /\ index[i].step \in {"flags", "insert"} => disk[index[i].seg] \in {"good", "gone"}
CallsOK == \A i \in Indexers : CallOK(i)

\* What precedes the cursor, or a document, is passed.
CursorOK == cursor <= born /\ \A u \in Segments : u <= cursor => Passed(u)
DocsOK == \A d \in docs, u \in Segments : u <= d[1] => Passed(u)

\* A purge has deleted the files of the documents it is done with, or failed to.
PurgesOK ==
    \A p \in Purgers : purge[p].left \subseteq purge[p].all /\ \A d \in purge[p].all :
        /\ disk[d[1]] \in {"good", "gone"}
        /\ d \in purge[p].left \/ disk[d[1]] = "gone" \/ d[1] \in failed

\* Two calls with the same candidate in hand know of each other.
RacesKnown ==
    \A i, j \in Indexers, s \in Segments :
        i # j /\ InHand(i, s) /\ InHand(j, s) => index[i].raced

\* The inductive invariant.
Books == TypeOK /\ FilesOK /\ CursorOK /\ DocsOK /\ PurgesOK
IInv == Books /\ CallsOK /\ RacesKnown /\ DocumentedOnce

\* What a step does to the files and documents behind the calls: nothing that was
\* passed comes back, and no old file is opened again.
World ==
    /\ born' \in Nat /\ born <= born' /\ stopped \subseteq stopped'
    /\ \A s \in 1..born : /\ Passed(s) => Passed(s)'
                          /\ disk'[s] = "open" => disk[s] = "open"
                          /\ disk[s] \in {"good", "gone"} => disk'[s] \in {"good", "gone"}
                          /\ disk[s] = "gone" => disk'[s] = "gone"

\* Call i is idle again or looks at its next candidate; the others stay.
Freed(i) == /\ index'[i].step \in {"idle", "cursor", "find"}
            /\ \A j \in Indexers \ {i} : index'[j] = index[j]

\* The types of the calls.
CallType == [step : {"idle", "cursor", "find", "probe", "flags", "insert"},
             seg : 0..MaxSegments, rest : SUBSET Segments, raced : BOOLEAN]
CallTypes == /\ index \in [Indexers -> CallType]
             /\ \A i \in Indexers : index[i].step \in {"idle", "cursor"} <=> index[i].seg = 0

LEMMA Initial == Init => IInv
<1>. SUFFICES ASSUME Init PROVE IInv
  OBVIOUS
<1>1. TypeOK
  BY RecorderAssumption DEF Init, TypeOK, WriterTypes, IndexTypes, Idle, Call, NoPurge,
     NoCursor, Segments
<1>2. FilesOK /\ CursorOK /\ DocsOK /\ PurgesOK
  BY RecorderAssumption
     DEF Init, FilesOK, CursorOK, DocsOK, PurgesOK, NoPurge, NoCursor, Segments, Passed
<1>3. CallsOK
  BY RecorderAssumption DEF Init, CallsOK, CallOK, Left, Idle, Call, Segments
<1>4. RacesKnown /\ DocumentedOnce
  BY DEF Init, RacesKnown, DocumentedOnce, InHand, Idle, Call
<1>. QED BY <1>1, <1>2, <1>3, <1>4 DEF IInv, Books

(***************************************************************************)
(* The calls                                                               *)
(***************************************************************************)

\* A call that a step leaves alone.
LEMMA Kept ==
  ASSUME IInv, World, NEW i \in Indexers, index'[i] = index[i]
  PROVE  CallOK(i)'
<1>. USE DEF IInv, Books
<1>1. CallOK(i) /\ born \in Nat /\ Left(i)' = Left(i) /\ Left(i) \subseteq 1..born
  <2>1. CallOK(i)
    BY DEF CallsOK
  <2>2. born \in Nat
    BY RecorderAssumption DEF TypeOK, WriterTypes
  <2>. QED BY <2>1, <2>2, RecorderAssumption DEF CallOK, Left, Segments
<1>2. \A s \in Left(i)' : s <= born'
  BY <1>1 DEF World
<1>3. \A s \in Left(i)', u \in Segments : u < s => u \in Left(i)' \/ Passed(u)'
  <2>. SUFFICES ASSUME NEW s \in Left(i), NEW u \in Segments, u < s
                PROVE  u \in Left(i) \/ Passed(u)'
    BY <1>1
  <2>1. u \in 1..born
    BY <1>1 DEF Segments
  <2>. QED BY <1>1, <2>1 DEF World, CallOK
<1>4. index[i].seg # 0 => index[i].seg \in Left(i)
  BY RecorderAssumption DEF TypeOK, IndexTypes, Left, Segments
<1>5. index[i].seg # 0 /\ disk'[index[i].seg] = "open" => index[i].seg \in stopped'
  BY <1>1, <1>4 DEF World, CallOK
<1>6. index[i].step \in {"flags", "insert"} => disk'[index[i].seg] \in {"good", "gone"}
  BY <1>1, <1>4 DEF World, CallOK, TypeOK, IndexTypes
<1>. QED BY <1>1, <1>2, <1>3, <1>5, <1>6 DEF CallOK

\* The next candidate among rest, before whose members all is passed.
LEMMA NextCandidate ==
  ASSUME IInv, World, NEW i \in Indexers, NEW rest \in SUBSET Segments, NEW p,
         Proceed(i, rest, p), p = "alive" \/ writing = 0,
         \A s \in rest : s <= born,
         \A s \in rest, u \in Segments : u < s => u \in rest \/ Passed(u)'
  PROVE  CallTypes' /\ Freed(i) /\ CallsOK'
<1>. USE DEF IInv, Books
<1>0. index \in [Indexers -> CallType] /\ born \in Nat /\ writing \in Nat
      /\ \A j \in Indexers : index[j].step \in {"idle", "cursor"} <=> index[j].seg = 0
  BY RecorderAssumption DEF TypeOK, WriterTypes, IndexTypes, CallType
<1>1. CASE index' = [index EXCEPT ![i] = Idle]
  <2>1. CallTypes' /\ Freed(i)
    BY <1>0, <1>1, RecorderAssumption DEF CallTypes, CallType, Freed, Idle, Call
  <2>2. CallOK(i)'
    BY <1>0, <1>1 DEF CallOK, Left, Idle, Call, Segments
  <2>3. \A j \in Indexers \ {i} : CallOK(j)'
    BY <2>1, Kept DEF Freed
  <2>. QED BY <2>1, <2>2, <2>3 DEF CallsOK
<1>2. ASSUME NEW s \in rest,
             \A u \in rest : s <= u,
             rest # {s} \/ p # "alive",
             index' = [index EXCEPT ![i] = Call("find", s, rest \ {s}, FALSE)]
      PROVE  CallTypes' /\ Freed(i) /\ CallsOK'
  <2>1. /\ index'[i] = [step |-> "find", seg |-> s, rest |-> rest \ {s}, raced |-> FALSE]
        /\ \A j \in Indexers \ {i} : index'[j] = index[j]
        /\ index' \in [Indexers -> CallType]
    <3>. DEFINE r == [step |-> "find", seg |-> s, rest |-> rest \ {s}, raced |-> FALSE]
    <3>1. index' = [index EXCEPT ![i] = r]
      BY <1>2 DEF Call
    <3>2. s \in Segments /\ rest \ {s} \in SUBSET Segments
      OBVIOUS
    <3>3. r \in CallType
      BY <3>2, RecorderAssumption DEF CallType, Segments
    <3>. HIDE DEF r
    <3>4. index'[i] = r /\ (\A j \in Indexers \ {i} : index'[j] = index[j])
          /\ index' \in [Indexers -> CallType]
      BY <1>0, <3>1, <3>3
    <3>. QED BY <3>4 DEF r
  <2>2. CallTypes' /\ Freed(i)
    BY <1>0, <2>1, RecorderAssumption DEF CallTypes, Freed, Segments
  <2>3. Left(i)' = rest
    BY <2>1 DEF Left
  <2>4. disk'[s] = "open" => s \in stopped'
    <3>. SUFFICES ASSUME disk'[s] = "open" PROVE s \in stopped'
      OBVIOUS
    <3>1. s \in Segments /\ s \in 1..born
      BY <1>0 DEF Segments
    <3>2. disk[s] = "open" /\ (s = writing => writing = born)
      BY <1>0, <3>1 DEF World, FilesOK
    <3>3. s # writing
      <4>1. CASE p # "alive"
        BY <4>1, <3>1
      <4>2. CASE rest # {s}
        <5>1. PICK u \in rest : u # s
          BY <4>2
        <5>2. s <= u /\ u <= born /\ u \in Nat
          BY <1>2, <5>1 DEF Segments
        <5>. QED BY <1>0, <3>1, <3>2, <5>1, <5>2 DEF Segments
      <4>. QED BY <4>1, <4>2, <1>2
    <3>. QED BY <3>1, <3>2, <3>3 DEF FilesOK, World
  <2>5. \A u \in rest \ {s} : s < u
    BY <1>2 DEF Segments
  <2>6. \A u \in rest : u <= born'
    BY <1>0 DEF World, Segments
  <2>7. CallOK(i)'
    BY <2>1, <2>3, <2>4, <2>5, <2>6 DEF CallOK
  <2>8. \A j \in Indexers \ {i} : CallOK(j)'
    BY <2>1, Kept
  <2>. QED BY <2>2, <2>7, <2>8 DEF CallsOK
<1>. QED BY <1>1, <1>2 DEF Proceed

\* A call that is done with its candidate.
LEMMA PassStep ==
  ASSUME IInv, World, NEW i \in Indexers, Pass(i), index[i].step \notin {"idle", "cursor"},
         NEW s, s = index[i].seg, Passed(s)'
  PROVE  CallTypes' /\ Freed(i) /\ CallsOK' /\ CursorOK' /\ cursor' \in Segments
<1>. USE DEF IInv, Books
<1>. DEFINE rest == index[i].rest
<1>1. s \in Segments /\ rest \in SUBSET Segments /\ born \in Nat
  BY RecorderAssumption DEF TypeOK, WriterTypes, IndexTypes, Segments
<1>2. CallOK(i) /\ Left(i) = rest \cup {s}
  BY <1>1 DEF CallsOK, Left
<1>3. proc = "alive" \/ writing = 0
  BY DEF TypeOK, WriterTypes
<1>4. \A u \in rest : u <= born
  BY <1>2 DEF CallOK
<1>5. \A u \in Segments : (\E v \in Left(i) : u < v) => u \in rest \/ Passed(u)'
  <2>. SUFFICES ASSUME NEW u \in Segments, NEW v \in Left(i), u < v
                PROVE  u \in rest \/ Passed(u)'
    OBVIOUS
  <2>1. v \in Segments /\ v <= born
    BY <1>1, <1>2 DEF CallOK, Left
  <2>2. u \in 1..born
    BY <1>1, <2>1 DEF Segments
  <2>3. u \in Left(i) \/ Passed(u)
    BY <1>2 DEF CallOK
  <2>. QED BY <1>2, <2>2, <2>3 DEF World
<1>6. CallTypes' /\ Freed(i) /\ CallsOK'
  <2>1. \A u \in rest, v \in Segments : v < u => v \in rest \/ Passed(v)'
    BY <1>2, <1>5
  <2>2. Proceed(i, rest, proc)
    BY DEF Pass
  <2>. QED BY <1>1, <1>3, <1>4, <2>1, <2>2, NextCandidate
<1>7. CursorOK'
  <2>1. cursor' = s /\ s <= born'
    BY <1>1, <1>2 DEF Pass, CallOK, World, Segments
  <2>2. \A u \in Segments : u <= s => Passed(u)'
    <3>. SUFFICES ASSUME NEW u \in Segments, u <= s PROVE Passed(u)'
      OBVIOUS
    <3>1. CASE u = s
      BY <3>1
    <3>2. CASE u < s
      BY <3>2, <1>1, <1>2, <1>5 DEF CallOK, Segments
    <3>. QED BY <3>1, <3>2, <1>1 DEF Segments
  <2>. QED BY <2>1, <2>2 DEF CursorOK
<1>. QED BY <1>1, <1>6, <1>7 DEF Pass

\* A call that begins, or has read its cursor: all up to c is passed.
LEMMA ListStep ==
  ASSUME IInv, NEW i \in Indexers, NEW c \in 0..MaxSegments, NEW p,
         UNCHANGED <<fileVars, stopped, docs, failed>>,
         Proceed(i, After(c), p), p = "alive" \/ writing = 0,
         \A u \in Segments : u <= c => Passed(u)
  PROVE  CallTypes' /\ Freed(i) /\ CallsOK'
<1>. USE DEF IInv, Books
<1>0. born \in Nat
  BY RecorderAssumption DEF TypeOK, WriterTypes
<1>1. World /\ \A u \in Segments : Passed(u)' <=> Passed(u)
  BY <1>0 DEF World, fileVars, Passed, Documented
<1>2. \A s \in After(c) : s <= born
  BY <1>0 DEF FilesOK, After, Files, Segments
<1>3. \A s \in After(c), u \in Segments : u < s => u \in After(c) \/ Passed(u)'
  <2>. SUFFICES ASSUME NEW s \in After(c), NEW u \in Segments, u < s, u \notin After(c)
                PROVE  Passed(u)
    BY <1>1
  <2>1. CASE u <= c
    BY <2>1
  <2>2. CASE u > c
    BY <2>2 DEF After, Files, Passed
  <2>. QED BY <2>1, <2>2 DEF Segments
<1>4. After(c) \in SUBSET Segments
  BY DEF After
<1>. QED BY <1>1, <1>2, <1>3, <1>4, NextCandidate

\* What a freed call, with no document more, means for the races.
LEMMA FreedRaces ==
  ASSUME IInv, NEW i \in Indexers, Freed(i), docs' \subseteq docs
  PROVE  RacesKnown' /\ DocumentedOnce'
<1>. USE DEF IInv
<1>1. \A s \in Segments : ~InHand(i, s)'
  BY DEF Freed, InHand
<1>2. \A j \in Indexers, s \in Segments :
         InHand(j, s)' => j # i /\ InHand(j, s) /\ index'[j] = index[j]
  BY <1>1 DEF Freed, InHand
<1>3. RacesKnown'
  BY <1>2 DEF RacesKnown
<1>4. DocumentedOnce'
  BY <1>2 DEF DocumentedOnce, Documented
<1>. QED BY <1>3, <1>4

\* A step that leaves the calls alone, with no document more.
LEMMA CallsKept ==
  ASSUME IInv, World, UNCHANGED index, docs' \subseteq docs
  PROVE  CallTypes' /\ CallsOK' /\ RacesKnown' /\ DocumentedOnce'
<1>1. CallTypes'
  BY DEF IInv, Books, TypeOK, IndexTypes, CallTypes, CallType
<1>2. CallsOK'
  BY Kept DEF CallsOK
<1>3. RacesKnown' /\ DocumentedOnce'
  BY DEF IInv, RacesKnown, DocumentedOnce, InHand, Documented
<1>. QED BY <1>1, <1>2, <1>3

\* Everything but the calls.
Shelves == /\ WriterTypes /\ docs \subseteq Docs /\ cursor \in Segments \cup {0, NoCursor}
           /\ \A d \in docs : disk[d[1]] \in {"good", "gone"}
           /\ purge \in [Purgers -> [all : SUBSET Docs, left : SUBSET Docs]]
           /\ stopped \subseteq Segments /\ failed \subseteq Segments
           /\ FilesOK /\ CursorOK /\ DocsOK /\ PurgesOK

LEMMA Assemble ==
  Shelves' /\ CallTypes' /\ CallsOK' /\ RacesKnown' /\ DocumentedOnce' => IInv'
BY DEF Shelves, CallTypes, CallType, IInv, Books, TypeOK, IndexTypes

(***************************************************************************)
(* The files, the index and the purges behind the calls                    *)
(***************************************************************************)

\* A step that leaves the files and the documents alone.
LEMMA SameWorld ==
  ASSUME IInv, UNCHANGED <<fileVars, stopped, docs, failed>>
  PROVE  World /\ \A u \in Segments : Passed(u)' <=> Passed(u)
BY RecorderAssumption
   DEF IInv, Books, TypeOK, WriterTypes, World, fileVars, Passed, Documented, Segments

\* A file is deleted, or cannot be.
LEMMA UnlinkStep ==
  ASSUME IInv, NEW s \in Segments, disk[s] \in {"good", "gone"}, Unlink(s),
         UNCHANGED <<procVars, born, docs>>
  PROVE  /\ World /\ WriterTypes' /\ FilesOK' /\ failed' \subseteq Segments
         /\ \A d \in docs : disk'[d[1]] \in {"good", "gone"}
         /\ \A u \in Segments : Passed(u) => Passed(u)'
         /\ Passed(s)' /\ (disk'[s] = "gone" \/ s \in failed')
         /\ failed \subseteq failed' /\ \A u \in Segments : disk[u] = "gone" => disk'[u] = "gone"
<1>. USE DEF IInv, Books, TypeOK
<1>0. born \in Nat /\ 1..born \subseteq Segments /\ s \in 1..born
      /\ disk \in [Segments -> Files \cup {"none", "gone"}] /\ writing # s
  BY RecorderAssumption DEF WriterTypes, FilesOK, Segments
<1>1. CASE disk' = [disk EXCEPT ![s] = "gone"] /\ UNCHANGED failed
  <2>1. \A u \in Segments : disk'[u] = IF u = s THEN "gone" ELSE disk[u]
    BY <1>0, <1>1
  <2>2. \A u \in Segments : Passed(u) => Passed(u)'
    BY <2>1, <1>1 DEF Passed, Documented, procVars
  <2>3. Passed(s)' /\ disk'[s] = "gone"
    BY <2>1, <1>0 DEF Passed
  <2>4. World
    BY <1>0, <2>1, <2>2 DEF World, procVars
  <2>5. FilesOK'
    BY <1>0, <2>1 DEF FilesOK, procVars
  <2>6. \A d \in docs : disk'[d[1]] \in {"good", "gone"}
    BY <2>1 DEF IndexTypes, Docs
  <2>7. WriterTypes'
    BY <1>0, <1>1 DEF WriterTypes, procVars
  <2>. QED BY <1>1, <2>1, <2>2, <2>3, <2>4, <2>5, <2>6, <2>7
<1>2. CASE disk[s] \in Files /\ failed' = failed \cup {s} /\ UNCHANGED disk
  <2>1. \A u \in Segments : Passed(u) => Passed(u)'
    BY <1>2 DEF Passed, Documented, procVars
  <2>2. World
    BY <1>0, <1>2, <2>1 DEF World, procVars
  <2>3. FilesOK' /\ WriterTypes'
    BY <1>2 DEF FilesOK, WriterTypes, procVars
  <2>4. Passed(s)'
    BY <1>2 DEF Passed
  <2>. QED BY <1>0, <1>2, <2>1, <2>2, <2>3, <2>4 DEF IndexTypes
<1>. QED BY <1>1, <1>2 DEF Unlink

\* A step of a call that touches neither a file nor a document: the cursor, if it
\* moved, has only what is passed before it.
LEMMA ShelvesKept ==
  ASSUME IInv, UNCHANGED <<fileVars, writing, stopped, docs, purge, failed>>,
         WriterTypes', cursor' \in Segments \cup {0, NoCursor}, CursorOK'
  PROVE  Shelves'
<1>. USE DEF IInv, Books, TypeOK
<1>1. \A u \in Segments : Passed(u)' <=> Passed(u)
  BY SameWorld
<1>2. FilesOK' /\ PurgesOK'
  BY DEF FilesOK, PurgesOK, fileVars
<1>3. DocsOK'
  BY <1>1 DEF DocsOK
<1>. QED BY <1>2, <1>3 DEF Shelves, IndexTypes, fileVars

\* A call begins, while its process is p.
LEMMA BeginStep ==
  ASSUME IInv, NEW i \in Indexers, NEW p, Begin(i, p), p = "alive" \/ writing = 0,
         WriterTypes', UNCHANGED <<fileVars, writing, stopped, purge, failed>>
  PROVE  IInv'
<1>. USE DEF IInv, Books, TypeOK
<1>1. UNCHANGED <<docs, cursor>> /\ index[i] = Idle
  BY DEF Begin
<1>2. World /\ \A u \in Segments : Passed(u)' <=> Passed(u)
  BY <1>1, SameWorld
<1>3. Shelves'
  <2>1. CursorOK' /\ cursor' \in Segments \cup {0, NoCursor}
    BY <1>1, <1>2 DEF CursorOK, fileVars, IndexTypes
  <2>. QED BY <1>1, <2>1, ShelvesKept
<1>4. CallTypes' /\ Freed(i) /\ CallsOK'
  <2>1. CASE cursor = NoCursor
    <3>1. index' = [index EXCEPT ![i].step = "cursor"]
      BY <2>1 DEF Begin
    <3>2. index'[i] = Call("cursor", 0, {}, FALSE)
          /\ \A j \in Indexers \ {i} : index'[j] = index[j]
      <4>1. index'[i] = [Idle EXCEPT !.step = "cursor"]
            /\ \A j \in Indexers \ {i} : index'[j] = index[j]
        BY <1>1, <3>1 DEF IndexTypes
      <4>. QED BY <4>1 DEF Idle, Call
    <3>3. Call("cursor", 0, {}, FALSE) \in CallType
      BY RecorderAssumption DEF Call, CallType
    <3>4. CallTypes' /\ Freed(i)
      <4>1. index' \in [Indexers -> CallType]
        BY <1>1, <3>1, <3>2, <3>3 DEF IndexTypes, CallType
      <4>. QED BY <3>2, <4>1 DEF CallTypes, IndexTypes, Freed, Call
    <3>5. CallOK(i)'
      BY <3>2 DEF CallOK, Left, Call, Segments
    <3>. QED BY <1>2, <3>2, <3>4, <3>5, Kept DEF CallsOK
  <2>2. CASE cursor # NoCursor
    <3>1. Proceed(i, After(cursor), p) /\ cursor \in 0..MaxSegments
      BY <2>2, RecorderAssumption DEF Begin, IndexTypes, Segments
    <3>. QED BY <1>1, <3>1, ListStep DEF CursorOK
  <2>. QED BY <2>1, <2>2
<1>5. RacesKnown' /\ DocumentedOnce'
  BY <1>1, <1>4, FreedRaces
<1>. QED BY <1>3, <1>4, <1>5, Assemble

LEMMA RecordStep == IInv /\ Record => IInv'
<1>. SUFFICES ASSUME IInv, Record PROVE IInv'
  OBVIOUS
<1>1. Begin("loop", "alive") /\ proc' = "alive"
      /\ UNCHANGED <<writing, stopped, fileVars, purge, failed>>
  BY DEF Record
<1>2. WriterTypes'
  BY <1>1 DEF IInv, Books, TypeOK, WriterTypes, fileVars
<1>. QED BY <1>1, <1>2, BeginStep DEF Indexers

LEMMA LookupStep == ASSUME IInv, NEW r \in Requests, Lookup(r) PROVE IInv'
<1>1. Begin(r, proc) /\ UNCHANGED <<procVars, fileVars, purge, failed>>
  BY DEF Lookup
<1>2. WriterTypes' /\ (proc = "alive" \/ writing = 0) /\ UNCHANGED <<writing, stopped>>
  BY <1>1 DEF IInv, Books, TypeOK, WriterTypes, fileVars, procVars
<1>. QED BY <1>1, <1>2, BeginStep DEF Indexers

LEMMA CursorReadStep == ASSUME IInv, NEW i \in Indexers, CursorRead(i) PROVE IInv'
<1>. USE DEF IInv, Books, TypeOK
<1>1. PICK c \in 0..MaxSegments :
         /\ c = 0 \/ Documented(c)
         /\ cursor' = c /\ Proceed(i, After(c), proc)
  BY DEF CursorRead
<1>2. UNCHANGED <<procVars, fileVars, docs, purge, failed>>
      /\ WriterTypes' /\ (proc = "alive" \/ writing = 0) /\ UNCHANGED <<writing, stopped>>
  BY DEF CursorRead, procVars, fileVars, WriterTypes
<1>3. World /\ \A u \in Segments : Passed(u)' <=> Passed(u)
  BY <1>2, SameWorld
<1>4. \A u \in Segments : u <= c => Passed(u)
  BY <1>1 DEF Documented, DocsOK, Segments
<1>5. CursorOK'
  <2>1. c <= born
    <3>1. CASE c = 0
      BY <3>1 DEF WriterTypes
    <3>2. CASE Documented(c)
      <4>1. PICK d \in docs : d[1] = c
        BY <3>2 DEF Documented
      <4>2. c \in Segments /\ disk[c] # "none"
        BY <4>1 DEF IndexTypes, Docs
      <4>. QED BY <4>2, RecorderAssumption DEF FilesOK, Segments, WriterTypes
    <3>. QED BY <1>1, <3>1, <3>2
  <2>. QED BY <1>1, <1>2, <1>3, <1>4, <2>1 DEF CursorOK, fileVars
<1>6. Shelves'
  <2>1. cursor' \in Segments \cup {0, NoCursor}
    BY <1>1, RecorderAssumption DEF Segments
  <2>. QED BY <1>2, <1>5, <2>1, ShelvesKept
<1>7. CallTypes' /\ Freed(i) /\ CallsOK'
  BY <1>1, <1>2, <1>4, ListStep
<1>8. RacesKnown' /\ DocumentedOnce'
  BY <1>2, <1>7, FreedRaces
<1>. QED BY <1>6, <1>7, <1>8, Assemble

LEMMA FindStep == ASSUME IInv, NEW i \in Indexers, Find(i) PROVE IInv'
<1>. USE DEF IInv, Books, TypeOK
<1>0. PICK s : s = index[i].seg
  OBVIOUS
<1>1. UNCHANGED <<procVars, fileVars, docs, purge, failed>> /\ index[i].step = "find"
      /\ UNCHANGED <<writing, stopped>> /\ WriterTypes'
  BY DEF Find, procVars, fileVars, WriterTypes
<1>2. World /\ \A u \in Segments : Passed(u)' <=> Passed(u)
  BY <1>1, SameWorld
<1>3. index[i] \in CallType /\ s \in Segments
  BY <1>0, <1>1, RecorderAssumption DEF IndexTypes, CallType, Segments
<1>4. CASE Documented(s) /\ Pass(i)
  <2>1. Passed(s)'
    BY <1>2, <1>3, <1>4 DEF Passed
  <2>2. CallTypes' /\ Freed(i) /\ CallsOK' /\ CursorOK' /\ cursor' \in Segments
    BY <1>0, <1>1, <1>2, <1>4, <2>1, PassStep
  <2>3. RacesKnown' /\ DocumentedOnce'
    BY <1>1, <2>2, FreedRaces
  <2>4. Shelves'
    BY <1>1, <2>2, ShelvesKept
  <2>. QED BY <2>2, <2>3, <2>4, Assemble
<1>5. CASE ~Documented(s) /\ Take(i) /\ UNCHANGED cursor
  <2>. DEFINE others == {j \in Indexers \ {i} : InHand(j, s)}
  <2>1. /\ index' \in [Indexers -> CallType]
        /\ index'[i] = Call("probe", s, index[i].rest, others # {})
        /\ \A j \in Indexers \ {i} :
              index'[j] = [index[j] EXCEPT !.raced = @ \/ j \in others]
    <3>1. Call("probe", s, index[i].rest, others # {}) \in CallType
      BY <1>3, RecorderAssumption DEF Call, CallType, Segments
    <3>2. \A j \in Indexers :
             [index[j] EXCEPT !.raced = index[j].raced \/ j \in others] \in CallType
      BY DEF IndexTypes, CallType
    <3>3. index' = [j \in Indexers |->
                      IF j = i THEN Call("probe", s, index[i].rest, others # {})
                      ELSE [index[j] EXCEPT !.raced = index[j].raced \/ j \in others]]
      BY <1>0, <1>5 DEF Take
    <3>. HIDE DEF others
    <3>. QED BY <3>1, <3>2, <3>3
  <2>2. /\ index'[i].step = "probe" /\ index'[i].seg = s /\ index'[i].rest = index[i].rest
        /\ index'[i].raced = (others # {})
    BY <2>1 DEF Call
  <2>3. \A j \in Indexers \ {i} :
           /\ index'[j].step = index[j].step /\ index'[j].seg = index[j].seg
           /\ index'[j].rest = index[j].rest
           /\ index'[j].raced = (index[j].raced \/ j \in others)
    <3>. HIDE DEF others
    <3>. QED BY <2>1 DEF IndexTypes
  <2>4. CallTypes'
    BY <1>3, <2>1, <2>2, <2>3, RecorderAssumption DEF CallTypes, IndexTypes, Segments
  <2>5. CallsOK'
    <3>. SUFFICES ASSUME NEW j \in Indexers PROVE CallOK(j)'
      BY DEF CallsOK
    <3>1. /\ index'[j].seg = index[j].seg /\ index'[j].rest = index[j].rest
          /\ index'[j].step \in {"flags", "insert"} => index'[j].step = index[j].step
      BY <1>0, <2>2, <2>3
    <3>2. CallOK(j) /\ UNCHANGED <<disk, born, stopped>>
      BY <1>1 DEF CallsOK, fileVars
    <3>3. Left(j)' = Left(j)
      BY <3>1 DEF Left
    <3>. QED BY <1>2, <3>1, <3>2, <3>3 DEF CallOK
  <2>6. \A j \in Indexers \ {i}, u \in Segments : InHand(j, u)' <=> InHand(j, u)
    BY <2>3 DEF InHand
  <2>7. \A u \in Segments : InHand(i, u)' => u = s
    BY <2>2 DEF InHand
  <2>8. RacesKnown'
    <3>. SUFFICES ASSUME NEW j \in Indexers, NEW k \in Indexers, NEW u \in Segments,
                         j # k, InHand(j, u)', InHand(k, u)'
                  PROVE  index'[j].raced
      BY DEF RacesKnown
    <3>1. CASE j = i
      BY <3>1, <2>2, <2>6, <2>7
    <3>2. CASE k = i
      BY <3>2, <2>3, <2>6, <2>7
    <3>3. CASE j # i /\ k # i
      BY <3>3, <2>3, <2>6 DEF RacesKnown
    <3>. QED BY <3>1, <3>2, <3>3
  <2>9. DocumentedOnce'
    <3>. SUFFICES ASSUME NEW j \in Indexers, NEW u \in Segments, InHand(j, u)',
                         ~index'[j].raced
                  PROVE  ~Documented(u)
      BY <1>1 DEF DocumentedOnce, Documented
    <3>1. CASE j = i
      BY <3>1, <1>5, <2>7
    <3>2. CASE j # i
      BY <3>2, <2>3, <2>6 DEF DocumentedOnce
    <3>. QED BY <3>1, <3>2
  <2>10. Shelves'
    <3>1. CursorOK' /\ cursor' \in Segments \cup {0, NoCursor}
      BY <1>1, <1>2, <1>5 DEF CursorOK, fileVars, IndexTypes
    <3>. QED BY <1>1, <3>1, ShelvesKept
  <2>. QED BY <2>4, <2>5, <2>8, <2>9, <2>10, Assemble
<1>. QED BY <1>0, <1>4, <1>5 DEF Find

\* A call goes on with its candidate, which was complete.
LEMMA GotoStep ==
  ASSUME IInv, NEW i \in Indexers, NEW step \in {"flags", "insert"}, Goto(i, step),
         index[i].step \in {"probe", "flags"}, disk[index[i].seg] \in {"good", "gone"},
         UNCHANGED <<procVars, fileVars, docs, cursor, purge, failed>>
  PROVE  IInv'
<1>. USE DEF IInv, Books, TypeOK
<1>1. World /\ (\A u \in Segments : Passed(u)' <=> Passed(u))
      /\ UNCHANGED <<writing, stopped>> /\ WriterTypes'
  BY SameWorld DEF procVars, fileVars, WriterTypes
<1>2. /\ index' \in [Indexers -> CallType]
      /\ index'[i].step = step /\ index'[i].seg = index[i].seg
      /\ index'[i].rest = index[i].rest /\ index'[i].raced = index[i].raced
      /\ \A j \in Indexers \ {i} : index'[j] = index[j]
  BY DEF Goto, IndexTypes, CallType
<1>3. CallTypes'
  BY <1>2 DEF CallTypes, IndexTypes
<1>4. CallOK(i)'
  <2>1. CallOK(i) /\ UNCHANGED <<disk, born, stopped>>
    BY <1>1 DEF CallsOK, fileVars
  <2>2. Left(i)' = Left(i)
    BY <1>2 DEF Left
  <2>. QED BY <1>1, <1>2, <2>1, <2>2 DEF CallOK
<1>5. CallsOK'
  BY <1>1, <1>2, <1>4, Kept DEF CallsOK
<1>6. \A j \in Indexers, u \in Segments : (InHand(j, u)' <=> InHand(j, u))
                                           /\ index'[j].raced = index[j].raced
  BY <1>2 DEF InHand
<1>7. RacesKnown' /\ DocumentedOnce'
  BY <1>6 DEF RacesKnown, DocumentedOnce, Documented
<1>8. Shelves'
  <2>1. CursorOK' /\ cursor' \in Segments \cup {0, NoCursor}
    BY <1>1 DEF CursorOK, fileVars, IndexTypes
  <2>. QED BY <1>1, <2>1, ShelvesKept
<1>. QED BY <1>3, <1>5, <1>7, <1>8, Assemble

\* A call ends before its candidate.
LEMMA EndStep ==
  ASSUME IInv, NEW i \in Indexers, index' = [index EXCEPT ![i] = Idle],
         UNCHANGED <<procVars, fileVars, docs, cursor, purge, failed>>
  PROVE  IInv'
<1>. USE DEF IInv, Books, TypeOK
<1>1. World /\ (\A u \in Segments : Passed(u)' <=> Passed(u))
      /\ UNCHANGED <<writing, stopped>> /\ WriterTypes'
  BY SameWorld DEF procVars, fileVars, WriterTypes
<1>2. CallTypes' /\ Freed(i) /\ CallsOK'
  <2>1. Proceed(i, {}, proc)
    BY DEF Proceed
  <2>2. proc = "alive" \/ writing = 0
    BY DEF WriterTypes
  <2>3. {} \in SUBSET Segments
    OBVIOUS
  <2>. QED BY <1>1, <2>1, <2>2, <2>3, NextCandidate
<1>3. RacesKnown' /\ DocumentedOnce'
  BY <1>2, FreedRaces
<1>4. Shelves'
  <2>1. CursorOK' /\ cursor' \in Segments \cup {0, NoCursor}
    BY <1>1 DEF CursorOK, fileVars, IndexTypes
  <2>. QED BY <1>1, <2>1, ShelvesKept
<1>. QED BY <1>2, <1>3, <1>4, Assemble

LEMMA ProbeStep == ASSUME IInv, NEW i \in Indexers, Probe(i) PROVE IInv'
<1>. USE DEF IInv, Books, TypeOK
<1>0. PICK s : s = index[i].seg
  OBVIOUS
<1>1. UNCHANGED <<procVars, fileVars, docs, purge>> /\ index[i].step = "probe"
      /\ UNCHANGED <<writing, stopped>> /\ WriterTypes'
  BY DEF Probe, procVars, fileVars, WriterTypes
<1>2. s \in Segments /\ index[i].seg # 0 /\ CallOK(i)
  BY <1>0, <1>1, RecorderAssumption DEF IndexTypes, Segments, CallsOK
<1>3. CASE disk[s] = "good" /\ Goto(i, "flags") /\ UNCHANGED <<cursor, failed>>
  BY <1>0, <1>1, <1>3, GotoStep
<1>4. CASE Pass(i) /\ failed' = IF disk[s] = "good" THEN failed \cup {s} ELSE failed
  <2>1. \A u \in Segments : Passed(u) => Passed(u)'
    BY <1>1, <1>4 DEF Passed, Documented, fileVars
  <2>2. World
    BY <1>1, <2>1, RecorderAssumption DEF World, fileVars, WriterTypes, Segments
  <2>3. Passed(s)'
    <3>1. disk[s] = "open" => s \in stopped
      BY <1>0, <1>2 DEF CallOK
    <3>. QED BY <1>1, <1>4, <3>1 DEF Passed, fileVars
  <2>4. CallTypes' /\ Freed(i) /\ CallsOK' /\ CursorOK' /\ cursor' \in Segments
    BY <1>0, <1>1, <1>4, <2>2, <2>3, PassStep
  <2>5. RacesKnown' /\ DocumentedOnce'
    BY <1>1, <2>4, FreedRaces
  <2>6. Shelves'
    <3>1. DocsOK' /\ FilesOK' /\ PurgesOK'
      BY <1>1, <1>4, <2>1 DEF DocsOK, FilesOK, PurgesOK, fileVars
    <3>2. failed' \subseteq Segments
      BY <1>2, <1>4
    <3>. QED BY <1>1, <2>4, <3>1, <3>2 DEF Shelves, IndexTypes, fileVars
  <2>. QED BY <2>4, <2>5, <2>6, Assemble
<1>. QED BY <1>0, <1>3, <1>4 DEF Probe

LEMMA KeepStep == ASSUME IInv, NEW i \in Indexers, Keep(i) PROVE IInv'
<1>1. index[i].step = "flags" /\ UNCHANGED <<procVars, fileVars, docs, cursor, purge, failed>>
  BY DEF Keep
<1>2. disk[index[i].seg] \in {"good", "gone"}
  BY <1>1 DEF IInv, CallsOK, CallOK
<1>3. CASE Goto(i, "insert")
  BY <1>1, <1>2, <1>3, GotoStep
<1>4. CASE index' = [index EXCEPT ![i] = Idle]
  BY <1>1, <1>4, EndStep
<1>. QED BY <1>3, <1>4 DEF Keep

LEMMA IndexFailsStep == ASSUME IInv, NEW i \in Indexers, IndexFails(i) PROVE IInv'
BY EndStep DEF IndexFails

LEMMA DiscardStep == ASSUME IInv, NEW i \in Indexers, Discard(i) PROVE IInv'
<1>. USE DEF IInv, Books, TypeOK
<1>0. PICK s : s = index[i].seg
  OBVIOUS
<1>1. UNCHANGED <<procVars, born, docs, purge>> /\ index[i].step = "flags"
      /\ Unlink(s) /\ Pass(i)
  BY <1>0 DEF Discard
<1>2. s \in Segments /\ CallOK(i)
  BY <1>0, <1>1, RecorderAssumption DEF IndexTypes, Segments, CallsOK
<1>3. disk[s] \in {"good", "gone"}
  BY <1>0, <1>1, <1>2 DEF CallOK
<1>4. /\ World /\ WriterTypes' /\ FilesOK' /\ failed' \subseteq Segments
      /\ \A d \in docs : disk'[d[1]] \in {"good", "gone"}
      /\ \A u \in Segments : Passed(u) => Passed(u)'
      /\ Passed(s)' /\ failed \subseteq failed'
      /\ \A u \in Segments : disk[u] = "gone" => disk'[u] = "gone"
  BY <1>1, <1>2, <1>3, UnlinkStep
<1>5. CallTypes' /\ Freed(i) /\ CallsOK' /\ CursorOK' /\ cursor' \in Segments
  BY <1>0, <1>1, <1>4, PassStep
<1>6. RacesKnown' /\ DocumentedOnce'
  BY <1>1, <1>5, FreedRaces
<1>7. DocsOK'
  BY <1>1, <1>4 DEF DocsOK
<1>8. PurgesOK'
  <2>. SUFFICES ASSUME NEW p \in Purgers, NEW d \in purge[p].all
                PROVE  /\ disk'[d[1]] \in {"good", "gone"}
                       /\ d \in purge[p].left \/ disk'[d[1]] = "gone" \/ d[1] \in failed'
    BY <1>1 DEF PurgesOK
  <2>1. d[1] \in Segments /\ d[1] \in 1..born
    BY RecorderAssumption DEF Docs, PurgesOK, FilesOK, Segments, WriterTypes
  <2>. QED BY <1>4, <2>1 DEF PurgesOK, World
<1>. QED BY <1>1, <1>4, <1>5, <1>6, <1>7, <1>8, Assemble DEF Shelves, IndexTypes, procVars

LEMMA InsertStep == ASSUME IInv, NEW i \in Indexers, Insert(i) PROVE IInv'
<1>. USE DEF IInv, Books, TypeOK
<1>0. PICK s : s = index[i].seg
  OBVIOUS
<1>1. UNCHANGED <<procVars, fileVars, purge, failed>> /\ index[i].step = "insert"
      /\ docs' = docs \cup {<<s, i>>} /\ Pass(i) /\ UNCHANGED <<writing, stopped>> /\ WriterTypes'
  BY <1>0 DEF Insert, procVars, fileVars, WriterTypes
<1>2. s \in Segments /\ CallOK(i)
  BY <1>0, <1>1, RecorderAssumption DEF IndexTypes, Segments, CallsOK
<1>3. disk[s] \in {"good", "gone"}
  BY <1>0, <1>1, <1>2 DEF CallOK
<1>4. \A u : Documented(u)' <=> Documented(u) \/ u = s
  <2>1. <<s, i>> \in docs' /\ <<s, i>>[1] = s
    BY <1>1
  <2>. QED BY <1>1, <2>1 DEF Documented
<1>5. (\A u \in Segments : Passed(u) => Passed(u)') /\ Passed(s)'
  BY <1>1, <1>4 DEF Passed, fileVars
<1>6. World
  BY <1>1, <1>5, RecorderAssumption DEF World, fileVars, WriterTypes, Segments
<1>7. CallTypes' /\ Freed(i) /\ CallsOK' /\ CursorOK' /\ cursor' \in Segments
  BY <1>0, <1>1, <1>5, <1>6, PassStep
<1>8. \A j \in Indexers, u \in Segments :
         InHand(j, u)' => j # i /\ InHand(j, u) /\ index'[j] = index[j]
  BY <1>7 DEF Freed, InHand
<1>9. RacesKnown'
  BY <1>8 DEF RacesKnown
<1>10. DocumentedOnce'
  <2>. SUFFICES ASSUME NEW j \in Indexers, NEW u \in Segments, InHand(j, u)', ~index'[j].raced
                PROVE  ~Documented(u)'
    BY DEF DocumentedOnce
  <2>1. j # i /\ InHand(j, u) /\ ~index[j].raced
    BY <1>8
  <2>2. InHand(i, s)
    BY <1>0, <1>1 DEF InHand
  <2>3. u # s
    BY <2>1, <2>2 DEF RacesKnown
  <2>. QED BY <1>4, <2>1, <2>3 DEF DocumentedOnce
<1>11. DocsOK'
  <2>. SUFFICES ASSUME NEW d \in docs', NEW u \in Segments, u <= d[1] PROVE Passed(u)'
    BY DEF DocsOK
  <2>1. CASE d \in docs
    BY <2>1, <1>5 DEF DocsOK
  <2>2. CASE d = <<s, i>>
    <3>1. u <= cursor'
      BY <1>0, <1>1, <2>2 DEF Pass
    <3>. QED BY <1>7, <3>1 DEF CursorOK
  <2>. QED BY <1>1, <2>1, <2>2
<1>12. docs' \subseteq Docs /\ \A d \in docs' : disk'[d[1]] \in {"good", "gone"}
  BY <1>1, <1>2, <1>3 DEF IndexTypes, Docs, fileVars
<1>13. FilesOK' /\ PurgesOK'
  BY <1>1 DEF FilesOK, PurgesOK, fileVars
<1>. QED BY <1>1, <1>7, <1>9, <1>10, <1>11, <1>12, <1>13, Assemble DEF Shelves

(***************************************************************************)
(* The processes and the purges                                            *)
(***************************************************************************)

\* A step that changes neither a call, the cursor nor a document.
LEMMA CursorKept ==
  ASSUME IInv, World, UNCHANGED <<cursor, docs>>
  PROVE  CursorOK' /\ DocsOK'
<1>. USE DEF IInv, Books, TypeOK
<1>1. \A u \in Segments : u <= born /\ Passed(u) => Passed(u)'
  BY RecorderAssumption DEF World, Segments, WriterTypes
<1>2. CursorOK'
  <2>1. cursor' <= born'
    BY RecorderAssumption DEF CursorOK, World, WriterTypes, IndexTypes, Segments, NoCursor
  <2>2. \A u \in Segments : u <= cursor => u <= born
    BY RecorderAssumption DEF CursorOK, WriterTypes, IndexTypes, Segments, NoCursor
  <2>. QED BY <1>1, <2>1, <2>2 DEF CursorOK
<1>3. DocsOK'
  <2>. SUFFICES ASSUME NEW d \in docs, NEW u \in Segments, u <= d[1] PROVE Passed(u)'
    BY DEF DocsOK
  <2>1. d[1] \in Segments /\ d[1] <= born
    BY RecorderAssumption DEF IndexTypes, Docs, FilesOK, Segments, WriterTypes
  <2>2. u <= born
    BY <2>1, RecorderAssumption DEF Segments, WriterTypes
  <2>. QED BY <1>1, <2>2 DEF DocsOK
<1>. QED BY <1>2, <1>3

LEMMA StopStep == IInv /\ (Stop \/ Suspend) => IInv'
<1>. SUFFICES ASSUME IInv, Stop \/ Suspend PROVE IInv'
  OBVIOUS
<1>. USE DEF IInv, Books, TypeOK
<1>1. /\ proc' = "none" /\ writing' = 0
      /\ stopped' = IF writing = 0 THEN stopped ELSE stopped \cup {writing}
      /\ UNCHANGED <<fileVars, docs, cursor, index, purge, failed>>
  BY DEF Stop, Suspend, Terminate, indexVars
<1>2. \A u \in Segments : Passed(u) => Passed(u)'
  BY <1>1 DEF Passed, Documented, fileVars
<1>3. World
  BY <1>1, <1>2, RecorderAssumption DEF World, fileVars, WriterTypes, Segments
<1>4. CallTypes' /\ CallsOK' /\ RacesKnown' /\ DocumentedOnce'
  BY <1>1, <1>3, CallsKept
<1>5. CursorOK' /\ DocsOK'
  BY <1>1, <1>3, CursorKept
<1>6. WriterTypes' /\ stopped' \subseteq Segments
  BY <1>1, RecorderAssumption DEF WriterTypes, fileVars, Segments
<1>7. FilesOK' /\ PurgesOK'
  <2>1. \A s \in Segments : disk[s] = "open" => s \in stopped'
    BY <1>1, RecorderAssumption DEF FilesOK, Segments
  <2>2. PurgesOK'
    BY <1>1 DEF PurgesOK, fileVars
  <2>. QED BY <1>1, <2>1, <2>2 DEF FilesOK, fileVars
<1>. QED BY <1>1, <1>4, <1>5, <1>6, <1>7, Assemble DEF Shelves, IndexTypes, fileVars

\* A purge begins with some documents, or ends without having deleted one.
LEMMA PurgeSet ==
  ASSUME IInv, NEW p \in Purgers, NEW D \in SUBSET docs,
         purge' = [purge EXCEPT ![p] = [all |-> D, left |-> D]],
         UNCHANGED <<procVars, fileVars, indexVars, failed>>
  PROVE  IInv'
<1>. USE DEF IInv, Books, TypeOK
<1>1. World
  BY SameWorld DEF procVars, indexVars
<1>2. CallTypes' /\ CallsOK' /\ RacesKnown' /\ DocumentedOnce'
  BY <1>1, CallsKept DEF indexVars
<1>3. CursorOK' /\ DocsOK'
  BY <1>1, CursorKept DEF indexVars
<1>4. purge' \in [Purgers -> [all : SUBSET Docs, left : SUBSET Docs]]
  BY DEF IndexTypes
<1>5. PurgesOK'
  <2>1. /\ purge'[p].all = D /\ purge'[p].left = D
        /\ \A q \in Purgers \ {p} : purge'[q] = purge[q]
    OBVIOUS
  <2>2. \A d \in D : disk[d[1]] \in {"good", "gone"}
    BY DEF IndexTypes
  <2>. QED BY <2>1, <2>2 DEF PurgesOK, fileVars
<1>. QED BY <1>2, <1>3, <1>4, <1>5, Assemble
     DEF Shelves, FilesOK, WriterTypes, IndexTypes, procVars, fileVars, indexVars

LEMMA PurgeFileStep ==
  ASSUME IInv, NEW p \in Purgers, NEW d \in purge[p].left, PurgeFile(p, d)
  PROVE  IInv'
<1>. USE DEF IInv, Books, TypeOK
<1>0. PICK s : s = d[1]
  OBVIOUS
<1>1. /\ purge' = [purge EXCEPT ![p].left = purge[p].left \ {d}]
      /\ Unlink(s) /\ UNCHANGED <<procVars, born, docs, cursor, index>>
  BY <1>0 DEF PurgeFile, indexVars
<1>2. d \in purge[p].all /\ d \in Docs /\ s \in Segments /\ disk[s] \in {"good", "gone"}
  BY <1>0 DEF PurgesOK, Docs
<1>3. /\ World /\ WriterTypes' /\ FilesOK' /\ failed' \subseteq Segments
      /\ \A e \in docs : disk'[e[1]] \in {"good", "gone"}
      /\ disk'[s] = "gone" \/ s \in failed'
      /\ failed \subseteq failed' /\ \A u \in Segments : disk[u] = "gone" => disk'[u] = "gone"
  BY <1>1, <1>2, UnlinkStep
<1>4. CallTypes' /\ CallsOK' /\ RacesKnown' /\ DocumentedOnce'
  BY <1>1, <1>3, CallsKept
<1>5. CursorOK' /\ DocsOK'
  BY <1>1, <1>3, CursorKept
<1>6. /\ purge'[p].all = purge[p].all /\ purge'[p].left = purge[p].left \ {d}
      /\ \A q \in Purgers \ {p} : purge'[q] = purge[q]
      /\ purge' \in [Purgers -> [all : SUBSET Docs, left : SUBSET Docs]]
  BY <1>1
<1>7. PurgesOK'
  <2>1. \A q \in Purgers : purge'[q].left \subseteq purge'[q].all
    BY <1>6 DEF PurgesOK
  <2>2. ASSUME NEW q \in Purgers, NEW e \in purge'[q].all
        PROVE  /\ disk'[e[1]] \in {"good", "gone"}
               /\ e \in purge'[q].left \/ disk'[e[1]] = "gone" \/ e[1] \in failed'
    <3>1. e \in purge[q].all /\ (e = d \/ (e \in purge[q].left => e \in purge'[q].left))
      BY <1>6
    <3>2. e[1] \in Segments /\ e[1] \in 1..born
      BY <3>1, RecorderAssumption DEF Docs, PurgesOK, FilesOK, Segments, WriterTypes
    <3>3. CASE e = d
      BY <1>0, <1>2, <1>3, <3>2, <3>3 DEF World
    <3>4. CASE e \in purge[q].left => e \in purge'[q].left
      BY <1>3, <3>1, <3>2, <3>4 DEF PurgesOK, World
    <3>. QED BY <3>1, <3>3, <3>4
  <2>. QED BY <2>1, <2>2 DEF PurgesOK
<1>. QED BY <1>1, <1>3, <1>4, <1>5, <1>6, <1>7, Assemble DEF Shelves, IndexTypes, procVars

LEMMA PurgeDocsStep == ASSUME IInv, NEW p \in Purgers, PurgeDocs(p) PROVE IInv'
<1>. USE DEF IInv, Books, TypeOK
<1>1. /\ purge[p].left = {} /\ docs' = docs \ purge[p].all
      /\ purge' = [purge EXCEPT ![p] = NoPurge]
      /\ UNCHANGED <<procVars, fileVars, cursor, index, failed, writing, stopped, proc>>
  BY DEF PurgeDocs, procVars
<1>2. \A u \in Segments : Passed(u) => Passed(u)'
  <2>. SUFFICES ASSUME NEW u \in Segments, Passed(u) PROVE Passed(u)'
    OBVIOUS
  <2>1. CASE \E d \in purge[p].all : d[1] = u
    BY <1>1, <2>1 DEF PurgesOK, Passed, fileVars
  <2>2. CASE ~\E d \in purge[p].all : d[1] = u
    BY <1>1, <2>2 DEF Passed, Documented, fileVars
  <2>. QED BY <2>1, <2>2
<1>3. World
  BY <1>1, <1>2, RecorderAssumption DEF World, fileVars, WriterTypes, Segments
<1>4. CallTypes' /\ CallsOK' /\ RacesKnown' /\ DocumentedOnce'
  BY <1>1, <1>3, CallsKept
<1>5. CursorOK' /\ DocsOK'
  BY <1>1, <1>2 DEF CursorOK, DocsOK, fileVars
<1>6. PurgesOK' /\ purge' \in [Purgers -> [all : SUBSET Docs, left : SUBSET Docs]]
  BY <1>1 DEF PurgesOK, NoPurge, fileVars
<1>. QED BY <1>1, <1>4, <1>5, <1>6, Assemble
     DEF Shelves, FilesOK, WriterTypes, IndexTypes, fileVars

LEMMA PurgingStep == ASSUME IInv, NEW p \in Purgers, Purging(p) PROVE IInv'
<1>1. ASSUME NEW D \in SUBSET docs, PurgeBegin(p, D) PROVE IInv'
  BY <1>1, PurgeSet DEF PurgeBegin
<1>2. CASE PurgeOld(p)
  BY <1>1, <1>2 DEF PurgeOld
<1>3. CASE PurgeOldest(p)
  <2>1. PICK d \in docs : PurgeBegin(p, {d})
    BY <1>3 DEF PurgeOldest
  <2>. QED BY <1>1, <2>1
<1>4. CASE PurgeFails(p)
  <2>1. {} \in SUBSET docs
    OBVIOUS
  <2>. QED BY <1>4, <2>1, PurgeSet DEF PurgeFails, NoPurge
<1>. QED BY <1>2, <1>3, <1>4, PurgeFileStep, PurgeDocsStep DEF Purging

\* What all changes of files by ffmpeg have in common.
LEMMA FilesStep ==
  ASSUME IInv, World, WriterTypes', FilesOK',
         UNCHANGED <<stopped, docs, cursor, index, purge, failed>>
  PROVE  IInv'
<1>. USE DEF IInv, Books, TypeOK
<1>1. CallTypes' /\ CallsOK' /\ RacesKnown' /\ DocumentedOnce'
  BY CallsKept
<1>2. CursorOK' /\ DocsOK'
  BY CursorKept
<1>3. PurgesOK'
  <2>. SUFFICES ASSUME NEW p \in Purgers, NEW d \in purge[p].all
                PROVE  /\ disk'[d[1]] \in {"good", "gone"}
                       /\ d \in purge[p].left \/ disk'[d[1]] = "gone" \/ d[1] \in failed
    BY DEF PurgesOK
  <2>1. d[1] \in 1..born
    BY RecorderAssumption DEF Docs, PurgesOK, FilesOK, Segments, WriterTypes
  <2>. QED BY <2>1 DEF PurgesOK, World
<1>4. \A d \in docs : disk'[d[1]] \in {"good", "gone"}
  <2>. SUFFICES ASSUME NEW d \in docs PROVE disk'[d[1]] \in {"good", "gone"}
    OBVIOUS
  <2>1. d[1] \in 1..born
    BY RecorderAssumption DEF IndexTypes, Docs, FilesOK, Segments, WriterTypes
  <2>. QED BY <2>1 DEF World, IndexTypes
<1>. QED BY <1>1, <1>2, <1>3, <1>4, Assemble DEF Shelves, IndexTypes

\* ffmpeg completes, or ends, its files: of those that exist only open ones change.
LEMMA OpenFilesEnd ==
  ASSUME IInv, disk' \in [Segments -> Files \cup {"none", "gone"}], born' \in born..MaxSegments,
         \A s \in 1..born : disk'[s] = disk[s] \/ (disk[s] = "open" /\ disk'[s] \in {"good", "bad"}),
         UNCHANGED <<stopped, docs, failed>>
  PROVE  World
<1>. USE DEF IInv, Books, TypeOK
<1>1. \A s \in 1..born : Passed(s) => Passed(s)'
  BY DEF Passed, Documented
<1>. QED BY <1>1, RecorderAssumption DEF World, WriterTypes

LEMMA ProcessStep == IInv /\ Process => IInv'
<1>. SUFFICES ASSUME IInv, Process PROVE IInv'
  OBVIOUS
<1>. USE DEF IInv, Books, TypeOK
<1>0. born \in Nat /\ MaxSegments \in Nat /\ born <= MaxSegments /\ writing \in Nat
      /\ disk \in [Segments -> Files \cup {"none", "gone"}] /\ 1..born \subseteq Segments
  BY RecorderAssumption DEF WriterTypes, Segments
<1>1. CASE NextSegment
  <2>1. /\ born' = born + 1 /\ writing' = born + 1 /\ born < MaxSegments /\ proc' = "alive"
        /\ UNCHANGED <<stopped, docs, cursor, index, purge, failed>>
    BY <1>1 DEF NextSegment, indexVars
  <2>2. \A s \in Segments : disk'[s] = IF s = writing THEN "good"
                                       ELSE IF s = born + 1 THEN "open" ELSE disk[s]
    BY <1>1, <2>1 DEF NextSegment
  <2>3. disk' \in [Segments -> Files \cup {"none", "gone"}]
    BY <1>0, <1>1 DEF NextSegment, Files
  <2>4. writing # 0 => disk[writing] = "open"
    BY DEF WriterTypes
  <2>5. World
    BY <1>0, <2>1, <2>2, <2>3, <2>4, OpenFilesEnd
  <2>6. WriterTypes'
    BY <1>0, <2>1, <2>2, <2>3 DEF WriterTypes, FilesOK, Segments
  <2>7. FilesOK'
    BY <1>0, <2>1, <2>2, <2>4 DEF FilesOK, Segments
  <2>. QED BY <2>1, <2>5, <2>6, <2>7, FilesStep
<1>2. ASSUME NEW end \in {"good", "bad"}, Die(end) PROVE IInv'
  <2>1. /\ writing' = 0 /\ proc' = "dead"
        /\ UNCHANGED <<born, stopped, docs, cursor, index, purge, failed>>
    BY <1>2 DEF Die, indexVars
  <2>2. \A s \in Segments : disk'[s] = IF s = writing THEN end ELSE disk[s]
    BY <1>2 DEF Die
  <2>3. disk' \in [Segments -> Files \cup {"none", "gone"}]
    BY <1>0, <1>2 DEF Die, Files
  <2>4. writing # 0 => disk[writing] = "open"
    BY DEF WriterTypes
  <2>5. World
    BY <1>0, <2>1, <2>2, <2>3, <2>4, OpenFilesEnd
  <2>6. WriterTypes'
    BY <1>0, <2>1, <2>3 DEF WriterTypes
  <2>7. FilesOK'
    BY <1>0, <2>1, <2>2, <2>4 DEF FilesOK, Segments
  <2>. QED BY <2>1, <2>5, <2>6, <2>7, FilesStep
<1>3. ASSUME NEW end \in {"good", "bad"}, NEW t \in Segments, TerminatedEnds(t, end) PROVE IInv'
  <2>1. /\ disk[t] = "open" /\ t # writing
        /\ UNCHANGED <<proc, writing, born, stopped, docs, cursor, index, purge, failed>>
    BY <1>3 DEF TerminatedEnds, procVars, indexVars
  <2>2. \A s \in Segments : disk'[s] = IF s = t THEN end ELSE disk[s]
    BY <1>0, <1>3 DEF TerminatedEnds
  <2>3. disk' \in [Segments -> Files \cup {"none", "gone"}]
    BY <1>0, <1>3 DEF TerminatedEnds, Files
  <2>4. World
    BY <1>0, <2>1, <2>2, <2>3, OpenFilesEnd
  <2>5. WriterTypes'
    BY <1>0, <2>1, <2>2, <2>3 DEF WriterTypes, Segments
  <2>6. FilesOK'
    BY <1>0, <2>1, <2>2 DEF FilesOK, Segments
  <2>. QED BY <2>1, <2>4, <2>5, <2>6, FilesStep
<1>. QED BY <1>1, <1>2, <1>3 DEF Process

LEMMA RestartStep == IInv /\ Restart => IInv'
<1>. SUFFICES ASSUME IInv, Restart PROVE IInv'
  OBVIOUS
<1>. USE DEF IInv, Books, TypeOK
<1>1. /\ proc' = "none" /\ writing' = 0 /\ cursor' = NoCursor
      /\ index' = [i \in Indexers |-> Idle] /\ purge' = [p \in Purgers |-> NoPurge]
      /\ UNCHANGED <<stopped, born, docs, failed>>
  BY DEF Restart
<1>2. PICK whole \in SUBSET Segments :
         disk' = [s \in Segments |-> IF disk[s] # "open" THEN disk[s]
                                     ELSE IF s \in whole THEN "good" ELSE "bad"]
  BY DEF Restart
<1>3. \A s \in Segments : disk'[s] = disk[s] \/ (disk[s] = "open" /\ disk'[s] \in {"good", "bad"})
  BY <1>2
<1>4. \A s \in Segments : disk'[s] # "open"
  BY <1>2
<1>5. disk' \in [Segments -> Files \cup {"none", "gone"}]
  BY <1>2 DEF WriterTypes, Files
<1>6. WriterTypes' /\ FilesOK'
  BY <1>1, <1>3, <1>4, <1>5, RecorderAssumption DEF WriterTypes, FilesOK
<1>7. \A u \in Segments : Passed(u) => Passed(u)'
  BY <1>1, <1>3 DEF Passed, Documented
<1>8. CursorOK' /\ DocsOK' /\ PurgesOK'
  BY <1>1, <1>7, RecorderAssumption
     DEF CursorOK, DocsOK, PurgesOK, NoCursor, NoPurge, WriterTypes, Segments
<1>9. CallTypes' /\ CallsOK' /\ RacesKnown' /\ DocumentedOnce'
  <2>1. \A i \in Indexers : index'[i] = Idle
    BY <1>1
  <2>2. CallTypes'
    BY <1>1, RecorderAssumption DEF CallTypes, CallType, Idle, Call
  <2>3. CallsOK'
    BY <2>1 DEF CallsOK, CallOK, Left, Idle, Call, Segments
  <2>. QED BY <2>1, <2>2, <2>3 DEF RacesKnown, DocumentedOnce, InHand, Idle, Call
<1>10. \A d \in docs : disk'[d[1]] \in {"good", "gone"}
  BY <1>3 DEF IndexTypes, Docs
<1>. QED BY <1>1, <1>6, <1>8, <1>9, <1>10, Assemble DEF Shelves, IndexTypes, NoPurge

(***************************************************************************)
(* The theorems                                                            *)
(***************************************************************************)

LEMMA Inductive == IInv /\ [Next]_vars => IInv'
<1>. SUFFICES ASSUME IInv, [Next]_vars PROVE IInv'
  OBVIOUS
<1>1. CASE UNCHANGED vars
  <2>1. World
    BY <1>1, SameWorld DEF vars, procVars, fileVars, indexVars
  <2>2. WriterTypes' /\ FilesOK'
    BY <1>1 DEF IInv, Books, TypeOK, WriterTypes, FilesOK, vars, procVars, fileVars
  <2>. QED BY <1>1, <2>1, <2>2, FilesStep DEF vars, procVars, fileVars, indexVars
<1>2. ASSUME NEW i \in Indexers, Indexing(i) PROVE IInv'
  BY <1>2, CursorReadStep, FindStep, ProbeStep, KeepStep, DiscardStep, InsertStep,
     IndexFailsStep DEF Indexing
<1>3. CASE Loop
  BY <1>3, RecordStep, StopStep DEF Loop
<1>. QED BY <1>1, <1>2, <1>3, LookupStep, PurgingStep, ProcessStep, RestartStep DEF Next

LEMMA Invariant == Spec => []IInv
BY Initial, Inductive, PTL DEF Spec

\* Every variable keeps its type: only the process the recorder knows writes a
\* segment it has not cut off, and every document is of a segment that was complete.
THEOREM Types == Spec => []TypeOK
<1>1. IInv => TypeOK
  BY DEF IInv, Books
<1>. QED BY <1>1, Invariant, PTL

\* _index_segments() passes over no complete segment, whatever number of requests and
\* purges run beside the loop and however often the backend restarts.
THEOREM NothingSkipped == Spec => []NoSegmentSkipped
<1>1. IInv => NoSegmentSkipped
  BY DEF IInv, Books, CursorOK, Passed, NoSegmentSkipped
<1>. QED BY <1>1, Invariant, PTL

\* A call of _index_segments() that alone has a segment in hand finds it without a
\* document when it inserts one.
THEOREM OneDocument == Spec => []DocumentedOnce
<1>1. IInv => DocumentedOnce
  BY DEF IInv
<1>. QED BY <1>1, Invariant, PTL

\* A purge takes a segment out of the index only after it deleted the file, or failed
\* to: no document is lost of a recording that nothing tried to delete, even if another
\* purge, a request or a process that still writes comes in between.
DocumentOutlivesFile ==
    [][\A s \in Segments : Documented(s) /\ ~Documented(s)'
                               => disk[s] = "gone" \/ s \in failed]_vars

THEOREM DocumentsKept == Spec => DocumentOutlivesFile
<1> DEFINE A == \A s \in Segments : Documented(s) /\ ~Documented(s)'
                                        => disk[s] = "gone" \/ s \in failed
<1>1. ASSUME IInv, [Next]_vars
      PROVE  [A]_vars
  <2>1. ASSUME NEW p \in Purgers, PurgeDocs(p)
        PROVE  A
    <3>1. \A d \in purge[p].all : disk[d[1]] = "gone" \/ d[1] \in failed
      BY <1>1, <2>1 DEF PurgeDocs, IInv, Books, PurgesOK
    <3>2. docs' = docs \ purge[p].all
      BY <2>1 DEF PurgeDocs
    <3>. QED BY <3>1, <3>2 DEF Documented
  <2>2. CASE docs \subseteq docs'
    BY <2>2 DEF Documented
  <2>3. docs \subseteq docs' \/ \E p \in Purgers : PurgeDocs(p)
    <3>1. ASSUME NEW i \in Indexers, Indexing(i)
          PROVE  docs \subseteq docs'
      BY <3>1 DEF Indexing, CursorRead, Find, Probe, Keep, Discard, Insert, IndexFails
    <3>2. ASSUME NEW p \in Purgers, Purging(p), ~PurgeDocs(p)
          PROVE  docs' = docs
      BY <3>2 DEF Purging, PurgeOld, PurgeOldest, PurgeBegin, PurgeFile, PurgeFails,
         indexVars
    <3>3. CASE Loop \/ Process \/ Restart \/ \E r \in Requests : Lookup(r)
      BY <3>3 DEF Loop, Record, Stop, Suspend, Process, NextSegment, Die, TerminatedEnds,
         Restart, Lookup, Begin, indexVars
    <3>4. CASE UNCHANGED vars
      BY <3>4 DEF vars, indexVars
    <3>. QED BY <1>1, <3>1, <3>2, <3>3, <3>4 DEF Next
  <2>. QED BY <2>1, <2>2, <2>3
<1>. QED BY <1>1, Invariant, PTL DEF Spec, DocumentOutlivesFile
================================================================================
