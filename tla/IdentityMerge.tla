----------------------------- MODULE IdentityMerge -----------------------------
(***************************************************************************)
(* The identities of routes/vehicles.py (groups of plates taken for one    *)
(* vehicle) and the merge suggestions of routes/identity_merge_ai.py: the  *)
(* batches that compare identities, their review, the automatic approval   *)
(* and the merges themselves.  Each access to the database is a step: the  *)
(* requests and the background loops interleave between them.              *)
(***************************************************************************)
EXTENDS Naturals, FiniteSets

CONSTANTS
    Plates,
    MaxIds,        \* bounds how many identities are ever created
    MaxFamily,     \* _MAX_PLAUSIBLE_FAMILY_SIZE
    MaxCandidates, \* _MAX_CANDIDATES_PER_RUN
    Requests,      \* the API requests in flight
    Batches        \* the runs of _run_identity_merge_batch(): loop and manual

ASSUME IdentityAssumption ==
    /\ MaxIds \in Nat /\ MaxFamily \in Nat /\ MaxCandidates \in Nat
    /\ IsFiniteSet(Plates) /\ {"auto", "user"} \cap Requests = {}

Ids == 1..MaxIds
Pairs == {p \in Ids \X Ids : p[1] < p[2]}
Docs == Pairs \X Batches
Actors == Requests \cup {"auto"}
NoDoc == <<>>
Verdicts == {"pending", "auto_rejected"}

VARIABLES
    born,       \* how many identities have been created, in the order of created_at
    identities, \* the plates of each identity of vehicle_identities, {} if it is not there
    merge,      \* what each actor's merge_identities() has read and has yet to do
    raced,      \* history: merges one of whose identities another actor has written since
    status,     \* the documents of identity_merge_suggestions
    todo,       \* the pairs a batch has yet to compare
    overlapped, \* history: pairs that two batches had to compare at once
    approving,  \* the suggestions that _run_auto_approve() has yet to accept
    bulk        \* bulk_delete_vehicles(): its plates, the documents it has yet to write

idVars == <<born, identities>>
mergeVars == <<merge, raced>>
batchVars == <<todo, overlapped>>
vars == <<idVars, mergeVars, status, batchVars, approving, bulk>>

Idle == [step |-> "idle", ids |-> {}, keep |-> 0, plates |-> {}, doc |-> NoDoc]
NoBulk == [plates |-> {}, left |-> {}]
Existing == {i \in Ids : identities[i] # {}}
PlatesOf(ids) == UNION {identities[i] : i \in ids}

\* The identities become new; merges under way that read one it changes are raced.
Write(new, who) ==
    /\ identities' = new
    /\ raced' = raced \cup {m \in Actors \ {who} :
                               \E i \in merge[m].ids : new[i] # identities[i]}

(***************************************************************************)
(* Identities                                                              *)
(***************************************************************************)

\* create_identity(), and the acceptance of a suggestion of vehicle_dedup.py.
Create(ps) ==
    /\ born < MaxIds
    /\ ps # {} /\ Cardinality(ps) <= MaxFamily
    /\ born' = born + 1
    /\ identities' = [identities EXCEPT ![born'] = ps]
    /\ UNCHANGED <<mergeVars, status, batchVars, approving, bulk>>

Delete(i) ==
    /\ i \in Existing
    /\ Write([identities EXCEPT ![i] = {}], "user")
    /\ UNCHANGED <<born, merge, status, batchVars, approving, bulk>>

\* The identities that have one of the plates are read...
BulkBegin(ps) ==
    LET found == {i \in Existing : identities[i] \cap ps # {}} IN
    /\ bulk = NoBulk /\ found # {}
    /\ bulk' = [plates |-> ps, left |-> {[id |-> i, plates |-> identities[i]] : i \in found}]
    /\ UNCHANGED <<idVars, mergeVars, status, batchVars, approving>>

\* ...and one after the other written without them, or deleted.
\* Mutant: the write brings back a document that has gone.
BulkStepUpsert(e) ==
    /\ e \in bulk.left
    /\ bulk' = IF bulk.left = {e} THEN NoBulk ELSE [bulk EXCEPT !.left = @ \ {e}]
    /\ Write([identities EXCEPT ![e.id] = e.plates \ bulk.plates], "user")
    /\ UNCHANGED <<born, merge, status, batchVars, approving>>

BulkStep(e) ==
    /\ e \in bulk.left
    /\ bulk' = IF bulk.left = {e} THEN NoBulk ELSE [bulk EXCEPT !.left = @ \ {e}]
    /\ Write(IF e.id \in Existing
             THEN [identities EXCEPT ![e.id] = e.plates \ bulk.plates]
             ELSE identities, "user")
    /\ UNCHANGED <<born, merge, status, batchVars, approving>>

(***************************************************************************)
(* merge_identities()                                                      *)
(***************************************************************************)

\* The identities are all found, and few enough plates among them.
Mergeable(ids) ==
    Cardinality(ids) > 1 /\ ids \subseteq Existing /\ Cardinality(PlatesOf(ids)) <= MaxFamily

\* Mutant: the size of the family is not looked at.
MergeReadUnbounded(m, ids, doc) ==
    /\ merge[m].step = "idle" /\ Cardinality(ids) > 1 /\ ids \subseteq Existing
    /\ \E s \in ids :
          /\ \A i \in ids : s <= i
          /\ merge' = [merge EXCEPT ![m] = [step |-> "update", ids |-> ids, keep |-> s,
                                            plates |-> PlatesOf(ids), doc |-> doc]]
    /\ raced' = raced \ {m}

MergeRead(m, ids, doc) ==
    /\ merge[m].step = "idle" /\ Mergeable(ids)
    /\ \E s \in ids : \* the oldest survives
          /\ \A i \in ids : s <= i
          /\ merge' = [merge EXCEPT ![m] = [step |-> "update", ids |-> ids, keep |-> s,
                                            plates |-> PlatesOf(ids), doc |-> doc]]
    /\ raced' = raced \ {m}

\* update_one() on the survivor, which does nothing if it has gone.
MergeUpdate(m) ==
    /\ merge[m].step = "update"
    /\ merge' = [merge EXCEPT ![m].step = "delete", ![m].plates = {}]
    /\ Write(IF merge[m].keep \in Existing
             THEN [identities EXCEPT ![merge[m].keep] = merge[m].plates]
             ELSE identities, m)
    /\ UNCHANGED <<born, status, batchVars, approving, bulk>>

\* delete_many() on the others; a merge that was suggested has then to be marked.
\* Mutant: a merge that was not suggested is marked too.
MergeDeleteMarks(m) ==
    /\ merge[m].step = "delete"
    /\ merge' = [merge EXCEPT ![m] = [Idle EXCEPT !.step = "mark", !.doc = merge[m].doc]]
    /\ Write([i \in Ids |-> IF i \in merge[m].ids \ {merge[m].keep} THEN {} ELSE identities[i]], m)
    /\ UNCHANGED <<born, status, batchVars, approving, bulk>>

\* Mutant: the survivor is deleted with the others.
MergeDeleteAll(m) ==
    /\ merge[m].step = "delete"
    /\ merge' = [merge EXCEPT ![m] = IF @.doc = NoDoc THEN Idle
                                     ELSE [Idle EXCEPT !.step = "mark", !.doc = merge[m].doc]]
    /\ Write([i \in Ids |-> IF i \in merge[m].ids THEN {} ELSE identities[i]], m)
    /\ UNCHANGED <<born, status, batchVars, approving, bulk>>

MergeDelete(m) ==
    /\ merge[m].step = "delete"
    /\ merge' = [merge EXCEPT ![m] = IF @.doc = NoDoc THEN Idle
                                     ELSE [Idle EXCEPT !.step = "mark", !.doc = merge[m].doc]]
    /\ Write([i \in Ids |-> IF i \in merge[m].ids \ {merge[m].keep} THEN {} ELSE identities[i]], m)
    /\ UNCHANGED <<born, status, batchVars, approving, bulk>>

\* The suggestion becomes accepted, whatever its status has become.
Mark(m) ==
    /\ merge[m].step = "mark"
    /\ status' = [status EXCEPT ![merge[m].doc] = "accepted"]
    /\ merge' = [merge EXCEPT ![m] = Idle]
    /\ UNCHANGED <<idVars, raced, batchVars, approving, bulk>>

(***************************************************************************)
(* Suggestions                                                             *)
(***************************************************************************)

\* _find_candidates(): pairs not suggested yet, of a plausible family; their
\* distance decides which.
\* Mutant: only the suggestions that wait for a review are looked at.
BatchBeginPending(b) ==
    /\ todo[b] = {}
    /\ \E C \in SUBSET {p \in Pairs : /\ Mergeable({p[1], p[2]})
                                      /\ \A a \in Batches : status[<<p, a>>] # "pending"} :
          /\ Cardinality(C) <= MaxCandidates
          /\ todo' = [todo EXCEPT ![b] = C]
          /\ overlapped' = overlapped \cup {p \in C : \E a \in Batches : p \in todo[a]}
    /\ UNCHANGED <<idVars, mergeVars, status, approving, bulk>>

BatchBegin(b) ==
    /\ todo[b] = {}
    /\ \E C \in SUBSET {p \in Pairs : /\ Mergeable({p[1], p[2]})
                                      /\ \A a \in Batches : status[<<p, a>>] = "none"} :
          /\ Cardinality(C) <= MaxCandidates
          /\ todo' = [todo EXCEPT ![b] = C]
          /\ overlapped' = overlapped \cup {p \in C : \E a \in Batches : p \in todo[a]}
    /\ UNCHANGED <<idVars, mergeVars, status, approving, bulk>>

\* The model's answer is recorded; a comparison that fails is skipped.
Compare(b, p) ==
    /\ p \in todo[b]
    /\ todo' = [todo EXCEPT ![b] = @ \ {p}]
    /\ \/ \E v \in Verdicts : status' = [status EXCEPT ![<<p, b>>] = v]
       \/ UNCHANGED status
    /\ UNCHANGED <<idVars, mergeVars, overlapped, approving, bulk>>

\* Reading the photos is outside of the `try`: the batch ends.
BatchFails(b) ==
    /\ todo[b] # {}
    /\ todo' = [todo EXCEPT ![b] = {}]
    /\ UNCHANGED <<idVars, mergeVars, status, overlapped, approving, bulk>>

\* reject_suggestion() and accept_suggestion() look at no status.
Reject(d) ==
    /\ status[d] # "none"
    /\ status' = [status EXCEPT ![d] = "rejected"]
    /\ UNCHANGED <<idVars, mergeVars, batchVars, approving, bulk>>

Accept(r, d) ==
    /\ status[d] # "none"
    /\ MergeRead(r, {d[1][1], d[1][2]}, d)
    /\ UNCHANGED <<idVars, status, batchVars, approving, bulk>>

UserMerge(r) ==
    /\ \E ids \in SUBSET Existing : MergeRead(r, ids, NoDoc)
    /\ UNCHANGED <<idVars, status, batchVars, approving, bulk>>

\* _run_auto_approve(): the suggestions that are pending now...
ApproveBegin ==
    /\ approving = {} /\ merge["auto"] = Idle
    /\ approving' = {d \in Docs : status[d] = "pending"}
    /\ UNCHANGED <<idVars, mergeVars, status, batchVars, bulk>>

\* ...are accepted one after the other; a merge that is refused leaves its own.
ApproveNext(d) ==
    /\ d \in approving /\ merge["auto"] = Idle
    /\ approving' = approving \ {d}
    /\ IF Mergeable({d[1][1], d[1][2]})
       THEN MergeRead("auto", {d[1][1], d[1][2]}, d)
       ELSE UNCHANGED mergeVars
    /\ UNCHANGED <<idVars, status, batchVars, bulk>>

\* The backend restarts: what is in the database stays.
Restart ==
    /\ merge' = [m \in Actors |-> Idle] /\ raced' = {}
    /\ todo' = [b \in Batches |-> {}]
    /\ approving' = {} /\ bulk' = NoBulk
    /\ UNCHANGED <<idVars, status, overlapped>>

(***************************************************************************)
(* Specification                                                           *)
(***************************************************************************)

Init ==
    /\ born = 0 /\ identities = [i \in Ids |-> {}]
    /\ merge = [m \in Actors |-> Idle] /\ raced = {}
    /\ status = [d \in Docs |-> "none"]
    /\ todo = [b \in Batches |-> {}] /\ overlapped = {}
    /\ approving = {} /\ bulk = NoBulk

Merges(m) == MergeUpdate(m) \/ MergeDelete(m) \/ Mark(m)
Reviews(d) == Reject(d) \/ ApproveNext(d) \/ \E r \in Requests : Accept(r, d)
Batch(b) == BatchBegin(b) \/ BatchFails(b) \/ \E p \in Pairs : Compare(b, p)

Next == \/ \E ps \in SUBSET Plates : Create(ps) \/ BulkBegin(ps)
        \/ \E i \in Ids : Delete(i)
        \/ \E e \in bulk.left : BulkStep(e)
        \/ \E m \in Actors : Merges(m)
        \/ \E r \in Requests : UserMerge(r)
        \/ \E d \in Docs : Reviews(d)
        \/ \E b \in Batches : Batch(b)
        \/ ApproveBegin \/ Restart

Spec == Init /\ [][Next]_vars

(***************************************************************************)
(* Properties                                                              *)
(***************************************************************************)

\* Every variable has its type.
MergeTypes ==
    /\ merge \in [Actors -> [step : {"idle", "update", "delete", "mark"}, ids : SUBSET Ids,
                             keep : 0..MaxIds, plates : SUBSET Plates, doc : Docs \cup {NoDoc}]]
    /\ \A m \in Actors : merge[m].step = "mark" => merge[m].doc # NoDoc
    /\ raced \subseteq Actors
TypeOK ==
    /\ born \in 0..MaxIds /\ identities \in [Ids -> SUBSET Plates]
    /\ MergeTypes
    /\ status \in [Docs -> Verdicts \cup {"none", "rejected", "accepted"}]
    /\ todo \in [Batches -> SUBSET Pairs] /\ overlapped \subseteq Pairs
    /\ approving \subseteq Docs
    /\ bulk \in [plates : SUBSET Plates, left : SUBSET [id : Ids, plates : SUBSET Plates]]

\* No identity grows beyond a plausible family, whatever merges follow each other
\* and however stale what they read (vehicles.py:636, identity_merge_ai.py:131).
FamilyBounded == \A i \in Ids : Cardinality(identities[i]) <= MaxFamily

\* An accepted suggestion has been applied: the younger identity has gone for good.
AcceptedIsMerged ==
    \A d \in Docs : status[d] = "accepted" => identities[d[1][2]] = {} /\ d[1][2] <= born

\* A pair is compared again only if two batches had listed it at once
\* (identity_merge_ai.py:327: "jamais redemandee le lendemain").
ComparedOnce ==
    \A p \in Pairs : \A a, b \in Batches :
        status[<<p, a>>] # "none" /\ status[<<p, b>>] # "none" => a = b \/ p \in overlapped

\* A plate that no identity names any more was deleted by a request that names it
\* or its identity, or lost by a writer whose reading was stale: a merge loses
\* none otherwise, even if it stops between its two writes.
Named(p) == \E i \in Ids : p \in identities[i]
Losing(p) ==
    \/ \E i \in Ids : Delete(i) /\ p \in identities[i]
    \/ \E e \in bulk.left : /\ BulkStep(e)
                            /\ p \in bulk.plates \/ identities[e.id] # e.plates
    \/ \E m \in raced : Merges(m)
PlatesKept == [][\A p \in Plates : Named(p) /\ ~Named(p)' => Losing(p)]_vars
================================================================================
