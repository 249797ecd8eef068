-------------------------- MODULE IdentityMergeProofs --------------------------
(***************************************************************************)
(* Proofs about IdentityMerge for any plates, any number of identities, of *)
(* requests and of batches: types, size of the families, acceptance,       *)
(* comparisons, and the plates that a merge may lose.                      *)
(***************************************************************************)
EXTENDS IdentityMerge, FiniteSetTheorems, TLAPS

\* What is about to be written is a plausible family; identities are created in order.
Bounded ==
    /\ \A i \in Ids : i > born => identities[i] = {}
    /\ \A m \in Actors : merge[m].step = "update" => Cardinality(merge[m].plates) <= MaxFamily
    /\ \A e \in bulk.left : Cardinality(e.plates) <= MaxFamily

\* A merge that is not raced: what it read, then what it wrote, covers its identities.
PlanCurrent ==
    \A m \in Actors \ raced :
        /\ merge[m].step = "update" =>
              \A i \in merge[m].ids : identities[i] # {} /\ identities[i] \subseteq merge[m].plates
        /\ merge[m].step = "delete" =>
              \A i \in merge[m].ids : identities[i] \subseteq identities[merge[m].keep]

\* A merge keeps one of its identities, the older one of a suggestion; before a
\* suggestion is marked, the younger one has gone.
PlanOf(m) ==
    /\ merge[m].step \in {"update", "delete"} =>
          /\ merge[m].ids \subseteq 1..born /\ merge[m].keep \in merge[m].ids
          /\ merge[m].doc # NoDoc => /\ merge[m].ids = {merge[m].doc[1][1], merge[m].doc[1][2]}
                                     /\ merge[m].keep = merge[m].doc[1][1]
    /\ merge[m].step = "mark" => /\ identities[merge[m].doc[1][2]] = {}
                                 /\ merge[m].doc[1][2] <= born
PlanFollowed == \A m \in Actors : PlanOf(m)

\* A batch has recorded nothing of what it has yet to compare; what another has
\* recorded or has to compare too is overlapped.
Listed ==
    \A b \in Batches : \A p \in todo[b] :
        /\ status[<<p, b>>] = "none"
        /\ \A a \in Batches \ {b} : status[<<p, a>>] # "none" \/ p \in todo[a] => p \in overlapped

\* What is under review has been recorded.
Reviewed ==
    /\ \A d \in approving : status[d] # "none"
    /\ \A m \in Actors : merge[m].doc # NoDoc => status[merge[m].doc] # "none"

\* The inductive invariant.
Core == /\ TypeOK /\ FamilyBounded /\ Bounded /\ PlanCurrent /\ PlanFollowed
        /\ AcceptedIsMerged /\ Listed /\ ComparedOnce
IInv == Core /\ Reviewed

LEMMA Initial == Init => IInv
<1>. SUFFICES ASSUME Init PROVE IInv
  OBVIOUS
<1>1. TypeOK
  BY IdentityAssumption DEF Init, TypeOK, MergeTypes, Idle, NoBulk
<1>2. FamilyBounded /\ Bounded
  BY FS_EmptySet, IdentityAssumption DEF Init, FamilyBounded, Bounded, Idle, NoBulk
<1>3. PlanCurrent /\ PlanFollowed
  BY DEF Init, PlanCurrent, PlanFollowed, PlanOf, Idle
<1>4. AcceptedIsMerged /\ ComparedOnce
  BY DEF Init, AcceptedIsMerged, ComparedOnce, Docs
<1>5. Listed
  BY DEF Init, Listed
<1>6. Reviewed
  BY DEF Init, Reviewed, Idle
<1>. QED BY <1>1, <1>2, <1>3, <1>4, <1>5, <1>6 DEF IInv, Core, Core

(***************************************************************************)
(* What the steps have in common                                           *)
(***************************************************************************)

\* A merge begins: m has read ids.
LEMMA ReadStep ==
  ASSUME IInv, NEW m \in Actors, NEW ids \in SUBSET Ids, NEW doc \in Docs \cup {NoDoc},
         doc # NoDoc => ids = {doc[1][1], doc[1][2]},
         MergeRead(m, ids, doc), UNCHANGED <<born, identities>>
  PROVE  MergeTypes' /\ PlanCurrent' /\ PlanFollowed'
         /\ \A a \in Actors : merge'[a].step = "update" =>
                Cardinality(merge'[a].plates) <= MaxFamily
<1>. USE DEF IInv, Core
<1>1. PICK s \in ids :
         /\ \A i \in ids : s <= i
         /\ merge' = [merge EXCEPT ![m] = [step |-> "update", ids |-> ids, keep |-> s,
                                           plates |-> PlatesOf(ids), doc |-> doc]]
  BY DEF MergeRead
<1>. DEFINE r == [step |-> "update", ids |-> ids, keep |-> s, plates |-> PlatesOf(ids), doc |-> doc]
<1>2. merge'[m] = r /\ \A a \in Actors \ {m} : merge'[a] = merge[a]
  BY <1>1 DEF TypeOK, MergeTypes
<1>3. PlatesOf(ids) \in SUBSET Plates /\ Cardinality(PlatesOf(ids)) <= MaxFamily
  BY DEF MergeRead, Mergeable, PlatesOf, TypeOK
<1>4. MergeTypes'
  <2>1. r \in [step : {"idle", "update", "delete", "mark"}, ids : SUBSET Ids,
               keep : 0..MaxIds, plates : SUBSET Plates, doc : Docs \cup {NoDoc}]
    BY <1>3, IdentityAssumption DEF Ids
  <2>. QED BY <1>1, <1>2, <2>1 DEF MergeTypes, TypeOK, MergeRead
<1>5. ids \subseteq Existing
  BY DEF MergeRead, Mergeable
<1>6. PlanCurrent'
  <2>1. raced' = raced \ {m}
    BY DEF MergeRead
  <2>2. \A i \in ids : identities[i] # {} /\ identities[i] \subseteq PlatesOf(ids)
    BY <1>5 DEF Existing, PlatesOf
  <2>. QED BY <1>2, <2>1, <2>2 DEF PlanCurrent
<1>7. PlanFollowed'
  <2>1. ids \subseteq 1..born
    BY <1>5, IdentityAssumption DEF Existing, Bounded, Ids, TypeOK
  <2>2. doc # NoDoc => s = doc[1][1]
    <3>. SUFFICES ASSUME doc # NoDoc PROVE s = doc[1][1]
      OBVIOUS
    <3>1. doc[1][1] < doc[1][2] /\ doc[1][1] \in Nat /\ doc[1][2] \in Nat
      BY DEF Docs, Pairs, Ids
    <3>. QED BY <1>1, <3>1
  <2>3. r.step = "update" /\ r.ids = ids /\ r.keep = s /\ r.doc = doc
    OBVIOUS
  <2>4. UNCHANGED <<born, identities>>
    OBVIOUS
  <2>. HIDE DEF r
  <2>5. \A a \in Actors \ {m} : merge'[a] = merge[a]
    BY <1>2
  <2>6. merge'[m] = r
    BY <1>2
  <2>. SUFFICES ASSUME NEW a \in Actors
                PROVE  PlanOf(a)'
    BY DEF PlanFollowed
  <2>7. CASE a = m
    BY <2>1, <2>2, <2>3, <2>4, <2>6, <2>7 DEF PlanOf
  <2>8. CASE a # m
    <3>1. PlanOf(a)
      BY DEF PlanFollowed
    <3>. QED BY <2>4, <2>5, <2>8, <3>1 DEF PlanOf
  <2>. QED BY <2>7, <2>8
<1>8. \A a \in Actors : merge'[a].step = "update" => Cardinality(merge'[a].plates) <= MaxFamily
  BY <1>2, <1>3 DEF Bounded
<1>. QED BY <1>4, <1>6, <1>7, <1>8

\* A write leaves the plans of the others as true as they were, or has them raced;
\* an identity that has gone stays so.
LEMMA WriteStep ==
  ASSUME IInv, NEW who \in Actors \cup {"user"}, NEW new \in [Ids -> SUBSET Plates],
         Write(new, who), born' = born,
         \A a \in Actors \ {who} : merge'[a] = merge[a],
         \A i \in Ids : identities[i] = {} => new[i] = {}
  PROVE  /\ identities' = new /\ raced' \subseteq Actors
         /\ \A a \in Actors \ (raced' \cup {who}) :
               /\ merge'[a].step = "update" =>
                     \A i \in merge'[a].ids : /\ identities'[i] # {}
                                              /\ identities'[i] \subseteq merge'[a].plates
               /\ merge'[a].step = "delete" =>
                     \A i \in merge'[a].ids : identities'[i] \subseteq identities'[merge'[a].keep]
         /\ \A a \in Actors \ {who} : merge'[a].step = "mark" =>
               identities'[merge'[a].doc[1][2]] = {}
         /\ \A d \in Docs : status[d] = "accepted" => identities'[d[1][2]] = {}
         /\ \A i \in Ids : i > born' => identities'[i] = {}
<1>. USE DEF IInv, Core
<1>1. identities' = new /\ raced' \subseteq Actors
  BY DEF Write, TypeOK, MergeTypes
<1>2. \A d \in Docs : d[1][2] \in Ids
  BY DEF Docs, Pairs
<1>3. \A i \in Ids : i > born' => identities'[i] = {}
  BY <1>1 DEF Bounded
<1>4. \A d \in Docs : status[d] = "accepted" => identities'[d[1][2]] = {}
  BY <1>1, <1>2 DEF AcceptedIsMerged
<1>5. ASSUME NEW a \in Actors \ {who}, merge'[a].step = "mark"
      PROVE  identities'[merge'[a].doc[1][2]] = {}
  <2>1. merge[a].doc \in Docs
    BY <1>5 DEF TypeOK, MergeTypes
  <2>. QED BY <1>1, <1>2, <1>5, <2>1 DEF PlanFollowed, PlanOf
<1>6. ASSUME NEW a \in Actors \ (raced' \cup {who})
      PROVE  /\ merge'[a] = merge[a] /\ a \notin raced
             /\ \A i \in merge[a].ids : identities'[i] = identities[i]
  BY <1>1, <1>6 DEF Write
<1>7. ASSUME NEW a \in Actors \ (raced' \cup {who}), merge'[a].step = "delete"
      PROVE  \A i \in merge'[a].ids : identities'[i] \subseteq identities'[merge'[a].keep]
  <2>1. merge[a].keep \in merge[a].ids
    BY <1>6, <1>7 DEF PlanFollowed, PlanOf
  <2>. QED BY <1>6, <1>7, <2>1 DEF PlanCurrent
<1>8. ASSUME NEW a \in Actors \ (raced' \cup {who}), merge'[a].step = "update"
      PROVE  \A i \in merge'[a].ids : /\ identities'[i] # {}
                                      /\ identities'[i] \subseteq merge'[a].plates
  BY <1>6, <1>8 DEF PlanCurrent
<1>. QED BY <1>1, <1>3, <1>4, <1>5, <1>7, <1>8

(***************************************************************************)
(* The steps                                                               *)
(***************************************************************************)

\* The invariant is that of three groups of variables.
IdInv == /\ born \in 0..MaxIds /\ identities \in [Ids -> SUBSET Plates] /\ MergeTypes
         /\ FamilyBounded /\ Bounded /\ PlanCurrent /\ PlanFollowed
BatchInv == /\ todo \in [Batches -> SUBSET Pairs] /\ overlapped \subseteq Pairs
            /\ status \in [Docs -> Verdicts \cup {"none", "rejected", "accepted"}]
            /\ Listed /\ ComparedOnce
OtherTypes == /\ approving \subseteq Docs
              /\ bulk \in [plates : SUBSET Plates, left : SUBSET [id : Ids, plates : SUBSET Plates]]

LEMMA Groups == IdInv' /\ BatchInv' /\ OtherTypes' /\ AcceptedIsMerged' => Core'
BY DEF IInv, Core, IdInv, BatchInv, OtherTypes, TypeOK

\* What is not disturbed.
LEMMA IdFrame == IInv /\ UNCHANGED <<idVars, mergeVars, bulk>> => IdInv'
<1>. SUFFICES ASSUME IInv, UNCHANGED <<idVars, mergeVars, bulk>> PROVE IdInv'
  OBVIOUS
<1>1. UNCHANGED <<born, identities, merge, raced, bulk>>
  BY DEF idVars, mergeVars
<1>2. (born \in 0..MaxIds)' /\ (identities \in [Ids -> SUBSET Plates])' /\ MergeTypes'
  BY <1>1 DEF IInv, Core, TypeOK, MergeTypes
<1>3. FamilyBounded' /\ Bounded'
  BY <1>1 DEF IInv, Core, FamilyBounded, Bounded
<1>4. PlanCurrent'
  BY <1>1 DEF IInv, Core, PlanCurrent
<1>5. PlanFollowed'
  BY <1>1 DEF IInv, Core, PlanFollowed, PlanOf
<1>. QED BY <1>2, <1>3, <1>4, <1>5 DEF IdInv
LEMMA BatchFrame == IInv /\ UNCHANGED <<status, batchVars>> => BatchInv'
BY DEF IInv, Core, BatchInv, TypeOK, Listed, ComparedOnce, batchVars
LEMMA OtherFrame == IInv /\ UNCHANGED <<approving, bulk>> => OtherTypes'
BY DEF IInv, Core, OtherTypes, TypeOK
LEMMA AcceptedFrame == IInv /\ UNCHANGED <<idVars, status>> => AcceptedIsMerged'
BY DEF IInv, Core, AcceptedIsMerged, idVars

LEMMA CreateStep ==
  ASSUME IInv, NEW ps \in SUBSET Plates, Create(ps)
  PROVE  Core'
<1>. USE DEF IInv, Core
<1>1. /\ born + 1 \in Ids /\ born' = born + 1 /\ identities[born + 1] = {}
      /\ identities' = [identities EXCEPT ![born + 1] = ps]
  BY IdentityAssumption DEF Create, TypeOK, Ids, Bounded
<1>2. UNCHANGED <<merge, raced, status, todo, overlapped, approving, bulk>>
  BY DEF Create, mergeVars, batchVars
<1>3. BatchInv' /\ OtherTypes'
  BY <1>2, BatchFrame, OtherFrame DEF batchVars
<1>4. born' \in 0..MaxIds /\ identities' \in [Ids -> SUBSET Plates] /\ MergeTypes'
  BY <1>1, <1>2 DEF TypeOK, MergeTypes, Ids
<1>5. FamilyBounded'
  BY <1>1 DEF FamilyBounded, Create, TypeOK
<1>6. Bounded'
  BY <1>1, <1>2 DEF Bounded, TypeOK, Ids
<1>7. \A i \in 1..born : i \in Ids /\ identities'[i] = identities[i]
  BY <1>1, IdentityAssumption DEF TypeOK, Ids
<1>8. PlanCurrent'
  <2>. SUFFICES ASSUME NEW m \in Actors \ raced, merge[m].step \in {"update", "delete"}
                PROVE  /\ merge[m].step = "update" =>
                             \A i \in merge[m].ids : identities'[i] # {} /\ identities'[i] \subseteq merge[m].plates
                       /\ merge[m].step = "delete" =>
                             \A i \in merge[m].ids : identities'[i] \subseteq identities'[merge[m].keep]
    BY <1>2 DEF PlanCurrent
  <2>1. merge[m].ids \subseteq 1..born /\ merge[m].keep \in merge[m].ids
    BY DEF PlanFollowed, PlanOf
  <2>. QED BY <1>7, <2>1 DEF PlanCurrent
<1>9. PlanFollowed' /\ AcceptedIsMerged'
  <2>1. \A d \in Docs : d[1][2] \in Ids
    BY DEF Docs, Pairs
  <2>2. \A i \in Ids : i <= born => i \in 1..born
    BY DEF Ids, TypeOK
  <2>3. AcceptedIsMerged'
    BY <1>1, <1>2, <1>7, <2>1, <2>2 DEF AcceptedIsMerged, TypeOK, Ids
  <2>4. \A m \in Actors : merge[m].step = "mark" => merge[m].doc \in Docs
    BY DEF TypeOK, MergeTypes
  <2>5. ASSUME NEW m \in Actors, merge[m].step \in {"update", "delete"}
        PROVE  merge[m].ids \subseteq 1..born'
    BY <1>1, <2>5 DEF PlanFollowed, PlanOf, TypeOK
  <2>6. ASSUME NEW m \in Actors, merge[m].step = "mark"
        PROVE  identities'[merge[m].doc[1][2]] = {} /\ merge[m].doc[1][2] <= born'
    BY <1>1, <1>7, <2>1, <2>2, <2>4, <2>6 DEF PlanFollowed, PlanOf, TypeOK, Ids
  <2>7. PlanFollowed'
    BY <1>2, <2>5, <2>6 DEF PlanFollowed, PlanOf
  <2>. QED BY <2>3, <2>7
<1>. QED BY <1>3, <1>4, <1>5, <1>6, <1>8, <1>9, Groups DEF IdInv

\* A write that is no merge's: delete_identity(), or a step of the bulk deletion.
LEMMA UserWrite ==
  ASSUME IInv, NEW new \in [Ids -> SUBSET Plates], Write(new, "user"),
         UNCHANGED <<born, merge, status, batchVars, approving>>,
         OtherTypes', bulk'.left \subseteq bulk.left,
         \A i \in Ids : identities[i] = {} => new[i] = {},
         \A i \in Ids : Cardinality(new[i]) <= MaxFamily
  PROVE  Core'
<1>. USE DEF IInv, Core
<1>0. /\ identities' = new /\ raced' \subseteq Actors
      /\ \A a \in Actors \ raced' :
            /\ merge'[a].step = "update" =>
                  \A i \in merge'[a].ids : /\ identities'[i] # {}
                                           /\ identities'[i] \subseteq merge'[a].plates
            /\ merge'[a].step = "delete" =>
                  \A i \in merge'[a].ids : identities'[i] \subseteq identities'[merge'[a].keep]
      /\ \A a \in Actors : merge'[a].step = "mark" => identities'[merge'[a].doc[1][2]] = {}
      /\ \A d \in Docs : status[d] = "accepted" => identities'[d[1][2]] = {}
      /\ \A i \in Ids : i > born' => identities'[i] = {}
  <2>1. "user" \notin Actors
    BY IdentityAssumption DEF Actors
  <2>. QED BY <2>1, WriteStep
<1>1. BatchInv'
  BY BatchFrame
<1>2. AcceptedIsMerged'
  BY <1>0 DEF AcceptedIsMerged
<1>3. PlanCurrent'
  BY <1>0 DEF PlanCurrent
<1>4. PlanFollowed'
  BY <1>0 DEF PlanFollowed, PlanOf
<1>5. Bounded'
  BY <1>0 DEF Bounded
<1>6. FamilyBounded' /\ MergeTypes'
  BY <1>0 DEF FamilyBounded, MergeTypes, TypeOK
<1>7. born' \in 0..MaxIds /\ identities' \in [Ids -> SUBSET Plates]
  BY <1>0 DEF TypeOK
<1>. QED BY <1>1, <1>2, <1>3, <1>4, <1>5, <1>6, <1>7, Groups DEF IdInv

LEMMA DeleteStep ==
  ASSUME IInv, NEW i \in Ids, Delete(i)
  PROVE  Core'
<1>. DEFINE new == [identities EXCEPT ![i] = {}]
<1>1. new \in [Ids -> SUBSET Plates] /\ \A j \in Ids : identities[j] = {} => new[j] = {}
  BY DEF IInv, Core, TypeOK
<1>2. \A j \in Ids : Cardinality(new[j]) <= MaxFamily
  BY FS_EmptySet, IdentityAssumption DEF IInv, Core, TypeOK, FamilyBounded
<1>3. OtherTypes' /\ bulk' = bulk
  BY OtherFrame DEF Delete
<1>4. Write(new, "user") /\ UNCHANGED <<born, merge, status, batchVars, approving>>
  BY DEF Delete
<1>. HIDE DEF new
<1>. QED BY <1>1, <1>2, <1>3, <1>4, UserWrite

LEMMA BulkWriteStep ==
  ASSUME IInv, NEW e \in bulk.left, BulkStep(e)
  PROVE  Core'
<1>. USE DEF IInv, Core
<1>. DEFINE new == IF e.id \in Existing
                   THEN [identities EXCEPT ![e.id] = e.plates \ bulk.plates]
                   ELSE identities
<1>1. e.id \in Ids /\ e.plates \in SUBSET Plates /\ Cardinality(e.plates) <= MaxFamily
  BY DEF TypeOK, Bounded
<1>2. new \in [Ids -> SUBSET Plates] /\ \A j \in Ids : identities[j] = {} => new[j] = {}
  BY <1>1 DEF TypeOK, Existing
<1>3. Cardinality(e.plates \ bulk.plates) <= MaxFamily
  <2>1. IsFiniteSet(e.plates)
    BY <1>1, FS_Subset, IdentityAssumption
  <2>2. /\ IsFiniteSet(e.plates \ bulk.plates)
        /\ Cardinality(e.plates \ bulk.plates) <= Cardinality(e.plates)
    BY <2>1, FS_Subset
  <2>. QED BY <1>1, <2>1, <2>2, FS_CardinalityType, IdentityAssumption
<1>4. \A j \in Ids : Cardinality(new[j]) <= MaxFamily
  BY <1>1, <1>3 DEF TypeOK, FamilyBounded
<1>5. OtherTypes' /\ bulk'.left \subseteq bulk.left
  <2>1. CASE bulk' = NoBulk
    BY <2>1 DEF BulkStep, OtherTypes, TypeOK, NoBulk
  <2>2. CASE bulk' = [bulk EXCEPT !.left = @ \ {e}]
    BY <2>2 DEF BulkStep, OtherTypes, TypeOK
  <2>. QED BY <2>1, <2>2 DEF BulkStep
<1>6. Write(new, "user") /\ UNCHANGED <<born, merge, status, batchVars, approving>>
  BY DEF BulkStep
<1>. HIDE DEF new
<1>. QED BY <1>2, <1>4, <1>5, <1>6, UserWrite

LEMMA BulkBeginStep ==
  ASSUME IInv, NEW ps \in SUBSET Plates, BulkBegin(ps)
  PROVE  Core'
<1>. USE DEF IInv, Core
<1>1. PICK found \in SUBSET Ids :
         bulk' = [plates |-> ps, left |-> {[id |-> i, plates |-> identities[i]] : i \in found}]
  BY DEF BulkBegin, Existing
<1>2. UNCHANGED <<idVars, mergeVars, status, batchVars, approving>>
  BY DEF BulkBegin
<1>3. OtherTypes'
  BY <1>1, <1>2 DEF OtherTypes, TypeOK
<1>4. Bounded'
  BY <1>1, <1>2 DEF Bounded, FamilyBounded, idVars, mergeVars
<1>5. IdInv'
  BY <1>2, <1>4 DEF IdInv, TypeOK, MergeTypes, FamilyBounded, PlanCurrent, PlanFollowed, PlanOf,
     idVars, mergeVars
<1>. QED BY <1>2, <1>3, <1>5, BatchFrame, AcceptedFrame, Groups

\* A merge writes: it is the rest of the invariant that depends on what.
LEMMA MergeWrite ==
  ASSUME IInv, NEW m \in Actors, NEW new \in [Ids -> SUBSET Plates], Write(new, m),
         UNCHANGED <<born, status, batchVars, approving, bulk>>,
         \A a \in Actors \ {m} : merge'[a] = merge[a],
         \A i \in Ids : identities[i] = {} => new[i] = {},
         \A i \in Ids : Cardinality(new[i]) <= MaxFamily,
         MergeTypes', merge'[m].step # "update", PlanOf(m)',
         m \notin raced' /\ merge'[m].step = "delete" =>
            \A i \in merge'[m].ids : new[i] \subseteq new[merge'[m].keep]
  PROVE  Core'
<1>. USE DEF IInv, Core
<1>0. /\ identities' = new
      /\ \A a \in Actors \ (raced' \cup {m}) :
            /\ merge'[a].step = "update" =>
                  \A i \in merge'[a].ids : /\ identities'[i] # {}
                                           /\ identities'[i] \subseteq merge'[a].plates
            /\ merge'[a].step = "delete" =>
                  \A i \in merge'[a].ids : identities'[i] \subseteq identities'[merge'[a].keep]
      /\ \A a \in Actors \ {m} : merge'[a].step = "mark" =>
            identities'[merge'[a].doc[1][2]] = {}
      /\ \A d \in Docs : status[d] = "accepted" => identities'[d[1][2]] = {}
      /\ \A i \in Ids : i > born' => identities'[i] = {}
  BY WriteStep
<1>1. BatchInv' /\ OtherTypes'
  BY BatchFrame, OtherFrame
<1>2. AcceptedIsMerged'
  BY <1>0 DEF AcceptedIsMerged
<1>3. PlanCurrent'
  BY <1>0 DEF PlanCurrent
<1>4. PlanFollowed'
  <2>. SUFFICES ASSUME NEW a \in Actors \ {m} PROVE PlanOf(a)'
    BY DEF PlanFollowed
  <2>1. PlanOf(a)
    BY DEF PlanFollowed
  <2>. QED BY <1>0, <2>1 DEF PlanOf
<1>5. Bounded'
  BY <1>0 DEF Bounded
<1>6. FamilyBounded'
  BY <1>0 DEF FamilyBounded
<1>7. born' \in 0..MaxIds /\ identities' \in [Ids -> SUBSET Plates]
  BY <1>0 DEF TypeOK
<1>. QED BY <1>1, <1>2, <1>3, <1>4, <1>5, <1>6, <1>7, Groups DEF IdInv

LEMMA MergeUpdateStep ==
  ASSUME IInv, NEW m \in Actors, MergeUpdate(m)
  PROVE  Core'
<1>. USE DEF IInv, Core
<1>. DEFINE new == IF merge[m].keep \in Existing
                   THEN [identities EXCEPT ![merge[m].keep] = merge[m].plates]
                   ELSE identities
<1>1. /\ merge[m].step = "update" /\ Write(new, m)
      /\ UNCHANGED <<born, status, batchVars, approving, bulk>>
      /\ merge' = [merge EXCEPT ![m].step = "delete", ![m].plates = {}]
  BY DEF MergeUpdate
<1>2. /\ merge'[m].step = "delete" /\ merge'[m].ids = merge[m].ids
      /\ merge'[m].keep = merge[m].keep /\ merge'[m].doc = merge[m].doc
      /\ \A a \in Actors \ {m} : merge'[a] = merge[a]
  BY <1>1 DEF TypeOK, MergeTypes
<1>3. /\ merge[m].plates \in SUBSET Plates /\ Cardinality(merge[m].plates) <= MaxFamily
      /\ merge[m].ids \in SUBSET Ids /\ merge[m].keep \in merge[m].ids
  BY <1>1 DEF TypeOK, MergeTypes, Bounded, PlanFollowed, PlanOf
<1>4. /\ new \in [Ids -> SUBSET Plates]
      /\ \A i \in Ids : identities[i] = {} => new[i] = {}
      /\ \A i \in Ids : Cardinality(new[i]) <= MaxFamily
  BY <1>3 DEF TypeOK, Existing, FamilyBounded
<1>5. MergeTypes'
  <2>1. merge'[m] \in [step : {"idle", "update", "delete", "mark"}, ids : SUBSET Ids,
                       keep : 0..MaxIds, plates : SUBSET Plates, doc : Docs \cup {NoDoc}]
    BY <1>1 DEF TypeOK, MergeTypes
  <2>2. raced' \subseteq Actors
    BY <1>1 DEF Write, TypeOK, MergeTypes
  <2>. QED BY <1>1, <1>2, <2>1, <2>2 DEF MergeTypes, TypeOK
<1>6. PlanOf(m)'
  BY <1>1, <1>2 DEF PlanFollowed, PlanOf
<1>7. m \notin raced' => \A i \in merge'[m].ids : new[i] \subseteq new[merge'[m].keep]
  <2>. SUFFICES ASSUME m \notin raced'
                PROVE  \A i \in merge[m].ids : new[i] \subseteq new[merge[m].keep]
    BY <1>2
  <2>1. m \notin raced
    BY <1>1 DEF Write
  <2>2. \A i \in merge[m].ids : identities[i] # {} /\ identities[i] \subseteq merge[m].plates
    BY <1>1, <2>1 DEF PlanCurrent
  <2>3. new = [identities EXCEPT ![merge[m].keep] = merge[m].plates]
    BY <1>3, <2>2 DEF Existing
  <2>. QED BY <1>3, <2>2, <2>3 DEF TypeOK
<1>. HIDE DEF new
<1>. QED BY <1>1, <1>2, <1>4, <1>5, <1>6, <1>7, MergeWrite

LEMMA MergeDeleteStep ==
  ASSUME IInv, NEW m \in Actors, MergeDelete(m)
  PROVE  Core'
<1>. USE DEF IInv, Core
<1>. DEFINE new == [i \in Ids |-> IF i \in merge[m].ids \ {merge[m].keep} THEN {} ELSE identities[i]]
<1>. DEFINE next == IF merge[m].doc = NoDoc THEN Idle
                    ELSE [Idle EXCEPT !.step = "mark", !.doc = merge[m].doc]
<1>1. /\ merge[m].step = "delete" /\ Write(new, m)
      /\ UNCHANGED <<born, status, batchVars, approving, bulk>>
      /\ merge' = [merge EXCEPT ![m] = next]
  BY DEF MergeDelete, TypeOK, MergeTypes
<1>2. merge'[m] = next /\ \A a \in Actors \ {m} : merge'[a] = merge[a]
  BY <1>1 DEF TypeOK, MergeTypes
<1>3. next = Idle \/ /\ next.step = "mark" /\ next.doc = merge[m].doc /\ merge[m].doc # NoDoc
                     /\ next = [step |-> "mark", ids |-> {}, keep |-> 0, plates |-> {},
                                doc |-> merge[m].doc]
  BY DEF Idle
<1>4. /\ new \in [Ids -> SUBSET Plates]
      /\ \A i \in Ids : identities[i] = {} => new[i] = {}
      /\ \A i \in Ids : Cardinality(new[i]) <= MaxFamily
  BY FS_EmptySet, IdentityAssumption DEF TypeOK, FamilyBounded
<1>5. MergeTypes'
  <2>1. merge[m].doc \in Docs \cup {NoDoc}
    BY DEF TypeOK, MergeTypes
  <2>2. next \in [step : {"idle", "update", "delete", "mark"}, ids : SUBSET Ids,
                  keep : 0..MaxIds, plates : SUBSET Plates, doc : Docs \cup {NoDoc}]
    BY <1>3, <2>1, IdentityAssumption DEF Idle
  <2>3. raced' \subseteq Actors
    BY <1>1 DEF Write, TypeOK, MergeTypes
  <2>4. next.step = "mark" => next.doc # NoDoc
    BY <1>3 DEF Idle
  <2>. HIDE DEF next
  <2>. QED BY <1>1, <1>2, <2>2, <2>3, <2>4 DEF MergeTypes, TypeOK
<1>6. PlanOf(m)'
  <2>1. CASE next = Idle
    <3>0. Idle.step = "idle"
      BY DEF Idle
    <3>. HIDE DEF next
    <3>1. merge'[m].step = "idle"
      BY <1>2, <2>1, <3>0
    <3>. QED BY <3>1 DEF PlanOf
  <2>2. CASE next # Idle
    <3>1. merge'[m].step = "mark" /\ merge'[m].doc = merge[m].doc /\ merge[m].doc # NoDoc
      BY <1>2, <1>3, <2>2
    <3>2. merge[m].doc \in Docs
      BY <3>1 DEF TypeOK, MergeTypes
    <3>3. /\ merge[m].doc[1][1] < merge[m].doc[1][2]
          /\ merge[m].doc[1][1] \in Ids /\ merge[m].doc[1][2] \in Ids
      BY <3>2 DEF Docs, Pairs
    <3>4. /\ merge[m].ids = {merge[m].doc[1][1], merge[m].doc[1][2]}
          /\ merge[m].keep = merge[m].doc[1][1] /\ merge[m].ids \subseteq 1..born
      BY <1>1, <3>1 DEF PlanFollowed, PlanOf
    <3>5. identities'[merge[m].doc[1][2]] = {}
      <4>1. identities' = new
        BY <1>1 DEF Write
      <4>2. merge[m].doc[1][2] \in merge[m].ids \ {merge[m].keep}
        BY <3>3, <3>4 DEF Ids
      <4>. QED BY <3>3, <4>1, <4>2
    <3>6. merge[m].doc[1][2] <= born'
      BY <1>1, <3>4 DEF TypeOK
    <3>. QED BY <3>1, <3>5, <3>6 DEF PlanOf
  <2>. QED BY <2>1, <2>2
<1>7. merge'[m].step \notin {"update", "delete"}
  BY <1>2, <1>3 DEF Idle
<1>. HIDE DEF new, next
<1>. QED BY <1>1, <1>2, <1>4, <1>5, <1>6, <1>7, MergeWrite

\* A merge is marked, or a merge begins: no identity changes.
LEMMA MarkStep ==
  ASSUME IInv, NEW m \in Actors, Mark(m)
  PROVE  Core'
<1>. USE DEF IInv, Core
<1>1. /\ merge[m].step = "mark" /\ merge[m].doc \in Docs
      /\ identities[merge[m].doc[1][2]] = {} /\ merge[m].doc[1][2] <= born
  BY DEF Mark, TypeOK, MergeTypes, PlanFollowed, PlanOf
<1>2. /\ status' = [status EXCEPT ![merge[m].doc] = "accepted"]
      /\ merge'[m] = Idle /\ \A a \in Actors \ {m} : merge'[a] = merge[a]
      /\ merge' = [merge EXCEPT ![m] = Idle]
      /\ UNCHANGED <<born, identities, raced, todo, overlapped, approving, bulk>>
  BY DEF Mark, TypeOK, MergeTypes, idVars, batchVars
<1>3. AcceptedIsMerged'
  BY <1>1, <1>2 DEF AcceptedIsMerged, TypeOK
<1>4. MergeTypes'
  BY <1>2, IdentityAssumption DEF MergeTypes, TypeOK, Idle
<1>5. PlanCurrent' /\ Bounded'
  BY <1>2 DEF PlanCurrent, Bounded, Idle
<1>6. PlanFollowed'
  <2>. SUFFICES ASSUME NEW a \in Actors PROVE PlanOf(a)'
    BY DEF PlanFollowed
  <2>1. CASE a = m BY <1>2, <2>1 DEF PlanOf, Idle
  <2>2. CASE a # m
    <3>1. PlanOf(a)
      BY DEF PlanFollowed
    <3>. QED BY <1>2, <2>2, <3>1 DEF PlanOf
  <2>. QED BY <2>1, <2>2
<1>7. BatchInv'
  <2>1. \A d \in Docs : (status'[d] = "none") = (status[d] = "none")
    <3>1. status[merge[m].doc] # "none"
      BY <1>1 DEF TypeOK, MergeTypes, Reviewed
    <3>. QED BY <1>2, <3>1 DEF TypeOK
  <2>2. status' \in [Docs -> Verdicts \cup {"none", "rejected", "accepted"}]
    BY <1>2 DEF TypeOK
  <2>. QED BY <1>2, <2>1, <2>2 DEF BatchInv, Listed, ComparedOnce, TypeOK, Docs
<1>8. OtherTypes'
  BY <1>2, OtherFrame
<1>9. FamilyBounded' /\ born' \in 0..MaxIds /\ identities' \in [Ids -> SUBSET Plates]
  BY <1>2 DEF FamilyBounded, TypeOK
<1>. QED BY <1>3, <1>4, <1>5, <1>6, <1>7, <1>8, <1>9, Groups DEF IdInv

\* A merge begins for a request, or for a suggestion that somebody accepts.
LEMMA ReadCore ==
  ASSUME IInv, MergeTypes', PlanCurrent', PlanFollowed',
         \A a \in Actors : merge'[a].step = "update" => Cardinality(merge'[a].plates) <= MaxFamily,
         UNCHANGED <<idVars, status, batchVars, bulk>>, approving' \subseteq approving
  PROVE  Core'
<1>1. UNCHANGED <<born, identities>>
  BY DEF idVars
<1>2. IdInv'
  BY <1>1 DEF IInv, Core, IdInv, TypeOK, FamilyBounded, Bounded
<1>3. OtherTypes'
  BY DEF IInv, Core, OtherTypes, TypeOK
<1>. QED BY <1>2, <1>3, BatchFrame, AcceptedFrame, Groups

LEMMA BeginStep ==
  ASSUME IInv,
         \/ \E r \in Requests : UserMerge(r)
         \/ \E d \in Docs : ApproveNext(d) \/ \E r \in Requests : Accept(r, d)
  PROVE  Core'
<1>. USE DEF Actors
<1>0. /\ UNCHANGED <<idVars, status, batchVars, bulk>> /\ approving' \subseteq approving
      /\ UNCHANGED <<born, identities>>
  BY DEF UserMerge, Accept, ApproveNext, idVars
<1>1. ASSUME NEW r \in Requests, UserMerge(r) PROVE Core'
  <2>1. PICK ids \in SUBSET Existing : MergeRead(r, ids, NoDoc)
    BY <1>1 DEF UserMerge
  <2>2. ids \in SUBSET Ids
    BY DEF Existing
  <2>. QED BY <1>0, <2>1, <2>2, ReadStep, ReadCore
<1>2. \A d \in Docs : {d[1][1], d[1][2]} \in SUBSET Ids
  BY DEF Docs, Pairs
<1>3. ASSUME NEW d \in Docs, NEW r \in Requests, Accept(r, d) PROVE Core'
  <2>1. MergeRead(r, {d[1][1], d[1][2]}, d)
    BY <1>3 DEF Accept
  <2>. QED BY <1>0, <1>2, <2>1, ReadStep, ReadCore
<1>4. ASSUME NEW d \in Docs, ApproveNext(d) PROVE Core'
  <2>1. CASE MergeRead("auto", {d[1][1], d[1][2]}, d)
    BY <1>0, <1>2, <2>1, ReadStep, ReadCore
  <2>2. CASE UNCHANGED mergeVars
    <3>1. IdInv'
      BY <1>0, <2>2, IdFrame
    <3>2. OtherTypes'
      BY <1>0 DEF IInv, Core, OtherTypes, TypeOK
    <3>. QED BY <1>0, <3>1, <3>2, BatchFrame, AcceptedFrame, Groups
  <2>. QED BY <1>4, <2>1, <2>2 DEF ApproveNext
<1>. QED BY <1>1, <1>3, <1>4

\* The steps of a batch.
LEMMA BatchStep ==
  ASSUME IInv, NEW b \in Batches, Batch(b)
  PROVE  Core'
<1>. USE DEF IInv, Core
<1>0. UNCHANGED <<idVars, mergeVars, approving, bulk>>
  BY DEF Batch, BatchBegin, BatchFails, Compare
<1>1. IdInv' /\ OtherTypes'
  BY <1>0, IdFrame, OtherFrame
<1>2. CASE BatchBegin(b)
  <2>1. PICK C \in SUBSET {p \in Pairs : /\ Mergeable({p[1], p[2]})
                                         /\ \A a \in Batches : status[<<p, a>>] = "none"} :
           /\ todo' = [todo EXCEPT ![b] = C]
           /\ overlapped' = overlapped \cup {p \in C : \E a \in Batches : p \in todo[a]}
    BY <1>2 DEF BatchBegin
  <2>2. status' = status /\ C \subseteq Pairs /\ \A p \in C, a \in Batches : status[<<p, a>>] = "none"
    BY <1>2, <2>1 DEF BatchBegin
  <2>3. todo' \in [Batches -> SUBSET Pairs] /\ overlapped' \subseteq Pairs
    BY <2>1, <2>2 DEF TypeOK
  <2>4. Listed'
    <3>. SUFFICES ASSUME NEW c \in Batches, NEW q \in todo'[c]
                  PROVE  /\ status'[<<q, c>>] = "none"
                         /\ \A a \in Batches \ {c} :
                               status'[<<q, a>>] # "none" \/ q \in todo'[a] => q \in overlapped'
      BY DEF Listed
    <3>1. CASE c = b
      <4>1. q \in C
        BY <2>1, <3>1 DEF TypeOK
      <4>2. \A a \in Batches \ {c} : todo'[a] = todo[a]
        BY <2>1, <3>1 DEF TypeOK
      <4>. QED BY <2>1, <2>2, <3>1, <4>1, <4>2
    <3>2. CASE c # b
      <4>1. q \in todo[c]
        BY <2>1, <3>2 DEF TypeOK
      <4>2. todo'[b] = C /\ \A a \in Batches \ {b} : todo'[a] = todo[a]
        BY <2>1 DEF TypeOK
      <4>. QED BY <2>1, <2>2, <4>1, <4>2 DEF Listed
    <3>. QED BY <3>1, <3>2
  <2>5. ComparedOnce'
    BY <2>1, <2>2 DEF ComparedOnce
  <2>6. AcceptedIsMerged'
    BY <1>0, <2>2, AcceptedFrame
  <2>. QED BY <1>1, <2>2, <2>3, <2>4, <2>5, <2>6, Groups DEF BatchInv, TypeOK
<1>3. CASE BatchFails(b)
  <2>1. /\ todo' = [todo EXCEPT ![b] = {}] /\ UNCHANGED <<status, overlapped>>
    BY <1>3 DEF BatchFails
  <2>2. BatchInv'
    BY <2>1 DEF BatchInv, Listed, ComparedOnce, TypeOK
  <2>. QED BY <1>0, <1>1, <2>1, <2>2, AcceptedFrame, Groups
<1>4. ASSUME NEW p \in Pairs, Compare(b, p) PROVE Core'
  <2>1. /\ p \in todo[b] /\ todo' = [todo EXCEPT ![b] = @ \ {p}] /\ overlapped' = overlapped
        /\ <<p, b>> \in Docs
    BY <1>4 DEF Compare, Docs
  <2>2. PICK v \in Verdicts \cup {"none"} : status' = [status EXCEPT ![<<p, b>>] = v]
    <3>1. status[<<p, b>>] = "none"
      BY <2>1 DEF Listed
    <3>2. CASE UNCHANGED status
      BY <2>1, <3>1, <3>2 DEF TypeOK
    <3>3. CASE \E v \in Verdicts : status' = [status EXCEPT ![<<p, b>>] = v]
      BY <3>3
    <3>. QED BY <1>4, <3>2, <3>3 DEF Compare
  <2>3. /\ \A q \in Pairs, a \in Batches :
              status'[<<q, a>>] = IF q = p /\ a = b THEN v ELSE status[<<q, a>>]
        /\ status' \in [Docs -> Verdicts \cup {"none", "rejected", "accepted"}]
    BY <2>1, <2>2 DEF TypeOK, Docs
  <2>4. v # "accepted"
    BY DEF Verdicts
  <2>5. AcceptedIsMerged'
    <3>1. \A d \in Docs : status'[d] = "accepted" => status[d] = "accepted"
      BY <2>2, <2>4 DEF TypeOK
    <3>. QED BY <1>0, <3>1 DEF AcceptedIsMerged, idVars
  <2>6. todo' \in [Batches -> SUBSET Pairs]
    BY <2>1 DEF TypeOK
  <2>7. Listed'
    <3>. SUFFICES ASSUME NEW c \in Batches, NEW q \in todo'[c]
                  PROVE  /\ status'[<<q, c>>] = "none"
                         /\ \A a \in Batches \ {c} :
                               status'[<<q, a>>] # "none" \/ q \in todo'[a] => q \in overlapped
      BY <2>1 DEF Listed
    <3>1. q \in todo[c] /\ q \in Pairs /\ ~(q = p /\ c = b)
      BY <2>1 DEF TypeOK
    <3>2. \A a \in Batches : q \in todo'[a] => q \in todo[a]
      BY <2>1 DEF TypeOK
    <3>. QED BY <2>1, <2>3, <3>1, <3>2 DEF Listed
  <2>8. ComparedOnce'
    BY <2>1, <2>3 DEF ComparedOnce, Listed
  <2>. QED BY <1>1, <2>1, <2>3, <2>5, <2>6, <2>7, <2>8, Groups DEF BatchInv, TypeOK
<1>. QED BY <1>2, <1>3, <1>4 DEF Batch

LEMMA RejectStep ==
  ASSUME IInv, NEW d \in Docs, Reject(d)
  PROVE  Core'
<1>. USE DEF IInv, Core
<1>1. /\ status[d] # "none" /\ status' = [status EXCEPT ![d] = "rejected"]
      /\ UNCHANGED <<idVars, mergeVars, batchVars, approving, bulk>>
  BY DEF Reject
<1>2. /\ status' \in [Docs -> Verdicts \cup {"none", "rejected", "accepted"}]
      /\ \A c \in Docs : status'[c] = "none" <=> status[c] = "none"
      /\ \A c \in Docs : status'[c] = "accepted" => status[c] = "accepted"
  BY <1>1 DEF TypeOK
<1>3. BatchInv'
  BY <1>1, <1>2 DEF BatchInv, Listed, ComparedOnce, TypeOK, batchVars, Docs
<1>4. AcceptedIsMerged'
  BY <1>1, <1>2 DEF AcceptedIsMerged, idVars
<1>. QED BY <1>1, <1>3, <1>4, IdFrame, OtherFrame, Groups

LEMMA ApproveBeginStep ==
  ASSUME IInv, ApproveBegin
  PROVE  Core'
<1>1. UNCHANGED <<idVars, mergeVars, status, batchVars, bulk>> /\ approving' \subseteq Docs
  BY DEF ApproveBegin
<1>2. OtherTypes'
  BY <1>1 DEF IInv, Core, OtherTypes, TypeOK
<1>. QED BY <1>1, <1>2, IdFrame, BatchFrame, AcceptedFrame, Groups

LEMMA RestartStep ==
  ASSUME IInv, Restart
  PROVE  Core'
<1>. USE DEF IInv, Core
<1>1. /\ \A m \in Actors : merge'[m] = Idle /\ merge'[m].step = "idle"
      /\ raced' = {} /\ UNCHANGED <<born, identities, status, overlapped>>
      /\ todo' = [b \in Batches |-> {}] /\ approving' = {} /\ bulk' = NoBulk
  BY DEF Restart, Idle, idVars
<1>2. MergeTypes'
  BY <1>1, IdentityAssumption DEF Restart, MergeTypes, Idle
<1>3. FamilyBounded' /\ Bounded' /\ PlanCurrent'
  BY <1>1 DEF FamilyBounded, Bounded, PlanCurrent, NoBulk
<1>4. PlanFollowed'
  BY <1>1 DEF PlanFollowed, PlanOf
<1>5. IdInv'
  BY <1>1, <1>2, <1>3, <1>4 DEF IdInv, TypeOK
<1>6. OtherTypes'
  BY <1>1 DEF OtherTypes, NoBulk
<1>7. BatchInv' /\ AcceptedIsMerged'
  BY <1>1 DEF BatchInv, Listed, ComparedOnce, AcceptedIsMerged, TypeOK
<1>. QED BY <1>5, <1>6, <1>7, Groups

LEMMA CoreStep == IInv /\ [Next]_vars => Core'
<1>. SUFFICES ASSUME IInv, [Next]_vars PROVE Core'
  OBVIOUS
<1>1. ASSUME NEW m \in Actors, Merges(m) PROVE Core'
  BY <1>1, MergeUpdateStep, MergeDeleteStep, MarkStep DEF Merges
<1>2. ASSUME NEW d \in Docs, Reviews(d) PROVE Core'
  BY <1>2, RejectStep, BeginStep DEF Reviews
<1>3. CASE UNCHANGED vars
  <2>1. UNCHANGED <<idVars, mergeVars, status, batchVars, approving, bulk>>
    BY <1>3 DEF vars
  <2>. QED BY <2>1, IdFrame, BatchFrame, OtherFrame, AcceptedFrame, Groups
<1>. QED
  BY <1>1, <1>2, <1>3, CreateStep, BulkBeginStep, DeleteStep, BulkWriteStep, BeginStep,
     BatchStep, ApproveBeginStep, RestartStep DEF Next

\* No document loses its verdict, and only recorded ones come under review.
LEMMA ReviewedStep == IInv /\ [Next]_vars => Reviewed'
<1>. SUFFICES ASSUME IInv, [Next]_vars PROVE Reviewed'
  OBVIOUS
<1>. USE DEF IInv, Core
<1>0. ASSUME \A d \in Docs : status'[d] = "none" => status[d] = "none",
             approving' \subseteq approving,
             \A m \in Actors : merge'[m].doc \in {merge[m].doc, NoDoc}
      PROVE  Reviewed'
  BY <1>0 DEF Reviewed, TypeOK, MergeTypes
<1>1. ASSUME NEW m \in Actors, NEW ids, NEW doc \in Docs \cup {NoDoc}, MergeRead(m, ids, doc),
             doc # NoDoc => status[doc] # "none",
             status' = status, approving' \subseteq approving
      PROVE  Reviewed'
  <2>1. merge'[m].doc = doc /\ \A a \in Actors \ {m} : merge'[a] = merge[a]
    BY <1>1 DEF MergeRead, TypeOK, MergeTypes
  <2>. QED BY <1>1, <2>1 DEF Reviewed
<1>2. ASSUME NEW m \in Actors, Merges(m) PROVE Reviewed'
  <2>1. \A d \in Docs : status'[d] = "none" => status[d] = "none"
    BY <1>2 DEF Merges, MergeUpdate, MergeDelete, Mark, TypeOK
  <2>2. approving' = approving
    BY <1>2 DEF Merges, MergeUpdate, MergeDelete, Mark
  <2>3. \A a \in Actors : merge'[a].doc \in {merge[a].doc, NoDoc}
    <3>1. CASE MergeUpdate(m)
      BY <3>1 DEF MergeUpdate, TypeOK, MergeTypes
    <3>2. CASE MergeDelete(m)
      <4>1. \A a \in Actors \ {m} : merge'[a] = merge[a]
        BY <3>2 DEF MergeDelete, TypeOK, MergeTypes
      <4>2. merge'[m] = IF merge[m].doc = NoDoc THEN Idle
                        ELSE [Idle EXCEPT !.step = "mark", !.doc = merge[m].doc]
        BY <3>2 DEF MergeDelete, TypeOK, MergeTypes
      <4>3. Idle.doc = NoDoc /\ \A d : [Idle EXCEPT !.step = "mark", !.doc = d].doc = d
        BY DEF Idle
      <4>4. merge'[m].doc \in {merge[m].doc, NoDoc}
        BY <4>2, <4>3
      <4>. QED BY <4>1, <4>4
    <3>3. CASE Mark(m)
      BY <3>3 DEF Mark, TypeOK, MergeTypes, Idle
    <3>. QED BY <1>2, <3>1, <3>2, <3>3 DEF Merges
  <2>. QED BY <1>0, <2>1, <2>2, <2>3
<1>3. ASSUME NEW d \in Docs, Reviews(d) PROVE Reviewed'
  <2>1. CASE Reject(d)
    <3>1. \A c \in Docs : status'[c] = "none" => status[c] = "none"
      BY <2>1 DEF Reject, TypeOK
    <3>. QED BY <1>0, <2>1, <3>1 DEF Reject, mergeVars
  <2>2. ASSUME NEW r \in Requests, Accept(r, d) PROVE Reviewed'
    BY <1>1, <2>2 DEF Accept, Actors
  <2>3. CASE ApproveNext(d)
    <3>1. status[d] # "none" /\ approving' \subseteq approving /\ status' = status
      BY <2>3 DEF ApproveNext, Reviewed
    <3>2. CASE MergeRead("auto", {d[1][1], d[1][2]}, d)
      BY <1>1, <3>1, <3>2 DEF Actors
    <3>3. CASE UNCHANGED mergeVars
      BY <1>0, <3>1, <3>3 DEF mergeVars
    <3>. QED BY <2>3, <3>2, <3>3 DEF ApproveNext
  <2>. QED BY <1>3, <2>1, <2>2, <2>3 DEF Reviews
<1>4. ASSUME NEW r \in Requests, UserMerge(r) PROVE Reviewed'
  BY <1>1, <1>4 DEF UserMerge, Actors
<1>5. ASSUME NEW b \in Batches, Batch(b) PROVE Reviewed'
  <2>1. \A d \in Docs : status'[d] = "none" => status[d] = "none"
    BY <1>5 DEF Batch, BatchBegin, BatchFails, Compare, Listed, TypeOK, Verdicts
  <2>. QED BY <1>0, <1>5, <2>1 DEF Batch, BatchBegin, BatchFails, Compare, mergeVars
<1>6. CASE ApproveBegin
  BY <1>6 DEF ApproveBegin, Reviewed, mergeVars
<1>7. CASE Restart
  BY <1>0, <1>7 DEF Restart, Idle
<1>8. ASSUME \/ \E ps \in SUBSET Plates : Create(ps) \/ BulkBegin(ps)
             \/ \E i \in Ids : Delete(i)
             \/ \E e \in bulk.left : BulkStep(e)
             \/ UNCHANGED vars
      PROVE  Reviewed'
  <2>1. UNCHANGED <<merge, status, approving>>
    BY <1>8 DEF Create, BulkBegin, Delete, BulkStep, vars, mergeVars
  <2>. QED BY <1>0, <2>1
<1>. QED BY <1>2, <1>3, <1>4, <1>5, <1>6, <1>7, <1>8 DEF Next

LEMMA Invariant == Spec => []IInv
<1>1. IInv /\ [Next]_vars => IInv'
  BY CoreStep, ReviewedStep DEF IInv
<1>. QED BY <1>1, Initial, PTL DEF Spec

(***************************************************************************)
(* The theorems                                                            *)
(***************************************************************************)

\* Every variable keeps its type.
THEOREM Types == Spec => []TypeOK
<1>1. IInv => TypeOK
  BY DEF IInv, Core
<1>. QED BY <1>1, Invariant, PTL

\* No sequence of creations, merges and deletions makes a family implausible
\* (vehicles.py:639).
THEOREM FamilyHolds == Spec => []FamilyBounded
<1>1. IInv => FamilyBounded
  BY DEF IInv, Core
<1>. QED BY <1>1, Invariant, PTL

\* A suggestion is accepted only once its merge is done (identity_merge_ai.py:389).
THEOREM AcceptedHolds == Spec => []AcceptedIsMerged
<1>1. IInv => AcceptedIsMerged
  BY DEF IInv, Core
<1>. QED BY <1>1, Invariant, PTL

\* Only batches that overlap compare a pair twice (identity_merge_ai.py:123).
THEOREM ComparedHolds == Spec => []ComparedOnce
<1>1. IInv => ComparedOnce
  BY DEF IInv, Core
<1>. QED BY <1>1, Invariant, PTL

\* Only a deletion, or a writer whose reading was stale, takes the last identity
\* of a plate (vehicles.py:654).
THEOREM PlatesHold == Spec => PlatesKept
<1>. DEFINE Kept == \A p \in Plates : Named(p) /\ ~Named(p)' => Losing(p)
<1>1. ASSUME IInv, [Next]_vars PROVE Kept
  <2>. USE <1>1 DEF IInv, Core
  <2>. SUFFICES ASSUME NEW p \in Plates, NEW j \in Ids, p \in identities[j],
                       \A i \in Ids : p \notin identities'[i]
                PROVE  Losing(p)
    BY DEF Named
  <2>1. ASSUME NEW ps \in SUBSET Plates, Create(ps) PROVE FALSE
    <3>1. born + 1 \in Ids /\ identities[born + 1] = {}
      BY <2>1, IdentityAssumption DEF Create, TypeOK, Ids, Bounded
    <3>. QED BY <2>1, <3>1 DEF Create, TypeOK
  <2>2. ASSUME NEW i \in Ids, Delete(i) PROVE Losing(p)
    BY <2>2 DEF Delete, Write, Losing, TypeOK
  <2>3. ASSUME NEW e \in bulk.left, BulkStep(e) PROVE Losing(p)
    <3>1. e.id \in Ids
      BY DEF TypeOK
    <3>2. p \in identities[e.id] /\ p \notin e.plates \ bulk.plates
      BY <2>3, <3>1 DEF BulkStep, Write, Existing, TypeOK
    <3>. QED BY <2>3, <3>2 DEF Losing
  <2>4. ASSUME NEW m \in Actors \ raced, Merges(m) PROVE FALSE
    <3>1. CASE MergeUpdate(m)
      <4>1. merge[m].step = "update" /\ merge[m].keep \in merge[m].ids /\ merge[m].keep \in Ids
        BY <3>1 DEF MergeUpdate, PlanFollowed, PlanOf, TypeOK, MergeTypes
      <4>2. identities[merge[m].keep] \subseteq merge[m].plates
        BY <4>1 DEF PlanCurrent
      <4>. QED BY <3>1, <4>1, <4>2 DEF MergeUpdate, Write, TypeOK
    <3>2. CASE MergeDelete(m)
      <4>1. merge[m].step = "delete" /\ merge[m].keep \in merge[m].ids /\ merge[m].keep \in Ids
        BY <3>2 DEF MergeDelete, PlanFollowed, PlanOf, TypeOK, MergeTypes
      <4>2. \A i \in merge[m].ids : identities[i] \subseteq identities[merge[m].keep]
        BY <4>1 DEF PlanCurrent
      <4>. QED BY <3>2, <4>1, <4>2 DEF MergeDelete, Write, TypeOK
    <3>3. CASE Mark(m)
      BY <3>3 DEF Mark, idVars
    <3>. QED BY <2>4, <3>1, <3>2, <3>3 DEF Merges
  <2>5. ASSUME UNCHANGED identities PROVE FALSE
    BY <2>5
  <2>6. ASSUME NEW m \in Actors, Merges(m) PROVE Losing(p)
    BY <2>4, <2>6 DEF Losing
  <2>7. ASSUME \/ \E ps \in SUBSET Plates : BulkBegin(ps)
               \/ \E r \in Requests : UserMerge(r)
               \/ \E d \in Docs : Reviews(d)
               \/ \E b \in Batches : Batch(b)
               \/ ApproveBegin \/ Restart \/ UNCHANGED vars
        PROVE  UNCHANGED identities
    BY <2>7 DEF BulkBegin, UserMerge, Reviews, Reject, ApproveNext, Accept, Batch, BatchBegin,
       BatchFails, Compare, ApproveBegin, Restart, vars, idVars
  <2>. QED BY <2>1, <2>2, <2>3, <2>5, <2>6, <2>7 DEF Next
<1>2. IInv /\ [Next]_vars => [Kept]_vars
  BY <1>1
<1>. QED BY <1>2, Invariant, PTL DEF Spec, PlatesKept
================================================================================
