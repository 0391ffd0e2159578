----------------------------- MODULE EntityMerge -----------------------------
(***************************************************************************)
(* Entities, their claims and the merging of entities                      *)
(* (backend/internal/knowledge/claim.go and entity_merge.go): claims are    *)
(* created, superseded, published, rejected and deprecated while entities   *)
(* are merged into one another, merges are rolled back and entities         *)
(* deleted by the rollback of their creation.                              *)
(*                                                                         *)
(* Every operation is one READ COMMITTED transaction.  A transaction that   *)
(* reads before it can be made to wait is several steps, with its row locks *)
(* held in between: a claim's target is read without a lock, the published  *)
(* claims are counted next, and the insert then waits for a FOR UPDATE lock *)
(* on the target, which its foreign key refers to; a merge selects the      *)
(* current claims under locks on both entities and waits for the claims'    *)
(* own locks, after which FOR UPDATE drops the ones that are no longer      *)
(* current but finds no new ones, counts, and then waits for the entities   *)
(* the copies refer to.  The other transactions take their locks and commit *)
(* in one step.  Values, sources, verification, ranks, types, wikis and     *)
(* events are left out; of the labels, which of them is primary.           *)
(***************************************************************************)
EXTENDS Integers, FiniteSets, Functions

CONSTANTS
    Entities, Properties, Labels, Writers,
    SingleValued,  \* the properties with is_multivalued = false
    Created,       \* the entities created by a governance batch
    Claims,        \* claim ids; model bound: the claims there ever are
    Merges,        \* merge ids; model bound: the merges there ever are
    None           \* no entity, no claim

ASSUME EntityMergeAssumption ==
    /\ None \notin Entities \cup Claims
    /\ SingleValued \subseteq Properties
    /\ Created \subseteq Entities

VARIABLES
    entity,     \* status and merged_into_entity_id of each entity
    labels,     \* entity_label rows, as the labels of each entity
    claim,      \* claim rows; status "none" is an id not used yet
    merge,      \* entity_merge rows with their claim and label maps
    writer      \* the transaction of each writer

vars == <<entity, labels, claim, merge, writer>>

Current == {c \in Claims : claim[c].status \in {"proposed", "published"}}
Published == {c \in Claims : claim[c].status = "published"}
Fresh == {c \in Claims : claim[c].status = "none"}
Unused == {m \in Merges : merge[m].status = "none"}
Applied == {m \in Merges : merge[m].status = "applied"}
Active(e) == entity[e].status = "active"

Statuses == {"none", "proposed", "published", "rejected", "deprecated", "superseded"}
Statement ==
    [status : {"proposed", "published"}, subject : Entities, property : Properties,
     target : Entities \cup {None}]
Mapping == [old : Claims, new : Claims, status : {"proposed", "published"}]

NoClaim == [status |-> "none", subject |-> None, property |-> None, target |-> None]
NoMerge == [status |-> "none", source |-> None, target |-> None, copied |-> {}, claims |-> {}]
Idle == [op |-> "idle", claim |-> NoClaim, old |-> None,
         source |-> None, target |-> None, copied |-> {}, claims |-> {}]

Doing(w, op) == writer[w].op = op

(* ids.New(): of the ids not used yet, it does not matter which is taken.   *)
NewClaim == CHOOSE c \in Fresh : TRUE
NewIds(C) == CHOOSE f \in Injection(C, Fresh) : TRUE
NewMerge == CHOOSE m \in Unused : TRUE

Init ==
    /\ entity = [e \in Entities |-> [status |-> "active", into |-> None]]
    /\ labels \in [Entities -> SUBSET Labels]
    /\ claim = [c \in Claims |-> NoClaim]
    /\ merge = [m \in Merges |-> NoMerge]
    /\ writer = [w \in Writers |-> Idle]

-----------------------------------------------------------------------------
(* Row locks (GetEntityByIDForUpdate, GetClaimByIDForUpdate).              *)

MergeLocks(w) == {writer[w].source, writer[w].target}  \* mutation

EntityLocks(w) == {writer[w].claim.subject, writer[w].source, writer[w].target}
ClaimLocks(w) == {writer[w].old} \cup (IF Doing(w, "migrate") THEN writer[w].claims ELSE {})

Unlocked(e) == \A w \in Writers : e \notin EntityLocks(w)
ClaimUnlocked(c) == \A w \in Writers : c \notin ClaimLocks(w)

ReadActive(e) == Active(e)                             \* mutation

(* lockActiveEntity *)
Lockable(e) == Active(e) /\ Unlocked(e)

(* The foreign key check of an insert (FOR KEY SHARE) need not wait.        *)
Referable(w, e) == e = None \/ \A v \in Writers \ {w} : e \notin EntityLocks(v)

-----------------------------------------------------------------------------
(* Claims.                                                                 *)

(* CountPublishedClaims > 0 for a property with one value.                 *)
Taken(e, p) ==
    /\ p \in SingleValued
    /\ \E c \in Published : claim[c].subject = e /\ claim[c].property = p

(* prepareClaim, up to the count: the subject is locked, the target only    *)
(* read.  old is the claim superseded, None when the claim is created;     *)
(* superseding skips the count, as does a property with many values.       *)
Prepare(w, s, old) ==
    /\ Doing(w, "idle")
    /\ Lockable(s.subject)
    /\ s.target # None => s.target # s.subject /\ Active(s.target)
    /\ writer' = [writer EXCEPT ![w] =
                    [Idle EXCEPT !.op = IF old = None /\ s.property \in SingleValued
                                        THEN "count" ELSE "write",
                                 !.claim = s, !.old = old]]
    /\ UNCHANGED <<entity, labels, claim, merge>>

CreateClaim(w) == \E s \in Statement : Prepare(w, s, None)

(* SupersedeClaim: the claim is locked before its subject.                 *)
SupersedeClaim(w) ==
    \E c \in Published, s \in Statement :
        /\ ClaimUnlocked(c)
        /\ s.subject = claim[c].subject /\ s.property = claim[c].property
        /\ Prepare(w, s, c)

(* The count at the end of prepareClaim.                                   *)
CountClaims(w) ==
    /\ Doing(w, "count")
    /\ ~Taken(writer[w].claim.subject, writer[w].claim.property)
    /\ writer' = [writer EXCEPT ![w].op = "write"]
    /\ UNCHANGED <<entity, labels, claim, merge>>

(* InsertClaim, which waits for whoever has locked the target, and          *)
(* SetClaimSuperseded.                                                     *)
WriteClaim(w) ==
    LET t == writer[w] IN
    /\ Doing(w, "write")
    /\ Referable(w, t.claim.target)
    /\ Fresh # {}
    /\ claim' = [c \in Claims |->
                   IF c = NewClaim THEN t.claim
                   ELSE IF c = t.old THEN [claim[c] EXCEPT !.status = "superseded"]
                   ELSE claim[c]]
    /\ writer' = [writer EXCEPT ![w] = Idle]
    /\ UNCHANGED <<entity, labels, merge>>

(* transitionClaim *)
SetStatus(c, status) ==
    /\ ClaimUnlocked(c)
    /\ claim' = [claim EXCEPT ![c].status = status]
    /\ UNCHANGED <<entity, labels, merge, writer>>

PublishClaim(c) ==
    /\ claim[c].status = "proposed"
    /\ claim[c].property \in SingleValued =>
          /\ Lockable(claim[c].subject)
          /\ ~Taken(claim[c].subject, claim[c].property)
    /\ SetStatus(c, "published")

RejectClaim(c) == claim[c].status = "proposed" /\ SetStatus(c, "rejected")

DeprecateClaim(c) == claim[c].status = "published" /\ SetStatus(c, "deprecated")

-----------------------------------------------------------------------------
(* Entities.                                                               *)

(* AddLabel and RemoveLabel, of labels that are not the last primary one.  *)
Relabel(e, l) ==
    /\ Lockable(e)
    /\ labels' = [labels EXCEPT ![e] = IF l \in @ THEN @ \ {l} ELSE @ \cup {l}]
    /\ UNCHANGED <<entity, claim, merge, writer>>

AsSubject(c, e) == claim[c].subject = e                \* mutation

Mentions(c, e) == e \in {claim[c].subject, claim[c].target}

(* SoftDeleteCreatedEntityByBatch, without its check of updated_at: any of   *)
(* these without current claims and applied merges may be deleted.         *)
DeleteEntity(e) ==
    /\ e \in Created /\ Lockable(e)
    /\ \A c \in Current : ~Mentions(c, e)
    /\ \A m \in Applied : e \notin {merge[m].source, merge[m].target}
    /\ entity' = [entity EXCEPT ![e].status = "deleted"]
    /\ UNCHANGED <<labels, claim, merge, writer>>

-----------------------------------------------------------------------------
(* Merging.                                                                *)

(* MergeEntityInTx, up to the locks on the claims: both entities are locked *)
(* and active, the labels the target lacks are copied, and the current      *)
(* claims of the source are selected.                                      *)
LockForMerge(w, s, t) ==
    /\ Doing(w, "idle")
    /\ s # t /\ Lockable(s) /\ Lockable(t)
    /\ writer' = [writer EXCEPT ![w] =
                    [Idle EXCEPT !.op = "merge", !.source = s, !.target = t,
                                 !.copied = labels[s] \ labels[t],
                                 !.claims = {c \in Current : Mentions(c, s)}]]
    /\ UNCHANGED <<entity, labels, claim, merge>>

(* No claim would refer to itself, nor would the target have two published  *)
(* values of a property with one.                                          *)
Migratable(C, s, t) ==
    /\ \A c \in C : ~Mentions(c, t)
    /\ \A c \in C \cap Published :
          claim[c].subject = s => ~Taken(t, claim[c].property)

Moved(e, s, t) == IF e = s THEN t ELSE e

(* mergeOldClaimStatus *)
Compensated(status) == IF status = "published" THEN "deprecated" ELSE "rejected"

(* A claim moved from s to t by a merge is written under a new id.         *)
Copied(c, s, t) ==
    [claim[c] EXCEPT !.subject = Moved(@, s, t), !.target = Moved(@, s, t)]

(* listCurrentClaimsForMerge's answer, and the counts of migrateMergeClaims. *)
LockClaims(w) ==
    LET C == writer[w].claims \cap Current IN
    /\ Doing(w, "merge")
    /\ \A c \in C : ClaimUnlocked(c)
    /\ Migratable(C, writer[w].source, writer[w].target)
    /\ writer' = [writer EXCEPT ![w].op = "migrate", ![w].claims = C]
    /\ UNCHANGED <<entity, labels, claim, merge>>

(* The inserts and updates of migrateMergeClaims, and markEntityMerged: the  *)
(* inserts wait for whoever has locked an entity they refer to.            *)
MergeEntity(w) ==
    LET s == writer[w].source
        t == writer[w].target
        C == writer[w].claims
        id == NewIds(C)
    IN
    /\ Doing(w, "migrate")
    /\ \A c \in C : Referable(w, claim[c].subject) /\ Referable(w, claim[c].target)
    /\ Unused # {} /\ Injection(C, Fresh) # {}
    /\ merge' = [merge EXCEPT ![NewMerge] =
                    [status |-> "applied", source |-> s, target |-> t,
                     copied |-> writer[w].copied,
                     claims |-> {[old |-> c, new |-> id[c], status |-> claim[c].status] :
                                 c \in C}]]
    /\ claim' = [x \in Claims |->
                   IF x \in C THEN [claim[x] EXCEPT !.status = Compensated(@)]
                   ELSE IF x \in Range(id) THEN Copied(CHOOSE c \in C : id[c] = x, s, t)
                   ELSE claim[x]]
    /\ entity' = [entity EXCEPT ![s] = [status |-> "merged", into |-> t]]
    /\ labels' = [labels EXCEPT ![t] = @ \cup writer[w].copied]
    /\ writer' = [writer EXCEPT ![w] = Idle]

OldAsMigrated(x) ==                                    \* mutation
    claim[x.old].status = Compensated(x.status)

(* The claims of the merge are as it left them.                            *)
AsMigrated(x) ==
    /\ claim[x.old].status = Compensated(x.status)
    /\ claim[x.new].status = x.status

(* RollbackEntityMergeInTx *)
RollbackEntityMerge(m) ==
    LET s == merge[m].source
        t == merge[m].target
        X == merge[m].claims
    IN
    /\ merge[m].status = "applied"
    /\ entity[s] = [status |-> "merged", into |-> t] /\ Unlocked(s)
    /\ \A x \in X : ClaimUnlocked(x.old) /\ ClaimUnlocked(x.new) /\ AsMigrated(x)
    /\ merge[m].copied \subseteq labels[t]
    /\ merge' = [merge EXCEPT ![m].status = "rolled_back"]
    /\ entity' = [entity EXCEPT ![s] = [status |-> "active", into |-> None]]
    /\ claim' = [c \in Claims |->
                   IF \E x \in X : x.new = c
                   THEN [claim[c] EXCEPT !.status = Compensated(@)]
                   ELSE IF \E x \in X : x.old = c
                   THEN [claim[c] EXCEPT !.status = (CHOOSE x \in X : x.old = c).status]
                   ELSE claim[c]]
    /\ labels' = [labels EXCEPT ![t] = @ \ merge[m].copied]
    /\ UNCHANGED writer

(* A refused check, an error, a cancelled request or a deadlock.           *)
Abort(w) ==
    /\ ~Doing(w, "idle")
    /\ writer' = [writer EXCEPT ![w] = Idle]
    /\ UNCHANGED <<entity, labels, claim, merge>>

-----------------------------------------------------------------------------
Next ==
    \/ \E w \in Writers :
          \/ CreateClaim(w) \/ SupersedeClaim(w) \/ CountClaims(w) \/ WriteClaim(w)
          \/ \E s, t \in Entities : LockForMerge(w, s, t)
          \/ LockClaims(w) \/ MergeEntity(w) \/ Abort(w)
    \/ \E c \in Claims : PublishClaim(c) \/ RejectClaim(c) \/ DeprecateClaim(c)
    \/ \E e \in Entities : DeleteEntity(e) \/ \E l \in Labels : Relabel(e, l)
    \/ \E m \in Merges : RollbackEntityMerge(m)

Spec == Init /\ [][Next]_vars

(* The behaviours of one transaction at a time: while it is at work nothing *)
(* else is.                                                                *)
OneAtATime == \A v, w \in Writers : Doing(v, "idle") \/ Doing(w, "idle") \/ v = w

Alone == (\E w \in Writers : ~Doing(w, "idle")) => writer' # writer

SerialSpec == Init /\ [][Next /\ OneAtATime' /\ Alone]_vars

-----------------------------------------------------------------------------
(* Properties.                                                             *)

(* The rows and the transactions have the fields they are declared with.   *)
TypeOK ==
    /\ entity \in [Entities -> [status : {"active", "merged", "deleted"},
                                into : Entities \cup {None}]]
    /\ labels \in [Entities -> SUBSET Labels]
    /\ claim \in [Claims -> [status : Statuses, subject : Entities \cup {None},
                             property : Properties \cup {None},
                             target : Entities \cup {None}]]
    /\ merge \in [Merges -> [status : {"none", "applied", "rolled_back"},
                             source : Entities \cup {None}, target : Entities \cup {None},
                             copied : SUBSET Labels, claims : SUBSET Mapping]]
    /\ writer \in [Writers -> [op : {"idle", "count", "write", "merge", "migrate"},
                               claim : Statement \cup {NoClaim}, old : Claims \cup {None},
                               source : Entities \cup {None}, target : Entities \cup {None},
                               copied : SUBSET Labels, claims : SUBSET Claims]]

(* A property with one value has at most one published claim per subject,    *)
(* though the insert of a claim may wait for long after the count that      *)
(* allowed it, while others create, publish, supersede, merge and roll back *)
(* (prepareClaim counts, InsertClaim waits for the target; the subject's    *)
(* lock is held from before the count until the insert).                   *)
SingleValueHolds ==
    \A c, d \in Published :
        /\ claim[c].subject = claim[d].subject
        /\ claim[c].property = claim[d].property /\ claim[c].property \in SingleValued
        => c = d

(* No set of merged entities is closed under merged_into: following it from *)
(* any entity leads to one that is not merged (ResolveEntity,              *)
(* ErrEntityMergeCycle), also when merges cross or are rolled back out of   *)
(* order.                                                                  *)
NoMergeCycle ==
    \A S \in SUBSET Entities :
        S # {} => \E e \in S : entity[e].status # "merged" \/ entity[e].into \notin S

(* The ledger and the entities agree: an entity is merged exactly when one  *)
(* applied merge has it as source, and into that merge's target            *)
(* (entity_merge_active_source_key; getAppliedMergeBySource).              *)
LedgerAgrees ==
    /\ \A e \in Entities :
          entity[e].status = "merged" =>
             \E m \in Applied : merge[m].source = e /\ merge[m].target = entity[e].into
    /\ \A m \in Applied : entity[merge[m].source].status = "merged"
    /\ \A m, n \in Applied : merge[m].source = merge[n].source => m = n

(* A statement has one current version: what an applied merge replaced is    *)
(* not current, what a rolled-back merge wrote is neither current nor       *)
(* replaced by an applied merge.  So rolling merges back in any order never  *)
(* leaves two current copies of a claim (RollbackEntityMergeInTx,          *)
(* ErrEntityMergeStale).                                                   *)
OneVersion ==
    \A m \in Merges : \A x \in merge[m].claims :
        /\ m \in Applied => x.old \notin Current
        /\ m \notin Applied =>
              /\ x.new \notin Current
              /\ \A n \in Applied : \A y \in merge[n].claims : y.old # x.new

(* A current claim is about an active subject (ensureEntityActive of the     *)
(* subject, whose lock is held until the claim is written).                *)
SubjectsAreLive == \A c \in Current : Active(claim[c].subject)

(* A current claim refers to an active entity (ensureEntityActive of the     *)
(* target; SoftDeleteCreatedEntityByBatch: no current claim refers to it).  *)
TargetsAreLive ==
    \A c \in Current : claim[c].target # None => Active(claim[c].target)

ClaimsAreLive == SubjectsAreLive /\ TargetsAreLive

(* Rolling a merge back leaves the target the labels it has for the sake of  *)
(* another merge (RollbackEntityMergeInTx deletes what its own label map    *)
(* says it copied; an "existing" label is left alone).                     *)
RollbackKeepsLabels ==
    [][\A m, n \in Applied :
          merge'[m].status = "rolled_back" /\ n # m /\ merge[n].target = merge[m].target
             => labels'[merge[n].target] \cap labels[merge[n].source]
                  = labels[merge[n].target] \cap labels[merge[n].source]]_vars
=====
