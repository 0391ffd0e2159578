-------------------------- MODULE EntityMergeProofs --------------------------
(* Theorems about EntityMerge for any entities, properties, labels,        *)
(* writers, claims and merges.                                             *)
EXTENDS MCEntityMergeScopes, TLAPS

EntityType == [status : {"active", "merged", "deleted"}, into : Entities \cup {None}]
ClaimType ==
    [status : Statuses, subject : Entities \cup {None}, property : Properties \cup {None},
     target : Entities \cup {None}]
MergeType ==
    [status : {"none", "applied", "rolled_back"}, source : Entities \cup {None},
     target : Entities \cup {None}, copied : SUBSET Labels, claims : SUBSET Mapping]
WriterType ==
    [op : {"idle", "count", "write", "merge", "migrate"}, claim : Statement \cup {NoClaim},
     old : Claims \cup {None}, source : Entities \cup {None}, target : Entities \cup {None},
     copied : SUBSET Labels, claims : SUBSET Claims]

LEMMA TypesAre ==
    TypeOK <=> /\ entity \in [Entities -> EntityType]
               /\ labels \in [Entities -> SUBSET Labels]
               /\ claim \in [Claims -> ClaimType]
               /\ merge \in [Merges -> MergeType]
               /\ writer \in [Writers -> WriterType]
  BY DEF TypeOK, EntityType, ClaimType, MergeType, WriterType

LEMMA TypesAreNext ==
    TypeOK' <=> /\ entity' \in [Entities -> EntityType]
                /\ labels' \in [Entities -> SUBSET Labels]
                /\ claim' \in [Claims -> ClaimType]
                /\ merge' \in [Merges -> MergeType]
                /\ writer' \in [Writers -> WriterType]
  BY DEF TypeOK, EntityType, ClaimType, MergeType, WriterType

LEMMA StatementsAreClaims == Statement \cup {NoClaim} \subseteq ClaimType
  BY DEF Statement, NoClaim, ClaimType, Statuses

LEMMA IdleType == Idle \in WriterType
  BY DEF Idle, WriterType

-----------------------------------------------------------------------------
(* The inductive invariant.                                                *)

Same(c, d) ==
    claim[c].subject = claim[d].subject /\ claim[c].property = claim[d].property

(* A transaction at work has its locks, the claim it supersedes is          *)
(* published and of the subject and property of the new one, and the       *)
(* claims it migrates are current.                                         *)
WriterOk(w) ==
    LET r == writer[w] IN
    /\ r.op = "idle" => r = Idle
    /\ r.op \in {"count", "write"} =>
         r.claim \in Statement /\ r.source = None /\ r.target = None
    /\ r.op \in {"merge", "migrate"} =>
         /\ r.claim = NoClaim /\ r.old = None /\ r.source # r.target
         /\ r.source \in Entities /\ r.target \in Entities
    /\ r.op = "migrate" => r.claims \subseteq Current
    /\ r.old # None =>
         /\ claim[r.old].status = "published"
         /\ claim[r.old].subject = r.claim.subject
         /\ claim[r.old].property = r.claim.property

(* Locked entities are active, and no row is locked twice.                 *)
LocksHold ==
    /\ \A w \in Writers : WriterOk(w)
    /\ \A w \in Writers, e \in Entities : e \in EntityLocks(w) => Active(e)
    /\ \A w, v \in Writers, e \in Entities :
          e \in EntityLocks(w) /\ e \in EntityLocks(v) => w = v
    /\ \A w, v \in Writers, c \in Claims :
          c \in ClaimLocks(w) /\ c \in ClaimLocks(v) => w = v

(* What a transaction counted is still so when it writes: no value of the    *)
(* property has been published, no claim it migrates has come to collide.   *)
CountHolds(w) ==
    LET r == writer[w] IN
    /\ r.op = "write" /\ r.old = None => ~Taken(r.claim.subject, r.claim.property)
    /\ r.op = "migrate" => Migratable(r.claims, r.source, r.target)

CountsHold == \A w \in Writers : CountHolds(w)

(* The ledger's merges are of two entities and have claims only once        *)
(* applied; the claims are in use, a claim is copied by a merge once and by *)
(* one applied merge, and every copy has an id of its own.                 *)
MappingsOk ==
    /\ \A m \in Merges : merge[m].status = "none" => merge[m].claims = {}
    /\ \A m \in Merges : merge[m].status # "none" =>
          merge[m].source \in Entities /\ merge[m].target \in Entities
    /\ \A m \in Merges : \A x \in merge[m].claims : x.old \notin Fresh /\ x.new \notin Fresh
    /\ \A m \in Merges : \A x, y \in merge[m].claims : x.old # y.new
    /\ \A m \in Merges : \A x, y \in merge[m].claims :
          x.new = y.new \/ x.old = y.old => x = y
    /\ \A m, n \in Applied : \A x \in merge[m].claims, y \in merge[n].claims :
          x.old = y.old => m = n

(* A copy is of the same property and subject, or of the source's claim.    *)
CopiesOk ==
    \A m \in Merges : \A x \in merge[m].claims :
        /\ claim[x.new].property = claim[x.old].property
        /\ claim[x.old].subject # merge[m].source =>
              claim[x.new].subject = claim[x.old].subject

(* Where an applied merge took the published value of its source, rolling    *)
(* it back finds no other.                                                 *)
Vacated ==
    \A m \in Applied : \A x \in merge[m].claims :
        /\ x.status = "published"
        /\ claim[x.old].subject = merge[m].source /\ claim[x.old].property \in SingleValued
        => /\ \A c \in Published : ~Same(c, x.old)
           /\ \A y \in merge[m].claims : y.status = "published" /\ Same(y.old, x.old) => y = x

IInv ==
    /\ TypeOK /\ LocksHold /\ CountsHold
    /\ LedgerAgrees /\ NoMergeCycle
    /\ MappingsOk /\ OneVersion
    /\ CopiesOk /\ Vacated /\ SingleValueHolds

-----------------------------------------------------------------------------
(* New ids.                                                                *)

LEMMA NewClaimIsFresh == Fresh # {} => NewClaim \in Fresh /\ NewClaim \in Claims
  BY DEF NewClaim, Fresh

LEMMA NewMergeIsUnused == Unused # {} => NewMerge \in Unused /\ NewMerge \in Merges
  BY DEF NewMerge, Unused

LEMMA NewIdsAreFresh ==
    ASSUME NEW C, Injection(C, Fresh) # {}
    PROVE  /\ NewIds(C) \in [C -> Fresh]
           /\ \A a, b \in C : NewIds(C)[a] = NewIds(C)[b] => a = b
<1>1. NewIds(C) \in Injection(C, Fresh)
  BY DEF NewIds
<1>2. QED
  BY <1>1 DEF Injection, IsInjective

-----------------------------------------------------------------------------
(* The two steps that rewrite many claims.                                 *)

Selected(w) == writer[w].claims

LEMMA SelectedAreCurrent ==
    ASSUME LocksHold, NEW w \in Writers, MergeEntity(w)
    PROVE  /\ Selected(w) \subseteq Current /\ Selected(w) \subseteq Claims
           /\ Fresh \subseteq Claims /\ Selected(w) \cap Fresh = {} /\ Fresh \cap Current = {}
<1>1. Selected(w) \subseteq Current
  BY DEF LocksHold, WriterOk, MergeEntity, Doing, Selected
<1>2. QED
  BY <1>1 DEF Current, Fresh

(* What MergeEntity(w) does to the claims.                                 *)
LEMMA ClaimsMerged ==
    ASSUME TypeOK, LocksHold, NEW w \in Writers, MergeEntity(w)
    PROVE  LET s == writer[w].source
               t == writer[w].target
               id == NewIds(Selected(w))
           IN
           /\ id \in [Selected(w) -> Fresh]
           /\ \A a, b \in Selected(w) : id[a] = id[b] => a = b
           /\ DOMAIN claim' = Claims
           /\ \A c \in Selected(w) :
                /\ claim'[c] = [claim[c] EXCEPT !.status = Compensated(@)]
                /\ claim'[id[c]] = Copied(c, s, t)
           /\ \A x \in Claims :
                x \notin Selected(w) /\ (\A c \in Selected(w) : id[c] # x)
                  => claim'[x] = claim[x]
<1> DEFINE s == writer[w].source
           t == writer[w].target
           id == NewIds(Selected(w))
           C == Selected(w)
<1>1. /\ id \in [C -> Fresh]
      /\ \A a, b \in C : id[a] = id[b] => a = b
  BY NewIdsAreFresh DEF MergeEntity, Selected
<1>2. claim' = [x \in Claims |->
                  IF x \in C THEN [claim[x] EXCEPT !.status = Compensated(@)]
                  ELSE IF x \in Range(id) THEN Copied(CHOOSE c \in C : id[c] = x, s, t)
                  ELSE claim[x]]
  BY Zenon DEF MergeEntity, Selected
<1>3. C \subseteq Claims /\ Fresh \subseteq Claims /\ C \cap Fresh = {}
  BY SelectedAreCurrent
<1> HIDE DEF id, C
<1>4. DOMAIN claim' = Claims
  BY <1>2
<1>5. ASSUME NEW c \in C
      PROVE  /\ claim'[c] = [claim[c] EXCEPT !.status = Compensated(@)]
             /\ claim'[id[c]] = Copied(c, s, t)
  <2>1. claim'[c] = [claim[c] EXCEPT !.status = Compensated(@)]
    BY <1>2, <1>3
  <2>2. id[c] \in Fresh /\ id[c] \in Claims /\ id[c] \notin C /\ id[c] \in Range(id)
    BY <1>1, <1>3 DEF Range
  <2>3. (CHOOSE d \in C : id[d] = id[c]) = c
    BY <1>1
  <2>4. claim'[id[c]] = Copied(CHOOSE d \in C : id[d] = id[c], s, t)
    BY <1>2, <2>2
  <2>5. QED
    BY <2>1, <2>3, <2>4
<1>6. ASSUME NEW x \in Claims, x \notin C, \A c \in C : id[c] # x
      PROVE  claim'[x] = claim[x]
  <2>1. x \notin Range(id)
    BY <1>1, <1>6 DEF Range
  <2>2. QED
    BY <1>2, <1>6, <2>1
<1>7. QED
  BY <1>1, <1>4, <1>5, <1>6 DEF C, id

(* What RollbackEntityMerge(m) does to the claims.                         *)
LEMMA ClaimsRestored ==
    ASSUME TypeOK, NEW m \in Merges, RollbackEntityMerge(m)
    PROVE  /\ DOMAIN claim' = Claims
           /\ \A x \in merge[m].claims :
                claim'[x.new] = [claim[x.new] EXCEPT !.status = Compensated(@)]
           /\ \A c \in Claims :
                /\ (\A x \in merge[m].claims : x.new # c) => \A x \in merge[m].claims :
                      x.old = c => \E y \in merge[m].claims :
                         y.old = c /\ claim'[c] = [claim[c] EXCEPT !.status = y.status]
                /\ (\A x \in merge[m].claims : x.new # c /\ x.old # c) => claim'[c] = claim[c]
<1> DEFINE X == merge[m].claims
<1>1. claim' = [c \in Claims |->
                  IF \E x \in X : x.new = c
                  THEN [claim[c] EXCEPT !.status = Compensated(@)]
                  ELSE IF \E x \in X : x.old = c
                  THEN [claim[c] EXCEPT !.status = (CHOOSE x \in X : x.old = c).status]
                  ELSE claim[c]]
  BY DEF RollbackEntityMerge
<1>2. \A x \in X : x.old \in Claims /\ x.new \in Claims
  BY TypesAre DEF MergeType, Mapping
<1> HIDE DEF X
<1>3. \A x \in X : claim'[x.new] = [claim[x.new] EXCEPT !.status = Compensated(@)]
  BY <1>1, <1>2
<1>4. ASSUME NEW c \in Claims, \A x \in X : x.new # c, NEW x \in X, x.old = c
      PROVE  \E y \in X : y.old = c /\ claim'[c] = [claim[c] EXCEPT !.status = y.status]
  <2> DEFINE y == CHOOSE y \in X : y.old = c
  <2>1. y \in X /\ y.old = c
    BY <1>4
  <2>2. claim'[c] = [claim[c] EXCEPT !.status = y.status]
    BY <1>1, <1>4
  <2>3. QED
    BY <2>1, <2>2
<1>5. \A c \in Claims : (\A x \in X : x.new # c /\ x.old # c) => claim'[c] = claim[c]
  BY <1>1
<1>6. DOMAIN claim' = Claims
  BY <1>1
<1>7. QED
  BY <1>3, <1>4, <1>5, <1>6 DEF X

-----------------------------------------------------------------------------
(* Types.                                                                  *)

LEMMA TypeInit == Init => TypeOK
<1>1. NoClaim \in ClaimType /\ NoMerge \in MergeType
  BY DEF NoClaim, ClaimType, NoMerge, MergeType, Statuses
<1>2. [status |-> "active", into |-> None] \in EntityType
  BY DEF EntityType
<1>3. QED
  BY <1>1, <1>2, IdleType, TypesAre DEF Init

LEMMA TypeWriter ==
    ASSUME TypeOK, NEW w \in Writers, NEW r \in WriterType,
           writer' = [writer EXCEPT ![w] = r], UNCHANGED <<entity, labels, claim, merge>>
    PROVE  TypeOK'
  BY TypesAre, TypesAreNext

LEMMA TypePrepare ==
    ASSUME TypeOK, NEW w \in Writers, NEW s \in Statement, NEW old \in Claims \cup {None},
           Prepare(w, s, old)
    PROVE  TypeOK'
<1>1. \A op \in {"count", "write"} :
        [Idle EXCEPT !.op = op, !.claim = s, !.old = old] \in WriterType
  BY DEF Idle, WriterType
<1>2. QED
  BY <1>1, TypeWriter DEF Prepare

LEMMA TypeCountClaims ==
    ASSUME TypeOK, NEW w \in Writers, CountClaims(w)
    PROVE  TypeOK'
<1>1. writer[w] \in WriterType
  BY TypesAre
<1>2. [writer[w] EXCEPT !.op = "write"] \in WriterType
  BY <1>1 DEF WriterType
<1>3. writer' = [writer EXCEPT ![w] = [writer[w] EXCEPT !.op = "write"]]
  BY DEF CountClaims
<1>4. QED
  BY <1>2, <1>3, TypeWriter DEF CountClaims

LEMMA TypeWriteClaim ==
    ASSUME TypeOK, NEW w \in Writers, WriteClaim(w)
    PROVE  TypeOK'
<1>1. writer[w].claim \in ClaimType
  BY TypesAre, StatementsAreClaims DEF WriterType
<1>2. \A c \in Claims : [claim[c] EXCEPT !.status = "superseded"] \in ClaimType
  BY TypesAre DEF ClaimType, Statuses
<1>3. claim' \in [Claims -> ClaimType]
  BY <1>1, <1>2, TypesAre DEF WriteClaim
<1>4. writer' \in [Writers -> WriterType] /\ UNCHANGED <<entity, labels, merge>>
  BY TypesAre, IdleType DEF WriteClaim
<1>5. QED
  BY <1>3, <1>4, TypesAre, TypesAreNext

LEMMA TypeSetStatus ==
    ASSUME TypeOK, NEW c \in Claims, NEW status \in Statuses, SetStatus(c, status)
    PROVE  TypeOK'
<1>1. [claim[c] EXCEPT !.status = status] \in ClaimType
  BY TypesAre DEF ClaimType
<1>2. claim' \in [Claims -> ClaimType]
  BY <1>1, TypesAre DEF SetStatus
<1>3. QED
  BY <1>2, TypesAre, TypesAreNext DEF SetStatus

LEMMA TypeLockForMerge ==
    ASSUME TypeOK, NEW w \in Writers, NEW s \in Entities, NEW t \in Entities,
           LockForMerge(w, s, t)
    PROVE  TypeOK'
<1> DEFINE r == [Idle EXCEPT !.op = "merge", !.source = s, !.target = t,
                             !.copied = labels[s] \ labels[t],
                             !.claims = {c \in Current : Mentions(c, s)}]
<1>1. labels[s] \ labels[t] \in SUBSET Labels
  BY TypesAre
<1>2. {c \in Current : Mentions(c, s)} \in SUBSET Claims
  BY DEF Current
<1>3. r \in WriterType
  BY <1>1, <1>2 DEF Idle, WriterType
<1>4. QED
  BY <1>3, TypeWriter DEF LockForMerge

LEMMA TypeLockClaims ==
    ASSUME TypeOK, NEW w \in Writers, LockClaims(w)
    PROVE  TypeOK'
<1> DEFINE r == [writer[w] EXCEPT !.op = "migrate", !.claims = writer[w].claims \cap Current]
<1>1. writer[w] \in WriterType
  BY TypesAre
<1>2. r \in WriterType
  BY <1>1 DEF WriterType
<1>3. writer' = [writer EXCEPT ![w] = r]
  BY DEF LockClaims
<1>4. QED
  BY <1>2, <1>3, TypeWriter DEF LockClaims

LEMMA TypeCompensated ==
    ASSUME TypeOK, NEW c \in Claims
    PROVE  [claim[c] EXCEPT !.status = Compensated(@)] \in ClaimType
<1>1. Compensated(claim[c].status) \in Statuses
  BY DEF Compensated, Statuses
<1>2. QED
  BY <1>1, TypesAre DEF ClaimType

LEMMA TypeMergeEntity ==
    ASSUME TypeOK, LocksHold, NEW w \in Writers, MergeEntity(w),
           writer[w].source \in Entities, writer[w].target \in Entities
    PROVE  TypeOK'
<1> DEFINE s == writer[w].source
           t == writer[w].target
           C == Selected(w)
           id == NewIds(C)
<1>1. /\ id \in [C -> Fresh]
      /\ DOMAIN claim' = Claims
      /\ \A c \in C : /\ claim'[c] = [claim[c] EXCEPT !.status = Compensated(@)]
                      /\ claim'[id[c]] = Copied(c, s, t)
      /\ \A x \in Claims : x \notin C /\ (\A c \in C : id[c] # x) => claim'[x] = claim[x]
  BY ClaimsMerged
<1>2. C \subseteq Claims /\ C \subseteq Current /\ Fresh \subseteq Claims
  BY SelectedAreCurrent
<1>3. merge' = [merge EXCEPT ![NewMerge] =
                  [status |-> "applied", source |-> s, target |-> t,
                   copied |-> writer[w].copied,
                   claims |-> {[old |-> c, new |-> id[c], status |-> claim[c].status] :
                               c \in C}]]
  BY Zenon DEF MergeEntity, Selected
<1> HIDE DEF C, id
<1>4. ASSUME NEW x \in Claims PROVE claim'[x] \in ClaimType
  <2>1. CASE x \in C
    BY <1>1, <2>1, TypeCompensated
  <2>2. CASE \E c \in C : id[c] = x
    <3>1. PICK c \in C : id[c] = x
      BY <2>2
    <3>2. Copied(c, s, t) \in ClaimType
      BY <1>2, TypesAre DEF Copied, Moved, ClaimType
    <3>3. QED
      BY <1>1, <3>1, <3>2
  <2>3. CASE x \notin C /\ \A c \in C : id[c] # x
    BY <1>1, <2>3, TypesAre
  <2>4. QED
    BY <2>1, <2>2, <2>3
<1>5. claim' \in [Claims -> ClaimType]
  <2>1. claim' = [x \in Claims |-> claim'[x]]
    BY <1>1 DEF MergeEntity
  <2>2. QED
    BY <1>4, <2>1
<1>6. {[old |-> c, new |-> id[c], status |-> claim[c].status] : c \in C} \subseteq Mapping
  BY <1>1, <1>2 DEF Mapping, Current
<1>7. merge' \in [Merges -> MergeType]
  <2>1. writer[w].copied \in SUBSET Labels
    BY TypesAre DEF WriterType
  <2>2. [status |-> "applied", source |-> s, target |-> t, copied |-> writer[w].copied,
         claims |-> {[old |-> c, new |-> id[c], status |-> claim[c].status] : c \in C}]
          \in MergeType
    BY <1>6, <2>1 DEF MergeType
  <2> DEFINE r == [status |-> "applied", source |-> s, target |-> t, copied |-> writer[w].copied,
                   claims |-> {[old |-> c, new |-> id[c], status |-> claim[c].status] : c \in C}]
  <2>3. r \in MergeType /\ merge' = [merge EXCEPT ![NewMerge] = r]
    BY <2>2, <1>3
  <2> HIDE DEF r
  <2>4. QED
    BY <2>3, TypesAre
<1>8. entity' \in [Entities -> EntityType]
  <2>1. [status |-> "merged", into |-> t] \in EntityType
    BY DEF EntityType
  <2>2. QED
    BY <2>1, TypesAre DEF MergeEntity
<1>9. labels' \in [Entities -> SUBSET Labels] /\ writer' \in [Writers -> WriterType]
  BY TypesAre, IdleType DEF MergeEntity, WriterType
<1>10. QED
  BY <1>5, <1>7, <1>8, <1>9, TypesAreNext

LEMMA TypeRollback ==
    ASSUME TypeOK, NEW m \in Merges, RollbackEntityMerge(m)
    PROVE  TypeOK'
<1> DEFINE X == merge[m].claims
<1>1. \A x \in X : x \in Mapping
  BY TypesAre DEF MergeType
<1>2. ASSUME NEW c \in Claims PROVE claim'[c] \in ClaimType
  <2>1. CASE \E x \in X : x.new = c
    <3>1. claim'[c] = [claim[c] EXCEPT !.status = Compensated(@)]
      BY <2>1, ClaimsRestored
    <3>2. QED
      BY <3>1, TypeCompensated
  <2>2. CASE (\A x \in X : x.new # c) /\ \E x \in X : x.old = c
    <3>1. PICK y \in X : y.old = c /\ claim'[c] = [claim[c] EXCEPT !.status = y.status]
      BY <2>2, ClaimsRestored
    <3>2. y.status \in Statuses
      BY <1>1 DEF Mapping, Statuses
    <3>3. QED
      BY <3>1, <3>2, TypesAre DEF ClaimType
  <2>3. CASE \A x \in X : x.new # c /\ x.old # c
    BY <2>3, ClaimsRestored, TypesAre
  <2>4. QED
    BY <2>1, <2>2, <2>3
<1>3. claim' \in [Claims -> ClaimType]
  <2>1. claim' = [c \in Claims |-> claim'[c]]
    BY ClaimsRestored DEF RollbackEntityMerge
  <2>2. QED
    BY <1>2, <2>1
<1>4. merge' \in [Merges -> MergeType]
  <2>1. [merge[m] EXCEPT !.status = "rolled_back"] \in MergeType
    BY TypesAre DEF MergeType
  <2>2. QED
    BY <2>1, TypesAre DEF RollbackEntityMerge
<1>5. entity' \in [Entities -> EntityType]
  <2>1. [status |-> "active", into |-> None] \in EntityType
    BY DEF EntityType
  <2>2. QED
    BY <2>1, TypesAre DEF RollbackEntityMerge
<1>6. labels' \in [Entities -> SUBSET Labels] /\ writer' = writer
  BY TypesAre DEF RollbackEntityMerge
<1>7. QED
  BY <1>3, <1>4, <1>5, <1>6, TypesAre, TypesAreNext

LEMMA TypeDelete ==
    ASSUME TypeOK, NEW e \in Entities, DeleteEntity(e)
    PROVE  TypeOK'
<1>1. [entity[e] EXCEPT !.status = "deleted"] \in EntityType
  BY TypesAre DEF EntityType
<1>2. QED
  BY <1>1, TypesAre, TypesAreNext DEF DeleteEntity

LEMMA TypeRelabel ==
    ASSUME TypeOK, NEW e \in Entities, NEW l \in Labels, Relabel(e, l)
    PROVE  TypeOK'
  BY TypesAre, TypesAreNext DEF Relabel

-----------------------------------------------------------------------------
(* Locks.                                                                  *)

(* Steps that take no lock, and leave alone what the others have locked.    *)
LEMMA LocksKept ==
    ASSUME TypeOK, LocksHold,
           \A v \in Writers :
              \/ writer'[v] = Idle
              \/ /\ writer'[v] = writer[v]
                 /\ \A e \in Entities : e \in EntityLocks(v) => entity'[e].status = "active"
                 /\ \A c \in Claims : c \in ClaimLocks(v) => claim'[c] = claim[c]
    PROVE  LocksHold'
<1>1. ASSUME NEW v \in Writers PROVE WriterOk(v)'
  <2>1. CASE writer'[v] = Idle
    BY <2>1 DEF WriterOk, Idle
  <2>2. CASE writer'[v] # Idle
    <3>1. writer'[v] = writer[v] /\ WriterOk(v)
      BY <2>2 DEF LocksHold
    <3>2. writer[v].old # None => claim'[writer[v].old] = claim[writer[v].old]
      BY <2>2, TypesAre DEF WriterType, ClaimLocks
    <3>3. writer[v].op = "migrate" => writer[v].claims \subseteq Current'
      BY <2>2, <3>1 DEF WriterOk, ClaimLocks, Doing, Current
    <3>4. QED
      BY <3>1, <3>2, <3>3 DEF WriterOk
  <2>3. QED
    BY <2>1, <2>2
<1>2. ASSUME NEW v \in Writers, NEW e \in Entities, e \in EntityLocks(v)'
      PROVE  writer'[v] = writer[v] /\ e \in EntityLocks(v) /\ Active(e)'
  <2>1. writer'[v] # Idle
    BY <1>2, EntityMergeAssumption DEF EntityLocks, Idle, NoClaim
  <2>2. QED
    BY <1>2, <2>1 DEF EntityLocks, Active
<1>3. ASSUME NEW v \in Writers, NEW c \in Claims, c \in ClaimLocks(v)'
      PROVE  c \in ClaimLocks(v)
  <2>1. writer'[v] # Idle
    BY <1>3, EntityMergeAssumption DEF ClaimLocks, Idle, Doing
  <2>2. writer'[v] = writer[v]
    BY <2>1
  <2>3. QED
    BY <1>3, <2>2 DEF ClaimLocks, Doing
<1>4. \A w, v \in Writers, e \in Entities :
        e \in EntityLocks(w)' /\ e \in EntityLocks(v)' => w = v
  BY <1>2 DEF LocksHold
<1>5. \A w, v \in Writers, c \in Claims :
        c \in ClaimLocks(w)' /\ c \in ClaimLocks(v)' => w = v
  BY <1>3 DEF LocksHold
<1>6. QED
  BY <1>1, <1>2, <1>4, <1>5 DEF LocksHold

(* Steps that take locks nobody holds, and keep those they have.            *)
LEMMA LocksTaken ==
    ASSUME TypeOK, LocksHold, NEW w \in Writers, NEW r \in WriterType,
           writer' = [writer EXCEPT ![w] = r], UNCHANGED <<entity, claim>>, WriterOk(w)',
           \A e \in Entities : e \in {r.claim.subject, r.source, r.target} =>
              Lockable(e) \/ e \in EntityLocks(w),
           \A c \in Claims : c = r.old \/ (r.op = "migrate" /\ c \in r.claims) =>
              ClaimUnlocked(c) \/ c \in ClaimLocks(w)
    PROVE  LocksHold'
<1>1. writer'[w] = r /\ \A v \in Writers : v # w => writer'[v] = writer[v]
  BY TypesAre
<1>2. ASSUME NEW v \in Writers PROVE WriterOk(v)'
  <2>1. CASE v = w
    BY <2>1
  <2>2. CASE v # w
    <3>1. WriterOk(v) /\ writer'[v] = writer[v]
      BY <1>1, <2>2 DEF LocksHold
    <3>2. QED
      BY <3>1 DEF WriterOk, Current
  <2>3. QED
    BY <2>1, <2>2
<1>3. \A v \in Writers : v # w => EntityLocks(v)' = EntityLocks(v)
  BY <1>1 DEF EntityLocks
<1>4. EntityLocks(w)' = {r.claim.subject, r.source, r.target}
  BY <1>1 DEF EntityLocks
<1>5. \A e \in Entities : e \in EntityLocks(w)' =>
        Active(e) /\ \A v \in Writers : v # w => e \notin EntityLocks(v)
  BY <1>4 DEF Lockable, Unlocked, LocksHold
<1>6. \A v \in Writers, e \in Entities : e \in EntityLocks(v)' => Active(e)'
  <2>1. \A e \in Entities : Active(e)' <=> Active(e)
    BY DEF Active
  <2>2. QED
    BY <1>3, <1>5, <2>1 DEF LocksHold
<1>7. \A v, u \in Writers, e \in Entities :
        e \in EntityLocks(v)' /\ e \in EntityLocks(u)' => v = u
  BY <1>3, <1>5 DEF LocksHold
<1>8. \A v, u \in Writers, c \in Claims :
        c \in ClaimLocks(v)' /\ c \in ClaimLocks(u)' => v = u
  <2>1. \A v \in Writers : v # w => ClaimLocks(v)' = ClaimLocks(v)
    BY <1>1 DEF ClaimLocks, Doing
  <2>2. ASSUME NEW c \in Claims, c \in ClaimLocks(w)', NEW v \in Writers, v # w
        PROVE  c \notin ClaimLocks(v)
    <3>1. c = r.old \/ (r.op = "migrate" /\ c \in r.claims)
      BY <1>1, <2>2 DEF ClaimLocks, Doing
    <3>2. ClaimUnlocked(c) \/ c \in ClaimLocks(w)
      BY <3>1
    <3>3. QED
      BY <2>2, <3>2 DEF LocksHold, ClaimUnlocked
  <2>3. QED
    BY <2>1, <2>2 DEF LocksHold
<1>9. QED
  BY <1>2, <1>6, <1>7, <1>8 DEF LocksHold

LEMMA LocksPrepare ==
    ASSUME TypeOK, LocksHold, NEW w \in Writers, NEW s \in Statement,
           NEW old \in Claims \cup {None}, Prepare(w, s, old),
           old # None => /\ old \in Published /\ ClaimUnlocked(old)
                         /\ s.subject = claim[old].subject /\ s.property = claim[old].property
    PROVE  LocksHold'
<1> DEFINE r == [Idle EXCEPT !.op = IF old = None /\ s.property \in SingleValued
                                    THEN "count" ELSE "write",
                             !.claim = s, !.old = old]
<1>1. r \in WriterType
  BY DEF Idle, WriterType
<1>2. /\ r.op \in {"count", "write"} /\ r.claim = s /\ r.old = old
      /\ r.source = None /\ r.target = None /\ s.subject \in Entities
  BY DEF Idle, Statement
<1>3. writer' = [writer EXCEPT ![w] = r] /\ UNCHANGED <<entity, claim>> /\ Lockable(s.subject)
  BY DEF Prepare
<1> HIDE DEF r
<1>4. writer'[w] = r
  BY <1>3, TypesAre
<1>5. WriterOk(w)'
  BY <1>2, <1>3, <1>4 DEF WriterOk, Published
<1>6. \A e \in Entities : e \in {r.claim.subject, r.source, r.target} => Lockable(e)
  BY <1>2, <1>3, EntityMergeAssumption
<1>7. \A c \in Claims : c = r.old \/ (r.op = "migrate" /\ c \in r.claims) => ClaimUnlocked(c)
  BY <1>2, EntityMergeAssumption
<1>8. QED
  BY <1>1, <1>3, <1>5, <1>6, <1>7, LocksTaken

LEMMA LocksCountClaims ==
    ASSUME TypeOK, LocksHold, NEW w \in Writers, CountClaims(w)
    PROVE  LocksHold'
<1> DEFINE r == [writer[w] EXCEPT !.op = "write"]
<1>1. writer[w] \in WriterType /\ writer[w].op = "count" /\ WriterOk(w)
  BY TypesAre DEF CountClaims, Doing, LocksHold
<1>2. r \in WriterType
  BY <1>1 DEF WriterType
<1>3. /\ r.op = "write" /\ r.claim = writer[w].claim /\ r.old = writer[w].old
      /\ r.source = writer[w].source /\ r.target = writer[w].target
  BY <1>1 DEF WriterType
<1>4. writer' = [writer EXCEPT ![w] = r] /\ UNCHANGED <<entity, claim>>
  BY DEF CountClaims
<1> HIDE DEF r
<1>5. writer'[w] = r
  BY <1>4, TypesAre
<1>6. WriterOk(w)'
  BY <1>1, <1>3, <1>4, <1>5 DEF WriterOk
<1>7. /\ \A e \in Entities : e \in {r.claim.subject, r.source, r.target} => e \in EntityLocks(w)
      /\ \A c \in Claims : c = r.old \/ (r.op = "migrate" /\ c \in r.claims)
                           => c \in ClaimLocks(w)
  BY <1>3 DEF EntityLocks, ClaimLocks
<1>8. QED
  BY <1>2, <1>4, <1>6, <1>7, LocksTaken

LEMMA LocksLockForMerge ==
    ASSUME TypeOK, LocksHold, NEW w \in Writers, NEW s \in Entities, NEW t \in Entities,
           LockForMerge(w, s, t)
    PROVE  LocksHold'
<1> DEFINE r == [Idle EXCEPT !.op = "merge", !.source = s, !.target = t,
                             !.copied = labels[s] \ labels[t],
                             !.claims = {c \in Current : Mentions(c, s)}]
<1>1. /\ r.op = "merge" /\ r.claim = NoClaim /\ r.old = None /\ r.source = s /\ r.target = t
      /\ r.claim.subject = None
  BY DEF Idle, NoClaim
<1>2. writer' = [writer EXCEPT ![w] = r]
  BY DEF LockForMerge
<1>3. UNCHANGED <<entity, claim>> /\ s # t /\ Lockable(s) /\ Lockable(t)
  BY DEF LockForMerge
<1>4. r \in WriterType
  <2>1. labels[s] \ labels[t] \in SUBSET Labels
    BY TypesAre
  <2>2. {c \in Current : Mentions(c, s)} \in SUBSET Claims
    BY DEF Current
  <2>3. QED
    BY <2>1, <2>2 DEF Idle, WriterType
<1> HIDE DEF r
<1>5. writer'[w] = r
  BY <1>2, TypesAre
<1>6. WriterOk(w)'
  BY <1>1, <1>3, <1>5 DEF WriterOk
<1>7. \A e \in Entities : e \in {r.claim.subject, r.source, r.target} => Lockable(e)
  BY <1>1, <1>3, EntityMergeAssumption
<1>8. \A c \in Claims : c = r.old \/ (r.op = "migrate" /\ c \in r.claims) => ClaimUnlocked(c)
  BY <1>1, EntityMergeAssumption
<1>9. QED
  BY <1>2, <1>3, <1>4, <1>6, <1>7, <1>8, LocksTaken

LEMMA LocksLockClaims ==
    ASSUME TypeOK, LocksHold, NEW w \in Writers, LockClaims(w)
    PROVE  LocksHold'
<1> DEFINE C == writer[w].claims \cap Current
           r == [writer[w] EXCEPT !.op = "migrate", !.claims = C]
<1>1. writer[w] \in WriterType /\ writer[w].op = "merge" /\ WriterOk(w)
  BY TypesAre DEF LockClaims, Doing, LocksHold
<1>2. r \in WriterType
  BY <1>1 DEF WriterType
<1>3. /\ r.op = "migrate" /\ r.claim = writer[w].claim /\ r.old = writer[w].old /\ r.claims = C
      /\ r.source = writer[w].source /\ r.target = writer[w].target
  BY <1>1 DEF WriterType
<1>4. writer' = [writer EXCEPT ![w] = r] /\ UNCHANGED <<entity, claim>>
  BY DEF LockClaims
<1>5. \A c \in C : ClaimUnlocked(c)
  BY DEF LockClaims
<1>6. C \subseteq Current
  OBVIOUS
<1> HIDE DEF r, C
<1>7. writer'[w] = r /\ Current' = Current
  BY <1>4, TypesAre DEF Current
<1>8. WriterOk(w)'
  BY <1>1, <1>3, <1>4, <1>6, <1>7 DEF WriterOk
<1>9. \A e \in Entities : e \in {r.claim.subject, r.source, r.target} => e \in EntityLocks(w)
  BY <1>3 DEF EntityLocks
<1>10. \A c \in Claims : c = r.old \/ (r.op = "migrate" /\ c \in r.claims)
                           => ClaimUnlocked(c) \/ c \in ClaimLocks(w)
  BY <1>3, <1>5 DEF ClaimLocks
<1>11. QED
  BY <1>2, <1>4, <1>8, <1>9, <1>10, LocksTaken

LEMMA OldIsPublished ==
    ASSUME TypeOK, LocksHold, NEW v \in Writers, writer[v].old # None
    PROVE  writer[v].old \in Published /\ writer[v].old \notin Fresh
<1>1. writer[v].old \in Claims
  BY TypesAre DEF WriterType
<1>2. claim[writer[v].old].status = "published"
  BY DEF LocksHold, WriterOk
<1>3. QED
  BY <1>1, <1>2 DEF Published, Fresh

LEMMA LockedAreCurrent ==
    ASSUME TypeOK, LocksHold, NEW v \in Writers, NEW c \in Claims, c \in ClaimLocks(v)
    PROVE  c \in Current /\ c \notin Fresh
<1>1. CASE c = writer[v].old
  <2>1. writer[v].old # None
    BY <1>1, EntityMergeAssumption
  <2>2. QED
    BY <1>1, <2>1, OldIsPublished DEF Published, Current
<1>2. CASE writer[v].op = "migrate" /\ c \in writer[v].claims
  <2>1. c \in Current
    BY <1>2 DEF LocksHold, WriterOk
  <2>2. QED
    BY <2>1 DEF Current, Fresh
<1>3. QED
  BY <1>1, <1>2 DEF ClaimLocks, Doing

LEMMA LocksWriteClaim ==
    ASSUME TypeOK, LocksHold, NEW w \in Writers, WriteClaim(w)
    PROVE  LocksHold'
<1>1. writer'[w] = Idle /\ \A v \in Writers : v # w => writer'[v] = writer[v]
  BY TypesAre DEF WriteClaim
<1>2. entity' = entity
  BY DEF WriteClaim
<1>3. ASSUME NEW v \in Writers, v # w, NEW c \in Claims, c \in ClaimLocks(v)
      PROVE  claim'[c] = claim[c]
  <2>1. c \notin Fresh
    BY <1>3, LockedAreCurrent
  <2>2. c # NewClaim
    BY <2>1, NewClaimIsFresh DEF WriteClaim
  <2>3. c # writer[w].old
    BY <1>3 DEF LocksHold, ClaimLocks
  <2>4. QED
    BY <2>2, <2>3 DEF WriteClaim
<1>4. \A v \in Writers, e \in Entities : e \in EntityLocks(v) => entity'[e].status = "active"
  BY <1>2 DEF LocksHold, Active
<1>5. QED
  BY <1>1, <1>3, <1>4, LocksKept

LEMMA LocksSetStatus ==
    ASSUME TypeOK, LocksHold, NEW c \in Claims, NEW status \in Statuses, SetStatus(c, status)
    PROVE  LocksHold'
<1>1. \A v \in Writers : c \notin ClaimLocks(v)
  BY DEF SetStatus, ClaimUnlocked
<1>2. writer' = writer /\ entity' = entity
  BY DEF SetStatus
<1>3. \A v \in Writers : \A d \in Claims : d \in ClaimLocks(v) => claim'[d] = claim[d]
  BY <1>1, TypesAre DEF SetStatus
<1>4. \A v \in Writers, e \in Entities : e \in EntityLocks(v) => entity'[e].status = "active"
  BY <1>2 DEF LocksHold, Active
<1>5. QED
  BY <1>2, <1>3, <1>4, LocksKept

LEMMA LocksMergeEntity ==
    ASSUME TypeOK, LocksHold, NEW w \in Writers, MergeEntity(w)
    PROVE  LocksHold'
<1>1. writer'[w] = Idle /\ \A v \in Writers : v # w => writer'[v] = writer[v]
  BY TypesAre DEF MergeEntity
<1>2. ASSUME NEW v \in Writers, v # w, NEW c \in Claims, c \in ClaimLocks(v)
      PROVE  claim'[c] = claim[c]
  <2>1. c \notin Fresh
    BY <1>2, LockedAreCurrent
  <2>2. c \notin Selected(w)
    BY <1>2 DEF MergeEntity, Selected, LocksHold, ClaimLocks, Doing
  <2>3. \A d \in Selected(w) : NewIds(Selected(w))[d] # c
    BY <2>1, ClaimsMerged
  <2>4. QED
    BY <2>1, <2>2, <2>3, ClaimsMerged
<1>3. ASSUME NEW v \in Writers, v # w, NEW e \in Entities, e \in EntityLocks(v)
      PROVE  entity'[e].status = "active"
  <2>1. e # writer[w].source
    BY <1>3 DEF LocksHold, EntityLocks
  <2>2. entity'[e] = entity[e]
    BY <2>1, TypesAre DEF MergeEntity
  <2>3. QED
    BY <1>3, <2>2 DEF LocksHold, Active
<1>4. QED
  BY <1>1, <1>2, <1>3, LocksKept

LEMMA LocksRollback ==
    ASSUME TypeOK, LocksHold, NEW m \in Merges, RollbackEntityMerge(m)
    PROVE  LocksHold'
<1>1. writer' = writer
  BY DEF RollbackEntityMerge
<1>2. ASSUME NEW v \in Writers, NEW c \in Claims, c \in ClaimLocks(v)
      PROVE  claim'[c] = claim[c]
  <2>1. \A x \in merge[m].claims : x.new # c /\ x.old # c
    BY <1>2 DEF RollbackEntityMerge, ClaimUnlocked
  <2>2. QED
    BY <2>1, ClaimsRestored
<1>3. ASSUME NEW v \in Writers, NEW e \in Entities, e \in EntityLocks(v)
      PROVE  entity'[e].status = "active"
  <2>1. e # merge[m].source
    BY <1>3 DEF RollbackEntityMerge, Unlocked
  <2>2. entity'[e] = entity[e]
    BY <2>1, TypesAre DEF RollbackEntityMerge
  <2>3. QED
    BY <1>3, <2>2 DEF LocksHold, Active
<1>4. QED
  BY <1>1, <1>2, <1>3, LocksKept

LEMMA LocksDelete ==
    ASSUME TypeOK, LocksHold, NEW d \in Entities, DeleteEntity(d)
    PROVE  LocksHold'
<1>1. writer' = writer /\ claim' = claim
  BY DEF DeleteEntity
<1>2. ASSUME NEW v \in Writers, NEW e \in Entities, e \in EntityLocks(v)
      PROVE  entity'[e].status = "active"
  <2>1. e # d
    BY <1>2 DEF DeleteEntity, Lockable, Unlocked
  <2>2. entity'[e] = entity[e]
    BY <2>1, TypesAre DEF DeleteEntity
  <2>3. QED
    BY <1>2, <2>2 DEF LocksHold, Active
<1>3. QED
  BY <1>1, <1>2, LocksKept

LEMMA LocksSame ==
    ASSUME TypeOK, LocksHold, UNCHANGED <<entity, claim>>,
           \A v \in Writers : writer'[v] = Idle \/ writer'[v] = writer[v]
    PROVE  LocksHold'
<1>1. \A v \in Writers, e \in Entities : e \in EntityLocks(v) => entity'[e].status = "active"
  BY DEF LocksHold, Active
<1>2. QED
  BY <1>1, LocksKept

-----------------------------------------------------------------------------
(* The ledger.                                                             *)

LEMMA MergedAreActive ==
    ASSUME LocksHold, NEW w \in Writers, MergeEntity(w)
    PROVE  LET s == writer[w].source
               t == writer[w].target
           IN s \in Entities /\ t \in Entities /\ s # t /\ Active(s) /\ Active(t)
  BY DEF LocksHold, MergeEntity, Doing, WriterOk, EntityLocks

(* What MergeEntity(w) does to the ledger.                                 *)
LEMMA MergeRecorded ==
    ASSUME TypeOK, NEW w \in Writers, MergeEntity(w)
    PROVE  LET C == Selected(w) IN
           /\ NewMerge \in Merges /\ merge[NewMerge].status = "none"
           /\ merge'[NewMerge].status = "applied"
           /\ merge'[NewMerge].source = writer[w].source
           /\ merge'[NewMerge].target = writer[w].target
           /\ \A x \in merge'[NewMerge].claims :
                 x.old \in C /\ x.new = NewIds(C)[x.old] /\ x.status = claim[x.old].status
           /\ \A x, y \in merge'[NewMerge].claims : x.old = y.old => x = y
           /\ \A n \in Merges : n # NewMerge => merge'[n] = merge[n]
           /\ \A n \in Merges : n \in Applied' <=> n = NewMerge \/ n \in Applied
<1> DEFINE C == Selected(w)
           r == [status |-> "applied", source |-> writer[w].source, target |-> writer[w].target,
                 copied |-> writer[w].copied,
                 claims |-> {[old |-> c, new |-> NewIds(C)[c], status |-> claim[c].status] :
                             c \in C}]
<1>1. merge' = [merge EXCEPT ![NewMerge] = r]
  BY Zenon DEF MergeEntity, Selected
<1>2. NewMerge \in Merges /\ merge[NewMerge].status = "none"
  BY NewMergeIsUnused DEF MergeEntity, Unused
<1>3. /\ r.status = "applied" /\ r.source = writer[w].source /\ r.target = writer[w].target
      /\ \A x \in r.claims : x.old \in C /\ x.new = NewIds(C)[x.old] /\ x.status = claim[x.old].status
      /\ \A x, y \in r.claims : x.old = y.old => x = y
  OBVIOUS
<1> HIDE DEF r, C
<1>4. merge'[NewMerge] = r /\ \A n \in Merges : n # NewMerge => merge'[n] = merge[n]
  BY <1>1, <1>2, TypesAre
<1>5. \A n \in Merges : n \in Applied' <=> n = NewMerge \/ n \in Applied
  BY <1>2, <1>3, <1>4 DEF Applied
<1>6. QED
  BY <1>2, <1>3, <1>4, <1>5 DEF C

LEMMA LedgerMergeEntity ==
    ASSUME TypeOK, LocksHold, LedgerAgrees, NoMergeCycle, NEW w \in Writers, MergeEntity(w)
    PROVE  LedgerAgrees' /\ NoMergeCycle'
<1> DEFINE s == writer[w].source
           t == writer[w].target
<1>1. s \in Entities /\ t \in Entities /\ s # t /\ Active(s) /\ Active(t)
  BY MergedAreActive
<1>2. /\ entity'[s].status = "merged" /\ entity'[s].into = t
      /\ \A e \in Entities : e # s => entity'[e] = entity[e]
  BY <1>1, TypesAre DEF MergeEntity
<1>3. /\ NewMerge \in Merges /\ merge[NewMerge].status = "none"
      /\ merge'[NewMerge].source = s /\ merge'[NewMerge].target = t
      /\ \A n \in Merges : n # NewMerge => merge'[n] = merge[n]
      /\ \A n \in Merges : n \in Applied' <=> n = NewMerge \/ n \in Applied
      /\ NewMerge \notin Applied /\ Applied \subseteq Merges /\ Applied' \subseteq Merges
  BY MergeRecorded DEF Applied
<1> HIDE DEF s, t
<1>4. \A m \in Applied : merge[m].source # s
  BY <1>1 DEF LedgerAgrees, Active
<1>5. \A e \in Entities :
        entity'[e].status = "merged" =>
           \E m \in Applied' : merge'[m].source = e /\ merge'[m].target = entity'[e].into
  <2>1. TAKE e \in Entities
  <2>2. CASE e = s
    BY <1>2, <1>3, <2>2
  <2>3. CASE e # s
    <3>1. SUFFICES ASSUME entity[e].status = "merged"
                   PROVE  \E m \in Applied' :
                             merge'[m].source = e /\ merge'[m].target = entity'[e].into
      BY <1>2, <2>3
    <3>2. PICK m \in Applied : merge[m].source = e /\ merge[m].target = entity[e].into
      BY <3>1 DEF LedgerAgrees
    <3>3. QED
      BY <1>2, <1>3, <2>3, <3>2
  <2>4. QED
    BY <2>2, <2>3
<1>6. \A m \in Applied' : entity'[merge'[m].source].status = "merged"
  <2>1. TAKE m \in Applied'
  <2>2. CASE m = NewMerge
    BY <1>2, <1>3, <2>2
  <2>3. CASE m # NewMerge
    <3>1. m \in Applied /\ merge'[m] = merge[m] /\ entity[merge[m].source].status = "merged"
      BY <1>3, <2>3 DEF LedgerAgrees
    <3>2. entity'[merge[m].source] = entity[merge[m].source]
      <4>1. CASE merge[m].source \in Entities
        BY <1>2, <1>4, <3>1, <4>1
      <4>2. CASE merge[m].source \notin Entities
        BY <1>1, <4>2, TypesAre DEF MergeEntity, s
      <4>3. QED
        BY <4>1, <4>2
    <3>3. QED
      BY <3>1, <3>2
  <2>4. QED
    BY <2>2, <2>3
<1>7. \A m, n \in Applied' : merge'[m].source = merge'[n].source => m = n
  BY <1>3, <1>4 DEF LedgerAgrees
<1>8. NoMergeCycle'
  <2>1. SUFFICES ASSUME NEW S \in SUBSET Entities, S # {},
                        \A e \in S : entity'[e].status = "merged" /\ entity'[e].into \in S
                 PROVE  FALSE
    BY DEF NoMergeCycle
  <2>2. s \notin S
    BY <1>1, <1>2, <2>1 DEF Active
  <2>3. \A e \in S : entity'[e] = entity[e]
    BY <1>2, <2>2
  <2>4. QED
    BY <2>1, <2>3 DEF NoMergeCycle
<1>9. QED
  BY <1>5, <1>6, <1>7, <1>8 DEF LedgerAgrees

LEMMA LedgerRollback ==
    ASSUME TypeOK, LedgerAgrees, NoMergeCycle, MappingsOk,
           NEW m \in Merges, RollbackEntityMerge(m)
    PROVE  LedgerAgrees' /\ NoMergeCycle'
<1> DEFINE s == merge[m].source
<1>1. m \in Applied /\ s \in Entities
  BY DEF Applied, MappingsOk, RollbackEntityMerge
<1>2. /\ entity'[s].status = "active"
      /\ \A e \in Entities : e # s => entity'[e] = entity[e]
  BY <1>1, TypesAre DEF RollbackEntityMerge
<1>3. /\ merge'[m].status = "rolled_back"
      /\ \A n \in Merges : n # m => merge'[n] = merge[n]
  BY TypesAre DEF RollbackEntityMerge, MergeType
<1>4. \A n \in Merges : n \in Applied' <=> n \in Applied /\ n # m
  BY <1>1, <1>3 DEF Applied
<1>5. \A n \in Applied' : n \in Applied /\ n \in Merges /\ merge'[n] = merge[n] /\ merge[n].source # s
                         /\ merge[n].source \in Entities
  BY <1>1, <1>3, <1>4 DEF Applied, LedgerAgrees, MappingsOk
<1> HIDE DEF s
<1>6. \A e \in Entities :
        entity'[e].status = "merged" =>
           \E n \in Applied' : merge'[n].source = e /\ merge'[n].target = entity'[e].into
  <2>1. SUFFICES ASSUME NEW e \in Entities, entity'[e].status = "merged"
                 PROVE  \E n \in Applied' :
                           merge'[n].source = e /\ merge'[n].target = entity'[e].into
    OBVIOUS
  <2>2. e # s /\ entity'[e] = entity[e]
    BY <1>2, <2>1
  <2>3. PICK n \in Applied : merge[n].source = e /\ merge[n].target = entity[e].into
    BY <2>1, <2>2 DEF LedgerAgrees
  <2>4. n \in Applied' /\ merge'[n] = merge[n]
    BY <1>3, <1>4, <2>2, <2>3 DEF Applied, s
  <2>5. QED
    BY <2>2, <2>3, <2>4
<1>7. \A n \in Applied' : entity'[merge'[n].source].status = "merged"
  BY <1>2, <1>5 DEF LedgerAgrees
<1>8. \A k, n \in Applied' : merge'[k].source = merge'[n].source => k = n
  BY <1>5 DEF LedgerAgrees
<1>9. NoMergeCycle'
  <2>1. SUFFICES ASSUME NEW S \in SUBSET Entities, S # {},
                        \A e \in S : entity'[e].status = "merged" /\ entity'[e].into \in S
                 PROVE  FALSE
    BY DEF NoMergeCycle
  <2>2. \A e \in S : entity'[e] = entity[e]
    BY <1>2, <2>1
  <2>3. QED
    BY <2>1, <2>2 DEF NoMergeCycle
<1>10. QED
  BY <1>6, <1>7, <1>8, <1>9 DEF LedgerAgrees

LEMMA LedgerDelete ==
    ASSUME TypeOK, LedgerAgrees, NoMergeCycle, NEW d \in Entities, DeleteEntity(d)
    PROVE  LedgerAgrees' /\ NoMergeCycle'
<1>1. merge' = merge /\ Applied' = Applied
  BY DEF DeleteEntity, Applied
<1>2. /\ entity[d].status = "active" /\ entity'[d].status = "deleted"
      /\ \A e : e # d => entity'[e] = entity[e]
  BY TypesAre DEF DeleteEntity, Lockable, Active, EntityType
<1>3. \A e \in Entities : entity'[e].status = "merged" => entity'[e] = entity[e]
  BY <1>2
<1>4. \A m \in Applied : merge[m].source # d
  BY <1>2 DEF LedgerAgrees
<1>5. LedgerAgrees'
  BY <1>1, <1>2, <1>3, <1>4 DEF LedgerAgrees
<1>6. NoMergeCycle'
  <2>1. SUFFICES ASSUME NEW S \in SUBSET Entities, S # {},
                        \A e \in S : entity'[e].status = "merged" /\ entity'[e].into \in S
                 PROVE  FALSE
    BY DEF NoMergeCycle
  <2>2. \A e \in S : entity'[e] = entity[e]
    BY <1>3, <2>1
  <2>3. QED
    BY <2>1, <2>2 DEF NoMergeCycle
<1>7. QED
  BY <1>5, <1>6

LEMMA LedgerSame ==
    ASSUME LedgerAgrees, NoMergeCycle, UNCHANGED <<entity, merge>>
    PROVE  LedgerAgrees' /\ NoMergeCycle'
  BY DEF LedgerAgrees, NoMergeCycle, Applied

-----------------------------------------------------------------------------
(* Versions of a claim.                                                    *)

LEMMA MappingClaims ==
    ASSUME TypeOK
    PROVE  \A m \in Merges : \A x \in merge[m].claims :
              x.old \in Claims /\ x.new \in Claims /\ x.status \in {"proposed", "published"}
  BY TypesAre DEF MergeType, Mapping

(* Steps that leave the ledger and every claim that is neither new nor      *)
(* current alone.                                                          *)
LEMMA VersionsKept ==
    ASSUME TypeOK, MappingsOk, OneVersion, merge' = merge,
           \A c \in Claims : c \in Fresh \/ c \in Current \/ claim'[c] = claim[c],
           \A c \in Claims : c \in Fresh' => c \in Fresh
    PROVE  MappingsOk' /\ OneVersion'
<1>1. Applied' = Applied
  BY DEF Applied
<1>2. MappingsOk'
  <2>1. \A m \in Merges : \A x \in merge[m].claims : x.old \notin Fresh' /\ x.new \notin Fresh'
    BY MappingClaims DEF MappingsOk
  <2>2. QED
    BY <1>1, <2>1 DEF MappingsOk
<1>3. \A c \in Claims : c \notin Fresh /\ c \notin Current => c \notin Current'
  BY DEF Current
<1>4. ASSUME NEW m \in Merges, NEW x \in merge[m].claims
      PROVE  /\ m \in Applied => x.old \notin Current'
             /\ m \notin Applied => x.new \notin Current'
  BY <1>3, MappingClaims DEF MappingsOk, OneVersion
<1>5. OneVersion'
  BY <1>1, <1>4 DEF OneVersion
<1>6. QED
  BY <1>2, <1>5

LEMMA VersionsWriteClaim ==
    ASSUME TypeOK, LocksHold, MappingsOk, OneVersion, NEW w \in Writers, WriteClaim(w)
    PROVE  MappingsOk' /\ OneVersion'
<1> DEFINE t == writer[w]
<1>1. t.claim \in Statement
  BY DEF LocksHold, WriteClaim, Doing, WriterOk
<1>2. NewClaim \in Fresh /\ (t.old # None => t.old \in Published)
  BY NewClaimIsFresh, OldIsPublished DEF WriteClaim
<1>3. \A c \in Claims : c \in Fresh \/ c \in Current \/ claim'[c] = claim[c]
  BY <1>2, EntityMergeAssumption DEF WriteClaim, Published, Current
<1>4. \A c \in Claims : c \in Fresh' => c \in Fresh
  <2>1. SUFFICES ASSUME NEW c \in Claims, c \notin Fresh PROVE claim'[c].status # "none"
    BY DEF Fresh
  <2>2. c # NewClaim /\ claim[c].status # "none"
    BY <1>2, <2>1 DEF Fresh
  <2>3. CASE c = t.old
    <3>1. claim'[c] = [claim[c] EXCEPT !.status = "superseded"] /\ claim[c] \in ClaimType
      BY <2>2, <2>3, TypesAre DEF WriteClaim
    <3>2. QED
      BY <3>1 DEF ClaimType
  <2>4. CASE c # t.old
    BY <2>2, <2>4 DEF WriteClaim
  <2>5. QED
    BY <2>3, <2>4
<1>5. merge' = merge
  BY DEF WriteClaim
<1>6. QED
  BY <1>3, <1>4, <1>5, VersionsKept

LEMMA VersionsSetStatus ==
    ASSUME TypeOK, MappingsOk, OneVersion, NEW c \in Current,
           NEW status \in Statuses \ {"none"}, SetStatus(c, status)
    PROVE  MappingsOk' /\ OneVersion'
<1>1. c \in Claims
  BY DEF Current
<1>2. claim'[c] = [claim[c] EXCEPT !.status = status] /\ claim[c] \in ClaimType
  BY <1>1, TypesAre DEF SetStatus
<1>3. \A d \in Claims : d # c => claim'[d] = claim[d]
  BY TypesAre DEF SetStatus
<1>4. claim'[c].status # "none"
  BY <1>2 DEF ClaimType
<1>5. \A d \in Claims : d \in Fresh' => d \in Fresh
  BY <1>3, <1>4 DEF Fresh
<1>6. merge' = merge
  BY DEF SetStatus
<1>7. QED
  BY <1>3, <1>5, <1>6, VersionsKept

LEMMA CompensatedIsPast ==
    \A status : Compensated(status) \in {"deprecated", "rejected"}
  BY DEF Compensated

(* After a merge: what is neither selected nor new is as it was.            *)
LEMMA VersionsMergeEntity ==
    ASSUME TypeOK, MappingsOk, OneVersion, LocksHold, NEW w \in Writers, MergeEntity(w)
    PROVE  MappingsOk' /\ OneVersion'
<1> DEFINE C == Selected(w)
           id == NewIds(C)
           n == NewMerge
<1>1. /\ id \in [C -> Fresh]
      /\ \A a, b \in C : id[a] = id[b] => a = b
      /\ \A c \in C : /\ claim'[c] = [claim[c] EXCEPT !.status = Compensated(@)]
                      /\ claim'[id[c]] = Copied(c, writer[w].source, writer[w].target)
      /\ \A x \in Claims : x \notin C /\ (\A c \in C : id[c] # x) => claim'[x] = claim[x]
  BY ClaimsMerged
<1>2. /\ n \in Merges /\ merge[n].status = "none" /\ merge'[n].status = "applied"
      /\ merge'[n].source = writer[w].source /\ merge'[n].target = writer[w].target
      /\ \A x \in merge'[n].claims :
            x.old \in C /\ x.new = id[x.old] /\ x.status = claim[x.old].status
      /\ \A x, y \in merge'[n].claims : x.old = y.old => x = y
      /\ \A m \in Merges : m # n => merge'[m] = merge[m]
      /\ \A m \in Merges : m \in Applied' <=> m = n \/ m \in Applied
      /\ Applied \subseteq Merges /\ Applied' \subseteq Merges
  BY MergeRecorded DEF Applied
<1>3. C \subseteq Current /\ C \subseteq Claims /\ Fresh \subseteq Claims /\ Fresh \cap Current = {}
  BY SelectedAreCurrent
<1>4. writer[w].source \in Entities /\ writer[w].target \in Entities
  BY MergedAreActive
<1> HIDE DEF C, id, n
<1>5. \A c \in C : /\ claim'[c].status \in {"deprecated", "rejected"}
                   /\ claim'[id[c]].status = claim[c].status
  <2>1. TAKE c \in C
  <2>2. claim[c] \in ClaimType
    BY <1>3, TypesAre
  <2>3. claim'[c] = [claim[c] EXCEPT !.status = Compensated(@)]
    BY <1>1
  <2>4. claim[c] \in ClaimType /\ claim'[c].status = Compensated(claim[c].status)
    BY <2>2, <2>3 DEF ClaimType
  <2>5. claim'[id[c]].status = claim[c].status
    BY <1>1, <2>2 DEF Copied, ClaimType
  <2>6. QED
    BY <2>4, <2>5, CompensatedIsPast
<1>6. \A c \in C : /\ c \notin Fresh' /\ c \notin Current'
                   /\ id[c] \notin Fresh'
  BY <1>3, <1>5 DEF Fresh, Current
<1>7. \A c \in Claims : c \notin Fresh =>
        /\ c \notin Fresh'
        /\ c \notin Current => claim'[c] = claim[c] /\ c \notin Current'
  <2>1. SUFFICES ASSUME NEW c \in Claims, c \notin Fresh
                 PROVE  /\ c \notin Fresh'
                        /\ c \notin Current => claim'[c] = claim[c] /\ c \notin Current'
    OBVIOUS
  <2>2. CASE c \in C
    BY <1>3, <1>6, <2>2
  <2>3. CASE c \notin C
    <3>1. claim'[c] = claim[c]
      BY <1>1, <2>1, <2>3
    <3>2. QED
      BY <2>1, <3>1 DEF Fresh, Current
  <2>4. QED
    BY <2>2, <2>3
<1>8. n \notin Applied /\ merge[n].claims = {}
  BY <1>2 DEF Applied, MappingsOk
<1>9. \A m \in Merges : m # n => \A x \in merge[m].claims :
        x.old \in Claims /\ x.new \in Claims /\ x.old \notin Fresh /\ x.new \notin Fresh
  BY MappingClaims DEF MappingsOk
<1>10. MappingsOk'
  <2>1. \A m \in Merges : merge'[m].status = "none" => merge'[m].claims = {}
    BY <1>2 DEF MappingsOk
  <2>2. \A m \in Merges : merge'[m].status # "none" =>
          merge'[m].source \in Entities /\ merge'[m].target \in Entities
    BY <1>2, <1>4 DEF MappingsOk
  <2>3. \A m \in Merges : \A x \in merge'[m].claims : x.old \notin Fresh' /\ x.new \notin Fresh'
    <3>1. \A x \in merge'[n].claims : x.old \notin Fresh' /\ x.new \notin Fresh'
      BY <1>2, <1>6
    <3>2. \A m \in Merges : m # n =>
            \A x \in merge[m].claims : x.old \notin Fresh' /\ x.new \notin Fresh'
      BY <1>7, <1>9
    <3>3. QED
      BY <1>2, <3>1, <3>2
  <2>4. \A m \in Merges : \A x, y \in merge'[m].claims : x.old # y.new
    <3>1. \A x, y \in merge'[n].claims : x.old # y.new
      BY <1>1, <1>2, <1>3
    <3>2. QED
      BY <1>2, <3>1 DEF MappingsOk
  <2>5. \A m \in Merges : \A x, y \in merge'[m].claims :
          x.new = y.new \/ x.old = y.old => x = y
    <3>1. \A x, y \in merge'[n].claims : x.new = y.new \/ x.old = y.old => x = y
      BY <1>1, <1>2
    <3>2. QED
      BY <1>2, <3>1 DEF MappingsOk
  <2>6. \A m, k \in Applied' : \A x \in merge'[m].claims, y \in merge'[k].claims :
          x.old = y.old => m = k
    <3>1. \A k \in Applied : \A x \in merge'[n].claims, y \in merge[k].claims : x.old # y.old
      BY <1>2, <1>3 DEF OneVersion
    <3>2. QED
      BY <1>2, <3>1 DEF MappingsOk
  <2>7. QED
    BY <2>1, <2>2, <2>3, <2>4, <2>5, <2>6 DEF MappingsOk
<1>11. \A m \in Applied' : \A x \in merge'[m].claims : x.old \notin Current'
  <2>1. \A x \in merge'[n].claims : x.old \notin Current'
    BY <1>2, <1>6
  <2>2. \A m \in Applied : m # n => \A x \in merge[m].claims : x.old \notin Current'
    BY <1>2, <1>7, <1>9 DEF OneVersion
  <2>3. QED
    BY <1>2, <2>1, <2>2
<1>12. ASSUME NEW m \in Merges, m \notin Applied', NEW x \in merge'[m].claims
       PROVE  /\ x.new \notin Current'
              /\ \A k \in Applied' : \A y \in merge'[k].claims : y.old # x.new
  <2>1. m # n /\ m \notin Applied /\ x \in merge[m].claims
    BY <1>2, <1>12
  <2>2. x.new \notin Current /\ \A k \in Applied : \A y \in merge[k].claims : y.old # x.new
    BY <2>1 DEF OneVersion
  <2>3. x.new \notin Current'
    BY <1>7, <1>9, <2>1, <2>2
  <2>4. \A y \in merge'[n].claims : y.old # x.new
    BY <1>2, <1>3, <2>2
  <2>5. QED
    BY <1>2, <2>2, <2>3, <2>4
<1>13. OneVersion'
  BY <1>11, <1>12 DEF OneVersion
<1>14. QED
  BY <1>10, <1>13

(* What RollbackEntityMerge(m) does to the ledger.                         *)
LEMMA RollbackRecorded ==
    ASSUME TypeOK, NEW m \in Merges, RollbackEntityMerge(m)
    PROVE  /\ m \in Applied
           /\ merge'[m] = [merge[m] EXCEPT !.status = "rolled_back"]
           /\ merge'[m].status = "rolled_back" /\ merge'[m].claims = merge[m].claims
           /\ merge'[m].source = merge[m].source /\ merge'[m].target = merge[m].target
           /\ \A n \in Merges : n # m => merge'[n] = merge[n]
           /\ \A n \in Merges : n \in Applied' <=> n \in Applied /\ n # m
<1>1. merge'[m] = [merge[m] EXCEPT !.status = "rolled_back"] /\ merge[m] \in MergeType
  BY TypesAre DEF RollbackEntityMerge
<1>2. /\ merge'[m].status = "rolled_back" /\ merge'[m].claims = merge[m].claims
      /\ merge'[m].source = merge[m].source /\ merge'[m].target = merge[m].target
  BY <1>1 DEF MergeType
<1>3. \A n \in Merges : n # m => merge'[n] = merge[n]
  BY TypesAre DEF RollbackEntityMerge
<1>4. m \in Applied
  BY DEF RollbackEntityMerge, Applied
<1>5. \A n \in Merges : n \in Applied' <=> n \in Applied /\ n # m
  BY <1>2, <1>3, <1>4 DEF Applied
<1>6. QED
  BY <1>1, <1>2, <1>3, <1>4, <1>5

(* What it writes was current, what it restores was not, and neither is in  *)
(* use by another merge.                                                   *)
LEMMA RollbackTouches ==
    ASSUME TypeOK, MappingsOk, OneVersion, NEW m \in Merges, RollbackEntityMerge(m),
           NEW x \in merge[m].claims
    PROVE  /\ x.new \in Current /\ claim[x.new].status = x.status
           /\ x.old \notin Current
           /\ claim'[x.old] = [claim[x.old] EXCEPT !.status = x.status]
           /\ claim'[x.old].status = x.status /\ claim'[x.old].subject = claim[x.old].subject
           /\ claim'[x.old].property = claim[x.old].property
           /\ claim'[x.new].status \in {"deprecated", "rejected"}
           /\ claim'[x.new].subject = claim[x.new].subject
           /\ claim'[x.new].property = claim[x.new].property
<1>1. x.old \in Claims /\ x.new \in Claims /\ x.status \in {"proposed", "published"}
  BY MappingClaims
<1>2. claim[x.old] \in ClaimType /\ claim[x.new] \in ClaimType
  BY <1>1, TypesAre
<1>3. claim[x.new].status = x.status /\ claim[x.old].status = Compensated(x.status)
  BY DEF RollbackEntityMerge, AsMigrated
<1>4. x.new \in Current /\ x.old \notin Current
  BY <1>1, <1>3, CompensatedIsPast DEF Current
<1>5. \A y \in merge[m].claims : y.new # x.old /\ (y.old = x.old => y = x)
  BY DEF MappingsOk
<1>6. PICK y \in merge[m].claims :
         y.old = x.old /\ claim'[x.old] = [claim[x.old] EXCEPT !.status = y.status]
  BY <1>1, <1>5, ClaimsRestored
<1>7. claim'[x.old] = [claim[x.old] EXCEPT !.status = x.status]
  BY <1>5, <1>6
<1>8. claim'[x.new] = [claim[x.new] EXCEPT !.status = Compensated(@)]
  BY ClaimsRestored
<1>9. /\ claim'[x.new].status = Compensated(claim[x.new].status)
      /\ claim'[x.new].subject = claim[x.new].subject
      /\ claim'[x.new].property = claim[x.new].property
  BY <1>2, <1>8 DEF ClaimType
<1>10. /\ claim'[x.old].status = x.status /\ claim'[x.old].subject = claim[x.old].subject
       /\ claim'[x.old].property = claim[x.old].property
  BY <1>2, <1>7 DEF ClaimType
<1>11. QED
  BY <1>3, <1>4, <1>7, <1>9, <1>10, CompensatedIsPast

LEMMA VersionsRollback ==
    ASSUME TypeOK, MappingsOk, OneVersion, NEW m \in Merges, RollbackEntityMerge(m)
    PROVE  MappingsOk' /\ OneVersion'
<1> DEFINE X == merge[m].claims
<1>1. \A x \in X : /\ x.new \in Current /\ x.old \notin Current
                   /\ claim'[x.old].status = x.status
                   /\ claim'[x.new].status \in {"deprecated", "rejected"}
                   /\ x.status \in {"proposed", "published"}
  <2>1. TAKE x \in X
  <2>2. x.status \in {"proposed", "published"}
    BY MappingClaims
  <2>3. QED
    BY <2>2, RollbackTouches
<1>2. \A c \in Claims : (\A x \in X : x.new # c /\ x.old # c) => claim'[c] = claim[c]
  BY ClaimsRestored
<1>3. \A c \in Claims : c \notin Fresh => c \notin Fresh'
  <2>1. SUFFICES ASSUME NEW c \in Claims, claim[c].status # "none"
                 PROVE  claim'[c].status # "none"
    BY DEF Fresh
  <2>2. QED
    BY <1>1, <1>2, <2>1
<1>4. /\ m \in Applied /\ merge'[m].claims = X /\ merge'[m].status = "rolled_back"
      /\ merge'[m].source = merge[m].source /\ merge'[m].target = merge[m].target
      /\ \A n \in Merges : n # m => merge'[n] = merge[n]
      /\ \A n \in Merges : n \in Applied' <=> n \in Applied /\ n # m
      /\ Applied' \subseteq Merges /\ Applied \subseteq Merges
  BY RollbackRecorded DEF Applied
<1>5. \A n \in Merges : merge'[n].claims = merge[n].claims
  BY <1>4
<1>6. \A n \in Merges : \A x \in merge[n].claims :
        x.old \in Claims /\ x.new \in Claims /\ x.old \notin Fresh /\ x.new \notin Fresh
  BY MappingClaims DEF MappingsOk
<1>7. MappingsOk'
  <2>1. \A n \in Merges : merge'[n].status = "none" => merge'[n].claims = {}
    BY <1>4 DEF MappingsOk
  <2>2. \A n \in Merges : merge'[n].status # "none" =>
          merge'[n].source \in Entities /\ merge'[n].target \in Entities
    BY <1>4 DEF MappingsOk, Applied
  <2>3. \A n \in Merges : \A x \in merge'[n].claims : x.old \notin Fresh' /\ x.new \notin Fresh'
    BY <1>3, <1>5, <1>6
  <2>4. \A n \in Merges : \A x, y \in merge'[n].claims :
          /\ x.old # y.new
          /\ x.new = y.new \/ x.old = y.old => x = y
    BY <1>5 DEF MappingsOk
  <2>5. \A k, n \in Applied' : \A x \in merge'[k].claims, y \in merge'[n].claims :
          x.old = y.old => k = n
    BY <1>4, <1>5 DEF MappingsOk
  <2>6. QED
    BY <2>1, <2>2, <2>3, <2>4, <2>5 DEF MappingsOk
<1> HIDE DEF X
<1>8. ASSUME NEW c \in Claims, c \notin Current, \A x \in X : x.old # c
      PROVE  c \notin Current'
  <2>1. claim'[c] = claim[c]
    BY <1>1, <1>2, <1>8
  <2>2. QED
    BY <1>8, <2>1 DEF Current
<1>9. \A n \in Applied' : \A x \in merge'[n].claims : x.old \notin Current'
  <2>1. SUFFICES ASSUME NEW n \in Applied', NEW x \in merge[n].claims
                 PROVE  x.old \notin Current'
    BY <1>4, <1>5
  <2>2. n \in Merges /\ n \in Applied /\ n # m
    BY <1>4
  <2>3. x.old \in Claims /\ x.old \notin Current
    BY <1>6, <2>2 DEF OneVersion
  <2>4. \A y \in X : y.old # x.old
    BY <1>4, <2>2 DEF MappingsOk, X
  <2>5. QED
    BY <1>8, <2>3, <2>4
<1>10. ASSUME NEW n \in Merges, n \notin Applied', NEW x \in merge'[n].claims
       PROVE  /\ x.new \notin Current'
              /\ \A k \in Applied' : \A y \in merge'[k].claims : y.old # x.new
  <2>1. x \in merge[n].claims
    BY <1>5, <1>10
  <2>2. CASE n = m
    <3>1. x \in X
      BY <2>1, <2>2 DEF X
    <3>2. x.new \in Current /\ claim'[x.new].status \in {"deprecated", "rejected"}
      BY <1>1, <3>1
    <3>3. x.new \notin Current'
      BY <3>2 DEF Current
    <3>4. \A k \in Applied : \A y \in merge[k].claims : y.old # x.new
      BY <1>4, <3>2 DEF OneVersion
    <3>5. QED
      BY <1>4, <1>5, <3>3, <3>4
  <2>3. CASE n # m
    <3>1. n \notin Applied
      BY <1>4, <1>10, <2>3
    <3>2. x.new \notin Current /\ \A k \in Applied : \A y \in merge[k].claims : y.old # x.new
      BY <2>1, <3>1 DEF OneVersion
    <3>3. \A y \in X : y.old # x.new
      BY <1>4, <3>2 DEF X
    <3>4. x.new \notin Current'
      BY <1>6, <1>8, <2>1, <3>2, <3>3
    <3>5. QED
      BY <1>4, <1>5, <3>2, <3>4
  <2>4. QED
    BY <2>2, <2>3
<1>11. OneVersion'
  BY <1>9, <1>10 DEF OneVersion
<1>12. QED
  BY <1>7, <1>11

LEMMA VersionsSame ==
    ASSUME MappingsOk, OneVersion, UNCHANGED <<claim, merge>>
    PROVE  MappingsOk' /\ OneVersion'
  BY DEF MappingsOk, OneVersion, Applied, Current, Fresh

-----------------------------------------------------------------------------
(* Properties with one value.                                              *)

(* No step changes the subject or property of a claim in use.               *)
StatementsKept ==
    \A c \in Claims : c \notin Fresh =>
        claim'[c].subject = claim[c].subject /\ claim'[c].property = claim[c].property

LEMMA CopiesKept ==
    ASSUME TypeOK, MappingsOk, CopiesOk, StatementsKept,
           \A m \in Merges : merge'[m].claims = merge[m].claims
                             /\ merge'[m].source = merge[m].source
    PROVE  CopiesOk'
<1>1. \A m \in Merges : \A x \in merge[m].claims :
        x.old \in Claims /\ x.new \in Claims /\ x.old \notin Fresh /\ x.new \notin Fresh
  BY MappingClaims DEF MappingsOk
<1>2. SUFFICES ASSUME NEW m \in Merges, NEW x \in merge[m].claims
               PROVE  /\ claim'[x.new].property = claim'[x.old].property
                      /\ claim'[x.old].subject # merge[m].source =>
                            claim'[x.new].subject = claim'[x.old].subject
  BY DEF CopiesOk
<1>3. /\ claim'[x.new].property = claim[x.new].property
      /\ claim'[x.new].subject = claim[x.new].subject
      /\ claim'[x.old].property = claim[x.old].property
      /\ claim'[x.old].subject = claim[x.old].subject
  BY <1>1 DEF StatementsKept
<1>4. QED
  BY <1>3 DEF CopiesOk

(* Steps that publish a claim of a property with one value only of an       *)
(* active subject leave what merges vacated vacant.                        *)
LEMMA VacatedKept ==
    ASSUME TypeOK, MappingsOk, LedgerAgrees, Vacated, StatementsKept, merge' = merge,
           \A c \in Claims :
              c \in Published' /\ claim'[c].property \in SingleValued
                => c \in Published \/ Active(claim'[c].subject)
    PROVE  Vacated'
<1>1. \A m \in Merges : \A x \in merge[m].claims :
        /\ x.old \in Claims /\ x.old \notin Fresh
        /\ claim'[x.old].subject = claim[x.old].subject
        /\ claim'[x.old].property = claim[x.old].property
  BY MappingClaims DEF MappingsOk, StatementsKept
<1>2. Applied' = Applied /\ Applied \subseteq Merges
  BY DEF Applied
<1>3. ASSUME NEW m \in Applied, NEW x \in merge[m].claims, x.status = "published",
             claim'[x.old].subject = merge[m].source, claim'[x.old].property \in SingleValued
      PROVE  /\ \A c \in Published' : ~Same(c, x.old)'
             /\ \A y \in merge[m].claims :
                   y.status = "published" /\ Same(y.old, x.old)' => y = x
  <2>1. /\ \A c \in Published : ~Same(c, x.old)
        /\ \A y \in merge[m].claims : y.status = "published" /\ Same(y.old, x.old) => y = x
    BY <1>1, <1>2, <1>3 DEF Vacated
  <2>2. ASSUME NEW c \in Published', Same(c, x.old)' PROVE FALSE
    <3>1. c \in Claims
      BY DEF Published
    <3>2. claim'[c].subject = merge[m].source /\ claim'[c].property \in SingleValued
      BY <1>3, <2>2 DEF Same
    <3>3. ~Active(merge[m].source)
      BY DEF LedgerAgrees, Active
    <3>4. c \in Published
      BY <3>1, <3>2, <3>3
    <3>5. Same(c, x.old)
      BY <1>1, <1>2, <2>2, <3>1, <3>4 DEF Same, StatementsKept, Published, Fresh
    <3>6. QED
      BY <2>1, <3>4, <3>5
  <2>3. \A y \in merge[m].claims : Same(y.old, x.old)' => Same(y.old, x.old)
    BY <1>1, <1>2 DEF Same
  <2>4. QED
    BY <2>1, <2>2, <2>3
<1>4. QED
  BY <1>2, <1>3 DEF Vacated

LEMMA ValuesWriteClaim ==
    ASSUME IInv, NEW w \in Writers, WriteClaim(w)
    PROVE  CopiesOk' /\ Vacated' /\ SingleValueHolds'
<1> USE DEF IInv
<1> DEFINE t == writer[w]
<1>1. t.claim \in Statement /\ t.claim.subject \in Entities /\ Active(t.claim.subject)
  BY DEF LocksHold, WriteClaim, Doing, WriterOk, EntityLocks, Statement
<1>2. NewClaim \in Fresh /\ NewClaim \in Claims /\ NewClaim \notin Published
  BY NewClaimIsFresh DEF WriteClaim, Fresh, Published
<1>3. claim'[NewClaim] = t.claim
  BY <1>2 DEF WriteClaim
<1>4. ASSUME NEW c \in Claims, c # NewClaim
      PROVE  /\ claim'[c].subject = claim[c].subject /\ claim'[c].property = claim[c].property
             /\ c \in Published' => c \in Published /\ c # t.old
  <2>1. claim[c] \in ClaimType
    BY TypesAre
  <2>2. CASE c = t.old
    <3>1. claim'[c] = [claim[c] EXCEPT !.status = "superseded"]
      BY <1>4, <2>2 DEF WriteClaim
    <3>2. QED
      BY <2>1, <3>1 DEF ClaimType, Published
  <2>3. CASE c # t.old
    <3>1. claim'[c] = claim[c]
      BY <1>4, <2>3 DEF WriteClaim
    <3>2. QED
      BY <2>3, <3>1 DEF Published
  <2>4. QED
    BY <2>2, <2>3
<1>5. StatementsKept
  BY <1>2, <1>4 DEF StatementsKept
<1>6. merge' = merge
  BY DEF WriteClaim
<1>7. CopiesOk'
  BY <1>5, <1>6, CopiesKept
<1>8. Vacated'
  <2>1. \A c \in Claims : c \in Published' => c \in Published \/ Active(claim'[c].subject)
    BY <1>1, <1>3, <1>4
  <2>2. QED
    BY <1>5, <1>6, <2>1, VacatedKept
<1>9. ASSUME NEW c \in Published', c # NewClaim, claim'[c].property \in SingleValued,
             claim'[c].subject = t.claim.subject, claim'[c].property = t.claim.property
      PROVE  FALSE
  <2>1. /\ c \in Published /\ c # t.old
        /\ claim[c].subject = t.claim.subject /\ claim[c].property = t.claim.property
    BY <1>4, <1>9 DEF Published
  <2>2. t.claim.property \in SingleValued
    BY <1>9
  <2>3. CASE t.old = None
    BY <2>1, <2>2, <2>3 DEF CountsHold, CountHolds, WriteClaim, Doing, Taken
  <2>4. CASE t.old # None
    <3>1. t.old \in Published /\ claim[t.old].subject = t.claim.subject
          /\ claim[t.old].property = t.claim.property
      BY <2>4, OldIsPublished DEF LocksHold, WriterOk
    <3>2. QED
      BY <2>1, <2>2, <3>1 DEF SingleValueHolds
  <2>5. QED
    BY <2>3, <2>4
<1>10. SingleValueHolds'
  <2>1. SUFFICES ASSUME NEW c \in Published', NEW d \in Published', Same(c, d)',
                        claim'[c].property \in SingleValued
                 PROVE  c = d
    BY DEF SingleValueHolds, Same
  <2>2. c \in Claims /\ d \in Claims
    BY DEF Published
  <2>3. CASE c = NewClaim \/ d = NewClaim
    BY <1>3, <1>9, <2>1, <2>3 DEF Same
  <2>4. CASE c # NewClaim /\ d # NewClaim
    BY <1>4, <2>1, <2>2, <2>4 DEF Same, SingleValueHolds
  <2>5. QED
    BY <2>3, <2>4
<1>11. QED
  BY <1>7, <1>8, <1>10

LEMMA ValuesSetStatus ==
    ASSUME IInv, NEW c \in Claims, c \notin Fresh, NEW status \in Statuses, SetStatus(c, status),
           status = "published" /\ claim[c].property \in SingleValued =>
              Active(claim[c].subject) /\ ~Taken(claim[c].subject, claim[c].property)
    PROVE  CopiesOk' /\ Vacated' /\ SingleValueHolds'
<1> USE DEF IInv
<1>1. claim'[c] = [claim[c] EXCEPT !.status = status] /\ claim[c] \in ClaimType
  BY TypesAre DEF SetStatus
<1>2. /\ claim'[c].subject = claim[c].subject /\ claim'[c].property = claim[c].property
      /\ claim'[c].status = status
  BY <1>1 DEF ClaimType
<1>3. \A d \in Claims : d # c => claim'[d] = claim[d]
  BY TypesAre DEF SetStatus
<1>4. StatementsKept
  BY <1>2, <1>3 DEF StatementsKept
<1>5. \A d \in Claims : /\ claim'[d].subject = claim[d].subject
                        /\ claim'[d].property = claim[d].property
                        /\ d \in Published' => d \in Published \/ (d = c /\ status = "published")
  BY <1>2, <1>3 DEF Published
<1>6. merge' = merge
  BY DEF SetStatus
<1>7. CopiesOk'
  BY <1>4, <1>6, CopiesKept
<1>8. Vacated'
  BY <1>4, <1>5, <1>6, VacatedKept
<1>9. SingleValueHolds'
  <2>1. SUFFICES ASSUME NEW a \in Published', NEW b \in Published', Same(a, b)',
                        claim'[a].property \in SingleValued
                 PROVE  a = b
    BY DEF SingleValueHolds, Same
  <2>2. a \in Claims /\ b \in Claims
    BY DEF Published
  <2>3. Same(a, b) /\ claim[a].property \in SingleValued
    BY <1>5, <2>1, <2>2 DEF Same
  <2>4. CASE a \in Published /\ b \in Published
    BY <2>3, <2>4 DEF Same, SingleValueHolds
  <2>5. CASE a \notin Published \/ b \notin Published
    <3>1. status = "published" /\ (a = c \/ b = c)
      BY <1>5, <2>2, <2>5
    <3>2. claim[c].subject = claim[a].subject /\ claim[c].property = claim[a].property
      BY <2>3, <3>1 DEF Same
    <3>3. a \notin Published /\ b \notin Published
      BY <2>3, <3>1, <3>2 DEF Taken, Same
    <3>4. QED
      BY <1>5, <2>2, <3>3
  <2>6. QED
    BY <2>4, <2>5
<1>10. QED
  BY <1>7, <1>8, <1>9

(* What a merge does to statements: a copy says of the target what was said  *)
(* of the source.                                                          *)
LEMMA MergedStatements ==
    ASSUME TypeOK, LocksHold, CountsHold, NEW w \in Writers, MergeEntity(w)
    PROVE  LET s == writer[w].source
               t == writer[w].target
               id == NewIds(Selected(w))
           IN
           /\ \A c \in Selected(w) :
                /\ c \in Current /\ c \in Claims
                /\ claim[c].subject # t
                /\ id[c] \in Fresh
                /\ claim'[id[c]].status = claim[c].status
                /\ claim'[id[c]].property = claim[c].property
                /\ claim'[id[c]].subject = IF claim[c].subject = s THEN t ELSE claim[c].subject
           /\ \A c \in Claims : c \notin Fresh =>
                /\ claim'[c].subject = claim[c].subject
                /\ claim'[c].property = claim[c].property
           /\ \A c \in Claims : c \in Published' =>
                \/ c \in Published /\ c \notin Selected(w)
                \/ \E d \in Selected(w) : c = id[d] /\ d \in Published
<1> DEFINE s == writer[w].source
           t == writer[w].target
           C == Selected(w)
           id == NewIds(C)
<1>1. /\ id \in [C -> Fresh]
      /\ \A c \in C : /\ claim'[c] = [claim[c] EXCEPT !.status = Compensated(@)]
                      /\ claim'[id[c]] = Copied(c, s, t)
      /\ \A x \in Claims : x \notin C /\ (\A c \in C : id[c] # x) => claim'[x] = claim[x]
  BY ClaimsMerged
<1>2. C \subseteq Current /\ C \subseteq Claims /\ Fresh \subseteq Claims /\ Fresh \cap Current = {}
  BY SelectedAreCurrent
<1>3. \A c \in C : claim[c].subject # t
  BY DEF CountsHold, CountHolds, MergeEntity, Doing, Migratable, Mentions, Selected
<1> HIDE DEF C, id, s, t
<1>4. ASSUME NEW c \in C
      PROVE  /\ claim'[id[c]].status = claim[c].status
             /\ claim'[id[c]].property = claim[c].property
             /\ claim'[id[c]].subject = IF claim[c].subject = s THEN t ELSE claim[c].subject
             /\ claim'[c].subject = claim[c].subject
             /\ claim'[c].property = claim[c].property
             /\ claim'[c].status \in {"deprecated", "rejected"}
  <2>1. claim[c] \in ClaimType
    BY <1>2, TypesAre
  <2>2. claim'[c] = [claim[c] EXCEPT !.status = Compensated(@)]
    BY <1>1
  <2>3. claim'[id[c]] = Copied(c, s, t)
    BY <1>1
  <2>4. /\ claim'[c].subject = claim[c].subject
        /\ claim'[c].property = claim[c].property
        /\ claim'[c].status = Compensated(claim[c].status)
    BY <2>1, <2>2 DEF ClaimType
  <2>5. /\ claim'[id[c]].status = claim[c].status
        /\ claim'[id[c]].property = claim[c].property
        /\ claim'[id[c]].subject = IF claim[c].subject = s THEN t ELSE claim[c].subject
    BY <2>1, <2>3 DEF Copied, Moved, ClaimType
  <2>6. QED
    BY <2>4, <2>5, CompensatedIsPast
<1>5. ASSUME NEW c \in Claims, c \notin Fresh
      PROVE  claim'[c].subject = claim[c].subject /\ claim'[c].property = claim[c].property
  <2>1. CASE c \in C
    BY <1>4, <2>1
  <2>2. CASE c \notin C
    BY <1>1, <1>5, <2>2
  <2>3. QED
    BY <2>1, <2>2
<1>6. ASSUME NEW c \in Claims, c \in Published'
      PROVE  \/ c \in Published /\ c \notin C
             \/ \E d \in C : c = id[d] /\ d \in Published
  <2>1. claim'[c].status = "published"
    BY <1>6 DEF Published
  <2>2. c \notin C
    BY <1>4, <2>1
  <2>3. CASE \E d \in C : c = id[d]
    <3>1. PICK d \in C : c = id[d]
      BY <2>3
    <3>2. claim[d].status = "published" /\ d \in Claims
      BY <1>2, <1>4, <2>1, <3>1
    <3>3. QED
      BY <3>1, <3>2 DEF Published
  <2>4. CASE \A d \in C : c # id[d]
    <3>1. claim'[c] = claim[c]
      BY <1>1, <2>2, <2>4
    <3>2. QED
      BY <2>1, <2>2, <3>1 DEF Published
  <2>5. QED
    BY <2>3, <2>4
<1>7. \A c \in C : id[c] \in Fresh
  BY <1>1
<1>8. QED
  BY <1>2, <1>3, <1>4, <1>5, <1>6, <1>7 DEF s, t, C, id

LEMMA ValuesMergeEntity ==
    ASSUME IInv, NEW w \in Writers, MergeEntity(w)
    PROVE  CopiesOk' /\ Vacated' /\ SingleValueHolds'
<1> USE DEF IInv
<1> DEFINE s == writer[w].source
           t == writer[w].target
           C == Selected(w)
           id == NewIds(C)
           n == NewMerge
<1>1. /\ s \in Entities /\ t \in Entities /\ s # t /\ Active(s) /\ Active(t)
  BY MergedAreActive
<1>2. /\ \A c \in C :
           /\ c \in Current /\ c \in Claims
           /\ claim[c].subject # t
           /\ id[c] \in Fresh
           /\ claim'[id[c]].status = claim[c].status
           /\ claim'[id[c]].property = claim[c].property
           /\ claim'[id[c]].subject = IF claim[c].subject = s THEN t ELSE claim[c].subject
      /\ \A c \in Claims : c \notin Fresh =>
           /\ claim'[c].subject = claim[c].subject
           /\ claim'[c].property = claim[c].property
      /\ \A c \in Claims : c \in Published' =>
           \/ c \in Published /\ c \notin C
           \/ \E d \in C : c = id[d] /\ d \in Published
  BY MergedStatements
<1>3. /\ n \in Merges /\ n \notin Applied
      /\ merge'[n].source = s
      /\ \A x \in merge'[n].claims :
            x.old \in C /\ x.new = id[x.old] /\ x.status = claim[x.old].status
      /\ \A x, y \in merge'[n].claims : x.old = y.old => x = y
      /\ \A m \in Merges : m # n => merge'[m] = merge[m]
      /\ \A m \in Merges : m \in Applied' <=> m = n \/ m \in Applied
      /\ Applied \subseteq Merges /\ Applied' \subseteq Merges
  BY MergeRecorded DEF Applied
<1>4. \A p \in SingleValued, c \in C, d \in Published :
        c \in Published /\ claim[c].subject = s /\ claim[c].property = p
        /\ claim[d].subject = t => claim[d].property # p
  BY DEF CountsHold, CountHolds, MergeEntity, Doing, Migratable, Taken, Selected
<1>5. C \cap Fresh = {} /\ Published \cap Fresh = {} /\ Published \subseteq Claims
  BY SelectedAreCurrent DEF Fresh, Published
<1>6. \A m \in Merges : \A x \in merge[m].claims :
        x.old \in Claims /\ x.new \in Claims /\ x.old \notin Fresh /\ x.new \notin Fresh
  BY MappingClaims DEF MappingsOk
<1> HIDE DEF C, id, n, s, t
<1>7. CopiesOk'
  <2>1. SUFFICES ASSUME NEW m \in Merges, NEW x \in merge'[m].claims
                 PROVE  /\ claim'[x.new].property = claim'[x.old].property
                        /\ claim'[x.old].subject # merge'[m].source =>
                              claim'[x.new].subject = claim'[x.old].subject
    BY DEF CopiesOk
  <2>2. CASE m = n
    <3>1. x.old \in C /\ x.new = id[x.old] /\ x.old \in Claims /\ x.old \notin Fresh
      BY <1>2, <1>3, <1>5, <2>2
    <3>2. QED
      BY <1>2, <1>3, <2>2, <3>1
  <2>3. CASE m # n
    <3>1. merge'[m] = merge[m] /\ x \in merge[m].claims
      BY <1>3, <2>3
    <3>2. /\ claim'[x.new].property = claim[x.new].property
          /\ claim'[x.new].subject = claim[x.new].subject
          /\ claim'[x.old].property = claim[x.old].property
          /\ claim'[x.old].subject = claim[x.old].subject
      BY <1>2, <1>6, <3>1
    <3>3. QED
      BY <3>1, <3>2 DEF CopiesOk
  <2>4. QED
    BY <2>2, <2>3
<1>8. ASSUME NEW c \in Published', NEW a \in Published,
             claim'[c].subject = claim[a].subject, claim'[c].property = claim[a].property,
             claim[a].property \in SingleValued, claim[a].subject # t
      PROVE  (c = a /\ a \notin C) \/ (a \in C /\ c = id[a])
  <2>1. c \in Claims
    BY DEF Published
  <2>2. CASE c \in Published /\ c \notin C
    <3>1. claim[c].subject = claim[a].subject /\ claim[c].property = claim[a].property
      BY <1>2, <1>5, <1>8, <2>1, <2>2
    <3>2. c = a
      BY <1>8, <2>2, <3>1 DEF SingleValueHolds
    <3>3. QED
      BY <2>2, <3>2
  <2>3. CASE \E d \in C : c = id[d] /\ d \in Published
    <3>1. PICK d \in C : c = id[d] /\ d \in Published
      BY <2>3
    <3>2. claim[d].subject = claim[a].subject /\ claim[d].property = claim[a].property
      BY <1>2, <1>8, <3>1
    <3>3. d = a
      BY <1>8, <3>1, <3>2 DEF SingleValueHolds
    <3>4. QED
      BY <3>1, <3>3
  <2>4. QED
    BY <1>2, <2>1, <2>2, <2>3
<1>9. Vacated'
  <2>1. SUFFICES ASSUME NEW m \in Applied', NEW x \in merge'[m].claims, x.status = "published",
                        claim'[x.old].subject = merge'[m].source,
                        claim'[x.old].property \in SingleValued
                 PROVE  /\ \A c \in Published' : ~(claim'[c].subject = claim'[x.old].subject
                                                   /\ claim'[c].property = claim'[x.old].property)
                        /\ \A y \in merge'[m].claims :
                              y.status = "published" /\ claim'[y.old].subject = claim'[x.old].subject
                              /\ claim'[y.old].property = claim'[x.old].property => y = x
    BY DEF Vacated, Same
  <2>2. CASE m = n
    <3>1. x.old \in C /\ x.old \in Published /\ x.old \in Claims /\ x.old \notin Fresh
      BY <1>2, <1>3, <1>5, <2>1, <2>2 DEF Published
    <3>2. claim[x.old].subject = s /\ claim[x.old].property \in SingleValued
          /\ claim'[x.old].subject = claim[x.old].subject
          /\ claim'[x.old].property = claim[x.old].property
      BY <1>2, <1>3, <2>1, <2>2, <3>1
    <3>3. ASSUME NEW c \in Published', claim'[c].subject = claim'[x.old].subject,
                 claim'[c].property = claim'[x.old].property
          PROVE  FALSE
      <4>1. c = id[x.old]
        BY <1>1, <1>8, <3>1, <3>2, <3>3
      <4>2. claim'[c].subject = t
        BY <1>2, <3>1, <3>2, <4>1
      <4>3. QED
        BY <1>1, <3>2, <3>3, <4>2
    <3>4. ASSUME NEW y \in merge'[n].claims, y.status = "published",
                 claim'[y.old].subject = claim'[x.old].subject,
                 claim'[y.old].property = claim'[x.old].property
          PROVE  y = x
      <4>1. y.old \in C /\ y.old \in Claims /\ y.old \in Published /\ y.old \notin Fresh
        BY <1>2, <1>3, <1>5, <3>4 DEF Published
      <4>2. claim[y.old].subject = claim[x.old].subject
            /\ claim[y.old].property = claim[x.old].property
        BY <1>2, <3>2, <3>4, <4>1
      <4>3. y.old = x.old
        BY <3>1, <3>2, <4>1, <4>2 DEF SingleValueHolds
      <4>4. QED
        BY <1>3, <2>1, <2>2, <4>3
    <3>5. QED
      BY <2>2, <3>3, <3>4
  <2>3. CASE m # n
    <3>1. m \in Applied /\ m \in Merges /\ merge'[m] = merge[m] /\ x \in merge[m].claims
      BY <1>3, <2>1, <2>3
    <3>2. \A y \in merge[m].claims : claim'[y.old].subject = claim[y.old].subject
                                     /\ claim'[y.old].property = claim[y.old].property
      BY <1>2, <1>6, <3>1
    <3>3. claim[x.old].subject = merge[m].source /\ claim[x.old].property \in SingleValued
      BY <2>1, <3>1, <3>2
    <3>4. /\ \A c \in Published : ~Same(c, x.old)
          /\ \A y \in merge[m].claims : y.status = "published" /\ Same(y.old, x.old) => y = x
      BY <2>1, <3>1, <3>3 DEF Vacated
    <3>5. merge[m].source # s /\ merge[m].source # t
      BY <1>1, <3>1 DEF LedgerAgrees, Active
    <3>6. ASSUME NEW c \in Published', claim'[c].subject = claim'[x.old].subject,
                 claim'[c].property = claim'[x.old].property
          PROVE  FALSE
      <4>1. c \in Claims
        BY DEF Published
      <4>2. claim'[c].subject = claim[x.old].subject /\ claim'[c].property = claim[x.old].property
        BY <3>1, <3>2, <3>6
      <4>3. CASE c \in Published /\ c \notin C
        <5>1. claim[c].subject = claim[x.old].subject /\ claim[c].property = claim[x.old].property
          BY <1>2, <1>5, <4>1, <4>2, <4>3
        <5>2. QED
          BY <3>4, <4>3, <5>1 DEF Same
      <4>4. CASE \E d \in C : c = id[d] /\ d \in Published
        <5>1. PICK d \in C : c = id[d] /\ d \in Published
          BY <4>4
        <5>2. claim[d].subject = claim[x.old].subject /\ claim[d].property = claim[x.old].property
          BY <1>2, <3>3, <3>5, <4>2, <5>1
        <5>3. QED
          BY <3>4, <5>1, <5>2 DEF Same
      <4>5. QED
        BY <1>2, <4>1, <4>3, <4>4
    <3>7. QED
      BY <3>1, <3>2, <3>4, <3>6 DEF Same
  <2>4. QED
    BY <2>2, <2>3
<1>10. ASSUME NEW c \in Published', NEW d \in C, d \in Published, c # id[d],
              claim'[c].subject = claim'[id[d]].subject,
              claim'[c].property = claim'[id[d]].property,
              claim'[c].property \in SingleValued
       PROVE  FALSE
  <2>1. c \in Claims /\ claim'[id[d]].property = claim[d].property
        /\ claim[d].property \in SingleValued
    BY <1>2, <1>10 DEF Published
  <2>2. CASE claim[d].subject # s
    <3>1. claim'[id[d]].subject = claim[d].subject /\ claim[d].subject # t
      BY <1>2, <2>2
    <3>2. QED
      BY <1>8, <1>10, <2>1, <3>1
  <2>3. CASE claim[d].subject = s
    <3>1. claim'[c].subject = t /\ claim'[c].property = claim[d].property
      BY <1>2, <1>10, <2>1, <2>3
    <3>2. CASE c \in Published /\ c \notin C
      <4>1. claim[c].subject = t /\ claim[c].property = claim[d].property
        BY <1>2, <1>5, <2>1, <3>1, <3>2
      <4>2. QED
        BY <1>4, <1>10, <2>1, <2>3, <3>2, <4>1
    <3>3. CASE \E a \in C : c = id[a] /\ a \in Published
      <4>1. PICK a \in C : c = id[a] /\ a \in Published
        BY <3>3
      <4>2. claim[a].subject = s /\ claim[a].property = claim[d].property
        BY <1>2, <3>1, <4>1
      <4>3. a = d
        BY <1>10, <2>1, <2>3, <4>1, <4>2 DEF SingleValueHolds
      <4>4. QED
        BY <1>10, <4>1, <4>3
    <3>4. QED
      BY <1>2, <2>1, <3>2, <3>3
  <2>4. QED
    BY <2>2, <2>3
<1>11. SingleValueHolds'
  <2>1. SUFFICES ASSUME NEW c \in Published', NEW d \in Published',
                        claim'[c].subject = claim'[d].subject,
                        claim'[c].property = claim'[d].property,
                        claim'[c].property \in SingleValued
                 PROVE  c = d
    BY DEF SingleValueHolds
  <2>2. c \in Claims /\ d \in Claims
    BY DEF Published
  <2>3. CASE \E a \in C : a \in Published /\ (c = id[a] \/ d = id[a])
    BY <1>10, <2>1, <2>3
  <2>4. CASE c \in Published /\ d \in Published
    BY <1>2, <1>5, <2>1, <2>4 DEF SingleValueHolds
  <2>5. QED
    BY <1>2, <2>2, <2>3, <2>4
<1>12. QED
  BY <1>7, <1>9, <1>11

LEMMA ValuesRollback ==
    ASSUME IInv, NEW m \in Merges, RollbackEntityMerge(m)
    PROVE  CopiesOk' /\ Vacated' /\ SingleValueHolds'
<1> USE DEF IInv
<1> DEFINE X == merge[m].claims
<1>1. /\ m \in Applied /\ Applied \subseteq Merges /\ Applied' \subseteq Merges
      /\ merge'[m].claims = merge[m].claims /\ merge'[m].source = merge[m].source
      /\ \A n \in Merges : n # m => merge'[n] = merge[n]
      /\ \A n \in Merges : n \in Applied' <=> n \in Applied /\ n # m
  BY RollbackRecorded DEF Applied
<1>2. \A n \in Merges : merge'[n].claims = merge[n].claims /\ merge'[n].source = merge[n].source
  BY <1>1
<1>3. ASSUME NEW x \in X
      PROVE  /\ x.new \in Claims /\ x.old \in Claims
             /\ claim[x.new].status = x.status
             /\ claim'[x.old].status = x.status
             /\ claim'[x.old].subject = claim[x.old].subject
             /\ claim'[x.old].property = claim[x.old].property
             /\ claim'[x.new].status \in {"deprecated", "rejected"}
             /\ claim'[x.new].subject = claim[x.new].subject
             /\ claim'[x.new].property = claim[x.new].property
             /\ claim[x.new].property = claim[x.old].property
             /\ claim[x.old].subject # merge[m].source =>
                   claim[x.new].subject = claim[x.old].subject
  <2>1. x.new \in Claims /\ x.old \in Claims
    BY MappingClaims
  <2>2. /\ claim[x.new].property = claim[x.old].property
        /\ claim[x.old].subject # merge[m].source =>
              claim[x.new].subject = claim[x.old].subject
    BY DEF CopiesOk
  <2>3. /\ claim[x.new].status = x.status
        /\ claim'[x.old].status = x.status
        /\ claim'[x.old].subject = claim[x.old].subject
        /\ claim'[x.old].property = claim[x.old].property
        /\ claim'[x.new].status \in {"deprecated", "rejected"}
        /\ claim'[x.new].subject = claim[x.new].subject
        /\ claim'[x.new].property = claim[x.new].property
    BY RollbackTouches
  <2>4. QED
    BY <2>1, <2>2, <2>3
<1>4. \A c \in Claims : (\A x \in X : x.new # c /\ x.old # c) => claim'[c] = claim[c]
  BY ClaimsRestored
<1>5. \A x, y \in X : x.new = y.new \/ x.old = y.old => x = y
  BY DEF MappingsOk
<1> HIDE DEF X
<1>6. StatementsKept
  BY <1>3, <1>4 DEF StatementsKept
<1>7. CopiesOk'
  BY <1>2, <1>6, CopiesKept
<1>8. ASSUME NEW c \in Published'
      PROVE  /\ c \in Claims /\ claim'[c].subject = claim[c].subject
             /\ claim'[c].property = claim[c].property
             /\ \/ c \in Published /\ \A x \in X : x.new # c
                \/ \E x \in X : c = x.old /\ x.status = "published"
  <2>1. c \in Claims /\ claim'[c].status = "published"
    BY <1>8 DEF Published
  <2>2. \A x \in X : x.new # c
    BY <1>3, <2>1
  <2>3. CASE \E x \in X : x.old = c
    BY <1>3, <2>1, <2>3
  <2>4. CASE \A x \in X : x.old # c
    BY <1>4, <2>1, <2>2, <2>4 DEF Published
  <2>5. QED
    BY <2>3, <2>4
(* The copy of a restored claim of another subject had its subject.         *)
<1>9. ASSUME NEW x \in X, x.status = "published", claim[x.old].subject # merge[m].source
      PROVE  x.new \in Published /\ Same(x.new, x.old)
  BY <1>3, <1>9 DEF Published, Same
<1>10. ASSUME NEW x \in X, x.status = "published", claim[x.old].property \in SingleValued,
              NEW c \in Published', claim[c].subject = claim[x.old].subject,
              claim[c].property = claim[x.old].property
       PROVE  c = x.old
  <2>1. CASE claim[x.old].subject = merge[m].source
    <3>1. /\ \A d \in Published : ~Same(d, x.old)
          /\ \A y \in X : y.status = "published" /\ Same(y.old, x.old) => y = x
      BY <1>1, <1>10, <2>1 DEF Vacated, X
    <3>2. c \notin Published
      BY <1>10, <3>1 DEF Same
    <3>3. PICK y \in X : c = y.old /\ y.status = "published"
      BY <1>8, <3>2
    <3>4. y = x
      BY <1>10, <3>1, <3>3 DEF Same
    <3>5. QED
      BY <3>3, <3>4
  <2>2. CASE claim[x.old].subject # merge[m].source
    <3>1. x.new \in Published /\ claim[x.new].subject = claim[x.old].subject
          /\ claim[x.new].property = claim[x.old].property
      BY <1>9, <1>10, <2>2 DEF Same
    <3>2. CASE c \in Published /\ \A y \in X : y.new # c
      BY <1>10, <3>1, <3>2 DEF SingleValueHolds
    <3>3. CASE \E y \in X : c = y.old /\ y.status = "published"
      <4>1. PICK y \in X : c = y.old /\ y.status = "published"
        BY <3>3
      <4>2. y.new \in Published /\ claim[y.new].subject = claim[x.old].subject
            /\ claim[y.new].property = claim[x.old].property
        BY <1>9, <1>10, <2>2, <4>1 DEF Same
      <4>3. y.new = x.new
        BY <1>10, <3>1, <4>2 DEF SingleValueHolds
      <4>4. QED
        BY <1>5, <4>1, <4>3
    <3>4. QED
      BY <1>8, <3>2, <3>3
  <2>3. QED
    BY <2>1, <2>2
<1>11. SingleValueHolds'
  <2>1. SUFFICES ASSUME NEW c \in Published', NEW d \in Published',
                        claim'[c].subject = claim'[d].subject,
                        claim'[c].property = claim'[d].property,
                        claim'[c].property \in SingleValued
                 PROVE  c = d
    BY DEF SingleValueHolds
  <2>2. claim[c].subject = claim[d].subject /\ claim[c].property = claim[d].property
        /\ claim[c].property \in SingleValued
    BY <1>8, <2>1
  <2>3. CASE c \in Published /\ d \in Published
    BY <2>2, <2>3 DEF SingleValueHolds
  <2>4. CASE \E x \in X : c = x.old /\ x.status = "published"
    BY <1>10, <2>2, <2>4
  <2>5. CASE \E x \in X : d = x.old /\ x.status = "published"
    BY <1>10, <2>2, <2>5
  <2>6. QED
    BY <1>8, <2>3, <2>4, <2>5
<1>12. Vacated'
  <2>1. SUFFICES ASSUME NEW n \in Applied', NEW x \in merge'[n].claims, x.status = "published",
                        claim'[x.old].subject = merge'[n].source,
                        claim'[x.old].property \in SingleValued
                 PROVE  /\ \A c \in Published' : ~(claim'[c].subject = claim'[x.old].subject
                                                   /\ claim'[c].property = claim'[x.old].property)
                        /\ \A y \in merge'[n].claims :
                              y.status = "published" /\ claim'[y.old].subject = claim'[x.old].subject
                              /\ claim'[y.old].property = claim'[x.old].property => y = x
    BY DEF Vacated, Same
  <2>2. n \in Applied /\ n # m /\ n \in Merges /\ merge'[n] = merge[n] /\ x \in merge[n].claims
    BY <1>1, <2>1
  <2>3. \A y \in merge[n].claims : claim'[y.old].subject = claim[y.old].subject
                                   /\ claim'[y.old].property = claim[y.old].property
    BY <1>6, <2>2, MappingClaims DEF StatementsKept, MappingsOk
  <2>4. claim[x.old].subject = merge[n].source /\ claim[x.old].property \in SingleValued
    BY <2>1, <2>2, <2>3
  <2>5. /\ \A c \in Published : ~Same(c, x.old)
        /\ \A y \in merge[n].claims : y.status = "published" /\ Same(y.old, x.old) => y = x
    BY <2>1, <2>2, <2>4 DEF Vacated
  <2>6. merge[n].source # merge[m].source
    BY <1>1, <2>2 DEF LedgerAgrees
  <2>7. ASSUME NEW c \in Published', claim'[c].subject = claim'[x.old].subject,
               claim'[c].property = claim'[x.old].property
        PROVE  FALSE
    <3>1. claim[c].subject = claim[x.old].subject /\ claim[c].property = claim[x.old].property
      BY <1>8, <2>2, <2>3, <2>7
    <3>2. c \notin Published
      BY <2>5, <3>1 DEF Same
    <3>3. PICK y \in X : c = y.old /\ y.status = "published"
      BY <1>8, <3>2
    <3>4. y.new \in Published /\ Same(y.new, y.old)
      BY <1>9, <2>4, <2>6, <3>1, <3>3
    <3>5. QED
      BY <2>5, <3>1, <3>3, <3>4 DEF Same
  <2>8. QED
    BY <2>2, <2>3, <2>5, <2>7 DEF Same
<1>13. QED
  BY <1>7, <1>11, <1>12

LEMMA ValuesSame ==
    ASSUME IInv, UNCHANGED <<claim, merge>>
    PROVE  CopiesOk' /\ Vacated' /\ SingleValueHolds'
  BY DEF IInv, CopiesOk, Vacated, SingleValueHolds, Same, Published, Applied

-----------------------------------------------------------------------------
(* What a transaction counted stays so until it writes.                     *)

(* Steps in which no value is published of an entity that another            *)
(* transaction has locked, nor a claim rewritten that it has locked.       *)
LEMMA CountsKept ==
    ASSUME CountsHold, TypeOK,
           \A v \in Writers :
              \/ CountHolds(v)'
              \/ /\ writer'[v] = writer[v]
                 /\ \A c \in Claims : c \in ClaimLocks(v) => claim'[c] = claim[c]
                 /\ \A e \in EntityLocks(v) : \A p : Taken(e, p)' => Taken(e, p)
    PROVE  CountsHold'
<1>1. SUFFICES ASSUME NEW v \in Writers,
                      writer'[v] = writer[v],
                      \A c \in Claims : c \in ClaimLocks(v) => claim'[c] = claim[c],
                      \A e \in EntityLocks(v) : \A p : Taken(e, p)' => Taken(e, p)
               PROVE  CountHolds(v)'
  BY DEF CountsHold
<1>2. CountHolds(v)
  BY DEF CountsHold
<1>3. CASE writer[v].op = "write" /\ writer[v].old = None
  <2>1. ~Taken(writer[v].claim.subject, writer[v].claim.property)
    BY <1>2, <1>3 DEF CountHolds
  <2>2. writer[v].claim.subject \in EntityLocks(v)
    BY DEF EntityLocks
  <2>3. ~Taken(writer[v].claim.subject, writer[v].claim.property)'
    BY <1>1, <2>1, <2>2 DEF Taken
  <2>4. QED
    BY <1>1, <1>3, <2>3 DEF CountHolds
<1>4. CASE writer[v].op = "migrate"
  <2> DEFINE C == writer[v].claims
             t == writer[v].target
  <2>1. Migratable(C, writer[v].source, t)
    BY <1>2, <1>4 DEF CountHolds
  <2>2. C \subseteq Claims
    BY TypesAre DEF WriterType
  <2>3. \A c \in C : claim'[c] = claim[c]
    BY <1>1, <1>4, <2>2 DEF ClaimLocks, Doing
  <2>4. \A p : Taken(t, p)' => Taken(t, p)
    BY <1>1 DEF EntityLocks, Taken
  <2>5. Migratable(C, writer[v].source, t)'
    BY <1>1, <2>1, <2>2, <2>3, <2>4 DEF Migratable, Mentions, Published
  <2>6. QED
    BY <1>1, <1>4, <2>5 DEF CountHolds
<1>5. CASE ~(writer[v].op = "write" /\ writer[v].old = None) /\ writer[v].op # "migrate"
  BY <1>1, <1>5 DEF CountHolds
<1>6. QED
  BY <1>3, <1>4, <1>5

(* Steps that write no claim.                                              *)
LEMMA CountsSame ==
    ASSUME TypeOK, CountsHold, claim' = claim,
           \A v \in Writers : CountHolds(v)' \/ writer'[v] = writer[v]
    PROVE  CountsHold'
<1>1. \A e, p : Taken(e, p)' => Taken(e, p)
  BY DEF Taken, Published
<1>2. QED
  BY <1>1, CountsKept

LEMMA CountsPrepare ==
    ASSUME TypeOK, CountsHold, NEW w \in Writers, NEW s \in Statement, NEW old,
           Prepare(w, s, old)
    PROVE  CountsHold'
<1> DEFINE r == [Idle EXCEPT !.op = IF old = None /\ s.property \in SingleValued
                                    THEN "count" ELSE "write",
                             !.claim = s, !.old = old]
<1>1. writer' = [writer EXCEPT ![w] = r] /\ claim' = claim
  BY DEF Prepare
<1>2. /\ r.old = old /\ r.claim = s /\ r.op \in {"count", "write"}
      /\ r.op = "write" => old # None \/ s.property \notin SingleValued
  BY DEF Idle
<1> HIDE DEF r
<1>3. writer'[w] = r /\ \A v \in Writers : v # w => writer'[v] = writer[v]
  BY <1>1, TypesAre
<1>4. CountHolds(w)'
  BY <1>2, <1>3 DEF CountHolds, Taken
<1>5. QED
  BY <1>1, <1>3, <1>4, CountsSame

LEMMA CountsCountClaims ==
    ASSUME TypeOK, CountsHold, NEW w \in Writers, CountClaims(w)
    PROVE  CountsHold'
<1>1. writer[w] \in WriterType
  BY TypesAre
<1>2. /\ writer'[w].op = "write" /\ writer'[w].claim = writer[w].claim
      /\ \A v \in Writers : v # w => writer'[v] = writer[v]
      /\ claim' = claim
  BY <1>1, TypesAre DEF CountClaims, WriterType
<1>3. CountHolds(w)'
  BY <1>2 DEF CountHolds, CountClaims, Taken, Published
<1>4. QED
  BY <1>2, <1>3, CountsSame

LEMMA CountsLockForMerge ==
    ASSUME TypeOK, CountsHold, NEW w \in Writers, NEW s, NEW t, LockForMerge(w, s, t)
    PROVE  CountsHold'
<1>1. /\ writer'[w].op = "merge" /\ claim' = claim
      /\ \A v \in Writers : v # w => writer'[v] = writer[v]
  BY TypesAre DEF LockForMerge, Idle
<1>2. CountHolds(w)'
  BY <1>1 DEF CountHolds
<1>3. QED
  BY <1>1, <1>2, CountsSame

LEMMA CountsLockClaims ==
    ASSUME TypeOK, CountsHold, NEW w \in Writers, LockClaims(w)
    PROVE  CountsHold'
<1> DEFINE C == writer[w].claims \cap Current
<1>1. writer[w] \in WriterType
  BY TypesAre
<1>2. /\ writer'[w].op = "migrate" /\ writer'[w].claims = C
      /\ writer'[w].source = writer[w].source /\ writer'[w].target = writer[w].target
      /\ \A v \in Writers : v # w => writer'[v] = writer[v]
      /\ claim' = claim
  BY <1>1, TypesAre DEF LockClaims, WriterType
<1>3. Migratable(C, writer[w].source, writer[w].target)
  BY DEF LockClaims
<1> HIDE DEF C
<1>4. CountHolds(w)'
  BY <1>2, <1>3 DEF CountHolds, Migratable, Mentions, Taken, Published
<1>5. QED
  BY <1>2, <1>4, CountsSame

(* A claim is published only of the subject its writer has locked.          *)
LEMMA CountsWriteClaim ==
    ASSUME TypeOK, LocksHold, CountsHold, NEW w \in Writers, WriteClaim(w)
    PROVE  CountsHold'
<1> DEFINE t == writer[w]
<1>1. writer'[w] = Idle /\ \A v \in Writers : v # w => writer'[v] = writer[v]
  BY TypesAre DEF WriteClaim
<1>2. CountHolds(w)'
  BY <1>1 DEF CountHolds, Idle
<1>3. NewClaim \in Fresh /\ NewClaim \in Claims /\ claim'[NewClaim] = t.claim
  BY NewClaimIsFresh DEF WriteClaim
<1>4. t.claim.subject \in Entities
  BY DEF LocksHold, WriterOk, WriteClaim, Doing, Statement
<1>5. ASSUME NEW c \in Claims, c # NewClaim
      PROVE  /\ claim'[c].subject = claim[c].subject /\ claim'[c].property = claim[c].property
             /\ c \in Published' => c \in Published
  <2>1. claim[c] \in ClaimType
    BY TypesAre
  <2>2. claim'[c] = claim[c] \/ claim'[c] = [claim[c] EXCEPT !.status = "superseded"]
    BY <1>5 DEF WriteClaim
  <2>3. QED
    BY <2>1, <2>2 DEF ClaimType, Published
<1>6. ASSUME NEW v \in Writers, v # w, NEW e \in EntityLocks(v), NEW p, Taken(e, p)'
      PROVE  Taken(e, p)
  <2>1. PICK c \in Published' : claim'[c].subject = e /\ claim'[c].property = p
    BY <1>6 DEF Taken
  <2>2. c \in Claims
    BY DEF Published
  <2>3. c # NewClaim
    <3>1. t.claim.subject \in EntityLocks(w)
      BY DEF EntityLocks
    <3>2. QED
      BY <1>3, <1>4, <1>6, <2>1, <3>1 DEF LocksHold
  <2>4. QED
    BY <1>5, <1>6, <2>1, <2>2, <2>3 DEF Taken
<1>7. ASSUME NEW v \in Writers, v # w, NEW c \in Claims, c \in ClaimLocks(v)
      PROVE  claim'[c] = claim[c]
  <2>1. c \notin Fresh
    BY <1>7, LockedAreCurrent
  <2>2. c # NewClaim
    BY <2>1, <1>3
  <2>3. c # t.old
    BY <1>7 DEF LocksHold, ClaimLocks
  <2>4. QED
    BY <2>2, <2>3 DEF WriteClaim
<1>8. QED
  BY <1>1, <1>2, <1>6, <1>7, CountsKept

(* PublishClaim locks the subject where the property has one value.         *)
LEMMA CountsSetStatus ==
    ASSUME TypeOK, CountsHold, NEW c \in Claims, NEW status, SetStatus(c, status),
           status = "published" /\ claim[c].property \in SingleValued =>
              Unlocked(claim[c].subject)
    PROVE  CountsHold'
<1>1. claim'[c] = [claim[c] EXCEPT !.status = status] /\ claim[c] \in ClaimType
  BY TypesAre DEF SetStatus
<1>2. /\ claim'[c].subject = claim[c].subject /\ claim'[c].property = claim[c].property
      /\ claim'[c].status = status
  BY <1>1 DEF ClaimType
<1>3. (\A d \in Claims : d # c => claim'[d] = claim[d]) /\ writer' = writer
  BY TypesAre DEF SetStatus
<1>4. ASSUME NEW v \in Writers, NEW e \in EntityLocks(v), NEW p, Taken(e, p)'
      PROVE  Taken(e, p)
  <2>1. PICK d \in Published' : claim'[d].subject = e /\ claim'[d].property = p
    BY <1>4 DEF Taken
  <2>2. d \in Claims /\ p \in SingleValued
    BY <1>4 DEF Published, Taken
  <2>3. CASE d = c
    <3>1. status = "published" /\ claim[c].property \in SingleValued /\ claim[c].subject = e
      BY <1>2, <2>1, <2>2, <2>3 DEF Published
    <3>2. QED
      BY <3>1 DEF Unlocked
  <2>4. CASE d # c
    BY <1>3, <2>1, <2>2, <2>4 DEF Published, Taken
  <2>5. QED
    BY <2>3, <2>4
<1>5. \A v \in Writers : \A d \in Claims : d \in ClaimLocks(v) => claim'[d] = claim[d]
  BY <1>3 DEF SetStatus, ClaimUnlocked
<1>6. QED
  BY <1>3, <1>4, <1>5, CountsKept

(* A copy is published of the target of its merge, or where the claim it     *)
(* replaces was.                                                           *)
LEMMA CountsMergeEntity ==
    ASSUME TypeOK, LocksHold, CountsHold, NEW w \in Writers, MergeEntity(w)
    PROVE  CountsHold'
<1> DEFINE s == writer[w].source
           t == writer[w].target
           C == Selected(w)
           id == NewIds(C)
<1>1. writer'[w] = Idle /\ \A v \in Writers : v # w => writer'[v] = writer[v]
  BY TypesAre DEF MergeEntity
<1>2. CountHolds(w)'
  BY <1>1 DEF CountHolds, Idle
<1>3. /\ \A c \in C :
           /\ claim'[id[c]].property = claim[c].property
           /\ claim'[id[c]].subject = IF claim[c].subject = s THEN t ELSE claim[c].subject
      /\ \A c \in Claims : c \notin Fresh =>
           /\ claim'[c].subject = claim[c].subject
           /\ claim'[c].property = claim[c].property
      /\ \A c \in Claims : c \in Published' =>
           \/ c \in Published /\ c \notin C
           \/ \E d \in C : c = id[d] /\ d \in Published
  BY MergedStatements
<1>4. t \in Entities /\ t \in EntityLocks(w)
  BY MergedAreActive DEF EntityLocks
<1> HIDE DEF s, C, id
<1>5. ASSUME NEW v \in Writers, v # w, NEW e \in EntityLocks(v), NEW p, Taken(e, p)'
      PROVE  Taken(e, p)
  <2>1. PICK c \in Published' : claim'[c].subject = e /\ claim'[c].property = p
    BY <1>5 DEF Taken
  <2>2. c \in Claims /\ p \in SingleValued
    BY <1>5 DEF Published, Taken
  <2>3. CASE c \in Published /\ c \notin C
    <3>1. claim[c].subject = e /\ claim[c].property = p
      BY <1>3, <2>1, <2>2, <2>3 DEF Published, Fresh
    <3>2. QED
      BY <2>2, <2>3, <3>1 DEF Taken
  <2>4. CASE \E d \in C : c = id[d] /\ d \in Published
    <3>1. PICK d \in C : c = id[d] /\ d \in Published
      BY <2>4
    <3>2. e # t
      BY <1>4, <1>5 DEF LocksHold
    <3>3. claim[d].subject = e /\ claim[d].property = p
      BY <1>3, <2>1, <3>1, <3>2
    <3>4. QED
      BY <2>2, <3>1, <3>3 DEF Taken
  <2>5. QED
    BY <1>3, <2>2, <2>3, <2>4
<1>6. ASSUME NEW v \in Writers, v # w, NEW c \in Claims, c \in ClaimLocks(v)
      PROVE  claim'[c] = claim[c]
  <2>1. c \notin Fresh
    BY <1>6, LockedAreCurrent
  <2>2. c \notin Selected(w)
    BY <1>6 DEF MergeEntity, Selected, LocksHold, ClaimLocks, Doing
  <2>3. QED
    BY <2>1, <2>2, ClaimsMerged
<1>7. QED
  BY <1>1, <1>2, <1>5, <1>6, CountsKept

(* What a rollback restores is of its source, which nobody has locked, or    *)
(* replaces its own copy.                                                  *)
LEMMA CountsRollback ==
    ASSUME IInv, NEW m \in Merges, RollbackEntityMerge(m)
    PROVE  CountsHold'
<1> USE DEF IInv
<1> DEFINE X == merge[m].claims
<1>1. writer' = writer /\ Unlocked(merge[m].source)
  BY DEF RollbackEntityMerge
<1>2. ASSUME NEW x \in X
      PROVE  /\ x.new \in Claims /\ x.old \in Claims
             /\ claim[x.new].status = x.status /\ claim'[x.old].status = x.status
             /\ claim'[x.old].subject = claim[x.old].subject
             /\ claim'[x.old].property = claim[x.old].property
             /\ claim'[x.new].status \in {"deprecated", "rejected"}
             /\ claim[x.new].property = claim[x.old].property
             /\ claim[x.old].subject # merge[m].source =>
                   claim[x.new].subject = claim[x.old].subject
  <2>1. x.new \in Claims /\ x.old \in Claims
    BY MappingClaims
  <2>2. /\ claim[x.new].property = claim[x.old].property
        /\ claim[x.old].subject # merge[m].source =>
              claim[x.new].subject = claim[x.old].subject
    BY DEF CopiesOk
  <2>3. QED
    BY <2>1, <2>2, RollbackTouches
<1>3. \A c \in Claims : (\A x \in X : x.new # c /\ x.old # c) => claim'[c] = claim[c]
  BY ClaimsRestored
<1>4. ASSUME NEW v \in Writers, NEW e \in EntityLocks(v), NEW p, Taken(e, p)'
      PROVE  Taken(e, p)
  <2>1. PICK c \in Published' : claim'[c].subject = e /\ claim'[c].property = p
    BY <1>4 DEF Taken
  <2>2. c \in Claims /\ p \in SingleValued /\ claim'[c].status = "published"
    BY <1>4 DEF Published, Taken
  <2>3. CASE \E x \in X : x.old = c
    <3>1. PICK x \in X : x.old = c
      BY <2>3
    <3>2. claim[x.old].subject = e /\ claim[x.old].property = p /\ e # merge[m].source
      BY <1>1, <1>2, <1>4, <2>1, <3>1 DEF Unlocked
    <3>3. claim[x.new].subject = e /\ claim[x.new].property = p /\ x.new \in Published
      BY <1>2, <2>2, <3>1, <3>2 DEF Published
    <3>4. QED
      BY <2>2, <3>3 DEF Taken
  <2>4. CASE \A x \in X : x.old # c
    <3>1. claim'[c] = claim[c]
      BY <1>2, <1>3, <2>2, <2>4
    <3>2. QED
      BY <2>1, <2>2, <3>1 DEF Published, Taken
  <2>5. QED
    BY <2>3, <2>4
<1>5. ASSUME NEW v \in Writers, NEW c \in Claims, c \in ClaimLocks(v)
      PROVE  claim'[c] = claim[c]
  <2>1. \A x \in X : x.new # c /\ x.old # c
    BY <1>5 DEF RollbackEntityMerge, ClaimUnlocked
  <2>2. QED
    BY <1>3, <2>1
<1>6. QED
  BY <1>1, <1>4, <1>5, CountsKept

-----------------------------------------------------------------------------
(* The invariant.                                                          *)

LEMMA InitInv == Init => IInv
<1> SUFFICES ASSUME Init PROVE IInv
  OBVIOUS
<1>1. TypeOK
  BY TypeInit
<1>2. \A w \in Writers : writer[w] = Idle
  BY DEF Init
<1>3. LocksHold
  <2>1. \A w \in Writers, e \in Entities : e \notin EntityLocks(w)
    BY <1>2, EntityMergeAssumption DEF EntityLocks, Idle, NoClaim
  <2>2. \A w \in Writers : ClaimLocks(w) = {None} /\ WriterOk(w)
    BY <1>2 DEF WriterOk, ClaimLocks, Doing, Idle
  <2>3. QED
    BY <2>1, <2>2, EntityMergeAssumption DEF LocksHold
<1>4. \A m \in Merges : merge[m].status = "none" /\ merge[m].claims = {}
  BY DEF Init, NoMerge
<1>5. Applied = {}
  BY <1>4 DEF Applied
<1>6. \A e \in Entities : entity[e].status = "active"
  BY DEF Init
<1>7. Published = {}
  BY DEF Published, Init, NoClaim
<1>8. LedgerAgrees /\ NoMergeCycle
  BY <1>5, <1>6 DEF LedgerAgrees, NoMergeCycle
<1>9. MappingsOk /\ OneVersion /\ CopiesOk /\ Vacated /\ SingleValueHolds
  BY <1>4, <1>5, <1>7 DEF MappingsOk, OneVersion, CopiesOk, Vacated, SingleValueHolds
<1>10. CountsHold
  BY <1>2 DEF CountsHold, CountHolds, Idle
<1>11. QED
  BY <1>1, <1>3, <1>8, <1>9, <1>10 DEF IInv

LEMMA PrepareInv ==
    ASSUME IInv, NEW w \in Writers, NEW s \in Statement, NEW old \in Claims \cup {None},
           Prepare(w, s, old),
           old # None => /\ old \in Published /\ ClaimUnlocked(old)
                         /\ s.subject = claim[old].subject /\ s.property = claim[old].property
    PROVE  IInv'
<1>1. UNCHANGED <<entity, claim, merge>>
  BY DEF Prepare
<1>2. TypeOK'
  BY TypePrepare DEF IInv
<1>3. LocksHold' /\ CountsHold'
  BY LocksPrepare, CountsPrepare DEF IInv
<1>4. QED
  BY <1>1, <1>2, <1>3, LedgerSame, VersionsSame, ValuesSame DEF IInv

LEMMA SetStatusInv ==
    ASSUME IInv, NEW c \in Current, NEW status \in Statuses \ {"none"}, SetStatus(c, status),
           status = "published" /\ claim[c].property \in SingleValued =>
              Lockable(claim[c].subject) /\ ~Taken(claim[c].subject, claim[c].property)
    PROVE  IInv'
<1>1. c \in Claims /\ c \notin Fresh
  BY DEF Current, Fresh
<1>2. TypeOK' /\ LocksHold' /\ CountsHold'
  BY <1>1, TypeSetStatus, LocksSetStatus, CountsSetStatus DEF IInv, Lockable
<1>3. LedgerAgrees' /\ NoMergeCycle'
  BY LedgerSame DEF IInv, SetStatus
<1>4. MappingsOk' /\ OneVersion'
  BY VersionsSetStatus DEF IInv
<1>5. CopiesOk' /\ Vacated' /\ SingleValueHolds'
  BY <1>1, ValuesSetStatus DEF IInv, Lockable
<1>6. QED
  BY <1>2, <1>3, <1>4, <1>5 DEF IInv

LEMMA NextInv == IInv /\ [Next]_vars => IInv'
<1> SUFFICES ASSUME IInv, [Next]_vars PROVE IInv'
  OBVIOUS
<1> USE DEF IInv
<1>1. ASSUME NEW w \in Writers, CreateClaim(w) PROVE IInv'
  <2>1. PICK s \in Statement : Prepare(w, s, None)
    BY <1>1 DEF CreateClaim
  <2>2. QED
    BY <2>1, PrepareInv
<1>2. ASSUME NEW w \in Writers, SupersedeClaim(w) PROVE IInv'
  <2>1. PICK c \in Published, s \in Statement :
           /\ ClaimUnlocked(c) /\ s.subject = claim[c].subject
           /\ s.property = claim[c].property /\ Prepare(w, s, c)
    BY <1>2 DEF SupersedeClaim
  <2>2. c \in Claims \cup {None}
    BY DEF Published
  <2>3. QED
    BY <2>1, <2>2, PrepareInv
<1>3. ASSUME NEW w \in Writers, WriteClaim(w) PROVE IInv'
  <2>1. LedgerAgrees' /\ NoMergeCycle'
    BY <1>3, LedgerSame DEF WriteClaim
  <2>2. QED
    BY <1>3, <2>1, TypeWriteClaim, LocksWriteClaim, CountsWriteClaim, VersionsWriteClaim,
       ValuesWriteClaim
<1>4. ASSUME NEW w \in Writers, NEW s \in Entities, NEW t \in Entities, LockForMerge(w, s, t)
      PROVE  IInv'
  <2>1. UNCHANGED <<entity, claim, merge>>
    BY <1>4 DEF LockForMerge
  <2>2. TypeOK' /\ LocksHold' /\ CountsHold'
    BY <1>4, TypeLockForMerge, LocksLockForMerge, CountsLockForMerge
  <2>3. QED
    BY <2>1, <2>2, LedgerSame, VersionsSame, ValuesSame
<1>5. ASSUME NEW w \in Writers, MergeEntity(w) PROVE IInv'
  <2>1. writer[w].source \in Entities /\ writer[w].target \in Entities
    BY <1>5, MergedAreActive
  <2>2. TypeOK' /\ LocksHold' /\ CountsHold'
    BY <1>5, <2>1, TypeMergeEntity, LocksMergeEntity, CountsMergeEntity
  <2>3. LedgerAgrees' /\ NoMergeCycle' /\ MappingsOk' /\ OneVersion'
    BY <1>5, LedgerMergeEntity, VersionsMergeEntity
  <2>4. QED
    BY <1>5, <2>2, <2>3, ValuesMergeEntity
<1>6. ASSUME NEW w \in Writers, Abort(w) PROVE IInv'
  <2>1. writer' = [writer EXCEPT ![w] = Idle] /\ UNCHANGED <<entity, labels, claim, merge>>
    BY <1>6 DEF Abort
  <2>2. TypeOK' /\ LocksHold'
    BY <2>1, IdleType, TypeWriter, LocksSame, TypesAre
  <2>3. CountsHold'
    BY <2>1, CountsSame, TypesAre DEF CountHolds, Idle
  <2>4. QED
    BY <2>1, <2>2, <2>3, LedgerSame, VersionsSame, ValuesSame
<1>7. ASSUME NEW c \in Claims, PublishClaim(c) PROVE IInv'
  <2>1. c \in Current /\ SetStatus(c, "published")
    BY <1>7 DEF PublishClaim, Current
  <2>2. claim[c].property \in SingleValued =>
           Lockable(claim[c].subject) /\ ~Taken(claim[c].subject, claim[c].property)
    BY <1>7 DEF PublishClaim
  <2>3. QED
    BY <2>1, <2>2, SetStatusInv DEF Statuses
<1>8. ASSUME NEW c \in Claims, RejectClaim(c) PROVE IInv'
  <2>1. c \in Current /\ SetStatus(c, "rejected")
    BY <1>8 DEF RejectClaim, Current
  <2>2. QED
    BY <2>1, SetStatusInv DEF Statuses
<1>9. ASSUME NEW c \in Claims, DeprecateClaim(c) PROVE IInv'
  <2>1. c \in Current /\ SetStatus(c, "deprecated")
    BY <1>9 DEF DeprecateClaim, Current
  <2>2. QED
    BY <2>1, SetStatusInv DEF Statuses
<1>10. ASSUME NEW e \in Entities, DeleteEntity(e) PROVE IInv'
  <2>1. UNCHANGED <<claim, merge, writer>>
    BY <1>10 DEF DeleteEntity
  <2>2. CountsHold'
    BY <2>1, CountsSame
  <2>3. QED
    BY <1>10, <2>1, <2>2, TypeDelete, LocksDelete, LedgerDelete, VersionsSame, ValuesSame
<1>11. ASSUME NEW e \in Entities, NEW l \in Labels, Relabel(e, l) PROVE IInv'
  <2>1. UNCHANGED <<entity, claim, merge, writer>>
    BY <1>11 DEF Relabel
  <2>2. TypeOK' /\ LocksHold' /\ CountsHold'
    BY <1>11, <2>1, TypeRelabel, LocksSame, CountsSame
  <2>3. QED
    BY <2>1, <2>2, LedgerSame, VersionsSame, ValuesSame
<1>12. ASSUME NEW m \in Merges, RollbackEntityMerge(m) PROVE IInv'
  <2>1. TypeOK' /\ LocksHold' /\ MappingsOk' /\ OneVersion'
    BY <1>12, TypeRollback, LocksRollback, VersionsRollback
  <2>2. LedgerAgrees' /\ NoMergeCycle'
    BY <1>12, LedgerRollback
  <2>3. QED
    BY <1>12, <2>1, <2>2, CountsRollback, ValuesRollback
<1>13. CASE UNCHANGED vars
  <2>1. UNCHANGED <<entity, labels, claim, merge, writer>>
    BY <1>13 DEF vars
  <2>2. TypeOK' /\ LocksHold' /\ CountsHold'
    BY <2>1, TypesAre, TypesAreNext, LocksSame, CountsSame
  <2>3. QED
    BY <2>1, <2>2, LedgerSame, VersionsSame, ValuesSame
<1>14. ASSUME NEW w \in Writers, CountClaims(w) PROVE IInv'
  <2>1. UNCHANGED <<entity, claim, merge>>
    BY <1>14 DEF CountClaims
  <2>2. TypeOK' /\ LocksHold' /\ CountsHold'
    BY <1>14, TypeCountClaims, LocksCountClaims, CountsCountClaims
  <2>3. QED
    BY <2>1, <2>2, LedgerSame, VersionsSame, ValuesSame
<1>15. ASSUME NEW w \in Writers, LockClaims(w) PROVE IInv'
  <2>1. UNCHANGED <<entity, claim, merge>>
    BY <1>15 DEF LockClaims
  <2>2. TypeOK' /\ LocksHold' /\ CountsHold'
    BY <1>15, TypeLockClaims, LocksLockClaims, CountsLockClaims
  <2>3. QED
    BY <2>1, <2>2, LedgerSame, VersionsSame, ValuesSame
<1>16. QED
  BY <1>1, <1>2, <1>3, <1>4, <1>5, <1>6, <1>7, <1>8, <1>9, <1>10, <1>11, <1>12, <1>13, <1>14,
     <1>15 DEF Next

LEMMA Invariance == Spec => []IInv
<1>1. QED
  BY InitInv, NextInv, PTL DEF Spec

(* The rows and the transactions keep their fields, whatever the writers,   *)
(* merges and rollbacks do (claim.go and entity_merge.go).                 *)
THEOREM TypeCorrect == Spec => []TypeOK
<1>1. IInv => TypeOK
  BY DEF IInv
<1>2. QED
  BY <1>1, Invariance, PTL

(* A property with one value has at most one published claim per subject,    *)
(* however long a claim's insert waits after its count (prepareClaim,       *)
(* InsertClaim): the subject's lock, taken before the count, keeps it true, *)
(* as merges have the lock of their target, publishing takes the subject's, *)
(* and a rollback restores only what it took (migrateMergeClaims,           *)
(* transitionClaimInTx, RollbackEntityMergeInTx).                          *)
THEOREM OneValuePerProperty == Spec => []SingleValueHolds
<1>1. IInv => SingleValueHolds
  BY DEF IInv
<1>2. QED
  BY <1>1, Invariance, PTL

(* Following merged_into never runs in a circle, because both entities of a *)
(* merge are locked and active (lockMergeEntities) until it is written.    *)
THEOREM MergesNeverCycle == Spec => []NoMergeCycle
<1>1. IInv => NoMergeCycle
  BY DEF IInv
<1>2. QED
  BY <1>1, Invariance, PTL

(* An entity is merged exactly when one applied merge of the ledger has it   *)
(* as its source (markEntityMerged, restoreMergedEntity).                  *)
THEOREM LedgerIsTrue == Spec => []LedgerAgrees
<1>1. IInv => LedgerAgrees
  BY DEF IInv
<1>2. QED
  BY <1>1, Invariance, PTL

(* A claim and its copies are never current together, in whatever order the *)
(* merges that copied it are rolled back (RollbackEntityMergeInTx).        *)
THEOREM OneCurrentVersion == Spec => []OneVersion
<1>1. IInv => OneVersion
  BY DEF IInv
<1>2. QED
  BY <1>1, Invariance, PTL

-----------------------------------------------------------------------------
(* One transaction at a time.                                              *)

(* A transaction to write a claim has found its target active, a merge has   *)
(* selected every current claim that mentions its source.                  *)
Prepared(w) ==
    /\ (Doing(w, "count") \/ Doing(w, "write")) /\ writer[w].claim.target # None =>
          Active(writer[w].claim.target)
    /\ Doing(w, "merge") \/ Doing(w, "migrate") =>
          \A c \in Current : Mentions(c, writer[w].source) => c \in writer[w].claims

(* A copy refers to what its claim refers to, unless that is the source.    *)
TargetsKept ==
    \A m \in Merges : \A x \in merge[m].claims :
        claim[x.old].target # merge[m].source => claim[x.new].target = claim[x.old].target

SerialInv ==
    /\ OneAtATime /\ (\A w \in Writers : Prepared(w))
    /\ TargetsKept /\ ClaimsAreLive

(* No step changes what a claim in use refers to.                          *)
ReferencesKept == \A c \in Claims : c \notin Fresh => claim'[c].target = claim[c].target

LEMMA TargetsStay ==
    ASSUME TypeOK, MappingsOk, TargetsKept, ReferencesKept,
           \A m \in Merges : merge'[m].claims = merge[m].claims
                             /\ merge'[m].source = merge[m].source
    PROVE  TargetsKept'
<1>1. \A m \in Merges : \A x \in merge[m].claims :
        x.old \in Claims /\ x.new \in Claims /\ x.old \notin Fresh /\ x.new \notin Fresh
  BY MappingClaims DEF MappingsOk
<1>2. ASSUME NEW m \in Merges, NEW x \in merge[m].claims
      PROVE  claim'[x.old].target # merge[m].source => claim'[x.new].target = claim'[x.old].target
  BY <1>1 DEF ReferencesKept, TargetsKept
<1>3. QED
  BY <1>2 DEF TargetsKept

Live(c) ==
    Active(claim[c].subject) /\ (claim[c].target # None => Active(claim[c].target))

LEMMA LiveIs == ClaimsAreLive <=> \A c \in Current : Live(c)
  BY DEF ClaimsAreLive, SubjectsAreLive, TargetsAreLive, Live

LEMMA LiveIsNext == ClaimsAreLive' <=> \A c \in Current' : Live(c)'
  BY DEF ClaimsAreLive, SubjectsAreLive, TargetsAreLive, Live

(* At the end of a transaction nothing is at work.                         *)
LEMMA AtRest ==
    ASSUME \A w \in Writers : writer'[w].op = "idle"
    PROVE  OneAtATime' /\ \A w \in Writers : Prepared(w)'
  BY DEF OneAtATime, Prepared, Doing

LEMMA Finished ==
    ASSUME TypeOK, SerialInv, NEW w \in Writers, ~Doing(w, "idle"),
           writer' = [writer EXCEPT ![w] = Idle]
    PROVE  \A v \in Writers : writer'[v].op = "idle"
<1>1. writer'[w].op = "idle" /\ \A v \in Writers : v # w => writer'[v] = writer[v]
  BY TypesAre DEF Idle
<1>2. \A v \in Writers : v # w => writer[v].op = "idle"
  BY DEF SerialInv, OneAtATime, Doing
<1>3. QED
  BY <1>1, <1>2

LEMMA NoneAtWork ==
    ASSUME Alone, UNCHANGED writer
    PROVE  \A w \in Writers : writer'[w].op = "idle"
  BY DEF Alone, Doing

(* A transaction starts, or stops without writing.                         *)
LEMMA TurnSerial ==
    ASSUME SerialInv, OneAtATime', NEW w \in Writers, UNCHANGED <<entity, claim, merge>>,
           \A v \in Writers : v # w => writer'[v] = writer[v], Prepared(w)'
    PROVE  SerialInv'
<1>1. ASSUME NEW v \in Writers, v # w PROVE Prepared(v)'
  BY <1>1 DEF SerialInv, Prepared, Doing, Active, Current, Mentions
<1>2. TargetsKept' /\ ClaimsAreLive'
  BY DEF SerialInv, TargetsKept, ClaimsAreLive, SubjectsAreLive, TargetsAreLive, Active, Current
<1>3. QED
  BY <1>1, <1>2 DEF SerialInv

LEMMA PrepareSerial ==
    ASSUME IInv, SerialInv, OneAtATime', NEW w \in Writers, NEW s \in Statement, NEW old,
           Prepare(w, s, old)
    PROVE  SerialInv'
<1>1. UNCHANGED <<entity, claim, merge>> /\ \A v \in Writers : v # w => writer'[v] = writer[v]
  BY DEF Prepare
<1>2. writer'[w].op \in {"count", "write"} /\ writer'[w].claim = s
  BY TypesAre DEF IInv, Prepare, Idle
<1>3. Prepared(w)'
  BY <1>1, <1>2 DEF Prepare, Prepared, Doing, Active
<1>4. QED
  BY <1>1, <1>3, TurnSerial

LEMMA CountClaimsSerial ==
    ASSUME IInv, SerialInv, OneAtATime', NEW w \in Writers, CountClaims(w)
    PROVE  SerialInv'
<1>1. UNCHANGED <<entity, claim, merge>> /\ \A v \in Writers : v # w => writer'[v] = writer[v]
  BY DEF CountClaims
<1>2. writer[w] \in WriterType /\ writer[w].op = "count"
  BY TypesAre DEF IInv, CountClaims, Doing
<1>3. writer'[w].op = "write" /\ writer'[w].claim = writer[w].claim
  BY <1>2, TypesAre DEF IInv, CountClaims, WriterType
<1>4. Prepared(w)'
  BY <1>1, <1>2, <1>3 DEF SerialInv, Prepared, Doing, Active
<1>5. QED
  BY <1>1, <1>4, TurnSerial

LEMMA LockClaimsSerial ==
    ASSUME IInv, SerialInv, OneAtATime', NEW w \in Writers, LockClaims(w)
    PROVE  SerialInv'
<1>1. UNCHANGED <<entity, claim, merge>> /\ \A v \in Writers : v # w => writer'[v] = writer[v]
  BY TypesAre DEF IInv, LockClaims
<1>2. writer[w] \in WriterType /\ writer[w].op = "merge"
  BY TypesAre DEF IInv, LockClaims, Doing
<1>3. /\ writer'[w].op = "migrate" /\ writer'[w].source = writer[w].source
      /\ writer'[w].claims = writer[w].claims \cap Current
  BY <1>2, TypesAre DEF IInv, LockClaims, WriterType
<1>4. Prepared(w)'
  BY <1>1, <1>2, <1>3 DEF SerialInv, Prepared, Doing, Current, Mentions
<1>5. QED
  BY <1>1, <1>4, TurnSerial

LEMMA LockForMergeSerial ==
    ASSUME IInv, SerialInv, OneAtATime', NEW w \in Writers, NEW s, NEW t, LockForMerge(w, s, t)
    PROVE  SerialInv'
<1>1. UNCHANGED <<entity, claim, merge>> /\ \A v \in Writers : v # w => writer'[v] = writer[v]
  BY DEF LockForMerge
<1>2. /\ writer'[w].op = "merge" /\ writer'[w].source = s
      /\ writer'[w].claims = {c \in Current : Mentions(c, s)}
  BY TypesAre DEF IInv, LockForMerge, Idle
<1>3. Prepared(w)'
  BY <1>1, <1>2 DEF Prepared, Doing, Current, Mentions
<1>4. QED
  BY <1>1, <1>3, TurnSerial

LEMMA AbortSerial ==
    ASSUME IInv, SerialInv, NEW w \in Writers, Abort(w)
    PROVE  SerialInv'
<1>1. /\ UNCHANGED <<entity, claim, merge>>
      /\ writer' = [writer EXCEPT ![w] = Idle] /\ ~Doing(w, "idle")
  BY DEF Abort
<1>2. \A v \in Writers : writer'[v].op = "idle"
  BY <1>1, Finished DEF IInv
<1>3. \A v \in Writers : v # w => writer'[v] = writer[v]
  BY <1>1
<1>4. QED
  BY <1>1, <1>2, <1>3, AtRest, TurnSerial

LEMMA WriteClaimSerial ==
    ASSUME IInv, SerialInv, NEW w \in Writers, WriteClaim(w)
    PROVE  SerialInv'
<1> DEFINE t == writer[w]
<1>1. /\ UNCHANGED <<entity, merge>> /\ ~Doing(w, "idle")
      /\ writer' = [writer EXCEPT ![w] = Idle]
  BY DEF WriteClaim, Doing
<1>2. \A v \in Writers : writer'[v].op = "idle"
  BY <1>1, Finished DEF IInv
<1>3. t.claim \in Statement /\ Active(t.claim.subject)
  BY DEF IInv, LocksHold, WriteClaim, Doing, WriterOk, EntityLocks, Statement
<1>4. t.claim.target # None => Active(t.claim.target)
  BY DEF SerialInv, Prepared, WriteClaim
<1>5. NewClaim \in Fresh /\ NewClaim \in Claims
  BY NewClaimIsFresh DEF WriteClaim
<1>6. claim'[NewClaim] = t.claim
  BY <1>5 DEF WriteClaim
<1>7. ASSUME NEW c \in Claims, c # NewClaim
      PROVE  /\ claim'[c].subject = claim[c].subject /\ claim'[c].target = claim[c].target
             /\ c \in Current' => c \in Current
  <2>1. claim[c] \in ClaimType
    BY TypesAre DEF IInv
  <2>2. CASE c = t.old
    <3>1. claim'[c] = [claim[c] EXCEPT !.status = "superseded"]
      BY <1>7, <2>2 DEF WriteClaim
    <3>2. QED
      BY <2>1, <3>1 DEF ClaimType, Current
  <2>3. CASE c # t.old
    <3>1. claim'[c] = claim[c]
      BY <1>7, <2>3 DEF WriteClaim
    <3>2. QED
      BY <3>1 DEF Current
  <2>4. QED
    BY <2>2, <2>3
<1>8. TargetsKept'
  <2>1. ReferencesKept
    BY <1>5, <1>7 DEF ReferencesKept
  <2>2. QED
    BY <1>1, <2>1, TargetsStay DEF IInv, SerialInv
<1>9. ASSUME NEW c \in Current' PROVE Live(c)'
  <2>1. c \in Claims
    BY DEF Current
  <2>2. CASE c = NewClaim
    BY <1>1, <1>3, <1>4, <1>6, <2>2 DEF Live, Active
  <2>3. CASE c # NewClaim
    <3>1. Live(c)
      BY <1>7, <2>1, <2>3, LiveIs DEF SerialInv
    <3>2. QED
      BY <1>1, <1>7, <2>1, <2>3, <3>1 DEF Live, Active
  <2>4. QED
    BY <2>2, <2>3
<1>10. QED
  BY <1>2, <1>8, <1>9, AtRest, LiveIsNext DEF SerialInv

LEMMA SetStatusSerial ==
    ASSUME IInv, SerialInv, Alone, NEW c \in Current, NEW status, SetStatus(c, status)
    PROVE  SerialInv'
<1>1. /\ UNCHANGED <<entity, merge, writer>> /\ c \in Claims
      /\ claim' = [claim EXCEPT ![c].status = status]
  BY DEF SetStatus, Current
<1>2. ASSUME NEW d \in Claims
      PROVE  /\ claim'[d].subject = claim[d].subject /\ claim'[d].target = claim[d].target
             /\ d \in Current' => d \in Current
  <2>1. claim[d] \in ClaimType
    BY TypesAre DEF IInv
  <2>2. CASE d = c
    <3>1. claim'[d] = [claim[d] EXCEPT !.status = status]
      BY <1>1, <2>2, TypesAre DEF IInv
    <3>2. QED
      BY <2>1, <2>2, <3>1 DEF ClaimType
  <2>3. CASE d # c
    <3>1. claim'[d] = claim[d]
      BY <1>1, <2>3, TypesAre DEF IInv
    <3>2. QED
      BY <3>1 DEF Current
  <2>4. QED
    BY <2>2, <2>3
<1>3. TargetsKept'
  BY <1>1, <1>2, TargetsStay DEF IInv, SerialInv, ReferencesKept
<1>4. ASSUME NEW d \in Current' PROVE Live(d)'
  <2>1. d \in Claims
    BY DEF Current
  <2>2. Live(d)
    BY <1>2, <2>1, LiveIs DEF SerialInv
  <2>3. QED
    BY <1>1, <1>2, <2>1, <2>2 DEF Live, Active
<1>5. QED
  BY <1>1, <1>3, <1>4, NoneAtWork, AtRest, LiveIsNext DEF SerialInv

LEMMA RelabelSerial ==
    ASSUME SerialInv, Alone, UNCHANGED <<entity, claim, merge, writer>>
    PROVE  SerialInv'
<1>1. TargetsKept' /\ ClaimsAreLive'
  BY DEF SerialInv, TargetsKept, ClaimsAreLive, SubjectsAreLive, TargetsAreLive, Active, Current
<1>2. QED
  BY <1>1, NoneAtWork, AtRest DEF SerialInv

LEMMA DeleteSerial ==
    ASSUME IInv, SerialInv, Alone, NEW e \in Entities, DeleteEntity(e)
    PROVE  SerialInv'
<1>1. UNCHANGED <<claim, merge, writer>> /\ \A d : d # e => entity'[d] = entity[d]
  BY DEF DeleteEntity
<1>2. TargetsKept'
  BY <1>1 DEF SerialInv, TargetsKept
<1>3. ASSUME NEW c \in Current' PROVE Live(c)'
  <2>1. c \in Current /\ ~Mentions(c, e)
    BY <1>1 DEF Current, DeleteEntity
  <2>2. Live(c)
    BY <2>1, LiveIs DEF SerialInv
  <2>3. QED
    BY <1>1, <2>1, <2>2 DEF Live, Active, Mentions
<1>4. QED
  BY <1>1, <1>2, <1>3, NoneAtWork, AtRest, LiveIsNext DEF SerialInv

LEMMA MergeEntitySerial ==
    ASSUME IInv, SerialInv, NEW w \in Writers, MergeEntity(w)
    PROVE  SerialInv'
<1> DEFINE s == writer[w].source
           t == writer[w].target
           C == Selected(w)
           id == NewIds(C)
           n == NewMerge
<1>1. ~Doing(w, "idle") /\ writer' = [writer EXCEPT ![w] = Idle]
  BY DEF MergeEntity, Doing
<1>2. \A v \in Writers : writer'[v].op = "idle"
  BY <1>1, Finished DEF IInv
<1>3. s \in Entities /\ t \in Entities /\ s # t /\ Active(t)
  BY MergedAreActive DEF IInv
<1>4. \A e : e # s => entity'[e] = entity[e]
  BY DEF MergeEntity
<1>5. \A c \in Current : Mentions(c, s) => c \in C
  BY DEF SerialInv, Prepared, MergeEntity, Selected
<1>6. C \subseteq Current /\ C \subseteq Claims
  BY SelectedAreCurrent DEF IInv
<1>7. /\ id \in [C -> Fresh]
      /\ \A c \in C : /\ claim'[c] = [claim[c] EXCEPT !.status = Compensated(@)]
                      /\ claim'[id[c]] = Copied(c, s, t)
      /\ \A x \in Claims : x \notin C /\ (\A c \in C : id[c] # x) => claim'[x] = claim[x]
  BY ClaimsMerged DEF IInv
<1>8. /\ n \in Merges /\ merge'[n].source = s
      /\ \A x \in merge'[n].claims : x.old \in C /\ x.new = id[x.old]
      /\ \A m \in Merges : m # n => merge'[m] = merge[m]
  BY MergeRecorded DEF IInv
<1> HIDE DEF s, t, C, id, n
<1>9. ASSUME NEW c \in C
      PROVE  /\ claim'[c].target = claim[c].target
             /\ claim'[c].status \in {"deprecated", "rejected"}
             /\ claim'[id[c]].subject = Moved(claim[c].subject, s, t)
             /\ claim'[id[c]].target = Moved(claim[c].target, s, t)
  <2>1. claim[c] \in ClaimType
    BY <1>6, TypesAre DEF IInv
  <2>2. /\ claim'[c] = [claim[c] EXCEPT !.status = Compensated(@)]
        /\ claim'[id[c]] = Copied(c, s, t)
    BY <1>7
  <2>3. claim'[c].target = claim[c].target /\ claim'[c].status = Compensated(claim[c].status)
    BY <2>1, <2>2 DEF ClaimType
  <2>4. /\ claim'[id[c]].subject = Moved(claim[c].subject, s, t)
        /\ claim'[id[c]].target = Moved(claim[c].target, s, t)
    BY <2>1, <2>2 DEF Copied, ClaimType
  <2>5. QED
    BY <2>3, <2>4, CompensatedIsPast
<1>10. ReferencesKept
  <2>1. ASSUME NEW c \in Claims, c \notin Fresh PROVE claim'[c].target = claim[c].target
    BY <1>7, <1>9, <2>1
  <2>2. QED
    BY <2>1 DEF ReferencesKept
<1>11. TargetsKept'
  <2>1. ASSUME NEW m \in Merges, NEW x \in merge'[m].claims, m # n,
               claim'[x.old].target # merge'[m].source
        PROVE  claim'[x.new].target = claim'[x.old].target
    <3>1. merge'[m] = merge[m]
      BY <1>8, <2>1
    <3>2. x.old \in Claims /\ x.new \in Claims /\ x.old \notin Fresh /\ x.new \notin Fresh
      BY <3>1, MappingClaims DEF IInv, MappingsOk
    <3>3. QED
      BY <1>10, <2>1, <3>1, <3>2 DEF ReferencesKept, SerialInv, TargetsKept
  <2>2. ASSUME NEW x \in merge'[n].claims, claim'[x.old].target # s
        PROVE  claim'[x.new].target = claim'[x.old].target
    BY <1>8, <1>9, <2>2 DEF Moved
  <2>3. ASSUME NEW m \in Merges, NEW x \in merge'[m].claims,
               claim'[x.old].target # merge'[m].source
        PROVE  claim'[x.new].target = claim'[x.old].target
    <3>1. CASE m = n
      BY <1>8, <2>2, <2>3, <3>1
    <3>2. CASE m # n
      BY <2>1, <2>3, <3>2
    <3>3. QED
      BY <3>1, <3>2
  <2>4. QED
    BY <2>3 DEF TargetsKept
<1>12. ASSUME NEW c \in Current' PROVE Live(c)'
  <2>1. c \in Claims /\ c \notin C
    BY <1>9 DEF Current
  <2>2. CASE \E d \in C : c = id[d]
    <3>1. PICK d \in C : c = id[d]
      BY <2>2
    <3>2. Live(d)
      BY <1>6, LiveIs DEF SerialInv
    <3>3. \A e : Active(e) => entity'[Moved(e, s, t)].status = "active"
      BY <1>3, <1>4 DEF Active, Moved
    <3>4. Moved(claim[d].target, s, t) # None => claim[d].target # None
      BY <1>3, EntityMergeAssumption DEF Moved
    <3>5. QED
      BY <1>9, <3>1, <3>2, <3>3, <3>4 DEF Live, Active
  <2>3. CASE \A d \in C : c # id[d]
    <3>1. claim'[c] = claim[c] /\ c \in Current
      BY <1>7, <2>1, <2>3 DEF Current
    <3>2. Live(c) /\ ~Mentions(c, s)
      BY <1>5, <2>1, <3>1, LiveIs DEF SerialInv
    <3>3. QED
      BY <1>4, <3>1, <3>2 DEF Live, Active, Mentions
  <2>4. QED
    BY <2>2, <2>3
<1>13. QED
  BY <1>2, <1>11, <1>12, AtRest, LiveIsNext DEF SerialInv

LEMMA RollbackSerial ==
    ASSUME IInv, SerialInv, Alone, NEW m \in Merges, RollbackEntityMerge(m)
    PROVE  SerialInv'
<1> DEFINE s == merge[m].source
<1>1. UNCHANGED writer /\ \A e : e # s => entity'[e] = entity[e]
  BY DEF RollbackEntityMerge
<1>2. s \in Entities
  BY RollbackRecorded DEF IInv, MappingsOk, Applied
<1>3. entity'[s].status = "active"
  BY <1>2, TypesAre DEF IInv, RollbackEntityMerge
<1>4. \A e : Active(e) => Active(e)'
  BY <1>1, <1>3 DEF Active
<1>5. \A k \in Merges : merge'[k].claims = merge[k].claims /\ merge'[k].source = merge[k].source
  BY RollbackRecorded DEF IInv
<1>6. /\ \A x \in merge[m].claims :
           claim'[x.new] = [claim[x.new] EXCEPT !.status = Compensated(@)]
      /\ \A c \in Claims : (\A x \in merge[m].claims : x.new # c /\ x.old # c)
           => claim'[c] = claim[c]
  BY ClaimsRestored DEF IInv
<1>7. ASSUME NEW x \in merge[m].claims
      PROVE  /\ x.old \in Claims /\ x.new \in Claims /\ x.new \in Current
             /\ claim'[x.old].subject = claim[x.old].subject
             /\ claim'[x.old].target = claim[x.old].target
             /\ claim'[x.new].target = claim[x.new].target
             /\ claim'[x.new].status \in {"deprecated", "rejected"}
  <2>1. x.old \in Claims /\ x.new \in Claims
    BY MappingClaims DEF IInv
  <2>2. claim[x.old] \in ClaimType /\ claim[x.new] \in ClaimType
    BY <2>1, TypesAre DEF IInv
  <2>3. /\ claim'[x.old] = [claim[x.old] EXCEPT !.status = x.status]
        /\ claim'[x.new].status \in {"deprecated", "rejected"} /\ x.new \in Current
        /\ claim'[x.old].subject = claim[x.old].subject
    BY RollbackTouches DEF IInv
  <2>4. claim'[x.old].target = claim[x.old].target /\ claim'[x.new].target = claim[x.new].target
    BY <1>6, <2>2, <2>3 DEF ClaimType
  <2>5. QED
    BY <2>1, <2>3, <2>4
<1> HIDE DEF s
<1>8. TargetsKept'
  <2>1. ReferencesKept
    BY <1>6, <1>7 DEF ReferencesKept
  <2>2. QED
    BY <1>5, <2>1, TargetsStay DEF IInv, SerialInv
<1>9. ASSUME NEW c \in Current' PROVE Live(c)'
  <2>1. c \in Claims
    BY DEF Current
  <2>2. CASE \E x \in merge[m].claims : c = x.new
    BY <1>7, <2>2 DEF Current
  <2>3. CASE \E x \in merge[m].claims : c = x.old
    <3>1. PICK x \in merge[m].claims : c = x.old
      BY <2>3
    <3>2. Live(x.new)
      BY <1>7, LiveIs DEF SerialInv
    <3>3. claim[c].subject = s \/ claim[c].subject = claim[x.new].subject
      BY <3>1 DEF IInv, CopiesOk, s
    <3>4. claim[c].target = s \/ claim[c].target = claim[x.new].target
      BY <3>1 DEF SerialInv, TargetsKept, s
    <3>5. claim'[c].subject = claim[c].subject /\ claim'[c].target = claim[c].target
      BY <1>7, <3>1
    <3>6. QED
      BY <1>3, <1>4, <3>2, <3>3, <3>4, <3>5 DEF Live, Active
  <2>4. CASE \A x \in merge[m].claims : x.new # c /\ x.old # c
    <3>1. claim'[c] = claim[c]
      BY <1>6, <2>1, <2>4
    <3>2. Live(c)
      BY <2>1, <3>1, LiveIs DEF SerialInv, Current
    <3>3. QED
      BY <1>4, <3>1, <3>2 DEF Live, Active
  <2>5. QED
    BY <2>2, <2>3, <2>4
<1>10. QED
  BY <1>1, <1>8, <1>9, NoneAtWork, AtRest, LiveIsNext DEF SerialInv

LEMMA SerialStart == Init => SerialInv
<1> SUFFICES ASSUME Init PROVE SerialInv
  OBVIOUS
<1>1. \A w \in Writers : writer[w].op = "idle"
  BY DEF Init, Idle
<1>2. Current = {}
  BY DEF Init, Current, NoClaim
<1>3. \A m \in Merges : merge[m].claims = {}
  BY DEF Init, NoMerge
<1>4. OneAtATime /\ \A w \in Writers : Prepared(w)
  BY <1>1 DEF OneAtATime, Prepared, Doing
<1>5. QED
  BY <1>2, <1>3, <1>4 DEF SerialInv, TargetsKept, ClaimsAreLive, SubjectsAreLive, TargetsAreLive

LEMMA StepSerial ==
    ASSUME IInv, SerialInv, [Next /\ OneAtATime' /\ Alone]_vars
    PROVE  SerialInv'
<1>1. CASE UNCHANGED vars
  BY <1>1 DEF vars, SerialInv, OneAtATime, Prepared, Doing, TargetsKept, ClaimsAreLive,
              SubjectsAreLive, TargetsAreLive, Active, Current, Mentions
<1> SUFFICES ASSUME Next, OneAtATime', Alone PROVE SerialInv'
  BY <1>1
<1>2. ASSUME NEW w \in Writers, CreateClaim(w) PROVE SerialInv'
  BY <1>2, PrepareSerial DEF CreateClaim
<1>3. ASSUME NEW w \in Writers, SupersedeClaim(w) PROVE SerialInv'
  BY <1>3, PrepareSerial DEF SupersedeClaim
<1>4. ASSUME NEW w \in Writers, WriteClaim(w) PROVE SerialInv'
  BY <1>4, WriteClaimSerial
<1>5. ASSUME NEW w \in Writers, NEW s \in Entities, NEW t \in Entities, LockForMerge(w, s, t)
      PROVE  SerialInv'
  BY <1>5, LockForMergeSerial
<1>6. ASSUME NEW w \in Writers, MergeEntity(w) \/ Abort(w) PROVE SerialInv'
  BY <1>6, MergeEntitySerial, AbortSerial
<1>7. ASSUME NEW c \in Claims, PublishClaim(c) \/ RejectClaim(c) \/ DeprecateClaim(c)
      PROVE  SerialInv'
  <2>1. c \in Current /\ \E status : SetStatus(c, status)
    BY <1>7 DEF PublishClaim, RejectClaim, DeprecateClaim, Current
  <2>2. QED
    BY <2>1, SetStatusSerial
<1>8. ASSUME NEW e \in Entities, DeleteEntity(e) PROVE SerialInv'
  BY <1>8, DeleteSerial
<1>9. ASSUME NEW e \in Entities, NEW l \in Labels, Relabel(e, l) PROVE SerialInv'
  BY <1>9, RelabelSerial DEF Relabel
<1>10. ASSUME NEW m \in Merges, RollbackEntityMerge(m) PROVE SerialInv'
  BY <1>10, RollbackSerial
<1>11. ASSUME NEW w \in Writers, CountClaims(w) \/ LockClaims(w) PROVE SerialInv'
  BY <1>11, CountClaimsSerial, LockClaimsSerial
<1>12. QED
  BY <1>2, <1>3, <1>4, <1>5, <1>6, <1>7, <1>8, <1>9, <1>10, <1>11 DEF Next

LEMMA SerialInvariance == SerialSpec => [](IInv /\ SerialInv)
<1>1. Init => IInv /\ SerialInv
  BY InitInv, SerialStart
<1>2. ASSUME IInv, SerialInv, [Next /\ OneAtATime' /\ Alone]_vars PROVE IInv' /\ SerialInv'
  BY <1>2, NextInv, StepSerial
<1>3. QED
  BY <1>1, <1>2, PTL DEF SerialSpec

(* The same of the scoped specification but for its concurrent behaviours.  *)
LEMMA ScopedInvariance == ScopedSpec => []((scope # "concurrent") => IInv /\ SerialInv)
<1> DEFINE J == IInv /\ (scope # "concurrent" => SerialInv)
           S == scope \in {"concurrent", "serial", "labels"}
<1>1. ScopedInit => J /\ S
  BY InitInv, SerialStart DEF ScopedInit
<1>2. ASSUME J, S, [ScopedNext]_<<vars, scope>> PROVE J' /\ S'
  <2>1. scope' = scope /\ [Next]_vars
    BY <1>2 DEF ScopedNext
  <2>2. IInv'
    BY <1>2, <2>1, NextInv
  <2>3. scope # "concurrent" => [Next /\ OneAtATime' /\ Alone]_vars
    BY <1>2 DEF ScopedNext, Bounds
  <2>4. QED
    BY <1>2, <2>1, <2>2, <2>3, StepSerial
<1>3. J => (scope # "concurrent" => IInv /\ SerialInv)
  OBVIOUS
<1> HIDE DEF J, S
<1>4. QED
  BY <1>1, <1>2, <1>3, PTL DEF ScopedSpec

(* One transaction at a time, a current claim is about active entities and   *)
(* refers to active entities, however merges, their rollbacks and the       *)
(* deletion of entities follow one another: a merge takes every current     *)
(* claim that mentions its source (listCurrentClaimsForMerge), and what a   *)
(* rollback restores was replaced by a claim that was current until then    *)
(* (RollbackEntityMergeInTx).                                               *)
THEOREM OneAtATimeClaimsAreLive ==
    /\ SerialSpec => []ClaimsAreLive
    /\ ScopedSpec => []SerialClaimsAreLive
<1>1. SerialInv => ClaimsAreLive
  BY DEF SerialInv
<1>2. (scope # "concurrent" => IInv /\ SerialInv) => SerialClaimsAreLive
  BY <1>1 DEF SerialClaimsAreLive
<1>3. QED
  BY <1>1, <1>2, SerialInvariance, ScopedInvariance, PTL
=============================================================================
