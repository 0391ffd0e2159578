----------------------------- MODULE PageProofs -----------------------------
(* Theorems about the two parts of backend/internal/page: about Revisions   *)
(* for any pages, contents, writers and archivers and any number of         *)
(* revisions and crashes, and then about PageIdentity for any pages,        *)
(* titles, writers, operations, kinds of target and number of batches.      *)
EXTENDS Revisions, MCPageIdentityScopes, FiniteSetTheorems, TLAPS

Sharing == {"picked", "written"}
Holding == {"locked", "picked", "written"}
Uploaded == {"uploaded", "locked", "eligible"}

(* Rows refer to committed rows, and what a snapshot says can be read.      *)
TableInv ==
    /\ \A p \in Pages : current[p] \in 0 .. nrev
    /\ \A i \in Committed : rev[i].snap \in Stored
    /\ \A i \in Committed : rev[i].kind = "rollback" => rev[i].from \in Committed
    /\ \A s \in Stored : Readable(s)

(* What a writer carries from one statement to the next stays true: its     *)
(* baseline because it holds the page row, the content of its snapshot and  *)
(* of its target because neither ever changes.                              *)
WriterInv(w) ==
    /\ writer[w].phase \in Holding => /\ pageLock[writer[w].page] = w
                                      /\ ExpectedMatchesCurrent(w)
    /\ writer[w].snap \in 0 .. nsnap
    /\ writer[w].phase \notin Sharing => writer[w].snap = 0
    /\ writer[w].snap # 0 => /\ Hot(writer[w].snap)
                             /\ snapshot[writer[w].snap].content = writer[w].content
    /\ writer[w].kind = "rollback" /\ writer[w].phase # "idle" =>
         /\ writer[w].from \in Committed
         /\ rev[writer[w].from].page = writer[w].page
         /\ snapshot[rev[writer[w].from].snap].content = writer[w].content

(* An archiver past its upload works on a snapshot whose content is stored. *)
ArchiverInv(a) ==
    /\ archiver[a].phase # "idle" => archiver[a].snap \in Stored
    /\ archiver[a].phase \in Uploaded => snapshot[archiver[a].snap].content \in objects

(* FOR SHARE and FOR UPDATE exclude each other on a snapshot row.           *)
ExclusionInv ==
    \A w \in Writers, a \in Archivers, s \in Id : ~(Shares(w, s) /\ Exclusive(a, s))

IInv ==
    /\ TypeOK /\ TableInv
    /\ \A w \in Writers : WriterInv(w)
    /\ \A a \in Archivers : ArchiverInv(a)
    /\ ExclusionInv
    /\ CurrentIsHot /\ LinearHistory /\ NoLostUpdate /\ RollbackRestores

LEMMA Types ==
    ASSUME TypeOK
    PROVE  /\ \A w \in Writers :
                /\ writer[w] \in WriterType
                /\ writer[w].page \in Pages /\ writer[w].from \in IdOrNull
                /\ writer[w].content \in Contents /\ writer[w].snap \in IdOrNull
                /\ writer[w].kind \in {"publish", "rollback"}
           /\ \A i \in Id : /\ rev[i].page \in Pages /\ rev[i].parent \in IdOrNull
                            /\ rev[i].snap \in IdOrNull /\ rev[i].from \in IdOrNull
                            /\ rev[i].kind \in {"publish", "rollback"}
           /\ \A s \in Id : snapshot[s].content \in Contents /\ snapshot[s].tier \in {"hot", "cold"}
           /\ Committed \subseteq Id /\ Stored \subseteq Id
           /\ nrev \in Nat /\ nsnap \in Nat /\ MaxRevisions \in Nat
<1>1. \A w \in Writers :
        /\ writer[w] \in WriterType
        /\ writer[w].page \in Pages /\ writer[w].from \in IdOrNull
        /\ writer[w].content \in Contents /\ writer[w].snap \in IdOrNull
        /\ writer[w].kind \in {"publish", "rollback"}
  BY DEF TypeOK, WriterType
<1>2. \A i \in Id : /\ rev[i].page \in Pages /\ rev[i].parent \in IdOrNull
                    /\ rev[i].snap \in IdOrNull /\ rev[i].from \in IdOrNull
                    /\ rev[i].kind \in {"publish", "rollback"}
  BY DEF TypeOK
<1>3. \A s \in Id : snapshot[s].content \in Contents /\ snapshot[s].tier \in {"hot", "cold"}
  BY DEF TypeOK
<1>4. nrev \in Nat /\ nsnap \in Nat /\ MaxRevisions \in Nat
  BY RevisionsAssumption DEF TypeOK, IdOrNull
<1>5. Committed \subseteq Id /\ Stored \subseteq Id
  BY RevisionsAssumption DEF TypeOK, Id, IdOrNull, Committed, Stored
<1>6. QED
  BY <1>1, <1>2, <1>3, <1>4, <1>5

LEMMA IdleTypes ==
    /\ SomePage \in Pages /\ SomeContent \in Contents
    /\ IdleWriter \in WriterType
    /\ NoRevision \in [page : Pages, parent : IdOrNull, snap : IdOrNull,
                       kind : {"publish", "rollback"}, from : IdOrNull]
    /\ NoSnapshot \in [content : Contents, tier : {"hot", "cold"}]
    /\ IdleArchiver \in [phase : {"idle", "candidate", "uploaded", "locked", "eligible"},
                         snap : IdOrNull]
<1>1. SomePage \in Pages /\ SomeContent \in Contents
  BY RevisionsAssumption DEF SomePage, SomeContent
<1>2. 0 \in IdOrNull
  BY RevisionsAssumption DEF IdOrNull
<1>3. QED
  BY <1>1, <1>2 DEF IdleWriter, WriterType, NoRevision, NoSnapshot, IdleArchiver

LEMMA InitInv == Init => IInv
<1> SUFFICES ASSUME Init PROVE IInv
  OBVIOUS
<1>1. Committed = {} /\ Stored = {} /\ 0 \in IdOrNull /\ MaxRevisions \in Nat
  BY RevisionsAssumption DEF Init, Committed, Stored, IdOrNull
<1>2. TypeOK
  BY <1>1, IdleTypes, RevisionsAssumption DEF Init, TypeOK
<1>3. TableInv /\ CurrentIsHot /\ LinearHistory /\ NoLostUpdate /\ RollbackRestores
  BY <1>1 DEF Init, TableInv, CurrentIsHot, LinearHistory, NoLostUpdate,
              RollbackRestores, OfPage
<1>4. \A w \in Writers : writer[w] = IdleWriter
  BY DEF Init
<1>5. \A a \in Archivers : archiver[a] = IdleArchiver
  BY DEF Init
<1>6. (\A w \in Writers : WriterInv(w)) /\ ExclusionInv
  BY <1>1, <1>4 DEF Init, WriterInv, ExclusionInv, Shares, IdleWriter, Holding, Sharing
<1>7. \A a \in Archivers : ArchiverInv(a)
  BY <1>5 DEF ArchiverInv, IdleArchiver, Uploaded
<1>8. QED
  BY <1>2, <1>3, <1>6, <1>7 DEF IInv

(***************************************************************************)
(* Steps that leave the tables alone.                                      *)
(***************************************************************************)

(* A step of one writer that takes no lock from another.                   *)
LEMMA WriterStep ==
    ASSUME IInv, NEW w \in Writers, NEW v \in WriterType,
           writer' = [writer EXCEPT ![w] = v],
           UNCHANGED <<tables, objects, archiver>>,
           pageLock' \in [Pages -> Writers \cup {NoOne}],
           \A p \in Pages : pageLock[p] \notin {w, NoOne} => pageLock'[p] = pageLock[p],
           crashes' \in 0 .. MaxCrashes,
           WriterInv(w)',
           \A a \in Archivers, s \in Id : Exclusive(a, s) => ~Shares(w, s)'
    PROVE  IInv'
<1>1. writer \in [Writers -> WriterType]
  BY DEF IInv, TypeOK
<1>2. /\ UNCHANGED <<current, deleted, nrev, rev, nsnap, snapshot>>
      /\ writer'[w] = v
      /\ \A u \in Writers \ {w} : writer'[u] = writer[u]
  BY <1>1 DEF tables
<1>3. TypeOK'
  BY <1>1, <1>2 DEF IInv, TypeOK
<1>4. TableInv' /\ CurrentIsHot' /\ LinearHistory' /\ NoLostUpdate' /\ RollbackRestores'
  BY <1>2 DEF IInv, TableInv, CurrentIsHot, LinearHistory, NoLostUpdate,
              RollbackRestores, Committed, Stored, Readable, Hot, OfPage
<1>5. \A u \in Writers \ {w} : WriterInv(u)'
  <2> SUFFICES ASSUME NEW u \in Writers \ {w} PROVE WriterInv(u)'
    OBVIOUS
  <2>1. WriterInv(u) /\ writer[u].page \in Pages
    BY Types DEF IInv
  <2>2. writer[u].phase \in Holding => pageLock'[writer[u].page] = u
    BY <2>1, RevisionsAssumption DEF WriterInv
  <2>3. QED
    BY <1>2, <2>1, <2>2 DEF WriterInv, ExpectedMatchesCurrent, Hot, Committed
<1>6. \A a \in Archivers : ArchiverInv(a)'
  BY <1>2 DEF IInv, ArchiverInv, Stored
<1>7. ExclusionInv'
  <2>1. \A u \in Writers \ {w}, s \in Id : Shares(u, s)' = Shares(u, s)
    BY <1>2 DEF Shares
  <2>2. \A a \in Archivers, s \in Id : Exclusive(a, s)' = Exclusive(a, s)
    BY DEF Exclusive
  <2>3. QED
    BY <2>1, <2>2 DEF IInv, ExclusionInv
<1>8. QED
  BY <1>3, <1>4, <1>5, <1>6, <1>7 DEF IInv

(* A step of one archiver that at most adds an object.                     *)
LEMMA ArchiverStep ==
    ASSUME IInv, NEW a \in Archivers,
           NEW v \in [phase : {"idle", "candidate", "uploaded", "locked", "eligible"},
                      snap : IdOrNull],
           archiver' = [archiver EXCEPT ![a] = v],
           UNCHANGED <<tables, pageLock, writer>>,
           objects \subseteq objects', objects' \subseteq Contents,
           crashes' \in 0 .. MaxCrashes,
           ArchiverInv(a)',
           \A w \in Writers, s \in Id : Shares(w, s) => ~Exclusive(a, s)'
    PROVE  IInv'
<1>1. archiver \in [Archivers ->
        [phase : {"idle", "candidate", "uploaded", "locked", "eligible"}, snap : IdOrNull]]
  BY DEF IInv, TypeOK
<1>2. /\ UNCHANGED <<current, deleted, nrev, rev, nsnap, snapshot>>
      /\ archiver'[a] = v
      /\ \A b \in Archivers \ {a} : archiver'[b] = archiver[b]
  BY <1>1 DEF tables
<1>3. TypeOK'
  BY <1>1, <1>2 DEF IInv, TypeOK
<1>4. TableInv' /\ CurrentIsHot' /\ LinearHistory' /\ NoLostUpdate' /\ RollbackRestores'
  BY <1>2 DEF IInv, TableInv, CurrentIsHot, LinearHistory, NoLostUpdate,
              RollbackRestores, Committed, Stored, Readable, Hot, OfPage
<1>5. \A u \in Writers : WriterInv(u)'
  BY <1>2 DEF IInv, WriterInv, ExpectedMatchesCurrent, Hot, Committed
<1>6. \A b \in Archivers \ {a} : ArchiverInv(b)'
  BY <1>2 DEF IInv, ArchiverInv, Stored
<1>7. ExclusionInv'
  <2>1. \A b \in Archivers \ {a}, s \in Id : Exclusive(b, s)' = Exclusive(b, s)
    BY <1>2 DEF Exclusive
  <2>2. \A w \in Writers, s \in Id : Shares(w, s)' = Shares(w, s)
    BY DEF Shares
  <2>3. QED
    BY <2>1, <2>2 DEF IInv, ExclusionInv
<1>8. QED
  BY <1>3, <1>4, <1>5, <1>6, <1>7 DEF IInv

(* Giving up the page lock ends the writer's transaction or request.        *)
LEMMA ReleaseInv ==
    ASSUME IInv, NEW w \in Writers, Release(w),
           UNCHANGED <<tables, objects, archiver>>, crashes' \in 0 .. MaxCrashes
    PROVE  IInv'
<1>1. writer' = [writer EXCEPT ![w] = IdleWriter]
  BY DEF Release
<1>2. pageLock \in [Pages -> Writers \cup {NoOne}] /\ writer \in [Writers -> WriterType]
  BY DEF IInv, TypeOK
<1>3. pageLock' \in [Pages -> Writers \cup {NoOne}]
  BY <1>2 DEF Release
<1>4. \A p \in Pages : pageLock[p] \notin {w, NoOne} => pageLock'[p] = pageLock[p]
  BY DEF Release
<1>5. writer'[w] = IdleWriter /\ nsnap' \in Nat
  BY <1>1, <1>2, Types DEF IInv, tables
<1>6. WriterInv(w)'
  BY <1>5 DEF WriterInv, IdleWriter, Holding, Sharing
<1>7. \A s \in Id : ~Shares(w, s)'
  BY <1>5 DEF Shares, IdleWriter
<1>8. QED
  BY <1>1, <1>3, <1>4, <1>6, <1>7, IdleTypes, WriterStep

LEMMA RequestPublishInv ==
    ASSUME IInv, NEW w \in Writers, NEW p \in Pages, NEW c \in Contents,
           RequestPublish(w, p, c)
    PROVE  IInv'
<1> DEFINE v == [phase |-> "waiting", page |-> p, kind |-> "publish",
                 from |-> current[p], content |-> c, snap |-> 0]
<1>1. v \in WriterType /\ writer' = [writer EXCEPT ![w] = v]
  BY IdleTypes DEF RequestPublish, WriterType, IInv, TypeOK, IdleWriter
<1>2. UNCHANGED <<tables, objects, archiver, pageLock, crashes>>
  BY DEF RequestPublish
<1>3. writer'[w] = v /\ nsnap' \in Nat
  BY <1>1, <1>2, Types DEF IInv, TypeOK, tables
<1>4. WriterInv(w)' /\ \A s \in Id : ~Shares(w, s)'
  BY <1>3 DEF WriterInv, Shares, Holding, Sharing
<1> HIDE DEF v
<1>5. QED
  BY <1>1, <1>2, <1>4, WriterStep DEF IInv, TypeOK

LEMMA RequestRollbackInv ==
    ASSUME IInv, NEW w \in Writers, NEW i \in Committed, RequestRollback(w, i)
    PROVE  IInv'
<1> DEFINE v == [phase |-> "waiting", page |-> rev[i].page, kind |-> "rollback",
                 from |-> i, content |-> snapshot[rev[i].snap].content, snap |-> 0]
<1>1. i \in Id /\ i \in IdOrNull /\ rev[i].snap \in Id
  BY Types DEF IInv, TableInv, Committed, Id, IdOrNull
<1>2. v \in WriterType /\ writer' = [writer EXCEPT ![w] = v]
  BY <1>1, IdleTypes, Types DEF RequestRollback, WriterType, IInv, IdleWriter
<1>3. UNCHANGED <<tables, objects, archiver, pageLock, crashes>>
  BY DEF RequestRollback
<1>4. writer'[w] = v /\ nsnap' \in Nat
  BY <1>2, <1>3, Types DEF IInv, TypeOK, tables
<1>5. WriterInv(w)' /\ \A s \in Id : ~Shares(w, s)'
  BY <1>3, <1>4 DEF WriterInv, Shares, Holding, Sharing, Committed, tables
<1> HIDE DEF v
<1>6. QED
  BY <1>2, <1>3, <1>5, WriterStep DEF IInv, TypeOK

(* The lock makes the baseline a fact: nobody else moves the page now.      *)
LEMMA LockPageInv == ASSUME IInv, NEW w \in Writers, LockPage(w) PROVE IInv'
<1> DEFINE p == writer[w].page
<1>1. p \in Pages /\ writer[w] \in WriterType /\ writer[w].phase = "waiting"
  BY Types DEF IInv, LockPage
<1>2. /\ writer \in [Writers -> WriterType]
      /\ pageLock \in [Pages -> Writers \cup {NoOne}]
      /\ WriterInv(w) /\ crashes \in 0 .. MaxCrashes
  BY DEF IInv, TypeOK
<1>3. /\ UNCHANGED <<tables, objects, archiver, crashes>>
      /\ pageLock[p] = NoOne
  BY DEF LockPage
<1>4. CASE p \notin deleted /\ ExpectedMatchesCurrent(w)
  <2> DEFINE v == [writer[w] EXCEPT !.phase = "locked"]
  <2>1. v \in WriterType
    BY <1>1 DEF WriterType
  <2>2. writer' = [writer EXCEPT ![w] = v]
    BY <1>2, <1>4 DEF LockPage
  <2>3. writer'[w] = v /\ pageLock' = [pageLock EXCEPT ![p] = w]
    BY <1>2, <1>4, <2>2 DEF LockPage
  <2>4. \A q \in Pages : pageLock[q] \notin {w, NoOne} => pageLock'[q] = pageLock[q]
    BY <1>2, <1>3, <2>3
  <2>5. \A s \in Id : ~Shares(w, s)'
    BY <1>1, <2>3 DEF Shares, WriterType
  <2>6. /\ v.phase = "locked" /\ v.page = p /\ v.kind = writer[w].kind
        /\ v.from = writer[w].from /\ v.content = writer[w].content
        /\ v.snap = writer[w].snap
    BY <1>1 DEF WriterType
  <2>7. pageLock'[p] = w
    BY <1>1, <1>2, <2>3
  <2>8. pageLock' \in [Pages -> Writers \cup {NoOne}]
    BY <1>2, <2>3
  <2> HIDE DEF v
  <2>9. WriterInv(w)'
    BY <1>1, <1>2, <1>3, <1>4, <2>3, <2>6, <2>7
       DEF WriterInv, ExpectedMatchesCurrent, Holding, Sharing, Hot, Committed, tables
  <2>10. QED
    BY <1>2, <1>3, <2>1, <2>2, <2>4, <2>5, <2>8, <2>9, WriterStep
<1>5. CASE ~(p \notin deleted /\ ExpectedMatchesCurrent(w))
  <2>1. writer' = [writer EXCEPT ![w] = IdleWriter] /\ pageLock' = pageLock
    BY <1>5 DEF LockPage
  <2>2. writer'[w] = IdleWriter /\ nsnap' \in Nat
    BY <1>2, <1>3, <2>1, Types DEF IInv, tables
  <2>3. WriterInv(w)' /\ \A s \in Id : ~Shares(w, s)'
    BY <2>2 DEF WriterInv, IdleWriter, Shares, Holding, Sharing
  <2>4. QED
    BY <1>2, <1>3, <2>1, <2>3, IdleTypes, WriterStep
<1>6. QED
  BY <1>4, <1>5

LEMMA PickSnapshotInv == ASSUME IInv, NEW w \in Writers, PickSnapshot(w) PROVE IInv'
<1>1. /\ writer[w] \in WriterType /\ writer[w].phase = "locked" /\ WriterInv(w)
      /\ writer \in [Writers -> WriterType]
      /\ UNCHANGED <<tables, objects, pageLock, archiver, crashes>>
  BY DEF PickSnapshot, IInv, TypeOK
<1>2. PICK t \in {0} \cup HotCopies(writer[w].content) :
        /\ t # 0 => ~Excluded(t)
        /\ writer' = [writer EXCEPT ![w] = [writer[w] EXCEPT !.phase = "picked", !.snap = t]]
  <2>1. CASE writer[w].kind = "rollback" /\ HotCopies(writer[w].content) # {}
    BY <2>1, <1>1 DEF PickSnapshot
  <2>2. CASE ~(writer[w].kind = "rollback" /\ HotCopies(writer[w].content) # {})
    <3>1. writer[w].snap = 0
      BY <1>1 DEF WriterInv, Sharing
    <3>2. writer' = [writer EXCEPT ![w] = [writer[w] EXCEPT !.phase = "picked", !.snap = 0]]
      BY <1>1, <2>2, <3>1 DEF PickSnapshot, WriterType
    <3>3. QED
      BY <3>2
  <2>3. QED
    BY <2>1, <2>2
<1> DEFINE v == [writer[w] EXCEPT !.phase = "picked", !.snap = t]
<1>3. t \in 0 .. nsnap /\ t \in IdOrNull
  BY Types, RevisionsAssumption DEF IInv, TypeOK, HotCopies, Stored, IdOrNull
<1>4. /\ v \in WriterType /\ v.phase = "picked" /\ v.page = writer[w].page
      /\ v.kind = writer[w].kind /\ v.from = writer[w].from
      /\ v.content = writer[w].content /\ v.snap = t
  BY <1>1, <1>3 DEF WriterType
<1>5. t # 0 => Hot(t) /\ snapshot[t].content = writer[w].content
  BY <1>2 DEF HotCopies
<1> HIDE DEF v
<1>6. writer' = [writer EXCEPT ![w] = v] /\ writer'[w] = v
  BY <1>1, <1>2 DEF v
<1>7. WriterInv(w)'
  BY <1>1, <1>3, <1>4, <1>5, <1>6
     DEF WriterInv, ExpectedMatchesCurrent, Holding, Sharing, Hot, Committed, tables
<1>8. \A a \in Archivers, s \in Id : Exclusive(a, s) => ~Shares(w, s)'
  <2> SUFFICES ASSUME NEW a \in Archivers, NEW s \in Id, Exclusive(a, s), Shares(w, s)'
               PROVE  FALSE
    OBVIOUS
  <2>1. s = t /\ s # 0
    BY <1>4, <1>6 DEF Shares, Id
  <2>2. Excluded(t)
    BY <2>1 DEF Excluded
  <2>3. QED
    BY <1>2, <2>1, <2>2
<1>9. QED
  BY <1>1, <1>4, <1>6, <1>7, <1>8, WriterStep DEF IInv, TypeOK

LEMMA WriteRevisionInv == ASSUME IInv, NEW w \in Writers, WriteRevision(w) PROVE IInv'
<1>1. /\ writer[w] \in WriterType /\ writer[w].phase = "picked" /\ WriterInv(w)
      /\ writer \in [Writers -> WriterType]
      /\ UNCHANGED <<tables, objects, archiver, crashes>>
      /\ crashes \in 0 .. MaxCrashes
  BY DEF WriteRevision, IInv, TypeOK
<1>2. CASE AcceptsCurrent(w)
  <2> DEFINE v == [writer[w] EXCEPT !.phase = "written"]
  <2>1. /\ v \in WriterType /\ v.phase = "written" /\ v.page = writer[w].page
        /\ v.kind = writer[w].kind /\ v.from = writer[w].from
        /\ v.content = writer[w].content /\ v.snap = writer[w].snap
    BY <1>1 DEF WriterType
  <2> HIDE DEF v
  <2>2. writer' = [writer EXCEPT ![w] = v] /\ writer'[w] = v /\ pageLock' = pageLock
    BY <1>1, <1>2 DEF WriteRevision, v
  <2>3. WriterInv(w)'
    BY <1>1, <2>1, <2>2
       DEF WriterInv, ExpectedMatchesCurrent, Holding, Sharing, Hot, Committed, tables
  <2>4. \A s \in Id : Shares(w, s)' => Shares(w, s)
    BY <1>1, <2>1, <2>2 DEF Shares
  <2>5. \A a \in Archivers, s \in Id : Exclusive(a, s) => ~Shares(w, s)'
    BY <2>4 DEF IInv, ExclusionInv
  <2>6. QED
    BY <1>1, <2>1, <2>2, <2>3, <2>5, WriterStep DEF IInv, TypeOK
<1>3. CASE ~AcceptsCurrent(w)
  BY <1>1, <1>3, ReleaseInv DEF WriteRevision
<1>4. QED
  BY <1>2, <1>3

LEMMA CrashWriterInv == ASSUME IInv, NEW w \in Writers, CrashWriter(w) PROVE IInv'
<1>1. crashes' \in 0 .. MaxCrashes
  BY RevisionsAssumption DEF CrashWriter, IInv, TypeOK
<1>2. QED
  BY <1>1, ReleaseInv DEF CrashWriter

(***************************************************************************)
(* Steps that change the tables.                                           *)
(***************************************************************************)

(* What a commit makes visible: one revision, of a hot snapshot with the    *)
(* writer's content, and nothing else changes.                              *)
LEMMA CommitFacts ==
    ASSUME IInv, NEW w \in Writers, CommitRevision(w)
    PROVE  \E n \in Id, s \in Id :
             /\ n = nrev + 1 /\ nrev' = n
             /\ Committed' = Committed \cup {n}
             /\ rev' = [rev EXCEPT ![n] = NewRevision(w, s)]
             /\ current' = [current EXCEPT ![writer[w].page] = n]
             /\ snapshot' \in [Id -> [content : Contents, tier : {"hot", "cold"}]]
             /\ nsnap' \in IdOrNull /\ nsnap <= nsnap' /\ Stored' = Stored \cup {s}
             /\ snapshot'[s] = [content |-> writer[w].content, tier |-> "hot"]
             /\ \A t \in Stored : snapshot'[t] = snapshot[t]
<1> DEFINE fresh == writer[w].snap = 0
           s == IF fresh THEN nsnap + 1 ELSE writer[w].snap
           row == [content |-> writer[w].content, tier |-> "hot"]
<1>1. /\ nrev < MaxRevisions /\ s <= MaxRevisions
      /\ nsnap' = IF fresh THEN s ELSE nsnap
      /\ snapshot' = IF fresh THEN [snapshot EXCEPT ![s] = row] ELSE snapshot
      /\ nrev' = nrev + 1
      /\ rev' = [rev EXCEPT ![nrev + 1] = NewRevision(w, s)]
      /\ current' = [current EXCEPT ![writer[w].page] = nrev + 1]
  BY DEF CommitRevision, FreshSnapshotId
<1>2. nrev \in Nat /\ nsnap \in Nat /\ MaxRevisions \in Nat /\ nsnap <= MaxRevisions
  BY RevisionsAssumption DEF IInv, TypeOK, IdOrNull
<1>3. writer[w].snap \in 0 .. nsnap /\ writer[w].content \in Contents /\ WriterInv(w)
  BY Types DEF IInv, WriterInv
<1>4. snapshot \in [Id -> [content : Contents, tier : {"hot", "cold"}]]
  BY DEF IInv, TypeOK
<1> HIDE DEF fresh
<1>5. s \in Id /\ nrev + 1 \in Id
  BY <1>1, <1>2, <1>3 DEF Id, fresh
<1>6. Committed' = Committed \cup {nrev + 1}
  BY <1>1, <1>2 DEF Committed
<1>7. /\ nsnap' \in IdOrNull /\ nsnap <= nsnap' /\ Stored' = Stored \cup {s}
  <2>1. CASE fresh
    BY <2>1, <1>1, <1>2 DEF Stored, IdOrNull
  <2>2. CASE ~fresh
    BY <2>2, <1>1, <1>2, <1>3 DEF Stored, IdOrNull, fresh
  <2>3. QED
    BY <2>1, <2>2
<1>8. /\ snapshot' \in [Id -> [content : Contents, tier : {"hot", "cold"}]]
      /\ snapshot'[s] = row
      /\ \A t \in Stored : snapshot'[t] = snapshot[t]
  <2>1. CASE fresh
    <3>1. row \in [content : Contents, tier : {"hot", "cold"}]
      BY <1>3
    <3>2. s \notin Stored
      BY <2>1, <1>2 DEF Stored
    <3> HIDE DEF row, s
    <3>3. QED
      BY <2>1, <3>1, <3>2, <1>1, <1>4, <1>5
  <2>2. CASE ~fresh
    <3>1. /\ s = writer[w].snap /\ snapshot' = snapshot
          /\ snapshot[s].tier = "hot" /\ snapshot[s].content = writer[w].content
      BY <2>2, <1>1, <1>3 DEF WriterInv, Hot, fresh
    <3>2. snapshot[s] \in [content : Contents, tier : {"hot", "cold"}]
      BY <1>4, <1>5
    <3> HIDE DEF s
    <3>3. snapshot[s] = row
      BY <3>1, <3>2
    <3>4. QED
      BY <3>1, <3>3, <1>4
  <2>3. QED
    BY <2>1, <2>2
<1> HIDE DEF s, row
<1>9. snapshot'[s] = [content |-> writer[w].content, tier |-> "hot"]
  BY <1>8 DEF row
<1>10. QED
  BY <1>1, <1>5, <1>6, <1>7, <1>8, <1>9

LEMMA CommitRevisionInv == ASSUME IInv, NEW w \in Writers, CommitRevision(w) PROVE IInv'
<1>1. PICK n \in Id, s \in Id :
             /\ n = nrev + 1 /\ nrev' = n
             /\ Committed' = Committed \cup {n}
             /\ rev' = [rev EXCEPT ![n] = NewRevision(w, s)]
             /\ current' = [current EXCEPT ![writer[w].page] = n]
             /\ snapshot' \in [Id -> [content : Contents, tier : {"hot", "cold"}]]
             /\ nsnap' \in IdOrNull /\ nsnap <= nsnap' /\ Stored' = Stored \cup {s}
             /\ snapshot'[s] = [content |-> writer[w].content, tier |-> "hot"]
             /\ \A t \in Stored : snapshot'[t] = snapshot[t]
  BY CommitFacts
<1> DEFINE p == writer[w].page
           r == NewRevision(w, s)
<1>2. /\ writer[w] \in WriterType /\ writer[w].phase = "written"
      /\ WriterInv(w) /\ p \in Pages /\ pageLock[p] = w
      /\ UNCHANGED <<deleted, objects, archiver, crashes>>
  BY Types DEF CommitRevision, IInv, WriterInv, Holding
<1>3. /\ writer' = [writer EXCEPT ![w] = IdleWriter]
      /\ pageLock' = [q \in Pages |-> IF pageLock[q] = w THEN NoOne ELSE pageLock[q]]
  BY DEF CommitRevision, Release
<1>4. /\ nrev \in Nat /\ nsnap \in Nat /\ nsnap' \in Nat
      /\ Committed \subseteq Id /\ Stored \subseteq Id /\ n \notin Committed
  BY <1>1, Types, RevisionsAssumption DEF IInv, IdOrNull, Committed
<1>5. /\ rev \in [Id -> [page : Pages, parent : IdOrNull, snap : IdOrNull,
                         kind : {"publish", "rollback"}, from : IdOrNull]]
      /\ current \in [Pages -> IdOrNull]
      /\ writer \in [Writers -> WriterType]
      /\ pageLock \in [Pages -> Writers \cup {NoOne}]
  BY DEF IInv, TypeOK
<1>6. /\ r \in [page : Pages, parent : IdOrNull, snap : IdOrNull,
                kind : {"publish", "rollback"}, from : IdOrNull]
      /\ r.page = p /\ r.parent = current[p] /\ r.snap = s
      /\ r.kind = writer[w].kind /\ r.from = writer[w].from
  BY <1>2, <1>5 DEF NewRevision, ParentOf, WriterType, Id, IdOrNull
<1> HIDE DEF r
<1>7. /\ rev'[n] = r /\ \A i \in Committed : rev'[i] = rev[i]
      /\ rev' \in [Id -> [page : Pages, parent : IdOrNull, snap : IdOrNull,
                          kind : {"publish", "rollback"}, from : IdOrNull]]
  BY <1>1, <1>4, <1>5, <1>6 DEF r
<1>8. /\ current'[p] = n /\ \A q \in Pages \ {p} : current'[q] = current[q]
      /\ current' \in [Pages -> IdOrNull]
  BY <1>1, <1>2, <1>5 DEF Id, IdOrNull
<1>9. /\ writer'[w] = IdleWriter /\ writer' \in [Writers -> WriterType]
      /\ \A u \in Writers \ {w} : writer'[u] = writer[u]
  BY <1>3, <1>5, IdleTypes
<1>10. TypeOK'
  <2>1. nrev' \in IdOrNull
    BY <1>1 DEF Id, IdOrNull
  <2>2. pageLock' \in [Pages -> Writers \cup {NoOne}]
    BY <1>3, <1>5
  <2>3. QED
    BY <1>1, <1>2, <1>7, <1>8, <1>9, <2>1, <2>2 DEF IInv, TypeOK
<1>11. \A t \in Stored : Hot(t)' = Hot(t)
  BY <1>1 DEF Hot
<1>12. Hot(s)'
  BY <1>1 DEF Hot
<1>13. TableInv'
  <2>1. \A q \in Pages : current'[q] \in 0 .. nrev'
    BY <1>1, <1>4, <1>8 DEF IInv, TableInv
  <2>2. \A i \in Committed' : rev'[i].snap \in Stored'
    BY <1>1, <1>6, <1>7 DEF IInv, TableInv
  <2>3. \A i \in Committed' : rev'[i].kind = "rollback" => rev'[i].from \in Committed'
    BY <1>1, <1>2, <1>6, <1>7 DEF IInv, TableInv, WriterInv
  <2>4. \A t \in Stored' : Readable(t)'
    BY <1>1, <1>2, <1>11, <1>12 DEF IInv, TableInv, Readable
  <2>5. QED
    BY <2>1, <2>2, <2>3, <2>4 DEF TableInv
<1>14. \A u \in Writers : WriterInv(u)'
  <2>1. WriterInv(w)'
    BY <1>4, <1>9 DEF WriterInv, IdleWriter, Holding, Sharing
  <2>2. ASSUME NEW u \in Writers \ {w} PROVE WriterInv(u)'
    <3>1. WriterInv(u) /\ writer[u].page \in Pages /\ writer'[u] = writer[u]
      BY <1>9, Types DEF IInv
    <3>2. /\ writer[u].phase \in Holding => /\ pageLock'[writer[u].page] = u
                                            /\ writer[u].page # p
      BY <1>2, <1>3, <3>1 DEF WriterInv
    <3>3. /\ writer'[u].phase \in Holding => /\ pageLock'[writer'[u].page] = u
                                             /\ ExpectedMatchesCurrent(u)'
      BY <1>8, <3>1, <3>2 DEF WriterInv, ExpectedMatchesCurrent
    <3>4. writer'[u].snap \in 0 .. nsnap'
      BY <1>1, <1>4, <3>1 DEF WriterInv
    <3>5. writer'[u].snap # 0 => /\ snapshot'[writer'[u].snap].tier = "hot"
                                 /\ snapshot'[writer'[u].snap].content = writer'[u].content
      <4>1. writer[u].snap # 0 => writer[u].snap \in Stored
        BY <1>4, <3>1 DEF WriterInv, Stored
      <4>2. QED
        BY <1>1, <3>1, <4>1 DEF WriterInv, Hot
    <3>6. writer'[u].kind = "rollback" /\ writer'[u].phase # "idle" =>
            /\ writer'[u].from \in Committed'
            /\ rev'[writer'[u].from].page = writer'[u].page
            /\ snapshot'[rev'[writer'[u].from].snap].content = writer'[u].content
      <4> SUFFICES ASSUME writer[u].kind = "rollback", writer[u].phase # "idle"
                   PROVE  /\ writer[u].from \in Committed'
                          /\ rev'[writer[u].from].page = writer[u].page
                          /\ snapshot'[rev'[writer[u].from].snap].content = writer[u].content
        BY <3>1
      <4>1. /\ writer[u].from \in Committed
            /\ rev[writer[u].from].page = writer[u].page
            /\ snapshot[rev[writer[u].from].snap].content = writer[u].content
        BY <3>1 DEF WriterInv
      <4>2. rev'[writer[u].from] = rev[writer[u].from] /\ rev[writer[u].from].snap \in Stored
        BY <4>1, <1>7 DEF IInv, TableInv
      <4>3. snapshot'[rev[writer[u].from].snap] = snapshot[rev[writer[u].from].snap]
        BY <4>2, <1>1
      <4>4. writer[u].from \in Committed'
        BY <4>1, <1>1
      <4>5. QED
        BY <4>1, <4>2, <4>3, <4>4
    <3>7. QED
      BY <3>1, <3>3, <3>4, <3>5, <3>6 DEF WriterInv, Hot
  <2>3. QED
    BY <2>1, <2>2
<1>15. \A a \in Archivers : ArchiverInv(a)'
  BY <1>1, <1>2 DEF IInv, ArchiverInv, Uploaded
<1>16. ExclusionInv'
  <2>1. \A u \in Writers, t \in Id : Shares(u, t)' => Shares(u, t)
    BY <1>9 DEF Shares, IdleWriter
  <2>2. \A a \in Archivers, t \in Id : Exclusive(a, t)' => Exclusive(a, t)
    BY <1>2 DEF Exclusive
  <2>3. QED
    BY <2>1, <2>2 DEF IInv, ExclusionInv
<1>17. CurrentIsHot'
  <2> SUFFICES ASSUME NEW q \in Pages, current'[q] # 0
               PROVE  snapshot'[rev'[current'[q]].snap].tier = "hot"
    BY DEF CurrentIsHot, Hot
  <2>1. CASE q = p
    BY <2>1, <1>6, <1>7, <1>8, <1>12 DEF Hot
  <2>2. CASE q # p
    <3>1. current[q] # 0 /\ current'[q] = current[q]
      BY <2>2, <1>8
    <3>2. current[q] \in Committed
      BY <3>1, <1>4 DEF IInv, TableInv, Committed
    <3>3. rev'[current'[q]].snap = rev[current[q]].snap /\ rev[current[q]].snap \in Stored
      BY <3>1, <3>2, <1>7 DEF IInv, TableInv
    <3>4. QED
      BY <3>1, <3>3, <1>11 DEF IInv, CurrentIsHot, Hot
  <2>3. QED
    BY <2>1, <2>2
<1>18. \A q \in Pages : OfPage(q)' = IF q = p THEN OfPage(q) \cup {n} ELSE OfPage(q)
  BY <1>1, <1>4, <1>6, <1>7 DEF OfPage
<1>19. \A i \in Committed : i < n
  BY <1>1, <1>4 DEF Committed
<1>20. LinearHistory'
  <2> DEFINE before(i) == {j \in OfPage(rev[i].page) : j < i}
  <2>1. \A i \in Committed : before(i)' = before(i)
    <3> SUFFICES ASSUME NEW i \in Committed PROVE before(i)' = before(i)
      OBVIOUS
    <3>1. i < n /\ rev'[i].page = rev[i].page /\ rev[i].page \in Pages /\ i \in Nat
      BY <1>4, <1>5, <1>7, <1>19 DEF Committed
    <3>2. ~(n < i)
      BY <3>1, <1>1, <1>4
    <3>3. QED
      BY <3>1, <3>2, <1>18
  <2>2. before(n)' = OfPage(p)
    <3>1. before(n)' = {j \in OfPage(p) \cup {n} : j < n}
      BY <1>2, <1>6, <1>7, <1>18
    <3>2. \A j \in OfPage(p) : j < n
      BY <1>19 DEF OfPage
    <3>3. ~(n < n)
      BY <1>1, <1>4
    <3>4. QED
      BY <3>1, <3>2, <3>3
  <2>3. \A i \in Committed' :
          IF before(i)' = {} THEN rev'[i].parent = 0
          ELSE rev'[i].parent \in before(i)' /\ \A j \in before(i)' : j <= rev'[i].parent
    <3> SUFFICES ASSUME NEW i \in Committed'
                 PROVE  IF before(i)' = {} THEN rev'[i].parent = 0
                        ELSE /\ rev'[i].parent \in before(i)'
                             /\ \A j \in before(i)' : j <= rev'[i].parent
      OBVIOUS
    <3>1. CASE i \in Committed
      <4>1. IF before(i) = {} THEN rev[i].parent = 0
            ELSE rev[i].parent \in before(i) /\ \A j \in before(i) : j <= rev[i].parent
        BY <3>1 DEF IInv, LinearHistory
      <4>2. before(i)' = before(i) /\ rev'[i] = rev[i]
        BY <3>1, <2>1, <1>7
      <4> HIDE DEF before
      <4>3. QED
        BY <4>1, <4>2
    <3>2. CASE i = n
      <4>1. IF OfPage(p) = {} THEN current[p] = 0
            ELSE current[p] \in OfPage(p) /\ \A j \in OfPage(p) : j <= current[p]
        BY <1>2 DEF IInv, LinearHistory
      <4>2. rev'[i].parent = current[p] /\ before(i)' = OfPage(p)
        BY <3>2, <2>2, <1>6, <1>7
      <4> HIDE DEF before
      <4>3. QED
        BY <4>1, <4>2
    <3>3. QED
      BY <3>1, <3>2, <1>1
  <2>4. \A q \in Pages :
          IF OfPage(q)' = {} THEN current'[q] = 0
          ELSE current'[q] \in OfPage(q)' /\ \A j \in OfPage(q)' : j <= current'[q]
    <3> SUFFICES ASSUME NEW q \in Pages
                 PROVE  IF OfPage(q)' = {} THEN current'[q] = 0
                        ELSE /\ current'[q] \in OfPage(q)'
                             /\ \A j \in OfPage(q)' : j <= current'[q]
      OBVIOUS
    <3>1. CASE q = p
      <4>1. OfPage(q)' = OfPage(p) \cup {n} /\ current'[q] = n
        BY <3>1, <1>8, <1>18
      <4>2. \A j \in OfPage(p) \cup {n} : j <= n
        BY <1>1, <1>4, <1>19 DEF OfPage, Committed
      <4>3. QED
        BY <4>1, <4>2
    <3>2. CASE q # p
      <4>1. OfPage(q)' = OfPage(q) /\ current'[q] = current[q]
        BY <3>2, <1>8, <1>18
      <4>2. QED
        BY <4>1 DEF IInv, LinearHistory
    <3>3. QED
      BY <3>1, <3>2
  <2>5. QED
    BY <2>3, <2>4 DEF LinearHistory
<1>21. NoLostUpdate'
  <2>1. r.kind = "publish" => r.parent = r.from
    BY <1>2, <1>6 DEF WriterInv, ExpectedMatchesCurrent, Holding
  <2>2. QED
    BY <2>1, <1>1, <1>7 DEF IInv, NoLostUpdate
<1>22. RollbackRestores'
  <2> SUFFICES ASSUME NEW i \in Committed', rev'[i].kind = "rollback"
               PROVE  /\ rev'[rev'[i].from].page = rev'[i].page
                      /\ snapshot'[rev'[i].snap].content
                           = snapshot'[rev'[rev'[i].from].snap].content
    BY DEF RollbackRestores
  <2>1. CASE i \in Committed
    <3>1. rev'[i] = rev[i] /\ rev[i].from \in Committed
      BY <2>1, <1>7 DEF IInv, TableInv
    <3>2. rev'[rev[i].from] = rev[rev[i].from]
      BY <3>1, <1>7
    <3>3. rev[i].snap \in Stored /\ rev[rev[i].from].snap \in Stored
      BY <2>1, <3>1 DEF IInv, TableInv
    <3>4. QED
      BY <2>1, <3>1, <3>2, <3>3, <1>1 DEF IInv, RollbackRestores
  <2>2. CASE i = n
    <3>1. /\ writer[w].from \in Committed
          /\ rev[writer[w].from].page = p
          /\ snapshot[rev[writer[w].from].snap].content = writer[w].content
      BY <2>2, <1>2, <1>6, <1>7 DEF WriterInv
    <3>2. /\ rev'[i].from = writer[w].from /\ rev'[i].page = p /\ rev'[i].snap = s
          /\ rev'[writer[w].from] = rev[writer[w].from]
          /\ rev[writer[w].from].snap \in Stored
      BY <2>2, <3>1, <1>6, <1>7 DEF IInv, TableInv
    <3>3. QED
      BY <3>1, <3>2, <1>1
  <2>3. QED
    BY <2>1, <2>2, <1>1
<1>23. QED
  BY <1>10, <1>13, <1>14, <1>15, <1>16, <1>17, <1>20, <1>21, <1>22 DEF IInv

LEMMA SoftDeleteInv == ASSUME IInv, NEW p \in Pages, SoftDelete(p) PROVE IInv'
<1>1. /\ deleted' \subseteq Pages
      /\ UNCHANGED <<current, nrev, rev, nsnap, snapshot, objects, pageLock, writer,
                     archiver, crashes>>
  BY DEF SoftDelete, IInv, TypeOK
<1>2. TypeOK'
  BY <1>1 DEF IInv, TypeOK
<1>3. TableInv' /\ CurrentIsHot' /\ LinearHistory' /\ NoLostUpdate' /\ RollbackRestores'
  BY <1>1 DEF IInv, TableInv, CurrentIsHot, LinearHistory, NoLostUpdate,
              RollbackRestores, Committed, Stored, Readable, Hot, OfPage
<1>4. \A w \in Writers : WriterInv(w)'
  BY <1>1 DEF IInv, WriterInv, ExpectedMatchesCurrent, Hot, Committed
<1>5. (\A a \in Archivers : ArchiverInv(a)') /\ ExclusionInv'
  BY <1>1 DEF IInv, ArchiverInv, ExclusionInv, Shares, Exclusive, Stored
<1>6. QED
  BY <1>2, <1>3, <1>4, <1>5 DEF IInv

(* The trigger keeps current snapshots hot, the row lock those a writer     *)
(* has picked, and the upload came first: what turns cold stays readable.   *)
LEMMA MakeColdInv == ASSUME IInv, NEW a \in Archivers, MakeCold(a) PROVE IInv'
<1> DEFINE s == archiver[a].snap
<1>1. /\ archiver[a].phase = "eligible" /\ ArchiverInv(a) /\ s \in Stored /\ s \in Id
      /\ UNCHANGED <<current, deleted, nrev, rev, nsnap, objects, pageLock, writer, crashes>>
      /\ archiver' = [archiver EXCEPT ![a] = IdleArchiver]
  BY Types DEF MakeCold, Rest, IInv, ArchiverInv
<1>2. /\ archiver \in [Archivers ->
           [phase : {"idle", "candidate", "uploaded", "locked", "eligible"}, snap : IdOrNull]]
      /\ snapshot \in [Id -> [content : Contents, tier : {"hot", "cold"}]]
  BY DEF IInv, TypeOK
<1>3. snapshot[s].content \in objects
  BY <1>1 DEF ArchiverInv, Uploaded
<1>4. CASE IsCurrent(s)
  <2>1. UNCHANGED tables
    BY <1>1, <1>4 DEF MakeCold, tables
  <2>2. archiver'[a] = IdleArchiver
    BY <1>1, <1>2
  <2>3. ArchiverInv(a)' /\ \A t \in Id : ~Exclusive(a, t)'
    BY <2>2 DEF ArchiverInv, Exclusive, IdleArchiver, Uploaded
  <2>4. objects' \subseteq Contents /\ crashes' \in 0 .. MaxCrashes
    BY <1>1 DEF IInv, TypeOK
  <2>5. QED
    BY <1>1, <2>1, <2>3, <2>4, IdleTypes, ArchiverStep
<1>5. CASE ~IsCurrent(s)
  <2>1. /\ snapshot' = [snapshot EXCEPT ![s].tier = "cold"]
        /\ snapshot' \in [Id -> [content : Contents, tier : {"hot", "cold"}]]
    BY <1>1, <1>2, <1>5 DEF MakeCold
  <2>2. \A t \in Id : /\ snapshot'[t].content = snapshot[t].content
                      /\ t # s => snapshot'[t] = snapshot[t]
    BY <1>1, <1>2, <2>1
  <2>3. TypeOK'
    BY <1>1, <1>2, <2>1, IdleTypes DEF IInv, TypeOK
  <2>4. TableInv'
    <3>1. \A t \in Stored : Readable(t)'
      <4> SUFFICES ASSUME NEW t \in Stored
                   PROVE  snapshot'[t].tier = "hot" \/ snapshot'[t].content \in objects
        BY <1>1 DEF Readable, Hot
      <4>1. t \in Id /\ Readable(t)
        BY Types DEF IInv, TableInv
      <4>2. QED
        BY <4>1, <1>3, <2>2 DEF Readable, Hot
    <3>2. QED
      BY <1>1, <3>1 DEF IInv, TableInv, Committed, Stored
  <2>5. CurrentIsHot'
    <3> SUFFICES ASSUME NEW p \in Pages, current[p] # 0
                 PROVE  snapshot'[rev[current[p]].snap].tier = "hot"
      BY <1>1 DEF CurrentIsHot, Hot
    <3>1. rev[current[p]].snap # s
      BY <1>5 DEF IsCurrent
    <3>2. current[p] \in Committed
      BY Types DEF IInv, TableInv, Committed
    <3>3. rev[current[p]].snap \in Id
      BY <3>2, Types DEF IInv, TableInv
    <3>4. snapshot[rev[current[p]].snap].tier = "hot"
      BY DEF IInv, CurrentIsHot, Hot
    <3>5. QED
      BY <3>1, <3>3, <3>4, <2>2
  <2>6. LinearHistory' /\ NoLostUpdate'
    BY <1>1 DEF IInv, LinearHistory, NoLostUpdate, Committed, OfPage
  <2>7. RollbackRestores'
    <3>1. \A i \in Committed : rev[i].snap \in Id
      BY Types DEF IInv, TableInv
    <3>2. \A i \in Committed : rev[i].kind = "rollback" => rev[i].from \in Committed
      BY DEF IInv, TableInv
    <3>3. QED
      BY <1>1, <2>2, <3>1, <3>2 DEF IInv, RollbackRestores, Committed
  <2>8. \A w \in Writers : WriterInv(w)'
    <3> SUFFICES ASSUME NEW w \in Writers PROVE WriterInv(w)'
      OBVIOUS
    <3>1. WriterInv(w) /\ writer[w].snap \in IdOrNull
      BY Types DEF IInv
    <3>2. writer[w].snap # 0 => /\ writer[w].snap \in Id
                                /\ Shares(w, writer[w].snap)
      BY <3>1, RevisionsAssumption DEF WriterInv, Shares, Sharing, Id, IdOrNull
    <3>3. Exclusive(a, s)
      BY <1>1 DEF Exclusive
    <3>4. writer[w].snap # 0 => writer[w].snap # s
      BY <3>2, <3>3 DEF IInv, ExclusionInv
    <3>5. writer[w].snap # 0 => snapshot'[writer[w].snap] = snapshot[writer[w].snap]
      BY <3>2, <3>4, <2>2
    <3>6. writer[w].kind = "rollback" /\ writer[w].phase # "idle" =>
            rev[writer[w].from].snap \in Id
      BY <3>1, Types DEF WriterInv, IInv, TableInv
    <3>7. QED
      BY <1>1, <2>2, <3>1, <3>5, <3>6
         DEF WriterInv, ExpectedMatchesCurrent, Hot, Committed
  <2>9. \A b \in Archivers : ArchiverInv(b)'
    <3> SUFFICES ASSUME NEW b \in Archivers PROVE ArchiverInv(b)'
      OBVIOUS
    <3>1. CASE b = a
      BY <3>1, <1>1, <1>2 DEF ArchiverInv, IdleArchiver, Uploaded
    <3>2. CASE b # a
      <4>1. archiver'[b] = archiver[b] /\ ArchiverInv(b)
        BY <3>2, <1>1, <1>2 DEF IInv
      <4>2. archiver[b].phase \in Uploaded => archiver[b].snap \in Id
        BY <4>1, Types DEF ArchiverInv, Uploaded, IInv
      <4>3. QED
        BY <4>1, <4>2, <1>1, <2>2 DEF ArchiverInv, Stored
    <3>3. QED
      BY <3>1, <3>2
  <2>10. ExclusionInv'
    <3>1. \A b \in Archivers, t \in Id : Exclusive(b, t)' => Exclusive(b, t)
      BY <1>1, <1>2 DEF Exclusive, IdleArchiver
    <3>2. \A w \in Writers, t \in Id : Shares(w, t)' = Shares(w, t)
      BY <1>1 DEF Shares
    <3>3. QED
      BY <3>1, <3>2 DEF IInv, ExclusionInv
  <2>11. QED
    BY <2>3, <2>4, <2>5, <2>6, <2>7, <2>8, <2>9, <2>10 DEF IInv
<1>6. QED
  BY <1>4, <1>5

(***************************************************************************)
(* The other steps of an archiver.                                         *)
(***************************************************************************)

LEMMA RestInv ==
    ASSUME IInv, NEW a \in Archivers, Rest(a),
           UNCHANGED <<tables, objects, pageLock, writer>>, crashes' \in 0 .. MaxCrashes
    PROVE  IInv'
<1>1. archiver' = [archiver EXCEPT ![a] = IdleArchiver] /\ archiver'[a] = IdleArchiver
  BY DEF Rest, IInv, TypeOK
<1>2. ArchiverInv(a)' /\ \A s \in Id : ~Exclusive(a, s)'
  BY <1>1 DEF ArchiverInv, Exclusive, IdleArchiver, Uploaded
<1>3. objects' \subseteq Contents
  BY DEF IInv, TypeOK
<1>4. QED
  BY <1>1, <1>2, <1>3, IdleTypes, ArchiverStep

LEMMA PickCandidateInv ==
    ASSUME IInv, NEW a \in Archivers, NEW s \in Stored, PickCandidate(a, s)
    PROVE  IInv'
<1> DEFINE v == [phase |-> "candidate", snap |-> s]
<1>1. /\ archiver' = [archiver EXCEPT ![a] = v] /\ archiver'[a] = v
      /\ UNCHANGED <<tables, objects, pageLock, writer, crashes>>
  BY DEF PickCandidate, IInv, TypeOK
<1>2. v \in [phase : {"idle", "candidate", "uploaded", "locked", "eligible"}, snap : IdOrNull]
  BY Types DEF IInv, Id, IdOrNull
<1>3. ArchiverInv(a)' /\ \A t \in Id : ~Exclusive(a, t)'
  BY <1>1 DEF ArchiverInv, Exclusive, Uploaded, Stored, tables
<1>4. objects' \subseteq Contents /\ crashes' \in 0 .. MaxCrashes
  BY <1>1 DEF IInv, TypeOK
<1> HIDE DEF v
<1>5. QED
  BY <1>1, <1>2, <1>3, <1>4, ArchiverStep

(* From one phase to the next: what the archiver now claims must be so.     *)
LEMMA GotoInv ==
    ASSUME IInv, NEW a \in Archivers,
           NEW ph \in {"candidate", "uploaded", "locked", "eligible"},
           Goto(a, ph), archiver[a].phase # "idle",
           UNCHANGED <<tables, pageLock, writer, crashes>>,
           objects \subseteq objects', objects' \subseteq Contents,
           ph \in Uploaded => snapshot[archiver[a].snap].content \in objects',
           \A w \in Writers, s \in Id :
             Shares(w, s) => ph \notin {"locked", "eligible"} \/ archiver[a].snap # s
    PROVE  IInv'
<1> DEFINE v == [archiver[a] EXCEPT !.phase = ph]
<1>1. archiver[a] \in [phase : {"idle", "candidate", "uploaded", "locked", "eligible"},
                       snap : IdOrNull]
  BY DEF IInv, TypeOK
<1>2. v \in [phase : {"idle", "candidate", "uploaded", "locked", "eligible"}, snap : IdOrNull]
      /\ v.phase = ph /\ v.snap = archiver[a].snap
  BY <1>1
<1>3. archiver' = [archiver EXCEPT ![a] = v] /\ archiver'[a] = v
  BY <1>1 DEF Goto, IInv, TypeOK
<1> HIDE DEF v
<1>4. ArchiverInv(a)'
  BY <1>2, <1>3 DEF IInv, ArchiverInv, Stored, tables
<1>5. \A w \in Writers, s \in Id : Shares(w, s) => ~Exclusive(a, s)'
  BY <1>2, <1>3 DEF Exclusive
<1>6. crashes' \in 0 .. MaxCrashes
  BY DEF IInv, TypeOK
<1>7. QED
  BY <1>2, <1>3, <1>4, <1>5, <1>6, ArchiverStep

LEMMA UploadInv == ASSUME IInv, NEW a \in Archivers, Upload(a) PROVE IInv'
<1> DEFINE s == archiver[a].snap
<1>1. /\ archiver[a].phase = "candidate" /\ s \in Id
      /\ UNCHANGED <<tables, pageLock, writer, crashes>>
      /\ objects \subseteq Contents /\ crashes' \in 0 .. MaxCrashes
  BY Types DEF Upload, IInv, TypeOK, ArchiverInv
<1>2. CASE Hot(s)
  <2>1. objects' = objects \cup {snapshot[s].content} /\ Goto(a, "uploaded")
    BY <1>2 DEF Upload
  <2>2. objects' \subseteq Contents
    BY <1>1, <2>1, Types DEF IInv
  <2>3. QED
    BY <1>1, <2>1, <2>2, GotoInv
<1>3. CASE ~Hot(s)
  BY <1>1, <1>3, RestInv DEF Upload
<1>4. QED
  BY <1>2, <1>3

LEMMA LockSnapshotInv == ASSUME IInv, NEW a \in Archivers, LockSnapshot(a) PROVE IInv'
<1> DEFINE s == archiver[a].snap
<1>1. /\ archiver[a].phase = "uploaded" /\ ~Shared(s)
      /\ UNCHANGED <<tables, objects, pageLock, writer, crashes>>
      /\ objects \subseteq Contents /\ crashes' \in 0 .. MaxCrashes
      /\ snapshot[s].content \in objects
  BY DEF LockSnapshot, IInv, TypeOK, ArchiverInv, Uploaded
<1>2. CASE Hot(s)
  <2>1. Goto(a, "locked")
    BY <1>2 DEF LockSnapshot
  <2>2. \A w \in Writers, t \in Id : Shares(w, t) => s # t
    BY <1>1 DEF Shared
  <2>3. QED
    BY <1>1, <2>1, <2>2, GotoInv
<1>3. CASE ~Hot(s)
  BY <1>1, <1>3, RestInv DEF LockSnapshot
<1>4. QED
  BY <1>2, <1>3

LEMMA CheckEligibleInv == ASSUME IInv, NEW a \in Archivers, CheckEligible(a) PROVE IInv'
<1> DEFINE s == archiver[a].snap
<1>1. /\ archiver[a].phase = "locked"
      /\ UNCHANGED <<tables, objects, pageLock, writer, crashes>>
      /\ objects \subseteq Contents /\ crashes' \in 0 .. MaxCrashes
      /\ snapshot[s].content \in objects
  BY DEF CheckEligible, IInv, TypeOK, ArchiverInv, Uploaded
<1>2. CASE Archivable(s)
  <2>1. Goto(a, "eligible")
    BY <1>2 DEF CheckEligible
  <2>2. \A w \in Writers, t \in Id : Shares(w, t) => s # t
    BY <1>1 DEF IInv, ExclusionInv, Exclusive
  <2>3. QED
    BY <1>1, <2>1, <2>2, GotoInv
<1>3. CASE ~Archivable(s)
  BY <1>1, <1>3, RestInv DEF CheckEligible
<1>4. QED
  BY <1>2, <1>3

LEMMA CrashArchiverInv == ASSUME IInv, NEW a \in Archivers, CrashArchiver(a) PROVE IInv'
<1>1. crashes' \in 0 .. MaxCrashes
  BY RevisionsAssumption DEF CrashArchiver, IInv, TypeOK
<1>2. QED
  BY <1>1, RestInv DEF CrashArchiver

LEMMA NextInv == ASSUME IInv, [Next]_vars PROVE IInv'
<1>1. CASE UNCHANGED vars
  <2>1. TypeOK' /\ TableInv'
    BY <1>1 DEF vars, IInv, TypeOK, TableInv, Committed, Stored, Readable, Hot
  <2>2. CurrentIsHot' /\ LinearHistory' /\ NoLostUpdate' /\ RollbackRestores'
    BY <1>1 DEF vars, IInv, CurrentIsHot, LinearHistory, NoLostUpdate,
                RollbackRestores, Committed, Hot, OfPage
  <2>3. (\A w \in Writers : WriterInv(w)') /\ (\A a \in Archivers : ArchiverInv(a)')
    BY <1>1 DEF vars, IInv, WriterInv, ArchiverInv, ExpectedMatchesCurrent, Hot,
                Committed, Stored
  <2>4. ExclusionInv'
    BY <1>1 DEF vars, IInv, ExclusionInv, Shares, Exclusive
  <2>5. QED
    BY <2>1, <2>2, <2>3, <2>4 DEF IInv
<1>2. ASSUME NEW w \in Writers,
             \/ \E p \in Pages, c \in Contents : RequestPublish(w, p, c)
             \/ \E i \in Committed : RequestRollback(w, i)
             \/ LockPage(w) \/ PickSnapshot(w) \/ WriteRevision(w) \/ CommitRevision(w)
             \/ CrashWriter(w)
      PROVE  IInv'
  BY <1>2, RequestPublishInv, RequestRollbackInv, LockPageInv, PickSnapshotInv,
     WriteRevisionInv, CommitRevisionInv, CrashWriterInv
<1>3. ASSUME NEW a \in Archivers,
             \/ \E s \in Stored : PickCandidate(a, s)
             \/ Upload(a) \/ LockSnapshot(a) \/ CheckEligible(a) \/ MakeCold(a)
             \/ CrashArchiver(a)
      PROVE  IInv'
  BY <1>3, PickCandidateInv, UploadInv, LockSnapshotInv, CheckEligibleInv, MakeColdInv,
     CrashArchiverInv
<1>4. ASSUME NEW p \in Pages, SoftDelete(p) PROVE IInv'
  BY <1>4, SoftDeleteInv
<1>5. QED
  BY <1>1, <1>2, <1>3, <1>4 DEF Next

LEMMA Invariance == Spec => []IInv
BY InitInv, NextInv, PTL DEF Spec

(***************************************************************************)
(* The theorems.                                                           *)
(***************************************************************************)

(* The rows and the transactions keep their types.                          *)
THEOREM TypeCorrect == Spec => []TypeOK
<1>1. IInv => TypeOK
  BY DEF IInv
<1>2. QED
  BY <1>1, Invariance, PTL

(* Publish checks expected_revision_id under the page lock: no publish is   *)
(* recorded on top of a revision its author had not seen.                   *)
THEOREM NoUpdateLost == Spec => []NoLostUpdate
<1>1. IInv => NoLostUpdate
  BY DEF IInv
<1>2. QED
  BY <1>1, Invariance, PTL

(* However publishes, rollbacks and crashes interleave, a page has one      *)
(* unbranched line of revisions that ends at its current one.               *)
THEOREM OneLineOfHistory == Spec => []LinearHistory
<1>1. IInv => LinearHistory
  BY DEF IInv
<1>2. QED
  BY <1>1, Invariance, PTL

(* Archivers never take the current revision's content out of the database. *)
THEOREM CurrentStaysHot == Spec => []CurrentIsHot
<1>1. IInv => CurrentIsHot
  BY DEF IInv
<1>2. QED
  BY <1>1, Invariance, PTL

(* Every revision ever published can be read, hot or from the store, also   *)
(* when an archiver died between upload and update.                         *)
THEOREM HistoryStaysReadable == Spec => []HistoryReadable
<1>1. IInv => HistoryReadable
  BY DEF IInv, TableInv, HistoryReadable
<1>2. QED
  BY <1>1, Invariance, PTL

(* A rollback publishes its target's content on its target's page, whether  *)
(* it shares a hot snapshot or stores the content anew.                     *)
THEOREM RollbacksRestore == Spec => []RollbackRestores
<1>1. IInv => RollbackRestores
  BY DEF IInv
<1>2. QED
  BY <1>1, Invariance, PTL

(* The row lock a rollback takes on the snapshot it reuses keeps archivers  *)
(* off until it commits, so check_page_current_revision never refuses it.   *)
THEOREM PickedSnapshotsStayHot == Spec => []PickedStaysHot
<1>1. IInv => PickedStaysHot
  BY DEF IInv, WriterInv, PickedStaysHot, AcceptsCurrent
<1>2. QED
  BY <1>1, Invariance, PTL

(* What is published is never rewritten: no step changes a revision or a    *)
(* snapshot's content, or brings a cold snapshot back.                      *)
THEOREM PublishedForGood == Spec => HistoryImmutable
<1> DEFINE Kept == /\ \A i \in Committed : rev'[i] = rev[i]
                   /\ \A s \in Stored : /\ snapshot'[s].content = snapshot[s].content
                                        /\ Hot(s)' => Hot(s)
<1>1. ASSUME IInv, [Next]_vars PROVE [Kept]_vars
  <2>1. CASE UNCHANGED <<rev, snapshot>>
    BY <2>1 DEF Hot
  <2>2. ASSUME NEW w \in Writers, CommitRevision(w) PROVE Kept
    <3>1. /\ \A i \in Committed : rev'[i] = rev[i]
          /\ \A s \in Stored : snapshot'[s] = snapshot[s]
      <4>1. PICK n \in Id, s \in Id :
              /\ n = nrev + 1
              /\ rev' = [rev EXCEPT ![n] = NewRevision(w, s)]
              /\ \A t \in Stored : snapshot'[t] = snapshot[t]
        BY <1>1, <2>2, CommitFacts
      <4>2. n \notin Committed /\ Committed \subseteq Id
        BY <1>1, <4>1, Types DEF IInv, Committed
      <4>3. rev \in [Id -> [page : Pages, parent : IdOrNull, snap : IdOrNull,
                            kind : {"publish", "rollback"}, from : IdOrNull]]
        BY <1>1 DEF IInv, TypeOK
      <4>4. QED
        BY <4>1, <4>2, <4>3
    <3>2. QED
      BY <3>1 DEF Hot
  <2>3. ASSUME NEW a \in Archivers, MakeCold(a) PROVE Kept
    <3>1. /\ rev' = rev
          /\ \/ snapshot' = snapshot
             \/ snapshot' = [snapshot EXCEPT ![archiver[a].snap].tier = "cold"]
      BY <2>3 DEF MakeCold
    <3>2. /\ snapshot \in [Id -> [content : Contents, tier : {"hot", "cold"}]]
          /\ Stored \subseteq Id
      BY <1>1, Types DEF IInv, TypeOK
    <3>3. QED
      BY <3>1, <3>2 DEF Hot
  <2>4. QED
    BY <1>1, <2>1, <2>2, <2>3
       DEF Next, vars, tables, RequestPublish, RequestRollback, LockPage, PickSnapshot,
           WriteRevision, CrashWriter, PickCandidate, Upload, LockSnapshot, CheckEligible,
           CrashArchiver, SoftDelete
<1>2. QED
  BY <1>1, Invariance, PTL DEF Spec, HistoryImmutable

(***************************************************************************)
(* Refinement of PageHistory: a committing writer adds an entry, a soft    *)
(* deletion removes a page, and no other step shows.                       *)
(***************************************************************************)

(* A page whose row a writer holds is not deleted under it.                 *)
LiveInv == \A w \in Writers : writer[w].phase \in Holding => writer[w].page \notin deleted

LEMMA LiveStep == ASSUME IInv, LiveInv, [Next]_vars PROVE LiveInv'
<1>1. writer \in [Writers -> WriterType] /\ \A p \in Pages : pageLock[p] = NoOne =>
          \A w \in Writers : writer[w].phase \in Holding => writer[w].page # p
  BY RevisionsAssumption DEF IInv, TypeOK, WriterInv
<1>2. CASE deleted' = deleted /\ \A w \in Writers :
             \/ writer'[w] = writer[w]
             \/ writer'[w].phase \notin Holding
             \/ /\ writer'[w].page = writer[w].page
                /\ writer[w].phase \in Holding \/ writer[w].page \notin deleted
  BY <1>2 DEF LiveInv
<1>3. CASE UNCHANGED vars
  BY <1>2, <1>3 DEF vars
<1>4. ASSUME NEW w \in Writers,
             \/ \E p \in Pages, c \in Contents : RequestPublish(w, p, c)
             \/ \E i \in Committed : RequestRollback(w, i)
      PROVE  LiveInv'
  <2>1. PICK v : writer' = [writer EXCEPT ![w] = v] /\ v.phase = "waiting" /\ deleted' = deleted
    BY <1>4 DEF RequestPublish, RequestRollback, tables
  <2>2. writer'[w].phase = "waiting" /\ \A u \in Writers \ {w} : writer'[u] = writer[u]
    BY <1>1, <2>1
  <2>3. QED
    BY <1>2, <2>1, <2>2 DEF Holding
<1>5. ASSUME NEW w \in Writers, LockPage(w) PROVE LiveInv'
  <2>1. \A u \in Writers \ {w} : writer'[u] = writer[u]
    BY <1>1, <1>5 DEF LockPage
  <2>2. \/ writer'[w] = IdleWriter
        \/ writer'[w].page = writer[w].page /\ writer[w].page \notin deleted
    BY <1>1, <1>5 DEF LockPage, WriterType
  <2>3. QED
    BY <1>2, <1>5, <2>1, <2>2 DEF LockPage, tables, IdleWriter, Holding
<1>6. ASSUME NEW w \in Writers, PickSnapshot(w) PROVE LiveInv'
  <2>1. \A u \in Writers \ {w} : writer'[u] = writer[u]
    BY <1>1, <1>6 DEF PickSnapshot
  <2>2. writer'[w].page = writer[w].page /\ writer[w].phase \in Holding
    BY <1>1, <1>6 DEF PickSnapshot, WriterType, Holding
  <2>3. QED
    BY <1>2, <1>6, <2>1, <2>2 DEF PickSnapshot, tables
<1>7. ASSUME NEW w \in Writers, Release(w), deleted' = deleted PROVE LiveInv'
  <2>1. writer'[w] = IdleWriter /\ \A u \in Writers \ {w} : writer'[u] = writer[u]
    BY <1>1, <1>7 DEF Release
  <2>2. QED
    BY <1>2, <1>7, <2>1 DEF IdleWriter, Holding
<1>8. ASSUME NEW w \in Writers, WriteRevision(w) PROVE LiveInv'
  <2>1. CASE AcceptsCurrent(w)
    <3>1. \A u \in Writers \ {w} : writer'[u] = writer[u]
      BY <1>1, <1>8, <2>1 DEF WriteRevision
    <3>2. writer'[w].page = writer[w].page /\ writer[w].phase \in Holding
      BY <1>1, <1>8, <2>1 DEF WriteRevision, WriterType, Holding
    <3>3. QED
      BY <1>2, <1>8, <3>1, <3>2 DEF WriteRevision, tables
  <2>2. QED
    BY <1>7, <1>8, <2>1 DEF WriteRevision, tables
<1>9. ASSUME NEW w \in Writers, CommitRevision(w) \/ CrashWriter(w) PROVE LiveInv'
  BY <1>7, <1>9 DEF CommitRevision, CrashWriter, tables
<1>10. ASSUME NEW a \in Archivers,
              \/ \E s \in Stored : PickCandidate(a, s)
              \/ Upload(a) \/ LockSnapshot(a) \/ CheckEligible(a) \/ MakeCold(a)
              \/ CrashArchiver(a)
       PROVE  LiveInv'
  BY <1>2, <1>10 DEF PickCandidate, Upload, LockSnapshot, CheckEligible, MakeCold,
     CrashArchiver, tables
<1>11. ASSUME NEW p \in Pages, SoftDelete(p) PROVE LiveInv'
  BY <1>1, <1>11 DEF SoftDelete, LiveInv
<1>12. QED
  BY <1>3, <1>4, <1>5, <1>6, <1>8, <1>9, <1>10, <1>11 DEF Next

LEMMA LiveAlways == Spec => []LiveInv
<1>1. Init => LiveInv
  BY DEF Init, LiveInv, IdleWriter, Holding
<1>2. QED
  BY <1>1, LiveStep, Invariance, PTL DEF Spec

(* Every revision reads as its snapshot's content, and a page shows that of *)
(* its current one.                                                         *)
LEMMA Reading ==
    ASSUME IInv
    PROVE  /\ \A i \in Committed : /\ rev[i].snap \in Stored
                                   /\ Reads(rev[i].snap) = {snapshot[rev[i].snap].content}
           /\ \A p \in Pages : current[p] # 0 =>
                /\ current[p] \in Committed
                /\ Shows(p) = {snapshot[rev[current[p]].snap].content}
BY Types DEF IInv, TableInv, CurrentIsHot, Reads, Shows, Committed

LEMMA ReadingNext ==
    ASSUME IInv'
    PROVE  /\ \A i \in Committed' : /\ rev'[i].snap \in Stored'
                                    /\ Reads(rev[i].snap)' = {snapshot'[rev'[i].snap].content}
           /\ \A p \in Pages : current'[p] # 0 =>
                /\ current'[p] \in Committed'
                /\ Shows(p)' = {snapshot'[rev'[current'[p]].snap].content}
<1>1. nrev' \in Nat /\ \A p \in Pages : current'[p] \in 0 .. nrev'
  BY RevisionsAssumption DEF IInv, TypeOK, IdOrNull, TableInv
<1>2. \A i \in Committed' : rev'[i].snap \in Stored' /\ Readable(rev[i].snap)'
  BY DEF IInv, TableInv
<1>3. \A p \in Pages : current'[p] # 0 => current'[p] \in Committed'
  BY <1>1 DEF Committed
<1>4. QED
  BY <1>2, <1>3 DEF IInv, CurrentIsHot, Reads, Shows

(* Only commits change what readers see: archiving moves content, no more.  *)
LEMMA SameView ==
    ASSUME IInv, IInv', UNCHANGED <<nrev, rev, current>>,
           \A s \in Stored : snapshot'[s].content = snapshot[s].content
    PROVE  entries' = entries /\ display' = display
<1>1. \A i \in Committed : Entry(i)' = Entry(i)
  BY Reading, ReadingNext DEF Entry, Committed
<1>2. \A p \in Pages : Shows(p)' = Shows(p)
  <2> SUFFICES ASSUME NEW p \in Pages PROVE Shows(p)' = Shows(p)
    OBVIOUS
  <2>1. CASE current[p] = 0
    BY <2>1 DEF Shows
  <2>2. CASE current[p] # 0
    <3>1. /\ current[p] \in Committed /\ rev[current[p]].snap \in Stored
          /\ Shows(p) = {snapshot[rev[current[p]].snap].content}
      BY <2>2, Reading
    <3>2. Shows(p)' = {snapshot'[rev'[current'[p]].snap].content}
      BY <2>2, ReadingNext
    <3>3. QED
      BY <3>1, <3>2
  <2>3. QED
    BY <2>1, <2>2
<1>3. QED
  BY <1>1, <1>2 DEF entries, display, Committed

(* A commit makes one more entry and shows it; its page is not deleted.     *)
LEMMA CommitAdds ==
    ASSUME IInv, IInv', LiveInv, NEW w \in Writers, CommitRevision(w)
    PROVE  History!Add([page |-> writer[w].page, parent |-> current[writer[w].page],
                        kind |-> writer[w].kind, from |-> writer[w].from,
                        reads |-> {writer[w].content}])
<1>0. PICK q \in Pages : q = writer[w].page
  BY Types DEF IInv
<1> DEFINE e == [page |-> q, parent |-> current[q], kind |-> writer[w].kind,
                 from |-> writer[w].from, reads |-> {writer[w].content}]
<1>1. PICK n \in Id, s \in Id :
        /\ n = nrev + 1 /\ nrev' = n
        /\ Committed' = Committed \cup {n}
        /\ rev' = [rev EXCEPT ![n] = NewRevision(w, s)]
        /\ current' = [current EXCEPT ![q] = n]
        /\ snapshot'[s] = [content |-> writer[w].content, tier |-> "hot"]
        /\ \A t \in Stored : snapshot'[t] = snapshot[t]
  BY <1>0, CommitFacts
<1>2. nrev \in Nat /\ Committed \subseteq Id
  BY Types DEF IInv
<1>3. rev \in [Id -> [page : Pages, parent : IdOrNull, snap : IdOrNull,
                      kind : {"publish", "rollback"}, from : IdOrNull]]
      /\ current \in [Pages -> IdOrNull]
  BY DEF IInv, TypeOK
<1>4. rev'[n] = NewRevision(w, s) /\ \A i \in Committed : rev'[i] = rev[i]
  BY <1>1, <1>2, <1>3 DEF Committed
<1>5. current'[q] = n /\ \A p \in Pages \ {q} : current'[p] = current[p]
  BY <1>1, <1>2, <1>3
<1>6. Entry(n)' = e
  <2>1. Reads(rev[n].snap)' = {snapshot'[rev'[n].snap].content}
    BY <1>1, ReadingNext
  <2>2. QED
    BY <1>0, <1>1, <1>4, <2>1 DEF Entry, NewRevision, ParentOf
<1>7. \A i \in Committed : Entry(i)' = Entry(i)
  <2> SUFFICES ASSUME NEW i \in Committed PROVE Entry(i)' = Entry(i)
    OBVIOUS
  <2>1. rev[i].snap \in Stored /\ Reads(rev[i].snap) = {snapshot[rev[i].snap].content}
    BY Reading
  <2>2. i \in Committed' /\ Reads(rev[i].snap)' = {snapshot'[rev'[i].snap].content}
    BY <1>1, ReadingNext
  <2>3. Reads(rev[i].snap)' = Reads(rev[i].snap)
    BY <1>1, <1>4, <2>1, <2>2
  <2>4. QED
    BY <1>4, <2>3 DEF Entry
<1>8. Shows(q)' = {writer[w].content}
  <2>1. n # 0
    BY <1>1, <1>2
  <2>2. Shows(q)' = {snapshot'[rev'[current'[q]].snap].content}
    BY <1>2, <1>5, <2>1, ReadingNext
  <2>3. rev'[current'[q]].snap = s
    BY <1>4, <1>5 DEF NewRevision
  <2>4. QED
    BY <1>1, <2>2, <2>3
<1>9. \A p \in Pages \ {q} : Shows(p)' = Shows(p)
  <2> SUFFICES ASSUME NEW p \in Pages \ {q} PROVE Shows(p)' = Shows(p)
    OBVIOUS
  <2>1. CASE current[p] = 0
    BY <1>5, <2>1 DEF Shows
  <2>2. CASE current[p] # 0
    <3>1. current[p] \in Committed /\ current'[p] = current[p]
      BY <1>5, <2>2, Reading
    <3>2. rev'[current[p]] = rev[current[p]] /\ rev[current[p]].snap \in Stored
      BY <1>4, <3>1, Reading
    <3>3. /\ Shows(p) = {snapshot[rev[current[p]].snap].content}
          /\ Shows(p)' = {snapshot'[rev'[current'[p]].snap].content}
      BY <2>2, <3>1, Reading, ReadingNext
    <3>4. QED
      BY <1>1, <3>1, <3>2, <3>3
  <2>3. QED
    BY <2>1, <2>2
<1>10. entries' = [i \in 1 .. nrev + 1 |-> IF i = nrev + 1 THEN e ELSE entries[i]]
  <2>1. Committed' = 1 .. nrev + 1 /\ \A i \in 1 .. nrev + 1 : i = n \/ i \in Committed
    BY <1>1, <1>2 DEF Committed
  <2>2. \A i \in Committed : i # nrev + 1 /\ entries[i] = Entry(i)
    BY <1>2 DEF Committed, entries
  <2>3. \A i \in 1 .. nrev + 1 :
          Entry(i)' = IF i = nrev + 1 THEN e ELSE entries[i]
    BY <1>1, <1>6, <1>7, <2>1, <2>2
  <2>4. entries' = [i \in Committed' |-> Entry(i)']
    BY DEF entries
  <2> DEFINE f == [i \in 1 .. nrev + 1 |-> IF i = nrev + 1 THEN e ELSE entries[i]]
  <2>5. \A i \in 1 .. nrev + 1 : Entry(i)' = f[i]
    BY <2>3
  <2>6. entries' = [i \in 1 .. nrev + 1 |-> f[i]]
    BY <2>1, <2>4, <2>5
  <2>7. QED
    BY <2>6
<1>11. display' = [display EXCEPT ![q] = {writer[w].content}]
  <2>1. \A p \in Pages : Shows(p)' = IF p = q THEN {writer[w].content} ELSE Shows(p)
    BY <1>8, <1>9
  <2>2. QED
    BY <1>2, <2>1 DEF display
<1>12. q \notin deleted /\ deleted' = deleted
  BY <1>0 DEF CommitRevision, LiveInv, Holding
<1>13. History!Add(e)
  BY <1>1, <1>10, <1>11, <1>12 DEF History!Add
<1>14. QED
  BY <1>0, <1>13

LEMMA CommitImplements ==
    ASSUME IInv, IInv', LiveInv, NEW w \in Writers, CommitRevision(w)
    PROVE  History!Next
<1> DEFINE q == writer[w].page  i == writer[w].from
<1>1. /\ WriterInv(w) /\ writer[w].phase = "written"
      /\ q \in Pages /\ writer[w].content \in Contents
      /\ writer[w].kind \in {"publish", "rollback"}
  BY Types DEF IInv, CommitRevision
<1>2. CASE writer[w].kind = "publish"
  <2>1. writer[w].from = current[q]
    BY <1>1, <1>2 DEF WriterInv, ExpectedMatchesCurrent, Holding
  <2>2. History!Publish(q, writer[w].content)
    BY <1>2, <2>1, CommitAdds DEF History!Publish
  <2>3. QED
    BY <1>1, <2>2 DEF History!Next
<1>3. CASE writer[w].kind = "rollback"
  <2>1. /\ i \in Committed /\ rev[i].page = q
        /\ snapshot[rev[i].snap].content = writer[w].content
    BY <1>1, <1>3 DEF WriterInv
  <2>2. entries[i].page = q /\ entries[i].reads = {writer[w].content}
    BY <2>1, Reading DEF entries, Entry
  <2>3. History!Restore(i)
    BY <1>3, <2>2, CommitAdds DEF History!Restore
  <2>4. QED
    BY <2>1, <2>3 DEF History!Next, History!Entries, Committed
<1>4. QED
  BY <1>1, <1>2, <1>3

LEMMA PairHasTwo == ASSUME NEW x, NEW y, x # y PROVE Cardinality({x, y}) = 2
<1>1. IsFiniteSet({x}) /\ Cardinality({x}) = 1
  BY FS_Singleton
<1>2. y \notin {x} /\ {x} \cup {y} = {x, y}
  OBVIOUS
<1>3. Cardinality({x} \cup {y}) = IF y \in {x} THEN Cardinality({x}) ELSE Cardinality({x}) + 1
  BY <1>1, FS_AddElement
<1>4. QED
  BY <1>1, <1>2, <1>3

LEMMA SoftDeleteImplements ==
    ASSUME IInv, IInv', NEW p \in Pages, SoftDelete(p)
    PROVE  History!Next
<1> DEFINE own == {i \in Committed : rev[i].page = p}
<1>1. IsFiniteSet(own)
  <2>1. IsFiniteSet(Committed)
    BY Types, FS_Interval DEF IInv, Committed
  <2>2. QED
    BY <2>1, FS_Subset
<1>2. \A i, j \in own : i = j
  <2> SUFFICES ASSUME NEW i \in own, NEW j \in own, i # j PROVE FALSE
    OBVIOUS
  <2>1. Cardinality({i, j}) <= Cardinality(own)
    BY <1>1, FS_Subset
  <2>2. Cardinality({i, j}) = 2
    BY PairHasTwo
  <2>3. Cardinality(own) \in Nat /\ Cardinality(own) <= 1
    BY <1>1, FS_CardinalityType DEF SoftDelete
  <2>4. QED
    BY <2>1, <2>2, <2>3
<1>3. \A i \in Committed : entries[i].page = rev[i].page
  BY DEF entries, Entry
<1>4. entries' = entries /\ display' = display
  BY SameView DEF SoftDelete
<1>5. History!Remove(p)
  BY <1>2, <1>3, <1>4 DEF History!Remove, History!Entries, Committed, SoftDelete
<1>6. QED
  BY <1>5 DEF History!Next

LEMMA StepImplements ==
    ASSUME IInv, LiveInv, [Next]_vars
    PROVE  [History!Next]_(History!vars)
<1>1. IInv'
  BY NextInv
<1>2. CASE /\ UNCHANGED <<nrev, rev, current, deleted>>
           /\ \A s \in Stored : snapshot'[s].content = snapshot[s].content
  BY <1>1, <1>2, SameView DEF History!vars
<1>3. ASSUME NEW w \in Writers,
             \/ \E p \in Pages, c \in Contents : RequestPublish(w, p, c)
             \/ \E i \in Committed : RequestRollback(w, i)
             \/ LockPage(w) \/ PickSnapshot(w) \/ WriteRevision(w) \/ CrashWriter(w)
      PROVE  [History!Next]_(History!vars)
  <2>1. UNCHANGED tables
    BY <1>3 DEF RequestPublish, RequestRollback, LockPage, PickSnapshot, WriteRevision,
                CrashWriter
  <2>2. QED
    BY <1>2, <2>1 DEF tables
<1>4. ASSUME NEW a \in Archivers,
             \/ \E s \in Stored : PickCandidate(a, s)
             \/ Upload(a) \/ LockSnapshot(a) \/ CheckEligible(a) \/ CrashArchiver(a)
      PROVE  [History!Next]_(History!vars)
  <2>1. UNCHANGED tables
    BY <1>4 DEF PickCandidate, Upload, LockSnapshot, CheckEligible, CrashArchiver
  <2>2. QED
    BY <1>2, <2>1 DEF tables
<1>5. ASSUME NEW a \in Archivers, MakeCold(a) PROVE [History!Next]_(History!vars)
  <2>1. /\ Stored \subseteq Id
        /\ snapshot \in [Id -> [content : Contents, tier : {"hot", "cold"}]]
    BY Types DEF IInv, TypeOK
  <2>2. \A s \in Stored : snapshot'[s].content = snapshot[s].content
    BY <1>5, <2>1 DEF MakeCold
  <2>3. QED
    BY <1>2, <1>5, <2>2 DEF MakeCold
<1>6. CASE UNCHANGED vars
  BY <1>2, <1>6 DEF vars
<1>7. QED
  BY <1>1, <1>3, <1>4, <1>5, <1>6, CommitImplements, SoftDeleteImplements DEF Next

(* Publishing, rolling back, archiving and crashing, statement by statement *)
(* and under concurrency, implement one readable and append-only history    *)
(* per page, in which every publication and rollback is one step            *)
(* (publish.go, history.go, snapshot_storage.go).                           *)
THEOREM RevisionsImplementHistory == Spec => ImplementsHistory
<1>1. Init => History!Init
  <2> SUFFICES ASSUME Init PROVE History!Init
    OBVIOUS
  <2>1. nrev = 0 /\ Committed = {} /\ History!Entries = {}
    BY DEF Init, Committed, History!Entries
  <2>2. entries = [i \in History!Entries |-> 0]
    BY <2>1 DEF entries
  <2>3. display = [p \in Pages |-> {}]
    BY DEF Init, display, Shows
  <2>4. QED
    BY <2>1, <2>2, <2>3 DEF Init, History!Init
<1>2. QED
  BY <1>1, StepImplements, Invariance, LiveAlways, PTL
     DEF Spec, ImplementsHistory, History!Spec

-----------------------------------------------------------------------------
(* Titles, aliases and redirects.  The scoped specification is that of the  *)
(* run, whose model values p1 .. w2 are any constants here.                 *)

(* A title is what create and rename go to, a redirect's target what the    *)
(* other operations do.                                                     *)
Phases == {"idle", "lock", "title", "alias", "entitle", "target", "walk", "upsert",
           "unredirect", "erase"}
Unlocked == {"idle", "lock"}

TransactionType ==
    [phase : Phases, op : {"none", "create", "rename", "redirect", "unredirect", "erase"},
     page : Pages \cup {NoOne}, to : Titles \cup Targets \cup {NoTitle},
     drop : SUBSET Aliases, at : Pages \cup Titles \cup {Elsewhere, NoOne},
     seen : SUBSET Pages, undoes : Batches \cup {NoBatch}, governed : BOOLEAN]

RowTypes ==
    /\ NamesTypeOK
    /\ mover \in [Writers -> TransactionType]
    /\ lock \in [Pages -> Writers \cup {NoOne}]

(* Where each operation can be, and what it works on.                       *)
Course(w) ==
    /\ At(w, "idle") => mover[w] = Idle
    /\ ~At(w, "idle") => Page(w) \in Pages
    /\ mover[w].op = "none" => At(w, "idle")
    /\ mover[w].op = "create" =>
         /\ mover[w].phase \in {"title", "alias", "entitle"}
         /\ To(w) \in Titles /\ title[Page(w)] = NoTitle
         /\ mover[w].undoes = NoBatch
    /\ mover[w].op \notin {"none", "create"} => Page(w) \in Existing
    /\ mover[w].op = "rename" =>
         /\ mover[w].phase \in {"lock", "title", "alias", "entitle"}
         /\ To(w) \in Titles
    /\ mover[w].op = "redirect" =>
         /\ mover[w].phase \in {"lock", "target", "walk", "upsert"}
         /\ To(w) \in Targets
    /\ mover[w].op \in {"unredirect", "erase"} =>
         /\ mover[w].phase \in {"lock", mover[w].op} /\ ~mover[w].governed

(* A transaction past its lock statement holds its page's row, and a page   *)
(* under creation is nobody else's.                                         *)
Held(w) ==
    /\ mover[w].op # "create" /\ mover[w].phase \notin Unlocked => lock[Page(w)] = w
    /\ mover[w].op = "create" => \A v \in Writers \ {w} : Page(v) # Page(w)

BatchesExist == \A b \in batches : b.page \in Existing

(* Only pages with a history of their own have aliases, and these are never *)
(* deleted.                                                                 *)
KeptApart ==
    /\ \A a \in alias : a.page \in touched
    /\ touched \cap deleted = {}
    /\ \A w \in Writers :
         mover[w].phase \notin Unlocked /\ mover[w].op \in {"rename", "redirect"}
            => Page(w) \notin deleted

(* What a rename has checked under its lock is still so.                    *)
Checked(w) ==
    /\ mover[w].phase \in {"alias", "entitle"} /\ mover[w].op = "rename"
          => title[Page(w)] # To(w)
    /\ At(w, "entitle") /\ [title |-> To(w), page |-> Page(w)] \in alias
          => [title |-> To(w), page |-> Page(w)] \in mover[w].drop

NamesInv ==
    /\ KindsApart
    /\ RowTypes /\ BatchesExist /\ KeptApart
    /\ \A w \in Writers : Course(w) /\ Held(w) /\ Checked(w)
    /\ DeletedPointsNowhere /\ NoSelfAlias

(* With page targets only, a redirect that has passed its target q on the   *)
(* walk will not find q pointing back when it writes.                       *)
Back(p, q) == redirect[q] = [kind |-> "page", to |-> p]
NoSections ==
    /\ \A p \in Pages : redirect[p].kind # "section"
    /\ \A b \in batches : b.op = "redirect" => b.was.kind # "section" /\ b.now.kind # "section"
    /\ \A w \in Writers : mover[w].op = "redirect" => To(w).kind # "section"
Passed(w) ==
    mover[w].op = "redirect" /\ To(w).kind = "page" =>
        /\ To(w).to # Page(w) \/ mover[w].phase \in {"lock", "target"}
        /\ mover[w].phase \in {"walk", "upsert"} => Page(w) \in mover[w].seen
        /\ At(w, "walk") /\ To(w).to \notin mover[w].seen => mover[w].at = To(w).to
        /\ At(w, "walk") /\ To(w).to \in mover[w].seen
              => mover[w].at = Page(w) \/ ~Back(Page(w), To(w).to)
        /\ At(w, "upsert") => ~Back(Page(w), To(w).to)
MutualInv == NoSections /\ (\A w \in Writers : Passed(w)) /\ NoMutualRedirect

(* One transaction at a time.  A redirect's walk goes on from every page it *)
(* has passed, so at its end the pages passed lead only to each other, and  *)
(* the source is not among them.                                            *)
Past(w) == mover[w].seen \ {Page(w)}
Beyond(w) == Past(w) \cup ({mover[w].at} \cap Pages)
Leads(p, s) == redirect[p].kind = "page" => redirect[p].to \in s

SerialWalk(w) ==
    /\ mover[w].phase \in {"walk", "upsert"} /\ To(w).kind \in {"page", "section"}
          => To(w).to \notin deleted
    /\ mover[w].phase = "walk" /\ To(w).kind = "page" =>
         /\ Page(w) \in mover[w].seen
         /\ To(w).to \in Past(w) \cup {mover[w].at}
         /\ \A p \in Past(w) : Leads(p, Past(w) \cup {mover[w].at})
    /\ mover[w].phase = "upsert" /\ To(w).kind = "page" =>
         /\ Page(w) \notin Beyond(w) /\ To(w).to \in Beyond(w)
         /\ \A p \in Beyond(w) : Leads(p, Beyond(w))

(* No page answers to the title a create or rename has found available.     *)
SerialTitle(w) ==
    /\ mover[w].phase \in {"alias", "entitle"} => Titled(To(w)) = {}
    /\ mover[w].phase = "entitle" => \A a \in alias : a.title = To(w) => a.page = Page(w)

SerialInv ==
    /\ \A v, w \in Writers : ~At(v, "idle") /\ ~At(w, "idle") => v = w
    /\ \A w \in Writers : SerialWalk(w) /\ SerialTitle(w)
    /\ TitleNamesOnePage /\ PageRedirectsAcyclic /\ RedirectTargetsLive

LEMMA Sorts ==
    ASSUME NamesInv
    PROVE  /\ NoTitle \notin Titles /\ Titles \cap Pages = {}
           /\ NoOne \notin Writers /\ NoOne \notin Pages
BY DEF NamesInv, KindsApart


LEMMA Fields ==
    ASSUME RowTypes, NEW w \in Writers
    PROVE  /\ mover[w] \in TransactionType
           /\ mover[w].phase \in Phases
           /\ mover[w].op \in {"none", "create", "rename", "redirect", "unredirect", "erase"}
           /\ Page(w) \in Pages \cup {NoOne}
           /\ mover[w].drop \subseteq Aliases /\ mover[w].seen \subseteq Pages
           /\ mover[w].undoes \in Batches \cup {NoBatch} /\ mover[w].governed \in BOOLEAN
BY DEF RowTypes, TransactionType, Page

LEMMA IdleType == Idle \in TransactionType
BY DEF Idle, TransactionType, Phases, None, Targets, NoBatch

LEMMA NamesInvInit == ASSUME KindsApart, NamesInit PROVE NamesInv
<1>1. \A w \in Writers : mover[w] = Idle
  BY DEF NamesInit
<1>2. Existing = {} /\ None \in Targets
  BY DEF NamesInit, Existing, Targets
<1>3. NamesTypeOK
  BY <1>1, <1>2 DEF NamesInit, NamesTypeOK, Idle
<1>4. RowTypes
  BY <1>3, IdleType DEF NamesInit, RowTypes
<1>5. \A w \in Writers : Course(w) /\ Held(w) /\ Checked(w)
  <2> SUFFICES ASSUME NEW w \in Writers PROVE Course(w) /\ Held(w) /\ Checked(w)
    OBVIOUS
  <2>1. mover[w].phase = "idle" /\ mover[w].op = "none"
    BY <1>1 DEF Idle
  <2>2. QED
    BY <1>1, <2>1 DEF Course, Held, Checked, At, Unlocked
<1>6. BatchesExist /\ KeptApart /\ DeletedPointsNowhere /\ NoSelfAlias
  BY <1>1, <1>2 DEF NamesInit, BatchesExist, KeptApart, DeletedPointsNowhere,
     NoSelfAlias,
     Idle, Unlocked, Live
<1>7. QED
  BY <1>4, <1>5, <1>6 DEF NamesInv

(* A transaction that creates a page or holds a page's row is alone with it. *)
Owning(w) == mover[w].op = "create" \/ mover[w].phase \notin Unlocked

LEMMA Apart ==
    ASSUME NamesInv, NEW w \in Writers, NEW v \in Writers, v # w, Owning(w), Owning(v)
    PROVE  Page(v) # Page(w)
BY DEF NamesInv, Held, Owning

(* A statement that only reads: the transaction moves on.                   *)
LEMMA ReadStep ==
    ASSUME NamesInv, NEW w \in Writers, NEW x \in TransactionType,
           mover' = [mover EXCEPT ![w] = x], UNCHANGED <<nameTables, lock>>,
           Course(w)', Held(w)', Checked(w)',
           \A p \in Pages : lock[p] = w => x.page = p /\ x.phase \notin Unlocked,
           x.phase \notin Unlocked /\ x.op \in {"rename", "redirect"} => x.page \notin deleted,
           \A v \in Writers \ {w} : mover[v].op = "create" => x.page # Page(v)
    PROVE  NamesInv'
<1>1. /\ UNCHANGED <<title, deleted, alias, redirect, touched, batches, lock>>
      /\ mover \in [Writers -> TransactionType]
  BY DEF nameTables, NamesInv, RowTypes
<1>2. mover'[w] = x /\ \A v \in Writers \ {w} : mover'[v] = mover[v]
  BY <1>1
<1>3. Existing' = Existing
  BY <1>1 DEF Existing
<1>4. NamesTypeOK'
  <2>1. \A p \in Pages : lock[p] # NoOne =>
           /\ lock[p] \in Writers /\ Page(lock[p])' = p
           /\ ~At(lock[p], "idle")' /\ ~At(lock[p], "lock")'
    <3> SUFFICES ASSUME NEW p \in Pages, lock[p] # NoOne
                 PROVE  /\ lock[p] \in Writers /\ Page(lock[p])' = p
                        /\ ~At(lock[p], "idle")' /\ ~At(lock[p], "lock")'
      OBVIOUS
    <3>1. /\ lock[p] \in Writers /\ Page(lock[p]) = p
          /\ ~At(lock[p], "idle") /\ ~At(lock[p], "lock")
      BY DEF NamesInv, RowTypes, NamesTypeOK
    <3>2. CASE lock[p] = w
      BY <1>2, <3>1, <3>2 DEF Page, At, Unlocked
    <3>3. CASE lock[p] # w
      BY <1>2, <3>1, <3>3 DEF Page, At
    <3>4. QED
      BY <3>2, <3>3
  <2>2. \A v \in Writers : mover'[v].seen \subseteq Pages /\ mover'[v].drop \subseteq Aliases
    BY <1>2, Fields DEF NamesInv, TransactionType
  <2>3. QED
    BY <1>1, <1>3, <2>1, <2>2 DEF NamesInv, RowTypes, NamesTypeOK, At, Page
<1>5. RowTypes'
  BY <1>1, <1>4 DEF NamesInv, RowTypes
<1>6. \A v \in Writers \ {w} : Course(v)' /\ Checked(v)'
  BY <1>1, <1>2, <1>3 DEF NamesInv, Course, Checked, At, Page, To
<1>7. \A v \in Writers \ {w} : Held(v)'
  <2> SUFFICES ASSUME NEW v \in Writers \ {w} PROVE Held(v)'
    OBVIOUS
  <2>1. Held(v) /\ mover'[v] = mover[v]
    BY <1>2 DEF NamesInv
  <2>2. mover[v].op = "create" => \A u \in Writers \ {v} : Page(u)' # Page(v)
    BY <1>2, <2>1 DEF Held, Page
  <2>3. QED
    BY <1>1, <2>1, <2>2 DEF Held, Page
<1>8. BatchesExist' /\ KeptApart' /\ DeletedPointsNowhere' /\ NoSelfAlias'
  <2>1. \A v \in Writers :
           mover'[v].phase \notin Unlocked /\ mover'[v].op \in {"rename", "redirect"}
              => mover'[v].page \notin deleted
    BY <1>2 DEF NamesInv, KeptApart, Page
  <2>2. QED
    BY <1>1, <1>3, <2>1 DEF NamesInv, BatchesExist, KeptApart, DeletedPointsNowhere,
       NoSelfAlias, Live, Page
<1>9. QED
  BY <1>5, <1>6, <1>7, <1>8 DEF NamesInv

(* The end of a transaction, with what it commits.                          *)
LEMMA EndStep ==
    ASSUME NamesInv, NEW w \in Writers, EndTransaction(w),
           Owning(w) \/ UNCHANGED <<title, deleted, alias>>,
           title' \in [Pages -> Titles \cup {NoTitle}], redirect' \in [Pages -> Targets],
           alias' \subseteq Aliases, batches' \subseteq Batches,
           deleted' \subseteq Existing', touched' \subseteq Existing', Existing \subseteq Existing',
           \A p \in Pages \ {Page(w)} : title'[p] = title[p],
           \A p \in deleted' : p \in deleted \/ p = Page(w),
           \A a \in alias' : /\ a \in alias \/ a.page = Page(w)
                             /\ a.page \in touched',
           touched' \cap deleted' = {},
           BatchesExist', DeletedPointsNowhere', NoSelfAlias'
    PROVE  NamesInv'
<1>1. /\ mover \in [Writers -> TransactionType]
      /\ lock \in [Pages -> Writers \cup {NoOne}]
      /\ mover' = [mover EXCEPT ![w] = Idle]
      /\ lock' = [p \in Pages |-> IF lock[p] = w THEN NoOne ELSE lock[p]]
  BY DEF NamesInv, RowTypes, EndTransaction
<1>2. mover'[w] = Idle /\ \A v \in Writers \ {w} : mover'[v] = mover[v]
  BY <1>1
<1>3. Idle.phase = "idle" /\ Idle.op = "none" /\ Idle.page = NoOne
  BY DEF Idle
<1>4. NamesTypeOK'
  <2>1. \A p \in Pages : lock'[p] # NoOne =>
           /\ lock'[p] \in Writers /\ mover'[lock'[p]].page = p
           /\ mover'[lock'[p]].phase # "idle" /\ mover'[lock'[p]].phase # "lock"
    <3> SUFFICES ASSUME NEW p \in Pages, lock'[p] # NoOne
                 PROVE  /\ lock'[p] \in Writers /\ mover'[lock'[p]].page = p
                        /\ mover'[lock'[p]].phase # "idle" /\ mover'[lock'[p]].phase # "lock"
      OBVIOUS
    <3>1. lock'[p] = lock[p] /\ lock[p] # w
      BY <1>1
    <3>2. /\ lock[p] \in Writers /\ Page(lock[p]) = p
          /\ ~At(lock[p], "idle") /\ ~At(lock[p], "lock")
      BY <3>1 DEF NamesInv, RowTypes, NamesTypeOK
    <3>3. QED
      BY <1>2, <3>1, <3>2 DEF Page, At
  <2>2. \A v \in Writers : mover'[v].seen \subseteq Pages /\ mover'[v].drop \subseteq Aliases
    BY <1>2, Fields DEF NamesInv, Idle
  <2>3. QED
    BY <2>1, <2>2 DEF NamesTypeOK, At, Page
<1>5. RowTypes'
  <2>1. mover' \in [Writers -> TransactionType]
    BY <1>1, IdleType
  <2>2. lock' \in [Pages -> Writers \cup {NoOne}]
    BY <1>1
  <2>3. QED
    BY <1>4, <2>1, <2>2 DEF RowTypes
<1>6. \A v \in Writers \ {w} : Owning(v) =>
         \/ UNCHANGED <<title, deleted, alias>>
         \/ Page(v) # Page(w)
  BY Apart
<1>7. \A v \in Writers \ {w} : Course(v)'
  <2> SUFFICES ASSUME NEW v \in Writers \ {w} PROVE Course(v)'
    OBVIOUS
  <2>1. Course(v) /\ mover'[v] = mover[v]
    BY <1>2 DEF NamesInv
  <2>2. mover[v].op = "create" => title'[Page(v)] = NoTitle
    BY <1>6, <2>1 DEF Course, Owning, At
  <2>3. mover[v].op \notin {"none", "create"} => Page(v) \in Existing'
    BY <2>1 DEF Course
  <2>4. QED
    BY <2>1, <2>2, <2>3 DEF Course, At, Page, To
<1>8. \A v \in Writers \ {w} : Held(v)'
  <2> SUFFICES ASSUME NEW v \in Writers \ {w} PROVE Held(v)'
    OBVIOUS
  <2>1. Held(v) /\ Course(v) /\ mover'[v] = mover[v]
    BY <1>2 DEF NamesInv
  <2>2. mover[v].op = "create" => \A u \in Writers \ {v} : mover'[u].page # Page(v)
    <3> SUFFICES ASSUME mover[v].op = "create", NEW u \in Writers \ {v}
                 PROVE  mover'[u].page # Page(v)
      OBVIOUS
    <3>1. CASE u # w
      BY <1>2, <2>1, <3>1 DEF Held, Page
    <3>2. CASE u = w
      <4>1. Page(v) # NoOne
        BY <2>1, Sorts DEF Course, At
      <4>2. QED
        BY <1>2, <1>3, <3>2, <4>1
    <3>3. QED
      BY <3>1, <3>2
  <2>3. mover[v].op # "create" /\ mover[v].phase \notin Unlocked => lock'[Page(v)] = v
    BY <1>1, <2>1 DEF Held, Course, At, Unlocked
  <2>4. QED
    BY <2>1, <2>2, <2>3 DEF Held, Page
<1>9. \A v \in Writers \ {w} : Checked(v)'
  <2> SUFFICES ASSUME NEW v \in Writers \ {w} PROVE Checked(v)'
    OBVIOUS
  <2>1. Checked(v) /\ Course(v) /\ mover'[v] = mover[v]
    BY <1>2 DEF NamesInv
  <2>2. Owning(v) => title'[Page(v)] = title[Page(v)] \/ ~(Page(v) \in Pages)
    BY <1>6
  <2>3. ASSUME Owning(v), [title |-> To(v), page |-> Page(v)] \in alias'
        PROVE  [title |-> To(v), page |-> Page(v)] \in alias
    BY <1>6, <2>3
  <2>4. QED
    BY <2>1, <2>2, <2>3 DEF Checked, Course, Owning, At, Page, To, Unlocked
<1>10. Course(w)' /\ Held(w)' /\ Checked(w)'
  BY <1>2, <1>3 DEF Course, Held, Checked, At, Page, Unlocked
<1>11. KeptApart'
  <2>1. \A v \in Writers \ {w} :
           mover[v].phase \notin Unlocked /\ mover[v].op \in {"rename", "redirect"}
              => Page(v) \notin deleted'
    BY <1>6 DEF NamesInv, KeptApart, Owning
  <2>2. QED
    BY <1>2, <1>3, <2>1 DEF KeptApart, Page, Unlocked
<1>12. QED
  BY <1>5, <1>7, <1>8, <1>9, <1>10, <1>11 DEF NamesInv


LEMMA BeginStep ==
    ASSUME NamesInv, NEW w \in Writers, NEW op, NEW p \in Pages, NEW to, NEW undoes, NEW governed,
           Begin(w, op, p, to, undoes, governed),
           op \in {"create", "rename", "redirect", "unredirect", "erase"},
           to \in Titles \cup Targets \cup {NoTitle},
           undoes \in Batches \cup {NoBatch}, governed \in BOOLEAN,
           op = "create" => /\ p \notin Existing /\ to \in Titles /\ undoes = NoBatch
                            /\ \A v \in Writers : Page(v) # p,
           op # "create" => p \in Existing,
           op = "rename" => to \in Titles,
           op = "redirect" => to \in Targets,
           op \in {"unredirect", "erase"} => ~governed
    PROVE  NamesInv'
<1> DEFINE x == [Idle EXCEPT !.phase = IF op = "create" THEN "title" ELSE "lock", !.op = op,
                             !.page = p, !.to = to, !.undoes = undoes, !.governed = governed]
<1>1. /\ mover' = [mover EXCEPT ![w] = x] /\ UNCHANGED <<nameTables, lock>>
      /\ UNCHANGED <<title, deleted, alias, redirect, touched, batches, lock>>
      /\ At(w, "idle")
  BY DEF Begin, nameTables
<1>2. /\ x.phase = (IF op = "create" THEN "title" ELSE "lock")
      /\ x.op = op /\ x.page = p /\ x.to = to /\ x.drop = {} /\ x.undoes = undoes
      /\ x.governed = governed
  BY DEF Idle
<1>3. x \in TransactionType
  <2> DEFINE x1 == [Idle EXCEPT !.phase = IF op = "create" THEN "title" ELSE "lock"]
             x2 == [x1 EXCEPT !.op = op]
             x3 == [x2 EXCEPT !.page = p]
             x4 == [x3 EXCEPT !.to = to]
             x5 == [x4 EXCEPT !.undoes = undoes]
             x6 == [x5 EXCEPT !.governed = governed]
  <2>1. x = x6
    OBVIOUS
  <2>2. x1 \in TransactionType
    BY IdleType DEF TransactionType, Phases
  <2> HIDE DEF x1
  <2>3. x2 \in TransactionType
    BY <2>2 DEF TransactionType
  <2> HIDE DEF x2
  <2>4. x3 \in TransactionType
    BY <2>3 DEF TransactionType
  <2> HIDE DEF x3
  <2>5. x4 \in TransactionType
    BY <2>4 DEF TransactionType
  <2> HIDE DEF x4
  <2>6. x5 \in TransactionType
    BY <2>5 DEF TransactionType
  <2> HIDE DEF x5
  <2>7. x6 \in TransactionType
    BY <2>6 DEF TransactionType
  <2> HIDE DEF x, x6
  <2>8. QED
    BY <2>1, <2>7
<1>4. mover'[w] = x /\ \A v \in Writers \ {w} : mover'[v] = mover[v]
  BY <1>1 DEF NamesInv, RowTypes
<1>5. \A v \in Writers : mover[v].op = "create" => Page(v) # p
  BY DEF NamesInv, Course, Existing
<1> HIDE DEF x
<1>6. Course(w)'
  <2>1. op = "create" => title[p] = NoTitle
    BY DEF Existing
  <2>2. Existing' = Existing
    BY <1>1 DEF Existing
  <2>3. QED
    BY <1>1, <1>2, <1>4, <2>1, <2>2 DEF Course, At, Page, To
<1>7. Held(w)'
  BY <1>2, <1>4 DEF Held, Page, Unlocked
<1>8. Checked(w)'
  BY <1>2, <1>4 DEF Checked, At
<1>9. \A q \in Pages : lock[q] # w
  BY <1>1, Sorts DEF NamesInv, RowTypes, NamesTypeOK, At
<1>10. x.phase \notin Unlocked => x.op = "create"
  BY <1>2 DEF Unlocked
<1>11. QED
  BY <1>1, <1>2, <1>3, <1>5, <1>6, <1>7, <1>8, <1>9, <1>10, ReadStep DEF Page

LEMMA BatchFields ==
    ASSUME NEW b \in Batches
    PROVE  /\ b.op \in {"create", "rename", "redirect"} /\ b.page \in Pages
           /\ b.op = "create" => b.was = NoTitle /\ b.now \in Titles
           /\ b.op = "rename" => b.was \in Titles /\ b.now \in Titles
           /\ b.op = "redirect" => b.was \in Targets /\ b.now \in Targets
BY DEF Batches

LEMMA RequestInv == ASSUME NamesInv, NEW w \in Writers, Request(w) PROVE NamesInv'
<1>1. \A g \in Governable : g \in BOOLEAN
  BY DEF Governable
<1>2. NoBatch \in Batches \cup {NoBatch} /\ None \in Targets
  BY DEF Targets
<1>3. ASSUME NEW p \in Pages, NEW t \in Titles, NEW g \in Governable, RequestCreate(w, p, t, g)
      PROVE  NamesInv'
  BY <1>1, <1>2, <1>3, BeginStep DEF RequestCreate
<1>4. ASSUME NEW p \in Pages, NEW t \in Titles, NEW g \in Governable, RequestRename(w, p, t, g)
      PROVE  NamesInv'
  BY <1>1, <1>2, <1>4, BeginStep DEF RequestRename
<1>5. ASSUME NEW p \in Pages, NEW to \in Targets, NEW g \in Governable,
             RequestRedirect(w, p, to, g)
      PROVE  NamesInv'
  BY <1>1, <1>2, <1>5, BeginStep DEF RequestRedirect
<1>6. ASSUME NEW p \in Pages, RequestUnredirect(w, p) PROVE NamesInv'
  BY <1>2, <1>6, BeginStep DEF RequestUnredirect
<1>7. ASSUME NEW b \in batches, RequestInverse(w, b) PROVE NamesInv'
  <2> DEFINE op == CASE b.op = "create" -> "erase"
                     [] b.op = "redirect" /\ b.was = None -> "unredirect"
                     [] OTHER -> b.op
  <2>1. b \in Batches /\ b.page \in Existing /\ b.page \in Pages
    BY BatchFields DEF NamesInv, RowTypes, NamesTypeOK, BatchesExist
  <2>2. /\ b.op \in {"create", "rename", "redirect"}
        /\ b.op = "create" => b.was = NoTitle
        /\ b.op = "rename" => b.was \in Titles
        /\ b.op = "redirect" => b.was \in Targets
    BY <2>1, BatchFields
  <2>3. Begin(w, op, b.page, b.was, b, FALSE)
    BY <1>7 DEF RequestInverse
  <2>4. /\ op \in {"rename", "redirect", "unredirect", "erase"}
        /\ op = "rename" => b.op = "rename"
        /\ op = "redirect" => b.op = "redirect"
    BY <2>2
  <2> HIDE DEF op
  <2>5. QED
    BY <2>1, <2>2, <2>3, <2>4, BeginStep
<1>8. QED
  BY <1>3, <1>4, <1>5, <1>6, <1>7 DEF Request


(* A transaction past its lock statement goes on to read.                   *)
LEMMA CarryOn ==
    ASSUME NamesInv, NEW w \in Writers, NEW x \in TransactionType,
           mover' = [mover EXCEPT ![w] = x], UNCHANGED <<nameTables, lock>>,
           mover[w].phase \notin Unlocked, x.phase \notin Unlocked,
           x.op = mover[w].op, x.page = Page(w), x.to = To(w),
           x.undoes = mover[w].undoes, x.governed = mover[w].governed,
           x.op \in {"create", "rename"} => x.phase \in {"title", "alias", "entitle"},
           x.op = "redirect" => x.phase \in {"target", "walk", "upsert"},
           x.op \notin {"unredirect", "erase"},
           Checked(w)'
    PROVE  NamesInv'
<1>1. UNCHANGED <<title, deleted, alias, redirect, touched, batches, lock>>
  BY DEF nameTables
<1>2. mover'[w] = x /\ \A v \in Writers \ {w} : mover'[v] = mover[v]
  BY DEF NamesInv, RowTypes
<1>3. /\ Course(w) /\ Held(w) /\ Existing' = Existing
      /\ Page(w) \in Pages /\ mover[w].op # "none"
  BY <1>1 DEF NamesInv, Course, At, Unlocked, Existing
<1>4. Course(w)'
  BY <1>1, <1>2, <1>3 DEF Course, At, Page, To, Unlocked
<1>5. Held(w)'
  BY <1>1, <1>2, <1>3 DEF Held, Page
<1>6. \A p \in Pages : lock[p] = w => x.page = p
  BY Sorts DEF NamesInv, RowTypes, NamesTypeOK
<1>7. x.op \in {"rename", "redirect"} => x.page \notin deleted
  BY DEF NamesInv, KeptApart
<1>8. \A v \in Writers \ {w} : mover[v].op = "create" => x.page # Page(v)
  BY DEF NamesInv, Held
<1>9. QED
  BY <1>4, <1>5, <1>6, <1>7, <1>8, ReadStep

LEMMA CheckLiveInv == ASSUME NamesInv, NEW w \in Writers, CheckLive(w) PROVE NamesInv'
<1> DEFINE x == [mover[w] EXCEPT !.phase = "alias"]
<1>1. /\ mover' = [mover EXCEPT ![w] = x] /\ UNCHANGED <<nameTables, lock>>
      /\ mover[w].phase = "title"
      /\ mover[w].op = "rename" => title[Page(w)] # To(w)
  BY DEF CheckLive, Moves, At
<1>2. Course(w) /\ mover[w] \in TransactionType /\ mover \in [Writers -> TransactionType]
  BY Fields DEF NamesInv, RowTypes
<1>3. /\ x \in TransactionType
      /\ x.phase = "alias" /\ x.op = mover[w].op /\ x.page = Page(w) /\ x.to = To(w)
      /\ x.undoes = mover[w].undoes /\ x.governed = mover[w].governed
  BY <1>2 DEF TransactionType, Phases, Page, To
<1> HIDE DEF x
<1>4. mover[w].op \in {"create", "rename"}
  BY <1>1, <1>2, Fields DEF Course, At, NamesInv
<1>5. Checked(w)'
  BY <1>1, <1>2, <1>3 DEF Checked, At, Page, To, nameTables
<1>6. QED
  BY <1>1, <1>3, <1>4, <1>5, CarryOn DEF Unlocked

LEMMA CheckAliasInv == ASSUME NamesInv, NEW w \in Writers, CheckAlias(w) PROVE NamesInv'
<1>1. mover[w].phase = "alias" /\ UNCHANGED <<nameTables, lock>>
  BY DEF CheckAlias, At
<1>2. /\ Course(w) /\ Checked(w)
      /\ mover[w] \in TransactionType /\ mover \in [Writers -> TransactionType]
  BY Fields DEF NamesInv, RowTypes
<1>3. mover[w].op \in {"create", "rename"}
  BY <1>1, <1>2, Fields DEF Course, At, NamesInv
<1>4. ASSUME NEW x \in TransactionType, mover' = [mover EXCEPT ![w] = x],
             x.phase = "entitle", x.op = mover[w].op, x.page = Page(w), x.to = To(w),
             x.undoes = mover[w].undoes, x.governed = mover[w].governed,
             [title |-> To(w), page |-> Page(w)] \in alias
                => [title |-> To(w), page |-> Page(w)] \in x.drop
      PROVE  NamesInv'
  <2>1. Checked(w)'
    BY <1>1, <1>2, <1>4 DEF Checked, At, Page, To, nameTables
  <2>2. QED
    BY <1>1, <1>3, <1>4, <2>1, CarryOn DEF Unlocked
<1>5. CASE AliasRows(To(w)) = {} /\ Moves(w, "entitle")
  <2> DEFINE x == [mover[w] EXCEPT !.phase = "entitle"]
  <2>1. x \in TransactionType
    BY <1>2 DEF TransactionType, Phases
  <2>2. [title |-> To(w), page |-> Page(w)] \notin alias
    BY <1>5 DEF AliasRows
  <2>3. QED
    BY <1>2, <1>4, <1>5, <2>1, <2>2 DEF Moves, Page, To, TransactionType
<1>6. ASSUME NEW a \in AliasRows(To(w)), a.page = Page(w) \/ a.page \in deleted,
             mover' = [mover EXCEPT ![w].phase = "entitle", ![w].drop = Reclaims(w, a)]
      PROVE  NamesInv'
  <2> DEFINE x == [mover[w] EXCEPT !.phase = "entitle", !.drop = {a}]
  <2>1. a \in alias /\ a \in Aliases /\ a.title = To(w)
    BY <1>6 DEF AliasRows, NamesInv, RowTypes, NamesTypeOK
  <2>2. x \in TransactionType
    BY <1>2, <2>1 DEF TransactionType, Phases
  <2>3. a = [title |-> To(w), page |-> Page(w)]
    <3>1. a.page \notin deleted
      BY <2>1 DEF NamesInv, KeptApart
    <3>2. QED
      BY <1>6, <2>1, <3>1 DEF Aliases
  <2>4. mover' = [mover EXCEPT ![w] = x]
    BY <1>6 DEF Reclaims
  <2>5. QED
    BY <1>2, <1>4, <2>2, <2>3, <2>4 DEF Page, To, TransactionType
<1>7. QED
  BY <1>5, <1>6 DEF CheckAlias

(* A redirect's transaction, between its checks.                            *)
LEMMA RedirectGoesOn ==
    ASSUME NamesInv, NEW w \in Writers, NEW x \in TransactionType,
           mover' = [mover EXCEPT ![w] = x], UNCHANGED <<nameTables, lock>>,
           mover[w].phase \in {"target", "walk"}, x.phase \in {"walk", "upsert"},
           x.op = mover[w].op, x.page = Page(w), x.to = To(w),
           x.undoes = mover[w].undoes, x.governed = mover[w].governed
    PROVE  NamesInv'
<1>1. Course(w) /\ mover'[w] = x
  BY DEF NamesInv, RowTypes
<1>2. mover[w].op = "redirect"
  BY <1>1, Fields DEF Course, At, NamesInv
<1>3. Checked(w)'
  BY <1>1 DEF Checked, At
<1>4. QED
  BY <1>2, <1>3, CarryOn DEF Unlocked

LEMMA CheckTargetInv == ASSUME NamesInv, NEW w \in Writers, CheckTarget(w) PROVE NamesInv'
<1> DEFINE x == [mover[w] EXCEPT !.phase = IF To(w).kind = "interwiki" THEN "upsert" ELSE "walk",
                                  !.at = To(w).to, !.seen = {Page(w)}]
<1>1. /\ mover[w].phase = "target" /\ UNCHANGED <<nameTables, lock>>
      /\ mover' = [mover EXCEPT ![w] = x]
  BY DEF CheckTarget, At
<1>2. Course(w) /\ mover[w] \in TransactionType
  BY Fields DEF NamesInv, RowTypes
<1>3. mover[w].op = "redirect" /\ Page(w) \in Pages /\ To(w) \in Targets
  BY <1>1, <1>2, Fields DEF Course, At, NamesInv
<1>4. To(w).to \in Pages \cup Titles \cup {Elsewhere, NoOne}
  BY <1>3 DEF Targets, None
<1>5. x \in TransactionType
  <2> DEFINE x1 == [mover[w] EXCEPT !.phase = IF To(w).kind = "interwiki" THEN "upsert" ELSE "walk"]
             x2 == [x1 EXCEPT !.at = To(w).to]
             x3 == [x2 EXCEPT !.seen = {Page(w)}]
  <2>1. x = x3
    OBVIOUS
  <2>2. x1 \in TransactionType
    BY <1>2 DEF TransactionType, Phases
  <2> HIDE DEF x1
  <2>3. x2 \in TransactionType
    BY <1>4, <2>2 DEF TransactionType
  <2> HIDE DEF x2
  <2>4. x3 \in TransactionType
    BY <1>3, <2>3 DEF TransactionType
  <2> HIDE DEF x, x3
  <2>5. QED
    BY <2>1, <2>4
<1>6. /\ x.phase \in {"walk", "upsert"} /\ x.op = mover[w].op /\ x.page = Page(w)
      /\ x.to = To(w) /\ x.undoes = mover[w].undoes /\ x.governed = mover[w].governed
  BY <1>2 DEF TransactionType, Page, To
<1> HIDE DEF x
<1>7. QED
  BY <1>1, <1>5, <1>6, RedirectGoesOn

LEMMA WalkOnInv ==
    ASSUME NamesInv, NEW w \in Writers, At(w, "walk"), UNCHANGED <<nameTables, lock>>,
           NEW next \in Pages \cup Titles,
           WalkEnds(w) \/ WalksTo(w, next)
    PROVE  NamesInv'
<1>1. mover[w].phase = "walk" /\ mover[w] \in TransactionType
  BY Fields DEF NamesInv, At
<1>2. CASE WalkEnds(w)
  <2> DEFINE x == [mover[w] EXCEPT !.phase = "upsert"]
  <2>1. x \in TransactionType
    BY <1>1 DEF TransactionType, Phases
  <2>2. QED
    BY <1>1, <1>2, <2>1, RedirectGoesOn DEF WalkEnds, Moves, TransactionType,
       Page, To
<1>3. CASE WalksTo(w, next)
  <2> DEFINE x == [mover[w] EXCEPT !.at = next, !.seen = @ \cup ({mover[w].at} \cap Pages)]
  <2>1. x \in TransactionType
    BY <1>1 DEF TransactionType
  <2>2. /\ x.phase = "walk" /\ x.op = mover[w].op /\ x.page = Page(w)
        /\ x.to = To(w) /\ x.undoes = mover[w].undoes /\ x.governed = mover[w].governed
    BY <1>1 DEF TransactionType, Page, To
  <2>3. mover' = [mover EXCEPT ![w] = x]
    BY <1>3 DEF WalksTo
  <2> HIDE DEF x
  <2>4. QED
    BY <1>1, <2>1, <2>2, <2>3, RedirectGoesOn
<1>4. QED
  BY <1>2, <1>3

LEMMA WalkInv == ASSUME NamesInv, NEW w \in Writers, WalkTitle(w) \/ WalkPage(w) PROVE NamesInv'
<1>1. CASE WalkTitle(w)
  <2>1. \A p \in Titled(mover[w].at) : p \in Pages
    BY DEF Titled, Live, Existing
  <2>2. mover[w].at \in Titles
    BY <1>1 DEF WalkTitle
  <2>3. QED
    BY <1>1, <2>1, <2>2, WalkOnInv DEF WalkTitle
<1>2. CASE WalkPage(w)
  <2>1. redirect[mover[w].at] \in Targets /\ mover[w].at \in Pages
    BY <1>2 DEF WalkPage, NamesInv, RowTypes, NamesTypeOK
  <2>2. redirect[mover[w].at].kind \in {"page", "unresolved"}
           => redirect[mover[w].at].to \in Pages \cup Titles
    BY <2>1 DEF Targets, None
  <2>3. QED
    BY <1>2, <2>1, <2>2, WalkOnInv DEF WalkPage
<1>3. QED
  BY <1>1, <1>2

LEMMA LockNameInv == ASSUME NamesInv, NEW w \in Writers, LockRow(w) PROVE NamesInv'
<1> DEFINE x == [mover[w] EXCEPT !.phase = AfterLock(w)]
<1>1. /\ mover[w].phase = "lock" /\ lock[Page(w)] = NoOne /\ LivePage(w)
      /\ mover' = [mover EXCEPT ![w] = x]
      /\ lock' = [lock EXCEPT ![Page(w)] = w]
      /\ UNCHANGED <<title, deleted, alias, redirect, touched, batches>>
  BY DEF LockRow, Moves, At, nameTables
<1>2. /\ Course(w) /\ RowTypes
      /\ mover[w] \in TransactionType /\ mover \in [Writers -> TransactionType]
      /\ lock \in [Pages -> Writers \cup {NoOne}]
  BY Fields DEF NamesInv, RowTypes
<1>3. /\ mover[w].op \in {"rename", "redirect", "unredirect", "erase"}
      /\ Page(w) \in Existing /\ Page(w) \in Pages
  BY <1>1, <1>2, Fields DEF Course, At
<1>4. /\ x.phase = AfterLock(w)
      /\ x.phase \in {"title", "target", "unredirect", "erase"}
      /\ x.op = "rename" => x.phase = "title"
      /\ x.op = "redirect" => x.phase = "target"
      /\ x.op \in {"unredirect", "erase"} => x.phase = x.op
      /\ x.op = mover[w].op /\ x.page = Page(w) /\ x.to = To(w)
      /\ x.undoes = mover[w].undoes /\ x.governed = mover[w].governed
      /\ x.seen = mover[w].seen /\ x.drop = mover[w].drop
  BY <1>2, <1>3 DEF TransactionType, AfterLock, Page, To
<1>5. x \in TransactionType
  <2>1. AfterLock(w) \in Phases
    BY <1>4 DEF Phases
  <2>2. QED
    BY <1>2, <2>1 DEF TransactionType
<1> HIDE DEF x
<1>6. mover'[w] = x /\ \A v \in Writers \ {w} : mover'[v] = mover[v]
  BY <1>1, <1>2
<1>7. lock'[Page(w)] = w /\ \A p \in Pages \ {Page(w)} : lock'[p] = lock[p]
  BY <1>1, <1>2, <1>3
<1>8. Existing' = Existing
  BY <1>1 DEF Existing
<1>9. NamesTypeOK'
  <2>1. \A p \in Pages : lock'[p] # NoOne =>
           /\ lock'[p] \in Writers /\ mover'[lock'[p]].page = p
           /\ mover'[lock'[p]].phase # "idle" /\ mover'[lock'[p]].phase # "lock"
    <3> SUFFICES ASSUME NEW p \in Pages, lock'[p] # NoOne
                 PROVE  /\ lock'[p] \in Writers /\ mover'[lock'[p]].page = p
                        /\ mover'[lock'[p]].phase # "idle" /\ mover'[lock'[p]].phase # "lock"
      OBVIOUS
    <3>1. CASE p = Page(w)
      BY <1>4, <1>6, <1>7, <3>1
    <3>2. CASE p # Page(w)
      <4>1. /\ lock[p] \in Writers /\ Page(lock[p]) = p
            /\ ~At(lock[p], "idle") /\ ~At(lock[p], "lock") /\ lock'[p] = lock[p]
        BY <1>2, <1>7, <3>2 DEF RowTypes, NamesTypeOK
      <4>2. lock[p] # w
        BY <1>1, <4>1 DEF At
      <4>3. QED
        BY <1>6, <4>1, <4>2 DEF Page, At
    <3>3. QED
      BY <3>1, <3>2
  <2>2. \A v \in Writers : mover'[v].seen \subseteq Pages /\ mover'[v].drop \subseteq Aliases
    BY <1>2, <1>4, <1>6, Fields
  <2>3. QED
    BY <1>1, <1>2, <1>8, <2>1, <2>2 DEF RowTypes, NamesTypeOK, At, Page
<1>10. RowTypes'
  BY <1>1, <1>2, <1>5, <1>9 DEF RowTypes
<1>11. \A v \in Writers \ {w} : Course(v)' /\ Checked(v)'
  BY <1>1, <1>6, <1>8 DEF NamesInv, Course, Checked, At, Page, To
<1>12. Course(w)' /\ Checked(w)'
  BY <1>1, <1>2, <1>3, <1>4, <1>6, <1>8 DEF Course, Checked, At, Page, To
<1>13. \A v \in Writers : Held(v)'
  <2> SUFFICES ASSUME NEW v \in Writers PROVE Held(v)'
    OBVIOUS
  <2>1. CASE v = w
    BY <1>3, <1>4, <1>6, <1>7, <2>1 DEF Held, Page
  <2>2. CASE v # w
    <3>1. Held(v) /\ mover'[v] = mover[v]
      BY <1>6, <2>2 DEF NamesInv
    <3>2. mover[v].op = "create" => \A u \in Writers \ {v} : mover'[u].page # Page(v)
      BY <1>4, <1>6, <3>1, <2>2 DEF Held, Page
    <3>3. mover[v].op # "create" /\ mover[v].phase \notin Unlocked => lock'[Page(v)] = v
      <4> HAVE mover[v].op # "create" /\ mover[v].phase \notin Unlocked
      <4>1. lock[Page(v)] = v /\ Page(v) \in Pages
        BY <3>1 DEF Held, NamesInv, Course, At, Unlocked
      <4>2. Page(v) # Page(w)
        BY <1>1, <4>1, Sorts
      <4>3. QED
        BY <1>7, <4>1, <4>2
    <3>4. QED
      BY <3>1, <3>2, <3>3 DEF Held, Page
  <2>3. QED
    BY <2>1, <2>2
<1>14. BatchesExist' /\ KeptApart' /\ DeletedPointsNowhere' /\ NoSelfAlias'
  <2>1. \A v \in Writers :
           mover'[v].phase \notin Unlocked /\ mover'[v].op \in {"rename", "redirect"}
              => mover'[v].page \notin deleted
    BY <1>1, <1>4, <1>6 DEF NamesInv, KeptApart, Page, LivePage, MayBeDeleted
  <2>2. QED
    BY <1>1, <1>8, <2>1 DEF NamesInv, BatchesExist, KeptApart, DeletedPointsNowhere,
       NoSelfAlias, Live, Page
<1>15. QED
  BY <1>10, <1>11, <1>12, <1>13, <1>14 DEF NamesInv


LEMMA AbortInv == ASSUME NamesInv, NEW w \in Writers, Abort(w) PROVE NamesInv'
<1>1. /\ EndTransaction(w)
      /\ UNCHANGED <<title, deleted, alias, redirect, touched, batches>>
  BY DEF Abort, nameTables
<1>2. /\ Existing' = Existing /\ BatchesExist' /\ DeletedPointsNowhere' /\ NoSelfAlias'
  BY <1>1 DEF NamesInv, Existing, BatchesExist, DeletedPointsNowhere,
     NoSelfAlias, Live, Existing
<1>3. /\ title' \in [Pages -> Titles \cup {NoTitle}] /\ redirect' \in [Pages -> Targets]
      /\ alias' \subseteq Aliases /\ batches' \subseteq Batches
      /\ deleted' \subseteq Existing /\ touched' \subseteq Existing
  BY <1>1 DEF NamesInv, RowTypes, NamesTypeOK
<1>4. (\A a \in alias' : a.page \in touched') /\ touched' \cap deleted' = {}
  BY <1>1 DEF NamesInv, KeptApart
<1>5. QED
  BY <1>1, <1>2, <1>3, <1>4, EndStep

(* What the audit trail gains from a committed operation.                   *)
LEMMA Trail ==
    ASSUME NamesInv, NEW w \in Writers, NEW was, Recorded(w, was), Page(w) \in Existing',
           Existing \subseteq Existing',
           mover[w].op = "create" => was = NoTitle /\ To(w) \in Titles,
           mover[w].op = "rename" => was \in Titles /\ To(w) \in Titles,
           mover[w].op = "redirect" => was \in Targets /\ To(w) \in Targets,
           mover[w].op \in {"unredirect", "erase"} => ~mover[w].governed,
           mover[w].op # "none", Page(w) \in Pages
    PROVE  /\ batches' \subseteq Batches /\ BatchesExist'
           /\ touched' \subseteq Existing'
           /\ touched \subseteq touched' /\ touched' \subseteq touched \cup {Page(w)}
           /\ mover[w].op # "create" => Page(w) \in touched'
           /\ mover[w].op = "create" => touched' = touched
<1> DEFINE b == [op |-> mover[w].op, page |-> Page(w), was |-> was, now |-> To(w)]
<1>1. mover[w].governed => mover[w].op \in {"create", "rename", "redirect"}
  BY Fields DEF NamesInv
<1>2. mover[w].governed => b \in Batches
  BY <1>1 DEF Batches
<1>3. \A c \in batches' : c \in batches \/ (mover[w].governed /\ c = b)
  BY DEF Recorded
<1>4. b.page = Page(w) /\ batches \subseteq Batches /\ BatchesExist /\ touched \subseteq Existing
  BY DEF NamesInv, RowTypes, NamesTypeOK
<1> HIDE DEF b
<1>5. batches' \subseteq Batches /\ BatchesExist'
  BY <1>2, <1>3, <1>4 DEF BatchesExist
<1>6. touched' = IF mover[w].op = "create" THEN touched ELSE touched \cup {Page(w)}
  BY DEF Recorded
<1>7. QED
  BY <1>4, <1>5, <1>6

LEMMA RelabelInv == ASSUME NamesInv, NEW w \in Writers, Relabel(w) PROVE NamesInv'
<1>1. /\ mover[w].phase = "title" /\ mover[w].op = "rename" /\ title[Page(w)] = To(w)
      /\ Recorded(w, To(w)) /\ EndTransaction(w)
      /\ UNCHANGED <<title, deleted, alias, redirect>>
  BY DEF Relabel, At
<1>2. To(w) \in Titles /\ Page(w) \in Existing /\ Page(w) \in Pages /\ Existing' = Existing
  BY <1>1 DEF NamesInv, Course, Existing
<1>3. /\ batches' \subseteq Batches /\ BatchesExist' /\ touched' \subseteq Existing'
      /\ touched \subseteq touched' /\ touched' \subseteq touched \cup {Page(w)}
  BY <1>1, <1>2, Trail
<1>4. Page(w) \notin deleted
  BY <1>1 DEF NamesInv, KeptApart, Unlocked
<1>5. DeletedPointsNowhere' /\ NoSelfAlias'
  BY <1>1, <1>2 DEF NamesInv, DeletedPointsNowhere, NoSelfAlias, Live
<1>6. /\ title' \in [Pages -> Titles \cup {NoTitle}] /\ redirect' \in [Pages -> Targets]
      /\ alias' \subseteq Aliases /\ deleted' \subseteq Existing
  BY <1>1 DEF NamesInv, RowTypes, NamesTypeOK
<1>7. (\A a \in alias' : a.page \in touched') /\ touched' \cap deleted' = {}
  BY <1>1, <1>3, <1>4 DEF NamesInv, KeptApart
<1>8. QED
  BY <1>1, <1>2, <1>3, <1>5, <1>6, <1>7, EndStep DEF Owning, Unlocked

LEMMA EntitleInv == ASSUME NamesInv, NEW w \in Writers, Entitle(w) PROVE NamesInv'
<1>1. /\ mover[w].phase = "entitle"
      /\ title' = [title EXCEPT ![Page(w)] = To(w)]
      /\ alias' = (alias \ mover[w].drop) \cup Former(w)
      /\ Recorded(w, title[Page(w)]) /\ EndTransaction(w)
      /\ UNCHANGED <<deleted, redirect>>
  BY DEF Entitle, At
<1>2. /\ Course(w) /\ Held(w) /\ Checked(w) /\ KeptApart
      /\ title \in [Pages -> Titles \cup {NoTitle}] /\ redirect \in [Pages -> Targets]
      /\ alias \subseteq Aliases /\ touched \subseteq Existing /\ deleted \subseteq Existing
  BY DEF NamesInv, RowTypes, NamesTypeOK
<1>3. /\ mover[w].op \in {"create", "rename"} /\ To(w) \in Titles /\ Page(w) \in Pages
  BY <1>1, <1>2, Fields DEF Course, At, NamesInv
<1>4. /\ title'[Page(w)] = To(w) /\ \A p \in Pages \ {Page(w)} : title'[p] = title[p]
      /\ title' \in [Pages -> Titles \cup {NoTitle}]
  BY <1>1, <1>2, <1>3
<1>5. Page(w) \in Existing' /\ Existing \subseteq Existing'
  BY <1>3, <1>4, Sorts DEF Existing
<1>6. /\ mover[w].op = "create" => title[Page(w)] = NoTitle
      /\ mover[w].op = "rename" => title[Page(w)] \in Titles /\ Page(w) \notin deleted
  BY <1>1, <1>2, <1>3 DEF Course, Existing, KeptApart, Unlocked
<1>7. /\ batches' \subseteq Batches /\ BatchesExist' /\ touched' \subseteq Existing'
      /\ touched \subseteq touched' /\ touched' \subseteq touched \cup {Page(w)}
      /\ mover[w].op # "create" => Page(w) \in touched'
      /\ mover[w].op = "create" => touched' = touched
  BY <1>1, <1>3, <1>5, <1>6, Trail
<1>8. \A a \in Former(w) : /\ mover[w].op = "rename"
                           /\ a \in Aliases /\ a.page = Page(w) /\ a.title = title[Page(w)]
  BY <1>3, <1>6 DEF Former, Aliases
<1>9. \A a \in alias' : (a \in alias /\ a \notin mover[w].drop) \/ a \in Former(w)
  BY <1>1
<1>10. alias' \subseteq Aliases
  BY <1>2, <1>8, <1>9
<1>11. \A a \in alias' : (a \in alias \/ a.page = Page(w)) /\ a.page \in touched'
  BY <1>2, <1>7, <1>8, <1>9 DEF KeptApart
<1>12. touched' \cap deleted' = {}
  BY <1>1, <1>2, <1>3, <1>6, <1>7 DEF KeptApart
<1>13. NoSelfAlias'
  <2> SUFFICES ASSUME NEW p \in Live', [title |-> title'[p], page |-> p] \in alias'
               PROVE  FALSE
    BY DEF NoSelfAlias
  <2> DEFINE a == [title |-> title'[p], page |-> p]
  <2>1. p \in Pages /\ p \notin deleted /\ a.page = p /\ a.title = title'[p]
    BY <1>1 DEF Live, Existing
  <2> HIDE DEF a
  <2>2. CASE p # Page(w)
    <3>1. title'[p] = title[p] /\ a \in alias
      BY <1>4, <1>8, <1>9, <2>1, <2>2 DEF a
    <3>2. p \in Live
      BY <1>2, <2>1, <3>1 DEF KeptApart, Live
    <3>3. QED
      BY <3>1, <3>2 DEF NamesInv, NoSelfAlias, a
  <2>3. CASE p = Page(w)
    <3>1. a = [title |-> To(w), page |-> Page(w)]
      BY <1>4, <2>3 DEF a
    <3>2. CASE a \in Former(w)
      BY <1>1, <1>2, <1>4, <1>8, <2>1, <2>3, <3>2 DEF Checked
    <3>3. CASE a \in alias /\ a \notin mover[w].drop
      <4>1. mover[w].op # "create"
        <5>1. Page(w) \in Existing
          BY <1>2, <2>1, <2>3, <3>3 DEF KeptApart
        <5>2. QED
          BY <1>6, <5>1 DEF Existing
      <4>2. QED
        BY <1>1, <1>2, <1>3, <3>1, <3>3, <4>1 DEF Checked, At
    <3>4. QED
      BY <1>9, <3>2, <3>3 DEF a
  <2>4. QED
    BY <2>2, <2>3
<1>14. DeletedPointsNowhere'
  BY <1>1 DEF NamesInv, DeletedPointsNowhere
<1>15. QED
  BY <1>1, <1>2, <1>3, <1>4, <1>5, <1>7, <1>10, <1>11, <1>12, <1>13, <1>14, EndStep
     DEF Owning, Unlocked

(* A redirect row is written or removed under the page's lock.              *)
LEMMA RedirectWritten ==
    ASSUME NamesInv, NEW w \in Writers, EndTransaction(w),
           mover[w].phase \notin Unlocked, mover[w].op \in {"redirect", "unredirect"},
           NEW to \in Targets, redirect' = [redirect EXCEPT ![Page(w)] = to],
           Page(w) \notin deleted,
           NEW was, Recorded(w, was), mover[w].op = "redirect" => was \in Targets,
           UNCHANGED <<title, deleted, alias>>
    PROVE  NamesInv'
<1>1. /\ Course(w) /\ Existing' = Existing /\ KeptApart /\ redirect \in [Pages -> Targets]
  BY DEF NamesInv, Existing, RowTypes, NamesTypeOK
<1>2. /\ Page(w) \in Existing /\ Page(w) \in Pages
      /\ mover[w].op = "redirect" => To(w) \in Targets
      /\ mover[w].op \in {"unredirect", "erase"} => ~mover[w].governed
  BY <1>1 DEF Course, At
<1>3. /\ batches' \subseteq Batches /\ BatchesExist' /\ touched' \subseteq Existing'
      /\ touched \subseteq touched' /\ touched' \subseteq touched \cup {Page(w)}
  BY <1>1, <1>2, Trail
<1>4. redirect' \in [Pages -> Targets] /\ \A p \in Pages \ {Page(w)} : redirect'[p] = redirect[p]
  BY <1>1, <1>2
<1>5. DeletedPointsNowhere'
  BY <1>1, <1>4 DEF NamesInv, DeletedPointsNowhere, RowTypes, NamesTypeOK, Existing
<1>6. NoSelfAlias'
  BY <1>1 DEF NamesInv, NoSelfAlias, Live
<1>7. /\ title' \in [Pages -> Titles \cup {NoTitle}]
      /\ alias' \subseteq Aliases /\ deleted' \subseteq Existing'
  BY <1>1 DEF NamesInv, RowTypes, NamesTypeOK
<1>8. (\A a \in alias' : a.page \in touched') /\ touched' \cap deleted' = {}
  BY <1>1, <1>3 DEF KeptApart
<1>9. QED
  BY <1>1, <1>3, <1>4, <1>5, <1>6, <1>7, <1>8, EndStep

LEMMA UpsertInv == ASSUME NamesInv, NEW w \in Writers, Upsert(w) PROVE NamesInv'
<1>1. /\ mover[w].phase = "upsert" /\ Course(w)
      /\ redirect' = [redirect EXCEPT ![Page(w)] = To(w)]
      /\ Recorded(w, redirect[Page(w)]) /\ EndTransaction(w)
      /\ UNCHANGED <<title, deleted, alias>>
  BY DEF Upsert, At, NamesInv
<1>2. mover[w].op = "redirect" /\ To(w) \in Targets /\ Page(w) \in Pages
  BY <1>1, Fields DEF Course, At, NamesInv
<1>3. Page(w) \notin deleted /\ redirect[Page(w)] \in Targets
  BY <1>1, <1>2 DEF NamesInv, KeptApart, Unlocked, RowTypes, NamesTypeOK
<1>4. QED
  BY <1>1, <1>2, <1>3, RedirectWritten DEF Unlocked

LEMMA UnredirectInv == ASSUME NamesInv, NEW w \in Writers, Unredirect(w) PROVE NamesInv'
<1>1. /\ mover[w].phase = "unredirect" /\ Course(w) /\ redirect[Page(w)] # None
      /\ redirect' = [redirect EXCEPT ![Page(w)] = None]
      /\ Recorded(w, None) /\ EndTransaction(w)
      /\ UNCHANGED <<title, deleted, alias>>
  BY DEF Unredirect, At, NamesInv
<1>2. mover[w].op = "unredirect" /\ None \in Targets
  BY <1>1, Fields DEF Course, At, NamesInv, Targets
<1>3. Page(w) \notin deleted
  BY <1>1 DEF NamesInv, DeletedPointsNowhere
<1>4. QED
  BY <1>1, <1>2, <1>3, RedirectWritten DEF Unlocked

LEMMA EraseInv == ASSUME NamesInv, NEW w \in Writers, Erase(w) PROVE NamesInv'
<1>1. /\ mover[w].phase = "erase" /\ Course(w)
      /\ Page(w) \notin touched /\ redirect[Page(w)] = None
      /\ deleted' = deleted \cup {Page(w)}
      /\ batches' \subseteq batches
      /\ EndTransaction(w) /\ UNCHANGED <<title, alias, redirect, touched>>
  BY DEF Erase, Untouched, At, NamesInv
<1>2. mover[w].op = "erase" /\ Page(w) \in Existing /\ Existing' = Existing
  BY <1>1, Fields DEF Course, At, NamesInv, Existing
<1>3. /\ title' \in [Pages -> Titles \cup {NoTitle}] /\ redirect' \in [Pages -> Targets]
      /\ alias' \subseteq Aliases /\ batches' \subseteq Batches
      /\ deleted' \subseteq Existing /\ touched' \subseteq Existing
  BY <1>1, <1>2 DEF NamesInv, RowTypes, NamesTypeOK
<1>4. BatchesExist' /\ DeletedPointsNowhere' /\ NoSelfAlias'
  BY <1>1, <1>2 DEF NamesInv, BatchesExist, DeletedPointsNowhere, NoSelfAlias,
     Live
<1>5. (\A a \in alias' : a.page \in touched') /\ touched' \cap deleted' = {}
  BY <1>1 DEF NamesInv, KeptApart
<1>6. QED
  BY <1>1, <1>2, <1>3, <1>4, <1>5, EndStep DEF Owning, Unlocked

LEMMA NamesInvNext == ASSUME NamesInv, [NamesNext]_namesVars PROVE NamesInv'
<1>1. ASSUME NEW w \in Writers, Request(w) \/ Execute(w) PROVE NamesInv'
  <2>1. CASE Request(w)
    BY <2>1, RequestInv
  <2>2. CASE LockRow(w)
    BY <2>2, LockNameInv
  <2>3. CASE Relabel(w)
    BY <2>3, RelabelInv
  <2>4. CASE CheckLive(w)
    BY <2>4, CheckLiveInv
  <2>5. CASE CheckAlias(w)
    BY <2>5, CheckAliasInv
  <2>6. CASE Entitle(w)
    BY <2>6, EntitleInv
  <2>7. CASE CheckTarget(w)
    BY <2>7, CheckTargetInv
  <2>8. CASE WalkTitle(w) \/ WalkPage(w)
    BY <2>8, WalkInv
  <2>9. CASE Upsert(w)
    BY <2>9, UpsertInv
  <2>10. CASE Unredirect(w)
    BY <2>10, UnredirectInv
  <2>11. CASE Erase(w)
    BY <2>11, EraseInv
  <2>12. CASE Abort(w)
    BY <2>12, AbortInv
  <2>13. QED
    BY <1>1, <2>1, <2>2, <2>3, <2>4, <2>5, <2>6, <2>7, <2>8, <2>9, <2>10, <2>11, <2>12
       DEF Execute
<1>2. CASE UNCHANGED namesVars
  <2>1. UNCHANGED <<title, deleted, alias, redirect, touched, batches, lock, mover>>
    BY <1>2 DEF namesVars
  <2>2. Existing' = Existing
    BY <2>1 DEF Existing
  <2>3. NamesTypeOK'
    BY <2>1, <2>2 DEF NamesInv, RowTypes, NamesTypeOK, At, Page
  <2>4. \A w \in Writers : Course(w)' /\ Held(w)' /\ Checked(w)'
    BY <2>1, <2>2 DEF NamesInv, Course, Held, Checked, At, Page, To
  <2>5. BatchesExist' /\ KeptApart' /\ DeletedPointsNowhere' /\ NoSelfAlias'
    BY <2>1, <2>2 DEF NamesInv, BatchesExist, KeptApart, DeletedPointsNowhere,
       NoSelfAlias,
       Live, Page
  <2>6. QED
    BY <2>1, <2>3, <2>4, <2>5 DEF NamesInv, RowTypes
<1>3. QED
  BY <1>1, <1>2 DEF NamesNext


LEMMA MutualInit == NamesInit => MutualInv
BY DEF NamesInit, MutualInv, NoSections, Passed, NoMutualRedirect, Idle, None

(* A transaction that ends, whatever it has written.                        *)
LEMMA MutualEnd ==
    ASSUME NamesInv, MutualInv, NEW w \in Writers, EndTransaction(w),
           \A b \in batches' : b.op = "redirect" =>
               b \in batches \/ (b.was = redirect[Page(w)] /\ b.now = To(w) /\ Page(w) \in Pages
                                 /\ mover[w].op = "redirect"),
           \/ UNCHANGED redirect
           \/ redirect' = [redirect EXCEPT ![Page(w)] = None]
           \/ /\ redirect' = [redirect EXCEPT ![Page(w)] = To(w)]
              /\ At(w, "upsert") /\ mover[w].op = "redirect" /\ ForeignKeyChecked(w)
    PROVE  MutualInv'
<1>1. /\ mover' = [mover EXCEPT ![w] = Idle]
      /\ mover \in [Writers -> TransactionType] /\ redirect \in [Pages -> Targets]
  BY DEF NamesInv, RowTypes, NamesTypeOK, EndTransaction
<1>2. mover'[w] = Idle /\ \A v \in Writers \ {w} : mover'[v] = mover[v]
  BY <1>1
<1>3. \A p \in Pages : redirect'[p] \in {redirect[p], None} \/ (p = Page(w) /\ redirect'[p] = To(w)
         /\ At(w, "upsert") /\ mover[w].op = "redirect" /\ ForeignKeyChecked(w))
  BY <1>1
<1>4. NoSections'
  <2>1. \A p \in Pages : redirect'[p].kind # "section"
    BY <1>3 DEF MutualInv, NoSections, None
  <2>2. \A b \in batches' : b.op = "redirect" => b.was.kind # "section" /\ b.now.kind # "section"
    BY DEF MutualInv, NoSections
  <2>3. \A v \in Writers : mover'[v].op = "redirect" => mover'[v].to.kind # "section"
    BY <1>2 DEF MutualInv, NoSections, To, Idle
  <2>4. QED
    BY <2>1, <2>2, <2>3 DEF NoSections, To
<1>5. ASSUME NEW v \in Writers PROVE Passed(v)'
  <2>1. CASE v = w
    BY <1>2, <2>1 DEF Passed, Idle
  <2>2. CASE v # w
    <3>1. Passed(v) /\ mover'[v] = mover[v]
      BY <1>2, <2>2 DEF MutualInv
    <3>2. ASSUME mover[v].op = "redirect", To(v).kind = "page", mover[v].phase \in {"walk", "upsert"},
                 redirect'[To(v).to] = [kind |-> "page", to |-> Page(v)]
          PROVE  Back(Page(v), To(v).to)
      <4> DEFINE p == Page(v)  q == To(v).to
      <4>1. p \in Pages /\ lock[p] = v /\ To(v) \in Targets
        BY <3>2 DEF NamesInv, Course, Held, At, Unlocked
      <4>2. q \in Pages /\ mover'[v].to = To(v) /\ mover'[v].page = Page(v)
        BY <3>1, <3>2, <4>1 DEF Targets, None, To, Page
      <4>3. redirect'[q] = [kind |-> "page", to |-> p]
        BY <3>2
      <4>4. redirect'[q] # None
        BY <4>3 DEF None
      <4> HIDE DEF p, q
      <4>5. CASE redirect'[q] = redirect[q]
        BY <4>3, <4>5 DEF Back, p, q
      <4>6. CASE /\ q = Page(w) /\ To(w) = [kind |-> "page", to |-> p]
                 /\ ForeignKeyChecked(w)
        <5>1. To(w).kind = "page" /\ To(w).to = p
          BY <4>6
        <5>2. ~LockFree(w, p)
          BY <2>2, <4>1, Sorts DEF LockFree
        <5>3. redirect[q].kind \in {"page", "section"} /\ redirect[q].to = p
          BY <4>6, <5>1, <5>2 DEF ForeignKeyChecked
        <5>4. redirect[q].kind = "page" /\ redirect[q] \in Targets
          BY <1>1, <4>2, <5>3 DEF MutualInv, NoSections, q
        <5>5. redirect[q] = [kind |-> "page", to |-> p]
          BY <5>3, <5>4 DEF Targets, None
        <5>6. QED
          BY <5>5 DEF Back, p, q
      <4>7. QED
        BY <1>3, <4>2, <4>3, <4>4, <4>5, <4>6 DEF q
    <3>3. QED
      BY <3>1, <3>2 DEF Passed, Back, At, Page, To
  <2>3. QED
    BY <2>1, <2>2
<1>6. ASSUME NEW p \in Pages, NEW q \in Pages,
             redirect'[p] = [kind |-> "page", to |-> q],
             redirect'[q] = [kind |-> "page", to |-> p]
      PROVE  FALSE
  <2>1. redirect'[p] # None /\ redirect'[q] # None
    BY <1>6 DEF None
  <2>2. ASSUME NEW r \in Pages, NEW s \in Pages, r = Page(w), redirect'[r] = To(w),
               To(w) = [kind |-> "page", to |-> s], redirect'[s] = [kind |-> "page",
               to |-> r],
               At(w, "upsert"), mover[w].op = "redirect"
        PROVE  FALSE
    <3>1. To(w).kind = "page" /\ To(w).to = s
      BY <2>2
    <3>2. s # r /\ ~Back(r, s)
      BY <2>2, <3>1 DEF MutualInv, Passed, At
    <3>3. redirect'[s] = redirect[s] \/ redirect'[s] = None
      BY <1>3, <2>2, <3>2
    <3>4. QED
      BY <2>2, <3>2, <3>3 DEF Back, None
  <2>3. CASE redirect'[p] = redirect[p] /\ redirect'[q] = redirect[q]
    BY <1>6, <2>3 DEF MutualInv, NoMutualRedirect
  <2>4. QED
    BY <1>3, <1>6, <2>1, <2>2, <2>3
<1>7. NoMutualRedirect'
  BY <1>6 DEF NoMutualRedirect
<1>8. QED
  BY <1>4, <1>5, <1>7 DEF MutualInv

(* A transaction that goes on, with nothing written yet.                    *)
LEMMA MutualOn ==
    ASSUME MutualInv, NEW w \in Writers, UNCHANGED <<redirect, batches>>,
           \A v \in Writers \ {w} : mover'[v] = mover[v],
           Passed(w)', mover'[w].op = "redirect" => mover'[w].to.kind # "section"
    PROVE  MutualInv'
<1>1. \A v \in Writers : Passed(v)'
  BY DEF MutualInv, Passed, Back, At, Page, To
<1>2. NoSections'
  BY DEF MutualInv, NoSections, To
<1>3. NoMutualRedirect'
  BY DEF MutualInv, NoMutualRedirect
<1>4. QED
  BY <1>1, <1>2, <1>3 DEF MutualInv

LEMMA MutualBegin ==
    ASSUME NamesInv, MutualInv, NEW w \in Writers, NEW op, NEW p, NEW to, NEW undoes, NEW governed,
           Begin(w, op, p, to, undoes, governed), op = "redirect" => to.kind # "section"
    PROVE  MutualInv'
<1> DEFINE x == [Idle EXCEPT !.phase = IF op = "create" THEN "title" ELSE "lock", !.op = op,
                             !.page = p, !.to = to, !.undoes = undoes, !.governed = governed]
<1>1. mover' = [mover EXCEPT ![w] = x] /\ UNCHANGED <<redirect, batches>>
  BY DEF Begin, nameTables
<1>2. x.phase = (IF op = "create" THEN "title" ELSE "lock") /\ x.op = op /\ x.to = to
  BY DEF Idle
<1> HIDE DEF x
<1>3. mover'[w] = x /\ \A v \in Writers \ {w} : mover'[v] = mover[v]
  BY <1>1 DEF NamesInv, RowTypes
<1>4. Passed(w)'
  BY <1>2, <1>3 DEF Passed, At, To
<1>5. QED
  BY <1>1, <1>2, <1>3, <1>4, MutualOn

LEMMA MutualRequest ==
    ASSUME "section" \notin TargetKinds, NamesInv, MutualInv, NEW w \in Writers, Request(w)
    PROVE  MutualInv'
<1>1. ASSUME NEW b \in batches, RequestInverse(w, b) PROVE MutualInv'
  <2> DEFINE op == CASE b.op = "create" -> "erase"
                     [] b.op = "redirect" /\ b.was = None -> "unredirect"
                     [] OTHER -> b.op
  <2>1. b \in Batches
    BY DEF NamesInv, RowTypes, NamesTypeOK
  <2>2. Begin(w, op, b.page, b.was, b, FALSE)
    BY <1>1 DEF RequestInverse
  <2>3. op = "redirect" => b.op = "redirect"
    BY <2>1, BatchFields
  <2> HIDE DEF op
  <2>4. op = "redirect" => b.was.kind # "section"
    BY <2>3 DEF MutualInv, NoSections
  <2>5. QED
    BY <2>2, <2>4, MutualBegin
<1>2. QED
  BY <1>1, MutualBegin
     DEF Request, RequestCreate, RequestRename, RequestRedirect,
     RequestUnredirect

(* What a transaction works on stays, and so do the others.                 *)
LEMMA Onward ==
    ASSUME NamesInv, NEW w \in Writers,
           LockRow(w) \/ CheckLive(w) \/ CheckAlias(w) \/ CheckTarget(w)
             \/ WalkTitle(w) \/ WalkPage(w)
    PROVE  /\ \A v \in Writers \ {w} : mover'[v] = mover[v]
           /\ mover'[w].op = mover[w].op /\ mover'[w].to = To(w) /\ mover'[w].page = Page(w)
<1>0. mover \in [Writers -> TransactionType] /\ mover[w] \in TransactionType
  BY Fields DEF NamesInv, RowTypes
<1> DEFINE Same == /\ \A v \in Writers \ {w} : mover'[v] = mover[v]
                   /\ mover'[w].op = mover[w].op /\ mover'[w].to = mover[w].to
                   /\ mover'[w].page = mover[w].page
<1> SUFFICES Same
  BY DEF To, Page
<1>1. ASSUME NEW phase, Moves(w, phase) PROVE Same
  BY <1>0, <1>1 DEF TransactionType, Moves
<1>2. ASSUME NEW next, WalksTo(w, next) PROVE Same
  BY <1>0, <1>2 DEF TransactionType, WalksTo
<1>3. CASE CheckTarget(w)
  <2> DEFINE x == [mover[w] EXCEPT !.phase = IF To(w).kind = "interwiki" THEN "upsert" ELSE "walk",
                                    !.at = To(w).to, !.seen = {Page(w)}]
  <2>1. mover' = [mover EXCEPT ![w] = x]
    BY <1>3 DEF CheckTarget
  <2>2. x.op = mover[w].op /\ x.to = mover[w].to /\ x.page = mover[w].page
    BY <1>0 DEF TransactionType
  <2> HIDE DEF x
  <2>3. QED
    BY <1>0, <2>1, <2>2
<1>4. CASE CheckAlias(w)
  <2>1. ASSUME NEW d, mover' = [mover EXCEPT ![w].phase = "entitle", ![w].drop = d]
        PROVE  Same
    BY <1>0, <2>1 DEF TransactionType
  <2> HIDE DEF Same
  <2>2. QED
    BY <1>1, <1>4, <2>1 DEF CheckAlias
<1>5. CASE WalkTitle(w) \/ WalkPage(w)
  <2> HIDE DEF Same
  <2>1. QED
    BY <1>1, <1>2, <1>5 DEF WalkTitle, WalkPage, WalkEnds
<1>6. CASE LockRow(w) \/ CheckLive(w)
  <2> HIDE DEF Same
  <2>1. QED
    BY <1>1, <1>6 DEF LockRow, CheckLive
<1>7. QED
  BY <1>3, <1>4, <1>5, <1>6

LEMMA MutualWalk ==
    ASSUME NamesInv, MutualInv, NEW w \in Writers,
           LockRow(w) \/ CheckLive(w) \/ CheckAlias(w) \/ CheckTarget(w)
             \/ WalkTitle(w) \/ WalkPage(w)
    PROVE  MutualInv'
<1>1. /\ mover \in [Writers -> TransactionType] /\ mover[w] \in TransactionType
      /\ Course(w) /\ Passed(w) /\ redirect \in [Pages -> Targets]
  BY DEF NamesInv, RowTypes, NamesTypeOK, MutualInv
<1>2. UNCHANGED <<redirect, batches>>
  BY DEF LockRow, CheckLive, CheckAlias, CheckTarget,
     WalkTitle, WalkPage, nameTables
<1>3. /\ \A v \in Writers \ {w} : mover'[v] = mover[v]
      /\ mover'[w].op = mover[w].op /\ mover'[w].to = To(w) /\ mover'[w].page = Page(w)
  BY Onward
<1>4. Passed(w)'
  <2> SUFFICES ASSUME mover[w].op = "redirect", To(w).kind = "page" PROVE Passed(w)'
    BY <1>3 DEF Passed, To
  <2> DEFINE p == Page(w)  q == To(w).to
  <2>1. p \in Pages /\ q \in Pages
    BY <1>1 DEF Course, At, Targets, None
  <2>2. mover[w].phase \in {"lock", "target", "walk", "upsert"}
    BY <1>1 DEF Course
  <2>3. CASE LockRow(w)
    <3>1. mover'[w].phase = "target"
      BY <1>1, <2>3 DEF LockRow, Moves, AfterLock, TransactionType
    <3>2. QED
      BY <3>1 DEF Passed, At
  <2>4. CASE CheckTarget(w)
    <3>1. /\ mover'[w].phase = "walk" /\ mover'[w].at = q /\ mover'[w].seen = {p} /\ q # p
      BY <1>1, <2>4 DEF CheckTarget, TransactionType
    <3>2. QED
      BY <1>3, <3>1 DEF Passed, At, To, Page
  <2>5. ASSUME At(w, "walk"), WalkEnds(w), ~Back(p, q) PROVE Passed(w)'
    <3>1. mover'[w].phase = "upsert" /\ mover'[w].seen = mover[w].seen
      BY <1>1, <2>5 DEF WalkEnds, Moves, TransactionType
    <3>2. QED
      BY <1>1, <1>2, <1>3, <2>5, <3>1 DEF Passed, Back, At, To, Page
  <2>6. ASSUME At(w, "walk"), NEW next, WalksTo(w, next),
               q \in mover[w].seen \/ mover[w].at = q,
               next = p \/ ~Back(p, q)
        PROVE  Passed(w)'
    <3>1. /\ mover'[w].phase = "walk" /\ mover'[w].at = next
          /\ mover'[w].seen = mover[w].seen \cup ({mover[w].at} \cap Pages)
      BY <1>1, <2>6 DEF WalksTo, TransactionType, At
    <3>2. q \in mover'[w].seen
      BY <2>1, <2>6, <3>1
    <3>3. QED
      BY <1>1, <1>2, <1>3, <2>6, <3>1, <3>2 DEF Passed, Back, At, To, Page
  <2>7. CASE WalkTitle(w)
    <3>1. At(w, "walk") /\ mover[w].at \in Titles
      BY <2>7 DEF WalkTitle
    <3>2. mover[w].at # q /\ mover[w].at # p
      BY <2>1, <3>1, Sorts
    <3>3. q \in mover[w].seen /\ ~Back(p, q)
      BY <1>1, <3>1, <3>2 DEF Passed
    <3> HIDE DEF p, q
    <3>4. QED
      BY <2>5, <2>6, <2>7, <3>1, <3>3 DEF WalkTitle
  <2>8. CASE WalkPage(w)
    <3> DEFINE at == mover[w].at
    <3>1. At(w, "walk") /\ at \in Pages /\ at \notin mover[w].seen /\ p \in mover[w].seen
      BY <1>1, <2>8 DEF WalkPage, NotSeen, Passed, At
    <3>2. ~AtSectionTarget(w)
      BY DEF AtSectionTarget
    <3>3. CASE redirect[at].kind \notin {"page", "unresolved"}
      <4>1. WalkEnds(w)
        BY <2>8, <3>3 DEF WalkPage
      <4>2. at = q \/ ~Back(p, q)
        BY <1>1, <3>1 DEF Passed
      <4>3. at = q => ~Back(p, q)
        BY <3>3 DEF Back
      <4>4. QED
        BY <2>5, <3>1, <4>1, <4>2, <4>3
    <3>4. CASE redirect[at].kind \in {"page", "unresolved"}
      <4>1. WalksTo(w, redirect[at].to)
        BY <2>8, <3>2, <3>4 DEF WalkPage
      <4>2. (q \in mover[w].seen /\ ~Back(p, q)) \/ at = q
        BY <1>1, <3>1 DEF Passed
      <4>3. at = q /\ Back(p, q) => redirect[at].to = p
        BY DEF Back
      <4> HIDE DEF p, q
      <4>4. QED
        BY <2>6, <3>1, <4>1, <4>2, <4>3
    <3>5. QED
      BY <3>3, <3>4
  <2>9. QED
    BY <2>2, <2>3, <2>4, <2>7, <2>8, <1>1 DEF CheckLive, CheckAlias, At
<1>5. QED
  BY <1>2, <1>3, <1>4, MutualOn DEF MutualInv, NoSections

LEMMA MutualNext ==
    ASSUME "section" \notin TargetKinds, NamesInv, MutualInv, [NamesNext]_namesVars
    PROVE  MutualInv'
<1>1. ASSUME NEW w \in Writers, Request(w) \/ Execute(w) PROVE MutualInv'
  <2>1. CASE Request(w)
    BY <2>1, MutualRequest
  <2>2. CASE LockRow(w) \/ CheckLive(w) \/ CheckAlias(w) \/ CheckTarget(w)
               \/ WalkTitle(w) \/ WalkPage(w)
    BY <2>2, MutualWalk
  <2>3. CASE Relabel(w)
    BY <2>3, MutualEnd DEF Relabel, Recorded
  <2>4. CASE Entitle(w)
    <3>1. mover[w].op # "redirect"
      BY <2>4 DEF NamesInv, Course, Entitle, At
    <3>2. QED
      BY <2>4, <3>1, MutualEnd DEF Entitle, Recorded
  <2>5. CASE Upsert(w)
    <3>1. mover[w].op = "redirect" /\ Page(w) \in Pages
      BY <2>5, Fields DEF NamesInv, Course, Upsert, At
    <3>2. \A b \in batches' : b \in batches \/ (b.was = redirect[Page(w)] /\ b.now = To(w))
      BY <2>5 DEF Upsert, Recorded
    <3>3. QED
      BY <2>5, <3>1, <3>2, MutualEnd DEF Upsert
  <2>6. CASE Unredirect(w)
    <3>1. mover[w].op # "redirect"
      BY <2>6 DEF NamesInv, Course, Unredirect, At
    <3>2. \A b \in batches' : b \in batches \/ b.op # "redirect"
      BY <2>6, <3>1 DEF Unredirect, Recorded
    <3>3. QED
      BY <2>6, <3>2, MutualEnd DEF Unredirect
  <2>7. CASE Erase(w)
    BY <2>7, MutualEnd DEF Erase
  <2>8. CASE Abort(w)
    BY <2>8, MutualEnd DEF Abort, nameTables
  <2>9. QED
    BY <1>1, <2>1, <2>2, <2>3, <2>4, <2>5, <2>6, <2>7, <2>8 DEF Execute
<1>2. CASE UNCHANGED namesVars
  BY <1>2 DEF namesVars, MutualInv, NoSections, Passed, NoMutualRedirect, Back,
     At, Page, To
<1>3. QED
  BY <1>1, <1>2 DEF NamesNext


LEMMA SerialInit == NamesInit => SerialInv
<1> SUFFICES ASSUME NamesInit PROVE SerialInv
  OBVIOUS
<1>1. \A w \in Writers : mover[w] = Idle /\ mover[w].phase = "idle"
  BY DEF NamesInit, Idle
<1>2. \A w \in Writers : SerialWalk(w) /\ SerialTitle(w)
  BY <1>1 DEF SerialWalk, SerialTitle
<1>3. TitleNamesOnePage
  BY DEF NamesInit, TitleNamesOnePage, Candidates, Titled, Live,
     Existing
<1>4. \A p \in Pages : redirect[p].kind = "none"
  BY DEF NamesInit, None
<1>5. PageRedirectsAcyclic
  <2> SUFFICES ASSUME NEW ring \in (SUBSET Pages) \ {{}}
               PROVE  \E p \in ring : ~(redirect[p].kind = "page" /\ redirect[p].to \in ring)
    BY DEF PageRedirectsAcyclic
  <2>0. ring # {} /\ ring \subseteq Pages
    OBVIOUS
  <2>1. PICK p \in ring : p \in Pages
    BY <2>0
  <2>2. QED
    BY <1>4, <2>1
<1>6. RedirectTargetsLive
  BY <1>4 DEF RedirectTargetsLive, RedirectsTo
<1>7. QED
  BY <1>1, <1>2, <1>3, <1>5, <1>6 DEF SerialInv, At

(* Whoever else is idle stays idle.                                         *)
LEMMA SerialOn ==
    ASSUME NamesInv, SerialInv, NEW w \in Writers, Alone(w),
           \A v \in Writers \ {w} : mover'[v] = mover[v],
           SerialWalk(w)', SerialTitle(w)',
           TitleNamesOnePage', PageRedirectsAcyclic', RedirectTargetsLive'
    PROVE  SerialInv'
<1>1. \A v \in Writers \ {w} : mover'[v].phase = "idle"
  BY DEF Alone, At
<1>2. \A v \in Writers \ {w} : SerialWalk(v)' /\ SerialTitle(v)'
  BY <1>1 DEF SerialWalk, SerialTitle
<1>3. QED
  BY <1>1, <1>2 DEF SerialInv, At

LEMMA SerialRead ==
    ASSUME NamesInv, SerialInv, NEW w \in Writers, Alone(w),
           \A v \in Writers \ {w} : mover'[v] = mover[v], UNCHANGED nameTables,
           SerialWalk(w)', SerialTitle(w)'
    PROVE  SerialInv'
<1>1. UNCHANGED <<title, deleted, alias, redirect>>
  BY DEF nameTables
<1>2. \A t : Candidates(t)' = Candidates(t)
  BY <1>1 DEF Candidates, Titled, Live, Existing
<1>3. TitleNamesOnePage'
  BY <1>2 DEF SerialInv, TitleNamesOnePage
<1>4. PageRedirectsAcyclic' /\ RedirectTargetsLive'
  BY <1>1 DEF SerialInv, PageRedirectsAcyclic, RedirectTargetsLive,
     RedirectsTo
<1>5. QED
  BY <1>3, <1>4, SerialOn

LEMMA SerialEnd ==
    ASSUME NamesInv, SerialInv, NEW w \in Writers, Alone(w), EndTransaction(w),
           TitleNamesOnePage', PageRedirectsAcyclic', RedirectTargetsLive'
    PROVE  SerialInv'
<1>1. mover'[w] = Idle /\ \A v \in Writers \ {w} : mover'[v] = mover[v]
  BY DEF NamesInv, RowTypes, EndTransaction
<1>2. SerialWalk(w)' /\ SerialTitle(w)'
  BY <1>1 DEF SerialWalk, SerialTitle, Idle
<1>3. QED
  BY <1>1, <1>2, SerialOn

LEMMA SerialRequest ==
    ASSUME NamesInv, SerialInv, NEW w \in Writers, Alone(w), Request(w)
    PROVE  SerialInv'
<1>1. ASSUME NEW op, NEW p, NEW to, NEW undoes, NEW governed,
             Begin(w, op, p, to, undoes, governed)
      PROVE  SerialInv'
  <2> DEFINE x == [Idle EXCEPT !.phase = IF op = "create" THEN "title" ELSE "lock", !.op = op,
                               !.page = p, !.to = to, !.undoes = undoes, !.governed = governed]
  <2>1. mover' = [mover EXCEPT ![w] = x] /\ UNCHANGED nameTables
    BY <1>1 DEF Begin
  <2>2. x.phase = IF op = "create" THEN "title" ELSE "lock"
    BY DEF Idle
  <2> HIDE DEF x
  <2>3. mover'[w] = x /\ \A v \in Writers \ {w} : mover'[v] = mover[v]
    BY <2>1 DEF NamesInv, RowTypes
  <2>4. SerialWalk(w)' /\ SerialTitle(w)'
    BY <2>2, <2>3 DEF SerialWalk, SerialTitle
  <2>5. QED
    BY <2>1, <2>3, <2>4, SerialRead
<1>2. QED
  BY <1>1 DEF Request, RequestCreate, RequestRename, RequestRedirect,
     RequestUnredirect,
     RequestInverse

LEMMA SerialLock ==
    ASSUME NamesInv, SerialInv, NEW w \in Writers, Alone(w), LockRow(w)
    PROVE  SerialInv'
<1>1. /\ mover[w].op \in {"rename", "redirect", "unredirect", "erase"} /\ UNCHANGED nameTables
      /\ mover[w] \in TransactionType
  BY Fields DEF NamesInv, Course, LockRow, At
<1>2. mover'[w].phase \in {"title", "target", "unredirect", "erase"}
  BY <1>1 DEF LockRow, Moves, AfterLock, NamesInv, RowTypes, TransactionType
<1>3. SerialWalk(w)' /\ SerialTitle(w)'
  BY <1>2 DEF SerialWalk, SerialTitle
<1>4. QED
  BY <1>1, <1>3, Onward, SerialRead

LEMMA SerialCheckTitle ==
    ASSUME NamesInv, SerialInv, NEW w \in Writers, Alone(w), CheckLive(w) \/ CheckAlias(w)
    PROVE  SerialInv'
<1>1. /\ mover[w] \in TransactionType /\ mover \in [Writers -> TransactionType]
      /\ UNCHANGED nameTables /\ UNCHANGED <<title, deleted, alias, redirect>>
      /\ Course(w) /\ KeptApart
  BY Fields DEF NamesInv, RowTypes, CheckLive, CheckAlias, nameTables
<1>2. /\ mover'[w].to = To(w) /\ mover'[w].page = Page(w)
      /\ \A v \in Writers \ {w} : mover'[v] = mover[v]
  BY Onward
<1>3. Titled(To(w))' = Titled(To(w))
  BY <1>1, <1>2 DEF Titled, Live, Existing, To
<1>4. CASE CheckLive(w)
  <2>1. /\ mover'[w].phase = "alias" /\ mover[w].op \in {"create", "rename"}
        /\ Page(w) \in Pages /\ To(w) \in Titles
    BY <1>1, <1>4, Fields DEF CheckLive, Moves, At, Course, TransactionType,
       NamesInv
  <2>2. Titled(To(w)) = {}
    <3>1. mover[w].op = "rename" => title[Page(w)] # To(w)
      BY <1>4 DEF CheckLive
    <3>2. mover[w].op = "create" => title[Page(w)] = NoTitle
      BY <1>1 DEF Course
    <3>3. title[Page(w)] # To(w)
      BY <2>1, <3>1, <3>2, Sorts
    <3>4. Page(w) \notin Titled(To(w))
      BY <3>3 DEF Titled
    <3>5. QED
      BY <1>4, <3>4 DEF CheckLive
  <2>3. SerialWalk(w)' /\ SerialTitle(w)'
    BY <1>3, <2>1, <2>2 DEF SerialWalk, SerialTitle
  <2>4. QED
    BY <1>1, <1>2, <2>3, SerialRead
<1>5. CASE CheckAlias(w)
  <2>1. /\ mover'[w].phase = "entitle" /\ mover[w].phase = "alias"
        /\ mover[w].op \in {"create", "rename"} /\ To(w) \in Titles
    <3>1. mover[w].phase = "alias" /\ mover[w].op \in {"create", "rename"} /\ To(w) \in Titles
      BY <1>1, <1>5, Fields DEF CheckAlias, At, Course, NamesInv
    <3>2. mover'[w].phase = "entitle"
      BY <1>1, <1>5 DEF CheckAlias, Moves, TransactionType
    <3>3. QED
      BY <3>1, <3>2
  <2>2. Titled(To(w)) = {}
    BY <2>1 DEF SerialInv, SerialTitle
  <2>3. \A a \in alias : a.title = To(w) => a.page = Page(w)
    <3> SUFFICES ASSUME NEW a \in alias, a.title = To(w) PROVE a.page = Page(w)
      OBVIOUS
    <3>1. PICK b \in AliasRows(To(w)) : b.page = Page(w) \/ b.page \in deleted
      BY <1>5 DEF CheckAlias, AliasRows
    <3>2. ASSUME NEW c \in alias, c.title = To(w)
          PROVE  c.page \in Candidates(To(w)) /\ c.page \notin deleted
      <4>1. /\ c \in Aliases /\ c.page \in touched /\ touched \subseteq Existing
            /\ touched \cap deleted = {}
        BY <1>1, <3>2 DEF NamesInv, RowTypes, NamesTypeOK, KeptApart
      <4>2. c = [title |-> To(w), page |-> c.page] /\ c.page \in Live
        BY <3>2, <4>1 DEF Aliases, Live
      <4>3. QED
        BY <3>2, <4>1, <4>2 DEF Candidates
    <3>3. b \in alias /\ b.title = To(w)
      BY DEF AliasRows
    <3>4. a.page = b.page /\ b.page \notin deleted
      BY <2>1, <3>2, <3>3 DEF SerialInv, TitleNamesOnePage
    <3>5. QED
      BY <3>1, <3>4
  <2>4. SerialWalk(w)' /\ SerialTitle(w)'
    BY <1>1, <1>2, <1>3, <2>1, <2>2, <2>3 DEF SerialWalk, SerialTitle, To, Page
  <2>5. QED
    BY <1>1, <1>2, <2>4, SerialRead
<1>6. QED
  BY <1>4, <1>5

LEMMA SerialTarget ==
    ASSUME NamesInv, SerialInv, NEW w \in Writers, Alone(w), CheckTarget(w)
    PROVE  SerialInv'
<1> DEFINE x == [mover[w] EXCEPT !.phase = IF To(w).kind = "interwiki" THEN "upsert" ELSE "walk",
                                  !.at = To(w).to, !.seen = {Page(w)}]
<1>1. /\ UNCHANGED nameTables /\ UNCHANGED deleted
      /\ mover' = [mover EXCEPT ![w] = x]
      /\ To(w).kind \in {"page", "section"} => To(w).to \notin {Page(w)} \cup deleted
  BY DEF CheckTarget, nameTables
<1>2. /\ x.phase = (IF To(w).kind = "interwiki" THEN "upsert" ELSE "walk")
      /\ x.to = To(w) /\ x.page = Page(w) /\ x.at = To(w).to /\ x.seen = {Page(w)}
  BY Fields DEF NamesInv, TransactionType, To, Page
<1> HIDE DEF x
<1>3. mover'[w] = x /\ \A v \in Writers \ {w} : mover'[v] = mover[v]
  BY <1>1 DEF NamesInv, RowTypes
<1>4. SerialWalk(w)' /\ SerialTitle(w)'
  BY <1>1, <1>2, <1>3 DEF SerialWalk, SerialTitle, Past, Beyond, To, Page
<1>5. QED
  BY <1>1, <1>3, <1>4, SerialRead

LEMMA SerialWalkOn ==
    ASSUME NamesInv, SerialInv, NEW w \in Writers, Alone(w), WalkTitle(w) \/ WalkPage(w)
    PROVE  SerialInv'
<1> DEFINE at == mover[w].at
<1>1. /\ mover[w] \in TransactionType /\ mover \in [Writers -> TransactionType]
      /\ UNCHANGED nameTables /\ UNCHANGED <<title, deleted, alias, redirect>>
      /\ Course(w) /\ SerialWalk(w) /\ mover[w].phase = "walk"
      /\ redirect \in [Pages -> Targets]
  BY Fields DEF NamesInv, RowTypes, NamesTypeOK, SerialInv, WalkTitle, WalkPage,
     nameTables, At
<1>2. /\ mover'[w].to = To(w) /\ mover'[w].page = Page(w)
      /\ \A v \in Writers \ {w} : mover'[v] = mover[v]
  BY Onward
<1>3. To(w).kind \in {"page", "section"} => To(w).to \notin deleted
  BY <1>1 DEF SerialWalk
<1>4. ASSUME mover'[w].phase \in {"walk", "upsert"},
             To(w).kind = "page" /\ mover'[w].phase = "walk" =>
                /\ Page(w) \in mover'[w].seen
                /\ To(w).to \in (mover'[w].seen \ {Page(w)}) \cup {mover'[w].at}
                /\ \A p \in mover'[w].seen \ {Page(w)} :
                      Leads(p, (mover'[w].seen \ {Page(w)}) \cup {mover'[w].at}),
             To(w).kind = "page" /\ mover'[w].phase = "upsert" =>
                \E s : /\ s = (mover'[w].seen \ {Page(w)}) \cup ({mover'[w].at} \cap Pages)
                       /\ Page(w) \notin s /\ To(w).to \in s
                       /\ \A p \in s : Leads(p, s)
      PROVE  SerialInv'
  <2>1. SerialWalk(w)'
    BY <1>1, <1>2, <1>3, <1>4 DEF SerialWalk, Leads, To, Page, Past, Beyond
  <2>2. SerialTitle(w)'
    BY <1>4 DEF SerialTitle
  <2>3. QED
    BY <1>1, <1>2, <2>1, <2>2, SerialRead
<1>5. WalkEnds(w) => /\ mover'[w].phase = "upsert" /\ mover'[w].seen = mover[w].seen
                     /\ mover'[w].at = at
  BY <1>1 DEF WalkEnds, Moves, TransactionType
<1>6. ASSUME NEW next, WalksTo(w, next)
      PROVE  /\ mover'[w].phase = "walk" /\ mover'[w].at = next
             /\ mover'[w].seen = mover[w].seen \cup ({at} \cap Pages)
  BY <1>1, <1>6 DEF WalksTo, TransactionType
<1>7. (\E next : WalksTo(w, next)) \/ WalkEnds(w)
  BY DEF WalkTitle, WalkPage
<1>8. CASE To(w).kind # "page"
  BY <1>4, <1>5, <1>6, <1>7, <1>8
<1>9. CASE To(w).kind = "page"
  <2> DEFINE q == To(w).to  past == mover[w].seen \ {Page(w)}
  <2>1. /\ q \in Pages /\ Page(w) \in Pages /\ Page(w) \in mover[w].seen
        /\ mover[w].seen \subseteq Pages
        /\ q \in past \cup {at} /\ \A p \in past : Leads(p, past \cup {at})
    <3>1. mover[w].op = "redirect" /\ To(w) \in Targets
      BY <1>1, Fields DEF Course, At, NamesInv
    <3>2. q \in Pages /\ Page(w) \in Pages
      BY <1>1, <1>9, <3>1 DEF Course, At, Targets, None
    <3>3. mover[w].seen \subseteq Pages
      BY Fields DEF NamesInv
    <3>4. QED
      BY <1>1, <1>9, <3>2, <3>3 DEF SerialWalk, Past
  <2>2. \A p \in Pages : redirect[p].kind = "page" => redirect[p].to \in Pages
    BY <1>1 DEF Targets, None
  <2> HIDE DEF q, at
  <2>3. CASE WalkTitle(w)
    <3>1. at \in Titles /\ at \notin Pages
      BY <2>3, Sorts DEF WalkTitle, at
    <3>2. q \in past /\ \A p \in past : Leads(p, past)
      BY <2>1, <2>2, <3>1 DEF Leads
    <3>3. past \cup ({at} \cap Pages) = past /\ mover[w].seen \cup ({at} \cap Pages) = mover[w].seen
      BY <3>1
    <3>4. CASE WalkEnds(w)
      BY <1>4, <1>5, <2>1, <3>2, <3>3, <3>4 DEF q
    <3>5. ASSUME NEW next, WalksTo(w, next) PROVE SerialInv'
      <4>1. \A p \in past : Leads(p, past \cup {next})
        BY <3>2 DEF Leads
      <4>2. QED
        BY <1>4, <1>6, <2>1, <3>2, <3>3, <3>5, <4>1 DEF q
    <3>6. QED
      BY <2>3, <3>4, <3>5 DEF WalkTitle
  <2>4. CASE WalkPage(w)
    <3>1. at \in Pages /\ at \notin mover[w].seen /\ ~AtSectionTarget(w)
      BY <1>9, <2>4 DEF WalkPage, NotSeen, AtSectionTarget, at
    <3>2. /\ past \cup ({at} \cap Pages) = past \cup {at}
          /\ mover[w].seen \cup ({at} \cap Pages) = mover[w].seen \cup {at}
          /\ (mover[w].seen \cup {at}) \ {Page(w)} = past \cup {at}
      BY <2>1, <3>1
    <3>3. CASE redirect[at].kind \notin {"page", "unresolved"}
      <4>1. WalkEnds(w)
        BY <2>4, <3>3 DEF WalkPage, at
      <4>2. \A p \in past \cup {at} : Leads(p, past \cup {at})
        BY <2>1, <3>3 DEF Leads
      <4>3. Page(w) \notin past \cup {at}
        BY <2>1, <3>1
      <4>4. QED
        BY <1>4, <1>5, <2>1, <3>2, <4>1, <4>2, <4>3 DEF q
    <3>4. CASE redirect[at].kind \in {"page", "unresolved"}
      <4> DEFINE next == redirect[at].to
      <4>1. WalksTo(w, next)
        BY <2>4, <3>1, <3>4 DEF WalkPage, at
      <4>2. \A p \in past \cup {at} : Leads(p, past \cup {at} \cup {next})
        BY <2>1 DEF Leads
      <4> HIDE DEF next
      <4>3. /\ mover'[w].phase = "walk" /\ mover'[w].at = next
            /\ mover'[w].seen = mover[w].seen \cup {at}
        BY <1>6, <3>2, <4>1
      <4>4. QED
        BY <1>4, <2>1, <3>2, <4>2, <4>3 DEF q
    <3>5. QED
      BY <3>3, <3>4
  <2>5. QED
    BY <2>3, <2>4
<1>10. QED
  BY <1>8, <1>9

(* What a transaction commits.                                              *)
LEMMA SerialEntitle ==
    ASSUME NamesInv, SerialInv, NEW w \in Writers, Alone(w), Entitle(w)
    PROVE  SerialInv'
<1>1. /\ mover[w].phase = "entitle" /\ Titled(To(w)) = {}
      /\ title' = [title EXCEPT ![Page(w)] = To(w)]
      /\ alias' = (alias \ mover[w].drop) \cup Former(w)
      /\ EndTransaction(w) /\ UNCHANGED <<deleted, redirect>>
  BY DEF Entitle, At
<1>2. /\ Course(w) /\ KeptApart /\ TitleNamesOnePage
      /\ title \in [Pages -> Titles \cup {NoTitle}]
      /\ alias \subseteq Aliases /\ touched \subseteq Existing /\ deleted \subseteq Existing
      /\ \A a \in alias : a.title = To(w) => a.page = Page(w)
  BY <1>1 DEF NamesInv, RowTypes, NamesTypeOK, SerialInv, SerialTitle
<1>3. /\ mover[w].op \in {"create", "rename"} /\ To(w) \in Titles /\ Page(w) \in Pages
  BY <1>1, <1>2, Fields DEF Course, At, NamesInv
<1>4. /\ title'[Page(w)] = To(w) /\ \A p \in Pages \ {Page(w)} : title'[p] = title[p]
  BY <1>1, <1>2, <1>3
<1>5. /\ mover[w].op = "create" => title[Page(w)] = NoTitle
      /\ mover[w].op = "rename" => /\ title[Page(w)] \in Titles /\ Page(w) \in Live
                                   /\ title[Page(w)] # To(w)
  BY <1>1, <1>2, <1>3 DEF Course, Existing, KeptApart, Unlocked, Live, NamesInv,
     Checked
<1>6. \A p \in Live' : p \in Live \/ p = Page(w)
  BY <1>1, <1>4 DEF Live, Existing
<1>7. \A a \in alias' : a \in alias \/ (a \in Former(w))
  BY <1>1
<1>8. \A a \in Former(w) : /\ mover[w].op = "rename"
                           /\ a.page = Page(w) /\ a.title = title[Page(w)]
  BY DEF Former
<1>9. \A p \in Live : p \in Pages
  BY DEF Live, Existing
<1>10. ASSUME NEW t \in Titles, t = To(w), NEW p \in Candidates(t)' PROVE p = Page(w)
  <2>1. p \in Live' /\ (title'[p] = To(w) \/ [title |-> To(w), page |-> p] \in alias')
    BY <1>10 DEF Candidates, Titled
  <2>2. CASE title'[p] = To(w)
    <3>1. p \in Live => p \in Titled(To(w)) \/ p = Page(w)
      BY <1>4, <1>9, <2>2 DEF Titled
    <3>2. QED
      BY <1>1, <1>6, <2>1, <3>1
  <2>3. CASE [title |-> To(w), page |-> p] \in alias'
    BY <1>2, <1>5, <1>7, <1>8, <2>3
  <2>4. QED
    BY <2>1, <2>2, <2>3
<1>11. ASSUME NEW t \in Titles, t # To(w), NEW p \in Candidates(t)' PROVE p \in Candidates(t)
  <2>1. p \in Live' /\ (title'[p] = t \/ [title |-> t, page |-> p] \in alias')
    BY <1>11 DEF Candidates, Titled
  <2>2. CASE title'[p] = t
    <3>1. p # Page(w)
      BY <1>4, <1>11, <2>2
    <3>2. p \in Live /\ title[p] = t
      BY <1>4, <1>6, <1>9, <2>1, <2>2, <3>1
    <3>3. QED
      BY <3>2 DEF Candidates, Titled
  <2>3. CASE [title |-> t, page |-> p] \in alias
    <3>1. p \in touched /\ p \notin deleted
      BY <1>2, <2>3 DEF KeptApart
    <3>2. p \in Live
      BY <1>2, <3>1 DEF Live
    <3>3. QED
      BY <2>3, <3>2 DEF Candidates
  <2>4. CASE [title |-> t, page |-> p] \in Former(w)
    <3>1. p \in Live /\ title[p] = t
      BY <1>5, <1>8, <2>4
    <3>2. QED
      BY <3>1 DEF Candidates, Titled
  <2>5. QED
    BY <1>7, <2>1, <2>2, <2>3, <2>4
<1>12. TitleNamesOnePage'
  BY <1>2, <1>10, <1>11 DEF TitleNamesOnePage
<1>13. PageRedirectsAcyclic' /\ RedirectTargetsLive'
  BY <1>1 DEF SerialInv, PageRedirectsAcyclic, RedirectTargetsLive,
     RedirectsTo
<1>14. QED
  BY <1>1, <1>12, <1>13, SerialEnd

(* A ring that a redirect closes runs through the pages its walk has        *)
(* passed, and so was closed before.                                        *)
LEMMA SerialRedirect ==
    ASSUME NamesInv, SerialInv, NEW w \in Writers, Alone(w), Upsert(w) \/ Unredirect(w)
    PROVE  SerialInv'
<1> DEFINE s == Page(w)  to == redirect'[s]
<1>1. /\ EndTransaction(w) /\ UNCHANGED <<title, deleted, alias>>
      /\ Course(w) /\ mover[w].phase \in {"upsert", "unredirect"}
      /\ redirect \in [Pages -> Targets] /\ SerialWalk(w)
  BY DEF Upsert, Unredirect, NamesInv, RowTypes, NamesTypeOK, SerialInv, At
<1>2. /\ s \in Pages /\ \A p \in Pages \ {s} : redirect'[p] = redirect[p]
      /\ to.kind \in {"page", "section"} => mover[w].phase = "upsert" /\ to = To(w)
  BY <1>1 DEF Upsert, Unredirect, Course, None, At
<1> HIDE DEF to
<1>3. TitleNamesOnePage'
  <2>1. \A t : Candidates(t)' = Candidates(t)
    BY <1>1 DEF Candidates, Titled, Live, Existing
  <2>2. QED
    BY <2>1 DEF SerialInv, TitleNamesOnePage
<1>4. RedirectTargetsLive'
  <2> SUFFICES ASSUME NEW p \in deleted, NEW q \in Pages,
                      redirect'[q].kind \in {"page", "section"}, redirect'[q].to = p
               PROVE  FALSE
    BY <1>1 DEF RedirectTargetsLive, RedirectsTo
  <2>1. CASE q = s
    BY <1>1, <1>2, <2>1 DEF SerialWalk, to
  <2>2. CASE q # s
    BY <1>2, <2>2 DEF SerialInv, RedirectTargetsLive, RedirectsTo
  <2>3. QED
    BY <2>1, <2>2
<1>5. PageRedirectsAcyclic'
  <2> SUFFICES ASSUME NEW ring \in (SUBSET Pages) \ {{}},
                      \A p \in ring : redirect'[p].kind = "page" /\ redirect'[p].to \in ring
               PROVE  FALSE
    BY DEF PageRedirectsAcyclic
  <2>1. ring \subseteq Pages /\ ring # {}
    OBVIOUS
  <2>2. ASSUME NEW r, r \subseteq ring, r # {}, s \notin r,
               \A p \in r : redirect[p].to \in ring => redirect[p].to \in r
        PROVE  FALSE
    <3>1. \A p \in r : redirect[p].kind = "page" /\ redirect[p].to \in r
      BY <1>2, <2>1, <2>2
    <3>2. r \in (SUBSET Pages) \ {{}}
      BY <2>1, <2>2
    <3>3. QED
      BY <3>1, <3>2 DEF SerialInv, PageRedirectsAcyclic
  <2>3. CASE s \notin ring
    BY <2>1, <2>2, <2>3
  <2>4. CASE s \in ring
    <3> DEFINE r == ring \cap Beyond(w)
    <3>1. to.kind = "page" /\ to.to \in ring
      BY <2>4 DEF to
    <3>2. /\ s \notin Beyond(w) /\ to.to \in Beyond(w)
          /\ \A p \in Beyond(w) : Leads(p, Beyond(w))
      BY <1>1, <1>2, <3>1 DEF SerialWalk
    <3>3. r # {} /\ s \notin r /\ r \subseteq ring
      BY <3>1, <3>2
    <3>4. \A p \in r : redirect[p].to \in ring => redirect[p].to \in r
      <4> SUFFICES ASSUME NEW p \in r PROVE redirect[p].to \in Beyond(w)
        OBVIOUS
      <4>1. redirect[p].kind = "page"
        BY <1>2, <2>1, <3>2
      <4>2. QED
        BY <3>2, <4>1 DEF Leads
    <3> HIDE DEF r
    <3>5. QED
      BY <2>2, <3>3, <3>4
  <2>5. QED
    BY <2>3, <2>4
<1>6. QED
  BY <1>1, <1>3, <1>4, <1>5, SerialEnd

LEMMA SerialErase ==
    ASSUME NamesInv, SerialInv, NEW w \in Writers, Alone(w), Erase(w)
    PROVE  SerialInv'
<1>1. /\ deleted' = deleted \cup {Page(w)} /\ RedirectsTo(Page(w)) = {}
      /\ EndTransaction(w) /\ UNCHANGED <<title, alias, redirect>>
  BY DEF Erase, Untouched
<1>2. \A t : Candidates(t)' \subseteq Candidates(t)
  BY <1>1 DEF Candidates, Titled, Live, Existing
<1>3. TitleNamesOnePage'
  BY <1>2 DEF SerialInv, TitleNamesOnePage
<1>4. PageRedirectsAcyclic' /\ RedirectTargetsLive'
  BY <1>1 DEF SerialInv, PageRedirectsAcyclic, RedirectTargetsLive,
     RedirectsTo
<1>5. QED
  BY <1>1, <1>3, <1>4, SerialEnd

LEMMA SerialSame ==
    ASSUME NamesInv, SerialInv, NEW w \in Writers, Alone(w), Relabel(w) \/ Abort(w)
    PROVE  SerialInv'
<1>1. EndTransaction(w) /\ UNCHANGED <<title, deleted, alias, redirect>>
  BY DEF Relabel, Abort, nameTables
<1>2. \A t : Candidates(t)' = Candidates(t)
  BY <1>1 DEF Candidates, Titled, Live, Existing
<1>3. TitleNamesOnePage'
  BY <1>2 DEF SerialInv, TitleNamesOnePage
<1>4. PageRedirectsAcyclic' /\ RedirectTargetsLive'
  BY <1>1 DEF SerialInv, PageRedirectsAcyclic, RedirectTargetsLive,
     RedirectsTo
<1>5. QED
  BY <1>1, <1>3, <1>4, SerialEnd

LEMMA SerialStep ==
    ASSUME NamesInv, SerialInv, SerialNext
    PROVE  SerialInv'
<1>1. PICK w \in Writers : Alone(w) /\ (Request(w) \/ Execute(w))
  BY DEF SerialNext
<1>2. CASE Request(w)
  BY <1>1, <1>2, SerialRequest
<1>3. CASE Execute(w)
  BY <1>1, <1>3, SerialLock, SerialCheckTitle, SerialTarget, SerialWalkOn, SerialEntitle,
     SerialRedirect, SerialErase, SerialSame DEF Execute
<1>4. QED
  BY <1>1, <1>2, <1>3

LEMMA SerialStutter == ASSUME SerialInv, UNCHANGED namesVars PROVE SerialInv'
<1>1. UNCHANGED <<title, deleted, alias, redirect, mover>>
  BY DEF namesVars
<1>2. \A t : Candidates(t)' = Candidates(t) /\ Titled(t)' = Titled(t)
  BY <1>1 DEF Candidates, Titled, Live, Existing
<1>3. TitleNamesOnePage'
  BY <1>2 DEF SerialInv, TitleNamesOnePage
<1>4. PageRedirectsAcyclic' /\ RedirectTargetsLive'
  BY <1>1 DEF SerialInv, PageRedirectsAcyclic, RedirectTargetsLive,
     RedirectsTo
<1>5. \A w \in Writers : SerialWalk(w)' /\ SerialTitle(w)'
  BY <1>1, <1>2 DEF SerialInv, SerialWalk, SerialTitle, Leads, Past, Beyond, Page,
     To
<1>6. QED
  BY <1>1, <1>3, <1>4, <1>5 DEF SerialInv, At


LEMMA NamesAlways == ASSUME KindsApart PROVE NamesSpec => []NamesInv
<1>1. NamesInit => NamesInv
  BY NamesInvInit
<1>2. NamesInv /\ [NamesNext]_namesVars => NamesInv'
  BY NamesInvNext
<1>3. QED
  BY <1>1, <1>2, PTL DEF NamesSpec

LEMMA SerialAlways == ASSUME KindsApart PROVE SerialSpec => [](NamesInv /\ SerialInv)
<1>1. NamesInit => NamesInv /\ SerialInv
  BY NamesInvInit, SerialInit
<1>2. (NamesInv /\ SerialInv) /\ [SerialNext]_namesVars => (NamesInv /\ SerialInv)'
  <2> SUFFICES ASSUME NamesInv, SerialInv, [SerialNext]_namesVars PROVE NamesInv' /\ SerialInv'
    OBVIOUS
  <2>1. [NamesNext]_namesVars
    BY DEF SerialNext, NamesNext
  <2>2. QED
    BY <2>1, NamesInvNext, SerialStep, SerialStutter
<1>3. QED
  BY <1>1, <1>2, PTL DEF SerialSpec

(* Every table and every transaction holds rows of its shape, and only a    *)
(* transaction past its lock statement holds its page's row, whatever       *)
(* creations, renames, redirects and rollbacks run at once (service.go).    *)
THEOREM NamesTypeCorrect == ASSUME KindsApart PROVE NamesSpec => []NamesTypeOK
<1>1. NamesInv => NamesTypeOK
  BY DEF NamesInv, RowTypes
<1>2. QED
  BY <1>1, NamesAlways, PTL

(* A deleted page redirects nowhere: no redirect checked before a page's    *)
(* deletion, and no rollback that restores one, arrives after it            *)
(* (RollbackCreateInTx, RollbackRedirectInTx).                              *)
THEOREM DeletedPagesPointNowhere == ASSUME KindsApart PROVE NamesSpec => []DeletedPointsNowhere
<1>1. NamesInv => DeletedPointsNowhere
  BY DEF NamesInv
<1>2. QED
  BY <1>1, NamesAlways, PTL

(* However often a page is renamed back and forth, its present title is     *)
(* never among its aliases (RenamePageInTx deletes the alias it reclaims).  *)
THEOREM NoPageIsItsOwnAlias == ASSUME KindsApart PROVE NamesSpec => []NoSelfAlias
<1>1. NamesInv => NoSelfAlias
  BY DEF NamesInv
<1>2. QED
  BY <1>1, NamesAlways, PTL

(* Without section redirects two pages never redirect to each other, in     *)
(* whatever order concurrent redirects check and write: the foreign key's   *)
(* lock on a new target waits for the target's own redirect                 *)
(* (CreateRedirectInTx).                                                    *)
THEOREM NoTwoPagesRedirectToEachOther ==
    ASSUME KindsApart, "section" \notin TargetKinds
    PROVE  NamesSpec => []NoMutualRedirect
<1>1. NamesInit => NamesInv /\ MutualInv
  BY NamesInvInit, MutualInit
<1>2. (NamesInv /\ MutualInv) /\ [NamesNext]_namesVars => (NamesInv /\ MutualInv)'
  BY NamesInvNext, MutualNext
<1>3. MutualInv => NoMutualRedirect
  BY DEF MutualInv
<1>4. QED
  BY <1>1, <1>2, <1>3, PTL DEF NamesSpec


(* The run's behaviours, of which a part is serial.                         *)
LEMMA ScopedAlways ==
    ASSUME KindsApart PROVE ScopedSpec => [](NamesInv /\ (scope = "serial" => SerialInv))
<1>1. ScopedInit => NamesInv /\ SerialInv
  BY NamesInvInit, SerialInit DEF ScopedInit
<1>2. (NamesInv /\ (scope = "serial" => SerialInv)) /\ [ScopedNext]_<<namesVars, scope>>
         => (NamesInv /\ (scope = "serial" => SerialInv))'
  <2> SUFFICES ASSUME NamesInv, scope = "serial" => SerialInv, [ScopedNext]_<<namesVars, scope>>
               PROVE  NamesInv' /\ (scope' = "serial" => SerialInv')
    OBVIOUS
  <2>1. UNCHANGED scope /\ [NamesNext]_namesVars
    BY DEF ScopedNext, SerialNext, NamesNext
  <2>2. NamesInv'
    BY <2>1, NamesInvNext
  <2>3. scope = "serial" => SerialInv'
    <3> HAVE scope = "serial"
    <3>1. CASE UNCHANGED namesVars
      BY <3>1, SerialStutter
    <3>2. CASE SerialNext
      BY <3>2, SerialStep
    <3>3. QED
      BY <3>1, <3>2 DEF ScopedNext
  <2>4. QED
    BY <2>1, <2>2, <2>3
<1>3. QED
  BY <1>1, <1>2, PTL DEF ScopedSpec

(* One transaction at a time, following page redirects never leads back:    *)
(* the walk of validateRedirectChain finds every ring that a redirect would *)
(* close, of any length.                                                    *)
THEOREM SerialRedirectsNeverRing ==
    ASSUME KindsApart
    PROVE  /\ SerialSpec => []PageRedirectsAcyclic
           /\ ScopedSpec => []SerialPageRedirectsAcyclic
<1>1. NamesInv /\ SerialInv => PageRedirectsAcyclic
  BY DEF SerialInv
<1>2. SerialSpec => []PageRedirectsAcyclic
  BY <1>1, SerialAlways, PTL
<1>3. NamesInv /\ (scope = "serial" => SerialInv) => SerialPageRedirectsAcyclic
  BY <1>1 DEF SerialPageRedirectsAcyclic
<1>4. ScopedSpec => []SerialPageRedirectsAcyclic
  BY <1>3, ScopedAlways, PTL
<1>5. QED
  BY <1>2, <1>4

(* One transaction at a time, a redirect never names a deleted page: the    *)
(* target is checked before the write, and RollbackCreateInTx does not      *)
(* delete a redirect's target.                                              *)
THEOREM SerialTargetsStayLive ==
    ASSUME KindsApart
    PROVE  /\ SerialSpec => []RedirectTargetsLive
           /\ ScopedSpec => []SerialRedirectTargetsLive
<1>1. NamesInv /\ SerialInv => RedirectTargetsLive
  BY DEF SerialInv
<1>2. SerialSpec => []RedirectTargetsLive
  BY <1>1, SerialAlways, PTL
<1>3. NamesInv /\ (scope = "serial" => SerialInv) => SerialRedirectTargetsLive
  BY <1>1 DEF SerialRedirectTargetsLive
<1>4. ScopedSpec => []SerialRedirectTargetsLive
  BY <1>3, ScopedAlways, PTL
<1>5. QED
  BY <1>2, <1>4

(* One transaction at a time, a title leads to at most one live page, by    *)
(* its own title or by an alias: ensureTitleAvailable looks at both         *)
(* (CreatePageInTx, RenamePageInTx).                                        *)
THEOREM SerialTitlesNameOnePage ==
    ASSUME KindsApart
    PROVE  /\ SerialSpec => []TitleNamesOnePage
           /\ ScopedSpec => []SerialTitleNamesOnePage
<1>1. NamesInv /\ SerialInv => TitleNamesOnePage
  BY DEF SerialInv
<1>2. SerialSpec => []TitleNamesOnePage
  BY <1>1, SerialAlways, PTL
<1>3. NamesInv /\ (scope = "serial" => SerialInv) => SerialTitleNamesOnePage
  BY <1>1 DEF SerialTitleNamesOnePage
<1>4. ScopedSpec => []SerialTitleNamesOnePage
  BY <1>3, ScopedAlways, PTL
<1>5. QED
  BY <1>2, <1>4
=============================================================================
