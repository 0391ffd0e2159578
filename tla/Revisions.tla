------------------------------ MODULE Revisions ------------------------------
(***************************************************************************)
(* Publishing, rolling back and archiving page revisions                   *)
(* (backend/internal/page/publish.go, history.go, snapshot_storage.go and  *)
(* the triggers of backend/migrations/000001_initial_schema.up.sql).       *)
(*                                                                         *)
(* Writers publish or roll back in one READ COMMITTED transaction each:    *)
(* lock the page row, check the baseline, pick or make a content snapshot, *)
(* write the revision and move page.current_revision_id.  Archivers move   *)
(* cold snapshots to object storage with an upload outside and a row lock  *)
(* inside a transaction.  Statements of different transactions interleave; *)
(* a transaction's writes are applied when it commits.                     *)
(***************************************************************************)
EXTENDS PageRows, Integers, FiniteSets

CONSTANTS
    Contents,              \* a content stands for a canonical AST and its hash
    Archivers,
    MaxRevisions,          \* model bound: revisions ever written
    MaxCrashes             \* model bound: transactions cut off

ASSUME RevisionsAssumption ==
    /\ Pages # {} /\ Contents # {}
    /\ MaxRevisions \in Nat
    /\ MaxCrashes \in Nat
    /\ NoOne \notin Writers

Id == 1 .. MaxRevisions       \* revision ids, and snapshot ids, by commit order
IdOrNull == 0 .. MaxRevisions

VARIABLES
    current,    \* page.current_revision_id, 0 for NULL
    nrev, rev,  \* revision rows 1..nrev: [page, parent, snap, kind, from]
    nsnap, snapshot,  \* content_snapshot rows 1..nsnap: [content, tier]
    objects,    \* contents present in object storage
    pageLock,   \* the writer holding FOR UPDATE on each page row
    writer,     \* [Writers -> [phase, page, kind, from, content, snap]]
    archiver,   \* [Archivers -> [phase, snap]]
    crashes

vars == <<current, deleted, nrev, rev, nsnap, snapshot, objects, pageLock,
          writer, archiver, crashes>>

tables == <<current, deleted, nrev, rev, nsnap, snapshot>>

Committed == 1 .. nrev
Stored == 1 .. nsnap

SomePage == CHOOSE p \in Pages : TRUE
SomeContent == CHOOSE c \in Contents : TRUE
NoRevision == [page |-> SomePage, parent |-> 0, snap |-> 0, kind |-> "publish", from |-> 0]
NoSnapshot == [content |-> SomeContent, tier |-> "hot"]
IdleWriter ==
    [phase |-> "idle", page |-> SomePage, kind |-> "publish", from |-> 0,
     content |-> SomeContent, snap |-> 0]
IdleArchiver == [phase |-> "idle", snap |-> 0]

Init ==
    /\ current = [p \in Pages |-> 0]
    /\ deleted = {}
    /\ nrev = 0 /\ rev = [i \in Id |-> NoRevision]
    /\ nsnap = 0 /\ snapshot = [s \in Id |-> NoSnapshot]
    /\ objects = {}
    /\ pageLock = [p \in Pages |-> NoOne]
    /\ writer = [w \in Writers |-> IdleWriter]
    /\ archiver = [a \in Archivers |-> IdleArchiver]
    /\ crashes = 0

-----------------------------------------------------------------------------
(* What a statement of another transaction can see.                        *)

Hot(s) == snapshot[s].tier = "hot"

(* page p JOIN revision r ON r.id = p.current_revision_id                  *)
IsCurrentOfDeleted(s) ==                          \* mutation
    \E p \in deleted : current[p] # 0 /\ rev[current[p]].snap = s

IsCurrent(s) == \E p \in Pages : current[p] # 0 /\ rev[current[p]].snap = s

IsReferenced(s) == \E i \in Committed : rev[i].snap = s

(* A writer that found an existing snapshot keeps it locked FOR SHARE.     *)
Shares(w, s) == writer[w].phase \in {"picked", "written"} /\ writer[w].snap = s

Exclusive(a, s) == archiver[a].phase \in {"locked", "eligible"} /\ archiver[a].snap = s

Shared(s) == \E w \in Writers : Shares(w, s)
Excluded(s) == \E a \in Archivers : Exclusive(a, s)

(* hydrateSnapshot: hot content is in the row, cold content in the store.  *)
Readable(s) == Hot(s) \/ snapshot[s].content \in objects

-----------------------------------------------------------------------------
(* Writers.                                                                *)

Busy == {w \in Writers : writer[w].phase # "idle"}
RoomForRevision == nrev + Cardinality(Busy) < MaxRevisions

(* An author opens a page, edits, and submits with the revision read then  *)
(* as expected_revision_id.                                                *)
RequestPublish(w, p, c) ==
    /\ writer[w].phase = "idle" /\ RoomForRevision
    /\ writer' = [writer EXCEPT ![w] =
                    [phase |-> "waiting", page |-> p, kind |-> "publish",
                     from |-> current[p], content |-> c, snap |-> 0]]
    /\ UNCHANGED <<tables, objects, pageLock, archiver, crashes>>

(* Rollback first reads the target revision's content, hot or cold.        *)
RequestRollback(w, i) ==
    /\ writer[w].phase = "idle" /\ RoomForRevision
    /\ Readable(rev[i].snap)
    /\ writer' = [writer EXCEPT ![w] =
                    [phase |-> "waiting", page |-> rev[i].page, kind |-> "rollback",
                     from |-> i, content |-> snapshot[rev[i].snap].content, snap |-> 0]]
    /\ UNCHANGED <<tables, objects, pageLock, archiver, crashes>>

ExpectedAlwaysMatches(w) == TRUE                  \* mutation

(* A rollback's baseline is whatever is current under the lock.            *)
ExpectedMatchesCurrent(w) ==
    writer[w].kind = "rollback" \/ writer[w].from = current[writer[w].page]

(* GetPageByIDForUpdate, then ErrPageNotFound or ErrStaleRevision.         *)
LockPage(w) ==
    LET p == writer[w].page IN
    /\ writer[w].phase = "waiting" /\ pageLock[p] = NoOne
    /\ IF p \notin deleted /\ ExpectedMatchesCurrent(w)
       THEN /\ pageLock' = [pageLock EXCEPT ![p] = w]
            /\ writer' = [writer EXCEPT ![w].phase = "locked"]
       ELSE /\ writer' = [writer EXCEPT ![w] = IdleWriter]
            /\ UNCHANGED pageLock
    /\ UNCHANGED <<tables, objects, archiver, crashes>>

HotCopies(c) == {s \in Stored : Hot(s) /\ snapshot[s].content = c}

(* GetSnapshotByHash ... FOR SHARE for a rollback: wait for an archiver    *)
(* that has the row, use it if it is still hot; otherwise a new snapshot   *)
(* (snap = 0), as every publish makes.                                     *)
PickSnapshot(w) ==
    LET copies == HotCopies(writer[w].content) IN
    /\ writer[w].phase = "locked"
    /\ IF writer[w].kind = "rollback" /\ copies # {}
       THEN \E s \in copies : /\ ~Excluded(s)
                              /\ writer' = [writer EXCEPT ![w].phase = "picked",
                                                          ![w].snap = s]
       ELSE writer' = [writer EXCEPT ![w].phase = "picked"]
    /\ UNCHANGED <<tables, objects, pageLock, archiver, crashes>>

Release(w) ==
    /\ pageLock' = [p \in Pages |-> IF pageLock[p] = w THEN NoOne ELSE pageLock[p]]
    /\ writer' = [writer EXCEPT ![w] = IdleWriter]

(* Trigger check_page_current_revision: a new current revision needs a hot *)
(* snapshot, or the transaction fails.                                     *)
AcceptsCurrent(w) == writer[w].snap = 0 \/ Hot(writer[w].snap)

WriteRevision(w) ==
    /\ writer[w].phase = "picked"
    /\ IF AcceptsCurrent(w)
       THEN writer' = [writer EXCEPT ![w].phase = "written"] /\ UNCHANGED pageLock
       ELSE Release(w)
    /\ UNCHANGED <<tables, objects, archiver, crashes>>

ParentSeen(w) == writer[w].from                   \* mutation

ParentOf(w) == current[writer[w].page]

NewRevision(w, s) ==
    [page |-> writer[w].page, parent |-> ParentOf(w), snap |-> s,
     kind |-> writer[w].kind, from |-> writer[w].from]

FreshSnapshotId(w) == nsnap + 1

(* Snapshot, revision, current pointer (and audit and outbox rows) become  *)
(* visible at once.                                                        *)
CommitRevision(w) ==
    LET fresh == writer[w].snap = 0
        s == IF fresh THEN FreshSnapshotId(w) ELSE writer[w].snap
    IN
    /\ writer[w].phase = "written" /\ nrev < MaxRevisions /\ s <= MaxRevisions
    /\ nsnap' = IF fresh THEN s ELSE nsnap
    /\ snapshot' = IF fresh
                   THEN [snapshot EXCEPT ![s] = [content |-> writer[w].content, tier |-> "hot"]]
                   ELSE snapshot
    /\ nrev' = nrev + 1
    /\ rev' = [rev EXCEPT ![nrev + 1] = NewRevision(w, s)]
    /\ current' = [current EXCEPT ![writer[w].page] = nrev + 1]
    /\ Release(w)
    /\ UNCHANGED <<deleted, objects, archiver, crashes>>

(* Connection or process lost: the transaction rolls back.                 *)
CrashWriter(w) ==
    /\ writer[w].phase # "idle" /\ crashes < MaxCrashes
    /\ crashes' = crashes + 1
    /\ Release(w)
    /\ UNCHANGED <<tables, objects, archiver>>

(* RollbackCreatedPageInTx: soft-delete a page that has no revision beyond *)
(* its creating batch's (at most one here).                                *)
SoftDelete(p) ==
    /\ p \notin deleted /\ pageLock[p] = NoOne
    /\ Cardinality({i \in Committed : rev[i].page = p}) <= 1
    /\ deleted' = deleted \cup {p}
    /\ UNCHANGED <<current, nrev, rev, nsnap, snapshot, objects, pageLock, writer,
                   archiver, crashes>>

-----------------------------------------------------------------------------
(* Archivers.                                                              *)

Archivable(s) == IsReferenced(s) /\ ~IsCurrent(s)

Goto(a, phase) == archiver' = [archiver EXCEPT ![a].phase = phase]

Rest(a) == archiver' = [archiver EXCEPT ![a] = IdleArchiver]

(* archiveRevisionSnapshots: the candidate query, without a lock.          *)
PickCandidate(a, s) ==
    /\ archiver[a].phase = "idle"
    /\ Hot(s) /\ Archivable(s)
    /\ archiver' = [archiver EXCEPT ![a] = [phase |-> "candidate", snap |-> s]]
    /\ UNCHANGED <<tables, objects, pageLock, writer, crashes>>

UploadLater(a) ==                                 \* mutation
    /\ archiver[a].phase = "candidate"
    /\ Goto(a, "uploaded")
    /\ UNCHANGED <<tables, objects, pageLock, writer, crashes>>

(* Read it again, then Head, Put and Head of the content-addressed object. *)
Upload(a) ==
    LET s == archiver[a].snap IN
    /\ archiver[a].phase = "candidate"
    /\ IF Hot(s)
       THEN objects' = objects \cup {snapshot[s].content} /\ Goto(a, "uploaded")
       ELSE Rest(a) /\ UNCHANGED objects
    /\ UNCHANGED <<tables, pageLock, writer, crashes>>

(* SELECT ... FOR UPDATE; a snapshot already cold is left alone.           *)
LockSnapshot(a) ==
    LET s == archiver[a].snap IN
    /\ archiver[a].phase = "uploaded"
    /\ ~Shared(s) /\ ~Excluded(s)
    /\ IF Hot(s) THEN Goto(a, "locked") ELSE Rest(a)
    /\ UNCHANGED <<tables, objects, pageLock, writer, crashes>>

(* The eligible query, under the lock and with a fresh view.               *)
CheckEligible(a) ==
    /\ archiver[a].phase = "locked"
    /\ IF Archivable(archiver[a].snap) THEN Goto(a, "eligible") ELSE Rest(a)
    /\ UNCHANGED <<tables, objects, pageLock, writer, crashes>>

(* UPDATE and COMMIT; trigger guard_content_snapshot_mutation refuses a    *)
(* current snapshot.                                                       *)
MakeCold(a) ==
    LET s == archiver[a].snap IN
    /\ archiver[a].phase = "eligible"
    /\ snapshot' = IF IsCurrent(s) THEN snapshot
                   ELSE [snapshot EXCEPT ![s].tier = "cold"]
    /\ Rest(a)
    /\ UNCHANGED <<current, deleted, nrev, rev, nsnap, objects, pageLock, writer, crashes>>

CrashArchiver(a) ==
    /\ archiver[a].phase # "idle" /\ crashes < MaxCrashes
    /\ crashes' = crashes + 1
    /\ Rest(a)
    /\ UNCHANGED <<tables, objects, pageLock, writer>>

-----------------------------------------------------------------------------
Next ==
    \/ \E w \in Writers :
         \/ \E p \in Pages, c \in Contents : RequestPublish(w, p, c)
         \/ \E i \in Committed : RequestRollback(w, i)
         \/ LockPage(w) \/ PickSnapshot(w) \/ WriteRevision(w) \/ CommitRevision(w)
         \/ CrashWriter(w)
    \/ \E a \in Archivers :
         \/ \E s \in Stored : PickCandidate(a, s)
         \/ Upload(a) \/ LockSnapshot(a) \/ CheckEligible(a) \/ MakeCold(a)
         \/ CrashArchiver(a)
    \/ \E p \in Pages : SoftDelete(p)

Spec == Init /\ [][Next]_vars

-----------------------------------------------------------------------------
(* What readers are given: a revision's content, from the row or the       *)
(* store, and a page's from the row alone, where the projections read it   *)
(* (projection/builder.go:140); nothing if it is not there.                *)

Reads(s) == IF Readable(s) THEN {snapshot[s].content} ELSE {}

Shows(p) ==
    IF current[p] # 0 /\ Hot(rev[current[p]].snap)
    THEN {snapshot[rev[current[p]].snap].content} ELSE {}

Entry(i) ==
    [page |-> rev[i].page, parent |-> rev[i].parent, kind |-> rev[i].kind,
     from |-> rev[i].from, reads |-> Reads(rev[i].snap)]

entries == [i \in Committed |-> Entry(i)]
display == [p \in Pages |-> Shows(p)]

History == INSTANCE PageHistory WITH
    length <- nrev, history <- entries, head <- current, shown <- display,
    gone <- deleted

(* Refinement: interleaved statements, shared snapshots, archiving and     *)
(* crashes implement one readable, append-only history per page, as if     *)
(* each publication and rollback were one step (publish.go, history.go,    *)
(* snapshot_storage.go).                                                   *)
ImplementsHistory == History!Spec

-----------------------------------------------------------------------------
(* Properties.                                                             *)

WriterType ==
    [phase : {"idle", "waiting", "locked", "picked", "written"}, page : Pages,
     kind : {"publish", "rollback"}, from : IdOrNull, content : Contents,
     snap : IdOrNull]

(* Types of the page, revision and content_snapshot rows and of the        *)
(* transactions working on them.                                           *)
TypeOK ==
    /\ current \in [Pages -> IdOrNull]
    /\ deleted \subseteq Pages
    /\ nrev \in IdOrNull /\ nsnap \in IdOrNull
    /\ rev \in [Id -> [page : Pages, parent : IdOrNull, snap : IdOrNull,
                       kind : {"publish", "rollback"}, from : IdOrNull]]
    /\ snapshot \in [Id -> [content : Contents, tier : {"hot", "cold"}]]
    /\ objects \subseteq Contents
    /\ pageLock \in [Pages -> Writers \cup {NoOne}]
    /\ writer \in [Writers -> WriterType]
    /\ archiver \in [Archivers ->
         [phase : {"idle", "candidate", "uploaded", "locked", "eligible"}, snap : IdOrNull]]
    /\ crashes \in 0 .. MaxCrashes

(* The current revision of a page is always readable without the object    *)
(* store, however rollbacks that reuse old snapshots race with archivers.  *)
CurrentIsHot ==
    \A p \in Pages : current[p] # 0 => Hot(rev[current[p]].snap)

(* "A DB row never points at an absent object": every revision ever        *)
(* published stays readable, even if an archiver dies between its upload   *)
(* and its UPDATE.                                                         *)
HistoryReadable == \A i \in Committed : Readable(rev[i].snap)

(* One line of history per page: each revision's parent is the revision    *)
(* before it on that page, and the last one is current.                    *)
OfPage(p) == {i \in Committed : rev[i].page = p}

LinearHistory ==
    /\ \A i \in Committed :
         LET before == {j \in OfPage(rev[i].page) : j < i}
         IN IF before = {} THEN rev[i].parent = 0
            ELSE rev[i].parent \in before /\ \A j \in before : j <= rev[i].parent
    /\ \A p \in Pages :
         IF OfPage(p) = {} THEN current[p] = 0
         ELSE current[p] \in OfPage(p) /\ \A j \in OfPage(p) : j <= current[p]

(* No lost update: a publish is recorded only on top of the very revision  *)
(* its author was looking at.                                              *)
NoLostUpdate ==
    \A i \in Committed : rev[i].kind = "publish" => rev[i].parent = rev[i].from

(* A rollback restores what its target said, on the target's own page,     *)
(* whichever snapshot row it came to share.                                *)
RollbackRestores ==
    \A i \in Committed : rev[i].kind = "rollback" =>
        /\ rev[rev[i].from].page = rev[i].page
        /\ snapshot[rev[i].snap].content = snapshot[rev[rev[i].from].snap].content

(* The snapshot a rollback found hot is still hot when it is made current: *)
(* the database trigger never has to fail a rollback because of archiving. *)
PickedStaysHot ==
    \A w \in Writers :
        writer[w].phase \in {"picked", "written"} => AcceptsCurrent(w)

(* Published history is immutable: revision rows and snapshot contents     *)
(* never change, and a cold snapshot never becomes hot again.              *)
HistoryImmutable ==
    [][/\ \A i \in Committed : rev'[i] = rev[i]
       /\ \A s \in Stored : /\ snapshot'[s].content = snapshot[s].content
                            /\ Hot(s)' => Hot(s)]_vars
=============================================================================
