----------------------------- MODULE Projection -----------------------------
(***************************************************************************)
(* The projections of one page (backend/internal/projection): worker       *)
(* processes turn page.revision_published and page.deleted events into     *)
(* derived rows, and an operator may rebuild them (worker -rebuild-page,   *)
(* -rebuild-all) at the same time.                                         *)
(*                                                                         *)
(* Three builders stand for the registered ones: "links" for those that    *)
(* delete and insert rows keyed by block (nine of them), "rendered" for    *)
(* the single-row upsert of rendered_page, "search" for the staged and     *)
(* remotely indexed search document.  Projected content is the revision it *)
(* was computed from.  Event delivery is the outbox's (module Outbox): an  *)
(* open event may be handed to any worker, again after a failure, and to   *)
(* two workers at once when a lease runs out.                              *)
(*                                                                         *)
(* The remote index (search/meilisearch.go) does not change when it is     *)
(* asked to: a request only enqueues a task, and the caller then waits for *)
(* the task.  A caller that gives up, on a timeout or because it dies,     *)
(* leaves its task behind, and releases the page's lock before it is done. *)
(***************************************************************************)
EXTENDS Integers, FiniteSets, Sequences

CONSTANTS
    Workers, Rebuilders,
    NoOne,            \* the holder of the page row lock when it is free
    MaxRevisions,     \* model bound: revisions published
    MaxFaults,        \* model bound: failing statements, crashes, dead letters
    MaxDuplicates,    \* model bound: deliveries of an event already taken
    MaxRebuilds,      \* model bound: operator rebuilds
    MayDelete,        \* whether the page may be deleted
    KeysChange        \* whether two revisions have no block, hence no row key, in common

ASSUME ProjectionAssumption ==
    /\ MaxRevisions \in Nat /\ MaxFaults \in Nat
    /\ MaxDuplicates \in Nat /\ MaxRebuilds \in Nat
    /\ MayDelete \in BOOLEAN /\ KeysChange \in BOOLEAN
    /\ NoOne \notin Workers \cup Rebuilders
    /\ Workers \cap Rebuilders = {}

Builders == {"links", "rendered", "search"}
FirstBuilder == "links"
After == [links |-> "rendered", rendered |-> "search", search |-> "none"]

Revision == 1 .. MaxRevisions
Deleted == 0                      \* the page.deleted event, beside one per revision
Event == Revision \cup {Deleted}
Procs == Workers \cup Rebuilders

VARIABLES
    current, deleted,   \* the page row; current = 0 before the first publish
    lock,               \* who holds the page row FOR UPDATE
    links,              \* revisions whose rows the "links" tables hold
    rendered, staged,   \* revision of rendered_page and search_document, 0 = no row
    remote,             \* revision in the remote search index, 0 = none
    tasks,              \* what the remote index has still to do, and for whom
    state,              \* projection_state: [Builders -> [status, source]]
    open, dead,         \* outbox events still to be handled; dead letters
    proc,               \* [Procs -> [at, event, b, got, seen]]
    faults, duplicates, rebuilds,
    missed,             \* some best-effort projection_state write failed
    rebuildFailed       \* some rebuild reported a failure

page == <<current, deleted>>
rows == <<links, rendered, staged, remote, tasks>>
queue == <<open, dead>>
counters == <<faults, duplicates, rebuilds, missed, rebuildFailed>>
vars == <<page, lock, rows, state, queue, proc, counters>>

Idle == [at |-> "idle", event |-> Deleted, b |-> FirstBuilder, got |-> 0, seen |-> {}]
Unknown == [status |-> "none", source |-> 0]
Ok(r) == [status |-> "ok", source |-> r]
Error(r) == [status |-> "error", source |-> r]

Init ==
    /\ current = 0 /\ deleted = FALSE
    /\ lock = NoOne
    /\ links = {} /\ rendered = 0 /\ staged = 0 /\ remote = 0 /\ tasks = <<>>
    /\ state = [b \in Builders |-> Unknown]
    /\ open = {} /\ dead = {}
    /\ proc = [p \in Procs |-> Idle]
    /\ faults = 0 /\ duplicates = 0 /\ rebuilds = 0
    /\ missed = FALSE /\ rebuildFailed = FALSE

At(p, place) == proc[p].at = place
Goto(p, place) == proc' = [proc EXCEPT ![p].at = place]
Reset(p) == proc' = [proc EXCEPT ![p] = Idle]

CurrentEvenDeleted == current # 0        \* mutation

CurrentOk == current # 0 /\ ~deleted     \* currentRevision's ok

-----------------------------------------------------------------------------
(* The remote index.  Its tasks are done in the order of their requests.   *)
(* One that fails is as if it had not been enqueued: its caller, if it is  *)
(* still there, reports a failure.                                         *)

Ask(p, doc) == tasks' = Append(tasks, [doc |-> doc, by |-> p])

Answered(p) == \A i \in 1 .. Len(tasks) : tasks[i].by # p

DoTask ==
    /\ tasks # <<>>
    /\ remote' = Head(tasks).doc
    /\ tasks' = Tail(tasks)
    /\ UNCHANGED <<page, lock, links, rendered, staged, state, queue, proc, counters>>

-----------------------------------------------------------------------------
(* The page domain, as seen from here: both transactions lock the page row *)
(* and write their outbox event.                                           *)

Publish ==
    /\ ~deleted /\ lock = NoOne /\ current < MaxRevisions
    /\ current' = current + 1
    /\ open' = open \cup {current + 1}
    /\ UNCHANGED <<deleted, lock, rows, state, dead, proc, counters>>

(* Only a page with no revision after its creating batch's is deleted.     *)
Delete ==
    /\ MayDelete /\ ~deleted /\ lock = NoOne /\ current <= 1
    /\ deleted' = TRUE
    /\ open' = open \cup {Deleted}
    /\ UNCHANGED <<current, lock, rows, state, dead, proc, counters>>

-----------------------------------------------------------------------------
(* Event delivery.                                                         *)

Taken(e) == \E w \in Workers : proc[w].at # "idle" /\ proc[w].event = e

Take(w, e) ==
    /\ At(w, "idle") /\ e \in open
    /\ IF Taken(e) THEN duplicates < MaxDuplicates /\ duplicates' = duplicates + 1
       ELSE UNCHANGED duplicates
    /\ proc' = [proc EXCEPT ![w] =
                  [Idle EXCEPT !.at = IF e = Deleted THEN "clear" ELSE "guard",
                               !.event = e]]
    /\ UNCHANGED <<page, lock, rows, state, queue, faults, rebuilds, missed, rebuildFailed>>

Close(e) == open' = open \ {e} /\ UNCHANGED dead

(* The handler returned an error: the event is retried or, its attempts    *)
(* spent, buried.                                                          *)
HandlerFailed(w) ==
    /\ Reset(w)
    /\ \/ UNCHANGED queue
       \/ /\ proc[w].event \in open
          /\ open' = open \ {proc[w].event}
          /\ dead' = dead \cup {proc[w].event}

CrashWorker(w) ==
    /\ ~At(w, "idle") /\ faults < MaxFaults
    /\ faults' = faults + 1
    /\ Reset(w)
    /\ lock' = IF lock = w THEN NoOne ELSE lock
    /\ UNCHANGED <<page, rows, state, queue, duplicates, rebuilds, missed, rebuildFailed>>

-----------------------------------------------------------------------------
(* Handling page.revision_published: each builder in turn, behind the      *)
(* version guard, then rendered_page once more.                            *)

(* From one builder to the next, or to the final rendering.                *)
NextBuilder(w) ==
    IF After[proc[w].b] = "none"
    THEN [proc[w] EXCEPT !.at = "again", !.b = "rendered"]
    ELSE [proc[w] EXCEPT !.at = "guard", !.b = After[proc[w].b]]

NeverStale(e) == FALSE                                \* mutation

IsStale(e) == ~(CurrentOk /\ current = e)

(* isStale before: skip the builder, or let it work.                       *)
GuardBefore(w) ==
    /\ At(w, "guard")
    /\ proc' = [proc EXCEPT ![w] =
                  IF IsStale(@.event) THEN NextBuilder(w)
                  ELSE [@ EXCEPT !.at = IF proc[w].b = "search" THEN "stage" ELSE "read"]]
    /\ UNCHANGED <<page, lock, rows, state, queue, counters>>

(* HandleRebuildEvent reads the current revision without a lock; "again"   *)
(* is the rendering after the resolver, which has no guard around it.      *)
Read(w) ==
    /\ At(w, "read") \/ At(w, "again")
    /\ IF CurrentOk
       THEN /\ proc' = [proc EXCEPT ![w] =
                  [@ EXCEPT !.got = current,
                            !.at = IF At(w, "again") THEN "rewrite"
                                   ELSE IF proc[w].b = "links" THEN "wipe" ELSE "write"]]
            /\ UNCHANGED <<state, queue>>
       ELSE IF At(w, "again") THEN HandlerFailed(w) /\ UNCHANGED state
       ELSE Goto(w, "error") /\ UNCHANGED <<state, queue>>
    /\ UNCHANGED <<page, lock, rows, counters>>

(* DELETE of the old rows: it works on the rows committed when it starts,  *)
(* and waits for a transaction that has deleted some of them.              *)
Wipe(p) ==
    /\ At(p, "wipe")
    /\ proc' = [proc EXCEPT ![p].seen = links, ![p].at = "wiping"]
    /\ UNCHANGED <<page, lock, rows, state, queue, counters>>

HoldsRows(q, S) == proc[q].at \in {"write", "commit"} /\ proc[q].seen \cap S # {}

Wiped(p) ==
    /\ At(p, "wiping")
    /\ ~\E q \in Procs \ {p} : HoldsRows(q, proc[p].seen \cap links)
    /\ Goto(p, IF p \in Workers THEN "write" ELSE "commit")
    /\ UNCHANGED <<page, lock, rows, state, queue, counters>>

(* Rows another transaction has inserted since the DELETE began collide    *)
(* with ours on the primary key when they belong to the same block.        *)
Collides(p) ==
    \E r \in links \ proc[p].seen : r = proc[p].got \/ ~KeysChange

LinksAfter(p) == (links \ proc[p].seen) \cup {proc[p].got}

Write(w) ==
    /\ At(w, "write")
    /\ \/ /\ proc[w].b = "links" /\ ~Collides(w)
          /\ links' = LinksAfter(w) /\ UNCHANGED rendered
          /\ Goto(w, "check")
       \/ /\ proc[w].b = "links" /\ Collides(w)
          /\ UNCHANGED <<links, rendered>>
          /\ Goto(w, "error")
       \/ /\ proc[w].b = "rendered"
          /\ rendered' = proc[w].got /\ UNCHANGED links
          /\ Goto(w, "check")
    /\ UNCHANGED <<page, lock, staged, remote, tasks, state, queue, counters>>

(* rebuildStagingLocked: one transaction under the page lock; a page that  *)
(* is gone loses its document here and in the remote index.                *)
Stage(w) ==
    /\ At(w, "stage") /\ lock = NoOne
    /\ IF CurrentOk THEN staged' = current /\ Goto(w, "sync") /\ UNCHANGED lock
       ELSE lock' = w /\ Goto(w, "withdraw") /\ UNCHANGED staged
    /\ UNCHANGED <<page, links, rendered, remote, tasks, state, queue, counters>>

(* The rest of the transaction when the page is gone: it commits when the  *)
(* remote index has answered.                                              *)
Withdraw(w) ==
    /\ At(w, "withdraw")
    /\ Ask(w, 0)
    /\ Goto(w, "withdrawing")
    /\ UNCHANGED <<page, lock, links, rendered, staged, remote, state, queue, counters>>

Withdrawn(w) ==
    /\ At(w, "withdrawing") /\ Answered(w)
    /\ staged' = 0
    /\ lock' = NoOne
    /\ IF proc[w].event = Deleted THEN Close(Deleted) /\ Reset(w)
       ELSE Goto(w, "sync") /\ UNCHANGED queue
    /\ UNCHANGED <<page, links, rendered, remote, tasks, state, counters>>

(* What syncExpected waits for once it has the current revision.           *)
Synced(p) == IF p \in Workers THEN proc[p].event ELSE proc[p].got
SyncDone(p) == IF p \in Workers THEN "check" ELSE "refresh"

SyncAnyRevision(p) == CurrentOk                       \* mutation

Expected(p) == CurrentOk /\ current = Synced(p)

(* syncExpected: lock the page, check the revision and the staged document *)
(* and keep the lock until the remote index has answered.                  *)
Sync(p) ==
    /\ At(p, "sync") /\ lock = NoOne
    /\ IF ~Expected(p) THEN Goto(p, SyncDone(p)) /\ UNCHANGED lock
       ELSE IF staged # Synced(p) THEN Goto(p, "error") /\ UNCHANGED lock
       ELSE Goto(p, "index") /\ lock' = p
    /\ UNCHANGED <<page, rows, state, queue, counters>>

Index(p) ==
    /\ At(p, "index")
    /\ Ask(p, Synced(p))
    /\ Goto(p, "wait")
    /\ UNCHANGED <<page, lock, links, rendered, staged, remote, state, queue, counters>>

Indexed(p) ==
    /\ At(p, "wait") /\ Answered(p)
    /\ lock' = NoOne
    /\ Goto(p, SyncDone(p))
    /\ UNCHANGED <<page, rows, state, queue, counters>>

GuardAfter(w) ==
    /\ At(w, "check")
    /\ proc' = [proc EXCEPT ![w] = IF IsStale(@.event) THEN NextBuilder(w)
                                   ELSE [@ EXCEPT !.at = "record"]]
    /\ UNCHANGED <<page, lock, rows, state, queue, counters>>

(* upsertBestEffort: the row is overwritten whatever it says; a failure is *)
(* only logged.                                                            *)
Upsert(b, s) ==
    \/ state' = [state EXCEPT ![b] = s] /\ UNCHANGED counters
    \/ /\ faults < MaxFaults /\ faults' = faults + 1 /\ missed' = TRUE
       /\ UNCHANGED <<state, duplicates, rebuilds, rebuildFailed>>

RecordOk(w) ==
    /\ At(w, "record")
    /\ Upsert(proc[w].b, Ok(proc[w].event))
    /\ proc' = [proc EXCEPT ![w] = NextBuilder(w)]
    /\ UNCHANGED <<page, lock, rows, queue>>

(* Any statement of a builder may fail, and a caller of the remote index   *)
(* stop waiting.  Of a rebuild, only what follows its transaction fails    *)
(* here.                                                                   *)
BuilderFails(p) ==
    /\ proc[p].at \in {"sync", "index", "wait"}
                        \cup IF p \in Workers THEN {"read", "wipe", "write", "stage"} ELSE {}
                        \cup IF p \in Workers /\ proc[p].event # Deleted
                             THEN {"withdraw", "withdrawing"} ELSE {}
    /\ faults < MaxFaults /\ faults' = faults + 1
    /\ Goto(p, "error")
    /\ lock' = IF lock = p THEN NoOne ELSE lock
    /\ UNCHANGED <<page, rows, state, queue, duplicates, rebuilds, missed, rebuildFailed>>

RecordError(w) ==
    /\ At(w, "error")
    /\ Upsert(proc[w].b, Error(proc[w].event))
    /\ HandlerFailed(w)
    /\ UNCHANGED <<page, lock, rows>>

(* The final rendering commits and the event is done.                      *)
Rewrite(w) ==
    /\ At(w, "rewrite")
    /\ rendered' = proc[w].got
    /\ Close(proc[w].event)
    /\ Reset(w)
    /\ UNCHANGED <<page, lock, links, staged, remote, tasks, state, counters>>

-----------------------------------------------------------------------------
(* Handling page.deleted.                                                  *)

Clear(w) ==
    /\ At(w, "clear")
    /\ links' = {} /\ rendered' = 0 /\ staged' = 0
    /\ state' = [b \in Builders |-> Unknown]
    /\ Goto(w, "unlist")
    /\ UNCHANGED <<page, lock, remote, tasks, queue, counters>>

UnlistStagedOnly(w) ==                                \* mutation
    /\ At(w, "unlist") /\ lock = NoOne
    /\ lock' = w
    /\ Goto(w, "withdrawing")
    /\ UNCHANGED <<page, rows, state, queue, counters>>

(* HandlePageMetadataEvent of a page that is gone.                         *)
Unlist(w) ==
    /\ At(w, "unlist") /\ lock = NoOne
    /\ lock' = w
    /\ Goto(w, "withdraw")
    /\ UNCHANGED <<page, rows, state, queue, counters>>

(* Any of it fails, or the answer of the remote index does not come.       *)
DeletionFails(w) ==
    /\ proc[w].event = Deleted /\ ~At(w, "idle")
    /\ faults < MaxFaults /\ faults' = faults + 1
    /\ HandlerFailed(w)
    /\ lock' = IF lock = w THEN NoOne ELSE lock
    /\ UNCHANGED <<page, rows, state, duplicates, rebuilds, missed, rebuildFailed>>

-----------------------------------------------------------------------------
(* Operator rebuilds.                                                      *)

Start(p, place) ==
    /\ At(p, "idle") /\ rebuilds < MaxRebuilds
    /\ rebuilds' = rebuilds + 1
    /\ Goto(p, place)
    /\ UNCHANGED <<page, lock, rows, state, queue, faults, duplicates, missed, rebuildFailed>>

RebuildPage(p) == Start(p, "lockPage")

(* RebuildAll first empties the search index for every page.               *)
RebuildAll(p) == Start(p, "emptyStage")

PrepareFullRebuild(p) ==
    /\ \/ /\ At(p, "emptyStage") /\ staged' = 0 /\ UNCHANGED tasks
          /\ Goto(p, "emptyRemote")
       \/ /\ At(p, "emptyRemote") /\ Ask(p, 0) /\ UNCHANGED staged
          /\ Goto(p, "emptying")
       \/ /\ At(p, "emptying") /\ Answered(p) /\ UNCHANGED <<staged, tasks>>
          /\ Goto(p, "lockPage")
    /\ UNCHANGED <<page, lock, links, rendered, remote, state, queue, counters>>

(* RebuildAll ends there.                                                  *)
PrepareFails(p) ==
    /\ proc[p].at \in {"emptyStage", "emptyRemote", "emptying"}
    /\ faults < MaxFaults /\ faults' = faults + 1
    /\ rebuildFailed' = TRUE
    /\ Reset(p)
    /\ UNCHANGED <<page, lock, rows, state, queue, duplicates, rebuilds, missed>>

RebuildFails == rebuildFailed' = TRUE /\ UNCHANGED <<faults, duplicates, rebuilds, missed>>

(* SELECT ... FOR UPDATE; a page that is gone is an error, one never       *)
(* published is skipped.                                                   *)
LockPage(p) ==
    /\ At(p, "lockPage") /\ lock = NoOne
    /\ IF CurrentOk
       THEN /\ lock' = p
            /\ proc' = [proc EXCEPT ![p].got = current, ![p].at = "wipe"]
            /\ UNCHANGED counters
       ELSE /\ Reset(p) /\ UNCHANGED lock
            /\ IF deleted THEN RebuildFails ELSE UNCHANGED counters
    /\ UNCHANGED <<page, rows, state, queue>>

(* All builders and their states in one transaction, or none.              *)
CommitRebuild(p) ==
    /\ At(p, "commit")
    /\ lock' = NoOne
    /\ IF Collides(p)
       THEN /\ Reset(p) /\ RebuildFails
            /\ state' = [state EXCEPT !["links"] = Error(proc[p].got)]
            /\ UNCHANGED rows
       ELSE /\ links' = LinksAfter(p)
            /\ rendered' = proc[p].got /\ staged' = proc[p].got
            /\ state' = [b \in Builders |-> Ok(proc[p].got)]
            /\ Goto(p, "sync")
            /\ UNCHANGED <<remote, tasks, counters>>
    /\ UNCHANGED <<page, queue>>

(* AfterRebuild failed.                                                    *)
RebuildSyncFails(p) ==
    /\ At(p, "error")
    /\ state' = [state EXCEPT !["search"] = Error(proc[p].got)]
    /\ Reset(p) /\ RebuildFails
    /\ UNCHANGED <<page, lock, rows, queue>>

(* resolveAndRefreshPage: a second transaction, without the page lock,     *)
(* with the revision the first one read; when it fails it leaves nothing.  *)
Refresh(p) ==
    /\ At(p, "refresh")
    /\ \/ /\ rendered' = proc[p].got
          /\ state' = [state EXCEPT !["rendered"] = Ok(proc[p].got)]
          /\ UNCHANGED counters
       \/ /\ faults < MaxFaults /\ faults' = faults + 1
          /\ rebuildFailed' = TRUE
          /\ UNCHANGED <<rendered, state, duplicates, rebuilds, missed>>
    /\ Reset(p)
    /\ UNCHANGED <<page, lock, links, staged, remote, tasks, queue>>

-----------------------------------------------------------------------------
WorkerStep(w) ==
    \/ \E e \in Event : Take(w, e)
    \/ GuardBefore(w) \/ Read(w) \/ Wipe(w) \/ Wiped(w) \/ Write(w)
    \/ Stage(w) \/ Withdraw(w) \/ Withdrawn(w) \/ Sync(w) \/ Index(w) \/ Indexed(w)
    \/ GuardAfter(w) \/ RecordOk(w) \/ RecordError(w) \/ Rewrite(w)
    \/ Clear(w) \/ Unlist(w)

RebuilderStep(p) ==
    \/ RebuildPage(p) \/ RebuildAll(p) \/ PrepareFullRebuild(p) \/ PrepareFails(p)
    \/ LockPage(p) \/ Wipe(p) \/ Wiped(p) \/ CommitRebuild(p)
    \/ Sync(p) \/ Index(p) \/ Indexed(p) \/ RebuildSyncFails(p) \/ Refresh(p)

Next ==
    \/ Publish \/ Delete \/ DoTask
    \/ \E w \in Workers : WorkerStep(w) \/ DeletionFails(w) \/ CrashWorker(w)
    \/ \E p \in Rebuilders : RebuilderStep(p)
    \/ \E p \in Procs : BuilderFails(p)

Spec == Init /\ [][Next]_vars

(* One worker at work at a time and no operator beside it.                 *)
OneAtATime ==
    /\ \A v, w \in Workers : At(v, "idle") \/ At(w, "idle") \/ v = w
    /\ \A p \in Rebuilders : At(p, "idle")
SerialSpec == Init /\ [][Next /\ OneAtATime']_vars

-----------------------------------------------------------------------------
(* Properties.                                                             *)

(* Types of the projection tables and of the work in progress.             *)
TypeOK ==
    /\ current \in 0 .. MaxRevisions /\ deleted \in BOOLEAN
    /\ lock \in Procs \cup {NoOne}
    /\ links \subseteq Revision
    /\ {rendered, staged, remote} \subseteq 0 .. MaxRevisions
    /\ tasks \in Seq([doc : 0 .. MaxRevisions, by : Procs])
    /\ state \in [Builders -> [status : {"none", "ok", "error"}, source : 0 .. MaxRevisions]]
    /\ open \subseteq Event /\ dead \subseteq Event
    /\ proc \in [Procs ->
         [at : {"idle", "clear", "guard", "read", "wipe", "wiping", "write", "stage", "sync",
                "index", "wait", "check", "record", "error", "again", "rewrite", "unlist",
                "withdraw", "withdrawing", "emptyStage", "emptyRemote", "emptying",
                "lockPage", "commit", "refresh"},
          event : Event, b : Builders, got : 0 .. MaxRevisions, seen : SUBSET Revision]]
    /\ faults \in 0 .. MaxFaults /\ duplicates \in 0 .. MaxDuplicates
    /\ rebuilds \in 0 .. MaxRebuilds
    /\ missed \in BOOLEAN /\ rebuildFailed \in BOOLEAN

(* The search document and what the remote index is asked to show are of   *)
(* the revision that is current at that very moment (syncExpected), so the *)
(* index never goes back to an older revision, although a task may be done *)
(* long after its caller has left and the page has moved on.               *)
SearchMovesForward ==
    [][/\ staged' \notin {staged, 0} => CurrentOk /\ staged' = current
       /\ Len(tasks') > Len(tasks) /\ tasks'[Len(tasks')].doc # 0
            => CurrentOk /\ tasks'[Len(tasks')].doc = current
       /\ remote' \notin {remote, 0} => remote < remote' /\ remote' <= current]_vars

Quiescent == open = {} /\ \A p \in Procs : At(p, "idle")

(* What the remote index shows, and will go on to show.                    *)
Shows(r) == remote = r /\ \A i \in 1 .. Len(tasks) : tasks[i].doc = r

(* Once every event is handled, search shows the current revision and no   *)
(* deleted page, however workers, retries and rebuilds interleaved, and no *)
(* task left behind will change that.                                      *)
SearchConverges ==
    Quiescent /\ dead = {} /\ ~rebuildFailed =>
        LET shown == IF CurrentOk THEN current ELSE 0
        IN staged = shown /\ Shows(shown)

(* With one worker and no rebuild beside it, every projection ends at the  *)
(* current revision, whatever failed and was retried, and says so.         *)
ProjectionsConverge ==
    Quiescent /\ dead = {} /\ CurrentOk =>
        /\ links = {current} /\ rendered = current
        /\ ~missed => state = [b \in Builders |-> Ok(current)]

(* With one worker, nothing is left of a deleted page once its deletion is *)
(* handled: events that arrive late do not bring rows back.                *)
DeletedLeavesNothing ==
    Quiescent /\ deleted /\ Deleted \notin dead =>
        /\ links = {} /\ rendered = 0 /\ staged = 0 /\ Shows(0)
        /\ state = [b \in Builders |-> Unknown]

(* builder.go:192: a result that was overtaken while it was computed "will *)
(* be overwritten even if it has reached the table", by the newer          *)
(* revision's own event.                                                   *)
OldResultsAreOverwritten ==
    Quiescent /\ dead = {} /\ CurrentOk => links = {current}

(* builder_search.go:148: as syncExpected holds the page lock until the     *)
(* remote task completes, no newer revision comes "between the final       *)
(* Current check and this remote write".                                   *)
SearchWritesCurrent ==
    [][remote' \notin {remote, 0} => CurrentOk /\ remote' = current]_vars

(* builder_render.go:42: when RebuildPage calls a builder, the revision is *)
(* "the page's current revision read within the lock".                     *)
RebuildWritesCurrent ==
    [][\A p \in Rebuilders :
         rendered' # rendered /\ proc'[p] # proc[p] => rendered' = current]_vars

(* builder.go:29: an event whose page is gone is handled successfully, it  *)
(* "becomes done and is not retried": without a failing statement no       *)
(* handler call fails.                                                     *)
StaleEventsAreDone ==
    [][\A w \in Workers :
         ~At(w, "idle") /\ proc'[w].at = "idle" /\ faults' = 0
            => proc[w].event \notin open']_vars
=============================================================================
