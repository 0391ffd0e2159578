# Anby Wiki: TLA+ models, checks and proofs

Anby Wiki is a wiki with structured pages, governed changes and derived views:
a Go backend over PostgreSQL (`src/backend`), a Next.js front end with a
collaborative editor (`src/apps/web`) and a small streaming AI service
(`src/services/ai-kernel`). This directory models the parts of it where the order
of events matters: where transactions interleave, workers crash, messages are
lost or repeated and a value is read before it is used.

PostgreSQL runs every transaction at READ COMMITTED (recovery of a working
document at REPEATABLE READ), so the models take one step per statement that reads
or locks, and apply a transaction's writes when it commits.

## 1. Inventory

| Part | State it keeps | Operations | What is hard | What makes it correct |
|---|---|---|---|---|
| Outbox consumer (`internal/projection/consumer.go`, `ops.go`) | `outbox_event` rows: status, attempts, claim time, next attempt | claim a batch, handle, settle, back off, renew, replay dead letters | leases that expire under a running handler, crashes, lost commit answers, shutdown | delivery at least once, exclusive claims, final states final, progress |
| Page revisions (`internal/page/publish.go`, `history.go`) | `page.current_revision_id`, `revision`, `content_snapshot` | publish, roll back, soft delete | stale baselines, shared snapshots, triggers | one line of history, no lost update, rollback restores |
| Revision storage (`snapshot_storage.go`) | snapshot tier, objects in the store | archive to cold storage | upload outside and update inside a transaction, races with rollbacks | current content hot, history readable |
| Titles, aliases, redirects (`page/service.go`) | `page.normalized_title`, `page_alias`, `page_redirect` | create, rename, redirect, remove, and rollback of each | checks by plain reads on rows of other pages | no redirect ring, live targets, one page per title |
| Projections (`internal/projection/builder*.go`, `rebuild.go`, `page_deleted.go`) | nine tables keyed by block, `rendered_page`, `search_document` and a remote index, `projection_state` | handle published and deleted events, rebuild | overtaken computations, remote writes, partial failure, deletion before a late event | derived rows converge to the current revision |
| Collaboration (`internal/collaboration`, `cmd/api/collaboration.go`, `lib/collaboration`) | `working_document`, its updates and snapshots; room subscriptions; client document, cursor and pending updates | connect, recover, update, broadcast, catch up, snapshot and compact, merge, publish | lost, late and reordered broadcasts, compaction, off-line edits | nothing lost, cursors exact, publications exact |
| Governed changes (`internal/governance`) | `proposal`, `proposal_operation`, `review_task`, `merge_conflict`, `change_batch` | draft, submit, decide, detect, resolve, apply, roll back | three-phase apply, conflicts settled against a revision, check-then-write rollback | no edit overwritten unseen, applied once, open conflicts block |
| Bulk review (`governance/bulk_review.go`) | `bulk_review_batch`, its items, their waves; in each call, what it read of them | create with a sample, decide, finalize, apply the next wave, pause, resume | a call cut off inside a wave, two calls at once, proposals decided or applied outside the batch, names taken meanwhile, lock order | nothing goes live unreviewed, waves in order, a completed batch is applied |
| Import jobs (`internal/importer`: `service.go`, `repository.go`, `pipeline.go`, `runner.go`, `safety.go`) | `import_job`, `import_run` and its stages, plans, the proposal; in each worker, what it read | claim, run stages, ask, confirm, review safety, replan, cancel, retry, fail, recover stale | an overtaken run beside its successor, cancellation, half-composed proposals, gates over several plans | gates hold, one plan per proposal, a succeeded job is submitted, a job settles |
| Import content (`fetch`, `parse`, `extract`, planners, matcher, composer) | none of its own | parse sources, ask the models, compose operations | size limits, untrusted text | not modelled, except where the job depends on it |
| Knowledge (`internal/knowledge`) | `entity`, `entity_label`, `claim`, `entity_merge` with its claim and label maps | write, supersede, publish, reject, deprecate claims; label, merge, roll a merge back, delete | merges that cross or are rolled back out of order, claims rewritten by a merge of another entity, a target read without a lock | no merge cycle, one current version of a statement, one value where one is allowed, claims about active entities |
| Evidence, link health | sources, assets, external links, probe leases | store, probe, propose repairs | expired leases | one proposal per broken link |
| Link resolver (`projection/resolver.go`) | unresolved `page_link_projection` rows | resolve when a title appears | titles appear while links are rebuilt | every link of a live title resolved |
| Authentication, authorization, AI configuration, components, collections, datasets | sessions, tokens, rights, keys, frozen versions, rule sets | single transactions | expiry, freezing | stated in `PROJECT.json` |
| API, CLI, web pages, AI kernel, renderer, doctor, scripts | none of their own | decode, call, show | little | not modelled |

How the parts interact. A page publication (directly, from a working document or
from a proposal's apply) writes its `outbox_event` in the same transaction; the
outbox consumer hands it to the projection handlers; those read the page again, so
they show the current revision and not the event's. Governance calls the page
service inside its own transaction for apply and rollback. Collaboration publishes
through the same page service and is fed by governance when a proposal is merged
into a working document. Everything else communicates through rows.

`PROJECT.json` lists each component with its files and status, and under
`hazards` each place in the code where an order of events could go wrong, with the
properties that watch it or the reason why none does.

## 2. Modules

```
Delivery  <--implements--  Outbox  <--proved about--  OutboxProofs
PageHistory  <--implements--  Revisions  <--proved about--  PageProofs
PageIdentity  <--proved about--  PageProofs
PageRows: what Revisions and PageIdentity have in common
Projection  <--proved about--  ProjectionProofs
BulkReview  <--proved about--  BulkReviewProofs
ImportJob  <--proved about--  ImportJobProofs
EntityMerge  <--proved about--  EntityMergeProofs
Collaboration  <--proved about--  CollaborationProofs
Proposals  <--proved about--  ProposalsProofs
   MC<module>: small instances for TLC
   MCOutboxScopes, MCProjectionScopes, MCPageIdentityScopes, MCEntityMergeScopes:
   several of them in one run
```

**Delivery** is what the outbox promises everything behind it: an emitted event is
delivered at least once before it is closed, or is buried and may be reopened.

**Outbox** is the lease protocol. `row` is the table, `held`, `cur`, `phase` and
`mode` the memory of each worker process, `sel` the row locks between `SELECT ... FOR
UPDATE SKIP LOCKED` and the commit. Time is relative: a claim has an age and a row a
remaining wait, and `Tick` moves both, so the clock needs no bound. Handlers are
external and return success or an error after any delay.

| Code | Action |
|---|---|
| `claimBatch` | `SelectBatch`, then `CommitClaim`, `AbortClaim` or `LoseClaimAnswer` |
| `processBatch`, `processMany`, `processOne` | `TakeUp`, `HandlerReturns`, `EndBatch` |
| `markDone`, `fail` | `Settle`, `SettleFails` |
| `RenewLease`, `ReplayDead` | the actions of these names (`RenewLease` has no caller in the repository; the runs allow it because handlers may call it) |
| `Run`, shutdown and its timeout | `Shutdown`, `ForceStop`, `Exit`, `Crash`, `Restart` |

**PageHistory** is what pages promise their readers and authors: one history per page that only
grows, every entry readable, publications made on the entry their author saw, rollbacks that
say what their target says.

**Revisions** interleaves publish and rollback transactions (page row lock, baseline,
choice of snapshot, revision, deferred triggers, commit) with archivers (read a
candidate, upload, lock, re-check, transition). A content stands for a canonical AST
and its hash; `FOR SHARE`, `FOR UPDATE` and foreign-key locks are the guards `Shared`
and `Excluded`.

**Projection** follows one page. Three builders stand for the registered ones:
`links` for those that delete and insert rows keyed by block, `rendered` for the
one-row upsert, `search` for the staged document with its remote index. A process is
a worker that handles an event or an operator's rebuild; each statement is a step.
The outbox is reduced to a set of open events that may be delivered again. The remote index
does nothing at once: a request (`Ask`) puts a task at the end of its queue, its caller waits
for it, and `DoTask` does the first of them whenever it likes. A caller that times out, is
cancelled or crashes leaves its task behind and releases the page's lock. Tasks are done in
the order of their requests, as Meilisearch does those of one index; a task that fails there
is as if it had never been asked for. A request is enqueued while its caller waits for the
answer or not at all: one cut off on the way and enqueued later still is left out.

**PageIdentity** has the titles, aliases and redirects of a few pages and writers
that create, rename, redirect, unredirect and roll back. Plain reads see what is
committed at that step; the guard of a write blocks on `FOR UPDATE` locks and on the
`FOR KEY SHARE` lock with which a foreign key is checked. It shares the rows of the page
table with Revisions (**PageRows**: the pages, the writers and which pages are deleted) and
keeps the rest apart: its specification is `NamesSpec`, a writer's transaction is
`mover[w]`, `LockRow` is the lock statement, `RequestInverse` a rollback's request and
`EndTransaction` the commit.

**Collaboration** joins the browser's client, the connection handler, the hub and
the update log of one document. An update is a number and a Yjs document the set of
updates it has absorbed, which is what commutative, idempotent application gives.
The client's off-line store is included, so a closed browser resumes from what it had
persisted. A sequence gap does not reconnect a client: `refresh` closes the socket with 1012,
which a browser refuses by throwing, the handler of that error closes it with 1002, which
throws too (`client.ts:143-147`), and the promise chain that the messages wait in stays
rejected. The connection is up and the client hears nothing on it, or on a later one, until the
page is opened again: `mode` is `"deaf"` (`Refresh`, `Drop`). A refused publication calls the
same `refresh` outside that chain (`Refuse`): the socket stays, the client is not ready until
the next ready frame (`"refreshed"`), and meanwhile it looks for no gap. The history variable
`skipped` becomes true when such a client absorbs an update past a gap (`Skips`). The catch-up,
which starts from what was written, normally brings the missing update all the same; if the
connection is lost first, the client recovers from its cursor, never gets it, and its next
snapshot can compact it away for everybody. The properties of this module speak of what
happens before that: `~skipped`. `Ascending` puts a set of numbers in order, as
`ORDER BY sequence` does; it is a `CHOOSE` of an increasing function, about which one can prove.

**Proposals** follows proposals for one page from draft to rollback, with editors
that publish around them. A block has a content; the hash an operation carries stands for a
content, any, since nothing compares it with the base when the operation is added. The schema
allows an operation without one (`NoHash`): it meets a conflict whenever the page has moved
on from its base, but nothing compares the block again when the content is prepared. An
insertion has no block and no hash here; the code would compare the hash of one with the
whole page's content. An API call of Apply is three steps, as in the code: detect
conflicts and record them, prepare the new content from a second read, commit under
the proposal's lock. Rollback is two: the check (under the locks of batch and
proposal, not of the page) and the write. Publishing itself is one step here, since
Revisions has its detail. The plain reads inside one detection, or inside one
preparation, are taken together; what they could see apart from each other is
re-checked at commit by revision and status.

**BulkReview** follows one batch. `item` is the table's decision and apply status,
`proposal` the status of the proposals behind it, `runner` what each `ApplyNextWave` call
has read.

| Code | Action |
|---|---|
| `Create`, `Decide`, `Finalize` | the actions of these names; which items are sampled is any choice of the right size |
| `ApplyNextWave` | `StartWave`, `ReadWave`, then `CheckPaused`, `ApplyItem`, `RecordApply` for each item, and `FinishWave` |
| a cancelled request, a stopped server | `Crash` |
| `Pause`, `Resume` | `Pause`, `Resume`, and `PauseStuck` for a wave no call works on |
| `ReviewService.Decide`, `ApplyService.Apply`, `Resolve`, `Rollback` outside the batch | `DecideAlone`, `ApplyAlone`, `Resolve`, `Rollback` |
| another batch that creates the same page or entity | `TakeName` |
| a publication, a claim's new state or a deleted block that makes every Apply of a proposal fail | `Obstruct`, and `Release` where it ends |

Apply, which Proposals has in detail, is one step with one of the answers its callers
tell apart; one of its failures is an answer lost after the commit. A proposal in an
identity conflict has a status of its own here, where the table has `conflicted` for
both kinds; merge conflicts are settled one proposal at a time. Settling one does not mean
that the next Apply succeeds. Detection passes over a settled conflict by its block
(`conflict.go:216`), so one of an operation without a block (an insertion, for instance), or of the
state of a claim (`conflict.go:291`), is found again each time, and a choice for a block that is
deleted fails when it is prepared (`resolved_operations.go:48`). `proposal[i].blocked` says so of
a proposal; `Exposed` are those with such an operation. Other conflicts and failures come and go
and are counted by `MaxTroubles`. Decisions are a person's or a system actor's
(`bulk_review.go:856`).

**ImportJob** follows one job. `job` and `run` are the tables, `proposal` the status of the
job's proposal and the plan its operations come from, `worker` what each worker has read.
What the models make of a source (whether it looks like an injection, which planning
inputs give a good plan) is chosen once, at the beginning.

| Code | Action |
|---|---|
| `claimNext` | `Claim`: each claim is a new run |
| `StartStage`, `CompleteStage` | `StartStage`, `CompleteStage` inside the actions of the stages |
| the stages of `Pipeline.run` | `Parse` (with fetching), `Extract`, `Plan`, `Match`, `Compose` and `FreezeOperations`, `Submit` and `Apply` |
| `Succeed`, `RequireActionWithDetails`, `Fail` | `Succeed`, `RequireAction`, `Break` (any error or the deadline) then `Fail` |
| a killed process, `RecoverStale` | `Crash`, `RecoverStale` |
| `Cancel`, `Retry`, `Replan`, `ConfirmPlan`, `ReviewSafety` | the actions of these names |

A suspected injection is asked about as a `quality_gate` with its own error; the model calls
it `safety`. `RecoverStale` needs an age older than every worker's deadline, so no live
worker is left when it runs, except one that has failed and not yet said so. `progress` and
`current_stage` are display only. Later decisions about the proposal are the subject of
Proposals.

**EntityMerge** has a few entities, the claims about them and their merges. A transaction that
reads before it can be made to wait is several steps with its row locks held between them; the
others take their locks and commit in one.

| Code | Action |
|---|---|
| `CreateClaim`, `SupersedeClaim` | `CreateClaim` or `SupersedeClaim` (`prepareClaim`: the subject locked, the target only read), `CountClaims` (its count, for a new value of a single-valued property), then `WriteClaim` (the insert, which waits for whoever has locked the target) |
| `PublishClaim`, `RejectClaim`, `DeprecateClaim` | the actions of these names (`transitionClaim`) |
| `RollbackClaimInTx` and its batch form | no action of its own: they supersede, deprecate or reject through the same functions |
| `MergeEntityInTx` | `LockForMerge` (both entities, the labels, the selection of the source's current claims), `LockClaims` (the claims' own locks, the checks and counts), then `MergeEntity` (the inserts, which wait for the entities the copies refer to) |
| `RollbackEntityMergeInTx` | `RollbackEntityMerge` |
| `AddLabel`, `RemoveLabel`; `RollbackCreatedEntityInTx` | `Relabel`; `DeleteEntity` |
| a refusal, an error, a deadlock | `Abort`, or a guard that does not hold |

The select of a merge is `FOR UPDATE` under READ COMMITTED: a claim it had to wait for is
dropped when it is no longer current, and claims written meanwhile are not found, which
is why `LockClaims` takes the claims selected earlier and restricts them to those still
current. The code counts and inserts claim by claim; the model counts for all of them first,
which makes the time between a count and its insert the longest it can be. What another
transaction does in that time is the subject of `SingleValueHolds`: supersession, publication,
merges and rollbacks rewrite claims of the counted subject while an insert waits. A foreign key check waits for `FOR UPDATE` on the row it refers to (`Referable`).
Of what protects a created entity from deletion, claims and merges are modelled; its
`updated_at`, aliases, page bindings, collections and proposals are not.

**MCOutboxScopes**, **MCProjectionScopes**, **MCPageIdentityScopes** and
**MCEntityMergeScopes** put several instances of a module into one run: a variable `scope`
that never changes chooses between, for instance, all processes at once and one at a time
with larger bounds. `PROJECT.json` ("map") names the source lines of every definition.

## 3. What the runs check

| Run | Instance | What it shows |
|---|---|---|
| `outbox` | 2 workers, lease 1 tick, 2 attempts, fairness; two events, one routed to a batch handler, without faults, or one event with a fault and a replay | A row is `done` only after a handler succeeded for it; no two consumers hold the same claim; the table implements `Delivery` (so done events stay done); only a replay reopens a dead row, whatever a late `fail` does; a row is claimed at most `MaxAttempts - 1 + faults + n(n+1)/2` times by n workers (`AttemptBudget`); an emitted event ends as done or dead |
| `revisions` | 2 pages, 2 contents, 2 writers, 2 archivers, 4 revisions, 1 crash | The current revision stays hot, history stays readable, no update is lost, and the tables implement `PageHistory` (so history only grows, in one line per page, and a rollback says what its target says) |
| `projection` | concurrent: 2 workers and an operator, 2 revisions, deletion, 1 failure; serial: one at work at a time, 3 revisions, 2 failures | The search index is only asked for what is current at that moment, never goes back to an older revision and converges, however workers, failures, a rebuild and tasks left in the remote index interleave; one at a time, every projection converges, its state row says so, and nothing is left of a deleted page |
| `identity` | concurrent: at most 2 pages, 2 titles, 2 writers, new redirects to pages and unresolved titles, no governed rename; serial: 3 pages, 2 titles and every kind of target | No two pages redirect to each other; one transaction at a time, redirects are acyclic, their targets alive and a title leads to one page |
| `identity_cycle` | 3 pages, 2 writers, page redirects | Violation: see findings |
| `collaboration` | 2 clients, 2 updates, snapshots every 2, buffer 1, one rare event | As long as no unready client has skipped an update: cursors skip nothing in memory or on disk, compaction loses nothing, publications are exact, and when nothing is left to do everybody is synchronised whom `refresh` has not disturbed |
| `proposals` | 1 proposal, 2 blocks, 2 calls, 2 conflicts; of one operation with 4 revisions, of two with 3, of three with 2 | An operation with a hash changes a block only where it is what the hash says or a human gave it up in a conflict; at most one batch and one compensation; the proposal is blocked exactly while a conflict is open |
| `bulk` | 3 proposals (one with a new name and an operation whose conflict recurs, at most the first of high risk) in 2 waves, one sample of two, 2 calls, 1 trouble, fairness | Nothing goes live that no reviewer decided or sampled, a wave starts only when those before it are applied, a completed batch is applied, and a finalised batch completes except for what a name taken or a recurring conflict holds up: itself, the rest of its wave after a taken name, and the waves behind |
| `bulk_skip` | 1 call, no trouble | Violation: see findings |
| `import` | 2 workers, 2 planning inputs, 5 kinds of sources, 3 requests, 1 killed or late worker, fairness | A running job has its run, only a plan that passed every gate gets into the proposal, once, a job that links its proposal submitted it, and a queued job settles |
| `import_ambiguity` | 2 workers, no killed worker | Violation: see findings |
| `entity_merge` | 3 entities; concurrent: 2 transactions and, of a single-valued property, 2 claims and 1 merge or 1 claim and 2 merges; serial: 3 merges, 1 claim of a many-valued property; labels: 2 merges, a label | The ledger agrees with the entities, merges form no cycle, single values stay single and a statement has one current version, however merges are rolled back; one transaction at a time, current claims are about active entities |

Why these bounds. The properties relate at most two actors that race and one that
disturbs them: two workers and a fault, two writers and an archiver, two redirects
over three pages, two calls and an editor, an overtaken run and its successor. Each bound lets the case happen that the
property is about: a lease of one tick expires under a handler, four revisions allow
publish, archive, rollback onto the archived snapshot and a fourth competing writer,
a buffer of one is full after one broadcast, a snapshot every two updates makes
compaction happen with an update after or before it, four revisions of a proposal's
page are the original, the batch, the editor's and the compensation, three proposals in
waves of two give a wave a successor, and three requests allow a safety review, a
confirmation and a cancellation or a replan of one job; two merges and a claim let one merge
move the other's copy and both be rolled back in the wrong order, which needs the fourth
claim id; `outbox` puts faults and two events into separate scopes, since its safety is
proved for all of them together. Every listed property is violated by a mutated definition (`mutants`), a plausible bug in the code,
under the same bounds.

The bounds are named in the configurations (`Max...`, `AttemptBound`) and appear only
in guards; where TLC must not report the end of a bounded run as a deadlock the
configuration says `CHECK_DEADLOCK FALSE`. The two `identity` runs check deadlock:
their writers always come back to idle.

The type invariants of all modules are proved (section 4), so the runs leave most of them
out.

`AttemptBudget` is what remains of `MaxAttempts` when leases run out. The comparison in
`fail` uses the count of the worker that failed, so a worker with a small count that comes
back late puts the row back although others hold it under larger ones. Each worker can do so
once per claim with a small count: a fault wastes one claim, and n workers waste up to n, n - 1, ...
claims in turn. With 3 workers, 3 attempts and no fault TLC finds a row claimed 8 times,
which is the bound; section 4 proves it for all numbers.

A further configuration passes and is not among the listed runs: `MCOutboxMore`
(`DoneIsFinal`, `RetriesBackOff`).

Fairness. `outbox`, `bulk` and `import` need it. In Outbox, `Fairness` assumes that `Run` keeps looping
while its process lives, that a handler returns, that a supervisor restarts a dead
worker, that clocks advance, and that a forced shutdown cancels the statement it
waits for. Nothing is assumed of faults, lease overruns and replays except that there
are finitely many (`MaxFaults`, `MaxReplays`). In BulkReview, a call that started a wave
runs on unless it is cut off, and operators do what the interface offers them: start the
next wave, end a pause, pause a wave whose call is gone, settle merge conflicts; nothing
in the code does these by itself. Transient failures are finitely many, recurring conflicts
last as long as they like (`Obstruct` has no bound, `Release` no fairness). In ImportJob,
`ProcessOne` polls for queued jobs and stale ones (with the AI models configured, without which it claims nothing), and a worker
goes on or runs into its deadline; nothing is assumed of the initiator.

### Findings

The violation runs are disagreements between the code and what its comments
say; `PROJECT.json` quotes both sides.

- `identity_cycle`: `CreateRedirectInTx` promises that no edge can introduce a redirect
  cycle (`page/service.go:389`). Two concurrent requests over three pages close one.
- `bulk_skip`: a proposal that meets an identity conflict is to be skipped for good
  (`governance/bulk_review.go:738`). Recording `skipped` for an approved item is refused by
  a CHECK of the table, so the call fails, the wave stays open, and after a pause and a
  resume the next wave tries the same proposal again, for ever.
- `import_ambiguity`: ambiguous entities are to be put to review
  (`Docs/WikiImplementationPlan.md:271`). `resolve_entities` is not among the actions the
  CHECK of `import_job.action_required` allows, so the job fails without asking.

Smaller disagreements can be reproduced with configurations that are not among the
listed runs (`tlc -config <cfg> <module>`, the module being the configuration's name up to its last word;
where one has several properties, TLC stops at the first it finds violated: name only the one
in question to see another):

| Configuration | Property | The text it contradicts | What happens |
|---|---|---|---|
| `MCOutboxMax` | `AttemptsWithinMax` | `consumer.go:100` | `MaxAttempts` is compared only when a handler fails, so claims lost to crashes exceed it |
| `MCOutboxMax` | `OnlyTheHolderSettles` | `consumer.go:55` | a consumer that lost its lease settles the row while another holds it |
| `MCProjectionOverwrite` | `OldResultsAreOverwritten` | `projection/builder.go:192` | with two workers the older computation can commit last, after the newer event is closed, and `projection_state` reports success |
| `MCProjectionRebuild` | `RebuildWritesCurrent` | `builder_render.go:42` | the refresh after a rebuild runs outside the page lock |
| `MCProjectionRebuild` | `SearchWritesCurrent` | `projection/builder_search.go:148` | the task of a caller that timed out is done after a newer revision was published: the index shows the old one until the newer one's own task is done |
| `MCProjectionRebuild` | `StaleEventsAreDone` | `builder.go:29` | a deleted page's published event fails in the handlers behind the guard (`cmd/worker/main.go:254`) until it is dead |
| `MCPageIdentityGone` | `RedirectTargetsLive` | `contracts/openapi/openapi.yaml:3259` | a target rolled back between check and write |
| `MCPageIdentityTitle` | `TitleNamesOnePage` | `page/service.go:282` | a title and another page's alias commit together |
| `MCCollaborationDocs` | `GapsReconnect` | `contracts/schemas/collaboration/v1/README.md:82` | the close codes of `refresh` throw in a browser, so a client that sees a gap stays connected and deaf; two editors whose broadcasts pass each other are enough |
| `MCCollaborationDocs` | `CursorsAreContiguous` | `contracts/schemas/collaboration/v1/README.md:57` | a client left unready by a refused publication moves its cursor over an update it does not have |
| `MCCollaborationDocs` | `DuplicatesAreIdempotent` | `contracts/schemas/collaboration/v1/README.md:33` | compaction deletes the key that made a resent update a duplicate |
| `MCCollaborationDocs` | `MergeBaseIsDurable` | `Docs/adr/0015` | a merge prepared while off-line edits are pending contains them |
| `MCProposalsRollback` | `RollbackIsNotStale` | `governance/rollback.go:20` | the check for newer changes is a plain read outside the page lock; a publication between it and the write is replaced |
| `MCBulkReviewOvertaken` | `AppliedStaysRecorded` | none | of two calls on one wave, the one that read first records its failure over the other's success |
| `MCBulkReviewOvertaken` | `SettlingIsEnough` | `governance/conflict_resolution.go:125` | a proposal whose conflicts are all resolved is approved and fails again: its conflict comes back at every Apply, no choice removes it, and the waves after its own never start |
| `MCImportJobOvertaken` | `OvertakenDecideNothing` | none | `Succeed` and `RequireAction` ask whether the job is running, not whether their run is: a run that was cancelled and retried decides for its successor |
| `MCImportJobOvertaken` | `FullAccessIsApplied` | `Docs/CurrentImplementationStatus.md:448` | a run that fails between submitting and applying leaves the proposal approved; its retry skips what is no draft and succeeds (`pipeline.go:431`) |
| `MCEntityMergeLive` | `SubjectsAreLive` | none | a merge that waited for a claim's subject does not see a claim written for its source meanwhile by the transaction that held it, so a current claim stays on a merged entity |
| `MCEntityMergeLive` | `TargetsAreLive` | none | a claim's target is read without a lock, and merged or deleted before the claim is inserted |
| `MCEntityMergeLabels` | `RollbackKeepsLabels` | none | of two merges into one entity that brought the same label, the first copied it and the second found it there; rolling the first back removes it |
| `MCProposalsRollback` | `ChoicesWereSeen` | none | a block changed after a human chose the proposal is overwritten |
| `MCProposalsRollback` | `NothingIsOverwrittenBlindly` | `Docs/WikiImplementationPlan.md:402` | an operation without a hash overwrites an edit published after the detection |
| `MCProposalsRollback` | `KeptIsKept` | none | a call that has prepared commits over what a human meanwhile chose to keep in a conflict another call had recorded |

## 4. What is proved

`OutboxProofs` proves, for any number of events and workers, any lease, batch size,
backoff and any number of faults and replays:

| Theorem | Statement |
|---|---|
| `TypeCorrect` | `Spec => []TypeOK` |
| `AtLeastOnce` | `Spec => []DoneMeansHandled` |
| `ExclusiveClaims` | `Spec => []ClaimsAreExclusive` |
| `DoneStaysDone` | `Spec => DoneIsFinal` |
| `DeadWaitsForReplay` | `Spec => DeadLeavesOnlyByReplay` |
| `ClaimsAreBounded` | `Spec => []AttemptBudget` |
| `OutboxImplementsDelivery` | `Spec => ImplementsDelivery`, the refinement of `Delivery` |

The only assumption is `OutboxAssumption` on the constants (numbers are naturals,
delays and attempts positive, finitely many consumers). The properties are not inductive alone. `IInv` adds:

- `LockInv`: the row locks of claim transactions are disjoint, the rows under them stay
  claimable, and the attempt count read under the lock is still the row's; this is what
  `SKIP LOCKED` and the row lock give, and it makes `CommitClaim` claim what was selected.
- `CountInv`: before any replay, a remembered attempt count never exceeds the row's;
  with `LockInv`, the next claim gets a count nobody holds, hence `ClaimsAreExclusive`.
- `HandledInv`: a consumer about to settle with success holds only events some handler
  call succeeded for; hence `DoneMeansHandled`, even when the settle comes late.

`NextInv` has one lemma per action. For the refinement, `PresentInv` adds that a
consumer only works on rows that exist (rows are never deleted), and `StepsImplement`
maps each action to a step of `Delivery` or to a stutter.

`ClaimsAreBounded` needs a count of its own, `BudgetInv`. Call a consumer *low* when its
count for the row is positive and below `MaxAttempts` (its failure puts the row back), and
*ending* when it runs with a larger count (its failure makes the row dead); among m
consumers that are not low, `Claims - (MaxAttempts - 1) - faults - |Ending|` is at most
m(m-1)/2. A claim under a large count makes one more consumer ending; one under a small
count is among the first `MaxAttempts - 1`. A crash takes a consumer out of `Ending` and is
a fault. When a low consumer puts the row back, m grows by one and the others' claims,
at most m of them, end nothing any more: exactly what m(m-1)/2 grows by. Counts are those
of sets (`FiniteSetTheorems`), and `BatchInv` says that a consumer holds counts only for what
it has in memory. `DeadWaitsForReplay` follows from `IInv` by actions.

`PageProofs` proves of Revisions, for any pages, contents, writers, archivers and numbers of
revisions and crashes:

| Theorem | Statement |
|---|---|
| `TypeCorrect` | `Spec => []TypeOK` |
| `NoUpdateLost` | `Spec => []NoLostUpdate` |
| `OneLineOfHistory` | `Spec => []LinearHistory` |
| `CurrentStaysHot` | `Spec => []CurrentIsHot` |
| `HistoryStaysReadable` | `Spec => []HistoryReadable` |
| `RollbacksRestore` | `Spec => []RollbackRestores` |
| `PickedSnapshotsStayHot` | `Spec => []PickedStaysHot` |
| `PublishedForGood` | `Spec => HistoryImmutable` |
| `RevisionsImplementHistory` | `Spec => ImplementsHistory`, the refinement of `PageHistory` |

The assumption is `RevisionsAssumption`: there are a page and a content, the bounds are
naturals, and `NoOne` is no writer. One `IInv` serves all nine:

- `TableInv`: rows refer to committed rows, and each stored snapshot is hot or its object
  exists; hence `HistoryReadable`.
- `WriterInv`: what a transaction read stays true until it ends. Its baseline does because
  it holds the page row (two writers past `LockPage` on one page would be the same one);
  the content of its snapshot and of its rollback target because contents never change;
  and the snapshot it reuses stays hot.
- `ArchiverInv`: past the upload, the object of the archiver's snapshot exists. This is
  what survives a crash between upload and update.
- `ExclusionInv`: FOR SHARE and FOR UPDATE on a snapshot exclude each other. With it
  `MakeCold` preserves `WriterInv`; without it a rollback could find its snapshot cold.

`WriterStep` and `ArchiverStep` are the frame lemmas for steps that leave the tables
alone, so only `CommitRevision`, `MakeCold` and `SoftDelete` are argued in full.

For the refinement, an entry of `PageHistory` is a revision with what a reader is given for it
(nothing, were its snapshot neither hot nor stored) and a page shows its current revision's
hot content. `SameView` says that archiving does not show. `CommitImplements` turns a commit into
`Publish` or `Restore`, from `WriterInv`: the revision the author saw is still current, and the
target of a rollback still says what was read of it. `LiveInv` adds that the page whose row a
writer holds is not deleted under it, and `SoftDeleteImplements` counts the page's revisions.

Of PageIdentity it proves, for any pages, titles, writers and batches:

| Theorem | Statement |
|---|---|
| `NamesTypeCorrect` | `NamesSpec => []NamesTypeOK` |
| `DeletedPagesPointNowhere` | `NamesSpec => []DeletedPointsNowhere` |
| `NoPageIsItsOwnAlias` | `NamesSpec => []NoSelfAlias` |
| `NoTwoPagesRedirectToEachOther` | `NamesSpec => []NoMutualRedirect`, when no redirect to a section is requested |
| `SerialRedirectsNeverRing` | `SerialSpec => []PageRedirectsAcyclic` |
| `SerialTargetsStayLive` | `SerialSpec => []RedirectTargetsLive` |
| `SerialTitlesNameOnePage` | `SerialSpec => []TitleNamesOnePage` |

The assumption is `KindsApart`: pages, titles and the markers for none of them are different
things. Each of the last three is also proved of the serial behaviours of the run's
specification. `NamesInv` serves the first three:

- `Course` and `Held`: where in its course each operation can be and what it works on then;
  past its lock statement a transaction holds its page's row, and a page being created is
  worked on by nobody else.
- `KeptApart`: only pages with a rename or redirect in their audit trail have aliases, these
  are never deleted, and no rename or redirect past its lock is of a deleted page.
- `Checked`: what a rename has found under its lock is still so: it changes the title, and if
  the new title is an alias of its page, that alias goes with the commit.

`MutualInv` carries the fourth theorem. A writer past the target q of its walk holds the row
of its own page p. To point q back at p another writer has to check the foreign key on p,
which waits for that row. So what the walk saw of q is still so at the write (`Passed`).
The hypothesis keeps out redirects to sections: one of them becomes a redirect to its page
without a new check of the foreign key, as the column does not change, and then nothing
waits. Longer rings do close (the `identity_cycle` finding).

`SerialInv` is for one transaction at a time. At the end of a walk the pages it has passed
lead only to each other and the source is not among them (`SerialWalk`), so a ring through
the redirect then written would never come back to the source. Titles found available stay
so until the commit (`SerialTitle`).

`ProjectionProofs` proves `TypeCorrect` (`Spec => []TypeOK`) and `SearchNeverGoesBack`
(`Spec => SearchMovesForward`) for any workers, rebuilders, revisions and faults, from
`ProjectionAssumption` (no process is both a worker and a rebuilder). `LockInv` carries the
request: a process at the remote index has held the page row since it found its revision
current, and a rebuild since it read the revision it writes, while `Publish` and `Delete` need
that row. `QueueInv` carries what comes of it, when the lock may long be gone: the tasks ask
for revisions in the order in which these were published, none before it was, and none older
than what the index shows. `GotInv` is only there for the types: a worker about to write has
read a revision. `MoveStep` and `ResetStep` are the frame lemmas for a process that goes on
or ends.

The third theorem is `SearchEndsRight` (`Spec => []SearchConverges`): once no event is open,
no process works, none is dead and no rebuild has failed, search shows the current revision,
or nothing of a deleted page, and so do all tasks still queued (`Shows`). `SearchInv` follows the
obligation through the interleavings:

- `UpdatePending`: while the page is live, its last event is still to be handled or dead, or
  the staged row and the remote document are current; where a rebuild has emptied one of them,
  that rebuild is still at a step from which it writes it again or reports its failure
  (`StageOwed`, `IndexOwed`).
- `WorkersDeliver`: a worker on the last event has, past the step that stages (indexes) it,
  made the staged row (the remote document) current. It needs the lock: no other process can
  put an older revision there afterwards.
- `RemovalPending` and `DeletionsApart`: the deletion's event is open until both are empty, and
  nothing is written for a deleted page after that.
- `NothingAhead`: nothing names a revision that does not exist yet.
- `AnswersInv`: a process that waits for the remote index has the last word there. From its own
  task on, all ask for the same, so that the index shows it when the answer comes; only a
  rebuild of all pages, which asks for nothing to be shown without the page's lock, may come
  after it, and that one still owes the page (`Emptied`).

The last two are about one worker at a time without an operator: `OneAtATimeConverges`
(`SerialSpec => []ProjectionsConverge`) and `OneAtATimeLeavesNothing`
(`SerialSpec => []DeletedLeavesNothing`), each also for the serial behaviours of the run's
specification. `SerialInv` says of a worker on an event that nothing newer has been handled
under it (`Placed`), that what its finished steps owe is done (`Progress`: link rows, rendered
and staged content, the remote document and the state rows, each of the revision it works on)
and that the event stays open until it has ended well (`Owed`). When nobody works, either the
page's last event is open or dead, or every projection shows the current revision
(`UpdateSettled`); and either the deletion's event is, or nothing of the page is left
(`RemovalSettled`), because an event that comes late finds the page deleted and writes nothing.

`BulkReviewProofs` proves, for any number of proposals, wave size, sample share, calls and
troubles, `TypeCorrect` (`Spec => []TypeOK`), `NothingGoesLiveUnreviewed`
(`Spec => []NothingUnreviewedIsApplied`), `WavesGoLiveInOrder` (`Spec => []WavesInOrder`) and
`CompletedMeansApplied` (`Spec => []CompletedIsApplied`), from the assumptions on the numbers
and that the items with new names are items. `IInv` adds:

- `ItemInv`: an item recorded as applied has a change batch, which a rollback does not take
  away. The next wave is the lowest with an item that is not recorded so, hence
  `WavesInOrder`, and a batch completes when there is no such item, hence
  `CompletedIsApplied`, whatever a call that was overtaken or cut off wrote.
- `CallInv`: while a call works, decisions are over; and what it is about to record as
  applied has a change batch, so `ItemInv` survives `RecordApply`.
- `ReviewInv` and `SampleInv`: every proposal out of review was decided by a reviewer or left
  out of a finished sample, and the sample is as large as asked, and everything in a batch
  with a high risk.

`ImportJobProofs` proves, for any workers, planning inputs, kinds of sources and numbers of
requests and troubles:

| Theorem | Statement |
|---|---|
| `TypeCorrect` | `Spec => []TypeOK` |
| `RunningJobKeepsItsRun` | `Spec => []RunningJobHasItsRun` |
| `GatesAreKept` | `Spec => []GatesHold` |
| `SubmittedBeforeSuccess` | `Spec => []SucceededIsSubmitted` |
| `OnePlanForGood` | `Spec => OnePlanPerProposal` |

The assumptions are that the first input is an input, the sources considered are sources,
a missing plan is no plan and the bounds are naturals. `IInv` adds `WorkerOk`: a worker past
a stage knows that its gate was passed, with the plan it carries, and this stays true while
other runs come and go because verdicts and confirmations are never withdrawn (`Agreed`);
a worker that read a draft either submits it or finds it submitted. `Grows` states what no
step takes back (`WorkerUnmoved` uses it for the workers a step does not move), and
`OnlyWorker` and `JobOnly` are the frame lemmas for steps of a worker alone and of the
initiator.

`EntityMergeProofs` proves, for any entities, properties, labels, claims, merges and writers:

| Theorem | Statement |
|---|---|
| `TypeCorrect` | `Spec => []TypeOK` |
| `OneValuePerProperty` | `Spec => []SingleValueHolds` |
| `MergesNeverCycle` | `Spec => []NoMergeCycle` |
| `LedgerIsTrue` | `Spec => []LedgerAgrees` |
| `OneCurrentVersion` | `Spec => []OneVersion` |
| `OneAtATimeClaimsAreLive` | `SerialSpec => []ClaimsAreLive`, and of the serial behaviours of the run |

The assumptions are that `None` is no entity and no claim, and that the single-valued
properties and the created entities are properties and entities. `IInv` adds:

- `LocksHold`: an entity a transaction has locked is active and locked by no other, and a
  claim being superseded is published, as a claim selected by a merge is what it was when
  its lock was taken. A merge therefore puts an active entity under an
  active one, which closes no cycle, and a rollback only takes an edge away.
- `CountHolds`: what a transaction counted stays true until it writes. Only a transaction that
  has locked the subject adds a published value to it, or a merge that moves values to a
  target it has locked, or a rollback, which restores values only to a source that is merged
  and so locked by nobody.
- `MappingsOk`: the claim ids in a merge's map are used, and no id is the copy of two
  claims, since ids are new.
- `CopiesOk` and `Vacated`: a copy keeps its property and, unless it was about the source,
  its subject; and what an applied merge took from its source's single-valued properties
  stays vacant there until it is rolled back. Restoring a published value therefore meets
  no other one, although the rollback counts nothing.

`ClaimsMerged` and `ClaimsRestored` say what the two steps that rewrite many claims do to
each; `LocksKept`, `VersionsKept`, `VacatedKept` and `CopiesKept` are the frame lemmas.

The last theorem needs one transaction at a time: two of them leave current claims on merged
entities (`MCEntityMergeLive` above). `SerialInv` adds that a transaction still sees what it
has read (`Prepared`: an active target; every current claim that mentions the source of a
merge) and that a copy refers to what its claim refers to, unless that is the source
(`TargetsKept`). So a merge leaves no current claim at its source; and a claim that a rollback
restores mentions, beside the source, which is active again, only what its copy mentioned,
and the copy was current, hence live, until then.

`CollaborationProofs` proves, for any clients, snapshot interval, subscription buffer and
bounds, from `CollaborationAssumption` (numbers are naturals, the interval and the buffer
positive):

| Theorem | Statement |
|---|---|
| `TypeCorrect` | `Spec => [](~skipped => TypeOK)` |
| `CursorsAreComplete` | `Spec => []CursorIsComplete` |
| `CompactionLosesNothing` | `Spec => []NothingIsLost` |
| `SnapshotsExact` | `Spec => []SnapshotsAreExact` |
| `NobodyDenied` | `Spec => []NobodyIsDenied`: no client is refused for good over a snapshot |
| `PublicationsExact` | `Spec => []PublishedIsExact` |
| `MergesComplete` | `Spec => []MergesSeeEverything` |
| `NobodyWaitsForAnEcho` | `Spec => []QuietMeansSynced`: when nothing is left to do by itself, everybody is synchronised whom `refresh` has not disturbed |

Each property after the first has `~skipped` as its own premise: it holds until an unready client has
absorbed an update past a gap, and deaf clients do not disturb it. So the invariant proved is
`skipped \/ IInv`: `NextInv` shows that a step that skips nothing keeps `IInv`, `SkippedStays` that
what was skipped stays so. `NobodyWaitsForAnEcho` promises a client left unready only that it has
what the server has, and a deaf one nothing.

These hold each other up. A snapshot is exact because a client without pending updates has
exactly the document of its cursor; that needs complete cursors; those need exact snapshots,
since a client that recovers takes one in place of the rows. `IInv` says it at once:

- `LogOk`: the rows kept are exactly those after every snapshot, and a snapshot is the
  document at its sequence. `RecoveryIs` derives what `LoadSince` gives: every number past
  the cursor, by a row or by the snapshot, the rows without a gap, and the ready frame last.
- `RecordOk`: a client's document, in memory and in its store, is what its cursor says and
  its pending updates, nothing else.
- `Flow`, for each connection whose client is not deaf: everything up to the `written`
  sequence is behind the cursor or on the way; a ready frame comes after everything up to its
  sequence; and before the first ready frame updates arrive without a gap. The last one is
  needed because a client that has had no ready frame yet (`Listens` says which has) does not
  look for gaps, and it is why the first recovery, the broadcasts that were queued meanwhile
  and the ten-second catch-up may follow one another in any order.
- `Truthful` and `Sound`: what frames and messages say is true of the log and stays so while
  it grows (`SaidKept`).

`FlowRecover`, `FlowSend`, `FlowPoll`, `FlowReceive` and `FlowDown` say what each use of a
connection does to `Flow`, without the state of the system; `ClosedKeeps` serves the ways
a connection ends.

The last theorem is about what cannot be forgotten, and needs `EchoInv` beside `IInv`:

- `Awaited`: an update a ready client waits for is queued to be sent, or will be with the next
  ready frame, or is on its way up, or has a sequence the client has not reached (so what
  `Flow` promises to bring contains it). A broadcast that is lost leaves the last of these,
  a connection that is lost makes the client not ready.
- `Confirmed`: no row that is kept and behind a cursor is of an update pending there. An
  update sent again under its key is given its old row, whose echo would be behind the cursor
  otherwise.
- `Leads`: a snapshot on the way covers no row that is kept, and a ready frame follows it. A
  snapshot moves the cursor over updates without naming them, the client's own among them;
  the ready frame sends those again, under keys that the compaction has deleted.

`Quiet` says in terms of the state that no broadcast is due and no step of `Work` is possible,
because the prover does not reason about `ENABLED`. TLC agrees that the two are the same:
`QuietIsTheEnd`, added to the invariants of `MCCollaboration.cfg`, passes (863 thousand states),
as does `EchoInv`.

`ProposalsProofs` proves, for any proposals, blocks, contents, sessions and revisions,
`TypeCorrect` (`Spec => []TypeOK`), `NoSilentOverwrite` (`Spec => []OverwritesAreChosen`),
`AppliesOnce` (`Spec => []AppliedOnce`) and `ConflictsBlock` (`Spec => []OpenConflictsBlock`).
`IInv` adds:

- `SessionOk`: what a call has prepared takes, from the revision it expects, only operations
  on blocks that are what the hash says or were chosen by a human, or that carry no hash
  (`NoSilentOverwrite` promises nothing of the block's content for those, as the code does
  not). It stays true while
  others publish, because a revision never changes and operations are frozen; Apply writes
  only if the expected revision is still the last one, hence `BatchesChosen`.
- `BatchRows`: a batch row stands for one revision of the proposal, and a rolled back one for
  one more; an applied proposal has no second batch to make.
- `UndoneByOne`: two calls past the check of a rollback are not about the same proposal,
  because the check locks its batch.

What is only model-checked: liveness (`EventuallySettled`, `BatchCompletes`, `JobSettles`);
`QuietIsTheEnd`, which speaks of `ENABLED`; and `RetriesBackOff`, which says what the
recursive function `Doubled` computes and would need induction over data.

## 5. What is not modelled, and why

- Reads, rendering, search queries, parsing, HTTP decoding: no shared state changes.
- Content: block structure inside an AST, Yjs merging, titles' normalisation. Where a
  property could depend on it, the hazard says so (two clients seeding an empty
  document).
- Authorization: a refused request changes nothing; revoking rights during a session
  of collaborative editing is left out.
- Redis fan-out between API instances is a broadcast that may be lost.
- Several documents, wikis and namespaces: the modelled invariants are per page or per
  document, except titles and redirects, which have several pages.
- In Proposals, operations on titles, knowledge and collections, and proposals over
  several pages: they add targets with their own version checks to the same protocol.
- In BulkReview, a proposal whose batch was finalised elsewhere: a review that decides a
  sampled-out proposal first makes `Finalize` fail for good, which the model shows as a
  state without an end and no property forbids. The lock order of a review (task, then
  proposal, `review.go:167`) against a bulk decision (proposal, then task) is left out:
  PostgreSQL aborts one of the two, which then changed nothing.
- In ImportJob, the contents of sources and plans, and several proposals of one job.
- In EntityMerge, values, sources, verification, ranks, types, wikis, events and which label
  is primary: no guard of the modelled operations relates them to another transaction's
  rows. Aliases, page bindings, federation and the consistency job.
- In Projection, invalidation by claims, entities and related pages.

## 6. Plan

Done: Delivery, Outbox, PageHistory, Revisions, Projection, BulkReview, ImportJob, EntityMerge,
Collaboration, Proposals and PageIdentity with their proofs.

Next, in order of importance:

1. **LinkResolution** (titles of PageIdentity, rows of Projection): unresolved links and
   unresolved redirects, which can close a ring without a redirect being written.
2. **Publication**, composing Revisions, Collaboration's publish and Proposals' apply,
   for the base revision a working document keeps.
3. A composition of BulkReview with Proposals, in which Apply is not one step, and of
   ImportJob with several sources and proposals.
4. Page bindings of entities, with the page's primary entity and the deletion of both.
5. Smaller ones: link-health leases, sessions and device login, component freezing.

Abstract specifications worth stating beside `Delivery` and `PageHistory`: a document as a
growing set with exact publications (for Collaboration), a batch as an all-or-nothing change
(for Proposals).
