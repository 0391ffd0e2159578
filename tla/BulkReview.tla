----------------------------- MODULE BulkReview -----------------------------
(* Bulk review of proposals (backend/internal/governance/bulk_review.go):   *)
(* a batch freezes its proposals, a sample of them and their apply waves;   *)
(* reviewers decide the sample, the rest is approved with it, and calls of  *)
(* ApplyNextWave apply one wave after the other, one proposal at a time.    *)
(*                                                                          *)
(* ApplyNextWave is not one transaction: it starts the wave, reads the      *)
(* items, looks at the batch before each of them, applies, records, and     *)
(* finishes, each in a step of its own. A call may be cut off anywhere,     *)
(* and pausing and resuming lets a second call run beside the first. Apply  *)
(* itself is the subject of Proposals: here it is one step and an answer.   *)
EXTENDS Integers, FiniteSets, FiniteSetsExt

CONSTANTS
    Total,          \* proposals in the request
    WaveSize,       \* items of a wave
    SamplePercent,  \* share of the items that reviewers decide one by one
    Creates,        \* items that create a page or an entity under a new name
    Exposed,        \* items with an operation whose conflict no choice settles
    Runners,        \* concurrent ApplyNextWave calls
    MaxTroubles     \* bound: pauses, settled conflicts, failures and crashes

Items == 1..Total  \* their positions

ASSUME TotalAssumption == Total \in Nat \ {0}
ASSUME WaveAssumption == WaveSize \in Nat \ {0}
ASSUME SampleAssumption == SamplePercent \in 1..100
ASSUME CreatesAssumption == Creates \subseteq Items /\ Exposed \subseteq Items
ASSUME TroublesAssumption == MaxTroubles \in Nat

VARIABLES
    proposal,  \* status of each proposal, its risk, whether a reviewer decided it,
               \* and whether every Apply of it meets a conflict again
    taken,     \* items whose new name another change batch has taken
    batch,     \* bulk_review_batch: its status and the sampled items
    item,      \* bulk_review_batch_item: decision and apply status
    runner,    \* what each ApplyNextWave call has read
    met,       \* items whose Apply answered a wave with an identity conflict
    troubles   \* how much of MaxTroubles is used

vars == <<proposal, taken, batch, item, runner, met, troubles>>

Proposals == [status : {"in_review", "approved", "rejected", "merge_conflicted",
                        "identity_conflicted", "applied", "rolled_back"},
              high : BOOLEAN, human : BOOLEAN, blocked : BOOLEAN]
Answers == {"applied", "identity_conflict", "failed"}
Decisions == {"pending", "approved", "rejected"}
Idle == [pc |-> "idle"]
Running == [pc : {"reading"}, wave : Nat]
             \cup [pc : {"checking", "applying"}, wave : Nat, todo : SUBSET Items, failed : BOOLEAN]
             \cup [pc : {"recording"}, wave : Nat, todo : SUBSET Items, failed : BOOLEAN,
                   answer : Answers]

Init ==
    /\ proposal \in [Items -> {p \in Proposals : p.status = "in_review" /\ ~p.human /\ ~p.blocked}]
    /\ taken = {}
    /\ batch = [status |-> "none", sampled |-> {}]
    /\ item = [i \in Items |-> [decision |-> "pending", apply |-> "pending"]]
    /\ runner = [r \in Runners |-> Idle]
    /\ met = {}
    /\ troubles = 0

Trouble == troubles < MaxTroubles /\ troubles' = troubles + 1

(* A change batch of the proposal exists: Apply answers with it again.     *)
AlreadyApplied(i) == proposal[i].status \in {"applied", "rolled_back"}

SetStatus(i, s) == proposal' = [proposal EXCEPT ![i].status = s]

-----------------------------------------------------------------------------
(* Creating and reviewing the batch.                                       *)

FullByLastRisk(force) ==                                             \* mutation
    force \/ proposal[CHOOSE i \in Items : \A j \in Items : j <= i].high

(* Every item is sampled when the reviewer asks for it or one of the risks *)
(* is high or critical.                                                    *)
Full(force) == force \/ \E i \in Items : proposal[i].high

SampleCount == (Cardinality(Items) * SamplePercent + 99) \div 100

(* The hashes that order the items may choose any sample of that size.     *)
Samples(full) == IF full THEN {Items} ELSE kSubset(SampleCount, Items)

Create(force) ==
    /\ batch.status = "none"
    /\ \A i \in Items : proposal[i].status = "in_review"
    /\ \E s \in Samples(Full(force)) : batch' = [status |-> "reviewing", sampled |-> s]
    /\ UNCHANGED <<proposal, taken, item, runner, met, troubles>>

(* A verdict needs the pending review task, and closes it; byHuman: it is   *)
(* on this proposal, by a person or a system actor.                        *)
Verdict(i, approve, byHuman) ==
    [proposal[i] EXCEPT !.status = IF approve THEN "approved" ELSE "rejected",
                        !.human = byHuman]

Decide(i, approve) ==
    /\ batch.status = "reviewing"
    /\ item[i].decision = "pending" /\ proposal[i].status = "in_review"
    /\ proposal' = [proposal EXCEPT ![i] = Verdict(i, approve, TRUE)]
    /\ item' = [item EXCEPT ![i] = IF approve
                  THEN [decision |-> "approved", apply |-> "pending"]
                  ELSE [decision |-> "rejected", apply |-> "skipped"]]
    /\ UNCHANGED <<taken, batch, runner, met, troubles>>

(* The review queue decides a proposal whether or not a batch holds it.    *)
DecideAlone(i, approve) ==
    /\ proposal[i].status = "in_review"
    /\ proposal' = [proposal EXCEPT ![i] = Verdict(i, approve, TRUE)]
    /\ UNCHANGED <<taken, batch, item, runner, met, troubles>>

Undecided == {i \in Items : item[i].decision = "pending"}

Finalize ==
    /\ batch.status = "reviewing"
    /\ batch.sampled \cap Undecided = {}
    /\ \A i \in Undecided : proposal[i].status = "in_review"
    /\ proposal' = [i \in Items |-> IF i \in Undecided THEN Verdict(i, TRUE, FALSE)
                                                       ELSE proposal[i]]
    /\ item' = [i \in Items |-> IF i \in Undecided THEN [item[i] EXCEPT !.decision = "approved"]
                                                   ELSE item[i]]
    /\ batch' = [batch EXCEPT !.status =
                   IF \A i \in Items : item[i].decision = "rejected" THEN "completed"
                                                                      ELSE "ready"]
    /\ UNCHANGED <<taken, runner, met, troubles>>

-----------------------------------------------------------------------------
(* Pausing.                                                                *)

Pause ==
    /\ batch.status \in {"ready", "applying"}
    /\ Trouble
    /\ batch' = [batch EXCEPT !.status = "paused"]
    /\ UNCHANGED <<proposal, taken, item, runner, met>>

(* The way out of a wave whose call was cut off.                           *)
PauseStuck ==
    /\ batch.status = "applying" /\ \A r \in Runners : runner[r] = Idle
    /\ batch' = [batch EXCEPT !.status = "paused"]
    /\ UNCHANGED <<proposal, taken, item, runner, met, troubles>>

Resume ==
    /\ batch.status = "paused"
    /\ batch' = [batch EXCEPT !.status = "ready"]
    /\ UNCHANGED <<proposal, taken, item, runner, met, troubles>>

-----------------------------------------------------------------------------
(* Applying one proposal, by a wave or on its own.                         *)

Apply(i, answer) ==
    \/ /\ answer = "applied" /\ AlreadyApplied(i)
       /\ UNCHANGED <<proposal, troubles>>
    \/ /\ answer = "applied"
       /\ proposal[i].status = "approved" /\ i \notin taken /\ ~proposal[i].blocked
       /\ SetStatus(i, "applied") /\ UNCHANGED troubles
    \/ /\ answer = "identity_conflict"    \* detected, or refused by the unique index
       /\ proposal[i].status = "approved" /\ i \in taken
       /\ \E s \in {"identity_conflicted", "approved"} : SetStatus(i, s)
       /\ UNCHANGED troubles
    \/ /\ answer = "failed"               \* not approved, or in conflict already
       /\ proposal[i].status \notin {"approved", "applied", "rolled_back"}
       /\ UNCHANGED <<proposal, troubles>>
    \/ /\ answer = "failed"               \* the old conflict, or its choice cannot be applied
       /\ proposal[i].status = "approved" /\ i \notin taken /\ proposal[i].blocked
       /\ \E s \in {"merge_conflicted", "approved"} : SetStatus(i, s)
       /\ UNCHANGED troubles
    \/ /\ answer = "failed"               \* a new conflict, an error, a lost answer
       /\ proposal[i].status = "approved" /\ i \notin taken /\ ~proposal[i].blocked
       /\ \E s \in {"merge_conflicted", "approved", "applied"} : SetStatus(i, s)
       /\ Trouble

ApplyAlone(i) ==
    /\ \E answer \in Answers : Apply(i, answer)
    /\ proposal' # proposal
    /\ UNCHANGED <<taken, batch, item, runner, met>>

(* Merge conflicts can be settled, identity conflicts cannot. That the      *)
(* proposal is approved again does not mean that it can be applied.        *)
Resolve(i) ==
    /\ proposal[i].status = "merge_conflicted"
    /\ SetStatus(i, "approved")
    /\ UNCHANGED <<taken, batch, item, runner, met, troubles>>

Rollback(i) ==
    /\ proposal[i].status = "applied"
    /\ SetStatus(i, "rolled_back")
    /\ UNCHANGED <<taken, batch, item, runner, met, troubles>>

(* The page moves on under an operation that names no block, a claim leaves *)
(* the state an operation needs, or a block is deleted for which the        *)
(* proposal was chosen: each Apply fails on it, whatever has been chosen.   *)
Obstruct(i) ==
    /\ i \in Exposed /\ ~proposal[i].blocked /\ ~AlreadyApplied(i)
    /\ proposal' = [proposal EXCEPT ![i].blocked = TRUE]
    /\ UNCHANGED <<taken, batch, item, runner, met, troubles>>

(* The deleted block is back, or the page has moved on once more, so that   *)
(* its conflict is raised again and another choice can be made.            *)
Release(i) ==
    /\ proposal[i].blocked
    /\ proposal' = [proposal EXCEPT ![i].blocked = FALSE]
    /\ UNCHANGED <<taken, batch, item, runner, met, troubles>>

(* Another change batch creates the page or entity first.                  *)
TakeName(i) ==
    /\ i \in Creates \ taken /\ ~AlreadyApplied(i)
    /\ taken' = taken \cup {i}
    /\ UNCHANGED <<proposal, batch, item, runner, met, troubles>>

-----------------------------------------------------------------------------
(* ApplyNextWave.                                                          *)

Wave(i) == (i - 1) \div WaveSize + 1

OpenOnlyPending ==                                                   \* mutation
    {i \in Items : item[i].decision = "approved" /\ item[i].apply = "pending"}

Open == {i \in Items : item[i].decision = "approved" /\ item[i].apply \in {"pending", "failed"}}

NextWave == Min({Wave(i) : i \in Open})

StartOnlyWithWork(r) ==                                              \* mutation
    /\ runner[r] = Idle /\ batch.status = "ready" /\ Open # {}
    /\ batch' = [batch EXCEPT !.status = "applying"]
    /\ runner' = [runner EXCEPT ![r] = [pc |-> "reading", wave |-> NextWave]]
    /\ UNCHANGED <<proposal, taken, item, met, troubles>>

StartWave(r) ==
    /\ runner[r] = Idle
    /\ batch.status = "ready"
    /\ IF Open = {}
       THEN /\ batch' = [batch EXCEPT !.status = "completed"]
            /\ UNCHANGED runner
       ELSE /\ batch' = [batch EXCEPT !.status = "applying"]
            /\ runner' = [runner EXCEPT ![r] = [pc |-> "reading", wave |-> NextWave]]
    /\ UNCHANGED <<proposal, taken, item, met, troubles>>

ReadWave(r) ==
    /\ runner[r].pc = "reading"
    /\ runner' = [runner EXCEPT ![r] =
                    [pc |-> "checking", wave |-> runner[r].wave, failed |-> FALSE,
                     todo |-> {i \in Open : Wave(i) = runner[r].wave}]]
    /\ UNCHANGED <<proposal, taken, batch, item, met, troubles>>

CheckPaused(r) ==
    /\ runner[r].pc = "checking" /\ runner[r].todo # {}
    /\ runner' = [runner EXCEPT ![r] = IF batch.status = "paused" THEN Idle
                                       ELSE [@ EXCEPT !.pc = "applying"]]
    /\ UNCHANGED <<proposal, taken, batch, item, met, troubles>>

ApplyItem(r) ==
    /\ runner[r].pc = "applying"
    /\ \E answer \in Answers :
         /\ Apply(Min(runner[r].todo), answer)
         /\ runner' = [runner EXCEPT ![r] =
                         [pc |-> "recording", wave |-> runner[r].wave, todo |-> runner[r].todo,
                          failed |-> runner[r].failed, answer |-> answer]]
         /\ met' = IF answer = "identity_conflict" THEN met \cup {Min(runner[r].todo)} ELSE met
    /\ UNCHANGED <<taken, batch, item>>

RecordAlways(r) ==                                                   \* mutation
    /\ runner[r].pc = "recording"
    /\ item' = [item EXCEPT ![Min(runner[r].todo)].apply = "applied"]
    /\ runner' = [runner EXCEPT ![r] =
                    [pc |-> "checking", wave |-> runner[r].wave,
                     todo |-> runner[r].todo \ {Min(runner[r].todo)}, failed |-> FALSE]]
    /\ UNCHANGED <<proposal, taken, batch, met, troubles>>

(* The answer overwrites whatever the item's status has become. An identity *)
(* conflict would make it "skipped", which the table's CHECK allows for     *)
(* rejected items only: the UPDATE fails and the call ends.                 *)
RecordApply(r) ==
    /\ runner[r].pc = "recording"
    /\ LET i == Min(runner[r].todo) IN
       IF runner[r].answer = "identity_conflict"
       THEN /\ runner' = [runner EXCEPT ![r] = Idle]
            /\ UNCHANGED item
       ELSE /\ item' = [item EXCEPT ![i].apply = runner[r].answer]
            /\ runner' = [runner EXCEPT ![r] =
                            [pc |-> "checking", wave |-> runner[r].wave,
                             todo |-> runner[r].todo \ {i},
                             failed |-> runner[r].failed \/ runner[r].answer = "failed"]]
    /\ UNCHANGED <<proposal, taken, batch, met, troubles>>

AfterWave(failed) ==
    IF failed THEN "paused" ELSE IF Open = {} THEN "completed" ELSE "ready"

FinishWave(r) ==
    /\ runner[r].pc = "checking" /\ runner[r].todo = {}
    /\ batch' = IF batch.status = "applying"
                THEN [batch EXCEPT !.status = AfterWave(runner[r].failed)]
                ELSE batch
    /\ runner' = [runner EXCEPT ![r] = Idle]
    /\ UNCHANGED <<proposal, taken, item, met, troubles>>

(* The request is cancelled, or the server stops.                          *)
Crash(r) ==
    /\ runner[r] # Idle
    /\ Trouble
    /\ runner' = [runner EXCEPT ![r] = Idle]
    /\ UNCHANGED <<proposal, taken, batch, item, met>>

-----------------------------------------------------------------------------
RunnerStep(r) ==
    ReadWave(r) \/ CheckPaused(r) \/ ApplyItem(r) \/ RecordApply(r) \/ FinishWave(r)

Next ==
    \/ \E force \in BOOLEAN : Create(force)
    \/ Finalize \/ Pause \/ PauseStuck \/ Resume
    \/ \E i \in Items :
         \/ \E approve \in BOOLEAN : Decide(i, approve) \/ DecideAlone(i, approve)
         \/ ApplyAlone(i) \/ Resolve(i) \/ Rollback(i)
         \/ Obstruct(i) \/ Release(i) \/ TakeName(i)
    \/ \E r \in Runners : StartWave(r) \/ RunnerStep(r) \/ Crash(r)

Spec == Init /\ [][Next]_vars

(* Calls run on, and operators settle merge conflicts, end pauses, start   *)
(* the next wave and pause a wave that no call works on any more.          *)
Fairness ==
    /\ \A r \in Runners : WF_vars(RunnerStep(r)) /\ WF_vars(StartWave(r))
    /\ WF_vars(PauseStuck) /\ WF_vars(Resume)
    /\ \A i \in Items : WF_vars(Resolve(i))

FairSpec == Spec /\ Fairness

-----------------------------------------------------------------------------
(* Properties.                                                             *)

TypeOK ==
    /\ proposal \in [Items -> Proposals]
    /\ taken \subseteq Creates
    /\ batch \in [status : {"none", "reviewing", "ready", "applying", "paused", "completed"},
                  sampled : SUBSET Items]
    /\ item \in [Items -> [decision : Decisions,
                           apply : {"pending", "applied", "failed", "skipped"}]]
    /\ runner \in [Runners -> {Idle} \cup Running]
    /\ met \subseteq Items
    /\ troubles \in 0..MaxTroubles

(* Nothing goes live unreviewed: a proposal that was applied was decided by *)
(* a reviewer, or it was left out of a sample that was decided completely,  *)
(* of a batch without any high risk (Create, Decide, Finalize).             *)
NothingUnreviewedIsApplied ==
    \A i \in Items : AlreadyApplied(i) =>
        \/ proposal[i].human
        \/ /\ i \notin batch.sampled
           /\ \A j \in Items : ~proposal[j].high
           /\ \A j \in batch.sampled : proposal[j].human
           /\ Cardinality(batch.sampled) * 100 >= SamplePercent * Cardinality(Items)

(* Waves go live in order: while a call works on a wave, every approved     *)
(* proposal of the waves before has really been applied, whatever failed,   *)
(* was retried, overtaken or cut off before (ApplyNextWave).                *)
WavesInOrder ==
    \A r \in Runners : \A i \in Items :
        /\ runner[r] # Idle
        /\ item[i].decision = "approved" /\ Wave(i) < runner[r].wave
        => AlreadyApplied(i)

(* A completed batch has nothing left to do: every approved proposal really *)
(* has a change batch (ApplyNextWave, recordApply).                         *)
CompletedIsApplied ==
    batch.status = "completed" =>
        \A i \in Items : item[i].decision = "approved" => AlreadyApplied(i)

(* What keeps a wave from applying an item: of an item whose name is taken, *)
(* the wave gets no further; one that meets its conflict again holds up     *)
(* itself and the waves after its own.                                     *)
Waiting(j) == item[j].decision = "approved" /\ ~AlreadyApplied(j)

Hindered(i) ==
    \/ \E j \in taken : Waiting(j) /\ j <= i
    \/ \E j \in Items : Waiting(j) /\ proposal[j].blocked /\ (j = i \/ Wave(j) < Wave(i))

(* Over failures, cut-off calls, pauses and settled conflicts, as long as   *)
(* operators keep going: each approved proposal is applied, unless it is    *)
(* hindered, so a conflict that comes back at every Apply holds up no other *)
(* proposal of its wave; and a batch with no proposal hindered completes.   *)
BatchCompletes ==
    /\ \A i \in Items :
          batch.status = "ready" /\ item[i].decision = "approved"
              ~> AlreadyApplied(i) \/ Hindered(i)
    /\ batch.status = "ready"
          ~> batch.status = "completed" \/ \E i \in Items : Waiting(i) /\ Hindered(i)

(* As long as operators keep going and no name is taken, settling conflicts *)
(* is enough: a failed item is for the next wave, and once its conflicts    *)
(* are resolved the proposal is approved (conflict_resolution.go:125).     *)
SettlingIsEnough ==
    batch.status = "ready" ~>
        batch.status = "completed" \/ \E i \in taken : item[i].decision = "approved"

(* An identity conflict ends an item: the proposal cannot become applicable *)
(* by retrying, so the item is no part of a later wave (bulk_review.go:737).*)
IdentityConflictIsTerminal ==
    [][\A r \in Runners : runner[r].pc = "reading" /\ runner'[r].pc = "checking"
         => runner'[r].todo \cap met = {}]_vars

(* What an item's record says of a change batch stays said: an applied item *)
(* is not turned into a failed one by a call that was overtaken.            *)
AppliedStaysRecorded ==
    [][\A i \in Items : item[i].apply = "applied" => item'[i].apply = "applied"]_vars
=============================================================================
