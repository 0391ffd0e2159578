----------------------------- MODULE ImportJob ------------------------------
(* An import job and the runs that work on it (backend/internal/importer:   *)
(* service.go, repository.go, pipeline.go, runner.go, safety.go).           *)
(*                                                                          *)
(* Workers claim the queued job, each claim a new run, and take it through  *)
(* the stages of the pipeline; every call on the job, its runs and the      *)
(* proposal is a transaction of its own. The initiator may cancel, retry,   *)
(* replan, confirm or review it meanwhile, a worker may fail or be killed   *)
(* anywhere, and a job whose worker went silent is queued again.            *)
(*                                                                          *)
(* What the models read out of the source is its data: whether it looks     *)
(* like a prompt injection, and which planning inputs give a good plan.     *)
(* A worker's deadline is one of its failures; a job is stale once every    *)
(* deadline has passed, so no worker but a failing one is left then.        *)
EXTENDS Naturals, Sequences

CONSTANTS
    Workers,
    Inputs,       \* planning inputs the initiator gives
    FirstInput,   \* the one the job was created with
    NoPlan,       \* a missing plan id
    GivenSources, \* the sources considered
    MaxRequests,  \* bound: requests of the initiator
    MaxTroubles   \* bound: workers killed, and failures reported after recovery

Plans == [input : Inputs, reviewed : BOOLEAN]
Sources == [only : BOOLEAN, threat : {"none", "suspected", "direct"}, good : SUBSET Inputs]

ASSUME NoPlanAssumption == NoPlan \notin Plans
ASSUME SourcesAssumption == GivenSources \subseteq Sources
ASSUME InputsAssumption == FirstInput \in Inputs
ASSUME BoundsAssumption == MaxRequests \in Nat /\ MaxTroubles \in Nat

VARIABLES
    source,    \* what there is to import, and what the models make of it
    job,       \* import_job
    run,       \* import_run: status by attempt
    worker,    \* what each worker is doing
    proposal,  \* the job's proposal: status, plan it was made from, Full Access or not
    safety,    \* the initiator's verdict on a suspected injection
    agreed,    \* plans the initiator confirmed
    requests, troubles

vars == <<source, job, run, worker, proposal, safety, agreed, requests, troubles>>

Jobs == [status : {"queued", "running", "action_required", "succeeded", "failed", "cancelled"},
         waits : {"none", "safety", "quality_gate", "confirm_plan"},
         input : Inputs, plan : Plans \cup {NoPlan}, confirmed : Plans \cup {NoPlan},
         parsed : BOOLEAN, linked : BOOLEAN]
RunStatuses == {"running", "succeeded", "failed", "cancelled"}
Stages == <<"parse", "extract", "plan", "match", "compose", "review">>
StageNames == {Stages[k] : k \in DOMAIN Stages}
ProposalStatuses == {"none", "draft", "in_review", "approved", "applied"}
Asks == {"nothing", "safety", "quality_gate", "confirm_plan", "resolve_entities"}
WorkerStates == [pc : {"idle", "starting", "working", "freezing", "composed", "applying",
                       "submitted", "asking", "finishing", "failing"},
                 run : Nat, stage : StageNames, input : Inputs,
                 confirmed : Plans \cup {NoPlan}, plan : Plans \cup {NoPlan},
                 read : ProposalStatuses, asks : Asks]
Idle == [pc |-> "idle", run |-> 0, stage |-> "parse", input |-> FirstInput,
         confirmed |-> NoPlan, plan |-> NoPlan, read |-> "none", asks |-> "nothing"]

Init ==
    /\ source \in GivenSources
    /\ job = [status |-> "queued", waits |-> "none", input |-> FirstInput, plan |-> NoPlan,
              confirmed |-> NoPlan, parsed |-> FALSE, linked |-> FALSE]
    /\ run = <<>>
    /\ worker = [w \in Workers |-> Idle]
    /\ proposal = [status |-> "none", plan |-> NoPlan, full |-> FALSE]
    /\ safety = "none"
    /\ agreed = {}
    /\ requests = 0 /\ troubles = 0

RunningRuns == {k \in DOMAIN run : run[k] = "running"}
RunningRun == CHOOSE k \in RunningRuns : \A l \in RunningRuns : l <= k

(* FinishRun changes a run that is still running.                          *)
Finished(k, s) == [run EXCEPT ![k] = IF @ = "running" THEN s ELSE @]

-----------------------------------------------------------------------------
(* The initiator.                                                          *)

Request == requests < MaxRequests /\ requests' = requests + 1

Cancel ==
    /\ job.status \in {"queued", "running", "action_required"}
    /\ Request
    /\ job' = [job EXCEPT !.status = "cancelled", !.waits = "none"]
    /\ run' = IF job.status = "running" /\ RunningRuns # {}
              THEN Finished(RunningRun, "cancelled") ELSE run
    /\ UNCHANGED <<source, worker, proposal, safety, agreed, troubles>>

Retry ==
    /\ job.status \in {"failed", "cancelled"}
    /\ Request
    /\ job' = [job EXCEPT !.status = "queued", !.waits = "none"]
    /\ UNCHANGED <<source, run, worker, proposal, safety, agreed, troubles>>

RequeueForPlanning(i) ==
    /\ ~job.linked
    /\ job.status \in {"action_required", "failed", "cancelled", "succeeded"}
    /\ job' = [job EXCEPT !.status = "queued", !.waits = "none", !.input = i,
                          !.confirmed = NoPlan]

Replan(i) ==
    /\ job.parsed /\ proposal.status = "none"
    /\ Request
    /\ RequeueForPlanning(i)
    /\ UNCHANGED <<source, run, worker, proposal, safety, agreed, troubles>>

ConfirmPlan(p) ==
    /\ p.input \in source.good
    /\ job.plan = p /\ job.confirmed # p
    /\ job.status = "action_required" /\ job.waits = "confirm_plan"
    /\ Request
    /\ job' = [job EXCEPT !.status = "queued", !.waits = "none", !.confirmed = p]
    /\ agreed' = agreed \cup {p}
    /\ UNCHANGED <<source, run, worker, proposal, safety, troubles>>

(* A direct injection can only be rejected.                                *)
ReviewSafety(verdict) ==
    /\ job.status \in {"failed", "action_required"} /\ job.waits = "safety"
    /\ safety = "none"
    /\ Request
    /\ safety' = verdict
    /\ \/ /\ verdict = "accept" /\ source.threat = "suspected"
          /\ RequeueForPlanning(job.input)
       \/ /\ verdict = "reject"
          /\ job' = [job EXCEPT !.status = "cancelled"]
    /\ UNCHANGED <<source, run, worker, proposal, agreed, troubles>>

-----------------------------------------------------------------------------
(* Claiming, failing and recovering.                                       *)

SameRun == IF run = <<>> THEN <<"running">> ELSE run                 \* mutation

(* A claim begins a run of its own.                                        *)
NewRun == Append(run, "running")

Claim(w) ==
    /\ worker[w] = Idle
    /\ job.status = "queued"
    /\ job' = [job EXCEPT !.status = "running", !.waits = "none"]
    /\ run' = NewRun
    /\ worker' = [worker EXCEPT ![w] = [Idle EXCEPT !.pc = "starting", !.run = Len(NewRun),
                                          !.input = job.input, !.confirmed = job.confirmed]]
    /\ UNCHANGED <<source, proposal, safety, agreed, requests, troubles>>

Goto(w, pc) == worker' = [worker EXCEPT ![w].pc = pc]

(* On its way to report a failure.                                         *)
GiveUp(w, asks) ==
    worker' = [worker EXCEPT ![w] = [Idle EXCEPT !.pc = "failing", !.run = worker[w].run,
                                                 !.asks = asks]]

Live == {w \in Workers : worker[w].pc \notin {"idle", "failing"}}

(* An error of any kind, the deadline included.                            *)
Break(w) ==
    /\ w \in Live
    /\ GiveUp(w, "nothing")
    /\ UNCHANGED <<source, job, run, proposal, safety, agreed, requests, troubles>>

(* Reported twice. A failure that comes late, or from a run that was       *)
(* replaced, is ignored.                                                   *)
Fail(w) ==
    /\ worker[w].pc = "failing"
    /\ IF job.status = "running" /\ RunningRuns # {} /\ RunningRun = worker[w].run
       THEN /\ job' = [job EXCEPT !.status = "failed",
                          !.waits = IF worker[w].asks = "safety" THEN "safety" ELSE "none"]
            /\ run' = Finished(worker[w].run, "failed")
       ELSE UNCHANGED <<job, run>>
    /\ worker' = [worker EXCEPT ![w] = Idle]
    /\ UNCHANGED <<source, proposal, safety, agreed, requests, troubles>>

Trouble == troubles < MaxTroubles /\ troubles' = troubles + 1

(* The process is killed before it can report anything.                    *)
Crash(w) ==
    /\ worker[w].pc = "failing"
    /\ Trouble
    /\ worker' = [worker EXCEPT ![w] = Idle]
    /\ UNCHANGED <<source, job, run, proposal, safety, agreed, requests>>

RecoverUnparsed ==                                                   \* mutation
    /\ job.status = "running" /\ ~job.parsed /\ Live = {} /\ RunningRuns # {}
    /\ IF \A w \in Workers : worker[w] = Idle THEN UNCHANGED troubles ELSE Trouble
    /\ run' = Finished(RunningRun, "failed")
    /\ job' = [job EXCEPT !.status = "queued"]
    /\ UNCHANGED <<source, worker, proposal, safety, agreed, requests>>

RecoverStale ==
    /\ job.status = "running" /\ Live = {}
    /\ RunningRuns # {}
    /\ IF \A w \in Workers : worker[w] = Idle THEN UNCHANGED troubles ELSE Trouble
    /\ run' = Finished(RunningRun, "failed")
    /\ job' = [job EXCEPT !.status = "queued", !.waits = "none"]
    /\ UNCHANGED <<source, worker, proposal, safety, agreed, requests>>

-----------------------------------------------------------------------------
(* The pipeline.                                                           *)

StartStage(w) ==
    /\ worker[w].pc = "starting"
    /\ IF run[worker[w].run] = "running" /\ job.status = "running"
       THEN Goto(w, "working") ELSE GiveUp(w, "nothing")
    /\ UNCHANGED <<source, job, run, proposal, safety, agreed, requests, troubles>>

(* A stage row is running as long as its run is: they are finished together. *)
StageRunning(w) == run[worker[w].run] = "running"

NextStage(s) == Stages[1 + CHOOSE k \in 1..5 : Stages[k] = s]

StartNext(w) ==
    worker' = [worker EXCEPT ![w].pc = "starting", ![w].stage = NextStage(@)]

CompleteStage(w) == IF StageRunning(w) THEN StartNext(w) ELSE GiveUp(w, "nothing")

Working(w, s) == worker[w].pc = "working" /\ worker[w].stage = s

Ask(w, what) == worker' = [worker EXCEPT ![w].pc = "asking", ![w].asks = what]

(* Fetching, a stage of its own before parsing, touches its own row only.  *)
Parse(w) ==
    /\ Working(w, "parse")
    /\ IF StageRunning(w) /\ job.status = "running"
       THEN /\ job' = [job EXCEPT !.parsed = TRUE]
            /\ IF source.only THEN Goto(w, "finishing") ELSE StartNext(w)
       ELSE GiveUp(w, "nothing") /\ UNCHANGED job
    /\ UNCHANGED <<source, run, proposal, safety, agreed, requests, troubles>>

Extract(w) ==
    /\ Working(w, "extract")
    /\ CASE source.threat = "direct" \/ safety = "reject" ->
              GiveUp(w, "safety")
         [] source.threat = "suspected" /\ safety = "none" -> Ask(w, "safety")
         [] OTHER -> CompleteStage(w)
    /\ UNCHANGED <<source, job, run, proposal, safety, agreed, requests, troubles>>

PlanOf(w) == [input |-> worker[w].input, reviewed |-> safety = "accept"]

AutoConfirmGood(p) == p.input \in source.good                        \* mutation

(* Good plans need no confirmation, unless an injection was suspected.     *)
AutoConfirm(p) == p.input \in source.good /\ ~p.reviewed

Plan(w) ==
    /\ Working(w, "plan")
    /\ IF StageRunning(w) /\ job.status = "running"
       THEN /\ job' = [job EXCEPT !.plan = PlanOf(w),
                          !.confirmed = IF AutoConfirm(PlanOf(w)) THEN PlanOf(w) ELSE @]
            /\ CASE worker[w].input \notin source.good -> Ask(w, "quality_gate")
                 [] safety = "accept" /\ worker[w].confirmed # PlanOf(w) -> Ask(w, "confirm_plan")
                 [] OTHER -> worker' = [worker EXCEPT ![w] =
                       [Idle EXCEPT !.pc = "starting", !.stage = "match",
                                    !.run = worker[w].run, !.plan = PlanOf(w)]]
       ELSE GiveUp(w, "nothing") /\ UNCHANGED job
    /\ UNCHANGED <<source, run, proposal, safety, agreed, requests, troubles>>

Match(w, ambiguous) ==
    /\ Working(w, "match")
    /\ IF ambiguous /\ StageRunning(w) THEN Ask(w, "resolve_entities") ELSE CompleteStage(w)
    /\ UNCHANGED <<source, job, run, proposal, safety, agreed, requests, troubles>>

(* One proposal per job and source, whichever run comes first.             *)
Compose(w, nothing) ==
    /\ Working(w, "compose")
    /\ IF nothing
       THEN Goto(w, "composed") /\ UNCHANGED proposal
       ELSE /\ proposal' = IF proposal.status = "none"
                           THEN [proposal EXCEPT !.status = "draft"] ELSE proposal
            /\ worker' = [worker EXCEPT ![w].read = proposal'.status,
                            ![w].pc = IF proposal.plan = NoPlan THEN "freezing" ELSE "composed"]
    /\ UNCHANGED <<source, job, run, safety, agreed, requests, troubles>>

FreezeAgain(w) ==                                                    \* mutation
    /\ worker[w].pc = "freezing"
    /\ IF proposal.status = "draft"
       THEN /\ proposal' = [proposal EXCEPT !.plan = worker[w].plan]
            /\ Goto(w, "composed")
       ELSE GiveUp(w, "nothing") /\ UNCHANGED proposal
    /\ UNCHANGED <<source, job, run, safety, agreed, requests, troubles>>

(* Another run may have frozen its operations since: they are kept.        *)
FreezeOperations(w) ==
    /\ worker[w].pc = "freezing"
    /\ IF proposal.status = "draft"
       THEN /\ proposal' = IF proposal.plan = NoPlan
                           THEN [proposal EXCEPT !.plan = worker[w].plan] ELSE proposal
            /\ Goto(w, "composed")
       ELSE GiveUp(w, "nothing") /\ UNCHANGED proposal
    /\ UNCHANGED <<source, job, run, safety, agreed, requests, troubles>>

CompleteCompose(w) ==
    /\ worker[w].pc = "composed"
    /\ CompleteStage(w)
    /\ UNCHANGED <<source, job, run, proposal, safety, agreed, requests, troubles>>

NeverSubmitted(w) == FALSE                                           \* mutation

(* The proposal was a draft when this run composed it.                     *)
ToSubmit(w) == worker[w].read = "draft"

(* Full Access approves the proposal and has the worker apply it.          *)
Submit(w, fullAccess) ==
    /\ Working(w, "review") /\ ToSubmit(w)
    /\ IF proposal.status = "draft"
       THEN /\ \E s \in IF fullAccess THEN {"approved"} ELSE {"in_review", "approved"} :
                 proposal' = [proposal EXCEPT !.status = s, !.full = fullAccess]
            /\ Goto(w, IF fullAccess THEN "applying" ELSE "submitted")
       ELSE GiveUp(w, "nothing") /\ UNCHANGED proposal
    /\ UNCHANGED <<source, job, run, safety, agreed, requests, troubles>>

Apply(w) ==
    /\ worker[w].pc = "applying"
    /\ proposal' = [proposal EXCEPT !.status = "applied"]
    /\ Goto(w, "submitted")
    /\ UNCHANGED <<source, job, run, safety, agreed, requests, troubles>>

CompleteReview(w) ==
    /\ worker[w].pc = "submitted" \/ (Working(w, "review") /\ ~ToSubmit(w))
    /\ IF StageRunning(w) THEN Goto(w, "finishing") ELSE GiveUp(w, "nothing")
    /\ UNCHANGED <<source, job, run, proposal, safety, agreed, requests, troubles>>

(* The job must be running, in whichever run.                              *)
Succeed(w) ==
    /\ worker[w].pc = "finishing"
    /\ IF job.status = "running"
       THEN /\ job' = [job EXCEPT !.status = "succeeded", !.waits = "none",
                                  !.linked = @ \/ worker[w].read # "none"]
            /\ run' = Finished(worker[w].run, "succeeded")
            /\ worker' = [worker EXCEPT ![w] = Idle]
       ELSE GiveUp(w, "nothing") /\ UNCHANGED <<job, run>>
    /\ UNCHANGED <<source, proposal, safety, agreed, requests, troubles>>

(* The CHECK of import_job.action_required knows two actions.              *)
Allowed(what) == what # "resolve_entities"

RequireAction(w) ==
    /\ worker[w].pc = "asking"
    /\ IF job.status = "running" /\ Allowed(worker[w].asks)
       THEN /\ job' = [job EXCEPT !.status = "action_required", !.waits = worker[w].asks]
            /\ run' = Finished(worker[w].run, "succeeded")
            /\ worker' = [worker EXCEPT ![w] = Idle]
       ELSE GiveUp(w, "nothing") /\ UNCHANGED <<job, run>>
    /\ UNCHANGED <<source, proposal, safety, agreed, requests, troubles>>

-----------------------------------------------------------------------------
Pipeline(w) ==
    \/ StartStage(w) \/ Parse(w) \/ Extract(w) \/ Plan(w)
    \/ \E choice \in BOOLEAN : Match(w, choice) \/ Compose(w, choice) \/ Submit(w, choice)
    \/ FreezeOperations(w) \/ CompleteCompose(w) \/ Apply(w) \/ CompleteReview(w)
    \/ Succeed(w) \/ RequireAction(w) \/ Fail(w)

Initiator ==
    \/ Cancel \/ Retry
    \/ \E i \in Inputs : Replan(i)
    \/ \E p \in Plans : ConfirmPlan(p)
    \/ \E verdict \in {"accept", "reject"} : ReviewSafety(verdict)

Next ==
    \/ Initiator \/ RecoverStale
    \/ \E w \in Workers : Claim(w) \/ Pipeline(w) \/ Break(w) \/ Crash(w)

Spec == Init /\ [][Next]_vars

(* Workers poll the queue and look for stale jobs; one that works on a job *)
(* goes on or runs into its deadline.                                      *)
FairSpec ==
    /\ Spec
    /\ WF_vars(RecoverStale)
    /\ WF_vars(\E w \in Workers : Claim(w))
    /\ \A w \in Workers : WF_vars(Pipeline(w) \/ Break(w))

-----------------------------------------------------------------------------
(* Properties.                                                             *)

TypeOK ==
    /\ source \in Sources
    /\ job \in Jobs
    /\ run \in Seq(RunStatuses)
    /\ worker \in [Workers -> WorkerStates]
    /\ proposal \in [status : ProposalStatuses, plan : Plans \cup {NoPlan}, full : BOOLEAN]
    /\ safety \in {"none", "accept", "reject"}
    /\ agreed \subseteq Plans
    /\ requests \in 0..MaxRequests /\ troubles \in 0..MaxTroubles

(* A running job has a run in progress, its newest: otherwise RecoverStale *)
(* would fail on the job for ever and no job behind it would be recovered  *)
(* (ClaimNext, Cancel, Fail, Succeed and RecoverStale keep them together). *)
RunningJobHasItsRun ==
    job.status = "running" => Len(run) > 0 /\ run[Len(run)] = "running"

(* What gets into a proposal passed every gate, whatever was retried or    *)
(* replanned meanwhile: the plan is good, and if an injection was          *)
(* suspected the initiator accepted the source and confirmed that plan.    *)
GatesHold ==
    proposal.plan # NoPlan =>
        /\ source.threat # "direct" /\ ~source.only
        /\ proposal.plan.input \in source.good
        /\ source.threat = "suspected" => safety = "accept" /\ proposal.plan \in agreed

(* A proposal is made from one plan, once: runs that overlap do not mix    *)
(* their operations (composer.go, AddOperationsV1).                        *)
OnePlanPerProposal ==
    [][proposal.plan # NoPlan => proposal'.plan = proposal.plan]_vars

(* A job that succeeded with a proposal has submitted all of it.           *)
SucceededIsSubmitted ==
    job.linked => proposal.status \notin {"none", "draft"} /\ proposal.plan # NoPlan

(* A queued job comes to an end or to a question, over failed and killed   *)
(* workers (claimNext, RecoverStale).                                      *)
JobSettles == job.status = "queued" ~> job.status \notin {"queued", "running"}

(* Ambiguous entities are put to the initiator: a run that asks about a    *)
(* running job leaves it waiting (pipeline.go:372, types.go:41).           *)
QuestionsAreAsked ==
    [][\A w \in Workers : RequireAction(w) /\ job.status = "running"
         => job'.status = "action_required"]_vars

(* A run that was cancelled or recovered decides nothing about its job.    *)
OvertakenDecideNothing ==
    [][\A w \in Workers :
         worker[w].pc \in {"finishing", "asking"} /\ run[worker[w].run] # "running"
         /\ worker'[w] = Idle /\ troubles' = troubles
           => job' = job]_vars

(* A Full Access import is applied by the worker: once its job succeeded,  *)
(* the proposal has been (pipeline.go:430-444).                             *)
FullAccessIsApplied == job.linked /\ proposal.full => proposal.status = "applied"
=============================================================================
