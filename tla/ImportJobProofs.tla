-------------------------- MODULE ImportJobProofs ---------------------------
(* Theorems about ImportJob for any workers, planning inputs, sources,     *)
(* requests and troubles.                                                  *)
EXTENDS ImportJob, TLAPS

(* What holds once the source is extracted, and once its plan is made.     *)
SourcePassed ==
    /\ source.threat # "direct" /\ ~source.only
    /\ source.threat = "suspected" => safety = "accept"

Passed(p) ==
    /\ SourcePassed
    /\ p.input \in source.good
    /\ source.threat = "suspected" => p \in agreed

Agreed(p) == p # NoPlan /\ p.reviewed => p \in agreed

Submitted == proposal.status \notin {"none", "draft"}

(* What a worker knows about the job's past, in its state v.               *)
Active(v) == v.pc \notin {"idle", "failing"}
Composed(v) == v.pc = "composed" \/ v.stage = "review"

WorkerOk(v) ==
    /\ v.pc # "idle" => v.run \in 1..Len(run)
    /\ Agreed(v.confirmed)
    /\ v.pc = "asking" => v.asks # "nothing"
    /\ v.pc \in {"freezing", "composed"} => v.stage = "compose"
    /\ v.pc \in {"applying", "submitted"} => v.stage = "review" /\ v.read = "draft" /\ Submitted
    /\ Active(v) /\ v.stage # "parse" => ~source.only
    /\ Active(v) /\ v.stage \notin {"parse", "extract"} => SourcePassed
    /\ Active(v) /\ v.stage \in {"match", "compose", "review"} => v.plan \in Plans /\ Passed(v.plan)
    /\ Active(v) /\ v.read # "none" =>
         /\ v.stage = "review" \/ v.pc \in {"freezing", "composed"}
         /\ proposal.status # "none"
         /\ Composed(v) => proposal.plan # NoPlan
         /\ v.read # "draft" \/ v.pc = "finishing" => Submitted

IInv ==
    /\ TypeOK
    /\ \A w \in Workers : WorkerOk(worker[w])
    /\ Agreed(job.confirmed)
    /\ RunningJobHasItsRun
    /\ GatesHold
    /\ SucceededIsSubmitted

-----------------------------------------------------------------------------
(* Stages.                                                                 *)

LEMMA StagesAre ==
    /\ Stages[1] = "parse" /\ Stages[2] = "extract" /\ Stages[3] = "plan"
    /\ Stages[4] = "match" /\ Stages[5] = "compose" /\ Stages[6] = "review"
    /\ DOMAIN Stages = 1..6
  BY DEF Stages

LEMMA StageNamesAre ==
    StageNames = {"parse", "extract", "plan", "match", "compose", "review"}
  BY StagesAre DEF StageNames

LEMMA NextStages ==
    /\ NextStage("parse") = "extract" /\ NextStage("extract") = "plan"
    /\ NextStage("plan") = "match" /\ NextStage("match") = "compose"
    /\ NextStage("compose") = "review"
<1>1. ASSUME NEW k \in 1..5 PROVE NextStage(Stages[k]) = Stages[k + 1]
  <2> DEFINE l == CHOOSE l \in 1..5 : Stages[l] = Stages[k]
  <2>1. l \in 1..5 /\ Stages[l] = Stages[k]
    OBVIOUS
  <2> HIDE DEF l
  <2>2. \A a, b \in 1..5 : Stages[a] = Stages[b] => a = b
    BY StagesAre
  <2>3. l = k /\ 1 + k = k + 1
    BY <2>1, <2>2
  <2>4. QED
    BY <2>3 DEF NextStage, l
<1>2. QED
  BY <1>1, StagesAre

-----------------------------------------------------------------------------
(* Steps that change one worker, or none.                                  *)

Grows ==
    /\ source' = source
    /\ Len(run') >= Len(run)
    /\ agreed \subseteq agreed'
    /\ safety = "accept" => safety' = "accept"
    /\ proposal.status # "none" => proposal'.status # "none"
    /\ Submitted => Submitted'
    /\ proposal.plan # NoPlan => proposal'.plan = proposal.plan

LEMMA NothingNew ==
    ASSUME TypeOK, Len(run') = Len(run), UNCHANGED <<source, proposal, safety, agreed>>
    PROVE  Grows
<1>1. Len(run) \in Nat
  BY DEF TypeOK
<1>2. QED
  BY <1>1 DEF Grows, Submitted

LEMMA WorkerUnmoved ==
    ASSUME IInv, TypeOK', Grows, NEW q \in Workers, worker'[q] = worker[q]
    PROVE  WorkerOk(worker[q])'
<1> DEFINE v == worker[q]
<1>0. WorkerOk(v) /\ Len(run) \in Nat /\ Len(run') \in Nat /\ v.run \in Nat
  BY DEF IInv, TypeOK, WorkerStates
<1>1. SourcePassed => SourcePassed'
  BY DEF SourcePassed, Grows
<1>2. \A p : Passed(p) => SourcePassed' /\ p.input \in source'.good
                          /\ (source'.threat = "suspected" => p \in agreed')
  BY <1>1 DEF Passed, Grows
<1>3. v.pc # "idle" => v.run \in 1..Len(run')
  BY <1>0 DEF WorkerOk, Grows
<1>4. v.confirmed # NoPlan /\ v.confirmed.reviewed => v.confirmed \in agreed'
  BY <1>0 DEF WorkerOk, Agreed, Grows
<1>5. /\ v.pc = "asking" => v.asks # "nothing"
      /\ v.pc \in {"freezing", "composed"} => v.stage = "compose"
      /\ v.pc \in {"applying", "submitted"} => v.stage = "review" /\ v.read = "draft" /\ Submitted'
  BY <1>0 DEF WorkerOk, Grows
<1>6. /\ Active(v) /\ v.stage # "parse" => ~source'.only
      /\ Active(v) /\ v.stage \notin {"parse", "extract"} => SourcePassed'
  BY <1>0, <1>1 DEF WorkerOk, Grows
<1>7. Active(v) /\ v.stage \in {"match", "compose", "review"} =>
        /\ v.plan \in Plans
        /\ SourcePassed' /\ v.plan.input \in source'.good
        /\ source'.threat = "suspected" => v.plan \in agreed'
  BY <1>0, <1>2 DEF WorkerOk
<1>8. Active(v) /\ v.read # "none" =>
         /\ v.stage = "review" \/ v.pc \in {"freezing", "composed"}
         /\ proposal'.status # "none"
         /\ Composed(v) => proposal'.plan # NoPlan
         /\ v.read # "draft" \/ v.pc = "finishing" => Submitted'
  BY <1>0 DEF WorkerOk, Grows
<1>9. QED
  BY <1>3, <1>4, <1>5, <1>6, <1>7, <1>8 DEF WorkerOk, Agreed, Active, Composed, Passed

LEMMA GatesKept ==
    ASSUME GatesHold, Grows, proposal'.plan = proposal.plan
    PROVE  GatesHold'
  BY DEF GatesHold, Grows

LEMMA LinkKept ==
    ASSUME SucceededIsSubmitted, Grows, job'.linked = job.linked
    PROVE  SucceededIsSubmitted'
  BY DEF SucceededIsSubmitted, Grows, Submitted

LEMMA WorkerMoves ==
    ASSUME IInv, TypeOK', Grows, NEW w \in Workers,
           \A q \in Workers \ {w} : worker'[q] = worker[q],
           WorkerOk(worker[w])',
           Agreed(job.confirmed)', RunningJobHasItsRun',
           proposal'.plan = proposal.plan \/ GatesHold',
           job'.linked = job.linked \/ SucceededIsSubmitted'
    PROVE  IInv'
<1>1. \A q \in Workers : WorkerOk(worker[q])'
  BY WorkerUnmoved
<1>2. GatesHold' /\ SucceededIsSubmitted'
  BY GatesKept, LinkKept DEF IInv
<1>3. QED
  BY <1>1, <1>2 DEF IInv

(* The end of a worker's run.                                              *)
LEMMA IdleOk ==
    ASSUME NEW w \in Workers, worker'[w] = Idle
    PROVE  WorkerOk(worker[w])'
  BY DEF WorkerOk, Idle, Agreed, Active

LEMMA FailingOk ==
    ASSUME TypeOK, TypeOK', IInv, Grows, NEW w \in Workers, worker[w].pc # "idle",
           NEW a \in Asks,
           worker'[w] = [Idle EXCEPT !.pc = "failing", !.run = worker[w].run, !.asks = a]
    PROVE  WorkerOk(worker[w])'
<1>1. worker[w].run \in 1..Len(run) /\ Len(run) \in Nat /\ Len(run') \in Nat
  BY DEF IInv, WorkerOk, TypeOK
<1>2. worker[w].run \in 1..Len(run')
  BY <1>1 DEF Grows
<1>3. worker'[w].pc = "failing" /\ worker'[w].run = worker[w].run /\ worker'[w].confirmed = NoPlan
  BY DEF Idle
<1>4. QED
  BY <1>2, <1>3 DEF WorkerOk, Agreed, Active

(* Steps that tell no other worker anything but what is in the job.        *)
LEMMA OnlyWorker ==
    ASSUME IInv, NEW w \in Workers, NEW v \in WorkerStates, WorkerOk(v),
           worker' = [worker EXCEPT ![w] = v],
           UNCHANGED <<source, run, proposal, safety, agreed, requests, troubles>>,
           job' \in Jobs, job'.linked = job.linked, job'.status = job.status,
           job'.confirmed # NoPlan /\ job'.confirmed.reviewed => job'.confirmed \in agreed
    PROVE  IInv'
<1>0. TypeOK
  BY DEF IInv
<1>1. TypeOK'
  BY <1>0 DEF TypeOK
<1>2. Grows
  BY <1>0, NothingNew
<1>3. worker'[w] = v /\ \A q \in Workers \ {w} : worker'[q] = worker[q]
  BY <1>0 DEF TypeOK
<1>4. WorkerOk(worker[w])'
  BY <1>3 DEF WorkerOk, Agreed, Active, Composed, Passed, SourcePassed, Submitted
<1>5. RunningJobHasItsRun'
  BY DEF IInv, RunningJobHasItsRun
<1>6. Agreed(job.confirmed)'
  BY DEF Agreed
<1>7. QED
  BY <1>1, <1>2, <1>3, <1>4, <1>5, <1>6, WorkerMoves

LEMMA JobSame ==
    ASSUME IInv, UNCHANGED job
    PROVE  /\ job' \in Jobs /\ job'.linked = job.linked /\ job'.status = job.status
           /\ job'.confirmed # NoPlan /\ job'.confirmed.reviewed => job'.confirmed \in agreed
  BY DEF IInv, TypeOK, Agreed

LEMMA WorkerIs ==
    ASSUME IInv, NEW w \in Workers
    PROVE  worker[w] \in WorkerStates /\ WorkerOk(worker[w]) /\ Idle \in WorkerStates
  BY StageNamesAre, InputsAssumption
  DEF IInv, TypeOK, WorkerStates, Idle, ProposalStatuses, Asks

LEMMA GivesUp ==
    ASSUME IInv, NEW w \in Workers, worker[w].pc # "idle", NEW a \in Asks, GiveUp(w, a),
           UNCHANGED <<source, job, run, proposal, safety, agreed, requests, troubles>>
    PROVE  IInv'
<1> DEFINE v == [Idle EXCEPT !.pc = "failing", !.run = worker[w].run, !.asks = a]
<1>1. worker[w].run \in 1..Len(run) /\ worker[w].run \in Nat
  BY WorkerIs DEF WorkerOk, WorkerStates
<1>2. v \in WorkerStates
  BY <1>1, WorkerIs DEF WorkerStates, Idle
<1>3. v.pc = "failing" /\ v.run = worker[w].run /\ v.confirmed = NoPlan
  BY DEF Idle
<1>4. worker' = [worker EXCEPT ![w] = v]
  BY DEF GiveUp
<1> HIDE DEF v
<1>5. WorkerOk(v)
  BY <1>1, <1>3 DEF WorkerOk, Agreed, Active
<1>6. QED
  BY <1>2, <1>4, <1>5, OnlyWorker, JobSame

(* A worker whose next state v differs in its place and question only, and *)
(* which has done what the place asks for.                                 *)
MovesTo(w, v) ==
    /\ worker[w].pc \notin {"idle", "failing"}
    /\ v.pc \in {"starting", "working", "composed", "asking", "finishing"}
    /\ v.stage \in StageNames /\ v.asks \in Asks
    /\ v = [worker[w] EXCEPT !.pc = v.pc, !.stage = v.stage, !.asks = v.asks]
    /\ v.pc = "asking" => v.asks # "nothing"
    /\ v.pc = "composed" => v.stage = "compose"
    /\ \/ worker[w].read = "none"
       \/ /\ v.stage = "review" /\ v.pc # "finishing"
          /\ worker[w].pc \in {"composed", "starting"}
       \/ v.stage = "review" /\ worker[w].stage = "review" /\ (v.pc = "finishing" => Submitted)
    /\ v.stage # "parse" => ~source.only \/ worker[w].stage # "parse"
    /\ v.stage \notin {"parse", "extract"} =>
         SourcePassed \/ worker[w].stage \notin {"parse", "extract"}
    /\ v.stage \in {"match", "compose", "review"} =>
         worker[w].stage \in {"match", "compose", "review"}
    /\ worker[w].pc = "starting" => v.stage = worker[w].stage /\ v.pc = "working"

LEMMA Goes ==
    ASSUME IInv, NEW w \in Workers, NEW v, MovesTo(w, v)
    PROVE  v \in WorkerStates /\ WorkerOk(v)
<1> DEFINE u == worker[w]
           pc == v.pc
           stage == v.stage
           a == v.asks
<1>0. /\ pc \in {"starting", "working", "composed", "asking", "finishing"}
      /\ stage \in StageNames /\ a \in Asks
  BY DEF MovesTo
<1>1. u \in WorkerStates /\ WorkerOk(u)
  BY WorkerIs
<1>2. v = [u EXCEPT !.pc = pc, !.stage = stage, !.asks = a]
  BY DEF MovesTo
<1> HIDE DEF u, pc, stage, a
<1>3. /\ v \in WorkerStates
      /\ v.pc = pc /\ v.stage = stage /\ v.run = u.run /\ v.confirmed = u.confirmed
      /\ v.plan = u.plan /\ v.read = u.read
  BY <1>0, <1>1, <1>2 DEF WorkerStates
<1>4. Active(u) /\ v.pc \notin {"freezing", "applying", "submitted", "idle"}
  BY DEF MovesTo, Active, u
<1>5. /\ v.pc # "idle" => v.run \in 1..Len(run)
      /\ Agreed(v.confirmed)
      /\ v.pc = "asking" => v.asks # "nothing"
      /\ v.pc \in {"freezing", "composed"} => v.stage = "compose"
      /\ v.pc \notin {"applying", "submitted"}
  BY <1>1, <1>3, <1>4 DEF WorkerOk, Active, MovesTo
<1>6. /\ Active(v) /\ v.stage # "parse" => ~source.only
      /\ Active(v) /\ v.stage \notin {"parse", "extract"} => SourcePassed
  BY <1>1, <1>3, <1>4 DEF WorkerOk, MovesTo, u
<1>7. Active(v) /\ v.stage \in {"match", "compose", "review"} => v.plan \in Plans /\ Passed(v.plan)
  BY <1>1, <1>3, <1>4 DEF WorkerOk, MovesTo, u
<1>8. Active(v) /\ v.read # "none" =>
        /\ v.stage = "review" \/ v.pc \in {"freezing", "composed"}
        /\ proposal.status # "none"
        /\ Composed(v) => proposal.plan # NoPlan
        /\ v.read # "draft" \/ v.pc = "finishing" => Submitted
  BY <1>1, <1>3, <1>4 DEF WorkerOk, Composed, MovesTo, u
<1>9. QED
  BY <1>3, <1>5, <1>6, <1>7, <1>8 DEF WorkerOk

-----------------------------------------------------------------------------
(* Steps within a run.                                                     *)

Elsewhere == UNCHANGED <<source, job, run, proposal, safety, agreed, requests, troubles>>

LEMMA BreakInv ==
    ASSUME IInv, NEW w \in Workers, Break(w)
    PROVE  IInv'
  BY GivesUp DEF Break, Live, Asks

LEMMA StartStageInv ==
    ASSUME IInv, NEW w \in Workers, StartStage(w)
    PROVE  IInv'
<1>1. worker[w].pc = "starting" /\ Elsewhere
  BY DEF StartStage, Elsewhere
<1>2. CASE GiveUp(w, "nothing")
  BY <1>1, <1>2, GivesUp DEF Asks, Elsewhere
<1>3. CASE Goto(w, "working")
  <2> DEFINE v == [worker[w] EXCEPT !.pc = "working", !.stage = worker[w].stage,
                                    !.asks = worker[w].asks]
  <2>1. worker[w] \in WorkerStates
    BY WorkerIs
  <2>2. worker' = [worker EXCEPT ![w] = v]
    BY <1>3, <2>1 DEF Goto, WorkerStates
  <2>3. v \in WorkerStates /\ WorkerOk(v)
    <3>1. worker[w].read = "none" \/ worker[w].stage = "review"
      BY <1>1, WorkerIs DEF WorkerOk, Active
    <3>2. worker[w].stage \in StageNames /\ worker[w].asks \in Asks
      BY <2>1 DEF WorkerStates
    <3>3. v.pc = "working" /\ v.stage = worker[w].stage /\ v.asks = worker[w].asks
      BY <2>1 DEF WorkerStates
    <3>4. MovesTo(w, v)
      BY <1>1, <3>1, <3>2, <3>3 DEF MovesTo
    <3>5. QED
      BY <3>4, Goes
  <2> HIDE DEF v
  <2>4. QED
    BY <1>1, <2>2, <2>3, OnlyWorker, JobSame DEF Elsewhere
<1>4. QED
  BY <1>2, <1>3 DEF StartStage

(* On to the next stage, when the stage row of a running run is closed.    *)
LEMMA StartNextOk ==
    ASSUME IInv, NEW w \in Workers, worker[w].pc \in {"working", "composed"},
           worker[w].stage \in {"parse", "extract", "match", "compose"},
           worker[w].stage = "parse" => ~source.only,
           worker[w].stage = "extract" => SourcePassed,
           worker[w].stage = "compose" => worker[w].pc = "composed",
           StartNext(w)
    PROVE  \E v \in WorkerStates : WorkerOk(v) /\ worker' = [worker EXCEPT ![w] = v]
<1> DEFINE s == NextStage(worker[w].stage)
           a == worker[w].asks
           v == [worker[w] EXCEPT !.pc = "starting", !.stage = s, !.asks = a]
<1>1. worker[w] \in WorkerStates
  BY WorkerIs
<1>2. worker' = [worker EXCEPT ![w] = v]
  BY <1>1 DEF StartNext, WorkerStates
<1>3. /\ s \in StageNames /\ worker[w].asks \in Asks
      /\ s = "review" <=> worker[w].stage = "compose"
      /\ s \in {"match", "compose", "review"} => worker[w].stage \in {"match", "compose"}
      /\ s \notin {"parse", "extract"} => worker[w].stage # "parse"
  BY <1>1, NextStages, StageNamesAre DEF WorkerStates
<1>4. worker[w].read = "none" \/ (s = "review" /\ worker[w].pc = "composed")
  BY <1>3, WorkerIs DEF WorkerOk, Active
<1>5. v.pc = "starting" /\ v.stage = s /\ v.asks = a
  BY <1>1 DEF WorkerStates
<1>6. MovesTo(w, v)
  BY <1>3, <1>4, <1>5 DEF MovesTo
<1>7. v \in WorkerStates /\ WorkerOk(v)
  BY <1>6, Goes
<1> HIDE DEF v
<1>8. QED
  BY <1>2, <1>7

LEMMA CompleteStageInv ==
    ASSUME IInv, NEW w \in Workers, worker[w].pc \in {"working", "composed"},
           worker[w].stage \in {"extract", "match", "compose"},
           worker[w].stage = "extract" => SourcePassed,
           worker[w].stage = "compose" => worker[w].pc = "composed",
           CompleteStage(w), Elsewhere
    PROVE  IInv'
<1>1. CASE GiveUp(w, "nothing")
  BY <1>1, GivesUp DEF Asks, Elsewhere
<1>2. CASE StartNext(w)
  <2>1. PICK v \in WorkerStates : WorkerOk(v) /\ worker' = [worker EXCEPT ![w] = v]
    BY <1>2, StartNextOk
  <2>2. QED
    BY <2>1, OnlyWorker, JobSame DEF Elsewhere
<1>3. QED
  BY <1>1, <1>2 DEF CompleteStage

(* A worker asks, or is done, without anything having been composed, or    *)
(* once the proposal is submitted.                                         *)
LEMMA EndOk ==
    ASSUME IInv, NEW w \in Workers,
           worker[w].pc \in {"working", "submitted"},
           NEW pc \in {"asking", "finishing"}, NEW a \in Asks,
           pc = "asking" => a # "nothing",
           worker[w].read # "none" => worker[w].stage = "review" /\ Submitted,
           NEW v, v = [worker[w] EXCEPT !.pc = pc, !.asks = a]
    PROVE  v \in WorkerStates /\ WorkerOk(v)
<1>1. worker[w] \in WorkerStates
  BY WorkerIs
<1>2. /\ v.pc = pc /\ v.stage = worker[w].stage /\ v.asks = a
      /\ v = [worker[w] EXCEPT !.pc = pc, !.stage = worker[w].stage, !.asks = a]
      /\ worker[w].stage \in StageNames
  BY <1>1 DEF WorkerStates
<1>3. MovesTo(w, v)
  BY <1>2 DEF MovesTo
<1>4. QED
  BY <1>3, Goes

LEMMA AskOk ==
    ASSUME IInv, NEW w \in Workers, worker[w].pc = "working", worker[w].stage # "review",
           NEW a \in Asks \ {"nothing"}, Ask(w, a)
    PROVE  \E v \in WorkerStates : WorkerOk(v) /\ worker' = [worker EXCEPT ![w] = v]
<1> DEFINE v == [worker[w] EXCEPT !.pc = "asking", !.asks = a]
<1>1. worker' = [worker EXCEPT ![w] = v]
  BY DEF Ask
<1>2. worker[w].read = "none"
  BY WorkerIs DEF WorkerOk, Active
<1>3. v \in WorkerStates /\ WorkerOk(v)
  BY <1>2, EndOk
<1> HIDE DEF v
<1>4. QED
  BY <1>1, <1>3

LEMMA ExtractInv ==
    ASSUME IInv, NEW w \in Workers, Extract(w)
    PROVE  IInv'
<1>1. worker[w].pc = "working" /\ worker[w].stage = "extract" /\ Elsewhere
  BY DEF Extract, Working, Elsewhere
<1>2. CASE GiveUp(w, "safety")
  BY <1>1, <1>2, GivesUp DEF Asks, Elsewhere
<1>3. CASE Ask(w, "safety")
  <2>1. PICK v \in WorkerStates : WorkerOk(v) /\ worker' = [worker EXCEPT ![w] = v]
    BY <1>1, <1>3, AskOk DEF Asks
  <2>2. QED
    BY <1>1, <2>1, OnlyWorker, JobSame DEF Elsewhere
<1>4. CASE SourcePassed /\ CompleteStage(w)
  BY <1>1, <1>4, CompleteStageInv
<1>5. CASE CompleteStage(w) /\ source.threat # "direct" /\ safety # "reject"
              /\ ~(source.threat = "suspected" /\ safety = "none")
  <2>1. SourcePassed
    BY <1>1, <1>5, WorkerIs DEF WorkerOk, Active, SourcePassed, IInv, TypeOK
  <2>2. QED
    BY <1>5, <2>1, <1>4
<1>6. QED
  BY <1>2, <1>3, <1>5 DEF Extract

(* A source that is stored only ends the run; others go on to extraction.  *)
LEMMA ParseInv ==
    ASSUME IInv, NEW w \in Workers, Parse(w)
    PROVE  IInv'
<1>1. /\ worker[w].pc = "working" /\ worker[w].stage = "parse"
      /\ UNCHANGED <<source, run, proposal, safety, agreed, requests, troubles>>
  BY DEF Parse, Working
<1>2. CASE GiveUp(w, "nothing") /\ UNCHANGED job
  BY <1>1, <1>2, GivesUp DEF Asks
<1>3. CASE /\ job' = [job EXCEPT !.parsed = TRUE]
           /\ IF source.only THEN Goto(w, "finishing") ELSE StartNext(w)
  <2>1. /\ job' \in Jobs /\ job'.linked = job.linked /\ job'.status = job.status
        /\ job'.confirmed # NoPlan /\ job'.confirmed.reviewed => job'.confirmed \in agreed
    BY <1>3 DEF IInv, TypeOK, Jobs, Agreed
  <2>2. \E v \in WorkerStates : WorkerOk(v) /\ worker' = [worker EXCEPT ![w] = v]
    <3>1. CASE source.only
      <4> DEFINE v == [worker[w] EXCEPT !.pc = "finishing", !.asks = worker[w].asks]
      <4>1. worker[w] \in WorkerStates /\ worker[w].asks \in Asks
        BY WorkerIs DEF WorkerStates
      <4>2. worker' = [worker EXCEPT ![w] = v]
        BY <1>3, <3>1, <4>1 DEF Goto, WorkerStates
      <4>3. worker[w].read = "none"
        BY <1>1, WorkerIs DEF WorkerOk, Active
      <4>4. v \in WorkerStates /\ WorkerOk(v)
        BY <1>1, <4>1, <4>3, EndOk
      <4> HIDE DEF v
      <4>5. QED
        BY <4>2, <4>4
    <3>2. CASE ~source.only
      BY <1>1, <1>3, <3>2, StartNextOk
    <3>3. QED
      BY <3>1, <3>2
  <2>3. QED
    BY <1>1, <2>1, <2>2, OnlyWorker
<1>4. QED
  BY <1>2, <1>3 DEF Parse

(* A plan is passed on when it is good and, after a suspicion, confirmed:  *)
(* only the initiator's confirmation makes a reviewed plan agreed.         *)
LEMMA PlanInv ==
    ASSUME IInv, NEW w \in Workers, Plan(w)
    PROVE  IInv'
<1> DEFINE p == PlanOf(w)
<1>1. /\ worker[w].pc = "working" /\ worker[w].stage = "plan"
      /\ UNCHANGED <<source, run, proposal, safety, agreed, requests, troubles>>
  BY DEF Plan, Working
<1>2. CASE GiveUp(w, "nothing") /\ UNCHANGED job
  BY <1>1, <1>2, GivesUp DEF Asks
<1>3. CASE StageRunning(w) /\ job.status = "running"
  <2>0. worker[w] \in WorkerStates /\ WorkerOk(worker[w])
    BY WorkerIs
  <2>1. p \in Plans /\ p.input = worker[w].input /\ p.reviewed = (safety = "accept")
    BY <2>0 DEF PlanOf, Plans, WorkerStates
  <2> HIDE DEF p
  <2>2. job' = [job EXCEPT !.plan = p, !.confirmed = IF AutoConfirm(p) THEN p ELSE @]
    BY <1>3 DEF Plan, p
  <2>3. /\ job' \in Jobs /\ job'.linked = job.linked /\ job'.status = job.status
        /\ job'.confirmed # NoPlan /\ job'.confirmed.reviewed => job'.confirmed \in agreed
    <3> DEFINE c == IF AutoConfirm(p) THEN p ELSE job.confirmed
    <3>1. job \in Jobs /\ Agreed(job.confirmed)
      BY DEF IInv, TypeOK
    <3>2. c \in Plans \cup {NoPlan} /\ Agreed(c)
      BY <2>1, <3>1 DEF AutoConfirm, Agreed, Jobs
    <3>3. job' = [job EXCEPT !.plan = p, !.confirmed = c]
      BY <2>2
    <3> HIDE DEF c
    <3>4. QED
      BY <2>1, <3>1, <3>2, <3>3 DEF Jobs, Agreed
  <2>4. \E v \in WorkerStates : WorkerOk(v) /\ worker' = [worker EXCEPT ![w] = v]
    <3>1. CASE Ask(w, "quality_gate") \/ Ask(w, "confirm_plan")
      BY <1>1, <3>1, AskOk DEF Asks
    <3>2. CASE /\ p.input \in source.good
               /\ ~(safety = "accept" /\ worker[w].confirmed # p)
               /\ worker' = [worker EXCEPT ![w] =
                     [Idle EXCEPT !.pc = "starting", !.stage = "match",
                                  !.run = worker[w].run, !.plan = p]]
      <4> DEFINE v == [Idle EXCEPT !.pc = "starting", !.stage = "match",
                                   !.run = worker[w].run, !.plan = p]
      <4>1. /\ v \in WorkerStates
            /\ v.pc = "starting" /\ v.stage = "match" /\ v.run = worker[w].run /\ v.plan = p
            /\ v.read = "none" /\ v.confirmed = NoPlan
        BY <2>0, <2>1, WorkerIs, StageNamesAre DEF Idle, WorkerStates
      <4> HIDE DEF v
      <4>2. SourcePassed
        BY <1>1, <2>0 DEF WorkerOk, Active
      <4>3. Passed(p)
        <5>1. p # NoPlan
          BY <2>1, NoPlanAssumption
        <5>2. source.threat = "suspected" => p \in agreed
          BY <2>0, <2>1, <3>2, <4>2, <5>1 DEF SourcePassed, WorkerOk, Agreed
        <5>3. QED
          BY <3>2, <4>2, <5>2 DEF Passed
      <4>4. WorkerOk(v)
        BY <1>1, <2>0, <2>1, <4>1, <4>2, <4>3 DEF WorkerOk, Agreed, Active, SourcePassed
      <4>5. worker' = [worker EXCEPT ![w] = v]
        BY <3>2 DEF v
      <4>6. QED
        BY <4>1, <4>4, <4>5
    <3>3. QED
      BY <1>3, <2>1, <3>1, <3>2 DEF Plan, p
  <2>5. QED
    BY <1>1, <2>3, <2>4, OnlyWorker
<1>4. QED
  BY <1>2, <1>3 DEF Plan

LEMMA MatchInv ==
    ASSUME IInv, NEW w \in Workers, NEW ambiguous \in BOOLEAN, Match(w, ambiguous)
    PROVE  IInv'
<1>1. worker[w].pc = "working" /\ worker[w].stage = "match" /\ Elsewhere
  BY DEF Match, Working, Elsewhere
<1>2. CASE Ask(w, "resolve_entities")
  <2>1. PICK v \in WorkerStates : WorkerOk(v) /\ worker' = [worker EXCEPT ![w] = v]
    BY <1>1, <1>2, AskOk DEF Asks
  <2>2. QED
    BY <1>1, <2>1, OnlyWorker, JobSame DEF Elsewhere
<1>3. CASE CompleteStage(w)
  BY <1>1, <1>3, CompleteStageInv
<1>4. QED
  BY <1>2, <1>3 DEF Match

LEMMA CompleteComposeInv ==
    ASSUME IInv, NEW w \in Workers, CompleteCompose(w)
    PROVE  IInv'
<1>1. worker[w].pc = "composed" /\ Elsewhere /\ CompleteStage(w)
  BY DEF CompleteCompose, Elsewhere
<1>2. worker[w].stage = "compose"
  BY <1>1, WorkerIs DEF WorkerOk
<1>3. QED
  BY <1>1, <1>2, CompleteStageInv

LEMMA CompleteReviewInv ==
    ASSUME IInv, NEW w \in Workers, CompleteReview(w)
    PROVE  IInv'
<1>1. /\ Elsewhere
      /\ \/ worker[w].pc = "submitted"
         \/ worker[w].pc = "working" /\ worker[w].stage = "review" /\ worker[w].read # "draft"
  BY DEF CompleteReview, Elsewhere, Working, ToSubmit
<1>2. CASE GiveUp(w, "nothing")
  BY <1>1, <1>2, GivesUp DEF Asks, Elsewhere
<1>3. CASE Goto(w, "finishing")
  <2> DEFINE v == [worker[w] EXCEPT !.pc = "finishing", !.asks = worker[w].asks]
  <2>1. worker[w] \in WorkerStates /\ worker[w].asks \in Asks /\ WorkerOk(worker[w])
    BY WorkerIs DEF WorkerStates
  <2>2. worker' = [worker EXCEPT ![w] = v]
    BY <1>3, <2>1 DEF Goto, WorkerStates
  <2>3. worker[w].read # "none" => worker[w].stage = "review" /\ Submitted
    BY <1>1, <2>1 DEF WorkerOk, Active
  <2>4. v \in WorkerStates /\ WorkerOk(v)
    BY <1>1, <2>1, <2>3, EndOk
  <2> HIDE DEF v
  <2>5. QED
    BY <1>1, <2>2, <2>4, OnlyWorker, JobSame DEF Elsewhere
<1>4. QED
  BY <1>2, <1>3 DEF CompleteReview

-----------------------------------------------------------------------------
(* Steps that change the proposal.                                         *)

ProposalTypes == [status : ProposalStatuses, plan : Plans \cup {NoPlan}, full : BOOLEAN]

ProposalOnly ==
    /\ proposal' \in ProposalTypes
    /\ UNCHANGED <<source, job, run, safety, agreed, requests, troubles>>

LEMMA ProposalStep ==
    ASSUME IInv, ProposalOnly, Grows, NEW w \in Workers, NEW v \in WorkerStates,
           worker' = [worker EXCEPT ![w] = v],
           worker'[w] = v => WorkerOk(worker[w])',
           proposal'.plan = proposal.plan \/ GatesHold'
    PROVE  IInv'
<1>1. TypeOK'
  BY DEF IInv, TypeOK, ProposalOnly, ProposalTypes
<1>2. worker'[w] = v /\ \A q \in Workers \ {w} : worker'[q] = worker[q]
  BY DEF IInv, TypeOK
<1>3. Agreed(job.confirmed)' /\ RunningJobHasItsRun'
  BY DEF IInv, ProposalOnly, Agreed, RunningJobHasItsRun
<1>4. job'.linked = job.linked
  BY DEF ProposalOnly
<1>5. QED
  BY <1>1, <1>2, <1>3, <1>4, WorkerMoves

(* Other runs' proposals are never made a draft again.                     *)
LEMMA ProposalGrows ==
    ASSUME IInv, UNCHANGED <<source, run, safety, agreed>>,
           proposal.status # "none" => proposal'.status # "none",
           Submitted => Submitted',
           proposal.plan # NoPlan => proposal'.plan = proposal.plan
    PROVE  Grows
<1>1. Len(run) \in Nat
  BY DEF IInv, TypeOK
<1>2. QED
  BY <1>1 DEF Grows

LEMMA ComposeInv ==
    ASSUME IInv, NEW w \in Workers, NEW nothing \in BOOLEAN, Compose(w, nothing)
    PROVE  IInv'
<1>1. /\ worker[w].pc = "working" /\ worker[w].stage = "compose"
      /\ worker[w] \in WorkerStates /\ WorkerOk(worker[w])
      /\ proposal \in ProposalTypes
      /\ UNCHANGED <<source, job, run, safety, agreed, requests, troubles>>
  BY WorkerIs DEF Compose, Working, IInv, TypeOK, ProposalTypes
<1>2. CASE nothing
  <2> DEFINE v == [worker[w] EXCEPT !.pc = "composed"]
  <2>1. worker' = [worker EXCEPT ![w] = v] /\ Elsewhere
    BY <1>1, <1>2 DEF Compose, Goto, Elsewhere
  <2>2. worker[w].read = "none"
    BY <1>1 DEF WorkerOk, Active
  <2>3. /\ v.pc = "composed" /\ v.stage = "compose" /\ v.asks = worker[w].asks
        /\ v = [worker[w] EXCEPT !.pc = v.pc, !.stage = v.stage, !.asks = v.asks]
        /\ v.asks \in Asks
    BY <1>1 DEF WorkerStates
  <2>4. MovesTo(w, v)
    BY <1>1, <2>2, <2>3, StageNamesAre DEF MovesTo
  <2>5. v \in WorkerStates /\ WorkerOk(v)
    BY <2>4, Goes
  <2> HIDE DEF v
  <2>6. QED
    BY <2>1, <2>5, OnlyWorker, JobSame DEF Elsewhere
<1>3. CASE ~nothing
  <2> DEFINE s == proposal'.status
             pc == IF proposal.plan = NoPlan THEN "freezing" ELSE "composed"
             v == [worker[w] EXCEPT !.read = s, !.pc = pc]
  <2>1. /\ proposal' = IF proposal.status = "none"
                       THEN [proposal EXCEPT !.status = "draft"] ELSE proposal
        /\ worker' = [worker EXCEPT ![w].read = proposal'.status,
                        ![w].pc = IF proposal.plan = NoPlan THEN "freezing" ELSE "composed"]
    BY <1>3 DEF Compose
  <2>2. /\ proposal' \in ProposalTypes /\ proposal'.plan = proposal.plan
        /\ s \in ProposalStatuses \ {"none"}
        /\ proposal.status # "none" => s = proposal.status
    BY <1>1, <2>1 DEF ProposalTypes, ProposalStatuses
  <2>3. ProposalOnly /\ Grows
    BY <1>1, <2>2, ProposalGrows DEF ProposalOnly, Submitted
  <2>4. worker' = [worker EXCEPT ![w] = v]
    BY <2>1 DEF IInv, TypeOK
  <2>5. pc \in {"freezing", "composed"} /\ (pc = "composed" => proposal'.plan # NoPlan)
    BY <2>2
  <2> HIDE DEF s, pc
  <2>6. /\ v \in WorkerStates
        /\ v.pc = pc /\ v.stage = "compose" /\ v.read = s /\ v.run = worker[w].run
        /\ v.confirmed = worker[w].confirmed /\ v.plan = worker[w].plan
    BY <1>1, <2>2, <2>5 DEF WorkerStates
  <2> HIDE DEF v
  <2>7. worker'[w] = v => WorkerOk(worker[w])'
    BY <1>1, <2>2, <2>5, <2>6 DEF WorkerOk, Agreed, Active, Composed, Passed, SourcePassed,
                                 Submitted, s
  <2>8. QED
    BY <2>2, <2>3, <2>4, <2>6, <2>7, ProposalStep
<1>4. QED
  BY <1>2, <1>3

(* Only a plan that passed every gate is frozen into the proposal.         *)
LEMMA FreezeInv ==
    ASSUME IInv, NEW w \in Workers, FreezeOperations(w)
    PROVE  IInv'
<1>1. /\ worker[w].pc = "freezing" /\ worker[w].stage = "compose"
      /\ worker[w] \in WorkerStates /\ WorkerOk(worker[w])
      /\ proposal \in ProposalTypes
      /\ UNCHANGED <<source, job, run, safety, agreed, requests, troubles>>
  BY WorkerIs DEF FreezeOperations, WorkerOk, IInv, TypeOK, ProposalTypes
<1>2. CASE GiveUp(w, "nothing") /\ UNCHANGED proposal
  BY <1>1, <1>2, GivesUp DEF Asks
<1>3. CASE /\ proposal' = IF proposal.plan = NoPlan
                          THEN [proposal EXCEPT !.plan = worker[w].plan] ELSE proposal
           /\ Goto(w, "composed")
  <2> DEFINE v == [worker[w] EXCEPT !.pc = "composed"]
  <2>1. worker[w].plan \in Plans /\ Passed(worker[w].plan)
    BY <1>1 DEF WorkerOk, Active
  <2>2. /\ proposal' \in ProposalTypes /\ proposal'.status = proposal.status
        /\ proposal.plan # NoPlan => proposal'.plan = proposal.plan
        /\ proposal.plan = NoPlan => proposal'.plan = worker[w].plan
        /\ proposal'.plan # NoPlan
    BY <1>1, <1>3, <2>1, NoPlanAssumption DEF ProposalTypes
  <2>3. ProposalOnly /\ Grows
    BY <1>1, <2>2, ProposalGrows DEF ProposalOnly, Submitted
  <2>4. worker' = [worker EXCEPT ![w] = v]
    BY <1>3 DEF Goto
  <2>5. /\ v \in WorkerStates
        /\ v.pc = "composed" /\ v.stage = "compose" /\ v.read = worker[w].read
        /\ v.run = worker[w].run /\ v.confirmed = worker[w].confirmed /\ v.plan = worker[w].plan
    BY <1>1 DEF WorkerStates
  <2> HIDE DEF v
  <2>6. worker'[w] = v => WorkerOk(worker[w])'
    BY <1>1, <2>2, <2>5 DEF WorkerOk, Agreed, Active, Composed, Passed, SourcePassed, Submitted
  <2>7. proposal'.plan = proposal.plan \/ GatesHold'
    BY <1>1, <2>1, <2>2 DEF GatesHold, Passed, SourcePassed
  <2>8. QED
    BY <2>3, <2>4, <2>5, <2>6, <2>7, ProposalStep
<1>4. QED
  BY <1>2, <1>3 DEF FreezeOperations

LEMMA SubmitInv ==
    ASSUME IInv, NEW w \in Workers, NEW fullAccess \in BOOLEAN, Submit(w, fullAccess)
    PROVE  IInv'
<1>1. /\ worker[w].pc = "working" /\ worker[w].stage = "review" /\ worker[w].read = "draft"
      /\ worker[w] \in WorkerStates /\ WorkerOk(worker[w])
      /\ proposal \in ProposalTypes
      /\ UNCHANGED <<source, job, run, safety, agreed, requests, troubles>>
  BY WorkerIs DEF Submit, Working, ToSubmit, IInv, TypeOK, ProposalTypes
<1>2. CASE GiveUp(w, "nothing") /\ UNCHANGED proposal
  BY <1>1, <1>2, GivesUp DEF Asks
<1>3. CASE proposal.status = "draft"
  <2> DEFINE pc == IF fullAccess THEN "applying" ELSE "submitted"
             v == [worker[w] EXCEPT !.pc = pc]
  <2>1. PICK s \in {"in_review", "approved"} :
          proposal' = [proposal EXCEPT !.status = s, !.full = fullAccess]
    BY <1>3 DEF Submit
  <2>2. /\ proposal' \in ProposalTypes /\ proposal'.status = s
        /\ proposal'.plan = proposal.plan
    BY <1>1, <2>1 DEF ProposalTypes, ProposalStatuses
  <2>3. ProposalOnly /\ Grows
    BY <1>1, <2>2, ProposalGrows DEF ProposalOnly, Submitted
  <2>4. worker' = [worker EXCEPT ![w] = v] /\ pc \in {"applying", "submitted"}
    BY <1>3 DEF Submit, Goto
  <2> HIDE DEF pc
  <2>5. /\ v \in WorkerStates
        /\ v.pc = pc /\ v.stage = "review" /\ v.read = "draft"
        /\ v.run = worker[w].run /\ v.confirmed = worker[w].confirmed /\ v.plan = worker[w].plan
    BY <1>1, <2>4 DEF WorkerStates
  <2> HIDE DEF v
  <2>6. worker'[w] = v => WorkerOk(worker[w])'
    BY <1>1, <2>2, <2>4, <2>5 DEF WorkerOk, Agreed, Active, Composed, Passed, SourcePassed,
                                 Submitted
  <2>7. QED
    BY <2>2, <2>3, <2>4, <2>5, <2>6, ProposalStep
<1>4. QED
  BY <1>2, <1>3 DEF Submit

LEMMA ImportApplyInv ==
    ASSUME IInv, NEW w \in Workers, Apply(w)
    PROVE  IInv'
<1>1. /\ worker[w].pc = "applying"
      /\ worker[w] \in WorkerStates /\ WorkerOk(worker[w])
      /\ proposal \in ProposalTypes
      /\ UNCHANGED <<source, job, run, safety, agreed, requests, troubles>>
      /\ proposal' = [proposal EXCEPT !.status = "applied"]
  BY WorkerIs DEF Apply, IInv, TypeOK, ProposalTypes
<1> DEFINE v == [worker[w] EXCEPT !.pc = "submitted"]
<1>2. /\ proposal' \in ProposalTypes /\ proposal'.status = "applied"
      /\ proposal'.plan = proposal.plan
  BY <1>1 DEF ProposalTypes, ProposalStatuses
<1>3. ProposalOnly /\ Grows
  BY <1>1, <1>2, ProposalGrows DEF ProposalOnly, Submitted
<1>4. worker' = [worker EXCEPT ![w] = v]
  BY DEF Apply, Goto
<1>5. /\ v \in WorkerStates
      /\ v.pc = "submitted" /\ v.stage = worker[w].stage /\ v.read = worker[w].read
      /\ v.run = worker[w].run /\ v.confirmed = worker[w].confirmed /\ v.plan = worker[w].plan
  BY <1>1 DEF WorkerStates
<1> HIDE DEF v
<1>6. worker'[w] = v => WorkerOk(worker[w])'
  BY <1>1, <1>2, <1>5 DEF WorkerOk, Agreed, Active, Composed, Passed, SourcePassed, Submitted
<1>7. QED
  BY <1>2, <1>3, <1>4, <1>5, <1>6, ProposalStep

-----------------------------------------------------------------------------
(* Steps that begin or end runs.                                           *)

LEMMA FinishedIs ==
    ASSUME TypeOK, NEW k, NEW s \in RunStatuses
    PROVE  Finished(k, s) \in Seq(RunStatuses) /\ Len(Finished(k, s)) = Len(run)
<1> DEFINE f == Finished(k, s)
<1>1. run \in [1..Len(run) -> RunStatuses] /\ Len(run) \in Nat
  BY DEF TypeOK
<1>2. f = [run EXCEPT ![k] = IF run[k] = "running" THEN s ELSE run[k]]
  BY DEF Finished
<1>3. f \in [1..Len(run) -> RunStatuses]
  <2> DEFINE x == IF run[k] = "running" THEN s ELSE run[k]
  <2>1. k \in 1..Len(run) => x \in RunStatuses
    BY <1>1
  <2>2. f = [run EXCEPT ![k] = x]
    BY <1>2
  <2> HIDE DEF x, f
  <2>3. QED
    BY <1>1, <2>1, <2>2
<1> HIDE DEF f
<1>4. f \in Seq(RunStatuses)
  BY <1>1, <1>3
<1>5. Len(f) = Len(run)
  <2>1. DOMAIN f = 1..Len(run)
    BY <1>3
  <2>2. QED
    BY <1>1, <1>4, <2>1
<1>6. QED
  BY <1>4, <1>5 DEF f

(* The end of a run: the worker is idle, and the job no longer running.    *)
LEMMA RunEnds ==
    ASSUME IInv, NEW w \in Workers,
           worker' = [worker EXCEPT ![w] = Idle],
           NEW k, NEW s \in RunStatuses, run' = Finished(k, s),
           job' \in Jobs, job'.status # "running", job'.confirmed = job.confirmed,
           UNCHANGED <<source, proposal, safety, agreed, requests, troubles>>,
           job'.linked = job.linked \/ SucceededIsSubmitted'
    PROVE  IInv'
<1>1. run' \in Seq(RunStatuses) /\ Len(run') = Len(run) /\ Idle \in WorkerStates
  BY FinishedIs, WorkerIs DEF IInv
<1>2. TypeOK'
  BY <1>1 DEF IInv, TypeOK
<1>3. Grows
  BY <1>1, NothingNew DEF IInv
<1>4. worker'[w] = Idle /\ \A q \in Workers \ {w} : worker'[q] = worker[q]
  BY DEF IInv, TypeOK
<1>5. WorkerOk(worker[w])'
  BY <1>4, IdleOk
<1>6. Agreed(job.confirmed)' /\ RunningJobHasItsRun'
  BY DEF IInv, Agreed, RunningJobHasItsRun
<1>7. QED
  BY <1>2, <1>3, <1>4, <1>5, <1>6, WorkerMoves

LEMMA SucceedInv ==
    ASSUME IInv, NEW w \in Workers, Succeed(w)
    PROVE  IInv'
<1>1. /\ worker[w].pc = "finishing" /\ WorkerOk(worker[w])
      /\ UNCHANGED <<source, proposal, safety, agreed, requests, troubles>>
  BY WorkerIs DEF Succeed
<1>2. CASE GiveUp(w, "nothing") /\ UNCHANGED <<job, run>>
  BY <1>1, <1>2, GivesUp DEF Asks
<1>3. CASE job.status = "running"
  <2>1. /\ job' = [job EXCEPT !.status = "succeeded", !.waits = "none",
                              !.linked = @ \/ worker[w].read # "none"]
        /\ run' = Finished(worker[w].run, "succeeded")
        /\ worker' = [worker EXCEPT ![w] = Idle]
    BY <1>3 DEF Succeed
  <2>2. /\ job' \in Jobs /\ job'.status = "succeeded" /\ job'.confirmed = job.confirmed
        /\ job'.linked = (job.linked \/ worker[w].read # "none")
    BY <2>1 DEF IInv, TypeOK, Jobs
  <2>3. worker[w].read # "none" => Submitted /\ proposal.plan # NoPlan
    <3>1. ASSUME worker[w].read # "none" PROVE worker[w].stage = "review"
      BY <1>1, <3>1 DEF WorkerOk, Active
    <3>2. QED
      BY <1>1, <3>1 DEF WorkerOk, Active, Composed
  <2>4. SucceededIsSubmitted'
    BY <1>1, <2>2, <2>3 DEF IInv, SucceededIsSubmitted, Submitted
  <2>5. QED
    BY <1>1, <2>1, <2>2, <2>4, RunEnds DEF RunStatuses
<1>4. QED
  BY <1>2, <1>3 DEF Succeed

LEMMA RequireActionInv ==
    ASSUME IInv, NEW w \in Workers, RequireAction(w)
    PROVE  IInv'
<1>1. /\ worker[w].pc = "asking"
      /\ UNCHANGED <<source, proposal, safety, agreed, requests, troubles>>
  BY DEF RequireAction
<1>2. CASE GiveUp(w, "nothing") /\ UNCHANGED <<job, run>>
  BY <1>1, <1>2, GivesUp DEF Asks
<1>3. CASE /\ Allowed(worker[w].asks)
           /\ job' = [job EXCEPT !.status = "action_required", !.waits = worker[w].asks]
           /\ run' = Finished(worker[w].run, "succeeded")
           /\ worker' = [worker EXCEPT ![w] = Idle]
  <2>1. worker[w].asks \in {"safety", "quality_gate", "confirm_plan"}
    BY <1>1, <1>3, WorkerIs DEF WorkerStates, Allowed, Asks, WorkerOk
  <2>2. /\ job' \in Jobs /\ job'.status = "action_required" /\ job'.confirmed = job.confirmed
        /\ job'.linked = job.linked
    BY <1>3, <2>1 DEF IInv, TypeOK, Jobs
  <2>3. QED
    BY <1>1, <1>3, <2>2, RunEnds DEF RunStatuses
<1>4. QED
  BY <1>2, <1>3 DEF RequireAction

LEMMA ClaimInv ==
    ASSUME IInv, NEW w \in Workers, Claim(w)
    PROVE  IInv'
<1> DEFINE n == Len(run) + 1
           v == [Idle EXCEPT !.pc = "starting", !.run = n, !.input = job.input,
                             !.confirmed = job.confirmed]
<1>1. /\ run \in Seq(RunStatuses) /\ Len(run) \in Nat /\ job \in Jobs
      /\ UNCHANGED <<source, proposal, safety, agreed, requests, troubles>>
  BY DEF IInv, TypeOK, Claim
<1>2. /\ run' \in Seq(RunStatuses) /\ Len(run') = n /\ run'[n] = "running"
      /\ run' = Append(run, "running")
  BY <1>1 DEF Claim, NewRun, RunStatuses
<1>3. worker' = [worker EXCEPT ![w] = v]
  BY <1>2 DEF Claim, NewRun
<1>4. /\ v \in WorkerStates
      /\ v.pc = "starting" /\ v.stage = "parse" /\ v.run = n /\ v.read = "none"
      /\ v.confirmed = job.confirmed
  <2>1. job.input \in Inputs /\ job.confirmed \in Plans \cup {NoPlan} /\ n \in Nat
    BY <1>1 DEF Jobs
  <2> HIDE DEF n
  <2>2. QED
    BY <2>1, StageNamesAre, InputsAssumption DEF Idle, WorkerStates, ProposalStatuses, Asks
<1>5. job' \in Jobs /\ job'.confirmed = job.confirmed /\ job'.linked = job.linked
  BY <1>1 DEF Claim, Jobs
<1>6. Grows
  BY <1>1, <1>2 DEF Grows, Submitted
<1> HIDE DEF v
<1>7. worker'[w] = v /\ \A q \in Workers \ {w} : worker'[q] = worker[q]
  BY <1>3 DEF IInv, TypeOK
<1>8. TypeOK'
  BY <1>1, <1>2, <1>3, <1>4, <1>5 DEF IInv, TypeOK
<1>9. WorkerOk(worker[w])'
  BY <1>1, <1>2, <1>4, <1>7 DEF IInv, WorkerOk, Agreed, Active
<1>10. RunningJobHasItsRun'
  BY <1>1, <1>2 DEF RunningJobHasItsRun
<1>11. Agreed(job.confirmed)'
  BY <1>1, <1>5 DEF IInv, Agreed
<1>12. QED
  BY <1>1, <1>5, <1>6, <1>7, <1>8, <1>9, <1>10, <1>11, WorkerMoves

LEMMA FailInv ==
    ASSUME IInv, NEW w \in Workers, Fail(w) \/ Crash(w)
    PROVE  IInv'
<1>1. /\ worker' = [worker EXCEPT ![w] = Idle]
      /\ UNCHANGED <<source, proposal, safety, agreed, requests>>
  BY DEF Fail, Crash
<1>2. CASE UNCHANGED <<job, run>> /\ troubles' \in 0..MaxTroubles
  <2>1. Idle \in WorkerStates
    BY WorkerIs
  <2>2. TypeOK'
    BY <1>1, <1>2, <2>1 DEF IInv, TypeOK
  <2>3. Grows
    BY <1>1, <1>2, NothingNew DEF IInv
  <2>4. worker'[w] = Idle /\ \A q \in Workers \ {w} : worker'[q] = worker[q]
    BY <1>1 DEF IInv, TypeOK
  <2>5. WorkerOk(worker[w])'
    BY <2>4, IdleOk
  <2>6. Agreed(job.confirmed)' /\ RunningJobHasItsRun'
    BY <1>1, <1>2 DEF IInv, Agreed, RunningJobHasItsRun
  <2>7. QED
    BY <1>1, <1>2, <2>2, <2>3, <2>4, <2>5, <2>6, WorkerMoves
<1>3. CASE Crash(w)
  <2>1. troubles' \in 0..MaxTroubles
    BY <1>3, BoundsAssumption DEF Crash, Trouble, IInv, TypeOK
  <2>2. QED
    BY <1>2, <1>3, <2>1 DEF Crash
<1>4. CASE Fail(w)
  <2>1. UNCHANGED troubles /\ troubles \in 0..MaxTroubles
    BY <1>4 DEF Fail, IInv, TypeOK
  <2>2. CASE UNCHANGED <<job, run>>
    BY <1>2, <2>1, <2>2
  <2>3. CASE /\ job' = [job EXCEPT !.status = "failed",
                          !.waits = IF worker[w].asks = "safety" THEN "safety" ELSE "none"]
             /\ run' = Finished(worker[w].run, "failed")
    <3> DEFINE x == IF worker[w].asks = "safety" THEN "safety" ELSE "none"
    <3>1. x \in {"safety", "none"} /\ job' = [job EXCEPT !.status = "failed", !.waits = x]
      BY <2>3
    <3> HIDE DEF x
    <3>2. /\ job' \in Jobs /\ job'.status = "failed" /\ job'.confirmed = job.confirmed
          /\ job'.linked = job.linked
      BY <3>1 DEF IInv, TypeOK, Jobs
    <3>3. QED
      BY <1>1, <2>1, <2>3, <3>2, RunEnds DEF RunStatuses
  <2>4. QED
    BY <1>4, <2>2, <2>3 DEF Fail
<1>5. QED
  BY <1>3, <1>4

(* The initiator's requests and the recovery of a stale job move no worker.*)
LEMMA JobOnly ==
    ASSUME IInv, UNCHANGED <<source, worker, proposal>>,
           run' \in Seq(RunStatuses), Len(run') = Len(run),
           job' \in Jobs, job'.status # "running", job'.linked = job.linked,
           job'.confirmed = job.confirmed \/ job'.confirmed \in {NoPlan} \cup agreed',
           safety' \in {"none", "accept", "reject"}, safety = "accept" => safety' = "accept",
           agreed' \subseteq Plans, agreed \subseteq agreed',
           requests' \in 0..MaxRequests, troubles' \in 0..MaxTroubles
    PROVE  IInv'
<1>1. TypeOK'
  BY DEF IInv, TypeOK
<1>2. Grows
  <2>1. Len(run) \in Nat
    BY DEF IInv, TypeOK
  <2>2. QED
    BY <2>1 DEF Grows, Submitted
<1>3. \A q \in Workers : WorkerOk(worker[q])'
  BY <1>1, <1>2, WorkerUnmoved
<1>4. Agreed(job.confirmed)' /\ RunningJobHasItsRun'
  BY DEF IInv, Agreed, RunningJobHasItsRun
<1>5. GatesHold' /\ SucceededIsSubmitted'
  BY <1>2, GatesKept, LinkKept DEF IInv
<1>6. QED
  BY <1>1, <1>3, <1>4, <1>5 DEF IInv

LEMMA RequestOk ==
    ASSUME IInv, Request
    PROVE  requests' \in 0..MaxRequests
  BY BoundsAssumption DEF IInv, TypeOK, Request

LEMMA StateTypes ==
    ASSUME IInv
    PROVE  /\ job \in Jobs /\ run \in Seq(RunStatuses) /\ agreed \subseteq Plans
           /\ safety \in {"none", "accept", "reject"}
           /\ requests \in 0..MaxRequests /\ troubles \in 0..MaxTroubles
  BY DEF IInv, TypeOK

LEMMA RecoverStaleInv ==
    ASSUME IInv, RecoverStale
    PROVE  IInv'
<1>1. /\ run' = Finished(RunningRun, "failed")
      /\ job' = [job EXCEPT !.status = "queued", !.waits = "none"]
      /\ UNCHANGED <<source, worker, proposal, safety, agreed, requests>>
  BY DEF RecoverStale
<1>2. run' \in Seq(RunStatuses) /\ Len(run') = Len(run)
  BY <1>1, FinishedIs DEF IInv, RunStatuses
<1>3. /\ job' \in Jobs /\ job'.status = "queued" /\ job'.linked = job.linked
      /\ job'.confirmed = job.confirmed
  BY <1>1, StateTypes DEF Jobs
<1>4. troubles' \in 0..MaxTroubles
  BY StateTypes, BoundsAssumption DEF RecoverStale, Trouble
<1>5. QED
  BY <1>1, <1>2, <1>3, <1>4, StateTypes, JobOnly

LEMMA InitiatorInv ==
    ASSUME IInv, Initiator
    PROVE  IInv'
<1>1. CASE Cancel
  <2>1. run' \in Seq(RunStatuses) /\ Len(run') = Len(run)
    <3>1. /\ Finished(RunningRun, "cancelled") \in Seq(RunStatuses)
          /\ Len(Finished(RunningRun, "cancelled")) = Len(run)
      BY FinishedIs DEF IInv, RunStatuses
    <3>2. run' = run \/ run' = Finished(RunningRun, "cancelled")
      BY <1>1 DEF Cancel
    <3>3. QED
      BY <3>1, <3>2, StateTypes
  <2>2. /\ job' \in Jobs /\ job'.status = "cancelled" /\ job'.linked = job.linked
        /\ job'.confirmed = job.confirmed
    BY <1>1, StateTypes DEF Cancel, Jobs
  <2>3. QED
    BY <1>1, <2>1, <2>2, RequestOk, StateTypes, JobOnly DEF Cancel
<1>2. CASE Retry
  <2>1. /\ job' \in Jobs /\ job'.status = "queued" /\ job'.linked = job.linked
        /\ job'.confirmed = job.confirmed
    BY <1>2, StateTypes DEF Retry, Jobs
  <2>2. QED
    BY <1>2, <2>1, RequestOk, StateTypes, JobOnly DEF Retry
<1>3. ASSUME NEW i \in Inputs, RequeueForPlanning(i)
      PROVE  /\ job' \in Jobs /\ job'.status = "queued" /\ job'.linked = job.linked
             /\ job'.confirmed = NoPlan
  BY <1>3, StateTypes DEF RequeueForPlanning, Jobs
<1>4. ASSUME NEW i \in Inputs, Replan(i) PROVE IInv'
  BY <1>3, <1>4, RequestOk, StateTypes, JobOnly DEF Replan
<1>5. ASSUME NEW p \in Plans, ConfirmPlan(p) PROVE IInv'
  <2>1. /\ job' \in Jobs /\ job'.status = "queued" /\ job'.linked = job.linked
        /\ job'.confirmed = p
    BY <1>5, StateTypes DEF ConfirmPlan, Jobs
  <2>2. agreed' = agreed \cup {p}
    BY <1>5 DEF ConfirmPlan
  <2>3. QED
    BY <1>5, <2>1, <2>2, RequestOk, StateTypes, JobOnly DEF ConfirmPlan
<1>6. ASSUME NEW verdict \in {"accept", "reject"}, ReviewSafety(verdict) PROVE IInv'
  <2>1. /\ job' \in Jobs /\ job'.status # "running" /\ job'.linked = job.linked
        /\ job'.confirmed \in {NoPlan, job.confirmed}
    <3>1. CASE RequeueForPlanning(job.input)
      BY <1>3, <3>1, StateTypes DEF Jobs
    <3>2. CASE job' = [job EXCEPT !.status = "cancelled"]
      BY <3>2, StateTypes DEF Jobs
    <3>3. QED
      BY <1>6, <3>1, <3>2 DEF ReviewSafety
  <2>2. safety = "none" /\ safety' = verdict
    BY <1>6 DEF ReviewSafety
  <2>3. QED
    BY <1>6, <2>1, <2>2, RequestOk, StateTypes, JobOnly DEF ReviewSafety
<1>7. QED
  BY <1>1, <1>2, <1>4, <1>5, <1>6 DEF Initiator

-----------------------------------------------------------------------------
(* The invariant.                                                          *)

LEMMA InitInv ==
    ASSUME Init
    PROVE  IInv
<1>1. Idle \in WorkerStates
  BY StageNamesAre, InputsAssumption DEF WorkerStates, Idle, ProposalStatuses, Asks
<1>2. TypeOK
  <2>1. job \in Jobs /\ source \in Sources
    BY InputsAssumption, SourcesAssumption DEF Init, Jobs
  <2>2. worker \in [Workers -> WorkerStates]
    BY <1>1 DEF Init
  <2>3. requests \in 0..MaxRequests /\ troubles \in 0..MaxTroubles
    BY BoundsAssumption DEF Init
  <2>4. QED
    BY <2>1, <2>2, <2>3 DEF Init, TypeOK, ProposalStatuses
<1>3. \A w \in Workers : WorkerOk(worker[w])
  BY DEF Init, WorkerOk, Idle, Agreed, Active
<1>4. QED
  BY <1>2, <1>3 DEF IInv, Init, Agreed, RunningJobHasItsRun, GatesHold, SucceededIsSubmitted

LEMMA Unmoved ==
    ASSUME IInv, UNCHANGED vars
    PROVE  IInv'
<1>1. TypeOK'
  BY DEF IInv, TypeOK, vars
<1>2. Grows
  BY NothingNew DEF IInv, vars
<1>3. \A q \in Workers : WorkerOk(worker[q])'
  BY <1>1, <1>2, WorkerUnmoved DEF vars
<1>4. GatesHold' /\ SucceededIsSubmitted'
  BY <1>2, GatesKept, LinkKept DEF IInv, vars
<1>5. Agreed(job.confirmed)' /\ RunningJobHasItsRun'
  BY DEF IInv, Agreed, RunningJobHasItsRun, vars
<1>6. QED
  BY <1>1, <1>3, <1>4, <1>5 DEF IInv

LEMMA PipelineInv ==
    ASSUME IInv, NEW w \in Workers, Pipeline(w)
    PROVE  IInv'
<1>1. ASSUME NEW choice \in BOOLEAN, Match(w, choice) \/ Compose(w, choice) \/ Submit(w, choice)
      PROVE  IInv'
  BY <1>1, MatchInv, ComposeInv, SubmitInv
<1>2. CASE StartStage(w) \/ Parse(w) \/ Extract(w) \/ Plan(w)
  BY <1>2, StartStageInv, ParseInv, ExtractInv, PlanInv
<1>3. CASE FreezeOperations(w) \/ CompleteCompose(w) \/ Apply(w) \/ CompleteReview(w)
  BY <1>3, FreezeInv, CompleteComposeInv, ImportApplyInv, CompleteReviewInv
<1>4. CASE Succeed(w) \/ RequireAction(w) \/ Fail(w)
  BY <1>4, SucceedInv, RequireActionInv, FailInv
<1>5. QED
  BY <1>1, <1>2, <1>3, <1>4 DEF Pipeline

LEMMA NextInv ==
    ASSUME IInv, [Next]_vars
    PROVE  IInv'
<1>1. ASSUME NEW w \in Workers, Claim(w) \/ Pipeline(w) \/ Break(w) \/ Crash(w)
      PROVE  IInv'
  BY <1>1, ClaimInv, PipelineInv, BreakInv, FailInv
<1>2. CASE Initiator \/ RecoverStale
  BY <1>2, InitiatorInv, RecoverStaleInv
<1>3. QED
  BY <1>1, <1>2, Unmoved DEF Next

LEMMA Invariance == Spec => []IInv
  BY InitInv, NextInv, PTL DEF Spec

-----------------------------------------------------------------------------
(* Theorems.                                                               *)

(* Every variable keeps its type (the columns and CHECKs of the import     *)
(* tables, and what a worker carries between its transactions).            *)
THEOREM TypeCorrect == Spec => []TypeOK
<1>1. IInv => TypeOK
  BY DEF IInv
<1>2. QED
  BY Invariance, <1>1, PTL

(* A running job's newest run is in progress, whichever workers were       *)
(* killed, overtaken or late: RecoverStale finds the run it has to fail    *)
(* (repository.go).                                                        *)
THEOREM RunningJobKeepsItsRun == Spec => []RunningJobHasItsRun
<1>1. IInv => RunningJobHasItsRun
  BY DEF IInv
<1>2. QED
  BY Invariance, <1>1, PTL

(* What gets into a proposal passed the safety and the quality gate, and   *)
(* was confirmed where that is asked for (pipeline.go, safety.go).         *)
THEOREM GatesAreKept == Spec => []GatesHold
<1>1. IInv => GatesHold
  BY DEF IInv
<1>2. QED
  BY Invariance, <1>1, PTL

(* A job that succeeded with a proposal submitted it, with its plan frozen *)
(* (Succeed, pipeline.go's review stage).                                  *)
THEOREM SubmittedBeforeSuccess == Spec => []SucceededIsSubmitted
<1>1. IInv => SucceededIsSubmitted
  BY DEF IInv
<1>2. QED
  BY Invariance, <1>1, PTL

LEMMA PlanKept ==
    ASSUME TypeOK, [Next]_vars, proposal.plan # NoPlan
    PROVE  proposal'.plan = proposal.plan
<1>1. proposal \in [status : ProposalStatuses, plan : Plans \cup {NoPlan}, full : BOOLEAN]
  BY DEF TypeOK
<1>2. CASE UNCHANGED proposal
  BY <1>2
<1>3. ASSUME NEW w \in Workers, Pipeline(w), proposal' # proposal
      PROVE  proposal'.plan = proposal.plan
  <2>1. ASSUME NEW choice \in BOOLEAN, Compose(w, choice) \/ Submit(w, choice)
        PROVE  proposal'.plan = proposal.plan
    BY <1>1, <1>3, <2>1 DEF Compose, Submit
  <2>2. CASE FreezeOperations(w) \/ Apply(w)
    BY <1>1, <1>3, <2>2 DEF FreezeOperations, Apply
  <2>3. QED
    BY <1>3, <2>1, <2>2
    DEF Pipeline, StartStage, Parse, Extract, Plan, Match, CompleteCompose, CompleteReview,
        Succeed, RequireAction, Fail
<1>4. ASSUME NEW w \in Workers, Claim(w) \/ Break(w) \/ Crash(w)
      PROVE  UNCHANGED proposal
  BY <1>4 DEF Claim, Break, Crash
<1>5. CASE Initiator \/ RecoverStale
  BY <1>5 DEF Initiator, RecoverStale, Cancel, Retry, Replan, ConfirmPlan, ReviewSafety
<1>6. QED
  BY <1>2, <1>3, <1>4, <1>5 DEF Next, vars

(* A proposal is made from one plan, once, by whichever run freezes its    *)
(* operations first (composer.go, AddOperationsV1).                        *)
THEOREM OnePlanForGood == Spec => OnePlanPerProposal
<1>1. TypeOK /\ [Next]_vars => [proposal.plan # NoPlan => proposal'.plan = proposal.plan]_vars
  BY PlanKept
<1>2. QED
  BY TypeCorrect, <1>1, PTL DEF Spec, OnePlanPerProposal
=============================================================================
