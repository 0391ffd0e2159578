-------------------------- MODULE BulkReviewProofs --------------------------
(* Theorems about BulkReview for any number of proposals, size of a wave,  *)
(* share of the sample, calls, troubles and names.                         *)
EXTENDS BulkReview, WellFoundedInduction, FiniteSetTheorems, TLAPS

Decidable == batch.status \in {"none", "reviewing"}

(* An item says "applied" only when there is a change batch, and "skipped" *)
(* only when it was rejected.                                              *)
ItemInv ==
    \A i \in Items :
        /\ item[i].apply = "applied" => AlreadyApplied(i)
        /\ item[i].apply = "skipped" => item[i].decision = "rejected"

(* Calls run only when all is decided, and remember what Apply answered.   *)
CallInv ==
    \A r \in Runners :
        /\ runner[r] # Idle => ~Decidable
        /\ runner[r].pc \in {"applying", "recording"} => runner[r].todo # {}
        /\ runner[r].pc = "recording" /\ runner[r].answer = "applied"
             => AlreadyApplied(Min(runner[r].todo))

(* Decided by a reviewer, or passed over by a sample they have decided.    *)
Reviewed(i) ==
    \/ proposal[i].human
    \/ /\ ~Decidable
       /\ i \notin batch.sampled
       /\ \A j \in Items : ~proposal[j].high
       /\ \A j \in batch.sampled : proposal[j].human

ReviewInv ==
    \A i \in Items :
        /\ proposal[i].status # "in_review" => Reviewed(i)
        /\ Decidable /\ item[i].decision # "pending" => proposal[i].human

(* A sample is large enough, and complete if a risk is high.               *)
SampleInv ==
    batch.status # "none" =>
        /\ (\E i \in Items : proposal[i].high) => batch.sampled = Items
        /\ Cardinality(batch.sampled) * 100 >= SamplePercent * Cardinality(Items)

IInv ==
    /\ TypeOK /\ ItemInv /\ CallInv
    /\ WavesInOrder /\ CompletedIsApplied
    /\ ReviewInv /\ SampleInv

-----------------------------------------------------------------------------
(* Constants and numbers.                                                  *)

LEMMA Constants ==
    /\ Total \in Nat /\ WaveSize \in Nat /\ MaxTroubles \in Nat
    /\ Items \subseteq Nat /\ Creates \subseteq Items
    /\ SamplePercent \in Nat /\ SamplePercent <= 100
    /\ IsFiniteSet(Items) /\ Cardinality(Items) = Total
<1>1. Total \in Nat /\ Total >= 1 /\ WaveSize \in Nat /\ MaxTroubles \in Nat
  BY TotalAssumption, WaveAssumption, TroublesAssumption
<1>2. IsFiniteSet(1..Total) /\ Cardinality(1..Total) = Total
  BY <1>1, FS_Interval
<1>3. QED
  BY <1>1, <1>2, CreatesAssumption, SampleAssumption DEF Items

LEMMA MinIsLeast ==
    ASSUME NEW S \in SUBSET Nat, S # {}
    PROVE  Min(S) \in S /\ \A x \in S : Min(S) <= x
<1> DEFINE R == OpToRel(<, Nat)
<1>1. PICK m \in S : \A x \in S : ~(<<x, m>> \in R)
  <2> HIDE DEF R
  <2>1. IsWellFoundedOn(R, Nat)
    BY NatLessThanWellFounded DEF R
  <2>2. QED
    BY <2>1, WFMin
<1>2. \A x \in S : m <= x
  <2> SUFFICES ASSUME NEW x \in S PROVE m <= x
    OBVIOUS
  <2>1. x \in Nat /\ m \in Nat
    OBVIOUS
  <2>2. ~(x < m)
    BY <1>1, <2>1 DEF OpToRel
  <2>3. QED
    BY <2>1, <2>2
<1>3. QED
  BY <1>2 DEF Min

LEMMA SampleIsLargeEnough ==
    ASSUME NEW full \in BOOLEAN, NEW s \in Samples(full)
    PROVE  /\ s \subseteq Items
           /\ full => s = Items
           /\ Cardinality(s) * 100 >= SamplePercent * Cardinality(Items)
<1> DEFINE n == Cardinality(Items)
<1>1. n \in Nat /\ SamplePercent \in Nat /\ SamplePercent <= 100
  BY Constants
<1>2. CASE full
  <2>1. s = Items
    BY <1>2 DEF Samples
  <2>2. \A p, k \in Nat : p <= 100 => k * 100 >= p * k
    OBVIOUS
  <2>3. QED
    BY <1>1, <2>1, <2>2
<1>3. CASE ~full
  <2>1. s \subseteq Items /\ Cardinality(s) = SampleCount
    BY <1>3 DEF Samples, kSubset
  <2>2. n * SamplePercent \in Nat /\ SamplePercent * n = n * SamplePercent
    BY <1>1
  <2> DEFINE k == n * SamplePercent
  <2>3. SampleCount = (k + 99) \div 100
    BY DEF SampleCount
  <2>4. k \in Nat => ((k + 99) \div 100) * 100 >= k
    <3> HIDE DEF k
    <3>1. QED
      OBVIOUS
  <2>5. QED
    BY <1>3, <2>1, <2>2, <2>3, <2>4
<1>4. QED
  BY <1>2, <1>3

-----------------------------------------------------------------------------
(* Types.                                                                  *)

Batches == [status : {"none", "reviewing", "ready", "applying", "paused", "completed"},
            sampled : SUBSET Items]
ItemTypes == [decision : Decisions, apply : {"pending", "applied", "failed", "skipped"}]
Started == [pc : {"reading"}, wave : Nat]
Between == [pc : {"checking", "applying"}, wave : Nat, todo : SUBSET Items, failed : BOOLEAN]
Answered == [pc : {"recording"}, wave : Nat, todo : SUBSET Items, failed : BOOLEAN,
             answer : Answers]
Calls == {Idle} \cup Running

LEMMA CallTypes ==
    ASSUME NEW c \in Calls
    PROVE  /\ c.pc \in {"idle", "reading", "checking", "applying", "recording"}
           /\ c.pc = "idle" <=> c = Idle
           /\ c.pc = "reading" => c \in Started
           /\ c.pc \in {"checking", "applying"} => c \in Between
           /\ c.pc = "recording" => c \in Answered
  BY DEF Calls, Running, Idle, Started, Between, Answered

LEMMA WavesAreNumbers == \A i \in Items : Wave(i) \in Nat
<1> SUFFICES ASSUME NEW i \in Items PROVE Wave(i) \in Nat
  OBVIOUS
<1>1. i - 1 \in Nat
  BY TotalAssumption DEF Items
<1>2. WaveSize \in Nat /\ WaveSize > 0
  BY WaveAssumption
<1>3. \A a, b \in Nat : b > 0 => (a \div b) \in Nat
  OBVIOUS
<1>4. QED
  BY <1>1, <1>2, <1>3 DEF Wave

(* Every answer of Apply leaves verdicts, risks and changes that were made *)
(* as they are.                                                            *)
Stable == \A i \in Items : AlreadyApplied(i) => AlreadyApplied(i)'

NoVerdict ==
    /\ proposal' \in [Items -> Proposals]
    /\ Stable
    /\ \A i \in Items :
         /\ proposal'[i].high = proposal[i].high
         /\ proposal'[i].human = proposal[i].human
         /\ proposal'[i].status = "in_review" <=> proposal[i].status = "in_review"

LEMMA NoChangeNoVerdict ==
    ASSUME TypeOK, UNCHANGED proposal PROVE NoVerdict
  BY DEF TypeOK, NoVerdict, Stable, AlreadyApplied

LEMMA SetStatusKeeps ==
    ASSUME TypeOK, NEW i \in Items,
           NEW s \in {"approved", "merge_conflicted", "identity_conflicted", "applied",
                      "rolled_back"},
           SetStatus(i, s),
           proposal[i].status # "in_review",
           AlreadyApplied(i) => s \in {"applied", "rolled_back"}
    PROVE  NoVerdict
  BY DEF TypeOK, NoVerdict, Stable, SetStatus, AlreadyApplied, Proposals

LEMMA ApplyKeeps ==
    ASSUME TypeOK, NEW i \in Items, NEW answer \in Answers, Apply(i, answer)
    PROVE  /\ NoVerdict
           /\ troubles' \in 0..MaxTroubles
           /\ answer = "applied" => AlreadyApplied(i)'
<1>0. MaxTroubles \in Nat /\ troubles \in 0..MaxTroubles
  BY Constants DEF TypeOK
<1>1. CASE answer = "applied" /\ AlreadyApplied(i) /\ UNCHANGED <<proposal, troubles>>
  BY <1>0, <1>1, NoChangeNoVerdict DEF AlreadyApplied
<1>2. CASE /\ answer = "applied"
           /\ proposal[i].status = "approved" /\ i \notin taken /\ ~proposal[i].blocked
           /\ SetStatus(i, "applied") /\ UNCHANGED troubles
  <2>1. NoVerdict
    BY <1>2, SetStatusKeeps DEF AlreadyApplied
  <2>2. proposal'[i].status = "applied"
    BY <1>2 DEF SetStatus, TypeOK, Proposals
  <2>3. QED
    BY <1>0, <1>2, <2>1, <2>2 DEF AlreadyApplied
<1>3. CASE /\ answer = "identity_conflict" /\ proposal[i].status = "approved" /\ i \in taken
           /\ \E s \in {"identity_conflicted", "approved"} : SetStatus(i, s)
           /\ UNCHANGED troubles
  BY <1>0, <1>3, SetStatusKeeps DEF AlreadyApplied
<1>4. CASE /\ answer = "failed" /\ proposal[i].status \notin {"approved", "applied", "rolled_back"}
           /\ UNCHANGED <<proposal, troubles>>
  BY <1>0, <1>4, NoChangeNoVerdict
<1>5. CASE /\ answer = "failed"
           /\ proposal[i].status = "approved" /\ i \notin taken /\ proposal[i].blocked
           /\ \E s \in {"merge_conflicted", "approved"} : SetStatus(i, s)
           /\ UNCHANGED troubles
  BY <1>0, <1>5, SetStatusKeeps DEF AlreadyApplied
<1>6. CASE /\ answer = "failed"
           /\ proposal[i].status = "approved" /\ i \notin taken /\ ~proposal[i].blocked
           /\ \E s \in {"merge_conflicted", "approved", "applied"} : SetStatus(i, s)
           /\ Trouble
  <2>1. NoVerdict
    BY <1>6, SetStatusKeeps DEF AlreadyApplied
  <2>2. troubles' \in 0..MaxTroubles
    BY <1>0, <1>6 DEF Trouble
  <2>3. QED
    BY <1>6, <2>1, <2>2
<1>7. QED
  BY <1>1, <1>2, <1>3, <1>4, <1>5, <1>6, Zenon DEF Apply

(* A new batch's proposals are in review, and nothing is decided.          *)
LEMMA InitInv == Init => IInv
<1> SUFFICES ASSUME Init PROVE IInv
  OBVIOUS
<1>0. /\ proposal \in [Items -> Proposals]
      /\ \A i \in Items : proposal[i].status = "in_review"
  BY DEF Init
<1>1. TypeOK
  <2>1. batch \in Batches /\ item \in [Items -> ItemTypes] /\ runner \in [Runners -> Calls]
    BY DEF Init, Batches, ItemTypes, Decisions, Calls
  <2>2. troubles \in 0..MaxTroubles /\ met \subseteq Items /\ taken \subseteq Creates
    BY Constants DEF Init
  <2>3. QED
    BY <1>0, <2>1, <2>2 DEF TypeOK, Batches, ItemTypes, Calls
<1>2. ItemInv
  BY DEF Init, ItemInv
<1>3. CallInv /\ WavesInOrder
  BY DEF Init, CallInv, WavesInOrder, Idle
<1>4. CompletedIsApplied /\ SampleInv
  BY DEF Init, CompletedIsApplied, SampleInv
<1>5. ReviewInv
  BY <1>0 DEF Init, ReviewInv
<1>6. QED
  BY <1>1, <1>2, <1>3, <1>4, <1>5 DEF IInv

-----------------------------------------------------------------------------
(* Every step keeps the types.                                             *)

LEMMA TypeOfParts ==
    TypeOK <=>
        /\ proposal \in [Items -> Proposals] /\ taken \subseteq Creates
        /\ batch \in Batches /\ item \in [Items -> ItemTypes]
        /\ runner \in [Runners -> Calls] /\ met \subseteq Items
        /\ troubles \in 0..MaxTroubles
  BY DEF TypeOK, Batches, ItemTypes, Calls

LEMMA VerdictIs ==
    ASSUME TypeOK, NEW i \in Items, NEW approve \in BOOLEAN, NEW byHuman \in BOOLEAN
    PROVE  /\ Verdict(i, approve, byHuman) \in Proposals
           /\ Verdict(i, approve, byHuman).human = byHuman
           /\ Verdict(i, approve, byHuman).high = proposal[i].high
           /\ Verdict(i, approve, byHuman).status # "in_review"
<1> DEFINE s == IF approve THEN "approved" ELSE "rejected"
           v == Verdict(i, approve, byHuman)
<1>1. s \in {"approved", "rejected"}
  OBVIOUS
<1>2. v = [proposal[i] EXCEPT !.status = s, !.human = byHuman]
  BY DEF Verdict
<1>3. proposal[i] \in Proposals
  BY DEF TypeOK
<1> HIDE DEF s, v
<1>4. v \in Proposals /\ v.human = byHuman /\ v.high = proposal[i].high /\ v.status = s
  BY <1>1, <1>2, <1>3 DEF Proposals
<1>5. QED
  BY <1>1, <1>4 DEF v

LEMMA ReviewTypes ==
    ASSUME TypeOK,
           \/ \E force \in BOOLEAN : Create(force)
           \/ \E i \in Items, approve \in BOOLEAN : Decide(i, approve) \/ DecideAlone(i, approve)
           \/ Finalize \/ Pause \/ PauseStuck \/ Resume
    PROVE  TypeOK'
<1> USE DEF TypeOK
<1>0. MaxTroubles \in Nat
  BY Constants
<1>1. ASSUME NEW force \in BOOLEAN, Create(force) PROVE TypeOK'
  <2>1. PICK s \in Samples(Full(force)) : batch' = [status |-> "reviewing", sampled |-> s]
    BY <1>1 DEF Create
  <2>2. Full(force) \in BOOLEAN
    BY DEF Full
  <2>3. s \subseteq Items
    BY <2>1, <2>2, SampleIsLargeEnough
  <2>4. QED
    BY <1>1, <2>1, <2>3 DEF Create
<1>2. ASSUME NEW i \in Items, NEW approve \in BOOLEAN, Decide(i, approve) PROVE TypeOK'
  <2>1. proposal' \in [Items -> Proposals]
    BY <1>2, VerdictIs DEF Decide
  <2>2. item' \in [Items -> ItemTypes]
    BY <1>2 DEF Decide, ItemTypes, Decisions
  <2>3. QED
    BY <1>2, <2>1, <2>2 DEF Decide, ItemTypes
<1>3. ASSUME NEW i \in Items, NEW approve \in BOOLEAN, DecideAlone(i, approve) PROVE TypeOK'
  <2>1. proposal' \in [Items -> Proposals]
    BY <1>3, VerdictIs DEF DecideAlone
  <2>2. QED
    BY <1>3, <2>1 DEF DecideAlone
<1>4. CASE Finalize
  <2>1. proposal' \in [Items -> Proposals]
    BY <1>4, VerdictIs DEF Finalize
  <2>2. item' \in [Items -> ItemTypes]
    BY <1>4 DEF Finalize, ItemTypes, Decisions, Undecided
  <2>3. batch' \in Batches
    BY <1>4 DEF Finalize, Batches
  <2>4. QED
    BY <1>4, <2>1, <2>2, <2>3 DEF Finalize, ItemTypes, Batches
<1>5. CASE Pause
  BY <1>0, <1>5 DEF Pause, Trouble
<1>6. CASE PauseStuck \/ Resume
  BY <1>6 DEF PauseStuck, Resume
<1>7. QED
  BY <1>1, <1>2, <1>3, <1>4, <1>5, <1>6

LEMMA ApplyTypes ==
    ASSUME TypeOK, NEW i \in Items,
           ApplyAlone(i) \/ Resolve(i) \/ Rollback(i) \/ Obstruct(i) \/ Release(i) \/ TakeName(i)
    PROVE  TypeOK' /\ NoVerdict /\ UNCHANGED <<batch, item, runner>>
<1>1. CASE ApplyAlone(i)
  <2>1. PICK answer \in Answers : Apply(i, answer)
    BY <1>1 DEF ApplyAlone
  <2>2. NoVerdict /\ troubles' \in 0..MaxTroubles
    BY <2>1, ApplyKeeps
  <2>3. QED
    BY <1>1, <2>2 DEF ApplyAlone, TypeOK, NoVerdict
<1>2. CASE Resolve(i)
  <2>1. NoVerdict
    BY <1>2, SetStatusKeeps DEF Resolve, AlreadyApplied
  <2>2. QED
    BY <1>2, <2>1 DEF Resolve, TypeOK, NoVerdict
<1>3. CASE Rollback(i)
  <2>1. NoVerdict
    BY <1>3, SetStatusKeeps DEF Rollback, AlreadyApplied
  <2>2. QED
    BY <1>3, <2>1 DEF Rollback, TypeOK, NoVerdict
<1>4. CASE Obstruct(i) \/ Release(i)
  <2>1. PICK b \in BOOLEAN : proposal' = [proposal EXCEPT ![i].blocked = b]
    BY <1>4 DEF Obstruct, Release
  <2>2. NoVerdict
    BY <2>1 DEF TypeOK, NoVerdict, Stable, AlreadyApplied, Proposals
  <2>3. QED
    BY <1>4, <2>2 DEF Obstruct, Release, TypeOK, NoVerdict
<1>5. CASE TakeName(i)
  BY <1>5, NoChangeNoVerdict DEF TakeName, TypeOK
<1>6. QED
  BY <1>1, <1>2, <1>3, <1>4, <1>5

LEMMA CallStepTypes ==
    ASSUME TypeOK, ItemInv, CallInv, NEW r \in Runners,
           StartWave(r) \/ RunnerStep(r) \/ Crash(r)
    PROVE  TypeOK'
<1>0. MaxTroubles \in Nat /\ Items \subseteq Nat
  BY Constants
<1> DEFINE c == runner[r]
<1>1. c \in Calls
  BY TypeOfParts
<1>2. Open \subseteq Items
  BY DEF Open
<1>3. Idle \in Calls
  BY DEF Calls
<1>4. CASE StartWave(r)
  <2>1. CASE Open = {}
    BY <1>4, <2>1 DEF StartWave, TypeOK
  <2>2. CASE Open # {}
    <3>1. NextWave \in Nat
      <4>1. {Wave(i) : i \in Open} \in SUBSET Nat /\ {Wave(i) : i \in Open} # {}
        BY <1>2, <2>2, WavesAreNumbers
      <4>2. QED
        BY <4>1, MinIsLeast DEF NextWave
    <3>2. [pc |-> "reading", wave |-> NextWave] \in Calls
      BY <3>1 DEF Calls, Running
    <3>3. QED
      BY <1>4, <2>2, <3>2 DEF StartWave, TypeOK, Calls
  <2>3. QED
    BY <2>1, <2>2
<1>5. CASE ReadWave(r)
  <2>1. c \in Started
    BY <1>1, <1>5, CallTypes DEF ReadWave
  <2>2. [pc |-> "checking", wave |-> c.wave, failed |-> FALSE,
         todo |-> {i \in Open : Wave(i) = c.wave}] \in Calls
    BY <1>2, <2>1 DEF Started, Calls, Running
  <2>3. QED
    BY <1>5, <2>2 DEF ReadWave, TypeOK, Calls
<1>6. CASE CheckPaused(r)
  <2>1. c \in Between
    BY <1>1, <1>6, CallTypes DEF CheckPaused
  <2>2. [c EXCEPT !.pc = "applying"] \in Calls
    BY <2>1 DEF Between, Calls, Running
  <2>3. QED
    BY <1>3, <1>6, <2>2 DEF CheckPaused, TypeOK, Calls
<1>7. CASE ApplyItem(r)
  <2>1. c \in Between /\ c.todo # {}
    BY <1>1, <1>7, CallTypes DEF ApplyItem, CallInv
  <2>2. Min(c.todo) \in Items
    BY <1>0, <2>1, MinIsLeast DEF Between
  <2>3. PICK answer \in Answers :
          /\ Apply(Min(c.todo), answer)
          /\ runner' = [runner EXCEPT ![r] =
                          [pc |-> "recording", wave |-> c.wave, todo |-> c.todo,
                           failed |-> c.failed, answer |-> answer]]
          /\ met' = IF answer = "identity_conflict" THEN met \cup {Min(c.todo)} ELSE met
    BY <1>7 DEF ApplyItem
  <2>4. NoVerdict /\ troubles' \in 0..MaxTroubles
    BY <2>2, <2>3, ApplyKeeps
  <2>5. [pc |-> "recording", wave |-> c.wave, todo |-> c.todo,
         failed |-> c.failed, answer |-> answer] \in Calls
    BY <2>1 DEF Between, Calls, Running
  <2>6. runner' \in [Runners -> Calls] /\ met' \subseteq Items
    BY <2>2, <2>3, <2>5, TypeOfParts
  <2>7. QED
    BY <1>7, <2>4, <2>6 DEF ApplyItem, TypeOK, NoVerdict, Calls
<1>8. CASE RecordApply(r)
  <2>1. c \in Answered /\ c.todo # {}
    BY <1>1, <1>8, CallTypes DEF RecordApply, CallInv
  <2>2. Min(c.todo) \in Items
    BY <1>0, <2>1, MinIsLeast DEF Answered
  <2>3. [pc |-> "checking", wave |-> c.wave, todo |-> c.todo \ {Min(c.todo)},
         failed |-> c.failed \/ c.answer = "failed"] \in Calls
    BY <2>1 DEF Answered, Calls, Running
  <2>4. CASE c.answer = "identity_conflict"
    BY <1>3, <1>8, <2>4 DEF RecordApply, TypeOK, Calls
  <2>5. CASE c.answer # "identity_conflict"
    <3>1. c.answer \in {"applied", "failed"}
      BY <2>1, <2>5 DEF Answered, Answers
    <3>2. item' \in [Items -> ItemTypes]
      BY <1>8, <2>2, <2>5, <3>1, TypeOfParts DEF RecordApply, ItemTypes
    <3>3. runner' \in [Runners -> Calls]
      BY <1>8, <2>3, <2>5, TypeOfParts DEF RecordApply
    <3>4. QED
      BY <1>8, <3>2, <3>3 DEF RecordApply, TypeOK, Calls, ItemTypes
  <2>6. QED
    BY <2>4, <2>5
<1>9. CASE FinishWave(r)
  BY <1>3, <1>9 DEF FinishWave, AfterWave, TypeOK, Calls
<1>10. CASE Crash(r)
  BY <1>0, <1>3, <1>10 DEF Crash, Trouble, TypeOK, Calls
<1>11. QED
  BY <1>4, <1>5, <1>6, <1>7, <1>8, <1>9, <1>10 DEF RunnerStep

-----------------------------------------------------------------------------
(* Steps beside the calls.                                                 *)

(* Whatever leaves items and calls alone, takes no change batch back and   *)
(* completes nothing.                                                      *)
LEMMA BesideCalls ==
    ASSUME IInv, Stable, UNCHANGED <<item, runner>>,
           Decidable' => Decidable,
           batch'.status = "completed" => batch.status = "completed"
    PROVE  ItemInv' /\ CallInv' /\ WavesInOrder' /\ CompletedIsApplied'
<1> USE DEF IInv
<1>0. Items \subseteq Nat
  BY Constants
<1>1. ItemInv'
  BY DEF ItemInv, Stable
<1>2. WavesInOrder' /\ CompletedIsApplied'
  BY DEF WavesInOrder, CompletedIsApplied, Stable, Wave
<1>3. CallInv'
  <2> SUFFICES ASSUME NEW r \in Runners
               PROVE  /\ runner[r] # Idle => ~Decidable'
                      /\ runner[r].pc \in {"applying", "recording"} => runner[r].todo # {}
                      /\ runner[r].pc = "recording" /\ runner[r].answer = "applied"
                           => AlreadyApplied(Min(runner[r].todo))'
    BY DEF CallInv
  <2>1. CASE runner[r].pc = "recording" /\ runner[r].answer = "applied"
    <3>1. runner[r] \in Answered /\ runner[r].todo # {}
      BY <2>1, CallTypes, TypeOfParts DEF CallInv
    <3>2. Min(runner[r].todo) \in Items
      BY <1>0, <3>1, MinIsLeast DEF Answered
    <3>3. QED
      BY <2>1, <3>2 DEF CallInv, Stable, AlreadyApplied
  <2>2. QED
    BY <2>1 DEF CallInv
<1>4. QED
  BY <1>1, <1>2, <1>3

(* Nothing about reviews changes without a verdict.                        *)
LEMMA ReviewKept ==
    ASSUME IInv, NoVerdict,
           batch'.sampled = batch.sampled,
           Decidable' <=> Decidable,
           batch'.status = "none" <=> batch.status = "none",
           \A i \in Items : item'[i].decision = item[i].decision
    PROVE  ReviewInv' /\ SampleInv'
<1>1. batch.sampled \subseteq Items
  BY DEF IInv, TypeOK
<1>2. ReviewInv'
  BY <1>1 DEF IInv, ReviewInv, Reviewed, NoVerdict
<1>3. SampleInv'
  BY DEF IInv, SampleInv, NoVerdict
<1>4. QED
  BY <1>2, <1>3

LEMMA ApplyInv ==
    ASSUME IInv, NEW i \in Items,
           ApplyAlone(i) \/ Resolve(i) \/ Rollback(i) \/ Obstruct(i) \/ Release(i) \/ TakeName(i)
    PROVE  IInv'
<1>1. TypeOK' /\ NoVerdict /\ UNCHANGED <<batch, item, runner>>
  BY ApplyTypes DEF IInv
<1>2. ItemInv' /\ CallInv' /\ WavesInOrder' /\ CompletedIsApplied'
  BY <1>1, BesideCalls DEF NoVerdict, Decidable
<1>3. ReviewInv' /\ SampleInv'
  BY <1>1, ReviewKept DEF Decidable
<1>4. QED
  BY <1>1, <1>2, <1>3 DEF IInv

LEMMA PausingInv ==
    ASSUME IInv, Pause \/ PauseStuck \/ Resume
    PROVE  IInv'
<1>1. TypeOK'
  BY ReviewTypes DEF IInv
<1>2. NoVerdict /\ UNCHANGED <<item, runner>>
  BY NoChangeNoVerdict DEF Pause, PauseStuck, Resume, IInv
<1>3. /\ batch.status \in {"ready", "applying", "paused"}
      /\ batch'.status \in {"ready", "paused"}
      /\ batch'.sampled = batch.sampled
  BY DEF Pause, PauseStuck, Resume, IInv, TypeOK
<1>4. ItemInv' /\ CallInv' /\ WavesInOrder' /\ CompletedIsApplied'
  BY <1>2, <1>3, BesideCalls DEF NoVerdict, Decidable
<1>5. ReviewInv' /\ SampleInv'
  BY <1>2, <1>3, ReviewKept DEF Decidable
<1>6. QED
  BY <1>1, <1>4, <1>5 DEF IInv

LEMMA CreateInv ==
    ASSUME IInv, NEW force \in BOOLEAN, Create(force)
    PROVE  IInv'
<1>1. TypeOK'
  BY ReviewTypes DEF IInv
<1>2. PICK s \in Samples(Full(force)) : batch' = [status |-> "reviewing", sampled |-> s]
  BY DEF Create
<1>3. Full(force) \in BOOLEAN
  BY DEF Full
<1>4. /\ Full(force) => s = Items
      /\ Cardinality(s) * 100 >= SamplePercent * Cardinality(Items)
  BY <1>2, <1>3, SampleIsLargeEnough
<1>5. batch.status = "none" /\ UNCHANGED <<proposal, item, runner>>
      /\ \A i \in Items : proposal[i].status = "in_review"
  BY DEF Create
<1>6. ItemInv' /\ CallInv' /\ WavesInOrder' /\ CompletedIsApplied'
  BY <1>2, <1>5, BesideCalls, NoChangeNoVerdict DEF NoVerdict, IInv, Decidable
<1>7. ReviewInv'
  BY <1>5, <1>2 DEF ReviewInv, IInv, Decidable
<1>8. SampleInv'
  BY <1>2, <1>4, <1>5 DEF SampleInv, Full
<1>9. QED
  BY <1>1, <1>6, <1>7, <1>8 DEF IInv

-----------------------------------------------------------------------------
(* Verdicts.                                                               *)

LEMMA DecideAloneInv ==
    ASSUME IInv, NEW i \in Items, NEW approve \in BOOLEAN, DecideAlone(i, approve)
    PROVE  IInv'
<1> DEFINE v == Verdict(i, approve, TRUE)
<1>0. TypeOK /\ proposal[i].status = "in_review"
  BY DEF IInv, DecideAlone
<1>1. TypeOK'
  BY <1>0, ReviewTypes
<1>2. v.human = TRUE /\ v.high = proposal[i].high
  BY <1>0, VerdictIs
<1>3. proposal' = [proposal EXCEPT ![i] = v] /\ UNCHANGED <<batch, item, runner>>
  BY DEF DecideAlone
<1> HIDE DEF v
<1>4. proposal'[i] = v /\ \A j \in Items \ {i} : proposal'[j] = proposal[j]
  BY <1>0, <1>3 DEF TypeOK
<1>5. Stable
  BY <1>0, <1>4 DEF Stable, AlreadyApplied
<1>6. ItemInv' /\ CallInv' /\ WavesInOrder' /\ CompletedIsApplied'
  BY <1>3, <1>5, BesideCalls DEF Decidable
<1>7. \A j \in Items : /\ proposal'[j].high = proposal[j].high
                       /\ proposal[j].human => proposal'[j].human
  BY <1>2, <1>4
<1>8. ReviewInv'
  <2>1. batch.sampled \subseteq Items
    BY <1>0 DEF TypeOK
  <2>2. QED
    BY <1>2, <1>3, <1>4, <1>7, <2>1 DEF IInv, ReviewInv, Reviewed, Decidable
<1>9. SampleInv'
  BY <1>3, <1>7 DEF IInv, SampleInv
<1>10. QED
  BY <1>1, <1>6, <1>8, <1>9 DEF IInv

LEMMA DecideInv ==
    ASSUME IInv, NEW i \in Items, NEW approve \in BOOLEAN, Decide(i, approve)
    PROVE  IInv'
<1> DEFINE v == Verdict(i, approve, TRUE)
<1>0. /\ TypeOK /\ proposal[i].status = "in_review" /\ batch.status = "reviewing"
      /\ UNCHANGED <<batch, runner>>
  BY DEF IInv, Decide
<1>1. TypeOK'
  BY <1>0, ReviewTypes
<1>2. v.human = TRUE /\ v.high = proposal[i].high
  BY <1>0, VerdictIs
<1>3. proposal' = [proposal EXCEPT ![i] = v]
  BY DEF Decide
<1> HIDE DEF v
<1>4. proposal'[i] = v /\ \A j \in Items \ {i} : proposal'[j] = proposal[j]
  BY <1>0, <1>3 DEF TypeOK
<1>5. Stable
  BY <1>0, <1>4 DEF Stable, AlreadyApplied
<1>6. /\ \A j \in Items \ {i} : item'[j] = item[j]
      /\ item'[i] = IF approve THEN [decision |-> "approved", apply |-> "pending"]
                               ELSE [decision |-> "rejected", apply |-> "skipped"]
  BY <1>0 DEF Decide, TypeOK
<1>7. ItemInv'
  BY <1>5, <1>6 DEF IInv, ItemInv, Stable
<1>8. \A r \in Runners : runner'[r] = Idle
  BY <1>0 DEF IInv, CallInv, Decidable
<1>9. CallInv' /\ WavesInOrder' /\ CompletedIsApplied'
  BY <1>0, <1>8 DEF CallInv, WavesInOrder, CompletedIsApplied, Idle
<1>10. \A j \in Items : /\ proposal'[j].high = proposal[j].high
                        /\ proposal[j].human => proposal'[j].human
  BY <1>2, <1>4
<1>11. ReviewInv'
  BY <1>0, <1>2, <1>4, <1>6, <1>10 DEF IInv, ReviewInv, Reviewed, Decidable
<1>12. SampleInv'
  BY <1>0, <1>10 DEF IInv, SampleInv
<1>13. QED
  BY <1>1, <1>7, <1>9, <1>11, <1>12 DEF IInv

(* The rest is approved with the sample: it was not sampled, so no risk is *)
(* high, and humans decided all that was sampled.                          *)
LEMMA FinalizeInv ==
    ASSUME IInv, Finalize
    PROVE  IInv'
<1> DEFINE v(i) == Verdict(i, TRUE, FALSE)
<1>0. /\ TypeOK /\ batch.status = "reviewing" /\ batch.sampled \cap Undecided = {}
      /\ \A i \in Undecided : proposal[i].status = "in_review"
      /\ UNCHANGED runner
      /\ batch.sampled \subseteq Items
  BY DEF IInv, Finalize, TypeOK
<1>1. TypeOK'
  BY <1>0, ReviewTypes
<1>2. \A i \in Undecided : v(i).high = proposal[i].high /\ v(i).status # "in_review"
  BY <1>0, VerdictIs DEF Undecided
<1>3. proposal' = [i \in Items |-> IF i \in Undecided THEN v(i) ELSE proposal[i]]
  BY DEF Finalize
<1> HIDE DEF v
<1>4. /\ \A i \in Undecided : proposal'[i] = v(i)
      /\ \A i \in Items \ Undecided : proposal'[i] = proposal[i]
  BY <1>3 DEF Undecided
<1>5. Stable
  BY <1>0, <1>4 DEF Stable, AlreadyApplied
<1>6. /\ \A i \in Undecided : item'[i] = [item[i] EXCEPT !.decision = "approved"]
      /\ \A i \in Items \ Undecided : item'[i] = item[i]
  BY DEF Finalize, Undecided
<1>7. ItemInv'
  <2> SUFFICES ASSUME NEW i \in Items
               PROVE  /\ item'[i].apply = "applied" => AlreadyApplied(i)'
                      /\ item'[i].apply = "skipped" => item'[i].decision = "rejected"
    BY DEF ItemInv
  <2>1. CASE i \in Undecided
    <3>1. item[i] \in ItemTypes /\ item[i].decision = "pending"
      BY <1>0, <2>1, TypeOfParts DEF Undecided
    <3>2. item'[i].apply = item[i].apply
      BY <1>6, <2>1, <3>1 DEF ItemTypes
    <3>3. QED
      BY <1>5, <3>1, <3>2 DEF IInv, ItemInv, Stable
  <2>2. CASE i \notin Undecided
    BY <1>5, <1>6, <2>2 DEF IInv, ItemInv, Stable
  <2>3. QED
    BY <2>1, <2>2
<1>8. \A r \in Runners : runner'[r] = Idle
  BY <1>0 DEF IInv, CallInv, Decidable
<1>9. CallInv' /\ WavesInOrder'
  BY <1>8 DEF CallInv, WavesInOrder, Idle
<1>10. /\ batch'.sampled = batch.sampled /\ batch'.status \in {"completed", "ready"}
       /\ batch'.status = "completed" => \A i \in Items : item[i].decision = "rejected"
  BY <1>0 DEF Finalize, TypeOK
<1>11. CompletedIsApplied'
  <2> SUFFICES ASSUME batch'.status = "completed", NEW i \in Items
               PROVE  item'[i].decision # "approved"
    BY DEF CompletedIsApplied
  <2>1. item[i].decision = "rejected"
    BY <1>10
  <2>2. QED
    BY <1>6, <2>1 DEF Undecided
<1>12. \A j \in Items : proposal'[j].high = proposal[j].high
  BY <1>2, <1>4
<1>13. \A j \in batch.sampled : proposal'[j].human
  BY <1>0, <1>4 DEF IInv, ReviewInv, Decidable, Undecided
<1>14. ReviewInv'
  <2> SUFFICES ASSUME NEW i \in Items, proposal'[i].status # "in_review"
               PROVE  Reviewed(i)'
    BY <1>10 DEF ReviewInv, Decidable
  <2>1. CASE i \in Undecided
    <3>1. i \notin batch.sampled
      BY <1>0, <2>1
    <3>2. \A j \in Items : ~proposal'[j].high
      BY <1>0, <1>12, <3>1 DEF IInv, SampleInv
    <3>3. QED
      BY <1>10, <1>13, <3>1, <3>2 DEF Reviewed, Decidable
  <2>2. CASE i \notin Undecided
    BY <1>0, <1>4, <2>2 DEF IInv, ReviewInv, Reviewed, Decidable
  <2>3. QED
    BY <2>1, <2>2
<1>15. SampleInv'
  BY <1>0, <1>10, <1>12 DEF IInv, SampleInv
<1>16. QED
  BY <1>1, <1>7, <1>9, <1>11, <1>14, <1>15 DEF IInv

-----------------------------------------------------------------------------
(* Steps of ApplyNextWave.                                                 *)

(* A call that stops or goes on with its wave keeps what all calls keep,   *)
(* if it remembers a true answer.                                          *)
LEMMA CallGoesOn ==
    ASSUME IInv, NEW r \in Runners, Stable,
           runner[r] # Idle => ~Decidable', Decidable' => Decidable,
           \A i \in Items : item'[i].decision = item[i].decision,
           NEW c \in Calls,
           runner' = [runner EXCEPT ![r] = c],
           \/ c = Idle
           \/ runner[r] # Idle /\ c.wave = runner[r].wave,
           c.pc \in {"applying", "recording"} => c.todo # {},
           c.pc = "recording" /\ c.answer = "applied"
             => proposal'[Min(c.todo)].status \in {"applied", "rolled_back"}
    PROVE  CallInv' /\ WavesInOrder'
<1>0. Items \subseteq Nat /\ runner \in [Runners -> Calls]
  BY Constants, TypeOfParts DEF IInv
<1>1. runner'[r] = c /\ \A q \in Runners \ {r} : runner'[q] = runner[q]
  BY <1>0
<1>2. CallInv'
  <2> SUFFICES ASSUME NEW q \in Runners
               PROVE  /\ runner'[q] # Idle => ~Decidable'
                      /\ runner'[q].pc \in {"applying", "recording"} => runner'[q].todo # {}
                      /\ runner'[q].pc = "recording" /\ runner'[q].answer = "applied"
                           => proposal'[Min(runner'[q].todo)].status \in {"applied", "rolled_back"}
    BY DEF CallInv, AlreadyApplied
  <2>1. CASE q = r
    BY <1>1, <2>1
  <2>2. CASE q # r
    <3>1. runner'[q] = runner[q]
      BY <1>1, <2>2
    <3>2. /\ runner[q] # Idle => ~Decidable'
          /\ runner[q].pc \in {"applying", "recording"} => runner[q].todo # {}
      BY DEF IInv, CallInv
    <3>3. CASE runner[q].pc = "recording" /\ runner[q].answer = "applied"
      <4>1. runner[q] \in Answered /\ runner[q].todo # {}
        BY <1>0, <3>2, <3>3, CallTypes
      <4>2. Min(runner[q].todo) \in Items
        BY <1>0, <4>1, MinIsLeast DEF Answered
      <4>3. AlreadyApplied(Min(runner[q].todo))
        BY <3>3 DEF IInv, CallInv
      <4>4. proposal'[Min(runner'[q].todo)].status \in {"applied", "rolled_back"}
        BY <3>1, <4>2, <4>3 DEF Stable, AlreadyApplied
      <4>5. QED
        BY <3>1, <3>2, <4>4
    <3>4. QED
      BY <3>1, <3>2, <3>3
  <2>3. QED
    BY <2>1, <2>2
<1>3. WavesInOrder'
  <2> SUFFICES ASSUME NEW q \in Runners, NEW i \in Items,
                      runner'[q] # Idle, item'[i].decision = "approved",
                      Wave(i) < runner'[q].wave
               PROVE  AlreadyApplied(i)'
    BY DEF WavesInOrder, Wave
  <2>1. runner[q] # Idle /\ runner'[q].wave = runner[q].wave
    BY <1>1
  <2>2. AlreadyApplied(i)
    BY <2>1 DEF IInv, WavesInOrder
  <2>3. QED
    BY <2>2 DEF Stable
<1>4. QED
  BY <1>2, <1>3

LEMMA OpenOrApplied ==
    ASSUME IInv, NEW i \in Items \ Open, item[i].decision = "approved"
    PROVE  AlreadyApplied(i)
<1>1. item[i] \in ItemTypes
  BY TypeOfParts DEF IInv
<1>2. item[i].apply = "applied"
  BY <1>1 DEF IInv, ItemInv, ItemTypes, Open
<1>3. QED
  BY <1>2 DEF IInv, ItemInv

LEMMA StartWaveInv ==
    ASSUME IInv, NEW r \in Runners, StartWave(r)
    PROVE  IInv'
<1>0. /\ TypeOK' /\ batch.status = "ready" /\ runner[r] = Idle
      /\ UNCHANGED <<proposal, item>> /\ NoVerdict
  BY CallStepTypes, NoChangeNoVerdict DEF IInv, StartWave
<1>1. /\ batch'.sampled = batch.sampled
      /\ batch'.status = IF Open = {} THEN "completed" ELSE "applying"
  BY <1>0 DEF StartWave, IInv, TypeOK
<1>2. ReviewInv' /\ SampleInv'
  BY <1>0, <1>1, ReviewKept DEF Decidable
<1>3. ItemInv'
  BY <1>0 DEF IInv, ItemInv, AlreadyApplied
<1>4. CASE Open = {}
  <2>1. UNCHANGED runner
    BY <1>4 DEF StartWave
  <2>2. CallInv' /\ WavesInOrder'
    BY <1>0, <1>1, <1>4, <2>1
    DEF IInv, CallInv, WavesInOrder, AlreadyApplied, Decidable, Wave
  <2>3. CompletedIsApplied'
    BY <1>0, <1>4, OpenOrApplied DEF CompletedIsApplied, AlreadyApplied
  <2>4. QED
    BY <1>0, <1>2, <1>3, <2>2, <2>3 DEF IInv
<1>5. CASE Open # {}
  <2> DEFINE c == [pc |-> "reading", wave |-> NextWave]
  <2>1. runner' = [runner EXCEPT ![r] = c] /\ runner \in [Runners -> Calls]
    BY <1>5, TypeOfParts DEF StartWave, IInv
  <2>2. c.pc = "reading" /\ c.wave = NextWave
    OBVIOUS
  <2> HIDE DEF c
  <2>3. runner'[r] = c /\ \A q \in Runners \ {r} : runner'[q] = runner[q]
    BY <2>1
  <2>4. CallInv'
    BY <1>0, <1>1, <1>5, <2>2, <2>3 DEF IInv, CallInv, AlreadyApplied, Decidable
  <2>5. \A i \in Open : NextWave <= Wave(i)
    <3>1. {Wave(i) : i \in Open} \in SUBSET Nat /\ {Wave(i) : i \in Open} # {}
      BY <1>5, WavesAreNumbers DEF Open
    <3>2. QED
      BY <3>1, MinIsLeast DEF NextWave
  <2>6. NextWave \in Nat
    <3>1. {Wave(i) : i \in Open} \in SUBSET Nat /\ {Wave(i) : i \in Open} # {}
      BY <1>5, WavesAreNumbers DEF Open
    <3>2. QED
      BY <3>1, MinIsLeast DEF NextWave
  <2>7. WavesInOrder'
    <3> SUFFICES ASSUME NEW q \in Runners, NEW i \in Items,
                        runner'[q] # Idle, item'[i].decision = "approved",
                        Wave(i) < runner'[q].wave
                 PROVE  AlreadyApplied(i)'
      BY DEF WavesInOrder, Wave
    <3>1. CASE q = r
      <4>1. i \notin Open
        BY <2>2, <2>3, <2>5, <2>6, <3>1, WavesAreNumbers
      <4>2. QED
        BY <1>0, <4>1, OpenOrApplied DEF AlreadyApplied
    <3>2. CASE q # r
      BY <1>0, <2>3, <3>2 DEF IInv, WavesInOrder, AlreadyApplied
    <3>3. QED
      BY <3>1, <3>2
  <2>8. CompletedIsApplied'
    BY <1>1, <1>5 DEF CompletedIsApplied
  <2>9. QED
    BY <1>0, <1>2, <1>3, <2>4, <2>7, <2>8 DEF IInv
<1>6. QED
  BY <1>4, <1>5

(* A call reads its wave, looks at the batch, or is cut off.               *)
LEMMA LookingInv ==
    ASSUME IInv, NEW r \in Runners, ReadWave(r) \/ CheckPaused(r) \/ Crash(r)
    PROVE  IInv'
<1>0. /\ TypeOK' /\ NoVerdict /\ Stable /\ UNCHANGED <<proposal, batch, item>>
      /\ runner[r] # Idle /\ runner[r] \in Calls
  <2>1. TypeOK' /\ UNCHANGED <<proposal, batch, item>>
    BY CallStepTypes DEF IInv, ReadWave, CheckPaused, Crash, RunnerStep
  <2>2. NoVerdict /\ Stable
    BY <2>1, NoChangeNoVerdict DEF IInv, NoVerdict
  <2>3. QED
    BY <2>1, <2>2, TypeOfParts DEF IInv, ReadWave, CheckPaused, Crash, Idle
<1>1. ItemInv' /\ CompletedIsApplied'
  BY <1>0 DEF IInv, ItemInv, CompletedIsApplied, AlreadyApplied
<1>2. ReviewInv' /\ SampleInv'
  BY <1>0, ReviewKept DEF Decidable
<1>3. /\ ~Decidable /\ ~Decidable'
      /\ \A i \in Items : item'[i].decision = item[i].decision
  BY <1>0 DEF IInv, CallInv, Decidable
<1>4. CASE runner' = [runner EXCEPT ![r] = Idle]
  <2>1. Idle \in Calls /\ Idle.pc = "idle"
    BY DEF Calls, Idle
  <2>2. CallInv' /\ WavesInOrder'
    BY <1>0, <1>3, <1>4, <2>1, CallGoesOn
  <2>3. QED
    BY <1>0, <1>1, <1>2, <2>2 DEF IInv
<1>5. CASE ReadWave(r)
  <2> DEFINE c == [pc |-> "checking", wave |-> runner[r].wave, failed |-> FALSE,
                   todo |-> {i \in Open : Wave(i) = runner[r].wave}]
  <2>1. runner[r] \in Started
    BY <1>0, <1>5, CallTypes DEF ReadWave
  <2>2. c \in Calls /\ c.pc = "checking" /\ c.wave = runner[r].wave
    BY <2>1 DEF Started, Calls, Running, Open
  <2>3. runner' = [runner EXCEPT ![r] = c]
    BY <1>5 DEF ReadWave
  <2> HIDE DEF c
  <2>4. CallInv' /\ WavesInOrder'
    BY <1>0, <1>3, <2>2, <2>3, CallGoesOn
  <2>5. QED
    BY <1>0, <1>1, <1>2, <2>4 DEF IInv
<1>6. CASE CheckPaused(r) /\ batch.status # "paused"
  <2> DEFINE c == [runner[r] EXCEPT !.pc = "applying"]
  <2>1. runner[r] \in Between /\ runner[r].todo # {}
    BY <1>0, <1>6, CallTypes DEF CheckPaused
  <2>2. /\ c \in Calls /\ c.pc = "applying" /\ c.wave = runner[r].wave
        /\ c.todo = runner[r].todo
    BY <2>1 DEF Between, Calls, Running
  <2>3. runner' = [runner EXCEPT ![r] = c]
    BY <1>6 DEF CheckPaused
  <2> HIDE DEF c
  <2>4. CallInv' /\ WavesInOrder'
    BY <1>0, <1>3, <2>1, <2>2, <2>3, CallGoesOn
  <2>5. QED
    BY <1>0, <1>1, <1>2, <2>4 DEF IInv
<1>7. QED
  BY <1>4, <1>5, <1>6 DEF CheckPaused, Crash

LEMMA ApplyItemInv ==
    ASSUME IInv, NEW r \in Runners, ApplyItem(r)
    PROVE  IInv'
<1>0. /\ TypeOK /\ TypeOK' /\ UNCHANGED <<batch, item>>
      /\ runner[r].pc = "applying" /\ runner[r] \in Between /\ runner[r].todo # {}
      /\ runner[r] # Idle
  BY CallStepTypes, CallTypes, TypeOfParts DEF IInv, CallInv, ApplyItem, RunnerStep, Idle
<1> DEFINE i == Min(runner[r].todo)
<1>1. i \in Items
  BY <1>0, Constants, MinIsLeast DEF Between
<1>2. PICK answer \in Answers :
        /\ Apply(i, answer)
        /\ runner' = [runner EXCEPT ![r] =
                        [pc |-> "recording", wave |-> runner[r].wave, todo |-> runner[r].todo,
                         failed |-> runner[r].failed, answer |-> answer]]
  BY DEF ApplyItem
<1>3. /\ NoVerdict /\ Stable
      /\ answer = "applied" => proposal'[i].status \in {"applied", "rolled_back"}
  BY <1>0, <1>1, <1>2, ApplyKeeps DEF NoVerdict, AlreadyApplied
<1>4. ItemInv' /\ CompletedIsApplied'
  BY <1>0, <1>3 DEF IInv, ItemInv, CompletedIsApplied, Stable
<1>5. ReviewInv' /\ SampleInv'
  BY <1>0, <1>3, ReviewKept DEF Decidable
<1>6. ~Decidable /\ ~Decidable'
  BY <1>0 DEF IInv, CallInv, Decidable
<1>7. CallInv' /\ WavesInOrder'
  <2> DEFINE c == [pc |-> "recording", wave |-> runner[r].wave, todo |-> runner[r].todo,
                   failed |-> runner[r].failed, answer |-> answer]
  <2>1. /\ c \in Calls /\ c.pc = "recording" /\ c.wave = runner[r].wave
        /\ c.todo = runner[r].todo /\ c.answer = answer
    BY <1>0 DEF Between, Calls, Running
  <2>2. runner' = [runner EXCEPT ![r] = c]
    BY <1>2
  <2> HIDE DEF c
  <2>3. QED
    BY <1>0, <1>3, <1>6, <2>1, <2>2, CallGoesOn
<1>8. QED
  BY <1>0, <1>4, <1>5, <1>7 DEF IInv

LEMMA RecordApplyInv ==
    ASSUME IInv, NEW r \in Runners, RecordApply(r)
    PROVE  IInv'
<1>0. /\ TypeOK' /\ UNCHANGED <<proposal, batch>> /\ NoVerdict /\ Stable
      /\ runner[r].pc = "recording" /\ runner[r] \in Answered /\ runner[r].todo # {}
      /\ runner[r] # Idle
  BY CallStepTypes, NoChangeNoVerdict, CallTypes, TypeOfParts
  DEF IInv, CallInv, RecordApply, RunnerStep, Idle, NoVerdict
<1> DEFINE i == Min(runner[r].todo)
           a == runner[r].answer
<1>1. i \in Items
  <2>1. runner[r].todo \in SUBSET Nat /\ runner[r].todo \subseteq Items
    BY <1>0, Constants DEF Answered
  <2>2. QED
    BY <1>0, <2>1, MinIsLeast
<1>2. ~Decidable /\ ~Decidable'
  BY <1>0 DEF IInv, CallInv, Decidable
<1>3. /\ \A j \in Items : item'[j].decision = item[j].decision
      /\ \A j \in Items : \/ item'[j].apply = item[j].apply
                          \/ j = i /\ item'[j].apply = a /\ a \in {"applied", "failed"}
  <2>1. item \in [Items -> ItemTypes] /\ a \in Answers
    BY <1>0, TypeOfParts DEF IInv, Answered
  <2>2. CASE a = "identity_conflict"
    BY <2>2 DEF RecordApply
  <2>3. CASE a # "identity_conflict"
    <3>1. item' = [item EXCEPT ![i].apply = a] /\ a \in {"applied", "failed"}
      BY <2>1, <2>3 DEF RecordApply, Answers
    <3> HIDE DEF a, i
    <3>2. QED
      BY <1>1, <2>1, <3>1 DEF ItemTypes
  <2>4. QED
    BY <2>2, <2>3
<1>4. a = "applied" => AlreadyApplied(i)
  BY <1>0 DEF IInv, CallInv
<1>5. ItemInv'
  BY <1>0, <1>3, <1>4 DEF IInv, ItemInv, AlreadyApplied
<1>6. CompletedIsApplied'
  BY <1>0, <1>3 DEF IInv, CompletedIsApplied, AlreadyApplied
<1>7. ReviewInv' /\ SampleInv'
  BY <1>0, <1>2, <1>3, ReviewKept
<1>8. CallInv' /\ WavesInOrder'
  <2>1. CASE a = "identity_conflict"
    <3>1. Idle \in Calls /\ Idle.pc = "idle" /\ runner' = [runner EXCEPT ![r] = Idle]
      BY <2>1 DEF RecordApply, Calls, Idle
    <3>2. QED
      BY <1>0, <1>2, <1>3, <3>1, CallGoesOn
  <2>2. CASE a # "identity_conflict"
    <3> DEFINE c == [pc |-> "checking", wave |-> runner[r].wave, todo |-> runner[r].todo \ {i},
                     failed |-> runner[r].failed \/ a = "failed"]
    <3>1. c \in Calls /\ c.pc = "checking" /\ c.wave = runner[r].wave
      BY <1>0 DEF Answered, Calls, Running
    <3>2. runner' = [runner EXCEPT ![r] = c]
      BY <2>2 DEF RecordApply
    <3> HIDE DEF c
    <3>3. QED
      BY <1>0, <1>2, <1>3, <3>1, <3>2, CallGoesOn
  <2>3. QED
    BY <2>1, <2>2
<1>9. QED
  BY <1>0, <1>5, <1>6, <1>7, <1>8 DEF IInv

LEMMA FinishWaveInv ==
    ASSUME IInv, NEW r \in Runners, FinishWave(r)
    PROVE  IInv'
<1>0. /\ TypeOK' /\ UNCHANGED <<proposal, item>> /\ NoVerdict /\ Stable
      /\ runner[r].pc = "checking" /\ runner[r] # Idle
      /\ runner' = [runner EXCEPT ![r] = Idle]
  <2>1. TypeOK'
    BY CallStepTypes DEF IInv, RunnerStep
  <2>2. /\ UNCHANGED <<proposal, item>> /\ runner[r].pc = "checking"
        /\ runner' = [runner EXCEPT ![r] = Idle]
    BY DEF FinishWave
  <2>3. NoVerdict /\ Stable
    BY <2>2, NoChangeNoVerdict DEF IInv, NoVerdict
  <2>4. QED
    BY <2>1, <2>2, <2>3 DEF Idle
<1>1. ~Decidable
  BY <1>0 DEF IInv, CallInv
<1>2. \/ UNCHANGED batch
      \/ /\ batch'.sampled = batch.sampled /\ batch'.status \in {"paused", "completed", "ready"}
         /\ batch'.status = "completed" => Open = {}
  <2>1. AfterWave(runner[r].failed) \in {"paused", "completed", "ready"}
        /\ (AfterWave(runner[r].failed) = "completed" => Open = {})
    BY DEF AfterWave
  <2>2. batch \in Batches
    BY TypeOfParts DEF IInv
  <2> DEFINE s == AfterWave(runner[r].failed)
  <2>3. batch' = batch \/ batch' = [batch EXCEPT !.status = s]
    BY DEF FinishWave
  <2> HIDE DEF s
  <2>4. QED
    BY <2>1, <2>2, <2>3 DEF Batches, s
<1>3. ~Decidable' /\ batch.status # "none" /\ batch'.status # "none"
      /\ batch'.sampled = batch.sampled
  BY <1>1, <1>2 DEF Decidable
<1>4. ItemInv'
  BY <1>0 DEF IInv, ItemInv, AlreadyApplied
<1>5. CompletedIsApplied'
  BY <1>0, <1>2, OpenOrApplied DEF IInv, CompletedIsApplied, AlreadyApplied
<1>6. ReviewInv' /\ SampleInv'
  BY <1>0, <1>1, <1>3, ReviewKept
<1>7. CallInv' /\ WavesInOrder'
  <2>1. Idle \in Calls /\ Idle.pc = "idle"
    BY DEF Calls, Idle
  <2>2. QED
    BY <1>0, <1>1, <1>3, <2>1, CallGoesOn
<1>8. QED
  BY <1>0, <1>4, <1>5, <1>6, <1>7 DEF IInv

-----------------------------------------------------------------------------
(* The theorems.                                                           *)

(* Every step of a call keeps the invariant.                               *)
LEMMA NextInv == IInv /\ [Next]_vars => IInv'
<1> SUFFICES ASSUME IInv, [Next]_vars PROVE IInv'
  OBVIOUS
<1>1. ASSUME NEW force \in BOOLEAN, Create(force) PROVE IInv'
  BY <1>1, CreateInv
<1>2. CASE Finalize
  BY <1>2, FinalizeInv
<1>3. CASE Pause \/ PauseStuck \/ Resume
  BY <1>3, PausingInv
<1>4. ASSUME NEW i \in Items, NEW approve \in BOOLEAN,
             Decide(i, approve) \/ DecideAlone(i, approve)
      PROVE  IInv'
  BY <1>4, DecideInv, DecideAloneInv
<1>5. ASSUME NEW i \in Items,
             \/ ApplyAlone(i) \/ Resolve(i) \/ Rollback(i)
             \/ Obstruct(i) \/ Release(i) \/ TakeName(i)
      PROVE  IInv'
  BY <1>5, ApplyInv
<1>6. ASSUME NEW r \in Runners, StartWave(r) \/ RunnerStep(r) \/ Crash(r)
      PROVE  IInv'
  BY <1>6, StartWaveInv, LookingInv, ApplyItemInv, RecordApplyInv, FinishWaveInv DEF RunnerStep
<1>7. CASE UNCHANGED vars
  BY <1>7 DEF vars, IInv, TypeOK, ItemInv, CallInv, WavesInOrder, CompletedIsApplied, ReviewInv,
              SampleInv, Reviewed, Decidable, AlreadyApplied, Wave
<1>8. QED
  BY <1>1, <1>2, <1>3, <1>4, <1>5, <1>6, <1>7 DEF Next

LEMMA Invariance == Spec => []IInv
  BY InitInv, NextInv, PTL DEF Spec

(* Batches, items, proposals and what calls have read keep their types.    *)
THEOREM TypeCorrect == Spec => []TypeOK
<1>1. IInv => TypeOK
  BY DEF IInv
<1>2. QED
  BY <1>1, Invariance, PTL

(* While a call works on a wave, the approved proposals of all waves       *)
(* before it have been applied, whichever calls overlapped or were cut off.*)
THEOREM WavesGoLiveInOrder == Spec => []WavesInOrder
<1>1. IInv => WavesInOrder
  BY DEF IInv
<1>2. QED
  BY <1>1, Invariance, PTL

(* A completed batch has applied every approved proposal.                  *)
THEOREM CompletedMeansApplied == Spec => []CompletedIsApplied
<1>1. IInv => CompletedIsApplied
  BY DEF IInv
<1>2. QED
  BY <1>1, Invariance, PTL

(* What goes live was decided by a reviewer, or passed over by a sample of *)
(* at least the asked share, completely decided, without any high risk.    *)
THEOREM NothingGoesLiveUnreviewed == Spec => []NothingUnreviewedIsApplied
<1>1. IInv => NothingUnreviewedIsApplied
  BY DEF IInv, ReviewInv, SampleInv, Reviewed, Decidable, AlreadyApplied,
         NothingUnreviewedIsApplied
<1>2. QED
  BY <1>1, Invariance, PTL
=============================================================================
