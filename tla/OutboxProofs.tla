---------------------------- MODULE OutboxProofs ----------------------------
(* Theorems about Outbox for any number of events, workers, faults and     *)
(* replays, and any lease, batch size and backoff.                         *)
EXTENDS Outbox, FiniteSetTheorems, TLAPS

(* Row locks: a claim transaction holds its rows alone, they stay          *)
(* claimable, and the attempt count it has read stays current.             *)
LockInv ==
    /\ \A c \in Consumers : phase[c] # "claiming" => sel[c] = {}
    /\ \A c, d \in Consumers : c # d => sel[c] \cap sel[d] = {}
    /\ \A c \in Consumers : \A e \in sel[c] :
         /\ row[e].status \in {"pending", "claimed"}
         /\ held[c][e] = row[e].attempts + 1

(* Attempt counts only grow, so whoever claims later holds a larger count. *)
CountInv ==
    replays = 0 => \A c \in Consumers : \A e \in Event :
        e \notin sel[c] => held[c][e] <= row[e].attempts

(* A consumer that settles after a success settles handled events.         *)
HandledInv ==
    \A c \in Consumers :
        phase[c] = "settle" /\ result[c] = "ok" => cur[c] \subseteq applied

IInv ==
    /\ TypeOK /\ LockInv /\ CountInv /\ ClaimsAreExclusive
    /\ HandledInv /\ DoneMeansHandled

LEMMA MaxWaitNat == MaxWait \in Nat /\ \A d : Jittered(d) \subseteq 0 .. MaxWait
BY OutboxAssumption DEF MaxWait, Jittered

LEMMA AgedType ==
    ASSUME NEW r \in RowType
    PROVE  /\ Aged(r) \in RowType
           /\ Aged(r).status = r.status
           /\ Aged(r).attempts = r.attempts
<1> DEFINE a == IF r.status = "claimed" /\ r.age <= LeaseDuration
                THEN r.age + 1 ELSE r.age
           w == IF r.wait > 0 THEN r.wait - 1 ELSE r.wait
<1>1. a \in 0 .. LeaseDuration + 1 /\ w \in 0 .. MaxWait
  BY OutboxAssumption, MaxWaitNat DEF RowType
<1>2. Aged(r) = [[r EXCEPT !.age = a] EXCEPT !.wait = w]
  BY DEF Aged, RowType
<1> HIDE DEF a, w
<1>3. QED
  BY <1>1, <1>2 DEF RowType

LEMMA ClaimedType ==
    ASSUME NEW r \in RowType, r.attempts < AttemptBound
    PROVE  /\ Claimed(r) \in RowType
           /\ Claimed(r).status = "claimed"
           /\ Claimed(r).attempts = r.attempts + 1
BY OutboxAssumption DEF Claimed, RowType, Status

LEMMA FailedType ==
    ASSUME NEW r \in RowType, NEW n, NEW w \in 0 .. MaxWait
    PROVE  /\ Failed(r, n, w) \in RowType
           /\ Failed(r, n, w).status \in {"dead", "pending"}
           /\ Failed(r, n, w).attempts = r.attempts
BY OutboxAssumption DEF Failed, RowType, Status

LEMMA InitInv == Init => IInv
BY OutboxAssumption, MaxWaitNat
   DEF Init, IInv, TypeOK, RowType, Status, Phase, Mode, NoneHeld, LockInv,
       CountInv, ClaimsAreExclusive, HandledInv, DoneMeansHandled


(* A claim's UPDATE: the locked rows get the counts their consumer holds.  *)
LEMMA ClaimedRowFacts ==
    ASSUME IInv, NEW c \in Consumers
    PROVE  /\ ClaimedRow(c) \in [Event -> RowType]
           /\ \A e \in sel[c] : /\ ClaimedRow(c)[e].status = "claimed"
                               /\ ClaimedRow(c)[e].attempts = held[c][e]
           /\ \A e \in Event \ sel[c] : ClaimedRow(c)[e] = row[e]
<1>1. \A e \in sel[c] : /\ e \in Event
                        /\ row[e] \in RowType
                        /\ row[e].attempts < AttemptBound
                        /\ held[c][e] = row[e].attempts + 1
  <2> SUFFICES ASSUME NEW e \in sel[c]
               PROVE  /\ e \in Event
                      /\ row[e] \in RowType
                      /\ row[e].attempts < AttemptBound
                      /\ held[c][e] = row[e].attempts + 1
    OBVIOUS
  <2>1. e \in Event /\ row[e] \in RowType /\ held[c][e] \in 0 .. AttemptBound
    BY DEF IInv, TypeOK
  <2>2. held[c][e] = row[e].attempts + 1
    BY DEF IInv, LockInv
  <2>3. QED
    BY <2>1, <2>2, OutboxAssumption DEF RowType
<1>2. \A e \in sel[c] : /\ Claimed(row[e]) \in RowType
                        /\ Claimed(row[e]).status = "claimed"
                        /\ Claimed(row[e]).attempts = row[e].attempts + 1
  BY <1>1, ClaimedType
<1>3. \A e \in Event : row[e] \in RowType
  BY DEF IInv, TypeOK
<1>4. QED
  BY <1>1, <1>2, <1>3 DEF ClaimedRow

(***************************************************************************)
(* Every action preserves the invariant.                                   *)
(***************************************************************************)
LEMMA TickInv == ASSUME IInv, Tick PROVE IInv'
<1>1. \A e \in Event : /\ row'[e] \in RowType
                      /\ row'[e].status = row[e].status
                      /\ row'[e].attempts = row[e].attempts
  BY AgedType DEF Tick, IInv, TypeOK
<1>2. TypeOK'
  BY <1>1 DEF Tick, IInv, TypeOK
<1>3. LockInv'
  <2>1. \A d \in Consumers : sel[d] \subseteq Event
    BY DEF IInv, TypeOK
  <2>2. QED
    BY <1>1, <2>1 DEF Tick, IInv, LockInv
<1>4. CountInv' /\ ClaimsAreExclusive' /\ HandledInv' /\ DoneMeansHandled'
  BY <1>1 DEF Tick, IInv, CountInv, ClaimsAreExclusive, HandledInv, DoneMeansHandled
<1>5. QED
  BY <1>2, <1>3, <1>4 DEF IInv

LEMMA EmitInv == ASSUME IInv, Emit PROVE IInv'
<1>1. PICK e \in Event : /\ row[e].status = "absent"
                        /\ row' = [row EXCEPT ![e].status = "pending"]
  BY DEF Emit
<1>2. \A f \in Event : /\ row'[f] \in RowType
                       /\ row'[f].attempts = row[f].attempts
                       /\ f # e => row'[f] = row[f]
                       /\ f = e => row'[f].status = "pending"
  BY <1>1 DEF IInv, TypeOK, RowType, Status
<1>3. row' \in [Event -> RowType]
  BY <1>1 DEF IInv, TypeOK, RowType, Status
<1>4. TypeOK'
  BY <1>3 DEF Emit, IInv, TypeOK
<1>5. \A d \in Consumers : sel[d] \subseteq Event /\ e \notin sel[d]
  BY <1>1 DEF IInv, TypeOK, LockInv
<1>6. LockInv' /\ CountInv' /\ ClaimsAreExclusive' /\ HandledInv'
  BY <1>2, <1>5 DEF Emit, IInv, LockInv, CountInv, ClaimsAreExclusive, HandledInv
<1>7. DoneMeansHandled'
  BY <1>2 DEF Emit, IInv, DoneMeansHandled
<1>8. QED
  BY <1>4, <1>6, <1>7 DEF IInv

LEMMA SelectBatchInv == ASSUME IInv, NEW c \in Consumers, SelectBatch(c) PROVE IInv'
<1> DEFINE S == Oldest(Claimable, BatchSize)
<1>1. /\ S \subseteq Claimable
      /\ S \subseteq Event
      /\ \A e \in S : row[e].attempts < AttemptBound
  BY DEF SelectBatch, Oldest, Claimable
<1>2. /\ phase[c] = "idle"
      /\ phase' = [phase EXCEPT ![c] = "claiming"]
      /\ sel' = [sel EXCEPT ![c] = S]
      /\ held' = [held EXCEPT ![c] =
                    [e \in Event |-> IF e \in S THEN row[e].attempts + 1 ELSE 0]]
      /\ UNCHANGED <<row, mode, cur, result, applied, faults, replays>>
  BY DEF SelectBatch
<1> HIDE DEF S
<1>3. \A e \in Event : row[e].attempts \in 0 .. AttemptBound
  BY DEF IInv, TypeOK, RowType
<1>4. TypeOK'
  <2>1. held' \in [Consumers -> [Event -> 0 .. AttemptBound]]
    BY <1>1, <1>2, <1>3, OutboxAssumption DEF IInv, TypeOK
  <2>2. QED
    BY <1>1, <1>2, <2>1 DEF IInv, TypeOK, Phase
<1>5. \A e \in S : /\ \A d \in Consumers : e \notin sel[d]
                  /\ row[e].status \in {"pending", "claimed"}
  BY <1>1 DEF Claimable, Locked, Due
<1>6. /\ sel \in [Consumers -> SUBSET Event]
      /\ phase \in [Consumers -> Phase]
      /\ held \in [Consumers -> [Event -> 0 .. AttemptBound]]
  BY DEF IInv, TypeOK
<1>7. LockInv'
  BY <1>1, <1>2, <1>5, <1>6 DEF IInv, LockInv
<1>8. sel[c] = {}
  BY <1>2 DEF IInv, LockInv
<1>9. CountInv'
  BY <1>1, <1>2, <1>3, <1>6 DEF IInv, CountInv
<1>10. ClaimsAreExclusive'
  <2> SUFFICES ASSUME replays' = 0, NEW a \in Consumers, NEW b \in Consumers,
                      NEW e \in Event, a # b, held'[a][e] > 0
               PROVE  held'[a][e] # held'[b][e]
    BY DEF ClaimsAreExclusive
  <2>1. CASE a # c /\ b # c
    BY <2>1, <1>2, <1>6 DEF IInv, ClaimsAreExclusive
  <2>2. CASE (a = c \/ b = c) /\ e \notin S
    BY <2>2, <1>2, <1>6
  <2>3. CASE (a = c \/ b = c) /\ e \in S
    <3>1. \A d \in Consumers \ {c} : held'[d][e] <= row[e].attempts
      BY <2>3, <1>2, <1>5, <1>6 DEF IInv, CountInv
    <3>2. held'[c][e] = row[e].attempts + 1
      BY <2>3, <1>2, <1>6
    <3>3. /\ row[e].attempts \in Int
          /\ \A d \in Consumers \ {c} : held'[d][e] \in Int
      BY <1>2, <1>3, <1>6
    <3>4. QED
      BY <2>3, <3>1, <3>2, <3>3
  <2>4. QED
    BY <2>1, <2>2, <2>3
<1>11. HandledInv' /\ DoneMeansHandled'
  BY <1>2, <1>6 DEF IInv, HandledInv, DoneMeansHandled
<1>12. QED
  BY <1>4, <1>7, <1>9, <1>10, <1>11 DEF IInv

LEMMA AbortClaimInv == ASSUME IInv, NEW c \in Consumers, AbortClaim(c) PROVE IInv'
<1>1. TypeOK'
  BY OutboxAssumption DEF AbortClaim, IInv, TypeOK, NoneHeld, Phase, Mode
<1>2. LockInv'
  BY DEF AbortClaim, IInv, TypeOK, LockInv, NoneHeld
<1>3. CountInv'
  BY OutboxAssumption DEF AbortClaim, IInv, TypeOK, LockInv, CountInv, RowType, NoneHeld
<1>4. ClaimsAreExclusive'
  BY OutboxAssumption DEF AbortClaim, IInv, TypeOK, ClaimsAreExclusive, NoneHeld
<1>5. HandledInv' /\ DoneMeansHandled'
  BY DEF AbortClaim, IInv, TypeOK, HandledInv, DoneMeansHandled
<1>6. QED
  BY <1>1, <1>2, <1>3, <1>4, <1>5 DEF IInv

LEMMA CommitClaimInv == ASSUME IInv, NEW c \in Consumers, CommitClaim(c) PROVE IInv'
<1>1. /\ ClaimedRow(c) \in [Event -> RowType]
      /\ \A e \in sel[c] : /\ ClaimedRow(c)[e].status = "claimed"
                           /\ ClaimedRow(c)[e].attempts = held[c][e]
      /\ \A e \in Event \ sel[c] : ClaimedRow(c)[e] = row[e]
  BY ClaimedRowFacts
<1>2. /\ row' = ClaimedRow(c)
      /\ sel' = [sel EXCEPT ![c] = {}]
      /\ UNCHANGED <<cur, result, applied, replays>>
  BY DEF CommitClaim
<1>3. /\ sel \in [Consumers -> SUBSET Event]
      /\ phase \in [Consumers -> Phase]
      /\ held \in [Consumers -> [Event -> 0 .. AttemptBound]]
      /\ \A e \in Event : row[e].attempts \in 0 .. AttemptBound
  BY DEF IInv, TypeOK, RowType
<1>4. TypeOK'
  BY <1>1, <1>2, OutboxAssumption DEF CommitClaim, IInv, TypeOK, Phase, NoneHeld
<1>5. LockInv'
  <2>1. \A d \in Consumers : d # c =>
          /\ sel'[d] = sel[d] /\ phase'[d] = phase[d] /\ held'[d] = held[d]
          /\ \A e \in sel[d] : e \in Event \ sel[c] /\ row'[e] = row[e]
    BY <1>1, <1>2, <1>3 DEF CommitClaim, IInv, LockInv
  <2>2. sel'[c] = {}
    BY <1>2, <1>3
  <2>3. QED
    BY <2>1, <2>2 DEF IInv, LockInv
<1>6. CountInv'
  BY <1>1, <1>2, <1>3, OutboxAssumption DEF CommitClaim, IInv, LockInv, CountInv, NoneHeld
<1>7. ClaimsAreExclusive'
  BY <1>2, <1>3, OutboxAssumption DEF CommitClaim, IInv, ClaimsAreExclusive, NoneHeld
<1>8. HandledInv' /\ DoneMeansHandled'
  BY <1>1, <1>2, <1>3 DEF CommitClaim, IInv, HandledInv, DoneMeansHandled
<1>9. QED
  BY <1>4, <1>5, <1>6, <1>7, <1>8 DEF IInv

LEMMA LoseClaimAnswerInv == ASSUME IInv, NEW c \in Consumers, LoseClaimAnswer(c) PROVE IInv'
<1>1. /\ ClaimedRow(c) \in [Event -> RowType]
      /\ \A e \in sel[c] : /\ ClaimedRow(c)[e].status = "claimed"
                           /\ ClaimedRow(c)[e].attempts = held[c][e]
      /\ \A e \in Event \ sel[c] : ClaimedRow(c)[e] = row[e]
  BY ClaimedRowFacts
<1>2. /\ row' = ClaimedRow(c)
      /\ sel' = [sel EXCEPT ![c] = {}]
      /\ UNCHANGED <<cur, result, applied, replays>>
  BY DEF LoseClaimAnswer
<1>3. /\ sel \in [Consumers -> SUBSET Event]
      /\ phase \in [Consumers -> Phase]
      /\ held \in [Consumers -> [Event -> 0 .. AttemptBound]]
      /\ \A e \in Event : row[e].attempts \in 0 .. AttemptBound
  BY DEF IInv, TypeOK, RowType
<1>4. TypeOK'
  BY <1>1, <1>2, OutboxAssumption DEF LoseClaimAnswer, IInv, TypeOK, Phase, NoneHeld
<1>5. LockInv'
  <2>1. \A d \in Consumers : d # c =>
          /\ sel'[d] = sel[d] /\ phase'[d] = phase[d] /\ held'[d] = held[d]
          /\ \A e \in sel[d] : e \in Event \ sel[c] /\ row'[e] = row[e]
    BY <1>1, <1>2, <1>3 DEF LoseClaimAnswer, IInv, LockInv
  <2>2. sel'[c] = {}
    BY <1>2, <1>3
  <2>3. QED
    BY <2>1, <2>2 DEF IInv, LockInv
<1>6. CountInv'
  BY <1>1, <1>2, <1>3, OutboxAssumption DEF LoseClaimAnswer, IInv, LockInv, CountInv, NoneHeld
<1>7. ClaimsAreExclusive'
  BY <1>2, <1>3, OutboxAssumption DEF LoseClaimAnswer, IInv, ClaimsAreExclusive, NoneHeld
<1>8. HandledInv' /\ DoneMeansHandled'
  BY <1>1, <1>2, <1>3 DEF LoseClaimAnswer, IInv, HandledInv, DoneMeansHandled
<1>9. QED
  BY <1>4, <1>5, <1>6, <1>7, <1>8 DEF IInv

LEMMA TakeUpInv == ASSUME IInv, NEW c \in Consumers, TakeUp(c) PROVE IInv'
<1>1. TypeOK'
  BY OutboxAssumption DEF TakeUp, IInv, TypeOK, NoneHeld, Phase, Mode, Remaining, First
<1>2. LockInv'
  BY DEF TakeUp, IInv, TypeOK, LockInv, NoneHeld, Remaining, First
<1>3. CountInv'
  BY OutboxAssumption DEF TakeUp, IInv, TypeOK, LockInv, CountInv, RowType, NoneHeld, Remaining, First
<1>4. ClaimsAreExclusive'
  BY OutboxAssumption DEF TakeUp, IInv, TypeOK, ClaimsAreExclusive, NoneHeld, Remaining, First
<1>5. HandledInv' /\ DoneMeansHandled'
  BY DEF TakeUp, IInv, TypeOK, HandledInv, DoneMeansHandled, Remaining, First
<1>6. QED
  BY <1>1, <1>2, <1>3, <1>4, <1>5 DEF IInv

LEMMA EndBatchInv == ASSUME IInv, NEW c \in Consumers, EndBatch(c) PROVE IInv'
<1>1. TypeOK'
  BY OutboxAssumption DEF EndBatch, IInv, TypeOK, NoneHeld, Phase, Mode
<1>2. LockInv'
  BY DEF EndBatch, IInv, TypeOK, LockInv, NoneHeld
<1>3. CountInv'
  BY OutboxAssumption DEF EndBatch, IInv, TypeOK, LockInv, CountInv, RowType, NoneHeld
<1>4. ClaimsAreExclusive'
  BY OutboxAssumption DEF EndBatch, IInv, TypeOK, ClaimsAreExclusive, NoneHeld
<1>5. HandledInv' /\ DoneMeansHandled'
  BY DEF EndBatch, IInv, TypeOK, HandledInv, DoneMeansHandled
<1>6. QED
  BY <1>1, <1>2, <1>3, <1>4, <1>5 DEF IInv

LEMMA HandlerReturnsInv == ASSUME IInv, NEW c \in Consumers, NEW r \in {"ok", "error"}, HandlerReturns(c, r) PROVE IInv'
<1>1. TypeOK'
  BY OutboxAssumption DEF HandlerReturns, IInv, TypeOK, NoneHeld, Phase, Mode
<1>2. LockInv'
  BY DEF HandlerReturns, IInv, TypeOK, LockInv, NoneHeld
<1>3. CountInv'
  BY OutboxAssumption DEF HandlerReturns, IInv, TypeOK, LockInv, CountInv, RowType, NoneHeld
<1>4. ClaimsAreExclusive'
  BY OutboxAssumption DEF HandlerReturns, IInv, TypeOK, ClaimsAreExclusive, NoneHeld
<1>5. HandledInv' /\ DoneMeansHandled'
  BY DEF HandlerReturns, IInv, TypeOK, HandledInv, DoneMeansHandled
<1>6. QED
  BY <1>1, <1>2, <1>3, <1>4, <1>5 DEF IInv

LEMMA RenewLeaseInv == ASSUME IInv, NEW c \in Consumers, RenewLease(c) PROVE IInv'
<1>1. PICK e \in Event : /\ e \in cur[c]
                        /\ row[e].status = "claimed"
                        /\ row' = [row EXCEPT ![e].age = 0]
  BY DEF RenewLease, IInv, TypeOK
<1>2. row' \in [Event -> RowType]
  <2>1. row[e] \in RowType /\ row \in [Event -> RowType]
    BY DEF IInv, TypeOK
  <2>2. [row[e] EXCEPT !.age = 0] \in RowType
    BY <2>1, OutboxAssumption DEF RowType
  <2>3. QED
    BY <1>1, <2>1, <2>2
<1>3. \A f \in Event : /\ row'[f].status = row[f].status
                      /\ row'[f].attempts = row[f].attempts
  BY <1>1 DEF IInv, TypeOK, RowType
<1>4. UNCHANGED <<phase, mode, sel, held, cur, result, applied, faults, replays>>
  BY DEF RenewLease
<1>5. TypeOK'
  BY <1>2, <1>4 DEF IInv, TypeOK
<1>6. \A d \in Consumers : sel[d] \subseteq Event
  BY DEF IInv, TypeOK
<1>7. LockInv' /\ CountInv' /\ ClaimsAreExclusive' /\ HandledInv' /\ DoneMeansHandled'
  BY <1>3, <1>4, <1>6 DEF IInv, LockInv, CountInv, ClaimsAreExclusive, HandledInv,
                          DoneMeansHandled
<1>8. QED
  BY <1>5, <1>7 DEF IInv

LEMMA ShutdownInv == ASSUME IInv, NEW c \in Consumers, Shutdown(c) PROVE IInv'
<1>1. TypeOK'
  BY OutboxAssumption DEF Shutdown, IInv, TypeOK, NoneHeld, Phase, Mode
<1>2. LockInv'
  BY DEF Shutdown, IInv, TypeOK, LockInv, NoneHeld
<1>3. CountInv'
  BY OutboxAssumption DEF Shutdown, IInv, TypeOK, LockInv, CountInv, RowType, NoneHeld
<1>4. ClaimsAreExclusive'
  BY OutboxAssumption DEF Shutdown, IInv, TypeOK, ClaimsAreExclusive, NoneHeld
<1>5. HandledInv' /\ DoneMeansHandled'
  BY DEF Shutdown, IInv, TypeOK, HandledInv, DoneMeansHandled
<1>6. QED
  BY <1>1, <1>2, <1>3, <1>4, <1>5 DEF IInv

LEMMA ForceStopInv == ASSUME IInv, NEW c \in Consumers, ForceStop(c) PROVE IInv'
<1>1. TypeOK'
  BY OutboxAssumption DEF ForceStop, IInv, TypeOK, NoneHeld, Phase, Mode
<1>2. LockInv'
  BY DEF ForceStop, IInv, TypeOK, LockInv, NoneHeld
<1>3. CountInv'
  BY OutboxAssumption DEF ForceStop, IInv, TypeOK, LockInv, CountInv, RowType, NoneHeld
<1>4. ClaimsAreExclusive'
  BY OutboxAssumption DEF ForceStop, IInv, TypeOK, ClaimsAreExclusive, NoneHeld
<1>5. HandledInv' /\ DoneMeansHandled'
  BY DEF ForceStop, IInv, TypeOK, HandledInv, DoneMeansHandled
<1>6. QED
  BY <1>1, <1>2, <1>3, <1>4, <1>5 DEF IInv

LEMMA ExitInv == ASSUME IInv, NEW c \in Consumers, Exit(c) PROVE IInv'
<1>1. TypeOK'
  BY OutboxAssumption DEF Exit, IInv, TypeOK, NoneHeld, Phase, Mode
<1>2. LockInv'
  BY DEF Exit, IInv, TypeOK, LockInv, NoneHeld
<1>3. CountInv'
  BY OutboxAssumption DEF Exit, IInv, TypeOK, LockInv, CountInv, RowType, NoneHeld
<1>4. ClaimsAreExclusive'
  BY OutboxAssumption DEF Exit, IInv, TypeOK, ClaimsAreExclusive, NoneHeld
<1>5. HandledInv' /\ DoneMeansHandled'
  BY DEF Exit, IInv, TypeOK, HandledInv, DoneMeansHandled
<1>6. QED
  BY <1>1, <1>2, <1>3, <1>4, <1>5 DEF IInv

LEMMA CrashInv == ASSUME IInv, NEW c \in Consumers, Crash(c) PROVE IInv'
<1>1. TypeOK'
  BY OutboxAssumption DEF Crash, IInv, TypeOK, NoneHeld, Phase, Mode
<1>2. LockInv'
  BY DEF Crash, IInv, TypeOK, LockInv, NoneHeld
<1>3. CountInv'
  BY OutboxAssumption DEF Crash, IInv, TypeOK, LockInv, CountInv, RowType, NoneHeld
<1>4. ClaimsAreExclusive'
  BY OutboxAssumption DEF Crash, IInv, TypeOK, ClaimsAreExclusive, NoneHeld
<1>5. HandledInv' /\ DoneMeansHandled'
  BY DEF Crash, IInv, TypeOK, HandledInv, DoneMeansHandled
<1>6. QED
  BY <1>1, <1>2, <1>3, <1>4, <1>5 DEF IInv

LEMMA RestartInv == ASSUME IInv, NEW c \in Consumers, Restart(c) PROVE IInv'
<1>1. TypeOK'
  BY OutboxAssumption DEF Restart, IInv, TypeOK, NoneHeld, Phase, Mode
<1>2. LockInv'
  BY DEF Restart, IInv, TypeOK, LockInv, NoneHeld
<1>3. CountInv'
  BY OutboxAssumption DEF Restart, IInv, TypeOK, LockInv, CountInv, RowType, NoneHeld
<1>4. ClaimsAreExclusive'
  BY OutboxAssumption DEF Restart, IInv, TypeOK, ClaimsAreExclusive, NoneHeld
<1>5. HandledInv' /\ DoneMeansHandled'
  BY DEF Restart, IInv, TypeOK, HandledInv, DoneMeansHandled
<1>6. QED
  BY <1>1, <1>2, <1>3, <1>4, <1>5 DEF IInv

(* What the UPDATE of markDone or fail can do to the row it settles.       *)
LEMMA SettledFacts ==
    ASSUME IInv, NEW c \in Consumers, NEW e \in cur[c], phase[c] = "settle",
           ~Locked(e), Settled(c, e)
    PROVE  /\ row' \in [Event -> RowType]
           /\ \A f \in Event : row'[f].attempts = row[f].attempts
           /\ \A f \in Event : (\E d \in Consumers : f \in sel[d]) => row'[f] = row[f]
           /\ \A f \in Event : row'[f].status = "done" =>
                row[f].status = "done" \/ f \in applied
           /\ \A f \in Event : row'[f] # row[f] =>
                /\ f = e
                /\ row[f].status = "claimed"
                /\ row'[f].status \in {"done", "dead", "pending"}
<1>1. /\ e \in Event
      /\ row \in [Event -> RowType]
      /\ row[e] \in RowType
      /\ \A d \in Consumers : e \notin sel[d]
  BY DEF IInv, TypeOK, Locked
<1>2. CASE row' = row
  BY <1>1, <1>2
<1>3. CASE StillClaimed(e) /\ ResultOk(c) /\ row' = [row EXCEPT ![e] = Done(@)]
  <2>1. Done(row[e]) \in RowType /\ Done(row[e]).attempts = row[e].attempts
    BY <1>1 DEF Done, RowType, Status
  <2>2. Done(row[e]).status = "done"
    BY <1>1 DEF Done, RowType
  <2>3. e \in applied
    BY <1>3 DEF IInv, HandledInv, ResultOk
  <2>4. row' = [row EXCEPT ![e] = Done(row[e])]
    BY <1>3
  <2>5. QED
    BY <1>1, <1>3, <2>1, <2>2, <2>3, <2>4 DEF StillClaimed
<1>4. CASE /\ StillClaimed(e)
           /\ \E w \in Jittered(Backoff(held[c][e])) :
                 row' = [row EXCEPT ![e] = Failed(@, held[c][e], w)]
  <2>1. PICK w \in 0 .. MaxWait : row' = [row EXCEPT ![e] = Failed(@, held[c][e], w)]
    BY <1>4, MaxWaitNat
  <2>2. /\ Failed(row[e], held[c][e], w) \in RowType
        /\ Failed(row[e], held[c][e], w).status \in {"dead", "pending"}
        /\ Failed(row[e], held[c][e], w).attempts = row[e].attempts
    BY <1>1, FailedType
  <2>3. QED
    BY <1>1, <1>4, <2>1, <2>2 DEF StillClaimed
<1>5. QED
  BY <1>2, <1>3, <1>4 DEF Settled

(* Dropping one event from the batch in memory.                            *)
LEMMA DroppedFacts ==
    ASSUME IInv, NEW c \in Consumers, NEW e \in cur[c], phase[c] = "settle",
           Dropped(c, e)
    PROVE  /\ phase' \in [Consumers -> Phase]
           /\ held' \in [Consumers -> [Event -> 0 .. AttemptBound]]
           /\ cur' \in [Consumers -> SUBSET Event]
           /\ \A d \in Consumers : cur'[d] \subseteq cur[d]
           /\ \A d \in Consumers : \A f \in Event :
                held'[d][f] = held[d][f] \/ held'[d][f] = 0
           /\ \A d \in Consumers : d # c => held'[d] = held[d]
           /\ \A d \in Consumers : phase'[d] \in {"settle", "claiming"} => phase[d] = phase'[d]
           /\ sel[c] = {}
           /\ \A d \in Consumers : phase'[d] # "claiming" => phase[d] # "claiming"
           /\ UNCHANGED <<mode, sel, result, applied, replays>>
BY OutboxAssumption DEF Dropped, IInv, TypeOK, LockInv, Phase

(* Settling preserves the invariant whether or not the UPDATE happened.    *)
LEMMA SettlingInv ==
    ASSUME IInv, NEW c \in Consumers, NEW e \in cur[c], phase[c] = "settle",
           Dropped(c, e), faults' \in 0 .. MaxFaults,
           row' \in [Event -> RowType],
           \A f \in Event : row'[f].attempts = row[f].attempts,
           \A f \in Event : (\E d \in Consumers : f \in sel[d]) => row'[f] = row[f],
           \A f \in Event : row'[f].status = "done" =>
                row[f].status = "done" \/ f \in applied
    PROVE  IInv'
<1>1. /\ phase' \in [Consumers -> Phase]
      /\ held' \in [Consumers -> [Event -> 0 .. AttemptBound]]
      /\ cur' \in [Consumers -> SUBSET Event]
      /\ \A d \in Consumers : cur'[d] \subseteq cur[d]
      /\ \A d \in Consumers : \A f \in Event :
           held'[d][f] = held[d][f] \/ held'[d][f] = 0
      /\ \A d \in Consumers : d # c => held'[d] = held[d]
      /\ \A d \in Consumers : phase'[d] \in {"settle", "claiming"} => phase[d] = phase'[d]
      /\ sel[c] = {}
      /\ \A d \in Consumers : phase'[d] # "claiming" => phase[d] # "claiming"
      /\ UNCHANGED <<mode, sel, result, applied, replays>>
  BY DroppedFacts
<1>2. TypeOK'
  BY <1>1 DEF IInv, TypeOK
<1>3. /\ \A d \in Consumers : sel[d] \subseteq Event
      /\ \A d \in Consumers : \A f \in Event : held[d][f] \in 0 .. AttemptBound
      /\ \A f \in Event : row[f].attempts \in 0 .. AttemptBound
  BY DEF IInv, TypeOK, RowType
<1>4. LockInv'
  <2>1. ASSUME NEW d \in Consumers, NEW f \in sel[d]
        PROVE  row'[f] = row[f] /\ held'[d] = held[d]
    BY <1>1, <1>3
  <2>2. \A d \in Consumers : \A f \in sel'[d] :
           /\ row'[f].status \in {"pending", "claimed"}
           /\ held'[d][f] = row'[f].attempts + 1
    BY <1>1, <2>1 DEF IInv, LockInv
  <2>3. QED
    BY <1>1, <2>2 DEF IInv, LockInv
<1>5. CountInv'
  <2> SUFFICES ASSUME replays' = 0, NEW d \in Consumers, NEW f \in Event, f \notin sel'[d]
               PROVE  held'[d][f] <= row'[f].attempts
    BY DEF CountInv
  <2>1. held[d][f] <= row[f].attempts
    BY <1>1 DEF IInv, CountInv
  <2>2. QED
    BY <1>1, <1>3, <2>1
<1>6. ClaimsAreExclusive'
  <2> SUFFICES ASSUME replays' = 0, NEW a \in Consumers, NEW b \in Consumers,
                      NEW f \in Event, a # b, held'[a][f] > 0
               PROVE  held'[a][f] # held'[b][f]
    BY DEF ClaimsAreExclusive
  <2>1. held[a][f] # held[b][f] /\ held'[a][f] = held[a][f]
    BY <1>1, <1>3 DEF IInv, ClaimsAreExclusive
  <2>2. QED
    BY <1>1, <1>3, <2>1
<1>7. HandledInv' /\ DoneMeansHandled'
  BY <1>1 DEF IInv, HandledInv, DoneMeansHandled
<1>8. QED
  BY <1>2, <1>4, <1>5, <1>6, <1>7 DEF IInv

LEMMA SettleInv == ASSUME IInv, NEW c \in Consumers, Settle(c) PROVE IInv'
<1>1. PICK e \in cur[c] : ~Locked(e) /\ Settled(c, e) /\ Dropped(c, e)
  BY DEF Settle
<1>2. phase[c] = "settle" /\ faults' \in 0 .. MaxFaults
  BY DEF Settle, IInv, TypeOK
<1>3. QED
  BY <1>1, <1>2, SettledFacts, SettlingInv

LEMMA SettleFailsInv == ASSUME IInv, NEW c \in Consumers, SettleFails(c) PROVE IInv'
<1>1. PICK e \in cur[c] : Dropped(c, e)
  BY DEF SettleFails
<1>2. /\ phase[c] = "settle" /\ row' = row
      /\ faults' \in 0 .. MaxFaults
  BY OutboxAssumption DEF SettleFails, IInv, TypeOK
<1>3. row' \in [Event -> RowType]
  BY <1>2 DEF IInv, TypeOK
<1>4. QED
  BY <1>1, <1>2, <1>3, SettlingInv

LEMMA ReplayDeadInv == ASSUME IInv, ReplayDead PROVE IInv'
<1>1. row' \in [Event -> RowType]
  BY OutboxAssumption, MaxWaitNat DEF ReplayDead, Dead, IInv, TypeOK, RowType, Status
<1>2. ASSUME NEW e \in Event
      PROVE  IF row[e].status = "dead" THEN row'[e].status = "pending"
                                       ELSE row'[e] = row[e]
  <2>1. row'[e] = IF e \in Dead
                  THEN [status |-> "pending", attempts |-> 0, age |-> 0, wait |-> 0]
                  ELSE row[e]
    BY DEF ReplayDead
  <2>2. e \in Dead <=> row[e].status = "dead"
    BY DEF Dead
  <2>3. QED
    BY <2>1, <2>2
<1>3. /\ replays' \in 0 .. MaxReplays /\ replays' # 0
      /\ UNCHANGED <<phase, mode, sel, held, cur, result, applied, faults>>
  BY OutboxAssumption DEF ReplayDead, IInv, TypeOK
<1>4. TypeOK'
  BY <1>1, <1>3 DEF IInv, TypeOK
<1>5. \A d \in Consumers : sel[d] \subseteq Event
  BY DEF IInv, TypeOK
<1>6. LockInv'
  <2>1. \A d \in Consumers : \A f \in sel[d] : row[f].status # "dead" /\ f \in Event
    BY <1>5 DEF IInv, LockInv
  <2>2. \A d \in Consumers : \A f \in sel[d] : row'[f] = row[f]
    BY <1>2, <2>1
  <2>3. sel' = sel /\ held' = held /\ phase' = phase
    BY <1>3
  <2>4. \A d \in Consumers : \A f \in sel'[d] :
           /\ row'[f].status \in {"pending", "claimed"}
           /\ held'[d][f] = row'[f].attempts + 1
    BY <2>2, <2>3 DEF IInv, LockInv
  <2>5. QED
    BY <2>3, <2>4 DEF IInv, LockInv
<1>7. CountInv' /\ ClaimsAreExclusive'
  BY <1>3 DEF CountInv, ClaimsAreExclusive
<1>8. HandledInv' /\ DoneMeansHandled'
  <2>1. \A e \in Event : row'[e].status = "done" => row[e].status = "done"
    BY <1>2
  <2>2. /\ phase' = phase /\ result' = result
        /\ cur' = cur /\ applied' = applied
    BY <1>3
  <2>3. QED
    BY <2>1, <2>2 DEF IInv, HandledInv, DoneMeansHandled
<1>9. QED
  BY <1>4, <1>6, <1>7, <1>8 DEF IInv

LEMMA NextInv == IInv /\ [Next]_vars => IInv'
<1> SUFFICES ASSUME IInv, [Next]_vars PROVE IInv'
  OBVIOUS
<1>1. CASE Tick
  BY <1>1, TickInv
<1>2. CASE Emit
  BY <1>2, EmitInv
<1>3. CASE ReplayDead
  BY <1>3, ReplayDeadInv
<1>4. ASSUME NEW c \in Consumers, Step(c) PROVE IInv'
  <2>1. CASE Work(c)
    BY <2>1, SelectBatchInv, CommitClaimInv, TakeUpInv, EndBatchInv, HandlerReturnsInv,
       SettleInv, ExitInv, RestartInv DEF Work
  <2>2. CASE AbortClaim(c) \/ LoseClaimAnswer(c) \/ SettleFails(c) \/ RenewLease(c)
    BY <2>2, AbortClaimInv, LoseClaimAnswerInv, SettleFailsInv, RenewLeaseInv
  <2>3. CASE Shutdown(c) \/ ForceStop(c) \/ Crash(c)
    BY <2>3, ShutdownInv, ForceStopInv, CrashInv
  <2>4. QED
    BY <1>4, <2>1, <2>2, <2>3 DEF Step
<1>5. CASE UNCHANGED vars
  BY <1>5 DEF vars, IInv, TypeOK, LockInv, CountInv, ClaimsAreExclusive, HandledInv,
              DoneMeansHandled, Locked
<1>6. QED
  BY <1>1, <1>2, <1>3, <1>4, <1>5 DEF Next

LEMMA Invariance == Spec => []IInv
BY InitInv, NextInv, PTL DEF Spec

(* Types: for every number of events, workers, faults and replays the rows *)
(* of outbox_event and the consumers' batches keep their types.            *)
THEOREM TypeCorrect == Spec => []TypeOK
BY Invariance, PTL DEF IInv

(* At least once: a row is done only after a handler succeeded for it      *)
(* (markDone after Handle returned nil).                                   *)
THEOREM AtLeastOnce == Spec => []DoneMeansHandled
BY Invariance, PTL DEF IInv

(* Exclusive claims: FOR UPDATE SKIP LOCKED never lets two consumers hold  *)
(* one event under the same attempt count, before any ReplayDead.          *)
THEOREM ExclusiveClaims == Spec => []ClaimsAreExclusive
BY Invariance, PTL DEF IInv

(***************************************************************************)
(* What a step may do to a row.                                            *)
(***************************************************************************)

(* A row that a batch mentions has been inserted.                          *)
PresentInv ==
    \A c \in Consumers : \A e \in Event :
        held[c][e] > 0 \/ e \in cur[c] => row[e].status # "absent"

(* The moves of one row's status that the code's UPDATE statements allow.  *)
Moves(s, t) ==
    \/ s = t
    \/ s = "absent" /\ t = "pending"
    \/ s \in {"pending", "claimed"} /\ t = "claimed"
    \/ s = "claimed" /\ t \in {"done", "dead", "pending"}
    \/ s = "dead" /\ t = "pending"

LEMMA RowMoves ==
    ASSUME IInv, [Next]_vars
    PROVE  \A e \in Event : Moves(row[e].status, row'[e].status)
<1> SUFFICES ASSUME NEW e \in Event
             PROVE  Moves(row[e].status, row'[e].status)
  OBVIOUS
<1> USE DEF Moves
<1>1. CASE Tick
  BY <1>1, AgedType DEF Tick, IInv, TypeOK
<1>2. CASE Emit
  <2>1. PICK f \in Event : /\ row[f].status = "absent"
                          /\ row' = [row EXCEPT ![f].status = "pending"]
    BY <1>2 DEF Emit
  <2>2. CASE e = f
    BY <2>1, <2>2 DEF IInv, TypeOK, RowType
  <2>3. CASE e # f
    BY <2>1, <2>3 DEF IInv, TypeOK
  <2>4. QED
    BY <2>2, <2>3
<1>3. CASE ReplayDead
  BY <1>3 DEF ReplayDead, Dead
<1>4. ASSUME NEW c \in Consumers, CommitClaim(c) \/ LoseClaimAnswer(c)
      PROVE  Moves(row[e].status, row'[e].status)
  <2>1. row' = ClaimedRow(c)
    BY <1>4 DEF CommitClaim, LoseClaimAnswer
  <2>2. CASE e \in sel[c]
    BY <2>1, <2>2, ClaimedRowFacts DEF IInv, LockInv
  <2>3. CASE e \notin sel[c]
    BY <2>1, <2>3, ClaimedRowFacts
  <2>4. QED
    BY <2>2, <2>3
<1>5. ASSUME NEW c \in Consumers, Settle(c)
      PROVE  Moves(row[e].status, row'[e].status)
  <2>1. PICK f \in cur[c] : ~Locked(f) /\ Settled(c, f)
    BY <1>5 DEF Settle
  <2>2. row'[e] # row[e] =>
           /\ row[e].status = "claimed"
           /\ row'[e].status \in {"done", "dead", "pending"}
    BY <1>5, <2>1, SettledFacts DEF Settle
  <2>3. QED
    BY <2>2
<1>6. ASSUME NEW c \in Consumers, RenewLease(c)
      PROVE  Moves(row[e].status, row'[e].status)
  <2>1. PICK f \in cur[c] : row' = [row EXCEPT ![f].age = 0]
    BY <1>6 DEF RenewLease
  <2>2. row'[e].status = row[e].status
    BY <2>1 DEF IInv, TypeOK, RowType
  <2>3. QED
    BY <2>2
<1>7. CASE row' = row
  BY <1>7
<1>8. ASSUME NEW c \in Consumers, Step(c)
      PROVE  Moves(row[e].status, row'[e].status)
  BY <1>4, <1>5, <1>6, <1>7, <1>8
     DEF Step, Work, SelectBatch, AbortClaim, TakeUp, EndBatch, HandlerReturns, Exit,
         Restart, SettleFails, Shutdown, ForceStop, Crash
<1>9. QED
  BY <1>1, <1>2, <1>3, <1>7, <1>8 DEF Next, vars

(* Done is final: no stale consumer, crash or replay reopens a done row.   *)
THEOREM DoneStaysDone == Spec => DoneIsFinal
<1>1. IInv /\ [Next]_vars =>
        [\A e \in Event : row[e].status = "done" => row'[e].status = "done"]_vars
  BY RowMoves DEF Moves
<1>2. QED
  BY <1>1, Invariance, PTL DEF Spec, DoneIsFinal

(* A row once inserted stays in the table.                                 *)
LEMMA RowsStay ==
    ASSUME IInv, [Next]_vars, NEW e \in Event, row[e].status # "absent"
    PROVE  row'[e].status # "absent"
BY RowMoves DEF Moves

LEMMA PresentStep == IInv /\ PresentInv /\ [Next]_vars => PresentInv'
<1> SUFFICES ASSUME IInv, PresentInv, [Next]_vars,
                    NEW d \in Consumers, NEW e \in Event,
                    held'[d][e] > 0 \/ e \in cur'[d]
             PROVE  row'[e].status # "absent"
  BY DEF PresentInv
<1>1. /\ held \in [Consumers -> [Event -> 0 .. AttemptBound]]
      /\ cur \in [Consumers -> SUBSET Event]
  BY DEF IInv, TypeOK
<1>2. CASE held[d][e] > 0 \/ e \in cur[d]
  BY <1>2, RowsStay DEF PresentInv
<1>3. CASE held' = held /\ cur' = cur
  BY <1>2, <1>3
<1>4. ASSUME NEW c \in Consumers, SelectBatch(c)
      PROVE  row'[e].status # "absent"
  <2>1. cur' = cur /\ row' = row
    BY <1>4 DEF SelectBatch
  <2>2. CASE e \in Oldest(Claimable, BatchSize) /\ d = c
    BY <2>1, <2>2 DEF Oldest, Claimable, Due
  <2>3. CASE d # c \/ e \notin Oldest(Claimable, BatchSize)
    <3>1. held'[d][e] = held[d][e] \/ held'[d][e] = 0
      BY <1>1, <1>4, <2>3 DEF SelectBatch
    <3>2. QED
      BY <1>2, <2>1, <3>1
  <2>4. QED
    BY <2>2, <2>3
<1>5. ASSUME NEW c \in Consumers, TakeUp(c)
      PROVE  row'[e].status # "absent"
  <2>1. held' = held /\ \A x \in Consumers : \A f \in cur'[x] :
            f \in cur[x] \/ held[x][f] > 0
    BY <1>1, <1>5 DEF TakeUp, Remaining
  <2>2. QED
    BY <1>2, <2>1
<1>6. ASSUME NEW c \in Consumers, Settle(c) \/ SettleFails(c)
      PROVE  row'[e].status # "absent"
  <2>1. PICK f \in cur[c] : phase[c] = "settle" /\ Dropped(c, f)
    BY <1>6 DEF Settle, SettleFails
  <2>2. cur'[d] \subseteq cur[d] /\ (held'[d][e] = held[d][e] \/ held'[d][e] = 0)
    BY <2>1, DroppedFacts
  <2>3. QED
    BY <1>2, <2>2
<1>7. ASSUME NEW c \in Consumers,
             AbortClaim(c) \/ LoseClaimAnswer(c) \/ EndBatch(c) \/ Crash(c)
      PROVE  row'[e].status # "absent"
  <2>1. cur'[d] \subseteq cur[d] /\ (held'[d][e] = held[d][e] \/ held'[d][e] = 0)
    BY <1>1, <1>7 DEF AbortClaim, LoseClaimAnswer, EndBatch, Crash, NoneHeld
  <2>2. QED
    BY <1>2, <2>1
<1>8. ASSUME NEW c \in Consumers, Step(c)
      PROVE  row'[e].status # "absent"
  BY <1>3, <1>4, <1>5, <1>6, <1>7, <1>8
     DEF Step, Work, CommitClaim, HandlerReturns, Exit, Restart, RenewLease, Shutdown,
         ForceStop
<1>9. QED
  BY <1>3, <1>8 DEF Next, Tick, Emit, ReplayDead, vars

LEMMA PresentAlways == Spec => []PresentInv
<1>1. Init => PresentInv
  BY OutboxAssumption DEF Init, PresentInv, NoneHeld
<1>2. QED
  BY <1>1, PresentStep, Invariance, PTL DEF Spec

(***************************************************************************)
(* Refinement of Delivery.                                                 *)
(***************************************************************************)

LEMMA PromiseKept ==
    ASSUME \A e \in Event : Promised(row'[e].status) = Promised(row[e].status)
    PROVE  promise' = promise
BY DEF promise

LEMMA PromiseMoves ==
    ASSUME NEW e \in Event, NEW t,
           row'[e].status = t,
           \A f \in Event : f # e => row'[f].status = row[f].status
    PROVE  promise' = [promise EXCEPT ![e] = Promised(t)]
BY DEF promise

LEMMA StepsImplement ==
    ASSUME IInv, PresentInv, [Next]_vars
    PROVE  [Contract!Next]_(Contract!vars)
<1> USE DEF Promised
<1>1. CASE applied' = applied /\ \A e \in Event : \/ row'[e].status = row[e].status
                                                 \/ /\ row[e].status \in {"pending", "claimed"}
                                                    /\ row'[e].status = "claimed"
  <2>1. promise' = promise
    BY <1>1, PromiseKept
  <2>2. QED
    BY <1>1, <2>1 DEF Contract!vars
<1>2. CASE Tick
  BY <1>1, <1>2, AgedType DEF Tick, IInv, TypeOK
<1>3. CASE Emit
  <2>1. PICK e \in Event : /\ row[e].status = "absent"
                          /\ row' = [row EXCEPT ![e].status = "pending"]
    BY <1>3 DEF Emit
  <2>2. row'[e].status = "pending" /\ \A f \in Event : f # e => row'[f] = row[f]
    BY <2>1 DEF IInv, TypeOK, RowType
  <2>3. promise' = [promise EXCEPT ![e] = "open"]
    BY <2>2, PromiseMoves
  <2>4. Contract!Record(e)
    BY <1>3, <2>1, <2>3 DEF Contract!Record, promise, Emit
  <2>5. QED
    BY <2>4 DEF Contract!Next
<1>4. CASE ReplayDead
  <2>1. \A e \in Event : Promised(row'[e].status) =
            IF Promised(row[e].status) = "dead" THEN "open" ELSE Promised(row[e].status)
    <3> SUFFICES ASSUME NEW e \in Event
                 PROVE  Promised(row'[e].status) =
                          IF Promised(row[e].status) = "dead" THEN "open"
                          ELSE Promised(row[e].status)
      OBVIOUS
    <3>1. row'[e] = IF e \in Dead
                    THEN [status |-> "pending", attempts |-> 0, age |-> 0, wait |-> 0]
                    ELSE row[e]
      BY <1>4 DEF ReplayDead
    <3>2. e \in Dead <=> row[e].status = "dead"
      BY DEF Dead
    <3>3. QED
      BY <3>1, <3>2
  <2>2. Contract!Reopen
    BY <1>4, <2>1 DEF Contract!Reopen, promise, ReplayDead
  <2>3. QED
    BY <2>2 DEF Contract!Next
<1>5. ASSUME NEW c \in Consumers, CommitClaim(c) \/ LoseClaimAnswer(c)
      PROVE  [Contract!Next]_(Contract!vars)
  <2>1. row' = ClaimedRow(c) /\ applied' = applied
    BY <1>5 DEF CommitClaim, LoseClaimAnswer
  <2>2. QED
    BY <1>1, <2>1, ClaimedRowFacts DEF IInv, LockInv
<1>6. ASSUME NEW c \in Consumers, NEW r \in {"ok", "error"}, HandlerReturns(c, r)
      PROVE  [Contract!Next]_(Contract!vars)
  <2>1. promise' = promise
    BY <1>6 DEF HandlerReturns, promise
  <2>2. CASE r = "ok"
    <3>1. cur[c] \in SUBSET Event /\ applied' = applied \cup cur[c]
      BY <1>6, <2>2 DEF HandlerReturns, IInv, TypeOK
    <3>2. \A e \in cur[c] : promise[e] # "none"
      BY <3>1 DEF PresentInv, promise, IInv, TypeOK, RowType, Status
    <3>3. Contract!Deliver(cur[c])
      BY <2>1, <3>1, <3>2 DEF Contract!Deliver
    <3>4. QED
      BY <3>1, <3>3 DEF Contract!Next
  <2>3. CASE r = "error"
    BY <1>6, <2>1, <2>3 DEF HandlerReturns, Contract!vars
  <2>4. QED
    BY <1>6, <2>2, <2>3
<1>7. ASSUME NEW c \in Consumers, Settle(c)
      PROVE  [Contract!Next]_(Contract!vars)
  <2>1. PICK e \in cur[c] : ~Locked(e) /\ Settled(c, e)
    BY <1>7 DEF Settle
  <2>2. /\ e \in Event
        /\ \A f \in Event : row'[f] # row[f] =>
             /\ f = e
             /\ row[f].status = "claimed"
             /\ row'[f].status \in {"done", "dead", "pending"}
        /\ row'[e].status = "done" => row[e].status = "done" \/ e \in applied
        /\ applied' = applied
    BY <1>7, <2>1, SettledFacts DEF Settle, Dropped, IInv, TypeOK
  <2>3. CASE row'[e] = row[e] \/ row'[e].status = "pending"
    <3>1. promise' = promise
      BY <2>2, <2>3, PromiseKept
    <3>2. QED
      BY <2>2, <3>1 DEF Contract!vars
  <2>4. CASE row'[e] # row[e] /\ row'[e].status = "done"
    <3>1. promise' = [promise EXCEPT ![e] = "done"]
      BY <2>2, <2>4, PromiseMoves
    <3>2. Contract!Close(e)
      BY <2>2, <2>4, <3>1 DEF Contract!Close, promise
    <3>3. QED
      BY <2>2, <3>2 DEF Contract!Next
  <2>5. CASE row'[e] # row[e] /\ row'[e].status = "dead"
    <3>1. promise' = [promise EXCEPT ![e] = "dead"]
      BY <2>2, <2>5, PromiseMoves
    <3>2. Contract!Bury(e)
      BY <2>2, <2>5, <3>1 DEF Contract!Bury, promise
    <3>3. QED
      BY <2>2, <3>2 DEF Contract!Next
  <2>6. QED
    BY <2>2, <2>3, <2>4, <2>5
<1>8. ASSUME NEW c \in Consumers, RenewLease(c)
      PROVE  [Contract!Next]_(Contract!vars)
  <2>1. PICK f \in cur[c] : row' = [row EXCEPT ![f].age = 0]
    BY <1>8 DEF RenewLease
  <2>2. \A e \in Event : row'[e].status = row[e].status
    BY <2>1 DEF IInv, TypeOK, RowType
  <2>3. QED
    BY <1>1, <1>8, <2>2 DEF RenewLease
<1>9. CASE row' = row /\ applied' = applied
  BY <1>1, <1>9
<1>10. ASSUME NEW c \in Consumers, Step(c)
       PROVE  [Contract!Next]_(Contract!vars)
  BY <1>5, <1>6, <1>7, <1>8, <1>9, <1>10
     DEF Step, Work, SelectBatch, AbortClaim, TakeUp, EndBatch, Exit, Restart, SettleFails,
         Dropped, Shutdown, ForceStop, Crash
<1>11. QED
  BY <1>2, <1>3, <1>4, <1>9, <1>10 DEF Next, vars

(* The consumer implements its promise: every run of the leased, retried,  *)
(* crash-prone table is a run of at-least-once delivery with dead letters. *)
THEOREM OutboxImplementsDelivery == Spec => ImplementsDelivery
<1>1. Init => Contract!Init
  BY DEF Init, Contract!Init, promise, Promised
<1>2. IInv /\ PresentInv /\ [Next]_vars => [Contract!Next]_(Contract!vars)
  BY StepsImplement
<1>3. QED
  BY <1>1, <1>2, Invariance, PresentAlways, PTL
     DEF Spec, ImplementsDelivery, Contract!Spec



(***************************************************************************)
(* How often a row is claimed.  A claim that reaches MaxAttempts settles   *)
(* the row for good unless a fault loses it or a consumer that holds the   *)
(* row under a smaller count puts it back first; the latter happens at     *)
(* most once for each such consumer, and wastes the claims of those that   *)
(* hold the row under a larger count at that time.                         *)
(***************************************************************************)

(* Consumers that will put the row back if their handler fails.            *)
Low(e) == {c \in Consumers : 0 < held[c][e] /\ held[c][e] < MaxAttempts}

(* Running consumers whose claim can still settle the row: all those with  *)
(* a count that ends it, or, while it waits, the one that is claiming it.  *)
Ending(e) ==
    {c \in Consumers :
        /\ mode[c] = "up" /\ held[c][e] >= MaxAttempts
        /\ row[e].status = "pending" => e \in sel[c]}

(* Claims of the row, the one under way included.                          *)
Claims(e) == IF Locked(e) THEN row[e].attempts + 1 ELSE row[e].attempts

Final(e) == row[e].status \in {"done", "dead"}

(* Consumers not yet known to put the row back.                            *)
NotLow(e) == Cardinality(Consumers) - Cardinality(Low(e))

Bound == Cardinality(Consumers) * (Cardinality(Consumers) + 1)

Spent(e) ==
    IF Final(e)
    THEN 2 * (row[e].attempts - (MaxAttempts - 1) - faults) <= Bound
    ELSE 2 * (Claims(e) - (MaxAttempts - 1) - faults - Cardinality(Ending(e)))
            <= NotLow(e) * (NotLow(e) - 1)

(* What a consumer holds it holds in memory, for as long as it works.      *)
BatchInv ==
    \A c \in Consumers : \A e \in Event :
        /\ phase[c] = "idle" => held[c][e] = 0
        /\ phase[c] = "claiming" /\ held[c][e] > 0 => e \in sel[c]
        /\ phase[c] \in {"handle", "settle"} /\ e \in cur[c] => held[c][e] > 0

BudgetInv == replays = 0 => \A e \in Event : Spent(e)

LEMMA SpentNow == BudgetInv /\ replays = 0 => \A e \in Event : Spent(e)
BY DEF BudgetInv

LEMMA BatchInit == Init => BatchInv
BY DEF Init, BatchInv, NoneHeld

LEMMA HeldType ==
    ASSUME IInv
    PROVE  /\ held \in [Consumers -> [Event -> Nat]]
           /\ \A c \in Consumers, e \in Event : held[c][e] \in Nat
           /\ phase \in [Consumers -> Phase] /\ cur \in [Consumers -> SUBSET Event]
           /\ sel \in [Consumers -> SUBSET Event] /\ mode \in [Consumers -> Mode]
           /\ \A e \in Event : row[e].attempts \in Nat
           /\ faults \in Nat
<1>1. 0 .. AttemptBound \subseteq Nat /\ 0 .. MaxFaults \subseteq Nat
  BY OutboxAssumption
<1>2. QED
  BY <1>1 DEF IInv, TypeOK, RowType

(* A step of one consumer's memory leaves the others' alone.               *)
LEMMA BatchOfOne ==
    ASSUME BatchInv, NEW c \in Consumers,
           \A d \in Consumers \ {c} :
               held'[d] = held[d] /\ phase'[d] = phase[d] /\ cur'[d] = cur[d]
               /\ sel'[d] = sel[d],
           \A e \in Event :
             /\ phase'[c] = "idle" => held'[c][e] = 0
             /\ phase'[c] = "claiming" /\ held'[c][e] > 0 => e \in sel'[c]
             /\ phase'[c] \in {"handle", "settle"} /\ e \in cur'[c] => held'[c][e] > 0
    PROVE  BatchInv'
BY DEF BatchInv

LEMMA BatchStep == IInv /\ BatchInv /\ [Next]_vars => BatchInv'
<1> SUFFICES ASSUME IInv, BatchInv, [Next]_vars PROVE BatchInv'
  OBVIOUS
<1>1. CASE UNCHANGED <<held, phase, cur, sel>>
  BY <1>1 DEF BatchInv
<1>2. ASSUME NEW c \in Consumers, SelectBatch(c) PROVE BatchInv'
  <2>1. /\ \A d \in Consumers \ {c} :
             held'[d] = held[d] /\ phase'[d] = phase[d] /\ cur'[d] = cur[d]
             /\ sel'[d] = sel[d]
        /\ phase'[c] = "claiming"
        /\ \A e \in Event : held'[c][e] > 0 => e \in sel'[c]
    BY <1>2, HeldType DEF SelectBatch
  <2>2. QED
    BY <2>1, BatchOfOne
<1>3. ASSUME NEW c \in Consumers, CommitClaim(c) PROVE BatchInv'
  <2>1. /\ \A d \in Consumers \ {c} :
             held'[d] = held[d] /\ phase'[d] = phase[d] /\ cur'[d] = cur[d]
             /\ sel'[d] = sel[d]
        /\ phase'[c] = "batch"
    BY <1>3, HeldType DEF CommitClaim
  <2>2. QED
    BY <2>1, BatchOfOne
<1>4. ASSUME NEW c \in Consumers, TakeUp(c) PROVE BatchInv'
  <2>1. /\ \A d \in Consumers \ {c} :
             held'[d] = held[d] /\ phase'[d] = phase[d] /\ cur'[d] = cur[d]
             /\ sel'[d] = sel[d]
        /\ phase'[c] = "handle" /\ held' = held
        /\ \A e \in cur'[c] : held[c][e] > 0
    BY <1>4, HeldType DEF TakeUp, Remaining
  <2>2. QED
    BY <2>1, BatchOfOne
<1>5. ASSUME NEW c \in Consumers, NEW r \in {"ok", "error"}, HandlerReturns(c, r)
      PROVE  BatchInv'
  <2>1. /\ \A d \in Consumers \ {c} :
             held'[d] = held[d] /\ phase'[d] = phase[d] /\ cur'[d] = cur[d]
             /\ sel'[d] = sel[d]
        /\ phase'[c] = "settle" /\ phase[c] = "handle" /\ held' = held /\ cur' = cur
    BY <1>5, HeldType DEF HandlerReturns
  <2>2. QED
    BY <2>1, BatchOfOne DEF BatchInv
<1>6. ASSUME NEW c \in Consumers,
             AbortClaim(c) \/ LoseClaimAnswer(c) \/ EndBatch(c) \/ Crash(c)
      PROVE  BatchInv'
  <2>1. /\ \A d \in Consumers \ {c} :
             held'[d] = held[d] /\ phase'[d] = phase[d] /\ cur'[d] = cur[d]
             /\ sel'[d] = sel[d]
        /\ phase'[c] = "idle" /\ held'[c] = NoneHeld
    BY <1>6, HeldType DEF AbortClaim, LoseClaimAnswer, EndBatch, Crash
  <2>2. QED
    BY <2>1, BatchOfOne DEF NoneHeld
<1>7. ASSUME NEW c \in Consumers, Settle(c) \/ SettleFails(c) PROVE BatchInv'
  <2>1. PICK f \in cur[c] : phase[c] = "settle" /\ Dropped(c, f)
    BY <1>7 DEF Settle, SettleFails
  <2>2. /\ \A d \in Consumers \ {c} :
             held'[d] = held[d] /\ phase'[d] = phase[d] /\ cur'[d] = cur[d]
             /\ sel'[d] = sel[d]
        /\ phase'[c] \in {"batch", "settle"}
        /\ cur'[c] = cur[c] \ {f}
        /\ \A e \in Event : e # f => held'[c][e] = held[c][e]
    BY <2>1, HeldType DEF Dropped
  <2>3. QED
    BY <2>1, <2>2, BatchOfOne DEF BatchInv
<1>8. ASSUME NEW c \in Consumers, Step(c) PROVE BatchInv'
  BY <1>1, <1>2, <1>3, <1>4, <1>5, <1>6, <1>7, <1>8
     DEF Step, Work, RenewLease, Exit, Restart, Shutdown, ForceStop
<1>9. QED
  BY <1>1, <1>8 DEF Next, Tick, Emit, ReplayDead, vars

(* Sets of consumers are finite.                                           *)
LEMMA Counting ==
    ASSUME NEW S \in SUBSET Consumers
    PROVE  /\ IsFiniteSet(S) /\ Cardinality(S) \in Nat
           /\ Cardinality(Consumers) \in Nat /\ Cardinality(S) <= Cardinality(Consumers)
           /\ \A T \in SUBSET S : Cardinality(T) <= Cardinality(S)
<1>1. IsFiniteSet(Consumers)
  BY OutboxAssumption
<1>2. IsFiniteSet(S) /\ Cardinality(S) <= Cardinality(Consumers)
  BY <1>1, FS_Subset
<1>3. QED
  BY <1>1, <1>2, FS_CardinalityType, FS_Subset

LEMMA Disjoint ==
    ASSUME NEW S \in SUBSET Consumers, NEW T \in SUBSET Consumers, S \cap T = {}
    PROVE  Cardinality(S) + Cardinality(T) <= Cardinality(Consumers)
<1>1. Cardinality(S \cup T) = Cardinality(S) + Cardinality(T) - Cardinality(S \cap T)
  BY Counting, FS_Union
<1>2. Cardinality(S \cap T) = 0
  BY FS_EmptySet
<1>3. Cardinality(S \cup T) <= Cardinality(Consumers)
  BY Counting
<1>4. QED
  BY <1>1, <1>2, <1>3, Counting

(* What a consumer more that is known not to put the row back is worth.    *)
LEMMA Products ==
    ASSUME NEW m \in Nat, NEW k \in Nat, m <= k
    PROVE  /\ m * (m - 1) <= k * (k - 1) /\ 0 <= m * (m - 1)
           /\ m * (m + 1) <= k * (k + 1)
           /\ (m + 1) * ((m + 1) - 1) = m * (m - 1) + 2 * m
           /\ m * (m + 1) = m * (m - 1) + 2 * m
<1>1. PICK d \in Nat : k = m + d
  <2>1. k - m \in Nat /\ k = m + (k - m)
    OBVIOUS
  <2>2. QED
    BY <2>1
<1>2. ASSUME NEW x \in Nat PROVE 0 <= x * (x - 1)
  <2>1. CASE x = 0
    BY <2>1
  <2>2. CASE x # 0
    <3>1. x - 1 \in Nat
      BY <2>2
    <3>2. \A y \in Nat : x * y \in Nat
      OBVIOUS
    <3>3. QED
      BY <3>1, <3>2
  <2>3. QED
    BY <2>1, <2>2
<1>3. m * d \in Nat
  OBVIOUS
<1>4. k * (k - 1) = m * (m - 1) + 2 * (m * d) + d * (d - 1)
  BY <1>1
<1>5. k * (k + 1) = m * (m + 1) + 2 * (m * d) + d * (d - 1) + 2 * d
  BY <1>1
<1>6. m * (m - 1) \in Int /\ k * (k - 1) \in Int /\ d * (d - 1) \in Int
      /\ m * (m + 1) \in Int /\ k * (k + 1) \in Int
  OBVIOUS
<1>7. 0 <= d * (d - 1) /\ 0 <= m * (m - 1)
  BY <1>2
<1>8. m * (m - 1) <= k * (k - 1)
  BY <1>3, <1>4, <1>6, <1>7
<1>9. m * (m + 1) <= k * (k + 1)
  BY <1>3, <1>5, <1>6, <1>7
<1>10. /\ (m + 1) * ((m + 1) - 1) = m * (m - 1) + 2 * m
       /\ m * (m + 1) = m * (m - 1) + 2 * m
  OBVIOUS
<1>11. QED
  BY <1>7, <1>8, <1>9, <1>10

(* The numbers of the budget of one row.                                   *)
LEMMA Numbers ==
    ASSUME IInv, NEW e \in Event
    PROVE  /\ Low(e) \in SUBSET Consumers /\ Ending(e) \in SUBSET Consumers
           /\ Low(e) \cap Ending(e) = {}
           /\ Cardinality(Low(e)) \in Nat /\ Cardinality(Ending(e)) \in Nat
           /\ Cardinality(Consumers) \in Nat
           /\ NotLow(e) \in Nat /\ NotLow(e) <= Cardinality(Consumers)
           /\ Cardinality(Ending(e)) <= NotLow(e)
           /\ Claims(e) \in Nat /\ row[e].attempts <= Claims(e)
           /\ row[e].attempts \in Nat /\ faults \in Nat /\ MaxAttempts \in Nat
<1>1. Low(e) \in SUBSET Consumers /\ Ending(e) \in SUBSET Consumers
  BY DEF Low, Ending
<1>2. Low(e) \cap Ending(e) = {}
  BY HeldType, OutboxAssumption DEF Low, Ending
<1>3. /\ Cardinality(Low(e)) \in Nat /\ Cardinality(Ending(e)) \in Nat
      /\ Cardinality(Consumers) \in Nat /\ Cardinality(Low(e)) <= Cardinality(Consumers)
      /\ Cardinality(Low(e)) + Cardinality(Ending(e)) <= Cardinality(Consumers)
  BY <1>1, <1>2, Counting, Disjoint
<1>4. /\ NotLow(e) \in Nat /\ NotLow(e) <= Cardinality(Consumers)
      /\ Cardinality(Ending(e)) <= NotLow(e)
  BY <1>3 DEF NotLow
<1>5. row[e].attempts \in Nat /\ faults \in Nat /\ MaxAttempts \in Nat
  BY HeldType, OutboxAssumption
<1>6. Claims(e) \in Nat /\ row[e].attempts <= Claims(e)
  BY <1>5 DEF Claims
<1>7. QED
  BY <1>1, <1>2, <1>3, <1>4, <1>5, <1>6

(* Nothing that counts has grown: claims only with those that end the row, *)
(* and what was lost is paid for by a fault.                               *)
LEMMA SpentKept ==
    ASSUME IInv, IInv', NEW e \in Event, Spent(e),
           row'[e].status \in {"done", "dead"} <=> row[e].status \in {"done", "dead"},
           row'[e].attempts = row[e].attempts \/ ~Final(e),
           faults <= faults',
           ~Final(e) => /\ Claims(e)' - faults' - Cardinality(Ending(e))'
                               <= Claims(e) - faults - Cardinality(Ending(e))
                        /\ Low(e)' \subseteq Low(e)
    PROVE  Spent(e)'
<1> DEFINE lo == Low(e)  ll == Low(e)'  n == Cardinality(Consumers)
           k == NotLow(e)'  m == NotLow(e)
<1>1. Final(e)' <=> Final(e)
  BY DEF Final
<1>2. /\ lo \in SUBSET Consumers /\ ll \in SUBSET Consumers /\ n \in Nat /\ m \in Nat
      /\ m = n - Cardinality(lo) /\ k = n - Cardinality(ll)
      /\ Cardinality(Ending(e)) \in Nat /\ Claims(e) \in Nat
      /\ row[e].attempts \in Nat /\ faults \in Nat /\ MaxAttempts \in Nat
  BY Numbers DEF NotLow, Low
<1>3. /\ Cardinality(Ending(e))' \in Nat /\ Claims(e)' \in Nat
      /\ row'[e].attempts \in Nat /\ faults' \in Nat
  <2>1. Ending(e)' \in SUBSET Consumers
    BY DEF Ending
  <2>2. Cardinality(Ending(e)') \in Nat
    BY <2>1, Counting
  <2>3. row'[e].attempts \in Nat /\ faults' \in Nat
    <3>1. 0 .. AttemptBound \subseteq Nat /\ 0 .. MaxFaults \subseteq Nat
      BY OutboxAssumption
    <3>2. QED
      BY <3>1 DEF IInv, TypeOK, RowType
  <2>4. QED
    BY <2>2, <2>3 DEF Claims
<1>4. CASE Final(e)
  BY <1>1, <1>2, <1>3, <1>4 DEF Spent, Bound
<1>5. CASE ~Final(e)
  <2>1. Cardinality(ll) \in Nat /\ Cardinality(ll) <= Cardinality(lo)
        /\ Cardinality(lo) \in Nat /\ Cardinality(ll) <= n
    BY <1>2, <1>5, Counting
  <2>2. k \in Nat /\ m <= k
    BY <1>2, <2>1
  <2>3. m * (m - 1) <= k * (k - 1)
    BY <1>2, <2>2, Products
  <2>4. 2 * (Claims(e) - (MaxAttempts - 1) - faults - Cardinality(Ending(e))) <= m * (m - 1)
    BY <1>5 DEF Spent
  <2>5. 2 * (Claims(e)' - (MaxAttempts - 1) - faults' - Cardinality(Ending(e))') <= k * (k - 1)
    <3>1. m * (m - 1) \in Int /\ k * (k - 1) \in Int
      BY <1>2, <2>2
    <3>2. Claims(e)' - faults' - Cardinality(Ending(e))'
                               <= Claims(e) - faults - Cardinality(Ending(e))
      BY <1>5
    <3> HIDE DEF m, k
    <3>3. QED
      BY <1>2, <1>3, <2>3, <2>4, <3>1, <3>2
  <2>6. QED
    BY <1>1, <1>5, <2>5 DEF Spent
<1>6. QED
  BY <1>4, <1>5

(* Within the budget, whatever the row's state.                            *)
LEMMA SpentBounds ==
    ASSUME IInv, NEW e \in Event, Spent(e)
    PROVE  2 * (row[e].attempts - (MaxAttempts - 1) - faults) <= Bound
<1>1. CASE Final(e)
  BY <1>1 DEF Spent
<1>2. CASE ~Final(e)
  <2> DEFINE m == NotLow(e)  n == Cardinality(Consumers)  x == Cardinality(Ending(e))
  <2>1. /\ m \in Nat /\ n \in Nat /\ m <= n /\ x \in Nat /\ x <= m
        /\ Claims(e) \in Nat /\ row[e].attempts <= Claims(e)
        /\ row[e].attempts \in Nat /\ faults \in Nat /\ MaxAttempts \in Nat
    BY Numbers
  <2>2. 2 * (Claims(e) - (MaxAttempts - 1) - faults - x) <= m * (m - 1)
    BY <1>2 DEF Spent
  <2>3. m * (m + 1) <= n * (n + 1) /\ m * (m + 1) = m * (m - 1) + 2 * m
    BY <2>1, Products
  <2>4. m * (m - 1) \in Int /\ m * (m + 1) \in Int /\ n * (n + 1) \in Int
    BY <2>1
  <2>5. Bound = n * (n + 1)
    BY DEF Bound
  <2> HIDE DEF m, n, x
  <2>6. QED
    BY <2>1, <2>2, <2>3, <2>4, <2>5
<1>3. QED
  BY <1>1, <1>2

(* A consumer gives up what it held of a row, or some of it: at no cost    *)
(* unless it counted, and then for a fault.                                *)
LEMMA SpentByOne ==
    ASSUME IInv, IInv', NEW e \in Event, Spent(e), NEW c \in Consumers,
           row'[e].status = row[e].status, Claims(e)' <= Claims(e),
           row'[e].attempts = row[e].attempts,
           \A d \in Consumers \ {c} :
               mode'[d] = mode[d] /\ held'[d] = held[d] /\ sel'[d] = sel[d],
           held'[c][e] \in {0, held[c][e]},
           \/ faults' = faults + 1
           \/ faults' = faults /\ (Final(e) \/ c \notin Ending(e) \/ c \in Ending(e)')
    PROVE  Spent(e)'
<1>1. /\ Ending(e) \in SUBSET Consumers /\ Ending(e)' \in SUBSET Consumers
      /\ Claims(e) \in Nat /\ faults \in Nat
  BY Numbers DEF Ending
<1>2. Claims(e)' \in Nat
  <2>1. row'[e].attempts \in Nat
    BY HeldType
  <2>2. QED
    BY <2>1 DEF Claims
<1>3. \A d \in Consumers \ {c} : d \in Ending(e) <=> d \in Ending(e)'
  BY DEF Ending
<1>4. Low(e)' \subseteq Low(e)
  BY HeldType DEF Low
<1>5. ASSUME ~Final(e)
      PROVE  Claims(e)' - faults' - Cardinality(Ending(e))'
                <= Claims(e) - faults - Cardinality(Ending(e))
  <2> DEFINE x == Cardinality(Ending(e))  y == Cardinality(Ending(e)')
  <2>1. IsFiniteSet(Ending(e)) /\ x \in Nat /\ y \in Nat
    BY <1>1, Counting
  <2>2. CASE c \notin Ending(e) \/ c \in Ending(e)'
    <3>1. Ending(e) \in SUBSET (Ending(e)')
      BY <1>1, <1>3, <2>2
    <3>2. x <= y
      BY <1>1, <3>1, Counting
    <3>3. QED
      BY <1>1, <1>2, <2>1, <3>2
  <2>3. CASE faults' = faults + 1
    <3>1. Ending(e) \ {c} \in SUBSET (Ending(e)')
      BY <1>1, <1>3
    <3>2. Cardinality(Ending(e) \ {c}) <= y
      BY <1>1, <3>1, Counting
    <3>3. Cardinality(Ending(e) \ {c}) \in {x, x - 1}
      BY <2>1, FS_RemoveElement
    <3>4. QED
      BY <1>1, <1>2, <2>1, <2>3, <3>2, <3>3
  <2>4. QED
    BY <1>5, <2>2, <2>3
<1>6. faults <= faults'
  BY <1>1
<1>7. QED
  BY <1>4, <1>5, <1>6, SpentKept

(* A new claim: it may settle the row, or has a small count.               *)
LEMMA SpentByClaim ==
    ASSUME IInv, IInv', NEW e \in Event, Spent(e), NEW c \in Consumers,
           row' = row, mode' = mode, faults' = faults, ~Final(e), ~Locked(e),
           \A d \in Consumers \ {c} : held'[d] = held[d] /\ sel'[d] = sel[d],
           held[c][e] = 0, held'[c][e] = row[e].attempts + 1, e \in sel'[c], mode[c] = "up"
    PROVE  Spent(e)'
<1>1. /\ Ending(e) \in SUBSET Consumers /\ Ending(e)' \in SUBSET Consumers
      /\ Claims(e) = row[e].attempts /\ Claims(e)' = row[e].attempts + 1
      /\ row[e].attempts \in Nat /\ faults \in Nat /\ MaxAttempts \in Nat
  BY Numbers DEF Ending, Claims, Locked
<1>2. ~Final(e)'
  BY DEF Final
<1>3. CASE row[e].attempts + 1 >= MaxAttempts
  <2>1. c \notin Ending(e) /\ c \in Ending(e)'
    BY <1>1, <1>3, OutboxAssumption DEF Ending
  <2>2. \A d \in Consumers \ {c} : d \in Ending(e) <=> d \in Ending(e)'
    BY DEF Ending
  <2>3. Ending(e) \cup {c} \in SUBSET (Ending(e)')
    BY <1>1, <2>1, <2>2
  <2> DEFINE x == Cardinality(Ending(e))  y == Cardinality(Ending(e)')
  <2>4. IsFiniteSet(Ending(e)) /\ x \in Nat /\ y \in Nat
    BY <1>1, Counting
  <2>5. Cardinality(Ending(e) \cup {c}) = x + 1
    BY <2>1, <2>4, FS_AddElement
  <2>6. x + 1 <= y
    BY <1>1, <2>3, <2>5, Counting
  <2>7. Low(e)' \subseteq Low(e)
    BY <1>1, <1>3, HeldType DEF Low
  <2>8. Claims(e)' - faults' - y <= Claims(e) - faults - x
    BY <1>1, <2>4, <2>6
  <2>9. faults <= faults'
    BY <1>1
  <2>10. QED
    BY <2>7, <2>8, <2>9, SpentKept
<1>4. CASE ~(row[e].attempts + 1 >= MaxAttempts)
  <2>1. Low(e)' \in SUBSET Consumers
    BY DEF Low
  <2>2. Cardinality(Low(e)') \in Nat /\ Cardinality(Low(e)') <= Cardinality(Consumers)
        /\ Cardinality(Consumers) \in Nat
    BY <2>1, Counting
  <2> DEFINE k == NotLow(e)'  y == Cardinality(Ending(e)')
  <2>3. k \in Nat
    BY <2>2 DEF NotLow
  <2>4. 0 <= k * (k - 1) /\ k * (k - 1) \in Int
    BY <2>3, Products
  <2>5. y \in Nat
    BY <1>1, Counting
  <2>6. 2 * (Claims(e)' - (MaxAttempts - 1) - faults' - y) <= 0
    BY <1>1, <1>4, <2>5
  <2>7. 2 * (Claims(e)' - (MaxAttempts - 1) - faults' - y) \in Int
    BY <1>1, <2>5
  <2>8. 2 * (Claims(e)' - (MaxAttempts - 1) - faults' - y) <= k * (k - 1)
    <3> HIDE DEF k, y
    <3>1. QED
      BY <2>4, <2>6, <2>7
  <2>9. QED
    BY <1>2, <2>8 DEF Spent
<1>5. QED
  BY <1>3, <1>4

(* A consumer with a small count puts the row back: those with larger ones *)
(* no longer settle it, but there is one less to do so again.              *)
LEMMA SpentByReturn ==
    ASSUME IInv, IInv', NEW e \in Event, Spent(e), NEW c \in Low(e), ~Final(e), ~Final(e)',
           row'[e].attempts = row[e].attempts, Claims(e)' <= Claims(e), faults' = faults,
           \A d \in Consumers \ {c} : held'[d] = held[d],
           held'[c][e] = 0
    PROVE  Spent(e)'
<1> DEFINE m == NotLow(e)  k == NotLow(e)'
           x == Cardinality(Ending(e))  y == Cardinality(Ending(e)')
<1>1. /\ Low(e) \in SUBSET Consumers /\ Cardinality(Low(e)) \in Nat
      /\ m \in Nat /\ x \in Nat /\ x <= m /\ m <= Cardinality(Consumers)
      /\ m = Cardinality(Consumers) - Cardinality(Low(e))
      /\ Cardinality(Consumers) \in Nat
      /\ Claims(e) \in Nat /\ faults \in Nat /\ MaxAttempts \in Nat
  BY Numbers DEF NotLow
<1>2. Claims(e)' \in Nat
  <2>1. row'[e].attempts \in Nat
    BY HeldType
  <2>2. QED
    BY <2>1 DEF Claims
<1>3. Low(e)' = Low(e) \ {c}
  BY DEF Low
<1>4. Cardinality(Low(e)') = Cardinality(Low(e)) - 1
  BY <1>1, <1>3, Counting, FS_RemoveElement
<1>5. k = m + 1
  BY <1>1, <1>4 DEF NotLow
<1>6. y \in Nat
  <2>1. Ending(e)' \in SUBSET Consumers
    BY DEF Ending
  <2>2. QED
    BY <2>1, Counting
<1>7. 2 * (Claims(e) - (MaxAttempts - 1) - faults - x) <= m * (m - 1)
  BY DEF Spent
<1>8. k * (k - 1) = m * (m - 1) + 2 * m /\ m * (m - 1) \in Int
  BY <1>1, <1>5, Products
<1>9. 2 * (Claims(e)' - (MaxAttempts - 1) - faults' - y) <= k * (k - 1)
  <2> HIDE DEF m, k, x, y
  <2>1. QED
    BY <1>1, <1>2, <1>6, <1>7, <1>8
<1>10. QED
  BY <1>9 DEF Spent

(* Done or dead: the claims made so far were within the budget.            *)
LEMMA SpentByEnd ==
    ASSUME IInv, NEW e \in Event, Spent(e), Final(e)',
           row'[e].attempts = row[e].attempts, faults' = faults
    PROVE  Spent(e)'
BY SpentBounds DEF Spent, Bound

(* Steps that touch no claim: everyone holds what they held, and whoever   *)
(* was up is up.                                                           *)
LEMMA SpentQuietly ==
    ASSUME IInv, IInv', NEW e \in Event, Spent(e),
           row'[e].status = row[e].status, row'[e].attempts = row[e].attempts,
           UNCHANGED <<held, sel, faults>>,
           \A d \in Consumers : mode[d] = "up" => mode'[d] = "up"
    PROVE  Spent(e)'
<1>1. Claims(e)' = Claims(e) /\ Low(e)' = Low(e)
  BY DEF Claims, Locked, Low
<1>2. /\ Ending(e) \in SUBSET (Ending(e)') /\ Ending(e)' \in SUBSET Consumers
      /\ Ending(e) \in SUBSET Consumers
  BY DEF Ending
<1>3. /\ Cardinality(Ending(e)) <= Cardinality(Ending(e)')
      /\ Cardinality(Ending(e)) \in Nat /\ Cardinality(Ending(e)') \in Nat
      /\ Claims(e) \in Nat /\ faults \in Nat
  BY <1>2, Counting, Numbers
<1>4. Claims(e)' - faults' - Cardinality(Ending(e))'
         <= Claims(e) - faults - Cardinality(Ending(e))
  BY <1>1, <1>3
<1>5. faults <= faults'
  BY <1>3
<1>6. QED
  BY <1>1, <1>4, <1>5, SpentKept

LEMMA QuietSteps ==
    ASSUME IInv, IInv', NEW e \in Event, Spent(e), NEW c \in Consumers,
           \/ TakeUp(c) \/ RenewLease(c) \/ ForceStop(c) \/ Exit(c) \/ Restart(c)
           \/ \E r \in {"ok", "error"} : HandlerReturns(c, r)
    PROVE  Spent(e)'
<1>1. UNCHANGED <<held, sel, faults>>
  BY DEF TakeUp, RenewLease, ForceStop, Exit, Restart, HandlerReturns
<1>2. \A d \in Consumers : mode[d] = "up" => mode'[d] = "up"
  BY HeldType DEF TakeUp, RenewLease, ForceStop, Exit, Restart, HandlerReturns
<1>3. row'[e].status = row[e].status /\ row'[e].attempts = row[e].attempts
  <2>1. CASE RenewLease(c)
    <3>1. PICK f : row' = [row EXCEPT ![f].age = 0]
      BY <2>1 DEF RenewLease
    <3>2. QED
      BY <3>1 DEF IInv, TypeOK, RowType
  <2>2. CASE row' = row
    BY <2>2
  <2>3. QED
    BY <2>1, <2>2 DEF TakeUp, ForceStop, Exit, Restart, HandlerReturns
<1>4. QED
  BY <1>1, <1>2, <1>3, SpentQuietly

LEMMA TickSpent ==
    ASSUME IInv, IInv', NEW e \in Event, Spent(e), Tick \/ UNCHANGED vars
    PROVE  Spent(e)'
<1>1. UNCHANGED <<held, sel, faults, mode>>
  BY DEF Tick, vars
<1>2. row'[e].status = row[e].status /\ row'[e].attempts = row[e].attempts
  BY AgedType DEF Tick, vars, IInv, TypeOK
<1>3. QED
  BY <1>1, <1>2, SpentQuietly

(* Nobody holds a row before it is inserted.                               *)
LEMMA EmitSpent ==
    ASSUME IInv, IInv', PresentInv, NEW e \in Event, Spent(e), Emit
    PROVE  Spent(e)'
<1>1. PICK f \in Event : /\ row[f].status = "absent"
                        /\ row' = [row EXCEPT ![f].status = "pending"]
  BY DEF Emit
<1>2. UNCHANGED <<held, sel, faults, mode>>
  BY DEF Emit
<1>3. CASE e # f
  BY <1>1, <1>2, <1>3, SpentQuietly DEF IInv, TypeOK
<1>4. CASE e = f
  <2>1. row'[e].status = "pending" /\ row'[e].attempts = row[e].attempts
    BY <1>1, <1>4 DEF IInv, TypeOK, RowType
  <2>2. Ending(e) = {}
    BY <1>1, <1>4, HeldType, OutboxAssumption DEF Ending, PresentInv
  <2>3. Claims(e)' = Claims(e) /\ Low(e)' = Low(e)
    BY <1>2, <2>1 DEF Claims, Locked, Low
  <2>4. Cardinality(Ending(e)) = 0 /\ Cardinality(Ending(e)') \in Nat
    <3>1. Ending(e)' \in SUBSET Consumers
      BY DEF Ending
    <3>2. QED
      BY <2>2, <3>1, Counting, FS_EmptySet
  <2>5. Claims(e)' - faults' - Cardinality(Ending(e))'
           <= Claims(e) - faults - Cardinality(Ending(e))
    BY <1>2, <2>3, <2>4, Numbers
  <2>6. faults <= faults'
    BY <1>2, Numbers
  <2>7. QED
    BY <1>1, <1>4, <2>1, <2>3, <2>5, <2>6, SpentKept DEF Final
<1>5. QED
  BY <1>3, <1>4

LEMMA SelectSpent ==
    ASSUME IInv, IInv', BatchInv, NEW e \in Event, Spent(e), NEW c \in Consumers, SelectBatch(c)
    PROVE  Spent(e)'
<1> DEFINE S == Oldest(Claimable, BatchSize)
<1>1. S \subseteq Claimable
  BY DEF Oldest
<1>2. /\ phase[c] = "idle" /\ mode[c] = "up"
      /\ sel' = [sel EXCEPT ![c] = S]
      /\ held' = [held EXCEPT ![c] =
                    [f \in Event |-> IF f \in S THEN row[f].attempts + 1 ELSE 0]]
      /\ UNCHANGED <<row, mode, faults>>
  BY DEF SelectBatch
<1> HIDE DEF S
<1>3. /\ \A d \in Consumers \ {c} : held'[d] = held[d] /\ sel'[d] = sel[d]
      /\ held[c][e] = 0 /\ sel'[c] = S /\ sel[c] = {}
      /\ held'[c][e] = IF e \in S THEN row[e].attempts + 1 ELSE 0
  BY <1>2, HeldType DEF BatchInv, IInv, LockInv
<1>4. CASE e \in S
  <2>1. ~Locked(e) /\ ~Final(e)
    BY <1>1, <1>4 DEF Claimable, Due, Final
  <2>2. QED
    BY <1>2, <1>3, <1>4, <2>1, SpentByClaim
<1>5. CASE e \notin S
  <2>1. Locked(e)' <=> Locked(e)
    BY <1>3, <1>5 DEF Locked
  <2>2. Claims(e)' <= Claims(e)
    BY <1>2, <2>1, Numbers DEF Claims
  <2>3. c \notin Ending(e)
    BY <1>3, OutboxAssumption DEF Ending
  <2>4. held'[c][e] \in {0, held[c][e]}
    BY <1>3, <1>5
  <2>5. \A d \in Consumers \ {c} :
           mode'[d] = mode[d] /\ held'[d] = held[d] /\ sel'[d] = sel[d]
    BY <1>2, <1>3
  <2>6. row' = row /\ faults' = faults
    BY <1>2
  <2>7. QED
    BY <2>2, <2>3, <2>4, <2>5, <2>6, SpentByOne
<1>6. QED
  BY <1>4, <1>5

(* A claim takes effect: it was counted since its rows were locked.        *)
LEMMA CommitSpent ==
    ASSUME IInv, IInv', NEW e \in Event, Spent(e), NEW c \in Consumers,
           CommitClaim(c) \/ LoseClaimAnswer(c)
    PROVE  Spent(e)'
<1>1. /\ row' = ClaimedRow(c) /\ sel' = [sel EXCEPT ![c] = {}] /\ mode' = mode
      /\ \/ held' = held /\ faults' = faults
         \/ held' = [held EXCEPT ![c] = NoneHeld] /\ faults' = faults + 1
  BY DEF CommitClaim, LoseClaimAnswer
<1>2. /\ \A d \in Consumers \ {c} :
           mode'[d] = mode[d] /\ held'[d] = held[d] /\ sel'[d] = sel[d]
      /\ sel'[c] = {}
      /\ held'[c][e] \in {0, held[c][e]}
      /\ faults' = faults + 1 \/ (faults' = faults /\ held'[c] = held[c])
      /\ mode'[c] = mode[c]
  BY <1>1, HeldType DEF NoneHeld
<1>3. CASE e \notin sel[c]
  <2>1. row'[e] = row[e]
    BY <1>1, <1>3, ClaimedRowFacts
  <2>2. Locked(e)' <=> Locked(e)
    BY <1>2, <1>3 DEF Locked
  <2>3. Claims(e)' <= Claims(e)
    BY <2>1, <2>2, Numbers DEF Claims
  <2>4. ASSUME faults' = faults, c \in Ending(e) PROVE c \in Ending(e)'
    <3>1. faults \in Nat
      BY Numbers
    <3>2. held'[c] = held[c]
      BY <1>2, <2>4, <3>1
    <3>3. row[e].status # "pending"
      BY <1>3, <2>4 DEF Ending
    <3>4. QED
      BY <1>2, <2>1, <2>4, <3>2, <3>3 DEF Ending
  <2>5. QED
    BY <1>2, <2>1, <2>3, <2>4, SpentByOne
<1>4. CASE e \in sel[c]
  <2>1. /\ row'[e].status = "claimed" /\ row'[e].attempts = row[e].attempts + 1
        /\ row[e].status \in {"pending", "claimed"}
        /\ \A d \in Consumers \ {c} : e \notin sel[d]
    BY <1>1, <1>4, ClaimedRowFacts DEF IInv, LockInv
  <2>2. Locked(e) /\ ~Locked(e)'
    BY <1>2, <1>4, <2>1 DEF Locked
  <2>3. Claims(e)' = Claims(e) /\ Claims(e) \in Nat /\ faults \in Nat
    BY <2>1, <2>2, Numbers DEF Claims
  <2>4. Low(e)' \subseteq Low(e)
    BY <1>2, HeldType DEF Low
  <2>5. Ending(e) \ {c} \subseteq Ending(e)'
    BY <1>2, <2>1 DEF Ending
  <2>6. faults' = faults => (c \in Ending(e) => c \in Ending(e)')
    BY <1>2, <2>1, <2>3 DEF Ending
  <2> DEFINE x == Cardinality(Ending(e))  y == Cardinality(Ending(e)')
  <2>7. Ending(e) \in SUBSET Consumers /\ Ending(e)' \in SUBSET Consumers
    BY DEF Ending
  <2>8. IsFiniteSet(Ending(e)) /\ x \in Nat /\ y \in Nat
    BY <2>7, Counting
  <2>9. Claims(e)' - faults' - y <= Claims(e) - faults - x
    <3>1. CASE faults' = faults
      <4>1. Ending(e) \in SUBSET (Ending(e)')
        BY <2>5, <2>6, <3>1
      <4>2. x <= y
        BY <2>7, <4>1, Counting
      <4>3. QED
        BY <2>3, <2>8, <3>1, <4>2
    <3>2. CASE faults' = faults + 1
      <4>1. Cardinality(Ending(e) \ {c}) <= y
        BY <2>5, <2>7, Counting
      <4>2. Cardinality(Ending(e) \ {c}) \in {x, x - 1}
        BY <2>8, FS_RemoveElement
      <4>3. QED
        BY <2>3, <2>8, <3>2, <4>1, <4>2
    <3>3. QED
      BY <1>2, <3>1, <3>2
  <2>10. faults <= faults'
    BY <1>2, <2>3
  <2>11. ~Final(e) /\ row'[e].status \notin {"done", "dead"} /\ row[e].status \notin {"done", "dead"}
    BY <2>1 DEF Final
  <2>12. QED
    BY <2>4, <2>9, <2>10, <2>11, SpentKept
<1>5. QED
  BY <1>3, <1>4

(* A consumer that stops working on the row, with or without a fault.      *)
LEMMA LeaveSpent ==
    ASSUME IInv, IInv', BatchInv, NEW e \in Event, Spent(e), NEW c \in Consumers,
           AbortClaim(c) \/ EndBatch(c) \/ Crash(c) \/ Shutdown(c)
    PROVE  Spent(e)'
<1>1. /\ row' = row
      /\ \A d \in Consumers \ {c} :
           mode'[d] = mode[d] /\ held'[d] = held[d] /\ sel'[d] = sel[d]
      /\ held'[c][e] \in {0, held[c][e]}
      /\ sel'[c] \subseteq sel[c]
  BY HeldType DEF AbortClaim, EndBatch, Crash, Shutdown, NoneHeld
<1>2. Locked(e)' => Locked(e)
  BY <1>1 DEF Locked
<1>3. Claims(e)' <= Claims(e)
  BY <1>1, <1>2, Numbers DEF Claims
<1>4. faults' = faults + 1 \/ (faults' = faults /\ c \notin Ending(e))
  <2>1. CASE AbortClaim(c)
    BY <2>1 DEF AbortClaim, Ending
  <2>2. CASE EndBatch(c)
    <3>1. faults' = faults /\ (held[c][e] = 0 \/ mode[c] = "forced")
      BY <2>2, HeldType DEF EndBatch, Remaining
    <3>2. QED
      BY <3>1, OutboxAssumption DEF Ending
  <2>3. CASE Crash(c) \/ Shutdown(c)
    BY <2>3 DEF Crash, Shutdown
  <2>4. QED
    BY <2>1, <2>2, <2>3
<1>5. QED
  BY <1>1, <1>3, <1>4, SpentByOne

(* Settling: dropping one event from the batch.                            *)
LEMMA DropFacts ==
    ASSUME IInv, NEW c \in Consumers, NEW f \in cur[c], Dropped(c, f), NEW e \in Event
    PROVE  /\ \A d \in Consumers \ {c} :
                mode'[d] = mode[d] /\ held'[d] = held[d] /\ sel'[d] = sel[d]
           /\ held'[c][e] = IF e = f THEN 0 ELSE held[c][e]
           /\ mode' = mode /\ sel' = sel
BY HeldType DEF Dropped

LEMMA SettleFailsSpent ==
    ASSUME IInv, IInv', NEW e \in Event, Spent(e), NEW c \in Consumers, SettleFails(c)
    PROVE  Spent(e)'
<1>1. PICK f \in cur[c] : Dropped(c, f)
  BY DEF SettleFails
<1>2. /\ \A d \in Consumers \ {c} :
           mode'[d] = mode[d] /\ held'[d] = held[d] /\ sel'[d] = sel[d]
      /\ held'[c][e] \in {0, held[c][e]}
      /\ sel' = sel /\ row' = row
  BY <1>1, DropFacts DEF SettleFails
<1>3. Claims(e)' <= Claims(e)
  BY <1>2, Numbers DEF Claims, Locked
<1>4. faults' = faults + 1 \/ (faults' = faults /\ c \notin Ending(e))
  BY DEF SettleFails, Ending
<1>5. QED
  BY <1>2, <1>3, <1>4, SpentByOne

LEMMA SettleSpent ==
    ASSUME IInv, IInv', PresentInv, BatchInv, NEW e \in Event, Spent(e), NEW c \in Consumers,
           Settle(c)
    PROVE  Spent(e)'
<1>1. PICK f \in cur[c] : ~Locked(f) /\ Settled(c, f) /\ Dropped(c, f)
  BY DEF Settle
<1>2. phase[c] = "settle" /\ faults' = faults
  BY DEF Settle
<1>3. f \in Event /\ held[c][f] > 0 /\ sel[c] = {}
  BY <1>1, <1>2, HeldType DEF BatchInv, IInv, LockInv
<1>4. /\ \A d \in Consumers \ {c} :
           mode'[d] = mode[d] /\ held'[d] = held[d] /\ sel'[d] = sel[d]
      /\ held'[c][e] = IF e = f THEN 0 ELSE held[c][e]
      /\ mode' = mode /\ sel' = sel
  BY <1>1, DropFacts
<1>5. /\ row'[e].attempts = row[e].attempts
      /\ row'[e] # row[e] => e = f
  BY <1>1, <1>2, SettledFacts
<1>6. Claims(e)' = Claims(e) /\ Claims(e)' <= Claims(e)
  <2>1. Claims(e)' = Claims(e)
    BY <1>4, <1>5 DEF Claims, Locked
  <2>2. QED
    BY <2>1, Numbers
<1>7. CASE e # f
  <2>1. row'[e] = row[e] /\ held'[c][e] = held[c][e]
    BY <1>4, <1>5, <1>7
  <2>2. c \in Ending(e) => c \in Ending(e)'
    BY <1>4, <2>1 DEF Ending
  <2>3. QED
    BY <1>2, <1>4, <1>6, <2>1, <2>2, SpentByOne
<1>8. CASE e = f /\ row[e].status # "claimed"
  <2>1. row' = row
    BY <1>1, <1>8 DEF Settled, StillClaimed
  <2>2. row[e].status # "absent"
    BY <1>3, <1>8 DEF PresentInv
  <2>3. row[e].status \in {"pending", "done", "dead"}
    BY <1>8, <2>2 DEF IInv, TypeOK, RowType, Status
  <2>4. Final(e) \/ c \notin Ending(e)
    BY <1>3, <2>3 DEF Final, Ending
  <2>5. held'[c][e] \in {0, held[c][e]}
    BY <1>4
  <2>6. QED
    BY <1>2, <1>4, <1>6, <2>1, <2>4, <2>5, SpentByOne
<1>9. CASE e = f /\ row[e].status = "claimed"
  <2>1. \/ row' = [row EXCEPT ![e] = Done(@)]
        \/ \E w : row' = [row EXCEPT ![e] = Failed(@, held[c][e], w)]
    BY <1>1, <1>9 DEF Settled, StillClaimed
  <2>2. CASE row' = [row EXCEPT ![e] = Done(@)]
    <3>1. row'[e].status = "done"
      BY <2>2 DEF Done, IInv, TypeOK, RowType
    <3>2. QED
      BY <1>2, <1>5, <3>1, SpentByEnd DEF Final
  <2>3. ASSUME NEW w, row' = [row EXCEPT ![e] = Failed(@, held[c][e], w)]
        PROVE  Spent(e)'
    <3>1. row'[e].status = IF held[c][e] >= MaxAttempts THEN "dead" ELSE "pending"
      BY <2>3 DEF Failed, Exhausted, IInv, TypeOK
    <3>2. CASE held[c][e] >= MaxAttempts
      BY <1>2, <1>5, <3>1, <3>2, SpentByEnd DEF Final
    <3>3. CASE ~(held[c][e] >= MaxAttempts)
      <4>1. c \in Low(e)
        BY <1>3, <1>9, <3>3, HeldType, OutboxAssumption DEF Low
      <4>2. ~Final(e) /\ ~Final(e)'
        BY <1>9, <3>1, <3>3 DEF Final
      <4>3. held'[c][e] = 0 /\ \A d \in Consumers \ {c} : held'[d] = held[d]
        BY <1>4, <1>9
      <4>4. QED
        BY <1>2, <1>5, <1>6, <4>1, <4>2, <4>3, SpentByReturn
    <3>4. QED
      BY <3>2, <3>3
  <2>4. QED
    BY <2>1, <2>2, <2>3
<1>10. QED
  BY <1>7, <1>8, <1>9

LEMMA BudgetInit == Init => BudgetInv
<1> SUFFICES ASSUME Init, NEW e \in Event PROVE Spent(e)
  BY DEF BudgetInv
<1>1. /\ row[e].status = "absent" /\ row[e].attempts = 0 /\ faults = 0
      /\ \A c \in Consumers : held[c][e] = 0 /\ e \notin sel[c]
  BY DEF Init, NoneHeld
<1>2. ~Final(e) /\ Claims(e) = 0 /\ Ending(e) \in SUBSET Consumers /\ Low(e) = {}
  BY <1>1 DEF Final, Claims, Locked, Ending, Low
<1>3. Cardinality(Low(e)) = 0 /\ Cardinality(Ending(e)) \in Nat /\ Cardinality(Consumers) \in Nat
  BY <1>2, Counting, FS_EmptySet
<1> DEFINE m == NotLow(e)  x == Cardinality(Ending(e))
<1>4. m \in Nat
  BY <1>3 DEF NotLow
<1>5. 0 <= m * (m - 1) /\ m * (m - 1) \in Int
  BY <1>4, Products
<1>6. 2 * (0 - (MaxAttempts - 1) - 0 - x) <= m * (m - 1)
  <2> HIDE DEF m, x
  <2>1. QED
    BY <1>3, <1>5, OutboxAssumption DEF x
<1>7. QED
  BY <1>1, <1>2, <1>6 DEF Spent

LEMMA BudgetStep ==
    IInv /\ IInv' /\ PresentInv /\ BatchInv /\ BudgetInv /\ [Next]_vars => BudgetInv'
<1> SUFFICES ASSUME IInv, IInv', PresentInv, BatchInv, BudgetInv, [Next]_vars,
                    replays' = 0, NEW e \in Event
             PROVE  Spent(e)'
  BY DEF BudgetInv
<1>1. ~ReplayDead /\ replays = 0
  <2>1. \A n \in Nat : n + 1 # 0
    OBVIOUS
  <2>2. replays \in Nat
    BY OutboxAssumption DEF IInv, TypeOK
  <2>3. ~ReplayDead
    BY <2>1, <2>2 DEF ReplayDead
  <2>4. replays' = replays
    BY <2>3 DEF Next, Tick, Emit, Step, Work, SelectBatch, CommitClaim, AbortClaim,
                LoseClaimAnswer, TakeUp, EndBatch, HandlerReturns, RenewLease, Settle,
                SettleFails, Dropped, Exit, Restart, Shutdown, ForceStop, Crash, vars
  <2>5. QED
    BY <2>3, <2>4
<1>2. Spent(e)
  BY <1>1, SpentNow
<1>3. CASE Tick \/ UNCHANGED vars
  BY <1>2, <1>3, TickSpent
<1>4. CASE Emit
  BY <1>2, <1>4, EmitSpent
<1>5. ASSUME NEW c \in Consumers, Step(c) PROVE Spent(e)'
  BY <1>2, <1>5, QuietSteps, SelectSpent, CommitSpent, LeaveSpent, SettleSpent,
     SettleFailsSpent DEF Step, Work
<1>6. QED
  BY <1>1, <1>3, <1>4, <1>5 DEF Next

(* Bounded retries: whatever crashes, lost answers and overrun leases do,  *)
(* a row is claimed at most MaxAttempts - 1 times more than there were     *)
(* faults and n(n+1)/2 claims of the n consumers (claimBatch, fail).       *)
THEOREM ClaimsAreBounded == Spec => []AttemptBudget
<1>1. IInv /\ BudgetInv => AttemptBudget
  <2> SUFFICES ASSUME IInv, BudgetInv, replays = 0, NEW e \in Event
               PROVE  LET n == Cardinality(Consumers)
                      IN  row[e].attempts <= MaxAttempts - 1 + faults + (n * (n + 1)) \div 2
    BY DEF AttemptBudget
  <2> DEFINE n == Cardinality(Consumers)  b == n * (n + 1)
  <2>1. 2 * (row[e].attempts - (MaxAttempts - 1) - faults) <= b
    BY SpentNow, SpentBounds DEF Bound
  <2>2. n \in Nat /\ row[e].attempts \in Nat /\ faults \in Nat /\ MaxAttempts \in Nat
    BY Numbers
  <2>3. b \in Int
    BY <2>2
  <2> HIDE DEF n, b
  <2>4. row[e].attempts <= MaxAttempts - 1 + faults + b \div 2
    BY <2>1, <2>2, <2>3
  <2>5. QED
    BY <2>4 DEF n, b
<1>2. Init => BatchInv /\ BudgetInv
  BY BatchInit, BudgetInit
<1>3. QED
  BY <1>1, <1>2, BatchStep, BudgetStep, Invariance, PresentAlways, PTL DEF Spec

(* A dead letter leaves its state only by ReplayDead.                      *)
THEOREM DeadWaitsForReplay == Spec => DeadLeavesOnlyByReplay
<1>1. ASSUME IInv, [Next]_vars, NEW e \in Event, row[e].status = "dead",
             row'[e].status # "dead"
      PROVE  row'[e].status = "pending" /\ replays' = replays + 1
  <2>1. row'[e].status = "pending"
    BY <1>1, RowMoves DEF Moves
  <2>2. CASE ReplayDead
    BY <2>1, <2>2 DEF ReplayDead
  <2>3. ASSUME NEW c \in Consumers, Step(c) PROVE FALSE
    <3>1. ASSUME CommitClaim(c) \/ LoseClaimAnswer(c) PROVE FALSE
      <4>1. row' = ClaimedRow(c)
        BY <3>1 DEF CommitClaim, LoseClaimAnswer
      <4>2. e \notin sel[c]
        BY <1>1 DEF IInv, LockInv
      <4>3. QED
        BY <1>1, <4>1, <4>2, ClaimedRowFacts
    <3>2. ASSUME Settle(c) PROVE FALSE
      <4>1. PICK f \in cur[c] : ~Locked(f) /\ Settled(c, f)
        BY <3>2 DEF Settle
      <4>2. row'[e] # row[e] => row[e].status = "claimed"
        BY <1>1, <3>2, <4>1, SettledFacts DEF Settle
      <4>3. QED
        BY <1>1, <4>2
    <3>3. ASSUME RenewLease(c) PROVE FALSE
      <4>1. PICK f \in cur[c] : row[f].status = "claimed" /\ row' = [row EXCEPT ![f].age = 0]
        BY <3>3 DEF RenewLease
      <4>2. row \in [Event -> RowType] /\ f # e
        BY <1>1, <4>1 DEF IInv, TypeOK
      <4>3. row'[e] = row[e]
        BY <4>1, <4>2
      <4>4. QED
        BY <1>1, <4>3
    <3>4. row' # row
      BY <1>1
    <3>5. QED
      BY <2>3, <3>1, <3>2, <3>3, <3>4
         DEF Step, Work, SelectBatch, AbortClaim, TakeUp, EndBatch, HandlerReturns, Exit,
             Restart, SettleFails, Shutdown, ForceStop, Crash
  <2>4. CASE Tick
    BY <1>1, <2>4, AgedType DEF Tick, IInv, TypeOK
  <2>5. CASE Emit
    <3>1. PICK f \in Event : row[f].status = "absent" /\ row' = [row EXCEPT ![f].status = "pending"]
      BY <2>5 DEF Emit
    <3>2. row'[e] = row[e]
      BY <1>1, <3>1 DEF IInv, TypeOK
    <3>3. QED
      BY <1>1, <3>2
  <2>6. CASE UNCHANGED vars
    BY <1>1, <2>6 DEF vars
  <2>7. QED
    BY <1>1, <2>1, <2>2, <2>3, <2>4, <2>5, <2>6 DEF Next
<1>2. ASSUME IInv, [Next]_vars
      PROVE  [\A e \in Event : row[e].status = "dead" =>
                \/ row'[e].status = "dead"
                \/ row'[e].status = "pending" /\ replays' = replays + 1]_vars
  BY <1>1, <1>2
<1>3. QED
  BY <1>2, Invariance, PTL DEF Spec, DeadLeavesOnlyByReplay
=============================================================================
