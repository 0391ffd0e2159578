------------------------------- MODULE Outbox -------------------------------
(***************************************************************************)
(* The outbox consumer of backend/internal/projection/consumer.go: worker  *)
(* processes lease rows of outbox_event, run a handler outside the lease   *)
(* transaction, and settle each row as done, pending again (backoff) or    *)
(* dead.  One consumer per worker process; any number of processes share   *)
(* the table.                                                              *)
(*                                                                         *)
(* Time is relative: a claimed row carries the age of its claim            *)
(* (now - claimed_at, saturating just past the lease) and every row the    *)
(* time left until next_attempt_at.  Tick advances both, so the state      *)
(* space is finite without a bound on the clock.                           *)
(*                                                                         *)
(* A claim is one transaction of two steps (SELECT ... FOR UPDATE SKIP     *)
(* LOCKED, then UPDATE and COMMIT): the row locks held between them are    *)
(* the variable sel.  Handlers are external: they return success or an     *)
(* error after any delay.                                                  *)
(***************************************************************************)
EXTENDS Integers, FiniteSets

CONSTANTS
    NumEvents,       \* rows ever inserted; row e is the e-th by created_at
    Consumers,       \* worker processes
    BatchSize,       \* Config.BatchSize
    LeaseDuration,   \* Config.LeaseDuration, in ticks
    MaxAttempts,     \* Config.MaxAttempts
    BackoffBase,     \* Config.BackoffBase, in ticks
    BackoffCap,      \* backoffCap, in ticks
    BatchRouted,     \* rows whose event type has a BatchHandler
    HandlersRenew,   \* whether handlers call RenewLease while they run
    AttemptBound,    \* model bound: claims of one row
    MaxFaults,       \* model bound: crashes, shutdowns and lost answers
    MaxReplays       \* model bound: ReplayDead calls

Event == 1 .. NumEvents
Status == {"absent", "pending", "claimed", "done", "dead"}
Phase == {"idle", "claiming", "batch", "handle", "settle"}
Mode == {"up", "draining", "forced", "down"}

(* backoff adds a jitter of a tenth either way to the capped delay.        *)
MaxWait == BackoffCap + BackoffCap \div 10

ASSUME OutboxAssumption ==
    /\ NumEvents \in Nat
    /\ IsFiniteSet(Consumers)
    /\ BatchSize \in Nat \ {0}
    /\ LeaseDuration \in Nat
    /\ MaxAttempts \in Nat \ {0}
    /\ BackoffBase \in Nat
    /\ BackoffCap \in Nat
    /\ BatchRouted \subseteq Event
    /\ HandlersRenew \in BOOLEAN
    /\ AttemptBound \in Nat
    /\ MaxFaults \in Nat
    /\ MaxReplays \in Nat

VARIABLES
    row,      \* outbox_event: [Event -> [status, attempts, age, wait]]
    phase,    \* where each consumer's loop stands
    mode,     \* up; draining (ctx cancelled); forced (workCtx cancelled); down
    sel,      \* rows locked by the consumer's open claim transaction
    held,     \* the batch in memory: Event.AttemptCount, 0 = not in it
    cur,      \* the events the running handler call was given
    result,   \* what that call returned
    applied,  \* history: events some handler call has succeeded for
    faults,   \* crashes, shutdowns and lost answers so far
    replays   \* ReplayDead calls so far

vars == <<row, phase, mode, sel, held, cur, result, applied, faults, replays>>

NoneHeld == [e \in Event |-> 0]

Init ==
    /\ row = [e \in Event |->
                [status |-> "absent", attempts |-> 0, age |-> 0, wait |-> 0]]
    /\ phase = [c \in Consumers |-> "idle"]
    /\ mode = [c \in Consumers |-> "up"]
    /\ sel = [c \in Consumers |-> {}]
    /\ held = [c \in Consumers |-> NoneHeld]
    /\ cur = [c \in Consumers |-> {}]
    /\ result = [c \in Consumers |-> "ok"]
    /\ applied = {}
    /\ faults = 0
    /\ replays = 0

-----------------------------------------------------------------------------
(* Delays.                                                                 *)

(* The loop of backoff: double the base attempt-1 times, stopping once the *)
(* cap is reached.                                                         *)
Doubled[n \in Nat] ==
    IF n <= 1 THEN BackoffBase
    ELSE IF Doubled[n - 1] < BackoffCap THEN 2 * Doubled[n - 1]
    ELSE Doubled[n - 1]

Backoff(n) == IF Doubled[n] > BackoffCap THEN BackoffCap ELSE Doubled[n]

Jittered(d) == {w \in 0 .. MaxWait : d - d \div 10 <= w /\ w <= d + d \div 10}

LeaseExpired(e) == row[e].age > LeaseDuration

(* One tick of the database clock, as far as it can matter to some row.    *)
Aged(r) ==
    [r EXCEPT !.age = IF r.status = "claimed" /\ @ <= LeaseDuration
                      THEN @ + 1 ELSE @,
              !.wait = IF @ > 0 THEN @ - 1 ELSE @]

Tick ==
    /\ row' = [e \in Event |-> Aged(row[e])]
    /\ row' # row
    /\ UNCHANGED <<phase, mode, sel, held, cur, result, applied, faults, replays>>

-----------------------------------------------------------------------------
(* Claiming.                                                               *)

Emit ==
    \E e \in Event :
        /\ row[e].status = "absent"
        /\ \A f \in Event : f < e => row[f].status # "absent"
        /\ row' = [row EXCEPT ![e].status = "pending"]
        /\ UNCHANGED <<phase, mode, sel, held, cur, result, applied, faults, replays>>

Locked(e) == \E c \in Consumers : e \in sel[c]

DueWhenPending(e) ==                  \* mutation
    row[e].wait = 0 /\ row[e].status = "pending"

Due(e) ==
    /\ row[e].wait = 0
    /\ \/ row[e].status = "pending"
       \/ row[e].status = "claimed" /\ LeaseExpired(e)

ClaimableEvenLocked == {e \in Event : Due(e)}  \* mutation

Claimable == {e \in Event : Due(e) /\ ~Locked(e)}

Oldest(S, n) == {e \in S : Cardinality({f \in S : f < e}) < n}

(* SELECT ... ORDER BY created_at LIMIT n FOR UPDATE SKIP LOCKED.  The     *)
(* copies read here (attempt_count, incremented after the commit) are what *)
(* the handlers and fail will see.  An empty answer just polls again.      *)
SelectBatch(c) ==
    /\ mode[c] = "up" /\ phase[c] = "idle"
    /\ Claimable # {}
    /\ LET S == Oldest(Claimable, BatchSize)
       IN /\ sel' = [sel EXCEPT ![c] = S]
          /\ held' = [held EXCEPT ![c] =
                        [e \in Event |-> IF e \in S THEN row[e].attempts + 1 ELSE 0]]
          /\ \A e \in S : row[e].attempts < AttemptBound
    /\ phase' = [phase EXCEPT ![c] = "claiming"]
    /\ UNCHANGED <<row, mode, cur, result, applied, faults, replays>>

Claimed(r) ==
    [status |-> "claimed", attempts |-> r.attempts + 1, age |-> 0, wait |-> r.wait]

ClaimedRow(c) == [e \in Event |-> IF e \in sel[c] THEN Claimed(row[e]) ELSE row[e]]

(* A claim cut off by the cancelled ctx or a database error rolls back.    *)
AbortClaim(c) ==
    /\ phase[c] = "claiming"
    /\ \/ mode[c] # "up" /\ UNCHANGED faults
       \/ mode[c] = "up" /\ faults < MaxFaults /\ faults' = faults + 1
    /\ sel' = [sel EXCEPT ![c] = {}]
    /\ held' = [held EXCEPT ![c] = NoneHeld]
    /\ phase' = [phase EXCEPT ![c] = "idle"]
    /\ UNCHANGED <<row, mode, cur, result, applied, replays>>

(* A cancellation may come too late to stop the commit.                    *)
CommitClaim(c) ==
    /\ phase[c] = "claiming"
    /\ row' = ClaimedRow(c)
    /\ sel' = [sel EXCEPT ![c] = {}]
    /\ phase' = [phase EXCEPT ![c] = "batch"]
    /\ UNCHANGED <<mode, held, cur, result, applied, faults, replays>>

(* The commit took effect but its answer was lost: claimBatch returns an   *)
(* error, and nobody holds the rows it claimed.                            *)
LoseClaimAnswer(c) ==
    /\ phase[c] = "claiming"
    /\ faults < MaxFaults
    /\ row' = ClaimedRow(c)
    /\ sel' = [sel EXCEPT ![c] = {}]
    /\ held' = [held EXCEPT ![c] = NoneHeld]
    /\ phase' = [phase EXCEPT ![c] = "idle"]
    /\ faults' = faults + 1
    /\ UNCHANGED <<mode, cur, result, applied, replays>>

-----------------------------------------------------------------------------
(* Processing a batch, in created_at order.                                *)

Remaining(c) == {e \in Event : held[c][e] > 0}

First(e, S) == e \in S /\ \A f \in S : e <= f

(* processBatch: the next event, together with every later event of the    *)
(* batch its BatchHandler also takes.                                      *)
TakeUp(c) ==
    /\ phase[c] = "batch" /\ mode[c] # "forced"
    /\ \E e \in Remaining(c) :
         /\ First(e, Remaining(c))
         /\ cur' = [cur EXCEPT ![c] = IF e \in BatchRouted
                                      THEN Remaining(c) \cap BatchRouted
                                      ELSE {e}]
    /\ phase' = [phase EXCEPT ![c] = "handle"]
    /\ UNCHANGED <<row, mode, sel, held, result, applied, faults, replays>>

(* The batch is finished, or given up because workCtx is cancelled: what   *)
(* is left of it stays claimed until its lease runs out.                   *)
EndBatch(c) ==
    /\ phase[c] = "batch"
    /\ Remaining(c) = {} \/ mode[c] = "forced"
    /\ held' = [held EXCEPT ![c] = NoneHeld]
    /\ phase' = [phase EXCEPT ![c] = "idle"]
    /\ UNCHANGED <<row, mode, sel, cur, result, applied, faults, replays>>

HandlerReturns(c, r) ==
    /\ phase[c] = "handle"
    /\ result' = [result EXCEPT ![c] = r]
    /\ applied' = IF r = "ok" THEN applied \cup cur[c] ELSE applied
    /\ phase' = [phase EXCEPT ![c] = "settle"]
    /\ UNCHANGED <<row, mode, sel, held, cur, faults, replays>>

RenewLease(c) ==
    /\ HandlersRenew
    /\ phase[c] = "handle"
    /\ \E e \in cur[c] :
         /\ ~Locked(e)
         /\ row[e].status = "claimed"
         /\ row' = [row EXCEPT ![e].age = 0]
    /\ UNCHANGED <<phase, mode, sel, held, cur, result, applied, faults, replays>>

-----------------------------------------------------------------------------
(* Settling: one UPDATE per event, guarded by status = 'claimed' only.     *)

StillClaimedOrDead(e) == row[e].status \in {"claimed", "dead"}  \* mutation

StillClaimed(e) == row[e].status = "claimed"

Done(r) == [r EXCEPT !.status = "done"]

ExhaustedLate(n) == n > MaxAttempts  \* mutation

Exhausted(n) == n >= MaxAttempts

(* fail also sets claimed_at to NULL: the age is forgotten.                *)
Failed(r, n, w) ==
    [status |-> IF Exhausted(n) THEN "dead" ELSE "pending",
     attempts |-> r.attempts, age |-> 0, wait |-> w]

ResultIgnored(c) == TRUE                        \* mutation

(* processOne and processMany: markDone after nil, fail after an error.    *)
ResultOk(c) == result[c] = "ok"

Settled(c, e) ==
    IF ~StillClaimed(e) THEN row' = row
    ELSE IF ResultOk(c) THEN row' = [row EXCEPT ![e] = Done(@)]
    ELSE \E w \in Jittered(Backoff(held[c][e])) :
            row' = [row EXCEPT ![e] = Failed(@, held[c][e], w)]

Dropped(c, e) ==
    /\ held' = [held EXCEPT ![c][e] = 0]
    /\ cur' = [cur EXCEPT ![c] = @ \ {e}]
    /\ phase' = [phase EXCEPT ![c] = IF cur[c] = {e} THEN "batch" ELSE "settle"]
    /\ UNCHANGED <<mode, sel, result, applied, replays>>

(* The UPDATE waits for a claim transaction that has the row locked.       *)
Settle(c) ==
    /\ phase[c] = "settle" /\ mode[c] # "forced"
    /\ \E e \in cur[c] :
         /\ First(e, cur[c])
         /\ ~Locked(e)
         /\ Settled(c, e)
         /\ Dropped(c, e)
    /\ UNCHANGED faults

(* The UPDATE fails (always, once workCtx is cancelled): a warning is      *)
(* logged and the row stays as it is.                                      *)
SettleFails(c) ==
    /\ phase[c] = "settle"
    /\ \/ mode[c] = "forced" /\ UNCHANGED faults
       \/ faults < MaxFaults /\ faults' = faults + 1
    /\ \E e \in cur[c] : First(e, cur[c]) /\ Dropped(c, e)
    /\ UNCHANGED row

-----------------------------------------------------------------------------
(* Processes and operators.                                                *)

(* ctx is cancelled: no further batch is claimed.                          *)
Shutdown(c) ==
    /\ mode[c] = "up" /\ faults < MaxFaults
    /\ mode' = [mode EXCEPT ![c] = "draining"]
    /\ faults' = faults + 1
    /\ UNCHANGED <<row, phase, sel, held, cur, result, applied, replays>>

(* ShutdownTimeout passes while a batch is in flight.                      *)
ForceStop(c) ==
    /\ mode[c] = "draining"
    /\ mode' = [mode EXCEPT ![c] = "forced"]
    /\ UNCHANGED <<row, phase, sel, held, cur, result, applied, faults, replays>>

Exit(c) ==
    /\ mode[c] \in {"draining", "forced"} /\ phase[c] = "idle"
    /\ mode' = [mode EXCEPT ![c] = "down"]
    /\ UNCHANGED <<row, phase, sel, held, cur, result, applied, faults, replays>>

(* The process dies: its open transaction rolls back, its batch is lost.   *)
Crash(c) ==
    /\ mode[c] # "down" /\ faults < MaxFaults
    /\ mode' = [mode EXCEPT ![c] = "down"]
    /\ phase' = [phase EXCEPT ![c] = "idle"]
    /\ sel' = [sel EXCEPT ![c] = {}]
    /\ held' = [held EXCEPT ![c] = NoneHeld]
    /\ cur' = [cur EXCEPT ![c] = {}]
    /\ faults' = faults + 1
    /\ UNCHANGED <<row, result, applied, replays>>

Restart(c) ==
    /\ mode[c] = "down"
    /\ mode' = [mode EXCEPT ![c] = "up"]
    /\ UNCHANGED <<row, phase, sel, held, cur, result, applied, faults, replays>>

Dead == {e \in Event : row[e].status = "dead"}

(* ops.go ReplayDead: every dead row starts over.                          *)
ReplayDead ==
    /\ Dead # {} /\ replays < MaxReplays
    /\ row' = [e \in Event |->
                 IF e \in Dead
                 THEN [status |-> "pending", attempts |-> 0, age |-> 0, wait |-> 0]
                 ELSE row[e]]
    /\ replays' = replays + 1
    /\ UNCHANGED <<phase, mode, sel, held, cur, result, applied, faults>>

Work(c) ==
    \/ SelectBatch(c) \/ CommitClaim(c)
    \/ TakeUp(c) \/ EndBatch(c)
    \/ \E r \in {"ok", "error"} : HandlerReturns(c, r)
    \/ Settle(c) \/ Exit(c) \/ Restart(c)

Step(c) ==
    \/ Work(c) \/ AbortClaim(c) \/ LoseClaimAnswer(c) \/ SettleFails(c)
    \/ RenewLease(c)
    \/ Shutdown(c) \/ ForceStop(c) \/ Crash(c)

Next ==
    \/ Tick \/ Emit \/ ReplayDead
    \/ \E c \in Consumers : Step(c)

Spec == Init /\ [][Next]_vars

(* Run loops for as long as the process lives, a handler returns, a        *)
(* supervisor restarts the worker, and clocks advance.  Nothing is assumed *)
(* of how long a handler takes, of RenewLease or of operators.             *)
Fairness ==
    /\ WF_vars(Tick)
    /\ \A c \in Consumers :
         /\ WF_vars(Work(c))
         /\ WF_vars(mode[c] = "forced" /\ SettleFails(c))

-----------------------------------------------------------------------------
(* The delivery contract the package comment promises its callers.         *)

Promised(status) ==
    CASE status = "absent" -> "none"
      [] status \in {"pending", "claimed"} -> "open"
      [] OTHER -> status

promise == [e \in Event |-> Promised(row[e].status)]

Contract == INSTANCE Delivery WITH
    Events <- Event, state <- promise, delivered <- applied

(* Refinement: the leased, retried, crash-prone table implements           *)
(* at-least-once delivery with dead letters (consumer.go:7-14).            *)
ImplementsDelivery == Contract!Spec

-----------------------------------------------------------------------------
(* Properties.                                                             *)

RowType ==
    [status : Status, attempts : 0 .. AttemptBound,
     age : 0 .. LeaseDuration + 1, wait : 0 .. MaxWait]

(* Types of outbox_event rows and of the consumer's in-memory batch.       *)
TypeOK ==
    /\ row \in [Event -> RowType]
    /\ phase \in [Consumers -> Phase]
    /\ mode \in [Consumers -> Mode]
    /\ sel \in [Consumers -> SUBSET Event]
    /\ held \in [Consumers -> [Event -> 0 .. AttemptBound]]
    /\ cur \in [Consumers -> SUBSET Event]
    /\ result \in [Consumers -> {"ok", "error"}]
    /\ applied \subseteq Event
    /\ faults \in 0 .. MaxFaults
    /\ replays \in 0 .. MaxReplays

(* At least once: markDone reaches a row only after some handler call for  *)
(* it succeeded, whatever crashes, expired leases and stale consumers do.  *)
DoneMeansHandled == \A e \in Event : row[e].status = "done" => e \in applied

(* Claims are exclusive: until an operator resets attempt_count, two       *)
(* consumers that hold the same event (the lease of one ran out) hold it   *)
(* under different attempt counts, so no two claims of claimBatch ever     *)
(* take the same row at the same time.                                     *)
ClaimsAreExclusive ==
    replays = 0 =>
        \A c, d \in Consumers : \A e \in Event :
            c # d /\ held[c][e] > 0 => held[c][e] # held[d][e]

(* Final states are final: a stale consumer's markDone or fail never       *)
(* reopens a done row, and only ReplayDead reopens a dead one.             *)
DoneIsFinal ==
    [][\A e \in Event : row[e].status = "done" => row'[e].status = "done"]_vars

DeadLeavesOnlyByReplay ==
    [][\A e \in Event : row[e].status = "dead" =>
         \/ row'[e].status = "dead"
         \/ row'[e].status = "pending" /\ replays' = replays + 1]_vars

(* The true number of claims of a row, which fail's comparison of          *)
(* MaxAttempts with the count it remembers does not keep below it: each    *)
(* fault may waste a claim, and each other consumer that still holds the   *)
(* row under a small count may put it back once, wasting the claims made   *)
(* under larger ones meanwhile.                                            *)
AttemptBudget ==
    replays = 0 =>
        LET n == Cardinality(Consumers)
        IN  \A e \in Event :
              row[e].attempts <= MaxAttempts - 1 + faults + (n * (n + 1)) \div 2

(* Progress: an emitted event ends as done or dead, however often workers  *)
(* crash, shut down, lose answers or overrun their leases (finitely often).*)
EventuallySettled ==
    \A e \in Event :
        row[e].status \in {"pending", "claimed"} ~> row[e].status \in {"done", "dead"}

(* A failed event is retried after base * 2^(attempt-1), capped and with a  *)
(* tenth of jitter, as backoff's comment says of its loop; the attempt is  *)
(* the one the settling consumer made, not the row's.                      *)
RetriesBackOff ==
    [][\A c \in Consumers, e \in Event :
         (/\ held[c][e] > 0 /\ held'[c][e] = 0
          /\ row[e].status = "claimed" /\ row'[e].status = "pending")
         => LET d == BackoffBase * 2 ^ (held[c][e] - 1)
                n == IF d > BackoffCap THEN BackoffCap ELSE d
            IN row'[e].wait \in (n - n \div 10) .. (n + n \div 10)]_vars

(* consumer.go:100: "MaxAttempts is the largest number of attempts (the    *)
(* first included); on reaching it the event becomes a dead letter."       *)
AttemptsWithinMax == \A e \in Event : row[e].attempts <= MaxAttempts

(* consumer.go:55: a consumer whose lease ran out and was taken over by    *)
(* another learns of it (ErrLeaseLost) when it settles: it must not settle *)
(* an event that is claimed under a later attempt.                         *)
OnlyTheHolderSettles ==
    [][\A c \in Consumers : \A e \in Event :
         (phase[c] = "settle" /\ held'[c][e] # held[c][e] /\ row'[e] # row[e])
            => held[c][e] = row[e].attempts]_vars
=============================================================================
