------------------------------ MODULE Delivery ------------------------------
(***************************************************************************)
(* What the outbox promises the rest of the system (package comment of     *)
(* backend/internal/projection/consumer.go): an event recorded with a      *)
(* business change is delivered at least once before it is closed, or is   *)
(* buried as a dead letter that an operator may reopen.  Duplicate and     *)
(* late deliveries are allowed; handlers must be idempotent.               *)
(***************************************************************************)
CONSTANT Events

VARIABLES
    state,      \* [Events -> {"none", "open", "done", "dead"}]
    delivered   \* events whose handler has succeeded at least once

vars == <<state, delivered>>

Init ==
    /\ state = [e \in Events |-> "none"]
    /\ delivered = {}

Record(e) ==
    /\ state[e] = "none"
    /\ state' = [state EXCEPT ![e] = "open"]
    /\ UNCHANGED delivered

(* Handlers may be given several events at once, and again later on.       *)
Deliver(S) ==
    /\ \A e \in S : state[e] # "none"
    /\ delivered' = delivered \cup S
    /\ UNCHANGED state

Close(e) ==
    /\ state[e] = "open"
    /\ e \in delivered
    /\ state' = [state EXCEPT ![e] = "done"]
    /\ UNCHANGED delivered

Bury(e) ==
    /\ state[e] = "open"
    /\ state' = [state EXCEPT ![e] = "dead"]
    /\ UNCHANGED delivered

Reopen ==
    /\ state' = [e \in Events |-> IF state[e] = "dead" THEN "open" ELSE state[e]]
    /\ UNCHANGED delivered

Next ==
    \/ \E e \in Events : Record(e) \/ Close(e) \/ Bury(e)
    \/ \E S \in SUBSET Events : Deliver(S)
    \/ Reopen

Spec == Init /\ [][Next]_vars
=============================================================================
