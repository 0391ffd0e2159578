---------------------------- MODULE MCOutboxScopes ----------------------------
(* Two instances of Outbox in one run: a behaviour is of "two" rows and no  *)
(* faults or replays, or of "one" row with a fault and a replay, and stays  *)
(* so.                                                                     *)
EXTENDS MCOutbox

VARIABLE scope

Within ==
    CASE scope = "two" -> faults = 0 /\ replays = 0
      [] scope = "one" -> row[2].status = "absent"

ScopedNext == Next /\ UNCHANGED scope /\ Within'

ScopedInit == Init /\ scope \in {"two", "one"}

(* Only rows emitted, faults and replays are bounded: Fairness promises     *)
(* none of them.                                                           *)
ScopedSpec == ScopedInit /\ [][ScopedNext]_<<vars, scope>> /\ Fairness
=============================================================================
