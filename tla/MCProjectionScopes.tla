------------------------- MODULE MCProjectionScopes -------------------------
(* Two instances of Projection in one run: a behaviour is "concurrent"     *)
(* (two workers and an operator's rebuild, two revisions, one fault) or    *)
(* "serial" (no two of them at work at once and no rebuild, three          *)
(* revisions, two faults), and stays so.                                   *)
EXTENDS MCProjection

VARIABLE scope

ConcurrentBounds == current <= 2 /\ faults <= 1

Within == IF scope = "serial" THEN OneAtATime ELSE ConcurrentBounds

ScopedInit == Init /\ scope \in {"concurrent", "serial"}

ScopedSpec == ScopedInit /\ [][Next /\ UNCHANGED scope /\ Within']_<<vars, scope>>

(* With no two workers at work at once and no rebuild beside them, every    *)
(* projection ends at the current revision, whatever failed and was        *)
(* retried, and its bookkeeping says so (builder.go, HandleRebuildEvent).  *)
SerialProjectionsConverge == scope = "serial" => ProjectionsConverge

(* Likewise nothing is left of a deleted page once its deletion is handled: *)
(* events that arrive late do not bring rows back (page_deleted.go).       *)
SerialDeletedLeavesNothing == scope = "serial" => DeletedLeavesNothing
=============================================================================
