------------------------- MODULE MCEntityMergeScopes -------------------------
(* Three instances of EntityMerge in one run: a behaviour is "concurrent"   *)
(* (two transactions at a time; of the property with one value, two         *)
(* written claims and a merge or one claim and two merges), "serial" (one   *)
(* transaction at a time, one written claim of the property with many       *)
(* values, three merges) or "labels" (one transaction at a time, a label,   *)
(* no claims and two merges), and stays so.                                *)
EXTENDS MCEntityMerge

VARIABLE scope

Begun == Merges \ Unused
Copies == {x.new : x \in UNION {merge[m].claims : m \in Merges}}
Writing == {w \in Writers : Doing(w, "count") \/ Doing(w, "write")}
Written == Cardinality((Claims \ Fresh) \ Copies) + Cardinality(Writing)

NoLabels == \A e \in Entities : labels[e] = {}

Bounds ==
    CASE scope = "concurrent" ->
            /\ NoLabels
            /\ Written + Cardinality(Begun) <= 3 /\ Written <= 2
            /\ \A w \in Writing : writer[w].claim.property = one
      [] scope = "serial" ->
            /\ NoLabels /\ Written <= 1 /\ OneAtATime
            /\ \A w \in Writing : writer[w].claim.property = many
      [] scope = "labels" -> Written = 0 /\ Cardinality(Begun) <= 2 /\ OneAtATime

ScopedInit == Init /\ scope \in {"concurrent", "serial", "labels"} /\ Bounds

ScopedNext ==
    /\ UNCHANGED scope
    /\ Next /\ Bounds'
    /\ scope # "concurrent" => Alone

ScopedSpec == ScopedInit /\ [][ScopedNext]_<<vars, scope>>

(* One transaction at a time, a current claim is about active entities,     *)
(* however merges, their rollbacks and the deletion of entities follow one  *)
(* another (RollbackEntityMergeInTx refuses with ErrEntityMergeStale when   *)
(* a claim it would restore has moved on).                                 *)
SerialClaimsAreLive == scope # "concurrent" => ClaimsAreLive
=============================================================================
