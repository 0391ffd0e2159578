------------------------------ MODULE Proposals ------------------------------
(* Governed changes of one page: proposals are drafted against a revision,  *)
(* reviewed, checked for conflicts, applied as a change batch and rolled    *)
(* back (backend/internal/governance: service.go, review.go, conflict.go,   *)
(* conflict_resolution.go, resolved_operations.go, page_patch.go, apply.go, *)
(* rollback.go), while editors publish directly (page/publish.go).          *)
(*                                                                          *)
(* An API session is one Apply or Rollback call. Apply reads twice outside  *)
(* any transaction, to detect conflicts and to prepare the new content, and *)
(* writes in a third step; Rollback checks and writes in one transaction    *)
(* that holds the batch and the proposal, but not the page. Publishing      *)
(* itself is the subject of Revisions; here it is one step.                 *)
EXTENDS Naturals, Sequences, FiniteSets

CONSTANTS
    Ids,           \* proposals
    Blocks,        \* blocks of the page an operation can name
    Values,        \* contents of a block
    Absent,        \* "content" of a block the page does not have
    Untargeted,    \* target of an operation without a block_id (insert_block)
    NoHash,        \* expected_hash of an operation that carries none
    Editor,        \* author of direct publications
    Sessions,      \* concurrent Apply and Rollback calls
    MaxRevisions,  \* bound: revisions of the page
    MaxConflicts   \* bound: recorded conflicts of a proposal

ASSUME PageAssumption ==
    Absent \notin Values /\ Untargeted \notin Blocks /\ NoHash \notin Values \cup {Absent}
ASSUME EditorAssumption == Editor \notin Ids
ASSUME RevisionBound == MaxRevisions \in Nat \ {0}

VARIABLES
    history,    \* the page's revisions, the last one current
    proposal,   \* proposal, review_task and change_batch rows of each id
    conflicts,  \* merge_conflict rows of each proposal, oldest first
    session     \* what each API call has read

vars == <<history, proposal, conflicts, session>>

Content == [Blocks -> Values \cup {Absent}]
Targets == Blocks \cup {Untargeted}
Operation == [value : Values \cup {Absent}, hash : Values \cup {NoHash}]
NoOperations == [t \in {} |-> Absent]

Idle == [phase |-> "idle"]

Last == Len(history)
Current == history[Last].content
Operations(p) == proposal[p].ops

Init ==
    /\ history \in {<<[content |-> c, by |-> Editor, undo |-> FALSE]>> :
                      c \in [Blocks -> Values]}
    /\ proposal = [p \in Ids |-> [status |-> "none", base |-> 1, ops |-> NoOperations,
                                  review |-> "none", batch |-> "none"]]
    /\ conflicts = [p \in Ids |-> <<>>]
    /\ session = [s \in Sessions |-> Idle]

(* A Rollback transaction has the proposal row locked. *)
Locked(p) == \E s \in Sessions : session[s].phase = "undoing" /\ session[s].proposal = p

AppendRevision(c, author, isUndo) ==
    /\ Last < MaxRevisions
    /\ history' = Append(history, [content |-> c, by |-> author, undo |-> isUndo])

-----------------------------------------------------------------------------
(* Editors and authors.                                                    *)

(* An editor replaces, deletes or restores a block on the current revision. *)
Publish(b, v) ==
    /\ Current[b] # v
    /\ AppendRevision([Current EXCEPT ![b] = v], Editor, FALSE)
    /\ UNCHANGED <<proposal, conflicts, session>>

Draft(p) ==
    /\ proposal[p].status = "none"
    /\ proposal' = [proposal EXCEPT ![p].status = "draft", ![p].base = Last]
    /\ UNCHANGED <<history, conflicts, session>>

(* An operation on a block says by its hash which content it is to replace, *)
(* whatever the base has there, or carries no hash; an insertion has        *)
(* neither block nor hash.                                                 *)
AddOperation(p, t, op) ==
    /\ proposal[p].status = "draft"
    /\ t \notin DOMAIN Operations(p)
    /\ t = Untargeted => op = [value |-> Absent, hash |-> NoHash]
    /\ proposal' = [proposal EXCEPT ![p].ops =
                      [u \in DOMAIN @ \cup {t} |-> IF u = t THEN op ELSE @[u]]]
    /\ UNCHANGED <<history, conflicts, session>>

(* Submit freezes the operations; the risk policy approves the proposal or *)
(* queues one review task.                                                 *)
Submit(p, auto) ==
    /\ proposal[p].status = "draft" /\ Operations(p) # NoOperations
    /\ proposal' = [proposal EXCEPT ![p].status = IF auto THEN "approved" ELSE "in_review",
                                    ![p].review = IF auto THEN "auto" ELSE "pending"]
    /\ UNCHANGED <<history, conflicts, session>>

Decide(p, approve) ==
    /\ proposal[p].review = "pending" /\ proposal[p].status = "in_review"
    /\ LET verdict == IF approve THEN "approved" ELSE "rejected" IN
       proposal' = [proposal EXCEPT ![p].status = verdict, ![p].review = verdict]
    /\ UNCHANGED <<history, conflicts, session>>

-----------------------------------------------------------------------------
(* Conflicts.                                                              *)

IsOpen(c) == c.choice = "open"

(* A conflict settled against the revision that is still current is not    *)
(* raised again.                                                           *)
SettledNow(p, t) ==
    \E i \in DOMAIN conflicts[p] :
        LET c == conflicts[p][i] IN c.block = t /\ ~IsOpen(c) /\ c.current = Last

Hash(p, b) == Operations(p)[b].hash

(* Without a hash nothing matches.                                         *)
Matches(p, b) == Current[b] = Hash(p, b)

InConflict(p, t) == IF t = Untargeted THEN TRUE ELSE ~Matches(p, t) /\ ~SettledNow(p, t)

(* detectPage *)
Detected(p) ==
    IF Last = proposal[p].base THEN {} ELSE {t \in DOMAIN Operations(p) : InConflict(p, t)}

Detect(s, p) ==
    /\ session[s] = Idle
    /\ proposal[p].status = "approved"
    /\ session' = [session EXCEPT ![s] =
         IF Detected(p) = {} THEN [phase |-> "clear", proposal |-> p]
         ELSE [phase |-> "found", proposal |-> p, current |-> Last, blocks |-> Detected(p)]]
    /\ UNCHANGED <<history, proposal, conflicts>>

(* The rows of one detection, in some order of their targets. *)
Rows(found, current) ==
    {r \in [1 .. Cardinality(found) ->
              {[block |-> t, current |-> current, choice |-> "open"] : t \in found}] :
       \A i, j \in DOMAIN r : r[i] = r[j] => i = j}

(* DetectAndRecord's transaction, refused if the proposal moved on. *)
Record(s) ==
    LET p == session[s].proposal IN
    /\ session[s].phase = "found" /\ ~Locked(p)
    /\ session' = [session EXCEPT ![s] = Idle]
    /\ IF proposal[p].status = "approved"
       THEN /\ Len(conflicts[p]) + Cardinality(session[s].blocks) <= MaxConflicts
            /\ \E rows \in Rows(session[s].blocks, session[s].current) :
                 conflicts' = [conflicts EXCEPT ![p] = @ \o rows]
            /\ proposal' = [proposal EXCEPT ![p].status = "conflicted"]
       ELSE UNCHANGED <<proposal, conflicts>>
    /\ UNCHANGED history

NeverMind(rows) == \E i \in DOMAIN rows : ~IsOpen(rows[i])          \* mutation

NoneOpen(rows) == \A i \in DOMAIN rows : ~IsOpen(rows[i])

(* A human settles one conflict ("dismiss" acts as "current"); the last    *)
(* one reopens the way to Apply.                                           *)
Resolve(p, i, choice) ==
    LET rows == [conflicts[p] EXCEPT ![i].choice = choice] IN
    /\ proposal[p].status = "conflicted" /\ ~Locked(p) /\ IsOpen(conflicts[p][i])
    /\ conflicts' = [conflicts EXCEPT ![p] = rows]
    /\ proposal' = IF NoneOpen(rows) THEN [proposal EXCEPT ![p].status = "approved"]
                   ELSE proposal
    /\ UNCHANGED <<history, session>>

-----------------------------------------------------------------------------
(* Apply.                                                                  *)

(* The newest settled choice for a block, "none" without one. *)
Choice(p, b) ==
    LET settled == {i \in DOMAIN conflicts[p] :
                      conflicts[p][i].block = b /\ ~IsOpen(conflicts[p][i])}
    IN IF settled = {} THEN "none"
       ELSE conflicts[p][CHOOSE i \in settled : \A j \in settled : j <= i].choice

(* Operations left after the choices, and whether the patch engine takes   *)
(* one: choosing the proposal re-hashes whatever the block is now.         *)
Effective(p) == {b \in DOMAIN Operations(p) \cap Blocks : Choice(p, b) # "current"}

AnyBlock(p, b) == Current[b] # Absent                                \* mutation

Patchable(p, b) ==
    /\ Current[b] # Absent
    /\ Hash(p, b) = NoHash \/ Choice(p, b) = "proposed" \/ Matches(p, b)

Patched(p) ==
    [b \in Blocks |-> IF b \in Effective(p) THEN Operations(p)[b].value ELSE Current[b]]

(* preparePageContent reads the page a second time; an operation it cannot *)
(* patch ends the call.                                                    *)
Prepare(s) ==
    LET p == session[s].proposal IN
    /\ session[s].phase = "clear"
    /\ session' = [session EXCEPT ![s] =
         IF \A b \in Effective(p) : Patchable(p, b)
         THEN [phase |-> "prepared", proposal |-> p, expected |-> Last,
               content |-> Patched(p)]
         ELSE Idle]
    /\ UNCHANGED <<history, proposal, conflicts>>

HasApprovalEvidence(p) == proposal[p].review \in {"auto", "approved"}

HasEvidenceOnly(p) == HasApprovalEvidence(p)                         \* mutation

(* What Apply checks again under the proposal's lock. *)
MayApply(p) ==
    /\ proposal[p].batch = "none"
    /\ proposal[p].status = "approved"
    /\ HasApprovalEvidence(p)

(* Apply's transaction; a stale base undoes all of it. *)
Apply(s) ==
    LET p == session[s].proposal IN
    /\ session[s].phase = "prepared" /\ ~Locked(p)
    /\ session' = [session EXCEPT ![s] = Idle]
    /\ IF MayApply(p) /\ session[s].expected = Last
       THEN /\ AppendRevision(session[s].content, p, FALSE)
            /\ proposal' = [proposal EXCEPT ![p].status = "applied", ![p].batch = "applied"]
       ELSE UNCHANGED <<history, proposal>>
    /\ UNCHANGED conflicts

-----------------------------------------------------------------------------
(* Rollback of a change batch.                                             *)

Batch(p) == {i \in 1 .. Last : history[i].by = p /\ ~history[i].undo}

(* preflightRevisionSpans, under the locks of batch and proposal. *)
Preflight(s, p) ==
    /\ session[s] = Idle /\ ~Locked(p)
    /\ proposal[p].batch = "applied" /\ proposal[p].status = "applied"
    /\ Last \in Batch(p)
    /\ session' = [session EXCEPT ![s] = [phase |-> "undoing", proposal |-> p]]
    /\ UNCHANGED <<history, proposal, conflicts>>

BackTo(p) == (CHOOSE i \in Batch(p) : TRUE) - 1

(* RollbackInTx publishes the content before the batch on whatever is now  *)
(* the current revision.                                                   *)
Undo(s) ==
    LET p == session[s].proposal IN
    /\ session[s].phase = "undoing"
    /\ AppendRevision(history[BackTo(p)].content, p, TRUE)
    /\ proposal' = [proposal EXCEPT ![p].status = "rolled_back", ![p].batch = "rolled_back"]
    /\ session' = [session EXCEPT ![s] = Idle]
    /\ UNCHANGED conflicts

(* The caller goes away or the connection is lost; an open transaction is  *)
(* aborted.                                                                *)
Abandon(s) ==
    /\ session[s] # Idle
    /\ session' = [session EXCEPT ![s] = Idle]
    /\ UNCHANGED <<history, proposal, conflicts>>

-----------------------------------------------------------------------------
Next ==
    \/ \E b \in Blocks, v \in Values \cup {Absent} : Publish(b, v)
    \/ \E p \in Ids :
         \/ Draft(p)
         \/ \E t \in Targets, op \in Operation : AddOperation(p, t, op)
         \/ \E auto \in BOOLEAN : Submit(p, auto)
         \/ \E approve \in BOOLEAN : Decide(p, approve)
         \/ \E i \in DOMAIN conflicts[p], choice \in {"current", "proposed"} :
              Resolve(p, i, choice)
         \/ \E s \in Sessions : Detect(s, p) \/ Preflight(s, p)
    \/ \E s \in Sessions :
         \/ Record(s) \/ Prepare(s) \/ Apply(s)
         \/ Undo(s) \/ Abandon(s)

Spec == Init /\ [][Next]_vars

-----------------------------------------------------------------------------
(* Properties.                                                             *)

(* Types of the rows and of what the calls have read. *)
TypeOK ==
    /\ history \in Seq([content : Content, by : Ids \cup {Editor}, undo : BOOLEAN])
    /\ Last \in 1 .. MaxRevisions
    /\ \A p \in Ids :
         /\ proposal[p].status \in {"none", "draft", "in_review", "approved", "rejected",
                                    "conflicted", "applied", "rolled_back"}
         /\ proposal[p].base \in 1 .. Last
         /\ DOMAIN Operations(p) \subseteq Targets
         /\ proposal[p].review \in {"none", "pending", "auto", "approved", "rejected"}
         /\ proposal[p].batch \in {"none", "applied", "rolled_back"}
         /\ conflicts[p] \in Seq([block : Targets, current : 1 .. Last,
                                  choice : {"open", "current", "proposed"}])
    /\ \A s \in Sessions :
         session[s].phase \in {"idle", "clear", "found", "prepared", "undoing"}

ChoseProposal(p, b) ==
    \E j \in DOMAIN conflicts[p] :
        conflicts[p][j].block = b /\ conflicts[p][j].choice = "proposed"

(* A batch changes only blocks its operations name, to the proposed value, *)
(* and only where the block still is what the operation's hash says, or a  *)
(* human chose the proposal in a conflict: whatever was published between  *)
(* detection, preparation and commit, no edit disappears unnoticed under   *)
(* an operation that carries a hash (NothingIsOverwrittenBlindly is about the others).   *)
OverwritesAreChosen ==
    \A p \in Ids : \A i \in Batch(p) : \A b \in Blocks :
        history[i].content[b] # history[i - 1].content[b] =>
            /\ b \in DOMAIN Operations(p)
            /\ history[i].content[b] = Operations(p)[b].value
            /\ Hash(p, b) \in {NoHash, history[i - 1].content[b]} \/ ChoseProposal(p, b)

(* However many calls apply or roll back a proposal, it has at most one    *)
(* batch revision and one compensation, and its rows say which.            *)
AppliedOnce ==
    \A p \in Ids :
        LET undone == {i \in 1 .. Last : history[i].by = p /\ history[i].undo} IN
        /\ Cardinality(Batch(p)) = IF proposal[p].batch = "none" THEN 0 ELSE 1
        /\ Cardinality(undone) = IF proposal[p].batch = "rolled_back" THEN 1 ELSE 0
        /\ proposal[p].batch # "none" => proposal[p].status = proposal[p].batch

(* A proposal waits for a human exactly while a conflict is open: none is  *)
(* applied, or applicable, past an open conflict.                          *)
OpenConflictsBlock ==
    \A p \in Ids :
        (\E i \in DOMAIN conflicts[p] : IsOpen(conflicts[p][i]))
            <=> proposal[p].status = "conflicted"

(* rollback.go:18: a batch followed by newer changes is not rolled back    *)
(* silently.                                                               *)
RollbackIsNotStale ==
    \A i \in 2 .. Last : history[i].undo =>
        history[i - 1].by = history[i].by /\ ~history[i - 1].undo

(* A value a human gave up for the proposal is one the conflict showed.    *)
ChoicesWereSeen ==
    \A p \in Ids : \A i \in Batch(p) : \A b \in Blocks :
        /\ history[i].content[b] # history[i - 1].content[b]
        /\ Hash(p, b) \notin {NoHash, history[i - 1].content[b]}
        => \E j \in DOMAIN conflicts[p] :
             LET c == conflicts[p][j] IN
             /\ c.block = b /\ c.choice = "proposed"
             /\ history[c.current].content[b] = history[i - 1].content[b]

(* Docs/WikiImplementationPlan.md:402: a change made on a stale base does   *)
(* not silently overwrite the current revision.                            *)
NothingIsOverwrittenBlindly ==
    \A p \in Ids : \A i \in Batch(p) : \A b \in Blocks :
        history[i].content[b] # history[i - 1].content[b] =>
            \/ history[i - 1].content[b] = history[proposal[p].base].content[b]
            \/ Hash(p, b) = history[i - 1].content[b]
            \/ ChoseProposal(p, b)

(* What a human chose to keep in the newest conflict about a block is not   *)
(* overwritten by a call that had prepared before (apply.go:148).          *)
KeptIsKept ==
    \A p \in Ids : \A i \in Batch(p) : \A b \in Blocks :
        history[i].content[b] # history[i - 1].content[b] => Choice(p, b) # "current"
=============================================================================
