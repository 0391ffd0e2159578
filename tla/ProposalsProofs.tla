--------------------------- MODULE ProposalsProofs ---------------------------
(* Theorems about Proposals for any proposals, blocks, contents, calls and  *)
(* bounds.                                                                  *)
EXTENDS Proposals, WellFoundedInduction, SequenceTheorems, FiniteSetTheorems, TLAPS

(* The rows, and what a call has read, field by field.                     *)
Revision == [content : Content, by : Ids \cup {Editor}, undo : BOOLEAN]
OperationSets == UNION {[D -> Operation] : D \in SUBSET Targets}
Statuses == {"none", "draft", "in_review", "approved", "rejected", "conflicted",
             "applied", "rolled_back"}
ProposalRows ==
    [status : Statuses, base : Nat \ {0}, ops : OperationSets,
     review : {"none", "pending", "auto", "approved", "rejected"},
     batch : {"none", "applied", "rolled_back"}]
ConflictRows == [block : Targets, current : Nat \ {0}, choice : {"open", "current", "proposed"}]
SessionStates ==
    {Idle}
    \cup [phase : {"clear", "undoing"}, proposal : Ids]
    \cup [phase : {"found"}, proposal : Ids, current : Nat \ {0}, blocks : SUBSET Targets]
    \cup [phase : {"prepared"}, proposal : Ids, expected : Nat \ {0}, content : Content]

Types ==
    /\ history \in Seq(Revision) /\ Last \in 1 .. MaxRevisions
    /\ proposal \in [Ids -> ProposalRows]
    /\ conflicts \in [Ids -> Seq(ConflictRows)]
    /\ session \in [Sessions -> SessionStates]

(* No row refers to a revision that does not exist yet.                    *)
References ==
    \A p \in Ids :
        /\ proposal[p].base <= Last
        /\ IsFiniteSet(DOMAIN proposal[p].ops)
        /\ \A i \in DOMAIN conflicts[p] : conflicts[p][i].current <= Last

(* From here on the operations and the base of a proposal are frozen.      *)
Submitted(p) == proposal[p].status \in {"approved", "conflicted", "applied", "rolled_back"}

(* Going from one content to the other takes only p's operations, on       *)
(* blocks that are what the hash says or were chosen by a human.           *)
Chosen(p, before, after) ==
    \A b \in Blocks : after[b] # before[b] =>
        /\ b \in DOMAIN proposal[p].ops
        /\ after[b] = proposal[p].ops[b].value
        /\ proposal[p].ops[b].hash \in {NoHash, before[b]} \/ ChoseProposal(p, b)

BatchesChosen ==
    \A p \in Ids : \A i \in Batch(p) : Chosen(p, history[i - 1].content, history[i].content)

Undone(p) == {i \in 1 .. Last : history[i].by = p /\ history[i].undo}

(* The page begins with its creation, and a batch row stands for one       *)
(* revision, and once rolled back for two.                                 *)
BatchRows ==
    /\ history[1].by = Editor
    /\ \A p \in Ids :
         /\ IF proposal[p].batch = "none" THEN Batch(p) = {} ELSE \E i \in 1 .. Last : Batch(p) = {i}
         /\ IF proposal[p].batch = "rolled_back" THEN \E i \in 1 .. Last : Undone(p) = {i}
            ELSE Undone(p) = {}
         /\ proposal[p].batch # "none" => proposal[p].status = proposal[p].batch

(* What a call has read is still true of what cannot change any more.      *)
SessionOk(v) ==
    /\ v.phase # "idle" => Submitted(v.proposal)
    /\ v.phase = "found" =>
         /\ v.blocks # {} /\ v.blocks \subseteq DOMAIN proposal[v.proposal].ops
         /\ v.current <= Last
    /\ v.phase = "prepared" =>
         /\ v.expected <= Last
         /\ Chosen(v.proposal, history[v.expected].content, v.content)
    /\ v.phase = "undoing" =>
         proposal[v.proposal].status = "applied" /\ proposal[v.proposal].batch = "applied"

UndoneByOne ==
    \A s, t \in Sessions :
        /\ session[s].phase = "undoing" /\ session[t].phase = "undoing"
        /\ session[s].proposal = session[t].proposal
        => s = t

IInv ==
    /\ Types
    /\ References
    /\ BatchesChosen
    /\ BatchRows
    /\ OpenConflictsBlock
    /\ \A s \in Sessions : SessionOk(session[s])
    /\ UndoneByOne

-----------------------------------------------------------------------------
(* Fields.                                                                 *)

LEMMA SessionFields ==
    ASSUME Types, NEW s \in Sessions
    PROVE  /\ session[s].phase \in {"idle", "clear", "found", "prepared", "undoing"}
           /\ session[s].phase = "idle" => session[s] = Idle
           /\ session[s].phase # "idle" => session[s].proposal \in Ids
           /\ session[s].phase = "found" =>
                session[s].current \in Nat \ {0} /\ session[s].blocks \subseteq Targets
           /\ session[s].phase = "prepared" =>
                session[s].expected \in Nat \ {0} /\ session[s].content \in Content
<1>1. session[s] \in SessionStates
  BY DEF Types
<1>2. CASE session[s] = Idle
  BY <1>2 DEF Idle
<1>3. CASE session[s] \in [phase : {"clear", "undoing"}, proposal : Ids]
  BY <1>3
<1>4. CASE session[s] \in [phase : {"found"}, proposal : Ids, current : Nat \ {0},
                           blocks : SUBSET Targets]
  BY <1>4
<1>5. CASE session[s] \in [phase : {"prepared"}, proposal : Ids, expected : Nat \ {0},
                           content : Content]
  BY <1>5
<1>6. QED
  BY <1>1, <1>2, <1>3, <1>4, <1>5 DEF SessionStates

LEMMA RowFields ==
    ASSUME Types, NEW p \in Ids
    PROVE  /\ proposal[p] \in ProposalRows
           /\ proposal[p].status \in Statuses /\ proposal[p].base \in Nat \ {0}
           /\ proposal[p].ops \in OperationSets
           /\ proposal[p].review \in {"none", "pending", "auto", "approved", "rejected"}
           /\ proposal[p].batch \in {"none", "applied", "rolled_back"}
           /\ conflicts[p] \in Seq(ConflictRows) /\ Len(conflicts[p]) \in Nat
           /\ DOMAIN conflicts[p] = 1 .. Len(conflicts[p])
           /\ \A i \in DOMAIN conflicts[p] : conflicts[p][i] \in ConflictRows
  BY DEF Types, ProposalRows

LEMMA RevisionFields ==
    ASSUME Types
    PROVE  /\ Last \in Nat \ {0} /\ DOMAIN history = 1 .. Last
           /\ \A i \in 1 .. Last : /\ history[i] \in Revision
                                   /\ history[i].content \in Content
                                   /\ history[i].by \in Ids \cup {Editor}
                                   /\ history[i].undo \in BOOLEAN
           /\ Current \in Content
<1>1. Last \in Nat \ {0} /\ DOMAIN history = 1 .. Last
  BY DEF Types, Last
<1>2. ASSUME NEW i \in 1 .. Last PROVE history[i] \in Revision
  BY <1>1 DEF Types, Last
<1>3. Last \in 1 .. Last
  BY <1>1
<1>4. QED
  BY <1>1, <1>2, <1>3 DEF Revision, Current

(* The functions from some of the targets to operations.                   *)
LEMMA OperationsAre ==
    ASSUME NEW f \in OperationSets
    PROVE  /\ DOMAIN f \subseteq Targets
           /\ \A t \in DOMAIN f : f[t] \in Operation
  BY DEF OperationSets

LEMMA OperationsIntro ==
    ASSUME NEW D \in SUBSET Targets, NEW f \in [D -> Operation]
    PROVE  f \in OperationSets
  BY DEF OperationSets

-----------------------------------------------------------------------------
(* What a step leaves as it is.                                            *)

(* Revisions are appended, a submitted proposal keeps its operations and   *)
(* its base, and a conflict row settled for the proposal stays settled.    *)
Grown ==
    /\ Last' >= Last
    /\ \A i \in 1 .. Last : history'[i] = history[i]
    /\ \A p \in Ids : Submitted(p) =>
         /\ Submitted(p)'
         /\ proposal'[p].ops = proposal[p].ops /\ proposal'[p].base = proposal[p].base
    /\ \A p \in Ids, b \in Blocks : ChoseProposal(p, b) => ChoseProposal(p, b)'

LEMMA ChosenKept ==
    ASSUME Types, References, Grown, NEW p \in Ids, Submitted(p),
           NEW before, NEW after, Chosen(p, before, after)
    PROVE  Chosen(p, before, after)'
  BY DEF Grown, Chosen

LEMMA BatchIsSubmitted ==
    ASSUME IInv, NEW p \in Ids, NEW i \in Batch(p)
    PROVE  Submitted(p) /\ i \in 2 .. Last
<1>1. proposal[p].batch # "none"
  BY DEF IInv, BatchRows
<1>2. Submitted(p)
  BY <1>1, RowFields DEF IInv, BatchRows, Submitted
<1>3. Editor # p
  BY EditorAssumption
<1>4. i \in 1 .. Last /\ i # 1
  BY <1>3 DEF IInv, BatchRows, Batch
<1>5. QED
  BY <1>2, <1>4, RevisionFields DEF IInv

LEMMA SessionKept ==
    ASSUME IInv, Types', Grown, NEW s \in Sessions, session'[s] = session[s],
           session[s].phase = "undoing" =>
             /\ proposal'[session[s].proposal].status = "applied"
             /\ proposal'[session[s].proposal].batch = "applied"
    PROVE  SessionOk(session[s])'
<1> DEFINE v == session[s]
<1>1. SessionOk(v) /\ Types /\ References
  BY DEF IInv
<1>2. Last \in Nat /\ Last' \in Nat /\ Last' >= Last
  BY <1>1, RevisionFields DEF Types, Last, Grown
<1>3. CASE v.phase = "idle"
  BY <1>3 DEF SessionOk
<1>4. CASE v.phase # "idle"
  <2>1. v.proposal \in Ids /\ Submitted(v.proposal)
    BY <1>1, <1>4, SessionFields DEF SessionOk
  <2>2. Submitted(v.proposal)' /\ proposal'[v.proposal].ops = proposal[v.proposal].ops
    BY <2>1 DEF Grown
  <2>3. v.phase = "found" => v.current <= Last'
    BY <1>1, <1>2, SessionFields DEF SessionOk
  <2>4. ASSUME v.phase = "prepared"
        PROVE  v.expected <= Last' /\ Chosen(v.proposal, history[v.expected].content, v.content)'
    <3>1. v.expected \in 1 .. Last
      BY <1>1, <1>2, <2>4, SessionFields DEF SessionOk
    <3>2. Chosen(v.proposal, history[v.expected].content, v.content)
      BY <1>1, <2>4 DEF SessionOk
    <3>3. history'[v.expected] = history[v.expected]
      BY <3>1 DEF Grown
    <3> DEFINE before == history[v.expected].content  q == v.proposal  after == v.content
    <3>4. \A x \in Ids : \A y, z : Submitted(x) /\ Chosen(x, y, z) => Chosen(x, y, z)'
      BY <1>1, ChosenKept
    <3>5. QED
      BY <1>2, <2>1, <3>1, <3>2, <3>3, <3>4
  <2>5. QED
    BY <1>1, <2>2, <2>3, <2>4 DEF SessionOk
<1>5. QED
  BY <1>3, <1>4

(* The rows of a batch while nothing is published.                         *)
LEMMA RowsKept ==
    ASSUME IInv, Types', Grown, history' = history,
           \A p \in Ids : /\ proposal'[p].batch = proposal[p].batch
                          /\ proposal[p].batch # "none" => proposal'[p].status = proposal[p].status
    PROVE  BatchesChosen' /\ BatchRows'
<1>1. \A p \in Ids : Batch(p)' = Batch(p) /\ Undone(p)' = Undone(p)
  BY DEF Batch, Undone, Last
<1>2. Last' = Last
  BY DEF Last
<1>3. BatchRows'
  BY <1>1, <1>2 DEF IInv, BatchRows
<1>4. ASSUME NEW p \in Ids, NEW i \in Batch(p)'
      PROVE  Chosen(p, history[i - 1].content, history[i].content)'
  <2>1. i \in Batch(p) /\ Submitted(p)
    BY <1>1, <1>4, BatchIsSubmitted
  <2>2. Chosen(p, history[i - 1].content, history[i].content)
    BY <2>1 DEF IInv, BatchesChosen
  <2>3. \A y, z : Chosen(p, y, z) => Chosen(p, y, z)'
    BY <2>1, ChosenKept DEF IInv
  <2>4. Chosen(p, history[i - 1].content, history[i].content)'
        <=> \E y, z : /\ y = history[i - 1].content /\ z = history[i].content
                      /\ Chosen(p, y, z)'
    OBVIOUS
  <2>5. QED
    BY <2>2, <2>3, <2>4
<1>5. QED
  BY <1>3, <1>4 DEF BatchesChosen

LEMMA RevisionAppended ==
    ASSUME Types, NEW c \in Content, NEW a \in Ids \cup {Editor}, NEW u \in BOOLEAN,
           AppendRevision(c, a, u)
    PROVE  /\ history' \in Seq(Revision)
           /\ Last' = Last + 1 /\ Last' \in 1 .. MaxRevisions
           /\ \A i \in 1 .. Last : history'[i] = history[i]
           /\ history'[Last + 1] = [content |-> c, by |-> a, undo |-> u]
           /\ \A p \in Ids :
                /\ Batch(p)' = IF a = p /\ ~u THEN Batch(p) \cup {Last + 1} ELSE Batch(p)
                /\ Undone(p)' = IF a = p /\ u THEN Undone(p) \cup {Last + 1} ELSE Undone(p)
<1> DEFINE r == [content |-> c, by |-> a, undo |-> u]
<1>1. r \in Revision /\ history \in Seq(Revision) /\ history' = Append(history, r)
  BY DEF Types, Revision, AppendRevision
<1>2. Last \in Nat /\ Last < MaxRevisions /\ MaxRevisions \in Nat
  BY RevisionFields, RevisionBound DEF AppendRevision
<1>3. history' \in Seq(Revision) /\ Last' = Last + 1
      /\ history'[Last + 1] = r /\ \A i \in 1 .. Last : history'[i] = history[i]
  BY <1>1, AppendProperties DEF Last
<1>4. 1 .. Last' = (1 .. Last) \cup {Last + 1}
  BY <1>2, <1>3
<1>5. ASSUME NEW p \in Ids
      PROVE  /\ Batch(p)' = IF a = p /\ ~u THEN Batch(p) \cup {Last + 1} ELSE Batch(p)
             /\ Undone(p)' = IF a = p /\ u THEN Undone(p) \cup {Last + 1} ELSE Undone(p)
  <2>1. r.by = a /\ r.undo = u
    OBVIOUS
  <2>2. \A i : i \in Batch(p)' <=> i \in Batch(p) \/ (i = Last + 1 /\ a = p /\ ~u)
    BY <1>3, <1>4, <2>1 DEF Batch
  <2>3. \A i : i \in Undone(p)' <=> i \in Undone(p) \/ (i = Last + 1 /\ a = p /\ u)
    BY <1>3, <1>4, <2>1 DEF Undone
  <2>4. QED
    BY <2>2, <2>3
<1>6. QED
  BY <1>2, <1>3, <1>5

(* The same when a revision is published: a batch's revision must be made  *)
(* of chosen changes.                                                      *)
LEMMA RowsAppended ==
    ASSUME IInv, Types', Grown,
           NEW c \in Content, NEW a \in Ids \cup {Editor}, NEW u \in BOOLEAN,
           AppendRevision(c, a, u),
           \A p \in Ids \ {a} : proposal'[p] = proposal[p],
           a \in Ids =>
             /\ Submitted(a)
             /\ ~u => /\ proposal[a].batch = "none" /\ proposal'[a].batch = "applied"
                      /\ proposal'[a].status = "applied" /\ Chosen(a, Current, c)
             /\ u => /\ proposal[a].batch = "applied" /\ proposal'[a].batch = "rolled_back"
                     /\ proposal'[a].status = "rolled_back"
    PROVE  BatchesChosen' /\ BatchRows'
<1>1. /\ Last' = Last + 1
      /\ \A i \in 1 .. Last : history'[i] = history[i]
      /\ history'[Last + 1] = [content |-> c, by |-> a, undo |-> u]
      /\ \A p \in Ids :
           /\ Batch(p)' = IF a = p /\ ~u THEN Batch(p) \cup {Last + 1} ELSE Batch(p)
           /\ Undone(p)' = IF a = p /\ u THEN Undone(p) \cup {Last + 1} ELSE Undone(p)
  BY RevisionAppended DEF IInv
<1>2. Last \in Nat \ {0} /\ Last + 1 \in 1 .. Last'
  BY <1>1, RevisionFields DEF IInv
<1>3. 1 .. Last \subseteq 1 .. Last'
  BY <1>1, <1>2
<1>4. BatchRows'
  <2>1. history'[1].by = Editor
    BY <1>1, <1>2 DEF IInv, BatchRows
  <2>2. ASSUME NEW p \in Ids
        PROVE  /\ IF proposal'[p].batch = "none" THEN Batch(p)' = {}
                  ELSE \E i \in 1 .. Last' : Batch(p)' = {i}
               /\ IF proposal'[p].batch = "rolled_back"
                  THEN \E i \in 1 .. Last' : Undone(p)' = {i} ELSE Undone(p)' = {}
               /\ proposal'[p].batch # "none" => proposal'[p].status = proposal'[p].batch
    <3>1. /\ IF proposal[p].batch = "none" THEN Batch(p) = {}
             ELSE \E i \in 1 .. Last : Batch(p) = {i}
          /\ IF proposal[p].batch = "rolled_back" THEN \E i \in 1 .. Last : Undone(p) = {i}
             ELSE Undone(p) = {}
          /\ proposal[p].batch # "none" => proposal[p].status = proposal[p].batch
      BY DEF IInv, BatchRows
    <3>2. CASE p # a
      BY <1>1, <1>3, <3>1, <3>2
    <3>3. CASE p = a /\ ~u
      BY <1>1, <1>2, <1>3, <3>1, <3>3
    <3>4. CASE p = a /\ u
      BY <1>1, <1>2, <1>3, <3>1, <3>4
    <3>5. QED
      BY <3>2, <3>3, <3>4
  <2>3. QED
    BY <2>1, <2>2 DEF BatchRows
<1>5. ASSUME NEW p \in Ids, NEW i \in Batch(p)'
      PROVE  Chosen(p, history[i - 1].content, history[i].content)'
  <2> DEFINE before == history[i - 1].content  after == history[i].content
  <2>1. ASSUME Submitted(p), Chosen(p, before', after') PROVE Chosen(p, before, after)'
    <3>1. \A y, z : Chosen(p, y, z) => Chosen(p, y, z)'
      BY <2>1, ChosenKept DEF IInv
    <3>2. PICK y, z : y = before' /\ z = after' /\ Chosen(p, y, z)
      BY <2>1
    <3>3. Chosen(p, y, z)'
      BY <3>1, <3>2
    <3>4. QED
      BY <3>2, <3>3 DEF Chosen
  <2>2. CASE i \in Batch(p)
    <3>1. Submitted(p) /\ i \in 2 .. Last
      BY <2>2, BatchIsSubmitted
    <3>2. i \in 1 .. Last /\ i - 1 \in 1 .. Last
      BY <1>2, <3>1
    <3>3. before' = before /\ after' = after
      BY <1>1, <3>2
    <3>4. Chosen(p, before', after')
      BY <2>2, <3>3 DEF IInv, BatchesChosen
    <3>5. QED
      BY <2>1, <3>1, <3>4
  <2>3. CASE i \notin Batch(p)
    <3>1. i = Last + 1 /\ p = a /\ ~u
      BY <1>1, <1>5, <2>3
    <3>2. i - 1 = Last /\ Last \in 1 .. Last
      BY <1>2, <3>1
    <3>3. before' = Current /\ after' = c
      BY <1>1, <3>1, <3>2 DEF Current
    <3>4. QED
      BY <2>1, <3>1, <3>3
  <2>4. QED
    BY <2>2, <2>3
<1>6. QED
  BY <1>4, <1>5 DEF BatchesChosen

-----------------------------------------------------------------------------
(* The newest settled choice.                                              *)

LEMMA GreatestIndex ==
    ASSUME NEW n \in Nat, NEW S \in SUBSET (1 .. n), S # {}
    PROVE  \E i \in S : \A j \in S : j <= i
<1> DEFINE R == OpToRel(<, Nat)  T == {m \in Nat : n - m \in S}
<1> HIDE DEF R
<1>1. IsWellFoundedOn(R, Nat)
  BY NatLessThanWellFounded DEF R
<1>2. T \subseteq Nat /\ T # {}
  <2>1. PICK i \in S : TRUE
    OBVIOUS
  <2>2. n - i \in Nat /\ n - (n - i) = i
    OBVIOUS
  <2>3. QED
    BY <2>1, <2>2
<1> HIDE DEF T
<1>3. PICK m \in T : \A k \in T : ~ (<<k, m>> \in R)
  BY <1>1, <1>2, WFMin
<1>4. m \in Nat /\ n - m \in S
  BY DEF T
<1>5. ASSUME NEW j \in S PROVE j <= n - m
  <2>1. n - j \in Nat /\ n - (n - j) = j
    OBVIOUS
  <2>2. n - j \in T
    BY <2>1 DEF T
  <2>3. ~ (n - j < m)
    BY <1>3, <1>4, <2>1, <2>2 DEF OpToRel, R
  <2>4. QED
    BY <1>4, <2>1, <2>3
<1>6. QED
  BY <1>4, <1>5

(* A choice is what some settled row says.                                 *)
LEMMA ChoiceIsARow ==
    ASSUME Types, NEW p \in Ids, NEW b \in Blocks, Choice(p, b) = "proposed"
    PROVE  ChoseProposal(p, b)
<1> DEFINE settled == {i \in DOMAIN conflicts[p] :
                         conflicts[p][i].block = b /\ ~IsOpen(conflicts[p][i])}
           m == CHOOSE i \in settled : \A j \in settled : j <= i
<1>1. settled # {}
  BY DEF Choice
<1>2. settled \subseteq 1 .. Len(conflicts[p]) /\ Len(conflicts[p]) \in Nat
  BY RowFields
<1>3. \E i \in settled : \A j \in settled : j <= i
  BY <1>1, <1>2, GreatestIndex
<1>4. m \in settled
  BY <1>3
<1>5. conflicts[p][m].choice = "proposed"
  BY <1>1 DEF Choice
<1>6. QED
  BY <1>4, <1>5 DEF ChoseProposal

-----------------------------------------------------------------------------
(* Steps that change proposals not yet submitted, or one session.          *)

LEMMA DraftingInv ==
    ASSUME IInv, NEW p \in Ids, ~Submitted(p), proposal' \in [Ids -> ProposalRows],
           \A q \in Ids \ {p} : proposal'[q] = proposal[q],
           proposal'[p].base <= Last, IsFiniteSet(DOMAIN proposal'[p].ops),
           proposal'[p].batch = proposal[p].batch, proposal'[p].status # "conflicted",
           UNCHANGED <<history, conflicts, session>>
    PROVE  IInv'
<1>1. Types' /\ Last' = Last
  BY DEF IInv, Types, Last
<1>2. Grown
  <2>1. Last >= Last
    BY RevisionFields DEF IInv
  <2>2. ASSUME NEW q \in Ids, Submitted(q)
        PROVE  /\ Submitted(q)'
               /\ proposal'[q].ops = proposal[q].ops /\ proposal'[q].base = proposal[q].base
    <3>1. q # p
      BY <2>2
    <3>2. QED
      BY <2>2, <3>1 DEF Submitted
  <2>3. QED
    BY <1>1, <2>1, <2>2 DEF Grown, ChoseProposal
<1>3. proposal[p].batch = "none"
  BY RowFields DEF IInv, BatchRows, Submitted
<1>4. References'
  BY <1>1 DEF IInv, References
<1>5. BatchesChosen' /\ BatchRows'
  BY <1>1, <1>2, <1>3, RowsKept
<1>6. OpenConflictsBlock'
  <2>1. proposal[p].status # "conflicted"
    BY DEF Submitted
  <2>2. QED
    BY <2>1 DEF IInv, OpenConflictsBlock
<1>7. ASSUME NEW s \in Sessions PROVE SessionOk(session[s])'
  <2>1. session[s].phase = "undoing" =>
          /\ session[s].proposal \in Ids \ {p}
          /\ proposal[session[s].proposal].status = "applied"
          /\ proposal[session[s].proposal].batch = "applied"
    BY SessionFields DEF IInv, SessionOk
  <2>2. QED
    BY <1>1, <1>2, <2>1, SessionKept
<1>8. UndoneByOne'
  BY DEF IInv, UndoneByOne
<1>9. QED
  BY <1>1, <1>4, <1>5, <1>6, <1>7, <1>8 DEF IInv

LEMMA IdleIsFine == Idle \in SessionStates /\ SessionOk(Idle)
<1>1. Idle.phase = "idle"
  BY DEF Idle
<1>2. QED
  BY <1>1 DEF SessionStates, SessionOk

LEMMA SessionInv ==
    ASSUME IInv, NEW s \in Sessions, NEW v \in SessionStates,
           session' = [session EXCEPT ![s] = v], SessionOk(v),
           v.phase = "undoing" => ~Locked(v.proposal),
           UNCHANGED <<history, proposal, conflicts>>
    PROVE  IInv'
<1>1. Types' /\ Last' = Last
  BY DEF IInv, Types, Last
<1>2. session \in [Sessions -> SessionStates]
  BY DEF IInv, Types
<1>3. References' /\ OpenConflictsBlock'
  BY <1>1 DEF IInv, References, OpenConflictsBlock
<1>4. Grown
  <2>1. Last >= Last
    BY RevisionFields DEF IInv
  <2>2. QED
    BY <1>1, <2>1 DEF Grown, ChoseProposal, Submitted
<1>5. BatchesChosen' /\ BatchRows'
  BY <1>1, <1>4, RowsKept
<1>6. ASSUME NEW t \in Sessions PROVE SessionOk(session[t])'
  <2>1. SessionOk(session'[t])
    BY <1>2 DEF IInv
  <2>2. \A q, x, y : Chosen(q, x, y) => Chosen(q, x, y)'
    BY DEF Chosen, ChoseProposal
  <2>3. QED
    BY <2>1, <2>2, <1>1 DEF SessionOk, Submitted
<1>7. UndoneByOne'
  <2>1. v.phase = "undoing" => \A t \in Sessions : session[t].phase = "undoing" =>
                                                     session[t].proposal # v.proposal
    BY DEF Locked
  <2>2. QED
    BY <1>2, <2>1 DEF IInv, UndoneByOne
<1>8. QED
  BY <1>1, <1>3, <1>5, <1>6, <1>7 DEF IInv

LEMMA IdleInv ==
    ASSUME IInv, NEW s \in Sessions, session' = [session EXCEPT ![s] = Idle],
           UNCHANGED <<history, proposal, conflicts>>
    PROVE  IInv'
<1>1. Idle.phase # "undoing"
  BY DEF Idle
<1>2. QED
  BY <1>1, IdleIsFine, SessionInv

-----------------------------------------------------------------------------
(* Drafting and review.                                                    *)

LEMMA InitInv == Init => IInv
<1> SUFFICES ASSUME Init PROVE IInv
  OBVIOUS
<1>1. PICK c \in [Blocks -> Values] :
         history = <<[content |-> c, by |-> Editor, undo |-> FALSE]>>
  BY DEF Init
<1>2. c \in Content /\ [content |-> c, by |-> Editor, undo |-> FALSE] \in Revision
  BY DEF Content, Revision
<1>3. history \in Seq(Revision) /\ Last = 1
      /\ history[1] = [content |-> c, by |-> Editor, undo |-> FALSE]
  BY <1>1, <1>2 DEF Last
<1>4. NoOperations \in OperationSets /\ DOMAIN NoOperations = {}
  <2>1. {} \in SUBSET Targets /\ NoOperations \in [{} -> Operation]
    BY DEF NoOperations
  <2>2. QED
    BY <2>1, OperationsIntro
<1>5. /\ \A p \in Ids : /\ proposal[p].status = "none" /\ proposal[p].batch = "none"
                        /\ proposal[p].base = 1 /\ proposal[p].ops = NoOperations
                        /\ conflicts[p] = <<>>
      /\ \A s \in Sessions : session[s] = Idle
      /\ proposal \in [Ids -> ProposalRows] /\ conflicts \in [Ids -> Seq(ConflictRows)]
      /\ session \in [Sessions -> SessionStates]
  BY <1>4, IdleIsFine DEF Init, ProposalRows, Statuses
<1>6. Types
  BY <1>3, <1>5, RevisionBound DEF Types
<1>7. References
  BY <1>3, <1>4, <1>5, FS_EmptySet DEF References
<1>8. \A p \in Ids : Batch(p) = {} /\ Undone(p) = {}
  BY <1>3, EditorAssumption DEF Batch, Undone
<1>9. BatchRows
  BY <1>3, <1>5, <1>8 DEF BatchRows
<1>10. BatchesChosen
  BY <1>8 DEF BatchesChosen
<1>11. OpenConflictsBlock
  BY <1>5 DEF OpenConflictsBlock
<1>12. (\A s \in Sessions : SessionOk(session[s])) /\ UndoneByOne
  <2>1. \A s \in Sessions : session[s].phase = "idle"
    BY <1>5 DEF Idle
  <2>2. QED
    BY <1>5, <2>1, IdleIsFine DEF UndoneByOne
<1>13. QED
  BY <1>6, <1>7, <1>9, <1>10, <1>11, <1>12 DEF IInv

LEMMA DraftInv ==
    ASSUME IInv, NEW p \in Ids, Draft(p)
    PROVE  IInv'
<1>1. Types /\ proposal \in [Ids -> ProposalRows] /\ Last \in Nat \ {0}
  BY RevisionFields DEF IInv, Types
<1>2. /\ proposal' \in [Ids -> ProposalRows]
      /\ \A q \in Ids \ {p} : proposal'[q] = proposal[q]
      /\ proposal'[p].base = Last /\ proposal'[p].ops = proposal[p].ops
      /\ proposal'[p].batch = proposal[p].batch /\ proposal'[p].status = "draft"
  BY <1>1 DEF Draft, ProposalRows, Statuses
<1>3. ~Submitted(p) /\ UNCHANGED <<history, conflicts, session>>
  BY DEF Draft, Submitted
<1>4. IsFiniteSet(DOMAIN proposal'[p].ops) /\ proposal'[p].base <= Last
  BY <1>1, <1>2 DEF IInv, References
<1>5. QED
  BY <1>2, <1>3, <1>4, DraftingInv

LEMMA AddOperationInv ==
    ASSUME IInv, NEW p \in Ids, NEW t \in Targets, NEW op \in Operation,
           AddOperation(p, t, op)
    PROVE  IInv'
<1> DEFINE D == DOMAIN proposal[p].ops
           f == [u \in D \cup {t} |-> IF u = t THEN op ELSE proposal[p].ops[u]]
<1>1. Types /\ proposal \in [Ids -> ProposalRows]
  BY DEF IInv, Types
<1>2. f \in OperationSets
  <2>1. D \subseteq Targets /\ \A u \in D : proposal[p].ops[u] \in Operation
    BY <1>1, RowFields, OperationsAre
  <2>2. D \cup {t} \in SUBSET Targets /\ f \in [D \cup {t} -> Operation]
    BY <2>1
  <2>3. QED
    BY <2>2, OperationsIntro
<1>3. proposal' = [proposal EXCEPT ![p].ops = f]
  BY DEF AddOperation
<1>4. DOMAIN f = D \cup {t}
  OBVIOUS
<1> HIDE DEF f
<1>5. /\ proposal' \in [Ids -> ProposalRows]
      /\ \A q \in Ids \ {p} : proposal'[q] = proposal[q]
      /\ proposal'[p].base = proposal[p].base /\ proposal'[p].ops = f
      /\ proposal'[p].batch = proposal[p].batch /\ proposal'[p].status = proposal[p].status
  BY <1>1, <1>2, <1>3 DEF ProposalRows
<1>6. /\ ~Submitted(p) /\ proposal[p].status = "draft"
      /\ UNCHANGED <<history, conflicts, session>>
  BY DEF AddOperation, Submitted
<1>7. IsFiniteSet(D \cup {t}) /\ proposal[p].base <= Last
  BY FS_AddElement DEF IInv, References
<1>8. QED
  BY <1>4, <1>5, <1>6, <1>7, DraftingInv

LEMMA SubmitInv ==
    ASSUME IInv, NEW p \in Ids, NEW auto \in BOOLEAN, Submit(p, auto)
    PROVE  IInv'
<1> DEFINE st == IF auto THEN "approved" ELSE "in_review"
           rv == IF auto THEN "auto" ELSE "pending"
<1>1. proposal \in [Ids -> ProposalRows]
  BY DEF IInv, Types
<1>2. /\ proposal' \in [Ids -> ProposalRows]
      /\ \A q \in Ids \ {p} : proposal'[q] = proposal[q]
      /\ proposal'[p].base = proposal[p].base /\ proposal'[p].ops = proposal[p].ops
      /\ proposal'[p].batch = proposal[p].batch
      /\ proposal'[p].status \in {"approved", "in_review"}
  <2>1. proposal' = [proposal EXCEPT ![p].status = st, ![p].review = rv]
    BY DEF Submit
  <2>2. st \in {"approved", "in_review"} /\ rv \in {"auto", "pending"}
    OBVIOUS
  <2> HIDE DEF st, rv
  <2>3. QED
    BY <1>1, <2>1, <2>2 DEF ProposalRows, Statuses
<1>3. ~Submitted(p) /\ UNCHANGED <<history, conflicts, session>>
  BY DEF Submit, Submitted
<1>4. IsFiniteSet(DOMAIN proposal[p].ops) /\ proposal[p].base <= Last
  BY DEF IInv, References
<1>5. QED
  BY <1>2, <1>3, <1>4, DraftingInv

LEMMA DecideInv ==
    ASSUME IInv, NEW p \in Ids, NEW approve \in BOOLEAN, Decide(p, approve)
    PROVE  IInv'
<1>1. Types /\ proposal \in [Ids -> ProposalRows]
  BY DEF IInv, Types
<1>2. /\ proposal' \in [Ids -> ProposalRows]
      /\ \A q \in Ids \ {p} : proposal'[q] = proposal[q]
      /\ proposal'[p].base = proposal[p].base /\ proposal'[p].ops = proposal[p].ops
      /\ proposal'[p].batch = proposal[p].batch
      /\ proposal'[p].status \in {"approved", "rejected"}
  BY <1>1 DEF Decide, ProposalRows, Statuses
<1>3. ~Submitted(p) /\ UNCHANGED <<history, conflicts, session>>
  BY DEF Decide, Submitted
<1>4. IsFiniteSet(DOMAIN proposal[p].ops) /\ proposal[p].base <= Last
  BY DEF IInv, References
<1>5. QED
  BY <1>2, <1>3, <1>4, DraftingInv

-----------------------------------------------------------------------------
(* Conflicts.                                                              *)

LEMMA DetectInv ==
    ASSUME IInv, NEW s \in Sessions, NEW p \in Ids, Detect(s, p)
    PROVE  IInv'
<1> DEFINE clear == [phase |-> "clear", proposal |-> p]
           found == [phase |-> "found", proposal |-> p, current |-> Last, blocks |-> Detected(p)]
<1>1. Types /\ Last \in Nat \ {0} /\ Submitted(p)
  BY RevisionFields DEF IInv, Detect, Submitted
<1>2. Detected(p) \subseteq DOMAIN proposal[p].ops
  BY DEF Detected, Operations
<1>3. DOMAIN proposal[p].ops \subseteq Targets
  BY <1>1, RowFields, OperationsAre
<1>4. CASE Detected(p) = {}
  <2>1. session' = [session EXCEPT ![s] = clear] /\ UNCHANGED <<history, proposal, conflicts>>
    BY <1>4 DEF Detect
  <2>2. clear \in SessionStates /\ SessionOk(clear)
    BY <1>1 DEF SessionStates, SessionOk
  <2>3. QED
    BY <2>1, <2>2, SessionInv
<1>5. CASE Detected(p) # {}
  <2>1. session' = [session EXCEPT ![s] = found] /\ UNCHANGED <<history, proposal, conflicts>>
    BY <1>5 DEF Detect
  <2>2. found \in [phase : {"found"}, proposal : Ids, current : Nat \ {0},
                   blocks : SUBSET Targets]
    BY <1>1, <1>2, <1>3
  <2>3. found \in SessionStates
    BY <2>2 DEF SessionStates
  <2>4. SessionOk(found)
    BY <1>1, <1>2, <1>5 DEF SessionOk
  <2>5. QED
    BY <2>1, <2>3, <2>4, SessionInv
<1>6. QED
  BY <1>4, <1>5

(* What the rows of a detection are, in whatever order.                    *)
LEMMA RowsAre ==
    ASSUME NEW found \in SUBSET Targets, IsFiniteSet(found), found # {},
           NEW current \in Nat \ {0}, NEW rows \in Rows(found, current)
    PROVE  /\ rows \in Seq(ConflictRows) /\ Len(rows) \in Nat \ {0}
           /\ \A i \in 1 .. Len(rows) : rows[i].choice = "open" /\ rows[i].current = current
<1> DEFINE R == {[block |-> t, current |-> current, choice |-> "open"] : t \in found}
           n == Cardinality(found)
<1>1. n \in Nat \ {0}
  BY FS_CardinalityType, FS_EmptySet
<1>2. R \subseteq ConflictRows /\ \A r \in R : r.choice = "open" /\ r.current = current
  BY DEF ConflictRows
<1>3. rows \in [1 .. n -> R]
  BY DEF Rows
<1> HIDE DEF R, n
<1>4. rows \in Seq(R) /\ Len(rows) = n
  BY <1>1, <1>3
<1>5. \A i \in 1 .. n : rows[i] \in R
  BY <1>3
<1>6. rows \in Seq(ConflictRows)
  BY <1>2, <1>4, SeqMonotonic
<1>7. QED
  BY <1>1, <1>2, <1>4, <1>5, <1>6

(* A step that changes one proposal's status and conflict rows, both       *)
(* between approved and conflicted.                                        *)
LEMMA ConflictInv ==
    ASSUME IInv, NEW p \in Ids, Submitted(p), NEW rows \in Seq(ConflictRows),
           NEW st \in {"approved", "conflicted"},
           proposal[p].status \in {"approved", "conflicted"},
           proposal' = [proposal EXCEPT ![p].status = st],
           conflicts' = [conflicts EXCEPT ![p] = rows],
           history' = history, session' \in [Sessions -> SessionStates],
           \A s \in Sessions : session'[s] \in {session[s], Idle},
           \A i \in 1 .. Len(rows) : rows[i].current <= Last,
           \A i \in DOMAIN conflicts[p] :
             ~IsOpen(conflicts[p][i]) => i \in DOMAIN rows /\ rows[i] = conflicts[p][i],
           (\E i \in DOMAIN rows : IsOpen(rows[i])) <=> st = "conflicted"
    PROVE  IInv'
<1>1. /\ Types /\ proposal \in [Ids -> ProposalRows] /\ conflicts \in [Ids -> Seq(ConflictRows)]
      /\ Len(rows) \in Nat /\ DOMAIN rows = 1 .. Len(rows) /\ Last \in Nat
  BY RevisionFields DEF IInv, Types
<1>2. /\ proposal' \in [Ids -> ProposalRows]
      /\ \A q \in Ids \ {p} : proposal'[q] = proposal[q]
      /\ proposal'[p].base = proposal[p].base /\ proposal'[p].ops = proposal[p].ops
      /\ proposal'[p].batch = proposal[p].batch /\ proposal'[p].status = st
  BY <1>1 DEF ProposalRows, Statuses
<1>3. /\ conflicts' \in [Ids -> Seq(ConflictRows)]
      /\ \A q \in Ids \ {p} : conflicts'[q] = conflicts[q]
      /\ conflicts'[p] = rows
  BY <1>1
<1>4. Types' /\ Last' = Last
  BY <1>1, <1>2, <1>3 DEF IInv, Types, Last
<1>5. References'
  BY <1>1, <1>2, <1>3, <1>4 DEF IInv, References
<1>6. Grown
  <2>1. ASSUME NEW q \in Ids, Submitted(q)
        PROVE  /\ Submitted(q)'
               /\ proposal'[q].ops = proposal[q].ops /\ proposal'[q].base = proposal[q].base
    BY <1>2, <2>1 DEF Submitted
  <2>2. ASSUME NEW q \in Ids, NEW b \in Blocks, ChoseProposal(q, b)
        PROVE  ChoseProposal(q, b)'
    <3>1. CASE q # p
      BY <1>3, <2>2, <3>1 DEF ChoseProposal
    <3>2. CASE q = p
      <4>1. PICK j \in DOMAIN conflicts[p] :
              conflicts[p][j].block = b /\ conflicts[p][j].choice = "proposed"
        BY <2>2, <3>2 DEF ChoseProposal
      <4>2. j \in DOMAIN rows /\ rows[j] = conflicts[p][j]
        BY <4>1 DEF IsOpen
      <4>3. QED
        BY <1>3, <3>2, <4>1, <4>2 DEF ChoseProposal
    <3>3. QED
      BY <3>1, <3>2
  <2>3. QED
    BY <1>1, <1>4, <2>1, <2>2 DEF Grown
<1>7. proposal[p].batch = "none"
  BY <1>1, RowFields DEF IInv, BatchRows
<1>8. BatchesChosen' /\ BatchRows'
  BY <1>2, <1>4, <1>6, <1>7, RowsKept
<1>9. OpenConflictsBlock'
  BY <1>2, <1>3 DEF IInv, OpenConflictsBlock
<1>10. ASSUME NEW s \in Sessions PROVE SessionOk(session[s])'
  <2>1. CASE session'[s] = Idle
    BY <2>1, <1>4 DEF SessionOk, Idle
  <2>2. CASE session'[s] = session[s]
    <3>1. session[s].phase = "undoing" =>
            /\ session[s].proposal \in Ids \ {p}
            /\ proposal[session[s].proposal].status = "applied"
            /\ proposal[session[s].proposal].batch = "applied"
      BY <1>1, SessionFields DEF IInv, SessionOk
    <3>2. SessionOk(session[s])' \/ session'[s] # session[s]
      BY <1>2, <1>4, <1>6, <2>2, <3>1, SessionKept
    <3>3. QED
      BY <2>2, <3>2
  <2>3. QED
    BY <2>1, <2>2
<1>11. UndoneByOne'
  BY DEF IInv, UndoneByOne, Idle
<1>12. QED
  BY <1>4, <1>5, <1>8, <1>9, <1>10, <1>11 DEF IInv

LEMMA RecordInv ==
    ASSUME IInv, NEW s \in Sessions, Record(s)
    PROVE  IInv'
<1> DEFINE p == session[s].proposal  found == session[s].blocks  current == session[s].current
<1>1. /\ Types /\ p \in Ids /\ current \in Nat \ {0} /\ current <= Last /\ found # {}
      /\ found \subseteq Targets /\ found \subseteq DOMAIN proposal[p].ops
      /\ Submitted(p) /\ session' = [session EXCEPT ![s] = Idle] /\ history' = history
  BY SessionFields DEF IInv, Record, SessionOk
<1> HIDE DEF p, found, current
<1>2. CASE proposal[p].status = "approved"
  <2>1. PICK new \in Rows(found, current) :
          conflicts' = [conflicts EXCEPT ![p] = conflicts[p] \o new]
    BY <1>2 DEF Record, p, found, current
  <2>2. proposal' = [proposal EXCEPT ![p].status = "conflicted"]
    BY <1>2 DEF Record, p
  <2>3. IsFiniteSet(found)
    BY <1>1, FS_Subset DEF IInv, References
  <2>4. /\ new \in Seq(ConflictRows) /\ Len(new) \in Nat \ {0}
        /\ \A i \in 1 .. Len(new) : new[i].choice = "open" /\ new[i].current = current
    BY <1>1, <2>3, RowsAre
  <2> DEFINE old == conflicts[p]  rows == old \o new
  <2>5. old \in Seq(ConflictRows) /\ Len(old) \in Nat /\ DOMAIN old = 1 .. Len(old)
    BY <1>1, RowFields
  <2>6. \A i \in 1 .. Len(old) : old[i].current <= Last
    BY <1>1, <2>5 DEF IInv, References
  <2> HIDE DEF old
  <2>7. /\ rows \in Seq(ConflictRows) /\ Len(rows) = Len(old) + Len(new)
        /\ \A i \in 1 .. Len(old) : rows[i] = old[i]
        /\ \A i \in 1 .. Len(rows) : i > Len(old) => rows[i] = new[i - Len(old)]
        /\ DOMAIN rows = 1 .. Len(rows)
    BY <2>4, <2>5, ConcatProperties
  <2> HIDE DEF rows
  <2>8. \A i \in 1 .. Len(rows) : rows[i].current <= Last
    <3> SUFFICES ASSUME NEW i \in 1 .. Len(rows) PROVE rows[i].current <= Last
      OBVIOUS
    <3>1. CASE i \in 1 .. Len(old)
      BY <2>6, <2>7, <3>1
    <3>2. CASE i > Len(old)
      <4>1. i - Len(old) \in 1 .. Len(new)
        BY <2>4, <2>5, <2>7, <3>2
      <4>2. QED
        BY <1>1, <2>4, <2>7, <3>2, <4>1
    <3>3. QED
      BY <2>5, <3>1, <3>2
  <2>9. \E i \in DOMAIN rows : IsOpen(rows[i])
    <3>1. Len(rows) \in 1 .. Len(rows) /\ Len(rows) > Len(old)
          /\ Len(rows) - Len(old) \in 1 .. Len(new)
      BY <2>4, <2>5, <2>7
    <3>2. rows[Len(rows)].choice = "open"
      BY <2>4, <2>7, <3>1
    <3>3. QED
      BY <2>7, <3>1, <3>2 DEF IsOpen
  <2>10. \A i \in DOMAIN old : i \in DOMAIN rows /\ rows[i] = old[i]
    BY <2>4, <2>5, <2>7
  <2>11. /\ session' \in [Sessions -> SessionStates]
         /\ \A t \in Sessions : session'[t] \in {session[t], Idle}
    BY <1>1, IdleIsFine DEF Types
  <2>12. conflicts' = [conflicts EXCEPT ![p] = rows]
    BY <2>1 DEF rows, old
  <2>13. \A i \in DOMAIN conflicts[p] :
            ~IsOpen(conflicts[p][i]) => i \in DOMAIN rows /\ rows[i] = conflicts[p][i]
    BY <2>10 DEF old
  <2>14. p \in Ids /\ Submitted(p) /\ rows \in Seq(ConflictRows) /\ history' = history
    BY <1>1, <2>7
  <2>15. QED
    BY <1>2, <2>2, <2>8, <2>9, <2>11, <2>12, <2>13, <2>14, ConflictInv
<1>3. CASE proposal[p].status # "approved"
  <2>1. UNCHANGED <<history, proposal, conflicts>>
    BY <1>1, <1>3 DEF Record, p
  <2>2. QED
    BY <1>1, <2>1, IdleInv
<1>4. QED
  BY <1>2, <1>3

LEMMA ResolveInv ==
    ASSUME IInv, NEW p \in Ids, NEW i \in DOMAIN conflicts[p],
           NEW choice \in {"current", "proposed"}, Resolve(p, i, choice)
    PROVE  IInv'
<1> DEFINE old == conflicts[p]
           rows == [old EXCEPT ![i].choice = choice]
           st == IF NoneOpen(rows) THEN "approved" ELSE "conflicted"
<1>1. /\ Types /\ old \in Seq(ConflictRows) /\ Len(old) \in Nat /\ DOMAIN old = 1 .. Len(old)
      /\ \A j \in DOMAIN old : old[j] \in ConflictRows /\ old[j].current <= Last
  BY RowFields DEF IInv, References
<1>2. /\ proposal[p].status = "conflicted" /\ Submitted(p) /\ IsOpen(old[i])
      /\ conflicts' = [conflicts EXCEPT ![p] = rows]
      /\ UNCHANGED <<history, session>>
  BY DEF Resolve, Submitted
<1>3. proposal' = [proposal EXCEPT ![p].status = st]
  <2>1. CASE NoneOpen(rows)
    BY <2>1 DEF Resolve
  <2>2. CASE ~NoneOpen(rows)
    <3>1. proposal' = proposal /\ proposal \in [Ids -> ProposalRows]
      BY <1>1, <2>2 DEF Resolve, Types
    <3>2. st = proposal[p].status
      BY <1>2, <2>2
    <3>3. QED
      BY <3>1, <3>2 DEF ProposalRows
  <2>3. QED
    BY <2>1, <2>2
<1> HIDE DEF old
<1>4. /\ rows \in Seq(ConflictRows) /\ Len(rows) = Len(old) /\ DOMAIN rows = DOMAIN old
      /\ \A j \in DOMAIN old : j # i => rows[j] = old[j]
      /\ rows[i].current = old[i].current
  <2>1. [old[i] EXCEPT !.choice = choice] \in ConflictRows
    BY <1>1 DEF ConflictRows, old
  <2>2. rows = [old EXCEPT ![i] = [old[i] EXCEPT !.choice = choice]]
    OBVIOUS
  <2>3. i \in 1 .. Len(old) /\ old[i] \in ConflictRows
    BY <1>1 DEF old
  <2>4. QED
    BY <1>1, <2>1, <2>2, <2>3, ExceptSeq DEF ConflictRows
<1> HIDE DEF rows
<1>5. (\E j \in DOMAIN rows : IsOpen(rows[j])) <=> st = "conflicted"
  BY DEF NoneOpen
<1>6. \A j \in 1 .. Len(rows) : rows[j].current <= Last
  BY <1>1, <1>4
<1>7. st \in {"approved", "conflicted"}
  OBVIOUS
<1>8. \A j \in DOMAIN old : ~IsOpen(old[j]) => j \in DOMAIN rows /\ rows[j] = old[j]
  BY <1>2, <1>4
<1>9. /\ session' \in [Sessions -> SessionStates]
      /\ \A t \in Sessions : session'[t] \in {session[t], Idle}
  BY <1>1, <1>2 DEF Types
<1> HIDE DEF st
<1>10. QED
  BY <1>1, <1>2, <1>3, <1>4, <1>5, <1>6, <1>7, <1>8, <1>9, ConflictInv DEF old

-----------------------------------------------------------------------------
(* Steps that publish a revision.                                          *)

LEMMA RevisionInv ==
    ASSUME IInv, NEW c \in Content, NEW a \in Ids \cup {Editor}, NEW u \in BOOLEAN,
           AppendRevision(c, a, u),
           proposal' \in [Ids -> ProposalRows],
           \A p \in Ids \ {a} : proposal'[p] = proposal[p],
           a \in Ids =>
             /\ Submitted(a) /\ proposal[a].status # "conflicted"
             /\ proposal'[a].ops = proposal[a].ops /\ proposal'[a].base = proposal[a].base
             /\ ~u => /\ proposal[a].batch = "none" /\ proposal'[a].batch = "applied"
                      /\ proposal'[a].status = "applied" /\ Chosen(a, Current, c)
             /\ u => /\ proposal[a].batch = "applied" /\ proposal'[a].batch = "rolled_back"
                     /\ proposal'[a].status = "rolled_back"
             /\ \A t \in Sessions :
                  session[t].phase = "undoing" /\ session[t].proposal = a => session'[t] = Idle,
           conflicts' = conflicts, session' \in [Sessions -> SessionStates],
           \A t \in Sessions : session'[t] \in {session[t], Idle}
    PROVE  IInv'
<1>1. /\ Types /\ Last \in Nat \ {0} /\ history' \in Seq(Revision) /\ Last' = Last + 1
      /\ Last' \in 1 .. MaxRevisions
      /\ \A i \in 1 .. Last : history'[i] = history[i]
  BY RevisionAppended, RevisionFields DEF IInv
<1>2. Types'
  BY <1>1 DEF Types
<1>3. ASSUME NEW p \in Ids
      PROVE  /\ Submitted(p) => Submitted(p)'
             /\ proposal'[p].ops = proposal[p].ops /\ proposal'[p].base = proposal[p].base
             /\ proposal'[p].status = "conflicted" <=> proposal[p].status = "conflicted"
  <2>1. CASE p # a
    BY <2>1 DEF Submitted
  <2>2. CASE p = a
    BY <2>2 DEF Submitted
  <2>3. QED
    BY <2>1, <2>2
<1>4. Grown
  <2>1. Last' >= Last
    BY <1>1
  <2>2. QED
    BY <1>1, <1>3, <2>1 DEF Grown, ChoseProposal
<1>5. References'
  <2> SUFFICES ASSUME NEW p \in Ids
               PROVE  /\ proposal'[p].base <= Last'
                      /\ IsFiniteSet(DOMAIN proposal'[p].ops)
                      /\ \A i \in DOMAIN conflicts'[p] : conflicts'[p][i].current <= Last'
    BY DEF References
  <2>1. /\ proposal[p].base <= Last /\ IsFiniteSet(DOMAIN proposal[p].ops)
        /\ \A i \in DOMAIN conflicts[p] : conflicts[p][i].current <= Last
    BY DEF IInv, References
  <2>2. proposal[p].base \in Nat /\ \A i \in DOMAIN conflicts[p] : conflicts[p][i].current \in Nat
    BY <1>1, RowFields DEF ConflictRows
  <2>3. QED
    BY <1>1, <1>3, <2>1, <2>2
<1>6. BatchesChosen' /\ BatchRows'
  BY <1>2, <1>4, RowsAppended
<1>7. OpenConflictsBlock'
  BY <1>3 DEF IInv, OpenConflictsBlock
<1>8. ASSUME NEW s \in Sessions PROVE SessionOk(session[s])'
  <2>1. CASE session'[s] = Idle
    BY <2>1 DEF SessionOk, Idle
  <2>2. CASE session'[s] # Idle
    <3>1. session'[s] = session[s]
      BY <2>2
    <3>2. session[s].phase = "undoing" =>
            /\ session[s].proposal \in Ids \ {a}
            /\ proposal[session[s].proposal].status = "applied"
            /\ proposal[session[s].proposal].batch = "applied"
      BY <1>1, <2>2, SessionFields DEF IInv, SessionOk
    <3>3. QED
      BY <1>2, <1>4, <3>1, <3>2, SessionKept
  <2>3. QED
    BY <2>1, <2>2
<1>9. UndoneByOne'
  BY DEF IInv, UndoneByOne, Idle
<1>10. QED
  BY <1>2, <1>5, <1>6, <1>7, <1>8, <1>9 DEF IInv

LEMMA PublishInv ==
    ASSUME IInv, NEW b \in Blocks, NEW v \in Values \cup {Absent}, Publish(b, v)
    PROVE  IInv'
<1> DEFINE c == [Current EXCEPT ![b] = v]
<1>1. c \in Content
  BY RevisionFields DEF IInv, Content
<1>2. AppendRevision(c, Editor, FALSE) /\ UNCHANGED <<proposal, conflicts, session>>
  BY DEF Publish
<1>3. /\ Editor \notin Ids
      /\ proposal' \in [Ids -> ProposalRows] /\ session' \in [Sessions -> SessionStates]
  BY <1>2, EditorAssumption DEF IInv, Types
<1> HIDE DEF c
<1>4. QED
  BY <1>1, <1>2, <1>3, RevisionInv

(* What Prepare reads changes only what its operations may change.         *)
LEMMA PatchIsChosen ==
    ASSUME Types, NEW p \in Ids, \A b \in Effective(p) : Patchable(p, b)
    PROVE  Patched(p) \in Content /\ Chosen(p, Current, Patched(p))
<1>1. Effective(p) \subseteq DOMAIN proposal[p].ops \cap Blocks
  BY DEF Effective, Operations
<1>2. \A b \in Effective(p) : proposal[p].ops[b].value \in Values \cup {Absent}
  BY <1>1, RowFields, OperationsAre DEF Operation
<1>3. Current \in Content
  BY RevisionFields
<1>4. Patched(p) \in Content
  BY <1>1, <1>2, <1>3 DEF Patched, Content, Operations
<1>5. ASSUME NEW b \in Blocks, Patched(p)[b] # Current[b]
      PROVE  /\ b \in DOMAIN proposal[p].ops
             /\ Patched(p)[b] = proposal[p].ops[b].value
             /\ proposal[p].ops[b].hash \in {NoHash, Current[b]} \/ ChoseProposal(p, b)
  <2>1. b \in Effective(p) /\ Patched(p)[b] = proposal[p].ops[b].value
    BY <1>5 DEF Patched, Operations
  <2>2. Patchable(p, b)
    BY <2>1
  <2>3. Choice(p, b) = "proposed" \/ proposal[p].ops[b].hash \in {NoHash, Current[b]}
    BY <2>2 DEF Patchable, Matches, Hash, Operations
  <2>4. QED
    BY <1>1, <2>1, <2>3, ChoiceIsARow
<1>6. QED
  BY <1>4, <1>5 DEF Chosen

LEMMA PrepareInv ==
    ASSUME IInv, NEW s \in Sessions, Prepare(s)
    PROVE  IInv'
<1> DEFINE p == session[s].proposal
           v == [phase |-> "prepared", proposal |-> p, expected |-> Last, content |-> Patched(p)]
<1>1. Types /\ p \in Ids /\ Submitted(p) /\ Last \in Nat \ {0}
  BY SessionFields, RevisionFields DEF IInv, Prepare, SessionOk
<1>2. UNCHANGED <<history, proposal, conflicts>>
  BY DEF Prepare
<1>3. CASE \A b \in Effective(p) : Patchable(p, b)
  <2>1. session' = [session EXCEPT ![s] = v]
    BY <1>3 DEF Prepare
  <2>2. Patched(p) \in Content /\ Chosen(p, Current, Patched(p))
    BY <1>1, <1>3, PatchIsChosen
  <2> DEFINE content == Patched(p)
  <2>3. v \in [phase : {"prepared"}, proposal : Ids, expected : Nat \ {0}, content : Content]
    BY <1>1, <2>2
  <2>4. v \in SessionStates
    BY <2>3 DEF SessionStates
  <2>5. SessionOk(v)
    BY <1>1, <2>2 DEF SessionOk, Current
  <2>6. QED
    BY <1>2, <2>1, <2>4, <2>5, SessionInv
<1>4. CASE ~ \A b \in Effective(p) : Patchable(p, b)
  <2>1. session' = [session EXCEPT ![s] = Idle]
    BY <1>4 DEF Prepare
  <2>2. QED
    BY <1>2, <2>1, IdleInv
<1>5. QED
  BY <1>3, <1>4

LEMMA ApplyInv ==
    ASSUME IInv, NEW s \in Sessions, Apply(s)
    PROVE  IInv'
<1> DEFINE p == session[s].proposal  c == session[s].content
<1>1. /\ Types /\ p \in Ids /\ c \in Content /\ Submitted(p)
      /\ session[s].expected \in Nat /\ Chosen(p, history[session[s].expected].content, c)
      /\ session' = [session EXCEPT ![s] = Idle] /\ conflicts' = conflicts
  BY SessionFields DEF IInv, Apply, SessionOk
<1>2. CASE MayApply(p) /\ session[s].expected = Last
  <2>1. /\ AppendRevision(c, p, FALSE)
        /\ proposal' = [proposal EXCEPT ![p].status = "applied", ![p].batch = "applied"]
    BY <1>2 DEF Apply
  <2>2. proposal[p].status = "approved" /\ proposal[p].batch = "none"
    BY <1>2 DEF MayApply
  <2>3. Chosen(p, Current, c)
    BY <1>1, <1>2 DEF Current
  <2>4. /\ session' \in [Sessions -> SessionStates]
        /\ \A t \in Sessions : session'[t] \in {session[t], Idle}
    BY <1>1, IdleIsFine DEF Types
  <2>5. \A t \in Sessions : ~(session[t].phase = "undoing" /\ session[t].proposal = p)
    BY <2>2 DEF IInv, SessionOk
  <2> HIDE DEF p, c
  <2>6. /\ proposal' \in [Ids -> ProposalRows]
        /\ \A q \in Ids \ {p} : proposal'[q] = proposal[q]
        /\ proposal'[p].base = proposal[p].base /\ proposal'[p].ops = proposal[p].ops
        /\ proposal'[p].batch = "applied" /\ proposal'[p].status = "applied"
    BY <1>1, <2>1 DEF Types, ProposalRows, Statuses
  <2>7. QED
    BY <1>1, <2>1, <2>2, <2>3, <2>4, <2>5, <2>6, RevisionInv
<1>3. CASE ~(MayApply(p) /\ session[s].expected = Last)
  <2>1. UNCHANGED <<history, proposal, conflicts>>
    BY <1>1, <1>3 DEF Apply
  <2>2. QED
    BY <1>1, <2>1, IdleInv
<1>4. QED
  BY <1>2, <1>3

LEMMA PreflightInv ==
    ASSUME IInv, NEW s \in Sessions, NEW p \in Ids, Preflight(s, p)
    PROVE  IInv'
<1> DEFINE v == [phase |-> "undoing", proposal |-> p]
<1>1. /\ session' = [session EXCEPT ![s] = v] /\ ~Locked(p)
      /\ UNCHANGED <<history, proposal, conflicts>>
      /\ proposal[p].batch = "applied" /\ proposal[p].status = "applied"
  BY DEF Preflight
<1>2. v \in SessionStates /\ SessionOk(v)
  BY <1>1 DEF SessionStates, SessionOk, Submitted
<1>3. v.proposal = p
  OBVIOUS
<1> HIDE DEF v
<1>4. QED
  BY <1>1, <1>2, <1>3, SessionInv

LEMMA UndoInv ==
    ASSUME IInv, NEW s \in Sessions, Undo(s)
    PROVE  IInv'
<1> DEFINE p == session[s].proposal  c == history[BackTo(p)].content
<1>1. /\ Types /\ p \in Ids /\ Submitted(p)
      /\ proposal[p].status = "applied" /\ proposal[p].batch = "applied"
  BY SessionFields DEF IInv, Undo, SessionOk
<1>2. /\ AppendRevision(c, p, TRUE) /\ session' = [session EXCEPT ![s] = Idle]
      /\ proposal' = [proposal EXCEPT ![p].status = "rolled_back", ![p].batch = "rolled_back"]
      /\ conflicts' = conflicts
  BY DEF Undo
<1>3. c \in Content
  <2>1. Batch(p) # {}
    BY <1>1 DEF IInv, BatchRows
  <2>2. (CHOOSE i \in Batch(p) : TRUE) \in Batch(p)
    BY <2>1
  <2>3. (CHOOSE i \in Batch(p) : TRUE) \in 2 .. Last
    BY <1>1, <2>2, BatchIsSubmitted
  <2>4. BackTo(p) \in 1 .. Last
    BY <1>1, <2>3, RevisionFields DEF BackTo
  <2>5. QED
    BY <1>1, <2>4, RevisionFields
<1>4. /\ session' \in [Sessions -> SessionStates]
      /\ \A t \in Sessions : session'[t] \in {session[t], Idle}
  BY <1>1, <1>2, IdleIsFine DEF Types
<1>5. \A t \in Sessions :
        session[t].phase = "undoing" /\ session[t].proposal = p => session'[t] = Idle
  <2>1. session[s].phase = "undoing" /\ session'[s] = Idle
    BY <1>1, <1>2 DEF Undo, Types
  <2>2. QED
    BY <2>1 DEF IInv, UndoneByOne
<1> HIDE DEF p, c
<1>6. /\ proposal' \in [Ids -> ProposalRows]
      /\ \A q \in Ids \ {p} : proposal'[q] = proposal[q]
      /\ proposal'[p].base = proposal[p].base /\ proposal'[p].ops = proposal[p].ops
      /\ proposal'[p].batch = "rolled_back" /\ proposal'[p].status = "rolled_back"
  BY <1>1, <1>2 DEF Types, ProposalRows, Statuses
<1>7. QED
  BY <1>1, <1>2, <1>3, <1>4, <1>5, <1>6, RevisionInv

-----------------------------------------------------------------------------
LEMMA NextInv == IInv /\ [Next]_vars => IInv'
<1> SUFFICES ASSUME IInv, [Next]_vars PROVE IInv'
  OBVIOUS
<1>1. ASSUME NEW b \in Blocks, NEW v \in Values \cup {Absent}, Publish(b, v) PROVE IInv'
  BY <1>1, PublishInv
<1>2. ASSUME NEW p \in Ids,
             \/ Draft(p)
             \/ \E t \in Targets, op \in Operation : AddOperation(p, t, op)
             \/ \E auto \in BOOLEAN : Submit(p, auto)
             \/ \E approve \in BOOLEAN : Decide(p, approve)
             \/ \E i \in DOMAIN conflicts[p], choice \in {"current", "proposed"} :
                  Resolve(p, i, choice)
             \/ \E s \in Sessions : Detect(s, p) \/ Preflight(s, p)
      PROVE  IInv'
  BY <1>2, DraftInv, AddOperationInv, SubmitInv, DecideInv, ResolveInv, DetectInv, PreflightInv
<1>3. ASSUME NEW s \in Sessions, Record(s) \/ Prepare(s) \/ Apply(s) \/ Undo(s) \/ Abandon(s)
      PROVE  IInv'
  <2>1. ASSUME Abandon(s) PROVE IInv'
    BY <2>1, IdleInv DEF Abandon
  <2>2. QED
    BY <1>3, <2>1, RecordInv, PrepareInv, ApplyInv, UndoInv
<1>4. CASE UNCHANGED vars
  <2>1. UNCHANGED <<history, proposal, conflicts, session>>
    BY <1>4 DEF vars
  <2>2. Last' = Last
    BY <2>1 DEF Last
  <2>3. Types' /\ References' /\ OpenConflictsBlock' /\ UndoneByOne'
    BY <2>1, <2>2 DEF IInv, Types, References, OpenConflictsBlock, UndoneByOne
  <2>4. Grown
    <3>1. Last >= Last
      BY RevisionFields DEF IInv
    <3>2. QED
      BY <2>1, <2>2, <3>1 DEF Grown, Submitted, ChoseProposal
  <2>5. BatchesChosen' /\ BatchRows'
    BY <2>1, <2>3, <2>4, RowsKept
  <2>6. \A s \in Sessions : SessionOk(session[s])'
    BY <2>1, <2>3, <2>4, SessionKept DEF IInv, SessionOk
  <2>7. QED
    BY <2>3, <2>5, <2>6 DEF IInv
<1>5. QED
  BY <1>1, <1>2, <1>3, <1>4 DEF Next

LEMMA Invariance == Spec => []IInv
<1>1. QED
  BY InitInv, NextInv, PTL DEF Spec

(* The rows and what a call has read keep their fields, whatever editors,   *)
(* reviewers and calls do (service.go, conflict.go, apply.go, rollback.go).*)
THEOREM TypeCorrect == Spec => []TypeOK
<1>1. ASSUME IInv PROVE TypeOK
  <2>1. Types /\ References
    BY <1>1 DEF IInv
  <2>2. history \in Seq([content : Content, by : Ids \cup {Editor}, undo : BOOLEAN])
        /\ Last \in 1 .. MaxRevisions
    BY <2>1 DEF Types, Revision
  <2>3. ASSUME NEW p \in Ids
        PROVE  /\ proposal[p].status \in {"none", "draft", "in_review", "approved", "rejected",
                                          "conflicted", "applied", "rolled_back"}
               /\ proposal[p].base \in 1 .. Last
               /\ DOMAIN Operations(p) \subseteq Targets
               /\ proposal[p].review \in {"none", "pending", "auto", "approved", "rejected"}
               /\ proposal[p].batch \in {"none", "applied", "rolled_back"}
    <3>1. proposal[p].base \in Nat \ {0} /\ Last \in Nat /\ proposal[p].base <= Last
      BY <2>1, RowFields, RevisionFields DEF References
    <3>2. DOMAIN Operations(p) \subseteq Targets
      BY <2>1, RowFields, OperationsAre DEF Operations
    <3>3. QED
      BY <2>1, <3>1, <3>2, RowFields DEF Statuses
  <2>4. ASSUME NEW p \in Ids
        PROVE  conflicts[p] \in Seq([block : Targets, current : 1 .. Last,
                                     choice : {"open", "current", "proposed"}])
    <3> DEFINE S == [block : Targets, current : 1 .. Last,
                     choice : {"open", "current", "proposed"}]
               rows == conflicts[p]
    <3>1. rows \in Seq(ConflictRows) /\ Len(rows) \in Nat /\ DOMAIN rows = 1 .. Len(rows)
          /\ Last \in Nat
      BY <2>1, RowFields, RevisionFields
    <3>2. \A i \in 1 .. Len(rows) : rows[i] \in S
      BY <2>1, <3>1, RowFields DEF References, ConflictRows
    <3> HIDE DEF S
    <3>3. rows = [i \in 1 .. Len(rows) |-> rows[i]]
      BY <3>1
    <3>4. rows \in [1 .. Len(rows) -> S]
      BY <3>2, <3>3
    <3>5. rows \in Seq(S)
      BY <3>1, <3>4, SeqDef
    <3>6. QED
      BY <3>5 DEF S
  <2>5. \A s \in Sessions : session[s].phase \in {"idle", "clear", "found", "prepared", "undoing"}
    BY <2>1, SessionFields
  <2>6. QED
    BY <2>2, <2>3, <2>4, <2>5 DEF TypeOK
<1>2. QED
  BY <1>1, Invariance, PTL

(* No edit disappears unnoticed under an operation that carries a hash: a   *)
(* batch changes only blocks its operations name, to what they propose,     *)
(* where they are what the hash says or a human chose the proposal.  What   *)
(* an operation without a hash meets, nobody compares (page_patch.go:130).  *)
(* What Prepare read may be old by the time Apply writes it, but then the  *)
(* base is stale and nothing is written (apply.go, resolved_operations.go).*)
THEOREM NoSilentOverwrite == Spec => []OverwritesAreChosen
<1>1. ASSUME IInv PROVE OverwritesAreChosen
  <2> SUFFICES ASSUME NEW p \in Ids, NEW i \in Batch(p), NEW b \in Blocks,
                      history[i].content[b] # history[i - 1].content[b]
               PROVE  /\ b \in DOMAIN Operations(p)
                      /\ history[i].content[b] = Operations(p)[b].value
                      /\ Hash(p, b) \in {NoHash, history[i - 1].content[b]} \/ ChoseProposal(p, b)
    BY DEF OverwritesAreChosen
  <2>1. Chosen(p, history[i - 1].content, history[i].content)
    BY <1>1 DEF IInv, BatchesChosen
  <2>2. QED
    BY <2>1 DEF Chosen, Hash, Operations
<1>2. QED
  BY <1>1, Invariance, PTL

(* However many calls apply or roll back a proposal at once, it is applied  *)
(* at most once and compensated at most once: both are decided under the   *)
(* lock of its row (Apply and Rollback), which also says so.               *)
THEOREM AppliesOnce == Spec => []AppliedOnce
<1>1. ASSUME IInv PROVE AppliedOnce
  <2> SUFFICES ASSUME NEW p \in Ids
               PROVE  /\ Cardinality(Batch(p)) = IF proposal[p].batch = "none" THEN 0 ELSE 1
                      /\ Cardinality(Undone(p)) =
                           IF proposal[p].batch = "rolled_back" THEN 1 ELSE 0
                      /\ proposal[p].batch # "none" => proposal[p].status = proposal[p].batch
    BY DEF AppliedOnce, Undone
  <2>1. /\ IF proposal[p].batch = "none" THEN Batch(p) = {}
           ELSE \E i \in 1 .. Last : Batch(p) = {i}
        /\ IF proposal[p].batch = "rolled_back" THEN \E i \in 1 .. Last : Undone(p) = {i}
           ELSE Undone(p) = {}
        /\ proposal[p].batch # "none" => proposal[p].status = proposal[p].batch
    BY <1>1 DEF IInv, BatchRows
  <2>2. Cardinality({}) = 0 /\ \A x : Cardinality({x}) = 1
    BY FS_EmptySet, FS_Singleton
  <2>3. QED
    BY <2>1, <2>2
<1>2. QED
  BY <1>1, Invariance, PTL

(* A proposal is conflicted exactly while a conflict of it is open, so that *)
(* nothing is applied past one (DetectAndRecord, conflict_resolution.go).  *)
THEOREM ConflictsBlock == Spec => []OpenConflictsBlock
<1>1. IInv => OpenConflictsBlock
  BY DEF IInv
<1>2. QED
  BY <1>1, Invariance, PTL
=============================================================================
