-------------------------- MODULE ProjectionProofs --------------------------
(* Theorems about Projection for any workers, rebuilders, revisions,       *)
(* faults, duplicate deliveries and rebuilds.  The scoped specification is *)
(* that of the run, whose model values are any constants here.             *)
EXTENDS MCProjectionScopes, TLAPS

Rebuilding == {"wipe", "wiping", "commit"}
Writing == {"wipe", "wiping", "write"}

Indexing == {"index", "wait"}
Locking == {"index", "wait", "withdraw", "withdrawing"}

(* Whoever asks the remote index to show a revision, or rebuilds a page in *)
(* one transaction, has the page row locked since it found that revision   *)
(* to be current, until it has its answer or gives up.                     *)
LockInv ==
    /\ \A p \in Procs : proc[p].at \in Locking =>
         lock = p /\ (proc[p].at \in Indexing => Expected(p))
    /\ \A p \in Rebuilders : proc[p].at \in Rebuilding =>
         lock = p /\ CurrentOk /\ proc[p].got = current

(* A worker that writes rows has read a revision to write.                 *)
GotInv == \A w \in Workers : proc[w].at \in Writing => proc[w].got # 0

IInv == TypeOK /\ LockInv /\ GotInv

Place == {"idle", "clear", "guard", "read", "wipe", "wiping", "write", "stage", "sync",
          "index", "wait", "check", "record", "error", "again", "rewrite", "unlist",
          "withdraw", "withdrawing", "emptyStage", "emptyRemote", "emptying",
          "lockPage", "commit", "refresh"}
Task == [doc : 0 .. MaxRevisions, by : Procs]
ProcType == [at : Place, event : Event, b : Builders, got : 0 .. MaxRevisions,
             seen : SUBSET Revision]
StateType == [Builders -> [status : {"none", "ok", "error"}, source : 0 .. MaxRevisions]]

(* Types of everything but the page and the processes.                     *)
Others ==
    /\ lock \in Procs \cup {NoOne} /\ links \subseteq Revision
    /\ {rendered, staged, remote} \subseteq 0 .. MaxRevisions /\ tasks \in Seq(Task)
    /\ state \in StateType /\ open \subseteq Event /\ dead \subseteq Event
    /\ faults \in 0 .. MaxFaults /\ duplicates \in 0 .. MaxDuplicates
    /\ rebuilds \in 0 .. MaxRebuilds /\ missed \in BOOLEAN /\ rebuildFailed \in BOOLEAN

LEMMA Constants ==
    /\ MaxRevisions \in Nat /\ 0 \in 0 .. MaxRevisions
    /\ Revision \subseteq 0 .. MaxRevisions /\ Event = 0 .. MaxRevisions
    /\ Idle \in ProcType /\ Idle.at = "idle"
    /\ [b \in Builders |-> Unknown] \in StateType
    /\ \A r \in 0 .. MaxRevisions, st \in {"ok", "error"} :
         [status |-> st, source |-> r] \in
            [status : {"none", "ok", "error"}, source : 0 .. MaxRevisions]
BY ProjectionAssumption
   DEF Revision, Event, Deleted, Idle, ProcType, Place, Builders, FirstBuilder,
       Unknown, StateType

LEMMA InitInv == Init => IInv
<1> SUFFICES ASSUME Init PROVE IInv
  OBVIOUS
<1>1. \A p \in Procs : proc[p] = Idle
  BY DEF Init
<1>2. proc \in [Procs -> ProcType]
  BY Constants DEF Init
<1>3. TypeOK
  <2>1. state \in StateType
    BY Constants DEF Init
  <2>2. proc \in [Procs -> ProcType]
    BY <1>2
  <2>3. /\ current \in 0 .. MaxRevisions /\ lock \in Procs \cup {NoOne}
        /\ links \subseteq Revision /\ open \subseteq Event /\ dead \subseteq Event
        /\ {rendered, staged, remote} \subseteq 0 .. MaxRevisions
        /\ deleted \in BOOLEAN /\ missed \in BOOLEAN /\ rebuildFailed \in BOOLEAN
    BY Constants DEF Init
  <2>4. faults \in 0 .. MaxFaults /\ duplicates \in 0 .. MaxDuplicates
        /\ rebuilds \in 0 .. MaxRebuilds
    BY ProjectionAssumption DEF Init
  <2>5. tasks \in Seq(Task)
    <3>1. tasks = <<>>
      BY DEF Init
    <3>2. QED
      BY <3>1
  <2>6. QED
    BY <2>1, <2>2, <2>3, <2>4, <2>5 DEF TypeOK, ProcType, Place, StateType, Task
<1>4. LockInv /\ GotInv
  <2>1. \A p \in Procs : proc[p].at = "idle"
    BY <1>1 DEF Idle
  <2>2. QED
    BY <2>1 DEF LockInv, GotInv, Rebuilding, Writing, Locking, Procs
<1>5. QED
  BY <1>4, <1>3 DEF IInv

(* A process alone moves on: only what it then claims must be so, and      *)
(* nobody else's lock is taken away.                                       *)
LEMMA ProcStep ==
    ASSUME IInv, NEW p \in Procs, NEW v \in ProcType,
           proc' = [proc EXCEPT ![p] = v],
           UNCHANGED page, Others', lock \notin {p, NoOne} => lock' = lock,
           v.at \in Locking => lock' = p,
           v.at \in Locking /\ v.at \in Indexing =>
             CurrentOk /\ current = IF p \in Workers THEN v.event ELSE v.got,
           p \in Rebuilders =>
             (v.at \in Rebuilding => lock' = p /\ CurrentOk /\ v.got = current),
           p \in Workers => (v.at \in Writing => v.got # 0)
    PROVE  IInv'
<1>1. proc \in [Procs -> ProcType] /\ current' = current /\ deleted' = deleted
  BY DEF IInv, TypeOK, ProcType, Place, page
<1>2. /\ proc' \in [Procs -> ProcType]
      /\ proc'[p] = v
      /\ \A q \in Procs \ {p} : proc'[q] = proc[q]
  BY <1>1
<1>3. TypeOK'
  BY <1>1, <1>2 DEF IInv, TypeOK, Others, ProcType, Place, StateType, Task
<1>4. LockInv'
  <2>1. \A q \in Procs : proc'[q].at \in Locking =>
          lock' = q /\ (proc'[q].at \in Indexing => Expected(q)')
    <3> SUFFICES ASSUME NEW q \in Procs, proc'[q].at \in Locking
                 PROVE  lock' = q /\ (proc'[q].at \in Indexing => Expected(q)')
      OBVIOUS
    <3>1. CASE q = p
      BY <3>1, <1>1, <1>2 DEF Expected, CurrentOk, Synced
    <3>2. CASE q # p
      <4>1. /\ proc'[q] = proc[q] /\ lock = q /\ q # NoOne
            /\ proc[q].at \in Indexing => Expected(q)
        BY <3>2, <1>2, ProjectionAssumption DEF IInv, LockInv, Procs
      <4>2. QED
        BY <3>2, <4>1, <1>1 DEF Expected, CurrentOk, Synced
    <3>3. QED
      BY <3>1, <3>2
  <2>2. \A q \in Rebuilders : proc'[q].at \in Rebuilding =>
          lock' = q /\ CurrentOk' /\ proc'[q].got = current'
    <3> SUFFICES ASSUME NEW q \in Rebuilders, proc'[q].at \in Rebuilding
                 PROVE  lock' = q /\ CurrentOk' /\ proc'[q].got = current'
      OBVIOUS
    <3>1. CASE q = p
      BY <3>1, <1>1, <1>2 DEF CurrentOk
    <3>2. CASE q # p
      <4>1. proc'[q] = proc[q] /\ lock = q /\ q # NoOne
            /\ CurrentOk /\ proc[q].got = current
        BY <3>2, <1>2, ProjectionAssumption DEF IInv, LockInv, Procs
      <4>2. QED
        BY <3>2, <4>1, <1>1 DEF CurrentOk
    <3>3. QED
      BY <3>1, <3>2
  <2>3. QED
    BY <2>1, <2>2 DEF LockInv
<1>5. GotInv'
  BY <1>2 DEF IInv, GotInv, Procs
<1>6. QED
  BY <1>3, <1>4, <1>5 DEF IInv

LEMMA Moved ==
    ASSUME IInv, NEW p \in Procs
    PROVE  /\ proc \in [Procs -> ProcType] /\ proc[p] \in ProcType
           /\ \A place \in Place :
                /\ [proc[p] EXCEPT !.at = place] \in ProcType
                /\ [proc[p] EXCEPT !.at = place].at = place
                /\ [proc[p] EXCEPT !.at = place].event = proc[p].event
                /\ [proc[p] EXCEPT !.at = place].got = proc[p].got
           /\ NextBuilder(p) \in ProcType
           /\ NextBuilder(p).at \in {"again", "guard"}
<1>1. proc \in [Procs -> ProcType] /\ proc[p] \in ProcType
  BY DEF IInv, TypeOK, ProcType, Place
<1>2. NextBuilder(p) \in ProcType /\ NextBuilder(p).at \in {"again", "guard"}
  <2>1. \A b \in Builders : After[b] # "none" => After[b] \in Builders
    BY DEF After, Builders
  <2>2. "rendered" \in Builders
    BY DEF Builders
  <2>3. QED
    BY <1>1, <2>1, <2>2 DEF NextBuilder, ProcType, Place
<1>3. \A place \in Place :
        /\ [proc[p] EXCEPT !.at = place] \in ProcType
        /\ [proc[p] EXCEPT !.at = place].at = place
        /\ [proc[p] EXCEPT !.at = place].event = proc[p].event
        /\ [proc[p] EXCEPT !.at = place].got = proc[p].got
  BY <1>1 DEF ProcType
<1>4. QED
  BY <1>1, <1>2, <1>3

LEMMA Kept == ASSUME IInv PROVE Others /\ current \in 0 .. MaxRevisions
BY DEF IInv, TypeOK, StateType, Others, Task

(* A process that goes from one place to another.                          *)
LEMMA MoveStep ==
    ASSUME IInv, NEW p \in Procs, NEW place \in Place, Goto(p, place),
           UNCHANGED page, Others', lock \notin {p, NoOne} => lock' = lock,
           place \in Locking => lock' = p /\ (place \in Indexing => Expected(p)),
           p \in Rebuilders /\ place \in Rebuilding =>
               lock' = p /\ CurrentOk /\ proc[p].got = current,
           p \in Workers /\ place \in Writing => proc[p].got # 0
    PROVE  IInv'
<1> DEFINE v == [proc[p] EXCEPT !.at = place]
<1>1. /\ v \in ProcType /\ v.at = place /\ v.event = proc[p].event /\ v.got = proc[p].got
      /\ proc \in [Procs -> ProcType]
  BY Moved
<1>2. proc' = [proc EXCEPT ![p] = v]
  BY <1>1 DEF Goto
<1> HIDE DEF v
<1>3. /\ v.at \in Locking => lock' = p
      /\ v.at \in Locking /\ v.at \in Indexing =>
           CurrentOk /\ current = IF p \in Workers THEN v.event ELSE v.got
  BY <1>1 DEF Expected, Synced
<1>4. p \in Rebuilders =>
        (v.at \in Rebuilding => lock' = p /\ CurrentOk /\ v.got = current)
  BY <1>1
<1>5. QED
  BY <1>1, <1>2, <1>3, <1>4, ProcStep

(* A process that ends what it was doing.                                  *)
LEMMA ResetStep ==
    ASSUME IInv, NEW p \in Procs, Reset(p),
           UNCHANGED page, Others', lock \notin {p, NoOne} => lock' = lock
    PROVE  IInv'
<1> DEFINE v == Idle
<1>1. v \in ProcType /\ v.at \notin Locking /\ v.at \notin Rebuilding /\ v.at \notin Writing
  BY Constants DEF Rebuilding, Writing, Locking
<1>2. proc' = [proc EXCEPT ![p] = v]
  BY DEF Reset
<1> HIDE DEF v
<1>3. QED
  BY <1>1, <1>2, ProcStep

(* Recording one builder's state.                                          *)
LEMMA StateStep ==
    ASSUME IInv, NEW b \in Builders, NEW q \in 0 .. MaxRevisions, NEW st \in {"ok", "error"}
    PROVE  [state EXCEPT ![b] = [status |-> st, source |-> q]] \in StateType
BY Constants, Kept DEF StateType, Others

LEMMA UpsertStep ==
    ASSUME IInv, NEW b \in Builders, NEW q \in 0 .. MaxRevisions, NEW st \in {"ok", "error"},
           Upsert(b, [status |-> st, source |-> q]), UNCHANGED <<lock, rows>>,
           open' \subseteq Event, dead' \subseteq Event
    PROVE  Others'
<1>1. CASE state' = [state EXCEPT ![b] = [status |-> st, source |-> q]] /\ UNCHANGED counters
  BY <1>1, StateStep, Kept DEF counters, Others, rows
<1>2. CASE /\ faults < MaxFaults /\ faults' = faults + 1 /\ missed' = TRUE
           /\ UNCHANGED <<state, duplicates, rebuilds, rebuildFailed>>
  BY <1>2, Kept, ProjectionAssumption DEF Others, rows
<1>3. QED
  BY <1>1, <1>2 DEF Upsert

LEMMA HandlerFailedStep ==
    ASSUME IInv, NEW w \in Procs, HandlerFailed(w)
    PROVE  Reset(w) /\ open' \subseteq Event /\ dead' \subseteq Event
BY Kept, Moved DEF HandlerFailed, queue, ProcType, Others

(***************************************************************************)
(* The page domain and delivery.                                           *)
(***************************************************************************)
LEMMA PageInv == ASSUME IInv, Publish \/ Delete PROVE IInv'
<1>1. /\ lock = NoOne /\ UNCHANGED <<lock, rows, state, dead, proc, counters>>
      /\ current' \in 0 .. MaxRevisions /\ deleted' \in BOOLEAN /\ open' \subseteq Event
  <2>1. CASE Publish
    <3>1. current + 1 \in Event /\ current + 1 \in 0 .. MaxRevisions
      BY <2>1, Constants, Kept DEF Publish
    <3>2. QED
      BY <2>1, <3>1, Kept DEF Publish, IInv, TypeOK
  <2>2. CASE Delete
    BY <2>2, Kept DEF Delete, Event, Others
  <2>3. QED
    BY <2>1, <2>2
<1>2. TypeOK'
  BY <1>1 DEF IInv, TypeOK, rows, counters
<1>3. /\ \A p \in Procs : proc[p].at \notin Locking
      /\ \A p \in Rebuilders : proc[p].at \notin Rebuilding
  BY <1>1, ProjectionAssumption DEF IInv, LockInv, Procs
<1>4. LockInv' /\ GotInv'
  BY <1>1, <1>3 DEF LockInv, GotInv, IInv
<1>5. QED
  BY <1>2, <1>4 DEF IInv

LEMMA IsWorker ==
    ASSUME NEW w \in Workers
    PROVE  w \in Procs /\ w \notin Rebuilders
BY ProjectionAssumption DEF Procs

LEMMA TakeInv == ASSUME IInv, NEW w \in Workers, NEW e \in Event, Take(w, e) PROVE IInv'
<1> DEFINE v == [Idle EXCEPT !.at = IF e = Deleted THEN "clear" ELSE "guard", !.event = e]
<1>1. v \in ProcType /\ v.at \in {"clear", "guard"} /\ proc' = [proc EXCEPT ![w] = v]
  BY Constants DEF Take, ProcType, Place, Idle
<1>2. /\ UNCHANGED <<page, lock, rows, state, queue, faults, rebuilds, missed, rebuildFailed>>
      /\ duplicates' \in 0 .. MaxDuplicates
  BY Kept, ProjectionAssumption DEF Take, Others
<1> HIDE DEF v
<1>3. /\ Others' /\ UNCHANGED page /\ lock' = lock
      /\ v.at \notin Locking /\ v.at \notin Writing
  BY <1>1, <1>2, Kept DEF Others, rows, queue, Writing, Locking
<1>4. QED
  BY <1>1, <1>3, IsWorker, ProcStep

LEMMA CrashWorkerInv == ASSUME IInv, NEW w \in Workers, CrashWorker(w) PROVE IInv'
<1>1. Others'
  BY Kept, ProjectionAssumption DEF CrashWorker, Others, rows, queue
<1>2. QED
  BY <1>1, IsWorker, ResetStep DEF CrashWorker

(***************************************************************************)
(* Steps of a worker.                                                      *)
(***************************************************************************)

(* From one builder to the next.                                           *)
LEMMA NextBuilderStep ==
    ASSUME IInv, NEW w \in Workers, proc' = [proc EXCEPT ![w] = NextBuilder(w)],
           UNCHANGED <<page, lock>>, Others'
    PROVE  IInv'
<1> DEFINE v == NextBuilder(w)
<1>1. v \in ProcType /\ v.at \notin Locking /\ v.at \notin Writing /\ UNCHANGED page
  BY IsWorker, Moved DEF Writing, Locking
<1> HIDE DEF v
<1>2. QED
  BY <1>1, IsWorker, ProcStep DEF v

LEMMA GuardInv ==
    ASSUME IInv, NEW w \in Workers, GuardBefore(w) \/ GuardAfter(w)
    PROVE  IInv'
<1>1. UNCHANGED page /\ Others' /\ lock' = lock
  BY Kept DEF GuardBefore, GuardAfter, Others, rows, queue, counters
<1>2. \/ proc' = [proc EXCEPT ![w] = NextBuilder(w)]
      \/ Goto(w, "stage") \/ Goto(w, "read") \/ Goto(w, "record")
  BY IsWorker, Moved DEF GuardBefore, GuardAfter, Goto
<1>3. {"stage", "read", "record"} \subseteq Place \ (Writing \cup Locking)
  BY DEF Place, Writing, Locking
<1>4. CASE proc' = [proc EXCEPT ![w] = NextBuilder(w)]
  BY <1>1, <1>4, NextBuilderStep
<1>5. CASE Goto(w, "stage")
  BY <1>1, <1>3, <1>5, IsWorker, MoveStep
<1>6. CASE Goto(w, "read")
  BY <1>1, <1>3, <1>6, IsWorker, MoveStep
<1>7. CASE Goto(w, "record")
  BY <1>1, <1>3, <1>7, IsWorker, MoveStep
<1>8. QED
  BY <1>2, <1>4, <1>5, <1>6, <1>7

LEMMA ReadInv == ASSUME IInv, NEW w \in Workers, Read(w) PROVE IInv'
<1>1. UNCHANGED <<page, lock, rows, state, counters>>
  BY DEF Read, HandlerFailed
<1>2. UNCHANGED page /\ lock' = lock
  BY <1>1
<1>3. CASE CurrentOk
  <2>1. PICK place \in {"rewrite", "wipe", "write"} :
          /\ proc' = [proc EXCEPT ![w] = [proc[w] EXCEPT !.got = current, !.at = place]]
          /\ UNCHANGED queue
    BY <1>3, IsWorker, Moved DEF Read
  <2> DEFINE v == [proc[w] EXCEPT !.got = current, !.at = place]
  <2>2. place \in Place
    BY DEF Place
  <2>3. v \in ProcType /\ v.at = place /\ v.got = current
    <3>1. current \in 0 .. MaxRevisions /\ w \in Procs
      BY IsWorker, Kept
    <3>2. proc[w] \in ProcType
      BY <3>1, Moved
    <3>3. QED
      BY <2>2, <3>1, <3>2 DEF ProcType
  <2>4. proc' = [proc EXCEPT ![w] = v]
    BY <2>1
  <2> HIDE DEF v
  <2>5. Others'
    BY <1>1, <2>1, Kept DEF Others, rows, queue, counters
  <2>6. v.at \notin Locking /\ v.got # 0
    BY <1>3, <2>3 DEF CurrentOk, Locking
  <2>7. QED
    BY <1>2, <2>3, <2>4, <2>5, <2>6, IsWorker, ProcStep
<1>4. CASE ~CurrentOk /\ HandlerFailed(w)
  <2>1. Reset(w) /\ open' \subseteq Event /\ dead' \subseteq Event
    BY <1>4, IsWorker, HandlerFailedStep
  <2>2. Others'
    BY <1>1, <2>1, Kept DEF Others, rows, counters
  <2>3. QED
    BY <1>2, <2>1, <2>2, IsWorker, ResetStep
<1>5. CASE ~CurrentOk /\ Goto(w, "error") /\ UNCHANGED queue
  <2>1. Others' /\ "error" \in Place \ (Writing \cup Locking)
    BY <1>1, <1>5, Kept DEF Others, rows, queue, counters, Place, Writing, Locking
  <2>2. QED
    BY <1>2, <1>5, <2>1, IsWorker, MoveStep
<1>6. QED
  BY <1>3, <1>4, <1>5 DEF Read

LEMMA WipeInv == ASSUME IInv, NEW p \in Procs, Wipe(p) PROVE IInv'
<1> DEFINE v == [proc[p] EXCEPT !.seen = links, !.at = "wiping"]
<1>1. proc \in [Procs -> ProcType] /\ proc[p].at = "wipe" /\ links \subseteq Revision
  BY Moved, Kept DEF Wipe, At, Others
<1>2. v \in ProcType /\ v.at \notin Locking /\ v.got = proc[p].got
  BY <1>1 DEF ProcType, Place, Locking
<1>3. proc' = [proc EXCEPT ![p] = v]
  BY <1>1 DEF Wipe
<1> HIDE DEF v
<1>4. UNCHANGED page /\ lock' = lock /\ Others'
  BY Kept DEF Wipe, Others, rows, queue, counters
<1>5. p \in Rebuilders => lock = p /\ CurrentOk /\ proc[p].got = current
  BY <1>1 DEF IInv, LockInv, Rebuilding
<1>6. p \in Workers => proc[p].got # 0
  BY <1>1 DEF IInv, GotInv, Writing
<1>7. QED
  BY <1>2, <1>3, <1>4, <1>5, <1>6, ProcStep

LEMMA WipedInv == ASSUME IInv, NEW p \in Procs, Wiped(p) PROVE IInv'
<1> DEFINE place == IF p \in Workers THEN "write" ELSE "commit"
<1>1. Goto(p, place) /\ proc[p].at = "wiping" /\ place \in Place /\ place \notin Locking
  BY DEF Wiped, At, Place, Locking
<1>2. UNCHANGED page /\ lock' = lock /\ Others'
  BY Kept DEF Wiped, Others, rows, queue, counters
<1>3. p \in Rebuilders => lock = p /\ CurrentOk /\ proc[p].got = current
  BY <1>1 DEF IInv, LockInv, Rebuilding
<1>4. p \in Workers => proc[p].got # 0
  BY <1>1 DEF IInv, GotInv, Writing
<1> HIDE DEF place
<1>5. QED
  BY <1>1, <1>2, <1>3, <1>4, MoveStep

LEMMA WriteInv == ASSUME IInv, NEW w \in Workers, Write(w) PROVE IInv'
<1>1. PICK place \in {"check", "error"} : Goto(w, place)
  BY DEF Write
<1>2. place \in Place /\ place \notin Locking /\ place \notin Writing
  BY DEF Place, Writing, Locking
<1>3. proc[w].got \in 0 .. MaxRevisions /\ proc[w].got \in Revision
  <2>1. proc[w].got \in 0 .. MaxRevisions
    BY IsWorker, Moved DEF ProcType
  <2>2. proc[w].got # 0
    BY DEF Write, At, IInv, GotInv, Writing
  <2>3. QED
    BY <2>1, <2>2, ProjectionAssumption DEF Revision
<1>4. UNCHANGED page /\ lock' = lock /\ UNCHANGED <<staged, remote, tasks, state, queue, counters>>
  BY DEF Write
<1>5. links' \subseteq Revision /\ rendered' \in 0 .. MaxRevisions
  BY <1>3, Kept DEF Write, LinksAfter, Others
<1>6. Others'
  BY <1>4, <1>5, Kept DEF Others, queue, counters
<1>7. QED
  BY <1>1, <1>2, <1>4, <1>6, IsWorker, MoveStep

LEMMA StageInv == ASSUME IInv, NEW w \in Workers, Stage(w) PROVE IInv'
<1>1. PICK place \in {"sync", "withdraw"} :
        /\ Goto(w, place)
        /\ lock' = IF place = "withdraw" THEN w ELSE lock
  BY DEF Stage
<1>2. UNCHANGED page /\ lock = NoOne /\ lock' \in Procs \cup {NoOne}
  BY <1>1, IsWorker DEF Stage
<1>3. Others'
  BY <1>2, Kept DEF Stage, Others, queue, counters
<1>4. /\ place \in Place /\ place \notin Writing /\ place \notin Indexing
      /\ place \in Locking => place = "withdraw"
  BY DEF Place, Writing, Indexing, Locking
<1>5. QED
  BY <1>1, <1>2, <1>3, <1>4, IsWorker, MoveStep

(* A request at the end of the remote index's tasks.                       *)
LEMMA Asked ==
    ASSUME IInv, NEW p \in Procs, NEW doc \in 0 .. MaxRevisions, Ask(p, doc)
    PROVE  tasks' \in Seq(Task)
<1>1. [doc |-> doc, by |-> p] \in Task
  BY DEF Task
<1>2. QED
  BY <1>1, Kept DEF Ask, Others

LEMMA WithdrawInv == ASSUME IInv, NEW w \in Workers, Withdraw(w) PROVE IInv'
<1>1. /\ Goto(w, "withdrawing") /\ UNCHANGED page /\ lock' = lock /\ lock = w
  BY IsWorker DEF Withdraw, At, IInv, LockInv, Locking
<1>2. tasks' \in Seq(Task)
  BY IsWorker, Constants, Asked DEF Withdraw
<1>3. Others'
  BY <1>2, Kept DEF Withdraw, Others, queue, counters
<1>4. "withdrawing" \in Place \ (Writing \cup Indexing)
  BY DEF Place, Writing, Indexing
<1>5. QED
  BY <1>1, <1>3, <1>4, IsWorker, MoveStep

LEMMA WithdrawnInv == ASSUME IInv, NEW w \in Workers, Withdrawn(w) PROVE IInv'
<1>1. UNCHANGED page /\ lock' = NoOne /\ lock = w
  BY IsWorker DEF Withdrawn, At, IInv, LockInv, Locking
<1>2. Others'
  BY Kept, Constants DEF Withdrawn, Close, Others, queue, counters
<1>3. CASE Reset(w)
  BY <1>1, <1>2, <1>3, IsWorker, ResetStep
<1>4. CASE Goto(w, "sync")
  <2>1. "sync" \in Place \ (Writing \cup Locking)
    BY DEF Place, Writing, Locking
  <2>2. QED
    BY <1>1, <1>2, <1>4, <2>1, IsWorker, MoveStep
<1>5. QED
  BY <1>3, <1>4 DEF Withdrawn

(* The lock is taken together with the check.                              *)
LEMMA SyncInv == ASSUME IInv, NEW p \in Procs, Sync(p) PROVE IInv'
<1>1. UNCHANGED page /\ lock = NoOne /\ UNCHANGED <<rows, state, queue, counters>>
  BY DEF Sync
<1>2. PICK place \in {"check", "refresh", "error", "index"} :
        /\ Goto(p, place)
        /\ place = "index" => lock' = p /\ Expected(p)
        /\ place # "index" => lock' = lock
  BY DEF Sync, SyncDone
<1>3. /\ place \in Place /\ place \notin Writing /\ place \notin Rebuilding
      /\ place \in Locking => place = "index"
  BY DEF Place, Writing, Rebuilding, Locking
<1>4. Others'
  BY <1>1, <1>2, Kept DEF Others, rows, queue, counters
<1>5. QED
  BY <1>1, <1>2, <1>3, <1>4, MoveStep

LEMMA IndexInv == ASSUME IInv, NEW p \in Procs, Index(p) PROVE IInv'
<1>1. /\ UNCHANGED page /\ lock' = lock /\ lock = p /\ Expected(p)
      /\ Goto(p, "wait") /\ Ask(p, Synced(p))
  BY DEF Index, At, IInv, LockInv, Locking, Indexing
<1>2. Synced(p) \in 0 .. MaxRevisions
  BY Constants, Moved DEF Synced, ProcType
<1>3. Others'
  BY <1>1, <1>2, Asked, Kept DEF Index, Others, queue, counters
<1>4. "wait" \in Place \ (Writing \cup Rebuilding)
  BY DEF Place, Writing, Rebuilding
<1>5. QED
  BY <1>1, <1>3, <1>4, MoveStep

LEMMA IndexedInv == ASSUME IInv, NEW p \in Procs, Indexed(p) PROVE IInv'
<1>1. UNCHANGED page /\ lock' = NoOne /\ lock = p
  BY DEF Indexed, At, IInv, LockInv, Locking
<1>2. PICK place \in {"check", "refresh"} : Goto(p, place)
  BY DEF Indexed, SyncDone
<1>3. place \in Place /\ place \notin Writing /\ place \notin Rebuilding
      /\ place \notin Locking
  BY DEF Place, Writing, Rebuilding, Locking
<1>4. Others'
  BY <1>1, Kept DEF Indexed, Others, rows, queue, counters
<1>5. QED
  BY <1>1, <1>2, <1>3, <1>4, MoveStep

(* The remote index works on its own.                                      *)
LEMMA DoTaskInv == ASSUME IInv, DoTask PROVE IInv'
<1>1. /\ tasks \in Seq(Task) /\ tasks # <<>> /\ remote' = Head(tasks).doc
      /\ tasks' = Tail(tasks)
      /\ UNCHANGED <<page, lock, links, rendered, staged, state, queue, proc, counters>>
  BY Kept DEF DoTask, Others
<1>2. Head(tasks) \in Task /\ tasks' \in Seq(Task)
  BY <1>1
<1>3. remote' \in 0 .. MaxRevisions
  BY <1>1, <1>2 DEF Task
<1>4. TypeOK'
  BY <1>1, <1>2, <1>3 DEF IInv, TypeOK, page, queue, counters, Task
<1>5. LockInv' /\ GotInv'
  BY <1>1 DEF IInv, LockInv, GotInv, Expected, CurrentOk, Synced, page
<1>6. QED
  BY <1>4, <1>5 DEF IInv

LEMMA RecordOkInv == ASSUME IInv, NEW w \in Workers, RecordOk(w) PROVE IInv'
<1>1. proc[w].b \in Builders /\ proc[w].event \in 0 .. MaxRevisions
  BY IsWorker, Constants, Moved DEF ProcType
<1>2. /\ UNCHANGED <<page, lock, rows, queue>>
      /\ Upsert(proc[w].b, [status |-> "ok", source |-> proc[w].event])
      /\ proc' = [proc EXCEPT ![w] = NextBuilder(w)]
  BY DEF RecordOk, Ok
<1>3. open' \subseteq Event /\ dead' \subseteq Event
  BY <1>2, Kept DEF Others, queue
<1>4. Others'
  BY <1>1, <1>2, <1>3, UpsertStep
<1>5. QED
  BY <1>2, <1>4, NextBuilderStep

LEMMA RecordErrorInv == ASSUME IInv, NEW w \in Workers, RecordError(w) PROVE IInv'
<1>1. proc[w].b \in Builders /\ proc[w].event \in 0 .. MaxRevisions
  BY IsWorker, Constants, Moved DEF ProcType
<1>2. /\ UNCHANGED <<page, lock, rows>>
      /\ Upsert(proc[w].b, [status |-> "error", source |-> proc[w].event])
      /\ HandlerFailed(w)
  BY DEF RecordError, Error
<1>3. Reset(w) /\ open' \subseteq Event /\ dead' \subseteq Event
  BY <1>2, IsWorker, HandlerFailedStep
<1>4. Others' /\ UNCHANGED page /\ lock' = lock
  BY <1>1, <1>2, <1>3, UpsertStep
<1>5. QED
  BY <1>3, <1>4, IsWorker, ResetStep

LEMMA RewriteInv == ASSUME IInv, NEW w \in Workers, Rewrite(w) PROVE IInv'
<1>1. Reset(w) /\ UNCHANGED page /\ lock' = lock
  BY DEF Rewrite
<1>2. proc[w].got \in 0 .. MaxRevisions
  BY IsWorker, Moved DEF ProcType
<1>3. Others'
  BY <1>2, Kept DEF Rewrite, Close, Others, counters
<1>4. QED
  BY <1>1, <1>3, IsWorker, ResetStep

LEMMA ClearInv == ASSUME IInv, NEW w \in Workers, Clear(w) PROVE IInv'
<1>1. Goto(w, "unlist") /\ UNCHANGED page /\ lock' = lock
  BY DEF Clear
<1>2. Others'
  BY Kept, Constants DEF Clear, Others, queue, counters
<1>3. "unlist" \in Place \ (Writing \cup Locking)
  BY DEF Place, Writing, Locking
<1>4. QED
  BY <1>1, <1>2, <1>3, IsWorker, MoveStep

LEMMA UnlistInv == ASSUME IInv, NEW w \in Workers, Unlist(w) PROVE IInv'
<1>1. Goto(w, "withdraw") /\ UNCHANGED page /\ lock' = w /\ lock = NoOne
  BY DEF Unlist
<1>2. Others'
  BY <1>1, IsWorker, Kept DEF Unlist, Others, rows, queue, counters
<1>3. "withdraw" \in Place \ (Writing \cup Indexing)
  BY DEF Place, Writing, Indexing
<1>4. QED
  BY <1>1, <1>2, <1>3, IsWorker, MoveStep

LEMMA DeletionFailsInv == ASSUME IInv, NEW w \in Workers, DeletionFails(w) PROVE IInv'
<1>1. Reset(w) /\ open' \subseteq Event /\ dead' \subseteq Event
  BY IsWorker, HandlerFailedStep DEF DeletionFails
<1>2. Others'
  BY <1>1, Kept, ProjectionAssumption DEF DeletionFails, Others, rows
<1>3. QED
  BY <1>1, <1>2, IsWorker, ResetStep DEF DeletionFails

(* A failing call at the index gives up the lock.                          *)
LEMMA BuilderFailsInv == ASSUME IInv, NEW p \in Procs, BuilderFails(p) PROVE IInv'
<1>1. /\ Goto(p, "error") /\ UNCHANGED page
      /\ lock' = IF lock = p THEN NoOne ELSE lock
  BY DEF BuilderFails
<1>2. Others'
  BY <1>1, Kept, ProjectionAssumption DEF BuilderFails, Others, rows, queue
<1>3. "error" \in Place \ (Writing \cup Rebuilding \cup Locking)
  BY DEF Place, Writing, Rebuilding, Locking
<1>4. QED
  BY <1>1, <1>2, <1>3, MoveStep

(***************************************************************************)
(* Steps of a rebuild.                                                     *)
(***************************************************************************)
LEMMA IsRebuilder ==
    ASSUME NEW p \in Rebuilders
    PROVE  p \in Procs /\ p \notin Workers
BY ProjectionAssumption DEF Procs

LEMMA StartInv ==
    ASSUME IInv, NEW p \in Rebuilders, NEW place \in {"lockPage", "emptyStage"},
           Start(p, place)
    PROVE  IInv'
<1>1. Goto(p, place) /\ UNCHANGED page /\ lock' = lock
  BY DEF Start
<1>2. Others'
  BY Kept, ProjectionAssumption DEF Start, Others, rows, queue
<1>3. place \in Place /\ place \notin Locking /\ place \notin Rebuilding
  BY DEF Place, Rebuilding, Locking
<1>4. QED
  BY <1>1, <1>2, <1>3, IsRebuilder, MoveStep

LEMMA PrepareInv == ASSUME IInv, NEW p \in Rebuilders, PrepareFullRebuild(p) PROVE IInv'
<1>1. PICK place \in {"emptyRemote", "emptying", "lockPage"} : Goto(p, place)
  BY DEF PrepareFullRebuild
<1>2. UNCHANGED page /\ lock' = lock
  BY DEF PrepareFullRebuild
<1>3. tasks' \in Seq(Task)
  BY IsRebuilder, Constants, Asked, Kept DEF PrepareFullRebuild, Others
<1>4. Others'
  BY <1>3, Kept, Constants DEF PrepareFullRebuild, Others, queue, counters
<1>5. place \in Place /\ place \notin Locking /\ place \notin Rebuilding
  BY DEF Place, Rebuilding, Locking
<1>6. QED
  BY <1>1, <1>2, <1>4, <1>5, IsRebuilder, MoveStep

LEMMA PrepareFailsInv == ASSUME IInv, NEW p \in Rebuilders, PrepareFails(p) PROVE IInv'
<1>1. Others'
  BY Kept, ProjectionAssumption DEF PrepareFails, Others, rows, queue
<1>2. QED
  BY <1>1, IsRebuilder, ResetStep DEF PrepareFails

LEMMA LockPageInv == ASSUME IInv, NEW p \in Rebuilders, LockPage(p) PROVE IInv'
<1>1. lock = NoOne /\ UNCHANGED page /\ UNCHANGED <<rows, state, queue>>
  BY DEF LockPage
<1>2. CASE CurrentOk
  <2> DEFINE v == [proc[p] EXCEPT !.got = current, !.at = "wipe"]
  <2>1. current \in 0 .. MaxRevisions /\ "wipe" \in Place
    BY Kept DEF Place
  <2>2. v \in ProcType /\ v.at = "wipe" /\ v.got = current /\ proc \in [Procs -> ProcType]
    <3>1. proc \in [Procs -> ProcType] /\ proc[p] \in ProcType
      BY IsRebuilder, Moved
    <3>2. QED
      BY <2>1, <3>1 DEF ProcType
  <2>3. proc' = [proc EXCEPT ![p] = v] /\ lock' = p /\ UNCHANGED counters
    BY <1>2, <2>2, IsRebuilder DEF LockPage
  <2> HIDE DEF v
  <2>4. Others'
    BY <1>1, <2>3, Kept, IsRebuilder DEF Others, rows, queue, counters
  <2>5. v.at \notin Locking
    BY <2>2 DEF Locking
  <2>6. QED
    BY <1>1, <1>2, <2>2, <2>3, <2>4, <2>5, IsRebuilder, ProcStep
<1>3. CASE ~CurrentOk
  <2>1. Reset(p) /\ lock' = lock
    BY <1>3 DEF LockPage
  <2>2. UNCHANGED <<faults, duplicates, rebuilds, missed>> /\ rebuildFailed' \in BOOLEAN
    BY <1>3, Kept DEF LockPage, RebuildFails, Others, counters
  <2>3. Others'
    BY <1>1, <2>1, <2>2, Kept DEF Others, rows, queue
  <2>4. QED
    BY <1>1, <2>1, <2>3, IsRebuilder, ResetStep
<1>4. QED
  BY <1>2, <1>3

(* The rebuild commits what it read under the lock it still holds.         *)
LEMMA CommitRebuildFacts ==
    ASSUME IInv, NEW p \in Rebuilders, At(p, "commit")
    PROVE  /\ lock = p /\ CurrentOk /\ proc[p].got = current
           /\ current \in Revision /\ current \in 0 .. MaxRevisions
<1>1. lock = p /\ CurrentOk /\ proc[p].got = current
  BY DEF At, IInv, LockInv, Rebuilding
<1>2. current \in 0 .. MaxRevisions /\ current # 0
  BY <1>1, Kept DEF CurrentOk
<1>3. QED
  BY <1>1, <1>2, ProjectionAssumption DEF Revision

LEMMA CommitRebuildInv == ASSUME IInv, NEW p \in Rebuilders, CommitRebuild(p) PROVE IInv'
<1>1. /\ At(p, "commit") /\ lock' = NoOne /\ UNCHANGED page /\ UNCHANGED queue
      /\ lock = p /\ proc[p].got = current
      /\ current \in Revision /\ current \in 0 .. MaxRevisions
  BY CommitRebuildFacts DEF CommitRebuild
<1>2. CASE Collides(p)
  <2>1. Reset(p) /\ RebuildFails /\ UNCHANGED rows
        /\ state' = [state EXCEPT !["links"] = [status |-> "error", source |-> current]]
    BY <1>1, <1>2 DEF CommitRebuild, Error
  <2>2. state' \in StateType
    BY <1>1, <2>1, StateStep DEF Builders
  <2>3. Others'
    BY <1>1, <2>1, <2>2, Kept DEF Others, RebuildFails, rows, queue
  <2>4. QED
    BY <1>1, <2>1, <2>3, IsRebuilder, ResetStep
<1>3. CASE ~Collides(p)
  <2>1. /\ Goto(p, "sync") /\ links' = LinksAfter(p)
        /\ rendered' = current /\ staged' = current
        /\ state' = [b \in Builders |-> [status |-> "ok", source |-> current]]
        /\ UNCHANGED <<remote, tasks, counters>>
    BY <1>1, <1>3 DEF CommitRebuild, Ok
  <2>2. state' \in StateType
    BY <1>1, <2>1, Constants DEF StateType
  <2>3. links' \subseteq Revision
    BY <1>1, <2>1, Kept DEF LinksAfter, Others
  <2>4. Others'
    BY <1>1, <2>1, <2>2, <2>3, Kept DEF Others, queue, counters
  <2>5. "sync" \in Place /\ "sync" \notin Rebuilding /\ "sync" \notin Locking
    BY DEF Place, Rebuilding, Locking
  <2>6. QED
    BY <1>1, <2>1, <2>4, <2>5, IsRebuilder, MoveStep
<1>4. QED
  BY <1>2, <1>3

LEMMA RebuildSyncFailsInv == ASSUME IInv, NEW p \in Rebuilders, RebuildSyncFails(p) PROVE IInv'
<1>1. /\ Reset(p) /\ RebuildFails /\ UNCHANGED page /\ UNCHANGED <<lock, rows, queue>>
      /\ state' = [state EXCEPT !["search"] = [status |-> "error", source |-> proc[p].got]]
  BY DEF RebuildSyncFails, Error
<1>2. proc[p].got \in 0 .. MaxRevisions
  BY IsRebuilder, Moved DEF ProcType
<1>3. state' \in StateType
  BY <1>1, <1>2, StateStep DEF Builders
<1>4. Others' /\ lock' = lock
  BY <1>1, <1>3, Kept DEF Others, RebuildFails, rows, queue
<1>5. QED
  BY <1>1, <1>4, IsRebuilder, ResetStep

LEMMA RefreshInv == ASSUME IInv, NEW p \in Rebuilders, Refresh(p) PROVE IInv'
<1>1. Reset(p) /\ UNCHANGED page /\ UNCHANGED <<lock, links, staged, remote, tasks, queue>>
  BY DEF Refresh
<1>2. proc[p].got \in 0 .. MaxRevisions
  BY IsRebuilder, Moved DEF ProcType
<1>3. CASE /\ rendered' = proc[p].got
           /\ state' = [state EXCEPT !["rendered"] = Ok(proc[p].got)]
           /\ UNCHANGED counters
  <2>1. state' \in StateType
    BY <1>2, <1>3, StateStep DEF Builders, Ok
  <2>2. Others' /\ lock' = lock
    BY <1>1, <1>2, <1>3, <2>1, Kept DEF Others, queue, counters
  <2>3. QED
    BY <1>1, <2>2, IsRebuilder, ResetStep
<1>4. CASE /\ faults < MaxFaults /\ faults' = faults + 1
           /\ rebuildFailed' = TRUE
           /\ UNCHANGED <<rendered, state, duplicates, rebuilds, missed>>
  <2>1. Others' /\ lock' = lock
    BY <1>1, <1>4, Kept, ProjectionAssumption DEF Others, queue
  <2>2. QED
    BY <1>1, <2>1, IsRebuilder, ResetStep
<1>5. QED
  BY <1>3, <1>4 DEF Refresh

LEMMA NextInv == ASSUME IInv, [Next]_vars PROVE IInv'
<1>1. CASE UNCHANGED vars
  BY <1>1 DEF vars, page, rows, queue, counters, IInv, TypeOK, LockInv, GotInv,
              Expected, CurrentOk, Synced
<1>2. CASE Publish \/ Delete \/ DoTask
  BY <1>2, PageInv, DoTaskInv
<1>3. ASSUME NEW w \in Workers, WorkerStep(w) \/ DeletionFails(w) \/ CrashWorker(w)
      PROVE  IInv'
  BY <1>3, IsWorker, TakeInv, GuardInv, ReadInv, WipeInv, WipedInv, WriteInv, StageInv,
     WithdrawInv, WithdrawnInv, SyncInv, IndexInv, IndexedInv, RecordOkInv, RecordErrorInv,
     RewriteInv, ClearInv, UnlistInv, DeletionFailsInv, CrashWorkerInv
     DEF WorkerStep
<1>4. ASSUME NEW p \in Rebuilders, RebuilderStep(p) PROVE IInv'
  BY <1>4, IsRebuilder, StartInv, PrepareInv, PrepareFailsInv, LockPageInv, WipeInv,
     WipedInv, CommitRebuildInv, SyncInv, IndexInv, IndexedInv, RebuildSyncFailsInv,
     RefreshInv DEF RebuilderStep, RebuildPage, RebuildAll
<1>5. ASSUME NEW p \in Procs, BuilderFails(p) PROVE IInv'
  BY <1>5, BuilderFailsInv
<1>6. QED
  BY <1>1, <1>2, <1>3, <1>4, <1>5 DEF Next

LEMMA Invariance == Spec => []IInv
BY InitInv, NextInv, PTL DEF Spec

(***************************************************************************)
(* The theorems.                                                           *)
(***************************************************************************)

(* The projection tables and the work in progress keep their types.        *)
THEOREM TypeCorrect == Spec => []TypeOK
<1>1. IInv => TypeOK
  BY DEF IInv
<1>2. QED
  BY <1>1, Invariance, PTL

(* The tasks of the remote index ask for revisions in the order in which   *)
(* these were published, and for none before it was.                       *)
QueueInv ==
    /\ remote <= current
    /\ \A i \in 1 .. Len(tasks) :
         /\ tasks[i].doc <= current
         /\ tasks[i].doc # 0 =>
              remote <= tasks[i].doc /\ \A j \in 1 .. i : tasks[j].doc <= tasks[i].doc

LEMMA Queued ==
    ASSUME IInv
    PROVE  /\ Len(tasks) \in Nat /\ remote \in Nat /\ current \in Nat
           /\ \A i \in 1 .. Len(tasks) :
                /\ tasks[i].doc \in Nat /\ tasks[i].doc \in 0 .. MaxRevisions
                /\ tasks[i].by \in Procs
<1>1. tasks \in Seq(Task)
  BY Kept DEF Others
<1>2. \A i \in 1 .. Len(tasks) : tasks[i] \in Task
  BY <1>1
<1>3. QED
  BY <1>1, <1>2, Kept, Constants DEF Others, Task

LEMMA AskedLast ==
    ASSUME IInv, NEW p \in Procs, NEW doc \in 0 .. MaxRevisions, Ask(p, doc)
    PROVE  /\ Len(tasks') = Len(tasks) + 1
           /\ \A i \in 1 .. Len(tasks) : tasks'[i] = tasks[i]
           /\ tasks'[Len(tasks) + 1] = [doc |-> doc, by |-> p]
<1>1. tasks \in Seq(Task) /\ [doc |-> doc, by |-> p] \in Task
  BY Kept DEF Others, Task
<1>2. QED
  BY <1>1 DEF Ask

LEMMA DoneFirst ==
    ASSUME IInv, DoTask
    PROVE  /\ Len(tasks) # 0 /\ remote' = tasks[1].doc /\ Len(tasks') = Len(tasks) - 1
           /\ \A i \in 1 .. Len(tasks') : tasks'[i] = tasks[i + 1]
<1>1. tasks \in Seq(Task) /\ tasks # <<>> /\ remote' = Head(tasks).doc /\ tasks' = Tail(tasks)
  BY Kept DEF Others, DoTask
<1>2. Len(tasks) # 0 /\ Head(tasks) = tasks[1] /\ Len(tasks') = Len(tasks) - 1
  BY <1>1
<1>3. \A i \in 1 .. Len(tasks') : tasks'[i] = tasks[i + 1]
  BY <1>1, <1>2
<1>4. QED
  BY <1>1, <1>2, <1>3

(* Whoever asks for a revision, asks for the current one.                  *)
LEMMA IndexAsks ==
    ASSUME IInv, NEW p \in Procs, Index(p)
    PROVE  Ask(p, current) /\ CurrentOk /\ UNCHANGED <<page, remote>>
<1>1. CurrentOk /\ Synced(p) = current
  BY DEF Index, At, IInv, LockInv, Locking, Indexing, Expected
<1>2. QED
  BY <1>1 DEF Index

(* What a worker's step leaves alone.                                      *)
LEMMA WorkerLeaves ==
    ASSUME NEW w \in Workers, WorkerStep(w) \/ DeletionFails(w) \/ CrashWorker(w)
    PROVE  /\ UNCHANGED page
           /\ Index(w) \/ Withdraw(w) \/ UNCHANGED <<remote, tasks>>
           /\ Stage(w) \/ Clear(w) \/ Withdrawn(w) \/ staged' = staged
<1>1. ASSUME NEW e \in Event, Take(w, e)
      PROVE  /\ UNCHANGED page
             /\ Index(w) \/ Withdraw(w) \/ UNCHANGED <<remote, tasks>>
             /\ Stage(w) \/ Clear(w) \/ Withdrawn(w) \/ staged' = staged
  BY <1>1 DEF Take, rows
<1>2. CASE GuardBefore(w) \/ GuardAfter(w) \/ Read(w)
  BY <1>2 DEF GuardBefore, GuardAfter, Read, rows
<1>3. CASE Wipe(w) \/ Wiped(w) \/ Write(w) \/ Rewrite(w)
  BY <1>3 DEF Wipe, Wiped, Write, Rewrite, rows
<1>4. CASE Stage(w) \/ Clear(w) \/ Unlist(w)
  BY <1>4 DEF Stage, Clear, Unlist, rows
<1>5. CASE Withdraw(w) \/ Withdrawn(w)
  BY <1>5 DEF Withdraw, Withdrawn
<1>6. CASE Sync(w) \/ Index(w) \/ Indexed(w)
  BY <1>6 DEF Sync, Index, Indexed, rows
<1>7. CASE RecordOk(w) \/ RecordError(w) \/ DeletionFails(w) \/ CrashWorker(w)
  BY <1>7 DEF RecordOk, RecordError, DeletionFails, CrashWorker, rows
<1>8. QED
  BY <1>1, <1>2, <1>3, <1>4, <1>5, <1>6, <1>7 DEF WorkerStep

(* A request that nothing be shown.                                        *)
LEMMA EmptyAsks ==
    ASSUME NEW p \in Procs,
           Withdraw(p) \/ (At(p, "emptyRemote") /\ PrepareFullRebuild(p))
    PROVE  Ask(p, 0) /\ UNCHANGED <<page, remote>>
BY DEF Withdraw, PrepareFullRebuild, At

LEMMA QueueSteps ==
    ASSUME [Next]_vars
    PROVE  \/ UNCHANGED <<remote, tasks, current>>
           \/ UNCHANGED <<remote, tasks>> /\ Publish
           \/ DoTask
           \/ \E w \in Workers : Withdraw(w)
           \/ \E p \in Rebuilders : At(p, "emptyRemote") /\ PrepareFullRebuild(p)
           \/ \E p \in Procs : Index(p)
<1>1. CASE Publish \/ Delete \/ UNCHANGED vars
  BY <1>1 DEF Publish, Delete, vars, page, rows
<1>2. ASSUME NEW w \in Workers, WorkerStep(w) \/ DeletionFails(w) \/ CrashWorker(w)
      PROVE  \/ UNCHANGED <<remote, tasks, current>>
             \/ Withdraw(w) \/ Index(w)
  BY <1>2, WorkerLeaves DEF page
<1>3. ASSUME NEW p \in Rebuilders, RebuilderStep(p)
      PROVE  \/ UNCHANGED <<remote, tasks, current>>
             \/ At(p, "emptyRemote") /\ PrepareFullRebuild(p)
             \/ Index(p)
  BY <1>3 DEF RebuilderStep, RebuildPage, RebuildAll, Start, PrepareFullRebuild,
              PrepareFails, LockPage, Wipe, Wiped, CommitRebuild, Sync, Indexed,
              RebuildSyncFails, Refresh, rows, page
<1>4. ASSUME NEW p \in Procs, BuilderFails(p) PROVE UNCHANGED <<remote, tasks, current>>
  BY <1>4 DEF BuilderFails, rows, page
<1>5. QED
  BY <1>1, <1>2, <1>3, <1>4, IsWorker, IsRebuilder DEF Next

LEMMA QueueAsks ==
    ASSUME IInv, QueueInv, NEW p \in Procs, NEW doc \in {0, current}, Ask(p, doc),
           UNCHANGED <<remote, current>>
    PROVE  QueueInv'
<1>1. doc \in 0 .. MaxRevisions /\ doc \in Nat /\ doc <= current
  BY Kept, Constants
<1>2. /\ Len(tasks') = Len(tasks) + 1
      /\ \A i \in 1 .. Len(tasks) : tasks'[i] = tasks[i]
      /\ tasks'[Len(tasks) + 1].doc = doc
  <2>1. /\ Len(tasks') = Len(tasks) + 1
        /\ \A i \in 1 .. Len(tasks) : tasks'[i] = tasks[i]
        /\ tasks'[Len(tasks) + 1] = [doc |-> doc, by |-> p]
    BY <1>1, AskedLast
  <2>2. QED
    BY <2>1
<1> SUFFICES ASSUME NEW i \in 1 .. Len(tasks')
             PROVE  /\ tasks'[i].doc <= current
                    /\ tasks'[i].doc # 0 =>
                         /\ remote <= tasks'[i].doc
                         /\ \A j \in 1 .. i : tasks'[j].doc <= tasks'[i].doc
  BY DEF QueueInv
<1>3. CASE i \in 1 .. Len(tasks)
  <2>1. \A j \in 1 .. i : j \in 1 .. Len(tasks)
    BY <1>3, Queued
  <2>2. QED
    BY <1>2, <1>3, <2>1, Queued DEF QueueInv
<1>4. CASE i = Len(tasks) + 1
  <2>1. \A j \in 1 .. Len(tasks) : tasks'[j].doc <= current
    BY <1>2 DEF QueueInv
  <2>2. \A j \in 1 .. i : j \in 1 .. Len(tasks) \/ j = i
    BY <1>4, Queued
  <2>3. tasks'[i].doc = doc /\ remote <= current
    BY <1>2, <1>4 DEF QueueInv
  <2>4. QED
    BY <1>1, <2>1, <2>2, <2>3
<1>5. QED
  BY <1>2, <1>3, <1>4, Queued

LEMMA QueueDone == ASSUME IInv, QueueInv, DoTask PROVE QueueInv'
<1>1. /\ Len(tasks) # 0 /\ remote' = tasks[1].doc /\ Len(tasks') = Len(tasks) - 1
      /\ \A i \in 1 .. Len(tasks') : tasks'[i] = tasks[i + 1]
      /\ current' = current
  BY DoneFirst DEF DoTask, page
<1>2. 1 \in 1 .. Len(tasks)
  BY <1>1, Queued
<1>3. ASSUME NEW i \in 1 .. Len(tasks')
      PROVE  /\ tasks'[i].doc <= current'
             /\ tasks'[i].doc # 0 =>
                  /\ remote' <= tasks'[i].doc
                  /\ \A j \in 1 .. i : tasks'[j].doc <= tasks'[i].doc
  <2>1. Len(tasks) \in Nat /\ Len(tasks') = Len(tasks) - 1
    BY <1>1, Queued
  <2>2. i + 1 \in 1 .. Len(tasks) /\ 1 \in 1 .. i + 1
    BY <2>1
  <2>3. tasks'[i] = tasks[i + 1]
    BY <1>1
  <2>4. \A j \in 1 .. i : j + 1 \in 1 .. i + 1 /\ tasks'[j] = tasks[j + 1]
    <3>1. \A j \in 1 .. i : j + 1 \in 1 .. i + 1 /\ j \in 1 .. Len(tasks')
      BY <2>1
    <3>2. QED
      BY <1>1, <3>1
  <2>5. QED
    BY <1>1, <2>2, <2>3, <2>4 DEF QueueInv
<1>4. remote' <= current'
  BY <1>1, <1>2 DEF QueueInv
<1>5. QED
  BY <1>3, <1>4 DEF QueueInv

LEMMA NextQueue == ASSUME IInv, QueueInv, [Next]_vars PROVE QueueInv'
<1>1. CASE UNCHANGED <<remote, tasks, current>>
  BY <1>1 DEF QueueInv
<1>2. CASE UNCHANGED <<remote, tasks>> /\ Publish
  <2>1. current' = current + 1 /\ remote' = remote /\ tasks' = tasks
    BY <1>2 DEF Publish
  <2>2. QED
    BY <2>1, Queued DEF QueueInv
<1>3. CASE DoTask
  BY <1>3, QueueDone
<1>4. ASSUME NEW w \in Workers, Withdraw(w) PROVE QueueInv'
  BY <1>4, IsWorker, EmptyAsks, QueueAsks DEF page
<1>5. ASSUME NEW p \in Rebuilders, At(p, "emptyRemote"), PrepareFullRebuild(p)
      PROVE  QueueInv'
  BY <1>5, IsRebuilder, EmptyAsks, QueueAsks DEF page
<1>6. ASSUME NEW p \in Procs, Index(p) PROVE QueueInv'
  BY <1>6, IndexAsks, QueueAsks DEF page
<1>7. QED
  BY <1>1, <1>2, <1>3, <1>4, <1>5, <1>6, QueueSteps

LEMMA QueueInvariance == Spec => []QueueInv
<1>1. Init => QueueInv
  BY DEF Init, QueueInv
<1>2. QED
  BY <1>1, NextQueue, Invariance, PTL DEF Spec

(* The staged document, and what the remote index is asked to show, are of *)
(* the revision that is current at that moment (the lock is held from the  *)
(* check to the request), and the remote index does its tasks in order: it *)
(* never goes back to an older revision, although a task may be done after *)
(* its caller has given up or crashed and the page has moved on.           *)
THEOREM SearchNeverGoesBack == Spec => SearchMovesForward
<1> DEFINE Staging == staged' \notin {staged, 0} => CurrentOk /\ staged' = current
           Asking == Len(tasks') > Len(tasks) /\ tasks'[Len(tasks')].doc # 0
                       => CurrentOk /\ tasks'[Len(tasks')].doc = current
           Showing == remote' \notin {remote, 0} => remote < remote' /\ remote' <= current
<1>1. ASSUME IInv, [Next]_vars PROVE Staging
  <2>1. CASE Publish \/ Delete \/ DoTask \/ UNCHANGED vars
    BY <2>1 DEF Publish, Delete, DoTask, vars, rows
  <2>2. ASSUME NEW w \in Workers, WorkerStep(w) \/ DeletionFails(w) \/ CrashWorker(w)
        PROVE  Staging
    <3>1. CASE Stage(w) \/ Clear(w) \/ Withdrawn(w)
      BY <3>1 DEF Stage, Clear, Withdrawn
    <3>2. CASE staged' = staged
      BY <3>2
    <3>3. QED
      BY <2>2, <3>1, <3>2, WorkerLeaves
  <2>3. ASSUME NEW p \in Rebuilders, RebuilderStep(p) PROVE Staging
    <3>1. CASE CommitRebuild(p)
      BY <1>1, <3>1, CommitRebuildFacts DEF CommitRebuild, rows
    <3>2. CASE ~CommitRebuild(p)
      BY <2>3, <3>2
         DEF RebuilderStep, RebuildPage, RebuildAll, Start, PrepareFullRebuild, PrepareFails,
             LockPage, Wipe, Wiped, Sync, Index, Indexed, RebuildSyncFails, Refresh, rows
    <3>3. QED
      BY <3>1, <3>2
  <2>4. ASSUME NEW p \in Procs, BuilderFails(p) PROVE Staging
    BY <2>4 DEF BuilderFails, rows
  <2> HIDE DEF Staging
  <2>5. QED
    BY <1>1, <2>1, <2>2, <2>3, <2>4 DEF Next
<1>2. ASSUME IInv, QueueInv, [Next]_vars PROVE Asking /\ Showing
  <2>1. CASE UNCHANGED <<remote, tasks>>
    BY <1>2, <2>1, Queued
  <2>2. CASE DoTask
    <3>1. /\ Len(tasks) # 0 /\ remote' = tasks[1].doc /\ Len(tasks') = Len(tasks) - 1
      BY <1>2, <2>2, DoneFirst
    <3>2. 1 \in 1 .. Len(tasks) /\ tasks[1].doc \in Nat /\ remote \in Nat /\ Len(tasks) \in Nat
      BY <1>2, <3>1, Queued
    <3>3. tasks[1].doc <= current /\ (tasks[1].doc # 0 => remote <= tasks[1].doc)
      BY <1>2, <3>2 DEF QueueInv
    <3>4. QED
      BY <3>1, <3>2, <3>3
  <2>3. ASSUME NEW p \in Procs, NEW doc \in {0, current}, Ask(p, doc), remote' = remote,
               doc # 0 => CurrentOk
        PROVE  Asking /\ Showing
    <3>1. doc \in 0 .. MaxRevisions
      BY <1>2, Kept, Constants
    <3>2. Len(tasks') = Len(tasks) + 1 /\ tasks'[Len(tasks) + 1] = [doc |-> doc, by |-> p]
      BY <1>2, <2>3, <3>1, AskedLast
    <3>3. QED
      BY <2>3, <3>2
  <2> HIDE DEF Asking, Showing
  <2>4. QED
    BY <1>2, <2>1, <2>2, <2>3, QueueSteps, IndexAsks, EmptyAsks, IsWorker, IsRebuilder
<1>3. QED
  BY <1>1, <1>2, Invariance, QueueInvariance, PTL DEF Spec, SearchMovesForward

(***************************************************************************)
(* Search converges.  What the search tables still miss is owed by         *)
(* somebody: the event of the current revision while it is open or dead,   *)
(* a rebuild that has emptied them, or a rebuild that reports its failure. *)
(***************************************************************************)

(* Where a rebuild has emptied the staged document, or may have, and will  *)
(* stage the current revision or fail.                                     *)
WillStage == {"emptyRemote", "emptying", "lockPage", "wipe", "wiping", "commit", "error"}

(* Whether the process record v promises to have the current revision      *)
(* indexed.                                                                *)
WillIndex(v) == v.at \in WillStage \/ (v.at \in {"sync", "index", "wait"} /\ v.got = current)

StageOwed == rebuildFailed \/ \E p \in Rebuilders : proc[p].at \in WillStage
IndexOwed == rebuildFailed \/ \E p \in Rebuilders : WillIndex(proc[p])

StageOk == staged = current \/ StageOwed
IndexOk == Shows(current) \/ IndexOwed

(* A worker that has staged, or indexed, the revision of its event.        *)
HasStaged(v) ==
    \/ v.at \in {"again", "rewrite"}
    \/ v.b = "search" /\ v.at \in {"sync", "index", "wait", "check", "record"}
HasIndexed(v) ==
    \/ v.at \in {"again", "rewrite"}
    \/ v.b = "search" /\ v.at \in {"check", "record"}

(* Where the documents of a page that is gone are removed, and where the   *)
(* event of its deletion is handled.                                       *)
Removing == {"clear", "unlist", "withdraw", "withdrawing"}
Apart == {"idle", "clear", "unlist", "withdraw", "withdrawing"}
USE DEF Removing, Apart

(* Nothing is of a revision that does not exist yet.                       *)
NothingAhead ==
    /\ staged <= current
    /\ open \subseteq 0 .. current
    /\ \A w \in Workers : proc[w].event <= current

(* Deletion is handled by its own event alone, and only once it happened.  *)
DeletionsApart ==
    /\ Deleted \in open => deleted
    /\ \A w \in Workers :
         /\ proc[w].at \in Removing => deleted
         /\ proc[w].event = Deleted => proc[w].at \in Apart

RemovalPending == deleted => Deleted \in open \cup dead \/ (staged = 0 /\ Shows(0))

UpdatePending == CurrentOk => current \in open \cup dead \/ (StageOk /\ IndexOk)

WorkersDeliver ==
    CurrentOk => \A w \in Workers : proc[w].event = current =>
        /\ HasStaged(proc[w]) => StageOk
        /\ HasIndexed(proc[w]) => IndexOk

SearchInv == NothingAhead /\ DeletionsApart /\ RemovalPending /\ UpdatePending /\ WorkersDeliver

(* Whoever waits for the remote index finds it as it asked for when its    *)
(* own tasks are done: with the lock held, only a rebuild of all pages can *)
(* have asked for something else since.                                    *)
Settling(p, r) ==
    \/ Shows(r)
    \/ \E i \in 1 .. Len(tasks) :
         tasks[i].by = p /\ \A j \in i .. Len(tasks) : tasks[j].doc = r

Emptied(p) == rebuildFailed \/ \E q \in Rebuilders \ {p} : proc[q].at \in {"emptying", "lockPage"}

AnswersInv ==
    \A p \in Procs :
        /\ proc[p].at = "wait" => Settling(p, current) \/ Emptied(p)
        /\ proc[p].at = "withdrawing" => Settling(p, 0)

LEMMA SearchInit == Init => SearchInv
<1> SUFFICES ASSUME Init PROVE SearchInv
  OBVIOUS
<1>1. \A w \in Workers : proc[w].event = 0 /\ proc[w].at = "idle"
  <2>1. \A w \in Workers : proc[w] = Idle
    BY DEF Init, Procs
  <2>2. QED
    BY <2>1 DEF Idle, Deleted
<1>2. current = 0 /\ staged = 0 /\ open = {}
  BY DEF Init
<1>3. NothingAhead /\ DeletionsApart
  BY <1>1, <1>2 DEF NothingAhead, DeletionsApart
<1>4. RemovalPending /\ UpdatePending /\ WorkersDeliver
  BY DEF Init, RemovalPending, UpdatePending, WorkersDeliver, CurrentOk
<1>5. QED
  BY <1>3, <1>4 DEF SearchInv

(* What is owed by the rebuilds is not changed by a worker.                *)
LEMMA DebtsKept ==
    ASSUME UNCHANGED <<page, staged, remote, tasks, rebuildFailed>>,
           \A p \in Rebuilders : proc'[p] = proc[p]
    PROVE  StageOk' = StageOk /\ IndexOk' = IndexOk /\ CurrentOk' = CurrentOk
<1>1. current' = current /\ deleted' = deleted /\ staged' = staged /\ remote' = remote
      /\ tasks' = tasks /\ rebuildFailed' = rebuildFailed
  BY DEF page
<1>2. StageOwed' = StageOwed
  BY <1>1 DEF StageOwed
<1>3. IndexOwed' = IndexOwed
  BY <1>1 DEF IndexOwed, WillIndex
<1>4. QED
  BY <1>1, <1>2, <1>3 DEF StageOk, IndexOk, CurrentOk, Shows

(* What another process is doing, while one moves.                         *)
LEMMA Alone ==
    ASSUME IInv, NEW p \in Procs, NEW v, proc' = [proc EXCEPT ![p] = v]
    PROVE  proc'[p] = v /\ \A q \in Procs \ {p} : proc'[q] = proc[q]
BY Moved

(* A worker that touches neither the page nor the search tables.           *)
LEMMA WorkerSearch ==
    ASSUME IInv, SearchInv, NEW w \in Workers, NEW v, proc' = [proc EXCEPT ![w] = v],
           UNCHANGED <<page, staged, remote, tasks, rebuildFailed>>,
           v.event <= current,
           v.at \in Removing => deleted,
           v.event = Deleted => v.at \in Apart,
           CurrentOk /\ v.event = current =>
             (HasStaged(v) => StageOk) /\ (HasIndexed(v) => IndexOk),
           open' \subseteq open,
           Deleted \in open \cup dead =>
             Deleted \in open' \cup dead' \/ (staged = 0 /\ Shows(0)),
           CurrentOk /\ current \in open \cup dead =>
             current \in open' \cup dead' \/ (StageOk /\ IndexOk)
    PROVE  SearchInv'
<1>1. current' = current /\ deleted' = deleted /\ staged' = staged /\ remote' = remote
      /\ tasks' = tasks
  BY DEF page
<1>2. proc'[w] = v /\ \A q \in Procs \ {w} : proc'[q] = proc[q]
  BY IsWorker, Alone
<1>3. StageOk' = StageOk /\ IndexOk' = IndexOk /\ CurrentOk' = CurrentOk
  BY <1>2, IsWorker, IsRebuilder, DebtsKept
<1>4. NothingAhead'
  BY <1>1, <1>2, IsWorker DEF SearchInv, NothingAhead
<1>5. DeletionsApart'
  BY <1>1, <1>2, IsWorker DEF SearchInv, DeletionsApart
<1>6. RemovalPending'
  BY <1>1 DEF SearchInv, RemovalPending, Shows
<1>7. UpdatePending'
  BY <1>1, <1>3 DEF SearchInv, UpdatePending
<1>8. WorkersDeliver'
  <2> SUFFICES ASSUME CurrentOk', NEW x \in Workers, proc'[x].event = current'
               PROVE  /\ HasStaged(proc'[x]) => StageOk'
                      /\ HasIndexed(proc'[x]) => IndexOk'
    BY DEF WorkersDeliver, HasStaged, HasIndexed
  <2>1. CASE x = w
    BY <2>1, <1>1, <1>2, <1>3
  <2>2. CASE x # w
    <3>1. proc'[x] = proc[x]
      BY <2>2, <1>2, IsWorker
    <3>2. QED
      BY <3>1, <1>1, <1>3 DEF SearchInv, WorkersDeliver
  <2>3. QED
    BY <2>1, <2>2
<1>9. QED
  BY <1>4, <1>5, <1>6, <1>7, <1>8 DEF SearchInv

(* A worker that goes on with its event, having staged and indexed no more *)
(* than before.                                                            *)
LEMMA WorkerGoes ==
    ASSUME IInv, SearchInv, NEW w \in Workers, NEW v, proc' = [proc EXCEPT ![w] = v],
           UNCHANGED <<page, staged, remote, tasks, rebuildFailed, queue>>,
           v.event = proc[w].event, proc[w].at \notin Apart,
           v.at \notin Removing,
           CurrentOk /\ v.event = current =>
             (HasStaged(v) => StageOk) /\ (HasIndexed(v) => IndexOk)
    PROVE  SearchInv'
<1>1. v.event <= current /\ v.event # Deleted
  BY DEF SearchInv, NothingAhead, DeletionsApart
<1>2. UNCHANGED <<page, staged, remote, tasks, rebuildFailed>> /\ open' = open /\ dead' = dead
  BY DEF queue
<1>3. QED
  BY <1>1, <1>2, WorkerSearch

(* Going back to idle with the event open, buried or settled.              *)
LEMMA WorkerStops ==
    ASSUME IInv, SearchInv, NEW w \in Workers, Reset(w),
           UNCHANGED <<page, staged, remote, tasks, rebuildFailed>>,
           open' \subseteq open,
           Deleted \in open \cup dead => Deleted \in open' \cup dead',
           CurrentOk /\ current \in open \cup dead =>
             current \in open' \cup dead' \/ (StageOk /\ IndexOk)
    PROVE  SearchInv'
<1> DEFINE v == Idle
<1>1. v.event = 0 /\ v.at = "idle" /\ v.event = Deleted
  BY DEF Idle, Deleted
<1>2. proc' = [proc EXCEPT ![w] = v]
  BY DEF Reset
<1>3. v.event <= current /\ (CurrentOk => v.event # current)
  BY <1>1, Kept, Constants DEF CurrentOk
<1> HIDE DEF v
<1>4. QED
  BY <1>1, <1>2, <1>3, WorkerSearch

LEMMA FailedSearch ==
    ASSUME IInv, SearchInv, NEW w \in Workers, HandlerFailed(w),
           UNCHANGED <<page, staged, remote, tasks, rebuildFailed>>
    PROVE  SearchInv'
<1>1. Reset(w) /\ open' \subseteq open /\ open \cup dead \subseteq open' \cup dead'
  BY DEF HandlerFailed, queue
<1>2. QED
  BY <1>1, WorkerStops

LEMMA DeletionFailsSearch ==
    ASSUME IInv, SearchInv, NEW w \in Workers, DeletionFails(w)
    PROVE  SearchInv'
<1>1. HandlerFailed(w) /\ UNCHANGED <<page, staged, remote, tasks, rebuildFailed>>
  BY DEF DeletionFails, rows
<1>2. QED
  BY <1>1, FailedSearch

LEMMA TakeSearch ==
    ASSUME IInv, SearchInv, NEW w \in Workers, NEW e \in Event, Take(w, e)
    PROVE  SearchInv'
<1> DEFINE v == [Idle EXCEPT !.at = IF e = Deleted THEN "clear" ELSE "guard", !.event = e]
<1>1. /\ v.event = e /\ v.b = "links" /\ proc' = [proc EXCEPT ![w] = v]
      /\ v.at = IF e = Deleted THEN "clear" ELSE "guard"
      /\ e \in open /\ open' = open /\ dead' = dead
      /\ UNCHANGED <<page, staged, remote, tasks, rebuildFailed>>
  BY DEF Take, Idle, FirstBuilder, rows, queue
<1> HIDE DEF v
<1>2. e <= current /\ (e = Deleted => deleted)
  BY <1>1, Kept DEF SearchInv, NothingAhead, DeletionsApart
<1>3. ~HasStaged(v) /\ ~HasIndexed(v)
  BY <1>1 DEF HasStaged, HasIndexed
<1>4. v.at \in Removing => deleted
  BY <1>1, <1>2
<1>5. v.event = Deleted => v.at \in Apart
  BY <1>1
<1>6. QED
  BY <1>1, <1>2, <1>3, <1>4, <1>5, WorkerSearch

LEMMA CrashSearch ==
    ASSUME IInv, SearchInv, NEW w \in Workers, CrashWorker(w)
    PROVE  SearchInv'
<1>1. Reset(w) /\ UNCHANGED <<page, staged, remote, tasks, rebuildFailed>> /\ open' = open
      /\ dead' = dead
  BY DEF CrashWorker, rows, queue
<1>2. QED
  BY <1>1, WorkerStops

(* Moving on from a builder: what it must have done, it has.               *)
LEMMA NextBuilderFields ==
    ASSUME IInv, NEW w \in Procs
    PROVE  /\ NextBuilder(w).event = proc[w].event
           /\ NextBuilder(w).at \in {"again", "guard"}
           /\ NextBuilder(w).at = "again" => proc[w].b = "search"
<1>1. proc[w] \in ProcType
  BY Moved
<1>2. QED
  BY <1>1 DEF NextBuilder, After, ProcType, Builders

LEMMA ToNextBuilder ==
    ASSUME IInv, SearchInv, NEW w \in Workers, proc' = [proc EXCEPT ![w] = NextBuilder(w)],
           UNCHANGED <<page, staged, remote, tasks, rebuildFailed, queue>>,
           proc[w].at \in {"guard", "check", "record"},
           CurrentOk /\ proc[w].event = current => proc[w].at # "guard"
    PROVE  SearchInv'
<1> DEFINE v == NextBuilder(w)
<1>1. v.event = proc[w].event /\ v.at \in {"again", "guard"}
      /\ (v.at = "again" => proc[w].b = "search")
  BY IsWorker, NextBuilderFields
<1> HIDE DEF v
<1>2. ASSUME CurrentOk, v.event = current
      PROVE  (HasStaged(v) => StageOk) /\ (HasIndexed(v) => IndexOk)
  <2>1. CASE v.at = "again"
    <3>1. HasStaged(proc[w]) /\ HasIndexed(proc[w])
      BY <1>1, <1>2, <2>1 DEF HasStaged, HasIndexed
    <3>2. QED
      BY <1>1, <1>2, <3>1 DEF SearchInv, WorkersDeliver
  <2>2. CASE v.at = "guard"
    BY <2>2 DEF HasStaged, HasIndexed
  <2>3. QED
    BY <1>1, <2>1, <2>2
<1>3. QED
  BY <1>1, <1>2, WorkerGoes DEF v

(***************************************************************************)
(* What the remote index shows, and will go on to show.                    *)
(***************************************************************************)
LEMMA ShowsAsked ==
    ASSUME IInv, NEW p \in Procs, NEW r \in 0 .. MaxRevisions, Ask(p, r),
           UNCHANGED remote, Shows(r)
    PROVE  remote' = r /\ \A i \in 1 .. Len(tasks') : tasks'[i].doc = r
<1>1. /\ Len(tasks') = Len(tasks) + 1
      /\ \A i \in 1 .. Len(tasks) : tasks'[i] = tasks[i]
      /\ tasks'[Len(tasks) + 1] = [doc |-> r, by |-> p]
  BY AskedLast
<1>2. \A i \in 1 .. Len(tasks') : i \in 1 .. Len(tasks) \/ i = Len(tasks) + 1
  BY <1>1, Queued
<1>3. QED
  BY <1>1, <1>2 DEF Shows

LEMMA ShowsDone ==
    ASSUME IInv, NEW r, DoTask, Shows(r)
    PROVE  remote' = r /\ \A i \in 1 .. Len(tasks') : tasks'[i].doc = r
<1>1. /\ Len(tasks) # 0 /\ remote' = tasks[1].doc /\ Len(tasks') = Len(tasks) - 1
      /\ \A i \in 1 .. Len(tasks') : tasks'[i] = tasks[i + 1]
  BY DoneFirst
<1>2. 1 \in 1 .. Len(tasks) /\ \A i \in 1 .. Len(tasks') : i + 1 \in 1 .. Len(tasks)
  BY <1>1, Queued
<1>3. QED
  BY <1>1, <1>2 DEF Shows

LEMMA Settled ==
    ASSUME IInv, NEW p \in Procs, NEW r, Settling(p, r), Answered(p)
    PROVE  Shows(r)
BY DEF Settling, Answered

(***************************************************************************)
(* The page domain.                                                        *)
(***************************************************************************)
LEMMA PublishSearch == ASSUME IInv, SearchInv, Publish PROVE SearchInv'
<1>1. /\ current' = current + 1 /\ current \in Nat /\ deleted' = deleted
      /\ open' = open \cup {current + 1}
      /\ UNCHANGED <<staged, remote, tasks, dead, proc>>
  BY Kept, Constants DEF Publish, rows
<1>2. NothingAhead'
  <2>1. staged \in Nat /\ \A w \in Workers : proc[w].event \in Nat
    BY Kept, Moved, IsWorker, Constants DEF Others, ProcType
  <2>2. staged <= current + 1
    BY <1>1, <2>1 DEF SearchInv, NothingAhead
  <2>3. \A w \in Workers : proc[w].event <= current + 1
    BY <1>1, <2>1 DEF SearchInv, NothingAhead
  <2>4. open \cup {current + 1} \subseteq 0 .. current + 1
    BY <1>1 DEF SearchInv, NothingAhead
  <2>5. QED
    BY <1>1, <2>2, <2>3, <2>4 DEF NothingAhead
<1>3. DeletionsApart'
  BY <1>1 DEF SearchInv, DeletionsApart, Deleted
<1>4. RemovalPending'
  BY <1>1 DEF SearchInv, RemovalPending, Shows
<1>5. UpdatePending'
  BY <1>1 DEF UpdatePending
<1>6. WorkersDeliver'
  <2>1. \A w \in Workers : proc[w].event # current + 1
    <3>1. \A w \in Workers : proc[w].event <= current /\ proc[w].event \in Nat
      BY Moved, IsWorker, Constants DEF SearchInv, NothingAhead, ProcType
    <3>2. QED
      BY <1>1, <3>1
  <2>2. QED
    BY <1>1, <2>1 DEF WorkersDeliver
<1>7. QED
  BY <1>2, <1>3, <1>4, <1>5, <1>6 DEF SearchInv

LEMMA DeleteSearch == ASSUME IInv, SearchInv, Delete PROVE SearchInv'
<1>1. /\ current' = current /\ current \in Nat /\ deleted' = TRUE /\ ~deleted
      /\ open' = open \cup {Deleted}
      /\ UNCHANGED <<staged, remote, tasks, dead, proc>>
  BY Kept, Constants DEF Delete, rows
<1>2. NothingAhead'
  BY <1>1 DEF SearchInv, NothingAhead, Deleted
<1>3. DeletionsApart'
  BY <1>1 DEF SearchInv, DeletionsApart
<1>4. RemovalPending'
  BY <1>1 DEF RemovalPending
<1>5. UpdatePending' /\ WorkersDeliver'
  BY <1>1 DEF UpdatePending, WorkersDeliver, CurrentOk
<1>6. QED
  BY <1>2, <1>3, <1>4, <1>5 DEF SearchInv

(***************************************************************************)
(* Steps of a worker.                                                      *)
(***************************************************************************)
LEMMA GoingPlaces ==
    ASSUME IInv, SearchInv, NEW w \in Workers, NEW place \in Place, Goto(w, place),
           UNCHANGED <<page, staged, remote, tasks, rebuildFailed, queue>>,
           proc[w].at \notin Apart, place \notin Removing,
           LET v == [proc[w] EXCEPT !.at = place]
           IN  CurrentOk /\ proc[w].event = current =>
                 (HasStaged(v) => StageOk) /\ (HasIndexed(v) => IndexOk)
    PROVE  SearchInv'
<1> DEFINE v == [proc[w] EXCEPT !.at = place]
<1>1. v.event = proc[w].event /\ v.at = place
  BY IsWorker, Moved
<1>2. proc' = [proc EXCEPT ![w] = v]
  BY IsWorker, Moved DEF Goto
<1> HIDE DEF v
<1>3. QED
  BY <1>1, <1>2, WorkerGoes DEF v

LEMMA PlaceFields ==
    ASSUME IInv, NEW p \in Procs, NEW place
    PROVE  /\ [proc[p] EXCEPT !.at = place].at = place
           /\ [proc[p] EXCEPT !.at = place].b = proc[p].b
           /\ [proc[p] EXCEPT !.at = place].got = proc[p].got
BY Moved DEF ProcType

LEMMA GuardSearch ==
    ASSUME IInv, SearchInv, NEW w \in Workers, GuardBefore(w) \/ GuardAfter(w)
    PROVE  SearchInv'
<1>1. /\ UNCHANGED <<page, staged, remote, tasks, rebuildFailed, queue>>
      /\ proc[w].at \in {"guard", "check"}
  BY DEF GuardBefore, GuardAfter, At, rows, counters
<1>2. \/ /\ proc' = [proc EXCEPT ![w] = NextBuilder(w)]
         /\ ~(CurrentOk /\ current = proc[w].event)
      \/ GuardBefore(w) /\ Goto(w, "stage")
      \/ GuardBefore(w) /\ proc[w].b # "search" /\ Goto(w, "read")
      \/ GuardAfter(w) /\ Goto(w, "record")
  BY IsWorker, Moved DEF GuardBefore, GuardAfter, Goto, IsStale
<1>3. CASE /\ proc' = [proc EXCEPT ![w] = NextBuilder(w)]
           /\ ~(CurrentOk /\ current = proc[w].event)
  BY <1>1, <1>3, ToNextBuilder
<1>4. ASSUME NEW place \in {"stage", "read"}, Goto(w, place) PROVE SearchInv'
  <2>1. LET v == [proc[w] EXCEPT !.at = place] IN ~HasStaged(v) /\ ~HasIndexed(v)
    BY IsWorker, PlaceFields DEF HasStaged, HasIndexed
  <2>2. place \in Place /\ place \notin Removing
    BY DEF Place
  <2>3. QED
    BY <1>1, <1>4, <2>1, <2>2, GoingPlaces
<1>5. CASE GuardAfter(w) /\ Goto(w, "record")
  <2>1. proc[w].at = "check"
    BY <1>5 DEF GuardAfter, At
  <2>2. LET v == [proc[w] EXCEPT !.at = "record"]
        IN (HasStaged(v) => HasStaged(proc[w])) /\ (HasIndexed(v) => HasIndexed(proc[w]))
    BY <2>1, IsWorker, PlaceFields DEF HasStaged, HasIndexed
  <2>3. "record" \in Place
    BY DEF Place
  <2>4. QED
    BY <1>1, <1>5, <2>2, <2>3, GoingPlaces DEF SearchInv, WorkersDeliver
<1>6. QED
  BY <1>2, <1>3, <1>4, <1>5

LEMMA ReadSearch == ASSUME IInv, SearchInv, NEW w \in Workers, Read(w) PROVE SearchInv'
<1>1. /\ UNCHANGED <<page, staged, remote, tasks, rebuildFailed>>
      /\ proc[w].at \in {"read", "again"}
  BY DEF Read, HandlerFailed, At, rows, counters
<1>2. CASE CurrentOk
  <2> DEFINE place == IF proc[w].at = "again" THEN "rewrite"
                      ELSE IF proc[w].b = "links" THEN "wipe" ELSE "write"
  <2>1. /\ proc' = [proc EXCEPT ![w] = [proc[w] EXCEPT !.got = current, !.at = place]]
        /\ place = "rewrite" => proc[w].at = "again"
        /\ place \in {"rewrite", "wipe", "write"}
        /\ UNCHANGED queue
    <3>1. proc \in [Procs -> ProcType] /\ w \in Procs /\ proc[w] \in ProcType
      BY IsWorker, Moved
    <3>2. proc' = [proc EXCEPT ![w] = [proc[w] EXCEPT !.got = current, !.at = place]]
      BY <1>2, <3>1 DEF Read, At
    <3>3. QED
      BY <1>2, <3>2 DEF Read
  <2> HIDE DEF place
  <2> DEFINE v == [proc[w] EXCEPT !.got = current, !.at = place]
  <2>2. v.at = place /\ v.event = proc[w].event
    BY IsWorker, Moved DEF ProcType
  <2>3. proc' = [proc EXCEPT ![w] = v]
    BY <2>1
  <2> HIDE DEF v
  <2>4. HasStaged(v) \/ HasIndexed(v) => HasStaged(proc[w]) /\ HasIndexed(proc[w])
    BY <2>1, <2>2 DEF HasStaged, HasIndexed
  <2>5. CurrentOk /\ v.event = current =>
          (HasStaged(v) => StageOk) /\ (HasIndexed(v) => IndexOk)
    BY <2>2, <2>4 DEF SearchInv, WorkersDeliver
  <2>6. v.at \notin Removing /\ proc[w].at \notin Apart
    BY <1>1, <2>1, <2>2
  <2>7. QED
    BY <1>1, <2>1, <2>2, <2>3, <2>5, <2>6, WorkerGoes
<1>3. CASE HandlerFailed(w)
  BY <1>1, <1>3, FailedSearch
<1>4. CASE Goto(w, "error") /\ UNCHANGED queue
  <2>1. LET v == [proc[w] EXCEPT !.at = "error"] IN ~HasStaged(v) /\ ~HasIndexed(v)
    BY IsWorker, PlaceFields DEF HasStaged, HasIndexed
  <2>2. "error" \in Place
    BY DEF Place
  <2>3. QED
    BY <1>1, <1>4, <2>1, <2>2, GoingPlaces
<1>5. QED
  BY <1>2, <1>3, <1>4 DEF Read

(* Processes that change no search table, no queue and no bookkeeping of   *)
(* rebuilds, wiping and writing rows.                                      *)
LEMMA RowsSearch ==
    ASSUME IInv, SearchInv, NEW w \in Workers, Wipe(w) \/ Wiped(w) \/ Write(w)
    PROVE  SearchInv'
<1>1. /\ UNCHANGED <<page, staged, remote, tasks, rebuildFailed, queue>>
      /\ proc[w].at \in {"wipe", "wiping", "write"}
  BY DEF Wipe, Wiped, Write, At, rows, counters
<1>2. CASE Wipe(w)
  <2> DEFINE v == [proc[w] EXCEPT !.seen = links, !.at = "wiping"]
  <2>1. v.at = "wiping" /\ v.event = proc[w].event
    BY IsWorker, Moved DEF ProcType
  <2>2. proc' = [proc EXCEPT ![w] = v]
    BY <1>2, IsWorker, Moved DEF Wipe
  <2> HIDE DEF v
  <2>3. ~HasStaged(v) /\ ~HasIndexed(v)
    BY <2>1 DEF HasStaged, HasIndexed
  <2>4. v.at \notin Removing /\ proc[w].at \notin Apart
    BY <1>1, <2>1
  <2>5. QED
    BY <1>1, <2>1, <2>2, <2>3, <2>4, WorkerGoes
<1>3. CASE Wiped(w)
  <2>1. Goto(w, "write") /\ "write" \in Place
    BY <1>3 DEF Wiped, Place
  <2>2. LET v == [proc[w] EXCEPT !.at = "write"] IN ~HasStaged(v) /\ ~HasIndexed(v)
    BY IsWorker, PlaceFields DEF HasStaged, HasIndexed
  <2>3. QED
    BY <1>1, <2>1, <2>2, GoingPlaces
<1>4. CASE Write(w)
  <2>1. PICK place \in {"check", "error"} :
          Goto(w, place) /\ (place = "check" => proc[w].b # "search")
    BY <1>4 DEF Write
  <2>2. LET v == [proc[w] EXCEPT !.at = place] IN ~HasStaged(v) /\ ~HasIndexed(v)
    BY <2>1, IsWorker, PlaceFields DEF HasStaged, HasIndexed
  <2>3. place \in Place /\ place \notin Removing
    BY DEF Place
  <2>4. QED
    BY <1>1, <2>1, <2>2, <2>3, GoingPlaces
<1>5. QED
  BY <1>2, <1>3, <1>4

LEMMA RecordSearch ==
    ASSUME IInv, SearchInv, NEW w \in Workers, RecordOk(w) \/ RecordError(w)
    PROVE  SearchInv'
<1>1. UNCHANGED <<page, staged, remote, tasks, rebuildFailed>>
  BY DEF RecordOk, RecordError, Upsert, rows, counters
<1>2. CASE RecordOk(w)
  <2>1. /\ proc' = [proc EXCEPT ![w] = NextBuilder(w)] /\ UNCHANGED queue
        /\ proc[w].at = "record"
    BY <1>2 DEF RecordOk, At
  <2>2. QED
    BY <1>1, <2>1, ToNextBuilder
<1>3. CASE RecordError(w)
  BY <1>1, <1>3, FailedSearch DEF RecordError
<1>4. QED
  BY <1>2, <1>3

(* The event of a revision is done when its last rendering commits.        *)
LEMMA RewriteSearch ==
    ASSUME IInv, SearchInv, NEW w \in Workers, Rewrite(w)
    PROVE  SearchInv'
<1>1. /\ Reset(w) /\ proc[w].at = "rewrite"
      /\ UNCHANGED <<page, staged, remote, tasks, rebuildFailed>>
      /\ open' = open \ {proc[w].event} /\ dead' = dead
  BY DEF Rewrite, Close, At, counters
<1>2. proc[w].event # Deleted
  BY <1>1 DEF SearchInv, DeletionsApart
<1>3. CurrentOk /\ proc[w].event = current => StageOk /\ IndexOk
  BY <1>1 DEF SearchInv, WorkersDeliver, HasStaged, HasIndexed
<1>4. Deleted \in open \cup dead => Deleted \in open' \cup dead'
  BY <1>1, <1>2
<1>5. CurrentOk /\ current \in open \cup dead =>
        current \in open' \cup dead' \/ (StageOk /\ IndexOk)
  BY <1>1, <1>3
<1>6. open' \subseteq open
  BY <1>1
<1>7. QED
  BY <1>1, <1>4, <1>5, <1>6, WorkerStops

(* What a worker writes to the search tables: an unfinished current        *)
(* revision stays promised, or is there.                                   *)
LEMMA WorkerWrites ==
    ASSUME IInv, SearchInv, NEW w \in Workers, NEW v, proc' = [proc EXCEPT ![w] = v],
           UNCHANGED <<page, rebuildFailed>>,
           v.event <= current, DeletionsApart',
           staged' <= current, open' \subseteq open,
           deleted => staged' \in {0, staged} /\ (Shows(0) => Shows(0)'),
           deleted => Deleted \in open' \cup dead' \/ Deleted \notin open \cup dead
                      \/ (staged' = 0 /\ Shows(0)'),
           CurrentOk => /\ staged' \in {current, staged}
                        /\ Shows(current) => Shows(current)'
                        /\ open' = open /\ dead' = dead,
           CurrentOk /\ v.event = current =>
             (HasStaged(v) => StageOk') /\ (HasIndexed(v) => IndexOk')
    PROVE  SearchInv'
<1>1. current' = current /\ deleted' = deleted /\ rebuildFailed' = rebuildFailed
      /\ CurrentOk' = CurrentOk
  BY DEF page, CurrentOk
<1>2. proc'[w] = v /\ \A q \in Procs \ {w} : proc'[q] = proc[q]
  BY IsWorker, Alone
<1>3. StageOwed' = StageOwed /\ IndexOwed' = IndexOwed
  BY <1>1, <1>2, IsWorker, IsRebuilder DEF StageOwed, IndexOwed, WillIndex
<1>4. CurrentOk => (StageOk => StageOk') /\ (IndexOk => IndexOk')
  BY <1>1, <1>3 DEF StageOk, IndexOk
<1>5. NothingAhead'
  BY <1>1, <1>2, IsWorker DEF SearchInv, NothingAhead
<1>6. RemovalPending'
  BY <1>1 DEF SearchInv, RemovalPending
<1>7. UpdatePending'
  BY <1>1, <1>4 DEF SearchInv, UpdatePending
<1>8. WorkersDeliver'
  <2> SUFFICES ASSUME CurrentOk', NEW x \in Workers, proc'[x].event = current'
               PROVE  /\ HasStaged(proc'[x]) => StageOk'
                      /\ HasIndexed(proc'[x]) => IndexOk'
    BY DEF WorkersDeliver, HasStaged, HasIndexed
  <2>1. CASE x = w
    BY <2>1, <1>1, <1>2
  <2>2. CASE x # w
    <3>1. proc'[x] = proc[x]
      BY <2>2, <1>2, IsWorker
    <3>2. QED
      BY <3>1, <1>1, <1>4 DEF SearchInv, WorkersDeliver
  <2>3. QED
    BY <2>1, <2>2
<1>9. QED
  BY <1>5, <1>6, <1>7, <1>8 DEF SearchInv

(* A worker's own claims about deletion, when it goes to another place.    *)
LEMMA StillApart ==
    ASSUME IInv, SearchInv, NEW w \in Workers, NEW v, proc' = [proc EXCEPT ![w] = v],
           UNCHANGED page, open' \subseteq open,
           v.at \in Removing => deleted,
           v.event = Deleted => v.at \in Apart
    PROVE  DeletionsApart'
<1>1. proc'[w] = v /\ \A q \in Procs \ {w} : proc'[q] = proc[q]
  BY IsWorker, Alone
<1>2. QED
  BY <1>1, IsWorker DEF SearchInv, DeletionsApart, page

LEMMA StageSearch == ASSUME IInv, SearchInv, NEW w \in Workers, Stage(w) PROVE SearchInv'
<1>1. PICK place \in {"sync", "withdraw"} :
        /\ Goto(w, place)
        /\ place = "sync" => CurrentOk /\ staged' = current
        /\ place = "withdraw" => ~CurrentOk /\ staged' = staged
  BY DEF Stage
<1> DEFINE v == [proc[w] EXCEPT !.at = place]
<1>2. /\ v.at = place /\ v.event = proc[w].event /\ v.b = proc[w].b
      /\ proc' = [proc EXCEPT ![w] = v]
  <2>1. place \in Place
    BY DEF Place
  <2>2. QED
    BY <1>1, <2>1, IsWorker, Moved, PlaceFields DEF Goto
<1> HIDE DEF v
<1>3. /\ proc[w].at = "stage" /\ UNCHANGED <<page, rebuildFailed>>
      /\ open' = open /\ dead' = dead /\ remote' = remote /\ tasks' = tasks
  BY DEF Stage, At, queue, counters
<1>4. proc[w].event # Deleted /\ v.event <= current /\ staged <= current /\ current <= current
  BY <1>2, <1>3, Kept, Constants DEF SearchInv, DeletionsApart, NothingAhead
<1>5. ~CurrentOk => deleted
  <2>1. proc[w].event \in Nat /\ current \in Nat
    BY IsWorker, Moved, Kept, Constants DEF ProcType
  <2>2. QED
    BY <1>2, <1>4, <2>1 DEF CurrentOk, Deleted
<1>6. DeletionsApart'
  BY <1>1, <1>2, <1>3, <1>4, <1>5, StillApart
<1>7. CurrentOk => StageOk'
  BY <1>1, <1>3 DEF StageOk, page
<1>8. ~HasIndexed(v)
  BY <1>1, <1>2 DEF HasIndexed
<1>9. staged' <= current /\ (deleted => staged' = staged)
  BY <1>1, <1>4 DEF CurrentOk
<1>10. (Shows(0) => Shows(0)') /\ (Shows(current) => Shows(current)')
  BY <1>3 DEF Shows, page
<1>11. CurrentOk => staged' \in {current, staged}
  BY <1>1
<1>12. QED
  BY <1>2, <1>3, <1>4, <1>6, <1>7, <1>8, <1>9, <1>10, <1>11, WorkerWrites

LEMMA WorkerSyncSearch ==
    ASSUME IInv, SearchInv, NEW w \in Workers, Sync(w)
    PROVE  SearchInv'
<1>1. /\ UNCHANGED <<page, staged, remote, tasks, rebuildFailed, queue>>
      /\ proc[w].at = "sync"
  BY DEF Sync, At, rows, counters
<1>2. PICK place \in {"check", "error", "index"} :
        /\ Goto(w, place)
        /\ place = "check" => ~(CurrentOk /\ current = proc[w].event)
  BY DEF Sync, SyncDone, Expected, Synced
<1> DEFINE v == [proc[w] EXCEPT !.at = place]
<1>3. v.at = place /\ v.b = proc[w].b
  BY IsWorker, PlaceFields
<1> HIDE DEF v
<1>4. CurrentOk /\ proc[w].event = current =>
        (HasStaged(v) => HasStaged(proc[w])) /\ ~HasIndexed(v)
  BY <1>1, <1>2, <1>3 DEF HasStaged, HasIndexed
<1>5. CurrentOk /\ proc[w].event = current =>
        (HasStaged(v) => StageOk) /\ (HasIndexed(v) => IndexOk)
  BY <1>4 DEF SearchInv, WorkersDeliver
<1>6. place \in Place /\ place \notin Removing
  BY DEF Place
<1>7. QED
  BY <1>1, <1>2, <1>5, <1>6, GoingPlaces DEF v

LEMMA WorkerIndexSearch ==
    ASSUME IInv, SearchInv, NEW w \in Workers, Index(w)
    PROVE  SearchInv'
<1> DEFINE v == [proc[w] EXCEPT !.at = "wait"]
<1>1. /\ v.at = "wait" /\ v.event = proc[w].event /\ v.b = proc[w].b
      /\ proc' = [proc EXCEPT ![w] = v]
  <2>1. "wait" \in Place
    BY DEF Place
  <2>2. QED
    BY <2>1, IsWorker, Moved, PlaceFields DEF Index, Goto
<1> HIDE DEF v
<1>2. /\ proc[w].at = "index" /\ UNCHANGED <<page, rebuildFailed>>
      /\ open' = open /\ dead' = dead /\ staged' = staged
      /\ CurrentOk /\ current = proc[w].event
  BY IsWorker DEF Index, At, queue, counters, IInv, LockInv, Locking, Indexing, Expected, Synced
<1>3. proc[w].event # Deleted /\ v.event <= current /\ staged <= current /\ current <= current
  BY <1>1, <1>2, Kept, Constants DEF SearchInv, DeletionsApart, NothingAhead
<1>4. DeletionsApart'
  BY <1>1, <1>2, <1>3, StillApart
<1>5. Shows(current) => Shows(current)'
  BY <1>2, IsWorker, IndexAsks, ShowsAsked, Kept DEF Shows, page
<1>6. HasStaged(v) => StageOk'
  <2>1. HasStaged(v) => HasStaged(proc[w])
    BY <1>1, <1>2 DEF HasStaged
  <2>2. HasStaged(v) => StageOk
    BY <1>2, <2>1 DEF SearchInv, WorkersDeliver
  <2>3. \A p \in Rebuilders : proc'[p] = proc[p]
    BY <1>1, IsWorker, IsRebuilder, Alone
  <2>4. QED
    BY <1>2, <2>2, <2>3 DEF StageOk, StageOwed, page
<1>7. staged' <= current /\ ~HasIndexed(v)
  BY <1>1, <1>2, <1>3 DEF HasIndexed
<1>8. ~deleted
  BY <1>2 DEF CurrentOk
<1>9. QED
  BY <1>1, <1>2, <1>3, <1>4, <1>5, <1>6, <1>7, <1>8, WorkerWrites

LEMMA WorkerIndexedSearch ==
    ASSUME IInv, SearchInv, AnswersInv, NEW w \in Workers, Indexed(w)
    PROVE  SearchInv'
<1>1. /\ UNCHANGED <<page, staged, remote, tasks, rebuildFailed, queue>>
      /\ proc[w].at = "wait" /\ Goto(w, "check")
  BY DEF Indexed, SyncDone, At, rows, counters
<1>2. IndexOk
  <2>1. Settling(w, current) \/ Emptied(w)
    BY <1>1, IsWorker DEF AnswersInv
  <2>2. Settling(w, current) => Shows(current)
    BY IsWorker, Settled DEF Indexed
  <2>3. Emptied(w) => IndexOwed
    BY DEF Emptied, IndexOwed, WillIndex, WillStage
  <2>4. QED
    BY <2>1, <2>2, <2>3 DEF IndexOk
<1>3. "check" \in Place
  BY DEF Place
<1>4. LET v == [proc[w] EXCEPT !.at = "check"] IN HasStaged(v) => HasStaged(proc[w])
  BY <1>1, IsWorker, PlaceFields DEF HasStaged
<1>5. QED
  BY <1>1, <1>2, <1>3, <1>4, GoingPlaces DEF SearchInv, WorkersDeliver

LEMMA ClearSearch == ASSUME IInv, SearchInv, NEW w \in Workers, Clear(w) PROVE SearchInv'
<1> DEFINE v == [proc[w] EXCEPT !.at = "unlist"]
<1>1. /\ v.at = "unlist" /\ v.event = proc[w].event /\ proc' = [proc EXCEPT ![w] = v]
  <2>1. "unlist" \in Place
    BY DEF Place
  <2>2. QED
    BY <2>1, IsWorker, Moved DEF Clear, Goto
<1> HIDE DEF v
<1>2. /\ proc[w].at = "clear" /\ UNCHANGED <<page, rebuildFailed>>
      /\ open' = open /\ dead' = dead /\ staged' = 0 /\ remote' = remote /\ tasks' = tasks
  BY DEF Clear, At, queue, counters
<1>3. deleted /\ ~CurrentOk
  BY <1>2 DEF SearchInv, DeletionsApart, CurrentOk
<1>4. v.event <= current /\ staged' <= current
  BY <1>1, <1>2, Kept, Constants DEF SearchInv, NothingAhead
<1>5. DeletionsApart'
  BY <1>1, <1>2, <1>3, StillApart
<1>6. Shows(0) => Shows(0)'
  BY <1>2 DEF Shows
<1>7. QED
  BY <1>1, <1>2, <1>3, <1>4, <1>5, <1>6, WorkerWrites

(* The documents of a page that is gone are withdrawn.                     *)
LEMMA WithdrawSearch ==
    ASSUME IInv, SearchInv, NEW w \in Workers, Unlist(w) \/ Withdraw(w)
    PROVE  SearchInv'
<1>1. PICK place \in {"withdraw", "withdrawing"} : Goto(w, place)
  BY DEF Unlist, Withdraw
<1> DEFINE v == [proc[w] EXCEPT !.at = place]
<1>2. v.at = place /\ v.event = proc[w].event /\ proc' = [proc EXCEPT ![w] = v]
  <2>1. place \in Place
    BY DEF Place
  <2>2. QED
    BY <1>1, <2>1, IsWorker, Moved DEF Goto
<1> HIDE DEF v
<1>3. /\ proc[w].at \in {"unlist", "withdraw"} /\ UNCHANGED <<page, rebuildFailed>>
      /\ open' = open /\ dead' = dead /\ staged' = staged
  BY DEF Unlist, Withdraw, At, queue, counters, rows
<1>4. deleted /\ ~CurrentOk
  BY <1>3 DEF SearchInv, DeletionsApart, CurrentOk
<1>5. v.event <= current /\ staged' <= current
  BY <1>2, <1>3 DEF SearchInv, NothingAhead
<1>6. DeletionsApart'
  BY <1>2, <1>3, <1>4, StillApart
<1>7. Shows(0) => Shows(0)'
  <2>1. CASE Unlist(w)
    BY <2>1 DEF Unlist, rows, Shows
  <2>2. CASE Withdraw(w)
    BY <2>2, IsWorker, EmptyAsks, ShowsAsked, Constants DEF Shows
  <2>3. QED
    BY <2>1, <2>2
<1>8. QED
  BY <1>2, <1>3, <1>4, <1>5, <1>6, <1>7, WorkerWrites

LEMMA WithdrawnSearch ==
    ASSUME IInv, SearchInv, AnswersInv, NEW w \in Workers, Withdrawn(w)
    PROVE  SearchInv'
<1>1. PICK v : /\ proc' = [proc EXCEPT ![w] = v]
               /\ \/ v.at = "idle" /\ v.event = Deleted
                  \/ v.at = "sync" /\ v.event = proc[w].event /\ v.event # Deleted
  <2>1. CASE proc[w].event = Deleted
    <3> DEFINE v == Idle
    <3>1. v.at = "idle" /\ v.event = Deleted /\ proc' = [proc EXCEPT ![w] = v]
      BY <2>1 DEF Withdrawn, Reset, Idle
    <3> HIDE DEF v
    <3>2. QED
      BY <3>1
  <2>2. CASE proc[w].event # Deleted
    <3> DEFINE v == [proc[w] EXCEPT !.at = "sync"]
    <3>1. "sync" \in Place
      BY DEF Place
    <3>2. v.at = "sync" /\ v.event = proc[w].event /\ proc' = [proc EXCEPT ![w] = v]
      BY <2>2, <3>1, IsWorker, Moved DEF Withdrawn, Goto
    <3> HIDE DEF v
    <3>3. QED
      BY <2>2, <3>2
  <2>3. QED
    BY <2>1, <2>2
<1>2. /\ proc[w].at = "withdrawing" /\ UNCHANGED <<page, rebuildFailed, remote, tasks>>
      /\ open' \subseteq open /\ staged' = 0
  BY DEF Withdrawn, Close, At, queue, counters
<1>3. deleted /\ ~CurrentOk
  BY <1>2 DEF SearchInv, DeletionsApart, CurrentOk
<1>4. v.event <= current /\ staged' <= current
  <2>1. proc[w].event <= current /\ 0 <= current
    BY Kept, Constants DEF SearchInv, NothingAhead
  <2>2. QED
    BY <1>1, <1>2, <2>1 DEF Deleted
<1>5. DeletionsApart'
  BY <1>1, <1>2, StillApart
<1>6. Shows(0)'
  <2>1. Settling(w, 0) /\ Answered(w)
    BY <1>2, IsWorker DEF AnswersInv, Withdrawn
  <2>2. Shows(0)
    BY <2>1, IsWorker, Settled, Constants
  <2>3. QED
    BY <1>2, <2>2 DEF Shows
<1>7. QED
  BY <1>1, <1>2, <1>3, <1>4, <1>5, <1>6, WorkerWrites

LEMMA WorkerFailsSearch ==
    ASSUME IInv, SearchInv, NEW w \in Workers, BuilderFails(w)
    PROVE  SearchInv'
<1> DEFINE v == [proc[w] EXCEPT !.at = "error"]
<1>1. /\ v.at = "error" /\ v.event = proc[w].event /\ proc' = [proc EXCEPT ![w] = v]
  <2>1. "error" \in Place
    BY DEF Place
  <2>2. QED
    BY <2>1, IsWorker, Moved DEF BuilderFails, Goto
<1> HIDE DEF v
<1>2. /\ UNCHANGED <<page, staged, remote, tasks, rebuildFailed>>
      /\ open' = open /\ dead' = dead
      /\ proc[w].event = Deleted => proc[w].at \notin Apart
  BY DEF BuilderFails, queue, rows
<1>3. v.event # Deleted /\ v.event <= current
  BY <1>1, <1>2 DEF SearchInv, DeletionsApart, NothingAhead
<1>4. ~HasStaged(v) /\ ~HasIndexed(v)
  BY <1>1 DEF HasStaged, HasIndexed
<1>5. QED
  BY <1>1, <1>2, <1>3, <1>4, WorkerSearch

(***************************************************************************)
(* Steps of a rebuild.                                                     *)
(***************************************************************************)

(* A rebuild that keeps or settles what it owes: v is what it goes on as.  *)
LEMMA RebuilderSearch ==
    ASSUME IInv, SearchInv, NEW p \in Rebuilders, NEW v, proc' = [proc EXCEPT ![p] = v],
           UNCHANGED <<page, queue>>, rebuildFailed => rebuildFailed',
           staged' \in {0, staged, current},
           deleted => staged' \in {0, staged} /\ (Shows(0) => Shows(0)'),
           CurrentOk =>
             \/ staged' = current \/ v.at \in WillStage \/ rebuildFailed'
             \/ staged' = staged /\ proc[p].at \notin WillStage,
           CurrentOk =>
             \/ Shows(current)' \/ WillIndex(v) \/ rebuildFailed' \/ Emptied(p)
             \/ (Shows(current) => Shows(current)') /\ ~WillIndex(proc[p])
    PROVE  SearchInv'
<1>1. current' = current /\ deleted' = deleted /\ CurrentOk' = CurrentOk
      /\ open' = open /\ dead' = dead
  BY DEF page, queue, CurrentOk
<1>2. proc'[p] = v /\ \A q \in Procs \ {p} : proc'[q] = proc[q]
  BY IsRebuilder, Alone
<1>3. \A w \in Workers : proc'[w] = proc[w]
  BY <1>2, IsWorker
<1>4. ASSUME CurrentOk PROVE (StageOk => StageOk') /\ (IndexOk => IndexOk')
  <2>1. \A q \in Rebuilders \ {p} : proc'[q] = proc[q]
    BY <1>2, IsRebuilder
  <2>2. StageOk => StageOk'
    <3>1. CASE staged' = current \/ v.at \in WillStage \/ rebuildFailed'
      BY <1>1, <1>2, <3>1 DEF StageOk, StageOwed
    <3>2. CASE staged' = staged /\ proc[p].at \notin WillStage
      BY <1>1, <2>1, <3>2 DEF StageOk, StageOwed
    <3>3. QED
      BY <1>4, <3>1, <3>2
  <2>3. IndexOk => IndexOk'
    <3>1. \A q \in Rebuilders \ {p} : WillIndex(proc[q]) => WillIndex(proc[q])'
      BY <1>1, <2>1 DEF WillIndex
    <3>2. WillIndex(v) => WillIndex(proc[p])'
      BY <1>1, <1>2 DEF WillIndex
    <3>3. CASE Shows(current)' \/ WillIndex(v) \/ rebuildFailed'
      BY <1>1, <3>2, <3>3 DEF IndexOk, IndexOwed
    <3>4. CASE (Shows(current) => Shows(current)') /\ ~WillIndex(proc[p])
      BY <1>1, <3>1, <3>4 DEF IndexOk, IndexOwed
    <3>5. CASE Emptied(p)
      <4>1. \A q \in Rebuilders \ {p} :
              proc[q].at \in {"emptying", "lockPage"} => WillIndex(proc[q])
        BY DEF WillIndex, WillStage
      <4>2. QED
        BY <3>1, <3>5, <4>1 DEF Emptied, IndexOk, IndexOwed
    <3>6. QED
      BY <1>4, <3>3, <3>4, <3>5
  <2>4. QED
    BY <2>2, <2>3
<1>5. NothingAhead'
  BY <1>1, <1>3, Kept, Constants DEF SearchInv, NothingAhead
<1>6. DeletionsApart'
  BY <1>1, <1>3 DEF SearchInv, DeletionsApart
<1>7. RemovalPending'
  BY <1>1 DEF SearchInv, RemovalPending
<1>8. UpdatePending' /\ WorkersDeliver'
  BY <1>1, <1>3, <1>4 DEF SearchInv, UpdatePending, WorkersDeliver, HasStaged, HasIndexed
<1>9. QED
  BY <1>5, <1>6, <1>7, <1>8 DEF SearchInv

(* Going to another place.                                                 *)
LEMMA RebuilderGoes ==
    ASSUME IInv, SearchInv, NEW p \in Rebuilders, NEW place \in Place, Goto(p, place),
           UNCHANGED <<page, queue, rebuildFailed>>,
           staged' \in {0, staged, current},
           deleted => staged' \in {0, staged} /\ (Shows(0) => Shows(0)'),
           CurrentOk =>
             \/ staged' = current \/ place \in WillStage
             \/ staged' = staged /\ proc[p].at \notin WillStage,
           CurrentOk =>
             \/ place \in WillStage \/ Shows(current)' \/ Emptied(p)
             \/ place \in {"sync", "index", "wait"} /\ proc[p].got = current
             \/ (Shows(current) => Shows(current)') /\ ~WillIndex(proc[p])
    PROVE  SearchInv'
<1> DEFINE v == [proc[p] EXCEPT !.at = place]
<1>1. v.at = place /\ v.got = proc[p].got
  BY IsRebuilder, PlaceFields
<1>2. proc' = [proc EXCEPT ![p] = v]
  BY IsRebuilder, Moved DEF Goto
<1> HIDE DEF v
<1>3. UNCHANGED <<page, queue>> /\ (rebuildFailed => rebuildFailed')
  OBVIOUS
<1>4. CurrentOk => \/ Shows(current)' \/ WillIndex(v) \/ rebuildFailed' \/ Emptied(p)
                   \/ (Shows(current) => Shows(current)') /\ ~WillIndex(proc[p])
  BY <1>1 DEF WillIndex
<1>5. CurrentOk => \/ staged' = current \/ v.at \in WillStage \/ rebuildFailed'
                   \/ staged' = staged /\ proc[p].at \notin WillStage
  BY <1>1
<1>6. QED
  BY <1>2, <1>3, <1>4, <1>5, RebuilderSearch

(* Ending with a failure reported, or with nothing owed.                   *)
LEMMA RebuilderStops ==
    ASSUME IInv, SearchInv, NEW p \in Rebuilders, Reset(p),
           UNCHANGED <<page, queue, staged, remote, tasks>>, rebuildFailed => rebuildFailed',
           CurrentOk => rebuildFailed' \/ (proc[p].at \notin WillStage /\ ~WillIndex(proc[p]))
    PROVE  SearchInv'
<1> DEFINE v == Idle
<1>1. proc' = [proc EXCEPT ![p] = v]
  BY DEF Reset
<1> HIDE DEF v
<1>2. /\ staged' = staged /\ UNCHANGED <<page, queue>>
      /\ (Shows(0) => Shows(0)') /\ (Shows(current) => Shows(current)')
  BY DEF Shows, page
<1>3. QED
  BY <1>1, <1>2, RebuilderSearch

(* What is shown stays so with neither the page nor the remote index.      *)
LEMMA ShowsKept ==
    ASSUME UNCHANGED <<page, remote, tasks>>
    PROVE  (Shows(0) => Shows(0)') /\ (Shows(current) => Shows(current)')
BY DEF Shows, page

LEMMA StartSearch ==
    ASSUME IInv, SearchInv, NEW p \in Rebuilders, NEW place \in {"lockPage", "emptyStage"},
           Start(p, place)
    PROVE  SearchInv'
<1>1. /\ Goto(p, place) /\ UNCHANGED <<page, queue, rebuildFailed>>
      /\ staged' = staged /\ UNCHANGED <<page, remote, tasks>>
      /\ proc[p].at = "idle" /\ place \in Place
  BY DEF Start, At, rows, Place
<1>2. proc[p].at \notin WillStage /\ ~WillIndex(proc[p])
  BY <1>1 DEF WillStage, WillIndex
<1>3. QED
  BY <1>1, <1>2, ShowsKept, RebuilderGoes

LEMMA PrepareSearch ==
    ASSUME IInv, SearchInv, NEW p \in Rebuilders, PrepareFullRebuild(p)
    PROVE  SearchInv'
<1>1. PICK place \in {"emptyRemote", "emptying", "lockPage"} : Goto(p, place)
  BY DEF PrepareFullRebuild
<1>2. place \in Place /\ place \in WillStage
  BY DEF Place, WillStage
<1>3. UNCHANGED <<page, queue, rebuildFailed>> /\ staged' \in {0, staged}
  BY DEF PrepareFullRebuild, counters
<1>4. Shows(0) => Shows(0)'
  <2>1. CASE Ask(p, 0) /\ UNCHANGED remote
    BY <2>1, IsRebuilder, ShowsAsked, Constants DEF Shows
  <2>2. CASE UNCHANGED <<remote, tasks>>
    BY <2>2 DEF Shows
  <2>3. QED
    BY <2>1, <2>2 DEF PrepareFullRebuild
<1>5. QED
  BY <1>1, <1>2, <1>3, <1>4, RebuilderGoes

LEMMA PrepareFailsSearch ==
    ASSUME IInv, SearchInv, NEW p \in Rebuilders, PrepareFails(p)
    PROVE  SearchInv'
<1>1. Reset(p) /\ UNCHANGED <<page, queue, staged, remote, tasks>> /\ rebuildFailed'
  BY DEF PrepareFails, rows
<1>2. QED
  BY <1>1, RebuilderStops

LEMMA LockPageSearch ==
    ASSUME IInv, SearchInv, NEW p \in Rebuilders, LockPage(p)
    PROVE  SearchInv'
<1>1. /\ UNCHANGED <<page, queue, staged, remote, tasks>> /\ staged' = staged
      /\ rebuildFailed => rebuildFailed'
  BY DEF LockPage, RebuildFails, rows, counters
<1>2. CASE CurrentOk
  <2> DEFINE v == [proc[p] EXCEPT !.got = current, !.at = "wipe"]
  <2>1. v.at = "wipe" /\ proc' = [proc EXCEPT ![p] = v]
    BY <1>2, IsRebuilder, Moved DEF LockPage, ProcType
  <2> HIDE DEF v
  <2>2. v.at \in WillStage /\ WillIndex(v)
    BY <2>1 DEF WillStage, WillIndex
  <2>3. QED
    BY <1>1, <2>1, <2>2, ShowsKept, RebuilderSearch
<1>3. CASE ~CurrentOk
  BY <1>1, <1>3, RebuilderStops DEF LockPage
<1>4. QED
  BY <1>2, <1>3

LEMMA RebuildRowsSearch ==
    ASSUME IInv, SearchInv, NEW p \in Rebuilders, Wipe(p) \/ Wiped(p)
    PROVE  SearchInv'
<1>1. /\ UNCHANGED <<page, queue>> /\ rebuildFailed' = rebuildFailed
      /\ staged' = staged /\ UNCHANGED <<page, remote, tasks>>
  BY DEF Wipe, Wiped, rows, counters
<1>2. PICK v : proc' = [proc EXCEPT ![p] = v] /\ v.at \in {"wiping", "commit"}
  <2>1. CASE Wipe(p)
    <3> DEFINE v == [proc[p] EXCEPT !.seen = links, !.at = "wiping"]
    <3>1. v.at = "wiping" /\ proc' = [proc EXCEPT ![p] = v]
      BY <2>1, IsRebuilder, Moved DEF Wipe, ProcType
    <3> HIDE DEF v
    <3>2. QED
      BY <3>1
  <2>2. CASE Wiped(p)
    <3> DEFINE v == [proc[p] EXCEPT !.at = "commit"]
    <3>1. v.at = "commit" /\ proc' = [proc EXCEPT ![p] = v]
      BY <2>2, IsRebuilder, Moved DEF Wiped, Goto, ProcType
    <3> HIDE DEF v
    <3>2. QED
      BY <3>1
  <2>3. QED
    BY <2>1, <2>2
<1>3. v.at \in WillStage /\ WillIndex(v)
  BY <1>2 DEF WillStage, WillIndex
<1>4. QED
  BY <1>1, <1>2, <1>3, ShowsKept, RebuilderSearch

LEMMA CommitSearch ==
    ASSUME IInv, SearchInv, NEW p \in Rebuilders, CommitRebuild(p)
    PROVE  SearchInv'
<1>1. /\ UNCHANGED <<page, queue>> /\ remote' = remote /\ tasks' = tasks
      /\ CurrentOk /\ proc[p].got = current
  BY CommitRebuildFacts DEF CommitRebuild, rows
<1>2. CASE Collides(p)
  <2>1. Reset(p) /\ rebuildFailed' /\ staged' = staged
    BY <1>2 DEF CommitRebuild, RebuildFails, rows
  <2>2. QED
    BY <1>1, <2>1, RebuilderStops
<1>3. CASE ~Collides(p)
  <2>1. Goto(p, "sync") /\ staged' = current /\ rebuildFailed' = rebuildFailed
    BY <1>1, <1>3 DEF CommitRebuild, counters
  <2>2. "sync" \in Place /\ ~deleted
    BY <1>1 DEF Place, CurrentOk
  <2>3. QED
    BY <1>1, <2>1, <2>2, RebuilderGoes
<1>4. QED
  BY <1>2, <1>3

LEMMA RebuilderSyncSearch ==
    ASSUME IInv, SearchInv, NEW p \in Rebuilders, Sync(p)
    PROVE  SearchInv'
<1>1. /\ UNCHANGED <<page, queue>> /\ rebuildFailed' = rebuildFailed
      /\ staged' = staged /\ UNCHANGED <<page, remote, tasks>> /\ proc[p].at = "sync"
  BY DEF Sync, At, rows, counters
<1>2. PICK place \in {"refresh", "error", "index"} :
        /\ Goto(p, place)
        /\ place = "refresh" => ~(CurrentOk /\ current = proc[p].got)
        /\ place = "index" => CurrentOk /\ current = proc[p].got
  BY IsRebuilder DEF Sync, SyncDone, Expected, Synced
<1>3. place \in Place /\ proc[p].at \notin WillStage
  BY <1>1 DEF Place, WillStage
<1>4. CurrentOk => \/ place \in WillStage
                   \/ place \in {"sync", "index", "wait"} /\ proc[p].got = current
                   \/ ~WillIndex(proc[p])
  BY <1>1, <1>2 DEF WillStage, WillIndex
<1>5. QED
  BY <1>1, <1>2, <1>3, <1>4, ShowsKept, RebuilderGoes

LEMMA RebuilderIndexSearch ==
    ASSUME IInv, SearchInv, NEW p \in Rebuilders, Index(p) \/ BuilderFails(p)
    PROVE  SearchInv'
<1>1. /\ UNCHANGED <<page, queue>> /\ rebuildFailed' = rebuildFailed
      /\ staged' = staged /\ proc[p].at \in {"sync", "index", "wait"}
  BY IsRebuilder DEF Index, BuilderFails, At, counters, rows
<1>2. proc[p].at \notin WillStage
  BY <1>1 DEF WillStage
<1>3. CASE Index(p)
  <2>1. Goto(p, "wait") /\ CurrentOk /\ proc[p].got = current
    BY <1>3, IsRebuilder
       DEF Index, At, IInv, LockInv, Locking, Indexing, Expected, Synced
  <2>2. "wait" \in Place /\ ~deleted
    BY <2>1 DEF Place, CurrentOk
  <2>3. QED
    BY <1>1, <1>2, <2>1, <2>2, RebuilderGoes
<1>4. CASE BuilderFails(p)
  <2>1. Goto(p, "error") /\ UNCHANGED <<page, remote, tasks>>
    BY <1>1, <1>4 DEF BuilderFails, rows
  <2>2. "error" \in Place /\ "error" \in WillStage
    BY DEF Place, WillStage
  <2>3. QED
    BY <1>1, <1>2, <2>1, <2>2, ShowsKept, RebuilderGoes
<1>5. QED
  BY <1>3, <1>4

LEMMA RebuilderIndexedSearch ==
    ASSUME IInv, SearchInv, AnswersInv, NEW p \in Rebuilders, Indexed(p)
    PROVE  SearchInv'
<1>1. /\ UNCHANGED <<page, queue>> /\ rebuildFailed' = rebuildFailed
      /\ staged' = staged /\ UNCHANGED <<page, remote, tasks>>
      /\ proc[p].at = "wait" /\ Goto(p, "refresh")
  BY IsRebuilder DEF Indexed, SyncDone, At, counters, rows
<1>2. Shows(current)' \/ Emptied(p)
  <2>1. Settling(p, current) \/ Emptied(p)
    BY <1>1, IsRebuilder DEF AnswersInv
  <2>2. Settling(p, current) => Shows(current)
    BY IsRebuilder, Settled DEF Indexed
  <2>3. QED
    BY <1>1, <2>1, <2>2, ShowsKept
<1>3. "refresh" \in Place /\ proc[p].at \notin WillStage
  BY <1>1 DEF Place, WillStage
<1>4. QED
  BY <1>1, <1>2, <1>3, ShowsKept, RebuilderGoes

LEMMA RebuildEndsSearch ==
    ASSUME IInv, SearchInv, NEW p \in Rebuilders, RebuildSyncFails(p) \/ Refresh(p)
    PROVE  SearchInv'
<1>1. /\ Reset(p) /\ UNCHANGED <<page, queue, staged, remote, tasks>>
      /\ rebuildFailed => rebuildFailed'
      /\ rebuildFailed' \/ proc[p].at = "refresh"
  BY DEF RebuildSyncFails, Refresh, RebuildFails, At, rows, counters
<1>2. proc[p].at = "refresh" => proc[p].at \notin WillStage /\ ~WillIndex(proc[p])
  BY DEF WillStage, WillIndex
<1>3. QED
  BY <1>1, <1>2, RebuilderStops

LEMMA DoTaskSearch == ASSUME IInv, SearchInv, DoTask PROVE SearchInv'
<1>1. /\ UNCHANGED <<page, staged, rebuildFailed, proc>> /\ open' = open /\ dead' = dead
      /\ current' = current /\ deleted' = deleted
  BY DEF DoTask, queue, counters, page
<1>2. (Shows(0) => Shows(0)') /\ (Shows(current) => Shows(current)')
  BY <1>1, ShowsDone DEF Shows
<1>3. StageOk' = StageOk /\ (IndexOk => IndexOk') /\ CurrentOk' = CurrentOk
  BY <1>1, <1>2 DEF StageOk, IndexOk, StageOwed, IndexOwed, WillIndex, CurrentOk
<1>4. NothingAhead' /\ DeletionsApart'
  BY <1>1 DEF SearchInv, NothingAhead, DeletionsApart
<1>5. RemovalPending'
  BY <1>1, <1>2 DEF SearchInv, RemovalPending
<1>6. UpdatePending' /\ WorkersDeliver'
  BY <1>1, <1>3 DEF SearchInv, UpdatePending, WorkersDeliver, HasStaged, HasIndexed
<1>7. QED
  BY <1>4, <1>5, <1>6 DEF SearchInv

LEMMA NextSearch == ASSUME IInv, SearchInv, AnswersInv, [Next]_vars PROVE SearchInv'
<1>1. CASE UNCHANGED vars
  BY <1>1 DEF vars, page, rows, queue, counters, SearchInv, NothingAhead, DeletionsApart,
              RemovalPending, UpdatePending, WorkersDeliver, CurrentOk, StageOk, IndexOk,
              StageOwed, IndexOwed, WillIndex, HasStaged, HasIndexed, Shows
<1>2. CASE Publish \/ Delete \/ DoTask
  BY <1>2, PublishSearch, DeleteSearch, DoTaskSearch
<1>3. ASSUME NEW w \in Workers, WorkerStep(w) \/ DeletionFails(w) \/ CrashWorker(w)
      PROVE  SearchInv'
  BY <1>3, TakeSearch, GuardSearch, ReadSearch, RowsSearch, StageSearch, WithdrawSearch,
     WithdrawnSearch, WorkerSyncSearch, WorkerIndexSearch, WorkerIndexedSearch, RecordSearch,
     RewriteSearch, ClearSearch, DeletionFailsSearch, CrashSearch DEF WorkerStep
<1>4. ASSUME NEW p \in Rebuilders, RebuilderStep(p) PROVE SearchInv'
  BY <1>4, StartSearch, PrepareSearch, PrepareFailsSearch, LockPageSearch, RebuildRowsSearch,
     CommitSearch, RebuilderSyncSearch, RebuilderIndexSearch, RebuilderIndexedSearch,
     RebuildEndsSearch DEF RebuilderStep, RebuildPage, RebuildAll
<1>5. ASSUME NEW p \in Procs, BuilderFails(p) PROVE SearchInv'
  BY <1>5, WorkerFailsSearch, RebuilderIndexSearch DEF Procs
<1>6. QED
  BY <1>1, <1>2, <1>3, <1>4, <1>5 DEF Next

(***************************************************************************)
(* Waiting for the remote index.                                           *)
(***************************************************************************)
LEMMA AnswersInit == Init => AnswersInv
<1>1. Init => \A p \in Procs : proc[p].at = "idle"
  BY DEF Init, Idle
<1>2. QED
  BY <1>1 DEF AnswersInv

(* One's own request is the last, and nobody asks for anything else.       *)
LEMMA SettlesAsked ==
    ASSUME IInv, NEW p \in Procs, NEW r \in 0 .. MaxRevisions, Ask(p, r)
    PROVE  \E i \in 1 .. Len(tasks') :
             tasks'[i].by = p /\ \A j \in i .. Len(tasks') : tasks'[j].doc = r
<1>1. Len(tasks') = Len(tasks) + 1 /\ tasks'[Len(tasks) + 1] = [doc |-> r, by |-> p]
  BY AskedLast
<1>2. /\ Len(tasks) + 1 \in 1 .. Len(tasks')
      /\ \A j \in (Len(tasks) + 1) .. Len(tasks') : j = Len(tasks) + 1
  BY <1>1, Queued
<1>3. /\ tasks'[Len(tasks) + 1].by = p
      /\ \A j \in (Len(tasks) + 1) .. Len(tasks') : tasks'[j].doc = r
  BY <1>1, <1>2
<1>4. QED
  BY <1>2, <1>3

LEMMA SettlesBehind ==
    ASSUME IInv, NEW q \in Procs, NEW p \in Procs, NEW r \in 0 .. MaxRevisions, Ask(p, r),
           UNCHANGED remote, Settling(q, r)
    PROVE  \/ remote' = r /\ \A i \in 1 .. Len(tasks') : tasks'[i].doc = r
           \/ \E i \in 1 .. Len(tasks') :
                tasks'[i].by = q /\ \A j \in i .. Len(tasks') : tasks'[j].doc = r
<1>1. CASE Shows(r)
  BY <1>1, ShowsAsked
<1>2. ASSUME NEW i \in 1 .. Len(tasks), tasks[i].by = q,
             \A j \in i .. Len(tasks) : tasks[j].doc = r
      PROVE  \E k \in 1 .. Len(tasks') :
               tasks'[k].by = q /\ \A j \in k .. Len(tasks') : tasks'[j].doc = r
  <2>1. /\ Len(tasks') = Len(tasks) + 1
        /\ \A k \in 1 .. Len(tasks) : tasks'[k] = tasks[k]
        /\ tasks'[Len(tasks) + 1] = [doc |-> r, by |-> p]
    BY AskedLast
  <2> Len(tasks) \in Nat /\ i \in Nat
    BY Queued
  <2>2. /\ i \in 1 .. Len(tasks')
        /\ \A j \in i .. Len(tasks') :
             (j \in i .. Len(tasks) /\ j \in 1 .. Len(tasks)) \/ j = Len(tasks) + 1
    BY <2>1
  <2>3. tasks'[i].by = q /\ \A j \in i .. Len(tasks') : tasks'[j].doc = r
    BY <1>2, <2>1, <2>2
  <2>4. QED
    BY <2>2, <2>3
<1>3. QED
  BY <1>1, <1>2 DEF Settling

LEMMA SettlesDone ==
    ASSUME IInv, NEW q \in Procs, NEW r, DoTask, Settling(q, r)
    PROVE  \/ remote' = r /\ \A i \in 1 .. Len(tasks') : tasks'[i].doc = r
           \/ \E i \in 1 .. Len(tasks') :
                tasks'[i].by = q /\ \A j \in i .. Len(tasks') : tasks'[j].doc = r
<1>1. /\ Len(tasks) # 0 /\ remote' = tasks[1].doc /\ Len(tasks') = Len(tasks) - 1
      /\ \A i \in 1 .. Len(tasks') : tasks'[i] = tasks[i + 1]
      /\ Len(tasks) \in Nat
  BY DoneFirst, Queued
<1>2. CASE Shows(r)
  BY <1>2, ShowsDone
<1>3. ASSUME NEW i \in 1 .. Len(tasks), tasks[i].by = q,
             \A j \in i .. Len(tasks) : tasks[j].doc = r
      PROVE  \/ Shows(r)
             \/ remote' = r /\ \A k \in 1 .. Len(tasks') : tasks'[k].doc = r
             \/ \E k \in 1 .. Len(tasks') :
                  tasks'[k].by = q /\ \A j \in k .. Len(tasks') : tasks'[j].doc = r
  <2>1. CASE i = 1
    <3>1. 1 \in i .. Len(tasks) /\ \A k \in 1 .. Len(tasks') : k + 1 \in i .. Len(tasks)
      BY <1>1, <2>1
    <3>2. QED
      BY <1>1, <1>3, <3>1
  <2>2. CASE i # 1
    <3> DEFINE k == i - 1
    <3>1. /\ k \in 1 .. Len(tasks') /\ k + 1 = i
          /\ \A j \in k .. Len(tasks') : j \in 1 .. Len(tasks') /\ j + 1 \in i .. Len(tasks)
      BY <1>1, <2>2
    <3> HIDE DEF k
    <3>2. tasks'[k].by = q /\ \A j \in k .. Len(tasks') : tasks'[j].doc = r
      BY <1>1, <1>3, <3>1
    <3>3. QED
      BY <3>1, <3>2
  <2>3. QED
    BY <2>1, <2>2
<1>4. QED
  BY <1>2, <1>3, ShowsDone DEF Settling

(* One process moves at a time, and comes to wait but by a request.        *)
OnlyMoves(p) == \A x \in Procs \ {p} : proc'[x] = proc[x]
Waits == {"wait", "withdrawing"}
Passes(p) == OnlyMoves(p) /\ proc'[p].at \notin Waits

LEMMA GotoPasses ==
    ASSUME IInv, NEW p \in Procs, NEW place, Goto(p, place), place \notin Waits
    PROVE  Passes(p)
BY Moved DEF Goto, ProcType, Passes, OnlyMoves

LEMMA ResetPasses == ASSUME IInv, NEW p \in Procs, Reset(p) PROVE Passes(p)
BY Moved DEF Reset, Idle, Passes, OnlyMoves, Waits

LEMMA NextBuilderPasses ==
    ASSUME IInv, NEW p \in Procs, proc' = [proc EXCEPT ![p] = NextBuilder(p)]
    PROVE  Passes(p)
BY Moved, NextBuilderFields DEF Passes, OnlyMoves, Waits

LEMMA RowsPasses ==
    ASSUME IInv, NEW p \in Procs,
           Wipe(p) \/ Wiped(p) \/ Sync(p) \/ Indexed(p) \/ BuilderFails(p)
    PROVE  Passes(p)
<1>1. CASE Wipe(p)
  BY <1>1, Moved DEF Wipe, ProcType, Passes, OnlyMoves, Waits
<1>2. CASE ~Wipe(p)
  BY <1>2, GotoPasses DEF Wiped, Sync, SyncDone, Indexed, BuilderFails, Waits
<1>3. QED
  BY <1>1, <1>2

LEMMA RequestMoves ==
    ASSUME IInv, NEW p \in Procs, Index(p) \/ Withdraw(p)
    PROVE  /\ OnlyMoves(p)
           /\ Index(p) => proc'[p].at = "wait"
           /\ Withdraw(p) => proc'[p].at = "withdrawing"
BY Moved DEF Index, Withdraw, Goto, ProcType, OnlyMoves

LEMMA WorkerMoves ==
    ASSUME IInv, NEW w \in Workers, WorkerStep(w) \/ DeletionFails(w) \/ CrashWorker(w)
    PROVE  Passes(w) \/ Index(w) \/ Withdraw(w)
<1>1. w \in Procs
  BY IsWorker
<1>2. ASSUME NEW e \in Event, Take(w, e) PROVE Passes(w)
  BY <1>1, <1>2, Moved DEF Take, Idle, Passes, OnlyMoves, Waits
<1>3. CASE GuardBefore(w) \/ GuardAfter(w) \/ RecordOk(w)
  <2>1. CASE proc' = [proc EXCEPT ![w] = NextBuilder(w)]
    BY <1>1, <2>1, NextBuilderPasses
  <2>2. CASE ~(proc' = [proc EXCEPT ![w] = NextBuilder(w)])
    <3>1. PICK place \in {"stage", "read", "record"} :
            proc' = [proc EXCEPT ![w] = [proc[w] EXCEPT !.at = place]]
      BY <1>1, <1>3, <2>2, Moved DEF GuardBefore, GuardAfter, RecordOk
    <3>2. QED
      BY <1>1, <3>1, Moved DEF ProcType, Passes, OnlyMoves, Waits
  <2>3. QED
    BY <2>1, <2>2
<1>4. CASE Read(w)
  <2>1. CASE CurrentOk
    <3>1. PICK place \in {"rewrite", "wipe", "write"} :
            proc' = [proc EXCEPT ![w] = [@ EXCEPT !.got = current, !.at = place]]
      BY <1>4, <2>1 DEF Read
    <3>2. QED
      BY <1>1, <3>1, Moved DEF ProcType, Passes, OnlyMoves, Waits
  <2>2. CASE ~CurrentOk
    BY <1>1, <1>4, <2>2, GotoPasses, ResetPasses DEF Read, HandlerFailed, Waits
  <2>3. QED
    BY <2>1, <2>2
<1>5. CASE Write(w) \/ Clear(w) \/ Unlist(w)
  BY <1>1, <1>5, GotoPasses DEF Write, Clear, Unlist, Waits
<1>6. CASE Stage(w)
  BY <1>1, <1>6, GotoPasses DEF Stage, Waits
<1>7. CASE Withdrawn(w) \/ Rewrite(w)
  BY <1>1, <1>7, GotoPasses, ResetPasses DEF Withdrawn, Rewrite, Waits
<1>8. CASE RecordError(w) \/ DeletionFails(w) \/ CrashWorker(w)
  BY <1>1, <1>8, ResetPasses DEF RecordError, DeletionFails, CrashWorker, HandlerFailed
<1>9. CASE Wipe(w) \/ Wiped(w) \/ Sync(w) \/ Indexed(w)
  BY <1>1, <1>9, RowsPasses
<1>10. QED
  BY <1>2, <1>3, <1>4, <1>5, <1>6, <1>7, <1>8, <1>9 DEF WorkerStep

LEMMA RebuilderMoves ==
    ASSUME IInv, NEW p \in Rebuilders, RebuilderStep(p)
    PROVE  Passes(p) \/ Index(p)
<1>1. p \in Procs
  BY IsRebuilder
<1>2. CASE LockPage(p)
  <2>1. CASE CurrentOk
    BY <1>1, <1>2, <2>1, Moved DEF LockPage, ProcType, Passes, OnlyMoves, Waits
  <2>2. CASE ~CurrentOk
    BY <1>1, <1>2, <2>2, ResetPasses DEF LockPage
  <2>3. QED
    BY <2>1, <2>2
<1>3. CASE RebuildPage(p) \/ RebuildAll(p) \/ PrepareFullRebuild(p)
  BY <1>1, <1>3, GotoPasses DEF RebuildPage, RebuildAll, Start, PrepareFullRebuild, Waits
<1>4. CASE CommitRebuild(p)
  BY <1>1, <1>4, GotoPasses, ResetPasses DEF CommitRebuild, Waits
<1>5. CASE PrepareFails(p) \/ RebuildSyncFails(p) \/ Refresh(p)
  BY <1>1, <1>5, ResetPasses DEF PrepareFails, RebuildSyncFails, Refresh
<1>6. CASE Wipe(p) \/ Wiped(p) \/ Sync(p) \/ Indexed(p)
  BY <1>1, <1>6, RowsPasses
<1>7. QED
  BY <1>2, <1>3, <1>4, <1>5, <1>6 DEF RebuilderStep

LEMMA OneMoves ==
    ASSUME IInv, [Next]_vars
    PROVE  \/ proc' = proc
           \/ \E p \in Procs : OnlyMoves(p) /\ (p \in Rebuilders => RebuilderStep(p) \/ BuilderFails(p))
<1>1. ASSUME NEW w \in Workers, WorkerStep(w) \/ DeletionFails(w) \/ CrashWorker(w)
      PROVE  w \in Procs /\ w \notin Rebuilders /\ OnlyMoves(w)
  BY <1>1, WorkerMoves, RequestMoves, IsWorker DEF Passes
<1>2. ASSUME NEW p \in Rebuilders, RebuilderStep(p) PROVE p \in Procs /\ OnlyMoves(p)
  BY <1>2, RebuilderMoves, RequestMoves, IsRebuilder DEF Passes
<1>3. ASSUME NEW p \in Procs, BuilderFails(p) PROVE OnlyMoves(p)
  BY <1>3, RowsPasses DEF Passes
<1>4. CASE Publish \/ Delete \/ DoTask \/ UNCHANGED vars
  BY <1>4 DEF Publish, Delete, DoTask, vars
<1>5. QED
  BY <1>1, <1>2, <1>3, <1>4 DEF Next

(* Nobody comes to wait but by a request of its own.                       *)
LEMMA WaitsOn ==
    ASSUME IInv, [Next]_vars, NEW q \in Procs, proc'[q].at \in Waits
    PROVE  \/ proc[q].at = proc'[q].at
           \/ Index(q) /\ proc'[q].at = "wait"
           \/ Withdraw(q) /\ q \in Workers /\ proc'[q].at = "withdrawing"
<1> DEFINE Ours == \/ proc[q].at = proc'[q].at
                   \/ Index(q) /\ proc'[q].at = "wait"
                   \/ Withdraw(q) /\ q \in Workers /\ proc'[q].at = "withdrawing"
<1>1. ASSUME NEW p \in Procs, Passes(p) PROVE Ours
  BY <1>1 DEF Passes, OnlyMoves
<1>2. ASSUME NEW p \in Procs, Index(p) \/ (Withdraw(p) /\ p \in Workers) PROVE Ours
  BY <1>2, RequestMoves DEF OnlyMoves
<1>3. (Publish \/ Delete \/ DoTask \/ UNCHANGED vars) => Ours
  BY DEF Publish, Delete, DoTask, vars
<1> HIDE DEF Ours
<1>4. ASSUME NEW w \in Workers, WorkerStep(w) \/ DeletionFails(w) \/ CrashWorker(w)
      PROVE  Ours
  BY <1>1, <1>2, <1>4, WorkerMoves, IsWorker
<1>5. ASSUME NEW p \in Rebuilders, RebuilderStep(p) PROVE Ours
  BY <1>1, <1>2, <1>5, RebuilderMoves, IsRebuilder
<1>6. ASSUME NEW p \in Procs, BuilderFails(p) PROVE Ours
  BY <1>1, <1>6, RowsPasses
<1>7. Ours
  BY <1>3, <1>4, <1>5, <1>6 DEF Next
<1>8. QED
  BY <1>7 DEF Ours

(* A rebuild of all pages that has emptied the index goes no further while *)
(* another process has the page locked, unless it fails.                   *)
LEMMA StaysEmptied ==
    ASSUME IInv, [Next]_vars, NEW q \in Procs, lock = q, Emptied(q)
    PROVE  Emptied(q)'
<1>1. rebuildFailed => rebuildFailed'
  <2>1. ASSUME NEW w \in Workers, WorkerStep(w) \/ DeletionFails(w) \/ CrashWorker(w)
        PROVE  rebuildFailed' = rebuildFailed
    <3>1. ASSUME NEW e \in Event, Take(w, e) PROVE rebuildFailed' = rebuildFailed
      BY <3>1 DEF Take
    <3>2. CASE GuardBefore(w) \/ Read(w) \/ Wipe(w) \/ Wiped(w) \/ Write(w) \/ Stage(w)
      BY <3>2 DEF GuardBefore, Read, Wipe, Wiped, Write, Stage, counters
    <3>3. CASE Withdraw(w) \/ Withdrawn(w) \/ Sync(w) \/ Index(w) \/ Indexed(w)
      BY <3>3 DEF Withdraw, Withdrawn, Sync, Index, Indexed, counters
    <3>4. CASE GuardAfter(w) \/ RecordOk(w) \/ RecordError(w) \/ Rewrite(w)
      BY <3>4 DEF GuardAfter, RecordOk, RecordError, Upsert, Rewrite, counters
    <3>5. CASE Clear(w) \/ Unlist(w) \/ DeletionFails(w) \/ CrashWorker(w)
      BY <3>5 DEF Clear, Unlist, DeletionFails, CrashWorker, counters
    <3>6. QED
      BY <2>1, <3>1, <3>2, <3>3, <3>4, <3>5 DEF WorkerStep
  <2>2. ASSUME NEW p \in Rebuilders, RebuilderStep(p) PROVE rebuildFailed => rebuildFailed'
    <3>1. CASE RebuildPage(p) \/ RebuildAll(p) \/ PrepareFullRebuild(p) \/ PrepareFails(p)
      BY <3>1 DEF RebuildPage, RebuildAll, Start, PrepareFullRebuild, PrepareFails, counters
    <3>2. CASE LockPage(p) \/ Wipe(p) \/ Wiped(p) \/ CommitRebuild(p)
      BY <3>2 DEF LockPage, Wipe, Wiped, CommitRebuild, RebuildFails, counters
    <3>3. CASE Sync(p) \/ Index(p) \/ Indexed(p) \/ RebuildSyncFails(p) \/ Refresh(p)
      BY <3>3 DEF Sync, Index, Indexed, RebuildSyncFails, RebuildFails, Refresh, counters
    <3>4. QED
      BY <2>2, <3>1, <3>2, <3>3 DEF RebuilderStep
  <2>3. ASSUME NEW p \in Procs, BuilderFails(p) PROVE rebuildFailed' = rebuildFailed
    BY <2>3 DEF BuilderFails
  <2>4. CASE Publish \/ Delete \/ DoTask \/ UNCHANGED vars
    BY <2>4 DEF Publish, Delete, DoTask, vars, counters
  <2>5. QED
    BY <2>1, <2>2, <2>3, <2>4 DEF Next
<1>2. CASE rebuildFailed
  BY <1>1, <1>2 DEF Emptied
<1>3. ASSUME NEW r \in Rebuilders \ {q}, proc[r].at \in {"emptying", "lockPage"}
      PROVE  rebuildFailed' \/ proc'[r].at \in {"emptying", "lockPage"}
  <2>1. r \in Procs /\ r \notin Workers /\ lock # NoOne /\ proc \in [Procs -> ProcType]
    BY <1>3, IsRebuilder, Moved, ProjectionAssumption DEF Procs
  <2>2. CASE proc'[r] = proc[r]
    BY <1>3, <2>2
  <2>3. CASE RebuilderStep(r)
    <3>1. PrepareFullRebuild(r) \/ PrepareFails(r)
      BY <1>3, <2>1, <2>3
         DEF RebuilderStep, RebuildPage, RebuildAll, Start, LockPage, Wipe, Wiped,
             CommitRebuild, Sync, Index, Indexed, RebuildSyncFails, Refresh, At
    <3>2. CASE PrepareFullRebuild(r)
      BY <1>3, <2>1, <3>2 DEF PrepareFullRebuild, Goto, At, ProcType
    <3>3. QED
      BY <3>1, <3>2 DEF PrepareFails
  <2>4. ~BuilderFails(r)
    BY <1>3, <2>1 DEF BuilderFails
  <2>5. proc' = proc \/ proc'[r] = proc[r] \/ RebuilderStep(r) \/ BuilderFails(r)
    BY <1>3, <2>1, OneMoves DEF OnlyMoves
  <2>6. QED
    BY <2>2, <2>3, <2>4, <2>5
<1>4. QED
  BY <1>2, <1>3 DEF Emptied

LEMMA NextAnswers == ASSUME IInv, SearchInv, AnswersInv, [Next]_vars PROVE AnswersInv'
<1> SUFFICES ASSUME NEW q \in Procs, proc'[q].at \in {"wait", "withdrawing"}
             PROVE  /\ proc'[q].at = "wait" => Settling(q, current)' \/ Emptied(q)'
                    /\ proc'[q].at = "withdrawing" => Settling(q, 0)'
  BY DEF AnswersInv
<1>1. CASE Index(q) /\ proc'[q].at = "wait"
  <2>1. Ask(q, current) /\ current' = current /\ current \in 0 .. MaxRevisions
    BY <1>1, IndexAsks, Kept DEF page
  <2>2. Settling(q, current)'
    BY <2>1, SettlesAsked DEF Settling
  <2>3. QED
    BY <1>1, <2>2
<1>2. CASE Withdraw(q) /\ q \in Workers /\ proc'[q].at = "withdrawing"
  <2>1. Settling(q, 0)'
    BY <1>2, EmptyAsks, SettlesAsked, Constants DEF Settling
  <2>2. QED
    BY <1>2, <2>1
<1>3. CASE proc[q].at = "wait" /\ proc'[q].at = "wait"
  <2>1. lock = q /\ q # NoOne /\ (Settling(q, current) \/ Emptied(q))
    BY <1>3, ProjectionAssumption DEF IInv, LockInv, Locking, AnswersInv, Procs
  <2>2. CASE Emptied(q)
    BY <1>3, <2>1, <2>2, StaysEmptied
  <2>3. CASE Settling(q, current)
    <3>1. CASE UNCHANGED <<remote, tasks, current>>
      BY <1>3, <2>3, <3>1 DEF Settling, Shows
    <3>2. ~Publish
      BY <2>1 DEF Publish
    <3>3. CASE DoTask
      <4>1. current' = current
        BY <3>3 DEF DoTask, page
      <4>2. \/ remote' = current /\ \A i \in 1 .. Len(tasks') : tasks'[i].doc = current
            \/ \E i \in 1 .. Len(tasks') :
                 tasks'[i].by = q /\ \A j \in i .. Len(tasks') : tasks'[j].doc = current
        BY <2>3, <3>3, SettlesDone
      <4>3. Settling(q, current)'
        BY <4>1, <4>2 DEF Settling, Shows
      <4>4. QED
        BY <1>3, <4>3
    <3>4. ASSUME NEW w \in Workers, Withdraw(w) PROVE FALSE
      BY <1>3, <2>1, <3>4, IsWorker DEF Withdraw, At, IInv, LockInv, Locking
    <3>5. ASSUME NEW p \in Rebuilders, At(p, "emptyRemote"), PrepareFullRebuild(p)
          PROVE  Emptied(q)'
      <4>1. p # q /\ proc'[p].at = "emptying"
        BY <1>3, <3>5, IsRebuilder, Moved DEF PrepareFullRebuild, At, Goto, ProcType
      <4>2. QED
        BY <4>1 DEF Emptied
    <3>6. ASSUME NEW p \in Procs, Index(p) PROVE FALSE
      BY <1>3, <2>1, <3>6 DEF Index, At, IInv, LockInv, Locking
    <3>7. QED
      BY <1>3, <3>1, <3>2, <3>3, <3>4, <3>5, <3>6, QueueSteps
  <2>4. QED
    BY <2>1, <2>2, <2>3
<1>4. CASE proc[q].at = "withdrawing" /\ proc'[q].at = "withdrawing"
  <2>1. Settling(q, 0) /\ lock = q /\ q # NoOne
    BY <1>4, ProjectionAssumption DEF AnswersInv, IInv, LockInv, Locking, Procs
  <2>2. UNCHANGED <<remote, tasks>> => Settling(q, 0)'
    BY <2>1 DEF Settling, Shows
  <2>3. ASSUME DoTask PROVE Settling(q, 0)'
    <3>1. \/ remote' = 0 /\ \A i \in 1 .. Len(tasks') : tasks'[i].doc = 0
          \/ \E i \in 1 .. Len(tasks') :
               tasks'[i].by = q /\ \A j \in i .. Len(tasks') : tasks'[j].doc = 0
      BY <2>1, <2>3, SettlesDone
    <3>2. QED
      BY <3>1 DEF Settling, Shows
  <2>4. ASSUME NEW p \in Procs,
               Withdraw(p) \/ (At(p, "emptyRemote") /\ PrepareFullRebuild(p))
        PROVE  Settling(q, 0)'
    <3>1. Ask(p, 0) /\ UNCHANGED remote /\ 0 \in 0 .. MaxRevisions
      BY <2>4, EmptyAsks, Constants
    <3>2. \/ remote' = 0 /\ \A i \in 1 .. Len(tasks') : tasks'[i].doc = 0
          \/ \E i \in 1 .. Len(tasks') :
               tasks'[i].by = q /\ \A j \in i .. Len(tasks') : tasks'[j].doc = 0
      BY <2>1, <3>1, SettlesBehind
    <3>3. QED
      BY <3>2 DEF Settling, Shows
  <2>5. ASSUME NEW p \in Procs, Index(p) PROVE FALSE
    BY <1>4, <2>1, <2>5 DEF Index, At, IInv, LockInv, Locking
  <2>6. Settling(q, 0)'
    BY <2>2, <2>3, <2>4, <2>5, QueueSteps, IsWorker, IsRebuilder
  <2>7. QED
    BY <1>4, <2>6
<1>5. QED
  BY <1>1, <1>2, <1>3, <1>4, WaitsOn DEF Waits

LEMMA SearchInvariance == Spec => [](SearchInv /\ AnswersInv)
<1>1. Init => SearchInv /\ AnswersInv
  BY SearchInit, AnswersInit
<1>2. ASSUME IInv, SearchInv, AnswersInv, [Next]_vars PROVE SearchInv' /\ AnswersInv'
  BY <1>2, NextSearch, NextAnswers
<1>3. QED
  BY <1>1, <1>2, Invariance, PTL DEF Spec

(* Once every event is handled and no rebuild has reported a failure, the  *)
(* search tables and the remote index show the current revision and no     *)
(* deleted page, however deliveries, retries, crashes and rebuilds         *)
(* interleaved (builder_search.go, page_deleted.go, rebuild.go).            *)
THEOREM SearchEndsRight == Spec => []SearchConverges
<1>1. IInv /\ SearchInv /\ QueueInv => SearchConverges
  <2> SUFFICES ASSUME IInv, SearchInv, QueueInv, Quiescent, dead = {}, ~rebuildFailed
               PROVE  LET shown == IF CurrentOk THEN current ELSE 0
                      IN  staged = shown /\ Shows(shown)
    BY DEF SearchConverges
  <2>1. open = {} /\ \A p \in Rebuilders : proc[p].at = "idle"
    BY IsRebuilder DEF Quiescent, At
  <2>2. ~StageOwed /\ ~IndexOwed
    BY <2>1 DEF StageOwed, IndexOwed, WillStage, WillIndex
  <2>3. CASE CurrentOk
    BY <2>1, <2>2, <2>3 DEF SearchInv, UpdatePending, StageOk, IndexOk
  <2>4. CASE deleted
    BY <2>1, <2>4 DEF SearchInv, RemovalPending, CurrentOk
  <2>5. CASE current = 0
    <3>1. staged \in Nat /\ remote \in Nat /\ staged <= 0 /\ remote <= 0
      BY <2>5, Kept, Constants DEF Others, SearchInv, NothingAhead, QueueInv
    <3>2. \A i \in 1 .. Len(tasks) : tasks[i].doc \in Nat /\ tasks[i].doc <= 0
      BY <2>5, Queued DEF QueueInv
    <3>3. QED
      BY <2>5, <3>1, <3>2 DEF CurrentOk, Shows
  <2>6. QED
    BY <2>3, <2>4, <2>5 DEF CurrentOk
<1>2. QED
  BY <1>1, Invariance, QueueInvariance, SearchInvariance, PTL

(***************************************************************************)
(* One worker at a time.  Whatever the tables still miss, or hold too      *)
(* much, is owed by an event that is open or dead.                         *)
(***************************************************************************)
Inside == {"read", "wipe", "wiping", "write", "stage", "withdraw", "withdrawing", "sync",
           "index", "wait", "check", "record", "error"}
Searching == {"stage", "sync", "index", "wait"}
Withdrawing == {"withdraw", "withdrawing"}
Last == {"again", "rewrite"}

UpdateOpen == CurrentOk => current \in open
RemovalOpen == deleted => Deleted \in open \cup dead

(* A worker with the current revision's event: what it has done so far.    *)
LinksDone(w) ==
    proc[w].b # "links" \/ proc[w].at \in {"check", "record"} => links = {current}
Recorded(b) == missed \/ state[b] = Ok(current)
StatesDone(w) ==
    /\ proc[w].b # "links" => Recorded("links")
    /\ proc[w].b = "search" \/ proc[w].at \in Last => Recorded("rendered")
    /\ proc[w].at \in Last => Recorded("search")

Progress(w) ==
    CurrentOk /\ proc[w].event = current =>
        /\ proc[w].at \in Writing => proc[w].got = current
        /\ LinksDone(w) /\ StatesDone(w)

(* Behind the guard, the event of a newer revision, or of the deletion,    *)
(* comes after the one at work.                                            *)
Owed(w) ==
    /\ proc[w].at \in Inside => UpdateOpen /\ RemovalOpen
    /\ At(w, "rewrite") =>
         /\ CurrentOk => \/ proc[w].got = current
                         \/ current \in open /\ current # proc[w].event
         /\ RemovalOpen

(* What a worker's place says of its builder and of the rows it has seen.  *)
Placed(w) ==
    /\ proc[w].at \in {"wipe", "wiping"} => proc[w].b = "links"
    /\ proc[w].at \in Searching => proc[w].b = "search"
    /\ proc[w].at \in Withdrawing /\ proc[w].event # Deleted => proc[w].b = "search"
    /\ At(w, "clear") \/ At(w, "unlist") => proc[w].event = Deleted
    /\ proc[w].at \in Last => proc[w].b = "rendered"
    /\ At(w, "wiping") \/ (At(w, "write") /\ proc[w].b = "links") => proc[w].seen = links

Cleared ==
    /\ links = {} /\ rendered = 0 /\ staged = 0
    /\ \A b \in Builders : state[b] = Unknown

Clearing(w) == proc[w].event = Deleted /\ proc[w].at \in Withdrawing \cup {"unlist"}

USE DEF Searching, Withdrawing, Clearing

AtWork(w) ==
    ~At(w, "idle") =>
        /\ proc[w].event \in open
        /\ Owed(w) /\ Placed(w) /\ Progress(w)
        /\ Clearing(w) => Cleared

UpdateSettled ==
    CurrentOk => \/ current \in open \cup dead
                 \/ /\ links = {current} /\ rendered = current
                    /\ \A b \in Builders : Recorded(b)
RemovalSettled == deleted => Deleted \in open \cup dead \/ (Cleared /\ Shows(0))

SerialInv ==
    /\ OneAtATime
    /\ \A w \in Workers : AtWork(w)
    /\ UpdateSettled /\ RemovalSettled

LEMMA SerialStart == Init => SerialInv
<1> SUFFICES ASSUME Init PROVE SerialInv
  OBVIOUS
<1>1. \A p \in Procs : proc[p].at = "idle"
  BY DEF Init, Idle
<1>2. OneAtATime /\ \A w \in Workers : AtWork(w)
  BY <1>1 DEF OneAtATime, AtWork, At, Procs
<1>3. UpdateSettled /\ RemovalSettled
  BY DEF Init, UpdateSettled, RemovalSettled, CurrentOk
<1>4. QED
  BY <1>2, <1>3 DEF SerialInv

(* While one worker steps the others are idle.                             *)
LEMMA SerialStep ==
    ASSUME SerialInv, OneAtATime', NEW w \in Workers,
           \A q \in Procs \ {w} : proc'[q] = proc[q],
           ~At(w, "idle") \/ ~At(w, "idle")',
           AtWork(w)', UpdateSettled', RemovalSettled'
    PROVE  SerialInv'
<1>1. ASSUME NEW x \in Workers, x # w PROVE AtWork(x)'
  <2>1. proc'[x] = proc[x]
    BY <1>1, IsWorker
  <2>2. At(x, "idle") \/ At(x, "idle")'
    BY <1>1 DEF SerialInv, OneAtATime
  <2>3. QED
    BY <2>1, <2>2 DEF AtWork, At
<1>2. QED
  BY <1>1 DEF SerialInv

(* A worker that goes to another place keeps everything else.              *)
LEMMA Went ==
    ASSUME IInv, NEW w \in Workers, NEW place, Goto(w, place)
    PROVE  /\ proc'[w].at = place /\ proc'[w].event = proc[w].event
           /\ proc'[w].b = proc[w].b /\ proc'[w].got = proc[w].got
           /\ proc'[w].seen = proc[w].seen
           /\ \A q \in Procs \ {w} : proc'[q] = proc[q]
<1>1. proc \in [Procs -> ProcType] /\ proc[w] \in ProcType /\ w \in Procs
  BY IsWorker, Moved
<1>2. QED
  BY <1>1 DEF Goto, ProcType

LEMMA Stopped ==
    ASSUME IInv, NEW w \in Workers, Reset(w)
    PROVE  At(w, "idle")' /\ AtWork(w)' /\ \A q \in Procs \ {w} : proc'[q] = proc[q]
<1>1. proc \in [Procs -> ProcType] /\ w \in Procs
  BY IsWorker, Moved
<1>2. proc'[w] = Idle /\ \A q \in Procs \ {w} : proc'[q] = proc[q]
  BY <1>1 DEF Reset
<1>3. proc'[w].at = "idle"
  BY <1>2, Constants
<1>4. QED
  BY <1>2, <1>3 DEF AtWork, At

(* From one builder to the next.                                           *)
LEMMA WentOn ==
    ASSUME IInv, NEW w \in Workers, proc' = [proc EXCEPT ![w] = NextBuilder(w)]
    PROVE  /\ proc'[w].event = proc[w].event
           /\ \/ /\ proc[w].b = "search" /\ proc'[w].b = "rendered" /\ proc'[w].at = "again"
              \/ /\ proc[w].b = "links" /\ proc'[w].b = "rendered" /\ proc'[w].at = "guard"
              \/ /\ proc[w].b = "rendered" /\ proc'[w].b = "search" /\ proc'[w].at = "guard"
           /\ \A q \in Procs \ {w} : proc'[q] = proc[q]
<1>1. proc \in [Procs -> ProcType] /\ proc[w] \in ProcType /\ w \in Procs
  BY IsWorker, Moved
<1>2. proc'[w] = NextBuilder(w) /\ \A q \in Procs \ {w} : proc'[q] = proc[q]
  BY <1>1
<1>3. proc[w].b \in {"links", "rendered", "search"}
  BY <1>1 DEF ProcType, Builders
<1>4. /\ NextBuilder(w).event = proc[w].event
      /\ \/ /\ proc[w].b = "search" /\ NextBuilder(w).b = "rendered" /\ NextBuilder(w).at = "again"
         \/ /\ proc[w].b = "links" /\ NextBuilder(w).b = "rendered" /\ NextBuilder(w).at = "guard"
         \/ /\ proc[w].b = "rendered" /\ NextBuilder(w).b = "search" /\ NextBuilder(w).at = "guard"
  BY <1>1, <1>3 DEF NextBuilder, After, ProcType
<1>5. QED
  BY <1>2, <1>4

(* Nothing settled changes with neither the page nor the rows, states and   *)
(* events.                                                                 *)
LEMMA StaysSettled ==
    ASSUME SerialInv, UNCHANGED <<page, rows, state, missed>>,
           open' \cup dead' = open \cup dead
    PROVE  UpdateSettled' /\ RemovalSettled'
BY DEF SerialInv, UpdateSettled, RemovalSettled, Recorded, Cleared, Shows, CurrentOk, page, rows

(* Behind the guard whatever is written is settled by an open event.        *)
LEMMA InsideSettles ==
    ASSUME UpdateOpen, RemovalOpen, UNCHANGED page, open' = open, dead' = dead
    PROVE  UpdateOpen' /\ RemovalOpen' /\ UpdateSettled' /\ RemovalSettled'
BY DEF UpdateOpen, RemovalOpen, UpdateSettled, RemovalSettled, CurrentOk, page

LEMMA InsideSettlesFailed ==
    ASSUME UpdateOpen, RemovalOpen, UNCHANGED page, open' \cup dead' = open \cup dead
    PROVE  UpdateSettled' /\ RemovalSettled'
BY DEF UpdateOpen, RemovalOpen, UpdateSettled, RemovalSettled, CurrentOk, page

LEMMA HandlerFailedKeeps ==
    ASSUME NEW w, HandlerFailed(w)
    PROVE  open' \cup dead' = open \cup dead
BY DEF HandlerFailed, queue

LEMMA Working ==
    ASSUME SerialInv, NEW w \in Workers, ~At(w, "idle")
    PROVE  /\ proc[w].event \in open /\ Owed(w) /\ Placed(w) /\ Progress(w)
           /\ Clearing(w) => Cleared
           /\ proc[w].at \in Inside => UpdateOpen /\ RemovalOpen
BY DEF SerialInv, AtWork, Owed

LEMMA TakeSerial ==
    ASSUME IInv, SerialInv, OneAtATime', NEW w \in Workers, NEW e \in Event, Take(w, e)
    PROVE  SerialInv'
<1>1. /\ proc'[w].at = (IF e = Deleted THEN "clear" ELSE "guard")
      /\ proc'[w].event = e /\ proc'[w].b = "links"
      /\ \A q \in Procs \ {w} : proc'[q] = proc[q]
  <2>1. proc \in [Procs -> ProcType] /\ w \in Procs
    BY IsWorker, Moved
  <2>2. QED
    BY <2>1 DEF Take, Idle, FirstBuilder
<1>2. /\ UNCHANGED <<page, rows, state, missed>> /\ open' = open /\ dead' = dead
      /\ e \in open
  BY DEF Take, queue
<1>3. AtWork(w)'
  BY <1>1, <1>2 DEF AtWork, At, Owed, Placed, Progress, LinksDone, StatesDone, Inside,
                    Last, Writing
<1>4. ~At(w, "idle")'
  BY <1>1 DEF At
<1>5. QED
  BY <1>1, <1>2, <1>3, <1>4, StaysSettled, SerialStep

(* A worker that moves on and touches nothing.                             *)
LEMMA GuardSerial ==
    ASSUME IInv, SerialInv, OneAtATime', NEW w \in Workers, GuardBefore(w) \/ GuardAfter(w)
    PROVE  SerialInv'
<1>1. /\ UNCHANGED <<page, rows, state, missed>> /\ open' = open /\ dead' = dead
      /\ ~At(w, "idle") /\ proc[w].at \in {"guard", "check"}
  BY DEF GuardBefore, GuardAfter, queue, counters, At
<1>2. UpdateSettled' /\ RemovalSettled'
  BY <1>1, StaysSettled
<1>3. CASE IsStale(proc[w].event)
  <2>1. proc' = [proc EXCEPT ![w] = NextBuilder(w)]
    BY <1>3, IsWorker, Moved DEF GuardBefore, GuardAfter
  <2>2. /\ proc'[w].event = proc[w].event /\ proc'[w].at \in {"again", "guard"}
        /\ proc'[w].at = "again" => proc'[w].b = "rendered"
        /\ \A q \in Procs \ {w} : proc'[q] = proc[q]
    BY <2>1, WentOn
  <2>3. ~(CurrentOk /\ proc[w].event = current)'
    BY <1>1, <1>3, <2>2 DEF IsStale, CurrentOk, page
  <2>4. proc'[w].event \in open'
    BY <1>1, <2>2, Working
  <2>5. AtWork(w)'
    BY <2>2, <2>3, <2>4 DEF AtWork, At, Owed, Placed, Progress, Inside, Last
  <2>6. QED
    BY <1>1, <1>2, <2>2, <2>5, SerialStep
<1>4. CASE ~IsStale(proc[w].event)
  <2>1. PICK place \in {"stage", "read", "record"} :
          /\ Goto(w, place)
          /\ place = "stage" => proc[w].b = "search"
          /\ place = "record" => proc[w].at = "check"
    <3>1. \/ proc[w].b = "search" /\ Goto(w, "stage")
          \/ Goto(w, "read")
          \/ proc[w].at = "check" /\ Goto(w, "record")
      BY <1>4, IsWorker, Moved DEF GuardBefore, GuardAfter, Goto, At
    <3>2. QED
      BY <3>1
  <2>2. UpdateOpen /\ RemovalOpen /\ proc[w].event \in open
    BY <1>1, <1>4, Working DEF IsStale, CurrentOk, UpdateOpen, RemovalOpen
  <2>3. AtWork(w)'
    <3>1. Owed(w)' /\ proc'[w].event \in open'
      BY <1>1, <2>1, <2>2, Went, InsideSettles DEF Owed, At
    <3>2. Placed(w)'
      BY <1>1, <2>1, Went DEF Placed, At, Last
    <3>3. Progress(w)'
      <4>1. Progress(w)
        BY <1>1, Working
      <4>2. QED
        BY <1>1, <2>1, <4>1, Went
           DEF Progress, LinksDone, StatesDone, Recorded, CurrentOk, Last, Writing, page, rows
    <3>4. QED
      BY <3>1, <3>2, <3>3, <2>1, Went DEF AtWork, At
  <2>4. QED
    BY <1>1, <1>2, <2>1, <2>3, Went, SerialStep
<1>5. QED
  BY <1>3, <1>4

LEMMA ReadSerial ==
    ASSUME IInv, SerialInv, OneAtATime', NEW w \in Workers, Read(w)
    PROVE  SerialInv'
<1>1. /\ UNCHANGED <<page, rows, state, missed>> /\ open' \cup dead' = open \cup dead
      /\ ~At(w, "idle") /\ proc[w].at \in {"read", "again"}
  BY HandlerFailedKeeps DEF Read, queue, counters, At
<1>2. UpdateSettled' /\ RemovalSettled'
  BY <1>1, StaysSettled
<1>3. CASE CurrentOk
  <2> DEFINE place == IF proc[w].at = "again" THEN "rewrite"
                      ELSE IF proc[w].b = "links" THEN "wipe" ELSE "write"
  <2>1. /\ proc' = [proc EXCEPT ![w] = [proc[w] EXCEPT !.got = current, !.at = place]]
        /\ proc \in [Procs -> ProcType] /\ w \in Procs /\ proc[w] \in ProcType
        /\ open' = open /\ dead' = dead
    <3>1. proc \in [Procs -> ProcType] /\ w \in Procs /\ proc[w] \in ProcType
      BY IsWorker, Moved
    <3>2. proc' = [proc EXCEPT ![w] = [proc[w] EXCEPT !.got = current, !.at = place]]
      BY <1>3, <3>1 DEF Read, At
    <3>3. QED
      BY <1>3, <3>1, <3>2 DEF Read, queue
  <2>2. /\ proc'[w].at = place /\ proc'[w].got = current /\ proc'[w].event = proc[w].event
        /\ proc'[w].b = proc[w].b
        /\ \A q \in Procs \ {w} : proc'[q] = proc[q]
    BY <2>1 DEF ProcType
  <2>3. /\ place \in {"rewrite", "wipe", "write"}
        /\ place = "rewrite" <=> proc[w].at = "again"
        /\ place = "wipe" => proc[w].b = "links"
        /\ place = "write" => proc[w].b # "links"
    BY DEF place
  <2> HIDE DEF place
  <2>4. Owed(w)' /\ proc'[w].event \in open'
    <3>1. proc[w].at = "read" => UpdateOpen' /\ RemovalOpen'
      BY <1>1, <2>1, Working, InsideSettles DEF Inside
    <3>2. ~deleted'
      BY <1>1, <1>3 DEF CurrentOk, page
    <3>3. proc'[w].event \in open'
      BY <1>1, <2>1, <2>2, Working
    <3>4. QED
      BY <1>1, <2>2, <2>3, <3>1, <3>2, <3>3 DEF Owed, At, Inside, RemovalOpen, page
  <2>5. Placed(w)'
    <3>1. Placed(w)
      BY <1>1, Working
    <3>2. QED
      BY <1>1, <2>2, <2>3, <3>1 DEF Placed, At, Last
  <2>6. Progress(w)'
    <3>1. Progress(w)
      BY <1>1, Working
    <3>2. QED
      BY <1>1, <2>2, <2>3, <3>1
         DEF Progress, LinksDone, StatesDone, Recorded, CurrentOk, Last, Writing, page, rows
  <2>7. AtWork(w)'
    BY <2>2, <2>3, <2>4, <2>5, <2>6 DEF AtWork, At
  <2>8. QED
    BY <1>1, <1>2, <2>2, <2>7, SerialStep
<1>4. CASE HandlerFailed(w)
  BY <1>1, <1>2, <1>4, Stopped, SerialStep DEF HandlerFailed
<1>5. CASE Goto(w, "error") /\ UNCHANGED queue /\ proc[w].at = "read"
  <2>1. open' = open /\ dead' = dead /\ UpdateOpen' /\ RemovalOpen'
    BY <1>1, <1>5, Working, InsideSettles DEF Inside, queue
  <2>2. AtWork(w)'
    <3>1. Owed(w)' /\ Placed(w)' /\ proc'[w].event \in open'
      BY <1>1, <1>5, <2>1, Went, Working DEF Owed, Placed, At, Inside, Last
    <3>2. Progress(w)'
      <4>1. Progress(w)
        BY <1>1, Working
      <4>2. QED
        BY <1>1, <1>5, <4>1, Went
           DEF Progress, LinksDone, StatesDone, Recorded, CurrentOk, Last, Writing, page, rows
    <3>3. QED
      BY <3>1, <3>2, <1>5, Went DEF AtWork, At
  <2>3. QED
    BY <1>1, <1>2, <1>5, <2>2, Went, SerialStep
<1>6. QED
  BY <1>1, <1>3, <1>4, <1>5 DEF Read, At

LEMMA WipeSerial ==
    ASSUME IInv, SerialInv, OneAtATime', NEW w \in Workers, Wipe(w) \/ Wiped(w)
    PROVE  SerialInv'
<1>1. /\ UNCHANGED <<page, rows, state, missed>> /\ open' = open /\ dead' = dead
      /\ ~At(w, "idle") /\ proc[w].at \in {"wipe", "wiping"}
  BY DEF Wipe, Wiped, At, queue, counters
<1>2. UpdateSettled' /\ RemovalSettled' /\ UpdateOpen' /\ RemovalOpen'
  BY <1>1, StaysSettled, Working, InsideSettles DEF Inside
<1>3. /\ proc'[w].event = proc[w].event /\ proc'[w].b = proc[w].b /\ proc'[w].got = proc[w].got
      /\ proc'[w].seen = links /\ proc'[w].at \in {"wiping", "write"}
      /\ \A q \in Procs \ {w} : proc'[q] = proc[q]
  <2>1. CASE Wipe(w)
    <3>1. proc \in [Procs -> ProcType] /\ w \in Procs /\ proc[w] \in ProcType
      BY IsWorker, Moved
    <3>2. QED
      BY <2>1, <3>1 DEF Wipe, ProcType
  <2>2. CASE Wiped(w)
    <3>1. Goto(w, "write") /\ proc[w].seen = links
      BY <1>1, <2>2, Working DEF Wiped, Placed, At
    <3>2. QED
      BY <3>1, Went
  <2>3. QED
    BY <2>1, <2>2
<1>4. AtWork(w)'
  <2>1. Owed(w)' /\ Placed(w)' /\ proc'[w].event \in open'
    BY <1>1, <1>2, <1>3, Working DEF Owed, Placed, At, Inside, Last, rows
  <2>2. Progress(w)'
    <3>1. Progress(w)
      BY <1>1, Working
    <3>2. QED
      BY <1>1, <1>3, <3>1
         DEF Progress, LinksDone, StatesDone, Recorded, CurrentOk, Last, Writing, page, rows
  <2>3. QED
    BY <2>1, <2>2, <1>3 DEF AtWork, At
<1>5. QED
  BY <1>1, <1>2, <1>3, <1>4, SerialStep

LEMMA WriteSerial ==
    ASSUME IInv, SerialInv, OneAtATime', NEW w \in Workers, Write(w)
    PROVE  SerialInv'
<1>1. /\ UNCHANGED <<page, state, missed>> /\ open' = open /\ dead' = dead
      /\ ~At(w, "idle") /\ proc[w].at = "write"
  BY DEF Write, At, queue, counters
<1>2. UpdateSettled' /\ RemovalSettled' /\ UpdateOpen' /\ RemovalOpen'
  BY <1>1, Working, InsideSettles DEF Inside
<1>3. PICK place \in {"check", "error"} :
        /\ Goto(w, place)
        /\ place = "check" =>
             \/ proc[w].b = "links" /\ links' = LinksAfter(w)
             \/ proc[w].b = "rendered" /\ links' = links
        /\ place = "error" => links' = links
  BY DEF Write
<1>4. AtWork(w)'
  <2>1. Owed(w)' /\ Placed(w)' /\ proc'[w].event \in open'
    BY <1>1, <1>2, <1>3, Went, Working DEF Owed, Placed, At, Inside, Last
  <2>2. Progress(w)'
    <3>1. Progress(w) /\ Placed(w)
      BY <1>1, Working
    <3>2. proc[w].b = "links" => LinksAfter(w) = {proc[w].got}
      BY <1>1, <3>1 DEF Placed, At, LinksAfter
    <3>3. QED
      BY <1>1, <1>3, <3>1, <3>2, Went
         DEF Progress, LinksDone, StatesDone, Recorded, CurrentOk, Last, Writing, page
  <2>3. QED
    BY <2>1, <2>2, <1>3, Went DEF AtWork, At
<1>5. QED
  BY <1>1, <1>2, <1>3, <1>4, Went, SerialStep

(* The search builder and a failing one leave links and states alone.       *)
LEMMA SearchStepSerial ==
    ASSUME IInv, SearchInv, SerialInv, OneAtATime', NEW w \in Workers,
           \/ Stage(w) \/ Sync(w) \/ Index(w) \/ Indexed(w) \/ BuilderFails(w)
           \/ Withdrawn(w) /\ proc[w].event # Deleted
    PROVE  SerialInv'
<1>1. /\ UNCHANGED <<page, state, missed, links>> /\ open' = open /\ dead' = dead
      /\ ~At(w, "idle") /\ proc[w].at \in Inside
  BY DEF Stage, Sync, Index, Indexed, Withdrawn, BuilderFails, At, queue, counters, rows, Inside
<1>2. UpdateSettled' /\ RemovalSettled' /\ UpdateOpen' /\ RemovalOpen'
  BY <1>1, Working, InsideSettles
<1>3. PICK place \in {"withdraw", "sync", "index", "wait", "check", "error"} :
        /\ Goto(w, place)
        /\ \/ place = "error" \/ proc[w].at \in Searching
           \/ proc[w].at = "withdrawing" /\ proc[w].event # Deleted
        /\ place = "withdraw" => proc[w].at = "stage"
  BY DEF Stage, Sync, Index, Indexed, Withdrawn, BuilderFails, SyncDone, At
<1>4. /\ place # "error" => proc[w].b = "search"
      /\ place = "withdraw" => proc[w].event # Deleted
  BY <1>1, <1>3, Working DEF Placed, SearchInv, DeletionsApart
<1>5. AtWork(w)'
  <2>1. Owed(w)' /\ Placed(w)' /\ proc'[w].event \in open'
    BY <1>1, <1>2, <1>3, <1>4, Went, Working DEF Owed, Placed, At, Inside, Last
  <2>2. Progress(w)'
    <3>1. Progress(w)
      BY <1>1, Working
    <3>2. QED
      BY <1>1, <1>3, <1>4, <3>1, Went
         DEF Progress, LinksDone, StatesDone, Recorded, CurrentOk, Last, Writing, page
  <2>3. QED
    BY <2>1, <2>2, <1>3, <1>4, Went DEF AtWork, At
<1>6. QED
  BY <1>1, <1>2, <1>3, <1>5, Went, SerialStep

LEMMA WithdrawSerial ==
    ASSUME IInv, SerialInv, OneAtATime', NEW w \in Workers, Withdraw(w)
    PROVE  SerialInv'
<1>1. /\ UNCHANGED <<page, state, missed, links, rendered, staged>>
      /\ open' = open /\ dead' = dead /\ Goto(w, "withdrawing")
      /\ ~At(w, "idle") /\ proc[w].at = "withdraw" /\ proc[w].at \in Inside
  BY DEF Withdraw, At, queue, counters, Inside
<1>2. UpdateSettled' /\ RemovalSettled' /\ UpdateOpen' /\ RemovalOpen'
  BY <1>1, Working, InsideSettles
<1>3. AtWork(w)'
  <2>1. Owed(w)' /\ Placed(w)' /\ proc'[w].event \in open'
    BY <1>1, <1>2, Went, Working DEF Owed, Placed, At, Inside, Last
  <2>2. Progress(w)'
    <3>1. Progress(w)
      BY <1>1, Working
    <3>2. QED
      BY <1>1, <3>1, Went
         DEF Progress, LinksDone, StatesDone, Recorded, CurrentOk, Last, Writing, page
  <2>3. Clearing(w)' => Cleared'
    BY <1>1, Went, Working DEF Cleared
  <2>4. QED
    BY <2>1, <2>2, <2>3 DEF AtWork
<1>4. QED
  BY <1>1, <1>2, <1>3, Went, SerialStep

(* A recorded builder's state is the event's, and stays recorded.          *)
LEMMA UpsertKeeps ==
    ASSUME IInv, NEW b \in Builders, NEW e, Upsert(b, Ok(e))
    PROVE  /\ missed' \/ state'[b] = Ok(e)
           /\ \A c \in Builders \ {b} : missed' \/ state'[c] = state[c]
           /\ missed => missed'
<1>1. state \in StateType
  BY Kept DEF Others
<1>2. QED
  BY <1>1 DEF Upsert, counters, StateType

LEMMA RecordOkSerial ==
    ASSUME IInv, SerialInv, OneAtATime', NEW w \in Workers, RecordOk(w)
    PROVE  SerialInv'
<1>1. /\ UNCHANGED <<page, rows>> /\ open' = open /\ dead' = dead
      /\ ~At(w, "idle") /\ proc[w].at = "record"
      /\ proc' = [proc EXCEPT ![w] = NextBuilder(w)]
      /\ Upsert(proc[w].b, Ok(proc[w].event))
  BY DEF RecordOk, At, queue
<1>2. UpdateSettled' /\ RemovalSettled'
  BY <1>1, Working, InsideSettles DEF Inside
<1>3. proc[w].b \in Builders
  BY IsWorker, Moved DEF ProcType
<1>4. /\ missed' \/ state'[proc[w].b] = Ok(proc[w].event)
      /\ \A c \in Builders \ {proc[w].b} : missed' \/ state'[c] = state[c]
      /\ missed => missed'
  BY <1>1, <1>3, UpsertKeeps
<1>5. /\ proc'[w].event = proc[w].event
      /\ \/ proc[w].b = "search" /\ proc'[w].b = "rendered" /\ proc'[w].at = "again"
         \/ proc[w].b = "links" /\ proc'[w].b = "rendered" /\ proc'[w].at = "guard"
         \/ proc[w].b = "rendered" /\ proc'[w].b = "search" /\ proc'[w].at = "guard"
      /\ \A q \in Procs \ {w} : proc'[q] = proc[q]
  BY <1>1, WentOn
<1>6. proc[w].event \in open /\ Progress(w)
  BY <1>1, Working
<1>7. AtWork(w)'
  <2>1. Owed(w)' /\ Placed(w)' /\ proc'[w].event \in open'
    BY <1>1, <1>5, <1>6 DEF Owed, Placed, At, Inside, Last
  <2>2. Progress(w)'
    <3> SUFFICES ASSUME CurrentOk', proc'[w].event = current'
                 PROVE  /\ proc'[w].at \notin Writing
                        /\ LinksDone(w)' /\ StatesDone(w)'
      BY DEF Progress
    <3>1. /\ CurrentOk /\ current' = current /\ links' = links /\ proc[w].event = current
          /\ LinksDone(w) /\ StatesDone(w)
      BY <1>1, <1>5, <1>6 DEF Progress, CurrentOk, page, rows
    <3>2. links = {current}
      BY <1>1, <3>1 DEF LinksDone
    <3>3. \A c \in Builders : c = proc[w].b \/ Recorded(c) => Recorded(c)'
      BY <1>4, <3>1 DEF Recorded
    <3>4. {"links", "rendered", "search"} = Builders
      BY DEF Builders
    <3>5. StatesDone(w)'
      BY <1>1, <1>5, <3>1, <3>3, <3>4 DEF StatesDone, Last
    <3>6. LinksDone(w)' /\ proc'[w].at \notin Writing
      BY <1>5, <3>1, <3>2 DEF LinksDone, Writing
    <3>7. QED
      BY <3>5, <3>6
  <2>3. QED
    BY <1>5, <2>1, <2>2 DEF AtWork, At
<1>8. QED
  BY <1>1, <1>2, <1>5, <1>7, SerialStep

LEMMA StopsSerial ==
    ASSUME IInv, SerialInv, OneAtATime', NEW w \in Workers,
           RecordError(w) \/ DeletionFails(w) \/ CrashWorker(w)
    PROVE  SerialInv'
<1>1. /\ UNCHANGED page /\ Reset(w) /\ ~At(w, "idle") /\ open' \cup dead' = open \cup dead
  BY HandlerFailedKeeps DEF RecordError, DeletionFails, CrashWorker, HandlerFailed, At, queue
<1>2. UpdateSettled' /\ RemovalSettled'
  <2>1. CASE RecordError(w)
    BY <1>1, <2>1, Working, InsideSettlesFailed DEF Inside, RecordError, At
  <2>2. CASE DeletionFails(w) \/ CrashWorker(w)
    BY <1>1, <2>2, StaysSettled DEF DeletionFails, CrashWorker
  <2>3. QED
    BY <2>1, <2>2
<1>3. QED
  BY <1>1, <1>2, Stopped, SerialStep

LEMMA RewriteSerial ==
    ASSUME IInv, SearchInv, SerialInv, OneAtATime', NEW w \in Workers, Rewrite(w)
    PROVE  SerialInv'
<1>1. /\ UNCHANGED <<page, state, missed, links>> /\ Reset(w) /\ ~At(w, "idle")
      /\ open' = open \ {proc[w].event} /\ dead' = dead /\ At(w, "rewrite")
      /\ rendered' = proc[w].got
  BY DEF Rewrite, At, Close, counters
<1>2. proc[w].event # Deleted
  BY <1>1 DEF SearchInv, DeletionsApart, At
<1>3. Owed(w) /\ Progress(w) /\ Placed(w)
  BY <1>1, Working
<1>4. RemovalSettled'
  BY <1>1, <1>2, <1>3 DEF Owed, RemovalOpen, RemovalSettled, page
<1>5. UpdateSettled'
  <2> SUFFICES ASSUME CurrentOk', current' \notin open' \cup dead'
               PROVE  /\ links' = {current'} /\ rendered' = current'
                      /\ \A b \in Builders : Recorded(b)'
    BY DEF UpdateSettled
  <2>1. CurrentOk /\ current' = current
    BY <1>1 DEF CurrentOk, page
  <2>2. rendered' = current
    BY <1>1, <1>3, <2>1 DEF Owed
  <2>3. CASE proc[w].event = current
    BY <1>1, <1>3, <2>1, <2>2, <2>3
       DEF Progress, LinksDone, StatesDone, Recorded, Builders, Placed, Last, At
  <2>4. CASE proc[w].event # current
    BY <1>1, <2>1, <2>2, <2>4 DEF SerialInv, UpdateSettled, Recorded
  <2>5. QED
    BY <2>3, <2>4
<1>6. QED
  BY <1>1, <1>4, <1>5, Stopped, SerialStep

LEMMA ClearSerial ==
    ASSUME IInv, SearchInv, SerialInv, OneAtATime', NEW w \in Workers, Clear(w)
    PROVE  SerialInv'
<1>1. /\ UNCHANGED <<page, missed>> /\ Goto(w, "unlist") /\ ~At(w, "idle")
      /\ open' = open /\ dead' = dead /\ proc[w].event \in open
      /\ links' = {} /\ rendered' = 0 /\ staged' = 0
      /\ state' = [b \in Builders |-> Unknown]
  BY Working DEF Clear, At, queue, counters
<1>2. deleted /\ ~CurrentOk'
  BY <1>1 DEF SearchInv, DeletionsApart, Clear, At, CurrentOk, page
<1>3. Cleared'
  BY <1>1 DEF Cleared
<1>4. AtWork(w)'
  <2>1. proc[w].event = Deleted
    BY <1>1, Working DEF Placed, Clear
  <2>2. QED
    BY <1>1, <1>2, <1>3, <2>1, Went DEF AtWork, At, Owed, Placed, Progress, Inside, Last
<1>5. UpdateSettled'
  BY <1>2 DEF UpdateSettled
<1>6. RemovalSettled'
  <2>1. Deleted \in open \cup dead \/ Shows(0)
    BY <1>2 DEF SerialInv, RemovalSettled
  <2>2. QED
    BY <1>1, <1>3, <2>1 DEF RemovalSettled, Clear, Shows
<1>7. QED
  BY <1>1, <1>4, <1>5, <1>6, Went, SerialStep

LEMMA UnlistSerial ==
    ASSUME IInv, SearchInv, SerialInv, OneAtATime', NEW w \in Workers, Unlist(w)
    PROVE  SerialInv'
<1>1. /\ UNCHANGED <<page, rows, state, missed>> /\ open' = open /\ dead' = dead
      /\ Goto(w, "withdraw") /\ proc[w].at = "unlist" /\ ~At(w, "idle")
  BY DEF Unlist, At, queue, counters
<1>2. /\ proc[w].event = Deleted /\ proc[w].event \in open /\ Cleared
      /\ deleted /\ ~CurrentOk
  BY <1>1, Working DEF Placed, At, SearchInv, DeletionsApart, CurrentOk
<1>3. Cleared' /\ ~CurrentOk' /\ UpdateOpen' /\ RemovalOpen'
  BY <1>1, <1>2 DEF Cleared, CurrentOk, UpdateOpen, RemovalOpen, page, rows
<1>4. AtWork(w)'
  BY <1>1, <1>2, <1>3, Went DEF AtWork, At, Owed, Placed, Progress, Inside, Last
<1>5. QED
  BY <1>1, <1>4, Went, StaysSettled, SerialStep

(* The deletion's event is done when the remote index has answered.        *)
LEMMA UnlistedSerial ==
    ASSUME IInv, SearchInv, AnswersInv, SerialInv, OneAtATime', NEW w \in Workers,
           Withdrawn(w), proc[w].event = Deleted
    PROVE  SerialInv'
<1>1. /\ UNCHANGED <<page, remote, tasks, state, links, rendered>> /\ Reset(w)
      /\ proc[w].at = "withdrawing" /\ ~At(w, "idle") /\ staged' = 0 /\ Answered(w)
  BY DEF Withdrawn, At
<1>2. Shows(0)
  BY <1>1, IsWorker, Settled DEF AnswersInv
<1>3. Cleared' /\ Shows(0)' /\ ~CurrentOk'
  BY <1>1, <1>2, Working DEF Cleared, Shows, SearchInv, DeletionsApart, CurrentOk, page
<1>4. UpdateSettled' /\ RemovalSettled'
  BY <1>3 DEF UpdateSettled, RemovalSettled
<1>5. QED
  BY <1>1, <1>4, Stopped, SerialStep

(* What the remote index does by itself changes nothing of this.           *)
LEMMA DoTaskSerial ==
    ASSUME IInv, SerialInv, OneAtATime', DoTask
    PROVE  SerialInv'
<1>1. UNCHANGED <<page, links, rendered, staged, state, open, dead, proc, missed>>
  BY DEF DoTask, queue, counters
<1>2. Shows(0) => Shows(0)'
  BY ShowsDone DEF Shows
<1>3. UpdateSettled' /\ RemovalSettled'
  BY <1>1, <1>2
     DEF SerialInv, UpdateSettled, RemovalSettled, Recorded, Cleared, CurrentOk, page
<1>4. \A w \in Workers : AtWork(w)'
  BY <1>1 DEF SerialInv, AtWork, At, Owed, Placed, Progress, LinksDone, StatesDone, Recorded,
              Cleared, UpdateOpen, RemovalOpen, CurrentOk, page
<1>5. QED
  BY <1>3, <1>4 DEF SerialInv

(* The page's own steps put an event in the queue for what they change.    *)
LEMMA PageSerial ==
    ASSUME IInv, SearchInv, SerialInv, OneAtATime', Publish \/ Delete
    PROVE  SerialInv'
<1>1. /\ UNCHANGED <<rows, state, dead, proc, missed>> /\ open \subseteq open'
      /\ ~deleted
  BY DEF Publish, Delete, counters
<1>2. UpdateOpen' /\ RemovalOpen'
  BY DEF Publish, Delete, UpdateOpen, RemovalOpen, CurrentOk
<1>3. \A w \in Workers : ~(CurrentOk /\ proc[w].event = current)'
  <2>1. CASE Publish
    <3>1. \A w \in Workers : proc[w].event \in Nat /\ proc[w].event <= current
      BY Moved, IsWorker, Constants DEF SearchInv, NothingAhead, ProcType
    <3>2. current \in Nat /\ current' = current + 1
      BY <2>1, Kept, Constants DEF Publish
    <3>3. QED
      BY <1>1, <3>1, <3>2
  <2>2. CASE Delete
    BY <2>2 DEF Delete, CurrentOk
  <2>3. QED
    BY <2>1, <2>2
<1>4. ASSUME NEW w \in Workers PROVE AtWork(w)'
  <2> SUFFICES ASSUME ~At(w, "idle") PROVE AtWork(w)'
    BY <1>1 DEF AtWork, At
  <2>1. proc[w].event \in open' /\ Placed(w)' /\ Progress(w)'
    BY <1>1, <1>3, Working DEF Placed, Progress, At, rows
  <2>2. Owed(w)'
    BY <1>1, <1>2, <1>3 DEF Owed, UpdateOpen, At, CurrentOk
  <2>3. Clearing(w) => Cleared'
    BY <1>1, Working DEF Cleared, rows
  <2>4. QED
    BY <1>1, <2>1, <2>2, <2>3 DEF AtWork, At
<1>5. UpdateSettled' /\ RemovalSettled'
  BY <1>2 DEF UpdateOpen, RemovalOpen, UpdateSettled, RemovalSettled
<1>6. QED
  BY <1>4, <1>5 DEF SerialInv

LEMMA StepSerial ==
    ASSUME IInv, SearchInv, AnswersInv, SerialInv, [Next /\ OneAtATime']_vars
    PROVE  SerialInv'
<1>1. CASE UNCHANGED vars
  BY <1>1 DEF vars, page, rows, queue, counters, SerialInv, OneAtATime, AtWork, At, Owed,
              Placed, Progress, LinksDone, StatesDone, Recorded, Cleared, UpdateOpen,
              RemovalOpen, UpdateSettled, RemovalSettled, Shows, CurrentOk
<1>2. ASSUME OneAtATime', Publish \/ Delete \/ DoTask PROVE SerialInv'
  BY <1>2, PageSerial, DoTaskSerial
<1>3. ASSUME OneAtATime', NEW w \in Workers,
             WorkerStep(w) \/ DeletionFails(w) \/ CrashWorker(w) \/ BuilderFails(w)
      PROVE  SerialInv'
  BY <1>3, TakeSerial, GuardSerial, ReadSerial, WipeSerial, WriteSerial, SearchStepSerial,
     RecordOkSerial, StopsSerial, RewriteSerial, ClearSerial, UnlistSerial, WithdrawSerial,
     UnlistedSerial DEF WorkerStep
<1>4. ASSUME OneAtATime', NEW p \in Rebuilders, RebuilderStep(p) \/ BuilderFails(p)
      PROVE  FALSE
  <2>1. At(p, "idle") /\ At(p, "idle")' /\ p \in Procs /\ p \notin Workers
    BY <1>4, IsRebuilder DEF SerialInv, OneAtATime
  <2>2. proc \in [Procs -> ProcType]
    BY <2>1, Moved
  <2>3. \A place : Goto(p, place) => place = "idle"
    BY <2>1, <2>2 DEF Goto, At
  <2>4. QED
    BY <1>4, <2>1, <2>3
       DEF RebuilderStep, RebuildPage, RebuildAll, Start, PrepareFullRebuild,
           PrepareFails, LockPage, Wipe, Wiped, CommitRebuild, Sync, Index, Indexed,
           RebuildSyncFails, Refresh, BuilderFails, At
<1>5. QED
  BY <1>1, <1>2, <1>3, <1>4 DEF Next, Procs

LEMMA SerialInvariance == SerialSpec => [](IInv /\ SearchInv /\ AnswersInv /\ SerialInv)
<1>1. Init => IInv /\ SearchInv /\ AnswersInv /\ SerialInv
  BY InitInv, SearchInit, AnswersInit, SerialStart
<1>2. ASSUME IInv, SearchInv, AnswersInv, SerialInv, [Next /\ OneAtATime']_vars
      PROVE  IInv' /\ SearchInv' /\ AnswersInv' /\ SerialInv'
  BY <1>2, NextInv, NextSearch, NextAnswers, StepSerial
<1>3. QED
  BY <1>1, <1>2, PTL DEF SerialSpec

(* The same of the serial behaviours of the scoped specification.          *)
LEMMA ScopedInvariance == ScopedSpec => []((scope = "serial") => IInv /\ SerialInv)
<1> DEFINE J == IInv /\ SearchInv /\ AnswersInv /\ (scope = "serial" => SerialInv)
<1>1. ScopedInit => J
  BY InitInv, SearchInit, AnswersInit, SerialStart DEF ScopedInit
<1>2. ASSUME J, [Next /\ UNCHANGED scope /\ Within']_<<vars, scope>> PROVE J'
  <2>1. IInv' /\ SearchInv' /\ AnswersInv' /\ scope' = scope
    BY <1>2, NextInv, NextSearch, NextAnswers
  <2>2. scope = "serial" => [Next /\ OneAtATime']_vars
    BY <1>2 DEF Within
  <2>3. QED
    BY <1>2, <2>1, <2>2, StepSerial
<1>3. J => (scope = "serial" => IInv /\ SerialInv)
  OBVIOUS
<1> HIDE DEF J
<1>4. QED
  BY <1>1, <1>2, <1>3, PTL DEF ScopedSpec

(* With one worker at a time and no operator beside it, once every event   *)
(* is handled each projection holds the current revision and its state     *)
(* says so, whatever failed, crashed and was retried on the way            *)
(* (builder.go, HandleRebuildEvent).                                        *)
THEOREM OneAtATimeConverges ==
    /\ SerialSpec => []ProjectionsConverge
    /\ ScopedSpec => []SerialProjectionsConverge
<1>1. ASSUME IInv, SerialInv PROVE ProjectionsConverge
  <2> SUFFICES ASSUME Quiescent, dead = {}, CurrentOk
               PROVE  /\ links = {current} /\ rendered = current
                      /\ ~missed => state = [b \in Builders |-> Ok(current)]
    BY DEF ProjectionsConverge
  <2>1. /\ links = {current} /\ rendered = current
        /\ \A b \in Builders : Recorded(b)
    BY <1>1 DEF SerialInv, UpdateSettled, Quiescent
  <2>2. state \in StateType
    BY <1>1, Kept DEF Others
  <2>3. QED
    BY <2>1, <2>2 DEF Recorded, StateType
<1>2. (scope = "serial" => IInv /\ SerialInv) => SerialProjectionsConverge
  BY <1>1 DEF SerialProjectionsConverge
<1>3. QED
  BY <1>1, <1>2, SerialInvariance, ScopedInvariance, PTL

(* Likewise nothing is left of a deleted page once its deletion is         *)
(* handled: events that arrive late, or again, bring no rows back          *)
(* (page_deleted.go).                                                       *)
THEOREM OneAtATimeLeavesNothing ==
    /\ SerialSpec => []DeletedLeavesNothing
    /\ ScopedSpec => []SerialDeletedLeavesNothing
<1>1. ASSUME IInv, SerialInv PROVE DeletedLeavesNothing
  <2> SUFFICES ASSUME Quiescent, deleted, Deleted \notin dead
               PROVE  /\ links = {} /\ rendered = 0 /\ staged = 0 /\ Shows(0)
                      /\ state = [b \in Builders |-> Unknown]
    BY DEF DeletedLeavesNothing
  <2>1. Cleared /\ Shows(0)
    BY <1>1 DEF SerialInv, RemovalSettled, Quiescent
  <2>2. state \in StateType
    BY <1>1, Kept DEF Others
  <2>3. QED
    BY <2>1, <2>2 DEF Cleared, StateType
<1>2. (scope = "serial" => IInv /\ SerialInv) => SerialDeletedLeavesNothing
  BY <1>1 DEF SerialDeletedLeavesNothing
<1>3. QED
  BY <1>1, <1>2, SerialInvariance, ScopedInvariance, PTL
=============================================================================
