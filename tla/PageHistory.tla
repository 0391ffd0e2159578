----------------------------- MODULE PageHistory -----------------------------
(***************************************************************************)
(* What pages promise their readers and authors (backend/internal/page,    *)
(* publish.go, history.go and snapshot_storage.go): one line of history    *)
(* per page that only grows and can be read for good, a page that shows    *)
(* its last entry, publications made on the entry their author saw, and    *)
(* rollbacks that say what their target says.  Transactions, row locks,    *)
(* shared snapshots, cold storage and crashes do not show.                 *)
(***************************************************************************)
EXTENDS Integers

CONSTANTS Pages, Contents

VARIABLES
    length, history,  \* entries 1..length: [page, parent, kind, from, reads]
    head,             \* the last entry of each page, 0 for none
    shown,            \* what a page shows: the set of a content, or {}
    gone              \* pages deleted

vars == <<length, history, head, shown, gone>>

Entries == 1 .. length

Init ==
    /\ length = 0 /\ history = [i \in Entries |-> 0]
    /\ head = [p \in Pages |-> 0]
    /\ shown = [p \in Pages |-> {}]
    /\ gone = {}

Add(entry) ==
    /\ entry.page \notin gone
    /\ length' = length + 1
    /\ history' = [i \in 1 .. length + 1 |-> IF i = length + 1 THEN entry ELSE history[i]]
    /\ head' = [head EXCEPT ![entry.page] = length + 1]
    /\ shown' = [shown EXCEPT ![entry.page] = entry.reads]
    /\ UNCHANGED gone

(* Whatever is head when it is added is what the author saw.               *)
Publish(p, c) ==
    Add([page |-> p, parent |-> head[p], kind |-> "publish", from |-> head[p],
         reads |-> {c}])

Restore(i) ==
    LET p == history[i].page
    IN  Add([page |-> p, parent |-> head[p], kind |-> "rollback", from |-> i,
             reads |-> history[i].reads])

(* Only a page without more than its first entry is taken back.            *)
Remove(p) ==
    /\ \A i, j \in Entries : history[i].page = p /\ history[j].page = p => i = j
    /\ gone' = gone \cup {p}
    /\ UNCHANGED <<length, history, head, shown>>

Next ==
    \/ \E p \in Pages, c \in Contents : Publish(p, c)
    \/ \E i \in Entries : Restore(i)
    \/ \E p \in Pages : Remove(p)

Spec == Init /\ [][Next]_vars
=============================================================================
