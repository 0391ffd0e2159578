---------------------------- MODULE Collaboration ----------------------------
(***************************************************************************)
(* One page's shared working document: the browser's client                *)
(* (apps/web/lib/collaboration/client.ts, offline-store.ts), the connection*)
(* handler (backend/cmd/api/collaboration.go), the hub and the durable     *)
(* update log (backend/internal/collaboration).                            *)
(*                                                                         *)
(* A client edits a local Yjs document, on line or off, and sends each     *)
(* update with a stable key until it comes back with a server sequence.    *)
(* The server gives sequences, broadcasts, and lets clients compact the    *)
(* log into a snapshot.  An update is a number; a Yjs document, which      *)
(* absorbs updates in any order and any number of times, is the set of     *)
(* those it has absorbed.                                                  *)
(***************************************************************************)
EXTENDS Integers, Sequences, FiniteSets, Functions

CONSTANTS
    Clients,
    SnapshotInterval,   \* SNAPSHOT_UPDATE_INTERVAL
    Buffer,             \* subscriptionBuffer
    MaxUpdates,         \* model bound: updates ever made
    MaxRare             \* model bound: connections, broadcasts and browsers lost, slow
                        \* subscribers, ticks that overtake a broadcast, and merges
                        \* and publications requested

ASSUME CollaborationAssumption ==
    /\ SnapshotInterval \in Nat \ {0} /\ Buffer \in Nat \ {0}
    /\ MaxUpdates \in Nat /\ MaxRare \in Nat

Update == 1 .. MaxUpdates

VARIABLES
    accepted,    \* the update given each sequence, in order
    kept,        \* the sequences whose working_document_update row exists
    snapshots,   \* working_document_snapshot rows: [seq, state]
    merges,      \* proposals merged: [seq, base]
    published,   \* publications: [seq, content]
    unsent,      \* frames committed and not yet broadcast: [by, frame]
    conn,        \* each client's connection: down, joined (subscribed), open
                 \* (recovered), lapsed or closing (the same, but the hub
                 \* has closed the subscription), denied
    queue,       \* the hub's messages for each subscription
    written,     \* the contiguous sequence written to each connection
    wire,        \* frames on the way to each client
    uplink,      \* messages on the way from each client
    client,      \* what each browser holds in memory
    stored,      \* what it holds in IndexedDB
    request,     \* an HTTP merge or publication under way
    born, rare,
    skipped      \* history: a client has absorbed an update past a gap, unready

server == <<accepted, kept, snapshots, merges, published>>
links == <<conn, queue, written, wire, uplink>>
counters == <<born, rare, skipped>>
vars == <<server, unsent, links, client, stored, request, counters>>

Larger(m, n) == IF m > n THEN m ELSE n

Latest == Len(accepted)                    \* working_document.latest_sequence
UpTo(n) == {accepted[i] : i \in 1 .. n}

Frame(kind, n, state) == [kind |-> kind, seq |-> n, state |-> state]
RowFrame(n) == Frame("update", n, {accepted[n]})

(* Numbers in order, the way rows are read and pending updates are sent.   *)
Ascending(S) ==
    CHOOSE f \in [1 .. Cardinality(S) -> S] :
        \A i, j \in 1 .. Cardinality(S) : i < j => f[i] < f[j]

NewRecord == [doc |-> {}, cursor |-> 0, pending |-> {}]
Booted(record) ==
    [doc |-> record.doc, cursor |-> record.cursor, pending |-> record.pending,
     queued |-> {}, ready |-> FALSE, mode |-> "live", saved |-> 0, saving |-> FALSE]
NoRequest == [kind |-> "none", seq |-> 0, id |-> 0, content |-> {}]

Init ==
    /\ accepted = <<>> /\ kept = {} /\ snapshots = {} /\ merges = {} /\ published = {}
    /\ unsent = {}
    /\ conn = [c \in Clients |-> "down"]
    /\ queue = [c \in Clients |-> <<>>] /\ written = [c \in Clients |-> 0]
    /\ wire = [c \in Clients |-> <<>>] /\ uplink = [c \in Clients |-> <<>>]
    /\ client = [c \in Clients |-> Booted(NewRecord)]
    /\ stored = [c \in Clients |-> NewRecord]
    /\ request = [c \in Clients |-> NoRequest]
    /\ born = 0 /\ rare = 0 /\ skipped = FALSE

-----------------------------------------------------------------------------
(* The durable log.                                                        *)

(* The row that holds an update's idempotency key, while there is one.     *)
RowsOf(u) == {n \in kept : accepted[n] = u}

(* Append and AppendCASInTx: a known key returns its row, a new one gets   *)
(* the next sequence.                                                      *)
Accept(u) ==
    IF RowsOf(u) # {}
    THEN UNCHANGED <<accepted, kept>>
    ELSE accepted' = Append(accepted, u) /\ kept' = kept \cup {Latest + 1}

SequenceOf(u) == IF RowsOf(u) # {} THEN CHOOSE n \in RowsOf(u) : TRUE ELSE Latest + 1

NewestOf(S) == CHOOSE s \in S : \A t \in S : t.seq <= s.seq

UpdatesOnly(cursor) ==                                 \* mutation
    LET rows == Ascending({n \in kept : n > cursor})
    IN  [i \in 1 .. Len(rows) |-> RowFrame(rows[i])]
          \o <<Frame("ready", Latest, {})>>

(* LoadSince and writeRecovery, from one REPEATABLE READ snapshot: the     *)
(* newest snapshot if the cursor is older, the updates after it, ready.    *)
Recovery(cursor) ==
    LET covered == {s \in snapshots : s.seq > cursor}
        from == IF covered = {} THEN cursor ELSE NewestOf(covered).seq
        rows == Ascending({n \in kept : n > from})
    IN  (IF covered = {} THEN <<>>
         ELSE <<Frame("snapshot", from, NewestOf(covered).state)>>)
        \o [i \in 1 .. Len(rows) |-> RowFrame(rows[i])]
        \o <<Frame("ready", Latest, {})>>

-----------------------------------------------------------------------------
(* Connections.                                                            *)

(* The handler subscribes to the hub before it reads the log.              *)
Join(c) ==
    /\ conn[c] = "down"
    /\ conn' = [conn EXCEPT ![c] = "joined"]
    /\ UNCHANGED <<server, unsent, queue, written, wire, uplink, client, stored,
                   request, counters>>

Recover(c) ==
    /\ conn[c] \in {"joined", "lapsed"}
    /\ conn' = [conn EXCEPT ![c] = IF @ = "joined" THEN "open" ELSE "closing"]
    /\ wire' = [wire EXCEPT ![c] = Recovery(client[c].cursor)]
    /\ written' = [written EXCEPT ![c] = Latest]
    /\ UNCHANGED <<server, unsent, queue, uplink, client, stored, request, counters>>

Connected(c) == conn[c] \in {"open", "closing"}

(* The connection's end as the server sees it, and as the client does.     *)
(* Messages already sent may still be read, up to some point.              *)
Close(c, as) ==
    /\ conn' = [conn EXCEPT ![c] = as]
    /\ queue' = [queue EXCEPT ![c] = <<>>]
    /\ wire' = [wire EXCEPT ![c] = <<>>]
    /\ written' = [written EXCEPT ![c] = 0]

Cut(c) ==
    \E n \in 0 .. Len(uplink[c]) :
        uplink' = [uplink EXCEPT ![c] = SubSeq(@, 1, n)]

(* A new connection recovers, but a client whose receive queue was rejected *)
(* keeps it, and hears nothing on any connection.                          *)
Offline(c) ==
    [client[c] EXCEPT !.ready = FALSE, !.saving = FALSE, !.queued = {},
                      !.mode = IF @ = "deaf" THEN "deaf" ELSE "live"]

LoseConnection(c) ==
    /\ conn[c] \notin {"down", "denied"} /\ rare < MaxRare
    /\ rare' = rare + 1
    /\ Close(c, "down") /\ Cut(c)
    /\ client' = [client EXCEPT ![c] = Offline(c)]
    /\ UNCHANGED <<server, unsent, stored, request, born, skipped>>

(* A subscription closed for being slow ends when its queue is written.    *)
Hangup(c) ==
    /\ conn[c] = "closing" /\ queue[c] = <<>>
    /\ Close(c, "down") /\ Cut(c)
    /\ client' = [client EXCEPT ![c] = Offline(c)]
    /\ UNCHANGED <<server, unsent, stored, request, counters>>

(* writeBroadcasts never advances past a missing durable update.           *)
Advance(c, f) == IF f.seq = written[c] + 1 THEN f.seq ELSE written[c]

Forward(c) ==
    /\ Connected(c) /\ queue[c] # <<>>
    /\ LET f == Head(queue[c])
       IN  /\ wire' = [wire EXCEPT ![c] = Append(@, f)]
           /\ queue' = [queue EXCEPT ![c] = Tail(@)]
           /\ written' = [written EXCEPT ![c] = IF f.kind = "update" THEN Advance(c, f) ELSE @]
    /\ UNCHANGED <<server, unsent, conn, uplink, client, stored, request, counters>>

(* Every ten seconds the connection looks for updates it has not written.  *)
(* A tick that overtakes the broadcast counts against MaxRare.           *)
Overtaking(c) == queue[c] # <<>> \/ unsent # {}

Poll(c) ==
    /\ Connected(c) /\ Latest > written[c]
    /\ Overtaking(c) => rare < MaxRare
    /\ rare' = IF Overtaking(c) THEN rare + 1 ELSE rare
    /\ wire' = [wire EXCEPT ![c] = @ \o Recovery(written[c])]
    /\ written' = [written EXCEPT ![c] = Latest]
    /\ UNCHANGED <<server, unsent, conn, queue, uplink, client, stored, request, born,
                   skipped>>

-----------------------------------------------------------------------------
(* The hub: broadcasting what a handler has committed.                     *)

Subscribed(c) == conn[c] \in {"joined", "open"}

Delivered(f, missing, c) ==
    IF Subscribed(c) /\ c \notin missing /\ Len(queue[c]) < Buffer
    THEN Append(queue[c], f) ELSE queue[c]

(* A slow subscriber is disconnected rather than skipped.                  *)
Slowed(missing, c) ==
    IF Subscribed(c) /\ c \notin missing /\ Len(queue[c]) >= Buffer
    THEN IF conn[c] = "open" THEN "closing" ELSE "lapsed" ELSE conn[c]

(* Another instance's subscribers miss the message when Redis or this      *)
(* instance fails between commit and publish.  A broadcast that finds a    *)
(* slow subscriber counts against MaxRare too.                           *)
Broadcast(m) ==
    \E missing \in SUBSET Clients :
        LET trouble == missing # {} \/ \E c \in Clients \ missing :
                                          Subscribed(c) /\ Len(queue[c]) >= Buffer
        IN
        /\ trouble => rare < MaxRare
        /\ rare' = IF trouble THEN rare + 1 ELSE rare
        /\ unsent' = unsent \ {m}
        /\ queue' = [c \in Clients |-> Delivered(m.frame, missing, c)]
        /\ conn' = [c \in Clients |-> Slowed(missing, c)]
        /\ UNCHANGED <<server, written, wire, uplink, client, stored, request, born,
                   skipped>>

-----------------------------------------------------------------------------
(* A connection's handler takes one message, commits and then broadcasts.  *)

Free(c) == \A m \in unsent : m.by # c

Take(c) == uplink' = [uplink EXCEPT ![c] = Tail(@)]

HandleUpdate(c) ==
    LET u == Head(uplink[c]).id
    IN  /\ uplink[c] # <<>> /\ Head(uplink[c]).kind = "update" /\ Free(c)
        /\ Accept(u) /\ Take(c)
        /\ unsent' = unsent \cup {[by |-> c, frame |-> Frame("update", SequenceOf(u), {u})]}
        /\ UNCHANGED <<snapshots, merges, published, conn, queue, written, wire,
                       client, stored, request, counters>>

At(n) == {s \in snapshots : s.seq = n}

(* A second snapshot at a sequence must have the first one's hash; else    *)
(* the policy violation ends the client's session for good.                *)
SaveSnapshot(c) ==
    LET s == [seq |-> Head(uplink[c]).seq, state |-> Head(uplink[c]).state]
    IN  /\ uplink[c] # <<>> /\ Head(uplink[c]).kind = "snapshot" /\ Free(c)
        /\ IF At(s.seq) \subseteq {s}
           THEN /\ snapshots' = snapshots \cup {s}
                /\ kept' = {n \in kept : n > s.seq}
                /\ unsent' = unsent \cup {[by |-> c, frame |-> Frame("saved", s.seq, {})]}
                /\ Take(c)
                /\ UNCHANGED <<conn, queue, written, wire, client>>
           ELSE /\ uplink' = [uplink EXCEPT ![c] = <<>>]
                /\ Close(c, "denied")
                /\ client' = [client EXCEPT ![c] = [Offline(c) EXCEPT !.pending = {}]]
                /\ UNCHANGED <<snapshots, kept, unsent>>
        /\ UNCHANGED <<accepted, merges, published, stored, request, counters>>

-----------------------------------------------------------------------------
(* The client.                                                             *)

SnapshotDue(k) ==
    /\ k.ready /\ ~k.saving /\ k.pending = {}
    /\ k.cursor - k.saved >= SnapshotInterval

(* maybeSaveSnapshot, which follows every change a frame makes.            *)
Settle(c, k) ==
    IF SnapshotDue(k)
    THEN /\ client' = [client EXCEPT ![c] = [k EXCEPT !.saving = TRUE]]
         /\ uplink' = [uplink EXCEPT ![c] =
                Append(@, [kind |-> "snapshot", id |-> 0, seq |-> k.cursor, state |-> k.doc])]
    ELSE client' = [client EXCEPT ![c] = k] /\ UNCHANGED uplink

Edit(c) ==
    /\ conn[c] # "denied" /\ born < MaxUpdates
    /\ born' = born + 1
    /\ client' = [client EXCEPT ![c].doc = @ \cup {born'}, ![c].pending = @ \cup {born'},
                                ![c].queued = @ \cup {born'}]
    /\ UNCHANGED <<server, unsent, links, stored, request, rare, skipped>>

(* The persistence queue: the record is durable before what was queued     *)
(* behind it is sent.                                                      *)
Persist(c) ==
    LET k == client[c]
        ids == Ascending(k.queued \cap k.pending)
        sent == [i \in 1 .. Len(ids) |-> [kind |-> "update", id |-> ids[i], seq |-> 0, state |-> {}]]
    IN  /\ conn[c] # "denied"
        /\ stored' = [stored EXCEPT ![c] =
               [doc |-> k.doc, cursor |-> k.cursor, pending |-> k.pending]]
        /\ client' = [client EXCEPT ![c].queued = {}]
        /\ uplink' = [uplink EXCEPT ![c] = IF k.ready THEN @ \o sent ELSE @]
        /\ stored # stored' \/ client # client'
        /\ UNCHANGED <<server, unsent, conn, queue, written, wire, request, counters>>

NoGap(k, f) == FALSE                                   \* mutation

Gap(k, f) == f.kind = "update" /\ k.ready /\ f.seq > k.cursor + 1

(* A sequence gap calls refresh, which clears ready and closes the socket  *)
(* with code 1012.  A browser allows no code but 1000 and 3000 to 4999 and *)
(* throws; the handler of what a message throws closes it with 1002, which *)
(* throws as well.  The queue the messages wait in is rejected for good:   *)
(* the connection stays, and none of its messages is read any more.        *)
Refresh(c) ==
    /\ wire[c] # <<>> /\ Gap(client[c], Head(wire[c]))
    /\ wire' = [wire EXCEPT ![c] = Tail(@)]
    /\ client' = [client EXCEPT ![c].ready = FALSE, ![c].mode = "deaf"]
    /\ UNCHANGED <<server, unsent, conn, queue, written, uplink, stored, request, counters>>

Absorbed(k, f) ==
    [k EXCEPT !.doc = @ \cup f.state, !.cursor = Larger(@, f.seq)]

(* A client that refresh has left unready looks for no gap, and its cursor *)
(* moves over the updates that are missing.                                *)
Skips(k, f) == k.mode = "refreshed" /\ f.kind = "update" /\ f.seq > k.cursor + 1

Receive(c) ==
    LET k == client[c]
        f == Head(wire[c])
    IN  /\ wire[c] # <<>> /\ k.mode # "deaf" /\ ~Gap(k, f)
        /\ wire' = [wire EXCEPT ![c] = Tail(@)]
        /\ skipped' = (skipped \/ Skips(k, f))
        /\ CASE f.kind = "update" ->
                  Settle(c, [Absorbed(k, f) EXCEPT !.pending = @ \ f.state])
             [] f.kind = "snapshot" ->
                  Settle(c, [Absorbed(k, f) EXCEPT !.saved = Larger(@, f.seq)])
             [] f.kind = "ready" ->
                  Settle(c, [Absorbed(k, f) EXCEPT !.ready = TRUE, !.mode = "live",
                                                   !.queued = @ \cup k.pending])
             [] f.kind = "saved" ->
                  /\ client' = [client EXCEPT ![c].saved = Larger(@, f.seq), ![c].saving = FALSE]
                  /\ UNCHANGED uplink
        /\ UNCHANGED <<server, unsent, conn, queue, written, stored, request, born, rare>>

(* What arrives at a rejected queue is dropped.                            *)
Drop(c) ==
    /\ wire[c] # <<>> /\ client[c].mode = "deaf"
    /\ wire' = [wire EXCEPT ![c] = Tail(@)]
    /\ UNCHANGED <<server, unsent, conn, queue, written, uplink, client, stored, request,
                   counters>>

(* The browser is closed, and opened again from what it had stored.        *)
Reopen(c) ==
    /\ conn[c] # "denied" /\ rare < MaxRare
    /\ rare' = rare + 1
    /\ Close(c, "down") /\ Cut(c)
    /\ client' = [client EXCEPT ![c] = Booted(stored[c])]
    /\ request' = [request EXCEPT ![c] = NoRequest]
    /\ UNCHANGED <<server, unsent, stored, born, skipped>>

-----------------------------------------------------------------------------
(* Merging a proposal into the document, and publishing it.                *)

(* The merge page needs a ready client only; its delta is made on a clone. *)
PrepareMerge(c) ==
    /\ client[c].ready /\ request[c] = NoRequest
    /\ born < MaxUpdates /\ rare < MaxRare
    /\ born' = born + 1 /\ rare' = rare + 1
    /\ request' = [request EXCEPT ![c] =
           [kind |-> "merge", seq |-> client[c].cursor, id |-> born', content |-> client[c].doc]]
    /\ UNCHANGED <<server, unsent, links, client, stored, skipped>>

Anything(k) == k.ready                                 \* mutation

(* The editor publishes only once every local update has come back.        *)
Publishable(k) == k.ready /\ k.pending = {}

PreparePublish(c) ==
    /\ Publishable(client[c]) /\ request[c] = NoRequest
    /\ rare < MaxRare
    /\ rare' = rare + 1
    /\ request' = [request EXCEPT ![c] =
           [kind |-> "publish", seq |-> client[c].cursor, id |-> 0, content |-> client[c].doc]]
    /\ UNCHANGED <<server, unsent, links, client, stored, born, skipped>>

SequenceMatches(r) == r.seq = Latest

Merge(c) ==
    LET r == request[c]
    IN  /\ r.kind = "merge" /\ SequenceMatches(r)      \* else Refuse
        /\ Accept(r.id)
        /\ merges' = merges \cup {[seq |-> SequenceOf(r.id), base |-> r.content]}
        /\ unsent' = unsent \cup
               {[by |-> "http", frame |-> Frame("update", SequenceOf(r.id), {r.id})]}
        /\ request' = [request EXCEPT ![c] = NoRequest]
        /\ UNCHANGED <<snapshots, published, links, client, stored, counters>>

(* That the page still has the revision expected is checked as well, which *)
(* only refuses more (see Revisions).                                      *)
Publish(c) ==
    LET r == request[c]
    IN  /\ r.kind = "publish" /\ SequenceMatches(r)    \* else Refuse
        /\ published' = published \cup {[seq |-> r.seq, content |-> r.content]}
        /\ request' = [request EXCEPT ![c] = NoRequest]
        /\ UNCHANGED <<accepted, kept, snapshots, merges, unsent, links, client, stored, counters>>

(* The editor answers a refused publication with refresh: the socket stays *)
(* and the client is unready until a catch-up or a new connection sends a  *)
(* ready frame.  The merge page only reports the conflict.                 *)
Refreshed(k) ==
    IF k.ready THEN [k EXCEPT !.ready = FALSE, !.mode = "refreshed"] ELSE k

Refuse(c) ==
    LET r == request[c]
    IN  /\ r.kind # "none" /\ ~SequenceMatches(r)
        /\ request' = [request EXCEPT ![c] = NoRequest]
        /\ client' = [client EXCEPT ![c] = IF r.kind = "publish" THEN Refreshed(@) ELSE @]
        /\ UNCHANGED <<server, unsent, links, stored, counters>>

-----------------------------------------------------------------------------
(* What happens by itself, once there is nothing more to edit or to lose.  *)
Work(c) ==
    \/ Join(c) \/ Recover(c) \/ Hangup(c) \/ Forward(c) \/ Poll(c)
    \/ HandleUpdate(c) \/ SaveSnapshot(c)
    \/ Persist(c) \/ Refresh(c) \/ Receive(c) \/ Drop(c)
    \/ Merge(c) \/ Publish(c) \/ Refuse(c)

Next ==
    \/ \E c \in Clients :
           \/ Work(c) \/ Edit(c) \/ PrepareMerge(c) \/ PreparePublish(c)
           \/ LoseConnection(c) \/ Reopen(c)
    \/ \E m \in unsent : Broadcast(m)

Spec == Init /\ [][Next]_vars

-----------------------------------------------------------------------------
(* Every row, frame, message and record has its shape, and the rows kept   *)
(* are rows that were accepted.                                            *)
TypeOK ==
    /\ accepted \in Seq(Update) /\ kept \subseteq 1 .. Latest
    /\ \A s \in snapshots : s.seq \in 0 .. Latest /\ s.state \subseteq Update
    /\ \A c \in Clients :
           /\ conn[c] \in {"down", "joined", "lapsed", "open", "closing", "denied"}
           /\ Len(queue[c]) <= Buffer
           /\ client[c].cursor \in 0 .. Latest /\ client[c].doc \subseteq 1 .. born
           /\ client[c].pending \subseteq client[c].doc
           /\ client[c].ready => Connected(c) /\ client[c].mode = "live"

(* What follows holds as long as no client has absorbed an update past a   *)
(* gap, which only one that refresh left unready after a refused           *)
(* publication can do (see CursorsAreContiguous).                          *)

(* A client that has reached a sequence has every update up to it, in      *)
(* memory and in its store: no broadcast that was lost, late or out of     *)
(* order, and no compaction, makes its cursor skip one.                    *)
CursorIsComplete ==
    ~skipped =>
        \A c \in Clients :
            /\ UpTo(client[c].cursor) \subseteq client[c].doc
            /\ UpTo(stored[c].cursor) \subseteq stored[c].doc

(* Compaction loses nothing: whoever recovers from the start is given      *)
(* every update the server ever accepted.                                  *)
NothingIsLost ==
    ~skipped => UNION {f.state : f \in Range(Recovery(0))} = UpTo(Latest)

(* A snapshot holds what its sequence says, and nothing beyond it, so two  *)
(* clients' snapshots at one sequence never conflict.                      *)
SnapshotsAreExact == ~skipped => \A s \in snapshots : s.state = UpTo(s.seq)

(* What is published is the document at the sequence it was published at   *)
(* (an update unseen by the publisher is refused, an unsent one awaited).  *)
PublishedIsExact == ~skipped => \A p \in published : p.content = UpTo(p.seq)

(* A merge has seen every update accepted before it.                       *)
MergesSeeEverything ==
    ~skipped => \A m \in merges : UpTo(m.seq - 1) \subseteq m.base

(* Nothing is left to do by itself: nothing is on the way, nobody waits for *)
(* an answer, and who may connect is connected, has been written everything *)
(* and has stored everything.                                              *)
Quiet ==
    /\ unsent = {}
    /\ \A c \in Clients :
          /\ queue[c] = <<>> /\ wire[c] = <<>> /\ uplink[c] = <<>> /\ request[c] = NoRequest
          /\ \/ conn[c] = "denied"
             \/ /\ conn[c] = "open" /\ Latest <= written[c]
                /\ client[c].queued = {}
                /\ stored[c] = [doc |-> client[c].doc, cursor |-> client[c].cursor,
                                pending |-> client[c].pending]

(* That is: no broadcast is due and no step of Work is possible.           *)
QuietIsTheEnd == Quiet <=> unsent = {} /\ \A c \in Clients : ~ENABLED Work(c)

(* When nothing more happens, every client that refresh has not disturbed  *)
(* has every update, its own and the others', and the server has them too: *)
(* nobody waits for an echo.  One left unready after a refused publication *)
(* still has every update the server has (its own may wait unsent).  One   *)
(* whose queue was rejected may have neither.                              *)
QuietMeansSynced ==
    Quiet /\ ~skipped => \A c \in Clients :
        /\ client[c].mode = "live" =>
              client[c].doc = UpTo(Latest) /\ client[c].pending = {}
        /\ client[c].mode = "refreshed" => UpTo(Latest) \subseteq client[c].doc

(* A client's cursor is the last contiguous sequence it has applied        *)
(* (protocol: "the last contiguous applied server sequence").              *)
CursorsAreContiguous == ~skipped

(* A gap makes a client reconnect, so that when nothing more happens its   *)
(* messages are read (protocol: "Live sequence gaps cause clients to       *)
(* reconnect").                                                            *)
GapsReconnect == Quiet => \A c \in Clients : client[c].mode # "deaf"

(* An update sent again under its key is not accepted again (protocol: "A  *)
(* duplicate (document, client, update) is idempotent").                   *)
DuplicatesAreIdempotent ==
    \A m, n \in 1 .. Latest : accepted[m] = accepted[n] => m = n

(* A merge is computed from the document at the sequence it expects        *)
(* (ADR-0015: the client works from a document recovered to sequence S).   *)
MergeBaseIsDurable == \A m \in merges : m.base = UpTo(m.seq - 1)
=============================================================================
