------------------------- MODULE CollaborationProofs -------------------------
(* Theorems about Collaboration for any clients, intervals, buffers and    *)
(* bounds.                                                                 *)
EXTENDS Collaboration, SequenceTheorems, FiniteSetTheorems, TLAPS

(* The fields of frames, messages, records and requests.                   *)
Frames == [kind : {"update", "snapshot", "ready", "saved"}, seq : Nat, state : SUBSET Nat]
Messages == [kind : {"update", "snapshot"}, id : Nat, seq : Nat, state : SUBSET Nat]
Records == [doc : SUBSET Nat, cursor : Nat, pending : SUBSET Nat]
Memories ==
    {k \in [doc : SUBSET Nat, cursor : Nat, pending : SUBSET Nat, queued : SUBSET Nat,
            ready : BOOLEAN, mode : {"live", "refreshed", "deaf"},
            saved : Nat, saving : BOOLEAN] : k.ready => k.mode = "live"}
Requests == [kind : {"none", "merge", "publish"}, seq : Nat, id : Nat, content : SUBSET Nat]

LogTypes ==
    /\ accepted \in Seq(Nat) /\ kept \in SUBSET Nat /\ born \in 0 .. MaxUpdates
    /\ snapshots \in SUBSET [seq : Nat, state : SUBSET Nat]
    /\ merges \in SUBSET [seq : Nat, base : SUBSET Nat]
    /\ published \in SUBSET [seq : Nat, content : SUBSET Nat]

LinkTypes ==
    /\ conn \in [Clients -> {"down", "joined", "lapsed", "open", "closing"}]
    /\ \A m \in unsent : m.frame \in Frames
    /\ queue \in [Clients -> Seq(Frames)] /\ wire \in [Clients -> Seq(Frames)]
    /\ written \in [Clients -> Nat] /\ uplink \in [Clients -> Seq(Messages)]

ClientTypes ==
    /\ client \in [Clients -> Memories] /\ stored \in [Clients -> Records]
    /\ request \in [Clients -> Requests]

(* The first n updates of a log.                                           *)
Firsts(log, n) == {log[i] : i \in 1 .. n}

(* The log holds what was made; what a snapshot covers is compacted, and a *)
(* snapshot holds exactly that.                                            *)
LogOk ==
    /\ \A n \in 1 .. Latest : accepted[n] \in 1 .. born
    /\ kept = {n \in 1 .. Latest : \A s \in snapshots : n > s.seq}
    /\ \A s \in snapshots : s.seq <= Latest /\ s.state = Firsts(accepted, s.seq)

(* What every frame of the server says is so.                              *)
Truthful(log, f) ==
    /\ f.seq <= Len(log)
    /\ f.kind = "update" => f.seq # 0 /\ f.state = {log[f.seq]}
    /\ f.kind = "snapshot" => f.state = Firsts(log, f.seq)
    /\ f.kind = "ready" => f.state = {}

Broadcasted(log, f) == f.kind \in {"update", "saved"} /\ Truthful(log, f)

HubOk ==
    /\ \A m \in unsent : Broadcasted(accepted, m.frame)
    /\ \A c \in Clients :
         /\ Len(queue[c]) <= Buffer
         /\ \A i \in 1 .. Len(queue[c]) : Broadcasted(accepted, queue[c][i])

(* What a client sends: updates that were made, exact snapshots.           *)
Sound(log, made, m) ==
    /\ m.kind = "update" => m.id \in 1 .. made
    /\ m.kind = "snapshot" => m.seq <= Len(log) /\ m.state = Firsts(log, m.seq)

UplinkOk ==
    \A c \in Clients : \A i \in 1 .. Len(uplink[c]) : Sound(accepted, born, uplink[c][i])

(* A document is what its cursor says, and the client's own updates that   *)
(* have not come back.                                                     *)
RecordOk(log, made, r) ==
    /\ r.cursor <= Len(log) /\ r.pending \subseteq 1 .. made
    /\ r.doc = Firsts(log, r.cursor) \cup r.pending

Requested(log, made, r) ==
    /\ r.seq <= Len(log)
    /\ r.kind = "publish" => r.content = Firsts(log, r.seq)
    /\ r.kind = "merge" => r.id \in 1 .. made /\ Firsts(log, r.seq) \subseteq r.content

ClientsOk ==
    \A c \in Clients :
        /\ RecordOk(accepted, born, client[c]) /\ RecordOk(accepted, born, stored[c])
        /\ Requested(accepted, born, request[c])

HttpOk ==
    /\ \A p \in published : p.seq <= Latest /\ p.content = Firsts(accepted, p.seq)
    /\ \A m \in merges : m.seq \in 1 .. Latest /\ Firsts(accepted, m.seq - 1) \subseteq m.base

-----------------------------------------------------------------------------
(* What is on the way to a client.                                         *)

Covers(f, n) ==
    \/ f.kind = "update" /\ f.seq = n
    \/ f.kind = "snapshot" /\ n <= f.seq

(* Below n, whatever the cursor does not have comes before position i.     *)
Before(n, w, cursor, i) ==
    \A k \in 1 .. n : k <= cursor \/ \E j \in 1 .. i - 1 : Covers(w[j], k)

Unready(w, i) == \A j \in 1 .. i - 1 : w[j].kind # "ready"

(* A connection that is up brings everything up to its written sequence,   *)
(* and a ready frame nothing new; updates that arrive before the first     *)
(* ready frame arrive without a gap.                                       *)
Flow(up, high, w, cursor, ready) ==
    /\ ~up => w = <<>> /\ high = 0 /\ ~ready
    /\ up /\ ~ready => \E i \in 1 .. Len(w) : w[i].kind = "ready"
    /\ Before(high, w, cursor, Len(w) + 1)
    /\ \A i \in 1 .. Len(w) : w[i].kind = "ready" => Before(w[i].seq, w, cursor, i)
    /\ ~ready => \A i \in 1 .. Len(w) :
         w[i].kind = "update" /\ Unready(w, i) => Before(w[i].seq - 1, w, cursor, i)

(* A client that has had its first ready frame on this connection, and     *)
(* reads what comes after it.                                              *)
Listens(k) == k.ready \/ k.mode = "refreshed"

FlowOk(c) ==
    client[c].mode # "deaf" =>
        Flow(Connected(c), written[c], wire[c], client[c].cursor, Listens(client[c]))

WireOk(c) == FlowOk(c) /\ \A i \in 1 .. Len(wire[c]) : Truthful(accepted, wire[c][i])

WiresOk == \A c \in Clients : WireOk(c)

IInv ==
    /\ LogTypes /\ LinkTypes /\ ClientTypes
    /\ LogOk /\ HubOk /\ UplinkOk /\ ClientsOk /\ HttpOk /\ WiresOk

-----------------------------------------------------------------------------
(* Numbers in order.                                                       *)

LEMMA GreatestMember ==
    ASSUME NEW n \in Nat, NEW S \in SUBSET (0 .. n), S # {}
    PROVE  \E i \in S : \A j \in S : j <= i
<1> DEFINE R == OpToRel(<, Nat)  T == {m \in Nat : n - m \in S}
<1> HIDE DEF R
<1>1. IsWellFoundedOn(R, Nat)
  BY NatLessThanWellFounded DEF R
<1>2. T \subseteq Nat /\ T # {}
  <2>1. PICK i \in S : TRUE
    OBVIOUS
  <2>2. n - i \in Nat /\ n - (n - i) = i
    OBVIOUS
  <2>3. QED
    BY <2>1, <2>2
<1> HIDE DEF T
<1>3. PICK m \in T : \A k \in T : ~ (<<k, m>> \in R)
  BY <1>1, <1>2, WFMin
<1>4. m \in Nat /\ n - m \in S
  BY DEF T
<1>5. ASSUME NEW j \in S PROVE j <= n - m
  <2>1. n - j \in Nat /\ n - (n - j) = j
    OBVIOUS
  <2>2. n - j \in T
    BY <2>1 DEF T
  <2>3. ~ (n - j < m)
    BY <1>3, <1>4, <2>1, <2>2 DEF OpToRel, R
  <2>4. QED
    BY <1>4, <2>1, <2>3
<1>6. QED
  BY <1>4, <1>5

(* A finite set of numbers can be put in order: a number's place is how    *)
(* many do not exceed it.                                                  *)
LEMMA AscendingExists ==
    ASSUME NEW S \in SUBSET Nat, IsFiniteSet(S)
    PROVE  \E f \in [1 .. Cardinality(S) -> S] :
             \A i, j \in 1 .. Cardinality(S) : i < j => f[i] < f[j]
<1> DEFINE n == Cardinality(S)
           below(x) == {y \in S : y <= x}
           rank == [x \in S |-> Cardinality(below(x))]
<1>1. n \in Nat /\ IsFiniteSet(1 .. n) /\ Cardinality(1 .. n) = n
  BY FS_CardinalityType, FS_Interval
<1>2. ASSUME NEW x \in S
      PROVE  IsFiniteSet(below(x)) /\ Cardinality(below(x)) \in 1 .. n
  <2>1. below(x) \in SUBSET S /\ below(x) # {}
    OBVIOUS
  <2>2. IsFiniteSet(below(x)) /\ Cardinality(below(x)) <= n
    BY <2>1, FS_Subset
  <2>3. Cardinality(below(x)) \in Nat /\ Cardinality(below(x)) # 0
    BY <2>1, <2>2, FS_CardinalityType, FS_EmptySet
  <2>4. QED
    BY <1>1, <2>2, <2>3
<1>3. ASSUME NEW x \in S, NEW y \in S, x < y
      PROVE  rank[x] < rank[y]
  <2>1. below(x) \in SUBSET below(y) /\ y \in below(y) /\ y \notin below(x)
    <3>1. x \in Nat /\ y \in Nat /\ \A z \in S : z \in Nat
      OBVIOUS
    <3>2. \A z \in S : z <= x => z <= y
      BY <1>3, <3>1
    <3>3. y <= y /\ ~(y <= x)
      BY <1>3, <3>1
    <3>4. QED
      BY <3>2, <3>3
  <2>2. IsFiniteSet(below(y))
    BY <1>2
  <2> HIDE DEF below
  <2>3. Cardinality(below(x)) <= Cardinality(below(y))
        /\ Cardinality(below(x)) # Cardinality(below(y))
    BY <2>1, <2>2, FS_Subset
  <2>4. QED
    BY <1>1, <1>2, <2>3
<1>4. rank \in [S -> 1 .. n]
  BY <1>2
<1> HIDE DEF rank, n
<1>5. \A x, y \in S : rank[x] = rank[y] => x = y
  BY <1>1, <1>3, <1>4
<1>6. rank \in Injection(S, 1 .. n)
  BY <1>4, <1>5 DEF Injection, IsInjective
<1>7. rank \in Surjection(S, 1 .. n)
  BY <1>1, <1>6, FS_Injection DEF n
<1>8. \A i \in 1 .. n : \E x \in S : rank[x] = i
  BY <1>7 DEF Surjection
<1> DEFINE f == [i \in 1 .. n |-> CHOOSE x \in S : rank[x] = i]
<1>9. \A i \in 1 .. n : f[i] \in S /\ rank[f[i]] = i
  BY <1>8
<1>10. f \in [1 .. n -> S]
  BY <1>9
<1> HIDE DEF f
<1>11. ASSUME NEW i \in 1 .. n, NEW j \in 1 .. n, i < j PROVE f[i] < f[j]
  <2> DEFINE x == f[i]  y == f[j]
  <2>1. x \in S /\ y \in S /\ rank[x] = i /\ rank[y] = j /\ x \in Nat /\ y \in Nat
    BY <1>9
  <2> HIDE DEF x, y
  <2>2. ~(y < x) /\ x # y
    BY <1>3, <1>11, <2>1
  <2>3. x < y
    BY <2>1, <2>2
  <2>4. QED
    BY <2>3 DEF x, y
<1>12. QED
  BY <1>10, <1>11 DEF n

LEMMA AscendingIs ==
    ASSUME NEW S \in SUBSET Nat, IsFiniteSet(S)
    PROVE  /\ Ascending(S) \in Seq(S) /\ Len(Ascending(S)) \in Nat
           /\ DOMAIN Ascending(S) = 1 .. Len(Ascending(S))
           /\ \A i \in 1 .. Len(Ascending(S)) : Ascending(S)[i] \in S
           /\ \A i, j \in 1 .. Len(Ascending(S)) : i < j => Ascending(S)[i] < Ascending(S)[j]
           /\ \A x \in S : \E i \in 1 .. Len(Ascending(S)) : Ascending(S)[i] = x
<1> DEFINE n == Cardinality(S)  f == Ascending(S)
<1>1. n \in Nat /\ IsFiniteSet(1 .. n) /\ Cardinality(1 .. n) = n
  BY FS_CardinalityType, FS_Interval
<1>2. f \in [1 .. n -> S] /\ \A i, j \in 1 .. n : i < j => f[i] < f[j]
  BY AscendingExists DEF Ascending
<1> HIDE DEF f, n
<1>3. f \in Seq(S) /\ Len(f) = n /\ DOMAIN f = 1 .. n /\ \A i \in 1 .. n : f[i] \in S
  BY <1>1, <1>2
<1>4. ASSUME NEW i \in 1 .. n, NEW j \in 1 .. n, f[i] = f[j] PROVE i = j
  <2>1. f[i] \in Nat /\ i \in Nat /\ j \in Nat
    <3>1. f[i] \in S
      BY <1>3
    <3>2. i \in Nat /\ j \in Nat
      BY <1>1
    <3>3. QED
      BY <3>1, <3>2
  <2>2. \A a, b \in 1 .. n : a < b => f[a] < f[b]
    BY <1>2
  <2>3. \A x \in Nat : ~(x < x)
    OBVIOUS
  <2>4. ~(i < j) /\ ~(j < i)
    BY <1>4, <2>1, <2>2, <2>3
  <2>5. QED
    BY <2>1, <2>4
<1>5. f \in Injection(1 .. n, S)
  BY <1>2, <1>4 DEF Injection, IsInjective
<1>6. f \in Surjection(1 .. n, S)
  BY <1>1, <1>5, FS_Injection DEF n
<1>7. \A x \in S : \E i \in 1 .. n : f[i] = x
  BY <1>6 DEF Surjection
<1>8. QED
  BY <1>1, <1>2, <1>3, <1>7 DEF f

-----------------------------------------------------------------------------
(* What a client is given when it recovers.                                *)

(* Rows and perhaps a snapshot that together cover everything past the     *)
(* cursor, the rows without a gap, and then the ready frame.               *)
Recovers(R, cursor, latest) ==
    /\ R \in Seq(Frames) /\ Len(R) \in Nat \ {0}
    /\ R[Len(R)].kind = "ready" /\ R[Len(R)].seq = latest
    /\ \A i \in 1 .. Len(R) - 1 : R[i].kind \in {"update", "snapshot"}
    /\ \A k \in cursor + 1 .. latest : \E j \in 1 .. Len(R) - 1 : Covers(R[j], k)
    /\ \A i \in 1 .. Len(R) - 1 : R[i].kind = "update" =>
         \A k \in cursor + 1 .. R[i].seq - 1 : \E j \in 1 .. i - 1 : Covers(R[j], k)

LEMMA LogFields ==
    ASSUME LogTypes
    PROVE  /\ Latest \in Nat /\ born \in Nat
           /\ \A n \in 1 .. Latest : accepted[n] \in Nat
           /\ \A n \in 0 .. Latest : Firsts(accepted, n) \in SUBSET Nat
           /\ \A s \in snapshots : s.seq \in Nat /\ s.state \in SUBSET Nat
<1>1. Latest \in Nat /\ \A n \in 1 .. Latest : accepted[n] \in Nat
  BY DEF LogTypes, Latest
<1>2. ASSUME NEW n \in 0 .. Latest PROVE Firsts(accepted, n) \in SUBSET Nat
  BY <1>1 DEF Firsts
<1>3. born \in Nat /\ \A s \in snapshots : s.seq \in Nat /\ s.state \in SUBSET Nat
  BY CollaborationAssumption DEF LogTypes
<1>4. QED
  BY <1>1, <1>2, <1>3

LEMMA ThreeParts ==
    ASSUME NEW head \in Seq(Frames), NEW ups \in Seq(Frames), NEW f \in Frames,
           NEW R, R = head \o ups \o <<f>>
    PROVE  /\ R \in Seq(Frames) /\ Len(R) = Len(head) + Len(ups) + 1
           /\ Len(head) \in Nat /\ Len(ups) \in Nat
           /\ \A i \in 1 .. Len(head) : R[i] = head[i]
           /\ \A i \in 1 .. Len(ups) : R[Len(head) + i] = ups[i]
           /\ R[Len(R)] = f
<1>1. Len(head) \in Nat /\ Len(ups) \in Nat
  BY LenProperties
<1> DEFINE front == head \o ups
<1>2. /\ front \in Seq(Frames) /\ Len(front) = Len(head) + Len(ups)
      /\ \A i \in 1 .. Len(head) + Len(ups) :
           front[i] = IF i <= Len(head) THEN head[i] ELSE ups[i - Len(head)]
  BY ConcatProperties
<1>3. <<f>> \in Seq(Frames) /\ Len(<<f>>) = 1 /\ <<f>>[1] = f
  OBVIOUS
<1> HIDE DEF front
<1>4. /\ R \in Seq(Frames) /\ Len(R) = Len(front) + 1
      /\ \A i \in 1 .. Len(front) + 1 :
           R[i] = IF i <= Len(front) THEN front[i] ELSE <<f>>[i - Len(front)]
  BY <1>2, <1>3, ConcatProperties DEF front
<1>5. \A i \in 1 .. Len(head) : R[i] = head[i]
  BY <1>1, <1>2, <1>4
<1>6. \A i \in 1 .. Len(ups) : R[Len(head) + i] = ups[i]
  <2> SUFFICES ASSUME NEW i \in 1 .. Len(ups) PROVE R[Len(head) + i] = ups[i]
    OBVIOUS
  <2> DEFINE k == Len(head) + i
  <2>1. k \in 1 .. Len(front) /\ ~(k <= Len(head)) /\ k - Len(head) = i
    BY <1>1, <1>2
  <2> HIDE DEF k
  <2>2. R[k] = ups[i]
    BY <1>1, <1>2, <1>4, <2>1
  <2>3. QED
    BY <2>2 DEF k
<1>7. R[Len(R)] = f
  <2>1. Len(R) \in 1 .. Len(front) + 1 /\ ~(Len(R) <= Len(front)) /\ Len(R) - Len(front) = 1
    BY <1>1, <1>2, <1>4
  <2>2. QED
    BY <1>3, <1>4, <2>1
<1>8. QED
  BY <1>1, <1>2, <1>4, <1>5, <1>6, <1>7

LEMMA RowFrames ==
    ASSUME LogTypes, NEW n \in 1 .. Latest
    PROVE  /\ RowFrame(n) \in Frames /\ Truthful(accepted, RowFrame(n))
           /\ RowFrame(n).kind = "update" /\ RowFrame(n).seq = n
<1>1. accepted[n] \in Nat /\ n \in Nat /\ n # 0 /\ n <= Latest
  BY LogFields
<1>2. QED
  BY <1>1 DEF RowFrame, Frame, Frames, Truthful, Latest

LEMMA NewestIs ==
    ASSUME LogTypes, LogOk, NEW S \in SUBSET snapshots, S # {}
    PROVE  NewestOf(S) \in S /\ \A t \in S : t.seq <= NewestOf(S).seq
<1> DEFINE N == {s.seq : s \in S}
<1>1. N \in SUBSET (0 .. Latest) /\ N # {} /\ Latest \in Nat
  BY LogFields DEF LogOk
<1>2. PICK n \in N : \A m \in N : m <= n
  BY <1>1, GreatestMember
<1>3. \E s \in S : \A t \in S : t.seq <= s.seq
  BY <1>2
<1>4. QED
  BY <1>3 DEF NewestOf

LEMMA RecoveryIs ==
    ASSUME LogTypes, LogOk, NEW cursor \in 0 .. Latest
    PROVE  /\ Recovers(Recovery(cursor), cursor, Latest)
           /\ \A i \in 1 .. Len(Recovery(cursor)) : Truthful(accepted, Recovery(cursor)[i])
           /\ \A i \in 1 .. Len(Recovery(cursor)) : Recovery(cursor)[i].kind = "snapshot" =>
                \A n \in kept : n > Recovery(cursor)[i].seq
<1> DEFINE covered == {s \in snapshots : s.seq > cursor}
           from == IF covered = {} THEN cursor ELSE NewestOf(covered).seq
           S == {n \in kept : n > from}
           rows == Ascending(S)
           snap == Frame("snapshot", from, NewestOf(covered).state)
           head == IF covered = {} THEN <<>> ELSE <<snap>>
           ups == [i \in 1 .. Len(rows) |-> RowFrame(rows[i])]
           last == Frame("ready", Latest, {})
           R == Recovery(cursor)
<1>1. Latest \in Nat /\ cursor \in Nat /\ cursor <= Latest
  BY LogFields
<1>2. from \in cursor .. Latest /\ \A s \in snapshots : s.seq <= from
  <2>1. CASE covered = {}
    BY <1>1, <2>1, LogFields
  <2>2. CASE covered # {}
    <3>1. NewestOf(covered) \in covered /\ \A t \in covered : t.seq <= NewestOf(covered).seq
      BY <2>2, NewestIs
    <3>2. NewestOf(covered).seq > cursor /\ NewestOf(covered).seq <= Latest
          /\ NewestOf(covered).seq \in Nat
      BY <3>1, LogFields DEF LogOk
    <3>3. \A s \in snapshots : s.seq \in Nat
      BY LogFields
    <3>4. \A s \in snapshots : s.seq <= NewestOf(covered).seq
      BY <1>1, <3>1, <3>2, <3>3
    <3>5. QED
      BY <1>1, <2>2, <3>2, <3>4
  <2>3. QED
    BY <2>1, <2>2
<1>3. covered # {} => snap \in Frames /\ Truthful(accepted, snap) /\ snap.kind = "snapshot" /\ snap.seq = from
  <2> SUFFICES ASSUME covered # {}
               PROVE  snap \in Frames /\ Truthful(accepted, snap) /\ snap.kind = "snapshot" /\ snap.seq = from
    OBVIOUS
  <2>1. NewestOf(covered) \in covered
    BY NewestIs
  <2>2. NewestOf(covered).state = Firsts(accepted, from) /\ NewestOf(covered).state \in SUBSET Nat
        /\ from <= Latest /\ from \in Nat
    BY <1>1, <1>2, <2>1, LogFields DEF LogOk
  <2> HIDE DEF covered, from
  <2>3. QED
    BY <2>2 DEF Frame, Frames, Truthful, Latest
<1>4. last \in Frames /\ Truthful(accepted, last) /\ last.kind = "ready" /\ last.seq = Latest
  BY <1>1 DEF Frame, Frames, Truthful, Latest
<1>5. covered = {} => from = cursor
  OBVIOUS
<1>6. R = head \o ups \o <<last>>
  BY DEF Recovery
<1> HIDE DEF covered, from, snap, last, R
<1>7. S \in SUBSET (1 .. Latest) /\ \A k \in from + 1 .. Latest : k \in S
  <2>1. from \in Nat /\ from <= Latest
    BY <1>1, <1>2
  <2>2. ASSUME NEW k \in from + 1 .. Latest PROVE k \in kept /\ k > from
    <3>1. k \in 1 .. Latest /\ k > from /\ \A s \in snapshots : s.seq \in Nat /\ s.seq <= from
      BY <1>1, <1>2, <2>1, LogFields
    <3>2. \A s \in snapshots : k > s.seq
      BY <2>1, <3>1
    <3>3. QED
      BY <3>1, <3>2 DEF LogOk
  <2>3. kept \subseteq 1 .. Latest
    BY DEF LogOk
  <2>4. QED
    BY <2>2, <2>3
<1> HIDE DEF S
<1>8. S \in SUBSET Nat /\ IsFiniteSet(S)
  <2>1. IsFiniteSet(1 .. Latest)
    BY <1>1, FS_Interval
  <2>2. IsFiniteSet(S)
    BY <1>7, <2>1, FS_Subset
  <2>3. QED
    BY <1>1, <1>7, <2>2
<1>9. /\ Len(rows) \in Nat
      /\ \A i \in 1 .. Len(rows) : rows[i] \in S
      /\ \A i, j \in 1 .. Len(rows) : i < j => rows[i] < rows[j]
      /\ \A x \in S : \E i \in 1 .. Len(rows) : rows[i] = x
  BY <1>8, AscendingIs
<1> HIDE DEF rows
<1>10. /\ ups \in Seq(Frames) /\ Len(ups) = Len(rows)
       /\ \A i \in 1 .. Len(rows) : ups[i] = RowFrame(rows[i]) /\ rows[i] \in 1 .. Latest
  <2>1. \A i \in 1 .. Len(rows) : rows[i] \in 1 .. Latest
    BY <1>7, <1>9
  <2>2. \A i \in 1 .. Len(rows) : RowFrame(rows[i]) \in Frames
    BY <2>1, RowFrames
  <2>3. QED
    BY <1>9, <2>1, <2>2
<1>11. /\ head \in Seq(Frames) /\ Len(head) \in {0, 1}
       /\ Len(head) = 0 => from = cursor
       /\ Len(head) = 1 => head[1] = snap /\ covered # {}
  BY <1>3, <1>5
<1> DEFINE h == Len(head)  n == Len(rows)
<1> HIDE DEF ups, head
<1>12. /\ R \in Seq(Frames) /\ Len(R) = h + n + 1
       /\ \A i \in 1 .. h : R[i] = snap /\ h = 1 /\ covered # {}
       /\ \A i \in 1 .. n : R[h + i] = RowFrame(rows[i])
       /\ R[Len(R)] = last
  <2>1. /\ R \in Seq(Frames) /\ Len(R) = Len(head) + Len(ups) + 1
        /\ \A i \in 1 .. Len(head) : R[i] = head[i]
        /\ \A i \in 1 .. Len(ups) : R[Len(head) + i] = ups[i]
        /\ R[Len(R)] = last
    BY <1>4, <1>6, <1>10, <1>11, ThreeParts
  <2>2. \A i \in 1 .. Len(head) : head[i] = snap /\ Len(head) = 1 /\ covered # {}
    BY <1>11
  <2>3. QED
    BY <1>10, <2>1, <2>2
<1>13. h \in {0, 1} /\ n \in Nat
  BY <1>9, <1>11
<1> HIDE DEF h, n
<1>14. \A i \in 1 .. Len(R) : i \in 1 .. h \/ (i - h \in 1 .. n /\ i = h + (i - h)) \/ i = Len(R)
  BY <1>12, <1>13
<1>15. \A i \in 1 .. n : /\ R[h + i].kind = "update" /\ R[h + i].seq = rows[i]
                         /\ Truthful(accepted, R[h + i]) /\ h + i \in 1 .. Len(R) - 1
  <2> SUFFICES ASSUME NEW i \in 1 .. n
               PROVE  /\ R[h + i].kind = "update" /\ R[h + i].seq = rows[i]
                      /\ Truthful(accepted, R[h + i]) /\ h + i \in 1 .. Len(R) - 1
    OBVIOUS
  <2>1. h + i \in 1 .. Len(R) - 1
    BY <1>12, <1>13
  <2>2. rows[i] \in 1 .. Latest /\ R[h + i] = RowFrame(rows[i])
    BY <1>10, <1>12 DEF n
  <2>3. QED
    BY <2>1, <2>2, RowFrames
<1>16. ASSUME NEW i \in 1 .. Len(R) PROVE Truthful(accepted, R[i])
  BY <1>3, <1>4, <1>12, <1>14, <1>15
<1>17. ASSUME NEW i \in 1 .. Len(R) - 1 PROVE R[i].kind \in {"update", "snapshot"}
  <2>1. i \in 1 .. Len(R) /\ i # Len(R)
    BY <1>12, <1>13
  <2>2. QED
    BY <1>3, <1>12, <1>14, <1>15, <2>1
<1>18. ASSUME NEW k \in cursor + 1 .. from PROVE h = 1 /\ Covers(R[1], k)
  <2>1. from # cursor
    BY <1>1, <1>2
  <2>2. h = 1
    BY <1>11, <1>13, <2>1 DEF h
  <2>3. R[1] = snap /\ snap.kind = "snapshot" /\ snap.seq = from /\ k <= from
    BY <1>1, <1>2, <1>3, <1>12, <2>2
  <2>4. QED
    BY <2>2, <2>3 DEF Covers
<1>19. ASSUME NEW k \in from + 1 .. Latest
       PROVE  \E j \in 1 .. n : rows[j] = k /\ Covers(R[h + j], k)
  <2>1. PICK j \in 1 .. n : rows[j] = k
    BY <1>7, <1>9 DEF n
  <2>2. QED
    BY <1>15, <2>1 DEF Covers
<1>20. ASSUME NEW k \in cursor + 1 .. Latest
       PROVE  \E j \in 1 .. Len(R) - 1 : Covers(R[j], k)
  <2>1. CASE k \in cursor + 1 .. from
    <3>1. h = 1 /\ Covers(R[1], k) /\ 1 \in 1 .. Len(R) - 1
      BY <1>12, <1>13, <1>18, <2>1
    <3>2. QED
      BY <3>1
  <2>2. CASE k \in from + 1 .. Latest
    BY <1>15, <1>19, <2>2
  <2>3. QED
    BY <1>1, <1>2, <2>1, <2>2
<1>21. ASSUME NEW i \in 1 .. Len(R) - 1, R[i].kind = "update",
              NEW k \in cursor + 1 .. R[i].seq - 1
       PROVE  \E j \in 1 .. i - 1 : Covers(R[j], k)
  <2>1. i \in 1 .. Len(R) /\ i # Len(R) /\ i \notin 1 .. h
    BY <1>3, <1>12, <1>13, <1>21
  <2> DEFINE q == i - h
  <2>2. q \in 1 .. n /\ i = h + q
    BY <1>14, <2>1
  <2> HIDE DEF q
  <2>3. R[i].seq = rows[q] /\ rows[q] \in 1 .. Latest
    BY <1>10, <1>15, <2>2 DEF n
  <2>4. CASE k \in cursor + 1 .. from
    <3>1. h = 1 /\ Covers(R[1], k) /\ 1 \in 1 .. i - 1
      BY <1>13, <1>18, <2>2, <2>4
    <3>2. QED
      BY <3>1
  <2>5. CASE k \in from + 1 .. Latest
    <3>1. PICK j \in 1 .. n : rows[j] = k /\ Covers(R[h + j], k)
      BY <1>19, <2>5
    <3>2. rows[j] < rows[q] /\ j \in Nat /\ q \in Nat
      BY <1>1, <1>13, <2>2, <2>3, <3>1
    <3>3. ~(q < j) /\ q # j
      BY <1>9, <1>10, <2>2, <3>1, <3>2 DEF n
    <3>4. h + j \in 1 .. i - 1
      BY <1>13, <2>2, <3>1, <3>2, <3>3
    <3>5. QED
      BY <3>1, <3>4
  <2>6. QED
    BY <1>1, <1>2, <2>3, <2>4, <2>5
<1>22. Len(R) \in Nat \ {0} /\ R[Len(R)].kind = "ready" /\ R[Len(R)].seq = Latest
  BY <1>4, <1>12, <1>13
<1>23. Recovers(R, cursor, Latest)
  BY <1>12, <1>17, <1>20, <1>21, <1>22 DEF Recovers
<1>24. ASSUME NEW i \in 1 .. Len(R), R[i].kind = "snapshot", NEW x \in kept
       PROVE  x > R[i].seq
  <2>1. i \in 1 .. h
    BY <1>14, <1>15, <1>22, <1>24
  <2>2. R[i].seq = from /\ covered # {}
    BY <1>3, <1>12, <2>1
  <2>3. NewestOf(covered) \in snapshots /\ from = NewestOf(covered).seq
    BY <2>2, NewestIs DEF covered, from
  <2>4. x > from
    BY <2>3 DEF LogOk
  <2>5. QED
    BY <2>2, <2>4
<1>25. QED
  BY <1>16, <1>23, <1>24 DEF R
-----------------------------------------------------------------------------
(* What a step does to what is on the way.                                 *)

LEMMA BeforeKept ==
    ASSUME NEW n \in Nat, NEW m \in Nat, m <= n,
           NEW cursor \in Nat, NEW later \in Nat, cursor <= later,
           NEW i \in Nat, NEW k \in Nat, i <= k,
           NEW w, NEW v, \A j \in 1 .. i - 1 : v[j] = w[j],
           Before(n, w, cursor, i)
    PROVE  Before(m, v, later, k)
<1> SUFFICES ASSUME NEW x \in 1 .. m, ~(x <= later)
             PROVE  \E j \in 1 .. k - 1 : Covers(v[j], x)
  BY DEF Before
<1>1. x \in 1 .. n /\ ~(x <= cursor)
  OBVIOUS
<1>2. PICK j \in 1 .. i - 1 : Covers(w[j], x)
  BY <1>1 DEF Before
<1>3. j \in 1 .. k - 1 /\ v[j] = w[j]
  BY <1>2
<1>4. QED
  BY <1>2, <1>3

LEMMA FlowDown ==
    ASSUME NEW cursor \in Nat
    PROVE  Flow(FALSE, 0, <<>>, cursor, FALSE)
BY DEF Flow, Before

LEMMA FlowRecover ==
    ASSUME NEW cursor \in Nat, NEW latest \in Nat, NEW R, Recovers(R, cursor, latest)
    PROVE  Flow(TRUE, latest, R, cursor, FALSE)
<1>1. Len(R) \in Nat \ {0} /\ R[Len(R)].kind = "ready" /\ R[Len(R)].seq = latest
      /\ R \in Seq(Frames)
  BY DEF Recovers
<1>2. \A i \in 1 .. Len(R) : R[i].seq \in Nat
  <2>1. \A i \in 1 .. Len(R) : R[i] \in Frames
    BY <1>1
  <2>2. QED
    BY <2>1 DEF Frames
<1>3. Before(latest, R, cursor, Len(R))
  <2> SUFFICES ASSUME NEW k \in 1 .. latest, ~(k <= cursor)
               PROVE  \E j \in 1 .. Len(R) - 1 : Covers(R[j], k)
    BY DEF Before
  <2>1. k \in cursor + 1 .. latest
    OBVIOUS
  <2>2. QED
    BY <2>1 DEF Recovers
<1>4. Before(latest, R, cursor, Len(R) + 1)
  <2>1. Len(R) \in Nat /\ Len(R) + 1 \in Nat /\ Len(R) <= Len(R) + 1
        /\ latest <= latest /\ cursor <= cursor
    BY <1>1
  <2>2. \A j \in 1 .. Len(R) - 1 : R[j] = R[j]
    OBVIOUS
  <2> HIDE DEF Before
  <2>3. QED
    BY <1>3, <2>1, <2>2, BeforeKept
<1>5. ASSUME NEW i \in 1 .. Len(R), R[i].kind = "ready"
      PROVE  Before(R[i].seq, R, cursor, i)
  <2>1. i = Len(R)
    <3>1. ~(R[i].kind \in {"update", "snapshot"})
      BY <1>5
    <3>2. QED
      BY <1>1, <3>1 DEF Recovers
  <2>2. QED
    BY <1>1, <1>3, <2>1
<1>6. ASSUME NEW i \in 1 .. Len(R), R[i].kind = "update"
      PROVE  Before(R[i].seq - 1, R, cursor, i)
  <2>1. i \in 1 .. Len(R) - 1
    BY <1>1, <1>6
  <2> SUFFICES ASSUME NEW k \in 1 .. R[i].seq - 1, ~(k <= cursor)
               PROVE  \E j \in 1 .. i - 1 : Covers(R[j], k)
    BY DEF Before
  <2>2. k \in cursor + 1 .. R[i].seq - 1
    BY <1>2
  <2>3. QED
    BY <1>6, <2>1, <2>2 DEF Recovers
<1>7. \E i \in 1 .. Len(R) : R[i].kind = "ready"
  BY <1>1
<1>8. QED
  BY <1>4, <1>5, <1>6, <1>7 DEF Flow

(* A connection that is up, with more put behind what is on the way: what  *)
(* is put there brings the numbers from high to higher, and only its last  *)
(* frame may be ready.                                                     *)
LEMMA FlowMore ==
    ASSUME NEW high \in Nat, NEW higher \in Nat, NEW w \in Seq(Frames), NEW R \in Seq(Frames),
           NEW cursor \in Nat, NEW ready \in BOOLEAN,
           Flow(TRUE, high, w, cursor, ready),
           \A k \in high + 1 .. higher : \E j \in 1 .. Len(R) : Covers(R[j], k),
           \A i \in 1 .. Len(R) : R[i].kind = "ready" =>
               /\ R[i].seq <= higher
               /\ \A k \in high + 1 .. R[i].seq : \E j \in 1 .. i - 1 : Covers(R[j], k)
    PROVE  Flow(TRUE, higher, w \o R, cursor, ready)
<1> DEFINE v == w \o R  a == Len(w)  b == Len(R)
<1>1. /\ v \in Seq(Frames) /\ Len(v) = a + b /\ a \in Nat /\ b \in Nat
      /\ \A i \in 1 .. a + b : v[i] = IF i <= a THEN w[i] ELSE R[i - a]
  BY ConcatProperties, LenProperties
<1> HIDE DEF v
<1>2. \A i \in 1 .. a : i \in 1 .. a + b /\ i <= a
  BY <1>1
<1>3. \A i \in 1 .. a : v[i] = w[i]
  BY <1>1, <1>2
<1>4. ASSUME NEW j \in 1 .. b PROVE a + j \in 1 .. a + b /\ v[a + j] = R[j]
  <2> DEFINE k == a + j
  <2>1. k \in 1 .. a + b /\ ~(k <= a) /\ k - a = j
    BY <1>1
  <2> HIDE DEF k
  <2>2. v[k] = R[j]
    BY <1>1, <2>1
  <2>3. QED
    BY <2>1, <2>2 DEF k
<1>5. Before(high, w, cursor, a + 1)
  BY DEF Flow
<1>6. ASSUME NEW n \in Nat, NEW i \in 1 .. b + 1,
             \A k \in high + 1 .. n : \E j \in 1 .. i - 1 : Covers(R[j], k)
      PROVE  Before(n, v, cursor, a + i)
  <2> SUFFICES ASSUME NEW k \in 1 .. n, ~(k <= cursor)
               PROVE  \E j \in 1 .. a + i - 1 : Covers(v[j], k)
    BY DEF Before
  <2>1. CASE k <= high
    <3>1. PICK j \in 1 .. a : Covers(w[j], k)
      <4>1. k \in 1 .. high /\ (a + 1) - 1 = a
        BY <1>1, <2>1
      <4>2. QED
        BY <1>5, <4>1 DEF Before
    <3>2. j \in 1 .. a + i - 1
      BY <1>1
    <3>3. QED
      BY <1>3, <3>1, <3>2
  <2>2. CASE ~(k <= high)
    <3>1. k \in high + 1 .. n
      BY <2>2
    <3>2. PICK j \in 1 .. i - 1 : Covers(R[j], k)
      BY <1>6, <3>1
    <3>3. j \in 1 .. b /\ a + j \in 1 .. a + i - 1
      BY <1>1, <3>2
    <3>4. QED
      BY <1>4, <3>2, <3>3
  <2>3. QED
    BY <2>1, <2>2
<1>7. Before(higher, v, cursor, Len(v) + 1)
  <2>1. b + 1 \in 1 .. b + 1 /\ (b + 1) - 1 = b /\ Len(v) + 1 = a + (b + 1)
    BY <1>1
  <2>2. QED
    BY <1>6, <2>1
<1>8. ASSUME NEW i \in 1 .. Len(v), v[i].kind = "ready" PROVE Before(v[i].seq, v, cursor, i)
  <2>1. CASE i <= a
    <3>1. i \in 1 .. a /\ v[i] = w[i] /\ w[i] \in Frames
      BY <1>1, <1>3, <2>1
    <3>2. Before(w[i].seq, w, cursor, i) /\ w[i].seq \in Nat
      BY <1>8, <3>1 DEF Flow, Frames
    <3>3. \A j \in 1 .. i - 1 : v[j] = w[j]
      BY <1>1, <1>3, <3>1
    <3>4. i \in Nat /\ i <= i /\ cursor <= cursor /\ w[i].seq <= w[i].seq
      BY <3>2
    <3>5. Before(w[i].seq, v, cursor, i)
      BY <3>2, <3>3, <3>4, BeforeKept
    <3>6. QED
      BY <3>1, <3>5
  <2>2. CASE ~(i <= a)
    <3> DEFINE q == i - a
    <3>1. q \in 1 .. b /\ q \in 1 .. b + 1 /\ i = a + q
      BY <1>1, <2>2
    <3> HIDE DEF q
    <3>2. v[i] = R[q] /\ R[q] \in Frames
      BY <1>4, <3>1
    <3>3. R[q].seq \in Nat /\ R[q].kind = "ready"
      BY <1>8, <3>2 DEF Frames
    <3>4. Before(R[q].seq, v, cursor, a + q)
      BY <1>6, <3>1, <3>3
    <3>5. QED
      BY <3>1, <3>2, <3>4
  <2>3. QED
    BY <2>1, <2>2
<1>9. ASSUME ~ready
      PROVE  /\ \E i \in 1 .. Len(v) : v[i].kind = "ready"
             /\ \A i \in 1 .. Len(v) :
                  v[i].kind = "update" /\ Unready(v, i) => Before(v[i].seq - 1, v, cursor, i)
  <2>1. PICK r \in 1 .. a : w[r].kind = "ready"
    BY <1>9 DEF Flow
  <2>2. r \in 1 .. Len(v) /\ v[r].kind = "ready" /\ r \in Nat
    BY <1>1, <1>3, <2>1
  <2>3. ASSUME NEW i \in 1 .. Len(v), v[i].kind = "update", Unready(v, i)
        PROVE  Before(v[i].seq - 1, v, cursor, i)
    <3>1. ~(r \in 1 .. i - 1)
      BY <2>2, <2>3 DEF Unready
    <3>2. i \in 1 .. a /\ v[i] = w[i] /\ w[i] \in Frames
      BY <1>1, <1>3, <2>1, <2>2, <3>1
    <3>3. \A j \in 1 .. i - 1 : j \in 1 .. a /\ v[j] = w[j]
      BY <1>1, <1>3, <3>2
    <3>4. Unready(w, i)
      BY <2>3, <3>3 DEF Unready
    <3>5. Before(w[i].seq - 1, w, cursor, i)
      BY <1>9, <2>3, <3>2, <3>4 DEF Flow
    <3>6. w[i].seq \in Nat
      BY <3>2 DEF Frames
    <3>7. CASE w[i].seq = 0
      BY <3>2, <3>7 DEF Before
    <3>8. CASE w[i].seq # 0
      <4> DEFINE n == w[i].seq - 1
      <4>1. n \in Nat /\ n <= n /\ i \in Nat /\ i <= i /\ cursor <= cursor
        BY <3>6, <3>8
      <4>2. \A j \in 1 .. i - 1 : v[j] = w[j]
        BY <3>3
      <4>3. Before(n, w, cursor, i)
        BY <3>5
      <4> HIDE DEF n
      <4>4. Before(n, v, cursor, i)
        BY <4>1, <4>2, <4>3, BeforeKept
      <4>5. QED
        BY <3>2, <4>4 DEF n
    <3>9. QED
      BY <3>7, <3>8
  <2>4. QED
    BY <2>2, <2>3
<1>10. QED
  BY <1>7, <1>8, <1>9 DEF Flow, v

LEMMA FlowSend ==
    ASSUME NEW high \in Nat, NEW w \in Seq(Frames), NEW f \in Frames,
           NEW cursor \in Nat, NEW ready \in BOOLEAN,
           Flow(TRUE, high, w, cursor, ready), f.kind # "ready",
           NEW higher, higher = IF f.kind = "update" /\ f.seq = high + 1 THEN f.seq ELSE high
    PROVE  Flow(TRUE, higher, Append(w, f), cursor, ready)
<1> DEFINE R == <<f>>
<1>1. R \in Seq(Frames) /\ Len(R) = 1 /\ R[1] = f
  OBVIOUS
<1>2. f.seq \in Nat
  BY DEF Frames
<1>3. higher \in Nat
  BY <1>2
<1>4. ASSUME NEW k \in high + 1 .. higher PROVE \E j \in 1 .. Len(R) : Covers(R[j], k)
  <2>1. f.kind = "update" /\ f.seq = k
    BY <1>2
  <2>2. QED
    BY <1>1, <2>1 DEF Covers
<1>5. ~ \E i \in 1 .. Len(R) : R[i].kind = "ready"
  BY <1>1
<1>6. Append(w, f) = w \o R
  OBVIOUS
<1> HIDE DEF R
<1>7. Flow(TRUE, higher, w \o R, cursor, ready)
  BY <1>1, <1>3, <1>4, <1>5, FlowMore
<1>8. QED
  BY <1>6, <1>7

LEMMA FlowPoll ==
    ASSUME NEW high \in Nat, NEW latest \in Nat, high <= latest,
           NEW w \in Seq(Frames), NEW R, Recovers(R, high, latest),
           NEW cursor \in Nat, NEW ready \in BOOLEAN,
           Flow(TRUE, high, w, cursor, ready)
    PROVE  Flow(TRUE, latest, w \o R, cursor, ready)
<1>1. /\ R \in Seq(Frames) /\ Len(R) \in Nat \ {0}
      /\ R[Len(R)].kind = "ready" /\ R[Len(R)].seq = latest
      /\ \A i \in 1 .. Len(R) - 1 : R[i].kind \in {"update", "snapshot"}
      /\ \A k \in high + 1 .. latest : \E j \in 1 .. Len(R) - 1 : Covers(R[j], k)
  BY DEF Recovers
<1>2. \A k \in high + 1 .. latest : \E j \in 1 .. Len(R) : Covers(R[j], k)
  BY <1>1
<1>3. ASSUME NEW i \in 1 .. Len(R), R[i].kind = "ready"
      PROVE  /\ R[i].seq <= latest
             /\ \A k \in high + 1 .. R[i].seq : \E j \in 1 .. i - 1 : Covers(R[j], k)
  <2>1. i = Len(R)
    <3>1. ~(R[i].kind \in {"update", "snapshot"})
      BY <1>3
    <3>2. QED
      BY <1>1, <3>1
  <2>2. QED
    BY <1>1, <2>1
<1>4. \A i \in 1 .. Len(R) : R[i].kind = "ready" =>
               /\ R[i].seq <= latest
               /\ \A k \in high + 1 .. R[i].seq : \E j \in 1 .. i - 1 : Covers(R[j], k)
  BY <1>3
<1>5. R \in Seq(Frames)
  BY <1>1
<1>6. QED
  BY <1>2, <1>4, <1>5, FlowMore

(* The first frame on the way is read, and the cursor follows it.          *)
LEMMA FlowReceive ==
    ASSUME NEW high \in Nat, NEW w \in Seq(Frames), w # <<>>,
           NEW cursor \in Nat, NEW later \in Nat, cursor <= later,
           NEW ready \in BOOLEAN, NEW up \in BOOLEAN, NEW now \in BOOLEAN,
           Flow(up, high, w, cursor, ready),
           \A k \in Nat : Covers(w[1], k) => k <= later,
           now = (ready \/ w[1].kind = "ready")
    PROVE  Flow(up, high, Tail(w), later, now)
<1> DEFINE v == Tail(w)  n == Len(w)
<1>1. /\ v \in Seq(Frames) /\ n \in Nat /\ n # 0 /\ Len(v) \in Nat /\ Len(v) + 1 = n
      /\ \A i \in 1 .. Len(v) : v[i] = w[i + 1]
  BY HeadTailProperties, EmptySeq
<1>2. up = TRUE
  BY DEF Flow
<1> HIDE DEF v, n
<1>3. ASSUME NEW m \in Nat, NEW i \in Nat, i <= n, Before(m, w, cursor, i + 1)
      PROVE  Before(m, v, later, i)
  <2> SUFFICES ASSUME NEW k \in 1 .. m, ~(k <= later)
               PROVE  \E j \in 1 .. i - 1 : Covers(v[j], k)
    BY DEF Before
  <2>1. k \in Nat /\ ~(k <= cursor)
    OBVIOUS
  <2>2. PICK j \in 1 .. i : Covers(w[j], k)
    <3>1. (i + 1) - 1 = i
      OBVIOUS
    <3>2. QED
      BY <1>3, <2>1, <3>1 DEF Before
  <2>3. j # 1
    BY <2>1, <2>2
  <2> DEFINE q == j - 1
  <2>4. q \in 1 .. i - 1 /\ q \in 1 .. Len(v) /\ q + 1 = j
    BY <1>1, <1>3, <2>3
  <2> HIDE DEF q
  <2>5. v[q] = w[j]
    BY <1>1, <2>4
  <2>6. QED
    BY <2>2, <2>4, <2>5
<1>4. Before(high, v, later, Len(v) + 1)
  <2>1. Before(high, w, cursor, n + 1)
    BY DEF Flow, n
  <2>2. QED
    BY <1>1, <1>3, <2>1
<1>5. ASSUME NEW i \in 1 .. Len(v)
      PROVE  /\ i + 1 \in 1 .. n /\ i \in Nat /\ i <= n /\ v[i] = w[i + 1] /\ w[i + 1] \in Frames
  <2>1. i + 1 \in 1 .. n
    BY <1>1
  <2>2. w[i + 1] \in Frames
    BY <2>1 DEF n
  <2>3. QED
    BY <1>1, <2>1, <2>2
<1>6. ASSUME NEW i \in 1 .. Len(v), v[i].kind = "ready" PROVE Before(v[i].seq, v, later, i)
  <2>1. Before(w[i + 1].seq, w, cursor, i + 1) /\ w[i + 1].seq \in Nat
    <3> DEFINE k == i + 1
    <3>1. k \in 1 .. n /\ w[k] \in Frames /\ w[k].kind = "ready"
      BY <1>5, <1>6
    <3> HIDE DEF k
    <3>2. Before(w[k].seq, w, cursor, k) /\ w[k].seq \in Nat
      BY <3>1 DEF Flow, Frames, n
    <3>3. QED
      BY <3>2 DEF k
  <2>2. QED
    BY <1>3, <1>5, <2>1
<1>7. ASSUME ~now
      PROVE  /\ \E i \in 1 .. Len(v) : v[i].kind = "ready"
             /\ \A i \in 1 .. Len(v) :
                  v[i].kind = "update" /\ Unready(v, i) => Before(v[i].seq - 1, v, later, i)
  <2>1. ~ready /\ w[1].kind # "ready"
    BY <1>7
  <2>2. PICK r \in 1 .. n : w[r].kind = "ready"
    BY <1>2, <2>1 DEF Flow, n
  <2>3. r - 1 \in 1 .. Len(v) /\ v[r - 1].kind = "ready"
    <3> DEFINE q == r - 1
    <3>1. q \in 1 .. Len(v) /\ q + 1 = r
      BY <1>1, <2>1, <2>2
    <3> HIDE DEF q
    <3>2. v[q] = w[r]
      BY <1>1, <3>1
    <3>3. QED
      BY <2>2, <3>1, <3>2 DEF q
  <2>4. ASSUME NEW i \in 1 .. Len(v), v[i].kind = "update", Unready(v, i)
        PROVE  Before(v[i].seq - 1, v, later, i)
    <3> DEFINE k == i + 1
    <3>1. k \in 1 .. n /\ w[k] \in Frames /\ w[k].kind = "update" /\ v[i] = w[k]
      BY <1>5, <2>4
    <3>2. Unready(w, k)
      <4> SUFFICES ASSUME NEW j \in 1 .. k - 1 PROVE w[j].kind # "ready"
        BY DEF Unready
      <4>1. CASE j = 1
        BY <2>1, <4>1
      <4>2. CASE j # 1
        <5> DEFINE q == j - 1
        <5>1. q \in 1 .. i - 1 /\ q \in 1 .. Len(v) /\ q + 1 = j
          BY <4>2
        <5> HIDE DEF q
        <5>2. v[q] = w[j] /\ v[q].kind # "ready"
          BY <1>1, <2>4, <5>1 DEF Unready
        <5>3. QED
          BY <5>2
      <4>3. QED
        BY <4>1, <4>2
    <3> HIDE DEF k
    <3>3. Before(w[k].seq - 1, w, cursor, k) /\ w[k].seq \in Nat
      BY <2>1, <3>1, <3>2 DEF Flow, Frames, n
    <3> DEFINE m == w[k].seq - 1
    <3>4. CASE w[k].seq = 0
      BY <3>1, <3>4 DEF Before
    <3>5. CASE w[k].seq # 0
      <4>1. m \in Nat /\ Before(m, w, cursor, i + 1)
        BY <3>3, <3>5 DEF k
      <4> HIDE DEF m
      <4>2. Before(m, v, later, i)
        BY <1>3, <1>5, <4>1
      <4>3. QED
        BY <3>1, <4>2 DEF m
    <3>6. QED
      BY <3>3, <3>4, <3>5
  <2>5. QED
    BY <2>3, <2>4
<1>8. QED
  BY <1>2, <1>4, <1>6, <1>7 DEF Flow, v

(* Nothing comes before the first frame: a ready frame brings nothing new, *)
(* and an update before the first ready frame is the next one or older.    *)
LEMMA HeadFollows ==
    ASSUME NEW high \in Nat, NEW w \in Seq(Frames), w # <<>>,
           NEW cursor \in Nat, NEW ready \in BOOLEAN, NEW up \in BOOLEAN,
           Flow(up, high, w, cursor, ready)
    PROVE  /\ w[1] \in Frames /\ Head(w) = w[1] /\ 1 \in 1 .. Len(w) /\ up
           /\ w[1].kind = "ready" => w[1].seq <= cursor
           /\ w[1].kind = "update" /\ ~ready => w[1].seq <= cursor + 1
<1>1. 1 \in 1 .. Len(w) /\ w[1] \in Frames /\ Head(w) = w[1]
  BY HeadTailProperties, EmptySeq
<1>2. w[1].seq \in Nat
  BY <1>1 DEF Frames
<1>3. up
  BY DEF Flow
<1>4. ASSUME w[1].kind = "ready" PROVE w[1].seq <= cursor
  <2>1. Before(w[1].seq, w, cursor, 1)
    BY <1>1, <1>4 DEF Flow
  <2>2. \A k \in 1 .. w[1].seq : k <= cursor
    BY <2>1 DEF Before
  <2>3. QED
    BY <1>2, <2>2
<1>5. ASSUME w[1].kind = "update", ~ready PROVE w[1].seq <= cursor + 1
  <2>1. Unready(w, 1)
    BY DEF Unready
  <2>2. Before(w[1].seq - 1, w, cursor, 1)
    BY <1>1, <1>5, <2>1 DEF Flow
  <2> DEFINE n == w[1].seq - 1
  <2>3. \A k \in 1 .. n : k <= cursor
    BY <2>2 DEF Before
  <2>4. w[1].seq = n + 1 /\ (n \in Nat \/ n = -1)
    BY <1>2
  <2> HIDE DEF n
  <2>5. n <= cursor
    <3>1. CASE n \in 1 .. n
      BY <2>3, <3>1
    <3>2. CASE n \notin 1 .. n
      BY <2>4, <3>2
    <3>3. QED
      BY <3>1, <3>2
  <2>6. QED
    BY <2>4, <2>5
<1>6. QED
  BY <1>1, <1>3, <1>4, <1>5

-----------------------------------------------------------------------------
(* The log grows, and what was said of it stays so.                        *)

Extends(more, log) ==
    Len(log) <= Len(more) /\ \A i \in 1 .. Len(log) : more[i] = log[i]

LEMMA FirstsKept ==
    ASSUME NEW log \in Seq(Nat), NEW more \in Seq(Nat), Extends(more, log),
           NEW n \in Nat, n <= Len(log)
    PROVE  Firsts(more, n) = Firsts(log, n)
<1>1. \A i \in 1 .. n : i \in 1 .. Len(log)
  OBVIOUS
<1>2. \A i \in 1 .. n : more[i] = log[i]
  BY <1>1 DEF Extends
<1>3. QED
  BY <1>2 DEF Firsts

LEMMA SaidKept ==
    ASSUME NEW log \in Seq(Nat), NEW more \in Seq(Nat), Extends(more, log),
           NEW made \in Nat, NEW later \in Nat, made <= later
    PROVE  /\ \A f \in Frames : Truthful(log, f) => Truthful(more, f)
           /\ \A f \in Frames : Broadcasted(log, f) => Broadcasted(more, f)
           /\ \A m \in Messages : Sound(log, made, m) => Sound(more, later, m)
           /\ \A r \in Memories : RecordOk(log, made, r) => RecordOk(more, later, r)
           /\ \A r \in Records : RecordOk(log, made, r) => RecordOk(more, later, r)
           /\ \A r \in Requests : Requested(log, made, r) => Requested(more, later, r)
<1>1. \A n \in Nat : n <= Len(log) => Firsts(more, n) = Firsts(log, n)
  BY FirstsKept
<1>2. Len(log) \in Nat /\ Len(more) \in Nat /\ Len(log) <= Len(more)
      /\ \A i \in 1 .. Len(log) : more[i] = log[i]
  BY DEF Extends
<1>3. \A x \in 1 .. made : x \in 1 .. later
  OBVIOUS
<1>4. ASSUME NEW f \in Frames, Truthful(log, f) PROVE Truthful(more, f)
  <2>1. f.seq \in Nat /\ f.seq <= Len(log)
    BY <1>4 DEF Frames, Truthful
  <2>2. f.kind = "update" => more[f.seq] = log[f.seq]
    <3>1. f.kind = "update" => f.seq \in 1 .. Len(log)
      BY <1>4, <2>1 DEF Truthful
    <3>2. QED
      BY <1>2, <3>1
  <2>3. Firsts(more, f.seq) = Firsts(log, f.seq)
    BY <1>1, <2>1
  <2>4. QED
    BY <1>2, <1>4, <2>1, <2>2, <2>3 DEF Truthful
<1>5. \A f \in Frames : Broadcasted(log, f) => Broadcasted(more, f)
  BY <1>4 DEF Broadcasted
<1>6. ASSUME NEW m \in Messages, Sound(log, made, m) PROVE Sound(more, later, m)
  <2>1. m.seq \in Nat
    BY DEF Messages
  <2>2. QED
    BY <1>1, <1>2, <1>3, <1>6, <2>1 DEF Sound
<1>7. ASSUME NEW r, r.cursor \in Nat, RecordOk(log, made, r) PROVE RecordOk(more, later, r)
  <2>1. r.cursor <= Len(log) /\ r.pending \subseteq 1 .. made
    BY <1>7 DEF RecordOk
  <2>2. r.cursor <= Len(more) /\ r.pending \subseteq 1 .. later
    BY <1>2, <1>3, <1>7, <2>1
  <2>3. Firsts(more, r.cursor) = Firsts(log, r.cursor)
    BY <1>1, <1>7, <2>1
  <2>4. QED
    BY <1>7, <2>2, <2>3 DEF RecordOk
<1>8. ASSUME NEW r \in Requests, Requested(log, made, r) PROVE Requested(more, later, r)
  <2>1. r.seq \in Nat
    BY DEF Requests
  <2>2. QED
    BY <1>1, <1>2, <1>3, <1>8, <2>1 DEF Requested
<1>9. \A r : r \in Memories \/ r \in Records => r.cursor \in Nat
  BY DEF Memories, Records
<1>10. QED
  BY <1>4, <1>5, <1>6, <1>7, <1>8, <1>9

(* An update accepted is the known row's, or the next.                     *)
LEMMA AcceptIs ==
    ASSUME LogTypes, LogOk, NEW u \in 1 .. born, Accept(u), UNCHANGED <<snapshots, born>>
    PROVE  /\ accepted' \in Seq(Nat) /\ kept' \in SUBSET Nat
           /\ LogOk' /\ Extends(accepted', accepted)
           /\ SequenceOf(u) \in 1 .. Len(accepted') /\ SequenceOf(u) <= Latest + 1
           /\ accepted'[SequenceOf(u)] = u
<1> DEFINE q == SequenceOf(u)
<1>1. Latest \in Nat /\ born \in Nat /\ u \in Nat /\ accepted \in Seq(Nat)
      /\ Latest = Len(accepted)
  BY LogFields DEF LogTypes, Latest
<1>2. CASE RowsOf(u) # {}
  <2>1. accepted' = accepted /\ kept' = kept
    BY <1>2 DEF Accept
  <2>2. q \in RowsOf(u)
    BY <1>2 DEF SequenceOf
  <2>3. q \in 1 .. Latest /\ accepted[q] = u
    BY <2>2 DEF RowsOf, LogOk
  <2>4. LogOk'
    BY <2>1 DEF LogOk, Latest
  <2>5. Extends(accepted', accepted)
    BY <1>1, <2>1 DEF Extends
  <2>6. QED
    BY <1>1, <2>1, <2>3, <2>4, <2>5 DEF LogTypes
<1>3. CASE RowsOf(u) = {}
  <2>1. accepted' = Append(accepted, u) /\ kept' = kept \cup {Latest + 1} /\ q = Latest + 1
    BY <1>3 DEF Accept, SequenceOf
  <2>2. /\ accepted' \in Seq(Nat) /\ Len(accepted') = Latest + 1
        /\ \A i \in 1 .. Latest : accepted'[i] = accepted[i]
        /\ accepted'[Latest + 1] = u
    BY <1>1, <2>1, AppendProperties
  <2>3. Extends(accepted', accepted)
    BY <1>1, <2>2 DEF Extends
  <2>4. \A n \in 1 .. Latest' : accepted'[n] \in 1 .. born'
    <3>1. \A n \in 1 .. Latest' : n \in 1 .. Latest \/ n = Latest + 1
      BY <1>1, <2>2 DEF Latest
    <3>2. QED
      BY <2>2, <3>1 DEF LogOk
  <2>5. \A s \in snapshots : s.seq \in Nat /\ s.seq <= Latest
    BY LogFields DEF LogOk
  <2>6. \A s \in snapshots' : s.seq <= Latest' /\ s.state = Firsts(accepted', s.seq)
    <3> SUFFICES ASSUME NEW s \in snapshots
                 PROVE  s.seq <= Latest' /\ s.state = Firsts(accepted', s.seq)
      OBVIOUS
    <3>1. Firsts(accepted', s.seq) = Firsts(accepted, s.seq)
      BY <1>1, <2>2, <2>3, <2>5, FirstsKept
    <3>2. QED
      BY <1>1, <2>2, <2>5, <3>1 DEF LogOk, Latest
  <2>7. kept' = {n \in 1 .. Latest' : \A s \in snapshots' : n > s.seq}
    <3>1. \A s \in snapshots : Latest + 1 > s.seq
      BY <1>1, <2>5
    <3>2. 1 .. Latest' = (1 .. Latest) \cup {Latest + 1}
      BY <1>1, <2>2 DEF Latest
    <3>3. Latest + 1 \notin 1 .. Latest
      BY <1>1
    <3>4. kept = {n \in 1 .. Latest : \A s \in snapshots : n > s.seq}
      BY DEF LogOk
    <3>5. QED
      BY <2>1, <3>1, <3>2, <3>3, <3>4
  <2>8. LogOk'
    BY <2>4, <2>6, <2>7 DEF LogOk
  <2>9. kept' \in SUBSET Nat
    <3>1. kept \in SUBSET Nat /\ Latest + 1 \in Nat
      BY <1>1 DEF LogTypes
    <3>2. QED
      BY <2>1, <3>1
  <2>10. q \in 1 .. Len(accepted') /\ q <= Latest + 1 /\ accepted'[q] = u
    BY <1>1, <2>1, <2>2
  <2>11. QED
    BY <2>2, <2>3, <2>8, <2>9, <2>10
<1>4. QED
  BY <1>2, <1>3

-----------------------------------------------------------------------------
(* Steps that leave the log alone.                                         *)

LEMMA Made ==
    ASSUME LogTypes
    PROVE  /\ born \in Nat /\ MaxUpdates \in Nat /\ born <= MaxUpdates
           /\ accepted \in Seq(Nat) /\ Latest = Len(accepted) /\ Latest \in Nat
BY CollaborationAssumption DEF LogTypes, Latest

LEMMA LogSame ==
    ASSUME LogTypes, LogOk, HttpOk, UNCHANGED server, born' \in born .. MaxUpdates
    PROVE  LogTypes' /\ LogOk' /\ HttpOk' /\ accepted' = accepted /\ Latest' = Latest
<1>1. /\ accepted' = accepted /\ kept' = kept /\ snapshots' = snapshots
      /\ merges' = merges /\ published' = published
  BY DEF server
<1>2. Latest' = Latest
  BY <1>1 DEF Latest
<1>3. born \in Nat /\ MaxUpdates \in Nat /\ Latest \in Nat
  BY Made
<1>4. LogTypes'
  BY <1>1, <1>3 DEF LogTypes
<1>5. \A n \in 1 .. Latest : accepted[n] \in 1 .. born'
  BY <1>3 DEF LogOk
<1>6. LogOk'
  BY <1>1, <1>2, <1>5 DEF LogOk
<1>7. HttpOk'
  BY <1>1, <1>2 DEF HttpOk
<1>8. QED
  BY <1>1, <1>2, <1>4, <1>6, <1>7

LEMMA WireSame ==
    ASSUME NEW d, WireOk(d), accepted' = accepted,
           Connected(d)' = Connected(d), written'[d] = written[d], wire'[d] = wire[d],
           client'[d].cursor = client[d].cursor, client'[d].ready = client[d].ready,
           client'[d].mode = client[d].mode
    PROVE  WireOk(d)'
BY DEF WireOk, FlowOk, Listens

LEMMA WiresSame ==
    ASSUME WiresOk, accepted' = accepted, UNCHANGED <<conn, written, wire>>,
           \A d \in Clients : /\ client'[d].cursor = client[d].cursor
                              /\ client'[d].ready = client[d].ready
                              /\ client'[d].mode = client[d].mode
    PROVE  WiresOk'
<1> SUFFICES ASSUME NEW d \in Clients PROVE WireOk(d)'
  BY DEF WiresOk
<1>1. WireOk(d) /\ Connected(d)' = Connected(d)
  BY DEF WiresOk, Connected
<1>2. QED
  BY <1>1, WireSame

LEMMA UplinkSame ==
    ASSUME LinkTypes, UplinkOk, LogTypes, UNCHANGED <<accepted, uplink>>, born' \in Nat, born <= born'
    PROVE  UplinkOk'
<1> SUFFICES ASSUME NEW d \in Clients, NEW i \in 1 .. Len(uplink[d])
             PROVE  Sound(accepted, born', uplink[d][i])
  BY DEF UplinkOk
<1>1. Sound(accepted, born, uplink[d][i]) /\ uplink[d] \in Seq(Messages)
  BY DEF UplinkOk, LinkTypes
<1>2. uplink[d][i] \in Messages
  BY <1>1
<1>3. Extends(accepted, accepted) /\ accepted \in Seq(Nat) /\ born \in Nat
  BY Made DEF Extends
<1>4. QED
  BY <1>1, <1>2, <1>3, SaidKept

LEMMA CutIs ==
    ASSUME NEW c \in Clients, LinkTypes, UplinkOk, Cut(c), UNCHANGED <<accepted, born>>
    PROVE  uplink' \in [Clients -> Seq(Messages)] /\ UplinkOk'
<1>1. PICK n \in 0 .. Len(uplink[c]) : uplink' = [uplink EXCEPT ![c] = SubSeq(@, 1, n)]
  BY DEF Cut
<1> DEFINE u == uplink[c]  v == SubSeq(u, 1, n)
<1>2. u \in Seq(Messages) /\ uplink \in [Clients -> Seq(Messages)]
  BY DEF LinkTypes
<1>3. v \in Seq(Messages) /\ Len(v) = n /\ \A i \in 1 .. n : v[i] = u[i] /\ i \in 1 .. Len(u)
  BY <1>2, SubSeqProperties
<1> HIDE DEF v
<1>4. uplink' = [uplink EXCEPT ![c] = v]
  BY <1>1 DEF v
<1>5. uplink' \in [Clients -> Seq(Messages)]
  BY <1>2, <1>3, <1>4
<1>6. ASSUME NEW d \in Clients, NEW i \in 1 .. Len(uplink'[d])
      PROVE  Sound(accepted, born, uplink'[d][i])
  <2>1. CASE d = c
    <3>1. uplink'[d] = v
      BY <1>2, <1>4, <2>1
    <3>2. Sound(accepted, born, u[i])
      BY <1>3, <1>6, <3>1 DEF UplinkOk
    <3>3. QED
      BY <1>3, <1>6, <3>1, <3>2
  <2>2. CASE d # c
    BY <1>2, <1>4, <1>6, <2>2 DEF UplinkOk
  <2>3. QED
    BY <2>1, <2>2
<1>7. QED
  BY <1>5, <1>6 DEF UplinkOk

(* A connection ends: nothing of it is left but a part of what the client  *)
(* sent, and the client waits for the next.                                *)
LEMMA ClosedKeeps ==
    ASSUME IInv, NEW c \in Clients, Close(c, "down"), Cut(c),
           NEW k, k \in Memories, ~Listens(k), RecordOk(accepted, born, k),
           client' = [client EXCEPT ![c] = k],
           request' = request \/ request' = [request EXCEPT ![c] = NoRequest],
           UNCHANGED <<server, unsent, stored, born>>
    PROVE  IInv'
<1>1. LogTypes /\ LinkTypes /\ ClientTypes /\ LogOk /\ HubOk /\ UplinkOk /\ ClientsOk /\ HttpOk
      /\ WiresOk
  BY DEF IInv
<1>2. born \in Nat /\ born <= MaxUpdates /\ born' = born
  BY <1>1, Made
<1>3. born' \in born .. MaxUpdates
  BY <1>1, <1>2, Made
<1>4. LogTypes' /\ LogOk' /\ HttpOk' /\ accepted' = accepted
  BY <1>1, <1>3, LogSame
<1>5. uplink' \in [Clients -> Seq(Messages)] /\ UplinkOk'
  BY <1>1, <1>2, <1>4, CutIs
<1>6. /\ conn' = [conn EXCEPT ![c] = "down"] /\ queue' = [queue EXCEPT ![c] = <<>>]
      /\ wire' = [wire EXCEPT ![c] = <<>>] /\ written' = [written EXCEPT ![c] = 0]
  BY DEF Close
<1>7. LinkTypes'
  <2>1. <<>> \in Seq(Frames) /\ 0 \in Nat
    OBVIOUS
  <2>2. QED
    BY <1>1, <1>5, <1>6, <2>1 DEF LinkTypes
<1>8. NoRequest \in Requests /\ Requested(accepted, born, NoRequest)
  <2>1. 0 \in Nat /\ {} \in SUBSET Nat /\ Len(accepted) \in Nat /\ 0 <= Len(accepted)
    BY <1>1, Made
  <2>2. QED
    BY <2>1 DEF NoRequest, Requests, Requested
<1>9. ClientTypes'
  BY <1>1, <1>8 DEF ClientTypes
<1>10. HubOk'
  <2>1. Len(<<>>) = 0 /\ 0 <= Buffer
    BY CollaborationAssumption
  <2>2. queue \in [Clients -> Seq(Frames)]
    BY <1>1 DEF LinkTypes
  <2>3. \A d \in Clients : queue'[d] = queue[d] \/ queue'[d] = <<>>
    BY <1>6, <2>2
  <2>4. \A d \in Clients : /\ Len(queue'[d]) <= Buffer
                           /\ \A i \in 1 .. Len(queue'[d]) : Broadcasted(accepted, queue'[d][i])
    BY <1>1, <2>1, <2>3 DEF HubOk
  <2>5. QED
    BY <1>1, <1>4, <2>4 DEF HubOk
<1>11. ClientsOk'
  <2> SUFFICES ASSUME NEW d \in Clients
               PROVE  /\ RecordOk(accepted, born, client'[d]) /\ RecordOk(accepted, born, stored[d])
                      /\ Requested(accepted, born, request'[d])
    BY <1>2, <1>4 DEF ClientsOk
  <2>1. client'[d] = client[d] \/ client'[d] = k
    BY <1>1 DEF ClientTypes
  <2>2. request'[d] = request[d] \/ request'[d] = NoRequest
    BY <1>1 DEF ClientTypes
  <2>3. QED
    BY <1>1, <1>8, <2>1, <2>2 DEF ClientsOk
<1>12. WiresOk'
  <2> SUFFICES ASSUME NEW d \in Clients PROVE WireOk(d)'
    BY DEF WiresOk
  <2>1. CASE d = c
    <3>1. conn'[c] = "down" /\ wire'[c] = <<>> /\ written'[c] = 0 /\ client'[c] = k
      BY <1>1, <1>6 DEF LinkTypes, ClientTypes
    <3>2. k.cursor \in Nat /\ Listens(k) = FALSE
      BY DEF Memories, Listens
    <3>3. Connected(c)' = FALSE
      BY <3>1 DEF Connected
    <3>4. Flow(FALSE, 0, <<>>, k.cursor, FALSE)
      BY <3>2, FlowDown
    <3>5. FlowOk(c)'
      BY <3>1, <3>2, <3>3, <3>4 DEF FlowOk
    <3>6. \A i \in 1 .. Len(wire'[c]) : Truthful(accepted', wire'[c][i])
      BY <3>1
    <3>7. QED
      BY <2>1, <3>5, <3>6 DEF WireOk
  <2>2. CASE d # c
    <3>1. /\ conn'[d] = conn[d] /\ wire'[d] = wire[d] /\ written'[d] = written[d]
          /\ client'[d] = client[d] /\ WireOk(d)
      BY <1>1, <1>6, <2>2 DEF LinkTypes, ClientTypes, WiresOk
    <3>2. Connected(d)' = Connected(d)
      BY <3>1 DEF Connected
    <3>3. QED
      BY <1>4, <3>1, <3>2, WireSame
  <2>3. QED
    BY <2>1, <2>2
<1>13. QED
  BY <1>4, <1>5, <1>7, <1>9, <1>10, <1>11, <1>12 DEF IInv

LEMMA Parts ==
    ASSUME IInv
    PROVE  /\ LogTypes /\ LinkTypes /\ ClientTypes
           /\ LogOk /\ HubOk /\ UplinkOk /\ ClientsOk /\ HttpOk /\ WiresOk
BY DEF IInv

LEMMA OfflineIs ==
    ASSUME ClientTypes, ClientsOk, NEW c \in Clients
    PROVE  /\ Offline(c) \in Memories /\ ~Listens(Offline(c)) /\ RecordOk(accepted, born, Offline(c))
           /\ Booted(stored[c]) \in Memories /\ ~Listens(Booted(stored[c]))
           /\ RecordOk(accepted, born, Booted(stored[c]))
<1>1. client[c] \in Memories /\ stored[c] \in Records
      /\ RecordOk(accepted, born, client[c]) /\ RecordOk(accepted, born, stored[c])
  BY DEF ClientTypes, ClientsOk
<1>2. Offline(c) \in Memories /\ ~Listens(Offline(c)) /\ RecordOk(accepted, born, Offline(c))
  BY <1>1 DEF Offline, Memories, RecordOk, Listens
<1>3. Booted(stored[c]) \in Memories /\ ~Listens(Booted(stored[c]))
      /\ RecordOk(accepted, born, Booted(stored[c]))
  BY <1>1 DEF Booted, Memories, Records, RecordOk, Listens
<1>4. QED
  BY <1>2, <1>3

LEMMA LoseConnectionKeeps ==
    ASSUME IInv, NEW c \in Clients, LoseConnection(c) PROVE IInv'
<1> DEFINE k == Offline(c)
<1>1. k \in Memories /\ ~Listens(k) /\ RecordOk(accepted, born, k)
  BY Parts, OfflineIs
<1>2. Close(c, "down") /\ Cut(c) /\ client' = [client EXCEPT ![c] = k]
  BY DEF LoseConnection
<1>3. request' = request /\ UNCHANGED <<server, unsent, stored, born>>
  BY DEF LoseConnection
<1> HIDE DEF k
<1>4. QED
  BY <1>1, <1>2, <1>3, ClosedKeeps

LEMMA HangupKeeps ==
    ASSUME IInv, NEW c \in Clients, Hangup(c) PROVE IInv'
<1> DEFINE k == Offline(c)
<1>1. k \in Memories /\ ~Listens(k) /\ RecordOk(accepted, born, k)
  BY Parts, OfflineIs
<1>2. Close(c, "down") /\ Cut(c) /\ client' = [client EXCEPT ![c] = k]
  BY DEF Hangup
<1>3. request' = request /\ UNCHANGED <<server, unsent, stored, born>>
  BY DEF Hangup, counters
<1> HIDE DEF k
<1>4. QED
  BY <1>1, <1>2, <1>3, ClosedKeeps

LEMMA ReopenKeeps ==
    ASSUME IInv, NEW c \in Clients, Reopen(c) PROVE IInv'
<1> DEFINE k == Booted(stored[c])
<1>1. k \in Memories /\ ~Listens(k) /\ RecordOk(accepted, born, k)
  BY Parts, OfflineIs
<1>2. Close(c, "down") /\ Cut(c) /\ client' = [client EXCEPT ![c] = k]
  BY DEF Reopen
<1>3. request' = [request EXCEPT ![c] = NoRequest] /\ UNCHANGED <<server, unsent, stored, born>>
  BY DEF Reopen
<1> HIDE DEF k
<1>4. QED
  BY <1>1, <1>2, <1>3, ClosedKeeps

LEMMA Unmoved ==
    ASSUME IInv, UNCHANGED <<server, unsent, links, client, stored, request, born>>
    PROVE  IInv'
<1>1. accepted' = accepted /\ kept' = kept /\ snapshots' = snapshots
      /\ merges' = merges /\ published' = published /\ born' = born /\ unsent' = unsent
      /\ conn' = conn /\ queue' = queue /\ written' = written /\ wire' = wire /\ uplink' = uplink
      /\ client' = client /\ stored' = stored /\ request' = request
  BY DEF server, links
<1>2. Latest' = Latest
  BY <1>1 DEF Latest
<1>3. LogTypes' /\ LinkTypes' /\ ClientTypes'
  BY <1>1, Parts DEF LogTypes, LinkTypes, ClientTypes
<1>4. LogOk' /\ HttpOk'
  BY <1>1, <1>2, Parts DEF LogOk, HttpOk
<1>5. HubOk' /\ UplinkOk' /\ ClientsOk'
  BY <1>1, Parts DEF HubOk, UplinkOk, ClientsOk
<1>6. WiresOk'
  BY <1>1, Parts, WiresSame
<1>7. QED
  BY <1>3, <1>4, <1>5, <1>6 DEF IInv

-----------------------------------------------------------------------------
(* The hub and the connections.                                            *)

LEMMA JoinKeeps ==
    ASSUME IInv, NEW c \in Clients, Join(c) PROVE IInv'
<1>1. /\ conn[c] = "down" /\ conn' = [conn EXCEPT ![c] = "joined"]
      /\ UNCHANGED <<server, unsent, queue, written, wire, uplink, client, stored, request, born>>
  BY DEF Join, counters
<1>2. LogTypes' /\ LogOk' /\ HttpOk' /\ accepted' = accepted
  <2>1. born' \in born .. MaxUpdates
    BY <1>1, Parts, Made
  <2>2. QED
    BY <1>1, <2>1, Parts, LogSame
<1>3. LinkTypes'
  BY <1>1, Parts DEF LinkTypes
<1>4. ClientTypes' /\ HubOk' /\ UplinkOk' /\ ClientsOk'
  BY <1>1, <1>2, Parts DEF ClientTypes, HubOk, UplinkOk, ClientsOk
<1>5. WiresOk'
  <2> SUFFICES ASSUME NEW d \in Clients PROVE WireOk(d)'
    BY DEF WiresOk
  <2>1. Connected(d)' = Connected(d)
    BY <1>1, Parts DEF Connected, LinkTypes
  <2>2. WireOk(d)
    BY Parts DEF WiresOk
  <2>3. QED
    BY <1>1, <1>2, <2>1, <2>2, WireSame
<1>6. QED
  BY <1>2, <1>3, <1>4, <1>5 DEF IInv

LEMMA RecoverKeeps ==
    ASSUME IInv, NEW c \in Clients, Recover(c) PROVE IInv'
<1> DEFINE R == Recovery(client[c].cursor)  as == IF conn[c] = "joined" THEN "open" ELSE "closing"
           cursor == client[c].cursor
<1>1. /\ conn[c] \in {"joined", "lapsed"} /\ conn' = [conn EXCEPT ![c] = as]
      /\ wire' = [wire EXCEPT ![c] = R] /\ written' = [written EXCEPT ![c] = Latest]
      /\ UNCHANGED <<server, unsent, queue, uplink, client, stored, request, born>>
  BY DEF Recover, counters
<1>2. LogTypes' /\ LogOk' /\ HttpOk' /\ accepted' = accepted
  <2>1. born' \in born .. MaxUpdates
    BY <1>1, Parts, Made
  <2>2. QED
    BY <1>1, <2>1, Parts, LogSame
<1>3. cursor \in 0 .. Latest /\ cursor \in Nat /\ Latest \in Nat /\ client[c] \in Memories
  <2>1. client[c] \in Memories /\ client[c].cursor <= Len(accepted)
    BY Parts DEF ClientTypes, ClientsOk, RecordOk
  <2>2. client[c].cursor \in Nat
    BY <2>1 DEF Memories
  <2>3. QED
    BY <2>1, <2>2, Parts, Made
<1> HIDE DEF R, as, cursor
<1>4. Recovers(R, cursor, Latest) /\ R \in Seq(Frames)
      /\ \A i \in 1 .. Len(R) : Truthful(accepted, R[i])
  <2>1. Recovers(R, cursor, Latest) /\ \A i \in 1 .. Len(R) : Truthful(accepted, R[i])
    BY <1>3, Parts, RecoveryIs DEF R, cursor
  <2>2. QED
    BY <2>1 DEF Recovers
<1>5. as \in {"open", "closing"}
  BY DEF as
<1>6. LinkTypes'
  BY <1>1, <1>3, <1>4, <1>5, Parts DEF LinkTypes
<1>7. ClientTypes' /\ HubOk' /\ UplinkOk' /\ ClientsOk'
  BY <1>1, <1>2, Parts DEF ClientTypes, HubOk, UplinkOk, ClientsOk
<1>8. WiresOk'
  <2> SUFFICES ASSUME NEW d \in Clients PROVE WireOk(d)'
    BY DEF WiresOk
  <2>0. WireOk(d)
    BY Parts DEF WiresOk
  <2>1. CASE d = c
    <3>1. conn'[c] = as /\ wire'[c] = R /\ written'[c] = Latest /\ client'[c] = client[c]
      BY <1>1, Parts DEF LinkTypes
    <3>2. ~Connected(c)
      BY <1>1 DEF Connected
    <3>3. client[c].mode # "deaf" => Listens(client[c]) = FALSE
      <4>1. client[c].mode # "deaf" => ~Listens(client[c])
        BY <2>0, <2>1, <3>2 DEF WireOk, FlowOk, Flow
      <4>2. Listens(client[c]) \in BOOLEAN
        BY DEF Listens
      <4>3. QED
        BY <4>1, <4>2
    <3>4. Connected(c)' = TRUE
      BY <1>5, <3>1 DEF Connected
    <3>5. Flow(TRUE, Latest, R, cursor, FALSE)
      BY <1>3, <1>4, FlowRecover
    <3>6. FlowOk(c)'
      BY <3>1, <3>3, <3>4, <3>5 DEF FlowOk, cursor
    <3>7. QED
      BY <1>2, <1>4, <2>1, <3>1, <3>6 DEF WireOk
  <2>2. CASE d # c
    <3>1. conn'[d] = conn[d] /\ wire'[d] = wire[d] /\ written'[d] = written[d]
      BY <1>1, <2>2, Parts DEF LinkTypes
    <3>2. Connected(d)' = Connected(d)
      BY <3>1 DEF Connected
    <3>3. QED
      BY <1>1, <1>2, <2>0, <3>1, <3>2, WireSame
  <2>3. QED
    BY <2>1, <2>2
<1>9. QED
  BY <1>2, <1>6, <1>7, <1>8 DEF IInv

LEMMA ForwardKeeps ==
    ASSUME IInv, NEW c \in Clients, Forward(c) PROVE IInv'
<1> DEFINE q == queue[c]  f == Head(queue[c])
           high == IF f.kind = "update" THEN Advance(c, f) ELSE written[c]
<1>1. /\ Connected(c) /\ q # <<>>
      /\ wire' = [wire EXCEPT ![c] = Append(@, f)] /\ queue' = [queue EXCEPT ![c] = Tail(@)]
      /\ written' = [written EXCEPT ![c] = high]
      /\ UNCHANGED <<server, unsent, conn, uplink, client, stored, request, born>>
  BY DEF Forward, counters
<1>2. LogTypes' /\ LogOk' /\ HttpOk' /\ accepted' = accepted
  <2>1. born' \in born .. MaxUpdates
    BY <1>1, Parts, Made
  <2>2. QED
    BY <1>1, <2>1, Parts, LogSame
<1>3. /\ q \in Seq(Frames) /\ wire[c] \in Seq(Frames) /\ written[c] \in Nat
      /\ client[c] \in Memories
  BY Parts DEF LinkTypes, ClientTypes
<1>4. /\ 1 \in 1 .. Len(q) /\ f = q[1] /\ f \in Frames /\ Tail(q) \in Seq(Frames)
      /\ Len(Tail(q)) = Len(q) - 1 /\ Len(q) \in Nat
      /\ \A i \in 1 .. Len(Tail(q)) : Tail(q)[i] = q[i + 1] /\ i + 1 \in 1 .. Len(q)
  BY <1>1, <1>3, HeadTailProperties, EmptySeq
<1>5. Broadcasted(accepted, f) /\ Truthful(accepted, f) /\ f.kind # "ready" /\ f.seq \in Nat
  <2>1. Broadcasted(accepted, f)
    BY <1>4, Parts DEF HubOk
  <2>2. f.seq \in Nat
    BY <1>4 DEF Frames
  <2>3. QED
    BY <2>1, <2>2 DEF Broadcasted
<1>6. /\ high \in Nat
      /\ high = IF f.kind = "update" /\ f.seq = written[c] + 1 THEN f.seq ELSE written[c]
  BY <1>3, <1>5 DEF Advance
<1> DEFINE t == Tail(q)  v == Append(wire[c], f)
<1>7. /\ v \in Seq(Frames) /\ Len(v) = Len(wire[c]) + 1 /\ Len(wire[c]) \in Nat
      /\ \A i \in 1 .. Len(wire[c]) : v[i] = wire[c][i]
      /\ v[Len(wire[c]) + 1] = f
  BY <1>3, <1>4, AppendProperties
<1>8. wire' = [wire EXCEPT ![c] = v] /\ queue' = [queue EXCEPT ![c] = t]
  BY <1>1
<1> HIDE DEF high, f, t, v
<1>9. LinkTypes'
  <2>1. t \in Seq(Frames)
    BY <1>4 DEF t
  <2>2. QED
    BY <1>1, <1>6, <1>7, <1>8, <2>1, Parts DEF LinkTypes
<1>10. ClientTypes' /\ UplinkOk' /\ ClientsOk'
  BY <1>1, <1>2, Parts DEF ClientTypes, UplinkOk, ClientsOk
<1>11. HubOk'
  <2>1. ASSUME NEW d \in Clients
        PROVE  /\ Len(queue'[d]) <= Buffer
               /\ \A i \in 1 .. Len(queue'[d]) : Broadcasted(accepted, queue'[d][i])
    <3>1. CASE d = c
      <4>1. queue'[d] = t
        BY <1>8, <3>1, Parts DEF LinkTypes
      <4>2. Len(q) <= Buffer /\ \A i \in 1 .. Len(q) : Broadcasted(accepted, q[i])
        BY Parts DEF HubOk
      <4>3. Len(t) = Len(q) - 1 /\ Buffer \in Nat
        BY <1>4, CollaborationAssumption DEF t
      <4>4. Len(t) <= Buffer
        BY <1>4, <4>2, <4>3
      <4>5. \A i \in 1 .. Len(t) : t[i] = q[i + 1] /\ i + 1 \in 1 .. Len(q)
        BY <1>4 DEF t
      <4>6. \A i \in 1 .. Len(t) : Broadcasted(accepted, t[i])
        BY <4>2, <4>5
      <4>7. QED
        BY <4>1, <4>4, <4>6
    <3>2. CASE d # c
      BY <1>8, <3>2, Parts DEF LinkTypes, HubOk
    <3>3. QED
      BY <3>1, <3>2
  <2>2. QED
    BY <1>1, <1>2, <2>1, Parts DEF HubOk
<1>12. WiresOk'
  <2> SUFFICES ASSUME NEW d \in Clients PROVE WireOk(d)'
    BY DEF WiresOk
  <2>0. WireOk(d)
    BY Parts DEF WiresOk
  <2>1. CASE d = c
    <3>1. conn' = conn /\ wire'[c] = v /\ written'[c] = high /\ client' = client
      BY <1>1, <1>8, Parts DEF LinkTypes
    <3>2. Connected(c)' = TRUE /\ Connected(c) = TRUE
      BY <1>1, <3>1 DEF Connected
    <3> DEFINE on == Listens(client[c])
    <3>4. client[c].cursor \in Nat /\ on \in BOOLEAN
      BY <1>3 DEF Memories, Listens
    <3>5. ASSUME client[c].mode # "deaf"
          PROVE  Flow(TRUE, high, v, client[c].cursor, on)
      <4>0. Flow(TRUE, written[c], wire[c], client[c].cursor, on)
        BY <2>0, <2>1, <3>2, <3>5 DEF WireOk, FlowOk
      <4> HIDE DEF on
      <4>1. written[c] \in Nat /\ wire[c] \in Seq(Frames) /\ f \in Frames /\ f.kind # "ready"
        BY <1>3, <1>4, <1>5
      <4>2. high = IF f.kind = "update" /\ f.seq = written[c] + 1 THEN f.seq ELSE written[c]
        BY <1>6
      <4>3. Flow(TRUE, high, Append(wire[c], f), client[c].cursor, on)
        BY <3>4, <4>0, <4>1, <4>2, FlowSend
      <4>4. QED
        BY <4>3 DEF v
    <3>6. FlowOk(c)'
      BY <3>1, <3>2, <3>5 DEF FlowOk
    <3>7. \A i \in 1 .. Len(wire[c]) : Truthful(accepted, wire[c][i])
      BY <2>0, <2>1 DEF WireOk
    <3>8. \A i \in 1 .. Len(v) : i \in 1 .. Len(wire[c]) \/ i = Len(wire[c]) + 1
      BY <1>7
    <3>9. \A i \in 1 .. Len(v) : Truthful(accepted, v[i])
      BY <1>5, <1>7, <3>7, <3>8
    <3>10. QED
      BY <1>2, <2>1, <3>1, <3>6, <3>9 DEF WireOk
  <2>2. CASE d # c
    <3>1. conn'[d] = conn[d] /\ wire'[d] = wire[d] /\ written'[d] = written[d]
      BY <1>1, <1>8, <2>2, Parts DEF LinkTypes
    <3>2. Connected(d)' = Connected(d)
      BY <3>1 DEF Connected
    <3>3. QED
      BY <1>1, <1>2, <2>0, <3>1, <3>2, WireSame
  <2>3. QED
    BY <2>1, <2>2
<1>13. QED
  BY <1>2, <1>9, <1>10, <1>11, <1>12 DEF IInv

LEMMA PollKeeps ==
    ASSUME IInv, NEW c \in Clients, Poll(c) PROVE IInv'
<1> DEFINE R == Recovery(written[c])  v == wire[c] \o R
<1>1. /\ Connected(c) /\ Latest > written[c]
      /\ wire' = [wire EXCEPT ![c] = v] /\ written' = [written EXCEPT ![c] = Latest]
      /\ UNCHANGED <<server, unsent, conn, queue, uplink, client, stored, request, born>>
  BY DEF Poll
<1>2. LogTypes' /\ LogOk' /\ HttpOk' /\ accepted' = accepted
  <2>1. born' \in born .. MaxUpdates
    BY <1>1, Parts, Made
  <2>2. QED
    BY <1>1, <2>1, Parts, LogSame
<1>3. /\ wire[c] \in Seq(Frames) /\ written[c] \in Nat /\ client[c] \in Memories
      /\ Latest \in Nat
  BY Parts, Made DEF LinkTypes, ClientTypes
<1>4. written[c] \in 0 .. Latest /\ written[c] <= Latest
  BY <1>1, <1>3
<1> HIDE DEF R
<1>5. Recovers(R, written[c], Latest) /\ R \in Seq(Frames)
      /\ \A i \in 1 .. Len(R) : Truthful(accepted, R[i])
  <2>1. Recovers(R, written[c], Latest) /\ \A i \in 1 .. Len(R) : Truthful(accepted, R[i])
    BY <1>4, Parts, RecoveryIs DEF R
  <2>2. QED
    BY <2>1 DEF Recovers
<1> DEFINE a == Len(wire[c])  b == Len(R)
<1>6. /\ v \in Seq(Frames) /\ Len(v) = a + b /\ a \in Nat /\ b \in Nat
      /\ \A i \in 1 .. a + b : v[i] = IF i <= a THEN wire[c][i] ELSE R[i - a]
  BY <1>3, <1>5, ConcatProperties, LenProperties
<1> HIDE DEF v
<1>7. LinkTypes'
  BY <1>1, <1>3, <1>6, Parts DEF LinkTypes
<1>8. ClientTypes' /\ HubOk' /\ UplinkOk' /\ ClientsOk'
  BY <1>1, <1>2, Parts DEF ClientTypes, HubOk, UplinkOk, ClientsOk
<1>9. WiresOk'
  <2> SUFFICES ASSUME NEW d \in Clients PROVE WireOk(d)'
    BY DEF WiresOk
  <2>0. WireOk(d)
    BY Parts DEF WiresOk
  <2>1. CASE d = c
    <3>1. conn' = conn /\ wire'[c] = v /\ written'[c] = Latest /\ client' = client
      BY <1>1, Parts DEF LinkTypes
    <3>2. Connected(c)' = TRUE /\ Connected(c) = TRUE
      BY <1>1, <3>1 DEF Connected
    <3> DEFINE on == Listens(client[c])
    <3>4. client[c].cursor \in Nat /\ on \in BOOLEAN
      BY <1>3 DEF Memories, Listens
    <3>5. ASSUME client[c].mode # "deaf"
          PROVE  Flow(TRUE, Latest, v, client[c].cursor, on)
      <4>0. Flow(TRUE, written[c], wire[c], client[c].cursor, on)
        BY <2>0, <2>1, <3>2, <3>5 DEF WireOk, FlowOk
      <4> HIDE DEF on
      <4>1. QED
        BY <1>3, <1>4, <1>5, <3>4, <4>0, FlowPoll DEF v
    <3>6. FlowOk(c)'
      BY <3>1, <3>2, <3>5 DEF FlowOk
    <3>7. \A i \in 1 .. a : Truthful(accepted, wire[c][i])
      BY <2>0, <2>1 DEF WireOk
    <3>8. \A i \in 1 .. a + b : (i \in 1 .. a /\ i <= a) \/ (~(i <= a) /\ i - a \in 1 .. b)
      BY <1>6
    <3>9. \A i \in 1 .. Len(v) : Truthful(accepted, v[i])
      BY <1>5, <1>6, <3>7, <3>8
    <3>10. QED
      BY <1>2, <2>1, <3>1, <3>6, <3>9 DEF WireOk
  <2>2. CASE d # c
    <3>1. conn'[d] = conn[d] /\ wire'[d] = wire[d] /\ written'[d] = written[d]
      BY <1>1, <2>2, Parts DEF LinkTypes
    <3>2. Connected(d)' = Connected(d)
      BY <3>1 DEF Connected
    <3>3. QED
      BY <1>1, <1>2, <2>0, <3>1, <3>2, WireSame
  <2>3. QED
    BY <2>1, <2>2
<1>10. QED
  BY <1>2, <1>7, <1>8, <1>9 DEF IInv

LEMMA BroadcastKeeps ==
    ASSUME IInv, NEW m \in unsent, Broadcast(m) PROVE IInv'
<1>1. PICK missing \in SUBSET Clients :
        /\ unsent' = unsent \ {m}
        /\ queue' = [d \in Clients |-> Delivered(m.frame, missing, d)]
        /\ conn' = [d \in Clients |-> Slowed(missing, d)]
        /\ UNCHANGED <<server, written, wire, uplink, client, stored, request, born>>
  BY DEF Broadcast
<1>2. LogTypes' /\ LogOk' /\ HttpOk' /\ accepted' = accepted
  <2>1. born' \in born .. MaxUpdates
    BY <1>1, Parts, Made
  <2>2. QED
    BY <1>1, <2>1, Parts, LogSame
<1>3. m.frame \in Frames /\ Broadcasted(accepted, m.frame)
  BY Parts DEF LinkTypes, HubOk
<1>4. ASSUME NEW d \in Clients
      PROVE  /\ conn'[d] \in {"down", "joined", "lapsed", "open", "closing"}
             /\ Connected(d)' = Connected(d)
  <2>1. conn'[d] = Slowed(missing, d)
    BY <1>1
  <2>2. conn[d] \in {"down", "joined", "lapsed", "open", "closing"}
    BY Parts DEF LinkTypes
  <2>3. QED
    BY <2>1, <2>2 DEF Slowed, Subscribed, Connected
<1>5. ASSUME NEW d \in Clients
      PROVE  /\ queue'[d] \in Seq(Frames) /\ Len(queue'[d]) <= Buffer
             /\ \A i \in 1 .. Len(queue'[d]) : Broadcasted(accepted, queue'[d][i])
  <2>1. /\ queue[d] \in Seq(Frames) /\ Len(queue[d]) <= Buffer
        /\ \A i \in 1 .. Len(queue[d]) : Broadcasted(accepted, queue[d][i])
    BY Parts DEF LinkTypes, HubOk
  <2>2. CASE queue'[d] = queue[d]
    BY <2>1, <2>2
  <2>3. CASE queue'[d] = Append(queue[d], m.frame) /\ Len(queue[d]) < Buffer
    <3> DEFINE v == Append(queue[d], m.frame)  n == Len(queue[d])
    <3>1. /\ v \in Seq(Frames) /\ Len(v) = n + 1 /\ n \in Nat
          /\ \A i \in 1 .. n : v[i] = queue[d][i]
          /\ v[n + 1] = m.frame
      BY <1>3, <2>1, AppendProperties
    <3> HIDE DEF v
    <3>2. \A i \in 1 .. Len(v) : i \in 1 .. n \/ i = n + 1
      BY <3>1
    <3>3. \A i \in 1 .. Len(v) : Broadcasted(accepted, v[i])
      BY <1>3, <2>1, <3>1, <3>2
    <3>4. Len(v) <= Buffer
      BY <2>3, <3>1, CollaborationAssumption
    <3>5. QED
      BY <2>3, <3>1, <3>3, <3>4 DEF v
  <2>4. QED
    BY <1>1, <2>2, <2>3 DEF Delivered
<1>6. LinkTypes'
  <2>1. conn' \in [Clients -> {"down", "joined", "lapsed", "open", "closing"}]
    BY <1>1, <1>4
  <2>2. queue' \in [Clients -> Seq(Frames)]
    BY <1>1, <1>5
  <2>3. QED
    BY <1>1, <2>1, <2>2, Parts DEF LinkTypes
<1>7. ClientTypes' /\ UplinkOk' /\ ClientsOk'
  BY <1>1, <1>2, Parts DEF ClientTypes, UplinkOk, ClientsOk
<1>8. HubOk'
  BY <1>1, <1>2, <1>5, Parts DEF HubOk
<1>9. WiresOk'
  <2> SUFFICES ASSUME NEW d \in Clients PROVE WireOk(d)'
    BY DEF WiresOk
  <2>1. WireOk(d) /\ Connected(d)' = Connected(d)
    BY <1>4, Parts DEF WiresOk
  <2>2. QED
    BY <1>1, <1>2, <2>1, WireSame
<1>10. QED
  BY <1>2, <1>6, <1>7, <1>8, <1>9 DEF IInv

-----------------------------------------------------------------------------
(* The handlers that commit.                                               *)

LEMMA TakeIs ==
    ASSUME LinkTypes, NEW c \in Clients, uplink[c] # <<>>, Take(c)
    PROVE  /\ uplink' \in [Clients -> Seq(Messages)]
           /\ Head(uplink[c]) \in Messages
           /\ \E j \in 1 .. Len(uplink[c]) : Head(uplink[c]) = uplink[c][j]
           /\ \A d \in Clients : \A i \in 1 .. Len(uplink'[d]) :
                \E j \in 1 .. Len(uplink[d]) : uplink'[d][i] = uplink[d][j]
<1> DEFINE u == uplink[c]  t == Tail(u)
<1>1. uplink \in [Clients -> Seq(Messages)] /\ u \in Seq(Messages)
  BY DEF LinkTypes
<1>2. /\ 1 \in 1 .. Len(u) /\ Head(u) = u[1] /\ u[1] \in Messages /\ t \in Seq(Messages)
      /\ \A i \in 1 .. Len(t) : t[i] = u[i + 1] /\ i + 1 \in 1 .. Len(u)
  BY <1>1, HeadTailProperties, EmptySeq
<1>3. uplink' = [uplink EXCEPT ![c] = t]
  BY DEF Take
<1> HIDE DEF t
<1>4. uplink' \in [Clients -> Seq(Messages)]
  BY <1>1, <1>2, <1>3
<1>5. ASSUME NEW d \in Clients, NEW i \in 1 .. Len(uplink'[d])
      PROVE  \E j \in 1 .. Len(uplink[d]) : uplink'[d][i] = uplink[d][j]
  <2>1. CASE d = c
    <3>1. uplink'[d] = t
      BY <1>1, <1>3, <2>1
    <3>2. t[i] = u[i + 1] /\ i + 1 \in 1 .. Len(u)
      BY <1>2, <1>5, <3>1
    <3>3. QED
      BY <2>1, <3>1, <3>2
  <2>2. CASE d # c
    <3>1. uplink'[d] = uplink[d]
      BY <1>1, <1>3, <2>2
    <3>2. QED
      BY <1>5, <3>1
  <2>3. QED
    BY <2>1, <2>2
<1>6. QED
  BY <1>2, <1>4, <1>5

LEMMA GrowthKeeps ==
    ASSUME IInv, accepted' \in Seq(Nat), Extends(accepted', accepted)
    PROVE  /\ UNCHANGED <<conn, written, wire, client>> => WiresOk'
           /\ \A m \in unsent : Broadcasted(accepted', m.frame)
           /\ \A d \in Clients : \A i \in 1 .. Len(queue[d]) : Broadcasted(accepted', queue[d][i])
           /\ \A d \in Clients : \A j \in 1 .. Len(uplink[d]) : Sound(accepted', born, uplink[d][j])
           /\ \A d \in Clients : /\ RecordOk(accepted', born, client[d])
                                 /\ RecordOk(accepted', born, stored[d])
                                 /\ Requested(accepted', born, request[d])
<1>1. accepted \in Seq(Nat) /\ born \in Nat /\ born <= born
  BY Parts, Made
<1>2. /\ \A f \in Frames : Truthful(accepted, f) => Truthful(accepted', f)
      /\ \A f \in Frames : Broadcasted(accepted, f) => Broadcasted(accepted', f)
      /\ \A m \in Messages : Sound(accepted, born, m) => Sound(accepted', born, m)
      /\ \A r \in Memories : RecordOk(accepted, born, r) => RecordOk(accepted', born, r)
      /\ \A r \in Records : RecordOk(accepted, born, r) => RecordOk(accepted', born, r)
      /\ \A r \in Requests : Requested(accepted, born, r) => Requested(accepted', born, r)
  BY <1>1, SaidKept
<1>3. \A m \in unsent : Broadcasted(accepted', m.frame)
  BY <1>2, Parts DEF LinkTypes, HubOk
<1>4. ASSUME NEW d \in Clients
      PROVE  /\ \A i \in 1 .. Len(queue[d]) : queue[d][i] \in Frames
             /\ \A i \in 1 .. Len(wire[d]) : wire[d][i] \in Frames
             /\ \A j \in 1 .. Len(uplink[d]) : uplink[d][j] \in Messages
             /\ client[d] \in Memories /\ stored[d] \in Records /\ request[d] \in Requests
  <2>1. queue[d] \in Seq(Frames) /\ wire[d] \in Seq(Frames) /\ uplink[d] \in Seq(Messages)
    BY Parts DEF LinkTypes
  <2>2. client[d] \in Memories /\ stored[d] \in Records /\ request[d] \in Requests
    BY Parts DEF ClientTypes
  <2>3. QED
    BY <2>1, <2>2
<1>5. \A d \in Clients : \A i \in 1 .. Len(queue[d]) : Broadcasted(accepted', queue[d][i])
  BY <1>2, <1>4, Parts DEF HubOk
<1>6. \A d \in Clients : \A j \in 1 .. Len(uplink[d]) : Sound(accepted', born, uplink[d][j])
  BY <1>2, <1>4, Parts DEF UplinkOk
<1>7. \A d \in Clients : /\ RecordOk(accepted', born, client[d])
                         /\ RecordOk(accepted', born, stored[d])
                         /\ Requested(accepted', born, request[d])
  BY <1>2, <1>4, Parts DEF ClientsOk
<1>8. ASSUME UNCHANGED <<conn, written, wire, client>> PROVE WiresOk'
  <2> SUFFICES ASSUME NEW d \in Clients PROVE WireOk(d)'
    BY DEF WiresOk
  <2>1. FlowOk(d) /\ \A i \in 1 .. Len(wire[d]) : Truthful(accepted, wire[d][i])
    BY Parts DEF WiresOk, WireOk
  <2>2. \A i \in 1 .. Len(wire[d]) : Truthful(accepted', wire[d][i])
    BY <1>2, <1>4, <2>1
  <2>3. FlowOk(d)'
    <3>1. Connected(d)' = Connected(d)
      BY <1>8 DEF Connected
    <3>2. QED
      BY <1>8, <2>1, <3>1 DEF FlowOk, Listens
  <2>4. QED
    BY <1>8, <2>2, <2>3 DEF WireOk
<1>9. QED
  BY <1>3, <1>5, <1>6, <1>7, <1>8

LEMMA HttpGrows ==
    ASSUME LogTypes, HttpOk, accepted' \in Seq(Nat), Extends(accepted', accepted)
    PROVE  /\ Latest <= Latest'
           /\ \A n \in Nat : n <= Latest => Firsts(accepted', n) = Firsts(accepted, n)
           /\ \A p \in published : p.seq <= Latest' /\ p.content = Firsts(accepted', p.seq)
           /\ \A m \in merges :
                m.seq \in 1 .. Latest' /\ Firsts(accepted', m.seq - 1) \subseteq m.base
<1>1. Latest <= Latest' /\ Latest \in Nat /\ Latest' \in Nat /\ Latest = Len(accepted)
  BY Made DEF Extends, Latest
<1>2. \A n \in Nat : n <= Latest => Firsts(accepted', n) = Firsts(accepted, n)
  BY <1>1, Made, FirstsKept
<1>3. ASSUME NEW p \in published PROVE p.seq <= Latest' /\ p.content = Firsts(accepted', p.seq)
  <2>1. p.seq \in Nat /\ p.seq <= Latest /\ p.content = Firsts(accepted, p.seq)
    BY DEF LogTypes, HttpOk
  <2>2. QED
    BY <1>1, <1>2, <2>1
<1>4. ASSUME NEW m \in merges
      PROVE  m.seq \in 1 .. Latest' /\ Firsts(accepted', m.seq - 1) \subseteq m.base
  <2>1. m.seq \in 1 .. Latest /\ Firsts(accepted, m.seq - 1) \subseteq m.base
    BY DEF HttpOk
  <2>2. m.seq - 1 \in Nat /\ m.seq - 1 <= Latest /\ m.seq \in 1 .. Latest'
    BY <1>1, <2>1
  <2>3. QED
    BY <1>2, <2>1, <2>2
<1>5. QED
  BY <1>1, <1>2, <1>3, <1>4

(* An update is accepted and its broadcast is due.                         *)
LEMMA UpdateFrame ==
    ASSUME LogTypes, LogOk, NEW u \in 1 .. born, Accept(u), UNCHANGED <<snapshots, born>>
    PROVE  /\ Frame("update", SequenceOf(u), {u}) \in Frames
           /\ Broadcasted(accepted', Frame("update", SequenceOf(u), {u}))
<1>1. SequenceOf(u) \in 1 .. Len(accepted') /\ accepted'[SequenceOf(u)] = u
      /\ accepted' \in Seq(Nat)
  BY AcceptIs
<1>2. u \in Nat /\ Len(accepted') \in Nat
  BY <1>1, Made
<1> DEFINE q == SequenceOf(u)
<1> HIDE DEF q
<1>3. q \in Nat /\ q # 0 /\ q <= Len(accepted') /\ {u} = {accepted'[q]} /\ {u} \in SUBSET Nat
  BY <1>1, <1>2 DEF q
<1>4. QED
  BY <1>3 DEF Frame, Frames, Broadcasted, Truthful, q

LEMMA HandleUpdateKeeps ==
    ASSUME IInv, NEW c \in Clients, HandleUpdate(c) PROVE IInv'
<1> DEFINE u == Head(uplink[c]).id  f == Frame("update", SequenceOf(u), {u})
<1>1. /\ uplink[c] # <<>> /\ Head(uplink[c]).kind = "update" /\ Accept(u) /\ Take(c)
      /\ unsent' = unsent \cup {[by |-> c, frame |-> f]}
      /\ UNCHANGED <<snapshots, merges, published, conn, queue, written, wire,
                     client, stored, request, born>>
  BY DEF HandleUpdate, counters
<1>2. /\ uplink' \in [Clients -> Seq(Messages)]
      /\ \E j \in 1 .. Len(uplink[c]) : Head(uplink[c]) = uplink[c][j]
      /\ \A d \in Clients : \A i \in 1 .. Len(uplink'[d]) :
           \E j \in 1 .. Len(uplink[d]) : uplink'[d][i] = uplink[d][j]
  BY <1>1, Parts, TakeIs
<1>3. u \in 1 .. born
  BY <1>1, <1>2, Parts DEF UplinkOk, Sound
<1>4. f \in Frames /\ Broadcasted(accepted', f)
  BY <1>1, <1>3, Parts, UpdateFrame
<1>5. accepted' \in Seq(Nat) /\ kept' \in SUBSET Nat /\ LogOk' /\ Extends(accepted', accepted)
  BY <1>1, <1>3, Parts, AcceptIs
<1> HIDE DEF f, u
<1>6. LogTypes'
  BY <1>1, <1>5, Parts DEF LogTypes
<1>7. LinkTypes'
  BY <1>1, <1>2, <1>4, Parts DEF LinkTypes
<1>8. ClientTypes'
  BY <1>1, Parts DEF ClientTypes
<1>9. /\ WiresOk' /\ \A m \in unsent : Broadcasted(accepted', m.frame)
      /\ \A d \in Clients : \A i \in 1 .. Len(queue[d]) : Broadcasted(accepted', queue[d][i])
      /\ \A d \in Clients : \A j \in 1 .. Len(uplink[d]) : Sound(accepted', born, uplink[d][j])
      /\ \A d \in Clients : /\ RecordOk(accepted', born, client[d])
                            /\ RecordOk(accepted', born, stored[d])
                            /\ Requested(accepted', born, request[d])
  BY <1>1, <1>5, GrowthKeeps
<1>10. HubOk'
  BY <1>1, <1>4, <1>9, Parts DEF HubOk
<1>11. UplinkOk'
  <2> SUFFICES ASSUME NEW d \in Clients, NEW i \in 1 .. Len(uplink'[d])
               PROVE  Sound(accepted', born', uplink'[d][i])
    BY DEF UplinkOk
  <2>1. PICK j \in 1 .. Len(uplink[d]) : uplink'[d][i] = uplink[d][j]
    BY <1>2
  <2>2. QED
    BY <1>1, <1>9, <2>1
<1>12. ClientsOk'
  BY <1>1, <1>9 DEF ClientsOk
<1>13. HttpOk'
  BY <1>1, <1>5, Parts, HttpGrows DEF HttpOk
<1>14. QED
  BY <1>5, <1>6, <1>7, <1>8, <1>9, <1>10, <1>11, <1>12, <1>13 DEF IInv

(* Snapshots at one sequence are equal, so none is refused.                *)
LEMMA SaveSnapshotKeeps ==
    ASSUME IInv, NEW c \in Clients, SaveSnapshot(c) PROVE IInv'
<1> DEFINE h == Head(uplink[c])  s == [seq |-> h.seq, state |-> h.state]
           f == Frame("saved", h.seq, {})
<1>1. uplink[c] # <<>> /\ h.kind = "snapshot"
  BY DEF SaveSnapshot
<1>2. /\ h \in Messages /\ \E j \in 1 .. Len(uplink[c]) : h = uplink[c][j]
  <2>1. uplink[c] \in Seq(Messages)
    BY Parts DEF LinkTypes
  <2>2. 1 \in 1 .. Len(uplink[c]) /\ h = uplink[c][1] /\ h \in Messages
    BY <1>1, <2>1, HeadTailProperties, EmptySeq
  <2>3. QED
    BY <2>2
<1>3. h.seq \in Nat /\ h.state \in SUBSET Nat /\ h.seq <= Latest /\ h.state = Firsts(accepted, h.seq)
  <2>1. Sound(accepted, born, h)
    BY <1>2, Parts DEF UplinkOk
  <2>2. h.seq \in Nat /\ h.state \in SUBSET Nat
    BY <1>2 DEF Messages
  <2>3. QED
    BY <1>1, <2>1, <2>2, Parts, Made DEF Sound
<1>4. At(h.seq) \subseteq {s}
  <2> SUFFICES ASSUME NEW t \in snapshots, t.seq = h.seq PROVE t = s
    BY DEF At
  <2>1. t \in [seq : Nat, state : SUBSET Nat] /\ t.state = Firsts(accepted, t.seq)
    BY Parts DEF LogTypes, LogOk
  <2>2. t = [seq |-> t.seq, state |-> t.state]
    BY <2>1
  <2>3. QED
    BY <1>3, <2>1, <2>2
<1>5. /\ snapshots' = snapshots \cup {s} /\ kept' = {n \in kept : n > h.seq}
      /\ unsent' = unsent \cup {[by |-> c, frame |-> f]} /\ Take(c)
      /\ UNCHANGED <<accepted, merges, published, born, conn, queue, written, wire, client,
                     stored, request>>
  BY <1>4 DEF SaveSnapshot, counters
<1>6. s \in [seq : Nat, state : SUBSET Nat] /\ s.seq = h.seq /\ s.state = h.state
  BY <1>3
<1>7. f \in Frames /\ Broadcasted(accepted, f)
  BY <1>3, Parts, Made DEF Frame, Frames, Broadcasted, Truthful
<1>8. /\ uplink' \in [Clients -> Seq(Messages)]
      /\ \A d \in Clients : \A i \in 1 .. Len(uplink'[d]) :
           \E j \in 1 .. Len(uplink[d]) : uplink'[d][i] = uplink[d][j]
  BY <1>1, <1>5, Parts, TakeIs
<1> HIDE DEF s, f, h
<1>9. Latest' = Latest
  BY <1>5 DEF Latest
<1>10. LogTypes'
  <2>1. kept' \in SUBSET Nat
    BY <1>5, Parts DEF LogTypes
  <2>2. snapshots' \in SUBSET [seq : Nat, state : SUBSET Nat]
    BY <1>5, <1>6, Parts DEF LogTypes
  <2>3. QED
    BY <1>5, <2>1, <2>2, Parts DEF LogTypes
<1>11. LogOk'
  <2>1. \A t \in snapshots' : t.seq <= Latest' /\ t.state = Firsts(accepted', t.seq)
    BY <1>3, <1>5, <1>6, <1>9, Parts DEF LogOk
  <2>2. kept = {n \in 1 .. Latest : \A t \in snapshots : n > t.seq}
    BY Parts DEF LogOk
  <2>3. kept' = {n \in 1 .. Latest' : \A t \in snapshots' : n > t.seq}
    BY <1>5, <1>6, <1>9, <2>2
  <2>4. QED
    BY <1>5, <1>9, <2>1, <2>3, Parts DEF LogOk
<1>12. LinkTypes'
  BY <1>5, <1>7, <1>8, Parts DEF LinkTypes
<1>13. ClientTypes' /\ ClientsOk'
  BY <1>5, Parts DEF ClientTypes, ClientsOk
<1>14. HubOk'
  BY <1>5, <1>7, Parts DEF HubOk
<1>15. UplinkOk'
  <2> SUFFICES ASSUME NEW d \in Clients, NEW i \in 1 .. Len(uplink'[d])
               PROVE  Sound(accepted, born, uplink'[d][i])
    BY <1>5 DEF UplinkOk
  <2>1. PICK j \in 1 .. Len(uplink[d]) : uplink'[d][i] = uplink[d][j]
    BY <1>8
  <2>2. QED
    BY <2>1, Parts DEF UplinkOk
<1>16. HttpOk'
  BY <1>5, <1>9, Parts DEF HttpOk
<1>17. WiresOk'
  BY <1>5, Parts, WiresSame
<1>18. QED
  BY <1>10, <1>11, <1>12, <1>13, <1>14, <1>15, <1>16, <1>17 DEF IInv

LEMMA MergeKeeps ==
    ASSUME IInv, NEW c \in Clients, Merge(c) PROVE IInv'
<1> DEFINE r == request[c]  u == r.id  f == Frame("update", SequenceOf(u), {u})
           m == [seq |-> SequenceOf(u), base |-> r.content]
<1>1. /\ r.kind = "merge" /\ r.seq = Latest /\ Accept(u)
      /\ merges' = merges \cup {m} /\ unsent' = unsent \cup {[by |-> "http", frame |-> f]}
      /\ request' = [request EXCEPT ![c] = NoRequest]
      /\ UNCHANGED <<snapshots, published, conn, queue, written, wire, uplink, client, stored, born>>
  BY DEF Merge, SequenceMatches, links, counters
<1>2. /\ r \in Requests /\ r.content \in SUBSET Nat /\ u \in 1 .. born
      /\ Firsts(accepted, Latest) \subseteq r.content
  <2>1. r \in Requests /\ Requested(accepted, born, r)
    BY Parts DEF ClientTypes, ClientsOk
  <2>2. QED
    BY <1>1, <2>1 DEF Requests, Requested
<1>3. /\ accepted' \in Seq(Nat) /\ kept' \in SUBSET Nat /\ LogOk' /\ Extends(accepted', accepted)
      /\ SequenceOf(u) \in 1 .. Len(accepted') /\ SequenceOf(u) <= Latest + 1
  BY <1>1, <1>2, Parts, AcceptIs
<1>4. f \in Frames /\ Broadcasted(accepted', f)
  BY <1>1, <1>2, Parts, UpdateFrame
<1>5. /\ WiresOk' /\ \A o \in unsent : Broadcasted(accepted', o.frame)
      /\ \A d \in Clients : \A i \in 1 .. Len(queue[d]) : Broadcasted(accepted', queue[d][i])
      /\ \A d \in Clients : \A j \in 1 .. Len(uplink[d]) : Sound(accepted', born, uplink[d][j])
      /\ \A d \in Clients : /\ RecordOk(accepted', born, client[d])
                            /\ RecordOk(accepted', born, stored[d])
                            /\ Requested(accepted', born, request[d])
  BY <1>1, <1>3, GrowthKeeps
<1>6. /\ Latest <= Latest' /\ Latest \in Nat /\ Latest' \in Nat /\ Latest' = Len(accepted')
      /\ \A n \in Nat : n <= Latest => Firsts(accepted', n) = Firsts(accepted, n)
      /\ \A p \in published : p.seq <= Latest' /\ p.content = Firsts(accepted', p.seq)
      /\ \A o \in merges : o.seq \in 1 .. Latest' /\ Firsts(accepted', o.seq - 1) \subseteq o.base
  <2>1. Latest \in Nat /\ Latest' \in Nat /\ Latest' = Len(accepted')
    <3>1. Len(accepted') \in Nat
      BY <1>3
    <3>2. QED
      BY <3>1, Parts, Made DEF Latest
  <2>2. QED
    BY <1>3, <2>1, Parts, HttpGrows
<1> DEFINE q == SequenceOf(u)
<1>7. m \in [seq : Nat, base : SUBSET Nat] /\ m.seq = q /\ m.base = r.content
      /\ q \in 1 .. Latest' /\ q - 1 \in Nat /\ q - 1 <= Latest
  <2> HIDE DEF q
  <2>1. q \in 1 .. Latest' /\ q <= Latest + 1
    BY <1>3, <1>6 DEF q
  <2>2. q \in Nat /\ q - 1 \in Nat /\ q - 1 <= Latest
    BY <1>6, <2>1
  <2>3. QED
    BY <1>2, <2>1, <2>2 DEF q
<1>8. Firsts(accepted', q - 1) \subseteq r.content
  <2> HIDE DEF q
  <2>1. Firsts(accepted', q - 1) = Firsts(accepted, q - 1)
    BY <1>6, <1>7
  <2>2. \A i \in 1 .. q - 1 : i \in 1 .. Latest
    BY <1>6, <1>7
  <2>3. Firsts(accepted, q - 1) \subseteq Firsts(accepted, Latest)
    BY <2>2 DEF Firsts
  <2>4. QED
    BY <1>2, <2>1, <2>3
<1> HIDE DEF m, f, q, u, r
<1>9. LogTypes'
  BY <1>1, <1>3, <1>7, Parts DEF LogTypes
<1>10. LinkTypes'
  BY <1>1, <1>4, Parts DEF LinkTypes
<1>11. NoRequest \in Requests /\ Requested(accepted', born, NoRequest)
  BY <1>6 DEF NoRequest, Requests, Requested
<1>12. ClientTypes'
  BY <1>1, <1>11, Parts DEF ClientTypes
<1>13. HubOk'
  BY <1>1, <1>4, <1>5, Parts DEF HubOk
<1>14. UplinkOk'
  BY <1>1, <1>5 DEF UplinkOk
<1>15. ClientsOk'
  <2> SUFFICES ASSUME NEW d \in Clients
               PROVE  /\ RecordOk(accepted', born, client[d]) /\ RecordOk(accepted', born, stored[d])
                      /\ Requested(accepted', born, request'[d])
    BY <1>1 DEF ClientsOk
  <2>1. request'[d] = request[d] \/ request'[d] = NoRequest
    BY <1>1, Parts DEF ClientTypes
  <2>2. QED
    BY <1>5, <1>11, <2>1
<1>16. HttpOk'
  BY <1>1, <1>6, <1>7, <1>8 DEF HttpOk
<1>17. QED
  BY <1>3, <1>5, <1>9, <1>10, <1>12, <1>13, <1>14, <1>15, <1>16 DEF IInv

LEMMA PublishKeeps ==
    ASSUME IInv, NEW c \in Clients, Publish(c) PROVE IInv'
<1> DEFINE r == request[c]  p == [seq |-> r.seq, content |-> r.content]
<1>1. /\ r.kind = "publish" /\ r.seq = Latest
      /\ published' = published \cup {p} /\ request' = [request EXCEPT ![c] = NoRequest]
      /\ UNCHANGED <<accepted, kept, snapshots, merges, unsent, conn, queue, written, wire, uplink,
                     client, stored, born>>
  BY DEF Publish, SequenceMatches, links, counters
<1>2. /\ r.seq \in Nat /\ r.content \in SUBSET Nat /\ r.seq <= Latest
      /\ r.content = Firsts(accepted, r.seq)
  <2>1. r \in Requests /\ Requested(accepted, born, r)
    BY Parts DEF ClientTypes, ClientsOk
  <2>2. QED
    BY <1>1, <2>1, Parts, Made DEF Requests, Requested
<1>3. p \in [seq : Nat, content : SUBSET Nat] /\ p.seq = r.seq /\ p.content = r.content
  BY <1>2
<1>4. NoRequest \in Requests /\ Requested(accepted, born, NoRequest)
  <2>1. Len(accepted) \in Nat
    BY Parts, Made
  <2>2. QED
    BY <2>1 DEF NoRequest, Requests, Requested
<1> HIDE DEF p, r
<1>5. Latest' = Latest
  BY <1>1 DEF Latest
<1>6. LogTypes'
  BY <1>1, <1>3, Parts DEF LogTypes
<1>7. LinkTypes' /\ HubOk' /\ UplinkOk'
  BY <1>1, Parts DEF LinkTypes, HubOk, UplinkOk
<1>8. LogOk'
  BY <1>1, <1>5, Parts DEF LogOk
<1>9. ClientTypes'
  BY <1>1, <1>4, Parts DEF ClientTypes
<1>10. ClientsOk'
  <2> SUFFICES ASSUME NEW d \in Clients
               PROVE  /\ RecordOk(accepted, born, client[d]) /\ RecordOk(accepted, born, stored[d])
                      /\ Requested(accepted, born, request'[d])
    BY <1>1 DEF ClientsOk
  <2>1. request'[d] = request[d] \/ request'[d] = NoRequest
    BY <1>1, Parts DEF ClientTypes
  <2>2. QED
    BY <1>4, <2>1, Parts DEF ClientsOk
<1>11. HttpOk'
  BY <1>1, <1>2, <1>3, <1>5, Parts DEF HttpOk
<1>12. WiresOk'
  BY <1>1, Parts, WiresSame
<1>13. QED
  BY <1>6, <1>7, <1>8, <1>9, <1>10, <1>11, <1>12 DEF IInv

(* Requests made and refused: of the rest, at most an update is made.      *)
LEMMA RequestKeeps ==
    ASSUME IInv, NEW c \in Clients, NEW r \in Requests, born' \in born .. MaxUpdates,
           Requested(accepted, born', r), request' = [request EXCEPT ![c] = r],
           UNCHANGED <<server, unsent, links, client, stored>>
    PROVE  IInv'
<1>1. LogTypes' /\ LogOk' /\ HttpOk' /\ accepted' = accepted
  BY Parts, LogSame
<1>2. /\ conn' = conn /\ queue' = queue /\ written' = written /\ wire' = wire /\ uplink' = uplink
      /\ client' = client /\ stored' = stored /\ unsent' = unsent
  BY DEF links
<1>3. born \in Nat /\ born' \in Nat /\ born <= born'
  BY Parts, Made
<1>4. LinkTypes' /\ HubOk'
  BY <1>1, <1>2, Parts DEF LinkTypes, HubOk
<1>5. ClientTypes'
  BY <1>2, Parts DEF ClientTypes
<1>6. UplinkOk'
  BY <1>1, <1>2, <1>3, Parts, UplinkSame
<1>7. ClientsOk'
  <2> SUFFICES ASSUME NEW d \in Clients
               PROVE  /\ RecordOk(accepted, born', client[d]) /\ RecordOk(accepted, born', stored[d])
                      /\ Requested(accepted, born', request'[d])
    BY <1>1, <1>2 DEF ClientsOk
  <2>1. request'[d] = request[d] \/ request'[d] = r
    BY Parts DEF ClientTypes
  <2>2. /\ client[d] \in Memories /\ stored[d] \in Records /\ request[d] \in Requests
        /\ RecordOk(accepted, born, client[d]) /\ RecordOk(accepted, born, stored[d])
        /\ Requested(accepted, born, request[d])
    BY Parts DEF ClientTypes, ClientsOk
  <2>3. accepted \in Seq(Nat) /\ Extends(accepted, accepted)
    BY Parts, Made DEF Extends
  <2>4. QED
    BY <1>3, <2>1, <2>2, <2>3, SaidKept
<1>8. WiresOk'
  BY <1>1, <1>2, Parts, WiresSame
<1>9. QED
  BY <1>1, <1>4, <1>5, <1>6, <1>7, <1>8 DEF IInv

LEMMA PreparesKeep ==
    ASSUME IInv, NEW c \in Clients, PrepareMerge(c) \/ PreparePublish(c)
    PROVE  IInv'
<1>1. /\ client[c] \in Memories /\ RecordOk(accepted, born, client[c])
      /\ born \in Nat /\ MaxUpdates \in Nat /\ born <= MaxUpdates /\ Len(accepted) \in Nat
  BY Parts, Made DEF ClientTypes, ClientsOk
<1>2. client[c].cursor \in Nat /\ client[c].doc \in SUBSET Nat /\ client[c].cursor <= Len(accepted)
      /\ client[c].doc = Firsts(accepted, client[c].cursor) \cup client[c].pending
  BY <1>1 DEF Memories, RecordOk
<1>3. CASE PrepareMerge(c)
  <2> DEFINE r == [kind |-> "merge", seq |-> client[c].cursor, id |-> born', content |-> client[c].doc]
  <2>1. /\ born < MaxUpdates /\ born' = born + 1 /\ request' = [request EXCEPT ![c] = r]
        /\ UNCHANGED <<server, unsent, links, client, stored>>
    BY <1>3 DEF PrepareMerge
  <2>2. born' \in born .. MaxUpdates /\ born' \in Nat /\ born' \in 1 .. born'
    BY <1>1, <2>1
  <2>3. r \in Requests /\ Requested(accepted, born', r)
    BY <1>2, <2>2 DEF Requests, Requested
  <2> HIDE DEF r
  <2>4. QED
    BY <2>1, <2>2, <2>3, RequestKeeps
<1>4. CASE PreparePublish(c)
  <2> DEFINE r == [kind |-> "publish", seq |-> client[c].cursor, id |-> 0, content |-> client[c].doc]
  <2>1. /\ client[c].pending = {} /\ born' = born /\ request' = [request EXCEPT ![c] = r]
        /\ UNCHANGED <<server, unsent, links, client, stored>>
    BY <1>4 DEF PreparePublish, Publishable
  <2>2. born' \in born .. MaxUpdates
    BY <1>1, <2>1
  <2>3. r \in Requests /\ Requested(accepted, born', r)
    BY <1>2, <2>1 DEF Requests, Requested
  <2> HIDE DEF r
  <2>4. QED
    BY <2>1, <2>2, <2>3, RequestKeeps
<1>5. QED
  BY <1>3, <1>4

(* What refresh leaves after a refused publication: the record as it was,  *)
(* and a client that still reads what comes.                               *)
LEMMA RefuseIs ==
    ASSUME ClientTypes, NEW c \in Clients, Refuse(c)
    PROVE  \E l \in Memories :
             /\ client' = [client EXCEPT ![c] = l]
             /\ l.doc = client[c].doc /\ l.cursor = client[c].cursor
             /\ l.pending = client[c].pending /\ l.queued = client[c].queued
             /\ (l.ready => client[c].ready) /\ Listens(l) = Listens(client[c])
             /\ l.mode = "deaf" <=> client[c].mode = "deaf"
<1> DEFINE k == client[c]  l == IF request[c].kind = "publish" THEN Refreshed(k) ELSE k
<1>1. k \in Memories /\ client' = [client EXCEPT ![c] = l]
  BY DEF ClientTypes, Refuse
<1>2. /\ l \in Memories /\ l.doc = k.doc /\ l.cursor = k.cursor
      /\ l.pending = k.pending /\ l.queued = k.queued
      /\ (l.ready => k.ready) /\ Listens(l) = Listens(k)
      /\ l.mode = "deaf" <=> k.mode = "deaf"
  BY <1>1 DEF Refreshed, Memories, Listens
<1> HIDE DEF l
<1>3. QED
  BY <1>1, <1>2

LEMMA RefuseKeeps ==
    ASSUME IInv, NEW c \in Clients, Refuse(c) PROVE IInv'
<1> DEFINE k == client[c]
<1>1. /\ request' = [request EXCEPT ![c] = NoRequest] /\ born' = born
      /\ UNCHANGED <<server, unsent, links, stored>>
  BY DEF Refuse, counters
<1>2. PICK l \in Memories :
        /\ client' = [client EXCEPT ![c] = l]
        /\ l.doc = k.doc /\ l.cursor = k.cursor /\ l.pending = k.pending
        /\ Listens(l) = Listens(k)
        /\ l.mode = "deaf" <=> k.mode = "deaf"
  BY Parts, RefuseIs
<1>3. LogTypes' /\ LogOk' /\ HttpOk' /\ accepted' = accepted
  <2>1. born' \in born .. MaxUpdates
    BY <1>1, Parts, Made
  <2>2. QED
    BY <1>1, <2>1, Parts, LogSame
<1>4. /\ conn' = conn /\ queue' = queue /\ written' = written /\ wire' = wire /\ uplink' = uplink
      /\ stored' = stored /\ unsent' = unsent
  BY <1>1 DEF links
<1>5. LinkTypes' /\ HubOk' /\ UplinkOk'
  BY <1>1, <1>3, <1>4, Parts DEF LinkTypes, HubOk, UplinkOk
<1>6. NoRequest \in Requests /\ Requested(accepted, born, NoRequest)
  <2>1. Len(accepted) \in Nat
    BY Parts, Made
  <2>2. QED
    BY <2>1 DEF NoRequest, Requests, Requested
<1>7. ClientTypes'
  BY <1>1, <1>2, <1>4, <1>6, Parts DEF ClientTypes
<1>8. ClientsOk'
  <2> SUFFICES ASSUME NEW d \in Clients
               PROVE  /\ RecordOk(accepted, born, client'[d]) /\ RecordOk(accepted, born, stored[d])
                      /\ Requested(accepted, born, request'[d])
    BY <1>1, <1>3, <1>4 DEF ClientsOk
  <2>1. client'[d] = client[d] \/ (d = c /\ client'[d] = l)
    BY <1>2, Parts DEF ClientTypes
  <2>2. request'[d] = request[d] \/ request'[d] = NoRequest
    BY <1>1, Parts DEF ClientTypes
  <2>3. RecordOk(accepted, born, l)
    <3>1. RecordOk(accepted, born, k)
      BY Parts DEF ClientsOk
    <3>2. QED
      BY <1>2, <3>1 DEF RecordOk
  <2>4. QED
    BY <1>6, <2>1, <2>2, <2>3, Parts DEF ClientsOk
<1>9. WiresOk'
  <2> SUFFICES ASSUME NEW d \in Clients PROVE WireOk(d)'
    BY DEF WiresOk
  <2>1. WireOk(d) /\ Connected(d)' = Connected(d)
    BY <1>4, Parts DEF WiresOk, Connected
  <2>2. /\ client'[d].cursor = client[d].cursor
        /\ Listens(client'[d]) = Listens(client[d])
        /\ client'[d].mode = "deaf" <=> client[d].mode = "deaf"
    <3>1. (d = c /\ client'[d] = l) \/ client'[d] = client[d]
      BY <1>2, Parts DEF ClientTypes
    <3>2. QED
      BY <1>2, <3>1
  <2>3. FlowOk(d)'
    <3>1. client'[d].mode # "deaf" =>
            Flow(Connected(d), written[d], wire[d], client'[d].cursor, Listens(client'[d]))
      BY <2>1, <2>2 DEF WireOk, FlowOk
    <3>2. QED
      BY <1>4, <2>1, <3>1 DEF FlowOk, Listens
  <2>4. QED
    BY <1>3, <1>4, <2>1, <2>3 DEF WireOk
<1>10. QED
  BY <1>3, <1>5, <1>7, <1>8, <1>9 DEF IInv

-----------------------------------------------------------------------------
(* The client.                                                             *)

LEMMA SentKeeps ==
    ASSUME LinkTypes, UplinkOk, NEW c \in Clients, NEW more \in Seq(Messages),
           \A i \in 1 .. Len(more) : Sound(accepted, born, more[i]),
           uplink' = [uplink EXCEPT ![c] = @ \o more], UNCHANGED <<accepted, born>>
    PROVE  uplink' \in [Clients -> Seq(Messages)] /\ UplinkOk'
<1> DEFINE u == uplink[c]  v == u \o more  a == Len(u)  b == Len(more)
<1>1. uplink \in [Clients -> Seq(Messages)] /\ u \in Seq(Messages)
  BY DEF LinkTypes
<1>2. /\ v \in Seq(Messages) /\ Len(v) = a + b /\ a \in Nat /\ b \in Nat
      /\ \A i \in 1 .. a + b : v[i] = IF i <= a THEN u[i] ELSE more[i - a]
  BY <1>1, ConcatProperties, LenProperties
<1>3. uplink' = [uplink EXCEPT ![c] = v]
  OBVIOUS
<1> HIDE DEF v
<1>4. uplink' \in [Clients -> Seq(Messages)]
  BY <1>1, <1>2, <1>3
<1>5. \A i \in 1 .. a + b : (i \in 1 .. a /\ i <= a) \/ (~(i <= a) /\ i - a \in 1 .. b)
  BY <1>2
<1>6. \A i \in 1 .. a : Sound(accepted, born, u[i])
  BY DEF UplinkOk
<1>7. \A i \in 1 .. Len(v) : Sound(accepted, born, v[i])
  BY <1>2, <1>5, <1>6
<1>8. ASSUME NEW d \in Clients, NEW i \in 1 .. Len(uplink'[d])
      PROVE  Sound(accepted, born, uplink'[d][i])
  <2>1. CASE d = c
    BY <1>1, <1>3, <1>7, <1>8, <2>1
  <2>2. CASE d # c
    BY <1>1, <1>3, <1>8, <2>2 DEF UplinkOk
  <2>3. QED
    BY <2>1, <2>2
<1>9. QED
  BY <1>4, <1>8 DEF UplinkOk

(* What follows a frame: perhaps a snapshot of what the cursor says.       *)
LEMMA SettleIs ==
    ASSUME LogTypes, LinkTypes, ClientTypes, UplinkOk, NEW c \in Clients,
           NEW k \in Memories, RecordOk(accepted, born, k), Settle(c, k),
           UNCHANGED <<accepted, born>>
    PROVE  /\ uplink' \in [Clients -> Seq(Messages)] /\ UplinkOk'
           /\ \E l \in Memories :
                /\ client' = [client EXCEPT ![c] = l] /\ RecordOk(accepted, born, l)
                /\ l.cursor = k.cursor /\ l.ready = k.ready /\ l.mode = k.mode
<1>1. CASE SnapshotDue(k)
  <2> DEFINE m == [kind |-> "snapshot", id |-> 0, seq |-> k.cursor, state |-> k.doc]
             l == [k EXCEPT !.saving = TRUE]
  <2>1. client' = [client EXCEPT ![c] = l] /\ uplink' = [uplink EXCEPT ![c] = Append(@, m)]
    BY <1>1 DEF Settle
  <2>2. /\ k.cursor \in Nat /\ k.doc \in SUBSET Nat /\ k.pending = {}
        /\ k.cursor <= Len(accepted) /\ k.doc = Firsts(accepted, k.cursor)
    BY <1>1 DEF SnapshotDue, RecordOk, Memories
  <2>3. m \in Messages /\ Sound(accepted, born, m)
    BY <2>2 DEF Messages, Sound
  <2>4. /\ l \in Memories /\ RecordOk(accepted, born, l)
        /\ l.cursor = k.cursor /\ l.ready = k.ready /\ l.mode = k.mode
    BY DEF Memories, RecordOk
  <2> HIDE DEF m, l
  <2> DEFINE more == <<m>>
  <2>5. more \in Seq(Messages) /\ Len(more) = 1 /\ more[1] = m
    BY <2>3
  <2>6. \A i \in 1 .. Len(more) : Sound(accepted, born, more[i])
    BY <2>3, <2>5
  <2>7. uplink' = [uplink EXCEPT ![c] = @ \o more]
    <3>1. uplink[c] \in Seq(Messages)
      BY DEF LinkTypes
    <3>2. Append(uplink[c], m) = uplink[c] \o <<m>>
      BY <2>3, <3>1
    <3>3. QED
      BY <2>1, <3>2
  <2> HIDE DEF more
  <2>8. uplink' \in [Clients -> Seq(Messages)] /\ UplinkOk'
    BY <2>5, <2>6, <2>7, SentKeeps
  <2>9. QED
    BY <2>1, <2>4, <2>8
<1>2. CASE ~SnapshotDue(k)
  <2>1. client' = [client EXCEPT ![c] = k] /\ uplink' = uplink
    BY <1>2 DEF Settle
  <2>2. uplink' \in [Clients -> Seq(Messages)] /\ UplinkOk'
    BY <2>1 DEF UplinkOk, LinkTypes
  <2>3. QED
    BY <2>1, <2>2
<1>3. QED
  BY <1>1, <1>2

LEMMA EditKeeps ==
    ASSUME IInv, NEW c \in Clients, Edit(c) PROVE IInv'
<1> DEFINE b == born + 1
           k == [client[c] EXCEPT !.doc = @ \cup {b}, !.pending = @ \cup {b}, !.queued = @ \cup {b}]
<1>1. /\ born < MaxUpdates /\ born' = b
      /\ UNCHANGED <<server, unsent, conn, queue, written, wire, uplink, stored, request>>
  BY DEF Edit, links
<1>2. client \in [Clients -> Memories] /\ client[c] \in Memories
      /\ RecordOk(accepted, born, client[c])
  BY Parts DEF ClientTypes, ClientsOk
<1>3. client' = [client EXCEPT ![c] = k]
  BY <1>2 DEF Edit
<1>4. born \in Nat /\ b \in Nat /\ b \in 1 .. b /\ b \in born .. MaxUpdates /\ born <= b
  BY <1>1, Parts, Made
<1>5. /\ k \in Memories /\ k.cursor = client[c].cursor /\ k.ready = client[c].ready
      /\ k.mode = client[c].mode
      /\ k.doc = client[c].doc \cup {b} /\ k.pending = client[c].pending \cup {b}
  BY <1>2, <1>4 DEF Memories
<1>6. LogTypes' /\ LogOk' /\ HttpOk' /\ accepted' = accepted
  BY <1>1, <1>4, Parts, LogSame
<1>7. accepted \in Seq(Nat) /\ Extends(accepted, accepted)
  BY Parts, Made DEF Extends
<1>8. RecordOk(accepted, b, k)
  <2>1. RecordOk(accepted, b, client[c])
    BY <1>2, <1>4, <1>7, SaidKept
  <2> HIDE DEF k, b
  <2>2. QED
    BY <1>4, <1>5, <2>1 DEF RecordOk
<1> HIDE DEF k, b
<1>9. LinkTypes' /\ HubOk'
  BY <1>1, <1>6, Parts DEF LinkTypes, HubOk
<1>10. ClientTypes'
  BY <1>1, <1>3, <1>5, Parts DEF ClientTypes
<1>11. UplinkOk'
  BY <1>1, <1>4, <1>6, Parts, UplinkSame
<1>12. ClientsOk'
  <2> SUFFICES ASSUME NEW d \in Clients
               PROVE  /\ RecordOk(accepted, b, client'[d]) /\ RecordOk(accepted, b, stored[d])
                      /\ Requested(accepted, b, request[d])
    BY <1>1, <1>6 DEF ClientsOk
  <2>1. client'[d] = client[d] \/ client'[d] = k
    BY <1>2, <1>3
  <2>2. /\ client[d] \in Memories /\ stored[d] \in Records /\ request[d] \in Requests
        /\ RecordOk(accepted, born, client[d]) /\ RecordOk(accepted, born, stored[d])
        /\ Requested(accepted, born, request[d])
    BY Parts DEF ClientTypes, ClientsOk
  <2>3. QED
    BY <1>4, <1>7, <1>8, <2>1, <2>2, SaidKept
<1>13. WiresOk'
  <2>1. \A d \in Clients : /\ client'[d].cursor = client[d].cursor
                           /\ client'[d].ready = client[d].ready
                           /\ client'[d].mode = client[d].mode
    BY <1>2, <1>3, <1>5
  <2>2. QED
    BY <1>1, <1>6, <2>1, Parts, WiresSame
<1>14. QED
  BY <1>6, <1>9, <1>10, <1>11, <1>12, <1>13 DEF IInv

LEMMA PersistKeeps ==
    ASSUME IInv, NEW c \in Clients, Persist(c) PROVE IInv'
<1> DEFINE k == client[c]  S == k.queued \cap k.pending  ids == Ascending(S)
           sent == [i \in 1 .. Len(ids) |->
                      [kind |-> "update", id |-> ids[i], seq |-> 0, state |-> {}]]
           l == [k EXCEPT !.queued = {}]
           r == [doc |-> k.doc, cursor |-> k.cursor, pending |-> k.pending]
<1>1. client \in [Clients -> Memories] /\ k \in Memories /\ RecordOk(accepted, born, k)
      /\ stored \in [Clients -> Records]
  BY Parts DEF ClientTypes, ClientsOk
<1>2. /\ stored' = [stored EXCEPT ![c] = r]
      /\ client' = [client EXCEPT ![c] = l]
      /\ uplink' = [uplink EXCEPT ![c] = IF k.ready THEN @ \o sent ELSE @]
      /\ UNCHANGED <<server, unsent, conn, queue, written, wire, request, born>>
  BY <1>1 DEF Persist, counters
<1>3. r \in Records /\ RecordOk(accepted, born, r)
  BY <1>1 DEF Memories, Records, RecordOk
<1>4. /\ l \in Memories /\ RecordOk(accepted, born, l)
      /\ l.cursor = k.cursor /\ l.ready = k.ready /\ l.mode = k.mode
  BY <1>1 DEF Memories, RecordOk
<1>5. LogTypes' /\ LogOk' /\ HttpOk' /\ accepted' = accepted
  <2>1. born' \in born .. MaxUpdates
    BY <1>2, Parts, Made
  <2>2. QED
    BY <1>2, <2>1, Parts, LogSame
<1>6. /\ Len(ids) \in Nat /\ \A i \in 1 .. Len(ids) : ids[i] \in 1 .. born
  <2>1. S \subseteq 1 .. born /\ born \in Nat
    BY <1>1, Parts, Made DEF RecordOk
  <2>2. IsFiniteSet(1 .. born)
    <3>1. 1 \in Int /\ born \in Int
      BY <2>1
    <3> HIDE DEF S
    <3>2. QED
      BY <3>1, FS_Interval
  <2>3. S \in SUBSET Nat /\ IsFiniteSet(S)
    BY <2>1, <2>2, FS_Subset
  <2> HIDE DEF S
  <2>4. QED
    BY <2>1, <2>3, AscendingIs
<1> HIDE DEF ids
<1>7. /\ sent \in Seq(Messages) /\ Len(sent) = Len(ids)
      /\ \A i \in 1 .. Len(ids) : Sound(accepted, born, sent[i])
  <2>1. \A i \in 1 .. Len(ids) : ids[i] \in Nat
    BY <1>6, Parts, Made
  <2>2. \A i \in 1 .. Len(ids) :
          [kind |-> "update", id |-> ids[i], seq |-> 0, state |-> {}] \in Messages
    BY <2>1 DEF Messages
  <2>3. sent \in Seq(Messages) /\ Len(sent) = Len(ids)
    BY <1>6, <2>2
  <2>4. ASSUME NEW i \in 1 .. Len(ids) PROVE Sound(accepted, born, sent[i])
    <3>1. sent[i].kind = "update" /\ sent[i].id \in 1 .. born
      BY <1>6
    <3>2. QED
      BY <3>1 DEF Sound
  <2>5. QED
    BY <2>3, <2>4
<1> HIDE DEF sent, l, r
<1>8. uplink' \in [Clients -> Seq(Messages)] /\ UplinkOk'
  <2>1. CASE k.ready
    <3>1. uplink' = [uplink EXCEPT ![c] = @ \o sent]
      BY <1>2, <2>1
    <3>2. QED
      BY <1>2, <1>5, <1>7, <3>1, Parts, SentKeeps
  <2>2. CASE ~k.ready
    <3>1. uplink' = uplink
      BY <1>2, <2>2, Parts DEF LinkTypes
    <3>2. QED
      BY <1>2, <1>5, <3>1, Parts DEF LinkTypes, UplinkOk
  <2>3. QED
    BY <2>1, <2>2
<1> HIDE DEF k
<1>9. LinkTypes' /\ HubOk'
  BY <1>2, <1>5, <1>8, Parts DEF LinkTypes, HubOk
<1>10. ClientTypes'
  BY <1>1, <1>2, <1>3, <1>4, Parts DEF ClientTypes
<1>11. ClientsOk'
  <2> SUFFICES ASSUME NEW d \in Clients
               PROVE  /\ RecordOk(accepted, born, client'[d]) /\ RecordOk(accepted, born, stored'[d])
                      /\ Requested(accepted, born, request[d])
    BY <1>2, <1>5 DEF ClientsOk
  <2>1. client'[d] \in {client[d], l} /\ stored'[d] \in {stored[d], r}
    BY <1>1, <1>2
  <2>2. QED
    BY <1>3, <1>4, <2>1, Parts DEF ClientsOk
<1>12. WiresOk'
  <2>1. \A d \in Clients : /\ client'[d].cursor = client[d].cursor
                           /\ client'[d].ready = client[d].ready
                           /\ client'[d].mode = client[d].mode
    BY <1>1, <1>2, <1>4 DEF k
  <2>2. QED
    BY <1>2, <1>5, <2>1, Parts, WiresSame
<1>13. QED
  BY <1>5, <1>8, <1>9, <1>10, <1>11, <1>12 DEF IInv

LEMMA FirstsJoin ==
    ASSUME NEW log, NEW m \in Nat, NEW n \in Nat
    PROVE  /\ m <= n => Firsts(log, m) \subseteq Firsts(log, n)
           /\ Firsts(log, m + 1) = Firsts(log, m) \cup {log[m + 1]}
<1>1. ASSUME m <= n PROVE Firsts(log, m) \subseteq Firsts(log, n)
  <2>1. \A i \in 1 .. m : i \in 1 .. n
    BY <1>1
  <2>2. QED
    BY <2>1 DEF Firsts
<1>2. Firsts(log, m + 1) = Firsts(log, m) \cup {log[m + 1]}
  <2>1. 1 .. m + 1 = (1 .. m) \cup {m + 1}
    OBVIOUS
  <2> DEFINE q == m + 1
  <2> HIDE DEF q
  <2>2. 1 .. q = (1 .. m) \cup {q}
    BY <2>1 DEF q
  <2>3. Firsts(log, q) = Firsts(log, m) \cup {log[q]}
    BY <2>2 DEF Firsts
  <2>4. QED
    BY <2>3 DEF q
<1>3. QED
  BY <1>1, <1>2

(* What a frame makes of a memory that is in order.                        *)
Absorbs(l, k, f) ==
    /\ l \in Memories /\ l.cursor = Larger(k.cursor, f.seq)
    /\ l.doc = k.doc \cup f.state
    /\ l.pending = IF f.kind = "update" THEN k.pending \ f.state ELSE k.pending

LEMMA AbsorbsKeeps ==
    ASSUME NEW log \in Seq(Nat), NEW made \in Nat, NEW k \in Memories, RecordOk(log, made, k),
           NEW f \in Frames, Truthful(log, f), f.kind \in {"update", "snapshot", "ready"},
           f.kind = "update" => f.seq <= k.cursor + 1,
           f.kind = "ready" => f.seq <= k.cursor,
           NEW l, Absorbs(l, k, f)
    PROVE  RecordOk(log, made, l)
<1> DEFINE n == k.cursor  s == f.seq
<1>1. n \in Nat /\ s \in Nat /\ n <= Len(log) /\ s <= Len(log) /\ Len(log) \in Nat
  BY DEF Memories, Frames, RecordOk, Truthful
<1>2. k.doc = Firsts(log, n) \cup k.pending /\ k.pending \subseteq 1 .. made
  BY DEF RecordOk
<1>3. /\ l.cursor = Larger(n, s) /\ l.doc = k.doc \cup f.state
      /\ l.pending = IF f.kind = "update" THEN k.pending \ f.state ELSE k.pending
  BY DEF Absorbs
<1>4. l.pending \subseteq 1 .. made
  BY <1>2, <1>3
<1>5. l.cursor <= Len(log)
  BY <1>1, <1>3 DEF Larger
<1> HIDE DEF n, s
<1>6. l.doc = Firsts(log, l.cursor) \cup l.pending
  <2>1. CASE f.kind = "update"
    <3>1. f.state = {log[s]} /\ s # 0 /\ s <= n + 1
      BY <2>1 DEF Truthful, n, s
    <3>2. CASE s <= n
      <4>1. l.cursor = n /\ s \in 1 .. n
        BY <1>1, <1>3, <3>1, <3>2 DEF Larger
      <4>2. log[s] \in Firsts(log, n)
        BY <4>1 DEF Firsts
      <4>3. QED
        BY <1>2, <1>3, <2>1, <3>1, <4>1, <4>2
    <3>3. CASE ~(s <= n)
      <4>1. s = n + 1 /\ l.cursor = s
        BY <1>1, <1>3, <3>1, <3>3 DEF Larger
      <4>2. Firsts(log, s) = Firsts(log, n) \cup {log[s]}
        BY <1>1, <4>1, FirstsJoin
      <4>3. QED
        BY <1>2, <1>3, <2>1, <3>1, <4>1, <4>2
    <3>4. QED
      BY <3>2, <3>3
  <2>2. CASE f.kind = "snapshot"
    <3>1. f.state = Firsts(log, s) /\ l.pending = k.pending
      BY <1>3, <2>2 DEF Truthful, s
    <3>2. l.cursor = (IF n > s THEN n ELSE s)
      BY <1>3 DEF Larger
    <3>3. (n > s => Firsts(log, s) \subseteq Firsts(log, n))
          /\ (~(n > s) => Firsts(log, n) \subseteq Firsts(log, s))
      <4>1. (n > s => s <= n) /\ (~(n > s) => n <= s)
        BY <1>1
      <4>2. QED
        BY <1>1, <4>1, FirstsJoin
    <3>4. QED
      BY <1>2, <1>3, <3>1, <3>2, <3>3
  <2>3. CASE f.kind = "ready"
    <3>1. f.state = {} /\ l.pending = k.pending /\ s <= n
      BY <1>3, <2>3 DEF Truthful, n, s
    <3>2. l.cursor = n
      BY <1>1, <1>3, <3>1 DEF Larger
    <3>3. QED
      BY <1>2, <1>3, <3>1, <3>2
  <2>4. QED
    BY <2>1, <2>2, <2>3
<1>7. QED
  BY <1>4, <1>5, <1>6 DEF RecordOk

LEMMA ReceivesIs ==
    ASSUME IInv, NEW c \in Clients, Receive(c), ~skipped'
    PROVE  /\ wire[c] # <<>> /\ wire[c] \in Seq(Frames)
           /\ uplink' \in [Clients -> Seq(Messages)] /\ UplinkOk'
           /\ \E l \in Memories :
                /\ client' = [client EXCEPT ![c] = l] /\ RecordOk(accepted, born, l)
                /\ client[c].cursor <= l.cursor
                /\ Listens(l) = (Listens(client[c]) \/ wire[c][1].kind = "ready")
                /\ client[c].mode # "deaf" /\ l.mode # "deaf"
                /\ \A x \in Nat : Covers(wire[c][1], x) => x <= l.cursor
<1> DEFINE k == client[c]  w == wire[c]  f == w[1]
<1>1. /\ w # <<>> /\ ~Gap(k, Head(w)) /\ ~Skips(k, Head(w)) /\ k.mode # "deaf"
      /\ accepted' = accepted /\ born' = born
  BY DEF Receive, server
<1>2. /\ w \in Seq(Frames) /\ k \in Memories /\ k.cursor \in Nat /\ Listens(k) \in BOOLEAN
      /\ client \in [Clients -> Memories] /\ written[c] \in Nat
      /\ RecordOk(accepted, born, k)
  <2>1. w \in Seq(Frames) /\ written[c] \in Nat
    BY Parts DEF LinkTypes
  <2>2. k \in Memories /\ RecordOk(accepted, born, k) /\ client \in [Clients -> Memories]
    BY Parts DEF ClientTypes, ClientsOk
  <2>3. k.cursor \in Nat /\ Listens(k) \in BOOLEAN
    BY <2>2 DEF Memories, Listens
  <2>4. QED
    BY <2>1, <2>2, <2>3
<1>3. Flow(Connected(c), written[c], w, k.cursor, Listens(k))
      /\ \A i \in 1 .. Len(w) : Truthful(accepted, w[i])
  BY <1>1, Parts DEF WiresOk, WireOk, FlowOk
<1>4. Connected(c) \in BOOLEAN
  BY DEF Connected
<1>5. /\ f \in Frames /\ Head(w) = f /\ 1 \in 1 .. Len(w)
      /\ f.kind = "ready" => f.seq <= k.cursor
      /\ f.kind = "update" /\ ~Listens(k) => f.seq <= k.cursor + 1
  <2> DEFINE up == Connected(c)  cursor == k.cursor  ready == Listens(k)
  <2>1. cursor \in Nat /\ ready \in BOOLEAN /\ up \in BOOLEAN
        /\ Flow(up, written[c], w, cursor, ready)
    BY <1>2, <1>3, <1>4
  <2> HIDE DEF up, cursor, ready, k, w
  <2>2. /\ w[1] \in Frames /\ Head(w) = w[1] /\ 1 \in 1 .. Len(w)
        /\ w[1].kind = "ready" => w[1].seq <= cursor
        /\ w[1].kind = "update" /\ ~ready => w[1].seq <= cursor + 1
    BY <1>1, <1>2, <2>1, HeadFollows
  <2>3. QED
    BY <2>2 DEF cursor, ready
<1>6. Truthful(accepted, f)
  BY <1>3, <1>5
<1>7. f.seq \in Nat /\ f.kind \in {"update", "snapshot", "ready", "saved"} /\ f.state \in SUBSET Nat
  BY <1>5 DEF Frames
<1>8. f.kind = "update" => f.seq <= k.cursor + 1
  BY <1>1, <1>2, <1>5, <1>7 DEF Gap, Skips, Listens
<1>9. /\ f.kind = "update" => Settle(c, [Absorbed(k, f) EXCEPT !.pending = @ \ f.state])
      /\ f.kind = "snapshot" => Settle(c, [Absorbed(k, f) EXCEPT !.saved = Larger(@, f.seq)])
      /\ f.kind = "ready" => Settle(c, [Absorbed(k, f) EXCEPT !.ready = TRUE, !.mode = "live",
                                                              !.queued = @ \cup k.pending])
      /\ f.kind = "saved" =>
           /\ client' = [client EXCEPT ![c].saved = Larger(@, f.seq), ![c].saving = FALSE]
           /\ UNCHANGED uplink
  BY <1>5, <1>7 DEF Receive
<1> HIDE DEF f, k, w
<1>10. accepted \in Seq(Nat) /\ born \in Nat
  BY Parts, Made
<1>11. \A x \in Nat : Covers(f, x) => x <= Larger(k.cursor, f.seq) /\ f.kind # "saved"
  BY <1>2, <1>7 DEF Covers, Larger
<1>12. k.cursor <= Larger(k.cursor, f.seq)
  BY <1>2, <1>7 DEF Larger
<1>13. ASSUME NEW l, Absorbs(l, k, f), Settle(c, l), f.kind # "saved",
              Listens(l) = (Listens(k) \/ f.kind = "ready"), l.mode # "deaf"
       PROVE  /\ uplink' \in [Clients -> Seq(Messages)] /\ UplinkOk'
              /\ \E o \in Memories :
                   /\ client' = [client EXCEPT ![c] = o] /\ RecordOk(accepted, born, o)
                   /\ k.cursor <= o.cursor
                   /\ Listens(o) = (Listens(k) \/ f.kind = "ready") /\ o.mode # "deaf"
                   /\ \A x \in Nat : Covers(f, x) => x <= o.cursor
  <2>1. f.kind \in {"update", "snapshot", "ready"}
    BY <1>7, <1>13
  <2>2. RecordOk(accepted, born, l)
    BY <1>2, <1>5, <1>6, <1>8, <1>10, <1>13, <2>1, AbsorbsKeeps DEF f
  <2>3. l \in Memories /\ l.cursor = Larger(k.cursor, f.seq)
    BY <1>13 DEF Absorbs
  <2>4. /\ uplink' \in [Clients -> Seq(Messages)] /\ UplinkOk'
        /\ \E o \in Memories :
             /\ client' = [client EXCEPT ![c] = o] /\ RecordOk(accepted, born, o)
             /\ o.cursor = l.cursor /\ o.ready = l.ready /\ o.mode = l.mode
    BY <1>1, <1>13, <2>2, <2>3, Parts, SettleIs
  <2>5. QED
    BY <1>11, <1>12, <1>13, <2>3, <2>4 DEF Listens
<1>14. CASE f.kind = "update"
  <2> DEFINE l == [Absorbed(k, f) EXCEPT !.pending = @ \ f.state]
  <2>1. Absorbs(l, k, f) /\ Listens(l) = (Listens(k) \/ f.kind = "ready") /\ l.mode # "deaf"
    BY <1>1, <1>2, <1>7, <1>14 DEF Absorbs, Absorbed, Memories, Larger, Listens
  <2>2. Settle(c, l)
    BY <1>9, <1>14
  <2> HIDE DEF l
  <2>3. QED
    BY <1>1, <1>2, <1>13, <1>14, <2>1, <2>2 DEF f, k, w
<1>15. CASE f.kind = "snapshot"
  <2> DEFINE l == [Absorbed(k, f) EXCEPT !.saved = Larger(@, f.seq)]
  <2>1. Absorbs(l, k, f) /\ Listens(l) = (Listens(k) \/ f.kind = "ready") /\ l.mode # "deaf"
    BY <1>1, <1>2, <1>7, <1>15 DEF Absorbs, Absorbed, Memories, Larger, Listens
  <2>2. Settle(c, l)
    BY <1>9, <1>15
  <2> HIDE DEF l
  <2>3. QED
    BY <1>1, <1>2, <1>13, <1>15, <2>1, <2>2 DEF f, k, w
<1>16. CASE f.kind = "ready"
  <2> DEFINE l == [Absorbed(k, f) EXCEPT !.ready = TRUE, !.mode = "live", !.queued = @ \cup k.pending]
  <2>1. Absorbs(l, k, f) /\ Listens(l) = (Listens(k) \/ f.kind = "ready") /\ l.mode # "deaf"
    BY <1>2, <1>7, <1>16 DEF Absorbs, Absorbed, Memories, Larger, Listens
  <2>2. Settle(c, l)
    BY <1>9, <1>16
  <2> HIDE DEF l
  <2>3. QED
    BY <1>1, <1>2, <1>13, <1>16, <2>1, <2>2 DEF f, k, w
<1>17. CASE f.kind = "saved"
  <2> DEFINE l == [k EXCEPT !.saved = Larger(@, f.seq), !.saving = FALSE]
  <2>1. client' = [client EXCEPT ![c] = l] /\ uplink' = uplink
    BY <1>2, <1>9, <1>17 DEF k
  <2>2. l \in Memories /\ RecordOk(accepted, born, l) /\ l.cursor = k.cursor /\ l.ready = k.ready
        /\ l.mode = k.mode
    BY <1>2, <1>7 DEF Memories, RecordOk, Larger
  <2> HIDE DEF l
  <2>3. uplink' \in [Clients -> Seq(Messages)] /\ UplinkOk'
    BY <1>1, <2>1, Parts DEF LinkTypes, UplinkOk
  <2>4. /\ k.cursor <= l.cursor /\ Listens(l) = (Listens(k) \/ f.kind = "ready")
        /\ l.mode # "deaf"
        /\ \A x \in Nat : Covers(f, x) => x <= l.cursor
    BY <1>1, <1>2, <1>11, <1>17, <2>2 DEF Memories, Listens
  <2>5. QED
    BY <1>1, <1>2, <2>1, <2>2, <2>3, <2>4 DEF f, k, w
<1>18. QED
  BY <1>7, <1>14, <1>15, <1>16, <1>17

LEMMA ReceiveKeeps ==
    ASSUME IInv, NEW c \in Clients, Receive(c), ~skipped' PROVE IInv'
<1> DEFINE k == client[c]  w == wire[c]  f == w[1]  t == Tail(w)
<1>1. PICK l \in Memories :
        /\ client' = [client EXCEPT ![c] = l] /\ RecordOk(accepted, born, l)
        /\ k.cursor <= l.cursor /\ Listens(l) = (Listens(k) \/ f.kind = "ready")
        /\ k.mode # "deaf" /\ l.mode # "deaf"
        /\ \A x \in Nat : Covers(f, x) => x <= l.cursor
  BY ReceivesIs
<1>2. /\ w # <<>> /\ w \in Seq(Frames)
      /\ uplink' \in [Clients -> Seq(Messages)] /\ UplinkOk'
  BY ReceivesIs
<1>3. /\ wire' = [wire EXCEPT ![c] = t]
      /\ UNCHANGED <<server, unsent, conn, queue, written, stored, request, born>>
  BY DEF Receive
<1>4. LogTypes' /\ LogOk' /\ HttpOk' /\ accepted' = accepted
  <2>1. born' \in born .. MaxUpdates
    BY <1>3, Parts, Made
  <2>2. QED
    BY <1>3, <2>1, Parts, LogSame
<1>5. /\ client \in [Clients -> Memories] /\ k \in Memories /\ k.cursor \in Nat
      /\ Listens(k) \in BOOLEAN /\ l.cursor \in Nat /\ Listens(l) \in BOOLEAN
  <2>1. client \in [Clients -> Memories] /\ k \in Memories
    BY Parts DEF ClientTypes
  <2>2. QED
    BY <2>1 DEF Memories, Listens
<1>6. /\ t \in Seq(Frames)
      /\ \A i \in 1 .. Len(t) : t[i] = w[i + 1] /\ i + 1 \in 1 .. Len(w)
  BY <1>2, HeadTailProperties, EmptySeq
<1> HIDE DEF t
<1>7. LinkTypes'
  BY <1>2, <1>3, <1>6, Parts DEF LinkTypes
<1>8. HubOk'
  BY <1>3, <1>4, Parts DEF HubOk
<1>9. ClientTypes'
  BY <1>1, <1>3, Parts DEF ClientTypes
<1>10. ClientsOk'
  <2> SUFFICES ASSUME NEW d \in Clients
               PROVE  /\ RecordOk(accepted, born, client'[d]) /\ RecordOk(accepted, born, stored[d])
                      /\ Requested(accepted, born, request[d])
    BY <1>3, <1>4 DEF ClientsOk
  <2>1. client'[d] \in {client[d], l}
    BY <1>1, <1>5
  <2>2. QED
    BY <1>1, <2>1, Parts DEF ClientsOk
<1>11. WiresOk'
  <2> SUFFICES ASSUME NEW d \in Clients PROVE WireOk(d)'
    BY DEF WiresOk
  <2>0. WireOk(d)
    BY Parts DEF WiresOk
  <2>1. CASE d = c
    <3> DEFINE up == Connected(c)  cursor == k.cursor  ready == Listens(k)
               later == l.cursor  now == Listens(l)  high == written[c]
    <3>1. wire'[c] = t /\ client'[c] = l /\ written' = written /\ conn' = conn
      BY <1>1, <1>3, <1>5, Parts DEF LinkTypes
    <3>2. Flow(up, high, w, cursor, ready) /\ up \in BOOLEAN /\ high \in Nat
      <4>1. Flow(up, high, w, cursor, ready)
        BY <1>1, <2>0, <2>1 DEF WireOk, FlowOk
      <4>2. up \in BOOLEAN /\ high \in Nat
        BY Parts DEF Connected, LinkTypes
      <4>3. QED
        BY <4>1, <4>2
    <3>3. /\ cursor \in Nat /\ later \in Nat /\ cursor <= later
          /\ ready \in BOOLEAN /\ now \in BOOLEAN
          /\ now = (ready \/ w[1].kind = "ready")
          /\ \A x \in Nat : Covers(w[1], x) => x <= later
      BY <1>1, <1>5
    <3> HIDE DEF up, cursor, ready, later, now, high, w
    <3>4. Flow(up, high, t, later, now)
      BY <1>2, <3>2, <3>3, FlowReceive DEF t
    <3>5. Connected(c)' = up
      BY <3>1 DEF Connected, up
    <3>6. FlowOk(c)'
      BY <3>1, <3>4, <3>5 DEF FlowOk, later, now, high
    <3>7. \A i \in 1 .. Len(w) : Truthful(accepted, w[i])
      BY <2>0, <2>1 DEF WireOk, w
    <3>8. \A i \in 1 .. Len(t) : Truthful(accepted, t[i])
      BY <1>6, <3>7
    <3>9. QED
      BY <1>4, <2>1, <3>1, <3>6, <3>8 DEF WireOk
  <2>2. CASE d # c
    <3>1. /\ conn' = conn /\ wire'[d] = wire[d] /\ written' = written /\ client'[d] = client[d]
      BY <1>1, <1>3, <1>5, <2>2, Parts DEF LinkTypes
    <3>2. Connected(d)' = Connected(d)
      BY <3>1 DEF Connected
    <3>3. QED
      BY <1>4, <2>0, <3>1, <3>2, WireSame
  <2>3. QED
    BY <2>1, <2>2
<1>12. QED
  BY <1>2, <1>4, <1>7, <1>8, <1>9, <1>10, <1>11 DEF IInv

(* A message that is not read; the client is deaf from then on.            *)
LEMMA LostKeeps ==
    ASSUME IInv, NEW c \in Clients, NEW l \in Memories, RecordOk(accepted, born, l),
           l.mode = "deaf", wire[c] # <<>>, wire' = [wire EXCEPT ![c] = Tail(@)],
           client' = [client EXCEPT ![c] = l],
           UNCHANGED <<server, unsent, conn, queue, written, uplink, stored, request, born>>
    PROVE  IInv'
<1> DEFINE w == wire[c]  t == Tail(w)
<1>1. LogTypes' /\ LogOk' /\ HttpOk' /\ accepted' = accepted
  <2>1. born' \in born .. MaxUpdates
    BY Parts, Made
  <2>2. QED
    BY <2>1, Parts, LogSame
<1>2. w \in Seq(Frames)
  BY Parts DEF LinkTypes
<1>3. /\ t \in Seq(Frames)
      /\ \A i \in 1 .. Len(t) : t[i] = w[i + 1] /\ i + 1 \in 1 .. Len(w)
  BY <1>2, HeadTailProperties, EmptySeq
<1> HIDE DEF t
<1>4. wire' = [wire EXCEPT ![c] = t]
  BY DEF t
<1>5. LinkTypes'
  BY <1>3, <1>4, Parts DEF LinkTypes
<1>6. HubOk' /\ UplinkOk'
  BY <1>1, Parts DEF HubOk, UplinkOk
<1>7. ClientTypes'
  BY Parts DEF ClientTypes
<1>8. ClientsOk'
  <2> SUFFICES ASSUME NEW d \in Clients
               PROVE  /\ RecordOk(accepted, born, client'[d]) /\ RecordOk(accepted, born, stored[d])
                      /\ Requested(accepted, born, request[d])
    BY <1>1 DEF ClientsOk
  <2>1. client'[d] \in {client[d], l}
    BY Parts DEF ClientTypes
  <2>2. QED
    BY <2>1, Parts DEF ClientsOk
<1>9. WiresOk'
  <2> SUFFICES ASSUME NEW d \in Clients PROVE WireOk(d)'
    BY DEF WiresOk
  <2>0. WireOk(d)
    BY Parts DEF WiresOk
  <2>1. CASE d = c
    <3>1. wire'[c] = t /\ client'[c] = l
      BY <1>4, Parts DEF LinkTypes, ClientTypes
    <3>2. \A i \in 1 .. Len(w) : Truthful(accepted, w[i])
      BY <2>0, <2>1 DEF WireOk
    <3>3. \A i \in 1 .. Len(t) : Truthful(accepted, t[i])
      BY <1>3, <3>2
    <3>4. QED
      BY <1>1, <2>1, <3>1, <3>3 DEF WireOk, FlowOk
  <2>2. CASE d # c
    <3>1. wire'[d] = wire[d] /\ client'[d] = client[d] /\ conn'[d] = conn[d] /\ written'[d] = written[d]
      BY <2>2, Parts DEF LinkTypes, ClientTypes
    <3>2. Connected(d)' = Connected(d)
      BY <3>1 DEF Connected
    <3>3. QED
      BY <1>1, <2>0, <3>1, <3>2, WireSame
  <2>3. QED
    BY <2>1, <2>2
<1>10. QED
  BY <1>1, <1>5, <1>6, <1>7, <1>8, <1>9 DEF IInv

(* What a gap makes of a client, and that a deaf one stays as it is.       *)
LEMMA LostIs ==
    ASSUME ClientTypes, NEW c \in Clients, Refresh(c) \/ Drop(c)
    PROVE  \E l \in Memories :
             /\ client' = [client EXCEPT ![c] = l] /\ l.mode = "deaf" /\ ~l.ready
             /\ l.doc = client[c].doc /\ l.cursor = client[c].cursor
             /\ l.pending = client[c].pending
<1>1. client \in [Clients -> Memories] /\ client[c] \in Memories
  BY DEF ClientTypes
<1>2. CASE Refresh(c)
  <2> DEFINE l == [client[c] EXCEPT !.ready = FALSE, !.mode = "deaf"]
  <2>1. client' = [client EXCEPT ![c] = l]
    BY <1>1, <1>2 DEF Refresh
  <2>2. /\ l \in Memories /\ l.mode = "deaf" /\ ~l.ready
        /\ l.doc = client[c].doc /\ l.cursor = client[c].cursor /\ l.pending = client[c].pending
    BY <1>1 DEF Memories
  <2> HIDE DEF l
  <2>3. QED
    BY <2>1, <2>2
<1>3. CASE Drop(c)
  <2>1. client' = client /\ client[c].mode = "deaf"
    BY <1>3 DEF Drop
  <2>2. ~client[c].ready
    BY <1>1, <2>1 DEF Memories
  <2>3. client' = [client EXCEPT ![c] = client[c]]
    BY <1>1, <2>1
  <2>4. QED
    BY <1>1, <2>1, <2>2, <2>3
<1>4. QED
  BY <1>2, <1>3

LEMMA LossKeeps ==
    ASSUME IInv, NEW c \in Clients, Refresh(c) \/ Drop(c) PROVE IInv'
<1>1. PICK l \in Memories :
        /\ client' = [client EXCEPT ![c] = l] /\ l.mode = "deaf"
        /\ l.doc = client[c].doc /\ l.cursor = client[c].cursor
        /\ l.pending = client[c].pending
  BY Parts, LostIs
<1>2. RecordOk(accepted, born, l)
  <2>1. RecordOk(accepted, born, client[c])
    BY Parts DEF ClientsOk
  <2>2. QED
    BY <1>1, <2>1 DEF RecordOk
<1>3. /\ wire[c] # <<>> /\ wire' = [wire EXCEPT ![c] = Tail(@)]
      /\ UNCHANGED <<server, unsent, conn, queue, written, uplink, stored, request, born>>
  BY DEF Refresh, Drop, counters
<1>4. QED
  BY <1>1, <1>2, <1>3, LostKeeps

-----------------------------------------------------------------------------
(* The invariant holds at the start and every step keeps it.               *)

LEMMA InitInv ==
    ASSUME Init PROVE IInv
<1>1. /\ accepted = <<>> /\ kept = {} /\ snapshots = {} /\ merges = {} /\ published = {}
      /\ unsent = {} /\ conn = [c \in Clients |-> "down"]
      /\ queue = [c \in Clients |-> <<>>] /\ written = [c \in Clients |-> 0]
      /\ wire = [c \in Clients |-> <<>>] /\ uplink = [c \in Clients |-> <<>>]
      /\ client = [c \in Clients |-> Booted(NewRecord)] /\ stored = [c \in Clients |-> NewRecord]
      /\ request = [c \in Clients |-> NoRequest] /\ born = 0
  BY DEF Init
<1>2. /\ <<>> \in Seq(Nat) /\ <<>> \in Seq(Frames) /\ <<>> \in Seq(Messages) /\ Len(<<>>) = 0
      /\ MaxUpdates \in Nat /\ Buffer \in Nat
  BY CollaborationAssumption
<1>3. /\ NewRecord \in Records /\ Booted(NewRecord) \in Memories /\ NoRequest \in Requests
      /\ Booted(NewRecord).cursor = 0 /\ Listens(Booted(NewRecord)) = FALSE
  BY DEF NewRecord, Booted, NoRequest, Records, Memories, Requests, Listens
<1>4. /\ RecordOk(accepted, born, NewRecord) /\ RecordOk(accepted, born, Booted(NewRecord))
      /\ Requested(accepted, born, NoRequest)
  <2>1. Firsts(accepted, 0) = {}
    BY DEF Firsts
  <2>2. QED
    BY <1>1, <1>2, <2>1 DEF NewRecord, Booted, NoRequest, RecordOk, Requested
<1>5. LogTypes
  BY <1>1, <1>2 DEF LogTypes
<1>6. LinkTypes
  BY <1>1, <1>2 DEF LinkTypes
<1>7. ClientTypes
  BY <1>1, <1>3 DEF ClientTypes
<1>8. LogOk
  BY <1>1, <1>2 DEF LogOk, Latest
<1>9. HubOk /\ UplinkOk
  BY <1>1, <1>2 DEF HubOk, UplinkOk
<1>10. ClientsOk
  BY <1>1, <1>4 DEF ClientsOk
<1>11. HttpOk
  BY <1>1 DEF HttpOk
<1>12. WiresOk
  <2> SUFFICES ASSUME NEW c \in Clients PROVE WireOk(c)
    BY DEF WiresOk
  <2>1. /\ conn[c] = "down" /\ wire[c] = <<>> /\ written[c] = 0
        /\ client[c].cursor = 0 /\ Listens(client[c]) = FALSE
    BY <1>1, <1>3
  <2>2. Connected(c) = FALSE
    BY <2>1 DEF Connected
  <2>3. Flow(FALSE, 0, <<>>, 0, FALSE)
    BY FlowDown
  <2>4. FlowOk(c)
    BY <2>1, <2>2, <2>3 DEF FlowOk
  <2>5. \A i \in 1 .. Len(wire[c]) : Truthful(accepted, wire[c][i])
    BY <2>1
  <2>6. QED
    BY <2>4, <2>5 DEF WireOk
<1>13. QED
  BY <1>5, <1>6, <1>7, <1>8, <1>9, <1>10, <1>11, <1>12 DEF IInv

LEMMA NextInv ==
    ASSUME IInv, [Next]_vars, ~skipped' PROVE IInv'
<1>1. CASE UNCHANGED vars
  BY <1>1, Unmoved DEF vars, counters
<1>2. CASE Next
  <2>1. ASSUME NEW c \in Clients, Work(c) PROVE IInv'
    <3>1. CASE Join(c)
      BY <3>1, JoinKeeps
    <3>2. CASE Recover(c)
      BY <3>2, RecoverKeeps
    <3>3. CASE Hangup(c)
      BY <3>3, HangupKeeps
    <3>4. CASE Forward(c)
      BY <3>4, ForwardKeeps
    <3>5. CASE Poll(c)
      BY <3>5, PollKeeps
    <3>6. CASE HandleUpdate(c)
      BY <3>6, HandleUpdateKeeps
    <3>7. CASE SaveSnapshot(c)
      BY <3>7, SaveSnapshotKeeps
    <3>8. CASE Persist(c)
      BY <3>8, PersistKeeps
    <3>9. CASE Refresh(c) \/ Drop(c)
      BY <3>9, LossKeeps
    <3>10. CASE Receive(c)
      BY <3>10, ReceiveKeeps
    <3>11. CASE Merge(c)
      BY <3>11, MergeKeeps
    <3>12. CASE Publish(c)
      BY <3>12, PublishKeeps
    <3>13. CASE Refuse(c)
      BY <3>13, RefuseKeeps
    <3>14. QED
      BY <2>1, <3>1, <3>2, <3>3, <3>4, <3>5, <3>6, <3>7, <3>8, <3>9, <3>10, <3>11, <3>12, <3>13
         DEF Work
  <2>2. ASSUME NEW c \in Clients, Edit(c) PROVE IInv'
    BY <2>2, EditKeeps
  <2>3. ASSUME NEW c \in Clients, PrepareMerge(c) \/ PreparePublish(c) PROVE IInv'
    BY <2>3, PreparesKeep
  <2>4. ASSUME NEW c \in Clients, LoseConnection(c) PROVE IInv'
    BY <2>4, LoseConnectionKeeps
  <2>5. ASSUME NEW c \in Clients, Reopen(c) PROVE IInv'
    BY <2>5, ReopenKeeps
  <2>6. ASSUME NEW m \in unsent, Broadcast(m) PROVE IInv'
    BY <2>6, BroadcastKeeps
  <2>7. QED
    BY <1>2, <2>1, <2>2, <2>3, <2>4, <2>5, <2>6 DEF Next
<1>3. QED
  BY <1>1, <1>2

(* What is past stays so.                                                  *)
LEMMA SkippedStays ==
    ASSUME skipped, [Next]_vars PROVE skipped'
<1>1. CASE UNCHANGED vars
  BY <1>1 DEF vars, counters
<1>2. CASE Next
  <2>1. ASSUME NEW c \in Clients, Work(c) PROVE skipped'
    <3>1. CASE Receive(c)
      BY <3>1 DEF Receive
    <3>2. CASE ~Receive(c)
      BY <2>1, <3>2 DEF Work, Join, Recover, Hangup, Forward, Poll, HandleUpdate, SaveSnapshot,
                        Persist, Refresh, Drop, Merge, Publish, Refuse, counters
    <3>3. QED
      BY <3>1, <3>2
  <2>2. QED
    BY <1>2, <2>1 DEF Next, Edit, PrepareMerge, PreparePublish, LoseConnection, Reopen, Broadcast
<1>3. QED
  BY <1>1, <1>2

LEMMA Invariance == Spec => [](skipped \/ IInv)
<1>1. Init => skipped \/ IInv
  BY InitInv
<1>2. (skipped \/ IInv) /\ [Next]_vars => (skipped \/ IInv)'
  BY NextInv, SkippedStays
<1>3. QED
  BY <1>1, <1>2, PTL DEF Spec

-----------------------------------------------------------------------------
(* What the invariant says of the model's properties.                      *)

LEMMA UpToIs == \A n : UpTo(n) = Firsts(accepted, n)
BY DEF UpTo, Firsts

LEMMA TypesFollow == ASSUME IInv PROVE TypeOK
<1>1. /\ accepted \in Seq(Nat) /\ Latest \in Nat /\ Latest = Len(accepted)
      /\ born \in Nat /\ MaxUpdates \in Nat /\ born <= MaxUpdates
  BY Parts, Made
<1>2. \A x \in 1 .. born : x \in Update
  BY <1>1 DEF Update
<1>3. \A n \in 1 .. Latest : accepted[n] \in 1 .. born
  BY Parts DEF LogOk
<1>4. accepted \in Seq(Update)
  BY <1>1, <1>2, <1>3
<1>5. \A n \in 0 .. Latest : Firsts(accepted, n) \subseteq 1 .. born
  <2> SUFFICES ASSUME NEW n \in 0 .. Latest, NEW i \in 1 .. n PROVE accepted[i] \in 1 .. born
    BY DEF Firsts
  <2>1. i \in 1 .. Latest
    BY <1>1
  <2>2. QED
    BY <1>3, <2>1
<1>6. kept \subseteq 1 .. Latest
  BY Parts DEF LogOk
<1>7. ASSUME NEW s \in snapshots PROVE s.seq \in 0 .. Latest /\ s.state \subseteq Update
  <2>1. s.seq \in 0 .. Latest /\ s.state = Firsts(accepted, s.seq)
    BY <1>1, Parts DEF LogTypes, LogOk
  <2>2. QED
    BY <1>2, <1>5, <2>1
<1>8. ASSUME NEW c \in Clients
      PROVE  /\ conn[c] \in {"down", "joined", "lapsed", "open", "closing", "denied"}
             /\ Len(queue[c]) <= Buffer
             /\ client[c].cursor \in 0 .. Latest /\ client[c].doc \subseteq 1 .. born
             /\ client[c].pending \subseteq client[c].doc
             /\ client[c].ready => Connected(c) /\ client[c].mode = "live"
  <2>1. /\ conn[c] \in {"down", "joined", "lapsed", "open", "closing", "denied"}
        /\ Len(queue[c]) <= Buffer
    BY Parts DEF LinkTypes, HubOk
  <2>2. client[c] \in Memories /\ RecordOk(accepted, born, client[c])
    BY Parts DEF ClientTypes, ClientsOk
  <2>3. client[c].cursor \in 0 .. Latest
    BY <1>1, <2>2 DEF Memories, RecordOk
  <2>4. client[c].doc \subseteq 1 .. born /\ client[c].pending \subseteq client[c].doc
    BY <1>5, <2>2, <2>3 DEF RecordOk
  <2>5. client[c].ready => Connected(c) /\ client[c].mode = "live"
    <3>1. client[c].ready => client[c].mode = "live"
      BY <2>2 DEF Memories
    <3>2. QED
      BY <3>1, Parts DEF WiresOk, WireOk, FlowOk, Flow, Listens
  <2>6. QED
    BY <2>1, <2>3, <2>4, <2>5
<1>9. QED
  BY <1>4, <1>6, <1>7, <1>8 DEF TypeOK

LEMMA CursorFollows == ASSUME IInv PROVE CursorIsComplete
<1> SUFFICES ASSUME NEW c \in Clients
             PROVE  /\ Firsts(accepted, client[c].cursor) \subseteq client[c].doc
                    /\ Firsts(accepted, stored[c].cursor) \subseteq stored[c].doc
  BY UpToIs DEF CursorIsComplete
<1>1. RecordOk(accepted, born, client[c]) /\ RecordOk(accepted, born, stored[c])
  BY Parts DEF ClientsOk
<1>2. QED
  BY <1>1 DEF RecordOk

LEMMA NothingFollows == ASSUME IInv PROVE NothingIsLost
<1> DEFINE R == Recovery(0)
<1>1. Latest \in Nat /\ 0 \in 0 .. Latest
  BY Parts, Made
<1>2. Recovers(R, 0, Latest) /\ \A i \in 1 .. Len(R) : Truthful(accepted, R[i])
  BY <1>1, Parts, RecoveryIs
<1> HIDE DEF R
<1>3. /\ R \in Seq(Frames) /\ Len(R) \in Nat \ {0} /\ R[Len(R)].kind = "ready"
      /\ \A i \in 1 .. Len(R) - 1 : R[i].kind \in {"update", "snapshot"}
      /\ \A k \in 0 + 1 .. Latest : \E j \in 1 .. Len(R) - 1 : Covers(R[j], k)
  BY <1>2 DEF Recovers
<1>4. Range(R) = {R[i] : i \in 1 .. Len(R)}
  BY <1>3 DEF Range
<1>5. ASSUME NEW i \in 1 .. Len(R) PROVE R[i].state \subseteq Firsts(accepted, Latest)
  <2>1. R[i].seq \in Nat /\ R[i].seq <= Latest
    <3>1. R[i] \in Frames
      BY <1>3
    <3>2. R[i].seq <= Len(accepted)
      BY <1>2 DEF Truthful
    <3>3. QED
      BY <3>1, <3>2, Parts, Made DEF Frames
  <2>2. R[i].kind \in {"update", "snapshot", "ready"}
    <3>1. i \in 1 .. Len(R) - 1 \/ i = Len(R)
      BY <1>3
    <3>2. QED
      BY <1>3, <3>1
  <2>3. CASE R[i].kind = "update"
    <3>1. R[i].state = {accepted[R[i].seq]} /\ R[i].seq \in 1 .. Latest
      BY <1>2, <2>1, <2>3 DEF Truthful
    <3>2. QED
      BY <3>1 DEF Firsts
  <2>4. CASE R[i].kind = "snapshot"
    <3>1. R[i].state = Firsts(accepted, R[i].seq)
      BY <1>2, <2>4 DEF Truthful
    <3>2. QED
      BY <1>1, <2>1, <3>1, FirstsJoin
  <2>5. CASE R[i].kind = "ready"
    BY <1>2, <2>5 DEF Truthful
  <2>6. QED
    BY <2>2, <2>3, <2>4, <2>5
<1>6. ASSUME NEW k \in 1 .. Latest PROVE \E i \in 1 .. Len(R) : accepted[k] \in R[i].state
  <2>1. PICK j \in 1 .. Len(R) - 1 : Covers(R[j], k)
    <3>1. k \in 0 + 1 .. Latest
      BY <1>1
    <3>2. QED
      BY <1>3, <3>1
  <2>2. j \in 1 .. Len(R) /\ R[j] \in Frames
    BY <1>3
  <2>3. CASE R[j].kind = "update" /\ R[j].seq = k
    BY <1>2, <2>2, <2>3 DEF Truthful
  <2>4. CASE R[j].kind = "snapshot" /\ k <= R[j].seq
    <3>1. R[j].state = Firsts(accepted, R[j].seq) /\ R[j].seq \in Nat
      BY <1>2, <2>2, <2>4 DEF Truthful, Frames
    <3>2. k \in 1 .. R[j].seq
      BY <2>4, <3>1
    <3>3. accepted[k] \in R[j].state
      BY <3>1, <3>2 DEF Firsts
    <3>4. QED
      BY <2>2, <3>3
  <2>5. QED
    BY <2>1, <2>3, <2>4 DEF Covers
<1>7. UNION {f.state : f \in Range(R)} = Firsts(accepted, Latest)
  <2>1. \A x \in UNION {f.state : f \in Range(R)} : x \in Firsts(accepted, Latest)
    BY <1>4, <1>5
  <2>2. \A x \in Firsts(accepted, Latest) : x \in UNION {f.state : f \in Range(R)}
    BY <1>4, <1>6 DEF Firsts
  <2>3. QED
    BY <2>1, <2>2
<1>8. QED
  BY <1>7, UpToIs DEF NothingIsLost, R

LEMMA ExactnessFollows ==
    ASSUME IInv PROVE SnapshotsAreExact /\ PublishedIsExact /\ MergesSeeEverything
<1>1. SnapshotsAreExact
  BY Parts, UpToIs DEF LogOk, SnapshotsAreExact
<1>2. PublishedIsExact /\ MergesSeeEverything
  BY Parts, UpToIs DEF HttpOk, PublishedIsExact, MergesSeeEverything
<1>3. QED
  BY <1>1, <1>2

-----------------------------------------------------------------------------
(* Nobody waits for an echo.                                               *)

(* A snapshot on the way has compacted what it covers, and a ready frame   *)
(* comes after it.                                                         *)
Leads(w) ==
    \A i \in 1 .. Len(w) : w[i].kind = "snapshot" =>
        /\ \A n \in kept : n > w[i].seq
        /\ \E j \in i + 1 .. Len(w) : w[j].kind = "ready"

(* No row that a record has passed is of an update that is pending there.  *)
Confirmed(r) == \A n \in kept : n <= r.cursor => accepted[n] \notin r.pending

Requeues(w) == \E i \in 1 .. Len(w) : w[i].kind = "ready"
Sends(m, u) == \E i \in 1 .. Len(m) : m[i].kind = "update" /\ m[i].id = u
Ahead(cursor, u) == \E n \in 1 .. Latest : cursor < n /\ accepted[n] = u

(* What a ready client waits for is about to be sent, or will be with the  *)
(* next ready frame, or is on its way to the server, or has a sequence     *)
(* that the client has not reached.                                        *)
Awaited(k, w, m) ==
    k.ready => \A u \in k.pending :
        u \in k.queued \/ Requeues(w) \/ Sends(m, u) \/ Ahead(k.cursor, u)

EchoOk(c) ==
    /\ Leads(wire[c]) /\ Confirmed(client[c]) /\ Confirmed(stored[c])
    /\ Awaited(client[c], wire[c], uplink[c])

EchoInv == \A c \in Clients : EchoOk(c)

LEMMA LeadsTail ==
    ASSUME NEW w \in Seq(Frames), w # <<>>, Leads(w)
    PROVE  /\ Leads(Tail(w))
           /\ w[1].kind = "snapshot" => Requeues(Tail(w)) /\ \A n \in kept : n > w[1].seq
           /\ w[1].kind # "ready" /\ Requeues(w) => Requeues(Tail(w))
<1> DEFINE t == Tail(w)
<1>1. /\ t \in Seq(Frames) /\ Len(w) \in Nat /\ 1 \in 1 .. Len(w) /\ Len(t) = Len(w) - 1
      /\ \A i \in 1 .. Len(t) : t[i] = w[i + 1]
  BY HeadTailProperties, EmptySeq
<1> HIDE DEF t
<1>2. ASSUME NEW i \in 1 .. Len(w), i # 1
      PROVE  i - 1 \in 1 .. Len(t) /\ t[i - 1] = w[i]
  <2> DEFINE p == i - 1
  <2>1. p \in 1 .. Len(t) /\ p + 1 = i
    BY <1>1, <1>2
  <2> HIDE DEF p
  <2>2. t[p] = w[i]
    BY <1>1, <2>1
  <2>3. QED
    BY <2>1, <2>2 DEF p
<1>3. Leads(t)
  <2> SUFFICES ASSUME NEW i \in 1 .. Len(t), t[i].kind = "snapshot"
               PROVE  /\ \A n \in kept : n > t[i].seq
                      /\ \E j \in i + 1 .. Len(t) : t[j].kind = "ready"
    BY DEF Leads
  <2> DEFINE q == i + 1
  <2>1. q \in 1 .. Len(w) /\ t[i] = w[q]
    BY <1>1
  <2> HIDE DEF q
  <2>2. /\ \A n \in kept : n > t[i].seq
        /\ \E j \in q + 1 .. Len(w) : w[j].kind = "ready"
    BY <2>1 DEF Leads
  <2>3. PICK j \in q + 1 .. Len(w) : w[j].kind = "ready"
    BY <2>2
  <2>4. j \in 1 .. Len(w) /\ j # 1 /\ j - 1 \in i + 1 .. Len(t)
    BY <1>1, <2>1, <2>3 DEF q
  <2>5. t[j - 1].kind = "ready"
    BY <1>2, <2>3, <2>4
  <2>6. QED
    BY <2>2, <2>4, <2>5
<1>4. ASSUME w[1].kind = "snapshot"
      PROVE  Requeues(t) /\ \A n \in kept : n > w[1].seq
  <2>1. /\ \A n \in kept : n > w[1].seq
        /\ \E j \in 1 + 1 .. Len(w) : w[j].kind = "ready"
    BY <1>1, <1>4 DEF Leads
  <2>2. PICK j \in 1 + 1 .. Len(w) : w[j].kind = "ready"
    BY <2>1
  <2>3. j \in 1 .. Len(w) /\ j # 1
    BY <1>1
  <2>4. QED
    BY <1>2, <2>1, <2>2, <2>3 DEF Requeues
<1>5. ASSUME w[1].kind # "ready", Requeues(w) PROVE Requeues(t)
  <2>1. PICK i \in 1 .. Len(w) : w[i].kind = "ready"
    BY <1>5 DEF Requeues
  <2>2. QED
    BY <1>2, <1>5, <2>1 DEF Requeues
<1>6. QED
  BY <1>3, <1>4, <1>5 DEF t

LEMMA LeadsJoin ==
    ASSUME NEW w \in Seq(Frames), NEW R \in Seq(Frames), Leads(w), Leads(R)
    PROVE  Leads(w \o R) /\ (Requeues(w) \/ Requeues(R) => Requeues(w \o R))
<1> DEFINE v == w \o R  m == Len(w)
<1>1. /\ v \in Seq(Frames) /\ m \in Nat /\ Len(R) \in Nat /\ Len(v) = m + Len(R)
      /\ \A i \in 1 .. m + Len(R) : v[i] = IF i <= m THEN w[i] ELSE R[i - m]
  BY ConcatProperties
<1> HIDE DEF v, m
<1>2. \A i \in 1 .. m : i \in 1 .. Len(v) /\ v[i] = w[i]
  BY <1>1
<1>3. ASSUME NEW i \in 1 .. Len(R) PROVE m + i \in 1 .. Len(v) /\ v[m + i] = R[i]
  <2> DEFINE p == m + i
  <2>1. p \in 1 .. Len(v) /\ ~(p <= m) /\ p - m = i
    BY <1>1
  <2> HIDE DEF p
  <2>2. v[p] = R[i]
    BY <1>1, <2>1
  <2>3. QED
    BY <2>1, <2>2 DEF p
<1>4. ASSUME NEW i \in 1 .. Len(v), v[i].kind = "snapshot"
      PROVE  /\ \A n \in kept : n > v[i].seq
             /\ \E j \in i + 1 .. Len(v) : v[j].kind = "ready"
  <2>1. CASE i <= m
    <3>1. i \in 1 .. Len(w) /\ v[i] = w[i]
      BY <1>1, <1>2, <2>1 DEF m
    <3>2. PICK j \in i + 1 .. Len(w) : w[j].kind = "ready"
      BY <1>4, <3>1 DEF Leads
    <3>3. j \in i + 1 .. Len(v) /\ v[j].kind = "ready"
      BY <1>1, <1>2, <3>2 DEF m
    <3>4. QED
      BY <1>4, <3>1, <3>3 DEF Leads
  <2>2. CASE ~(i <= m)
    <3> DEFINE q == i - m
    <3>1. q \in 1 .. Len(R) /\ i = m + q
      BY <1>1, <2>2
    <3> HIDE DEF q
    <3>2. v[i] = R[q]
      BY <1>3, <3>1
    <3>3. PICK j \in q + 1 .. Len(R) : R[j].kind = "ready"
      BY <1>4, <3>1, <3>2 DEF Leads
    <3>4. m + j \in i + 1 .. Len(v) /\ j \in 1 .. Len(R)
      BY <1>1, <3>1, <3>3
    <3>5. v[m + j].kind = "ready"
      BY <1>3, <3>3, <3>4
    <3>6. QED
      BY <1>4, <3>1, <3>2, <3>4, <3>5 DEF Leads
  <2>3. QED
    BY <2>1, <2>2
<1>5. Leads(v)
  BY <1>4 DEF Leads
<1>6. Requeues(w) => Requeues(v)
  BY <1>2 DEF Requeues, m
<1>7. Requeues(R) => Requeues(v)
  BY <1>3 DEF Requeues
<1>8. QED
  BY <1>5, <1>6, <1>7 DEF v

LEMMA RecoveryLeads ==
    ASSUME LogTypes, LogOk, NEW cursor \in 0 .. Latest
    PROVE  /\ Recovery(cursor) \in Seq(Frames)
           /\ Leads(Recovery(cursor)) /\ Requeues(Recovery(cursor))
<1> DEFINE R == Recovery(cursor)
<1>1. /\ Recovers(R, cursor, Latest)
      /\ \A i \in 1 .. Len(R) : R[i].kind = "snapshot" => \A n \in kept : n > R[i].seq
  BY RecoveryIs
<1> HIDE DEF R
<1>2. R \in Seq(Frames) /\ Len(R) \in Nat \ {0} /\ R[Len(R)].kind = "ready"
  BY <1>1 DEF Recovers
<1>3. Requeues(R)
  BY <1>2 DEF Requeues
<1>4. ASSUME NEW i \in 1 .. Len(R), R[i].kind = "snapshot"
      PROVE  \E j \in i + 1 .. Len(R) : R[j].kind = "ready"
  <2>1. i # Len(R)
    BY <1>2, <1>4
  <2>2. Len(R) \in i + 1 .. Len(R)
    BY <1>2, <2>1
  <2>3. QED
    BY <1>2, <2>2
<1>5. Leads(R)
  BY <1>1, <1>4 DEF Leads
<1>6. QED
  BY <1>2, <1>3, <1>5 DEF R

-----------------------------------------------------------------------------
(* Steps that accept and compact nothing.                                  *)

LEMMA EchoStays ==
    ASSUME UNCHANGED <<accepted, kept>>, NEW c, Leads(wire'[c]),
           Confirmed(client'[c]), Confirmed(stored'[c]), Awaited(client'[c], wire'[c], uplink'[c])
    PROVE  EchoOk(c)'
<1>1. accepted' = accepted /\ kept' = kept /\ Latest' = Latest
  BY DEF Latest
<1>2. Leads(wire[c])' /\ Confirmed(client[c])' /\ Confirmed(stored[c])'
  BY <1>1 DEF Leads, Confirmed
<1>3. Awaited(client[c], wire[c], uplink[c])'
  BY <1>1 DEF Awaited, Requeues, Sends, Ahead
<1>4. QED
  BY <1>2, <1>3 DEF EchoOk

LEMMA EchoOf ==
    ASSUME EchoInv, NEW c \in Clients
    PROVE  /\ Leads(wire[c]) /\ Confirmed(client[c]) /\ Confirmed(stored[c])
           /\ Awaited(client[c], wire[c], uplink[c])
BY DEF EchoInv, EchoOk

LEMMA EchoSame ==
    ASSUME EchoInv, UNCHANGED <<accepted, kept, wire, uplink, client, stored>>
    PROVE  EchoInv'
<1> SUFFICES ASSUME NEW c \in Clients PROVE EchoOk(c)'
  BY DEF EchoInv
<1>1. QED
  BY EchoOf, EchoStays

(* More is sent to one client.                                             *)
LEMMA EchoSent ==
    ASSUME IInv, EchoInv, NEW c \in Clients, NEW w,
           Leads(w), client[c].ready /\ Requeues(wire[c]) => Requeues(w),
           wire' = [wire EXCEPT ![c] = w], UNCHANGED <<accepted, kept, uplink, client, stored>>
    PROVE  EchoInv'
<1> SUFFICES ASSUME NEW d \in Clients PROVE EchoOk(d)'
  BY DEF EchoInv
<1>1. wire \in [Clients -> Seq(Frames)]
  BY Parts DEF LinkTypes
<1>2. Leads(wire'[d])
  BY <1>1, EchoOf
<1>3. client[d].ready /\ Requeues(wire[d]) => Requeues(wire'[d])
  BY <1>1
<1>4. Awaited(client[d], wire'[d], uplink[d])
  BY <1>3, EchoOf DEF Awaited
<1>5. QED
  BY <1>2, <1>4, EchoOf, EchoStays

LEMMA CursorIn ==
    ASSUME IInv, NEW c \in Clients
    PROVE  client[c].cursor \in 0 .. Latest /\ client[c].cursor \in Nat /\ Latest \in Nat
<1>1. client[c] \in Memories /\ client[c].cursor <= Len(accepted)
  BY Parts DEF ClientTypes, ClientsOk, RecordOk
<1>2. client[c].cursor \in Nat
  BY <1>1 DEF Memories
<1>3. QED
  BY <1>1, <1>2, Parts, Made

LEMMA RecoverEchoes ==
    ASSUME IInv, EchoInv, NEW c \in Clients, Recover(c) PROVE EchoInv'
<1> DEFINE R == Recovery(client[c].cursor)
<1>1. /\ conn[c] \in {"joined", "lapsed"} /\ wire' = [wire EXCEPT ![c] = R]
      /\ UNCHANGED <<accepted, kept, uplink, client, stored>>
  BY DEF Recover, server
<1>2. Leads(R) /\ Requeues(R)
  BY CursorIn, Parts, RecoveryLeads
<1> HIDE DEF R
<1>3. QED
  BY <1>1, <1>2, EchoSent

LEMMA PollEchoes ==
    ASSUME IInv, EchoInv, NEW c \in Clients, Poll(c) PROVE EchoInv'
<1> DEFINE w == wire[c]  R == Recovery(written[c])  v == w \o R
<1>1. /\ Latest > written[c] /\ wire' = [wire EXCEPT ![c] = v]
      /\ UNCHANGED <<accepted, kept, uplink, client, stored>>
  BY DEF Poll, server
<1>2. written[c] \in Nat /\ w \in Seq(Frames)
  BY Parts DEF LinkTypes
<1>3. R \in Seq(Frames) /\ Leads(R) /\ Requeues(R)
  <2>1. written[c] \in 0 .. Latest
    BY <1>1, <1>2, Parts, Made
  <2>2. QED
    BY <2>1, Parts, RecoveryLeads
<1>4. Leads(w)
  BY EchoOf
<1> HIDE DEF R, w
<1>5. Leads(v) /\ Requeues(v)
  BY <1>2, <1>3, <1>4, LeadsJoin
<1> HIDE DEF v
<1>6. QED
  BY <1>1, <1>5, EchoSent

LEMMA ForwardEchoes ==
    ASSUME IInv, EchoInv, NEW c \in Clients, Forward(c) PROVE EchoInv'
<1> DEFINE w == wire[c]  q == queue[c]  f == Head(q)  R == <<f>>  v == w \o R
<1>1. /\ q # <<>> /\ wire' = [wire EXCEPT ![c] = Append(@, f)]
      /\ UNCHANGED <<accepted, kept, uplink, client, stored>>
  BY DEF Forward, server
<1>2. q \in Seq(Frames) /\ w \in Seq(Frames)
  BY Parts DEF LinkTypes
<1>3. f \in Frames /\ f.kind \in {"update", "saved"}
  <2>1. 1 \in 1 .. Len(q) /\ f = q[1] /\ f \in Frames
    BY <1>1, <1>2, HeadTailProperties, EmptySeq
  <2>2. QED
    BY <2>1, Parts DEF HubOk, Broadcasted
<1>4. Append(w, f) = v
  BY <1>2, <1>3
<1>5. R \in Seq(Frames) /\ Leads(R)
  <2>1. R \in Seq(Frames) /\ Len(R) = 1 /\ R[1] = f
    BY <1>3
  <2>2. \A i \in 1 .. Len(R) : R[i].kind # "snapshot"
    BY <1>3, <2>1
  <2>3. QED
    BY <2>1, <2>2 DEF Leads
<1>6. Leads(w)
  BY EchoOf
<1> HIDE DEF R, f, q
<1>7. Leads(v) /\ (Requeues(w) => Requeues(v))
  BY <1>2, <1>5, <1>6, LeadsJoin
<1>8. wire' = [wire EXCEPT ![c] = v]
  BY <1>1, <1>4
<1> HIDE DEF v
<1>9. QED
  BY <1>1, <1>7, <1>8, EchoSent DEF w

(* A connection ends, and the client keeps what it had or had stored.      *)
LEMMA ClosedEchoes ==
    ASSUME IInv, EchoInv, NEW c \in Clients, Close(c, "down"), NEW k, ~k.ready, Confirmed(k),
           client' = [client EXCEPT ![c] = k], Cut(c), UNCHANGED <<accepted, kept, stored>>
    PROVE  EchoInv'
<1> SUFFICES ASSUME NEW d \in Clients PROVE EchoOk(d)'
  BY DEF EchoInv
<1>1. /\ wire' = [wire EXCEPT ![c] = <<>>]
      /\ wire \in [Clients -> Seq(Frames)] /\ uplink \in [Clients -> Seq(Messages)]
      /\ client \in [Clients -> Memories]
  BY Parts DEF Close, LinkTypes, ClientTypes
<1>2. PICK n \in 0 .. Len(uplink[c]) : uplink' = [uplink EXCEPT ![c] = SubSeq(@, 1, n)]
  BY DEF Cut
<1>3. CASE d = c
  <2>1. wire'[c] = <<>> /\ client'[c] = k
    BY <1>1
  <2>2. Leads(<<>>)
    BY DEF Leads
  <2>3. Awaited(k, <<>>, uplink'[c])
    BY DEF Awaited
  <2>4. QED
    BY <1>3, <2>1, <2>2, <2>3, EchoOf, EchoStays
<1>4. CASE d # c
  <2>1. wire'[d] = wire[d] /\ client'[d] = client[d] /\ uplink'[d] = uplink[d]
    BY <1>1, <1>2, <1>4
  <2>2. QED
    BY <2>1, EchoOf, EchoStays
<1>5. QED
  BY <1>3, <1>4

LEMMA ClosingEchoes ==
    ASSUME IInv, EchoInv, NEW c \in Clients,
           LoseConnection(c) \/ Hangup(c) \/ Reopen(c)
    PROVE  EchoInv'
<1>1. /\ Close(c, "down") /\ Cut(c) /\ UNCHANGED <<accepted, kept, stored>>
      /\ \/ client' = [client EXCEPT ![c] = Offline(c)]
         \/ client' = [client EXCEPT ![c] = Booted(stored[c])]
  BY DEF LoseConnection, Hangup, Reopen, server
<1>2. ~Offline(c).ready /\ ~Booted(stored[c]).ready
  BY Parts, OfflineIs DEF Listens
<1>3. Confirmed(Offline(c)) /\ Confirmed(Booted(stored[c]))
  <2>1. /\ Offline(c).cursor = client[c].cursor /\ Offline(c).pending = client[c].pending
        /\ Booted(stored[c]).cursor = stored[c].cursor
        /\ Booted(stored[c]).pending = stored[c].pending
    BY Parts DEF ClientTypes, Memories, Offline, Booted
  <2>2. QED
    BY <2>1, EchoOf DEF Confirmed
<1>4. QED
  BY <1>1, <1>2, <1>3, ClosedEchoes

-----------------------------------------------------------------------------
(* Steps of the server that accept or compact.                             *)

LEMMA TakeSends ==
    ASSUME LinkTypes, NEW c \in Clients, uplink[c] # <<>>, Take(c), NEW d \in Clients, NEW u,
           Sends(uplink[d], u)
    PROVE  \/ Sends(uplink'[d], u)
           \/ d = c /\ Head(uplink[c]).kind = "update" /\ Head(uplink[c]).id = u
<1> DEFINE m == uplink[c]  t == Tail(m)
<1>1. uplink' = [uplink EXCEPT ![c] = t] /\ uplink \in [Clients -> Seq(Messages)]
  BY DEF Take, LinkTypes
<1>2. m \in Seq(Messages) /\ m # <<>>
  BY <1>1
<1>3. /\ t \in Seq(Messages) /\ Len(m) \in Nat /\ Len(t) = Len(m) - 1 /\ Head(m) = m[1]
      /\ \A i \in 1 .. Len(t) : t[i] = m[i + 1]
  <2> HIDE DEF m
  <2>1. QED
    BY <1>2, HeadTailProperties, EmptySeq
<1> HIDE DEF t
<1>4. CASE d # c
  BY <1>1, <1>4
<1>5. CASE d = c
  <2>1. PICK i \in 1 .. Len(m) : m[i].kind = "update" /\ m[i].id = u
    BY <1>5 DEF Sends
  <2>2. uplink'[c] = t
    BY <1>1
  <2> HIDE DEF m
  <2>3. CASE i = 1
    BY <1>3, <1>5, <2>1, <2>3 DEF m
  <2>4. CASE i # 1
    <3> DEFINE p == i - 1
    <3>1. p \in 1 .. Len(t) /\ p + 1 = i
      BY <1>3, <2>1, <2>4
    <3> HIDE DEF p
    <3>2. t[p] = m[i]
      BY <1>3, <3>1
    <3>3. Sends(t, u)
      BY <2>1, <3>1, <3>2 DEF Sends
    <3>4. QED
      BY <1>5, <2>2, <3>3
  <2>5. QED
    BY <2>3, <2>4
<1>6. QED
  BY <1>4, <1>5

(* An update accepted: by whoever waits for it, ahead.                     *)
LEMMA AcceptAhead ==
    ASSUME IInv, EchoInv, NEW u \in 1 .. born, Accept(u), UNCHANGED <<snapshots, born>>,
           UNCHANGED <<wire, client, stored>>
    PROVE  \A c \in Clients :
             /\ Leads(wire[c])' /\ Confirmed(client[c])' /\ Confirmed(stored[c])'
             /\ \A x : Ahead(client[c].cursor, x) => Ahead(client[c].cursor, x)'
             /\ u \in client[c].pending => Ahead(client[c].cursor, u)'
<1> SUFFICES ASSUME NEW c \in Clients
             PROVE  /\ Leads(wire[c])' /\ Confirmed(client[c])' /\ Confirmed(stored[c])'
                    /\ \A x : Ahead(client[c].cursor, x) => Ahead(client[c].cursor, x)'
                    /\ u \in client[c].pending => Ahead(client[c].cursor, u)'
  OBVIOUS
<1> DEFINE q == SequenceOf(u)
<1>1. /\ accepted' \in Seq(Nat) /\ Extends(accepted', accepted)
      /\ q \in 1 .. Latest' /\ accepted'[q] = u
  BY Parts, AcceptIs DEF Latest
<1>2. /\ Latest \in Nat /\ Latest' \in Nat /\ Latest <= Latest'
      /\ \A n \in 1 .. Latest : accepted'[n] = accepted[n]
  BY <1>1, Parts, Made DEF Extends, Latest
<1>3. kept \in SUBSET (1 .. Latest) /\ kept' \subseteq kept \cup {Latest + 1}
  BY Parts DEF Accept, LogOk
<1>4. /\ q \in kept \/ q = Latest + 1
      /\ q \in kept => accepted[q] = u
  <2>1. CASE RowsOf(u) # {}
    <3>1. q \in RowsOf(u)
      BY <2>1 DEF SequenceOf
    <3>2. QED
      BY <3>1 DEF RowsOf
  <2>2. CASE RowsOf(u) = {}
    <3>1. q = Latest + 1
      BY <2>2 DEF SequenceOf
    <3>2. Latest + 1 \notin kept
      BY <1>2, <1>3
    <3>3. QED
      BY <3>1, <3>2
  <2>3. QED
    BY <2>1, <2>2
<1>5. /\ client[c].cursor \in Nat /\ client[c].cursor <= Latest
      /\ stored[c].cursor \in Nat /\ stored[c].cursor <= Latest
  <2>1. /\ client[c] \in Memories /\ stored[c] \in Records
        /\ client[c].cursor <= Len(accepted) /\ stored[c].cursor <= Len(accepted)
    BY Parts DEF ClientTypes, ClientsOk, RecordOk
  <2>2. QED
    BY <2>1, Parts, Made DEF Memories, Records
<1> HIDE DEF q
<1>6. Leads(wire[c])'
  <2> SUFFICES ASSUME NEW i \in 1 .. Len(wire[c]), wire[c][i].kind = "snapshot"
               PROVE  /\ \A n \in kept' : n > wire[c][i].seq
                      /\ \E j \in i + 1 .. Len(wire[c]) : wire[c][j].kind = "ready"
    BY DEF Leads
  <2>1. wire[c] \in Seq(Frames) /\ wire[c][i].seq \in Nat /\ wire[c][i].seq <= Latest
    <3>1. wire[c] \in Seq(Frames) /\ Truthful(accepted, wire[c][i])
      BY Parts DEF LinkTypes, WiresOk, WireOk
    <3>2. wire[c][i] \in Frames
      BY <3>1
    <3>3. QED
      BY <3>1, <3>2, Parts, Made DEF Truthful, Frames
  <2>2. /\ \A n \in kept : n > wire[c][i].seq
        /\ \E j \in i + 1 .. Len(wire[c]) : wire[c][j].kind = "ready"
    BY EchoOf DEF Leads
  <2>3. Latest + 1 > wire[c][i].seq
    BY <1>2, <2>1
  <2>4. QED
    BY <1>3, <2>2, <2>3
<1>7. ASSUME NEW r, r.cursor \in Nat, r.cursor <= Latest, Confirmed(r),
             NEW n \in kept', n <= r.cursor
      PROVE  accepted'[n] \notin r.pending
  <2>1. n \in kept /\ n \in 1 .. Latest
    BY <1>2, <1>3, <1>7
  <2>2. QED
    BY <1>2, <1>7, <2>1 DEF Confirmed
<1>8. Confirmed(client[c])' /\ Confirmed(stored[c])'
  BY <1>5, <1>7, EchoOf DEF Confirmed
<1>9. \A x : Ahead(client[c].cursor, x) => Ahead(client[c].cursor, x)'
  <2> SUFFICES ASSUME NEW x, NEW n \in 1 .. Latest, client[c].cursor < n, accepted[n] = x
               PROVE  Ahead(client[c].cursor, x)'
    BY DEF Ahead
  <2>1. n \in 1 .. Latest' /\ accepted'[n] = x
    BY <1>2
  <2>2. QED
    BY <2>1 DEF Ahead
<1>10. ASSUME u \in client[c].pending PROVE Ahead(client[c].cursor, u)'
  <2>1. client[c].cursor < q
    <3>1. CASE q \in kept
      <4>1. ~(q <= client[c].cursor)
        BY <1>4, <1>10, <3>1, EchoOf DEF Confirmed
      <4>2. QED
        BY <1>1, <1>2, <1>5, <4>1
    <3>2. CASE q = Latest + 1
      BY <1>2, <1>5, <3>2
    <3>3. QED
      BY <1>4, <3>1, <3>2
  <2>2. QED
    BY <1>1, <2>1 DEF Ahead
<1>11. QED
  BY <1>6, <1>8, <1>9, <1>10

LEMMA HandleUpdateEchoes ==
    ASSUME IInv, EchoInv, NEW c \in Clients, HandleUpdate(c) PROVE EchoInv'
<1> DEFINE u == Head(uplink[c]).id
<1> SUFFICES ASSUME NEW d \in Clients PROVE EchoOk(d)'
  BY DEF EchoInv
<1>1. /\ uplink[c] # <<>> /\ Head(uplink[c]).kind = "update" /\ Accept(u) /\ Take(c)
      /\ UNCHANGED <<snapshots, born>> /\ UNCHANGED <<wire, client, stored>>
  BY DEF HandleUpdate, counters
<1>2. u \in 1 .. born
  <2>1. \E j \in 1 .. Len(uplink[c]) : Head(uplink[c]) = uplink[c][j]
    BY <1>1, Parts, TakeIs
  <2>2. QED
    BY <1>1, <2>1, Parts DEF UplinkOk, Sound
<1>3. \A x : Sends(uplink[d], x) => Sends(uplink'[d], x) \/ x = u
  BY <1>1, Parts, TakeSends
<1> HIDE DEF u
<1>4. /\ Leads(wire[d])' /\ Confirmed(client[d])' /\ Confirmed(stored[d])'
      /\ \A x : Ahead(client[d].cursor, x) => Ahead(client[d].cursor, x)'
      /\ \A x \in client[d].pending : x = u => Ahead(client[d].cursor, x)'
  BY <1>1, <1>2, AcceptAhead
<1>5. Awaited(client[d], wire[d], uplink[d])'
  <2> SUFFICES ASSUME client[d].ready, NEW x \in client[d].pending
               PROVE  \/ x \in client[d].queued \/ Requeues(wire[d])
                      \/ Sends(uplink'[d], x) \/ Ahead(client[d].cursor, x)'
    BY <1>1 DEF Awaited, Requeues, Sends
  <2>1. \/ x \in client[d].queued \/ Requeues(wire[d])
        \/ Sends(uplink[d], x) \/ Ahead(client[d].cursor, x)
    BY EchoOf DEF Awaited
  <2>2. QED
    BY <1>3, <1>4, <2>1
<1>6. QED
  BY <1>4, <1>5 DEF EchoOk

LEMMA MergeEchoes ==
    ASSUME IInv, EchoInv, NEW c \in Clients, Merge(c) PROVE EchoInv'
<1> DEFINE u == request[c].id
<1> SUFFICES ASSUME NEW d \in Clients PROVE EchoOk(d)'
  BY DEF EchoInv
<1>1. /\ request[c].kind = "merge" /\ Accept(u)
      /\ UNCHANGED <<snapshots, born>> /\ UNCHANGED <<wire, client, stored>> /\ uplink' = uplink
  BY DEF Merge, links, counters
<1>2. u \in 1 .. born
  BY <1>1, Parts DEF ClientsOk, Requested
<1> HIDE DEF u
<1>3. /\ Leads(wire[d])' /\ Confirmed(client[d])' /\ Confirmed(stored[d])'
      /\ \A x : Ahead(client[d].cursor, x) => Ahead(client[d].cursor, x)'
  BY <1>1, <1>2, AcceptAhead
<1>4. Awaited(client[d], wire[d], uplink[d])'
  <2> SUFFICES ASSUME client[d].ready, NEW x \in client[d].pending
               PROVE  \/ x \in client[d].queued \/ Requeues(wire[d])
                      \/ Sends(uplink[d], x) \/ Ahead(client[d].cursor, x)'
    BY <1>1 DEF Awaited, Requeues, Sends
  <2>1. \/ x \in client[d].queued \/ Requeues(wire[d])
        \/ Sends(uplink[d], x) \/ Ahead(client[d].cursor, x)
    BY EchoOf DEF Awaited
  <2>2. QED
    BY <1>3, <2>1
<1>5. QED
  BY <1>3, <1>4 DEF EchoOk

LEMMA SaveSnapshotEchoes ==
    ASSUME IInv, EchoInv, NEW c \in Clients, SaveSnapshot(c) PROVE EchoInv'
<1> SUFFICES ASSUME NEW d \in Clients PROVE EchoOk(d)'
  BY DEF EchoInv
<1> DEFINE s == [seq |-> Head(uplink[c]).seq, state |-> Head(uplink[c]).state]
<1>1. At(s.seq) \subseteq {s}
  <2>1. conn' \in [Clients -> {"down", "joined", "lapsed", "open", "closing"}]
        /\ conn \in [Clients -> {"down", "joined", "lapsed", "open", "closing"}]
    BY SaveSnapshotKeeps, Parts DEF IInv, LinkTypes
  <2>2. conn'[c] # "denied"
    BY <2>1
  <2>3. ~(At(s.seq) \subseteq {s}) => conn' = [conn EXCEPT ![c] = "denied"]
    BY DEF SaveSnapshot, Close
  <2>4. QED
    BY <2>1, <2>2, <2>3
<1>2. /\ uplink[c] # <<>> /\ Head(uplink[c]).kind = "snapshot" /\ Take(c)
      /\ kept' \subseteq kept /\ accepted' = accepted
      /\ UNCHANGED <<wire, client, stored>>
  <2>1. /\ At(s.seq) \subseteq {s} => Take(c) /\ kept' = {n \in kept : n > s.seq}
                                      /\ UNCHANGED <<wire, client>>
        /\ uplink[c] # <<>> /\ Head(uplink[c]).kind = "snapshot"
        /\ accepted' = accepted /\ stored' = stored
    BY DEF SaveSnapshot
  <2>2. QED
    BY <1>1, <2>1
<1>3. \A x : Sends(uplink[d], x) => Sends(uplink'[d], x)
  BY <1>2, Parts, TakeSends
<1>4. Leads(wire[d])' /\ Confirmed(client[d])' /\ Confirmed(stored[d])'
  BY <1>2, EchoOf DEF Leads, Confirmed
<1>5. \A x : Ahead(client[d].cursor, x) => Ahead(client[d].cursor, x)'
  BY <1>2 DEF Ahead, Latest
<1>6. Awaited(client[d], wire[d], uplink[d])'
  <2> SUFFICES ASSUME client[d].ready, NEW x \in client[d].pending
               PROVE  \/ x \in client[d].queued \/ Requeues(wire[d])
                      \/ Sends(uplink'[d], x) \/ Ahead(client[d].cursor, x)'
    BY <1>2 DEF Awaited, Requeues, Sends
  <2>1. \/ x \in client[d].queued \/ Requeues(wire[d])
        \/ Sends(uplink[d], x) \/ Ahead(client[d].cursor, x)
    BY EchoOf DEF Awaited
  <2>2. QED
    BY <1>3, <1>5, <2>1
<1>7. QED
  BY <1>4, <1>6 DEF EchoOk

-----------------------------------------------------------------------------
(* Steps of the client.                                                    *)

LEMMA EditEchoes ==
    ASSUME IInv, EchoInv, NEW c \in Clients, Edit(c) PROVE EchoInv'
<1> DEFINE b == born + 1
<1> SUFFICES ASSUME NEW d \in Clients PROVE EchoOk(d)'
  BY DEF EchoInv
<1>1. client \in [Clients -> Memories] /\ client[c] \in Memories
  BY Parts DEF ClientTypes
<1>2. /\ born' = b /\ UNCHANGED <<accepted, kept>> /\ UNCHANGED <<wire, uplink, stored>>
      /\ client' = [client EXCEPT ![c].doc = @ \cup {b}, ![c].pending = @ \cup {b},
                                  ![c].queued = @ \cup {b}]
  BY DEF Edit, server, links
<1>3. \A n \in kept : accepted[n] # b
  <2>1. \A n \in kept : accepted[n] \in 1 .. born
    BY Parts DEF LogOk
  <2>2. born \in Nat
    BY Parts, Made
  <2>3. QED
    BY <2>1, <2>2
<1>4. CASE d = c
  <2> DEFINE k == client[c]  l == client'[c]
  <2>1. /\ l.cursor = k.cursor /\ l.ready = k.ready
        /\ l.pending = k.pending \cup {b} /\ l.queued = k.queued \cup {b}
    BY <1>1, <1>2 DEF Memories
  <2> HIDE DEF l, b
  <2>2. Confirmed(l)
    BY <1>3, <2>1, EchoOf DEF Confirmed
  <2>3. Awaited(l, wire[c], uplink[c])
    <3>1. Awaited(k, wire[c], uplink[c])
      BY EchoOf
    <3> HIDE DEF k
    <3>2. QED
      BY <2>1, <3>1 DEF Awaited
  <2>4. QED
    BY <1>2, <1>4, <2>2, <2>3, EchoOf, EchoStays DEF l
<1>5. CASE d # c
  <2>1. client'[d] = client[d]
    BY <1>1, <1>2, <1>5
  <2>2. QED
    BY <1>2, <2>1, EchoOf, EchoStays
<1>6. QED
  BY <1>4, <1>5

LEMMA PersistEchoes ==
    ASSUME IInv, EchoInv, NEW c \in Clients, Persist(c) PROVE EchoInv'
<1> SUFFICES ASSUME NEW d \in Clients PROVE EchoOk(d)'
  BY DEF EchoInv
<1> DEFINE k == client[c]  S == k.queued \cap k.pending  ids == Ascending(S)
           sent == [i \in 1 .. Len(ids) |->
                      [kind |-> "update", id |-> ids[i], seq |-> 0, state |-> {}]]
           l == [k EXCEPT !.queued = {}]
           r == [doc |-> k.doc, cursor |-> k.cursor, pending |-> k.pending]
<1>1. /\ client \in [Clients -> Memories] /\ k \in Memories /\ k.pending \subseteq 1 .. born
      /\ stored \in [Clients -> Records] /\ uplink \in [Clients -> Seq(Messages)]
  BY Parts DEF ClientTypes, ClientsOk, RecordOk, LinkTypes
<1>2. /\ stored' = [stored EXCEPT ![c] = r] /\ client' = [client EXCEPT ![c] = l]
      /\ uplink' = [uplink EXCEPT ![c] = IF k.ready THEN @ \o sent ELSE @]
      /\ UNCHANGED <<accepted, kept>> /\ wire' = wire
  BY <1>1 DEF Persist, server
<1>3. CASE d # c
  <2>1. stored'[d] = stored[d] /\ client'[d] = client[d] /\ uplink'[d] = uplink[d]
    BY <1>1, <1>2, <1>3
  <2>2. QED
    BY <1>2, <2>1, EchoOf, EchoStays
<1>4. CASE d = c
  <2>1. /\ l.cursor = k.cursor /\ l.ready = k.ready /\ l.pending = k.pending
        /\ r.cursor = k.cursor /\ r.pending = k.pending
    BY <1>1 DEF Memories
  <2>2. stored'[c] = r /\ client'[c] = l
    BY <1>1, <1>2
  <2>3. Confirmed(l) /\ Confirmed(r)
    BY <2>1, EchoOf DEF Confirmed
  <2>4. Awaited(l, wire[c], uplink'[c])
    <3> SUFFICES ASSUME k.ready, NEW u \in k.pending
                 PROVE  Requeues(wire[c]) \/ Sends(uplink'[c], u) \/ Ahead(k.cursor, u)
      BY <2>1 DEF Awaited
    <3>1. u \in k.queued \/ Requeues(wire[c]) \/ Sends(uplink[c], u) \/ Ahead(k.cursor, u)
      BY EchoOf DEF Awaited
    <3>2. /\ Len(ids) \in Nat /\ \A i \in 1 .. Len(ids) : ids[i] \in S
          /\ \A x \in S : \E i \in 1 .. Len(ids) : ids[i] = x
      <4>1. S \subseteq 1 .. born /\ born \in Nat
        BY <1>1, Parts, Made
      <4>2. IsFiniteSet(1 .. born)
        BY <4>1, FS_Interval
      <4>3. S \in SUBSET Nat /\ IsFiniteSet(S)
        BY <4>1, <4>2, FS_Subset
      <4> HIDE DEF S
      <4>4. QED
        BY <4>3, AscendingIs
    <3>3. \A i \in 1 .. Len(ids) : ids[i] \in Nat
      <4>1. \A x \in S : x \in Nat
        BY <1>1, Parts, Made
      <4>2. QED
        BY <3>2, <4>1
    <3>4. u \in k.queued => u \in S
      OBVIOUS
    <3> HIDE DEF ids, S
    <3>5. /\ sent \in Seq(Messages) /\ Len(sent) = Len(ids)
          /\ \A i \in 1 .. Len(ids) : sent[i].kind = "update" /\ sent[i].id = ids[i]
      <4>1. \A i \in 1 .. Len(ids) :
              [kind |-> "update", id |-> ids[i], seq |-> 0, state |-> {}] \in Messages
        BY <3>3 DEF Messages
      <4>2. sent \in Seq(Messages) /\ Len(sent) = Len(ids)
        BY <3>2, <4>1
      <4>3. \A i \in 1 .. Len(ids) : sent[i].kind = "update" /\ sent[i].id = ids[i]
        OBVIOUS
      <4>4. QED
        BY <4>2, <4>3
    <3>6. u \in k.queued => Sends(sent, u)
      BY <3>2, <3>4, <3>5 DEF Sends
    <3> HIDE DEF sent
    <3> DEFINE m == uplink[c]  v == m \o sent
    <3>7. uplink'[c] = v /\ m \in Seq(Messages)
      BY <1>1, <1>2
    <3> HIDE DEF m
    <3>8. (Sends(m, u) => Sends(v, u)) /\ (Sends(sent, u) => Sends(v, u))
      <4>1. /\ Len(m) \in Nat /\ Len(sent) \in Nat /\ Len(v) = Len(m) + Len(sent)
            /\ \A i \in 1 .. Len(m) + Len(sent) :
                 v[i] = IF i <= Len(m) THEN m[i] ELSE sent[i - Len(m)]
        <5>1. m \in Seq(Messages) /\ sent \in Seq(Messages)
          BY <3>5, <3>7
        <5>2. QED
          BY <5>1, ConcatProperties
      <4> HIDE DEF v
      <4>2. ASSUME NEW i \in 1 .. Len(m) PROVE i \in 1 .. Len(v) /\ v[i] = m[i]
        BY <4>1
      <4>3. ASSUME NEW i \in 1 .. Len(sent)
            PROVE  \E j \in 1 .. Len(v) : v[j] = sent[i]
        <5> DEFINE j == Len(m) + i
        <5>1. j \in 1 .. Len(v) /\ ~(j <= Len(m)) /\ j - Len(m) = i
          BY <4>1
        <5> HIDE DEF j
        <5>2. v[j] = sent[i]
          BY <4>1, <5>1
        <5>3. QED
          BY <5>1, <5>2
      <4>4. Sends(m, u) => Sends(v, u)
        BY <4>2 DEF Sends
      <4>5. Sends(sent, u) => Sends(v, u)
        BY <4>3 DEF Sends
      <4>6. QED
        BY <4>4, <4>5
    <3> HIDE DEF v
    <3>9. QED
      BY <3>1, <3>6, <3>7, <3>8 DEF m
  <2> HIDE DEF l, r
  <2>5. QED
    BY <1>2, <1>4, <2>2, <2>3, <2>4, EchoOf, EchoStays
<1>5. QED
  BY <1>3, <1>4

(* What settling leaves as it was.                                         *)
LEMMA EchoSettles ==
    ASSUME LinkTypes, ClientTypes, NEW c \in Clients, NEW k \in Memories, Settle(c, k)
    PROVE  /\ client'[c].cursor = k.cursor /\ client'[c].pending = k.pending
           /\ client'[c].queued = k.queued /\ client'[c].ready = k.ready
           /\ \A d \in Clients : d # c => client'[d] = client[d]
           /\ \A d \in Clients : \A u : Sends(uplink[d], u) => Sends(uplink'[d], u)
<1>1. client \in [Clients -> Memories] /\ uplink \in [Clients -> Seq(Messages)]
  BY DEF ClientTypes, LinkTypes
<1>2. CASE SnapshotDue(k)
  <2> DEFINE m == [kind |-> "snapshot", id |-> 0, seq |-> k.cursor, state |-> k.doc]
             l == [k EXCEPT !.saving = TRUE]
  <2>1. client' = [client EXCEPT ![c] = l] /\ uplink' = [uplink EXCEPT ![c] = Append(@, m)]
    BY <1>2 DEF Settle
  <2>2. m \in Messages
    BY DEF Messages, Memories
  <2>3. /\ l.cursor = k.cursor /\ l.pending = k.pending
        /\ l.queued = k.queued /\ l.ready = k.ready
    BY DEF Memories
  <2> HIDE DEF m, l
  <2>4. ASSUME NEW d \in Clients, NEW u, Sends(uplink[d], u) PROVE Sends(uplink'[d], u)
    <3>1. uplink'[d] = uplink[d] \/ uplink'[d] = Append(uplink[d], m)
      BY <1>1, <2>1
    <3> DEFINE o == uplink[d]
    <3>2. o \in Seq(Messages)
      BY <1>1
    <3>3. PICK i \in 1 .. Len(o) : o[i].kind = "update" /\ o[i].id = u
      BY <2>4 DEF Sends
    <3> HIDE DEF o
    <3>4. i \in 1 .. Len(Append(o, m)) /\ Append(o, m)[i] = o[i]
      BY <2>2, <3>2, <3>3, AppendProperties
    <3>5. Sends(Append(o, m), u)
      BY <3>3, <3>4 DEF Sends
    <3>6. QED
      BY <2>4, <3>1, <3>5 DEF o
  <2>5. client'[c] = l /\ \A d \in Clients : d # c => client'[d] = client[d]
    BY <1>1, <2>1
  <2>6. QED
    BY <2>3, <2>4, <2>5
<1>3. CASE ~SnapshotDue(k)
  <2>1. client' = [client EXCEPT ![c] = k] /\ uplink' = uplink
    BY <1>3 DEF Settle
  <2>2. QED
    BY <1>1, <2>1
<1>4. QED
  BY <1>2, <1>3

(* What a client makes of the head of its wire.                            *)
LEMMA EchoReceives ==
    ASSUME IInv, NEW c \in Clients, Receive(c), ~skipped'
    PROVE  LET k == client[c]
               l == client'[c]
               f == wire[c][1]
           IN  /\ wire[c] # <<>> /\ wire' = [wire EXCEPT ![c] = Tail(@)]
               /\ f \in Frames /\ Truthful(accepted, f)
               /\ f.kind = "update" => f.seq <= k.cursor + 1
               /\ f.kind = "ready" => f.seq <= k.cursor
               /\ l.cursor = IF f.kind = "saved" THEN k.cursor ELSE Larger(k.cursor, f.seq)
               /\ l.pending = IF f.kind = "update" THEN k.pending \ f.state ELSE k.pending
               /\ l.queued = IF f.kind = "ready" THEN k.queued \cup k.pending ELSE k.queued
               /\ l.ready = IF f.kind = "ready" THEN TRUE ELSE k.ready
               /\ \A d \in Clients : d # c => client'[d] = client[d]
               /\ \A d \in Clients : \A u : Sends(uplink[d], u) => Sends(uplink'[d], u)
<1> DEFINE k == client[c]  l == client'[c]  w == wire[c]  f == w[1]
<1>1. /\ w # <<>> /\ ~Gap(k, Head(w)) /\ ~Skips(k, Head(w)) /\ k.mode # "deaf"
      /\ wire' = [wire EXCEPT ![c] = Tail(@)]
  BY DEF Receive
<1>2. /\ w \in Seq(Frames) /\ k \in Memories /\ k.cursor \in Nat /\ Listens(k) \in BOOLEAN
      /\ client \in [Clients -> Memories] /\ written[c] \in Nat /\ Connected(c) \in BOOLEAN
  <2>1. w \in Seq(Frames) /\ written[c] \in Nat
    BY Parts DEF LinkTypes
  <2>2. k \in Memories /\ client \in [Clients -> Memories]
    BY Parts DEF ClientTypes
  <2>3. k.cursor \in Nat /\ Listens(k) \in BOOLEAN
    BY <2>2 DEF Memories, Listens
  <2>4. QED
    BY <2>1, <2>2, <2>3 DEF Connected
<1>3. Flow(Connected(c), written[c], w, k.cursor, Listens(k))
      /\ \A i \in 1 .. Len(w) : Truthful(accepted, w[i])
  BY <1>1, Parts DEF WiresOk, WireOk, FlowOk
<1>4. /\ f \in Frames /\ Head(w) = f /\ 1 \in 1 .. Len(w)
      /\ f.kind = "ready" => f.seq <= k.cursor
      /\ f.kind = "update" /\ ~Listens(k) => f.seq <= k.cursor + 1
  <2> DEFINE up == Connected(c)  cursor == k.cursor  ready == Listens(k)
  <2>1. cursor \in Nat /\ ready \in BOOLEAN /\ up \in BOOLEAN
        /\ Flow(up, written[c], w, cursor, ready)
    BY <1>2, <1>3
  <2> HIDE DEF up, cursor, ready, k, w
  <2>2. /\ w[1] \in Frames /\ Head(w) = w[1] /\ 1 \in 1 .. Len(w)
        /\ w[1].kind = "ready" => w[1].seq <= cursor
        /\ w[1].kind = "update" /\ ~ready => w[1].seq <= cursor + 1
    BY <1>1, <1>2, <2>1, HeadFollows
  <2>3. QED
    BY <2>2 DEF cursor, ready
<1>5. Truthful(accepted, f)
  BY <1>3, <1>4
<1>6. f.seq \in Nat /\ f.kind \in {"update", "snapshot", "ready", "saved"} /\ f.state \in SUBSET Nat
  BY <1>4 DEF Frames
<1>7. f.kind = "update" => f.seq <= k.cursor + 1
  BY <1>1, <1>2, <1>4, <1>6 DEF Gap, Skips, Listens
<1>8. /\ f.kind = "update" => Settle(c, [Absorbed(k, f) EXCEPT !.pending = @ \ f.state])
      /\ f.kind = "snapshot" => Settle(c, [Absorbed(k, f) EXCEPT !.saved = Larger(@, f.seq)])
      /\ f.kind = "ready" => Settle(c, [Absorbed(k, f) EXCEPT !.ready = TRUE, !.mode = "live",
                                                              !.queued = @ \cup k.pending])
      /\ f.kind = "saved" =>
           /\ client' = [client EXCEPT ![c].saved = Larger(@, f.seq), ![c].saving = FALSE]
           /\ UNCHANGED uplink
  BY <1>4, <1>6 DEF Receive
<1> DEFINE Heard ==
             /\ l.cursor = IF f.kind = "saved" THEN k.cursor ELSE Larger(k.cursor, f.seq)
             /\ l.pending = IF f.kind = "update" THEN k.pending \ f.state ELSE k.pending
             /\ l.queued = IF f.kind = "ready" THEN k.queued \cup k.pending ELSE k.queued
             /\ l.ready = IF f.kind = "ready" THEN TRUE ELSE k.ready
             /\ \A d \in Clients : d # c => client'[d] = client[d]
             /\ \A d \in Clients : \A u : Sends(uplink[d], u) => Sends(uplink'[d], u)
<1>9. ASSUME NEW o \in Memories, Settle(c, o)
      PROVE  /\ l.cursor = o.cursor /\ l.pending = o.pending
             /\ l.queued = o.queued /\ l.ready = o.ready
             /\ \A d \in Clients : d # c => client'[d] = client[d]
             /\ \A d \in Clients : \A u : Sends(uplink[d], u) => Sends(uplink'[d], u)
  BY <1>9, Parts, EchoSettles
<1>10. Absorbed(k, f) \in Memories /\ Larger(k.cursor, f.seq) \in Nat
  BY <1>2, <1>6 DEF Absorbed, Larger, Memories
<1> HIDE DEF f
<1>11. Heard
  <2>1. CASE f.kind = "update"
    <3> DEFINE o == [Absorbed(k, f) EXCEPT !.pending = @ \ f.state]
    <3>1. /\ o \in Memories /\ o.cursor = Larger(k.cursor, f.seq)
          /\ o.pending = k.pending \ f.state /\ o.queued = k.queued /\ o.ready = k.ready
      BY <1>2, <1>6, <1>10 DEF Absorbed, Memories
    <3>2. Settle(c, o)
      BY <1>8, <2>1
    <3> HIDE DEF o
    <3>3. QED
      BY <1>9, <2>1, <3>1, <3>2
  <2>2. CASE f.kind = "snapshot"
    <3> DEFINE o == [Absorbed(k, f) EXCEPT !.saved = Larger(@, f.seq)]
    <3>1. /\ o \in Memories /\ o.cursor = Larger(k.cursor, f.seq)
          /\ o.pending = k.pending /\ o.queued = k.queued /\ o.ready = k.ready
      <4>1. o = [k EXCEPT !.doc = k.doc \cup f.state, !.cursor = Larger(k.cursor, f.seq),
                             !.saved = Larger(k.saved, f.seq)]
        BY <1>2 DEF Absorbed, Memories
      <4>2. Larger(k.cursor, f.seq) \in Nat /\ Larger(k.saved, f.seq) \in Nat
        BY <1>2, <1>6, <1>10 DEF Memories, Larger
      <4>3. f.state \in SUBSET Nat
        BY <1>2, <1>6, <1>10
      <4> HIDE DEF o
      <4>4. QED
        BY <1>2, <4>1, <4>2, <4>3 DEF Memories
    <3>2. Settle(c, o)
      BY <1>8, <2>2
    <3> HIDE DEF o
    <3>3. QED
      BY <1>9, <2>2, <3>1, <3>2
  <2>3. CASE f.kind = "ready"
    <3> DEFINE o == [Absorbed(k, f) EXCEPT !.ready = TRUE, !.mode = "live", !.queued = @ \cup k.pending]
    <3>1. /\ o \in Memories /\ o.cursor = Larger(k.cursor, f.seq)
          /\ o.pending = k.pending /\ o.queued = k.queued \cup k.pending /\ o.ready = TRUE
      BY <1>2, <1>6, <1>10 DEF Absorbed, Memories
    <3>2. Settle(c, o)
      BY <1>8, <2>3
    <3> HIDE DEF o
    <3>3. QED
      BY <1>9, <2>3, <3>1, <3>2
  <2>4. CASE f.kind = "saved"
    <3> DEFINE o == [k EXCEPT !.saved = Larger(@, f.seq), !.saving = FALSE]
    <3>1. client' = [client EXCEPT ![c] = o] /\ uplink' = uplink
      BY <1>2, <1>8, <2>4
    <3>2. /\ o.cursor = k.cursor /\ o.pending = k.pending
          /\ o.queued = k.queued /\ o.ready = k.ready
      BY <1>2 DEF Memories
    <3> HIDE DEF o
    <3>3. l = o /\ \A d \in Clients : d # c => client'[d] = client[d]
      BY <1>2, <3>1
    <3>4. QED
      BY <2>4, <3>1, <3>2, <3>3
  <2>5. QED
    BY <1>6, <2>1, <2>2, <2>3, <2>4
<1>12. QED
  BY <1>1, <1>4, <1>5, <1>7, <1>11 DEF f

LEMMA ReceiveEchoes ==
    ASSUME IInv, EchoInv, NEW c \in Clients, Receive(c), ~skipped' PROVE EchoInv'
<1> DEFINE k == client[c]  l == client'[c]  w == wire[c]  f == w[1]  t == Tail(w)
<1> SUFFICES ASSUME NEW d \in Clients PROVE EchoOk(d)'
  BY DEF EchoInv
<1>1. /\ w # <<>> /\ wire' = [wire EXCEPT ![c] = t]
      /\ f \in Frames /\ Truthful(accepted, f)
      /\ f.kind = "update" => f.seq <= k.cursor + 1
      /\ f.kind = "ready" => f.seq <= k.cursor
  BY EchoReceives
<1>2. /\ l.cursor = IF f.kind = "saved" THEN k.cursor ELSE Larger(k.cursor, f.seq)
      /\ l.pending = IF f.kind = "update" THEN k.pending \ f.state ELSE k.pending
      /\ l.queued = IF f.kind = "ready" THEN k.queued \cup k.pending ELSE k.queued
      /\ l.ready = IF f.kind = "ready" THEN TRUE ELSE k.ready
  BY EchoReceives
<1>3. /\ \A e \in Clients : e # c => client'[e] = client[e]
      /\ \A e \in Clients : \A u : Sends(uplink[e], u) => Sends(uplink'[e], u)
  BY EchoReceives
<1>4. UNCHANGED <<accepted, kept>> /\ stored' = stored
  BY DEF Receive, server
<1>5. /\ w \in Seq(Frames) /\ wire \in [Clients -> Seq(Frames)]
  BY Parts DEF LinkTypes
<1>6. CASE d # c
  <2>1. wire'[d] = wire[d] /\ client'[d] = client[d]
    BY <1>1, <1>3, <1>5, <1>6
  <2>2. Awaited(client[d], wire[d], uplink'[d])
    BY <1>3, EchoOf DEF Awaited
  <2>3. QED
    BY <1>4, <2>1, <2>2, EchoOf, EchoStays
<1>7. CASE d = c
  <2>1. /\ wire'[c] = t /\ Leads(w) /\ Confirmed(k) /\ Awaited(k, w, uplink[c])
        /\ Confirmed(stored[c])
    BY <1>1, <1>5, EchoOf
  <2>2. /\ k.cursor \in Nat /\ k.cursor <= Latest /\ Latest \in Nat /\ f.seq \in Nat
        /\ f.kind \in {"update", "snapshot", "ready", "saved"}
    BY <1>1, CursorIn DEF Frames
  <2>3. kept \subseteq 1 .. Latest
    BY Parts DEF LogOk
  <2>4. /\ f.kind = "update" => f.seq # 0 /\ f.state = {accepted[f.seq]}
    BY <1>1 DEF Truthful
  <2> HIDE DEF k, l, w, t
  <2>5. /\ Leads(t)
        /\ f.kind = "snapshot" => Requeues(t) /\ \A n \in kept : n > f.seq
        /\ f.kind # "ready" /\ Requeues(w) => Requeues(t)
    BY <1>1, <1>5, <2>1, LeadsTail DEF t
  <2> HIDE DEF f
  <2>6. Confirmed(l)
    <3> SUFFICES ASSUME NEW n \in kept, n <= l.cursor, accepted[n] \in l.pending
                 PROVE  FALSE
      BY DEF Confirmed
    <3>1. n \in Nat /\ accepted[n] \in k.pending /\ ~(n <= k.cursor)
      BY <1>2, <2>1, <2>3 DEF Confirmed
    <3>2. f.kind # "saved" /\ n <= f.seq
      BY <1>2, <2>2, <3>1 DEF Larger
    <3>3. f.kind # "ready"
      BY <1>1, <2>2, <3>1, <3>2
    <3>4. f.kind # "snapshot"
      BY <2>2, <2>5, <3>1, <3>2
    <3>5. f.kind = "update" /\ n = f.seq
      BY <1>1, <2>2, <3>1, <3>2, <3>3, <3>4
    <3>6. QED
      BY <1>2, <2>4, <3>5
  <2>7. Awaited(l, t, uplink'[c])
    <3> SUFFICES ASSUME l.ready, NEW u \in l.pending
                 PROVE  \/ u \in l.queued \/ Requeues(t)
                        \/ Sends(uplink'[c], u) \/ Ahead(l.cursor, u)
      BY DEF Awaited
    <3>1. CASE f.kind = "ready"
      BY <1>2, <3>1
    <3>2. CASE f.kind = "snapshot"
      BY <2>5, <3>2
    <3>3. CASE f.kind \in {"update", "saved"}
      <4>1. /\ u \in k.pending /\ k.ready /\ l.queued = k.queued
            /\ f.kind = "update" => u \notin f.state
        BY <1>2, <3>3
      <4>2. u \in k.queued \/ Requeues(w) \/ Sends(uplink[c], u) \/ Ahead(k.cursor, u)
        BY <2>1, <4>1 DEF Awaited
      <4>3. Requeues(w) => Requeues(t)
        BY <2>5, <3>3
      <4>4. Ahead(k.cursor, u) => Ahead(l.cursor, u)
        <5> SUFFICES ASSUME NEW n \in 1 .. Latest, k.cursor < n, accepted[n] = u
                     PROVE  l.cursor < n
          BY DEF Ahead
        <5>1. CASE f.kind = "saved"
          BY <1>2, <5>1
        <5>2. CASE f.kind = "update"
          <6>1. f.seq # n
            BY <2>4, <4>1, <5>2
          <6>2. f.seq < n
            BY <1>1, <2>2, <5>2, <6>1
          <6>3. l.cursor = Larger(k.cursor, f.seq)
            BY <1>2, <5>2
          <6>4. QED
            BY <2>2, <6>2, <6>3 DEF Larger
        <5>3. QED
          BY <3>3, <5>1, <5>2
      <4>5. QED
        BY <1>3, <4>1, <4>2, <4>3, <4>4
    <3>4. QED
      BY <2>2, <3>1, <3>2, <3>3
  <2>8. QED
    BY <1>4, <1>7, <2>1, <2>5, <2>6, <2>7, EchoStays DEF l
<1>8. QED
  BY <1>6, <1>7

LEMMA LossEchoes ==
    ASSUME IInv, EchoInv, NEW c \in Clients, Refresh(c) \/ Drop(c) PROVE EchoInv'
<1> SUFFICES ASSUME NEW d \in Clients PROVE EchoOk(d)'
  BY DEF EchoInv
<1>1. PICK l \in Memories :
        /\ client' = [client EXCEPT ![c] = l] /\ ~l.ready
        /\ l.cursor = client[c].cursor /\ l.pending = client[c].pending
  BY Parts, LostIs
<1>2. /\ wire[c] # <<>> /\ wire' = [wire EXCEPT ![c] = Tail(@)]
      /\ UNCHANGED <<accepted, kept, uplink, stored>>
  BY DEF Refresh, Drop, server
<1>3. client \in [Clients -> Memories] /\ wire \in [Clients -> Seq(Frames)]
  BY Parts DEF ClientTypes, LinkTypes
<1>4. CASE d = c
  <2>1. client'[c] = l /\ wire'[c] = Tail(wire[c])
    BY <1>1, <1>2, <1>3
  <2>2. Leads(Tail(wire[c]))
    BY <1>2, <1>3, EchoOf, LeadsTail
  <2>3. Confirmed(l)
    BY <1>1, EchoOf DEF Confirmed
  <2>4. Awaited(l, Tail(wire[c]), uplink[c])
    BY <1>1 DEF Awaited
  <2>5. QED
    BY <1>2, <1>4, <2>1, <2>2, <2>3, <2>4, EchoOf, EchoStays
<1>5. CASE d # c
  <2>1. client'[d] = client[d] /\ wire'[d] = wire[d]
    BY <1>1, <1>2, <1>3, <1>5
  <2>2. QED
    BY <1>2, <2>1, EchoOf, EchoStays
<1>6. QED
  BY <1>4, <1>5

LEMMA RefuseEchoes ==
    ASSUME IInv, EchoInv, NEW c \in Clients, Refuse(c) PROVE EchoInv'
<1> SUFFICES ASSUME NEW d \in Clients PROVE EchoOk(d)'
  BY DEF EchoInv
<1> DEFINE k == client[c]
<1>1. PICK l \in Memories :
        /\ client' = [client EXCEPT ![c] = l] /\ (l.ready => k.ready)
        /\ l.cursor = k.cursor /\ l.pending = k.pending /\ l.queued = k.queued
  BY Parts, RefuseIs
<1>2. UNCHANGED <<accepted, kept, wire, uplink, stored>>
  BY DEF Refuse, server, links
<1>3. client \in [Clients -> Memories]
  BY Parts DEF ClientTypes
<1>4. CASE d = c
  <2>1. client'[c] = l
    BY <1>1, <1>3
  <2>2. Confirmed(l)
    BY <1>1, EchoOf DEF Confirmed
  <2>3. Awaited(l, wire[c], uplink[c])
    <3>1. Awaited(k, wire[c], uplink[c])
      BY EchoOf
    <3> HIDE DEF k
    <3>2. QED
      BY <1>1, <3>1 DEF Awaited
  <2>4. QED
    BY <1>2, <1>4, <2>1, <2>2, <2>3, EchoOf, EchoStays
<1>5. CASE d # c
  <2>1. client'[d] = client[d]
    BY <1>1, <1>3, <1>5
  <2>2. QED
    BY <1>2, <2>1, EchoOf, EchoStays
<1>6. QED
  BY <1>4, <1>5

-----------------------------------------------------------------------------
(* The end.                                                                *)

LEMMA InitEchoes ==
    ASSUME Init PROVE EchoInv
<1> SUFFICES ASSUME NEW c \in Clients PROVE EchoOk(c)
  BY DEF EchoInv
<1>1. /\ wire[c] = <<>> /\ kept = {} /\ client[c].ready = FALSE
  BY DEF Init, Booted, NewRecord
<1>2. QED
  BY <1>1 DEF EchoOk, Leads, Confirmed, Awaited

LEMMA NextEchoes ==
    ASSUME IInv, EchoInv, [Next]_vars, ~skipped' PROVE EchoInv'
<1>1. CASE UNCHANGED vars
  BY <1>1, EchoSame DEF vars, server, links
<1>2. CASE Next
  <2>1. ASSUME NEW c \in Clients, Work(c) PROVE EchoInv'
    <3>1. CASE Join(c) \/ Publish(c)
      BY <3>1, EchoSame DEF Join, Publish, server, links
    <3>2. CASE Recover(c)
      BY <3>2, RecoverEchoes
    <3>3. CASE Hangup(c)
      BY <3>3, ClosingEchoes
    <3>4. CASE Forward(c)
      BY <3>4, ForwardEchoes
    <3>5. CASE Poll(c)
      BY <3>5, PollEchoes
    <3>6. CASE HandleUpdate(c)
      BY <3>6, HandleUpdateEchoes
    <3>7. CASE SaveSnapshot(c)
      BY <3>7, SaveSnapshotEchoes
    <3>8. CASE Persist(c)
      BY <3>8, PersistEchoes
    <3>9. CASE Receive(c)
      BY <3>9, ReceiveEchoes
    <3>10. CASE Merge(c)
      BY <3>10, MergeEchoes
    <3>11. CASE Refresh(c) \/ Drop(c)
      BY <3>11, LossEchoes
    <3>12. CASE Refuse(c)
      BY <3>12, RefuseEchoes
    <3>13. QED
      BY <2>1, <3>1, <3>2, <3>3, <3>4, <3>5, <3>6, <3>7, <3>8, <3>9, <3>10, <3>11, <3>12 DEF Work
  <2>2. ASSUME NEW c \in Clients, Edit(c) PROVE EchoInv'
    BY <2>2, EditEchoes
  <2>3. ASSUME NEW c \in Clients, PrepareMerge(c) \/ PreparePublish(c) PROVE EchoInv'
    BY <2>3, EchoSame DEF PrepareMerge, PreparePublish, server, links
  <2>4. ASSUME NEW c \in Clients, LoseConnection(c) \/ Reopen(c) PROVE EchoInv'
    BY <2>4, ClosingEchoes
  <2>5. ASSUME NEW m \in unsent, Broadcast(m) PROVE EchoInv'
    BY <2>5, EchoSame DEF Broadcast, server
  <2>6. QED
    BY <1>2, <2>1, <2>2, <2>3, <2>4, <2>5 DEF Next
<1>3. QED
  BY <1>1, <1>2

(* A quiet client is up, so it was written everything; unless it is deaf   *)
(* it has read it, and what it would wait for, if it is ready, is nowhere. *)
LEMMA QuietFollows ==
    ASSUME IInv, EchoInv PROVE QuietMeansSynced
<1> SUFFICES ASSUME Quiet, NEW c \in Clients, client[c].mode # "deaf"
             PROVE  /\ UpTo(Latest) \subseteq client[c].doc
                    /\ client[c].mode = "live" =>
                          client[c].doc = UpTo(Latest) /\ client[c].pending = {}
  BY DEF QuietMeansSynced
<1> DEFINE k == client[c]
<1>1. /\ wire[c] = <<>> /\ uplink[c] = <<>> /\ conn[c] = "open" /\ Latest <= written[c]
      /\ k.queued = {}
  <2>1. conn[c] # "denied"
    BY Parts DEF LinkTypes
  <2>2. QED
    BY <2>1 DEF Quiet
<1>2. written[c] \in Nat /\ Latest \in Nat /\ k.cursor \in Nat /\ k.cursor <= Latest
  BY CursorIn, Parts DEF LinkTypes
<1>3. Flow(TRUE, written[c], <<>>, k.cursor, Listens(k))
  <2>1. Connected(c) = TRUE
    BY <1>1 DEF Connected
  <2>2. FlowOk(c)
    BY Parts DEF WiresOk, WireOk
  <2>3. QED
    BY <1>1, <2>1, <2>2 DEF FlowOk
<1>4. k.mode = "live" => k.ready
  <2>1. ~Listens(k) => \E i \in 1 .. Len(<<>>) : <<>>[i].kind = "ready"
    BY <1>3 DEF Flow
  <2>2. Listens(k)
    BY <2>1
  <2>3. QED
    BY <2>2 DEF Listens
<1>5. k.cursor = Latest
  <2>1. Before(written[c], <<>>, k.cursor, Len(<<>>) + 1)
    BY <1>3 DEF Flow
  <2>2. \A n \in 1 .. written[c] : n <= k.cursor
    BY <2>1 DEF Before
  <2>3. Latest = 0 \/ Latest \in 1 .. written[c]
    BY <1>1, <1>2
  <2>4. QED
    BY <1>2, <2>2, <2>3
<1>6. k.doc = Firsts(accepted, Latest) \cup k.pending
  <2>1. RecordOk(accepted, born, k)
    BY Parts DEF ClientsOk
  <2>2. QED
    BY <1>5, <2>1 DEF RecordOk
<1>7. ASSUME k.mode = "live" PROVE k.pending = {}
  <2> SUFFICES ASSUME NEW u \in k.pending PROVE FALSE
    OBVIOUS
  <2>1. u \in k.queued \/ Requeues(<<>>) \/ Sends(<<>>, u) \/ Ahead(k.cursor, u)
    BY <1>1, <1>4, <1>7, EchoOf DEF Awaited
  <2>2. PICK n \in 1 .. Latest : k.cursor < n
    BY <1>1, <2>1 DEF Requeues, Sends, Ahead
  <2>3. QED
    BY <1>2, <1>5, <2>2
<1>8. QED
  BY <1>6, <1>7, UpToIs

-----------------------------------------------------------------------------

(* The shape of the log, the frames, the messages and the records, and a   *)
(* client ready only while connected, whatever connections, broadcasts and *)
(* browsers are lost, as long as no unready client has absorbed an update  *)
(* past a gap (client.ts, service.go).                                     *)
THEOREM TypeCorrect == Spec => [](~skipped => TypeOK)
<1>1. skipped \/ IInv => (~skipped => TypeOK)
  BY TypesFollow
<1>2. QED
  BY <1>1, Invariance, PTL

(* A session ended for good.                                               *)
NobodyIsDenied == ~skipped => \A c \in Clients : conn[c] # "denied"

(* No client's session is ended for good over a snapshot: two snapshots at *)
(* one sequence never have different hashes (service.go SaveSnapshot).     *)
THEOREM NobodyDenied == Spec => []NobodyIsDenied
<1>1. skipped \/ IInv => NobodyIsDenied
  BY Parts DEF LinkTypes, NobodyIsDenied
<1>2. QED
  BY <1>1, Invariance, PTL

(* A client's cursor never passes an update it does not have, in memory or *)
(* in its store (client.ts handleServerMessage, offline-store.ts).         *)
THEOREM CursorsAreComplete == Spec => []CursorIsComplete
<1>1. skipped \/ IInv => CursorIsComplete
  BY CursorFollows DEF CursorIsComplete
<1>2. QED
  BY <1>1, Invariance, PTL

(* A recovery from the start gives exactly what was accepted, whatever was *)
(* compacted (service.go LoadSince, SaveSnapshot).                         *)
THEOREM CompactionLosesNothing == Spec => []NothingIsLost
<1>1. skipped \/ IInv => NothingIsLost
  BY NothingFollows DEF NothingIsLost
<1>2. QED
  BY <1>1, Invariance, PTL

(* A stored snapshot is the document at its sequence (service.go           *)
(* SaveSnapshot, client.ts maybeSaveSnapshot).                             *)
THEOREM SnapshotsExact == Spec => []SnapshotsAreExact
<1>1. skipped \/ IInv => SnapshotsAreExact
  BY ExactnessFollows DEF SnapshotsAreExact
<1>2. QED
  BY <1>1, Invariance, PTL

(* What is published is the document at its sequence (publish.go, the      *)
(* editor's publication).                                                  *)
THEOREM PublicationsExact == Spec => []PublishedIsExact
<1>1. skipped \/ IInv => PublishedIsExact
  BY ExactnessFollows DEF PublishedIsExact
<1>2. QED
  BY <1>1, Invariance, PTL

(* A merge is computed from a document that has every update before it     *)
(* (service.go AppendCASInTx, the merge page).                             *)
THEOREM MergesComplete == Spec => []MergesSeeEverything
<1>1. skipped \/ IInv => MergesSeeEverything
  BY ExactnessFollows DEF MergesSeeEverything
<1>2. QED
  BY <1>1, Invariance, PTL

(* When nothing more happens by itself, every client that refresh has not  *)
(* disturbed is up to date and its own updates have come back: nobody      *)
(* waits for an echo that was lost with a broadcast, a connection or a     *)
(* compaction.  One left unready by a refused publication has every update *)
(* the server has; one deafened by a gap is promised nothing (client.ts,   *)
(* service.go).                                                            *)
THEOREM NobodyWaitsForAnEcho == Spec => []QuietMeansSynced
<1> DEFINE J == IInv /\ EchoInv
<1>1. Init => skipped \/ J
  BY InitInv, InitEchoes
<1>2. (skipped \/ J) /\ [Next]_vars => (skipped \/ J)'
  BY NextInv, NextEchoes, SkippedStays
<1>3. skipped \/ J => QuietMeansSynced
  BY QuietFollows DEF QuietMeansSynced
<1>4. QED
  BY <1>1, <1>2, <1>3, PTL DEF Spec
=============================================================================
