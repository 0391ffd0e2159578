----------------------------- MODULE PageIdentity -----------------------------
(***************************************************************************)
(* Titles, aliases and redirects of pages (backend/internal/page/          *)
(* service.go and repository.go): creating, renaming and redirecting       *)
(* pages, and the governance rollback of each.                             *)
(*                                                                         *)
(* Every operation is one READ COMMITTED transaction.  Its reads are steps *)
(* of their own and see what has been committed by then; its writes are    *)
(* applied with its commit.  A FOR UPDATE lock on the page row is held     *)
(* from the lock statement to the commit, and blocks both other FOR UPDATE *)
(* locks and the FOR KEY SHARE lock with which a foreign key is checked.   *)
(* Display titles, wikis, namespaces and events are left out.              *)
(***************************************************************************)
EXTENDS PageRows, Integers, FiniteSets

CONSTANTS
    Titles,
    NoTitle,       \* the title of a page that does not exist yet
    Elsewhere,     \* an external wiki
    Operations,    \* the operations requested: "create", "rename", "redirect", "unredirect"
    TargetKinds,   \* the kinds of redirect target requested
    MaxBatches     \* model bound: governance batches applied and not rolled back

KindsApart ==
    /\ NoTitle \notin Titles /\ Titles \cap Pages = {}
    /\ NoOne \notin Writers \cup Pages

ASSUME PageIdentityAssumption == KindsApart /\ MaxBatches \in Nat

VARIABLES
    title,      \* page.normalized_title, NoTitle before the page is created
    alias,      \* page_alias rows
    redirect,   \* page_redirect row of each source page
    touched,    \* pages with a rename or redirect in their audit trail
    batches,    \* applied batches, with what each replaced and wrote
    lock,       \* the writer holding FOR UPDATE on each page row
    mover       \* the transaction of each writer

namesVars == <<title, deleted, alias, redirect, touched, batches, lock, mover>>

nameTables == <<title, deleted, alias, redirect, touched, batches>>

Existing == {p \in Pages : title[p] # NoTitle}
Live == Existing \ deleted

None == [kind |-> "none", to |-> Elsewhere]
Targets ==
    {None} \cup [kind : {"page", "section"}, to : Pages]
           \cup [kind : {"unresolved"}, to : Titles]
           \cup [kind : {"interwiki"}, to : {Elsewhere}]
Aliases == [title : Titles, page : Pages]

NoBatch == [op |-> "none", page |-> NoOne, was |-> None, now |-> None]
Idle == [phase |-> "idle", op |-> "none", page |-> NoOne, to |-> None, drop |-> {},
         at |-> NoOne, seen |-> {}, undoes |-> NoBatch, governed |-> FALSE]

NamesInit ==
    /\ title = [p \in Pages |-> NoTitle]
    /\ deleted = {} /\ alias = {} /\ touched = {} /\ batches = {}
    /\ redirect = [p \in Pages |-> None]
    /\ lock = [p \in Pages |-> NoOne]
    /\ mover = [w \in Writers |-> Idle]

-----------------------------------------------------------------------------
(* Reads.                                                                  *)

Titled(t) == {p \in Live : title[p] = t}               \* GetLivePageByTitle

AnyAliased(t) == {}                                    \* mutation

AliasRows(t) == {a \in alias : a.title = t}            \* GetAliasByTitle, which takes one

(* matchCandidates: what a title may resolve to.                           *)
Candidates(t) == Titled(t) \cup {p \in Live : [title |-> t, page |-> p] \in alias}

AlwaysFree(w, p) == TRUE                               \* mutation

LockFree(w, p) == lock[p] \in {NoOne, w}

-----------------------------------------------------------------------------
(* Transactions.                                                           *)

At(w, phase) == mover[w].phase = phase
Page(w) == mover[w].page
To(w) == mover[w].to

Begin(w, op, p, to, undoes, governed) ==
    /\ At(w, "idle")
    /\ mover' = [mover EXCEPT ![w] =
            [Idle EXCEPT !.phase = IF op = "create" THEN "title" ELSE "lock", !.op = op,
                         !.page = p, !.to = to, !.undoes = undoes, !.governed = governed]]
    /\ UNCHANGED <<nameTables, lock>>

Moves(w, phase) == mover' = [mover EXCEPT ![w].phase = phase]

ReleaseLater(w) ==                                     \* mutation
    mover' = [mover EXCEPT ![w] = Idle] /\ UNCHANGED lock

EndTransaction(w) ==
    /\ mover' = [mover EXCEPT ![w] = Idle]
    /\ lock' = [p \in Pages |-> IF lock[p] = w THEN NoOne ELSE lock[p]]

(* An error, a deadlock's victim, a lost connection or a crash: nothing of *)
(* the transaction remains.                                                *)
Abort(w) == ~At(w, "idle") /\ EndTransaction(w) /\ UNCHANGED nameTables

(* What the audit trail remembers of a committed operation.                *)
Recorded(w, was) ==
    /\ touched' = IF mover[w].op = "create" THEN touched ELSE touched \cup {Page(w)}
    /\ batches' = (batches \ {mover[w].undoes}) \cup
           (IF mover[w].governed
            THEN {[op |-> mover[w].op, page |-> Page(w), was |-> was, now |-> To(w)]} ELSE {})

RequestCreate(w, p, t, governed) ==
    /\ p \notin Existing /\ \A v \in Writers : Page(v) # p     \* a fresh id
    /\ Begin(w, "create", p, t, NoBatch, governed)

RequestRename(w, p, t, governed) ==
    p \in Existing /\ Begin(w, "rename", p, t, NoBatch, governed)

RequestRedirect(w, p, to, governed) ==
    /\ p \in Existing
    /\ to.kind \in {"page", "section"} => to.to \in Existing
    /\ Begin(w, "redirect", p, to, NoBatch, governed)

RequestUnredirect(w, p) ==
    p \in Existing /\ Begin(w, "unredirect", p, None, NoBatch, FALSE)

(* Rollback holds the batch row FOR UPDATE and applies the inverse.        *)
RequestInverse(w, b) ==
    /\ \A v \in Writers : mover[v].undoes # b
    /\ Begin(w, CASE b.op = "create" -> "erase"
                  [] b.op = "redirect" /\ b.was = None -> "unredirect"
                  [] OTHER -> b.op,
             b.page, b.was, b, FALSE)

-----------------------------------------------------------------------------
(* The row lock, and the checks made under it.                             *)

(* Only DeleteRedirect and RollbackRedirect do not ask for a live page.    *)
MayBeDeleted(w) == mover[w].op = "unredirect"

LivePage(w) == Page(w) \notin deleted \/ MayBeDeleted(w)

AsTheBatchLeftIt(w) ==
    LET b == mover[w].undoes
    IN  CASE b.op = "rename" -> title[Page(w)] = b.now
          [] b.op = "redirect" -> redirect[Page(w)] = b.now
          [] OTHER -> TRUE

AfterLock(w) ==
    CASE mover[w].op = "rename" -> "title"
      [] mover[w].op = "redirect" -> "target"
      [] OTHER -> mover[w].op

LockRow(w) ==
    /\ At(w, "lock") /\ lock[Page(w)] = NoOne
    /\ LivePage(w) /\ AsTheBatchLeftIt(w)              \* else Abort
    /\ lock' = [lock EXCEPT ![Page(w)] = w]
    /\ Moves(w, AfterLock(w))
    /\ UNCHANGED nameTables

-----------------------------------------------------------------------------
(* Titles: ensureTitleAvailable reads the live pages, then the aliases.    *)

(* Only the display title changes, which the audit trail records.          *)
Relabel(w) ==
    /\ At(w, "title") /\ mover[w].op = "rename" /\ title[Page(w)] = To(w)
    /\ Recorded(w, To(w)) /\ EndTransaction(w)
    /\ UNCHANGED <<title, deleted, alias, redirect>>

CheckLive(w) ==
    /\ At(w, "title")
    /\ mover[w].op = "rename" => title[Page(w)] # To(w)
    /\ Titled(To(w)) \subseteq {Page(w)}               \* else ErrTitleConflict
    /\ Moves(w, "alias")
    /\ UNCHANGED <<nameTables, lock>>

(* The page's own alias, or one of a deleted page, is deleted.             *)
Reclaims(w, a) == {a}

CheckAlias(w) ==
    /\ At(w, "alias")
    /\ \/ AliasRows(To(w)) = {} /\ Moves(w, "entitle")
       \/ \E a \in AliasRows(To(w)) :
              /\ a.page = Page(w) \/ a.page \in deleted    \* else ErrTitleConflict
              /\ mover' = [mover EXCEPT ![w].phase = "entitle", ![w].drop = Reclaims(w, a)]
    /\ UNCHANGED <<nameTables, lock>>

Former(w) ==
    IF mover[w].op = "rename" THEN {[title |-> title[Page(w)], page |-> Page(w)]} ELSE {}

(* InsertPage or UpdatePageTitle with InsertAlias; page_live_title_key     *)
(* refuses a title that another live page has taken meanwhile.             *)
Entitle(w) ==
    /\ At(w, "entitle") /\ Titled(To(w)) = {}
    /\ title' = [title EXCEPT ![Page(w)] = To(w)]
    /\ alias' = (alias \ mover[w].drop) \cup Former(w)
    /\ Recorded(w, title[Page(w)]) /\ EndTransaction(w)
    /\ UNCHANGED <<deleted, redirect>>

-----------------------------------------------------------------------------
(* Redirects.                                                              *)

(* normalizeRedirectTarget, and where validateRedirectChain starts.        *)
CheckTarget(w) ==
    LET to == To(w)
    IN  /\ At(w, "target")
        /\ to.kind \in {"page", "section"} => to.to \notin {Page(w)} \cup deleted
        /\ mover' = [mover EXCEPT ![w].phase = IF to.kind = "interwiki" THEN "upsert" ELSE "walk",
                                  ![w].at = to.to, ![w].seen = {Page(w)}]
        /\ UNCHANGED <<nameTables, lock>>

WalkEnds(w) == Moves(w, "upsert")

WalksTo(w, next) ==
    mover' = [mover EXCEPT ![w].at = next,
                           ![w].seen = @ \cup ({mover[w].at} \cap Pages)]

(* An unresolved title leads to the live page that has it, if any.         *)
WalkTitle(w) ==
    LET t == mover[w].at
    IN  /\ At(w, "walk") /\ t \in Titles
        /\ \/ Titled(t) = {} /\ WalkEnds(w)
           \/ \E p \in Titled(t) : WalksTo(w, p)
        /\ UNCHANGED <<nameTables, lock>>

NothingSeen(w, p) == TRUE                              \* mutation

NotSeen(w, p) == p \notin mover[w].seen

AtSectionTarget(w) == To(w).kind = "section" /\ mover[w].seen = {Page(w)}

WalkPage(w) ==
    LET p == mover[w].at
        next == redirect[p]
    IN  /\ At(w, "walk") /\ p \in Pages
        /\ NotSeen(w, p) /\ p \notin deleted           \* else Abort
        /\ IF AtSectionTarget(w) \/ next.kind \notin {"page", "unresolved"}
           THEN WalkEnds(w) ELSE WalksTo(w, next.to)
        /\ UNCHANGED <<nameTables, lock>>

(* The foreign key on target_page_id locks a new target FOR KEY SHARE,     *)
(* which waits while another transaction holds its row FOR UPDATE.         *)
ForeignKeyChecked(w) ==
    LET to == To(w)
        unchanged == redirect[Page(w)].kind \in {"page", "section"}
                       /\ redirect[Page(w)].to = to.to
    IN  to.kind \in {"page", "section"} => unchanged \/ LockFree(w, to.to)

Upsert(w) ==
    /\ At(w, "upsert") /\ ForeignKeyChecked(w)
    /\ redirect' = [redirect EXCEPT ![Page(w)] = To(w)]
    /\ Recorded(w, redirect[Page(w)]) /\ EndTransaction(w)
    /\ UNCHANGED <<title, deleted, alias>>

Unredirect(w) ==
    /\ At(w, "unredirect") /\ redirect[Page(w)] # None
    /\ redirect' = [redirect EXCEPT ![Page(w)] = None]
    /\ Recorded(w, None) /\ EndTransaction(w)
    /\ UNCHANGED <<title, deleted, alias>>

-----------------------------------------------------------------------------
(* Rolling back a page's creation: one UPDATE under the page lock.         *)

RedirectsTo(p) ==
    {q \in Pages : redirect[q].kind \in {"page", "section"} /\ redirect[q].to = p}

TouchedOnly(p) == p \notin touched                     \* mutation

Untouched(p) == p \notin touched /\ redirect[p] = None /\ RedirectsTo(p) = {}

Erase(w) ==
    /\ At(w, "erase") /\ Untouched(Page(w))            \* else ErrPageLifecycleStale
    /\ deleted' = deleted \cup {Page(w)}
    /\ batches' = batches \ {mover[w].undoes}
    /\ EndTransaction(w)
    /\ UNCHANGED <<title, alias, redirect, touched>>

-----------------------------------------------------------------------------
Governable == {g \in BOOLEAN : g => Cardinality(batches) < MaxBatches}

Request(w) ==
    \/ \E p \in Pages, t \in Titles, g \in Governable :
           \/ "create" \in Operations /\ RequestCreate(w, p, t, g)
           \/ "rename" \in Operations /\ RequestRename(w, p, t, g)
    \/ \E p \in Pages, to \in Targets, g \in Governable :
           "redirect" \in Operations /\ to.kind \in TargetKinds /\ RequestRedirect(w, p, to, g)
    \/ \E p \in Pages : "unredirect" \in Operations /\ RequestUnredirect(w, p)
    \/ \E b \in batches : RequestInverse(w, b)

Execute(w) ==
    \/ LockRow(w) \/ Relabel(w) \/ CheckLive(w) \/ CheckAlias(w) \/ Entitle(w)
    \/ CheckTarget(w) \/ WalkTitle(w) \/ WalkPage(w) \/ Upsert(w) \/ Unredirect(w)
    \/ Erase(w) \/ Abort(w)

NamesNext == \E w \in Writers : Request(w) \/ Execute(w)

NamesSpec == NamesInit /\ [][NamesNext]_namesVars

(* One transaction at a time: each begins after the last has ended.        *)
Alone(w) == \A v \in Writers \ {w} : At(v, "idle")
SerialNext == \E w \in Writers : Alone(w) /\ (Request(w) \/ Execute(w))
SerialSpec == NamesInit /\ [][SerialNext]_namesVars

-----------------------------------------------------------------------------
Batches ==
    [op : {"create"}, page : Pages, was : {NoTitle}, now : Titles] \cup
    [op : {"rename"}, page : Pages, was : Titles, now : Titles] \cup
    [op : {"redirect"}, page : Pages, was : Targets, now : Targets]

(* Every table and transaction holds rows of its shape, and only a         *)
(* transaction past its lock statement holds its page's row lock.          *)
NamesTypeOK ==
    /\ title \in [Pages -> Titles \cup {NoTitle}]
    /\ deleted \subseteq Existing /\ touched \subseteq Existing
    /\ alias \subseteq Aliases /\ batches \subseteq Batches
    /\ redirect \in [Pages -> Targets]
    /\ \A p \in Pages : lock[p] # NoOne =>
           /\ lock[p] \in Writers /\ Page(lock[p]) = p
           /\ ~At(lock[p], "idle") /\ ~At(lock[p], "lock")
    /\ \A w \in Writers : mover[w].seen \subseteq Pages /\ mover[w].drop \subseteq Aliases

(* Two pages never redirect to each other, in whatever order concurrent    *)
(* redirects check and write: the foreign key's lock on a new target makes *)
(* one of the writers wait for the other's commit.  (A section redirect    *)
(* changed into a page redirect keeps its target and takes no such lock:   *)
(* with "section" among TargetKinds this does not hold.)                   *)
NoMutualRedirect ==
    \A p, q \in Pages :
        ~ /\ redirect[p] = [kind |-> "page", to |-> q]
          /\ redirect[q] = [kind |-> "page", to |-> p]

(* A deleted page redirects nowhere: neither a redirect checked before the *)
(* deletion nor a rollback that restores one arrives after it.             *)
DeletedPointsNowhere == \A p \in deleted : redirect[p] = None

(* No page is listed as a former title's owner under its present title,    *)
(* however often it is renamed back and forth.                             *)
NoSelfAlias == \A p \in Live : [title |-> title[p], page |-> p] \notin alias

(* Following page redirects never leads back, that is, it leads out of     *)
(* every set of pages (CreateRedirectInTx: "so no edge can introduce a     *)
(* redirect cycle").                                                       *)
PageRedirectsAcyclic ==
    \A ring \in (SUBSET Pages) \ {{}} :
        \E p \in ring : ~(redirect[p].kind = "page" /\ redirect[p].to \in ring)

(* A redirect never names a deleted page: it is refused for a deleted      *)
(* target, and a redirect's target is not deleted.                         *)
RedirectTargetsLive == \A p \in deleted : RedirectsTo(p) = {}

(* A title leads to at most one live page, by its title or by an alias     *)
(* (RenamePage: a title taken by another page's alias is a conflict).      *)
TitleNamesOnePage == \A t \in Titles : \A p, q \in Candidates(t) : p = q
=============================================================================
