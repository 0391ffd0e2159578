------------------------ MODULE MCPageIdentityScopes ------------------------
(* Two instances of PageIdentity in one run: a behaviour is "concurrent"   *)
(* (two writers, two pages, redirects to pages and unresolved titles, no   *)
(* governed rename) or "serial" (one transaction at a time, three pages,   *)
(* every operation and kind of target), and stays so.                      *)
EXTENDS MCPageIdentity

VARIABLE scope

ConcurrentBounds ==
    /\ Cardinality(Existing \cup ({Page(w) : w \in Writers} \cap Pages)) <= 2
    /\ \A w \in Writers : ~At(w, "idle") =>
          /\ mover[w].op # "unredirect"
          /\ mover[w].governed => mover[w].op # "rename"
          /\ mover[w].op = "redirect" /\ mover[w].undoes = NoBatch => To(w).kind \in PageOrTitle

ScopedNext ==
    /\ UNCHANGED scope
    /\ \/ scope = "serial" /\ SerialNext
       \/ scope = "concurrent" /\ \E w \in Writers :
              Execute(w) \/ (Request(w) /\ ConcurrentBounds')

ScopedInit == NamesInit /\ scope \in {"concurrent", "serial"}

ScopedSpec == ScopedInit /\ [][ScopedNext]_<<namesVars, scope>>

(* One transaction at a time, following page redirects never leads back     *)
(* (CreateRedirectInTx: "so no edge can introduce a redirect cycle").      *)
SerialPageRedirectsAcyclic == scope = "serial" => PageRedirectsAcyclic

(* One transaction at a time, a redirect never names a deleted page: it is  *)
(* refused for a deleted target, and a redirect's target is not deleted.   *)
SerialRedirectTargetsLive == scope = "serial" => RedirectTargetsLive

(* One transaction at a time, a title leads to at most one live page, by    *)
(* its title or by an alias (RenamePage refuses another page's alias).     *)
SerialTitleNamesOnePage == scope = "serial" => TitleNamesOnePage
=============================================================================
