---------------------------- MODULE MCPageIdentity ----------------------------
(* Small instances of PageIdentity for TLC.                                *)
EXTENDS PageIdentity, TLC

CONSTANTS p1, p2, p3, t1, t2, t3, w1, w2

TwoPages == {p1, p2}
ThreePages == {p1, p2, p3}
TwoTitles == {t1, t2}
ThreeTitles == {t1, t2, t3}
OneWriter == {w1}
TwoWriters == {w1, w2}

TitleOperations == {"create", "rename"}
RedirectOperations == {"create", "redirect", "unredirect"}
AllOperations == {"create", "rename", "redirect", "unredirect"}
NoUnredirect == {"create", "rename", "redirect"}
PageTargets == {"page"}
PageOrTitle == {"page", "unresolved"}
AllTargets == {"page", "section", "unresolved", "interwiki"}

Interchangeable ==
    Permutations(ThreePages) \cup Permutations(ThreeTitles) \cup Permutations(TwoWriters)
InterchangeableTwo ==
    Permutations(TwoPages) \cup Permutations(TwoTitles) \cup Permutations(TwoWriters)
ThreePagesTwoTitles ==
    Permutations(ThreePages) \cup Permutations(TwoTitles) \cup Permutations(TwoWriters)
=============================================================================
