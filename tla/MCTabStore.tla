----------------------------- MODULE MCTabStore -----------------------------
(* Persisted states to start from: a fresh install, the flat list of v1    *)
(* with a global path, a v2 state, and a v3 state whose pins are out of    *)
(* order and whose active tab sits under the wrong workspace.              *)
EXTENDS TabStore, TLC

CONSTANTS i1, i2, i3, i4

FourIds == {i1, i2, i3, i4}
Symm == Permutations(FourIds) \cup Permutations(Slugs)

At(w, p) == [ws |-> w, page |-> p]

SavedStates ==
  LET w == CHOOSE x \in Slugs : TRUE
      u == IF Slugs = {w} THEN w ELSE CHOOSE x \in Slugs \ {w} : TRUE
      p == IF Pages = {Home} THEN Home ELSE CHOOSE x \in Pages \ {Home} : TRUE
      fresh == [version |-> 3, ws |-> None, by |-> [x \in {} |-> None]]
      v1 == [version |-> 1, active |-> i2,
             tabs |-> <<[id |-> i1, path |-> Root], [id |-> i2, path |-> At(u, p)],
                        [id |-> i3, path |-> At(w, Home)]>>]
      v2 == [version |-> 2, ws |-> None,
             by |-> [x \in {w} |-> [active |-> i2, tabs |-> <<[id |-> i2, path |-> At(w, p)]>>]]]
      v3 == [version |-> 3, ws |-> w,
             by |-> [x \in {w} |-> [active |-> i3,
                      tabs |-> <<SavedTab(i1, At(w, p), FALSE), SavedTab(i2, At(w, Home), TRUE),
                                 SavedTab(i3, At(u, Home), FALSE)>>]]]
  IN {fresh, v1, v2, v3}
=============================================================================
