----------------------------- MODULE MCPkgQueue -----------------------------
(* Small instances of PkgQueue for TLC.                                    *)
EXTENDS PkgQueue

CONSTANTS appA, appB, c1, c2, w1, w2, w3, s1, n1

\* One package or two in a request.
OneOrTwo == {<<appA>>, <<appA, appB>>}
OneEach == {<<appA>>, <<appB>>}
JustA == {<<appA>>}

\* Callers are alike and so are workers.
Alike == Permutations(Callers) \cup Permutations(Workers)
=============================================================================
