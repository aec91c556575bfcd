---------------------------- MODULE MCCollector -----------------------------
(***************************************************************************)
(* Instances of Collector for TLC: a directory or commit with a Blob in    *)
(* it, and a git tree, top, two entries of which name the same object tree,*)
(* one as a file and the other as a directory with a file in it.           *)
(***************************************************************************)
EXTENDS Collector, TLC

CONSTANTS s1, s2, put1, put2, direct1, commit, top, tree, blob, g1, g2, g3

OwnerOf == [w \in Writers |-> IF w = put2 THEN s2 ELSE s1]
Link(k, leaf) == [key |-> k, leaf |-> leaf]
TreeLinks ==
    [k \in Keys |-> CASE k = commit -> {Link(blob, TRUE)}
                      [] k = top -> {Link(tree, TRUE), Link(tree, FALSE)}
                      [] k = tree -> {Link(blob, TRUE)}
                      [] OTHER -> {}]

(* The packs that are not there at the start are interchangeable. *)
NewPacks == Permutations(Packs \ Old)
=============================================================================
