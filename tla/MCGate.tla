------------------------------- MODULE MCGate -------------------------------
(***************************************************************************)
(* Instances of Gate for TLC.  Calls named s1... are made on the first     *)
(* store, s2... on the second, s3... on the third.  s1inner is a write     *)
(* made inside the span s1put; the cycles are begin_sweep, s1compact is a  *)
(* sweep_gate that can overlap s1cycle or come on its own.                 *)
(***************************************************************************)
EXTENDS Gate

CONSTANTS s1, s2, s3, s1put, s1inner, s1cycle, s1compact, s2put, s2cycle, s3cycle

TwoStores == {s1, s2}
ThreeStores == {s1, s2, s3}
OwnerOf ==
    [c \in Calls |-> CASE c \in {s2put, s2cycle} -> s2
                       [] c = s3cycle -> s3
                       [] OTHER -> s1]
Nesting == [c \in Calls |-> IF c = s1inner THEN {s1put} ELSE {}]
=============================================================================
