----------------------------- MODULE MCSegment ------------------------------
(* Instances of Segment for TLC, with interchangeable keys. *)
EXTENDS Segment, TLC

CONSTANTS k1, k2

AnyKey == Permutations(Keys)
=============================================================================
