---------------------------- MODULE CborGrammar -----------------------------
(***************************************************************************)
(* The recursive grammar of CBOR items that the iterative check of fx.rs   *)
(* replaces: where the item at i ends, 0 when there is none.               *)
(***************************************************************************)
EXTENDS Cbor

RECURSIVE ItemEnd(_, _, _), ItemsEnd(_, _, _, _), BreakEnd(_, _, _, _), ChunksEnd(_, _, _)

ItemEnd(d, i, depth) ==
    IF i = 0 \/ i > Len(d) THEN 0
    ELSE LET tok == d[i]
             tagged == i < Len(d) /\ d[i + 1].t = "tag"
         IN  CASE wf_head_bad(tok) \/ tok.len = "cut" -> 0
               [] OTHER ->
                  CASE tok.t = "tag" ->
                         IF tagged /\ depth + 1 > MaxNested THEN 0
                         ELSE ItemEnd(d, i + 1, IF tagged THEN depth + 1 ELSE depth)
                    [] tok.t \in Strings /\ tok.len = "indef" -> ChunksEnd(d, i + 1, tok.t)
                    [] tok.t \in Containers ->
                         IF depth + 1 > MaxNested \/ tok.n > Cap(DECODE_WF, tok.t) THEN 0
                         ELSE IF tok.len = "indef" THEN BreakEnd(d, i + 1, tok.t, depth + 1)
                         ELSE ItemsEnd(d, i + 1, IF tok.t = "map" THEN 2 * tok.n ELSE tok.n,
                                       depth + 1)
                    [] OTHER -> i + 1

ItemsEnd(d, i, n, depth) ==
    IF n = 0 \/ i = 0 THEN i ELSE ItemsEnd(d, ItemEnd(d, i, depth), n - 1, depth)

\* The break of an indefinite container, after whole items, in pairs for a map
\* and no more of them than its cap.
BreakEnd(d, i, t, depth) ==
    LET unit == IF t = "map" THEN 2 ELSE 1
        ends == {j \in 0..Cap(DECODE_WF, t) :
                    LET e == ItemsEnd(d, i, j * unit, depth)
                    IN  e # 0 /\ e <= Len(d) /\ d[e] = Break}
    IN  IF ends = {} THEN 0 ELSE ItemsEnd(d, i, Min(ends) * unit, depth) + 1

ChunksEnd(d, i, t) ==
    IF i > Len(d) THEN 0
    ELSE IF d[i] = Break THEN i + 1
    ELSE IF d[i].t = t /\ d[i].len \in {"short", "long"} THEN ChunksEnd(d, i + 1, t)
    ELSE 0
=============================================================================
