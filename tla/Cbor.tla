-------------------------------- MODULE Cbor --------------------------------
(***************************************************************************)
(* The CBOR layer every stored record is read through: fstree/fx.rs, a     *)
(* port of the Go decoder the format was first defined by.  Input is       *)
(* checked for well-formedness as a whole (wf_item, an explicit stack of   *)
(* frames in place of recursion) before any of it is decoded (FxDecode).   *)
(*                                                                         *)
(* A document is a sequence of tokens.  A token is one item head together  *)
(* with the bytes of a definite string, so the byte arithmetic of a head   *)
(* is reduced to how it was written:                                       *)
(*   "short"    the shortest form        "long"  a longer form             *)
(*   "indef"    indefinite length        "cut"   it claims more than there *)
(*   "reserved" additional information 28..30, or a truncated argument     *)
(* String contents are sequences of bytes 0..MaxByte; byte MaxByte never   *)
(* occurs in valid UTF-8.  MaxInt and MaxUint stand for the limits of i64  *)
(* and u64.                                                                *)
(***************************************************************************)
EXTENDS Integers, Sequences, FiniteSets, SequencesExt, FiniteSetsExt

CONSTANTS MaxByte, MaxInt,
          MaxNested,   \* max_nested of DECODE_WF
          MaxArray,    \* max_array of DECODE_WF, and MAX_ITEMS of scan.rs
          MaxMap       \* max_map of DECODE_WF

ASSUME CborAssumption ==
    /\ MaxByte \in Nat \ {0} /\ MaxInt \in Nat /\ MaxByte < MaxInt
    /\ MaxNested \in Nat \ {0} /\ MaxArray \in Nat /\ MaxMap \in Nat

MaxUint == 2 * MaxInt + 1

Strings == {"bytes", "text"}
Containers == {"array", "map"}
Prims == {"false", "null", "float", "simple", "break"}

Tok(t, n) == [t |-> t, n |-> n, s |-> <<>>, len |-> "short"]
Str(t, s) == [t |-> t, n |-> Len(s), s |-> s, len |-> "short"]
Indef(t) == [t |-> t, n |-> 0, s |-> <<>>, len |-> "indef"]
Break == Tok("break", 0)
Null == Tok("null", 0)

Major(tok) == IF tok.t \in Prims THEN "prim" ELSE tok.t

-----------------------------------------------------------------------------
(***************************************************************************)
(* Well-formedness, one token at a time.                                   *)
(***************************************************************************)

\* WfOpts: limits, whether indefinite lengths are allowed, and whether the
\* content of the built-in tags 0..3 is checked.
DECODE_WF == [nested |-> MaxNested, array |-> MaxArray, map |-> MaxMap, indef |-> TRUE, tags |-> FALSE]

\* The encoder's mode for spliced raw items: no limit a small document meets.
MARSHALER_WF == [nested |-> 65535, array |-> 2147483647, map |-> 2147483647,
                 indef |-> FALSE, tags |-> TRUE]

\* The most items a container of the type may have, pairs for a map.
Cap(o, t) == IF t = "map" THEN o.map ELSE o.array

NoChain == [num |-> -1, depth |-> 0]

\* The checker between two tokens: its frames, the tag chain whose content
\* comes next, and what it knows so far.
WfStart == [stack |-> <<>>, chain |-> NoChain, verdict |-> "more"]

Failed(s) == [s EXCEPT !.verdict = "error"]

Definite(n, depth) == [k |-> "definite", left |-> n, depth |-> depth]
Indefinite(t, depth) == [k |-> "indefinite", map |-> t = "map", count |-> 0, depth |-> depth]
Chunks(t) == [k |-> "chunks", of |-> t, depth |-> 0]

\* A head no item may start with.
wf_head_bad(tok) ==
    \/ tok.len = "reserved"
    \/ tok.t = "break"
    \/ tok.len = "indef" /\ tok.t \in {"uint", "nint", "tag"}
    \/ tok.t = "simple" /\ tok.len = "long" /\ tok.n < 32

\* Tags 0..3 must be followed by the type of content they name.
valid_builtin_tag(num, tok) ==
    CASE num = 0 -> tok.t = "text"
      [] num = 1 -> tok.t \in {"uint", "nint", "float"}
      [] num \in {2, 3} -> tok.t = "bytes"
      [] OTHER -> TRUE

\* Mutant of complete_item: at most one full container is unwound.
complete_item_one(s, o) ==
    LET n == Len(s.stack)
        closes == n > 0 /\ s.stack[n].k = "definite" /\ s.stack[n].left = 1
        rest == IF closes THEN Front(s.stack) ELSE s.stack
        m == Len(rest)
    IN  CASE m = 0 -> [s EXCEPT !.stack = <<>>, !.chain = NoChain, !.verdict = "ok"]
          [] m > 0 /\ rest[m].k = "definite" ->
                [s EXCEPT !.stack = [rest EXCEPT ![m].left = @ - 1], !.chain = NoChain]
          [] m > 0 /\ rest[m].k = "indefinite" ->
                [s EXCEPT !.stack = [rest EXCEPT ![m].count = @ + 1], !.chain = NoChain]
          [] m > 0 /\ rest[m].k = "chunks" -> [s EXCEPT !.stack = rest, !.chain = NoChain]

\* One item is complete: every definite container it was the last item of is
\* complete too, and the frame above them counts one more item.
complete_item(s, o) ==
    LET n == Len(s.stack)
        full == Max({j \in 0..n : \A i \in (n - j + 1)..n :
                        s.stack[i].k = "definite" /\ s.stack[i].left = 1})
        rest == SubSeq(s.stack, 1, n - full)
        m == n - full
        counted == rest[m].count + 1
        pairs == IF rest[m].map THEN counted \div 2 ELSE counted
    IN  CASE m = 0 -> [s EXCEPT !.stack = <<>>, !.chain = NoChain, !.verdict = "ok"]
          [] m > 0 /\ rest[m].k = "definite" ->
                [s EXCEPT !.stack = [rest EXCEPT ![m].left = @ - 1], !.chain = NoChain]
          [] m > 0 /\ rest[m].k = "indefinite" ->
                IF pairs > Cap(o, IF rest[m].map THEN "map" ELSE "array") THEN Failed(s)
                ELSE [s EXCEPT !.stack = [rest EXCEPT ![m].count = counted],
                               !.chain = NoChain]
          [] m > 0 /\ rest[m].k = "chunks" ->
                [s EXCEPT !.stack = rest, !.chain = NoChain]

Push(s, frame) == [s EXCEPT !.stack = Append(@, frame), !.chain = NoChain]
Pop(s) == [s EXCEPT !.stack = Front(@)]

\* Mutant of wf_break: a key without its value may end an indefinite map.
wf_break_odd(s, o) == complete_item(Pop(s), o)

\* A break ends the indefinite item on top, unless a map key lacks its value.
wf_break(s, o) ==
    IF Last(s.stack).k = "indefinite" /\ Last(s.stack).map
                                      /\ Last(s.stack).count % 2 = 1
    THEN Failed(s)
    ELSE complete_item(Pop(s), o)

\* Mutant of wf_container: an empty container waits for items too.
wf_container_empty(s, tok, depth, o) ==
    LET items == IF tok.t = "map" THEN 2 * tok.n ELSE tok.n
    IN  CASE depth > o.nested -> Failed(s)
          [] depth <= o.nested /\ tok.len = "indef" ->
                IF o.indef THEN Push(s, Indefinite(tok.t, depth)) ELSE Failed(s)
          [] depth <= o.nested /\ tok.len # "indef" ->
                IF tok.len = "cut" \/ tok.n > Cap(o, tok.t) THEN Failed(s)
                ELSE Push(s, Definite(items, depth))

\* An array or map head, found at the given depth.
wf_container(s, tok, depth, o) ==
    LET items == IF tok.t = "map" THEN 2 * tok.n ELSE tok.n
    IN  CASE depth > o.nested -> Failed(s)
          [] depth <= o.nested /\ tok.len = "indef" ->
                IF o.indef THEN Push(s, Indefinite(tok.t, depth)) ELSE Failed(s)
          [] depth <= o.nested /\ tok.len # "indef" ->
                IF tok.len = "cut" \/ tok.n > Cap(o, tok.t) THEN Failed(s)
                ELSE IF items = 0 THEN complete_item(s, o)
                ELSE Push(s, Definite(items, depth))

wf_string(s, tok, o) ==
    CASE tok.len = "indef" -> IF o.indef THEN Push(s, Chunks(tok.t)) ELSE Failed(s)
      [] tok.len = "cut" -> Failed(s)
      [] OTHER -> complete_item(s, o)

\* The next item's head.  The first tag of a chain costs no nesting level,
\* each further one does.
wf_item(s, tok, o) ==
    LET tagged == s.chain # NoChain
        depth == IF tagged THEN s.chain.depth
                 ELSE IF s.stack = <<>> THEN 0 ELSE Last(s.stack).depth
        link == IF tagged THEN depth + 1 ELSE depth
    IN  CASE \/ wf_head_bad(tok)
             \/ tagged /\ o.tags /\ ~valid_builtin_tag(s.chain.num, tok) -> Failed(s)
          [] OTHER ->
             CASE tok.t \in Strings -> wf_string(s, tok, o)
               [] tok.t \in Containers -> wf_container(s, tok, depth + 1, o)
               [] tok.t = "tag" ->
                    IF link > o.nested /\ tagged THEN Failed(s)
                    ELSE [s EXCEPT !.chain = [num |-> tok.n, depth |-> link]]
               [] OTHER -> complete_item(s, o)

\* One token.  Inside an indefinite string only definite chunks of its own
\* type may follow; the content of a tag is never taken for the break of the
\* container around it.
wf_step(s, tok, o) ==
    LET top == Last(s.stack)
        inside == s.chain = NoChain /\ s.stack # <<>>
    IN  CASE s.verdict # "more" -> Failed(s)
          [] s.verdict = "more" /\ inside /\ top.k # "definite" /\ tok = Break ->
                wf_break(s, o)
          [] s.verdict = "more" /\ inside /\ top.k = "chunks" /\ tok # Break
                /\ (tok.t # top.of \/ tok.len = "indef") -> Failed(s)
          [] OTHER -> wf_item(s, tok, o)

RECURSIVE wf_rest(_, _, _, _)

wf_rest(s, doc, i, o) ==
    IF i > Len(doc) \/ s.verdict = "error" THEN s
    ELSE wf_rest(wf_step(s, doc[i], o), doc, i + 1, o)

\* wellformed: exactly one item and nothing after it.
wellformed(doc, o) == wf_rest(WfStart, doc, 1, o).verdict = "ok"
=============================================================================
