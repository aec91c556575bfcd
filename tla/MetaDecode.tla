----------------------------- MODULE MetaDecode -----------------------------
(***************************************************************************)
(* The private CBOR reader of inbox.rs, for the header of a staged pack:   *)
(* one pass that checks and reads at once, definite and indefinite         *)
(* lengths, tags unwrapped at the cost of a nesting level each.            *)
(***************************************************************************)
EXTENDS RefDecode

MetaFields == 0 :> "string" @@ 1 :> "bytes" @@ 2 :> "int"

\* Dec::head refuses the head, or take and the loops run into the end of the
\* input after it.  A break is a head.
BadHead(d, i) ==
    i \notin DOMAIN d \/ d[i].len = "cut" \/ (wf_head_bad(d[i]) /\ d[i].t # "break")

\* What was read first, before the rest, unless that failed.
Prepend(first, rest) == IF rest.err THEN Err ELSE Ok(rest.off, first \o rest.val)

RECURSIVE chunks(_, _, _), meta_skip(_, _, _), meta_skip_many(_, _, _, _),
          meta_skip_break(_, _, _)

\* The chunks of an indefinite string, to its break.
chunks(t, d, i) ==
    IF i \notin DOMAIN d THEN Err
    ELSE IF d[i] = Break THEN Ok(i + 1, <<>>)
    ELSE IF BadHead(d, i) \/ d[i].t # t \/ d[i].len \in {"indef", "cut"} THEN Err
    ELSE Prepend(d[i].s, chunks(t, d, i + 1))

\* A string of type t at i, in one piece or in chunks.
meta_string(t, d, i) ==
    IF d[i].len = "indef" THEN chunks(t, d, i + 1)
    ELSE IF d[i].len = "cut" THEN Err ELSE Ok(i + 1, d[i].s)

Utf8Owned(r) == IF r.err \/ ~Utf8(r.val) THEN Err ELSE r

\* skip_item: past one well-formed item at nesting level depth; 0 if none.
meta_skip(d, i, depth) ==
    LET tok == d[i]
    IN  IF BadHead(d, i) THEN 0
        ELSE CASE tok.t = "break" -> 0
               [] tok.t \in Strings -> meta_string(tok.t, d, i).off
               [] tok.t \in Containers \cup {"tag"} /\ depth > MaxNested -> 0
               [] tok.t = "tag" /\ depth <= MaxNested -> meta_skip(d, i + 1, depth + 1)
               [] tok.t \in Containers /\ depth <= MaxNested ->
                    IF tok.len = "indef"
                    THEN meta_skip_break(d, i + 1, depth + 1)
                    ELSE meta_skip_many(d, i + 1, IF tok.t = "map" THEN 2 * tok.n ELSE tok.n,
                                        depth + 1)
               [] OTHER -> i + 1

meta_skip_many(d, i, n, depth) ==
    IF n = 0 \/ i = 0 THEN i ELSE meta_skip_many(d, meta_skip(d, i, depth), n - 1, depth)

\* Items up to the break.  In a map they come in pairs, and a break where a
\* value is due is an item that cannot be skipped.
meta_skip_break(d, i, depth) ==
    LET pairs == d[i - 1].t = "map"
        Go[j \in 0..(Len(d) + 1)] ==
            IF j \notin DOMAIN d THEN 0
            ELSE IF d[j] = Break THEN j + 1
            ELSE LET k == meta_skip(d, j, depth)
                     v == IF pairs /\ k # 0 THEN meta_skip(d, k, depth) ELSE k
                 IN  Go[v]
    IN  Go[i]

-----------------------------------------------------------------------------
RECURSIVE meta_value(_, _, _, _), u8_elems(_, _, _)

\* check_tag_content: only tags 0 and 1 say what must follow.
check_tag_content(tag, d, i) ==
    tag > 1 \/ (~BadHead(d, i) /\ valid_builtin_tag(tag, d[i]))

\* The elements of an array into bytes, n of them or to the break (n = -1).
u8_elems(d, i, n) ==
    IF n = 0 THEN Ok(i, <<>>)
    ELSE IF i \notin DOMAIN d THEN Err
    ELSE IF n = -1 /\ d[i] = Break THEN Ok(i + 1, <<>>)
    ELSE IF BadHead(d, i) \/ ~(d[i].t = "null" \/ (d[i].t = "uint" /\ d[i].n <= MaxByte)) THEN Err
    ELSE Prepend(<<d[i].n>>, u8_elems(d, i + 1, IF n = -1 THEN -1 ELSE n - 1))

\* decode_ref, decode_root and decode_at, by the kind of the field.
meta_value(kind, d, i, depth) ==
    LET tok == d[i]
    IN  IF BadHead(d, i) THEN Err
        ELSE CASE tok.t = "tag" ->
                    IF depth > MaxNested \/ ~check_tag_content(tok.n, d, i + 1) THEN Err
                    ELSE meta_value(kind, d, i + 1, depth + 1)
               [] tok.t = "null" -> Ok(i + 1, Zero(kind))
               [] kind = "string" /\ tok.t = "text" -> Utf8Owned(meta_string("text", d, i))
               [] kind = "bytes" /\ tok.t = "bytes" -> meta_string("bytes", d, i)
               [] kind = "bytes" /\ tok.t = "array" ->
                    IF depth > MaxNested THEN Err ELSE u8_elems(d, i + 1, Count(tok))
               [] kind = "int" /\ tok.t = "uint" -> Within(i + 1, tok.n, MaxInt)
               [] kind = "int" /\ tok.t = "nint" ->
                    IF tok.n <= MaxInt THEN Ok(i + 1, -1 - tok.n) ELSE Err
               [] OTHER -> Err

\* The values of the top-level map are at nesting level 2.
VDEPTH == 2

\* Mutant of entry: a repeated key replaces the value.
entry_last(d, i, rec) ==
    LET key == d[i]
        k == Utf8Owned(meta_string("text", d, i))
        after == IF key.t = "text" THEN k.off ELSE i + 1
        Keep(v) == IF v.err THEN Err ELSE Ok(v.off, key.n :> v.val @@ rec)
        Past(end) == IF after = 0 \/ end = 0 THEN Err ELSE Ok(end, rec)
    IN  IF BadHead(d, i) \/ key.t \notin {"uint", "nint", "text"} THEN Err
        ELSE IF key.t = "uint" /\ key.n \in DOMAIN MetaFields
             THEN Keep(meta_value(MetaFields[key.n], d, i + 1, VDEPTH))
        ELSE Past(meta_skip(d, after, VDEPTH))

\* One pair of the map: the first value of a known key counts, a repeated or
\* unknown integer or text key's value is skipped.
entry(d, i, rec) ==
    LET key == d[i]
        k == Utf8Owned(meta_string("text", d, i))
        after == IF key.t = "text" THEN k.off ELSE i + 1
        Keep(v) == IF v.err THEN Err ELSE Ok(v.off, key.n :> v.val @@ rec)
        Past(end) == IF after = 0 \/ end = 0 THEN Err ELSE Ok(end, rec)
    IN  IF BadHead(d, i) \/ key.t \notin {"uint", "nint", "text"} THEN Err
        ELSE IF key.t = "uint" /\ key.n \in DOMAIN MetaFields \ DOMAIN rec
             THEN Keep(meta_value(MetaFields[key.n], d, i + 1, VDEPTH))
        ELSE Past(meta_skip(d, after, VDEPTH))

RECURSIVE entries(_, _, _, _)

entries(d, i, n, rec) ==
    IF n = 0 THEN Ok(i, rec)
    ELSE IF i \notin DOMAIN d THEN Err
    ELSE IF n = -1 /\ d[i] = Break THEN Ok(i + 1, rec)
    ELSE LET Then(e) ==
                 IF e.err THEN Err
                 ELSE entries(d, e.off, IF n = -1 THEN -1 ELSE n - 1, e.val)
         IN  Then(entry(d, i, rec))

\* The whole header, with nothing after it.
decode_meta(d) ==
    LET Whole(es) ==
            IF BadHead(d, 1) THEN Err
            ELSE CASE d[1].t = "null" /\ Len(d) = 1 -> Ok(2, ZeroOf(MetaFields))
                   [] d[1].t = "map" -> IF es.err \/ es.off # Len(d) + 1 THEN Err
                                        ELSE Ok(es.off, es.val @@ ZeroOf(MetaFields))
                   [] OTHER -> Err
    IN  Whole(entries(d, 2, Count(d[1]), <<>>))

\* encode_meta: all three fields, always.
encode_meta(m) == AppendMap(MetaFields, DOMAIN MetaFields, m)
=============================================================================
