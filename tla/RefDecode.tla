----------------------------- MODULE RefDecode ------------------------------
(***************************************************************************)
(* The private CBOR reader of reference.rs.  It reads the same documents   *)
(* as fx.rs with other code: a recursive well-formedness pass over the     *)
(* whole document (skip_item), then a second pass that reads the fields    *)
(* and stops at the first error.  Indefinite lengths are not read at all.  *)
(* A reader returns Res(next position, value, error).                      *)
(***************************************************************************)
EXTENDS CborWrite

Err == Res(0, <<>>, TRUE)
Ok(off, val) == Res(off, val, FALSE)

\* cbor::read_head fails at the end of the input and on additional
\* information 28..31.
Unreadable(d, i) == i \notin DOMAIN d \/ d[i].len \in {"indef", "reserved"} \/ d[i].t = "break"

RECURSIVE skip_item(_, _, _), skip_many(_, _, _, _), skip_tags(_, _, _)

\* Past one well-formed item found at the given depth; 0 if there is none.
skip_item(d, i, depth) ==
    LET tok == d[i]
    IN  IF Unreadable(d, i) \/ tok.len = "cut" THEN 0
        ELSE CASE tok.t \in Containers /\ depth + 1 > MaxNested -> 0
               [] tok.t = "array" /\ depth + 1 <= MaxNested ->
                    skip_many(d, i + 1, tok.n, depth + 1)
               [] tok.t = "map" /\ depth + 1 <= MaxNested ->
                    skip_many(d, i + 1, 2 * tok.n, depth + 1)
               [] tok.t = "tag" -> skip_tags(d, i + 1, depth)
               [] tok.t = "simple" /\ tok.len = "long" /\ tok.n < 32 -> 0
               [] OTHER -> i + 1

skip_many(d, i, n, depth) ==
    IF n = 0 \/ i = 0 THEN i ELSE skip_many(d, skip_item(d, i, depth), n - 1, depth)

\* The rest of a chain of tags, each of which costs a level, and its content.
skip_tags(d, i, depth) ==
    IF i > Len(d) THEN 0
    ELSE IF d[i].t # "tag" THEN skip_item(d, i, depth)
    ELSE IF Unreadable(d, i) \/ depth + 1 > MaxNested THEN 0
    ELSE skip_tags(d, i + 1, depth + 1)

-----------------------------------------------------------------------------
RECURSIVE ref_check_tags(_, _)

ref_check_tags(d, i) ==
    IF i > Len(d) \/ d[i].t # "tag" THEN TRUE
    ELSE i < Len(d) /\ valid_builtin_tag(d[i].n, d[i + 1]) /\ ref_check_tags(d, i + 1)

\* Where the value starts after self-described tags; 0 on a bad chain.
strip_and_check_tags(d, i) ==
    LET From(start) ==
            IF i > 0 /\ ref_check_tags(d, start) THEN start ELSE 0
    IN  From(StripSelfDescribed(d, i))

RECURSIVE read_tstr_field(_, _), read_bstr_field(_, _), read_byte_elem(_, _),
          read_int64_field(_, _), read_elems(_, _, _)

\* The bytes of a bignum's content, found after its tag.
read_bignum_content(d, i) ==
    IF Unreadable(d, i) \/ d[i].t # "bytes" \/ d[i].len = "cut" THEN Err
    ELSE Ok(i + 1, d[i].s)

read_tstr_field(d, at) ==
    LET Untagged(i) ==
            LET tok == d[i]
            IN  IF i = 0 \/ Unreadable(d, i) THEN Err
                ELSE CASE tok.t = "tag" -> IF tok.n \in {2, 3} THEN Err ELSE read_tstr_field(d, i + 1)
                       [] tok.t = "null" -> Ok(i + 1, <<>>)
                       [] tok.t = "text" /\ tok.len # "cut" /\ Utf8(tok.s) -> Ok(i + 1, tok.s)
                       [] OTHER -> Err
    IN  Untagged(strip_and_check_tags(d, at))

read_elems(d, i, n) ==
    LET Then(e, rest) == IF rest.err THEN Err ELSE Ok(rest.off, <<e.val>> \o rest.val)
        First(e) == IF e.err THEN Err ELSE Then(e, read_elems(d, e.off, n - 1))
    IN  IF n = 0 THEN Ok(i, <<>>) ELSE First(read_byte_elem(d, i))

read_bstr_field(d, at) ==
    LET Untagged(i) ==
            LET tok == d[i]
            IN  IF i = 0 \/ Unreadable(d, i) THEN Err
                ELSE CASE tok.t = "tag" -> IF tok.n \in {2, 3} THEN read_bignum_content(d, i + 1)
                                           ELSE read_bstr_field(d, i + 1)
                       [] tok.t = "null" -> Ok(i + 1, <<>>)
                       [] tok.t = "bytes" /\ tok.len # "cut" -> Ok(i + 1, tok.s)
                       [] tok.t = "array" /\ tok.len # "cut" -> read_elems(d, i + 1, tok.n)
                       [] OTHER -> Err
    IN  Untagged(strip_and_check_tags(d, at))

\* An integer of at most max; a simple value counts as its number.
Within(off, n, max) == IF n <= max THEN Ok(off, n) ELSE Err

read_byte_elem(d, at) ==
    LET Untagged(i) ==
            LET tok == d[i]
                big == read_bignum_content(d, i + 1)
            IN  IF i = 0 \/ Unreadable(d, i) THEN Err
                ELSE CASE tok.t \in {"uint", "simple"} -> Within(i + 1, tok.n, MaxByte)
                       [] tok.t = "tag" /\ tok.n = 2 ->
                            IF big.err THEN Err ELSE Within(big.off, bignum(big.val), MaxByte)
                       [] tok.t = "tag" /\ tok.n \notin {2, 3} -> read_byte_elem(d, i + 1)
                       [] tok.t = "null" -> Ok(i + 1, 0)
                       [] OTHER -> Err
    IN  Untagged(strip_and_check_tags(d, at))

read_int64_field(d, at) ==
    LET Untagged(i) ==
            LET tok == d[i]
                big == read_bignum_content(d, i + 1)
                Negative(off, n) == IF n <= MaxInt THEN Ok(off, -1 - n) ELSE Err
            IN  IF i = 0 \/ Unreadable(d, i) THEN Err
                ELSE CASE tok.t \in {"uint", "simple"} -> Within(i + 1, tok.n, MaxInt)
                       [] tok.t = "nint" -> Negative(i + 1, tok.n)
                       [] tok.t = "tag" /\ tok.n = 2 ->
                            IF big.err THEN Err ELSE Within(big.off, bignum(big.val), MaxInt)
                       [] tok.t = "tag" /\ tok.n = 3 ->
                            IF big.err THEN Err ELSE Negative(big.off, bignum(big.val))
                       [] tok.t = "tag" /\ tok.n \notin {2, 3} -> read_int64_field(d, i + 1)
                       [] tok.t = "null" -> Ok(i + 1, 0)
                       [] OTHER -> Err
    IN  Untagged(strip_and_check_tags(d, at))

-----------------------------------------------------------------------------
\* Field kinds of Reference by integer key; 4 and 5 are optional.
RefFields == 0 :> "string" @@ 1 :> "bytes" @@ 2 :> "string" @@ 3 :> "int"
          @@ 4 :> "bytes" @@ 5 :> "bytes"

read_field(k, d, i) ==
    CASE RefFields[k] = "string" -> read_tstr_field(d, i)
      [] RefFields[k] = "bytes" -> read_bstr_field(d, i)
      [] RefFields[k] = "int" -> read_int64_field(d, i)

RECURSIVE ref_pairs(_, _, _, _), ref_top(_, _)

\* Mutant of ref_pairs: a repeated key replaces the value.
ref_pairs_last(d, i, n, rec) ==
    LET key == d[i]
        known == key.t = "uint" /\ key.n \in DOMAIN RefFields
        other == \/ key.t \in {"uint", "nint"} /\ key.n <= MaxInt
                 \/ key.t = "text" /\ key.len # "cut" /\ Utf8(key.s)
        v == IF known THEN read_field(key.n, d, i + 1)
             ELSE Res(skip_item(d, skip_item(d, i, 1), 1), 0, FALSE)
    IN  IF n = 0 THEN Ok(i, rec)
        ELSE IF Unreadable(d, i) \/ ~(known \/ other) THEN Err
        ELSE IF v.err \/ v.off = 0 THEN Err
        ELSE ref_pairs(d, v.off, n - 1, IF known THEN key.n :> v.val @@ rec ELSE rec)

\* Mutant of ref_pairs: a repeated key's value is not skipped.
ref_pairs_unskipped(d, i, n, rec) ==
    LET key == d[i]
        known == key.t = "uint" /\ key.n \in DOMAIN RefFields
        first == known /\ key.n \notin DOMAIN rec
        other == \/ key.t \in {"uint", "nint"} /\ key.n <= MaxInt
                 \/ key.t = "text" /\ key.len # "cut" /\ Utf8(key.s)
        v == CASE first -> read_field(key.n, d, i + 1)
               [] known /\ ~first -> Res(i + 1, 0, FALSE)
               [] OTHER -> Res(skip_item(d, skip_item(d, i, 1), 1), 0, FALSE)
    IN  IF n = 0 THEN Ok(i, rec)
        ELSE IF Unreadable(d, i) \/ ~(known \/ other) THEN Err
        ELSE IF v.err \/ v.off = 0 THEN Err
        ELSE ref_pairs(d, v.off, n - 1, IF first THEN key.n :> v.val @@ rec ELSE rec)

\* n pairs into the record: the first value of a known key counts, a repeated
\* or unknown one is skipped, other types of keys are errors.
ref_pairs(d, i, n, rec) ==
    LET key == d[i]
        known == key.t = "uint" /\ key.n \in DOMAIN RefFields
        first == known /\ key.n \notin DOMAIN rec
        other == \/ key.t \in {"uint", "nint"} /\ key.n <= MaxInt
                 \/ key.t = "text" /\ key.len # "cut" /\ Utf8(key.s)
        Keep(v) ==
            IF v.err \/ v.off = 0 THEN Err
            ELSE ref_pairs(d, v.off, n - 1, IF first THEN key.n :> v.val @@ rec ELSE rec)
    IN  IF n = 0 THEN Ok(i, rec)
        ELSE IF Unreadable(d, i) \/ ~(known \/ other) THEN Err
        ELSE Keep(IF first THEN read_field(key.n, d, i + 1)
                  ELSE Res(skip_item(d, IF known THEN i + 1 ELSE skip_item(d, i, 1), 1), 0, FALSE))

ref_top(d, at) ==
    LET Untagged(i) ==
            LET Filled(p) == IF p.err THEN Err ELSE Ok(p.off, p.val @@ ZeroOf(RefFields))
            IN  IF i = 0 \/ Unreadable(d, i) THEN Err
                ELSE CASE d[i].t = "tag" -> IF d[i].n \in {2, 3} THEN Err ELSE ref_top(d, i + 1)
                       [] d[i].t = "null" -> Ok(i + 1, ZeroOf(RefFields))
                       [] d[i].t = "map" -> Filled(ref_pairs(d, i + 1, d[i].n, <<>>))
                       [] OTHER -> Err
    IN  Untagged(strip_and_check_tags(d, at))

\* unmarshal: pass one over the whole document, then pass two.
ref_unmarshal(d) == IF skip_item(d, 1, 0) = Len(d) + 1 THEN ref_top(d, 1) ELSE Err
=============================================================================
