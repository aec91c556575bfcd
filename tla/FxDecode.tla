------------------------------ MODULE FxDecode ------------------------------
(***************************************************************************)
(* The typed decoders of fstree/fx.rs, over documents that passed the      *)
(* well-formedness check of Cbor.  A decoder takes a document and a        *)
(* position and returns where it stopped, the value, and whether it met    *)
(* an error.  It decodes on after an error, so that the caller finds the   *)
(* next item where it expects it.  The wording of errors is left out.      *)
(*                                                                         *)
(* The readers of the code clamp every position to the end of the input    *)
(* ("unreachable on well-formed input").  Here they do not, so a decoder   *)
(* that runs past the end is seen to.                                      *)
(***************************************************************************)
EXTENDS Cbor

At(d, i) == IF i <= Len(d) THEN d[i] ELSE Null

Res(off, val, err) == [off |-> off, val |-> val, err |-> err]

IsBreak(d, i) == i > Len(d) \/ d[i] = Break

\* A reader of items has n to go, or -1 for all up to the break.
Count(tok) == IF tok.len = "indef" THEN -1 ELSE tok.n
Ended(d, i, n) == (IsBreak(d, i) /\ n = -1) \/ n = 0
PastEnd(i, n) == IF n = 0 THEN i ELSE i + 1
Less(n) == IF n = -1 THEN -1 ELSE n - 1

RECURSIVE skip(_, _), SkipItems(_, _, _)

\* Past one item.
skip(d, i) ==
    LET tok == At(d, i)
    IN  CASE tok.len = "indef" -> SkipItems(d, i + 1, -1)
          [] tok.len # "indef" /\ tok.t = "array" -> SkipItems(d, i + 1, tok.n)
          [] tok.len # "indef" /\ tok.t = "map" -> SkipItems(d, i + 1, 2 * tok.n)
          [] tok.t = "tag" -> skip(d, i + 1)
          [] OTHER -> i + 1

SkipItems(d, i, n) ==
    IF Ended(d, i, n) THEN PastEnd(i, n) ELSE SkipItems(d, skip(d, i), Less(n))

RECURSIVE num_items_until_break(_, _)

\* How many items an indefinite container holds, looking ahead.
num_items_until_break(d, i) ==
    IF IsBreak(d, i) THEN 0 ELSE 1 + num_items_until_break(d, skip(d, i))

\* What was read first, before the rest.
Joined(first, rest) == Res(rest.off, first \o rest.val, rest.err)

RECURSIVE ByteChunks(_, _), TextChunks(_, _)

ByteChunks(d, i) ==
    IF IsBreak(d, i) THEN Res(i + 1, <<>>, FALSE)
    ELSE Joined(d[i].s, ByteChunks(d, i + 1))

parse_byte_string(d, i) ==
    IF At(d, i).len = "indef" THEN ByteChunks(d, i + 1)
    ELSE Res(i + 1, At(d, i).s, FALSE)

Utf8(bytes) == \A j \in DOMAIN bytes : bytes[j] # MaxByte

\* Mutant of TextChunks: a bad chunk ends the string where it stands.
TextChunksStop(d, i) ==
    IF IsBreak(d, i) THEN Res(i + 1, <<>>, FALSE)
    ELSE IF ~Utf8(d[i].s) THEN Res(i + 1, <<>>, TRUE)
    ELSE Joined(d[i].s, TextChunks(d, i + 1))

\* A bad chunk ends the string, but only after its remaining chunks.
TextChunks(d, i) ==
    IF IsBreak(d, i) THEN Res(i + 1, <<>>, FALSE)
    ELSE IF ~Utf8(d[i].s) THEN Res(SkipItems(d, i + 1, -1), <<>>, TRUE)
    ELSE Joined(d[i].s, TextChunks(d, i + 1))

parse_text_string(d, i) ==
    IF At(d, i).len = "indef" THEN TextChunks(d, i + 1)
    ELSE Res(i + 1, At(d, i).s, ~Utf8(At(d, i).s))

-----------------------------------------------------------------------------
(***************************************************************************)
(* What every target shares: tags, null, and the item of a wrong type.     *)
(***************************************************************************)

SelfDescribed == 55799

RECURSIVE StripSelfDescribed(_, _), CheckTags(_, _)

StripSelfDescribed(d, i) ==
    IF At(d, i).t = "tag" /\ At(d, i).n = SelfDescribed
    THEN StripSelfDescribed(d, i + 1) ELSE i

\* The chain of tags at i names the content that follows it; a bad link
\* consumes the rest of the item.
CheckTags(d, i) ==
    IF At(d, i).t # "tag" THEN Res(i, 0, FALSE)
    ELSE IF ~valid_builtin_tag(At(d, i).n, At(d, i + 1)) THEN Res(skip(d, i + 1), 0, TRUE)
    ELSE CheckTags(d, i + 1)

prologue(d, i) ==
    LET From(start) ==
            LET chain == CheckTags(d, start)
            IN  IF chain.err THEN chain ELSE Res(start, 0, FALSE)
    IN  From(StripSelfDescribed(d, i))

RECURSIVE unwrap(_, _)

\* Every target unwraps the tags it gives no meaning to and starts again at
\* their content; the bignum tags 2 and 3 it looks into.
unwrap(d, i) ==
    LET After(p) ==
            IF ~p.err /\ At(d, p.off).t = "tag" /\ At(d, p.off).n \notin {2, 3}
            THEN unwrap(d, p.off + 1) ELSE p
    IN  After(prologue(d, i))

\* Past an item of the wrong type.
wrong(d, i, zero) ==
    LET tok == At(d, i)
    IN  CASE tok.t = "text" -> Res(parse_text_string(d, i).off, zero, TRUE)
          [] tok.t = "bytes" -> Res(parse_byte_string(d, i).off, zero, TRUE)
          [] tok.t = "tag" -> Res(parse_byte_string(d, i + 1).off, zero, TRUE)
          [] tok.t \in Containers -> Res(skip(d, i), zero, TRUE)
          [] OTHER -> Res(i + 1, zero, tok.t # "null")

\* bignum_u64: the value of a big-endian byte string.
bignum(bytes) == FoldLeft(LAMBDA a, b : (MaxByte + 1) * a + b, 0, bytes)

Fill(off, n, max) == IF n > max THEN Res(off, 0, TRUE) ELSE Res(off, n, FALSE)

parse_to_uint(d, i, max) ==
    LET Untagged(u) ==
            LET tok == At(d, u.off)
                big == parse_byte_string(d, u.off + 1)
            IN  CASE u.err -> Res(u.off, 0, TRUE)
                  [] ~u.err /\ tok.t \in {"uint", "simple"} -> Fill(u.off + 1, tok.n, max)
                  [] ~u.err /\ tok.t = "tag" /\ tok.n = 2 -> Fill(big.off, bignum(big.val), max)
                  [] OTHER -> wrong(d, u.off, 0)
    IN  Untagged(unwrap(d, i))

parse_to_i64(d, i) ==
    LET Untagged(u) ==
            LET tok == At(d, u.off)
                big == parse_byte_string(d, u.off + 1)
                n == bignum(big.val)
                Negated(off, m) == IF m > MaxInt THEN Res(off, 0, TRUE) ELSE Res(off, -1 - m, FALSE)
            IN  CASE u.err -> Res(u.off, 0, TRUE)
                  [] ~u.err /\ tok.t \in {"uint", "simple"} -> Fill(u.off + 1, tok.n, MaxInt)
                  [] ~u.err /\ tok.t = "nint" -> Negated(u.off + 1, tok.n)
                  [] ~u.err /\ tok.t = "tag" /\ tok.n = 2 -> Fill(big.off, n, MaxInt)
                  [] ~u.err /\ tok.t = "tag" /\ tok.n = 3 -> Negated(big.off, n)
                  [] OTHER -> wrong(d, u.off, 0)
    IN  Untagged(unwrap(d, i))

parse_to_string(d, i) ==
    LET Untagged(u) ==
            LET s == parse_text_string(d, u.off)
            IN  CASE u.err -> Res(u.off, <<>>, TRUE)
                  [] ~u.err /\ At(d, u.off).t = "text" -> IF s.err THEN Res(s.off, <<>>, TRUE) ELSE s
                  [] OTHER -> wrong(d, u.off, <<>>)
    IN  Untagged(unwrap(d, i))

\* A raw item is captured as it stands, its remaining tags included.
parse_to_raw(d, i) ==
    LET After(p) ==
            IF p.err THEN Res(p.off, <<>>, TRUE)
            ELSE Res(skip(d, p.off), SubSeq(d, p.off, skip(d, p.off) - 1), FALSE)
    IN  After(prologue(d, i))

-----------------------------------------------------------------------------
(***************************************************************************)
(* Arrays and structs.                                                     *)
(***************************************************************************)

\* Field kinds by integer key: Entry, commit.wireIdentity, commit.wireCommit.
EntryFields == 0 :> "bytes" @@ 1 :> "uint" @@ 2 :> "uint" @@ 3 :> "uint" @@ 4 :> "int"
            @@ 5 :> "bytes" @@ 6 :> "bytes" @@ 7 :> "uints" @@ 8 :> "raw" @@ 9 :> "bytes"
IdentityFields == 0 :> "string" @@ 1 :> "string" @@ 2 :> "int" @@ 3 :> "int"
CommitFields == 0 :> "bytes" @@ 1 :> "slices" @@ 2 :> "identity" @@ 3 :> "identity"
             @@ 4 :> "string" @@ 5 :> "bytes" @@ 6 :> "bytes" @@ 7 :> "bytes"
             @@ 8 :> "slices" @@ 9 :> "strings"

\* What a field of a kind holds when nothing filled it.
ZeroId == 0 :> <<>> @@ 1 :> <<>> @@ 2 :> 0 @@ 3 :> 0
Zero(kind) == CASE kind \in {"uint", "int", "byte"} -> 0
                [] kind = "identity" -> ZeroId
                [] OTHER -> <<>>
ZeroOf(fields) == [k \in DOMAIN fields |-> Zero(fields[k])]

RECURSIVE parse_to(_, _, _), Elems(_, _, _, _), parse_to_struct(_, _, _),
          Pairs(_, _, _, _, _)

\* The elements of an array.
Elems(kind, d, i, n) ==
    IF Ended(d, i, n) THEN Res(PastEnd(i, n), <<>>, FALSE)
    ELSE LET Then(e, rest) == Res(rest.off, <<e.val>> \o rest.val, e.err \/ rest.err)
             First(e) == Then(e, Elems(kind, d, e.off, Less(n)))
         IN  First(parse_to(kind, d, i))

\* Bytes come from a byte string, a bignum, or an array of small integers.
parse_to_bytes(d, i) ==
    LET Untagged(u) ==
            LET tok == At(d, u.off)
            IN  CASE u.err -> Res(u.off, <<>>, TRUE)
                  [] ~u.err /\ tok.t = "bytes" -> parse_byte_string(d, u.off)
                  [] ~u.err /\ tok.t = "tag" -> parse_byte_string(d, u.off + 1)
                  [] ~u.err /\ tok.t = "array" -> Elems("byte", d, u.off + 1, Count(tok))
                  [] OTHER -> wrong(d, u.off, <<>>)
    IN  Untagged(unwrap(d, i))

parse_to_slice_of(kind, d, i) ==
    LET Untagged(u) ==
            LET tok == At(d, u.off)
            IN  CASE u.err -> Res(u.off, <<>>, TRUE)
                  [] ~u.err /\ tok.t = "array" -> Elems(kind, d, u.off + 1, Count(tok))
                  [] OTHER -> wrong(d, u.off, <<>>)
    IN  Untagged(unwrap(d, i))

parse_to_u64s(d, i) == parse_to_slice_of("uint", d, i)
parse_to_byte_slices(d, i) == parse_to_slice_of("bytes", d, i)
parse_to_strings(d, i) == parse_to_slice_of("string", d, i)
parse_to_entries(d, i) == parse_to_slice_of("entry", d, i)
parse_to_pairs(d, i) == parse_to_slice_of("pair", d, i)

\* Mutant of parse_to_pair: the array of another length is skipped from after
\* its head.
parse_to_pair_unreset(d, i) ==
    LET Untagged(u) ==
            LET tok == At(d, u.off)
                n == IF tok.len = "indef" THEN num_items_until_break(d, u.off + 1) ELSE tok.n
                Both(sep, child) ==
                    Res(IF tok.len = "indef" THEN child.off + 1 ELSE child.off,
                        <<sep.val, child.val>>, sep.err \/ child.err)
                First(sep) == Both(sep, parse_to_bytes(d, sep.off))
            IN  CASE u.err -> Res(u.off, <<<<>>, <<>>>>, TRUE)
                  [] ~u.err /\ tok.t = "array" /\ n # 2 -> Res(skip(d, u.off + 1), <<<<>>, <<>>>>, TRUE)
                  [] ~u.err /\ tok.t = "array" /\ n = 2 ->
                        First(parse_to_bytes(d, u.off + 1))
                  [] OTHER -> wrong(d, u.off, <<<<>>, <<>>>>)
    IN  Untagged(unwrap(d, i))

\* [sepName, childKey]: an array of another length is skipped whole.
parse_to_pair(d, i) ==
    LET Untagged(u) ==
            LET tok == At(d, u.off)
                n == IF tok.len = "indef" THEN num_items_until_break(d, u.off + 1) ELSE tok.n
                Both(sep, child) ==
                    Res(IF tok.len = "indef" THEN child.off + 1 ELSE child.off,
                        <<sep.val, child.val>>, sep.err \/ child.err)
                First(sep) == Both(sep, parse_to_bytes(d, sep.off))
            IN  CASE u.err -> Res(u.off, <<<<>>, <<>>>>, TRUE)
                  [] ~u.err /\ tok.t = "array" /\ n # 2 -> Res(skip(d, u.off), <<<<>>, <<>>>>, TRUE)
                  [] ~u.err /\ tok.t = "array" /\ n = 2 ->
                        First(parse_to_bytes(d, u.off + 1))
                  [] OTHER -> wrong(d, u.off, <<<<>>, <<>>>>)
    IN  Untagged(unwrap(d, i))

\* The pairs of a map into a struct: the first value of a known key is kept,
\* a duplicate or unknown key's value is skipped, and a key that is neither
\* an integer nor text is an error.
Pairs(fields, d, i, n, rec) ==
    IF Ended(d, i, n) THEN Res(PastEnd(i, n), rec, FALSE)
    ELSE LET key == At(d, i)
             named == key.t = "uint" /\ key.n \in DOMAIN fields \ DOMAIN rec
             text == parse_text_string(d, i)
             Then(err, rest) == Res(rest.off, rest.val, err \/ rest.err)
             Keep(v) == Then(v.err,
                             Pairs(fields, d, v.off, Less(n),
                                   IF named THEN key.n :> v.val @@ rec ELSE rec))
         IN  Keep(CASE named -> parse_to(fields[key.n], d, i + 1)
                    [] ~named /\ key.t \in {"uint", "nint"} ->
                            Res(skip(d, i + 1), 0, key.n > MaxInt)
                    [] key.t = "text" -> Res(skip(d, text.off), 0, text.err)
                    [] OTHER -> Res(skip(d, skip(d, i)), 0, TRUE))

parse_map_to_struct(fields, d, i) ==
    LET Filled(p) ==
            Res(p.off, p.val @@ ZeroOf(fields), p.err)
    IN  Filled(Pairs(fields, d, i + 1, Count(At(d, i)), <<>>))

parse_to_struct(fields, d, i) ==
    LET Untagged(u) ==
            CASE u.err -> Res(u.off, ZeroOf(fields), TRUE)
              [] ~u.err /\ At(d, u.off).t = "map" -> parse_map_to_struct(fields, d, u.off)
              [] OTHER -> wrong(d, u.off, ZeroOf(fields))
    IN  Untagged(unwrap(d, i))

parse_to_entry(d, i) == parse_to_struct(EntryFields, d, i)
parse_to_wire_identity(d, i) == parse_to_struct(IdentityFields, d, i)
parse_to_wire_commit(d, i) == parse_to_struct(CommitFields, d, i)

parse_to(kind, d, i) ==
    CASE kind = "byte" -> parse_to_uint(d, i, MaxByte)
      [] kind = "uint" -> parse_to_uint(d, i, MaxUint)
      [] kind = "int" -> parse_to_i64(d, i)
      [] kind = "bytes" -> parse_to_bytes(d, i)
      [] kind = "uints" -> parse_to_u64s(d, i)
      [] kind = "raw" -> parse_to_raw(d, i)
      [] kind = "string" -> parse_to_string(d, i)
      [] kind = "strings" -> parse_to_strings(d, i)
      [] kind = "slices" -> parse_to_byte_slices(d, i)
      [] kind = "entry" -> parse_to_entry(d, i)
      [] kind = "entries" -> parse_to_entries(d, i)
      [] kind = "pair" -> parse_to_pair(d, i)
      [] kind = "pairs" -> parse_to_pairs(d, i)
      [] kind = "identity" -> parse_to_wire_identity(d, i)
      [] kind = "commit" -> parse_to_wire_commit(d, i)

Kinds == {"byte", "uint", "int", "bytes", "uints", "raw", "string", "strings", "slices",
          "entry", "entries", "pair", "pairs", "identity", "commit"}

\* unmarshal_*: the whole document must be well-formed before any of it is
\* decoded.
unmarshal(kind, d) ==
    IF ~wellformed(d, DECODE_WF) THEN Res(0, Zero("bytes"), TRUE)
    ELSE parse_to(kind, d, 1)
=============================================================================
