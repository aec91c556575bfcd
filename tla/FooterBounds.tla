---------------------------- MODULE FooterBounds ----------------------------
(***************************************************************************)
(* The arithmetic on a sealed segment's trailer and index rows             *)
(* (packstore/footer.rs): u64 fields read from a file, sums, products and  *)
(* differences that wrap, and checks whose order keeps them from wrapping. *)
(* The fields may hold anything; the CRC, which covers them, is one more   *)
(* check that may pass or fail.                                            *)
(***************************************************************************)
EXTENDS Integers

CONSTANTS U64, U32,                       \* 2^64 and 2^32
          Header, Fanout, Entry, FilterHeader, RecHeader, Trailer,   \* sizes in bytes
          MaxFile                         \* bytes of the largest file

\* MIN_SEALED_LEN
MinSealed == Header + 1 + Fanout + Entry + FilterHeader + Trailer

\* What the theorems assume of the constants: there is room for the largest index.
FooterAssumption ==
    /\ {U64, U32, Header, Fanout, Entry, FilterHeader, RecHeader, Trailer, MaxFile} \subseteq Nat \ {0}
    /\ MaxFile + Fanout + U32 * Entry < U64
    /\ RecHeader + U32 < U64

VARIABLES file_len, tr,      \* the file and the fields read so far
          off, slen,         \* a row of its index
          span_end,          \* the end of the slice taken for it
          stage
footer_vars == <<file_len, tr, off, slen, span_end, stage>>

Word == 0..(U64 - 1)
\* Unsigned arithmetic, which wraps: a difference below zero is a huge word.
Plus(a, b) == (a + b) % U64
Minus(a, b) == (a - b) % U64
Times(a, b) == (a * b) % U64
NoTrailer == [body_len |-> 0, key_count |-> 0, index_off |-> 0, index_len |-> 0, filter_off |-> 0, filter_len |-> 0]

FooterInit ==
    /\ file_len \in 0..MaxFile /\ tr = NoTrailer /\ off = 0 /\ slen = 0 /\ span_end = 0
    /\ stage = "open"

Rejects(ok, next) == stage' = IF ok THEN next ELSE "corrupt"

Open ==
    /\ stage = "open"
    /\ Rejects(file_len >= MinSealed, "body")
    /\ UNCHANGED <<file_len, tr, off, slen, span_end>>

\* parse_footer: the body ends within the file.
BodyLen ==
    /\ stage = "body"
    /\ \E b \in Word :
          /\ tr' = [tr EXCEPT !.body_len = b]
          /\ Rejects(b >= Header /\ b < file_len, "count")
    /\ UNCHANGED <<file_len, off, slen, span_end>>

\* "fanout counts are u32; also keeps the next line overflow-free"
KeyCount ==
    /\ stage = "count"
    /\ \E c \in Word :
          /\ tr' = [tr EXCEPT !.key_count = c]
          /\ Rejects(c <= U32 - 1, "index")
    /\ UNCHANGED <<file_len, off, slen, span_end>>

Index ==
    /\ stage = "index"
    /\ \E o, l \in Word :
          /\ tr' = [tr EXCEPT !.index_off = o, !.index_len = l]
          /\ Rejects(o = Plus(tr.body_len, 1) /\ l = Plus(Fanout, Times(tr.key_count, Entry)), "filter")
    /\ UNCHANGED <<file_len, off, slen, span_end>>

\* The filter takes the rest, up to the trailer; the CRC and the seal marker
\* are checked last.
Filter ==
    /\ stage = "filter"
    /\ \E o, l \in Word :
          /\ tr' = [tr EXCEPT !.filter_off = o, !.filter_len = l]
          /\ \/ Rejects(/\ o = Plus(tr.index_off, tr.index_len)
                        /\ o <= Minus(file_len, Trailer)
                        /\ l = Minus(Minus(file_len, Trailer), o), "parsed")
             \/ stage' = "corrupt"
    /\ UNCHANGED <<file_len, off, slen, span_end>>

\* The bounds check of record_span.
InBody(o, l) ==
    /\ o >= Header
    /\ o <= tr.body_len
    /\ Plus(RecHeader, l) <= Minus(tr.body_len, o)

\* A row of the index is looked up and its record sliced out of the file.
record_span ==
    /\ stage = "parsed"
    /\ \E o \in Word, l \in 0..(U32 - 1) :
          /\ off' = o /\ slen' = l
          /\ span_end' = Plus(Plus(o, RecHeader), l)
          /\ Rejects(InBody(o, l), "span")
    /\ UNCHANGED <<file_len, tr>>

FooterNext == Open \/ BodyLen \/ KeyCount \/ Index \/ Filter \/ record_span
FooterSpec == FooterInit /\ [][FooterNext]_footer_vars

-----------------------------------------------------------------------------
\* The sections of a footer that parse_footer accepts lie one after the other
\* in the file, from the end of the body to its trailer: the slices it takes
\* are within the file, and no sum on the way wrapped.
SectionsTile ==
    stage \in {"parsed", "span"} =>
        /\ Header <= tr.body_len /\ tr.index_off = tr.body_len + 1
        /\ tr.index_len = Fanout + tr.key_count * Entry
        /\ tr.index_off + tr.index_len = tr.filter_off
        /\ tr.filter_off + tr.filter_len + Trailer = file_len

\* The slice that record_span hands out, off..end, is as long as the record
\* and lies in the body, whatever the index row says: neither the difference
\* it is checked against nor the sum that ends it wraps.
SpanInBody ==
    stage = "span" =>
        /\ Header <= off /\ span_end = off + RecHeader + slen
        /\ span_end <= tr.body_len /\ tr.body_len < file_len

\* What each check has established when the next one relies on it.
FooterInv ==
    /\ file_len \in 0..MaxFile /\ off \in Nat /\ slen \in Nat /\ span_end \in Nat
    /\ tr \in [body_len : Nat, key_count : Nat, index_off : Nat, index_len : Nat, filter_off : Nat, filter_len : Nat]
    /\ stage \in {"open", "body", "count", "index", "filter", "parsed", "span", "corrupt"}
    /\ stage \in {"body", "count", "index", "filter", "parsed", "span"} => MinSealed <= file_len
    /\ stage \in {"count", "index", "filter", "parsed", "span"} => Header <= tr.body_len /\ tr.body_len < file_len
    /\ stage \in {"index", "filter", "parsed", "span"} => tr.key_count <= U32 - 1
    /\ stage \in {"filter", "parsed", "span"} =>
          tr.index_off = tr.body_len + 1 /\ tr.index_len = Fanout + tr.key_count * Entry
    /\ SectionsTile /\ SpanInBody
=============================================================================
