----------------------------- MODULE CborWrite ------------------------------
(***************************************************************************)
(* The deterministic encoders: shortest heads, definite lengths, integer   *)
(* map keys in order, optional fields left out when empty.                 *)
(***************************************************************************)
EXTENDS FxDecode

\* Mutant of append_int: a negative value loses its major type.
append_int_unsigned(v) == IF v >= 0 THEN Tok("uint", v) ELSE Tok("uint", -1 - v)

append_int(v) == IF v >= 0 THEN Tok("uint", v) ELSE Tok("nint", -1 - v)

\* An array head and its elements, given as tokens.
AppendArray(toks) == <<Tok("array", Len(toks))>> \o toks

RECURSIVE AppendMap(_, _, _)

\* The value of a field of each kind; a raw item is spliced as it stands.
AppendValue(kind, v) ==
    CASE kind = "bytes" -> <<Str("bytes", v)>>
      [] kind = "string" -> <<Str("text", v)>>
      [] kind = "uint" -> <<Tok("uint", v)>>
      [] kind = "int" -> <<append_int(v)>>
      [] kind = "uints" -> AppendArray([i \in DOMAIN v |-> Tok("uint", v[i])])
      [] kind = "slices" -> AppendArray([i \in DOMAIN v |-> Str("bytes", v[i])])
      [] kind = "strings" -> AppendArray([i \in DOMAIN v |-> Str("text", v[i])])
      [] kind = "identity" -> AppendMap(IdentityFields, DOMAIN IdentityFields, v)
      [] kind = "raw" -> v

\* A map of the fields in always and of the others that are not empty.
AppendMap(fields, always, rec) ==
    LET Written(k) == k \in DOMAIN fields /\ (k \in always \/ rec[k] # <<>>)
        keys == SelectSeq([i \in 1..10 |-> i - 1], Written)
    IN  <<Tok("map", Len(keys))>>
        \o FlattenSeq([i \in DOMAIN keys |->
                <<Tok("uint", keys[i])>> \o AppendValue(fields[keys[i]], rec[keys[i]])])
=============================================================================
