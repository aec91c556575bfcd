----------------------------- MODULE TreeCodec ------------------------------
(***************************************************************************)
(* Directory objects on disk: the encoders of fstree/encode.rs, the        *)
(* decoders of fstree/decode.rs, and the shortcut between them, the scan   *)
(* of fstree/scan.rs that answers a name lookup without decoding.  A       *)
(* lookup (fstree/read.rs) trusts the scan when it answers and decodes the *)
(* whole object when it does not, so the two must never disagree.          *)
(***************************************************************************)
EXTENDS CborWrite

\* Bytewise order of names.
Below(a, b) ==
    \E n \in 0..Len(a) :
        /\ n <= Len(b) /\ SubSeq(a, 1, n) = SubSeq(b, 1, n)
        /\ n < Len(b)
        /\ n < Len(a) => a[n + 1] < b[n + 1]

-----------------------------------------------------------------------------
\* Keys 0..4 are always written, 5..9 when not empty, in order.
append_entry(e) == AppendMap(EntryFields, 0..4, e)

\* The splice must be one well-formed item under the encoder's rules.
Encodes(es) == \A i \in DOMAIN es :
                    es[i][8] # <<>> => wellformed(es[i][8], MARSHALER_WF)

marshal_entries(es) ==
    <<Tok("array", Len(es))>> \o FlattenSeq([i \in DOMAIN es |-> append_entry(es[i])])

marshal_pairs(ps) ==
    <<Tok("array", Len(ps))>>
    \o FlattenSeq([i \in DOMAIN ps |-> <<Tok("array", 2), Str("bytes", ps[i][1]),
                                         Str("bytes", ps[i][2])>>])

decode_dir_leaf(d) == unmarshal("entries", d)
decode_dir_node(d) == unmarshal("pairs", d)

-----------------------------------------------------------------------------
(***************************************************************************)
(* The scan.  A cursor that meets anything but the shortest head of the    *)
(* type it wants stops being sure.                                         *)
(***************************************************************************)
Unsure == [off |-> 0, found |-> <<>>, prev |-> <<>>]

Sure(d, i, t) == i > 0 /\ i <= Len(d) /\ d[i].t = t /\ d[i].len = "short"
ScanUint(d, i) == IF Sure(d, i, "uint") THEN i + 1 ELSE 0
ScanInt(d, i) ==
    IF (Sure(d, i, "uint") \/ Sure(d, i, "nint")) /\ d[i].n <= MaxInt THEN i + 1 ELSE 0
ScanBytes(d, i) == IF Sure(d, i, "bytes") THEN i + 1 ELSE 0
ScanUints(d, i) ==
    IF /\ Sure(d, i, "array") /\ d[i].n <= MaxArray
       /\ \A j \in 1..d[i].n : Sure(d, i + j, "uint")
    THEN i + 1 + d[i].n ELSE 0

RECURSIVE ScanFields(_, _, _, _)

\* n more fields of an entry, with keys above last; 0 when unsure.
ScanFields(d, i, n, last) ==
    IF n = 0 THEN i
    ELSE IF ~Sure(d, i, "uint") THEN 0
    ELSE LET k == d[i].n
             past == CASE k \in 1..3 -> ScanUint(d, i + 1)
                       [] k = 4 -> ScanInt(d, i + 1)
                       [] k \in {5, 6, 9} -> ScanBytes(d, i + 1)
                       [] k = 7 -> ScanUints(d, i + 1)
                       [] OTHER -> 0
         IN  IF k <= last \/ past = 0 THEN 0 ELSE ScanFields(d, past, n - 1, k)

\* Mutant of ScanEntry: the order of the names is not looked at.
ScanEntryUnordered(s, d, name) ==
    LET i == s.off
        ok == /\ Sure(d, i, "map") /\ d[i].n \in 5..10
              /\ Sure(d, i + 1, "uint") /\ d[i + 1].n = 0
              /\ Sure(d, i + 2, "bytes")
        end == ScanFields(d, i + 3, d[i].n - 1, 0)
    IN  IF i = 0 \/ ~ok THEN Unsure
        ELSE IF end = 0 THEN Unsure
        ELSE [off |-> end, prev |-> <<d[i + 2].s>>,
              found |-> IF d[i + 2].s = name THEN <<SubSeq(d, i, end - 1)>> ELSE s.found]

\* One entry: its map of 5..10 pairs, the name first and above the last one.
ScanEntry(s, d, name) ==
    LET i == s.off
        ok == /\ Sure(d, i, "map") /\ d[i].n \in 5..10
              /\ Sure(d, i + 1, "uint") /\ d[i + 1].n = 0
              /\ Sure(d, i + 2, "bytes")
              /\ s.prev = <<>> \/ Below(s.prev[1], d[i + 2].s)
        end == ScanFields(d, i + 3, d[i].n - 1, 0)
    IN  IF i = 0 \/ ~ok THEN Unsure
        ELSE IF end = 0 THEN Unsure
        ELSE [off |-> end, prev |-> <<d[i + 2].s>>,
              found |-> IF d[i + 2].s = name THEN <<SubSeq(d, i, end - 1)>> ELSE s.found]

ScanPair(s, d, name) ==
    LET i == s.off
        ok == /\ Sure(d, i, "array") /\ d[i].n = 2
              /\ Sure(d, i + 1, "bytes") /\ Sure(d, i + 2, "bytes")
              /\ s.prev = <<>> \/ Below(s.prev[1], d[i + 1].s)
    IN  IF i = 0 \/ ~ok THEN Unsure
        ELSE [off |-> i + 3, prev |-> <<d[i + 1].s>>,
              found |-> IF s.found = <<>> /\ ~Below(d[i + 1].s, name)
                        THEN <<d[i + 2].s>> ELSE s.found]

\* The whole object must scan, to its end, for an answer.
Scanned(d, last) == IF last.off = Len(d) + 1 THEN last ELSE Unsure

ScanCount(d) == IF Sure(d, 1, "array") /\ d[1].n <= MaxArray THEN d[1].n ELSE 0
ScanStart(d) == IF Sure(d, 1, "array") /\ d[1].n <= MaxArray
                THEN [Unsure EXCEPT !.off = 2] ELSE Unsure

scan_leaf(d, name) ==
    Scanned(d, FoldLeft(LAMBDA s, j : ScanEntry(s, d, name), ScanStart(d),
                        [j \in 1..ScanCount(d) |-> j]))

scan_node(d, name) ==
    Scanned(d, FoldLeft(LAMBDA s, j : ScanPair(s, d, name), ScanStart(d),
                        [j \in 1..ScanCount(d) |-> j]))

-----------------------------------------------------------------------------
(***************************************************************************)
(* The lookup, with the scan and without it.  A lookup ends with an entry, *)
(* with "not found" or with a decoding error.                              *)
(***************************************************************************)
NotFound == [is |-> "not found"]
Corrupt == [is |-> "corrupt"]
Found(v) == [is |-> "found", v |-> v]

\* partition_point over a list sorted by name: the first index not below.
PartitionPoint(names, name) ==
    Cardinality({i \in DOMAIN names : \A j \in 1..i : Below(names[j], name)}) + 1

\* In the decoded entries of a leaf, and the decoded pairs of a node.
InLeaf(r, name) ==
    LET i == PartitionPoint([j \in DOMAIN r.val |-> r.val[j][0]], name)
    IN  CASE r.err -> Corrupt
          [] ~r.err /\ i <= Len(r.val) /\ r.val[i][0] = name -> Found(r.val[i])
          [] OTHER -> NotFound

InNode(r, name) ==
    LET i == PartitionPoint([j \in DOMAIN r.val |-> r.val[j][1]], name)
    IN  CASE r.err -> Corrupt
          [] ~r.err /\ i <= Len(r.val) -> Found(r.val[i][2])
          [] OTHER -> NotFound

\* lookup_entry in a leaf: the entry the scan found goes through the decoder
\* alone, as an array of one.  r is the whole leaf decoded.
LookupLeaf(d, r, name) ==
    LET One(one) == IF ~one.err /\ Len(one.val) = 1 THEN Found(one.val[1]) ELSE InLeaf(r, name)
        Answer(s) ==
            CASE s # Unsure /\ s.found = <<>> -> NotFound
              [] s # Unsure /\ s.found # <<>> ->
                    One(decode_dir_leaf(<<Tok("array", 1)>> \o s.found[1]))
              [] OTHER -> InLeaf(r, name)
    IN  Answer(scan_leaf(d, name))

\* lookup_entry in a node: the child to descend into.
LookupNode(d, r, name) ==
    LET Answer(s) ==
            CASE s # Unsure /\ s.found = <<>> -> NotFound
              [] s # Unsure /\ s.found # <<>> -> Found(s.found[1])
              [] OTHER -> InNode(r, name)
    IN  Answer(scan_node(d, name))
=============================================================================
