---------------------------- MODULE ObjectCodec -----------------------------
(***************************************************************************)
(* The objects of the store that are CBOR, all of them: leaves and nodes   *)
(* of directories (TreeCodec), commits, references and the headers of      *)
(* staged packs (RecordCodec).  They share one encoder and one decoder,    *)
(* fx.rs, next to which references and headers have readers of their own.  *)
(*                                                                         *)
(* An object may come from anywhere: a behaviour starts from what the      *)
(* encoder writes and changes some tokens of it.                           *)
(***************************************************************************)
EXTENDS RecordCodec, TreeCodec, CborGrammar

CONSTANTS Dirs,        \* entry sequences a leaf may be encoded from
          Indexes,     \* pair sequences a node may be encoded from
          Commits, References, Metas,   \* records to start from
          LookupNames, \* names looked up in a leaf or node
          EditItems,   \* for each kind, what an edit may bring in: sequences of tokens
          MaxEdits     \* and how many edits there may be

ObjectKinds == {"leaf", "node", "commit", "reference", "meta"}

VARIABLES kind,   \* one of ObjectKinds
          from,   \* what the document was made from
          doc,    \* the document, a sequence of tokens
          edits   \* the changes made to it

vars == <<kind, from, doc, edits>>

\* The two kinds of which only the bytes that encode writes are taken.
record_decode(k, d) == IF k = "commit" THEN commit_decode(d) ELSE ref_decode(d)
record_encode(k, v) == IF k = "commit" THEN commit_encode(v) ELSE ref_encode(v)

decode(k, d) ==
    CASE k = "leaf" -> decode_dir_leaf(d)
      [] k = "node" -> decode_dir_node(d)
      [] k = "meta" -> decode_meta(d)
      [] OTHER -> record_decode(k, d)

encode(k, v) ==
    CASE k = "leaf" -> marshal_entries(v)
      [] k = "node" -> marshal_pairs(v)
      [] k = "meta" -> encode_meta(v)
      [] OTHER -> record_encode(k, v)

\* encode validates first: what is invalid has no document.
Init ==
    /\ edits = 0
    /\ \/ kind = "leaf" /\ from \in {es \in Dirs : Encodes(es)}
       \/ kind = "node" /\ from \in Indexes
       \/ kind = "commit" /\ from \in {c \in Commits : commit_validate(c)}
       \/ kind = "reference" /\ from \in {r \in References : ref_validate(r)}
       \/ kind = "meta" /\ from \in Metas
    /\ doc = encode(kind, from)

Edit(to) ==
    /\ edits < MaxEdits[kind] /\ edits' = edits + 1
    /\ doc' = to
    /\ UNCHANGED <<kind, from>>

Replace == \E i \in DOMAIN doc, item \in EditItems[kind] :
                Edit(SubSeq(doc, 1, i - 1) \o item \o SubSeq(doc, i + 1, Len(doc)))
Insert == \E i \in 1..(Len(doc) + 1), item \in EditItems[kind] :
                Edit(SubSeq(doc, 1, i - 1) \o item \o SubSeq(doc, i, Len(doc)))
Drop == \E i \in DOMAIN doc : Edit(RemoveAt(doc, i))

Next == Replace \/ Insert \/ Drop

Spec == Init /\ [][Next]_vars

-----------------------------------------------------------------------------
\* wf_item, with its stack of frames, its tag chain and its unwinding of full
\* containers, accepts exactly the documents the recursive grammar derives
\* ("iterative equivalent of fxamacker's recursion", fx.rs).
WfIsGrammar ==
    wellformed(doc, DECODE_WF) <=> (doc # <<>> /\ ItemEnd(doc, 1, 0) = Len(doc) + 1)

\* "Always consumes exactly one item": whatever a typed decoder is asked for and
\* whatever it finds - a wrong type, a bad tag chain, invalid UTF-8, a pair of
\* the wrong length - it stops at the end of the item, and never past the input.
ConsumesOne ==
    wellformed(doc, DECODE_WF) => \A k \in Kinds : parse_to(k, doc, 1).off = Len(doc) + 1

\* Whatever is written can be read: a valid object's own bytes decode to it
\* (marshal_entries and decode_dir_leaf, Commit::encode and decode, and so on).
ReadsBack ==
    LET Same(r) == ~r.err /\ r.val = from
    IN  edits = 0 => Same(decode(kind, doc))

\* One record, one document: a commit or reference whose bytes were changed
\* is refused or is another record ("byte-for-byte what encode produces").
OneDocument ==
    LET Once(r) == ~r.err => (r.val = from <=> doc = record_encode(kind, from))
    IN  kind \in {"commit", "reference"} => Once(record_decode(kind, doc))

\* A signature covers all of the record but itself: an accepted document with
\* the same payload differs in the signature alone.
SignatureCovers ==
    LET s == IF kind = "commit" THEN 5 ELSE 4
        Covered(r) ==
            ~r.err /\ signature_payload(kind, r.val) = signature_payload(kind, from)
                => [r.val EXCEPT ![s] = <<>>] = [from EXCEPT ![s] = <<>>]
    IN  kind \in {"commit", "reference"} => Covered(record_decode(kind, doc))

NoIndefinite(d) == \A i \in DOMAIN d : d[i].len # "indef" /\ d[i].t # "break"

\* What fx.rs reads from the document as a map of these fields.
FxReads(fields, d) ==
    IF wellformed(d, DECODE_WF) THEN parse_to_struct(fields, d, 1) ELSE Err

\* No container claims more items than fx.rs takes.
WithinCaps(d) == \A i \in DOMAIN d : d[i].t \in Containers => d[i].n <= Cap(DECODE_WF, d[i].t)

\* The reader of references agrees with fx.rs on every document of definite
\* lengths: the same verdict and the same record, before canonicality is
\* looked at ("the same observable behaviour", port-notes/reference.md).  The
\* caps on containers "are not replicated", so it may read a document that is
\* over them and fx.rs refuses; that document is then not canonical.
RefAgrees ==
    kind = "reference" /\ NoIndefinite(doc) =>
        LET Agree(r, f) == r.err = f.err /\ (~r.err => r.val = f.val)
            Refused(r, f) == r.err /\ f.err
        IN  IF WithinCaps(doc) THEN Agree(ref_unmarshal(doc), FxReads(RefFields, doc))
            ELSE Refused(ref_decode(doc), FxReads(RefFields, doc))

\* The second pass over a reference ends where the first one did; the code
\* drops the rest without a look ("pass 1 already rejected extraneous data").
PassesAgree ==
    kind = "reference" =>
        LET Ends(r) == ~r.err => r.off = Len(doc) + 1
        IN  Ends(ref_unmarshal(doc))

\* The tags whose meaning the header's reader knowingly leaves out.
Plain(d) == \A i \in DOMAIN d : d[i].t = "tag" => d[i].n \notin {2, 3, SelfDescribed}

\* When both the reader of headers and fx.rs take a header, they read the
\* same: the first value of a repeated key, zero for null, bytes of an array.
MetaSameValue ==
    kind = "meta" /\ Plain(doc) =>
        LET Agree(r, f) == ~r.err /\ ~f.err => r.val = f.val
        IN  Agree(decode_meta(doc), FxReads(MetaFields, doc))

\* A lookup that trusts the scan answers as one that decodes the whole object:
\* the same entry, the same "not found", and no answer where decoding fails.
LookupAgrees ==
    LET InLeaves(r) == \A name \in LookupNames : LookupLeaf(doc, r, name) = InLeaf(r, name)
        InNodes(r) == \A name \in LookupNames : LookupNode(doc, r, name) = InNode(r, name)
    IN  /\ kind = "leaf" => InLeaves(decode_dir_leaf(doc))
        /\ kind = "node" => InNodes(decode_dir_node(doc))

\* Decoding undoes encoding, for whatever the decoder accepted: writing the
\* entries of a foreign leaf back and reading them again loses nothing, the
\* splice of inline xattrs included.
ReencodeStable ==
    kind = "leaf" =>
        LET Same(r, again) == ~again.err /\ again.val = r.val
            Again(r) == ~r.err /\ Encodes(r.val)
                            => Same(r, decode_dir_leaf(marshal_entries(r.val)))
        IN  Again(decode_dir_leaf(doc))
=============================================================================
