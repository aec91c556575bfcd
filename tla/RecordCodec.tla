---------------------------- MODULE RecordCodec -----------------------------
(***************************************************************************)
(* The records that name trees: commits (commit.rs), references            *)
(* (reference.rs) and the headers of staged packs (inbox.rs).  A commit or *)
(* reference is unmarshalled laxly, converted, validated and then encoded  *)
(* again: only the bytes its encoder writes are taken.  A header is taken  *)
(* as it comes.  Three CBOR readers are involved, fx.rs, RefDecode and     *)
(* MetaDecode, that port the same decoder and should agree.                *)
(***************************************************************************)
EXTENDS MetaDecode

CONSTANTS Types,        \* the canonical keys, as a function from bytes to types
          Control, AtSign,
          MaxTextLen, MaxNameLen, MaxBlobLen, MaxParents, MaxConflictTerms,
          MaxTzOffset

ASSUME RecordAssumption ==
    /\ Control \in 0..MaxByte /\ AtSign \in 0..MaxByte
    /\ {MaxTextLen, MaxNameLen, MaxBlobLen, MaxParents, MaxTzOffset} \subseteq Nat
    /\ MaxConflictTerms \in Nat

\* Key::parse
IsKey(bytes) == bytes \in DOMAIN Types
IsDir(bytes) == IsKey(bytes) /\ Types[bytes] \in {"DirLeaf", "DirNode"}
IsCommit(bytes) == IsKey(bytes) /\ Types[bytes] = "Commit"

AllOf(P(_), seq) == \A i \in DOMAIN seq : P(seq[i])

validate_text(s, max) == Len(s) <= max /\ AllOf(LAMBDA c : c # Control, s)

-----------------------------------------------------------------------------
(***************************************************************************)
(* Commits.                                                                *)
(***************************************************************************)
identity_validate(id) ==
    /\ validate_text(id[0], MaxTextLen) /\ validate_text(id[1], MaxTextLen)
    /\ id[3] \in (-MaxTzOffset)..MaxTzOffset

commit_validate(c) ==
    /\ IsDir(c[0])
    /\ Len(c[1]) <= MaxParents /\ AllOf(IsCommit, c[1]) /\ IsInjective(c[1])
    /\ identity_validate(c[2]) /\ identity_validate(c[3])
    /\ \A k \in 4..7 : Len(c[k]) <= MaxBlobLen
    /\ Len(c[8]) % 2 = 0 /\ Len(c[8]) <= MaxConflictTerms /\ AllOf(IsDir, c[8])
    /\ c[9] # <<>> =>
          /\ c[8] # <<>> /\ Len(c[9]) = 1 + Len(c[8])
          /\ AllOf(LAMBDA l : validate_text(l, MaxTextLen), c[9])
          /\ ~AllOf(LAMBDA l : l = <<>>, c[9])

\* from_wire: keys that parse, offsets that fit.
commit_from_wire(w) ==
    /\ IsKey(w[0]) /\ AllOf(IsKey, w[1]) /\ AllOf(IsKey, w[8])
    /\ w[2][3] \in (-MaxTzOffset)..MaxTzOffset /\ w[3][3] \in (-MaxTzOffset)..MaxTzOffset

\* Mutant of commit_encode: the change id is left out.
commit_encode_changeless(c) == AppendMap(CommitFields, 0..4, [c EXCEPT ![7] = <<>>])

commit_encode(c) == AppendMap(CommitFields, 0..4, c)

commit_decode(d) ==
    LET Taken(w) ==
            IF w.err THEN Err
            ELSE IF commit_from_wire(w.val) /\ commit_validate(w.val) /\ commit_encode(w.val) = d
            THEN Ok(w.off, w.val) ELSE Err
    IN  Taken(unmarshal("commit", d))

-----------------------------------------------------------------------------
(***************************************************************************)
(* References and headers.                                                 *)
(***************************************************************************)
validate_name(name) ==
    /\ name # <<>> /\ Len(name) <= MaxNameLen
    /\ AllOf(LAMBDA c : c \notin {Control, AtSign}, name)

ref_validate(r) ==
    /\ validate_name(r[0]) /\ IsKey(r[1])
    /\ r[2] # <<>> => validate_text(r[2], MaxTextLen)
    /\ Len(r[4]) <= MaxBlobLen /\ Len(r[5]) <= MaxBlobLen

ref_encode(r) == AppendMap(RefFields, 0..3, r)

\* Mutant of ref_decode: what unmarshals and validates is taken.
ref_decode_lax(d) ==
    LET Taken(r) == IF r.err THEN Err ELSE IF ref_validate(r.val) THEN r ELSE Err
    IN  Taken(ref_unmarshal(d))

ref_decode(d) ==
    LET Taken(r) ==
            IF r.err THEN Err
            ELSE IF ref_validate(r.val) /\ ref_encode(r.val) = d THEN r ELSE Err
    IN  Taken(ref_unmarshal(d))

\* Mutant of signature_payload: the public key is left out too.
signature_payload_keyless(k, r) ==
    IF k = "commit" THEN commit_encode([r EXCEPT ![5] = <<>>, ![6] = <<>>])
    ELSE ref_encode([r EXCEPT ![4] = <<>>, ![5] = <<>>])

\* signature_payload: the encoding without the signature.
signature_payload(k, r) ==
    IF k = "commit" THEN commit_encode([r EXCEPT ![5] = <<>>])
    ELSE ref_encode([r EXCEPT ![4] = <<>>])
=============================================================================
