--------------------------- MODULE MCObjectCodec ----------------------------
(***************************************************************************)
(* An instance of ObjectCodec for TLC: a few objects of each kind, with    *)
(* keys of one byte.  Commits and leaves, the long documents, are edited   *)
(* once, the other kinds twice.  An edit brings in a token, or an item that *)
(* takes several: a bignum, or a container just at the cap or over it.     *)
(***************************************************************************)
EXTENDS ObjectCodec

\* Directories: a plain file, a device, and inline xattrs that carry a tag.
Empty == ZeroOf(EntryFields)
File(name) == [Empty EXCEPT ![0] = name, ![1] = 3, ![4] = -2, ![5] = <<1>>]
Device(name) == [Empty EXCEPT ![0] = name, ![7] = <<1, 2>>]
Xattrs(name) == [Empty EXCEPT ![0] = name, ![8] = <<Tok("tag", 9), Tok("map", 0)>>]
MCDirs == {<<>>, <<File(<<1>>)>>, <<Xattrs(<<2>>)>>, <<Device(<<1>>)>>,
           <<File(<<1>>), Device(<<2>>)>>, <<Device(<<>>), Xattrs(<<1>>)>>}
MCIndexes == {<<>>, << << <<1>>, <<3>> >>, << <<2>>, <<4>> >> >>}
MCNames == {<<>>, <<1>>, <<2>>}

\* The keys, and records that name them.
MCTypes == <<1>> :> "DirLeaf" @@ <<2>> :> "Commit" @@ <<3>> :> "Commit" @@ <<4>> :> "Blob"

Me == 0 :> <<1>> @@ 1 :> <<>> @@ 2 :> -2 @@ 3 :> 1
Root == [ZeroOf(CommitFields) EXCEPT ![0] = <<1>>, ![2] = Me, ![3] = ZeroId]
Merge == [Root EXCEPT ![1] = << <<2>>, <<3>> >>, ![4] = <<2>>, ![7] = <<5>>]
Signed == [Root EXCEPT ![5] = <<1>>, ![6] = <<2>>]
Conflict == [Root EXCEPT ![8] = << <<1>>, <<1>> >>, ![9] = << <<>>, <<1>>, <<2>> >>]
MCCommits == {Root, Merge, Signed, Conflict,
              [Conflict EXCEPT ![9] = << <<>>, <<>>, <<>> >>],
              [Conflict EXCEPT ![9] = << <<1>> >>], [Root EXCEPT ![0] = <<2>>]}

Ref == [ZeroOf(RefFields) EXCEPT ![0] = <<1>>, ![1] = <<1>>, ![3] = -1]
MCReferences == {Ref, [Ref EXCEPT ![4] = <<1>>, ![5] = <<2>>],
                 [Ref EXCEPT ![0] = <<AtSign>>], [Ref EXCEPT ![1] = <<5>>]}

MCMetas == {0 :> <<1>> @@ 1 :> <<1>> @@ 2 :> -1}

\* What an edit brings in, by kind: the heads that the readers of the kind
\* treat differently.
Long(tok) == [tok EXCEPT !.len = "long"]

NodeTokens ==
    {Tok("uint", 0), Tok("uint", MaxUint), Str("bytes", <<>>), Str("bytes", <<2>>), Tok("array", 1),
     Tok("map", 1), Indef("array"), Break, Tok("tag", SelfDescribed), Long(Tok("uint", 1))}

LeafTokens ==
    {Tok("uint", n) : n \in {0, 8, MaxInt, MaxInt + 1, MaxUint}}
    \cup {Tok("nint", n) : n \in {0, MaxInt, MaxInt + 1}}
    \cup {Str("bytes", s) : s \in {<<>>, <<1>>, <<2>>}}
    \cup {Tok("array", 1), Tok("map", 6), Indef("map"), Break, Tok("tag", SelfDescribed),
          Tok("tag", 2), Long(Tok("uint", 1))}

CommitTokens ==
    {Tok("uint", k) : k \in {0, 1, 4, 7, MaxUint}} \cup {Tok("nint", 0)}
    \cup {Str("bytes", s) : s \in {<<>>, <<1>>, <<2>>}} \cup {Str("text", s) : s \in {<<>>, <<1>>}}
    \cup {Tok("array", 1), Tok("map", 5), Tok("map", 6), Null, Long(Tok("uint", 1)),
          Tok("tag", SelfDescribed), Tok("tag", 2)}

RefTokens ==
    {Tok("uint", 0), Tok("uint", MaxUint), Str("text", <<MaxByte>>), Str("bytes", <<1>>),
     Tok("array", 1), Tok("map", 5), Null, Tok("simple", 3), Tok("tag", SelfDescribed),
     Tok("tag", 2)}

MetaTokens ==
    {Tok("uint", 0), Tok("uint", 1), Tok("uint", 9), Str("text", <<MaxByte>>), Str("text", <<1>>),
     Str("bytes", <<1>>), Indef("text"), Indef("array"), Indef("map"), Break, Tok("array", 1),
     Tok("map", 2), Tok("map", 4), Null, Tok("tag", 0), Tok("tag", 9)}

\* Items of several tokens: bignums, and containers of n zeros.
Bignum(tag, s) == <<Tok("tag", tag), Str("bytes", s)>>
Zeros(n) == [j \in 1..n |-> Tok("uint", 0)]
Array(n) == <<Tok("array", n)>> \o Zeros(n)
Map(n) == <<Tok("map", n)>> \o Zeros(2 * n)
Open(t, n) == <<Indef(t)>> \o Zeros(n) \o <<Break>>

Arrays == {Array(n) : n \in {MaxArray, MaxArray + 1}}
Opened == {Open("array", n) : n \in {MaxArray, MaxArray + 1}}
          \cup {Open("map", 2 * MaxMap + 2)}
Bignums == {Bignum(tag, s) : tag \in {2, 3}, s \in {<<1, 7>>, <<3, 7>>}}

Single(toks) == {<<tok>> : tok \in toks}
MCEditItems ==
    [k \in ObjectKinds |->
        CASE k = "leaf" ->
                Single(LeafTokens) \cup Arrays \cup Opened \cup Bignums \cup {Map(MaxMap + 1)}
          [] k = "node" -> Single(NodeTokens)
          [] k = "commit" -> Single(CommitTokens) \cup Arrays
          [] k = "reference" -> Single(RefTokens) \cup Arrays
          [] k = "meta" -> Single(MetaTokens)]
MCMaxEdits == [k \in ObjectKinds |-> IF k \in {"commit", "leaf"} THEN 1 ELSE 2]
=============================================================================
