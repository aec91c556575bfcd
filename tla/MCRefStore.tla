----------------------------- MODULE MCRefStore -----------------------------
(***************************************************************************)
(* RefStore with two processes on one database.                            *)
(***************************************************************************)
EXTENDS RefStore, TLC

CONSTANTS a, b, k1, k2, t1, t2, t3, s1, s2

TwoStores == (t1 :> s1) @@ (t2 :> s1) @@ (t3 :> s2)
Rec(k, v) == [key |-> k, rest |-> v]
R1 == Rec(k1, 0)
R2 == Rec(k2, 0)
Bad == Rec(NoKey, 0)
MCRecords == {R1, R2, Bad}
Op(f, n) == [f |-> f, name |-> n]
With(o, rec) == [rec |-> rec] @@ o
If(o, old) == [old |-> old] @@ o
Pub(n, rec, old) == [name |-> n, rec |-> rec, old |-> old]
Off(n, old) == [name |-> n, old |-> old]
Batch(f, records, names) == [f |-> f, name |-> a, records |-> records, names |-> names]

MCOps ==
    {With(Op("put_volatile", a), R1), With(Op("put", a), Bad), With(Op("create", a), R2),
     If(With(Op("compare_and_swap", a), R2), k1), If(Op("compare_and_delete", a), k1),
     Batch("put_batch", <<Pub(a, R1, Absent), Pub(b, R1, Absent), Pub(a, R2, Absent)>>, <<>>),
     Batch("update_batch", <<Pub(a, R2, k1)>>, <<Off(a, k1), Off(b, k1)>>),
     Batch("put_batch", <<>>, <<>>), Op("wipe", a), Op("get", a), Op("all", a)}
=============================================================================
