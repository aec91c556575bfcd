------------------------------ MODULE Recovery ------------------------------
(***************************************************************************)
(* How an active segment is read (packstore/recover_sidecar.rs and         *)
(* recover.rs): from its sidecar as far as that can be trusted, from its   *)
(* data where it cannot.  All of it is a function of the two files.        *)
(*                                                                         *)
(* A data file is the sequence of what lies in it behind the header.       *)
(* Offsets count records.  A record that parses is the key it was written  *)
(* under.  An index says of each offset, from the first on, which key's    *)
(* record is there.                                                        *)
(***************************************************************************)
EXTENDS Integers, Sequences, Functions

CONSTANTS
    Keys,
    NoSidecar  \* what is read where there is no sidecar

Bad == "bad"        \* bytes parse_record refuses, or half a footer
Torn == "torn"      \* a footer that ends in its trailer and is not whole
Footer == "footer"  \* a whole footer, the last thing in the file


(* The records of a sidecar. *)
Entry(k, i) == [kind |-> "entry", key |-> k, off |-> i]
Synced(n) == [kind |-> "synced", key |-> Bad, off |-> n]
SidecarRecs ==
    [kind : {"entry"}, key : Keys, off : Nat \ {0}] \cup
    [kind : {"synced"}, key : {Bad}, off : Nat]

ASSUME KeysAssumption ==
    /\ Keys \cap {Bad, Torn, Footer} = {}
    /\ NoSidecar \notin Seq(SidecarRecs)

Entries(s) == {r \in Range(s) : r.kind = "entry"}
Marks(s) == {r.off : r \in {r \in Range(s) : r.kind = "synced"}}

(* The position of a scan: what it indexed, the sidecar records it has     *)
(* consumed, and the data length it knows durable.                         *)
Start == [index |-> <<>>, sidecar |-> 0, durable |-> 0]
Contradiction == [Start EXCEPT !.sidecar = -1]

EndsIn(d, X) == d # <<>> /\ d[Len(d)] \in X

(* The records from offset n + 1 on, up to the first thing that is none. *)
ScanFrom(d, n) ==
    LET ends == {m \in n .. Len(d) : \A i \in n + 1 .. m : d[i] \in Keys}
    IN  SubSeq(d, n + 1, CHOOSE m \in ends : \A o \in ends : o <= m)

VerifyEntry(d, r) == d[r.off] = r.key

(* What a scan knows of a tail: the index, the records it took, and        *)
(* whether it goes on taking.                                              *)
Taken(ix, n, state) == [index |-> ix, taken |-> n, state |-> state]

(* One sidecar record on top of those taken before it.  An entry behind    *)
(* the scan must be one it found in the data's tail; one at its end is     *)
(* trusted up to the durable length and verified after it; any other ends  *)
(* what the sidecar vouches for.                                           *)
TakeUnverified(at, d, durable, c, r) ==
    LET one(ix) == Taken(ix, c.taken + 1, "taking")
        stop(why) == Taken(c.index, c.taken, why)
    IN  CASE c.state # "taking" -> c
          [] c.state = "taking" /\ r.kind = "synced" -> one(c.index)
          [] c.state = "taking" /\ r.kind = "entry" /\ r.off <= Len(c.index) ->
                IF r.off <= Len(at.index) /\ at.index[r.off] = r.key THEN one(c.index)
                ELSE stop("wrong")
          [] c.state = "taking" /\ r.kind = "entry" /\ r.off > Len(c.index) ->
                IF r.off = Len(c.index) + 1 /\ r.off <= Len(d) THEN one(Append(c.index, r.key))
                ELSE stop("over")

Take(at, d, durable, c, r) ==
    LET one(ix) == Taken(ix, c.taken + 1, "taking")
        stop(why) == Taken(c.index, c.taken, why)
    IN  CASE c.state # "taking" -> c
          [] c.state = "taking" /\ r.kind = "synced" -> one(c.index)
          [] c.state = "taking" /\ r.kind = "entry" /\ r.off <= Len(c.index) ->
                IF r.off <= Len(at.index) /\ at.index[r.off] = r.key THEN one(c.index)
                ELSE stop("wrong")
          [] c.state = "taking" /\ r.kind = "entry" /\ r.off > Len(c.index) ->
                IF /\ r.off = Len(c.index) + 1 /\ r.off <= Len(d)
                   /\ r.off <= durable \/ VerifyEntry(d, r)
                THEN one(Append(c.index, r.key))
                ELSE stop("over")

(* What is known after each record of the tail. *)
Taking(at, d, durable, tail) ==
    LET c[j \in 0 .. Len(tail)] ==
            IF j = 0 THEN Taken(at.index, 0, "taking")
            ELSE Take(at, d, durable, c[j - 1], tail[j])
    IN  c

(* The scan at taken forward over the data d and the sidecar's tail, read  *)
(* before d was.                                                           *)
Advance(at, d, tail) ==
    LET marks == Marks(tail) \cup {at.durable}
        durable == CHOOSE m \in marks : \A o \in marks : o <= m
        c == Taking(at, d, durable, tail)[Len(tail)]
    IN  IF c.state = "wrong" \/ \E n \in Marks(tail) : n > Len(d)
        THEN Contradiction
        ELSE [index |-> c.index \o ScanFrom(d, Len(c.index)),
              sidecar |-> at.sidecar + c.taken,
              durable |-> durable]

FullScan(d) == [Start EXCEPT !.index = ScanFrom(d, 0)]

(* recover_segment, for a file that carries no whole footer. *)
Recover(d, s) ==
    IF s = NoSidecar \/ EndsIn(d, {Footer, Torn}) \/ Advance(Start, d, s) = Contradiction
    THEN FullScan(d)
    ELSE Advance(Start, d, s)

(* The entries for what an index has and the records s of a sidecar do     *)
(* not list.                                                               *)
Missing(ix, s) ==
    LET listed == {r.off : r \in Entries(s)}
        upTo[n \in 0 .. Len(ix)] ==
            IF n = 0 THEN <<>>
            ELSE IF n \in listed THEN upTo[n - 1]
            ELSE Append(upTo[n - 1], Entry(ix[n], n))
    IN  upTo[Len(ix)]

=============================================================================
