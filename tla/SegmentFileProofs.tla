------------------------- MODULE SegmentFileProofs --------------------------
(***************************************************************************)
(* What recovery reads back (module Recovery), and that the appends of a   *)
(* segment (module Segment) preserve its invariant, for every set of keys  *)
(* and every size.                                                         *)
(***************************************************************************)
EXTENDS Segment, SequenceTheorems, WellFoundedInduction, TLAPS

Less == {p \in Nat \X Nat : p[1] < p[2]}

(* A set of numbers that is not empty has a least. *)
LEMMA LeastNumber ==
    ASSUME NEW T \in SUBSET Nat, T # {}
    PROVE  \E m \in T : \A k \in T : m <= k
<1>1. Less = OpToRel(<, Nat)
  BY Zenon DEF Less, OpToRel
<1>2. IsWellFoundedOn(Less, Nat)
  BY <1>1, NatLessThanWellFounded, Zenon
<1>3. PICK m \in T : \A k \in T : <<k, m>> \notin Less
  BY <1>2, WFMin, Zenon
<1>4. ASSUME NEW k \in T PROVE m <= k
  <2>1. <<k, m>> \notin Less
    BY <1>3
  <2>2. m \in Nat /\ k \in Nat
    OBVIOUS
  <2> QED BY <2>1, <2>2 DEF Less
<1> QED BY <1>4

(* A set of numbers with a bound has a largest. *)
LEMMA LargestNumber ==
    ASSUME NEW M \in SUBSET Nat, NEW b \in Nat, M # {}, \A m \in M : m <= b
    PROVE  \E m \in M : \A o \in M : o <= m
<1> DEFINE T == {n \in Nat : \A m \in M : m <= n}
<1>1. PICK l \in T : \A k \in T : l <= k
  <2>1. b \in T /\ T \in SUBSET Nat
    OBVIOUS
  <2> HIDE DEF T
  <2> QED BY <2>1, LeastNumber, Zenon
<1>2. CASE l \in M
  BY <1>2
<1>3. CASE l \notin M
  <2>1. PICK o \in M : TRUE
    BY Zenon
  <2>2. \A m \in M : m <= l - 1
    BY <1>1, <1>3
  <2>3. l - 1 \in T
    BY <2>1, <2>2, <1>1
  <2> QED BY <2>3, <1>1
<1> QED BY <1>2, <1>3

Items == Keys \cup {Bad, Torn, Footer}

(* A scan takes the whole records from where it starts up to the first item *)
(* that is none (scan).                                                     *)
LEMMA ScanFromWhole ==
    ASSUME NEW d \in Seq(Items), NEW n \in 0 .. Len(d)
    PROVE  /\ ScanFrom(d, n) \in Seq(Keys)
           /\ n + Len(ScanFrom(d, n)) <= Len(d)
           /\ \A i \in 1 .. Len(ScanFrom(d, n)) : ScanFrom(d, n)[i] = d[n + i]
           /\ n + Len(ScanFrom(d, n)) < Len(d) => d[n + Len(ScanFrom(d, n)) + 1] \notin Keys
<1> DEFINE ends == {m \in n .. Len(d) : \A i \in n + 1 .. m : d[i] \in Keys}
           e == CHOOSE m \in ends : \A o \in ends : o <= m
<1>1. n \in Nat /\ Len(d) \in Nat
  OBVIOUS
<1>2. n \in ends
  BY <1>1
<1>3. \E m \in ends : \A o \in ends : o <= m
  <2>1. ends \in SUBSET Nat /\ \A m \in ends : m <= Len(d)
    BY <1>1
  <2> HIDE DEF ends
  <2> QED BY <1>1, <1>2, <2>1, LargestNumber, Zenon
<1>4. e \in ends /\ \A o \in ends : o <= e
  <2> HIDE DEF ends
  <2> QED BY <1>3
<1>5. ScanFrom(d, n) = SubSeq(d, n + 1, e)
  BY DEF ScanFrom
<1> HIDE DEF e
<1>6. e \in n .. Len(d) /\ \A i \in n + 1 .. e : d[i] \in Keys
  BY <1>4
<1>7. /\ SubSeq(d, n + 1, e) \in Seq(Keys)
      /\ Len(SubSeq(d, n + 1, e)) = e - n
      /\ \A i \in 1 .. e - n : SubSeq(d, n + 1, e)[i] = d[n + i]
  BY <1>1, <1>6, SubSeqProperties
<1>8. e < Len(d) => d[e + 1] \notin Keys
  <2> SUFFICES ASSUME e < Len(d), d[e + 1] \in Keys PROVE FALSE
    OBVIOUS
  <2>1. e + 1 \in ends
    BY <1>1, <1>6
  <2> QED BY <1>1, <1>4, <1>6, <2>1
<1> QED BY <1>1, <1>5, <1>6, <1>7, <1>8

-----------------------------------------------------------------------------
(* The entries among the first n records of a tail are in an index. *)
Listed(tail, n, ix) ==
    \A i \in 1 .. n :
        tail[i].kind = "entry" => tail[i].off <= Len(ix) /\ ix[tail[i].off] = tail[i].key

(* What is known after j records of the tail agrees with the data, and the *)
(* entries among the records taken are in the index.                       *)
Known(base, d, tail, j, ix, n, state) ==
    /\ ix \in Seq(Keys)
    /\ Len(base) <= Len(ix) /\ Len(ix) <= Len(d)
    /\ \A i \in 1 .. Len(ix) : d[i] = ix[i]
    /\ \A i \in 1 .. Len(base) : ix[i] = base[i]
    /\ n \in Nat /\ n <= j /\ (state = "taking" => n = j)
    /\ Listed(tail, n, ix)

(* What reading one sidecar record may make of the catch-up (advance). *)
LEMMA TakeCases ==
    ASSUME NEW at, NEW d, NEW known, NEW c, NEW r, r.kind \in {"synced", "entry"},
           r.off \in Nat, Len(c.index) \in Nat, NEW t, t = Take(at, d, known, c, r)
    PROVE      \/ t = c /\ c.state # "taking"
               \/ /\ c.state = "taking" /\ r.kind = "synced"
                  /\ t = Taken(c.index, c.taken + 1, "taking")
               \/ /\ c.state = "taking" /\ r.kind = "entry"
                  /\ r.off <= Len(at.index) /\ at.index[r.off] = r.key
                  /\ t = Taken(c.index, c.taken + 1, "taking")
               \/ /\ c.state = "taking" /\ r.kind = "entry"
                  /\ r.off = Len(c.index) + 1 /\ r.off <= Len(d)
                  /\ r.off <= known \/ d[r.off] = r.key
                  /\ t = Taken(Append(c.index, r.key), c.taken + 1, "taking")
               \/ \E why \in {"wrong", "over"} : t = Taken(c.index, c.taken, why)
BY DEF Take, VerifyEntry

(* The entries among the first n records of a tail are in an index. *)
LEMMA ListsOneMore ==
    ASSUME NEW tail \in Seq(SidecarRecs), NEW j \in 1 .. Len(tail),
           NEW ix \in Seq(Keys), NEW iy \in Seq(Keys), Len(ix) <= Len(iy),
           \A i \in 1 .. Len(ix) : iy[i] = ix[i],
           Listed(tail, j - 1, ix),
           tail[j].kind = "entry" => tail[j].off <= Len(iy) /\ iy[tail[j].off] = tail[j].key
    PROVE  Listed(tail, j, iy)
<1> SUFFICES ASSUME NEW i \in 1 .. j, tail[i].kind = "entry"
             PROVE  tail[i].off <= Len(iy) /\ iy[tail[i].off] = tail[i].key
  BY Zenon DEF Listed
<1>1. CASE i = j
  BY <1>1, Zenon
<1>2. CASE i # j
  <2>1. i \in 1 .. j - 1 /\ i \in 1 .. Len(tail) /\ Len(ix) \in Nat /\ Len(iy) \in Nat
    BY <1>2
  <2>2. tail[i].off \in Nat /\ tail[i].off # 0
    BY <2>1 DEF SidecarRecs
  <2>3. tail[i].off <= Len(ix) /\ ix[tail[i].off] = tail[i].key
    BY <2>1, Zenon DEF Listed
  <2>4. tail[i].off \in 1 .. Len(ix) /\ tail[i].off <= Len(iy)
    BY <2>1, <2>2, <2>3
  <2> QED BY <2>3, <2>4, Zenon
<1> QED BY <1>1, <1>2

(* A record that is already in the index is taken: what is known stays. *)
LEMMA KnownSame ==
    ASSUME NEW d \in Seq(Items), NEW base \in Seq(Keys), NEW tail \in Seq(SidecarRecs),
           NEW j \in 1 .. Len(tail), NEW ix, NEW n, Known(base, d, tail, j - 1, ix, n, "taking"),
           \/ tail[j].kind = "synced"
           \/ /\ tail[j].kind = "entry" /\ tail[j].off \in 1 .. Len(base)
              /\ base[tail[j].off] = tail[j].key
    PROVE  Known(base, d, tail, j, ix, n + 1, "taking")
<1>1. /\ ix \in Seq(Keys) /\ n = j - 1 /\ Listed(tail, j - 1, ix)
      /\ Len(base) <= Len(ix) /\ Len(ix) <= Len(d)
      /\ \A i \in 1 .. Len(ix) : d[i] = ix[i]
      /\ \A i \in 1 .. Len(base) : ix[i] = base[i]
  BY Zenon DEF Known
<1>2. /\ n + 1 = j /\ n + 1 \in Nat /\ j <= j
      /\ Len(ix) \in Nat /\ Len(base) \in Nat /\ Len(ix) <= Len(ix)
  BY <1>1
<1>3. tail[j].kind = "entry" => tail[j].off <= Len(ix) /\ ix[tail[j].off] = tail[j].key
  <2>1. tail[j].off \in 1 .. Len(base) => tail[j].off <= Len(ix)
    BY <1>1, <1>2
  <2> QED BY <1>1, <2>1, Zenon
<1>4. Listed(tail, j, ix)
  BY <1>1, <1>2, <1>3, ListsOneMore, Zenon
<1> QED BY <1>1, <1>2, <1>4, Zenon DEF Known

(* An entry at the end of the index that the data holds is taken. *)
LEMMA KnownAppend ==
    ASSUME NEW d \in Seq(Items), NEW base \in Seq(Keys), NEW tail \in Seq(SidecarRecs),
           NEW j \in 1 .. Len(tail), NEW ix, NEW n, Known(base, d, tail, j - 1, ix, n, "taking"),
           NEW k \in Keys, tail[j].key = k,
           tail[j].off = Len(ix) + 1, tail[j].off <= Len(d), d[tail[j].off] = k
    PROVE  Known(base, d, tail, j, Append(ix, k), n + 1, "taking")
<1>1. /\ ix \in Seq(Keys) /\ n = j - 1 /\ Listed(tail, j - 1, ix)
      /\ Len(base) <= Len(ix) /\ Len(ix) <= Len(d)
      /\ \A i \in 1 .. Len(ix) : d[i] = ix[i]
      /\ \A i \in 1 .. Len(base) : ix[i] = base[i]
  BY Zenon DEF Known
<1> DEFINE iy == Append(ix, k)
<1>2. /\ iy \in Seq(Keys) /\ Len(iy) = Len(ix) + 1
      /\ \A i \in 1 .. Len(ix) : iy[i] = ix[i]
      /\ iy[Len(ix) + 1] = k
  BY <1>1, AppendProperties
<1> HIDE DEF iy
<1>3. /\ n + 1 = j /\ n + 1 \in Nat /\ j <= j
      /\ Len(ix) \in Nat /\ Len(base) \in Nat /\ Len(d) \in Nat
  BY <1>1
<1>4. Len(ix) <= Len(iy) /\ Len(base) <= Len(iy) /\ Len(iy) <= Len(d)
  BY <1>1, <1>2, <1>3
<1>5. ASSUME NEW i \in 1 .. Len(iy) PROVE d[i] = iy[i]
  <2>1. i \in 1 .. Len(ix) \/ i = Len(ix) + 1
    BY <1>2, <1>3
  <2> QED BY <1>1, <1>2, <2>1, Zenon
<1>6. ASSUME NEW i \in 1 .. Len(base) PROVE iy[i] = base[i]
  <2>1. i \in 1 .. Len(ix)
    BY <1>1, <1>3
  <2> QED BY <1>1, <1>2, <2>1, Zenon
<1>7. tail[j].off <= Len(iy) /\ iy[tail[j].off] = tail[j].key
  BY <1>2, <1>3
<1>8. Listed(tail, j, iy)
  BY <1>1, <1>2, <1>4, <1>7, ListsOneMore, Zenon
<1>9. Known(base, d, tail, j, iy, n + 1, "taking")
  BY <1>2, <1>3, <1>4, <1>5, <1>6, <1>8, Zenon DEF Known
<1> QED BY <1>9 DEF iy

(* A record that ends the scan of the sidecar takes nothing. *)
LEMMA KnownStop ==
    ASSUME NEW d, NEW base, NEW tail, NEW j \in Nat \ {0}, NEW ix, NEW n, NEW state, NEW why,
           Known(base, d, tail, j - 1, ix, n, state), why # "taking"
    PROVE  Known(base, d, tail, j, ix, n, why)
<1>1. n \in Nat /\ n <= j - 1
  BY Zenon DEF Known
<1>2. n <= j
  BY <1>1
<1> QED BY <1>2, Zenon DEF Known

(* One record, whatever it is, keeps what is known about the index so far. *)
LEMMA TakeKnown ==
    ASSUME NEW d \in Seq(Items), NEW at, at.index \in Seq(Keys),
           NEW tail \in Seq(SidecarRecs), NEW known \in Nat, NEW j \in 1 .. Len(tail),
           NEW c, Known(at.index, d, tail, j - 1, c.index, c.taken, c.state),
           tail[j].kind = "entry" /\ tail[j].off <= known /\ tail[j].off <= Len(d)
               => d[tail[j].off] = tail[j].key,
           NEW t, t = Take(at, d, known, c, tail[j])
    PROVE  Known(at.index, d, tail, j, t.index, t.taken, t.state)
<1>1. /\ tail[j].off \in Nat /\ tail[j].kind \in {"synced", "entry"}
      /\ tail[j].kind = "entry" => tail[j].key \in Keys /\ tail[j].off # 0
  BY DEF SidecarRecs
<1>2. c.index \in Seq(Keys)
  BY Zenon DEF Known
<1>3. Len(c.index) \in Nat /\ j \in Nat \ {0} /\ Len(at.index) \in Nat
  BY <1>2
<1>4. CASE t = c /\ c.state # "taking"
  BY <1>3, <1>4, KnownStop, Zenon
<1>5. CASE /\ c.state = "taking" /\ tail[j].kind = "synced"
           /\ t = Taken(c.index, c.taken + 1, "taking")
  <2>1. t.index = c.index /\ t.taken = c.taken + 1 /\ t.state = "taking"
    BY <1>5 DEF Taken
  <2> QED BY <1>5, <2>1, KnownSame, Zenon
<1>6. CASE /\ c.state = "taking" /\ tail[j].kind = "entry"
           /\ tail[j].off <= Len(at.index) /\ at.index[tail[j].off] = tail[j].key
           /\ t = Taken(c.index, c.taken + 1, "taking")
  <2>1. t.index = c.index /\ t.taken = c.taken + 1 /\ t.state = "taking"
    BY <1>6 DEF Taken
  <2>2. tail[j].off \in 1 .. Len(at.index)
    BY <1>1, <1>3, <1>6
  <2> QED BY <1>6, <2>1, <2>2, KnownSame, Zenon
<1>7. CASE /\ c.state = "taking" /\ tail[j].kind = "entry"
           /\ tail[j].off = Len(c.index) + 1 /\ tail[j].off <= Len(d)
           /\ tail[j].off <= known \/ d[tail[j].off] = tail[j].key
           /\ t = Taken(Append(c.index, tail[j].key), c.taken + 1, "taking")
  <2>1. t.index = Append(c.index, tail[j].key) /\ t.taken = c.taken + 1 /\ t.state = "taking"
    BY <1>7 DEF Taken
  <2>2. d[tail[j].off] = tail[j].key
    BY <1>7, Zenon
  <2> QED BY <1>1, <1>7, <2>1, <2>2, KnownAppend, Zenon
<1>8. ASSUME NEW why \in {"wrong", "over"}, t = Taken(c.index, c.taken, why)
      PROVE  Known(at.index, d, tail, j, t.index, t.taken, t.state)
  <2>1. t.index = c.index /\ t.taken = c.taken /\ t.state = why /\ why # "taking"
    BY <1>8 DEF Taken
  <2> QED BY <1>3, <2>1, KnownStop, Zenon
<1> DEFINE r == tail[j]
<1>9. \/ t = c /\ c.state # "taking"
      \/ /\ c.state = "taking" /\ r.kind = "synced"
         /\ t = Taken(c.index, c.taken + 1, "taking")
      \/ /\ c.state = "taking" /\ r.kind = "entry"
         /\ r.off <= Len(at.index) /\ at.index[r.off] = r.key
         /\ t = Taken(c.index, c.taken + 1, "taking")
      \/ /\ c.state = "taking" /\ r.kind = "entry"
         /\ r.off = Len(c.index) + 1 /\ r.off <= Len(d)
         /\ r.off <= known \/ d[r.off] = r.key
         /\ t = Taken(Append(c.index, r.key), c.taken + 1, "taking")
      \/ \E why \in {"wrong", "over"} : t = Taken(c.index, c.taken, why)
  <2>1. /\ r.kind \in {"synced", "entry"} /\ r.off \in Nat /\ Len(c.index) \in Nat
        /\ t = Take(at, d, known, c, r)
    BY <1>1, <1>3, Zenon
  <2> HIDE DEF r
  <2> QED BY <2>1, TakeCases
<1> QED BY <1>4, <1>5, <1>6, <1>7, <1>8, <1>9, Zenon

(* The equations of Taking, for m records, and that they have a solution. *)
Takes(at, d, known, tail, m, f) ==
    f = [j \in 0 .. m |-> IF j = 0 THEN Taken(at.index, 0, "taking")
                         ELSE Take(at, d, known, f[j - 1], tail[j])]

(* Reading the records one by one is well founded. *)
LEMMA TakingExists ==
    ASSUME NEW at, NEW d, NEW known, NEW tail \in Seq(SidecarRecs)
    PROVE  \E f : Takes(at, d, known, tail, Len(tail), f)
<1> DEFINE Solves(f, m) ==
              f = [j \in 0 .. m |-> IF j = 0 THEN Taken(at.index, 0, "taking")
                                  ELSE Take(at, d, known, f[j - 1], tail[j])]
           T == {m \in Nat : ~ \E f : Solves(f, m)}
<1>0. Len(tail) \in Nat
  OBVIOUS
<1> SUFFICES ASSUME T # {} PROVE FALSE
  BY <1>0, Zenon DEF Takes
<1>1. PICK m \in T : \A k \in T : m <= k
  <2>1. T \in SUBSET Nat
    BY Zenon
  <2> HIDE DEF T
  <2> QED BY <2>1, LeastNumber, Zenon
<1>2. m \in Nat /\ ~ \E f : Solves(f, m)
  BY Zenon
<1>3. CASE m = 0
  <2> DEFINE g == [j \in 0 .. 0 |-> Taken(at.index, 0, "taking")]
  <2>1. Solves(g, 0)
    OBVIOUS
  <2> QED BY <1>2, <1>3, <2>1, Zenon
<1>4. CASE m # 0
  <2>1. m - 1 \in Nat /\ ~(m <= m - 1)
    BY <1>2, <1>4
  <2>2. PICK g : Solves(g, m - 1)
    <3>1. m - 1 \notin T
      BY <1>1, <2>1, Zenon
    <3> QED BY <2>1, <3>1, Zenon
  <2> DEFINE h == [j \in 0 .. m |-> IF j = m THEN Take(at, d, known, g[m - 1], tail[m])
                                  ELSE g[j]]
  <2>3. ASSUME NEW j \in 0 .. m
        PROVE  h[j] = IF j = 0 THEN Taken(at.index, 0, "taking")
                      ELSE Take(at, d, known, h[j - 1], tail[j])
    <3>1. CASE j = m
      <4>1. h[j] = Take(at, d, known, g[m - 1], tail[m])
        BY <3>1
      <4>2. h[m - 1] = g[m - 1]
        BY <1>2, <1>4
      <4> HIDE DEF h
      <4> QED BY <1>4, <3>1, <4>1, <4>2, Zenon
    <3>2. CASE j # m
      <4>1. j \in 0 .. m - 1 /\ h[j] = g[j]
        BY <1>2, <3>2
      <4>2. CASE j = 0
        <5>1. g[j] = Taken(at.index, 0, "taking")
          BY <2>2, <4>1, <4>2
        <5> HIDE DEF h
        <5> QED BY <4>1, <4>2, <5>1, Zenon
      <4>3. CASE j # 0
        <5>1. g[j] = Take(at, d, known, g[j - 1], tail[j])
          BY <2>2, <4>1, <4>3
        <5>2. h[j - 1] = g[j - 1]
          BY <1>2, <3>2, <4>3
        <5> HIDE DEF h
        <5> QED BY <4>1, <4>3, <5>1, <5>2, Zenon
      <4> QED BY <4>2, <4>3
    <3> QED BY <3>1, <3>2
  <2>4. Solves(h, m)
    <3> DEFINE e == [j \in 0 .. m |-> IF j = 0 THEN Taken(at.index, 0, "taking")
                                    ELSE Take(at, d, known, h[j - 1], tail[j])]
    <3>1. \A j \in 0 .. m : h[j] = e[j]
      BY <2>3, Zenon
    <3>2. h = e
      BY <3>1, Zenon
    <3> QED BY <3>2
  <2> QED BY <1>2, <2>4, Zenon
<1> QED BY <1>3, <1>4

(* So each element of Taking is the step from the one before it. *)
LEMMA TakingStep ==
    ASSUME NEW at, NEW d, NEW known, NEW tail \in Seq(SidecarRecs),
           NEW f, f = Taking(at, d, known, tail)
    PROVE  /\ f[0] = Taken(at.index, 0, "taking")
           /\ \A j \in 1 .. Len(tail) : f[j] = Take(at, d, known, f[j - 1], tail[j])
<1>1. Len(tail) \in Nat
  OBVIOUS
<1>2. f = [j \in 0 .. Len(tail) |-> IF j = 0 THEN Taken(at.index, 0, "taking")
                                   ELSE Take(at, d, known, f[j - 1], tail[j])]
  <2>1. f = CHOOSE g : Takes(at, d, known, tail, Len(tail), g)
    BY Zenon DEF Taking, Takes
  <2>2. Takes(at, d, known, tail, Len(tail), f)
    BY <2>1, TakingExists, Zenon
  <2> QED BY <2>2, Zenon DEF Takes
<1>3. 0 \in 0 .. Len(tail) /\ \A j \in 1 .. Len(tail) : j \in 0 .. Len(tail) /\ j # 0
  BY <1>1
<1> QED BY <1>2, <1>3, Zenon

(* The entries of a tail that lie below a durable length are right. *)
Trusted(d, tail, known) ==
    \A j \in 1 .. Len(tail) :
        tail[j].kind = "entry" /\ tail[j].off <= known => d[tail[j].off] = tail[j].key

(* What Taking knows after each record of a trusted tail. *)
LEMMA TakingKnown ==
    ASSUME NEW d \in Seq(Items), NEW at, at.index \in Seq(Keys),
           Len(at.index) <= Len(d), \A i \in 1 .. Len(at.index) : d[i] = at.index[i],
           NEW tail \in Seq(SidecarRecs), NEW known \in Nat, Trusted(d, tail, known),
           NEW f, f = Taking(at, d, known, tail), NEW n \in 0 .. Len(tail)
    PROVE  Known(at.index, d, tail, n, f[n].index, f[n].taken, f[n].state)
<1> DEFINE P(m) == Known(at.index, d, tail, m, f[m].index, f[m].taken, f[m].state)
           T == {m \in Nat : m <= Len(tail) /\ ~P(m)}
<1>0. n \in Nat /\ n <= Len(tail) /\ Len(tail) \in Nat
  OBVIOUS
<1>1. /\ f[0] = Taken(at.index, 0, "taking")
      /\ \A j \in 1 .. Len(tail) : f[j] = Take(at, d, known, f[j - 1], tail[j])
  BY TakingStep
<1> SUFFICES ASSUME T # {} PROVE FALSE
  BY <1>0, Zenon
<1>2. PICK m \in T : \A k \in T : m <= k
  <2>1. T \in SUBSET Nat
    BY Zenon
  <2> HIDE DEF T
  <2> QED BY <2>1, LeastNumber, Zenon
<1>3. m \in Nat /\ m <= Len(tail) /\ ~P(m)
  BY Zenon
<1>4. CASE m = 0
  <2>1. f[0].index = at.index /\ f[0].taken = 0 /\ f[0].state = "taking"
    BY <1>1 DEF Taken
  <2>2. Listed(tail, 0, at.index)
    BY DEF Listed
  <2>3. Len(at.index) <= Len(at.index) /\ 0 \in Nat /\ 0 <= 0
    BY LenProperties
  <2>4. Known(at.index, d, tail, 0, at.index, 0, "taking")
    BY <2>2, <2>3, Zenon DEF Known
  <2> QED BY <1>3, <1>4, <2>1, <2>4, Zenon
<1>5. CASE m # 0
  <2>1. m - 1 \in Nat /\ ~(m <= m - 1) /\ m \in 1 .. Len(tail) /\ m - 1 <= Len(tail)
    BY <1>0, <1>3, <1>5
  <2>2. P(m - 1)
    <3>1. m - 1 \notin T
      BY <1>2, <2>1, Zenon
    <3> QED BY <2>1, <3>1, Zenon
  <2>3. f[m] = Take(at, d, known, f[m - 1], tail[m])
    BY <1>1, <2>1, Zenon
  <2>4. tail[m].kind = "entry" /\ tail[m].off <= known => d[tail[m].off] = tail[m].key
    BY <2>1, Zenon DEF Trusted
  <2> QED BY <1>3, <2>1, <2>2, <2>3, <2>4, TakeKnown, Zenon
<1> QED BY <1>4, <1>5

(* The scan ix is all of the records of d up to the first thing that is    *)
(* none.                                                                   *)
WholeOf(d, ix) ==
    /\ ix \in Seq(Keys) /\ Len(ix) <= Len(d)
    /\ \A i \in 1 .. Len(ix) : d[i] = ix[i]
    /\ Len(ix) < Len(d) => d[Len(ix) + 1] \notin Keys

(* An index that agrees with the data, with the scan of what follows it,   *)
(* is whole, and still lists what it listed.                               *)
LEMMA ScanCompletes ==
    ASSUME NEW d \in Seq(Items), NEW ix \in Seq(Keys), Len(ix) <= Len(d),
           \A i \in 1 .. Len(ix) : d[i] = ix[i],
           NEW tail \in Seq(SidecarRecs), NEW n \in 0 .. Len(tail), Listed(tail, n, ix)
    PROVE  /\ WholeOf(d, ix \o ScanFrom(d, Len(ix)))
           /\ Listed(tail, n, ix \o ScanFrom(d, Len(ix)))
<1> DEFINE rest == ScanFrom(d, Len(ix))
           iy == ix \o rest
<1>1. Len(ix) \in 0 .. Len(d) /\ Len(ix) \in Nat /\ Len(d) \in Nat
  OBVIOUS
<1>2. /\ rest \in Seq(Keys) /\ Len(ix) + Len(rest) <= Len(d)
      /\ \A i \in 1 .. Len(rest) : rest[i] = d[Len(ix) + i]
      /\ Len(ix) + Len(rest) < Len(d) => d[Len(ix) + Len(rest) + 1] \notin Keys
  BY <1>1, ScanFromWhole, Zenon
<1> HIDE DEF rest
<1>3. /\ iy \in Seq(Keys) /\ Len(iy) = Len(ix) + Len(rest) /\ Len(rest) \in Nat
      /\ \A i \in 1 .. Len(iy) : iy[i] = IF i <= Len(ix) THEN ix[i] ELSE rest[i - Len(ix)]
  BY <1>2, ConcatProperties
<1> HIDE DEF iy
<1>4. ASSUME NEW i \in 1 .. Len(iy) PROVE d[i] = iy[i]
  <2>1. CASE i <= Len(ix)
    <3>1. i \in 1 .. Len(ix)
      BY <1>1, <2>1
    <3> QED BY <1>3, <2>1, <3>1, Zenon
  <2>2. CASE ~(i <= Len(ix))
    <3>1. i - Len(ix) \in 1 .. Len(rest) /\ Len(ix) + (i - Len(ix)) = i
      BY <1>1, <1>3, <2>2
    <3>2. rest[i - Len(ix)] = d[i]
      BY <1>2, <3>1, Zenon
    <3> QED BY <1>3, <2>2, <3>2, Zenon
  <2> QED BY <2>1, <2>2
<1>5. Len(iy) <= Len(d) /\ (Len(iy) < Len(d) => d[Len(iy) + 1] \notin Keys)
  BY <1>2, <1>3, Zenon
<1>6. WholeOf(d, iy)
  BY <1>3, <1>4, <1>5, Zenon DEF WholeOf
<1>7. ASSUME NEW i \in 1 .. n, tail[i].kind = "entry"
      PROVE  tail[i].off <= Len(iy) /\ iy[tail[i].off] = tail[i].key
  <2>1. tail[i].off <= Len(ix) /\ ix[tail[i].off] = tail[i].key
    BY <1>7, Zenon DEF Listed
  <2>2. tail[i].off \in Nat \ {0}
    BY <1>7 DEF SidecarRecs
  <2>3. tail[i].off \in 1 .. Len(iy)
    BY <1>1, <1>3, <2>1, <2>2
  <2>4. tail[i].off <= Len(iy)
    BY <1>1, <1>3, <2>1, <2>2
  <2> QED BY <1>3, <2>1, <2>3, <2>4, Zenon
<1>8. Listed(tail, n, iy)
  BY <1>7, Zenon DEF Listed
<1> QED BY <1>6, <1>8 DEF iy, rest

-----------------------------------------------------------------------------
(* What a scan taken forward from at over a tail comes to. *)
Comes(d, tail, read, marks, res) ==
    \E ix \in Seq(Keys), n \in 0 .. Len(tail), m \in marks :
        /\ res = [index |-> ix, sidecar |-> read + n, durable |-> m]
        /\ WholeOf(d, ix)
        /\ Listed(tail, n, ix)

(* The entries of a tail below any of some marks are right. *)
TrustedBelow(d, tail, marks) == \A m \in marks : Trusted(d, tail, m)

(* The marks of a sidecar are numbers. *)
LEMMA MarksType ==
    ASSUME NEW s \in Seq(SidecarRecs)
    PROVE  Marks(s) \subseteq Nat
<1>1. ASSUME NEW j \in DOMAIN s PROVE s[j].off \in Nat
  BY DEF SidecarRecs
<1> QED BY <1>1, Zenon DEF Marks, Range

(* Taken forward over entries that are right below the marks, a scan is    *)
(* contradicted or is all of the records of the data.                      *)
LEMMA AdvanceSound ==
    ASSUME NEW d \in Seq(Items), NEW at, at.index \in Seq(Keys),
           Len(at.index) <= Len(d), \A i \in 1 .. Len(at.index) : d[i] = at.index[i],
           at.durable \in Nat, NEW tail \in Seq(SidecarRecs),
           TrustedBelow(d, tail, Marks(tail) \cup {at.durable}),
           NEW b \in Nat, \A m \in Marks(tail) \cup {at.durable} : m <= b,
           NEW res, res = Advance(at, d, tail), res # Contradiction
    PROVE  Comes(d, tail, at.sidecar, Marks(tail) \cup {at.durable}, res)
<1> DEFINE marks == Marks(tail) \cup {at.durable}
           top == CHOOSE m \in marks : \A o \in marks : o <= m
           c == Taking(at, d, top, tail)[Len(tail)]
<1>1. top \in marks /\ top \in Nat
  <2>1. marks \in SUBSET Nat /\ marks # {} /\ \A m \in marks : m <= b
    BY MarksType, Zenon
  <2> HIDE DEF marks
  <2>2. \E m \in marks : \A o \in marks : o <= m
    BY <2>1, LargestNumber, Zenon
  <2> QED BY <2>1, <2>2, Zenon
<1>2. res = IF c.state = "wrong" \/ \E n \in Marks(tail) : n > Len(d)
            THEN Contradiction
            ELSE [index |-> c.index \o ScanFrom(d, Len(c.index)),
                  sidecar |-> at.sidecar + c.taken, durable |-> top]
  BY Zenon DEF Advance
<1>3. res = [index |-> c.index \o ScanFrom(d, Len(c.index)),
             sidecar |-> at.sidecar + c.taken, durable |-> top]
  BY <1>2, Zenon
<1>4. Known(at.index, d, tail, Len(tail), c.index, c.taken, c.state)
  <2>1. Trusted(d, tail, top) /\ Len(tail) \in 0 .. Len(tail)
    <3>1. Trusted(d, tail, top)
      BY <1>1, Zenon DEF TrustedBelow
    <3> QED BY <3>1
  <2> HIDE DEF top
  <2>2. PICK f : f = Taking(at, d, top, tail)
    OBVIOUS
  <2>3. Known(at.index, d, tail, Len(tail), f[Len(tail)].index, f[Len(tail)].taken,
              f[Len(tail)].state)
    BY <1>1, <2>1, <2>2, TakingKnown, Zenon
  <2> QED BY <2>2, <2>3, Zenon
<1> HIDE DEF c, top, marks
<1>5. /\ c.index \in Seq(Keys) /\ Len(c.index) <= Len(d)
      /\ \A i \in 1 .. Len(c.index) : d[i] = c.index[i]
      /\ c.taken \in Nat /\ c.taken <= Len(tail) /\ Listed(tail, c.taken, c.index)
  BY <1>4, Zenon DEF Known
<1>6. c.taken \in 0 .. Len(tail)
  BY <1>5
<1>7. PICK iy : iy = c.index \o ScanFrom(d, Len(c.index))
  BY Zenon
<1>8. WholeOf(d, iy) /\ Listed(tail, c.taken, iy)
  BY <1>5, <1>6, <1>7, ScanCompletes, Zenon
<1>9. iy \in Seq(Keys)
  BY <1>8, Zenon DEF WholeOf
<1>10. Comes(d, tail, at.sidecar, marks, res)
  BY <1>1, <1>3, <1>6, <1>7, <1>8, <1>9, Zenon DEF Comes
<1> QED BY <1>10 DEF marks

(* Recovery finds all of the records of the data, whichever of its two     *)
(* ways it takes.                                                          *)
LEMMA RecoverSound ==
    ASSUME NEW d \in Seq(Items), NEW s \in Seq(SidecarRecs) \cup {NoSidecar},
           NEW tail \in Seq(SidecarRecs), tail = IF s = NoSidecar THEN <<>> ELSE s,
           TrustedBelow(d, tail, Marks(tail)),
           NEW b \in Nat, \A m \in Marks(tail) : m <= b
    PROVE  Comes(d, tail, 0, Marks(tail) \cup {0}, Recover(d, s))
<1>1. Start.index = <<>> /\ Start.durable = 0 /\ Start.sidecar = 0
  BY DEF Start
<1>2. Start.index \in Seq(Keys) /\ Len(Start.index) = 0 /\ Len(d) \in Nat
  BY <1>1
<1>3. Listed(tail, 0, Start.index) /\ 0 \in 0 .. Len(tail)
  BY <1>2 DEF Listed
<1>4. Comes(d, tail, 0, Marks(tail) \cup {0}, FullScan(d))
  <2>1. PICK iy : iy = ScanFrom(d, 0)
    OBVIOUS
  <2>2. WholeOf(d, iy)
    <3>1. 0 \in 0 .. Len(d)
      BY <1>2
    <3>2. /\ iy \in Seq(Keys) /\ 0 + Len(iy) <= Len(d)
          /\ \A i \in 1 .. Len(iy) : iy[i] = d[0 + i]
          /\ 0 + Len(iy) < Len(d) => d[0 + Len(iy) + 1] \notin Keys
      BY <2>1, <3>1, ScanFromWhole, Zenon
    <3>3. Len(iy) \in Nat /\ 0 + Len(iy) = Len(iy) /\ \A i \in 1 .. Len(iy) : 0 + i = i
      BY <3>2
    <3> QED BY <3>2, <3>3, Zenon DEF WholeOf
  <2>3. FullScan(d) = [index |-> iy, sidecar |-> 0, durable |-> 0]
    BY <2>1 DEF FullScan, Start
  <2>4. Listed(tail, 0, iy) /\ 0 + 0 = 0
    BY DEF Listed
  <2>5. iy \in Seq(Keys)
    BY <2>2, Zenon DEF WholeOf
  <2> QED BY <1>3, <2>2, <2>3, <2>4, <2>5, Zenon DEF Comes
<1>5. CASE Recover(d, s) # FullScan(d)
  <2>1. /\ s # NoSidecar /\ Recover(d, s) = Advance(Start, d, s)
        /\ Advance(Start, d, s) # Contradiction
    BY <1>5, Zenon DEF Recover
  <2>2. tail = s
    BY <2>1, Zenon
  <2>3. PICK res : res = Advance(Start, d, tail)
    OBVIOUS
  <2>4. TrustedBelow(d, tail, Marks(tail) \cup {0})
    <3>1. Trusted(d, tail, 0)
      <4>1. ASSUME NEW j \in 1 .. Len(tail), tail[j].kind = "entry" PROVE ~(tail[j].off <= 0)
        BY <4>1 DEF SidecarRecs
      <4> QED BY <4>1, Zenon DEF Trusted
    <3> QED BY <3>1, Zenon DEF TrustedBelow
  <2>5. \A m \in Marks(tail) \cup {0} : m <= b
    BY <1>1
  <2>6. /\ Len(Start.index) <= Len(d) /\ Start.durable \in Nat
        /\ \A i \in 1 .. Len(Start.index) : d[i] = Start.index[i]
    BY <1>1, <1>2
  <2>7. Comes(d, tail, Start.sidecar, Marks(tail) \cup {Start.durable}, res)
    <3>1. res # Contradiction
      BY <2>1, <2>2, <2>3, Zenon
    <3>2. /\ TrustedBelow(d, tail, Marks(tail) \cup {Start.durable})
          /\ \A m \in Marks(tail) \cup {Start.durable} : m <= b
      BY <1>1, <2>4, <2>5, Zenon
    <3> HIDE DEF Start
    <3> QED BY <1>2, <2>3, <2>6, <3>1, <3>2, AdvanceSound, Zenon
  <2> QED BY <1>1, <2>1, <2>2, <2>3, <2>7, Zenon
<1> QED BY <1>4, <1>5, Zenon

-----------------------------------------------------------------------------
(* The equations of Missing, for an index of m entries, and that they have *)
(* a solution.                                                             *)
Misses(ix, listed, m, f) ==
    f = [n \in 0 .. m |-> IF n = 0 THEN <<>>
               ELSE IF n \in listed THEN f[n - 1]
               ELSE Append(f[n - 1], Entry(ix[n], n))]

(* Listing what a sidecar misses is well founded. *)
LEMMA MissesExists ==
    ASSUME NEW ix, NEW listed, NEW len \in Nat
    PROVE  \E f : Misses(ix, listed, len, f)
<1> DEFINE Step(f, n) == IF n = 0 THEN <<>>
               ELSE IF n \in listed THEN f[n - 1]
               ELSE Append(f[n - 1], Entry(ix[n], n))
           T == {m \in Nat : ~ \E f : Misses(ix, listed, m, f)}
<1> SUFFICES ASSUME T # {} PROVE FALSE
  BY Zenon
<1>1. PICK m \in T : \A k \in T : m <= k
  <2>1. T \in SUBSET Nat
    BY Zenon
  <2> HIDE DEF T
  <2> QED BY <2>1, LeastNumber, Zenon
<1>2. m \in Nat /\ ~ \E f : Misses(ix, listed, m, f)
  BY Zenon
<1>3. CASE m = 0
  <2> DEFINE g == [n \in 0 .. 0 |-> <<>>]
  <2>1. Misses(ix, listed, 0, g)
    BY DEF Misses
  <2> QED BY <1>2, <1>3, <2>1, Zenon
<1>4. CASE m # 0
  <2>1. m - 1 \in Nat /\ ~(m <= m - 1)
    BY <1>2, <1>4
  <2>2. PICK g : Misses(ix, listed, m - 1, g)
    <3>1. m - 1 \notin T
      BY <1>1, <2>1, Zenon
    <3> QED BY <2>1, <3>1, Zenon
  <2>3. g = [n \in 0 .. m - 1 |-> Step(g, n)]
    BY <2>2, Zenon DEF Misses
  <2> DEFINE h == [n \in 0 .. m |-> IF n = m THEN Step(g, m) ELSE g[n]]
  <2>4. ASSUME NEW n \in 0 .. m PROVE h[n] = Step(h, n)
    <3>1. n \in Nat /\ (n # 0 => h[n - 1] = g[n - 1])
      BY <1>2
    <3>2. h[n] = Step(g, n)
      <4>1. CASE n = m
        BY <4>1
      <4>2. CASE n # m
        <5>1. n \in 0 .. m - 1 /\ h[n] = g[n]
          BY <1>2, <4>2
        <5> QED BY <2>3, <5>1, Zenon
      <4> QED BY <4>1, <4>2
    <3> HIDE DEF h
    <3>3. CASE n = 0
      BY <3>2, <3>3
    <3>4. CASE n # 0
      <4>1. h[n - 1] = g[n - 1]
        BY <3>1, <3>4, Zenon
      <4> QED BY <3>2, <3>4, <4>1, Zenon
    <3> QED BY <3>3, <3>4
  <2>5. Misses(ix, listed, m, h)
    <3> DEFINE e == [n \in 0 .. m |-> Step(h, n)]
    <3>1. \A n \in 0 .. m : h[n] = e[n]
      BY <2>4, Zenon
    <3>2. h = e
      BY <3>1, Zenon
    <3> QED BY <3>2, Zenon DEF Misses
  <2> QED BY <1>2, <2>5, Zenon
<1> QED BY <1>3, <1>4

(* A sequence of entries that an index has. *)
EntriesOf(ix, s) ==
    /\ s \in Seq(SidecarRecs)
    /\ \A j \in 1 .. Len(s) :
          /\ s[j].kind = "entry" /\ s[j].off \in 1 .. Len(ix)
          /\ ix[s[j].off] = s[j].key

(* One more entry of the index. *)
LEMMA EntriesAppend ==
    ASSUME NEW ix \in Seq(Keys), NEW s, EntriesOf(ix, s), NEW n \in 1 .. Len(ix)
    PROVE  EntriesOf(ix, Append(s, Entry(ix[n], n)))
<1> DEFINE e == Entry(ix[n], n)
           t == Append(s, e)
<1>1. s \in Seq(SidecarRecs)
  BY Zenon DEF EntriesOf
<1>2. e \in SidecarRecs /\ e.kind = "entry" /\ e.off = n /\ e.key = ix[n]
  <2>1. ix[n] \in Keys /\ n \in Nat \ {0}
    OBVIOUS
  <2> QED BY <2>1 DEF Entry, SidecarRecs
<1> HIDE DEF e
<1>3. /\ t \in Seq(SidecarRecs) /\ Len(t) = Len(s) + 1 /\ Len(s) \in Nat
      /\ \A j \in 1 .. Len(s) : t[j] = s[j]
      /\ t[Len(s) + 1] = e
  BY <1>1, <1>2, AppendProperties
<1> HIDE DEF t
<1>4. ASSUME NEW j \in 1 .. Len(t)
      PROVE  /\ t[j].kind = "entry" /\ t[j].off \in 1 .. Len(ix)
             /\ ix[t[j].off] = t[j].key
  <2>1. j \in 1 .. Len(s) \/ j = Len(s) + 1
    BY <1>3
  <2>2. CASE j \in 1 .. Len(s)
    BY <1>3, <2>2, Zenon DEF EntriesOf
  <2>3. CASE j = Len(s) + 1
    BY <1>2, <1>3, <2>3, Zenon
  <2> QED BY <2>1, <2>2, <2>3
<1>5. EntriesOf(ix, t)
  BY <1>3, <1>4, Zenon DEF EntriesOf
<1> QED BY <1>5 DEF t, e

(* What Missing lists are entries of the index. *)
LEMMA MissingEntries ==
    ASSUME NEW ix \in Seq(Keys), NEW s
    PROVE  EntriesOf(ix, Missing(ix, s))
<1> DEFINE listed == {r.off : r \in Entries(s)}
           f == CHOOSE g : Misses(ix, listed, Len(ix), g)
           T == {m \in Nat : m <= Len(ix) /\ ~EntriesOf(ix, f[m])}
<1>0. Len(ix) \in Nat /\ Len(ix) <= Len(ix)
  BY LenProperties
<1>1. Missing(ix, s) = f[Len(ix)]
  BY Zenon DEF Missing, Misses
<1> HIDE DEF listed
<1>2. f = [n \in 0 .. Len(ix) |-> IF n = 0 THEN <<>>
               ELSE IF n \in listed THEN f[n - 1]
               ELSE Append(f[n - 1], Entry(ix[n], n))]
  <2>1. Misses(ix, listed, Len(ix), f)
    BY <1>0, MissesExists, Zenon
  <2> QED BY <2>1, Zenon DEF Misses
<1> HIDE DEF f
<1> SUFFICES ASSUME T # {} PROVE FALSE
  BY <1>0, <1>1, Zenon
<1>3. PICK m \in T : \A k \in T : m <= k
  <2>1. T \in SUBSET Nat
    BY Zenon
  <2> HIDE DEF T
  <2> QED BY <2>1, LeastNumber, Zenon
<1>4. m \in Nat /\ m <= Len(ix) /\ ~EntriesOf(ix, f[m]) /\ m \in 0 .. Len(ix)
  BY <1>0
<1>5. CASE m = 0
  <2>1. f[m] = <<>>
    BY <1>2, <1>4, <1>5
  <2>2. EntriesOf(ix, <<>>)
    BY DEF EntriesOf
  <2> QED BY <1>4, <2>1, <2>2, Zenon
<1>6. CASE m # 0
  <2>1. /\ m - 1 \in Nat /\ ~(m <= m - 1) /\ m - 1 <= Len(ix) /\ m > 0
        /\ m \in 1 .. Len(ix)
    BY <1>0, <1>4, <1>6
  <2>2. EntriesOf(ix, f[m - 1])
    <3>1. m - 1 \notin T
      BY <1>3, <2>1, Zenon
    <3> QED BY <2>1, <3>1, Zenon
  <2>3. f[m] = f[m - 1] \/ f[m] = Append(f[m - 1], Entry(ix[m], m))
    BY <1>2, <1>4, <1>6, Zenon
  <2> QED BY <1>4, <2>1, <2>2, <2>3, EntriesAppend, Zenon
<1> QED BY <1>5, <1>6

-----------------------------------------------------------------------------


(* The ranges of a sequence of records appended to, joined and cut. *)
LEMMA RangeAppend ==
    ASSUME NEW S, NEW s \in Seq(S), NEW r \in S
    PROVE  Range(Append(s, r)) = Range(s) \cup {r}
<1>1. /\ Append(s, r) \in Seq(S) /\ Len(Append(s, r)) = Len(s) + 1 /\ Len(s) \in Nat
      /\ \A i \in 1 .. Len(s) : Append(s, r)[i] = s[i]
      /\ Append(s, r)[Len(s) + 1] = r
      /\ DOMAIN s = 1 .. Len(s) /\ DOMAIN Append(s, r) = 1 .. Len(s) + 1
  BY AppendProperties, LenProperties
<1>2. 1 .. Len(s) + 1 = (1 .. Len(s)) \cup {Len(s) + 1}
  BY <1>1
<1> DEFINE u == Append(s, r)
<1> HIDE DEF u
<1>3. ASSUME NEW x \in Range(u) PROVE x \in Range(s) \cup {r}
  <2>1. PICK i \in 1 .. Len(s) + 1 : x = u[i]
    BY <1>1, Zenon DEF Range, u
  <2> QED BY <1>1, <1>2, <2>1, Zenon DEF Range, u
<1>4. ASSUME NEW x \in Range(s) \cup {r} PROVE x \in Range(u)
  <2>1. CASE x \in Range(s)
    BY <1>1, <1>2, <2>1, Zenon DEF Range, u
  <2>2. CASE x = r
    BY <1>1, <1>2, <2>2, Zenon DEF Range, u
  <2> QED BY <2>1, <2>2, Zenon
<1>5. Range(u) = Range(s) \cup {r}
  BY <1>3, <1>4, Zenon
<1> QED BY <1>5 DEF u

(* Two sequences joined hold nothing new. *)
LEMMA RangeConcat ==
    ASSUME NEW S, NEW s \in Seq(S), NEW t \in Seq(S)
    PROVE  Range(s \o t) \subseteq Range(s) \cup Range(t)
<1> DEFINE u == s \o t
<1>1. /\ u \in Seq(S) /\ Len(u) = Len(s) + Len(t) /\ Len(s) \in Nat /\ Len(t) \in Nat
      /\ \A i \in 1 .. Len(u) : u[i] = IF i <= Len(s) THEN s[i] ELSE t[i - Len(s)]
      /\ DOMAIN s = 1 .. Len(s) /\ DOMAIN t = 1 .. Len(t) /\ DOMAIN u = 1 .. Len(u)
  BY ConcatProperties, LenProperties
<1> HIDE DEF u
<1>2. ASSUME NEW i \in 1 .. Len(u) PROVE u[i] \in Range(s) \cup Range(t)
  <2>1. CASE i <= Len(s)
    <3>1. i \in DOMAIN s
      BY <1>1, <2>1
    <3> QED BY <1>1, <2>1, <3>1, Zenon DEF Range
  <2>2. CASE ~(i <= Len(s))
    <3>1. i - Len(s) \in DOMAIN t
      BY <1>1, <2>2
    <3> QED BY <1>1, <2>2, <3>1, Zenon DEF Range
  <2> QED BY <2>1, <2>2
<1>3. Range(u) \subseteq Range(s) \cup Range(t)
  <2>1. ASSUME NEW x \in Range(u) PROVE x \in Range(s) \cup Range(t)
    BY <1>1, <1>2, Zenon DEF Range
  <2> QED BY <2>1, Zenon
<1> QED BY <1>3 DEF u

(* A piece of a sequence holds nothing new. *)
LEMMA RangeSubSeq ==
    ASSUME NEW S, NEW s \in Seq(S), NEW a \in Nat \ {0}, NEW b \in Nat, b <= Len(s)
    PROVE  SubSeq(s, a, b) \in Seq(S) /\ Range(SubSeq(s, a, b)) \subseteq Range(s)
<1> DEFINE u == SubSeq(s, a, b)
<1>1. /\ u \in Seq(S) /\ DOMAIN u = 1 .. Len(u) /\ DOMAIN s = 1 .. Len(s)
      /\ Len(u) = IF a <= b THEN b - a + 1 ELSE 0
      /\ \A i \in 1 .. b - a + 1 : u[i] = s[a + i - 1]
  BY SubSeqProperties, LenProperties
<1> HIDE DEF u
<1>2. ASSUME NEW i \in 1 .. Len(u) PROVE u[i] \in Range(s)
  <2>1. a + i - 1 \in DOMAIN s /\ i \in 1 .. b - a + 1
    BY <1>1
  <2> QED BY <1>1, <2>1, Zenon DEF Range
<1>3. Range(u) \subseteq Range(s)
  <2>1. ASSUME NEW x \in Range(u) PROVE x \in Range(s)
    BY <1>1, <1>2, Zenon DEF Range
  <2> QED BY <2>1, Zenon
<1> QED BY <1>1, <1>3 DEF u

(* An empty sequence holds nothing. *)
LEMMA EmptyRange == Range(<<>>) = {}
<1>1. DOMAIN <<>> = {}
  OBVIOUS
<1> QED BY <1>1, Zenon DEF Range

(* What a sequence holds is of its type. *)
LEMMA RangeElement ==
    ASSUME NEW S, NEW s \in Seq(S), NEW r \in Range(s)
    PROVE  r \in S
BY DEF Range

-----------------------------------------------------------------------------
(* What every step but a power loss keeps: the records that are on the     *)
(* disk for good, and those that lie before the first thing that is none.  *)
KeepsGood ==
    \A n \in Nat : Good(n) => Good(n)' /\ \A i \in 1 .. n : data'[i] = data[i]
KeepsRecords == \A ix \in Seq(Keys) : Agrees(ix) => Agrees(ix)'

(* The items of a data file are what recovery finds in one. *)
LEMMA DataType ==
    ASSUME FileTypes
    PROVE  /\ data \in Seq(Items) /\ Len(data) \in Nat /\ DOMAIN data = 1 .. Len(data)
           /\ durable \in Nat /\ durable <= Len(data)
BY DEF FileTypes, Items

(* A step that leaves the file alone keeps what is good in it. *)
LEMMA FileUnchanged ==
    ASSUME UNCHANGED file
    PROVE  KeepsGood /\ KeepsRecords
BY Zenon DEF file, KeepsGood, KeepsRecords, Good, Agrees

(* A step that may make more of the file durable and may lose pages behind *)
(* what is.                                                                *)
LEMMA FileSynced ==
    ASSUME FileTypes, data' = data, durable' \in Nat, durable <= durable',
           dropped' \subseteq dropped \cup (durable + 1 .. Len(data))
    PROVE  KeepsGood /\ KeepsRecords
<1>1. KeepsRecords
  BY Zenon DEF KeepsRecords, Agrees
<1>2. ASSUME NEW n \in Nat, Good(n) PROVE Good(n)' /\ \A i \in 1 .. n : data'[i] = data[i]
  <2>1. n <= durable /\ \A i \in 1 .. n : i \notin dropped /\ data[i] \in Keys
    BY <1>2, Zenon DEF Good
  <2>2. n <= durable'
    BY <2>1, DataType
  <2>3. \A i \in 1 .. n : i \notin durable + 1 .. Len(data)
    BY <2>1, DataType
  <2> QED BY <2>1, <2>2, <2>3, Zenon DEF Good
<1> QED BY <1>1, <1>2, Zenon DEF KeepsGood

(* No more than Size of the bytes are records from the first on. *)
LEMMA WholeBounds ==
    ASSUME FileTypes, NEW ix \in Seq(Keys), Whole(ix), NEW n \in Nat, n <= Len(data),
           \A i \in 1 .. n : data[i] \in Keys
    PROVE  n <= Len(ix)
<1>1. Len(ix) \in Nat /\ Len(data) \in Nat
  BY DataType
<1> SUFFICES ASSUME Len(ix) < n PROVE FALSE
  BY <1>1
<1>2. Len(ix) + 1 \in 1 .. n /\ Len(ix) < Len(data)
  BY <1>1
<1> QED BY <1>2, Zenon DEF Whole

(* The bytes behind a whole index replaced by others: Overwrite, and what  *)
(* the next owner cuts off.                                                *)
LEMMA FileRewritten ==
    ASSUME FileTypes, NEW ix \in Seq(Keys), Whole(ix), NEW rest \in Seq(Items),
           data' = SubSeq(data, 1, Len(ix)) \o rest,
           durable' \in Nat, Min2(durable, Len(ix)) <= durable',
           dropped' \subseteq (dropped \cap 1 .. Len(ix)) \cup (durable + 1 .. Len(ix))
    PROVE  /\ KeepsGood /\ KeepsRecords
           /\ data' \in Seq(Items) /\ Len(data') = Len(ix) + Len(rest)
           /\ \A i \in 1 .. Len(ix) : data'[i] = ix[i]
           /\ \A i \in 1 .. Len(rest) : data'[Len(ix) + i] = rest[i]
<1> DEFINE n == Len(ix)
           kept == SubSeq(data, 1, n)
<1>1. n \in Nat /\ n <= Len(data) /\ \A i \in 1 .. n : data[i] = ix[i]
  <2>1. DOMAIN ix = 1 .. n /\ n \in Nat
    OBVIOUS
  <2> QED BY <2>1, Zenon DEF Whole, Agrees
<1>2. Len(data) \in Nat /\ data \in Seq(Items) /\ durable \in Nat /\ Len(rest) \in Nat
  BY DataType
<1>3. kept \in Seq(Items) /\ Len(kept) = n /\ \A i \in 1 .. n : kept[i] = data[i]
  BY <1>1, <1>2, SubSeqProperties
<1> HIDE DEF kept, n
<1>4. /\ data' \in Seq(Items) /\ Len(data') = n + Len(rest)
      /\ \A i \in 1 .. Len(data') : data'[i] = IF i <= n THEN kept[i] ELSE rest[i - n]
  BY <1>3, ConcatProperties DEF kept, n
<1>5. ASSUME NEW i \in 1 .. n PROVE data'[i] = data[i] /\ data'[i] = ix[i]
  <2>1. i \in 1 .. Len(data') /\ i <= n
    BY <1>1, <1>2, <1>4
  <2>2. data'[i] = kept[i]
    BY <1>4, <2>1, Zenon
  <2> QED BY <1>1, <1>3, <2>2, Zenon
<1>6. ASSUME NEW i \in 1 .. Len(rest) PROVE data'[n + i] = rest[i]
  <2>1. n + i \in 1 .. Len(data') /\ ~(n + i <= n) /\ n + i - n = i
    BY <1>1, <1>2, <1>4
  <2>2. PICK k : k = n + i
    BY Zenon
  <2>3. data'[k] = rest[k - n]
    BY <1>4, <2>1, <2>2, Zenon
  <2>4. k - n = i
    BY <1>1, <2>2
  <2> QED BY <2>2, <2>3, <2>4, Zenon
<1>7. ASSUME NEW m \in Nat, m <= Len(data), \A i \in 1 .. m : data[i] \in Keys
      PROVE  m <= n /\ \A i \in 1 .. m : i \in 1 .. n /\ data'[i] = data[i]
  <2>1. m <= n
    BY <1>7, WholeBounds, Zenon DEF n
  <2>2. \A i \in 1 .. m : i \in 1 .. n
    BY <1>1, <2>1
  <2> QED BY <1>5, <2>1, <2>2, Zenon
<1>8. ASSUME NEW m \in Nat, Good(m) PROVE Good(m)' /\ \A i \in 1 .. m : data'[i] = data[i]
  <2>1. m <= durable /\ \A i \in 1 .. m : i \notin dropped /\ data[i] \in Keys
    BY <1>8, Zenon DEF Good
  <2>2. m <= Len(data)
    BY <1>2, <2>1, DataType
  <2>3. m <= n /\ \A i \in 1 .. m : i \in 1 .. n /\ data'[i] = data[i]
    BY <1>7, <2>1, <2>2, Zenon
  <2>4. m <= durable'
    BY <1>1, <1>2, <2>1, <2>3 DEF Min2, n
  <2>5. \A i \in 1 .. m : i \notin durable + 1 .. n
    BY <1>2, <2>1
  <2>6. \A i \in 1 .. m : i \notin dropped'
    BY <2>1, <2>5, Zenon DEF n
  <2> QED BY <2>1, <2>3, <2>4, <2>6, Zenon DEF Good
<1>9. ASSUME NEW iy \in Seq(Keys), Agrees(iy) PROVE Agrees(iy)'
  <2>1. Len(iy) \in Nat /\ DOMAIN iy = 1 .. Len(iy) /\ \A i \in 1 .. Len(iy) : iy[i] \in Keys
    OBVIOUS
  <2>2. Len(iy) <= Len(data) /\ \A i \in 1 .. Len(iy) : data[i] = iy[i] /\ data[i] \in Keys
    BY <1>9, <2>1, Zenon DEF Agrees
  <2>3. Len(iy) <= n /\ \A i \in 1 .. Len(iy) : data'[i] = data[i]
    BY <1>7, <2>1, <2>2, Zenon
  <2>4. Len(iy) <= Len(data')
    BY <1>1, <1>2, <1>4, <2>1, <2>3
  <2> QED BY <2>1, <2>2, <2>3, <2>4, Zenon DEF Agrees
<1> QED BY <1>4, <1>5, <1>6, <1>8, <1>9, Zenon DEF KeepsGood, KeepsRecords, n

-----------------------------------------------------------------------------
(* The sidecar's side of the invariant.                                    *)

(* The records of a sidecar are records of one. *)
LEMMA RecordsType ==
    ASSUME NEW s \in Sidecars
    PROVE  Records(s) \in Seq(SidecarRecs)
BY Zenon, EmptySeq DEF Records, Sidecars

(* An entry of a sidecar is of its type. *)
LEMMA EntryType ==
    ASSUME NEW s \in Seq(SidecarRecs), NEW r \in Entries(s)
    PROVE  /\ r \in Range(s) /\ r.kind = "entry" /\ r.off \in Nat \ {0} /\ r.key \in Keys
<1>1. r \in Range(s) /\ r.kind = "entry"
  BY Zenon DEF Entries
<1>2. r \in SidecarRecs
  BY <1>1, RangeElement, Zenon
<1> QED BY <1>1, <1>2 DEF SidecarRecs

(* What entries below marks are trusted for stays so, as long as the marks *)
(* are of what is on the disk for good.                                    *)
LEMMA TrustKept ==
    ASSUME KeepsGood, NEW s \in Seq(SidecarRecs), NEW marks \in SUBSET Nat,
           \A m \in marks : Good(m), Trusts(s, marks)
    PROVE  Trusts(s, marks)' /\ \A m \in marks : Good(m)'
<1>1. \A m \in marks : Good(m)' /\ \A i \in 1 .. m : data'[i] = data[i]
  BY Zenon DEF KeepsGood
<1>2. ASSUME NEW r \in Entries(s), NEW m \in marks, r.off <= m
      PROVE  data'[r.off] = r.key
  <2>1. r.off \in Nat \ {0} /\ m \in Nat
    BY EntryType, Zenon
  <2>2. r.off \in 1 .. m
    BY <1>2, <2>1
  <2>3. data[r.off] = r.key
    BY <1>2, Zenon DEF Trusts
  <2> QED BY <1>1, <2>2, <2>3, Zenon
<1> QED BY <1>1, <1>2, Zenon DEF Trusts

(* Fewer records and fewer marks are trusted as well. *)
LEMMA TrustLess ==
    ASSUME NEW s, NEW marks, Trusts(s, marks), NEW t, NEW less,
           Range(t) \subseteq Range(s), less \subseteq marks
    PROVE  Trusts(t, less)
BY Zenon DEF Trusts, Entries

(* Fewer records hold fewer marks. *)
LEMMA MarksLess ==
    ASSUME NEW s, NEW t, Range(t) \subseteq Range(s)
    PROVE  Marks(t) \subseteq Marks(s)
BY Zenon DEF Marks

(* The sidecar and what is left of one, of a view nothing changed in. *)
StaleInv ==
    /\ \A m \in Marks(Records(stale)) : Good(m)
    /\ Trusts(Records(stale), Marks(Records(stale)))
CarInv ==
    /\ \A m \in Marks(Records(sidecar)) : Good(m)
    /\ Trusts(Records(sidecar), Marks(Records(sidecar)) \cup ViewMarks)
ViewInv ==
    /\ \A m \in ViewMarks : Good(m)
    /\ Trusts(Records(view.tail), ViewMarks)

(* The invariant of the sidecar is that of its three copies. *)
LEMMA SidecarParts == SidecarInv <=> StaleInv /\ CarInv /\ ViewInv
BY Zenon DEF SidecarInv, StaleInv, CarInv, ViewInv

(* What a reader has seen of the sidecar is of its type. *)
LEMMA ViewMarksType ==
    ASSUME ViewTypes
    PROVE  /\ ViewMarks \in SUBSET Nat /\ view.at.durable \in Nat
           /\ view.tail \in Sidecars /\ Records(view.tail) \in Seq(SidecarRecs)
           /\ view.at.index \in Seq(Keys) /\ view.at.sidecar \in Nat
<1>1. view.at \in Scans /\ view.tail \in Sidecars
  BY DEF ViewTypes
<1>2. view.at.durable \in Nat /\ view.at.index \in Seq(Keys) /\ view.at.sidecar \in Nat
  BY <1>1 DEF Scans
<1> QED BY <1>1, <1>2, RecordsType, MarksType, Zenon DEF ViewMarks

(* Nothing written to a sidecar or a view. *)
LEMMA StaleKept ==
    ASSUME FileTypes, KeepsGood, StaleInv, stale' = stale
    PROVE  StaleInv'
<1>1. Records(stale) \in Seq(SidecarRecs)
  BY RecordsType, Zenon DEF FileTypes
<1>2. Marks(Records(stale)) \in SUBSET Nat
  BY <1>1, MarksType, Zenon
<1>3. PICK s, marks : s = Records(stale) /\ marks = Marks(Records(stale))
  BY Zenon
<1>4. Trusts(s, marks)' /\ \A m \in marks : Good(m)'
  BY <1>1, <1>2, <1>3, TrustKept, Zenon DEF StaleInv
<1>5. s = Records(stale)' /\ marks = Marks(Records(stale))'
  BY <1>3, Zenon DEF Records
<1> QED BY <1>4, <1>5, Zenon DEF StaleInv, Trusts

(* What a reader believes stays true while the file keeps what is good. *)
LEMMA ViewKept ==
    ASSUME ViewTypes, KeepsGood, ViewInv, view' = view
    PROVE  ViewInv'
<1>1. /\ ViewMarks \in SUBSET Nat /\ Records(view.tail) \in Seq(SidecarRecs)
  BY ViewMarksType, Zenon
<1>2. PICK s, marks : s = Records(view.tail) /\ marks = ViewMarks
  BY Zenon
<1>3. Trusts(s, marks)' /\ \A m \in marks : Good(m)'
  BY <1>1, <1>2, TrustKept, Zenon DEF ViewInv
<1>4. s = Records(view.tail)' /\ marks = ViewMarks'
  BY <1>2, Zenon DEF Records, ViewMarks
<1> QED BY <1>3, <1>4, Zenon DEF ViewInv, Trusts

(* So does what the sidecar says. *)
LEMMA CarKept ==
    ASSUME FileTypes, ViewTypes, KeepsGood, CarInv, ViewInv, UNCHANGED <<sidecar, view>>
    PROVE  CarInv'
<1>1. Records(sidecar) \in Seq(SidecarRecs) /\ ViewMarks \in SUBSET Nat
  BY RecordsType, ViewMarksType, Zenon DEF FileTypes
<1>2. PICK s, marks, more : s = Records(sidecar) /\ marks = Marks(s) /\ more = marks \cup ViewMarks
  BY Zenon
<1>3. marks \in SUBSET Nat
  BY <1>1, <1>2, MarksType, Zenon
<1>4. more \in SUBSET Nat /\ \A m \in more : Good(m)
  BY <1>1, <1>2, <1>3, Zenon DEF CarInv, ViewInv
<1>5. Trusts(s, more)' /\ \A m \in more : Good(m)'
  BY <1>1, <1>2, <1>4, TrustKept, Zenon DEF CarInv
<1>6. s = Records(sidecar)' /\ marks = Marks(Records(sidecar))' /\ more = marks \cup ViewMarks'
  BY <1>2, Zenon DEF Records, ViewMarks
<1>7. \A m \in marks : Good(m)'
  BY <1>2, <1>5, Zenon
<1> QED BY <1>5, <1>6, <1>7, Zenon DEF CarInv, Trusts

(* And so do all copies of it together. *)
LEMMA SidecarKept ==
    ASSUME FileTypes, ViewTypes, KeepsGood, SidecarInv, UNCHANGED <<sidecar, stale, view>>
    PROVE  SidecarInv'
<1>1. StaleInv' /\ CarInv' /\ ViewInv'
  BY SidecarParts, StaleKept, CarKept, ViewKept, Zenon
<1> QED BY <1>1, Zenon DEF SidecarInv, StaleInv, CarInv, ViewInv

(* The sidecar removed. *)
LEMMA NoMarks == Marks(Records(NoSidecar)) = {} /\ Entries(Records(NoSidecar)) = {}
<1>1. Records(NoSidecar) = <<>>
  BY Zenon DEF Records
<1> QED BY <1>1, EmptyRange, Zenon DEF Marks, Entries

(* A sidecar that lists nothing the data does not hold, and whose marks    *)
(* are of what is on the disk for good.                                    *)
LEMMA CarWritten ==
    ASSUME KeepsGood, UNCHANGED <<data, view>>, NEW ix, Agrees(ix),
           DOMAIN ix = 1 .. Len(ix), Len(ix) \in Nat,
           Records(sidecar') \in Seq(SidecarRecs),
           Lists(Records(sidecar'), ix), \A m \in Marks(Records(sidecar')) : Good(m)',
           ViewInv
    PROVE  CarInv'
<1>1. ASSUME NEW r \in Entries(Records(sidecar')) PROVE data'[r.off] = r.key
  <2>1. r.off <= Len(ix) /\ ix[r.off] = r.key
    BY Zenon DEF Lists
  <2>2. r.off \in 1 .. Len(ix)
    <3>1. r.off \in Nat \ {0}
      BY EntryType, Zenon
    <3> QED BY <2>1, <3>1
  <2> QED BY <2>1, <2>2, Zenon DEF Agrees
<1>2. Records(sidecar') = Records(sidecar)'
  BY Zenon DEF Records
<1> QED BY <1>1, <1>2, Zenon DEF CarInv, Trusts

-----------------------------------------------------------------------------
(* What is safe stays so. *)
LEMMA SafeKept ==
    ASSUME FileTypes, KeepsGood
    PROVE  Safe \subseteq Safe'
<1> SUFFICES ASSUME NEW k \in Safe PROVE k \in Safe'
  BY Zenon
<1>1. PICK i \in 1 .. durable : k = data[i] /\ \A j \in 1 .. i : data[j] \in Keys /\ j \notin dropped
  BY Zenon DEF Safe
<1>2. i \in Nat /\ i <= durable /\ i \in 1 .. i
  BY DataType
<1>3. Good(i)
  BY <1>1, <1>2, Zenon DEF Good
<1>4. Good(i)' /\ \A j \in 1 .. i : data'[j] = data[j]
  BY <1>2, <1>3, Zenon DEF KeepsGood
<1>5. i <= durable' /\ \A j \in 1 .. i : data'[j] \in Keys /\ j \notin dropped'
  BY <1>4, Zenon DEF Good
<1>6. i \in 1 .. durable'
  BY <1>2, <1>5
<1> QED BY <1>1, <1>2, <1>4, <1>5, <1>6, Zenon DEF Safe

(* The owner's index is a sequence of keys of the size it counts. *)
LEMMA OwnTyped ==
    ASSUME OwnerTypes
    PROVE  /\ own.index \in Seq(Keys) /\ Size \in Nat /\ DOMAIN own.index = 1 .. Size
           /\ own.due \subseteq Keys /\ own.kept \in Nat
<1>1. own.index \in Seq(Keys) /\ own.due \subseteq Keys /\ own.kept \in Nat
  BY DEF OwnerTypes, Owners
<1> QED BY <1>1 DEF Size

(* An owner at work on an active segment with no fsync failed. *)
LEMMA Running ==
    ASSUME FileInv, ~At("none"), ~At("dirsync"), ~own.failed
    PROVE  dropped = {} /\ name # "sealed" /\ ~renamed
BY Zenon DEF FileInv, At

(* Write(k, op) sets these fields of the owner. *)
LEMMA WriteOwn ==
    ASSUME OwnerTypes, NEW k \in Keys, NEW op, op \in {"put", "batch"},
           own' = [own EXCEPT !.pc = "entry", !.op = op, !.index = Append(@, k),
                              !.due = {k}, !.dirty = TRUE]
    PROVE  /\ own'.pc = "entry" /\ own'.op = op /\ own'.index = Append(own.index, k)
           /\ own'.due = {k} /\ own'.dirty = TRUE /\ own'.sync = own.sync
           /\ own'.writes = own.writes /\ own'.failed = own.failed
           /\ own'.kept = own.kept /\ own'.tail = own.tail
           /\ OwnerTypes'
<1>1. own.index \in Seq(Keys)
  BY OwnTyped, Zenon
<1>2. Append(own.index, k) \in Seq(Keys)
  BY <1>1
<1>3. OwnerTypes'
  BY <1>2, Zenon DEF OwnerTypes, Owners
<1>4. /\ own'.pc = "entry" /\ own'.op = op /\ own'.index = Append(own.index, k)
      /\ own'.due = {k} /\ own'.dirty = TRUE /\ own'.sync = own.sync
      /\ own'.writes = own.writes /\ own'.failed = own.failed
      /\ own'.kept = own.kept /\ own'.tail = own.tail
  BY Zenon DEF OwnerTypes, Owners
<1> QED BY <1>3, <1>4

(* What an index lists, a longer one does. *)
LEMMA ListsMore ==
    ASSUME NEW s \in Seq(SidecarRecs), NEW ix \in Seq(Keys), NEW k \in Keys, Lists(s, ix)
    PROVE  Lists(s, Append(ix, k))
<1> DEFINE iy == Append(ix, k)
<1>1. /\ Len(iy) = Len(ix) + 1 /\ Len(ix) \in Nat
      /\ \A i \in 1 .. Len(ix) : iy[i] = ix[i]
  BY AppendProperties
<1> HIDE DEF iy
<1>2. ASSUME NEW r \in Entries(s) PROVE r.off <= Len(iy) /\ iy[r.off] = r.key
  <2>1. r.off \in Nat \ {0}
    BY EntryType, Zenon
  <2>2. r.off <= Len(ix) /\ ix[r.off] = r.key
    BY Zenon DEF Lists
  <2>3. r.off \in 1 .. Len(ix) /\ r.off <= Len(iy)
    BY <1>1, <2>1, <2>2
  <2> QED BY <1>1, <2>2, <2>3, Zenon
<1>3. Lists(s, iy)
  BY <1>2, Zenon DEF Lists
<1> QED BY <1>3 DEF iy

(* The parts of the invariant, and a step that leaves the view alone. *)
LEMMA Parts ==
    ASSUME IInv
    PROVE  /\ FileTypes /\ OwnerTypes /\ ViewTypes /\ SidecarInv /\ OwnInv /\ StepInv
           /\ FileInv /\ Agrees(view.at.index) /\ acked \subseteq Safe
           /\ StaleInv /\ CarInv /\ ViewInv
BY SidecarParts, Zenon DEF IInv, TypeOK

(* A reader's index stays right while the file keeps its records. *)
LEMMA ViewStays ==
    ASSUME ViewTypes, Agrees(view.at.index), KeepsRecords, view' = view
    PROVE  ViewTypes' /\ Agrees(view.at.index)'
<1>1. view.at.index \in Seq(Keys)
  BY ViewMarksType, Zenon
<1>2. PICK ix : ix = view.at.index
  BY Zenon
<1>3. Agrees(ix)' /\ ix = view'.at.index
  BY <1>1, <1>2, Zenon DEF KeepsRecords
<1> QED BY <1>3, Zenon DEF ViewTypes, Agrees

(* The invariant after a step of the owner, from what it did; it           *)
(* acknowledges no more than is safe.                                      *)
LEMMA AckStep ==
    ASSUME IInv, KeepsGood, KeepsRecords, view' = view, acked' \subseteq acked \cup Safe',
           FileTypes', OwnerTypes', SidecarInv', OwnInv', StepInv', FileInv'
    PROVE  IInv'
<1>1. ViewTypes' /\ Agrees(view.at.index)'
  BY Parts, ViewStays, Zenon
<1>2. acked' \subseteq Safe'
  BY Parts, SafeKept, Zenon
<1> QED BY <1>1, <1>2, Zenon DEF IInv, TypeOK

(* A step of the owner preserves the invariant when each part of it does. *)
LEMMA OwnerStep ==
    ASSUME IInv, KeepsGood, KeepsRecords, UNCHANGED <<view, acked>>,
           FileTypes', OwnerTypes', SidecarInv', OwnInv', StepInv', FileInv'
    PROVE  IInv'
<1>1. view' = view /\ acked' \subseteq acked \cup Safe'
  BY Zenon
<1> QED BY <1>1, AckStep, Zenon

(* What Overwrite, by a running owner, does to the file. *)
LEMMA OverwriteFile ==
    ASSUME IInv, Open, ~At("dirsync"), ~own.failed, NEW rest \in Seq(Items), Overwrite(Size, rest)
    PROVE  /\ KeepsGood /\ KeepsRecords
           /\ data' \in Seq(Items) /\ Len(data') = Size + Len(rest)
           /\ \A i \in 1 .. Size : data'[i] = own.index[i]
           /\ \A i \in 1 .. Len(rest) : data'[Size + i] = rest[i]
           /\ durable' \in 0 .. Len(data') /\ (Size <= durable => Size <= durable')
           /\ dropped' = {} /\ name # "sealed" /\ ~renamed
<1>1. /\ FileTypes /\ own.index \in Seq(Keys) /\ Whole(own.index) /\ Size \in Nat
      /\ FileInv /\ ~At("none")
  BY Parts, OwnTyped, Zenon DEF OwnInv, Open
<1>2. dropped = {} /\ name # "sealed" /\ ~renamed
  BY <1>1, Running, Zenon
<1>3. /\ data' = SubSeq(data, 1, Size) \o rest
      /\ durable' = Min2(durable, Size) /\ dropped' = {}
  BY <1>2, Zenon DEF Overwrite
<1>4. durable \in Nat /\ Len(rest) \in Nat
  BY <1>1, DataType
<1>5. /\ durable' \in Nat /\ Min2(durable, Size) <= durable' /\ durable' <= Size
      /\ Size <= durable => Size <= durable'
  BY <1>1, <1>3, <1>4 DEF Min2
<1>6. /\ KeepsGood /\ KeepsRecords
      /\ data' \in Seq(Items) /\ Len(data') = Size + Len(rest)
      /\ \A i \in 1 .. Size : data'[i] = own.index[i]
      /\ \A i \in 1 .. Len(rest) : data'[Size + i] = rest[i]
  BY <1>1, <1>3, <1>5, FileRewritten, Zenon DEF Size
<1>7. durable' \in 0 .. Len(data')
  BY <1>1, <1>4, <1>5, <1>6
<1> QED BY <1>2, <1>3, <1>5, <1>6, <1>7, Zenon

(* A key is no footer. *)
LEMMA KeyKinds ==
    ASSUME NEW k \in Keys
    PROVE  k # Footer /\ k # Bad /\ k # Torn
BY KeysAssumption, Zenon

(* A sequence of one item. *)
LEMMA OneItem ==
    ASSUME NEW x \in Items
    PROVE  <<x>> \in Seq(Items) /\ Len(<<x>>) = 1 /\ <<x>>[1] = x /\ 1 \in 1 .. 1
OBVIOUS

(* Without a footer in it the file is not sealed. *)
LEMMA NoFooterFile ==
    ASSUME data' \in Seq(Items), \A i \in 1 .. Len(data') : data'[i] # Footer,
           dropped' = {} \/ (name = "active" /\ own'.pc = "none"),
           name # "sealed", ~renamed, UNCHANGED names, own'.pc # "dirsync"
    PROVE  FileInv' /\ ~EndsIn(data', {Footer})
<1>1. \A i \in 1 .. Len(data') - 1 : i \in 1 .. Len(data')
  OBVIOUS
<1>2. ~EndsIn(data', {Footer})
  <2> SUFFICES ASSUME data' # <<>> PROVE data'[Len(data')] # Footer
    BY Zenon DEF EndsIn
  <2>1. Len(data') \in 1 .. Len(data')
    OBVIOUS
  <2> QED BY <2>1, Zenon
<1>3. name' # "sealed" /\ ~renamed' /\ name' = name
  BY Zenon DEF names
<1>4. ~EndsIn(data, {Footer})'
  BY <1>2, Zenon DEF EndsIn
<1> QED BY <1>1, <1>2, <1>3, <1>4, Zenon DEF FileInv, At

(* Appending a record preserves the invariant (Active::write). *)
LEMMA WriteStep ==
    ASSUME IInv, NEW k \in Keys, NEW op \in {"put", "batch"}, Write(k, op)
    PROVE  IInv'
<1>1. /\ FileTypes /\ OwnerTypes /\ ViewTypes /\ SidecarInv /\ OwnInv /\ StepInv /\ FileInv
      /\ own.index \in Seq(Keys) /\ Size \in Nat /\ DOMAIN own.index = 1 .. Size
  BY Parts, OwnTyped, Zenon
<1>2. /\ own.pc = "idle" /\ ~own.failed /\ Overwrite(Size, <<k>>)
      /\ UNCHANGED <<indexed, sidecar, stale, name, renamed, view, acked>>
  BY Zenon DEF Write, At, index, names
<1>3. Open /\ ~At("dirsync") /\ ~own.tail
  BY <1>1, <1>2, Zenon DEF Open, StepInv, At
<1>4. k \in Items /\ <<k>> \in Seq(Items) /\ Len(<<k>>) = 1 /\ <<k>>[1] = k /\ 1 \in 1 .. 1
  BY OneItem, Zenon DEF Items
<1>5. /\ KeepsGood /\ KeepsRecords
      /\ data' \in Seq(Items) /\ Len(data') = Size + 1
      /\ \A i \in 1 .. Size : data'[i] = own.index[i]
      /\ data'[Size + 1] = k
      /\ durable' \in 0 .. Len(data')
      /\ dropped' = {} /\ name # "sealed" /\ ~renamed
  BY <1>2, <1>3, <1>4, OverwriteFile, Zenon
<1>6. /\ own'.pc = "entry" /\ own'.op = op /\ own'.index = Append(own.index, k)
      /\ own'.due = {k} /\ own'.dirty = TRUE /\ own'.writes = own.writes
      /\ own'.failed = own.failed /\ own'.tail = own.tail
      /\ OwnerTypes'
  BY <1>1, WriteOwn, Zenon DEF Write
<1>7. /\ Len(own'.index) = Size + 1 /\ DOMAIN own'.index = 1 .. Size + 1
      /\ \A i \in 1 .. Size : own'.index[i] = own.index[i]
      /\ own'.index[Size + 1] = k /\ Size + 1 \in Nat /\ Size + 1 > 0
  BY <1>1, <1>6, AppendProperties DEF Size
<1>8. ASSUME NEW i \in 1 .. Size + 1 PROVE data'[i] = own'.index[i] /\ data'[i] \in Keys
  <2>1. i \in 1 .. Size \/ i = Size + 1
    BY <1>1
  <2>2. i \in 1 .. Size => own.index[i] \in Keys
    BY <1>1
  <2> QED BY <1>5, <1>7, <2>1, <2>2, Zenon
<1>9. FileTypes'
  <2>1. data' \in Seq(Keys \cup {Bad, Torn, Footer})
    BY <1>5, Zenon DEF Items
  <2> QED BY <1>1, <1>2, <1>5, <2>1, Zenon DEF FileTypes
<1>10. SidecarInv'
  BY <1>1, <1>2, <1>5, SidecarKept, Zenon
<1>11. OwnInv'
  <2>1. Whole(own.index)'
    <3>1. Len(own'.index) <= Len(data') /\ ~(Len(own'.index) < Len(data'))
      BY <1>5, <1>7
    <3> QED BY <1>7, <1>8, <3>1, Zenon DEF Whole, Agrees
  <2>2. own'.due \subseteq Range(own'.index)
    <3>1. Size + 1 \in DOMAIN own'.index
      BY <1>1, <1>7
    <3> QED BY <1>6, <1>7, <3>1, Zenon DEF Range
  <2>3. own'.writes => sidecar' # NoSidecar /\ Lists(sidecar', own'.index)
    <3>1. SUFFICES ASSUME own'.writes PROVE sidecar' # NoSidecar /\ Lists(sidecar', own'.index)
      BY Zenon
    <3>2. sidecar # NoSidecar /\ Lists(sidecar, own.index)
      BY <1>1, <1>6, <3>1, Zenon DEF OwnInv
    <3>3. sidecar \in Seq(SidecarRecs)
      BY <1>1, <3>2, Zenon DEF FileTypes, Sidecars
    <3> QED BY <1>1, <1>2, <1>6, <3>2, <3>3, ListsMore, Zenon
  <2>4. (Open)' /\ ~At("sidecar")' /\ ~own'.tail
    BY <1>3, <1>6, Zenon DEF Open, At
  <2> QED BY <1>6, <2>1, <2>2, <2>3, <2>4, Zenon DEF OwnInv, Lists
<1>12. StepInv'
  BY <1>2, <1>3, <1>6, <1>7, Zenon DEF StepInv, At, Size
<1>13. FileInv'
  <2>1. \A i \in 1 .. Len(data') : data'[i] # Footer
    BY <1>5, <1>8, KeyKinds, Zenon
  <2>2. UNCHANGED names /\ own'.pc # "dirsync"
    BY <1>2, <1>6, Zenon DEF names
  <2> QED BY <1>5, <2>1, <2>2, NoFooterFile, Zenon
<1> QED BY <1>2, <1>5, <1>6, <1>9, <1>10, <1>11, <1>12, <1>13, OwnerStep, Zenon

(* The fields of the owner that an operation's steps leave alone. *)
SameWriter ==
    /\ own'.sync = own.sync /\ own'.index = own.index /\ own'.writes = own.writes
    /\ own'.dirty = own.dirty /\ own'.kept = own.kept /\ own'.tail = own.tail

(* The owner goes on to another step of its call. *)
LEMMA GotoOwn ==
    ASSUME OwnerTypes, NEW pc \in {"none", "idle", "entry", "fsync", "mark", "footer",
               "sealsync", "rename", "dirsync", "close", "sidecar"}, Goto(pc)
    PROVE  /\ OwnerTypes' /\ SameWriter /\ own'.pc = pc /\ own'.op = own.op
           /\ own'.failed = own.failed /\ own'.due = own.due
BY Zenon DEF OwnerTypes, Owners, Goto, SameWriter

(* The owner returns from its call. *)
LEMMA ReturnsOwn ==
    ASSUME OwnerTypes, Returns
    PROVE  /\ OwnerTypes' /\ SameWriter /\ own'.pc = "idle" /\ own'.op = "none"
           /\ own'.failed = own.failed /\ own'.due = {}
BY Zenon DEF OwnerTypes, Owners, Returns, SameWriter

(* The owner gives its segment up. *)
LEMMA FailsOwn ==
    ASSUME OwnerTypes, Fails
    PROVE  /\ OwnerTypes' /\ SameWriter /\ own'.pc = "idle" /\ own'.op = "none"
           /\ own'.failed = TRUE /\ own'.due = {}
BY Zenon DEF OwnerTypes, Owners, Fails, SameWriter

(* The owner is gone. *)
LEMMA NobodyOwn ==
    ASSUME own' = Nobody
    PROVE  /\ OwnerTypes' /\ own'.pc = "none" /\ own'.op = "none" /\ own'.index = <<>>
           /\ ~own'.writes /\ ~own'.failed /\ ~own'.tail /\ own'.due = {}
<1>1. <<>> \in Seq(Keys) /\ 0 \in Nat
  OBVIOUS
<1>2. OwnerTypes'
  BY <1>1, Zenon DEF OwnerTypes, Owners, Nobody
<1> QED BY <1>2, Zenon DEF Nobody

(* The owner's side of the invariant when nobody has the segment. *)
LEMMA NobodyInv ==
    ASSUME own' = Nobody
    PROVE  OwnerTypes' /\ OwnInv' /\ StepInv' /\ ~(Open)' /\ At("none")'
<1>1. /\ OwnerTypes' /\ own'.pc = "none" /\ own'.op = "none" /\ own'.index = <<>>
      /\ ~own'.writes /\ ~own'.failed /\ ~own'.tail /\ own'.due = {}
  BY NobodyOwn, Zenon
<1>2. ~(Open)' /\ At("none")'
  BY <1>1, Zenon DEF Open, At
<1>3. OwnInv'
  BY <1>1, <1>2, Zenon DEF OwnInv, At
<1>4. StepInv'
  BY <1>1, Zenon DEF StepInv, At
<1> QED BY <1>1, <1>2, <1>3, <1>4

(* Something that is no record, or nothing, behind the owner's index: the  *)
(* index is whole still.                                                   *)
LEMMA OwnOverwritten ==
    ASSUME IInv, Open, ~At("dirsync"), ~At("sidecar"), ~own.failed,
           NEW rest \in Seq(Items), Overwrite(Size, rest),
           Len(rest) = 0 \/ rest[1] \notin Keys,
           SameWriter, own'.due \subseteq own.due, own'.pc \notin {"none", "sidecar"},
           own'.op # "finish", sidecar' = sidecar
    PROVE  OwnInv'
<1>1. /\ own.index \in Seq(Keys) /\ Size \in Nat /\ DOMAIN own.index = 1 .. Size
      /\ OwnInv /\ StepInv
  BY Parts, OwnTyped, Zenon
<1>2. /\ Len(data') = Size + Len(rest) /\ Len(rest) \in Nat
      /\ \A i \in 1 .. Size : data'[i] = own.index[i]
      /\ \A i \in 1 .. Len(rest) : data'[Size + i] = rest[i]
      /\ Size <= durable => Size <= durable'
  BY OverwriteFile, LenProperties, Zenon
<1>3. Size' = Size /\ own'.index = own.index /\ (Open)' /\ ~At("sidecar")' /\ ~own'.tail
  BY <1>1, Zenon DEF Size, SameWriter, Open, At, StepInv
<1>4. Whole(own.index)'
  <2>1. Size <= Len(data') /\ (Size < Len(data') => 1 \in 1 .. Len(rest) /\ Len(rest) # 0)
    BY <1>1, <1>2
  <2>2. Size < Len(data') => data'[Size + 1] \notin Keys
    BY <1>2, <2>1, Zenon
  <2> QED BY <1>1, <1>2, <1>3, <2>1, <2>2, Zenon DEF Whole, Agrees, Size
<1>5. own'.writes => sidecar' # NoSidecar /\ Lists(sidecar', own'.index)
  BY <1>1, <1>3, Zenon DEF OwnInv, SameWriter
<1>6. own'.sync /\ ~own'.dirty => Size <= durable
  BY <1>1, Zenon DEF OwnInv, SameWriter
<1>7. own'.due \subseteq Range(own'.index)
  BY <1>1, <1>3, Zenon DEF OwnInv
<1> QED BY <1>2, <1>3, <1>4, <1>5, <1>6, <1>7, Zenon DEF OwnInv, Lists, At

(* A write that fails part way preserves the invariant (Active::write). *)
LEMMA WriteFailsStep ==
    ASSUME IInv, WriteFails
    PROVE  IInv'
<1>1. /\ FileTypes /\ OwnerTypes /\ ViewTypes /\ SidecarInv /\ OwnInv /\ StepInv /\ FileInv
      /\ own.index \in Seq(Keys) /\ Size \in Nat /\ DOMAIN own.index = 1 .. Size
  BY Parts, OwnTyped, Zenon
<1>2. /\ own.pc = "idle" /\ ~own.failed /\ Overwrite(Size, <<Bad>>) /\ own' = own
      /\ UNCHANGED <<indexed, sidecar, stale, name, renamed, view, acked>>
  BY Zenon DEF WriteFails, At, index, names
<1>3. Open /\ ~At("dirsync") /\ ~At("sidecar") /\ own.op # "finish"
  BY <1>1, <1>2, Zenon DEF Open, StepInv, At
<1>4. /\ <<Bad>> \in Seq(Items) /\ Len(<<Bad>>) = 1 /\ <<Bad>>[1] = Bad /\ 1 \in 1 .. 1
      /\ Bad \notin Keys /\ Bad # Footer
  <2>1. Bad \in Items /\ Bad \notin Keys /\ Bad # Footer
    BY KeysAssumption, Zenon DEF Items, Bad, Footer
  <2> QED BY <2>1, OneItem, Zenon
<1>5. /\ KeepsGood /\ KeepsRecords
      /\ data' \in Seq(Items) /\ Len(data') = Size + 1
      /\ \A i \in 1 .. Size : data'[i] = own.index[i]
      /\ data'[Size + 1] = Bad
      /\ durable' \in 0 .. Len(data')
      /\ dropped' = {} /\ name # "sealed" /\ ~renamed
  BY <1>2, <1>3, <1>4, OverwriteFile, Zenon
<1>6. FileTypes' /\ OwnerTypes'
  <2>1. data' \in Seq(Keys \cup {Bad, Torn, Footer})
    BY <1>5, Zenon DEF Items
  <2> QED BY <1>1, <1>2, <1>5, <2>1, Zenon DEF FileTypes, OwnerTypes
<1>7. SidecarInv'
  BY <1>1, <1>2, <1>5, SidecarKept, Zenon
<1>8. OwnInv'
  <2>1. /\ SameWriter /\ own'.due \subseteq own.due /\ own'.pc \notin {"none", "sidecar"}
        /\ own'.op # "finish"
    BY <1>2, <1>3, Zenon DEF SameWriter
  <2> QED BY <1>2, <1>3, <1>4, <2>1, OwnOverwritten, Zenon
<1>9. StepInv'
  BY <1>1, <1>2, Zenon DEF StepInv, At, Size
<1>10. FileInv'
  <2>1. ASSUME NEW i \in 1 .. Len(data') PROVE data'[i] # Footer
    <3>1. i \in 1 .. Size \/ i = Size + 1
      BY <1>1, <1>5
    <3>2. i \in 1 .. Size => own.index[i] \in Keys
      BY <1>1
    <3> QED BY <1>4, <1>5, <3>1, <3>2, KeyKinds, Zenon
  <2>2. UNCHANGED names /\ own'.pc # "dirsync"
    BY <1>2, Zenon DEF names
  <2> QED BY <1>5, <2>1, <2>2, NoFooterFile, Zenon
<1> QED BY <1>2, <1>5, <1>6, <1>7, <1>8, <1>9, <1>10, OwnerStep, Zenon

(* A seal that did not write its footer. *)
LEMMA FooterFailed ==
    ASSUME IInv, own.pc = "footer", NEW rest \in {<<>>, <<Bad>>, <<Torn>>}, Overwrite(Size, rest),
           Returns \/ Fails, UNCHANGED <<indexed, sidecar, stale, name, renamed, view, acked>>
    PROVE  IInv'
<1>1. /\ FileTypes /\ OwnerTypes /\ ViewTypes /\ SidecarInv /\ OwnInv /\ StepInv /\ FileInv
      /\ own.index \in Seq(Keys) /\ Size \in Nat /\ DOMAIN own.index = 1 .. Size
  BY Parts, OwnTyped, Zenon
<1>2. Open /\ ~At("dirsync") /\ ~At("sidecar") /\ ~own.failed
  BY <1>1, Zenon DEF Open, StepInv, At
<1>3. /\ rest \in Seq(Items) /\ Len(rest) \in Nat
      /\ Len(rest) = 0 \/ rest[1] \notin Keys
      /\ \A i \in 1 .. Len(rest) : rest[i] # Footer
  <2>1. CASE rest = <<>>
    BY <2>1
  <2>2. ASSUME NEW x \in {Bad, Torn}, rest = <<x>>
        PROVE  /\ rest \in Seq(Items) /\ Len(rest) \in Nat /\ rest[1] \notin Keys
               /\ \A i \in 1 .. Len(rest) : rest[i] # Footer
    <3>1. x \in Items /\ x \notin Keys /\ x # Footer
      BY KeysAssumption, Zenon DEF Items, Bad, Torn, Footer
    <3> QED BY <2>2, <3>1
  <2> QED BY <2>1, <2>2, Zenon
<1>4. /\ KeepsGood /\ KeepsRecords
      /\ data' \in Seq(Items) /\ Len(data') = Size + Len(rest)
      /\ \A i \in 1 .. Size : data'[i] = own.index[i]
      /\ \A i \in 1 .. Len(rest) : data'[Size + i] = rest[i]
      /\ durable' \in 0 .. Len(data')
      /\ dropped' = {} /\ name # "sealed" /\ ~renamed
  BY <1>2, <1>3, OverwriteFile, Zenon
<1>5. OwnerTypes' /\ SameWriter /\ own'.pc = "idle" /\ own'.op = "none" /\ own'.due = {}
  BY <1>1, ReturnsOwn, FailsOwn, Zenon
<1>6. FileTypes'
  <2>1. data' \in Seq(Keys \cup {Bad, Torn, Footer})
    BY <1>4, Zenon DEF Items
  <2> QED BY <1>1, <1>4, <2>1, Zenon DEF FileTypes
<1>7. SidecarInv'
  BY <1>1, <1>4, SidecarKept, Zenon
<1>8. OwnInv'
  <2>1. own'.due \subseteq own.due /\ own'.pc \notin {"none", "sidecar"} /\ own'.op # "finish"
    BY <1>5, Zenon
  <2> QED BY <1>2, <1>3, <1>5, <2>1, OwnOverwritten, Zenon
<1>9. StepInv'
  BY <1>1, <1>2, <1>5, Zenon DEF StepInv, At, SameWriter
<1>10. FileInv'
  <2>1. ASSUME NEW i \in 1 .. Len(data') PROVE data'[i] # Footer
    <3>1. CASE i \in 1 .. Size
      <4>1. own.index[i] \in Keys
        BY <1>1, <3>1
      <4> QED BY <1>4, <3>1, <4>1, KeyKinds, Zenon
    <3>2. CASE i \notin 1 .. Size
      <4>1. i - Size \in 1 .. Len(rest) /\ Size + (i - Size) = i
        BY <1>1, <1>3, <1>4, <3>2
      <4> QED BY <1>3, <1>4, <4>1, Zenon
    <3> QED BY <3>1, <3>2
  <2>2. UNCHANGED names /\ own'.pc # "dirsync"
    BY <1>5, Zenon DEF names
  <2> QED BY <1>4, <2>1, <2>2, NoFooterFile, Zenon
<1> QED BY <1>4, <1>5, <1>6, <1>7, <1>8, <1>9, <1>10, OwnerStep, Zenon

(* And one that did. *)
LEMMA FooterWritten ==
    ASSUME IInv, own.pc = "footer", Overwrite(Size, <<Footer>>), indexed' = own.index,
           Goto("sealsync"), UNCHANGED <<sidecar, stale, name, renamed, view, acked>>
    PROVE  IInv'
<1>1. /\ FileTypes /\ OwnerTypes /\ ViewTypes /\ SidecarInv /\ OwnInv /\ StepInv /\ FileInv
      /\ own.index \in Seq(Keys) /\ Size \in Nat /\ DOMAIN own.index = 1 .. Size
  BY Parts, OwnTyped, Zenon
<1>2. Open /\ ~At("dirsync") /\ ~At("sidecar") /\ ~own.failed /\ own.op # "finish"
  BY <1>1, Zenon DEF Open, StepInv, At
<1>3. /\ <<Footer>> \in Seq(Items) /\ Len(<<Footer>>) = 1 /\ <<Footer>>[1] = Footer
      /\ 1 \in 1 .. 1 /\ Footer \notin Keys
  <2>1. Footer \in Items /\ Footer \notin Keys
    BY KeysAssumption, Zenon DEF Items
  <2> QED BY <2>1, OneItem, Zenon
<1>4. /\ KeepsGood /\ KeepsRecords
      /\ data' \in Seq(Items) /\ Len(data') = Size + 1
      /\ \A i \in 1 .. Size : data'[i] = own.index[i]
      /\ data'[Size + 1] = Footer
      /\ durable' \in 0 .. Len(data')
      /\ dropped' = {} /\ name # "sealed" /\ ~renamed
  BY <1>2, <1>3, OverwriteFile, Zenon
<1>5. /\ OwnerTypes' /\ SameWriter /\ own'.pc = "sealsync" /\ own'.op = own.op
      /\ own'.failed = own.failed /\ own'.due = own.due
  BY <1>1, GotoOwn, Zenon
<1>6. FileTypes'
  <2>1. data' \in Seq(Keys \cup {Bad, Torn, Footer})
    BY <1>4, Zenon DEF Items
  <2> QED BY <1>1, <1>4, <2>1, Zenon DEF FileTypes
<1>7. SidecarInv'
  BY <1>1, <1>4, SidecarKept, Zenon
<1>8. OwnInv'
  <2>1. own'.due \subseteq own.due /\ own'.pc \notin {"none", "sidecar"} /\ own'.op # "finish"
    BY <1>2, <1>5, Zenon
  <2> QED BY <1>2, <1>3, <1>5, <2>1, OwnOverwritten, Zenon
<1>9. EndsIn(data, {Footer})'
  <2>1. data' # <<>> /\ data'[Len(data')] = Footer
    BY <1>1, <1>4
  <2> QED BY <2>1, Zenon DEF EndsIn
<1>10. StepInv'
  BY <1>1, <1>2, <1>5, <1>9, Zenon DEF StepInv, At, SameWriter
<1>11. FileInv'
  <2>1. ASSUME NEW i \in 1 .. Len(data') - 1 PROVE data'[i] # Footer
    <3>1. i \in 1 .. Size
      BY <1>1, <1>4
    <3>2. own.index[i] \in Keys
      BY <1>1, <3>1
    <3> QED BY <1>4, <3>1, <3>2, KeyKinds, Zenon
  <2>2. Len(data') = Len(indexed') + 1 /\ Len(indexed') <= Len(data') /\ DOMAIN indexed' = 1 .. Size
    BY <1>1, <1>4 DEF Size
  <2>3. Agrees(indexed)'
    BY <1>4, <2>2, Zenon DEF Agrees
  <2>4. name' # "sealed" /\ ~renamed' /\ ~At("dirsync")'
    BY <1>4, <1>5, Zenon DEF At
  <2> QED BY <1>4, <2>1, <2>2, <2>3, <2>4, Zenon DEF FileInv
<1> QED BY <1>4, <1>5, <1>6, <1>7, <1>8, <1>10, <1>11, OwnerStep, Zenon

(* Writing the footer preserves the invariant (seal). *)
LEMMA WriteFooterStep ==
    ASSUME IInv, WriteFooter
    PROVE  IInv'
<1>1. own.pc = "footer" /\ UNCHANGED <<sidecar, stale, name, renamed, view, acked>>
  BY Zenon DEF WriteFooter, At, index, names
<1>2. \/ Overwrite(Size, <<Footer>>) /\ indexed' = own.index /\ Goto("sealsync")
      \/ Overwrite(Size, <<>>) /\ indexed' = indexed /\ Returns
      \/ \E half \in {<<>>, <<Bad>>, <<Torn>>} :
             Overwrite(Size, half) /\ indexed' = indexed /\ Fails
  BY Zenon DEF WriteFooter
<1> QED BY <1>1, <1>2, FooterWritten, FooterFailed, Zenon
=============================================================================
