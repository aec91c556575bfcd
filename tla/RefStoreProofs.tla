--------------------------- MODULE RefStoreProofs ---------------------------
(***************************************************************************)
(* Proofs about RefStore, for any processes, threads, names, records and   *)
(* calls: its inductive invariant, what that says of locks and durability, *)
(* and that the store implements RefMap.                                   *)
(***************************************************************************)
EXTENDS RefStore, SequenceTheorems, WellFoundedInduction, TLAPS

Less == {p \in Nat \X Nat : p[1] < p[2]}

(* A set of numbers that is not empty has a least. *)
LEMMA LeastNumber ==
    ASSUME NEW T \in SUBSET Nat, T # {}
    PROVE  \E m \in T : \A k \in T : m <= k
<1>1. Less = OpToRel(<, Nat)
  BY Zenon DEF Less, OpToRel
<1>2. IsWellFoundedOn(Less, Nat)
  BY <1>1, NatLessThanWellFounded, Zenon
<1>3. PICK m \in T : \A k \in T : <<k, m>> \notin Less
  BY <1>2, WFMin, Zenon
<1>4. ASSUME NEW k \in T PROVE m <= k
  <2>1. <<k, m>> \notin Less
    BY <1>3
  <2>2. m \in Nat /\ k \in Nat
    OBVIOUS
  <2> QED BY <2>1, <2>2 DEF Less
<1> QED BY <1>4

-----------------------------------------------------------------------------
(* The statements of a batch up to the n-th, as a function. *)
Sets(tx, names, values, len, f) ==
    f = [n \in 0 .. len |-> IF n = 0 THEN tx ELSE [f[n - 1] EXCEPT ![names[n]] = values[n]]]

(* There is such a function: the recursion in SetAll is well founded. *)
LEMMA SetsExists ==
    ASSUME NEW tx, NEW names, NEW values, NEW len \in Nat
    PROVE  \E f : Sets(tx, names, values, len, f)
<1> DEFINE Then(f, n) == IF n = 0 THEN tx ELSE [f[n - 1] EXCEPT ![names[n]] = values[n]]
           T == {m \in Nat : ~ \E f : Sets(tx, names, values, m, f)}
<1> SUFFICES ASSUME T # {} PROVE FALSE
  BY Zenon
<1>1. PICK m \in T : \A k \in T : m <= k
  <2>1. T \in SUBSET Nat
    BY Zenon
  <2> HIDE DEF T
  <2> QED BY <2>1, LeastNumber, Zenon
<1>2. m \in Nat /\ ~ \E f : Sets(tx, names, values, m, f)
  BY Zenon
<1>3. CASE m = 0
  <2> DEFINE g == [n \in 0 .. 0 |-> tx]
  <2>1. Sets(tx, names, values, 0, g)
    BY DEF Sets
  <2> QED BY <1>2, <1>3, <2>1, Zenon
<1>4. CASE m # 0
  <2>1. m - 1 \in Nat /\ ~(m <= m - 1)
    BY <1>2, <1>4
  <2>2. PICK g : Sets(tx, names, values, m - 1, g)
    <3>1. m - 1 \notin T
      BY <1>1, <2>1, Zenon
    <3> QED BY <2>1, <3>1, Zenon
  <2>3. g = [n \in 0 .. m - 1 |-> Then(g, n)]
    BY <2>2, Zenon DEF Sets
  <2> DEFINE h == [n \in 0 .. m |-> IF n = m THEN Then(g, m) ELSE g[n]]
  <2>4. ASSUME NEW n \in 0 .. m PROVE h[n] = Then(h, n)
    <3>1. n \in Nat /\ (n # 0 => h[n - 1] = g[n - 1])
      BY <1>2
    <3>2. h[n] = Then(g, n)
      <4>1. CASE n = m
        BY <4>1
      <4>2. CASE n # m
        <5>1. n \in 0 .. m - 1 /\ h[n] = g[n]
          BY <1>2, <4>2
        <5> QED BY <2>3, <5>1, Zenon
      <4> QED BY <4>1, <4>2
    <3> HIDE DEF h
    <3>3. CASE n = 0
      BY <3>2, <3>3
    <3>4. CASE n # 0
      <4>1. h[n - 1] = g[n - 1]
        BY <3>1, <3>4, Zenon
      <4> QED BY <3>2, <3>4, <4>1, Zenon
    <3> QED BY <3>3, <3>4
  <2>5. Sets(tx, names, values, m, h)
    <3> DEFINE e == [n \in 0 .. m |-> Then(h, n)]
    <3>1. \A n \in 0 .. m : h[n] = e[n]
      BY <2>4, Zenon
    <3>2. h = e
      BY <3>1, Zenon
    <3> QED BY <3>2, Zenon DEF Sets
  <2> QED BY <1>2, <2>5, Zenon
<1> QED BY <1>3, <1>4

(* What m statements make of a map: the last one for a name counts. *)
SetUpTo(tx, names, values, m, r) ==
    /\ r \in Maps
    /\ \A n \in Names : (\A i \in 1 .. m : names[i] # n) => r[n] = tx[n]
    /\ \A i \in 1 .. m :
          (\A j \in 1 .. m : names[j] = names[i] => j <= i) => r[names[i]] = values[i]

(* One more statement. *)
LEMMA SetOneMore ==
    ASSUME NEW tx, NEW names, NEW values, NEW m \in Nat \ {0}, NEW r,
           SetUpTo(tx, names, values, m - 1, r),
           \A i \in 1 .. m : names[i] \in Names /\ values[i] \in Records \cup {Absent}
    PROVE  SetUpTo(tx, names, values, m, [r EXCEPT ![names[m]] = values[m]])
<1> DEFINE s == [r EXCEPT ![names[m]] = values[m]]
<1>1. m \in 1 .. m /\ \A i \in 1 .. m - 1 : i \in 1 .. m /\ i # m /\ i <= m /\ ~(m <= i)
  OBVIOUS
<1>2. \A i \in 1 .. m : i = m \/ i \in 1 .. m - 1
  OBVIOUS
<1>3. r \in Maps /\ names[m] \in Names /\ values[m] \in Records \cup {Absent}
  BY <1>1, Zenon DEF SetUpTo
<1>4. s \in Maps /\ s[names[m]] = values[m] /\ \A n \in Names : n # names[m] => s[n] = r[n]
  BY <1>3, Zenon DEF Maps
<1> HIDE DEF s
<1>5. ASSUME NEW n \in Names, \A i \in 1 .. m : names[i] # n PROVE s[n] = tx[n]
  <2>1. n # names[m] /\ \A i \in 1 .. m - 1 : names[i] # n
    BY <1>1, <1>5, Zenon
  <2> QED BY <1>4, <2>1, Zenon DEF SetUpTo
<1>6. ASSUME NEW i \in 1 .. m, \A j \in 1 .. m : names[j] = names[i] => j <= i
      PROVE  s[names[i]] = values[i]
  <2>1. CASE i = m
    BY <1>4, <2>1, Zenon
  <2>2. CASE i # m
    <3>1. i \in 1 .. m - 1 /\ names[i] # names[m] /\ names[i] \in Names
      BY <1>1, <1>2, <1>6, <2>2, Zenon
    <3>2. \A j \in 1 .. m - 1 : names[j] = names[i] => j <= i
      BY <1>1, <1>6, Zenon
    <3>3. r[names[i]] = values[i]
      BY <3>1, <3>2, Zenon DEF SetUpTo
    <3> QED BY <1>4, <3>1, <3>3, Zenon
  <2> QED BY <2>1, <2>2
<1>7. SetUpTo(tx, names, values, m, s)
  BY <1>4, <1>5, <1>6, Zenon DEF SetUpTo
<1> QED BY <1>7 DEF s

(* What the statements of a batch make of the map. *)
LEMMA SetAllSets ==
    ASSUME NEW tx \in Maps, NEW names, NEW values, Len(names) \in Nat,
           \A i \in 1 .. Len(names) : names[i] \in Names /\ values[i] \in Records \cup {Absent}
    PROVE  SetUpTo(tx, names, values, Len(names), SetAll(tx, names, values))
<1> DEFINE len == Len(names)
           f == CHOOSE g : Sets(tx, names, values, len, g)
           T == {m \in Nat : m <= len /\ ~SetUpTo(tx, names, values, m, f[m])}
<1>0. len \in Nat /\ len <= len
  OBVIOUS
<1>1. SetAll(tx, names, values) = f[len]
  BY Zenon DEF SetAll, Sets
<1>2. f = [n \in 0 .. len |-> IF n = 0 THEN tx ELSE [f[n - 1] EXCEPT ![names[n]] = values[n]]]
  <2>1. Sets(tx, names, values, len, f)
    BY <1>0, SetsExists, Zenon
  <2> QED BY <2>1, Zenon DEF Sets
<1>h. \A i \in 1 .. len : names[i] \in Names /\ values[i] \in Records \cup {Absent}
  OBVIOUS
<1> HIDE DEF f, len
<1> SUFFICES ASSUME T # {} PROVE FALSE
  BY <1>0, <1>1, Zenon DEF len
<1>3. PICK m \in T : \A k \in T : m <= k
  <2>1. T \in SUBSET Nat
    BY Zenon
  <2> HIDE DEF T
  <2> QED BY <2>1, LeastNumber, Zenon
<1>4. m \in Nat /\ m <= len /\ ~SetUpTo(tx, names, values, m, f[m]) /\ m \in 0 .. len
  BY <1>0
<1>5. CASE m = 0
  <2>1. f[m] = tx
    BY <1>2, <1>4, <1>5, Zenon
  <2>2. \A i \in 1 .. m : FALSE
    BY <1>5
  <2>3. SetUpTo(tx, names, values, m, tx)
    BY <2>2, Zenon DEF SetUpTo
  <2> QED BY <1>4, <2>1, <2>3, Zenon
<1>6. CASE m # 0
  <2>1. /\ m - 1 \in Nat /\ ~(m <= m - 1) /\ m - 1 <= len /\ m \in Nat \ {0}
        /\ \A i \in 1 .. m : i \in 1 .. len
    BY <1>0, <1>4, <1>6
  <2>2. SetUpTo(tx, names, values, m - 1, f[m - 1])
    <3>1. m - 1 \notin T
      BY <1>3, <2>1, Zenon
    <3> QED BY <2>1, <3>1, Zenon
  <2>3. f[m] = [f[m - 1] EXCEPT ![names[m]] = values[m]]
    BY <1>2, <1>4, <1>6, Zenon
  <2>4. \A i \in 1 .. m : names[i] \in Names /\ values[i] \in Records \cup {Absent}
    BY <1>h, <2>1, Zenon
  <2>5. SetUpTo(tx, names, values, m, [f[m - 1] EXCEPT ![names[m]] = values[m]])
    BY <2>1, <2>2, <2>4, SetOneMore, Zenon
  <2> QED BY <1>4, <2>3, <2>5, Zenon
<1> QED BY <1>5, <1>6

(* A set of numbers with a bound has a largest. *)
LEMMA LargestNumber ==
    ASSUME NEW M \in SUBSET Nat, NEW b \in Nat, M # {}, \A m \in M : m <= b
    PROVE  \E m \in M : \A o \in M : o <= m
<1> DEFINE T == {n \in Nat : \A m \in M : m <= n}
<1>1. PICK l \in T : \A k \in T : l <= k
  <2>1. b \in T /\ T \in SUBSET Nat
    OBVIOUS
  <2> HIDE DEF T
  <2> QED BY <2>1, LeastNumber, Zenon
<1>2. CASE l \in M
  BY <1>2
<1>3. CASE l \notin M
  <2>1. PICK o \in M : TRUE
    BY Zenon
  <2>2. \A m \in M : m <= l - 1
    BY <1>1, <1>3
  <2>3. l - 1 \in T
    BY <2>1, <2>2, <1>1
  <2> QED BY <2>3, <1>1
<1> QED BY <1>2, <1>3

(* A function on 1 .. n is a sequence of that length. *)
LEMMA LenOf ==
    ASSUME NEW n \in Nat, NEW S, NEW f \in [1 .. n -> S]
    PROVE  f \in Seq(S) /\ Len(f) = n
<1>1. f \in Seq(S)
  OBVIOUS
<1>2. DOMAIN f = 1 .. n /\ DOMAIN f = 1 .. Len(f) /\ Len(f) \in Nat
  BY <1>1
<1> QED BY <1>1, <1>2

Offs == [name : Names, old : Keys]
Pubs == [name : Names, rec : Records, old : Keys \cup {Absent}]

(* The puts of a batch. *)
LEMMA PutAllSets ==
    ASSUME NEW tx \in Maps, NEW records \in Seq(Pubs)
    PROVE  /\ PutAll(tx, records) \in Maps
           /\ \A n \in Names : (\A i \in DOMAIN records : records[i].name # n) =>
                                  PutAll(tx, records)[n] = tx[n]
           /\ \A i \in DOMAIN records :
                 (\A j \in DOMAIN records : records[j].name = records[i].name => j <= i) =>
                    PutAll(tx, records)[records[i].name] = records[i].rec
<1> DEFINE names == [i \in DOMAIN records |-> records[i].name]
           values == [i \in DOMAIN records |-> records[i].rec]
           r == PutAll(tx, records)
<1>1. DOMAIN records = 1 .. Len(records) /\ Len(records) \in Nat
  OBVIOUS
<1>2. \A i \in DOMAIN records : records[i] \in Pubs
  BY <1>1
<1>3. \A i \in DOMAIN records : /\ names[i] = records[i].name /\ names[i] \in Names
                                /\ values[i] = records[i].rec
                                /\ values[i] \in Records \cup {Absent}
  BY <1>2, Zenon DEF Pubs
<1>4. names \in [1 .. Len(records) -> Names]
  BY <1>1, <1>3, Zenon
<1>r. r = SetAll(tx, names, values)
  BY Zenon DEF PutAll
<1> HIDE DEF names, values, r
<1>5. Len(names) = Len(records)
  BY <1>1, <1>4, LenOf, Zenon
<1>6. SetUpTo(tx, names, values, Len(names), r)
  <2>1. \A i \in 1 .. Len(names) : names[i] \in Names /\ values[i] \in Records \cup {Absent}
    BY <1>1, <1>3, <1>5, Zenon
  <2> QED BY <1>1, <1>5, <1>r, <2>1, SetAllSets, Zenon
<1>7. /\ r \in Maps
      /\ \A n \in Names : (\A i \in DOMAIN records : names[i] # n) => r[n] = tx[n]
      /\ \A i \in DOMAIN records :
            (\A j \in DOMAIN records : names[j] = names[i] => j <= i) => r[names[i]] = values[i]
  BY <1>1, <1>5, <1>6, Zenon DEF SetUpTo
<1> QED BY <1>3, <1>7, Zenon DEF r

(* The withdrawals of a batch. *)
LEMMA DeleteAllSets ==
    ASSUME NEW tx \in Maps, NEW offs \in Seq(Offs)
    PROVE  /\ DeleteAll(tx, offs) \in Maps
           /\ \A n \in Names : (\A i \in DOMAIN offs : offs[i].name # n) =>
                                  DeleteAll(tx, offs)[n] = tx[n]
           /\ \A n \in Names : (\E i \in DOMAIN offs : offs[i].name = n) =>
                                  DeleteAll(tx, offs)[n] = Absent
<1> DEFINE names == [i \in DOMAIN offs |-> offs[i].name]
           values == [i \in DOMAIN offs |-> Absent]
           r == DeleteAll(tx, offs)
<1>1. DOMAIN offs = 1 .. Len(offs) /\ Len(offs) \in Nat
  OBVIOUS
<1>2. \A i \in DOMAIN offs : offs[i] \in Offs
  BY <1>1
<1>3. \A i \in DOMAIN offs : /\ names[i] = offs[i].name /\ names[i] \in Names
                             /\ values[i] = Absent /\ values[i] \in Records \cup {Absent}
  BY <1>2, Zenon DEF Offs
<1>4. names \in [1 .. Len(offs) -> Names]
  BY <1>1, <1>3, Zenon
<1>r. r = SetAll(tx, names, values)
  BY Zenon DEF DeleteAll
<1> HIDE DEF names, values, r
<1>5. Len(names) = Len(offs)
  BY <1>1, <1>4, LenOf, Zenon
<1>6. SetUpTo(tx, names, values, Len(names), r)
  <2>1. \A i \in 1 .. Len(names) : names[i] \in Names /\ values[i] \in Records \cup {Absent}
    BY <1>1, <1>3, <1>5, Zenon
  <2> QED BY <1>1, <1>5, <1>r, <2>1, SetAllSets, Zenon
<1>7. /\ r \in Maps
      /\ \A n \in Names : (\A i \in DOMAIN offs : names[i] # n) => r[n] = tx[n]
      /\ \A i \in DOMAIN offs :
            (\A j \in DOMAIN offs : names[j] = names[i] => j <= i) => r[names[i]] = values[i]
  BY <1>1, <1>5, <1>6, Zenon DEF SetUpTo
<1>8. ASSUME NEW n \in Names, \E i \in DOMAIN offs : offs[i].name = n
      PROVE  r[n] = Absent
  <2> DEFINE M == {i \in DOMAIN offs : names[i] = n}
  <2>1. M \in SUBSET Nat /\ \A m \in M : m <= Len(offs)
    BY <1>1
  <2>2. M # {}
    BY <1>3, <1>8, Zenon
  <2>3. PICK i \in M : \A j \in M : j <= i
    <3> HIDE DEF M
    <3> QED BY <1>1, <2>1, <2>2, LargestNumber, Zenon
  <2>4. r[names[i]] = values[i]
    BY <1>7, <2>3, Zenon
  <2> QED BY <1>3, <2>4, Zenon
<1>9. ASSUME NEW n \in Names, \A i \in DOMAIN offs : offs[i].name # n PROVE r[n] = tx[n]
  <2>1. \A i \in DOMAIN offs : names[i] # n
    BY <1>3, <1>9, Zenon
  <2> QED BY <1>7, <2>1, Zenon
<1>10. r \in Maps
  BY <1>7
<1> QED BY <1>8, <1>9, <1>10, Zenon DEF r

(* The statements of a batch, withdrawals first, do what RefMap says of it. *)
LEMMA BatchIsApplied ==
    ASSUME NEW tx \in Maps, NEW op, op.records \in Seq(Pubs), op.names \in Seq(Offs)
    PROVE  /\ PutAll(DeleteAll(tx, op.names), op.records) \in Maps
           /\ PutAll(DeleteAll(tx, op.names), op.records) = Abstract!BatchApplied(tx, op)
<1>1. PICK d : d = DeleteAll(tx, op.names)
  BY Zenon
<1>2. PICK r : r = PutAll(d, op.records)
  BY Zenon
<1>3. PICK b : b = Abstract!BatchApplied(tx, op)
  BY Zenon
<1>4. /\ d \in Maps
      /\ \A n \in Names : (\A i \in DOMAIN op.names : op.names[i].name # n) => d[n] = tx[n]
      /\ \A n \in Names : (\E i \in DOMAIN op.names : op.names[i].name = n) => d[n] = Absent
  BY <1>1, DeleteAllSets, Zenon
<1>5. /\ r \in Maps
      /\ \A n \in Names : (\A i \in DOMAIN op.records : op.records[i].name # n) => r[n] = d[n]
      /\ \A i \in DOMAIN op.records :
            (\A j \in DOMAIN op.records : op.records[j].name = op.records[i].name => j <= i) =>
               r[op.records[i].name] = op.records[i].rec
  BY <1>2, <1>4, PutAllSets, Zenon
<1>6. ASSUME NEW n \in Names PROVE b[n] = r[n]
  <2> DEFINE puts == {i \in DOMAIN op.records : op.records[i].name = n}
  <2>1. b[n] = IF puts # {} THEN op.records[CHOOSE i \in puts : \A j \in puts : j <= i].rec
               ELSE IF \E i \in DOMAIN op.names : op.names[i].name = n THEN Absent
               ELSE tx[n]
    BY <1>3, Zenon DEF Abstract!BatchApplied
  <2>2. CASE puts = {}
    BY <1>4, <1>5, <2>1, <2>2, Zenon
  <2>3. CASE puts # {}
    <3>1. puts \in SUBSET Nat /\ Len(op.records) \in Nat /\ \A m \in puts : m <= Len(op.records)
      OBVIOUS
    <3>2. \E m \in puts : \A o \in puts : o <= m
      <4> HIDE DEF puts
      <4> QED BY <2>3, <3>1, LargestNumber, Zenon
    <3>3. PICK m : m = CHOOSE i \in puts : \A j \in puts : j <= i
      BY Zenon
    <3>4. m \in puts /\ \A j \in puts : j <= m
      BY <3>2, <3>3, Zenon
    <3>5. b[n] = op.records[m].rec
      BY <2>1, <2>3, <3>3, Zenon
    <3> QED BY <1>5, <3>4, <3>5, Zenon
  <2> QED BY <2>2, <2>3
<1>7. b = [n \in Names |-> b[n]]
  BY <1>3 DEF Abstract!BatchApplied
<1>8. r = [n \in Names |-> r[n]]
  BY <1>5, Zenon DEF Maps
<1>9. b = r
  BY <1>6, <1>7, <1>8, Zenon
<1> QED BY <1>1, <1>2, <1>3, <1>5, <1>9, Zenon

ChecksOf(tx, op, c) ==
    /\ DOMAIN c \in SUBSET Nat
    /\ \A i \in DOMAIN c : \/ \E j \in DOMAIN op.names : c[i] = OffCheck(tx, op.names[j])
                           \/ \E j \in DOMAIN op.records : c[i] = PubCheck(tx, op.records[j])
    /\ \A j \in DOMAIN op.names : \E i \in DOMAIN c : c[i] = OffCheck(tx, op.names[j])
    /\ \A j \in DOMAIN op.records : \E i \in DOMAIN c : c[i] = PubCheck(tx, op.records[j])

(* The checks of a batch are those of its names and then of its records. *)
LEMMA ChecksAre ==
    ASSUME NEW tx, NEW op, op.records \in Seq(Pubs), op.names \in Seq(Offs),
           NEW c, c = Checks(tx, op)
    PROVE  ChecksOf(tx, op, c)
<1>1. PICK m, n : m = Len(op.names) /\ n = Len(op.records)
  BY Zenon
<1>2. m \in Nat /\ n \in Nat /\ DOMAIN op.names = 1 .. m /\ DOMAIN op.records = 1 .. n
  BY <1>1
<1>3. PICK S : S = {OffCheck(tx, op.names[j]) : j \in DOMAIN op.names} \cup
                   {PubCheck(tx, op.records[j]) : j \in DOMAIN op.records}
  BY Zenon
<1>4. PICK f : f = [i \in DOMAIN op.names |-> OffCheck(tx, op.names[i])]
  BY Zenon
<1>5. PICK g : g = [i \in DOMAIN op.records |-> PubCheck(tx, op.records[i])]
  BY Zenon
<1>6. f \in [1 .. m -> S] /\ g \in [1 .. n -> S] /\ c = f \o g
  BY <1>2, <1>3, <1>4, <1>5, Zenon DEF Checks
<1>7. f \in Seq(S) /\ Len(f) = m /\ g \in Seq(S) /\ Len(g) = n
  BY <1>2, <1>6, LenOf, Zenon
<1>8. /\ DOMAIN c = 1 .. m + n
      /\ \A i \in 1 .. m + n : c[i] = IF i <= m THEN f[i] ELSE g[i - m]
  <2>0. /\ c \in Seq(S) /\ Len(c) = Len(f) + Len(g)
        /\ \A i \in 1 .. Len(f) + Len(g) : c[i] = IF i <= Len(f) THEN f[i] ELSE g[i - Len(f)]
    <3>1. /\ f \o g \in Seq(S) /\ Len(f \o g) = Len(f) + Len(g)
          /\ \A i \in 1 .. Len(f) + Len(g) :
                (f \o g)[i] = IF i <= Len(f) THEN f[i] ELSE g[i - Len(f)]
      BY <1>7, ConcatProperties, Zenon
    <3> QED BY <1>6, <3>1, Zenon
  <2>1. /\ c \in Seq(S) /\ Len(c) = m + n
        /\ \A i \in 1 .. m + n : c[i] = IF i <= m THEN f[i] ELSE g[i - m]
    BY <1>7, <2>0, Zenon
  <2>2. DOMAIN c = 1 .. Len(c)
    BY <2>1
  <2> QED BY <2>1, <2>2, Zenon
<1>9. DOMAIN c \in SUBSET Nat
  BY <1>2, <1>8
<1>10. ASSUME NEW j \in DOMAIN op.names PROVE \E i \in DOMAIN c : c[i] = OffCheck(tx, op.names[j])
  <2>1. j \in DOMAIN c /\ c[j] = f[j]
    BY <1>2, <1>8
  <2>2. f[j] = OffCheck(tx, op.names[j])
    BY <1>4, Zenon
  <2> QED BY <2>1, <2>2, Zenon
<1>11. ASSUME NEW j \in DOMAIN op.records
       PROVE  \E i \in DOMAIN c : c[i] = PubCheck(tx, op.records[j])
  <2>1. m + j \in DOMAIN c /\ c[m + j] = g[j]
    BY <1>2, <1>8
  <2>2. g[j] = PubCheck(tx, op.records[j])
    BY <1>5, Zenon
  <2> QED BY <2>1, <2>2, Zenon
<1>12. ASSUME NEW i \in DOMAIN c
       PROVE  \/ \E j \in DOMAIN op.names : c[i] = OffCheck(tx, op.names[j])
              \/ \E j \in DOMAIN op.records : c[i] = PubCheck(tx, op.records[j])
  <2>1. \/ i \in DOMAIN op.names /\ c[i] = f[i]
        \/ i - m \in DOMAIN op.records /\ c[i] = g[i - m]
    BY <1>2, <1>8
  <2>2. PICK k : k = i - m
    BY Zenon
  <2>3. i \in DOMAIN op.names => f[i] = OffCheck(tx, op.names[i])
    BY <1>4, Zenon
  <2>4. k \in DOMAIN op.records => g[k] = PubCheck(tx, op.records[k])
    BY <1>5, Zenon
  <2> QED BY <2>1, <2>2, <2>3, <2>4, Zenon
<1> QED BY <1>9, <1>10, <1>11, <1>12, Zenon DEF ChecksOf

(* What one check says of RefMap's condition on a withdrawn name. *)
LEMMA OffChecked ==
    ASSUME NEW tx, NEW w \in Offs
    PROVE  \/ OffCheck(tx, w) = "undecodable" /\ Abstract!Junk(tx, w.name)
              /\ ~(tx[w.name] = Absent \/ Abstract!At(tx, w.name, w.old))
           \/ OffCheck(tx, w) = "Conflict" /\ ~Abstract!Junk(tx, w.name)
              /\ ~(tx[w.name] = Absent \/ Abstract!At(tx, w.name, w.old))
           \/ OffCheck(tx, w) = "ok" /\ (tx[w.name] = Absent \/ Abstract!At(tx, w.name, w.old))
<1>1. w.old # NoKey
  BY RefAssumption, Zenon DEF Offs
<1> QED BY <1>1, Zenon DEF OffCheck, Check, Undecodable, points_at, Abstract!Junk, Abstract!At

(* And on a name to be published. *)
LEMMA PubChecked ==
    ASSUME NEW tx, NEW p \in Pubs
    PROVE  LET fits == IF p.old = Absent THEN tx[p.name] = Absent
                       ELSE Abstract!At(tx, p.name, p.old)
           IN  \/ PubCheck(tx, p) = "undecodable" /\ Abstract!Junk(tx, p.name) /\ ~fits
               \/ PubCheck(tx, p) = "Conflict" /\ ~Abstract!Junk(tx, p.name) /\ ~fits
               \/ PubCheck(tx, p) = "ok" /\ fits
<1>1. p.old = Absent \/ p.old # NoKey
  BY RefAssumption, Zenon DEF Pubs
<1> QED BY <1>1, Zenon DEF PubCheck, Check, Undecodable, points_at, Abstract!Junk, Abstract!At

(* update_batch does what RefMap says: the error it meets first is one that  *)
(* the map gives cause for, and without one the batch holds.                 *)
LEMMA UpdateBatchAnswers ==
    ASSUME NEW tx \in Maps, NEW op, op.records \in Seq(Pubs), op.names \in Seq(Offs),
           NEW s, s = update_batch(tx, op)
    PROVE  \/ /\ s.err = "ok" /\ s.tx \in Maps /\ Abstract!BatchHolds(tx, op, Names)
              /\ s.tx = Abstract!BatchApplied(tx, op)
              /\ s = [err |-> "ok", tx |-> s.tx]
           \/ /\ s.err \in {"undecodable", "Conflict"} /\ s.tx = tx
              /\ ~Abstract!BatchHolds(tx, op, Names)
              /\ <<s.err>> \in Abstract!BatchErrors(tx, op)
<1>1. PICK c : c = Checks(tx, op)
  BY Zenon
<1>2. PICK bad : bad = {i \in DOMAIN c : c[i] # "ok"}
  BY Zenon
<1>3. /\ DOMAIN c \in SUBSET Nat
      /\ \A i \in DOMAIN c : \/ \E j \in DOMAIN op.names : c[i] = OffCheck(tx, op.names[j])
                             \/ \E j \in DOMAIN op.records : c[i] = PubCheck(tx, op.records[j])
      /\ \A j \in DOMAIN op.names : \E i \in DOMAIN c : c[i] = OffCheck(tx, op.names[j])
      /\ \A j \in DOMAIN op.records : \E i \in DOMAIN c : c[i] = PubCheck(tx, op.records[j])
  <2>1. ChecksOf(tx, op, c)
    BY <1>1, ChecksAre, Zenon
  <2> QED BY <2>1, Zenon DEF ChecksOf
<1>4. /\ \A j \in DOMAIN op.names : op.names[j] \in Offs
      /\ \A j \in DOMAIN op.records : op.records[j] \in Pubs
  OBVIOUS
<1>5. CASE bad = {}
  <2>1. s = [err |-> "ok", tx |-> PutAll(DeleteAll(tx, op.names), op.records)]
    BY <1>1, <1>2, <1>5, Zenon DEF update_batch
  <2>2. /\ \A j \in DOMAIN op.names : OffCheck(tx, op.names[j]) = "ok"
        /\ \A j \in DOMAIN op.records : PubCheck(tx, op.records[j]) = "ok"
    BY <1>2, <1>3, <1>5, Zenon
  <2>3. \A j \in DOMAIN op.names : \/ tx[op.names[j].name] = Absent
                                   \/ Abstract!At(tx, op.names[j].name, op.names[j].old)
    BY <1>4, <2>2, OffChecked
  <2>4. \A j \in DOMAIN op.records :
            IF op.records[j].old = Absent THEN tx[op.records[j].name] = Absent
            ELSE Abstract!At(tx, op.records[j].name, op.records[j].old)
    BY <1>4, <2>2, PubChecked
  <2>5. Abstract!BatchHolds(tx, op, Names)
    BY <2>3, <2>4, Zenon DEF Abstract!BatchHolds
  <2>6. PICK r : r = PutAll(DeleteAll(tx, op.names), op.records)
    BY Zenon
  <2>7. r \in Maps /\ r = Abstract!BatchApplied(tx, op)
    BY <2>6, BatchIsApplied, Zenon
  <2>8. s = [err |-> "ok", tx |-> r] /\ s.err = "ok" /\ s.tx = r
    BY <2>1, <2>6
  <2> QED BY <2>5, <2>7, <2>8, Zenon
<1>6. CASE bad # {}
  <2>1. PICK i : i = CHOOSE k \in bad : \A j \in bad : k <= j
    BY Zenon
  <2>2. i \in DOMAIN c /\ c[i] # "ok"
    <3>1. bad \in SUBSET Nat
      BY <1>2, <1>3, Zenon
    <3>2. \E k \in bad : \A j \in bad : k <= j
      BY <1>6, <3>1, LeastNumber, Zenon
    <3> QED BY <1>2, <2>1, <3>2, Zenon
  <2>3. s = [err |-> c[i], tx |-> tx]
    BY <1>1, <1>2, <1>6, <2>1, Zenon DEF update_batch
  <2>4. s.err = c[i] /\ s.tx = tx
    BY <2>3
  <2>5. CASE \E j \in DOMAIN op.names : c[i] = OffCheck(tx, op.names[j])
    <3>1. PICK j \in DOMAIN op.names : c[i] = OffCheck(tx, op.names[j])
      BY <2>5
    <3>2. PICK w : w = op.names[j]
      BY Zenon
    <3>3. w \in Offs /\ w.name \in Names
      BY <1>4, <3>2, Zenon DEF Offs
    <3>4. /\ c[i] \in {"undecodable", "Conflict"}
          /\ ~(tx[w.name] = Absent \/ Abstract!At(tx, w.name, w.old))
          /\ c[i] = "undecodable" => Abstract!Junk(tx, w.name)
          /\ c[i] = "Conflict" => ~Abstract!Junk(tx, w.name)
      BY <2>2, <3>1, <3>2, <3>3, OffChecked
    <3>5. \A N : w.name \in N => ~Abstract!BatchHolds(tx, op, N)
      BY <3>1, <3>2, <3>4, Zenon DEF Abstract!BatchHolds
    <3>6. w.name \in Abstract!Touched(op)
      BY <3>2, Zenon DEF Abstract!Touched
    <3>7. <<c[i]>> \in Abstract!BatchErrors(tx, op)
      BY <3>3, <3>4, <3>5, <3>6, Zenon DEF Abstract!BatchErrors
    <3> QED BY <2>4, <3>3, <3>4, <3>5, <3>7, Zenon
  <2>6. CASE \E j \in DOMAIN op.records : c[i] = PubCheck(tx, op.records[j])
    <3>1. PICK j \in DOMAIN op.records : c[i] = PubCheck(tx, op.records[j])
      BY <2>6
    <3>2. PICK p : p = op.records[j]
      BY Zenon
    <3>3. p \in Pubs /\ p.name \in Names
      BY <1>4, <3>2, Zenon DEF Pubs
    <3>4. /\ c[i] \in {"undecodable", "Conflict"}
          /\ ~(IF p.old = Absent THEN tx[p.name] = Absent ELSE Abstract!At(tx, p.name, p.old))
          /\ c[i] = "undecodable" => Abstract!Junk(tx, p.name)
          /\ c[i] = "Conflict" => ~Abstract!Junk(tx, p.name)
      BY <2>2, <3>1, <3>2, <3>3, PubChecked
    <3>5. \A N : p.name \in N => ~Abstract!BatchHolds(tx, op, N)
      BY <3>1, <3>2, <3>4, Zenon DEF Abstract!BatchHolds
    <3>6. p.name \in Abstract!Touched(op)
      BY <3>2, Zenon DEF Abstract!Touched
    <3>7. <<c[i]>> \in Abstract!BatchErrors(tx, op)
      BY <3>3, <3>4, <3>5, <3>6, Zenon DEF Abstract!BatchErrors
    <3> QED BY <2>4, <3>3, <3>4, <3>5, <3>7, Zenon
  <2> QED BY <1>3, <2>2, <2>5, <2>6, Zenon
<1> QED BY <1>5, <1>6


Errors == {"NotFound", "Conflict", "undecodable"}

(* What the statements of a call make of the map, and the answer it gets, is *)
(* one of the answers RefMap allows on that map.                             *)
Answers(r, op, s) ==
    \/ /\ s = [err |-> "ok", tx |-> s.tx] /\ s.err = "ok" /\ s.tx \in Maps
       /\ [refs |-> s.tx, res |-> <<"ok">>] \in Abstract!Answers(r, op)
    \/ /\ s.err \in Errors /\ s.tx = r
       /\ [refs |-> r, res |-> <<s.err>>] \in Abstract!Answers(r, op)

(* A call that sets its name. *)
LEMMA OkAnswers ==
    ASSUME NEW r, NEW op, NEW s, NEW v \in Maps, s = [err |-> "ok", tx |-> v],
           Abstract!Answers(r, op) = {[refs |-> v, res |-> <<"ok">>]}
    PROVE  Answers(r, op, s)
<1>1. s.err = "ok" /\ s.tx = v
  OBVIOUS
<1> QED BY <1>1, Zenon DEF Answers

(* A call that is refused. *)
LEMMA NoAnswers ==
    ASSUME NEW r, NEW op, NEW s, NEW e \in Errors, s = [err |-> e, tx |-> r],
           Abstract!Answers(r, op) = {[refs |-> r, res |-> <<e>>]}
    PROVE  Answers(r, op, s)
<1>1. s.err = e /\ s.tx = r
  OBVIOUS
<1> QED BY <1>1, Zenon DEF Answers

(* A name set in a map. *)
LEMMA SetOne ==
    ASSUME NEW r \in Maps, NEW n \in Names, NEW v \in Records \cup {Absent}
    PROVE  [r EXCEPT ![n] = v] \in Maps
BY Zenon DEF Maps

(* The statements of every call that writes do what RefMap allows it. *)
LEMMA StatementsAnswer ==
    ASSUME NEW r \in Maps, NEW op \in Ops, op.f \notin Reads, NEW s, s = Statements(r, op)
    PROVE  Answers(r, op, s)
<1>1. /\ op.name \in Names
      /\ op.f \in {"put", "put_volatile", "create", "compare_and_swap"} => op.rec \in Records
  BY OpsAssumption, Zenon
<1>2. PICK absent : absent = [r EXCEPT ![op.name] = Absent]
  BY Zenon
<1>3. PICK moved : moved = [r EXCEPT ![op.name] = op.rec]
  BY Zenon
<1>4. absent \in Maps /\ (op.rec \in Records => moved \in Maps)
  BY <1>1, <1>2, <1>3, SetOne, Zenon
<1>5. CASE op.f \in {"put", "put_volatile"}
  <2>1. s = [err |-> "ok", tx |-> moved]
    BY <1>3, <1>5 DEF Statements, Put
  <2>2. Abstract!Answers(r, op) = {[refs |-> moved, res |-> <<"ok">>]}
    BY <1>3, <1>5 DEF Abstract!Answers
  <2> QED BY <1>1, <1>4, <1>5, <2>1, <2>2, OkAnswers, Zenon
<1>6. CASE op.f \in {"delete", "delete_volatile"}
  <2>1. s = IF r[op.name] = Absent THEN [err |-> "NotFound", tx |-> r]
            ELSE [err |-> "ok", tx |-> absent]
    BY <1>2, <1>6 DEF Statements, Delete
  <2>2. Abstract!Answers(r, op) =
            IF r[op.name] = Absent THEN {[refs |-> r, res |-> <<"NotFound">>]}
            ELSE {[refs |-> absent, res |-> <<"ok">>]}
    BY <1>2, <1>6 DEF Abstract!Answers
  <2>3. "NotFound" \in Errors
    BY DEF Errors
  <2> QED BY <1>4, <2>1, <2>2, <2>3, OkAnswers, NoAnswers, Zenon
<1>7. CASE op.f = "create"
  <2>1. s = IF r[op.name] = Absent THEN [err |-> "ok", tx |-> moved]
            ELSE [err |-> "Conflict", tx |-> r]
    BY <1>3, <1>7 DEF Statements, Put
  <2>2. Abstract!Answers(r, op) =
            IF r[op.name] = Absent THEN {[refs |-> moved, res |-> <<"ok">>]}
            ELSE {[refs |-> r, res |-> <<"Conflict">>]}
    BY <1>3, <1>7 DEF Abstract!Answers
  <2>3. "Conflict" \in Errors
    BY DEF Errors
  <2> QED BY <1>1, <1>4, <1>7, <2>1, <2>2, <2>3, OkAnswers, NoAnswers, Zenon
<1>8. ASSUME NEW v, NEW m \in Maps, m = [r EXCEPT ![op.name] = v], s = if_at(r, op, v),
             Abstract!Answers(r, op) =
                IF r[op.name] = Absent THEN {[refs |-> r, res |-> <<"NotFound">>]}
                ELSE IF Abstract!Junk(r, op.name) THEN {[refs |-> r, res |-> <<"undecodable">>]}
                ELSE IF Abstract!At(r, op.name, op.old) THEN {[refs |-> m, res |-> <<"ok">>]}
                ELSE {[refs |-> r, res |-> <<"Conflict">>]}
      PROVE  Answers(r, op, s)
  <2>1. s = IF r[op.name] = Absent THEN [err |-> "NotFound", tx |-> r]
            ELSE IF Abstract!Junk(r, op.name) THEN [err |-> "undecodable", tx |-> r]
            ELSE IF Abstract!At(r, op.name, op.old) THEN [err |-> "ok", tx |-> m]
            ELSE [err |-> "Conflict", tx |-> r]
    BY <1>8, Zenon DEF if_at, Undecodable, points_at, Abstract!Junk, Abstract!At
  <2>2. "NotFound" \in Errors /\ "Conflict" \in Errors /\ "undecodable" \in Errors
    BY DEF Errors
  <2>3. CASE r[op.name] = Absent
    BY <1>8, <2>1, <2>2, <2>3, NoAnswers, Zenon
  <2>4. CASE r[op.name] # Absent /\ Abstract!Junk(r, op.name)
    BY <1>8, <2>1, <2>2, <2>4, NoAnswers, Zenon
  <2>5. CASE /\ r[op.name] # Absent /\ ~Abstract!Junk(r, op.name)
             /\ Abstract!At(r, op.name, op.old)
    BY <1>8, <2>1, <2>5, OkAnswers, Zenon
  <2>6. CASE /\ r[op.name] # Absent /\ ~Abstract!Junk(r, op.name)
             /\ ~Abstract!At(r, op.name, op.old)
    BY <1>8, <2>1, <2>2, <2>6, NoAnswers, Zenon
  <2> QED BY <2>3, <2>4, <2>5, <2>6, Zenon
<1>9. CASE op.f = "compare_and_swap"
  <2>1. s = if_at(r, op, op.rec)
    BY <1>9 DEF Statements
  <2>2. Abstract!Answers(r, op) =
            IF r[op.name] = Absent THEN {[refs |-> r, res |-> <<"NotFound">>]}
            ELSE IF Abstract!Junk(r, op.name) THEN {[refs |-> r, res |-> <<"undecodable">>]}
            ELSE IF Abstract!At(r, op.name, op.old) THEN {[refs |-> moved, res |-> <<"ok">>]}
            ELSE {[refs |-> r, res |-> <<"Conflict">>]}
    BY <1>3, <1>9 DEF Abstract!Answers
  <2> QED BY <1>1, <1>3, <1>4, <1>8, <1>9, <2>1, <2>2, Zenon
<1>10. CASE op.f = "compare_and_delete"
  <2>1. s = if_at(r, op, Absent)
    BY <1>10 DEF Statements
  <2>2. Abstract!Answers(r, op) =
            IF r[op.name] = Absent THEN {[refs |-> r, res |-> <<"NotFound">>]}
            ELSE IF Abstract!Junk(r, op.name) THEN {[refs |-> r, res |-> <<"undecodable">>]}
            ELSE IF Abstract!At(r, op.name, op.old) THEN {[refs |-> absent, res |-> <<"ok">>]}
            ELSE {[refs |-> r, res |-> <<"Conflict">>]}
    BY <1>2, <1>10 DEF Abstract!Answers
  <2> QED BY <1>2, <1>4, <1>8, <2>1, <2>2, Zenon
<1>11. CASE op.f \in Batches
  <2>1. op.names \in Seq(Offs) /\ op.records \in Seq(Pubs)
    BY <1>11, OpsAssumption, Zenon DEF Offs, Pubs
  <2>2. CASE op.f = "put_batch"
    <3>1. op.names = <<>>
      BY <2>2, OpsAssumption, Zenon
    <3>2. DeleteAll(r, op.names) = r
      <4>1. PICK d : d = DeleteAll(r, op.names)
        BY Zenon
      <4>2. \A i \in DOMAIN op.names : FALSE
        BY <3>1
      <4>3. d \in Maps /\ \A n \in Names : d[n] = r[n]
        BY <2>1, <4>1, <4>2, DeleteAllSets, Zenon
      <4>4. d = r
        BY <4>3 DEF Maps
      <4> QED BY <4>1, <4>4
    <3>3. PICK m : m = PutAll(r, op.records)
      BY Zenon
    <3>4. m \in Maps /\ m = Abstract!BatchApplied(r, op)
      BY <2>1, <3>2, <3>3, BatchIsApplied, Zenon
    <3>5. s = [err |-> "ok", tx |-> m]
      BY <2>2, <3>3 DEF Statements
    <3>6. Abstract!Answers(r, op) = {[refs |-> m, res |-> <<"ok">>]}
      BY <2>2, <3>4 DEF Abstract!Answers
    <3> QED BY <3>4, <3>5, <3>6, OkAnswers, Zenon
  <2>3. CASE op.f = "update_batch"
    <3>1. s = update_batch(r, op)
      BY <2>3 DEF Statements
    <3>2. Abstract!Answers(r, op) =
              IF Abstract!BatchHolds(r, op, Names)
              THEN {[refs |-> Abstract!BatchApplied(r, op), res |-> <<"ok">>]}
              ELSE {[refs |-> r, res |-> e] : e \in Abstract!BatchErrors(r, op)}
      BY <2>3 DEF Abstract!Answers
    <3>3. \/ /\ s.err = "ok" /\ s.tx \in Maps /\ Abstract!BatchHolds(r, op, Names)
             /\ s.tx = Abstract!BatchApplied(r, op)
             /\ s = [err |-> "ok", tx |-> s.tx]
          \/ /\ s.err \in {"undecodable", "Conflict"} /\ s.tx = r
             /\ ~Abstract!BatchHolds(r, op, Names)
             /\ <<s.err>> \in Abstract!BatchErrors(r, op)
      BY <2>1, <3>1, UpdateBatchAnswers, Zenon
    <3>4. CASE /\ s.err = "ok" /\ s.tx \in Maps /\ Abstract!BatchHolds(r, op, Names)
               /\ s.tx = Abstract!BatchApplied(r, op)
               /\ s = [err |-> "ok", tx |-> s.tx]
      <4>1. Abstract!Answers(r, op) = {[refs |-> s.tx, res |-> <<"ok">>]}
        BY <3>2, <3>4, Zenon
      <4> QED BY <3>4, <4>1, Zenon DEF Answers
    <3>5. CASE /\ s.err \in {"undecodable", "Conflict"} /\ s.tx = r
               /\ ~Abstract!BatchHolds(r, op, Names)
               /\ <<s.err>> \in Abstract!BatchErrors(r, op)
      <4>1. [refs |-> r, res |-> <<s.err>>] \in Abstract!Answers(r, op)
        BY <3>2, <3>5, Zenon
      <4>2. s.err \in Errors
        BY <3>5 DEF Errors
      <4> QED BY <3>5, <4>1, <4>2, Zenon DEF Answers
    <3> QED BY <3>3, <3>4, <3>5, Zenon
  <2> QED BY <1>11, <2>2, <2>3, Zenon DEF Batches
<1>12. CASE op.f = "wipe"
  <2>1. PICK e : e = EmptyRefs
    BY Zenon
  <2>2. e \in Maps
    BY <2>1, Zenon DEF EmptyRefs, Maps
  <2>3. s = [err |-> "ok", tx |-> e]
    BY <1>12, <2>1 DEF Statements
  <2>4. Abstract!Answers(r, op) = {[refs |-> e, res |-> <<"ok">>]}
    BY <1>12, <2>1 DEF Abstract!Answers
  <2> QED BY <2>2, <2>3, <2>4, OkAnswers, Zenon
<1>13. op.f \in {"put", "delete", "create", "compare_and_swap", "compare_and_delete", "wipe"}
                \cup Volatile \cup Batches
  BY OpsAssumption, Zenon
<1> QED BY <1>5, <1>6, <1>7, <1>9, <1>10, <1>11, <1>12, <1>13, Zenon DEF Volatile


-----------------------------------------------------------------------------
(* The invariant.                                                          *)

PCs == {"idle", "mutex", "begin", "run", "commit", "end", "connect", "read", "give", "answered"}

ThreadInv(t) == LockInv(t) /\ LevelInv(t) /\ CallInv(t)

(* A step of one thread leaves every other where it was. *)
OnlyMoves(t) == th' \in [Threads -> Frames] /\ \A u \in Threads : u # t => th'[u] = th[u]

(* A field of a thread's frame is set. *)
LEMMA Moves ==
    ASSUME th \in [Threads -> Frames], NEW t \in Threads, NEW h \in Frames,
           th' = [th EXCEPT ![t] = h]
    PROVE  OnlyMoves(t) /\ th'[t] = h
BY Zenon DEF OnlyMoves

(* A thread goes on with an answer. *)
LEMMA AnswerMoves ==
    ASSUME th \in [Threads -> Frames], NEW t \in Threads, NEW pc \in PCs, NEW res \in Results,
           th' = Answer(t, pc, res)
    PROVE  /\ OnlyMoves(t) /\ th'[t].pc = pc /\ th'[t].res = res
           /\ th'[t].op = th[t].op /\ th'[t].tx = th[t].tx /\ th'[t].at = th[t].at
<1>1. PICK g : g = th[t]
  BY Zenon
<1>2. PICK h : h = [g EXCEPT !.pc = pc, !.res = res]
  BY Zenon
<1>3. g \in Frames
  BY <1>1, Zenon
<1>4. /\ h \in Frames /\ h.pc = pc /\ h.res = res /\ h.op = g.op /\ h.tx = g.tx
      /\ h.at = g.at
  BY <1>2, <1>3, Zenon DEF Frames, PCs
<1>5. th' = [th EXCEPT ![t] = h]
  BY <1>1, <1>2, Zenon DEF Answer
<1>6. OnlyMoves(t) /\ th'[t] = h
  BY <1>4, <1>5, Moves, Zenon
<1> QED BY <1>1, <1>4, <1>6, Zenon

(* A thread goes on. *)
LEMMA GotoMoves ==
    ASSUME th \in [Threads -> Frames], NEW t \in Threads, NEW pc \in PCs, th' = Goto(t, pc)
    PROVE  /\ OnlyMoves(t) /\ th'[t].pc = pc /\ th'[t].res = th[t].res
           /\ th'[t].op = th[t].op /\ th'[t].tx = th[t].tx /\ th'[t].at = th[t].at
<1>1. PICK g : g = th[t]
  BY Zenon
<1>2. PICK h : h = [g EXCEPT !.pc = pc]
  BY Zenon
<1>3. g \in Frames
  BY <1>1, Zenon
<1>4. /\ h \in Frames /\ h.pc = pc /\ h.res = g.res /\ h.op = g.op /\ h.tx = g.tx
      /\ h.at = g.at
  BY <1>2, <1>3 DEF Frames, PCs
<1>5. th' = [th EXCEPT ![t] = h]
  BY <1>1, <1>2, Zenon DEF Goto
<1>6. OnlyMoves(t) /\ th'[t] = h
  BY <1>4, <1>5, Moves, Zenon
<1> QED BY <1>1, <1>4, <1>6, Zenon

(* What the types say of the map and of a frame. *)
LEMMA Typed ==
    ASSUME TypeOK
    PROVE  /\ Len(log) \in Nat /\ synced \in Nat /\ synced <= Len(log) /\ 1 <= synced
           /\ refs \in Maps
           /\ \A t \in Threads : th[t] \in Frames /\ th[t].at \in Nat
           /\ \A s \in Stores : acked[s] \in Nat /\ acked[s] <= Len(log)
<1>1. log \in Seq(Maps) /\ synced \in 1 .. Len(log) /\ th \in [Threads -> Frames]
  BY Zenon DEF TypeOK
<1>2. Len(log) \in Nat /\ synced \in Nat /\ synced <= Len(log) /\ 1 <= synced
  BY <1>1
<1>3. refs \in Maps
  BY <1>1, <1>2 DEF refs
<1>4. \A t \in Threads : th[t] \in Frames
  BY <1>1, Zenon
<1>5. \A t \in Threads : th[t].at \in Nat
  BY <1>4, Zenon DEF Frames
<1>6. \A s \in Stores : acked[s] \in Nat /\ acked[s] <= Len(log)
  <2>1. \A s \in Stores : acked[s] \in 0 .. Len(log)
    BY Zenon DEF TypeOK
  <2> QED BY <1>2, <2>1
<1> QED BY <1>2, <1>3, <1>4, <1>5, <1>6

(* A thread that does not move keeps its part of the invariant, if whoever   *)
(* does leaves its mutex, its connection and its lock alone, and only clears  *)
(* its store of a warning when what it committed is synced.                  *)
LEMMA OtherKept ==
    ASSUME NEW u \in Threads, ThreadInv(u), th'[u] = th[u], th[u].at \in Nat,
           HasWriter(u) => /\ writer'[StoreOf[u]] = writer[StoreOf[u]]
                           /\ level'[StoreOf[u]] = level[StoreOf[u]],
           lock' = u <=> lock = u, refs' = refs \/ lock # u,
           synced \in Nat, synced' \in Nat, synced <= synced',
           Len(log) \in Nat, Len(log') \in Nat, Len(log) <= Len(log'),
           \/ StoreOf[u] \notin warned' => StoreOf[u] \notin warned
           \/ th[u].at <= synced' /\ ~HasWriter(u)
    PROVE  ThreadInv(u)'
<1>1. HasWriter(u)' <=> HasWriter(u)
  BY Zenon DEF HasWriter
<1>2. LockInv(u)'
  BY <1>1, Zenon DEF ThreadInv, LockInv
<1>3. th[u].at <= synced => th[u].at <= synced'
  OBVIOUS
<1>4. LevelInv(u)'
  <2>1. th'[u].at <= Len(log')
    <3>1. th[u].at <= Len(log)
      BY Zenon DEF ThreadInv, LevelInv
    <3> QED BY <3>1
  <2> QED BY <1>1, <1>3, <2>1, Zenon DEF ThreadInv, LevelInv
<1>5. th[u].pc \in {"run", "commit"} => refs' = refs
  BY Zenon DEF ThreadInv, LockInv
<1>6. CallInv(u)'
  BY <1>5, Zenon DEF ThreadInv, CallInv
<1> QED BY <1>2, <1>4, <1>6, Zenon DEF ThreadInv

(* A fresh frame. *)
LEMMA IdleInv ==
    ASSUME NEW u \in Threads, th'[u] = Idle, lock' # u, synced' \in Nat, Len(log') \in Nat
    PROVE  ThreadInv(u)'
<1>1. /\ th'[u].pc = "idle" /\ th'[u].op = Nothing /\ th'[u].at = 0
      /\ th'[u].op.f = "none"
  BY DEF Idle, Nothing
<1>2. 0 <= synced' /\ 0 <= Len(log')
  OBVIOUS
<1>3. ~HasWriter(u)' /\ th'[u].pc \notin {"run", "commit"}
  BY <1>1 DEF HasWriter
<1>4. th'[u].pc \notin {"mutex", "begin", "connect", "read"}
  BY <1>1
<1>5. LockInv(u)' /\ LevelInv(u)' /\ CallInv(u)'
  BY <1>1, <1>2, <1>3, <1>4, Zenon DEF LockInv, LevelInv, CallInv
<1> QED BY <1>5, Zenon DEF ThreadInv

(* The fresh frame is one. *)
LEMMA IdleFrame == Idle \in Frames /\ EmptyRefs \in Maps
<1>1. EmptyRefs \in Maps
  BY Zenon DEF EmptyRefs, Maps
<1>2. <<"none">> \in Results
  BY Zenon DEF Results
<1>3. PICK e, r : e = EmptyRefs /\ r = <<"none">>
  BY Zenon
<1>4. Idle = [pc |-> "idle", op |-> Nothing, tx |-> e, res |-> r, at |-> 0]
  BY <1>3, Zenon DEF Idle
<1>5. Idle \in Frames
  BY <1>1, <1>2, <1>3, <1>4 DEF Frames
<1> QED BY <1>1, <1>5

(* A step of a thread that commits nothing and leaves its writer alone. *)
LEMMA QuietStep ==
    ASSUME IInv, NEW t \in Threads, OnlyMoves(t), ThreadInv(t)',
           UNCHANGED <<log, synced, writer, level, acked, warned>>,
           lock' \in Threads \cup {NoThread}, \A u \in Threads : u # t => (lock' = u <=> lock = u),
           idle' \in [Stores -> 0 .. MaxIdle], calls' \in Nat, faults' \in Nat
    PROVE  IInv'
<1>1. TypeOK'
  BY Zenon DEF IInv, TypeOK, OnlyMoves
<1>2. AckedDurable'
  BY Zenon DEF IInv, AckedDurable
<1>3. refs' = refs
  BY DEF refs
<1>4. /\ synced \in Nat /\ synced <= synced /\ \A u \in Threads : th[u].at \in Nat
      /\ Len(log) \in Nat /\ Len(log) <= Len(log)
  BY Typed DEF IInv
<1>5. ASSUME NEW u \in Threads, u # t PROVE ThreadInv(u)'
  <2>1. ThreadInv(u)
    BY Zenon DEF IInv, ThreadInv
  <2>2. th'[u] = th[u] /\ (lock' = u <=> lock = u)
    BY <1>5, Zenon DEF OnlyMoves
  <2> QED BY <1>3, <1>4, <2>1, <2>2, OtherKept, Zenon
<1>6. \A u \in Threads : ThreadInv(u)'
  BY <1>5, Zenon
<1>7. \A s \in Stores \ warned' : Sync /\ writer'[s] = NoThread => level'[s] = "FULL"
  BY Zenon DEF IInv
<1> QED BY <1>1, <1>2, <1>6, <1>7, Zenon DEF IInv, ThreadInv


(* Durability stands while the thread keeps its call and its commit. *)
LEMMA QuietLevel ==
    ASSUME NEW t \in Threads, LevelInv(t), UNCHANGED <<log, level, synced, warned>>,
           th'[t].op = th[t].op, th'[t].at = th[t].at, HasWriter(t)' => HasWriter(t)
    PROVE  LevelInv(t)'
BY Zenon DEF LevelInv

(* What the invariant says of one thread. *)
LEMMA Inside ==
    ASSUME IInv, NEW t \in Threads
    PROVE  /\ LockInv(t) /\ LevelInv(t) /\ CallInv(t) /\ th[t] \in Frames
           /\ th \in [Threads -> Frames] /\ lock \in Threads \cup {NoThread}
           /\ idle \in [Stores -> 0 .. MaxIdle] /\ calls \in Nat /\ faults \in Nat
           /\ refs \in Maps /\ StoreOf[t] \in Stores
<1>1. TypeOK
  BY Zenon DEF IInv
<1>2. refs \in Maps /\ th[t] \in Frames
  BY <1>1, Typed, Zenon
<1>3. StoreOf[t] \in Stores
  BY RefAssumption, Zenon
<1>4. LockInv(t) /\ LevelInv(t) /\ CallInv(t)
  BY Zenon DEF IInv
<1> QED BY <1>1, <1>2, <1>3, <1>4, Zenon DEF TypeOK

(* A thread makes a call. *)
LEMMA CallStep ==
    ASSUME IInv, NEW t \in Threads, NEW op \in Ops, Call(t, op)
    PROVE  IInv'
<1>1. PICK pc : pc = IF op.f \in Reads THEN "connect" ELSE "mutex"
  BY Zenon
<1>2. pc \in PCs /\ (pc = "mutex" => op.f \notin Reads) /\ (pc = "connect" => op.f \in Reads)
      /\ pc \in {"connect", "mutex"}
  BY <1>1 DEF PCs
<1>3. PICK g : g = th[t]
  BY Zenon
<1>4. g \in Frames /\ g = Idle /\ calls \in Nat
  BY <1>3, Inside, Zenon DEF Call, CallInv
<1>5. PICK h : h = [g EXCEPT !.pc = pc, !.op = op]
  BY Zenon
<1>6. h \in Frames /\ h.pc = pc /\ h.op = op /\ h.at = g.at
  BY <1>2, <1>4, <1>5, Zenon DEF Frames, PCs
<1>7. g.at = 0
  BY <1>4 DEF Idle
<1>8. th' = [th EXCEPT ![t] = h]
  BY <1>1, <1>3, <1>5, Zenon DEF Call
<1>9. OnlyMoves(t) /\ th'[t] = h
  BY <1>6, <1>8, Moves, Inside, Zenon
<1>10. h.pc \notin {"begin", "run", "commit", "end", "idle"} /\ h.pc \in {"connect", "mutex"}
  BY <1>2, <1>6
<1>11. ~HasWriter(t)' /\ th'[t].pc \notin {"run", "commit", "idle", "begin"}
  BY <1>9, <1>10, Zenon DEF HasWriter
<1>12. lock # t
  <2>1. th[t].pc = "idle" /\ th[t].pc \notin {"run", "commit"}
    BY DEF Call
  <2> QED BY <2>1, Inside, Zenon DEF LockInv
<1>13. lock' = lock /\ UNCHANGED <<log, synced, writer, level, idle, faults, acked, warned>>
       /\ calls' = calls + 1
  BY Zenon DEF Call, promises
<1>14. LockInv(t)'
  BY <1>11, <1>12, <1>13, Zenon DEF LockInv
<1>15. 0 <= synced /\ 0 <= Len(log)
  BY Typed DEF IInv
<1>16. LevelInv(t)'
  BY <1>6, <1>7, <1>9, <1>11, <1>13, <1>15, Zenon DEF LevelInv
<1>17. CallInv(t)'
  BY <1>2, <1>6, <1>9, <1>11, Zenon DEF CallInv
<1>18. calls' \in Nat
  BY <1>4, <1>13
<1>19. ThreadInv(t)'
  BY <1>14, <1>16, <1>17, Zenon DEF ThreadInv
<1> QED BY <1>9, <1>13, <1>18, <1>19, QuietStep, Inside, Zenon

(* A thread that holds no lock goes on with an answer and holds none. *)
LEMMA AnswerStep ==
    ASSUME IInv, NEW t \in Threads, NEW pc \in {"end", "give", "answered"}, NEW res \in Results,
           th' = Answer(t, pc, res), pc = "end" => HasWriter(t),
           UNCHANGED <<log, synced, writer, level, acked, warned>>,
           lock' = IF lock = t THEN NoThread ELSE lock,
           idle' \in [Stores -> 0 .. MaxIdle], calls' \in Nat, faults' \in Nat
    PROVE  IInv'
<1>1. pc \in PCs
  BY DEF PCs
<1>2. /\ OnlyMoves(t) /\ th'[t].pc = pc /\ th'[t].op = th[t].op /\ th'[t].at = th[t].at
  BY <1>1, AnswerMoves, Inside, Zenon
<1>3. pc \notin {"run", "commit", "idle", "mutex", "begin", "connect", "read"}
      /\ (pc \in {"begin", "run", "commit", "end"} => pc = "end")
  OBVIOUS
<1>4. HasWriter(t)' => HasWriter(t)
  BY <1>2, <1>3, Zenon DEF HasWriter
<1>5. LevelInv(t)'
  BY <1>2, <1>4, QuietLevel, Inside, Zenon
<1>6. lock' # t /\ lock' \in Threads \cup {NoThread}
      /\ \A u \in Threads : u # t => (lock' = u <=> lock = u)
  <2>1. NoThread \notin Threads /\ lock \in Threads \cup {NoThread}
    BY Inside, RefAssumption, Zenon
  <2>2. CASE lock = t
    BY <2>1, <2>2, Zenon
  <2>3. CASE lock # t
    BY <2>1, <2>3, Zenon
  <2> QED BY <2>2, <2>3, Zenon
<1>7. LockInv(t)'
  BY <1>2, <1>3, <1>4, <1>6, Inside, Zenon DEF LockInv
<1>8. CallInv(t)'
  <2>1. th'[t].pc \notin {"run", "commit", "idle", "mutex", "begin", "connect", "read"}
    BY <1>2, <1>3, Zenon
  <2>2. th'[t].pc \notin {"mutex", "begin", "run", "commit"} /\ th'[t].pc \notin {"connect", "read"}
        /\ th'[t].pc # "idle" /\ th'[t].pc # "run" /\ th'[t].pc # "commit"
    BY <2>1
  <2> QED BY <2>2, Zenon DEF CallInv
<1>9. ThreadInv(t)'
  BY <1>5, <1>7, <1>8, Zenon DEF ThreadInv
<1> QED BY <1>2, <1>6, <1>9, QuietStep, Zenon

(* A thread without the lock is not in a transaction. *)
LEMMA NoLock ==
    ASSUME IInv, NEW t \in Threads, th[t].pc \notin {"run", "commit"}
    PROVE  lock # t
BY Inside, Zenon DEF LockInv

(* A batch of nothing. *)
LEMMA EmptyBatchStep ==
    ASSUME IInv, NEW t \in Threads, EmptyBatch(t)
    PROVE  IInv'
<1>1. th[t].pc \notin {"run", "commit"} /\ "answered" \in {"end", "give", "answered"}
      /\ "answered" # "end"
  BY DEF EmptyBatch
<1>2. <<"ok">> \in Results
  BY Zenon DEF Results
<1>3. lock # t
  BY <1>1, NoLock, Zenon
<1>4. /\ th' = Answer(t, "answered", <<"ok">>)
      /\ UNCHANGED <<log, synced, lock, writer, level, idle, calls, faults, acked, warned>>
  BY Zenon DEF EmptyBatch, promises
<1>5. PICK pc, res : pc = "answered" /\ res = <<"ok">>
  BY Zenon
<1>6. pc \in {"end", "give", "answered"} /\ res \in Results /\ th' = Answer(t, pc, res)
      /\ pc # "end"
  BY <1>1, <1>2, <1>4, <1>5, Zenon
<1> QED BY <1>3, <1>4, <1>6, AnswerStep, Inside, Zenon

(* SQLite's lock is not to be had. *)
LEMMA BusyStep ==
    ASSUME IInv, NEW t \in Threads, Busy(t)
    PROVE  IInv'
<1>1. th[t].pc \notin {"run", "commit"} /\ "end" \in {"end", "give", "answered"}
      /\ th[t].pc \in {"begin", "run", "commit", "end"}
  BY DEF Busy
<1>2. <<"failed">> \in Results
  BY Zenon DEF Results
<1>3. lock # t /\ HasWriter(t)
  BY <1>1, NoLock, Zenon DEF HasWriter
<1>4. /\ th' = Answer(t, "end", <<"failed">>)
      /\ UNCHANGED <<log, synced, lock, writer, level, idle, calls, faults, acked, warned>>
  BY Zenon DEF Busy, promises
<1>5. PICK pc, res : pc = "end" /\ res = <<"failed">>
  BY Zenon
<1>6. pc \in {"end", "give", "answered"} /\ res \in Results /\ th' = Answer(t, pc, res)
  BY <1>1, <1>2, <1>4, <1>5, Zenon
<1> QED BY <1>3, <1>4, <1>6, AnswerStep, Inside, Zenon

(* A statement or a commit fails. *)
LEMMA CommitFailsStep ==
    ASSUME IInv, NEW t \in Threads, CommitFails(t)
    PROVE  IInv'
<1>1. th[t].pc \in {"run", "commit"} /\ "end" \in {"end", "give", "answered"}
  BY Zenon DEF CommitFails
<1>2. <<"failed">> \in Results
  BY Zenon DEF Results
<1>3. lock = t /\ HasWriter(t)
  <2>1. th[t].pc \in {"begin", "run", "commit", "end"}
    BY <1>1
  <2> QED BY <1>1, <2>1, Inside, Zenon DEF HasWriter, LockInv
<1>4. /\ th' = Answer(t, "end", <<"failed">>) /\ lock' = NoThread /\ faults' = faults + 1
      /\ UNCHANGED <<log, synced, writer, level, idle, calls, acked, warned>>
  BY Zenon DEF CommitFails, promises
<1>5. PICK pc, res : pc = "end" /\ res = <<"failed">>
  BY Zenon
<1>6. pc \in {"end", "give", "answered"} /\ res \in Results /\ th' = Answer(t, pc, res)
  BY <1>1, <1>2, <1>4, <1>5, Zenon
<1>7. faults \in Nat
  BY Inside, Zenon
<1>8. faults' \in Nat
  BY <1>4, <1>7
<1> QED BY <1>3, <1>4, <1>6, <1>8, AnswerStep, Inside, Zenon


(* SQLite's lock is taken. *)
LEMMA BeginStep ==
    ASSUME IInv, NEW t \in Threads, Begin(t)
    PROVE  IInv'
<1>1. PICK g : g = th[t]
  BY Zenon
<1>2. PICK h : h = [g EXCEPT !.pc = "run", !.tx = refs]
  BY Zenon
<1>3. g \in Frames /\ refs \in Maps
  BY <1>1, Inside, Zenon
<1>4. h \in Frames /\ h.pc = "run" /\ h.tx = refs /\ h.op = g.op /\ h.at = g.at
  BY <1>2, <1>3, Zenon DEF Frames
<1>5. th' = [th EXCEPT ![t] = h] /\ lock = NoThread /\ lock' = t
      /\ UNCHANGED <<log, synced, writer, level, idle, calls, faults, acked, warned>>
  BY <1>1, <1>2, Zenon DEF Begin, promises
<1>6. OnlyMoves(t) /\ th'[t] = h
  BY <1>4, <1>5, Moves, Inside, Zenon
<1>7. th[t].pc = "begin" /\ th[t].pc \in {"begin", "run", "commit", "end"}
      /\ th[t].pc \in {"mutex", "begin", "run", "commit"}
  BY DEF Begin
<1>8. HasWriter(t)
  BY <1>7, Zenon DEF HasWriter
<1>9. LevelInv(t)'
  BY <1>1, <1>4, <1>5, <1>6, <1>8, QuietLevel, Inside, Zenon
<1>10. "run" \in {"run", "commit"} /\ "run" \notin {"connect", "read"} /\ "run" # "commit"
       /\ "run" # "idle"
  OBVIOUS
<1>11. LockInv(t)'
  BY <1>4, <1>5, <1>6, <1>8, <1>10, Inside, Zenon DEF LockInv
<1>12. refs' = refs
  BY <1>5 DEF refs
<1>13. CallInv(t)'
  BY <1>1, <1>4, <1>6, <1>7, <1>10, <1>12, Inside, Zenon DEF CallInv
<1>14. ThreadInv(t)'
  BY <1>9, <1>11, <1>13, Zenon DEF ThreadInv
<1>15. \A u \in Threads : u # t => (lock' = u <=> lock = u)
  BY <1>5, RefAssumption, Zenon
<1> QED BY <1>5, <1>6, <1>14, <1>15, QuietStep, Inside, Zenon

(* The statements run. *)
LEMMA RunStep ==
    ASSUME IInv, NEW t \in Threads, Run(t)
    PROVE  IInv'
<1>1. PICK g : g = th[t]
  BY Zenon
<1>2. PICK r : r = Statements(g.tx, g.op)
  BY Zenon
<1>3. g \in Frames /\ refs \in Maps
  BY <1>1, Inside, Zenon
<1>4. g.pc = "run" /\ g.pc \in {"run", "commit"} /\ g.pc \in {"begin", "run", "commit", "end"}
      /\ g.pc \in {"mutex", "begin", "run", "commit"}
  BY <1>1 DEF Run
<1>5. g.tx = refs /\ g.op \in Ops /\ g.op.f \notin Reads /\ lock = t /\ HasWriter(t)
  BY <1>1, <1>4, Inside, Zenon DEF CallInv, LockInv, HasWriter
<1>6. Answers(refs, g.op, r)
  BY <1>2, <1>3, <1>5, StatementsAnswer, Zenon
<1>7. /\ IF r.err = "ok"
         THEN /\ th' = [th EXCEPT ![t] = [@ EXCEPT !.pc = "commit", !.tx = r.tx, !.res = <<"ok">>]]
              /\ UNCHANGED lock
         ELSE th' = Answer(t, "end", <<r.err>>) /\ lock' = NoThread
      /\ UNCHANGED <<log, synced, writer, level, idle, calls, faults, acked, warned>>
  BY <1>1, <1>2, Zenon DEF Run, promises
<1>8. CASE r.err # "ok"
  <2>1. r.err \in Errors
    BY <1>6, <1>8, Zenon DEF Answers
  <2>2. <<r.err>> \in Results /\ "end" \in {"end", "give", "answered"}
    BY <2>1, Zenon DEF Results, Errors
  <2>3. PICK pc, res : pc = "end" /\ res = <<r.err>>
    BY Zenon
  <2>4. pc \in {"end", "give", "answered"} /\ res \in Results /\ th' = Answer(t, pc, res)
    BY <1>7, <1>8, <2>2, <2>3, Zenon
  <2> QED BY <1>5, <1>7, <1>8, <2>4, AnswerStep, Inside, Zenon
<1>9. CASE r.err = "ok"
  <2>1. r = [err |-> "ok", tx |-> r.tx] /\ r.tx \in Maps
    <3>1. "ok" \notin Errors
      BY DEF Errors
    <3> QED BY <1>6, <1>9, <3>1, Zenon DEF Answers
  <2>2. <<"ok">> \in Results
    BY Zenon DEF Results
  <2>3. PICK tx, res : tx = r.tx /\ res = <<"ok">>
    BY Zenon
  <2>4. PICK h : h = [g EXCEPT !.pc = "commit", !.tx = tx, !.res = res]
    BY Zenon
  <2>5. h \in Frames /\ h.pc = "commit" /\ h.tx = tx /\ h.res = res /\ h.op = g.op /\ h.at = g.at
    BY <1>3, <2>1, <2>2, <2>3, <2>4, Zenon DEF Frames
  <2>6. th' = [th EXCEPT ![t] = h] /\ lock' = lock
    BY <1>1, <1>7, <1>9, <2>3, <2>4, Zenon
  <2>7. OnlyMoves(t) /\ th'[t] = h
    BY <2>5, <2>6, Moves, Inside, Zenon
  <2>8. LevelInv(t)'
    BY <1>1, <1>5, <1>7, <2>5, <2>7, QuietLevel, Inside, Zenon
  <2>9. "commit" \in {"run", "commit"} /\ "commit" \notin {"connect", "read"}
        /\ "commit" # "run" /\ "commit" # "idle"
    OBVIOUS
  <2>10. LockInv(t)'
    BY <1>5, <1>7, <2>5, <2>6, <2>7, <2>9, Inside, Zenon DEF LockInv
  <2>11. refs' = refs
    BY <1>7 DEF refs
  <2>12. Statements(refs, g.op) = [err |-> "ok", tx |-> tx]
    BY <1>2, <1>5, <2>1, <2>3, Zenon
  <2>13. Statements(refs, g.op)' = Statements(refs', g.op')
    BY Zenon
  <2>14. CallInv(t)'
    BY <1>5, <2>3, <2>5, <2>7, <2>9, <2>11, <2>12, Zenon DEF CallInv
  <2>15. ThreadInv(t)'
    BY <2>8, <2>10, <2>14, Zenon DEF ThreadInv
  <2> QED BY <1>7, <2>6, <2>7, <2>15, QuietStep, Inside, Zenon
<1> QED BY <1>8, <1>9

(* A reader connection is taken. *)
LEMMA ConnectStep ==
    ASSUME IInv, NEW t \in Threads, Connect(t)
    PROVE  IInv'
<1>1. PICK s : s = StoreOf[t]
  BY Zenon
<1>2. s \in Stores /\ idle \in [Stores -> 0 .. MaxIdle] /\ idle[s] \in 0 .. MaxIdle
  BY <1>1, Inside, Zenon
<1>3. PICK v : v = IF idle[s] > 0 THEN idle[s] - 1 ELSE 0
  BY Zenon
<1>4. v \in 0 .. MaxIdle
  BY <1>2, <1>3, RefAssumption
<1>5. /\ th[t].pc = "connect" /\ idle' = [idle EXCEPT ![s] = v]
      /\ (th' = Goto(t, "read") \/ th' = Answer(t, "answered", <<"failed">>))
      /\ UNCHANGED <<log, synced, lock, writer, level, calls, faults, acked, warned>>
  BY <1>1, <1>3, Zenon DEF Connect, promises
<1>6. idle' \in [Stores -> 0 .. MaxIdle]
  BY <1>2, <1>4, <1>5, Zenon
<1>7. th[t].pc \notin {"run", "commit"} /\ th[t].pc \in {"connect", "read"}
      /\ th[t].pc \notin {"begin", "run", "commit", "end"}
  BY <1>5
<1>8. lock # t
  BY <1>7, NoLock, Zenon
<1>9. CASE th' = Answer(t, "answered", <<"failed">>)
  <2>1. <<"failed">> \in Results
    BY Zenon DEF Results
  <2>2. PICK pc, res : pc = "answered" /\ res = <<"failed">>
    BY Zenon
  <2>3. pc \in {"end", "give", "answered"} /\ pc # "end"
    BY <2>2
  <2> QED BY <1>5, <1>6, <1>8, <1>9, <2>1, <2>2, <2>3, AnswerStep, Inside, Zenon
<1>10. CASE th' = Goto(t, "read")
  <2>1. "read" \in PCs /\ "read" \notin {"begin", "run", "commit", "end"}
        /\ "read" \notin {"mutex", "begin", "run", "commit"} /\ "read" \notin {"run", "commit"}
        /\ "read" # "idle" /\ "read" # "run" /\ "read" # "commit"
    BY DEF PCs
  <2>2. PICK pc : pc = "read"
    BY Zenon
  <2>3. /\ OnlyMoves(t) /\ th'[t].pc = "read" /\ th'[t].op = th[t].op /\ th'[t].at = th[t].at
    BY <1>10, <2>1, <2>2, GotoMoves, Inside, Zenon
  <2>4. ~HasWriter(t)'
    BY <2>1, <2>3, Zenon DEF HasWriter
  <2>5. LevelInv(t)'
    BY <1>5, <2>3, <2>4, QuietLevel, Inside, Zenon
  <2>6. LockInv(t)'
    BY <1>5, <1>8, <2>1, <2>3, <2>4, Zenon DEF LockInv
  <2>7. CallInv(t)'
    BY <1>7, <2>1, <2>3, Inside, Zenon DEF CallInv
  <2>8. ThreadInv(t)'
    BY <2>5, <2>6, <2>7, Zenon DEF ThreadInv
  <2> QED BY <1>5, <1>6, <2>3, <2>8, QuietStep, Inside, Zenon
<1> QED BY <1>5, <1>9, <1>10

(* A statement reads. *)
LEMMA ReadStep ==
    ASSUME IInv, NEW t \in Threads, Read(t)
    PROVE  IInv'
<1>1. /\ th[t].pc = "read"
      /\ UNCHANGED <<log, synced, lock, writer, level, idle, calls, faults, acked, warned>>
  BY Zenon DEF Read, promises
<1>2. th[t].pc \notin {"run", "commit"} /\ th[t].pc \in {"connect", "read"}
  BY <1>1
<1>3. lock # t /\ refs \in Maps /\ th[t].op \in Ops
  BY <1>2, NoLock, Inside, Zenon DEF CallInv
<1>4. PICK op, r : op = th[t].op /\ r = refs
  BY Zenon
<1>5. op.name \in Names /\ r[op.name] \in Records \cup {Absent}
  BY <1>3, <1>4, OpsAssumption, Zenon DEF Maps
<1>6. \E pc \in {"give", "answered"}, res \in Results : th' = Answer(t, pc, res)
  <2>1. <<"found", r>> \in Results /\ <<"NotFound">> \in Results /\ <<"failed">> \in Results
    BY <1>3, <1>4, Zenon DEF Results
  <2>2. r[op.name] # Absent => <<"found", r[op.name]>> \in Results
    BY <1>5, Zenon DEF Results
  <2>3. PICK res : res = IF r[op.name] = Absent THEN <<"NotFound">> ELSE <<"found", r[op.name]>>
    BY Zenon
  <2>4. res \in Results
    BY <2>1, <2>2, <2>3, Zenon
  <2>5. \/ th' = Answer(t, "give", <<"found", r>>)
        \/ th' = Answer(t, "give", res)
        \/ th' = Answer(t, "answered", <<"failed">>)
    BY <1>4, <2>3, Zenon DEF Read
  <2>6. "give" \in {"give", "answered"} /\ "answered" \in {"give", "answered"}
    OBVIOUS
  <2> QED BY <2>1, <2>4, <2>5, <2>6, Zenon
<1>7. PICK pc \in {"give", "answered"}, res \in Results : th' = Answer(t, pc, res)
  BY <1>6
<1>8. pc \in {"end", "give", "answered"} /\ pc # "end"
  OBVIOUS
<1> QED BY <1>1, <1>3, <1>7, <1>8, AnswerStep, Inside, Zenon

(* A reader connection goes back. *)
LEMMA GiveStep ==
    ASSUME IInv, NEW t \in Threads, Give(t)
    PROVE  IInv'
<1>1. PICK s : s = StoreOf[t]
  BY Zenon
<1>2. s \in Stores /\ idle \in [Stores -> 0 .. MaxIdle] /\ idle[s] \in 0 .. MaxIdle
  BY <1>1, Inside, Zenon
<1>3. PICK v : v = IF idle[s] < MaxIdle THEN idle[s] + 1 ELSE idle[s]
  BY Zenon
<1>4. v \in 0 .. MaxIdle
  BY <1>2, <1>3, RefAssumption
<1>5. /\ th[t].pc = "give" /\ idle' = [idle EXCEPT ![s] = v] /\ th' = Goto(t, "answered")
      /\ UNCHANGED <<log, synced, lock, writer, level, calls, faults, acked, warned>>
  BY <1>1, <1>3, Zenon DEF Give, promises
<1>6. idle' \in [Stores -> 0 .. MaxIdle]
  BY <1>2, <1>4, <1>5, Zenon
<1>7. th[t].pc \notin {"run", "commit"}
  BY <1>5
<1>8. lock # t
  BY <1>7, NoLock, Zenon
<1>9. "answered" \in PCs /\ "answered" \notin {"begin", "run", "commit", "end"}
      /\ "answered" \notin {"mutex", "begin", "run", "commit"} /\ "answered" \notin {"run", "commit"}
      /\ "answered" # "idle" /\ "answered" # "run" /\ "answered" # "commit"
      /\ "answered" \notin {"connect", "read"}
  BY DEF PCs
<1>10. PICK pc : pc = "answered"
  BY Zenon
<1>11. /\ OnlyMoves(t) /\ th'[t].pc = "answered" /\ th'[t].op = th[t].op /\ th'[t].at = th[t].at
  BY <1>5, <1>9, <1>10, GotoMoves, Inside, Zenon
<1>12. ~HasWriter(t)'
  BY <1>9, <1>11, Zenon DEF HasWriter
<1>13. LevelInv(t)'
  BY <1>5, <1>11, <1>12, QuietLevel, Inside, Zenon
<1>14. LockInv(t)'
  BY <1>5, <1>8, <1>9, <1>11, <1>12, Zenon DEF LockInv
<1>15. CallInv(t)'
  BY <1>9, <1>11, Zenon DEF CallInv
<1>16. ThreadInv(t)'
  BY <1>13, <1>14, <1>15, Zenon DEF ThreadInv
<1> QED BY <1>5, <1>6, <1>11, <1>16, QuietStep, Inside, Zenon


(* A step of a thread on its own store's mutex and connection. *)
LEMMA WriterStep ==
    ASSUME IInv, NEW t \in Threads, OnlyMoves(t), ThreadInv(t)',
           NEW w \in {t, NoThread}, NEW l \in {"FULL", "NORMAL"},
           writer' = [writer EXCEPT ![StoreOf[t]] = w], level' = [level EXCEPT ![StoreOf[t]] = l],
           writer[StoreOf[t]] \in {t, NoThread}, warned' \in {warned, warned \cup {StoreOf[t]}},
           Sync /\ w = NoThread => l = "FULL" \/ StoreOf[t] \in warned', faults' \in Nat,
           UNCHANGED <<log, synced, lock, idle, calls, acked>>
    PROVE  IInv'
<1>1. PICK s : s = StoreOf[t]
  BY Zenon
<1>2. s \in Stores /\ writer \in [Stores -> Threads \cup {NoThread}]
      /\ level \in [Stores -> {"FULL", "NORMAL"}]
  BY <1>1, Inside, Zenon DEF IInv, TypeOK
<1>3. /\ writer' \in [Stores -> Threads \cup {NoThread}] /\ level' \in [Stores -> {"FULL", "NORMAL"}]
      /\ writer'[s] = w /\ level'[s] = l
      /\ \A z \in Stores : z # s => writer'[z] = writer[z] /\ level'[z] = level[z]
  <2>1. w \in Threads \cup {NoThread}
    BY Zenon
  <2> QED BY <1>1, <1>2, <2>1, Zenon
<1>4. TypeOK'
  <2>1. warned' \in SUBSET Stores
    BY <1>1, <1>2, Zenon DEF IInv, TypeOK
  <2> QED BY <1>3, <2>1, Zenon DEF IInv, TypeOK, OnlyMoves
<1>5. AckedDurable' /\ \A z : z \notin warned' => z \notin warned
  BY Zenon DEF IInv, AckedDurable
<1>6. refs' = refs
  BY DEF refs
<1>7. /\ synced \in Nat /\ synced <= synced /\ \A u \in Threads : th[u].at \in Nat
      /\ Len(log) \in Nat /\ Len(log) <= Len(log)
  BY Typed DEF IInv
<1>8. ASSUME NEW u \in Threads, u # t PROVE ThreadInv(u)'
  <2>1. ThreadInv(u) /\ StoreOf[u] \in Stores
    BY Inside, Zenon DEF ThreadInv
  <2>2. th'[u] = th[u] /\ (lock' = u <=> lock = u)
    BY <1>8, Zenon DEF OnlyMoves
  <2>3. HasWriter(u) => StoreOf[u] # s
    <3>1. u # NoThread
      BY RefAssumption, Zenon
    <3> QED BY <1>1, <1>8, <2>1, <3>1, Zenon DEF ThreadInv, LockInv
  <2>4. HasWriter(u) => /\ writer'[StoreOf[u]] = writer[StoreOf[u]]
                        /\ level'[StoreOf[u]] = level[StoreOf[u]]
    BY <1>3, <2>1, <2>3, Zenon
  <2> QED BY <1>5, <1>6, <1>7, <2>1, <2>2, <2>4, OtherKept, Zenon
<1>9. \A u \in Threads : ThreadInv(u)'
  BY <1>8, Zenon
<1>10. \A z \in Stores \ warned' : Sync /\ writer'[z] = NoThread => level'[z] = "FULL"
  BY <1>1, <1>3, <1>5, Zenon DEF IInv
<1> QED BY <1>4, <1>5, <1>9, <1>10, Zenon DEF IInv, ThreadInv

(* The writer mutex is taken. *)
LEMMA TakeWriterStep ==
    ASSUME IInv, NEW t \in Threads, TakeWriter(t)
    PROVE  IInv'
<1>1. PICK s : s = StoreOf[t]
  BY Zenon
<1>2. PICK l : l = IF Lowers(t) THEN "NORMAL" ELSE level[s]
  BY Zenon
<1>3. s \in Stores /\ level \in [Stores -> {"FULL", "NORMAL"}]
      /\ writer \in [Stores -> Threads \cup {NoThread}]
  BY <1>1, Inside, Zenon DEF IInv, TypeOK
<1>4. l \in {"FULL", "NORMAL"}
  BY <1>2, <1>3, Zenon
<1>5. /\ th[t].pc = "mutex" /\ writer[s] = NoThread /\ th' = Goto(t, "begin")
      /\ writer' = [writer EXCEPT ![s] = t] /\ level' = [level EXCEPT ![s] = l]
      /\ UNCHANGED <<log, synced, lock, idle, calls, faults, acked, warned>>
  BY <1>1, <1>2, Zenon DEF TakeWriter, promises
<1>6. "begin" \in PCs /\ "begin" \in {"mutex", "begin", "run", "commit"}
      /\ "begin" \notin {"run", "commit"} /\ "begin" \notin {"connect", "read"}
      /\ "begin" # "idle" /\ "begin" # "run" /\ "begin" # "commit"
      /\ "mutex" \in {"mutex", "begin", "run", "commit"} /\ "mutex" \notin {"run", "commit"}
  BY DEF PCs
<1>7. PICK pc : pc = "begin"
  BY Zenon
<1>8. /\ OnlyMoves(t) /\ th'[t].pc = "begin" /\ th'[t].op = th[t].op /\ th'[t].at = th[t].at
  BY <1>5, <1>6, <1>7, GotoMoves, Inside, Zenon
<1>9. lock # t
  BY <1>5, <1>6, NoLock, Zenon
<1>10. writer'[s] = t /\ level'[s] = l
  BY <1>3, <1>5, Zenon
<1>11. LockInv(t)'
  BY <1>1, <1>5, <1>6, <1>8, <1>9, <1>10, Zenon DEF LockInv
<1>12. Sync /\ s \notin warned => level[s] = "FULL"
  BY <1>3, <1>5, Zenon DEF IInv
<1>13. LevelInv(t)'
  BY <1>1, <1>2, <1>5, <1>8, <1>10, <1>12, Inside, Zenon DEF LevelInv, Lowers
<1>14. CallInv(t)'
  BY <1>5, <1>6, <1>8, Inside, Zenon DEF CallInv
<1>15. ThreadInv(t)'
  BY <1>11, <1>13, <1>14, Zenon DEF ThreadInv
<1>16. PICK w : w = t
  BY Zenon
<1>17. w \in {t, NoThread} /\ w # NoThread /\ faults' \in Nat /\ warned' = warned
       /\ writer[StoreOf[t]] \in {t, NoThread} /\ writer' = [writer EXCEPT ![StoreOf[t]] = w]
       /\ level' = [level EXCEPT ![StoreOf[t]] = l]
  BY <1>1, <1>5, <1>16, RefAssumption, Inside, Zenon
<1> QED BY <1>4, <1>5, <1>8, <1>15, <1>17, WriterStep, Zenon

(* The writer mutex is let go. *)
LEMMA LetWriterGoStep ==
    ASSUME IInv, NEW t \in Threads, LetWriterGo(t)
    PROVE  IInv'
<1>1. PICK s : s = StoreOf[t]
  BY Zenon
<1>2. PICK l : l = IF Lowers(t) THEN "FULL" ELSE level[s]
  BY Zenon
<1>3. s \in Stores /\ level \in [Stores -> {"FULL", "NORMAL"}]
  BY <1>1, Inside, Zenon DEF IInv, TypeOK
<1>4. l \in {"FULL", "NORMAL"}
  BY <1>2, <1>3, Zenon
<1>5. /\ th[t].pc = "end" /\ th' = Goto(t, "answered")
      /\ writer' = [writer EXCEPT ![s] = NoThread] /\ level' = [level EXCEPT ![s] = l]
      /\ UNCHANGED <<log, synced, lock, idle, calls, faults, acked, warned>>
  BY <1>1, <1>2, Zenon DEF LetWriterGo, promises
<1>6. "answered" \in PCs /\ "answered" \notin {"mutex", "begin", "run", "commit"}
      /\ "answered" \notin {"run", "commit"} /\ "answered" \notin {"connect", "read"}
      /\ "answered" # "idle" /\ "answered" # "run" /\ "answered" # "commit"
      /\ "answered" \notin {"begin", "run", "commit", "end"}
      /\ "end" \in {"begin", "run", "commit", "end"} /\ "end" \notin {"run", "commit"}
  BY DEF PCs
<1>7. PICK pc, w : pc = "answered" /\ w = NoThread
  BY Zenon
<1>8. /\ OnlyMoves(t) /\ th'[t].pc = "answered" /\ th'[t].op = th[t].op /\ th'[t].at = th[t].at
  BY <1>5, <1>6, <1>7, GotoMoves, Inside, Zenon
<1>9. lock # t /\ HasWriter(t)
  BY <1>5, <1>6, NoLock, Zenon DEF HasWriter
<1>10. ~HasWriter(t)' /\ writer[StoreOf[t]] = t
  BY <1>6, <1>8, <1>9, Inside, Zenon DEF HasWriter, LockInv
<1>11. LockInv(t)'
  BY <1>5, <1>6, <1>8, <1>9, <1>10, Zenon DEF LockInv
<1>12. LevelInv(t)'
  BY <1>5, <1>8, <1>10, Inside, Zenon DEF LevelInv
<1>13. CallInv(t)'
  BY <1>6, <1>8, Zenon DEF CallInv
<1>14. ThreadInv(t)'
  BY <1>11, <1>12, <1>13, Zenon DEF ThreadInv
<1>15. Sync => l = "FULL" \/ StoreOf[t] \in warned'
  BY <1>1, <1>2, <1>5, <1>9, Inside, Zenon DEF LevelInv, Lowers
<1>16. w \in {t, NoThread} /\ faults' \in Nat /\ warned' = warned
       /\ writer[StoreOf[t]] \in {t, NoThread} /\ writer' = [writer EXCEPT ![StoreOf[t]] = w]
       /\ level' = [level EXCEPT ![StoreOf[t]] = l]
  BY <1>1, <1>2, <1>5, <1>7, <1>10, Inside, Zenon
<1> QED BY <1>4, <1>5, <1>8, <1>14, <1>15, <1>16, WriterStep, Zenon

(* Neither PRAGMA of a volatile write can be relied on: the connection keeps  *)
(* its level if it cannot be lowered ...                                     *)
LEMMA LowerFailsStep ==
    ASSUME IInv, NEW t \in Threads, LowerFails(t)
    PROVE  IInv'
<1>1. th[t].pc \notin {"run", "commit"} /\ "answered" \in {"end", "give", "answered"}
      /\ "answered" # "end"
  BY DEF LowerFails
<1>2. <<"failed">> \in Results
  BY Zenon DEF Results
<1>3. lock # t
  BY <1>1, NoLock, Zenon
<1>4. /\ th' = Answer(t, "answered", <<"failed">>) /\ faults' = faults + 1
      /\ UNCHANGED <<log, synced, lock, writer, level, idle, calls, acked, warned>>
  BY Zenon DEF LowerFails, promises
<1>5. PICK pc, res : pc = "answered" /\ res = <<"failed">>
  BY Zenon
<1>6. pc \in {"end", "give", "answered"} /\ res \in Results /\ th' = Answer(t, pc, res)
      /\ pc # "end"
  BY <1>1, <1>2, <1>4, <1>5, Zenon
<1>7. faults \in Nat
  BY Inside, Zenon
<1>8. faults' \in Nat
  BY <1>4, <1>7
<1> QED BY <1>3, <1>4, <1>6, <1>8, AnswerStep, Inside, Zenon

(* ... and stays at NORMAL if it cannot be raised again; the store is warned. *)
LEMMA RestoreFailsStep ==
    ASSUME IInv, NEW t \in Threads, RestoreFails(t)
    PROVE  IInv'
<1>1. PICK s, l : s = StoreOf[t] /\ l = level[s]
  BY Zenon
<1>2. s \in Stores /\ level \in [Stores -> {"FULL", "NORMAL"}]
  BY <1>1, Inside, Zenon DEF IInv, TypeOK
<1>3. l \in {"FULL", "NORMAL"} /\ level = [level EXCEPT ![s] = l]
  BY <1>1, <1>2, Zenon
<1>4. /\ th[t].pc = "end" /\ th' = Answer(t, "answered", <<"failed">>) /\ faults' = faults + 1
      /\ writer' = [writer EXCEPT ![s] = NoThread] /\ warned' = warned \cup {s}
      /\ UNCHANGED <<log, synced, lock, level, idle, calls, acked>>
  BY <1>1, Zenon DEF RestoreFails
<1>5. "answered" \in PCs /\ "answered" \notin {"mutex", "begin", "run", "commit"}
      /\ "answered" \notin {"run", "commit"} /\ "answered" \notin {"connect", "read"}
      /\ "answered" # "idle" /\ "answered" # "run" /\ "answered" # "commit"
      /\ "answered" \notin {"begin", "run", "commit", "end"}
      /\ "end" \in {"begin", "run", "commit", "end"} /\ "end" \notin {"run", "commit"}
  BY DEF PCs
<1>6. PICK pc, w, res : pc = "answered" /\ w = NoThread /\ res = <<"failed">>
  BY Zenon
<1>7. res \in Results
  BY <1>6, Zenon DEF Results
<1>8. /\ OnlyMoves(t) /\ th'[t].pc = "answered" /\ th'[t].op = th[t].op /\ th'[t].at = th[t].at
  BY <1>4, <1>5, <1>6, <1>7, AnswerMoves, Inside, Zenon
<1>9. lock # t /\ HasWriter(t)
  BY <1>4, <1>5, NoLock, Zenon DEF HasWriter
<1>10. ~HasWriter(t)' /\ writer[StoreOf[t]] = t
  BY <1>5, <1>8, <1>9, Inside, Zenon DEF HasWriter, LockInv
<1>11. LockInv(t)'
  BY <1>4, <1>5, <1>8, <1>9, <1>10, Zenon DEF LockInv
<1>12. LevelInv(t)'
  BY <1>1, <1>4, <1>8, <1>10, Inside, Zenon DEF LevelInv
<1>13. CallInv(t)'
  BY <1>5, <1>8, Zenon DEF CallInv
<1>14. ThreadInv(t)'
  BY <1>11, <1>12, <1>13, Zenon DEF ThreadInv
<1>15. faults \in Nat
  BY Inside, Zenon
<1>16. faults' \in Nat
  BY <1>4, <1>15
<1>17. w \in {t, NoThread} /\ StoreOf[t] \in warned' /\ warned' = warned \cup {StoreOf[t]}
       /\ writer[StoreOf[t]] \in {t, NoThread} /\ writer' = [writer EXCEPT ![StoreOf[t]] = w]
       /\ level' = [level EXCEPT ![StoreOf[t]] = l]
  BY <1>1, <1>3, <1>4, <1>6, <1>10, Zenon
<1> QED BY <1>3, <1>4, <1>8, <1>14, <1>16, <1>17, WriterStep, Zenon

(* The commit. *)
LEMMA CommitStep ==
    ASSUME IInv, NEW t \in Threads, Commit(t)
    PROVE  IInv'
<1>1. PICK g : g = th[t]
  BY Zenon
<1>2. PICK n : n = Len(log) + 1
  BY Zenon
<1>3. /\ Len(log) \in Nat /\ synced \in Nat /\ synced <= Len(log) /\ 1 <= synced
      /\ \A u \in Threads : th[u].at \in Nat
  BY Typed DEF IInv
<1>4. n \in Nat /\ synced <= n /\ 1 <= n /\ n <= n
  BY <1>2, <1>3
<1>5. PICK h : h = [g EXCEPT !.pc = "end", !.at = n]
  BY Zenon
<1>6. g \in Frames
  BY <1>1, Inside, Zenon
<1>7. h \in Frames /\ h.pc = "end" /\ h.at = n /\ h.op = g.op
  BY <1>4, <1>5, <1>6, Zenon DEF Frames
<1>8. /\ th[t].pc = "commit" /\ log' = Append(log, g.tx) /\ lock' = NoThread
      /\ synced' = IF level[StoreOf[t]] = "FULL" THEN n ELSE synced
      /\ th' = [th EXCEPT ![t] = h]
      /\ warned' = IF level[StoreOf[t]] = "FULL" THEN warned \ {StoreOf[t]} ELSE warned
      /\ UNCHANGED <<writer, level, idle, calls, faults, acked>>
  BY <1>1, <1>2, <1>5, Zenon DEF Commit
<1>9. OnlyMoves(t) /\ th'[t] = h
  BY <1>7, <1>8, Moves, Inside, Zenon
<1>10. log' \in Seq(Maps) /\ Len(log') = n
  <2>1. log \in Seq(Maps) /\ g.tx \in Maps
    BY <1>6, Zenon DEF IInv, TypeOK, Frames
  <2> QED BY <1>2, <1>8, <2>1
<1>11. synced' \in 1 .. Len(log') /\ synced' \in Nat /\ synced <= synced'
  BY <1>3, <1>4, <1>8, <1>10
<1>12. TypeOK'
  <2>1. \A z \in Stores : acked[z] \in 0 .. Len(log')
    BY <1>2, <1>3, <1>10, Typed DEF IInv
  <2>2. acked \in [Stores -> 0 .. Len(log')]
    BY <2>1, Zenon DEF IInv, TypeOK
  <2>3. warned' \in SUBSET Stores
    BY <1>8, Zenon DEF IInv, TypeOK
  <2> QED BY <1>8, <1>9, <1>10, <1>11, <2>2, <2>3, Zenon DEF IInv, TypeOK, OnlyMoves
<1>13. AckedDurable'
  <2> SUFFICES ASSUME Sync, NEW z \in Stores, z \notin warned' PROVE acked[z] <= synced'
    BY <1>8, Zenon DEF AckedDurable
  <2>1. acked[z] \in Nat /\ acked[z] <= Len(log)
    BY Typed, Zenon DEF IInv
  <2>2. CASE z \notin warned
    <3>1. acked[z] <= synced
      BY <2>2, Zenon DEF IInv, AckedDurable
    <3> QED BY <1>3, <1>11, <2>1, <3>1
  <2>3. CASE z \in warned
    <3>1. synced' = n
      BY <1>8, <2>3, Zenon
    <3> QED BY <1>2, <1>3, <2>1, <3>1
  <2> QED BY <2>2, <2>3
<1>14. "commit" \in {"run", "commit"} /\ "commit" \in {"begin", "run", "commit", "end"}
       /\ "end" \notin {"run", "commit"} /\ "end" \notin {"mutex", "begin", "run", "commit"}
       /\ "end" \notin {"connect", "read"} /\ "end" # "idle" /\ "end" # "run" /\ "end" # "commit"
  OBVIOUS
<1>15. lock = t /\ HasWriter(t) /\ NoThread \notin Threads
  BY <1>8, <1>14, Inside, RefAssumption, Zenon DEF LockInv, HasWriter
<1>16. ASSUME NEW u \in Threads, u # t PROVE ThreadInv(u)'
  <2>1. ThreadInv(u)
    BY Zenon DEF IInv, ThreadInv
  <2>2. th'[u] = th[u] /\ lock # u /\ (lock' = u <=> lock = u)
    BY <1>8, <1>9, <1>15, <1>16, Zenon DEF OnlyMoves
  <2>3. Len(log') \in Nat /\ Len(log) <= Len(log')
    BY <1>2, <1>3, <1>10
  <2>4. \/ StoreOf[u] \notin warned' => StoreOf[u] \notin warned
        \/ th[u].at <= synced' /\ ~HasWriter(u)
    <3>1. CASE level[StoreOf[t]] = "FULL" /\ StoreOf[u] = StoreOf[t]
      <4>1. th[u].at <= Len(log) /\ th[u].at \in Nat /\ synced' = n
        BY <1>3, <1>8, <2>1, <3>1, Zenon DEF ThreadInv, LevelInv
      <4>2. th[u].at <= synced'
        BY <1>2, <1>3, <4>1
      <4>3. ~HasWriter(u)
        BY <1>15, <1>16, <2>1, <3>1, Inside, Zenon DEF ThreadInv, LockInv
      <4> QED BY <4>2, <4>3
    <3>2. CASE ~(level[StoreOf[t]] = "FULL" /\ StoreOf[u] = StoreOf[t])
      BY <1>8, <3>2, Zenon
    <3> QED BY <3>1, <3>2
  <2> QED BY <1>3, <1>8, <1>11, <2>1, <2>2, <2>3, <2>4, OtherKept, Zenon
<1>17. LockInv(t)'
  BY <1>7, <1>8, <1>9, <1>14, <1>15, Inside, Zenon DEF LockInv
<1>18. LevelInv(t)'
  <2>1. Sync /\ th[t].op.f \notin Volatile /\ StoreOf[t] \notin warned' => level[StoreOf[t]] = "FULL"
    BY <1>8, <1>15, Inside, Zenon DEF LevelInv
  <2> QED BY <1>1, <1>4, <1>7, <1>8, <1>9, <1>10, <2>1, Zenon DEF LevelInv
<1>19. CallInv(t)'
  BY <1>7, <1>9, <1>14, Zenon DEF CallInv
<1>20. \A u \in Threads : ThreadInv(u)'
  BY <1>16, <1>17, <1>18, <1>19, Zenon DEF ThreadInv
<1>21. \A s \in Stores \ warned' : Sync /\ writer'[s] = NoThread => level'[s] = "FULL"
  BY <1>8, <1>15, Inside, Zenon DEF IInv, LockInv
<1> QED BY <1>12, <1>13, <1>20, <1>21, Zenon DEF IInv, ThreadInv

(* The caller has its answer. *)
LEMMA ReturnStep ==
    ASSUME IInv, NEW t \in Threads, Return(t)
    PROVE  IInv'
<1>1. /\ th[t].pc = "answered" /\ th' = [th EXCEPT ![t] = Idle]
      /\ acked' = IF th[t].op.f \notin Reads \cup Volatile /\ th[t].at > acked[StoreOf[t]]
                  THEN [acked EXCEPT ![StoreOf[t]] = th[t].at] ELSE acked
      /\ UNCHANGED <<log, synced, lock, writer, level, idle, calls, faults, warned>>
  BY Zenon DEF Return
<1>2. PICK h : h = Idle
  BY Zenon
<1>3. OnlyMoves(t) /\ th'[t] = Idle
  BY <1>1, <1>2, IdleFrame, Moves, Inside, Zenon
<1>4. /\ synced \in Nat /\ synced <= synced /\ \A u \in Threads : th[u].at \in Nat
      /\ Len(log) \in Nat /\ Len(log) <= Len(log)
  BY Typed DEF IInv
<1>5. acked' \in [Stores -> 0 .. Len(log)]
  <2>1. th[t].at <= Len(log)
    BY Inside, Zenon DEF LevelInv
  <2>2. th[t].at \in 0 .. Len(log)
    BY <1>4, <2>1
  <2> QED BY <1>1, <2>2, Inside, Zenon DEF IInv, TypeOK
<1>6. AckedDurable'
  <2> SUFFICES ASSUME Sync, NEW z \in Stores, z \notin warned PROVE acked'[z] <= synced
    BY <1>1, Zenon DEF AckedDurable
  <2>1. acked[z] <= synced
    BY Zenon DEF IInv, AckedDurable
  <2>2. CASE acked'[z] = acked[z]
    BY <2>1, <2>2, Zenon
  <2>3. CASE z = StoreOf[t] /\ acked'[z] = th[t].at /\ th[t].op.f \notin Volatile
    BY <2>3, Inside, Zenon DEF LevelInv
  <2>4. acked \in [Stores -> 0 .. Len(log)]
    BY Zenon DEF IInv, TypeOK
  <2> QED BY <1>1, <2>2, <2>3, <2>4, Zenon
<1>7. TypeOK'
  BY <1>1, <1>3, <1>5, Zenon DEF IInv, TypeOK, OnlyMoves
<1>8. th[t].pc \notin {"run", "commit"}
  BY <1>1
<1>9. lock' # t
  BY <1>1, <1>8, NoLock, Zenon
<1>10. ThreadInv(t)'
  BY <1>1, <1>3, <1>4, <1>9, IdleInv, Zenon
<1>11. refs' = refs
  BY <1>1 DEF refs
<1>12. ASSUME NEW u \in Threads, u # t PROVE ThreadInv(u)'
  <2>1. ThreadInv(u)
    BY Zenon DEF IInv, ThreadInv
  <2>2. th'[u] = th[u]
    BY <1>3, <1>12, Zenon DEF OnlyMoves
  <2> QED BY <1>1, <1>4, <1>11, <2>1, <2>2, OtherKept, Zenon
<1>13. \A u \in Threads : ThreadInv(u)'
  BY <1>10, <1>12, Zenon
<1>14. \A s \in Stores \ warned' : Sync /\ writer'[s] = NoThread => level'[s] = "FULL"
  BY <1>1, Zenon DEF IInv
<1> QED BY <1>6, <1>7, <1>13, <1>14, Zenon DEF IInv, ThreadInv


(* A process dies. *)
LEMMA CrashStep ==
    ASSUME IInv, NEW s \in Stores, Crash(s)
    PROVE  IInv'
<1>1. PICK dead : dead = {t \in Threads : StoreOf[t] = s}
  BY Zenon
<1>2. PICK l : l = IF Sync THEN "FULL" ELSE "NORMAL"
  BY Zenon
<1>3. l \in {"FULL", "NORMAL"} /\ (Sync => l = "FULL")
  BY <1>2, Zenon
<1>4. /\ faults' = faults + 1 /\ lock' = IF lock \in dead THEN NoThread ELSE lock
      /\ th' = [t \in Threads |-> IF t \in dead THEN Idle ELSE th[t]]
      /\ writer' = [writer EXCEPT ![s] = NoThread] /\ level' = [level EXCEPT ![s] = l]
      /\ idle' = [idle EXCEPT ![s] = 0]
      /\ UNCHANGED <<log, synced, calls, acked, warned>>
  BY <1>1, <1>2, Zenon DEF Crash, promises
<1>5. /\ lock \in Threads \cup {NoThread} /\ writer \in [Stores -> Threads \cup {NoThread}]
      /\ level \in [Stores -> {"FULL", "NORMAL"}] /\ idle \in [Stores -> 0 .. MaxIdle]
      /\ th \in [Threads -> Frames] /\ faults \in Nat
  BY Zenon DEF IInv, TypeOK
<1>6. /\ writer' \in [Stores -> Threads \cup {NoThread}] /\ level' \in [Stores -> {"FULL", "NORMAL"}]
      /\ writer'[s] = NoThread /\ level'[s] = l
      /\ \A z \in Stores : z # s => writer'[z] = writer[z] /\ level'[z] = level[z]
  BY <1>3, <1>4, <1>5, Zenon
<1>7. idle' \in [Stores -> 0 .. MaxIdle]
  <2>1. 0 \in 0 .. MaxIdle
    BY RefAssumption
  <2> QED BY <1>4, <1>5, <2>1, Zenon
<1>8. th' \in [Threads -> Frames]
  BY <1>4, <1>5, IdleFrame, Zenon
<1>9. faults' \in Nat
  BY <1>4, <1>5
<1>10. TypeOK'
  BY <1>4, <1>5, <1>6, <1>7, <1>8, <1>9, Zenon DEF IInv, TypeOK
<1>11. AckedDurable'
  BY <1>4, Zenon DEF IInv, AckedDurable
<1>12. refs' = refs
  BY <1>4 DEF refs
<1>13. /\ synced \in Nat /\ synced <= synced /\ \A u \in Threads : th[u].at \in Nat
      /\ Len(log) \in Nat /\ Len(log) <= Len(log)
  BY Typed DEF IInv
<1>14. ASSUME NEW u \in Threads PROVE ThreadInv(u)'
  <2>1. CASE u \in dead
    <3>1. th'[u] = Idle /\ lock' # u
      BY <1>4, <2>1, RefAssumption, Zenon
    <3> QED BY <1>4, <1>13, <3>1, IdleInv, Zenon
  <2>2. CASE u \notin dead
    <3>1. ThreadInv(u) /\ StoreOf[u] \in Stores /\ StoreOf[u] # s
      BY <1>1, <2>2, Inside, Zenon DEF ThreadInv
    <3>2. th'[u] = th[u]
      BY <1>4, <2>2, Zenon
    <3>3. lock' = u <=> lock = u
      BY <1>4, <2>2, RefAssumption, Zenon
    <3>4. writer'[StoreOf[u]] = writer[StoreOf[u]] /\ level'[StoreOf[u]] = level[StoreOf[u]]
      BY <1>6, <3>1, Zenon
    <3> QED BY <1>4, <1>12, <1>13, <3>1, <3>2, <3>3, <3>4, OtherKept, Zenon
  <2> QED BY <2>1, <2>2
<1>15. \A z \in Stores \ warned' : Sync /\ writer'[z] = NoThread => level'[z] = "FULL"
  BY <1>3, <1>4, <1>6, Zenon DEF IInv
<1> QED BY <1>10, <1>11, <1>14, <1>15, Zenon DEF IInv, ThreadInv

(* The machine goes down. *)
LEMMA PowerLossStep ==
    ASSUME IInv, PowerLoss
    PROVE  IInv'
<1>1. PICK l : l = IF Sync THEN "FULL" ELSE "NORMAL"
  BY Zenon
<1>2. l \in {"FULL", "NORMAL"} /\ (Sync => l = "FULL")
  BY <1>1, Zenon
<1>3. /\ faults' = faults + 1 /\ lock' = NoThread /\ th' = [t \in Threads |-> Idle]
      /\ writer' = [s \in Stores |-> NoThread] /\ idle' = [s \in Stores |-> 0]
      /\ level' = [s \in Stores |-> l] /\ warned' = {} /\ UNCHANGED calls
  BY <1>1, Zenon DEF PowerLoss
<1>4. PICK n \in synced .. Len(log) :
          /\ log' = SubSeq(log, 1, n) /\ synced' = n
          /\ acked' = [s \in Stores |-> IF acked[s] > n THEN n ELSE acked[s]]
  BY Zenon DEF PowerLoss
<1>5. /\ log \in Seq(Maps) /\ Len(log) \in Nat /\ synced \in Nat /\ 1 <= synced
      /\ faults \in Nat /\ \A s \in Stores : acked[s] \in Nat
  BY Typed DEF IInv, TypeOK
<1>6. n \in Nat /\ 1 <= n /\ n <= Len(log) /\ synced <= n
  BY <1>5
<1>7. log' \in Seq(Maps) /\ Len(log') = n
  BY <1>4, <1>5, <1>6
<1>8. synced' \in 1 .. Len(log') /\ synced' \in Nat /\ faults' \in Nat /\ 0 \in 0 .. MaxIdle
  BY <1>3, <1>4, <1>5, <1>6, <1>7, RefAssumption
<1>9. TypeOK'
  <2>1. th' \in [Threads -> Frames]
    BY <1>3, IdleFrame, Zenon
  <2>2. /\ writer' \in [Stores -> Threads \cup {NoThread}] /\ idle' \in [Stores -> 0 .. MaxIdle]
        /\ level' \in [Stores -> {"FULL", "NORMAL"}] /\ lock' \in Threads \cup {NoThread}
    BY <1>2, <1>3, <1>8, Zenon
  <2>3. \A s \in Stores : (IF acked[s] > n THEN n ELSE acked[s]) \in 0 .. n
    BY <1>5, <1>6
  <2>4. acked' \in [Stores -> 0 .. Len(log')]
    BY <1>4, <1>7, <2>3, Zenon
  <2> QED BY <1>3, <1>7, <1>8, <2>1, <2>2, <2>4, Zenon DEF IInv, TypeOK
<1>10. AckedDurable'
  <2>1. \A s \in Stores : (IF acked[s] > n THEN n ELSE acked[s]) <= n
    BY <1>5, <1>6
  <2>2. \A s \in Stores : acked'[s] <= n
    BY <1>4, <2>1, Zenon
  <2> QED BY <1>3, <1>4, <2>2, Zenon DEF AckedDurable
<1>11. ASSUME NEW u \in Threads PROVE ThreadInv(u)'
  <2>1. th'[u] = Idle /\ lock' # u
    BY <1>3, RefAssumption, Zenon
  <2> QED BY <1>6, <1>7, <1>8, <2>1, IdleInv, Zenon
<1>12. \A s \in Stores \ warned' : Sync /\ writer'[s] = NoThread => level'[s] = "FULL"
  BY <1>2, <1>3, Zenon
<1> QED BY <1>9, <1>10, <1>11, <1>12, Zenon DEF IInv, ThreadInv

(* A fresh store. *)
LEMMA InitInv ==
    ASSUME Init
    PROVE  IInv
<1>1. PICK l : l = IF Sync THEN "FULL" ELSE "NORMAL"
  BY Zenon
<1>2. l \in {"FULL", "NORMAL"} /\ (Sync => l = "FULL")
  BY <1>1, Zenon
<1>3. /\ log = <<EmptyRefs>> /\ synced = 1 /\ lock = NoThread
      /\ writer = [s \in Stores |-> NoThread] /\ idle = [s \in Stores |-> 0]
      /\ level = [s \in Stores |-> l] /\ th = [t \in Threads |-> Idle]
      /\ calls = 0 /\ faults = 0 /\ acked = [s \in Stores |-> 0] /\ warned = {}
  BY <1>1, Zenon DEF Init
<1>4. PICK e : e = EmptyRefs
  BY Zenon
<1>5. log \in Seq(Maps) /\ Len(log) = 1
  BY <1>3, <1>4, IdleFrame
<1>6. /\ synced \in 1 .. Len(log) /\ 0 \in 0 .. MaxIdle /\ 0 \in Nat /\ 0 <= 1
      /\ 0 \in 0 .. Len(log) /\ 0 <= Len(log)
  BY <1>3, <1>5, RefAssumption
<1>7. TypeOK
  <2>1. th \in [Threads -> Frames]
    BY <1>3, IdleFrame, Zenon
  <2>2. /\ writer \in [Stores -> Threads \cup {NoThread}] /\ idle \in [Stores -> 0 .. MaxIdle]
        /\ level \in [Stores -> {"FULL", "NORMAL"}] /\ lock \in Threads \cup {NoThread}
    BY <1>2, <1>3, <1>6, Zenon
  <2>3. acked \in [Stores -> 0 .. Len(log)] /\ warned \in SUBSET Stores
    BY <1>3, <1>6, Zenon
  <2> QED BY <1>3, <1>5, <1>6, <2>1, <2>2, <2>3, Zenon DEF TypeOK
<1>8. AckedDurable
  BY <1>3, <1>6, Zenon DEF AckedDurable
<1>9. ASSUME NEW u \in Threads PROVE LockInv(u) /\ LevelInv(u) /\ CallInv(u)
  <2>1. th[u] = Idle /\ lock # u
    BY <1>3, RefAssumption, Zenon
  <2>2. /\ th[u].pc = "idle" /\ th[u].op = Nothing /\ th[u].at = 0
    BY <2>1 DEF Idle
  <2>3. th[u].pc \notin {"begin", "run", "commit", "end"} /\ th[u].pc \notin {"run", "commit"}
        /\ th[u].pc \notin {"mutex", "begin", "run", "commit"}
        /\ th[u].pc \notin {"connect", "read"} /\ th[u].pc # "run" /\ th[u].pc # "commit"
    BY <2>2
  <2>4. ~HasWriter(u)
    BY <2>3, Zenon DEF HasWriter
  <2> QED BY <1>3, <1>6, <2>1, <2>2, <2>3, <2>4, Zenon DEF LockInv, LevelInv, CallInv
<1>10. \A s \in Stores \ warned : Sync /\ writer[s] = NoThread => level[s] = "FULL"
  BY <1>2, <1>3, Zenon
<1> QED BY <1>7, <1>8, <1>9, <1>10, Zenon DEF IInv

(* A step that changes nothing. *)
LEMMA StutterInv ==
    ASSUME IInv, UNCHANGED vars
    PROVE  IInv'
<1>1. UNCHANGED <<log, synced, lock, writer, level, idle, th, calls, faults, acked, warned>>
  BY Zenon DEF vars, promises
<1>2. refs' = refs
  BY <1>1 DEF refs
<1>3. \A t \in Threads : ThreadInv(t)'
  BY <1>1, <1>2, Zenon DEF IInv, ThreadInv, LockInv, LevelInv, CallInv, HasWriter
<1>4. TypeOK' /\ AckedDurable' /\ \A s \in Stores \ warned' : Sync /\ writer'[s] = NoThread => level'[s] = "FULL"
  BY <1>1, Zenon DEF IInv, TypeOK, AckedDurable
<1> QED BY <1>3, <1>4, Zenon DEF IInv, ThreadInv

(* Every step preserves the invariant. *)
LEMMA NextInv ==
    ASSUME IInv, [Next]_vars
    PROVE  IInv'
<1>1. ASSUME NEW t \in Threads, Step(t) PROVE IInv'
  BY <1>1, EmptyBatchStep, TakeWriterStep, BeginStep, BusyStep, RunStep, CommitStep,
     LetWriterGoStep, ConnectStep, ReadStep, GiveStep, ReturnStep, Zenon DEF Step
<1>2. Stopped => UNCHANGED vars
  BY Zenon DEF Stopped
<1> QED BY <1>1, <1>2, CommitFailsStep, LowerFailsStep, RestoreFailsStep, CallStep, CrashStep,
           PowerLossStep, StutterInv, Zenon DEF Next, Fails

(* The invariant of the reference store always holds, for any processes,     *)
(* threads, names, records and calls.                                        *)
THEOREM RefStoreInvariant == Spec => []IInv
<1>1. Init => IInv
  BY InitInv
<1>2. IInv /\ [Next]_vars => IInv'
  BY NextInv
<1> QED BY <1>1, <1>2, PTL DEF Spec

(* The bookkeeping of the store keeps its types, the reader pool its limit   *)
(* (MAX_IDLE_READERS).                                                       *)
THEOREM RefStoreTypes == Spec => []TypeOK
<1>1. IInv => TypeOK
  BY Zenon DEF IInv
<1> QED BY <1>1, RefStoreInvariant, PTL

(* What was acknowledged as durable is synced, though volatile writes share  *)
(* the connection and lower its durability meanwhile.  Either PRAGMA of      *)
(* Store::volatile may fail; only after a failure to restore FULL, which is  *)
(* answered as an error, is a store excused until it commits at FULL again.  *)
THEOREM AckedStaysDurable == Spec => []AckedDurable
<1>1. IInv => AckedDurable
  BY Zenon DEF IInv
<1> QED BY <1>1, RefStoreInvariant, PTL

(* SQLite's write lock never outlives the call that took it (Store::if_at).  *)
THEOREM LockStaysInsideCall == Spec => []LockInsideCall
<1>1. IInv => LockInsideCall
  <2> SUFFICES ASSUME IInv, lock # NoThread PROVE th[lock].pc \in {"run", "commit"}
    BY Zenon DEF LockInsideCall
  <2>1. lock \in Threads
    BY Zenon DEF IInv, TypeOK
  <2> QED BY <2>1, Zenon DEF IInv, LockInv
<1> QED BY <1>1, RefStoreInvariant, PTL



-----------------------------------------------------------------------------
(* The store implements RefMap: a call acts when it commits, reads, or finds *)
(* its answer with the lock held, and fails without having acted otherwise.  *)

Calls == [t \in Threads |-> AbsCall(th[t])]
Pending == {"connect", "read", "mutex", "begin", "run", "commit"}
Over == {"end", "give", "answered"}

(* A volatile write that acted and has the durability to put back. *)
Owing(h) == h.pc = "end" /\ h.op.f \in Volatile /\ h.res # <<"failed">>

(* What RefMap sees of a thread, by where the thread is. *)
LEMMA Seen ==
    ASSUME NEW h
    PROVE  /\ h.pc = "idle" => AbsCall(h) = Abstract!Idle
           /\ h.pc \in Pending => AbsCall(h) = Abstract!Waiting(h.op)
           /\ h.pc \in Over /\ ~Owing(h) => AbsCall(h) = Abstract!Answered(h.res)
           /\ Owing(h) => AbsCall(h) = Abstract!Acted(h.res)
<1>1. h.pc \in Pending => h.pc # "idle"
  BY DEF Pending
<1>2. h.pc \in Over => h.pc # "idle" /\ h.pc \notin Pending
  BY DEF Over, Pending
<1>3. Owing(h) => h.pc # "idle" /\ h.pc \notin Pending
  BY DEF Owing, Pending
<1> QED BY <1>1, <1>2, <1>3, Zenon DEF AbsCall, Pending, Owing, Abstract!Idle, Abstract!Waiting,
           Abstract!Answered, Abstract!Acted

(* A step of one thread changes one call of RefMap. *)
LEMMA OneCall ==
    ASSUME NEW t \in Threads, OnlyMoves(t), NEW c, AbsCall(th'[t]) = c
    PROVE  Calls' = [Calls EXCEPT ![t] = c]
<1>1. \A u \in Threads : u # t => th'[u] = th[u]
  BY Zenon DEF OnlyMoves
<1>2. Calls' = [u \in Threads |-> AbsCall(th'[u])]
  BY Zenon DEF Calls
<1>3. PICK d : d = [Calls EXCEPT ![t] = c]
  BY Zenon
<1>4. d = [u \in Threads |-> IF u = t THEN c ELSE AbsCall(th[u])]
  BY <1>3, Zenon DEF Calls
<1>5. \A u \in Threads : AbsCall(th'[u]) = IF u = t THEN c ELSE AbsCall(th[u])
  BY <1>1, Zenon
<1> QED BY <1>2, <1>3, <1>4, <1>5, Zenon

(* One that changes no call of RefMap. *)
LEMMA SameCalls ==
    ASSUME NEW t \in Threads, OnlyMoves(t), AbsCall(th'[t]) = AbsCall(th[t]), log' = log
    PROVE  UNCHANGED <<refs, Calls>>
<1>1. \A u \in Threads : AbsCall(th'[u]) = AbsCall(th[u])
  BY Zenon DEF OnlyMoves
<1>2. Calls' = Calls
  BY <1>1, Zenon DEF Calls
<1>3. refs' = refs
  BY DEF refs
<1> QED BY <1>2, <1>3

(* The moment a call acts. *)
LEMMA Acts ==
    ASSUME NEW t \in Threads, OnlyMoves(t), th[t].pc \in Pending, th'[t].pc \in Over, NEW a,
           a \in Abstract!Answers(refs, th[t].op), refs' = a.refs, th'[t].res = a.res,
           th'[t].op = th[t].op, a.res # <<"failed">>,
           th[t].op.f \in Volatile => th'[t].pc = "end"
    PROVE  Abstract!Next
<1>1. /\ AbsCall(th[t]) = Abstract!Waiting(th[t].op)
      /\ AbsCall(th'[t]) = Abstract!Done(th[t].op, a.res)
  BY Seen, Zenon DEF Owing, Volatile, Abstract!Done
<1>2. Calls' = [Calls EXCEPT ![t] = Abstract!Done(th[t].op, a.res)]
  BY <1>1, OneCall, Zenon
<1>3. Calls[t] = Abstract!Waiting(th[t].op)
  BY <1>1, Zenon DEF Calls
<1>4. Calls[t].st = "called" /\ Calls[t].op = th[t].op
  BY <1>3 DEF Abstract!Waiting
<1>5. Abstract!Act(t)
  BY <1>2, <1>4, Zenon DEF Abstract!Act, Calls
<1> QED BY <1>5, Zenon DEF Abstract!Next

(* A call that gives up. *)
LEMMA GivesUp ==
    ASSUME NEW t \in Threads, OnlyMoves(t), th[t].pc \in Pending, th'[t].pc \in Over,
           th'[t].res = <<"failed">>, log' = log
    PROVE  Abstract!Next
<1>1. AbsCall(th[t]) = Abstract!Waiting(th[t].op) /\ AbsCall(th'[t]) = Abstract!Answered(<<"failed">>)
  BY Seen, Zenon DEF Owing
<1>2. Calls' = [Calls EXCEPT ![t] = Abstract!Answered(<<"failed">>)]
  BY <1>1, OneCall, Zenon
<1>3. Calls[t] = Abstract!Waiting(th[t].op)
  BY <1>1, Zenon DEF Calls
<1>4. Calls[t].st = "called"
  BY <1>3 DEF Abstract!Waiting
<1>5. refs' = refs
  BY DEF refs
<1>6. Abstract!GiveUp(t)
  BY <1>2, <1>4, <1>5, Zenon DEF Abstract!GiveUp, Calls
<1> QED BY <1>6, Zenon DEF Abstract!Next

(* The steps that only get a call further on its way are none of RefMap's. *)
LEMMA OnTheWay ==
    ASSUME NEW t \in Threads, OnlyMoves(t), log' = log, th'[t].op = th[t].op,
           \/ th[t].pc \in Pending /\ th'[t].pc \in Pending
           \/ /\ th[t].pc \in Over /\ th'[t].pc \in Over /\ th'[t].res = th[t].res
              /\ ~Owing(th[t]) /\ th'[t].pc # "end"
    PROVE  UNCHANGED <<refs, Calls>>
<1>1. AbsCall(th'[t]) = AbsCall(th[t])
  BY Seen, Zenon DEF Owing
<1> QED BY <1>1, SameCalls, Zenon

(* A volatile write that acted answers with what came of it, or with the      *)
(* error of putting the durability back.                                     *)
LEMMA Settles ==
    ASSUME NEW t \in Threads, OnlyMoves(t), log' = log, Owing(th[t]), th'[t].pc = "answered",
           th'[t].res \in {th[t].res, <<"failed">>}
    PROVE  Abstract!Next
<1>1. th'[t].pc \in Over /\ ~Owing(th'[t])
  BY DEF Over, Owing
<1>2. AbsCall(th[t]) = Abstract!Acted(th[t].res) /\ AbsCall(th'[t]) = Abstract!Answered(th'[t].res)
  BY <1>1, Seen, Zenon
<1>3. Calls' = [Calls EXCEPT ![t] = Abstract!Answered(th'[t].res)] /\ Calls[t] = Abstract!Acted(th[t].res)
  BY <1>2, OneCall, Zenon DEF Calls
<1>4. Calls[t].st = "acted" /\ Calls[t].res = th[t].res
  BY <1>3 DEF Abstract!Acted
<1>5. refs' = refs
  BY DEF refs
<1>6. Abstract!Settle(t)
  BY <1>3, <1>4, <1>5, Zenon DEF Abstract!Settle, Calls
<1> QED BY <1>6, Zenon DEF Abstract!Next

(* What a step of the store is to RefMap. *)
MapStep == Abstract!Next \/ UNCHANGED <<refs, Calls>>


(* A call that is made. *)
LEMMA CallMaps ==
    ASSUME IInv, NEW t \in Threads, NEW op \in Ops, Call(t, op)
    PROVE  MapStep
<1>1. PICK g, pc : g = th[t] /\ pc = IF op.f \in Reads THEN "connect" ELSE "mutex"
  BY Zenon
<1>2. PICK h : h = [g EXCEPT !.pc = pc, !.op = op]
  BY Zenon
<1>3. g \in Frames /\ g.pc = "idle" /\ th' = [th EXCEPT ![t] = h] /\ log' = log
  BY <1>1, <1>2, Inside, Zenon DEF Call
<1>4. h \in Frames /\ h.pc = pc /\ h.op = op
  <2>1. pc \in {"connect", "mutex"}
    BY <1>1
  <2> QED BY <1>2, <1>3, <2>1, Zenon DEF Frames
<1>5. OnlyMoves(t) /\ th'[t] = h
  BY <1>3, <1>4, Moves, Inside, Zenon
<1>6. h.pc \in Pending
  BY <1>1, <1>4 DEF Pending
<1>7. AbsCall(th[t]) = Abstract!Idle /\ AbsCall(th'[t]) = Abstract!Waiting(op)
  BY <1>1, <1>3, <1>4, <1>5, <1>6, Seen, Zenon
<1>8. Calls' = [Calls EXCEPT ![t] = Abstract!Waiting(op)] /\ Calls[t] = Abstract!Idle
  BY <1>5, <1>7, OneCall, Zenon DEF Calls
<1>9. refs' = refs
  BY <1>3 DEF refs
<1>10. Abstract!Call(t, op)
  BY <1>8, <1>9, Zenon DEF Abstract!Call, Calls
<1> QED BY <1>10, Zenon DEF Abstract!Next, MapStep

(* A batch of nothing leaves the map as it is. *)
LEMMA EmptyApplied ==
    ASSUME NEW r \in Maps, NEW op \in Ops, Empty(op)
    PROVE  [refs |-> r, res |-> <<"ok">>] \in Abstract!Answers(r, op)
<1>1. op.f \in Batches /\ op.records = <<>> /\ op.names = <<>>
  BY Zenon DEF Empty
<1>2. (\A i \in DOMAIN op.records : FALSE) /\ (\A i \in DOMAIN op.names : FALSE)
  BY <1>1
<1>3. PICK m : m = Abstract!BatchApplied(r, op)
  BY Zenon
<1>4. m = [n \in Names |-> r[n]]
  BY <1>2, <1>3, Zenon DEF Abstract!BatchApplied
<1>5. m = r
  BY <1>4 DEF Maps
<1>6. Abstract!BatchHolds(r, op, Names)
  BY <1>2, Zenon DEF Abstract!BatchHolds
<1>7. Abstract!Answers(r, op) = {[refs |-> m, res |-> <<"ok">>]}
  <2>1. CASE op.f = "put_batch"
    BY <1>3, <2>1 DEF Abstract!Answers
  <2>2. CASE op.f = "update_batch"
    BY <1>3, <1>6, <2>2 DEF Abstract!Answers
  <2> QED BY <1>1, <2>1, <2>2, Zenon DEF Batches
<1> QED BY <1>5, <1>7, Zenon

(* A batch of nothing acts at once. *)
LEMMA EmptyBatchMaps ==
    ASSUME IInv, NEW t \in Threads, EmptyBatch(t)
    PROVE  MapStep
<1>1. th[t].pc = "mutex" /\ Empty(th[t].op) /\ log' = log
  BY Zenon DEF EmptyBatch
<1>2. PICK pc, res : pc = "answered" /\ res = <<"ok">> /\ th' = Answer(t, pc, res)
  BY Zenon DEF EmptyBatch
<1>3. pc \in PCs /\ pc \in Over /\ th[t].pc \in Pending
      /\ th[t].pc \in {"mutex", "begin", "run", "commit"}
  BY <1>1, <1>2 DEF PCs, Over, Pending
<1>4. res \in Results
  BY <1>2, Zenon DEF Results
<1>5. OnlyMoves(t) /\ th'[t].pc = pc /\ th'[t].res = res /\ th'[t].op = th[t].op
  BY <1>2, <1>3, <1>4, AnswerMoves, Inside, Zenon
<1>6. th[t].op \in Ops /\ refs \in Maps
  BY <1>3, Inside, Zenon DEF CallInv
<1>7. PICK a : a = [refs |-> refs, res |-> res]
  BY Zenon
<1>8. a.refs = refs /\ a.res = res
  BY <1>7
<1>9. a \in Abstract!Answers(refs, th[t].op)
  BY <1>1, <1>2, <1>6, <1>7, EmptyApplied, Zenon
<1>10. refs' = refs
  BY <1>1 DEF refs
<1>11. th[t].op.f \notin Volatile /\ res # <<"failed">>
  BY <1>1, <1>2 DEF Empty, Batches, Volatile
<1> QED BY <1>3, <1>5, <1>8, <1>9, <1>10, <1>11, Acts, Zenon DEF MapStep

(* A call that cannot have the lock or a connection, whose read or commit    *)
(* fails: it has not acted.                                                  *)
LEMMA FailureMaps ==
    ASSUME IInv, NEW t \in Threads, NEW pc \in Over, th[t].pc \in Pending,
           th' = Answer(t, pc, <<"failed">>), log' = log
    PROVE  MapStep
<1>1. PICK res : res = <<"failed">>
  BY Zenon
<1>2. res \in Results
  BY <1>1, Zenon DEF Results
<1>3. pc \in PCs
  BY DEF PCs, Over
<1>4. th' = Answer(t, pc, res)
  BY <1>1, Zenon
<1>5. OnlyMoves(t) /\ th'[t].pc = pc /\ th'[t].res = res
  BY <1>2, <1>3, <1>4, AnswerMoves, Inside, Zenon
<1> QED BY <1>1, <1>5, GivesUp, Zenon DEF MapStep

(* A call goes on, to act later or having acted. *)
LEMMA GotoMaps ==
    ASSUME IInv, NEW t \in Threads, NEW pc, th' = Goto(t, pc), log' = log,
           \/ th[t].pc \in Pending /\ pc \in Pending
           \/ th[t].pc \in Over /\ pc = "answered"
    PROVE  MapStep
<1>1. pc \in PCs
  BY DEF PCs, Over, Pending
<1>2. OnlyMoves(t) /\ th'[t].pc = pc /\ th'[t].res = th[t].res /\ th'[t].op = th[t].op
  BY <1>1, GotoMoves, Inside, Zenon
<1>3. "answered" \in Over /\ "answered" # "end"
  BY DEF Over
<1>4. Owing(th[t]) => th[t].pc \notin Pending
  BY DEF Owing, Pending
<1>5. CASE Owing(th[t])
  BY <1>2, <1>4, <1>5, Settles, Zenon DEF MapStep
<1>6. CASE ~Owing(th[t])
  BY <1>2, <1>3, <1>6, OnTheWay, Zenon DEF MapStep
<1> QED BY <1>5, <1>6

(* The durability cannot be put back: whatever the call did, it fails. *)
LEMMA RestoreFailsMaps ==
    ASSUME IInv, NEW t \in Threads, RestoreFails(t)
    PROVE  MapStep
<1>1. PICK pc, res : pc = "answered" /\ res = <<"failed">>
  BY Zenon
<1>2. th[t].pc = "end" /\ Lowers(t) /\ th' = Answer(t, pc, res) /\ log' = log
  BY <1>1, Zenon DEF RestoreFails
<1>3. pc \in PCs /\ pc \in Over /\ pc # "end" /\ th[t].pc \in Over
  BY <1>1, <1>2 DEF PCs, Over
<1>4. res \in Results
  BY <1>1, Zenon DEF Results
<1>5. OnlyMoves(t) /\ th'[t].pc = pc /\ th'[t].res = res /\ th'[t].op = th[t].op
  BY <1>2, <1>3, <1>4, AnswerMoves, Inside, Zenon
<1>6. CASE Owing(th[t])
  BY <1>1, <1>2, <1>5, <1>6, Settles, Zenon DEF MapStep
<1>7. CASE ~Owing(th[t])
  <2>1. th[t].res = res
    BY <1>1, <1>2, <1>7, Zenon DEF Owing, Lowers
  <2> QED BY <1>2, <1>3, <1>5, <1>7, <2>1, OnTheWay, Zenon DEF MapStep
<1> QED BY <1>6, <1>7

(* A transaction begins. *)
LEMMA BeginMaps ==
    ASSUME IInv, NEW t \in Threads, Begin(t)
    PROVE  MapStep
<1>1. PICK g, tx : g = th[t] /\ tx = refs
  BY Zenon
<1>2. PICK h : h = [g EXCEPT !.pc = "run", !.tx = tx]
  BY Zenon
<1>3. g \in Frames /\ g.pc = "begin" /\ th' = [th EXCEPT ![t] = h] /\ log' = log /\ tx \in Maps
  BY <1>1, <1>2, Inside, Zenon DEF Begin
<1>4. h \in Frames /\ h.pc = "run" /\ h.op = g.op
  BY <1>2, <1>3, Zenon DEF Frames
<1>5. OnlyMoves(t) /\ th'[t] = h
  BY <1>3, <1>4, Moves, Inside, Zenon
<1>6. "run" \in Pending /\ "begin" \in Pending
  BY DEF Pending
<1> QED BY <1>1, <1>3, <1>4, <1>5, <1>6, OnTheWay, Zenon DEF MapStep

(* The statements: a call they refuse acts here, one they do not when it     *)
(* commits.                                                                  *)
LEMMA RunMaps ==
    ASSUME IInv, NEW t \in Threads, Run(t)
    PROVE  MapStep
<1>1. PICK g : g = th[t]
  BY Zenon
<1>2. PICK r : r = Statements(g.tx, g.op)
  BY Zenon
<1>3. g \in Frames /\ refs \in Maps /\ g.pc = "run"
  BY <1>1, Inside, Zenon DEF Run
<1>4. g.pc \in {"mutex", "begin", "run", "commit"} /\ g.pc \in Pending /\ "commit" \in Pending
      /\ "end" \in Over /\ "end" \in PCs
  BY <1>3 DEF Pending, Over, PCs
<1>5. g.tx = refs /\ g.op \in Ops /\ g.op.f \notin Reads
  BY <1>1, <1>3, <1>4, Inside, Zenon DEF CallInv
<1>6. Answers(refs, g.op, r)
  BY <1>2, <1>3, <1>5, StatementsAnswer, Zenon
<1>7. /\ IF r.err = "ok"
         THEN th' = [th EXCEPT ![t] = [@ EXCEPT !.pc = "commit", !.tx = r.tx, !.res = <<"ok">>]]
         ELSE th' = Answer(t, "end", <<r.err>>)
      /\ log' = log
  BY <1>1, <1>2, Zenon DEF Run
<1>8. CASE r.err # "ok"
  <2>1. r.err \in Errors /\ [refs |-> refs, res |-> <<r.err>>] \in Abstract!Answers(refs, g.op)
    BY <1>6, <1>8, Zenon DEF Answers
  <2>2. <<r.err>> \in Results
    BY <2>1, Zenon DEF Results, Errors
  <2>3. PICK pc, res : pc = "end" /\ res = <<r.err>>
    BY Zenon
  <2>4. pc \in PCs /\ pc \in Over /\ res \in Results /\ th' = Answer(t, pc, res)
    BY <1>4, <1>7, <1>8, <2>2, <2>3, Zenon
  <2>5. OnlyMoves(t) /\ th'[t].pc = pc /\ th'[t].res = res /\ th'[t].op = th[t].op
    BY <2>4, AnswerMoves, Inside, Zenon
  <2>6. PICK a : a = [refs |-> refs, res |-> res]
    BY Zenon
  <2>7. a.refs = refs /\ a.res = res
    BY <2>6
  <2>8. refs' = refs
    BY <1>7 DEF refs
  <2>9. res # <<"failed">>
    <3>1. r.err # "failed"
      BY <2>1 DEF Errors
    <3> QED BY <2>3, <3>1
  <2> QED BY <1>1, <1>4, <2>1, <2>3, <2>4, <2>5, <2>6, <2>7, <2>8, <2>9, Acts, Zenon DEF MapStep
<1>9. CASE r.err = "ok"
  <2>1. r.tx \in Maps
    <3>1. "ok" \notin Errors
      BY DEF Errors
    <3> QED BY <1>6, <1>9, <3>1, Zenon DEF Answers
  <2>2. <<"ok">> \in Results
    BY Zenon DEF Results
  <2>3. PICK tx, res : tx = r.tx /\ res = <<"ok">>
    BY Zenon
  <2>4. PICK h : h = [g EXCEPT !.pc = "commit", !.tx = tx, !.res = res]
    BY Zenon
  <2>5. h \in Frames /\ h.pc = "commit" /\ h.op = g.op
    BY <1>3, <2>1, <2>2, <2>3, <2>4, Zenon DEF Frames
  <2>6. th' = [th EXCEPT ![t] = h]
    BY <1>1, <1>7, <1>9, <2>3, <2>4, Zenon
  <2>7. OnlyMoves(t) /\ th'[t] = h
    BY <2>5, <2>6, Moves, Inside, Zenon
  <2> QED BY <1>1, <1>4, <1>7, <2>5, <2>7, OnTheWay, Zenon DEF MapStep
<1> QED BY <1>8, <1>9

(* A commit is the moment its call acts: nobody committed since its          *)
(* statements ran, so they still answer for the map as it is.                *)
LEMMA CommitMaps ==
    ASSUME IInv, NEW t \in Threads, Commit(t)
    PROVE  MapStep
<1>1. PICK g, n : g = th[t] /\ n = Len(log) + 1
  BY Zenon
<1>2. g \in Frames /\ g.pc = "commit" /\ g.tx \in Maps /\ refs \in Maps /\ log \in Seq(Maps)
      /\ Len(log) \in Nat
  <2>1. log \in Seq(Maps)
    BY Zenon DEF IInv, TypeOK
  <2>2. Len(log) \in Nat
    BY <2>1
  <2> QED BY <1>1, <2>1, <2>2, Inside, Zenon DEF Commit, Frames
<1>3. n \in Nat
  BY <1>1, <1>2
<1>4. PICK h : h = [g EXCEPT !.pc = "end", !.at = n]
  BY Zenon
<1>5. h \in Frames /\ h.pc = "end" /\ h.res = g.res /\ h.op = g.op
  BY <1>2, <1>3, <1>4, Zenon DEF Frames
<1>6. log' = Append(log, g.tx) /\ th' = [th EXCEPT ![t] = h]
  BY <1>1, <1>4, Zenon DEF Commit
<1>7. OnlyMoves(t) /\ th'[t] = h
  BY <1>5, <1>6, Moves, Inside, Zenon
<1>8. refs' = g.tx
  BY <1>2, <1>6 DEF refs
<1>9. g.pc \in {"mutex", "begin", "run", "commit"} /\ g.pc \in Pending /\ "end" \in Over
  BY <1>2 DEF Pending, Over
<1>10. PICK s : s = Statements(refs, g.op)
  BY Zenon
<1>11. g.op \in Ops /\ g.op.f \notin Reads /\ g.res = <<"ok">> /\ s = [err |-> "ok", tx |-> g.tx]
  BY <1>1, <1>2, <1>9, <1>10, Inside, Zenon DEF CallInv
<1>12. s.err = "ok" /\ s.tx = g.tx /\ "ok" \notin Errors
  BY <1>11 DEF Errors
<1>13. PICK a : a = [refs |-> g.tx, res |-> <<"ok">>]
  BY Zenon
<1>14. a \in Abstract!Answers(refs, g.op)
  <2>1. Answers(refs, g.op, s)
    BY <1>2, <1>10, <1>11, StatementsAnswer, Zenon
  <2>2. [refs |-> s.tx, res |-> <<"ok">>] \in Abstract!Answers(refs, g.op)
    BY <1>12, <2>1, Zenon DEF Answers
  <2> QED BY <1>12, <1>13, <2>2, Zenon
<1>15. a.refs = g.tx /\ a.res = <<"ok">> /\ a.res # <<"failed">>
  BY <1>13
<1> QED BY <1>1, <1>5, <1>7, <1>8, <1>9, <1>11, <1>14, <1>15, Acts, Zenon DEF MapStep


(* A read acts on the snapshot it reads, or fails. *)
LEMMA ReadMaps ==
    ASSUME IInv, NEW t \in Threads, Read(t)
    PROVE  MapStep
<1>1. th[t].pc = "read" /\ log' = log
  BY Zenon DEF Read
<1>2. /\ th[t].pc \in {"connect", "read"} /\ th[t].pc \in Pending
      /\ "give" \in PCs /\ "give" \in Over /\ "answered" \in Over
  BY <1>1 DEF Pending, PCs, Over
<1>3. PICK op, r : op = th[t].op /\ r = refs
  BY Zenon
<1>4. op \in Ops /\ r \in Maps
  BY <1>2, <1>3, Inside, Zenon DEF CallInv
<1>5. op.name \in Names /\ r[op.name] \in Records \cup {Absent}
  BY <1>4, OpsAssumption, Zenon DEF Maps
<1>6. refs' = r
  BY <1>1, <1>3 DEF refs
<1>7. ASSUME NEW res \in Results, th' = Answer(t, "give", res), res # <<"failed">>,
             [refs |-> r, res |-> res] \in Abstract!Answers(r, op)
      PROVE  MapStep
  <2>1. PICK pc : pc = "give"
    BY Zenon
  <2>2. pc \in PCs /\ pc \in Over /\ th' = Answer(t, pc, res)
    BY <1>2, <1>7, <2>1, Zenon
  <2>3. OnlyMoves(t) /\ th'[t].pc = pc /\ th'[t].res = res /\ th'[t].op = th[t].op
    BY <2>2, AnswerMoves, Inside, Zenon
  <2>4. PICK a : a = [refs |-> r, res |-> res]
    BY Zenon
  <2>5. a.refs = r /\ a.res = res
    BY <2>4
  <2>6. op.f \notin Volatile
    <3>1. op.f \in Reads
      BY <1>2, <1>3, Inside, Zenon DEF CallInv
    <3> QED BY <3>1 DEF Reads, Volatile
  <2> QED BY <1>2, <1>3, <1>6, <1>7, <2>2, <2>3, <2>4, <2>5, <2>6, Acts, Zenon DEF MapStep
<1>8. CASE op.f = "all" /\ th' = Answer(t, "give", <<"found", r>>)
  <2>1. <<"found", r>> \in Results
    BY <1>4, Zenon DEF Results
  <2>2. Abstract!Answers(r, op) = {[refs |-> r, res |-> <<"found", r>>]}
    BY <1>8 DEF Abstract!Answers
  <2>3. PICK res : res = <<"found", r>>
    BY Zenon
  <2>4. res # <<"failed">>
    BY <2>3
  <2> QED BY <1>7, <1>8, <2>1, <2>2, <2>3, <2>4, Zenon
<1>9. CASE /\ op.f = "get"
           /\ th' = Answer(t, "give", IF r[op.name] = Absent THEN <<"NotFound">>
                                      ELSE <<"found", r[op.name]>>)
  <2>1. PICK res : res = IF r[op.name] = Absent THEN <<"NotFound">> ELSE <<"found", r[op.name]>>
    BY Zenon
  <2>2. res \in Results
    BY <1>5, <2>1, Zenon DEF Results
  <2>3. Abstract!Answers(r, op) = IF r[op.name] = Absent THEN {[refs |-> r, res |-> <<"NotFound">>]}
                                  ELSE {[refs |-> r, res |-> <<"found", r[op.name]>>]}
    BY <1>9 DEF Abstract!Answers
  <2>4. [refs |-> r, res |-> res] \in Abstract!Answers(r, op)
    BY <2>1, <2>3, Zenon
  <2>5. res # <<"failed">>
    BY <2>1
  <2> QED BY <1>7, <1>9, <2>1, <2>2, <2>4, <2>5, Zenon
<1>10. CASE th' = Answer(t, "answered", <<"failed">>)
  BY <1>1, <1>2, <1>10, FailureMaps, Zenon
<1> QED BY <1>3, <1>8, <1>9, <1>10, Zenon DEF Read

(* An answer that reaches its caller. *)
LEMMA ReturnMaps ==
    ASSUME IInv, NEW t \in Threads, Return(t)
    PROVE  MapStep
<1>1. th[t].pc = "answered" /\ th' = [th EXCEPT ![t] = Idle] /\ log' = log
  BY Zenon DEF Return
<1>2. OnlyMoves(t) /\ th'[t] = Idle
  BY <1>1, IdleFrame, Moves, Inside, Zenon
<1>3. th[t].pc \in Over /\ Idle.pc = "idle"
  BY <1>1 DEF Over, Idle
<1>4. AbsCall(th[t]) = Abstract!Answered(th[t].res) /\ AbsCall(th'[t]) = Abstract!Idle
  <2>1. ~Owing(th[t])
    BY <1>1 DEF Owing
  <2> QED BY <1>2, <1>3, <2>1, Seen, Zenon
<1>5. Calls' = [Calls EXCEPT ![t] = Abstract!Idle] /\ Calls[t] = Abstract!Answered(th[t].res)
  BY <1>2, <1>4, OneCall, Zenon DEF Calls
<1>6. Calls[t].st = "answered"
  BY <1>5 DEF Abstract!Answered
<1>7. refs' = refs
  BY <1>1 DEF refs
<1>8. Abstract!Return(t)
  BY <1>5, <1>6, <1>7, Zenon DEF Abstract!Return, Calls
<1> QED BY <1>8, Zenon DEF Abstract!Next, MapStep

(* A process that dies takes the calls of its threads with it, and no more. *)
LEMMA CrashMaps ==
    ASSUME NEW s \in Stores, Crash(s)
    PROVE  MapStep
<1>1. PICK dead : dead = {t \in Threads : StoreOf[t] = s}
  BY Zenon
<1>2. th' = [t \in Threads |-> IF t \in dead THEN Idle ELSE th[t]] /\ log' = log
  BY <1>1, Zenon DEF Crash
<1>3. AbsCall(Idle) = Abstract!Idle
  <2>1. Idle.pc = "idle"
    BY DEF Idle
  <2> QED BY <2>1, Seen, Zenon
<1>4. \A t \in Threads : AbsCall(th'[t]) = IF t \in dead THEN Abstract!Idle ELSE Calls[t]
  BY <1>2, <1>3, Zenon DEF Calls
<1>5. Calls' = [t \in Threads |-> IF t \in dead THEN Abstract!Idle ELSE Calls[t]]
  BY <1>4, Zenon DEF Calls
<1>6. refs' = refs
  BY <1>2 DEF refs
<1>7. Abstract!Crash(dead) /\ dead \in SUBSET Threads
  BY <1>1, <1>5, <1>6, Zenon DEF Abstract!Crash, Calls
<1> QED BY <1>7, Zenon DEF Abstract!Next, MapStep

(* A machine that goes down leaves a map. *)
LEMMA PowerLossMaps ==
    ASSUME IInv, PowerLoss
    PROVE  MapStep
<1>1. th' = [t \in Threads |-> Idle]
  BY Zenon DEF PowerLoss
<1>2. AbsCall(Idle) = Abstract!Idle
  <2>1. Idle.pc = "idle"
    BY DEF Idle
  <2> QED BY <2>1, Seen, Zenon
<1>3. \A t \in Threads : AbsCall(th'[t]) = Abstract!Idle
  BY <1>1, <1>2, Zenon
<1>4. Calls' = [t \in Threads |-> Abstract!Idle]
  BY <1>3, Zenon DEF Calls
<1>5. refs' \in Maps
  <2>1. PICK n \in synced .. Len(log) : log' = SubSeq(log, 1, n)
    BY Zenon DEF PowerLoss
  <2>2. log \in Seq(Maps) /\ Len(log) \in Nat /\ synced \in Nat /\ 1 <= synced
    BY Typed DEF IInv, TypeOK
  <2>3. n \in Nat /\ 1 <= n /\ n <= Len(log)
    BY <2>2
  <2>4. log' \in Seq(Maps) /\ Len(log') = n
    BY <2>1, <2>2, <2>3
  <2>5. log'[n] \in Maps
    BY <2>3, <2>4
  <2> QED BY <2>4, <2>5, Zenon DEF refs
<1>6. Abstract!PowerLoss
  BY <1>4, <1>5, Zenon DEF Abstract!PowerLoss, Calls, Maps
<1> QED BY <1>6, Zenon DEF Abstract!Next, MapStep

(* Every step of a thread in a call. *)
LEMMA StepMaps ==
    ASSUME IInv, NEW t \in Threads, Step(t)
    PROVE  MapStep
<1>1. /\ "mutex" \in Pending /\ "begin" \in Pending /\ "connect" \in Pending /\ "read" \in Pending
      /\ "end" \in Over /\ "give" \in Over /\ "answered" \in Over
  BY DEF Pending, Over
<1>2. CASE TakeWriter(t)
  <2>1. th[t].pc = "mutex" /\ th' = Goto(t, "begin") /\ log' = log
    BY <1>2, Zenon DEF TakeWriter
  <2> QED BY <1>1, <2>1, GotoMaps, Zenon
<1>3. CASE Busy(t)
  <2>1. th[t].pc = "begin" /\ th' = Answer(t, "end", <<"failed">>) /\ log' = log
    BY <1>3, Zenon DEF Busy
  <2> QED BY <1>1, <2>1, FailureMaps, Zenon
<1>4. CASE LetWriterGo(t)
  <2>1. th[t].pc = "end" /\ th' = Goto(t, "answered") /\ log' = log
    BY <1>4, Zenon DEF LetWriterGo
  <2> QED BY <1>1, <2>1, GotoMaps, Zenon
<1>5. CASE Connect(t)
  <2>1. th[t].pc = "connect" /\ log' = log
        /\ (th' = Goto(t, "read") \/ th' = Answer(t, "answered", <<"failed">>))
    BY <1>5, Zenon DEF Connect
  <2> QED BY <1>1, <2>1, GotoMaps, FailureMaps, Zenon
<1>6. CASE Give(t)
  <2>1. th[t].pc = "give" /\ th' = Goto(t, "answered") /\ log' = log
    BY <1>6, Zenon DEF Give
  <2> QED BY <1>1, <2>1, GotoMaps, Zenon
<1> QED BY <1>2, <1>3, <1>4, <1>5, <1>6, EmptyBatchMaps, BeginMaps, RunMaps, CommitMaps, ReadMaps,
           ReturnMaps, Zenon DEF Step

(* Every step of the store is one of RefMap's or changes nothing it sees. *)
LEMMA NextMaps ==
    ASSUME IInv, [Next]_vars
    PROVE  MapStep
<1>1. ASSUME NEW t \in Threads, CommitFails(t) PROVE MapStep
  <2>1. th[t].pc \in {"run", "commit"} /\ th' = Answer(t, "end", <<"failed">>) /\ log' = log
    BY <1>1, Zenon DEF CommitFails
  <2>2. th[t].pc \in Pending /\ "end" \in Over
    BY <2>1 DEF Pending, Over
  <2> QED BY <2>1, <2>2, FailureMaps, Zenon
<1>2. ASSUME NEW t \in Threads, LowerFails(t) PROVE MapStep
  <2>1. th[t].pc = "mutex" /\ th' = Answer(t, "answered", <<"failed">>) /\ log' = log
    BY <1>2, Zenon DEF LowerFails
  <2>2. th[t].pc \in Pending /\ "answered" \in Over
    BY <2>1 DEF Pending, Over
  <2> QED BY <2>1, <2>2, FailureMaps, Zenon
<1>3. ASSUME UNCHANGED vars PROVE MapStep
  <2>1. th' = th /\ log' = log
    BY <1>3, Zenon DEF vars
  <2>2. refs' = refs
    BY <2>1 DEF refs
  <2>3. Calls' = Calls
    BY <2>1, Zenon DEF Calls
  <2> QED BY <2>2, <2>3, Zenon DEF MapStep
<1>4. Stopped => UNCHANGED vars
  BY Zenon DEF Stopped
<1> QED BY <1>1, <1>2, <1>3, <1>4, StepMaps, RestoreFailsMaps, CallMaps, CrashMaps, PowerLossMaps,
           Zenon DEF Next, Fails

(* The store implements RefMap, for any processes, threads, names, records   *)
(* and calls: each call acts at one moment on one map and gets the answer    *)
(* that map gives, or fails without having acted; only a volatile write may  *)
(* have acted and answer an error (refstore/mod.rs, cas.rs).                 *)
THEOREM RefStoreImplementsRefMap == Spec => ImplementsRefMap
<1>1. Init => Abstract!Init
  <2> SUFFICES ASSUME Init PROVE Abstract!Init
    OBVIOUS
  <2>1. log = <<EmptyRefs>> /\ th = [t \in Threads |-> Idle]
    BY Zenon DEF Init
  <2>2. refs = EmptyRefs
    BY <2>1 DEF refs
  <2>3. Idle.pc = "idle"
    BY DEF Idle
  <2>4. \A t \in Threads : AbsCall(th[t]) = Abstract!Idle
    BY <2>1, <2>3, Seen, Zenon
  <2> QED BY <2>2, <2>4, Zenon DEF Abstract!Init
<1>2. IInv /\ [Next]_vars => [Abstract!Next]_<<refs, Calls>>
  BY NextMaps, Zenon DEF MapStep
<1>3. IInv /\ [Next]_vars => [Abstract!Next]_<<refs, [t \in Threads |-> AbsCall(th[t])]>>
  BY <1>2, Zenon DEF Calls
<1> QED BY <1>1, <1>3, RefStoreInvariant, PTL DEF Spec, ImplementsRefMap, Abstract!Spec


=============================================================================
