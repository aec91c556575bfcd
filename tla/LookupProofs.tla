---------------------------- MODULE LookupProofs -----------------------------
(***************************************************************************)
(* How a key is looked for: the search of a segment's index is exact and   *)
(* stays in bounds, for every set of keys, every first byte and every      *)
(* number of rows; and the plan of the bulk absence check is right for     *)
(* every length, every number of processors and every value of its two     *)
(* constants.                                                              *)
(***************************************************************************)
EXTENDS IndexSearch, MissingPlan, FooterBounds, TLAPS

-----------------------------------------------------------------------------
(* The search of an index (footer.rs).                                     *)

\* The middle of a range that is not empty lies in it (search_index_pos).
LEMMA MidInRange ==
    ASSUME low \in Nat, high \in Nat, low < high
    PROVE  Mid \in Nat /\ low <= Mid /\ Mid < high
  BY SMT DEF Mid

\* A fanout that parse_index_section accepts bounds every bucket by the rows.
LEMMA BucketInRows ==
    ASSUME IndexAssumption, TypeOK, Monotonic, NEW k \in Keys
    PROVE  /\ First(k) \in 0..Fan
           /\ BucketStart(First(k)) \in Nat /\ fanout[First(k)] \in Nat /\ count \in Nat
           /\ BucketStart(First(k)) <= fanout[First(k)] /\ fanout[First(k)] <= count
  <1>1. First(k) \in 0..Fan /\ Fan \in Nat
    BY Zenon DEF IndexAssumption
  <1>2. fanout \in [0..Fan -> Nat] /\ count \in Nat
    BY SMT DEF IndexAssumption, TypeOK, Fanouts
  <1>3. fanout[First(k)] <= fanout[Fan] /\ fanout[Fan] = count
    BY <1>1 DEF Monotonic
  <1>4. BucketStart(First(k)) \in Nat /\ BucketStart(First(k)) <= fanout[First(k)]
    <2>1. CASE First(k) > 0
      <3>1. First(k) - 1 \in 0..Fan /\ First(k) - 1 <= First(k)
        BY <1>1, <2>1
      <3> QED BY <1>1, <1>2, <2>1, <3>1 DEF BucketStart, Monotonic
    <2>2. CASE ~(First(k) > 0)
      BY <1>1, <1>2, <2>2 DEF BucketStart
    <2> QED BY <2>1, <2>2
  <1> QED BY <1>1, <1>2, <1>3, <1>4

\* A search that stands within its bucket reads rows of the index only.
THEOREM ProbeInBounds == ASSUME IndexAssumption PROVE IInv => RowsInBounds
  <1> SUFFICES ASSUME IInv, pc = "probe" PROVE
           /\ low < high => lo + Mid \in 0..(count - 1)
           /\ low >= high /\ low < n => lo + low \in 0..(count - 1)
    BY Zenon DEF RowsInBounds
  <1>1. /\ TypeOK /\ Monotonic /\ key \in Keys
        /\ lo = BucketStart(First(key)) /\ n = fanout[First(key)] - lo
        /\ low <= high /\ high <= n
    BY Zenon DEF IInv
  <1>2. lo \in Nat /\ n \in Nat /\ low \in Nat /\ high \in Nat
    BY <1>1, Zenon DEF TypeOK
  <1>3. count \in Nat /\ lo + n <= count
    BY <1>1, <1>2, BucketInRows
  <1>4. low < high => Mid \in Nat /\ low <= Mid /\ Mid < high
    BY <1>2, MidInRange, Zenon
  <1> QED BY <1>1, <1>2, <1>3, <1>4

\* The search facts of the inductive invariant, of a probe that rules out one
\* half: everything below a smaller row is smaller, everything from a larger
\* row on is not (the comparison in search_index_pos).
LEMMA ProbeRulesOut ==
    ASSUME IndexAssumption, IInv, Probe
    PROVE  /\ low' <= high' /\ high' <= n
           /\ WellFormed =>
                 /\ \A i \in 0..(low' - 1) : rows[lo + i] < key
                 /\ \A i \in high'..(n - 1) : rows[lo + i] >= key
           /\ low' \in Nat /\ high' \in Nat
  <1>1. /\ TypeOK /\ Monotonic /\ key \in Keys /\ pc = "probe" /\ low < high
        /\ lo = BucketStart(First(key)) /\ n = fanout[First(key)] - lo
        /\ low <= high /\ high <= n
    BY Zenon DEF IInv, Probe
  <1>2. lo \in Nat /\ n \in Nat /\ low \in Nat /\ high \in Nat /\ count \in Nat /\ lo + n <= count
    BY <1>1, BucketInRows DEF TypeOK
  <1>3. Mid \in Nat /\ low <= Mid /\ Mid < high
    BY <1>1, <1>2, MidInRange, Zenon
  <1>4. \A i \in 0..(n - 1) : lo + i \in 0..(count - 1) /\ rows[lo + i] \in Nat
    <2>1. \A i \in 0..(count - 1) : rows[i] \in Nat
      <3>1. PICK c \in 0..MaxRows : rows \in [0..(c - 1) -> Keys]
        BY <1>1, Zenon DEF TypeOK, Rows
      <3> QED BY <3>1, <1>1, Zenon DEF IndexAssumption, TypeOK
    <2> QED BY <2>1, <1>2
  <1>5. key \in Nat
    BY <1>1, Zenon DEF TypeOK
  <1>6. CASE rows[lo + Mid] < key
    <2>1. low' = Mid + 1 /\ high' = high
      BY <1>6, Zenon DEF Probe
    <2>2. ASSUME WellFormed, NEW i \in 0..Mid PROVE rows[lo + i] < key
      <3>1. i \in Nat /\ lo + i \in 0..(count - 1) /\ lo + Mid \in 0..(count - 1) /\ i <= Mid
        BY <1>1, <1>2, <1>3, <1>4
      <3>2. CASE i = Mid
        BY <3>2, <1>6, Zenon
      <3>3. CASE i # Mid
        <4>1. rows[lo + i] < rows[lo + Mid]
          BY <3>1, <3>3, <2>2, <1>2, <1>3 DEF WellFormed
        <4>2. rows[lo + i] \in Nat /\ rows[lo + Mid] \in Nat
          BY <1>1, <1>2, <1>3, <1>4, <3>1
        <4> QED BY <4>1, <4>2, <1>5, <1>6
      <3> QED BY <3>2, <3>3
    <2>3. WellFormed => \A i \in high..(n - 1) : rows[lo + i] >= key
      BY <1>1, Zenon DEF IInv
    <2> QED BY <1>1, <1>2, <1>3, <2>1, <2>2, <2>3
  <1>7. CASE ~(rows[lo + Mid] < key)
    <2>1. low' = low /\ high' = Mid
      BY <1>7, Zenon DEF Probe
    <2>2. ASSUME WellFormed, NEW i \in Mid..(n - 1) PROVE rows[lo + i] >= key
      <3>1. i \in Nat /\ lo + i \in 0..(count - 1) /\ lo + Mid \in 0..(count - 1) /\ i >= Mid
        BY <1>1, <1>2, <1>3, <1>4
      <3>2. rows[lo + i] \in Nat /\ rows[lo + Mid] \in Nat
        BY <1>1, <1>2, <1>3, <1>4, <3>1
      <3>3. CASE i = Mid
        BY <3>3, <3>2, <1>7, <1>5
      <3>4. CASE i # Mid
        <4>1. rows[lo + Mid] < rows[lo + i]
          BY <3>1, <3>4, <2>2, <1>2, <1>3 DEF WellFormed
        <4> QED BY <4>1, <3>2, <1>5, <1>7
      <3> QED BY <3>3, <3>4
    <2>3. WellFormed => \A i \in 0..(low - 1) : rows[lo + i] < key
      BY <1>1, Zenon DEF IInv
    <2> QED BY <1>1, <1>2, <1>3, <2>1, <2>2, <2>3
  <1> QED BY <1>6, <1>7

\* When the range is empty the row at low decides: a row equal to the key is
\* in the key's bucket, not below low, and nothing from low on precedes it.
LEMMA FinishIsExact ==
    ASSUME IndexAssumption, IInv, Finish
    PROVE  LookupExact' /\ pos' \in Nat \cup {None}
  <1>1. /\ TypeOK /\ Monotonic /\ key \in Keys /\ pc = "probe" /\ low >= high
        /\ lo = BucketStart(First(key)) /\ n = fanout[First(key)] - lo
        /\ low <= high /\ high <= n
    BY Zenon DEF IInv, Finish
  <1>2. lo \in Nat /\ n \in Nat /\ low \in Nat /\ high \in Nat /\ count \in Nat /\ lo + n <= count
    BY <1>1, BucketInRows DEF TypeOK
  <1>3. low = high
    BY <1>1, <1>2
  <1>4. rows' = rows /\ count' = count /\ fanout' = fanout /\ key' = key
    BY Zenon DEF Finish, index
  <1>5. WellFormed' <=> WellFormed
    BY <1>4, Zenon DEF WellFormed, BucketStart
  <1>6. CASE low < n /\ rows[lo + low] = key
    <2>1. pos' = lo + low /\ lo + low \in 0..(count - 1) /\ lo + low \in Nat
      BY <1>6, <1>2 DEF Finish
    <2>2. pos' # None
      BY <2>1 DEF None
    <2> QED BY <1>4, <1>6, <2>1, <2>2 DEF LookupExact
  <1>7. CASE ~(low < n /\ rows[lo + low] = key)
    <2>1. pos' = None
      BY <1>7, Zenon DEF Finish
    <2>2. ASSUME WellFormed, NEW i \in 0..(count - 1), rows[i] = key PROVE FALSE
      <3>1. i \in lo..(fanout[First(key)] - 1)
        BY <2>2, <1>1, BucketInRows, Zenon DEF WellFormed
      <3>2. i - lo \in 0..(n - 1) /\ lo + (i - lo) = i
        BY <3>1, <1>1, <1>2, BucketInRows
      <3>3. /\ \A j \in 0..(low - 1) : rows[lo + j] < key
            /\ \A j \in low..(n - 1) : rows[lo + j] >= key
        BY <1>1, <1>3, <2>2, Zenon DEF IInv
      <3>4. key \in Nat
        BY <1>1, Zenon DEF TypeOK
      <3>5. i - lo \in low..(n - 1)
        BY <3>2, <3>3, <3>4, <1>2, <2>2
      <3>6. low < n /\ low \in low..(n - 1) /\ lo + low \in 0..(count - 1)
        BY <3>5, <1>2
      <3>7. rows[lo + low] \in Nat
        <4>1. PICK c \in 0..MaxRows : rows \in [0..(c - 1) -> Keys]
          BY <1>1, Zenon DEF TypeOK, Rows
        <4> QED BY <4>1, <1>1, <3>6, Zenon DEF IndexAssumption, TypeOK
      <3>8. CASE i = lo + low
        BY <3>8, <2>2, <1>7, <3>6, Zenon
      <3>9. CASE i # lo + low
        <4>1. lo + low < i
          BY <3>5, <3>9, <1>2, <3>2
        <4>2. rows[lo + low] < rows[i]
          BY <4>1, <3>6, <2>2, Zenon DEF WellFormed
        <4>3. rows[lo + low] >= key
          BY <3>3, <3>6, Zenon
        <4> QED BY <4>2, <4>3, <2>2, <3>4, <3>7
      <3> QED BY <3>8, <3>9
    <2> QED BY <1>4, <1>5, <2>1, <2>2 DEF LookupExact
  <1> QED BY <1>6, <1>7

\* What the fanout and the rows are never changes once read, so neither do
\* the notions that depend on them alone.
LEMMA IndexFixed ==
    ASSUME UNCHANGED index
    PROVE  (Monotonic' <=> Monotonic) /\ (WellFormed' <=> WellFormed)
  BY Zenon DEF index, Monotonic, WellFormed, BucketStart

\* The inductive invariant is one: it holds at the start, and every step of
\* the search keeps it.
THEOREM IndexInvariant == ASSUME IndexAssumption PROVE Spec => []IInv
  <1>1. Init => IInv
    BY DEF Init, IInv, TypeOK, LookupExact, None
  <1>2. IInv /\ [Next]_vars => IInv'
    <2> SUFFICES ASSUME IInv, [Next]_vars PROVE IInv'
      OBVIOUS
    <2>1. CASE Parse
      BY <2>1, IndexFixed, Zenon DEF IInv, TypeOK, Parse, LookupExact, index
    <2>2. ASSUME NEW k \in Keys, Search(k) PROVE IInv'
      <3>1. TypeOK /\ Monotonic
        BY <2>2, Zenon DEF IInv, Search
      <3>2. k \in Nat
        BY Zenon DEF IndexAssumption
      <3>3. /\ BucketStart(First(k)) \in Nat /\ fanout[First(k)] \in Nat
            /\ BucketStart(First(k)) <= fanout[First(k)]
        BY <3>1, BucketInRows, Zenon
      <3>4. fanout' = fanout
        BY <2>2, Zenon DEF Search, index
      <3>5. /\ key' = k /\ lo' = BucketStart(First(k)) /\ low' = 0 /\ pc' = "probe"
            /\ n' = fanout[First(k)] - BucketStart(First(k)) /\ high' = n'
            /\ n' \in Nat
        BY <2>2, <3>3 DEF Search
      <3>6. TypeOK'
        BY <2>2, <3>1, <3>2, <3>3, <3>5 DEF Search, TypeOK, index
      <3>7. Monotonic'
        BY <2>2, <3>1, IndexFixed, Zenon DEF Search
      <3>8. /\ key' \in Keys /\ lo' = BucketStart(First(key))' /\ n' = (fanout[First(key)] - lo)'
        BY <3>4, <3>5, Zenon DEF BucketStart
      <3>9. low' <= high' /\ high' <= n' /\ 0..(low' - 1) = {} /\ high'..(n' - 1) = {}
        BY <3>5
      <3> QED BY <3>5, <3>6, <3>7, <3>8, <3>9 DEF IInv, LookupExact
    <2>3. CASE Probe
      <3>1. /\ UNCHANGED index /\ pc = "probe" /\ pc' = "probe"
            /\ key' = key /\ lo' = lo /\ n' = n /\ pos' = pos
        BY <2>3, Zenon DEF Probe
      <3>2. rows' = rows /\ fanout' = fanout /\ count' = count
        BY <3>1, Zenon DEF index
      <3>3. TypeOK'
        BY <2>3, <3>1, <3>2, ProbeRulesOut, Zenon DEF IInv, TypeOK
      <3>4. Monotonic' /\ (WellFormed' <=> WellFormed)
        BY <3>1, IndexFixed, Zenon DEF IInv
      <3>5. key' \in Keys /\ lo' = BucketStart(First(key))' /\ n' = (fanout[First(key)] - lo)'
        BY <3>1, <3>2, Zenon DEF IInv, BucketStart
      <3>6. low' <= high' /\ high' <= n'
        BY <2>3, <3>1, ProbeRulesOut, Zenon
      <3>7. WellFormed' => /\ \A i \in 0..(low' - 1) : rows'[lo' + i] < key'
                          /\ \A i \in high'..(n' - 1) : rows'[lo' + i] >= key'
        BY <2>3, <3>1, <3>2, <3>4, ProbeRulesOut, Zenon
      <3>8. LookupExact'
        BY <3>1, Zenon DEF LookupExact
      <3> QED BY <3>3, <3>4, <3>5, <3>6, <3>7, <3>8 DEF IInv
    <2>4. CASE Finish
      <3>1. UNCHANGED index /\ pc = "probe" /\ pc' = "done" /\ UNCHANGED <<key, lo, n, low, high>>
        BY <2>4, Zenon DEF Finish
      <3>2. TypeOK'
        BY <2>4, <3>1, FinishIsExact, Zenon DEF IInv, TypeOK, index
      <3>3. Monotonic'
        BY <3>1, IndexFixed, Zenon DEF IInv
      <3> QED BY <2>4, <3>1, <3>2, <3>3, FinishIsExact DEF IInv
    <2>5. CASE UNCHANGED vars
      BY <2>5, Zenon DEF vars, IInv, TypeOK, LookupExact, Monotonic, WellFormed, BucketStart
    <2> QED BY <2>1, <2>2, <2>3, <2>4, <2>5 DEF Next
  <1> QED BY <1>1, <1>2, PTL DEF Spec

\* search_index finds a key exactly when a row of the index holds it, for
\* every index that build_index_section writes.
THEOREM SearchIsExact == ASSUME IndexAssumption PROVE Spec => []LookupExact
  <1>1. IInv => LookupExact
    BY Zenon DEF IInv
  <1> QED BY <1>1, IndexInvariant, PTL

\* No probe of search_index reads outside of the index section, whatever a
\* file holds, once parse_index_section accepted its fanout.
THEOREM SearchStaysInside == ASSUME IndexAssumption PROVE Spec => []RowsInBounds
  BY IndexInvariant, ProbeInBounds, PTL

-----------------------------------------------------------------------------
(* The plan of the bulk absence check (missing.rs).                        *)

\* Division with remainder, as the rounding of the plan needs it.
LEMMA Division ==
    ASSUME NEW a \in Nat, NEW b \in Nat \ {0}
    PROVE  /\ a \div b \in Nat
           /\ b * (a \div b) <= a
           /\ a < b * (a \div b) + b
BY SMT

\* Rounding up: as many parts of that size hold everything, and nothing needs none.
LEMMA RoundingUp ==
    ASSUME NEW a \in Nat, NEW b \in Nat \ {0}
    PROVE  /\ div_ceil(a, b) \in Nat
           /\ a <= b * div_ceil(a, b)
           /\ div_ceil(a, b) = 0 <=> a = 0
<1>1. a + b - 1 \in Nat
  OBVIOUS
<1>2. /\ div_ceil(a, b) \in Nat
      /\ b * div_ceil(a, b) <= a + b - 1
      /\ a + b - 1 < b * div_ceil(a, b) + b
  BY <1>1, Division, Zenon DEF div_ceil
<1>3. a <= b * div_ceil(a, b)
  BY <1>2
<1>4. ASSUME div_ceil(a, b) = 0 PROVE a = 0
  BY <1>3, <1>4
<1>5. ASSUME a = 0 PROVE div_ceil(a, b) = 0
  <2>1. ASSUME div_ceil(a, b) >= 1 PROVE b * div_ceil(a, b) >= b
    BY <2>1, <1>2
  <2> QED BY <1>2, <1>5, <2>1
<1> QED BY <1>2, <1>3, <1>4, <1>5

\* There is a worker exactly when there is a key and a processor.
LEMMA SomeWorkers ==
    ASSUME PlanAssumption, NEW len \in Nat, NEW parallelism \in Nat
    PROVE  /\ workers(len, parallelism) \in Nat
           /\ workers(len, parallelism) = 0 <=> len = 0 \/ parallelism = 0
<1> DEFINE m == div_ceil(len, MIN_MISSING_CHUNK)
<1>1. m \in Nat /\ (m = 0 <=> len = 0)
  BY RoundingUp, Zenon DEF PlanAssumption
<1> HIDE DEF m
<1>2. workers(len, parallelism) = Lesser(Lesser(m, parallelism), MAX_PARALLEL)
  BY Zenon DEF workers, m
<1> QED BY <1>1, <1>2 DEF PlanAssumption, Lesser

\* Two chunks of one length do not overlap: a position in both is between the
\* same two multiples of it.
LEMMA ChunksApart ==
    ASSUME NEW len \in Nat, NEW c \in Nat, NEW at \in Nat,
           NEW i \in Nat, NEW j \in Nat, at < len,
           InChunk(at, len, c, i), InChunk(at, len, c, j)
    PROVE  ~(i < j)
<1>1. i * c \in Nat /\ (i + 1) * c \in Nat /\ j * c \in Nat /\ (j + 1) * c \in Nat
  BY SMT
<1>2. at < (i + 1) * c
  BY <1>1 DEF InChunk, chunk_bounds, Lesser
<1>3. j * c <= at
  BY <1>1 DEF InChunk, chunk_bounds, Lesser
<1>4. ASSUME i < j PROVE (i + 1) * c <= j * c
  <2>1. PICK d \in Nat : j = (i + 1) + d
    <3>1. j - (i + 1) \in Nat /\ j = (i + 1) + (j - (i + 1))
      BY <1>4
    <3> QED BY <3>1
  <2>2. j * c = (i + 1) * c + d * c /\ d * c \in Nat
    BY <2>1
  <2> QED BY <2>2, <1>1
<1> QED BY <1>1, <1>2, <1>3, <1>4

\* The chunks of missing partition its list, whatever the length and the number
\* of processors: plan and chunk_bounds leave out no key and look none up twice.
THEOREM ChunksPartition ==
    ASSUME PlanAssumption, NEW len \in Nat, NEW parallelism \in Nat
    PROVE  Partitions(len, parallelism)
<1> DEFINE w == workers(len, parallelism)
           c == div_ceil(len, w)
<1>1. w \in Nat /\ (w = 0 <=> len = 0 \/ parallelism = 0)
  BY SomeWorkers, Zenon
<1>2. CASE w = 0
  <2>1. plan(len, parallelism)[1] = 0
    BY <1>2, Zenon DEF plan
  <2> QED BY <1>1, <1>2, <2>1 DEF Partitions
<1>3. CASE w # 0
  <2>1. plan(len, parallelism)[1] = w /\ plan(len, parallelism)[2] = c
    BY <1>3, Zenon DEF plan
  <2>2. c \in Nat /\ len <= w * c /\ (c = 0 <=> len = 0)
    BY <1>1, <1>3, RoundingUp, Zenon
  <2> HIDE DEF w, c
  <2>3. ASSUME NEW at \in 0 .. len - 1
        PROVE  \E i \in 0 .. w - 1 : InChunk(at, len, c, i)
    <3> DEFINE i == at \div c
    <3>1. c \in Nat \ {0} /\ at \in Nat /\ at < len
      BY <1>1, <1>3, <2>2
    <3>2. i \in Nat /\ c * i <= at /\ at < c * i + c
      BY <3>1, Division, Zenon
    <3> HIDE DEF i
    <3>3. i * c = c * i /\ (i + 1) * c = c * i + c
      BY <3>1, <3>2
    <3>4. i < w
      <4>1. SUFFICES ASSUME w <= i PROVE FALSE
        BY <1>1, <3>2
      <4>2. PICK d \in Nat : i = w + d
        <5>1. i - w \in Nat /\ i = w + (i - w)
          BY <4>1, <1>1, <3>2
        <5> QED BY <5>1
      <4>3. c * i = w * c + d * c /\ d * c \in Nat /\ w * c \in Nat
        BY <4>2, <1>1, <3>1
      <4> QED BY <4>3, <2>2, <3>1, <3>2
    <3>5. InChunk(at, len, c, i)
      <4>1. c * i \in Nat
        BY <3>1, <3>2
      <4> QED BY <4>1, <3>1, <3>2, <3>3 DEF InChunk, chunk_bounds, Lesser
    <3>6. i \in 0 .. w - 1
      BY <1>1, <3>2, <3>4
    <3> QED BY <3>5, <3>6
  <2>4. ASSUME NEW at \in 0 .. len - 1, NEW i \in 0 .. w - 1, NEW j \in 0 .. w - 1,
               InChunk(at, len, c, i), InChunk(at, len, c, j)
        PROVE  i = j
    <3>1. /\ at \in Nat /\ at < len
          /\ i \in Nat /\ j \in Nat
      BY <1>1
    <3>2. ~(i < j) /\ ~(j < i)
      BY <2>2, <2>4, <3>1, ChunksApart, Zenon
    <3> QED BY <3>1, <3>2
  <2> QED BY <1>1, <1>3, <2>1, <2>3, <2>4 DEF Partitions
<1> QED BY <1>2, <1>3

-----------------------------------------------------------------------------
(* The checks on a footer (footer.rs): none wraps, for every word size and *)
(* every file that leaves room for the largest index.                      *)


\* Sums and products below the word size do not wrap.
LEMMA NoWrap == ASSUME NEW a \in Nat, U64 \in Nat, a < U64 PROVE a % U64 = a
  BY SMT

\* Nor do differences that are not negative.
LEMMA NoBorrow ==
    ASSUME NEW a \in Nat, NEW b \in Nat, U64 \in Nat, a < U64, b <= a
    PROVE  Minus(a, b) = a - b
  <1>1. a - b \in Nat /\ a - b < U64
    BY SMT
  <1> QED BY <1>1, NoWrap, Zenon DEF Minus

\* The index of the largest key count that parse_footer lets through fits.
LEMMA IndexFits ==
    ASSUME FooterAssumption, NEW c \in Nat, c <= U32 - 1
    PROVE  /\ c * Entry \in Nat /\ c * Entry < U64
           /\ MaxFile + Fanout + c * Entry < U64
  <1>1. U32 \in Nat /\ Entry \in Nat /\ Fanout \in Nat /\ MaxFile \in Nat /\ U64 \in Nat
        /\ MaxFile + Fanout + U32 * Entry < U64
    BY Zenon DEF FooterAssumption
  <1>2. c * Entry \in Nat /\ c * Entry <= U32 * Entry
    BY <1>1, SMT
  <1>3. U32 * Entry \in Nat
    BY <1>1, SMT
  <1> QED BY <1>1, <1>2, <1>3

\* Every check of parse_footer and record_span relies only on what the checks
\* before it established.
THEOREM FooterInvariant == ASSUME FooterAssumption PROVE FooterSpec => []FooterInv
  <1> USE DEF FooterAssumption
  <1>1. FooterInit => FooterInv
    BY DEF FooterInit, FooterInv, NoTrailer, SectionsTile, SpanInBody
  <1>2. FooterInv /\ [FooterNext]_footer_vars => FooterInv'
    <2> SUFFICES ASSUME FooterInv, [FooterNext]_footer_vars PROVE FooterInv'
      OBVIOUS
    <2>1. CASE Open
      BY <2>1, Zenon DEF Open, Rejects, FooterInv, SectionsTile, SpanInBody
    <2>2. CASE BodyLen
      BY <2>2 DEF BodyLen, Rejects, FooterInv, SectionsTile, SpanInBody, Word
    <2>3. CASE KeyCount
      BY <2>3 DEF KeyCount, Rejects, FooterInv, SectionsTile, SpanInBody, Word
    <2>4. CASE Index
      <3>1. PICK o \in Word, l \in Word :
              /\ tr' = [tr EXCEPT !.index_off = o, !.index_len = l]
              /\ Rejects(/\ o = Plus(tr.body_len, 1)
                         /\ l = Plus(Fanout, Times(tr.key_count, Entry)), "filter")
        BY <2>4, Zenon DEF Index
      <3>2. stage = "index" /\ UNCHANGED <<file_len, off, slen, span_end>>
        BY <2>4, Zenon DEF Index
      <3>3. /\ tr.body_len \in Nat /\ tr.key_count \in Nat /\ file_len \in 0..MaxFile
            /\ Header <= tr.body_len /\ tr.body_len < file_len /\ tr.key_count <= U32 - 1
        BY <3>2, Zenon DEF FooterInv
      <3>4. Plus(tr.body_len, 1) = tr.body_len + 1
        BY <3>3, IndexFits, NoWrap DEF Plus
      <3>5. Plus(Fanout, Times(tr.key_count, Entry)) = Fanout + tr.key_count * Entry
        <4>1. Times(tr.key_count, Entry) = tr.key_count * Entry
          BY <3>3, IndexFits, NoWrap, Zenon DEF Times
        <4>2. Fanout + tr.key_count * Entry \in Nat /\ Fanout + tr.key_count * Entry < U64
          BY <3>3, IndexFits
        <4> QED BY <4>1, <4>2, NoWrap DEF Plus
      <3>6. o \in Nat /\ l \in Nat
        BY DEF Word
      <3>7. CASE stage' = "filter"
        <4>1. o = tr.body_len + 1 /\ l = Fanout + tr.key_count * Entry
          BY <3>1, <3>4, <3>5, <3>7, Zenon DEF Rejects
        <4> QED BY <3>1, <3>2, <3>3, <3>6, <3>7, <4>1, Zenon DEF FooterInv, SectionsTile, SpanInBody
      <3>8. CASE stage' = "corrupt"
        BY <3>1, <3>2, <3>6, <3>8, Zenon DEF FooterInv, SectionsTile, SpanInBody
      <3> QED BY <3>1, <3>7, <3>8 DEF Rejects
    <2>5. CASE Filter
      <3>1. PICK o \in Word, l \in Word :
              /\ tr' = [tr EXCEPT !.filter_off = o, !.filter_len = l]
              /\ \/ Rejects(/\ o = Plus(tr.index_off, tr.index_len)
                            /\ o <= Minus(file_len, Trailer)
                            /\ l = Minus(Minus(file_len, Trailer), o), "parsed")
                 \/ stage' = "corrupt"
        BY <2>5, Zenon DEF Filter
      <3>2. stage = "filter" /\ UNCHANGED <<file_len, off, slen, span_end>>
        BY <2>5, Zenon DEF Filter
      <3>3. /\ tr.body_len \in Nat /\ tr.key_count \in Nat /\ file_len \in 0..MaxFile
            /\ Header <= tr.body_len /\ tr.body_len < file_len /\ tr.key_count <= U32 - 1
            /\ tr.index_off = tr.body_len + 1 /\ tr.index_len = Fanout + tr.key_count * Entry
            /\ MinSealed <= file_len
        BY <3>2, Zenon DEF FooterInv
      <3>4. Plus(tr.index_off, tr.index_len) = tr.index_off + tr.index_len
        <4>1. tr.index_off + tr.index_len \in Nat /\ tr.index_off + tr.index_len < U64
          BY <3>3, IndexFits
        <4> QED BY <4>1, NoWrap DEF Plus
      <3>5. o \in Nat /\ l \in Nat
        BY DEF Word
      <3>6. CASE stage' = "parsed"
        <4>0. file_len - Trailer \in Nat /\ Minus(file_len, Trailer) = file_len - Trailer
          <5>1. file_len \in Nat /\ Trailer \in Nat /\ Trailer <= file_len
            BY <3>3 DEF MinSealed
          <5>2. file_len < U64 /\ U64 \in Nat
            BY <3>3, IndexFits
          <5>3. Minus(file_len, Trailer) = file_len - Trailer
            BY <5>1, <5>2, NoBorrow, Zenon
          <5> QED BY <5>1, <5>3
        <4>7. o = tr.index_off + tr.index_len /\ o <= file_len - Trailer
              /\ l = Minus(file_len - Trailer, o)
          BY <3>1, <3>4, <3>6, <4>0, Zenon DEF Rejects
        <4>8. Minus(file_len - Trailer, o) = file_len - Trailer - o
          <5>1. file_len - Trailer < U64 /\ U64 \in Nat
            BY <3>3, IndexFits
          <5> QED BY <3>5, <4>0, <4>7, <5>1, NoBorrow, Zenon
        <4>1. o = tr.index_off + tr.index_len /\ l = file_len - Trailer - o
          BY <4>7, <4>8, Zenon
        <4>2. /\ tr'.filter_off = o /\ tr'.filter_len = l /\ tr'.body_len = tr.body_len
              /\ tr'.index_off = tr.index_off /\ tr'.index_len = tr.index_len
              /\ tr'.key_count = tr.key_count /\ file_len' = file_len
          BY <3>1, <3>2, Zenon DEF FooterInv
        <4>3. o + l + Trailer = file_len
          BY <3>3, <3>5, <4>1
        <4>4. SectionsTile'
          BY <3>3, <4>1, <4>2, <4>3, Zenon DEF SectionsTile
        <4>5. SpanInBody'
          BY <3>6, Zenon DEF SpanInBody
        <4>6. tr' \in [body_len : Nat, key_count : Nat, index_off : Nat, index_len : Nat,
                       filter_off : Nat, filter_len : Nat]
          BY <3>1, <3>5, Zenon DEF FooterInv
        <4> QED BY <3>2, <3>3, <3>6, <4>2, <4>4, <4>5, <4>6 DEF FooterInv
      <3>7. CASE stage' = "corrupt"
        BY <3>1, <3>2, <3>5, <3>7, Zenon DEF FooterInv, SectionsTile, SpanInBody
      <3> QED BY <3>1, <3>6, <3>7 DEF Rejects
    <2>6. CASE record_span
      <3>1. PICK o \in Word, l \in 0..(U32 - 1) :
              /\ off' = o /\ slen' = l
              /\ span_end' = Plus(Plus(o, RecHeader), l)
              /\ Rejects(InBody(o, l), "span")
        BY <2>6, Zenon DEF record_span
      <3>2. stage = "parsed" /\ UNCHANGED <<file_len, tr>>
        BY <2>6, Zenon DEF record_span
      <3>3. /\ tr.body_len \in Nat /\ file_len \in 0..MaxFile
            /\ Header <= tr.body_len /\ tr.body_len < file_len
        BY <3>2, Zenon DEF FooterInv
      <3>4. o \in Nat /\ l \in Nat /\ l <= U32 - 1 /\ U64 \in Nat /\ RecHeader \in Nat
        BY DEF Word
      <3>5. Plus(Plus(o, RecHeader), l) \in Nat
        BY <3>4 DEF Plus
      <3>6. CASE InBody(o, l)
        <4>1. file_len < U64
          BY <3>3, IndexFits
        <4>2. Plus(RecHeader, l) = RecHeader + l
          <5>1. RecHeader + l \in Nat /\ RecHeader + l < U64
            BY <3>4
          <5> QED BY <3>4, <5>1, NoWrap DEF Plus
        <4>3. Minus(tr.body_len, o) = tr.body_len - o
          <5>1. tr.body_len < U64 /\ o <= tr.body_len
            BY <3>3, <3>6, <4>1 DEF InBody
          <5> QED BY <3>3, <3>4, <5>1, NoBorrow, Zenon
        <4>4. Header <= o /\ RecHeader + l <= tr.body_len - o
          BY <3>6, <4>2, <4>3, Zenon DEF InBody
        <4>5. Plus(Plus(o, RecHeader), l) = o + RecHeader + l
          <5>1. /\ o + RecHeader \in Nat /\ o + RecHeader < U64
                /\ o + RecHeader + l \in Nat /\ o + RecHeader + l < U64
            BY <3>3, <3>4, <4>1, <4>4
          <5>2. Plus(o, RecHeader) = o + RecHeader
            BY <3>4, <5>1, NoWrap, Zenon DEF Plus
          <5> QED BY <3>4, <5>1, <5>2, NoWrap, Zenon DEF Plus
        <4>6. o + RecHeader + l <= tr.body_len
          BY <3>3, <3>4, <4>4
        <4>7. stage' = "span"
          BY <3>1, <3>6, Zenon DEF Rejects
        <4>8. SpanInBody'
          BY <3>1, <3>2, <3>3, <4>4, <4>5, <4>6, Zenon DEF SpanInBody
        <4> QED BY <3>1, <3>2, <3>4, <3>5, <4>7, <4>8, Zenon DEF FooterInv, SectionsTile
      <3>7. CASE ~InBody(o, l)
        <4>1. stage' = "corrupt"
          BY <3>1, <3>7, Zenon DEF Rejects
        <4> QED BY <3>1, <3>2, <3>4, <3>5, <4>1, Zenon DEF FooterInv, SectionsTile, SpanInBody
      <3> QED BY <3>6, <3>7
    <2>7. CASE UNCHANGED footer_vars
      BY <2>7, Zenon DEF footer_vars, FooterInv, SectionsTile, SpanInBody
    <2> QED BY <2>1, <2>2, <2>3, <2>4, <2>5, <2>6, <2>7 DEF FooterNext
  <1> QED BY <1>1, <1>2, PTL DEF FooterSpec

\* The slices that parse_footer takes lie in the file, whatever its trailer
\* says.
THEOREM FooterTiles == ASSUME FooterAssumption PROVE FooterSpec => []SectionsTile
  <1>1. FooterInv => SectionsTile
    BY Zenon DEF FooterInv
  <1> QED BY <1>1, FooterInvariant, PTL

\* The slice that record_span hands out is the record's length and lies in the
\* body, whatever its row says: no difference or sum on the way wraps.
THEOREM SpansStayInBody == ASSUME FooterAssumption PROVE FooterSpec => []SpanInBody
  <1>1. FooterInv => SpanInBody
    BY Zenon DEF FooterInv
  <1> QED BY <1>1, FooterInvariant, PTL
=============================================================================
