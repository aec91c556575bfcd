----------------------------- MODULE GateProofs -----------------------------
(***************************************************************************)
(* The safety of the gate (module Gate), proved for any number of stores,  *)
(* calls and segments: how it counts its calls, that its invariant         *)
(* survives each step of a span (begin_shared, end_shared), of a pause     *)
(* (pause_local, resume_local), of a sweep (begin_exclusive, bump,         *)
(* end_exclusive), of the condition variable and of the directory, so that *)
(* it always holds, and with it what the gate promises.                    *)
(***************************************************************************)
EXTENDS Gate, TLAPS

(***************************************************************************)
(* Counting calls.  A step moves one call, so it changes a count by one.   *)
(***************************************************************************)

(* A count is zero exactly if there is nothing to count (the test for the  *)
(* last span, and for an idle gate).                                       *)
LEMMA SizeZero ==
    ASSUME NEW S, NEW n \in Nat, HasSize(S, n)
    PROVE  n = 0 <=> S = {}
<1>1. PICK f \in [S -> 1..n] : \A i \in 1..n : \E x \in S : f[x] = i
    BY Zenon DEF HasSize
<1>2. n # 0 => 1 \in 1..n
    OBVIOUS
<1> QED
    BY <1>1, <1>2

(* Nothing is counted by zero. *)
LEMMA SizeOfNone == HasSize({}, 0)
<1> DEFINE g == [x \in {} |-> 1]
<1>1. g \in [{} -> 1..0]
    OBVIOUS
<1>2. \A i \in 1..0 : \E x \in {} : g[x] = i
    OBVIOUS
<1>3. \A x, y \in {} : g[x] = g[y] => x = y
    OBVIOUS
<1> HIDE DEF g
<1> QED
    BY <1>1, <1>2, <1>3, Zenon DEF HasSize

(* A count of one leaves room for one call (the last Sweep to be dropped). *)
LEMMA SizeOne ==
    ASSUME NEW S, NEW n \in Nat, HasSize(S, n), n <= 1,
           NEW c \in S, NEW d \in S
    PROVE  c = d
<1>1. PICK f \in [S -> 1..n] : \A x, y \in S : f[x] = f[y] => x = y
    BY Zenon DEF HasSize
<1>2. \A i, j \in 1..n : i = j
    OBVIOUS
<1> QED
    BY <1>1, <1>2

(* One more. *)
LEMMA SizeAdd ==
    ASSUME NEW S, NEW n \in Nat, HasSize(S, n), NEW c, c \notin S
    PROVE  HasSize(S \cup {c}, n + 1)
<1>1. PICK f \in [S -> 1..n] : /\ \A x, y \in S : f[x] = f[y] => x = y
                              /\ \A i \in 1..n : \E x \in S : f[x] = i
    BY Zenon DEF HasSize
<1> DEFINE g == [x \in S \cup {c} |-> IF x = c THEN n + 1 ELSE f[x]]
<1>2. \A x \in S : f[x] \in 1..n /\ g[x] = f[x] /\ f[x] # n + 1
    BY <1>1
<1>3. g \in [S \cup {c} -> 1..(n + 1)] /\ g[c] = n + 1
    BY <1>2
<1>4. \A x, y \in S \cup {c} : g[x] = g[y] => x = y
    BY <1>1, <1>2, <1>3, Zenon
<1>5. \A i \in 1..(n + 1) : \E x \in S \cup {c} : g[x] = i
    BY <1>1, <1>2, <1>3
<1> HIDE DEF g
<1> QED
    BY <1>3, <1>4, <1>5, Zenon DEF HasSize

(* One fewer: the last number goes to whoever would keep it. *)
LEMMA SizeDrop ==
    ASSUME NEW S, NEW n \in Nat, HasSize(S, n), NEW c \in S
    PROVE  HasSize(S \ {c}, n - 1)
<1>1. PICK f \in [S -> 1..n] : /\ \A x, y \in S : f[x] = f[y] => x = y
                              /\ \A i \in 1..n : \E x \in S : f[x] = i
    BY Zenon DEF HasSize
<1> DEFINE g == [x \in S \ {c} |-> IF f[x] = n THEN f[c] ELSE f[x]]
<1>2. \A x \in S : f[x] \in 1..n
    BY <1>1, Zenon
<1>3. \A x \in S \ {c} : f[x] # f[c] /\ g[x] = IF f[x] = n THEN f[c] ELSE f[x]
    BY <1>1, Zenon
<1>4. g \in [S \ {c} -> 1..(n - 1)]
    BY <1>2, <1>3
<1>5. \A x, y \in S \ {c} : g[x] = g[y] => x = y
    BY <1>1, <1>3
<1>6. ASSUME NEW i \in 1..(n - 1)
      PROVE  \E x \in S \ {c} : g[x] = i
    <2>1. PICK x \in S : f[x] = i
        BY <1>1
    <2>2. PICK y \in S : f[y] = n
        BY <1>1, <1>2
    <2>3. i # n
        OBVIOUS
    <2>4. CASE x = c
        BY <1>3, <2>1, <2>2, <2>3, <2>4, Zenon
    <2>5. CASE x # c
        BY <1>3, <2>1, <2>3, <2>5, Zenon
    <2> QED
        BY <2>4, <2>5, Zenon
<1> HIDE DEF g
<1> QED
    BY <1>4, <1>5, <1>6, Zenon DEF HasSize

(* By how much the move of call c, from p to q, changes the number of      *)
(* calls of K on store x in the states A.                                  *)
Delta(p, q, K, A, c, x) ==
    IF x = StoreOf[c] /\ c \in K
    THEN (IF q[c] \in A THEN 1 ELSE 0) - (IF p[c] \in A THEN 1 ELSE 0)
    ELSE 0

(* What moving one call does to a count. *)
LEMMA CountMoved ==
    ASSUME NEW p, NEW q, NEW K, NEW A, NEW c, NEW x, NEW n \in Nat,
           \A d \in K \ {c} : q[d] = p[d],
           HasSize(InStates(p, K, A, x), n)
    PROVE  HasSize(InStates(q, K, A, x), n + Delta(p, q, K, A, c, x))
<1> DEFINE S == InStates(p, K, A, x)
           T == InStates(q, K, A, x)
<1>1. CASE ~(x = StoreOf[c] /\ c \in K) \/ (p[c] \in A <=> q[c] \in A)
    <2>1. T = S
        BY <1>1, Zenon DEF InStates
    <2>2. n + Delta(p, q, K, A, c, x) = n
        BY <1>1 DEF Delta
    <2> QED
        BY <2>1, <2>2, Zenon
<1>2. CASE x = StoreOf[c] /\ c \in K /\ p[c] \notin A /\ q[c] \in A
    <2>1. T = S \cup {c} /\ c \notin S
        BY <1>2 DEF InStates
    <2>2. n + Delta(p, q, K, A, c, x) = n + 1
        BY <1>2 DEF Delta
    <2> QED
        BY <2>1, <2>2, SizeAdd
<1>3. CASE x = StoreOf[c] /\ c \in K /\ p[c] \in A /\ q[c] \notin A
    <2>1. T = S \ {c} /\ c \in S
        BY <1>3 DEF InStates
    <2>2. n + Delta(p, q, K, A, c, x) = n - 1
        BY <1>3 DEF Delta
    <2> QED
        BY <2>1, <2>2, SizeDrop
<1> QED
    BY <1>1, <1>2, <1>3, Zenon

(* A step that moves one call, and its store's counters with it, leaves    *)
(* the counters right.                                                     *)
LEMMA CountStep ==
    ASSUME TypeOK, CountInv, NEW c,
           \A d \in Calls \ {c} : pc'[d] = pc[d],
           \A x \in Stores :
               /\ shared'[x] = shared[x] + Delta(pc, pc', Spans, OpenStates, c, x)
               /\ exclusive'[x] = exclusive[x] + Delta(pc, pc', Sweeps, SweepStates, c, x)
    PROVE  CountInv'
<1>1. /\ \A d \in Spans \ {c} : pc'[d] = pc[d]
      /\ \A d \in Sweeps \ {c} : pc'[d] = pc[d]
    BY Zenon DEF Calls
<1>2. shared \in [Stores -> Nat] /\ exclusive \in [Stores -> Nat]
    BY Zenon DEF TypeOK
<1>3. OpenStates' = OpenStates /\ SweepStates' = SweepStates
    BY Zenon DEF OpenStates, SweepStates
<1>4. ASSUME NEW x \in Stores
      PROVE  /\ HasSize(InStates(pc', Spans, OpenStates, x), shared'[x])
             /\ HasSize(InStates(pc', Sweeps, SweepStates, x), exclusive'[x])
    <2>1. /\ HasSize(InStates(pc, Spans, OpenStates, x), shared[x])
          /\ HasSize(InStates(pc, Sweeps, SweepStates, x), exclusive[x])
        BY Zenon DEF CountInv
    <2>2. shared[x] \in Nat /\ exclusive[x] \in Nat
        BY <1>2, Zenon
    <2>3. HasSize(InStates(pc', Spans, OpenStates, x), shared'[x])
        BY <1>1, <2>1, <2>2, CountMoved, Zenon
    <2>4. HasSize(InStates(pc', Sweeps, SweepStates, x), exclusive'[x])
        BY <1>1, <2>1, <2>2, CountMoved, Zenon
    <2> QED
        BY <2>3, <2>4, Zenon
<1> QED
    BY <1>3, <1>4, Zenon DEF CountInv

(* A span in flight is counted, and so is a sweep.                         *)
LEMMA Counted ==
    ASSUME TypeOK, CountInv, NEW c \in Calls, StoreOf[c] \in Stores
    PROVE  /\ c \in Spans /\ pc[c] \in OpenStates => shared[StoreOf[c]] # 0
           /\ c \in Sweeps /\ pc[c] \in SweepStates => exclusive[StoreOf[c]] # 0
<1> DEFINE s == StoreOf[c]
<1>1. shared[s] \in Nat /\ exclusive[s] \in Nat
    BY Zenon DEF TypeOK
<1>2. /\ HasSize(InStates(pc, Spans, OpenStates, s), shared[s])
      /\ HasSize(InStates(pc, Sweeps, SweepStates, s), exclusive[s])
    BY Zenon DEF CountInv
<1>3. /\ c \in Spans /\ pc[c] \in OpenStates => c \in InStates(pc, Spans, OpenStates, s)
      /\ c \in Sweeps /\ pc[c] \in SweepStates => c \in InStates(pc, Sweeps, SweepStates, s)
    BY Zenon DEF InStates
<1> QED
    BY <1>1, <1>2, <1>3, SizeZero, Zenon

(* Two calls in flight are not counted as one.                             *)
LEMMA CountedOnce ==
    ASSUME TypeOK, CountInv, NEW c \in Sweeps, NEW d \in Sweeps,
           StoreOf[c] \in Stores, StoreOf[d] = StoreOf[c],
           pc[c] \in SweepStates, pc[d] \in SweepStates,
           exclusive[StoreOf[c]] <= 1
    PROVE  c = d
<1> DEFINE S == InStates(pc, Sweeps, SweepStates, StoreOf[c])
<1>1. c \in S /\ d \in S
    BY Zenon DEF InStates
<1>2. exclusive[StoreOf[c]] \in Nat /\ HasSize(S, exclusive[StoreOf[c]])
    BY Zenon DEF TypeOK, CountInv
<1> QED
    BY <1>1, <1>2, SizeOne, Zenon

(* Which states are which.                                                 *)
LEMMA StateNames ==
    /\ BusyShared \subseteq TakingLock
    /\ \A a \in {"look", "bump", "write", "refresh"} : a \in TakingLock
    /\ \A a \in {"drain", "drainPause", "paused", "drainEnd"} : a \in Blocking
    BY Zenon DEF TakingLock, Blocking, BusyShared, BusyExclusive

(* The invariant survives asking for a span (begin_shared is called).      *)
LEMMA CallSpanInv ==
    ASSUME ProtocolInv, NEW c \in Spans, CallSpan(c)
    PROVE  ProtocolInv'
<1> /\ TypeOK /\ CountInv /\ BusyInv /\ BlockedInv /\ FlockInv /\ ViewInv
    /\ NestInv /\ NoLostWakeup
    BY Zenon DEF ProtocolInv
<1> USE DEF BusyInv, BlockedInv, FlockInv, ViewInv, counts, flags, known, disk, mapped
<1>1. c \in Calls /\ StoreOf[c] \in Stores /\ StoreOf \in [Calls -> Stores]
    BY CallsAssumption, Zenon DEF Calls
<1>2. /\ pc[c] \notin TakingLock /\ pc'[c] \notin TakingLock
      /\ pc[c] \notin BusyShared /\ pc'[c] \notin BusyShared
      /\ pc[c] \notin Blocking /\ pc'[c] \notin Blocking
    BY <1>1, Zenon DEF CallSpan, Goto, TypeOK, TakingLock, Blocking, BusyShared, BusyExclusive
<1>3. TypeOK'
    BY <1>1, MaxGenAssumption, CallsAssumption DEF CallSpan, Goto, TypeOK, SpanPc,
       SweepPc
<1>4. CountInv'
    <2>1. \A d \in Calls \ {c} : pc'[d] = pc[d]
        BY <1>1, Zenon DEF CallSpan, Goto, TypeOK
    <2>2. \A x \in Stores :
              /\ shared'[x] = shared[x] + Delta(pc, pc', Spans, OpenStates, c, x)
              /\ exclusive'[x] = exclusive[x] + Delta(pc, pc', Sweeps, SweepStates, c, x)
        BY CallsAssumption, <1>1, <1>2 DEF CallSpan, Goto, TypeOK, TakerAlone,
           LastSweep, Delta, OpenStates, SweepStates
    <2> QED
        BY <2>1, <2>2, CountStep, Zenon
<1>5. BusyInv'
    BY <1>1, <1>2 DEF CallSpan, Goto, OneTaker, TakerAlone, FlockBelieved, BlockerState,
       BusyHeld, TypeOK
<1>6. BlockedInv'
    BY <1>1, <1>2 DEF CallSpan, Goto, OneBlocker, BlockerState, TakerAlone, BlockedHeld,
       LastSweep, TypeOK
<1>7. FlockInv'
    BY <1>1, <1>2 DEF CallSpan, Goto, FlockExcludes, FlockBelieved, FlockTaken,
       TakerAlone, TypeOK
<1>8. ViewInv'
    BY <1>1, <1>2 DEF CallSpan, Goto, GenerationInv, GoodView, NewGeneration, TypeOK
<1>9. NestInv'
    BY CallsAssumption, <1>1 DEF CallSpan, Goto, NestInv, TypeOK
<1>10. NoLostWakeup'
    BY <1>1, Zenon DEF CallSpan, Goto, Ready, NoLostWakeup, Closed, TypeOK
<1> QED
    BY <1>3, <1>4, <1>5, <1>6, <1>7, <1>8, <1>9, <1>10, Zenon DEF ProtocolInv

(* The invariant survives joining a span or sweep in flight                *)
(* (begin_shared).                                                         *)
LEMMA JoinSharedInv ==
    ASSUME ProtocolInv, NEW c \in Spans, JoinShared(c)
    PROVE  ProtocolInv'
<1> /\ TypeOK /\ CountInv /\ BusyInv /\ BlockedInv /\ FlockInv /\ ViewInv
    /\ NestInv /\ NoLostWakeup
    BY Zenon DEF ProtocolInv
<1> USE DEF BusyInv, BlockedInv, FlockInv, ViewInv, counts, flags, known, disk, mapped
<1>1. c \in Calls /\ StoreOf[c] \in Stores /\ StoreOf \in [Calls -> Stores]
    BY CallsAssumption, Zenon DEF Calls
<1>2. /\ pc[c] \notin TakingLock /\ pc'[c] \notin TakingLock
      /\ pc[c] \notin BusyShared /\ pc'[c] \notin BusyShared
      /\ pc[c] \notin Blocking /\ pc'[c] \notin Blocking
    BY <1>1, Zenon DEF JoinShared, Proceed, Ready, Goto, TypeOK, TakingLock, Blocking,
       BusyShared, BusyExclusive
<1>3. TypeOK'
    BY <1>1, MaxGenAssumption, CallsAssumption DEF JoinShared, Goto, TypeOK, SpanPc,
       SweepPc
<1>4. CountInv'
    <2>1. \A d \in Calls \ {c} : pc'[d] = pc[d]
        BY <1>1, Zenon DEF JoinShared, Goto, TypeOK
    <2>2. \A x \in Stores :
              /\ shared'[x] = shared[x] + Delta(pc, pc', Spans, OpenStates, c, x)
              /\ exclusive'[x] = exclusive[x] + Delta(pc, pc', Sweeps, SweepStates, c, x)
        BY CallsAssumption, <1>1, <1>2 DEF JoinShared, Proceed, Ready, Goto, TypeOK,
           TakerAlone, LastSweep, Delta, OpenStates, SweepStates
    <2> QED
        BY <2>1, <2>2, CountStep, Zenon
<1>5. BusyInv'
    BY <1>1, <1>2 DEF JoinShared, Proceed, Ready, Goto, OneTaker, TakerAlone,
       FlockBelieved, BlockerState, BusyHeld, TypeOK
<1>6. BlockedInv'
    BY <1>1, <1>2, StateNames DEF JoinShared, Proceed, Ready, Goto, OneBlocker,
       BlockerState, TakerAlone, BlockedHeld, LastSweep, TypeOK
<1>7. FlockInv'
    BY <1>1, <1>2 DEF JoinShared, Proceed, Ready, Goto, FlockExcludes, FlockBelieved,
       FlockTaken, TakerAlone, TypeOK
<1>8. ViewInv'
    BY <1>1, <1>2 DEF JoinShared, Proceed, Ready, Goto, GenerationInv, GoodView,
       FlockBelieved, NewGeneration, TypeOK
<1>9. NestInv'
    BY CallsAssumption, <1>1 DEF JoinShared, Proceed, Goto, NestInv, TypeOK
<1>10. NoLostWakeup'
    BY <1>1 DEF JoinShared, Proceed, Ready, Goto, NoLostWakeup, Closed, TypeOK
<1> QED
    BY <1>3, <1>4, <1>5, <1>6, <1>7, <1>8, <1>9, <1>10, Zenon DEF ProtocolInv

(* The invariant survives the first span setting out for the file lock     *)
(* (begin_shared).                                                         *)
LEMMA FirstSharedInv ==
    ASSUME ProtocolInv, NEW c \in Spans, FirstShared(c)
    PROVE  ProtocolInv'
<1> /\ TypeOK /\ CountInv /\ BusyInv /\ BlockedInv /\ FlockInv /\ ViewInv
    /\ NestInv /\ NoLostWakeup
    BY Zenon DEF ProtocolInv
<1> USE DEF BusyInv, BlockedInv, FlockInv, ViewInv, counts, flags, known, disk, mapped
<1>1. c \in Calls /\ StoreOf[c] \in Stores /\ StoreOf \in [Calls -> Stores]
    BY CallsAssumption, Zenon DEF Calls
<1>2. /\ pc[c] \notin TakingLock /\ pc'[c] \in TakingLock
      /\ pc[c] \notin BusyShared /\ pc'[c] \in BusyShared
      /\ pc[c] \notin Blocking /\ pc'[c] \notin Blocking
    BY <1>1, Zenon DEF FirstShared, Proceed, Ready, Goto, TypeOK, TakingLock, Blocking,
       BusyShared, BusyExclusive
<1>3. TypeOK'
    BY <1>1, MaxGenAssumption, CallsAssumption DEF FirstShared, Goto, TypeOK, SpanPc,
       SweepPc
<1>4. CountInv'
    <2>1. \A d \in Calls \ {c} : pc'[d] = pc[d]
        BY <1>1, Zenon DEF FirstShared, Goto, TypeOK
    <2>2. \A x \in Stores :
              /\ shared'[x] = shared[x] + Delta(pc, pc', Spans, OpenStates, c, x)
              /\ exclusive'[x] = exclusive[x] + Delta(pc, pc', Sweeps, SweepStates, c, x)
        BY CallsAssumption, <1>1, <1>2 DEF FirstShared, Proceed, Ready, Goto, TypeOK,
           TakerAlone, LastSweep, Delta, OpenStates, SweepStates
    <2> QED
        BY <2>1, <2>2, CountStep, Zenon
<1>5. BusyInv'
    BY <1>1, <1>2 DEF FirstShared, Proceed, Ready, Goto, OneTaker, TakerAlone,
       FlockBelieved, BlockerState, BusyHeld, TypeOK
<1>6. BlockedInv'
    BY <1>1, <1>2, StateNames DEF FirstShared, Proceed, Ready, Goto, OneBlocker,
       BlockerState, TakerAlone, FlockBelieved, BlockedHeld, LastSweep, TypeOK
<1>7. FlockInv'
    BY <1>1, <1>2 DEF FirstShared, Proceed, Ready, Goto, FlockExcludes, FlockBelieved,
       FlockTaken, TakerAlone, TypeOK
<1>8. ViewInv'
    BY <1>1, <1>2 DEF FirstShared, Proceed, Ready, Goto, GenerationInv, GoodView,
       NewGeneration, TypeOK
<1>9. NestInv'
    BY CallsAssumption, <1>1 DEF FirstShared, Proceed, Goto, NestInv, TypeOK
<1>10. NoLostWakeup'
    BY <1>1, Zenon DEF FirstShared, Proceed, Ready, Goto, NoLostWakeup, Closed, TypeOK
<1> QED
    BY <1>3, <1>4, <1>5, <1>6, <1>7, <1>8, <1>9, <1>10, Zenon DEF ProtocolInv

(* The invariant survives LOCK_SH granted (poll).                          *)
LEMMA PollSharedInv ==
    ASSUME ProtocolInv, NEW c \in Spans, PollShared(c)
    PROVE  ProtocolInv'
<1> /\ TypeOK /\ CountInv /\ BusyInv /\ BlockedInv /\ FlockInv /\ ViewInv
    /\ NestInv /\ NoLostWakeup
    BY Zenon DEF ProtocolInv
<1> USE DEF BusyInv, BlockedInv, FlockInv, ViewInv, counts, flags, known, disk, mapped
<1>1. c \in Calls /\ StoreOf[c] \in Stores /\ StoreOf \in [Calls -> Stores]
    BY CallsAssumption, Zenon DEF Calls
<1>2. /\ pc[c] \in TakingLock /\ pc'[c] \in TakingLock
      /\ pc[c] \in BusyShared /\ pc'[c] \in BusyShared
      /\ pc[c] \notin Blocking /\ pc'[c] \notin Blocking
    BY <1>1, Zenon DEF PollShared, CanLockShared, Flock, Goto, TypeOK, TakingLock, Blocking,
       BusyShared, BusyExclusive
<1>3. TypeOK'
    BY <1>1, MaxGenAssumption, CallsAssumption DEF PollShared, Flock, Goto, TypeOK,
       SpanPc, SweepPc
<1>4. CountInv'
    <2>1. \A d \in Calls \ {c} : pc'[d] = pc[d]
        BY <1>1, Zenon DEF PollShared, Flock, Goto, TypeOK
    <2>2. \A x \in Stores :
              /\ shared'[x] = shared[x] + Delta(pc, pc', Spans, OpenStates, c, x)
              /\ exclusive'[x] = exclusive[x] + Delta(pc, pc', Sweeps, SweepStates, c, x)
        BY CallsAssumption, <1>1, <1>2 DEF PollShared, CanLockShared, Flock, Goto,
           TypeOK, TakerAlone, LastSweep, Delta, OpenStates, SweepStates
    <2> QED
        BY <2>1, <2>2, CountStep, Zenon
<1>5. BusyInv'
    BY <1>1, <1>2 DEF PollShared, CanLockShared, Flock, Goto, OneTaker, TakerAlone,
       FlockBelieved, BlockerState, BusyHeld, TypeOK
<1>6. BlockedInv'
    BY <1>1, <1>2 DEF PollShared, CanLockShared, Flock, Goto, OneBlocker, BlockerState,
       TakerAlone, BlockedHeld, LastSweep, TypeOK
<1>7. FlockInv'
    BY <1>1, <1>2, StateNames DEF PollShared, CanLockShared, Flock, Goto, FlockExcludes,
       FlockBelieved, FlockTaken, TakerAlone, OneTaker, TypeOK
<1>8. ViewInv'
    BY <1>1, <1>2 DEF PollShared, CanLockShared, Flock, Goto, GenerationInv, GoodView,
       NewGeneration, TypeOK
<1>9. NestInv'
    BY CallsAssumption, <1>1 DEF PollShared, Goto, NestInv, TypeOK
<1>10. NoLostWakeup'
    BY <1>1, Zenon DEF PollShared, Flock, Goto, Ready, NoLostWakeup, Closed, TypeOK
<1> QED
    BY <1>3, <1>4, <1>5, <1>6, <1>7, <1>8, <1>9, <1>10, Zenon DEF ProtocolInv

(* The invariant survives the look at the generation and the refresh       *)
(* (begin_shared).                                                         *)
LEMMA LookSharedInv ==
    ASSUME ProtocolInv, NEW c \in Spans, LookShared(c)
    PROVE  ProtocolInv'
<1> /\ TypeOK /\ CountInv /\ BusyInv /\ BlockedInv /\ FlockInv /\ ViewInv
    /\ NestInv /\ NoLostWakeup
    BY Zenon DEF ProtocolInv
<1> USE DEF BusyInv, BlockedInv, FlockInv, ViewInv, counts, flags, known, disk, mapped
<1>1. c \in Calls /\ StoreOf[c] \in Stores /\ StoreOf \in [Calls -> Stores]
    BY CallsAssumption, Zenon DEF Calls
<1>2. /\ pc[c] \in TakingLock /\ pc'[c] \notin TakingLock
      /\ pc[c] \in BusyShared /\ pc'[c] \notin BusyShared
      /\ pc[c] \notin Blocking /\ pc'[c] \notin Blocking
    BY <1>1, Zenon DEF LookShared, Goto, TypeOK, TakingLock, Blocking, BusyShared,
       BusyExclusive
<1>3. TypeOK'
    BY <1>1, MaxGenAssumption, CallsAssumption DEF LookShared, NotifyAll, Goto, TypeOK,
       SpanPc, SweepPc
<1>4. CountInv'
    <2>1. \A d \in Calls \ {c} : pc'[d] = pc[d]
        BY <1>1, Zenon DEF LookShared, NotifyAll, Goto, TypeOK
    <2>2. \A x \in Stores :
              /\ shared'[x] = shared[x] + Delta(pc, pc', Spans, OpenStates, c, x)
              /\ exclusive'[x] = exclusive[x] + Delta(pc, pc', Sweeps, SweepStates, c, x)
        BY CallsAssumption, <1>1, <1>2 DEF LookShared, Goto, TypeOK, TakerAlone,
           LastSweep, Delta, OpenStates, SweepStates
    <2> QED
        BY <2>1, <2>2, CountStep, Zenon
<1>5. BusyInv'
    BY <1>1, <1>2 DEF LookShared, Goto, OneTaker, TakerAlone, FlockBelieved,
       BlockerState, BusyHeld, TypeOK
<1>6. BlockedInv'
    BY <1>1, <1>2, StateNames DEF LookShared, Goto, OneBlocker, BlockerState,
       TakerAlone, BlockedHeld, LastSweep, TypeOK
<1>7. FlockInv'
    BY <1>1, <1>2 DEF LookShared, Goto, FlockExcludes, FlockBelieved, FlockTaken,
       TakerAlone, TypeOK
<1>8. ViewInv'
    BY <1>1, <1>2, StateNames DEF LookShared, Goto, GenerationInv, GoodView,
       NewGeneration, FlockBelieved, FlockTaken, FlockExcludes, TakerAlone, TypeOK
<1>9. NestInv'
    BY CallsAssumption, <1>1 DEF LookShared, Goto, NestInv, TypeOK
<1>10. NoLostWakeup'
    BY <1>1, Zenon DEF LookShared, NotifyAll, CallsOf, Goto, Ready, NoLostWakeup, Closed,
       TypeOK
<1> QED
    BY <1>3, <1>4, <1>5, <1>6, <1>7, <1>8, <1>9, <1>10, Zenon DEF ProtocolInv

(* The invariant survives a first span that fails (BusyStep::drop).        *)
LEMMA FailSharedInv ==
    ASSUME ProtocolInv, NEW c \in Spans, FailShared(c)
    PROVE  ProtocolInv'
<1> /\ TypeOK /\ CountInv /\ BusyInv /\ BlockedInv /\ FlockInv /\ ViewInv
    /\ NestInv /\ NoLostWakeup
    BY Zenon DEF ProtocolInv
<1> USE DEF BusyInv, BlockedInv, FlockInv, ViewInv, counts, flags, known, disk, mapped
<1>1. c \in Calls /\ StoreOf[c] \in Stores /\ StoreOf \in [Calls -> Stores]
    BY CallsAssumption, Zenon DEF Calls
<1>2. /\ pc[c] \in TakingLock /\ pc'[c] \notin TakingLock
      /\ pc[c] \in BusyShared /\ pc'[c] \notin BusyShared
      /\ pc[c] \notin Blocking /\ pc'[c] \notin Blocking
    BY <1>1, Zenon DEF FailShared, Flock, Goto, TypeOK, TakingLock, Blocking, BusyShared,
       BusyExclusive
<1>3. TypeOK'
    BY <1>1, MaxGenAssumption, CallsAssumption DEF FailShared, Flock, NotifyAll, Goto,
       TypeOK, SpanPc, SweepPc
<1>4. CountInv'
    <2>1. \A d \in Calls \ {c} : pc'[d] = pc[d]
        BY <1>1, Zenon DEF FailShared, Flock, NotifyAll, Goto, TypeOK
    <2>2. \A x \in Stores :
              /\ shared'[x] = shared[x] + Delta(pc, pc', Spans, OpenStates, c, x)
              /\ exclusive'[x] = exclusive[x] + Delta(pc, pc', Sweeps, SweepStates, c, x)
        BY CallsAssumption, <1>1, <1>2 DEF FailShared, Flock, Goto, TypeOK, TakerAlone,
           LastSweep, Delta, OpenStates, SweepStates
    <2> QED
        BY <2>1, <2>2, CountStep, Zenon
<1>5. BusyInv'
    BY <1>1, <1>2 DEF FailShared, Flock, Goto, OneTaker, TakerAlone, FlockBelieved,
       BlockerState, BusyHeld, TypeOK
<1>6. BlockedInv'
    BY <1>1, <1>2 DEF FailShared, Flock, Goto, OneBlocker, BlockerState, TakerAlone,
       BlockedHeld, LastSweep, TypeOK
<1>7. FlockInv'
    BY <1>1, <1>2, StateNames DEF FailShared, Flock, Goto, FlockExcludes, FlockBelieved,
       FlockTaken, TakerAlone, OneTaker, TypeOK
<1>8. ViewInv'
    BY <1>1, <1>2 DEF FailShared, Flock, Goto, GenerationInv, GoodView, NewGeneration,
       TypeOK
<1>9. NestInv'
    BY CallsAssumption, <1>1 DEF FailShared, Goto, NestInv, TypeOK
<1>10. NoLostWakeup'
    BY <1>1, Zenon DEF FailShared, Flock, NotifyAll, CallsOf, Goto, Ready, NoLostWakeup,
       Closed, TypeOK
<1> QED
    BY <1>3, <1>4, <1>5, <1>6, <1>7, <1>8, <1>9, <1>10, Zenon DEF ProtocolInv

(* The invariant survives the end of a span (end_shared).                  *)
LEMMA EndSharedInv ==
    ASSUME ProtocolInv, NEW c \in Spans, EndShared(c)
    PROVE  ProtocolInv'
<1> /\ TypeOK /\ CountInv /\ BusyInv /\ BlockedInv /\ FlockInv /\ ViewInv
    /\ NestInv /\ NoLostWakeup
    BY Zenon DEF ProtocolInv
<1> USE DEF BusyInv, BlockedInv, FlockInv, ViewInv, counts, flags, known, disk, mapped
<1>1. c \in Calls /\ StoreOf[c] \in Stores /\ StoreOf \in [Calls -> Stores]
    BY CallsAssumption, Zenon DEF Calls
<1>2. /\ pc[c] \notin TakingLock /\ pc'[c] \notin TakingLock
      /\ pc[c] \notin BusyShared /\ pc'[c] \notin BusyShared
      /\ pc[c] \notin Blocking /\ pc'[c] \notin Blocking
    BY <1>1, Zenon DEF EndShared, Goto, TypeOK, TakingLock, Blocking, BusyShared, BusyExclusive
<1>3. shared[StoreOf[c]] # 0
    BY <1>1, Counted, Zenon DEF EndShared, OpenStates, SweepStates
<1>4. TypeOK'
    BY <1>1, <1>3, MaxGenAssumption, CallsAssumption DEF EndShared, NotifyAll, Goto,
       TypeOK, SpanPc, SweepPc
<1>5. CountInv'
    <2>1. \A d \in Calls \ {c} : pc'[d] = pc[d]
        BY <1>1, Zenon DEF EndShared, NotifyAll, Goto, TypeOK
    <2>2. \A x \in Stores :
              /\ shared'[x] = shared[x] + Delta(pc, pc', Spans, OpenStates, c, x)
              /\ exclusive'[x] = exclusive[x] + Delta(pc, pc', Sweeps, SweepStates, c, x)
        BY CallsAssumption, <1>1, <1>2, <1>3 DEF EndShared, Goto, TypeOK, TakerAlone,
           LastSweep, Delta, OpenStates, SweepStates
    <2> QED
        BY <2>1, <2>2, CountStep, Zenon
<1>6. BusyInv'
    BY <1>1, <1>2, <1>3 DEF EndShared, Goto, OneTaker, TakerAlone, FlockBelieved,
       BlockerState, BusyHeld, TypeOK
<1>7. BlockedInv'
    BY <1>1, <1>2, <1>3 DEF EndShared, Goto, OneBlocker, BlockerState, TakerAlone,
       BlockedHeld, LastSweep, TypeOK
<1>8. FlockInv'
    BY <1>1, <1>2, <1>3, StateNames DEF EndShared, Goto, FlockExcludes, FlockBelieved,
       FlockTaken, TakerAlone, TypeOK
<1>9. ViewInv'
    BY <1>1, <1>2, <1>3 DEF EndShared, Goto, GenerationInv, GoodView, NewGeneration,
       TypeOK
<1>10. NestInv'
    BY CallsAssumption, <1>1 DEF EndShared, InnerCalls, Goto, NestInv, TypeOK
<1>11. NoLostWakeup'
    BY <1>1, Zenon DEF EndShared, NotifyAll, CallsOf, Goto, Ready, NoLostWakeup, Closed, TypeOK
<1> QED
    BY <1>4, <1>5, <1>6, <1>7, <1>8, <1>9, <1>10, <1>11, Zenon DEF ProtocolInv

(***************************************************************************)
(* The steps that pause a store's own writers, or give up.                 *)
(***************************************************************************)

(* The invariant survives compact asking for a pause (pause_local is       *)
(* called).                                                                *)
LEMMA CallPauseInv ==
    ASSUME ProtocolInv, NEW c \in Sweeps, CallPause(c)
    PROVE  ProtocolInv'
<1> /\ TypeOK /\ CountInv /\ BusyInv /\ BlockedInv /\ FlockInv /\ ViewInv
    /\ NestInv /\ NoLostWakeup
    BY Zenon DEF ProtocolInv
<1> USE DEF BusyInv, BlockedInv, FlockInv, ViewInv, counts, flags, known, disk, mapped
<1>1. c \in Calls /\ StoreOf[c] \in Stores /\ StoreOf \in [Calls -> Stores]
    BY CallsAssumption, Zenon DEF Calls
<1>2. /\ pc[c] \notin TakingLock /\ pc'[c] \notin TakingLock
      /\ pc[c] \notin BusyShared /\ pc'[c] \notin BusyShared
      /\ pc[c] \notin Blocking /\ pc'[c] \notin Blocking
    BY <1>1, Zenon DEF CallPause, Goto, TypeOK, TakingLock, Blocking, BusyShared, BusyExclusive
<1>3. TypeOK'
    BY <1>1, MaxGenAssumption, CallsAssumption DEF CallPause, Goto, TypeOK, SpanPc,
       SweepPc
<1>4. CountInv'
    <2>1. \A d \in Calls \ {c} : pc'[d] = pc[d]
        BY <1>1, Zenon DEF CallPause, Goto, TypeOK
    <2>2. \A x \in Stores :
              /\ shared'[x] = shared[x] + Delta(pc, pc', Spans, OpenStates, c, x)
              /\ exclusive'[x] = exclusive[x] + Delta(pc, pc', Sweeps, SweepStates, c, x)
        BY CallsAssumption, <1>1, <1>2 DEF CallPause, Goto, TypeOK, TakerAlone,
           LastSweep, Delta, OpenStates, SweepStates
    <2> QED
        BY <2>1, <2>2, CountStep, Zenon
<1>5. BusyInv'
    BY <1>1, <1>2 DEF CallPause, Goto, OneTaker, TakerAlone, FlockBelieved,
       BlockerState, BusyHeld, TypeOK
<1>6. BlockedInv'
    BY <1>1, <1>2 DEF CallPause, Goto, OneBlocker, BlockerState, TakerAlone,
       BlockedHeld, LastSweep, TypeOK
<1>7. FlockInv'
    BY <1>1, <1>2 DEF CallPause, Goto, FlockExcludes, FlockBelieved, FlockTaken,
       TakerAlone, TypeOK
<1>8. ViewInv'
    BY <1>1, <1>2 DEF CallPause, Goto, GenerationInv, GoodView, NewGeneration, TypeOK
<1>9. NestInv'
    BY CallsAssumption, <1>1 DEF CallPause, InnerCalls, Goto, NestInv, TypeOK
<1>10. NoLostWakeup'
    BY <1>1, Zenon DEF CallPause, Goto, Ready, NoLostWakeup, Closed, TypeOK
<1> QED
    BY <1>3, <1>4, <1>5, <1>6, <1>7, <1>8, <1>9, <1>10, Zenon DEF ProtocolInv

(* The invariant survives compact keeping new local spans out              *)
(* (pause_local).                                                          *)
LEMMA BlockPauseInv ==
    ASSUME ProtocolInv, NEW c \in Sweeps, BlockPause(c)
    PROVE  ProtocolInv'
<1> /\ TypeOK /\ CountInv /\ BusyInv /\ BlockedInv /\ FlockInv /\ ViewInv
    /\ NestInv /\ NoLostWakeup
    BY Zenon DEF ProtocolInv
<1> USE DEF BusyInv, BlockedInv, FlockInv, ViewInv, counts, flags, known, disk, mapped
<1>1. c \in Calls /\ StoreOf[c] \in Stores /\ StoreOf \in [Calls -> Stores]
    BY CallsAssumption, Zenon DEF Calls
<1>2. /\ pc[c] \notin TakingLock /\ pc'[c] \notin TakingLock
      /\ pc[c] \notin BusyShared /\ pc'[c] \notin BusyShared
      /\ pc[c] \notin Blocking /\ pc'[c] \in Blocking
    BY <1>1, Zenon DEF BlockPause, Ready, Goto, TypeOK, TakingLock, Blocking, BusyShared,
       BusyExclusive
<1>3. exclusive[StoreOf[c]] # 0
    BY <1>1, Counted, Zenon DEF BlockPause, OpenStates, SweepStates
<1>4. TypeOK'
    BY <1>1, <1>3, MaxGenAssumption, CallsAssumption DEF BlockPause, Goto, TypeOK,
       SpanPc, SweepPc
<1>5. CountInv'
    <2>1. \A d \in Calls \ {c} : pc'[d] = pc[d]
        BY <1>1, Zenon DEF BlockPause, Goto, TypeOK
    <2>2. \A x \in Stores :
              /\ shared'[x] = shared[x] + Delta(pc, pc', Spans, OpenStates, c, x)
              /\ exclusive'[x] = exclusive[x] + Delta(pc, pc', Sweeps, SweepStates, c, x)
        BY CallsAssumption, <1>1, <1>2, <1>3 DEF BlockPause, Ready, Goto, TypeOK,
           TakerAlone, LastSweep, Delta, OpenStates, SweepStates
    <2> QED
        BY <2>1, <2>2, CountStep, Zenon
<1>6. BusyInv'
    BY <1>1, <1>2, <1>3 DEF BlockPause, Ready, Goto, OneTaker, TakerAlone,
       FlockBelieved, BlockerState, BusyHeld, TypeOK
<1>7. BlockedInv'
    BY <1>1, <1>2, <1>3, StateNames DEF BlockPause, Ready, Goto, OneBlocker,
       BlockerState, TakerAlone, BlockedHeld, LastSweep, TypeOK
<1>8. FlockInv'
    BY <1>1, <1>2, <1>3 DEF BlockPause, Ready, Goto, FlockExcludes, FlockBelieved,
       FlockTaken, TakerAlone, TypeOK
<1>9. ViewInv'
    BY <1>1, <1>2, <1>3 DEF BlockPause, Ready, Goto, GenerationInv, GoodView,
       NewGeneration, TypeOK
<1>10. NestInv'
    BY CallsAssumption, <1>1 DEF BlockPause, Goto, NestInv, TypeOK
<1>11. NoLostWakeup'
    BY <1>1, Zenon DEF BlockPause, Ready, Goto, NoLostWakeup, Closed, TypeOK
<1> QED
    BY <1>4, <1>5, <1>6, <1>7, <1>8, <1>9, <1>10, <1>11, Zenon DEF ProtocolInv

(* The invariant survives the local spans gone (pause_local).              *)
LEMMA PauseLocalInv ==
    ASSUME ProtocolInv, NEW c \in Sweeps, PauseLocal(c)
    PROVE  ProtocolInv'
<1> /\ TypeOK /\ CountInv /\ BusyInv /\ BlockedInv /\ FlockInv /\ ViewInv
    /\ NestInv /\ NoLostWakeup
    BY Zenon DEF ProtocolInv
<1> USE DEF BusyInv, BlockedInv, FlockInv, ViewInv, counts, flags, known, disk, mapped
<1>1. c \in Calls /\ StoreOf[c] \in Stores /\ StoreOf \in [Calls -> Stores]
    BY CallsAssumption, Zenon DEF Calls
<1>2. /\ pc[c] \notin TakingLock /\ pc'[c] \notin TakingLock
      /\ pc[c] \notin BusyShared /\ pc'[c] \notin BusyShared
      /\ pc[c] \in Blocking /\ pc'[c] \in Blocking
    BY <1>1, Zenon DEF PauseLocal, Ready, Goto, TypeOK, TakingLock, Blocking, BusyShared,
       BusyExclusive
<1>3. TypeOK'
    BY <1>1, MaxGenAssumption, CallsAssumption DEF PauseLocal, Goto, TypeOK, SpanPc,
       SweepPc
<1>4. CountInv'
    <2>1. \A d \in Calls \ {c} : pc'[d] = pc[d]
        BY <1>1, Zenon DEF PauseLocal, Goto, TypeOK
    <2>2. \A x \in Stores :
              /\ shared'[x] = shared[x] + Delta(pc, pc', Spans, OpenStates, c, x)
              /\ exclusive'[x] = exclusive[x] + Delta(pc, pc', Sweeps, SweepStates, c, x)
        BY CallsAssumption, <1>1, <1>2 DEF PauseLocal, Goto, TypeOK, TakerAlone,
           LastSweep, Delta, OpenStates, SweepStates
    <2> QED
        BY <2>1, <2>2, CountStep, Zenon
<1>5. BusyInv'
    BY <1>1, <1>2 DEF PauseLocal, Ready, Goto, OneTaker, TakerAlone, FlockBelieved,
       BlockerState, BusyHeld, TypeOK
<1>6. BlockedInv'
    BY <1>1, <1>2 DEF PauseLocal, Ready, Goto, OneBlocker, BlockerState, TakerAlone,
       BlockedHeld, LastSweep, TypeOK
<1>7. FlockInv'
    BY <1>1, <1>2 DEF PauseLocal, Ready, Goto, FlockExcludes, FlockBelieved, FlockTaken,
       TakerAlone, TypeOK
<1>8. ViewInv'
    BY <1>1, <1>2 DEF PauseLocal, Ready, Goto, GenerationInv, GoodView, NewGeneration,
       TypeOK
<1>9. NestInv'
    BY CallsAssumption, <1>1 DEF PauseLocal, Goto, NestInv, TypeOK
<1>10. NoLostWakeup'
    BY <1>1, Zenon DEF PauseLocal, Ready, Goto, NoLostWakeup, Closed, TypeOK
<1> QED
    BY <1>3, <1>4, <1>5, <1>6, <1>7, <1>8, <1>9, <1>10, Zenon DEF ProtocolInv

(* The invariant survives the end of a pause (resume_local).               *)
LEMMA ResumeLocalInv ==
    ASSUME ProtocolInv, NEW c \in Sweeps, ResumeLocal(c)
    PROVE  ProtocolInv'
<1> /\ TypeOK /\ CountInv /\ BusyInv /\ BlockedInv /\ FlockInv /\ ViewInv
    /\ NestInv /\ NoLostWakeup
    BY Zenon DEF ProtocolInv
<1> USE DEF BusyInv, BlockedInv, FlockInv, ViewInv, counts, flags, known, disk, mapped
<1>1. c \in Calls /\ StoreOf[c] \in Stores /\ StoreOf \in [Calls -> Stores]
    BY CallsAssumption, Zenon DEF Calls
<1>2. /\ pc[c] \notin TakingLock /\ pc'[c] \notin TakingLock
      /\ pc[c] \notin BusyShared /\ pc'[c] \notin BusyShared
      /\ pc[c] \in Blocking /\ pc'[c] \notin Blocking
    BY <1>1, Zenon DEF ResumeLocal, Goto, TypeOK, TakingLock, Blocking, BusyShared,
       BusyExclusive
<1>3. TypeOK'
    BY <1>1, MaxGenAssumption, CallsAssumption DEF ResumeLocal, NotifyAll, Goto, TypeOK,
       SpanPc, SweepPc
<1>4. CountInv'
    <2>1. \A d \in Calls \ {c} : pc'[d] = pc[d]
        BY <1>1, Zenon DEF ResumeLocal, NotifyAll, Goto, TypeOK
    <2>2. \A x \in Stores :
              /\ shared'[x] = shared[x] + Delta(pc, pc', Spans, OpenStates, c, x)
              /\ exclusive'[x] = exclusive[x] + Delta(pc, pc', Sweeps, SweepStates, c, x)
        BY CallsAssumption, <1>1, <1>2 DEF ResumeLocal, Goto, TypeOK, TakerAlone,
           LastSweep, Delta, OpenStates, SweepStates
    <2> QED
        BY <2>1, <2>2, CountStep, Zenon
<1>5. BusyInv'
    BY <1>1, <1>2 DEF ResumeLocal, Goto, OneTaker, TakerAlone, FlockBelieved,
       BlockerState, BusyHeld, TypeOK
<1>6. BlockedInv'
    BY <1>1, <1>2 DEF ResumeLocal, Goto, OneBlocker, BlockerState, TakerAlone,
       BlockedHeld, LastSweep, TypeOK
<1>7. FlockInv'
    BY <1>1, <1>2 DEF ResumeLocal, Goto, FlockExcludes, FlockBelieved, FlockTaken,
       TakerAlone, TypeOK
<1>8. ViewInv'
    BY <1>1, <1>2 DEF ResumeLocal, Goto, GenerationInv, GoodView, NewGeneration, TypeOK
<1>9. NestInv'
    BY CallsAssumption, <1>1 DEF ResumeLocal, Goto, NestInv, TypeOK
<1>10. NoLostWakeup'
    BY <1>1, Zenon DEF ResumeLocal, NotifyAll, CallsOf, Goto, Ready, NoLostWakeup, Closed,
       TypeOK
<1> QED
    BY <1>3, <1>4, <1>5, <1>6, <1>7, <1>8, <1>9, <1>10, Zenon DEF ProtocolInv

(* The invariant survives a wait ended by a close or a cancel (wait).      *)
LEMMA GiveUpInv ==
    ASSUME ProtocolInv, NEW c \in Calls, GiveUp(c)
    PROVE  ProtocolInv'
<1> /\ TypeOK /\ CountInv /\ BusyInv /\ BlockedInv /\ FlockInv /\ ViewInv
    /\ NestInv /\ NoLostWakeup
    BY Zenon DEF ProtocolInv
<1> USE DEF BusyInv, BlockedInv, FlockInv, ViewInv, counts, flags, known, disk, mapped
<1>1. c \in Calls /\ StoreOf[c] \in Stores /\ StoreOf \in [Calls -> Stores]
    BY CallsAssumption, Zenon DEF Calls
<1>2. /\ pc[c] \notin TakingLock /\ pc'[c] \notin TakingLock
      /\ pc[c] \notin BusyShared /\ pc'[c] \notin BusyShared
      /\ pc'[c] \notin Blocking
    BY <1>1, Zenon DEF GiveUp, Ready, Goto, TypeOK, TakingLock, Blocking, BusyShared,
       BusyExclusive
<1>3. TypeOK'
    BY <1>1, MaxGenAssumption, CallsAssumption DEF GiveUp, NotifyAll, Goto, TypeOK,
       SpanPc, SweepPc
<1>4. CountInv'
    <2>1. \A d \in Calls \ {c} : pc'[d] = pc[d]
        BY <1>1, Zenon DEF GiveUp, NotifyAll, Goto, TypeOK
    <2>2. \A x \in Stores :
              /\ shared'[x] = shared[x] + Delta(pc, pc', Spans, OpenStates, c, x)
              /\ exclusive'[x] = exclusive[x] + Delta(pc, pc', Sweeps, SweepStates, c, x)
        BY CallsAssumption, <1>1, <1>2 DEF GiveUp, Ready, Goto, TypeOK, TakerAlone,
           LastSweep, Delta, OpenStates, SweepStates
    <2> QED
        BY <2>1, <2>2, CountStep, Zenon
<1>5. BusyInv'
    BY <1>1, <1>2 DEF GiveUp, Ready, Goto, OneTaker, TakerAlone, FlockBelieved,
       BlockerState, BusyHeld, TypeOK
<1>6. BlockedInv'
    <2>1. OneBlocker'
        BY <1>1, <1>2, Zenon DEF GiveUp, Ready, Goto, OneBlocker, BlockerState, TypeOK
    <2>2. BlockerState'
        BY <1>1, <1>2, StateNames DEF GiveUp, Ready, Goto, BlockerState, TakerAlone,
           OneBlocker, TypeOK
    <2>3. BlockedHeld'
        <3>1. CASE pc[c] = "drain"
            BY <1>1, <1>2, <3>1 DEF GiveUp, Goto, BlockedHeld, TypeOK
        <3>2. CASE pc[c] # "drain"
            <4>1. pc[c] \notin Blocking
                BY <3>2, Zenon DEF GiveUp, Blocking, BusyExclusive
            <4> QED
                BY <1>1, <1>2, <3>2, <4>1, Zenon DEF GiveUp, Goto, BlockedHeld, TypeOK
        <3> QED
            BY <3>1, <3>2, Zenon
    <2>4. LastSweep'
        BY <1>1, <1>2, Zenon DEF GiveUp, Ready, Goto, LastSweep, TypeOK
    <2> QED
        BY <2>1, <2>2, <2>3, <2>4, Zenon
<1>7. FlockInv'
    BY <1>1, <1>2 DEF GiveUp, Ready, Goto, FlockExcludes, FlockBelieved, FlockTaken,
       TakerAlone, TypeOK
<1>8. ViewInv'
    BY <1>1, <1>2 DEF GiveUp, Ready, Goto, GenerationInv, GoodView, NewGeneration,
       TypeOK
<1>9. NestInv'
    BY CallsAssumption, <1>1 DEF GiveUp, Goto, NestInv, TypeOK
<1>10. NoLostWakeup'
    BY <1>1 DEF GiveUp, Ready, NotifyAll, CallsOf, Goto, NoLostWakeup, Closed, TypeOK
<1> QED
    BY <1>3, <1>4, <1>5, <1>6, <1>7, <1>8, <1>9, <1>10, Zenon DEF ProtocolInv


(***************************************************************************)
(* The steps of a sweep up to where it may remove segments.                *)
(***************************************************************************)

(* The invariant survives asking for the gate (begin_exclusive is called). *)
LEMMA CallSweepInv ==
    ASSUME ProtocolInv, NEW c \in Sweeps, CallSweep(c)
    PROVE  ProtocolInv'
<1> /\ TypeOK /\ CountInv /\ BusyInv /\ BlockedInv /\ FlockInv /\ ViewInv
    /\ NestInv /\ NoLostWakeup
    BY Zenon DEF ProtocolInv
<1> USE DEF BusyInv, BlockedInv, FlockInv, ViewInv, counts, flags, known, disk, mapped
<1>1. c \in Calls /\ StoreOf[c] \in Stores /\ StoreOf \in [Calls -> Stores]
    BY CallsAssumption, Zenon DEF Calls
<1>2. /\ pc[c] \notin TakingLock /\ pc'[c] \notin TakingLock
      /\ pc[c] \notin BusyShared /\ pc'[c] \notin BusyShared
      /\ pc[c] \notin Blocking /\ pc'[c] \notin Blocking
    BY <1>1, Zenon DEF CallSweep, Goto, TypeOK, TakingLock, Blocking, BusyShared, BusyExclusive
<1>3. TypeOK'
    BY <1>1, MaxGenAssumption, CallsAssumption DEF CallSweep, Goto, TypeOK, SpanPc,
       SweepPc
<1>4. CountInv'
    <2>1. \A d \in Calls \ {c} : pc'[d] = pc[d]
        BY <1>1, Zenon DEF CallSweep, Goto, TypeOK
    <2>2. \A x \in Stores :
              /\ shared'[x] = shared[x] + Delta(pc, pc', Spans, OpenStates, c, x)
              /\ exclusive'[x] = exclusive[x] + Delta(pc, pc', Sweeps, SweepStates, c, x)
        BY CallsAssumption, <1>1, <1>2 DEF CallSweep, Goto, TypeOK, TakerAlone,
           LastSweep, Delta, OpenStates, SweepStates
    <2> QED
        BY <2>1, <2>2, CountStep, Zenon
<1>5. BusyInv'
    BY <1>1, <1>2 DEF CallSweep, Goto, OneTaker, TakerAlone, FlockBelieved,
       BlockerState, BusyHeld, TypeOK
<1>6. BlockedInv'
    BY <1>1, <1>2 DEF CallSweep, Goto, OneBlocker, BlockerState, TakerAlone,
       BlockedHeld, LastSweep, TypeOK
<1>7. FlockInv'
    BY <1>1, <1>2 DEF CallSweep, Goto, FlockExcludes, FlockBelieved, FlockTaken,
       TakerAlone, TypeOK
<1>8. ViewInv'
    BY <1>1, <1>2 DEF CallSweep, Goto, GenerationInv, GoodView, NewGeneration, TypeOK
<1>9. NestInv'
    BY CallsAssumption, <1>1 DEF CallSweep, Goto, NestInv, TypeOK
<1>10. NoLostWakeup'
    BY <1>1, Zenon DEF CallSweep, Goto, Ready, NoLostWakeup, Closed, TypeOK
<1> QED
    BY <1>3, <1>4, <1>5, <1>6, <1>7, <1>8, <1>9, <1>10, Zenon DEF ProtocolInv

(* The invariant survives a sweep inside a sweep (begin_exclusive).        *)
LEMMA JoinExclusiveInv ==
    ASSUME ProtocolInv, NEW c \in Sweeps, JoinExclusive(c)
    PROVE  ProtocolInv'
<1> /\ TypeOK /\ CountInv /\ BusyInv /\ BlockedInv /\ FlockInv /\ ViewInv
    /\ NestInv /\ NoLostWakeup
    BY Zenon DEF ProtocolInv
<1> USE DEF BusyInv, BlockedInv, FlockInv, ViewInv, counts, flags, known, disk, mapped
<1>1. c \in Calls /\ StoreOf[c] \in Stores /\ StoreOf \in [Calls -> Stores]
    BY CallsAssumption, Zenon DEF Calls
<1>2. /\ pc[c] \notin TakingLock /\ pc'[c] \notin TakingLock
      /\ pc[c] \notin BusyShared /\ pc'[c] \notin BusyShared
      /\ pc[c] \notin Blocking /\ pc'[c] \notin Blocking
    BY <1>1, Zenon DEF JoinExclusive, Proceed, Ready, Goto, TypeOK, TakingLock, Blocking,
       BusyShared, BusyExclusive
<1>3. TypeOK'
    BY <1>1, MaxGenAssumption, CallsAssumption DEF JoinExclusive, Goto, TypeOK, SpanPc,
       SweepPc
<1>4. CountInv'
    <2>1. \A d \in Calls \ {c} : pc'[d] = pc[d]
        BY <1>1, Zenon DEF JoinExclusive, Goto, TypeOK
    <2>2. \A x \in Stores :
              /\ shared'[x] = shared[x] + Delta(pc, pc', Spans, OpenStates, c, x)
              /\ exclusive'[x] = exclusive[x] + Delta(pc, pc', Sweeps, SweepStates, c, x)
        BY CallsAssumption, <1>1, <1>2 DEF JoinExclusive, Proceed, Ready, Goto, TypeOK,
           TakerAlone, LastSweep, Delta, OpenStates, SweepStates
    <2> QED
        BY <2>1, <2>2, CountStep, Zenon
<1>5. BusyInv'
    BY <1>1, <1>2, StateNames DEF JoinExclusive, Proceed, Ready, Goto, OneTaker,
       TakerAlone, FlockBelieved, BlockerState, BusyHeld, TypeOK
<1>6. BlockedInv'
    BY <1>1, <1>2, StateNames DEF JoinExclusive, Proceed, Ready, Goto, OneBlocker,
       BlockerState, TakerAlone, BlockedHeld, LastSweep, TypeOK
<1>7. FlockInv'
    BY <1>1, <1>2 DEF JoinExclusive, Proceed, Ready, Goto, FlockExcludes, FlockBelieved,
       FlockTaken, TakerAlone, TypeOK
<1>8. ViewInv'
    BY <1>1, <1>2 DEF JoinExclusive, Proceed, Ready, Goto, GenerationInv, GoodView,
       NewGeneration, TypeOK
<1>9. NestInv'
    BY CallsAssumption, <1>1 DEF JoinExclusive, Proceed, Goto, NestInv, TypeOK
<1>10. NoLostWakeup'
    BY <1>1, Zenon DEF JoinExclusive, Proceed, Ready, Goto, NoLostWakeup, Closed, TypeOK
<1> QED
    BY <1>3, <1>4, <1>5, <1>6, <1>7, <1>8, <1>9, <1>10, Zenon DEF ProtocolInv

(* The invariant survives a sweep keeping new spans out (begin_exclusive). *)
LEMMA BlockSpansInv ==
    ASSUME ProtocolInv, NEW c \in Sweeps, BlockSpans(c)
    PROVE  ProtocolInv'
<1> /\ TypeOK /\ CountInv /\ BusyInv /\ BlockedInv /\ FlockInv /\ ViewInv
    /\ NestInv /\ NoLostWakeup
    BY Zenon DEF ProtocolInv
<1> USE DEF BusyInv, BlockedInv, FlockInv, ViewInv, counts, flags, known, disk, mapped
<1>1. c \in Calls /\ StoreOf[c] \in Stores /\ StoreOf \in [Calls -> Stores]
    BY CallsAssumption, Zenon DEF Calls
<1>2. /\ pc[c] \notin TakingLock /\ pc'[c] \notin TakingLock
      /\ pc[c] \notin BusyShared /\ pc'[c] \notin BusyShared
      /\ pc[c] \notin Blocking /\ pc'[c] \in Blocking
    BY <1>1, Zenon DEF BlockSpans, Proceed, Ready, Goto, TypeOK, TakingLock, Blocking,
       BusyShared, BusyExclusive
<1>3. TypeOK'
    BY <1>1, MaxGenAssumption, CallsAssumption DEF BlockSpans, Goto, TypeOK, SpanPc,
       SweepPc
<1>4. CountInv'
    <2>1. \A d \in Calls \ {c} : pc'[d] = pc[d]
        BY <1>1, Zenon DEF BlockSpans, Goto, TypeOK
    <2>2. \A x \in Stores :
              /\ shared'[x] = shared[x] + Delta(pc, pc', Spans, OpenStates, c, x)
              /\ exclusive'[x] = exclusive[x] + Delta(pc, pc', Sweeps, SweepStates, c, x)
        BY CallsAssumption, <1>1, <1>2 DEF BlockSpans, Proceed, Ready, Goto, TypeOK,
           TakerAlone, LastSweep, Delta, OpenStates, SweepStates
    <2> QED
        BY <2>1, <2>2, CountStep, Zenon
<1>5. BusyInv'
    BY <1>1, <1>2 DEF BlockSpans, Proceed, Ready, Goto, OneTaker, TakerAlone,
       FlockBelieved, BlockerState, BusyHeld, TypeOK
<1>6. BlockedInv'
    BY <1>1, <1>2, StateNames DEF BlockSpans, Proceed, Ready, Goto, OneBlocker,
       BlockerState, TakerAlone, BlockedHeld, LastSweep, TypeOK
<1>7. FlockInv'
    BY <1>1, <1>2 DEF BlockSpans, Proceed, Ready, Goto, FlockExcludes, FlockBelieved,
       FlockTaken, TakerAlone, TypeOK
<1>8. ViewInv'
    BY <1>1, <1>2 DEF BlockSpans, Proceed, Ready, Goto, GenerationInv, GoodView,
       NewGeneration, TypeOK
<1>9. NestInv'
    BY CallsAssumption, <1>1 DEF BlockSpans, Proceed, Goto, NestInv, TypeOK
<1>10. NoLostWakeup'
    BY <1>1, Zenon DEF BlockSpans, Proceed, Ready, Goto, NoLostWakeup, Closed, TypeOK
<1> QED
    BY <1>3, <1>4, <1>5, <1>6, <1>7, <1>8, <1>9, <1>10, Zenon DEF ProtocolInv

(* The invariant survives the last local span gone (begin_exclusive).      *)
LEMMA DrainedInv ==
    ASSUME ProtocolInv, NEW c \in Sweeps, Drained(c)
    PROVE  ProtocolInv'
<1> /\ TypeOK /\ CountInv /\ BusyInv /\ BlockedInv /\ FlockInv /\ ViewInv
    /\ NestInv /\ NoLostWakeup
    BY Zenon DEF ProtocolInv
<1> USE DEF BusyInv, BlockedInv, FlockInv, ViewInv, counts, flags, known, disk, mapped
<1>1. c \in Calls /\ StoreOf[c] \in Stores /\ StoreOf \in [Calls -> Stores]
    BY CallsAssumption, Zenon DEF Calls
<1>2. /\ pc[c] \notin TakingLock /\ pc'[c] \in TakingLock
      /\ pc[c] \notin BusyShared /\ pc'[c] \notin BusyShared
      /\ pc[c] \in Blocking /\ pc'[c] \in Blocking
    BY <1>1, Zenon DEF Drained, Proceed, Ready, Goto, TypeOK, TakingLock, Blocking, BusyShared,
       BusyExclusive
<1>3. TypeOK'
    BY <1>1, MaxGenAssumption, CallsAssumption DEF Drained, Goto, TypeOK, SpanPc,
       SweepPc
<1>4. CountInv'
    <2>1. \A d \in Calls \ {c} : pc'[d] = pc[d]
        BY <1>1, Zenon DEF Drained, Goto, TypeOK
    <2>2. \A x \in Stores :
              /\ shared'[x] = shared[x] + Delta(pc, pc', Spans, OpenStates, c, x)
              /\ exclusive'[x] = exclusive[x] + Delta(pc, pc', Sweeps, SweepStates, c, x)
        BY CallsAssumption, <1>1, <1>2 DEF Drained, Proceed, Ready, Goto, TypeOK,
           TakerAlone, LastSweep, Delta, OpenStates, SweepStates
    <2> QED
        BY <2>1, <2>2, CountStep, Zenon
<1>5. BusyInv'
    BY <1>1, <1>2 DEF Drained, Proceed, Ready, Goto, OneTaker, TakerAlone, BlockerState,
       FlockBelieved, BusyHeld, TypeOK
<1>6. BlockedInv'
    BY <1>1, <1>2 DEF Drained, Proceed, Ready, Goto, OneBlocker, BlockerState,
       TakerAlone, BlockedHeld, LastSweep, TypeOK
<1>7. FlockInv'
    BY <1>1, <1>2 DEF Drained, Proceed, Ready, Goto, FlockExcludes, FlockBelieved,
       FlockTaken, TakerAlone, TypeOK
<1>8. ViewInv'
    BY <1>1, <1>2 DEF Drained, Proceed, Ready, Goto, GenerationInv, GoodView,
       NewGeneration, TypeOK
<1>9. NestInv'
    BY CallsAssumption, <1>1 DEF Drained, Proceed, Goto, NestInv, TypeOK
<1>10. NoLostWakeup'
    BY <1>1, Zenon DEF Drained, Proceed, Ready, Goto, NoLostWakeup, Closed, TypeOK
<1> QED
    BY <1>3, <1>4, <1>5, <1>6, <1>7, <1>8, <1>9, <1>10, Zenon DEF ProtocolInv

(* The invariant survives LOCK_EX granted (poll).                          *)
LEMMA PollExclusiveInv ==
    ASSUME ProtocolInv, NEW c \in Sweeps, PollExclusive(c)
    PROVE  ProtocolInv'
<1> /\ TypeOK /\ CountInv /\ BusyInv /\ BlockedInv /\ FlockInv /\ ViewInv
    /\ NestInv /\ NoLostWakeup
    BY Zenon DEF ProtocolInv
<1> USE DEF BusyInv, BlockedInv, FlockInv, ViewInv, counts, flags, known, disk, mapped
<1>1. c \in Calls /\ StoreOf[c] \in Stores /\ StoreOf \in [Calls -> Stores]
    BY CallsAssumption, Zenon DEF Calls
<1>2. /\ pc[c] \in TakingLock /\ pc'[c] \in TakingLock
      /\ pc[c] \notin BusyShared /\ pc'[c] \notin BusyShared
      /\ pc[c] \in Blocking /\ pc'[c] \in Blocking
    BY <1>1, Zenon DEF PollExclusive, CanLockExclusive, Flock, Goto, TypeOK, TakingLock,
       Blocking, BusyShared, BusyExclusive
<1>3. TypeOK'
    BY <1>1, MaxGenAssumption, CallsAssumption DEF PollExclusive, Flock, Goto, TypeOK,
       SpanPc, SweepPc
<1>4. CountInv'
    <2>1. \A d \in Calls \ {c} : pc'[d] = pc[d]
        BY <1>1, Zenon DEF PollExclusive, Flock, Goto, TypeOK
    <2>2. \A x \in Stores :
              /\ shared'[x] = shared[x] + Delta(pc, pc', Spans, OpenStates, c, x)
              /\ exclusive'[x] = exclusive[x] + Delta(pc, pc', Sweeps, SweepStates, c, x)
        BY CallsAssumption, <1>1, <1>2 DEF PollExclusive, CanLockExclusive, Flock, Goto,
           TypeOK, TakerAlone, LastSweep, Delta, OpenStates, SweepStates
    <2> QED
        BY <2>1, <2>2, CountStep, Zenon
<1>5. BusyInv'
    BY <1>1, <1>2 DEF PollExclusive, CanLockExclusive, Flock, Goto, OneTaker,
       TakerAlone, FlockBelieved, BlockerState, BusyHeld, TypeOK
<1>6. BlockedInv'
    BY <1>1, <1>2 DEF PollExclusive, CanLockExclusive, Flock, Goto, OneBlocker,
       BlockerState, TakerAlone, BlockedHeld, LastSweep, TypeOK
<1>7. FlockInv'
    BY <1>1, <1>2, StateNames DEF PollExclusive, CanLockExclusive, Flock, Goto,
       FlockExcludes, FlockBelieved, FlockTaken, TakerAlone, OneTaker, TypeOK
<1>8. ViewInv'
    BY <1>1, <1>2 DEF PollExclusive, CanLockExclusive, Flock, Goto, GenerationInv,
       GoodView, NewGeneration, TypeOK
<1>9. NestInv'
    BY CallsAssumption, <1>1 DEF PollExclusive, Goto, NestInv, TypeOK
<1>10. NoLostWakeup'
    BY <1>1, Zenon DEF PollExclusive, Flock, Goto, Ready, NoLostWakeup, Closed, TypeOK
<1> QED
    BY <1>3, <1>4, <1>5, <1>6, <1>7, <1>8, <1>9, <1>10, Zenon DEF ProtocolInv

(* The invariant survives reading the generation to count from (bump).     *)
LEMMA BumpReadInv ==
    ASSUME ProtocolInv, NEW c \in Sweeps, BumpRead(c)
    PROVE  ProtocolInv'
<1> /\ TypeOK /\ CountInv /\ BusyInv /\ BlockedInv /\ FlockInv /\ ViewInv
    /\ NestInv /\ NoLostWakeup
    BY Zenon DEF ProtocolInv
<1> USE DEF BusyInv, BlockedInv, FlockInv, ViewInv, counts, flags, known, disk, mapped
<1>1. c \in Calls /\ StoreOf[c] \in Stores /\ StoreOf \in [Calls -> Stores]
    BY CallsAssumption, Zenon DEF Calls
<1>2. /\ pc[c] \in TakingLock /\ pc'[c] \in TakingLock
      /\ pc[c] \notin BusyShared /\ pc'[c] \notin BusyShared
      /\ pc[c] \in Blocking /\ pc'[c] \in Blocking
    BY <1>1, Zenon DEF BumpRead, Goto, TypeOK, TakingLock, Blocking, BusyShared, BusyExclusive
<1>3. TypeOK'
    BY <1>1, MaxGenAssumption, CallsAssumption DEF BumpRead, Goto, TypeOK, SpanPc,
       SweepPc
<1>4. CountInv'
    <2>1. \A d \in Calls \ {c} : pc'[d] = pc[d]
        BY <1>1, Zenon DEF BumpRead, Goto, TypeOK
    <2>2. \A x \in Stores :
              /\ shared'[x] = shared[x] + Delta(pc, pc', Spans, OpenStates, c, x)
              /\ exclusive'[x] = exclusive[x] + Delta(pc, pc', Sweeps, SweepStates, c, x)
        BY CallsAssumption, <1>1, <1>2 DEF BumpRead, Goto, TypeOK, TakerAlone,
           LastSweep, Delta, OpenStates, SweepStates
    <2> QED
        BY <2>1, <2>2, CountStep, Zenon
<1>5. BusyInv'
    BY <1>1, <1>2 DEF BumpRead, Goto, OneTaker, TakerAlone, FlockBelieved, BlockerState,
       BusyHeld, TypeOK
<1>6. BlockedInv'
    BY <1>1, <1>2 DEF BumpRead, Goto, OneBlocker, BlockerState, TakerAlone, BlockedHeld,
       LastSweep, TypeOK
<1>7. FlockInv'
    BY <1>1, <1>2 DEF BumpRead, Goto, FlockExcludes, FlockBelieved, FlockTaken,
       TakerAlone, TypeOK
<1>8. ViewInv'
    BY <1>1, <1>2 DEF BumpRead, Goto, GenerationInv, GoodView, NewGeneration, TypeOK
<1>9. NestInv'
    BY CallsAssumption, <1>1 DEF BumpRead, Goto, NestInv, TypeOK
<1>10. NoLostWakeup'
    BY <1>1, Zenon DEF BumpRead, Goto, Ready, NoLostWakeup, Closed, TypeOK
<1> QED
    BY <1>3, <1>4, <1>5, <1>6, <1>7, <1>8, <1>9, <1>10, Zenon DEF ProtocolInv

(* The invariant survives writing the next generation (bump).              *)
LEMMA BumpWriteInv ==
    ASSUME ProtocolInv, NEW c \in Sweeps, BumpWrite(c)
    PROVE  ProtocolInv'
<1> /\ TypeOK /\ CountInv /\ BusyInv /\ BlockedInv /\ FlockInv /\ ViewInv
    /\ NestInv /\ NoLostWakeup
    BY Zenon DEF ProtocolInv
<1> USE DEF BusyInv, BlockedInv, FlockInv, ViewInv, counts, flags, known, disk, mapped
<1>1. c \in Calls /\ StoreOf[c] \in Stores /\ StoreOf \in [Calls -> Stores]
    BY CallsAssumption, Zenon DEF Calls
<1>2. /\ pc[c] \in TakingLock /\ pc'[c] \in TakingLock
      /\ pc[c] \notin BusyShared /\ pc'[c] \notin BusyShared
      /\ pc[c] \in Blocking /\ pc'[c] \in Blocking
    BY <1>1, Zenon DEF BumpWrite, Goto, TypeOK, TakingLock, Blocking, BusyShared, BusyExclusive
<1>3. TypeOK'
    BY <1>1, MaxGenAssumption, CallsAssumption DEF BumpWrite, Goto, TypeOK, SpanPc,
       SweepPc
<1>4. CountInv'
    <2>1. \A d \in Calls \ {c} : pc'[d] = pc[d]
        BY <1>1, Zenon DEF BumpWrite, Goto, TypeOK
    <2>2. \A x \in Stores :
              /\ shared'[x] = shared[x] + Delta(pc, pc', Spans, OpenStates, c, x)
              /\ exclusive'[x] = exclusive[x] + Delta(pc, pc', Sweeps, SweepStates, c, x)
        BY CallsAssumption, <1>1, <1>2 DEF BumpWrite, Goto, TypeOK, TakerAlone,
           LastSweep, Delta, OpenStates, SweepStates
    <2> QED
        BY <2>1, <2>2, CountStep, Zenon
<1>5. BusyInv'
    BY <1>1, <1>2 DEF BumpWrite, Goto, OneTaker, TakerAlone, FlockBelieved,
       BlockerState, BusyHeld, TypeOK
<1>6. BlockedInv'
    BY <1>1, <1>2 DEF BumpWrite, Goto, OneBlocker, BlockerState, TakerAlone,
       BlockedHeld, LastSweep, TypeOK
<1>7. FlockInv'
    BY <1>1, <1>2 DEF BumpWrite, Goto, FlockExcludes, FlockBelieved, FlockTaken,
       TakerAlone, TypeOK
<1>8. ViewInv'
    <2>1. GenerationInv'
        <3>1. \A d \in Calls \ {c} : pc[d] # "write"
            BY <1>1, <1>2, StateNames, Zenon
               DEF BumpWrite, FlockTaken, FlockExcludes, OneTaker, TypeOK
        <3>2. gen' = gen + 1
            BY Zenon DEF BumpWrite, GenerationInv
        <3>3. \A d \in Sweeps : pc'[d] # "write"
            BY <1>1, <3>1, Zenon DEF BumpWrite, Goto, TypeOK, Calls
        <3>4. \A s \in Stores : generation'[s] <= gen'
            BY <3>2 DEF BumpWrite, GenerationInv, TypeOK
        <3> QED
            BY <3>3, <3>4, Zenon DEF GenerationInv
    <2>2. GoodView'
        BY <1>1, <1>2, StateNames DEF BumpWrite, Goto, GoodView, GenerationInv,
           FlockTaken, FlockExcludes, FlockBelieved, TakerAlone, TypeOK
    <2>3. NewGeneration'
        BY <1>1, <1>2, StateNames DEF BumpWrite, Goto, NewGeneration, GenerationInv,
           FlockTaken, FlockExcludes, FlockBelieved, TakerAlone, TypeOK
    <2> QED
        BY <2>1, <2>2, <2>3, Zenon
<1>9. NestInv'
    BY CallsAssumption, <1>1 DEF BumpWrite, Goto, NestInv, TypeOK
<1>10. NoLostWakeup'
    BY <1>1, Zenon DEF BumpWrite, Goto, Ready, NoLostWakeup, Closed, TypeOK
<1> QED
    BY <1>3, <1>4, <1>5, <1>6, <1>7, <1>8, <1>9, <1>10, Zenon DEF ProtocolInv

(* The invariant survives the refresh that starts a sweep                  *)
(* (begin_exclusive).                                                      *)
LEMMA RefreshExclusiveInv ==
    ASSUME ProtocolInv, NEW c \in Sweeps, RefreshExclusive(c)
    PROVE  ProtocolInv'
<1> /\ TypeOK /\ CountInv /\ BusyInv /\ BlockedInv /\ FlockInv /\ ViewInv
    /\ NestInv /\ NoLostWakeup
    BY Zenon DEF ProtocolInv
<1> USE DEF BusyInv, BlockedInv, FlockInv, ViewInv, counts, flags, known, disk, mapped
<1>1. c \in Calls /\ StoreOf[c] \in Stores /\ StoreOf \in [Calls -> Stores]
    BY CallsAssumption, Zenon DEF Calls
<1>2. /\ pc[c] \in TakingLock /\ pc'[c] \notin TakingLock
      /\ pc[c] \notin BusyShared /\ pc'[c] \notin BusyShared
      /\ pc[c] \in Blocking /\ pc'[c] \notin Blocking
    BY <1>1, Zenon DEF RefreshExclusive, Goto, TypeOK, TakingLock, Blocking, BusyShared,
       BusyExclusive
<1>3. TypeOK'
    BY <1>1, MaxGenAssumption, CallsAssumption DEF RefreshExclusive, NotifyAll, Goto,
       TypeOK, SpanPc, SweepPc
<1>4. CountInv'
    <2>1. \A d \in Calls \ {c} : pc'[d] = pc[d]
        BY <1>1, Zenon DEF RefreshExclusive, NotifyAll, Goto, TypeOK
    <2>2. \A x \in Stores :
              /\ shared'[x] = shared[x] + Delta(pc, pc', Spans, OpenStates, c, x)
              /\ exclusive'[x] = exclusive[x] + Delta(pc, pc', Sweeps, SweepStates, c, x)
        BY CallsAssumption, <1>1, <1>2 DEF RefreshExclusive, Goto, TypeOK, TakerAlone,
           LastSweep, Delta, OpenStates, SweepStates
    <2> QED
        BY <2>1, <2>2, CountStep, Zenon
<1>5. BusyInv'
    BY <1>1, <1>2 DEF RefreshExclusive, Goto, OneTaker, TakerAlone, FlockBelieved,
       BlockerState, BusyHeld, TypeOK
<1>6. BlockedInv'
    BY <1>1, <1>2 DEF RefreshExclusive, Goto, OneBlocker, BlockerState, TakerAlone,
       BlockedHeld, LastSweep, TypeOK
<1>7. FlockInv'
    BY <1>1, <1>2 DEF RefreshExclusive, Goto, FlockExcludes, FlockBelieved, FlockTaken,
       TakerAlone, TypeOK
<1>8. ViewInv'
    <2>1. GenerationInv'
        BY <1>1, <1>2 DEF RefreshExclusive, Goto, GenerationInv, TypeOK
    <2>2. GoodView'
        BY <1>1, <1>2, Zenon DEF RefreshExclusive, Goto, GoodView, TypeOK
    <2>3. NewGeneration'
        <3>1. \A d \in Calls \ {c} : ~(pc[d] = "refresh" /\ StoreOf[d] \notin closed)
            BY <1>1, <1>2, StateNames, Zenon
               DEF RefreshExclusive, FlockTaken, FlockExcludes, OneTaker, TypeOK
        <3>2. \A s \in Stores \ closed : s # StoreOf[c] => exclusive[s] = 0
            BY <1>1, <1>2
               DEF RefreshExclusive, FlockTaken, FlockExcludes, FlockBelieved, TypeOK
        <3>3. \A o \in Stores : generation[o] < gen
            BY <1>1, Zenon DEF RefreshExclusive, NewGeneration
        <3> QED
            BY <1>1, <3>1, <3>2, <3>3 DEF RefreshExclusive, Goto, NewGeneration, TypeOK
    <2> QED
        BY <2>1, <2>2, <2>3, Zenon
<1>9. NestInv'
    BY CallsAssumption, <1>1 DEF RefreshExclusive, Goto, NestInv, TypeOK
<1>10. NoLostWakeup'
    BY <1>1, Zenon DEF RefreshExclusive, NotifyAll, CallsOf, Goto, Ready, NoLostWakeup, Closed,
       TypeOK
<1> QED
    BY <1>3, <1>4, <1>5, <1>6, <1>7, <1>8, <1>9, <1>10, Zenon DEF ProtocolInv

(* The invariant survives a sweep that fails to start (BusyStep::drop).    *)
LEMMA FailExclusiveInv ==
    ASSUME ProtocolInv, NEW c \in Sweeps, FailExclusive(c)
    PROVE  ProtocolInv'
<1> /\ TypeOK /\ CountInv /\ BusyInv /\ BlockedInv /\ FlockInv /\ ViewInv
    /\ NestInv /\ NoLostWakeup
    BY Zenon DEF ProtocolInv
<1> USE DEF BusyInv, BlockedInv, FlockInv, ViewInv, counts, flags, known, disk, mapped
<1>1. c \in Calls /\ StoreOf[c] \in Stores /\ StoreOf \in [Calls -> Stores]
    BY CallsAssumption, Zenon DEF Calls
<1>2. /\ pc[c] \in TakingLock /\ pc'[c] \notin TakingLock
      /\ pc[c] \notin BusyShared /\ pc'[c] \notin BusyShared
      /\ pc[c] \in Blocking /\ pc'[c] \notin Blocking
    BY <1>1, Zenon DEF FailExclusive, Flock, Goto, TypeOK, TakingLock, Blocking, BusyShared,
       BusyExclusive
<1>3. TypeOK'
    BY <1>1, MaxGenAssumption, CallsAssumption DEF FailExclusive, Flock, NotifyAll,
       Goto, TypeOK, SpanPc, SweepPc
<1>4. CountInv'
    <2>1. \A d \in Calls \ {c} : pc'[d] = pc[d]
        BY <1>1, Zenon DEF FailExclusive, Flock, NotifyAll, Goto, TypeOK
    <2>2. \A x \in Stores :
              /\ shared'[x] = shared[x] + Delta(pc, pc', Spans, OpenStates, c, x)
              /\ exclusive'[x] = exclusive[x] + Delta(pc, pc', Sweeps, SweepStates, c, x)
        BY CallsAssumption, <1>1, <1>2 DEF FailExclusive, Flock, Goto, TypeOK,
           TakerAlone, LastSweep, Delta, OpenStates, SweepStates
    <2> QED
        BY <2>1, <2>2, CountStep, Zenon
<1>5. BusyInv'
    BY <1>1, <1>2 DEF FailExclusive, Flock, Goto, OneTaker, TakerAlone, FlockBelieved,
       BlockerState, BusyHeld, TypeOK
<1>6. BlockedInv'
    BY <1>1, <1>2 DEF FailExclusive, Flock, Goto, OneBlocker, BlockerState, TakerAlone,
       BlockedHeld, LastSweep, TypeOK
<1>7. FlockInv'
    BY <1>1, <1>2, StateNames DEF FailExclusive, Flock, Goto, FlockExcludes,
       FlockBelieved, FlockTaken, TakerAlone, OneTaker, TypeOK
<1>8. ViewInv'
    BY <1>1, <1>2 DEF FailExclusive, Flock, Goto, GenerationInv, GoodView,
       NewGeneration, TypeOK
<1>9. NestInv'
    BY CallsAssumption, <1>1 DEF FailExclusive, Goto, NestInv, TypeOK
<1>10. NoLostWakeup'
    BY <1>1, Zenon DEF FailExclusive, Flock, NotifyAll, CallsOf, Goto, Ready, NoLostWakeup,
       Closed, TypeOK
<1> QED
    BY <1>3, <1>4, <1>5, <1>6, <1>7, <1>8, <1>9, <1>10, Zenon DEF ProtocolInv

(***************************************************************************)
(* The steps that end a sweep.                                             *)
(***************************************************************************)

(* The invariant survives the end of an inner sweep (end_exclusive).       *)
LEMMA EndNestedInv ==
    ASSUME ProtocolInv, NEW c \in Sweeps, EndNested(c)
    PROVE  ProtocolInv'
<1> /\ TypeOK /\ CountInv /\ BusyInv /\ BlockedInv /\ FlockInv /\ ViewInv
    /\ NestInv /\ NoLostWakeup
    BY Zenon DEF ProtocolInv
<1> USE DEF BusyInv, BlockedInv, FlockInv, ViewInv, counts, flags, known, disk, mapped
<1>1. c \in Calls /\ StoreOf[c] \in Stores /\ StoreOf \in [Calls -> Stores]
    BY CallsAssumption, Zenon DEF Calls
<1>2. /\ pc[c] \notin TakingLock /\ pc'[c] \notin TakingLock
      /\ pc[c] \notin BusyShared /\ pc'[c] \notin BusyShared
      /\ pc[c] \notin Blocking /\ pc'[c] \notin Blocking
    BY <1>1, Zenon DEF EndNested, Goto, TypeOK, TakingLock, Blocking, BusyShared, BusyExclusive
<1>3. exclusive[StoreOf[c]] # 0
    BY <1>1, Counted, Zenon DEF EndNested, OpenStates, SweepStates
<1>4. TypeOK'
    BY <1>1, <1>3, MaxGenAssumption, CallsAssumption DEF EndNested, Goto, TypeOK,
       SpanPc, SweepPc
<1>5. CountInv'
    <2>1. \A d \in Calls \ {c} : pc'[d] = pc[d]
        BY <1>1, Zenon DEF EndNested, Goto, TypeOK
    <2>2. \A x \in Stores :
              /\ shared'[x] = shared[x] + Delta(pc, pc', Spans, OpenStates, c, x)
              /\ exclusive'[x] = exclusive[x] + Delta(pc, pc', Sweeps, SweepStates, c, x)
        BY CallsAssumption, <1>1, <1>2, <1>3 DEF EndNested, Goto, TypeOK, TakerAlone,
           LastSweep, Delta, OpenStates, SweepStates
    <2> QED
        BY <2>1, <2>2, CountStep, Zenon
<1>6. BusyInv'
    BY <1>1, <1>2, <1>3 DEF EndNested, Goto, OneTaker, TakerAlone, FlockBelieved,
       BlockerState, BusyHeld, TypeOK
<1>7. BlockedInv'
    BY <1>1, <1>2, <1>3 DEF EndNested, Goto, OneBlocker, BlockerState, TakerAlone,
       BlockedHeld, LastSweep, TypeOK
<1>8. FlockInv'
    BY <1>1, <1>2, <1>3 DEF EndNested, Goto, FlockExcludes, FlockBelieved, FlockTaken,
       TakerAlone, TypeOK
<1>9. ViewInv'
    BY <1>1, <1>2, <1>3 DEF EndNested, Goto, GenerationInv, GoodView, NewGeneration,
       TypeOK
<1>10. NestInv'
    BY CallsAssumption, <1>1 DEF EndNested, InnerCalls, Goto, NestInv, TypeOK
<1>11. NoLostWakeup'
    BY <1>1, Zenon DEF EndNested, Goto, Ready, NoLostWakeup, Closed, TypeOK
<1> QED
    BY <1>4, <1>5, <1>6, <1>7, <1>8, <1>9, <1>10, <1>11, Zenon DEF ProtocolInv

(* The invariant survives the last sweep keeping new spans out             *)
(* (end_exclusive).                                                        *)
LEMMA BlockEndInv ==
    ASSUME ProtocolInv, NEW c \in Sweeps, BlockEnd(c)
    PROVE  ProtocolInv'
<1> /\ TypeOK /\ CountInv /\ BusyInv /\ BlockedInv /\ FlockInv /\ ViewInv
    /\ NestInv /\ NoLostWakeup
    BY Zenon DEF ProtocolInv
<1> USE DEF BusyInv, BlockedInv, FlockInv, ViewInv, counts, flags, known, disk, mapped
<1>1. c \in Calls /\ StoreOf[c] \in Stores /\ StoreOf \in [Calls -> Stores]
    BY CallsAssumption, Zenon DEF Calls
<1>2. /\ pc[c] \notin TakingLock /\ pc'[c] \notin TakingLock
      /\ pc[c] \notin BusyShared /\ pc'[c] \notin BusyShared
      /\ pc[c] \notin Blocking /\ pc'[c] \in Blocking
    BY <1>1, Zenon DEF BlockEnd, Goto, TypeOK, TakingLock, Blocking, BusyShared, BusyExclusive
<1>3. exclusive[StoreOf[c]] # 0
    BY <1>1, Counted, Zenon DEF BlockEnd, OpenStates, SweepStates
<1>4. TypeOK'
    BY <1>1, <1>3, MaxGenAssumption, CallsAssumption DEF BlockEnd, Goto, TypeOK, SpanPc,
       SweepPc
<1>5. CountInv'
    <2>1. \A d \in Calls \ {c} : pc'[d] = pc[d]
        BY <1>1, Zenon DEF BlockEnd, Goto, TypeOK
    <2>2. \A x \in Stores :
              /\ shared'[x] = shared[x] + Delta(pc, pc', Spans, OpenStates, c, x)
              /\ exclusive'[x] = exclusive[x] + Delta(pc, pc', Sweeps, SweepStates, c, x)
        BY CallsAssumption, <1>1, <1>2, <1>3 DEF BlockEnd, Goto, TypeOK, TakerAlone,
           LastSweep, Delta, OpenStates, SweepStates
    <2> QED
        BY <2>1, <2>2, CountStep, Zenon
<1>6. BusyInv'
    BY <1>1, <1>2, <1>3 DEF BlockEnd, Goto, OneTaker, TakerAlone, FlockBelieved,
       BlockerState, BusyHeld, TypeOK
<1>7. BlockedInv'
    BY <1>1, <1>2, <1>3, StateNames DEF BlockEnd, Goto, OneBlocker, BlockerState,
       TakerAlone, BlockedHeld, LastSweep, TypeOK
<1>8. FlockInv'
    BY <1>1, <1>2, <1>3 DEF BlockEnd, Goto, FlockExcludes, FlockBelieved, FlockTaken,
       TakerAlone, TypeOK
<1>9. ViewInv'
    BY <1>1, <1>2, <1>3 DEF BlockEnd, Goto, GenerationInv, GoodView, NewGeneration,
       TypeOK
<1>10. NestInv'
    BY CallsAssumption, <1>1 DEF BlockEnd, InnerCalls, Goto, NestInv, TypeOK
<1>11. NoLostWakeup'
    BY <1>1, Zenon DEF BlockEnd, Goto, Ready, NoLostWakeup, Closed, TypeOK
<1> QED
    BY <1>4, <1>5, <1>6, <1>7, <1>8, <1>9, <1>10, <1>11, Zenon DEF ProtocolInv

(* The invariant survives dropping the exclusive lock (end_exclusive).     *)
LEMMA EndExclusiveInv ==
    ASSUME ProtocolInv, NEW c \in Sweeps, EndExclusive(c)
    PROVE  ProtocolInv'
<1> /\ TypeOK /\ CountInv /\ BusyInv /\ BlockedInv /\ FlockInv /\ ViewInv
    /\ NestInv /\ NoLostWakeup
    BY Zenon DEF ProtocolInv
<1> USE DEF BusyInv, BlockedInv, FlockInv, ViewInv, counts, flags, known, disk, mapped
<1>1. c \in Calls /\ StoreOf[c] \in Stores /\ StoreOf \in [Calls -> Stores]
    BY CallsAssumption, Zenon DEF Calls
<1>2. /\ pc[c] \notin TakingLock /\ pc'[c] \notin TakingLock
      /\ pc[c] \notin BusyShared /\ pc'[c] \notin BusyShared
      /\ pc[c] \in Blocking /\ pc'[c] \notin Blocking
    BY <1>1, Zenon DEF EndExclusive, Ready, Flock, Goto, TypeOK, TakingLock, Blocking,
       BusyShared, BusyExclusive
<1>3. TypeOK'
    BY <1>1, MaxGenAssumption, CallsAssumption DEF EndExclusive, Flock, NotifyAll, Goto,
       TypeOK, SpanPc, SweepPc
<1>4. CountInv'
    <2>1. \A d \in Calls \ {c} : pc'[d] = pc[d]
        BY <1>1, Zenon DEF EndExclusive, Flock, NotifyAll, Goto, TypeOK
    <2>2. \A x \in Stores :
              /\ shared'[x] = shared[x] + Delta(pc, pc', Spans, OpenStates, c, x)
              /\ exclusive'[x] = exclusive[x] + Delta(pc, pc', Sweeps, SweepStates, c, x)
        BY CallsAssumption, <1>1, <1>2 DEF EndExclusive, Ready, Flock, Goto, TypeOK,
           TakerAlone, LastSweep, Delta, OpenStates, SweepStates
    <2> QED
        BY <2>1, <2>2, CountStep, Zenon
<1>5. BusyInv'
    BY <1>1, <1>2 DEF EndExclusive, Ready, Flock, Goto, OneTaker, TakerAlone,
       FlockBelieved, BlockerState, BusyHeld, TypeOK
<1>6. BlockedInv'
    <2>1. OneBlocker'
        BY <1>1, <1>2, Zenon DEF EndExclusive, Ready, Flock, Goto, OneBlocker, BlockerState,
           TypeOK
    <2>2. BlockerState'
        BY <1>1, <1>2, StateNames, Zenon DEF EndExclusive, Ready, Flock, Goto, BlockerState,
           TakerAlone, OneBlocker, TypeOK
    <2>3. BlockedHeld'
        BY <1>1, <1>2, Zenon DEF EndExclusive, Ready, Flock, Goto, BlockedHeld, TypeOK
    <2>4. LastSweep'
        <3>1. \A d \in Calls \ {c} : pc[d] = "drainEnd" => StoreOf[d] # StoreOf[c]
            <4> SUFFICES ASSUME NEW d \in Calls \ {c}, pc[d] = "drainEnd",
                                StoreOf[d] = StoreOf[c]
                         PROVE  FALSE
                OBVIOUS
            <4>1. pc[c] = "drainEnd" /\ exclusive[StoreOf[c]] = 1
                BY <1>1, Zenon DEF EndExclusive, LastSweep
            <4>2. c \in Sweeps /\ d \in Sweeps
                BY <4>1, Zenon DEF TypeOK, SpanPc, Calls
            <4> QED
                BY <1>1, <4>1, <4>2, CountedOnce DEF SweepStates
        <3> QED
            BY <1>1, <3>1, Zenon DEF EndExclusive, Goto, LastSweep, TypeOK
    <2> QED
        BY <2>1, <2>2, <2>3, <2>4, Zenon
<1>7. FlockInv'
    <2>1. FlockExcludes'
        BY <1>1, Zenon DEF EndExclusive, Flock, FlockExcludes, TypeOK
    <2>2. FlockBelieved'
        BY <1>1, <1>2, StateNames DEF EndExclusive, Ready, Flock, Goto, FlockBelieved,
           TakerAlone, LastSweep, TypeOK
    <2>3. FlockTaken'
        BY <1>1, <1>2, StateNames DEF EndExclusive, Ready, Flock, Goto, FlockTaken,
           TakerAlone, LastSweep, TypeOK
    <2> QED
        BY <2>1, <2>2, <2>3, Zenon
<1>8. ViewInv'
    BY <1>1, <1>2 DEF EndExclusive, Ready, Flock, Goto, GenerationInv, GoodView,
       NewGeneration, TypeOK
<1>9. NestInv'
    BY CallsAssumption, <1>1 DEF EndExclusive, Goto, NestInv, TypeOK
<1>10. NoLostWakeup'
    BY <1>1, Zenon DEF EndExclusive, Ready, Flock, NotifyAll, CallsOf, Goto, NoLostWakeup,
       Closed, TypeOK
<1> QED
    BY <1>3, <1>4, <1>5, <1>6, <1>7, <1>8, <1>9, <1>10, Zenon DEF ProtocolInv

-----------------------------------------------------------------------------

(* The counts stand while no call moves and the counters stay (State:      *)
(* shared, exclusive).                                                     *)
LEMMA CountFrame ==
    ASSUME CountInv, UNCHANGED <<counts, pc>>
    PROVE  CountInv'
    BY Zenon DEF counts, CountInv, InStates, OpenStates, SweepStates

(* The conjuncts that only speak of counters, flags, locks and calls       *)
(* survive a step that changes none of them, whatever it does to the       *)
(* segments, the generation or the sleepers.                               *)
LEMMA FrameInv ==
    ASSUME ProtocolInv,
           UNCHANGED <<counts, flags, flocked, closed, flock, pc>>
    PROVE  CountInv' /\ BusyInv' /\ BlockedInv' /\ FlockInv' /\ NestInv'
<1> USE DEF ProtocolInv, counts, flags
<1>1. CountInv'
    BY CountFrame, Zenon
<1>2. BusyInv'
    BY Zenon DEF BusyInv, OneTaker, TakerAlone, BusyHeld
<1>3. BlockedInv'
    BY Zenon DEF BlockedInv, OneBlocker, BlockerState, BlockedHeld, LastSweep
<1>4. FlockInv'
    BY Zenon DEF FlockInv, FlockExcludes, FlockBelieved, FlockTaken
<1>5. NestInv'
    BY Zenon DEF NestInv
<1> QED
    BY <1>1, <1>2, <1>3, <1>4, <1>5, Zenon

(* The invariant survives a call going to sleep (wait). *)
LEMMA SleepInv ==
    ASSUME ProtocolInv, NEW c \in Calls, Sleep(c)
    PROVE  ProtocolInv'
<1> USE DEF Sleep, counts, flags, known, disk, mapped
<1>1. TypeOK'
    BY Zenon DEF ProtocolInv, TypeOK
<1>2. CountInv' /\ BusyInv' /\ BlockedInv' /\ FlockInv' /\ NestInv'
    BY FrameInv, Zenon
<1>3. ViewInv'
    BY Zenon DEF ProtocolInv, ViewInv, GenerationInv, GoodView, NewGeneration
<1>4. NoLostWakeup'
    BY Zenon DEF ProtocolInv, NoLostWakeup, Ready, Closed
<1> QED
    BY <1>1, <1>2, <1>3, <1>4, Zenon DEF ProtocolInv

(* The invariant survives a sweep waking up to look at its cancel (wait). *)
LEMMA TimeoutInv ==
    ASSUME ProtocolInv, NEW c \in Sweeps, Timeout(c)
    PROVE  ProtocolInv'
<1> USE DEF Timeout, counts, flags, known, disk, mapped
<1>1. TypeOK'
    BY Zenon DEF ProtocolInv, TypeOK
<1>2. CountInv' /\ BusyInv' /\ BlockedInv' /\ FlockInv' /\ NestInv'
    BY FrameInv, Zenon
<1>3. ViewInv'
    BY Zenon DEF ProtocolInv, ViewInv, GenerationInv, GoodView, NewGeneration
<1>4. NoLostWakeup'
    BY Zenon DEF ProtocolInv, NoLostWakeup, Ready, Closed
<1> QED
    BY <1>1, <1>2, <1>3, <1>4, Zenon DEF ProtocolInv

(* A detach changes one view only, and only for the less (remove_victims). *)
LEMMA DetachInv ==
    ASSUME ProtocolInv, NEW c \in Sweeps, NEW gs \in SUBSET Segments, Detach(c, gs)
    PROVE  ProtocolInv'
<1> USE DEF Detach, counts, flags, known, disk
<1>1. c \in Calls /\ StoreOf[c] \in Stores
    BY CallsAssumption, Zenon DEF Calls
<1>2. TypeOK'
    BY <1>1, Zenon DEF ProtocolInv, TypeOK
<1>3. CountInv' /\ BusyInv' /\ BlockedInv' /\ FlockInv' /\ NestInv'
    BY FrameInv, Zenon
<1>4. \A s \in Stores : view'[s] \subseteq view[s]
    BY <1>1, Zenon DEF ProtocolInv, TypeOK
<1>5. ViewInv'
    BY <1>4, Zenon DEF ProtocolInv, ViewInv, GenerationInv, GoodView, NewGeneration
<1>6. NoLostWakeup'
    BY Zenon DEF ProtocolInv, NoLostWakeup, Ready, Closed
<1> QED
    BY <1>2, <1>3, <1>5, <1>6, Zenon DEF ProtocolInv

(* The protocol survives the removal of a file (remove_victims, remove and *)
(* wipe): it left this store's view before, and every other store is out,  *)
(* and remembers an older generation.                                      *)
LEMMA UnlinkInv ==
    ASSUME ProtocolInv, RemovalInv, NEW c \in Sweeps, NEW g \in Segments, Unlink(c, g)
    PROVE  ProtocolInv'
<1> USE DEF Unlink, counts, flags, known
<1>1. c \in Calls /\ StoreOf[c] \in Stores
    BY CallsAssumption, Zenon DEF Calls
<1>2. TypeOK'
    BY <1>1, Zenon DEF ProtocolInv, TypeOK
<1>3. CountInv' /\ BusyInv' /\ BlockedInv' /\ FlockInv' /\ NestInv'
    BY FrameInv, Zenon
<1>9. /\ pc[c] \in {"sweeping", "paused"} /\ StoreOf[c] \notin closed
      /\ g \notin view[StoreOf[c]]
    BY Zenon DEF RemovalInv
<1>4. exclusive[StoreOf[c]] > 0
    BY <1>1, <1>9, Counted DEF ProtocolInv, TypeOK, SweepStates
<1>5. \A o \in Stores \ {StoreOf[c]} : generation[o] # gen /\ exclusive[o] >= 0
    BY <1>1, <1>4, <1>9 DEF ProtocolInv, TypeOK, ViewInv, NewGeneration
<1>6. GoodView'
    <2> SUFFICES ASSUME NEW s \in Stores \ closed
                 PROVE  /\ s \in looked /\ generation[s] = gen => view[s] \subseteq dir'
                        /\ shared[s] > 0 \/ exclusive[s] > 0
                              => s \in looked /\ generation[s] = gen
        BY Zenon DEF GoodView
    <2>1. CASE s = StoreOf[c]
        BY <1>1, <1>9, <2>1, Zenon DEF ProtocolInv, TypeOK, ViewInv, GoodView
    <2>2. CASE s # StoreOf[c]
        BY <1>1, <1>5, <2>2, Zenon DEF ProtocolInv, TypeOK, ViewInv, GoodView
    <2> QED
        BY <2>1, <2>2, Zenon
<1>7. GenerationInv' /\ NewGeneration'
    BY Zenon DEF ProtocolInv, ViewInv, GenerationInv, NewGeneration
<1>8. NoLostWakeup'
    BY Zenon DEF ProtocolInv, NoLostWakeup, Ready, Closed
<1> QED
    BY <1>2, <1>3, <1>6, <1>7, <1>8, Zenon DEF ProtocolInv, ViewInv

(* A failed unlink changes nothing of the protocol (remove_victims). *)
LEMMA UnlinkFailsInv ==
    ASSUME ProtocolInv, NEW c \in Sweeps, NEW g \in Segments, UnlinkFails(c, g)
    PROVE  ProtocolInv'
<1> USE DEF UnlinkFails, counts, flags, known, disk
<1>1. TypeOK'
    BY Zenon DEF ProtocolInv, TypeOK
<1>2. CountInv' /\ BusyInv' /\ BlockedInv' /\ FlockInv' /\ NestInv'
    BY FrameInv, Zenon
<1>3. ViewInv'
    BY Zenon DEF ProtocolInv, ViewInv, GenerationInv, GoodView, NewGeneration
<1>4. NoLostWakeup'
    BY Zenon DEF ProtocolInv, NoLostWakeup, Ready, Closed
<1> QED
    BY <1>1, <1>2, <1>3, <1>4, Zenon DEF ProtocolInv

(* The invariant survives a new segment (create_active). *)
LEMMA CreateInv ==
    ASSUME ProtocolInv, NEW c \in Calls, NEW g \in Segments, Create(c, g)
    PROVE  ProtocolInv'
<1> USE DEF Create, counts, flags, known
<1>1. StoreOf[c] \in Stores
    BY CallsAssumption, Zenon
<1>2. TypeOK'
    BY <1>1, Zenon DEF ProtocolInv, TypeOK
<1>3. CountInv' /\ BusyInv' /\ BlockedInv' /\ FlockInv' /\ NestInv'
    BY FrameInv, Zenon
<1>4. shared[StoreOf[c]] > 0 \/ exclusive[StoreOf[c]] > 0
    <2>1. \/ c \in Spans /\ pc[c] \in OpenStates
          \/ c \in Sweeps /\ pc[c] \in SweepStates
        BY Zenon DEF ProtocolInv, TypeOK, SpanPc, SweepPc, OpenStates, SweepStates, Calls
    <2> QED
        BY <1>1, <2>1, Counted DEF ProtocolInv, TypeOK
<1>5. \A s \in Stores \ closed : s # StoreOf[c] => exclusive[s] = 0
    BY <1>1, <1>4 DEF ProtocolInv, TypeOK, FlockInv, FlockBelieved, FlockExcludes
<1>6. GoodView'
    <2> SUFFICES ASSUME NEW s \in Stores \ closed
                 PROVE  /\ s \in looked /\ generation[s] = gen => view'[s] \subseteq dir'
                        /\ shared[s] > 0 \/ exclusive[s] > 0
                              => s \in looked /\ generation[s] = gen
        BY Zenon DEF GoodView
    <2>1. CASE s = StoreOf[c]
        BY <1>1, <2>1, Zenon DEF ProtocolInv, TypeOK, ViewInv, GoodView
    <2>2. CASE s # StoreOf[c]
        BY <1>1, <1>5, <2>2 DEF ProtocolInv, TypeOK, ViewInv, GoodView
    <2> QED
        BY <2>1, <2>2, Zenon
<1>7. GenerationInv' /\ NewGeneration'
    BY Zenon DEF ProtocolInv, ViewInv, GenerationInv, NewGeneration
<1>8. NoLostWakeup'
    BY Zenon DEF ProtocolInv, NoLostWakeup, Ready, Closed
<1> QED
    BY <1>2, <1>3, <1>6, <1>7, <1>8, Zenon DEF ProtocolInv, ViewInv

(* The invariant survives a reader's look at the directory (refresh). *)
LEMMA ReaderRefreshInv ==
    ASSUME ProtocolInv, NEW s \in Stores, ReaderRefresh(s)
    PROVE  ProtocolInv'
<1> USE DEF ReaderRefresh, counts, flags, known, disk, mapped
<1>1. TypeOK'
    BY Zenon DEF ProtocolInv, TypeOK
<1>2. CountInv' /\ BusyInv' /\ BlockedInv' /\ FlockInv' /\ NestInv'
    BY FrameInv, Zenon
<1>3. ViewInv'
    BY Zenon DEF ProtocolInv, TypeOK, ViewInv, GenerationInv, GoodView, NewGeneration
<1>4. NoLostWakeup'
    BY Zenon DEF ProtocolInv, NoLostWakeup, Ready, Closed
<1> QED
    BY <1>1, <1>2, <1>3, <1>4, Zenon DEF ProtocolInv

(* The invariant survives a close that no bump is under way at (close). *)
LEMMA OrderlyCloseInv ==
    ASSUME ProtocolInv, NEW s \in Stores, OrderlyClose(s)
    PROVE  ProtocolInv'
<1> USE DEF OrderlyClose, Close, counts, flags, known, disk, mapped
<1>1. StoreOf \in [Calls -> Stores]
    BY CallsAssumption, Zenon
<1>2. TypeOK'
    BY Zenon DEF ProtocolInv, TypeOK, Flock, NotifyAll
<1>3. CountInv'
    BY CountFrame, Zenon DEF ProtocolInv
<1>4. BusyInv' /\ NestInv'
    BY Zenon DEF ProtocolInv, BusyInv, OneTaker, TakerAlone, BusyHeld, NestInv
<1>5. BlockedInv'
    BY Zenon DEF ProtocolInv, BlockedInv, OneBlocker, BlockerState, BlockedHeld, LastSweep
<1>6. FlockInv'
    BY <1>1 DEF ProtocolInv, TypeOK, FlockInv, FlockExcludes, FlockBelieved, FlockTaken, Flock,
       CallsOf
<1>7. ViewInv'
    BY Zenon DEF ProtocolInv, ViewInv, GenerationInv, GoodView, NewGeneration
<1>8. NoLostWakeup'
    BY Zenon DEF ProtocolInv, TypeOK, NoLostWakeup, Ready, Closed, NotifyAll, CallsOf
<1> QED
    BY <1>2, <1>3, <1>4, <1>5, <1>6, <1>7, <1>8, Zenon DEF ProtocolInv

(* The invariant survives the death of a process and the open that follows *)
(* (Store::open_with).                                                     *)
LEMMA RestartInv ==
    ASSUME ProtocolInv, NEW s \in Stores, Restart(s)
    PROVE  ProtocolInv'
<1> USE DEF Restart, disk
<1>1. StoreOf \in [Calls -> Stores] /\ Sweeps \subseteq Calls /\ Spans \subseteq Calls
    BY CallsAssumption, Zenon DEF Calls
<1>2. /\ \A c \in Calls : StoreOf[c] = s => pc'[c] = "idle"
      /\ \A c \in Calls : StoreOf[c] # s => pc'[c] = pc[c]
    OBVIOUS
<1>3. TypeOK'
    BY <1>1, <1>2, Zenon DEF ProtocolInv, TypeOK, Flock, NotifyAll, SpanPc, SweepPc
<1>4. CountInv'
    <2>1. /\ InStates(pc', Spans, OpenStates, s) = {}
          /\ InStates(pc', Sweeps, SweepStates, s) = {}
        BY <1>1, <1>2, Zenon DEF InStates, OpenStates, SweepStates
    <2>2. \A x \in Stores \ {s} :
              /\ InStates(pc', Spans, OpenStates, x) = InStates(pc, Spans, OpenStates, x)
              /\ InStates(pc', Sweeps, SweepStates, x) = InStates(pc, Sweeps, SweepStates, x)
        BY <1>1, <1>2, Zenon DEF InStates
    <2>3. /\ shared'[s] = 0 /\ exclusive'[s] = 0
          /\ \A x \in Stores \ {s} : shared'[x] = shared[x] /\ exclusive'[x] = exclusive[x]
        BY Zenon DEF ProtocolInv, TypeOK
    <2>4. OpenStates' = OpenStates /\ SweepStates' = SweepStates
        BY Zenon DEF OpenStates, SweepStates
    <2> QED
        BY <2>1, <2>2, <2>3, <2>4, SizeOfNone, Zenon DEF ProtocolInv, CountInv
<1>5. "idle" \notin TakingLock /\ "idle" \notin Blocking
    BY Zenon DEF TakingLock, Blocking, BusyShared, BusyExclusive
<1>6. BusyInv'
    BY <1>1, <1>2, <1>5 DEF ProtocolInv, TypeOK, BusyInv, OneTaker, TakerAlone, BusyHeld
<1>7. BlockedInv'
    <2>1. BusyShared \subseteq TakingLock
        BY StateNames, Zenon
    <2> QED
        BY <1>1, <1>2, <1>5, <2>1
           DEF ProtocolInv, TypeOK, BlockedInv, OneBlocker, BlockerState, BlockedHeld, LastSweep
<1>8. FlockInv'
    BY <1>1, <1>2
       DEF ProtocolInv, TypeOK, FlockInv, FlockExcludes, FlockBelieved, FlockTaken, Flock
<1>9. ViewInv'
    <2>1. GenerationInv'
        BY <1>1, <1>2 DEF ProtocolInv, TypeOK, ViewInv, GenerationInv
    <2>2. GoodView'
        BY DEF ProtocolInv, TypeOK, ViewInv, GoodView
    <2>3. NewGeneration'
        BY <1>1, <1>2 DEF ProtocolInv, TypeOK, ViewInv, NewGeneration
    <2> QED
        BY <2>1, <2>2, <2>3, Zenon DEF ViewInv
<1>10. NestInv'
    <2> SUFFICES ASSUME NEW c \in Calls, pc'[c] # "idle", NEW o \in Outer[c]
                 PROVE  pc'[o] = IF c \in Spans THEN "open" ELSE "sweeping"
        BY Zenon DEF NestInv
    <2>1. StoreOf[c] # s /\ pc[c] # "idle"
        BY <1>2, Zenon
    <2>2. o \in Calls /\ StoreOf[o] # s
        BY <2>1, CallsAssumption, Zenon
    <2> QED
        BY <1>2, <2>1, <2>2, Zenon DEF ProtocolInv, NestInv
<1>11. NoLostWakeup'
    BY <1>1, <1>2, Zenon DEF ProtocolInv, TypeOK, NoLostWakeup, Ready, Closed, NotifyAll, CallsOf
<1> QED
    BY <1>3, <1>4, <1>6, <1>7, <1>8, <1>9, <1>10, <1>11, Zenon DEF ProtocolInv

(* The invariant holds when every store has just opened (Gate::open). *)
LEMMA InitInv ==
    ASSUME Init
    PROVE  IInv
<1> USE DEF Init
<1>1. TypeOK
    BY MaxGenAssumption DEF TypeOK, SpanPc, SweepPc, Calls
<1>2. CountInv
    <2>1. \A s \in Stores : /\ InStates(pc, Spans, OpenStates, s) = {}
                             /\ InStates(pc, Sweeps, SweepStates, s) = {}
        BY Zenon DEF InStates, OpenStates, SweepStates, Calls
    <2> QED
        BY <2>1, SizeOfNone, Zenon DEF CountInv
<1>3. BusyInv /\ BlockedInv
    BY Zenon DEF BusyInv, OneTaker, TakerAlone, BusyHeld, BlockedInv, OneBlocker, BlockerState,
       BlockedHeld, LastSweep, TakingLock, Blocking, BusyShared, BusyExclusive
<1>4. FlockInv /\ ViewInv
    BY DEF FlockInv, FlockExcludes, FlockBelieved, FlockTaken, ViewInv, GenerationInv,
       GoodView, NewGeneration, Calls
<1>5. NestInv /\ NoLostWakeup /\ RemovalInv
    BY Zenon DEF NestInv, NoLostWakeup, RemovalInv
<1> QED
    BY <1>1, <1>2, <1>3, <1>4, <1>5, Zenon DEF IInv, ProtocolInv

(* The protocol survives every step, whoever takes it. *)
LEMMA NextProtocol ==
    ASSUME IInv, [Next]_vars
    PROVE  ProtocolInv'
<1> ProtocolInv /\ RemovalInv
    BY Zenon DEF IInv
<1>1. CASE \E c \in Spans : SpanStep(c)
    BY <1>1, CallSpanInv, JoinSharedInv, FirstSharedInv, PollSharedInv, LookSharedInv,
       FailSharedInv, EndSharedInv, Zenon DEF SpanStep
<1>2. CASE \E c \in Sweeps : SweepStep(c)
    BY <1>2, CallSweepInv, JoinExclusiveInv, BlockSpansInv, DrainedInv, PollExclusiveInv,
       BumpReadInv, BumpWriteInv, RefreshExclusiveInv, FailExclusiveInv, EndNestedInv,
       BlockEndInv, EndExclusiveInv, CallPauseInv, BlockPauseInv, PauseLocalInv,
       ResumeLocalInv, TimeoutInv, Zenon DEF SweepStep
<1>3. CASE \E c \in Calls : Sleep(c) \/ GiveUp(c)
    BY <1>3, SleepInv, GiveUpInv, Zenon
<1>4. CASE SegmentStep
    BY <1>4, DetachInv, UnlinkInv, UnlinkFailsInv, CreateInv, ReaderRefreshInv, Zenon
       DEF SegmentStep
<1>5. CASE \E s \in Stores : OrderlyClose(s) \/ Restart(s)
    BY <1>5, OrderlyCloseInv, RestartInv, Zenon
<1>6. CASE UNCHANGED vars
    <2> USE <1>6 DEF vars, counts, flags, known, disk, mapped
    <2>1. CountInv' /\ BusyInv' /\ BlockedInv' /\ FlockInv' /\ NestInv'
        BY FrameInv, Zenon
    <2>2. TypeOK'
        BY Zenon DEF ProtocolInv, TypeOK
    <2>3. ViewInv'
        BY Zenon DEF ProtocolInv, ViewInv, GenerationInv, GoodView, NewGeneration
    <2>4. NoLostWakeup'
        BY Zenon DEF ProtocolInv, NoLostWakeup, Ready, Closed
    <2> QED
        BY <2>1, <2>2, <2>3, <2>4, Zenon DEF ProtocolInv
<1> QED
    BY <1>1, <1>2, <1>3, <1>4, <1>5, <1>6, Zenon DEF Next, CallStep

(* What holds of a removal while the calls that make none move, and no     *)
(* view is refreshed but under the refresh lock.                           *)
LEMMA RemovalFrame ==
    ASSUME TypeOK, RemovalInv, NEW c,
           c \in Sweeps => detached[c] = {},
           \A d \in Sweeps : d # c => pc'[d] = pc[d],
           UNCHANGED <<detached, closed>>,
           \/ view' = view
           \/ \E s \in Stores : ~Removing(s) /\ view' = [view EXCEPT ![s] = dir]
    PROVE  RemovalInv'
<1> SUFFICES ASSUME NEW d \in Sweeps, detached'[d] # {}
             PROVE  /\ pc'[d] \in {"sweeping", "paused"} /\ StoreOf[d] \notin closed'
                    /\ detached'[d] \cap view'[StoreOf[d]] = {}
    BY Zenon DEF RemovalInv
<1>1. d # c /\ detached[d] # {} /\ pc'[d] = pc[d]
    BY Zenon
<1>2. /\ pc[d] \in {"sweeping", "paused"} /\ StoreOf[d] \notin closed
      /\ detached[d] \cap view[StoreOf[d]] = {}
    BY <1>1, Zenon DEF RemovalInv
<1>3. view'[StoreOf[d]] = view[StoreOf[d]]
    <2>1. StoreOf[d] \in Stores
        BY CallsAssumption, Zenon DEF Calls
    <2> QED
        BY <1>1, <2>1, Zenon DEF TypeOK, Removing
<1> QED
    BY <1>1, <1>2, <1>3, Zenon

(* A sweep that moves on has nothing left to unlink. *)
LEMMA SweepsMoveDone ==
    ASSUME RemovalInv, NEW c \in Sweeps, SweepStep(c)
    PROVE  detached[c] = {}
<1>1. pc[c] \notin {"sweeping", "paused"} => detached[c] = {}
    BY Zenon DEF RemovalInv
<1>2. CallSweep(c) \/ JoinExclusive(c) \/ BlockSpans(c) \/ Drained(c) \/ PollExclusive(c)
      => pc[c] \notin {"sweeping", "paused"}
    BY Zenon DEF CallSweep, JoinExclusive, BlockSpans, Drained, PollExclusive, Proceed
<1>3. BumpRead(c) \/ BumpWrite(c) \/ RefreshExclusive(c) \/ FailExclusive(c) \/ EndExclusive(c)
      => pc[c] \notin {"sweeping", "paused"}
    BY Zenon DEF BumpRead, BumpWrite, RefreshExclusive, FailExclusive, EndExclusive
<1>4. BlockPause(c) \/ PauseLocal(c) \/ Timeout(c) => pc[c] \notin {"sweeping", "paused"}
    BY Zenon DEF BlockPause, PauseLocal, Timeout
<1>5. EndNested(c) \/ BlockEnd(c) \/ CallPause(c) \/ ResumeLocal(c) => detached[c] = {}
    BY Zenon DEF EndNested, BlockEnd, CallPause, ResumeLocal
<1> QED
    BY <1>1, <1>2, <1>3, <1>4, <1>5, Zenon DEF SweepStep

(* What is being removed stays out of the view until it is gone. *)
LEMMA NextRemoval ==
    ASSUME IInv, [Next]_vars
    PROVE  RemovalInv'
<1> TypeOK /\ RemovalInv
    BY Zenon DEF IInv, ProtocolInv
<1>0. StoreOf \in [Calls -> Stores] /\ Sweeps \subseteq Calls /\ Spans \cap Sweeps = {}
    BY CallsAssumption, Zenon DEF Calls
<1> USE DEF mapped, disk
<1>1. ASSUME NEW c \in Spans, SpanStep(c) PROVE RemovalInv'
    <2>1. c \notin Sweeps /\ StoreOf[c] \in Stores
        BY <1>0, Zenon DEF Calls
    <2>2. /\ \A d \in Sweeps : d # c => pc'[d] = pc[d]
          /\ UNCHANGED <<detached, closed>>
          /\ \/ view' = view
             \/ ~Removing(StoreOf[c]) /\ view' = [view EXCEPT ![StoreOf[c]] = dir]
        <3>1. CASE LookShared(c)
            BY <1>0, <3>1, Zenon DEF LookShared, Goto, TypeOK
        <3>2. CASE ~LookShared(c)
            BY <1>0, <1>1, <3>2, Zenon DEF SpanStep, CallSpan, JoinShared, FirstShared,
               PollShared, FailShared, EndShared, Goto, TypeOK
        <3> QED
            BY <3>1, <3>2
    <2> QED
        BY <2>1, <2>2, RemovalFrame, Zenon
<1>2. ASSUME NEW c \in Sweeps, SweepStep(c) PROVE RemovalInv'
    <2>1. detached[c] = {} /\ StoreOf[c] \in Stores
        BY <1>0, <1>2, SweepsMoveDone, Zenon
    <2>2. /\ \A d \in Sweeps : d # c => pc'[d] = pc[d]
          /\ UNCHANGED <<detached, closed>>
          /\ \/ view' = view
             \/ ~Removing(StoreOf[c]) /\ view' = [view EXCEPT ![StoreOf[c]] = dir]
        <3> USE DEF Goto, TypeOK
        <3>1. CASE CallSweep(c) \/ JoinExclusive(c) \/ BlockSpans(c) \/ Drained(c)
                   \/ PollExclusive(c) \/ BumpRead(c) \/ BumpWrite(c)
            BY <1>0, <3>1, Zenon DEF CallSweep, JoinExclusive, BlockSpans, Drained,
               PollExclusive, BumpRead, BumpWrite
        <3>2. CASE RefreshExclusive(c) \/ FailExclusive(c) \/ EndNested(c) \/ BlockEnd(c)
                   \/ EndExclusive(c)
            BY <1>0, <3>2, Zenon DEF RefreshExclusive, FailExclusive, EndNested, BlockEnd,
               EndExclusive
        <3>3. CASE CallPause(c) \/ BlockPause(c) \/ PauseLocal(c) \/ ResumeLocal(c)
                   \/ Timeout(c)
            BY <1>0, <3>3, Zenon DEF CallPause, BlockPause, PauseLocal, ResumeLocal, Timeout
        <3> QED
            BY <1>2, <3>1, <3>2, <3>3, Zenon DEF SweepStep
    <2> QED
        BY <2>1, <2>2, RemovalFrame, Zenon
<1>3. ASSUME NEW c \in Calls, Sleep(c) \/ GiveUp(c) PROVE RemovalInv'
    <2>1. CASE Sleep(c)
        BY <2>1, Zenon DEF Sleep, RemovalInv
    <2>2. CASE GiveUp(c)
        <3>1. c \in Sweeps => detached[c] = {}
            BY <2>2, Zenon DEF GiveUp, RemovalInv
        <3>2. /\ \A d \in Sweeps : d # c => pc'[d] = pc[d]
              /\ UNCHANGED <<detached, closed, view>>
            BY <1>0, <2>2, Zenon DEF GiveUp, Goto, TypeOK
        <3> QED
            BY <3>1, <3>2, RemovalFrame, Zenon
    <2> QED
        BY <1>3, <2>1, <2>2
<1>4. ASSUME NEW c \in Sweeps, NEW gs \in SUBSET Segments, Detach(c, gs) PROVE RemovalInv'
    <2> SUFFICES ASSUME NEW d \in Sweeps, detached'[d] # {}
                 PROVE  /\ pc'[d] \in {"sweeping", "paused"} /\ StoreOf[d] \notin closed'
                        /\ detached'[d] \cap view'[StoreOf[d]] = {}
        BY Zenon DEF RemovalInv
    <2>1. /\ pc[c] \in {"sweeping", "paused"} /\ StoreOf[c] \notin closed /\ ~Removing(StoreOf[c])
          /\ view' = [view EXCEPT ![StoreOf[c]] = @ \ gs]
          /\ detached' = [detached EXCEPT ![c] = gs] /\ UNCHANGED <<pc, closed>>
        BY <1>4, Zenon DEF Detach
    <2>2. StoreOf[c] \in Stores /\ StoreOf[d] \in Stores
        BY <1>0, Zenon
    <2>3. CASE d = c
        <3>1. detached'[d] = gs /\ view'[StoreOf[d]] = view[StoreOf[d]] \ gs
            BY <2>1, <2>2, <2>3, Zenon DEF TypeOK
        <3> QED
            BY <2>1, <2>3, <3>1, Zenon
    <2>4. CASE d # c
        <3>1. detached'[d] = detached[d]
            BY <2>1, <2>4, Zenon DEF TypeOK
        <3>2. StoreOf[d] # StoreOf[c]
            BY <2>1, <3>1, Zenon DEF Removing
        <3>3. view'[StoreOf[d]] = view[StoreOf[d]]
            BY <2>1, <2>2, <3>2, Zenon DEF TypeOK
        <3> QED
            BY <2>1, <3>1, <3>3, Zenon DEF RemovalInv
    <2> QED
        BY <2>3, <2>4
<1>5. ASSUME NEW c \in Sweeps, NEW g \in Segments, Unlink(c, g) \/ UnlinkFails(c, g)
      PROVE  RemovalInv'
    <2>1. UNCHANGED <<pc, closed, view>> /\ detached' = [detached EXCEPT ![c] = @ \ {g}]
        BY <1>5, Zenon DEF Unlink, UnlinkFails
    <2>2. \A d \in Sweeps : detached'[d] \subseteq detached[d]
        BY <2>1, Zenon DEF TypeOK
    <2> QED
        BY <2>1, <2>2, Zenon DEF RemovalInv
<1>6. ASSUME NEW c \in Calls, NEW g \in Segments, Create(c, g) PROVE RemovalInv'
    <2>1. /\ ~Removing(StoreOf[c]) /\ view' = [view EXCEPT ![StoreOf[c]] = @ \cup {g}]
          /\ UNCHANGED <<pc, closed, detached>>
        BY <1>6, Zenon DEF Create
    <2>2. \A d \in Sweeps : detached[d] # {} => view'[StoreOf[d]] = view[StoreOf[d]]
        BY <1>0, <2>1, Zenon DEF Removing, TypeOK
    <2> QED
        BY <2>1, <2>2, Zenon DEF RemovalInv
<1>7. ASSUME NEW s \in Stores, ReaderRefresh(s) PROVE RemovalInv'
    <2>1. /\ ~Removing(s) /\ view' = [view EXCEPT ![s] = dir]
          /\ UNCHANGED <<pc, closed, detached>>
        BY <1>7, Zenon DEF ReaderRefresh
    <2>2. \A d \in Sweeps : detached[d] # {} => view'[StoreOf[d]] = view[StoreOf[d]]
        BY <1>0, <2>1, Zenon DEF Removing, TypeOK
    <2> QED
        BY <2>1, <2>2, Zenon DEF RemovalInv
<1>8. ASSUME NEW s \in Stores, OrderlyClose(s) PROVE RemovalInv'
    BY <1>8, Zenon DEF OrderlyClose, Close, Removing, RemovalInv
<1>9. ASSUME NEW s \in Stores, Restart(s) PROVE RemovalInv'
    <2> SUFFICES ASSUME NEW d \in Sweeps, detached'[d] # {}
                 PROVE  /\ pc'[d] \in {"sweeping", "paused"} /\ StoreOf[d] \notin closed'
                        /\ detached'[d] \cap view'[StoreOf[d]] = {}
        BY Zenon DEF RemovalInv
    <2>1. /\ view' = [view EXCEPT ![s] = dir] /\ closed' = closed \ {s}
          /\ pc' = [c \in Calls |-> IF StoreOf[c] = s THEN "idle" ELSE pc[c]]
          /\ detached' = [c \in Sweeps |-> IF StoreOf[c] = s THEN {} ELSE detached[c]]
        BY <1>9, Zenon DEF Restart
    <2>2. StoreOf[d] # s /\ detached'[d] = detached[d]
        BY <2>1, Zenon
    <2>3. StoreOf[d] \in Stores /\ pc'[d] = pc[d] /\ view'[StoreOf[d]] = view[StoreOf[d]]
        BY <1>0, <2>1, <2>2, Zenon DEF TypeOK
    <2> QED
        BY <2>1, <2>2, <2>3, Zenon DEF RemovalInv
<1>10. ASSUME UNCHANGED vars PROVE RemovalInv'
    BY <1>10, Zenon DEF vars, RemovalInv
<1> QED
    BY <1>1, <1>2, <1>3, <1>4, <1>5, <1>6, <1>7, <1>8, <1>9, <1>10, Zenon
       DEF Next, CallStep, SegmentStep

(* The invariant survives every step, whoever takes it. *)
LEMMA NextInv ==
    ASSUME IInv, [Next]_vars
    PROVE  IInv'
    BY NextProtocol, NextRemoval, Zenon DEF IInv

(* The gate's state is consistent at all times: its counters, flags and    *)
(* sleepers, the kernel's locks and the generations agree (gate.rs State). *)
THEOREM GateInvariant == Spec => []IInv
    BY InitInv, NextInv, PTL DEF Spec

(* The gate's state, and every call's, always has its type (State). *)
THEOREM GateTypes == Spec => []TypeOK
<1>1. IInv => TypeOK
    BY Zenon DEF IInv, ProtocolInv
<1> QED
    BY <1>1, GateInvariant, PTL

(* A call that holds the gate is counted on its own store. *)
LEMMA InFlight ==
    ASSUME IInv
    PROVE  /\ \A c \in OpenSpans : /\ StoreOf[c] \in Stores
                                   /\ shared[StoreOf[c]] > 0
           /\ \A c \in Sweeping : /\ StoreOf[c] \in Stores
                                  /\ exclusive[StoreOf[c]] > 0
<1>1. \A c \in Calls : StoreOf[c] \in Stores
    BY CallsAssumption, Zenon
<1>2. shared \in [Stores -> Nat] /\ exclusive \in [Stores -> Nat] /\ TypeOK /\ CountInv
    BY Zenon DEF IInv, ProtocolInv, TypeOK
<1>3. \A c \in OpenSpans : shared[StoreOf[c]] # 0
    BY <1>1, <1>2, Counted, Zenon DEF OpenSpans, Calls
<1>4. \A c \in Sweeping : exclusive[StoreOf[c]] # 0
    BY <1>1, <1>2, Counted, Zenon DEF Sweeping, Calls
<1> QED
    BY <1>1, <1>2, <1>3, <1>4 DEF OpenSpans, Sweeping, Calls

(* Nobody changes the file lock's state while a span or a sweep is in      *)
(* flight (State::busy).                                                   *)
LEMMA HeldNotBusy ==
    ASSUME IInv, NEW s \in Stores, shared[s] > 0 \/ exclusive[s] > 0
    PROVE  s \notin busy
<1> SUFFICES ASSUME s \in busy
             PROVE  FALSE
    OBVIOUS
<1>1. PICK c \in Calls : StoreOf[c] = s /\ pc[c] \in TakingLock
    BY Zenon DEF IInv, ProtocolInv, BusyInv, BusyHeld
<1>2. shared[s] = 0 /\ exclusive[s] = 0
    BY <1>1, Zenon DEF IInv, ProtocolInv, BusyInv, TakerAlone
<1>3. ~(0 > 0)
    OBVIOUS
<1> QED
    BY <1>2, <1>3, Zenon

(* While a store sweeps no other store writes or sweeps: begin_exclusive   *)
(* and begin_shared, with whatever interleaving of threads, closes and     *)
(* crashes.                                                                *)
THEOREM SweepIsExclusive == Spec => []SweepExcludesOthers
<1>1. ASSUME IInv
      PROVE  SweepExcludesOthers
    <2> SUFFICES ASSUME NEW c \in Sweeping, NEW d \in OpenSpans \cup Sweeping,
                        StoreOf[c] # StoreOf[d], ~Closed(c), ~Closed(d)
                 PROVE  FALSE
        BY Zenon DEF SweepExcludesOthers
    <2>1. StoreOf[c] \in Stores \ closed /\ exclusive[StoreOf[c]] > 0
        BY <1>1, InFlight, Zenon DEF Closed
    <2>2. /\ StoreOf[d] \in Stores \ closed
          /\ shared[StoreOf[d]] > 0 \/ exclusive[StoreOf[d]] > 0
        BY <1>1, InFlight, Zenon DEF Closed
    <2>3. flock[StoreOf[c]] = "exclusive"
        BY <1>1, <2>1, Zenon DEF IInv, ProtocolInv, FlockInv, FlockBelieved
    <2>4. flock[StoreOf[d]] # "none"
        <3>1. exclusive[StoreOf[d]] \in Nat
            BY <1>1, <2>2, Zenon DEF IInv, ProtocolInv, TypeOK
        <3> QED
            BY <1>1, <2>2, <3>1 DEF IInv, ProtocolInv, FlockInv, FlockBelieved
    <2> QED
        BY <1>1, <2>1, <2>2, <2>3, <2>4, Zenon DEF IInv, ProtocolInv, FlockInv, FlockExcludes
<1> QED
    BY <1>1, GateInvariant, PTL

(* compact deletes while no write of any open store, its own included, is  *)
(* in flight (pause_local).                                                *)
THEOREM CompactionIsAlone == Spec => []CompactsAlone
<1>1. ASSUME IInv, SweepExcludesOthers
      PROVE  CompactsAlone
    <2> SUFFICES ASSUME NEW c \in Sweeping, pc[c] = "paused", ~Closed(c),
                        NEW d \in OpenSpans, ~Closed(d)
                 PROVE  FALSE
        BY Zenon DEF CompactsAlone
    <2>1. StoreOf[c] = StoreOf[d]
        BY <1>1, Zenon DEF SweepExcludesOthers
    <2>2. shared[StoreOf[c]] = 0
        BY <1>1, Zenon DEF IInv, ProtocolInv, BlockedInv, BlockerState, Closed, Sweeping, Calls
    <2> QED
        BY <1>1, <2>1, <2>2, InFlight
<1> QED
    BY <1>1, GateInvariant, SweepIsExclusive, PTL

(* Inside a span the view holds only segments that are there, so that a    *)
(* duplicate check can be relied on (begin_shared).                        *)
THEOREM SpanViewsAreLive == Spec => []SpanViewIsLive
<1>1. ASSUME IInv
      PROVE  SpanViewIsLive
    <2> SUFFICES ASSUME NEW c \in OpenSpans, ~Closed(c)
                 PROVE  view[StoreOf[c]] \subseteq dir
        BY Zenon DEF SpanViewIsLive
    <2>1. StoreOf[c] \in Stores \ closed /\ shared[StoreOf[c]] > 0
        BY <1>1, InFlight, Zenon DEF Closed
    <2> QED
        BY <1>1, <2>1, Zenon DEF IInv, ProtocolInv, ViewInv, GoodView
<1> QED
    BY <1>1, GateInvariant, PTL

(* Nobody sleeps on the condition variable past what it waits for (every   *)
(* change notifies).                                                       *)
THEOREM NoWakeupIsLost == Spec => []NoLostWakeup
<1>1. IInv => NoLostWakeup
    BY Zenon DEF IInv, ProtocolInv
<1> QED
    BY <1>1, GateInvariant, PTL

(* A write inside an open span never waits for the gate (begin_shared). *)
THEOREM NestedSpansNeverWait == Spec => []NestedNeverWaits
<1>1. ASSUME IInv
      PROVE  NestedNeverWaits
    <2> SUFFICES ASSUME NEW c \in Spans, pc[c] = "wantShared", Outer[c] # {}, ~Closed(c)
                 PROVE  Ready(c) /\ (exclusive[StoreOf[c]] > 0 \/ StoreOf[c] \in flocked)
        BY Zenon DEF NestedNeverWaits
    <2>1. PICK o \in Outer[c] : o \in Spans /\ StoreOf[o] = StoreOf[c]
        BY CallsAssumption, Zenon DEF Calls
    <2>2. pc[o] = "open"
        BY <1>1, <2>1, Zenon DEF IInv, ProtocolInv, NestInv, Calls
    <2>3. StoreOf[c] \in Stores \ closed /\ shared[StoreOf[c]] > 0
        BY <1>1, <2>1, <2>2, InFlight, Zenon DEF OpenSpans, OpenStates, Closed
    <2>4. StoreOf[c] \notin busy
        BY <1>1, <2>3, HeldNotBusy, Zenon
    <2>5. exclusive[StoreOf[c]] > 0 \/ StoreOf[c] \in flocked
        BY <1>1, <2>3 DEF IInv, ProtocolInv, TypeOK, FlockInv, FlockBelieved
    <2> QED
        BY <2>3, <2>4, <2>5, Zenon DEF Ready
<1> QED
    BY <1>1, GateInvariant, PTL

(* The last sweep to be dropped finds busy and blocked clear, so that the  *)
(* depth it read is still the depth (end_exclusive).                       *)
THEOREM EndsNeverWait == Spec => []EndNeverWaits
<1>1. ASSUME IInv
      PROVE  EndNeverWaits
    <2> SUFFICES ASSUME NEW c \in Sweeping, pc[c] = "sweeping",
                        exclusive[StoreOf[c]] <= 1, ~Closed(c)
                 PROVE  StoreOf[c] \notin busy /\ StoreOf[c] \notin blocked
        BY Zenon DEF EndNeverWaits
    <2>1. StoreOf[c] \in Stores \ closed /\ exclusive[StoreOf[c]] > 0
        BY <1>1, InFlight, Zenon DEF Closed
    <2>2. StoreOf[c] \notin busy /\ exclusive[StoreOf[c]] # 0
        BY <1>1, <2>1, HeldNotBusy
    <2>3. ASSUME StoreOf[c] \in blocked
          PROVE  FALSE
        <3>1. PICK d \in Calls : StoreOf[d] = StoreOf[c] /\ pc[d] \in Blocking
            BY <1>1, <2>1, <2>3, Zenon DEF IInv, ProtocolInv, BlockedInv, BlockedHeld
        <3>2. pc[d] \notin BusyExclusive
            BY <1>1, <2>1, <2>2, <3>1, Zenon DEF IInv, ProtocolInv, BusyInv, TakerAlone, TakingLock
        <3>3. pc[d] # "drain"
            BY <1>1, <2>1, <2>2, <3>1, Zenon DEF IInv, ProtocolInv, BlockedInv, BlockerState
        <3>4. pc[d] \in SweepStates /\ d \in Sweeps
            BY <1>1, <3>1, <3>2, <3>3, Zenon
               DEF Blocking, SweepStates, IInv, ProtocolInv, TypeOK, SpanPc, Calls
        <3>5. c \in Sweeps /\ pc[c] \in SweepStates /\ pc[c] \notin Blocking
            BY Zenon DEF Sweeping, Blocking, BusyExclusive
        <3> QED
            BY <1>1, <2>1, <3>1, <3>4, <3>5, CountedOnce, Zenon DEF IInv, ProtocolInv
    <2> QED
        BY <2>2, <2>3, Zenon
<1> QED
    BY <1>1, GateInvariant, PTL

-----------------------------------------------------------------------------
(* The gate implements SweepLock.                                          *)

Modes == [s \in Stores |-> ModeOf(s)]

(* Where nothing SweepLock sees has changed. *)
LEMMA SameModes ==
    ASSUME UNCHANGED closed,
           \A s \in Stores : s \notin closed =>
               /\ exclusive'[s] > 0 <=> exclusive[s] > 0
               /\ exclusive[s] > 0 \/ (shared'[s] > 0 <=> shared[s] > 0)
    PROVE  Modes' = Modes
<1>1. \A s \in Stores : ModeOf(s)' = ModeOf(s)
    BY Zenon DEF ModeOf
<1> QED
    BY <1>1, Zenon DEF Modes

(* A step that changes neither counters, directory nor views. *)
LEMMA Unseen ==
    ASSUME UNCHANGED <<counts, closed, dir, view>>
    PROVE  UNCHANGED <<Modes, dir, view>>
<1>1. UNCHANGED <<shared, exclusive, closed, dir, view>>
    BY Zenon DEF counts
<1> QED
    BY <1>1, SameModes, Zenon

(* A step that changes what one store does. *)
LEMMA OneMode ==
    ASSUME NEW s \in Stores, NEW m,
           \A o \in Stores : o # s => /\ exclusive'[o] = exclusive[o] /\ shared'[o] = shared[o]
                                      /\ o \in closed' <=> o \in closed,
           ModeOf(s)' = m
    PROVE  Modes' = [Modes EXCEPT ![s] = m]
<1>1. \A o \in Stores : ModeOf(o)' = IF o = s THEN m ELSE ModeOf(o)
    BY Zenon DEF ModeOf
<1>2. PICK f : f = [Modes EXCEPT ![s] = m]
    BY Zenon
<1>3. f = [o \in Stores |-> IF o = s THEN m ELSE ModeOf(o)]
    BY <1>2, Zenon DEF Modes
<1> QED
    BY <1>1, <1>2, <1>3, Zenon DEF Modes

(* What the invariant says of the counters. *)
LEMMA Counters ==
    ASSUME IInv, NEW s \in Stores
    PROVE  /\ shared \in [Stores -> Nat] /\ exclusive \in [Stores -> Nat]
           /\ shared[s] \in Nat /\ exclusive[s] \in Nat
           /\ closed \in SUBSET Stores /\ view \in [Stores -> SUBSET Segments]
BY Zenon DEF IInv, ProtocolInv, TypeOK

(* A store that is busy with the file lock is out. *)
LEMMA TakerIsOut ==
    ASSUME IInv, NEW c \in Calls, pc[c] \in TakingLock
    PROVE  StoreOf[c] \in Stores /\ ModeOf(StoreOf[c]) = "out"
<1>1. StoreOf[c] \in Stores
    BY CallsAssumption, Zenon
<1>2. shared[StoreOf[c]] = 0 /\ exclusive[StoreOf[c]] = 0
    BY Zenon DEF IInv, ProtocolInv, BusyInv, TakerAlone
<1>3. ~(0 > 0)
    OBVIOUS
<1> QED
    BY <1>1, <1>2, <1>3, Zenon DEF ModeOf

(* A store that sweeps, or writes, has its flock. *)
LEMMA ModeFlock ==
    ASSUME IInv, NEW s \in Stores
    PROVE  /\ ModeOf(s) = "sweep" => flock[s] = "exclusive"
           /\ ModeOf(s) # "out" => flock[s] # "none"
<1>1. CASE s \in closed
    <2>1. ModeOf(s) = "out" /\ "out" # "sweep"
        BY <1>1, Zenon DEF ModeOf
    <2> QED
        BY <2>1, Zenon
<1>2. CASE s \notin closed /\ exclusive[s] > 0
    <2>1. flock[s] = "exclusive" /\ "exclusive" # "none"
        BY <1>2, Zenon DEF IInv, ProtocolInv, FlockInv, FlockBelieved
    <2> QED
        BY <2>1, Zenon
<1>3. CASE s \notin closed /\ ~(exclusive[s] > 0) /\ shared[s] > 0
    <2>1. exclusive[s] = 0
        BY <1>3, Counters
    <2>2. flock[s] = "shared"
        BY <1>3, <2>1, Zenon DEF IInv, ProtocolInv, FlockInv, FlockBelieved
    <2>3. ModeOf(s) = "write" /\ "write" # "sweep" /\ "shared" # "none"
        BY <1>3, Zenon DEF ModeOf
    <2> QED
        BY <2>2, <2>3, Zenon
<1>4. CASE s \notin closed /\ ~(exclusive[s] > 0) /\ ~(shared[s] > 0)
    <2>1. ModeOf(s) = "out" /\ "out" # "sweep"
        BY <1>4, Zenon DEF ModeOf
    <2> QED
        BY <2>1, Zenon
<1> QED
    BY <1>1, <1>2, <1>3, <1>4

(* What a step of the gate that detaches nothing is to SweepLock. *)
LockStep ==
    \/ \E s \in Stores :
          \/ SL!BeginWrite(s) \/ SL!BeginSweep(s) \/ SL!Leave(s) \/ SL!Look(s)
          \/ \E g \in Segments : SL!Create(s, g) \/ SL!Unlink(s, g)
    \/ UNCHANGED <<Modes, dir, view>>

(* A store that leaves. *)
LEMMA Leaves ==
    ASSUME NEW s \in Stores, ModeOf(s)' = "out", dir' = dir,
           view' = view \/ view' = [view EXCEPT ![s] = dir],
           \A o \in Stores : o # s => /\ exclusive'[o] = exclusive[o] /\ shared'[o] = shared[o]
                                      /\ o \in closed' <=> o \in closed
    PROVE  LockStep
<1>1. Modes' = [Modes EXCEPT ![s] = "out"]
    BY OneMode, Zenon
<1>2. SL!Leave(s)
    BY <1>1, Zenon DEF SL!Leave, SL!SetMode, SL!MayLook, Modes
<1> QED
    BY <1>2, Zenon DEF LockStep

(* A span that joins is none of SweepLock's steps. *)
LEMMA JoinSharedLocks ==
    ASSUME IInv, NEW c \in Spans, JoinShared(c)
    PROVE  LockStep
<1>1. PICK s : s = StoreOf[c]
    BY Zenon
<1>2. s \in Stores /\ s \notin closed /\ (exclusive[s] > 0 \/ s \in flocked)
      /\ shared' = [shared EXCEPT ![s] = @ + 1]
      /\ UNCHANGED <<exclusive, closed, dir, view>>
    BY <1>1, CallsAssumption, Zenon DEF JoinShared, Calls, disk, mapped
<1>3. s \in flocked => shared[s] > 0
    BY <1>2, Zenon DEF IInv, ProtocolInv, FlockInv, FlockBelieved
<1>4. shared'[s] = shared[s] + 1 /\ \A o \in Stores : o # s => shared'[o] = shared[o]
    BY <1>2, Counters, Zenon
<1>5. shared[s] > 0 => shared'[s] > 0
    BY <1>2, <1>4, Counters
<1>6. Modes' = Modes
    BY <1>2, <1>3, <1>4, <1>5, SameModes, Zenon
<1> QED
    BY <1>2, <1>6, Zenon DEF LockStep

(* A first span begins a write: no other store sweeps, and its view is     *)
(* live.                                                                   *)
LEMMA LookSharedLocks ==
    ASSUME IInv, NEW c \in Spans, LookShared(c)
    PROVE  LockStep
<1>1. PICK s, moved : s = StoreOf[c] /\ moved = (gen # generation[s] \/ s \notin looked)
    BY Zenon
<1>2. /\ pc[c] = "look" /\ (moved => s \notin closed)
      /\ view' = IF moved THEN [view EXCEPT ![s] = dir] ELSE view
      /\ shared' = [shared EXCEPT ![s] = 1]
      /\ UNCHANGED <<exclusive, closed, dir>>
    BY <1>1, Zenon DEF LookShared, disk
<1>3. c \in Calls /\ pc[c] \in TakingLock
    BY <1>2, Zenon DEF Calls, TakingLock, BusyShared
<1>4. s \in Stores /\ ModeOf(s) = "out" /\ exclusive[s] = 0
    BY <1>1, <1>3, TakerIsOut, Zenon DEF IInv, ProtocolInv, BusyInv, TakerAlone
<1>5. shared'[s] = 1 /\ \A o \in Stores : o # s => shared'[o] = shared[o]
    BY <1>2, <1>4, Counters, Zenon
<1>6. CASE s \in closed
    <2>1. view' = view
        BY <1>2, <1>6, Zenon
    <2>2. ModeOf(s)' = "out"
        BY <1>2, <1>6, Zenon DEF ModeOf
    <2> QED
        BY <1>2, <1>4, <1>5, <2>1, <2>2, Leaves, Zenon
<1>7. CASE s \notin closed
    <2>1. 1 > 0 /\ ~(0 > 0)
        OBVIOUS
    <2>2. ModeOf(s)' = "write"
        BY <1>2, <1>4, <1>5, <1>7, <2>1, Zenon DEF ModeOf
    <2>3. Modes' = [Modes EXCEPT ![s] = "write"]
        BY <1>2, <1>4, <1>5, <2>2, OneMode, Zenon
    <2>4. flock[s] = "shared" /\ "shared" # "none"
        BY <1>1, <1>2, <1>3, <1>7, Zenon DEF IInv, ProtocolInv, FlockInv, FlockTaken
    <2>5. \A o \in Stores \ {s} : ModeOf(o) # "sweep"
        BY <1>4, <2>4, ModeFlock, Zenon DEF IInv, ProtocolInv, FlockInv, FlockExcludes
    <2>6. view' = view \/ view' = [view EXCEPT ![s] = dir]
        BY <1>2, Zenon
    <2>7. view'[s] \subseteq dir
        <3>1. CASE moved
            BY <1>2, <1>4, <3>1, Counters, Zenon
        <3>2. CASE ~moved
            BY <1>1, <1>2, <1>4, <1>7, <3>2, Zenon DEF IInv, ProtocolInv, ViewInv, GoodView
        <3> QED
            BY <3>1, <3>2
    <2>8. Modes[s] = "out" /\ \A o \in Stores \ {s} : Modes[o] # "sweep"
        BY <1>4, <2>5, Zenon DEF Modes
    <2>9. SL!BeginWrite(s)
        BY <1>2, <2>3, <2>6, <2>7, <2>8, Zenon DEF SL!BeginWrite, SL!SetMode, SL!MayLook, Modes
    <2> QED
        BY <1>4, <2>9, Zenon DEF LockStep
<1> QED
    BY <1>6, <1>7

(* The last span leaves; one that is not the last is not seen. *)
LEMMA EndSharedLocks ==
    ASSUME IInv, NEW c \in Spans, EndShared(c)
    PROVE  LockStep
<1>1. PICK s : s = StoreOf[c]
    BY Zenon
<1>2. pc[c] = "open" /\ shared' = [shared EXCEPT ![s] = @ - 1]
      /\ UNCHANGED <<exclusive, closed, dir, view>>
    BY <1>1, Zenon DEF EndShared, disk, mapped
<1>3. c \in OpenSpans
    BY <1>2, Zenon DEF OpenSpans, OpenStates
<1>4. s \in Stores /\ shared[s] > 0
    BY <1>1, <1>3, InFlight, Zenon
<1>5. shared'[s] = shared[s] - 1 /\ \A o \in Stores : o # s => shared'[o] = shared[o]
    BY <1>2, <1>4, Counters, Zenon
<1>6. CASE exclusive[s] > 0 \/ shared'[s] > 0
    <2>1. Modes' = Modes
        BY <1>2, <1>4, <1>5, <1>6, SameModes, Zenon
    <2> QED
        BY <1>2, <2>1, Zenon DEF LockStep
<1>7. CASE ~(exclusive[s] > 0) /\ ~(shared'[s] > 0)
    <2>1. ModeOf(s)' = "out"
        BY <1>2, <1>7, Zenon DEF ModeOf
    <2> QED
        BY <1>2, <1>4, <1>5, <2>1, Leaves, Zenon
<1> QED
    BY <1>6, <1>7


(* A sweep inside a sweep is not seen, neither its begin nor its end. *)
LEMMA NestedLocks ==
    ASSUME IInv, NEW c \in Sweeps, JoinExclusive(c) \/ EndNested(c)
    PROVE  LockStep
<1>1. PICK s : s = StoreOf[c]
    BY Zenon
<1>2. /\ s \in Stores /\ exclusive[s] > 0 /\ UNCHANGED <<shared, closed, dir, view>>
      /\ \/ exclusive' = [exclusive EXCEPT ![s] = @ + 1]
         \/ exclusive[s] > 1 /\ exclusive' = [exclusive EXCEPT ![s] = @ - 1]
    <2>1. s \in Stores
        BY <1>1, CallsAssumption, Zenon DEF Calls
    <2>2. exclusive[s] > 1 => exclusive[s] > 0
        BY <2>1, Counters
    <2> QED
        BY <1>1, <2>1, <2>2, Zenon DEF JoinExclusive, EndNested, disk, mapped
<1>3. \A o \in Stores : o # s => exclusive'[o] = exclusive[o]
    BY <1>2, Counters, Zenon
<1>4. exclusive'[s] = exclusive[s] + 1 \/ (exclusive[s] > 1 /\ exclusive'[s] = exclusive[s] - 1)
    BY <1>2, Counters, Zenon
<1>5. exclusive'[s] > 0
    BY <1>2, <1>4, Counters
<1>6. Modes' = Modes
    BY <1>2, <1>3, <1>5, SameModes, Zenon
<1> QED
    BY <1>2, <1>6, Zenon DEF LockStep

(* A sweep begins while every store is out, with the directory as its view. *)
LEMMA RefreshExclusiveLocks ==
    ASSUME IInv, NEW c \in Sweeps, RefreshExclusive(c)
    PROVE  LockStep
<1>1. PICK s : s = StoreOf[c]
    BY Zenon
<1>2. /\ pc[c] = "refresh" /\ s \notin closed /\ view' = [view EXCEPT ![s] = dir]
      /\ exclusive' = [exclusive EXCEPT ![s] = 1] /\ UNCHANGED <<shared, closed, dir>>
    BY <1>1, Zenon DEF RefreshExclusive, disk
<1>3. c \in Calls /\ pc[c] \in TakingLock
    BY <1>2, Zenon DEF Calls, TakingLock, BusyExclusive
<1>4. s \in Stores /\ ModeOf(s) = "out"
    BY <1>1, <1>3, TakerIsOut, Zenon
<1>5. exclusive'[s] = 1 /\ \A o \in Stores : o # s => exclusive'[o] = exclusive[o]
    BY <1>2, <1>4, Counters, Zenon
<1>6. 1 > 0
    OBVIOUS
<1>7. ModeOf(s)' = "sweep"
    BY <1>2, <1>5, <1>6, Zenon DEF ModeOf
<1>8. Modes' = [Modes EXCEPT ![s] = "sweep"]
    BY <1>2, <1>4, <1>5, <1>7, OneMode, Zenon
<1>9. flock[s] = "exclusive"
    BY <1>1, <1>2, <1>3, Zenon DEF IInv, ProtocolInv, FlockInv, FlockTaken
<1>10. \A o \in Stores : ModeOf(o) = "out"
    BY <1>4, <1>9, ModeFlock, Zenon DEF IInv, ProtocolInv, FlockInv, FlockExcludes
<1>11. \A o \in Stores : Modes[o] = "out"
    BY <1>10, Zenon DEF Modes
<1>12. SL!BeginSweep(s)
    BY <1>2, <1>8, <1>11, Zenon DEF SL!BeginSweep, SL!SetMode, Modes
<1> QED
    BY <1>4, <1>12, Zenon DEF LockStep

(* The last sweep leaves, and takes no span of its store with it. *)
LEMMA EndExclusiveLocks ==
    ASSUME IInv, NEW c \in Sweeps, EndExclusive(c)
    PROVE  LockStep
<1>1. PICK s : s = StoreOf[c]
    BY Zenon
<1>2. /\ pc[c] = "drainEnd" /\ (Ready(c) \/ s \in closed)
      /\ exclusive' = [exclusive EXCEPT ![s] = 0] /\ UNCHANGED <<shared, closed, dir, view>>
    BY <1>1, Zenon DEF EndExclusive, disk, mapped
<1>3. s \in Stores
    BY <1>1, CallsAssumption, Zenon DEF Calls
<1>4. exclusive'[s] = 0 /\ \A o \in Stores : o # s => exclusive'[o] = exclusive[o]
    BY <1>2, <1>3, Counters, Zenon
<1>5. s \in closed \/ shared[s] = 0
    BY <1>1, <1>2, Zenon DEF Ready
<1>6. ~(0 > 0)
    OBVIOUS
<1>7. ModeOf(s)' = "out"
    BY <1>2, <1>4, <1>5, <1>6, Zenon DEF ModeOf
<1> QED
    BY <1>2, <1>3, <1>4, <1>7, Leaves, Zenon

(* Who removes segments sweeps. *)
LEMMA RemoverSweeps ==
    ASSUME IInv, NEW c \in Sweeps, pc[c] \in {"sweeping", "paused"}, StoreOf[c] \notin closed,
           UNCHANGED <<counts, closed>>
    PROVE  StoreOf[c] \in Stores /\ Modes' = Modes /\ Modes[StoreOf[c]] = "sweep"
<1>1. pc[c] \in SweepStates /\ UNCHANGED <<shared, exclusive>>
    BY Zenon DEF SweepStates, counts
<1>2. StoreOf[c] \in Stores /\ exclusive[StoreOf[c]] > 0
    BY <1>1, InFlight, Zenon DEF Sweeping
<1> QED
    BY <1>1, <1>2, SameModes, Zenon DEF Modes, ModeOf

(* The victims leave the view of a store that sweeps. *)
LEMMA DetachLocks ==
    ASSUME IInv, NEW c \in Sweeps, NEW gs \in SUBSET Segments, Detach(c, gs)
    PROVE  StoreOf[c] \in Stores /\ SL!Detach(StoreOf[c], gs)
<1>1. /\ pc[c] \in {"sweeping", "paused"} /\ StoreOf[c] \notin closed /\ gs \subseteq view[StoreOf[c]]
      /\ view' = [view EXCEPT ![StoreOf[c]] = @ \ gs]
      /\ UNCHANGED <<counts, closed, dir>>
    BY Zenon DEF Detach, disk
<1>2. StoreOf[c] \in Stores /\ Modes' = Modes /\ Modes[StoreOf[c]] = "sweep"
    BY <1>1, RemoverSweeps, Zenon
<1> QED
    BY <1>1, <1>2, Zenon DEF SL!Detach, Modes

(* What the users of the gate do to the segments. *)
LEMMA SegmentLocks ==
    ASSUME IInv, SegmentStep
    PROVE  LockStep \/ \E c \in Sweeps, gs \in SUBSET Segments : Detach(c, gs)
<1>1. ASSUME NEW c \in Sweeps, NEW g \in Segments, Unlink(c, g) PROVE LockStep
    <2>1. PICK s : s = StoreOf[c]
        BY Zenon
    <2>2. g \in detached[c] /\ dir' = dir \ {g} /\ view' = view /\ UNCHANGED <<counts, closed>>
        BY <1>1, Zenon DEF Unlink
    <2>3. pc[c] \in {"sweeping", "paused"} /\ s \notin closed /\ g \notin view[s]
        BY <2>1, <2>2, Zenon DEF IInv, RemovalInv
    <2>4. s \in Stores /\ Modes' = Modes /\ Modes[s] = "sweep"
        BY <2>1, <2>2, <2>3, RemoverSweeps, Zenon
    <2>5. SL!Unlink(s, g)
        BY <2>2, <2>3, <2>4, Zenon DEF SL!Unlink, Modes
    <2> QED
        BY <2>4, <2>5, Zenon DEF LockStep
<1>4. ASSUME NEW c \in Sweeps, NEW g \in Segments, UnlinkFails(c, g) PROVE LockStep
    <2>1. UNCHANGED <<counts, closed, dir, view>>
        BY <1>4, Zenon DEF UnlinkFails, disk
    <2> QED
        BY <2>1, Unseen, Zenon DEF LockStep
<1>2. ASSUME NEW c \in Calls, NEW g \in Segments, Create(c, g) PROVE LockStep
    <2>1. PICK s : s = StoreOf[c]
        BY Zenon
    <2>2. /\ pc[c] \in {"open", "paused"} /\ s \notin closed /\ g \notin dir
          /\ \A o \in Stores : g \notin view[o]
          /\ dir' = dir \cup {g} /\ view' = [view EXCEPT ![s] = @ \cup {g}]
          /\ UNCHANGED <<shared, exclusive, closed>>
        BY <1>2, <2>1, Zenon DEF Create, counts
    <2>3. c \in OpenSpans \/ c \in Sweeping
        <3>1. "open" \notin SweepPc /\ "paused" \notin SpanPc /\ "paused" \in SweepStates
              /\ "open" \in OpenStates
            BY DEF SweepPc, SpanPc, SweepStates, OpenStates
        <3>2. (c \in Spans => pc[c] \in SpanPc) /\ (c \in Sweeps => pc[c] \in SweepPc)
            BY Zenon DEF IInv, ProtocolInv, TypeOK
        <3> QED
            BY <2>2, <3>1, <3>2, Zenon DEF OpenSpans, Sweeping, Calls
    <2>4. s \in Stores /\ (exclusive[s] > 0 \/ shared[s] > 0)
        BY <2>1, <2>3, InFlight, Zenon
    <2>5. "sweep" # "out" /\ "write" # "out"
        OBVIOUS
    <2>6. Modes' = Modes /\ Modes[s] # "out"
        BY <2>2, <2>4, <2>5, SameModes, Zenon DEF Modes, ModeOf
    <2>7. SL!Create(s, g)
        BY <2>2, <2>6, Zenon DEF SL!Create, Modes
    <2> QED
        BY <2>4, <2>7, Zenon DEF LockStep
<1>3. ASSUME NEW s \in Stores, ReaderRefresh(s) PROVE LockStep
    <2>1. view' = [view EXCEPT ![s] = dir] /\ UNCHANGED <<shared, exclusive, closed, dir>>
        BY <1>3, Zenon DEF ReaderRefresh, counts, disk
    <2>2. Modes' = Modes
        BY <2>1, SameModes, Zenon
    <2>3. SL!Look(s)
        BY <2>1, <2>2, Zenon DEF SL!Look, Modes
    <2> QED
        BY <2>3, Zenon DEF LockStep
<1> QED
    BY <1>1, <1>2, <1>3, <1>4, Zenon DEF SegmentStep

(* A close and a restart: whoever was inside has left. *)
LEMMA StoreLocks ==
    ASSUME IInv, NEW s \in Stores, OrderlyClose(s) \/ Restart(s)
    PROVE  LockStep
<1>1. CASE OrderlyClose(s)
    <2>1. closed' = closed \cup {s} /\ UNCHANGED <<shared, exclusive, dir, view>>
        BY <1>1, Zenon DEF OrderlyClose, Close, counts, disk, mapped
    <2>2. ModeOf(s)' = "out"
        BY <2>1, Zenon DEF ModeOf
    <2> QED
        BY <2>1, <2>2, Leaves, Zenon
<1>2. CASE Restart(s)
    <2>1. /\ shared' = [shared EXCEPT ![s] = 0] /\ exclusive' = [exclusive EXCEPT ![s] = 0]
          /\ closed' = closed \ {s} /\ view' = [view EXCEPT ![s] = dir] /\ dir' = dir
        BY <1>2, Zenon DEF Restart, disk
    <2>2. /\ shared'[s] = 0 /\ exclusive'[s] = 0
          /\ \A o \in Stores : o # s => shared'[o] = shared[o] /\ exclusive'[o] = exclusive[o]
        BY <2>1, Counters, Zenon
    <2>3. ~(0 > 0)
        OBVIOUS
    <2>4. ModeOf(s)' = "out"
        BY <2>2, <2>3, Zenon DEF ModeOf
    <2> QED
        BY <2>1, <2>2, <2>4, Leaves, Zenon
<1> QED
    BY <1>1, <1>2

(* Every step of the gate is one of SweepLock's, or changes nothing it     *)
(* sees.                                                                   *)
LEMMA NextLocks ==
    ASSUME IInv, [Next]_vars
    PROVE  LockStep \/ \E c \in Sweeps, gs \in SUBSET Segments : Detach(c, gs)
<1>1. ASSUME UNCHANGED <<counts, closed, disk, view>> PROVE LockStep
    BY <1>1, Unseen, Zenon DEF LockStep, disk
<1>2. ASSUME NEW c \in Spans, SpanStep(c) PROVE LockStep
    <2>1. CallSpan(c) \/ FirstShared(c) \/ PollShared(c) \/ FailShared(c)
          => UNCHANGED <<counts, closed, disk, view>>
        BY Zenon DEF CallSpan, FirstShared, PollShared, FailShared, mapped
    <2> QED
        BY <1>1, <1>2, <2>1, JoinSharedLocks, LookSharedLocks, EndSharedLocks, Zenon DEF SpanStep
<1>3. ASSUME NEW c \in Sweeps, SweepStep(c) PROVE LockStep
    <2>1. CallSweep(c) \/ BlockSpans(c) \/ Drained(c) \/ PollExclusive(c) \/ BumpRead(c)
          => UNCHANGED <<counts, closed, disk, view>>
        BY Zenon DEF CallSweep, BlockSpans, Drained, PollExclusive, BumpRead, mapped
    <2>2. FailExclusive(c) \/ BlockEnd(c) \/ CallPause(c) \/ BlockPause(c) \/ PauseLocal(c)
          \/ ResumeLocal(c) \/ Timeout(c) => UNCHANGED <<counts, closed, disk, view>>
        BY Zenon DEF FailExclusive, BlockEnd, CallPause, BlockPause, PauseLocal, ResumeLocal,
           Timeout, mapped
    <2>3. BumpWrite(c) => LockStep
        BY Unseen, Zenon DEF BumpWrite, LockStep, mapped
    <2> QED
        BY <1>1, <1>3, <2>1, <2>2, <2>3, NestedLocks, RefreshExclusiveLocks, EndExclusiveLocks,
           Zenon DEF SweepStep
<1>4. ASSUME NEW c \in Calls, Sleep(c) \/ GiveUp(c) PROVE LockStep
    <2>1. UNCHANGED <<counts, closed, disk, view>>
        BY <1>4, Zenon DEF Sleep, GiveUp, mapped
    <2> QED
        BY <1>1, <2>1, Zenon
<1>5. ASSUME UNCHANGED vars PROVE LockStep
    <2>1. UNCHANGED <<counts, closed, disk, view>>
        BY <1>5, Zenon DEF vars, mapped
    <2> QED
        BY <1>1, <2>1, Zenon
<1> QED
    BY <1>2, <1>3, <1>4, <1>5, SegmentLocks, StoreLocks, Zenon DEF Next, CallStep

(* No store writes or sweeps beside one that sweeps. *)
LEMMA SweepsAlone ==
    ASSUME IInv, NEW s \in Stores, NEW o \in Stores, o # s, Modes[s] = "sweep"
    PROVE  Modes[o] = "out"
<1>1. ModeOf(s) = "sweep"
    BY Zenon DEF Modes
<1>2. flock[s] = "exclusive"
    BY <1>1, ModeFlock, Zenon
<1>3. ModeOf(o) = "out"
    BY <1>2, ModeFlock, Zenon DEF IInv, ProtocolInv, FlockInv, FlockExcludes
<1> QED
    BY <1>3, Zenon DEF Modes

(* What a sweep's view misses it took out itself: a sweep starts from the  *)
(* whole directory, and while it lasts a segment is there and not in the   *)
(* view only when a removal of the same store has detached it, its unlink  *)
(* still to come or failed (begin_exclusive, remove_victims, refresh).     *)
THEOREM SweepViewsAreComplete == Spec => SweepViewComplete
<1>1. ASSUME IInv, IInv', [Next]_vars, NEW s \in Stores, ModeOf(s)' = "sweep"
      PROVE  view'[s] \subseteq dir'
    <2>1. s \notin closed' /\ exclusive'[s] > 0
        BY <1>1, Zenon DEF ModeOf
    <2> QED
        BY <1>1, <2>1, Zenon DEF IInv, ProtocolInv, ViewInv, GoodView
<1>2. ASSUME IInv, [Next]_vars, NEW s \in Stores, Modes'[s] = "sweep",
             NEW g \in dir' \ view'[s]
      PROVE  \/ Modes[s] = "sweep" /\ g \in dir \ view[s]
             \/ \E c \in Sweeps : StoreOf[c] = s /\ g \in detached'[c]
    <2>0. /\ view \in [Stores -> SUBSET Segments] /\ detached \in [Sweeps -> SUBSET Segments]
          /\ Modes = [o \in Stores |-> Modes[o]]
        BY <1>2, Zenon DEF IInv, ProtocolInv, TypeOK, Modes
    <2> DEFINE Missed == Modes[s] = "sweep" /\ g \in dir \ view[s]
    <2>1. ASSUME NEW o \in Stores, SL!BeginWrite(o) PROVE FALSE
        <3>1. Modes' = [Modes EXCEPT ![o] = "write"]
              /\ \A q \in Stores \ {o} : Modes[q] # "sweep"
            BY <2>1, Zenon DEF SL!BeginWrite, SL!SetMode, Modes
        <3>2. "write" # "sweep"
            OBVIOUS
        <3> QED
            BY <1>2, <2>0, <3>1, <3>2, Zenon
    <2>2. ASSUME NEW o \in Stores, SL!BeginSweep(o) PROVE FALSE
        <3>1. /\ Modes' = [Modes EXCEPT ![o] = "sweep"] /\ \A q \in Stores : Modes[q] = "out"
              /\ view' = [view EXCEPT ![o] = dir] /\ dir' = dir
            BY <2>2, Zenon DEF SL!BeginSweep, SL!SetMode, Modes
        <3>2. "out" # "sweep"
            OBVIOUS
        <3>3. s = o
            BY <1>2, <2>0, <3>1, <3>2, Zenon
        <3> QED
            BY <1>2, <2>0, <3>1, <3>3, Zenon
    <2>3. ASSUME NEW o \in Stores, SL!Leave(o) PROVE Missed
        <3>1. /\ Modes' = [Modes EXCEPT ![o] = "out"] /\ dir' = dir
              /\ view' = view \/ view' = [view EXCEPT ![o] = dir]
            BY <2>3, Zenon DEF SL!Leave, SL!SetMode, SL!MayLook, Modes
        <3>2. "out" # "sweep"
            OBVIOUS
        <3>3. s # o
            BY <1>2, <2>0, <3>1, <3>2, Zenon
        <3> QED
            BY <1>2, <2>0, <3>1, <3>3, Zenon
    <2>4. ASSUME NEW o \in Stores, SL!Look(o) PROVE Missed
        <3>1. Modes' = Modes /\ dir' = dir /\ view' = [view EXCEPT ![o] = dir]
            BY <2>4, Zenon DEF SL!Look, Modes
        <3> QED
            BY <1>2, <2>0, <3>1, Zenon
    <2>5. ASSUME NEW o \in Stores, NEW h \in Segments, SL!Create(o, h) PROVE Missed
        <3>1. /\ Modes' = Modes /\ Modes[o] # "out" /\ dir' = dir \cup {h}
              /\ view' = [view EXCEPT ![o] = @ \cup {h}]
            BY <2>5, Zenon DEF SL!Create, Modes
        <3>2. s = o
            BY <1>2, <3>1, SweepsAlone, Zenon
        <3> QED
            BY <1>2, <2>0, <3>1, <3>2, Zenon
    <2>6. ASSUME NEW o \in Stores, NEW h \in Segments, SL!Unlink(o, h) PROVE Missed
        <3>1. Modes' = Modes /\ dir' = dir \ {h} /\ view' = view
            BY <2>6, Zenon DEF SL!Unlink, Modes
        <3> QED
            BY <1>2, <3>1, Zenon
    <2>7. ASSUME NEW c \in Sweeps, NEW gs \in SUBSET Segments, Detach(c, gs)
          PROVE  Missed \/ (StoreOf[c] = s /\ g \in detached'[c])
        <3>1. StoreOf[c] \in Stores /\ Modes' = Modes /\ dir' = dir
              /\ view' = [view EXCEPT ![StoreOf[c]] = @ \ gs]
            BY <1>2, <2>7, DetachLocks, Zenon DEF SL!Detach, Modes
        <3>2. detached'[c] = gs
            BY <2>0, <2>7, Zenon DEF Detach
        <3> QED
            BY <1>2, <2>0, <3>1, <3>2, Zenon
    <2>8. ASSUME UNCHANGED <<Modes, dir, view>> PROVE Missed
        BY <1>2, <2>8, Zenon
    <2> QED
        BY <1>2, <2>1, <2>2, <2>3, <2>4, <2>5, <2>6, <2>7, <2>8, NextLocks, Zenon DEF LockStep
<1>3. IInv /\ IInv' /\ [Next]_vars =>
        \A s \in Stores : ModeOf(s)' = "sweep" =>
            /\ view'[s] \subseteq dir'
            /\ \A g \in dir' \ view'[s] :
                  \/ ModeOf(s) = "sweep" /\ g \in dir \ view[s]
                  \/ \E c \in Sweeps : StoreOf[c] = s /\ g \in detached'[c]
    <2> SUFFICES ASSUME IInv, IInv', [Next]_vars, NEW s \in Stores, ModeOf(s)' = "sweep"
                 PROVE  /\ view'[s] \subseteq dir'
                        /\ \A g \in dir' \ view'[s] :
                              \/ ModeOf(s) = "sweep" /\ g \in dir \ view[s]
                              \/ \E c \in Sweeps : StoreOf[c] = s /\ g \in detached'[c]
        BY Zenon
    <2>1. Modes[s] = ModeOf(s) /\ Modes'[s] = "sweep"
        BY Zenon DEF Modes
    <2>2. \A g \in dir' \ view'[s] :
              \/ ModeOf(s) = "sweep" /\ g \in dir \ view[s]
              \/ \E c \in Sweeps : StoreOf[c] = s /\ g \in detached'[c]
        BY <1>2, <2>1, Zenon
    <2> QED
        BY <1>1, <2>2, Zenon
<1> QED
    BY <1>3, GateInvariant, PTL DEF Spec, SweepViewComplete

(* The protocol of mutex, condition variable, flock and generation         *)
(* implements the lock its callers rely on, for any number of stores,      *)
(* calls and segments (the module comment of gate.rs).                     *)
THEOREM GateImplementsSweepLock == Spec => ImplementsSweepLock
<1>1. Init => SL!Init
    <2> SUFFICES ASSUME Init PROVE SL!Init
        OBVIOUS
    <2>1. /\ shared = [s \in Stores |-> 0] /\ exclusive = [s \in Stores |-> 0]
          /\ dir \in SUBSET Segments /\ view = [s \in Stores |-> dir]
        BY Zenon DEF Init
    <2>2. ~(0 > 0)
        OBVIOUS
    <2>3. \A s \in Stores : ModeOf(s) = "out"
        BY <2>1, <2>2, Zenon DEF ModeOf
    <2> QED
        BY <2>1, <2>3, Zenon DEF SL!Init
<1>2. IInv /\ [Next]_vars => [SL!Next]_<<Modes, dir, view>>
    BY NextLocks, DetachLocks, Zenon DEF LockStep, SL!Next
<1>3. IInv /\ [Next]_vars => [SL!Next]_SL!vars
    BY <1>2, Zenon DEF Modes, SL!vars
<1> QED
    BY <1>1, <1>3, GateInvariant, PTL DEF Spec, ImplementsSweepLock, SL!Spec

=============================================================================
