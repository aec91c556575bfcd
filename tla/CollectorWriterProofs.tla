----------------------- MODULE CollectorWriterProofs -----------------------
(***************************************************************************)
(* The steps of writers and PUTs, deletes, lookups, and the ends of spans, *)
(* of cycles and of processes (module Collector) keep the collector's      *)
(* invariant SafetyInv.  CollectorProofs goes on with the steps of a       *)
(* cycle.                                                                  *)
(***************************************************************************)
EXTENDS Collector, TLAPS

(* check_complete's closure is made of keys. *)
LEMMA ClosureKeys ==
    ASSUME NEW k \in Keys
    PROVE  Closure[k] \in SUBSET Keys
    BY Zenon DEF Closure, WalkOf, KeysOf, Links

(* The types of what a step leaves alone stay. *)
LEMMA TypeFrames ==
    ASSUME SafetyInv
    PROVE  /\ UNCHANGED lock => LockTypes'
           /\ UNCHANGED <<dir, packs>> => PackTypes'
           /\ UNCHANGED writer => WriterTypes'
           /\ UNCHANGED <<grey, cycle, victims>> => CycleTypes'
           /\ UNCHANGED mark => MarkTypes'
           /\ UNCHANGED refs => RefTypes'
<1> LockTypes /\ PackTypes /\ WriterTypes /\ CycleTypes /\ MarkTypes /\ RefTypes
    BY Zenon DEF SafetyInv, TypeOK
<1>1. UNCHANGED lock => LockTypes'
    BY Zenon DEF LockTypes, lock
<1>2. UNCHANGED <<dir, packs>> => PackTypes'
    BY Zenon DEF PackTypes, packs
<1>3. UNCHANGED writer => WriterTypes'
    BY Zenon DEF WriterTypes, writer
<1>4. UNCHANGED <<grey, cycle, victims>> => CycleTypes'
    BY Zenon DEF CycleTypes
<1>5. UNCHANGED mark => MarkTypes'
    BY Zenon DEF MarkTypes, mark
<1> QED
    BY <1>1, <1>2, <1>3, <1>4, <1>5, Zenon DEF RefTypes

(* So do the conjuncts that speak of nothing else. *)
LEMMA Frames ==
    ASSUME SafetyInv
    PROVE  /\ UNCHANGED <<lock, cycle, pc>> => GateInv'
           /\ UNCHANGED <<cycle, pc>> => LocksInv'
           /\ UNCHANGED <<dir, holds, grey, writer>> => WriterInv'
           /\ UNCHANGED <<dir, active, idle, victims, cycle>> => PackInv'
           /\ UNCHANGED <<grey, cycle, stack, marked, walked>> => MarkInv'
           /\ UNCHANGED <<dir, holds, refs, grey, cycle, stack, marked, walked, victims>>
                 => CoverInv'
           /\ UNCHANGED <<dir, holds, refs>> => RefsComplete'
           /\ UNCHANGED <<dir, holds, done>> => WritesStay'
           /\ UNCHANGED <<dir, holds>> => Stored' = Stored
<1> GateInv /\ LocksInv /\ WriterInv /\ PackInv /\ MarkInv /\ CoverInv /\ RefsComplete /\ WritesStay
    BY Zenon DEF SafetyInv
<1>1. UNCHANGED <<lock, cycle, pc>> => GateInv'
    BY Zenon DEF GateInv, lock
<1>2. UNCHANGED <<cycle, pc>> => LocksInv'
    BY Zenon DEF LocksInv, RefLocked, RefShared, Spans
<1>3. UNCHANGED <<dir, holds>> => Stored' = Stored
    BY Zenon DEF Stored, InPacks
<1>4. UNCHANGED <<dir, holds, grey, writer>> => WriterInv'
    BY <1>3, Zenon DEF WriterInv, writer
<1>5. UNCHANGED <<dir, active, idle, victims, cycle>> => PackInv'
    BY Zenon DEF PackInv
<1>6. UNCHANGED <<grey, cycle, stack, marked, walked>> => MarkInv'
    BY Zenon DEF MarkInv, MarkSound, Black
<1>7. UNCHANGED <<dir, holds, refs, grey, cycle, stack, marked, walked, victims>> => CoverInv'
    BY DEF CoverInv, Covered, Black, InPacks
<1> QED
    BY <1>1, <1>2, <1>3, <1>4, <1>5, <1>6, <1>7, Zenon DEF RefsComplete, WritesStay

-----------------------------------------------------------------------------
(* A cycle, and the other stores beside it.                                *)

(* A cycle moves to a state whose locks it holds. *)
LEMMA MoveLocks ==
    ASSUME SafetyInv, NEW s \in Stores, NEW to, UNCHANGED pc,
           cycle' = [cycle EXCEPT ![s] = to],
           to \in Snapshotting \cup Compacting => ~RefShared(s),
           to \in Paused => Spans(s) = {}
    PROVE  LocksInv'
<1>1. CycleTypes /\ LocksInv
    BY Zenon DEF SafetyInv, TypeOK
<1>2. \A o \in Stores : cycle'[o] = IF o = s THEN to ELSE cycle[o]
    BY <1>1, Zenon DEF CycleTypes
<1>3. \A o \in Stores : (RefShared(o)' <=> RefShared(o)) /\ Spans(o)' = Spans(o)
    BY Zenon DEF RefShared, Spans
<1> QED
    BY <1>1, <1>2, <1>3, Zenon DEF LocksInv, RefLocked

(* A cycle moves past the gate only with the gate. *)
LEMMA MoveGate ==
    ASSUME SafetyInv, NEW s \in Stores, NEW to, UNCHANGED <<lock, pc>>,
           cycle' = [cycle EXCEPT ![s] = to],
           to \notin {"idle", "gate"} => mode[s] = "sweep"
    PROVE  GateInv'
    BY Zenon DEF SafetyInv, TypeOK, CycleTypes, GateInv, lock

(* The cycle of another store, its barrier and its mark stay as they are.  *)
LEMMA OtherStore ==
    ASSUME SafetyInv, NEW o \in Stores, cycle'[o] = cycle[o], grey'[o] = grey[o],
           stack'[o] = stack[o], marked'[o] = marked[o], walked'[o] = walked[o]
    PROVE  MarkSound(o)'
<1>1. MarkSound(o) /\ Black(o)' = Black(o)
    BY Zenon DEF SafetyInv, MarkInv, Black
<1> QED
    BY <1>1, Zenon DEF MarkSound

(* And what it covers.                                                     *)
LEMMA OtherCover ==
    ASSUME SafetyInv, NEW o \in Stores, cycle'[o] = cycle[o], grey'[o] = grey[o],
           stack'[o] = stack[o], marked'[o] = marked[o], walked'[o] = walked[o],
           victims'[o] = victims[o], UNCHANGED <<dir, holds>>,
           NEW n \in Names, refs[n] # None, UNCHANGED refs
    PROVE  Covered(o, refs[n])'
<1>1. /\ Covered(o, refs[n]) /\ Black(o)' = Black(o)
      /\ InPacks(dir \ victims[o])' = InPacks(dir \ victims[o])
    BY Zenon DEF SafetyInv, CoverInv, Black, InPacks
<1> QED
    BY <1>1, Zenon DEF Covered

-----------------------------------------------------------------------------
(* The gate and the reference lock.                                        *)

(* The invariant survives a PUT taking the reference lock (begin_span): no *)
(* cycle of its store holds it.                                            *)
LEMMA BeginSpanInv ==
    ASSUME SafetyInv, NEW p \in Puts, BeginSpan(p)
    PROVE  SafetyInv'
<1>1. p \in Writers /\ Puts \subseteq Writers
    BY Zenon DEF Writers
<1>2. PICK k \in Trees : root' = [root EXCEPT ![p] = k]
    BY Zenon DEF BeginSpan
<1>3. pc[p] = "idle" /\ pc' = [pc EXCEPT ![p] = "gate"] /\ ~RefLocked(StoreOf[p])
    BY Zenon DEF BeginSpan, Goto
<1>4. UNCHANGED <<lock, packs, refs, grey, cur, done, cycle, mark, victims>>
    BY Zenon DEF BeginSpan
<1>5. UNCHANGED <<dir, holds, active, idle, stack, marked, walked>>
    BY <1>4, Zenon DEF lock, packs, mark
<1>6. WriterTypes /\ GateInv /\ LocksInv /\ WriterInv
    BY Zenon DEF SafetyInv, TypeOK
<1>7. WriterTypes'
    BY <1>1, <1>2, <1>3, <1>4, <1>6, LinksAssumption, Zenon DEF WriterTypes, HoldsRefLock
<1>8. GateInv'
    BY <1>1, <1>3, <1>4, <1>6, Zenon DEF WriterTypes, GateInv, InGate, lock
<1>9. LocksInv'
    BY <1>1, <1>3, <1>4, <1>6, Zenon DEF WriterTypes, LocksInv, RefLocked, RefShared, Spans, InGate
<1>10. WriterInv'
    BY <1>1, <1>2, <1>3, <1>4, <1>5, <1>6, Frames, Zenon DEF WriterTypes, WriterInv, InGate
<1> QED
    BY <1>4, <1>5, <1>7, <1>8, <1>9, <1>10, Frames, TypeFrames, Zenon DEF SafetyInv, TypeOK

(* Who enters the gate finds no sweep of another store, and its view is of *)
(* existing packs (Gate::begin_shared).                                    *)
LEMMA EnterGateInv ==
    ASSUME SafetyInv, NEW w \in Writers, EnterGate(w), UNCHANGED cycle
    PROVE  GateInv' /\ LockTypes' /\ dir' = dir
<1> DEFINE s == StoreOf[w]
<1>1. s \in Stores
    BY WritersAssumption, Zenon
<1>2. LockTypes /\ WriterTypes /\ GateInv
    BY Zenon DEF SafetyInv, TypeOK
<1>3. pc' = [pc EXCEPT ![w] = "span"]
    BY Zenon DEF EnterGate, Goto
<1>4. CASE mode[s] = "out"
    <2>1. SL!BeginWrite(s)
        BY <1>4, Zenon DEF EnterGate
    <2>2. /\ mode' = [mode EXCEPT ![s] = "write"] /\ dir' = dir
          /\ \A o \in Stores \ {s} : mode[o] # "sweep"
          /\ view' = view \/ view' = [view EXCEPT ![s] = dir]
          /\ view'[s] \subseteq dir
        BY <2>1, Zenon DEF SL!BeginWrite, SL!SetMode, SL!MayLook
    <2>3. LockTypes'
        BY <1>1, <1>2, <2>2, Zenon DEF LockTypes
    <2>4. GateInv'
        BY <1>1, <1>2, <1>3, <1>4, <2>2, WritersAssumption DEF GateInv, LockTypes, WriterTypes
    <2> QED
        BY <2>2, <2>3, <2>4, Zenon
<1>5. CASE mode[s] # "out"
    <2>1. UNCHANGED lock
        BY <1>5, Zenon DEF EnterGate
    <2> QED
        BY <1>1, <1>2, <1>3, <1>5, <2>1, WritersAssumption, Zenon
        DEF GateInv, LockTypes, WriterTypes, lock
<1> QED
    BY <1>4, <1>5, Zenon

(* The invariant survives a PUT entering the gate: its store's cycle does  *)
(* not hold the reference lock, so it is not compacting (begin_span).      *)
LEMMA OpenGateInv ==
    ASSUME SafetyInv, NEW p \in Puts, OpenGate(p)
    PROVE  SafetyInv'
<1>1. p \in Writers /\ Puts \subseteq Writers /\ StoreOf[p] \in Stores
    BY WritersAssumption, Zenon DEF Writers
<1>2. pc[p] = "gate" /\ EnterGate(p)
    BY Zenon DEF OpenGate
<1>3. UNCHANGED <<packs, refs, grey, root, cur, done, cycle, mark, victims>>
    BY Zenon DEF OpenGate
<1>4. GateInv' /\ LockTypes' /\ dir' = dir
    BY <1>1, <1>2, <1>3, EnterGateInv, Zenon
<1>5. UNCHANGED <<holds, active, idle, stack, marked, walked>>
    BY <1>3, Zenon DEF packs, mark
<1>6. pc' = [pc EXCEPT ![p] = "span"]
    BY <1>2, Zenon DEF EnterGate, Goto
<1>7. WriterTypes /\ LocksInv /\ WriterInv
    BY Zenon DEF SafetyInv, TypeOK
<1>8. WriterTypes'
    BY <1>1, <1>3, <1>6, <1>7, Zenon DEF WriterTypes, HoldsRefLock
<1>9. LocksInv'
    <2>1. ~RefLocked(StoreOf[p])
        BY <1>1, <1>2, <1>7, Zenon DEF LocksInv, RefShared, HoldsRefLock
    <2> QED
        BY <1>1, <1>2, <1>3, <1>6, <1>7, <2>1, Zenon
        DEF WriterTypes, LocksInv, RefLocked, RefShared, Spans, Compacting, Paused, InGate,
            HoldsRefLock
<1>10. WriterInv'
    BY <1>1, <1>2, <1>3, <1>4, <1>5, <1>6, <1>7, Frames, Zenon DEF WriterTypes, WriterInv, InGate
<1> QED
    BY <1>3, <1>4, <1>5, <1>8, <1>9, <1>10, Frames, TypeFrames, Zenon DEF SafetyInv, TypeOK

(* The invariant survives a direct write entering the gate, which          *)
(* compact's pause keeps out of a compaction of its store (Store::put).    *)
LEMMA BeginDirectInv ==
    ASSUME SafetyInv, NEW d \in Directs, BeginDirect(d)
    PROVE  SafetyInv'
<1>1. d \in Writers /\ Puts \subseteq Writers /\ d \notin Puts
    BY WritersAssumption, Zenon DEF Writers
<1>2. pc[d] = "idle" /\ EnterGate(d) /\ cycle[StoreOf[d]] \notin Paused
    BY Zenon DEF BeginDirect
<1>3. UNCHANGED <<packs, refs, grey, root, cur, done, cycle, mark, victims>>
    BY Zenon DEF BeginDirect
<1>4. GateInv' /\ LockTypes' /\ dir' = dir
    BY <1>1, <1>2, <1>3, EnterGateInv, Zenon
<1>5. UNCHANGED <<holds, active, idle, stack, marked, walked>>
    BY <1>3, Zenon DEF packs, mark
<1>6. pc' = [pc EXCEPT ![d] = "span"]
    BY <1>2, Zenon DEF EnterGate, Goto
<1>7. WriterTypes /\ LocksInv /\ WriterInv
    BY Zenon DEF SafetyInv, TypeOK
<1>8. WriterTypes'
    BY <1>1, <1>3, <1>6, <1>7, Zenon DEF WriterTypes, HoldsRefLock
<1>9. LocksInv'
    BY <1>1, <1>2, <1>3, <1>6, <1>7, Zenon DEF WriterTypes, LocksInv, RefLocked, RefShared, Spans
<1>10. WriterInv'
    BY <1>1, <1>2, <1>3, <1>4, <1>5, <1>6, <1>7, Frames, Zenon DEF WriterTypes, WriterInv, InGate
<1> QED
    BY <1>3, <1>4, <1>5, <1>8, <1>9, <1>10, Frames, TypeFrames, Zenon DEF SafetyInv, TypeOK

-----------------------------------------------------------------------------
(* Writes.                                                                 *)

(* A step of a writer inside its span leaves the gate and the reference    *)
(* lock as they are.                                                       *)
LEMMA StayInGate ==
    ASSUME SafetyInv, NEW w \in Writers, NEW to \in InGate, pc[w] \in InGate,
           pc' = [pc EXCEPT ![w] = to], UNCHANGED cycle
    PROVE  /\ pc' \in [Writers -> HoldsRefLock \cup {"idle"}]
           /\ LocksInv'
           /\ UNCHANGED lock => GateInv'
<1>1. Puts \subseteq Writers
    BY Zenon DEF Writers
<1>2. WriterTypes /\ GateInv /\ LocksInv
    BY Zenon DEF SafetyInv, TypeOK
<1>3. to \in HoldsRefLock /\ pc[w] \in HoldsRefLock
    BY Zenon DEF InGate, HoldsRefLock
<1>4. pc' \in [Writers -> HoldsRefLock \cup {"idle"}]
    BY <1>2, <1>3, Zenon DEF WriterTypes
<1>5. LocksInv'
    BY <1>1, <1>2, <1>3, Zenon DEF WriterTypes, LocksInv, RefLocked, RefShared, Spans
<1>6. UNCHANGED lock => GateInv'
    BY <1>2 DEF WriterTypes, GateInv, lock
<1> QED
    BY <1>4, <1>5, <1>6, Zenon

(* What the barrier captures, it keeps (WriteBarrier::observe).            *)
LEMMA CaptureGrows ==
    ASSUME SafetyInv, NEW s \in Stores, NEW ks \in SUBSET Keys, Capture(s, ks)
    PROVE  /\ grey' \in [Stores -> (SUBSET Keys) \cup {None}]
           /\ \A o \in Stores : grey'[o] = None <=> grey[o] = None
           /\ \A o \in Stores : grey[o] # None => grey[o] \subseteq grey'[o]
           /\ grey[s] # None => ks \subseteq grey'[s]
<1>1. grey \in [Stores -> (SUBSET Keys) \cup {None}]
    BY Zenon DEF SafetyInv, TypeOK, CycleTypes
<1>2. CASE grey[s] = None
    BY <1>1, <1>2, Zenon DEF Capture
<1>3. CASE grey[s] # None
    <2>1. grey' = [grey EXCEPT ![s] = grey[s] \cup ks]
        BY <1>3, Zenon DEF Capture
    <2>2. grey[s] \cup ks \in SUBSET Keys
        BY <1>1, <1>3, Zenon
    <2>3. grey[s] \cup ks # None
        BY <2>2, LinksAssumption, Zenon
    <2> QED
        BY <1>1, <1>3, <2>1, <2>2, <2>3, Zenon
<1> QED
    BY <1>2, <1>3, Zenon

(* So a capture covers no less of the references' trees.                   *)
LEMMA CaptureInv ==
    ASSUME SafetyInv, NEW s \in Stores, NEW ks \in SUBSET Keys, Capture(s, ks),
           UNCHANGED <<dir, holds, refs, cycle, stack, marked, walked, victims>>
    PROVE  MarkInv' /\ CoverInv' /\ CycleTypes'
<1>1. MarkInv /\ CoverInv /\ CycleTypes
    BY Zenon DEF SafetyInv, TypeOK
<1>2. \A o \in Stores : Black(o)' = Black(o)
    BY Zenon DEF Black
<1>3. MarkInv'
    BY <1>1, <1>2, CaptureGrows DEF MarkInv, MarkSound
<1>4. CoverInv'
    <2>1. \A o \in Stores : InPacks(dir \ victims[o])' = InPacks(dir \ victims[o])
        BY Zenon DEF InPacks
    <2>2. \A o \in Stores, n \in Names : refs[n] # None => Covered(o, refs[n])'
        BY <1>1, <1>2, <2>1, CaptureGrows DEF MarkInv, MarkSound, CoverInv, Covered
    <2> QED
        BY <2>2, Zenon DEF CoverInv
<1>5. CycleTypes'
    BY <1>1, CaptureGrows, Zenon DEF CycleTypes
<1> QED
    BY <1>3, <1>4, <1>5, Zenon

(* The invariant survives a write telling the barrier of its key           *)
(* (write_batch, put).                                                     *)
LEMMA ObserveInv ==
    ASSUME SafetyInv, NEW w \in Writers, NEW k \in Keys, Observe(w, k)
    PROVE  SafetyInv'
<1>1. Puts \subseteq Writers /\ StoreOf \in [Writers -> Stores] /\ {k} \in SUBSET Keys
    BY WritersAssumption, Zenon DEF Writers
<1>2. /\ pc[w] = "span" /\ pc' = [pc EXCEPT ![w] = "write"]
      /\ cur' = [cur EXCEPT ![w] = k]
      /\ Capture(StoreOf[w], {k})
    BY Zenon DEF Observe, Goto
<1>3. UNCHANGED <<lock, packs, refs, root, done, cycle, mark, victims>>
    BY Zenon DEF Observe
<1>4. UNCHANGED <<dir, holds, active, idle, stack, marked, walked>>
    BY <1>3, Zenon DEF lock, packs, mark
<1>5. WriterTypes /\ WriterInv
    BY Zenon DEF SafetyInv, TypeOK
<1>6. LocksInv' /\ GateInv' /\ pc' \in [Writers -> HoldsRefLock \cup {"idle"}]
    BY <1>2, <1>3, StayInGate, Zenon DEF InGate
<1>7. WriterTypes'
    BY <1>2, <1>3, <1>5, <1>6, Zenon DEF WriterTypes
<1>8. WriterInv'
    BY <1>1, <1>2, <1>3, <1>4, <1>5, Frames, CaptureGrows, Zenon DEF WriterTypes, WriterInv, InGate
<1> QED
    BY <1>1, <1>2, <1>3, <1>4, <1>6, <1>7, <1>8, CaptureInv, Frames, TypeFrames, Zenon
    DEF SafetyInv, TypeOK

(* The invariant survives a write that finds its object in the store: a    *)
(* store in the gate has only existing packs mapped (write_batch).         *)
LEMMA DuplicateInv ==
    ASSUME SafetyInv, NEW w \in Writers, Duplicate(w)
    PROVE  SafetyInv'
<1>1. Puts \subseteq Writers /\ StoreOf[w] \in Stores
    BY WritersAssumption, Zenon DEF Writers
<1>2. /\ pc[w] = "write" /\ pc' = [pc EXCEPT ![w] = "span"]
      /\ cur' = [cur EXCEPT ![w] = None]
      /\ done' = [done EXCEPT ![w] = @ \cup {cur[w]}]
      /\ cur[w] \in Seen(StoreOf[w])
    BY Zenon DEF Duplicate, Wrote, Goto
<1>3. UNCHANGED <<lock, packs, refs, grey, root, cycle, mark, victims>>
    BY Zenon DEF Duplicate
<1>4. UNCHANGED <<dir, holds, active, idle, stack, marked, walked>> /\ Stored' = Stored
    BY <1>3, Frames, Zenon DEF lock, packs, mark
<1>5. WriterTypes /\ GateInv /\ WriterInv /\ WritesStay
    BY Zenon DEF SafetyInv, TypeOK
<1>6. LocksInv' /\ GateInv' /\ pc' \in [Writers -> HoldsRefLock \cup {"idle"}]
    BY <1>2, <1>3, StayInGate, Zenon DEF InGate
<1>7. WriterTypes'
    <2>1. cur[w] \in Keys
        BY <1>2, <1>5, Zenon DEF WriterInv
    <2> QED
        BY <1>2, <1>3, <1>5, <1>6, <2>1, Zenon DEF WriterTypes
<1>8. WriterInv'
    BY <1>1, <1>2, <1>3, <1>4, <1>5, Zenon DEF WriterTypes, WriterInv, InGate
<1>9. WritesStay'
    <2>1. view[StoreOf[w]] \subseteq dir
        BY <1>1, <1>2, <1>5, Zenon DEF GateInv, InGate
    <2>2. cur[w] \in Stored
        BY <1>2, <2>1, Zenon DEF Seen, Stored, InPacks
    <2> QED
        BY <1>2, <1>4, <1>5, <2>2, Zenon DEF WritesStay, WriterTypes
<1> QED
    BY <1>3, <1>4, <1>6, <1>7, <1>8, <1>9, Frames, TypeFrames, Zenon DEF SafetyInv, TypeOK

(* A record more in a pack of the directory takes none away (append).      *)
LEMMA StoredGrows ==
    ASSUME SafetyInv, NEW g \in Packs, NEW K \in SUBSET Keys, dir \subseteq dir',
           UNCHANGED victims, holds' = [holds EXCEPT ![g] = @ \cup K]
    PROVE  /\ Stored \subseteq Stored'
           /\ g \in dir' => K \subseteq Stored'
           /\ \A o \in Stores : InPacks(dir \ victims[o]) \subseteq InPacks(dir \ victims[o])'
<1>1. holds \in [Packs -> SUBSET Keys] /\ dir \subseteq Packs
    BY Zenon DEF SafetyInv, TypeOK, PackTypes, LockTypes
<1>2. \A h \in dir : holds[h] \subseteq holds'[h]
    BY <1>1, Zenon
<1>3. K \subseteq holds'[g]
    BY <1>1, Zenon
<1> QED
    BY <1>2, <1>3, Zenon DEF Stored, InPacks

(* More records keep what the invariant says of references and closures.   *)
LEMMA GrowthInv ==
    ASSUME SafetyInv, Stored \subseteq Stored',
           \A o \in Stores : InPacks(dir \ victims[o]) \subseteq InPacks(dir \ victims[o])',
           UNCHANGED <<refs, grey, cycle, stack, marked, walked, victims>>
    PROVE  RefsComplete' /\ CoverInv'
<1>1. CoverInv /\ RefsComplete
    BY Zenon DEF SafetyInv
<1>2. \A o \in Stores : Black(o)' = Black(o)
    BY Zenon DEF Black
<1>3. \A o \in Stores, n \in Names : refs[n] # None => Covered(o, refs[n])'
    BY <1>1, <1>2, Zenon DEF CoverInv, Covered
<1> QED
    BY <1>1, <1>3, Zenon DEF CoverInv, RefsComplete

(* The pack an append goes to is in the directory, in the view and no      *)
(* compaction's victim (ensure_active).                                    *)
LEMMA AppendTarget ==
    ASSUME SafetyInv, NEW s \in Stores, mode[s] # "out", NEW g \in Packs,
           \/ g = active[s] /\ UNCHANGED lock
           \/ active[s] = None /\ g \in idle /\ Adopt(s, g)
           \/ active[s] = None /\ SL!Create(s, g)
    PROVE  /\ dir' = dir \cup {g} /\ mode' = mode
           /\ LockTypes'
           /\ \A o \in Stores : mode[o] # "out" => view'[o] \subseteq dir'
           /\ \A o \in Stores : g \in victims[o] => g = active[s]
<1>1. LockTypes /\ PackTypes /\ PackInv /\ GateInv
    BY Zenon DEF SafetyInv, TypeOK
<1>2. CASE g = active[s] /\ UNCHANGED lock
    BY <1>1, <1>2, LinksAssumption DEF LockTypes, PackInv, GateInv, lock
<1>3. CASE g \in idle /\ Adopt(s, g)
    BY <1>1, <1>3 DEF LockTypes, PackTypes, PackInv, GateInv, Adopt
<1>4. CASE SL!Create(s, g)
    BY <1>1, <1>4 DEF LockTypes, PackInv, GateInv, SL!Create
<1> QED
    BY <1>2, <1>3, <1>4, Zenon

(* The invariant survives an append (append_record): the record is in a    *)
(* pack that stays.                                                        *)
LEMMA AppendInv ==
    ASSUME SafetyInv, NEW w \in Writers, Append(w)
    PROVE  SafetyInv'
<1> DEFINE s == StoreOf[w]
<1>1. Puts \subseteq Writers /\ s \in Stores
    BY WritersAssumption, Zenon DEF Writers
<1>2. /\ pc[w] = "write" /\ pc' = [pc EXCEPT ![w] = "span"]
      /\ cur' = [cur EXCEPT ![w] = None]
      /\ done' = [done EXCEPT ![w] = @ \cup {cur[w]}]
    BY Zenon DEF Append, Wrote, Goto
<1>3. UNCHANGED <<refs, grey, root, cycle, mark, victims>>
    BY Zenon DEF Append
<1>4. UNCHANGED <<stack, marked, walked>>
    BY <1>3, Zenon DEF mark
<1>5. PICK g \in Packs, full \in Fills :
          /\ \/ g = active[s] /\ UNCHANGED lock
             \/ active[s] = None /\ g \in idle /\ Adopt(s, g)
             \/ active[s] = None /\ SL!Create(s, g)
          /\ holds' = [holds EXCEPT ![g] = @ \cup {cur[w]}]
          /\ active' = [active EXCEPT ![s] = IF full THEN None ELSE g]
          /\ idle' = idle \ {g}
    BY Zenon DEF Append
<1>6. /\ LockTypes /\ PackTypes /\ WriterTypes /\ CycleTypes
      /\ GateInv /\ WriterInv /\ PackInv /\ WritesStay
    BY Zenon DEF SafetyInv, TypeOK
<1>7. mode[s] # "out" /\ cur[w] \in Keys
    BY <1>1, <1>2, <1>6, Zenon DEF GateInv, WriterInv, InGate
<1>8. /\ dir' = dir \cup {g} /\ mode' = mode /\ LockTypes'
      /\ \A o \in Stores : mode[o] # "out" => view'[o] \subseteq dir'
      /\ \A o \in Stores : g \in victims[o] => g = active[s]
    BY <1>1, <1>5, <1>7, AppendTarget, Zenon
<1>9. /\ Stored \subseteq Stored' /\ cur[w] \in Stored'
      /\ \A o \in Stores : InPacks(dir \ victims[o]) \subseteq InPacks(dir \ victims[o])'
    <2> DEFINE K == {cur[w]}
    <2>1. K \in SUBSET Keys /\ dir \subseteq dir' /\ holds' = [holds EXCEPT ![g] = @ \cup K]
        BY <1>5, <1>7, <1>8, Zenon
    <2> HIDE DEF K
    <2>2. g \in dir' => K \subseteq Stored'
        BY <1>3, <2>1, StoredGrows, Zenon
    <2> QED
        BY <1>3, <1>8, <2>1, <2>2, StoredGrows, Zenon DEF K
<1>10. PackTypes'
    BY <1>1, <1>5, <1>6, <1>7, <1>8, Zenon DEF PackTypes
<1>11. LocksInv' /\ pc' \in [Writers -> HoldsRefLock \cup {"idle"}]
    BY <1>2, <1>3, StayInGate, Zenon DEF InGate
<1>12. GateInv'
    BY <1>2, <1>3, <1>6, <1>8, Zenon DEF GateInv, InGate, WriterTypes
<1>13. WriterTypes'
    BY <1>2, <1>3, <1>6, <1>7, <1>11, Zenon DEF WriterTypes
<1>14. WriterInv'
    <2>1. /\ \A v \in Writers : v # w => pc'[v] = pc[v] /\ cur'[v] = cur[v] /\ done'[v] = done[v]
          /\ pc'[w] = "span"
        BY <1>2, <1>6, Zenon DEF WriterTypes
    <2>2. \A v \in Writers : /\ pc'[v] = "write" => cur'[v] \in Keys
                             /\ done'[v] # {} => pc'[v] \in InGate
        BY <1>6, <2>1, Zenon DEF WriterInv, InGate
    <2> QED
        BY <1>1, <1>2, <1>3, <1>6, <1>9, <2>1, <2>2, Zenon DEF WriterInv
<1>15. PackInv'
    BY <1>1, <1>3, <1>5, <1>6, <1>8, LinksAssumption DEF PackInv, PackTypes, LockTypes
<1>16. WritesStay'
    BY <1>2, <1>6, <1>9, Zenon DEF WritesStay, WriterTypes
<1>17. RefsComplete' /\ CoverInv'
    BY <1>3, <1>4, <1>9, GrowthInv, Zenon
<1> QED
    BY <1>3, <1>4, <1>8, <1>10, <1>11, <1>12, <1>13, <1>14, <1>15, <1>16, <1>17,
       Frames, TypeFrames, Zenon
    DEF SafetyInv, TypeOK

(* The invariant survives a write that fails (write_batch). *)
LEMMA WriteFailsInv ==
    ASSUME SafetyInv, NEW w \in Writers, WriteFails(w)
    PROVE  SafetyInv'
<1>1. Puts \subseteq Writers
    BY Zenon DEF Writers
<1>2. /\ pc[w] = "write" /\ pc' = [pc EXCEPT ![w] = "span"]
      /\ cur' = [cur EXCEPT ![w] = None]
    BY Zenon DEF WriteFails, Goto
<1>3. UNCHANGED <<lock, packs, refs, grey, root, done, cycle, mark, victims>>
    BY Zenon DEF WriteFails
<1>4. UNCHANGED <<dir, holds, active, idle, stack, marked, walked>> /\ Stored' = Stored
    BY <1>3, Frames, Zenon DEF lock, packs, mark
<1>5. WriterTypes /\ WriterInv
    BY Zenon DEF SafetyInv, TypeOK
<1>6. LocksInv' /\ GateInv' /\ pc' \in [Writers -> HoldsRefLock \cup {"idle"}]
    BY <1>2, <1>3, StayInGate, Zenon DEF InGate
<1>7. WriterTypes'
    BY <1>2, <1>3, <1>5, <1>6, Zenon DEF WriterTypes
<1>8. WriterInv'
    BY <1>1, <1>2, <1>3, <1>4, <1>5, Zenon DEF WriterTypes, WriterInv, InGate
<1> QED
    BY <1>3, <1>4, <1>6, <1>7, <1>8, Frames, TypeFrames, Zenon DEF SafetyInv, TypeOK

-----------------------------------------------------------------------------
(* PUTs, deletes and lookups.                                              *)

(* The invariant survives a PUT finding its tree complete (prepare): a     *)
(* store in the gate has only existing packs mapped.                       *)
LEMMA WalkInv ==
    ASSUME SafetyInv, NEW p \in Puts, Walk(p)
    PROVE  SafetyInv'
<1>1. Puts \subseteq Writers /\ p \in Writers /\ StoreOf[p] \in Stores
    BY WritersAssumption, Zenon DEF Writers
<1>2. /\ pc[p] = "span" /\ pc' = [pc EXCEPT ![p] = "walked"]
      /\ Closure[root[p]] \subseteq Seen(StoreOf[p])
    BY Zenon DEF Walk, Goto
<1>3. UNCHANGED <<lock, packs, refs, grey, root, cur, done, cycle, mark, victims>>
    BY Zenon DEF Walk
<1>4. UNCHANGED <<dir, holds, active, idle, stack, marked, walked>> /\ Stored' = Stored
    BY <1>3, Frames, Zenon DEF lock, packs, mark
<1>5. WriterTypes /\ GateInv /\ WriterInv
    BY Zenon DEF SafetyInv, TypeOK
<1>6. LocksInv' /\ GateInv' /\ pc' \in [Writers -> HoldsRefLock \cup {"idle"}]
    BY <1>1, <1>2, <1>3, StayInGate, Zenon DEF InGate
<1>7. WriterTypes'
    BY <1>3, <1>5, <1>6, Zenon DEF WriterTypes
<1>8. WriterInv'
    <2>1. view[StoreOf[p]] \subseteq dir
        BY <1>1, <1>2, <1>5, Zenon DEF GateInv, InGate
    <2>2. Closure[root[p]] \subseteq Stored
        BY <1>2, <2>1, Zenon DEF Seen, Stored, InPacks
    <2> QED
        BY <1>1, <1>2, <1>3, <1>4, <1>5, <2>2, Zenon DEF WriterTypes, WriterInv, InGate
<1> QED
    BY <1>3, <1>4, <1>6, <1>7, <1>8, Frames, TypeFrames, Zenon DEF SafetyInv, TypeOK

(* The invariant survives a PUT handing its closure to the barrier         *)
(* (observe_keys).                                                         *)
LEMMA ObserveKeysInv ==
    ASSUME SafetyInv, NEW p \in Puts, ObserveKeys(p)
    PROVE  SafetyInv'
<1> DEFINE K == Closure[root[p]]
<1>1. Puts \subseteq Writers /\ p \in Writers /\ StoreOf \in [Writers -> Stores]
    BY WritersAssumption, Zenon DEF Writers
<1>2. /\ pc[p] = "walked" /\ pc' = [pc EXCEPT ![p] = "commit"]
      /\ Capture(StoreOf[p], K)
    BY Zenon DEF ObserveKeys, Goto
<1>3. UNCHANGED <<lock, packs, refs, root, cur, done, cycle, mark, victims>>
    BY Zenon DEF ObserveKeys
<1>4. UNCHANGED <<dir, holds, active, idle, stack, marked, walked>> /\ Stored' = Stored
    BY <1>3, Frames, Zenon DEF lock, packs, mark
<1>5. WriterTypes /\ WriterInv
    BY Zenon DEF SafetyInv, TypeOK
<1>6. K \in SUBSET Keys
    BY <1>2, <1>5, ClosureKeys, LinksAssumption, Zenon DEF WriterInv
<1>7. LocksInv' /\ GateInv' /\ pc' \in [Writers -> HoldsRefLock \cup {"idle"}]
    BY <1>1, <1>2, <1>3, StayInGate, Zenon DEF InGate
<1>8. WriterTypes'
    BY <1>3, <1>5, <1>7, Zenon DEF WriterTypes
<1>9. /\ \A o \in Stores : grey'[o] = None <=> grey[o] = None
      /\ \A o \in Stores : grey[o] # None => grey[o] \subseteq grey'[o]
      /\ grey[StoreOf[p]] # None => K \subseteq grey'[StoreOf[p]]
    BY <1>1, <1>2, <1>6, CaptureGrows, Zenon
<1>10. WriterInv'
    BY <1>1, <1>2, <1>3, <1>4, <1>5, <1>9, Zenon DEF WriterTypes, WriterInv, InGate
<1>11. MarkInv' /\ CoverInv' /\ CycleTypes'
    BY <1>1, <1>2, <1>3, <1>4, <1>6, CaptureInv, Zenon
<1> QED
    BY <1>3, <1>4, <1>7, <1>8, <1>10, <1>11, Frames, TypeFrames, Zenon DEF SafetyInv, TypeOK

(* The invariant survives a reference being stored: the tree is there, and *)
(* a cycle that is past its snapshot has captured it (PutRef).             *)
LEMMA PutRefInv ==
    ASSUME SafetyInv, NEW p \in Puts, NEW n \in Names, PutRef(p, n)
    PROVE  SafetyInv'
<1> DEFINE o == StoreOf[p]
<1>1. Puts \subseteq Writers /\ p \in Writers /\ o \in Stores
    BY WritersAssumption, Zenon DEF Writers
<1>2. /\ pc[p] = "commit" /\ pc' = [pc EXCEPT ![p] = "span"]
      /\ refs' = [refs EXCEPT ![n] = root[p]]
    BY Zenon DEF PutRef, Goto
<1>3. UNCHANGED <<lock, packs, grey, root, cur, done, cycle, mark, victims>>
    BY Zenon DEF PutRef
<1>4. UNCHANGED <<dir, holds, active, idle, stack, marked, walked>> /\ Stored' = Stored
    BY <1>3, Frames, Zenon DEF lock, packs, mark
<1>5. /\ WriterTypes /\ CycleTypes /\ RefTypes /\ LocksInv /\ GateInv /\ WriterInv
      /\ MarkInv /\ CoverInv /\ RefsComplete
    BY Zenon DEF SafetyInv, TypeOK
<1>6. LocksInv' /\ GateInv' /\ pc' \in [Writers -> HoldsRefLock \cup {"idle"}]
    BY <1>1, <1>2, <1>3, StayInGate, Zenon DEF InGate
<1>7. WriterTypes'
    BY <1>3, <1>5, <1>6, Zenon DEF WriterTypes
<1>8. WriterInv'
    BY <1>1, <1>2, <1>3, <1>4, <1>5, Zenon DEF WriterTypes, WriterInv, InGate
<1>9. RefTypes' /\ root[p] \in Trees /\ Closure[root[p]] \subseteq Stored
    BY <1>2, <1>5, LinksAssumption, Zenon DEF RefTypes, WriterInv
<1>10. RefsComplete'
    BY <1>2, <1>4, <1>5, <1>9, Zenon DEF RefsComplete, RefTypes
<1>11. CoverInv'
    <2>1. ~RefLocked(o) /\ mode[o] # "out"
        BY <1>1, <1>2, <1>5, Zenon DEF LocksInv, RefShared, GateInv, InGate, HoldsRefLock
    <2>2. \A s \in Stores : s # o => cycle[s] \in {"idle", "gate"}
        BY <1>1, <1>5, <2>1, Zenon DEF GateInv
    <2>3. cycle[o] \notin {"compact", "copy", "detach", "reap"}
        BY <2>1, Zenon DEF RefLocked, Compacting
    <2>4. cycle[o] \in {"snap", "mark"} => Closure[root[p]] \subseteq grey[o]
        BY <1>1, <1>2, <1>5, Zenon DEF MarkInv, MarkSound, WriterInv
    <2> SUFFICES ASSUME NEW s \in Stores, NEW m \in Names, refs'[m] # None
                 PROVE  Covered(s, refs[m])'
        BY Zenon DEF CoverInv
    <2>5. CASE m = n
        <3>1. refs'[m] = root[p]
            BY <1>2, <1>5, <2>5, Zenon DEF RefTypes
        <3> QED
            BY <1>3, <2>2, <2>3, <2>4, <3>1, Zenon DEF Covered
    <2>6. CASE m # n
        <3>1. refs'[m] = refs[m]
            BY <1>2, <1>5, <2>6, Zenon DEF RefTypes
        <3>2. Covered(s, refs[m])
            BY <1>5, <3>1, Zenon DEF CoverInv
        <3>3. Black(s)' = Black(s) /\ InPacks(dir \ victims[s])' = InPacks(dir \ victims[s])
            BY <1>3, <1>4, Zenon DEF Black, InPacks
        <3> QED
            BY <1>3, <1>4, <3>1, <3>2, <3>3, Zenon DEF Covered
    <2> QED
        BY <2>5, <2>6, Zenon
<1> QED
    BY <1>3, <1>4, <1>6, <1>7, <1>8, <1>9, <1>10, <1>11, Frames, TypeFrames, Zenon DEF SafetyInv, TypeOK

(* Who leaves its span takes the gate with it only if no other span of its *)
(* store is in it (Gate::end_shared).                                      *)
LEMMA LeaveGateInv ==
    ASSUME SafetyInv, NEW w \in Writers, pc[w] \in InGate, NEW to \in {"idle", "unref"},
           LeaveGate(w, to), UNCHANGED cycle
    PROVE  GateInv' /\ LockTypes' /\ dir' = dir
<1> DEFINE s == StoreOf[w]
<1>1. s \in Stores /\ StoreOf \in [Writers -> Stores] /\ to \notin InGate
    BY WritersAssumption, Zenon DEF InGate
<1>2. LockTypes /\ WriterTypes /\ GateInv
    BY Zenon DEF SafetyInv, TypeOK
<1>3. pc' = [pc EXCEPT ![w] = to]
    BY Zenon DEF LeaveGate, Goto
<1>4. CASE mode[s] = "write" /\ Spans(s) = {w}
    <2>1. mode' = [mode EXCEPT ![s] = "out"] /\ dir' = dir /\ view' = view
        BY <1>4, Zenon DEF LeaveGate, SL!Leave, SL!SetMode
    <2>2. \A v \in Writers : pc'[v] \in InGate => StoreOf[v] # s
        BY <1>1, <1>2, <1>3, <1>4, Zenon DEF Spans, WriterTypes
    <2>3. LockTypes'
        BY <1>1, <1>2, <2>1, Zenon DEF LockTypes
    <2>4. \A v \in Writers : pc'[v] \in InGate => mode'[StoreOf[v]] # "out"
        BY <1>1, <1>2, <1>3, <2>1, <2>2, Zenon DEF LockTypes, WriterTypes, GateInv
    <2>5. GateInv'
        BY <1>1, <1>2, <1>4, <2>1, <2>4, Zenon DEF GateInv, LockTypes
    <2> QED
        BY <2>1, <2>3, <2>5, Zenon
<1>5. CASE ~(mode[s] = "write" /\ Spans(s) = {w})
    <2>1. UNCHANGED lock
        BY <1>5, Zenon DEF LeaveGate
    <2> QED
        BY <1>1, <1>2, <1>3, <2>1, Zenon DEF GateInv, LockTypes, WriterTypes, lock
<1> QED
    BY <1>4, <1>5, Zenon

(* The invariant survives the end of a PUT's span (Span::drop). *)
LEMMA EndSpanInv ==
    ASSUME SafetyInv, NEW p \in Puts, EndSpan(p)
    PROVE  SafetyInv'
<1>1. Puts \subseteq Writers /\ p \in Writers
    BY Zenon DEF Writers
<1>2. pc[p] \in {"span", "commit"} /\ LeaveGate(p, "unref")
    BY Zenon DEF EndSpan
<1>3. UNCHANGED <<packs, refs, grey, root, cur, cycle, mark, victims>>
    BY Zenon DEF EndSpan
<1>4. GateInv' /\ LockTypes' /\ dir' = dir
    BY <1>1, <1>2, <1>3, LeaveGateInv, Zenon DEF InGate
<1>5. UNCHANGED <<holds, active, idle, stack, marked, walked>> /\ Stored' = Stored
    BY <1>3, <1>4, Frames, Zenon DEF packs, mark
<1>6. pc' = [pc EXCEPT ![p] = "unref"] /\ done' = [done EXCEPT ![p] = {}]
    BY <1>2, Zenon DEF LeaveGate, Goto
<1>7. WriterTypes /\ LocksInv /\ WriterInv /\ WritesStay
    BY Zenon DEF SafetyInv, TypeOK
<1>8. WriterTypes'
    BY <1>1, <1>3, <1>6, <1>7, Zenon DEF WriterTypes, HoldsRefLock
<1>9. LocksInv'
    BY <1>1, <1>2, <1>3, <1>6, <1>7, Zenon
    DEF WriterTypes, LocksInv, RefLocked, RefShared, Spans, InGate, HoldsRefLock
<1>10. WriterInv'
    BY <1>1, <1>2, <1>3, <1>5, <1>6, <1>7, Zenon DEF WriterTypes, WriterInv
<1>11. WritesStay'
    BY <1>1, <1>5, <1>6, <1>7, Zenon DEF WriterTypes, WritesStay
<1> QED
    BY <1>3, <1>4, <1>5, <1>8, <1>9, <1>10, <1>11, Frames, TypeFrames, Zenon DEF SafetyInv, TypeOK

(* The invariant survives the end of a direct write (Store::put). *)
LEMMA EndDirectInv ==
    ASSUME SafetyInv, NEW d \in Directs, EndDirect(d)
    PROVE  SafetyInv'
<1>1. Puts \subseteq Writers /\ d \in Writers /\ d \notin Puts
    BY WritersAssumption, Zenon DEF Writers
<1>2. pc[d] = "span" /\ LeaveGate(d, "idle")
    BY Zenon DEF EndDirect
<1>3. UNCHANGED <<packs, refs, grey, root, cur, cycle, mark, victims>>
    BY Zenon DEF EndDirect
<1>4. GateInv' /\ LockTypes' /\ dir' = dir
    BY <1>1, <1>2, <1>3, LeaveGateInv, Zenon DEF InGate
<1>5. UNCHANGED <<holds, active, idle, stack, marked, walked>> /\ Stored' = Stored
    BY <1>3, <1>4, Frames, Zenon DEF packs, mark
<1>6. pc' = [pc EXCEPT ![d] = "idle"] /\ done' = [done EXCEPT ![d] = {}]
    BY <1>2, Zenon DEF LeaveGate, Goto
<1>7. WriterTypes /\ LocksInv /\ WriterInv /\ WritesStay
    BY Zenon DEF SafetyInv, TypeOK
<1>8. WriterTypes'
    BY <1>1, <1>3, <1>6, <1>7, Zenon DEF WriterTypes
<1>9. LocksInv'
    BY <1>1, <1>3, <1>6, <1>7, Zenon DEF WriterTypes, LocksInv, RefLocked, RefShared, Spans, InGate
<1>10. WriterInv'
    BY <1>1, <1>3, <1>5, <1>6, <1>7, Zenon DEF WriterTypes, WriterInv
<1>11. WritesStay'
    BY <1>1, <1>5, <1>6, <1>7, Zenon DEF WriterTypes, WritesStay
<1> QED
    BY <1>3, <1>4, <1>5, <1>8, <1>9, <1>10, <1>11, Frames, TypeFrames, Zenon DEF SafetyInv, TypeOK

(* The invariant survives a PUT letting go of the reference lock           *)
(* (Span::drop).                                                           *)
LEMMA DropRefLockInv ==
    ASSUME SafetyInv, NEW p \in Puts, DropRefLock(p)
    PROVE  SafetyInv'
<1>1. Puts \subseteq Writers /\ p \in Writers
    BY Zenon DEF Writers
<1>2. /\ pc[p] = "unref" /\ pc' = [pc EXCEPT ![p] = "idle"]
      /\ root' = [root EXCEPT ![p] = None]
    BY Zenon DEF DropRefLock, Goto
<1>3. UNCHANGED <<lock, packs, refs, grey, cur, done, cycle, mark, victims>>
    BY Zenon DEF DropRefLock
<1>4. UNCHANGED <<dir, holds, active, idle, stack, marked, walked>> /\ Stored' = Stored
    BY <1>3, Frames, Zenon DEF lock, packs, mark
<1>5. WriterTypes /\ GateInv /\ LocksInv /\ WriterInv
    BY Zenon DEF SafetyInv, TypeOK
<1>6. WriterTypes'
    BY <1>1, <1>2, <1>3, <1>5, Zenon DEF WriterTypes
<1>7. GateInv'
    BY <1>1, <1>2, <1>3, <1>5, Zenon DEF WriterTypes, GateInv, InGate, lock
<1>8. LocksInv'
    BY <1>1, <1>2, <1>3, <1>5, Zenon
    DEF WriterTypes, LocksInv, RefLocked, RefShared, Spans, InGate, HoldsRefLock
<1>9. WriterInv'
    BY <1>1, <1>2, <1>3, <1>4, <1>5, Zenon DEF WriterTypes, WriterInv, InGate
<1> QED
    BY <1>3, <1>4, <1>6, <1>7, <1>8, <1>9, Frames, TypeFrames, Zenon DEF SafetyInv, TypeOK

(* The invariant survives a reference being deleted: less is to be kept    *)
(* (release_ref).                                                          *)
LEMMA DeleteRefInv ==
    ASSUME SafetyInv, NEW n \in Names, DeleteRef(n)
    PROVE  SafetyInv'
<1>1. refs' = [refs EXCEPT ![n] = None]
    BY Zenon DEF DeleteRef
<1>2. UNCHANGED <<lock, packs, grey, writer, cycle, mark, victims>>
    BY Zenon DEF DeleteRef
<1>3. UNCHANGED <<dir, holds, active, idle, stack, marked, walked, pc, done>>
    BY <1>2, Zenon DEF lock, packs, mark, writer
<1>4. RefTypes /\ CoverInv /\ RefsComplete
    BY Zenon DEF SafetyInv, TypeOK
<1>5. RefTypes'
    BY <1>1, <1>4, Zenon DEF RefTypes
<1>6. RefsComplete'
    BY <1>1, <1>3, <1>4, Frames, Zenon DEF RefTypes, RefsComplete
<1>7. CoverInv'
    <2> SUFFICES ASSUME NEW s \in Stores, NEW m \in Names, refs'[m] # None
                 PROVE  Covered(s, refs[m])'
        BY Zenon DEF CoverInv
    <2>1. refs'[m] = refs[m]
        BY <1>1, <1>4, Zenon DEF RefTypes
    <2>2. Covered(s, refs[m])
        BY <1>4, <2>1, Zenon DEF CoverInv
    <2>3. Black(s)' = Black(s) /\ InPacks(dir \ victims[s])' = InPacks(dir \ victims[s])
        BY <1>2, <1>3, Zenon DEF Black, InPacks
    <2> QED
        BY <1>2, <1>3, <2>1, <2>2, <2>3, Zenon DEF Covered
<1> QED
    BY <1>2, <1>3, <1>5, <1>6, <1>7, Frames, TypeFrames, Zenon DEF SafetyInv, TypeOK

(* The invariant survives a lookup listing the directory again (refresh). *)
LEMMA RefreshInv ==
    ASSUME SafetyInv, NEW s \in Stores, Refresh(s)
    PROVE  SafetyInv'
<1>1. view' = [view EXCEPT ![s] = dir] /\ UNCHANGED <<mode, dir>>
    BY Zenon DEF Refresh, SL!Look
<1>2. UNCHANGED <<packs, refs, grey, writer, cycle, mark, victims>>
    BY Zenon DEF Refresh
<1>3. UNCHANGED <<holds, active, idle, stack, marked, walked, pc, done>>
    BY <1>2, Zenon DEF packs, mark, writer
<1>4. LockTypes /\ GateInv
    BY Zenon DEF SafetyInv, TypeOK
<1>5. LockTypes'
    BY <1>1, <1>4, Zenon DEF LockTypes
<1>6. GateInv'
    BY <1>1, <1>2, <1>3, <1>4, Zenon DEF LockTypes, GateInv
<1> QED
    BY <1>1, <1>2, <1>3, <1>5, <1>6, Frames, TypeFrames, Zenon DEF SafetyInv, TypeOK

-----------------------------------------------------------------------------
(* The end of a cycle.                                                     *)

(* A cycle that is over, or dead, leaves no barrier, no mark and nothing   *)
(* to cover.                                                               *)
LEMMA ResetInv ==
    ASSUME SafetyInv, NEW s \in Stores, ResetCycle(s), GotoCycle(s, "idle"),
           UNCHANGED <<dir, holds, refs>>
    PROVE  /\ CycleTypes' /\ MarkTypes' /\ MarkInv' /\ CoverInv'
           /\ \A o \in Stores : cycle'[o] = IF o = s THEN "idle" ELSE cycle[o]
           /\ \A o \in Stores : grey'[o] = IF o = s THEN None ELSE grey[o]
           /\ \A o \in Stores : victims'[o] = IF o = s THEN {} ELSE victims[o]
<1>1. CycleTypes /\ MarkTypes
    BY Zenon DEF SafetyInv, TypeOK
<1>2. /\ \A o \in Stores : cycle'[o] = IF o = s THEN "idle" ELSE cycle[o]
      /\ \A o \in Stores : grey'[o] = IF o = s THEN None ELSE grey[o]
      /\ \A o \in Stores : victims'[o] = IF o = s THEN {} ELSE victims[o]
    BY <1>1, Zenon DEF CycleTypes, ResetCycle, GotoCycle
<1>3. /\ \A o \in Stores : stack'[o] = IF o = s THEN {} ELSE stack[o]
      /\ \A o \in Stores : marked'[o] = IF o = s THEN {} ELSE marked[o]
      /\ \A o \in Stores : walked'[o] = IF o = s THEN {} ELSE walked[o]
    BY <1>1, Zenon DEF MarkTypes, ResetCycle
<1>4. CycleTypes'
    BY <1>1, Zenon DEF CycleTypes, ResetCycle, GotoCycle
<1>5. MarkTypes'
    BY <1>1, Zenon DEF MarkTypes, ResetCycle
<1>6. MarkInv'
    <2>1. Black(s)' = {}
        BY <1>3, Zenon DEF Black
    <2>2. MarkSound(s)'
        BY <1>2, <1>3, <2>1, Zenon DEF MarkSound
    <2>3. \A o \in Stores : o # s => MarkSound(o)'
        BY <1>2, <1>3, OtherStore, Zenon
    <2> QED
        BY <2>2, <2>3, Zenon DEF MarkInv
<1>7. CoverInv'
    <2> SUFFICES ASSUME NEW o \in Stores, NEW n \in Names, refs[n] # None
                 PROVE  Covered(o, refs[n])'
        BY Zenon DEF CoverInv
    <2>1. CASE o = s
        BY <1>2, <2>1, Zenon DEF Covered
    <2>2. CASE o # s
        BY <1>2, <1>3, <2>2, OtherCover, Zenon
    <2> QED
        BY <2>1, <2>2, Zenon
<1> QED
    BY <1>2, <1>4, <1>5, <1>6, <1>7, Zenon

(* The invariant survives the end of a sweep, with no span of the store in *)
(* its gate (end_exclusive).                                               *)
LEMMA EndSweepInv ==
    ASSUME SafetyInv, NEW s \in Stores, EndSweep(s)
    PROVE  SafetyInv'
<1>1. /\ Spans(s) = {} /\ mode' = [mode EXCEPT ![s] = "out"] /\ UNCHANGED <<dir, view>>
      /\ GotoCycle(s, "idle") /\ ResetCycle(s)
    BY Zenon DEF EndSweep, SL!Leave, SL!SetMode
<1>2. UNCHANGED <<packs, refs, writer>>
    BY Zenon DEF EndSweep
<1>3. UNCHANGED <<holds, active, idle, pc, root, cur, done>> /\ Stored' = Stored
    BY <1>1, <1>2, Frames, Zenon DEF packs, writer
<1>4. LockTypes /\ GateInv /\ LocksInv /\ WriterInv /\ PackInv
    BY Zenon DEF SafetyInv, TypeOK
<1>5. /\ CycleTypes' /\ MarkTypes' /\ MarkInv' /\ CoverInv'
      /\ \A o \in Stores : cycle'[o] = IF o = s THEN "idle" ELSE cycle[o]
      /\ \A o \in Stores : grey'[o] = IF o = s THEN None ELSE grey[o]
      /\ \A o \in Stores : victims'[o] = IF o = s THEN {} ELSE victims[o]
    BY <1>1, <1>2, <1>3, ResetInv, Zenon
<1>6. LockTypes'
    BY <1>1, <1>4, Zenon DEF LockTypes
<1>7. GateInv'
    <2>1. \A w \in Writers : pc[w] \in InGate => StoreOf[w] # s /\ StoreOf[w] \in Stores
        BY <1>1, WritersAssumption, Zenon DEF Spans
    <2>2. \A o \in Stores : mode'[o] = IF o = s THEN "out" ELSE mode[o]
        BY <1>1, <1>4, Zenon DEF LockTypes
    <2> QED
        BY <1>1, <1>3, <1>4, <1>5, <2>1, <2>2 DEF GateInv
<1>8. LocksInv'
    BY <1>1, <1>3, MoveLocks, Zenon DEF GotoCycle, Snapshotting, Compacting, Paused
<1>9. WriterInv'
    <2>1. \A p \in Puts : StoreOf[p] \in Stores
        BY WritersAssumption, Zenon DEF Writers
    <2> QED
        BY <1>3, <1>4, <1>5, <2>1, Zenon DEF WriterInv
<1>10. PackInv'
    BY <1>1, <1>3, <1>4, <1>5, Zenon DEF PackInv
<1> QED
    BY <1>1, <1>2, <1>3, <1>5, <1>6, <1>7, <1>8, <1>9, <1>10, Frames, TypeFrames, Zenon
    DEF SafetyInv, TypeOK

(* The invariant survives the death of a process, whatever it was at: its  *)
(* locks go with it, and the packs it appended to stay.                    *)
LEMMA CrashInv ==
    ASSUME SafetyInv, NEW s \in Stores, Crash(s)
    PROVE  SafetyInv'
<1>1. /\ mode' = [mode EXCEPT ![s] = "out"] /\ dir' = dir
      /\ view' = [view EXCEPT ![s] = dir]
      /\ active' = [active EXCEPT ![s] = None]
      /\ idle' = idle \cup ({active[s]} \ {None})
    BY Zenon DEF Crash, SL!Leave, SL!SetMode
<1>2. GotoCycle(s, "idle") /\ ResetCycle(s) /\ UNCHANGED <<holds, refs>>
    BY Zenon DEF Crash
<1>3. /\ pc' = [w \in Writers |-> IF StoreOf[w] = s THEN "idle" ELSE pc[w]]
      /\ root' = [w \in Writers |-> IF StoreOf[w] = s THEN None ELSE root[w]]
      /\ cur' = [w \in Writers |-> IF StoreOf[w] = s THEN None ELSE cur[w]]
      /\ done' = [w \in Writers |-> IF StoreOf[w] = s THEN {} ELSE done[w]]
    BY Zenon DEF Crash
<1>4. Puts \subseteq Writers /\ StoreOf \in [Writers -> Stores] /\ Stored' = Stored
    BY <1>1, <1>2, WritersAssumption, Frames, Zenon DEF Writers
<1>5. /\ LockTypes /\ PackTypes /\ WriterTypes /\ CycleTypes
      /\ GateInv /\ LocksInv /\ WriterInv /\ PackInv /\ WritesStay
    BY Zenon DEF SafetyInv, TypeOK
<1>6. /\ CycleTypes' /\ MarkTypes' /\ MarkInv' /\ CoverInv'
      /\ \A o \in Stores : cycle'[o] = IF o = s THEN "idle" ELSE cycle[o]
      /\ \A o \in Stores : grey'[o] = IF o = s THEN None ELSE grey[o]
      /\ \A o \in Stores : victims'[o] = IF o = s THEN {} ELSE victims[o]
    BY <1>1, <1>2, ResetInv, Zenon
<1>7. LockTypes'
    BY <1>1, <1>5, Zenon DEF LockTypes
<1>8. PackTypes'
    BY <1>1, <1>2, <1>5, Zenon DEF PackTypes, PackInv
<1>9. WriterTypes'
    BY <1>3, <1>5, Zenon DEF WriterTypes
<1>10. GateInv'
    BY <1>1, <1>3, <1>4, <1>5, <1>6 DEF GateInv, LockTypes, InGate
<1>11. LocksInv'
    <2>1. \A o \in Stores : RefShared(o)' => o # s /\ RefShared(o)
        BY <1>3, <1>4, Zenon DEF RefShared, HoldsRefLock
    <2>2. \A o \in Stores : Spans(o)' \subseteq Spans(o)
        BY <1>3, <1>4, Zenon DEF Spans, InGate
    <2> QED
        BY <1>5, <1>6, <2>1, <2>2, Zenon DEF LocksInv, RefLocked, Snapshotting, Compacting, Paused
<1>12. WriterInv'
    <2>1. \A w \in Writers : /\ pc'[w] = "write" => cur'[w] \in Keys
                             /\ done'[w] # {} => pc'[w] \in InGate
        BY <1>3, <1>5, Zenon DEF WriterInv
    <2>2. \A p \in Puts : StoreOf[p] = s => pc'[p] = "idle"
        BY <1>3, <1>4, Zenon
    <2>3. \A p \in Puts : StoreOf[p] # s => /\ pc'[p] = pc[p] /\ root'[p] = root[p]
                                            /\ grey'[StoreOf[p]] = grey[StoreOf[p]]
        BY <1>3, <1>4, <1>6, Zenon
    <2> QED
        BY <1>4, <1>5, <2>1, <2>2, <2>3, Zenon DEF WriterInv
<1>13. PackInv'
    <2>1. \A o \in Stores : active'[o] = IF o = s THEN None ELSE active[o]
        BY <1>1, <1>5, Zenon DEF PackTypes
    <2> QED
        BY <1>1, <1>5, <1>6, <2>1, LinksAssumption DEF PackInv, CycleTypes
<1>14. RefsComplete' /\ WritesStay'
    BY <1>1, <1>2, <1>3, <1>4, <1>5, Frames, Zenon DEF WritesStay
<1> QED
    BY <1>2, <1>6, <1>7, <1>8, <1>9, <1>10, <1>11, <1>12, <1>13, <1>14, TypeFrames, Zenon
    DEF SafetyInv, TypeOK
=============================================================================
