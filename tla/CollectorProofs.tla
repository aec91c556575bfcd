-------------------------- MODULE CollectorProofs --------------------------
(***************************************************************************)
(* The safety of the collector (module Collector), proved for any number   *)
(* of processes, writers, references and packs, and any graph of objects:  *)
(* the steps of a cycle keep the invariant, as every other step does       *)
(* (CollectorWriterProofs), so it always holds, and an accepted reference  *)
(* never dangles.                                                          *)
(***************************************************************************)
EXTENDS CollectorWriterProofs

(* A set of links that holds the link to a root and is closed under        *)
(* following covers the root's closure (mark_from, check_complete).        *)
LEMMA ClosureLeast ==
    ASSUME NEW k \in Keys, NEW W \in SUBSET Links, LinkTo(k) \in W, FollowsAll(W)
    PROVE  Closure[k] \subseteq KeysOf(W)
<1>1. WalkOf[k] \subseteq W
    BY Zenon DEF WalkOf
<1> QED
    BY <1>1, Zenon DEF Closure, KeysOf

(* What a key says of itself is a link to it (fstree::link_to).            *)
LEMMA LinkToLink ==
    ASSUME NEW k \in Keys
    PROVE  LinkTo(k) \in Links /\ LinkTo(k).key = k /\ LinkTo(k).leaf = (k \in Leaves)
<1>1. LinkTo(k) \in Links
    BY SMT DEF Links, LinkTo
<1>2. LinkTo(k).key = k
    BY Zenon DEF LinkTo
<1>3. LinkTo(k).leaf = (k \in Leaves)
    BY Zenon DEF LinkTo
<1> QED
    BY <1>1, <1>2, <1>3, Zenon

(* The invariant survives a cycle going on, outside of a compaction, with  *)
(* the locks, the barrier and the mark that its next state calls for.      *)
LEMMA CycleMoveInv ==
    ASSUME SafetyInv, NEW s \in Stores, cycle[s] \notin Paused,
           NEW to \in {"gate", "idle", "snap", "mark", "failed", "compact"},
           cycle' = [cycle EXCEPT ![s] = to],
           UNCHANGED <<lock, packs, refs, grey, writer, stack, marked, walked, victims>>,
           MarkTypes',
           to \notin {"idle", "gate"} => mode[s] = "sweep",
           to \in {"gate", "compact"} => ~RefShared(s),
           grey[s] # None <=> to \in {"snap", "mark", "failed", "compact"},
           to \in {"idle", "gate"} => marked[s] = {},
           to = "compact" => stack[s] = {},
           to \in {"snap", "mark", "compact"} => cycle[s] \in {"snap", "mark", "compact"}
    PROVE  SafetyInv'
<1>1. UNCHANGED <<dir, holds, active, idle, pc, done>>
    BY Zenon DEF lock, packs, writer
<1>2. CycleTypes /\ PackInv /\ MarkInv /\ CoverInv
    BY Zenon DEF SafetyInv, TypeOK
<1>3. \A o \in Stores : cycle'[o] = IF o = s THEN to ELSE cycle[o]
    BY <1>2, Zenon DEF CycleTypes
<1>4. CycleTypes'
    BY <1>2, Zenon DEF CycleTypes, Compacting, Snapshotting
<1>5. LocksInv' /\ GateInv'
    BY <1>1, MoveLocks, MoveGate, Zenon DEF Snapshotting, Compacting, Paused
<1>6. PackInv'
    BY <1>1, <1>2, <1>3, Zenon DEF PackInv
<1>7. Black(s)' = Black(s)
    BY Zenon DEF Black
<1>8. MarkInv'
    <2>1. MarkSound(s)
        BY <1>2, Zenon DEF MarkInv
    <2>2. MarkSound(s)'
        BY <1>3, <1>7, <2>1, Zenon DEF MarkSound, Snapshotting
    <2>3. \A o \in Stores : o # s => MarkSound(o)'
        BY <1>3, OtherStore, Zenon
    <2> QED
        BY <2>2, <2>3, Zenon DEF MarkInv
<1>9. CoverInv'
    <2> SUFFICES ASSUME NEW o \in Stores, NEW n \in Names, refs[n] # None
                 PROVE  Covered(o, refs[n])'
        BY Zenon DEF CoverInv
    <2>1. CASE o = s
        <3>1. Covered(s, refs[n])
            BY <1>2, Zenon DEF CoverInv
        <3> QED
            BY <1>3, <1>7, <2>1, <3>1, Zenon DEF Covered
    <2>2. CASE o # s
        BY <1>1, <1>3, <2>2, OtherCover, Zenon
    <2> QED
        BY <2>1, <2>2, Zenon
<1> QED
    BY <1>1, <1>4, <1>5, <1>6, <1>8, <1>9, Frames, TypeFrames, Zenon DEF SafetyInv, TypeOK

(* The invariant survives a cycle taking the reference lock. *)
LEMMA LockSnapshotInv ==
    ASSUME SafetyInv, NEW s \in Stores, LockSnapshot(s)
    PROVE  SafetyInv'
<1>1. /\ cycle[s] = "idle" /\ ~RefShared(s) /\ cycle' = [cycle EXCEPT ![s] = "gate"]
      /\ UNCHANGED <<lock, packs, refs, grey, writer, mark, victims>>
    BY Zenon DEF LockSnapshot, GotoCycle
<1>2. grey[s] = None /\ marked[s] = {}
    BY <1>1, Zenon DEF SafetyInv, MarkInv, MarkSound
<1>3. MarkTypes' /\ UNCHANGED <<stack, marked, walked>>
    BY <1>1, TypeFrames, Zenon DEF mark
<1> QED
    BY <1>1, <1>2, <1>3, CycleMoveInv, Zenon DEF Paused

(* The invariant survives a cycle giving the gate up (a cancel). *)
LEMMA GateCanceledInv ==
    ASSUME SafetyInv, NEW s \in Stores, GateCanceled(s)
    PROVE  SafetyInv'
<1>1. /\ cycle[s] = "gate" /\ cycle' = [cycle EXCEPT ![s] = "idle"]
      /\ UNCHANGED <<lock, packs, refs, grey, writer, mark, victims>>
    BY Zenon DEF GateCanceled, GotoCycle
<1>2. grey[s] = None /\ marked[s] = {}
    BY <1>1, Zenon DEF SafetyInv, MarkInv, MarkSound, Snapshotting
<1>3. MarkTypes' /\ UNCHANGED <<stack, marked, walked>>
    BY <1>1, TypeFrames, Zenon DEF mark
<1> QED
    BY <1>1, <1>2, <1>3, CycleMoveInv, Zenon DEF Paused

(* The invariant survives the mark set being made (new_mark_set). *)
LEMMA NewMarkSetInv ==
    ASSUME SafetyInv, NEW s \in Stores, NewMarkSet(s)
    PROVE  SafetyInv'
<1>1. /\ cycle[s] = "snap" /\ cycle' = [cycle EXCEPT ![s] = "mark"]
      /\ snap' = [snap EXCEPT ![s] = Seen(s)]
      /\ UNCHANGED <<lock, packs, refs, grey, writer, stack, marked, walked, victims>>
    BY Zenon DEF NewMarkSet, GotoCycle
<1>2. LockTypes /\ PackTypes /\ MarkTypes
    BY Zenon DEF SafetyInv, TypeOK
<1>3. Seen(s) \in SUBSET Keys
    BY <1>2 DEF LockTypes, PackTypes, Seen, InPacks
<1>4. MarkTypes'
    BY <1>1, <1>2, <1>3, Zenon DEF MarkTypes
<1>5. grey[s] # None /\ mode[s] = "sweep"
    BY <1>1, Zenon DEF SafetyInv, MarkInv, MarkSound, GateInv
<1> QED
    BY <1>1, <1>4, <1>5, CycleMoveInv, Zenon DEF Paused

(* The invariant survives a mark that fails (mark_live). *)
LEMMA MarkFailsInv ==
    ASSUME SafetyInv, NEW s \in Stores, MarkFails(s)
    PROVE  SafetyInv'
<1>1. /\ cycle[s] \in {"snap", "mark"} /\ cycle' = [cycle EXCEPT ![s] = "failed"]
      /\ UNCHANGED <<lock, packs, refs, grey, writer, mark, victims>>
    BY Zenon DEF MarkFails, GotoCycle
<1>2. grey[s] # None /\ mode[s] = "sweep"
    BY <1>1, Zenon DEF SafetyInv, MarkInv, MarkSound, GateInv
<1>3. MarkTypes' /\ UNCHANGED <<stack, marked, walked>>
    BY <1>1, TypeFrames, Zenon DEF mark
<1> QED
    BY <1>1, <1>2, <1>3, CycleMoveInv, Zenon DEF Paused

(* The invariant survives the end of the mark, under the reference lock. *)
LEMMA MarkedInv ==
    ASSUME SafetyInv, NEW s \in Stores, Marked(s)
    PROVE  SafetyInv'
<1>1. /\ cycle[s] = "mark" /\ stack[s] = {} /\ ~RefShared(s)
      /\ cycle' = [cycle EXCEPT ![s] = "compact"]
      /\ UNCHANGED <<lock, packs, refs, grey, writer, mark, victims>>
    BY Zenon DEF Marked, GotoCycle
<1>2. grey[s] # None /\ mode[s] = "sweep"
    BY <1>1, Zenon DEF SafetyInv, MarkInv, MarkSound, GateInv
<1>3. MarkTypes' /\ UNCHANGED <<stack, marked, walked>>
    BY <1>1, TypeFrames, Zenon DEF mark
<1> QED
    BY <1>1, <1>2, <1>3, CycleMoveInv, Zenon DEF Paused

(* The invariant survives a cycle taking the gate: every other store is    *)
(* out (Gate::begin_exclusive).                                            *)
LEMMA BeginSweepInv ==
    ASSUME SafetyInv, NEW s \in Stores, BeginSweep(s)
    PROVE  SafetyInv'
<1>1. /\ cycle[s] = "gate" /\ cycle' = [cycle EXCEPT ![s] = "barrier"]
      /\ \A o \in Stores : mode[o] = "out"
      /\ mode' = [mode EXCEPT ![s] = "sweep"]
      /\ view' = [view EXCEPT ![s] = dir] /\ dir' = dir
    BY Zenon DEF BeginSweep, GotoCycle, SL!BeginSweep, SL!SetMode
<1>2. UNCHANGED <<packs, refs, grey, writer, mark, victims>>
    BY Zenon DEF BeginSweep
<1>3. UNCHANGED <<holds, active, idle, stack, marked, walked, pc, done>>
    BY <1>2, Zenon DEF packs, mark, writer
<1>4. LockTypes /\ CycleTypes /\ GateInv /\ LocksInv /\ PackInv /\ MarkInv
    BY Zenon DEF SafetyInv, TypeOK
<1>5. \A o \in Stores : cycle'[o] = IF o = s THEN "barrier" ELSE cycle[o]
    BY <1>1, <1>4, Zenon DEF CycleTypes
<1>6. LockTypes'
    BY <1>1, <1>4, Zenon DEF LockTypes
<1>7. CycleTypes'
    BY <1>1, <1>2, <1>4, Zenon DEF CycleTypes, Snapshotting
<1>8. GateInv'
    BY <1>1, <1>3, <1>4, <1>5, WritersAssumption DEF GateInv, LockTypes
<1>9. LocksInv'
    <2>1. ~RefShared(s)
        BY <1>1, <1>4, Zenon DEF LocksInv, RefLocked, Snapshotting
    <2> QED
        BY <1>1, <1>3, <2>1, MoveLocks, Zenon DEF Paused
<1>10. PackInv'
    BY <1>1, <1>2, <1>3, <1>4, <1>5, Zenon DEF PackInv, Paused
<1>11. MarkInv'
    <2>1. MarkSound(s) /\ Black(s)' = Black(s) /\ cycle'[s] = "barrier"
        BY <1>3, <1>4, <1>5, Zenon DEF MarkInv, Black
    <2>2. MarkSound(s)'
        BY <1>1, <1>2, <1>3, <2>1, Zenon DEF MarkSound, Snapshotting, Paused
    <2>3. \A o \in Stores : o # s => MarkSound(o)'
        BY <1>2, <1>3, <1>5, OtherStore, Zenon
    <2> QED
        BY <2>2, <2>3, Zenon DEF MarkInv
<1>12. CoverInv'
    <2>1. \A o \in Stores : cycle'[o] \in {"idle", "gate", "barrier"}
        BY <1>1, <1>4, <1>5, Zenon DEF GateInv
    <2> QED
        BY <2>1, Zenon DEF CoverInv, Covered
<1> QED
    BY <1>1, <1>2, <1>3, <1>6, <1>7, <1>8, <1>9, <1>10, <1>11, <1>12, Frames, TypeFrames, Zenon
    DEF SafetyInv, TypeOK

(* The stores besides one that sweeps have no cycle past the gate, so      *)
(* nothing to cover.                                                       *)
LEMMA OthersIdle ==
    ASSUME SafetyInv, NEW s \in Stores, cycle[s] \notin {"idle", "gate"}
    PROVE  \A o \in Stores : o # s => /\ mode[o] = "out"
                                      /\ cycle[o] \in {"idle", "gate"}
                                      /\ victims[o] = {}
                                      /\ Spans(o) = {}
<1>1. GateInv /\ PackInv /\ StoreOf \in [Writers -> Stores]
    BY WritersAssumption, Zenon DEF SafetyInv
<1>2. mode[s] = "sweep"
    BY <1>1, Zenon DEF GateInv
<1>3. \A o \in Stores : o # s => mode[o] = "out" /\ cycle[o] \in {"idle", "gate"}
    BY <1>1, <1>2, Zenon DEF GateInv
<1> QED
    BY <1>1, <1>3 DEF GateInv, PackInv, Spans, Paused

(* The invariant survives the barrier going on: no PUT is past it          *)
(* (begin_barrier).                                                        *)
LEMMA BeginBarrierInv ==
    ASSUME SafetyInv, NEW s \in Stores, BeginBarrier(s)
    PROVE  SafetyInv'
<1>1. /\ cycle[s] = "barrier" /\ cycle' = [cycle EXCEPT ![s] = "roots"]
      /\ grey' = [grey EXCEPT ![s] = {}]
    BY Zenon DEF BeginBarrier, GotoCycle
<1>2. UNCHANGED <<lock, packs, refs, writer, mark, victims>>
    BY Zenon DEF BeginBarrier
<1>3. /\ UNCHANGED <<dir, holds, active, idle, stack, marked, walked, pc, root, cur, done>>
      /\ Stored' = Stored
    BY <1>2, Frames, Zenon DEF lock, packs, mark, writer
<1>4. CycleTypes /\ GateInv /\ LocksInv /\ WriterInv /\ PackInv /\ MarkInv
    BY Zenon DEF SafetyInv, TypeOK
<1>5. /\ \A o \in Stores : cycle'[o] = IF o = s THEN "roots" ELSE cycle[o]
      /\ \A o \in Stores : grey'[o] = IF o = s THEN {} ELSE grey[o]
    BY <1>1, <1>4, Zenon DEF CycleTypes
<1>6. CycleTypes'
    BY <1>1, <1>2, <1>4, Zenon DEF CycleTypes, Snapshotting
<1>7. ~RefShared(s) /\ mode[s] = "sweep"
    BY <1>1, <1>4, Zenon DEF LocksInv, RefLocked, Snapshotting, GateInv
<1>8. GateInv' /\ LocksInv'
    BY <1>1, <1>2, <1>3, <1>7, MoveLocks, MoveGate, Zenon DEF Paused
<1>9. WriterInv'
    <2>1. \A p \in Puts : StoreOf[p] \in Stores /\ (pc[p] = "commit" => StoreOf[p] # s)
        BY <1>7, WritersAssumption, Zenon DEF RefShared, HoldsRefLock, Writers
    <2> QED
        BY <1>3, <1>4, <1>5, <2>1, Zenon DEF WriterInv
<1>10. PackInv'
    BY <1>1, <1>2, <1>3, <1>4, <1>5, Zenon DEF PackInv, Paused
<1>11. MarkInv'
    <2>1. /\ MarkSound(s) /\ Black(s)' = Black(s)
          /\ cycle'[s] = "roots" /\ grey'[s] = {} /\ {} # None
        BY <1>3, <1>4, <1>5, LinksAssumption, Zenon DEF MarkInv, Black
    <2>2. MarkSound(s)'
        BY <1>1, <1>3, <2>1, Zenon DEF MarkSound, Snapshotting, Paused
    <2>3. \A o \in Stores : o # s => MarkSound(o)'
        BY <1>2, <1>3, <1>5, OtherStore, Zenon
    <2> QED
        BY <2>2, <2>3, Zenon DEF MarkInv
<1>12. CoverInv'
    <2>1. \A o \in Stores : cycle'[o] \in {"idle", "gate", "roots"}
        BY <1>1, <1>5, OthersIdle, Zenon
    <2> QED
        BY <2>1, Zenon DEF CoverInv, Covered
<1> QED
    BY <1>2, <1>3, <1>6, <1>8, <1>9, <1>10, <1>11, <1>12, Frames, TypeFrames, Zenon DEF SafetyInv, TypeOK

(* The invariant survives the roots going on the stack, every reference's  *)
(* among them (RefStore::roots).                                           *)
LEMMA RootsInv ==
    ASSUME SafetyInv, NEW s \in Stores, Roots(s)
    PROVE  SafetyInv'
<1> DEFINE R == {LinkTo(refs[n]) : n \in {m \in Names : refs[m] # None}}
<1>1. /\ cycle[s] = "roots" /\ cycle' = [cycle EXCEPT ![s] = "snap"]
      /\ stack' = [stack EXCEPT ![s] = R]
    BY Zenon DEF Roots, GotoCycle
<1>2. UNCHANGED <<lock, packs, refs, grey, writer, snap, marked, walked, victims>>
    BY Zenon DEF Roots
<1>3. UNCHANGED <<dir, holds, active, idle, pc, done>>
    BY <1>2, Zenon DEF lock, packs, writer
<1>4. CycleTypes /\ MarkTypes /\ RefTypes /\ GateInv /\ PackInv /\ MarkInv
    BY Zenon DEF SafetyInv, TypeOK
<1>5. R \in SUBSET Links /\ \A l \in R : l.leaf <=> l.key \in Leaves
    <2>1. \A n \in Names : refs[n] # None => refs[n] \in Keys
        BY <1>4, Zenon DEF RefTypes
    <2>2. \A k \in Keys : LinkTo(k) \in Links /\ (LinkTo(k).leaf <=> LinkTo(k).key \in Leaves)
        BY LinkToLink, Zenon
    <2> QED
        BY <2>1, <2>2, Zenon
<1>6. \A n \in Names : refs[n] # None => LinkTo(refs[n]) \in R
    OBVIOUS
<1> HIDE DEF R
<1>7. /\ \A o \in Stores : cycle'[o] = IF o = s THEN "snap" ELSE cycle[o]
      /\ \A o \in Stores : stack'[o] = IF o = s THEN R ELSE stack[o]
    BY <1>1, <1>4, Zenon DEF CycleTypes, MarkTypes
<1>8. CycleTypes'
    BY <1>1, <1>2, <1>4, Zenon DEF CycleTypes
<1>9. MarkTypes'
    BY <1>1, <1>2, <1>4, <1>5, Zenon DEF MarkTypes
<1>10. GateInv' /\ LocksInv'
    <2>1. mode[s] = "sweep"
        BY <1>1, <1>4, Zenon DEF GateInv
    <2> QED
        BY <1>1, <1>2, <1>3, <2>1, MoveLocks, MoveGate, Zenon DEF Snapshotting, Compacting, Paused
<1>11. PackInv'
    BY <1>1, <1>2, <1>3, <1>4, <1>7, Zenon DEF PackInv, Paused
<1>12. MarkInv'
    <2>1. MarkSound(s) /\ Black(s)' = Black(s)
        BY <1>2, <1>4, Zenon DEF MarkInv, Black
    <2>2. Black(s) = {} /\ grey[s] # None
        BY <1>1, <2>1, Zenon DEF MarkSound, Black, Snapshotting
    <2>3. MarkSound(s)'
        BY <1>2, <1>5, <1>7, <2>1, <2>2, Zenon DEF MarkSound, Snapshotting
    <2>4. \A o \in Stores : o # s => MarkSound(o)'
        BY <1>2, <1>7, OtherStore, Zenon
    <2> QED
        BY <2>3, <2>4, Zenon DEF MarkInv
<1>13. CoverInv'
    <2>1. \A o \in Stores : o # s => cycle'[o] \in {"idle", "gate"}
        BY <1>1, <1>7, OthersIdle, Zenon
    <2> QED
        BY <1>2, <1>6, <1>7, <2>1, Zenon DEF CoverInv, Covered, LinkTo
<1> QED
    BY <1>2, <1>3, <1>8, <1>9, <1>10, <1>11, <1>12, <1>13, Frames, TypeFrames, Zenon
    DEF SafetyInv, TypeOK

-----------------------------------------------------------------------------
(* The mark.                                                               *)

(* One link popped: what was black stays so, the link popped is black or   *)
(* was, and the links of what became black are on the stack (mark_from).   *)
LEMMA MarkFromBlack ==
    ASSUME SafetyInv, NEW s \in Stores, NEW l \in Links, MarkFrom(s, l)
    PROVE  /\ Black(s) \cup stack[s] \subseteq Black(s)' \cup stack'[s]
           /\ \A m \in Black(s)' : ~m.leaf => LinksOf[m.key] \subseteq Black(s)' \cup stack'[s]
<1> DEFINE k == l.key
           newly == IF k \in Git THEN k \notin walked[s] ELSE k \notin marked[s]
           follow == ~l.leaf /\ newly
<1>1. MarkTypes /\ MarkSound(s) /\ k \in Keys
    BY Zenon DEF SafetyInv, TypeOK, MarkInv, Links
<1>2. /\ l \in stack[s] /\ cycle[s] = "mark"
      /\ marked' = [marked EXCEPT ![s] = @ \cup {k}]
      /\ walked' = IF follow /\ k \in Git THEN [walked EXCEPT ![s] = @ \cup {k}] ELSE walked
      /\ stack' = [stack EXCEPT ![s] = (@ \ {l}) \cup IF follow THEN LinksOf[k] ELSE {}]
    BY Zenon DEF MarkFrom
<1>3. /\ marked'[s] = marked[s] \cup {k}
      /\ walked'[s] = walked[s] \cup IF follow /\ k \in Git THEN {k} ELSE {}
      /\ stack'[s] = (stack[s] \ {l}) \cup IF follow THEN LinksOf[k] ELSE {}
    BY <1>1, <1>2, Zenon DEF MarkTypes
<1>4. /\ walked[s] \subseteq marked[s]
      /\ k \notin Git => (l.leaf <=> k \in Leaves)
      /\ \A m \in Black(s) : ~m.leaf => LinksOf[m.key] \subseteq Black(s) \cup stack[s]
    BY <1>1, <1>2, Zenon DEF MarkSound, Paused
<1>5. Black(s) \subseteq Black(s)'
    BY <1>3, Zenon DEF Black
<1>6. l \in Black(s)'
    BY <1>3, Zenon DEF Black
<1>7. Black(s) \cup stack[s] \subseteq Black(s)' \cup stack'[s]
    BY <1>3, <1>5, <1>6, Zenon
<1>8. ASSUME NEW m \in Black(s)', ~m.leaf
      PROVE  LinksOf[m.key] \subseteq Black(s)' \cup stack'[s]
    <2>1. CASE m \in Black(s)
        BY <1>4, <1>7, <1>8, <2>1, Zenon
    <2>2. CASE m \notin Black(s)
        <3>1. m.key = k /\ newly
            BY <1>3, <1>4, <1>8, <2>2, Zenon DEF Black
        <3>2. CASE follow
            BY <1>3, <3>1, <3>2, Zenon
        <3>3. CASE ~follow
            <4>1. l.leaf /\ k \notin Git
                BY <1>3, <1>8, <2>2, <3>1, <3>3, Zenon DEF Black
            <4>2. LinksOf[k] = {}
                BY <1>4, <4>1, LinksAssumption, Zenon
            <4> QED
                BY <3>1, <4>2, Zenon
        <3> QED
            BY <3>2, <3>3, Zenon
    <2> QED
        BY <2>1, <2>2, Zenon
<1> QED
    BY <1>7, <1>8, Zenon

(* The invariant survives a link being popped (mark_from).                 *)
LEMMA MarkFromInv ==
    ASSUME SafetyInv, NEW s \in Stores, NEW l \in Links, MarkFrom(s, l)
    PROVE  SafetyInv'
<1> DEFINE k == l.key
           newly == IF k \in Git THEN k \notin walked[s] ELSE k \notin marked[s]
           follow == ~l.leaf /\ newly
           P == IF follow THEN LinksOf[k] ELSE {}
           Q == IF follow /\ k \in Git THEN {k} ELSE {}
<1>1. MarkTypes /\ MarkSound(s) /\ CoverInv /\ k \in Keys
    BY Zenon DEF SafetyInv, TypeOK, MarkInv, Links
<1>2. /\ cycle[s] = "mark"
      /\ marked' = [marked EXCEPT ![s] = @ \cup {k}]
      /\ walked' = IF follow /\ k \in Git THEN [walked EXCEPT ![s] = @ \cup {k}] ELSE walked
      /\ stack' = [stack EXCEPT ![s] = (@ \ {l}) \cup P]
    BY Zenon DEF MarkFrom
<1>3. UNCHANGED <<lock, packs, refs, grey, writer, cycle, snap, victims>>
    BY Zenon DEF MarkFrom
<1>4. UNCHANGED <<dir, holds, active, idle, pc, done>>
    BY <1>3, Zenon DEF lock, packs, writer
<1>5. P \in SUBSET Links /\ \A m \in P : m.key \notin Git => (m.leaf <=> m.key \in Leaves)
    BY <1>1, LinksAssumption, Zenon
<1>6. Q \in SUBSET Keys /\ Q \subseteq {k} /\ walked' = [walked EXCEPT ![s] = @ \cup Q]
    <2>1. CASE follow /\ k \in Git
        BY <1>1, <1>2, <2>1, Zenon
    <2>2. CASE ~(follow /\ k \in Git)
        <3>1. Q = {} /\ walked' = walked /\ walked \in [Stores -> SUBSET Keys]
            BY <1>1, <1>2, <2>2, Zenon DEF MarkTypes
        <3> QED
            BY <3>1, Zenon
    <2> QED
        BY <2>1, <2>2, Zenon
<1> HIDE DEF P, Q
<1>7. /\ \A o \in Stores : marked'[o] = IF o = s THEN marked[s] \cup {k} ELSE marked[o]
      /\ \A o \in Stores : walked'[o] = IF o = s THEN walked[s] \cup Q ELSE walked[o]
      /\ \A o \in Stores : stack'[o] = IF o = s THEN (stack[s] \ {l}) \cup P ELSE stack[o]
    <2> HIDE DEF k, follow
    <2> QED
        BY <1>1, <1>2, <1>6, Zenon DEF MarkTypes
<1>8. MarkTypes'
    BY <1>1, <1>2, <1>3, <1>5, <1>6, Zenon DEF MarkTypes
<1>9. MarkInv'
    <2>1. MarkSound(s)'
        <3>1. walked'[s] \subseteq marked'[s]
            BY <1>1, <1>6, <1>7 DEF MarkSound
        <3>2. \A m \in stack'[s] : m.key \notin Git => (m.leaf <=> m.key \in Leaves)
            BY <1>1, <1>5, <1>7, Zenon DEF MarkSound
        <3>3. \A m \in Black(s)' : ~m.leaf => LinksOf[m.key] \subseteq Black(s)' \cup stack'[s]
            BY MarkFromBlack, Zenon
        <3>4. grey[s] # None <=> cycle[s] \in {"roots", "snap", "mark", "failed", "compact"}
            BY <1>1, Zenon DEF MarkSound
        <3> QED
            BY <1>2, <1>3, <3>1, <3>2, <3>3, <3>4, Zenon DEF MarkSound, Snapshotting
    <2>2. \A o \in Stores : o # s => MarkSound(o)'
        BY <1>3, <1>7, OtherStore, Zenon
    <2> QED
        BY <2>1, <2>2, Zenon DEF MarkInv
<1>10. CoverInv'
    <2> SUFFICES ASSUME NEW o \in Stores, NEW n \in Names, refs[n] # None
                 PROVE  Covered(o, refs[n])'
        BY <1>3, Zenon DEF CoverInv
    <2>1. CASE o = s
        <3>1. Closure[refs[n]] \subseteq grey[s] \/ LinkTo(refs[n]) \in Black(s) \cup stack[s]
            <4>1. Covered(s, refs[n])
                BY <1>1, Zenon DEF CoverInv
            <4> QED
                BY <1>2, <4>1, Zenon DEF Covered
        <3>2. Closure[refs[n]] \subseteq grey[s] \/ LinkTo(refs[n]) \in Black(s)' \cup stack'[s]
            BY <3>1, MarkFromBlack, Zenon
        <3> QED
            BY <1>2, <1>3, <2>1, <3>2, Zenon DEF Covered, LinkTo
    <2>2. CASE o # s
        BY <1>3, <1>4, <1>7, <2>2, OtherCover, Zenon
    <2> QED
        BY <2>1, <2>2, Zenon
<1> QED
    BY <1>3, <1>4, <1>8, <1>9, <1>10, Frames, TypeFrames, Zenon DEF SafetyInv, TypeOK

-----------------------------------------------------------------------------
(* The compaction.                                                         *)

(* While a store compacts, no span is in any gate: nothing is acknowledged *)
(* and no PUT is under way.                                                *)
LEMMA CompactAlone ==
    ASSUME SafetyInv, NEW s \in Stores, cycle[s] \in {"compact"} \cup Paused, Spans(s) = {}
    PROVE  /\ mode[s] = "sweep" /\ view[s] \subseteq dir /\ ~RefShared(s)
           /\ \A w \in Writers : pc[w] \notin InGate /\ done[w] = {}
           /\ \A o \in Stores : o # s => /\ mode[o] = "out"
                                         /\ cycle[o] \in {"idle", "gate"}
                                         /\ victims[o] = {}
<1>1. GateInv /\ LocksInv /\ WriterInv /\ StoreOf \in [Writers -> Stores]
    BY WritersAssumption, Zenon DEF SafetyInv
<1>2. mode[s] = "sweep" /\ view[s] \subseteq dir /\ ~RefShared(s)
    BY <1>1, Zenon DEF GateInv, LocksInv, RefLocked, Compacting, Paused
<1>3. \A o \in Stores : o # s => /\ mode[o] = "out" /\ cycle[o] \in {"idle", "gate"}
                                 /\ victims[o] = {} /\ Spans(o) = {}
    BY OthersIdle, Zenon DEF Paused
<1>4. \A w \in Writers : pc[w] \notin InGate
    BY <1>1, <1>3, Zenon DEF Spans
<1> QED
    BY <1>1, <1>2, <1>3, <1>4, Zenon DEF WriterInv

(* With the mark through, a reference's tree is marked, or the barrier     *)
(* captured it.                                                            *)
LEMMA MarkedOrGrey ==
    ASSUME SafetyInv, NEW s \in Stores, cycle[s] = "compact", NEW n \in Names, refs[n] # None
    PROVE  Closure[refs[n]] \subseteq marked[s] \cup grey[s]
<1>1. MarkSound(s) /\ Covered(s, refs[n]) /\ refs[n] \in Keys
    BY Zenon DEF SafetyInv, TypeOK, RefTypes, MarkInv, CoverInv
<1>2. stack[s] = {} /\ FollowsAll(Black(s))
    BY <1>1, Zenon DEF MarkSound, FollowsAll, Paused
<1>3. Closure[refs[n]] \subseteq grey[s] \/ LinkTo(refs[n]) \in Black(s)
    BY <1>1, <1>2, Zenon DEF Covered
<1>4. CASE LinkTo(refs[n]) \in Black(s)
    <2>1. Black(s) \in SUBSET Links /\ KeysOf(Black(s)) \subseteq marked[s]
        BY Zenon DEF Black, KeysOf
    <2> QED
        BY <1>1, <1>2, <1>4, <2>1, ClosureLeast, Zenon
<1> QED
    BY <1>3, <1>4, Zenon

(* The invariant survives the choice of victims: packs of this store's     *)
(* view that no store appends to (Store::compact).                         *)
LEMMA SelectVictimsInv ==
    ASSUME SafetyInv, NEW s \in Stores, SelectVictims(s)
    PROVE  SafetyInv'
<1> DEFINE live == marked[s] \cup grey[s]
<1>1. /\ cycle[s] = "compact" /\ cycle' = [cycle EXCEPT ![s] = "copy"] /\ Spans(s) = {}
      /\ marked' = [marked EXCEPT ![s] = live]
      /\ grey' = [grey EXCEPT ![s] = None]
    BY Zenon DEF SelectVictims, GotoCycle
<1>2. UNCHANGED <<lock, holds, refs, writer, snap, stack, walked>>
    BY Zenon DEF SelectVictims
<1>3. PICK grow \in BOOLEAN :
          /\ active' = IF grow THEN [active EXCEPT ![s] = None] ELSE active
          /\ idle' = IF grow THEN {} ELSE idle
          /\ \E V \in SUBSET Sealed(s, grow) : victims' = [victims EXCEPT ![s] = V]
    BY Zenon DEF SelectVictims
<1>4. PICK V \in SUBSET Sealed(s, grow) : victims' = [victims EXCEPT ![s] = V]
    BY <1>3, Zenon
<1>5. UNCHANGED <<mode, dir, view, pc, root, cur, done>> /\ Stored' = Stored
    BY <1>2, Frames, Zenon DEF lock, writer
<1>6. /\ LockTypes /\ PackTypes /\ CycleTypes /\ MarkTypes
      /\ WriterInv /\ PackInv /\ MarkSound(s)
    BY Zenon DEF SafetyInv, TypeOK, MarkInv
<1>7. /\ mode[s] = "sweep" /\ view[s] \subseteq dir /\ ~RefShared(s)
      /\ \A w \in Writers : pc[w] \notin InGate
      /\ \A o \in Stores : o # s => cycle[o] \in {"idle", "gate"} /\ victims[o] = {}
    BY <1>1, CompactAlone, Zenon
<1>8. live \in SUBSET Keys
    BY <1>1, <1>6, Zenon DEF CycleTypes, MarkTypes, MarkSound
<1>9. /\ V \subseteq dir /\ V \cap idle' = {} /\ idle' \subseteq idle
      /\ \A o \in Stores : active'[o] \in {active[o], None} /\ active'[o] \notin V
    <2>1. V \subseteq view[s] /\ None \notin V
        BY <1>6, LinksAssumption, Zenon DEF Sealed, LockTypes
    <2>2. CASE grow
        BY <1>3, <1>6, <1>7, <2>1, <2>2, Zenon DEF Sealed, PackTypes
    <2>3. CASE ~grow
        BY <1>3, <1>6, <1>7, <2>1, <2>3, Zenon DEF Sealed, PackTypes
    <2> QED
        BY <2>2, <2>3, Zenon
<1> HIDE DEF live
<1>10. /\ \A o \in Stores : cycle'[o] = IF o = s THEN "copy" ELSE cycle[o]
       /\ \A o \in Stores : grey'[o] = IF o = s THEN None ELSE grey[o]
       /\ \A o \in Stores : victims'[o] = IF o = s THEN V ELSE victims[o]
       /\ \A o \in Stores : marked'[o] = IF o = s THEN live ELSE marked[o]
    BY <1>1, <1>4, <1>6, Zenon DEF CycleTypes, MarkTypes
<1>11. PackTypes'
    <2>1. active' \in [Stores -> Packs \cup {None}]
        BY <1>3, <1>6, Zenon DEF PackTypes
    <2> QED
        BY <1>2, <1>5, <1>6, <1>9, <2>1, Zenon DEF PackTypes
<1>12. CycleTypes'
    BY <1>1, <1>4, <1>6, <1>9, Zenon DEF CycleTypes, Compacting, LockTypes
<1>13. MarkTypes'
    BY <1>1, <1>2, <1>6, <1>8, Zenon DEF MarkTypes
<1>14. GateInv' /\ LocksInv'
    BY <1>1, <1>2, <1>5, <1>7, MoveLocks, MoveGate, Zenon
<1>15. WriterInv'
    <2>1. \A p \in Puts : p \in Writers /\ pc[p] \notin {"walked", "commit"}
        BY <1>7, Zenon DEF Writers, InGate
    <2> QED
        BY <1>5, <1>6, <2>1, Zenon DEF WriterInv
<1>16. PackInv'
    BY <1>5, <1>6, <1>7, <1>9, <1>10 DEF PackInv, Paused
<1>17. MarkInv'
    <2>1. MarkSound(s)'
        BY <1>2, <1>6, <1>10, Zenon DEF MarkSound, Snapshotting, live, Paused
    <2>2. \A o \in Stores : o # s => MarkSound(o)'
        BY <1>2, <1>10, OtherStore, Zenon
    <2> QED
        BY <2>1, <2>2, Zenon DEF MarkInv
<1>18. CoverInv'
    <2>1. \A n \in Names : refs[n] # None => Closure[refs[n]] \subseteq live
        BY <1>1, MarkedOrGrey, Zenon DEF live
    <2> QED
        BY <1>2, <1>7, <1>10, <2>1, Zenon DEF CoverInv, Covered
<1> QED
    BY <1>2, <1>5, <1>11, <1>12, <1>13, <1>14, <1>15, <1>16, <1>17, <1>18, Frames, TypeFrames, Zenon
    DEF SafetyInv, TypeOK

(* The live records of the victims have copies outside of them once        *)
(* copying is done (copy_live).                                            *)
LEMMA CopyLiveKeeps ==
    ASSUME SafetyInv, NEW s \in Stores, CopyLive(s)
    PROVE  /\ dir \subseteq dir' /\ mode' = mode
           /\ LockTypes' /\ PackTypes' /\ PackInv'
           /\ \A o \in Stores : mode[o] # "out" => view'[o] \subseteq dir'
           /\ \A h \in dir : holds'[h] = holds[h]
           /\ \A n \in Names : refs[n] # None
                 => Closure[refs[n]] \subseteq InPacks(dir \ victims[s])'
<1> DEFINE live == InPacks(victims[s]) \cap marked[s]
           alone == live \ InPacks(view[s] \ victims[s])
           foreign == InPacks({active[o] : o \in Stores \ {s}} \cap view[s])
<1>1. /\ cycle[s] = "copy" /\ cycle' = [cycle EXCEPT ![s] = "detach"]
      /\ UNCHANGED <<idle, refs, victims>>
    BY Zenon DEF CopyLive, GotoCycle
<1>2. PICK F \in SUBSET (live \cap foreign) :
          IF alone \cup F = {}
          THEN UNCHANGED <<lock, holds, active>>
          ELSE \E g \in Packs :
               /\ SL!Create(s, g)
               /\ holds' = [holds EXCEPT ![g] = alone \cup F]
               /\ active' = [active EXCEPT ![s] = g]
    BY Zenon DEF CopyLive
<1>3. LockTypes /\ PackTypes /\ CycleTypes /\ GateInv /\ PackInv /\ CoverInv /\ RefsComplete
    BY Zenon DEF SafetyInv, TypeOK
<1>4. Spans(s) = {}
    BY <1>1, Zenon DEF SafetyInv, LocksInv, Paused
<1>5. /\ mode[s] = "sweep" /\ view[s] \subseteq dir
      /\ \A o \in Stores : o # s => victims[o] = {}
    BY <1>1, <1>4, CompactAlone, Zenon DEF Paused
<1>6. \A o \in Stores : cycle'[o] = IF o = s THEN "detach" ELSE cycle[o]
    BY <1>1, <1>3, Zenon DEF CycleTypes
<1>7. \A n \in Names : refs[n] # None =>
          Closure[refs[n]] \subseteq InPacks(dir \ victims[s]) \cup alone
    <2> SUFFICES ASSUME NEW n \in Names, refs[n] # None, NEW x \in Closure[refs[n]]
                 PROVE  x \in InPacks(dir \ victims[s]) \cup alone
        BY Zenon
    <2>1. x \in marked[s] /\ x \in InPacks(dir)
        <3>1. Covered(s, refs[n]) /\ Closure[refs[n]] \subseteq InPacks(dir)
            BY <1>3, Zenon DEF CoverInv, RefsComplete, Stored
        <3> QED
            BY <1>1, <3>1, Zenon DEF Covered
    <2>2. CASE x \in InPacks(dir \ victims[s])
        BY <2>2, Zenon
    <2>3. CASE x \notin InPacks(dir \ victims[s])
        <3>1. x \in InPacks(victims[s])
            BY <2>1, <2>3, Zenon DEF InPacks
        <3>2. x \notin InPacks(view[s] \ victims[s])
            BY <1>5, <2>3 DEF InPacks
        <3> QED
            BY <2>1, <3>1, <3>2, Zenon
    <2> QED
        BY <2>2, <2>3, Zenon
<1>8. alone \cup F \in SUBSET Keys
    BY <1>3 DEF LockTypes, PackTypes, InPacks, PackInv
<1> HIDE DEF alone, live, foreign
<1>9. CASE alone \cup F = {}
    <2>1. UNCHANGED <<mode, dir, view, lock, holds, active>>
        BY <1>2, <1>9, Zenon DEF lock
    <2>2. PackInv'
        BY <1>1, <1>3, <1>5, <1>6, <2>1, Zenon DEF PackInv, Paused
    <2>3. \A n \in Names : refs[n] # None => Closure[refs[n]] \subseteq InPacks(dir \ victims[s])'
        <3>1. InPacks(dir \ victims[s])' = InPacks(dir \ victims[s]) /\ alone = {}
            BY <1>1, <1>9, <2>1, Zenon DEF InPacks
        <3> QED
            BY <1>7, <3>1, Zenon
    <2>4. LockTypes' /\ PackTypes'
        BY <1>1, <1>3, <2>1, Zenon DEF LockTypes, PackTypes
    <2>5. \A o \in Stores : mode[o] # "out" => view'[o] \subseteq dir'
        BY <1>3, <2>1, Zenon DEF GateInv
    <2> QED
        BY <2>1, <2>2, <2>3, <2>4, <2>5, Zenon
<1>10. CASE alone \cup F # {}
    <2>1. PICK g \in Packs : /\ SL!Create(s, g)
                             /\ holds' = [holds EXCEPT ![g] = alone \cup F]
                             /\ active' = [active EXCEPT ![s] = g]
        BY <1>2, <1>10, Zenon
    <2>2. /\ dir' = dir \cup {g} /\ view' = [view EXCEPT ![s] = @ \cup {g}]
          /\ mode' = mode /\ g \notin dir
        BY <2>1, Zenon DEF SL!Create
    <2>3. /\ holds'[g] = alone \cup F
          /\ \A h \in dir : holds'[h] = holds[h]
          /\ \A o \in Stores : active'[o] = IF o = s THEN g ELSE active[o]
        BY <1>3, <2>1, <2>2, Zenon DEF LockTypes, PackTypes
    <2>4. LockTypes' /\ \A o \in Stores : mode[o] # "out" => view'[o] \subseteq dir'
        BY <1>3, <2>2, Zenon DEF LockTypes, GateInv
    <2>5. PackTypes'
        BY <1>1, <1>3, <1>8, <2>1, <2>2, Zenon DEF PackTypes
    <2>6. PackInv'
        BY <1>1, <1>3, <1>5, <1>6, <2>2, <2>3 DEF PackInv, Paused
    <2>7. \A n \in Names : refs[n] # None => Closure[refs[n]] \subseteq InPacks(dir \ victims[s])'
        <3>1. g \notin victims[s]
            BY <1>3, <2>2, Zenon DEF PackInv
        <3>2. alone \subseteq InPacks(dir \ victims[s])'
            BY <1>1, <2>2, <2>3, <3>1, Zenon DEF InPacks
        <3>3. InPacks(dir \ victims[s]) \subseteq InPacks(dir \ victims[s])'
            <4>1. /\ dir \ victims[s] \subseteq dir' \ victims'[s]
                  /\ \A h \in dir \ victims[s] : holds'[h] = holds[h]
                BY <1>1, <2>2, <2>3, Zenon
            <4> QED
                BY <4>1, Zenon DEF InPacks
        <3> QED
            BY <1>7, <3>2, <3>3, Zenon
    <2> QED
        BY <2>2, <2>3, <2>4, <2>5, <2>6, <2>7, Zenon
<1> QED
    BY <1>9, <1>10, Zenon

(* The invariant survives the copying (copy_live).                         *)
LEMMA CopyLiveInv ==
    ASSUME SafetyInv, NEW s \in Stores, CopyLive(s)
    PROVE  SafetyInv'
<1>1. cycle[s] = "copy" /\ cycle' = [cycle EXCEPT ![s] = "detach"]
    BY Zenon DEF CopyLive, GotoCycle
<1>2. UNCHANGED <<idle, refs, grey, writer, mark, victims>>
    BY Zenon DEF CopyLive
<1>3. UNCHANGED <<stack, marked, walked, pc, root, cur, done>>
    BY <1>2, Zenon DEF mark, writer
<1>4. /\ CycleTypes /\ GateInv /\ LocksInv /\ WriterInv /\ MarkSound(s)
      /\ RefsComplete /\ WritesStay
    BY Zenon DEF SafetyInv, TypeOK, MarkInv
<1>5. /\ ~RefShared(s) /\ Spans(s) = {} /\ mode[s] = "sweep"
      /\ \A o \in Stores : o # s => cycle[o] \in {"idle", "gate"}
    BY <1>1, <1>4, CompactAlone, Zenon DEF LocksInv, Paused
<1>6. /\ dir \subseteq dir' /\ mode' = mode
      /\ LockTypes' /\ PackTypes' /\ PackInv'
      /\ \A o \in Stores : mode[o] # "out" => view'[o] \subseteq dir'
      /\ \A h \in dir : holds'[h] = holds[h]
      /\ \A n \in Names : refs[n] # None
            => Closure[refs[n]] \subseteq InPacks(dir \ victims[s])'
    BY CopyLiveKeeps, Zenon
<1>7. Stored \subseteq Stored'
    BY <1>6, Zenon DEF Stored, InPacks
<1>8. \A o \in Stores : cycle'[o] = IF o = s THEN "detach" ELSE cycle[o]
    BY <1>1, <1>4, Zenon DEF CycleTypes
<1>9. CycleTypes'
    BY <1>1, <1>2, <1>4, Zenon DEF CycleTypes, Compacting
<1>10. GateInv'
    BY <1>3, <1>4, <1>5, <1>6, <1>8, Zenon DEF GateInv
<1>11. LocksInv'
    BY <1>1, <1>3, <1>5, MoveLocks, Zenon
<1>12. WriterInv'
    BY <1>2, <1>3, <1>4, <1>7, Zenon DEF WriterInv
<1>13. MarkInv'
    <2>1. MarkSound(s)'
        BY <1>1, <1>2, <1>3, <1>4, <1>8 DEF MarkSound, Snapshotting, Paused
    <2>2. \A o \in Stores : o # s => MarkSound(o)'
        BY <1>2, <1>3, <1>8, OtherStore, Zenon
    <2> QED
        BY <2>1, <2>2, Zenon DEF MarkInv
<1>14. CoverInv'
    BY <1>2, <1>5, <1>6, <1>8, Zenon DEF CoverInv, Covered
<1>15. RefsComplete' /\ WritesStay'
    BY <1>2, <1>3, <1>4, <1>7, Zenon DEF RefsComplete, WritesStay
<1> QED
    BY <1>2, <1>6, <1>9, <1>10, <1>11, <1>12, <1>13, <1>14, <1>15, TypeFrames, Zenon
    DEF SafetyInv, TypeOK

(* The invariant survives a copy that fails: no victim goes (copy_live).   *)
LEMMA CopyFailsInv ==
    ASSUME SafetyInv, NEW s \in Stores, CopyFails(s)
    PROVE  SafetyInv'
<1>1. /\ cycle[s] = "copy" /\ cycle' = [cycle EXCEPT ![s] = "reap"]
      /\ victims' = [victims EXCEPT ![s] = {}]
    BY Zenon DEF CopyFails, GotoCycle
<1>2. UNCHANGED <<lock, packs, refs, grey, writer, mark>>
    BY Zenon DEF CopyFails
<1>3. UNCHANGED <<dir, holds, active, idle, stack, marked, walked, pc, done>> /\ Stored' = Stored
    BY <1>2, Frames, Zenon DEF lock, packs, mark, writer
<1>4. /\ CycleTypes /\ LocksInv /\ PackInv /\ MarkSound(s) /\ RefsComplete
    BY Zenon DEF SafetyInv, TypeOK, MarkInv
<1>5. /\ ~RefShared(s) /\ Spans(s) = {} /\ mode[s] = "sweep"
      /\ \A o \in Stores : o # s => cycle[o] \in {"idle", "gate"} /\ victims[o] = {}
    BY <1>1, <1>4, CompactAlone, Zenon DEF LocksInv, Paused
<1>6. /\ \A o \in Stores : cycle'[o] = IF o = s THEN "reap" ELSE cycle[o]
      /\ \A o \in Stores : victims'[o] = {}
    BY <1>1, <1>4, <1>5, Zenon DEF CycleTypes
<1>7. CycleTypes'
    BY <1>1, <1>2, <1>4, Zenon DEF CycleTypes, Compacting
<1>8. GateInv' /\ LocksInv'
    BY <1>1, <1>2, <1>3, <1>5, MoveLocks, MoveGate, Zenon
<1>9. PackInv'
    BY <1>3, <1>4, <1>6, Zenon DEF PackInv
<1>10. MarkInv'
    <2>1. MarkSound(s)'
        BY <1>1, <1>2, <1>3, <1>4, <1>6 DEF MarkSound, Snapshotting, Paused
    <2>2. \A o \in Stores : o # s => MarkSound(o)'
        BY <1>2, <1>3, <1>6, OtherStore, Zenon
    <2> QED
        BY <2>1, <2>2, Zenon DEF MarkInv
<1>11. CoverInv'
    <2>1. InPacks(dir \ victims[s])' = Stored
        BY <1>3, <1>6, Zenon DEF InPacks, Stored
    <2>2. \A n \in Names : refs[n] # None => Closure[refs[n]] \subseteq Stored
        BY <1>4, Zenon DEF RefsComplete
    <2> QED
        BY <1>2, <1>5, <1>6, <2>1, <2>2, Zenon DEF CoverInv, Covered
<1> QED
    BY <1>2, <1>3, <1>7, <1>8, <1>9, <1>10, <1>11, Frames, TypeFrames, Zenon DEF SafetyInv, TypeOK

(* The invariant survives a victim leaving the directory: every record a   *)
(* reference needs has a copy outside the victims, and no span is there to *)
(* rely on another (remove_victims).                                       *)
LEMMA RemoveVictimInv ==
    ASSUME SafetyInv, NEW s \in Stores, NEW g \in Packs, RemoveVictim(s, g)
    PROVE  SafetyInv'
<1>1. /\ cycle[s] = "reap" /\ g \in victims[s]
      /\ holds' = [holds EXCEPT ![g] = {}]
      /\ victims' = [victims EXCEPT ![s] = @ \ {g}]
    BY Zenon DEF RemoveVictim
<1>2. dir' = dir \ {g} /\ UNCHANGED <<mode, view>> /\ g \notin view[s]
    BY Zenon DEF RemoveVictim, SL!Unlink
<1>3. UNCHANGED <<active, idle, refs, grey, writer, cycle, mark>>
    BY Zenon DEF RemoveVictim
<1>4. UNCHANGED <<stack, marked, walked, pc, root, cur, done>>
    BY <1>3, Zenon DEF mark, writer
<1>5. /\ LockTypes /\ PackTypes /\ CycleTypes /\ GateInv /\ LocksInv /\ WriterInv
      /\ PackInv /\ CoverInv
    BY Zenon DEF SafetyInv, TypeOK
<1>6. /\ \A w \in Writers : pc[w] \notin InGate /\ done[w] = {}
      /\ \A o \in Stores : o # s => /\ mode[o] = "out" /\ cycle[o] \in {"idle", "gate"}
                                    /\ victims[o] = {}
      /\ view[s] \subseteq dir
    <2>1. Spans(s) = {}
        BY <1>1, <1>5, Zenon DEF LocksInv, Paused
    <2> QED
        BY <1>1, <2>1, CompactAlone, Zenon DEF Paused
<1>7. \A o \in Stores : victims'[o] = IF o = s THEN victims[s] \ {g} ELSE {}
    BY <1>1, <1>5, <1>6, Zenon DEF CycleTypes
<1>8. InPacks(dir \ victims[s])' = InPacks(dir \ victims[s])
    <2>1. /\ dir' \ victims'[s] = dir \ victims[s]
          /\ \A h \in dir \ victims[s] : holds'[h] = holds[h]
        BY <1>1, <1>2, <1>5, <1>7 DEF LockTypes, PackTypes
    <2> QED
        BY <2>1, Zenon DEF InPacks
<1>9. LockTypes'
    BY <1>2, <1>5, Zenon DEF LockTypes
<1>10. g \notin idle /\ g \in dir /\ \A o \in Stores : active[o] # g
    BY <1>1, <1>5, Zenon DEF PackInv
<1>11. PackTypes'
    BY <1>1, <1>2, <1>3, <1>5, <1>10, Zenon DEF PackTypes
<1>12. CycleTypes'
    BY <1>1, <1>3, <1>5, Zenon DEF CycleTypes
<1>13. GateInv'
    <2>1. \A o \in Stores : mode[o] # "out" => view'[o] \subseteq dir'
        BY <1>2, <1>5, <1>6, Zenon DEF LockTypes
    <2> QED
        BY <1>2, <1>3, <1>4, <1>5, <2>1, Zenon DEF GateInv
<1>14. WriterInv'
    <2>1. \A p \in Puts : p \in Writers /\ pc[p] \notin {"walked", "commit"}
        BY <1>6, Zenon DEF Writers, InGate
    <2> QED
        BY <1>4, <1>5, <2>1, Zenon DEF WriterInv
<1>15. PackInv'
    BY <1>2, <1>3, <1>5, <1>7, <1>10, Zenon DEF PackInv
<1>16. CoverInv'
    <2> SUFFICES ASSUME NEW n \in Names, refs[n] # None
                 PROVE  Covered(s, refs[n])'
        BY <1>3, <1>6, Zenon DEF CoverInv, Covered
    <2>1. Covered(s, refs[n])
        BY <1>5, Zenon DEF CoverInv
    <2> QED
        BY <1>1, <1>3, <1>8, <2>1, Zenon DEF Covered
<1>17. RefsComplete'
    <2>1. InPacks(dir \ victims[s]) \subseteq Stored'
        BY <1>8, Zenon DEF InPacks, Stored
    <2> SUFFICES ASSUME NEW n \in Names, refs[n] # None
                 PROVE  Closure[refs[n]] \subseteq Stored'
        BY <1>3, Zenon DEF RefsComplete
    <2>2. Covered(s, refs[n])
        BY <1>5, Zenon DEF CoverInv
    <2> QED
        BY <1>1, <2>1, <2>2, Zenon DEF Covered
<1>18. WritesStay'
    BY <1>4, <1>6, Zenon DEF WritesStay
<1> QED
    BY <1>3, <1>4, <1>9, <1>11, <1>12, <1>13, <1>14, <1>15, <1>16, <1>17, <1>18,
       Frames, TypeFrames, Zenon
    DEF SafetyInv, TypeOK

(* The invariant survives the victims leaving the view (remove_victims).   *)
LEMMA DetachVictimsInv ==
    ASSUME SafetyInv, NEW s \in Stores, DetachVictims(s)
    PROVE  SafetyInv'
<1>1. /\ cycle[s] = "detach" /\ cycle' = [cycle EXCEPT ![s] = "reap"]
      /\ view' = [view EXCEPT ![s] = @ \ victims[s]] /\ UNCHANGED <<mode, dir>>
    BY Zenon DEF DetachVictims, GotoCycle, SL!Detach
<1>2. UNCHANGED <<packs, refs, grey, writer, mark, victims>>
    BY Zenon DEF DetachVictims
<1>3. UNCHANGED <<holds, active, idle, stack, marked, walked, pc, done>> /\ Stored' = Stored
    BY <1>1, <1>2, Frames, Zenon DEF packs, mark, writer
<1>4. LockTypes /\ CycleTypes /\ GateInv /\ LocksInv /\ PackInv /\ MarkSound(s) /\ CoverInv
    BY Zenon DEF SafetyInv, TypeOK, MarkInv
<1>5. /\ ~RefShared(s) /\ Spans(s) = {} /\ mode[s] = "sweep"
      /\ \A o \in Stores : o # s => cycle[o] \in {"idle", "gate"} /\ victims[o] = {}
    BY <1>1, <1>4, CompactAlone, Zenon DEF LocksInv, Paused
<1>6. \A o \in Stores : cycle'[o] = IF o = s THEN "reap" ELSE cycle[o]
    BY <1>1, <1>4, Zenon DEF CycleTypes
<1>7. LockTypes'
    BY <1>1, <1>4, Zenon DEF LockTypes
<1>8. CycleTypes'
    BY <1>1, <1>2, <1>4, Zenon DEF CycleTypes, Compacting
<1>9. GateInv'
    <2>1. \A o \in Stores : view'[o] \subseteq view[o]
        BY <1>1, <1>4, Zenon DEF LockTypes
    <2> QED
        BY <1>1, <1>3, <1>4, <1>5, <1>6, <2>1, Zenon DEF GateInv
<1>10. LocksInv'
    BY <1>1, <1>3, <1>5, MoveLocks, Zenon
<1>11. PackInv'
    BY <1>1, <1>2, <1>3, <1>4, <1>5, <1>6, Zenon DEF PackInv, Paused
<1>12. MarkInv'
    <2>1. MarkSound(s)'
        BY <1>1, <1>2, <1>3, <1>4, <1>6 DEF MarkSound, Snapshotting, Paused
    <2>2. \A o \in Stores : o # s => MarkSound(o)'
        BY <1>2, <1>3, <1>6, OtherStore, Zenon
    <2> QED
        BY <2>1, <2>2, Zenon DEF MarkInv
<1>13. CoverInv'
    <2> SUFFICES ASSUME NEW n \in Names, refs[n] # None
                 PROVE  Covered(s, refs[n])'
        BY <1>2, <1>5, <1>6, Zenon DEF CoverInv, Covered
    <2>1. Covered(s, refs[n]) /\ InPacks(dir \ victims[s])' = InPacks(dir \ victims[s])
        BY <1>1, <1>2, <1>3, <1>4, Zenon DEF CoverInv, InPacks
    <2>2. Closure[refs[n]] \subseteq InPacks(dir \ victims[s])'
        BY <1>1, <2>1, Zenon DEF Covered
    <2>3. cycle'[s] = "reap" /\ "reap" \notin {"snap", "mark", "compact", "copy"}
        BY <1>6
    <2> QED
        BY <1>2, <2>2, <2>3, Zenon DEF Covered
<1> QED
    BY <1>1, <1>2, <1>3, <1>7, <1>8, <1>9, <1>10, <1>11, <1>12, <1>13, Frames, TypeFrames, Zenon
    DEF SafetyInv, TypeOK

(* The invariant survives an unlink that fails: the pack stays, out of the *)
(* view (remove_victims).                                                  *)
LEMMA UnlinkFailsInv ==
    ASSUME SafetyInv, NEW s \in Stores, NEW g \in Packs, UnlinkFails(s, g)
    PROVE  SafetyInv'
<1>1. cycle[s] = "reap" /\ victims' = [victims EXCEPT ![s] = @ \ {g}]
    BY Zenon DEF UnlinkFails
<1>2. UNCHANGED <<lock, packs, refs, grey, writer, cycle, mark>>
    BY Zenon DEF UnlinkFails
<1>3. UNCHANGED <<dir, holds, active, idle, stack, marked, walked, pc, done>>
    BY <1>2, Zenon DEF lock, packs, mark, writer
<1>4. CycleTypes /\ PackInv /\ CoverInv
    BY Zenon DEF SafetyInv, TypeOK
<1>5. \A o \in Stores : victims'[o] = IF o = s THEN victims[s] \ {g} ELSE victims[o]
    BY <1>1, <1>4, Zenon DEF CycleTypes
<1>6. CycleTypes'
    BY <1>1, <1>2, <1>4, Zenon DEF CycleTypes
<1>7. PackInv'
    BY <1>2, <1>3, <1>4, <1>5, Zenon DEF PackInv
<1>8. CoverInv'
    <2> SUFFICES ASSUME NEW o \in Stores, NEW n \in Names, refs[n] # None
                 PROVE  Covered(o, refs[n])'
        BY <1>2, Zenon DEF CoverInv
    <2>1. Covered(o, refs[n]) /\ Black(o)' = Black(o)
        BY <1>3, <1>4, Zenon DEF CoverInv, Black
    <2>2. InPacks(dir \ victims[o]) \subseteq InPacks(dir \ victims[o])'
        BY <1>2, <1>3, <1>5, Zenon DEF InPacks
    <2> QED
        BY <1>2, <1>3, <2>1, <2>2, Zenon DEF Covered
<1> QED
    BY <1>2, <1>3, <1>6, <1>7, <1>8, Frames, TypeFrames, Zenon DEF SafetyInv, TypeOK

-----------------------------------------------------------------------------
(* The invariant holds when the stores are opened. *)
LEMMA InitInv ==
    ASSUME Init
    PROVE  SafetyInv
<1>1. /\ mode = [s \in Stores |-> "out"] /\ dir \in SUBSET Packs
      /\ view = [s \in Stores |-> dir]
    BY Zenon DEF Init, SL!Init
<1>2. PICK T \in SUBSET Trees :
          holds = [g \in Packs |-> IF g \in dir THEN UNION {Closure[k] : k \in T} ELSE {}]
    BY Zenon DEF Init
<1>3. /\ active = [s \in Stores |-> None] /\ idle \in SUBSET dir
      /\ refs \in [Names -> Trees \cup {None}]
      /\ \A n \in Names : refs[n] # None => Closure[refs[n]] \subseteq Stored
    BY Zenon DEF Init
<1>4. /\ pc = [w \in Writers |-> "idle"] /\ root = [w \in Writers |-> None]
      /\ cur = [w \in Writers |-> None] /\ done = [w \in Writers |-> {}]
    BY Zenon DEF Init
<1>5. /\ cycle = [s \in Stores |-> "idle"] /\ grey = [s \in Stores |-> None]
      /\ victims = [s \in Stores |-> {}]
    BY Zenon DEF Init
<1>6. /\ snap = [s \in Stores |-> {}] /\ stack = [s \in Stores |-> {}]
      /\ marked = [s \in Stores |-> {}] /\ walked = [s \in Stores |-> {}]
    BY Zenon DEF Init
<1>7. PackTypes
    <2>1. \A k \in T : Closure[k] \in SUBSET Keys
        BY LinksAssumption, ClosureKeys, Zenon
    <2>2. UNION {Closure[k] : k \in T} \in SUBSET Keys
        BY <2>1, Zenon
    <2> QED
        BY <1>2, <1>3, <2>2, Zenon DEF PackTypes
<1>8. LockTypes /\ WriterTypes /\ CycleTypes /\ MarkTypes /\ RefTypes
    BY <1>1, <1>3, <1>4, <1>5, <1>6, LinksAssumption, Zenon
    DEF LockTypes, WriterTypes, CycleTypes, MarkTypes, RefTypes
<1>9. GateInv
    BY <1>1, <1>4, <1>5, Zenon DEF GateInv, InGate
<1>10. LocksInv
    BY <1>5, Zenon DEF LocksInv, RefLocked, Snapshotting, Compacting, Paused
<1>11. WriterInv
    BY <1>4, LinksAssumption, Zenon DEF WriterInv, Writers
<1>12. PackInv
    BY <1>3, <1>5, Zenon DEF PackInv
<1>13. MarkInv
    <2> SUFFICES ASSUME NEW s \in Stores
                 PROVE  MarkSound(s)
        BY Zenon DEF MarkInv
    <2>1. Black(s) = {}
        BY <1>6, Zenon DEF Black
    <2> QED
        BY <1>5, <1>6, <2>1, Zenon DEF MarkSound
<1>14. CoverInv
    BY <1>5, Zenon DEF CoverInv, Covered
<1>15. RefsComplete /\ WritesStay
    BY <1>3, <1>4, Zenon DEF RefsComplete, WritesStay
<1> QED
    BY <1>7, <1>8, <1>9, <1>10, <1>11, <1>12, <1>13, <1>14, <1>15, Zenon DEF SafetyInv, TypeOK

(* Every step keeps it. *)
LEMMA NextSafety ==
    ASSUME SafetyInv, [Next]_vars
    PROVE  SafetyInv'
<1>1. ASSUME NEW p \in Puts, PutStep(p)
      PROVE  SafetyInv'
    BY <1>1, BeginSpanInv, OpenGateInv, WalkInv, ObserveKeysInv, PutRefInv, EndSpanInv,
       DropRefLockInv, Zenon
    DEF PutStep
<1>2. ASSUME NEW d \in Directs, BeginDirect(d) \/ EndDirect(d)
      PROVE  SafetyInv'
    BY <1>2, BeginDirectInv, EndDirectInv, Zenon
<1>3. ASSUME NEW w \in Writers, WriteStep(w)
      PROVE  SafetyInv'
    BY <1>3, ObserveInv, DuplicateInv, AppendInv, WriteFailsInv, Zenon DEF WriteStep
<1>4. ASSUME NEW s \in Cyclers, CycleStep(s)
      PROVE  SafetyInv'
    <2>1. s \in Stores
        BY WritersAssumption, Zenon
    <2>2. (AbortCycle(s) \/ EndCycle(s)) => SafetyInv'
        BY <2>1, EndSweepInv, Zenon DEF AbortCycle, EndCycle
    <2> QED
        BY <1>4, <2>1, <2>2, LockSnapshotInv, BeginSweepInv, GateCanceledInv, BeginBarrierInv,
           RootsInv, NewMarkSetInv, MarkFailsInv, MarkedInv, MarkFromInv, SelectVictimsInv,
           CopyLiveInv, CopyFailsInv, DetachVictimsInv, RemoveVictimInv, UnlinkFailsInv, Zenon
        DEF CycleStep
<1>5. ASSUME NEW n \in Names, DeleteRef(n)
      PROVE  SafetyInv'
    BY <1>5, DeleteRefInv, Zenon
<1>6. ASSUME NEW s \in Stores, Refresh(s)
      PROVE  SafetyInv'
    BY <1>6, RefreshInv, Zenon
<1>7. ASSUME NEW s \in Mortal, Crash(s)
      PROVE  SafetyInv'
    BY <1>7, WritersAssumption, CrashInv, Zenon
<1>8. CASE UNCHANGED vars
    <2>1. UNCHANGED <<lock, dir, packs, holds, active, idle, refs, grey, writer, pc, done, cycle,
                      mark, stack, marked, walked, victims>>
        BY <1>8, Zenon DEF vars, lock, packs, writer, mark
    <2> QED
        BY <2>1, Frames, TypeFrames, Zenon DEF SafetyInv, TypeOK
<1> QED
    BY <1>1, <1>2, <1>3, <1>4, <1>5, <1>6, <1>7, <1>8, Zenon DEF Next

(* What a step that touches one store's view, cycle and victims keeps of   *)
(* the others'.                                                            *)
LEMMA DetachedFrame ==
    ASSUME DetachedInv, NEW s,
           \A o \in Stores : o # s => /\ view'[o] = view[o] /\ cycle'[o] = cycle[o]
                                      /\ victims'[o] = victims[o],
           s \in Stores => cycle'[s] # "reap" \/ victims'[s] \cap view'[s] = {}
    PROVE  DetachedInv'
    BY Zenon DEF DetachedInv

(* What is being removed is not mapped again. *)
LEMMA NextDetached ==
    ASSUME IInv, [Next]_vars
    PROVE  DetachedInv'
<1> DetachedInv /\ LockTypes /\ CycleTypes /\ GateInv /\ LocksInv
    BY Zenon DEF IInv, SafetyInv, TypeOK
<1>0. /\ Puts \subseteq Writers /\ Directs \subseteq Writers /\ Cyclers \subseteq Stores
      /\ Mortal \subseteq Stores /\ StoreOf \in [Writers -> Stores]
    BY WritersAssumption, Zenon DEF Writers
<1>1. ASSUME UNCHANGED <<view, cycle, victims>> PROVE DetachedInv'
    BY <1>1, Zenon DEF DetachedInv
<1>2. ASSUME NEW w \in Writers, EnterGate(w), UNCHANGED <<cycle, victims>> PROVE DetachedInv'
    <2>1. StoreOf[w] \in Stores
        BY <1>0, Zenon
    <2>2. CASE mode[StoreOf[w]] = "out"
        <3>1. view' = view \/ view' = [view EXCEPT ![StoreOf[w]] = dir]
            BY <1>2, <2>2, Zenon DEF EnterGate, SL!BeginWrite, SL!MayLook
        <3>2. cycle[StoreOf[w]] # "reap"
            <4>1. "out" # "sweep" /\ "reap" \notin {"idle", "gate"}
                OBVIOUS
            <4> QED
                BY <2>1, <2>2, <4>1, Zenon DEF GateInv
        <3> QED
            BY <1>2, <2>1, <3>1, <3>2, DetachedFrame, Zenon DEF LockTypes
    <2>3. CASE mode[StoreOf[w]] # "out"
        <3>1. UNCHANGED <<view, cycle, victims>>
            BY <1>2, <2>3, Zenon DEF EnterGate, lock
        <3> QED
            BY <1>1, <3>1, Zenon
    <2> QED
        BY <2>2, <2>3
<1>3. ASSUME NEW p \in Puts, PutStep(p) PROVE DetachedInv'
    <2>1. CASE OpenGate(p)
        BY <1>0, <1>2, <2>1, Zenon DEF OpenGate
    <2>2. CASE ~OpenGate(p)
        <3>1. UNCHANGED <<view, cycle, victims>>
            BY <1>3, <2>2, Zenon DEF PutStep, BeginSpan, Walk, ObserveKeys, PutRef, EndSpan,
               LeaveGate, DropRefLock, lock
        <3> QED
            BY <1>1, <3>1, Zenon
    <2> QED
        BY <2>1, <2>2
<1>4. ASSUME NEW d \in Directs, BeginDirect(d) \/ EndDirect(d) PROVE DetachedInv'
    <2>1. CASE BeginDirect(d)
        BY <1>0, <1>2, <2>1, Zenon DEF BeginDirect
    <2>2. CASE EndDirect(d)
        <3>1. UNCHANGED <<view, cycle, victims>>
            BY <2>2, Zenon DEF EndDirect, LeaveGate, lock
        <3> QED
            BY <1>1, <3>1, Zenon
    <2> QED
        BY <1>4, <2>1, <2>2
<1>5. ASSUME NEW w \in Writers, WriteStep(w) PROVE DetachedInv'
    <2>1. CASE Append(w)
        <3>1. StoreOf[w] \in Stores
            BY <1>0, Zenon
        <3>2. /\ pc[w] = "write" /\ UNCHANGED <<cycle, victims>>
              /\ view' = view \/ \E g \in Packs : view' = [view EXCEPT ![StoreOf[w]] = @ \cup {g}]
            BY <2>1, Zenon DEF Append, Adopt, SL!Create, lock
        <3>3. cycle[StoreOf[w]] # "reap"
            <4>1. w \in Spans(StoreOf[w])
                BY <3>2, Zenon DEF Spans, InGate
            <4> QED
                BY <3>1, <4>1, Zenon DEF LocksInv, Paused
        <3> QED
            BY <3>1, <3>2, <3>3, DetachedFrame, Zenon DEF LockTypes
    <2>2. CASE ~Append(w)
        <3>1. UNCHANGED <<view, cycle, victims>>
            BY <1>5, <2>2, Zenon DEF WriteStep, Observe, Duplicate, WriteFails, lock
        <3> QED
            BY <1>1, <3>1, Zenon
    <2> QED
        BY <2>1, <2>2
<1>6. ASSUME NEW s \in Stores, NEW to, to # "reap", cycle' = [cycle EXCEPT ![s] = to],
             \A o \in Stores : o # s => view'[o] = view[o] /\ victims'[o] = victims[o]
      PROVE  DetachedInv'
    <2>1. \A o \in Stores : cycle'[o] = IF o = s THEN to ELSE cycle[o]
        BY <1>6, Zenon DEF CycleTypes
    <2>2. cycle'[s] # "reap"
        BY <1>6, <2>1, Zenon
    <2>3. \A o \in Stores : o # s => /\ view'[o] = view[o] /\ cycle'[o] = cycle[o]
                                     /\ victims'[o] = victims[o]
        BY <1>6, <2>1, Zenon
    <2> QED
        BY <2>2, <2>3, DetachedFrame, Zenon
<1>7. ASSUME NEW s \in Cyclers, CycleStep(s) PROVE DetachedInv'
    <2> s \in Stores
        BY <1>0, Zenon
    <2> USE DEF GotoCycle
    <2>1. CASE LockSnapshot(s) \/ GateCanceled(s) \/ BeginBarrier(s) \/ Roots(s) \/ NewMarkSet(s)
               \/ MarkFails(s) \/ Marked(s) \/ SelectVictims(s)
        <3>1. /\ \E to \in {"gate", "idle", "roots", "snap", "mark", "failed", "compact", "copy"} :
                    cycle' = [cycle EXCEPT ![s] = to]
              /\ view' = view
              /\ \A o \in Stores : o # s => victims'[o] = victims[o]
            BY <2>1, Zenon DEF LockSnapshot, GateCanceled, BeginBarrier, Roots, NewMarkSet,
               MarkFails, Marked, SelectVictims, lock, CycleTypes
        <3>2. "reap" \notin {"gate", "idle", "roots", "snap", "mark", "failed", "compact", "copy"}
            OBVIOUS
        <3> QED
            BY <1>6, <3>1, <3>2, Zenon
    <2>2. CASE BeginSweep(s)
        <3>1. /\ cycle' = [cycle EXCEPT ![s] = "barrier"] /\ view' = [view EXCEPT ![s] = dir]
              /\ victims' = victims
            BY <2>2, Zenon DEF BeginSweep, SL!BeginSweep
        <3>2. "barrier" # "reap"
            OBVIOUS
        <3> QED
            BY <1>6, <3>1, <3>2, Zenon DEF LockTypes
    <2>3. CASE AbortCycle(s) \/ EndCycle(s)
        <3>1. /\ cycle' = [cycle EXCEPT ![s] = "idle"] /\ view' = view
              /\ victims' = [victims EXCEPT ![s] = {}]
            BY <2>3, Zenon DEF AbortCycle, EndCycle, EndSweep, ResetCycle
        <3>2. "idle" # "reap"
            OBVIOUS
        <3> QED
            BY <1>6, <3>1, <3>2, Zenon DEF CycleTypes
    <2>4. CASE \E l \in Links : MarkFrom(s, l)
        BY <1>1, <2>4, Zenon DEF MarkFrom, lock
    <2>5. CASE CopyLive(s)
        <3>1. /\ cycle' = [cycle EXCEPT ![s] = "detach"] /\ victims' = victims
              /\ view' = view \/ \E g \in Packs : view' = [view EXCEPT ![s] = @ \cup {g}]
            BY <2>5, Zenon DEF CopyLive, SL!Create, lock
        <3>2. "detach" # "reap"
            OBVIOUS
        <3> QED
            BY <1>6, <3>1, <3>2, Zenon DEF LockTypes
    <2>6. CASE CopyFails(s)
        <3>1. /\ cycle' = [cycle EXCEPT ![s] = "reap"] /\ view' = view
              /\ victims' = [victims EXCEPT ![s] = {}]
            BY <2>6, Zenon DEF CopyFails, lock
        <3> QED
            BY <3>1, DetachedFrame, Zenon DEF CycleTypes
    <2>7. CASE DetachVictims(s)
        <3>1. /\ cycle' = [cycle EXCEPT ![s] = "reap"] /\ victims' = victims
              /\ view' = [view EXCEPT ![s] = @ \ victims[s]]
            BY <2>7, Zenon DEF DetachVictims, SL!Detach
        <3> QED
            BY <3>1, DetachedFrame, Zenon DEF CycleTypes, LockTypes
    <2>8. CASE \E g \in Packs : RemoveVictim(s, g) \/ UnlinkFails(s, g)
        <3>1. PICK g \in Packs : victims' = [victims EXCEPT ![s] = @ \ {g}] /\ UNCHANGED <<cycle, view>>
            BY <2>8, Zenon DEF RemoveVictim, UnlinkFails, SL!Unlink, lock
        <3>2. \A o \in Stores : victims'[o] \subseteq victims[o]
            BY <3>1, Zenon DEF CycleTypes
        <3> QED
            BY <3>1, <3>2, Zenon DEF DetachedInv
    <2> QED
        BY <1>7, <2>1, <2>2, <2>3, <2>4, <2>5, <2>6, <2>7, <2>8, Zenon DEF CycleStep
<1>8. ASSUME NEW s \in Stores, Refresh(s) PROVE DetachedInv'
    <2>1. /\ cycle[s] = "reap" => victims[s] = {}
          /\ view' = [view EXCEPT ![s] = dir] /\ UNCHANGED <<cycle, victims>>
        BY <1>8, Zenon DEF Refresh, SL!Look
    <2> QED
        BY <2>1, DetachedFrame, Zenon DEF LockTypes
<1>9. ASSUME NEW s \in Mortal, Crash(s) PROVE DetachedInv'
    <2>1. /\ cycle' = [cycle EXCEPT ![s] = "idle"] /\ view' = [view EXCEPT ![s] = dir]
          /\ victims' = [victims EXCEPT ![s] = {}]
        BY <1>9, Zenon DEF Crash, GotoCycle, ResetCycle
    <2>2. "idle" # "reap"
        OBVIOUS
    <2> QED
        BY <1>0, <1>6, <2>1, <2>2, Zenon DEF CycleTypes, LockTypes
<1>10. ASSUME (\E n \in Names : DeleteRef(n)) \/ UNCHANGED vars PROVE DetachedInv'
    <2>1. UNCHANGED <<view, cycle, victims>>
        BY <1>10, Zenon DEF DeleteRef, vars, lock
    <2> QED
        BY <1>1, <2>1, Zenon
<1> QED
    BY <1>3, <1>4, <1>5, <1>7, <1>8, <1>9, <1>10, Zenon DEF Next

(* The invariant always holds, whatever the processes, their writers, the  *)
(* references and the graph of objects are.                                *)
THEOREM CollectorInvariant == Spec => []IInv
<1>1. Init => IInv
    <2> SUFFICES ASSUME Init PROVE IInv
        OBVIOUS
    <2>1. DetachedInv
        BY Zenon DEF Init, DetachedInv
    <2> QED
        BY <2>1, InitInv, Zenon DEF IInv
<1>2. IInv /\ [Next]_vars => IInv'
    BY NextSafety, NextDetached, Zenon DEF IInv
<1> QED
    BY <1>1, <1>2, PTL DEF Spec

(* Every variable of the collector always has its type. *)
THEOREM TypeCorrect == Spec => []TypeOK
<1>1. IInv => TypeOK
    BY Zenon DEF IInv, SafetyInv
<1> QED
    BY <1>1, CollectorInvariant, PTL

(* "An accepted reference never dangles": no interleaving of PUTs, direct  *)
(* writers, deletes, lookups, cycles and crashes of any number of          *)
(* processes removes a record that a stored reference's tree needs.        *)
THEOREM ReferencesNeverDangle == Spec => []RefsComplete
<1>1. IInv => RefsComplete
    BY Zenon DEF IInv, SafetyInv
<1> QED
    BY <1>1, CollectorInvariant, PTL

(* What a span has written, or found to be stored already, stays until the *)
(* span ends, whatever sweeps run in this process and in others.           *)
THEOREM SpanWritesStay == Spec => []WritesStay
<1>1. IInv => WritesStay
    BY Zenon DEF IInv, SafetyInv
<1> QED
    BY <1>1, CollectorInvariant, PTL
=============================================================================
