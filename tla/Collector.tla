------------------------------ MODULE Collector ------------------------------
(***************************************************************************)
(* The collector (src/src/gc/collector.rs, cycle.rs) over the store's gate,*)
(* write barrier (packstore/barrier.rs), mark set (markset.rs) and         *)
(* compaction (compact.rs), with the reference PUTs and the writers it     *)
(* runs beside: several processes, each with a store, a collector and      *)
(* writers, on one directory and one reference store.                      *)
(*                                                                         *)
(* The gate is the lock it promises to be, SweepLock, which Gate is shown  *)
(* to implement.  An object is its key; the links of an object are those   *)
(* fstree::links reads from it.  A pack (a segment file) is the set of     *)
(* keys it has records of.                                                 *)
(***************************************************************************)
EXTENDS FiniteSets

CONSTANTS
    Stores,    \* processes: a store, its collector and their writers
    Cyclers,   \* the stores whose collector runs cycles
    Mortal,    \* the stores whose process may die
    Puts,      \* writers that work through their collector's spans
    Directs,   \* writers that call Store::put, with no collector
    StoreOf,   \* the store of a writer
    Names,     \* names of references
    Keys,      \* keys of objects
    Trees,     \* the roots that references are put to
    Leaves,    \* the Blob and XattrSet keys: the key says it has no links
    Git,       \* the GitSha1 keys: only the referring object says so
    LinksOf,   \* LinksOf[k]: the links of the object k, each with its leaf
    Packs,     \* identities of segment files
    Old,       \* the packs that may be there when the behaviour starts
    Fills,     \* whether an append may fill its pack (a set of Booleans)
    None

Writers == Puts \cup Directs
Links == [key : Keys, leaf : BOOLEAN]

(* Only a git key can be called a leaf by one link and not by another. *)
ASSUME LinksAssumption ==
    /\ LinksOf \in [Keys -> SUBSET Links]
    /\ Leaves \cap Git = {}
    /\ Trees \subseteq Keys
    /\ \A k \in Leaves : LinksOf[k] = {}
    /\ \A k \in Keys : \A l \in LinksOf[k] :
          l.key \notin Git => (l.leaf <=> l.key \in Leaves)
    /\ None \notin Keys \cup Packs
    /\ \A K \in SUBSET Keys : K # None

ASSUME WritersAssumption ==
    /\ Puts \cap Directs = {}
    /\ StoreOf \in [Writers -> Stores]
    /\ Cyclers \subseteq Stores /\ Mortal \subseteq Stores

VARIABLES
    mode, dir, view,  \* the gate, the directory and the views: SweepLock's
    holds,    \* holds[g]: the keys with a record in pack g
    active,   \* active[s]: the pack s appends to, or None
    idle,     \* the active packs whose writers are gone
    refs,     \* refs[n]: the root the reference n names, or None
    grey,     \* grey[s]: the keys the barrier captured, or None when it is off
    pc,       \* pc[w]: where writer w is
    root,     \* root[w]: the root its PUT names, or None
    cur,      \* cur[w]: the object it is writing, or None
    done,     \* done[w]: the objects whose writes succeeded in its span
    cycle,    \* cycle[s]: where s's cycle is
    snap,     \* snap[s]: the keys in the snapshot the mark set was made from
    stack,    \* stack[s]: the links the mark has yet to pop
    marked,   \* marked[s]: the keys marked; compact adds the grey ones
    walked,   \* walked[s]: the git keys whose links were followed
    victims   \* victims[s]: the packs compact has yet to remove

lock == <<mode, dir, view>>
writer == <<pc, root, cur, done>>
mark == <<snap, stack, marked, walked>>
packs == <<holds, active, idle>>
vars == <<lock, packs, refs, grey, writer, cycle, mark, victims>>

SL == INSTANCE SweepLock WITH Segments <- Packs

-----------------------------------------------------------------------------
(* Trees.                                                                  *)

(* fstree::link_to: what a key says of itself. *)
LinkTo(k) == [key |-> k, leaf |-> k \in Leaves]

(* What a walk that reads every object not said to be a leaf comes to. *)
FollowsAll(W) == \A l \in W : ~l.leaf => LinksOf[l.key] \subseteq W
WalkOf ==
    [k \in Keys |->
        {l \in Links : \A W \in SUBSET Links : LinkTo(k) \in W /\ FollowsAll(W) => l \in W}]
KeysOf(W) == {l.key : l \in W}

(* The closure fstree::check_complete returns, if all of it is there. *)
Closure == [k \in Keys |-> KeysOf(WalkOf[k])]

InPacks(P) == UNION {holds[g] : g \in P}
Stored == InPacks(dir)

(* What store s finds; of that, what it need not poll another's active     *)
(* segment for.                                                            *)
Seen(s) == InPacks(view[s])
Polled(s) == InPacks(view[s] \ (idle \cup {active[o] : o \in Stores \ {s}}))

-----------------------------------------------------------------------------
(* The reference lock, an RwLock of the process: shared by the spans,      *)
(* exclusive in a cycle's snapshot and in its sweep.                       *)

HoldsRefLock == {"gate", "span", "write", "walked", "commit", "unref"}
Snapshotting == {"gate", "barrier", "roots"}
Compacting == {"compact", "copy", "detach", "reap"}

(* compact has paused the local writers (pause_local). *)
Paused == {"copy", "detach", "reap"}

RefLocked(s) == cycle[s] \in Snapshotting \cup Compacting
RefShared(s) == \E p \in Puts : StoreOf[p] = s /\ pc[p] \in HoldsRefLock

(* The writers of s inside a span of its gate. *)
InGate == {"span", "write", "walked", "commit"}
Spans(s) == {w \in Writers : StoreOf[w] = s /\ pc[w] \in InGate}

Init ==
    /\ SL!Init /\ dir \subseteq Old
    /\ \E T \in SUBSET Trees :
          holds = [g \in Packs |-> IF g \in dir THEN UNION {Closure[k] : k \in T} ELSE {}]
    /\ active = [s \in Stores |-> None]
    /\ idle \in SUBSET dir
    /\ refs \in [Names -> Trees \cup {None}]
    /\ \A n \in Names : refs[n] # None => Closure[refs[n]] \subseteq Stored
    /\ grey = [s \in Stores |-> None]
    /\ pc = [w \in Writers |-> "idle"]
    /\ root = [w \in Writers |-> None]
    /\ cur = [w \in Writers |-> None]
    /\ done = [w \in Writers |-> {}]
    /\ cycle = [s \in Stores |-> "idle"]
    /\ snap = [s \in Stores |-> {}]
    /\ stack = [s \in Stores |-> {}]
    /\ marked = [s \in Stores |-> {}]
    /\ walked = [s \in Stores |-> {}]
    /\ victims = [s \in Stores |-> {}]

Goto(w, to) == pc' = [pc EXCEPT ![w] = to]

-----------------------------------------------------------------------------
(* Writers.                                                                *)

(* begin_span: the reference lock first, as a cycle does. *)
BeginSpan(p) ==
    /\ pc[p] = "idle"
    /\ ~RefLocked(StoreOf[p])
    /\ \E k \in Trees : root' = [root EXCEPT ![p] = k]
    /\ Goto(p, "gate")
    /\ UNCHANGED <<lock, packs, refs, grey, cur, done, cycle, mark, victims>>

(* A span that does not join the sweep of its own store. *)
EnterGateNoJoin(w) ==
    LET s == StoreOf[w] IN
    /\ IF mode[s] = "write" THEN UNCHANGED lock ELSE SL!BeginWrite(s)
    /\ Goto(w, "span")

(* Then the gate: a span of this store, or its sweep, is joined, and the   *)
(* first span waits for other stores' sweeps.  compact's pause keeps out   *)
(* the writers that the reference lock does not.                           *)
EnterGate(w) ==
    LET s == StoreOf[w] IN
    /\ IF mode[s] = "out" THEN SL!BeginWrite(s) ELSE UNCHANGED lock
    /\ Goto(w, "span")

OpenGate(p) ==
    /\ pc[p] = "gate"
    /\ EnterGate(p)
    /\ UNCHANGED <<packs, refs, grey, root, cur, done, cycle, mark, victims>>

BeginDirect(d) ==
    /\ pc[d] = "idle"
    /\ cycle[StoreOf[d]] \notin Paused
    /\ EnterGate(d)
    /\ UNCHANGED <<packs, refs, grey, root, cur, done, cycle, mark, victims>>

Capture(s, ks) ==
    grey' = IF grey[s] = None THEN grey ELSE [grey EXCEPT ![s] = @ \cup ks]

(* write_batch and put observe the key before the duplicate check. *)
Observe(w, k) ==
    /\ pc[w] = "span"
    /\ root[w] # None => k \in Closure[root[w]]
    /\ k \notin done[w]
    /\ Capture(StoreOf[w], {k})
    /\ cur' = [cur EXCEPT ![w] = k]
    /\ Goto(w, "write")
    /\ UNCHANGED <<lock, packs, refs, root, done, cycle, mark, victims>>

(* An active pack found in the directory is in the view once it is ours. *)
Adopt(s, g) == view' = [view EXCEPT ![s] = @ \cup {g}] /\ UNCHANGED <<mode, dir>>

Wrote(w) ==
    /\ done' = [done EXCEPT ![w] = @ \cup {cur[w]}]
    /\ cur' = [cur EXCEPT ![w] = None]
    /\ Goto(w, "span")

(* The duplicate check finds a copy: nothing is written. *)
Duplicate(w) ==
    /\ pc[w] = "write"
    /\ cur[w] \in Seen(StoreOf[w])
    /\ Wrote(w)
    /\ UNCHANGED <<lock, packs, refs, grey, root, cycle, mark, victims>>

(* It finds none that it may rely on, and the record is appended: to the   *)
(* store's own active pack, to one whose writer is gone, or to a new one,  *)
(* which is sealed once it is full.                                        *)
Append(w) ==
    LET s == StoreOf[w] IN
    /\ pc[w] = "write"
    /\ cur[w] \notin Polled(s)
    /\ \E g \in Packs, full \in Fills :
          /\ \/ g = active[s] /\ UNCHANGED lock
             \/ active[s] = None /\ g \in idle /\ Adopt(s, g)
             \/ active[s] = None /\ SL!Create(s, g)
          /\ holds' = [holds EXCEPT ![g] = @ \cup {cur[w]}]
          /\ active' = [active EXCEPT ![s] = IF full THEN None ELSE g]
          /\ idle' = idle \ {g}
    /\ Wrote(w)
    /\ UNCHANGED <<refs, grey, root, cycle, mark, victims>>

(* A write that fails is not acknowledged. *)
WriteFails(w) ==
    /\ pc[w] = "write"
    /\ cur' = [cur EXCEPT ![w] = None]
    /\ Goto(w, "span")
    /\ UNCHANGED <<lock, packs, refs, grey, root, done, cycle, mark, victims>>

(* prepare: check_complete walks the tree ... *)
Walk(p) ==
    /\ pc[p] = "span"
    /\ Closure[root[p]] \subseteq Seen(StoreOf[p])
    /\ Goto(p, "walked")
    /\ UNCHANGED <<lock, packs, refs, grey, root, cur, done, cycle, mark, victims>>

(* A PUT that leaves the barrier out. *)
ObserveKeysNone(p) ==
    /\ pc[p] = "walked"
    /\ Goto(p, "commit")
    /\ UNCHANGED <<lock, packs, refs, grey, root, cur, done, cycle, mark, victims>>

(* ... and observe_keys hands the walked closure to the barrier. *)
ObserveKeys(p) ==
    /\ pc[p] = "walked"
    /\ Capture(StoreOf[p], Closure[root[p]])
    /\ Goto(p, "commit")
    /\ UNCHANGED <<lock, packs, refs, root, cur, done, cycle, mark, victims>>

(* The reference is stored before the span ends. *)
PutRef(p, n) ==
    /\ pc[p] = "commit"
    /\ refs' = [refs EXCEPT ![n] = root[p]]
    /\ Goto(p, "span")
    /\ UNCHANGED <<lock, packs, grey, root, cur, done, cycle, mark, victims>>

(* A span ends, with its PUT stored or given up: the gate's half first ... *)
LeaveGate(w, to) ==
    LET s == StoreOf[w] IN
    /\ IF mode[s] = "write" /\ Spans(s) = {w}
       THEN UNCHANGED view /\ SL!Leave(s)
       ELSE UNCHANGED lock
    /\ done' = [done EXCEPT ![w] = {}]
    /\ Goto(w, to)

EndSpan(p) ==
    /\ pc[p] \in {"span", "commit"}
    /\ LeaveGate(p, "unref")
    /\ UNCHANGED <<packs, refs, grey, root, cur, cycle, mark, victims>>

(* ... then the reference lock. *)
DropRefLock(p) ==
    /\ pc[p] = "unref"
    /\ root' = [root EXCEPT ![p] = None]
    /\ Goto(p, "idle")
    /\ UNCHANGED <<lock, packs, refs, grey, cur, done, cycle, mark, victims>>

EndDirect(d) ==
    /\ pc[d] = "span"
    /\ LeaveGate(d, "idle")
    /\ UNCHANGED <<packs, refs, grey, root, cur, cycle, mark, victims>>

(* A delete takes no lock: release_ref does nothing. *)
DeleteRef(n) ==
    /\ refs[n] # None
    /\ refs' = [refs EXCEPT ![n] = None]
    /\ UNCHANGED <<lock, packs, grey, writer, cycle, mark, victims>>

(* A lookup that misses lists the directory again, but not while           *)
(* remove_victims holds the refresh lock.                                  *)
Refresh(s) ==
    /\ view[s] # dir
    /\ cycle[s] = "reap" => victims[s] = {}
    /\ SL!Look(s)
    /\ UNCHANGED <<packs, refs, grey, writer, cycle, mark, victims>>

-----------------------------------------------------------------------------
(* A cycle.                                                                *)

GotoCycle(s, to) == cycle' = [cycle EXCEPT ![s] = to]

(* What a cycle that is over leaves. *)
ResetCycle(s) ==
    /\ snap' = [snap EXCEPT ![s] = {}]
    /\ stack' = [stack EXCEPT ![s] = {}]
    /\ marked' = [marked EXCEPT ![s] = {}]
    /\ walked' = [walked EXCEPT ![s] = {}]
    /\ victims' = [victims EXCEPT ![s] = {}]
    /\ grey' = [grey EXCEPT ![s] = None]

(* The reference lock, exclusively: no PUT is in flight at the snapshot. *)
LockSnapshot(s) ==
    /\ cycle[s] = "idle"
    /\ ~RefShared(s)
    /\ GotoCycle(s, "gate")
    /\ UNCHANGED <<lock, packs, refs, grey, writer, mark, victims>>

(* A cycle that does not keep the other stores' writers out. *)
BeginSweepLocal(s) ==
    /\ cycle[s] = "gate"
    /\ mode[s] = "out"
    /\ mode' = [mode EXCEPT ![s] = "sweep"]
    /\ view' = [view EXCEPT ![s] = dir]
    /\ GotoCycle(s, "barrier")
    /\ UNCHANGED <<dir, packs, refs, grey, writer, mark, victims>>

BeginSweep(s) ==
    /\ cycle[s] = "gate"
    /\ SL!BeginSweep(s)
    /\ GotoCycle(s, "barrier")
    /\ UNCHANGED <<packs, refs, grey, writer, mark, victims>>

GateCanceled(s) ==
    /\ cycle[s] = "gate"
    /\ GotoCycle(s, "idle")
    /\ UNCHANGED <<lock, packs, refs, grey, writer, mark, victims>>

BeginBarrier(s) ==
    /\ cycle[s] = "barrier"
    /\ grey' = [grey EXCEPT ![s] = {}]
    /\ GotoCycle(s, "roots")
    /\ UNCHANGED <<lock, packs, refs, writer, mark, victims>>

(* The roots, and the reference lock goes; a bad record ends the cycle. *)
Roots(s) ==
    /\ cycle[s] = "roots"
    /\ stack' = [stack EXCEPT ![s] = {LinkTo(refs[n]) : n \in {m \in Names : refs[m] # None}}]
    /\ GotoCycle(s, "snap")
    /\ UNCHANGED <<lock, packs, refs, grey, writer, snap, marked, walked, victims>>

(* mark_live, with no lock held: new_mark_set ... *)
NewMarkSet(s) ==
    /\ cycle[s] = "snap"
    /\ snap' = [snap EXCEPT ![s] = Seen(s)]
    /\ GotoCycle(s, "mark")
    /\ UNCHANGED <<lock, packs, refs, grey, writer, stack, marked, walked, victims>>

(* A mark that prunes a git key, too, on its mark alone. *)
MarkFromByMark(s, l) ==
    LET k == l.key
        follow == ~l.leaf /\ k \notin marked[s]
    IN
    /\ cycle[s] = "mark"
    /\ l \in stack[s]
    /\ k \in snap[s]
    /\ marked' = [marked EXCEPT ![s] = @ \cup {k}]
    /\ stack' = [stack EXCEPT ![s] = (@ \ {l}) \cup IF follow THEN LinksOf[k] ELSE {}]
    /\ UNCHANGED <<lock, packs, refs, grey, writer, cycle, snap, walked, victims>>

(* ... then mark_from, one link at a time.  A git key prunes on the bit    *)
(* that says its links were followed, any other on its mark.               *)
MarkFrom(s, l) ==
    LET k == l.key
        newly == IF k \in Git THEN k \notin walked[s] ELSE k \notin marked[s]
        follow == ~l.leaf /\ newly
    IN
    /\ cycle[s] = "mark"
    /\ l \in stack[s]
    /\ k \in snap[s]
    /\ marked' = [marked EXCEPT ![s] = @ \cup {k}]
    /\ walked' = IF follow /\ k \in Git THEN [walked EXCEPT ![s] = @ \cup {k}] ELSE walked
    /\ stack' = [stack EXCEPT ![s] = (@ \ {l}) \cup IF follow THEN LinksOf[k] ELSE {}]
    /\ UNCHANGED <<lock, packs, refs, grey, writer, cycle, snap, victims>>

(* A missing or bad object, or a cancel, ends the mark without a result. *)
MarkFails(s) ==
    /\ cycle[s] \in {"snap", "mark"}
    /\ GotoCycle(s, "failed")
    /\ UNCHANGED <<lock, packs, refs, grey, writer, mark, victims>>

Marked(s) ==
    /\ cycle[s] = "mark"
    /\ stack[s] = {}
    /\ ~RefShared(s)
    /\ GotoCycle(s, "compact")
    /\ UNCHANGED <<lock, packs, refs, grey, writer, mark, victims>>

(* The gate goes under the reference lock, once the spans that joined the  *)
(* sweep are over (end_exclusive).                                         *)
EndSweep(s) ==
    /\ Spans(s) = {}
    /\ UNCHANGED view /\ SL!Leave(s)
    /\ GotoCycle(s, "idle")
    /\ ResetCycle(s)
    /\ UNCHANGED <<packs, refs, writer>>

(* No roots, no mark or a cancel: abort_barrier, and nothing is swept. *)
AbortCycle(s) ==
    /\ \/ cycle[s] = "roots"
       \/ cycle[s] = "failed" /\ ~RefShared(s)
       \/ cycle[s] = "compact"
    /\ EndSweep(s)

-----------------------------------------------------------------------------
(* compact.                                                                *)

(* Sealed packs; store s's own, and those whose writers are gone, are      *)
(* sealed first if grow.                                                   *)
Sealed(s, grow) ==
    view[s] \ IF grow THEN {active[o] : o \in Stores \ {s}}
               ELSE idle \cup {active[o] : o \in Stores}

(* A compaction that does not wait for the local writers. *)
SelectVictimsUnpaused(s) ==
    LET live == marked[s] \cup grey[s] IN
    /\ cycle[s] = "compact"
    /\ marked' = [marked EXCEPT ![s] = live]
    /\ grey' = [grey EXCEPT ![s] = None]
    /\ active' = [active EXCEPT ![s] = None] /\ idle' = {}
    /\ \E V \in SUBSET Sealed(s, TRUE) :
          /\ \A g \in V : ~(holds[g] \subseteq live)
          /\ victims' = [victims EXCEPT ![s] = V]
    /\ GotoCycle(s, "copy")
    /\ UNCHANGED <<lock, holds, refs, writer, snap, stack, walked>>

(* Waits for the local writers, takes the grey set, seals and selects: any *)
(* packs with a dead record, as the thresholds and the horizon will have   *)
(* it, and with no live one when there is no budget to copy.               *)
SelectVictims(s) ==
    LET live == marked[s] \cup grey[s] IN
    /\ cycle[s] = "compact"
    /\ Spans(s) = {}
    /\ marked' = [marked EXCEPT ![s] = live]
    /\ grey' = [grey EXCEPT ![s] = None]
    /\ \E grow \in BOOLEAN :
          /\ active' = IF grow THEN [active EXCEPT ![s] = None] ELSE active
          /\ idle' = IF grow THEN {} ELSE idle
          /\ \E V \in SUBSET Sealed(s, grow) :
                /\ \A g \in V : ~(holds[g] \subseteq live)
                /\ grow \/ InPacks(V) \cap live = {}
                /\ victims' = [victims EXCEPT ![s] = V]
    /\ GotoCycle(s, "copy")
    /\ UNCHANGED <<lock, holds, refs, writer, snap, stack, walked>>

(* The live records with no copy outside the victims, and those whose      *)
(* copies there are not durable yet (a foreign active segment's), are made *)
(* durable in a segment of this store's own before anything goes.          *)
CopyLive(s) ==
    LET live == InPacks(victims[s]) \cap marked[s]
        alone == live \ InPacks(view[s] \ victims[s])
        foreign == InPacks({active[o] : o \in Stores \ {s}} \cap view[s])
    IN
    /\ cycle[s] = "copy"
    /\ \E copies \in {alone \cup F : F \in SUBSET (live \cap foreign)} :
          IF copies = {}
          THEN UNCHANGED <<lock, holds, active>>
          ELSE \E g \in Packs :
               /\ SL!Create(s, g)
               /\ holds' = [holds EXCEPT ![g] = copies]
               /\ active' = [active EXCEPT ![s] = g]
    /\ GotoCycle(s, "detach")
    /\ UNCHANGED <<idle, refs, grey, writer, mark, victims>>

(* A copy failed: every victim stays. *)
CopyFails(s) ==
    /\ cycle[s] = "copy"
    /\ victims' = [victims EXCEPT ![s] = {}]
    /\ GotoCycle(s, "reap")
    /\ UNCHANGED <<lock, packs, refs, grey, writer, mark>>

(* remove_victims: under the refresh lock all of them leave the view ...   *)
DetachVictims(s) ==
    /\ cycle[s] = "detach"
    /\ SL!Detach(s, victims[s])
    /\ GotoCycle(s, "reap")
    /\ UNCHANGED <<packs, refs, grey, writer, mark, victims>>

(* ... then their files go, one by one. *)
RemoveVictim(s, g) ==
    /\ cycle[s] = "reap"
    /\ g \in victims[s]
    /\ SL!Unlink(s, g)
    /\ holds' = [holds EXCEPT ![g] = {}]
    /\ victims' = [victims EXCEPT ![s] = @ \ {g}]
    /\ UNCHANGED <<active, idle, refs, grey, writer, cycle, mark>>

(* An unlink fails: the file stays, out of the view, and the others go. *)
UnlinkFails(s, g) ==
    /\ cycle[s] = "reap"
    /\ g \in victims[s]
    /\ victims' = [victims EXCEPT ![s] = @ \ {g}]
    /\ UNCHANGED <<lock, packs, refs, grey, writer, cycle, mark>>

EndCycle(s) ==
    /\ cycle[s] = "reap"
    /\ victims[s] = {}
    /\ EndSweep(s)

(* The process dies and the store is opened again. *)
Crash(s) ==
    LET mine == {w \in Writers : StoreOf[w] = s}
        Reset(f, v) == [w \in Writers |-> IF w \in mine THEN v ELSE f[w]]
    IN
    /\ view' = [view EXCEPT ![s] = dir] /\ SL!Leave(s)
    /\ active' = [active EXCEPT ![s] = None]
    /\ idle' = idle \cup ({active[s]} \ {None})
    /\ pc' = Reset(pc, "idle") /\ root' = Reset(root, None)
    /\ cur' = Reset(cur, None) /\ done' = Reset(done, {})
    /\ GotoCycle(s, "idle")
    /\ ResetCycle(s)
    /\ UNCHANGED <<holds, refs>>

-----------------------------------------------------------------------------
PutStep(p) ==
    \/ BeginSpan(p) \/ OpenGate(p) \/ Walk(p) \/ ObserveKeys(p)
    \/ \E n \in Names : PutRef(p, n)
    \/ EndSpan(p) \/ DropRefLock(p)

WriteStep(w) ==
    \/ \E k \in Keys : Observe(w, k)
    \/ Duplicate(w) \/ Append(w) \/ WriteFails(w)

CycleStep(s) ==
    \/ LockSnapshot(s) \/ BeginSweep(s) \/ GateCanceled(s) \/ BeginBarrier(s)
    \/ Roots(s) \/ NewMarkSet(s) \/ MarkFails(s) \/ Marked(s) \/ AbortCycle(s)
    \/ \E l \in Links : MarkFrom(s, l)
    \/ SelectVictims(s) \/ CopyLive(s) \/ CopyFails(s) \/ DetachVictims(s) \/ EndCycle(s)
    \/ \E g \in Packs : RemoveVictim(s, g) \/ UnlinkFails(s, g)

Next ==
    \/ \E p \in Puts : PutStep(p)
    \/ \E d \in Directs : BeginDirect(d) \/ EndDirect(d)
    \/ \E w \in Writers : WriteStep(w)
    \/ \E s \in Cyclers : CycleStep(s)
    \/ \E n \in Names : DeleteRef(n)
    \/ \E s \in Stores : Refresh(s)
    \/ \E s \in Mortal : Crash(s)

Spec == Init /\ [][Next]_vars

-----------------------------------------------------------------------------
(* Every variable has its type; the mark only ever holds links to objects. *)
LockTypes ==
    /\ mode \in [Stores -> {"out", "write", "sweep"}]
    /\ dir \in SUBSET Packs
    /\ view \in [Stores -> SUBSET Packs]
PackTypes ==
    /\ holds \in [Packs -> SUBSET Keys]
    /\ active \in [Stores -> Packs \cup {None}]
    /\ idle \in SUBSET dir
WriterTypes ==
    /\ pc \in [Writers -> HoldsRefLock \cup {"idle"}]
    /\ root \in [Writers -> Keys \cup {None}]
    /\ cur \in [Writers -> Keys \cup {None}]
    /\ done \in [Writers -> SUBSET Keys]
CycleTypes ==
    /\ cycle \in [Stores -> Snapshotting \cup Compacting \cup {"idle", "snap", "mark", "failed"}]
    /\ grey \in [Stores -> (SUBSET Keys) \cup {None}]
    /\ victims \in [Stores -> SUBSET Packs]
MarkTypes ==
    /\ snap \in [Stores -> SUBSET Keys]
    /\ stack \in [Stores -> SUBSET Links]
    /\ marked \in [Stores -> SUBSET Keys]
    /\ walked \in [Stores -> SUBSET Keys]
RefTypes == refs \in [Names -> Keys \cup {None}]
TypeOK == LockTypes /\ PackTypes /\ WriterTypes /\ CycleTypes /\ MarkTypes /\ RefTypes

(* "An accepted reference never dangles" (mark-sweep-gc.md): everything    *)
(* its tree links to has a record, whatever writers, PUTs, deletes, cycles *)
(* and crashes of whatever process came before.                            *)
RefsComplete ==
    \A n \in Names : refs[n] # None => Closure[refs[n]] \subseteq Stored

(* A write that succeeded, as a duplicate or not, is not lost to the       *)
(* removal of a pack before its span ends (Collector::begin_write), so the *)
(* PUT that follows in the span finds it.                                  *)
WritesStay == \A w \in Writers : done[w] \subseteq Stored

-----------------------------------------------------------------------------
(* The inductive invariant behind RefsComplete and WritesStay.             *)

(* A sweep is alone in the gate; who is in the gate has only existing      *)
(* packs mapped; spans and cycles past the gate are in it.                 *)
GateInv ==
    /\ \A s, o \in Stores : s # o /\ mode[s] = "sweep" => mode[o] = "out"
    /\ \A s \in Stores : mode[s] # "out" => view[s] \subseteq dir
    /\ \A s \in Stores : cycle[s] \notin {"idle", "gate"} => mode[s] = "sweep"
    /\ \A w \in Writers : pc[w] \in InGate => mode[StoreOf[w]] # "out"

(* The reference lock excludes, and compact runs with no span in the gate. *)
LocksInv ==
    \A s \in Stores :
        /\ RefLocked(s) => ~RefShared(s)
        /\ cycle[s] \in Paused => Spans(s) = {}

(* A writer's own state; what a PUT has walked is there, and once it has   *)
(* told the barrier of it, captured.                                       *)
WriterInv ==
    /\ \A w \in Writers :
          /\ pc[w] = "write" => cur[w] \in Keys
          /\ done[w] # {} => pc[w] \in InGate
    /\ \A p \in Puts :
          /\ pc[p] # "idle" => root[p] \in Trees
          /\ pc[p] \in {"walked", "commit"} => Closure[root[p]] \subseteq Stored
          /\ pc[p] = "commit" /\ grey[StoreOf[p]] # None
                => Closure[root[p]] \subseteq grey[StoreOf[p]]

(* The packs that are appended to exist, and are not victims; victims are  *)
(* those of a compaction.                                                  *)
PackInv ==
    \A s \in Stores :
        /\ active[s] # None => active[s] \in dir
        /\ \A g \in victims[s] : g \in dir \ idle /\ \A o \in Stores : active[o] # g
        /\ victims[s] # {} => cycle[s] \in Paused

(* The links that the mark is through with: what they lead to is marked,   *)
(* and its own links were followed.                                        *)
Black(s) ==
    {l \in Links :
        l.key \in marked[s] /\ (l.leaf \/ l.key \notin Git \/ l.key \in walked[s])}

(* The links of what has been followed are followed, or on the stack; and  *)
(* the barrier is on from the snapshot until compact takes the grey set.   *)
MarkSound(s) ==
    /\ grey[s] # None <=> cycle[s] \in {"roots", "snap", "mark", "failed", "compact"}
    /\ cycle[s] \in Snapshotting \cup {"idle"} => marked[s] = {}
    /\ walked[s] \subseteq marked[s]
    /\ \A l \in stack[s] : l.key \notin Git => (l.leaf <=> l.key \in Leaves)
    /\ cycle[s] \notin Paused =>
          \A l \in Black(s) : ~l.leaf => LinksOf[l.key] \subseteq Black(s) \cup stack[s]
    /\ cycle[s] = "compact" => stack[s] = {}

MarkInv == \A s \in Stores : MarkSound(s)

(* From the snapshot on, the tree of a reference was captured or is yet to *)
(* be marked; then it is marked; then it has copies that are not to go.    *)
Covered(s, k) ==
    /\ cycle[s] \in {"snap", "mark", "compact"} =>
          Closure[k] \subseteq grey[s] \/ LinkTo(k) \in Black(s) \cup stack[s]
    /\ cycle[s] = "copy" => Closure[k] \subseteq marked[s]
    /\ cycle[s] \in {"detach", "reap"} => Closure[k] \subseteq InPacks(dir \ victims[s])

CoverInv ==
    \A s \in Stores, n \in Names : refs[n] # None => Covered(s, refs[n])

(* They go together with the types and the two promises. *)
SafetyInv ==
    /\ TypeOK /\ GateInv /\ LocksInv /\ WriterInv /\ PackInv /\ MarkInv /\ CoverInv
    /\ RefsComplete /\ WritesStay

(* Nothing maps a victim again between its leaving the view and its unlink. *)
DetachedInv == \A s \in Stores : cycle[s] = "reap" => victims[s] \cap view[s] = {}

(* All of it survives every step: no lock, barrier, mark, compaction or    *)
(* refresh (cycle.rs, barrier.rs, markset.rs, compact.rs, view.rs) lets    *)
(* one of them go.                                                         *)
IInv == SafetyInv /\ DetachedInv

-----------------------------------------------------------------------------
(* Threads go on with what they can do, and spans end.  A PUT that finds   *)
(* the gate free again and again gets in, for a store that has swept       *)
(* leaves it alone for SWEEP_YIELD; a cycle that waits for the reference   *)
(* lock gets it, for the RwLock lets no new reader past a waiting writer.  *)
(* No fairness is assumed of a cycle that waits for the gate.              *)
Fairness ==
    /\ \A p \in Puts :
          /\ SF_vars(OpenGate(p))
          /\ WF_vars(ObserveKeys(p))
          /\ SF_vars(EndSpan(p))
          /\ WF_vars(DropRefLock(p))
    /\ \A w \in Writers : WF_vars(Duplicate(w) \/ Append(w) \/ WriteFails(w))
    /\ \A d \in Directs : SF_vars(EndDirect(d))
    /\ \A s \in Cyclers :
          /\ WF_vars(BeginBarrier(s))
          /\ WF_vars(Roots(s))
          /\ WF_vars(NewMarkSet(s))
          /\ WF_vars(MarkFails(s) \/ \E l \in Links : MarkFrom(s, l))
          /\ SF_vars(Marked(s))
          /\ SF_vars(AbortCycle(s))
          /\ SF_vars(SelectVictims(s))
          /\ WF_vars(CopyLive(s) \/ CopyFails(s))
          /\ WF_vars(DetachVictims(s))
          /\ WF_vars(\E g \in Packs : RemoveVictim(s, g) \/ UnlinkFails(s, g))
          /\ WF_vars(EndCycle(s))

FairSpec == Spec /\ Fairness

(* The cycle, the PUTs and the writers of all processes, each holding one  *)
(* of the two locks while it waits for the other, never wait for each      *)
(* other for ever: a PUT that holds the reference lock gets the gate       *)
(* ("the order a cycle takes them in", Span).                              *)
PutServed == \A p \in Puts : pc[p] = "gate" ~> pc[p] # "gate"

(* A cycle that has the gate gives it back, whatever PUTs it finds holding *)
(* the reference lock it still needs.                                      *)
SweepEnds == \A s \in Cyclers : mode[s] = "sweep" ~> mode[s] = "out"
=============================================================================
