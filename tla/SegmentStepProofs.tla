------------------------- MODULE SegmentStepProofs --------------------------
(***************************************************************************)
(* That the rest of an owner's steps preserve the invariant of a segment:  *)
(* the sidecar, the fsyncs, the seal and the adoption of what a process    *)
(* left behind.                                                            *)
(***************************************************************************)
EXTENDS SegmentFileProofs

(* Steps that leave the file alone.                                        *)

(* The file's own invariant stands while it is left alone. *)
LEMMA FileInvKept ==
    ASSUME FileInv, UNCHANGED <<file, indexed, names>>,
           dropped # {} => own'.pc = "none" \/ own'.failed,
           name = "sealed" => own'.pc \in {"none", "dirsync"} \/ own'.failed,
           own'.pc = "dirsync" => name = "sealed"
    PROVE  FileInv'
BY Zenon DEF FileInv, file, names, At, EndsIn, Agrees

(* The owner's invariant stands while it leaves the file alone. *)
LEMMA OwnInvKept ==
    ASSUME IInv, Open, UNCHANGED file, own'.index = own.index, own'.due \subseteq Range(own.index),
           own'.pc \notin {"none", "sidecar"}, own'.op # "finish", ~own'.tail,
           own'.sync /\ ~own'.dirty => Size <= durable,
           own'.writes => sidecar' # NoSidecar /\ Lists(sidecar', own.index)
    PROVE  OwnInv'
<1>1. OwnInv /\ Whole(own.index)
  BY Parts, Zenon DEF OwnInv
<1>2. (Open)' /\ ~At("sidecar")' /\ Size' = Size /\ durable' = durable
  BY Zenon DEF Open, At, Size, file
<1>3. Whole(own.index)'
  BY <1>1, Zenon DEF Whole, Agrees, file
<1> QED BY <1>1, <1>2, <1>3, Zenon DEF OwnInv, Lists, At

(* WriteSidecar changes no more of the owner than whether it writes on. *)
LEMMA WroteSidecar ==
    ASSUME NEW ow \in Owners, NEW rec, WriteSidecar(rec, ow)
    PROVE  /\ OwnerTypes' /\ own'.pc = ow.pc /\ own'.op = ow.op /\ own'.sync = ow.sync
           /\ own'.index = ow.index /\ own'.failed = ow.failed /\ own'.dirty = ow.dirty
           /\ own'.kept = ow.kept /\ own'.tail = ow.tail /\ own'.due = ow.due
           /\ \/ own'.writes /\ ow.writes /\ sidecar' = Append(sidecar, rec)
              \/ ~own'.writes /\ sidecar' = sidecar
<1>1. CASE ow.writes /\ sidecar' = Append(sidecar, rec) /\ own' = ow
  BY <1>1, Zenon DEF OwnerTypes
<1>2. CASE sidecar' = sidecar /\ own' = [ow EXCEPT !.writes = FALSE]
  BY <1>2, Zenon DEF OwnerTypes, Owners
<1> QED BY <1>1, <1>2, Zenon DEF WriteSidecar

(* A record the owner appends to its sidecar: an entry of its index, or a  *)
(* mark on what is on the disk.                                            *)
LEMMA SidecarAppended ==
    ASSUME IInv, Open, own.writes, NEW rec \in SidecarRecs,
           rec.kind = "entry" => rec.off <= Size /\ own.index[rec.off] = rec.key,
           rec.kind = "synced" => Good(rec.off),
           UNCHANGED <<file, stale, view>>, sidecar' = Append(sidecar, rec)
    PROVE  /\ SidecarInv' /\ sidecar' \in Seq(SidecarRecs) /\ sidecar' # NoSidecar
           /\ Lists(sidecar', own.index)
<1>1. /\ FileTypes /\ ViewTypes /\ StaleInv /\ CarInv /\ ViewInv /\ OwnInv
      /\ own.index \in Seq(Keys) /\ Len(own.index) \in Nat
      /\ DOMAIN own.index = 1 .. Len(own.index)
  BY Parts, OwnTyped, Zenon DEF Size
<1>2. sidecar # NoSidecar /\ Lists(sidecar, own.index) /\ Agrees(own.index)
  BY <1>1, Zenon DEF OwnInv, Whole
<1>3. sidecar \in Seq(SidecarRecs)
  BY <1>1, <1>2, Zenon DEF FileTypes, Sidecars
<1>4. Range(sidecar') = Range(sidecar) \cup {rec}
  <2>1. Range(Append(sidecar, rec)) = Range(sidecar) \cup {rec}
    BY <1>3, RangeAppend
  <2> QED BY <2>1, Zenon
<1>5. sidecar' \in Seq(SidecarRecs)
  BY <1>3, AppendProperties
<1>6. sidecar' # NoSidecar /\ Records(sidecar') = sidecar' /\ Records(sidecar) = sidecar
  BY <1>2, <1>5, KeysAssumption, Zenon DEF Records
<1>7. Lists(sidecar', own.index)
  BY <1>2, <1>4, Zenon DEF Lists, Entries, Size
<1>8. ASSUME NEW m \in Marks(sidecar') PROVE Good(m)'
  <2>1. Good(m)
    BY <1>1, <1>4, <1>6, Zenon DEF Marks, CarInv
  <2> QED BY <2>1, Zenon DEF Good, file
<1>9. KeepsGood /\ UNCHANGED <<data, view>>
  BY FileUnchanged, Zenon DEF file
<1>10. CarInv'
  BY <1>1, <1>2, <1>5, <1>6, <1>7, <1>8, <1>9, CarWritten, Zenon
<1>11. StaleInv' /\ ViewInv'
  BY <1>1, <1>9, StaleKept, ViewKept, Zenon
<1>12. SidecarInv'
  BY <1>10, <1>11, Zenon DEF SidecarInv, StaleInv, CarInv, ViewInv
<1> QED BY <1>5, <1>6, <1>7, <1>12

(* Listing a record in the sidecar preserves the invariant *)
(* (Sidecar::append).                                      *)
LEMMA WriteEntryStep ==
    ASSUME IInv, WriteEntry
    PROVE  IInv'
<1>1. /\ FileTypes /\ OwnerTypes /\ ViewTypes /\ SidecarInv /\ OwnInv /\ StepInv /\ FileInv
      /\ own.index \in Seq(Keys) /\ Size \in Nat /\ DOMAIN own.index = 1 .. Size
  BY Parts, OwnTyped, Zenon
<1>2. own.pc = "entry" /\ UNCHANGED <<file, indexed, stale, name, renamed, view, acked>>
  BY Zenon DEF WriteEntry, At, names
<1>3. Open /\ ~own.failed /\ ~own.tail /\ own.op # "finish" /\ Size > 0 /\ ~At("none") /\ ~At("dirsync")
  BY <1>1, <1>2, Zenon DEF Open, StepInv, At
<1> DEFINE next == AfterAppend(own.op)
           ow == IF next = "idle" THEN [own EXCEPT !.op = "none", !.due = {}] ELSE own
           oz == [ow EXCEPT !.pc = next]
           rec == Entry(own.index[Size], Size)
<1>4. next \in {"fsync", "footer", "idle"}
  BY Zenon DEF AfterAppend
<1>5. ow \in Owners /\ ow.op \in {own.op, "none"} /\ ow.due \subseteq own.due
      /\ ow.sync = own.sync /\ ow.index = own.index /\ ow.failed = own.failed
      /\ ow.dirty = own.dirty /\ ow.tail = own.tail /\ ow.writes = own.writes
  <2>1. CASE next = "idle"
    <3>1. ow = [own EXCEPT !.op = "none", !.due = {}]
      BY <2>1, Zenon
    <3> HIDE DEF ow
    <3> QED BY <1>1, <3>1, Zenon DEF OwnerTypes, Owners
  <2>2. CASE next # "idle"
    <3>1. ow = own
      BY <2>2, Zenon
    <3> HIDE DEF ow
    <3> QED BY <1>1, <3>1, Zenon DEF OwnerTypes
  <2> QED BY <2>1, <2>2
<1>6. WriteSidecar(rec, oz)
  BY Zenon DEF WriteEntry
<1> HIDE DEF ow, next
<1>7. oz \in Owners /\ oz.pc = next /\ oz.op \in {own.op, "none"} /\ oz.due \subseteq own.due
      /\ oz.sync = own.sync /\ oz.index = own.index /\ oz.failed = own.failed
      /\ oz.dirty = own.dirty /\ oz.tail = own.tail /\ oz.writes = own.writes
  BY <1>4, <1>5, Zenon DEF Owners
<1> HIDE DEF oz
<1>8. /\ OwnerTypes' /\ own'.pc \in {"fsync", "footer", "idle"} /\ own'.op \in {own.op, "none"}
      /\ own'.due \subseteq own.due /\ own'.sync = own.sync /\ own'.index = own.index
      /\ ~own'.failed /\ own'.dirty = own.dirty /\ ~own'.tail
      /\ \/ own'.writes /\ own.writes /\ sidecar' = Append(sidecar, rec)
         \/ ~own'.writes /\ sidecar' = sidecar
  BY <1>3, <1>4, <1>6, <1>7, WroteSidecar, Zenon
<1>9. rec \in SidecarRecs /\ rec.kind = "entry" /\ rec.off = Size /\ rec.key = own.index[Size]
  <2>1. Size \in Nat \ {0} /\ own.index[Size] \in Keys
    BY <1>1, <1>3
  <2> QED BY <2>1, Zenon DEF Entry, SidecarRecs
<1> HIDE DEF rec
<1>10. /\ SidecarInv' /\ sidecar' \in Sidecars
       /\ own'.writes => sidecar' # NoSidecar /\ Lists(sidecar', own.index)
  <2>1. CASE own'.writes /\ own.writes /\ sidecar' = Append(sidecar, rec)
    <3>1. rec.off <= Size /\ rec.kind # "synced"
      BY <1>1, <1>9
    <3>2. /\ SidecarInv' /\ sidecar' \in Seq(SidecarRecs) /\ sidecar' # NoSidecar
          /\ Lists(sidecar', own.index)
      BY <1>2, <1>3, <1>9, <2>1, <3>1, SidecarAppended, Zenon
    <3> QED BY <3>2, Zenon DEF Sidecars
  <2>2. CASE ~own'.writes /\ sidecar' = sidecar
    <3>1. KeepsGood
      BY <1>2, FileUnchanged, Zenon
    <3> QED BY <1>1, <1>2, <2>2, <3>1, SidecarKept, Zenon DEF FileTypes
  <2> QED BY <1>8, <2>1, <2>2, Zenon
<1>11. FileTypes'
  BY <1>1, <1>2, <1>10, Zenon DEF FileTypes, file
<1>12. OwnInv'
  <2>1. own'.due \subseteq Range(own.index) /\ own'.pc \notin {"none", "sidecar"}
        /\ own'.op # "finish" /\ (own'.sync /\ ~own'.dirty => Size <= durable)
    BY <1>1, <1>3, <1>8, Zenon DEF OwnInv
  <2> QED BY <1>2, <1>3, <1>8, <1>10, <2>1, OwnInvKept, Zenon
<1>13. StepInv'
  BY <1>3, <1>8, Zenon DEF StepInv, At
<1>14. FileInv'
  <2>1. dropped = {} /\ name # "sealed" /\ own'.pc # "dirsync" /\ UNCHANGED names
    BY <1>1, <1>2, <1>3, <1>8, Running, Zenon DEF names
  <2> QED BY <1>1, <1>2, <2>1, FileInvKept, Zenon
<1> QED BY <1>2, <1>8, <1>10, <1>11, <1>12, <1>13, <1>14, FileUnchanged, OwnerStep, Zenon

(* An index of no more than the disk has, with no page dropped, is of      *)
(* records that are safe.                                                  *)
LEMMA IndexSafe ==
    ASSUME FileTypes, NEW ix \in Seq(Keys), Agrees(ix), Len(ix) <= durable, dropped = {}
    PROVE  Good(Len(ix)) /\ Range(ix) \subseteq Safe
<1>1. Len(ix) \in Nat /\ DOMAIN ix = 1 .. Len(ix) /\ durable \in Nat
      /\ \A i \in 1 .. Len(ix) : ix[i] \in Keys
  BY DataType
<1>2. \A i \in 1 .. Len(ix) : data[i] = ix[i] /\ data[i] \in Keys /\ i \notin dropped
  BY <1>1, Zenon DEF Agrees
<1>3. ASSUME NEW i \in 1 .. Len(ix) PROVE ix[i] \in Safe
  <2>1. i \in 1 .. durable /\ \A j \in 1 .. i : j \in 1 .. Len(ix)
    BY <1>1
  <2> QED BY <1>2, <2>1, Zenon DEF Safe
<1>4. ASSUME NEW k \in Range(ix) PROVE k \in Safe
  BY <1>1, <1>3, Zenon DEF Range
<1> QED BY <1>2, <1>4, Zenon DEF Good

(* A step that leaves the file alone and acknowledges nothing new, or only *)
(* what is safe.                                                           *)
LEMMA QuietStep ==
    ASSUME IInv, UNCHANGED <<file, indexed, names, view>>, acked' \subseteq acked \cup Safe,
           sidecar' \in Sidecars, stale' \in Sidecars,
           OwnerTypes', SidecarInv', OwnInv', StepInv',
           dropped # {} => own'.pc = "none" \/ own'.failed,
           name = "sealed" => own'.pc \in {"none", "dirsync"} \/ own'.failed,
           own'.pc = "dirsync" => name = "sealed"
    PROVE  IInv'
<1>1. KeepsGood /\ KeepsRecords
  BY FileUnchanged, Zenon
<1>2. Safe \subseteq Safe' /\ Safe \subseteq Keys
  <2>1. ASSUME NEW k \in Safe PROVE k \in Keys
    <3>1. PICK i \in 1 .. durable : k = data[i] /\ \A j \in 1 .. i : data[j] \in Keys
      BY Zenon DEF Safe
    <3>2. i \in 1 .. i
      BY Parts, DataType
    <3> QED BY <3>1, <3>2, Zenon
  <2> QED BY <1>1, <2>1, Parts, SafeKept, Zenon
<1>3. FileTypes'
  <2>1. acked' \subseteq Keys
    BY <1>2, Parts, Zenon DEF FileTypes
  <2> QED BY <2>1, Parts, Zenon DEF FileTypes, file, names
<1>4. FileInv'
  BY Parts, FileInvKept, Zenon
<1>5. view' = view /\ acked' \subseteq acked \cup Safe'
  BY <1>2, Zenon
<1> QED BY <1>1, <1>3, <1>4, <1>5, AckStep, Zenon

(* What an owner syncs or has synced, it acknowledges. *)
LEMMA OwnerSafe ==
    ASSUME IInv, Open, ~own.failed, Size <= durable
    PROVE  Good(Size) /\ Range(own.index) \subseteq Safe
<1>1. /\ FileTypes /\ own.index \in Seq(Keys) /\ Agrees(own.index) /\ FileInv /\ ~At("none")
  BY Parts, OwnTyped, Zenon DEF OwnInv, Whole, Open
<1>2. dropped = {}
  BY <1>1, Zenon DEF FileInv
<1> QED BY <1>1, <1>2, IndexSafe, Zenon DEF Size

(* Marking what was synced preserves the invariant (Sidecar::synced). *)
LEMMA MarkSyncedStep ==
    ASSUME IInv, MarkSynced
    PROVE  IInv'
<1>1. /\ FileTypes /\ OwnerTypes /\ ViewTypes /\ SidecarInv /\ OwnInv /\ StepInv /\ FileInv
      /\ own.index \in Seq(Keys) /\ Size \in Nat /\ DOMAIN own.index = 1 .. Size
  BY Parts, OwnTyped, Zenon
<1>2. own.pc = "mark" /\ UNCHANGED <<file, indexed, stale, name, renamed, view>>
  BY Zenon DEF MarkSynced, At, names
<1>3. Open /\ ~own.failed /\ ~own.tail /\ own.op # "finish" /\ ~At("none") /\ ~At("dirsync")
      /\ durable = Len(data)
  BY <1>1, <1>2, Zenon DEF Open, StepInv, At
<1>4. Size <= durable
  BY <1>1, <1>3, Zenon DEF OwnInv, Whole, Agrees, Size
<1>5. Good(Size) /\ Range(own.index) \subseteq Safe
  BY <1>3, <1>4, OwnerSafe, Zenon
<1> DEFINE o1 == [own EXCEPT !.pc = "footer", !.dirty = FALSE]
           o2 == [own EXCEPT !.pc = "idle", !.op = "none", !.dirty = FALSE, !.due = {}]
           rec == Synced(Size)
<1>6. \E oz \in {o1, o2} : WriteSidecar(rec, oz)
  BY Zenon DEF MarkSynced
<1>7. acked' \subseteq acked \cup own.due
  BY Zenon DEF MarkSynced
<1>8. ASSUME NEW oz \in {o1, o2}
      PROVE  /\ oz \in Owners /\ oz.pc \in {"footer", "idle"} /\ oz.op \in {own.op, "none"}
             /\ oz.due \subseteq own.due
             /\ oz.sync = own.sync /\ oz.index = own.index /\ oz.failed = own.failed
             /\ oz.tail = own.tail /\ oz.writes = own.writes
  <2>1. CASE oz = o1
    BY <1>1, <2>1, Zenon DEF OwnerTypes, Owners
  <2>2. CASE oz = o2
    BY <1>1, <2>2, Zenon DEF OwnerTypes, Owners
  <2> QED BY <2>1, <2>2, Zenon
<1> HIDE DEF o1, o2
<1>9. /\ OwnerTypes' /\ own'.pc \in {"footer", "idle"} /\ own'.op \in {own.op, "none"}
      /\ own'.due \subseteq own.due /\ own'.sync = own.sync /\ own'.index = own.index
      /\ ~own'.failed /\ ~own'.tail
      /\ \/ own'.writes /\ own.writes /\ sidecar' = Append(sidecar, rec)
         \/ ~own'.writes /\ sidecar' = sidecar
  <2>1. PICK oz \in {o1, o2} : WriteSidecar(rec, oz)
    BY <1>6, Zenon
  <2>2. /\ oz \in Owners /\ oz.pc \in {"footer", "idle"} /\ oz.op \in {own.op, "none"}
        /\ oz.due \subseteq own.due
        /\ oz.sync = own.sync /\ oz.index = own.index /\ oz.failed = own.failed
        /\ oz.tail = own.tail /\ oz.writes = own.writes
    BY <1>8, Zenon
  <2> HIDE DEF rec
  <2> QED BY <1>3, <2>1, <2>2, WroteSidecar, Zenon
<1>10. rec \in SidecarRecs /\ rec.kind = "synced" /\ rec.off = Size
  BY <1>1, Zenon DEF Synced, SidecarRecs
<1> HIDE DEF rec
<1>11. /\ SidecarInv' /\ sidecar' \in Sidecars
       /\ own'.writes => sidecar' # NoSidecar /\ Lists(sidecar', own.index)
  <2>1. CASE own'.writes /\ own.writes /\ sidecar' = Append(sidecar, rec)
    <3>1. rec.kind # "entry" /\ Good(rec.off)
      BY <1>5, <1>10, Zenon
    <3>2. /\ SidecarInv' /\ sidecar' \in Seq(SidecarRecs) /\ sidecar' # NoSidecar
          /\ Lists(sidecar', own.index)
      BY <1>2, <1>3, <1>10, <2>1, <3>1, SidecarAppended, Zenon
    <3> QED BY <3>2, Zenon DEF Sidecars
  <2>2. CASE ~own'.writes /\ sidecar' = sidecar
    <3>1. KeepsGood
      BY <1>2, FileUnchanged, Zenon
    <3> QED BY <1>1, <1>2, <2>2, <3>1, SidecarKept, Zenon DEF FileTypes
  <2> QED BY <1>9, <2>1, <2>2, Zenon
<1>12. OwnInv'
  <2>1. own'.due \subseteq Range(own.index) /\ own'.pc \notin {"none", "sidecar"}
        /\ own'.op # "finish"
    BY <1>1, <1>3, <1>9, Zenon DEF OwnInv
  <2> QED BY <1>2, <1>3, <1>4, <1>9, <1>11, <2>1, OwnInvKept, Zenon
<1>13. StepInv'
  BY <1>3, <1>9, Zenon DEF StepInv, At
<1>14. dropped = {} /\ name # "sealed" /\ own'.pc # "dirsync" /\ UNCHANGED names
  BY <1>1, <1>2, <1>3, <1>9, Running, Zenon DEF names
<1>15. acked' \subseteq acked \cup Safe /\ stale' \in Sidecars
  BY <1>1, <1>2, <1>5, <1>7, Zenon DEF OwnInv, FileTypes
<1> QED BY <1>2, <1>9, <1>11, <1>12, <1>13, <1>14, <1>15, QuietStep, Zenon

(* A step of a running owner that changes no file. *)
LEMMA WorkStep ==
    ASSUME IInv, own.pc # "none", own.pc # "dirsync", own.op # "finish", ~own.failed, ~own.tail,
           UNCHANGED <<file, indexed, index, names, view>>, acked' \subseteq acked \cup Safe,
           OwnerTypes', SameWriter, own'.due \subseteq Range(own.index), ~own'.failed,
           own'.pc \notin {"none", "sidecar", "entry", "mark", "close", "sealsync", "rename",
                          "dirsync"},
           own'.op # "finish"
    PROVE  IInv'
<1>1. /\ FileTypes /\ ViewTypes /\ SidecarInv /\ OwnInv /\ FileInv /\ Open
      /\ ~At("none") /\ ~At("dirsync")
  BY Parts, Zenon DEF Open, At
<1>2. dropped = {} /\ name # "sealed"
  BY <1>1, Running, Zenon
<1>3. UNCHANGED <<sidecar, stale>> /\ KeepsGood
  BY FileUnchanged, Zenon DEF index
<1>4. SidecarInv'
  BY <1>1, <1>3, SidecarKept, Zenon
<1>5. /\ own'.sync /\ ~own'.dirty => Size <= durable
      /\ own'.writes => sidecar' # NoSidecar /\ Lists(sidecar', own.index)
      /\ own'.index = own.index /\ ~own'.tail
  BY <1>1, <1>3, Zenon DEF OwnInv, SameWriter
<1>6. OwnInv'
  BY <1>1, <1>5, OwnInvKept, Zenon
<1>7. StepInv'
  BY <1>5, Zenon DEF StepInv, At
<1>8. sidecar' \in Sidecars /\ stale' \in Sidecars
  BY <1>1, <1>3, Zenon DEF FileTypes
<1> QED BY <1>2, <1>4, <1>6, <1>7, <1>8, QuietStep, Zenon

(* Starting a sync preserves the invariant (sync_active). *)
LEMMA SyncActiveStep ==
    ASSUME IInv, SyncActive
    PROVE  IInv'
<1>1. OwnerTypes /\ StepInv /\ own.index \in Seq(Keys)
  BY Parts, OwnTyped, Zenon
<1>2. /\ own.pc = "idle" /\ ~own.failed
      /\ own' = [own EXCEPT !.pc = "fsync", !.op = "batch", !.due = Range(own.index)]
      /\ UNCHANGED <<file, indexed, index, names, view>> /\ acked' = acked
  BY Zenon DEF SyncActive, At
<1>3. own.op # "finish" /\ ~own.tail
  BY <1>1, <1>2, Zenon DEF StepInv, At
<1>4. Range(own.index) \subseteq Keys
  BY <1>1, RangeElement, Zenon
<1>5. /\ OwnerTypes' /\ SameWriter /\ own'.due = Range(own.index) /\ own'.failed = own.failed
      /\ own'.pc = "fsync" /\ own'.op = "batch"
  BY <1>1, <1>2, <1>4, Zenon DEF OwnerTypes, Owners, SameWriter
<1>6. /\ own.pc # "none" /\ own.pc # "dirsync" /\ own'.due \subseteq Range(own.index)
      /\ acked' \subseteq acked \cup Safe /\ ~own'.failed /\ own'.op # "finish"
      /\ own'.pc \notin {"none", "sidecar", "entry", "mark", "close", "sealsync", "rename",
                         "dirsync"}
  BY <1>2, <1>5, Zenon
<1> QED BY <1>2, <1>3, <1>5, <1>6, WorkStep, Zenon

(* Leaving a segment active preserves the invariant. *)
LEMMA LeaveActiveStep ==
    ASSUME IInv, LeaveActive
    PROVE  IInv'
<1>1. OwnerTypes /\ StepInv
  BY Parts, Zenon
<1>2. /\ own.pc = "idle" /\ ~own.failed
      /\ own' = [own EXCEPT !.pc = "footer", !.op = "seal", !.due = {}]
      /\ UNCHANGED <<file, indexed, index, names, view>> /\ acked' = acked
  BY Zenon DEF LeaveActive, At
<1>3. own.op # "finish" /\ ~own.tail
  BY <1>1, <1>2, Zenon DEF StepInv, At
<1>4. /\ OwnerTypes' /\ SameWriter /\ own'.due = {} /\ own'.failed = own.failed
      /\ own'.pc = "footer" /\ own'.op = "seal"
  BY <1>1, <1>2, Zenon DEF OwnerTypes, Owners, SameWriter
<1>5. /\ own.pc # "none" /\ own.pc # "dirsync" /\ own'.due \subseteq Range(own.index)
      /\ acked' \subseteq acked \cup Safe /\ ~own'.failed /\ own'.op # "finish"
      /\ own'.pc \notin {"none", "sidecar", "entry", "mark", "close", "sealsync", "rename",
                         "dirsync"}
  BY <1>2, <1>4, Zenon
<1> QED BY <1>2, <1>3, <1>4, <1>5, WorkStep, Zenon

(* A put of a key the owner has preserves the invariant. *)
LEMMA OwnDuplicateStep ==
    ASSUME IInv, NEW k \in Keys, OwnDuplicate(k)
    PROVE  IInv'
<1>1. OwnerTypes /\ StepInv /\ OwnInv
  BY Parts, Zenon
<1>2. /\ own.pc = "idle" /\ ~own.failed /\ own.sync /\ ~own.dirty /\ k \in Range(own.index)
      /\ own' = own /\ acked' = acked \cup {k}
      /\ UNCHANGED <<file, indexed, index, names, view>>
  BY Zenon DEF OwnDuplicate, At
<1>3. own.op # "finish" /\ ~own.tail /\ Open
  BY <1>1, <1>2, Zenon DEF StepInv, At, Open
<1>4. Range(own.index) \subseteq Safe
  BY <1>1, <1>2, <1>3, OwnerSafe, Zenon DEF OwnInv
<1>5. /\ OwnerTypes' /\ SameWriter /\ own'.due \subseteq Range(own.index)
  BY <1>1, <1>2, Zenon DEF OwnerTypes, SameWriter, OwnInv
<1>6. /\ own.pc # "none" /\ own.pc # "dirsync"
      /\ acked' \subseteq acked \cup Safe /\ ~own'.failed /\ own'.op # "finish"
      /\ own'.pc \notin {"none", "sidecar", "entry", "mark", "close", "sealsync", "rename",
                         "dirsync"}
  BY <1>2, <1>3, <1>4, Zenon
<1> QED BY <1>2, <1>3, <1>5, <1>6, WorkStep, Zenon

(* Nobody has the segment after the step. *)
LEMMA LeaveStep ==
    ASSUME IInv, own' = Nobody, UNCHANGED <<file, indexed, names, view, stale>>,
           acked' \subseteq acked \cup Safe, sidecar' \in Sidecars, SidecarInv'
    PROVE  IInv'
<1>1. OwnerTypes' /\ OwnInv' /\ StepInv' /\ own'.pc = "none"
  BY NobodyInv, NobodyOwn, Zenon
<1>2. own'.pc \in {"none", "dirsync"} /\ own'.pc # "dirsync"
  BY <1>1, Zenon
<1>3. stale' \in Sidecars
  BY Parts, Zenon DEF FileTypes
<1> QED BY <1>1, <1>2, <1>3, QuietStep, Zenon

(* The death of the process preserves the invariant. *)
LEMMA CrashStep ==
    ASSUME IInv, Crash
    PROVE  IInv'
<1>1. /\ own' = Nobody /\ UNCHANGED <<file, indexed, names, view, stale, sidecar>>
      /\ acked' \subseteq acked \cup Safe
  BY Zenon DEF Crash, index
<1>2. SidecarInv' /\ sidecar' \in Sidecars
  BY <1>1, Parts, SidecarKept, FileUnchanged, Zenon DEF FileTypes
<1> QED BY <1>1, <1>2, LeaveStep, Zenon

(* The mark written at the close preserves the invariant. *)
LEMMA CloseMarkStep ==
    ASSUME IInv, CloseMark
    PROVE  IInv'
<1>1. /\ own' = Nobody /\ UNCHANGED <<file, indexed, names, view, stale>>
      /\ acked' \subseteq acked \cup Safe /\ own.pc = "close"
      /\ \/ sidecar' = sidecar
         \/ ~own.failed /\ own.writes /\ sidecar' = Append(sidecar, Synced(Size))
  BY Zenon DEF CloseMark, At
<1>2. CASE sidecar' = sidecar
  <2>1. SidecarInv' /\ sidecar' \in Sidecars
    BY <1>1, <1>2, Parts, SidecarKept, FileUnchanged, Zenon DEF FileTypes
  <2> QED BY <1>1, <2>1, LeaveStep, Zenon
<1>3. CASE ~own.failed /\ own.writes /\ sidecar' = Append(sidecar, Synced(Size))
  <2>1. Size \in Nat /\ OwnInv /\ StepInv
    BY Parts, OwnTyped, Zenon
  <2>2. Open /\ durable = Len(data)
    BY <1>1, <2>1, Zenon DEF Open, StepInv, At
  <2>3. Size <= durable
    BY <2>1, <2>2, Zenon DEF OwnInv, Whole, Agrees, Size
  <2>4. Good(Size)
    BY <1>3, <2>2, <2>3, OwnerSafe, Zenon
  <2>5. Synced(Size) \in SidecarRecs /\ Synced(Size).kind = "synced" /\ Synced(Size).off = Size
    BY <2>1, Zenon DEF Synced, SidecarRecs
  <2>6. PICK rec \in SidecarRecs : rec = Synced(Size)
    BY <2>5, Zenon
  <2>7. rec.kind # "entry" /\ Good(rec.off) /\ sidecar' = Append(sidecar, rec)
    BY <1>3, <2>4, <2>5, <2>6, Zenon
  <2>8. SidecarInv' /\ sidecar' \in Seq(SidecarRecs)
    BY <1>1, <1>3, <2>2, <2>7, SidecarAppended, Zenon
  <2> QED BY <1>1, <2>8, LeaveStep, Zenon DEF Sidecars
<1> QED BY <1>1, <1>2, <1>3

-----------------------------------------------------------------------------
(* Steps that sync the file, or fail to.                                   *)

(* What an fsync, whether it succeeds or fails, does to the file. *)
LEMMA FsyncFile ==
    ASSUME FileTypes, FsyncSucceeds \/ FsyncFails
    PROVE  /\ KeepsGood /\ KeepsRecords /\ data' = data
           /\ durable' \in 0 .. Len(data') /\ durable <= durable'
           /\ dropped' \subseteq 1 .. Len(data')
           /\ durable = Len(data) => durable' = Len(data) /\ dropped' = dropped
<1>1. /\ Len(data) \in Nat /\ durable \in Nat /\ durable <= Len(data) /\ dropped \subseteq 1 .. Len(data)
  BY DataType, Zenon DEF FileTypes
<1>2. PICK lost \in SUBSET (durable + 1 .. Len(data)) :
         /\ data' = data /\ dropped' = dropped \cup lost
         /\ durable' \in {durable, Len(data)}
  <2>1. CASE FsyncSucceeds
    <3>1. dropped' = dropped \cup {}
      BY <2>1, Zenon DEF FsyncSucceeds
    <3> QED BY <2>1, <3>1, Zenon DEF FsyncSucceeds
  <2>2. CASE FsyncFails
    BY <2>2, Zenon DEF FsyncFails, Dropping
  <2> QED BY <2>1, <2>2, Zenon
<1>3. durable' \in 0 .. Len(data') /\ durable <= durable' /\ durable' \in Nat
  BY <1>1, <1>2
<1>4. dropped' \subseteq 1 .. Len(data')
  <2>1. lost \subseteq 1 .. Len(data)
    BY <1>1
  <2> QED BY <1>1, <1>2, <2>1, Zenon
<1>5. durable = Len(data) => durable' = Len(data) /\ dropped' = dropped
  <2> SUFFICES ASSUME durable = Len(data) PROVE durable' = Len(data) /\ dropped' = dropped
    BY Zenon
  <2>1. durable + 1 .. Len(data) = {}
    BY <1>1
  <2>2. lost = {}
    BY <2>1, Zenon
  <2>3. dropped \cup {} = dropped
    OBVIOUS
  <2> QED BY <1>2, <2>2, <2>3, Zenon
<1>6. dropped' \subseteq dropped \cup (durable + 1 .. Len(data))
  BY <1>2, Zenon
<1>7. KeepsGood /\ KeepsRecords
  BY <1>2, <1>3, <1>6, FileSynced, Zenon
<1> QED BY <1>2, <1>3, <1>4, <1>5, <1>7

(* The owner's invariant stands across an fsync. *)
LEMMA OwnInvSynced ==
    ASSUME IInv, data' = data, durable' \in Nat, durable <= durable', SameWriter,
           own'.due \subseteq own.due, sidecar' = sidecar, (Open)' <=> Open,
           ~At("none"), ~At("sidecar"), own'.pc \notin {"none", "sidecar"}
    PROVE  OwnInv'
<1>1. OwnInv /\ StepInv /\ FileTypes /\ Size \in Nat /\ durable \in Nat
  BY Parts, OwnTyped, DataType, Zenon
<1>2. Size' = Size /\ own'.index = own.index /\ ~own'.tail /\ own'.writes = own.writes
      /\ own'.sync = own.sync /\ own'.dirty = own.dirty
  BY <1>1, Zenon DEF Size, SameWriter, StepInv
<1>3. Open => Whole(own.index)'
  BY <1>1, <1>2, Zenon DEF OwnInv, Whole, Agrees
<1>4. Open /\ own.sync /\ ~own.dirty => Size <= durable'
  <2>1. Open /\ own.sync /\ ~own.dirty => Size <= durable
    BY <1>1, Zenon DEF OwnInv
  <2>2. Size <= durable => Size <= durable'
    BY <1>1
  <2> QED BY <2>1, <2>2, Zenon
<1>5. own'.due \subseteq Range(own'.index)
  BY <1>1, <1>2, Zenon DEF OwnInv
<1> QED BY <1>1, <1>2, <1>3, <1>4, <1>5, Zenon DEF OwnInv, Lists, At

(* The file's invariant stands across an fsync. *)
LEMMA FileInvSynced ==
    ASSUME FileInv, data' = data, UNCHANGED <<indexed, names>>,
           dropped' # {} => name = "active" /\ (own'.pc = "none" \/ own'.failed),
           name = "sealed" =>
               durable' = Len(data) /\ (own'.pc \in {"none", "dirsync"} \/ own'.failed),
           own'.pc = "dirsync" => name = "sealed"
    PROVE  FileInv'
BY Zenon DEF FileInv, names, At, EndsIn, Agrees

(* The invariant after an fsync by the owner, from its own side of it. *)
LEMMA SyncStep ==
    ASSUME IInv, FsyncSucceeds \/ FsyncFails, UNCHANGED <<indexed, index, names, view, acked>>,
           OwnerTypes', OwnInv', StepInv', ~At("dirsync"),
           dropped' # {} => own'.pc = "none" \/ own'.failed,
           name = "sealed" => own'.pc = "none" \/ own'.failed, own'.pc # "dirsync"
    PROVE  IInv'
<1>1. FileTypes /\ ViewTypes /\ SidecarInv /\ FileInv
  BY Parts, Zenon
<1>2. /\ KeepsGood /\ KeepsRecords /\ data' = data
      /\ durable' \in 0 .. Len(data') /\ dropped' \subseteq 1 .. Len(data')
      /\ durable = Len(data) => durable' = Len(data) /\ dropped' = dropped
  BY <1>1, FsyncFile, Zenon
<1>3. UNCHANGED <<sidecar, stale, name, renamed, view, acked>>
  BY Zenon DEF index, names
<1>4. FileTypes'
  BY <1>1, <1>2, <1>3, Zenon DEF FileTypes
<1>5. SidecarInv'
  BY <1>1, <1>2, <1>3, SidecarKept, Zenon
<1>6. name = "sealed" => durable' = Len(data) /\ dropped' = {}
  BY <1>1, <1>2, Zenon DEF FileInv
<1>7. name = "active" \/ name = "sealed"
  BY <1>1, Zenon DEF FileTypes
<1>8. FileInv'
  BY <1>1, <1>2, <1>6, <1>7, FileInvSynced, Zenon
<1> QED BY <1>2, <1>3, <1>4, <1>5, <1>8, OwnerStep, Zenon

(* An fsync of the records preserves the invariant (sync_active). *)
LEMMA FsyncStep ==
    ASSUME IInv, Fsync
    PROVE  IInv'
<1>1. FileTypes /\ OwnerTypes /\ StepInv /\ FileInv
  BY Parts, Zenon
<1>2. own.pc = "fsync" /\ UNCHANGED <<indexed, index, names, view, acked>>
  BY Zenon DEF Fsync, At
<1>3. /\ ~own.failed /\ own.op # "finish" /\ ~At("none") /\ ~At("sidecar") /\ ~At("dirsync")
      /\ ~own.tail
  BY <1>1, <1>2, Zenon DEF StepInv, At
<1>4. dropped = {} /\ name # "sealed"
  BY <1>1, <1>3, Running, Zenon
<1>5. \/ FsyncSucceeds /\ Goto("mark")
      \/ FsyncFails /\ Fails
  BY Zenon DEF Fsync
<1>6. data' = data /\ durable' \in Nat /\ durable <= durable' /\ sidecar' = sidecar
  BY <1>1, <1>2, <1>5, FsyncFile DEF index
<1>7. CASE FsyncSucceeds /\ Goto("mark")
  <2>1. OwnerTypes' /\ SameWriter /\ own'.pc = "mark" /\ own'.op = own.op
        /\ own'.failed = own.failed /\ own'.due = own.due
    BY <1>1, <1>7, GotoOwn, Zenon
  <2>2. /\ (Open)' <=> Open
        /\ own'.due \subseteq own.due /\ own'.pc \notin {"none", "sidecar", "dirsync"}
    BY <1>2, <2>1, Zenon DEF Open, At
  <2>3. OwnInv'
    BY <1>3, <1>6, <2>1, <2>2, OwnInvSynced, Zenon
  <2>4. durable' = Len(data') /\ dropped' = {}
    BY <1>4, <1>7, Zenon DEF FsyncSucceeds
  <2>5. StepInv'
    BY <1>3, <2>1, <2>4, Zenon DEF StepInv, At, SameWriter
  <2> QED BY <1>2, <1>3, <1>4, <1>7, <2>1, <2>2, <2>3, <2>4, <2>5, SyncStep, Zenon
<1>8. CASE FsyncFails /\ Fails
  <2>1. OwnerTypes' /\ SameWriter /\ own'.pc = "idle" /\ own'.op = "none"
        /\ own'.failed = TRUE /\ own'.due = {}
    BY <1>1, <1>8, FailsOwn, Zenon
  <2>2. /\ (Open)' <=> Open
        /\ own'.due \subseteq own.due /\ own'.pc \notin {"none", "sidecar", "dirsync"}
    BY <1>2, <1>3, <2>1, Zenon DEF Open, At
  <2>3. OwnInv'
    BY <1>3, <1>6, <2>1, <2>2, OwnInvSynced, Zenon
  <2>4. StepInv'
    BY <1>3, <2>1, Zenon DEF StepInv, At, SameWriter
  <2> QED BY <1>2, <1>3, <1>4, <1>8, <2>1, <2>2, <2>3, <2>4, SyncStep, Zenon
<1> QED BY <1>5, <1>7, <1>8

(* The fsync of a seal preserves the invariant (seal). *)
LEMMA FsyncFooterStep ==
    ASSUME IInv, FsyncFooter
    PROVE  IInv'
<1>1. FileTypes /\ OwnerTypes /\ StepInv /\ FileInv
  BY Parts, Zenon
<1>2. own.pc = "sealsync" /\ UNCHANGED <<indexed, index, names, view, acked>>
  BY Zenon DEF FsyncFooter, At
<1>3. /\ ~own.failed /\ ~At("none") /\ ~At("sidecar") /\ ~At("dirsync")
      /\ ~own.tail /\ EndsIn(data, {Footer})
  BY <1>1, <1>2, Zenon DEF StepInv, At
<1>4. dropped = {} /\ name # "sealed"
  BY <1>1, <1>3, Running, Zenon
<1>5. \/ FsyncSucceeds /\ Goto("rename")
      \/ FsyncFails /\ own.op = "finish" /\ own' = Nobody
      \/ FsyncFails /\ own.op # "finish" /\ Fails
  BY Zenon DEF FsyncFooter, SealFails
<1>6. data' = data /\ durable' \in Nat /\ durable <= durable' /\ sidecar' = sidecar
  BY <1>1, <1>2, <1>5, FsyncFile DEF index
<1>7. CASE FsyncSucceeds /\ Goto("rename")
  <2>1. OwnerTypes' /\ SameWriter /\ own'.pc = "rename" /\ own'.op = own.op
        /\ own'.failed = own.failed /\ own'.due = own.due
    BY <1>1, <1>7, GotoOwn, Zenon
  <2>2. /\ (Open)' <=> Open
        /\ own'.due \subseteq own.due /\ own'.pc \notin {"none", "sidecar", "dirsync"}
    BY <1>2, <2>1, Zenon DEF Open, At
  <2>3. OwnInv'
    BY <1>3, <1>6, <2>1, <2>2, OwnInvSynced, Zenon
  <2>4. durable' = Len(data') /\ dropped' = {}
    BY <1>4, <1>7, Zenon DEF FsyncSucceeds
  <2>5. StepInv'
    BY <1>3, <1>6, <2>1, <2>4, Zenon DEF StepInv, At, SameWriter, EndsIn
  <2> QED BY <1>2, <1>3, <1>4, <1>7, <2>1, <2>2, <2>3, <2>4, <2>5, SyncStep, Zenon
<1>8. CASE FsyncFails /\ own.op # "finish" /\ Fails
  <2>1. OwnerTypes' /\ SameWriter /\ own'.pc = "idle" /\ own'.op = "none"
        /\ own'.failed = TRUE /\ own'.due = {}
    BY <1>1, <1>8, FailsOwn, Zenon
  <2>2. /\ (Open)' <=> Open
        /\ own'.due \subseteq own.due /\ own'.pc \notin {"none", "sidecar", "dirsync"}
    BY <1>2, <1>8, <2>1, Zenon DEF Open, At
  <2>3. OwnInv'
    BY <1>3, <1>6, <2>1, <2>2, OwnInvSynced, Zenon
  <2>4. StepInv'
    BY <1>3, <2>1, Zenon DEF StepInv, At, SameWriter
  <2> QED BY <1>2, <1>3, <1>4, <1>8, <2>1, <2>2, <2>3, <2>4, SyncStep, Zenon
<1>9. CASE FsyncFails /\ own' = Nobody
  <2>1. OwnerTypes' /\ OwnInv' /\ StepInv' /\ own'.pc = "none" /\ own'.pc # "dirsync"
    BY <1>9, NobodyInv, NobodyOwn, Zenon
  <2> QED BY <1>2, <1>3, <1>9, <2>1, SyncStep, Zenon
<1> QED BY <1>5, <1>7, <1>8, <1>9

(* The fsync of a close preserves the invariant. *)
LEMMA CloseFsyncStep ==
    ASSUME IInv, CloseFsync
    PROVE  IInv'
<1>1. FileTypes /\ OwnerTypes /\ StepInv /\ FileInv
  BY Parts, Zenon
<1>2. own.pc = "idle" /\ UNCHANGED <<indexed, index, names, view, acked>>
  BY Zenon DEF CloseFsync, At
<1>3. /\ ~At("none") /\ ~At("sidecar") /\ ~At("dirsync") /\ ~own.tail /\ own.op # "finish"
  BY <1>1, <1>2, Zenon DEF StepInv, At
<1>4. /\ dropped # {} => own.failed
      /\ name = "sealed" => own.failed
  BY <1>1, <1>2, <1>3, Zenon DEF FileInv, At
<1>5. \/ FsyncSucceeds /\ Goto("close")
      \/ FsyncFails /\ own' = Nobody
  BY Zenon DEF CloseFsync
<1>6. data' = data /\ durable' \in Nat /\ durable <= durable' /\ sidecar' = sidecar
  BY <1>1, <1>2, <1>5, FsyncFile DEF index
<1>7. CASE FsyncSucceeds /\ Goto("close")
  <2>1. OwnerTypes' /\ SameWriter /\ own'.pc = "close" /\ own'.op = own.op
        /\ own'.failed = own.failed /\ own'.due = own.due
    BY <1>1, <1>7, GotoOwn, Zenon
  <2>2. /\ (Open)' <=> Open
        /\ own'.due \subseteq own.due /\ own'.pc \notin {"none", "sidecar", "dirsync"}
    BY <1>2, <2>1, Zenon DEF Open, At
  <2>3. OwnInv'
    BY <1>3, <1>6, <2>1, <2>2, OwnInvSynced, Zenon
  <2>4. durable' = Len(data') /\ dropped' = dropped
    BY <1>7, Zenon DEF FsyncSucceeds
  <2>5. StepInv'
    BY <1>3, <2>1, <2>4, Zenon DEF StepInv, At, SameWriter
  <2>6. (dropped' # {} => own'.failed) /\ (name = "sealed" => own'.failed)
    BY <1>4, <2>1, <2>4, Zenon
  <2> QED BY <1>2, <1>3, <1>7, <2>1, <2>2, <2>3, <2>5, <2>6, SyncStep, Zenon
<1>8. CASE FsyncFails /\ own' = Nobody
  <2>1. OwnerTypes' /\ OwnInv' /\ StepInv' /\ own'.pc = "none" /\ own'.pc # "dirsync"
    BY <1>8, NobodyInv, NobodyOwn, Zenon
  <2> QED BY <1>2, <1>3, <1>8, <2>1, SyncStep, Zenon
<1> QED BY <1>5, <1>7, <1>8

-----------------------------------------------------------------------------
(* The end of a seal.                                                      *)

(* A seal that fails with the file as it is. *)
LEMMA SealFailsStep ==
    ASSUME IInv, own.pc \in {"rename", "dirsync"}, SealFails,
           UNCHANGED <<file, indexed, index, names, view, acked>>
    PROVE  IInv'
<1>1. /\ FileTypes /\ OwnerTypes /\ ViewTypes /\ SidecarInv /\ OwnInv /\ StepInv
  BY Parts, Zenon
<1>2. UNCHANGED <<sidecar, stale>> /\ KeepsGood /\ acked' \subseteq acked \cup Safe
  BY FileUnchanged, Zenon DEF index
<1>3. SidecarInv' /\ sidecar' \in Sidecars /\ stale' \in Sidecars
  BY <1>1, <1>2, SidecarKept, Zenon DEF FileTypes
<1>4. CASE own' = Nobody
  BY <1>2, <1>3, <1>4, LeaveStep, Zenon
<1>5. CASE own.op # "finish" /\ Fails
  <2>1. OwnerTypes' /\ SameWriter /\ own'.pc = "idle" /\ own'.op = "none"
        /\ own'.failed = TRUE /\ own'.due = {}
    BY <1>1, <1>5, FailsOwn, Zenon
  <2>2. ~own.tail /\ Open
    BY <1>1, <1>5, Zenon DEF StepInv, At, Open
  <2>3. /\ own'.due \subseteq Range(own.index) /\ own'.pc \notin {"none", "sidecar"}
        /\ own'.op # "finish" /\ ~own'.tail /\ own'.index = own.index
        /\ own'.sync /\ ~own'.dirty => Size <= durable
        /\ own'.writes => sidecar' # NoSidecar /\ Lists(sidecar', own.index)
    BY <1>1, <1>2, <2>1, <2>2, Zenon DEF OwnInv, SameWriter
  <2>4. OwnInv'
    BY <2>2, <2>3, OwnInvKept, Zenon
  <2>5. StepInv'
    BY <2>1, <2>3, Zenon DEF StepInv, At
  <2>6. own'.pc # "dirsync" /\ own'.failed
    BY <2>1, Zenon
  <2> QED BY <1>2, <1>3, <2>1, <2>4, <2>5, <2>6, QuietStep, Zenon
<1> QED BY <1>4, <1>5, Zenon DEF SealFails

(* The rename of a seal preserves the invariant (seal). *)
LEMMA RenameStep ==
    ASSUME IInv, Rename
    PROVE  IInv'
<1>1. /\ own.pc = "rename" /\ UNCHANGED <<file, indexed, index, renamed, view, acked>>
      /\ \/ name' = "sealed" /\ Goto("dirsync")
         \/ name' = name /\ SealFails
  BY Zenon DEF Rename, At
<1>2. CASE name' = name /\ SealFails
  <2>1. UNCHANGED names /\ own.pc \in {"rename", "dirsync"}
    BY <1>1, <1>2, Zenon DEF names
  <2> QED BY <1>1, <1>2, <2>1, SealFailsStep, Zenon
<1>3. CASE name' = "sealed" /\ Goto("dirsync")
  <2>1. /\ FileTypes /\ OwnerTypes /\ ViewTypes /\ SidecarInv /\ OwnInv /\ StepInv /\ FileInv
    BY Parts, Zenon
  <2>2. /\ UNCHANGED <<sidecar, stale, data, durable, dropped, view, acked>>
        /\ KeepsGood /\ KeepsRecords
    BY <1>1, FileUnchanged, Zenon DEF index, file
  <2>3. /\ OwnerTypes' /\ SameWriter /\ own'.pc = "dirsync" /\ own'.op = own.op
        /\ own'.failed = own.failed /\ own'.due = own.due
    BY <1>3, <2>1, GotoOwn, Zenon
  <2>4. /\ ~own.failed /\ ~own.tail /\ durable = Len(data) /\ EndsIn(data, {Footer})
        /\ ~At("none") /\ ~At("sidecar")
    BY <1>1, <2>1, Zenon DEF StepInv, At
  <2>5. dropped = {}
    BY <2>1, <2>4, Zenon DEF FileInv
  <2>6. OwnInv'
    <3>1. durable' \in Nat /\ durable <= durable'
      BY <2>1, <2>2, DataType
    <3>2. /\ (Open)' <=> Open
          /\ own'.due \subseteq own.due /\ own'.pc \notin {"none", "sidecar"}
      BY <1>1, <2>3, Zenon DEF Open, At
    <3> QED BY <2>2, <2>3, <2>4, <3>1, <3>2, OwnInvSynced, Zenon
  <2>7. StepInv'
    BY <2>2, <2>3, <2>4, Zenon DEF StepInv, At, SameWriter, EndsIn
  <2>8. FileTypes' /\ SidecarInv'
    BY <1>1, <1>3, <2>1, <2>2, SidecarKept, Zenon DEF FileTypes
  <2>9. FileInv'
    <3>1. EndsIn(data, {Footer})' /\ durable' = Len(data') /\ dropped' = {}
      BY <2>2, <2>4, <2>5, Zenon DEF EndsIn
    <3>2. \A i \in 1 .. Len(data') - 1 : data'[i] # Footer
      BY <2>1, <2>2, Zenon DEF FileInv
    <3>3. Len(data') = Len(indexed') + 1 /\ Agrees(indexed)'
      BY <1>1, <2>1, <2>2, <2>4, Zenon DEF FileInv, Agrees
    <3> QED BY <1>3, <2>3, <3>1, <3>2, <3>3, Zenon DEF FileInv
  <2> QED BY <2>2, <2>3, <2>6, <2>7, <2>8, <2>9, OwnerStep, Zenon
<1> QED BY <1>1, <1>2, <1>3, Zenon

(* The directory fsync of a seal preserves the invariant (seal). *)
LEMMA FsyncDirStep ==
    ASSUME IInv, FsyncDir
    PROVE  IInv'
<1>1. /\ own.pc = "dirsync" /\ UNCHANGED <<file, indexed, stale, name, view>>
      /\ \/ renamed' = TRUE /\ sidecar' = NoSidecar /\ own' = Nobody
            /\ acked' \subseteq acked \cup own.due
         \/ SealFails /\ UNCHANGED <<renamed, sidecar, acked>>
  BY Zenon DEF FsyncDir, At
<1>2. CASE SealFails /\ UNCHANGED <<renamed, sidecar, acked>>
  <2>1. UNCHANGED <<names, index>> /\ own.pc \in {"rename", "dirsync"}
    BY <1>1, <1>2, Zenon DEF names, index
  <2> QED BY <1>1, <1>2, <2>1, SealFailsStep, Zenon
<1>3. CASE /\ renamed' = TRUE /\ sidecar' = NoSidecar /\ own' = Nobody
           /\ acked' \subseteq acked \cup own.due
  <2>1. /\ FileTypes /\ OwnerTypes /\ ViewTypes /\ OwnInv /\ StepInv /\ FileInv
        /\ StaleInv /\ ViewInv /\ Size \in Nat
    BY Parts, OwnTyped, Zenon
  <2>2. /\ UNCHANGED <<data, durable, dropped>> /\ KeepsGood /\ KeepsRecords
    BY <1>1, FileUnchanged, Zenon DEF file
  <2>3. /\ OwnerTypes' /\ OwnInv' /\ StepInv' /\ own'.pc = "none" /\ At("none")'
    BY <1>3, NobodyInv, NobodyOwn, Zenon
  <2>4. durable = Len(data) /\ ~own.failed /\ name = "sealed"
    BY <1>1, <2>1, Zenon DEF StepInv, FileInv, At
  <2>5. own.due \subseteq Safe
    <3>1. CASE Open
      <4>1. Size <= durable
        BY <2>1, <2>4, <3>1, Zenon DEF OwnInv, Whole, Agrees, Size
      <4> QED BY <2>1, <2>4, <3>1, <4>1, OwnerSafe, Zenon DEF OwnInv
    <3>2. CASE ~Open
      <4>1. Range(own.index) = {}
        BY <2>1, <3>2, EmptyRange, Zenon DEF OwnInv
      <4> QED BY <2>1, <4>1, Zenon DEF OwnInv
    <3> QED BY <3>1, <3>2
  <2>6. SidecarInv'
    <3>1. StaleInv' /\ ViewInv'
      BY <1>1, <2>1, <2>2, StaleKept, ViewKept, Zenon
    <3>2. Records(sidecar)' = Records(NoSidecar)
      BY <1>3, Zenon DEF Records
    <3>3. CarInv'
      BY <3>2, NoMarks, Zenon DEF CarInv, Trusts
    <3> QED BY <3>1, <3>3, Zenon DEF SidecarInv, StaleInv, CarInv, ViewInv
  <2>7. FileTypes'
    <3>1. acked' \subseteq Keys
      BY <1>3, <2>1, OwnTyped, Zenon DEF FileTypes
    <3> QED BY <1>1, <1>3, <2>1, <2>2, <3>1, Zenon DEF FileTypes, Sidecars
  <2>8. FileInv'
    BY <1>1, <1>3, <2>1, <2>2, <2>3, <2>4, Zenon DEF FileInv, EndsIn, Agrees
  <2>9. acked' \subseteq acked \cup Safe' /\ view' = view
    BY <1>1, <1>3, <2>1, <2>2, <2>5, SafeKept, Zenon
  <2> QED BY <2>2, <2>3, <2>6, <2>7, <2>8, <2>9, AckStep, Zenon
<1> QED BY <1>1, <1>2, <1>3, Zenon

-----------------------------------------------------------------------------
(* Adoption, and the sidecar of the new owner.                             *)

(* What the invariant says of a sidecar is what recovery needs of it. *)
LEMMA TrustsTrusted ==
    ASSUME NEW s \in Seq(SidecarRecs), NEW marks, Trusts(s, marks)
    PROVE  TrustedBelow(data, s, marks)
<1>1. DOMAIN s = 1 .. Len(s)
  OBVIOUS
<1>2. ASSUME NEW m \in marks, NEW j \in 1 .. Len(s), s[j].kind = "entry", s[j].off <= m
      PROVE  data[s[j].off] = s[j].key
  <2>1. s[j] \in Entries(s)
    BY <1>1, <1>2, Zenon DEF Entries, Range
  <2> QED BY <1>2, <2>1, Zenon DEF Trusts
<1> QED BY <1>2, Zenon DEF TrustedBelow, Trusted

(* And what recovery says it lists is what the invariant needs. *)
LEMMA ListedLists ==
    ASSUME NEW s \in Seq(SidecarRecs), NEW n \in 0 .. Len(s), NEW ix, Listed(s, n, ix)
    PROVE  Lists(SubSeq(s, 1, n), ix)
<1> DEFINE u == SubSeq(s, 1, n)
<1>1. /\ u \in Seq(SidecarRecs) /\ Len(u) = n /\ n \in Nat /\ DOMAIN u = 1 .. n
      /\ \A i \in 1 .. n : u[i] = s[i]
  BY SubSeqProperties
<1> HIDE DEF u
<1>2. ASSUME NEW r \in Entries(u) PROVE r.off <= Len(ix) /\ ix[r.off] = r.key
  <2>1. PICK i \in 1 .. n : r = s[i] /\ r.kind = "entry"
    BY <1>1, Zenon DEF Entries, Range
  <2> QED BY <2>1, Zenon DEF Listed
<1>3. Lists(u, ix)
  BY <1>2, Zenon DEF Lists
<1> QED BY <1>3 DEF u

(* Adopting a file that ends in a footer preserves the invariant: it is *)
(* sealed (adopt).                                                      *)
LEMMA AdoptSealStep ==
    ASSUME IInv, own.pc = "none", name = "active", dropped = {}, EndsIn(data, {Footer}),
           AdoptSeal, UNCHANGED <<indexed, index, names, view, acked>>
    PROVE  IInv'
<1>1. FileTypes /\ ViewTypes /\ SidecarInv
  BY Parts, Zenon
<1>2. own' = [Nobody EXCEPT !.pc = "sealsync", !.op = "finish"] /\ UNCHANGED file
  BY Zenon DEF AdoptSeal
<1>3. <<>> \in Seq(Keys) /\ 0 \in Nat
  OBVIOUS
<1>4. OwnerTypes'
  BY <1>2, <1>3, Zenon DEF OwnerTypes, Owners, Nobody
<1>5. /\ own'.pc = "sealsync" /\ own'.op = "finish" /\ own'.index = <<>> /\ own'.writes = FALSE
      /\ own'.failed = FALSE /\ own'.tail = FALSE /\ own'.due = {}
  BY <1>2, Zenon DEF Nobody
<1>6. UNCHANGED <<sidecar, stale>> /\ KeepsGood /\ acked' \subseteq acked \cup Safe
  BY <1>2, FileUnchanged, Zenon DEF index
<1>7. SidecarInv' /\ sidecar' \in Sidecars /\ stale' \in Sidecars
  BY <1>1, <1>6, SidecarKept, Zenon DEF FileTypes
<1>8. OwnInv'
  BY <1>5, Zenon DEF OwnInv, Open, At
<1>9. StepInv'
  BY <1>2, <1>5, Zenon DEF StepInv, At, EndsIn, file
<1>10. name # "sealed" /\ own'.pc # "dirsync"
  BY <1>5, Zenon
<1> QED BY <1>2, <1>4, <1>6, <1>7, <1>8, <1>9, <1>10, QuietStep, Zenon

(* What the next owner finds in a segment that is not sealed. *)
LEMMA AdoptRecovers ==
    ASSUME IInv
    PROVE  \E ix \in Seq(Keys), n \in 0 .. Len(Records(sidecar)), m \in Nat :
              /\ Recover(data, sidecar) = [index |-> ix, sidecar |-> n, durable |-> m]
              /\ Whole(ix) /\ Lists(SubSeq(Records(sidecar), 1, n), ix) /\ m <= durable
<1>1. /\ FileTypes /\ CarInv /\ data \in Seq(Items) /\ durable \in Nat
      /\ sidecar \in Seq(SidecarRecs) \cup {NoSidecar}
  BY Parts, DataType, Zenon DEF FileTypes, Sidecars
<1>2. PICK s : s = Records(sidecar)
  BY Zenon
<1>3. s \in Seq(SidecarRecs) /\ s = IF sidecar = NoSidecar THEN <<>> ELSE sidecar
  BY <1>1, <1>2, RecordsType, Zenon DEF Records, FileTypes
<1>4. Marks(s) \subseteq Nat /\ \A m \in Marks(s) : m <= durable
  BY <1>1, <1>2, <1>3, MarksType, Zenon DEF CarInv, Good
<1>5. TrustedBelow(data, s, Marks(s))
  <2>1. Trusts(s, Marks(s))
    BY <1>1, <1>2, Zenon DEF CarInv, Trusts
  <2> QED BY <1>3, <2>1, TrustsTrusted, Zenon
<1>6. Comes(data, s, 0, Marks(s) \cup {0}, Recover(data, sidecar))
  BY <1>1, <1>3, <1>4, <1>5, RecoverSound, Zenon
<1>7. PICK ix \in Seq(Keys), n \in 0 .. Len(s), m \in Marks(s) \cup {0} :
         /\ Recover(data, sidecar) = [index |-> ix, sidecar |-> 0 + n, durable |-> m]
         /\ WholeOf(data, ix) /\ Listed(s, n, ix)
  BY <1>6, Zenon DEF Comes
<1>8. 0 + n = n
  BY <1>7
<1>9. m \in Nat /\ m <= durable
  <2>1. 0 \in Nat /\ 0 <= durable
    BY <1>1
  <2> QED BY <1>4, <2>1, Zenon
<1>10. Whole(ix)
  <2>1. DOMAIN ix = 1 .. Len(ix)
    OBVIOUS
  <2> QED BY <1>7, <2>1, Zenon DEF Whole, WholeOf, Agrees
<1>11. Lists(SubSeq(s, 1, n), ix)
  BY <1>3, <1>7, ListedLists, Zenon
<1> QED BY <1>2, <1>7, <1>8, <1>9, <1>10, <1>11, Zenon

(* The next owner cuts the file off behind what it recovered. *)
LEMMA AdoptFile ==
    ASSUME FileTypes, NEW ix \in Seq(Keys), Whole(ix), NEW res, res.index = ix,
           NEW sync, AdoptActive(sync, res)
    PROVE  /\ durable' \in Nat /\ durable' <= Len(ix)
           /\ dropped' \subseteq (dropped \cap 1 .. Len(ix)) \cup (durable + 1 .. Len(ix))
           /\ KeepsGood /\ KeepsRecords /\ data' \in Seq(Items) /\ Len(data') = Len(ix)
           /\ \A i \in 1 .. Len(ix) : data'[i] = ix[i]
           /\ Whole(ix)'
<1>1. FileTypes /\ durable \in Nat
  BY DataType, Zenon
<1>2. Len(ix) \in Nat /\ DOMAIN ix = 1 .. Len(ix)
  OBVIOUS
<1>3. PICK n : n = Len(ix)
  BY Zenon
<1>4. /\ data' = SubSeq(data, 1, n)
      /\ durable' = n \/ durable' = Min2(durable, n)
      /\ \/ dropped' = dropped \cap 1 .. n
         \/ \E lost \in Dropping(durable + 1, n) : dropped' = (dropped \cap 1 .. n) \cup lost
  BY <1>3, Zenon DEF AdoptActive
<1>6. /\ durable' \in Nat /\ Min2(durable, Len(ix)) <= durable' /\ durable' <= n
      /\ dropped' \subseteq (dropped \cap 1 .. Len(ix)) \cup (durable + 1 .. Len(ix))
  <2>1. durable' = n \/ durable' = Min2(durable, n)
    BY <1>4, Zenon
  <2>2. durable' \in Nat /\ Min2(durable, Len(ix)) <= durable' /\ durable' <= n
    BY <1>1, <1>2, <1>3, <2>1 DEF Min2
  <2>3. \A lost \in Dropping(durable + 1, n) : lost \subseteq durable + 1 .. n
    BY Zenon DEF Dropping
  <2> QED BY <1>3, <1>4, <2>2, <2>3, Zenon
<1>7. data' = SubSeq(data, 1, Len(ix)) \o <<>> /\ <<>> \in Seq(Items) /\ Len(<<>>) = 0
  <2>1. data \in Seq(Items) /\ Len(ix) <= Len(data)
    BY <1>1, DataType, Zenon DEF Whole, Agrees
  <2>2. SubSeq(data, 1, Len(ix)) \in Seq(Items)
    BY <1>2, <2>1, SubSeqProperties
  <2>3. PICK s \in Seq(Items) : s = SubSeq(data, 1, Len(ix))
    BY <2>2, Zenon
  <2>4. s \o <<>> = s /\ <<>> \in Seq(Items) /\ Len(<<>>) = 0
    BY ConcatEmptySeq
  <2> QED BY <1>3, <1>4, <2>3, <2>4, Zenon
<1>8. /\ KeepsGood /\ KeepsRecords /\ data' \in Seq(Items) /\ Len(data') = n + 0
      /\ \A i \in 1 .. n : data'[i] = ix[i]
  <2>1. PICK rest \in Seq(Items) : rest = <<>>
    BY <1>7, Zenon
  <2>2. data' = SubSeq(data, 1, Len(ix)) \o rest /\ Len(rest) = 0
    BY <1>7, <2>1, Zenon
  <2>3. /\ KeepsGood /\ KeepsRecords /\ data' \in Seq(Items) /\ Len(data') = Len(ix) + Len(rest)
        /\ \A i \in 1 .. Len(ix) : data'[i] = ix[i]
    BY <1>1, <1>6, <2>2, FileRewritten, Zenon
  <2> QED BY <1>3, <2>2, <2>3, Zenon
<1>9. Len(data') = Len(ix) /\ Len(ix) <= Len(data') /\ ~(Len(ix) < Len(data'))
  BY <1>2, <1>3, <1>8
<1>10. Whole(ix)'
  BY <1>2, <1>3, <1>8, <1>9, Zenon DEF Whole, Agrees
<1> QED BY <1>3, <1>6, <1>8, <1>9, <1>10, Zenon

(* It keeps what it recovered, cuts off the rest, and syncs what nobody    *)
(* did; if that fails it lets go again.                                    *)
LEMMA AdoptActiveStep ==
    ASSUME IInv, own.pc = "none", name = "active", dropped = {},
           NEW ix \in Seq(Keys), NEW kept \in 0 .. Len(Records(sidecar)), NEW m \in Nat,
           Whole(ix), Lists(SubSeq(Records(sidecar), 1, kept), ix), m <= durable,
           NEW res, res.index = ix, res.sidecar = kept, res.durable = m,
           NEW sync \in BOOLEAN, AdoptActive(sync, res),
           UNCHANGED <<indexed, index, names, view, acked>>
    PROVE  IInv'
<1>1. /\ FileTypes /\ ViewTypes /\ SidecarInv /\ FileInv /\ durable \in Nat
      /\ Records(sidecar) \in Seq(SidecarRecs)
  BY Parts, DataType, RecordsType, Zenon DEF FileTypes
<1>2. /\ Len(ix) \in Nat /\ DOMAIN ix = 1 .. Len(ix) /\ \A i \in 1 .. Len(ix) : ix[i] \in Keys
      /\ kept \in Nat /\ kept <= Len(Records(sidecar))
  <2>1. PICK s \in Seq(SidecarRecs) : s = Records(sidecar)
    BY <1>1, Zenon
  <2>2. kept \in 0 .. Len(s) /\ Len(s) \in Nat
    BY <2>1, LenProperties, Zenon
  <2>3. kept \in Nat /\ kept <= Len(s)
    BY <2>2
  <2>4. /\ Len(ix) \in Nat /\ DOMAIN ix = 1 .. Len(ix) /\ \A i \in 1 .. Len(ix) : ix[i] \in Keys
    OBVIOUS
  <2> QED BY <2>1, <2>3, <2>4, Zenon
<1>3. PICK n, tail : n = Len(ix) /\ tail = (sync /\ n > m)
  BY Zenon
<1>4. /\ data' = SubSeq(data, 1, n)
      /\ \/ /\ durable' = IF tail THEN n ELSE Min2(durable, n)
            /\ dropped' = dropped \cap 1 .. n
            /\ own' = [Owner(sync, ix, FALSE) EXCEPT
                          !.pc = "sidecar", !.kept = kept, !.tail = tail]
         \/ /\ durable' = Min2(durable, n)
            /\ \E lost \in Dropping(durable + 1, n) : dropped' = (dropped \cap 1 .. n) \cup lost
            /\ own' = Nobody
  BY <1>3, Zenon DEF AdoptActive
<1>5. UNCHANGED <<indexed, sidecar, stale, name, renamed, view, acked>>
  BY Zenon DEF index, names
<1>6. /\ durable' \in Nat /\ durable' <= n
      /\ dropped' \subseteq (dropped \cap 1 .. n) \cup (durable + 1 .. n)
      /\ KeepsGood /\ KeepsRecords /\ data' \in Seq(Items) /\ Len(data') = n
      /\ \A i \in 1 .. n : data'[i] = ix[i]
      /\ Whole(ix)'
  BY <1>1, <1>3, AdoptFile, Zenon
<1>8. /\ KeepsGood /\ KeepsRecords /\ data' \in Seq(Items)
      /\ \A i \in 1 .. n : data'[i] = ix[i]
  BY <1>6, Zenon
<1>9. Len(data') = n /\ n \in Nat
  BY <1>2, <1>3, <1>6, Zenon
<1>10. FileTypes'
  <2>1. data' \in Seq(Keys \cup {Bad, Torn, Footer})
    BY <1>8, Zenon DEF Items
  <2>2. durable' \in 0 .. Len(data')
    BY <1>6, <1>9
  <2>3. dropped' \subseteq 1 .. Len(data')
    BY <1>1, <1>3, <1>6, <1>9
  <2> QED BY <1>1, <1>5, <2>1, <2>2, <2>3, Zenon DEF FileTypes
<1>11. SidecarInv'
  BY <1>1, <1>5, <1>8, SidecarKept, Zenon
<1>12. \A i \in 1 .. Len(data') : data'[i] # Footer
  BY <1>2, <1>3, <1>8, <1>9, KeyKinds, Zenon
<1>13. name # "sealed" /\ ~renamed /\ UNCHANGED names
  BY <1>1, Zenon DEF FileInv
<1>14. CASE own' = Nobody
  <2>1. /\ OwnerTypes' /\ OwnInv' /\ StepInv' /\ own'.pc = "none"
    BY <1>14, NobodyInv, Zenon DEF At
  <2>2. FileInv'
    BY <1>8, <1>12, <1>13, <2>1, NoFooterFile, Zenon
  <2> QED BY <1>5, <1>8, <1>10, <1>11, <2>1, <2>2, OwnerStep, Zenon
<1>15. CASE /\ durable' = IF tail THEN n ELSE Min2(durable, n)
            /\ dropped' = dropped \cap 1 .. n
            /\ own' = [Owner(sync, ix, FALSE) EXCEPT
                          !.pc = "sidecar", !.kept = kept, !.tail = tail]
  <2>1. tail \in BOOLEAN
    BY <1>3, Zenon
  <2>2. OwnerTypes'
    BY <1>2, <1>15, <2>1, Zenon DEF OwnerTypes, Owners, Owner, Nobody
  <2>3. /\ own'.pc = "sidecar" /\ own'.op = "none" /\ own'.sync = sync /\ own'.index = ix
        /\ own'.writes = FALSE /\ own'.failed = FALSE /\ own'.dirty = FALSE /\ own'.kept = kept
        /\ own'.tail = tail /\ own'.due = {}
    BY <1>15, Zenon DEF Owner, Nobody
  <2>4. dropped' = {}
    BY <1>15, Zenon
  <2>5. FileInv'
    BY <1>8, <1>12, <1>13, <2>3, <2>4, NoFooterFile, Zenon
  <2>6. StepInv'
    BY <2>3, Zenon DEF StepInv, At
  <2>7. tail \/ sync => n <= durable'
    <3>1. CASE tail
      BY <1>9, <1>15, <3>1
    <3>2. CASE ~tail /\ sync
      <4>1. ~(n > m)
        BY <1>3, <3>2, Zenon
      <4>2. durable' = Min2(durable, n)
        BY <1>15, <3>2, Zenon
      <4> QED BY <1>1, <1>9, <4>1, <4>2 DEF Min2
    <3> QED BY <3>1, <3>2, Zenon
  <2>8. Whole(own.index)'
    BY <1>6, <2>3, Zenon DEF Whole, Agrees
  <2>9. OwnInv'
    <3>1. (Open)' /\ At("sidecar")' /\ Size' = n
      BY <1>3, <2>3, Zenon DEF Open, At, Size
    <3>2. Records(sidecar)' = Records(sidecar)
      BY <1>5, Zenon DEF Records
    <3>3. PICK s : s = SubSeq(Records(sidecar), 1, kept)
      BY Zenon
    <3>4. s = SubSeq(Records(sidecar), 1, own.kept)' /\ Lists(s, ix)
      BY <2>3, <3>2, <3>3, Zenon
    <3>5. Lists(SubSeq(Records(sidecar), 1, own.kept), own.index)'
      BY <2>3, <3>4, Zenon DEF Lists
    <3> QED BY <1>2, <2>3, <2>7, <2>8, <3>1, <3>2, <3>5, Zenon DEF OwnInv
  <2> QED BY <1>5, <1>8, <1>10, <1>11, <2>2, <2>5, <2>6, <2>9, OwnerStep, Zenon
<1> QED BY <1>4, <1>14, <1>15, Zenon

(* Adopting what a process left behind preserves the invariant (adopt). *)
LEMMA AdoptStep ==
    ASSUME IInv, ~May("retry"), Adopt
    PROVE  IInv'
<1>1. /\ own.pc = "none" /\ name = "active" /\ dropped = {}
      /\ UNCHANGED <<indexed, index, names, view, acked>>
  BY Zenon DEF Adopt, At
<1>2. CASE EndsIn(data, {Footer}) /\ AdoptSeal
  BY <1>1, <1>2, AdoptSealStep, Zenon
<1>3. ASSUME NEW sync \in BOOLEAN, AdoptActive(sync, Recover(data, sidecar))
      PROVE  IInv'
  <2>1. PICK ix \in Seq(Keys), n \in 0 .. Len(Records(sidecar)), m \in Nat :
           /\ Recover(data, sidecar) = [index |-> ix, sidecar |-> n, durable |-> m]
           /\ Whole(ix) /\ Lists(SubSeq(Records(sidecar), 1, n), ix) /\ m <= durable
    BY AdoptRecovers, Zenon
  <2>2. PICK res : res = Recover(data, sidecar)
    BY Zenon
  <2>3. AdoptActive(sync, res)
    BY <1>3, <2>2, Zenon
  <2>4. res = [index |-> ix, sidecar |-> n, durable |-> m]
    BY <2>1, <2>2, Zenon
  <2>5. res.index = ix /\ res.sidecar = n /\ res.durable = m
    BY <2>4, Zenon
  <2> QED BY <1>1, <2>1, <2>3, <2>5, AdoptActiveStep, Zenon
<1> QED BY <1>2, <1>3, Zenon DEF Adopt


(* What the disk may have of a sidecar says no more than the sidecar. *)
LEMMA DiskSidecar ==
    ASSUME FileTypes, ViewTypes, StaleInv, CarInv, NEW x \in OnDisk(sidecar) \cup {stale}
    PROVE  /\ x \in Sidecars /\ Records(x) \in Seq(SidecarRecs)
           /\ Marks(Records(x)) \in SUBSET Nat /\ \A m \in Marks(Records(x)) : Good(m)
           /\ Trusts(Records(x), Marks(Records(x)))
<1>1. x \in Sidecars => Records(x) \in Seq(SidecarRecs) /\ Marks(Records(x)) \in SUBSET Nat
  BY RecordsType, MarksType, Zenon
<1>2. CASE x = stale
  BY <1>1, <1>2, Zenon DEF StaleInv, FileTypes
<1>3. CASE x = NoSidecar
  <2>1. x \in Sidecars
    BY <1>3, Zenon DEF Sidecars
  <2> QED BY <1>1, <1>3, <2>1, NoMarks, Zenon DEF Trusts
<1>4. CASE sidecar # NoSidecar /\ \E n \in 0 .. Len(sidecar) : x = SubSeq(sidecar, 1, n)
  <2>1. sidecar \in Seq(SidecarRecs) /\ Records(sidecar) = sidecar
    BY <1>4, Zenon DEF FileTypes, Sidecars, Records
  <2>2. PICK n \in 0 .. Len(sidecar) : x = SubSeq(sidecar, 1, n)
    BY <1>4, Zenon
  <2>3. n \in Nat /\ n <= Len(sidecar) /\ 1 \in Nat \ {0}
    BY <2>1, <2>2
  <2>4. x \in Seq(SidecarRecs) /\ Range(x) \subseteq Range(sidecar)
    BY <2>1, <2>2, <2>3, RangeSubSeq, Zenon
  <2>5. x \in Sidecars /\ Records(x) = x
    BY <2>4, KeysAssumption, Zenon DEF Sidecars, Records
  <2>6. Marks(x) \subseteq Marks(sidecar)
    BY <2>4, MarksLess, Zenon
  <2>7. PICK marks : marks = Marks(sidecar) \cup ViewMarks
    BY Zenon
  <2>8. Trusts(sidecar, marks) /\ Marks(x) \subseteq marks
    BY <2>1, <2>6, <2>7, Zenon DEF CarInv
  <2>9. Trusts(x, Marks(x))
    BY <2>4, <2>8, TrustLess, Zenon
  <2>10. \A m \in Marks(x) : Good(m)
    BY <2>1, <2>6, Zenon DEF CarInv
  <2> QED BY <1>1, <2>5, <2>9, <2>10, Zenon
<1> QED BY <1>2, <1>3, <1>4, Zenon DEF OnDisk

(* What of the sidecar is on disk says nothing wrong. *)
LEMMA StaleWritten ==
    ASSUME FileTypes, ViewTypes, KeepsGood, StaleInv, CarInv,
           stale' \in OnDisk(sidecar) \cup {stale}
    PROVE  StaleInv' /\ stale' \in Sidecars
<1>1. PICK s, marks : s = Records(stale') /\ marks = Marks(s)
  BY Zenon
<1>2. /\ stale' \in Sidecars /\ s \in Seq(SidecarRecs) /\ marks \in SUBSET Nat
      /\ \A m \in marks : Good(m)
      /\ Trusts(s, marks)
  BY <1>1, DiskSidecar, Zenon
<1>3. Trusts(s, marks)' /\ \A m \in marks : Good(m)'
  BY <1>2, TrustKept, Zenon
<1>4. s = Records(stale)' /\ marks = Marks(Records(stale))'
  BY <1>1, Zenon DEF Records
<1> QED BY <1>2, <1>3, <1>4, Zenon DEF StaleInv, Trusts

(* At most one mark. *)
MarkOf(mark, n) == mark = <<>> \/ mark = <<Synced(n)>>

(* What a new owner writes: what it keeps, entries for the rest of its     *)
(* index, and at most one mark.                                            *)
LEMMA SidecarRewritten ==
    ASSUME NEW ix \in Seq(Keys), NEW kept \in Seq(SidecarRecs), Lists(kept, ix),
           NEW more, EntriesOf(ix, more), NEW n \in Nat,
           NEW mark, MarkOf(mark, n), NEW s, s = kept \o more \o mark
    PROVE  /\ s \in Seq(SidecarRecs) /\ Lists(s, ix)
           /\ \A m \in Marks(s) : m \in Marks(kept) \/ (m = n /\ mark # <<>>)
<1>1. more \in Seq(SidecarRecs) /\ DOMAIN more = 1 .. Len(more)
  <2>1. more \in Seq(SidecarRecs)
    BY Zenon DEF EntriesOf
  <2> QED BY <2>1, LenProperties, Zenon
<1>2. /\ mark \in Seq(SidecarRecs)
      /\ \A r \in Range(mark) : r.kind = "synced" /\ r.off = n /\ mark # <<>>
  <2>1. CASE mark = <<>>
    <3>1. mark \in Seq(SidecarRecs)
      BY <2>1
    <3> QED BY <2>1, <3>1, EmptyRange, Zenon
  <2>2. CASE mark = <<Synced(n)>>
    <3>1. Synced(n) \in SidecarRecs /\ Synced(n).kind = "synced" /\ Synced(n).off = n
      BY DEF Synced, SidecarRecs
    <3>2. PICK r \in SidecarRecs : r = Synced(n)
      BY <3>1, Zenon
    <3>3. mark \in Seq(SidecarRecs) /\ mark # <<>> /\ DOMAIN mark = {1} /\ mark[1] = r
      BY <2>2, <3>2
    <3>4. Range(mark) = {r}
      BY <3>3, Zenon DEF Range
    <3> QED BY <3>1, <3>2, <3>3, <3>4, Zenon
  <2> QED BY <2>1, <2>2, Zenon DEF MarkOf
<1>3. PICK t \in Seq(SidecarRecs) : t = kept \o more /\ Range(t) \subseteq Range(kept) \cup Range(more)
  <2>1. kept \o more \in Seq(SidecarRecs)
    BY <1>1, ConcatProperties
  <2>2. Range(kept \o more) \subseteq Range(kept) \cup Range(more)
    BY <1>1, RangeConcat, Zenon
  <2> QED BY <2>1, <2>2, Zenon
<1>4. s \in Seq(SidecarRecs) /\ Range(s) \subseteq Range(t) \cup Range(mark)
  <2>1. s = t \o mark
    BY <1>3, Zenon
  <2>2. t \o mark \in Seq(SidecarRecs)
    BY <1>2, ConcatProperties
  <2>3. Range(t \o mark) \subseteq Range(t) \cup Range(mark)
    BY <1>2, RangeConcat, Zenon
  <2> QED BY <2>1, <2>2, <2>3, Zenon
<1>5. ASSUME NEW r \in Range(more)
      PROVE  r.kind = "entry" /\ r.off <= Len(ix) /\ ix[r.off] = r.key
  <2>1. PICK j \in 1 .. Len(more) : r = more[j]
    BY <1>1, Zenon DEF Range
  <2>2. r.kind = "entry" /\ r.off \in 1 .. Len(ix) /\ ix[r.off] = r.key
    BY <2>1, Zenon DEF EntriesOf
  <2>3. r.off <= Len(ix)
    BY <2>2
  <2> QED BY <2>2, <2>3, Zenon
<1>6. "entry" # "synced"
  OBVIOUS
<1>7. Lists(s, ix)
  BY <1>2, <1>3, <1>4, <1>5, <1>6, Zenon DEF Lists, Entries
<1>8. \A m \in Marks(s) : m \in Marks(kept) \/ (m = n /\ mark # <<>>)
  BY <1>2, <1>3, <1>4, <1>5, <1>6, Zenon DEF Marks
<1> QED BY <1>4, <1>7, <1>8


(* A new owner with its sidecar, or without one that it can write. *)
LEMMA OpenedStep ==
    ASSUME IInv, own.pc = "sidecar", UNCHANGED <<file, indexed, names, view, acked>>,
           OwnerTypes', own'.pc = "idle", own'.op = own.op, own'.index = own.index,
           own'.sync = own.sync, own'.dirty = own.dirty, own'.failed = own.failed,
           own'.due = own.due, ~own'.tail,
           stale' \in OnDisk(sidecar) \cup {stale},
           NEW s \in Sidecars, sidecar' = s, own'.writes => s # NoSidecar,
           Lists(Records(s), own.index), \A m \in Marks(Records(s)) : Good(m)
    PROVE  IInv'
<1>1. /\ FileTypes /\ ViewTypes /\ OwnerTypes /\ OwnInv /\ StepInv /\ FileInv /\ StaleInv
      /\ CarInv /\ ViewInv
      /\ own.index \in Seq(Keys) /\ Size \in Nat /\ DOMAIN own.index = 1 .. Size
  BY Parts, OwnTyped, Zenon
<1>2. Open /\ ~own.failed /\ own.op # "finish" /\ ~At("none") /\ ~At("dirsync")
  BY <1>1, Zenon DEF Open, StepInv, At
<1>3. dropped = {} /\ name # "sealed" /\ Agrees(own.index)
  BY <1>1, <1>2, Running, Zenon DEF OwnInv, Whole
<1>4. KeepsGood /\ UNCHANGED <<data, view>>
  BY FileUnchanged, Zenon DEF file
<1>5. StaleInv' /\ stale' \in Sidecars /\ ViewInv'
  BY <1>1, <1>4, StaleWritten, ViewKept, Zenon
<1>6. Records(sidecar') \in Seq(SidecarRecs) /\ Records(sidecar') = Records(s)
  BY RecordsType, Zenon
<1>7. \A m \in Marks(Records(sidecar')) : Good(m)'
  BY <1>6, Zenon DEF Good, file
<1>8. CarInv'
  BY <1>1, <1>3, <1>4, <1>6, <1>7, CarWritten, Zenon DEF Size
<1>9. SidecarInv'
  BY <1>5, <1>8, Zenon DEF SidecarInv, StaleInv, CarInv, ViewInv
<1>10. OwnInv'
  <2>1. own'.writes => sidecar' # NoSidecar /\ Lists(sidecar', own.index)
    BY Zenon DEF Records
  <2>2. own'.due \subseteq Range(own.index) /\ (own'.sync /\ ~own'.dirty => Size <= durable)
    BY <1>1, <1>2, Zenon DEF OwnInv
  <2>3. own'.pc \notin {"none", "sidecar"} /\ own'.op # "finish"
    BY <1>2, Zenon
  <2> QED BY <1>2, <2>1, <2>2, <2>3, OwnInvKept, Zenon
<1>11. StepInv'
  BY <1>2, Zenon DEF StepInv, At
<1>12. /\ sidecar' \in Sidecars /\ acked' \subseteq acked \cup Safe /\ own'.pc # "dirsync"
  BY Zenon
<1> QED BY <1>3, <1>5, <1>9, <1>10, <1>11, <1>12, QuietStep, Zenon

(* Opening the sidecar of an adopted segment preserves the invariant. *)
LEMMA OpenSidecarStep ==
    ASSUME IInv, OpenSidecar
    PROVE  IInv'
<1>1. /\ FileTypes /\ OwnerTypes /\ ViewTypes /\ OwnInv /\ StepInv /\ CarInv
      /\ own.index \in Seq(Keys) /\ Size \in Nat /\ own.kept \in Nat
  BY Parts, OwnTyped, Zenon
<1>2. own.pc = "sidecar" /\ UNCHANGED <<file, indexed, names, view, acked>>
      /\ stale' \in OnDisk(sidecar) \cup {stale}
  BY Zenon DEF OpenSidecar, At
<1>3. Open /\ ~own.failed
  BY <1>1, <1>2, Zenon DEF Open, StepInv, At
<1>4. PICK kept, mark, more : /\ kept = SubSeq(Records(sidecar), 1, own.kept)
                              /\ mark = IF own.tail THEN <<Synced(Size)>> ELSE <<>>
                              /\ more = Missing(own.index, kept)
  BY Zenon
<1>5. CASE /\ sidecar' = kept \o more \o mark
           /\ own' = [own EXCEPT !.pc = "idle", !.kept = 0, !.tail = FALSE, !.writes = TRUE]
  <2>1. Records(sidecar) \in Seq(SidecarRecs)
    BY <1>1, RecordsType, Zenon DEF FileTypes
  <2>2. own.kept <= Len(Records(sidecar)) /\ Lists(kept, own.index)
    BY <1>1, <1>2, <1>4, Zenon DEF OwnInv, At
  <2>3. kept \in Seq(SidecarRecs) /\ Range(kept) \subseteq Range(Records(sidecar))
    <3>1. 1 \in Nat \ {0}
      OBVIOUS
    <3> QED BY <1>1, <1>4, <2>1, <2>2, <3>1, RangeSubSeq, Zenon
  <2>4. EntriesOf(own.index, more)
    BY <1>1, <1>4, MissingEntries, Zenon
  <2>5. PICK s : s = kept \o more \o mark
    BY Zenon
  <2>6. MarkOf(mark, Size)
    BY <1>4, Zenon DEF MarkOf
  <2>7. /\ s \in Seq(SidecarRecs) /\ Lists(s, own.index)
        /\ \A m \in Marks(s) : m \in Marks(kept) \/ (m = Size /\ mark # <<>>)
    <3>1. PICK ix, n : ix = own.index /\ n = Size
      BY Zenon
    <3>2. /\ ix \in Seq(Keys) /\ n \in Nat /\ Lists(kept, ix) /\ EntriesOf(ix, more)
          /\ MarkOf(mark, n)
      BY <1>1, <2>2, <2>4, <2>6, <3>1, Zenon
    <3>3. /\ s \in Seq(SidecarRecs) /\ Lists(s, ix)
          /\ \A m \in Marks(s) : m \in Marks(kept) \/ (m = n /\ mark # <<>>)
      BY <2>3, <2>5, <3>2, SidecarRewritten, Zenon
    <3> QED BY <3>1, <3>3, Zenon
  <2>8. s # NoSidecar /\ s \in Sidecars /\ Records(s) = s
    BY <2>7, KeysAssumption, Zenon DEF Sidecars, Records
  <2>9. mark # <<>> => Good(Size)
    <3>1. mark # <<>> => own.tail
      BY <1>4, Zenon
    <3>2. own.tail => Size <= durable
      BY <1>1, <1>3, Zenon DEF OwnInv
    <3> QED BY <1>3, <3>1, <3>2, OwnerSafe, Zenon
  <2>10. \A m \in Marks(s) : Good(m)
    <3>1. Marks(kept) \subseteq Marks(Records(sidecar))
      BY <2>3, MarksLess, Zenon
    <3> QED BY <1>1, <2>7, <2>9, <3>1, Zenon DEF CarInv
  <2>11. 0 \in Nat
    OBVIOUS
  <2>12. /\ OwnerTypes' /\ own'.pc = "idle" /\ own'.op = own.op /\ own'.index = own.index
         /\ own'.sync = own.sync /\ own'.dirty = own.dirty /\ own'.failed = own.failed
         /\ own'.due = own.due /\ ~own'.tail
    BY <1>1, <1>5, <2>11, Zenon DEF OwnerTypes, Owners
  <2> QED BY <1>2, <1>5, <2>5, <2>7, <2>8, <2>10, <2>12, OpenedStep, Zenon
<1>6. CASE /\ sidecar' = NoSidecar
           /\ own' = [own EXCEPT !.pc = "idle", !.kept = 0, !.tail = FALSE]
  <2>1. 0 \in Nat /\ NoSidecar \in Sidecars
    BY DEF Sidecars
  <2>2. /\ OwnerTypes' /\ own'.pc = "idle" /\ own'.op = own.op /\ own'.index = own.index
        /\ own'.sync = own.sync /\ own'.dirty = own.dirty /\ own'.failed = own.failed
        /\ own'.due = own.due /\ ~own'.tail /\ own'.writes = own.writes
    BY <1>1, <1>6, <2>1, Zenon DEF OwnerTypes, Owners
  <2>3. ~own.writes
    BY <1>1, <1>2, Zenon DEF OwnInv, At
  <2>4. /\ Lists(Records(NoSidecar), own.index)
        /\ \A m \in Marks(Records(NoSidecar)) : Good(m)
    BY NoMarks, Zenon DEF Lists
  <2> QED BY <1>2, <1>6, <2>1, <2>2, <2>3, <2>4, OpenedStep, Zenon
<1>7. \/ /\ sidecar' = kept \o more \o mark
         /\ own' = [own EXCEPT !.pc = "idle", !.kept = 0, !.tail = FALSE, !.writes = TRUE]
      \/ /\ sidecar' = NoSidecar
         /\ own' = [own EXCEPT !.pc = "idle", !.kept = 0, !.tail = FALSE]
  BY <1>4, Zenon DEF OpenSidecar
<1> QED BY <1>5, <1>6, <1>7, Zenon
=============================================================================
