------------------------------- MODULE Segment ------------------------------
(***************************************************************************)
(* The life of one segment file: the appends of the store that owns it     *)
(* (packstore/mod.rs), its sidecar (sidecar.rs), its seal, its adoption by *)
(* the next writer (active.rs), and another store that reads along         *)
(* (view.rs), through failed writes and fsyncs, deaths of the process and  *)
(* losses of power.                                                        *)
(*                                                                         *)
(* The header is durable before the file has its active name               *)
(* (create_active), so the file is what lies behind it.  Both stores that  *)
(* follow one another and the reader are of one host, with one page cache. *)
(***************************************************************************)
EXTENDS Recovery

CONSTANTS
    SegmentSize,  \* records at which an append seals
    MaxSidecar,   \* bound on the records in a sidecar
    Reads,        \* whether another store reads along
    Faults        \* what may go wrong besides crashes and power losses

ASSUME SegmentAssumption ==
    /\ SegmentSize \in Nat \ {0} /\ MaxSidecar \in Nat /\ Reads \in BOOLEAN
    /\ Faults \subseteq
          {"write",     \* a write to the data file fails
           "sidecar",   \* a write to the sidecar fails
           "fsync",     \* an fsync or a rename fails
           "drop",      \* and a failed fsync may drop the dirty pages
           "retry",     \* and the segment is adopted again after that
           "reorder"}   \* a footer reaches the disk before its records do

May(fault) == fault \in Faults

VARIABLES
    data,      \* the data file, as the page cache has it
    indexed,   \* the index in its footer
    durable,   \* how much of it the disk has been told to keep
    dropped,   \* the offsets whose pages a failed fsync dropped
    sidecar,   \* the sidecar, as the page cache has it, or NoSidecar
    stale,     \* what the disk may have of a sidecar since cut back
    name,      \* "active" or "sealed": the name of the file
    renamed,   \* whether the disk has its sealed name
    own,       \* the store that holds the file's lock
    view,      \* the reader's view of the segment
    acked      \* the keys a syncing store acknowledged a write of

file == <<data, durable, dropped>>
index == <<sidecar, stale>>
names == <<name, renamed>>
vars == <<file, indexed, index, names, own, view, acked>>

Min2(a, b) == IF a < b THEN a ELSE b
Records(s) == IF s = NoSidecar THEN <<>> ELSE s

-----------------------------------------------------------------------------
(* The owner: where it is in its operation, and the fields of its          *)
(* ActiveWriter.                                                           *)

Nobody ==
    [pc |-> "none", op |-> "none", sync |-> FALSE, index |-> <<>>, writes |-> FALSE,
     failed |-> FALSE, dirty |-> FALSE, kept |-> 0, tail |-> FALSE, due |-> {}]

Owner(sync, ix, writes) ==
    [Nobody EXCEPT !.pc = "idle", !.sync = sync, !.index = ix, !.writes = writes]

At(pc) == own.pc = pc
Goto(pc) == own' = [own EXCEPT !.pc = pc]
Size == Len(own.index)

(* An operation that returned: its error acknowledges nothing. *)
Returns == own' = [own EXCEPT !.pc = "idle", !.op = "none", !.due = {}]
Fails == own' = [own EXCEPT !.pc = "idle", !.op = "none", !.due = {}, !.failed = TRUE]

(* The bytes from offset n + 1 on replaced by those of rest. *)
Overwrite(n, rest) ==
    /\ data' = SubSeq(data, 1, n) \o rest
    /\ durable' = Min2(durable, n)
    /\ dropped' = dropped \cap 1 .. n

Init ==
    /\ data = <<>> /\ durable = 0 /\ dropped = {} /\ indexed = <<>>
    /\ name = "active" /\ renamed = FALSE
    /\ stale = NoSidecar
    /\ \E sync \in BOOLEAN, writes \in {TRUE, ~May("sidecar")} :
          /\ own = Owner(sync, <<>>, writes)
          /\ sidecar = IF writes THEN <<>> ELSE NoSidecar
    /\ view = [at |-> Start, tail |-> NoSidecar, reading |-> FALSE]
    /\ acked = {}

(* SidecarWriter::write: one that fails stops the sidecar for good. *)
WriteSidecar(rec, ow) ==
    \/ /\ ow.writes
       /\ sidecar' = Append(sidecar, rec)
       /\ own' = ow
    \/ /\ ~ow.writes \/ May("sidecar")
       /\ sidecar' = sidecar
       /\ own' = [ow EXCEPT !.writes = FALSE]

-----------------------------------------------------------------------------
(* append_locked: put writes and syncs, write_batch leaves the sync to its *)
(* end.                                                                    *)

Kinds == IF own.sync THEN {"put", "batch"} ELSE {"batch"}

Write(k, op) ==
    /\ At("idle") /\ ~own.failed
    /\ k \notin Range(own.index)
    /\ op \in Kinds
    /\ Overwrite(Size, <<k>>)
    /\ own' = [own EXCEPT !.pc = "entry", !.op = op, !.index = Append(@, k),
                          !.due = {k}, !.dirty = TRUE]
    /\ UNCHANGED <<indexed, index, names, view, acked>>

(* Out of space half way: the file keeps what was written. *)
WriteFails ==
    /\ May("write") /\ At("idle") /\ ~own.failed
    /\ Keys \ Range(own.index) # {}
    /\ Overwrite(Size, <<Bad>>)
    /\ UNCHANGED <<indexed, index, names, own, view, acked>>

(* The entry, after the record; a put goes on to its fsync. *)
AfterAppend(op) ==
    CASE op = "put" -> "fsync"
      [] Size >= SegmentSize -> "footer"
      [] OTHER -> "idle"

WriteEntry ==
    /\ At("entry")
    /\ LET next == AfterAppend(own.op)
           ow == IF next = "idle" THEN [own EXCEPT !.op = "none", !.due = {}] ELSE own
       IN  WriteSidecar(Entry(own.index[Size], Size), [ow EXCEPT !.pc = next])
    /\ UNCHANGED <<file, indexed, stale, names, view, acked>>

(* sync_active at the end of a batch.  It acknowledges what the batch      *)
(* appended.                                                               *)
SyncActive ==
    /\ At("idle") /\ ~own.failed /\ own.sync
    /\ own.dirty \/ Len(Records(sidecar)) < MaxSidecar
    /\ own' = [own EXCEPT !.pc = "fsync", !.op = "batch", !.due = Range(own.index)]
    /\ UNCHANGED <<file, indexed, index, names, view, acked>>

Dropping(i, n) == IF May("drop") THEN SUBSET (i .. n) ELSE {{}}

FsyncSucceeds == durable' = Len(data) /\ UNCHANGED <<data, dropped>>
FsyncFails ==
    /\ May("fsync")
    /\ \E lost \in Dropping(durable + 1, Len(data)) : dropped' = dropped \cup lost
    /\ UNCHANGED <<data, durable>>

(* A failed fsync that does not poison the write path. *)
FsyncUnpoisoned ==
    /\ At("fsync")
    /\ \/ FsyncSucceeds /\ Goto("mark")
       \/ FsyncFails /\ Returns
    /\ UNCHANGED <<indexed, index, names, view, acked>>

Fsync ==
    /\ At("fsync")
    /\ \/ FsyncSucceeds /\ Goto("mark")
       \/ FsyncFails /\ Fails
    /\ UNCHANGED <<indexed, index, names, view, acked>>

(* After the fsync, its mark; then the operation returns, a put through a  *)
(* seal if the segment is full.                                            *)
MarkSynced ==
    /\ At("mark")
    /\ IF own.op = "put" /\ Size >= SegmentSize
       THEN /\ WriteSidecar(Synced(Size), [own EXCEPT !.pc = "footer", !.dirty = FALSE])
            /\ acked' = acked
       ELSE /\ WriteSidecar(Synced(Size),
                  [own EXCEPT !.pc = "idle", !.op = "none", !.dirty = FALSE, !.due = {}])
            /\ acked' = acked \cup own.due
    /\ UNCHANGED <<file, indexed, stale, names, view>>

(* A put of a key in the store's own index, with no batch running that     *)
(* may yet have to sync it.                                                *)
OwnDuplicate(k) ==
    /\ At("idle") /\ ~own.failed /\ own.sync /\ ~own.dirty
    /\ k \in Range(own.index)
    /\ acked' = acked \cup {k}
    /\ UNCHANGED <<file, indexed, index, names, own, view>>

-----------------------------------------------------------------------------
(* seal_active, after the append that fills the segment or at any time for *)
(* leave_active and compact; and finish_seal, which starts at its fsync.   *)

LeaveActive ==
    /\ At("idle") /\ ~own.failed
    /\ Size > 0
    /\ own' = [own EXCEPT !.pc = "footer", !.op = "seal", !.due = {}]
    /\ UNCHANGED <<file, indexed, index, names, view, acked>>

WriteFooter ==
    /\ At("footer")
    /\ \/ /\ Overwrite(Size, <<Footer>>)
          /\ indexed' = own.index
          /\ Goto("sealsync")
       \/ /\ May("write")
          /\ Overwrite(Size, <<>>)   \* no room: cut off, and tried again later
          /\ indexed' = indexed
          /\ Returns
       \/ /\ May("write")
          /\ \E half \in {<<>>, <<Bad>>, <<Torn>>} : Overwrite(Size, half)
          /\ indexed' = indexed
          /\ Fails
    /\ UNCHANGED <<index, names, view, acked>>

(* What a failure does: seal_active poisons and keeps the segment,         *)
(* finish_seal lets go of it.                                              *)
SealFails == IF own.op = "finish" THEN own' = Nobody ELSE Fails

FsyncFooter ==
    /\ At("sealsync")
    /\ \/ FsyncSucceeds /\ Goto("rename")
       \/ FsyncFails /\ SealFails
    /\ UNCHANGED <<indexed, index, names, view, acked>>

Rename ==
    /\ At("rename")
    /\ \/ name' = "sealed" /\ Goto("dirsync")
       \/ May("fsync") /\ name' = name /\ SealFails
    /\ UNCHANGED <<file, indexed, index, renamed, view, acked>>

(* The directory's fsync; then the sidecar goes, and the segment is        *)
(* published as sealed.                                                    *)
FsyncDir ==
    /\ At("dirsync")
    /\ \/ /\ renamed' = TRUE
          /\ sidecar' = NoSidecar
          /\ own' = Nobody
          /\ acked' = IF own.sync THEN acked \cup own.due ELSE acked
       \/ /\ May("fsync")
          /\ SealFails
          /\ UNCHANGED <<renamed, sidecar, acked>>
    /\ UNCHANGED <<file, indexed, stale, name, view>>

-----------------------------------------------------------------------------
(* close and adopt.                                                        *)

CloseFsync ==
    /\ At("idle")
    /\ Len(Records(sidecar)) < MaxSidecar
    /\ \/ FsyncSucceeds /\ Goto("close")
       \/ FsyncFails /\ own' = Nobody
    /\ UNCHANGED <<indexed, index, names, view, acked>>

(* A mark that a failed store writes as well. *)
CloseMarkAlways ==
    /\ At("close")
    /\ \/ own.writes /\ sidecar' = Append(sidecar, Synced(Size)) /\ own' = Nobody
       \/ sidecar' = sidecar /\ own' = Nobody
    /\ UNCHANGED <<file, indexed, stale, names, view, acked>>

(* After a failed fsync this one proves nothing. *)
CloseMark ==
    /\ At("close")
    /\ IF own.failed
       THEN own' = Nobody /\ sidecar' = sidecar
       ELSE \/ own.writes /\ sidecar' = Append(sidecar, Synced(Size)) /\ own' = Nobody
            \/ (~own.writes \/ May("sidecar")) /\ sidecar' = sidecar /\ own' = Nobody
    /\ UNCHANGED <<file, indexed, stale, names, view, acked>>

(* The lock is free.  A crashed seal is finished; of anything else the     *)
(* valid part is kept, and synced if this store acknowledges on it.        *)
AdoptSeal ==
    /\ own' = [Nobody EXCEPT !.pc = "sealsync", !.op = "finish"]
    /\ UNCHANGED file

(* Without the fsync of a tail nobody synced. *)
AdoptActiveUnsynced(sync, res) ==
    /\ Overwrite(Len(res.index), <<>>)
    /\ own' = [Owner(sync, res.index, FALSE) EXCEPT !.pc = "sidecar", !.kept = res.sidecar]

AdoptActive(sync, res) ==
    LET n == Len(res.index)
        tail == sync /\ n > res.durable
        ow == [Owner(sync, res.index, FALSE) EXCEPT
                  !.pc = "sidecar", !.kept = res.sidecar, !.tail = tail]
    IN  /\ data' = SubSeq(data, 1, n)
        /\ \/ /\ durable' = IF tail THEN n ELSE Min2(durable, n)
              /\ dropped' = dropped \cap 1 .. n
              /\ own' = ow
           \/ /\ tail /\ May("fsync")
              /\ durable' = Min2(durable, n)
              /\ \E lost \in Dropping(durable + 1, n) : dropped' = (dropped \cap 1 .. n) \cup lost
              /\ own' = Nobody

Adopt ==
    /\ At("none") /\ name = "active"
    /\ dropped = {} \/ May("retry")
    /\ IF EndsIn(data, {Footer})
       THEN AdoptSeal
       ELSE \E sync \in BOOLEAN : AdoptActive(sync, Recover(data, sidecar))
    /\ UNCHANGED <<indexed, index, names, view, acked>>

(* What the kernel may have written back of a sidecar, which nobody syncs. *)
OnDisk(s) == {NoSidecar} \cup IF s = NoSidecar THEN {} ELSE {SubSeq(s, 1, n) : n \in 0 .. Len(s)}

(* The old sidecar kept whole, not cut back to the part that agrees. *)
OpenSidecarWhole ==
    /\ At("sidecar")
    /\ LET kept == Records(sidecar)
           mark == IF own.tail THEN <<Synced(Size)>> ELSE <<>>
       IN  \/ /\ sidecar' = kept \o Missing(own.index, kept) \o mark
              /\ own' = [own EXCEPT !.pc = "idle", !.kept = 0, !.tail = FALSE, !.writes = TRUE]
           \/ /\ May("sidecar")
              /\ sidecar' = NoSidecar
              /\ own' = [own EXCEPT !.pc = "idle", !.kept = 0, !.tail = FALSE]
    /\ stale' \in (OnDisk(sidecar) \cup {stale}) \ (OnDisk(sidecar') \ {NoSidecar})
    /\ UNCHANGED <<file, indexed, names, view, acked>>

(* open_owned_sidecar: keep what agrees, list what is missing.  One that   *)
(* cannot be written is removed.                                           *)
OpenSidecar ==
    /\ At("sidecar")
    /\ LET kept == SubSeq(Records(sidecar), 1, own.kept)
           mark == IF own.tail THEN <<Synced(Size)>> ELSE <<>>
       IN  \/ /\ sidecar' = kept \o Missing(own.index, kept) \o mark
              /\ own' = [own EXCEPT !.pc = "idle", !.kept = 0, !.tail = FALSE, !.writes = TRUE]
           \/ /\ May("sidecar")
              /\ sidecar' = NoSidecar
              /\ own' = [own EXCEPT !.pc = "idle", !.kept = 0, !.tail = FALSE]
    /\ stale' \in (OnDisk(sidecar) \cup {stale}) \ (OnDisk(sidecar') \ {NoSidecar})
    /\ UNCHANGED <<file, indexed, names, view, acked>>

-----------------------------------------------------------------------------
(* Another store that syncs and reads along: the sidecar first, then the   *)
(* data.  A view that is contradicted is built again from the start.       *)

ReadSidecar ==
    /\ Reads /\ ~view.reading /\ name = "active"
    /\ view' = IF sidecar # NoSidecar /\ Len(sidecar) < view.at.sidecar
               THEN [view EXCEPT !.at = Start]
               ELSE [view EXCEPT !.reading = TRUE,
                        !.tail = IF sidecar = NoSidecar THEN NoSidecar
                                 ELSE SubSeq(sidecar, view.at.sidecar + 1, Len(sidecar))]
    /\ UNCHANGED <<file, indexed, index, names, own, acked>>

Looked(at) ==
    view' = [at |-> IF at = Contradiction THEN Start ELSE at, tail |-> NoSidecar, reading |-> FALSE]

ReadData ==
    /\ view.reading
    /\ CASE view.at # Start -> Looked(Advance(view.at, data, Records(view.tail)))
         [] view.at = Start /\ EndsIn(data, {Footer}) -> Looked(Start)
         [] OTHER -> Looked(Recover(data, view.tail))
    /\ UNCHANGED <<file, indexed, index, names, own, acked>>

(* The refresh that finds the segment sealed. *)
DropForeign ==
    /\ name = "sealed" /\ view.at # Start
    /\ Looked(Start)
    /\ UNCHANGED <<file, indexed, index, names, own, acked>>

(* A record counts once it can be read. *)
ReliableVisible(k) ==
    \/ k \in Range(view.at.index)
    \/ name = "sealed" /\ k \in Range(indexed)

(* has_durably: another writer's record counts as far as it is synced, a   *)
(* sealed one once the file has its sealed name.                           *)
Reliable(k) ==
    \/ \E i \in 1 .. Min2(view.at.durable, Len(view.at.index)) : view.at.index[i] = k
    \/ name = "sealed" /\ k \in Range(indexed)

Duplicate(k) ==
    /\ Reliable(k)
    /\ acked' = acked \cup {k}
    /\ UNCHANGED <<file, indexed, index, names, own, view>>

-----------------------------------------------------------------------------
(* The machine.                                                            *)

(* The owner's process dies, perhaps in the middle of a write. *)
Crash ==
    /\ ~At("none")
    /\ own' = Nobody
    /\ UNCHANGED <<file, indexed, index, names, view, acked>>

(* What may be found of the data file: what was synced, and any part of    *)
(* the rest.  A whole footer over lost records takes a disk that reorders. *)
Endangered(i) ==
    i > durable \/ i \in dropped \/ (data[i] = Footer /\ dropped # {} /\ ~May("reorder"))

Survivors ==
    UNION {{d \in [1 .. n -> Range(data) \cup {Bad, Torn}] :
              /\ \A i \in 1 .. n :
                    \/ d[i] = data[i] /\ i \notin dropped
                    \/ Endangered(i) /\ (d[i] = Bad \/ (data[i] = Footer /\ d[i] = Torn))
              /\ \/ May("reorder")
                 \/ EndsIn(d, {Footer}) => \A i \in 1 .. n : d[i] = data[i]} :
           n \in durable .. Len(data)}

PowerLoss ==
    /\ data' \in Survivors
    /\ durable' = Len(data') /\ dropped' = {}
    /\ sidecar' \in OnDisk(sidecar) \cup {stale} /\ stale' = NoSidecar
    /\ \/ name' = name
       \/ name' = IF renamed THEN "sealed" ELSE "active"
    /\ renamed' = (name' = "sealed")
    /\ own' = Nobody
    /\ view' = [at |-> Start, tail |-> NoSidecar, reading |-> FALSE]
    /\ indexed' = IF EndsIn(data', {Footer}) THEN indexed ELSE <<>>
    /\ acked' = acked

Next ==
    \/ \E k \in Keys : \/ \E op \in {"put", "batch"} : Write(k, op)
                       \/ OwnDuplicate(k)
                       \/ Duplicate(k)
    \/ WriteFails \/ WriteEntry \/ SyncActive \/ Fsync \/ MarkSynced
    \/ LeaveActive \/ WriteFooter \/ FsyncFooter \/ Rename \/ FsyncDir
    \/ CloseFsync \/ CloseMark \/ Adopt \/ OpenSidecar
    \/ ReadSidecar \/ ReadData \/ DropForeign
    \/ Crash \/ PowerLoss

Spec == Init /\ [][Next]_vars

-----------------------------------------------------------------------------
(* Properties.                                                             *)

(* The state is what ActiveWriter, SegmentScan and the two files can be.   *)
Scans == [index : Seq(Keys), sidecar : Nat, durable : Nat]
Sidecars == Seq(SidecarRecs) \cup {NoSidecar}
Owners ==
    [pc : {"none", "idle", "entry", "fsync", "mark", "footer", "sealsync", "rename", "dirsync",
           "close", "sidecar"},
     op : {"none", "put", "batch", "seal", "finish"},
     sync : BOOLEAN, index : Seq(Keys), writes : BOOLEAN, failed : BOOLEAN, dirty : BOOLEAN,
     kept : Nat, tail : BOOLEAN, due : SUBSET Keys]
OwnerTypes == own \in Owners
FileTypes ==
    /\ data \in Seq(Keys \cup {Bad, Torn, Footer})
    /\ durable \in 0 .. Len(data) /\ dropped \subseteq 1 .. Len(data)
    /\ indexed \in Seq(Keys)
    /\ name \in {"active", "sealed"} /\ renamed \in BOOLEAN
    /\ sidecar \in Sidecars /\ stale \in Sidecars
    /\ acked \subseteq Keys
ViewTypes == view \in [at : Scans, tail : Sidecars, reading : BOOLEAN]
TypeOK == FileTypes /\ OwnerTypes /\ ViewTypes

(* What a store that opens the directory now can read: the records the     *)
(* footer indexes, or those recovery finds.                                *)
Held ==
    IF EndsIn(data, {Footer}) THEN {data[i] : i \in DOMAIN data} \cap Range(indexed)
    ELSE Range(ScanFrom(data, 0))

(* The records that are on the disk with nothing but records before them.  *)
Safe ==
    {data[i] : i \in {i \in 1 .. durable :
        \A j \in 1 .. i : data[j] \in Keys /\ j \notin dropped}}

(* A key that a write was acknowledged for, by the owner or by the store   *)
(* that reads along, stays readable, whatever crashes and power losses     *)
(* come in between (mod.rs, has_durably, append_locked and sync_active).   *)
AckedStored == acked \subseteq Held

(* No index is wrong about a record: the owner's, the reader's and the     *)
(* sealed footer's each say what lies at an offset, though recovery trusts *)
(* entries it has not read (recover_sidecar.rs, advance).                  *)
Agrees(ix) == Len(ix) <= Len(data) /\ \A i \in DOMAIN ix : data[i] = ix[i]
IndexAgrees ==
    /\ Agrees(own.index) /\ Agrees(view.at.index)
    /\ EndsIn(data, {Footer}) => Agrees(indexed)

(* A synced mark, in the sidecar, in what is left of it on the disk or in  *)
(* a reader's view, never covers a byte the disk may not have: the mark    *)
(* comes after an fsync that no failed one precedes (sidecar.rs).          *)
MarksDurable ==
    LET marks == Marks(Records(sidecar)) \cup Marks(Records(stale)) \cup {view.at.durable}
    IN  name = "active" => \A n \in marks : n <= durable /\ dropped \cap 1 .. n = {}

-----------------------------------------------------------------------------
(* The inductive invariant.                                                *)

(* The first n records are on the disk for good. *)
Good(n) ==
    /\ n <= durable
    /\ \A i \in 1 .. n : i \notin dropped /\ data[i] \in Keys

(* The entries that a scan takes unverified below a mark are right. *)
Trusts(s, marks) ==
    \A r \in Entries(s), m \in marks : r.off <= m => data[r.off] = r.key

ViewMarks == Marks(Records(view.tail)) \cup {view.at.durable}
SidecarInv ==
    /\ \A m \in Marks(Records(sidecar)) \cup Marks(Records(stale)) \cup ViewMarks : Good(m)
    /\ Trusts(Records(sidecar), Marks(Records(sidecar)) \cup ViewMarks)
    /\ Trusts(Records(stale), Marks(Records(stale)))
    /\ Trusts(Records(view.tail), ViewMarks)

(* All that a sidecar lists, an index has. *)
Lists(s, ix) == \A r \in Entries(s) : r.off <= Len(ix) /\ ix[r.off] = r.key

(* The index is all of the records up to the first thing that is none. *)
Whole(ix) == Agrees(ix) /\ (Len(ix) < Len(data) => data[Len(ix) + 1] \notin Keys)

Open == ~At("none") /\ own.op # "finish"
OwnInv ==
    /\ ~Open => own.index = <<>> /\ ~own.writes
    /\ Open => Whole(own.index)
    /\ own.due \subseteq Range(own.index)
    /\ own.writes => sidecar # NoSidecar /\ Lists(sidecar, own.index)
    /\ At("sidecar") =>
          /\ ~own.writes /\ own.kept <= Len(Records(sidecar))
          /\ Lists(SubSeq(Records(sidecar), 1, own.kept), own.index)
    /\ Open /\ (own.tail \/ (own.sync /\ ~own.dirty)) => Size <= durable

StepInv ==
    /\ own.op = "finish" => own.pc \in {"sealsync", "rename", "dirsync"}
    /\ own.failed => own.pc \in {"idle", "close"}
    /\ At("entry") => Size > 0
    /\ own.tail => At("sidecar")
    /\ own.pc \in {"mark", "close", "rename", "dirsync"} => durable = Len(data)
    /\ own.pc \in {"sealsync", "rename", "dirsync"} => EndsIn(data, {Footer})

FileInv ==
    /\ \A i \in 1 .. Len(data) - 1 : data[i] # Footer
    /\ EndsIn(data, {Footer}) => Len(data) = Len(indexed) + 1 /\ Agrees(indexed)
    /\ dropped # {} => name = "active" /\ (At("none") \/ own.failed)
    /\ name = "sealed" =>
          /\ EndsIn(data, {Footer}) /\ durable = Len(data)
          /\ own.pc \in {"none", "dirsync"} \/ own.failed
    /\ At("dirsync") \/ renamed => name = "sealed"

(* Together they survive every step; what is acknowledged is on the disk,  *)
(* behind nothing but records that are.                                    *)
IInv ==
    /\ TypeOK /\ SidecarInv /\ OwnInv /\ StepInv /\ FileInv
    /\ Agrees(view.at.index)
    /\ acked \subseteq Safe

(* The segment keeps the promise of Durable: what is on the disk only      *)
(* grows, only that is acknowledged, and a power loss takes only the rest. *)
D == INSTANCE Durable WITH held <- Held, safe <- Safe
ImplementsDurable == D!Spec

=============================================================================
