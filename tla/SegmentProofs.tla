--------------------------- MODULE SegmentProofs ----------------------------
(***************************************************************************)
(* That a reader's steps and a power loss preserve the invariant of a      *)
(* segment, that it therefore always holds, and with it what is claimed of *)
(* the segment; and that the segment implements Durable.                   *)
(***************************************************************************)
EXTENDS SegmentStepProofs

(* The reader.                                                             *)

(* A step of the reader leaves alone all that is the owner's. *)
LEMMA ReaderKeeps ==
    ASSUME IInv, UNCHANGED <<file, indexed, index, names, own>>, acked' \subseteq acked \cup Safe
    PROVE  /\ FileTypes' /\ OwnerTypes' /\ OwnInv' /\ StepInv' /\ FileInv' /\ StaleInv'
           /\ acked' \subseteq Safe'
<1>1. /\ FileTypes /\ OwnerTypes /\ ViewTypes /\ OwnInv /\ StepInv /\ FileInv /\ StaleInv
      /\ acked \subseteq Safe
  BY Parts, Zenon
<1>2. UNCHANGED <<data, durable, dropped, indexed, sidecar, stale, name, renamed, own>>
  BY Zenon DEF file, index, names
<1>3. KeepsGood
  BY FileUnchanged, Zenon
<1>4. StaleInv' /\ Safe \subseteq Safe'
  BY <1>1, <1>2, <1>3, StaleKept, SafeKept, Zenon
<1>5. OwnerTypes' /\ StepInv'
  BY <1>1, <1>2, Zenon DEF OwnerTypes, StepInv, At, Size, EndsIn
<1>6. FileInv'
  BY <1>1, <1>2, Zenon DEF FileInv, At, Agrees, EndsIn
<1>7. OwnInv'
  <2>1. Records(sidecar)' = Records(sidecar) /\ Size' = Size /\ (Open)' = Open
    BY <1>2, Zenon DEF Records, Size, Open, At
  <2>2. Whole(own.index) => Whole(own.index)'
    BY <1>2, Zenon DEF Whole, Agrees
  <2>3. Lists(SubSeq(Records(sidecar), 1, own.kept), own.index)
           => Lists(SubSeq(Records(sidecar), 1, own.kept), own.index)'
    BY <1>2, <2>1, Zenon DEF Lists
  <2>4. Lists(sidecar, own.index) => Lists(sidecar, own.index)'
    BY <1>2, Zenon DEF Lists
  <2> QED BY <1>1, <1>2, <2>1, <2>2, <2>3, <2>4, Zenon DEF OwnInv, At
<1>8. Safe \subseteq Keys
  <2>1. ASSUME NEW k \in Safe PROVE k \in Keys
    <3>1. PICK i \in 1 .. durable : k = data[i] /\ \A j \in 1 .. i : data[j] \in Keys
      BY Zenon DEF Safe
    <3>2. i \in 1 .. i
      BY <1>1, <3>1, DataType
    <3> QED BY <3>1, <3>2, Zenon
  <2> QED BY <2>1, Zenon
<1>9. FileTypes'
  BY <1>1, <1>2, <1>8, Zenon DEF FileTypes
<1> QED BY <1>1, <1>4, <1>5, <1>6, <1>7, <1>9, Zenon

(* No entry lies at or below nothing. *)
LEMMA TrustZero ==
    ASSUME NEW s \in Seq(SidecarRecs), NEW marks, Trusts(s, marks)
    PROVE  Trusts(s, marks \cup {0})
<1>1. ASSUME NEW r \in Entries(s), r.off <= 0 PROVE FALSE
  <2>1. r.off \in Nat \ {0}
    BY EntryType, Zenon
  <2> QED BY <1>1, <2>1
<1> QED BY <1>1, Zenon DEF Trusts

(* A view that knows no mark but those of the old one and the sidecar's. *)
LEMMA ViewChanged ==
    ASSUME IInv, UNCHANGED <<file, indexed, index, names, own, acked>>,
           NEW v \in [at : Scans, tail : Sidecars, reading : BOOLEAN], view' = v,
           NEW s, s = Records(v.tail), NEW marks, marks = Marks(s) \cup {v.at.durable},
           marks \subseteq Marks(Records(sidecar)) \cup ViewMarks \cup {0},
           Trusts(s, marks), Agrees(v.at.index)
    PROVE  IInv'
<1>1. /\ FileTypes /\ ViewTypes /\ CarInv /\ ViewInv /\ Records(sidecar) \in Seq(SidecarRecs)
  BY Parts, RecordsType, Zenon DEF FileTypes
<1>2. acked' \subseteq acked \cup Safe
  BY Zenon
<1>3. /\ FileTypes' /\ OwnerTypes' /\ OwnInv' /\ StepInv' /\ FileInv' /\ StaleInv'
      /\ acked' \subseteq Safe'
  BY <1>2, ReaderKeeps, Zenon
<1>4. UNCHANGED <<data, durable, dropped, sidecar>>
  BY Zenon DEF file, index
<1>5. Good(0)
  <2>1. 0 <= durable /\ 1 .. 0 = {}
    BY <1>1, DataType
  <2> QED BY <2>1, Zenon DEF Good
<1>6. \A m \in marks : Good(m)
  BY <1>1, <1>5, Zenon DEF CarInv, ViewInv
<1>7. PICK car, old : car = Records(sidecar) /\ old = Marks(car) \cup ViewMarks
  BY Zenon
<1>8. Trusts(car, old \cup {0}) /\ Marks(car) \cup marks \subseteq old \cup {0}
  <2>1. Trusts(car, old) /\ car \in Seq(SidecarRecs)
    BY <1>1, <1>7, Zenon DEF CarInv
  <2> QED BY <1>7, <2>1, TrustZero, Zenon
<1>9. Trusts(car, Marks(car) \cup marks)
  BY <1>8, TrustLess, Zenon
<1>10. /\ ViewMarks' = marks /\ Records(sidecar)' = car
       /\ Records(view.tail)' = s
  BY <1>4, <1>7, Zenon DEF ViewMarks, Records
<1>11. \A m : Good(m) => Good(m)'
  BY <1>4, Zenon DEF Good
<1>12. ViewInv'
  BY <1>4, <1>6, <1>10, <1>11, Zenon DEF ViewInv, Trusts
<1>13. CarInv'
  <2>1. \A m \in Marks(car) : Good(m)'
    BY <1>1, <1>7, <1>11, Zenon DEF CarInv
  <2>2. Trusts(car, Marks(car) \cup marks)'
    BY <1>4, <1>9, Zenon DEF Trusts
  <2> QED BY <1>10, <2>1, <2>2, Zenon DEF CarInv, Trusts
<1>14. ViewTypes' /\ Agrees(view.at.index)'
  BY <1>4, Zenon DEF ViewTypes, Agrees
<1>15. SidecarInv'
  BY <1>3, <1>12, <1>13, Zenon DEF SidecarInv, StaleInv, CarInv, ViewInv
<1> QED BY <1>3, <1>14, <1>15, Zenon DEF IInv, TypeOK

(* A put of a key that another process stored preserves the invariant. *)
LEMMA DuplicateStep ==
    ASSUME IInv, NEW k \in Keys, Duplicate(k)
    PROVE  IInv'
<1>1. /\ FileTypes /\ ViewTypes /\ SidecarInv /\ FileInv /\ ViewInv /\ Agrees(view.at.index)
      /\ view.at.durable \in Nat /\ view.at.index \in Seq(Keys) /\ indexed \in Seq(Keys)
      /\ durable \in Nat
  BY Parts, ViewMarksType, DataType, Zenon DEF FileTypes
<1>2. UNCHANGED <<file, indexed, index, names, own, view>> /\ acked' = acked \cup {k} /\ Reliable(k)
  BY Zenon DEF Duplicate
<1>3. ASSUME \E i \in 1 .. Min2(view.at.durable, Len(view.at.index)) : view.at.index[i] = k
      PROVE  k \in Safe
  <2>1. PICK i \in 1 .. Min2(view.at.durable, Len(view.at.index)) : view.at.index[i] = k
    BY <1>3, Zenon
  <2>2. PICK ix \in Seq(Keys), n \in Nat : ix = view.at.index /\ n = view.at.durable
    BY <1>1, Zenon
  <2>3. /\ i \in 1 .. Min2(n, Len(ix)) /\ ix[i] = k /\ Good(n) /\ Agrees(ix)
    BY <1>1, <2>1, <2>2, Zenon DEF ViewInv, ViewMarks
  <2>4. i \in 1 .. n /\ i \in DOMAIN ix
    BY <2>3, LenProperties DEF Min2
  <2>5. n <= durable /\ \A j \in 1 .. n : j \notin dropped /\ data[j] \in Keys
    BY <2>3, Zenon DEF Good
  <2>6. i \in 1 .. durable /\ \A j \in 1 .. i : j \in 1 .. n
    BY <1>1, <2>4, <2>5
  <2>7. data[i] = k
    BY <2>3, <2>4, Zenon DEF Agrees
  <2> QED BY <2>5, <2>6, <2>7, Zenon DEF Safe
<1>4. ASSUME name = "sealed", k \in Range(indexed) PROVE k \in Safe
  <2>1. /\ EndsIn(data, {Footer}) /\ durable = Len(data) /\ dropped = {} /\ Agrees(indexed)
        /\ Len(indexed) <= Len(data)
    BY <1>1, <1>4, Zenon DEF FileInv, Agrees
  <2>2. Len(indexed) <= durable
    BY <2>1, Zenon
  <2> QED BY <1>1, <1>4, <2>1, <2>2, IndexSafe, Zenon
<1>5. k \in Safe
  BY <1>2, <1>3, <1>4, Zenon DEF Reliable
<1>6. KeepsGood /\ UNCHANGED <<sidecar, view>> /\ acked' \subseteq acked \cup Safe
  BY <1>2, <1>5, FileUnchanged, Zenon DEF index
<1>7. /\ FileTypes' /\ OwnerTypes' /\ OwnInv' /\ StepInv' /\ FileInv' /\ StaleInv'
      /\ acked' \subseteq Safe'
  BY <1>2, <1>6, ReaderKeeps, Zenon
<1>8. CarInv' /\ ViewInv'
  BY <1>1, <1>6, Parts, CarKept, ViewKept, Zenon
<1>9. ViewTypes' /\ Agrees(view.at.index)'
  BY <1>1, <1>2, Zenon DEF ViewTypes, Agrees, file
<1>10. SidecarInv'
  BY <1>7, <1>8, Zenon DEF SidecarInv, StaleInv, CarInv, ViewInv
<1> QED BY <1>7, <1>9, <1>10, Zenon DEF IInv, TypeOK

(* What a look at the data leaves of the view: a scan that agrees with the *)
(* data and knows no mark but those it read, or none.                      *)
LEMMA LookedStep ==
    ASSUME IInv, UNCHANGED <<file, indexed, index, names, own, acked>>, NEW at, Looked(at),
           \/ at = Contradiction
           \/ at \in Scans /\ at.durable \in ViewMarks \cup {0} /\ Agrees(at.index)
    PROVE  IInv'
<1>1. PICK z : z = IF at = Contradiction THEN Start ELSE at
  BY Zenon
<1>2. PICK v : v = [at |-> z, tail |-> NoSidecar, reading |-> FALSE]
  BY Zenon
<1>3. view' = v /\ v.at = z /\ v.tail = NoSidecar
  BY <1>1, <1>2, Zenon DEF Looked
<1>4. z \in Scans /\ z.durable \in ViewMarks \cup {0} /\ Agrees(z.index)
  <2>1. /\ Start.durable = 0 /\ Start.index = <<>> /\ Start \in Scans
        /\ Len(<<>>) = 0 /\ DOMAIN <<>> = {}
    BY DEF Start, Scans
  <2>2. 0 <= Len(data)
    BY Parts, DataType
  <2>3. Agrees(Start.index)
    BY <2>1, <2>2, Zenon DEF Agrees
  <2> QED BY <1>1, <2>1, <2>3, Zenon
<1>5. v \in [at : Scans, tail : Sidecars, reading : BOOLEAN]
  BY <1>2, <1>4, Zenon DEF Sidecars
<1>6. PICK s, marks : s = Records(v.tail) /\ marks = Marks(s) \cup {v.at.durable}
  BY Zenon
<1>7. Marks(s) = {} /\ Entries(s) = {}
  BY <1>3, <1>6, NoMarks, Zenon
<1>8. marks \subseteq Marks(Records(sidecar)) \cup ViewMarks \cup {0}
  BY <1>3, <1>4, <1>6, <1>7, Zenon
<1>9. Trusts(s, marks) /\ Agrees(v.at.index)
  BY <1>3, <1>4, <1>7, Zenon DEF Trusts
<1> QED BY <1>3, <1>5, <1>6, <1>8, <1>9, ViewChanged, Zenon

(* Dropping the view of a foreign segment preserves the invariant. *)
LEMMA DropForeignStep ==
    ASSUME IInv, DropForeign
    PROVE  IInv'
<1>1. UNCHANGED <<file, indexed, index, names, own, acked>> /\ Looked(Contradiction)
  BY Zenon DEF DropForeign, Looked
<1> QED BY <1>1, LookedStep, Zenon

(* What a scan of the data says is right. *)
LEMMA ComesRight ==
    ASSUME NEW tail \in Seq(SidecarRecs), NEW n \in Nat, NEW marks \in SUBSET Nat,
           NEW at, Comes(data, tail, n, marks, at)
    PROVE  at \in Scans /\ at.durable \in marks /\ Agrees(at.index)
<1>1. PICK ix \in Seq(Keys), j \in 0 .. Len(tail), m \in marks :
         at = [index |-> ix, sidecar |-> n + j, durable |-> m] /\ WholeOf(data, ix)
  BY Zenon DEF Comes
<1>2. n + j \in Nat /\ m \in Nat /\ DOMAIN ix = 1 .. Len(ix)
  OBVIOUS
<1>3. PICK o \in Nat : o = n + j
  BY <1>2, Zenon
<1>4. at = [index |-> ix, sidecar |-> o, durable |-> m]
  BY <1>1, <1>3, Zenon
<1>5. at \in Scans /\ at.durable = m /\ at.index = ix
  BY <1>2, <1>4, Zenon DEF Scans
<1> QED BY <1>1, <1>2, <1>5, Zenon DEF WholeOf, Agrees

(* A reader's look at the data preserves the invariant. *)
LEMMA ReadDataStep ==
    ASSUME IInv, ReadData
    PROVE  IInv'
<1>1. /\ FileTypes /\ ViewTypes /\ ViewInv /\ Agrees(view.at.index) /\ data \in Seq(Items)
      /\ ViewMarks \in SUBSET Nat /\ durable \in Nat
      /\ view.at.durable \in Nat /\ view.at.index \in Seq(Keys) /\ view.at.sidecar \in Nat
      /\ view.tail \in Seq(SidecarRecs) \cup {NoSidecar} /\ Records(view.tail) \in Seq(SidecarRecs)
  BY Parts, DataType, ViewMarksType, Zenon DEF Sidecars
<1>2. UNCHANGED <<file, indexed, index, names, own, acked>>
  BY Zenon DEF ReadData
<1>3. PICK at, tail : at = view.at /\ tail = Records(view.tail)
  BY Zenon
<1>4. /\ tail \in Seq(SidecarRecs) /\ ViewMarks = Marks(tail) \cup {at.durable}
      /\ Trusts(tail, ViewMarks) /\ \A m \in ViewMarks : m <= durable
  BY <1>1, <1>3, Zenon DEF ViewInv, ViewMarks, Good
<1>5. TrustedBelow(data, tail, ViewMarks)
  BY <1>4, TrustsTrusted, Zenon
<1>6. ASSUME NEW res, res = Advance(at, data, tail), Looked(res) PROVE IInv'
  <2>1. CASE res = Contradiction
    BY <1>2, <1>6, <2>1, LookedStep, Zenon
  <2>2. CASE res # Contradiction
    <3>1. /\ at.index \in Seq(Keys) /\ at.durable \in Nat /\ at.sidecar \in Nat
          /\ Len(at.index) <= Len(data) /\ DOMAIN at.index = 1 .. Len(at.index)
      BY <1>1, <1>3, LenProperties, Zenon DEF Agrees
    <3>2. \A i \in 1 .. Len(at.index) : data[i] = at.index[i]
      BY <1>1, <1>3, <3>1, Zenon DEF Agrees
    <3>3. PICK marks : marks = ViewMarks
      BY Zenon
    <3>4. Comes(data, tail, at.sidecar, marks, res)
      BY <1>1, <1>4, <1>5, <1>6, <2>2, <3>1, <3>2, <3>3, AdvanceSound, Zenon
    <3>5. res \in Scans /\ res.durable \in marks /\ Agrees(res.index)
      BY <1>1, <1>4, <3>1, <3>3, <3>4, ComesRight, Zenon
    <3> QED BY <1>2, <1>6, <3>3, <3>5, LookedStep, Zenon
  <2> QED BY <2>1, <2>2
<1>7. ASSUME NEW res, res = Recover(data, view.tail), Looked(res) PROVE IInv'
  <2>1. tail = IF view.tail = NoSidecar THEN <<>> ELSE view.tail
    BY <1>3, Zenon DEF Records
  <2>2. TrustedBelow(data, tail, Marks(tail)) /\ \A m \in Marks(tail) : m <= durable
    BY <1>4, <1>5, Zenon DEF TrustedBelow
  <2>3. PICK marks : marks = Marks(tail) \cup {0}
    BY Zenon
  <2>4. Comes(data, tail, 0, marks, res)
    BY <1>1, <1>4, <1>7, <2>1, <2>2, <2>3, RecoverSound, Zenon
  <2>5. 0 \in Nat
    OBVIOUS
  <2>6. marks \in SUBSET Nat
    BY <1>4, <2>3, <2>5, MarksType, Zenon
  <2>7. res \in Scans /\ res.durable \in marks /\ Agrees(res.index)
    BY <1>4, <2>4, <2>5, <2>6, ComesRight, Zenon
  <2>8. res.durable \in ViewMarks \cup {0}
    BY <1>4, <2>3, <2>7, Zenon
  <2> QED BY <1>2, <1>7, <2>7, <2>8, LookedStep, Zenon
<1>8. CASE Looked(Start)
  <2>1. Looked(Contradiction)
    BY <1>8, Zenon DEF Looked
  <2> QED BY <1>2, <2>1, LookedStep, Zenon
<1>9. \/ Looked(Advance(at, data, tail)) \/ Looked(Start) \/ Looked(Recover(data, view.tail))
  BY <1>3, Zenon DEF ReadData
<1> QED BY <1>6, <1>7, <1>8, <1>9, Zenon

(* The sidecar as it is now, behind what the view has consumed of it. *)
LEMMA ReadSidecarStep ==
    ASSUME IInv, ReadSidecar
    PROVE  IInv'
<1>1. /\ FileTypes /\ ViewTypes /\ CarInv /\ ViewInv /\ Agrees(view.at.index)
      /\ Records(view.tail) \in Seq(SidecarRecs) /\ view.at.sidecar \in Nat
      /\ view.at \in Scans /\ view.tail \in Sidecars
  BY Parts, ViewMarksType, Zenon DEF ViewTypes
<1>2. UNCHANGED <<file, indexed, index, names, own, acked>>
  BY Zenon DEF ReadSidecar
<1>3. CASE view' = [view EXCEPT !.at = Start]
  <2>1. PICK v : v = [view EXCEPT !.at = Start]
    BY Zenon
  <2>2. /\ Start.durable = 0 /\ Start.index = <<>> /\ Start \in Scans
        /\ Len(<<>>) = 0 /\ DOMAIN <<>> = {}
    BY DEF Start, Scans
  <2>3. 0 <= Len(data)
    BY <1>1, DataType
  <2>4. /\ v \in [at : Scans, tail : Sidecars, reading : BOOLEAN]
        /\ v.at = Start /\ v.tail = view.tail
    BY <2>1, <2>2, Zenon DEF ViewTypes, ViewInv, IInv, TypeOK
  <2>5. Agrees(v.at.index)
    BY <2>2, <2>3, <2>4, Zenon DEF Agrees
  <2>6. PICK s, marks : s = Records(v.tail) /\ marks = Marks(s) \cup {v.at.durable}
    BY Zenon
  <2>7. s = Records(view.tail) /\ marks = Marks(s) \cup {0}
    BY <2>2, <2>4, <2>6, Zenon
  <2>8. marks \subseteq Marks(Records(sidecar)) \cup ViewMarks \cup {0}
    BY <2>7, Zenon DEF ViewMarks
  <2>9. Trusts(s, Marks(s))
    BY <1>1, <2>7, Zenon DEF ViewInv, ViewMarks, Trusts
  <2>10. Trusts(s, marks)
    BY <1>1, <2>7, <2>9, TrustZero, Zenon
  <2> QED BY <1>2, <1>3, <2>1, <2>4, <2>5, <2>6, <2>8, <2>10, ViewChanged, Zenon
<1>4. ASSUME NEW tail \in Sidecars, Range(Records(tail)) \subseteq Range(Records(sidecar)),
             view' = [view EXCEPT !.reading = TRUE, !.tail = tail]
      PROVE  IInv'
  <2>1. PICK v : v = [view EXCEPT !.reading = TRUE, !.tail = tail]
    BY Zenon
  <2>2. /\ v \in [at : Scans, tail : Sidecars, reading : BOOLEAN]
        /\ v.at = view.at /\ v.tail = tail
    BY <1>1, <1>4, <2>1, Zenon DEF ViewTypes
  <2>3. PICK s, marks : s = Records(v.tail) /\ marks = Marks(s) \cup {v.at.durable}
    BY Zenon
  <2>4. PICK car, old : car = Records(sidecar) /\ old = Marks(car) \cup ViewMarks
    BY Zenon
  <2>5. Range(s) \subseteq Range(car)
    BY <1>4, <2>2, <2>3, <2>4, Zenon
  <2>6. Marks(s) \subseteq Marks(car)
    BY <2>5, MarksLess, Zenon
  <2>7. marks \subseteq old
    BY <2>2, <2>3, <2>4, <2>6, Zenon DEF ViewMarks
  <2>8. Trusts(car, old)
    BY <1>1, <2>4, Zenon DEF CarInv
  <2>9. Trusts(s, marks)
    BY <2>5, <2>7, <2>8, TrustLess, Zenon
  <2>10. marks \subseteq Marks(Records(sidecar)) \cup ViewMarks \cup {0} /\ Agrees(v.at.index)
    BY <1>1, <2>2, <2>4, <2>7, Zenon
  <2> QED BY <1>2, <1>4, <2>1, <2>2, <2>3, <2>9, <2>10, ViewChanged, Zenon
<1>5. CASE sidecar = NoSidecar
  <2>1. view' = [view EXCEPT !.reading = TRUE, !.tail = NoSidecar]
    BY <1>5, Zenon DEF ReadSidecar
  <2>2. NoSidecar \in Sidecars /\ Range(Records(NoSidecar)) \subseteq Range(Records(sidecar))
    BY <1>5, Zenon DEF Sidecars
  <2> QED BY <1>4, <2>1, <2>2, Zenon
<1>6. CASE sidecar # NoSidecar /\ ~(Len(sidecar) < view.at.sidecar)
  <2>1. sidecar \in Seq(SidecarRecs) /\ Records(sidecar) = sidecar
    BY <1>1, <1>6, Zenon DEF FileTypes, Sidecars, Records
  <2>2. PICK tail, n : tail = SubSeq(sidecar, n, Len(sidecar)) /\ n = view.at.sidecar + 1
    BY Zenon
  <2>3. n \in Nat \ {0} /\ Len(sidecar) \in Nat /\ Len(sidecar) <= Len(sidecar)
    BY <1>1, <2>1, <2>2
  <2>4. tail \in Seq(SidecarRecs) /\ Range(tail) \subseteq Range(sidecar)
    BY <2>1, <2>2, <2>3, RangeSubSeq, Zenon
  <2>5. tail \in Sidecars /\ Records(tail) = tail
    BY <2>4, KeysAssumption, Zenon DEF Sidecars, Records
  <2>6. view' = [view EXCEPT !.reading = TRUE, !.tail = tail]
    BY <1>6, <2>2, Zenon DEF ReadSidecar
  <2> QED BY <1>4, <2>1, <2>4, <2>5, <2>6, Zenon
<1>7. sidecar # NoSidecar /\ Len(sidecar) < view.at.sidecar => view' = [view EXCEPT !.at = Start]
  BY Zenon DEF ReadSidecar
<1> QED BY <1>3, <1>5, <1>6, <1>7, Zenon


-----------------------------------------------------------------------------
(* The power loss.                                                         *)

(* What is left of the file: at least what was synced, with every byte     *)
(* that no fsync dropped where it was.                                     *)
LEMMA SurvivorsFile ==
    ASSUME FileTypes, NEW d \in Survivors
    PROVE  /\ d \in Seq(Items) /\ Len(d) \in durable .. Len(data)
           /\ \A i \in 1 .. Len(d) :
                 \/ d[i] = data[i] /\ i \notin dropped
                 \/ Endangered(i) /\ d[i] \in {Bad, Torn}
           /\ ~May("reorder") /\ EndsIn(d, {Footer}) => \A i \in 1 .. Len(d) : d[i] = data[i]
<1>1. /\ data \in Seq(Items) /\ Len(data) \in Nat /\ DOMAIN data = 1 .. Len(data)
      /\ durable \in Nat /\ durable <= Len(data)
  BY DataType, Zenon
<1>2. PICK n \in durable .. Len(data) :
         d \in {f \in [1 .. n -> Range(data) \cup {Bad, Torn}] :
              /\ \A i \in 1 .. n :
                    \/ f[i] = data[i] /\ i \notin dropped
                    \/ Endangered(i) /\ (f[i] = Bad \/ (data[i] = Footer /\ f[i] = Torn))
              /\ \/ May("reorder")
                 \/ EndsIn(f, {Footer}) => \A i \in 1 .. n : f[i] = data[i]}
  BY Zenon DEF Survivors
<1>3. /\ d \in [1 .. n -> Range(data) \cup {Bad, Torn}]
      /\ \A i \in 1 .. n : \/ d[i] = data[i] /\ i \notin dropped
                           \/ Endangered(i) /\ d[i] \in {Bad, Torn}
      /\ ~May("reorder") /\ EndsIn(d, {Footer}) => \A i \in 1 .. n : d[i] = data[i]
  BY <1>2, Zenon
<1>4. Range(data) \cup {Bad, Torn} \subseteq Items
  <2>1. \A i \in DOMAIN data : data[i] \in Items
    BY <1>1
  <2> QED BY <2>1, Zenon DEF Range, Items
<1>5. PICK S : S = Range(data) \cup {Bad, Torn}
  BY Zenon
<1>6. \A i \in 1 .. n : d[i] \in Items
  BY <1>3, <1>4, Zenon
<1>7. d \in [1 .. n -> Items] /\ n \in Nat
  BY <1>1, <1>2, <1>3, <1>6
<1>8. d \in Seq(Items) /\ Len(d) = n
  BY <1>7
<1> QED BY <1>2, <1>3, <1>8, Zenon

(* The records on the disk for good are there still. *)
LEMMA PowerLossKeeps ==
    ASSUME FileTypes, data' \in Survivors, durable' = Len(data'), dropped' = {}
    PROVE  KeepsGood
<1>1. /\ data' \in Seq(Items) /\ Len(data') \in durable .. Len(data)
      /\ \A i \in 1 .. Len(data') : \/ data'[i] = data[i]
                                    \/ Endangered(i) /\ data'[i] \in {Bad, Torn}
  BY SurvivorsFile, Zenon
<1>2. durable \in Nat /\ Len(data) \in Nat
  BY DataType, Zenon
<1>3. ASSUME NEW n \in Nat, Good(n) PROVE Good(n)' /\ \A i \in 1 .. n : data'[i] = data[i]
  <2>1. n <= durable /\ \A i \in 1 .. n : i \notin dropped /\ data[i] \in Keys
    BY <1>3, Zenon DEF Good
  <2>2. n <= durable' /\ \A i \in 1 .. n : i \in 1 .. Len(data') /\ ~(i > durable)
    BY <1>1, <1>2, <2>1
  <2>3. ASSUME NEW i \in 1 .. n PROVE data'[i] = data[i]
    <3>1. data[i] # Footer
      BY <2>1, KeyKinds, Zenon
    <3>2. ~Endangered(i)
      BY <2>1, <2>2, <3>1, Zenon DEF Endangered
    <3> QED BY <1>1, <2>2, <3>2, Zenon
  <2>4. Good(n)'
    BY <2>1, <2>2, <2>3, Zenon DEF Good
  <2> QED BY <2>3, <2>4
<1> QED BY <1>3, Zenon DEF KeepsGood

(* A footer found at the end is the one that was there, behind all that    *)
(* was.                                                                    *)
LEMMA FooterFound ==
    ASSUME FileTypes, FileInv, ~May("reorder"), data' \in Survivors, EndsIn(data', {Footer})
    PROVE  EndsIn(data, {Footer}) /\ Len(data') = Len(data)
           /\ \A i \in 1 .. Len(data) : data'[i] = data[i]
<1>1. /\ data' \in Seq(Items) /\ Len(data') \in durable .. Len(data)
      /\ \A i \in 1 .. Len(data') : data'[i] = data[i]
  BY SurvivorsFile, Zenon
<1>2. durable \in Nat /\ Len(data) \in Nat /\ data \in Seq(Items)
  BY DataType, Zenon
<1>3. data' # <<>> /\ data'[Len(data')] = Footer
  BY Zenon DEF EndsIn
<1>4. Len(data') \in 1 .. Len(data')
  BY <1>1, <1>3
<1>5. data[Len(data')] = Footer
  BY <1>1, <1>3, <1>4, Zenon
<1>6. ~(Len(data') \in 1 .. Len(data) - 1)
  BY <1>5, Zenon DEF FileInv
<1>7. Len(data') = Len(data) /\ data # <<>>
  BY <1>1, <1>2, <1>4, <1>6
<1> QED BY <1>1, <1>5, <1>7, Zenon DEF EndsIn

(* And a sealed file is found as it was. *)
LEMMA SealedFound ==
    ASSUME FileTypes, FileInv, name = "sealed", data' \in Survivors
    PROVE  EndsIn(data', {Footer})
<1>1. /\ data' \in Seq(Items) /\ Len(data') \in durable .. Len(data)
      /\ \A i \in 1 .. Len(data') : data'[i] = data[i] \/ Endangered(i)
  BY SurvivorsFile, Zenon
<1>2. durable \in Nat /\ Len(data) \in Nat /\ data \in Seq(Items)
  BY DataType, Zenon
<1>3. /\ EndsIn(data, {Footer}) /\ durable = Len(data) /\ dropped = {}
  BY Zenon DEF FileInv
<1>4. data # <<>> /\ data[Len(data)] = Footer
  BY <1>3, Zenon DEF EndsIn
<1>5. Len(data') = Len(data) /\ Len(data) \in 1 .. Len(data) /\ ~(Len(data) > durable)
      /\ data' # <<>>
  BY <1>1, <1>2, <1>3, <1>4
<1>6. ~Endangered(Len(data))
  BY <1>3, <1>5, Zenon DEF Endangered
<1>7. data'[Len(data')] = Footer
  BY <1>1, <1>4, <1>5, <1>6, Zenon
<1> QED BY <1>5, <1>7, Zenon DEF EndsIn

(* A power loss preserves the invariant. *)
LEMMA PowerLossStep ==
    ASSUME IInv, ~May("reorder"), PowerLoss
    PROVE  IInv'
<1>1. /\ FileTypes /\ ViewTypes /\ FileInv /\ StaleInv /\ CarInv /\ acked \subseteq Safe
      /\ indexed \in Seq(Keys)
  BY Parts, Zenon DEF FileTypes
<1>2. /\ data' \in Survivors /\ durable' = Len(data') /\ dropped' = {}
      /\ sidecar' \in OnDisk(sidecar) \cup {stale} /\ stale' = NoSidecar
      /\ name' \in {name, IF renamed THEN "sealed" ELSE "active"}
      /\ renamed' = (name' = "sealed") /\ own' = Nobody
      /\ view' = [at |-> Start, tail |-> NoSidecar, reading |-> FALSE]
      /\ indexed' = IF EndsIn(data', {Footer}) THEN indexed ELSE <<>>
      /\ acked' = acked
  BY Zenon DEF PowerLoss
<1>3. OwnerTypes' /\ OwnInv' /\ StepInv' /\ At("none")'
  BY <1>2, NobodyInv, Zenon
<1>4. KeepsGood
  BY <1>1, <1>2, PowerLossKeeps, Zenon
<1>5. acked' \subseteq Safe'
  BY <1>1, <1>2, <1>4, SafeKept, Zenon
<1>6. /\ data' \in Seq(Items) /\ Len(data') \in Nat /\ Len(data') <= Len(data)
      /\ Len(data) \in Nat
      /\ \A i \in 1 .. Len(data') : data'[i] = data[i] \/ data'[i] \in {Bad, Torn}
  <2>1. /\ data' \in Seq(Items) /\ Len(data') \in durable .. Len(data)
        /\ \A i \in 1 .. Len(data') : data'[i] = data[i] \/ data'[i] \in {Bad, Torn}
    BY <1>1, <1>2, SurvivorsFile, Zenon
  <2>2. durable \in Nat /\ Len(data) \in Nat
    BY <1>1, DataType, Zenon
  <2>3. Len(data') \in Nat /\ Len(data') <= Len(data)
    BY <2>1, <2>2
  <2> QED BY <2>1, <2>2, <2>3
<1>7. name' = "sealed" => name = "sealed"
  BY <1>1, <1>2, Zenon DEF FileInv
<1>8. PICK s, marks : s = Records(sidecar') /\ marks = Marks(s)
  BY Zenon
<1>9. /\ sidecar' \in Sidecars /\ s \in Seq(SidecarRecs) /\ marks \in SUBSET Nat
      /\ \A m \in marks : Good(m)
      /\ Trusts(s, marks)
  BY <1>1, <1>2, <1>8, DiskSidecar, Zenon
<1>10. FileTypes'
  <2>1. data' \in Seq(Keys \cup {Bad, Torn, Footer})
    BY <1>6, Zenon DEF Items
  <2>2. durable' \in 0 .. Len(data')
    BY <1>2, <1>6
  <2>3. <<>> \in Seq(Keys)
    OBVIOUS
  <2>4. indexed' \in Seq(Keys) /\ name' \in {"active", "sealed"} /\ renamed' \in BOOLEAN
    BY <1>1, <1>2, <2>3, Zenon DEF FileTypes
  <2>5. NoSidecar \in Sidecars
    BY Zenon DEF Sidecars
  <2> QED BY <1>1, <1>2, <1>9, <2>1, <2>2, <2>4, <2>5, Zenon DEF FileTypes
<1>11. FileInv'
  <2>1. ASSUME NEW i \in 1 .. Len(data') - 1 PROVE data'[i] # Footer
    <3>1. i \in 1 .. Len(data') /\ i \in 1 .. Len(data) - 1
      BY <1>6
    <3>2. data[i] # Footer /\ Bad # Footer /\ Torn # Footer
      BY <1>1, <3>1, Zenon DEF FileInv, Bad, Torn, Footer
    <3> QED BY <1>6, <3>1, <3>2, Zenon
  <2>2. EndsIn(data', {Footer}) => Len(data') = Len(indexed') + 1 /\ Agrees(indexed)'
    <3> SUFFICES ASSUME EndsIn(data', {Footer})
                 PROVE  Len(data') = Len(indexed') + 1 /\ Agrees(indexed)'
      BY Zenon
    <3>1. /\ EndsIn(data, {Footer}) /\ Len(data') = Len(data)
          /\ \A i \in 1 .. Len(data) : data'[i] = data[i]
      BY <1>1, <1>2, FooterFound, Zenon
    <3>2. indexed' = indexed /\ Len(data) = Len(indexed) + 1 /\ Agrees(indexed)
      BY <1>1, <1>2, <3>1, Zenon DEF FileInv
    <3>3. \A i \in DOMAIN indexed : i \in 1 .. Len(data)
      BY <1>1, <1>6, <3>2
    <3> QED BY <3>1, <3>2, <3>3, Zenon DEF Agrees
  <2>3. name' = "sealed" => EndsIn(data', {Footer})
    BY <1>1, <1>2, <1>7, SealedFound, Zenon
  <2>4. own'.pc = "none"
    BY <1>3, Zenon DEF At
  <2> QED BY <1>2, <2>1, <2>2, <2>3, <2>4, Zenon DEF FileInv, EndsIn, At
<1>12. Good(0)'
  <2>1. 0 <= durable' /\ 1 .. 0 = {}
    BY <1>2, <1>6
  <2> QED BY <2>1, Zenon DEF Good
<1>13. view'.at = Start /\ view'.tail = NoSidecar /\ Start.durable = 0 /\ Start.index = <<>>
  BY <1>2, Zenon DEF Start
<1>14. ViewMarks' = {0} /\ Entries(Records(view.tail))' = {}
  <2>1. Marks(Records(view'.tail)) = {} /\ Entries(Records(view'.tail)) = {}
    BY <1>13, NoMarks, Zenon
  <2> QED BY <1>13, <2>1, Zenon DEF ViewMarks, Records
<1>15. ViewInv'
  BY <1>12, <1>14, Zenon DEF ViewInv, Trusts
<1>16. StaleInv'
  <2>1. Marks(Records(stale'))  = {} /\ Entries(Records(stale')) = {}
    BY <1>2, NoMarks, Zenon
  <2> QED BY <2>1, Zenon DEF StaleInv, Trusts, Records
<1>17. CarInv'
  <2>1. Trusts(s, marks)' /\ \A m \in marks : Good(m)'
    BY <1>4, <1>9, TrustKept, Zenon
  <2>2. ASSUME NEW r \in Entries(s), r.off <= 0 PROVE FALSE
    <3>1. r.off \in Nat \ {0}
      BY <1>9, EntryType, Zenon
    <3> QED BY <2>2, <3>1
  <2>3. Trusts(s, marks \cup {0})'
    BY <2>1, <2>2, Zenon DEF Trusts
  <2>4. Records(sidecar)' = s
    BY <1>8, Zenon DEF Records
  <2> QED BY <1>8, <1>14, <2>1, <2>3, <2>4, Zenon DEF CarInv, Trusts
<1>18. SidecarInv'
  BY <1>15, <1>16, <1>17, Zenon DEF SidecarInv, StaleInv, CarInv, ViewInv
<1>19. ViewTypes'
  <2>1. Start \in Scans
    BY DEF Start, Scans
  <2> QED BY <1>2, <2>1, Zenon DEF ViewTypes, Sidecars
<1>20. Agrees(view.at.index)'
  <2>1. Len(<<>>) = 0 /\ DOMAIN <<>> = {} /\ 0 <= Len(data')
    BY <1>6
  <2> QED BY <1>13, <2>1, Zenon DEF Agrees
<1> QED BY <1>3, <1>5, <1>10, <1>11, <1>18, <1>19, <1>20, Zenon DEF IInv, TypeOK


-----------------------------------------------------------------------------
(* The invariant, and what follows from it.                                *)

(* The invariant holds of a fresh segment. *)
LEMMA InitInv ==
    ASSUME Init
    PROVE  IInv
<1>1. /\ data = <<>> /\ durable = 0 /\ dropped = {} /\ indexed = <<>> /\ name = "active"
      /\ renamed = FALSE /\ stale = NoSidecar /\ acked = {}
      /\ view = [at |-> Start, tail |-> NoSidecar, reading |-> FALSE]
  BY Zenon DEF Init
<1>2. PICK sync \in BOOLEAN, writes \in {TRUE, ~May("sidecar")} :
         /\ own = Owner(sync, <<>>, writes)
         /\ sidecar = IF writes THEN <<>> ELSE NoSidecar
  BY Zenon DEF Init
<1>3. /\ Len(<<>>) = 0 /\ DOMAIN <<>> = {} /\ <<>> \in Seq(Keys) /\ <<>> \in Seq(SidecarRecs)
      /\ <<>> \in Seq(Keys \cup {Bad, Torn, Footer}) /\ 0 \in 0 .. 0 /\ 0 \in Nat /\ 0 <= 0
      /\ ~(0 < 0) /\ 1 .. 0 - 1 = {} /\ 1 .. 0 = {}
  OBVIOUS
<1>4. writes \in BOOLEAN
  BY <1>2, Zenon
<1>5. OwnerTypes
  BY <1>2, <1>3, <1>4, Zenon DEF OwnerTypes, Owners, Owner, Nobody
<1>6. /\ own.pc = "idle" /\ own.op = "none" /\ own.index = <<>> /\ own.writes = writes
      /\ own.failed = FALSE /\ own.tail = FALSE /\ own.due = {}
  BY <1>2, Zenon DEF Owner, Nobody
<1>7. sidecar \in Sidecars /\ NoSidecar \in Sidecars /\ (writes => sidecar # NoSidecar)
      /\ sidecar \in {<<>>, NoSidecar}
  BY <1>2, <1>3, <1>4, KeysAssumption, Zenon DEF Sidecars
<1>8. FileTypes
  BY <1>1, <1>3, <1>7, Zenon DEF FileTypes
<1>9. view.at = Start /\ view.tail = NoSidecar /\ Start.durable = 0 /\ Start.index = <<>>
  BY <1>1, Zenon DEF Start
<1>10. ViewTypes
  <2>1. Start \in Scans
    BY DEF Start, Scans
  <2> QED BY <1>1, <1>7, <2>1, Zenon DEF ViewTypes
<1>11. ~EndsIn(data, {Footer}) /\ Agrees(<<>>)
  BY <1>1, <1>3, Zenon DEF EndsIn, Agrees
<1>12. Marks(Records(sidecar)) = {} /\ Entries(Records(sidecar)) = {}
  BY <1>7, EmptyRange, Zenon DEF Marks, Entries, Records
<1>13. Marks(Records(stale)) = {} /\ Entries(Records(stale)) = {}
      /\ Marks(Records(view.tail)) = {} /\ Entries(Records(view.tail)) = {}
  BY <1>1, <1>9, NoMarks, Zenon
<1>14. Good(0)
  BY <1>1, <1>3, Zenon DEF Good
<1>15. SidecarInv
  BY <1>9, <1>12, <1>13, <1>14, Zenon DEF SidecarInv, ViewMarks, Trusts
<1>16. OwnInv
  <2>1. Whole(own.index) /\ Size <= durable
    BY <1>1, <1>3, <1>6, <1>11, Zenon DEF Whole, Size
  <2>2. writes => Lists(sidecar, own.index)
    BY <1>7, <1>12, Zenon DEF Lists, Records
  <2> QED BY <1>6, <1>7, <2>1, <2>2, Zenon DEF OwnInv, Open, At
<1>17. StepInv
  BY <1>6, Zenon DEF StepInv, At
<1>18. FileInv
  BY <1>1, <1>3, <1>6, <1>11, Zenon DEF FileInv, At
<1> QED BY <1>1, <1>5, <1>8, <1>9, <1>10, <1>11, <1>15, <1>16, <1>17, <1>18, Zenon DEF IInv, TypeOK

(* Nothing happened. *)
LEMMA StutterInv ==
    ASSUME IInv, UNCHANGED vars
    PROVE  IInv'
<1>1. UNCHANGED <<file, indexed, index, names, own, view, acked>>
  BY Zenon DEF vars
<1>2. KeepsGood /\ UNCHANGED <<sidecar, view>> /\ acked' \subseteq acked \cup Safe
  BY <1>1, FileUnchanged, Zenon DEF index
<1>3. /\ FileTypes' /\ OwnerTypes' /\ OwnInv' /\ StepInv' /\ FileInv' /\ StaleInv'
      /\ acked' \subseteq Safe'
  BY <1>1, <1>2, ReaderKeeps, Zenon
<1>4. CarInv' /\ ViewInv'
  BY <1>2, Parts, CarKept, ViewKept, Zenon
<1>5. ViewTypes' /\ Agrees(view.at.index)'
  BY <1>1, Parts, Zenon DEF ViewTypes, Agrees, file
<1>6. SidecarInv'
  BY <1>3, <1>4, Zenon DEF SidecarInv, StaleInv, CarInv, ViewInv
<1> QED BY <1>3, <1>5, <1>6, Zenon DEF IInv, TypeOK

(* Every step preserves the invariant. *)
LEMMA NextInv ==
    ASSUME IInv, ~May("retry"), ~May("reorder"), [Next]_vars
    PROVE  IInv'
<1>1. ASSUME NEW k \in Keys, NEW op \in {"put", "batch"}, Write(k, op) PROVE IInv'
  BY <1>1, WriteStep, Zenon
<1>2. ASSUME NEW k \in Keys, OwnDuplicate(k) \/ Duplicate(k) PROVE IInv'
  BY <1>2, OwnDuplicateStep, DuplicateStep, Zenon
<1>3. CASE WriteFails \/ WriteEntry \/ SyncActive \/ Fsync \/ MarkSynced
  BY <1>3, WriteFailsStep, WriteEntryStep, SyncActiveStep, FsyncStep, MarkSyncedStep, Zenon
<1>4. CASE LeaveActive \/ WriteFooter \/ FsyncFooter \/ Rename \/ FsyncDir
  BY <1>4, LeaveActiveStep, WriteFooterStep, FsyncFooterStep, RenameStep, FsyncDirStep, Zenon
<1>5. CASE CloseFsync \/ CloseMark \/ Adopt \/ OpenSidecar
  BY <1>5, CloseFsyncStep, CloseMarkStep, AdoptStep, OpenSidecarStep, Zenon
<1>6. CASE ReadSidecar \/ ReadData \/ DropForeign
  BY <1>6, ReadSidecarStep, ReadDataStep, DropForeignStep, Zenon
<1>7. CASE Crash \/ PowerLoss
  BY <1>7, CrashStep, PowerLossStep, Zenon
<1>8. CASE UNCHANGED vars
  BY <1>8, StutterInv, Zenon
<1> QED BY <1>1, <1>2, <1>3, <1>4, <1>5, <1>6, <1>7, <1>8, Zenon DEF Next

(* What the invariant says of a file with a footer, and without one: what  *)
(* a store that opens it reads are the records with nothing but records    *)
(* before them.                                                            *)
Readable == {data[i] : i \in {i \in 1 .. Len(data) : \A j \in 1 .. i : data[j] \in Keys}}

(* An index of the whole file lists what can be read from it. *)
LEMMA WholeReadable ==
    ASSUME FileTypes, NEW ix \in Seq(Keys), Whole(ix)
    PROVE  Readable = Range(ix)
<1>1. /\ Len(ix) \in Nat /\ Len(data) \in Nat /\ Len(ix) <= Len(data) /\ DOMAIN ix = 1 .. Len(ix)
      /\ \A i \in 1 .. Len(ix) : ix[i] \in Keys
  <2>1. Len(ix) <= Len(data)
    BY Zenon DEF Whole, Agrees
  <2> QED BY <2>1, DataType
<1>2. \A i \in 1 .. Len(ix) : data[i] = ix[i]
  BY <1>1, Zenon DEF Whole, Agrees
<1>3. ASSUME NEW i \in 1 .. Len(ix) PROVE ix[i] \in Readable
  <2>1. i \in 1 .. Len(data) /\ \A j \in 1 .. i : j \in 1 .. Len(ix)
    BY <1>1
  <2> QED BY <1>1, <1>2, <2>1, Zenon DEF Readable
<1>4. ASSUME NEW i \in 1 .. Len(data), \A j \in 1 .. i : data[j] \in Keys
      PROVE  data[i] \in Range(ix)
  <2>1. i \in Nat /\ i <= Len(data)
    BY <1>1
  <2>2. i <= Len(ix)
    BY <1>4, <2>1, WholeBounds, Zenon
  <2>3. i \in 1 .. Len(ix)
    BY <1>1, <2>2
  <2> QED BY <1>1, <1>2, <2>3, Zenon DEF Range
<1>5. Readable \subseteq Range(ix)
  BY <1>4, Zenon DEF Readable
<1>6. Range(ix) \subseteq Readable
  BY <1>1, <1>3, Zenon DEF Range
<1> QED BY <1>5, <1>6, Zenon

(* What the abstract store holds is what can be read. *)
LEMMA HeldReadable ==
    ASSUME FileTypes, FileInv
    PROVE  Held = Readable
<1>1. data \in Seq(Items) /\ Len(data) \in Nat /\ indexed \in Seq(Keys)
      /\ DOMAIN data = 1 .. Len(data)
  BY DataType, Zenon DEF FileTypes
<1>2. CASE EndsIn(data, {Footer})
  <2>1. Len(data) = Len(indexed) + 1 /\ Agrees(indexed) /\ data[Len(data)] = Footer
    BY <1>2, Zenon DEF FileInv, EndsIn
  <2>2. Whole(indexed)
    <3>1. Footer \notin Keys
      BY KeysAssumption, Zenon
    <3> QED BY <2>1, <3>1, Zenon DEF Whole
  <2>3. Readable = Range(indexed)
    BY <1>1, <2>2, WholeReadable, Zenon
  <2>4. Range(indexed) \subseteq {data[i] : i \in DOMAIN data}
    <3>1. DOMAIN indexed \subseteq DOMAIN data
      BY <1>1, <2>1
    <3> QED BY <2>1, <3>1, Zenon DEF Range, Agrees
  <2> QED BY <1>2, <2>3, <2>4, Zenon DEF Held
<1>3. CASE ~EndsIn(data, {Footer})
  <2>1. 0 \in 0 .. Len(data)
    BY <1>1
  <2>2. PICK ix : ix = ScanFrom(data, 0)
    BY Zenon
  <2>3. /\ ix \in Seq(Keys) /\ 0 + Len(ix) <= Len(data)
        /\ \A i \in 1 .. Len(ix) : ix[i] = data[0 + i]
        /\ 0 + Len(ix) < Len(data) => data[0 + Len(ix) + 1] \notin Keys
    BY <1>1, <2>1, <2>2, ScanFromWhole, Zenon
  <2>4. /\ 0 + Len(ix) = Len(ix) /\ \A i \in 1 .. Len(ix) : 0 + i = i
        /\ DOMAIN ix = 1 .. Len(ix) /\ 0 + Len(ix) + 1 = Len(ix) + 1
    BY <2>3
  <2>5. Whole(ix)
    BY <2>3, <2>4, Zenon DEF Whole, Agrees
  <2> QED BY <1>3, <2>2, <2>3, <2>5, WholeReadable, Zenon DEF Held
<1> QED BY <1>2, <1>3

(* What is safe is held. *)
LEMMA SafeHeld ==
    ASSUME IInv
    PROVE  Safe \subseteq Held
<1>1. FileTypes /\ FileInv /\ durable \in Nat /\ durable <= Len(data) /\ Len(data) \in Nat
  BY Parts, DataType, Zenon
<1>2. \A i \in 1 .. durable : i \in 1 .. Len(data)
  BY <1>1
<1>3. Safe \subseteq Readable
  BY <1>2, Zenon DEF Safe, Readable
<1> QED BY <1>1, <1>3, HeldReadable, Zenon

(* The invariant implies what is claimed of the segment. *)
LEMMA InvImplies ==
    ASSUME IInv
    PROVE  TypeOK /\ AckedStored /\ IndexAgrees /\ MarksDurable
<1>1. TypeOK /\ AckedStored
  BY SafeHeld, Zenon DEF IInv, AckedStored
<1>2. IndexAgrees
  <2>1. Agrees(own.index)
    <3>1. CASE Open
      BY <3>1, Parts, Zenon DEF OwnInv, Whole
    <3>2. CASE ~Open
      <4>1. own.index = <<>>
        BY <3>2, Parts, Zenon DEF OwnInv
      <4>2. Len(<<>>) = 0 /\ DOMAIN <<>> = {} /\ 0 <= Len(data)
        BY Parts, DataType
      <4> QED BY <4>1, <4>2, Zenon DEF Agrees
    <3> QED BY <3>1, <3>2
  <2> QED BY <2>1, Parts, Zenon DEF IndexAgrees, FileInv
<1>3. MarksDurable
  <2>1. ASSUME NEW n \in Marks(Records(sidecar)) \cup Marks(Records(stale)) \cup {view.at.durable}
        PROVE  n <= durable /\ dropped \cap 1 .. n = {}
    <3>1. Good(n)
      BY Parts, Zenon DEF SidecarInv, ViewMarks
    <3> QED BY <3>1, Zenon DEF Good
  <2> QED BY <2>1, Zenon DEF MarksDurable
<1> QED BY <1>1, <1>2, <1>3

(* The invariant of a segment always holds, for every set of keys, every    *)
(* size and every history of processes, failures, crashes and power losses, *)
(* if a segment whose pages a failed fsync dropped is not adopted again and *)
(* no footer reaches the disk before its records.                           *)
THEOREM SegmentInvariant ==
    ASSUME ~May("retry"), ~May("reorder")
    PROVE  Spec => []IInv
<1>1. Init => IInv
  BY InitInv
<1>2. IInv /\ [Next]_vars => IInv'
  BY NextInv
<1> QED BY <1>1, <1>2, PTL DEF Spec

(* The state of a segment keeps its types. *)
THEOREM SegmentTypes ==
    ASSUME ~May("retry"), ~May("reorder")
    PROVE  Spec => []TypeOK
<1>1. IInv => TypeOK
  BY InvImplies, Zenon
<1> QED BY <1>1, SegmentInvariant, PTL

(* A record whose put was acknowledged stays stored, with sync on across a *)
(* power loss too (Store::put, sync_active).                               *)
THEOREM AckedStaysStored ==
    ASSUME ~May("retry"), ~May("reorder")
    PROVE  Spec => []AckedStored
<1>1. IInv => AckedStored
  BY InvImplies, Zenon
<1> QED BY <1>1, SegmentInvariant, PTL

(* The index of the owner, and of every reader that caught up through the *)
(* sidecar, names records the file has at those places (advance).         *)
THEOREM IndexStaysRight ==
    ASSUME ~May("retry"), ~May("reorder")
    PROVE  Spec => []IndexAgrees
<1>1. IInv => IndexAgrees
  BY InvImplies, Zenon
<1> QED BY <1>1, SegmentInvariant, PTL

(* A sync mark of the sidecar never claims more than what is on disk *)
(* (Sidecar::synced).                                                *)
THEOREM MarksStayDurable ==
    ASSUME ~May("retry"), ~May("reorder")
    PROVE  Spec => []MarksDurable
<1>1. IInv => MarksDurable
  BY InvImplies, Zenon
<1> QED BY <1>1, SegmentInvariant, PTL

-----------------------------------------------------------------------------
(* The segment implements Durable.                                         *)

(* The files and the owner's index, in the state before a step and in the  *)
(* one after it.                                                           *)
LEMMA HeldNow ==
    IInv => Held = Readable /\ Safe \subseteq Held /\ (Open => Readable = Range(own.index))
<1> SUFFICES ASSUME IInv
             PROVE  Held = Readable /\ Safe \subseteq Held /\ (Open => Readable = Range(own.index))
  BY Zenon
<1>1. FileTypes /\ FileInv /\ own.index \in Seq(Keys) /\ OwnInv
  BY Parts, OwnTyped, Zenon
<1>2. Held = Readable /\ Safe \subseteq Held
  BY <1>1, HeldReadable, SafeHeld, Zenon
<1>3. Open => Readable = Range(own.index)
  BY <1>1, WholeReadable, Zenon DEF OwnInv
<1> QED BY <1>2, <1>3

(* What HeldNow says, of the state after a step. *)
LEMMA HeldThen ==
    IInv' => Held' = Readable' /\ Safe' \subseteq Held' /\ ((Open)' => Readable' = Range(own'.index))
<1>1. (IInv => Held = Readable /\ Safe \subseteq Held /\ (Open => Readable = Range(own.index)))'
  BY HeldNow, PTL
<1> QED BY <1>1, Zenon

(* What WholeReadable says, of the state after a step. *)
LEMMA WholeReadableThen ==
    ASSUME NEW CONSTANT ix \in Seq(Keys)
    PROVE  IInv' /\ Whole(ix)' => Readable' = Range(ix)
<1>1. IInv /\ Whole(ix) => Readable = Range(ix)
  BY Parts, WholeReadable, Zenon
<1>2. (IInv /\ Whole(ix) => Readable = Range(ix))'
  BY <1>1, PTL
<1> QED BY <1>2, Zenon

(* What is held and what is safe is a matter of the file. *)
LEMMA SameFile ==
    ASSUME UNCHANGED <<data, durable, dropped, indexed>>
    PROVE  Held' = Held /\ Safe' = Safe
BY Zenon DEF Held, Safe, EndsIn

(* An owner that leaves the file alone at most acknowledges. *)
LEMMA AcknowledgeRefines ==
    ASSUME IInv, IInv', UNCHANGED <<file, indexed>>, acked \subseteq acked'
    PROVE  [D!Next]_D!vars
<1>1. Held' = Held /\ Safe' = Safe
  BY SameFile, Zenon DEF file
<1>2. acked' \subseteq Safe'
  BY Zenon DEF IInv
<1>3. D!Acknowledge
  BY <1>1, <1>2, Zenon DEF D!Acknowledge
<1> QED BY <1>3, Zenon DEF D!Next

(* A step that keeps what is held and acknowledges nothing at most makes   *)
(* more of it safe.                                                        *)
LEMMA SyncRefines ==
    ASSUME IInv, IInv', KeepsGood, Readable' = Readable, acked' = acked
    PROVE  [D!Next]_D!vars
<1>1. FileTypes
  BY Zenon DEF IInv, TypeOK
<1>2. Held = Readable
  BY HeldNow, Zenon
<1>3. Held' = Readable' /\ Safe' \subseteq Held'
  BY HeldThen, Zenon
<1>4. Safe \subseteq Safe'
  BY <1>1, SafeKept, Zenon
<1>5. D!Sync
  BY <1>2, <1>3, <1>4, Zenon DEF D!Sync
<1> QED BY <1>5, Zenon DEF D!Next


(* An fsync makes records safe, or does nothing that shows. *)
LEMMA FsyncRefines ==
    ASSUME IInv, IInv', FsyncSucceeds \/ FsyncFails, acked' = acked
    PROVE  [D!Next]_D!vars
<1>1. FileTypes
  BY Zenon DEF IInv, TypeOK
<1>2. KeepsGood /\ data' = data
  BY <1>1, FsyncFile, Zenon
<1>3. Readable' = Readable
  BY <1>2, Zenon DEF Readable
<1> QED BY <1>2, <1>3, SyncRefines, Zenon

(* So does one that replaces what lies behind the owner's index by         *)
(* something that is no record.                                            *)
LEMMA OverwriteRefines ==
    ASSUME IInv, IInv', Open, (Open)', ~At("dirsync"), ~own.failed, NEW rest \in Seq(Items),
           Overwrite(Size, rest), own'.index = own.index, acked' = acked
    PROVE  [D!Next]_D!vars
<1>1. KeepsGood
  BY OverwriteFile, Zenon
<1>2. Readable' = Readable
  BY HeldNow, HeldThen, Zenon
<1> QED BY <1>1, <1>2, SyncRefines, Zenon

(* Appending a record is the moment it is held. *)
LEMMA WriteRefines ==
    ASSUME IInv, IInv', NEW k \in Keys, NEW op \in {"put", "batch"}, Write(k, op)
    PROVE  [D!Next]_D!vars
<1>1. /\ OwnerTypes /\ FileTypes /\ StepInv /\ FileInv /\ own.index \in Seq(Keys) /\ Size \in Nat
      /\ durable \in Nat /\ OwnInv /\ DOMAIN own.index = 1 .. Size
  BY Parts, OwnTyped, DataType, Zenon
<1>2. /\ own.pc = "idle" /\ ~own.failed /\ Overwrite(Size, <<k>>) /\ acked' = acked
      /\ own' = [own EXCEPT !.pc = "entry", !.op = op, !.index = Append(@, k),
                            !.due = {k}, !.dirty = TRUE]
  BY Zenon DEF Write, At
<1>3. Open /\ ~At("dirsync") /\ ~At("none")
  BY <1>1, <1>2, Zenon DEF Open, StepInv, At
<1>4. own'.index = Append(own.index, k) /\ (Open)'
  <2>1. /\ own'.pc = "entry" /\ own'.op = op /\ own'.index = Append(own.index, k)
    BY <1>1, <1>2, WriteOwn, Zenon
  <2> QED BY <2>1, Zenon DEF Open, At
<1>5. <<k>> \in Seq(Items)
  BY OneItem, Zenon DEF Items
<1>6. KeepsGood /\ \A i \in 1 .. Size : data'[i] = own.index[i]
  BY <1>2, <1>3, <1>5, OverwriteFile, Zenon
<1>7. Held' = Held \cup {k}
  <2>1. Range(Append(own.index, k)) = Range(own.index) \cup {k}
    <3>1. PICK ix \in Seq(Keys) : ix = own.index
      BY <1>1, Zenon
    <3>2. Range(Append(ix, k)) = Range(ix) \cup {k}
      BY RangeAppend
    <3> QED BY <3>1, <3>2, Zenon
  <2> QED BY <1>3, <1>4, <2>1, HeldNow, HeldThen, Zenon
<1>8. Safe \subseteq Safe'
  BY <1>1, <1>6, SafeKept, Zenon
<1>9. ASSUME NEW x \in Safe' PROVE x \in Safe
  <2>1. PICK i \in 1 .. durable' : x = data'[i] /\ \A j \in 1 .. i : data'[j] \in Keys
    BY Zenon DEF Safe
  <2>2. durable' = Min2(durable, Size) /\ dropped = {}
    BY <1>1, <1>2, <1>3, Running, Zenon DEF Overwrite
  <2>3. i \in 1 .. durable /\ i \in 1 .. i /\ \A j \in 1 .. i : j \in 1 .. Size
    BY <1>1, <2>1, <2>2 DEF Min2
  <2>4. \A j \in 1 .. Size : data'[j] = data[j]
    BY <1>1, <1>3, <1>6, Zenon DEF OwnInv, Whole, Agrees
  <2>5. x = data[i] /\ \A j \in 1 .. i : data[j] \in Keys /\ j \notin dropped
    BY <2>1, <2>2, <2>3, <2>4, Zenon
  <2> QED BY <2>3, <2>5, Zenon DEF Safe
<1>10. Safe' = Safe
  BY <1>8, <1>9, Zenon
<1>11. D!Write(k)
  BY <1>2, <1>7, <1>10, Zenon DEF D!Write
<1> QED BY <1>11, Zenon DEF D!Next

(* Writing the footer does nothing that shows. *)
LEMMA WriteFooterRefines ==
    ASSUME IInv, IInv', WriteFooter
    PROVE  [D!Next]_D!vars
<1>1. OwnerTypes /\ StepInv
  BY Parts, Zenon
<1>2. own.pc = "footer" /\ acked' = acked
  BY Zenon DEF WriteFooter, At
<1>3. Open /\ ~At("dirsync") /\ ~own.failed /\ own.op # "finish"
  BY <1>1, <1>2, Zenon DEF Open, StepInv, At
<1>4. PICK rest \in {<<>>, <<Footer>>, <<Bad>>, <<Torn>>} : Overwrite(Size, rest)
  BY Zenon DEF WriteFooter
<1>5. rest \in Seq(Items)
  <2>1. CASE rest = <<>>
    BY <2>1
  <2>2. ASSUME NEW x \in {Footer, Bad, Torn}, rest = <<x>> PROVE rest \in Seq(Items)
    <3>1. x \in Items
      BY <2>2, Zenon DEF Items
    <3> QED BY <2>2, <3>1, OneItem, Zenon
  <2> QED BY <1>4, <2>1, <2>2, Zenon
<1>6. own'.index = own.index /\ own'.pc \in {"sealsync", "idle"} /\ own'.op \in {own.op, "none"}
  <2>1. Goto("sealsync") \/ Returns \/ Fails
    BY Zenon DEF WriteFooter
  <2> QED BY <1>1, <2>1, Zenon DEF Goto, Returns, Fails, OwnerTypes, Owners
<1>7. (Open)'
  BY <1>3, <1>6, Zenon DEF Open, At
<1> QED BY <1>2, <1>3, <1>4, <1>5, <1>6, <1>7, OverwriteRefines, Zenon

(* A write that fails adds nothing. *)
LEMMA WriteFailsRefines ==
    ASSUME IInv, IInv', WriteFails
    PROVE  [D!Next]_D!vars
<1>1. own.pc = "idle" /\ ~own.failed /\ own' = own /\ acked' = acked /\ Overwrite(Size, <<Bad>>)
  BY Zenon DEF WriteFails, At
<1>2. Open /\ ~At("dirsync") /\ (Open)'
  BY <1>1, Parts, Zenon DEF Open, StepInv, At
<1>3. <<Bad>> \in Seq(Items)
  <2>1. Bad \in Items
    BY Zenon DEF Items
  <2> QED BY <2>1, OneItem, Zenon
<1> QED BY <1>1, <1>2, <1>3, OverwriteRefines, Zenon

(* Adopting a segment drops at most what was never safe. *)
LEMMA AdoptRefines ==
    ASSUME IInv, IInv', Adopt
    PROVE  [D!Next]_D!vars
<1>1. UNCHANGED <<indexed, acked>> /\ FileTypes
  BY Parts, Zenon DEF Adopt
<1>2. CASE AdoptSeal
  BY <1>1, <1>2, AcknowledgeRefines, Zenon DEF AdoptSeal
<1>3. ASSUME NEW sync \in BOOLEAN, AdoptActive(sync, Recover(data, sidecar))
      PROVE  [D!Next]_D!vars
  <2>1. PICK ix \in Seq(Keys), n \in 0 .. Len(Records(sidecar)), m \in Nat :
           /\ Recover(data, sidecar) = [index |-> ix, sidecar |-> n, durable |-> m]
           /\ Whole(ix)
    BY AdoptRecovers, Zenon
  <2>2. PICK res : res = Recover(data, sidecar)
    BY Zenon
  <2>3. AdoptActive(sync, res)
    BY <1>3, <2>2, Zenon
  <2>4. res = [index |-> ix, sidecar |-> n, durable |-> m]
    BY <2>1, <2>2, Zenon
  <2>5. res.index = ix
    BY <2>4, Zenon
  <2>6. KeepsGood /\ Whole(ix)'
    BY <1>1, <2>1, <2>3, <2>5, AdoptFile, Zenon
  <2>7. Readable = Range(ix)
    BY <1>1, <2>1, WholeReadable, Zenon
  <2>8. Readable' = Range(ix)
    BY <2>1, <2>6, WholeReadableThen, Zenon
  <2> QED BY <1>1, <2>6, <2>7, <2>8, SyncRefines, Zenon
<1> QED BY <1>2, <1>3, Zenon DEF Adopt


(* A power loss takes of what is held only what is not safe, and what it   *)
(* leaves is on the disk.                                                  *)
LEMMA PowerLossRefines ==
    ASSUME IInv, IInv', PowerLoss
    PROVE  [D!Next]_D!vars
<1>1. FileTypes /\ Len(data) \in Nat /\ durable \in Nat
  BY Parts, DataType, Zenon
<1>2. data' \in Survivors /\ durable' = Len(data') /\ dropped' = {} /\ acked' = acked
  BY Zenon DEF PowerLoss
<1>3. KeepsGood
  BY <1>1, <1>2, PowerLossKeeps, Zenon
<1>4. Safe \subseteq Safe'
  BY <1>1, <1>3, SafeKept, Zenon
<1>5. Held = Readable /\ Held' = Readable'
  BY HeldNow, HeldThen, Zenon
<1>6. Safe' = Held'
  <2>1. Safe' = Readable'
    BY <1>2, Zenon DEF Safe, Readable
  <2> QED BY <1>5, <2>1, Zenon
<1>7. /\ Len(data') \in durable .. Len(data)
      /\ \A i \in 1 .. Len(data') : data'[i] = data[i] \/ data'[i] \in {Bad, Torn}
  BY <1>1, <1>2, SurvivorsFile, Zenon
<1>8. ASSUME NEW x \in Readable' PROVE x \in Readable
  <2>1. PICK i \in 1 .. Len(data') : x = data'[i] /\ \A j \in 1 .. i : data'[j] \in Keys
    BY Zenon DEF Readable
  <2>2. i \in 1 .. Len(data) /\ i \in 1 .. i /\ \A j \in 1 .. i : j \in 1 .. Len(data')
    BY <1>1, <1>7, <2>1
  <2>3. Bad \notin Keys /\ Torn \notin Keys
    BY KeysAssumption, Zenon
  <2>4. \A j \in 1 .. i : data'[j] = data[j]
    BY <1>7, <2>1, <2>2, <2>3, Zenon
  <2> QED BY <2>1, <2>2, <2>4, Zenon DEF Readable
<1>9. D!Lose
  BY <1>2, <1>4, <1>5, <1>6, <1>8, Zenon DEF D!Lose
<1> QED BY <1>9, Zenon DEF D!Next

(* A fresh segment holds nothing. *)
LEMMA InitRefines ==
    ASSUME Init
    PROVE  D!Init
<1>1. data = <<>> /\ durable = 0 /\ acked = {} /\ IInv
  BY InitInv, Zenon DEF Init
<1>2. Len(<<>>) = 0 /\ 1 .. 0 = {}
  OBVIOUS
<1>3. Safe = {} /\ Readable = {}
  BY <1>1, <1>2, Zenon DEF Safe, Readable
<1> QED BY <1>1, <1>3, HeldNow, Zenon DEF D!Init

(* Every step is one of the abstract store, or does nothing that shows. *)
LEMMA NextRefines ==
    ASSUME IInv, IInv', [Next]_vars
    PROVE  [D!Next]_D!vars
<1>1. ASSUME NEW k \in Keys, NEW op \in {"put", "batch"}, Write(k, op) PROVE [D!Next]_D!vars
  BY <1>1, WriteRefines, Zenon
<1>2. ASSUME UNCHANGED <<file, indexed>>, acked \subseteq acked' PROVE [D!Next]_D!vars
  BY <1>2, AcknowledgeRefines, Zenon
<1>3. ASSUME NEW k \in Keys, OwnDuplicate(k) \/ Duplicate(k) PROVE [D!Next]_D!vars
  BY <1>2, <1>3, Zenon DEF OwnDuplicate, Duplicate
<1>4. CASE WriteEntry \/ SyncActive \/ MarkSynced \/ LeaveActive \/ Rename
  BY <1>2, <1>4, Zenon DEF WriteEntry, SyncActive, MarkSynced, LeaveActive, Rename
<1>5. CASE FsyncDir \/ CloseMark \/ OpenSidecar \/ Crash
  BY <1>2, <1>5, Zenon DEF FsyncDir, CloseMark, OpenSidecar, Crash
<1>6. CASE ReadSidecar \/ ReadData \/ DropForeign
  BY <1>2, <1>6, Zenon DEF ReadSidecar, ReadData, DropForeign
<1>7. CASE Fsync \/ FsyncFooter \/ CloseFsync
  <2>1. acked' = acked /\ (FsyncSucceeds \/ FsyncFails)
    BY <1>7, Zenon DEF Fsync, FsyncFooter, CloseFsync
  <2> QED BY <2>1, FsyncRefines, Zenon
<1>8. CASE WriteFails \/ WriteFooter \/ Adopt \/ PowerLoss
  BY <1>8, WriteFailsRefines, WriteFooterRefines, AdoptRefines, PowerLossRefines, Zenon
<1>9. CASE UNCHANGED vars
  BY <1>2, <1>9, Zenon DEF vars
<1> QED BY <1>1, <1>3, <1>4, <1>5, <1>6, <1>7, <1>8, <1>9, Zenon DEF Next

(* Every behaviour of the segment is one of Durable: what its files hold   *)
(* and what of that is on the disk change as Durable allows, whatever      *)
(* writes and fsyncs fail and whenever the process dies or the power goes. *)
THEOREM SegmentImplementsDurable ==
    ASSUME ~May("retry"), ~May("reorder")
    PROVE  Spec => ImplementsDurable
<1>1. Init => D!Init
  BY InitRefines
<1>2. IInv /\ IInv' /\ [Next]_vars => [D!Next]_D!vars
  BY NextRefines
<1> QED BY <1>1, <1>2, SegmentInvariant, PTL DEF Spec, ImplementsDurable, D!Spec
=============================================================================
