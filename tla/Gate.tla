-------------------------------- MODULE Gate --------------------------------
(***************************************************************************)
(* The gate of packstore (src/src/packstore/gate.rs): one flock, on the    *)
(* file gc.lock, that keeps the write spans of every store open on a       *)
(* directory apart from a sweep, the passes that delete segments.  Several *)
(* stores, each with several threads, share the file.                      *)
(*                                                                         *)
(* A store's State is spread over one variable per field: the counters are *)
(* functions of the store, the flags sets of the stores in which they are  *)
(* set.  Its Mutex makes every action below one critical section (or one   *)
(* flock call, or one read or write of the file).                          *)
(* The condition variable is the set asleep: a waiter that found its       *)
(* condition false goes to sleep, and only notify_all wakes it.            *)
(*                                                                         *)
(* A call is one begin_write .. drop of a WriteSpan (Spans), or one        *)
(* begin_sweep / sweep_gate .. drop of a Sweep (Sweeps).  The segments of  *)
(* the directory, and those a store has mapped, are what the gate is for:  *)
(* a write may skip an object only if the segment it was found in is still *)
(* there.                                                                  *)
(***************************************************************************)
EXTENDS Integers

CONSTANTS
    Stores,      \* the stores open on one directory, one per process
    Spans,       \* calls that open a write span
    Sweeps,      \* calls that take the gate exclusively
    StoreOf,     \* the store a call is made on
    Outer,       \* the calls (none or one) a call is made inside of
    Cancelable,  \* the sweeps made with begin_sweep, which takes a cancel
    Segments,    \* identities of segment files
    MaxGen       \* bound on the generation: a bump past it fails

Calls == Spans \cup Sweeps

(* Spans nest in spans and sweeps in sweeps of the same store. *)
ASSUME CallsAssumption ==
    /\ Spans \cap Sweeps = {}
    /\ Cancelable \subseteq Sweeps
    /\ StoreOf \in [Calls -> Stores]
    /\ Outer \in [Calls -> SUBSET Calls]
    /\ \A c \in Calls : \A o \in Outer[c] :
          /\ o # c
          /\ StoreOf[o] = StoreOf[c]
          /\ Outer[o] = {}
          /\ c \in Spans <=> o \in Spans

ASSUME MaxGenAssumption == MaxGen \in Nat

VARIABLES
    shared,     \* shared[s]: the write spans in flight
    exclusive,  \* exclusive[s]: the sweeps in flight, one inside the other
    generation, \* generation[s]: the generation s's view is good for
    flocked,    \* the stores whose spans hold LOCK_SH
    busy,       \* the stores a thread of which is taking the file lock
    blocked,    \* the stores in which a sweep keeps new spans out
    looked,     \* the stores whose generation is set
    closed,     \* the closed stores
    flock,   \* flock[s]: how s's open gc.lock is flocked
    gen,     \* the generation in the first 8 bytes of gc.lock
    dir,     \* the segments in the directory
    view,    \* view[s]: the segments s has mapped
    detached, \* detached[c]: what sweep c took out of the view and is to unlink
    pc,      \* pc[c]: where call c is
    counted, \* counted[c]: the generation sweep c is about to write
    asleep   \* the calls waiting on their gate's condition variable

counts == <<shared, exclusive>>
flags == <<busy, blocked>>
known == <<generation, looked>>
disk == <<gen, dir>>
mapped == <<view, detached>>
vars == <<counts, flags, known, disk, flocked, closed, flock, mapped, pc, counted, asleep>>

SpanPc == {"idle", "wantShared", "pollShared", "look", "open"}
SweepPc == {"idle", "wantExclusive", "drain", "pollExclusive", "bump", "write",
            "refresh", "sweeping", "wantPause", "drainPause", "paused", "drainEnd"}

(* Every store has the directory's segments mapped when it opened; the     *)
(* file is fresh, so its generation reads as 0.                            *)
Init ==
    /\ shared = [s \in Stores |-> 0] /\ exclusive = [s \in Stores |-> 0]
    /\ generation = [s \in Stores |-> 0] /\ looked = {}
    /\ flocked = {} /\ busy = {} /\ blocked = {} /\ closed = {}
    /\ flock = [s \in Stores |-> "none"]
    /\ gen = 0
    /\ dir \in SUBSET Segments
    /\ view = [s \in Stores |-> dir]
    /\ detached = [c \in Sweeps |-> {}]
    /\ pc = [c \in Calls |-> "idle"]
    /\ counted = [c \in Sweeps |-> 0]
    /\ asleep = {}

-----------------------------------------------------------------------------
(* The condition variable.                                                 *)

CallsOf(s) == {c \in Calls : StoreOf[c] = s}

NotifyAll(s) == asleep' = asleep \ CallsOf(s)

(* A wait of begin_shared that a sweep's wait for the spans would block. *)
ReadyNotNested(c) ==
    LET s == StoreOf[c] IN
    /\ pc[c] = "wantShared" => s \notin busy /\ s \notin blocked
    /\ pc[c] \in {"wantExclusive", "wantPause"} => s \notin busy /\ s \notin blocked
    /\ pc[c] \in {"drain", "drainPause", "drainEnd"} => shared[s] = 0

(* What a waiting call waits for. *)
Ready(c) ==
    LET s == StoreOf[c] IN
    /\ pc[c] = "wantShared" => s \notin busy /\ (s \notin blocked \/ shared[s] > 0)
    /\ pc[c] \in {"wantExclusive", "wantPause"} => s \notin busy /\ s \notin blocked
    /\ pc[c] \in {"drain", "drainPause", "drainEnd"} => shared[s] = 0

(* The wait of a call whose condition is false in an open gate. *)
Sleep(c) ==
    /\ c \notin asleep
    /\ ~Ready(c)
    /\ StoreOf[c] \notin closed
    /\ asleep' = asleep \cup {c}
    /\ UNCHANGED <<counts, flags, known, flocked, closed, flock, disk, mapped,
                   pc, counted>>

(* Nothing wakes a waiter when its caller cancels, so it looks: a wait     *)
(* with a cancel is a wait_timeout.                                        *)
Timeout(c) ==
    /\ c \in asleep \cap Cancelable
    /\ pc[c] \in {"wantExclusive", "drain"}
    /\ asleep' = asleep \ {c}
    /\ UNCHANGED <<counts, flags, known, flocked, closed, flock, disk, mapped,
                   pc, counted>>

(* An awake call that finds what it waits for. *)
Proceed(c, at) ==
    /\ pc[c] = at
    /\ c \notin asleep
    /\ Ready(c)

Goto(c, to) == pc' = [pc EXCEPT ![c] = to]

(* The calls made inside c that are not over. *)
InnerCalls(c) == {i \in Calls : c \in Outer[i] /\ pc[i] # "idle"}

(* A thread of store s is removing segments, with the append lock and the  *)
(* refresh lock held.                                                      *)
Removing(s) == \E c \in Sweeps : StoreOf[c] = s /\ detached[c] # {}

-----------------------------------------------------------------------------
(* flock(2) on gc.lock, one open file description per store.               *)

CanLockShared(s) == \A o \in Stores \ {s} : flock[o] # "exclusive"
CanLockExclusive(s) == \A o \in Stores \ {s} : flock[o] = "none"
Flock(s, how) == flock' = [flock EXCEPT ![s] = how]

-----------------------------------------------------------------------------
(* begin_shared and end_shared: a write span.                              *)

CallSpan(c) ==
    /\ pc[c] = "idle"
    /\ \A o \in Outer[c] : pc[o] = "open"
    /\ Goto(c, "wantShared")
    /\ UNCHANGED <<counts, flags, known, flocked, closed, flock, disk, mapped,
                   counted, asleep>>

(* A span in flight, or the exclusive lock, covers this one too. *)
JoinShared(c) ==
    LET s == StoreOf[c] IN
    /\ Proceed(c, "wantShared")
    /\ s \notin closed
    /\ exclusive[s] > 0 \/ s \in flocked
    /\ shared' = [shared EXCEPT ![s] = @ + 1]
    /\ Goto(c, "open")
    /\ UNCHANGED <<exclusive, flags, known, flocked, closed, flock, disk,
                   mapped, counted, asleep>>

(* The first span takes the file lock; the rest wait for it. *)
FirstShared(c) ==
    LET s == StoreOf[c] IN
    /\ Proceed(c, "wantShared")
    /\ s \notin closed
    /\ exclusive[s] = 0 /\ s \notin flocked
    /\ busy' = busy \cup {s}
    /\ Goto(c, "pollShared")
    /\ UNCHANGED <<counts, blocked, known, flocked, closed, flock, disk, mapped,
                   counted, asleep>>

PollShared(c) ==
    /\ pc[c] = "pollShared"
    /\ CanLockShared(StoreOf[c])
    /\ Flock(StoreOf[c], "shared")
    /\ Goto(c, "look")
    /\ UNCHANGED <<counts, flags, known, flocked, closed, disk, mapped, counted,
                   asleep>>

(* A first span that does not refresh a view whose generation moved. *)
LookSharedStale(c) ==
    LET s == StoreOf[c] IN
    /\ pc[c] = "look"
    /\ shared' = [shared EXCEPT ![s] = 1]
    /\ generation' = [generation EXCEPT ![s] = gen]
    /\ looked' = looked \cup {s}
    /\ flocked' = flocked \cup {s}
    /\ busy' = busy \ {s}
    /\ NotifyAll(s)
    /\ Goto(c, "open")
    /\ UNCHANGED <<exclusive, blocked, closed, flock, disk, mapped, counted>>

(* Reads the generation; if it moved, or the view was never brought up to  *)
(* date under the lock, refreshes the view (which a closed store refuses)  *)
(* before any span proceeds to a duplicate check.                          *)
LookShared(c) ==
    LET s == StoreOf[c]
        moved == gen # generation[s] \/ s \notin looked
    IN
    /\ pc[c] = "look"
    /\ moved => s \notin closed /\ ~Removing(s)
    /\ view' = IF moved THEN [view EXCEPT ![s] = dir] ELSE view
    /\ shared' = [shared EXCEPT ![s] = 1]
    /\ generation' = [generation EXCEPT ![s] = gen]
    /\ looked' = looked \cup {s}
    /\ flocked' = flocked \cup {s}
    /\ busy' = busy \ {s}
    /\ NotifyAll(s)
    /\ Goto(c, "open")
    /\ UNCHANGED <<exclusive, blocked, closed, flock, disk, detached, counted>>

(* The flock, the read or the refresh failed, the gate closed under the    *)
(* poll, or the step unwound: BusyStep::drop clears blocked as well.       *)
FailShared(c) ==
    LET s == StoreOf[c] IN
    /\ pc[c] \in {"pollShared", "look"}
    /\ Flock(s, "none")
    /\ busy' = busy \ {s}
    /\ blocked' \in {blocked, blocked \ {s}}
    /\ NotifyAll(s)
    /\ Goto(c, "idle")
    /\ UNCHANGED <<counts, known, flocked, closed, disk, mapped, counted>>

(* An end of a span that wakes nobody. *)
EndSharedSilent(c) ==
    LET s == StoreOf[c]
        last == shared[s] = 1 /\ s \in flocked
    IN
    /\ pc[c] = "open"
    /\ InnerCalls(c) = {}
    /\ shared' = [shared EXCEPT ![s] = @ - 1]
    /\ flocked' = IF last THEN flocked \ {s} ELSE flocked
    /\ flock' = IF last THEN [flock EXCEPT ![s] = "none"] ELSE flock
    /\ Goto(c, "idle")
    /\ UNCHANGED <<exclusive, flags, known, closed, disk, mapped, counted, asleep>>

EndShared(c) ==
    LET s == StoreOf[c]
        last == shared[s] = 1 /\ s \in flocked
    IN
    /\ pc[c] = "open"
    /\ InnerCalls(c) = {}
    /\ shared' = [shared EXCEPT ![s] = @ - 1]
    /\ flocked' = IF last THEN flocked \ {s} ELSE flocked
    /\ flock' = IF last THEN [flock EXCEPT ![s] = "none"] ELSE flock
    /\ NotifyAll(s)
    /\ Goto(c, "idle")
    /\ UNCHANGED <<exclusive, flags, known, closed, disk, mapped, counted>>

-----------------------------------------------------------------------------
(* begin_exclusive and end_exclusive: a sweep.                             *)

CallSweep(c) ==
    /\ pc[c] = "idle"
    /\ \A o \in Outer[c] : pc[o] = "sweeping" /\ detached[o] = {}
    /\ Goto(c, "wantExclusive")
    /\ UNCHANGED <<counts, flags, known, flocked, closed, flock, disk, mapped,
                   counted, asleep>>

(* A sweep inside a sweep that is not counted. *)
JoinExclusiveUncounted(c) ==
    /\ Proceed(c, "wantExclusive")
    /\ StoreOf[c] \notin closed
    /\ exclusive[StoreOf[c]] > 0
    /\ Goto(c, "sweeping")
    /\ UNCHANGED <<counts, flags, known, flocked, closed, flock, disk, mapped,
                   counted, asleep>>

JoinExclusive(c) ==
    LET s == StoreOf[c] IN
    /\ Proceed(c, "wantExclusive")
    /\ s \notin closed
    /\ exclusive[s] > 0
    /\ exclusive' = [exclusive EXCEPT ![s] = @ + 1]
    /\ Goto(c, "sweeping")
    /\ UNCHANGED <<shared, flags, known, flocked, closed, flock, disk, mapped,
                   counted, asleep>>

BlockSpans(c) ==
    LET s == StoreOf[c] IN
    /\ Proceed(c, "wantExclusive")
    /\ s \notin closed
    /\ exclusive[s] = 0
    /\ blocked' = blocked \cup {s}
    /\ Goto(c, "drain")
    /\ UNCHANGED <<counts, busy, known, flocked, closed, flock, disk, mapped,
                   counted, asleep>>

Drained(c) ==
    LET s == StoreOf[c] IN
    /\ Proceed(c, "drain")
    /\ s \notin closed
    /\ busy' = busy \cup {s}
    /\ Goto(c, "pollExclusive")
    /\ UNCHANGED <<counts, blocked, known, flocked, closed, flock, disk, mapped,
                   counted, asleep>>

PollExclusive(c) ==
    /\ pc[c] = "pollExclusive"
    /\ CanLockExclusive(StoreOf[c])
    /\ Flock(StoreOf[c], "exclusive")
    /\ Goto(c, "bump")
    /\ UNCHANGED <<counts, flags, known, flocked, closed, disk, mapped, counted,
                   asleep>>

(* A bump that counts from what the store remembers. *)
BumpReadRemembered(c) ==
    /\ pc[c] = "bump"
    /\ counted' = [counted EXCEPT ![c] = generation[StoreOf[c]] + 1]
    /\ Goto(c, "write")
    /\ UNCHANGED <<counts, flags, known, flocked, closed, flock, disk, mapped,
                   asleep>>

(* The generation first, before anything can be deleted: bump counts from  *)
(* what the file holds, not from what the store remembers, in a read and a *)
(* write.                                                                  *)
BumpRead(c) ==
    /\ pc[c] = "bump"
    /\ counted' = [counted EXCEPT ![c] = gen + 1]
    /\ Goto(c, "write")
    /\ UNCHANGED <<counts, flags, known, flocked, closed, flock, disk, mapped,
                   asleep>>

BumpWrite(c) ==
    /\ pc[c] = "write"
    /\ counted[c] <= MaxGen
    /\ gen' = counted[c]
    /\ counted' = [counted EXCEPT ![c] = 0]
    /\ Goto(c, "refresh")
    /\ UNCHANGED <<counts, flags, known, flocked, closed, flock, dir, mapped,
                   asleep>>

(* A sweep that starts from the view the store happens to have. *)
RefreshExclusiveStale(c) ==
    LET s == StoreOf[c] IN
    /\ pc[c] = "refresh"
    /\ s \notin closed
    /\ busy' = busy \ {s}
    /\ blocked' = blocked \ {s}
    /\ exclusive' = [exclusive EXCEPT ![s] = 1]
    /\ generation' = [generation EXCEPT ![s] = gen]
    /\ looked' = looked \cup {s}
    /\ NotifyAll(s)
    /\ Goto(c, "sweeping")
    /\ UNCHANGED <<shared, flocked, closed, flock, disk, mapped, counted>>

RefreshExclusive(c) ==
    LET s == StoreOf[c] IN
    /\ pc[c] = "refresh"
    /\ s \notin closed
    /\ ~Removing(s)
    /\ view' = [view EXCEPT ![s] = dir]
    /\ busy' = busy \ {s}
    /\ blocked' = blocked \ {s}
    /\ exclusive' = [exclusive EXCEPT ![s] = 1]
    /\ generation' = [generation EXCEPT ![s] = gen]
    /\ looked' = looked \cup {s}
    /\ NotifyAll(s)
    /\ Goto(c, "sweeping")
    /\ UNCHANGED <<shared, flocked, closed, flock, disk, detached, counted>>

(* The poll was given up (cancel, close) or failed, or the bump or the     *)
(* refresh failed or unwound: the file lock goes.                          *)
FailExclusive(c) ==
    LET s == StoreOf[c] IN
    /\ pc[c] \in {"pollExclusive", "bump", "write", "refresh"}
    /\ Flock(s, "none")
    /\ busy' = busy \ {s}
    /\ blocked' = blocked \ {s}
    /\ NotifyAll(s)
    /\ counted' = [counted EXCEPT ![c] = 0]
    /\ Goto(c, "idle")
    /\ UNCHANGED <<counts, known, flocked, closed, disk, mapped>>

(* A wait of begin_shared or begin_exclusive that the close, or the cancel *)
(* of a condition still false, ends with an error.                         *)
GiveUp(c) ==
    LET s == StoreOf[c] IN
    /\ pc[c] \in {"wantShared", "wantExclusive", "drain"}
    /\ c \notin asleep
    /\ s \in closed \/ (c \in Cancelable /\ ~Ready(c))
    /\ IF pc[c] = "drain"
       THEN blocked' = blocked \ {s} /\ NotifyAll(s)
       ELSE UNCHANGED <<blocked, asleep>>
    /\ Goto(c, "idle")
    /\ UNCHANGED <<counts, busy, known, flocked, closed, flock, disk, mapped,
                   counted>>

EndNested(c) ==
    LET s == StoreOf[c] IN
    /\ pc[c] = "sweeping"
    /\ InnerCalls(c) = {} /\ detached[c] = {}
    /\ exclusive[s] > 1
    /\ exclusive' = [exclusive EXCEPT ![s] = @ - 1]
    /\ Goto(c, "idle")
    /\ UNCHANGED <<shared, flags, known, flocked, closed, flock, disk, mapped,
                   counted, asleep>>

(* The test of the depth, the wait for busy and blocked and the setting of *)
(* blocked are one critical section: EndNeverWaits says the wait is over   *)
(* before it begins.                                                       *)
BlockEnd(c) ==
    LET s == StoreOf[c] IN
    /\ pc[c] = "sweeping"
    /\ InnerCalls(c) = {} /\ detached[c] = {}
    /\ exclusive[s] <= 1
    /\ (s \in busy \/ s \in blocked) => s \in closed
    /\ blocked' = blocked \cup {s}
    /\ Goto(c, "drainEnd")
    /\ UNCHANGED <<counts, busy, known, flocked, closed, flock, disk, mapped,
                   counted, asleep>>

(* An end that does not wait for the spans that joined the sweep, and one  *)
(* that wakes nobody.                                                      *)
EndExclusiveAtOnce(c) ==
    LET s == StoreOf[c] IN
    /\ pc[c] = "drainEnd"
    /\ Flock(s, "none")
    /\ exclusive' = [exclusive EXCEPT ![s] = 0]
    /\ blocked' = blocked \ {s}
    /\ NotifyAll(s)
    /\ Goto(c, "idle")
    /\ UNCHANGED <<shared, busy, known, flocked, closed, disk, mapped, counted>>

EndExclusiveSilent(c) ==
    LET s == StoreOf[c] IN
    /\ pc[c] = "drainEnd"
    /\ c \notin asleep
    /\ Ready(c) \/ s \in closed
    /\ Flock(s, "none")
    /\ exclusive' = [exclusive EXCEPT ![s] = 0]
    /\ blocked' = blocked \ {s}
    /\ Goto(c, "idle")
    /\ UNCHANGED <<shared, busy, known, flocked, closed, disk, mapped, counted, asleep>>

EndExclusive(c) ==
    LET s == StoreOf[c] IN
    /\ pc[c] = "drainEnd"
    /\ c \notin asleep
    /\ Ready(c) \/ s \in closed
    /\ Flock(s, "none")
    /\ exclusive' = [exclusive EXCEPT ![s] = 0]
    /\ blocked' = blocked \ {s}
    /\ NotifyAll(s)
    /\ Goto(c, "idle")
    /\ UNCHANGED <<shared, busy, known, flocked, closed, disk, mapped, counted>>

-----------------------------------------------------------------------------
(* pause_local and resume_local: what compact runs inside of.              *)

CallPause(c) ==
    /\ pc[c] = "sweeping"
    /\ InnerCalls(c) = {} /\ detached[c] = {}
    /\ Goto(c, "wantPause")
    /\ UNCHANGED <<counts, flags, known, flocked, closed, flock, disk, mapped,
                   counted, asleep>>

BlockPause(c) ==
    LET s == StoreOf[c] IN
    /\ pc[c] = "wantPause"
    /\ c \notin asleep
    /\ Ready(c) \/ s \in closed
    /\ blocked' = blocked \cup {s}
    /\ Goto(c, "drainPause")
    /\ UNCHANGED <<counts, busy, known, flocked, closed, flock, disk, mapped,
                   counted, asleep>>

(* A pause that does not wait for the local spans. *)
PauseLocalAtOnce(c) ==
    /\ pc[c] = "drainPause"
    /\ Goto(c, "paused")
    /\ UNCHANGED <<counts, flags, known, flocked, closed, flock, disk, mapped,
                   counted, asleep>>

PauseLocal(c) ==
    /\ pc[c] = "drainPause"
    /\ c \notin asleep
    /\ Ready(c) \/ StoreOf[c] \in closed
    /\ Goto(c, "paused")
    /\ UNCHANGED <<counts, flags, known, flocked, closed, flock, disk, mapped,
                   counted, asleep>>

ResumeLocal(c) ==
    LET s == StoreOf[c] IN
    /\ pc[c] = "paused" /\ detached[c] = {}
    /\ blocked' = blocked \ {s}
    /\ NotifyAll(s)
    /\ Goto(c, "sweeping")
    /\ UNCHANGED <<counts, busy, known, flocked, closed, flock, disk, mapped,
                   counted>>

-----------------------------------------------------------------------------
(* What the gate guards: the segments, as far as the gate's users change   *)
(* them.  A closed store refuses all of it.                                *)

(* compact (paused), wipe and remove (sweeping) take what is to go out of  *)
(* the view, then unlink the files one by one, go on after an unlink that  *)
(* fails, and hold the append lock and the refresh lock throughout.        *)
Detach(c, gs) ==
    LET s == StoreOf[c] IN
    /\ pc[c] \in {"sweeping", "paused"}
    /\ s \notin closed
    /\ ~Removing(s)
    /\ gs # {} /\ gs \subseteq view[s]
    /\ view' = [view EXCEPT ![s] = @ \ gs]
    /\ detached' = [detached EXCEPT ![c] = gs]
    /\ UNCHANGED <<counts, flags, known, flocked, closed, flock, disk, pc,
                   counted, asleep>>

Unlink(c, g) ==
    /\ g \in detached[c]
    /\ dir' = dir \ {g}
    /\ detached' = [detached EXCEPT ![c] = @ \ {g}]
    /\ UNCHANGED <<counts, flags, known, flocked, closed, flock, gen, view, pc,
                   counted, asleep>>

UnlinkFails(c, g) ==
    /\ g \in detached[c]
    /\ detached' = [detached EXCEPT ![c] = @ \ {g}]
    /\ UNCHANGED <<counts, flags, known, flocked, closed, flock, disk, view, pc,
                   counted, asleep>>

(* A write, or compact's copy, starts a segment nobody knows of yet. *)
Create(c, g) ==
    LET s == StoreOf[c] IN
    /\ pc[c] \in {"open", "paused"}
    /\ s \notin closed
    /\ ~Removing(s)
    /\ g \notin dir /\ \A o \in Stores : g \notin view[o]
    /\ dir' = dir \cup {g}
    /\ view' = [view EXCEPT ![s] = @ \cup {g}]
    /\ UNCHANGED <<counts, flags, known, flocked, closed, flock, gen, detached,
                   pc, counted, asleep>>

(* A refresh that does not wait for the removal under way. *)
ReaderRefreshUnlocked(s) ==
    /\ s \notin closed
    /\ view[s] # dir
    /\ view' = [view EXCEPT ![s] = dir]
    /\ UNCHANGED <<counts, flags, known, flocked, closed, flock, disk, detached,
                   pc, counted, asleep>>

(* A lookup that misses refreshes the view, whoever holds the gate, once   *)
(* it has the refresh lock.                                                *)
ReaderRefresh(s) ==
    /\ s \notin closed
    /\ ~Removing(s)
    /\ view[s] # dir
    /\ view' = [view EXCEPT ![s] = dir]
    /\ UNCHANGED <<counts, flags, known, flocked, closed, flock, disk, detached,
                   pc, counted, asleep>>

(* Store::close, which takes the append lock: the gate wakes every waiter  *)
(* and drops whatever lock it holds, whoever is still inside.              *)
Close(s) ==
    /\ s \notin closed
    /\ ~Removing(s)
    /\ closed' = closed \cup {s}
    /\ NotifyAll(s)
    /\ Flock(s, "none")
    /\ UNCHANGED <<counts, flags, known, flocked, disk, mapped, pc, counted>>

(* The process dies, at any point, and its directory is opened again: the  *)
(* kernel drops its flock, and the open maps what it finds without the     *)
(* gate, so perhaps in the middle of another store's sweep.                *)
Restart(s) ==
    /\ shared' = [shared EXCEPT ![s] = 0]
    /\ exclusive' = [exclusive EXCEPT ![s] = 0]
    /\ generation' = [generation EXCEPT ![s] = 0]
    /\ flocked' = flocked \ {s} /\ busy' = busy \ {s} /\ blocked' = blocked \ {s}
    /\ looked' = looked \ {s} /\ closed' = closed \ {s}
    /\ Flock(s, "none")
    /\ view' = [view EXCEPT ![s] = dir]
    /\ pc' = [c \in Calls |-> IF StoreOf[c] = s THEN "idle" ELSE pc[c]]
    /\ NotifyAll(s)
    /\ counted' = [c \in Sweeps |-> IF StoreOf[c] = s THEN 0 ELSE counted[c]]
    /\ detached' = [c \in Sweeps |-> IF StoreOf[c] = s THEN {} ELSE detached[c]]
    /\ UNCHANGED disk

-----------------------------------------------------------------------------
SpanStep(c) ==
    \/ CallSpan(c) \/ JoinShared(c) \/ FirstShared(c) \/ PollShared(c)
    \/ LookShared(c) \/ FailShared(c) \/ EndShared(c)

SweepStep(c) ==
    \/ CallSweep(c) \/ JoinExclusive(c) \/ BlockSpans(c) \/ Drained(c)
    \/ PollExclusive(c) \/ BumpRead(c) \/ BumpWrite(c) \/ RefreshExclusive(c)
    \/ FailExclusive(c) \/ EndNested(c) \/ BlockEnd(c) \/ EndExclusive(c)
    \/ CallPause(c) \/ BlockPause(c) \/ PauseLocal(c) \/ ResumeLocal(c)
    \/ Timeout(c)

CallStep ==
    \/ \E c \in Spans : SpanStep(c)
    \/ \E c \in Sweeps : SweepStep(c)
    \/ \E c \in Calls : Sleep(c) \/ GiveUp(c)

SegmentStep ==
    \/ \E c \in Sweeps, gs \in SUBSET Segments : Detach(c, gs)
    \/ \E c \in Sweeps, g \in Segments : Unlink(c, g) \/ UnlinkFails(c, g)
    \/ \E c \in Calls, g \in Segments : Create(c, g)
    \/ \E s \in Stores : ReaderRefresh(s)

(* Nobody closes a store while one of its threads is between taking the    *)
(* lock for a sweep and writing the generation: close would take the lock  *)
(* from under the bump (see SpecAnyClose).                                 *)
OrderlyClose(s) ==
    /\ \A c \in CallsOf(s) : pc[c] \notin {"bump", "write"}
    /\ Close(s)

Next ==
    \/ CallStep
    \/ SegmentStep
    \/ \E s \in Stores : OrderlyClose(s) \/ Restart(s)

Spec == Init /\ [][Next]_vars

(* The same with a close at any moment, which the code allows. *)
SpecAnyClose ==
    Init /\ [][CallStep \/ SegmentStep \/ \E s \in Stores : Close(s) \/ Restart(s)]_vars
-----------------------------------------------------------------------------
(* The calls that hold the gate: a span in flight, a sweep at work.        *)
OpenStates == {"open"}
OpenSpans == {c \in Spans : pc[c] \in OpenStates}
SweepStates == {"sweeping", "wantPause", "drainPause", "paused", "drainEnd"}
Sweeping == {c \in Sweeps : pc[c] \in SweepStates}
Closed(c) == StoreOf[c] \in closed

(* Every gate's state, call and lock has its type (gate.rs State). *)
TypeOK ==
    /\ shared \in [Stores -> Nat] /\ exclusive \in [Stores -> Nat]
    /\ generation \in [Stores -> Nat] /\ looked \in SUBSET Stores
    /\ flocked \in SUBSET Stores /\ closed \in SUBSET Stores
    /\ busy \in SUBSET Stores /\ blocked \in SUBSET Stores
    /\ flock \in [Stores -> {"none", "shared", "exclusive"}]
    /\ gen \in 0..MaxGen
    /\ dir \in SUBSET Segments
    /\ view \in [Stores -> SUBSET Segments]
    /\ detached \in [Sweeps -> SUBSET Segments]
    /\ pc \in [Calls -> SpanPc \cup SweepPc]
    /\ \A c \in Spans : pc[c] \in SpanPc
    /\ \A c \in Sweeps : pc[c] \in SweepPc
    /\ counted \in [Sweeps -> Nat]
    /\ asleep \in SUBSET Calls

(* "While one store sweeps, writers in other processes wait": no span, and *)
(* no sweep, of another open store is in flight during a sweep, although   *)
(* the sweeping store's own spans run without a file lock of their own and *)
(* end_exclusive drops the lock they rely on.                              *)
SweepExcludesOthers ==
    \A c \in Sweeping, d \in OpenSpans \cup Sweeping :
        StoreOf[c] # StoreOf[d] => Closed(c) \/ Closed(d)

(* compact deletes segments only while no write of any open store, its own *)
(* included, is between its duplicate check and its end (pause_local).     *)
CompactsAlone ==
    \A c \in Sweeping : pc[c] = "paused" /\ ~Closed(c)
        => \A d \in OpenSpans : Closed(d)

(* A duplicate check inside a span never finds an object in a segment that *)
(* another store has reaped: begin_shared saw the generation move, even if *)
(* the sweep died half way or the store opened in the middle of it.        *)
SpanViewIsLive ==
    \A c \in OpenSpans : ~Closed(c) => view[StoreOf[c]] \subseteq dir

(* No wakeup is lost: whoever sleeps on the condition variable still has   *)
(* something to wait for, so every change that makes a condition true      *)
(* notifies.                                                               *)
NoLostWakeup ==
    \A c \in asleep : ~Ready(c) /\ ~Closed(c)

(* "A write, or another begin_write, inside an open span joins it at no    *)
(* cost and never waits", even while a sweep waits for the spans to end.   *)
NestedNeverWaits ==
    \A c \in Spans : pc[c] = "wantShared" /\ Outer[c] # {} /\ ~Closed(c)
        => Ready(c) /\ (exclusive[StoreOf[c]] > 0 \/ StoreOf[c] \in flocked)

(* The last Sweep to be dropped never waits for busy or blocked: it would  *)
(* let go of the mutex after it read the depth, and drop the lock although *)
(* a sweep had joined meanwhile (end_exclusive tests the depth only once). *)
EndNeverWaits ==
    \A c \in Sweeping :
        pc[c] = "sweeping" /\ exclusive[StoreOf[c]] <= 1 /\ ~Closed(c)
            => StoreOf[c] \notin busy /\ StoreOf[c] \notin blocked

(* A store that is not closed sweeps while it holds the exclusive lock and *)
(* writes while it has a span in flight.                                   *)
ModeOf(s) ==
    IF s \in closed THEN "out"
    ELSE IF exclusive[s] > 0 THEN "sweep"
    ELSE IF shared[s] > 0 THEN "write"
    ELSE "out"

(* The view a sweep works from "is complete and stable" (begin_exclusive): *)
(* it is the whole directory when the gate is taken, and until it is       *)
(* dropped nothing leaves the directory that is in it, and nothing in the  *)
(* directory leaves it but what a removal of this store has just detached, *)
(* whatever the other stores, the readers and failing unlinks do.          *)
SweepViewComplete ==
    [][\A s \in Stores : ModeOf(s)' = "sweep" =>
          /\ view'[s] \subseteq dir'
          /\ \A g \in dir' \ view'[s] :
                \/ ModeOf(s) = "sweep" /\ g \in dir \ view[s]
                \/ \E c \in Sweeps : StoreOf[c] = s /\ g \in detached'[c]]_vars

SL == INSTANCE SweepLock WITH mode <- [s \in Stores |-> ModeOf(s)]

(* The whole protocol of mutex, condition variable, flock and generation   *)
(* implements the lock its callers rely on (the module comment of gate.rs).*)
ImplementsSweepLock == SL!Spec

-----------------------------------------------------------------------------
(* Every thread that can go on with a call it is in goes on; callers end   *)
(* their spans and sweeps, and make finitely many nested calls before they *)
(* do.  A span that finds the gate free again and again gets in, because a *)
(* store that swept with begin_sweep leaves the lock alone for SWEEP_YIELD,*)
(* two polls' worth.  Nothing of the kind holds for the poll of a sweep.   *)
Fairness ==
    /\ \A c \in Spans :
          /\ SF_vars(JoinShared(c) \/ FirstShared(c))
          /\ SF_vars(PollShared(c))
          /\ WF_vars(LookShared(c) \/ (Closed(c) /\ FailShared(c)))
          /\ SF_vars(EndShared(c))
          /\ WF_vars(GiveUp(c))
    /\ \A c \in Sweeps :
          /\ WF_vars(JoinExclusive(c) \/ BlockSpans(c))
          /\ WF_vars(Drained(c))
          /\ WF_vars(PollExclusive(c))
          /\ WF_vars(BumpRead(c))
          /\ WF_vars(BumpWrite(c) \/ (counted[c] > MaxGen /\ FailExclusive(c)))
          /\ WF_vars(RefreshExclusive(c) \/ (Closed(c) /\ FailExclusive(c)))
          /\ SF_vars(EndNested(c) \/ BlockEnd(c))
          /\ WF_vars(EndExclusive(c))
          /\ WF_vars(BlockPause(c))
          /\ WF_vars(PauseLocal(c))
          /\ WF_vars(ResumeLocal(c))
          /\ WF_vars(\E g \in Segments : Unlink(c, g) \/ UnlinkFails(c, g))
          /\ WF_vars(GiveUp(c))

FairSpec == Spec /\ Fairness

(* No write waits for ever: a span that was asked for is opened, or ends   *)
(* with an error because the store closed, as long as no sweep polls for   *)
(* ever for a lock that other stores' spans never leave (begin_exclusive   *)
(* keeps its own store's spans out meanwhile).                             *)
SpanServed ==
    (\A k \in Sweeps : []<>(pc[k] # "pollExclusive"))
        => \A c \in Spans : pc[c] = "wantShared" ~> pc[c] \in {"open", "idle"}
-----------------------------------------------------------------------------
(* The inductive invariant behind the safety properties.                   *)

(* The calls of K on store s that p puts in one of the states A. *)
InStates(p, K, A, s) == {c \in K : StoreOf[c] = s /\ p[c] \in A}

(* S has n elements: they can be numbered from 1 to n. *)
HasSize(S, n) ==
    \E f \in [S -> 1..n] :
        /\ \A x, y \in S : f[x] = f[y] => x = y
        /\ \A i \in 1..n : \E x \in S : f[x] = i

(* The counters count the guards that are alive. *)
CountInv ==
    \A s \in Stores :
        /\ HasSize(InStates(pc, Spans, OpenStates, s), shared[s])
        /\ HasSize(InStates(pc, Sweeps, SweepStates, s), exclusive[s])

(* busy belongs to one call at a time, made while nothing holds the lock;  *)
(* that covers the step from "exclusive = 0 and not flocked" to LOCK_SH.   *)
BusyShared == {"pollShared", "look"}
BusyExclusive == {"pollExclusive", "bump", "write", "refresh"}
TakingLock == BusyShared \cup BusyExclusive
OneTaker ==
    \A c, d \in Calls :
        pc[c] \in TakingLock /\ pc[d] \in TakingLock /\ StoreOf[c] = StoreOf[d] => c = d
TakerAlone ==
    \A c \in Calls : pc[c] \in TakingLock =>
        LET s == StoreOf[c] IN
        s \in busy /\ shared[s] = 0 /\ exclusive[s] = 0 /\ s \notin flocked
BusyHeld ==
    \A s \in busy : \E c \in Calls : StoreOf[c] = s /\ pc[c] \in TakingLock
BusyInv == OneTaker /\ TakerAlone /\ BusyHeld

(* In a gate that is open, blocked belongs to one sweep at a time.         *)
Blocking == BusyExclusive \cup {"drain", "drainPause", "paused", "drainEnd"}
OneBlocker ==
    \A c, d \in Calls :
        /\ pc[c] \in Blocking /\ pc[d] \in Blocking
        /\ StoreOf[c] = StoreOf[d] /\ StoreOf[c] \notin closed
        => c = d
BlockerState ==
    \A c \in Calls : LET s == StoreOf[c] IN
        s \notin closed =>
            /\ pc[c] \in Blocking => s \in blocked
            /\ pc[c] = "drain" => s \notin busy /\ exclusive[s] = 0
            /\ pc[c] \in BusyShared => s \notin blocked
            /\ pc[c] = "paused" => shared[s] = 0
BlockedHeld ==
    \A s \in blocked \ closed : \E c \in Calls : StoreOf[c] = s /\ pc[c] \in Blocking
LastSweep ==
    \A c \in Calls : pc[c] = "drainEnd" => exclusive[StoreOf[c]] = 1
BlockedInv == OneBlocker /\ BlockerState /\ BlockedHeld /\ LastSweep

(* What the kernel's flock says agrees with what an open gate believes. *)
FlockExcludes ==
    \A s, o \in Stores : flock[s] = "exclusive" /\ s # o => flock[o] = "none"
FlockBelieved ==
    \A s \in Stores \ closed :
        /\ s \in flocked <=> shared[s] > 0 /\ exclusive[s] = 0
        /\ s \in flocked => flock[s] = "shared"
        /\ exclusive[s] > 0 => flock[s] = "exclusive"
FlockTaken ==
    \A c \in Calls : LET s == StoreOf[c] IN
        /\ pc[c] = "look" /\ s \notin closed => flock[s] = "shared"
        /\ pc[c] \in {"bump", "write"} => flock[s] = "exclusive"
        /\ pc[c] = "refresh" /\ s \notin closed => flock[s] = "exclusive"
FlockInv == FlockExcludes /\ FlockBelieved /\ FlockTaken

(* A view is live as long as the generation it is good for is the file's;  *)
(* from the bump on no other store remembers the file's generation.        *)
GenerationInv ==
    /\ \A s \in Stores : generation[s] <= gen
    /\ \A c \in Sweeps : pc[c] = "write" => counted[c] = gen + 1
GoodView ==
    \A s \in Stores \ closed :
        /\ s \in looked /\ generation[s] = gen => view[s] \subseteq dir
        /\ shared[s] > 0 \/ exclusive[s] > 0 => s \in looked /\ generation[s] = gen
NewGeneration ==
    /\ \A s \in Stores \ closed : exclusive[s] > 0 =>
          \A o \in Stores \ {s} : generation[o] < gen
    /\ \A c \in Calls : pc[c] = "refresh" /\ StoreOf[c] \notin closed =>
          \A o \in Stores : generation[o] < gen
ViewInv == GenerationInv /\ GoodView /\ NewGeneration

(* An inner call is made, and over, while its outer one is in flight. *)
NestInv ==
    \A c \in Calls : pc[c] # "idle" =>
        \A o \in Outer[c] : pc[o] = IF c \in Spans THEN "open" ELSE "sweeping"

(* The protocol of the counters, the two flags, the flock, the generation  *)
(* and the sleepers.                                                       *)
ProtocolInv ==
    /\ TypeOK
    /\ CountInv /\ BusyInv /\ BlockedInv /\ FlockInv /\ ViewInv
    /\ NestInv /\ NoLostWakeup

(* What is being removed left the view before it leaves the directory, and *)
(* the sweep that removes it holds the gate of an open store.              *)
RemovalInv ==
    \A c \in Sweeps : detached[c] # {} =>
        /\ pc[c] \in {"sweeping", "paused"} /\ StoreOf[c] \notin closed
        /\ detached[c] \cap view[StoreOf[c]] = {}

(* The safety of the gate in one inductive invariant: the counters, the    *)
(* two flags, the flock, the generation and the sleepers (gate.rs State)   *)
(* agree at every step of every thread of every store, and a refresh never *)
(* brings back what a removal has detached (remove_victims).               *)
IInv == ProtocolInv /\ RemovalInv

=============================================================================
