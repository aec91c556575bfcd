------------------------------ MODULE RefStore ------------------------------
(***************************************************************************)
(* The reference store over SQLite (refstore/mod.rs, cas.rs, queries.rs,   *)
(* sqlite.rs): stores of several processes on one database in WAL mode.    *)
(* Each store has one writer connection behind a mutex and a pool of       *)
(* reader connections; SQLite runs one write transaction at a time.        *)
(*                                                                         *)
(* log holds the state of the database after every commit; a machine that  *)
(* goes down loses a suffix that was never synced.                         *)
(***************************************************************************)
EXTENDS Integers, Sequences

CONSTANTS Threads, Stores,
          StoreOf,      \* the store whose handle a thread has
          Names, Keys, NoKey,
          Records,      \* what a name may be given, by the key in it
          Absent,       \* what a name without a record has
          Ops,          \* the calls made, as records
          Sync,         \* the sync flag of the stores
          MaxIdle,      \* MAX_IDLE_READERS
          MaxCalls,     \* calls in all
          MaxFaults,    \* commits and PRAGMAs that fail, crashes and power losses in all
          NoThread

Volatile == {"put_volatile", "delete_volatile"}
Batches == {"put_batch", "update_batch"}
Reads == {"get", "all"}

ASSUME RefAssumption ==
    /\ \A t \in Threads : StoreOf[t] \in Stores
    /\ NoThread \notin Threads /\ NoKey \notin Keys /\ Absent \notin Records
    /\ MaxIdle \in Nat /\ MaxCalls \in Nat /\ MaxFaults \in Nat /\ Sync \in BOOLEAN

\* The arguments of the calls: no caller expects the key of a record that does
\* not decode.
ASSUME OpsAssumption ==
    \A op \in Ops :
        /\ op.f \in {"put", "delete", "create", "compare_and_swap", "compare_and_delete", "wipe"}
                    \cup Volatile \cup Batches \cup Reads
        /\ op.name \in Names
        /\ op.f \in {"put", "put_volatile", "create", "compare_and_swap"} => op.rec \in Records
        /\ op.f \in {"compare_and_swap", "compare_and_delete"} => op.old \in Keys
        /\ op.f = "put_batch" => op.names = <<>>
        /\ op.f \in Batches =>
              /\ op.names \in Seq([name : Names, old : Keys])
              /\ op.records \in Seq([name : Names, rec : Records, old : Keys \cup {Absent}])

VARIABLES log,      \* the committed states, oldest first
          synced,   \* how many of them are surely on disk
          lock,     \* the thread whose transaction SQLite runs
          writer,   \* writer[s]: who holds the writer mutex
          level,    \* level[s]: the writer connection's synchronous pragma
          idle,     \* idle[s]: reader connections kept for reuse
          th,       \* each thread's call and where it is in it
          calls, faults,
          acked,    \* acked[s]: the last commit a caller of s was told is stored
          warned    \* the stores that answered that FULL could not be put back,
                    \* and have not committed at FULL since

promises == <<acked, warned>>
vars == <<log, synced, lock, writer, level, idle, th, calls, faults, promises>>

EmptyRefs == [n \in Names |-> Absent]
refs == log[Len(log)]
Nothing == [f |-> "none"]
Idle == [pc |-> "idle", op |-> Nothing, tx |-> EmptyRefs, res |-> <<"none">>, at |-> 0]
Answer(t, pc, res) == [th EXCEPT ![t] = [@ EXCEPT !.pc = pc, !.res = res]]
Goto(t, pc) == [th EXCEPT ![t] = [@ EXCEPT !.pc = pc]]

-----------------------------------------------------------------------------
\* points_at on the decoded current record; one that does not decode fails.
points_at(r, n, old) == r[n].key = old
Undecodable(r, n) == r[n] # Absent /\ r[n].key = NoKey

\* if_at: the check, and the statement guarded by the bytes just read.
if_at(tx, op, v) ==
    IF tx[op.name] = Absent THEN [err |-> "NotFound", tx |-> tx]
    ELSE IF Undecodable(tx, op.name) THEN [err |-> "undecodable", tx |-> tx]
    ELSE IF points_at(tx, op.name, op.old) THEN [err |-> "ok", tx |-> [tx EXCEPT ![op.name] = v]]
    ELSE [err |-> "Conflict", tx |-> tx]

\* update_batch's checks, in the code's order: the first that fails decides.
Check(tx, n, fits) ==
    IF Undecodable(tx, n) THEN "undecodable" ELSE IF fits THEN "ok" ELSE "Conflict"

OffCheck(tx, w) == Check(tx, w.name, tx[w.name] = Absent \/ points_at(tx, w.name, w.old))
PubCheck(tx, p) ==
    Check(tx, p.name, IF p.old = Absent \/ tx[p.name] = Absent THEN p.old = tx[p.name]
                      ELSE points_at(tx, p.name, p.old))

Checks(tx, op) == [i \in DOMAIN op.names |-> OffCheck(tx, op.names[i])] \o
                  [i \in DOMAIN op.records |-> PubCheck(tx, op.records[i])]

Empty(op) == op.f \in Batches /\ op.records = <<>> /\ op.names = <<>>
Put(tx, p) == [tx EXCEPT ![p.name] = p.rec]
Delete(tx, w) == [tx EXCEPT ![w.name] = Absent]

\* One statement after the other, in the order of the batch: each sets a name.
SetAll(tx, names, values) ==
    LET upTo[n \in 0 .. Len(names)] ==
            IF n = 0 THEN tx ELSE [upTo[n - 1] EXCEPT ![names[n]] = values[n]]
    IN  upTo[Len(names)]
PutAll(tx, records) == SetAll(tx, [i \in DOMAIN records |-> records[i].name],
                                  [i \in DOMAIN records |-> records[i].rec])
DeleteAll(tx, names) == SetAll(tx, [i \in DOMAIN names |-> names[i].name],
                                   [i \in DOMAIN names |-> Absent])

\* Mutant of update_batch: it publishes before it withdraws.
update_batch_swapped(tx, op) ==
    LET checks == Checks(tx, op)
        bad == {i \in DOMAIN checks : checks[i] # "ok"}
    IN  IF bad # {} THEN [err |-> checks[CHOOSE i \in bad : \A j \in bad : i <= j], tx |-> tx]
        ELSE [err |-> "ok", tx |-> DeleteAll(PutAll(tx, op.records), op.names)]

\* Withdrawals run first, so a name in both ends up published.
update_batch(tx, op) ==
    LET checks == Checks(tx, op)
        bad == {i \in DOMAIN checks : checks[i] # "ok"}
    IN  IF bad # {} THEN [err |-> checks[CHOOSE i \in bad : \A j \in bad : i <= j], tx |-> tx]
        ELSE [err |-> "ok", tx |-> PutAll(DeleteAll(tx, op.names), op.records)]

\* The statements of a call on the state its transaction sees.
Statements(tx, op) ==
    LET gone == tx[op.name] = Absent
        ok(m) == [err |-> "ok", tx |-> m]
        no(e) == [err |-> e, tx |-> tx]
    IN  CASE op.f \in {"put", "put_volatile"} -> ok(Put(tx, op))
          [] op.f \in {"delete", "delete_volatile"} ->
                IF gone THEN no("NotFound") ELSE ok(Delete(tx, op))
          [] op.f = "create" -> IF gone THEN ok(Put(tx, op)) ELSE no("Conflict")
          [] op.f = "compare_and_swap" -> if_at(tx, op, op.rec)
          [] op.f = "compare_and_delete" -> if_at(tx, op, Absent)
          [] op.f = "put_batch" -> ok(PutAll(tx, op.records))
          [] op.f = "update_batch" -> update_batch(tx, op)
          [] op.f = "wipe" -> ok(EmptyRefs)

-----------------------------------------------------------------------------
Init ==
    /\ log = <<EmptyRefs>> /\ synced = 1 /\ lock = NoThread
    /\ writer = [s \in Stores |-> NoThread] /\ idle = [s \in Stores |-> 0]
    /\ level = [s \in Stores |-> IF Sync THEN "FULL" ELSE "NORMAL"]
    /\ th = [t \in Threads |-> Idle]
    /\ calls = 0 /\ faults = 0 /\ acked = [s \in Stores |-> 0] /\ warned = {}

\* A thread makes a call.
Call(t, op) ==
    /\ th[t].pc = "idle" /\ calls < MaxCalls
    /\ calls' = calls + 1
    /\ th' = [th EXCEPT ![t] = [@ EXCEPT !.pc = IF op.f \in Reads THEN "connect" ELSE "mutex", !.op = op]]
    /\ UNCHANGED <<log, synced, lock, writer, level, idle, faults, promises>>

\* A batch of nothing is answered before the mutex.
EmptyBatch(t) ==
    /\ th[t].pc = "mutex" /\ Empty(th[t].op)
    /\ th' = Answer(t, "answered", <<"ok">>)
    /\ UNCHANGED <<log, synced, lock, writer, level, idle, calls, faults, promises>>

\* volatile: a write that changes the durability of the connection for itself.
Lowers(t) == Sync /\ th[t].op.f \in Volatile

\* The writer mutex; a volatile write lowers the connection's durability.
TakeWriter(t) ==
    LET s == StoreOf[t]
    IN  /\ th[t].pc = "mutex" /\ ~Empty(th[t].op) /\ writer[s] = NoThread
        /\ writer' = [writer EXCEPT ![s] = t]
        /\ level' = [level EXCEPT ![s] = IF Lowers(t) THEN "NORMAL" ELSE @]
        /\ th' = Goto(t, "begin")
        /\ UNCHANGED <<log, synced, lock, idle, calls, faults, promises>>

\* It cannot: the call returns the error, with nothing written.
LowerFails(t) ==
    /\ th[t].pc = "mutex" /\ writer[StoreOf[t]] = NoThread /\ Lowers(t)
    /\ faults < MaxFaults /\ faults' = faults + 1
    /\ th' = Answer(t, "answered", <<"failed">>)
    /\ UNCHANGED <<log, synced, lock, writer, level, idle, calls, promises>>

\* Mutant of Begin: a deferred transaction takes no lock until it writes.
BeginDeferred(t) ==
    /\ th[t].pc = "begin"
    /\ th' = [th EXCEPT ![t] = [@ EXCEPT !.pc = "run", !.tx = refs]]
    /\ UNCHANGED <<log, synced, lock, writer, level, idle, calls, faults, promises>>

\* BEGIN IMMEDIATE, or the start of a single statement: the write lock.
Begin(t) ==
    /\ th[t].pc = "begin" /\ lock = NoThread
    /\ lock' = t
    /\ th' = [th EXCEPT ![t] = [@ EXCEPT !.pc = "run", !.tx = refs]]
    /\ UNCHANGED <<log, synced, writer, level, idle, calls, faults, promises>>

\* The lock is not free within the busy timeout.
Busy(t) ==
    /\ th[t].pc = "begin" /\ lock # NoThread
    /\ th' = Answer(t, "end", <<"failed">>)
    /\ UNCHANGED <<log, synced, lock, writer, level, idle, calls, faults, promises>>

\* Mutant of Run: an early return leaves the transaction open.
RunLeaks(t) ==
    /\ th[t].pc = "run"
    /\ LET r == Statements(th[t].tx, th[t].op)
       IN  IF r.err = "ok"
           THEN th' = [th EXCEPT ![t] = [@ EXCEPT !.pc = "commit", !.tx = r.tx, !.res = <<"ok">>]]
           ELSE th' = Answer(t, "end", <<r.err>>)
    /\ UNCHANGED <<log, synced, lock, writer, level, idle, calls, faults, promises>>

\* The statements run.  Whatever ends the call early rolls back.
Run(t) ==
    /\ th[t].pc = "run"
    /\ LET r == Statements(th[t].tx, th[t].op)
       IN  IF r.err = "ok"
           THEN th' = [th EXCEPT ![t] = [@ EXCEPT !.pc = "commit", !.tx = r.tx, !.res = <<"ok">>]]
                /\ UNCHANGED lock
           ELSE th' = Answer(t, "end", <<r.err>>) /\ lock' = NoThread
    /\ UNCHANGED <<log, synced, writer, level, idle, calls, faults, promises>>

\* The commit; at FULL the log is synced, and all of it with it.
Commit(t) ==
    /\ th[t].pc = "commit"
    /\ log' = Append(log, th[t].tx)
    /\ synced' = IF level[StoreOf[t]] = "FULL" THEN Len(log) + 1 ELSE synced
    /\ lock' = NoThread
    /\ th' = [th EXCEPT ![t] = [@ EXCEPT !.pc = "end", !.at = Len(log) + 1]]
    /\ warned' = IF level[StoreOf[t]] = "FULL" THEN warned \ {StoreOf[t]} ELSE warned
    /\ UNCHANGED <<writer, level, idle, calls, faults, acked>>

\* It fails: the transaction is rolled back and the call returns the error.
CommitFails(t) ==
    /\ th[t].pc \in {"run", "commit"} /\ faults < MaxFaults
    /\ faults' = faults + 1
    /\ lock' = NoThread
    /\ th' = Answer(t, "end", <<"failed">>)
    /\ UNCHANGED <<log, synced, writer, level, idle, calls, promises>>

\* Mutant of LetWriterGo: the durability is put back after a write that went
\* well only.
LetWriterGoEarly(t) ==
    LET s == StoreOf[t]
    IN  /\ th[t].pc = "end"
        /\ writer' = [writer EXCEPT ![s] = NoThread]
        /\ level' = [level EXCEPT ![s] = IF Lowers(t) /\ th[t].res = <<"ok">> THEN "FULL" ELSE @]
        /\ th' = Goto(t, "answered")
        /\ UNCHANGED <<log, synced, lock, idle, calls, faults, promises>>

\* volatile puts the durability back, and the mutex is let go.
LetWriterGo(t) ==
    LET s == StoreOf[t]
    IN  /\ th[t].pc = "end"
        /\ writer' = [writer EXCEPT ![s] = NoThread]
        /\ level' = [level EXCEPT ![s] = IF Lowers(t) THEN "FULL" ELSE @]
        /\ th' = Goto(t, "answered")
        /\ UNCHANGED <<log, synced, lock, idle, calls, faults, promises>>

\* It cannot: the connection stays at NORMAL, and that error is the answer,
\* whatever came of the write.
RestoreFails(t) ==
    LET s == StoreOf[t]
    IN  /\ th[t].pc = "end" /\ Lowers(t)
        /\ faults < MaxFaults /\ faults' = faults + 1
        /\ writer' = [writer EXCEPT ![s] = NoThread]
        /\ th' = Answer(t, "answered", <<"failed">>)
        /\ warned' = warned \cup {s}
        /\ UNCHANGED <<log, synced, lock, level, idle, calls, acked>>

\* read: an idle connection or a new one, which may not be had.
Connect(t) ==
    LET s == StoreOf[t]
    IN  /\ th[t].pc = "connect"
        /\ idle' = [idle EXCEPT ![s] = IF @ > 0 THEN @ - 1 ELSE 0]
        /\ \/ th' = Goto(t, "read")
           \/ idle[s] = 0 /\ th' = Answer(t, "answered", <<"failed">>)
        /\ UNCHANGED <<log, synced, lock, writer, level, calls, faults, promises>>

\* Mutant of Read: a read that fails is tried again on another connection.
ReadRetries(t) ==
    LET op == th[t].op
    IN  /\ th[t].pc = "read"
        /\ \/ /\ op.f = "all"
              /\ th' = Answer(t, "give", <<"found", refs>>)
           \/ /\ op.f = "get"
              /\ th' = Answer(t, "give", IF refs[op.name] = Absent THEN <<"NotFound">>
                                         ELSE <<"found", refs[op.name]>>)
           \/ th' = Goto(t, "connect")
        /\ UNCHANGED <<log, synced, lock, writer, level, idle, calls, faults, promises>>

\* One statement reads one snapshot.
Read(t) ==
    LET op == th[t].op
    IN  /\ th[t].pc = "read"
        /\ \/ /\ op.f = "all"
              /\ th' = Answer(t, "give", <<"found", refs>>)
           \/ /\ op.f = "get"
              /\ th' = Answer(t, "give", IF refs[op.name] = Absent THEN <<"NotFound">>
                                         ELSE <<"found", refs[op.name]>>)
           \/ th' = Answer(t, "answered", <<"failed">>)
        /\ UNCHANGED <<log, synced, lock, writer, level, idle, calls, faults, promises>>

\* The connection goes back into the pool, unless that is full.
Give(t) ==
    /\ th[t].pc = "give"
    /\ idle' = [idle EXCEPT ![StoreOf[t]] = IF @ < MaxIdle THEN @ + 1 ELSE @]
    /\ th' = Goto(t, "answered")
    /\ UNCHANGED <<log, synced, lock, writer, level, calls, faults, promises>>

Return(t) ==
    LET h == th[t]
        s == StoreOf[t]
    IN  /\ h.pc = "answered"
        /\ th' = [th EXCEPT ![t] = Idle]
        /\ acked' = IF h.op.f \notin Reads \cup Volatile /\ h.at > acked[s]
                    THEN [acked EXCEPT ![s] = h.at] ELSE acked
        /\ UNCHANGED <<log, synced, lock, writer, level, idle, calls, faults, warned>>

-----------------------------------------------------------------------------
\* A process dies: SQLite rolls its transaction back.  The next store of that
\* name is a fresh one.
Crash(s) ==
    LET dead == {t \in Threads : StoreOf[t] = s}
    IN  /\ faults < MaxFaults /\ faults' = faults + 1
        /\ th' = [t \in Threads |-> IF t \in dead THEN Idle ELSE th[t]]
        /\ lock' = IF lock \in dead THEN NoThread ELSE lock
        /\ writer' = [writer EXCEPT ![s] = NoThread]
        /\ level' = [level EXCEPT ![s] = IF Sync THEN "FULL" ELSE "NORMAL"]
        /\ idle' = [idle EXCEPT ![s] = 0]
        /\ UNCHANGED <<log, synced, calls, promises>>

\* The machine goes down: of the commits that were never synced, the last
\* ones may be gone; what is left is on disk.
PowerLoss ==
    /\ faults < MaxFaults /\ faults' = faults + 1
    /\ \E n \in synced..Len(log) :
          /\ log' = SubSeq(log, 1, n) /\ synced' = n
          /\ acked' = [s \in Stores |-> IF acked[s] > n THEN n ELSE acked[s]]
    /\ warned' = {}
    /\ th' = [t \in Threads |-> Idle] /\ lock' = NoThread
    /\ writer' = [s \in Stores |-> NoThread] /\ idle' = [s \in Stores |-> 0]
    /\ level' = [s \in Stores |-> IF Sync THEN "FULL" ELSE "NORMAL"]
    /\ UNCHANGED calls

Step(t) ==
    \/ EmptyBatch(t) \/ TakeWriter(t) \/ Begin(t) \/ Busy(t) \/ Run(t) \/ Commit(t)
    \/ LetWriterGo(t) \/ Connect(t) \/ Read(t) \/ Give(t) \/ Return(t)

Fails(t) == CommitFails(t) \/ LowerFails(t) \/ RestoreFails(t)

Stopped == calls = MaxCalls /\ (\A t \in Threads : th[t].pc = "idle") /\ UNCHANGED vars

Next ==
    \/ \E t \in Threads : Step(t) \/ Fails(t) \/ \E op \in Ops : Call(t, op)
    \/ \E s \in Stores : Crash(s)
    \/ PowerLoss \/ Stopped

\* Threads go on; a mutex is handed on to a waiter that is starved by none.
Fairness == \A t \in Threads : WF_vars(Step(t)) /\ SF_vars(TakeWriter(t))

Spec == Init /\ [][Next]_vars
FairSpec == Spec /\ Fairness

-----------------------------------------------------------------------------
\* A thread has acted once it committed, or its answer is fixed; a volatile
\* write then puts the durability back.
AbsCall(h) ==
    IF h.pc = "idle" THEN [st |-> "idle"]
    ELSE IF h.pc \in {"connect", "read", "mutex", "begin", "run", "commit"}
         THEN [st |-> "called", op |-> h.op]
    ELSE IF h.pc = "end" /\ h.op.f \in Volatile /\ h.res # <<"failed">>
         THEN [st |-> "acted", res |-> h.res]
    ELSE [st |-> "answered", res |-> h.res]

Abstract == INSTANCE RefMap WITH call <- [t \in Threads |-> AbsCall(th[t])]

\* Every call of every thread of every process acts at one moment on one map,
\* with the answer that map gives, or fails and changes nothing: no lost
\* update, no torn batch, no compare that overwrites somebody's move.  Only a
\* volatile write may have acted and answer the error of restoring FULL.
ImplementsRefMap == Abstract!Spec

\* What a caller was told is stored survives the machine going down, though
\* volatile writes share the connection and lower its durability meanwhile,
\* and whatever other processes do to theirs.  Only a store that has answered
\* that FULL could not be put back owes it again after its next commit at FULL
\* (volatile: "A connection left at NORMAL would drop the fsync of every later
\* commit, so this error wins over the write's own").
AckedDurable == Sync => \A s \in Stores \ warned : acked[s] <= synced

\* "SQLite's write lock must never outlive this call, or it would wedge every
\* writer in every process."
LockInsideCall == lock # NoThread => th[lock].pc \in {"run", "commit"}

Maps == [Names -> Records \cup {Absent}]
Results == {<<e>> : e \in {"none", "ok", "failed", "NotFound", "Conflict", "undecodable"}} \cup
           {<<"found", m>> : m \in Maps} \cup {<<"found", r>> : r \in Records}
Frames == [pc : {"idle", "mutex", "begin", "run", "commit", "end", "connect", "read", "give",
                 "answered"},
           op : Ops \cup {Nothing}, tx : Maps, res : Results, at : Nat]

\* The history holds whole maps and is synced up to some commit, the pool stays
\* within its limit, every call is in one of its steps.
TypeOK ==
    /\ log \in Seq(Maps) /\ synced \in 1 .. Len(log)
    /\ acked \in [Stores -> 0 .. Len(log)] /\ warned \in SUBSET Stores
    /\ lock \in Threads \cup {NoThread} /\ writer \in [Stores -> Threads \cup {NoThread}]
    /\ level \in [Stores -> {"FULL", "NORMAL"}] /\ idle \in [Stores -> 0 .. MaxIdle]
    /\ th \in [Threads -> Frames] /\ calls \in Nat /\ faults \in Nat

HasWriter(t) == th[t].pc \in {"begin", "run", "commit", "end"}

\* A call between its two ends has its store's mutex, and SQLite's lock while
\* its transaction is open.
LockInv(t) == /\ HasWriter(t) => writer[StoreOf[t]] = t
              /\ th[t].pc \in {"run", "commit"} <=> lock = t

\* The connection is at FULL but for the length of a volatile write, so that
\* every other commit was synced as it was made, unless FULL could not be put
\* back.
LevelInv(t) ==
    /\ th[t].at <= Len(log)
    /\ Sync /\ th[t].op.f \notin Volatile /\ StoreOf[t] \notin warned =>
          th[t].at <= synced /\ (HasWriter(t) => level[StoreOf[t]] = "FULL")

\* A transaction works on the map as it stands, since nobody commits under it.
CallInv(t) ==
    /\ th[t].pc = "idle" => th[t] = Idle
    /\ th[t].pc \in {"mutex", "begin", "run", "commit"} => th[t].op \in Ops /\ th[t].op.f \notin Reads
    /\ th[t].pc \in {"connect", "read"} => th[t].op \in Ops /\ th[t].op.f \in Reads
    /\ th[t].pc = "run" => th[t].tx = refs
    /\ th[t].pc = "commit" => /\ th[t].res = <<"ok">>
                              /\ Statements(refs, th[t].op) = [err |-> "ok", tx |-> th[t].tx]

\* The inductive invariant of the store: together these hold in every state,
\* though two processes, a failing commit or a crash interleave.
IInv ==
    /\ TypeOK /\ AckedDurable
    /\ \A s \in Stores \ warned : Sync /\ writer[s] = NoThread => level[s] = "FULL"
    /\ \A t \in Threads : LockInv(t) /\ LevelInv(t) /\ CallInv(t)

\* Every call returns.
CallsReturn == \A t \in Threads : th[t].pc # "idle" ~> th[t].pc = "idle"
=============================================================================
