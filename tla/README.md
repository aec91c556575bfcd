# A TLA+ model of amber-store core

This directory models the concurrent and crash-prone parts of the store in `src/src`:
how several processes write, mark, sweep and compact one directory of
content-addressed segments, how a segment file survives crashes and power losses, how
references are kept, and how stored objects are encoded and read. TLC checks small
instances. TLAPS proves the safety of the first three for every value of the constants.

## The system

A **store** (`packstore/`) is a directory of segment files ("packs"). Objects are
appended as records to an *active* segment, which one process owns through a flock
and which is *sealed* (footer, fsync, rename) once it is full. Beside it lies a
*sidecar*, never synced, that lists the records and how far they were synced. Every
process that opens the directory maps the sealed segments and reads along the other
processes' active ones: its *view*. A write first looks for a copy in the view
(`has_durably`) and appends only if there is none. A **reference store**
(`refstore/`) keeps named records in SQLite. A **collector** (`gc/`) marks what the
references reach and lets `compact` copy the live records out of segments with dead
ones and delete those. Four mechanisms keep all this apart:

| mechanism | code | what it excludes |
|---|---|---|
| the gate, `gc.lock` | `packstore/gate.rs` | write spans of one process and sweeps of another; stale views |
| the reference lock | `gc/collector.rs` (an `RwLock`) | reference PUTs and the snapshot or sweep of the same process |
| the write barrier | `packstore/barrier.rs` | the loss of what is written or referenced during a mark |
| compact's pause | `Gate::pause_local` | writers of the same process that bypass the collector |

`PROJECT.json` lists every component, modelled or not, every hazard at its line, and
for every definition the lines it stands for.

## Modules

| module | models | state and actions |
|---|---|---|
| `SweepLock` | what the gate promises | `mode` of a store (out, write, sweep), the directory, the views |
| `Gate` | `packstore/gate.rs` | a variable per field of `State`, the flock and the generation in the file; one action per critical section, flock call or file access |
| `Collector` | `gc/collector.rs`, `gc/cycle.rs`, `packstore/barrier.rs`, `markset.rs`, `compact.rs`, the write path of `packstore/mod.rs` | the packs and what they hold, references, the grey set, the writers and the cycle of each process, over the variables of `SweepLock` |
| `Durable` | what a segment promises | the keys that can be read, those no power loss takes, those acknowledged |
| `Recovery` | `packstore/recover.rs`, `recover_sidecar.rs` | functions of the two files: what recovery trusts, verifies and scans |
| `Segment` | `packstore/mod.rs`, `active.rs`, `sidecar.rs`, `view.rs` | one segment file and its sidecar, in the page cache and on the disk; its owner; a store that reads along |
| `RefMap` | what the reference store promises | a map, and each thread's call: called, answered |
| `RefStore` | `refstore/` | the commits, how many are synced, SQLite's write lock, each store's writer mutex, durability level and reader pool, each thread's place in its call |
| `Cbor`, `FxDecode`, `CborGrammar` | `fstree/fx.rs` | the well-formedness check and the typed decoders, over tokens; the grammar they are compared with |
| `CborWrite`, `TreeCodec` | `fstree/encode.rs`, `decode.rs`, `scan.rs` | directory objects: encoders, decoders and the scan that answers a lookup without decoding |
| `RefDecode`, `MetaDecode`, `RecordCodec` | `reference.rs`, `inbox.rs`, `commit.rs` | the private readers of references and pack headers, validation, the canonical comparison |
| `ObjectCodec` | | a document of any of the five kinds, and edits of it |
| `IndexSearch`, `FooterBounds` | `packstore/footer.rs` | the search of the index section; the arithmetic on the trailer and the rows |
| `MissingPlan` | `packstore/missing.rs` | how the bulk absence check cuts its list |
| `MCGate`, `MCCollector`, `MCSegment`, `MCRefStore`, `MCObjectCodec` | | instances for TLC |
| `GateProofs`; `CollectorWriterProofs`, `CollectorProofs`; `SegmentFileProofs`, `SegmentStepProofs`, `SegmentProofs`; `RefStoreProofs`; `LookupProofs` | | the proofs |

`Collector` is composed with the gate through `SweepLock`: it uses `SweepLock`'s
actions (`SL!BeginWrite`, `SL!Unlink`, ...) on the same `mode`, `dir` and `view`, and
`Gate` is proved to implement `SweepLock`. An operator whose comment describes a wrong
behaviour ("a PUT that leaves the barrier out") is a mutant: `PROJECT.json` names the
definition it stands in for and the property that then fails.

### Gate

`begin_shared`, `begin_exclusive`, `end_shared`, `end_exclusive`, `pause_local` and
`resume_local` are cut at the points where the mutex is let go: the waits, the polls
of the flock, and the file accesses between. `BusyStep`'s destructor is
`FailShared`/`FailExclusive`; a closed gate makes every wait give up (`GiveUp`).
Writers change the directory by `Create`, sweeps by a removal in several steps: `Detach`
takes the segments out of the view, then each file is unlinked (`Unlink`) or
stays because its unlink failed (`UnlinkFails`). Until the last one a removal holds
the append lock and the refresh lock (`Removing`), so that no listing of the same
store maps a detached segment again; `ReaderRefresh`, a lookup's listing, takes the
refresh lock and nothing of the gate. `Restart` is the death of a process,
which releases its flock, and the open that follows. Calls may be nested (`Outer`), as
writes are inside a reference PUT; sweeps of one store may overlap, as `compact` does
with a cycle.

### Collector

A writer is either a `Put` (a collector's span: reference lock, gate, writes, the
completeness walk, `observe_keys`, the reference itself) or a `Direct` (`Store::put`).
A write is three steps, `Observe`, the duplicate check, and the append, since other
threads run between them. A cycle takes the reference lock and the gate, starts the
barrier, reads the roots, gives the reference lock back, marks one link at a time,
takes the reference lock again, and runs `compact`: it picks the victims, copies what
lives in them, detaches all of them from the view and unlinks them one by one, any of
which may fail. Every step may fail or be
cancelled where the code's can. A pack is the set of keys it has records of; `LinksOf`
gives an object's links as `fstree::links` reads them, each saying whether its target
is a leaf, because two links to one git object may disagree. The horizon and the
thresholds of `select_victims` are a free choice of victims. There is no page cache
here: a copy is durable once made, so what the runs and theorems show of `compact` is
that copies come before unlinks, not that their fsync does. Durability is `Segment`'s.

### Segment

The data file is a sequence of records (the keys they were written under), torn bytes
and footers; offsets count records. `durable` is how much of it the disk was told to
keep, `dropped` the pages a failed fsync threw away, `stale` what the disk may have of
a sidecar that was since cut back. `own` holds the fields of `ActiveWriter` and the
owner's place in its operation: an append is `Write`, `WriteEntry`, and for a put
`Fsync` and `MarkSynced`; a seal is `WriteFooter`, `FsyncFooter`, `Rename`, `FsyncDir`;
between any two the process may die. `Adopt` is the next owner, which runs `Recover`.
The reader takes the sidecar and the data in two steps (`ReadSidecar`, `ReadData`).
`PowerLoss` keeps any part of what was not synced.

The constant `Faults` says what may go wrong besides crashes and power losses: writes
to the data file or the sidecar, fsyncs and renames, and that a failed fsync drops
dirty pages. Two more members describe machines the code cannot cope with: "retry" (a
file whose pages a failed fsync dropped is adopted again in the same boot, and the
cached bytes look whole) and "reorder" (a footer reaches the disk before records
written before it). With either, TLC finds an acknowledged record lost. No run and no
theorem includes them; both are listed as hazards.

### RefStore

`log` is the sequence of committed maps; a power loss cuts it anywhere behind `synced`.
A writing call takes its store's mutex, a volatile one of a syncing store lowers the
connection's durability; it takes SQLite's write lock, runs its statements, commits or
rolls back, puts the durability back and lets the mutex go. Both PRAGMA statements may
fail. A failure to lower (`LowerFails`) ends the call with nothing written. A failure
to put FULL back (`RestoreFails`) leaves the connection at NORMAL and is the answer of
the call, whether the write was made or not; `RefMap` allows that (`Settle`: a call
that acted answers with its result or with an error). The store is then `warned`:
somebody heard that its commits are no longer synced. A later commit at FULL, which
syncs all of the log, or a power loss ends that. `AckedDurable` is about the stores
that are not warned. A reading call takes a pooled connection or a new one, reads one
snapshot and returns the connection if there is room. SQLite is external: immediate transactions exclude each other, a commit at FULL syncs the log, a
dead process is rolled back. A record is the key it points at; one that does not decode
has `NoKey`. Left out: the number of rows that `update_batch` returns.

### Objects

A document is a sequence of tokens, a head each: its type, its number or contents, and
whether it is of definite length, cut short or badly written. `ObjectCodec` starts from
the encoding of an object and edits it: a token is replaced, inserted or dropped, and
what comes in may be an item of several tokens, a bignum or a container at or just over
its cap (`EditItems`). `MaxArray` and `MaxMap` are the caps of `DECODE_WF`, 131072 in
the code. The reader of references has none ("are not replicated",
`port-notes/reference.md`), so `RefAgrees` asks for the same verdict within the caps;
over them it asks that the decoder as a whole refuses the document, as not canonical.
`encode_dir_leaf` and `encode_dir_node` also sum up key lengths and parse the children's
keys, and there are file nodes; those are left out.

## Runs

| run | checks | instance |
|---|---|---|
| `gate_stores` | sweeps exclude other stores' spans and sweeps; a span's view has only existing segments; a sweep starts from the whole directory and loses from its view only what it removes itself; the inductive invariant; `Gate` implements `SweepLock` | two stores, a span and a sweep each |
| `gate_threads` | compact runs alone; no wakeup is lost; nested spans and ends of sweeps never wait | a nested span, two overlapping sweeps with a pause, and another store |
| `gate_live` | a span that waits gets in, or returns an error | two stores |
| `gate_close` | finds that a close at any moment breaks the views (see Findings) | three stores |
| `collector_local` | the inductive invariant; no reference dangles | one process, git trees with disagreeing links |
| `collector_direct` | no reference dangles; no acknowledged write is swept within its span | one process, a PUT and a direct writer |
| `collector_stores` | the same across processes | two collectors, a PUT in one of them |
| `collector_live` | PUTs get the gate and cycles give it back | two processes |
| `segment_owners` | what was acknowledged stays readable; no index is wrong about a record; no synced mark covers what the disk may not have; the inductive invariant; `Segment` implements `Durable` | two keys, a segment of two records, all faults but the two above |
| `segment_reader` | the first two with a store that reads along | the same without faults other than crashes and power losses |
| `refstore` | the inductive invariant; what was acknowledged is synced, unless the caller was warned; the write lock stays inside a call; `RefStore` implements `RefMap`; every call returns | two processes, two names, twelve calls of every kind to choose three from, one fault |
| `object_codec` | the iterative check accepts the grammar; a decoder consumes one item; what is written is read back; one record has one document; signatures cover the rest; three readers agree; a scanning lookup answers as a decoding one | one to seven objects of each kind, leaves of two entries included, with one or two edits |

**Bounds.** `MaxGen` bounds the generation, a counter of sweeps: a bump past it fails as
a failing write of the file does. Two stores suffice for the races the gate is about,
which are pairwise: a sweep and what it must exclude; the finding needs a third.
`Packs` bounds the segment files in use at once and `Fills` whether an append may fill
its segment; `Mortal` says which processes may die. Three packs let one be a victim,
one hold the copies and one be written to. Two keys, a tree and its blob, are enough
for a dangling reference. In `Segment`, two records let one be synced and the other
not, one be lost and the other not, and an append fill the segment; `MaxSidecar` bounds
the sidecar by holding back a sync or a close that would only add another mark. In
`RefStore`, `MaxCalls`
and `MaxFaults` bound the behaviour: two calls that race and one that sees the result.
`MCObjectCodec` has bytes 0..7 and keys of one byte; `MaxInt`, `MaxNested`, `MaxArray`
and `MaxMap` stand for the limits of the decoder. `MaxMap` leaves room for the seven
fields of a commit with a conflict, `MaxArray` for its three labels; documents over
either cap are among the edits.
Packs that do not exist at the start (`NewPacks`) and keys (`AnyKey`) are
interchangeable; the symmetry is only used in runs without liveness.

**Deadlock** is checked in every run but `object_codec`, where a document that has had
its edits is final.

**Fairness.** Threads that can take a step take it, and callers end their spans and
sweeps: weak fairness per step, strong where several threads of one store compete for
a mutex or wait for a condition that comes and goes. A poll of the flock by a span
succeeds if the lock is free again and again, because `yield_to_writers` keeps a store
that has just swept away from the lock for two polls' worth. That is an assumption
here, for the model has no clock: `SpanServed` finds a missing wakeup or release, not a
missing yield. Nothing in the code gives
a *sweep* the same: `SpanServed` is therefore conditional on no sweep polling for ever,
and `SweepEnds` speaks of a cycle that has the gate. In `RefStore` every thread goes
on, and a waiter for the writer mutex is not passed over for ever; a failed commit, a
crash and a power loss are never required.

## What is proved

The theorems hold for every value of the constants that satisfies the named
assumptions; TLC evaluates those of the models on each run. All of the invariants
below are also checked by runs, except those of `LookupProofs`: the index search, the
footer and the plan.

**Gate** (`GateProofs`). `GateInvariant`: `IInv` always holds. From it the types and the
safety properties of the first two runs (`SweepIsExclusive`, `CompactionIsAlone`,
`SpanViewsAreLive`, `SweepViewsAreComplete`, `NoWakeupIsLost`, `NestedSpansNeverWait`,
`EndsNeverWait`), and `GateImplementsSweepLock`: each step of the gate is a step of
`SweepLock` or leaves its variables alone. Assumptions: `CallsAssumption` (calls belong
to stores and nest one deep) and `MaxGenAssumption`. No property is inductive alone;
`IInv` adds what the code relies on without saying so:

- `CountInv`: `shared` and `exclusive` are the numbers of calls past the point that
  counts them. "Number" is a numbering of the calls (`HasSize`), so that the proofs need
  no theory of cardinality: a step adds or drops one call.
- `BusyInv`, `BlockedInv`: at most one thread of a store takes the file lock, at most
  one keeps spans out, and the flags say so.
- `FlockInv`: what the store believes of the flock is what it holds, and it excludes.
- `ViewInv`: a store whose generation is the file's has no segment mapped that is gone,
  and while a store sweeps every other store's generation differs from the file's.
- `RemovalInv`: a removal runs within a sweep of an open store, and what it has detached
  stays out of that store's view until it is unlinked.
- `NestInv`: an outer call is in flight while an inner one is.

There is a lemma per action, with a step per conjunct. The refinement maps a store to
"sweep" or "write" by the calls it has in flight; a span that joins others is a stutter.

**Collector** (`CollectorWriterProofs`, `CollectorProofs`). `CollectorInvariant`,
`ReferencesNeverDangle`, `SpanWritesStay`, for any processes, writers, packs and graph
of links. `IInv` says that the locks exclude, that what a PUT has walked is there and,
while the barrier is on, captured, that victims are neither written to nor idle, and
follows each reference through a cycle (`CoverInv`): from the snapshot on, its tree is
captured or reachable from what is yet to be marked; then marked; then in packs that
are not victims. `DetachedInv` adds that no listing maps a victim again between its
leaving the view and its unlink. The closure of a root is the least set closed under following links,
which is what makes the argument independent of the order of the mark.

**Segment** (`SegmentFileProofs`, `SegmentStepProofs`, `SegmentProofs`).
`SegmentInvariant`, `AckedStaysStored`, `IndexStaysRight`, `MarksStayDurable` and
`SegmentImplementsDurable`, with or without a reader, for any keys, segment size and
set of faults without "retry" and "reorder": those two are hypotheses of the theorems.
The invariant strengthens the claims in three ways:

- `SidecarInv`: below any synced mark that can still be read, in the sidecar, in its
  remains on the disk or in a view, there are only records, all on the disk, and every
  entry there is right. That is what allows recovery to trust entries unread.
- `OwnInv`: the owner's index is all of the records up to the first thing that is none,
  and a sidecar it writes lists nothing else; with sync on and nothing deferred it is
  all on the disk.
- `FileInv`, `StepInv`: a footer is the last thing in a file and indexes what is before
  it; a sealed name means a durable footer; dropped pages mean that the owner is gone
  or has poisoned itself.

Acknowledged keys are then within `Safe`: on the disk, behind nothing but records.
`SegmentFileProofs` first shows what `Advance` and `Recover` return on two files that
satisfy this, by induction on the sidecar's records (as a least counterexample).

**RefStore** (`RefStoreProofs`). `RefStoreInvariant`, `AckedStaysDurable`,
`LockStaysInsideCall` and `RefStoreImplementsRefMap`, for any threads, stores, names,
records and calls that satisfy `RefAssumption` and `OpsAssumption` (the arguments have
their types, and nobody expects the key of a record that does not decode). `IInv` says
that a call between its ends has its store's mutex, and SQLite's lock exactly while its
transaction is open; that the connection of a store that was not warned is at FULL except during a volatile
write; and that a transaction sees the map as it stands, because nobody commits under it. The
refinement has a call act when it commits, or when its answer is fixed. Its core is
that statements run one after the other (`SetAll`) come to what the batch as a whole is
promised to do (`RefMap!BatchApplied`): the last record of a name counts, withdrawals
come first.

**Footer, index and plan** (`LookupProofs`). `SearchIsExact` and `SearchStaysInside`:
the search finds a key exactly when a well-formed index has it, and never leaves the
rows of one whose fanout was accepted, well formed or not. `FooterTiles`: the sections
of an accepted trailer tile the file, though every sum, difference and product may
wrap. `SpansStayInBody`: the slice taken for a row of the index is as long as its
record and lies in the body, whatever the row says, because neither the difference in
the check nor the sum that ends the slice wraps.
`ChunksPartition`: the chunks of the absence check cover each position once. No run
checks these; the theorems carry their assumptions as hypotheses (`IndexAssumption`,
`FooterAssumption`, `PlanAssumption`).

### Only model-checked

- Liveness: `SpanServed`, `PutServed`, `SweepEnds`, `CallsReturn`. Fairness and ENABLED
  are beyond the prover.
- Everything about `ObjectCodec`: readers and grammar are recursive over documents, and
  what a recursive definition computes for every input takes an induction over data that
  the installed provers cannot do.
- The finding `gate_close`, which is a counterexample.

## Findings

`gate_close`: `Gate::close` (`gate.rs:431`) unlocks the file whatever another thread
of the store is doing. A sweep between taking the lock and writing the generation then
writes it without the lock ("The caller holds the file lock exclusively.",
`gate.rs:169`) and may write a generation back that another store has moved on from;
a span of a third store whose view is good for that generation keeps a reaped segment
mapped. `Gate`'s `Spec`, which the other runs and the proofs use, closes a store only
when no bump is under way.

## Not modelled

The mapped definitions stand for about a sixth of the code. Left out, with the reasons
in `PROJECT.json`:

- state machines that would be worth a module: the inbox's staging and recovery, repair,
  the migration from older databases, the threads of one store over one segment, the
  re-listings of a refresh, the claiming of active segments by several stores;
- the writer of the index section and the membership filter in front of it;
- the collector's background loop, status and policy;
- single-threaded conversions: chunkers, keys, tree building, git objects, the wire
  pack, tar, ingest, ignore rules, and the command-line examples. The models take what
  they yield, keys and links, as given.
