# LSTAndroid: TLA+ models and proofs

LSTAndroid stores the places a phone has been to in a spatio-temporal index and derives context
from them.  Its storage runs on a copy of Android's SQLite binding (package
`org.sqlite.database.sqlite`) with the R*Tree module compiled in, and that binding carries most of
the program's control logic: a pool of native connections shared by all threads, sessions with
nested transactions, a cache of prepared statements, reference-counted closing.  Under it the
amalgamated SQLite library in `app/jni` decides what survives a crash and who may read while another
writes: its pager, its write-ahead log, its file locks and its R*-tree.  Around it are the
location service, the two index tables, and a publish/subscribe engine ("paco") that runs context
abstractions ("cabs") as Android services.

This directory holds TLA+ modules translated from that code, TLC configurations that check them on
small instances, and TLAPS proofs.  Paths below are relative to the repository; `sqlite/` stands for
`src/app/src/main/java/org/sqlite/database/sqlite/`, and a bare number after `sqlite3.c` is a line of
`src/app/jni/sqlite/sqlite3.c`.

## 1. Inventory

| Part | State | Operations | What is hard about it |
|---|---|---|---|
| Connection pool (`sqlite/SQLiteConnectionPool.java`) | open flag, configuration, available primary and non-primary connections, acquired connections with a status, priority queue of waiters, pool of waiter objects, leak flag | acquire, release, shouldYield, close, reconfigure, onConnectionLeaked; inside: hand-over to waiters, cancellation | threads park outside of the lock; a connection is handed over by another thread; close, cancel, timeout, interruption and reconfiguration race with the hand-over; waiter objects are reused; connections leak and are finalized |
| Session (`sqlite/SQLiteSession.java`) | one per thread: connection with a use count, stack of transactions | begin, mark successful, end, yield, prepare/execute with acquire and release around | nested transactions whose failure must reach the outermost; failure between two steps of begin, end or yield |
| Connection (`sqlite/SQLiteConnection.java`) | native handle, LRU cache of prepared statements, operation log, attach count of the cancellation signal | open, reconfigure, prepare, execute, dispose, finalize | re-entrant use of a cached statement, eviction while a statement runs, failing reset |
| Database, open helper, closable (`sqlite/SQLiteDatabase.java`, `SQLiteOpenHelper.java`, `SQLiteClosable.java`) | pool reference, reference counts, thread-local sessions, "initializing" flag | open, close, enable/disable WAL, getDatabase, acquire/releaseReference | reference counts under repeated close; failure in the middle of create or upgrade |
| Cursor, statement, query classes (`sqlite/SQLiteCursor.java`, `SQLiteProgram.java`, ...) | bind arguments, window position | fill window, move, bind, execute | mostly data plumbing over the session |
| Index tables (`lstrtree/SQLiteRTree.java`, `SQLiteNaive.java`, `DBInit.java`) | one table each | insert, clear, range, nearest neighbour, sequence | the expanding search of nearestNeighbor; clear while in use |
| Location service (`lstrtree/LocationPoll.java`) | connected flag, update request, index | start command, connect callback, location callback, stop | commands and callbacks in any order |
| Index receiver, cloud filter, content helper (`lstrtree/LSTIndexReceiver.java`, `CloudFilter.java`, `writable/`) | reference to the index | broadcast handlers | little state |
| Paco engine (`contextengine/PacoEngine.java`) and cab base class (`pacolib/Cabs.java`) | subscriptions per sensor and per cab, registered receivers | start command, registration messages, sample forwarding, destroy | everything is an asynchronous broadcast; services start in any order, restart and lose their subscriptions |
| Cabs (`contextengine/cabs/*`) | latest samples, counters | onNext of their inputs, HTTP or broadcast callbacks | replies that arrive out of order |
| Benchmarks and evaluations (`lstrtree/evals`, `benchmark`), activities, demo application | none of lasting interest | drive the above | none |
| Pager and rollback journal (`sqlite3.c` 41000-47500) | page cache and states of a connection, journal, savepoints | read and write transactions, spill, commit in two phases, rollback, recovery from a hot journal | the order of syncs; a crash anywhere, also during recovery; other processes at any lock operation; caches that outlive a transaction |
| Write-ahead log (`sqlite3.c` 48000-51400) | log file, shared index with two headers, read marks and backfill count | snapshots, commits, savepoints, checkpoints, restart of the log, recovery, close | shared memory is read without locks; readers, a checkpointer and a writer that restarts the log; crash recovery |
| File locks (`sqlite3.c` 25800-26800, 30000-30700) | a record of locks per process and file, deferred descriptors | lock, unlock, check reserved, open, close | POSIX locks belong to processes and are dropped by any close |
| R*Tree module (`sqlite3.c` 147400-150400) | three tables: nodes, parents, rowids | insert, replace, update, delete, query | splits, forced reinsertion and condensing on several levels; parent pointers in memory and in a table; rounding to floats |
| Rest of `app/jni` | B-tree, virtual machine, compiler, full-text search; JNI glue | | layers called in sequence between the ones above |

How they interact: an application thread calls `SQLiteDatabase`, which gives it its thread-local
`SQLiteSession`; the session acquires a `SQLiteConnection` from the shared `SQLiteConnectionPool` for
one statement or for a whole transaction and releases it afterwards.  The pool calls back into
`SQLiteConnection` (open, reconfigure, close) and is called by its finalizer.  A native connection runs
SQL through the R*Tree module and the B-tree on a pager, which uses the file locks and either a rollback
journal or a write-ahead log; connections meet there through files, locks and shared memory only.  The
index tables use
`SQLiteDatabase` through `SQLiteOpenHelper`; the location service feeds them; cabs query them by
ordered broadcasts.  PacoEngine and cabs exchange registrations and samples by broadcasts.

Properties that make each part correct are given with its module below, and for the parts not yet
modelled in the plan (section 11).

How the modules depend on each other: `ConnectionPool` implements `PoolInterface`, on which `Session`
is built, which implements `Transactions`.  `Pager` implements `AtomicStore`; its locks are atomic
steps, as `FileLock` has them, and `UnixLock` implements `FileLock`.  `Wal` and `RTree` stand alone.

## 2. ConnectionPool

### State and actions

The variables carry the names of the fields.  `mAcquiredConnections` is the weak map from connections
to a status; `conn` holds for each connection object whether its native handle is open, whether it is
the primary one and with which configuration it was last configured; `waiter` holds the fields of the
waiter objects.  Per thread there is a program counter inside of `waitForConnection`
(`pc`), the connection it has (`held`), the waiter it waits on (`waitOf`), whether the nonce captured
by its cancellation listener still matches, the permit of `LockSupport`, its cancellation signal and
the sign of the remaining busy timeout.

Every block that the code runs under `synchronized (mLock)` is one action.  The exception is the loop
of `wakeConnectionWaitersLocked`, which is taken one waiter per step (`scan`); the lock counts as held
while it runs (`LockFree` is false), so no other locked block gets in between, while parking, timeouts,
interruptions, cancel() and the garbage collector, which need no lock, do.

| Code | Actions |
|---|---|
| `acquireConnection`, `waitForConnection` up to the queueing | `AcquireNow`, `AcquireThrows`, `Enqueue` |
| its loop: listener, leak check, park, check | `SetListener`, `CheckLeaked`, `Recover`, `Park`, `ParkTimeout`, `ParkInterrupted`, `CheckClosed`, `CheckDone`, `CheckAgain`, `RemoveListener` |
| `cancelConnectionWaiterLocked`, called by a `CancellationSignal` | `Cancel`, `OnCancel` (and `SetListener` for a signal that is canceled already) |
| `wakeConnectionWaitersLocked` | `WakeClosed`, `WakeAssign`, `WakeThrow`, `WakeSkip`, `WakeEnd` |
| `releaseConnection`, `recycleConnectionLocked` | `ReleaseConnection` |
| `close` | `ClosePool` |
| `reconfigure` | `ReconfigureReopen`, `ReconfigureReopenFails`, `ReconfigureInPlace` |
| a thread ends without releasing; collector; `SQLiteConnection.finalize` | `Leak`, `Collect`, `FinalizeConnection` |

`CancellationSignal`, `LockSupport` and the collector are external and modelled from how the pool uses
them: `setOnCancelListener` calls the listener at once if the signal is canceled and otherwise waits
for a cancellation in progress; an unpark before a park is kept as a permit; a park for a negative
time returns at once.

Abstractions: which available non-primary connection is taken depends on the statement caches and is
left open; nonces are kept as the result of their comparison; of time only the sign of the remaining
busy timeout is kept; an exception thrown to the caller before anything has changed is not a step.
`Env` says which events of the environment happen in an instance; it is a constant so that runs can
look at a few of them at a time in more depth, and the proofs hold for every subset.

### Runs

The constants bound each instance: `Thread`, `Conn`, `Waiter` are small sets of model values
(one waiter object per thread is enough since a thread waits on at most one), `Configs` and
`Requests` are sets of configurations and request kinds defined in `MCConnectionPool`.  Threads are
symmetric; connections and waiters are not declared symmetric because new ones are picked by
`CHOOSE`.

| Run | Instance | Question |
|---|---|---|
| `pool_wake` | 4 threads, WAL with 2 connections, two priorities, no timeouts | types, pool size, no missed wake-up, no barging, order of the queue |
| `pool_cancel` | 3 threads, one connection, cancellation, close | does a cancellation hit only its own wait although waiter objects are reused, does any other waiter drop out of the queue, is an unpark ever lost |
| `pool_reconfigure` | four configurations (open flags, WAL, foreign keys, cache size), failures | configuration of what is handed out, the assertion about the primary slot, exclusive ownership |
| `pool_live` | 2 threads that may end holding a connection; timeouts, interruptions, collector and finalizer; fairness | does the pool implement `PoolInterface`, does every wait end, also that for a leaked connection |

Three threads are the least for which a queue of two waiters, a hand-over to one and a decision about
the other coincide.  `pool_wake` needs four: one holds the primary connection and one the other, one
waits for the primary connection and one behind it for any, and only then the scan has to go on past a
waiter it cannot serve.  Timeouts are left to `pool_live`.
`PoolBound` is stated for instances in which nothing fails and nothing leaks: when a WAL switch cannot reopen
the primary connection, for example, others may fill the pool before it is opened again (section 9).  Three more
properties of the module state comments that the code does not keep (section 8).

### Fairness

`pool_live` assumes weak fairness of what a thread does without the lock and of the loop under the
lock (the scheduler runs runnable threads), strong fairness of the steps that take the lock (a Java
monitor is not fair, but the lock is released after finitely many steps and threads that contend for
it do get it), weak fairness of the timeout of `parkNanos`, and that callers release what they
acquired, as the class comment requires.  Nothing is assumed of close, cancel, interruption,
reconfiguration or leaks.  The collector and the finalizer are assumed to run eventually, which the
virtual machine does not promise; without it a leak can make a waiter wait for ever.

## 3. Session

`PoolInterface` is the pool as the sessions see it: acquire a connection nobody has, release it, never
have two.  `ConnectionPool` implements it (`PoolInterfaceImplemented`, checked by `pool_live` and proved),
and `Session` is built on it, so the two models compose without multiplying their states.
`Transactions` says what the class comment of `SQLiteSession` promises: one flat transaction per session,
whose writes become durable together, if it was marked successful and no nested one failed, or not at
all.  `Session` is shown to implement it.

A session is bound to its thread; sessions meet at the pool.  What makes one session hard is
re-entrance.  A statement can run a custom function that uses the same session, and transaction
listeners are called in the middle of begin and end.  `calls` is the stack of such activations, and an
operation is one step up to a callback and one step from there.  Client code is assumed to keep the
contract of `beginTransaction` (each begin is matched by one end): an activation ends only the
transactions that it began (`HasOwnTransaction`).

| Code | Actions |
|---|---|
| `execute*`, `prepare` | `ExecuteBegin`, then `ExecuteWrite`, `ExecuteRead` (also a statement that throws) or `ExecuteConflict` (`CONFLICT_ROLLBACK`) |
| `beginTransaction` | `beginTransaction`, `OnBeginReturns`, `OnBeginThrows` |
| `setTransactionSuccessful` | `setTransactionSuccessful` |
| `endTransaction` | `endTransaction`, `OnEndReturns`, `OnEndThrows` |
| `yieldTransaction` | `yieldTransaction`, `YieldResumes`, `YieldResumeThrows` |
| `executeSpecial` | BEGIN and ROLLBACK are the calls above; COMMIT is `executeCommit`, `executeCommitEnd` |
| the pool closes an idle connection | `CloseIdleConnection` |

`native` is SQLite's side, an external part: whether the connection is in a transaction and which writes
that transaction holds.  COMMIT and ROLLBACK can fail and then leave it open (`commitFails`,
`rollbackFails`); without a native transaction they always fail.  Locks between connections are not
modelled, which allows more behaviours than SQLite does.  `nestedFailed` is a history variable for the
properties: a nested transaction of the current outermost one has ended unsuccessfully.

| Run | Instance | Question |
|---|---|---|
| `session_faults` | 2 sessions, 1 connection, every failure | types; is the use count exact (`UseCountExact`), so that no connection leaks or is used after its release |
| `session_yield` | 2 sessions, 1 connection, yields, listeners that throw, a failing second begin | is `Transactions` implemented; is every transaction settled when its connection is returned (`NothingLeftOpen`) |

Two sessions on one connection are the least in which one session can see what another left behind.  `MaxDepth`, `MaxCalls` and `MaxWrites` bound nesting, re-entrance and writes.  Two levels are
the least in which a failure has to reach the outermost transaction.  A failure that has to travel through
a level that did not fail itself needs three: with one session, `MaxDepth = MaxCalls = 3`,
`MaxWrites = 2` and `Env = {"listener", "listenerTransactions"}` TLC finds `TransactionsImplemented` to
hold as well.  Listeners that begin transactions and yields are not combined in `session_yield` because
together they show the disagreement about `onCommit` of section 8.

## 4. Pager

`Pager` models the pager in rollback mode.  Connections are in separate processes: they share the
database file, its journal and the lock, and nothing else.  Both files have a current content, which
every process sees, and a durable one.  A journal also knows whether its directory entry is durable.

| Code | Actions |
|---|---|
| `sqlite3PagerSharedLock`, `hasHotJournal`, `lockBtree` | `SharedLock`, `HotExists`, `HotReserved`, `HotFirstByte`, `HotEmpty`, `HotExclusive`, `Validate` |
| `sqlite3PagerAcquire`, `pagerUnlockIfUnused` | `Read`, `EndRead` |
| `sqlite3PagerBegin`, `sqlite3PagerWrite`, `allocateBtreePage`, `newDatabase` | `Begin`, `Write`, `Grow` |
| `sqlite3PagerOpenSavepoint`, `sqlite3PagerSavepoint` | `OpenSavepoint`, `ReleaseSavepoint`, `RollbackTo` |
| `pagerStress` | `Stress`, then the steps from `ExclusiveLock` to `WritePage` |
| `sqlite3PagerCommitPhaseOne`, `syncJournal`, `pager_write_pagelist` | `CommitPhaseOne`, `ExclusiveLock`, `SyncJournalFirst`, `JournalCount`, `SyncJournal`, `WritePage`, `SyncDatabase` |
| `sqlite3PagerCommitPhaseTwo`, `pager_end_transaction` | `CommitPhaseTwo`, `TrimAndUnlock`, `EndUnchanged` |
| `sqlite3PagerRollback`, `pager_playback` (also for a hot journal) | `Rollback`, `Play`, `PlaySync`, `PlayDelete`, `PlayUnlock` |
| failing I/O, kill, power loss | `IOError`, `Kill`, `PowerLoss` |

An action is the work between two operations on files or locks that another process, a crash or an
error can tell apart.  The field names are shortened: `size`, `orig`, `fsize` are `dbSize`, `dbOrigSize`,
`dbFileSize`; `inj` is `pInJournal`; `hdr` and `off` are `journalHdr` and `journalOff`, counted in records
instead of bytes; `sp` is `aSavepoint` and `sub` the sub-journal; `ccd` is `changeCountDone`.

`AtomicStore` is the promise: one image of the database, changed by one connection at a time and only as
a whole, when nobody else looks at it; a power loss may take back the last commit.  The refinement mapping
computes the image from both files with an operator of its own, `Recovered`, that says what a
recovery would find in them.  So `Atomic` compares what the code does, one record at a time, with what
the files mean, and it is a statement about each moment at which the power could fail.

After a power loss a slot of a file that was written since its last sync has its old content, its new
one or a torn one, each on its own; the length is anything between the old and the new; a new or
deleted journal may be absent or present.  The header of a journal is either whole or recognised as
torn.  A new checksum seed makes what an earlier transaction left in the journal invalid, so such
records are `Junk`; `HdrValid` and `IsRec` stand for the magic and the checksum.  A failing write leaves
nothing behind.  The roll back of a savepoint is one step.  A page that is clean leaves the cache only
after a spill.

| Run | Instance | Question |
|---|---|---|
| `pager_crash` | 1 connection, database of 1 page that grows to 2, one savepoint, spills, failing I/O, power losses, synchronous NORMAL | is `AtomicStore` implemented; does ROLLBACK TO give back the image (`SavepointRestored`); do the states keep to what `assert_pager_state` claims (`PagerState`) when I/O fails |
| `pager_share` | 2 connections, empty database, spills, kills, synchronous FULL | is `AtomicStore` implemented; the same of `PagerState` when two connections compete for the locks |

Two pages are enough for an image of which only a part could be old, four slots for a journal with
two headers that a spill leaves.  Two connections are enough because the code asks only whether
any other holds a lock.  With synchronous FULL there is one more sync; the weaker setting is checked
where power is lost.  Power losses are not combined with the empty database (section 8).

## 5. UnixLock

A POSIX lock belongs to a process: a process is never refused a lock because of its own, and closing any
descriptor of a file drops all its locks on it.  `os_unix.c` therefore keeps one record
(`unixInodeInfo`) per process and file, counts the connections that share a lock, and defers the
close of descriptors.  `UnixLock` has one step per system call, taken under the mutex of the process;
steps of different processes interleave.  `fcntl` is the kernel's side and external.

| Code | Actions |
|---|---|
| `unixOpen`, `findReusableFd`, `findInodeInfo` | `Open`, `FindInodeInfo`, `OpenFails` |
| `unixLock` | `LockCounted` (no system call is needed), or `LockEnter` and then `PendingByte`, `SharedRange`, `DropPending`, `WriteLock` |
| `posixUnlock` | `UnlockEnter`, `Downgrade`, `ClearPending`, `Release` |
| `unixClose` | `UnlockEnter` or `CloseUnlocked`, then `Close` |
| `unixCheckReservedLock` | `CheckReservedLock`, an operator that `ReservedSeen` evaluates |
| a process ends | `Kill` |

Each connection asks for the levels that the assertions at the top of `unixLock` allow.  A call that
returns `SQLITE_BUSY` without having done anything is not a step.  That the mutex is held follows from
where a connection stands in its call (`InMutex`).  `FileLock` gives the meaning of the five levels as
sets of tokens.  `unix_lock` checks that `UnixLock` implements it, that between two calls the
kernel's locks are the ones the connections believe in (`LocksHeld`), that deferred descriptors do not
outlive the locks (`DeferredClose`), that a writer is seen wherever it is (`ReservedSeen`), and that a
pending writer succeeds if every other process has moments without a reader (`PendingWins`).

The instance has two connections in one process, which is what the record is for, and one in
another process that may be killed.  Fairness: a call that holds the mutex goes on (weak: no step of it
waits for anybody); every transaction ends and gets the mutex for that (strong: the mutex is
contended but only ever held for a few system calls); a patient connection that is PENDING
asks again (strong: the busy handler, which here never gives up).  Nothing is assumed of connections
that begin to read.

That is not enough for a writer to win.  Connections of one process join SHARED by counting (`LockCounted`), so two of
them that take turns keep the kernel's read lock for ever, each of their transactions ends, and a
writer of another process stays PENDING.  `PendingWins` therefore has a premise, `OthersPause`: each process but the
writer's own is again and again without a reader.  A process of one connection always is, so the premise is
met of itself by the writer's opponents in any number of processes with one connection each (with three such processes the
property holds without it); the instance has patient writers on both sides, of which one faces the pair.
What `PendingWins` does claim is that the PENDING lock, and its being kept by an attempt that failed, makes a pause enough:
new processes cannot slip in, and the writer need not hit the moment.  Section 8 has the starvation.

## 6. Wal

`Wal` models `wal.c` as the pager calls it.  `shm` is the shared index: two copies of the header, the
read marks, the backfill count and, for the hash tables, the page number of each frame.  A connection has
its private header, the locks it holds and the place in its current call.  Readers take what they need
from shared memory without a lock, then lock a read mark and look again; `Choose`, `Pick` and `LockMark`
are separate steps, as are both halves of each header write.

| Code | Actions |
|---|---|
| `walIndexReadHdr`, `walIndexRecover` | `BeginRead`, `RetryHdr`, `Recover`, `RecoverHdr`, `RecoverInfo` |
| `walTryBeginRead`, `sqlite3WalEndReadTransaction` | `Choose`, `Lock0`, `Pick`, `LockMark`, `EndRead` |
| `sqlite3WalBeginWriteTransaction`, `sqlite3WalFrames`, `walRestartLog` | `BeginWrite`, the entry `Frames`, then `RestartLog`, `RestartHdr`, `RestartInfo`, `WriteLogHdr`, `SyncLogHdr`, `WriteFrame`, `EndFrames`, `CommitHdr` |
| `sqlite3WalUndo`, `sqlite3WalSavepoint`, `sqlite3WalSavepointUndo` | `Rollback`, `Savepoint`, `SavepointUndo` |
| `sqlite3WalCheckpoint`, `walCheckpoint` | `CkptBegin`, `CkptHdr`, `CkptTest`, `CkptMark`, `CkptLock0`, `CkptWrite`, `CkptDone`, `CkptEnd` |
| opening, `sqlite3WalClose` | `Open`, `Close` (the last one runs a checkpoint and deletes the log) |
| a process ends, power loss | `Kill`, `PowerLoss` |

The checksum of a frame covers all the frames before it; it is represented by what it covers, so that a
frame is valid exactly if the code's comparison would succeed (barring collisions).  The header of the
log file is written whole.  A page is a version number, and a commit any set of changed pages
with a new size; `past` keeps the committed images as a history for the properties.  A retry of
`walTryBeginRead` is a return to `idle`.

| Run | Instance | Question |
|---|---|---|
| `wal_snapshot` | a connection that writes and checkpoints, a reader that may be killed, spills, blocking checkpoints, two read marks | does each transaction read one committed image (`Snapshot`), is a kept cache the one of the snapshot (`CacheCurrent`), is `nBackfill` within the log (`BackfillBound`) |
| `wal_crash` | 1 connection, power losses, spills, savepoints, close, synchronous FULL and NORMAL | would recovery find the last commit at every moment (`Recoverable`); do snapshots survive savepoints and restarts |

Two pages, three frames and three salts let a commit of two pages follow another, fill the log, be
checkpointed and be overwritten in a restarted log, and leave frames of the older log behind the
newer.  Two read marks are the least for which one has to be chosen.  One writer is
what the pool has: only its primary connection writes.  With more than one checkpointer `BackfillBound`
does not hold (section 8).  With synchronous NORMAL a power loss may take back commits, but only the
latest, in order.  Deadlock is not checked because the bounds on versions and salts end every behaviour.

## 7. RTree

The virtual table that holds the track.  Its three backing tables and the depth are the state; a
statement is one action, since a statement runs under a lock and is rolled back as a whole
when it fails.  What makes it hard is inside: overflowing nodes are split or, once per level and
insertion, a third of their cells is inserted anew, which may overflow others; a deletion dissolves
underfull nodes up the tree and inserts their subtrees again at their height.  Meanwhile the nodes in memory
point to their parents and a table records the same; the table has to be right at the end.

The operators carry the names of the functions (`ChooseLeaf`, `AdjustTree`, `SplitNode`, `Reinsert`,
`removeNode`, `rtreeFilter`, ...).  `MaxCells` is 6 in the instance; the code has 9 to 51
cells per node and a minimum of a third, and 6 is the least for which the
minimum is 2, as the forced reinsertion needs.

Rounding is modelled as arithmetic.  A coordinate in a statement is an integer that a double holds exactly.
`Float` and `Double` round to the nearest number with `FloatBits` or `DoubleBits` digits, ties to even; floats have a smallest
distance next to zero (`Subnormal`) and become an infinity beyond `Largest`.  `rtreeValueDown` and
`rtreeValueUp` cast, compare, multiply by 1-1/`Scale` or 1+1/`Scale` according to the sign, round the product to a double and cast it again,
as the code does with `Scale` = 2^23; that they round outwards is nowhere assumed.  The instance has floats of 4 digits
and doubles of 10, and coordinates of both signs from the subnormal range up to 145, where floats are 4, 8 and 16 apart.
Coordinates that would be stored as infinities are excluded (`FiniteAssumption`), since the areas and distances of such boxes, which are
infinite or no numbers at all, are not modelled.

`rtree` runs two scripts that insert 34 boxes and delete them in different orders, which makes a tree
of three levels and dissolves it again, with any one other statement (insert, delete, replace,
update) of a small fixed set, of one box and two rowids, at any point.  The scripts are fixed because all sequences of that length are out of
reach; the properties are checked after each statement: the tree is balanced, full and free of orphans
(`Shape`), the tables lead to the cells (`Mappings`), the boxes are exact (`BoundingBoxes`), queries
return exactly the rows that satisfy their constraints (`QueryExact`), and windows answer for the boxes as they were inserted
(`WindowExact`).

A window is what `SQLiteRTree.range` asks for: rows contained in it, by their rounded coordinates.  `WindowExact` says that it finds no
row that sticks out of it before rounding, and every row that keeps `Slack` from its edges: nothing for coordinates that are floats, and
otherwise 2/`Scale` of the coordinate, because rounding outwards can take a row out of a window at whose very edge it lies.
Rows with subnormal coordinates are exempt (section 8); some of the rows have them, and without the exemption TLC refutes the property.  It asks
around every row the window in which the row is just found and those that just cut it.  The application stores floats, so it
falls under the exact case.  It prints the edges of the window in decimal, though, and SQLite reads them as doubles: the window that is
searched is then the printed one, which need not have a float for an edge.  That conversion is not modelled.  The module has
recursive operators and is only model-checked.  Scripts end, so deadlock is not checked.

## 8. Where the code, its comments and its promises disagree

These were met while modelling.  The first five are stated as properties of the modules, and
TLC refutes each of them in the instance given.

| Property and instance | Comment | Behaviour |
|---|---|---|
| `AcquiredConnectionsOwned` (2 threads, 2 connections, 2 waiters, `NonWalConfig`, `PlainRequests`, `Env = {"timeout", "close"}`) | opened connections are always owned | a connection assigned to a waiter just before close() is dropped by `throwIfClosedLocked` and stays acquired, unowned and open |
| `FailedReopenKeepsConnections` (4 connections, `ManyConfigs`, `Env = {"timeout", "reconfigure", "openFails"}`) | if the reopening fails, existing connections remain untouched | when the WAL mode changes they are closed before the attempt |
| `ParkReturnsForACause` (`Env = {"timeout"}`) | the thread waits for an unpark, a timeout or an interruption | after one early wake-up the remaining time is computed with the wrong sign and parkNanos returns at once |
| `FailedChildRollsBack` (1 session, 2 levels, 2 calls, `Env = {"listener", "listenerTransactions", "yield"}`) | a failed nested transaction makes the outermost one roll back | the outcome is decided before the listener runs; a nested transaction that fails inside of `onCommit` during a yield is committed |
| `NothingLeftOpen` (2 sessions, `Env = {"commitFails"}`) | ending the outermost transaction commits or rolls back | when COMMIT throws, the connection is returned with the transaction open, and the next session works inside of it |

In the Java part also: an `onCancel` that comes after `close()` looks for its waiter in a queue that is
empty (`SQLiteConnectionPool.java:722`, `assert current != null`).
`isSessionBlockingImportantConnectionWaitersLocked` says that it looks at waiters of the same or a lower
priority and looks at those of the same or a higher one (`SQLiteConnectionPool.java:930`).  After a conflict
with `CONFLICT_ROLLBACK` the session still has its transaction and SQLite has none, so later statements
are committed one by one (`ExecuteConflict`).

In `sqlite3.c`:

- *Log reset.*  "The nBackfill number is never greater than WalIndexHdr.mxFrame" (48429), but
  `walCheckpoint` reads the count long after its header (49787, 49822).  A second connection that
  checkpoints everything and then restarts the log in between makes the first one write a count that
  belongs to another log.  `BackfillBound` is refuted with `Writers = Checkpointers = Conn` of two
  connections, `MaxPage = 1` and every other bound 2.  A writer killed in `walRestartLog` between the header and
  the count leaves the same state behind.  A pool writes and checkpoints through one connection,
  so it takes a second pool on the file or another process to bring it about.  `LocationPoll` (103) and `LSTIndexReceiver` (29) each
  open a `SQLiteRTree`, and with it a pool of its own, on the same file in one process; with the log switched on that would be enough.
- *Recovered commits.*  With synchronous=FULL a commit is synced before it becomes visible (50941), but a recovery
  takes the frames it finds in the log for what they are (49280) and syncs nothing.  If a writer dies between
  its commit frame and the sync, the next connection shows the commit, and a loss of power can then take it
  back.  `Recoverable` is refuted with one connection, `Mortal = {{w}}`, `FullSync = {TRUE}`, `Env = {"power"}`,
  `MaxPage = 1` and every other bound 2, and holds there with `FullSync = {FALSE}`.  The caller of that
  commit was never told that it succeeded.
- *Pending.*  The comment in `unixLock` says that the PENDING lock "ensures that no new SHARED locks can be
  obtained" (26316).  A process that reads already gives its further connections SHARED by counting
  (26381), whatever another process waits for.  `FileLock` says so in `Shared`.  It follows that a PENDING writer can be starved: two
  connections of another process that take turns keep the kernel's read lock although each of their transactions
  ends.  TLC finds this on the instance of `unix_lock` if `PendingWins` is stated without `OthersPause`.
- *Empty database.*  The recovery of a journal whose transaction created the database truncates the
  file to nothing; if that recovery is cut short after the truncation, the next reader takes the
  journal for a left-over one and deletes it (45766), and a power loss before the truncation is durable brings
  pages of the file back.  It takes two kinds of fault: `Atomic` is refuted with `InitSizes = {0}` and
  `Env = {"grow", "power", "kill"}` (or `"ioerr"` in the place of `"kill"`), and holds there with
  `Env = {"grow", "spill", "power"}`.
- *Directory.*  The deletion of the journal is not synced (42829), so a power loss can take back the last commit;
  `AtomicStore` has `prior` for it.
- *R\*-tree.*  The distance by which cells are chosen for reinsertion compares the extent of a cell with the
  centre of the node (149957), and the deepest level that was already reinserted is not reset for a
  deletion (150078).  Both cost quality of the tree, not correctness, and are modelled as they are.
- *Rounding.*  `rtreeValueDown` and `rtreeValueUp` convert "while taking care to round toward negative or positive, respectively"
  (150168).  For a double next to zero the product, a factor of 2^-23 smaller or larger, is cast back to the same subnormal float, and for one well beyond `FLT_MAX`
  to the same infinity, so the result is on the wrong side.  With the constants of the instance `rtreeValueDown(1)` is 0 but
  `rtreeValueDown(3)` is 4, and `WindowExact` without its restriction to `Normal` coordinates is refuted.  No place or time that the
  application stores is in either range.

## 9. Proofs

`QueueLemmas` has facts about the sequences that model linked lists: what `RemoveAt` and `InsertAt`
return, and that they take out or add exactly one element of a list without duplicates.
`ConnectionPoolProofs` proves of `ConnectionPool`, for all values of its constants satisfying
`PoolAssumption` (types of the constants, the null values are not members of the sets, the pool size
is positive):

| Theorem | States |
|---|---|
| `TypeCorrect` | `TypeOK` |
| `Exclusion` | `ExclusiveOwnership`: no connection has two owners; an owned one is open, recorded and not on offer |
| `PrimarySlotFree` | `ReleasePrimaryFindsSlot`: the assertion in `releaseConnection` |
| `ConfigurationCurrent` | `ConfigurationPropagated`: what can be handed out has the current configuration |
| `UnparkKept` | `NoLostUnpark`: a wait decided before the park has left a permit |
| `WaiterKept` | `NoLostWaiter`: undecided waiters of an open pool are in the queue |
| `CancelExact` | `CancelHitsItsWaiter`: a cancellation ends only its own wait |
| `InterfaceRefinement` | `PoolInterfaceImplemented`: the pool implements `PoolInterface` |

None of these is inductive alone.  The invariant `IInv` adds: `ThreadInv` (what a thread has agrees with
its program counter), `WaiterInv` (no two waits share a waiter object, pooled waiters are blank and in
nobody's use, queued waiters occur once, are undecided and belong to a waiting thread), `ClosedInv` (a
closed pool empties the queue before it releases the lock, which is what makes it safe that a thread
that finds the pool closed leaves its waiter unrecycled), `NonceInv` (a nonce that still matches
belongs to a wait in progress unless the pool is closed), `PlaceInv` (a connection is on offer,
acquired or collected, and open in the first two cases) and `OwnerInv` (owners are recorded, one per
connection).  The preservation lemmas have one step per action and rest on effect lemmas (`Dismissed`,
`Canceled`, `Enqueued`, `ObtainConn`, `ReleaseConn`, `ReconfigureConn`) that say once what the shared
operations do.  For the refinement, `HeldStep` shows that a step gives one connection to a thread that
has none, takes one away, or changes nothing; with `OwnerInv` before and after the step, the first is an
acquisition of a connection nobody had and the second a release.

The second half of `ConnectionPoolProofs` builds on that invariant and proves, from the same assumption:

| Theorem | Hypothesis | States |
|---|---|---|
| `QueueInOrder` | | `QueueOrder`: by priority; a new waiter goes behind its priority; those that stay keep their order |
| `WakeupKept` | | `NoMissedWakeup`: nobody queued wants what the pool could hand out |
| `NobodyBarges` | | `NoBarging`: nor gets overtaken by a thread that does not queue |
| `PoolBounded` | `NoFaults` | `PoolBound`: never more connections than the pool size |

`QueueInOrder` needs `QueuePositionCut`: the set that `QueuePosition` counts is an initial segment of the
queue, because it is closed downwards, so the insertion point separates the priorities.  `QueueStep` shows that a step leaves the queue alone, takes one waiter
out or puts one in, and `PlacesKept` that none of these swaps two waiters that stay: nobody is in the queue twice (`IInv`), so a waiter's new place follows from its old one.  `NoMissedWakeup` speaks
only of states in which the lock is free, and says nothing of the loop that makes it true; the
strengthening is `ScanInv`: while `wakeConnectionWaitersLocked` runs, its two flags are right about what is
not available, and every waiter that it has passed over wants the primary connection.  An acquisition never
makes an unavailable kind available (`ObtainKeepsUnavailable`, which counts the acquired connections; they are
finitely many although `Conn` need not be).  Two steps end without a wake-up loop and have to be
justified: a release that closes a surplus connection (`ServeRelease`: with a pool size of 1 some other connection
still fills it, and with a larger one a non-primary connection is idle, so only waiters for the primary one are
queued), and a reconfiguration that closed the available connections and then could not reopen
(`ServeReopenFails`: it got there only with nothing acquired, and then nobody is queued).

`NoFaults` excludes opens that fail, reconfigurations of a connection that fail, and leaks, and nothing else: the bound
rests on an open pool always having its primary connection, and on acquired connections always having an owner
(`SizeInv`), so that the collector takes none.  Each of the three exceptions is needed; TLC finds the bound violated
with a leak alone and four threads: the leaked primary connection is collected, non-primary ones fill the pool, and then the primary one
is opened again.  TLC finds `ScanInv`, `QueueSorted` and `SizeInv` invariant, with two threads and four connections,
under timeouts, cancellations, interruptions, reconfigurations and a close.

`UnixLockProofs` proves of `UnixLock`, for any sets of processes and connections satisfying
`UnixLockAssumption` (each connection has a process; neither set has to be finite):

| Theorem | States |
|---|---|
| `TypeCorrect` | `TypeOK` |
| `LocksAreHeld` | `LocksHeld`: between two calls of a process the kernel's locks are the ones its connections believe in |
| `ClosesAreMadeUp` | `DeferredClose`: a deferred descriptor does not outlive the locks |
| `WritersAreSeen` | `ReservedSeen`: `unixCheckReservedLock` finds a writer wherever it is |
| `LockImplementsFileLock` | `ImplementsFileLock`: the lock implements `FileLock` |

`LocksHeld` says nothing of a process that is in the middle of a call, so its induction needs what each
system call leaves behind.  `IInv` is `TypeOK`, `ProcessInv` of every process, and `Compatible` (the kernel
grants no locks that conflict).  `ProcessInv` consists of `MutexInv` (one call of a process at a time is
between two system calls), `CountInv` (`nShared` and `nLock` are the number of connections with a lock,
`nRef` of connections at all; sets that are finite because they grow by one), `LevelInv` (the level of the process is that of
its highest connection, at most one of which is above SHARED, and alone if EXCLUSIVE), `Settled` (what the kernel has
locked when no call is under way), and for each connection `CallInv` and `KernelInv` (from which level to which
it is going and which bytes are locked at that step).  TLC finds `IInv` invariant on the instance of
`unix_lock`.  A step changes one connection, its process's record and its process's locks, so `LocalStep` reduces the
preservation of `IInv` to `ProcessInv` of that process and to whether the kernel may grant what is locked; there is one
lemma per action.

For the refinement, `HeldFacts` reads the tokens of a connection off the invariant.  Each call has
one step at which its tokens change (the last system call on the way up, the first on the way down) and the other steps stutter;
the `Impl...` lemmas match the changes with the actions of `FileLock`, and the guards of those
(nobody else reads, no process has a pending writer) follow from `Compatible`, since another process's token stands for
a lock of the kernel, and inside of the process from `LevelInv`.

`SessionProofs` proves of `Session`, for all values of its constants satisfying
`SessionAssumption` (types, and the null values are not members of the sets):

| Theorem | Hypothesis | States |
|---|---|---|
| `TypeCorrect` | | `TypeOK` |
| `UseCountCorrect` | | `UseCountExact`: the use count is exact, whatever fails |
| `NothingStaysOpen` | `EndsSucceed` | `NothingLeftOpen`: no connection goes back with a transaction open |
| `SessionImplementsTransactions` | `TransactionsHold` | `TransactionsImplemented` |

The hypotheses are about `Env`, the set of what may happen.  `EndsSucceed` excludes a COMMIT or
ROLLBACK that throws, which does leave the transaction open (section 8), and nothing else.
`TransactionsHold` also excludes `CONFLICT_ROLLBACK`, after which SQLite commits statement by statement, and listeners
that begin transactions, which break the promise together with a yield (section 8); without a yield TLC still finds it kept.
Listeners that throw, yields, a BEGIN that fails and idle connections that are closed are allowed, in any combination.

`IInv` is `TypeOK` and, for each session: the use count is the number of activations that use the connection, plus one for
the transaction; the session owns the connection it has, and has one exactly while the count is positive; `CallsOK` (the bases
of the activations grow, no frame is below the base of a callback that is to end it, a sleep has no
transaction and is on top); `LongOK` (only the listener that resumes a yield exceeds `MaxCalls`, and then the native transaction is open).
`CountedFacts` says how the count of activations changes with a push or a return; `SessionStep` reduces the
preservation of `IInv` to what a step leaves of its session.  `OpenInv` adds that an open native transaction
belongs to a session that is in a transaction or in its `onBegin`.

The refinement needs `RInv`: a session in a transaction has its native transaction open; at most one of
its activations is not a statement, and its base is the current depth (`Solo`); what the end of a transaction has decided still
agrees with the frame when the listener returns (`Promise`); a failed nested transaction has left its mark in some frame, which
moves outwards as frames are popped; and a connection holds back only writes of its owner, numbered as they were made, so that each write is new.
TLC finds `RInv` invariant on the instance of `session_yield` with `poolCloses` added.  Each operation has a lemma that it preserves
`RInv` and is one step of `Transactions` or a stutter: `AbstractStep` names what each step may do to the mapped state of one session.

`PagerProofs` proves of `Pager`, for any set of connections, any bound on pages, versions, slots and savepoints
(`PagerAssumption`), any events in `Env` and either sync mode:

| Theorem | Hypothesis | States |
|---|---|---|
| `TypeCorrect` | `NoFileIsNoJournal` | `TypeOK` |
| `PagerStateHolds` | `NoFileIsNoJournal` | `PagerState`: what `assert_pager_state` claims |

`NoFileIsNoJournal` says that `NoFile` is not a sequence.  That is what the constant is for; TLC cannot evaluate the
condition for a model value, so it is a hypothesis and not an assumption of the module.  Pages have no type at all in
these proofs: what they contain never matters.

`PagerState` speaks of pagers between two calls, so `Inv` says of each connection at every moment which `Phase` it is in (state
and program counter), which lock goes with it (`Locked`), which sizes agree (`Sizes`), what is forgotten outside of a
transaction (`Clean`) and what its fields look like (`Content`).  Two parts relate connections: `Exclusion` (no two locks
conflict) and, since a reader that finds a journal may delete it, that whoever needs the journal still has one; the
connection that deletes it holds RESERVED at least, so by `Exclusion` nobody else needs it (`Replace`).  `SavepointsBehind` keeps the
offsets of savepoints within the two journals, which is what makes them nest when the next one is opened.  A loss of
power needs `Synced` as well: a journal whose directory entry is on the disk has some content there.  Changes of a page pass through
`PagerWrite`, `AcquireNoContent` and `SetData`, about which there is one lemma each (`Working` is what they preserve), so that `Write`, `Grow` and
`CommitPhaseOne` share their proof; `PlaybackType` does the same for the roll back of a savepoint.  TLC finds `Inv` invariant on both instances.

The proof found the model wrong in one place.  A failed deletion of the journal, and a failed rollback, left `changeCountDone` set, which
`pager_end_transaction` clears whatever its result code; in `IOError` a pager in state ERROR with a SHARED lock then claimed to
have counted the change.  `IOError` now clears it, and `pager_crash` checks `PagerState` too.

`WalProofs` proves of `Wal`, for any set of connections, any numbers of read marks, pages, versions and frames
(`WalAssumption`), any events in `Env` and both sync modes:

| Theorem | Hypothesis | States |
|---|---|---|
| `TypeCorrect` | | `TypeOK`: locks exclude each other, frame numbers are within the log |
| `BackfillInLog` | `OneWriter` | `BackfillBound`: the backfill count is within the log |

`TypeOK` restricts headers only by their frame count; to show that a recovered or a savepoint's header stays
within the log, `TypeInv` says that the checksum of every header and savepoint covers at least as many frames as
the header counts and no more than are in the file (`HdrOK`, `Written`), so `mxFrame` never points past what was written.
`LockInv` is the exclusion of locks, with one more conjunct: a connection that closes the log is
alone, which it has to be, since it deletes the log that all checksums refer to.  `Phase` says which locks a
connection holds at each place in its calls.  A step changes one connection, so
`ConnStep` and `ShmStep` reduce the preservation of `TypeInv` to that connection, the headers and the locks
that are newly taken; each action has one lemma.

The comment that `nBackfill` is never greater than `mxFrame` is not true of every use of the library (section 8).
`OneWriter` is what a pool does: one connection writes and checkpoints (the primary
connection of the pool; a checkpoint is run by the commit that fills the log, or by a close), and it does not die
while another connection of the same file lives on, because they are in one process.  Readers may be in other processes, and die at any moment.
It excludes a second pool that writes to the same file, which nothing in the program prevents (section 8).
Since the count and the header are compared long after they were read, `BackInv` says of each place in a call what
is still known there: a checkpoint has the shared header until it is done (`Copying`); a write
transaction never undoes frames that are committed, also not through a savepoint that is older than a restart of the log
(`Writes`); a recovery finds a count of 0, because headers that disagree are left behind only with a wal-index that is new; and the
three moments at which the writer makes the header and the count disagree are covered by a lock.  `Bystander` shows that while one connection
changes the header under the write lock no other relies on it; `HeaderStep`, `BackStep`, `WriteStep` and
`CopyStep` are the kinds of steps.  TLC finds `TypeInv` and `BackInv` invariant on the instances of both runs and on a smaller
one in which kills, savepoints, closes and losses of power meet.

`WalSnapshotProofs` builds on `WalProofs` and proves what the log is for:

| Theorem | Hypothesis | States |
|---|---|---|
| `SnapshotHolds` | `OneWriter` | `Snapshot`: a transaction sees one committed image and its own changes |
| `CacheCurrentHolds` | `OneWriter` | `CacheCurrent`: what a pager kept from its last transaction is what it would read |

`Snapshot` compares an image with what `sqlite3WalFindFrame` finds page by page, in the wal-index, the log and the
file; the invariant `ReadInv` states that in terms of frames.  It has three layers, each with a lemma
per action:

- `DataInv`: images are sequences of versions, the wal-index has one page number per frame, and no log has a
  salt that was not handed out.
- `HeadInv`: the two copies of the header agree unless somebody is in `restartHdr` or `commitHdr`; nobody has
  a later change counter or salt than the shared header but the writer in its transaction, and before there is a header nobody has one.
- `SnapInv`: what the headers mean.  `Common`: the frames of the shared header over the file show the committed
  image, and the pages behind the backfill count are in the file.  `ReaderOK`: a reader's header shows
  its image; its read mark is why that stays so.  `WriterOK`: the frames that a writer has written and those that it still has to
  write (`Tale`) show its image, whatever it spilled, undid or restarted before (`LoggedOK`, `SavedOK`).  `CkptOK`: a checkpoint
  has the last frame of each page, and what it has not copied is still in its list.  `PairOK`, the only
  part about two connections: a checkpoint copies no frame that a reader does not know.  `OtherOK`: what
  a connection has found out before it takes a lock is still true when it looks again, and a cache
  that belongs to the shared header has the committed pages.  `RecoverOK`: a recovery has indexed the whole log.

The lemmas about images and frames mention no state: `RecoveredShows` (the image that a recovery
makes of a log is the one its last commit shows), `ShowsChanged` (frames for the changed pages show the changed
image), `ToCopy` and its like (copying a last frame into the file changes no image that has it).  `OneWriter` is used
where a second writer, or a second checkpointer, would disturb the one at work: in `BesideWriter` and
`BesideCopier`.  TLC found `SnapInv`
invariant on the instances of both runs.

`WalRecoveryProofs` builds on both and proves what a recovery finds:

| Theorem | Hypothesis | States |
|---|---|---|
| `RecoverableHolds` | `OneWriter`, `NoLateLoss` | `Recoverable`: a recovery finds the last commit, or the one being written |

`NoLateLoss` excludes the case of section 8, and only that: with synchronous=FULL, where the power can fail, no
process that writes dies on its own.  With NORMAL it says nothing.

`Recoverable` looks at the log and the file as they were written, but a loss of power replaces them with any mixture of what was
written and what was synced, torn frames and pages included, so the invariant `RecInv` speaks of both.  `Text` is the sequence of
frames that a recovery accepts, and `Pictured` says that over a file it shows an image.  The invariant has two halves.

- `PersistInv` is about the files alone.  `StoryInv`: each commit frame anywhere in the written or the synced log belongs
  to the text of the written one, or a frame before it has been overwritten and will not be written again (`Dead`; versions
  number the sets of frames, and `Gone` are those of which nothing is still to be written).  Hence no mixture tells more than the written
  log (`StoryTells`), and under one header none tells less than the synced one (`StoryKeeps`).  `OneHdr`: each commit between
  the two shows an image that a loss of power may go back to, and a page that is not synced in the file is in the
  synced log.  `TwoHdr`: while the log begins anew, or a deleted log may come back, everything is in the file, and whatever remains
  of the old log shows the same image.
- `LinkInv` says what the connections and the wal-index know of the files: the shared header tells the text
  (`LatestOK`), except between the last frame of a commit and its header (`Flying`); with FULL the text is synced
  (`SyncedOK`); what a writer appends to goes on from the text (`DraftOK`); a restart takes a salt under which no old frame is
  valid (`SaltFit`); a checkpoint writes pages only from a synced log (`RestOK`).

The lemmas `TextAppended` and `StoryAppended` carry the appending of a frame over the remains of an older log, `PictureAgrees`
the change from one file to another under the same text, and `SurvivesOneHeader` and `SurvivesTwoHeaders` the loss of power.

Only model-checked: `Atomic` and `SavepointRestored` of `Pager`, which
speak of what a crash leaves of journals; `RTree`, which is recursive; and `WaitEnds` and
`PendingWins` (liveness is outside of the prover's reach).  `PendingWins` holds under its premise, on an instance of two connections
in one process and one in the other.

## 10. Not modelled

Every part has its status in `PROJECT.json`.  Measured in lines, most of `src/` is the SQLite amalgamation:
151,634 lines, of which about half are comments.  `Pager`, `UnixLock`, `Wal` and `RTree` stand for some 7,000
of them, which is the part that has concurrency, crashes and ordering in it, and 4 percent of
all.  The share stays low for a reason.  The rest of the library (parser, code generator, virtual machine with its
opcodes, B-tree, full-text search, date and number formatting, memory allocators, the shell of VFS methods)
is sequential code over large data: its state is not small enough for TLC at any useful bound, and a
coarser model would no longer follow its source.  Much of it is switched off by the build or not
reached by this application.

Left out of the modelled parts:

- Pager: journal modes other than DELETE and WAL, master journals (several files in one commit),
  exclusive locking mode, autovacuum, sectors larger than a page, memory-mapped I/O, backup, closing.
- Wal: exclusive and heap-memory mode, I/O errors, read-only shared memory, the journal size limit,
  padding to sectors, salts that repeat.
- UnixLock: failing unlocks and `fstat`, the locking styles `dotfile`, `flock`, `proxy` and
  `unix-excl`, the downgrade in two parts for NFS.
- RTree: the order of the search queue, the node cache, MATCH callbacks, cursors that are open while
  the table is written, errors in the backing tables.
- `FullSync` and `Env` combine in the instances of sections 4 to 6 and in no others.

In the Java part: cursors' window arithmetic done by Android, SQL text, user interface,
evaluations and benchmarks, dumps and logging.  The statement cache, the reference counts of
`SQLiteClosable`, the context engine and the location service could be modelled and are not yet.

## 11. Plan

1. `ConnectionPool`, `Session`, `Transactions`, `PoolInterface`, with the proofs of section 9: done.
   Left to prove: that `Session` implements `Transactions` also when
   listeners begin transactions and there are no yields.
2. `Pager`, `AtomicStore`, `Wal`, `UnixLock`, `FileLock`, `RTree`: done, as above, with the proofs about
   `UnixLock`, `Pager` and `Wal`.  Left to prove: `Atomic` and `SavepointRestored` of `Pager`, for which the invariant
   has to speak of every mixture of synced and unsynced journal and pages, as `RecInv` does for the log.
3. `StatementCache`: acquire, release, evict and finalize prepared statements of one connection, with
   re-entrant use; no statement is finalized or handed out while it executes.
4. `PacoEngine` and `Cabs`: broadcasts as messages, services that start and restart in any order; each
   subscriber gets each sample once; subscriptions survive what the code lets them survive.
5. `OpenHelper`, `Database`, `Closable`: life cycle and reference counts; `LocationPoll`: commands and
   callbacks in any order; `SQLiteRTree`: nearestNeighbor against a reference definition on a small grid.
