--------------------------- MODULE ConnectionPool ---------------------------
(***************************************************************************)
(* SQLiteConnectionPool: the pool of native database connections that the *)
(* sessions of all threads of one SQLiteDatabase share.                    *)
(*                                                                         *)
(* Every block that the code runs under synchronized (mLock) is one action *)
(* here, with one exception: wakeConnectionWaitersLocked is a loop over    *)
(* the waiter queue, and it is taken one waiter per step.  While it runs   *)
(* (scan.on) the lock is held, so no other locked block can start and the  *)
(* loop always runs to its end; only what the code does without the lock   *)
(* (parking, leak flag, garbage collection) interleaves with it.           *)
(*                                                                         *)
(* Data abstractions:                                                      *)
(*  - a connection is an identity with its native handle open or closed,   *)
(*    its primary flag and the configuration it was last given; which      *)
(*    available non-primary connection is taken depends on the contents of *)
(*    the prepared statement caches, so it is any of them;                 *)
(*  - the nonce of a waiter object is only ever compared with the one that *)
(*    the wait captured, so the state keeps the result of the comparison;  *)
(*  - time is kept as the sign of busyTimeoutMillis.                       *)
(***************************************************************************)
EXTENDS SequencesExt

CONSTANTS
  Thread,       \* application threads, each with one SQLiteSession
  Conn,         \* identities for SQLiteConnection objects
  Waiter,       \* identities for ConnectionWaiter objects
  Configs,      \* the SQLiteDatabaseConfigurations reconfigure is called with
  Requests,     \* what acquireConnection is called with (decoded connection flags)
  WalPoolSize,  \* SQLiteGlobal.getWALConnectionPoolSize()
  HasCodec,     \* SQLiteDatabase.hasCodec()
  Env,          \* what the environment may do, a subset of EnvEvents
  NoConn, NoWaiter, NoThread, NoConfig   \* null

EnvEvents == {"close", "reconfigure", "cancel", "interrupt", "timeout", "leak",
              "openFails", "reconfigureFails"}

ASSUME PoolAssumption ==
  /\ WalPoolSize \in Nat \ {0}
  /\ HasCodec \in BOOLEAN
  /\ Env \subseteq EnvEvents
  /\ Conn # {} /\ NoConn \notin Conn
  /\ NoWaiter \notin Waiter
  /\ NoThread \notin Thread
  /\ Configs \subseteq [openFlags : SUBSET {"WAL", "READWRITE"},
                        foreignKeys : BOOLEAN, cacheSize : Nat]
  /\ Requests \subseteq [wantPrimary : BOOLEAN, priority : {0, 1}, signal : BOOLEAN]

VARIABLES
  mIsOpen,
  mConfiguration,
  mAvailablePrimaryConnection,
  mAvailableNonPrimaryConnections,
  mAcquiredConnections,   \* AcquiredConnectionStatus, or NONE when not a key of the map
  conn,                   \* the SQLiteConnection objects
  mConnectionLeaked,
  collected,              \* taken by the collector, finalizer not run yet
  mConnectionWaiterQueue,
  mConnectionWaiterPool,
  waiter,                 \* the ConnectionWaiter objects
  scan,                   \* locals of a running wakeConnectionWaitersLocked
  pc, held, waitOf,       \* per thread: where it is, its connection, its waiter
  nonceMatches,           \* per thread: waiter.mNonce == nonce, for the captured nonce
  permit,                 \* per thread: LockSupport permit
  signal,                 \* per thread: its CancellationSignal
  busyTimeout             \* per thread: sign of busyTimeoutMillis

connVars   == <<mAvailablePrimaryConnection, mAvailableNonPrimaryConnections,
                mAcquiredConnections, conn>>
leakVars   == <<mConnectionLeaked, collected>>
configVars == <<mIsOpen, mConfiguration>>
waiterVars == <<mConnectionWaiterQueue, mConnectionWaiterPool, waiter>>
poolVars   == <<configVars, connVars, leakVars>>
localVars  == <<held, waitOf, nonceMatches, permit, signal, busyTimeout>>
threadVars == <<pc, localVars>>
vars == <<poolVars, waiterVars, scan, threadVars>>

Statuses == {"NORMAL", "RECONFIGURE", "DISCARD"}
WaitingPcs == {"arming", "looping", "recover", "parking", "timedOut", "checking"}
Pcs == {"idle", "holding", "leaving", "ended"} \cup WaitingPcs
Signals == {"none", "clear", "listening", "firing", "canceled"}

Scan(on, pos, primary, nonPrimary) ==
  [on |-> on, pos |-> pos, primaryNA |-> primary, nonPrimaryNA |-> nonPrimary]
NoScan == Scan(FALSE, 1, FALSE, FALSE)
\* Faulty form: the loop starts in front of the queue.
StartScanOffByOne == Scan(TRUE, 0, FALSE, FALSE)
StartScan == Scan(TRUE, 1, FALSE, FALSE)

\* synchronized (mLock) can be entered: no wake-up loop is running under it.
LockFree == ~scan.on

\* setMaxConnectionPoolSizeLocked, called whenever mConfiguration changes.
MaxConnectionPoolSize ==
  IF ~HasCodec /\ "WAL" \in mConfiguration.openFlags THEN WalPoolSize ELSE 1

Acquired == {c \in Conn : mAcquiredConnections[c] # "NONE"}
Queued == Range(mConnectionWaiterQueue)
Waiting(t) == pc[t] \in WaitingPcs

\* A strong reference to the connection exists outside of the pool.
Referenced(c) ==
  \E t \in Thread : \/ held[t] = c
                    \/ Waiting(t) /\ waiter[waitOf[t]].assigned = c

-----------------------------------------------------------------------------
(* Opening, closing and acquiring connections (lock held).                 *)

\* new SQLiteConnection: an identity nobody refers to, any one of them.
Unused(c) == /\ ~conn[c].open
             /\ c \notin Acquired \cup collected
             /\ ~Referenced(c)
Fresh(c) == c \in Conn /\ Unused(c) /\ c = CHOOSE d \in Conn : Unused(d)

OpenConn(primary, config) == [open |-> TRUE, primary |-> primary, config |-> config]

\* close(): nothing is read from a connection any more.
ClosedConn == [open |-> FALSE, primary |-> FALSE, config |-> NoConfig]
CloseAll(S) == [c \in Conn |-> IF c \in S THEN ClosedConn ELSE conn[c]]

OpenConnections ==
  Cardinality(Acquired) + IF mAvailablePrimaryConnection # NoConn THEN 1 ELSE 0

\* tryAcquireNonPrimaryConnectionLocked returns null.
NonPrimaryNotAvailable == /\ mAvailableNonPrimaryConnections = {}
                          /\ OpenConnections >= MaxConnectionPoolSize

\* tryAcquirePrimaryConnectionLocked returns null.
PrimaryNotAvailable == /\ mAvailablePrimaryConnection = NoConn
                       /\ \E c \in Acquired : conn[c].primary

\* Faulty form: one connection too many.
ExpandNonPrimaryOffByOne == /\ mAvailableNonPrimaryConnections = {}
                            /\ OpenConnections <= MaxConnectionPoolSize

\* The pool has to be expanded by a non-primary, or by the missing primary connection.
ExpandNonPrimary == /\ mAvailableNonPrimaryConnections = {}
                    /\ OpenConnections < MaxConnectionPoolSize
ExpandPrimary == /\ mAvailablePrimaryConnection = NoConn
                 /\ \A c \in Acquired : ~conn[c].primary

finishAcquireConnectionLocked(c) ==
  mAcquiredConnections' = [mAcquiredConnections EXCEPT ![c] = "NORMAL"]

tryAcquireNonPrimaryConnectionLocked(c) ==
  /\ finishAcquireConnectionLocked(c)
  /\ UNCHANGED mAvailablePrimaryConnection
  /\ \/ /\ c \in mAvailableNonPrimaryConnections
        /\ mAvailableNonPrimaryConnections' = mAvailableNonPrimaryConnections \ {c}
        /\ UNCHANGED conn
     \/ /\ ExpandNonPrimary
        /\ Fresh(c)
        /\ conn' = [conn EXCEPT ![c] = OpenConn(FALSE, mConfiguration)]
        /\ UNCHANGED mAvailableNonPrimaryConnections

tryAcquirePrimaryConnectionLocked(c) ==
  /\ finishAcquireConnectionLocked(c)
  /\ UNCHANGED mAvailableNonPrimaryConnections
  /\ \/ /\ c # NoConn
        /\ c = mAvailablePrimaryConnection
        /\ mAvailablePrimaryConnection' = NoConn
        /\ UNCHANGED conn
     \/ /\ ExpandPrimary
        /\ Fresh(c)
        /\ conn' = [conn EXCEPT ![c] = OpenConn(TRUE, mConfiguration)]
        /\ UNCHANGED mAvailablePrimaryConnection

\* Both attempts in the order of the code; tryN and tryP say which are made.
Obtain(tryN, tryP, c) ==
  \/ tryN /\ tryAcquireNonPrimaryConnectionLocked(c)
  \/ /\ tryN => NonPrimaryNotAvailable
     /\ tryP
     /\ tryAcquirePrimaryConnectionLocked(c)

\* openConnectionLocked throws: nothing is acquired.
ObtainThrows(tryN, tryP) ==
  /\ "openFails" \in Env
  /\ \/ tryN /\ ExpandNonPrimary
     \/ (tryN => NonPrimaryNotAvailable) /\ tryP /\ ExpandPrimary
  /\ UNCHANGED connVars

ObtainNothing(tryN, tryP) ==
  /\ tryN => NonPrimaryNotAvailable
  /\ tryP => PrimaryNotAvailable
  /\ UNCHANGED connVars

-----------------------------------------------------------------------------
(* wakeConnectionWaitersLocked: one waiter of the queue per step.          *)

Current == mConnectionWaiterQueue[scan.pos]
TryNonPrimary == ~waiter[Current].wantPrimary /\ ~scan.nonPrimaryNA
TryPrimary == ~scan.primaryNA

\* Take the i-th waiter out of the linked list (faulty forms: cut the list there; put the last
\* waiter in its place).
UnlinkRest(i) == mConnectionWaiterQueue' = SubSeq(mConnectionWaiterQueue, 1, i - 1)
UnlinkBySwap(i) ==
  mConnectionWaiterQueue' = Front([mConnectionWaiterQueue EXCEPT ![i] = Last(mConnectionWaiterQueue)])
Unlink(i) == mConnectionWaiterQueue' = RemoveAt(mConnectionWaiterQueue, i)

\* LockSupport.unpark(waiter.mThread) (faulty form: forgotten).
NoUnpark(w) == UNCHANGED permit
Unpark(w) == permit' = [permit EXCEPT ![waiter[w].thread] = TRUE]

\* The current waiter is done; the scan is then at its successor.
Dismiss == Unlink(scan.pos) /\ Unpark(Current)

\* The non-primary attempt was made and failed before the primary one was.
NonPrimaryTriedInVain == scan.nonPrimaryNA \/ (TryNonPrimary /\ NonPrimaryNotAvailable)

WakeClosed ==
  /\ scan.on /\ scan.pos <= Len(mConnectionWaiterQueue)
  /\ ~mIsOpen
  /\ Dismiss
  /\ UNCHANGED <<poolVars, mConnectionWaiterPool, waiter, scan,
                 pc, held, waitOf, nonceMatches, signal, busyTimeout>>

WakeAssign(c) ==
  /\ scan.on /\ scan.pos <= Len(mConnectionWaiterQueue)
  /\ mIsOpen
  /\ Obtain(TryNonPrimary, TryPrimary, c)
  /\ waiter' = [waiter EXCEPT ![Current].assigned = c]
  /\ Dismiss
  /\ scan' = [scan EXCEPT !.nonPrimaryNA = NonPrimaryTriedInVain]
  /\ UNCHANGED <<configVars, leakVars, mConnectionWaiterPool,
                 pc, held, waitOf, nonceMatches, signal, busyTimeout>>

WakeThrow ==
  /\ scan.on /\ scan.pos <= Len(mConnectionWaiterQueue)
  /\ mIsOpen
  /\ ObtainThrows(TryNonPrimary, TryPrimary)
  /\ waiter' = [waiter EXCEPT ![Current].exception = "open"]
  /\ Dismiss
  /\ scan' = [scan EXCEPT !.nonPrimaryNA = NonPrimaryTriedInVain]
  /\ UNCHANGED <<configVars, leakVars, mConnectionWaiterPool,
                 pc, held, waitOf, nonceMatches, signal, busyTimeout>>

\* The scan stops when neither kind of connection is available.
AfterSkip == IF scan.nonPrimaryNA \/ TryNonPrimary
             THEN NoScan ELSE Scan(TRUE, scan.pos + 1, TRUE, FALSE)

WakeSkip ==
  /\ scan.on /\ scan.pos <= Len(mConnectionWaiterQueue)
  /\ mIsOpen
  /\ ObtainNothing(TryNonPrimary, TryPrimary)
  /\ scan' = AfterSkip
  /\ UNCHANGED <<configVars, leakVars, waiterVars, threadVars>>

WakeEnd ==
  /\ scan.on /\ scan.pos > Len(mConnectionWaiterQueue)
  /\ scan' = NoScan
  /\ UNCHANGED <<poolVars, waiterVars, threadVars>>

WakeConnectionWaiters ==
  WakeClosed \/ (\E c \in Conn : WakeAssign(c)) \/ WakeThrow \/ WakeSkip \/ WakeEnd

-----------------------------------------------------------------------------
(* waitForConnection.  A closed pool or a signal canceled beforehand throws *)
(* before anything changes, so the actions start behind those checks.       *)

AcquireNow(t, r) ==
  /\ pc[t] = "idle" /\ LockFree /\ mIsOpen
  /\ \E c \in Conn : /\ Obtain(~r.wantPrimary, TRUE, c)
                     /\ held' = [held EXCEPT ![t] = c]
  /\ pc' = [pc EXCEPT ![t] = "holding"]
  /\ UNCHANGED <<configVars, leakVars, waiterVars, scan,
                 waitOf, nonceMatches, permit, signal, busyTimeout>>

\* The open fails and the exception goes to the caller.
AcquireThrows(t, r) ==
  /\ pc[t] = "idle" /\ LockFree /\ mIsOpen
  /\ ObtainThrows(~r.wantPrimary, TRUE)
  /\ UNCHANGED <<configVars, leakVars, waiterVars, scan, threadVars>>

BlankWaiter == [thread |-> NoThread, priority |-> 0, wantPrimary |-> FALSE,
                assigned |-> NoConn, exception |-> "null"]
UnusedWaiter(w) == w \notin Queued /\ \A u \in Thread : waitOf[u] # w

\* A waiter object of the pool, with the fields recycling left in it, or a new one.
obtainConnectionWaiterLocked(w, t, r) ==
  \/ /\ w \in mConnectionWaiterPool
     /\ mConnectionWaiterPool' = mConnectionWaiterPool \ {w}
     /\ waiter' = [waiter EXCEPT ![w].thread = t, ![w].priority = r.priority,
                                 ![w].wantPrimary = r.wantPrimary]
  \/ /\ mConnectionWaiterPool = {}
     /\ UnusedWaiter(w) /\ w = CHOOSE x \in Waiter : UnusedWaiter(x)
     /\ waiter' = [waiter EXCEPT ![w] =
                     [BlankWaiter EXCEPT !.thread = t, !.priority = r.priority,
                                         !.wantPrimary = r.wantPrimary]]
     /\ UNCHANGED mConnectionWaiterPool

\* Behind every waiter of the same or a higher priority.
QueuePosition(priority) ==
  1 + Cardinality({i \in DOMAIN mConnectionWaiterQueue :
                     \A j \in 1 .. i : waiter[mConnectionWaiterQueue[j]].priority >= priority})

Enqueue(t, r) ==
  /\ pc[t] = "idle" /\ LockFree /\ mIsOpen
  /\ ObtainNothing(~r.wantPrimary, TRUE)
  /\ \E w \in Waiter :
       /\ obtainConnectionWaiterLocked(w, t, r)
       /\ mConnectionWaiterQueue' =
            InsertAt(mConnectionWaiterQueue, QueuePosition(r.priority), w)
       /\ waitOf' = [waitOf EXCEPT ![t] = w]
  /\ nonceMatches' = [nonceMatches EXCEPT ![t] = TRUE]
  /\ signal' = [signal EXCEPT ![t] = IF r.signal THEN "clear" ELSE "none"]
  /\ busyTimeout' = [busyTimeout EXCEPT ![t] = "positive"]
  /\ pc' = [pc EXCEPT ![t] = "arming"]
  /\ UNCHANGED <<configVars, leakVars, scan, held, permit>>

\* cancelConnectionWaiterLocked.  A waiter that is neither satisfied nor queued makes
\* the walk along the queue run off its end: the canceling thread gets an exception.
cancelConnectionWaiterLocked(w) ==
  IF w \in Queued /\ waiter[w].assigned = NoConn /\ waiter[w].exception = "null"
  THEN /\ \E i \in DOMAIN mConnectionWaiterQueue :
            /\ mConnectionWaiterQueue[i] = w
            /\ Unlink(i)
       /\ waiter' = [waiter EXCEPT ![w].exception = "canceled"]
       /\ Unpark(w)
       /\ scan' = StartScan
       /\ UNCHANGED mConnectionWaiterPool
  ELSE UNCHANGED <<waiterVars, permit, scan>>

\* Faulty form: the nonce is not compared.
OnCancelAnyWaiter(t) == cancelConnectionWaiterLocked(waitOf[t])

\* onCancel of the listener that thread t registered.
OnCancelOf(t) ==
  IF nonceMatches[t] THEN cancelConnectionWaiterLocked(waitOf[t])
                     ELSE UNCHANGED <<waiterVars, permit, scan>>

\* setOnCancelListener(listener): a signal that was canceled meanwhile calls it at once.
SetListener(t) ==
  /\ pc[t] = "arming"
  /\ pc' = [pc EXCEPT ![t] = "looping"]
  /\ \/ /\ signal[t] = "none"
        /\ UNCHANGED <<signal, waiterVars, permit, scan>>
     \/ /\ signal[t] = "clear"
        /\ signal' = [signal EXCEPT ![t] = "listening"]
        /\ UNCHANGED <<waiterVars, permit, scan>>
     \/ /\ signal[t] = "canceled" /\ LockFree
        /\ OnCancelOf(t)
        /\ UNCHANGED signal
  /\ UNCHANGED <<poolVars, held, waitOf, nonceMatches, busyTimeout>>

\* mConnectionLeaked.compareAndSet(true, false), without the lock.
CheckLeaked(t) ==
  /\ pc[t] = "looping"
  /\ pc' = [pc EXCEPT ![t] = IF mConnectionLeaked THEN "recover" ELSE "parking"]
  /\ mConnectionLeaked' = FALSE
  /\ UNCHANGED <<configVars, connVars, collected, waiterVars, scan,
                 held, waitOf, nonceMatches, permit, signal, busyTimeout>>

Recover(t) ==
  /\ pc[t] = "recover" /\ LockFree
  /\ scan' = StartScan
  /\ pc' = [pc EXCEPT ![t] = "parking"]
  /\ UNCHANGED <<poolVars, waiterVars, localVars>>

\* parkNanos returns: at once without touching the permit if the timeout is not
\* positive, otherwise by taking the permit,
Park(t) ==
  /\ pc[t] = "parking"
  /\ \/ busyTimeout[t] = "negative" /\ UNCHANGED permit
     \/ /\ busyTimeout[t] = "positive" /\ permit[t]
        /\ permit' = [permit EXCEPT ![t] = FALSE]
  /\ pc' = [pc EXCEPT ![t] = "checking"]
  /\ UNCHANGED <<poolVars, waiterVars, scan,
                 held, waitOf, nonceMatches, signal, busyTimeout>>

\* by the timeout,
ParkTimeout(t) ==
  /\ "timeout" \in Env
  /\ pc[t] = "parking" /\ busyTimeout[t] = "positive" /\ ~permit[t]
  /\ pc' = [pc EXCEPT ![t] = "timedOut"]
  /\ UNCHANGED <<poolVars, waiterVars, scan, localVars>>

\* or by an interruption, which is cleared.
ParkInterrupted(t) ==
  /\ "interrupt" \in Env
  /\ pc[t] = "parking" /\ busyTimeout[t] = "positive" /\ ~permit[t]
  /\ pc' = [pc EXCEPT ![t] = "checking"]
  /\ UNCHANGED <<poolVars, waiterVars, scan, localVars>>

\* Check whether the wait is over: throwIfClosedLocked comes first and leaves the waiter
\* object as it is.
CheckClosed(t) ==
  /\ pc[t] \in {"timedOut", "checking"} /\ LockFree
  /\ ~mIsOpen
  /\ pc' = [pc EXCEPT ![t] = "leaving"]
  /\ UNCHANGED <<poolVars, waiterVars, scan, localVars>>

\* The priority and kind that stay in the object are overwritten when it is obtained again
\* (faulty form: the connection stays as well).
RecycledWithConnection(w) == [BlankWaiter EXCEPT !.assigned = waiter[w].assigned]
Recycled(w) == BlankWaiter

recycleConnectionWaiterLocked(t, w) ==
  /\ waiter' = [waiter EXCEPT ![w] = Recycled(w)]
  /\ nonceMatches' = [nonceMatches EXCEPT ![t] = FALSE]
  /\ mConnectionWaiterPool' = mConnectionWaiterPool \cup {w}

CheckDone(t) ==
  /\ pc[t] \in {"timedOut", "checking"} /\ LockFree
  /\ mIsOpen
  /\ LET w == waitOf[t]
     IN /\ waiter[w].assigned # NoConn \/ waiter[w].exception # "null"
        /\ held' = [held EXCEPT ![t] = waiter[w].assigned]
        /\ recycleConnectionWaiterLocked(t, w)
  /\ pc' = [pc EXCEPT ![t] = "leaving"]
  /\ UNCHANGED <<poolVars, mConnectionWaiterQueue, scan,
                 waitOf, permit, signal, busyTimeout>>

\* Not done: busyTimeoutMillis is set to now - nextBusyTimeoutTime when that is negative,
\* which is the case unless the timeout has passed.
CheckAgain(t) ==
  /\ pc[t] \in {"timedOut", "checking"} /\ LockFree
  /\ mIsOpen
  /\ waiter[waitOf[t]].assigned = NoConn /\ waiter[waitOf[t]].exception = "null"
  /\ \E sign \in {"negative", "positive"} :
       /\ pc[t] = "timedOut" => sign = "positive"
       /\ busyTimeout' = [busyTimeout EXCEPT ![t] = sign]
  /\ pc' = [pc EXCEPT ![t] = "looping"]
  /\ UNCHANGED <<poolVars, waiterVars, scan,
                 held, waitOf, nonceMatches, permit, signal>>

\* finally: setOnCancelListener(null) waits for a cancellation in progress.
RemoveListener(t) ==
  /\ pc[t] = "leaving"
  /\ signal[t] # "firing"
  /\ signal' = [signal EXCEPT ![t] = "none"]
  /\ waitOf' = [waitOf EXCEPT ![t] = NoWaiter]
  /\ nonceMatches' = [nonceMatches EXCEPT ![t] = FALSE]
  /\ busyTimeout' = [busyTimeout EXCEPT ![t] = "positive"]
  /\ pc' = [pc EXCEPT ![t] = IF held[t] = NoConn THEN "idle" ELSE "holding"]
  /\ UNCHANGED <<poolVars, waiterVars, scan, held, permit>>

\* CancellationSignal.cancel() by any other thread; it calls the listener afterwards.
Cancel(t) ==
  /\ "cancel" \in Env
  /\ signal[t] \in {"clear", "listening"}
  /\ signal' = [signal EXCEPT ![t] = IF @ = "listening" THEN "firing" ELSE "canceled"]
  /\ UNCHANGED <<poolVars, waiterVars, scan,
                 pc, held, waitOf, nonceMatches, permit, busyTimeout>>

OnCancel(t) ==
  /\ signal[t] = "firing" /\ LockFree
  /\ OnCancelOf(t)
  /\ signal' = [signal EXCEPT ![t] = "canceled"]
  /\ UNCHANGED <<poolVars, pc, held, waitOf, nonceMatches, busyTimeout>>

-----------------------------------------------------------------------------
(* releaseConnection and recycleConnectionLocked.                          *)

ReleaseClosing(t) ==
  LET c == held[t]
  IN /\ \/ ~mIsOpen
        \/ /\ ~conn[c].primary
           /\ Cardinality(mAvailableNonPrimaryConnections) >= MaxConnectionPoolSize - 1
     /\ conn' = CloseAll({c})
     /\ UNCHANGED <<mAvailablePrimaryConnection, mAvailableNonPrimaryConnections, scan>>

\* connection.reconfigure(mConfiguration) if the status asks for it (faulty form: never).
KeptConfig(c) == conn[c].config
RecycledConfig(c) == IF mAcquiredConnections[c] = "NORMAL" THEN conn[c].config
                                                           ELSE mConfiguration

\* recycleConnectionLocked: a status other than NORMAL reconfigures or closes it first.
recycleConnectionLocked(c, keep) ==
  /\ \/ mAcquiredConnections[c] = "NORMAL" /\ keep
     \/ mAcquiredConnections[c] = "RECONFIGURE" /\ (keep \/ "reconfigureFails" \in Env)
     \/ mAcquiredConnections[c] = "DISCARD" /\ ~keep
  /\ conn' = [conn EXCEPT ![c] =
                IF keep THEN [@ EXCEPT !.config = RecycledConfig(c)] ELSE ClosedConn]

ReleaseRecycling(t) ==
  LET c == held[t]
  IN /\ mIsOpen
     /\ \/ conn[c].primary
        \/ Cardinality(mAvailableNonPrimaryConnections) < MaxConnectionPoolSize - 1
     /\ \E keep \in BOOLEAN :
          /\ recycleConnectionLocked(c, keep)
          /\ mAvailablePrimaryConnection' =
               IF keep /\ conn[c].primary THEN c ELSE mAvailablePrimaryConnection
          /\ mAvailableNonPrimaryConnections' = mAvailableNonPrimaryConnections
               \cup (IF keep /\ ~conn[c].primary THEN {c} ELSE {})
     /\ scan' = StartScan

ReleaseConnection(t) ==
  /\ pc[t] = "holding" /\ LockFree
  /\ ReleaseClosing(t) \/ ReleaseRecycling(t)
  /\ mAcquiredConnections' = [mAcquiredConnections EXCEPT ![held[t]] = "NONE"]
  /\ held' = [held EXCEPT ![t] = NoConn]
  /\ pc' = [pc EXCEPT ![t] = "idle"]
  /\ UNCHANGED <<configVars, leakVars, waiterVars,
                 waitOf, nonceMatches, permit, signal, busyTimeout>>

-----------------------------------------------------------------------------
(* close and reconfigure.                                                  *)

Available == mAvailableNonPrimaryConnections \cup ({mAvailablePrimaryConnection} \ {NoConn})

\* dispose(false)
ClosePool ==
  /\ "close" \in Env /\ LockFree /\ mIsOpen
  /\ mIsOpen' = FALSE
  /\ conn' = CloseAll(Available)
  /\ mAvailablePrimaryConnection' = NoConn
  /\ mAvailableNonPrimaryConnections' = {}
  /\ scan' = StartScan
  /\ UNCHANGED <<mConfiguration, mAcquiredConnections, leakVars, waiterVars, threadVars>>

WalModeChanged(config) ==
  ("WAL" \in config.openFlags) # ("WAL" \in mConfiguration.openFlags)

\* WAL mode and foreign key mode change only while no connection is acquired.
ReconfigureAllowed(config) ==
  \/ Acquired = {}
  \/ /\ ~WalModeChanged(config)
     /\ config.foreignKeys = mConfiguration.foreignKeys

\* Faulty form: a later reconfiguration revives a connection that was to be discarded.
MarkAcquiredAll(status) ==
  [c \in Conn |-> IF c \in Acquired THEN status ELSE "NONE"]

\* markAcquiredConnectionsLocked
MarkAcquired(status) ==
  [c \in Conn |-> IF mAcquiredConnections[c] \in {"NORMAL", "RECONFIGURE"}
                  THEN status ELSE mAcquiredConnections[c]]

\* New open flags: the primary connection is reopened, every other one goes.
ReconfigureReopen(config) ==
  /\ "reconfigure" \in Env /\ LockFree /\ mIsOpen
  /\ ReconfigureAllowed(config)
  /\ config.openFlags # mConfiguration.openFlags
  /\ \E p \in Conn :
       /\ Fresh(p)
       /\ conn' = [CloseAll(Available) EXCEPT ![p] = OpenConn(TRUE, config)]
       /\ mAvailablePrimaryConnection' = p
  /\ mAvailableNonPrimaryConnections' = {}
  /\ mAcquiredConnections' = MarkAcquired("DISCARD")
  /\ mConfiguration' = config
  /\ scan' = StartScan
  /\ UNCHANGED <<mIsOpen, leakVars, waiterVars, threadVars>>

\* The same with openConnectionLocked throwing: when the WAL mode was to change, the
\* available connections have been closed by then.
ReconfigureReopenFails(config) ==
  /\ {"reconfigure", "openFails"} \subseteq Env /\ LockFree /\ mIsOpen
  /\ ReconfigureAllowed(config)
  /\ config.openFlags # mConfiguration.openFlags
  /\ IF WalModeChanged(config)
     THEN /\ conn' = CloseAll(Available)
          /\ mAvailablePrimaryConnection' = NoConn
          /\ mAvailableNonPrimaryConnections' = {}
     ELSE UNCHANGED <<conn, mAvailablePrimaryConnection, mAvailableNonPrimaryConnections>>
  /\ UNCHANGED <<configVars, mAcquiredConnections, leakVars, waiterVars, scan, threadVars>>

\* Same open flags: reconfigureAllConnectionsLocked.  Available connections for which
\* reconfigure throws (bad) are closed, like those in excess of the pool size.
ReconfigureInPlace(config) ==
  /\ "reconfigure" \in Env /\ LockFree /\ mIsOpen
  /\ ReconfigureAllowed(config)
  /\ config.openFlags = mConfiguration.openFlags
  /\ mConfiguration' = config
  /\ \E excess, bad \in SUBSET Available :
       /\ excess \subseteq mAvailableNonPrimaryConnections
       /\ Cardinality(mAvailableNonPrimaryConnections \ excess) =
            Min({Cardinality(mAvailableNonPrimaryConnections), MaxConnectionPoolSize - 1})
       /\ bad # {} => "reconfigureFails" \in Env
       /\ conn' = [c \in Conn |->
                     IF c \in excess \cup bad THEN ClosedConn
                     ELSE IF c \in Available THEN [conn[c] EXCEPT !.config = config]
                     ELSE conn[c]]
       /\ mAvailablePrimaryConnection' =
            IF mAvailablePrimaryConnection \in bad THEN NoConn
                                                   ELSE mAvailablePrimaryConnection
       /\ mAvailableNonPrimaryConnections' =
            mAvailableNonPrimaryConnections \ (excess \cup bad)
  /\ mAcquiredConnections' = MarkAcquired("RECONFIGURE")
  /\ scan' = StartScan
  /\ UNCHANGED <<mIsOpen, leakVars, waiterVars, threadVars>>

-----------------------------------------------------------------------------
(* Connections that are abandoned.                                         *)

\* A thread ends while its session holds a connection: the session is thread-local, so
\* it goes with the thread.
Leak(t) ==
  /\ "leak" \in Env
  /\ pc[t] = "holding"
  /\ held' = [held EXCEPT ![t] = NoConn]
  /\ pc' = [pc EXCEPT ![t] = "ended"]
  /\ UNCHANGED <<poolVars, waiterVars, scan,
                 waitOf, nonceMatches, permit, signal, busyTimeout>>

\* The collector clears the weak key of an unreferenced connection.
Collect(c) ==
  /\ c \in Acquired /\ ~Referenced(c)
  /\ mAcquiredConnections' = [mAcquiredConnections EXCEPT ![c] = "NONE"]
  /\ collected' = collected \cup {c}
  /\ UNCHANGED <<configVars, mAvailablePrimaryConnection, mAvailableNonPrimaryConnections,
                 conn, mConnectionLeaked, waiterVars, scan, threadVars>>

\* (faulty form: the leak is not reported)
ignoreConnectionLeaked == UNCHANGED mConnectionLeaked
onConnectionLeaked == mConnectionLeaked' = TRUE

\* SQLiteConnection.finalize: onConnectionLeaked, then dispose.
FinalizeConnection(c) ==
  /\ c \in collected
  /\ collected' = collected \ {c}
  /\ onConnectionLeaked
  /\ conn' = CloseAll({c})
  /\ UNCHANGED <<configVars, mAvailablePrimaryConnection, mAvailableNonPrimaryConnections,
                 mAcquiredConnections, waiterVars, scan, threadVars>>

-----------------------------------------------------------------------------
Init ==
  /\ mIsOpen = TRUE
  /\ mConfiguration \in Configs
  /\ mAvailablePrimaryConnection = CHOOSE c \in Conn : TRUE
  /\ mAvailableNonPrimaryConnections = {}
  /\ mAcquiredConnections = [c \in Conn |-> "NONE"]
  /\ conn = [c \in Conn |-> IF c = mAvailablePrimaryConnection
                            THEN OpenConn(TRUE, mConfiguration) ELSE ClosedConn]
  /\ mConnectionLeaked = FALSE
  /\ collected = {}
  /\ mConnectionWaiterQueue = <<>>
  /\ mConnectionWaiterPool = {}
  /\ waiter = [w \in Waiter |-> BlankWaiter]
  /\ scan = NoScan
  /\ pc = [t \in Thread |-> "idle"]
  /\ held = [t \in Thread |-> NoConn]
  /\ waitOf = [t \in Thread |-> NoWaiter]
  /\ nonceMatches = [t \in Thread |-> FALSE]
  /\ permit = [t \in Thread |-> FALSE]
  /\ signal = [t \in Thread |-> "none"]
  /\ busyTimeout = [t \in Thread |-> "positive"]

acquireConnection(t) ==
  \E r \in Requests : AcquireNow(t, r) \/ AcquireThrows(t, r) \/ Enqueue(t, r)

Check(t) == CheckClosed(t) \/ CheckDone(t) \/ CheckAgain(t)

\* What a waiting thread does on its own, the lock needed or not.
WaitStep(t) ==
  \/ SetListener(t) \/ CheckLeaked(t) \/ Recover(t)
  \/ Park(t) \/ ParkTimeout(t) \/ ParkInterrupted(t)
  \/ Check(t) \/ RemoveListener(t)

ThreadStep(t) ==
  \/ acquireConnection(t) \/ WaitStep(t) \/ ReleaseConnection(t) \/ Leak(t)
  \/ Cancel(t) \/ OnCancel(t)

reconfigure(config) ==
  ReconfigureReopen(config) \/ ReconfigureReopenFails(config) \/ ReconfigureInPlace(config)

Next ==
  \/ WakeConnectionWaiters
  \/ \E t \in Thread : ThreadStep(t)
  \/ ClosePool
  \/ \E config \in Configs : reconfigure(config)
  \/ \E c \in Conn : Collect(c) \/ FinalizeConnection(c)

Spec == Init /\ [][Next]_vars

\* Fairness: a thread that is runnable runs, a thread that wants mLock gets it in the end
\* (strong fairness, since the lock is taken and freed in between), parkNanos times out,
\* callers release what they acquired, the collector and the finalizer run.
Fairness ==
  /\ WF_vars(WakeConnectionWaiters)
  /\ \A t \in Thread :
       /\ WF_vars(CheckLeaked(t)) /\ WF_vars(Park(t)) /\ WF_vars(ParkTimeout(t))
       /\ WF_vars(RemoveListener(t))
       /\ SF_vars(SetListener(t)) /\ SF_vars(Recover(t)) /\ SF_vars(Check(t))
       /\ SF_vars(OnCancel(t)) /\ SF_vars(ReleaseConnection(t))
  /\ \A c \in Conn : WF_vars(Collect(c)) /\ WF_vars(FinalizeConnection(c))

FairSpec == Spec /\ Fairness

-----------------------------------------------------------------------------
(* Properties.                                                             *)

ConnRecord == [open : BOOLEAN, primary : BOOLEAN, config : Configs \cup {NoConfig}]
WaiterRecord == [thread : Thread \cup {NoThread}, priority : {0, 1}, wantPrimary : BOOLEAN,
                 assigned : Conn \cup {NoConn}, exception : {"null", "open", "canceled"}]
ScanRecord == [on : BOOLEAN, pos : Nat \ {0}, primaryNA : BOOLEAN, nonPrimaryNA : BOOLEAN]

\* The state is well formed (fields of SQLiteConnectionPool and of its waiters).
TypeOK ==
  /\ mIsOpen \in BOOLEAN
  /\ mConfiguration \in Configs
  /\ mAvailablePrimaryConnection \in Conn \cup {NoConn}
  /\ mAvailableNonPrimaryConnections \in SUBSET Conn
  /\ mAcquiredConnections \in [Conn -> Statuses \cup {"NONE"}]
  /\ conn \in [Conn -> ConnRecord]
  /\ mConnectionLeaked \in BOOLEAN
  /\ collected \in SUBSET Conn
  /\ mConnectionWaiterQueue \in Seq(Waiter)
  /\ mConnectionWaiterPool \in SUBSET Waiter
  /\ waiter \in [Waiter -> WaiterRecord]
  /\ scan \in ScanRecord
  /\ pc \in [Thread -> Pcs]
  /\ held \in [Thread -> Conn \cup {NoConn}]
  /\ waitOf \in [Thread -> Waiter \cup {NoWaiter}]
  /\ nonceMatches \in [Thread -> BOOLEAN]
  /\ permit \in [Thread -> BOOLEAN]
  /\ signal \in [Thread -> Signals]
  /\ busyTimeout \in [Thread -> {"negative", "positive"}]

\* The thread owns connection c: it was returned to it, or assigned to its waiter.
Owns(t, c) == held[t] = c \/ (Waiting(t) /\ waiter[waitOf[t]].assigned = c)

\* "The connections themselves are not thread-safe": no connection ever has two owners, and
\* an owned connection is open, recorded as acquired and not on offer to somebody else.
ExclusiveOwnership ==
  \A c \in Conn : \A t \in Thread :
    Owns(t, c) => /\ \A u \in Thread \ {t} : ~Owns(u, c)
                  /\ c \in Acquired \ Available
                  /\ conn[c].open

\* Who holds each connection, as the sessions see it.
Holder == [c \in Conn |-> IF \E t \in Thread : held[t] = c
                          THEN CHOOSE t \in Thread : held[t] = c ELSE NoThread]
Interface == INSTANCE PoolInterface WITH Client <- Thread, NoClient <- NoThread,
                                         owner <- Holder

\* acquireConnection and releaseConnection implement the interface that SQLiteSession relies
\* on: a connection passes from one thread to another only by a release and an acquisition,
\* although the hand-over by the wake-up loop takes several steps of two threads.
PoolInterfaceImplemented == Interface!Spec

\* assert mAvailablePrimaryConnection == null in releaseConnection: a primary connection that
\* will be put back on release never meets another one, however often the pool was
\* reconfigured while it was out.
ReleasePrimaryFindsSlot ==
  \A c \in Acquired :
    conn[c].primary /\ mAcquiredConnections[c] # "DISCARD"
      => /\ mAvailablePrimaryConnection = NoConn
         /\ \A d \in Acquired \ {c} :
              conn[d].primary => mAcquiredConnections[d] = "DISCARD"

\* "Configuration changes are propagated down to connections immediately if they are
\* available or as soon as they are released": what is on offer, and what will be put back
\* without being reconfigured, has the configuration of the pool.
ConfigurationPropagated ==
  \A c \in Conn :
    c \in Available \/ mAcquiredConnections[c] = "NORMAL" => conn[c].config = mConfiguration

\* The pool size: as long as nothing fails to open or to be reconfigured and nothing leaks,
\* the connections that are open, acquired or idle, are never more than
\* mMaxConnectionPoolSize, whichever of the callers and the wake-up loop opens them
\* (connections to be discarded are not counted).
PoolBound ==
  LET kept == {c \in Acquired : mAcquiredConnections[c] # "DISCARD"}
  IN Cardinality(kept \cup Available) <= MaxConnectionPoolSize

\* The wait of thread t has been decided.
Decided(t) == \/ waiter[waitOf[t]].assigned # NoConn
              \/ waiter[waitOf[t]].exception # "null"
              \/ ~mIsOpen /\ waitOf[t] \notin Queued

\* A thread whose wait is decided before it parks will not block: the unpark is not lost,
\* wherever in the loop the decision met it.
NoLostUnpark ==
  \A t \in Thread :
    pc[t] \in {"arming", "looping", "recover", "parking"} /\ Decided(t) => permit[t]

\* While the pool is open, every waiter that got nothing yet can be found in the queue, so
\* a release can serve it and cancelConnectionWaiterLocked does not run off the queue.
NoLostWaiter ==
  mIsOpen => \A t \in Thread : Waiting(t) /\ ~Decided(t) => waitOf[t] \in Queued

\* The request could be satisfied now.
Satisfiable(wantPrimary) ==
  ~PrimaryNotAvailable \/ (~wantPrimary /\ ~NonPrimaryNotAvailable)

\* A leaked connection was collected and no thread has run the recovery yet.
RecoveryPending ==
  \/ collected # {} \/ mConnectionLeaked
  \/ \E t \in Thread : pc[t] = "recover"

\* No missed wake-up: whenever the lock is free, nobody waits for a connection that the
\* pool could hand out, except for leaks whose recovery is still to come.
NoMissedWakeup ==
  mIsOpen /\ LockFree /\ ~RecoveryPending =>
    \A w \in Queued : ~Satisfiable(waiter[w].wantPrimary)

\* The nonce: a cancellation only ever ends the wait whose signal was canceled, although
\* waiter objects are reused while old listeners are still being called.
CancelHitsItsWaiter ==
  \A t \in Thread :
    Waiting(t) /\ waiter[waitOf[t]].exception = "canceled"
      => signal[t] \in {"firing", "canceled"}

\* No barging: a thread that gets a connection without queueing gets one that no queued
\* waiter would accept.
NoBarging ==
  [][\A t \in Thread :
       pc[t] = "idle" /\ held'[t] # NoConn /\ ~RecoveryPending =>
         \A w \in Queued : waiter[w].wantPrimary /\ ~conn'[held'[t]].primary]_vars

\* The queue is served in priority order, first come first served within a priority: a new
\* waiter goes behind all of its priority, and the waiters that stay keep their places relative
\* to each other, whichever waiter is put in or leaves from the middle (waitForConnection,
\* wakeConnectionWaitersLocked, cancelConnectionWaiterLocked).
QueueOrder ==
  [][LET q == mConnectionWaiterQueue
     IN /\ \A i, j \in DOMAIN q' : i < j => waiter'[q'[i]].priority >= waiter'[q'[j]].priority
        /\ \A i, j \in DOMAIN q' : i < j /\ q'[i] \notin Range(q)
             => waiter'[q'[i]].priority > waiter'[q'[j]].priority
        /\ \A i, j \in DOMAIN q, k, l \in DOMAIN q' :
             i < j /\ q'[k] = q[i] /\ q'[l] = q[j] => k < l]_mConnectionWaiterQueue

\* Every wait ends: with a connection, an exception or the closing of the pool.
WaitEnds == \A t \in Thread : Waiting(t) ~> ~Waiting(t)

-----------------------------------------------------------------------------
(* What comments of the code say and the code does not do; each is refuted  *)
(* in the instance that README.md gives.                                   *)

\* "the invariant that opened connections are always owned": an acquired connection belongs
\* to the thread that holds it or waits for it (no thread ends without releasing).
AcquiredConnectionsOwned == \A c \in Acquired : Referenced(c)

\* "This might throw if the database is corrupt or cannot be opened in the new mode in
\* which case existing connections will remain untouched."
FailedReopenKeepsConnections ==
  [][\A config \in Configs : ReconfigureReopenFails(config) => UNCHANGED connVars]_vars

\* "Wait to be unparked (may already have happened), a timeout, or interruption": a thread
\* that is not interrupted leaves parkNanos with a permit or by the timeout.
ParkReturnsForACause ==
  [][\A t \in Thread : pc[t] = "parking" /\ pc'[t] = "checking" => permit[t]]_vars
=============================================================================
