------------------------ MODULE ConnectionPoolProofs ------------------------
(* Theorems about ConnectionPool, for every value of its constants: who       *)
(* holds what, and the interface it implements; then whom it serves and when: *)
(* the order of the queue, the wake-up loop and the size of the pool.         *)
EXTENDS ConnectionPool, QueueLemmas, FiniteSetTheorems, TLAPS

\* The insertion loop of waitForConnection stops at a place of the queue or behind its end.
LEMMA QueuePositionRange ==
  ASSUME NEW p, TypeOK
  PROVE  QueuePosition(p) \in 1 .. Len(mConnectionWaiterQueue) + 1
<1> DEFINE q == mConnectionWaiterQueue
           F == {i \in DOMAIN q : \A j \in 1 .. i : waiter[q[j]].priority >= p}
<1>1. q \in Seq(Waiter) /\ Len(q) \in Nat /\ DOMAIN q = 1 .. Len(q)
  BY DEF TypeOK
<1>2. IsFiniteSet(1 .. Len(q)) /\ Cardinality(1 .. Len(q)) = Len(q)
  BY <1>1, FS_Interval
<1>3. F \subseteq 1 .. Len(q)
  BY <1>1
<1>4. IsFiniteSet(F) /\ Cardinality(F) <= Len(q)
  BY <1>2, <1>3, FS_Subset
<1>5. Cardinality(F) \in Nat
  BY <1>4, FS_CardinalityType
<1> QED BY <1>1, <1>4, <1>5 DEF QueuePosition

-----------------------------------------------------------------------------
(* The inductive invariant.                                                *)

\* What a thread has is what its program counter says.
ThreadInv ==
  \A t \in Thread :
    /\ pc[t] = "holding" => held[t] \in Conn
    /\ held[t] # NoConn => pc[t] \in {"holding", "leaving"}
    /\ Waiting(t) => waitOf[t] \in Waiter
    /\ pc[t] \in {"idle", "holding", "ended"} => waitOf[t] = NoWaiter

\* Waiter objects: no two waits share one, those in the pool are blank and in nobody's use,
\* those in the queue are there once, belong to a waiting thread and have got nothing yet.
WaiterInv ==
  /\ Distinct(mConnectionWaiterQueue)
  /\ \A t \in Thread : Waiting(t) => waiter[waitOf[t]].thread = t
  /\ \A w \in mConnectionWaiterPool :
       /\ waiter[w] = BlankWaiter
       /\ w \notin Queued
       /\ \A t \in Thread : Waiting(t) => waitOf[t] # w
  /\ \A w \in Queued :
       /\ waiter[w].assigned = NoConn /\ waiter[w].exception = "null"
       /\ waiter[w].thread \in Thread
       /\ Waiting(waiter[w].thread)
       /\ waitOf[waiter[w].thread] = w

\* Closing empties the queue before the lock is released.
ClosedInv == ~mIsOpen => mConnectionWaiterQueue = <<>> \/ (scan.on /\ scan.pos = 1)

\* A nonce that still matches belongs to a wait in progress, unless the pool was closed.
NonceInv == \A t \in Thread : nonceMatches[t] /\ mIsOpen => Waiting(t)

\* Where a connection can be: on offer, acquired, or collected and not finalized.
PlaceInv ==
  /\ mAvailablePrimaryConnection # NoConn =>
       /\ conn[mAvailablePrimaryConnection].open
       /\ conn[mAvailablePrimaryConnection].primary
       /\ mAcquiredConnections[mAvailablePrimaryConnection] = "NONE"
       /\ mAvailablePrimaryConnection \notin collected
  /\ \A c \in mAvailableNonPrimaryConnections :
       /\ conn[c].open /\ ~conn[c].primary
       /\ mAcquiredConnections[c] = "NONE"
       /\ c \notin collected
  /\ \A c \in Conn : mAcquiredConnections[c] # "NONE" => conn[c].open /\ c \notin collected

\* Who owns a connection: owners are in the map of acquired connections, one at a time.
OwnerInv ==
  \A c \in Conn : \A t \in Thread :
    Owns(t, c) => /\ mAcquiredConnections[c] # "NONE"
                  /\ \A u \in Thread : Owns(u, c) => u = t

IInv == /\ TypeOK /\ ThreadInv /\ WaiterInv /\ ClosedInv /\ NonceInv /\ PlaceInv /\ OwnerInv
        /\ ReleasePrimaryFindsSlot /\ ConfigurationPropagated
        /\ NoLostWaiter /\ NoLostUnpark /\ CancelHitsItsWaiter

-----------------------------------------------------------------------------
(* Types.                                                                  *)

\* Acquiring a connection (tryAcquire...ConnectionLocked) keeps the connection state well formed.
LEMMA ObtainType ==
  ASSUME TypeOK, NEW a, NEW b, NEW c \in Conn, Obtain(a, b, c)
  PROVE  /\ mAvailablePrimaryConnection' \in Conn \cup {NoConn}
         /\ mAvailableNonPrimaryConnections' \in SUBSET Conn
         /\ mAcquiredConnections' \in [Conn -> Statuses \cup {"NONE"}]
         /\ conn' \in [Conn -> ConnRecord]
<1> USE DEF TypeOK
<1>1. \A p \in BOOLEAN : OpenConn(p, mConfiguration) \in ConnRecord
  BY DEF OpenConn, ConnRecord
<1>2. CASE tryAcquireNonPrimaryConnectionLocked(c)
  BY <1>1, <1>2 DEF tryAcquireNonPrimaryConnectionLocked, finishAcquireConnectionLocked, Statuses
<1>3. CASE tryAcquirePrimaryConnectionLocked(c)
  BY <1>1, <1>3 DEF tryAcquirePrimaryConnectionLocked, finishAcquireConnectionLocked, Statuses
<1> QED BY <1>2, <1>3 DEF Obtain

\* Unlinking and unparking the current waiter keeps queue and permits well formed.
LEMMA DismissType ==
  ASSUME TypeOK, scan.pos <= Len(mConnectionWaiterQueue), Dismiss
  PROVE  /\ Current \in Waiter
         /\ mConnectionWaiterQueue' \in Seq(Waiter)
         /\ permit' \in [Thread -> BOOLEAN]
<1>1. scan.pos \in 1 .. Len(mConnectionWaiterQueue)
  BY DEF TypeOK, ScanRecord
<1>2. Current \in Waiter
  BY <1>1 DEF TypeOK, Current
<1>3. mConnectionWaiterQueue' \in Seq(Waiter)
  BY <1>1, RemoveAtType DEF TypeOK, Dismiss, Unlink
<1> QED BY <1>2, <1>3 DEF TypeOK, Dismiss, Unpark

\* Closing connections keeps the connection table well formed.
LEMMA CloseAllType ==
  ASSUME TypeOK, NEW S
  PROVE  CloseAll(S) \in [Conn -> ConnRecord]
BY DEF TypeOK, ConnRecord, CloseAll, ClosedConn

\* Assigning a connection or an exception to a waiter keeps the waiters well formed.
LEMMA WaiterFieldType ==
  ASSUME TypeOK, NEW w \in Waiter
  PROVE  /\ \A c \in Conn \cup {NoConn} :
              [waiter EXCEPT ![w].assigned = c] \in [Waiter -> WaiterRecord]
         /\ \A x \in {"null", "open", "canceled"} :
              [waiter EXCEPT ![w].exception = x] \in [Waiter -> WaiterRecord]
<1>1. waiter \in [Waiter -> WaiterRecord]
  BY DEF TypeOK
<1>2. waiter[w] \in WaiterRecord
  BY <1>1
<1>3. \A c \in Conn \cup {NoConn} : [waiter[w] EXCEPT !.assigned = c] \in WaiterRecord
  BY <1>2 DEF WaiterRecord
<1>4. \A x \in {"null", "open", "canceled"} : [waiter[w] EXCEPT !.exception = x] \in WaiterRecord
  BY <1>2 DEF WaiterRecord
<1> QED BY <1>1, <1>3, <1>4

\* cancelConnectionWaiterLocked keeps what it writes well formed.
LEMMA CancelType ==
  ASSUME TypeOK, NEW w, cancelConnectionWaiterLocked(w)
  PROVE  /\ mConnectionWaiterQueue' \in Seq(Waiter)
         /\ mConnectionWaiterPool' \in SUBSET Waiter
         /\ waiter' \in [Waiter -> WaiterRecord]
         /\ permit' \in [Thread -> BOOLEAN]
         /\ scan' \in ScanRecord
<1>1. CASE UNCHANGED <<waiterVars, permit, scan>>
  BY <1>1 DEF TypeOK, waiterVars
<1>2. CASE ~UNCHANGED <<waiterVars, permit, scan>>
  <2>1. PICK i \in DOMAIN mConnectionWaiterQueue : mConnectionWaiterQueue[i] = w /\ Unlink(i)
    BY <1>2 DEF cancelConnectionWaiterLocked
  <2>2. i \in 1 .. Len(mConnectionWaiterQueue) /\ w \in Waiter
    BY <2>1 DEF TypeOK
  <2>3. mConnectionWaiterQueue' \in Seq(Waiter)
    BY <2>1, <2>2, RemoveAtType DEF TypeOK, Unlink
  <2>4. /\ waiter' = [waiter EXCEPT ![w].exception = "canceled"]
        /\ Unpark(w)
        /\ scan' = StartScan
        /\ UNCHANGED mConnectionWaiterPool
    BY <1>2 DEF cancelConnectionWaiterLocked
  <2>5. waiter' \in [Waiter -> WaiterRecord]
    BY <2>2, <2>4, WaiterFieldType
  <2>6. permit' \in [Thread -> BOOLEAN]
    BY <2>4 DEF TypeOK, Unpark
  <2>7. scan' \in ScanRecord
    BY <2>4 DEF StartScan, Scan, ScanRecord
  <2> QED BY <2>3, <2>4, <2>5, <2>6, <2>7 DEF TypeOK
<1> QED BY <1>1, <1>2

\* So does the cancellation listener, with or without a matching nonce.
LEMMA OnCancelType ==
  ASSUME TypeOK, NEW t, OnCancelOf(t)
  PROVE  /\ mConnectionWaiterQueue' \in Seq(Waiter)
         /\ mConnectionWaiterPool' \in SUBSET Waiter
         /\ waiter' \in [Waiter -> WaiterRecord]
         /\ permit' \in [Thread -> BOOLEAN]
         /\ scan' \in ScanRecord
<1>1. CASE nonceMatches[t]
  BY <1>1, CancelType DEF OnCancelOf
<1>2. CASE ~nonceMatches[t]
  BY <1>2 DEF OnCancelOf, TypeOK, waiterVars
<1> QED BY <1>1, <1>2

\* obtainConnectionWaiterLocked changes one waiter object only and gives it to the caller.
LEMMA ObtainWaiterType ==
  ASSUME TypeOK, NEW w \in Waiter, NEW t \in Thread, NEW r \in Requests,
         obtainConnectionWaiterLocked(w, t, r)
  PROVE  /\ waiter' \in [Waiter -> WaiterRecord]
         /\ mConnectionWaiterPool' \in SUBSET Waiter
         /\ waiter' = [waiter EXCEPT ![w] = waiter'[w]]
         /\ waiter'[w].thread = t
<1>0. /\ r.priority \in {0, 1} /\ r.wantPrimary \in BOOLEAN
      /\ waiter \in [Waiter -> WaiterRecord] /\ waiter[w] \in WaiterRecord
      /\ mConnectionWaiterPool \in SUBSET Waiter
  BY PoolAssumption DEF TypeOK
<1>1. CASE w \in mConnectionWaiterPool
            /\ mConnectionWaiterPool' = mConnectionWaiterPool \ {w}
            /\ waiter' = [waiter EXCEPT ![w].thread = t, ![w].priority = r.priority,
                                 ![w].wantPrimary = r.wantPrimary]
  <2> DEFINE new == [waiter[w] EXCEPT !.thread = t, !.priority = r.priority,
                                 !.wantPrimary = r.wantPrimary]
  <2>1. new \in WaiterRecord /\ new.thread = t
    BY <1>0 DEF WaiterRecord
  <2>2. waiter' = [waiter EXCEPT ![w] = new]
    BY <1>0, <1>1
  <2> QED BY <1>0, <1>1, <2>1, <2>2
<1>2. CASE UNCHANGED mConnectionWaiterPool
            /\ waiter' = [waiter EXCEPT ![w] =
                     [BlankWaiter EXCEPT !.thread = t, !.priority = r.priority,
                                         !.wantPrimary = r.wantPrimary]]
  <2>1. BlankWaiter \in WaiterRecord
    BY DEF BlankWaiter, WaiterRecord
  <2> DEFINE new == [BlankWaiter EXCEPT !.thread = t, !.priority = r.priority,
                                 !.wantPrimary = r.wantPrimary]
  <2>2. new \in WaiterRecord /\ new.thread = t
    BY <1>0, <2>1 DEF WaiterRecord
  <2> QED BY <1>0, <1>2, <2>2
<1> QED BY <1>1, <1>2 DEF obtainConnectionWaiterLocked

\* releaseConnection keeps the connection state and the scan well formed.
LEMMA ReleaseType ==
  ASSUME TypeOK, ThreadInv, NEW t \in Thread, ReleaseConnection(t)
  PROVE  /\ held[t] \in Conn
         /\ conn' \in [Conn -> ConnRecord]
         /\ mAvailablePrimaryConnection' \in Conn \cup {NoConn}
         /\ mAvailableNonPrimaryConnections' \in SUBSET Conn
         /\ scan' \in ScanRecord
<1>1. held[t] \in Conn
  BY DEF ReleaseConnection, ThreadInv
<1>2. CASE ReleaseClosing(t)
  BY <1>1, <1>2, CloseAllType DEF TypeOK, ReleaseClosing
<1>3. CASE ReleaseRecycling(t)
  <2>1. PICK keep \in BOOLEAN :
          /\ recycleConnectionLocked(held[t], keep)
          /\ mAvailablePrimaryConnection' =
               IF keep /\ conn[held[t]].primary THEN held[t] ELSE mAvailablePrimaryConnection
          /\ mAvailableNonPrimaryConnections' = mAvailableNonPrimaryConnections
               \cup (IF keep /\ ~conn[held[t]].primary THEN {held[t]} ELSE {})
    BY <1>3 DEF ReleaseRecycling
  <2>2. RecycledConfig(held[t]) \in Configs \cup {NoConfig} /\ conn[held[t]] \in ConnRecord
    BY <1>1 DEF TypeOK, RecycledConfig, ConnRecord
  <2>3. [conn[held[t]] EXCEPT !.config = RecycledConfig(held[t])] \in ConnRecord
    BY <2>2 DEF ConnRecord
  <2>4. ClosedConn \in ConnRecord
    BY DEF ClosedConn, ConnRecord
  <2>5. conn' \in [Conn -> ConnRecord]
    BY <1>1, <2>1, <2>3, <2>4 DEF TypeOK, recycleConnectionLocked
  <2>6. scan' \in ScanRecord
    BY <1>3 DEF ReleaseRecycling, StartScan, Scan, ScanRecord
  <2> QED BY <1>1, <2>1, <2>5, <2>6 DEF TypeOK
<1> QED BY <1>1, <1>2, <1>3 DEF ReleaseConnection

\* reconfigure keeps the state well formed, whether the reopening succeeds or not.
LEMMA ReconfigureType ==
  ASSUME TypeOK, NEW config \in Configs, reconfigure(config)
  PROVE  TypeOK'
<1>1. StartScan \in ScanRecord
  BY DEF StartScan, Scan, ScanRecord
<1>2. \A status \in Statuses : MarkAcquired(status) \in [Conn -> Statuses \cup {"NONE"}]
  BY DEF TypeOK, MarkAcquired
<1>3. CASE ReconfigureReopen(config)
  <2>1. PICK p \in Conn : /\ conn' = [CloseAll(Available) EXCEPT ![p] = OpenConn(TRUE, config)]
                           /\ mAvailablePrimaryConnection' = p
    BY <1>3 DEF ReconfigureReopen
  <2>2. OpenConn(TRUE, config) \in ConnRecord
    BY DEF OpenConn, ConnRecord
  <2>3. conn' \in [Conn -> ConnRecord]
    BY <2>1, <2>2, CloseAllType
  <2> QED BY <1>1, <1>2, <1>3, <2>1, <2>3
       DEF TypeOK, ReconfigureReopen, Statuses, leakVars, waiterVars, threadVars, localVars
<1>4. CASE ReconfigureReopenFails(config)
  <2>1. conn' \in [Conn -> ConnRecord]
    BY <1>4, CloseAllType DEF TypeOK, ReconfigureReopenFails
  <2> QED BY <1>4, <2>1
       DEF TypeOK, ReconfigureReopenFails, configVars, leakVars, waiterVars, threadVars, localVars
<1>5. CASE ReconfigureInPlace(config)
  <2>1. ClosedConn \in ConnRecord
    BY DEF ClosedConn, ConnRecord
  <2>2. \A c \in Conn : conn[c] \in ConnRecord /\ [conn[c] EXCEPT !.config = config] \in ConnRecord
    BY DEF TypeOK, ConnRecord
  <2>3. conn' \in [Conn -> ConnRecord]
    BY <1>5, <2>1, <2>2 DEF ReconfigureInPlace
  <2>4. /\ mAvailablePrimaryConnection' \in Conn \cup {NoConn}
        /\ mAvailableNonPrimaryConnections' \in SUBSET Conn
    BY <1>5 DEF TypeOK, ReconfigureInPlace
  <2> QED BY <1>1, <1>2, <1>5, <2>3, <2>4
       DEF TypeOK, ReconfigureInPlace, Statuses, leakVars, waiterVars, threadVars, localVars
<1> QED BY <1>3, <1>4, <1>5 DEF reconfigure

\* Every step of the pool keeps the state well formed; one case per action.
LEMMA TypeStep ==
  ASSUME TypeOK, ThreadInv, Next
  PROVE  TypeOK'
<1>1. CASE WakeClosed
  BY <1>1, DismissType DEF TypeOK, WakeClosed, poolVars, configVars, connVars, leakVars
<1>2. ASSUME NEW c \in Conn, WakeAssign(c) PROVE TypeOK'
  <2>2. Current \in Waiter
    BY <1>2, DismissType DEF WakeAssign
  <2>3. waiter' \in [Waiter -> WaiterRecord]
    BY <1>2, <2>2, WaiterFieldType DEF WakeAssign
  <2>4. scan' \in ScanRecord
    BY <1>2 DEF TypeOK, ScanRecord, WakeAssign, NonPrimaryTriedInVain, TryNonPrimary
  <2> QED BY <1>2, <2>3, <2>4, DismissType, ObtainType
       DEF TypeOK, WakeAssign, configVars, leakVars
<1>3. CASE WakeThrow
  <2>2. Current \in Waiter
    BY <1>3, DismissType DEF WakeThrow
  <2>3. waiter' \in [Waiter -> WaiterRecord]
    BY <1>3, <2>2, WaiterFieldType DEF WakeThrow
  <2>4. scan' \in ScanRecord
    BY <1>3 DEF TypeOK, ScanRecord, WakeThrow, NonPrimaryTriedInVain, TryNonPrimary
  <2> QED BY <1>3, <2>3, <2>4, DismissType
       DEF TypeOK, WakeThrow, ObtainThrows, configVars, leakVars, connVars
<1>4. CASE WakeSkip
  <2>1. scan' \in ScanRecord
    BY <1>4 DEF TypeOK, ScanRecord, WakeSkip, AfterSkip, NoScan, Scan
  <2> QED BY <1>4, <2>1
       DEF TypeOK, WakeSkip, ObtainNothing, configVars, leakVars, connVars, waiterVars,
           threadVars, localVars
<1>5. CASE WakeEnd
  BY <1>5 DEF TypeOK, ScanRecord, WakeEnd, NoScan, Scan, poolVars, configVars, leakVars,
              connVars, waiterVars, threadVars, localVars
<1>6. ASSUME NEW t \in Thread, NEW r \in Requests, AcquireNow(t, r) PROVE TypeOK'
  <2>2. PICK c \in Conn : Obtain(~r.wantPrimary, TRUE, c) /\ held' = [held EXCEPT ![t] = c]
    BY <1>6 DEF AcquireNow
  <2> QED BY <1>6, <2>2, ObtainType
       DEF TypeOK, AcquireNow, configVars, leakVars, waiterVars, Pcs
<1>7. ASSUME NEW t \in Thread, NEW r \in Requests, AcquireThrows(t, r) PROVE TypeOK'
  BY <1>7 DEF TypeOK, AcquireThrows, ObtainThrows, configVars, leakVars, connVars, waiterVars,
              threadVars, localVars
<1>8. ASSUME NEW t \in Thread, NEW r \in Requests, Enqueue(t, r) PROVE TypeOK'
  <2>1. PICK w \in Waiter :
             /\ obtainConnectionWaiterLocked(w, t, r)
             /\ mConnectionWaiterQueue' =
                  InsertAt(mConnectionWaiterQueue, QueuePosition(r.priority), w)
             /\ waitOf' = [waitOf EXCEPT ![t] = w]
    BY <1>8 DEF Enqueue
  <2>2. mConnectionWaiterQueue' \in Seq(Waiter)
    BY <2>1, QueuePositionRange, InsertAtType DEF TypeOK
  <2>3. waiter' \in [Waiter -> WaiterRecord] /\ mConnectionWaiterPool' \in SUBSET Waiter
    BY <2>1, ObtainWaiterType
  <2> QED BY <1>8, <2>1, <2>2, <2>3
       DEF TypeOK, Enqueue, ObtainNothing, configVars, leakVars, connVars, Pcs, WaitingPcs, Signals
<1>9. ASSUME NEW t \in Thread, SetListener(t) PROVE TypeOK'
  <2>1. \/ UNCHANGED <<waiterVars, permit, scan>>
        \/ OnCancelOf(t)
    BY <1>9 DEF SetListener, waiterVars
  <2>2. /\ mConnectionWaiterQueue' \in Seq(Waiter)
        /\ mConnectionWaiterPool' \in SUBSET Waiter
        /\ waiter' \in [Waiter -> WaiterRecord]
        /\ permit' \in [Thread -> BOOLEAN]
        /\ scan' \in ScanRecord
    BY <2>1, OnCancelType DEF TypeOK, waiterVars
  <2>3. pc' \in [Thread -> Pcs] /\ signal' \in [Thread -> Signals]
    BY <1>9 DEF TypeOK, SetListener, Pcs, WaitingPcs, Signals
  <2> QED BY <1>9, <2>2, <2>3
       DEF TypeOK, SetListener, poolVars, configVars, leakVars, connVars
<1>10. ASSUME NEW t \in Thread, CheckLeaked(t) PROVE TypeOK'
  BY <1>10 DEF TypeOK, CheckLeaked, configVars, connVars, waiterVars, Pcs, WaitingPcs
<1>11. ASSUME NEW t \in Thread, Recover(t) PROVE TypeOK'
  BY <1>11 DEF TypeOK, Recover, StartScan, Scan, ScanRecord, poolVars, configVars, leakVars,
               connVars, waiterVars, localVars, Pcs, WaitingPcs
<1>12. ASSUME NEW t \in Thread, Park(t) \/ ParkTimeout(t) \/ ParkInterrupted(t) PROVE TypeOK'
  BY <1>12 DEF TypeOK, Park, ParkTimeout, ParkInterrupted, poolVars, configVars, leakVars,
               connVars, waiterVars, localVars, Pcs, WaitingPcs
<1>13. ASSUME NEW t \in Thread, CheckClosed(t) \/ CheckAgain(t) PROVE TypeOK'
  BY <1>13 DEF TypeOK, CheckClosed, CheckAgain, poolVars, configVars, leakVars,
               connVars, waiterVars, localVars, Pcs, WaitingPcs
<1>14. ASSUME NEW t \in Thread, CheckDone(t) PROVE TypeOK'
  <2>1. waitOf[t] \in Waiter
    BY <1>14 DEF CheckDone, ThreadInv, Waiting, WaitingPcs
  <2>2. waiter[waitOf[t]].assigned \in Conn \cup {NoConn}
    BY <2>1 DEF TypeOK, WaiterRecord
  <2>3. BlankWaiter \in WaiterRecord
    BY DEF BlankWaiter, WaiterRecord
  <2> QED BY <1>14, <2>1, <2>2, <2>3
       DEF TypeOK, CheckDone, recycleConnectionWaiterLocked, Recycled, poolVars, configVars,
           leakVars, connVars, Pcs
<1>15. ASSUME NEW t \in Thread, RemoveListener(t) PROVE TypeOK'
  BY <1>15 DEF TypeOK, RemoveListener, poolVars, configVars, leakVars, connVars, waiterVars,
               Pcs, Signals
<1>16. ASSUME NEW t \in Thread, Cancel(t) PROVE TypeOK'
  BY <1>16 DEF TypeOK, Cancel, poolVars, configVars, leakVars, connVars, waiterVars, Signals
<1>17. ASSUME NEW t \in Thread, OnCancel(t) PROVE TypeOK'
  BY <1>17, OnCancelType
     DEF TypeOK, OnCancel, poolVars, configVars, leakVars, connVars, Signals
<1>18. ASSUME NEW t \in Thread, ReleaseConnection(t) PROVE TypeOK'
  BY <1>18, ReleaseType
     DEF TypeOK, ReleaseConnection, configVars, leakVars, waiterVars, Pcs, Statuses
<1>19. ASSUME NEW t \in Thread, Leak(t) PROVE TypeOK'
  BY <1>19 DEF TypeOK, Leak, poolVars, configVars, leakVars, connVars, waiterVars, Pcs
<1>20. CASE ClosePool
  <2>1. conn' \in [Conn -> ConnRecord]
    BY <1>20, CloseAllType DEF ClosePool
  <2>2. scan' \in ScanRecord
    BY <1>20 DEF ClosePool, StartScan, Scan, ScanRecord
  <2> QED BY <1>20, <2>1, <2>2 DEF TypeOK, ClosePool, leakVars, waiterVars, threadVars, localVars
<1>21. ASSUME NEW config \in Configs, reconfigure(config) PROVE TypeOK'
  BY <1>21, ReconfigureType
<1>22. ASSUME NEW c \in Conn, Collect(c) PROVE TypeOK'
  BY <1>22 DEF TypeOK, Collect, configVars, waiterVars, threadVars, localVars, Statuses
<1>23. ASSUME NEW c \in Conn, FinalizeConnection(c) PROVE TypeOK'
  BY <1>23, CloseAllType
     DEF TypeOK, FinalizeConnection, onConnectionLeaked, configVars, waiterVars, threadVars, localVars
<1> QED BY <1>1, <1>2, <1>3, <1>4, <1>5, <1>6, <1>7, <1>8, <1>9, <1>10, <1>11, <1>12, <1>13,
          <1>14, <1>15, <1>16, <1>17, <1>18, <1>19, <1>20, <1>21, <1>22, <1>23
     DEF Next, WakeConnectionWaiters, ThreadStep, acquireConnection, WaitStep, Check

-----------------------------------------------------------------------------
(* What the operations on waiters do, in terms of the set of queued waiters. *)

\* The queue holds waiter objects.
LEMMA QueuedType ==
  ASSUME TypeOK
  PROVE  Queued \subseteq Waiter
BY DEF TypeOK, Queued, Range

\* A step of wakeConnectionWaitersLocked takes exactly the current waiter out of the queue.
LEMMA Dismissed ==
  ASSUME TypeOK, WaiterInv, scan.pos <= Len(mConnectionWaiterQueue), Dismiss
  PROVE  /\ Current \in Waiter /\ Current \in Queued
         /\ Queued' = Queued \ {Current}
         /\ Distinct(mConnectionWaiterQueue)'
         /\ permit' = [permit EXCEPT ![waiter[Current].thread] = TRUE]
<1>1. scan.pos \in DOMAIN mConnectionWaiterQueue /\ mConnectionWaiterQueue \in Seq(Waiter)
  BY DEF TypeOK, ScanRecord
<1>2. Current \in Waiter /\ Current \in Queued
  BY <1>1 DEF Current, Queued, Range
<1>3. /\ Range(mConnectionWaiterQueue') = Range(mConnectionWaiterQueue) \ {Current}
      /\ Distinct(mConnectionWaiterQueue')
  BY <1>1, RemoveAtRange DEF Dismiss, Unlink, Current, WaiterInv
<1>4. Distinct(mConnectionWaiterQueue)'
  BY <1>3 DEF Distinct
<1> QED BY <1>2, <1>3, <1>4 DEF Dismiss, Unpark, Queued

\* A cancellation that has an effect takes exactly the canceled waiter out of the queue.
LEMMA Canceled ==
  ASSUME TypeOK, WaiterInv, NEW w, cancelConnectionWaiterLocked(w),
         ~UNCHANGED <<waiterVars, permit, scan>>
  PROVE  /\ w \in Waiter /\ w \in Queued
         /\ Queued' = Queued \ {w}
         /\ Distinct(mConnectionWaiterQueue)'
         /\ waiter' = [waiter EXCEPT ![w].exception = "canceled"]
         /\ permit' = [permit EXCEPT ![waiter[w].thread] = TRUE]
         /\ scan' = StartScan
         /\ UNCHANGED mConnectionWaiterPool
<1>1. PICK i \in DOMAIN mConnectionWaiterQueue : mConnectionWaiterQueue[i] = w /\ Unlink(i)
  BY DEF cancelConnectionWaiterLocked
<1>2. w \in Waiter /\ w \in Queued /\ mConnectionWaiterQueue \in Seq(Waiter)
  BY <1>1 DEF TypeOK, Queued, Range
<1>3. /\ Range(mConnectionWaiterQueue') = Range(mConnectionWaiterQueue) \ {w}
      /\ Distinct(mConnectionWaiterQueue')
  BY <1>1, <1>2, RemoveAtRange DEF Unlink, WaiterInv
<1>4. Distinct(mConnectionWaiterQueue)'
  BY <1>3 DEF Distinct
<1>5. /\ waiter' = [waiter EXCEPT ![w].exception = "canceled"]
      /\ Unpark(w) /\ scan' = StartScan /\ UNCHANGED mConnectionWaiterPool
  BY DEF cancelConnectionWaiterLocked
<1> QED BY <1>2, <1>3, <1>4, <1>5 DEF Unpark, Queued

\* waitForConnection adds exactly one waiter to the queue, one that no other wait uses and
\* that carries nothing over from an earlier wait.
LEMMA Enqueued ==
  ASSUME TypeOK, ThreadInv, WaiterInv, NEW t \in Thread, NEW r \in Requests, Enqueue(t, r)
  PROVE  \E w \in Waiter :
           /\ w \notin Queued
           /\ \A u \in Thread : Waiting(u) => waitOf[u] # w
           /\ Queued' = Queued \cup {w}
           /\ Distinct(mConnectionWaiterQueue)'
           /\ waiter' = [waiter EXCEPT ![w] = waiter'[w]]
           /\ waiter'[w].thread = t
           /\ waiter'[w].assigned = NoConn /\ waiter'[w].exception = "null"
           /\ mConnectionWaiterPool' = mConnectionWaiterPool \ {w}
           /\ waitOf' = [waitOf EXCEPT ![t] = w]
<1>1. PICK w \in Waiter :
             /\ obtainConnectionWaiterLocked(w, t, r)
             /\ mConnectionWaiterQueue' =
                  InsertAt(mConnectionWaiterQueue, QueuePosition(r.priority), w)
             /\ waitOf' = [waitOf EXCEPT ![t] = w]
  BY DEF Enqueue
<1>2. /\ waiter' = [waiter EXCEPT ![w] = waiter'[w]] /\ waiter'[w].thread = t
      /\ waiter \in [Waiter -> WaiterRecord]
  BY <1>1, ObtainWaiterType DEF TypeOK
<1>3. /\ w \notin Queued
      /\ \A u \in Thread : Waiting(u) => waitOf[u] # w
      /\ mConnectionWaiterPool' = mConnectionWaiterPool \ {w}
  BY <1>1 DEF obtainConnectionWaiterLocked, UnusedWaiter, WaiterInv
<1>4. waiter'[w].assigned = NoConn /\ waiter'[w].exception = "null"
  <2>1. CASE w \in mConnectionWaiterPool
    <3>1. waiter[w] = BlankWaiter
      BY <2>1 DEF WaiterInv
    <3>2. waiter' = [waiter EXCEPT ![w] = [BlankWaiter EXCEPT !.thread = t,
                         !.priority = r.priority, !.wantPrimary = r.wantPrimary]]
      BY <1>1, <1>2, <2>1, <3>1 DEF obtainConnectionWaiterLocked
    <3> QED BY <1>2, <3>2 DEF BlankWaiter
  <2>2. CASE w \notin mConnectionWaiterPool
    BY <1>1, <1>2, <2>2 DEF obtainConnectionWaiterLocked, BlankWaiter
  <2> QED BY <2>1, <2>2
<1>5. QueuePosition(r.priority) \in 1 .. Len(mConnectionWaiterQueue) + 1
  BY QueuePositionRange
<1>6. /\ Range(mConnectionWaiterQueue') = Range(mConnectionWaiterQueue) \cup {w}
      /\ Distinct(mConnectionWaiterQueue')
  BY <1>1, <1>3, <1>5, InsertAtRange DEF TypeOK, WaiterInv, Queued
<1>7. Distinct(mConnectionWaiterQueue)'
  BY <1>6 DEF Distinct
<1> QED BY <1>1, <1>2, <1>3, <1>4, <1>6, <1>7 DEF Queued

-----------------------------------------------------------------------------
(* Threads and waiters. *)

\* What a thread has stays in step with its program counter.
LEMMA ThreadStepInv ==
  ASSUME TypeOK, ThreadInv, WaiterInv, Next
  PROVE  ThreadInv'
<1> USE PoolAssumption DEF ThreadInv, Waiting, WaitingPcs, TypeOK
<1>1. CASE UNCHANGED <<pc, held, waitOf>>
  BY <1>1
<1>2. ASSUME NEW t \in Thread, NEW r \in Requests, AcquireNow(t, r) PROVE ThreadInv'
  BY <1>2 DEF AcquireNow
<1>3. ASSUME NEW t \in Thread, NEW r \in Requests, Enqueue(t, r) PROVE ThreadInv'
  BY <1>3 DEF Enqueue
<1>4. ASSUME NEW t \in Thread, SetListener(t) \/ CheckLeaked(t) \/ Recover(t) \/ Park(t)
                                 \/ ParkTimeout(t) \/ ParkInterrupted(t)
      PROVE ThreadInv'
  BY <1>4 DEF SetListener, CheckLeaked, Recover, Park, ParkTimeout, ParkInterrupted, localVars
<1>5. ASSUME NEW t \in Thread, Check(t) PROVE ThreadInv'
  BY <1>5 DEF Check, CheckClosed, CheckAgain, CheckDone, localVars
<1>6. ASSUME NEW t \in Thread, RemoveListener(t) \/ ReleaseConnection(t) \/ Leak(t) PROVE ThreadInv'
  BY <1>6 DEF RemoveListener, ReleaseConnection, Leak
<1>7. ASSUME NEW t \in Thread, NEW r \in Requests, AcquireThrows(t, r) PROVE ThreadInv'
  BY <1>1, <1>7 DEF AcquireThrows, threadVars, localVars
<1>8. ASSUME NEW t \in Thread, Cancel(t) \/ OnCancel(t) PROVE ThreadInv'
  BY <1>1, <1>8 DEF Cancel, OnCancel
<1>9. CASE WakeConnectionWaiters \/ ClosePool
  BY <1>1, <1>9 DEF WakeConnectionWaiters, WakeClosed, WakeAssign, WakeThrow, WakeSkip, WakeEnd,
                    ClosePool, threadVars, localVars
<1>10. ASSUME NEW config \in Configs, reconfigure(config) PROVE ThreadInv'
  BY <1>1, <1>10 DEF reconfigure, ReconfigureReopen, ReconfigureReopenFails, ReconfigureInPlace,
                     threadVars, localVars
<1>11. ASSUME NEW c \in Conn, Collect(c) \/ FinalizeConnection(c) PROVE ThreadInv'
  BY <1>1, <1>11 DEF Collect, FinalizeConnection, threadVars, localVars
<1> QED BY <1>2, <1>3, <1>4, <1>5, <1>6, <1>7, <1>8, <1>9, <1>10, <1>11
     DEF Next, ThreadStep, acquireConnection, WaitStep

\* Steps that touch neither waiters nor who waits preserve the waiter invariant.
LEMMA WaiterFrame ==
  ASSUME TypeOK, WaiterInv, UNCHANGED <<waiterVars, waitOf>>,
         \A t \in Thread : Waiting(t)' <=> Waiting(t)
  PROVE  WaiterInv'
BY DEF WaiterInv, waiterVars, Queued, Distinct

\* Deciding a waiter and taking it out of the queue preserves the waiter invariant.
LEMMA WaiterDropped ==
  ASSUME TypeOK, ThreadInv, WaiterInv, UNCHANGED <<pc, waitOf, mConnectionWaiterPool>>,
         NEW w \in Queued, Queued' = Queued \ {w}, Distinct(mConnectionWaiterQueue)',
         NEW new, waiter' = [waiter EXCEPT ![w] = new], new.thread = waiter[w].thread
  PROVE  WaiterInv'
<1>1. w \in Waiter /\ waiter \in [Waiter -> WaiterRecord]
  BY DEF TypeOK, Queued, Range
<1>2. \A t \in Thread : Waiting(t)' <=> Waiting(t)
  BY DEF Waiting
<1>3. \A t \in Thread : Waiting(t)' => waiter'[waitOf'[t]].thread = t
  BY <1>1, <1>2 DEF WaiterInv
<1>4. \A v \in Queued' : v # w /\ v \in Queued /\ v \in Waiter /\ waiter'[v] = waiter[v]
  BY <1>1 DEF TypeOK, Queued, Range
<1>5. \A v \in mConnectionWaiterPool' : v # w /\ v \in Waiter /\ waiter'[v] = waiter[v]
  BY <1>1 DEF TypeOK, WaiterInv
<1> QED BY <1>2, <1>3, <1>4, <1>5 DEF WaiterInv

\* So does canceling one.
LEMMA WaiterCancel ==
  ASSUME TypeOK, ThreadInv, WaiterInv, NEW t, OnCancelOf(t), UNCHANGED waitOf,
         \A u \in Thread : Waiting(u)' <=> Waiting(u)
  PROVE  WaiterInv'
<1>1. CASE UNCHANGED <<waiterVars, permit, scan>>
  BY <1>1, WaiterFrame DEF waiterVars
<1>2. CASE ~UNCHANGED <<waiterVars, permit, scan>>
  <2> DEFINE w == waitOf[t]
  <2>1. cancelConnectionWaiterLocked(w)
    BY <1>2 DEF OnCancelOf
  <2>2. /\ w \in Waiter /\ w \in Queued
        /\ Queued' = Queued \ {w}
        /\ Distinct(mConnectionWaiterQueue)'
        /\ waiter' = [waiter EXCEPT ![w].exception = "canceled"]
        /\ UNCHANGED mConnectionWaiterPool
    BY <1>2, <2>1, Canceled
  <2> HIDE DEF w
  <2>3. waiter \in [Waiter -> WaiterRecord]
    BY DEF TypeOK
  <2>4. waiter[w] \in WaiterRecord /\ waiter'[w].thread = waiter[w].thread
    BY <2>2, <2>3 DEF WaiterRecord
  <2>5. \A v \in Waiter \ {w} : waiter'[v] = waiter[v]
    BY <2>2, <2>3
  <2>6. \A u \in Thread : Waiting(u)' => waiter'[waitOf'[u]].thread = u
    BY <2>4, <2>5 DEF WaiterInv, ThreadInv
  <2>7. \A v \in Queued' : v # w /\ v \in Queued /\ v \in Waiter
    BY <2>2, QueuedType
  <2>8. \A v \in mConnectionWaiterPool' : v # w /\ v \in Waiter /\ v \in mConnectionWaiterPool
    BY <2>2 DEF TypeOK, WaiterInv
  <2>9. \A v \in mConnectionWaiterPool' :
          waiter'[v] = BlankWaiter /\ v \notin Queued' /\ \A u \in Thread : Waiting(u)' => waitOf'[u] # v
    BY <2>2, <2>5, <2>8 DEF WaiterInv
  <2>10. \A v \in Queued' : waiter'[v] = waiter[v] /\ waiter[v].thread \in Thread
    BY <2>5, <2>7 DEF WaiterInv
  <2> QED BY <2>2, <2>6, <2>7, <2>9, <2>10 DEF WaiterInv
<1> QED BY <1>1, <1>2

\* Waiter objects are never shared, queued twice or recycled while in use; one case per action.
LEMMA WaiterStep ==
  ASSUME TypeOK, ThreadInv, WaiterInv, ClosedInv, Next
  PROVE  WaiterInv'
<1>1. CASE WakeClosed
  <2>1. UNCHANGED <<pc, waitOf, mConnectionWaiterPool, waiter>> /\ Dismiss
    BY <1>1 DEF WakeClosed
  <2>2. Current \in Queued /\ Queued' = Queued \ {Current} /\ Distinct(mConnectionWaiterQueue)'
    BY <1>1, Dismissed DEF WakeClosed
  <2> QED BY <2>1, <2>2 DEF WaiterInv, Waiting
<1>2. ASSUME WakeThrow \/ \E c \in Conn : WakeAssign(c)
      PROVE  WaiterInv'
  <2>1. /\ UNCHANGED <<pc, waitOf, mConnectionWaiterPool>>
        /\ Dismiss /\ scan.pos <= Len(mConnectionWaiterQueue)
        /\ \/ waiter' = [waiter EXCEPT ![Current].exception = "open"]
           \/ \E c \in Conn : waiter' = [waiter EXCEPT ![Current].assigned = c]
    BY <1>2 DEF WakeThrow, WakeAssign
  <2>2. /\ Current \in Queued /\ Current \in Waiter
        /\ Queued' = Queued \ {Current} /\ Distinct(mConnectionWaiterQueue)'
    BY <2>1, Dismissed
  <2>3. waiter \in [Waiter -> WaiterRecord] /\ waiter[Current] \in WaiterRecord
    BY <2>2 DEF TypeOK
  <2>4. /\ waiter' = [waiter EXCEPT ![Current] = waiter'[Current]]
        /\ waiter'[Current].thread = waiter[Current].thread
    BY <2>1, <2>2, <2>3 DEF WaiterRecord
  <2> QED BY <2>1, <2>2, <2>4, WaiterDropped
<1>3. CASE WakeSkip \/ WakeEnd
  BY <1>3, WaiterFrame DEF WakeSkip, WakeEnd, threadVars, localVars, waiterVars, Waiting
<1>4. ASSUME NEW t \in Thread, NEW r \in Requests, AcquireNow(t, r) \/ AcquireThrows(t, r)
      PROVE  WaiterInv'
  <2>1. UNCHANGED <<waiterVars, waitOf>>
    BY <1>4 DEF AcquireNow, AcquireThrows, threadVars, localVars
  <2>2. pc[t] = "idle" /\ (pc' = [pc EXCEPT ![t] = "holding"] \/ pc' = pc)
    BY <1>4 DEF AcquireNow, AcquireThrows, threadVars
  <2>3. \A u \in Thread : Waiting(u)' <=> Waiting(u)
    BY <2>2 DEF Waiting, WaitingPcs, TypeOK
  <2> QED BY <2>1, <2>3, WaiterFrame
<1>5. ASSUME NEW t \in Thread, NEW r \in Requests, Enqueue(t, r) PROVE WaiterInv'
  <2>1. PICK w \in Waiter :
           /\ w \notin Queued
           /\ \A u \in Thread : Waiting(u) => waitOf[u] # w
           /\ Queued' = Queued \cup {w}
           /\ Distinct(mConnectionWaiterQueue)'
           /\ waiter' = [waiter EXCEPT ![w] = waiter'[w]]
           /\ waiter'[w].thread = t
           /\ waiter'[w].assigned = NoConn /\ waiter'[w].exception = "null"
           /\ mConnectionWaiterPool' = mConnectionWaiterPool \ {w}
           /\ waitOf' = [waitOf EXCEPT ![t] = w]
    BY <1>5, Enqueued
  <2>2. \A v \in Waiter \ {w} : waiter'[v] = waiter[v]
    BY <2>1 DEF TypeOK
  <2>3. ~Waiting(t) /\ Waiting(t)' /\ waitOf'[t] = w
    BY <1>5, <2>1 DEF TypeOK, Enqueue, Waiting, WaitingPcs
  <2>4. \A u \in Thread \ {t} : (Waiting(u)' <=> Waiting(u)) /\ waitOf'[u] = waitOf[u]
    BY <1>5, <2>1 DEF TypeOK, Enqueue, Waiting, WaitingPcs
  <2>5. \A u \in Thread : Waiting(u)' => waiter'[waitOf'[u]].thread = u
    BY <2>1, <2>2, <2>3, <2>4 DEF WaiterInv, ThreadInv
  <2>6. \A v \in mConnectionWaiterPool' :
          waiter'[v] = BlankWaiter /\ v \notin Queued' /\ \A u \in Thread : Waiting(u)' => waitOf'[u] # v
    BY <2>1, <2>2, <2>3, <2>4 DEF WaiterInv, TypeOK
  <2>7. \A v \in Queued' :
       /\ waiter'[v].assigned = NoConn /\ waiter'[v].exception = "null"
       /\ waiter'[v].thread \in Thread
       /\ pc'[waiter'[v].thread] \in WaitingPcs
       /\ waitOf'[waiter'[v].thread] = v
    <3>1. ASSUME NEW v \in Queued PROVE v \in Waiter \ {w} /\ waiter[v].thread \in Thread \ {t}
      BY <2>1, <2>3 DEF WaiterInv, TypeOK, Queued, Range
    <3>2. ASSUME NEW v \in Queued
          PROVE  waiter'[v] = waiter[v] /\ pc'[waiter[v].thread] \in WaitingPcs
                 /\ waitOf'[waiter[v].thread] = v
      BY <2>2, <2>4, <3>1 DEF WaiterInv, Waiting
    <3>3. pc'[t] \in WaitingPcs
      BY <2>3 DEF Waiting
    <3> QED BY <2>1, <2>3, <3>1, <3>2, <3>3 DEF WaiterInv
  <2> QED BY <2>1, <2>5, <2>6, <2>7 DEF WaiterInv, Waiting
<1>6. ASSUME NEW t \in Thread, SetListener(t) PROVE WaiterInv'
  <2>1. UNCHANGED waitOf /\ \A u \in Thread : Waiting(u)' <=> Waiting(u)
    BY <1>6 DEF SetListener, Waiting, WaitingPcs, TypeOK
  <2>2. UNCHANGED waiterVars \/ OnCancelOf(t)
    BY <1>6 DEF SetListener
  <2> QED BY <2>1, <2>2, WaiterFrame, WaiterCancel
<1>7. ASSUME NEW t \in Thread, CheckLeaked(t) \/ Recover(t) \/ Park(t) \/ ParkTimeout(t)
                                 \/ ParkInterrupted(t) \/ CheckAgain(t) \/ RemoveListener(t)
      PROVE WaiterInv'
  <2>1. CASE ~RemoveListener(t)
    BY <1>7, <2>1, WaiterFrame
       DEF CheckLeaked, Recover, Park, ParkTimeout, ParkInterrupted, CheckAgain, localVars,
           waiterVars, Waiting, WaitingPcs, TypeOK
  <2>2. CASE RemoveListener(t)
    <3>1. \A u \in Thread : (Waiting(u)' <=> Waiting(u)) /\ (Waiting(u) => waitOf'[u] = waitOf[u])
      BY <2>2 DEF RemoveListener, Waiting, WaitingPcs, TypeOK
    <3> QED BY <2>2, <3>1 DEF RemoveListener, waiterVars, WaiterInv, Queued, Distinct
  <2> QED BY <2>1, <2>2
<1>8. ASSUME NEW t \in Thread, CheckClosed(t) PROVE WaiterInv'
  <2>1. Queued = {}
    BY <1>8 DEF CheckClosed, LockFree, ClosedInv, Queued, Range
  <2>2. \A u \in Thread : Waiting(u)' => Waiting(u)
    BY <1>8 DEF CheckClosed, Waiting, WaitingPcs, TypeOK
  <2> QED BY <1>8, <2>1, <2>2 DEF CheckClosed, WaiterInv, waiterVars, localVars, Queued, Distinct
<1>9. ASSUME NEW t \in Thread, CheckDone(t) PROVE WaiterInv'
  <2> DEFINE w == waitOf[t]
  <2>1. /\ Waiting(t) /\ ~Waiting(t)' /\ w \in Waiter
        /\ \A u \in Thread \ {t} : Waiting(u)' <=> Waiting(u)
    BY <1>9 DEF CheckDone, Waiting, WaitingPcs, TypeOK, ThreadInv
  <2>2. /\ waiter' = [waiter EXCEPT ![w] = BlankWaiter]
        /\ mConnectionWaiterPool' = mConnectionWaiterPool \cup {w}
        /\ UNCHANGED <<mConnectionWaiterQueue, waitOf>>
        /\ waiter[w].assigned # NoConn \/ waiter[w].exception # "null"
    BY <1>9 DEF CheckDone, recycleConnectionWaiterLocked, Recycled
  <2>3. w \notin Queued
    BY <2>2 DEF WaiterInv
  <2>4. \A u \in Thread : Waiting(u)' => waitOf[u] # w
    BY <2>1 DEF WaiterInv
  <2> HIDE DEF w
  <2>5. waiter'[w] = BlankWaiter /\ \A v \in Waiter \ {w} : waiter'[v] = waiter[v]
    BY <2>1, <2>2 DEF TypeOK
  <2>6. Queued' = Queued /\ Distinct(mConnectionWaiterQueue)' /\ \A v \in Queued : v \in Waiter
    BY <2>2 DEF WaiterInv, Queued, Distinct, TypeOK, Range
  <2>7. \A u \in Thread : Waiting(u)' => waiter'[waitOf'[u]].thread = u
    BY <2>1, <2>2, <2>4, <2>5 DEF WaiterInv, ThreadInv
  <2>8. \A v \in mConnectionWaiterPool' :
          waiter'[v] = BlankWaiter /\ v \notin Queued' /\ \A u \in Thread : Waiting(u)' => waitOf'[u] # v
    BY <2>1, <2>2, <2>3, <2>4, <2>5, <2>6 DEF WaiterInv, TypeOK
  <2>9. \A v \in Queued : waiter'[v] = waiter[v] /\ waiter[v].thread # t
    BY <2>3, <2>5, <2>6 DEF WaiterInv, w
  <2> QED BY <2>1, <2>2, <2>6, <2>7, <2>8, <2>9 DEF WaiterInv
<1>10. ASSUME NEW t \in Thread, Cancel(t) \/ OnCancel(t) PROVE WaiterInv'
  BY <1>10, WaiterFrame, WaiterCancel DEF Cancel, OnCancel, Waiting
<1>11. ASSUME NEW t \in Thread, ReleaseConnection(t) \/ Leak(t) PROVE WaiterInv'
  BY <1>11, WaiterFrame DEF ReleaseConnection, Leak, waiterVars, Waiting, WaitingPcs, TypeOK
<1>12. CASE ClosePool
  BY <1>12, WaiterFrame DEF ClosePool, threadVars, localVars, waiterVars, Waiting
<1>13. ASSUME NEW config \in Configs, reconfigure(config) PROVE WaiterInv'
  BY <1>13, WaiterFrame DEF reconfigure, ReconfigureReopen, ReconfigureReopenFails,
                            ReconfigureInPlace, threadVars, localVars, waiterVars, Waiting
<1>14. ASSUME NEW c \in Conn, Collect(c) \/ FinalizeConnection(c) PROVE WaiterInv'
  BY <1>14, WaiterFrame DEF Collect, FinalizeConnection, threadVars, localVars, waiterVars, Waiting
<1> QED BY <1>1, <1>2, <1>3, <1>4, <1>5, <1>6, <1>7, <1>8, <1>9, <1>10, <1>11, <1>12, <1>13, <1>14
     DEF Next, WakeConnectionWaiters, ThreadStep, acquireConnection, WaitStep, Check

\* The queue of a closed pool is emptied before the lock is released.
LEMMA ClosedStep ==
  ASSUME TypeOK, ClosedInv, Next
  PROVE  ClosedInv'
<1> DEFINE q == mConnectionWaiterQueue
<1>1. q \in Seq(Waiter) /\ Len(q) \in Nat /\ (q = <<>> <=> Len(q) = 0) /\ scan.pos \in Nat \ {0}
  BY DEF TypeOK, ScanRecord
<1>2. CASE UNCHANGED <<mIsOpen, mConnectionWaiterQueue, scan>>
  BY <1>2 DEF ClosedInv
<1>3. CASE scan' = StartScan
  BY <1>3 DEF ClosedInv, StartScan, Scan
<1>4. CASE mIsOpen'
  BY <1>4 DEF ClosedInv
<1>5. CASE WakeClosed
  <2>1. scan' = scan /\ scan.on /\ ~mIsOpen /\ ~(Len(q) = 0)
    BY <1>1, <1>5 DEF WakeClosed
  <2>2. scan.pos = 1
    BY <1>1, <2>1 DEF ClosedInv
  <2> QED BY <2>1, <2>2 DEF ClosedInv
<1>6. CASE WakeEnd
  <2>1. UNCHANGED <<mIsOpen, mConnectionWaiterQueue>>
    BY <1>6 DEF WakeEnd, poolVars, configVars, waiterVars
  <2>2. ~mIsOpen => Len(q) = 0
    BY <1>1, <1>6 DEF WakeEnd, ClosedInv
  <2> QED BY <1>1, <2>1, <2>2 DEF ClosedInv
<1>7. CASE WakeThrow \/ WakeSkip \/ (\E c \in Conn : WakeAssign(c))
  BY <1>4, <1>7 DEF WakeThrow, WakeSkip, WakeAssign, configVars
<1>8. ASSUME NEW t \in Thread, acquireConnection(t) PROVE ClosedInv'
  <2>1. PICK r \in Requests : AcquireNow(t, r) \/ AcquireThrows(t, r) \/ Enqueue(t, r)
    BY <1>8 DEF acquireConnection
  <2>2. mIsOpen /\ UNCHANGED mIsOpen
    BY <2>1 DEF AcquireNow, AcquireThrows, Enqueue, configVars
  <2> QED BY <1>4, <2>2
<1>9. ASSUME NEW t \in Thread, SetListener(t) \/ OnCancel(t) PROVE ClosedInv'
  BY <1>2, <1>3, <1>9
     DEF SetListener, OnCancel, OnCancelOf, cancelConnectionWaiterLocked, poolVars, configVars, waiterVars
<1>10. ASSUME NEW t \in Thread, WaitStep(t), ~SetListener(t) PROVE ClosedInv'
  BY <1>2, <1>3, <1>10
     DEF WaitStep, CheckLeaked, Recover, Park, ParkTimeout, ParkInterrupted, Check, CheckClosed,
         CheckDone, CheckAgain, RemoveListener, poolVars, configVars, waiterVars
<1>11. ASSUME NEW t \in Thread, ReleaseConnection(t) PROVE ClosedInv'
  BY <1>2, <1>3, <1>11 DEF ReleaseConnection, ReleaseClosing, ReleaseRecycling, configVars, waiterVars
<1>12. ASSUME NEW t \in Thread, Leak(t) \/ Cancel(t) PROVE ClosedInv'
  BY <1>2, <1>12 DEF Leak, Cancel, poolVars, configVars, waiterVars
<1>13. CASE ClosePool \/ \E config \in Configs : reconfigure(config)
  BY <1>2, <1>3, <1>13
     DEF ClosePool, reconfigure, ReconfigureReopen, ReconfigureReopenFails, ReconfigureInPlace,
         configVars, waiterVars
<1>14. ASSUME NEW c \in Conn, Collect(c) \/ FinalizeConnection(c) PROVE ClosedInv'
  BY <1>2, <1>14 DEF Collect, FinalizeConnection, configVars, waiterVars
<1> QED BY <1>5, <1>6, <1>7, <1>8, <1>9, <1>10, <1>11, <1>12, <1>13, <1>14
     DEF Next, WakeConnectionWaiters, ThreadStep

\* A matching nonce means that the wait is in progress while the pool is open.
LEMMA NonceStep ==
  ASSUME TypeOK, NonceInv, Next
  PROVE  NonceInv'
<1>1. mIsOpen' => mIsOpen
  <2>1. CASE WakeConnectionWaiters \/ ClosePool
    BY <2>1 DEF WakeConnectionWaiters, WakeClosed, WakeAssign, WakeThrow, WakeSkip, WakeEnd,
                ClosePool, poolVars, configVars
  <2>2. CASE \E t \in Thread : acquireConnection(t) \/ ReleaseConnection(t) \/ Leak(t)
                               \/ Cancel(t) \/ OnCancel(t)
    BY <2>2 DEF acquireConnection, AcquireNow, AcquireThrows, Enqueue, ReleaseConnection, Leak,
                Cancel, OnCancel, poolVars, configVars
  <2>3. CASE \E t \in Thread : WaitStep(t)
    BY <2>3 DEF WaitStep, SetListener, CheckLeaked, Recover, Park, ParkTimeout, ParkInterrupted,
                Check, CheckClosed, CheckDone, CheckAgain, RemoveListener, poolVars, configVars
  <2>4. CASE \E config \in Configs : reconfigure(config)
    BY <2>4 DEF reconfigure, ReconfigureReopen, ReconfigureReopenFails, ReconfigureInPlace, configVars
  <2>5. CASE \E c \in Conn : Collect(c) \/ FinalizeConnection(c)
    BY <2>5 DEF Collect, FinalizeConnection, configVars
  <2> QED BY <2>1, <2>2, <2>3, <2>4, <2>5 DEF Next, ThreadStep
<1>2. CASE UNCHANGED <<pc, nonceMatches>>
  BY <1>1, <1>2 DEF NonceInv, Waiting
<1>3. ASSUME NEW t \in Thread, NEW r \in Requests, Enqueue(t, r) PROVE NonceInv'
  BY <1>3, <1>1 DEF NonceInv, Enqueue, Waiting, WaitingPcs, TypeOK
<1>4. ASSUME NEW t \in Thread, CheckClosed(t) PROVE NonceInv'
  BY <1>4 DEF NonceInv, CheckClosed, poolVars, configVars
<1>5. ASSUME NEW t \in Thread, RemoveListener(t) \/ CheckDone(t) PROVE NonceInv'
  BY <1>5, <1>1 DEF NonceInv, RemoveListener, CheckDone, recycleConnectionWaiterLocked, Waiting,
                    WaitingPcs, TypeOK
<1>6. ASSUME NEW t \in Thread, NEW r \in Requests, AcquireNow(t, r) PROVE NonceInv'
  BY <1>6, <1>1 DEF NonceInv, AcquireNow, Waiting, WaitingPcs, TypeOK
<1>7. ASSUME NEW t \in Thread, SetListener(t) \/ CheckLeaked(t) \/ Recover(t) \/ Park(t)
                                 \/ ParkTimeout(t) \/ ParkInterrupted(t) \/ CheckAgain(t)
      PROVE  NonceInv'
  BY <1>7, <1>1 DEF NonceInv, SetListener, CheckLeaked, Recover, Park, ParkTimeout, ParkInterrupted,
              CheckAgain, localVars, Waiting, WaitingPcs, TypeOK
<1>8. ASSUME NEW t \in Thread, ReleaseConnection(t) \/ Leak(t) PROVE NonceInv'
  BY <1>8, <1>1 DEF NonceInv, ReleaseConnection, Leak, Waiting, WaitingPcs, TypeOK
<1>9. ASSUME NEW t \in Thread, NEW r \in Requests, AcquireThrows(t, r) PROVE NonceInv'
  BY <1>2, <1>9 DEF AcquireThrows, threadVars, localVars
<1>10. CASE \E t \in Thread : Cancel(t) \/ OnCancel(t)
  BY <1>2, <1>10 DEF Cancel, OnCancel
<1>11. CASE WakeConnectionWaiters
  BY <1>2, <1>11 DEF WakeConnectionWaiters, WakeClosed, WakeAssign, WakeThrow, WakeSkip, WakeEnd,
                     threadVars, localVars
<1>12. CASE ClosePool \/ \E config \in Configs : reconfigure(config)
  BY <1>2, <1>12
     DEF ClosePool, reconfigure, ReconfigureReopen, ReconfigureReopenFails, ReconfigureInPlace,
         threadVars, localVars
<1>13. ASSUME NEW c \in Conn, Collect(c) \/ FinalizeConnection(c) PROVE NonceInv'
  BY <1>2, <1>13 DEF Collect, FinalizeConnection, threadVars, localVars
<1> QED BY <1>3, <1>4, <1>5, <1>6, <1>7, <1>8, <1>9, <1>10, <1>11, <1>12, <1>13
     DEF Next, ThreadStep, acquireConnection, WaitStep, Check

-----------------------------------------------------------------------------
(* Connections. *)

ConnInv == PlaceInv /\ ReleasePrimaryFindsSlot /\ ConfigurationPropagated

\* A connection is acquired only when nobody has it, and acquiring preserves the connection
\* invariant: taken from the available ones or newly opened, primary or not.
LEMMA ObtainConn ==
  ASSUME TypeOK, ConnInv, NEW a, NEW b, NEW c \in Conn, Obtain(a, b, c),
         UNCHANGED <<mConfiguration, collected>>
  PROVE  /\ mAcquiredConnections[c] = "NONE"
         /\ mAcquiredConnections' = [mAcquiredConnections EXCEPT ![c] = "NORMAL"]
         /\ ConnInv'
<1>0. mAcquiredConnections' = [mAcquiredConnections EXCEPT ![c] = "NORMAL"]
  BY DEF Obtain, tryAcquireNonPrimaryConnectionLocked, tryAcquirePrimaryConnectionLocked,
         finishAcquireConnectionLocked
<1> USE <1>0, PoolAssumption
    DEF TypeOK, ConnInv, PlaceInv, ReleasePrimaryFindsSlot, ConfigurationPropagated, Acquired, Available
<1>2. CASE /\ c \in mAvailableNonPrimaryConnections
           /\ mAvailableNonPrimaryConnections' = mAvailableNonPrimaryConnections \ {c}
           /\ UNCHANGED <<conn, mAvailablePrimaryConnection>>
  BY <1>2
<1>3. CASE /\ Fresh(c)
           /\ conn' = [conn EXCEPT ![c] = OpenConn(FALSE, mConfiguration)]
           /\ UNCHANGED <<mAvailablePrimaryConnection, mAvailableNonPrimaryConnections>>
  <2>1. ~conn[c].open /\ mAcquiredConnections[c] = "NONE" /\ c \notin collected
    BY <1>3 DEF Fresh, Unused
  <2>2. c # mAvailablePrimaryConnection /\ c \notin mAvailableNonPrimaryConnections
    BY <2>1
  <2>3. conn'[c].open /\ ~conn'[c].primary /\ conn'[c].config = mConfiguration
    BY <1>3 DEF OpenConn
  <2>avail. UNCHANGED <<mAvailablePrimaryConnection, mAvailableNonPrimaryConnections>>
    BY <1>3
  <2>rest. /\ mAcquiredConnections'[c] = "NORMAL"
        /\ \A d \in Conn \ {c} : mAcquiredConnections'[d] = mAcquiredConnections[d] /\ conn'[d] = conn[d]
    BY <1>3
  <2>place. PlaceInv'
    BY <2>1, <2>2, <2>3, <2>rest, <2>avail
  <2>slot. ReleasePrimaryFindsSlot'
    BY <2>1, <2>2, <2>3, <2>rest, <2>avail
  <2>config. ConfigurationPropagated'
    BY <2>1, <2>2, <2>3, <2>rest, <2>avail
  <2> QED BY <2>1, <2>place, <2>slot, <2>config
<1>4. CASE /\ c # NoConn /\ c = mAvailablePrimaryConnection
           /\ mAvailablePrimaryConnection' = NoConn
           /\ UNCHANGED <<conn, mAvailableNonPrimaryConnections>>
  BY <1>4
<1>5. CASE /\ ExpandPrimary /\ Fresh(c)
           /\ conn' = [conn EXCEPT ![c] = OpenConn(TRUE, mConfiguration)]
           /\ UNCHANGED <<mAvailablePrimaryConnection, mAvailableNonPrimaryConnections>>
  <2>1. ~conn[c].open /\ mAcquiredConnections[c] = "NONE" /\ c \notin collected
    BY <1>5 DEF Fresh, Unused
  <2>2. mAvailablePrimaryConnection = NoConn /\ c \notin mAvailableNonPrimaryConnections
    BY <1>5, <2>1 DEF ExpandPrimary
  <2>3. \A d \in Conn : mAcquiredConnections[d] # "NONE" => ~conn[d].primary
    BY <1>5 DEF ExpandPrimary
  <2>4. conn'[c].open /\ conn'[c].primary /\ conn'[c].config = mConfiguration
    BY <1>5 DEF OpenConn
  <2>avail. UNCHANGED <<mAvailablePrimaryConnection, mAvailableNonPrimaryConnections>>
    BY <1>5
  <2>rest. /\ mAcquiredConnections'[c] = "NORMAL"
        /\ \A d \in Conn \ {c} : mAcquiredConnections'[d] = mAcquiredConnections[d] /\ conn'[d] = conn[d]
    BY <1>5
  <2>place. PlaceInv'
    BY <2>1, <2>2, <2>3, <2>4, <2>rest, <2>avail
  <2>slot. ReleasePrimaryFindsSlot'
    BY <2>1, <2>2, <2>3, <2>4, <2>rest, <2>avail
  <2>config. ConfigurationPropagated'
    BY <2>1, <2>2, <2>3, <2>4, <2>rest, <2>avail
  <2> QED BY <2>1, <2>place, <2>slot, <2>config
<1> QED BY <1>0, <1>2, <1>3, <1>4, <1>5
     DEF Obtain, tryAcquireNonPrimaryConnectionLocked, tryAcquirePrimaryConnectionLocked

\* Releasing a connection, by closing it or by putting it back, preserves it.
LEMMA ReleaseConn ==
  ASSUME TypeOK, ThreadInv, OwnerInv, ConnInv, NEW t \in Thread, ReleaseConnection(t)
  PROVE  ConnInv'
<1> DEFINE c == held[t]
<1>1. c \in Conn
  BY DEF ReleaseConnection, ThreadInv
<1>2. mAcquiredConnections[c] # "NONE"
  BY <1>1 DEF OwnerInv, Owns
<1>3. mAcquiredConnections' = [mAcquiredConnections EXCEPT ![c] = "NONE"]
  BY DEF ReleaseConnection
<1>4. UNCHANGED <<mConfiguration, collected>>
  BY DEF ReleaseConnection, configVars, leakVars
<1> HIDE DEF c
<1> USE <1>1, <1>2, <1>3, <1>4, PoolAssumption
    DEF TypeOK, ConnInv, PlaceInv, ReleasePrimaryFindsSlot, ConfigurationPropagated, Acquired, Available
<1>5. CASE ReleaseClosing(t)
  <2>1. \A d \in Conn \ {c} : conn'[d] = conn[d]
    BY <1>5 DEF ReleaseClosing, CloseAll, c
  <2>2. UNCHANGED <<mAvailablePrimaryConnection, mAvailableNonPrimaryConnections>>
    BY <1>5 DEF ReleaseClosing
  <2>3. \A d \in Conn \ {c} : mAcquiredConnections'[d] = mAcquiredConnections[d]
    OBVIOUS
  <2>4. mAcquiredConnections'[c] = "NONE" /\ c # mAvailablePrimaryConnection /\ c \notin mAvailableNonPrimaryConnections
    OBVIOUS
  <2>place. PlaceInv'
    BY <2>1, <2>2, <2>3, <2>4
  <2>slot. ReleasePrimaryFindsSlot'
    BY <2>1, <2>2, <2>3, <2>4
  <2>config. ConfigurationPropagated'
    BY <2>1, <2>2, <2>3, <2>4
  <2> QED BY <2>place, <2>slot, <2>config
<1>6. CASE ReleaseRecycling(t)
  <2>1. PICK keep \in BOOLEAN :
          /\ recycleConnectionLocked(c, keep)
          /\ mAvailablePrimaryConnection' =
               IF keep /\ conn[c].primary THEN c ELSE mAvailablePrimaryConnection
          /\ mAvailableNonPrimaryConnections' = mAvailableNonPrimaryConnections
               \cup (IF keep /\ ~conn[c].primary THEN {c} ELSE {})
    BY <1>6 DEF ReleaseRecycling, c
  <2>2. \A d \in Conn \ {c} : conn'[d] = conn[d]
    BY <2>1 DEF recycleConnectionLocked
  <2>absent. /\ mAcquiredConnections'[c] = "NONE" /\ c # mAvailablePrimaryConnection
        /\ c \notin mAvailableNonPrimaryConnections
        /\ \A d \in Conn \ {c} : mAcquiredConnections'[d] = mAcquiredConnections[d]
    OBVIOUS
  <2>3. CASE ~keep
    <3>1. UNCHANGED <<mAvailablePrimaryConnection, mAvailableNonPrimaryConnections>>
      BY <2>1, <2>3
    <3>place. PlaceInv'
      BY <2>2, <2>absent, <3>1
    <3>slot. ReleasePrimaryFindsSlot'
      BY <2>2, <2>absent, <3>1
    <3>config. ConfigurationPropagated'
      BY <2>2, <2>absent, <3>1
    <3> QED BY <3>place, <3>slot, <3>config
  <2>4. CASE keep
    <3>1. mAcquiredConnections[c] \in {"NORMAL", "RECONFIGURE"}
      BY <2>1, <2>4 DEF recycleConnectionLocked
    <3>2. conn' = [conn EXCEPT ![c].config = RecycledConfig(c)]
      BY <2>1, <2>4 DEF recycleConnectionLocked
    <3>3. conn[c] \in ConnRecord /\ RecycledConfig(c) = mConfiguration
      BY <3>1 DEF RecycledConfig
    <3>4. /\ conn'[c].open /\ (conn'[c].primary <=> conn[c].primary)
          /\ conn'[c].config = mConfiguration
      BY <3>2, <3>3 DEF ConnRecord
    <3>5. CASE conn[c].primary
      <4>1. mAvailablePrimaryConnection' = c /\ UNCHANGED mAvailableNonPrimaryConnections
        BY <2>1, <2>4, <3>5
      <4>2. c \notin collected
        OBVIOUS
      <4>place. PlaceInv'
        BY <2>2, <2>absent, <3>1, <3>4, <3>5, <4>1, <4>2
      <4>slot. ReleasePrimaryFindsSlot'
        BY <2>2, <2>absent, <3>1, <3>4, <3>5, <4>1, <4>2
      <4>config. ConfigurationPropagated'
        BY <2>2, <2>absent, <3>1, <3>4, <3>5, <4>1, <4>2
      <4> QED BY <4>place, <4>slot, <4>config
    <3>6. CASE ~conn[c].primary
      <4>1. mAvailableNonPrimaryConnections' = mAvailableNonPrimaryConnections \cup {c} /\ UNCHANGED mAvailablePrimaryConnection
        BY <2>1, <2>4, <3>6
      <4>2. c \notin collected
        OBVIOUS
      <4>place. PlaceInv'
        BY <2>2, <2>absent, <3>1, <3>4, <3>6, <4>1, <4>2
      <4>slot. ReleasePrimaryFindsSlot'
        BY <2>2, <2>absent, <3>1, <3>4, <3>6, <4>1, <4>2
      <4>config. ConfigurationPropagated'
        BY <2>2, <2>absent, <3>1, <3>4, <3>6, <4>1, <4>2
      <4> QED BY <4>place, <4>slot, <4>config
    <3> QED BY <3>5, <3>6
  <2> QED BY <2>3, <2>4
<1> QED BY <1>5, <1>6 DEF ReleaseConnection

\* reconfigure preserves it: reopened, failed to reopen, or changed in place.
LEMMA ReconfigureConn ==
  ASSUME TypeOK, ConnInv, NEW config \in Configs, reconfigure(config)
  PROVE  ConnInv'
<1> USE PoolAssumption
    DEF TypeOK, ConnInv, PlaceInv, ReleasePrimaryFindsSlot, ConfigurationPropagated, Acquired
<1>0. Available \subseteq Conn /\ \A c \in Available : mAcquiredConnections[c] = "NONE"
  BY DEF Available
<1>1. CASE ReconfigureReopen(config)
  <2>1. PICK p \in Conn : /\ Fresh(p)
                         /\ conn' = [CloseAll(Available) EXCEPT ![p] = OpenConn(TRUE, config)]
                         /\ mAvailablePrimaryConnection' = p
    BY <1>1 DEF ReconfigureReopen
  <2>2. /\ UNCHANGED collected /\ mConfiguration' = config
        /\ mAvailableNonPrimaryConnections' = {}
        /\ mAcquiredConnections' = MarkAcquired("DISCARD")
    BY <1>1 DEF ReconfigureReopen, leakVars
  <2>3. mAcquiredConnections[p] = "NONE" /\ p \notin collected
    BY <2>1 DEF Fresh, Unused
  <2>4. \A c \in Conn : mAcquiredConnections'[c] = IF mAcquiredConnections[c] = "NONE"
                                                 THEN "NONE" ELSE "DISCARD"
    BY <2>2 DEF MarkAcquired, Statuses
  <2>5. \A c \in Conn \ {p} : mAcquiredConnections[c] # "NONE" => conn'[c] = conn[c]
    BY <1>0, <2>1 DEF CloseAll
  <2>6. /\ conn'[p].open /\ conn'[p].primary /\ conn'[p].config = config
    BY <2>1 DEF CloseAll, OpenConn
  <2> QED BY <2>1, <2>2, <2>3, <2>4, <2>5, <2>6 DEF Available
<1>2. CASE ReconfigureReopenFails(config)
  <2>1. CASE UNCHANGED <<conn, mAvailablePrimaryConnection, mAvailableNonPrimaryConnections>>
    BY <1>2, <2>1 DEF ReconfigureReopenFails, configVars, leakVars, Available
  <2>2. CASE ~UNCHANGED <<conn, mAvailablePrimaryConnection, mAvailableNonPrimaryConnections>>
    <3>1. /\ conn' = CloseAll(Available) /\ mAvailablePrimaryConnection' = NoConn
          /\ mAvailableNonPrimaryConnections' = {}
          /\ UNCHANGED <<mConfiguration, mAcquiredConnections, collected>>
      BY <1>2, <2>2 DEF ReconfigureReopenFails, configVars, leakVars
    <3>2. \A c \in Conn : mAcquiredConnections[c] # "NONE" => conn'[c] = conn[c]
      BY <1>0, <3>1 DEF CloseAll
    <3> QED BY <3>1, <3>2 DEF Available
  <2> QED BY <2>1, <2>2
<1>3. CASE ReconfigureInPlace(config)
  <2>1. PICK excess \in SUBSET Available, bad \in SUBSET Available :
       /\ excess \subseteq mAvailableNonPrimaryConnections
       /\ conn' = [c \in Conn |->
                     IF c \in excess \cup bad THEN ClosedConn
                     ELSE IF c \in Available THEN [conn[c] EXCEPT !.config = config]
                     ELSE conn[c]]
       /\ mAvailablePrimaryConnection' =
            IF mAvailablePrimaryConnection \in bad THEN NoConn
                                                   ELSE mAvailablePrimaryConnection
       /\ mAvailableNonPrimaryConnections' =
            mAvailableNonPrimaryConnections \ (excess \cup bad)
    BY <1>3 DEF ReconfigureInPlace
  <2>2. /\ UNCHANGED collected /\ mConfiguration' = config
        /\ mAcquiredConnections' = MarkAcquired("RECONFIGURE")
    BY <1>3 DEF ReconfigureInPlace, leakVars
  <2>3. \A c \in Conn : /\ mAcquiredConnections'[c] # "NORMAL"
                        /\ mAcquiredConnections'[c] = "NONE" <=> mAcquiredConnections[c] = "NONE"
                        /\ mAcquiredConnections'[c] = "DISCARD" <=> mAcquiredConnections[c] = "DISCARD"
    BY <2>2 DEF MarkAcquired, Statuses
  <2>4. \A c \in Conn : c \notin Available => conn'[c] = conn[c]
    BY <2>1
  <2>5. ASSUME NEW c \in Available \ (excess \cup bad)
        PROVE  (conn'[c].open <=> conn[c].open) /\ (conn'[c].primary <=> conn[c].primary)
               /\ conn'[c].config = config
    <3>1. conn'[c] = [conn[c] EXCEPT !.config = config] /\ conn[c] \in ConnRecord
      BY <1>0, <2>1
    <3> QED BY <3>1 DEF ConnRecord
  <2>6. Available' \subseteq Available \ (excess \cup bad)
    BY <2>1 DEF Available
  <2>7. PlaceInv'
    BY <1>0, <2>1, <2>2, <2>3, <2>4, <2>5, <2>6 DEF Available
  <2>8. ReleasePrimaryFindsSlot'
    <3>1. \A c \in Conn : mAcquiredConnections'[c] # "NONE" => conn'[c] = conn[c]
      BY <1>0, <2>3, <2>4
    <3>2. mAvailablePrimaryConnection = NoConn => mAvailablePrimaryConnection' = NoConn
      BY <2>1
    <3> QED BY <2>3, <3>1, <3>2
  <2>9. ConfigurationPropagated'
    BY <2>2, <2>3, <2>5, <2>6
  <2> QED BY <2>7, <2>8, <2>9
<1> QED BY <1>1, <1>2, <1>3 DEF reconfigure

\* Every step preserves the connection invariant; one case per action.
LEMMA ConnStep ==
  ASSUME TypeOK, ThreadInv, OwnerInv, ConnInv, Next
  PROVE  ConnInv'
<1>1. CASE UNCHANGED <<connVars, collected, mConfiguration>>
  BY <1>1 DEF ConnInv, PlaceInv, ReleasePrimaryFindsSlot, ConfigurationPropagated, Acquired,
              Available, connVars
<1>2. ASSUME NEW c \in Conn, WakeAssign(c) PROVE ConnInv'
  BY <1>2, ObtainConn DEF WakeAssign, configVars, leakVars
<1>3. CASE WakeClosed \/ WakeThrow \/ WakeSkip \/ WakeEnd
  BY <1>1, <1>3 DEF WakeClosed, WakeThrow, WakeSkip, WakeEnd, ObtainThrows, ObtainNothing, poolVars,
                    configVars, leakVars
<1>4. ASSUME NEW t \in Thread, NEW r \in Requests, AcquireNow(t, r) PROVE ConnInv'
  BY <1>4, ObtainConn DEF AcquireNow, configVars, leakVars
<1>5. ASSUME NEW t \in Thread, NEW r \in Requests, AcquireThrows(t, r) \/ Enqueue(t, r)
      PROVE  ConnInv'
  BY <1>1, <1>5 DEF AcquireThrows, Enqueue, ObtainThrows, ObtainNothing, configVars, leakVars
<1>6. ASSUME NEW t \in Thread, WaitStep(t) PROVE ConnInv'
  BY <1>1, <1>6 DEF WaitStep, SetListener, CheckLeaked, Recover, Park, ParkTimeout, ParkInterrupted,
                    Check, CheckClosed, CheckDone, CheckAgain, RemoveListener, poolVars, configVars,
                    leakVars
<1>7. ASSUME NEW t \in Thread, ReleaseConnection(t) PROVE ConnInv'
  BY <1>7, ReleaseConn
<1>8. ASSUME NEW t \in Thread, Leak(t) \/ Cancel(t) \/ OnCancel(t) PROVE ConnInv'
  BY <1>1, <1>8 DEF Leak, Cancel, OnCancel, poolVars, configVars, leakVars
<1>9. CASE ClosePool
  <2>1. /\ conn' = CloseAll(Available) /\ mAvailablePrimaryConnection' = NoConn
        /\ mAvailableNonPrimaryConnections' = {}
        /\ UNCHANGED <<mConfiguration, mAcquiredConnections, collected>>
    BY <1>9 DEF ClosePool, leakVars
  <2>2. \A c \in Conn : mAcquiredConnections[c] # "NONE" => conn'[c] = conn[c]
    BY <2>1 DEF CloseAll, Available, ConnInv, PlaceInv
  <2> QED BY <2>1, <2>2 DEF ConnInv, PlaceInv, ReleasePrimaryFindsSlot, ConfigurationPropagated,
                            Acquired, Available
<1>10. ASSUME NEW config \in Configs, reconfigure(config) PROVE ConnInv'
  BY <1>10, ReconfigureConn
<1>11. ASSUME NEW c \in Conn, Collect(c) PROVE ConnInv'
  BY <1>11 DEF Collect, configVars, TypeOK, ConnInv, PlaceInv, ReleasePrimaryFindsSlot,
               ConfigurationPropagated, Acquired, Available
<1>12. ASSUME NEW c \in Conn, FinalizeConnection(c) PROVE ConnInv'
  <2>1. c \in collected /\ collected' \subseteq collected
        /\ UNCHANGED <<mConfiguration, mAcquiredConnections, mAvailablePrimaryConnection,
                       mAvailableNonPrimaryConnections>>
    BY <1>12 DEF FinalizeConnection, configVars
  <2>2. \A d \in Conn \ {c} : conn'[d] = conn[d]
    BY <1>12 DEF FinalizeConnection, CloseAll
  <2>3. c # mAvailablePrimaryConnection /\ c \notin mAvailableNonPrimaryConnections
        /\ mAcquiredConnections[c] = "NONE"
    BY <2>1, PoolAssumption DEF ConnInv, PlaceInv
  <2> QED BY <2>1, <2>2, <2>3
       DEF TypeOK, ConnInv, PlaceInv, ReleasePrimaryFindsSlot, ConfigurationPropagated, Acquired,
           Available
<1> QED BY <1>2, <1>3, <1>4, <1>5, <1>6, <1>7, <1>8, <1>9, <1>10, <1>11, <1>12
     DEF Next, WakeConnectionWaiters, ThreadStep, acquireConnection

-----------------------------------------------------------------------------
(* Owners. *)

\* If no thread gains a connection, ownership stays exclusive.
LEMMA OwnersShrink ==
  ASSUME OwnerInv,
         \A c \in Conn : \A t \in Thread :
           Owns(t, c)' => Owns(t, c) /\ (mAcquiredConnections[c] # "NONE" => mAcquiredConnections'[c] # "NONE")
  PROVE  OwnerInv'
BY DEF OwnerInv

\* If one thread gains one connection that nobody had, ownership stays exclusive.
LEMMA OwnersGain ==
  ASSUME TypeOK, OwnerInv, NEW o \in Thread, NEW d \in Conn,
         mAcquiredConnections[d] = "NONE",
         mAcquiredConnections' = [mAcquiredConnections EXCEPT ![d] = "NORMAL"],
         \A c \in Conn : \A t \in Thread :
           Owns(t, c)' => Owns(t, c) \/ (t = o /\ c = d)
  PROVE  OwnerInv'
BY DEF OwnerInv, TypeOK

\* Every step keeps ownership exclusive; one case per action.
LEMMA OwnerStep ==
  ASSUME TypeOK, ThreadInv, WaiterInv, ConnInv, OwnerInv, Next
  PROVE  OwnerInv'
<1>1. CASE UNCHANGED <<pc, held, waitOf, waiter, mAcquiredConnections>>
  BY <1>1, OwnersShrink DEF Owns, Waiting
<1>2. ASSUME NEW c \in Conn, WakeAssign(c) PROVE OwnerInv'
  <2>1. /\ mAcquiredConnections[c] = "NONE"
        /\ mAcquiredConnections' = [mAcquiredConnections EXCEPT ![c] = "NORMAL"]
    BY <1>2, ObtainConn DEF WakeAssign, configVars, leakVars
  <2>2. Current \in Waiter /\ Current \in Queued
    BY <1>2, Dismissed DEF WakeAssign
  <2> DEFINE o == waiter[Current].thread
  <2>3. /\ UNCHANGED <<pc, held, waitOf>>
        /\ waiter' = [waiter EXCEPT ![Current].assigned = c]
    BY <1>2 DEF WakeAssign
  <2>4. o \in Thread /\ \A t \in Thread : Waiting(t) /\ waitOf[t] = Current => t = o
    BY <2>2 DEF WaiterInv
  <2> HIDE DEF o
  <2>5. \A w \in Waiter : w # Current => waiter'[w] = waiter[w]
    BY <2>2, <2>3 DEF TypeOK
  <2>6. waiter'[Current].assigned = c
    BY <2>2, <2>3 DEF TypeOK, WaiterRecord
  <2>7. \A d \in Conn : \A t \in Thread : Owns(t, d)' => Owns(t, d) \/ (t = o /\ d = c)
    <3> SUFFICES ASSUME NEW d \in Conn, NEW t \in Thread, Owns(t, d)', ~Owns(t, d)
                 PROVE  t = o /\ d = c
      OBVIOUS
    <3>1. Waiting(t) /\ waiter'[waitOf[t]].assigned = d /\ waitOf[t] \in Waiter
      BY <2>3 DEF Owns, Waiting, ThreadInv
    <3>2. waitOf[t] = Current
      BY <2>5, <3>1 DEF Owns
    <3> QED BY <2>4, <2>6, <3>1, <3>2
  <2> QED BY <2>1, <2>4, <2>7, OwnersGain
<1>3. CASE WakeThrow
  <2>1. Current \in Waiter
    BY <1>3, Dismissed DEF WakeThrow
  <2>2. /\ UNCHANGED <<pc, held, waitOf, mAcquiredConnections>>
        /\ waiter' = [waiter EXCEPT ![Current].exception = "open"]
    BY <1>3 DEF WakeThrow, ObtainThrows, connVars
  <2>3. \A w \in Waiter : waiter'[w].assigned = waiter[w].assigned
    BY <2>1, <2>2 DEF TypeOK, WaiterRecord
  <2> QED BY <2>2, <2>3, OwnersShrink DEF Owns, Waiting, ThreadInv
<1>4. CASE WakeClosed \/ WakeSkip \/ WakeEnd
  BY <1>1, <1>4 DEF WakeClosed, WakeSkip, WakeEnd, ObtainNothing, poolVars, connVars, waiterVars,
                    threadVars, localVars
<1>5. ASSUME NEW t \in Thread, NEW r \in Requests, AcquireNow(t, r) PROVE OwnerInv'
  <2>1. PICK c \in Conn : Obtain(~r.wantPrimary, TRUE, c) /\ held' = [held EXCEPT ![t] = c]
    BY <1>5 DEF AcquireNow
  <2>2. /\ mAcquiredConnections[c] = "NONE"
        /\ mAcquiredConnections' = [mAcquiredConnections EXCEPT ![c] = "NORMAL"]
    BY <1>5, <2>1, ObtainConn DEF AcquireNow, configVars, leakVars
  <2>3. UNCHANGED <<waitOf, waiter>> /\ pc' = [pc EXCEPT ![t] = "holding"]
    BY <1>5 DEF AcquireNow, waiterVars
  <2>4. \A d \in Conn : \A u \in Thread : Owns(u, d)' => Owns(u, d) \/ (u = t /\ d = c)
    BY <2>1, <2>3 DEF Owns, Waiting, WaitingPcs, TypeOK
  <2> QED BY <2>2, <2>4, OwnersGain
<1>6. ASSUME NEW t \in Thread, NEW r \in Requests, AcquireThrows(t, r) PROVE OwnerInv'
  BY <1>1, <1>6 DEF AcquireThrows, ObtainThrows, connVars, waiterVars, threadVars, localVars
<1>7. ASSUME NEW t \in Thread, NEW r \in Requests, Enqueue(t, r) PROVE OwnerInv'
  <2>1. PICK w \in Waiter :
           /\ \A u \in Thread : Waiting(u) => waitOf[u] # w
           /\ waiter' = [waiter EXCEPT ![w] = waiter'[w]]
           /\ waiter'[w].assigned = NoConn
           /\ waitOf' = [waitOf EXCEPT ![t] = w]
    BY <1>7, Enqueued
  <2>2. UNCHANGED <<held, mAcquiredConnections>> /\ pc' = [pc EXCEPT ![t] = "arming"] /\ pc[t] = "idle"
    BY <1>7 DEF Enqueue, ObtainNothing, connVars
  <2>3. \A v \in Waiter : v # w => waiter'[v] = waiter[v]
    BY <2>1 DEF TypeOK
  <2>4. ASSUME NEW d \in Conn, NEW u \in Thread, Owns(u, d)' PROVE Owns(u, d)
    <3>1. CASE u = t
      BY <2>1, <2>2, <2>4, <3>1, PoolAssumption DEF Owns, TypeOK
    <3>2. CASE u # t
      <4>1. pc'[u] = pc[u] /\ waitOf'[u] = waitOf[u]
        BY <2>1, <2>2, <3>2 DEF TypeOK
      <4>2. Waiting(u) => waiter'[waitOf[u]] = waiter[waitOf[u]]
        BY <2>1, <2>3 DEF ThreadInv
      <4> QED BY <2>2, <2>4, <4>1, <4>2 DEF Owns, Waiting
    <3> QED BY <3>1, <3>2
  <2> QED BY <2>2, <2>4, OwnersShrink
<1>8. ASSUME NEW t \in Thread, SetListener(t) \/ OnCancel(t) PROVE OwnerInv'
  <2>1. /\ UNCHANGED <<held, waitOf, mAcquiredConnections>>
        /\ \A u \in Thread : Waiting(u)' <=> Waiting(u)
    BY <1>8 DEF SetListener, OnCancel, poolVars, connVars, Waiting, WaitingPcs, TypeOK
  <2>2. UNCHANGED <<waiterVars, permit, scan>> \/ cancelConnectionWaiterLocked(waitOf[t])
    BY <1>8 DEF SetListener, OnCancel, OnCancelOf
  <2>3. \A w \in Waiter : waiter'[w].assigned = waiter[w].assigned
    <3>1. CASE UNCHANGED <<waiterVars, permit, scan>>
      BY <3>1 DEF waiterVars
    <3>2. CASE ~UNCHANGED <<waiterVars, permit, scan>>
      <4>1. /\ waitOf[t] \in Waiter
            /\ waiter' = [waiter EXCEPT ![waitOf[t]].exception = "canceled"]
        BY <2>2, <3>2, Canceled
      <4> QED BY <4>1 DEF TypeOK, WaiterRecord
    <3> QED BY <3>1, <3>2
  <2> QED BY <2>1, <2>3, OwnersShrink DEF Owns, ThreadInv
<1>9. ASSUME NEW t \in Thread, CheckLeaked(t) \/ Recover(t) \/ Park(t) \/ ParkTimeout(t)
                                \/ ParkInterrupted(t) \/ CheckAgain(t) \/ CheckClosed(t)
      PROVE  OwnerInv'
  <2>1. /\ UNCHANGED <<held, waitOf, waiter, mAcquiredConnections>>
        /\ \A u \in Thread : Waiting(u)' => Waiting(u)
    BY <1>9 DEF CheckLeaked, Recover, Park, ParkTimeout, ParkInterrupted, CheckAgain, CheckClosed,
                poolVars, connVars, waiterVars, localVars, Waiting, WaitingPcs, TypeOK
  <2> QED BY <2>1, OwnersShrink DEF Owns
<1>10. ASSUME NEW t \in Thread, CheckDone(t) PROVE OwnerInv'
  <2> DEFINE w == waitOf[t]
  <2>1. /\ Waiting(t) /\ ~Waiting(t)' /\ w \in Waiter
        /\ \A u \in Thread \ {t} : Waiting(u)' <=> Waiting(u)
    BY <1>10 DEF CheckDone, Waiting, WaitingPcs, TypeOK, ThreadInv
  <2>2. /\ UNCHANGED <<waitOf, mAcquiredConnections>>
        /\ held' = [held EXCEPT ![t] = waiter[w].assigned]
        /\ waiter' = [waiter EXCEPT ![w] = BlankWaiter]
    BY <1>10 DEF CheckDone, poolVars, connVars, recycleConnectionWaiterLocked, Recycled
  <2>3. \A u \in Thread \ {t} : Waiting(u) => waitOf[u] \in Waiter /\ waitOf[u] # w
    BY <2>1 DEF WaiterInv, ThreadInv
  <2> HIDE DEF w
  <2>4. \A v \in Waiter : v # w => waiter'[v] = waiter[v]
    BY <2>2 DEF TypeOK
  <2>5. \A u \in Thread \ {t} : \A d \in Conn : Owns(u, d)' => Owns(u, d)
    BY <2>1, <2>2, <2>3, <2>4 DEF Owns, TypeOK
  <2>6. \A d \in Conn : Owns(t, d)' => Owns(t, d)
    BY <2>1, <2>2 DEF Owns, TypeOK, w
  <2> QED BY <2>2, <2>5, <2>6, OwnersShrink
<1>11. ASSUME NEW t \in Thread, RemoveListener(t) PROVE OwnerInv'
  <2>1. /\ UNCHANGED <<held, waiter, mAcquiredConnections>>
        /\ \A u \in Thread : Waiting(u)' => Waiting(u) /\ waitOf'[u] = waitOf[u]
    BY <1>11 DEF RemoveListener, poolVars, connVars, waiterVars, Waiting, WaitingPcs, TypeOK
  <2> QED BY <2>1, OwnersShrink DEF Owns
<1>12. ASSUME NEW t \in Thread, ReleaseConnection(t) PROVE OwnerInv'
  <2>1. /\ UNCHANGED <<waiter, waitOf>> /\ held[t] \in Conn /\ Owns(t, held[t])
        /\ held' = [held EXCEPT ![t] = NoConn] /\ pc' = [pc EXCEPT ![t] = "idle"]
        /\ mAcquiredConnections' = [mAcquiredConnections EXCEPT ![held[t]] = "NONE"]
    BY <1>12 DEF ReleaseConnection, ThreadInv, waiterVars, Owns
  <2>2. \A d \in Conn : \A u \in Thread : Owns(u, d)' => Owns(u, d) /\ u # t
    BY <2>1, PoolAssumption DEF Owns, Waiting, WaitingPcs, TypeOK
  <2>3. \A d \in Conn : \A u \in Thread : Owns(u, d)' => d # held[t]
    BY <2>1, <2>2 DEF OwnerInv
  <2> QED BY <2>1, <2>2, <2>3, OwnersShrink DEF TypeOK
<1>13. ASSUME NEW t \in Thread, Leak(t) PROVE OwnerInv'
  <2>1. \A d \in Conn : \A u \in Thread : Owns(u, d)' => Owns(u, d)
    BY <1>13, PoolAssumption DEF Leak, Owns, Waiting, WaitingPcs, TypeOK, waiterVars
  <2> QED BY <1>13, <2>1, OwnersShrink DEF Leak, poolVars, connVars
<1>14. ASSUME NEW t \in Thread, Cancel(t) PROVE OwnerInv'
  BY <1>1, <1>14 DEF Cancel, poolVars, connVars, waiterVars
<1>15. CASE ClosePool
  BY <1>1, <1>15 DEF ClosePool, waiterVars, threadVars, localVars
<1>16. ASSUME NEW config \in Configs, reconfigure(config) PROVE OwnerInv'
  <2>1. UNCHANGED <<pc, held, waitOf, waiter>>
    BY <1>16 DEF reconfigure, ReconfigureReopen, ReconfigureReopenFails, ReconfigureInPlace,
                 waiterVars, threadVars, localVars
  <2>2. \A c \in Conn : mAcquiredConnections[c] # "NONE" => mAcquiredConnections'[c] # "NONE"
    BY <1>16 DEF reconfigure, ReconfigureReopen, ReconfigureReopenFails, ReconfigureInPlace,
                 MarkAcquired
  <2> QED BY <2>1, <2>2, OwnersShrink DEF Owns, Waiting
<1>17. ASSUME NEW c \in Conn, Collect(c) PROVE OwnerInv'
  <2>1. /\ UNCHANGED <<pc, held, waitOf, waiter>>
        /\ mAcquiredConnections' = [mAcquiredConnections EXCEPT ![c] = "NONE"]
        /\ \A t \in Thread : ~Owns(t, c)
    BY <1>17 DEF Collect, Referenced, Owns, waiterVars, threadVars, localVars
  <2>2. \A d \in Conn : \A t \in Thread : Owns(t, d)' <=> Owns(t, d)
    BY <2>1 DEF Owns, Waiting
  <2> QED BY <2>1, <2>2, OwnersShrink DEF TypeOK
<1>18. ASSUME NEW c \in Conn, FinalizeConnection(c) PROVE OwnerInv'
  BY <1>1, <1>18 DEF FinalizeConnection, waiterVars, threadVars, localVars
<1> QED BY <1>2, <1>3, <1>4, <1>5, <1>6, <1>7, <1>8, <1>9, <1>10, <1>11, <1>12, <1>13, <1>14, <1>15,
          <1>16, <1>17, <1>18
     DEF Next, WakeConnectionWaiters, ThreadStep, acquireConnection, WaitStep, Check

-----------------------------------------------------------------------------
(* Wake-ups. *)

\* A thread here will reach parkNanos before it looks at its waiter.
BeforePark == {"arming", "looping", "recover", "parking"}
WakeInv == NoLostWaiter /\ NoLostUnpark

\* Steps that decide no wait and take no permit before the park preserve the wake-up invariant.
LEMMA WakeFrame ==
  ASSUME WakeInv, UNCHANGED <<mIsOpen, waiterVars>>,
         \A t \in Thread : Waiting(t)' => Waiting(t) /\ waitOf'[t] = waitOf[t],
         \A t \in Thread : pc'[t] \in BeforePark =>
           \/ ~Decided(t)
           \/ pc[t] \in BeforePark /\ permit'[t] = permit[t]
  PROVE  WakeInv'
<1>1. \A t \in Thread : Waiting(t)' => (Decided(t)' <=> Decided(t))
  BY DEF Decided, waiterVars, Queued
<1>2. BeforePark \subseteq WaitingPcs
  BY DEF BeforePark, WaitingPcs
<1>3. NoLostWaiter'
  BY <1>1 DEF WakeInv, NoLostWaiter, waiterVars, Queued
<1>4. NoLostUnpark'
  BY <1>1, <1>2 DEF WakeInv, NoLostUnpark, Waiting, BeforePark
<1> QED BY <1>3, <1>4 DEF WakeInv

\* A waiter w is taken out of the queue, decided, and its thread unparked.
LEMMA WakeDropped ==
  ASSUME TypeOK, ThreadInv, WaiterInv, WakeInv, UNCHANGED <<mIsOpen, waitOf>>,
         \A t \in Thread : (Waiting(t)' <=> Waiting(t))
                           /\ (pc'[t] \in BeforePark => pc[t] \in BeforePark),
         NEW w \in Queued, Queued' = Queued \ {w},
         permit' = [permit EXCEPT ![waiter[w].thread] = TRUE],
         \A v \in Waiter \ {w} : waiter'[v] = waiter[v],
         mIsOpen => waiter'[w].assigned # NoConn \/ waiter'[w].exception # "null"
  PROVE  WakeInv'
<1>0. waiter[w].thread \in Thread
  BY DEF WaiterInv
<1>1. \A t \in Thread : Waiting(t) /\ waitOf[t] = w => permit'[t]
  BY <1>0 DEF WaiterInv, TypeOK
<1>2. \A t \in Thread : permit[t] => permit'[t]
  BY <1>0 DEF TypeOK
<1>3. \A t \in Thread : Waiting(t) /\ waitOf[t] # w => (Decided(t)' <=> Decided(t))
  BY DEF Decided, ThreadInv
<1>4. BeforePark \subseteq WaitingPcs
  BY DEF BeforePark, WaitingPcs
<1>5. NoLostWaiter'
  <2> SUFFICES ASSUME mIsOpen, NEW t \in Thread, Waiting(t), ~Decided(t)'
               PROVE  waitOf[t] \in Queued'
    BY DEF NoLostWaiter
  <2>1. waitOf[t] # w
    BY DEF Decided
  <2> QED BY <1>3, <2>1 DEF WakeInv, NoLostWaiter
<1>6. NoLostUnpark'
  BY <1>1, <1>2, <1>3, <1>4 DEF WakeInv, NoLostUnpark, Waiting, BeforePark
<1> QED BY <1>5, <1>6 DEF WakeInv

\* No step loses a waiter or an unpark; one case per action.
LEMMA WakeStep ==
  ASSUME TypeOK, ThreadInv, WaiterInv, WakeInv, Next
  PROVE  WakeInv'
<1>1. CASE UNCHANGED <<mIsOpen, waiterVars, waitOf, pc, permit>>
  BY <1>1, WakeFrame DEF Waiting
<1>2. CASE WakeClosed \/ WakeThrow \/ \E c \in Conn : WakeAssign(c)
  <2>1. /\ UNCHANGED <<mIsOpen, pc, waitOf>>
        /\ Dismiss /\ scan.pos <= Len(mConnectionWaiterQueue)
        /\ \/ ~mIsOpen /\ UNCHANGED waiter
           \/ waiter' = [waiter EXCEPT ![Current].exception = "open"]
           \/ \E c \in Conn : waiter' = [waiter EXCEPT ![Current].assigned = c]
    BY <1>2 DEF WakeClosed, WakeThrow, WakeAssign, poolVars, configVars
  <2>2. /\ Current \in Waiter /\ Current \in Queued /\ Queued' = Queued \ {Current}
        /\ permit' = [permit EXCEPT ![waiter[Current].thread] = TRUE]
    BY <2>1, Dismissed
  <2>3. \A v \in Waiter \ {Current} : waiter'[v] = waiter[v]
    BY <2>1, <2>2 DEF TypeOK
  <2>4. mIsOpen => waiter'[Current].assigned # NoConn \/ waiter'[Current].exception # "null"
    BY <2>1, <2>2, PoolAssumption DEF TypeOK, WaiterRecord
  <2>5. \A t \in Thread : Waiting(t)' <=> Waiting(t)
    BY <2>1 DEF Waiting
  <2> QED BY <2>1, <2>2, <2>3, <2>4, <2>5, WakeDropped
<1>3. CASE WakeSkip \/ WakeEnd
  BY <1>1, <1>3 DEF WakeSkip, WakeEnd, poolVars, configVars, threadVars, localVars
<1>4. ASSUME NEW t \in Thread, NEW r \in Requests, AcquireThrows(t, r) PROVE WakeInv'
  BY <1>1, <1>4 DEF AcquireThrows, configVars, threadVars, localVars
<1>5. ASSUME NEW t \in Thread, NEW r \in Requests, AcquireNow(t, r) PROVE WakeInv'
  <2>1. UNCHANGED <<mIsOpen, waiterVars, waitOf, permit>> /\ pc' = [pc EXCEPT ![t] = "holding"]
    BY <1>5 DEF AcquireNow, configVars
  <2>2. \A u \in Thread : /\ Waiting(u)' => Waiting(u)
                          /\ pc'[u] \in BeforePark => pc[u] \in BeforePark
    BY <2>1 DEF Waiting, WaitingPcs, BeforePark, TypeOK
  <2> QED BY <2>1, <2>2, WakeFrame
<1>6. ASSUME NEW t \in Thread, NEW r \in Requests, Enqueue(t, r) PROVE WakeInv'
  <2>1. PICK w \in Waiter :
           /\ \A u \in Thread : Waiting(u) => waitOf[u] # w
           /\ Queued' = Queued \cup {w}
           /\ waiter' = [waiter EXCEPT ![w] = waiter'[w]]
           /\ waiter'[w].assigned = NoConn /\ waiter'[w].exception = "null"
           /\ waitOf' = [waitOf EXCEPT ![t] = w]
    BY <1>6, Enqueued
  <2>2. mIsOpen /\ UNCHANGED <<mIsOpen, permit>> /\ pc' = [pc EXCEPT ![t] = "arming"]
    BY <1>6 DEF Enqueue, configVars
  <2>3. waitOf'[t] = w /\ w \in Queued' /\ ~Decided(t)'
    BY <2>1, <2>2 DEF Decided, TypeOK
  <2>4. \A v \in Waiter : v # w => waiter'[v] = waiter[v]
    BY <2>1 DEF TypeOK
  <2>5. ASSUME NEW u \in Thread, u # t
        PROVE  /\ pc'[u] = pc[u] /\ waitOf'[u] = waitOf[u]
               /\ Waiting(u) => (Decided(u)' <=> Decided(u))
    <3>1. pc'[u] = pc[u] /\ waitOf'[u] = waitOf[u]
      BY <2>1, <2>2, <2>5 DEF TypeOK
    <3>2. Waiting(u) => waiter'[waitOf[u]] = waiter[waitOf[u]]
      BY <2>1, <2>4 DEF ThreadInv
    <3> QED BY <2>2, <3>1, <3>2 DEF Decided
  <2>6. NoLostWaiter'
    BY <2>1, <2>2, <2>3, <2>5 DEF WakeInv, NoLostWaiter, Waiting
  <2>7. NoLostUnpark'
    <3> SUFFICES ASSUME NEW u \in Thread, pc'[u] \in BeforePark, Decided(u)' PROVE permit'[u]
      BY DEF NoLostUnpark, BeforePark
    <3>1. u # t
      BY <2>3
    <3> QED BY <2>2, <2>5, <3>1 DEF WakeInv, NoLostUnpark, BeforePark, Waiting, WaitingPcs
  <2> QED BY <2>6, <2>7 DEF WakeInv
<1>7. ASSUME NEW t \in Thread, SetListener(t) \/ OnCancel(t) PROVE WakeInv'
  <2>1. /\ UNCHANGED <<mIsOpen, waitOf>>
        /\ \A u \in Thread : (Waiting(u)' <=> Waiting(u))
                           /\ (pc'[u] \in BeforePark => pc[u] \in BeforePark)
    BY <1>7 DEF SetListener, OnCancel, poolVars, configVars, Waiting, WaitingPcs, BeforePark, TypeOK
  <2>2. UNCHANGED <<waiterVars, permit, scan>> \/ cancelConnectionWaiterLocked(waitOf[t])
    BY <1>7 DEF SetListener, OnCancel, OnCancelOf
  <2>3. CASE UNCHANGED <<waiterVars, permit, scan>>
    BY <2>1, <2>3, WakeFrame
  <2>4. CASE ~UNCHANGED <<waiterVars, permit, scan>>
    <3> DEFINE w == waitOf[t]
    <3>1. /\ w \in Waiter /\ w \in Queued
          /\ Queued' = Queued \ {w}
          /\ waiter' = [waiter EXCEPT ![w].exception = "canceled"]
          /\ permit' = [permit EXCEPT ![waiter[w].thread] = TRUE]
      BY <2>2, <2>4, Canceled
    <3> HIDE DEF w
    <3>2. waiter'[w].exception # "null" /\ \A v \in Waiter \ {w} : waiter'[v] = waiter[v]
      BY <3>1 DEF TypeOK, WaiterRecord
    <3> QED BY <2>1, <3>1, <3>2, WakeDropped
  <2> QED BY <2>3, <2>4
<1>8. ASSUME NEW t \in Thread, CheckLeaked(t) \/ Recover(t) \/ ParkTimeout(t) \/ ParkInterrupted(t)
      PROVE  WakeInv'
  <2>1. UNCHANGED <<mIsOpen, waiterVars, waitOf, permit>>
    BY <1>8 DEF CheckLeaked, Recover, ParkTimeout, ParkInterrupted, poolVars, configVars, localVars
  <2>2. \A u \in Thread : /\ Waiting(u)' => Waiting(u)
                          /\ pc'[u] \in BeforePark => pc[u] \in BeforePark
    BY <1>8 DEF CheckLeaked, Recover, ParkTimeout, ParkInterrupted, Waiting, WaitingPcs, BeforePark,
                TypeOK
  <2> QED BY <2>1, <2>2, WakeFrame
<1>9. ASSUME NEW t \in Thread, Park(t) PROVE WakeInv'
  <2>1. UNCHANGED <<mIsOpen, waiterVars, waitOf>>
    BY <1>9 DEF Park, poolVars, configVars
  <2>2. \A u \in Thread : /\ Waiting(u)' => Waiting(u)
                          /\ pc'[u] \in BeforePark => pc[u] \in BeforePark /\ permit'[u] = permit[u]
    BY <1>9 DEF Park, Waiting, WaitingPcs, BeforePark, TypeOK
  <2> QED BY <2>1, <2>2, WakeFrame
<1>10. ASSUME NEW t \in Thread, CheckAgain(t) PROVE WakeInv'
  <2>1. UNCHANGED <<mIsOpen, waiterVars, waitOf, permit>> /\ ~Decided(t)
    BY <1>10 DEF CheckAgain, poolVars, configVars, Decided
  <2>2. \A u \in Thread : /\ Waiting(u)' => Waiting(u)
                          /\ u # t /\ pc'[u] \in BeforePark => pc[u] \in BeforePark
    BY <1>10 DEF CheckAgain, Waiting, WaitingPcs, BeforePark, TypeOK
  <2> QED BY <2>1, <2>2, WakeFrame
<1>11. ASSUME NEW t \in Thread, CheckClosed(t) \/ RemoveListener(t) PROVE WakeInv'
  <2>1. UNCHANGED <<mIsOpen, waiterVars, permit>>
    BY <1>11 DEF CheckClosed, RemoveListener, poolVars, configVars, localVars
  <2>2. \A u \in Thread : /\ Waiting(u)' => Waiting(u) /\ waitOf'[u] = waitOf[u]
                          /\ pc'[u] \in BeforePark => pc[u] \in BeforePark
    BY <1>11 DEF CheckClosed, RemoveListener, localVars, Waiting, WaitingPcs, BeforePark, TypeOK
  <2> QED BY <2>1, <2>2, WakeFrame
<1>12. ASSUME NEW t \in Thread, CheckDone(t) PROVE WakeInv'
  <2> DEFINE w == waitOf[t]
  <2>1. /\ Waiting(t) /\ ~Waiting(t)' /\ w \in Waiter
        /\ \A u \in Thread \ {t} : pc'[u] = pc[u]
    BY <1>12 DEF CheckDone, Waiting, WaitingPcs, TypeOK, ThreadInv
  <2>2. /\ UNCHANGED <<mIsOpen, waitOf, permit, mConnectionWaiterQueue>>
        /\ waiter' = [waiter EXCEPT ![w] = BlankWaiter]
    BY <1>12 DEF CheckDone, poolVars, configVars, recycleConnectionWaiterLocked, Recycled
  <2>3. \A u \in Thread \ {t} : Waiting(u) => waitOf[u] \in Waiter /\ waitOf[u] # w
    BY <2>1 DEF WaiterInv, ThreadInv
  <2> HIDE DEF w
  <2>4. \A v \in Waiter : v # w => waiter'[v] = waiter[v]
    BY <2>2 DEF TypeOK
  <2>5. \A u \in Thread \ {t} : Waiting(u) => (Decided(u)' <=> Decided(u))
    BY <2>2, <2>3, <2>4 DEF Decided, Queued
  <2>6. NoLostWaiter'
    BY <2>1, <2>2, <2>5 DEF WakeInv, NoLostWaiter, Waiting, Queued
  <2>7. NoLostUnpark'
    <3> SUFFICES ASSUME NEW u \in Thread, pc'[u] \in BeforePark, Decided(u)' PROVE permit'[u]
      BY DEF NoLostUnpark, BeforePark
    <3>1. u # t
      BY <2>1 DEF Waiting, WaitingPcs, BeforePark
    <3> QED BY <2>1, <2>2, <2>5, <3>1 DEF WakeInv, NoLostUnpark, BeforePark, Waiting, WaitingPcs
  <2> QED BY <2>6, <2>7 DEF WakeInv
<1>13. ASSUME NEW t \in Thread, ReleaseConnection(t) \/ Leak(t) PROVE WakeInv'
  <2>1. UNCHANGED <<mIsOpen, waiterVars, waitOf, permit>>
    BY <1>13 DEF ReleaseConnection, Leak, poolVars, configVars
  <2>2. \A u \in Thread : /\ Waiting(u)' => Waiting(u)
                          /\ pc'[u] \in BeforePark => pc[u] \in BeforePark
    BY <1>13 DEF ReleaseConnection, Leak, Waiting, WaitingPcs, BeforePark, TypeOK
  <2> QED BY <2>1, <2>2, WakeFrame
<1>14. ASSUME NEW t \in Thread, Cancel(t) PROVE WakeInv'
  BY <1>1, <1>14 DEF Cancel, poolVars, configVars
<1>15. CASE ClosePool
  <2>1. mIsOpen /\ ~mIsOpen' /\ UNCHANGED <<waiterVars, waitOf, pc, permit>>
    BY <1>15 DEF ClosePool, threadVars, localVars
  <2>2. NoLostWaiter'
    BY <2>1 DEF NoLostWaiter
  <2>3. \A t \in Thread : Waiting(t) /\ Decided(t)' => Decided(t)
    BY <2>1 DEF WakeInv, NoLostWaiter, Decided, waiterVars, Queued
  <2>4. NoLostUnpark'
    BY <2>1, <2>3 DEF WakeInv, NoLostUnpark, Waiting, WaitingPcs
  <2> QED BY <2>2, <2>4 DEF WakeInv
<1>16. ASSUME NEW config \in Configs, reconfigure(config) PROVE WakeInv'
  BY <1>1, <1>16 DEF reconfigure, ReconfigureReopen, ReconfigureReopenFails, ReconfigureInPlace,
                     configVars, threadVars, localVars
<1>17. ASSUME NEW c \in Conn, Collect(c) \/ FinalizeConnection(c) PROVE WakeInv'
  BY <1>1, <1>17 DEF Collect, FinalizeConnection, configVars, threadVars, localVars
<1> QED BY <1>2, <1>3, <1>4, <1>5, <1>6, <1>7, <1>8, <1>9, <1>10, <1>11, <1>12, <1>13, <1>14, <1>15,
          <1>16, <1>17
     DEF Next, WakeConnectionWaiters, ThreadStep, acquireConnection, WaitStep, Check

-----------------------------------------------------------------------------
(* Cancellation. *)

\* What it takes to keep cancellations with their waits.
LEMMA CancelFrame ==
  ASSUME CancelHitsItsWaiter,
         \A t \in Thread : Waiting(t)' =>
           \/ signal'[t] \in {"firing", "canceled"}
           \/ waiter'[waitOf'[t]].exception # "canceled"
           \/ /\ Waiting(t) /\ signal'[t] = signal[t]
              /\ waiter'[waitOf'[t]].exception = waiter[waitOf[t]].exception
  PROVE  CancelHitsItsWaiter'
BY DEF CancelHitsItsWaiter

\* No step marks a wait as canceled whose signal was not; one case per action.
LEMMA CancelStep ==
  ASSUME TypeOK, ThreadInv, WaiterInv, ClosedInv, NonceInv, CancelHitsItsWaiter, Next
  PROVE  CancelHitsItsWaiter'
<1>1. ASSUME UNCHANGED <<waiter, signal>>,
             \A t \in Thread : Waiting(t)' => Waiting(t) /\ waitOf'[t] = waitOf[t]
      PROVE  CancelHitsItsWaiter'
  BY <1>1, CancelFrame
<1>2. CASE WakeThrow \/ \E c \in Conn : WakeAssign(c)
  <2>1. /\ UNCHANGED <<pc, waitOf, signal>>
        /\ Dismiss /\ scan.pos <= Len(mConnectionWaiterQueue)
        /\ \/ waiter' = [waiter EXCEPT ![Current].exception = "open"]
           \/ \E c \in Conn : waiter' = [waiter EXCEPT ![Current].assigned = c]
    BY <1>2 DEF WakeThrow, WakeAssign
  <2>2. Current \in Waiter
    BY <2>1, Dismissed
  <2>3. \A w \in Waiter : waiter'[w].exception \in {"open", waiter[w].exception}
    <3>1. \A w \in Waiter : w # Current => waiter'[w] = waiter[w]
      BY <2>1, <2>2 DEF TypeOK
    <3>2. CASE waiter' = [waiter EXCEPT ![Current].exception = "open"]
      <4>1. waiter'[Current].exception = "open"
        BY <2>2, <3>2 DEF TypeOK, WaiterRecord
      <4> QED BY <3>1, <4>1
    <3>3. CASE \E c \in Conn : waiter' = [waiter EXCEPT ![Current].assigned = c]
      <4>1. waiter'[Current].exception = waiter[Current].exception
        BY <2>2, <3>3 DEF TypeOK, WaiterRecord
      <4> QED BY <3>1, <4>1
    <3> QED BY <2>1, <3>2, <3>3
  <2> QED BY <2>1, <2>3, CancelFrame DEF Waiting, ThreadInv
<1>3. CASE WakeClosed \/ WakeSkip \/ WakeEnd
  BY <1>1, <1>3 DEF WakeClosed, WakeSkip, WakeEnd, waiterVars, threadVars, localVars, Waiting
<1>4. ASSUME NEW t \in Thread, NEW r \in Requests, AcquireNow(t, r) PROVE CancelHitsItsWaiter'
  <2>1. UNCHANGED <<waiter, signal, waitOf>> /\ pc' = [pc EXCEPT ![t] = "holding"]
    BY <1>4 DEF AcquireNow, waiterVars
  <2> QED BY <1>1, <2>1 DEF Waiting, WaitingPcs, TypeOK
<1>5. ASSUME NEW t \in Thread, NEW r \in Requests, AcquireThrows(t, r) PROVE CancelHitsItsWaiter'
  BY <1>1, <1>5 DEF AcquireThrows, waiterVars, threadVars, localVars, Waiting
<1>6. ASSUME NEW t \in Thread, NEW r \in Requests, Enqueue(t, r) PROVE CancelHitsItsWaiter'
  <2>1. PICK w \in Waiter :
           /\ \A u \in Thread : Waiting(u) => waitOf[u] # w
           /\ waiter' = [waiter EXCEPT ![w] = waiter'[w]]
           /\ waiter'[w].exception = "null"
           /\ waitOf' = [waitOf EXCEPT ![t] = w]
    BY <1>6, Enqueued
  <2>2. \A v \in Waiter : v # w => waiter'[v] = waiter[v]
    BY <2>1 DEF TypeOK
  <2>3. /\ pc' = [pc EXCEPT ![t] = "arming"]
        /\ signal' = [signal EXCEPT ![t] = IF r.signal THEN "clear" ELSE "none"]
    BY <1>6 DEF Enqueue
  <2>4. \A u \in Thread : u # t => pc'[u] = pc[u] /\ signal'[u] = signal[u] /\ waitOf'[u] = waitOf[u]
    BY <2>1, <2>3 DEF TypeOK
  <2>5. waiter'[waitOf'[t]].exception # "canceled"
    BY <2>1 DEF TypeOK
  <2>6. \A u \in Thread : u # t /\ Waiting(u) => waiter'[waitOf'[u]] = waiter[waitOf[u]]
    BY <2>1, <2>2, <2>4 DEF ThreadInv
  <2> QED BY <2>4, <2>5, <2>6, CancelFrame DEF Waiting
<1>7. ASSUME NEW t \in Thread, SetListener(t) \/ OnCancel(t) PROVE CancelHitsItsWaiter'
  <2>1. /\ UNCHANGED waitOf
        /\ \A u \in Thread : Waiting(u)' <=> Waiting(u)
        /\ \A u \in Thread : u # t => signal'[u] = signal[u]
    BY <1>7 DEF SetListener, OnCancel, Waiting, WaitingPcs, TypeOK
  <2>2. CASE UNCHANGED waiter
    <3>1. \/ signal'[t] \in {"canceled", signal[t]}
          \/ signal[t] = "clear"
      BY <1>7 DEF SetListener, OnCancel, TypeOK
    <3>2. signal[t] = "clear" /\ Waiting(t) => waiter[waitOf[t]].exception # "canceled"
      BY DEF CancelHitsItsWaiter
    <3> QED BY <2>1, <2>2, <3>1, <3>2, CancelFrame
  <2>3. CASE ~UNCHANGED waiter
    <3> DEFINE w == waitOf[t]
    <3>1. /\ nonceMatches[t] /\ LockFree /\ cancelConnectionWaiterLocked(w)
          /\ signal[t] = "canceled" \/ signal[t] = "firing"
          /\ signal'[t] = "canceled"
      BY <1>7, <2>3 DEF SetListener, OnCancel, OnCancelOf, waiterVars, TypeOK
    <3>2. /\ w \in Waiter /\ w \in Queued
          /\ waiter' = [waiter EXCEPT ![w].exception = "canceled"]
      BY <2>3, <3>1, Canceled DEF waiterVars
    <3>3. mIsOpen
      BY <3>1, <3>2 DEF ClosedInv, LockFree, Queued, Range
    <3>4. Waiting(t)
      BY <3>1, <3>3 DEF NonceInv
    <3>5. \A u \in Thread \ {t} : Waiting(u) => waitOf[u] # w /\ waitOf[u] \in Waiter
      BY <3>4 DEF WaiterInv, ThreadInv
    <3> HIDE DEF w
    <3>6. \A v \in Waiter : v # w => waiter'[v] = waiter[v]
      BY <3>2 DEF TypeOK
    <3> QED BY <2>1, <3>1, <3>5, <3>6, CancelFrame
  <2> QED BY <2>2, <2>3
<1>8. ASSUME NEW t \in Thread, CheckLeaked(t) \/ Recover(t) \/ Park(t) \/ ParkTimeout(t)
                                \/ ParkInterrupted(t) \/ CheckAgain(t) \/ CheckClosed(t)
      PROVE  CancelHitsItsWaiter'
  <2>1. UNCHANGED <<waiter, signal, waitOf>>
    BY <1>8 DEF CheckLeaked, Recover, Park, ParkTimeout, ParkInterrupted, CheckAgain, CheckClosed,
                waiterVars, localVars
  <2>2. \A u \in Thread : Waiting(u)' => Waiting(u)
    BY <1>8 DEF CheckLeaked, Recover, Park, ParkTimeout, ParkInterrupted, CheckAgain, CheckClosed,
                Waiting, WaitingPcs, TypeOK
  <2> QED BY <1>1, <2>1, <2>2
<1>9. ASSUME NEW t \in Thread, CheckDone(t) PROVE CancelHitsItsWaiter'
  <2> DEFINE w == waitOf[t]
  <2>1. /\ Waiting(t) /\ ~Waiting(t)' /\ w \in Waiter
        /\ \A u \in Thread \ {t} : Waiting(u)' <=> Waiting(u)
    BY <1>9 DEF CheckDone, Waiting, WaitingPcs, TypeOK, ThreadInv
  <2>2. /\ UNCHANGED <<waitOf, signal>>
        /\ waiter' = [waiter EXCEPT ![w] = BlankWaiter]
    BY <1>9 DEF CheckDone, recycleConnectionWaiterLocked, Recycled
  <2>3. \A u \in Thread \ {t} : Waiting(u) => waitOf[u] \in Waiter /\ waitOf[u] # w
    BY <2>1 DEF WaiterInv, ThreadInv
  <2> HIDE DEF w
  <2>4. \A v \in Waiter : v # w => waiter'[v] = waiter[v]
    BY <2>2 DEF TypeOK
  <2> QED BY <2>1, <2>2, <2>3, <2>4, CancelFrame
<1>10. ASSUME NEW t \in Thread, RemoveListener(t) PROVE CancelHitsItsWaiter'
  <2>1. /\ UNCHANGED waiter
        /\ \A u \in Thread : Waiting(u)' => Waiting(u) /\ waitOf'[u] = waitOf[u] /\ signal'[u] = signal[u]
    BY <1>10 DEF RemoveListener, waiterVars, Waiting, WaitingPcs, TypeOK
  <2> QED BY <2>1, CancelFrame
<1>11. ASSUME NEW t \in Thread, ReleaseConnection(t) \/ Leak(t) PROVE CancelHitsItsWaiter'
  <2>1. UNCHANGED <<waiter, signal, waitOf>> /\ \A u \in Thread : Waiting(u)' => Waiting(u)
    BY <1>11 DEF ReleaseConnection, Leak, waiterVars, Waiting, WaitingPcs, TypeOK
  <2> QED BY <1>1, <2>1
<1>12. ASSUME NEW t \in Thread, Cancel(t) PROVE CancelHitsItsWaiter'
  <2>1. /\ UNCHANGED <<waiter, pc, waitOf>>
        /\ signal'[t] \in {"firing", "canceled"}
        /\ \A u \in Thread : u # t => signal'[u] = signal[u]
    BY <1>12 DEF Cancel, waiterVars, TypeOK
  <2> QED BY <2>1, CancelFrame DEF Waiting
<1>13. CASE ClosePool
  BY <1>1, <1>13 DEF ClosePool, waiterVars, threadVars, localVars, Waiting
<1>14. ASSUME NEW config \in Configs, reconfigure(config) PROVE CancelHitsItsWaiter'
  <2>1. UNCHANGED <<waiter, signal, pc, waitOf>>
    BY <1>14 DEF reconfigure, ReconfigureReopen, ReconfigureReopenFails, ReconfigureInPlace,
                 waiterVars, threadVars, localVars
  <2> QED BY <1>1, <2>1 DEF Waiting
<1>15. ASSUME NEW c \in Conn, Collect(c) \/ FinalizeConnection(c) PROVE CancelHitsItsWaiter'
  <2>1. UNCHANGED <<waiter, signal, pc, waitOf>>
    BY <1>15 DEF Collect, FinalizeConnection, waiterVars, threadVars, localVars
  <2> QED BY <1>1, <2>1 DEF Waiting
<1> QED BY <1>2, <1>3, <1>4, <1>5, <1>6, <1>7, <1>8, <1>9, <1>10, <1>11, <1>12, <1>13, <1>14, <1>15
     DEF Next, WakeConnectionWaiters, ThreadStep, acquireConnection, WaitStep, Check

-----------------------------------------------------------------------------
(* The theorems. *)

\* The constructor of the pool establishes the invariant.
LEMMA InitInv == Init => IInv
<1> SUFFICES ASSUME Init PROVE IInv
  OBVIOUS
<1>0. mAvailablePrimaryConnection \in Conn
  BY PoolAssumption DEF Init
<1>1. mConnectionWaiterQueue = <<>> /\ Queued = {} /\ mConnectionWaiterQueue \in Seq(Waiter)
      /\ Distinct(mConnectionWaiterQueue)
  BY DEF Init, Queued, Range, Distinct
<1>2. conn \in [Conn -> ConnRecord]
  BY DEF Init, OpenConn, ClosedConn, ConnRecord
<1>3. BlankWaiter \in WaiterRecord /\ NoScan \in ScanRecord
  BY DEF BlankWaiter, WaiterRecord, NoScan, Scan, ScanRecord
<1>4. TypeOK
  BY <1>0, <1>1, <1>2, <1>3 DEF TypeOK, Init, Pcs, Signals, Statuses
<1>5. \A t \in Thread : ~Waiting(t)
  BY DEF Init, Waiting, WaitingPcs
<1>6. ThreadInv /\ WaiterInv /\ ClosedInv /\ NonceInv
  BY <1>1, <1>5 DEF Init, ThreadInv, WaiterInv, ClosedInv, NonceInv
<1>7. conn[mAvailablePrimaryConnection] = OpenConn(TRUE, mConfiguration)
  BY <1>0 DEF Init
<1>8. PlaceInv /\ ReleasePrimaryFindsSlot /\ ConfigurationPropagated
  BY <1>0, <1>7 DEF Init, OpenConn, PlaceInv, ReleasePrimaryFindsSlot, ConfigurationPropagated,
                    Acquired, Available
<1>9. OwnerInv
  BY <1>5, PoolAssumption DEF Init, OwnerInv, Owns
<1>10. NoLostWaiter /\ CancelHitsItsWaiter
  BY <1>5 DEF NoLostWaiter, CancelHitsItsWaiter
<1>11. NoLostUnpark
  BY DEF Init, NoLostUnpark
<1> QED BY <1>4, <1>6, <1>8, <1>9, <1>10, <1>11 DEF IInv

\* Every step of the pool, its clients and the collector preserves the invariant.
LEMMA NextInv == IInv /\ [Next]_vars => IInv'
<1> SUFFICES ASSUME IInv, [Next]_vars PROVE IInv'
  OBVIOUS
<1>1. CASE Next
  <2>1. TypeOK' /\ ThreadInv' /\ WaiterInv' /\ ClosedInv' /\ NonceInv'
    BY <1>1, TypeStep, ThreadStepInv, WaiterStep, ClosedStep, NonceStep DEF IInv
  <2>2. ConnInv' /\ OwnerInv'
    BY <1>1, ConnStep, OwnerStep DEF IInv, ConnInv
  <2>3. WakeInv' /\ CancelHitsItsWaiter'
    BY <1>1, WakeStep, CancelStep DEF IInv, WakeInv
  <2> QED BY <2>1, <2>2, <2>3 DEF IInv, ConnInv, WakeInv
<1>2. CASE UNCHANGED vars
  <2>1. UNCHANGED <<mIsOpen, mConfiguration, mAvailablePrimaryConnection,
                    mAvailableNonPrimaryConnections, mAcquiredConnections, conn, mConnectionLeaked,
                    collected>>
    BY <1>2 DEF vars, poolVars, configVars, connVars, leakVars
  <2>2. UNCHANGED <<mConnectionWaiterQueue, mConnectionWaiterPool, waiter, scan, pc, held, waitOf,
                    nonceMatches, permit, signal, busyTimeout>>
    BY <1>2 DEF vars, waiterVars, threadVars, localVars
  <2>3. TypeOK' /\ ThreadInv' /\ ClosedInv' /\ NonceInv'
    <3>1. TypeOK'
      BY <2>1, <2>2 DEF IInv, TypeOK
    <3>2. ThreadInv' /\ ClosedInv' /\ NonceInv'
      BY <2>1, <2>2 DEF IInv, ThreadInv, ClosedInv, NonceInv, Waiting
    <3> QED BY <3>1, <3>2
  <2>4. WaiterInv'
    BY <2>2, WaiterFrame DEF IInv, waiterVars, Waiting
  <2>5. PlaceInv' /\ OwnerInv'
    BY <2>1, <2>2 DEF IInv, PlaceInv, OwnerInv, Owns, Waiting
  <2>6. ReleasePrimaryFindsSlot' /\ ConfigurationPropagated'
    <3>1. Acquired' = Acquired /\ Available' = Available
      BY <2>1 DEF Acquired, Available
    <3>2. ReleasePrimaryFindsSlot'
      BY <2>1, <3>1 DEF IInv, ReleasePrimaryFindsSlot
    <3>3. ConfigurationPropagated'
      BY <2>1, <3>1 DEF IInv, ConfigurationPropagated
    <3> QED BY <3>2, <3>3
  <2>7. WakeInv'
    BY <2>1, <2>2, WakeFrame DEF IInv, WakeInv, Waiting, waiterVars
  <2>8. CancelHitsItsWaiter'
    BY <2>2 DEF IInv, CancelHitsItsWaiter, Waiting
  <2> QED BY <2>3, <2>4, <2>5, <2>6, <2>7, <2>8 DEF IInv, WakeInv
<1> QED BY <1>1, <1>2

\* The invariant holds in every reachable state.
THEOREM Invariance == Spec => []IInv
BY InitInv, NextInv, PTL DEF Spec

\* Every reachable state of the pool is well formed.
THEOREM TypeCorrect == Spec => []TypeOK
<1>1. IInv => TypeOK
  BY DEF IInv
<1> QED BY <1>1, Invariance, PTL

\* No connection is ever given to two threads, and no thread owns one that is closed, on offer
\* or not recorded as acquired (acquireConnection, releaseConnection and everything between).
THEOREM Exclusion == Spec => []ExclusiveOwnership
<1>1. IInv => ExclusiveOwnership
  BY PoolAssumption DEF IInv, ExclusiveOwnership, OwnerInv, PlaceInv, Acquired, Available
<1> QED BY <1>1, Invariance, PTL

\* The assertion of releaseConnection holds: the slot of a returning primary connection is free.
THEOREM PrimarySlotFree == Spec => []ReleasePrimaryFindsSlot
<1>1. IInv => ReleasePrimaryFindsSlot
  BY DEF IInv
<1> QED BY <1>1, Invariance, PTL

\* Every connection that can be handed out has the current configuration of the pool.
THEOREM ConfigurationCurrent == Spec => []ConfigurationPropagated
<1>1. IInv => ConfigurationPropagated
  BY DEF IInv
<1> QED BY <1>1, Invariance, PTL

\* The unpark of a waiter whose wait was decided is never lost.
THEOREM UnparkKept == Spec => []NoLostUnpark
<1>1. IInv => NoLostUnpark
  BY DEF IInv
<1> QED BY <1>1, Invariance, PTL

\* While the pool is open no undecided waiter drops out of the queue.
THEOREM WaiterKept == Spec => []NoLostWaiter
<1>1. IInv => NoLostWaiter
  BY DEF IInv
<1> QED BY <1>1, Invariance, PTL

\* A cancellation never ends the wait of another thread that got the reused waiter object.
THEOREM CancelExact == Spec => []CancelHitsItsWaiter
<1>1. IInv => CancelHitsItsWaiter
  BY DEF IInv
<1> QED BY <1>1, Invariance, PTL

-----------------------------------------------------------------------------
(* The interface of the pool.                                              *)

\* A step leaves what the threads hold, gives one connection to a thread that has none
\* (waitForConnection), or takes one away (releaseConnection, a thread that ends).
HeldChange ==
  \/ held' = held
  \/ \E t \in Thread, c \in Conn : held[t] = NoConn /\ held' = [held EXCEPT ![t] = c]
  \/ \E t \in Thread : held[t] \in Conn /\ held' = [held EXCEPT ![t] = NoConn]

\* Every step of the pool changes what the threads hold in one of these ways.
LEMMA HeldStep ==
  ASSUME IInv, [Next]_vars
  PROVE  HeldChange
<1> USE PoolAssumption DEF HeldChange
<1>1. CASE WakeConnectionWaiters
  BY <1>1 DEF WakeConnectionWaiters, WakeClosed, WakeAssign, WakeThrow, WakeSkip, WakeEnd, threadVars, localVars
<1>2. ASSUME NEW t \in Thread, acquireConnection(t)
      PROVE  HeldChange
  <2>1. ASSUME NEW r \in Requests, AcquireNow(t, r)
        PROVE  HeldChange
    BY <2>1 DEF AcquireNow, IInv, TypeOK, ThreadInv
  <2>2. ASSUME NEW r \in Requests, AcquireThrows(t, r) \/ Enqueue(t, r)
        PROVE  HeldChange
    BY <2>2 DEF AcquireThrows, Enqueue, threadVars, localVars
  <2> QED BY <1>2, <2>1, <2>2 DEF acquireConnection
<1>3. ASSUME NEW t \in Thread, CheckDone(t)
      PROVE  HeldChange
  <2>1. held[t] = NoConn /\ held \in [Thread -> Conn \cup {NoConn}]
    BY <1>3 DEF CheckDone, IInv, TypeOK, ThreadInv
  <2>2. waitOf[t] \in Waiter
    BY <1>3 DEF CheckDone, IInv, ThreadInv, Waiting, WaitingPcs
  <2>3. waiter[waitOf[t]].assigned \in Conn \cup {NoConn}
    BY <2>2 DEF IInv, TypeOK, WaiterRecord
  <2> QED BY <1>3, <2>1, <2>3 DEF CheckDone
<1>4. ASSUME NEW t \in Thread, WaitStep(t), ~CheckDone(t)
      PROVE  HeldChange
  BY <1>4 DEF WaitStep, SetListener, CheckLeaked, Recover, Park, ParkTimeout, ParkInterrupted,
              Check, CheckClosed, CheckAgain, RemoveListener, localVars
<1>5. ASSUME NEW t \in Thread, ReleaseConnection(t) \/ Leak(t)
      PROVE  HeldChange
  BY <1>5 DEF ReleaseConnection, Leak, IInv, TypeOK, ThreadInv
<1>6. ASSUME NEW t \in Thread, Cancel(t) \/ OnCancel(t)
      PROVE  HeldChange
  BY <1>6 DEF Cancel, OnCancel
<1>7. CASE ClosePool \/ (\E config \in Configs : reconfigure(config))
  BY <1>7 DEF ClosePool, reconfigure, ReconfigureReopen, ReconfigureReopenFails, ReconfigureInPlace,
              threadVars, localVars
<1>8. CASE \E c \in Conn : Collect(c) \/ FinalizeConnection(c)
  BY <1>8 DEF Collect, FinalizeConnection, threadVars, localVars
<1>9. CASE UNCHANGED vars
  BY <1>9 DEF vars, threadVars, localVars
<1> QED BY <1>1, <1>2, <1>3, <1>4, <1>5, <1>6, <1>7, <1>8, <1>9 DEF Next, ThreadStep

\* Holder names the one thread that has a connection.
LEMMA HolderIs ==
  ASSUME IInv
  PROVE  /\ \A t \in Thread, c \in Conn : held[t] = c => Holder[c] = t
         /\ \A c \in Conn : (\A t \in Thread : held[t] # c) => Holder[c] = NoThread
<1>1. ASSUME NEW t \in Thread, NEW c \in Conn, held[t] = c
      PROVE  Holder[c] = t
  <2>1. \A u \in Thread : held[u] = c => u = t
    BY <1>1 DEF IInv, OwnerInv, Owns
  <2> QED BY <1>1, <2>1 DEF Holder
<1> QED BY <1>1 DEF Holder

\* A step of the pool is an acquisition, a release or nothing to the sessions.
LEMMA InterfaceStep ==
  ASSUME IInv, IInv', [Next]_vars
  PROVE  [Interface!Next]_Holder
<1> USE PoolAssumption
<1>0. held \in [Thread -> Conn \cup {NoConn}]
  BY DEF IInv, TypeOK
<1>1. CASE held' = held
  BY <1>1 DEF Holder
<1>2. ASSUME NEW t \in Thread, NEW c \in Conn, held[t] = NoConn, held' = [held EXCEPT ![t] = c]
      PROVE  Interface!Acquire(t, c)
  <2>1. held'[t] = c /\ \A u \in Thread \ {t} : held'[u] = held[u]
    BY <1>0, <1>2
  <2>2. \A u \in Thread : held'[u] = c => u = t
    BY <2>1 DEF IInv, OwnerInv, Owns
  <2>3. \A u \in Thread : held[u] # c
    BY <1>2, <2>1, <2>2
  <2>4. Holder[c] = NoThread
    BY <2>3, HolderIs
  <2>5. ~Interface!Owns(t)
    <3>1. ASSUME NEW d \in Conn, Holder[d] = t
          PROVE  held[t] = d
      BY <3>1, HolderIs DEF Holder
    <3> QED BY <1>2, <3>1 DEF Interface!Owns
  <2>6. \A d \in Conn : Holder'[d] = IF d = c THEN t ELSE Holder[d]
    <3>1. Holder'[c] = t
      BY <2>1, <2>2 DEF Holder
    <3>2. ASSUME NEW d \in Conn \ {c}
          PROVE  Holder'[d] = Holder[d]
      <4>1. \A u \in Thread : (held'[u] = d) <=> (held[u] = d)
        BY <1>2, <2>1
      <4> QED BY <4>1 DEF Holder
    <3> QED BY <3>1, <3>2
  <2>7. Holder' = [Holder EXCEPT ![c] = t]
    BY <2>6 DEF Holder
  <2> QED BY <2>4, <2>5, <2>7 DEF Interface!Acquire
<1>3. ASSUME NEW t \in Thread, held[t] \in Conn, held' = [held EXCEPT ![t] = NoConn]
      PROVE  Interface!Release(t, held[t])
  <2>1. held'[t] = NoConn /\ \A u \in Thread \ {t} : held'[u] = held[u]
    BY <1>0, <1>3
  <2>2. \A u \in Thread : held[u] = held[t] => u = t
    BY <1>3 DEF IInv, OwnerInv, Owns
  <2>3. Holder[held[t]] = t
    BY <1>3, HolderIs
  <2>4. \A d \in Conn : Holder'[d] = IF d = held[t] THEN NoThread ELSE Holder[d]
    <3>1. Holder'[held[t]] = NoThread
      BY <1>3, <2>1, <2>2 DEF Holder
    <3>2. ASSUME NEW d \in Conn \ {held[t]}
          PROVE  Holder'[d] = Holder[d]
      <4>1. \A u \in Thread : (held'[u] = d) <=> (held[u] = d)
        BY <2>1
      <4> QED BY <4>1 DEF Holder
    <3> QED BY <3>1, <3>2
  <2>5. Holder' = [Holder EXCEPT ![held[t]] = NoThread]
    BY <2>4 DEF Holder
  <2> QED BY <2>3, <2>5 DEF Interface!Release
<1> QED BY <1>1, <1>2, <1>3, HeldStep DEF HeldChange, Interface!Next

\* The pool implements the interface that the sessions rely on.
THEOREM InterfaceRefinement == Spec => PoolInterfaceImplemented
<1>1. Init => Interface!Init
  BY PoolAssumption DEF Init, Interface!Init, Holder
<1> QED BY <1>1, InterfaceStep, Invariance, PTL DEF Spec, PoolInterfaceImplemented, Interface!Spec

-----------------------------------------------------------------------------
(* The order of the queue.                                                 *)

\* The waiter keeps what it asks for.
KeepsRequest(w) == /\ waiter'[w].priority = waiter[w].priority
                   /\ waiter'[w].wantPrimary <=> waiter[w].wantPrimary

\* A step leaves the queue as it is, takes one waiter out (wakeConnectionWaitersLocked,
\* cancelConnectionWaiterLocked) or puts one in where waitForConnection puts it.
QueueChange ==
  \/ UNCHANGED mConnectionWaiterQueue
  \/ \E i \in DOMAIN mConnectionWaiterQueue : Unlink(i)
  \/ \E w \in Waiter \ Queued :
       /\ mConnectionWaiterQueue' =
            InsertAt(mConnectionWaiterQueue, QueuePosition(waiter'[w].priority), w)
       /\ waiter'[w].priority \in {0, 1}

\* Waiters with a higher priority, and earlier ones with the same, are served first.
QueueSorted ==
  \A i, j \in DOMAIN mConnectionWaiterQueue :
    i < j => waiter[mConnectionWaiterQueue[i]].priority >= waiter[mConnectionWaiterQueue[j]].priority

\* The waiters in front of the insertion point have the same or a higher priority, and the one
\* at the insertion point has a lower one.
LEMMA QueuePositionCut ==
  ASSUME NEW p, TypeOK
  PROVE  /\ \A j \in 1 .. QueuePosition(p) - 1 : waiter[mConnectionWaiterQueue[j]].priority >= p
         /\ QueuePosition(p) <= Len(mConnectionWaiterQueue) =>
              ~(waiter[mConnectionWaiterQueue[QueuePosition(p)]].priority >= p)
<1> DEFINE q == mConnectionWaiterQueue
           F == {i \in DOMAIN q : \A j \in 1 .. i : waiter[q[j]].priority >= p}
           m == Cardinality(F)
<1>1. q \in Seq(Waiter) /\ Len(q) \in Nat /\ DOMAIN q = 1 .. Len(q)
  BY DEF TypeOK
<1>2. IsFiniteSet(1 .. Len(q)) /\ Cardinality(1 .. Len(q)) = Len(q)
  BY <1>1, FS_Interval
<1>3. F \subseteq 1 .. Len(q)
  BY <1>1
<1>4. IsFiniteSet(F) /\ m <= Len(q) /\ m \in Nat
  BY <1>2, <1>3, FS_Subset, FS_CardinalityType
<1>5. QueuePosition(p) = 1 + m
  BY DEF QueuePosition
<1>6. ASSUME NEW i \in F PROVE i <= m
  <2>1. i \in Nat /\ 1 <= i /\ 1 .. i \subseteq F
    BY <1>1
  <2>2. Cardinality(1 .. i) = i
    BY <2>1, FS_Interval
  <2>3. Cardinality(1 .. i) <= m
    BY <1>4, <2>1, FS_Subset
  <2> QED BY <2>2, <2>3
<1>7. F \subseteq 1 .. m
  BY <1>1, <1>6
<1>8. IsFiniteSet(1 .. m) /\ Cardinality(1 .. m) = m
  BY <1>4, FS_Interval
<1>9. F = 1 .. m
  BY <1>7, <1>8, FS_Subset
<1> HIDE DEF m
<1>10. \A j \in 1 .. m : waiter[q[j]].priority >= p
  <2>1. ASSUME NEW j \in 1 .. m PROVE waiter[q[j]].priority >= p
    <3>1. j \in F /\ j \in 1 .. j
      BY <1>4, <1>9
    <3> QED BY <3>1
  <2> QED BY <2>1
<1>11. ASSUME m + 1 <= Len(q), waiter[q[m + 1]].priority >= p
       PROVE  FALSE
  <2>1. m + 1 \in DOMAIN q
    BY <1>1, <1>4, <1>11
  <2>2. \A j \in 1 .. m + 1 : waiter[q[j]].priority >= p
    <3>1. ASSUME NEW j \in 1 .. m + 1 PROVE waiter[q[j]].priority >= p
      <4>1. j = m + 1 \/ j \in 1 .. m
        BY <1>4
      <4> QED BY <1>10, <1>11, <4>1
    <3> QED BY <3>1
  <2>3. m + 1 \in F
    BY <2>1, <2>2
  <2> QED BY <1>4, <1>9, <2>3
<1>12. QueuePosition(p) = m + 1
  BY <1>4, <1>5
<1>13. QueuePosition(p) - 1 = m
  BY <1>4, <1>12
<1> DEFINE k == QueuePosition(p)
<1>14. /\ k = m + 1 /\ k - 1 = m
  BY <1>12, <1>13
<1> HIDE DEF k
<1>15. /\ \A j \in 1 .. k - 1 : waiter[q[j]].priority >= p
       /\ k <= Len(q) => ~(waiter[q[k]].priority >= p)
  BY <1>10, <1>11, <1>14
<1> QED BY <1>15 DEF k

\* A waiter object keeps its request when a connection or an exception is put into it.
LEMMA FieldKeepsRequest ==
  ASSUME TypeOK, NEW v \in Waiter,
         \/ \E c : waiter' = [waiter EXCEPT ![v].assigned = c]
         \/ \E x : waiter' = [waiter EXCEPT ![v].exception = x]
  PROVE  \A w \in Waiter : KeepsRequest(w)
<1>1. waiter \in [Waiter -> WaiterRecord] /\ waiter[v] \in WaiterRecord
  BY DEF TypeOK
<1>2. /\ waiter'[v].priority = waiter[v].priority
      /\ waiter'[v].wantPrimary = waiter[v].wantPrimary
  <2>1. ASSUME NEW c, waiter' = [waiter EXCEPT ![v].assigned = c]
        PROVE  /\ waiter'[v].priority = waiter[v].priority
               /\ waiter'[v].wantPrimary = waiter[v].wantPrimary
    BY <1>1, <2>1 DEF WaiterRecord
  <2>2. ASSUME NEW x, waiter' = [waiter EXCEPT ![v].exception = x]
        PROVE  /\ waiter'[v].priority = waiter[v].priority
               /\ waiter'[v].wantPrimary = waiter[v].wantPrimary
    BY <1>1, <2>2 DEF WaiterRecord
  <2> QED BY <2>1, <2>2
<1>3. \A w \in Waiter \ {v} : waiter'[w] = waiter[w]
  BY <1>1
<1> QED BY <1>2, <1>3 DEF KeepsRequest

\* cancelConnectionWaiterLocked only takes a waiter out, and marks no other one.
LEMMA CancelKeepsRequests ==
  ASSUME TypeOK, WaiterInv, NEW t, OnCancelOf(t)
  PROVE  QueueChange /\ \A w \in Queued : KeepsRequest(w)
<1>1. CASE UNCHANGED waiterVars
  BY <1>1 DEF waiterVars, QueueChange, KeepsRequest
<1>2. CASE ~UNCHANGED waiterVars
  <2> DEFINE v == waitOf[t]
  <2>1. cancelConnectionWaiterLocked(v)
    BY <1>2 DEF OnCancelOf
  <2>2. ~UNCHANGED <<waiterVars, permit, scan>>
    BY <1>2
  <2> HIDE DEF v
  <2>3. v \in Waiter /\ waiter' = [waiter EXCEPT ![v].exception = "canceled"]
    BY <2>1, <2>2, Canceled
  <2>4. \E i \in DOMAIN mConnectionWaiterQueue : Unlink(i)
    BY <2>1, <2>2 DEF cancelConnectionWaiterLocked
  <2>5. \A w \in Waiter : KeepsRequest(w)
    BY <2>3, FieldKeepsRequest
  <2> QED BY <2>4, <2>5, QueuedType DEF QueueChange
<1> QED BY <1>1, <1>2

\* The new waiter of waitForConnection asks for what the caller asked for.
LEMMA EnqueuedRequest ==
  ASSUME TypeOK, ThreadInv, WaiterInv, NEW t \in Thread, NEW r \in Requests, Enqueue(t, r)
  PROVE  \E w \in Waiter \ Queued :
           /\ mConnectionWaiterQueue' =
                InsertAt(mConnectionWaiterQueue, QueuePosition(r.priority), w)
           /\ waiter' = [waiter EXCEPT ![w] = waiter'[w]]
           /\ waiter'[w].priority = r.priority /\ r.priority \in {0, 1}
           /\ waiter'[w].wantPrimary <=> r.wantPrimary
<1>1. PICK w \in Waiter :
             /\ obtainConnectionWaiterLocked(w, t, r)
             /\ mConnectionWaiterQueue' =
                  InsertAt(mConnectionWaiterQueue, QueuePosition(r.priority), w)
  BY DEF Enqueue
<1>2. /\ waiter \in [Waiter -> WaiterRecord] /\ waiter[w] \in WaiterRecord
      /\ r.priority \in {0, 1} /\ r.wantPrimary \in BOOLEAN
  BY PoolAssumption DEF TypeOK
<1>3. w \notin Queued /\ waiter' = [waiter EXCEPT ![w] = waiter'[w]]
  BY <1>1, ObtainWaiterType DEF obtainConnectionWaiterLocked, UnusedWaiter, WaiterInv
<1>4. waiter'[w].priority = r.priority /\ waiter'[w].wantPrimary = r.wantPrimary
  <2>1. CASE waiter' = [waiter EXCEPT ![w].thread = t, ![w].priority = r.priority,
                                      ![w].wantPrimary = r.wantPrimary]
    BY <1>2, <2>1 DEF WaiterRecord
  <2>2. CASE waiter' = [waiter EXCEPT ![w] =
                          [BlankWaiter EXCEPT !.thread = t, !.priority = r.priority,
                                              !.wantPrimary = r.wantPrimary]]
    BY <1>2, <2>2 DEF BlankWaiter
  <2> QED BY <1>1, <2>1, <2>2 DEF obtainConnectionWaiterLocked
<1> QED BY <1>1, <1>2, <1>3, <1>4

\* Every step changes the queue in one of the three ways; one case per action.
LEMMA QueueStep ==
  ASSUME IInv, Next
  PROVE  QueueChange /\ \A w \in Queued : KeepsRequest(w)
<1> DEFINE Kept == QueueChange /\ \A w \in Queued : KeepsRequest(w)
<1>0. TypeOK /\ ThreadInv /\ WaiterInv
  BY DEF IInv
<1>1. CASE UNCHANGED waiterVars
  BY <1>1 DEF waiterVars, QueueChange, KeepsRequest
<1>2. ASSUME scan.pos <= Len(mConnectionWaiterQueue), Dismiss,
             \/ UNCHANGED waiter
             \/ \E c : waiter' = [waiter EXCEPT ![Current].assigned = c]
             \/ \E x : waiter' = [waiter EXCEPT ![Current].exception = x]
      PROVE  Kept
  <2>1. Current \in Waiter
    BY <1>0, <1>2, DismissType
  <2>2. scan.pos \in DOMAIN mConnectionWaiterQueue /\ Unlink(scan.pos)
    BY <1>0, <1>2 DEF TypeOK, ScanRecord, Dismiss
  <2>3. CASE UNCHANGED waiter
    BY <2>2, <2>3 DEF QueueChange, KeepsRequest
  <2>4. CASE ~UNCHANGED waiter
    <3>1. \/ \E c : waiter' = [waiter EXCEPT ![Current].assigned = c]
          \/ \E x : waiter' = [waiter EXCEPT ![Current].exception = x]
      BY <1>2, <2>4
    <3>2. \A w \in Waiter : KeepsRequest(w)
      BY <1>0, <2>1, <3>1, FieldKeepsRequest
    <3> QED BY <1>0, <2>2, <3>2, QueuedType DEF QueueChange
  <2> QED BY <2>3, <2>4
<1>3. ASSUME WakeConnectionWaiters PROVE Kept
  <2>1. CASE WakeClosed
    BY <1>2, <2>1 DEF WakeClosed
  <2>2. ASSUME NEW c \in Conn, WakeAssign(c) PROVE Kept
    BY <1>2, <2>2 DEF WakeAssign
  <2>3. CASE WakeThrow
    BY <1>2, <2>3 DEF WakeThrow
  <2>4. CASE WakeSkip \/ WakeEnd
    BY <1>1, <2>4 DEF WakeSkip, WakeEnd
  <2> QED BY <1>3, <2>1, <2>2, <2>3, <2>4 DEF WakeConnectionWaiters
<1>4. ASSUME NEW t \in Thread, NEW r \in Requests, Enqueue(t, r) PROVE Kept
  <2>1. PICK w \in Waiter \ Queued :
           /\ mConnectionWaiterQueue' =
                InsertAt(mConnectionWaiterQueue, QueuePosition(r.priority), w)
           /\ waiter' = [waiter EXCEPT ![w] = waiter'[w]]
           /\ waiter'[w].priority = r.priority /\ r.priority \in {0, 1}
    BY <1>0, <1>4, EnqueuedRequest
  <2>2. QueueChange
    BY <2>1 DEF QueueChange
  <2>3. \A v \in Queued : v \in Waiter /\ v # w
    BY <1>0, QueuedType
  <2>4. \A v \in Queued : waiter'[v] = waiter[v]
    BY <1>0, <2>1, <2>3 DEF TypeOK
  <2> QED BY <2>2, <2>4 DEF KeepsRequest
<1>5. ASSUME NEW t \in Thread, NEW r \in Requests, AcquireNow(t, r) \/ AcquireThrows(t, r) PROVE Kept
  BY <1>1, <1>5 DEF AcquireNow, AcquireThrows
<1>6. ASSUME NEW t \in Thread, SetListener(t) PROVE Kept
  BY <1>0, <1>1, <1>6, CancelKeepsRequests DEF SetListener
<1>7. ASSUME NEW t \in Thread, OnCancel(t) PROVE Kept
  BY <1>0, <1>7, CancelKeepsRequests DEF OnCancel
<1>8. ASSUME NEW t \in Thread, CheckDone(t) PROVE Kept
  <2>1. UNCHANGED mConnectionWaiterQueue /\ waitOf[t] \notin Queued
    BY <1>0, <1>8 DEF CheckDone, WaiterInv
  <2>2. waiter' = [waiter EXCEPT ![waitOf[t]] = BlankWaiter]
    BY <1>8 DEF CheckDone, recycleConnectionWaiterLocked, Recycled
  <2>3. \A v \in Queued : v \in Waiter /\ v # waitOf[t]
    BY <1>0, <2>1, QueuedType
  <2>4. \A v \in Queued : waiter'[v] = waiter[v]
    BY <1>0, <2>2, <2>3 DEF TypeOK
  <2> QED BY <2>1, <2>4 DEF QueueChange, KeepsRequest
<1>9. ASSUME NEW t \in Thread, CheckClosed(t) \/ CheckAgain(t) \/ RemoveListener(t) PROVE Kept
  BY <1>1, <1>9 DEF CheckClosed, CheckAgain, RemoveListener
<1>10. ASSUME NEW t \in Thread, \/ CheckLeaked(t) \/ Recover(t) \/ Park(t) \/ ParkTimeout(t)
                                \/ ParkInterrupted(t)
       PROVE  Kept
  BY <1>1, <1>10 DEF CheckLeaked, Recover, Park, ParkTimeout, ParkInterrupted
<1>11. ASSUME NEW t \in Thread, ReleaseConnection(t) \/ Leak(t) \/ Cancel(t) PROVE Kept
  BY <1>1, <1>11 DEF ReleaseConnection, Leak, Cancel
<1>12. ASSUME ClosePool \/ (\E config \in Configs : reconfigure(config)) PROVE Kept
  BY <1>1, <1>12 DEF ClosePool, reconfigure, ReconfigureReopen, ReconfigureReopenFails, ReconfigureInPlace
<1>13. ASSUME \E c \in Conn : Collect(c) \/ FinalizeConnection(c) PROVE Kept
  BY <1>1, <1>13 DEF Collect, FinalizeConnection
<1> HIDE DEF Kept
<1>14. ASSUME NEW t \in Thread, ThreadStep(t) PROVE Kept
  <2>1. CASE acquireConnection(t)
    BY <1>4, <1>5, <2>1 DEF acquireConnection
  <2>2. CASE WaitStep(t)
    BY <1>6, <1>8, <1>9, <1>10, <2>2 DEF WaitStep, Check
  <2> QED BY <1>7, <1>11, <1>14, <2>1, <2>2 DEF ThreadStep
<1>15. Kept
  BY <1>3, <1>12, <1>13, <1>14 DEF Next
<1> QED BY <1>15 DEF Kept

\* Putting a waiter in at its insertion point keeps the order, and puts it behind every waiter
\* of its own priority; taking one out keeps the order.
LEMMA OrderKept ==
  ASSUME TypeOK, TypeOK', QueueSorted, QueueChange, \A w \in Queued : KeepsRequest(w)
  PROVE  /\ QueueSorted'
         /\ \A i, j \in DOMAIN mConnectionWaiterQueue' :
              i < j /\ mConnectionWaiterQueue'[i] \notin Range(mConnectionWaiterQueue)
                => waiter'[mConnectionWaiterQueue'[i]].priority > waiter'[mConnectionWaiterQueue'[j]].priority
<1> DEFINE q == mConnectionWaiterQueue
           n == Len(q)
           prio(i) == waiter[q[i]].priority
           newPrio(i) == waiter'[q'[i]].priority
           Ordered == \A i, j \in DOMAIN q' : i < j => newPrio(i) >= newPrio(j)
           Behind == \A i, j \in DOMAIN q' : i < j /\ q'[i] \notin Range(q) => newPrio(i) > newPrio(j)
<1>1. q \in Seq(Waiter) /\ n \in Nat /\ DOMAIN q = 1 .. n
  BY DEF TypeOK
<1>2. \A i \in 1 .. n : /\ waiter'[q[i]].priority = prio(i) /\ q[i] \in Range(q)
                        /\ prio(i) \in {0, 1} /\ q[i] \in Waiter
  <2>1. \A i \in 1 .. n : q[i] \in Range(q) /\ q[i] \in Waiter
    BY <1>1 DEF Range
  <2>2. \A i \in 1 .. n : waiter[q[i]] \in WaiterRecord
    BY <2>1 DEF TypeOK
  <2>3. \A i \in 1 .. n : waiter'[q[i]].priority = prio(i)
    BY <2>1 DEF Queued, KeepsRequest
  <2> QED BY <2>1, <2>2, <2>3 DEF WaiterRecord
<1>3. \A i, j \in 1 .. n : i < j => prio(i) >= prio(j)
  BY <1>1 DEF QueueSorted
<1>4. ASSUME q' = q
      PROVE  Ordered /\ Behind
  <2>1. \A i \in 1 .. n : newPrio(i) = prio(i) /\ q'[i] \in Range(q)
    BY <1>2, <1>4
  <2> QED BY <1>1, <1>3, <1>4, <2>1
<1>5. ASSUME NEW k \in DOMAIN q, Unlink(k)
      PROVE  Ordered /\ Behind
  <2>1. k \in 1 .. n /\ q' = RemoveAt(q, k)
    BY <1>1, <1>5 DEF Unlink
  <2>2. /\ DOMAIN q' = 1 .. n - 1
        /\ \A i \in 1 .. n - 1 : q'[i] = IF i < k THEN q[i] ELSE q[i + 1]
    <3> HIDE DEF q
    <3>1. k \in 1 .. Len(q)
      BY <2>1
    <3>2. RemoveAt(q, k) \in Seq(Waiter) /\ Len(RemoveAt(q, k)) = n - 1
      BY <1>1, <3>1, RemoveAtType
    <3>3. \A i \in 1 .. n - 1 : RemoveAt(q, k)[i] = IF i < k THEN q[i] ELSE q[i + 1]
      BY <1>1, <3>1, RemoveAtType
    <3> QED BY <2>1, <3>2, <3>3
  <2>3. \A i \in 1 .. n - 1 : newPrio(i) = (IF i < k THEN prio(i) ELSE prio(i + 1)) /\ q'[i] \in Range(q)
    BY <1>1, <1>2, <2>2
  <2> HIDE DEF q, n, prio, newPrio
  <2> QED BY <1>1, <1>3, <2>1, <2>2, <2>3
<1>6. ASSUME NEW w \in Waiter \ Queued,
             q' = InsertAt(q, QueuePosition(waiter'[w].priority), w), waiter'[w].priority \in {0, 1}
      PROVE  Ordered /\ Behind
  <2> DEFINE p == waiter'[w].priority
             k == QueuePosition(p)
  <2>1. k \in 1 .. n + 1
    BY QueuePositionRange
  <2>2. /\ \A i \in 1 .. k - 1 : prio(i) >= p
        /\ k <= n => ~(prio(k) >= p)
    BY QueuePositionCut
  <2>3. q' = InsertAt(q, k, w)
    BY <1>6
  <2>4. p \in {0, 1} /\ waiter'[w].priority = p
    BY <1>6
  <2> HIDE DEF p, k
  <2>5. /\ DOMAIN q' = 1 .. n + 1
        /\ \A i \in 1 .. k - 1 : q'[i] = q[i]
        /\ q'[k] = w
        /\ \A i \in k + 1 .. n + 1 : q'[i] = q[i - 1]
    <3> HIDE DEF q
    <3>1. k \in 1 .. Len(q) + 1 /\ w \in Waiter
      BY <2>1
    <3>2. InsertAt(q, k, w) \in Seq(Waiter) /\ Len(InsertAt(q, k, w)) = n + 1
      BY <1>1, <3>1, InsertAtType
    <3>3. /\ \A i \in 1 .. k - 1 : InsertAt(q, k, w)[i] = q[i]
          /\ InsertAt(q, k, w)[k] = w
          /\ \A i \in k + 1 .. n + 1 : InsertAt(q, k, w)[i] = q[i - 1]
      <4>1. \A i \in 1 .. k - 1 : InsertAt(q, k, w)[i] = q[i]
        BY <1>1, <3>1, InsertAtType
      <4>2. InsertAt(q, k, w)[k] = w
        BY <1>1, <3>1, InsertAtType
      <4>3. \A i \in k + 1 .. n + 1 : InsertAt(q, k, w)[i] = q[i - 1]
        BY <1>1, <3>1, InsertAtType
      <4> QED BY <4>1, <4>2, <4>3
    <3> QED BY <2>3, <3>2, <3>3
  <2>6. \A i \in k .. n : prio(i) < p
    BY <1>1, <1>2, <1>3, <2>1, <2>2, <2>4
  <2>7. /\ \A i \in 1 .. k - 1 : i \in 1 .. n
        /\ \A i \in k + 1 .. n + 1 : i - 1 \in k .. n /\ i - 1 \in 1 .. n
    BY <1>1, <2>1
  <2>8. /\ \A i \in 1 .. k - 1 : newPrio(i) = prio(i) /\ q'[i] \in Range(q)
        /\ newPrio(k) = p
        /\ \A i \in k + 1 .. n + 1 : newPrio(i) = prio(i - 1) /\ q'[i] \in Range(q)
    BY <1>2, <2>4, <2>5, <2>7
  <2> HIDE DEF q, n, prio, newPrio
  <2>9. \A i \in 1 .. n + 1 : i \in 1 .. k - 1 \/ i = k \/ i \in k + 1 .. n + 1
    BY <1>1, <2>1
  <2>10. ASSUME NEW i \in 1 .. n + 1, NEW j \in 1 .. n + 1, i < j
         PROVE  /\ newPrio(i) >= newPrio(j)
                /\ q'[i] \notin Range(q) => newPrio(i) > newPrio(j)
    <3>1. CASE i \in 1 .. k - 1 /\ j \in 1 .. k - 1
      BY <1>3, <2>7, <2>8, <2>10, <3>1
    <3>2. CASE i \in 1 .. k - 1 /\ j = k
      BY <2>2, <2>8, <3>2
    <3>3. CASE i \in 1 .. k - 1 /\ j \in k + 1 .. n + 1
      <4>1. i < j - 1 /\ j - 1 \in 1 .. n /\ i \in 1 .. n
        BY <1>1, <2>1, <2>7, <3>3
      <4>2. prio(i) >= prio(j - 1)
        BY <1>3, <4>1
      <4> QED BY <2>8, <3>3, <4>2
    <3>4. CASE i = k /\ j \in k + 1 .. n + 1
      <4>1. prio(j - 1) < p
        BY <2>6, <2>7, <3>4
      <4>2. prio(j - 1) \in {0, 1}
        BY <1>2, <2>7, <3>4
      <4> QED BY <2>4, <2>8, <3>4, <4>1, <4>2
    <3>5. CASE i \in k + 1 .. n + 1 /\ j \in k + 1 .. n + 1
      <4>1. i - 1 < j - 1 /\ j - 1 \in 1 .. n /\ i - 1 \in 1 .. n
        BY <1>1, <2>1, <2>7, <2>10, <3>5
      <4>2. prio(i - 1) >= prio(j - 1)
        BY <1>3, <4>1
      <4> QED BY <2>8, <3>5, <4>2
    <3> QED BY <1>1, <2>1, <2>9, <2>10, <3>1, <3>2, <3>3, <3>4, <3>5
  <2> QED BY <2>5, <2>10
<1> HIDE DEF Ordered, Behind
<1>7. Ordered /\ Behind
  BY <1>4, <1>5, <1>6 DEF QueueChange
<1> QED BY <1>7 DEF QueueSorted, Ordered, Behind

\* Taking a waiter out or putting one in leaves the others in their order.
LEMMA PlacesKept ==
  ASSUME TypeOK, Distinct(mConnectionWaiterQueue), QueueChange
  PROVE  \A i, j \in DOMAIN mConnectionWaiterQueue, k, l \in DOMAIN mConnectionWaiterQueue' :
           /\ i < j
           /\ mConnectionWaiterQueue'[k] = mConnectionWaiterQueue[i]
           /\ mConnectionWaiterQueue'[l] = mConnectionWaiterQueue[j]
           => k < l
<1> DEFINE q == mConnectionWaiterQueue
           n == Len(q)
           Kept == \A i, j \in DOMAIN q, k, l \in DOMAIN q' :
                     i < j /\ q'[k] = q[i] /\ q'[l] = q[j] => k < l
<1>1. q \in Seq(Waiter) /\ n \in Nat /\ DOMAIN q = 1 .. n
  BY DEF TypeOK
<1>2. \A i, j \in 1 .. n : q[i] = q[j] => i = j
  BY <1>1 DEF Distinct
<1>3. ASSUME q' = q
      PROVE  Kept
  BY <1>1, <1>2, <1>3
<1>4. ASSUME NEW m \in DOMAIN q, Unlink(m)
      PROVE  Kept
  <2> DEFINE was(a) == IF a < m THEN a ELSE a + 1
  <2>1. m \in 1 .. n /\ q' = RemoveAt(q, m)
    BY <1>1, <1>4 DEF Unlink
  <2>2. /\ DOMAIN q' = 1 .. n - 1
        /\ \A a \in 1 .. n - 1 : q'[a] = IF a < m THEN q[a] ELSE q[a + 1]
    <3> HIDE DEF q
    <3>1. m \in 1 .. Len(q)
      BY <2>1
    <3>2. RemoveAt(q, m) \in Seq(Waiter) /\ Len(RemoveAt(q, m)) = n - 1
      BY <1>1, <3>1, RemoveAtType
    <3>3. \A a \in 1 .. n - 1 : RemoveAt(q, m)[a] = IF a < m THEN q[a] ELSE q[a + 1]
      BY <1>1, <3>1, RemoveAtType
    <3> QED BY <2>1, <3>2, <3>3
  <2>3. \A a \in 1 .. n - 1 : was(a) \in 1 .. n /\ q'[a] = q[was(a)]
    BY <1>1, <2>1, <2>2
  <2>4. \A a, b \in 1 .. n - 1 : was(a) < was(b) => a < b
    BY <1>1, <2>1
  <2> HIDE DEF q, n, was
  <2>5. ASSUME NEW i \in 1 .. n, NEW j \in 1 .. n, NEW k \in 1 .. n - 1, NEW l \in 1 .. n - 1,
               i < j, q'[k] = q[i], q'[l] = q[j]
        PROVE  k < l
    <3>1. was(k) = i /\ was(l) = j
      BY <1>2, <2>3, <2>5
    <3> QED BY <2>4, <2>5, <3>1
  <2> QED BY <1>1, <2>2, <2>5
<1>5. ASSUME NEW w \in Waiter \ Queued,
             q' = InsertAt(q, QueuePosition(waiter'[w].priority), w)
      PROVE  Kept
  <2> DEFINE m == QueuePosition(waiter'[w].priority)
             was(a) == IF a < m THEN a ELSE a - 1
  <2>1. m \in 1 .. n + 1 /\ q' = InsertAt(q, m, w)
    BY <1>5, QueuePositionRange
  <2> HIDE DEF m
  <2>2. /\ DOMAIN q' = 1 .. n + 1
        /\ \A a \in 1 .. m - 1 : q'[a] = q[a]
        /\ q'[m] = w
        /\ \A a \in m + 1 .. n + 1 : q'[a] = q[a - 1]
    <3> HIDE DEF q
    <3>1. m \in 1 .. Len(q) + 1 /\ w \in Waiter
      BY <2>1
    <3>2. InsertAt(q, m, w) \in Seq(Waiter) /\ Len(InsertAt(q, m, w)) = n + 1
      BY <1>1, <3>1, InsertAtType
    <3>3. \A a \in 1 .. m - 1 : InsertAt(q, m, w)[a] = q[a]
      BY <1>1, <3>1, InsertAtType
    <3>4. InsertAt(q, m, w)[m] = w
      BY <1>1, <3>1, InsertAtType
    <3>5. ASSUME NEW a \in m + 1 .. Len(q) + 1
          PROVE  InsertAt(q, m, w)[a] = q[a - 1]
      BY <1>1, <3>1, InsertAtType
    <3> QED BY <2>1, <3>2, <3>3, <3>4, <3>5
  <2>3. \A i \in 1 .. n : q[i] # w
    <3>1. \A i \in 1 .. n : q[i] \in Range(q)
      <4> HIDE DEF q
      <4> QED BY <1>1 DEF Range
    <3>2. w \notin Range(q)
      BY DEF Queued
    <3> QED BY <3>1, <3>2
  <2>4. \A a \in 1 .. n + 1 : a # m => was(a) \in 1 .. n /\ q'[a] = q[was(a)]
    <3> SUFFICES ASSUME NEW a \in 1 .. n + 1, a # m
                 PROVE  was(a) \in 1 .. n /\ q'[a] = q[was(a)]
      OBVIOUS
    <3>1. CASE a < m
      BY <1>1, <2>1, <2>2, <3>1
    <3>2. CASE a > m
      BY <1>1, <2>1, <2>2, <3>2
    <3> QED BY <1>1, <2>1, <3>1, <3>2
  <2>5. \A a, b \in 1 .. n + 1 : a # m /\ b # m /\ was(a) < was(b) => a < b
    BY <1>1, <2>1
  <2> HIDE DEF q, n, was
  <2>6. ASSUME NEW i \in 1 .. n, NEW j \in 1 .. n, NEW k \in 1 .. n + 1, NEW l \in 1 .. n + 1,
               i < j, q'[k] = q[i], q'[l] = q[j]
        PROVE  k < l
    <3>1. k # m /\ l # m
      BY <2>2, <2>3, <2>6
    <3>2. was(k) = i /\ was(l) = j
      BY <1>2, <2>4, <2>6, <3>1
    <3> QED BY <2>5, <2>6, <3>1, <3>2
  <2> QED BY <1>1, <2>2, <2>6
<1> HIDE DEF Kept
<1>6. Kept
  BY <1>3, <1>4, <1>5 DEF QueueChange
<1> QED BY <1>6 DEF Kept

\* Every step keeps the queue sorted and its waiters in their places.
LEMMA SortedStep ==
  ASSUME IInv, QueueSorted, [Next]_vars
  PROVE  /\ QueueSorted'
         /\ \A i, j \in DOMAIN mConnectionWaiterQueue' :
              i < j /\ mConnectionWaiterQueue'[i] \notin Range(mConnectionWaiterQueue)
                => waiter'[mConnectionWaiterQueue'[i]].priority > waiter'[mConnectionWaiterQueue'[j]].priority
         /\ \A i, j \in DOMAIN mConnectionWaiterQueue, k, l \in DOMAIN mConnectionWaiterQueue' :
              /\ i < j
              /\ mConnectionWaiterQueue'[k] = mConnectionWaiterQueue[i]
              /\ mConnectionWaiterQueue'[l] = mConnectionWaiterQueue[j]
              => k < l
<1>1. TypeOK /\ TypeOK' /\ Distinct(mConnectionWaiterQueue)
  BY NextInv DEF IInv, WaiterInv
<1>2. QueueChange /\ \A w \in Queued : KeepsRequest(w)
  <2>1. CASE Next
    BY <2>1, QueueStep
  <2>2. CASE UNCHANGED vars
    BY <2>2 DEF vars, waiterVars, QueueChange, KeepsRequest
  <2> QED BY <2>1, <2>2
<1>3. QueueSorted'
  BY <1>1, <1>2, OrderKept
<1>4. \A i, j \in DOMAIN mConnectionWaiterQueue' :
        i < j /\ mConnectionWaiterQueue'[i] \notin Range(mConnectionWaiterQueue)
          => waiter'[mConnectionWaiterQueue'[i]].priority > waiter'[mConnectionWaiterQueue'[j]].priority
  BY <1>1, <1>2, OrderKept
<1>5. \A i, j \in DOMAIN mConnectionWaiterQueue, k, l \in DOMAIN mConnectionWaiterQueue' :
        /\ i < j
        /\ mConnectionWaiterQueue'[k] = mConnectionWaiterQueue[i]
        /\ mConnectionWaiterQueue'[l] = mConnectionWaiterQueue[j]
        => k < l
  BY <1>1, <1>2, PlacesKept
<1> QED BY <1>3, <1>4, <1>5

\* The empty queue is sorted.
LEMMA SortedInit == Init => QueueSorted
BY DEF Init, QueueSorted

\* Waiters are served by priority and, within a priority, in the order of their arrival: a new
\* one goes behind its priority, and those that stay never change places
\* (waitForConnection inserts, wakeConnectionWaitersLocked and the cancellation unlink).
THEOREM QueueInOrder == Spec => QueueOrder
<1> DEFINE Ordered ==
      LET q == mConnectionWaiterQueue
      IN /\ \A i, j \in DOMAIN q' : i < j => waiter'[q'[i]].priority >= waiter'[q'[j]].priority
         /\ \A i, j \in DOMAIN q' : i < j /\ q'[i] \notin Range(q)
              => waiter'[q'[i]].priority > waiter'[q'[j]].priority
         /\ \A i, j \in DOMAIN q, k, l \in DOMAIN q' :
              i < j /\ q'[k] = q[i] /\ q'[l] = q[j] => k < l
<1>1. IInv /\ QueueSorted /\ [Next]_vars => QueueSorted' /\ [Ordered]_mConnectionWaiterQueue
  <2> SUFFICES ASSUME IInv, QueueSorted, [Next]_vars
               PROVE  QueueSorted' /\ Ordered
    OBVIOUS
  <2>1. QueueSorted'
    BY SortedStep
  <2>2. Ordered
    BY <2>1, SortedStep DEF QueueSorted
  <2> QED BY <2>1, <2>2
<1> HIDE DEF Ordered
<1>2. Spec => [][Ordered]_mConnectionWaiterQueue
  BY <1>1, SortedInit, Invariance, PTL DEF Spec
<1> QED BY <1>2 DEF QueueOrder, Ordered

-----------------------------------------------------------------------------
(* Counting connections.                                                   *)

\* The pool is finite: a connection is opened only when a thread asks for one.
FiniteInv == IsFiniteSet(Acquired) /\ IsFiniteSet(mAvailableNonPrimaryConnections)

\* mMaxConnectionPoolSize is a positive number.
LEMMA PoolSizeType == MaxConnectionPoolSize \in Nat /\ MaxConnectionPoolSize >= 1
BY PoolAssumption DEF MaxConnectionPoolSize

\* The acquired connections can be counted, and the available primary one counts as well.
LEMMA OpenConnectionsType ==
  ASSUME TypeOK, FiniteInv
  PROVE  /\ OpenConnections \in Nat
         /\ Cardinality(Acquired) \in Nat
         /\ mAvailablePrimaryConnection = NoConn => OpenConnections = Cardinality(Acquired)
         /\ mAvailablePrimaryConnection # NoConn => OpenConnections = Cardinality(Acquired) + 1
BY FS_CardinalityType DEF FiniteInv, OpenConnections

\* What is obtained: one of the available connections, or a new one if the pool may grow.
LEMMA ObtainCases ==
  ASSUME NEW a, NEW b, NEW c, Obtain(a, b, c)
  PROVE  \/ /\ c \in mAvailableNonPrimaryConnections
            /\ mAvailableNonPrimaryConnections' = mAvailableNonPrimaryConnections \ {c}
            /\ UNCHANGED <<conn, mAvailablePrimaryConnection>>
         \/ /\ ExpandNonPrimary /\ Fresh(c)
            /\ conn' = [conn EXCEPT ![c] = OpenConn(FALSE, mConfiguration)]
            /\ UNCHANGED <<mAvailablePrimaryConnection, mAvailableNonPrimaryConnections>>
         \/ /\ c # NoConn /\ c = mAvailablePrimaryConnection
            /\ mAvailablePrimaryConnection' = NoConn
            /\ UNCHANGED <<conn, mAvailableNonPrimaryConnections>>
         \/ /\ ExpandPrimary /\ Fresh(c)
            /\ conn' = [conn EXCEPT ![c] = OpenConn(TRUE, mConfiguration)]
            /\ UNCHANGED <<mAvailablePrimaryConnection, mAvailableNonPrimaryConnections>>
BY DEF Obtain, tryAcquireNonPrimaryConnectionLocked, tryAcquirePrimaryConnectionLocked

\* An acquisition adds the connection to the acquired ones, and changes no acquired one.
LEMMA ObtainAcquired ==
  ASSUME TypeOK, ConnInv, NEW a, NEW b, NEW c \in Conn, Obtain(a, b, c),
         UNCHANGED <<mConfiguration, collected>>
  PROVE  /\ c \notin Acquired /\ Acquired' = Acquired \cup {c}
         /\ \A d \in Acquired : conn'[d] = conn[d]
<1>1. mAcquiredConnections[c] = "NONE" /\ mAcquiredConnections' = [mAcquiredConnections EXCEPT ![c] = "NORMAL"]
  BY ObtainConn
<1>2. c \notin Acquired /\ Acquired' = Acquired \cup {c}
  BY <1>1 DEF Acquired, TypeOK
<1>3. \A d \in Acquired : d # c /\ d \in Conn
  BY <1>2 DEF Acquired
<1>4. UNCHANGED conn \/ \E p \in BOOLEAN : conn' = [conn EXCEPT ![c] = OpenConn(p, mConfiguration)]
  BY ObtainCases
<1>5. \A d \in Acquired : conn'[d] = conn[d]
  BY <1>3, <1>4 DEF TypeOK
<1> QED BY <1>2, <1>5

\* A kind of connection that is not available is not available after an acquisition either.
LEMMA ObtainKeepsUnavailable ==
  ASSUME TypeOK, ConnInv, FiniteInv, NEW a, NEW b, NEW c \in Conn, Obtain(a, b, c),
         UNCHANGED <<mConfiguration, collected>>
  PROVE  /\ FiniteInv'
         /\ PrimaryNotAvailable => PrimaryNotAvailable'
         /\ NonPrimaryNotAvailable => NonPrimaryNotAvailable'
<1>1. /\ c \notin Acquired /\ Acquired' = Acquired \cup {c}
      /\ \A d \in Acquired : conn'[d] = conn[d]
  BY ObtainAcquired
<1>2. mAvailableNonPrimaryConnections' \subseteq mAvailableNonPrimaryConnections
  BY ObtainCases
<1>3. /\ IsFiniteSet(Acquired') /\ Cardinality(Acquired') = Cardinality(Acquired) + 1
      /\ IsFiniteSet(mAvailableNonPrimaryConnections')
  BY <1>1, <1>2, FS_AddElement, FS_Subset DEF FiniteInv
<1>4. FiniteInv'
  BY <1>3 DEF FiniteInv
<1>5. mAvailablePrimaryConnection' \in {mAvailablePrimaryConnection, NoConn}
  BY ObtainCases
<1>6. PrimaryNotAvailable => PrimaryNotAvailable'
  BY <1>1, <1>5 DEF PrimaryNotAvailable
<1>7. ASSUME NonPrimaryNotAvailable PROVE NonPrimaryNotAvailable'
  <2>1. /\ mAvailableNonPrimaryConnections = {} /\ mAvailableNonPrimaryConnections' = {}
        /\ OpenConnections >= MaxConnectionPoolSize
    BY <1>2, <1>7 DEF NonPrimaryNotAvailable
  <2>2. MaxConnectionPoolSize' = MaxConnectionPoolSize
    BY DEF MaxConnectionPoolSize
  <2>3. /\ OpenConnections \in Nat /\ Cardinality(Acquired) \in Nat
        /\ mAvailablePrimaryConnection = NoConn => OpenConnections = Cardinality(Acquired)
        /\ mAvailablePrimaryConnection # NoConn => OpenConnections = Cardinality(Acquired) + 1
    BY OpenConnectionsType
  <2>4. /\ mAvailablePrimaryConnection' = NoConn => OpenConnections' = Cardinality(Acquired')
        /\ mAvailablePrimaryConnection' # NoConn => OpenConnections' = Cardinality(Acquired') + 1
    BY <1>3, <2>3 DEF OpenConnections
  <2>5. OpenConnections' >= OpenConnections
    BY <1>3, <1>5, <2>3, <2>4
  <2>6. OpenConnections' >= MaxConnectionPoolSize
    <3>1. OpenConnections' \in Nat
      BY <1>3, <2>3, <2>4
    <3> QED BY <2>1, <2>3, <2>5, <3>1, PoolSizeType
  <2> QED BY <2>1, <2>2, <2>6 DEF NonPrimaryNotAvailable
<1> QED BY <1>4, <1>6, <1>7

-----------------------------------------------------------------------------
(* The wake-up loop.                                                       *)

\* What wakeConnectionWaitersLocked knows while it runs: its flags are right, and the waiters
\* that it has passed over want the primary connection, which is not there.
ScanInv ==
  scan.on /\ mIsOpen /\ ~RecoveryPending =>
    /\ scan.primaryNA => PrimaryNotAvailable
    /\ scan.nonPrimaryNA => NonPrimaryNotAvailable
    /\ scan.pos > 1 => scan.primaryNA
    /\ \A i \in DOMAIN mConnectionWaiterQueue :
         i < scan.pos => waiter[mConnectionWaiterQueue[i]].wantPrimary

ServeInv == FiniteInv /\ ScanInv /\ NoMissedWakeup

\* A loop that starts has passed over nobody.
LEMMA ServeStart ==
  ASSUME TypeOK', FiniteInv', scan' = StartScan
  PROVE  ServeInv'
<1>1. scan'.on /\ scan'.pos = 1 /\ ~scan'.primaryNA /\ ~scan'.nonPrimaryNA
  BY DEF StartScan, Scan
<1>2. \A i \in DOMAIN mConnectionWaiterQueue' : ~(i < 1)
  BY DEF TypeOK
<1> QED BY <1>1, <1>2 DEF ServeInv, ScanInv, NoMissedWakeup, LockFree

\* Nothing is claimed of a closed pool, or while a leaked connection is being recovered.
LEMMA ServeExcused ==
  ASSUME FiniteInv', ~mIsOpen' \/ RecoveryPending'
  PROVE  ServeInv'
BY DEF ServeInv, ScanInv, NoMissedWakeup

\* Steps that touch neither connections nor the queue nor the loop.
LEMMA ServeFrame ==
  ASSUME IInv, ServeInv, UNCHANGED <<configVars, connVars, scan, mConnectionWaiterQueue>>,
         \A w \in Queued : KeepsRequest(w), RecoveryPending => RecoveryPending'
  PROVE  ServeInv'
<1>1. /\ UNCHANGED <<mIsOpen, mConfiguration, mAvailablePrimaryConnection,
                     mAvailableNonPrimaryConnections, mAcquiredConnections, conn>>
  BY DEF configVars, connVars
<1>2. /\ Acquired' = Acquired /\ Queued' = Queued /\ MaxConnectionPoolSize' = MaxConnectionPoolSize
  BY <1>1 DEF Acquired, Queued, MaxConnectionPoolSize
<1>3. OpenConnections' = OpenConnections
  BY <1>1, <1>2 DEF OpenConnections
<1>4. /\ PrimaryNotAvailable' <=> PrimaryNotAvailable
      /\ NonPrimaryNotAvailable' <=> NonPrimaryNotAvailable
  BY <1>1, <1>2, <1>3 DEF PrimaryNotAvailable, NonPrimaryNotAvailable
<1>5. \A w \in Queued : waiter'[w].wantPrimary <=> waiter[w].wantPrimary
  BY DEF KeepsRequest
<1>6. FiniteInv'
  BY <1>1, <1>2 DEF ServeInv, FiniteInv
<1>7. NoMissedWakeup'
  BY <1>1, <1>2, <1>4, <1>5 DEF ServeInv, NoMissedWakeup, Satisfiable, LockFree
<1>8. ScanInv'
  <2>1. \A i \in DOMAIN mConnectionWaiterQueue : mConnectionWaiterQueue[i] \in Queued
    BY DEF Queued, Range
  <2> QED BY <1>1, <1>4, <1>5, <2>1 DEF ServeInv, ScanInv
<1> QED BY <1>6, <1>7, <1>8 DEF ServeInv

\* The loop passes over a waiter that wants a primary connection, and stops at one that neither
\* kind can be found for.
LEMMA ServeSkip ==
  ASSUME IInv, ServeInv, WakeSkip
  PROVE  ServeInv'
<1>0. TypeOK /\ scan.pos \in Nat \ {0} /\ scan.on /\ mIsOpen
      /\ scan.pos \in DOMAIN mConnectionWaiterQueue
  BY DEF IInv, TypeOK, ScanRecord, WakeSkip
<1>1. /\ UNCHANGED <<mIsOpen, mConfiguration, mAvailablePrimaryConnection,
                     mAvailableNonPrimaryConnections, mAcquiredConnections, conn, mConnectionLeaked,
                     collected, mConnectionWaiterQueue, waiter, pc>>
  BY DEF WakeSkip, ObtainNothing, configVars, connVars, leakVars, waiterVars, threadVars
<1>2. /\ Acquired' = Acquired /\ Queued' = Queued /\ MaxConnectionPoolSize' = MaxConnectionPoolSize
      /\ RecoveryPending' <=> RecoveryPending
  BY <1>1 DEF Acquired, Queued, MaxConnectionPoolSize, RecoveryPending
<1>3. OpenConnections' = OpenConnections
  BY <1>1, <1>2 DEF OpenConnections
<1>4. /\ PrimaryNotAvailable' <=> PrimaryNotAvailable
      /\ NonPrimaryNotAvailable' <=> NonPrimaryNotAvailable
  BY <1>1, <1>2, <1>3 DEF PrimaryNotAvailable, NonPrimaryNotAvailable
<1>5. FiniteInv'
  BY <1>1, <1>2 DEF ServeInv, FiniteInv
<1>6. SUFFICES ASSUME ~RecoveryPending PROVE ServeInv'
  BY <1>2, <1>5, ServeExcused
<1>7. /\ scan.primaryNA => PrimaryNotAvailable
      /\ scan.nonPrimaryNA => NonPrimaryNotAvailable
      /\ \A i \in DOMAIN mConnectionWaiterQueue :
           i < scan.pos => waiter[mConnectionWaiterQueue[i]].wantPrimary
  BY <1>0, <1>6 DEF ServeInv, ScanInv
<1>8. PrimaryNotAvailable /\ (TryNonPrimary => NonPrimaryNotAvailable)
  BY <1>7 DEF WakeSkip, ObtainNothing, TryPrimary
<1>9. CASE scan.nonPrimaryNA \/ TryNonPrimary
  <2>1. ~scan'.on
    BY <1>9 DEF WakeSkip, AfterSkip, NoScan, Scan
  <2>2. PrimaryNotAvailable' /\ NonPrimaryNotAvailable'
    BY <1>4, <1>7, <1>8, <1>9
  <2> QED BY <1>5, <2>1, <2>2 DEF ServeInv, ScanInv, NoMissedWakeup, Satisfiable
<1>10. CASE ~(scan.nonPrimaryNA \/ TryNonPrimary)
  <2>1. scan' = Scan(TRUE, scan.pos + 1, TRUE, FALSE)
    BY <1>10 DEF WakeSkip, AfterSkip
  <2>2. scan'.on /\ scan'.pos = scan.pos + 1 /\ scan'.primaryNA /\ ~scan'.nonPrimaryNA
    BY <2>1 DEF Scan
  <2>3. waiter[mConnectionWaiterQueue[scan.pos]].wantPrimary
    BY <1>10 DEF TryNonPrimary, Current
  <2>4. \A i \in DOMAIN mConnectionWaiterQueue :
          i < scan.pos + 1 => waiter[mConnectionWaiterQueue[i]].wantPrimary
    <3>1. \A i \in DOMAIN mConnectionWaiterQueue : i < scan.pos + 1 => i < scan.pos \/ i = scan.pos
      BY <1>0 DEF TypeOK
    <3> QED BY <1>7, <2>3, <3>1
  <2> QED BY <1>1, <1>4, <1>5, <1>8, <2>2, <2>4 DEF ServeInv, ScanInv, NoMissedWakeup, LockFree
<1> QED BY <1>9, <1>10

\* At the end of the queue everybody has been passed over.
LEMMA ServeEnd ==
  ASSUME IInv, ServeInv, WakeEnd
  PROVE  ServeInv'
<1>0. TypeOK /\ scan.pos \in Nat \ {0} /\ scan.on /\ Len(mConnectionWaiterQueue) \in Nat
      /\ scan.pos > Len(mConnectionWaiterQueue)
      /\ DOMAIN mConnectionWaiterQueue = 1 .. Len(mConnectionWaiterQueue)
  BY DEF IInv, TypeOK, ScanRecord, WakeEnd
<1>1. /\ UNCHANGED <<mIsOpen, mConfiguration, mAvailablePrimaryConnection,
                     mAvailableNonPrimaryConnections, mAcquiredConnections, conn, mConnectionLeaked,
                     collected, mConnectionWaiterQueue, waiter, pc>>
  BY DEF WakeEnd, poolVars, configVars, connVars, leakVars, waiterVars, threadVars
<1>2. /\ Acquired' = Acquired /\ Queued' = Queued
      /\ RecoveryPending' <=> RecoveryPending
  BY <1>1 DEF Acquired, Queued, RecoveryPending
<1>3. PrimaryNotAvailable' <=> PrimaryNotAvailable
  BY <1>1, <1>2 DEF PrimaryNotAvailable
<1>4. FiniteInv'
  BY <1>1, <1>2 DEF ServeInv, FiniteInv
<1>5. ~scan'.on
  BY DEF WakeEnd, NoScan, Scan
<1>6. ASSUME mIsOpen, ~RecoveryPending, NEW w \in Queued
      PROVE  PrimaryNotAvailable /\ waiter[w].wantPrimary
  <2>1. PICK i \in 1 .. Len(mConnectionWaiterQueue) : mConnectionWaiterQueue[i] = w
    BY <1>0 DEF Queued, Range
  <2>2. i < scan.pos /\ scan.pos > 1
    BY <1>0
  <2> QED BY <1>0, <1>6, <2>1, <2>2 DEF ServeInv, ScanInv
<1>7. NoMissedWakeup'
  BY <1>1, <1>2, <1>3, <1>6 DEF NoMissedWakeup, Satisfiable
<1> QED BY <1>4, <1>5, <1>7 DEF ServeInv, ScanInv

\* The loop decides a waiter and takes it out: its successor moves to the loop's position.
LEMMA ServeDismiss ==
  ASSUME IInv, ServeInv, FiniteInv', scan.on, scan.pos <= Len(mConnectionWaiterQueue), Dismiss,
         UNCHANGED <<configVars, leakVars, pc>>, \A w \in Queued : KeepsRequest(w),
         scan' = [scan EXCEPT !.nonPrimaryNA = NonPrimaryTriedInVain],
         PrimaryNotAvailable => PrimaryNotAvailable',
         NonPrimaryNotAvailable => NonPrimaryNotAvailable'
  PROVE  ServeInv'
<1> DEFINE q == mConnectionWaiterQueue
           n == Len(q)
           k == scan.pos
<1>0. /\ TypeOK /\ k \in 1 .. n /\ n \in Nat /\ q \in Seq(Waiter) /\ DOMAIN q = 1 .. n
      /\ scan \in ScanRecord
  BY DEF IInv, TypeOK, ScanRecord
<1>1. SUFFICES ASSUME mIsOpen, ~RecoveryPending PROVE ServeInv'
  BY ServeExcused DEF configVars, leakVars, RecoveryPending
<1>2. /\ scan.primaryNA => PrimaryNotAvailable
      /\ scan.nonPrimaryNA => NonPrimaryNotAvailable
      /\ k > 1 => scan.primaryNA
      /\ \A i \in 1 .. n : i < k => waiter[q[i]].wantPrimary
  BY <1>0, <1>1 DEF ServeInv, ScanInv
<1>3. scan' = [on |-> scan.on, pos |-> k, primaryNA |-> scan.primaryNA, nonPrimaryNA |-> NonPrimaryTriedInVain]
  BY <1>0 DEF ScanRecord
<1>4. scan'.on /\ scan'.pos = k /\ (scan'.primaryNA <=> scan.primaryNA)
      /\ (scan'.nonPrimaryNA <=> NonPrimaryTriedInVain)
  BY <1>3
<1>5. scan'.nonPrimaryNA => NonPrimaryNotAvailable'
  BY <1>2, <1>4 DEF NonPrimaryTriedInVain
<1>6. scan'.primaryNA => PrimaryNotAvailable'
  BY <1>2, <1>4
<1>7. /\ DOMAIN q' = 1 .. n - 1
      /\ \A i \in 1 .. n - 1 : q'[i] = IF i < k THEN q[i] ELSE q[i + 1]
  <2>1. q' = RemoveAt(q, k)
    BY DEF Dismiss, Unlink
  <2> HIDE DEF q
  <2>2. RemoveAt(q, k) \in Seq(Waiter) /\ Len(RemoveAt(q, k)) = n - 1
    BY <1>0, RemoveAtType
  <2>3. \A i \in 1 .. n - 1 : RemoveAt(q, k)[i] = IF i < k THEN q[i] ELSE q[i + 1]
    BY <1>0, RemoveAtType
  <2> QED BY <2>1, <2>2, <2>3
<1>8. \A i \in 1 .. n : q[i] \in Queued
  BY <1>0 DEF Queued, Range
<1>9. \A i \in 1 .. n - 1 : i < k => waiter'[q'[i]].wantPrimary
  <2>1. ASSUME NEW i \in 1 .. n - 1, i < k PROVE waiter'[q'[i]].wantPrimary
    <3>1. i \in 1 .. n /\ q'[i] = q[i] /\ q[i] \in Queued
      BY <1>0, <1>7, <1>8, <2>1
    <3> QED BY <1>2, <2>1, <3>1 DEF KeepsRequest
  <2> QED BY <2>1
<1>10. ScanInv'
  BY <1>2, <1>4, <1>5, <1>6, <1>7, <1>9 DEF ScanInv
<1> QED BY <1>4, <1>10 DEF ServeInv, NoMissedWakeup, LockFree

\* A thread that acquires without queueing takes nothing that a queued waiter could have.
LEMMA ServeAcquire ==
  ASSUME IInv, ServeInv, NEW t \in Thread, NEW r \in Requests, AcquireNow(t, r)
  PROVE  ServeInv'
<1>0. TypeOK /\ ConnInv /\ FiniteInv
  BY DEF IInv, ConnInv, ServeInv
<1>1. PICK c \in Conn : Obtain(~r.wantPrimary, TRUE, c)
  BY DEF AcquireNow
<1>2. UNCHANGED <<mIsOpen, mConfiguration, mConnectionLeaked, collected, mConnectionWaiterQueue, waiter, scan>>
  BY DEF AcquireNow, configVars, leakVars, waiterVars
<1>3. /\ FiniteInv'
      /\ PrimaryNotAvailable => PrimaryNotAvailable'
      /\ NonPrimaryNotAvailable => NonPrimaryNotAvailable'
  <2> DEFINE a == ~r.wantPrimary
             b == TRUE
  <2>1. Obtain(a, b, c)
    BY <1>1
  <2> HIDE DEF a, b
  <2> QED BY <1>0, <1>2, <2>1, ObtainKeepsUnavailable
<1>4. RecoveryPending => RecoveryPending'
  BY <1>0, <1>2 DEF RecoveryPending, AcquireNow, TypeOK
<1>5. Queued' = Queued /\ ~scan.on /\ ~scan'.on
  BY <1>2 DEF Queued, AcquireNow, LockFree
<1>6. NoMissedWakeup'
  BY <1>2, <1>3, <1>4, <1>5 DEF ServeInv, NoMissedWakeup, Satisfiable, LockFree
<1> QED BY <1>3, <1>5, <1>6 DEF ServeInv, ScanInv

\* A thread queues only when nothing that it would accept is available.
LEMMA ServeEnqueue ==
  ASSUME IInv, ServeInv, NEW t \in Thread, NEW r \in Requests, Enqueue(t, r),
         \A w \in Queued : KeepsRequest(w)
  PROVE  ServeInv'
<1>0. TypeOK /\ ThreadInv /\ WaiterInv
  BY DEF IInv
<1>1. /\ UNCHANGED <<mIsOpen, mConfiguration, mAvailablePrimaryConnection,
                     mAvailableNonPrimaryConnections, mAcquiredConnections, conn, mConnectionLeaked,
                     collected, scan>>
  BY DEF Enqueue, ObtainNothing, configVars, connVars, leakVars
<1>2. /\ Acquired' = Acquired /\ MaxConnectionPoolSize' = MaxConnectionPoolSize
      /\ RecoveryPending => RecoveryPending'
  BY <1>0, <1>1 DEF Acquired, MaxConnectionPoolSize, RecoveryPending, Enqueue, TypeOK
<1>3. OpenConnections' = OpenConnections
  BY <1>1, <1>2 DEF OpenConnections
<1>4. /\ PrimaryNotAvailable' <=> PrimaryNotAvailable
      /\ NonPrimaryNotAvailable' <=> NonPrimaryNotAvailable
  BY <1>1, <1>2, <1>3 DEF PrimaryNotAvailable, NonPrimaryNotAvailable
<1>5. FiniteInv'
  BY <1>1, <1>2 DEF ServeInv, FiniteInv
<1>6. ~scan.on /\ ~scan'.on
  BY <1>1 DEF Enqueue, LockFree
<1>7. PrimaryNotAvailable /\ (~r.wantPrimary => NonPrimaryNotAvailable)
  BY DEF Enqueue, ObtainNothing
<1>8. PICK w \in Waiter \ Queued :
         /\ mConnectionWaiterQueue' =
              InsertAt(mConnectionWaiterQueue, QueuePosition(r.priority), w)
         /\ waiter'[w].wantPrimary <=> r.wantPrimary
  BY <1>0, EnqueuedRequest
<1>9. Queued' = Queued \cup {w}
  <2> DEFINE q == mConnectionWaiterQueue
             k == QueuePosition(r.priority)
  <2>1. k \in 1 .. Len(q) + 1
    BY <1>0, QueuePositionRange
  <2>2. q \in Seq(Waiter) /\ Distinct(q) /\ w \in Waiter /\ w \notin Range(q)
    BY <1>0, <1>8 DEF TypeOK, WaiterInv, Queued
  <2>3. q' = InsertAt(q, k, w)
    BY <1>8
  <2> HIDE DEF q, k
  <2>4. Range(InsertAt(q, k, w)) = Range(q) \cup {w}
    BY <2>1, <2>2, InsertAtRange
  <2> QED BY <2>3, <2>4 DEF Queued, q
<1>10. \A v \in Queued : waiter'[v].wantPrimary <=> waiter[v].wantPrimary
  BY DEF KeepsRequest
<1>11. NoMissedWakeup'
  <2> SUFFICES ASSUME mIsOpen, ~RecoveryPending, NEW v \in Queued'
               PROVE  PrimaryNotAvailable /\ (~waiter'[v].wantPrimary => NonPrimaryNotAvailable)
    BY <1>1, <1>2, <1>4 DEF NoMissedWakeup, Satisfiable
  <2>1. CASE v = w
    BY <1>7, <1>8, <2>1
  <2>2. CASE v \in Queued
    BY <1>6, <1>10, <2>2 DEF ServeInv, NoMissedWakeup, Satisfiable, LockFree
  <2> QED BY <1>9, <2>1, <2>2
<1> QED BY <1>5, <1>6, <1>11 DEF ServeInv, ScanInv

\* A step that adds at most one connection keeps the pool finite.
LEMMA FiniteGrowth ==
  ASSUME FiniteInv, NEW c, Acquired' \subseteq Acquired \cup {c},
         mAvailableNonPrimaryConnections' \subseteq mAvailableNonPrimaryConnections \cup {c}
  PROVE  FiniteInv'
<1>1. /\ IsFiniteSet(Acquired \cup {c})
      /\ IsFiniteSet(mAvailableNonPrimaryConnections \cup {c})
  BY FS_AddElement DEF FiniteInv
<1>2. IsFiniteSet(Acquired')
  BY <1>1, FS_Subset
<1>3. IsFiniteSet(mAvailableNonPrimaryConnections')
  BY <1>1, FS_Subset
<1> QED BY <1>2, <1>3 DEF FiniteInv

\* Every step adds at most one connection.
LEMMA FiniteStep ==
  ASSUME IInv, FiniteInv, Next
  PROVE  FiniteInv'
<1>0. TypeOK /\ ConnInv
  BY DEF IInv, ConnInv
<1>1. ASSUME UNCHANGED <<mAcquiredConnections, mAvailableNonPrimaryConnections>>
      PROVE  FiniteInv'
  BY <1>1 DEF FiniteInv, Acquired
<1>2. ASSUME NEW c \in Conn, WakeAssign(c) PROVE FiniteInv'
  BY <1>0, <1>2, ObtainKeepsUnavailable DEF WakeAssign, configVars, leakVars
<1>3. ASSUME NEW t \in Thread, NEW r \in Requests, AcquireNow(t, r) PROVE FiniteInv'
  <2> DEFINE a == ~r.wantPrimary
             b == TRUE
  <2>1. PICK c \in Conn : Obtain(a, b, c)
    BY <1>3 DEF AcquireNow
  <2>2. UNCHANGED <<mConfiguration, collected>>
    BY <1>3 DEF AcquireNow, configVars, leakVars
  <2> HIDE DEF a, b
  <2> QED BY <1>0, <2>1, <2>2, ObtainKeepsUnavailable
<1>4. ASSUME NEW t \in Thread, ReleaseConnection(t) PROVE FiniteInv'
  <2> DEFINE c == held[t]
  <2>1. Acquired' \subseteq Acquired
    BY <1>0, <1>4 DEF ReleaseConnection, Acquired, TypeOK
  <2>2. mAvailableNonPrimaryConnections' \subseteq mAvailableNonPrimaryConnections \cup {c}
    BY <1>4 DEF ReleaseConnection, ReleaseClosing, ReleaseRecycling
  <2> HIDE DEF c
  <2> QED BY <2>1, <2>2, FiniteGrowth
<1>5. ASSUME NEW config \in Configs, reconfigure(config) PROVE FiniteInv'
  <2>1. Acquired' = Acquired
    BY <1>5 DEF reconfigure, ReconfigureReopen, ReconfigureReopenFails, ReconfigureInPlace, Acquired,
                MarkAcquired
  <2>2. mAvailableNonPrimaryConnections' \subseteq mAvailableNonPrimaryConnections
    BY <1>5 DEF reconfigure, ReconfigureReopen, ReconfigureReopenFails, ReconfigureInPlace
  <2> QED BY <2>1, <2>2, FiniteGrowth
<1>6. CASE ClosePool
  <2>1. Acquired' = Acquired /\ mAvailableNonPrimaryConnections' = {}
    BY <1>6 DEF ClosePool, Acquired
  <2> QED BY <2>1, FiniteGrowth
<1>7. ASSUME NEW c \in Conn, Collect(c) \/ FinalizeConnection(c) PROVE FiniteInv'
  <2>1. Acquired' \subseteq Acquired /\ UNCHANGED mAvailableNonPrimaryConnections
    BY <1>0, <1>7 DEF Collect, FinalizeConnection, Acquired, TypeOK
  <2> QED BY <2>1, FiniteGrowth
<1>8. ASSUME WakeClosed \/ WakeThrow \/ WakeSkip \/ WakeEnd PROVE FiniteInv'
  BY <1>1, <1>8 DEF WakeClosed, WakeThrow, WakeSkip, WakeEnd, ObtainThrows, ObtainNothing, poolVars, connVars
<1>9. ASSUME NEW t \in Thread, NEW r \in Requests, AcquireThrows(t, r) \/ Enqueue(t, r) PROVE FiniteInv'
  BY <1>1, <1>9 DEF AcquireThrows, Enqueue, ObtainThrows, ObtainNothing, connVars
<1>10. ASSUME NEW t \in Thread, WaitStep(t) PROVE FiniteInv'
  BY <1>1, <1>10 DEF WaitStep, SetListener, CheckLeaked, Recover, Park, ParkTimeout, ParkInterrupted, Check,
                     CheckClosed, CheckDone, CheckAgain, RemoveListener, poolVars, connVars
<1>11. ASSUME NEW t \in Thread, Leak(t) \/ Cancel(t) \/ OnCancel(t) PROVE FiniteInv'
  BY <1>1, <1>11 DEF Leak, Cancel, OnCancel, poolVars, connVars
<1>12. ASSUME NEW t \in Thread, ThreadStep(t) PROVE FiniteInv'
  BY <1>3, <1>4, <1>9, <1>10, <1>11, <1>12 DEF ThreadStep, acquireConnection
<1> QED BY <1>2, <1>5, <1>6, <1>7, <1>8, <1>12 DEF Next, WakeConnectionWaiters

\* A connection that is closed on release, for which the loop is not started, is a surplus
\* non-primary one: the waiters want the primary connection, or the pool stays full without it.
LEMMA ServeRelease ==
  ASSUME IInv, ServeInv, FiniteInv', NEW t \in Thread, ReleaseConnection(t)
  PROVE  ServeInv'
<1> DEFINE c == held[t]
<1>0. TypeOK /\ ThreadInv
  BY DEF IInv
<1>1. /\ UNCHANGED <<mIsOpen, mConfiguration, mConnectionLeaked, collected, mConnectionWaiterQueue, waiter>>
      /\ ~scan.on /\ c \in Conn
      /\ mAcquiredConnections' = [mAcquiredConnections EXCEPT ![c] = "NONE"]
  BY <1>0 DEF ReleaseConnection, configVars, leakVars, waiterVars, LockFree, ThreadInv
<1>2. RecoveryPending => RecoveryPending'
  BY <1>0, <1>1 DEF ReleaseConnection, RecoveryPending, TypeOK
<1>3. CASE ReleaseRecycling(t)
  <2>1. scan' = StartScan
    BY <1>3 DEF ReleaseRecycling
  <2> QED BY <2>1, ServeStart, NextInv DEF IInv, Next, ThreadStep
<1>4. CASE ~mIsOpen
  BY <1>1, <1>4, ServeExcused
<1>5. CASE ReleaseClosing(t) /\ mIsOpen
  <2>1. /\ ~conn[c].primary
        /\ Cardinality(mAvailableNonPrimaryConnections) >= MaxConnectionPoolSize - 1
        /\ conn' = CloseAll({c})
        /\ UNCHANGED <<mAvailablePrimaryConnection, mAvailableNonPrimaryConnections, scan>>
    BY <1>5 DEF ReleaseClosing
  <2> HIDE DEF c
  <2>2. Acquired' = Acquired \ {c}
    BY <1>0, <1>1 DEF Acquired, TypeOK
  <2>3. \A d \in Acquired : conn[d].primary => d \in Acquired' /\ conn'[d] = conn[d]
    BY <2>1, <2>2 DEF CloseAll, Acquired
  <2>4. PrimaryNotAvailable => PrimaryNotAvailable'
    BY <2>1, <2>3 DEF PrimaryNotAvailable
  <2>5. ASSUME PrimaryNotAvailable, NonPrimaryNotAvailable
        PROVE  NonPrimaryNotAvailable'
    <3>1. mAvailableNonPrimaryConnections = {} /\ mAvailablePrimaryConnection = NoConn
      BY <2>5 DEF PrimaryNotAvailable, NonPrimaryNotAvailable
    <3>2. MaxConnectionPoolSize = 1
      BY <2>1, <3>1, FS_EmptySet, PoolSizeType
    <3>3. PICK d \in Acquired : conn[d].primary
      BY <2>5 DEF PrimaryNotAvailable
    <3>4. d \in Acquired' /\ IsFiniteSet(Acquired')
      BY <2>3, <3>3 DEF FiniteInv
    <3>5. Cardinality(Acquired') \in Nat /\ Cardinality(Acquired') # 0
      BY <3>4, FS_EmptySet, FS_CardinalityType
    <3>6. OpenConnections' = Cardinality(Acquired')
      BY <2>1, <3>1, <3>5 DEF OpenConnections
    <3>7. MaxConnectionPoolSize' = MaxConnectionPoolSize
      BY <1>1 DEF MaxConnectionPoolSize
    <3> QED BY <2>1, <3>1, <3>2, <3>5, <3>6, <3>7 DEF NonPrimaryNotAvailable
  <2>6. Queued' = Queued /\ ~scan'.on
    BY <1>1, <2>1 DEF Queued
  <2>7. NoMissedWakeup'
    BY <1>1, <1>2, <2>1, <2>4, <2>5, <2>6 DEF ServeInv, NoMissedWakeup, Satisfiable, LockFree
  <2> QED BY <2>6, <2>7 DEF ServeInv, ScanInv
<1> QED BY <1>3, <1>4, <1>5 DEF ReleaseConnection

\* A reconfiguration whose reopening fails does not start the loop either: it may leave the pool
\* without its primary connection, but only when nothing was acquired and so nobody waits.
LEMMA ServeReopenFails ==
  ASSUME IInv, ServeInv, FiniteInv', NEW config \in Configs, ReconfigureReopenFails(config)
  PROVE  ServeInv'
<1>1. /\ UNCHANGED <<mIsOpen, mConfiguration, mConnectionLeaked, collected, mConnectionWaiterQueue, waiter,
                     pc, scan, mAcquiredConnections>>
      /\ UNCHANGED <<configVars, leakVars, waiterVars, scan>>
      /\ ~scan.on
  BY DEF ReconfigureReopenFails, configVars, leakVars, waiterVars, threadVars, LockFree
<1>2. RecoveryPending => RecoveryPending'
  BY <1>1 DEF RecoveryPending
<1>3. CASE WalModeChanged(config)
  <2>1. Acquired = {}
    BY <1>3 DEF ReconfigureReopenFails, ReconfigureAllowed
  <2>2. ~PrimaryNotAvailable
    BY <2>1 DEF PrimaryNotAvailable
  <2>3. mIsOpen /\ ~RecoveryPending => Queued = {}
    BY <1>1, <2>2 DEF ServeInv, NoMissedWakeup, Satisfiable, LockFree
  <2>4. Queued' = Queued
    BY <1>1 DEF Queued
  <2>5. NoMissedWakeup'
    BY <1>1, <1>2, <2>3, <2>4 DEF NoMissedWakeup
  <2> QED BY <1>1, <2>5 DEF ServeInv, ScanInv
<1>4. CASE ~WalModeChanged(config)
  <2>1. UNCHANGED connVars
    BY <1>1, <1>4 DEF ReconfigureReopenFails, connVars
  <2>2. \A w \in Queued : KeepsRequest(w)
    BY <1>1 DEF KeepsRequest
  <2> QED BY <1>1, <1>2, <2>1, <2>2, ServeFrame
<1> QED BY <1>3, <1>4

\* Every step keeps the promise of the wake-up loop; one case per action.
LEMMA ServeStep ==
  ASSUME IInv, ServeInv, Next
  PROVE  ServeInv'
<1>0. /\ TypeOK /\ ConnInv /\ FiniteInv /\ FiniteInv' /\ TypeOK'
      /\ ThreadInv /\ WaiterInv
  BY NextInv, FiniteStep DEF IInv, ConnInv, ServeInv
<1>q. \A w \in Queued : KeepsRequest(w)
  BY QueueStep
<1>start. ASSUME scan' = StartScan PROVE ServeInv'
  BY <1>0, <1>start, ServeStart
<1>1. ASSUME WakeClosed PROVE ServeInv'
  BY <1>0, <1>1, ServeExcused DEF WakeClosed, poolVars, configVars
<1>2. ASSUME NEW c \in Conn, WakeAssign(c) PROVE ServeInv'
  <2>1. /\ PrimaryNotAvailable => PrimaryNotAvailable'
        /\ NonPrimaryNotAvailable => NonPrimaryNotAvailable'
    BY <1>0, <1>2, ObtainKeepsUnavailable DEF WakeAssign, configVars, leakVars
  <2> QED BY <1>0, <1>q, <1>2, <2>1, ServeDismiss DEF WakeAssign
<1>3. ASSUME WakeThrow PROVE ServeInv'
  <2>1. /\ UNCHANGED <<mConfiguration, mAvailablePrimaryConnection, mAvailableNonPrimaryConnections,
                       mAcquiredConnections, conn>>
    BY <1>3 DEF WakeThrow, ObtainThrows, connVars, configVars
  <2>2. Acquired' = Acquired /\ MaxConnectionPoolSize' = MaxConnectionPoolSize
    BY <2>1 DEF Acquired, MaxConnectionPoolSize
  <2>3. OpenConnections' = OpenConnections
    BY <2>1, <2>2 DEF OpenConnections
  <2>4. /\ PrimaryNotAvailable => PrimaryNotAvailable'
        /\ NonPrimaryNotAvailable => NonPrimaryNotAvailable'
    BY <2>1, <2>2, <2>3 DEF PrimaryNotAvailable, NonPrimaryNotAvailable
  <2> QED BY <1>0, <1>q, <1>3, <2>4, ServeDismiss DEF WakeThrow
<1>4. ASSUME WakeSkip \/ WakeEnd PROVE ServeInv'
  BY <1>4, ServeSkip, ServeEnd
<1>5. ASSUME NEW t \in Thread, acquireConnection(t) PROVE ServeInv'
  <2>1. ASSUME NEW r \in Requests, AcquireNow(t, r) PROVE ServeInv'
    BY <2>1, ServeAcquire
  <2>2. ASSUME NEW r \in Requests, Enqueue(t, r) PROVE ServeInv'
    BY <1>q, <2>2, ServeEnqueue
  <2>3. ASSUME NEW r \in Requests, AcquireThrows(t, r) PROVE ServeInv'
    BY <1>q, <2>3, ServeFrame DEF AcquireThrows, ObtainThrows, leakVars, waiterVars, threadVars, RecoveryPending
  <2> QED BY <1>5, <2>1, <2>2, <2>3 DEF acquireConnection
<1>6. ASSUME NEW t, OnCancelOf(t), UNCHANGED poolVars, RecoveryPending => RecoveryPending'
      PROVE  ServeInv'
  <2>1. CASE UNCHANGED <<waiterVars, permit, scan>>
    BY <1>q, <1>6, <2>1, ServeFrame DEF poolVars, waiterVars
  <2>2. CASE ~UNCHANGED <<waiterVars, permit, scan>>
    BY <1>start, <1>6, <2>2 DEF OnCancelOf, cancelConnectionWaiterLocked
  <2> QED BY <2>1, <2>2
<1>7. ASSUME NEW t \in Thread, SetListener(t) \/ OnCancel(t) PROVE ServeInv'
  <2>1. UNCHANGED poolVars
    BY <1>7 DEF SetListener, OnCancel
  <2>2. RecoveryPending => RecoveryPending'
    <3>1. UNCHANGED <<collected, mConnectionLeaked>>
      BY <2>1 DEF poolVars, leakVars
    <3>2. \A u \in Thread : pc[u] = "recover" => pc'[u] = "recover"
      BY <1>0, <1>7 DEF SetListener, OnCancel, TypeOK
    <3> QED BY <3>1, <3>2 DEF RecoveryPending
  <2>3. CASE OnCancelOf(t)
    BY <1>6, <2>1, <2>2, <2>3
  <2>4. CASE ~OnCancelOf(t)
    <3>1. UNCHANGED <<waiterVars, scan>>
      BY <1>7, <2>4 DEF SetListener, OnCancel
    <3> QED BY <1>q, <2>1, <2>2, <3>1, ServeFrame DEF poolVars, waiterVars
  <2> QED BY <2>3, <2>4
<1>8. ASSUME NEW t \in Thread, CheckLeaked(t) PROVE ServeInv'
  <2>1. CASE mConnectionLeaked
    <3>1. RecoveryPending'
      BY <1>0, <1>8, <2>1 DEF CheckLeaked, RecoveryPending, TypeOK
    <3> QED BY <1>0, <3>1, ServeExcused
  <2>2. CASE ~mConnectionLeaked
    <3>1. RecoveryPending => RecoveryPending'
      BY <1>0, <1>8, <2>2 DEF CheckLeaked, RecoveryPending, TypeOK
    <3> QED BY <1>q, <1>8, <3>1, ServeFrame DEF CheckLeaked, waiterVars
  <2> QED BY <2>1, <2>2
<1>9. ASSUME NEW t \in Thread, Recover(t) PROVE ServeInv'
  BY <1>start, <1>9 DEF Recover
<1>10. ASSUME NEW t \in Thread, \/ Park(t) \/ ParkTimeout(t) \/ ParkInterrupted(t) \/ Check(t)
                                \/ RemoveListener(t) \/ Leak(t) \/ Cancel(t)
       PROVE  ServeInv'
  <2>1. UNCHANGED poolVars /\ UNCHANGED <<mConnectionWaiterQueue, scan>>
    BY <1>10 DEF Park, ParkTimeout, ParkInterrupted, Check, CheckClosed, CheckDone, CheckAgain,
                 RemoveListener, Leak, Cancel, waiterVars
  <2>2. \A u \in Thread : pc[u] = "recover" => pc'[u] = "recover"
    BY <1>0, <1>10 DEF Park, ParkTimeout, ParkInterrupted, Check, CheckClosed, CheckDone, CheckAgain,
                       RemoveListener, Leak, Cancel, TypeOK
  <2>3. RecoveryPending => RecoveryPending'
    BY <2>1, <2>2 DEF RecoveryPending, poolVars, leakVars
  <2> QED BY <1>q, <2>1, <2>3, ServeFrame DEF poolVars
<1>11. ASSUME NEW t \in Thread, ReleaseConnection(t) PROVE ServeInv'
  BY <1>0, <1>11, ServeRelease
<1>12. ASSUME NEW t \in Thread, ThreadStep(t) PROVE ServeInv'
  <2>1. CASE WaitStep(t)
    BY <1>7, <1>8, <1>9, <1>10, <2>1 DEF WaitStep
  <2> QED BY <1>5, <1>7, <1>10, <1>11, <1>12, <2>1 DEF ThreadStep
<1>13. ASSUME ClosePool PROVE ServeInv'
  BY <1>start, <1>13 DEF ClosePool
<1>14. ASSUME NEW config \in Configs, reconfigure(config) PROVE ServeInv'
  <2>1. CASE ReconfigureReopenFails(config)
    BY <1>0, <2>1, ServeReopenFails
  <2>2. CASE ReconfigureReopen(config) \/ ReconfigureInPlace(config)
    BY <1>start, <2>2 DEF ReconfigureReopen, ReconfigureInPlace
  <2> QED BY <1>14, <2>1, <2>2 DEF reconfigure
<1>15. ASSUME NEW c \in Conn, Collect(c) \/ FinalizeConnection(c) PROVE ServeInv'
  <2>1. RecoveryPending'
    BY <1>15 DEF Collect, FinalizeConnection, onConnectionLeaked, RecoveryPending
  <2> QED BY <1>0, <2>1, ServeExcused
<1> QED BY <1>1, <1>2, <1>3, <1>4, <1>12, <1>13, <1>14, <1>15 DEF Next, WakeConnectionWaiters

\* Nothing has been missed in a new pool.
LEMMA ServeInit == Init => ServeInv
<1> SUFFICES ASSUME Init PROVE ServeInv
  OBVIOUS
<1>1. Acquired = {} /\ mAvailableNonPrimaryConnections = {} /\ Queued = {} /\ ~scan.on
  BY DEF Init, Acquired, Queued, Range, NoScan, Scan
<1> QED BY <1>1, FS_EmptySet DEF ServeInv, FiniteInv, ScanInv, NoMissedWakeup

\* The promise of the wake-up loop is kept by every step.
LEMMA ServeInvariant == Spec => []ServeInv
<1>1. IInv /\ ServeInv /\ [Next]_vars => ServeInv'
  <2> SUFFICES ASSUME IInv, ServeInv, [Next]_vars PROVE ServeInv'
    OBVIOUS
  <2>1. CASE UNCHANGED vars
    <3>1. UNCHANGED <<poolVars, waiterVars, scan, pc>>
      BY <2>1 DEF vars, threadVars
    <3>2. \A w \in Queued : KeepsRequest(w)
      BY <3>1 DEF KeepsRequest, waiterVars
    <3>3. RecoveryPending => RecoveryPending'
      BY <3>1 DEF RecoveryPending, poolVars, leakVars
    <3> QED BY <3>1, <3>2, <3>3, ServeFrame DEF poolVars, waiterVars
  <2> QED BY <2>1, ServeStep
<1> QED BY <1>1, ServeInit, Invariance, PTL DEF Spec

\* No wake-up is missed: when the lock is free, no queued waiter wants what the pool could hand
\* out, whichever release, cancellation, reconfiguration or recovered leak made it available.
THEOREM WakeupKept == Spec => []NoMissedWakeup
<1>1. ServeInv => NoMissedWakeup
  BY DEF ServeInv
<1> QED BY <1>1, ServeInvariant, PTL

\* A thread that is idle gets a connection from waitForConnection only, and without queueing.
LEMMA IdleGetsNow ==
  ASSUME IInv, Next, NEW t \in Thread, pc[t] = "idle", held'[t] # NoConn
  PROVE  \E r \in Requests : AcquireNow(t, r)
<1>0. TypeOK /\ ThreadInv /\ held[t] = NoConn
  BY DEF IInv, ThreadInv
<1>1. held' # held
  BY <1>0
<1>2. ~WakeConnectionWaiters
  BY <1>1 DEF WakeConnectionWaiters, WakeClosed, WakeAssign, WakeThrow, WakeSkip, WakeEnd, threadVars, localVars
<1>3. ~ClosePool /\ ~(\E config \in Configs : reconfigure(config))
  BY <1>1 DEF ClosePool, reconfigure, ReconfigureReopen, ReconfigureReopenFails, ReconfigureInPlace,
              threadVars, localVars
<1>4. ~(\E c \in Conn : Collect(c) \/ FinalizeConnection(c))
  BY <1>1 DEF Collect, FinalizeConnection, threadVars, localVars
<1>5. PICK u \in Thread : ThreadStep(u)
  BY <1>2, <1>3, <1>4 DEF Next
<1>6. ~Cancel(u) /\ ~OnCancel(u)
  BY <1>1 DEF Cancel, OnCancel
<1>7. ~Leak(u) /\ ~ReleaseConnection(u)
  BY <1>0 DEF Leak, ReleaseConnection, TypeOK
<1>8. ~WaitStep(u)
  <2>1. CheckDone(u) => u # t /\ held'[t] = held[t]
    BY <1>0 DEF CheckDone, TypeOK
  <2> QED BY <1>0, <1>1, <2>1 DEF WaitStep, SetListener, CheckLeaked, Recover, Park, ParkTimeout,
                  ParkInterrupted, Check, CheckClosed, CheckAgain, RemoveListener, localVars
<1>9. PICK r \in Requests : AcquireNow(u, r) \/ AcquireThrows(u, r) \/ Enqueue(u, r)
  BY <1>5, <1>6, <1>7, <1>8 DEF ThreadStep, acquireConnection
<1>10. AcquireNow(u, r)
  BY <1>1, <1>9 DEF AcquireThrows, Enqueue, threadVars, localVars
<1>11. u = t
  BY <1>0, <1>10 DEF AcquireNow, TypeOK
<1> QED BY <1>10, <1>11

\* What such a thread gets is a non-primary connection, and everybody queued wants the primary.
LEMMA NowTakesNothing ==
  ASSUME IInv, ServeInv, NEW t \in Thread, NEW r \in Requests, AcquireNow(t, r), ~RecoveryPending,
         NEW w \in Queued
  PROVE  waiter[w].wantPrimary /\ ~conn'[held'[t]].primary
<1> DEFINE a == ~r.wantPrimary
           b == TRUE
<1>0. TypeOK /\ PlaceInv /\ FiniteInv
  BY DEF IInv, ServeInv
<1>1. PICK c \in Conn : Obtain(a, b, c) /\ held'[t] = c
  BY <1>0 DEF AcquireNow, TypeOK
<1> HIDE DEF a, b
<1>2. PrimaryNotAvailable /\ (waiter[w].wantPrimary \/ NonPrimaryNotAvailable)
  BY DEF AcquireNow, ServeInv, NoMissedWakeup, Satisfiable
<1>3. mAvailablePrimaryConnection = NoConn /\ ~ExpandPrimary
  BY <1>2 DEF PrimaryNotAvailable, ExpandPrimary
<1>4. CASE c \in mAvailableNonPrimaryConnections /\ UNCHANGED conn
  BY <1>0, <1>1, <1>2, <1>4 DEF PlaceInv, NonPrimaryNotAvailable
<1>5. CASE ExpandNonPrimary /\ conn' = [conn EXCEPT ![c] = OpenConn(FALSE, mConfiguration)]
  <2>1. ~NonPrimaryNotAvailable
    BY <1>0, <1>5, OpenConnectionsType, PoolSizeType DEF ExpandNonPrimary, NonPrimaryNotAvailable
  <2>2. ~conn'[c].primary
    BY <1>0, <1>5 DEF OpenConn, TypeOK
  <2> QED BY <1>1, <1>2, <2>1, <2>2
<1> QED BY <1>1, <1>3, <1>4, <1>5, ObtainCases

\* No thread overtakes a queued waiter with a connection that the waiter would accept.
THEOREM NobodyBarges == Spec => NoBarging
<1> DEFINE Fair == \A t \in Thread :
                     pc[t] = "idle" /\ held'[t] # NoConn /\ ~RecoveryPending =>
                       \A w \in Queued : waiter[w].wantPrimary /\ ~conn'[held'[t]].primary
<1>1. IInv /\ ServeInv /\ [Next]_vars => [Fair]_vars
  <2> SUFFICES ASSUME IInv, ServeInv, Next,
                      NEW t \in Thread, pc[t] = "idle", held'[t] # NoConn, ~RecoveryPending,
                      NEW w \in Queued
               PROVE  waiter[w].wantPrimary /\ ~conn'[held'[t]].primary
    OBVIOUS
  <2>1. PICK r \in Requests : AcquireNow(t, r)
    BY IdleGetsNow
  <2> QED BY <2>1, NowTakesNothing
<1> HIDE DEF Fair
<1>2. Spec => [][Fair]_vars
  BY <1>1, Invariance, ServeInvariant, PTL DEF Spec
<1> QED BY <1>2 DEF NoBarging, Fair

-----------------------------------------------------------------------------
(* The size of the pool.                                                   *)

\* Nothing fails to open or to be reconfigured, and no thread ends with a connection.  (With a
\* leak the bound does not hold: the primary connection is gone from the map once collected, the
\* pool fills up with non-primary ones, and then the primary one is opened again.)
NoFaults == Env \cap {"openFails", "reconfigureFails", "leak"} = {}

\* The connections that count: those that will be put back and those on offer.
KeptConnections == {c \in Acquired : mAcquiredConnections[c] # "DISCARD"}
PooledConnections == KeptConnections \cup Available

\* An open pool has its primary connection, so it is never opened a second time, and no
\* acquired connection is without an owner, so the collector takes none.
SizeInv ==
  /\ PoolBound
  /\ mIsOpen => \E c \in PooledConnections : conn[c].primary
  /\ mIsOpen => AcquiredConnectionsOwned

\* PoolBound in these terms.
LEMMA PoolBoundIs == PoolBound <=> Cardinality(PooledConnections) <= MaxConnectionPoolSize
BY DEF PoolBound, PooledConnections, KeptConnections

\* The connections that count are finitely many.
LEMMA PooledFinite ==
  ASSUME TypeOK, FiniteInv
  PROVE  IsFiniteSet(PooledConnections) /\ Cardinality(PooledConnections) \in Nat
<1>1. IsFiniteSet(KeptConnections)
  BY FS_Subset DEF KeptConnections, FiniteInv
<1>2. IsFiniteSet({mAvailablePrimaryConnection} \ {NoConn})
  BY FS_Singleton, FS_Subset
<1>3. IsFiniteSet(Available)
  BY <1>2, FS_Union DEF Available, FiniteInv
<1>4. IsFiniteSet(PooledConnections)
  BY <1>1, <1>3, FS_Union DEF PooledConnections
<1> QED BY <1>4, FS_CardinalityType

\* The bound holds on when no connection comes in and the pool size stays.
LEMMA PooledShrinks ==
  ASSUME TypeOK, FiniteInv, PoolBound, PooledConnections' \subseteq PooledConnections,
         MaxConnectionPoolSize' = MaxConnectionPoolSize
  PROVE  PoolBound'
<1> DEFINE new == PooledConnections'
<1>1. IsFiniteSet(PooledConnections) /\ Cardinality(PooledConnections) \in Nat
  BY PooledFinite
<1> HIDE DEF new
<1>2. IsFiniteSet(new) /\ Cardinality(new) <= Cardinality(PooledConnections)
  BY <1>1, FS_Subset DEF new
<1>3. Cardinality(new) \in Nat
  BY <1>2, FS_CardinalityType
<1>4. Cardinality(new) <= MaxConnectionPoolSize'
  BY <1>1, <1>2, <1>3, PoolSizeType, PoolBoundIs
<1> QED BY <1>4 DEF new, PoolBound, PooledConnections, KeptConnections

\* An acquisition keeps the bound, since the missing connections are counted before one is
\* opened and the primary one is not missing.
LEMMA PooledObtain ==
  ASSUME TypeOK, ConnInv, FiniteInv, SizeInv, mIsOpen,
         NEW a, NEW b, NEW c \in Conn, Obtain(a, b, c), UNCHANGED <<configVars, leakVars>>
  PROVE  PoolBound' /\ \E d \in PooledConnections' : conn'[d].primary
<1>0. /\ PlaceInv /\ PoolBound
      /\ UNCHANGED <<mConfiguration, collected>> /\ MaxConnectionPoolSize' = MaxConnectionPoolSize
  BY DEF ConnInv, SizeInv, configVars, leakVars, MaxConnectionPoolSize
<1>1. mAcquiredConnections[c] = "NONE" /\ mAcquiredConnections' = [mAcquiredConnections EXCEPT ![c] = "NORMAL"]
  BY <1>0, ObtainConn
<1>2. KeptConnections' = KeptConnections \cup {c}
  BY <1>1 DEF KeptConnections, Acquired, TypeOK
<1>3. PICK p \in PooledConnections : conn[p].primary
  BY DEF SizeInv
<1>4. p \in Conn /\ (p \in Acquired \/ p = mAvailablePrimaryConnection)
  BY <1>0, <1>3 DEF PooledConnections, KeptConnections, Acquired, Available, PlaceInv, TypeOK
<1>5. ~ExpandPrimary
  BY <1>3, <1>4, PoolAssumption DEF ExpandPrimary
<1>6. CASE /\ c \in Available
           /\ Available' = Available \ {c}
           /\ UNCHANGED conn
  <2>1. PooledConnections' = PooledConnections
    BY <1>2, <1>6 DEF PooledConnections
  <2> QED BY <1>0, <1>3, <1>6, <2>1, PooledShrinks
<1>7. CASE /\ ExpandNonPrimary /\ Fresh(c)
           /\ conn' = [conn EXCEPT ![c] = OpenConn(FALSE, mConfiguration)]
           /\ UNCHANGED <<mAvailablePrimaryConnection, mAvailableNonPrimaryConnections>>
  <2>1. Available' = Available /\ PooledConnections' = PooledConnections \cup {c}
    BY <1>2, <1>7 DEF PooledConnections, Available
  <2>2. PooledConnections \subseteq Acquired \cup ({mAvailablePrimaryConnection} \ {NoConn})
    BY <1>7 DEF PooledConnections, KeptConnections, Available, ExpandNonPrimary
  <2>3. Cardinality(PooledConnections) <= OpenConnections /\ OpenConnections \in Nat
    <3>1. CASE mAvailablePrimaryConnection = NoConn
      <4>1. PooledConnections \subseteq Acquired
        BY <2>2, <3>1
      <4> QED BY <3>1, <4>1, FS_Subset, OpenConnectionsType DEF FiniteInv
    <3>2. CASE mAvailablePrimaryConnection # NoConn
      <4>1. PooledConnections \subseteq Acquired \cup {mAvailablePrimaryConnection}
        BY <2>2
      <4>2. mAvailablePrimaryConnection \notin Acquired
        BY <1>0, <3>2 DEF PlaceInv, Acquired
      <4>3. /\ IsFiniteSet(Acquired \cup {mAvailablePrimaryConnection})
            /\ Cardinality(Acquired \cup {mAvailablePrimaryConnection}) = Cardinality(Acquired) + 1
        BY <4>2, FS_AddElement DEF FiniteInv
      <4>4. Cardinality(PooledConnections) <= Cardinality(Acquired) + 1
        BY <4>1, <4>3, FS_Subset
      <4> QED BY <3>2, <4>4, OpenConnectionsType
    <3> QED BY <3>1, <3>2
  <2>4. /\ Cardinality(PooledConnections \cup {c}) <= Cardinality(PooledConnections) + 1
        /\ Cardinality(PooledConnections \cup {c}) \in Nat /\ Cardinality(PooledConnections) \in Nat
    <3>1. IsFiniteSet(PooledConnections) /\ Cardinality(PooledConnections) \in Nat
      BY PooledFinite
    <3>2. IsFiniteSet(PooledConnections \cup {c})
      BY <3>1, FS_AddElement
    <3>3. \/ Cardinality(PooledConnections \cup {c}) = Cardinality(PooledConnections)
          \/ Cardinality(PooledConnections \cup {c}) = Cardinality(PooledConnections) + 1
      BY <3>1, FS_AddElement
    <3> QED BY <3>1, <3>3
  <2>5. OpenConnections < MaxConnectionPoolSize
    BY <1>7 DEF ExpandNonPrimary
  <2>6. Cardinality(PooledConnections \cup {c}) <= MaxConnectionPoolSize
    BY <2>3, <2>4, <2>5, PoolSizeType
  <2>7. PoolBound'
    BY <1>0, <2>1, <2>6 DEF PoolBound, PooledConnections, KeptConnections
  <2>8. p # c
    <3>1. c # mAvailablePrimaryConnection /\ c \notin Acquired
      BY <1>0, <1>1, <1>7, PoolAssumption DEF Fresh, Unused, PlaceInv, Acquired
    <3> QED BY <1>4, <3>1
  <2>9. p \in PooledConnections' /\ conn'[p].primary
    BY <1>3, <1>4, <1>7, <2>1, <2>8 DEF TypeOK
  <2> QED BY <2>7, <2>9
<1>8. CASE /\ c \in mAvailableNonPrimaryConnections
           /\ mAvailableNonPrimaryConnections' = mAvailableNonPrimaryConnections \ {c}
           /\ UNCHANGED <<conn, mAvailablePrimaryConnection>>
  <2>1. c # mAvailablePrimaryConnection
    BY <1>0, <1>8, PoolAssumption DEF PlaceInv, TypeOK
  <2>2. c \in Available /\ Available' = Available \ {c}
    BY <1>8, <2>1 DEF Available
  <2> QED BY <1>6, <1>8, <2>2
<1>9. CASE /\ c # NoConn /\ c = mAvailablePrimaryConnection
           /\ mAvailablePrimaryConnection' = NoConn
           /\ UNCHANGED <<conn, mAvailableNonPrimaryConnections>>
  <2>1. c \notin mAvailableNonPrimaryConnections
    BY <1>0, <1>9 DEF PlaceInv
  <2>2. c \in Available /\ Available' = Available \ {c}
    BY <1>9, <2>1 DEF Available
  <2> QED BY <1>6, <1>9, <2>2
<1> QED BY <1>5, <1>7, <1>8, <1>9, ObtainCases

\* A release puts back what counted already, and it closes no primary connection of an open pool
\* that nothing replaces.
LEMMA PooledRelease ==
  ASSUME NoFaults, TypeOK, ThreadInv, OwnerInv, ConnInv, FiniteInv, SizeInv,
         NEW t \in Thread, ReleaseConnection(t)
  PROVE  PoolBound' /\ (mIsOpen => \E d \in PooledConnections' : conn'[d].primary)
<1> DEFINE c == held[t]
<1>0. /\ PlaceInv /\ PoolBound /\ c \in Conn
      /\ UNCHANGED <<mConfiguration, mIsOpen>> /\ MaxConnectionPoolSize' = MaxConnectionPoolSize
      /\ mAcquiredConnections' = [mAcquiredConnections EXCEPT ![c] = "NONE"]
  BY DEF ConnInv, SizeInv, ReleaseConnection, ThreadInv, configVars, MaxConnectionPoolSize
<1>1. c \in Acquired
  BY <1>0 DEF OwnerInv, Owns, Acquired
<1> HIDE DEF c
<1>2. KeptConnections' = KeptConnections \ {c}
  BY <1>0 DEF KeptConnections, Acquired, TypeOK
<1>3. c \notin Available
  BY <1>0, <1>1 DEF PlaceInv, Acquired, Available
<1>4. CASE ReleaseClosing(t)
  <2>1. Available' = Available /\ conn' = CloseAll({c}) /\ (mIsOpen => ~conn[c].primary)
    BY <1>4 DEF ReleaseClosing, Available, c
  <2>2. PooledConnections' \subseteq PooledConnections
    BY <1>2, <2>1 DEF PooledConnections
  <2>3. ASSUME mIsOpen PROVE \E d \in PooledConnections' : conn'[d].primary
    <3>1. PICK p \in PooledConnections : conn[p].primary
      BY <2>3 DEF SizeInv
    <3>2. p # c /\ p \in PooledConnections' /\ p \in Conn
      BY <1>2, <2>1, <2>3, <3>1 DEF PooledConnections, KeptConnections, Acquired, Available, TypeOK
    <3> QED BY <2>1, <3>1, <3>2 DEF CloseAll
  <2> QED BY <1>0, <2>2, <2>3, PooledShrinks
<1>5. CASE ReleaseRecycling(t)
  <2>1. PICK keep \in BOOLEAN :
          /\ recycleConnectionLocked(c, keep)
          /\ mAvailablePrimaryConnection' =
               IF keep /\ conn[c].primary THEN c ELSE mAvailablePrimaryConnection
          /\ mAvailableNonPrimaryConnections' = mAvailableNonPrimaryConnections
               \cup (IF keep /\ ~conn[c].primary THEN {c} ELSE {})
    BY <1>5 DEF ReleaseRecycling, c
  <2>2. c \in KeptConnections => keep
    BY <1>1, <2>1 DEF recycleConnectionLocked, KeptConnections, NoFaults
  <2>3. keep => c \in KeptConnections
    BY <1>1, <2>1 DEF recycleConnectionLocked, KeptConnections
  <2>4. /\ keep /\ conn[c].primary => mAvailablePrimaryConnection = NoConn
        /\ mIsOpen
    BY <1>1, <1>5, <2>3 DEF ConnInv, ReleasePrimaryFindsSlot, KeptConnections, ReleaseRecycling
  <2>5. Available' = IF keep THEN Available \cup {c} ELSE Available
    BY <1>0, <2>1, <2>4, PoolAssumption DEF Available
  <2>6. PooledConnections' = PooledConnections
    BY <1>2, <2>2, <2>3, <2>5 DEF PooledConnections
  <2>7. PICK p \in PooledConnections : conn[p].primary
    BY <2>4 DEF SizeInv
  <2>8. p \in Conn
    BY <2>7 DEF PooledConnections, KeptConnections, Acquired, Available, TypeOK
  <2>9. conn'[p].primary
    <3>1. CASE p # c
      BY <2>1, <2>7, <2>8, <3>1 DEF recycleConnectionLocked, TypeOK
    <3>2. CASE p = c
      <4>1. keep
        BY <1>3, <2>2, <2>7, <3>2 DEF PooledConnections
      <4>2. conn' = [conn EXCEPT ![c] = [conn[c] EXCEPT !.config = RecycledConfig(c)]]
        BY <2>1, <4>1 DEF recycleConnectionLocked
      <4>3. conn[c] \in ConnRecord
        BY <1>0 DEF TypeOK
      <4>4. conn'[c].primary = conn[c].primary
        BY <1>0, <4>2, <4>3 DEF TypeOK, ConnRecord
      <4> QED BY <2>7, <3>2, <4>4
    <3> QED BY <3>1, <3>2
  <2>10. \E d \in PooledConnections' : conn'[d].primary
    BY <2>6, <2>7, <2>9
  <2> QED BY <1>0, <2>6, <2>10, PooledShrinks
<1> QED BY <1>4, <1>5 DEF ReleaseConnection

\* A reconfiguration starts the pool anew with one primary connection, or drops surplus ones.
LEMMA PooledReconfigure ==
  ASSUME NoFaults, TypeOK, ConnInv, FiniteInv, SizeInv, NEW config \in Configs, reconfigure(config)
  PROVE  PoolBound' /\ (mIsOpen' => \E d \in PooledConnections' : conn'[d].primary)
<1>0. ~ReconfigureReopenFails(config) /\ PlaceInv /\ PoolBound /\ TypeOK'
  BY ReconfigureType DEF NoFaults, ReconfigureReopenFails, ConnInv, SizeInv
<1>1. CASE ReconfigureReopen(config)
  <2>1. PICK p \in Conn : /\ Fresh(p)
                          /\ conn' = [CloseAll(Available) EXCEPT ![p] = OpenConn(TRUE, config)]
                          /\ mAvailablePrimaryConnection' = p
    BY <1>1 DEF ReconfigureReopen
  <2>2. KeptConnections' = {}
    BY <1>1 DEF ReconfigureReopen, KeptConnections, Acquired, MarkAcquired, TypeOK, Statuses
  <2>3. Available' = {p}
    BY <1>1, <2>1, PoolAssumption DEF ReconfigureReopen, Available
  <2>4. PooledConnections' = {p}
    BY <2>2, <2>3 DEF PooledConnections
  <2>5. conn'[p].primary
    BY <2>1 DEF CloseAll, OpenConn
  <2>6. MaxConnectionPoolSize' \in Nat /\ MaxConnectionPoolSize' >= 1
    BY PoolAssumption DEF MaxConnectionPoolSize
  <2>7. Cardinality(PooledConnections') <= MaxConnectionPoolSize'
    BY <2>4, <2>6, FS_Singleton
  <2>8. PoolBound'
    BY <2>7 DEF PoolBound, PooledConnections, KeptConnections
  <2> QED BY <2>4, <2>5, <2>8
<1>2. CASE ReconfigureInPlace(config)
  <2>1. PICK excess, bad \in SUBSET Available :
          /\ excess \subseteq mAvailableNonPrimaryConnections
          /\ bad # {} => "reconfigureFails" \in Env
          /\ conn' = [c \in Conn |->
                        IF c \in excess \cup bad THEN ClosedConn
                        ELSE IF c \in Available THEN [conn[c] EXCEPT !.config = config]
                        ELSE conn[c]]
          /\ mAvailablePrimaryConnection' =
               IF mAvailablePrimaryConnection \in bad THEN NoConn
                                                      ELSE mAvailablePrimaryConnection
          /\ mAvailableNonPrimaryConnections' =
               mAvailableNonPrimaryConnections \ (excess \cup bad)
    BY <1>2 DEF ReconfigureInPlace
  <2>2. bad = {}
    BY <2>1 DEF NoFaults
  <2>3. /\ mAvailablePrimaryConnection' = mAvailablePrimaryConnection
        /\ mAvailableNonPrimaryConnections' = mAvailableNonPrimaryConnections \ excess
        /\ mIsOpen /\ MaxConnectionPoolSize' = MaxConnectionPoolSize
        /\ mAcquiredConnections' = MarkAcquired("RECONFIGURE")
    BY <1>2, <2>1, <2>2 DEF ReconfigureInPlace, MaxConnectionPoolSize
  <2>4. KeptConnections' = KeptConnections
    BY <2>3 DEF KeptConnections, Acquired, MarkAcquired, TypeOK, Statuses
  <2>5. Available' \subseteq Available
    BY <2>3 DEF Available
  <2>6. PoolBound'
    BY <1>0, <2>3, <2>4, <2>5, PooledShrinks DEF PooledConnections
  <2>7. PICK p \in PooledConnections : conn[p].primary
    BY <2>3 DEF SizeInv
  <2>8. p \in Conn /\ p \notin mAvailableNonPrimaryConnections
    BY <1>0, <2>7 DEF PooledConnections, KeptConnections, Acquired, Available, TypeOK, PlaceInv
  <2>9. p \in PooledConnections'
    BY <2>3, <2>4, <2>7, <2>8 DEF PooledConnections, Available
  <2>10. conn'[p].primary
    <3>1. conn[p] \in ConnRecord /\ p \notin excess \cup bad
      BY <2>1, <2>2, <2>8 DEF TypeOK
    <3>2. conn'[p] = [conn[p] EXCEPT !.config = config] \/ conn'[p] = conn[p]
      BY <2>1, <2>8, <3>1
    <3> QED BY <2>7, <3>1, <3>2 DEF ConnRecord
  <2> QED BY <2>6, <2>9, <2>10
<1> QED BY <1>0, <1>1, <1>2 DEF reconfigure

\* Steps that open, close and move no connection.
LEMMA PooledFrame ==
  ASSUME SizeInv, UNCHANGED <<configVars, connVars>>
  PROVE  PoolBound' /\ (mIsOpen' => \E d \in PooledConnections' : conn'[d].primary)
<1>1. UNCHANGED <<mIsOpen, mConfiguration, mAvailablePrimaryConnection,
                  mAvailableNonPrimaryConnections, mAcquiredConnections, conn>>
  BY DEF configVars, connVars
<1>2. /\ PooledConnections' = PooledConnections /\ MaxConnectionPoolSize' = MaxConnectionPoolSize
  BY <1>1 DEF PooledConnections, KeptConnections, Available, Acquired, MaxConnectionPoolSize
<1>3. PoolBound
  BY DEF SizeInv
<1>4. PoolBound'
  BY <1>1, <1>3 DEF PoolBound, Available, Acquired, MaxConnectionPoolSize
<1> QED BY <1>1, <1>2, <1>4 DEF SizeInv

\* Every step keeps the pool within its size and an open pool its primary connection.
LEMMA PooledStep ==
  ASSUME NoFaults, IInv, FiniteInv, SizeInv, Next
  PROVE  PoolBound' /\ (mIsOpen' => \E d \in PooledConnections' : conn'[d].primary)
<1> DEFINE Bounded == PoolBound' /\ (mIsOpen' => \E d \in PooledConnections' : conn'[d].primary)
<1>0. TypeOK /\ ThreadInv /\ OwnerInv /\ ConnInv /\ PlaceInv /\ PoolBound
  BY DEF IInv, ConnInv, SizeInv
<1>1. ASSUME UNCHANGED <<configVars, connVars>> PROVE Bounded
  BY <1>1, PooledFrame
<1>2. ASSUME NEW c \in Conn, WakeAssign(c) PROVE Bounded
  BY <1>0, <1>2, PooledObtain DEF WakeAssign
<1>3. ASSUME NEW t \in Thread, NEW r \in Requests, AcquireNow(t, r) PROVE Bounded
  <2> DEFINE a == ~r.wantPrimary
             b == TRUE
  <2>1. PICK c \in Conn : Obtain(a, b, c)
    BY <1>3 DEF AcquireNow
  <2>2. UNCHANGED <<configVars, leakVars>> /\ mIsOpen
    BY <1>3 DEF AcquireNow
  <2> HIDE DEF a, b
  <2> QED BY <1>0, <2>1, <2>2, PooledObtain
<1>4. ASSUME NEW t \in Thread, ReleaseConnection(t) PROVE Bounded
  BY <1>0, <1>4, PooledRelease DEF ReleaseConnection, configVars
<1>5. ASSUME NEW config \in Configs, reconfigure(config) PROVE Bounded
  BY <1>0, <1>5, PooledReconfigure
<1>6. ASSUME ClosePool PROVE Bounded
  <2>1. ~mIsOpen' /\ Available' = {} /\ MaxConnectionPoolSize' = MaxConnectionPoolSize
        /\ UNCHANGED mAcquiredConnections
    BY <1>6 DEF ClosePool, Available, MaxConnectionPoolSize
  <2>2. PooledConnections' \subseteq PooledConnections
    BY <2>1 DEF PooledConnections, KeptConnections, Acquired
  <2> QED BY <1>0, <2>1, <2>2, PooledShrinks
<1>7. ASSUME NEW c \in Conn, Collect(c) PROVE Bounded
  <2>1. ~mIsOpen
    BY <1>7 DEF Collect, SizeInv, AcquiredConnectionsOwned
  <2>2. UNCHANGED <<mIsOpen, mConfiguration, mAvailablePrimaryConnection, mAvailableNonPrimaryConnections>>
        /\ mAcquiredConnections' = [mAcquiredConnections EXCEPT ![c] = "NONE"]
    BY <1>7 DEF Collect, configVars
  <2>3. PooledConnections' \subseteq PooledConnections
    BY <1>0, <2>2 DEF PooledConnections, KeptConnections, Acquired, Available, TypeOK
  <2>4. MaxConnectionPoolSize' = MaxConnectionPoolSize
    BY <2>2 DEF MaxConnectionPoolSize
  <2> QED BY <1>0, <2>1, <2>2, <2>3, <2>4, PooledShrinks
<1>8. ASSUME NEW c \in Conn, FinalizeConnection(c) PROVE Bounded
  <2>1. UNCHANGED <<mIsOpen, mConfiguration, mAvailablePrimaryConnection, mAvailableNonPrimaryConnections,
                    mAcquiredConnections>>
        /\ c \in collected /\ conn' = CloseAll({c})
    BY <1>8 DEF FinalizeConnection, configVars
  <2>2. PooledConnections' = PooledConnections
    BY <2>1 DEF PooledConnections, KeptConnections, Acquired, Available
  <2>3. MaxConnectionPoolSize' = MaxConnectionPoolSize
    BY <2>1 DEF MaxConnectionPoolSize
  <2>4. \A d \in PooledConnections : d # c /\ d \in Conn
    BY <1>0, <2>1 DEF PooledConnections, KeptConnections, Acquired, Available, TypeOK, PlaceInv
  <2>5. \A d \in PooledConnections : conn'[d] = conn[d]
    BY <2>1, <2>4 DEF CloseAll
  <2>6. PoolBound'
    BY <1>0, <2>2, <2>3, PooledShrinks
  <2> QED BY <2>1, <2>2, <2>5, <2>6 DEF SizeInv
<1>9. ASSUME WakeClosed \/ WakeThrow \/ WakeSkip \/ WakeEnd PROVE Bounded
  BY <1>1, <1>9 DEF WakeClosed, WakeThrow, WakeSkip, WakeEnd, ObtainThrows, ObtainNothing, poolVars
<1>10. ASSUME NEW t \in Thread, NEW r \in Requests, AcquireThrows(t, r) \/ Enqueue(t, r) PROVE Bounded
  BY <1>1, <1>10 DEF AcquireThrows, Enqueue, ObtainThrows, ObtainNothing
<1>11. ASSUME NEW t \in Thread, WaitStep(t) PROVE Bounded
  BY <1>1, <1>11 DEF WaitStep, SetListener, CheckLeaked, Recover, Park, ParkTimeout, ParkInterrupted, Check,
                     CheckClosed, CheckDone, CheckAgain, RemoveListener, poolVars
<1>12. ASSUME NEW t \in Thread, Leak(t) \/ Cancel(t) \/ OnCancel(t) PROVE Bounded
  BY <1>1, <1>12 DEF Leak, Cancel, OnCancel, poolVars
<1> HIDE DEF Bounded
<1>13. ASSUME NEW t \in Thread, ThreadStep(t) PROVE Bounded
  BY <1>3, <1>4, <1>10, <1>11, <1>12, <1>13 DEF ThreadStep, acquireConnection
<1>14. Bounded
  BY <1>2, <1>5, <1>6, <1>7, <1>8, <1>9, <1>13 DEF Next, WakeConnectionWaiters
<1> QED BY <1>14 DEF Bounded

\* Connections stay owned when no owner gives one up.
LEMMA OwnedFrame ==
  ASSUME SizeInv, mIsOpen' => mIsOpen, Acquired' \subseteq Acquired,
         \A c \in Acquired' : Referenced(c) => Referenced(c)'
  PROVE  mIsOpen' => AcquiredConnectionsOwned'
BY DEF SizeInv, AcquiredConnectionsOwned

\* A thread keeps what it holds and what was assigned to its waiter.
LEMMA ReferencesKept ==
  ASSUME NEW c, UNCHANGED held,
         \A u \in Thread : Waiting(u) => /\ Waiting(u)'
                                         /\ waiter'[waitOf'[u]].assigned = waiter[waitOf[u]].assigned
  PROVE  Referenced(c) => Referenced(c)'
BY DEF Referenced

\* While the pool is open, every step leaves every acquired connection with an owner.
LEMMA OwnedStep ==
  ASSUME NoFaults, IInv, SizeInv, Next
  PROVE  mIsOpen' => AcquiredConnectionsOwned'
<1> DEFINE Owned == mIsOpen' => AcquiredConnectionsOwned'
           Kept == \A u \in Thread :
                     Waiting(u) => /\ Waiting(u)'
                                   /\ waiter'[waitOf'[u]].assigned = waiter[waitOf[u]].assigned
<1>0. TypeOK /\ ThreadInv /\ WaiterInv /\ OwnerInv /\ ConnInv
  BY DEF IInv, ConnInv
<1>a. \A u \in Thread : Waiting(u) => waitOf[u] \in Waiter /\ waiter[waitOf[u]] \in WaiterRecord
  BY <1>0 DEF ThreadInv, TypeOK
<1>1. ASSUME UNCHANGED held, Kept, mIsOpen' => mIsOpen, Acquired' \subseteq Acquired
      PROVE  Owned
  BY <1>1, OwnedFrame, ReferencesKept
<1>2. ASSUME UNCHANGED <<mIsOpen, mAcquiredConnections>>
      PROVE  (mIsOpen' => mIsOpen) /\ Acquired' \subseteq Acquired
  BY <1>2 DEF Acquired
<1>3. ASSUME UNCHANGED <<waiter, pc, waitOf>> PROVE Kept
  BY <1>3 DEF Waiting
<1>4. ASSUME NEW t, OnCancelOf(t), UNCHANGED waitOf, \A u \in Thread : Waiting(u) => Waiting(u)'
      PROVE  Kept
  <2>1. CASE UNCHANGED waiter
    BY <1>4, <2>1
  <2>2. CASE ~UNCHANGED waiter
    <3>1. waiter' = [waiter EXCEPT ![waitOf[t]].exception = "canceled"] /\ waitOf[t] \in Waiter
      BY <1>0, <1>4, <2>2, QueuedType DEF OnCancelOf, cancelConnectionWaiterLocked, waiterVars
    <3>2. \A w \in Waiter : waiter[w] \in WaiterRecord => waiter'[w].assigned = waiter[w].assigned
      BY <1>0, <3>1 DEF WaiterRecord, TypeOK
    <3> QED BY <1>a, <1>4, <3>2
  <2> QED BY <2>1, <2>2
<1>5. ASSUME NEW c \in Conn, WakeAssign(c) PROVE Owned
  <2>1. /\ Current \in Waiter /\ Current \in Queued
        /\ UNCHANGED <<mIsOpen, held, pc, waitOf>>
        /\ waiter' = [waiter EXCEPT ![Current].assigned = c]
    BY <1>0, <1>5, Dismissed DEF WakeAssign, configVars
  <2>2. Acquired' = Acquired \cup {c}
    BY <1>0, <1>5, ObtainAcquired DEF WakeAssign, configVars, leakVars
  <2> DEFINE o == waiter[Current].thread
  <2>3. o \in Thread /\ Waiting(o) /\ waitOf[o] = Current /\ waiter[Current].assigned = NoConn
    BY <1>0, <2>1 DEF WaiterInv
  <2> HIDE DEF o
  <2>4. waiter'[Current].assigned = c
    BY <1>0, <2>1 DEF TypeOK, WaiterRecord
  <2>5. Referenced(c)'
    BY <2>1, <2>3, <2>4 DEF Referenced, Waiting
  <2>6. ASSUME NEW d \in Acquired, Referenced(d) PROVE Referenced(d)'
    <3>1. PICK u \in Thread : held[u] = d \/ (Waiting(u) /\ waiter[waitOf[u]].assigned = d)
      BY <2>6 DEF Referenced
    <3>2. CASE held[u] = d
      BY <2>1, <3>2 DEF Referenced
    <3>3. CASE Waiting(u) /\ waiter[waitOf[u]].assigned = d
      <4>1. waitOf[u] # Current
        BY <2>3, <2>6, <3>3, PoolAssumption DEF Acquired
      <4>2. waiter'[waitOf[u]] = waiter[waitOf[u]]
        BY <1>0, <1>a, <2>1, <3>3, <4>1 DEF TypeOK
      <4> QED BY <2>1, <3>3, <4>2 DEF Referenced, Waiting
    <3> QED BY <3>1, <3>2, <3>3
  <2> QED BY <2>1, <2>2, <2>5, <2>6 DEF SizeInv, AcquiredConnectionsOwned
<1>6. ASSUME NEW t \in Thread, NEW r \in Requests, AcquireNow(t, r) PROVE Owned
  <2> DEFINE a == ~r.wantPrimary
             b == TRUE
  <2>1. PICK c \in Conn : Obtain(a, b, c) /\ held' = [held EXCEPT ![t] = c]
    BY <1>6 DEF AcquireNow
  <2>2. UNCHANGED <<mIsOpen, waiter, waitOf, mConfiguration, collected>> /\ pc[t] = "idle"
        /\ pc' = [pc EXCEPT ![t] = "holding"]
    BY <1>6 DEF AcquireNow, configVars, leakVars, waiterVars
  <2> HIDE DEF a, b
  <2>3. Acquired' = Acquired \cup {c}
    BY <1>0, <2>1, <2>2, ObtainAcquired
  <2>4. held[t] = NoConn /\ ~Waiting(t) /\ held'[t] = c
    BY <1>0, <2>1, <2>2 DEF ThreadInv, Waiting, WaitingPcs, TypeOK
  <2>5. \A u \in Thread \ {t} : held'[u] = held[u] /\ (Waiting(u)' <=> Waiting(u))
    BY <1>0, <2>1, <2>2 DEF TypeOK, Waiting
  <2>6. \A d \in Acquired : Referenced(d) => Referenced(d)'
    BY <2>2, <2>4, <2>5, PoolAssumption DEF Referenced, Acquired
  <2>7. Referenced(c)'
    BY <2>4 DEF Referenced
  <2> QED BY <2>2, <2>3, <2>6, <2>7 DEF SizeInv, AcquiredConnectionsOwned
<1>7. ASSUME NEW t \in Thread, NEW r \in Requests, Enqueue(t, r) PROVE Owned
  <2>1. UNCHANGED <<held, mIsOpen, mAcquiredConnections>> /\ pc' = [pc EXCEPT ![t] = "arming"] /\ pc[t] = "idle"
    BY <1>7 DEF Enqueue, ObtainNothing, configVars, connVars
  <2>2. PICK w \in Waiter : /\ \A u \in Thread : Waiting(u) => waitOf[u] # w
                            /\ waiter' = [waiter EXCEPT ![w] = waiter'[w]]
                            /\ waitOf' = [waitOf EXCEPT ![t] = w]
    BY <1>0, <1>7, Enqueued
  <2>3. ASSUME NEW u \in Thread, Waiting(u)
        PROVE  /\ Waiting(u)'
               /\ waiter'[waitOf'[u]].assigned = waiter[waitOf[u]].assigned
    <3>1. u # t
      BY <2>1, <2>3 DEF Waiting, WaitingPcs
    <3>2. waitOf'[u] = waitOf[u] /\ Waiting(u)'
      BY <1>0, <2>1, <2>2, <2>3, <3>1 DEF Waiting, TypeOK
    <3>3. waiter'[waitOf[u]] = waiter[waitOf[u]]
      BY <1>0, <1>a, <2>2, <2>3 DEF TypeOK
    <3> QED BY <3>2, <3>3
  <2> QED BY <1>1, <1>2, <2>1, <2>3
<1>8. ASSUME NEW t \in Thread, SetListener(t) \/ OnCancel(t) PROVE Owned
  <2>1. UNCHANGED <<held, mIsOpen, mAcquiredConnections, waitOf>>
    BY <1>8 DEF SetListener, OnCancel, poolVars, configVars, connVars
  <2>2. \A u \in Thread : Waiting(u) => Waiting(u)'
    BY <1>0, <1>8 DEF SetListener, OnCancel, Waiting, WaitingPcs, TypeOK
  <2>3. UNCHANGED waiter \/ OnCancelOf(t)
    BY <1>8 DEF SetListener, OnCancel, waiterVars
  <2>4. Kept
    BY <1>4, <2>1, <2>2, <2>3
  <2> QED BY <1>1, <1>2, <2>1, <2>4
<1>9. ASSUME NEW t \in Thread, \/ CheckLeaked(t) \/ Recover(t) \/ Park(t) \/ ParkTimeout(t)
                               \/ ParkInterrupted(t) \/ CheckAgain(t) \/ RemoveListener(t) \/ Cancel(t)
      PROVE  Owned
  <2>1. UNCHANGED <<held, mIsOpen, mAcquiredConnections, waiter>>
    BY <1>9 DEF CheckLeaked, Recover, Park, ParkTimeout, ParkInterrupted, CheckAgain, RemoveListener,
                Cancel, localVars, poolVars, configVars, connVars, waiterVars
  <2>2. \A u \in Thread : Waiting(u) => Waiting(u)' /\ waitOf'[u] = waitOf[u]
    <3>1. CASE RemoveListener(t)
      BY <1>0, <3>1 DEF RemoveListener, Waiting, WaitingPcs, TypeOK
    <3>2. CASE ~RemoveListener(t)
      BY <1>0, <1>9, <3>2 DEF CheckLeaked, Recover, Park, ParkTimeout, ParkInterrupted, CheckAgain,
                  Cancel, localVars, Waiting, WaitingPcs, TypeOK
    <3> QED BY <3>1, <3>2
  <2> QED BY <1>1, <1>2, <2>1, <2>2
<1>10. ASSUME NEW t \in Thread, CheckClosed(t) PROVE Owned
  BY <1>10 DEF CheckClosed, poolVars, configVars
<1>11. ASSUME NEW t \in Thread, CheckDone(t) PROVE Owned
  <2> DEFINE w == waitOf[t]
  <2>1. /\ UNCHANGED <<mIsOpen, mAcquiredConnections, waitOf>>
        /\ held' = [held EXCEPT ![t] = waiter[w].assigned]
        /\ waiter' = [waiter EXCEPT ![w] = BlankWaiter]
        /\ pc' = [pc EXCEPT ![t] = "leaving"] /\ Waiting(t)
    BY <1>11 DEF CheckDone, recycleConnectionWaiterLocked, Recycled, poolVars, configVars, connVars,
                 Waiting, WaitingPcs
  <2>2. held[t] = NoConn
    BY <1>0, <1>11 DEF CheckDone, ThreadInv
  <2>3. ASSUME NEW d \in Acquired, Referenced(d) PROVE Referenced(d)'
    <3>1. PICK u \in Thread : held[u] = d \/ (Waiting(u) /\ waiter[waitOf[u]].assigned = d)
      BY <2>3 DEF Referenced
    <3>2. d # NoConn
      BY PoolAssumption DEF Acquired
    <3>3. CASE held[u] = d
      <4>1. held'[u] = d
        BY <1>0, <2>1, <2>2, <3>2, <3>3 DEF TypeOK
      <4> QED BY <4>1 DEF Referenced
    <3>4. CASE u = t /\ waiter[w].assigned = d
      <4>1. held'[t] = d
        BY <1>0, <2>1, <3>4 DEF TypeOK
      <4> QED BY <4>1 DEF Referenced
    <3>5. CASE u # t /\ Waiting(u) /\ waiter[waitOf[u]].assigned = d
      <4>1. waitOf[u] # w
        BY <1>0, <2>1, <3>5 DEF WaiterInv
      <4>2. waiter'[waitOf[u]] = waiter[waitOf[u]] /\ Waiting(u)'
        BY <1>0, <1>a, <2>1, <3>5, <4>1 DEF TypeOK, Waiting
      <4> QED BY <2>1, <3>5, <4>2 DEF Referenced
    <3> QED BY <3>1, <3>3, <3>4, <3>5
  <2>4. Acquired' = Acquired
    BY <2>1 DEF Acquired
  <2> QED BY <2>1, <2>3, <2>4, OwnedFrame

<1>12. ASSUME NEW t \in Thread, ReleaseConnection(t) PROVE Owned
  <2> DEFINE c == held[t]
  <2>1. /\ UNCHANGED <<mIsOpen, waiter, waitOf>> /\ c \in Conn
        /\ held' = [held EXCEPT ![t] = NoConn]
        /\ mAcquiredConnections' = [mAcquiredConnections EXCEPT ![c] = "NONE"]
        /\ pc[t] = "holding" /\ pc' = [pc EXCEPT ![t] = "idle"]
    BY <1>0, <1>12 DEF ReleaseConnection, configVars, waiterVars, ThreadInv
  <2>2. Acquired' = Acquired \ {c}
    BY <1>0, <2>1 DEF Acquired, TypeOK
  <2>3. ~Waiting(t)
    BY <2>1 DEF Waiting, WaitingPcs
  <2>4. \A u \in Thread \ {t} : held'[u] = held[u] /\ (Waiting(u)' <=> Waiting(u))
    BY <1>0, <2>1 DEF TypeOK, Waiting
  <2>5. \A d \in Acquired \ {c} : Referenced(d) => Referenced(d)'
    BY <2>1, <2>3, <2>4 DEF Referenced
  <2> QED BY <2>1, <2>2, <2>5, OwnedFrame
<1>13. ASSUME NEW c \in Conn, Collect(c) \/ FinalizeConnection(c) PROVE Owned
  <2>1. UNCHANGED <<mIsOpen, held, waiter, pc, waitOf>>
    BY <1>13 DEF Collect, FinalizeConnection, configVars, waiterVars, threadVars, localVars
  <2>2. Acquired' \subseteq Acquired
    BY <1>0, <1>13 DEF Collect, FinalizeConnection, Acquired, TypeOK
  <2> QED BY <1>1, <1>3, <2>1, <2>2
<1>14. ASSUME NEW config \in Configs, reconfigure(config) PROVE Owned
  <2>1. UNCHANGED <<mIsOpen, held, waiter, pc, waitOf>>
    BY <1>14 DEF reconfigure, ReconfigureReopen, ReconfigureReopenFails, ReconfigureInPlace, configVars,
                 waiterVars, threadVars, localVars
  <2>2. Acquired' = Acquired
    BY <1>14 DEF reconfigure, ReconfigureReopen, ReconfigureReopenFails, ReconfigureInPlace, Acquired,
                 MarkAcquired
  <2> QED BY <1>1, <1>3, <2>1, <2>2
<1>15. ASSUME ClosePool PROVE Owned
  BY <1>15 DEF ClosePool
<1>16. ASSUME WakeClosed \/ WakeSkip \/ WakeEnd PROVE Owned
  <2>1. UNCHANGED <<mIsOpen, mAcquiredConnections, held, waiter, pc, waitOf>>
    BY <1>16 DEF WakeClosed, WakeSkip, WakeEnd, ObtainNothing, poolVars, configVars, connVars,
                 waiterVars, threadVars, localVars
  <2> QED BY <1>1, <1>2, <1>3, <2>1
<1>17. ASSUME NEW t \in Thread, NEW r \in Requests, AcquireThrows(t, r) PROVE Owned
  BY <1>17 DEF AcquireThrows, ObtainThrows, NoFaults
<1>18. ~WakeThrow /\ \A t \in Thread : ~Leak(t)
  BY DEF WakeThrow, ObtainThrows, Leak, NoFaults
<1> HIDE DEF Owned
<1>19. ASSUME NEW t \in Thread, ThreadStep(t) PROVE Owned
  <2>1. CASE WaitStep(t)
    BY <1>8, <1>9, <1>10, <1>11, <2>1 DEF WaitStep, Check
  <2>2. CASE acquireConnection(t)
    BY <1>6, <1>7, <1>17, <2>2 DEF acquireConnection
  <2> QED BY <1>8, <1>9, <1>12, <1>18, <1>19, <2>1, <2>2 DEF ThreadStep
<1>20. Owned
  BY <1>5, <1>13, <1>14, <1>15, <1>16, <1>18, <1>19 DEF Next, WakeConnectionWaiters
<1> QED BY <1>20 DEF Owned

\* A new pool has one connection, the primary one.
LEMMA SizeInit == Init => SizeInv
<1> SUFFICES ASSUME Init PROVE SizeInv
  OBVIOUS
<1>1. mAvailablePrimaryConnection \in Conn
  BY PoolAssumption DEF Init
<1>2. Acquired = {} /\ Available = {mAvailablePrimaryConnection}
  BY <1>1, PoolAssumption DEF Init, Acquired, Available
<1>3. PooledConnections = {mAvailablePrimaryConnection}
  BY <1>2 DEF PooledConnections, KeptConnections
<1>4. PoolBound
  BY <1>3, FS_Singleton, PoolSizeType, PoolBoundIs
<1>5. conn[mAvailablePrimaryConnection].primary
  BY <1>1 DEF Init, OpenConn
<1> QED BY <1>2, <1>3, <1>4, <1>5 DEF SizeInv, AcquiredConnectionsOwned

\* As long as nothing fails to open or to be reconfigured and nothing is leaked, the connections
\* that the pool keeps are never more than mMaxConnectionPoolSize, through every interleaving of
\* callers, the wake-up loop, reconfigurations that change the size, and close.
THEOREM PoolBounded ==
  ASSUME NoFaults
  PROVE  Spec => []PoolBound
<1>1. IInv /\ ServeInv /\ SizeInv /\ [Next]_vars => SizeInv'
  <2> SUFFICES ASSUME IInv, ServeInv, SizeInv, [Next]_vars PROVE SizeInv'
    OBVIOUS
  <2>1. CASE Next
    BY <2>1, PooledStep, OwnedStep DEF SizeInv, ServeInv
  <2>2. CASE UNCHANGED vars
    <3>1. UNCHANGED <<configVars, connVars>>
          /\ UNCHANGED <<mIsOpen, mAcquiredConnections, held, pc, waitOf, waiter>>
      BY <2>2 DEF vars, poolVars, configVars, connVars, waiterVars, threadVars, localVars
    <3>2. PoolBound' /\ (mIsOpen' => \E d \in PooledConnections' : conn'[d].primary)
      BY <3>1, PooledFrame
    <3>3. mIsOpen' => AcquiredConnectionsOwned'
      BY <3>1, OwnedFrame, ReferencesKept DEF Acquired, Waiting
    <3> QED BY <3>2, <3>3 DEF SizeInv
  <2> QED BY <2>1, <2>2
<1>2. SizeInv => PoolBound
  BY DEF SizeInv
<1> QED BY <1>1, <1>2, SizeInit, Invariance, ServeInvariant, PTL DEF Spec

=============================================================================
