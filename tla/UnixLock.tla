------------------------------ MODULE UnixLock ------------------------------
(* The lock on a database file as os_unix.c builds it from POSIX advisory     *)
(* locks.  These belong to a process, not to a descriptor: a process is never *)
(* refused a lock because of its own, and closing any descriptor of the file  *)
(* drops all that the process holds.  The connections of a process therefore  *)
(* share a record of their locks, under a mutex.  The system calls of         *)
(* different processes interleave: each is one step.                          *)
EXTENDS Integers, FiniteSets

CONSTANTS
  File,     \* connections: unixFile objects for one database file
  Process,  \* operating system processes
  Home,     \* File -> the process it belongs to
  Patient,  \* connections that retry from PENDING until they succeed
  Mortal    \* processes that may be killed

ASSUME UnixLockAssumption ==
  /\ Home \in [File -> Process]
  /\ Patient \subseteq File
  /\ Mortal \subseteq Process

VARIABLES
  file,   \* File -> its unixFile object and the progress of its call
  inode,  \* Process -> its unixInodeInfo for the database file
  fcntl   \* Process -> byte range -> the lock the kernel has given it

vars == <<file, inode, fcntl>>

NO_LOCK   == 0
SHARED    == 1
RESERVED  == 2
PENDING   == 3
EXCLUSIVE == 4

Bytes == {"pending", "reserved", "shared"}

\* Steps of a call that are taken with the process's mutex held.
InMutex == {"pendingByte", "sharedRange", "dropPending", "dropBusy", "writeLock",
            "downgrade", "clearPending", "release"}

ClosedFile == [pc |-> "closed", eFileLock |-> NO_LOCK, arg |-> NO_LOCK, closing |-> FALSE]

\* The record of a process; with nRef = 0 it stands for no record at all.
NoInode == [nRef |-> 0, nShared |-> 0, nLock |-> 0, eFileLock |-> NO_LOCK, nUnused |-> 0]

Unlocked == [b \in Bytes |-> "none"]

FilesOf(p)   == {f \in File : Home[f] = p}
MutexFree(p) == \A f \in FilesOf(p) : file[f].pc \notin InMutex
Info(f)      == inode[Home[f]]
At(f, pc)    == file[f].pc = pc

SetFile(f, v)     == file' = [file EXCEPT ![f] = v]
SetInode(f, v)    == inode' = [inode EXCEPT ![Home[f]] = v]
Goto(f, pc, l)    == SetFile(f, [file[f] EXCEPT !.pc = pc, !.arg = l])
Return(f, l)      == SetFile(f, [file[f] EXCEPT !.pc = "idle", !.arg = NO_LOCK,
                                                !.eFileLock = l])

-----------------------------------------------------------------------------
(* The kernel, as osFcntl(F_SETLK) and close() show it.                       *)

CanLock(p, b, type) ==
  \A q \in Process \ {p} :
    IF type = "read" THEN fcntl[q][b] # "write" ELSE fcntl[q][b] = "none"

SetLock(p, b, type) == fcntl' = [fcntl EXCEPT ![p][b] = type]

\* A descriptor of the file is closed.
DropAll(p) == fcntl' = [fcntl EXCEPT ![p] = Unlocked]

\* Mutant of CheckReservedLock: the connections of the process are forgotten.
CheckOtherProcesses(f) == ~CanLock(Home[f], "reserved", "write")

\* unixCheckReservedLock: a writer in this process, or F_GETLK finds another.
CheckReservedLock(f) ==
  \/ Info(f).eFileLock > SHARED
  \/ ~CanLock(Home[f], "reserved", "write")

-----------------------------------------------------------------------------
(* Opening.                                                                   *)

\* findReusableFd, or a new descriptor.
Open(f) ==
  /\ At(f, "closed")
  /\ MutexFree(Home[f])
  /\ SetFile(f, [ClosedFile EXCEPT !.pc = "opening"])
  /\ IF Info(f).nUnused > 0
     THEN SetInode(f, [Info(f) EXCEPT !.nUnused = @ - 1])
     ELSE UNCHANGED inode
  /\ UNCHANGED fcntl

\* findInodeInfo
FindInodeInfo(f) ==
  /\ At(f, "opening")
  /\ MutexFree(Home[f])
  /\ SetFile(f, [ClosedFile EXCEPT !.pc = "idle"])
  /\ SetInode(f, [Info(f) EXCEPT !.nRef = @ + 1])
  /\ UNCHANGED fcntl

\* There is no record yet and no memory for one: the descriptor is closed.
OpenFails(f) ==
  /\ At(f, "opening")
  /\ MutexFree(Home[f])
  /\ Info(f).nRef = 0
  /\ SetFile(f, ClosedFile)
  /\ DropAll(Home[f])
  /\ UNCHANGED inode

-----------------------------------------------------------------------------
(* unixLock.  A call that returns SQLITE_BUSY at once is no step.             *)

\* What the pager asks for, by the assertions at the top of unixLock.
Requests(l) == CASE l = NO_LOCK  -> {SHARED}
                 [] l = SHARED   -> {RESERVED, EXCLUSIVE}
                 [] l = RESERVED -> {EXCLUSIVE}
                 [] l = PENDING  -> {EXCLUSIVE}
                 [] OTHER        -> {}

\* Another connection of the process has a lock that precludes this one.
PrecludedInProcess(f, l) ==
  /\ file[f].eFileLock # Info(f).eFileLock
  /\ Info(f).eFileLock >= PENDING \/ l > SHARED

ProcessShares(f, l) == l = SHARED /\ Info(f).eFileLock \in {SHARED, RESERVED}

\* Mutant of Counted: the second reader of the process is not counted.
Uncounted(i) == i

Counted(i) == [i EXCEPT !.nShared = @ + 1, !.nLock = @ + 1]

\* The process has a read-lock already: the connection is counted.
LockCounted(f) ==
  /\ At(f, "idle")
  /\ MutexFree(Home[f])
  /\ SHARED \in Requests(file[f].eFileLock)
  /\ ~PrecludedInProcess(f, SHARED)
  /\ ProcessShares(f, SHARED)
  /\ Return(f, SHARED)
  /\ SetInode(f, Counted(Info(f)))
  /\ UNCHANGED fcntl

LockEnter(f, l) ==
  /\ At(f, "idle")
  /\ MutexFree(Home[f])
  /\ l \in Requests(file[f].eFileLock)
  /\ ~PrecludedInProcess(f, l)
  /\ ~ProcessShares(f, l)
  /\ Goto(f, IF l = SHARED \/ (l = EXCLUSIVE /\ file[f].eFileLock < PENDING)
             THEN "pendingByte" ELSE "writeLock", l)
  /\ UNCHANGED <<inode, fcntl>>

PendingByte(f) ==
  /\ At(f, "pendingByte")
  /\ LET l    == file[f].arg
         type == IF l = SHARED THEN "read" ELSE "write"
     IN IF CanLock(Home[f], "pending", type)
        THEN /\ SetLock(Home[f], "pending", type)
             /\ Goto(f, IF l = SHARED THEN "sharedRange" ELSE "writeLock", l)
        ELSE /\ Return(f, file[f].eFileLock)
             /\ UNCHANGED fcntl
  /\ UNCHANGED inode

SharedRange(f) ==
  /\ At(f, "sharedRange")
  /\ IF CanLock(Home[f], "shared", "read")
     THEN SetLock(Home[f], "shared", "read") /\ Goto(f, "dropPending", SHARED)
     ELSE UNCHANGED fcntl /\ Goto(f, "dropBusy", SHARED)
  /\ UNCHANGED inode

\* The temporary lock on the pending byte is dropped.
DropPending(f) ==
  /\ \/ /\ At(f, "dropPending")
        /\ Return(f, SHARED)
        /\ SetInode(f, [Info(f) EXCEPT !.nLock = @ + 1, !.nShared = 1,
                                       !.eFileLock = SHARED])
     \/ /\ At(f, "dropBusy")
        /\ Return(f, NO_LOCK)
        /\ UNCHANGED inode
  /\ SetLock(Home[f], "pending", "none")

\* Mutant of Failed: the pending byte is given back.
FailedGivesUp(f, l) ==
  /\ Return(f, PENDING)
  /\ SetInode(f, [Info(f) EXCEPT !.eFileLock = PENDING])
  /\ SetLock(Home[f], "pending", "none")

\* A refused request for EXCLUSIVE leaves the connection PENDING.
Failed(f, l) ==
  /\ IF l = EXCLUSIVE
     THEN /\ Return(f, PENDING)
          /\ SetInode(f, [Info(f) EXCEPT !.eFileLock = PENDING])
     ELSE /\ Return(f, file[f].eFileLock)
          /\ UNCHANGED inode
  /\ UNCHANGED fcntl

\* Mutant of SharedWithin: the other connections of the process are forgotten.
SharedByNone(f) == FALSE

\* Another connection of the same process still reads.
SharedWithin(f) == Info(f).nShared > 1

WriteLock(f) ==
  /\ At(f, "writeLock")
  /\ LET l == file[f].arg
         b == IF l = RESERVED THEN "reserved" ELSE "shared"
     IN IF ~(l = EXCLUSIVE /\ SharedWithin(f)) /\ CanLock(Home[f], b, "write")
        THEN /\ SetLock(Home[f], b, "write")
             /\ Return(f, l)
             /\ SetInode(f, [Info(f) EXCEPT !.eFileLock = l])
        ELSE Failed(f, l)

-----------------------------------------------------------------------------
(* posixUnlock and unixClose.                                                 *)

MayUnlock(f) ==
  /\ At(f, "idle")
  /\ MutexFree(Home[f])
  /\ ~(f \in Patient /\ file[f].eFileLock = PENDING)

UnlockEnter(f, l, closing) ==
  /\ MayUnlock(f)
  /\ file[f].eFileLock > l
  /\ SetFile(f, [file[f] EXCEPT
       !.pc = IF file[f].eFileLock <= SHARED THEN "release"
              ELSE IF l = SHARED THEN "downgrade" ELSE "clearPending",
       !.arg = l, !.closing = closing])
  /\ UNCHANGED <<inode, fcntl>>

\* The write-lock on the shared range becomes a read-lock again.
Downgrade(f) ==
  /\ At(f, "downgrade")
  /\ SetLock(Home[f], "shared", "read")
  /\ Goto(f, "clearPending", SHARED)
  /\ UNCHANGED inode

ClearPending(f) ==
  /\ At(f, "clearPending")
  /\ fcntl' = [fcntl EXCEPT ![Home[f]].pending = "none", ![Home[f]].reserved = "none"]
  /\ SetInode(f, [Info(f) EXCEPT !.eFileLock = SHARED])
  /\ IF file[f].arg = SHARED THEN Return(f, SHARED) ELSE Goto(f, "release", NO_LOCK)

\* Mutant of ClosePendingFds: the list is not emptied.
KeepPendingFds(i) == i

\* closePendingFds: the deferred closes are made up for.
ClosePendingFds(i) == [i EXCEPT !.nUnused = 0]

\* The last reader of the process unlocks the file; the deferred descriptors
\* are closed with the last lock.
Release(f) ==
  /\ At(f, "release")
  /\ LET i    == [Info(f) EXCEPT !.nShared = @ - 1, !.nLock = @ - 1]
         last == i.nShared = 0
         left == [i EXCEPT !.eFileLock = IF last THEN NO_LOCK ELSE @]
     IN /\ SetInode(f, IF left.nLock = 0 THEN ClosePendingFds(left) ELSE left)
        /\ IF last \/ (left.nLock = 0 /\ left.nUnused > 0)
           THEN DropAll(Home[f]) ELSE UNCHANGED fcntl
  /\ SetFile(f, [file[f] EXCEPT !.eFileLock = NO_LOCK,
                                !.pc = IF file[f].closing THEN "close" ELSE "idle"])

CloseUnlocked(f) ==
  /\ MayUnlock(f)
  /\ file[f].eFileLock = NO_LOCK
  /\ SetFile(f, [file[f] EXCEPT !.pc = "close"])
  /\ UNCHANGED <<inode, fcntl>>

\* Mutant of MustDefer: the locks of this connection alone are considered.
NeverDefer(f) == FALSE

MustDefer(f) == Info(f).nLock > 0

\* setPendingFd, releaseInodeInfo, closeUnixFile.
Close(f) ==
  /\ At(f, "close")
  /\ MutexFree(Home[f])
  /\ LET i   == [Info(f) EXCEPT !.nRef = @ - 1,
                                !.nUnused = IF MustDefer(f) THEN @ + 1 ELSE @]
     IN /\ SetInode(f, IF i.nRef = 0 THEN NoInode ELSE i)
        /\ IF ~MustDefer(f) \/ (i.nRef = 0 /\ i.nUnused > 0)
           THEN DropAll(Home[f]) ELSE UNCHANGED fcntl
  /\ SetFile(f, ClosedFile)

\* The process ends, and the kernel drops its locks.
Kill(p) ==
  /\ p \in Mortal
  /\ \E f \in FilesOf(p) : ~At(f, "closed")
  /\ file' = [f \in File |-> IF Home[f] = p THEN ClosedFile ELSE file[f]]
  /\ inode' = [inode EXCEPT ![p] = NoInode]
  /\ DropAll(p)

-----------------------------------------------------------------------------
Init ==
  /\ file = [f \in File |-> ClosedFile]
  /\ inode = [p \in Process |-> NoInode]
  /\ fcntl = [p \in Process |-> Unlocked]

\* The rest of a call that holds the mutex.
Continue(f) ==
  \/ PendingByte(f) \/ SharedRange(f) \/ DropPending(f) \/ WriteLock(f)
  \/ Downgrade(f) \/ ClearPending(f) \/ Release(f)

Next ==
  \/ \E f \in File :
       \/ Open(f) \/ FindInodeInfo(f) \/ OpenFails(f)
       \/ LockCounted(f) \/ Continue(f)
       \/ CloseUnlocked(f) \/ Close(f)
       \/ \E l \in {SHARED, RESERVED, EXCLUSIVE} : LockEnter(f, l)
       \/ UnlockEnter(f, SHARED, FALSE)
       \/ \E closing \in BOOLEAN : UnlockEnter(f, NO_LOCK, closing)
  \/ \E p \in Process : Kill(p)

Spec == Init /\ [][Next]_vars

\* A call that has the mutex goes on.  Every transaction ends: its connection
\* gives up its lock, and gets the mutex for that, which is only ever held for
\* a few system calls.  A patient connection that is PENDING asks again.
Fairness ==
  \A f \in File :
    /\ WF_vars(Continue(f))
    /\ SF_vars(UnlockEnter(f, NO_LOCK, FALSE))
    /\ SF_vars(f \in Patient /\ file[f].eFileLock = PENDING /\ LockEnter(f, EXCLUSIVE))

LiveSpec == Spec /\ Fairness

-----------------------------------------------------------------------------
(* Properties.                                                                *)

TypeOK ==
  /\ file \in [File -> [pc : InMutex \cup {"closed", "opening", "idle", "close"},
                        eFileLock : NO_LOCK..EXCLUSIVE, arg : NO_LOCK..EXCLUSIVE,
                        closing : BOOLEAN]]
  /\ inode \in [Process -> [nRef : Nat, nShared : Nat, nLock : Nat,
                            eFileLock : NO_LOCK..EXCLUSIVE, nUnused : Nat]]
  /\ fcntl \in [Process -> [Bytes -> {"none", "read", "write"}]]

Level(p) == {file[f].eFileLock : f \in FilesOf(p)}

\* What a process must have locked for the levels its connections believe in.
Needed(p) ==
  [b \in Bytes |->
    CASE b = "shared"   -> IF EXCLUSIVE \in Level(p) THEN "write"
                           ELSE IF Level(p) \subseteq {NO_LOCK} THEN "none" ELSE "read"
      [] b = "pending"  -> IF Level(p) \cap {PENDING, EXCLUSIVE} # {} THEN "write" ELSE "none"
      [] b = "reserved" -> IF RESERVED \in Level(p) THEN "write" ELSE fcntl[p][b]]

\* Between two calls of a process the kernel's locks are exactly the ones that
\* its connections believe they hold: no lock was lost because another
\* connection of the process unlocked or closed the same file, and none is
\* left behind that keeps others out for ever (the deferred close in
\* unixClose, the counters nShared and nLock).
LocksHeld ==
  \A p \in Process : MutexFree(p) =>
    /\ fcntl[p] = Needed(p)
    /\ fcntl[p].reserved = "write" => Level(p) \cap {RESERVED, PENDING, EXCLUSIVE} # {}

\* A descriptor whose close was deferred is closed with the last lock: it never
\* outlives the locks it was kept for.
DeferredClose ==
  \A p \in Process : inode[p].nUnused > 0 =>
    \E f \in FilesOf(p) : file[f].eFileLock > NO_LOCK

\* A reader that looks for a hot journal sees a writer that is at work,
\* wherever it is: a journal is never rolled back under a live transaction.
ReservedSeen ==
  \A f, g \in File :
    (At(f, "idle") /\ At(g, "idle") /\ file[g].eFileLock = RESERVED) => CheckReservedLock(f)

\* The tokens that a connection may rely on: those of its level, or those it
\* keeps while it gives up a level.
Held(f) ==
  LET giving == file[f].pc \in {"downgrade", "clearPending", "release"}
      level  == IF giving THEN file[f].arg ELSE file[f].eFileLock
  IN (IF level >= SHARED THEN {"S"} ELSE {})
     \cup (IF level >= RESERVED /\ fcntl[Home[f]].reserved = "write" THEN {"R"} ELSE {})
     \cup (IF level >= PENDING THEN {"P"} ELSE {})
     \cup (IF level = EXCLUSIVE THEN {"X"} ELSE {})

\* The locks that unixLock and posixUnlock build implement the abstract lock.
Abstract == INSTANCE FileLock WITH held <- [f \in File |-> Held(f)]
ImplementsFileLock == Abstract!Spec

\* The other processes each stop reading now and then.  This is not a matter of fairness:
\* LockCounted lets the connections of one process take turns, so that the process never
\* unlocks, and each of them ends all its transactions nevertheless.
OthersPause(f) == \A p \in Process \ {Home[f]} : []<>(inode[p].nShared = 0)

\* A process that has stopped reading stays out for as long as a writer is pending: the writer
\* gets its lock, unless it is killed, although the others want to read again at once (the
\* pending byte in unixLock, which is kept when the lock is refused).
PendingWins ==
  \A f \in Patient :
    OthersPause(f) => (file[f].eFileLock = PENDING ~> file[f].eFileLock = EXCLUSIVE \/ At(f, "closed"))
=============================================================================
