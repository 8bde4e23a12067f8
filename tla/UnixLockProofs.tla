--------------------------- MODULE UnixLockProofs ---------------------------
(* Theorems about UnixLock, for every set of connections and processes: the  *)
(* record that a process keeps of its locks is exact, and what unixLock and  *)
(* posixUnlock make of the kernel's locks is the lock of FileLock.           *)
EXTENDS UnixLock, FiniteSetTheorems, TLAPS

FileRecord  == [pc : InMutex \cup {"closed", "opening", "idle", "close"},
                eFileLock : NO_LOCK..EXCLUSIVE, arg : NO_LOCK..EXCLUSIVE, closing : BOOLEAN]
InodeRecord == [nRef : Nat, nShared : Nat, nLock : Nat,
                eFileLock : NO_LOCK..EXCLUSIVE, nUnused : Nat]
Modes       == {"none", "read", "write"}

-----------------------------------------------------------------------------
(* The inductive invariant: one conjunct for what unixFile, unixInodeInfo    *)
(* and the kernel each know of a process, one for the kernel between them.   *)

\* The mutex: one call of a process at a time is between two system calls.
MutexInv(p) ==
  \A f, g \in FilesOf(p) : file[f].pc \in InMutex /\ file[g].pc \in InMutex => f = g

\* What a call works with at each of its steps: the level that it starts from is
\* that of the process, and the one it aims at follows from where it is.
CallInv(f) ==
  LET pc == file[f].pc  l == file[f].arg  level == file[f].eFileLock IN
  /\ pc \in {"closed", "opening", "close"} => level = NO_LOCK
  /\ pc \in {"pendingByte", "sharedRange", "dropPending", "dropBusy", "writeLock"}
       => level = Info(f).eFileLock
  /\ pc = "pendingByte" => \/ l = SHARED /\ level = NO_LOCK
                           \/ l = EXCLUSIVE /\ level \in {SHARED, RESERVED}
  /\ pc \in {"sharedRange", "dropPending", "dropBusy"} => level = NO_LOCK
  /\ pc = "writeLock" => \/ l = RESERVED /\ level = SHARED
                         \/ l = EXCLUSIVE /\ level \in {SHARED, RESERVED, PENDING}
  /\ pc \in {"downgrade", "clearPending"} => level > SHARED
  /\ pc = "downgrade" => l = SHARED
  /\ pc = "clearPending" => l \in {NO_LOCK, SHARED}
  /\ pc = "release" => level > NO_LOCK /\ l = NO_LOCK

Sharers(p) == {f \in FilesOf(p) : file[f].eFileLock # NO_LOCK}
Users(p)   == {f \in FilesOf(p) : file[f].pc \notin {"closed", "opening"}}

\* The counters of the record: connections with a lock, connections at all.
CountInv(p) ==
  /\ IsFiniteSet(Sharers(p)) /\ inode[p].nShared = Cardinality(Sharers(p))
  /\ inode[p].nLock = inode[p].nShared
  /\ IsFiniteSet(Users(p)) /\ inode[p].nRef = Cardinality(Users(p))
  /\ inode[p].nUnused > 0 => inode[p].nLock > 0

\* The level of the process is that of its highest connection.  One connection at
\* most is above SHARED, and one that is EXCLUSIVE is alone.
LevelInv(p) ==
  /\ inode[p].eFileLock = NO_LOCK => Sharers(p) = {}
  /\ inode[p].eFileLock # NO_LOCK =>
       \E f \in FilesOf(p) : file[f].eFileLock >= inode[p].eFileLock
  /\ \A f \in FilesOf(p) : file[f].eFileLock > SHARED =>
       /\ inode[p].eFileLock = IF At(f, "release") THEN SHARED ELSE file[f].eFileLock
       /\ \A g \in FilesOf(p) : file[g].eFileLock > SHARED => f = g
       /\ file[f].eFileLock = EXCLUSIVE => Sharers(p) = {f}

\* The bytes that the kernel has locked when no system call is outstanding.
Settled(p) ==
  LET e == inode[p].eFileLock IN
  /\ fcntl[p]["shared"] = IF e = EXCLUSIVE THEN "write" ELSE IF e = NO_LOCK THEN "none" ELSE "read"
  /\ fcntl[p]["pending"] = IF e >= PENDING THEN "write" ELSE "none"
  /\ fcntl[p]["reserved"] # "read"
  /\ e = RESERVED => fcntl[p]["reserved"] = "write"
  /\ e < RESERVED => fcntl[p]["reserved"] = "none"

\* And in the middle of each call.
KernelInv(f) ==
  LET pc == file[f].pc  l == file[f].arg  level == file[f].eFileLock  k == fcntl[Home[f]] IN
  /\ pc \in {"pendingByte", "downgrade"} => Settled(Home[f])
  /\ pc \in {"sharedRange", "dropBusy", "dropPending"} =>
       /\ k["pending"] = "read"
       /\ k["shared"] = IF pc = "dropPending" THEN "read" ELSE "none"
       /\ k["reserved"] = "none"
  /\ pc = "writeLock" /\ l = RESERVED => Settled(Home[f])
  /\ pc = "writeLock" /\ l = EXCLUSIVE =>
       /\ k["pending"] = "write"
       /\ k["shared"] = "read"
       /\ k["reserved"] # "read"
       /\ level = RESERVED => k["reserved"] = "write"
       /\ level = SHARED => k["reserved"] = "none"
  /\ pc = "clearPending" =>
       k["shared"] = IF l = NO_LOCK /\ level = EXCLUSIVE THEN "write" ELSE "read"
  /\ pc = "release" /\ level = SHARED => Settled(Home[f])
  /\ pc = "release" /\ level > SHARED =>
       /\ k["shared"] = IF level = EXCLUSIVE THEN "write" ELSE "read"
       /\ k["pending"] = "none"
       /\ k["reserved"] = "none"

ProcessInv(p) ==
  /\ MutexInv(p) /\ CountInv(p) /\ LevelInv(p)
  /\ MutexFree(p) => Settled(p)
  /\ \A f \in FilesOf(p) : CallInv(f) /\ KernelInv(f)

\* The kernel never grants locks of two processes that conflict.
Compatible ==
  \A p, q \in Process : \A b \in Bytes :
    p # q /\ fcntl[p][b] = "write" => fcntl[q][b] = "none"

IInv == TypeOK /\ (\A p \in Process : ProcessInv(p)) /\ Compatible

-----------------------------------------------------------------------------
(* What a step of one connection changes.                                    *)

\* A connection has one process; the connections of another do not include it.
LEMMA HomeFacts ==
  ASSUME NEW f \in File
  PROVE  /\ Home[f] \in Process /\ f \in FilesOf(Home[f])
         /\ \A q \in Process : q # Home[f] => f \notin FilesOf(q)
         /\ \A q \in Process : FilesOf(q) \subseteq File
BY UnixLockAssumption DEF FilesOf

\* What a connection counts for in the two counters.
Shares(v) == IF v.eFileLock # NO_LOCK THEN 1 ELSE 0
Uses(v)   == IF v.pc \notin {"closed", "opening"} THEN 1 ELSE 0

\* The counters are the sizes of the sets, and zero only for an empty one.
LEMMA CountFacts ==
  ASSUME NEW p, CountInv(p)
  PROVE  /\ inode[p].nShared \in Nat /\ inode[p].nLock = inode[p].nShared /\ inode[p].nRef \in Nat
         /\ inode[p].nShared = 0 <=> Sharers(p) = {}
         /\ inode[p].nRef = 0 <=> Users(p) = {}
BY FS_CardinalityType, FS_EmptySet DEF CountInv

\* Who locks and who uses the file after one connection has changed, and how many.
LEMMA Counts ==
  ASSUME NEW f \in File, NEW v \in FileRecord,
         file \in [File -> FileRecord], file' = [file EXCEPT ![f] = v],
         CountInv(Home[f])
  PROVE  /\ Sharers(Home[f])' = IF v.eFileLock # NO_LOCK THEN Sharers(Home[f]) \cup {f}
                                                        ELSE Sharers(Home[f]) \ {f}
         /\ IsFiniteSet(Sharers(Home[f])') /\ IsFiniteSet(Users(Home[f])')
         /\ Cardinality(Sharers(Home[f])') = inode[Home[f]].nShared + Shares(v) - Shares(file[f])
         /\ Cardinality(Users(Home[f])') = inode[Home[f]].nRef + Uses(v) - Uses(file[f])
<1> DEFINE p == Home[f]
<1>1. p \in Process /\ f \in FilesOf(p) /\ FilesOf(p) \subseteq File
  BY HomeFacts
<1>2. file'[f] = v /\ \A g \in FilesOf(p) : g # f => file'[g] = file[g]
  BY <1>1
<1>3. /\ Sharers(p)' = {g \in FilesOf(p) : file'[g].eFileLock # NO_LOCK}
      /\ Users(p)' = {g \in FilesOf(p) : file'[g].pc \notin {"closed", "opening"}}
  BY DEF Sharers, Users, FilesOf
<1>4. Sharers(p)' = IF v.eFileLock # NO_LOCK THEN Sharers(p) \cup {f} ELSE Sharers(p) \ {f}
  BY <1>1, <1>2, <1>3 DEF Sharers
<1>5. /\ Uses(v) = 1 => Users(p)' = Users(p) \cup {f}
      /\ Uses(v) = 0 => Users(p)' = Users(p) \ {f}
  BY <1>1, <1>2, <1>3 DEF Users, Uses
<1>6. /\ Shares(file[f]) = IF f \in Sharers(p) THEN 1 ELSE 0
      /\ Uses(file[f]) = IF f \in Users(p) THEN 1 ELSE 0
  BY <1>1 DEF Sharers, Users, Shares, Uses
<1>7. /\ IsFiniteSet(Sharers(p)) /\ Cardinality(Sharers(p)) = inode[p].nShared
      /\ IsFiniteSet(Users(p)) /\ Cardinality(Users(p)) = inode[p].nRef
      /\ inode[p].nShared \in Nat /\ inode[p].nRef \in Nat
  BY CountFacts DEF CountInv
<1> HIDE DEF p
<1>8. ASSUME NEW S, IsFiniteSet(S), NEW n \in Nat, Cardinality(S) = n
      PROVE  /\ IsFiniteSet(S \cup {f}) /\ IsFiniteSet(S \ {f})
             /\ f \in S => Cardinality(S \cup {f}) = n /\ Cardinality(S \ {f}) = n - 1
             /\ f \notin S => Cardinality(S \cup {f}) = n + 1 /\ Cardinality(S \ {f}) = n
  <2>1. IsFiniteSet(S \cup {f}) /\ Cardinality(S \cup {f}) = IF f \in S THEN n ELSE n + 1
    BY <1>8, FS_AddElement
  <2>2. IsFiniteSet(S \ {f}) /\ Cardinality(S \ {f}) = IF f \in S THEN n - 1 ELSE n
    BY <1>8, FS_RemoveElement
  <2> QED BY <2>1, <2>2
<1>9. /\ IsFiniteSet(Sharers(p)')
      /\ Cardinality(Sharers(p)') = inode[p].nShared + Shares(v) - Shares(file[f])
  <2>1. /\ IsFiniteSet(Sharers(p) \cup {f}) /\ IsFiniteSet(Sharers(p) \ {f})
        /\ Cardinality(Sharers(p) \cup {f}) = inode[p].nShared + 1 - Shares(file[f])
        /\ Cardinality(Sharers(p) \ {f}) = inode[p].nShared - Shares(file[f])
    BY <1>6, <1>7, <1>8
  <2>2. Shares(v) = (IF v.eFileLock # NO_LOCK THEN 1 ELSE 0) /\ Shares(file[f]) \in {0, 1}
    BY DEF Shares
  <2> QED BY <1>4, <1>7, <2>1, <2>2
<1>10. /\ IsFiniteSet(Users(p)')
       /\ Cardinality(Users(p)') = inode[p].nRef + Uses(v) - Uses(file[f])
  <2> DEFINE U == Users(p)  n == inode[p].nRef
  <2>0. IsFiniteSet(U) /\ Cardinality(U) = n /\ n \in Nat
        /\ Uses(file[f]) = IF f \in U THEN 1 ELSE 0
    BY <1>6, <1>7
  <2> HIDE DEF U, n
  <2>1. /\ IsFiniteSet(U \cup {f}) /\ IsFiniteSet(U \ {f})
        /\ Cardinality(U \cup {f}) = n + 1 - Uses(file[f])
        /\ Cardinality(U \ {f}) = n - Uses(file[f])
    BY <1>8, <2>0
  <2>2. Uses(v) \in {0, 1} /\ Uses(file[f]) \in {0, 1}
    BY DEF Uses
  <2>3. CASE Uses(v) = 1
    <3>1. Users(p)' = U \cup {f}
      BY <1>5, <2>3 DEF U
    <3> QED BY <2>1, <2>3, <3>1 DEF n
  <2>4. CASE Uses(v) = 0
    <3>1. Users(p)' = U \ {f}
      BY <1>5, <2>4 DEF U
    <3>2. n + 0 - Uses(file[f]) = n - Uses(file[f])
      BY <2>0, <2>2
    <3> QED BY <2>1, <2>4, <3>1, <3>2 DEF n
  <2> QED BY <2>2, <2>3, <2>4
<1> QED BY <1>4, <1>9, <1>10 DEF p

\* A process of which a step changes nothing keeps its invariant.
LEMMA OtherProcess ==
  ASSUME NEW q \in Process, ProcessInv(q),
         \A g \in FilesOf(q) : file'[g] = file[g],
         inode'[q] = inode[q], fcntl'[q] = fcntl[q]
  PROVE  ProcessInv(q)'
<1>1. FilesOf(q)' = FilesOf(q) /\ \A g \in FilesOf(q) : Home[g] = q
  BY DEF FilesOf
<1>2. MutexInv(q)'
  BY <1>1 DEF ProcessInv, MutexInv
<1>3. \A g \in FilesOf(q) : CallInv(g)'
  BY <1>1 DEF ProcessInv, CallInv, Info
<1>4. Sharers(q)' = Sharers(q) /\ Users(q)' = Users(q)
  BY <1>1 DEF Sharers, Users
<1>5. CountInv(q)'
  BY <1>4 DEF ProcessInv, CountInv
<1>6. LevelInv(q)'
  BY <1>1, <1>4 DEF ProcessInv, LevelInv, At
<1>7. (Settled(q)' <=> Settled(q)) /\ (MutexFree(q)' <=> MutexFree(q))
  BY <1>1 DEF Settled, MutexFree
<1>8. \A g \in FilesOf(q) : KernelInv(g)'
  BY <1>1, <1>7 DEF ProcessInv, KernelInv
<1> QED BY <1>1, <1>2, <1>3, <1>5, <1>6, <1>7, <1>8 DEF ProcessInv

\* A connection acts with the mutex: then no other of its process is in a call, and
\* the mutex is free again when it leaves.
LEMMA Mutex ==
  ASSUME IInv, NEW f \in File, NEW v \in FileRecord, file' = [file EXCEPT ![f] = v],
         MutexFree(Home[f]) \/ file[f].pc \in InMutex
  PROVE  LET p == Home[f]
         IN /\ MutexInv(p)'
            /\ \A g \in FilesOf(p) : g # f => file'[g] = file[g] /\ file[g].pc \notin InMutex
            /\ file'[f] = v
            /\ MutexFree(p)' <=> v.pc \notin InMutex
<1> DEFINE p == Home[f]
<1>1. /\ p \in Process /\ f \in FilesOf(p) /\ FilesOf(p) \subseteq File
      /\ FilesOf(p)' = FilesOf(p)
  BY HomeFacts DEF FilesOf
<1>2. file \in [File -> FileRecord] /\ MutexInv(p)
  BY <1>1 DEF IInv, TypeOK, FileRecord, ProcessInv
<1>3. file'[f] = v /\ \A g \in FilesOf(p) : g # f => file'[g] = file[g]
  BY <1>1, <1>2
<1>4. \A g \in FilesOf(p) : g # f => file[g].pc \notin InMutex
  BY <1>1, <1>2 DEF MutexInv, MutexFree
<1>5. MutexInv(p)'
  BY <1>1, <1>3, <1>4 DEF MutexInv
<1>6. MutexFree(p)' <=> v.pc \notin InMutex
  BY <1>1, <1>3, <1>4 DEF MutexFree
<1> QED BY <1>3, <1>4, <1>5, <1>6

\* What a process may be granted: a lock that no other process has one against.
Granted(p, k) ==
  \A q \in Process : \A b \in Bytes :
    q # p => /\ k[b] = "write" => fcntl[q][b] = "none"
             /\ k[b] # "none" => fcntl[q][b] # "write"

\* A step of one connection with the mutex keeps the invariant if it keeps what is said
\* of that connection and of the record of its process.
LEMMA LocalStep ==
  ASSUME IInv, NEW f \in File, NEW v \in FileRecord, NEW i \in InodeRecord,
         NEW k \in [Bytes -> Modes],
         file' = [file EXCEPT ![f] = v],
         inode' = [inode EXCEPT ![Home[f]] = i],
         fcntl' = [fcntl EXCEPT ![Home[f]] = k],
         MutexFree(Home[f]) \/ file[f].pc \in InMutex,
         Granted(Home[f], k),
         CallInv(f)', KernelInv(f)', CountInv(Home[f])', LevelInv(Home[f])',
         v.pc \notin InMutex => Settled(Home[f])'
  PROVE  IInv'
<1> DEFINE p == Home[f]
<1>1. /\ p \in Process /\ f \in FilesOf(p)
      /\ \A q \in Process : FilesOf(q) \subseteq File /\ FilesOf(q)' = FilesOf(q)
      /\ \A q \in Process : q # p => f \notin FilesOf(q)
  BY HomeFacts DEF FilesOf
<1>2. /\ file \in [File -> FileRecord] /\ inode \in [Process -> InodeRecord]
      /\ fcntl \in [Process -> [Bytes -> Modes]]
  BY DEF IInv, TypeOK, FileRecord, InodeRecord, Modes
<1>3. TypeOK'
  BY <1>2 DEF TypeOK, FileRecord, InodeRecord, Modes
<1>4. ASSUME NEW q \in Process, q # p PROVE ProcessInv(q)'
  <2>1. /\ \A g \in FilesOf(q) : file'[g] = file[g]
        /\ inode'[q] = inode[q] /\ fcntl'[q] = fcntl[q]
    BY <1>1, <1>2, <1>4
  <2> QED BY <2>1, OtherProcess DEF IInv
<1>5. /\ MutexInv(p)'
      /\ \A g \in FilesOf(p) : g # f => file'[g] = file[g] /\ file[g].pc \notin InMutex
      /\ file'[f] = v
      /\ MutexFree(p)' <=> v.pc \notin InMutex
  BY Mutex
<1>6. ASSUME NEW g \in FilesOf(p), g # f PROVE CallInv(g)' /\ KernelInv(g)'
  <2>1. file'[g] = file[g] /\ file[g].pc \notin InMutex /\ CallInv(g)
    BY <1>1, <1>5, <1>6 DEF IInv, ProcessInv
  <2>2. CallInv(g)'
    BY <2>1 DEF CallInv, InMutex
  <2>3. KernelInv(g)'
    BY <2>1 DEF KernelInv, InMutex
  <2> QED BY <2>2, <2>3
<1>7. ProcessInv(p)'
  BY <1>1, <1>5, <1>6 DEF ProcessInv
<1>8. fcntl'[p] = k /\ \A q \in Process : q # p => fcntl'[q] = fcntl[q]
  BY <1>1, <1>2
<1>9. Compatible'
  <2> SUFFICES ASSUME NEW q \in Process, NEW r \in Process, NEW b \in Bytes,
                      q # r, fcntl'[q][b] = "write"
               PROVE  fcntl'[r][b] = "none"
    BY DEF Compatible
  <2>1. CASE q = p
    BY <1>8, <2>1 DEF Granted
  <2>2. CASE q # p /\ r = p
    BY <1>8, <2>2 DEF Granted
  <2>3. CASE q # p /\ r # p
    BY <1>8, <2>3 DEF IInv, Compatible
  <2> QED BY <2>1, <2>2, <2>3
<1> QED BY <1>3, <1>4, <1>7, <1>9 DEF IInv

\* A step that neither changes a level nor leaves or enters a record keeps the counts.
LEMMA SameCounts ==
  ASSUME IInv, NEW f \in File, NEW v \in FileRecord,
         file' = [file EXCEPT ![f] = v], inode'[Home[f]] = inode[Home[f]],
         v.eFileLock = NO_LOCK <=> file[f].eFileLock = NO_LOCK,
         v.pc \in {"closed", "opening"} <=> file[f].pc \in {"closed", "opening"}
  PROVE  CountInv(Home[f])'
<1>1. Home[f] \in Process /\ file \in [File -> FileRecord] /\ CountInv(Home[f])
  BY HomeFacts DEF IInv, TypeOK, FileRecord, ProcessInv
<1>2. /\ Shares(v) = Shares(file[f]) /\ Uses(v) = Uses(file[f])
      /\ Shares(v) \in {0, 1} /\ Uses(v) \in {0, 1}
  BY DEF Shares, Uses
<1>3. inode[Home[f]].nShared \in Nat /\ inode[Home[f]].nRef \in Nat
  BY <1>1, CountFacts
<1>4. /\ IsFiniteSet(Sharers(Home[f])') /\ IsFiniteSet(Users(Home[f])')
      /\ Cardinality(Sharers(Home[f])') = inode[Home[f]].nShared + Shares(v) - Shares(file[f])
      /\ Cardinality(Users(Home[f])') = inode[Home[f]].nRef + Uses(v) - Uses(file[f])
  BY <1>1, Counts
<1>5. /\ Cardinality(Sharers(Home[f])') = inode[Home[f]].nShared
      /\ Cardinality(Users(Home[f])') = inode[Home[f]].nRef
  BY <1>2, <1>3, <1>4
<1> QED BY <1>1, <1>4, <1>5 DEF CountInv

\* And one that changes no level at all keeps what the levels have to do with each other.
LEMMA SameLevels ==
  ASSUME IInv, NEW f \in File, NEW v \in FileRecord,
         file' = [file EXCEPT ![f] = v],
         inode'[Home[f]].eFileLock = inode[Home[f]].eFileLock,
         v.eFileLock = file[f].eFileLock,
         v.eFileLock > SHARED => (v.pc = "release" <=> file[f].pc = "release")
  PROVE  LevelInv(Home[f])'
<1> DEFINE p == Home[f]
<1>1. /\ p \in Process /\ f \in FilesOf(p) /\ FilesOf(p) \subseteq File
      /\ FilesOf(p)' = FilesOf(p)
  BY HomeFacts DEF FilesOf
<1>2. file \in [File -> FileRecord] /\ LevelInv(p)
  BY <1>1 DEF IInv, TypeOK, FileRecord, ProcessInv
<1>3. file'[f] = v /\ \A g \in FilesOf(p) : g # f => file'[g] = file[g]
  BY <1>1, <1>2
<1>4. \A g \in FilesOf(p) : file'[g].eFileLock = file[g].eFileLock
  BY <1>3
<1>5. \A g \in FilesOf(p) : file[g].eFileLock > SHARED =>
        (file'[g].pc = "release" <=> file[g].pc = "release")
  BY <1>3
<1>6. Sharers(p)' = Sharers(p)
  BY <1>1, <1>4 DEF Sharers
<1> QED BY <1>1, <1>2, <1>4, <1>5, <1>6 DEF LevelInv, At

Pcs    == InMutex \cup {"closed", "opening", "idle", "close"}
Levels == NO_LOCK..EXCLUSIVE

LEMMA RecordTypes ==
  /\ FileRecord = [pc : Pcs, eFileLock : Levels, arg : Levels, closing : BOOLEAN]
  /\ InodeRecord = [nRef : Nat, nShared : Nat, nLock : Nat, eFileLock : Levels, nUnused : Nat]
BY DEF FileRecord, InodeRecord, Pcs, Levels

\* Updates of a unixFile object, field by field.
LEMMA Records ==
  /\ ClosedFile \in FileRecord
  /\ \A r \in FileRecord, pc \in Pcs :
       LET s == [r EXCEPT !.pc = pc]
       IN s \in FileRecord /\ s.pc = pc /\ s.eFileLock = r.eFileLock /\ s.arg = r.arg
  /\ \A r \in FileRecord, l \in Levels :
       LET s == [r EXCEPT !.pc = "idle", !.arg = NO_LOCK, !.eFileLock = l]
       IN s \in FileRecord /\ s.pc = "idle" /\ s.eFileLock = l /\ s.arg = NO_LOCK
<1>1. NO_LOCK \in Levels
  BY DEF NO_LOCK, EXCLUSIVE, Levels
<1>2. "closed" \in Pcs /\ "idle" \in Pcs
  BY DEF Pcs
<1>3. ClosedFile \in FileRecord
  <2>1. FALSE \in BOOLEAN
    OBVIOUS
  <2> QED BY <1>1, <1>2, <2>1, RecordTypes DEF ClosedFile
<1>4. ASSUME NEW r \in FileRecord, NEW pc \in Pcs
      PROVE  LET s == [r EXCEPT !.pc = pc]
             IN s \in FileRecord /\ s.pc = pc /\ s.eFileLock = r.eFileLock /\ s.arg = r.arg
  BY RecordTypes
<1>5. ASSUME NEW r \in FileRecord, NEW l \in Levels
      PROVE  LET s == [r EXCEPT !.pc = "idle", !.arg = NO_LOCK, !.eFileLock = l]
             IN s \in FileRecord /\ s.pc = "idle" /\ s.eFileLock = l /\ s.arg = NO_LOCK
  BY <1>1, <1>2, RecordTypes
<1> QED BY <1>3, <1>4, <1>5

\* The levels are numbers.
LEMMA LevelFacts ==
  /\ NO_LOCK \in Levels /\ SHARED \in Levels /\ RESERVED \in Levels /\ PENDING \in Levels
  /\ EXCLUSIVE \in Levels /\ Levels = 0 .. 4
  /\ NO_LOCK = 0 /\ SHARED = 1 /\ RESERVED = 2 /\ PENDING = 3 /\ EXCLUSIVE = 4
BY DEF Levels, NO_LOCK, SHARED, RESERVED, PENDING, EXCLUSIVE

\* Updates of a process's record.
LEMMA InodeRecords ==
  /\ NoInode \in InodeRecord
  /\ \A r \in InodeRecord :
       /\ LET s == [r EXCEPT !.nRef = @ + 1]
          IN /\ s \in InodeRecord /\ s.nRef = r.nRef + 1 /\ s.nShared = r.nShared
             /\ s.nLock = r.nLock /\ s.eFileLock = r.eFileLock /\ s.nUnused = r.nUnused
       /\ LET s == Counted(r)
          IN /\ s \in InodeRecord /\ s.nRef = r.nRef /\ s.nShared = r.nShared + 1
             /\ s.nLock = r.nLock + 1 /\ s.eFileLock = r.eFileLock /\ s.nUnused = r.nUnused
<1>1. InodeRecord = [nRef : Nat, nShared : Nat, nLock : Nat, eFileLock : Levels, nUnused : Nat]
  BY DEF InodeRecord, Levels
<1>2. NoInode \in InodeRecord
  BY <1>1, LevelFacts DEF NoInode
<1>3. ASSUME NEW r \in InodeRecord
      PROVE  LET s == [r EXCEPT !.nRef = @ + 1]
             IN /\ s \in InodeRecord /\ s.nRef = r.nRef + 1 /\ s.nShared = r.nShared
                /\ s.nLock = r.nLock /\ s.eFileLock = r.eFileLock /\ s.nUnused = r.nUnused
  BY <1>1
<1>4. ASSUME NEW r \in InodeRecord
      PROVE  LET s == Counted(r)
             IN /\ s \in InodeRecord /\ s.nRef = r.nRef /\ s.nShared = r.nShared + 1
                /\ s.nLock = r.nLock + 1 /\ s.eFileLock = r.eFileLock /\ s.nUnused = r.nUnused
  <2>1. r.nShared + 1 \in Nat /\ r.nLock + 1 \in Nat
    BY <1>1
  <2>2. Counted(r) \in InodeRecord
    BY <1>1, <2>1 DEF Counted
  <2>3. /\ Counted(r).nRef = r.nRef /\ Counted(r).nShared = r.nShared + 1
        /\ Counted(r).nLock = r.nLock + 1 /\ Counted(r).eFileLock = r.eFileLock
        /\ Counted(r).nUnused = r.nUnused
    BY <1>1 DEF Counted
  <2> QED BY <2>2, <2>3
<1> QED BY <1>2, <1>3, <1>4

\* What the invariant says of a connection and its process.
LEMMA Facts ==
  ASSUME IInv, NEW f \in File
  PROVE  /\ Home[f] \in Process /\ f \in FilesOf(Home[f])
         /\ file \in [File -> FileRecord] /\ file[f] \in FileRecord
         /\ inode \in [Process -> InodeRecord] /\ inode[Home[f]] \in InodeRecord
         /\ fcntl \in [Process -> [Bytes -> Modes]] /\ fcntl[Home[f]] \in [Bytes -> Modes]
         /\ CallInv(f) /\ KernelInv(f) /\ CountInv(Home[f]) /\ LevelInv(Home[f])
         /\ MutexFree(Home[f]) => Settled(Home[f])
         /\ Granted(Home[f], fcntl[Home[f]])
<1>1. Home[f] \in Process /\ f \in FilesOf(Home[f])
  BY HomeFacts
<1>2. /\ file \in [File -> FileRecord] /\ inode \in [Process -> InodeRecord]
      /\ fcntl \in [Process -> [Bytes -> Modes]]
  BY DEF IInv, TypeOK, FileRecord, InodeRecord, Modes
<1>3. Granted(Home[f], fcntl[Home[f]])
  BY <1>1 DEF IInv, Compatible, Granted
<1> QED BY <1>1, <1>2, <1>3 DEF IInv, ProcessInv

\* Fewer locks than the process has can always be had.
LEMMA GrantedLess ==
  ASSUME IInv, NEW f \in File, NEW k \in [Bytes -> Modes],
         \A b \in Bytes : \/ k[b] = "none" \/ k[b] = fcntl[Home[f]][b]
                          \/ k[b] = "read" /\ fcntl[Home[f]][b] = "write"
  PROVE  Granted(Home[f], k)
BY Facts DEF Granted

\* A step that changes no level, no record and no lock.
LEMMA QuietStep ==
  ASSUME IInv, NEW f \in File, NEW v \in FileRecord,
         file' = [file EXCEPT ![f] = v], UNCHANGED <<inode, fcntl>>,
         MutexFree(Home[f]) \/ file[f].pc \in InMutex,
         v.eFileLock = file[f].eFileLock,
         v.pc \in {"closed", "opening"} <=> file[f].pc \in {"closed", "opening"},
         v.eFileLock > SHARED => (v.pc = "release" <=> file[f].pc = "release"),
         CallInv(f)', KernelInv(f)', v.pc \notin InMutex => Settled(Home[f])
  PROVE  IInv'
<1> DEFINE i == inode[Home[f]]  k == fcntl[Home[f]]
<1>1. i \in InodeRecord /\ k \in [Bytes -> Modes] /\ Granted(Home[f], k)
  BY Facts
<1>2. /\ inode' = [inode EXCEPT ![Home[f]] = i]
      /\ fcntl' = [fcntl EXCEPT ![Home[f]] = k]
  BY Facts
<1>3. CountInv(Home[f])'
  BY SameCounts
<1>4. LevelInv(Home[f])'
  BY SameLevels
<1>5. Settled(Home[f])' <=> Settled(Home[f])
  BY DEF Settled
<1> HIDE DEF i, k
<1> QED BY <1>1, <1>2, <1>3, <1>4, <1>5, LocalStep

-----------------------------------------------------------------------------
(* Opening.                                                                  *)

\* A new descriptor, or one taken from the deferred closes.
LEMMA OpenStep ==
  ASSUME IInv, NEW f \in File, Open(f)
  PROVE  IInv'
<1> DEFINE p == Home[f]
           v == [ClosedFile EXCEPT !.pc = "opening"]
           i == inode'[p]
           k == fcntl[p]
<1>1. v \in FileRecord /\ v.pc = "opening" /\ v.eFileLock = NO_LOCK
  BY Records DEF ClosedFile, Pcs
<1>2. /\ file' = [file EXCEPT ![f] = v] /\ file[f].pc = "closed" /\ MutexFree(p)
      /\ fcntl' = [fcntl EXCEPT ![p] = k] /\ k \in [Bytes -> Modes] /\ Granted(p, k)
  BY Facts DEF Open, SetFile, At
<1>3. /\ inode' = [inode EXCEPT ![p] = i] /\ i \in InodeRecord
      /\ i.nRef = inode[p].nRef /\ i.nShared = inode[p].nShared /\ i.nLock = inode[p].nLock
      /\ i.eFileLock = inode[p].eFileLock /\ i.nUnused <= inode[p].nUnused
  <2>1. CASE inode[p].nUnused > 0
    BY <2>1, Facts DEF Open, SetInode, Info, InodeRecord
  <2>2. CASE ~(inode[p].nUnused > 0)
    BY <2>2, Facts DEF Open, Info, InodeRecord
  <2> QED BY <2>1, <2>2
<1>4. file[f].eFileLock = NO_LOCK
  BY <1>2, Facts DEF CallInv
<1>5. CallInv(f)' /\ KernelInv(f)'
  BY <1>1, <1>2, Facts DEF CallInv, KernelInv
<1>6. LevelInv(p)'
  BY <1>1, <1>2, <1>3, <1>4, SameLevels
<1>7. CountInv(p)'
  <2>1. /\ Shares(v) = 0 /\ Shares(file[f]) = 0 /\ Uses(v) = 0 /\ Uses(file[f]) = 0
    BY <1>1, <1>2, <1>4 DEF Shares, Uses
  <2>2. inode[p].nShared \in Nat /\ inode[p].nRef \in Nat /\ CountInv(p)
    BY Facts, CountFacts
  <2>3. /\ IsFiniteSet(Sharers(p)') /\ IsFiniteSet(Users(p)')
        /\ Cardinality(Sharers(p)') = inode[p].nShared + 0 - 0
        /\ Cardinality(Users(p)') = inode[p].nRef + 0 - 0
    BY <1>1, <1>2, <2>1, <2>2, Facts, Counts
  <2> QED BY <1>3, <2>2, <2>3, Facts DEF CountInv, InodeRecord
<1>8. Settled(p)'
  BY <1>2, <1>3, Facts DEF Settled
<1> HIDE DEF p, v, i, k
<1> QED BY <1>1, <1>2, <1>3, <1>5, <1>6, <1>7, <1>8, LocalStep DEF p

\* The connection becomes a user of the record.
LEMMA FindInodeInfoStep ==
  ASSUME IInv, NEW f \in File, FindInodeInfo(f)
  PROVE  IInv'
<1> DEFINE p == Home[f]
           v == [ClosedFile EXCEPT !.pc = "idle"]
           i == [inode[p] EXCEPT !.nRef = @ + 1]
           k == fcntl[p]
<1>1. v \in FileRecord /\ v.pc = "idle" /\ v.eFileLock = NO_LOCK
  BY Records DEF ClosedFile, Pcs
<1>2. /\ file' = [file EXCEPT ![f] = v] /\ file[f].pc = "opening" /\ MutexFree(p)
      /\ inode' = [inode EXCEPT ![p] = i]
      /\ fcntl' = [fcntl EXCEPT ![p] = k] /\ k \in [Bytes -> Modes] /\ Granted(p, k)
  BY Facts DEF FindInodeInfo, SetFile, SetInode, Info, At
<1>3. /\ i \in InodeRecord /\ inode'[p] = i
      /\ i.nRef = inode[p].nRef + 1 /\ i.nShared = inode[p].nShared /\ i.nLock = inode[p].nLock
      /\ i.eFileLock = inode[p].eFileLock /\ i.nUnused = inode[p].nUnused
  <2>1. inode[p] \in InodeRecord /\ inode'[p] = i
    BY <1>2, Facts
  <2> QED BY <2>1, InodeRecords
<1>4. file[f].eFileLock = NO_LOCK
  BY <1>2, Facts DEF CallInv
<1>5. CallInv(f)' /\ KernelInv(f)'
  BY <1>1, <1>2, Facts DEF CallInv, KernelInv
<1> HIDE DEF v, i
<1>6. LevelInv(p)'
  BY <1>1, <1>2, <1>3, <1>4, SameLevels
<1>7. CountInv(p)'
  <2>1. /\ Shares(v) = 0 /\ Shares(file[f]) = 0 /\ Uses(v) = 1 /\ Uses(file[f]) = 0
    BY <1>1, <1>2, <1>4 DEF Shares, Uses
  <2>2. inode[p].nShared \in Nat /\ inode[p].nRef \in Nat /\ CountInv(p)
    BY Facts, CountFacts
  <2>3. /\ IsFiniteSet(Sharers(p)') /\ IsFiniteSet(Users(p)')
        /\ Cardinality(Sharers(p)') = inode[p].nShared + 0 - 0
        /\ Cardinality(Users(p)') = inode[p].nRef + 1 - 0
    BY <1>1, <1>2, <2>1, <2>2, Facts, Counts
  <2> QED BY <1>3, <2>2, <2>3 DEF CountInv
<1>8. Settled(p)'
  BY <1>2, <1>3, Facts DEF Settled
<1> HIDE DEF p, k
<1> QED BY <1>1, <1>2, <1>3, <1>5, <1>6, <1>7, <1>8, LocalStep DEF p

\* What a process has locked, and the level of its record, when it has no reader.
LEMMA NoSharers ==
  ASSUME IInv, NEW f \in File, Sharers(Home[f]) = {}
  PROVE  /\ inode[Home[f]].eFileLock = NO_LOCK
         /\ \A g \in FilesOf(Home[f]) : file[g].eFileLock = NO_LOCK
<1>1. \A g \in FilesOf(Home[f]) : file[g].eFileLock = NO_LOCK
  BY DEF Sharers
<1>2. inode[Home[f]].eFileLock \in 0..4
  BY Facts DEF InodeRecord, NO_LOCK, EXCLUSIVE
<1> QED BY <1>1, <1>2, Facts DEF LevelInv, NO_LOCK

\* The kernel's locks are dropped where nothing was locked.
LEMMA DropNothing ==
  ASSUME IInv, NEW f \in File, MutexFree(Home[f]), Sharers(Home[f]) = {}
  PROVE  fcntl[Home[f]] = Unlocked
<1>1. inode[Home[f]].eFileLock = NO_LOCK /\ Settled(Home[f])
  BY NoSharers, Facts
<1>2. /\ fcntl[Home[f]]["shared"] = "none" /\ fcntl[Home[f]]["pending"] = "none"
      /\ fcntl[Home[f]]["reserved"] = "none"
  BY <1>1 DEF Settled, NO_LOCK, RESERVED, PENDING, EXCLUSIVE
<1>3. fcntl[Home[f]] \in [Bytes -> Modes]
  BY Facts
<1> QED BY <1>2, <1>3 DEF Unlocked, Bytes

\* A failed open closes its descriptor; nobody of the process had a lock to lose.
LEMMA OpenFailsFacts ==
  ASSUME IInv, NEW f \in File, OpenFails(f)
  PROVE  /\ UNCHANGED <<inode, fcntl>> /\ file' = [file EXCEPT ![f] = ClosedFile]
         /\ file[f].pc = "opening" /\ MutexFree(Home[f]) /\ file[f].eFileLock = NO_LOCK
<1> DEFINE p == Home[f]
<1>1. /\ ClosedFile \in FileRecord /\ ClosedFile.pc = "closed" /\ ClosedFile.eFileLock = NO_LOCK
  BY Records DEF ClosedFile
<1>2. /\ file' = [file EXCEPT ![f] = ClosedFile] /\ file[f].pc = "opening" /\ MutexFree(p)
      /\ inode[p].nRef = 0 /\ fcntl' = [fcntl EXCEPT ![p] = Unlocked] /\ UNCHANGED inode
  BY DEF OpenFails, SetFile, DropAll, Info, At
<1>3. Sharers(p) = {}
  <2>1. Users(p) = {}
    BY <1>2, Facts, CountFacts
  <2>2. \A g \in FilesOf(p) : CallInv(g)
    BY Facts DEF IInv, ProcessInv
  <2> QED BY <2>1, <2>2 DEF Users, Sharers, CallInv
<1>4. UNCHANGED fcntl
  BY <1>2, <1>3, DropNothing, Facts
<1>5. file[f].eFileLock = NO_LOCK
  BY <1>2, Facts DEF CallInv
<1> QED BY <1>2, <1>4, <1>5

LEMMA OpenFailsStep ==
  ASSUME IInv, NEW f \in File, OpenFails(f)
  PROVE  IInv'
<1>1. /\ ClosedFile \in FileRecord /\ ClosedFile.pc = "closed" /\ ClosedFile.eFileLock = NO_LOCK
  BY Records DEF ClosedFile
<1>2. /\ UNCHANGED <<inode, fcntl>> /\ file' = [file EXCEPT ![f] = ClosedFile]
      /\ file[f].pc = "opening" /\ MutexFree(Home[f]) /\ file[f].eFileLock = NO_LOCK
  BY OpenFailsFacts
<1>3. CallInv(f)' /\ KernelInv(f)'
  BY <1>1, <1>2, Facts DEF CallInv, KernelInv
<1> QED BY <1>1, <1>2, <1>3, Facts, QuietStep

-----------------------------------------------------------------------------
(* Locking.                                                                  *)

\* A process that is not held up and shares already is SHARED or RESERVED.
LEMMA LockCountedStep ==
  ASSUME IInv, NEW f \in File, LockCounted(f)
  PROVE  IInv'
<1> DEFINE p == Home[f]
           v == [file[f] EXCEPT !.pc = "idle", !.arg = NO_LOCK, !.eFileLock = SHARED]
           i == Counted(inode[p])
           k == fcntl[p]
<1>1. v \in FileRecord /\ v.pc = "idle" /\ v.eFileLock = SHARED
  <2>1. file[f] \in FileRecord /\ SHARED \in Levels
    BY Facts, LevelFacts
  <2>2. \A r \in FileRecord, l \in Levels :
          LET s == [r EXCEPT !.pc = "idle", !.arg = NO_LOCK, !.eFileLock = l]
          IN s \in FileRecord /\ s.pc = "idle" /\ s.eFileLock = l /\ s.arg = NO_LOCK
    BY Records
  <2> QED BY <2>1, <2>2, Zenon
<1>2. /\ file' = [file EXCEPT ![f] = v] /\ file[f].pc = "idle" /\ MutexFree(p)
      /\ inode' = [inode EXCEPT ![p] = i]
      /\ fcntl' = [fcntl EXCEPT ![p] = k] /\ k \in [Bytes -> Modes] /\ Granted(p, k)
      /\ inode[p].eFileLock \in {SHARED, RESERVED}
  BY Facts DEF LockCounted, Return, SetFile, SetInode, Info, At, ProcessShares
<1>3. /\ i \in InodeRecord /\ inode'[p] = i
      /\ i.nRef = inode[p].nRef /\ i.nShared = inode[p].nShared + 1 /\ i.nLock = inode[p].nLock + 1
      /\ i.eFileLock = inode[p].eFileLock /\ i.nUnused = inode[p].nUnused
  <2>1. inode[p] \in InodeRecord /\ inode'[p] = i
    BY <1>2, Facts
  <2> QED BY <2>1, InodeRecords
<1>4. file[f].eFileLock = NO_LOCK
  BY Facts DEF LockCounted, Requests, FileRecord, NO_LOCK, SHARED, RESERVED, PENDING, EXCLUSIVE
<1>5. CallInv(f)' /\ KernelInv(f)'
  BY <1>1, <1>2, Facts DEF CallInv, KernelInv, InMutex
<1> HIDE DEF v, i
<1>6. Sharers(p)' = Sharers(p) \cup {f}
  <2>1. v.eFileLock # NO_LOCK
    BY <1>1, LevelFacts
  <2> QED BY <1>1, <1>2, <2>1, Facts, Counts
<1>7. LevelInv(p)'
  <2>1. /\ FilesOf(p)' = FilesOf(p) /\ FilesOf(p) \subseteq File
    BY Facts, HomeFacts DEF FilesOf
  <2>2. file'[f] = v /\ \A g \in FilesOf(p) : g # f => file'[g] = file[g]
    BY <1>2, <2>1, Facts
  <2>3. \A g \in FilesOf(p) : file[g].eFileLock # EXCLUSIVE
    BY <1>2, <2>1, Facts DEF LevelInv, MutexFree, At, InMutex, NO_LOCK, SHARED, RESERVED, EXCLUSIVE
  <2>4. \A g \in FilesOf(p) : file'[g].eFileLock # EXCLUSIVE
    BY <1>1, <2>2, <2>3 DEF SHARED, EXCLUSIVE
  <2>5. inode'[p].eFileLock = inode[p].eFileLock /\ inode[p].eFileLock # NO_LOCK
    BY <1>2, <1>3 DEF NO_LOCK, SHARED, RESERVED
  <2>6. \E g \in FilesOf(p) : file'[g].eFileLock >= inode'[p].eFileLock
    <3>1. PICK g \in FilesOf(p) : file[g].eFileLock >= inode[p].eFileLock
      BY <2>5, Facts DEF LevelInv
    <3>2. g # f
      BY <1>2, <1>4, <3>1 DEF NO_LOCK, SHARED, RESERVED
    <3> QED BY <2>2, <2>5, <3>1, <3>2
  <2>7. ASSUME NEW g \in FilesOf(p), file'[g].eFileLock > SHARED
        PROVE  /\ inode'[p].eFileLock = IF file'[g].pc = "release" THEN SHARED ELSE file'[g].eFileLock
               /\ \A h \in FilesOf(p) : file'[h].eFileLock > SHARED => g = h
    <3>1. g # f /\ file[g].eFileLock > SHARED
      BY <1>1, <2>2, <2>7 DEF SHARED
    <3>2. \A h \in FilesOf(p) : file'[h].eFileLock > SHARED => h # f
      BY <1>1, <2>2 DEF SHARED
    <3> QED BY <2>2, <2>5, <3>1, <3>2, Facts DEF LevelInv, At
  <2> QED BY <2>1, <2>4, <2>5, <2>6, <2>7 DEF LevelInv, At
<1>8. CountInv(p)'
  <2>1. /\ Shares(v) = 1 /\ Shares(file[f]) = 0 /\ Uses(v) = 1 /\ Uses(file[f]) = 1
    BY <1>1, <1>2, <1>4 DEF Shares, Uses, NO_LOCK, SHARED
  <2>2. inode[p].nShared \in Nat /\ inode[p].nRef \in Nat /\ CountInv(p)
    BY Facts, CountFacts
  <2>3. /\ IsFiniteSet(Sharers(p)') /\ IsFiniteSet(Users(p)')
        /\ Cardinality(Sharers(p)') = inode[p].nShared + 1 - 0
        /\ Cardinality(Users(p)') = inode[p].nRef + 1 - 1
    BY <1>1, <1>2, <2>1, <2>2, Facts, Counts
  <2> QED BY <1>3, <2>2, <2>3 DEF CountInv
<1>9. Settled(p)'
  BY <1>2, <1>3, Facts DEF Settled
<1> HIDE DEF p, k
<1> QED BY <1>1, <1>2, <1>3, <1>5, <1>7, <1>8, <1>9, LocalStep DEF p

\* What may be asked for at each level.
LEMMA RequestFacts ==
  ASSUME NEW level \in Levels, NEW l \in Requests(level)
  PROVE  \/ level = NO_LOCK /\ l = SHARED
         \/ level = SHARED /\ l \in {RESERVED, EXCLUSIVE}
         \/ level \in {RESERVED, PENDING} /\ l = EXCLUSIVE
BY DEF Requests, Levels, NO_LOCK, SHARED, RESERVED, PENDING, EXCLUSIVE

\* A call that asks the kernel starts at the level of the process.
LEMMA LockEnterStep ==
  ASSUME IInv, NEW f \in File, NEW l \in {SHARED, RESERVED, EXCLUSIVE}, LockEnter(f, l)
  PROVE  IInv'
<1> DEFINE p  == Home[f]
           pc == IF l = SHARED \/ (l = EXCLUSIVE /\ file[f].eFileLock < PENDING)
                 THEN "pendingByte" ELSE "writeLock"
           v  == [file[f] EXCEPT !.pc = pc, !.arg = l]
<1>1. /\ v \in FileRecord /\ v.pc = pc /\ v.arg = l /\ v.eFileLock = file[f].eFileLock
  <2>1. file[f] \in FileRecord /\ l \in Levels /\ pc \in Pcs
    BY Facts, LevelFacts DEF Pcs, InMutex
  <2> HIDE DEF pc
  <2> QED BY <2>1, RecordTypes
<1>2. /\ file' = [file EXCEPT ![f] = v] /\ file[f].pc = "idle" /\ MutexFree(p)
      /\ UNCHANGED <<inode, fcntl>> /\ l \in Requests(file[f].eFileLock)
      /\ ~PrecludedInProcess(f, l) /\ ~ProcessShares(f, l)
  BY DEF LockEnter, Goto, SetFile, At
<1>3. /\ file[f].eFileLock \in Levels /\ inode[p].eFileLock \in Levels
      /\ file'[f] = v /\ inode'[p] = inode[p] /\ fcntl'[p] = fcntl[p] /\ Settled(p)
  BY <1>1, <1>2, Facts DEF FileRecord, InodeRecord, Levels
<1>4. \/ file[f].eFileLock = NO_LOCK /\ l = SHARED
      \/ file[f].eFileLock = SHARED /\ l \in {RESERVED, EXCLUSIVE}
      \/ file[f].eFileLock \in {RESERVED, PENDING} /\ l = EXCLUSIVE
  BY <1>2, <1>3, RequestFacts
<1>5. file[f].eFileLock = inode[p].eFileLock
  BY <1>2, <1>3, <1>4, LevelFacts DEF PrecludedInProcess, ProcessShares, Info
<1>6. Settled(p)' <=> Settled(p)
  BY <1>3 DEF Settled
<1>7. pc \in {"pendingByte", "writeLock"} /\ (pc = "writeLock" => l # SHARED)
      /\ (l = EXCLUSIVE => (pc = "writeLock" <=> ~(file[f].eFileLock < PENDING)))
      /\ (l = RESERVED => pc = "writeLock")
  BY LevelFacts
<1> HIDE DEF pc, v
<1>8. CallInv(f)'
  BY <1>1, <1>3, <1>4, <1>5, <1>7, LevelFacts DEF CallInv, Info
<1>9. KernelInv(f)'
  <2>1. pc = "writeLock" /\ l = EXCLUSIVE =>
          /\ fcntl[p]["pending"] = "write" /\ fcntl[p]["shared"] = "read"
          /\ fcntl[p]["reserved"] # "read" /\ file[f].eFileLock = PENDING
    BY <1>3, <1>4, <1>5, <1>7, LevelFacts DEF Settled
  <2> QED BY <1>1, <1>3, <1>6, <1>7, <2>1, LevelFacts DEF KernelInv
<1>10. v.pc \in InMutex
  BY <1>1, <1>7 DEF InMutex
<1>11. /\ v.pc \notin {"closed", "opening"} /\ file[f].pc \notin {"closed", "opening"}
       /\ v.pc # "release" /\ file[f].pc # "release"
  BY <1>1, <1>2, <1>7
<1> QED BY <1>1, <1>2, <1>8, <1>9, <1>10, <1>11, QuietStep

\* One byte range of a process is locked or unlocked.
LEMMA SetLockFacts ==
  ASSUME IInv, NEW f \in File, NEW b \in Bytes, NEW type \in Modes, SetLock(Home[f], b, type)
  PROVE  /\ fcntl'[Home[f]] \in [Bytes -> Modes]
         /\ fcntl' = [fcntl EXCEPT ![Home[f]] = fcntl'[Home[f]]]
         /\ fcntl'[Home[f]][b] = type
         /\ \A c \in Bytes : c # b => fcntl'[Home[f]][c] = fcntl[Home[f]][c]
         /\ (type = "none" \/ CanLock(Home[f], b, type)
               \/ (type = "read" /\ fcntl[Home[f]][b] # "none")) => Granted(Home[f], fcntl'[Home[f]])
<1> DEFINE p == Home[f]  k == [fcntl[p] EXCEPT ![b] = type]
<1>1. p \in Process /\ fcntl \in [Process -> [Bytes -> Modes]] /\ Granted(p, fcntl[p])
  BY Facts
<1>2. fcntl' = [fcntl EXCEPT ![p] = k] /\ fcntl'[p] = k
  BY <1>1 DEF SetLock
<1>3. k \in [Bytes -> Modes] /\ k[b] = type /\ \A c \in Bytes : c # b => k[c] = fcntl[p][c]
  BY <1>1
<1> HIDE DEF k
<1>4. (type = "none" \/ CanLock(p, b, type) \/ (type = "read" /\ fcntl[p][b] # "none"))
        => Granted(p, k)
  BY <1>1, <1>3 DEF Granted, CanLock, Modes
<1> QED BY <1>2, <1>3, <1>4

LEMMA ByteFacts ==
  /\ "pending" \in Bytes /\ "reserved" \in Bytes /\ "shared" \in Bytes
  /\ "none" \in Modes /\ "read" \in Modes /\ "write" \in Modes
BY DEF Bytes, Modes

\* The pending byte is locked, for reading or for good; or the call is refused.
LEMMA PendingByteStep ==
  ASSUME IInv, NEW f \in File, PendingByte(f)
  PROVE  IInv'
<1> DEFINE p    == Home[f]
           l    == file[f].arg
           type == IF l = SHARED THEN "read" ELSE "write"
           next == IF l = SHARED THEN "sharedRange" ELSE "writeLock"
           v    == [file[f] EXCEPT !.pc = next, !.arg = l]
<1>1. /\ file[f] \in FileRecord /\ l \in Levels /\ file[f].eFileLock \in Levels
      /\ file[f].pc = "pendingByte" /\ file[f].pc \in InMutex
      /\ file[f].eFileLock = inode[p].eFileLock /\ Settled(p)
      /\ \/ l = SHARED /\ file[f].eFileLock = NO_LOCK
         \/ l = EXCLUSIVE /\ file[f].eFileLock \in {SHARED, RESERVED}
  BY Facts DEF PendingByte, At, CallInv, KernelInv, Info, FileRecord, Levels, InMutex
<1>2. CASE CanLock(p, "pending", type)
  <2>1. v \in FileRecord /\ v.pc = next /\ v.arg = l /\ v.eFileLock = file[f].eFileLock
    <3>1. next \in Pcs
      BY DEF Pcs, InMutex
    <3> HIDE DEF next, l
    <3> QED BY <1>1, <3>1, RecordTypes
  <2>2. /\ file' = [file EXCEPT ![f] = v] /\ SetLock(p, "pending", type) /\ UNCHANGED inode
        /\ file'[f] = v /\ inode'[p] = inode[p]
    BY <1>2, Facts DEF PendingByte, Goto, SetFile
  <2>3. /\ fcntl'[p] \in [Bytes -> Modes] /\ fcntl' = [fcntl EXCEPT ![p] = fcntl'[p]]
        /\ fcntl'[p]["pending"] = type /\ fcntl'[p]["shared"] = fcntl[p]["shared"]
        /\ fcntl'[p]["reserved"] = fcntl[p]["reserved"] /\ Granted(p, fcntl'[p])
    BY <1>2, <2>2, ByteFacts, SetLockFacts
  <2>4. next \in InMutex /\ next \in {"sharedRange", "writeLock"}
        /\ (next = "sharedRange" <=> l = SHARED) /\ type \in {"read", "write"}
        /\ (type = "read" <=> l = SHARED)
    BY DEF InMutex
  <2> HIDE DEF v, next, type, l
  <2>5. CallInv(f)'
    BY <1>1, <2>1, <2>2, <2>4, LevelFacts DEF CallInv, Info
  <2>6. KernelInv(f)'
    <3>1. /\ file[f].eFileLock = NO_LOCK => fcntl[p]["shared"] = "none" /\ fcntl[p]["reserved"] = "none"
          /\ file[f].eFileLock \in {SHARED, RESERVED} => fcntl[p]["shared"] = "read"
          /\ fcntl[p]["reserved"] # "read"
          /\ file[f].eFileLock = RESERVED => fcntl[p]["reserved"] = "write"
          /\ file[f].eFileLock = SHARED => fcntl[p]["reserved"] = "none"
      BY <1>1, LevelFacts DEF Settled
    <3> QED BY <1>1, <2>1, <2>2, <2>3, <2>4, <3>1, LevelFacts DEF KernelInv
  <2>7. v.pc \notin {"closed", "opening"} /\ v.pc # "release" /\ v.pc \in InMutex
    BY <2>1, <2>4
  <2>8. CountInv(p)'
    BY <1>1, <2>1, <2>2, <2>7, SameCounts
  <2>9. LevelInv(p)'
    BY <1>1, <2>1, <2>2, <2>7, SameLevels
  <2>10. inode[p] \in InodeRecord /\ inode' = [inode EXCEPT ![p] = inode[p]]
    BY <2>2, Facts
  <2> QED BY <1>1, <2>1, <2>2, <2>3, <2>5, <2>6, <2>7, <2>8, <2>9, <2>10, LocalStep
<1>3. CASE ~CanLock(p, "pending", type)
  <2> DEFINE r == file[f].eFileLock
             w == [file[f] EXCEPT !.pc = "idle", !.arg = NO_LOCK, !.eFileLock = r]
  <2>1. w \in FileRecord /\ w.pc = "idle" /\ w.eFileLock = r
    <3>1. r \in Levels /\ "idle" \in Pcs
      BY <1>1 DEF Pcs
    <3> HIDE DEF r
    <3> QED BY <1>1, <3>1, RecordTypes, LevelFacts
  <2>2. file' = [file EXCEPT ![f] = w] /\ UNCHANGED <<inode, fcntl>> /\ file'[f] = w
    BY <1>3, Facts DEF PendingByte, Return, SetFile
  <2> HIDE DEF w
  <2>3. CallInv(f)' /\ KernelInv(f)'
    BY <2>1, <2>2 DEF CallInv, KernelInv
  <2> QED BY <1>1, <2>1, <2>2, <2>3, QuietStep
<1> QED BY <1>2, <1>3

\* The shared range is locked for reading, under the pending byte; or it is refused.
LEMMA SharedRangeStep ==
  ASSUME IInv, NEW f \in File, SharedRange(f)
  PROVE  IInv'
<1> DEFINE p    == Home[f]
           v    == file'[f]
<1>1. /\ file[f] \in FileRecord /\ file[f].eFileLock = NO_LOCK /\ inode[p].eFileLock = NO_LOCK
      /\ file[f].pc = "sharedRange" /\ file[f].pc \in InMutex
      /\ fcntl[p]["pending"] = "read" /\ fcntl[p]["shared"] = "none"
      /\ fcntl[p]["reserved"] = "none"
  BY Facts DEF SharedRange, At, CallInv, KernelInv, Info, InMutex
<1>2. /\ file' = [file EXCEPT ![f] = v] /\ UNCHANGED inode /\ inode'[p] = inode[p]
      /\ \/ /\ v = [file[f] EXCEPT !.pc = "dropPending", !.arg = SHARED]
            /\ SetLock(p, "shared", "read") /\ CanLock(p, "shared", "read")
         \/ /\ v = [file[f] EXCEPT !.pc = "dropBusy", !.arg = SHARED]
            /\ UNCHANGED fcntl
  BY Facts DEF SharedRange, Goto, SetFile
<1>3. /\ v \in FileRecord /\ v.arg = SHARED /\ v.eFileLock = NO_LOCK
      /\ \/ /\ v.pc = "dropPending"
            /\ SetLock(p, "shared", "read") /\ CanLock(p, "shared", "read")
         \/ v.pc = "dropBusy" /\ UNCHANGED fcntl
  <2>1. SHARED \in Levels /\ "dropPending" \in Pcs /\ "dropBusy" \in Pcs
    BY LevelFacts DEF Pcs, InMutex
  <2>2. ASSUME NEW pc \in Pcs, v = [file[f] EXCEPT !.pc = pc, !.arg = SHARED]
        PROVE  v \in FileRecord /\ v.pc = pc /\ v.arg = SHARED /\ v.eFileLock = NO_LOCK
    <3>1. v \in FileRecord
      BY <1>1, <2>1, <2>2, RecordTypes
    <3>2. v.pc = pc /\ v.arg = SHARED /\ v.eFileLock = file[f].eFileLock
      BY <1>1, <2>1, <2>2, RecordTypes
    <3> QED BY <1>1, <3>1, <3>2
  <2> QED BY <1>2, <2>1, <2>2
<1>4. v.pc \notin {"closed", "opening"} /\ v.pc # "release" /\ v.pc \in InMutex
  BY <1>3 DEF InMutex
<1>5. inode[p] \in InodeRecord /\ inode' = [inode EXCEPT ![p] = inode[p]]
  BY <1>2, Facts
<1>6. /\ fcntl'[p] \in [Bytes -> Modes] /\ fcntl' = [fcntl EXCEPT ![p] = fcntl'[p]]
      /\ fcntl'[p]["shared"] = IF v.pc = "dropPending" THEN "read" ELSE "none"
      /\ fcntl'[p]["pending"] = "read" /\ fcntl'[p]["reserved"] = "none"
      /\ Granted(p, fcntl'[p])
  <2>1. CASE v.pc = "dropPending"
    BY <1>1, <1>3, <2>1, ByteFacts, SetLockFacts
  <2>2. CASE v.pc = "dropBusy"
    <3>1. fcntl' = fcntl
      BY <1>3, <2>2
    <3> QED BY <1>1, <2>2, <3>1, Facts
  <2> QED BY <1>3, <2>1, <2>2
<1>7. CallInv(f)'
  BY <1>1, <1>2, <1>3, LevelFacts DEF CallInv, Info
<1>8. KernelInv(f)'
  BY <1>3, <1>6 DEF KernelInv
<1>9. CountInv(p)'
  BY <1>1, <1>2, <1>3, <1>4, SameCounts
<1>10. LevelInv(p)'
  BY <1>1, <1>2, <1>3, <1>4, SameLevels
<1> QED BY <1>1, <1>2, <1>3, <1>4, <1>5, <1>6, <1>7, <1>8, <1>9, <1>10, LocalStep

\* The temporary lock on the pending byte goes, and the first reader of the process is in.
LEMMA DropPendingStep ==
  ASSUME IInv, NEW f \in File, DropPending(f), At(f, "dropPending")
  PROVE  IInv'
<1> DEFINE p == Home[f]
           v == [file[f] EXCEPT !.pc = "idle", !.arg = NO_LOCK, !.eFileLock = SHARED]
           i == [inode[p] EXCEPT !.nLock = @ + 1, !.nShared = 1, !.eFileLock = SHARED]
<1>1. /\ file[f] \in FileRecord /\ file[f].eFileLock = NO_LOCK /\ inode[p].eFileLock = NO_LOCK
      /\ file[f].pc = "dropPending" /\ file[f].pc \in InMutex
      /\ fcntl[p]["pending"] = "read" /\ fcntl[p]["shared"] = "read"
      /\ fcntl[p]["reserved"] = "none" /\ inode[p] \in InodeRecord
  BY Facts DEF At, CallInv, KernelInv, Info, InMutex
<1>2. /\ file' = [file EXCEPT ![f] = v] /\ inode' = [inode EXCEPT ![p] = i]
      /\ SetLock(p, "pending", "none")
  BY Facts DEF DropPending, Return, SetFile, SetInode, At, Info
<1>3. v \in FileRecord /\ v.pc = "idle" /\ v.arg = NO_LOCK /\ v.eFileLock = SHARED
  <2>1. SHARED \in Levels /\ NO_LOCK \in Levels /\ "idle" \in Pcs
    BY LevelFacts DEF Pcs
  <2>2. v \in FileRecord
    BY <1>1, <1>2, <2>1, RecordTypes
  <2>3. v.pc = "idle" /\ v.arg = NO_LOCK /\ v.eFileLock = SHARED
    BY <1>1, <1>2, <2>1, RecordTypes
  <2> QED BY <2>2, <2>3
<1>4. /\ i \in InodeRecord /\ i.nRef = inode[p].nRef /\ i.nShared = 1
      /\ i.nLock = inode[p].nLock + 1 /\ i.eFileLock = SHARED /\ i.nUnused = inode[p].nUnused
  <2>1. SHARED \in Levels /\ 1 \in Nat /\ inode[p].nLock + 1 \in Nat
    BY <1>1, LevelFacts, RecordTypes
  <2>2. i \in InodeRecord
    BY <1>1, <1>2, <2>1, RecordTypes
  <2>3. /\ i.nRef = inode[p].nRef /\ i.nShared = 1 /\ i.nLock = inode[p].nLock + 1
        /\ i.eFileLock = SHARED /\ i.nUnused = inode[p].nUnused
    BY <1>1, <1>2, <2>1, RecordTypes
  <2> QED BY <2>2, <2>3
<1>5. /\ fcntl'[p] \in [Bytes -> Modes] /\ fcntl' = [fcntl EXCEPT ![p] = fcntl'[p]]
      /\ fcntl'[p]["pending"] = "none" /\ fcntl'[p]["shared"] = "read"
      /\ fcntl'[p]["reserved"] = "none" /\ Granted(p, fcntl'[p])
  BY <1>1, <1>2, ByteFacts, SetLockFacts
<1>6. file' = [file EXCEPT ![f] = v] /\ file'[f] = v /\ inode'[p] = i
      /\ inode' = [inode EXCEPT ![p] = i]
  BY <1>2, Facts
<1> HIDE DEF v, i
<1>7. CallInv(f)' /\ KernelInv(f)' /\ Settled(p)'
  BY <1>3, <1>4, <1>5, <1>6, LevelFacts DEF CallInv, KernelInv, Settled
<1>8. Sharers(p) = {}
  BY <1>1, Facts DEF LevelInv
<1>9. Sharers(p)' = {f}
  <2>1. v.eFileLock # NO_LOCK
    BY <1>3, LevelFacts
  <2> QED BY <1>2, <1>3, <1>8, <2>1, Facts, Counts
<1>10. LevelInv(p)'
  <2>1. FilesOf(p)' = FilesOf(p) /\ f \in FilesOf(p)
    BY Facts DEF FilesOf
  <2>2. \A g \in FilesOf(p) : file'[g].eFileLock # NO_LOCK => g = f
    BY <1>9, <2>1 DEF Sharers
  <2>3. \A g \in FilesOf(p) : ~(file'[g].eFileLock > SHARED)
    BY <1>6, <1>3, <2>2, LevelFacts
  <2> QED BY <1>6, <1>3, <1>4, <2>1, <2>3, LevelFacts DEF LevelInv
<1>11. CountInv(p)'
  <2>1. /\ Shares(v) = 1 /\ Shares(file[f]) = 0 /\ Uses(v) = 1 /\ Uses(file[f]) = 1
    BY <1>1, <1>3 DEF Shares, Uses, NO_LOCK, SHARED
  <2>2. inode[p].nShared = 0 /\ inode[p].nLock = 0 /\ inode[p].nRef \in Nat /\ CountInv(p)
    BY <1>8, Facts, CountFacts
  <2>3. /\ IsFiniteSet(Sharers(p)') /\ IsFiniteSet(Users(p)')
        /\ Cardinality(Sharers(p)') = 0 + 1 - 0
        /\ Cardinality(Users(p)') = inode[p].nRef + 1 - 1
    BY <1>2, <1>3, <2>1, <2>2, Facts, Counts
  <2> QED BY <1>6, <1>4, <2>2, <2>3 DEF CountInv
<1> QED BY <1>1, <1>6, <1>3, <1>4, <1>5, <1>7, <1>10, <1>11, LocalStep

\* Or it goes because the shared range was refused.
LEMMA DropBusyStep ==
  ASSUME IInv, NEW f \in File, DropPending(f), At(f, "dropBusy")
  PROVE  IInv'
<1> DEFINE p == Home[f]  v == file'[f]
<1>1. /\ file[f] \in FileRecord /\ file[f].eFileLock = NO_LOCK /\ inode[p].eFileLock = NO_LOCK
      /\ file[f].pc = "dropBusy" /\ file[f].pc \in InMutex
      /\ fcntl[p]["pending"] = "read" /\ fcntl[p]["shared"] = "none"
      /\ fcntl[p]["reserved"] = "none" /\ inode[p] \in InodeRecord
  BY Facts DEF At, CallInv, KernelInv, Info, InMutex
<1>2. /\ file' = [file EXCEPT ![f] = v] /\ inode' = [inode EXCEPT ![p] = inode[p]]
      /\ inode'[p] = inode[p]
      /\ v = [file[f] EXCEPT !.pc = "idle", !.arg = NO_LOCK, !.eFileLock = NO_LOCK]
      /\ SetLock(p, "pending", "none")
  BY Facts DEF DropPending, Return, SetFile, At
<1>3. v \in FileRecord /\ v.pc = "idle" /\ v.arg = NO_LOCK /\ v.eFileLock = NO_LOCK
  <2>1. NO_LOCK \in Levels /\ "idle" \in Pcs
    BY LevelFacts DEF Pcs
  <2>2. v \in FileRecord
    BY <1>1, <1>2, <2>1, RecordTypes
  <2>3. v.pc = "idle" /\ v.arg = NO_LOCK /\ v.eFileLock = NO_LOCK
    BY <1>1, <1>2, <2>1, RecordTypes
  <2> QED BY <2>2, <2>3
<1>4. /\ fcntl'[p] \in [Bytes -> Modes] /\ fcntl' = [fcntl EXCEPT ![p] = fcntl'[p]]
      /\ fcntl'[p]["pending"] = "none" /\ fcntl'[p]["shared"] = "none"
      /\ fcntl'[p]["reserved"] = "none" /\ Granted(p, fcntl'[p])
  BY <1>1, <1>2, ByteFacts, SetLockFacts
<1>5. CallInv(f)' /\ KernelInv(f)' /\ Settled(p)'
  BY <1>1, <1>2, <1>3, <1>4, LevelFacts DEF CallInv, KernelInv, Settled
<1>6. CountInv(p)'
  BY <1>1, <1>2, <1>3, SameCounts
<1>7. LevelInv(p)'
  BY <1>1, <1>2, <1>3, LevelFacts, SameLevels
<1> QED BY <1>1, <1>2, <1>3, <1>4, <1>5, <1>6, <1>7, LocalStep

\* A connection at the level of the process is raised above SHARED, with the process.
LEMMA RaisedLevel ==
  ASSUME IInv, NEW f \in File, NEW v \in FileRecord, NEW i \in InodeRecord,
         file' = [file EXCEPT ![f] = v], inode' = [inode EXCEPT ![Home[f]] = i],
         file[f].pc = "writeLock", v.pc = "idle",
         v.eFileLock > SHARED, i.eFileLock = v.eFileLock,
         v.eFileLock = EXCLUSIVE => Sharers(Home[f]) = {f}
  PROVE  LevelInv(Home[f])'
<1> DEFINE p == Home[f]
<1>1. /\ p \in Process /\ f \in FilesOf(p) /\ FilesOf(p) \subseteq File
      /\ FilesOf(p)' = FilesOf(p) /\ file[f].pc \in InMutex
  BY HomeFacts DEF FilesOf, InMutex
<1>2. /\ file'[f] = v /\ inode'[p] = i
      /\ \A g \in FilesOf(p) : g # f => file'[g] = file[g] /\ file[g].pc \notin InMutex
  BY <1>1, Mutex, Facts
<1>3. ASSUME NEW g \in FilesOf(p), g # f PROVE ~(file[g].eFileLock > SHARED)
  <2>1. g \in File /\ file[g].pc # "release" /\ LevelInv(p)
    BY <1>1, <1>2, <1>3, Facts DEF InMutex
  <2>2. file[f].eFileLock = inode[p].eFileLock
    BY Facts DEF CallInv, Info
  <2>3. /\ file[g].eFileLock \in Levels /\ file[f].eFileLock \in Levels
    BY <1>1, <2>1, Facts, RecordTypes
  <2>4. SUFFICES ASSUME file[g].eFileLock > SHARED PROVE FALSE
    OBVIOUS
  <2>5. inode[p].eFileLock = file[g].eFileLock /\ \A h \in FilesOf(p) : file[h].eFileLock > SHARED => g = h
    BY <2>1, <2>4 DEF LevelInv, At
  <2> QED BY <1>1, <1>3, <2>2, <2>4, <2>5
<1>4. v.eFileLock # NO_LOCK
  BY LevelFacts
<1>5. v.eFileLock = EXCLUSIVE => Sharers(p)' = {f}
  <2>1. Sharers(p)' = Sharers(p) \cup {f}
    BY <1>4, Facts, Counts
  <2> QED BY <2>1
<1>6. \A g \in FilesOf(p) : file'[g].eFileLock > SHARED => g = f
  BY <1>2, <1>3
<1>7. v.eFileLock \in Levels /\ f \in FilesOf(p)'
  BY <1>1, RecordTypes
<1> QED BY <1>1, <1>2, <1>4, <1>5, <1>6, <1>7, LevelFacts DEF LevelInv, At

\* What holds before the last system call of unixLock.
LEMMA WriteLockFacts ==
  ASSUME IInv, NEW f \in File, WriteLock(f)
  PROVE  /\ file[f] \in FileRecord /\ file[f].pc = "writeLock" /\ file[f].pc \in InMutex
         /\ file[f].eFileLock \in Levels /\ inode[Home[f]] \in InodeRecord
         /\ \/ file[f].arg = RESERVED /\ file[f].eFileLock = SHARED /\ Settled(Home[f])
            \/ /\ file[f].arg = EXCLUSIVE /\ file[f].eFileLock \in {SHARED, RESERVED, PENDING}
               /\ fcntl[Home[f]]["pending"] = "write" /\ fcntl[Home[f]]["shared"] = "read"
               /\ fcntl[Home[f]]["reserved"] # "read"
         /\ file[f].eFileLock = inode[Home[f]].eFileLock /\ file[f].eFileLock # NO_LOCK
<1>1. file[f].pc = "writeLock"
  BY DEF WriteLock, At
<1>2. file[f] \in FileRecord /\ inode[Home[f]] \in InodeRecord
  BY Facts
<1>3. file[f].eFileLock \in Levels
  BY <1>2, RecordTypes
<1>4. /\ file[f].eFileLock = inode[Home[f]].eFileLock
      /\ \/ file[f].arg = RESERVED /\ file[f].eFileLock = SHARED
         \/ file[f].arg = EXCLUSIVE /\ file[f].eFileLock \in {SHARED, RESERVED, PENDING}
  BY <1>1, Facts DEF CallInv, Info
<1>5. /\ file[f].arg = RESERVED => Settled(Home[f])
      /\ file[f].arg = EXCLUSIVE =>
           /\ fcntl[Home[f]]["pending"] = "write" /\ fcntl[Home[f]]["shared"] = "read"
           /\ fcntl[Home[f]]["reserved"] # "read"
  BY <1>1, Facts DEF KernelInv
<1> QED BY <1>1, <1>2, <1>3, <1>4, <1>5, LevelFacts DEF InMutex

\* The write-lock is had, or a connection that had asked for EXCLUSIVE stays PENDING.
LEMMA RaisedStep ==
  ASSUME IInv, NEW f \in File, WriteLock(f),
         NEW l \in Levels, l > SHARED,
         NEW v \in FileRecord, v.pc = "idle", v.eFileLock = l,
         file' = [file EXCEPT ![f] = v],
         NEW i \in InodeRecord,
         i.nRef = inode[Home[f]].nRef, i.nShared = inode[Home[f]].nShared,
         i.nLock = inode[Home[f]].nLock, i.eFileLock = l, i.nUnused = inode[Home[f]].nUnused,
         inode' = [inode EXCEPT ![Home[f]] = i],
         fcntl'[Home[f]] \in [Bytes -> Modes],
         fcntl' = [fcntl EXCEPT ![Home[f]] = fcntl'[Home[f]]],
         Granted(Home[f], fcntl'[Home[f]]),
         l = EXCLUSIVE => Sharers(Home[f]) = {f},
         /\ fcntl'[Home[f]]["shared"] = IF l = EXCLUSIVE THEN "write" ELSE "read"
         /\ fcntl'[Home[f]]["pending"] = IF l >= PENDING THEN "write" ELSE "none"
         /\ fcntl'[Home[f]]["reserved"] # "read"
         /\ l = RESERVED => fcntl'[Home[f]]["reserved"] = "write"
  PROVE  IInv'
<1> DEFINE p == Home[f]
<1>1. file'[f] = v /\ inode'[p] = i
  BY Facts
<1>2. file[f].pc = "writeLock" /\ file[f].pc \in InMutex /\ file[f].eFileLock # NO_LOCK
  BY WriteLockFacts
<1>3. LevelInv(p)'
  BY <1>2, RaisedLevel
<1>4. CountInv(p)'
  <2>1. /\ Shares(v) = 1 /\ Shares(file[f]) = 1 /\ Uses(v) = 1 /\ Uses(file[f]) = 1
    BY <1>1, <1>2, LevelFacts DEF Shares, Uses
  <2>2. inode[p].nShared \in Nat /\ inode[p].nRef \in Nat /\ CountInv(p)
    BY Facts, CountFacts
  <2>3. /\ IsFiniteSet(Sharers(p)') /\ IsFiniteSet(Users(p)')
        /\ Cardinality(Sharers(p)') = inode[p].nShared + Shares(v) - Shares(file[f])
        /\ Cardinality(Users(p)') = inode[p].nRef + Uses(v) - Uses(file[f])
    BY <2>2, Facts, Counts
  <2>4. /\ Cardinality(Sharers(p)') = inode[p].nShared
        /\ Cardinality(Users(p)') = inode[p].nRef
    BY <2>1, <2>2, <2>3
  <2> QED BY <1>1, <2>2, <2>3, <2>4 DEF CountInv
<1>5. CallInv(f)' /\ KernelInv(f)'
  BY <1>1 DEF CallInv, KernelInv
<1>6. Settled(p)'
  BY <1>1, LevelFacts DEF Settled
<1> QED BY <1>2, <1>3, <1>4, <1>5, <1>6, LocalStep

\* The records that a call leaves behind when it returns with a level.
Returned(f, l) == [file[f] EXCEPT !.pc = "idle", !.arg = NO_LOCK, !.eFileLock = l]
Leveled(p, l)  == [inode[p] EXCEPT !.eFileLock = l]

LEMMA ReturnRecords ==
  ASSUME IInv, NEW f \in File, NEW l \in Levels
  PROVE  /\ Returned(f, l) \in FileRecord /\ Returned(f, l).pc = "idle"
         /\ Returned(f, l).eFileLock = l
<1>1. file[f] \in FileRecord /\ "idle" \in Pcs /\ NO_LOCK \in Levels
  BY Facts, LevelFacts DEF Pcs
<1>2. Returned(f, l) \in FileRecord
  BY <1>1, RecordTypes DEF Returned
<1>3. Returned(f, l).pc = "idle" /\ Returned(f, l).eFileLock = l
  BY <1>1, RecordTypes DEF Returned
<1> QED BY <1>2, <1>3

LEMMA LeveledRecords ==
  ASSUME IInv, NEW p \in Process, NEW l \in Levels
  PROVE  /\ Leveled(p, l) \in InodeRecord /\ Leveled(p, l).nRef = inode[p].nRef
         /\ Leveled(p, l).nShared = inode[p].nShared /\ Leveled(p, l).nLock = inode[p].nLock
         /\ Leveled(p, l).eFileLock = l /\ Leveled(p, l).nUnused = inode[p].nUnused
<1>1. inode[p] \in InodeRecord
  BY DEF IInv, TypeOK, InodeRecord
<1>2. Leveled(p, l) \in InodeRecord
  BY <1>1, RecordTypes DEF Leveled
<1>3. /\ Leveled(p, l).nRef = inode[p].nRef
      /\ Leveled(p, l).nShared = inode[p].nShared /\ Leveled(p, l).nLock = inode[p].nLock
      /\ Leveled(p, l).eFileLock = l /\ Leveled(p, l).nUnused = inode[p].nUnused
  BY <1>1, RecordTypes DEF Leveled
<1> QED BY <1>2, <1>3

\* Nobody else of the process reads when its count of readers says so.
LEMMA Alone ==
  ASSUME IInv, NEW f \in File, file[f].eFileLock # NO_LOCK, ~SharedWithin(f)
  PROVE  Sharers(Home[f]) = {f}
<1> DEFINE S == Sharers(Home[f])
<1>1. f \in S
  BY Facts DEF Sharers
<1>2. IsFiniteSet(S) /\ inode[Home[f]].nShared = Cardinality(S) /\ CountInv(Home[f])
  BY Facts DEF CountInv
<1>3. Cardinality(S) \in Nat /\ ~(Cardinality(S) > 1) /\ Cardinality(S) # 0
  BY <1>1, <1>2, FS_CardinalityType, FS_EmptySet DEF SharedWithin, Info
<1>4. Cardinality(S) = 1
  BY <1>3
<1>5. PICK x : S = {x}
  BY <1>2, <1>4, FS_Singleton
<1> QED BY <1>1, <1>5

LEMMA WriteLockStep ==
  ASSUME IInv, NEW f \in File, WriteLock(f)
  PROVE  IInv'
<1> DEFINE p == Home[f]
           l == file[f].arg
           b == IF l = RESERVED THEN "reserved" ELSE "shared"
<1>1. /\ file[f].pc = "writeLock" /\ file[f].pc \in InMutex
      /\ file[f].eFileLock = inode[p].eFileLock /\ file[f].eFileLock # NO_LOCK
      /\ file[f].eFileLock \in Levels
      /\ \/ l = RESERVED /\ file[f].eFileLock = SHARED /\ Settled(p)
         \/ /\ l = EXCLUSIVE /\ file[f].eFileLock \in {SHARED, RESERVED, PENDING}
            /\ fcntl[p]["pending"] = "write" /\ fcntl[p]["shared"] = "read"
            /\ fcntl[p]["reserved"] # "read"
  BY WriteLockFacts
<1>2. CASE ~(l = EXCLUSIVE /\ SharedWithin(f)) /\ CanLock(p, b, "write")
  <2> DEFINE v == Returned(f, l)
             i == Leveled(p, l)
  <2>1. /\ file' = [file EXCEPT ![f] = v] /\ inode' = [inode EXCEPT ![p] = i]
        /\ SetLock(p, b, "write")
    BY <1>2 DEF WriteLock, Return, SetFile, SetInode, Info, Returned, Leveled
  <2>2. l \in Levels /\ l > SHARED
    BY <1>1, LevelFacts
  <2>3. b \in Bytes /\ "write" \in Modes
    BY ByteFacts
  <2>4. /\ fcntl'[p] \in [Bytes -> Modes] /\ fcntl' = [fcntl EXCEPT ![p] = fcntl'[p]]
        /\ fcntl'[p][b] = "write" /\ \A c \in Bytes : c # b => fcntl'[p][c] = fcntl[p][c]
        /\ Granted(p, fcntl'[p])
    <3> HIDE DEF b, v, i
    <3> QED BY <1>2, <2>1, <2>3, SetLockFacts
  <2>5. l = RESERVED =>
          /\ fcntl'[p]["shared"] = "read" /\ fcntl'[p]["pending"] = "none"
          /\ fcntl'[p]["reserved"] = "write"
    BY <1>1, <2>4, ByteFacts, LevelFacts DEF Settled
  <2>6. l = EXCLUSIVE =>
          /\ fcntl'[p]["shared"] = "write" /\ fcntl'[p]["pending"] = "write"
          /\ fcntl'[p]["reserved"] # "read"
    BY <1>1, <2>4, ByteFacts, LevelFacts
  <2>7. /\ fcntl'[p]["shared"] = IF l = EXCLUSIVE THEN "write" ELSE "read"
        /\ fcntl'[p]["pending"] = IF l >= PENDING THEN "write" ELSE "none"
        /\ fcntl'[p]["reserved"] # "read"
        /\ l = RESERVED => fcntl'[p]["reserved"] = "write"
    BY <1>1, <2>5, <2>6, LevelFacts
  <2>8. l = EXCLUSIVE => Sharers(p) = {f}
    BY <1>1, <1>2, Alone
  <2>9. /\ v \in FileRecord /\ v.pc = "idle" /\ v.eFileLock = l
        /\ i \in InodeRecord /\ i.nRef = inode[p].nRef
        /\ i.nShared = inode[p].nShared /\ i.nLock = inode[p].nLock
        /\ i.eFileLock = l /\ i.nUnused = inode[p].nUnused
    <3> HIDE DEF l
    <3> QED BY <2>2, Facts, ReturnRecords, LeveledRecords
  <2> HIDE DEF v, i, l, b
  <2> QED BY <2>1, <2>2, <2>4, <2>7, <2>8, <2>9, RaisedStep
<1>3. CASE /\ ~(~(l = EXCLUSIVE /\ SharedWithin(f)) /\ CanLock(p, b, "write"))
           /\ l = EXCLUSIVE
  <2> DEFINE v == Returned(f, PENDING)
             i == Leveled(p, PENDING)
  <2>1. /\ file' = [file EXCEPT ![f] = v] /\ inode' = [inode EXCEPT ![p] = i]
        /\ UNCHANGED fcntl
    BY <1>3 DEF WriteLock, Failed, Return, SetFile, SetInode, Info, Returned, Leveled
  <2>2. PENDING \in Levels /\ PENDING > SHARED /\ PENDING # EXCLUSIVE /\ PENDING # RESERVED
        /\ PENDING >= PENDING
    BY LevelFacts
  <2>3. /\ fcntl'[p] \in [Bytes -> Modes] /\ fcntl' = [fcntl EXCEPT ![p] = fcntl'[p]]
        /\ Granted(p, fcntl'[p]) /\ fcntl'[p] = fcntl[p]
    BY <2>1, Facts
  <2>4. /\ fcntl'[p]["shared"] = "read" /\ fcntl'[p]["pending"] = "write"
        /\ fcntl'[p]["reserved"] # "read"
    BY <1>1, <1>3, <2>3, LevelFacts
  <2>5. /\ v \in FileRecord /\ v.pc = "idle" /\ v.eFileLock = PENDING
        /\ i \in InodeRecord /\ i.nRef = inode[p].nRef
        /\ i.nShared = inode[p].nShared /\ i.nLock = inode[p].nLock
        /\ i.eFileLock = PENDING /\ i.nUnused = inode[p].nUnused
    BY <2>2, Facts, ReturnRecords, LeveledRecords
  <2> HIDE DEF v, i, l, b
  <2> QED BY <2>1, <2>2, <2>3, <2>4, <2>5, RaisedStep
<1>4. CASE /\ ~(~(l = EXCLUSIVE /\ SharedWithin(f)) /\ CanLock(p, b, "write"))
           /\ l # EXCLUSIVE
  <2> DEFINE v == Returned(f, file[f].eFileLock)
  <2>1. file' = [file EXCEPT ![f] = v] /\ UNCHANGED <<inode, fcntl>>
    BY <1>4 DEF WriteLock, Failed, Return, SetFile, Returned
  <2>2. v \in FileRecord /\ v.pc = "idle" /\ v.eFileLock = file[f].eFileLock
    BY <1>1, ReturnRecords
  <2>3. file'[f] = v
    BY <2>1, Facts
  <2> HIDE DEF v
  <2>4. CallInv(f)' /\ KernelInv(f)'
    BY <2>2, <2>3 DEF CallInv, KernelInv
  <2> QED BY <1>1, <1>4, <2>1, <2>2, <2>4, QuietStep
<1> QED BY <1>2, <1>3, <1>4

-----------------------------------------------------------------------------
(* Unlocking.                                                                *)

Entering(f, pc, l, closing) == [file[f] EXCEPT !.pc = pc, !.arg = l, !.closing = closing]

LEMMA EnteringRecords ==
  ASSUME IInv, NEW f \in File, NEW pc \in Pcs, NEW l \in Levels, NEW closing \in BOOLEAN
  PROVE  /\ Entering(f, pc, l, closing) \in FileRecord
         /\ Entering(f, pc, l, closing).pc = pc /\ Entering(f, pc, l, closing).arg = l
         /\ Entering(f, pc, l, closing).eFileLock = file[f].eFileLock
<1>1. file[f] \in FileRecord
  BY Facts
<1>2. Entering(f, pc, l, closing) \in FileRecord
  BY <1>1, RecordTypes DEF Entering
<1>3. /\ Entering(f, pc, l, closing).pc = pc /\ Entering(f, pc, l, closing).arg = l
      /\ Entering(f, pc, l, closing).eFileLock = file[f].eFileLock
  BY <1>1, RecordTypes DEF Entering
<1> QED BY <1>2, <1>3

LEMMA UnlockEnterStep ==
  ASSUME IInv, NEW f \in File, NEW l \in {NO_LOCK, SHARED}, NEW closing \in BOOLEAN,
         UnlockEnter(f, l, closing)
  PROVE  IInv'
<1> DEFINE p  == Home[f]
           pc == IF file[f].eFileLock <= SHARED THEN "release"
                 ELSE IF l = SHARED THEN "downgrade" ELSE "clearPending"
           v  == Entering(f, pc, l, closing)
<1>1. /\ file' = [file EXCEPT ![f] = v] /\ UNCHANGED <<inode, fcntl>>
      /\ file[f].pc = "idle" /\ MutexFree(p) /\ file[f].eFileLock > l
  BY DEF UnlockEnter, MayUnlock, At, SetFile, Entering
<1>2. /\ v \in FileRecord /\ v.pc = pc /\ v.arg = l /\ v.eFileLock = file[f].eFileLock
  <2>1. pc \in Pcs /\ l \in Levels
    BY LevelFacts DEF Pcs, InMutex
  <2> HIDE DEF pc
  <2> QED BY <2>1, EnteringRecords
<1>3. file[f].eFileLock \in Levels /\ inode[p].eFileLock \in Levels
  BY Facts, RecordTypes
<1>4. /\ pc \in {"release", "downgrade", "clearPending"}
      /\ pc = "release" => file[f].eFileLock = SHARED /\ l = NO_LOCK
      /\ pc = "downgrade" => file[f].eFileLock > SHARED /\ l = SHARED
      /\ pc = "clearPending" => file[f].eFileLock > SHARED /\ l = NO_LOCK
  BY <1>1, <1>3, LevelFacts
<1>5. file'[f] = v /\ inode'[p] = inode[p] /\ fcntl'[p] = fcntl[p] /\ Settled(p)
  BY <1>1, Facts
<1>6. Settled(p)' <=> Settled(p)
  BY <1>5 DEF Settled
<1> HIDE DEF pc, v
<1>7. CallInv(f)'
  BY <1>2, <1>3, <1>4, <1>5, LevelFacts DEF CallInv
<1>8. file[f].eFileLock > SHARED => inode[p].eFileLock = file[f].eFileLock
  BY <1>1, Facts DEF LevelInv, At
<1>9. pc = "clearPending" =>
        fcntl[p]["shared"] = IF file[f].eFileLock = EXCLUSIVE THEN "write" ELSE "read"
  BY <1>3, <1>4, <1>5, <1>8, LevelFacts DEF Settled
<1>10. KernelInv(f)'
  BY <1>2, <1>4, <1>5, <1>6, <1>9, LevelFacts DEF KernelInv
<1>11. v.pc \in InMutex /\ v.pc \notin {"closed", "opening"}
  BY <1>2, <1>4 DEF InMutex
<1>12. v.eFileLock > SHARED => v.pc # "release"
  BY <1>2, <1>4, LevelFacts
<1> QED BY <1>1, <1>2, <1>7, <1>10, <1>11, <1>12, QuietStep

\* A writer that keeps its read-lock turns the lock of the shared range into one.
LEMMA DowngradeStep ==
  ASSUME IInv, NEW f \in File, Downgrade(f)
  PROVE  IInv'
<1> DEFINE p == Home[f]
           v == [file[f] EXCEPT !.pc = "clearPending", !.arg = SHARED]
<1>1. /\ file' = [file EXCEPT ![f] = v] /\ SetLock(p, "shared", "read") /\ UNCHANGED inode
      /\ file[f].pc = "downgrade" /\ file[f].pc \in InMutex
  BY DEF Downgrade, Goto, SetFile, At, InMutex
<1>2. file[f].eFileLock > SHARED /\ Settled(p) /\ file[f] \in FileRecord
      /\ file[f].eFileLock \in Levels
  BY <1>1, Facts, RecordTypes DEF CallInv, KernelInv
<1>3. v \in FileRecord /\ v.pc = "clearPending" /\ v.arg = SHARED /\ v.eFileLock = file[f].eFileLock
  <2>1. "clearPending" \in Pcs /\ SHARED \in Levels
    BY LevelFacts DEF Pcs, InMutex
  <2>2. v \in FileRecord
    BY <1>2, <2>1, RecordTypes
  <2>3. v.pc = "clearPending" /\ v.arg = SHARED /\ v.eFileLock = file[f].eFileLock
    BY <1>2, <2>1, RecordTypes
  <2> QED BY <2>2, <2>3
<1>4. fcntl[p]["shared"] # "none"
  <2>1. inode[p].eFileLock = file[f].eFileLock
    BY <1>1, <1>2, Facts DEF LevelInv, At
  <2> QED BY <1>2, <2>1, LevelFacts DEF Settled
<1> HIDE DEF v
<1>5. /\ fcntl'[p] \in [Bytes -> Modes] /\ fcntl' = [fcntl EXCEPT ![p] = fcntl'[p]]
      /\ fcntl'[p]["shared"] = "read" /\ Granted(p, fcntl'[p])
  BY <1>1, <1>4, ByteFacts, SetLockFacts
<1>6. file'[f] = v /\ inode'[p] = inode[p] /\ inode[p] \in InodeRecord
      /\ inode' = [inode EXCEPT ![p] = inode[p]]
  BY <1>1, Facts
<1>7. CallInv(f)' /\ KernelInv(f)'
  BY <1>2, <1>3, <1>5, <1>6, LevelFacts DEF CallInv, KernelInv
<1>8. CountInv(p)'
  BY <1>1, <1>3, <1>6, SameCounts
<1>9. LevelInv(p)'
  BY <1>1, <1>3, <1>6, SameLevels
<1>10. v.pc \in InMutex
  BY <1>3 DEF InMutex
<1> QED BY <1>1, <1>3, <1>5, <1>6, <1>7, <1>8, <1>9, <1>10, LocalStep

LEMMA CloseUnlockedStep ==
  ASSUME IInv, NEW f \in File, CloseUnlocked(f)
  PROVE  IInv'
<1> DEFINE v == [file[f] EXCEPT !.pc = "close"]
<1>1. /\ file' = [file EXCEPT ![f] = v] /\ UNCHANGED <<inode, fcntl>>
      /\ file[f].pc = "idle" /\ MutexFree(Home[f]) /\ file[f].eFileLock = NO_LOCK
  BY DEF CloseUnlocked, MayUnlock, At, SetFile
<1>2. v \in FileRecord /\ v.pc = "close" /\ v.eFileLock = file[f].eFileLock
  <2>1. "close" \in Pcs /\ file[f] \in FileRecord
    BY Facts DEF Pcs
  <2>2. v \in FileRecord
    BY <2>1, RecordTypes
  <2>3. v.pc = "close" /\ v.eFileLock = file[f].eFileLock
    BY <2>1, RecordTypes
  <2> QED BY <2>2, <2>3
<1>3. file'[f] = v /\ Settled(Home[f])
  BY <1>1, Facts
<1> HIDE DEF v
<1>4. CallInv(f)' /\ KernelInv(f)'
  BY <1>1, <1>2, <1>3, LevelFacts DEF CallInv, KernelInv
<1> QED BY <1>1, <1>2, <1>3, <1>4, QuietStep

\* The write-locks on the pending and the reserved byte go, and the process is SHARED.
LEMMA ClearPendingStep ==
  ASSUME IInv, NEW f \in File, ClearPending(f)
  PROVE  IInv'
<1> DEFINE p == Home[f]
           v == IF file[f].arg = SHARED THEN Returned(f, SHARED)
                ELSE [file[f] EXCEPT !.pc = "release", !.arg = NO_LOCK]
           i == Leveled(p, SHARED)
           k == [fcntl[p] EXCEPT !["pending"] = "none", !["reserved"] = "none"]
<1>1. /\ file' = [file EXCEPT ![f] = v] /\ inode' = [inode EXCEPT ![p] = i]
      /\ file[f].pc = "clearPending" /\ file[f].pc \in InMutex
  BY DEF ClearPending, Goto, Return, SetFile, SetInode, Info, Returned, Leveled, At, InMutex
<1>2. /\ file[f] \in FileRecord /\ file[f].eFileLock \in Levels /\ file[f].eFileLock > SHARED
      /\ p \in Process /\ file[f].arg \in {NO_LOCK, SHARED}
      /\ fcntl[p]["shared"] = IF file[f].arg = NO_LOCK /\ file[f].eFileLock = EXCLUSIVE
                              THEN "write" ELSE "read"
  BY <1>1, Facts, RecordTypes DEF CallInv, KernelInv
<1>3. fcntl' = [fcntl EXCEPT ![p] = k] /\ fcntl'[p] = k
  <2>1. fcntl' = [fcntl EXCEPT ![p].pending = "none", ![p].reserved = "none"]
    BY DEF ClearPending
  <2>2. fcntl \in [Process -> [Bytes -> Modes]]
    BY Facts
  <2> QED BY <1>2, <2>1, <2>2
<1>4. /\ k \in [Bytes -> Modes] /\ k["pending"] = "none" /\ k["reserved"] = "none"
      /\ k["shared"] = fcntl[p]["shared"]
  BY Facts, ByteFacts
<1>5. Granted(p, k)
  <2>1. \A b \in Bytes : k[b] = "none" \/ k[b] = fcntl[p][b]
    BY <1>4 DEF Bytes
  <2> HIDE DEF k
  <2> QED BY <1>4, <2>1, GrantedLess
<1>6. /\ v \in FileRecord /\ v.pc # "closed" /\ v.pc # "opening" /\ v.eFileLock # NO_LOCK
      /\ \/ file[f].arg = SHARED /\ v.pc = "idle" /\ v.eFileLock = SHARED
         \/ /\ file[f].arg = NO_LOCK /\ v.pc = "release" /\ v.arg = NO_LOCK
            /\ v.eFileLock = file[f].eFileLock
  <2>1. SHARED \in Levels /\ NO_LOCK \in Levels /\ "release" \in Pcs /\ SHARED # NO_LOCK
    BY LevelFacts DEF Pcs, InMutex
  <2>2. CASE file[f].arg = SHARED
    <3>1. v = Returned(f, SHARED)
      BY <2>2
    <3> HIDE DEF v
    <3> QED BY <2>1, <2>2, <3>1, ReturnRecords
  <2>3. CASE file[f].arg = NO_LOCK
    <3>1. v = [file[f] EXCEPT !.pc = "release", !.arg = NO_LOCK]
      BY <2>1, <2>3
    <3> HIDE DEF v
    <3>2. v \in FileRecord
      BY <1>2, <2>1, <3>1, RecordTypes
    <3>3. v.pc = "release" /\ v.arg = NO_LOCK /\ v.eFileLock = file[f].eFileLock
      BY <1>2, <2>1, <3>1, RecordTypes
    <3> QED BY <1>2, <2>3, <3>2, <3>3, LevelFacts
  <2> QED BY <1>2, <2>2, <2>3
<1>7. /\ i \in InodeRecord /\ i.nRef = inode[p].nRef /\ i.nShared = inode[p].nShared
      /\ i.nLock = inode[p].nLock /\ i.eFileLock = SHARED /\ i.nUnused = inode[p].nUnused
  BY <1>2, LevelFacts, LeveledRecords
<1> HIDE DEF v, i, k
<1>8. file'[f] = v /\ inode'[p] = i
  BY <1>1, Facts
<1>9. CountInv(p)'
  <2>1. /\ Shares(v) = 1 /\ Shares(file[f]) = 1 /\ Uses(v) = 1 /\ Uses(file[f]) = 1
    BY <1>1, <1>2, <1>6, LevelFacts DEF Shares, Uses
  <2>2. inode[p].nShared \in Nat /\ inode[p].nRef \in Nat /\ CountInv(p)
    BY Facts, CountFacts
  <2>3. /\ IsFiniteSet(Sharers(p)') /\ IsFiniteSet(Users(p)')
        /\ Cardinality(Sharers(p)') = inode[p].nShared + Shares(v) - Shares(file[f])
        /\ Cardinality(Users(p)') = inode[p].nRef + Uses(v) - Uses(file[f])
    BY <1>1, <1>6, <2>2, Facts, Counts
  <2>4. /\ Cardinality(Sharers(p)') = inode[p].nShared
        /\ Cardinality(Users(p)') = inode[p].nRef
    BY <2>1, <2>2, <2>3
  <2> QED BY <1>7, <1>8, <2>2, <2>3, <2>4 DEF CountInv
<1>10. LevelInv(p)'
  <2>1. FilesOf(p)' = FilesOf(p) /\ f \in FilesOf(p) /\ FilesOf(p) \subseteq File
    BY HomeFacts DEF FilesOf
  <2>2. \A g \in FilesOf(p) : g # f => file'[g] = file[g]
    BY <1>1, <2>1, Facts
  <2>3. \A g \in FilesOf(p) : file[g].eFileLock > SHARED => g = f
    BY <1>2, <2>1, Facts DEF LevelInv
  <2>4. \A g \in FilesOf(p) : file'[g].eFileLock > SHARED => g = f
    BY <2>2, <2>3
  <2>5. file[f].eFileLock = EXCLUSIVE => Sharers(p) = {f}
    BY <1>2, <2>1, Facts DEF LevelInv
  <2>6. Sharers(p)' = Sharers(p) \cup {f}
    BY <1>1, <1>6, Facts, Counts
  <2>7. v.eFileLock > SHARED => v.pc = "release"
    BY <1>6, LevelFacts
  <2>8. v.eFileLock = EXCLUSIVE => Sharers(p)' = {f}
    BY <1>6, <2>5, <2>6, LevelFacts
  <2>9. v.eFileLock >= SHARED
    BY <1>2, <1>6, LevelFacts
  <2> QED BY <1>7, <1>8, <2>1, <2>4, <2>7, <2>8, <2>9, LevelFacts DEF LevelInv, At
<1>11. CallInv(f)' /\ KernelInv(f)'
  BY <1>2, <1>3, <1>4, <1>6, <1>8, LevelFacts DEF CallInv, KernelInv
<1>12. v.pc \notin InMutex => Settled(p)'
  <2>1. v.pc \notin InMutex => file[f].arg = SHARED
    BY <1>6 DEF InMutex
  <2> QED BY <1>2, <1>3, <1>4, <1>7, <1>8, <2>1, LevelFacts DEF Settled
<1> QED BY <1>1, <1>3, <1>4, <1>5, <1>6, <1>7, <1>9, <1>10, <1>11, <1>12, LocalStep

\* The record of a process that one reader less uses.
Released(p) ==
  LET i    == [inode[p] EXCEPT !.nShared = @ - 1, !.nLock = @ - 1]
      left == [i EXCEPT !.eFileLock = IF i.nShared = 0 THEN NO_LOCK ELSE @]
  IN IF left.nLock = 0 THEN ClosePendingFds(left) ELSE left

LEMMA ReleasedRecords ==
  ASSUME NEW p, inode[p] \in InodeRecord, inode[p].nShared # 0,
         inode[p].nLock = inode[p].nShared
  PROVE  /\ Released(p) \in InodeRecord /\ Released(p).nRef = inode[p].nRef
         /\ Released(p).nShared = inode[p].nShared - 1 /\ Released(p).nLock = Released(p).nShared
         /\ Released(p).eFileLock = IF inode[p].nShared = 1 THEN NO_LOCK ELSE inode[p].eFileLock
         /\ Released(p).nUnused = IF inode[p].nShared = 1 THEN 0 ELSE inode[p].nUnused
<1> DEFINE r == inode[p]
           n == r.nShared - 1
           e == IF n = 0 THEN NO_LOCK ELSE r.eFileLock
           u == IF n = 0 THEN 0 ELSE r.nUnused
           s == [nRef |-> r.nRef, nShared |-> n, nLock |-> n, eFileLock |-> e, nUnused |-> u]
<1>1. /\ r.nRef \in Nat /\ r.nShared \in Nat /\ r.nUnused \in Nat /\ r.eFileLock \in Levels
      /\ n \in Nat /\ r.nLock - 1 = n /\ (n = 0 <=> r.nShared = 1)
  BY RecordTypes
<1>2. Released(p) = s
  <2> DEFINE i    == [r EXCEPT !.nShared = @ - 1, !.nLock = @ - 1]
             left == [i EXCEPT !.eFileLock = IF i.nShared = 0 THEN NO_LOCK ELSE @]
  <2>1. i = [nRef |-> r.nRef, nShared |-> n, nLock |-> n, eFileLock |-> r.eFileLock,
             nUnused |-> r.nUnused]
    <3>1. i = [r EXCEPT !.nShared = n, !.nLock = n]
      <4>1. r.nLock - 1 = n /\ r.nShared - 1 = n
        BY <1>1
      <4>2. i = [r EXCEPT !.nShared = r.nShared - 1, !.nLock = r.nLock - 1]
        OBVIOUS
      <4> HIDE DEF i, n
      <4> QED BY <4>1, <4>2, Zenon
    <3> HIDE DEF i, n
    <3> QED BY <3>1, RecordTypes
  <2>2. i.nShared = n /\ i.eFileLock = r.eFileLock
    BY <2>1
  <2>3. left = [i EXCEPT !.eFileLock = e]
    BY <2>2
  <2>4. left = [nRef |-> r.nRef, nShared |-> n, nLock |-> n, eFileLock |-> e,
                nUnused |-> r.nUnused]
    <3> HIDE DEF n, e, i
    <3> QED BY <2>1, <2>3
  <2>5. Released(p) = IF left.nLock = 0 THEN ClosePendingFds(left) ELSE left
    BY DEF Released
  <2>6. left.nLock = n
    <3> HIDE DEF n, e, left
    <3> QED BY <2>4
  <2>7. CASE n = 0
    <3>1. Released(p) = [left EXCEPT !.nUnused = 0]
      BY <2>5, <2>6, <2>7 DEF ClosePendingFds
    <3>2. u = 0
      BY <2>7
    <3> HIDE DEF n, e, u, left
    <3> QED BY <2>4, <3>1, <3>2
  <2>8. CASE n # 0
    <3>1. Released(p) = left /\ u = r.nUnused
      BY <2>5, <2>6, <2>8
    <3> QED BY <2>4, <3>1
  <2> QED BY <2>7, <2>8
<1>3. e \in Levels /\ u \in Nat
  BY <1>1, LevelFacts
<1>4. s \in InodeRecord
  <2> HIDE DEF n, e, u
  <2> QED BY <1>1, <1>3, RecordTypes
<1>5. s.nRef = r.nRef /\ s.nShared = n /\ s.nLock = n /\ s.eFileLock = e /\ s.nUnused = u
  OBVIOUS
<1> HIDE DEF s
<1> QED BY <1>1, <1>2, <1>4, <1>5

\* The last of the readers unlocks the file; the others keep what they share.
LEMMA ReleaseStep ==
  ASSUME IInv, NEW f \in File, Release(f)
  PROVE  IInv'
<1> DEFINE p  == Home[f]
           pc == IF file[f].closing THEN "close" ELSE "idle"
           v  == [file[f] EXCEPT !.eFileLock = NO_LOCK, !.pc = pc]
           i  == Released(p)
           n  == inode[p].nShared
           k  == IF n = 1 THEN Unlocked ELSE fcntl[p]
<1>1. /\ file' = [file EXCEPT ![f] = v] /\ inode' = [inode EXCEPT ![p] = i]
      /\ file[f].pc = "release" /\ file[f].pc \in InMutex
  BY DEF Release, SetFile, SetInode, Info, Released, At, InMutex
<1>2. /\ file[f] \in FileRecord /\ file[f].eFileLock \in Levels /\ file[f].eFileLock > NO_LOCK
      /\ p \in Process /\ f \in FilesOf(p) /\ FilesOf(p) \subseteq File /\ FilesOf(p)' = FilesOf(p)
      /\ inode[p] \in InodeRecord /\ inode[p].eFileLock \in Levels
  BY <1>1, Facts, HomeFacts, RecordTypes DEF CallInv, FilesOf
<1>3. file[f].eFileLock # NO_LOCK /\ f \in Sharers(p)
  BY <1>2, LevelFacts DEF Sharers
<1>4. n \in Nat /\ n # 0 /\ inode[p].nLock = n /\ inode[p].nRef \in Nat /\ CountInv(p)
  BY <1>3, Facts, CountFacts
<1>5. v \in FileRecord /\ v.pc = pc /\ v.eFileLock = NO_LOCK
  <2>1. pc \in Pcs /\ NO_LOCK \in Levels
    BY LevelFacts DEF Pcs
  <2> HIDE DEF pc
  <2>2. v \in FileRecord
    BY <1>2, <2>1, RecordTypes
  <2>3. v.pc = pc /\ v.eFileLock = NO_LOCK
    BY <1>2, <2>1, RecordTypes
  <2> QED BY <2>2, <2>3
<1>6. /\ i \in InodeRecord /\ i.nRef = inode[p].nRef
      /\ i.nShared = n - 1 /\ i.nLock = i.nShared
      /\ i.eFileLock = IF n = 1 THEN NO_LOCK ELSE inode[p].eFileLock
      /\ i.nUnused = IF n = 1 THEN 0 ELSE inode[p].nUnused
  BY <1>2, <1>4, ReleasedRecords
<1>7. fcntl' = [fcntl EXCEPT ![p] = k]
  <2> DEFINE j    == [inode[p] EXCEPT !.nShared = @ - 1, !.nLock = @ - 1]
             left == [j EXCEPT !.eFileLock = IF j.nShared = 0 THEN NO_LOCK ELSE @]
  <2>1. IF j.nShared = 0 \/ (left.nLock = 0 /\ left.nUnused > 0)
        THEN DropAll(p) ELSE UNCHANGED fcntl
    BY DEF Release, Info
  <2>2. j.nShared = n - 1 /\ left.nLock = inode[p].nLock - 1
    BY <1>2, RecordTypes
  <2> HIDE DEF j, left
  <2>3. j.nShared = 0 <=> n = 1
    BY <1>4, <2>2
  <2>4. left.nLock = 0 <=> n = 1
    BY <1>4, <2>2
  <2>5. CASE n = 1
    BY <2>1, <2>3, <2>5 DEF DropAll
  <2>6. CASE n # 1
    <3>1. UNCHANGED fcntl
      BY <2>1, <2>3, <2>4, <2>6
    <3> QED BY <2>6, <3>1, Facts
  <2> QED BY <2>5, <2>6
<1>8. k \in [Bytes -> Modes] /\ Granted(p, k)
  <2>1. Unlocked \in [Bytes -> Modes] /\ \A b \in Bytes : Unlocked[b] = "none"
    BY DEF Unlocked, Modes
  <2>2. Granted(p, Unlocked)
    BY <2>1, GrantedLess
  <2> QED BY <2>1, <2>2, Facts
<1>9. pc \in {"close", "idle"}
  OBVIOUS
<1> HIDE DEF v, i, k, pc
<1>10. file'[f] = v /\ inode'[p] = i /\ fcntl'[p] = k
  BY <1>1, <1>7, Facts
<1>11. Sharers(p)' = Sharers(p) \ {f}
  BY <1>1, <1>5, <1>4, Facts, Counts
<1>12. CountInv(p)' /\ (n = 1 => Sharers(p)' = {}) /\ (n # 1 => Sharers(p)' # {})
  <2>1. /\ Shares(v) = 0 /\ Shares(file[f]) = 1 /\ Uses(v) = 1 /\ Uses(file[f]) = 1
    BY <1>1, <1>3, <1>5, <1>9 DEF Shares, Uses
  <2>2. /\ IsFiniteSet(Sharers(p)') /\ IsFiniteSet(Users(p)')
        /\ Cardinality(Sharers(p)') = n + Shares(v) - Shares(file[f])
        /\ Cardinality(Users(p)') = inode[p].nRef + Uses(v) - Uses(file[f])
    BY <1>1, <1>4, <1>5, Facts, Counts
  <2>3. /\ Cardinality(Sharers(p)') = n - 1
        /\ Cardinality(Users(p)') = inode[p].nRef
    BY <1>4, <2>1, <2>2
  <2>4. i.nUnused > 0 => i.nLock > 0
    BY <1>4, <1>6
  <2>5. CountInv(p)'
    BY <1>6, <1>10, <2>2, <2>3, <2>4 DEF CountInv
  <2>6. Cardinality(Sharers(p)') = 0 <=> Sharers(p)' = {}
    BY <2>2, FS_EmptySet
  <2>7. n - 1 = 0 <=> n = 1
    BY <1>4
  <2> QED BY <2>3, <2>5, <2>6, <2>7
<1>13. \A g \in FilesOf(p) : g # f => file'[g] = file[g] /\ file[g].pc \notin InMutex
  BY <1>1, <1>2, <1>5, Mutex
<1>14. n # 1 => \E g \in FilesOf(p) : g # f /\ file[g].eFileLock # NO_LOCK
  BY <1>2, <1>11, <1>12 DEF Sharers
<1>15. LevelInv(p)'
  <2>1. CASE n = 1
    <3>1. \A g \in FilesOf(p) : file'[g].eFileLock = NO_LOCK
      BY <1>2, <1>12, <2>1 DEF Sharers
    <3>2. inode'[p].eFileLock = NO_LOCK
      BY <1>6, <1>10, <2>1
    <3> QED BY <1>2, <1>12, <2>1, <3>1, <3>2, LevelFacts DEF LevelInv
  <2>2. CASE n # 1
    <3>1. inode'[p].eFileLock = inode[p].eFileLock
      BY <1>6, <1>10, <2>2
    <3>2. inode[p].eFileLock # NO_LOCK
      BY <1>3, Facts DEF LevelInv
    <3>3. PICK h \in FilesOf(p) : h # f /\ file[h].eFileLock # NO_LOCK
      BY <1>14, <2>2
    <3>4. file[h].eFileLock \in Levels
      BY <1>2, Facts, RecordTypes
    <3>5. \E g \in FilesOf(p) : file'[g].eFileLock >= inode[p].eFileLock
      <4>1. PICK g \in FilesOf(p) : file[g].eFileLock >= inode[p].eFileLock
        BY <3>2, Facts DEF LevelInv
      <4>2. CASE g # f
        BY <1>13, <4>1, <4>2
      <4>3. CASE g = f
        <5>1. file[f].eFileLock > SHARED => inode[p].eFileLock = SHARED
          BY <1>1, <1>2, Facts DEF LevelInv, At
        <5>2. inode[p].eFileLock = SHARED
          BY <1>2, <3>2, <4>1, <4>3, <5>1, LevelFacts
        <5>3. file[h].eFileLock >= SHARED
          BY <3>3, <3>4, LevelFacts
        <5> QED BY <1>13, <3>3, <5>2, <5>3
      <4> QED BY <4>2, <4>3
    <3>6. ASSUME NEW g \in FilesOf(p), file'[g].eFileLock > SHARED
          PROVE  /\ inode[p].eFileLock = IF file'[g].pc = "release" THEN SHARED
                                                                     ELSE file'[g].eFileLock
                 /\ \A x \in FilesOf(p) : file'[x].eFileLock > SHARED => g = x
                 /\ file'[g].eFileLock # EXCLUSIVE
      <4>1. g # f
        BY <1>5, <1>10, <3>6, LevelFacts
      <4>2. file'[g] = file[g] /\ file[g].eFileLock > SHARED
        BY <1>13, <3>6, <4>1
      <4>3. \A x \in FilesOf(p) : file'[x].eFileLock > SHARED => file[x].eFileLock > SHARED
        BY <1>5, <1>10, <1>13, LevelFacts
      <4>4. file[g].eFileLock = EXCLUSIVE => Sharers(p) = {g}
        BY <4>2, Facts DEF LevelInv
      <4>5. file[g].eFileLock # EXCLUSIVE
        BY <1>3, <4>1, <4>4
      <4> QED BY <4>2, <4>3, <4>5, Facts DEF LevelInv, At
    <3> QED BY <1>2, <3>1, <3>2, <3>5, <3>6 DEF LevelInv, At
  <2> QED BY <2>1, <2>2
<1>16. CallInv(f)' /\ KernelInv(f)'
  BY <1>5, <1>9, <1>10 DEF CallInv, KernelInv
<1>17. Settled(p)'
  <2>1. CASE n = 1
    <3>1. k["shared"] = "none" /\ k["pending"] = "none" /\ k["reserved"] = "none"
      BY <2>1, ByteFacts DEF k, Unlocked
    <3> QED BY <1>6, <1>10, <2>1, <3>1, LevelFacts DEF Settled
  <2>2. CASE n # 1 /\ file[f].eFileLock = SHARED
    <3>1. Settled(p)
      BY <1>1, <2>2, Facts DEF KernelInv
    <3>2. k = fcntl[p]
      BY <2>2 DEF k
    <3> QED BY <1>6, <1>10, <2>2, <3>1, <3>2 DEF Settled
  <2>3. CASE n # 1 /\ file[f].eFileLock > SHARED
    <3>1. inode[p].eFileLock = SHARED /\ (file[f].eFileLock = EXCLUSIVE => Sharers(p) = {f})
      BY <1>1, <1>2, <2>3, Facts DEF LevelInv, At
    <3>2. file[f].eFileLock # EXCLUSIVE
      BY <1>11, <1>12, <2>3, <3>1
    <3>3. k["shared"] = "read" /\ k["pending"] = "none" /\ k["reserved"] = "none"
      BY <1>1, <2>3, <3>2, Facts DEF k, KernelInv
    <3> QED BY <1>6, <1>10, <2>3, <3>1, <3>3, LevelFacts DEF Settled
  <2> QED BY <1>2, <2>1, <2>2, <2>3, LevelFacts
<1> QED BY <1>1, <1>5, <1>6, <1>7, <1>8, <1>12, <1>15, <1>16, <1>17, LocalStep

\* A close that is not deferred, or that leaves no record, drops no lock of the process:
\* none of its connections has one then.
LEMMA CloseFacts ==
  ASSUME IInv, NEW f \in File, Close(f)
  PROVE  LET p == Home[f]  i == inode'[p]
         IN /\ UNCHANGED fcntl /\ inode' = [inode EXCEPT ![p] = i]
            /\ file' = [file EXCEPT ![f] = ClosedFile]
            /\ file[f].pc = "close" /\ file[f].eFileLock = NO_LOCK /\ MutexFree(p)
            /\ Cardinality(Users(p)') = i.nRef /\ Cardinality(Sharers(p)') = i.nShared
            /\ IsFiniteSet(Users(p)') /\ IsFiniteSet(Sharers(p)')
            /\ i \in InodeRecord /\ i.nShared = inode[p].nShared /\ i.nLock = i.nShared
            /\ i.eFileLock = inode[p].eFileLock /\ (i.nUnused > 0 => i.nLock > 0)
<1> DEFINE p == Home[f]
           r == inode[p]
           m == r.nRef - 1
           u == IF MustDefer(f) THEN r.nUnused + 1 ELSE r.nUnused
           j == [r EXCEPT !.nRef = m, !.nUnused = u]
           i == IF m = 0 THEN NoInode ELSE j
<1>1. /\ p \in Process /\ f \in FilesOf(p) /\ FilesOf(p) \subseteq File
      /\ r \in InodeRecord /\ CountInv(p) /\ Settled(p)
      /\ MutexFree(p) /\ file[f].pc = "close" /\ file[f].eFileLock = NO_LOCK
      /\ file' = [file EXCEPT ![f] = ClosedFile]
  BY Facts, HomeFacts DEF Close, SetFile, At, CallInv
<1>2. /\ r.nRef \in Nat /\ r.nShared \in Nat /\ r.nLock = r.nShared /\ r.nUnused \in Nat
      /\ r.eFileLock \in Levels
  BY <1>1, RecordTypes DEF CountInv
<1>3. f \in Users(p) /\ r.nRef # 0 /\ m \in Nat
  <2>1. f \in Users(p)
    BY <1>1 DEF Users
  <2>2. r.nRef # 0
    BY <1>1, <2>1, CountFacts
  <2> QED BY <1>2, <2>1, <2>2
<1>4. u \in Nat
  BY <1>2
<1>5. ClosedFile \in FileRecord /\ ClosedFile.pc = "closed" /\ ClosedFile.eFileLock = NO_LOCK
  BY Records DEF ClosedFile
<1>6. /\ Cardinality(Users(p)') = m /\ Cardinality(Sharers(p)') = r.nShared
      /\ IsFiniteSet(Users(p)') /\ IsFiniteSet(Sharers(p)')
      /\ Sharers(p)' = Sharers(p)
  <2>1. /\ Shares(ClosedFile) = 0 /\ Shares(file[f]) = 0 /\ Uses(ClosedFile) = 0
        /\ Uses(file[f]) = 1
    BY <1>1, <1>5 DEF Shares, Uses
  <2>2. /\ IsFiniteSet(Sharers(p)') /\ IsFiniteSet(Users(p)')
        /\ Sharers(p)' = Sharers(p) \ {f}
        /\ Cardinality(Sharers(p)') = r.nShared + Shares(ClosedFile) - Shares(file[f])
        /\ Cardinality(Users(p)') = r.nRef + Uses(ClosedFile) - Uses(file[f])
    BY <1>1, <1>5, Facts, Counts
  <2>3. f \notin Sharers(p)
    BY <1>1 DEF Sharers
  <2> QED BY <1>2, <2>1, <2>2, <2>3
<1>7. m = 0 => Sharers(p) = {} /\ ~MustDefer(f)
  <2>1. SUFFICES ASSUME m = 0 PROVE Sharers(p) = {} /\ ~MustDefer(f)
    OBVIOUS
  <2>2. Users(p)' = {}
    BY <1>6, <2>1, FS_EmptySet
  <2>3. FilesOf(p)' = FilesOf(p) /\ \A g \in FilesOf(p) : g # f => file'[g] = file[g]
    BY <1>1, Facts DEF FilesOf
  <2>4. \A g \in FilesOf(p) : g # f => file[g].pc \in {"closed", "opening"}
    BY <2>2, <2>3 DEF Users
  <2>5. \A g \in FilesOf(p) : g # f => file[g].eFileLock = NO_LOCK
    <3>1. \A g \in FilesOf(p) : CallInv(g)
      BY <1>1 DEF IInv, ProcessInv
    <3> QED BY <2>4, <3>1 DEF CallInv
  <2>6. Sharers(p) = {}
    BY <1>1, <2>5 DEF Sharers
  <2>7. r.nShared = 0
    BY <1>1, <2>6, CountFacts
  <2> QED BY <1>2, <2>6, <2>7 DEF MustDefer, Info
<1>8. ~MustDefer(f) => Sharers(p) = {} /\ r.nUnused = 0
  <2>1. ~MustDefer(f) => r.nShared = 0
    BY <1>2 DEF MustDefer, Info
  <2>2. r.nShared = 0 => Sharers(p) = {}
    BY <1>1, CountFacts
  <2>3. ~MustDefer(f) => ~(r.nUnused > 0)
    BY <1>1, <2>1 DEF CountInv, MustDefer, Info
  <2> QED BY <1>2, <2>1, <2>2, <2>3
<1>9. /\ j = [r EXCEPT !.nRef = @ - 1, !.nUnused = IF MustDefer(f) THEN @ + 1 ELSE @]
      /\ j \in InodeRecord /\ j.nRef = m /\ j.nUnused = u
      /\ j.nShared = r.nShared /\ j.nLock = r.nLock /\ j.eFileLock = r.eFileLock
  <2>1. j = [r EXCEPT !.nRef = @ - 1, !.nUnused = IF MustDefer(f) THEN @ + 1 ELSE @]
    OBVIOUS
  <2> HIDE DEF m, u, r
  <2>2. j \in InodeRecord
    BY <1>1, <1>3, <1>4, RecordTypes
  <2>3. /\ j.nRef = m /\ j.nUnused = u
        /\ j.nShared = r.nShared /\ j.nLock = r.nLock /\ j.eFileLock = r.eFileLock
    BY <1>1, <1>3, <1>4, RecordTypes
  <2> QED BY <2>1, <2>2, <2>3
<1>10. /\ inode' = [inode EXCEPT ![p] = i]
       /\ IF ~MustDefer(f) \/ (m = 0 /\ u > 0) THEN DropAll(p) ELSE UNCHANGED fcntl
  <2> DEFINE q == [r EXCEPT !.nRef = @ - 1, !.nUnused = IF MustDefer(f) THEN @ + 1 ELSE @]
  <2>1. /\ inode' = [inode EXCEPT ![p] = IF q.nRef = 0 THEN NoInode ELSE q]
        /\ IF ~MustDefer(f) \/ (q.nRef = 0 /\ q.nUnused > 0) THEN DropAll(p)
           ELSE UNCHANGED fcntl
    BY DEF Close, SetInode, Info
  <2>2. q = j /\ q.nRef = m /\ q.nUnused = u
    BY <1>9
  <2> HIDE DEF q, j
  <2> QED BY <2>1, <2>2
<1>11. UNCHANGED fcntl
  <2>1. CASE MustDefer(f)
    BY <1>7, <1>10, <2>1
  <2>2. CASE ~MustDefer(f)
    <3>1. fcntl[p] = Unlocked
      BY <1>1, <1>8, <2>2, DropNothing
    <3> QED BY <1>10, <2>2, <3>1, Facts DEF DropAll
  <2> QED BY <2>1, <2>2
<1>12. /\ i \in InodeRecord /\ i.nRef = m /\ i.nShared = r.nShared /\ i.nLock = r.nLock
       /\ i.eFileLock = r.eFileLock /\ (i.nUnused > 0 => i.nLock > 0)
  <2>1. CASE m = 0
    <3>1. r.eFileLock = NO_LOCK /\ r.nShared = 0
      BY <1>1, <1>7, <2>1, NoSharers, CountFacts
    <3>2. /\ NoInode \in InodeRecord /\ NoInode.nRef = 0 /\ NoInode.nShared = 0
          /\ NoInode.nLock = 0 /\ NoInode.eFileLock = NO_LOCK /\ NoInode.nUnused = 0
      BY InodeRecords DEF NoInode
    <3>3. i = NoInode
      BY <2>1
    <3> QED BY <1>2, <2>1, <3>1, <3>2, <3>3
  <2>2. CASE m # 0
    <3>1. i = j
      BY <2>2
    <3>2. u > 0 => r.nLock > 0
      BY <1>2, <1>8 DEF MustDefer, Info
    <3> HIDE DEF i, j, m, u, r
    <3> QED BY <1>9, <3>1, <3>2
  <2> QED BY <2>1, <2>2
<1>13. inode'[p] = i
  BY <1>1, <1>10, Facts
<1> HIDE DEF i, j, m, u
<1> QED BY <1>1, <1>2, <1>6, <1>10, <1>11, <1>12, <1>13

LEMMA CloseStep ==
  ASSUME IInv, NEW f \in File, Close(f)
  PROVE  IInv'
<1> DEFINE p == Home[f]  i == inode'[p]
<1>1. /\ UNCHANGED fcntl /\ inode' = [inode EXCEPT ![p] = i]
      /\ file' = [file EXCEPT ![f] = ClosedFile]
      /\ file[f].pc = "close" /\ file[f].eFileLock = NO_LOCK /\ MutexFree(p)
      /\ Cardinality(Users(p)') = i.nRef /\ Cardinality(Sharers(p)') = i.nShared
      /\ IsFiniteSet(Users(p)') /\ IsFiniteSet(Sharers(p)')
      /\ i \in InodeRecord /\ i.nShared = inode[p].nShared /\ i.nLock = i.nShared
      /\ i.eFileLock = inode[p].eFileLock /\ (i.nUnused > 0 => i.nLock > 0)
  BY CloseFacts
<1>2. ClosedFile \in FileRecord /\ ClosedFile.pc = "closed" /\ ClosedFile.eFileLock = NO_LOCK
  BY Records DEF ClosedFile
<1>3. /\ file'[f] = ClosedFile
      /\ fcntl' = [fcntl EXCEPT ![p] = fcntl[p]] /\ fcntl[p] \in [Bytes -> Modes]
      /\ Granted(p, fcntl[p]) /\ fcntl'[p] = fcntl[p] /\ Settled(p)
  BY <1>1, Facts
<1>4. CountInv(p)'
  BY <1>1 DEF CountInv
<1>5. LevelInv(p)'
  BY <1>1, <1>2, LevelFacts, SameLevels
<1>6. CallInv(f)' /\ KernelInv(f)'
  BY <1>2, <1>3 DEF CallInv, KernelInv
<1>7. Settled(p)'
  BY <1>1, <1>3 DEF Settled
<1> QED BY <1>1, <1>2, <1>3, <1>4, <1>5, <1>6, <1>7, LocalStep

-----------------------------------------------------------------------------
(* The end of a process, and its beginning.                                  *)

\* Nothing is left of a process none of whose connections is open.
LEMMA NothingLeft ==
  ASSUME NEW p \in Process, \A f \in FilesOf(p) : file[f] = ClosedFile,
         inode[p] = NoInode, fcntl[p] = Unlocked
  PROVE  ProcessInv(p)
<1>1. ClosedFile.pc = "closed" /\ ClosedFile.eFileLock = NO_LOCK
  BY DEF ClosedFile
<1>2. /\ NoInode.nRef = 0 /\ NoInode.nShared = 0
      /\ NoInode.nLock = 0 /\ NoInode.eFileLock = NO_LOCK /\ NoInode.nUnused = 0
  BY DEF NoInode
<1>3. Unlocked["shared"] = "none" /\ Unlocked["pending"] = "none" /\ Unlocked["reserved"] = "none"
  BY ByteFacts DEF Unlocked
<1>4. Sharers(p) = {} /\ Users(p) = {}
  BY <1>1 DEF Sharers, Users
<1>5. CountInv(p)
  BY <1>2, <1>4, FS_EmptySet DEF CountInv
<1>6. LevelInv(p)
  BY <1>1, <1>2, <1>4, LevelFacts DEF LevelInv
<1>7. Settled(p)
  BY <1>2, <1>3, LevelFacts DEF Settled
<1>8. MutexInv(p)
  BY <1>1 DEF MutexInv, InMutex
<1>9. \A f \in FilesOf(p) : CallInv(f) /\ KernelInv(f)
  BY <1>1 DEF CallInv, KernelInv
<1> QED BY <1>5, <1>6, <1>7, <1>8, <1>9 DEF ProcessInv

LEMMA UnlockedFacts ==
  /\ Unlocked \in [Bytes -> Modes] /\ \A b \in Bytes : Unlocked[b] = "none"
BY DEF Unlocked, Modes

LEMMA KillStep ==
  ASSUME IInv, NEW p \in Process, Kill(p)
  PROVE  IInv'
<1>1. /\ file' = [f \in File |-> IF Home[f] = p THEN ClosedFile ELSE file[f]]
      /\ inode' = [inode EXCEPT ![p] = NoInode] /\ fcntl' = [fcntl EXCEPT ![p] = Unlocked]
  BY DEF Kill, DropAll
<1>2. /\ file \in [File -> FileRecord] /\ inode \in [Process -> InodeRecord]
      /\ fcntl \in [Process -> [Bytes -> Modes]]
      /\ ClosedFile \in FileRecord /\ NoInode \in InodeRecord /\ Unlocked \in [Bytes -> Modes]
  BY Records, InodeRecords, UnlockedFacts DEF IInv, TypeOK, FileRecord, InodeRecord, Modes
<1>3. /\ file' \in [File -> FileRecord] /\ inode' \in [Process -> InodeRecord]
      /\ fcntl' \in [Process -> [Bytes -> Modes]]
  BY <1>1, <1>2
<1>4. TypeOK'
  BY <1>3 DEF TypeOK, FileRecord, InodeRecord, Modes
<1>5. \A q \in Process : FilesOf(q)' = FilesOf(q) /\ FilesOf(q) \subseteq File
  BY DEF FilesOf
<1>6. ProcessInv(p)'
  <2>1. /\ \A f \in FilesOf(p) : file'[f] = ClosedFile
        /\ inode'[p] = NoInode /\ fcntl'[p] = Unlocked
    BY <1>1, <1>2 DEF FilesOf
  <2>2. ClosedFile.pc = "closed" /\ ClosedFile.eFileLock = NO_LOCK
    BY DEF ClosedFile
  <2>3. /\ NoInode.nRef = 0 /\ NoInode.nShared = 0
        /\ NoInode.nLock = 0 /\ NoInode.eFileLock = NO_LOCK /\ NoInode.nUnused = 0
    BY DEF NoInode
  <2>4. Sharers(p)' = {} /\ Users(p)' = {}
    BY <1>5, <2>1, <2>2 DEF Sharers, Users
  <2>5. CountInv(p)'
    BY <2>1, <2>3, <2>4, FS_EmptySet DEF CountInv
  <2>6. LevelInv(p)'
    BY <1>5, <2>1, <2>2, <2>3, <2>4, LevelFacts DEF LevelInv
  <2>7. Settled(p)'
    BY <2>1, <2>3, UnlockedFacts, ByteFacts, LevelFacts DEF Settled
  <2>8. MutexInv(p)'
    BY <1>5, <2>1, <2>2 DEF MutexInv, InMutex
  <2>9. \A f \in FilesOf(p) : CallInv(f)' /\ KernelInv(f)'
    BY <2>1, <2>2 DEF CallInv, KernelInv
  <2> QED BY <1>5, <2>5, <2>6, <2>7, <2>8, <2>9 DEF ProcessInv
<1>7. ASSUME NEW q \in Process, q # p PROVE ProcessInv(q)'
  <2>1. /\ \A g \in FilesOf(q) : file'[g] = file[g]
        /\ inode'[q] = inode[q] /\ fcntl'[q] = fcntl[q]
    BY <1>1, <1>2, <1>7 DEF FilesOf
  <2> QED BY <2>1, OtherProcess DEF IInv
<1>8. Compatible'
  BY <1>1, <1>2, UnlockedFacts DEF IInv, Compatible
<1> QED BY <1>4, <1>6, <1>7, <1>8 DEF IInv

LEMMA InitIInv == Init => IInv
<1> SUFFICES ASSUME Init PROVE IInv
  OBVIOUS
<1>1. /\ file = [f \in File |-> ClosedFile] /\ inode = [p \in Process |-> NoInode]
      /\ fcntl = [p \in Process |-> Unlocked]
  BY DEF Init
<1>2. ClosedFile \in FileRecord /\ NoInode \in InodeRecord /\ Unlocked \in [Bytes -> Modes]
  BY Records, InodeRecords, UnlockedFacts
<1>3. TypeOK
  BY <1>1, <1>2 DEF TypeOK, FileRecord, InodeRecord, Modes
<1>4. ASSUME NEW p \in Process PROVE ProcessInv(p)
  BY <1>1, NothingLeft DEF FilesOf
<1>5. Compatible
  BY <1>1, UnlockedFacts DEF Compatible
<1> QED BY <1>3, <1>4, <1>5 DEF IInv

\* A step that is no step at all.
LEMMA Stutter ==
  ASSUME IInv, UNCHANGED vars
  PROVE  IInv'
<1>1. file' = file /\ inode' = inode /\ fcntl' = fcntl
  BY DEF vars
<1>2. ASSUME NEW q \in Process PROVE ProcessInv(q)'
  BY <1>1, OtherProcess DEF IInv
<1>3. TypeOK' /\ Compatible'
  BY <1>1 DEF IInv, TypeOK, Compatible
<1> QED BY <1>2, <1>3 DEF IInv

LEMMA NextIInv ==
  ASSUME IInv, [Next]_vars
  PROVE  IInv'
<1>1. CASE UNCHANGED vars
  BY <1>1, Stutter
<1>2. ASSUME NEW p \in Process, Kill(p) PROVE IInv'
  BY <1>2, KillStep
<1>3. ASSUME NEW f \in File, Open(f) \/ FindInodeInfo(f) \/ OpenFails(f) PROVE IInv'
  BY <1>3, OpenStep, FindInodeInfoStep, OpenFailsStep
<1>4. ASSUME NEW f \in File, LockCounted(f) PROVE IInv'
  BY <1>4, LockCountedStep
<1>5. ASSUME NEW f \in File, Continue(f) PROVE IInv'
  <2>1. CASE PendingByte(f)
    BY <2>1, PendingByteStep
  <2>2. CASE SharedRange(f)
    BY <2>2, SharedRangeStep
  <2>3. CASE DropPending(f)
    <3>1. At(f, "dropPending") \/ At(f, "dropBusy")
      BY <2>3 DEF DropPending
    <3> QED BY <2>3, <3>1, DropPendingStep, DropBusyStep
  <2>4. CASE WriteLock(f)
    BY <2>4, WriteLockStep
  <2>5. CASE Downgrade(f)
    BY <2>5, DowngradeStep
  <2>6. CASE ClearPending(f)
    BY <2>6, ClearPendingStep
  <2>7. CASE Release(f)
    BY <2>7, ReleaseStep
  <2> QED BY <1>5, <2>1, <2>2, <2>3, <2>4, <2>5, <2>6, <2>7 DEF Continue
<1>6. ASSUME NEW f \in File, CloseUnlocked(f) \/ Close(f) PROVE IInv'
  BY <1>6, CloseUnlockedStep, CloseStep
<1>7. ASSUME NEW f \in File, NEW l \in {SHARED, RESERVED, EXCLUSIVE}, LockEnter(f, l)
      PROVE  IInv'
  BY <1>7, LockEnterStep
<1>8. ASSUME NEW f \in File, NEW l \in {NO_LOCK, SHARED}, NEW c \in BOOLEAN,
             UnlockEnter(f, l, c)
      PROVE  IInv'
  BY <1>8, UnlockEnterStep
<1>9. ASSUME NEW f \in File, UnlockEnter(f, SHARED, FALSE) PROVE IInv'
  <2>1. FALSE \in BOOLEAN
    OBVIOUS
  <2> QED BY <1>8, <1>9, <2>1
<1>10. CASE Next
  <2>1. CASE \E p \in Process : Kill(p)
    BY <1>2, <2>1
  <2>2. CASE \E f \in File :
               \/ Open(f) \/ FindInodeInfo(f) \/ OpenFails(f)
               \/ LockCounted(f) \/ Continue(f)
               \/ CloseUnlocked(f) \/ Close(f)
               \/ \E l \in {SHARED, RESERVED, EXCLUSIVE} : LockEnter(f, l)
               \/ UnlockEnter(f, SHARED, FALSE)
               \/ \E closing \in BOOLEAN : UnlockEnter(f, NO_LOCK, closing)
    BY <1>3, <1>4, <1>5, <1>6, <1>7, <1>8, <1>9, <2>2, Zenon
  <2> QED BY <1>10, <2>1, <2>2 DEF Next
<1> QED BY <1>1, <1>10

LEMMA Invariant == Spec => []IInv
BY InitIInv, NextIInv, PTL DEF Spec

-----------------------------------------------------------------------------
(* The theorems.                                                             *)

\* Every unixFile, unixInodeInfo and lock table keeps its shape.
THEOREM TypeCorrect == Spec => []TypeOK
<1>1. IInv => TypeOK
  BY DEF IInv
<1> QED BY <1>1, Invariant, PTL

\* Between two calls the level of the process is that of its highest connection.
LEMMA ProcessLevel ==
  ASSUME IInv, NEW p \in Process, MutexFree(p)
  PROVE  /\ \A l \in {RESERVED, PENDING, EXCLUSIVE} : l \in Level(p) <=> inode[p].eFileLock = l
         /\ Level(p) \subseteq {NO_LOCK} <=> inode[p].eFileLock = NO_LOCK
         /\ inode[p].eFileLock \in Levels /\ Settled(p)
<1> DEFINE e == inode[p].eFileLock
<1>1. /\ LevelInv(p) /\ Settled(p) /\ inode[p] \in InodeRecord
      /\ \A f \in FilesOf(p) : file[f] \in FileRecord
  BY DEF IInv, ProcessInv, TypeOK, InodeRecord, FileRecord, FilesOf
<1>2. e \in Levels /\ \A f \in FilesOf(p) : file[f].eFileLock \in Levels
  BY <1>1, RecordTypes
<1>3. \A f \in FilesOf(p) : file[f].eFileLock > SHARED => e = file[f].eFileLock
  BY <1>1 DEF LevelInv, MutexFree, At, InMutex
<1>4. e = NO_LOCK => \A f \in FilesOf(p) : file[f].eFileLock = NO_LOCK
  BY <1>1 DEF LevelInv, Sharers
<1>5. e # NO_LOCK => \E f \in FilesOf(p) : file[f].eFileLock # NO_LOCK
                       /\ (e > SHARED => file[f].eFileLock = e)
  <2>1. SUFFICES ASSUME e # NO_LOCK
                 PROVE  \E f \in FilesOf(p) : file[f].eFileLock # NO_LOCK
                          /\ (e > SHARED => file[f].eFileLock = e)
    OBVIOUS
  <2>2. PICK f \in FilesOf(p) : file[f].eFileLock >= e
    BY <1>1, <2>1 DEF LevelInv
  <2>3. file[f].eFileLock # NO_LOCK
    BY <1>2, <2>1, <2>2, LevelFacts
  <2>4. e > SHARED => file[f].eFileLock = e
    BY <1>2, <1>3, <2>2, LevelFacts
  <2> QED BY <2>3, <2>4
<1> HIDE DEF e
<1>6. \A l \in Levels : l \in Level(p) <=> \E f \in FilesOf(p) : file[f].eFileLock = l
  BY DEF Level
<1>7. ASSUME NEW l \in {RESERVED, PENDING, EXCLUSIVE} PROVE l \in Level(p) <=> e = l
  <2>1. l \in Levels /\ l > SHARED /\ l # NO_LOCK
    BY LevelFacts
  <2>2. ASSUME l \in Level(p) PROVE e = l
    BY <1>3, <1>6, <2>1, <2>2
  <2>3. ASSUME e = l PROVE l \in Level(p)
    BY <1>5, <1>6, <2>1, <2>3
  <2> QED BY <2>2, <2>3
<1>8. Level(p) \subseteq {NO_LOCK} <=> e = NO_LOCK
  <2>1. Level(p) \subseteq {NO_LOCK} <=> \A f \in FilesOf(p) : file[f].eFileLock = NO_LOCK
    BY DEF Level
  <2> QED BY <1>4, <1>5, <2>1
<1> QED BY <1>1, <1>2, <1>7, <1>8 DEF e

LEMMA IInvLocksHeld == IInv => LocksHeld
<1> SUFFICES ASSUME IInv, NEW p \in Process, MutexFree(p)
             PROVE  /\ fcntl[p] = Needed(p)
                    /\ fcntl[p].reserved = "write" =>
                         Level(p) \cap {RESERVED, PENDING, EXCLUSIVE} # {}
  BY DEF LocksHeld
<1> DEFINE e == inode[p].eFileLock
<1>1. /\ RESERVED \in Level(p) <=> e = RESERVED
      /\ PENDING \in Level(p) <=> e = PENDING
      /\ EXCLUSIVE \in Level(p) <=> e = EXCLUSIVE
      /\ Level(p) \subseteq {NO_LOCK} <=> e = NO_LOCK
      /\ e \in Levels /\ Settled(p)
  BY ProcessLevel
<1>2. /\ fcntl[p]["shared"] = IF e = EXCLUSIVE THEN "write" ELSE IF e = NO_LOCK THEN "none"
                              ELSE "read"
      /\ fcntl[p]["pending"] = IF e >= PENDING THEN "write" ELSE "none"
      /\ fcntl[p]["reserved"] # "read"
      /\ e = RESERVED => fcntl[p]["reserved"] = "write"
      /\ e < RESERVED => fcntl[p]["reserved"] = "none"
  BY <1>1 DEF Settled
<1> HIDE DEF e
<1>3. Level(p) \cap {PENDING, EXCLUSIVE} # {} <=> e >= PENDING
  <2>1. Level(p) \cap {PENDING, EXCLUSIVE} # {} <=> PENDING \in Level(p) \/ EXCLUSIVE \in Level(p)
    OBVIOUS
  <2> QED BY <1>1, <2>1, LevelFacts
<1>4. \A b \in Bytes : fcntl[p][b] = Needed(p)[b]
  <2>1. fcntl[p]["shared"] = Needed(p)["shared"]
    BY <1>1, <1>2, ByteFacts DEF Needed
  <2>2. fcntl[p]["pending"] = Needed(p)["pending"]
    BY <1>2, <1>3, ByteFacts DEF Needed
  <2>3. fcntl[p]["reserved"] = Needed(p)["reserved"]
    BY <1>1, <1>2, ByteFacts DEF Needed
  <2> QED BY <2>1, <2>2, <2>3 DEF Bytes
<1>5. fcntl[p] \in [Bytes -> Modes]
  BY DEF IInv, TypeOK, Modes
<1>6. fcntl[p] = Needed(p)
  <2> DEFINE c(b) == CASE b = "shared"   -> IF EXCLUSIVE \in Level(p) THEN "write"
                             ELSE IF Level(p) \subseteq {NO_LOCK} THEN "none" ELSE "read"
                       [] b = "pending"  -> IF Level(p) \cap {PENDING, EXCLUSIVE} # {}
                                            THEN "write" ELSE "none"
                       [] b = "reserved" -> IF RESERVED \in Level(p) THEN "write"
                                            ELSE fcntl[p][b]
  <2>1. Needed(p) = [b \in Bytes |-> c(b)]
    BY DEF Needed
  <2> HIDE DEF c
  <2> QED BY <1>4, <1>5, <2>1
<1>7. fcntl[p]["reserved"] = "write" => e \in {RESERVED, PENDING, EXCLUSIVE}
  BY <1>1, <1>2, LevelFacts
<1> QED BY <1>1, <1>6, <1>7

\* Between two calls of a process the kernel's locks are those that its connections
\* believe they hold: unixLock, posixUnlock and unixClose lose none and leave none behind.
THEOREM LocksAreHeld == Spec => []LocksHeld
BY IInvLocksHeld, Invariant, PTL

\* A descriptor whose close unixClose deferred is closed with the last lock.
THEOREM ClosesAreMadeUp == Spec => []DeferredClose
<1>1. IInv => DeferredClose
  <2> SUFFICES ASSUME IInv, NEW p \in Process, inode[p].nUnused > 0
               PROVE  \E f \in FilesOf(p) : file[f].eFileLock > NO_LOCK
    BY DEF DeferredClose
  <2>1. CountInv(p) /\ \A f \in FilesOf(p) : file[f] \in FileRecord
    BY DEF IInv, ProcessInv, TypeOK, FileRecord, FilesOf
  <2>2. inode[p].nShared # 0
    BY <2>1, CountFacts DEF CountInv
  <2>3. Sharers(p) # {}
    BY <2>1, <2>2, CountFacts
  <2>4. PICK f \in FilesOf(p) : file[f].eFileLock # NO_LOCK
    BY <2>3 DEF Sharers
  <2>5. file[f].eFileLock \in Levels
    BY <2>1, RecordTypes
  <2> QED BY <2>4, <2>5, LevelFacts
<1> QED BY <1>1, Invariant, PTL

-----------------------------------------------------------------------------
(* What the locks of a process keep the others from, in the middle of its    *)
(* calls too.                                                                *)

Giving == {"downgrade", "clearPending", "release"}

\* A connection above SHARED that is not giving its level up has the process settled
\* around it, but for the last call of its own way to EXCLUSIVE.
LEMMA WriterFacts ==
  ASSUME IInv, NEW g \in File, file[g].eFileLock > SHARED, file[g].pc \notin Giving
  PROVE  /\ inode[Home[g]].eFileLock = file[g].eFileLock
         /\ \/ Settled(Home[g])
            \/ file[g].pc = "writeLock" /\ file[g].arg = EXCLUSIVE
<1> DEFINE p == Home[g]
<1>1. /\ p \in Process /\ g \in FilesOf(p) /\ LevelInv(p) /\ file[g].eFileLock \in Levels
      /\ MutexFree(p) => Settled(p)
  BY Facts, RecordTypes
<1>2. inode[p].eFileLock = file[g].eFileLock
  BY <1>1 DEF LevelInv, At, Giving
<1>3. \A h \in FilesOf(p) : file[h].eFileLock > SHARED => g = h
  BY <1>1 DEF LevelInv
<1>4. ASSUME NEW h \in FilesOf(p), file[h].pc \in InMutex
      PROVE  Settled(p) \/ (file[g].pc = "writeLock" /\ file[g].arg = EXCLUSIVE)
  <2>1. CallInv(h) /\ KernelInv(h) /\ h \in File /\ Home[h] = p /\ file[h].eFileLock \in Levels
    <3>1. h \in File /\ Home[h] = p
      BY DEF FilesOf
    <3> QED BY <3>1, Facts, RecordTypes
  <2>2. CASE file[h].pc \in {"pendingByte", "downgrade"}
    BY <2>1, <2>2 DEF KernelInv
  <2>3. CASE file[h].pc \in {"sharedRange", "dropPending", "dropBusy"}
    BY <1>2, <2>1, <2>3, LevelFacts DEF CallInv, Info
  <2>4. CASE file[h].pc = "writeLock"
    <3>1. file[h].eFileLock = inode[p].eFileLock
      BY <2>1, <2>4 DEF CallInv, Info
    <3>2. g = h
      BY <1>2, <1>3, <3>1
    <3>3. file[h].arg = RESERVED \/ file[h].arg = EXCLUSIVE
      BY <2>1, <2>4 DEF CallInv
    <3> QED BY <2>1, <2>4, <3>2, <3>3 DEF KernelInv
  <2>5. CASE file[h].pc = "clearPending"
    BY <1>3, <2>1, <2>5 DEF CallInv, Giving
  <2>6. CASE file[h].pc = "release"
    <3>1. CASE file[h].eFileLock > SHARED
      BY <1>3, <2>6, <3>1 DEF Giving
    <3>2. CASE ~(file[h].eFileLock > SHARED)
      <4>1. file[h].eFileLock = SHARED
        BY <2>1, <2>6, <3>2, LevelFacts DEF CallInv
      <4> QED BY <2>1, <2>6, <4>1 DEF KernelInv
    <3> QED BY <3>1, <3>2
  <2> QED BY <1>4, <2>2, <2>3, <2>4, <2>5, <2>6 DEF InMutex
<1> QED BY <1>1, <1>2, <1>4 DEF MutexFree

\* While a process has a level its lock on the shared range stands.
LEMMA SharedRangeLocked ==
  ASSUME IInv, NEW p \in Process, inode[p].eFileLock # NO_LOCK
  PROVE  fcntl[p]["shared"] # "none"
<1>1. Settled(p) => fcntl[p]["shared"] # "none"
  BY DEF Settled
<1>2. ASSUME NEW h \in FilesOf(p), file[h].pc \in InMutex
      PROVE  fcntl[p]["shared"] # "none"
  <2>1. CallInv(h) /\ KernelInv(h) /\ h \in File /\ Home[h] = p /\ file[h].eFileLock \in Levels
    <3>1. h \in File /\ Home[h] = p
      BY DEF FilesOf
    <3> QED BY <3>1, Facts, RecordTypes
  <2>2. CASE file[h].pc \in {"pendingByte", "downgrade"}
    BY <1>1, <2>1, <2>2 DEF KernelInv
  <2>3. CASE file[h].pc \in {"sharedRange", "dropPending", "dropBusy"}
    BY <2>1, <2>3 DEF CallInv, Info
  <2>4. CASE file[h].pc = "writeLock"
    <3>1. file[h].arg = RESERVED \/ file[h].arg = EXCLUSIVE
      BY <2>1, <2>4 DEF CallInv
    <3> QED BY <1>1, <2>1, <2>4, <3>1 DEF KernelInv
  <2>5. CASE file[h].pc = "clearPending"
    BY <2>1, <2>5 DEF KernelInv
  <2>6. CASE file[h].pc = "release"
    <3>1. file[h].eFileLock = SHARED \/ file[h].eFileLock > SHARED
      BY <2>1, <2>6, LevelFacts DEF CallInv
    <3> QED BY <1>1, <2>1, <2>6, <3>1 DEF KernelInv
  <2> QED BY <1>2, <2>2, <2>3, <2>4, <2>5, <2>6 DEF InMutex
<1> QED BY <1>1, <1>2 DEF MutexFree, IInv, ProcessInv

\* A reader that looks for a hot journal with unixCheckReservedLock sees the writer that is
\* at work, in its own process or in another.
THEOREM WritersAreSeen == Spec => []ReservedSeen
<1>1. IInv => ReservedSeen
  <2> SUFFICES ASSUME IInv, NEW f \in File, NEW g \in File, At(g, "idle"),
                      file[g].eFileLock = RESERVED
               PROVE  CheckReservedLock(f)
    BY DEF ReservedSeen
  <2>1. /\ inode[Home[g]].eFileLock = RESERVED /\ Settled(Home[g])
    BY WriterFacts, LevelFacts DEF At, Giving
  <2>2. CASE Home[f] = Home[g]
    BY <2>1, <2>2, LevelFacts DEF CheckReservedLock, Info
  <2>3. CASE Home[f] # Home[g]
    <3>1. fcntl[Home[g]]["reserved"] = "write" /\ Home[g] \in Process
      BY <2>1, HomeFacts DEF Settled
    <3> QED BY <2>3, <3>1 DEF CheckReservedLock, CanLock
  <2> QED BY <2>2, <2>3
<1> QED BY <1>1, Invariant, PTL

-----------------------------------------------------------------------------
(* The lock implements the abstract one: what each step does to the tokens.  *)

\* The level that a connection may rely on, and the tokens that come with it.
Own(v) == IF v.pc \in Giving THEN v.arg ELSE v.eFileLock

TokensOf(l, r) ==
  (IF l >= SHARED THEN {"S"} ELSE {})
  \cup (IF l >= RESERVED /\ r = "write" THEN {"R"} ELSE {})
  \cup (IF l >= PENDING THEN {"P"} ELSE {})
  \cup (IF l = EXCLUSIVE THEN {"X"} ELSE {})

HeldMap == [f \in File |-> Held(f)]

LEMMA TokenFacts ==
  ASSUME NEW l \in Levels, NEW r
  PROVE  /\ "S" \in TokensOf(l, r) <=> l # NO_LOCK
         /\ "R" \in TokensOf(l, r) <=> l >= RESERVED /\ r = "write"
         /\ "P" \in TokensOf(l, r) <=> l >= PENDING
         /\ "X" \in TokensOf(l, r) <=> l = EXCLUSIVE
         /\ TokensOf(NO_LOCK, r) = {} /\ TokensOf(SHARED, r) = {"S"}
         /\ TokensOf(RESERVED, "write") = {"S", "R"}
         /\ TokensOf(l, r) \subseteq {"S", "R", "P", "X"}
BY LevelFacts DEF TokensOf

LEMMA HeldTokens ==
  ASSUME NEW f \in File
  PROVE  /\ Held(f) = TokensOf(Own(file[f]), fcntl[Home[f]]["reserved"])
         /\ Held(f)' = TokensOf(Own(file'[f]), fcntl'[Home[f]]["reserved"])
         /\ HeldMap[f] = Held(f) /\ HeldMap'[f] = Held(f)'
BY DEF Held, TokensOf, Own, Giving, HeldMap

\* A connection relies on no more than its level, and on a level above SHARED only while
\* it does not give it up.
LEMMA OwnFacts ==
  ASSUME IInv, NEW g \in File
  PROVE  /\ Own(file[g]) \in Levels
         /\ Own(file[g]) # NO_LOCK => file[g].eFileLock # NO_LOCK
         /\ Own(file[g]) > SHARED => file[g].pc \notin Giving /\ Own(file[g]) = file[g].eFileLock
<1>1. file[g].arg \in Levels /\ file[g].eFileLock \in Levels /\ CallInv(g)
  BY Facts, RecordTypes
<1>2. file[g].pc \in Giving => file[g].arg \in {NO_LOCK, SHARED} /\ file[g].eFileLock # NO_LOCK
  BY <1>1, LevelFacts DEF Giving, CallInv
<1> QED BY <1>1, <1>2, LevelFacts DEF Own

\* A connection that holds a token has the lock of its process to show for it.
LEMMA HeldFacts ==
  ASSUME IInv, NEW g \in File
  PROVE  /\ "S" \in Held(g) => /\ file[g].eFileLock # NO_LOCK
                               /\ inode[Home[g]].eFileLock # NO_LOCK
                               /\ fcntl[Home[g]]["shared"] # "none"
         /\ "R" \in Held(g) => /\ file[g].pc \notin Giving /\ file[g].eFileLock > SHARED
                               /\ inode[Home[g]].eFileLock = file[g].eFileLock
                               /\ fcntl[Home[g]]["reserved"] = "write"
         /\ "P" \in Held(g) => /\ file[g].pc \notin Giving /\ file[g].eFileLock >= PENDING
                               /\ inode[Home[g]].eFileLock = file[g].eFileLock
                               /\ fcntl[Home[g]]["pending"] = "write"
<1> DEFINE p == Home[g]  l == Own(file[g])  r == fcntl[p]["reserved"]
<1>1. /\ "S" \in Held(g) <=> l # NO_LOCK
      /\ "R" \in Held(g) <=> l >= RESERVED /\ r = "write"
      /\ "P" \in Held(g) <=> l >= PENDING
  <2>1. l \in Levels
    BY OwnFacts
  <2> HIDE DEF l, r
  <2> QED BY <2>1, HeldTokens, TokenFacts DEF l, r
<1>2. /\ l \in Levels
      /\ l # NO_LOCK => file[g].eFileLock # NO_LOCK
      /\ l > SHARED => file[g].pc \notin Giving /\ l = file[g].eFileLock
  BY OwnFacts
<1>3. p \in Process /\ g \in FilesOf(p) /\ LevelInv(p) /\ KernelInv(g) /\ CallInv(g)
  BY Facts
<1> HIDE DEF l, r
<1>4. ASSUME l # NO_LOCK
      PROVE  /\ file[g].eFileLock # NO_LOCK /\ inode[p].eFileLock # NO_LOCK
             /\ fcntl[p]["shared"] # "none"
  <2>1. file[g].eFileLock # NO_LOCK
    BY <1>2, <1>4
  <2>2. inode[p].eFileLock # NO_LOCK
    BY <1>3, <2>1 DEF LevelInv, Sharers
  <2> QED BY <1>3, <2>1, <2>2, SharedRangeLocked
<1>5. ASSUME l > SHARED
      PROVE  /\ file[g].pc \notin Giving /\ file[g].eFileLock = l
             /\ inode[p].eFileLock = file[g].eFileLock
             /\ l >= PENDING => fcntl[p]["pending"] = "write"
  <2>1. file[g].pc \notin Giving /\ file[g].eFileLock = l
    BY <1>2, <1>5
  <2>2. /\ inode[p].eFileLock = file[g].eFileLock
        /\ Settled(p) \/ (file[g].pc = "writeLock" /\ file[g].arg = EXCLUSIVE)
    BY <1>5, <2>1, WriterFacts
  <2>3. Settled(p) /\ l >= PENDING => fcntl[p]["pending"] = "write"
    BY <2>1, <2>2 DEF Settled
  <2>4. file[g].pc = "writeLock" /\ file[g].arg = EXCLUSIVE => fcntl[p]["pending"] = "write"
    BY <1>3 DEF KernelInv
  <2> QED BY <2>1, <2>2, <2>3, <2>4
<1>6. l >= RESERVED => l > SHARED
  BY <1>2, LevelFacts
<1>7. l >= PENDING => l > SHARED
  BY <1>2, LevelFacts
<1> QED BY <1>1, <1>4, <1>5, <1>6, <1>7 DEF r

LEMMA ImplStutter ==
  ASSUME NEW f \in File, HeldMap' = [HeldMap EXCEPT ![f] = Held(f)]
  PROVE  HeldMap' = HeldMap
BY DEF HeldMap

\* A step of one connection changes the tokens of that connection only, if the reserved
\* byte stays or no other connection of its process is above SHARED.
LEMMA HeldStep ==
  ASSUME IInv, NEW f \in File, \A g \in File : g # f => file'[g] = file[g],
         \A q \in Process : q # Home[f] => fcntl'[q] = fcntl[q],
         \/ fcntl'[Home[f]]["reserved"] = fcntl[Home[f]]["reserved"]
         \/ \A g \in FilesOf(Home[f]) : g # f => ~(file[g].eFileLock > SHARED)
  PROVE  /\ HeldMap' = [HeldMap EXCEPT ![f] = TokensOf(Own(file'[f]), fcntl'[Home[f]]["reserved"])]
         /\ Held(f)' = TokensOf(Own(file'[f]), fcntl'[Home[f]]["reserved"])
<1>1. Held(f)' = TokensOf(Own(file'[f]), fcntl'[Home[f]]["reserved"])
  BY HeldTokens
<1>2. ASSUME NEW g \in File, g # f PROVE Held(g)' = Held(g)
  <2> DEFINE l == Own(file[g])  r == fcntl[Home[g]]["reserved"]
             s == fcntl'[Home[g]]["reserved"]
  <2>1. Held(g) = TokensOf(l, r) /\ Held(g)' = TokensOf(l, s)
    BY <1>2, HeldTokens
  <2>2. l \in Levels /\ (l > SHARED => file[g].eFileLock > SHARED)
    BY OwnFacts
  <2>3. r = s \/ ~(l > SHARED)
    <3>1. CASE Home[g] # Home[f]
      BY <3>1, HomeFacts
    <3>2. CASE Home[g] = Home[f]
      BY <1>2, <2>2, <3>2, HomeFacts
    <3> QED BY <3>1, <3>2
  <2> HIDE DEF l, r, s
  <2>4. ~(l > SHARED) => ~(l >= RESERVED)
    BY <2>2, LevelFacts
  <2>5. ~(l >= RESERVED) => TokensOf(l, r) = TokensOf(l, s)
    BY DEF TokensOf
  <2> QED BY <2>1, <2>3, <2>4, <2>5
<1> DEFINE t == TokensOf(Own(file'[f]), fcntl'[Home[f]]["reserved"])
<1>3. HeldMap' = [g \in File |-> IF g = f THEN t ELSE Held(g)]
  <2>1. HeldMap' = [g \in File |-> Held(g)']
    BY DEF HeldMap
  <2> HIDE DEF t
  <2> QED BY <1>1, <1>2, <2>1 DEF t
<1> HIDE DEF t
<1>4. HeldMap' = [HeldMap EXCEPT ![f] = t]
  BY <1>3 DEF HeldMap
<1> QED BY <1>1, <1>4 DEF t

\* And one that keeps its level too changes none.
LEMMA QuietHeld ==
  ASSUME IInv, NEW f \in File, \A g \in File : g # f => file'[g] = file[g],
         \A q \in Process : q # Home[f] => fcntl'[q] = fcntl[q],
         \/ fcntl'[Home[f]]["reserved"] = fcntl[Home[f]]["reserved"]
         \/ /\ \A g \in FilesOf(Home[f]) : g # f => ~(file[g].eFileLock > SHARED)
            /\ ~(Own(file[f]) > SHARED),
         Own(file'[f]) = Own(file[f])
  PROVE  HeldMap' = HeldMap
<1> DEFINE l == Own(file[f])  r == fcntl[Home[f]]["reserved"]  s == fcntl'[Home[f]]["reserved"]
<1>1. HeldMap' = [HeldMap EXCEPT ![f] = TokensOf(l, s)]
  BY HeldStep
<1>2. Held(f) = TokensOf(l, r) /\ l \in Levels
  BY HeldTokens, OwnFacts
<1>3. r = s \/ ~(l > SHARED)
  OBVIOUS
<1> HIDE DEF l, r, s
<1>4. ~(l > SHARED) => ~(l >= RESERVED)
  BY <1>2, LevelFacts
<1>5. ~(l >= RESERVED) => TokensOf(l, r) = TokensOf(l, s)
  BY DEF TokensOf
<1>6. HeldMap' = [HeldMap EXCEPT ![f] = Held(f)]
  BY <1>1, <1>2, <1>3, <1>4, <1>5
<1> QED BY <1>6, ImplStutter

\* The actions of the abstract lock, in terms of the tokens held.
LEMMA ImplShared ==
  ASSUME NEW f \in File, Held(f) = {}, HeldMap' = [HeldMap EXCEPT ![f] = {"S"}],
         \A g \in File \ {f} : "P" \in Held(g) =>
           /\ Home[g] # Home[f]
           /\ \E h \in File \ {f} : Home[h] = Home[f] /\ "S" \in Held(h)
  PROVE  Abstract!Shared(f)
<1>1. HeldMap[f] = {} /\ \A g \in File : HeldMap[g] = Held(g)
  BY DEF HeldMap
<1>2. HeldMap' = [HeldMap EXCEPT ![f] = @ \cup {"S"}]
  BY <1>1
<1> QED BY <1>1, <1>2 DEF Abstract!Shared, Abstract!Gain, HeldMap

LEMMA ImplReserved ==
  ASSUME NEW f \in File, Held(f) = {"S"}, HeldMap' = [HeldMap EXCEPT ![f] = {"S", "R"}],
         \A g \in File \ {f} : "R" \notin Held(g)
  PROVE  Abstract!Reserved(f)
<1>1. HeldMap[f] = {"S"} /\ \A g \in File : HeldMap[g] = Held(g)
  BY DEF HeldMap
<1>2. HeldMap' = [HeldMap EXCEPT ![f] = @ \cup {"R"}]
  BY <1>1
<1> QED BY <1>1, <1>2 DEF Abstract!Reserved, Abstract!Gain, Abstract!HeldByOther, HeldMap

LEMMA ImplPending ==
  ASSUME NEW f \in File, "S" \in Held(f), "P" \notin Held(f),
         HeldMap' = [HeldMap EXCEPT ![f] = Held(f) \cup {"P"}],
         \A g \in File \ {f} : "P" \notin Held(g)
  PROVE  Abstract!Pending(f)
<1>1. \A g \in File : HeldMap[g] = Held(g)
  BY DEF HeldMap
<1>2. HeldMap' = [HeldMap EXCEPT ![f] = @ \cup {"P"}]
  BY <1>1
<1> QED BY <1>1, <1>2 DEF Abstract!Pending, Abstract!Gain, Abstract!HeldByOther, HeldMap

LEMMA ImplExclusive ==
  ASSUME NEW f \in File, "S" \in Held(f), "X" \notin Held(f),
         HeldMap' = [HeldMap EXCEPT ![f] = Held(f) \cup {"P", "X"}],
         \A g \in File \ {f} : "S" \notin Held(g)
  PROVE  Abstract!Exclusive(f)
<1>1. \A g \in File : HeldMap[g] = Held(g)
  BY DEF HeldMap
<1>2. HeldMap' = [HeldMap EXCEPT ![f] = @ \cup {"P", "X"}]
  BY <1>1
<1> QED BY <1>1, <1>2 DEF Abstract!Exclusive, Abstract!Gain, Abstract!HeldByOther, HeldMap

LEMMA ImplRelease ==
  ASSUME \A f \in File : /\ Held(f)' \subseteq Held(f) /\ Held(f)' \in {{}, {"S"}, Held(f)}
                         /\ Held(f)' \subseteq {"S", "R", "P", "X"}
  PROVE  Abstract!Release
<1>1. \A f \in File : HeldMap[f] = Held(f) /\ HeldMap'[f] = Held(f)'
  BY DEF HeldMap
<1>2. HeldMap' \in [File -> SUBSET Abstract!Tokens]
  BY DEF HeldMap, Abstract!Tokens
<1> QED BY <1>1, <1>2 DEF Abstract!Release, HeldMap

-----------------------------------------------------------------------------
(* The steps that the abstract lock does not see.                            *)

LEMMA SetFileFacts ==
  ASSUME IInv, NEW f \in File, NEW v, SetFile(f, v)
  PROVE  file'[f] = v /\ \A g \in File : g # f => file'[g] = file[g]
BY Facts DEF SetFile

LEMMA SetLockOthers ==
  ASSUME IInv, NEW f \in File, NEW b \in Bytes, NEW type \in Modes, SetLock(Home[f], b, type)
  PROVE  /\ \A q \in Process : q # Home[f] => fcntl'[q] = fcntl[q]
         /\ b # "reserved" => fcntl'[Home[f]]["reserved"] = fcntl[Home[f]]["reserved"]
         /\ fcntl'[Home[f]][b] = type
<1>1. fcntl \in [Process -> [Bytes -> Modes]] /\ Home[f] \in Process
  BY Facts
<1>2. \A q \in Process : q # Home[f] => fcntl'[q] = fcntl[q]
  BY <1>1 DEF SetLock
<1> QED BY <1>2, ByteFacts, SetLockFacts

LEMMA OpeningHeld ==
  ASSUME IInv, NEW f \in File, Open(f) \/ FindInodeInfo(f) \/ OpenFails(f) \/ Close(f)
  PROVE  HeldMap' = HeldMap
<1>1. file[f].pc \in {"closed", "opening", "close"} /\ file[f].eFileLock = NO_LOCK
  BY Facts DEF Open, FindInodeInfo, OpenFails, Close, At, CallInv
<1>2. UNCHANGED fcntl
  BY OpenFailsFacts, CloseFacts DEF Open, FindInodeInfo
<1>3. PICK v \in {[ClosedFile EXCEPT !.pc = "opening"], [ClosedFile EXCEPT !.pc = "idle"],
                   ClosedFile} : SetFile(f, v)
  BY DEF Open, FindInodeInfo, OpenFails, Close
<1>4. v.pc \notin Giving /\ v.eFileLock = NO_LOCK
  BY DEF ClosedFile, Giving
<1>5. file'[f] = v /\ \A g \in File : g # f => file'[g] = file[g]
  BY <1>3, SetFileFacts
<1>6. Own(file[f]) = NO_LOCK /\ Own(file'[f]) = NO_LOCK
  BY <1>1, <1>4, <1>5 DEF Own, Giving
<1> QED BY <1>2, <1>5, <1>6, QuietHeld

LEMMA LockingHeld ==
  ASSUME IInv, NEW f \in File,
         \/ \E l \in {SHARED, RESERVED, EXCLUSIVE} : LockEnter(f, l)
         \/ PendingByte(f) \/ SharedRange(f) \/ CloseUnlocked(f)
         \/ DropPending(f) /\ At(f, "dropBusy")
  PROVE  HeldMap' = HeldMap
<1>1. /\ file[f] \in FileRecord /\ file[f].eFileLock \in Levels
      /\ file[f].pc = "dropBusy" => file[f].eFileLock = NO_LOCK
  BY Facts, RecordTypes DEF CallInv
<1>2. ASSUME NEW l \in {SHARED, RESERVED, EXCLUSIVE}, LockEnter(f, l) PROVE HeldMap' = HeldMap
  <2>1. PICK pc \in {"pendingByte", "writeLock"} : Goto(f, pc, l)
    BY <1>2, Zenon DEF LockEnter
  <2>2. /\ file'[f] = [file[f] EXCEPT !.pc = pc, !.arg = l]
        /\ \A g \in File : g # f => file'[g] = file[g]
    BY <2>1, SetFileFacts DEF Goto
  <2>3. file'[f].pc = pc /\ file'[f].eFileLock = file[f].eFileLock
    BY <1>1, <2>2, RecordTypes
  <2>4. file[f].pc = "idle" /\ UNCHANGED fcntl
    BY <1>2 DEF LockEnter, At
  <2>5. Own(file'[f]) = Own(file[f])
    BY <2>3, <2>4 DEF Own, Giving
  <2> QED BY <2>2, <2>4, <2>5, QuietHeld
<1>3. CASE PendingByte(f)
  <2>1. /\ file[f].pc = "pendingByte"
        /\ \/ \E type \in Modes : SetLock(Home[f], "pending", type)
           \/ UNCHANGED fcntl
        /\ \/ \E pc \in {"sharedRange", "writeLock"} : Goto(f, pc, file[f].arg)
           \/ Return(f, file[f].eFileLock)
    BY <1>3, ByteFacts, Zenon DEF PendingByte, At
  <2>2. /\ \A q \in Process : q # Home[f] => fcntl'[q] = fcntl[q]
        /\ fcntl'[Home[f]]["reserved"] = fcntl[Home[f]]["reserved"]
    BY <2>1, ByteFacts, SetLockOthers
  <2>3. /\ file'[f].pc \in {"sharedRange", "writeLock", "idle"}
        /\ file'[f].eFileLock = file[f].eFileLock
        /\ \A g \in File : g # f => file'[g] = file[g]
    <3>1. ASSUME NEW pc \in {"sharedRange", "writeLock"}, Goto(f, pc, file[f].arg)
          PROVE  /\ file'[f].pc = pc /\ file'[f].eFileLock = file[f].eFileLock
                 /\ \A g \in File : g # f => file'[g] = file[g]
      <4>1. /\ file'[f] = [file[f] EXCEPT !.pc = pc, !.arg = file[f].arg]
            /\ \A g \in File : g # f => file'[g] = file[g]
        BY <3>1, SetFileFacts DEF Goto
      <4> QED BY <1>1, <4>1, RecordTypes
    <3>2. ASSUME Return(f, file[f].eFileLock)
          PROVE  /\ file'[f].pc = "idle" /\ file'[f].eFileLock = file[f].eFileLock
                 /\ \A g \in File : g # f => file'[g] = file[g]
      <4>1. /\ file'[f] = [file[f] EXCEPT !.pc = "idle", !.arg = NO_LOCK,
                                          !.eFileLock = file[f].eFileLock]
            /\ \A g \in File : g # f => file'[g] = file[g]
        BY <3>2, SetFileFacts DEF Return
      <4> QED BY <1>1, <4>1, RecordTypes
    <3> QED BY <2>1, <3>1, <3>2
  <2>4. Own(file'[f]) = Own(file[f])
    BY <2>1, <2>3 DEF Own, Giving
  <2> QED BY <2>2, <2>3, <2>4, QuietHeld
<1>4. CASE SharedRange(f)
  <2>1. /\ file[f].pc = "sharedRange"
        /\ SetLock(Home[f], "shared", "read") \/ UNCHANGED fcntl
        /\ \E pc \in {"dropPending", "dropBusy"} : Goto(f, pc, SHARED)
    BY <1>4 DEF SharedRange, At
  <2>2. /\ \A q \in Process : q # Home[f] => fcntl'[q] = fcntl[q]
        /\ fcntl'[Home[f]]["reserved"] = fcntl[Home[f]]["reserved"]
    BY <2>1, ByteFacts, SetLockOthers
  <2>3. PICK pc \in {"dropPending", "dropBusy"} : Goto(f, pc, SHARED)
    BY <2>1
  <2>4. /\ file'[f] = [file[f] EXCEPT !.pc = pc, !.arg = SHARED]
        /\ \A g \in File : g # f => file'[g] = file[g]
    BY <2>3, SetFileFacts DEF Goto
  <2>5. file'[f].pc = pc /\ file'[f].eFileLock = file[f].eFileLock
    BY <1>1, <2>4, RecordTypes
  <2>6. Own(file'[f]) = Own(file[f])
    BY <2>1, <2>5 DEF Own, Giving
  <2> QED BY <2>2, <2>4, <2>6, QuietHeld
<1>5. CASE CloseUnlocked(f)
  <2>1. file[f].pc = "idle" /\ UNCHANGED fcntl /\ SetFile(f, [file[f] EXCEPT !.pc = "close"])
    BY <1>5 DEF CloseUnlocked, MayUnlock, At
  <2>2. /\ file'[f] = [file[f] EXCEPT !.pc = "close"]
        /\ \A g \in File : g # f => file'[g] = file[g]
    BY <2>1, SetFileFacts
  <2>3. file'[f].pc = "close" /\ file'[f].eFileLock = file[f].eFileLock
    BY <1>1, <2>2, RecordTypes
  <2>4. Own(file'[f]) = Own(file[f])
    BY <2>1, <2>3 DEF Own, Giving
  <2> QED BY <2>1, <2>2, <2>4, QuietHeld
<1>6. CASE DropPending(f) /\ At(f, "dropBusy")
  <2>1. /\ file[f].pc = "dropBusy" /\ Return(f, NO_LOCK) /\ SetLock(Home[f], "pending", "none")
    BY <1>6 DEF DropPending, At
  <2>2. /\ \A q \in Process : q # Home[f] => fcntl'[q] = fcntl[q]
        /\ fcntl'[Home[f]]["reserved"] = fcntl[Home[f]]["reserved"]
    BY <2>1, ByteFacts, SetLockOthers
  <2>3. /\ file'[f] = [file[f] EXCEPT !.pc = "idle", !.arg = NO_LOCK, !.eFileLock = NO_LOCK]
        /\ \A g \in File : g # f => file'[g] = file[g]
    BY <2>1, SetFileFacts DEF Return
  <2>4. file'[f].pc = "idle" /\ file'[f].eFileLock = NO_LOCK
    BY <1>1, <2>3, RecordTypes
  <2>5. Own(file'[f]) = Own(file[f])
    BY <1>1, <2>1, <2>4 DEF Own, Giving
  <2> QED BY <2>2, <2>3, <2>5, QuietHeld
<1> QED BY <1>2, <1>3, <1>4, <1>5, <1>6

\* While the locks go, the connection has given its level up already.
LEMMA UnlockingHeld ==
  ASSUME IInv, NEW f \in File, Downgrade(f) \/ ClearPending(f) \/ Release(f)
  PROVE  HeldMap' = HeldMap
<1> DEFINE p == Home[f]
<1>1. /\ file[f] \in FileRecord /\ file[f].eFileLock \in Levels /\ file[f].pc \in Giving
      /\ file[f].pc = "downgrade" => file[f].arg = SHARED
      /\ file[f].pc = "clearPending" => file[f].arg \in {NO_LOCK, SHARED}
      /\ file[f].pc = "release" => file[f].arg = NO_LOCK
      /\ file[f].pc \in {"downgrade", "clearPending"} => file[f].eFileLock > SHARED
      /\ file[f].pc = "release" => file[f].eFileLock > NO_LOCK
      /\ p \in Process /\ f \in FilesOf(p) /\ FilesOf(p) \subseteq File
      /\ fcntl \in [Process -> [Bytes -> Modes]]
  <2>1. file[f].pc \in Giving
    BY DEF Downgrade, ClearPending, Release, At, Giving
  <2> QED BY <2>1, Facts, HomeFacts, RecordTypes DEF CallInv
<1>2. file[f].eFileLock > SHARED => \A g \in FilesOf(p) : g # f => ~(file[g].eFileLock > SHARED)
  BY <1>1, Facts DEF LevelInv
<1>3. Own(file[f]) = file[f].arg
  BY <1>1 DEF Own
<1>4. CASE Downgrade(f)
  <2>1. /\ file[f].pc = "downgrade" /\ Goto(f, "clearPending", SHARED)
        /\ SetLock(p, "shared", "read")
    BY <1>4 DEF Downgrade, At
  <2>2. /\ \A q \in Process : q # p => fcntl'[q] = fcntl[q]
        /\ fcntl'[p]["reserved"] = fcntl[p]["reserved"]
    BY <2>1, ByteFacts, SetLockOthers
  <2>3. /\ file'[f] = [file[f] EXCEPT !.pc = "clearPending", !.arg = SHARED]
        /\ \A g \in File : g # f => file'[g] = file[g]
    BY <2>1, SetFileFacts DEF Goto
  <2>4. file'[f].pc = "clearPending" /\ file'[f].arg = SHARED
    BY <1>1, <2>3, RecordTypes
  <2>5. Own(file'[f]) = Own(file[f])
    BY <1>1, <1>3, <2>1, <2>4 DEF Own, Giving
  <2> QED BY <2>2, <2>3, <2>5, QuietHeld
<1>5. CASE ClearPending(f)
  <2>1. /\ file[f].pc = "clearPending"
        /\ fcntl' = [fcntl EXCEPT ![p].pending = "none", ![p].reserved = "none"]
        /\ IF file[f].arg = SHARED THEN Return(f, SHARED) ELSE Goto(f, "release", NO_LOCK)
    BY <1>5 DEF ClearPending, At
  <2>2. \A q \in Process : q # p => fcntl'[q] = fcntl[q]
    BY <1>1, <2>1
  <2>3. (\A g \in File : g # f => file'[g] = file[g]) /\ Own(file'[f]) = Own(file[f])
    <3>1. CASE file[f].arg = SHARED
      <4>1. /\ file'[f] = [file[f] EXCEPT !.pc = "idle", !.arg = NO_LOCK, !.eFileLock = SHARED]
            /\ \A g \in File : g # f => file'[g] = file[g]
        BY <2>1, <3>1, SetFileFacts DEF Return
      <4>2. file'[f].pc = "idle" /\ file'[f].eFileLock = SHARED
        BY <1>1, <4>1, RecordTypes
      <4>3. Own(file'[f]) = SHARED
        BY <4>2 DEF Own, Giving
      <4> QED BY <1>3, <3>1, <4>1, <4>3
    <3>2. CASE file[f].arg = NO_LOCK
      <4>1. Goto(f, "release", NO_LOCK)
        BY <2>1, <3>2, LevelFacts
      <4>2. /\ file'[f] = [file[f] EXCEPT !.pc = "release", !.arg = NO_LOCK]
            /\ \A g \in File : g # f => file'[g] = file[g]
        BY <4>1, SetFileFacts DEF Goto
      <4>3. file'[f].pc = "release" /\ file'[f].arg = NO_LOCK
        BY <1>1, <4>2, RecordTypes
      <4>4. Own(file'[f]) = NO_LOCK
        BY <4>3 DEF Own, Giving
      <4> QED BY <1>3, <3>2, <4>2, <4>4
    <3> QED BY <1>1, <2>1, <3>1, <3>2
  <2>4. ~(Own(file[f]) > SHARED)
    BY <1>1, <1>3, <2>1, LevelFacts
  <2>5. \A g \in FilesOf(p) : g # f => ~(file[g].eFileLock > SHARED)
    BY <1>1, <1>2, <2>1
  <2> QED BY <2>2, <2>3, <2>4, <2>5, QuietHeld
<1>6. CASE Release(f)
  <2> DEFINE pc == IF file[f].closing THEN "close" ELSE "idle"
  <2>1. /\ file[f].pc = "release"
        /\ SetFile(f, [file[f] EXCEPT !.eFileLock = NO_LOCK, !.pc = pc])
    BY <1>6 DEF Release, At
  <2>2. pc \notin Giving
    BY DEF Giving
  <2> HIDE DEF pc
  <2>3. /\ file'[f] = [file[f] EXCEPT !.eFileLock = NO_LOCK, !.pc = pc]
        /\ \A g \in File : g # f => file'[g] = file[g]
    BY <2>1, SetFileFacts
  <2>4. file'[f].pc = pc /\ file'[f].eFileLock = NO_LOCK
    BY <1>1, <2>3, RecordTypes
  <2>5. Own(file'[f]) = Own(file[f])
    BY <1>1, <1>3, <2>1, <2>2, <2>4 DEF Own
  <2>6. UNCHANGED fcntl \/ DropAll(p)
    BY <1>6, Zenon DEF Release
  <2>7. \A q \in Process : q # p => fcntl'[q] = fcntl[q]
    BY <1>1, <2>6 DEF DropAll
  <2>8. \/ UNCHANGED fcntl
        \/ \A g \in FilesOf(p) : g # f => ~(file[g].eFileLock > SHARED)
    <3>1. CASE file[f].eFileLock > SHARED
      BY <1>2, <3>1
    <3>2. CASE ~(file[f].eFileLock > SHARED)
      <4>1. SUFFICES ASSUME ~UNCHANGED fcntl
                     PROVE  \A g \in FilesOf(p) : g # f => ~(file[g].eFileLock > SHARED)
        OBVIOUS
      <4>2. inode'[p].eFileLock = NO_LOCK /\ IInv'
        <5>1. inode'[p] = Released(p) /\ inode[p].nShared = 1
          <6> DEFINE j    == [inode[p] EXCEPT !.nShared = @ - 1, !.nLock = @ - 1]
                     left == [j EXCEPT !.eFileLock = IF j.nShared = 0 THEN NO_LOCK ELSE @]
          <6>1. /\ IF j.nShared = 0 \/ (left.nLock = 0 /\ left.nUnused > 0)
                   THEN DropAll(p) ELSE UNCHANGED fcntl
                /\ inode' = [inode EXCEPT ![p] = Released(p)]
            BY <1>6 DEF Release, Info, SetInode, Released
          <6>2. inode[p] \in InodeRecord /\ CountInv(p) /\ inode \in [Process -> InodeRecord]
            BY Facts
          <6>3. j.nShared = inode[p].nShared - 1 /\ left.nLock = inode[p].nLock - 1
            BY <6>2, RecordTypes
          <6> HIDE DEF j, left
          <6>4. inode[p].nShared \in Nat /\ inode[p].nLock = inode[p].nShared
            BY <6>2, CountFacts
          <6>5. j.nShared = 0 \/ left.nLock = 0
            BY <4>1, <6>1
          <6> QED BY <1>1, <6>1, <6>2, <6>3, <6>4, <6>5
        <5>2. inode[p] \in InodeRecord /\ inode[p].nLock = inode[p].nShared
          BY Facts, CountFacts
        <5>3. Released(p).eFileLock = NO_LOCK
          BY <5>1, <5>2, ReleasedRecords
        <5> QED BY <1>6, <5>1, <5>3, ReleaseStep
      <4>3. LevelInv(p)'
        BY <1>1, <4>2 DEF IInv, ProcessInv
      <4>4. \A g \in FilesOf(p) : file'[g].eFileLock = NO_LOCK
        BY <4>2, <4>3 DEF LevelInv, Sharers, FilesOf
      <4> QED BY <1>1, <2>3, <4>4, LevelFacts
    <3> QED BY <3>1, <3>2
  <2>9. ~(Own(file[f]) > SHARED)
    BY <1>1, <1>3, <2>1, LevelFacts
  <2>10. UNCHANGED fcntl => fcntl'[p]["reserved"] = fcntl[p]["reserved"]
    OBVIOUS
  <2> QED BY <2>3, <2>5, <2>7, <2>8, <2>9, <2>10, QuietHeld
<1> QED BY <1>4, <1>5, <1>6

\* A connection gives its level up when it begins to unlock.
LEMMA UnlockEnterHeld ==
  ASSUME IInv, NEW f \in File, NEW l \in {NO_LOCK, SHARED}, NEW closing \in BOOLEAN,
         UnlockEnter(f, l, closing)
  PROVE  Abstract!Release
<1> DEFINE r == fcntl[Home[f]]["reserved"]
<1>1. /\ file[f] \in FileRecord /\ file[f].eFileLock \in Levels /\ l \in Levels
      /\ file[f].pc = "idle" /\ file[f].eFileLock > l /\ UNCHANGED fcntl
  BY Facts, RecordTypes, LevelFacts DEF UnlockEnter, MayUnlock, At
<1>2. PICK pc \in Giving : SetFile(f, [file[f] EXCEPT !.pc = pc, !.arg = l, !.closing = closing])
  BY Zenon DEF UnlockEnter, Giving
<1>3. /\ file'[f] = [file[f] EXCEPT !.pc = pc, !.arg = l, !.closing = closing]
      /\ \A g \in File : g # f => file'[g] = file[g]
  BY <1>2, SetFileFacts
<1>4. file'[f].pc = pc /\ file'[f].arg = l
  BY <1>1, <1>3, RecordTypes
<1>5. Own(file'[f]) = l /\ Own(file[f]) = file[f].eFileLock
  BY <1>1, <1>4 DEF Own, Giving
<1>6. HeldMap' = [HeldMap EXCEPT ![f] = TokensOf(l, r)] /\ Held(f)' = TokensOf(l, r)
  BY <1>1, <1>3, <1>5, HeldStep
<1>7. Held(f) = TokensOf(file[f].eFileLock, r)
  BY <1>5, HeldTokens
<1> HIDE DEF r
<1>8. Held(f)' \in {{}, {"S"}} /\ Held(f)' \subseteq Held(f)
  <2>1. CASE l = NO_LOCK
    BY <1>1, <1>6, <2>1, TokenFacts
  <2>2. CASE l = SHARED
    <3>1. Held(f)' = {"S"}
      BY <1>1, <1>6, <2>2, TokenFacts
    <3>2. "S" \in Held(f)
      <4>1. file[f].eFileLock # NO_LOCK
        BY <1>1, <2>2, LevelFacts
      <4> QED BY <1>1, <1>7, <4>1, TokenFacts
    <3> QED BY <3>1, <3>2
  <2> QED BY <2>1, <2>2
<1>9. \A g \in File : g # f => Held(g)' = Held(g)
  <2>1. \A g \in File : HeldMap[g] = Held(g) /\ HeldMap'[g] = Held(g)'
    BY DEF HeldMap
  <2> QED BY <1>6, <2>1 DEF HeldMap
<1>10. \A g \in File : Held(g) \subseteq {"S", "R", "P", "X"}
  <2> TAKE g \in File
  <2>1. Held(g) = TokensOf(Own(file[g]), fcntl[Home[g]]["reserved"]) /\ Own(file[g]) \in Levels
    BY HeldTokens, OwnFacts
  <2> QED BY <2>1, TokenFacts
<1> QED BY <1>8, <1>9, <1>10, ImplRelease

\* A process that dies gives up everything.
LEMMA KillHeld ==
  ASSUME IInv, NEW p \in Process, Kill(p)
  PROVE  Abstract!Release
<1>1. /\ \A g \in File : file'[g] = IF Home[g] = p THEN ClosedFile ELSE file[g]
      /\ \A q \in Process : q # p => fcntl'[q] = fcntl[q]
  BY DEF Kill, DropAll, IInv, TypeOK
<1>2. ASSUME NEW g \in File
      PROVE  /\ Held(g)' \subseteq Held(g) /\ Held(g)' \in {{}, {"S"}, Held(g)}
             /\ Held(g)' \subseteq {"S", "R", "P", "X"}
  <2>1. CASE Home[g] = p
    <3>1. Own(file'[g]) = NO_LOCK
      BY <1>1, <2>1 DEF Own, Giving, ClosedFile
    <3>2. Held(g)' = {}
      BY <3>1, HeldTokens, LevelFacts, TokenFacts
    <3> QED BY <3>2
  <2>2. CASE Home[g] # p
    <3>1. file'[g] = file[g] /\ fcntl'[Home[g]] = fcntl[Home[g]]
      BY <1>1, <2>2, HomeFacts
    <3>2. Held(g)' = Held(g)
      BY <3>1, HeldTokens
    <3>3. Held(g) = TokensOf(Own(file[g]), fcntl[Home[g]]["reserved"]) /\ Own(file[g]) \in Levels
      BY HeldTokens, OwnFacts
    <3>4. Held(g) \subseteq {"S", "R", "P", "X"}
      BY <3>3, TokenFacts
    <3> QED BY <3>2, <3>4
  <2> QED BY <2>1, <2>2
<1> QED BY <1>2, ImplRelease

-----------------------------------------------------------------------------
(* And those that it sees.                                                   *)

\* The first reader of a process, or one that joins the first.
LEMMA SharedHeld ==
  ASSUME IInv, NEW f \in File,
         LockCounted(f) \/ (DropPending(f) /\ At(f, "dropPending"))
  PROVE  Abstract!Shared(f)
<1> DEFINE p == Home[f]
<1>1. /\ file[f] \in FileRecord /\ file[f].eFileLock = NO_LOCK /\ file[f].pc \notin Giving
      /\ Return(f, SHARED) /\ p \in Process
  <2>1. file[f] \in FileRecord /\ file[f].eFileLock \in Levels /\ CallInv(f) /\ p \in Process
    BY Facts, RecordTypes
  <2>2. CASE LockCounted(f)
    <3>1. SHARED \in Requests(file[f].eFileLock)
      BY <2>2 DEF LockCounted
    <3>2. file[f].eFileLock = NO_LOCK
      BY <2>1, <3>1, RequestFacts, LevelFacts
    <3> QED BY <2>1, <2>2, <3>2 DEF LockCounted, At, Giving
  <2>3. CASE DropPending(f) /\ At(f, "dropPending")
    BY <2>1, <2>3 DEF DropPending, At, CallInv, Giving
  <2> QED BY <2>2, <2>3
<1>2. Held(f) = {}
  BY <1>1, HeldTokens, LevelFacts, TokenFacts DEF Own
<1>3. /\ file'[f] = [file[f] EXCEPT !.pc = "idle", !.arg = NO_LOCK, !.eFileLock = SHARED]
      /\ \A g \in File : g # f => file'[g] = file[g]
  BY <1>1, SetFileFacts DEF Return
<1>4. Own(file'[f]) = SHARED
  <2>1. file'[f].pc = "idle" /\ file'[f].eFileLock = SHARED
    BY <1>1, <1>3, RecordTypes
  <2> QED BY <2>1 DEF Own, Giving
<1>5. /\ \A q \in Process : q # p => fcntl'[q] = fcntl[q]
      /\ fcntl'[p]["reserved"] = fcntl[p]["reserved"]
  <2>1. UNCHANGED fcntl \/ SetLock(p, "pending", "none")
    BY DEF LockCounted, DropPending
  <2> QED BY <2>1, ByteFacts, SetLockOthers
<1>6. HeldMap' = [HeldMap EXCEPT ![f] = {"S"}]
  BY <1>3, <1>4, <1>5, HeldStep, LevelFacts, TokenFacts
<1>7. ASSUME NEW g \in File \ {f}, "P" \in Held(g)
      PROVE  /\ Home[g] # p
             /\ \E h \in File \ {f} : Home[h] = p /\ "S" \in Held(h)
  <2>1. /\ file[g].pc \notin Giving /\ file[g].eFileLock >= PENDING
        /\ inode[Home[g]].eFileLock = file[g].eFileLock
        /\ fcntl[Home[g]]["pending"] = "write" /\ Home[g] \in Process
    BY <1>7, HeldFacts, HomeFacts
  <2>2. CASE LockCounted(f)
    <3>1. inode[p].eFileLock \in {SHARED, RESERVED} /\ MutexFree(p)
      BY <2>2 DEF LockCounted, ProcessShares, Info
    <3>2. Home[g] # p
      BY <2>1, <3>1, LevelFacts
    <3>3. PICK h \in FilesOf(p) : file[h].eFileLock >= inode[p].eFileLock
      <4>1. inode[p].eFileLock # NO_LOCK
        BY <3>1, LevelFacts
      <4> QED BY <4>1, Facts DEF LevelInv
    <3>4. h \in File /\ Home[h] = p /\ file[h].pc \notin Giving /\ file[h].eFileLock \in Levels
      <4>1. h \in File /\ Home[h] = p
        BY DEF FilesOf
      <4>2. file[h].pc \notin Giving
        BY <3>1 DEF MutexFree, InMutex, Giving
      <4> QED BY <4>1, <4>2, Facts, RecordTypes
    <3>5. h # f /\ file[h].eFileLock # NO_LOCK
      BY <1>1, <3>1, <3>3, LevelFacts
    <3>6. "S" \in Held(h)
      <4>1. Held(h) = TokensOf(file[h].eFileLock, fcntl[Home[h]]["reserved"])
        BY <3>4, HeldTokens DEF Own
      <4> QED BY <3>4, <3>5, <4>1, TokenFacts
    <3> QED BY <3>2, <3>4, <3>5, <3>6
  <2>3. CASE At(f, "dropPending")
    <3>1. fcntl[p]["pending"] = "read" /\ inode[p].eFileLock = NO_LOCK
      BY <1>1, <2>3, Facts DEF At, KernelInv, CallInv, Info
    <3>2. Home[g] # p
      BY <2>1, <3>1
    <3> QED BY <1>1, <2>1, <3>1, <3>2, ByteFacts DEF IInv, Compatible
  <2> QED BY <2>2, <2>3
<1> QED BY <1>2, <1>6, <1>7, ImplShared

\* The last system call of unixLock.
LEMMA WriteHeld ==
  ASSUME IInv, NEW f \in File, WriteLock(f)
  PROVE  \/ Abstract!Reserved(f) \/ Abstract!Pending(f) \/ Abstract!Exclusive(f)
         \/ HeldMap' = HeldMap
<1> DEFINE p == Home[f]
           l == file[f].arg
           b == IF l = RESERVED THEN "reserved" ELSE "shared"
           e == file[f].eFileLock
           r == fcntl[p]["reserved"]
<1>1. /\ file[f] \in FileRecord /\ file[f].pc = "writeLock" /\ file[f].pc \in InMutex
      /\ e = inode[p].eFileLock /\ e # NO_LOCK /\ e \in Levels /\ file[f].pc \notin Giving
      /\ \/ l = RESERVED /\ e = SHARED
         \/ l = EXCLUSIVE /\ e \in {SHARED, RESERVED, PENDING}
  BY WriteLockFacts DEF Giving
<1>2. /\ p \in Process /\ f \in FilesOf(p) /\ LevelInv(p) /\ KernelInv(f)
      /\ fcntl \in [Process -> [Bytes -> Modes]]
  BY Facts
<1>3. /\ Held(f) = TokensOf(e, r) /\ "S" \in Held(f) /\ "X" \notin Held(f)
      /\ "P" \in Held(f) <=> e = PENDING
      /\ "R" \in Held(f) <=> e >= RESERVED /\ r = "write"
  <2>1. Held(f) = TokensOf(e, r)
    BY <1>1, HeldTokens DEF Own
  <2> HIDE DEF e, r
  <2> QED BY <1>1, <2>1, TokenFacts, LevelFacts
<1>4. \A g \in File : g # f /\ Home[g] = p => file[g].pc \notin InMutex /\ file[g].pc \notin Giving
  <2>1. MutexInv(p)
    BY <1>2 DEF IInv, ProcessInv
  <2> QED BY <1>1, <1>2, <2>1 DEF MutexInv, FilesOf, InMutex, Giving
<1>5. \A g \in FilesOf(p) : g # f => ~(file[g].eFileLock > SHARED)
  <2> SUFFICES ASSUME NEW g \in FilesOf(p), g # f, file[g].eFileLock > SHARED PROVE FALSE
    OBVIOUS
  <2>1. g \in File /\ Home[g] = p
    BY DEF FilesOf
  <2>2. inode[p].eFileLock = file[g].eFileLock
    BY <1>2, <1>4, <2>1 DEF LevelInv, At, Giving
  <2>3. e > SHARED
    BY <1>1, <2>2
  <2> QED BY <1>2, <2>3 DEF LevelInv
<1>6. ASSUME NEW g \in File, g # f, Home[g] = p
      PROVE  "R" \notin Held(g) /\ "P" \notin Held(g)
  <2>1. ~(file[g].eFileLock > SHARED) /\ file[g].eFileLock \in Levels
    BY <1>5, <1>6, Facts, RecordTypes
  <2>2. ~(file[g].eFileLock >= PENDING)
    BY <2>1, LevelFacts
  <2> QED BY <2>1, <2>2, HeldFacts
<1>7. ASSUME NEW n \in Levels, Return(f, n)
      PROVE  (\A g \in File : g # f => file'[g] = file[g]) /\ Own(file'[f]) = n
  <2>1. /\ file'[f] = [file[f] EXCEPT !.pc = "idle", !.arg = NO_LOCK, !.eFileLock = n]
        /\ \A g \in File : g # f => file'[g] = file[g]
    BY <1>7, SetFileFacts DEF Return
  <2>2. file'[f].pc = "idle" /\ file'[f].eFileLock = n
    BY <1>1, <2>1, RecordTypes
  <2> QED BY <2>1, <2>2 DEF Own, Giving
<1>8. CASE ~(l = EXCLUSIVE /\ SharedWithin(f)) /\ CanLock(p, b, "write")
  <2>1. SetLock(p, b, "write") /\ Return(f, l)
    BY <1>8 DEF WriteLock
  <2>2. l \in Levels /\ b \in Bytes
    BY <1>1, LevelFacts, ByteFacts
  <2>3. /\ \A q \in Process : q # p => fcntl'[q] = fcntl[q]
        /\ b # "reserved" => fcntl'[p]["reserved"] = r
        /\ fcntl'[p][b] = "write"
    <3> HIDE DEF b
    <3> QED BY <2>1, <2>2, ByteFacts, SetLockOthers
  <2>4. (\A g \in File : g # f => file'[g] = file[g]) /\ Own(file'[f]) = l
    BY <1>7, <2>1, <2>2
  <2>5. HeldMap' = [HeldMap EXCEPT ![f] = TokensOf(l, fcntl'[p]["reserved"])]
    BY <1>5, <2>3, <2>4, HeldStep
  <2>6. \A q \in Process : q # p => fcntl[q][b] = "none"
    BY <1>8 DEF CanLock
  <2>7. CASE l = RESERVED
    <3>1. e = SHARED /\ fcntl'[p]["reserved"] = "write"
      BY <1>1, <2>3, <2>7, LevelFacts
    <3>2. Held(f) = {"S"}
      BY <1>3, <3>1, LevelFacts, TokenFacts
    <3>3. HeldMap' = [HeldMap EXCEPT ![f] = {"S", "R"}]
      BY <2>5, <2>7, <3>1, LevelFacts, TokenFacts
    <3>4. \A g \in File \ {f} : "R" \notin Held(g)
      <4> TAKE g \in File \ {f}
      <4>1. CASE Home[g] = p
        BY <1>6, <4>1
      <4>2. CASE Home[g] # p
        <5>1. fcntl[Home[g]]["reserved"] = "none"
          BY <2>6, <2>7, <4>2, HomeFacts
        <5> QED BY <5>1, HeldFacts
      <4> QED BY <4>1, <4>2
    <3> QED BY <3>2, <3>3, <3>4, ImplReserved
  <2>8. CASE l = EXCLUSIVE
    <3>1. b = "shared" /\ fcntl'[p]["reserved"] = r
      BY <2>3, <2>8, LevelFacts
    <3>2. e = SHARED => r = "none"
      BY <1>1, <1>2, <2>8 DEF KernelInv
    <3>3. TokensOf(l, r) = Held(f) \cup {"P", "X"}
      <4>1. "R" \in TokensOf(l, r) <=> r = "write"
        BY <2>2, <2>8, LevelFacts, TokenFacts
      <4>2. "R" \in Held(f) <=> r = "write"
        BY <1>1, <1>3, <3>2, LevelFacts
      <4>3. {"S", "P", "X"} \subseteq TokensOf(l, r)
        BY <2>2, <2>8, LevelFacts, TokenFacts
      <4>4. TokensOf(l, r) \subseteq {"S", "R", "P", "X"} /\ Held(f) \subseteq {"S", "R", "P", "X"}
        <5> HIDE DEF l, e, r
        <5> QED BY <1>1, <1>3, <2>2, TokenFacts
      <4> HIDE DEF l, r
      <4> QED BY <1>3, <4>1, <4>2, <4>3, <4>4
    <3>4. HeldMap' = [HeldMap EXCEPT ![f] = Held(f) \cup {"P", "X"}]
      BY <2>5, <3>1, <3>3
    <3>5. \A g \in File \ {f} : "S" \notin Held(g)
      <4> TAKE g \in File \ {f}
      <4>1. CASE Home[g] = p
        <5>1. Sharers(p) = {f}
          BY <1>1, <1>8, <2>8, Alone
        <5>2. file[g].eFileLock = NO_LOCK
          BY <4>1, <5>1 DEF Sharers, FilesOf
        <5> QED BY <5>2, HeldFacts
      <4>2. CASE Home[g] # p
        <5>1. fcntl[Home[g]]["shared"] = "none"
          BY <2>6, <3>1, <4>2, HomeFacts
        <5> QED BY <5>1, HeldFacts
      <4> QED BY <4>1, <4>2
    <3> QED BY <1>3, <3>4, <3>5, ImplExclusive
  <2> QED BY <1>1, <2>7, <2>8
<1>9. CASE ~(~(l = EXCLUSIVE /\ SharedWithin(f)) /\ CanLock(p, b, "write"))
  <2>1. Failed(f, l)
    BY <1>9 DEF WriteLock
  <2>2. UNCHANGED fcntl
    BY <2>1 DEF Failed
  <2>3. CASE l # EXCLUSIVE
    <3>1. Return(f, e)
      BY <2>1, <2>3 DEF Failed
    <3>2. (\A g \in File : g # f => file'[g] = file[g]) /\ Own(file'[f]) = e
      BY <1>1, <1>7, <3>1
    <3>3. Own(file[f]) = e
      BY <1>1 DEF Own
    <3> QED BY <2>2, <3>2, <3>3, QuietHeld
  <2>4. CASE l = EXCLUSIVE
    <3>1. Return(f, PENDING) /\ PENDING \in Levels
      BY <2>1, <2>4, LevelFacts DEF Failed
    <3>2. (\A g \in File : g # f => file'[g] = file[g]) /\ Own(file'[f]) = PENDING
      BY <1>7, <3>1
    <3>3. CASE e = PENDING
      <4>1. Own(file[f]) = PENDING
        BY <1>1, <3>3 DEF Own
      <4> QED BY <2>2, <3>2, <4>1, QuietHeld
    <3>4. CASE e # PENDING
      <4>1. HeldMap' = [HeldMap EXCEPT ![f] = TokensOf(PENDING, r)]
        BY <2>2, <3>2, HeldStep
      <4>2. e = SHARED => r = "none"
        BY <1>1, <1>2, <2>4 DEF KernelInv
      <4>3. TokensOf(PENDING, r) = Held(f) \cup {"P"}
        <5>1. "R" \in TokensOf(PENDING, r) <=> r = "write"
          BY LevelFacts, TokenFacts
        <5>2. "R" \in Held(f) <=> r = "write"
          BY <1>1, <1>3, <4>2, LevelFacts
        <5>3. {"S", "P"} \subseteq TokensOf(PENDING, r) /\ "X" \notin TokensOf(PENDING, r)
          BY LevelFacts, TokenFacts
        <5>4. /\ TokensOf(PENDING, r) \subseteq {"S", "R", "P", "X"}
              /\ Held(f) \subseteq {"S", "R", "P", "X"}
          <6> HIDE DEF e, r
          <6> QED BY <1>1, <1>3, LevelFacts, TokenFacts
        <5> HIDE DEF r
        <5> QED BY <1>3, <5>1, <5>2, <5>3, <5>4
      <4>4. HeldMap' = [HeldMap EXCEPT ![f] = Held(f) \cup {"P"}]
        BY <4>1, <4>3
      <4>5. \A g \in File \ {f} : "P" \notin Held(g)
        <5> TAKE g \in File \ {f}
        <5>1. CASE Home[g] = p
          BY <1>6, <5>1
        <5>2. CASE Home[g] # p
          <6>1. fcntl[p]["pending"] = "write"
            BY <1>1, <1>2, <2>4 DEF KernelInv
          <6>2. fcntl[Home[g]]["pending"] = "none"
            BY <1>2, <5>2, <6>1, HomeFacts, ByteFacts DEF IInv, Compatible
          <6> QED BY <6>2, HeldFacts
        <5> QED BY <5>1, <5>2
      <4> QED BY <1>3, <3>4, <4>4, <4>5, ImplPending
    <3> QED BY <3>3, <3>4
  <2> QED BY <2>3, <2>4
<1> QED BY <1>8, <1>9

LEMMA NextHeld ==
  ASSUME IInv, [Next]_vars
  PROVE  Abstract!Next \/ HeldMap' = HeldMap
<1>1. CASE UNCHANGED vars
  <2>1. \A g \in File : Held(g)' = Held(g)
    <3>1. file' = file /\ fcntl' = fcntl
      BY <1>1 DEF vars
    <3> QED BY <3>1, HeldTokens
  <2> QED BY <2>1 DEF HeldMap
<1>2. ASSUME NEW p \in Process, Kill(p) PROVE Abstract!Next
  BY <1>2, KillHeld DEF Abstract!Next
<1>3. ASSUME NEW f \in File, Open(f) \/ FindInodeInfo(f) \/ OpenFails(f) \/ Close(f)
      PROVE  HeldMap' = HeldMap
  BY <1>3, OpeningHeld
<1>4. ASSUME NEW f \in File, LockCounted(f) PROVE Abstract!Next
  BY <1>4, SharedHeld DEF Abstract!Next
<1>5. ASSUME NEW f \in File, Continue(f) PROVE Abstract!Next \/ HeldMap' = HeldMap
  <2>1. CASE PendingByte(f) \/ SharedRange(f)
    BY <2>1, LockingHeld
  <2>2. CASE DropPending(f)
    <3>1. CASE At(f, "dropPending")
      BY <2>2, <3>1, SharedHeld DEF Abstract!Next
    <3>2. CASE At(f, "dropBusy")
      BY <2>2, <3>2, LockingHeld
    <3> QED BY <2>2, <3>1, <3>2 DEF DropPending
  <2>3. CASE WriteLock(f)
    BY <2>3, WriteHeld DEF Abstract!Next
  <2>4. CASE Downgrade(f) \/ ClearPending(f) \/ Release(f)
    BY <2>4, UnlockingHeld
  <2> QED BY <1>5, <2>1, <2>2, <2>3, <2>4 DEF Continue
<1>6. ASSUME NEW f \in File,
             CloseUnlocked(f) \/ \E l \in {SHARED, RESERVED, EXCLUSIVE} : LockEnter(f, l)
      PROVE  HeldMap' = HeldMap
  BY <1>6, LockingHeld
<1>7. ASSUME NEW f \in File, NEW l \in {NO_LOCK, SHARED}, NEW c \in BOOLEAN,
             UnlockEnter(f, l, c)
      PROVE  Abstract!Next
  BY <1>7, UnlockEnterHeld DEF Abstract!Next
<1>8. ASSUME NEW f \in File, UnlockEnter(f, SHARED, FALSE) PROVE Abstract!Next
  <2>1. FALSE \in BOOLEAN
    OBVIOUS
  <2> QED BY <1>7, <1>8, <2>1
<1>9. CASE Next
  <2>1. CASE \E p \in Process : Kill(p)
    BY <1>2, <2>1
  <2>2. CASE \E f \in File :
               \/ Open(f) \/ FindInodeInfo(f) \/ OpenFails(f)
               \/ LockCounted(f) \/ Continue(f)
               \/ CloseUnlocked(f) \/ Close(f)
               \/ \E l \in {SHARED, RESERVED, EXCLUSIVE} : LockEnter(f, l)
               \/ UnlockEnter(f, SHARED, FALSE)
               \/ \E closing \in BOOLEAN : UnlockEnter(f, NO_LOCK, closing)
    BY <1>3, <1>4, <1>5, <1>6, <1>7, <1>8, <2>2, Zenon
  <2> QED BY <1>9, <2>1, <2>2 DEF Next
<1> QED BY <1>1, <1>9

LEMMA InitHeld == Init => Abstract!Init
<1> SUFFICES ASSUME Init, NEW f \in File PROVE Held(f) = {}
  BY DEF Abstract!Init
<1>1. Own(file[f]) = NO_LOCK
  BY DEF Init, ClosedFile, Own, Giving
<1> QED BY <1>1, HeldTokens, LevelFacts, TokenFacts

\* What unixLock and posixUnlock build from the locks of the kernel and the record of a
\* process is the lock that the pager is promised: while one connection may change the
\* file no other may read it, and no process starts to read while a writer is pending.
THEOREM LockImplementsFileLock == Spec => ImplementsFileLock
<1>1. IInv /\ [Next]_vars => [Abstract!Next]_([f \in File |-> Held(f)])
  BY NextHeld DEF HeldMap
<1> QED BY <1>1, InitHeld, Invariant, PTL DEF Spec, ImplementsFileLock, Abstract!Spec

=============================================================================
