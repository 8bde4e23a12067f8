--------------------------------- MODULE Wal ---------------------------------
(* The write-ahead log of the bundled SQLite (wal.c): readers, writers and    *)
(* checkpointers that share a log file, a database file and, in shared        *)
(* memory, the wal-index with its two header copies, read marks and backfill  *)
(* count.  Shared memory is read without locks, so what a connection has read *)
(* can be stale when it acts on it; an action is the work between two moments *)
(* at which another connection, a crash or a power loss can intervene.        *)
EXTENDS Integers, Sequences, FiniteSets, FiniteSetsExt, SequencesExt, TLC

CONSTANTS
  Conn,           \* connections, one Wal object each
  Writers,        \* the connections that write
  Checkpointers,  \* the connections that run checkpoints
  Mortal,         \* the processes that may die: sets of connections
  NReader,        \* WAL_NREADER: read locks 0..NReader-1
  FullSync,       \* the possible values of "PRAGMA synchronous is FULL, not NORMAL"
  Env,            \* what may happen: subset of EnvEvents
  MaxPage,        \* bound: pages in the database
  MaxVer,         \* bound: sets of frames written
  MaxFrame,       \* bound: frames in the log
  MaxSalt         \* bound: salts, so restarts of the log

EnvEvents == {"close", "power", "spill", "savepoint", "block"}

ASSUME WalAssumption ==
  /\ Writers \subseteq Conn /\ Checkpointers \subseteq Conn
  /\ Mortal \subseteq SUBSET Conn
  /\ NReader \in Nat /\ NReader >= 2
  /\ {MaxPage, MaxVer, MaxFrame, MaxSalt} \subseteq Nat \ {0}
  /\ FullSync \subseteq BOOLEAN
  /\ Env \subseteq EnvEvents

VARIABLES
  con,   \* Conn -> its Wal object, and how far its current call has come
  shm,   \* the wal-index
  log,   \* the log file: [cur, dur], what is written and what is durable, and
         \* whether cur is a new file whose directory entry is not yet synced
  file,  \* the database file: [cur, dur], sequences of page versions
  past   \* WAL_SYNC_TRANSACTIONS, the salts and versions in use so far, and the
         \* history: the committed images and the one in flight

vars == <<con, shm, log, file, past>>

-----------------------------------------------------------------------------
(* The log file.  The checksum of a frame covers every frame before it, and   *)
(* is represented by what it covers: sum is the sequence of the entries from  *)
(* the first frame to this one, so that its last element is the frame itself. *)

Entry(pg, ver, n) == [pg |-> pg, ver |-> ver, n |-> n]   \* n = 0: no commit
Frame(salt, sum)  == [salt |-> salt, sum |-> sum]
Torn              == Frame(0, <<>>)
NoLog             == [salt |-> 0, nCkpt |-> 0, frames |-> <<>>]

At(s, i, x) == [k \in 1..Max({Len(s), i}) |-> IF k = i THEN x ELSE s[k]]

\* walDecodeFrame: the salt is that of the header and the checksum goes on from
\* the frame before.
ValidFrame(l, i) ==
  LET f == l.frames[i] IN
  /\ f.salt = l.salt
  /\ Len(f.sum) = i
  /\ i > 1 => Front(f.sum) = l.frames[i - 1].sum

\* A file no longer than its header is as good as none.
HasFrames(l) == l.salt # 0 /\ l.frames # <<>>

ValidFrames(l) ==
  IF ~HasFrames(l) THEN 0
  ELSE Max({k \in 0..Len(l.frames) : \A i \in 1..k : ValidFrame(l, i)})

-----------------------------------------------------------------------------
(* The wal-index header, the wal-index and the Wal object.                    *)

Hdr(init, chg, mx, n, salt, sum) ==
  [init |-> init, chg |-> chg, mx |-> mx, n |-> n, salt |-> salt, sum |-> sum]
NoHdr == Hdr(FALSE, 0, 0, 0, 0, <<>>)

NotUsed  == MaxFrame + 1        \* READMARK_NOT_USED, above every frame number
Marks    == 1..(NReader - 1)
NoPgno   == [f \in 1..MaxFrame |-> 0]
EmptyShm == [h0 |-> NoHdr, h1 |-> NoHdr, nBackfill |-> 0,
             mark |-> [i \in Marks |-> 0], pgno |-> NoPgno]

NoWork    == [todo |-> <<>>, commit |-> FALSE, mxI |-> 0, mxMark |-> 0,
              safe |-> 0, iter |-> NoPgno, changed |-> FALSE, ckpt |-> FALSE,
              close |-> FALSE]
NoImage   == <<>>
NoSavepoint == [mx |-> 0 - 1, sum |-> <<>>, nCkpt |-> 0, image |-> NoImage]
Connected == [pc |-> "idle", hdr |-> NoHdr, lock |-> 0 - 1, excl |-> {},
              nCkpt |-> 0, cache |-> NoImage, image |-> NoImage,
              sp |-> NoSavepoint, w |-> NoWork]
Closed    == [Connected EXCEPT !.pc = "closed"]

\* The lock bytes of the wal-index.  A shared lock is held only on a read lock.
WRITE   == 0
CKPT    == 1
RECOVER == 2
READ(i) == 3 + i
ReadLocks == {READ(i) : i \in Marks}
AllLocks  == 0..(NReader + 2)

\* Mutant of ExclFree: the readers are forgotten.
NoExclusive(c, S) == \A d \in Conn \ {c} : con[d].excl \cap S = {}

SharedFree(c, i) == \A d \in Conn \ {c} : i \notin con[d].excl
ExclFree(c, S) ==
  \A d \in Conn \ {c} :
    /\ con[d].excl \cap S = {}
    /\ con[d].lock >= 0 => READ(con[d].lock) \notin S

Pc(c, pc)    == con[c].pc = pc
Put(c, x)    == con' = [con EXCEPT ![c] = x]
Goto(x, pc)  == [x EXCEPT !.pc = pc]

\* walIndexTryHdr fails on two different copies and on one never written.
GoodHdr == shm.h0 = shm.h1 /\ shm.h0.init

\* The pager empties its cache when the header is not the one of its last
\* transaction (pagerBeginReadTransaction); during a checkpoint it is not told.
\* Mutant of HdrChanged: the frames and the size are compared, not the rest.
OtherFrames(g, h) == g.mx # h.mx \/ g.n # h.n

HdrChanged(g, h) == g # h

NewHdr(x, h) ==
  LET new == HdrChanged(x.hdr, h) IN
  IF x.w.ckpt THEN [x EXCEPT !.hdr = h, !.w.changed = @ \/ new]
  ELSE [x EXCEPT !.hdr = h, !.cache = IF new THEN NoImage ELSE @]
LoadHdr(x) == NewHdr(x, shm.h0)

\* sqlite3WalFindFrame: the last frame of page p the snapshot may use, or 0.
FindFrame(x, p) ==
  IF x.lock = 0 THEN 0
  ELSE Max({0} \cup {f \in 1..x.hdr.mx : shm.pgno[f] = p})

PageIn(l, f)  == Last(l.frames[f].sum).ver
PageAt(db, p) == IF p <= Len(db) THEN db[p] ELSE 0

\* The database as the connection reads it, page by page.  Its size comes from
\* the header, or from the file when the log is empty; the pager of a writer
\* keeps its own.
DbSize(x) == IF WRITE \in x.excl THEN Len(x.image)
             ELSE IF x.hdr.n > 0 THEN x.hdr.n ELSE Len(file.cur)

View(x) ==
  [p \in 1..DbSize(x) |->
     LET f == FindFrame(x, p)
     IN  IF f > 0 THEN PageIn(log.cur, f) ELSE PageAt(file.cur, p)]

-----------------------------------------------------------------------------
(* Recovery.                                                                  *)

\* The frames walIndexRecover accepts end with the last commit frame.
RecoveredHdr(l) ==
  LET commits == {i \in 1..ValidFrames(l) : Last(l.frames[i].sum).n > 0}
      mx == Max(commits \cup {0})
  IN  IF mx = 0 THEN Hdr(TRUE, 0, 0, 0, IF HasFrames(l) THEN l.salt ELSE 0, <<>>)
      ELSE Hdr(TRUE, 0, mx, Last(l.frames[mx].sum).n, l.salt, l.frames[mx].sum)

\* The image that a recovery would find on the files l and db.
RecoveredImage(l, db) ==
  LET h == RecoveredHdr(l)
  IN  [p \in 1..(IF h.n > 0 THEN h.n ELSE Len(db)) |->
         LET fs == {f \in 1..h.mx : Last(l.frames[f].sum).pg = p}
         IN  IF fs # {} THEN PageIn(l, Max(fs)) ELSE PageAt(db, p)]

Committed == Last(past.images)
Saw(img)  == [past EXCEPT !.images = IF img = Last(@) THEN @ ELSE Append(@, img),
                          !.flight = NoImage]

\* walIndexReadHdr, under the write lock because the header was bad: it was
\* being written, or it must be rebuilt, for which every lock is needed.
RetryHdr(c) ==
  LET x == con[c]
      back == IF x.w.ckpt THEN Goto(x, "ckptEnd") ELSE Goto([x EXCEPT !.w = NoWork], "idle")
      Unlocked(y) == [y EXCEPT !.excl = @ \ {WRITE}]
  IN
  /\ Pc(c, "retryHdr")
  /\ IF GoodHdr
     THEN Put(c, Unlocked(Goto(LoadHdr(x), IF x.w.ckpt THEN "ckptTest" ELSE "choose")))
     ELSE IF ExclFree(c, AllLocks \ x.excl)
          THEN Put(c, [Goto(x, "recover") EXCEPT !.excl = AllLocks])
          ELSE Put(c, Unlocked(back))
  /\ UNCHANGED <<shm, log, file, past>>

\* walIndexRecover up to the first half of walIndexWriteHdr.
Recover(c) ==
  LET h == RecoveredHdr(log.cur)
      n == ValidFrames(log.cur)
  IN
  /\ Pc(c, "recover")
  /\ Put(c, [Goto(NewHdr([con[c] EXCEPT !.hdr = NoHdr], h), "recoverHdr") EXCEPT
               !.nCkpt = IF HasFrames(log.cur) THEN log.cur.nCkpt ELSE @])
  /\ shm' = [shm EXCEPT !.h1 = h,
                        !.pgno = IF n = 0 THEN @
                                 ELSE [f \in 1..MaxFrame |->
                                         IF f <= n THEN Last(log.cur.frames[f].sum).pg ELSE 0]]
  /\ UNCHANGED <<log, file, past>>

RecoverHdr(c) ==
  /\ Pc(c, "recoverHdr")
  /\ shm' = [shm EXCEPT !.h0 = con[c].hdr]
  /\ past' = Saw(RecoveredImage(log.cur, file.cur))
  /\ Put(c, Goto(con[c], "recoverInfo"))
  /\ UNCHANGED <<log, file>>

\* The rest of walIndexRecover and of walIndexReadHdr: every lock taken for the
\* recovery is released, and the write lock too.
RecoverInfo(c) ==
  LET x == con[c] IN
  /\ Pc(c, "recoverInfo")
  /\ shm' = [shm EXCEPT !.nBackfill = 0,
                        !.mark = [i \in Marks |-> IF i = 1 /\ x.hdr.mx > 0
                                                  THEN x.hdr.mx ELSE NotUsed]]
  /\ Put(c, [Goto(x, IF x.w.ckpt THEN "ckptTest" ELSE "choose") EXCEPT
               !.excl = IF x.w.ckpt THEN {CKPT} ELSE {}])
  /\ UNCHANGED <<log, file, past>>

-----------------------------------------------------------------------------
(* Read transactions.  A retry (WAL_RETRY) goes back to "idle", or to "pick"  *)
(* for a writer that is moving to a new read lock (useWal).                   *)

\* sqlite3WalBeginReadTransaction: the header is read without any lock, and
\* again under the write lock when that fails.
BeginRead(c) ==
  /\ Pc(c, "idle")
  /\ \/ /\ GoodHdr
        /\ Put(c, Goto(LoadHdr(con[c]), "choose"))
     \/ /\ ~GoodHdr
        /\ ExclFree(c, {WRITE})
        /\ Put(c, [Goto(con[c], "retryHdr") EXCEPT !.excl = {WRITE}])
  /\ UNCHANGED <<shm, log, file, past>>

\* walTryBeginRead: a log that is wholly backfilled is ignored.
Choose(c) ==
  /\ Pc(c, "choose")
  /\ Put(c, Goto(con[c], IF shm.nBackfill = con[c].hdr.mx THEN "lock0" ELSE "pick"))
  /\ UNCHANGED <<shm, log, file, past>>

Reading(x, i) == [x EXCEPT !.lock = i, !.image = Committed, !.w = NoWork,
                           !.cache = IF @ = NoImage THEN Committed ELSE @]
Retry(x)      == IF WRITE \in x.excl THEN Goto(x, "pick")
                 ELSE [Goto(x, "idle") EXCEPT !.w = NoWork]

Lock0(c) ==
  LET x == con[c] IN
  /\ Pc(c, "lock0")
  /\ Put(c, IF ~SharedFree(c, READ(0)) THEN Goto(x, "pick")
            ELSE IF shm.h0 # x.hdr THEN Retry(x)
            ELSE Goto(Reading(x, 0), "read"))
  /\ UNCHANGED <<shm, log, file, past>>

\* The largest mark that is no greater than mxFrame, the last one if several.
BestMark(x) ==
  LET ok   == {i \in Marks : shm.mark[i] <= x.hdr.mx}
      best == {i \in ok : \A j \in ok : shm.mark[j] <= shm.mark[i]}
  IN  IF ok = {} THEN 0 ELSE Max(best)

\* A mark that nobody uses is raised to mxFrame, for a reader that found none.
Pick(c) ==
  LET x    == con[c]
      i    == BestMark(x)
      free == {j \in Marks : ExclFree(c, {READ(j)})}
      raise == (i = 0 \/ shm.mark[i] < x.hdr.mx) /\ free # {}
      j    == IF raise THEN Min(free) ELSE i
  IN
  /\ Pc(c, "pick")
  /\ shm' = IF raise THEN [shm EXCEPT !.mark[j] = x.hdr.mx] ELSE shm
  /\ Put(c, IF j = 0 THEN Retry(x)
            ELSE [Goto(x, "lockMark") EXCEPT
                    !.w.mxI = j, !.w.mxMark = IF raise THEN x.hdr.mx ELSE shm.mark[j]])
  /\ UNCHANGED <<log, file, past>>

\* Mutant of MarkStillGood: the header is not looked at again.
MarkAsPicked(x) == shm.mark[x.w.mxI] = x.w.mxMark

\* The lock is of use only if neither the mark nor the header has changed since.
MarkStillGood(x) == shm.mark[x.w.mxI] = x.w.mxMark /\ shm.h0 = x.hdr

LockMark(c) ==
  LET x == con[c] IN
  /\ Pc(c, "lockMark")
  /\ Put(c, IF ~(SharedFree(c, READ(x.w.mxI)) /\ MarkStillGood(x)) THEN Retry(x)
            ELSE IF WRITE \in x.excl
                 THEN Goto([x EXCEPT !.lock = x.w.mxI, !.w.mxI = 0, !.w.mxMark = 0], "frames")
                 ELSE Goto(Reading(x, x.w.mxI), "read"))
  /\ UNCHANGED <<shm, log, file, past>>

\* sqlite3WalEndReadTransaction, and with it sqlite3WalEndWriteTransaction.
Ended(x) == [Connected EXCEPT !.hdr = x.hdr, !.nCkpt = x.nCkpt, !.cache = x.cache]

EndRead(c) ==
  /\ Pc(c, "read") /\ con[c].excl = {}
  /\ Put(c, Ended(con[c]))
  /\ UNCHANGED <<shm, log, file, past>>

-----------------------------------------------------------------------------
(* Write transactions.                                                        *)

\* sqlite3WalBeginWriteTransaction.  SQLITE_BUSY_SNAPSHOT leaves no trace.
SnapshotIsLatest(x) == shm.h0 = x.hdr

BeginWrite(c) ==
  LET x == con[c] IN
  /\ Pc(c, "read") /\ c \in Writers /\ x.excl = {}
  /\ ExclFree(c, {WRITE})
  /\ SnapshotIsLatest(x)
  /\ Put(c, [x EXCEPT !.excl = {WRITE}])
  /\ UNCHANGED <<shm, log, file, past>>

Writing(c) == Pc(c, "read") /\ WRITE \in con[c].excl

\* The image after the pages S of img are written with version v and the
\* database has n pages.
Changed(img, S, v, n) ==
  [p \in 1..n |-> IF p \in S THEN v ELSE PageAt(img, p)]

\* sqlite3WalFrames is called with the pages S, at a commit with the new size n
\* (pagerWalFrames leaves out the pages beyond it) and otherwise to free memory:
\* page 1 is then never among them.  A page that is new to the database is
\* dirty, and so is page 1 when the size changes.
Frames(c, S, n, commit) ==
  LET x == con[c]
      size == Len(x.image)
      v == past.ver + 1
      new == IF commit THEN n ELSE Max(S \cup {size})
  IN
  /\ Writing(c) /\ v <= MaxVer
  /\ IF commit
     THEN S \subseteq 1..n /\ (size+1)..n \subseteq S /\ (n # size => 1 \in S)
     ELSE 1 \notin S /\ n = 0 /\ S \subseteq 1..(size + 1)
  /\ past' = [past EXCEPT !.ver = v]
  /\ \E pages \in [1..Cardinality(S) -> S] :
       /\ \A i, j \in DOMAIN pages : i < j => pages[i] < pages[j]
       /\ Put(c, [Goto(x, IF x.lock = 0 THEN "restart" ELSE "frames") EXCEPT
                    !.image = Changed(@, S, v, new),
                    !.w.commit = commit,
                    !.w.todo = [k \in DOMAIN pages |->
                                  Entry(pages[k], v, IF k = Cardinality(S) THEN n ELSE 0)]])
  /\ UNCHANGED <<shm, log, file>>

\* walRestartLog: when every reader ignores the log, it begins anew.
Restarted(x) == [x EXCEPT !.nCkpt = @ + 1, !.hdr.mx = 0, !.hdr.salt = past.salt + 1]

RestartLocks == ReadLocks

RestartLog(c) ==
  LET x == con[c] IN
  /\ Pc(c, "restart")
  /\ IF shm.nBackfill > 0 /\ ExclFree(c, RestartLocks)
     THEN /\ past.salt < MaxSalt
          /\ past' = [past EXCEPT !.salt = @ + 1]
          /\ shm' = [shm EXCEPT !.h1 = Restarted(x).hdr]
          /\ Put(c, [Goto(Restarted(x), "restartHdr") EXCEPT !.excl = @ \cup RestartLocks])
     ELSE /\ Put(c, [Goto(x, "pick") EXCEPT !.lock = 0 - 1])
          /\ UNCHANGED <<shm, past>>
  /\ UNCHANGED <<log, file>>

RestartHdr(c) ==
  /\ Pc(c, "restartHdr")
  /\ shm' = [shm EXCEPT !.h0 = con[c].hdr]
  /\ Put(c, Goto(con[c], "restartInfo"))
  /\ UNCHANGED <<log, file, past>>

\* Mutant of ResetInfo: nBackfill is not reset.
KeepBackfill(s) == [s EXCEPT !.mark = [i \in Marks |-> IF i = 1 THEN 0 ELSE NotUsed]]

ResetInfo(s) == [s EXCEPT !.nBackfill = 0,
                          !.mark = [i \in Marks |-> IF i = 1 THEN 0 ELSE NotUsed]]

RestartInfo(c) ==
  /\ Pc(c, "restartInfo")
  /\ shm' = ResetInfo(shm)
  /\ Put(c, [Goto(con[c], "pick") EXCEPT !.lock = 0 - 1, !.excl = {WRITE}])
  /\ UNCHANGED <<log, file, past>>

\* The first frame is preceded by a new header of the log file, which is synced
\* before any frame follows.  The salts are random in a log never restarted.
WriteLogHdr(c) ==
  LET x == con[c]
      fresh == x.nCkpt = 0
      salt == IF fresh THEN past.salt + 1 ELSE x.hdr.salt
  IN
  /\ Pc(c, "frames") /\ x.hdr.mx = 0
  /\ fresh => past.salt < MaxSalt
  /\ past' = IF fresh THEN [past EXCEPT !.salt = salt] ELSE past
  /\ log' = [log EXCEPT !.cur.salt = salt, !.cur.nCkpt = x.nCkpt]
  /\ Put(c, [Goto(x, "syncHdr") EXCEPT !.hdr.salt = salt, !.hdr.sum = <<>>])
  /\ UNCHANGED <<shm, file>>

Synced(f)    == [f EXCEPT !.dur = f.cur]
SyncedLog(f) == [Synced(f) EXCEPT !.new = FALSE]

SyncLogHdr(c) ==
  /\ Pc(c, "syncHdr")
  /\ log' = SyncedLog(log)
  /\ Put(c, Goto(con[c], "append"))
  /\ UNCHANGED <<shm, file, past>>

\* walWriteOneFrame.  Frames are numbered after mxFrame, which moves when all
\* of them are written; hdr.sum is the running checksum.
NextFrame(x) == Len(x.hdr.sum) + 1

WriteFrame(c) ==
  LET x   == con[c]
      f   == NextFrame(x)
      sum == Append(x.hdr.sum, Head(x.w.todo))
  IN
  /\ Pc(c, "append") \/ (Pc(c, "frames") /\ x.hdr.mx > 0)
  /\ x.w.todo # <<>> /\ f <= MaxFrame
  /\ log' = [log EXCEPT !.cur.frames = At(@, f, Frame(x.hdr.salt, sum))]
  /\ Put(c, [Goto(x, "append") EXCEPT !.hdr.sum = sum, !.w.todo = Tail(@)])
  /\ past' = [past EXCEPT !.flight = IF Head(x.w.todo).n > 0 THEN x.image ELSE NoImage]
  /\ UNCHANGED <<shm, file>>

\* The rest of sqlite3WalFrames: the sync of a commit, walIndexAppend for the
\* new frames, the private header and, for a commit, the second copy of the
\* shared one.
Appended(x) ==
  LET n == Len(x.hdr.sum) IN
  [f \in 1..MaxFrame |->
     IF f > n THEN (IF x.hdr.mx = 0 \/ shm.pgno[x.hdr.mx + 1] # 0 THEN 0 ELSE shm.pgno[f])
     ELSE IF f > x.hdr.mx THEN x.hdr.sum[f].pg ELSE shm.pgno[f]]

EndFrames(c) ==
  LET x == con[c]
      h == [x.hdr EXCEPT !.mx = Len(x.hdr.sum), !.init = TRUE,
                         !.chg = IF x.w.commit THEN @ + 1 ELSE @,
                         !.n = IF x.w.commit THEN Last(x.hdr.sum).n ELSE @]
  IN
  /\ Pc(c, "append") /\ x.w.todo = <<>>
  /\ log' = IF x.w.commit /\ past.full THEN SyncedLog(log) ELSE log
  /\ shm' = [shm EXCEPT !.pgno = Appended(x), !.h1 = IF x.w.commit THEN h ELSE @]
  /\ Put(c, [Goto(x, IF x.w.commit THEN "commitHdr" ELSE "read") EXCEPT
               !.hdr = h, !.w = NoWork])
  /\ UNCHANGED <<file, past>>

\* sqlite3WalEndWriteTransaction: the connection is a reader again, of what it
\* wrote or of what it rolled back to.
EndWrite(x, h, img) ==
  [Goto(x, "read") EXCEPT !.excl = {}, !.hdr = h, !.image = img, !.cache = img,
                          !.sp = NoSavepoint, !.w = NoWork]

\* The first copy of the header makes the commit visible; then the lock goes.
CommitHdr(c) ==
  LET x == con[c] IN
  /\ Pc(c, "commitHdr")
  /\ shm' = [shm EXCEPT !.h0 = x.hdr]
  /\ past' = Saw(x.image)
  /\ Put(c, EndWrite(x, x.hdr, x.image))
  /\ UNCHANGED <<log, file>>

\* sqlite3WalUndo with walCleanupHash, and the end of the transaction.
CleanupHash(mx) == [f \in 1..MaxFrame |-> IF mx > 0 /\ f > mx THEN 0 ELSE shm.pgno[f]]

Rollback(c) ==
  LET x == con[c] IN
  /\ Writing(c)
  /\ shm' = IF x.hdr.mx # shm.h0.mx THEN [shm EXCEPT !.pgno = CleanupHash(shm.h0.mx)] ELSE shm
  /\ Put(c, EndWrite(x, shm.h0, x.cache))
  /\ UNCHANGED <<log, file, past>>

\* sqlite3WalSavepoint and sqlite3WalSavepointUndo.
Savepoint(c) ==
  LET x == con[c] IN
  /\ Writing(c) /\ "savepoint" \in Env /\ x.sp = NoSavepoint
  /\ Put(c, [x EXCEPT !.sp = [mx |-> x.hdr.mx, sum |-> x.hdr.sum,
                              nCkpt |-> x.nCkpt, image |-> x.image]])
  /\ UNCHANGED <<shm, log, file, past>>

\* Mutant of UndoFrame: a restart since the savepoint goes unnoticed.
UndoFrameStale(x) == x.sp.mx

UndoFrame(x) == IF x.sp.nCkpt # x.nCkpt THEN 0 ELSE x.sp.mx

SavepointUndo(c) ==
  LET x  == con[c]
      mx == UndoFrame(x)
  IN
  /\ Writing(c) /\ x.sp # NoSavepoint
  /\ Put(c, [x EXCEPT !.sp.mx = mx, !.sp.nCkpt = x.nCkpt, !.image = x.sp.image,
                      !.hdr = IF mx < x.hdr.mx
                              THEN [x.hdr EXCEPT !.mx = mx, !.sum = x.sp.sum] ELSE @])
  /\ shm' = IF mx < x.hdr.mx THEN [shm EXCEPT !.pgno = CleanupHash(mx)] ELSE shm
  /\ UNCHANGED <<log, file, past>>

-----------------------------------------------------------------------------
(* Checkpoints.  The frames up to safe are copied into the database file.     *)

\* sqlite3WalCheckpoint: a blocking checkpoint takes the write lock as well, if
\* it can.
CkptBegin(c, block) ==
  LET x == con[c] IN
  /\ Pc(c, "idle") /\ c \in Checkpointers
  /\ block => "block" \in Env
  /\ ExclFree(c, {CKPT})
  /\ Put(c, [Goto(x, "ckptHdr") EXCEPT
               !.excl = IF block /\ ExclFree(c, {WRITE}) THEN {CKPT, WRITE} ELSE {CKPT},
               !.w.ckpt = TRUE])
  /\ UNCHANGED <<shm, log, file, past>>

CkptHdr(c) ==
  LET x == con[c] IN
  /\ Pc(c, "ckptHdr")
  /\ Put(c, IF GoodHdr THEN Goto(LoadHdr(x), "ckptTest")
            ELSE IF ExclFree(c, {WRITE})
                 THEN [Goto(x, "retryHdr") EXCEPT !.excl = @ \cup {WRITE}]
                 ELSE Goto(x, "ckptEnd"))
  /\ UNCHANGED <<shm, log, file, past>>

\* walCheckpoint: nBackfill is read long after the header was.  The iterator
\* visits every page once, at its last frame up to mxFrame.
Iterator(mx) ==
  [f \in 1..MaxFrame |->
     IF f <= mx /\ \A g \in (f+1)..mx : shm.pgno[g] # shm.pgno[f] THEN shm.pgno[f] ELSE 0]

CkptTest(c) ==
  LET x == con[c] IN
  /\ Pc(c, "ckptTest")
  /\ Put(c, IF shm.nBackfill >= x.hdr.mx THEN Goto(x, "ckptEnd")
            ELSE [Goto(x, "ckptMark") EXCEPT !.w.iter = Iterator(x.hdr.mx),
                                             !.w.safe = x.hdr.mx, !.w.mxI = 1])
  /\ UNCHANGED <<shm, log, file, past>>

\* A mark below safe is raised, or else its reader limits the checkpoint.
SafeFrame(safe, mark, busy) == IF busy /\ safe > mark THEN mark ELSE safe

CkptMark(c) ==
  LET x    == con[c]
      i    == x.w.mxI
      y    == shm.mark[i]
      busy == ~ExclFree(c, {READ(i)})
  IN
  /\ Pc(c, "ckptMark")
  /\ Put(c, [Goto(x, IF i + 1 \in Marks THEN "ckptMark" ELSE "ckptLock0") EXCEPT
               !.w.safe = SafeFrame(@, y, busy),
               !.w.mxI = IF i + 1 \in Marks THEN i + 1 ELSE 0])
  /\ shm' = IF x.w.safe > y /\ ~busy
            THEN [shm EXCEPT !.mark[i] = IF i = 1 THEN x.w.safe ELSE NotUsed] ELSE shm
  /\ UNCHANGED <<log, file, past>>

\* Mutant of SyncForCkpt: the log is not synced.
NoSync(f) == f

\* The log is durable before any of it goes into the database file.
SyncForCkpt(f) == SyncedLog(f)

CkptLock0(c) ==
  LET x == con[c]
      go == shm.nBackfill < x.w.safe /\ ExclFree(c, {READ(0)})
  IN
  /\ Pc(c, "ckptLock0")
  /\ Put(c, IF go THEN [Goto(x, "ckptWrite") EXCEPT
                          !.excl = @ \cup {READ(0)},
                          !.w.iter = [f \in 1..MaxFrame |->
                                        IF f > shm.nBackfill /\ f <= x.w.safe
                                           /\ x.w.iter[f] <= x.hdr.n
                                        THEN x.w.iter[f] ELSE 0]]
            ELSE Goto(x, "ckptEnd"))
  /\ log' = IF go THEN SyncForCkpt(log) ELSE log
  /\ UNCHANGED <<shm, file, past>>

\* The pages go out in ascending order.
CkptWrite(c) ==
  LET x  == con[c]
      fs == {f \in 1..MaxFrame : x.w.iter[f] > 0}
      p  == Min({x.w.iter[f] : f \in fs})
      f  == CHOOSE g \in fs : x.w.iter[g] = p
  IN
  /\ Pc(c, "ckptWrite") /\ fs # {}
  /\ file' = [file EXCEPT !.cur = [k \in 1..Max({Len(@), p}) |->
                                     IF k = p THEN PageIn(log.cur, f) ELSE PageAt(@, k)]]
  /\ Put(c, [x EXCEPT !.w.iter[f] = 0])
  /\ UNCHANGED <<shm, log, past>>

\* A checkpoint of the whole log ends with the database file truncated and
\* durable, which is what allows a writer to restart the log.
Settled(f, n) == Synced([f EXCEPT !.cur = [k \in 1..n |-> PageAt(@, k)]])

CkptDone(c) ==
  LET x == con[c] IN
  /\ Pc(c, "ckptWrite") /\ \A f \in 1..MaxFrame : x.w.iter[f] = 0
  /\ file' = IF x.w.safe = shm.h0.mx THEN Settled(file, x.hdr.n) ELSE file
  /\ shm' = [shm EXCEPT !.nBackfill = x.w.safe]
  /\ Put(c, [Goto(x, "ckptEnd") EXCEPT !.excl = @ \ {READ(0)}])
  /\ UNCHANGED <<log, past>>

\* The end of sqlite3WalCheckpoint.  A header that was loaded for the checkpoint
\* is forgotten, so that the pager will notice that its cache is stale.  When the
\* checkpoint is the one of sqlite3WalClose, the log is deleted after it; the
\* deletion is not synced.
AfterCkpt(x) == [Ended(x) EXCEPT !.hdr = IF x.w.changed THEN NoHdr ELSE x.hdr]

CkptEnd(c) ==
  LET x == con[c] IN
  /\ Pc(c, "ckptEnd")
  /\ IF x.w.close
     THEN /\ Put(c, Closed)
          /\ shm' = EmptyShm
          /\ log' = [log EXCEPT !.cur = NoLog, !.new = TRUE]
     ELSE /\ Put(c, AfterCkpt(x))
          /\ UNCHANGED <<shm, log>>
  /\ UNCHANGED <<file, past>>

-----------------------------------------------------------------------------
(* Opening, closing, crashes.                                                 *)

OpenConn == {c \in Conn : ~Pc(c, "closed")}

\* The first connection to open creates the wal-index anew
\* (unixOpenSharedMemory), so nothing of it outlives the last one.
Left(S) == IF S = {} THEN EmptyShm ELSE shm

Open(c) == /\ Pc(c, "closed")
           /\ \A d \in Conn : ~con[d].w.close
           /\ Put(c, Connected)
           /\ UNCHANGED <<shm, log, file, past>>

\* sqlite3WalClose.  Only the last connection gets the exclusive lock on the
\* database file, which keeps every other out while it runs a checkpoint.
Close(c) ==
  /\ Pc(c, "idle") /\ "close" \in Env
  /\ Put(c, IF OpenConn = {c}
            THEN [Goto(con[c], "ckptHdr") EXCEPT !.excl = {CKPT}, !.w.ckpt = TRUE,
                                                 !.w.close = TRUE]
            ELSE Closed)
  /\ UNCHANGED <<shm, log, file, past>>

\* A process dies: the locks that its connections hold are released.
Kill(P) ==
  /\ P \cap OpenConn # {}
  /\ con' = [c \in Conn |-> IF c \in P THEN Closed ELSE con[c]]
  /\ shm' = Left(OpenConn \ P)
  /\ UNCHANGED <<log, file, past>>

\* Of what was written since the last sync anything may have reached the disk,
\* in any order, and in part; a header of the log is written whole.
Pieces        == {"cur", "dur", "torn"}
FrameOf(l, i) == IF i <= Len(l.frames) THEN l.frames[i] ELSE Torn
UnsyncedFrames == {i \in 1..MaxFrame : FrameOf(log.cur, i) # FrameOf(log.dur, i)}

Mixture(hdr, piece) ==
  [salt |-> log[hdr].salt, nCkpt |-> log[hdr].nCkpt,
   frames |-> [i \in 1..Max({Len(log.cur.frames), Len(log.dur.frames)}) |->
                 IF i \notin DOMAIN piece THEN FrameOf(log.cur, i)
                 ELSE IF piece[i] = "torn" THEN Torn ELSE FrameOf(log[piece[i]], i)]]

\* A file whose deletion or creation is not synced survives as the old file or
\* as the new one.
SurvivingLogs ==
  IF log.new THEN {log.cur, log.dur, NoLog}
  ELSE {Mixture(hdr, piece) : hdr \in {"cur", "dur"}, piece \in [UnsyncedFrames -> Pieces]}

TornPage      == 0 - 1
UnsyncedPages == {p \in 1..MaxPage : PageAt(file.cur, p) # PageAt(file.dur, p)}

SurvivingFiles ==
  {[p \in 1..Len(file[len]) |->
      IF p \notin UnsyncedPages THEN PageAt(file.cur, p)
      ELSE IF piece[p] = "torn" THEN TornPage ELSE PageAt(file[piece[p]], p)] :
     len \in {"cur", "dur"}, piece \in [UnsyncedPages -> Pieces]}

\* With synchronous=NORMAL the latest commits may be lost, in order.
Survivors(img) ==
  LET k == {i \in DOMAIN past.images : past.images[i] = img}
  IN  IF past.full \/ k = {} THEN past
      ELSE [past EXCEPT !.images = SubSeq(@, 1, Max(k))]

PowerLoss ==
  /\ "power" \in Env
  /\ OpenConn # {}
  /\ con' = [c \in Conn |-> Closed]
  /\ shm' = EmptyShm
  /\ \E l \in SurvivingLogs, f \in SurvivingFiles :
       /\ log' = [cur |-> l, dur |-> l, new |-> FALSE]
       /\ file' = [cur |-> f, dur |-> f]
       /\ past' = Survivors(RecoveredImage(l, f))

-----------------------------------------------------------------------------
InitImage == [p \in 1..1 |-> 0]

Init == /\ con = [c \in Conn |-> Connected]
        /\ shm = EmptyShm
        /\ log = [cur |-> NoLog, dur |-> NoLog, new |-> FALSE]
        /\ file = [cur |-> InitImage, dur |-> InitImage]
        /\ \E full \in FullSync :
             past = [full |-> full, salt |-> 0, ver |-> 0,
                     images |-> <<InitImage>>, flight |-> NoImage]

Next ==
  \/ PowerLoss
  \/ \E P \in Mortal : Kill(P)
  \/ \E c \in Conn :
       \/ BeginRead(c) \/ RetryHdr(c) \/ Recover(c) \/ RecoverHdr(c) \/ RecoverInfo(c)
       \/ Choose(c) \/ Lock0(c) \/ Pick(c) \/ LockMark(c) \/ EndRead(c)
       \/ BeginWrite(c) \/ RestartLog(c) \/ RestartHdr(c) \/ RestartInfo(c)
       \/ WriteLogHdr(c) \/ SyncLogHdr(c) \/ WriteFrame(c) \/ EndFrames(c) \/ CommitHdr(c)
       \/ Rollback(c) \/ Savepoint(c) \/ SavepointUndo(c)
       \/ CkptHdr(c) \/ CkptTest(c) \/ CkptMark(c) \/ CkptLock0(c) \/ CkptWrite(c)
       \/ CkptDone(c) \/ CkptEnd(c)
       \/ Open(c) \/ Close(c)
       \/ \E block \in BOOLEAN : CkptBegin(c, block)
       \/ \E S \in (SUBSET (1..MaxPage)) \ {{}} :
            \/ "spill" \in Env /\ Frames(c, S, 0, FALSE)
            \/ \E n \in 1..MaxPage : Frames(c, S, n, TRUE)

Spec == Init /\ [][Next]_vars

-----------------------------------------------------------------------------
(* Properties.                                                                *)

\* Type correctness of the locks and the counters of the wal-index: two
\* connections never hold conflicting locks, a frame number is within the log.
TypeOK ==
  /\ \A c, d \in Conn : c # d =>
       /\ con[c].excl \cap con[d].excl = {}
       /\ con[c].lock >= 0 => READ(con[c].lock) \notin con[d].excl
  /\ \A c \in Conn : /\ con[c].hdr.mx \in 0..MaxFrame
                     /\ con[c].lock \in (0 - 1)..(NReader - 1)
  /\ shm.nBackfill \in 0..MaxFrame
  /\ \A i \in Marks : shm.mark[i] \in 0..NotUsed

\* A read transaction sees one committed image, the latest when it began, for as
\* long as it lasts, and a write transaction that image with its own changes,
\* whatever checkpoints, restarts and recoveries other connections run meanwhile
\* ("the current thread will continue to use this snapshot").
Snapshot ==
  \A c \in Conn : Pc(c, "read") => View(con[c]) = con[c].image

\* The pages that the pager keeps from its last transaction are those of the
\* snapshot of its new one.
CacheCurrent ==
  \A c \in Conn : Pc(c, "read") /\ con[c].excl = {} => con[c].cache = con[c].image

\* If every process died now, recovery would find the last commit, or the one
\* that is being written: nothing half done, and nothing lost.
Recoverable ==
  RecoveredImage(log.cur, file.cur) \in {Committed, past.flight} \ {NoImage}

\* nBackfill counts frames of this log, so it is never beyond the last one
\* (except while the log is being reset under the read locks).
BackfillBound ==
  (\A c \in Conn : ReadLocks \cap con[c].excl = {}) => shm.nBackfill <= shm.h0.mx
==============================================================================
