-------------------------------- MODULE Pager --------------------------------
(* The pager of the bundled SQLite in rollback mode (journal_mode=DELETE):    *)
(* connections in separate processes share a database file and its rollback   *)
(* journal under the five-level file lock.  The files have a current content, *)
(* which every process sees, and a durable one, which survives the loss of    *)
(* power.  An action is the work a call does between two I/O operations or    *)
(* two lock operations that another process or a crash can tell apart.        *)
EXTENDS Integers, Sequences, FiniteSets, FiniteSetsExt, SequencesExt, TLC

CONSTANTS
  Conn,          \* connections, one Pager object each
  Data,          \* contents of the pages after the first
  NoFile,        \* "there is no journal file"
  Junk,          \* content that was torn or never reached the disk
  NoView,        \* "the connection is in no transaction" (see AtomicStore)
  InitSizes,     \* sizes in pages the database file may have at the start
  FullSync,      \* Pager.fullSync: PRAGMA synchronous is FULL, not NORMAL
  Env,           \* what may happen: subset of EnvEvents
  MaxPage,       \* bound: pages in the database
  MaxVer,        \* bound: change counter, so commits
  MaxSlot,       \* bound: headers and records in the journal
  MaxSavepoint,  \* bound: open savepoints
  MaxSub         \* bound: records in the sub-journal

EnvEvents == {"grow", "spill", "savepoint", "kill", "power", "ioerr"}

ASSUME PagerAssumption ==
  /\ {MaxVer, MaxSlot, MaxSavepoint, MaxSub} \subseteq Nat
  /\ MaxPage \in Nat \ {0}
  /\ InitSizes \subseteq 0..MaxPage
  /\ FullSync \in BOOLEAN
  /\ Env \subseteq EnvEvents

VARIABLES
  file,  \* the database file: [cur, dur], sequences of page contents
  jrnl,  \* the journal file: [cur, dur, new], NoFile or sequences of slots
  lock,  \* Conn -> the lock it holds on the database file
  pgr    \* Conn -> its Pager object

vars == <<file, jrnl, lock, pgr>>

NO_LOCK   == 0
SHARED    == 1
RESERVED  == 2
PENDING   == 3
EXCLUSIVE == 4

\* Page 1 keeps the change counter and the size of the database in pages; it
\* is all zeros in a database that is still empty.
Page1(v, n) == [ver |-> v, n |-> n]
Zero        == Page1(0, 0)

Hdr(magic, nRec, orig) == [magic |-> magic, nRec |-> nRec, orig |-> orig]
Rec(pg, d)             == [pg |-> pg, d |-> d]
IsHdr(s) == s # Junk /\ "magic" \in DOMAIN s
IsRec(s) == s # Junk /\ "pg" \in DOMAIN s

Put(s, i, x) == [k \in 1..Max({Len(s), i}) |->
                   IF k = i THEN x ELSE IF k <= Len(s) THEN s[k] ELSE Junk]

\* Truncation, or extension by a page of zeros at the new end.
Resize(f, n) == [k \in 1..n |-> IF k <= Len(f) THEN f[k] ELSE Junk]

-----------------------------------------------------------------------------
(* The Pager object.                                                          *)

States == {"OPEN", "READER", "LOCKED", "CACHEMOD", "DBMOD", "FINISHED", "ERROR"}

NoPages == [n \in {} |-> Zero]

NewPager ==
  [st |-> "OPEN", pc |-> "idle", size |-> 0, orig |-> 0, fsize |-> 0,
   cache |-> NoPages, vers |-> Zero, inj |-> {}, nRec |-> 0, off |-> 0,
   hdr |-> 0, sp |-> <<>>, sub |-> <<>>, ccd |-> FALSE, left |-> 0, tgt |-> 0]

IsWriter(p)  == p.st \in {"LOCKED", "CACHEMOD", "DBMOD", "FINISHED"}
Others(c)    == Conn \ {c}
Step(c, p)   == pgr' = [pgr EXCEPT ![c] = p]
Lock(c, l)   == lock' = [lock EXCEPT ![c] = l]
At(c, pc)    == pgr[c].pc = pc
Goto(p, pc)  == [p EXCEPT !.pc = pc]
Idle(c, sts) == At(c, "idle") /\ pgr[c].st \in sts

Entry(d, dirty, ns) == [d |-> d, dirty |-> dirty, ns |-> ns]
Cached(p, n)   == n \in DOMAIN p.cache
Fetch(p, n)    == IF Cached(p, n) THEN p.cache[n].d
                  ELSE IF n > p.size THEN Zero ELSE file.cur[n]
WithPage(f, n, e) == [k \in DOMAIN f \union {n} |-> IF k = n THEN e ELSE f[k]]
Load(p, n)     == IF Cached(p, n) THEN p
                  ELSE [p EXCEPT !.cache = WithPage(@, n, Entry(Fetch(p, n), FALSE, FALSE)),
                                 !.vers = IF n = 1 /\ p.size > 0 THEN file.cur[1] ELSE @]
SetData(p, n, d) == [p EXCEPT !.cache[n].d = d]
Keep(f, S)     == [n \in DOMAIN f \cap S |-> f[n]]
CleanAll(f)    == [n \in DOMAIN f |-> Entry(f[n].d, FALSE, FALSE)]

\* pager_reset: the cache is discarded.
PagerReset(p) == [p EXCEPT !.cache = NoPages]

\* What is not read again before it is next assigned is forgotten, to keep equal
\* states equal.
Forget(p) == [p EXCEPT !.orig = 0, !.fsize = 0, !.off = 0, !.hdr = 0, !.nRec = 0,
                       !.left = 0, !.tgt = 0]

\* pager_unlock: the pager leaves its transaction without any further I/O.
PagerUnlock(p) ==
  [Forget(IF p.st = "ERROR" THEN PagerReset(p) ELSE p) EXCEPT
     !.st = "OPEN", !.pc = "idle", !.inj = {}, !.sp = <<>>, !.sub = <<>>,
     !.ccd = FALSE]

\* What sqlite3PagerAcquire reads page by page: the database as this connection
\* sees it.  The size is the one that page 1 records, as in lockBtree.
ViewImage(p) == IF p.size = 0 THEN <<>>
                ELSE [n \in 1..Fetch(p, 1).n |-> Fetch(p, n)]

-----------------------------------------------------------------------------
(* Reading, and the check for a hot journal that precedes it.                 *)

\* pager_wait_on_lock(SHARED_LOCK): nobody holds PENDING or more.
SharedLock(c) ==
  /\ Idle(c, {"OPEN"})
  /\ \A d \in Others(c) : lock[d] < PENDING
  /\ Lock(c, SHARED)
  /\ Step(c, Goto(pgr[c], "exists"))
  /\ UNCHANGED <<file, jrnl>>

HotExists(c) ==
  /\ At(c, "exists")
  /\ Step(c, Goto(pgr[c], IF jrnl.cur = NoFile THEN "validate" ELSE "reserved"))
  /\ UNCHANGED <<file, jrnl, lock>>

HotReserved(c) ==
  /\ At(c, "reserved")
  /\ Step(c, Goto(pgr[c], IF \E d \in Others(c) : lock[d] >= RESERVED
                          THEN "validate" ELSE "first"))
  /\ UNCHANGED <<file, jrnl, lock>>

\* The journal belongs to an empty file and is deleted, or its first byte says
\* whether it is hot; a journal that is gone by now counts as hot.
HotFirstByte(c) ==
  /\ At(c, "first")
  /\ IF Len(file.cur) = 0
     THEN IF \A d \in Others(c) : lock[d] < RESERVED
          THEN Lock(c, RESERVED) /\ Step(c, Goto(pgr[c], "empty"))
          ELSE Step(c, Goto(pgr[c], "validate")) /\ UNCHANGED lock
     ELSE /\ Step(c, Goto(pgr[c],
               IF \/ jrnl.cur = NoFile
                  \/ (jrnl.cur # <<>>) /\ (IsHdr(jrnl.cur[1]) => jrnl.cur[1].magic)
               THEN "exclusive" ELSE "validate"))
          /\ UNCHANGED lock
  /\ UNCHANGED <<file, jrnl>>

HotEmpty(c) ==
  /\ At(c, "empty")
  /\ jrnl' = [jrnl EXCEPT !.cur = NoFile, !.new = FALSE]
  /\ Lock(c, SHARED)
  /\ Step(c, Goto(pgr[c], "validate"))
  /\ UNCHANGED file

\* EXCLUSIVE without passing through RESERVED, then sync the journal and start
\* to play it back; or there is no journal any more; or the lock is not to be
\* had and the attempt to read is given up.
HotExclusive(c) ==
  /\ At(c, "exclusive")
  /\ IF \E d \in Others(c) : lock[d] >= SHARED
     THEN /\ Lock(c, NO_LOCK)
          /\ Step(c, PagerUnlock(pgr[c]))
          /\ UNCHANGED jrnl
     ELSE IF jrnl.cur = NoFile
     THEN /\ Lock(c, SHARED)
          /\ Step(c, Goto(pgr[c], "validate"))
          /\ UNCHANGED jrnl
     ELSE /\ Lock(c, EXCLUSIVE)
          /\ jrnl' = [cur |-> jrnl.cur, dur |-> jrnl.cur, new |-> FALSE]
          /\ Step(c, [Goto(pgr[c], "play") EXCEPT !.hdr = Len(jrnl.cur), !.off = 0, !.left = 0])
  /\ UNCHANGED file

\* Mutant of Validate: the cache is kept without a look at the file.
ValidateBlindly(c) ==
  /\ At(c, "validate")
  /\ Step(c, Load([pgr[c] EXCEPT !.st = "READER", !.pc = "idle", !.size = Len(file.cur)], 1))
  /\ UNCHANGED <<file, jrnl, lock>>

\* The cache survives from one transaction to the next only if the file has
\* not been changed in between; then page 1 is read (lockBtree).
Validate(c) ==
  /\ At(c, "validate")
  /\ LET p    == pgr[c]
         now  == IF Len(file.cur) = 0 THEN Zero ELSE file.cur[1]
         kept == IF p.cache # NoPages /\ p.vers # now THEN PagerReset(p) ELSE p
     IN Step(c, Load([kept EXCEPT !.st = "READER", !.pc = "idle", !.size = Len(file.cur)], 1))
  /\ UNCHANGED <<file, jrnl, lock>>

Read(c, n) ==
  /\ Idle(c, {"READER", "LOCKED", "CACHEMOD", "DBMOD"})
  /\ n \in DOMAIN ViewImage(pgr[c])
  /\ ~Cached(pgr[c], n)
  /\ Step(c, Load(pgr[c], n))
  /\ UNCHANGED <<file, jrnl, lock>>

EndRead(c) ==
  /\ Idle(c, {"READER", "ERROR"})
  /\ Lock(c, NO_LOCK)
  /\ Step(c, PagerUnlock(pgr[c]))
  /\ UNCHANGED <<file, jrnl>>

-----------------------------------------------------------------------------
(* Writing: the journal, the sub-journal of the savepoints, the cache.        *)

Begin(c) ==
  /\ Idle(c, {"READER"})
  /\ \A d \in Others(c) : lock[d] < RESERVED
  /\ Lock(c, RESERVED)
  /\ Step(c, [pgr[c] EXCEPT !.st = "LOCKED", !.fsize = pgr[c].size,
                            !.orig = pgr[c].size, !.off = 0])
  /\ UNCHANGED <<file, jrnl>>

\* writeJournalHdr: the header is written with a zero magic and no count.
WriteJournalHdr(s) ==
  [s EXCEPT !.j = Put(@, s.p.off + 1, Hdr(FALSE, 0, s.p.orig)),
            !.p.hdr = s.p.off, !.p.off = @ + 1]

\* pager_open_journal.  A journal that was left behind is not truncated: the
\* random checksum seed of the new header makes its old records invalid.
PagerOpenJournal(s) ==
  IF s.p.st # "LOCKED" THEN s
  ELSE WriteJournalHdr(
         [s EXCEPT !.j = IF @ = NoFile THEN <<>> ELSE [i \in DOMAIN @ |-> Junk],
                   !.p.st = "CACHEMOD", !.p.inj = {}, !.p.nRec = 0,
                   !.p.off = 0, !.p.hdr = 0])

AddToSavepointBitvecs(p, n) ==
  LET Mark(sp) == IF n <= sp.nOrig THEN [sp EXCEPT !.in = @ \union {n}] ELSE sp
  IN [p EXCEPT !.sp = [i \in DOMAIN @ |-> Mark(@[i])]]

\* Mutant of SubjRequiresPage: the last page the savepoint saw is forgotten.
SubjRequiresPageOffByOne(p, n) == \E i \in DOMAIN p.sp : n < p.sp[i].nOrig /\ n \notin p.sp[i].in

SubjRequiresPage(p, n) == \E i \in DOMAIN p.sp : n <= p.sp[i].nOrig /\ n \notin p.sp[i].in

JournalPage(s, n) ==
  LET p      == s.p
      logged == [p EXCEPT !.off = @ + 1, !.nRec = @ + 1, !.inj = @ \union {n},
                          !.cache[n].ns = TRUE]
  IN IF n \in p.inj THEN s
     ELSE IF n <= p.orig
     THEN [s EXCEPT !.j = Put(@, p.off + 1, Rec(n, p.cache[n].d)),
                    !.p = AddToSavepointBitvecs(logged, n)]
     ELSE [s EXCEPT !.p.cache[n].ns = @ \/ p.st # "DBMOD"]

SubjournalPage(s, n) ==
  LET p      == s.p
      logged == [p EXCEPT !.sub = Append(@, Rec(n, p.cache[n].d))]
  IN IF ~SubjRequiresPage(p, n) THEN s
     ELSE [s EXCEPT !.p = AddToSavepointBitvecs(logged, n)]

\* pager_write, on a pager and the content of the journal.
PagerWrite(s, n) ==
  LET opened == PagerOpenJournal(s)
      dirty  == [opened EXCEPT !.p.cache[n].dirty = TRUE]
      done   == SubjournalPage(JournalPage(dirty, n), n)
  IN [done EXCEPT !.p.size = Max({@, n})]

\* Mutant of AcquireNoContent: a page that was never in the file is marked too.
AcquireNoContentAlways(p, n) ==
  AddToSavepointBitvecs(
    [p EXCEPT !.cache = WithPage(@, n, Entry(Zero, FALSE, FALSE)), !.inj = @ \union {n}], n)

\* A page beyond the end is acquired without its content, and not journalled.
AcquireNoContent(p, n) ==
  AddToSavepointBitvecs(
    [p EXCEPT !.cache = WithPage(@, n, Entry(Zero, Cached(p, n) /\ p.cache[n].dirty,
                                                   Cached(p, n) /\ p.cache[n].ns)),
              !.inj = IF n <= p.orig THEN @ \union {n} ELSE @], n)

Fits(s) == Len(s.j) <= MaxSlot /\ Len(s.p.sub) <= MaxSub

Apply(c, s) ==
  /\ Fits(s)
  /\ jrnl' = IF jrnl.cur = NoFile
             THEN [jrnl EXCEPT !.cur = s.j, !.new = TRUE]
             ELSE [jrnl EXCEPT !.cur = s.j,
                     !.dur = IF pgr[c].st = "LOCKED" /\ ~jrnl.new /\ @ # NoFile
                             THEN [i \in DOMAIN @ |-> Junk] ELSE @]
  /\ Step(c, s.p)
  /\ UNCHANGED <<file, lock>>

Writable == {"LOCKED", "CACHEMOD", "DBMOD"}
Opened(c) == [p |-> pgr[c], j |-> jrnl.cur]

Write(c, n, d) ==
  /\ Idle(c, Writable)
  /\ n # 1 /\ n \in DOMAIN ViewImage(pgr[c]) /\ Cached(pgr[c], n)
  /\ d # pgr[c].cache[n].d
  /\ LET s == PagerWrite(Opened(c), n)
     IN Apply(c, [s EXCEPT !.p = SetData(@, n, d)])

\* allocateBtreePage at the end of the file, and newDatabase for page 1.
Grow(c, d) ==
  /\ "grow" \in Env
  /\ Idle(c, Writable)
  /\ LET n     == Len(ViewImage(pgr[c])) + 1
         one   == PagerWrite(Opened(c), 1)
         count == [one EXCEPT !.p = SetData(@, 1, Page1(one.p.cache[1].d.ver, n))]
         new   == [count EXCEPT !.p = AcquireNoContent(@, n)]
         two   == PagerWrite(new, n)
     IN /\ n \in 1..MaxPage
        /\ Apply(c, IF n = 1 THEN count ELSE [two EXCEPT !.p = SetData(@, n, d)])

OpenSavepoint(c) ==
  /\ "savepoint" \in Env
  /\ Idle(c, Writable)
  /\ LET p == pgr[c] IN
       /\ Len(p.sp) < MaxSavepoint
       /\ Step(c, [p EXCEPT !.sp = Append(@,
            [nOrig |-> p.size, iOffset |-> Max({p.off, 1}), iSubRec |-> Len(p.sub),
             in |-> {}, image |-> ViewImage(p)])])
  /\ UNCHANGED <<file, jrnl, lock>>

ReleaseSavepoint(c, i) ==
  /\ Idle(c, Writable)
  /\ i \in DOMAIN pgr[c].sp
  /\ Step(c, [pgr[c] EXCEPT !.sp = SubSeq(@, 1, i - 1),
                            !.sub = IF i = 1 THEN <<>> ELSE @])
  /\ UNCHANGED <<file, jrnl, lock>>

\* pager_playback_one_page for a savepoint, on the pages of played: the record
\* of page n is rec[n], the one at slot n of the journal if place[n] > 0 and
\* otherwise one of the sub-journal.
PlaybackPages(p, rec, place) ==
  LET Synced(n)  == IF place[n] > 0 THEN place[n] <= p.hdr
                    ELSE ~Cached(p, n) \/ ~p.cache[n].ns
      written    == {n \in DOMAIN rec : p.st = "DBMOD" /\ Synced(n)}
      fetched    == {n \in DOMAIN rec : place[n] = 0 /\ n \notin written}
      clean(n)   == place[n] > 0 /\ place[n] <= p.hdr
      Back(n)    == IF Cached(p, n)
                    THEN Entry(rec[n], p.cache[n].dirty /\ ~clean(n), p.cache[n].ns /\ ~clean(n))
                    ELSE Entry(rec[n], TRUE, FALSE)
  IN [f |-> [n \in 1..Max({Len(file.cur)} \union written) |->
               IF n \in written THEN rec[n]
               ELSE IF n <= Len(file.cur) THEN file.cur[n] ELSE Junk],
      p |-> [p EXCEPT !.cache = [n \in DOMAIN @ \union fetched |->
                                   IF n \in DOMAIN rec THEN Back(n) ELSE @[n]],
                      !.fsize = Max({@} \union written),
                      !.vers = IF 1 \in DOMAIN rec /\ Cached(p, 1) THEN rec[1] ELSE @]]

\* sqlite3PagerSavepoint(SAVEPOINT_ROLLBACK): the records of the main journal
\* since savepoint i was opened, then those of the sub-journal, a page once;
\* for i = 0 the whole transaction is undone and stays open.
RollbackTo(c, i) ==
  /\ "savepoint" \in Env
  /\ Idle(c, Writable)
  /\ i \in 0..Len(pgr[c].sp)
  /\ UNCHANGED <<jrnl, lock>>
  /\ LET p     == pgr[c]
         size  == IF i = 0 THEN p.orig ELSE p.sp[i].nOrig
         back  == [p EXCEPT !.sp = SubSeq(@, 1, i), !.ccd = FALSE, !.size = size]
         main(n) == {k \in (IF i = 0 THEN 2 ELSE p.sp[i].iOffset + 1)..p.off :
                       IsRec(jrnl.cur[k]) /\ jrnl.cur[k].pg = n}
         subs(n) == {k \in 1..Len(p.sub) : i > 0 /\ k > p.sp[i].iSubRec /\ p.sub[k].pg = n}
         pages == {n \in 1..size : main(n) \union subs(n) # {}}
         place == [n \in pages |-> IF main(n) # {} THEN Min(main(n)) ELSE 0]
         rec   == [n \in pages |-> IF place[n] > 0 THEN jrnl.cur[place[n]].d
                                   ELSE p.sub[Min(subs(n))].d]
         all   == PlaybackPages(back, rec, place)
     IN IF p.st = "LOCKED"
        THEN Step(c, [p EXCEPT !.sp = SubSeq(@, 1, i)]) /\ UNCHANGED file
        ELSE Step(c, all.p) /\ file' = [file EXCEPT !.cur = all.f]

-----------------------------------------------------------------------------
(* Getting pages into the file: a spill under memory pressure, or a commit.   *)

\* pagerStress on a dirty page that nobody references.
Stress(c, n) ==
  /\ "spill" \in Env
  /\ Idle(c, {"CACHEMOD", "DBMOD"})
  /\ n # 1 /\ n \in DOMAIN pgr[c].cache
  /\ LET p == pgr[c] IN
       /\ p.cache[n].dirty /\ n <= p.size
       /\ Step(c, [p EXCEPT !.tgt = n,
                   !.pc = IF p.cache[n].ns \/ p.st = "CACHEMOD" THEN "lock" ELSE "write"])
  /\ UNCHANGED <<file, jrnl, lock>>

\* sqlite3PagerCommitPhaseOne: nothing was changed, or the change counter on
\* page 1 is incremented and the journal is synced next.
CommitPhaseOne(c) ==
  /\ Idle(c, {"CACHEMOD", "DBMOD"})
  /\ pgr[c].size > 0
  /\ LET p   == pgr[c]
         s   == PagerWrite(Opened(c), 1)
         new == Page1(p.vers.ver + 1, s.p.cache[1].d.n)
         inc == [s EXCEPT !.p.cache[1].d = new, !.p.ccd = TRUE]
         res == IF p.ccd THEN Opened(c) ELSE inc
     IN /\ p.ccd \/ p.vers.ver < MaxVer
        /\ Apply(c, [res EXCEPT !.p.pc = "lock", !.p.tgt = 0, !.p.left = 1])

\* Mutant of ExclusiveLock: PENDING is taken for EXCLUSIVE.
ExclusiveLockPending(c) ==
  /\ At(c, "lock")
  /\ Lock(c, PENDING)
  /\ Step(c, Goto(pgr[c], "count"))
  /\ UNCHANGED <<file, jrnl>>

\* syncJournal needs EXCLUSIVE: PENDING is taken on the way and kept when
\* readers remain.  The busy handler tries again or gives up with SQLITE_BUSY.
ExclusiveLock(c) ==
  /\ At(c, "lock")
  /\ IF \A d \in Others(c) : lock[d] = NO_LOCK
     THEN /\ Lock(c, EXCLUSIVE)
          /\ Step(c, Goto(pgr[c], IF FullSync THEN "sync1" ELSE "count"))
     ELSE /\ Lock(c, PENDING)
          /\ \/ lock[c] # PENDING /\ UNCHANGED pgr
             \/ Step(c, Goto(pgr[c], "idle"))
  /\ UNCHANGED <<file, jrnl>>

\* Mutant of JournalSynced: the directory is synced and the content is not.
JournalUnsynced == [jrnl EXCEPT !.new = FALSE, !.dur = IF @ = NoFile THEN <<>> ELSE @]

JournalSynced == [cur |-> jrnl.cur, dur |-> jrnl.cur, new |-> FALSE]

SyncJournalFirst(c) ==
  /\ At(c, "sync1")
  /\ jrnl' = JournalSynced
  /\ Step(c, Goto(pgr[c], "count"))
  /\ UNCHANGED <<file, lock>>

\* The magic and the number of records go into the last header.
JournalCount(c) ==
  /\ At(c, "count")
  /\ LET p == pgr[c] IN
       jrnl' = [jrnl EXCEPT !.cur[p.hdr + 1] = Hdr(TRUE, p.nRec, p.orig)]
  /\ Step(c, Goto(pgr[c], "sync2"))
  /\ UNCHANGED <<file, lock>>

\* The sync that the database file may be written after; a spill goes on with
\* a new header, so that the records that follow are counted separately.
SyncJournal(c) ==
  /\ At(c, "sync2")
  /\ LET p     == pgr[c]
         clear == [p EXCEPT !.hdr = p.off, !.st = "DBMOD", !.pc = "write",
                     !.cache = [n \in DOMAIN @ |-> [@[n] EXCEPT !.ns = FALSE]]]
         s     == WriteJournalHdr([p |-> [clear EXCEPT !.nRec = 0], j |-> jrnl.cur])
     IN IF p.tgt = 0
        THEN jrnl' = JournalSynced /\ Step(c, clear)
        ELSE /\ Len(s.j) <= MaxSlot
             /\ jrnl' = [JournalSynced EXCEPT !.cur = s.j]
             /\ Step(c, s.p)
  /\ UNCHANGED <<file, lock>>

\* pager_write_pagelist: the one page of a spill, or every dirty page of the
\* image in ascending order.  The cache may recycle the page that was spilled.
WritePage(c) ==
  /\ At(c, "write")
  /\ LET p     == pgr[c]
         list  == {n \in DOMAIN p.cache : n >= p.left /\ n <= p.size /\ p.cache[n].dirty}
         n     == IF p.tgt # 0 THEN p.tgt ELSE Min(list)
         wrote == [p EXCEPT !.vers = IF n = 1 THEN p.cache[1].d ELSE @,
                            !.fsize = Max({@, n})]
     IN IF p.tgt = 0 /\ list = {}
        THEN Step(c, [p EXCEPT !.cache = CleanAll(@), !.pc = "dbsync"]) /\ UNCHANGED file
        ELSE /\ file' = [file EXCEPT !.cur = Put(@, n, p.cache[n].d)]
             /\ IF p.tgt = 0
                THEN Step(c, [wrote EXCEPT !.left = n + 1])
                ELSE \E kept \in BOOLEAN : Step(c, [wrote EXCEPT !.pc = "idle", !.tgt = 0,
                       !.cache = IF kept THEN [p.cache EXCEPT ![n].dirty = FALSE]
                                 ELSE Keep(p.cache, DOMAIN p.cache \ {n})])
  /\ UNCHANGED <<jrnl, lock>>

SyncDatabase(c) ==
  /\ At(c, "dbsync")
  /\ LET p == pgr[c]
         f == IF p.size > p.fsize THEN Resize(file.cur, p.size) ELSE file.cur
     IN file' = [cur |-> f, dur |-> f]
  /\ Step(c, [pgr[c] EXCEPT !.st = "FINISHED", !.pc = "commit"])
  /\ UNCHANGED <<jrnl, lock>>

\* pager_end_transaction up to the unlock.
EndTransaction(p) ==
  [p EXCEPT !.sp = <<>>, !.sub = <<>>, !.inj = {}, !.nRec = 0,
            !.cache = IF p.size = 0 /\ p.st # "OPEN" THEN [n \in {1} |-> Entry(Zero, FALSE, FALSE)]
                      ELSE CleanAll(Keep(@, 1..p.size))]

\* sqlite3PagerCommitPhaseTwo: deleting the journal is the commit.
CommitPhaseTwo(c) ==
  /\ At(c, "commit")
  /\ jrnl' = [jrnl EXCEPT !.cur = NoFile, !.new = FALSE]
  /\ Step(c, Goto(EndTransaction(pgr[c]), "trim"))
  /\ UNCHANGED <<file, lock>>

\* Mutant of Downgraded: changeCountDone outlives the transaction.
DowngradedCounted(p) == [Forget(p) EXCEPT !.st = "READER", !.pc = "idle"]

\* The end of pager_end_transaction: after a commit a file that is longer than
\* the image is truncated; then the lock goes back to SHARED.
Downgraded(p) == [Forget(p) EXCEPT !.st = "READER", !.pc = "idle", !.ccd = FALSE]

TrimAndUnlock(c) ==
  /\ At(c, "trim")
  /\ LET p == pgr[c] IN
       file' = IF p.fsize > p.size THEN [file EXCEPT !.cur = Resize(@, p.size)] ELSE file
  /\ Lock(c, SHARED)
  /\ Step(c, Downgraded(pgr[c]))
  /\ UNCHANGED jrnl

\* A transaction that changed nothing is committed or rolled back alike.
EndUnchanged(c) ==
  /\ Idle(c, {"LOCKED"})
  /\ Lock(c, SHARED)
  /\ Step(c, Downgraded(EndTransaction(pgr[c])))
  /\ UNCHANGED <<file, jrnl>>

-----------------------------------------------------------------------------
(* Playing the journal back: a rollback, or the recovery from a hot journal.  *)

Rollback(c) ==
  /\ Idle(c, {"CACHEMOD", "DBMOD"})
  /\ Step(c, [pgr[c] EXCEPT !.pc = "play", !.off = 0, !.left = 0])
  /\ UNCHANGED <<file, jrnl, lock>>

IsHot(p)     == p.st = "OPEN"
ToFile(p)    == p.st \in {"OPEN", "DBMOD", "FINISHED"}

\* readJournalHdr at p.off: the magic counts, except in the header this
\* connection is still filling, whose count is taken from the file size.
HdrValid(p) == LET s == jrnl.cur[p.off + 1] IN
                 IsHdr(s) /\ (s.magic \/ (~IsHot(p) /\ p.off = p.hdr))

\* One header or one record of pager_playback; at the end of the journal, at a
\* header that is not valid and at a torn record the playback is complete.
Play(c) ==
  /\ At(c, "play")
  /\ LET p    == pgr[c]
         k    == p.off + 1
         s    == jrnl.cur[k]
         last == s.nRec = 0 /\ ~IsHot(p) /\ p.off = p.hdr
         head == [p EXCEPT !.off = k,
                    !.left = IF last THEN Len(jrnl.cur) - k ELSE s.nRec,
                    !.size = IF k = 1 THEN s.orig ELSE @,
                    !.fsize = IF k = 1 /\ ToFile(p) THEN s.orig ELSE @,
                    !.cache = IF IsHot(p) THEN NoPages ELSE @]
         body == [p EXCEPT !.off = k, !.left = @ - 1]
         one  == [body EXCEPT
                    !.fsize = IF ToFile(p) /\ k <= p.hdr THEN Max({@, s.pg}) ELSE @,
                    !.cache = IF Cached(p, s.pg) THEN WithPage(@, s.pg, Entry(s.d, FALSE, FALSE)) ELSE @,
                    !.vers = IF s.pg = 1 /\ Cached(p, 1) THEN s.d ELSE @]
     IN IF k > Len(jrnl.cur) \/ (IF p.left = 0 THEN ~HdrValid(p) ELSE ~IsRec(s))
        THEN Step(c, [Goto(p, "resync") EXCEPT !.ccd = FALSE]) /\ UNCHANGED file
        ELSE IF p.left = 0
        THEN /\ Step(c, head)
             /\ file' = IF k = 1 /\ ToFile(p) THEN [file EXCEPT !.cur = Resize(@, s.orig)] ELSE file
        ELSE IF s.pg > p.size
        THEN Step(c, body) /\ UNCHANGED file
        ELSE /\ Step(c, one)
             /\ file' = IF ToFile(p) /\ k <= p.hdr THEN [file EXCEPT !.cur = Put(@, s.pg, s.d)] ELSE file
  /\ UNCHANGED <<jrnl, lock>>

PlaySync(c) ==
  /\ At(c, "resync")
  /\ file' = IF ToFile(pgr[c]) THEN [file EXCEPT !.dur = file.cur] ELSE file
  /\ Step(c, Goto(pgr[c], "finish"))
  /\ UNCHANGED <<jrnl, lock>>

\* The journal that was played back is deleted ...
PlayDelete(c) ==
  /\ At(c, "finish")
  /\ jrnl' = [jrnl EXCEPT !.cur = NoFile, !.new = FALSE]
  /\ Step(c, Goto(EndTransaction(pgr[c]), "unlock"))
  /\ UNCHANGED <<file, lock>>

\* ... and only then the lock is dropped to SHARED.
PlayUnlock(c) ==
  /\ At(c, "unlock")
  /\ Lock(c, SHARED)
  /\ Step(c, IF IsHot(pgr[c]) THEN Goto(Forget(pgr[c]), "validate") ELSE Downgraded(pgr[c]))
  /\ UNCHANGED <<file, jrnl>>

-----------------------------------------------------------------------------
(* Faults.                                                                    *)

Spilling(p) == p.tgt # 0 /\ p.pc \in {"sync1", "count", "sync2", "write"}
Committing(p) == ~Spilling(p) /\ p.pc \in {"sync1", "count", "sync2", "write", "dbsync"}

\* An I/O operation fails.  A failed spill, the deletion of the journal at the
\* commit and a failed rollback lead to ERROR; a failed first phase of a commit
\* to a rollback; a failed recovery gives up the lock.  The failed deletion
\* still drops the lock to SHARED.
IOError(c) ==
  /\ "ioerr" \in Env
  /\ LET p == pgr[c] IN
       \/ /\ Spilling(p)
          /\ Step(c, [Forget(p) EXCEPT !.st = "ERROR", !.pc = "idle"])
          /\ UNCHANGED lock
       \/ /\ Committing(p)
          /\ Step(c, [p EXCEPT !.pc = "play", !.off = 0, !.left = 0])
          /\ UNCHANGED lock
       \/ /\ p.pc = "commit" \/ (p.pc = "finish" /\ ~IsHot(p))
          /\ Step(c, [Forget(EndTransaction(p)) EXCEPT !.st = "ERROR", !.pc = "idle", !.ccd = FALSE])
          /\ Lock(c, SHARED)
       \/ /\ p.pc \in {"play", "resync"} /\ ~IsHot(p)
          /\ Step(c, [Forget(p) EXCEPT !.st = "ERROR", !.pc = "idle", !.ccd = FALSE])
          /\ UNCHANGED lock
       \/ /\ p.pc \in {"play", "resync", "finish"} /\ IsHot(p)
          /\ Step(c, PagerUnlock([p EXCEPT !.st = "ERROR"]))
          /\ Lock(c, NO_LOCK)
  /\ UNCHANGED <<file, jrnl>>

\* The process of the connection dies: the kernel releases its locks and keeps
\* what it has written.
Kill(c) ==
  /\ "kill" \in Env
  /\ pgr[c] # NewPager
  /\ Lock(c, NO_LOCK)
  /\ Step(c, NewPager)
  /\ UNCHANGED <<file, jrnl>>

\* What is on the disk after power was lost between two syncs: every slot as it
\* was at the sync, as it was written, or torn; and a length between the two.
Torn(a, b) ==
  LET Slot(s, i) == IF i \in DOMAIN s THEN s[i] ELSE Junk
      Differ(n)  == {i \in 1..n : Slot(a, i) # Slot(b, i)}
      lens       == Min({Len(a), Len(b)})..Max({Len(a), Len(b)})
  IN UNION {{[i \in 1..n |-> IF i \notin Differ(n) \/ g[i] = 0 THEN Slot(a, i)
                             ELSE IF g[i] = 1 THEN Slot(b, i) ELSE Junk] :
               g \in [Differ(n) -> 0..2]} : n \in lens}

\* A journal that was created or deleted since its directory was last synced
\* may be absent or present again.
JournalAfterLoss ==
  IF jrnl.cur = NoFile THEN {NoFile, jrnl.dur}
  ELSE IF jrnl.new THEN {NoFile, jrnl.dur} \union Torn(<<>>, jrnl.cur)
  ELSE Torn(jrnl.dur, jrnl.cur)

PowerLoss ==
  /\ "power" \in Env
  /\ \E f \in Torn(file.dur, file.cur), j \in JournalAfterLoss :
       /\ file' = [cur |-> f, dur |-> f]
       /\ jrnl' = [cur |-> j, dur |-> j, new |-> FALSE]
  /\ lock' = [c \in Conn |-> NO_LOCK]
  /\ pgr' = [c \in Conn |-> NewPager]

-----------------------------------------------------------------------------
InitFile(n) == [i \in 1..n |-> IF i = 1 THEN Page1(1, n) ELSE CHOOSE d \in Data : TRUE]

Init ==
  /\ \E n \in InitSizes : file = [cur |-> InitFile(n), dur |-> InitFile(n)]
  /\ jrnl = [cur |-> NoFile, dur |-> NoFile, new |-> FALSE]
  /\ lock = [c \in Conn |-> NO_LOCK]
  /\ pgr = [c \in Conn |-> NewPager]

Next ==
  \/ \E c \in Conn :
       \/ SharedLock(c) \/ HotExists(c) \/ HotReserved(c) \/ HotFirstByte(c)
       \/ HotEmpty(c) \/ HotExclusive(c) \/ Validate(c) \/ EndRead(c)
       \/ Begin(c) \/ OpenSavepoint(c) \/ CommitPhaseOne(c) \/ ExclusiveLock(c)
       \/ SyncJournalFirst(c) \/ JournalCount(c) \/ SyncJournal(c) \/ WritePage(c)
       \/ SyncDatabase(c) \/ CommitPhaseTwo(c) \/ TrimAndUnlock(c) \/ EndUnchanged(c)
       \/ Rollback(c) \/ Play(c) \/ PlaySync(c) \/ PlayDelete(c) \/ PlayUnlock(c)
       \/ IOError(c) \/ Kill(c)
       \/ \E n \in 1..MaxPage : Read(c, n) \/ Stress(c, n)
       \/ \E n \in 1..MaxPage, d \in Data : Write(c, n, d)
       \/ \E d \in Data : Grow(c, d)
       \/ \E i \in 0..MaxSavepoint : ReleaseSavepoint(c, i) \/ RollbackTo(c, i)
  \/ PowerLoss

Spec == Init /\ [][Next]_vars

-----------------------------------------------------------------------------
(* What recovery would make of the files: the reference the properties use.   *)

HotJournal(j) == j # NoFile /\ j # <<>> /\ IsHdr(j[1]) /\ j[1].magic

\* Slot i is where a reader of the journal expects it: a header with its magic
\* after the records of an earlier one, or a record that an earlier one counts.
WellPlaced(j, i) ==
  \/ i = 1 /\ HotJournal(j)
  \/ \E h \in 1..(i - 1) :
       /\ IsHdr(j[h])
       /\ IF IsHdr(j[i]) THEN j[i].magic /\ i = h + j[h].nRec + 1
                         ELSE IsRec(j[i]) /\ i <= h + j[h].nRec

\* The records that recovery copies back: no slot before them is misplaced.
Restored(j) == IF ~HotJournal(j) THEN {}
               ELSE {k \in DOMAIN j : IsRec(j[k]) /\ \A i \in 1..k : WellPlaced(j, i)}

RecoveredPage(f, j, restored, n) ==
  LET ks == {k \in restored : j[k].pg = n}
  IN IF ks # {} THEN j[CHOOSE k \in ks : TRUE].d
     ELSE IF n <= Len(f) /\ (HotJournal(j) => n <= j[1].orig) THEN f[n] ELSE Junk

\* The database that the file and the journal stand for: as many pages as page 1
\* says.  Nothing has to be recovered in a file that is empty.
Recovered(f, j) ==
  LET restored == Restored(j)
      first    == RecoveredPage(f, j, restored, 1)
  IN IF f = <<>> \/ (HotJournal(j) /\ j[1].orig = 0) THEN <<>>
     ELSE IF first = Junk THEN <<Junk>>
     ELSE [n \in 1..first.n |-> RecoveredPage(f, j, restored, n)]

Undoing(p)  == p.pc \in {"play", "resync", "finish", "unlock"}

\* The refinement mapping.  A connection has a view while its transaction is
\* neither being undone nor broken; it writes until the journal is deleted.
Store == INSTANCE AtomicStore WITH
  image  <- Recovered(file.cur, jrnl.cur),
  prior  <- Recovered(file.cur, IF jrnl.cur = NoFile \/ jrnl.new THEN jrnl.dur ELSE jrnl.cur),
  view   <- [c \in Conn |-> LET p == pgr[c] IN
               IF p.st \in {"OPEN", "ERROR"} \/ Undoing(p) THEN NoView ELSE ViewImage(p)],
  writer <- {c \in Conn : IsWriter(pgr[c]) /\ ~Undoing(pgr[c]) /\ pgr[c].pc # "trim"}

\* Whatever the processes do and wherever one of them is killed, an I/O operation
\* fails or the power is lost, the file and its journal together stand for one
\* committed image: it changes only when a journal is deleted at a commit, to
\* all of that transaction; every reader works on it and on nothing else until
\* its transaction ends; recovery, however often it is interrupted, leads back
\* to it; and a power loss can at most take back the last commit.
Atomic == Store!Spec

\* ROLLBACK TO gives back exactly the image at the savepoint, whatever was
\* journalled, spilled or recycled since, and for pages that were changed before
\* and after the savepoint alike (pagerPlaybackSavepoint).
SavepointRestored ==
  [][\A c \in Conn : \A i \in DOMAIN pgr[c].sp :
       RollbackTo(c, i) => ViewImage(pgr[c])' = pgr[c].sp[i].image]_vars

\* What assert_pager_state claims between two calls: each state of the pager
\* goes with a lock, a journal and sizes, though the lock is taken away and
\* given back by other connections' kills and by the error paths.
PagerState ==
  \A c \in Conn : At(c, "idle") =>
    LET p == pgr[c] IN
      /\ p.ccd => lock[c] >= RESERVED
      /\ p.st = "READER" => lock[c] >= SHARED
      /\ p.st = "LOCKED" => lock[c] >= RESERVED /\ p.size = p.orig /\ p.fsize = p.orig
      /\ p.st = "CACHEMOD" => lock[c] >= RESERVED /\ jrnl.cur # NoFile /\ p.fsize = p.orig
      /\ p.st = "DBMOD" => lock[c] = EXCLUSIVE /\ jrnl.cur # NoFile
      /\ p.st \notin {"FINISHED"}

\* The shape of the state: the bits of pInJournal are about original pages, the
\* header being filled lies before the end of the journal, savepoints nest.
TypeOK ==
  /\ lock \in [Conn -> NO_LOCK..EXCLUSIVE]
  /\ \A c \in Conn : LET p == pgr[c] IN
       /\ p.st \in States
       /\ DOMAIN p.cache \subseteq 1..MaxPage
       /\ p.inj \subseteq 1..p.orig \/ ~IsWriter(p)
       /\ p.hdr \in 0..MaxSlot /\ p.off \in 0..MaxSlot
       /\ \A i, k \in DOMAIN p.sp : i < k => /\ p.sp[i].iSubRec <= p.sp[k].iSubRec
                                            /\ p.sp[i].iOffset <= p.sp[k].iOffset
=============================================================================
