-------------------------- MODULE WalSnapshotProofs --------------------------
(* Proofs about Wal, continued: that every transaction sees one committed     *)
(* image with its own changes (Snapshot), and that what a pager keeps between *)
(* transactions is current (CacheCurrent), when one connection writes and     *)
(* checkpoints.                                                               *)
EXTENDS WalProofs

-----------------------------------------------------------------------------
(* What the frames s of a log, over a database file db, make of an image.     *)

\* f is the last of the frames s that holds page p: the one sqlite3WalFindFrame finds.
Newest(s, f, p) == f \in 1..Len(s) /\ s[f].pg = p /\ \A g \in (f+1)..Len(s) : s[g].pg # p

\* Page p is in none of the frames s.
Absent(s, p) == \A f \in 1..Len(s) : s[f].pg # p

\* Read through the frames s, the file shows the image.
Shows(s, db, img) == \A p \in 1..Len(img) :
   /\ \A f \in 1..Len(s) : Newest(s, f, p) => img[p] = s[f].ver
   /\ Absent(s, p) => img[p] = PageAt(db, p)

\* The frames that a header covers, and what it says of them.
Eff(h) == IF h.mx = 0 THEN <<>> ELSE h.sum
Sound(h) == h.mx > 0 => Len(h.sum) = h.mx /\ h.n = h.sum[h.mx].n /\ h.n > 0

\* The first m frames of the log, and of the wal-index, are those of s.
Matches(s, m, l) == \A f \in 1..m : Last(l.frames[f].sum) = s[f]
Indexed(s, m, pgno) == \A f \in 1..m : pgno[f] = s[f].pg

\* The pages of the image that a header stands for: before the first frame the file has them.
SizeOf(h, db) == IF h.n > 0 THEN h.n ELSE Len(db)

\* The file has the pages whose newest frames are among the first k.
Filled(s, k, db, img) ==
  \A p \in 1..Len(img), f \in 1..k : Newest(s, f, p) => PageAt(db, p) = s[f].ver

\* The image img0 grew to img by pages of the frames behind the k-th.
Grown(s, k, img, img0) == \A p \in (Len(img0)+1)..Len(img) : \E f \in (k+1)..Len(s) : s[f].pg = p

-----------------------------------------------------------------------------
(* The inductive invariant behind Snapshot and CacheCurrent.                  *)

\* The log and the wal-index have the frames that the header counts.
Held(h, s, l) == Sound(h) /\ Matches(h.sum, h.mx, l) /\ Indexed(h.sum, h.mx, s.pgno)

\* The shared header and the file show the committed image, and the file has what the
\* backfill count says that it has.
Common(s, l, db, img) ==
  /\ Held(s.h0, s, l)
  /\ Len(img) = SizeOf(s.h0, db)
  /\ Shows(Eff(s.h0), db, img)
  /\ Filled(Eff(s.h0), s.nBackfill, db, img)

\* In a read transaction that is not a write transaction.
Reads(x) == x.pc = "read" /\ WRITE \notin x.excl

\* A reader's header shows its image, and its read mark keeps the log from moving on: no
\* later header covers less, no checkpoint that heeds the mark copies more.
ReaderOK(x, s, l, db, img) ==
  Reads(x) =>
  /\ x.lock >= 0 /\ x.cache = x.image /\ x.w = NoWork
  /\ Len(x.image) = SizeOf(x.hdr, db)
  /\ x.hdr = s.h0 => x.image = img
  /\ x.lock = 0 => Shows(<<>>, db, x.image)
  /\ x.lock > 0 => /\ x.hdr.mx <= s.h0.mx /\ s.mark[x.lock] <= x.hdr.mx
                   /\ Held(x.hdr, s, l)
                   /\ Shows(Eff(x.hdr), db, x.image)

\* The frames a writer has written, those it has still to write after them, and those of
\* its savepoint.
Base(x) == IF x.lock = 0 \/ (x.hdr.mx = 0 /\ x.pc # "append") THEN <<>> ELSE x.hdr.sum
Tale(x) == Base(x) \o x.w.todo
SpBase(sp) == IF sp.mx = 0 THEN <<>> ELSE sp.sum

\* What the phase of a writer says of its lock, its header and its cache.
PhaseOK(x, s, db, img) ==
  /\ x.cache = img
  /\ x.pc = "read" => x.lock >= 0 /\ x.w.todo = <<>> /\ ~x.w.commit
  /\ x.pc \in Logging => x.lock > 0
  /\ x.pc \in Restarting => x.lock = 0
  /\ x.pc \in {"restart", "pick", "lockMark"} => x.hdr = s.h0
  /\ x.pc = "syncHdr" => x.hdr.mx = 0 /\ x.hdr.sum = <<>>
  /\ x.pc # "commitHdr" => x.hdr.n = s.h0.n
  /\ x.lock = 0 => Shows(<<>>, db, img)
  /\ x.pc = "read" /\ x.lock = 0 => x.hdr = s.h0 /\ x.image = img
  /\ x.lock > 0 => s.mark[x.lock] <= s.h0.mx

\* The log has the frames that a writer has written.
LoggedOK(x, s, l) ==
  /\ x.hdr.mx > 0 /\ x.pc # "append" => Len(x.hdr.sum) = x.hdr.mx
  /\ x.lock # 0 => Matches(Base(x), Len(Base(x)), l) /\ Indexed(x.hdr.sum, x.hdr.mx, s.pgno)

\* A writer's frames, written or not, show its image; the last one of a commit has its size.
TaleOK(x, s, db, img) ==
  /\ Shows(Tale(x), db, x.image)
  /\ Grown(Tale(x), IF x.lock = 0 THEN 0 ELSE s.h0.mx, x.image, img)
  /\ x.w.commit => Tale(x) # <<>> /\ Last(Tale(x)).n = Len(x.image) /\ Len(x.image) > 0
  /\ x.pc = "commitHdr" =>
       x.w.todo = <<>> /\ Sound(x.hdr) /\ x.hdr.n = Len(x.image) /\ x.hdr.mx > 0

\* A savepoint of the log that is still the current one shows the image to return to; an
\* older one can only return to the beginning of the transaction.
SavedOK(x, s, l, db, img) ==
  x.sp # NoSavepoint =>
  /\ x.lock = 0 \/ x.sp.nCkpt # x.nCkpt => x.sp.image = img
  /\ x.sp.nCkpt = x.nCkpt =>
       /\ x.sp.mx <= x.hdr.mx
       /\ x.sp.mx > 0 => Len(x.sp.sum) = x.sp.mx
       /\ Matches(x.sp.sum, x.sp.mx, l)
       /\ Shows(SpBase(x.sp), db, x.sp.image)
       /\ Grown(SpBase(x.sp), s.h0.mx, x.sp.image, img)

WriterOK(x, s, l, db, img) ==
  InTxn(x) => /\ PhaseOK(x, s, db, img) /\ LoggedOK(x, s, l)
              /\ TaleOK(x, s, db, img) /\ SavedOK(x, s, l, db, img)

\* A checkpoint has the newest frame of every page, and what it has not copied yet is in
\* front of it; it copies nothing that a reader does not know, and no page that was cut off.
Newests(s, iter) == \A f \in 1..MaxFrame : iter[f] > 0 => Newest(s, f, iter[f])

CkptOK(x, s, db, img) ==
  /\ x.pc \in {"ckptMark", "ckptLock0"} =>
       /\ Newests(Eff(s.h0), x.w.iter)
       /\ \A p \in 1..MaxPage, f \in 1..x.hdr.mx : Newest(Eff(s.h0), f, p) => x.w.iter[f] = p
  /\ x.pc = "ckptWrite" =>
       /\ READ(0) \in x.excl
       /\ s.nBackfill < x.w.safe
       /\ Newests(Eff(s.h0), x.w.iter)
       /\ \A f \in 1..MaxFrame : x.w.iter[f] > 0 => f <= x.w.safe /\ x.w.iter[f] <= Len(img)
       /\ \A p \in 1..Len(img), f \in 1..x.w.safe : Newest(Eff(s.h0), f, p) =>
            PageAt(db, p) = Eff(s.h0)[f].ver \/ x.w.iter[f] = p

\* What walTryBeginRead has found out still holds when it looks again, and a connection
\* whose header is the shared one keeps no pages but the committed ones.
OtherOK(x, s, img) ==
  /\ x.pc = "lockMark" => x.w.mxMark <= x.hdr.mx
  /\ x.pc = "lock0" /\ x.hdr = s.h0 => s.h0.mx <= s.nBackfill
  /\ ~InTxn(x) /\ ~(x.w.ckpt /\ x.w.changed) /\ x.hdr = s.h0 => x.cache \in {NoImage, img}

\* x checkpoints and y reads: x copies no frame that y does not know.
PairOK(x, y) ==
  Reads(y) /\ y.lock > 0 =>
  /\ x.pc = "ckptMark" /\ y.lock < x.w.mxI => x.w.safe <= y.hdr.mx
  /\ x.pc \in {"ckptLock0", "ckptWrite"} => x.w.safe <= y.hdr.mx

SnapOK(x, s, l, db, img) ==
  s.h0.init =>
  /\ ReaderOK(x, s, l, db, img) /\ WriterOK(x, s, l, db, img) /\ CkptOK(x, s, db, img)
  /\ OtherOK(x, s, img)

\* A recovery has read the whole log.
RecoverOK(x, s, l) ==
  x.pc = "recoverHdr" =>
    x.hdr = RecoveredHdr(l) /\ \A f \in 1..x.hdr.mx : s.pgno[f] = Last(l.frames[f].sum).pg

SnapInv ==
  /\ shm.h0.init => Common(shm, log.cur, file.cur, Committed)
  /\ \A c \in Conn : /\ SnapOK(con[c], shm, log.cur, file.cur, Committed)
                     /\ RecoverOK(con[c], shm, log.cur)
  /\ \A c, d \in Conn : c # d => PairOK(con[c], con[d])

-----------------------------------------------------------------------------
(* Every step keeps the invariant.                                            *)

LEMMA NewestOrAbsent ==
  ASSUME NEW s \in Seq(Entries), NEW p
  PROVE  Absent(s, p) \/ \E f \in 1..Len(s) : Newest(s, f, p)
<1> DEFINE F == {f \in 1..Len(s) : s[f].pg = p}
<1>1. CASE F = {}
  BY <1>1 DEF Absent
<1>2. CASE F # {}
  <2>1. Len(s) \in Nat
    OBVIOUS
  <2>2. F \subseteq 1..Len(s)
    OBVIOUS
  <2>3. \A f \in 1..Len(s) : s[f].pg = p => f \in F
    OBVIOUS
  <2>4. \A f \in F : s[f].pg = p
    OBVIOUS
  <2> HIDE DEF F
  <2>5. PICK m \in F : \A f \in F : m >= f
    <3>1. F \subseteq 0..Len(s)
      BY <2>1, <2>2
    <3> QED BY <1>2, <2>1, <3>1, MaxOf
  <2>6. ASSUME NEW g \in (m + 1)..Len(s) PROVE s[g].pg # p
    <3>1. m \in Nat /\ m >= 1
      BY <2>1, <2>2, <2>5
    <3>2. g \in 1..Len(s) /\ ~(m >= g)
      BY <2>1, <3>1
    <3> QED BY <2>3, <2>5, <3>2
  <2> QED BY <2>2, <2>4, <2>5, <2>6 DEF Newest
<1> QED BY <1>1, <1>2

LEMMA NewestOne ==
  ASSUME NEW s \in Seq(Entries), NEW p, NEW f, NEW g, Newest(s, f, p), Newest(s, g, p)
  PROVE  f = g
BY DEF Newest

\* Only the first copy of the header, the backfill count, the pages of the frames
\* and the mark of its own lock matter to a connection.
LEMMA SnapSame ==
  ASSUME NEW x, NEW s, NEW t, NEW l, NEW db, NEW img,
         t.h0 = s.h0, t.nBackfill = s.nBackfill, t.pgno = s.pgno,
         x.lock > 0 => t.mark[x.lock] = s.mark[x.lock], SnapOK(x, s, l, db, img)
  PROVE  SnapOK(x, t, l, db, img)
<1> SUFFICES ASSUME s.h0.init PROVE SnapOK(x, t, l, db, img)
  BY DEF SnapOK
<1>1. ReaderOK(x, t, l, db, img)
  BY DEF SnapOK, ReaderOK, Held
<1>2. WriterOK(x, t, l, db, img)
  BY DEF SnapOK, WriterOK, PhaseOK, LoggedOK, TaleOK, SavedOK
<1>3. CkptOK(x, t, db, img) /\ OtherOK(x, t, img)
  BY DEF SnapOK, CkptOK, OtherOK
<1> QED BY <1>1, <1>2, <1>3 DEF SnapOK

LEMMA CommonSame ==
  ASSUME NEW s, NEW t, NEW l, NEW db, NEW img,
         t.h0 = s.h0, t.nBackfill = s.nBackfill, t.pgno = s.pgno, Common(s, l, db, img)
  PROVE  Common(t, l, db, img)
BY DEF Common, Held

\* A step of connection c, in general.
LEMMA SnapStep ==
  ASSUME SnapInv, NEW c \in Conn, Only(c),
         shm'.h0.init => Common(shm', log'.cur, file'.cur, Committed'),
         SnapOK(con'[c], shm', log'.cur, file'.cur, Committed'),
         RecoverOK(con'[c], shm', log'.cur),
         \A d \in Conn \ {c} : /\ SnapOK(con[d], shm', log'.cur, file'.cur, Committed')
                               /\ RecoverOK(con[d], shm', log'.cur)
                               /\ PairOK(con'[c], con[d]) /\ PairOK(con[d], con'[c])
  PROVE  SnapInv'
<1>1. \A d \in Conn \ {c} : con'[d] = con[d]
  BY DEF Only
<1>2. ASSUME NEW d \in Conn
      PROVE  /\ SnapOK(con'[d], shm', log'.cur, file'.cur, Committed')
             /\ RecoverOK(con'[d], shm', log'.cur)
  BY <1>1
<1>3. ASSUME NEW d \in Conn, NEW e \in Conn, d # e PROVE PairOK(con'[d], con'[e])
  <2>1. CASE d = c
    BY <1>1, <1>3, <2>1
  <2>2. CASE e = c
    BY <1>1, <1>3, <2>2
  <2>3. CASE d # c /\ e # c
    BY <1>1, <1>3, <2>3 DEF SnapInv
  <2> QED BY <2>1, <2>2, <2>3
<1> QED BY <1>2, <1>3 DEF SnapInv

\* A step that leaves the data alone; the mark of a lock in use stays.
LEMMA SnapLocal ==
  ASSUME SnapInv, NEW c \in Conn, Only(c),
         shm'.h0 = shm.h0, shm'.nBackfill = shm.nBackfill, shm'.pgno = shm.pgno,
         log'.cur = log.cur, file'.cur = file.cur, past'.images = past.images,
         \A d \in Conn : con'[d].lock > 0 => shm'.mark[con'[d].lock] = shm.mark[con'[d].lock],
         SnapOK(con'[c], shm, log.cur, file.cur, Committed),
         RecoverOK(con'[c], shm, log.cur),
         \A d \in Conn \ {c} : PairOK(con'[c], con[d]) /\ PairOK(con[d], con'[c])
  PROVE  SnapInv'
<1>1. Committed' = Committed
  BY DEF Committed
<1>2. shm'.h0.init => Common(shm', log'.cur, file'.cur, Committed')
  BY <1>1, CommonSame DEF SnapInv
<1>3. SnapOK(con'[c], shm', log'.cur, file'.cur, Committed')
  BY <1>1, SnapSame
<1>4. RecoverOK(con'[c], shm', log'.cur)
  BY DEF RecoverOK
<1>5. ASSUME NEW d \in Conn \ {c}
      PROVE  /\ SnapOK(con[d], shm', log'.cur, file'.cur, Committed')
             /\ RecoverOK(con[d], shm', log'.cur)
  <2>1. con'[d] = con[d] /\ SnapOK(con[d], shm, log.cur, file.cur, Committed)
        /\ RecoverOK(con[d], shm, log.cur)
    BY DEF Only, SnapInv
  <2>2. con[d].lock > 0 => shm'.mark[con[d].lock] = shm.mark[con[d].lock]
    BY <2>1
  <2> QED BY <1>1, <2>1, <2>2, SnapSame DEF RecoverOK
<1> QED BY <1>2, <1>3, <1>4, <1>5, SnapStep

LEMMA SnapAt ==
  ASSUME SnapInv, shm.h0.init, NEW c \in Conn
  PROVE  /\ Common(shm, log.cur, file.cur, Committed)
         /\ ReaderOK(con[c], shm, log.cur, file.cur, Committed)
         /\ WriterOK(con[c], shm, log.cur, file.cur, Committed)
         /\ CkptOK(con[c], shm, file.cur, Committed)
         /\ OtherOK(con[c], shm, Committed)
BY DEF SnapInv, SnapOK

\* A connection that neither reads nor writes nor copies.
Aside == {"closed", "idle", "choose", "lock0", "pick", "lockMark", "retryHdr", "recover",
          "recoverHdr", "recoverInfo", "ckptHdr", "ckptTest", "ckptEnd"}

LEMMA SnapAside ==
  ASSUME NEW x, NEW s, NEW l, NEW db, NEW img, x.pc \in Aside, ~InTxn(x),
         s.h0.init => OtherOK(x, s, img)
  PROVE  SnapOK(x, s, l, db, img)
BY DEF Aside, SnapOK, ReaderOK, Reads, WriterOK, CkptOK

LEMMA PairAside ==
  ASSUME NEW x, NEW y, x.pc \in Aside
  PROVE  PairOK(x, y) /\ PairOK(y, x)
BY DEF Aside, PairOK, Reads

\* A step aside.
LEMMA SnapStepAside ==
  ASSUME SnapInv, NEW c \in Conn, Only(c), UNCHANGED <<shm, log, file, past>>,
         con'[c].pc \in Aside \ {"recoverHdr"}, ~InTxn(con'[c]),
         shm.h0.init => OtherOK(con'[c], shm, Committed)
  PROVE  SnapInv'
<1>1. SnapOK(con'[c], shm, log.cur, file.cur, Committed)
  BY SnapAside
<1>2. RecoverOK(con'[c], shm, log.cur)
  BY DEF RecoverOK
<1> QED BY <1>1, <1>2, PairAside, SnapLocal

LEMMA MovedAside ==
  ASSUME SnapInv, NEW c \in Conn, Only(c), UNCHANGED <<shm, log, file, past>>,
         ~InTxn(con[c]), ~InTxn(con'[c]),
         con'[c].pc \in Aside \ {"recoverHdr", "lock0", "lockMark"},
         con'[c].hdr = con[c].hdr, con'[c].cache = con[c].cache,
         con[c].w.ckpt /\ con[c].w.changed => con'[c].w.ckpt /\ con'[c].w.changed
  PROVE  SnapInv'
<1>1. ASSUME shm.h0.init PROVE OtherOK(con'[c], shm, Committed)
  <2>1. OtherOK(con[c], shm, Committed)
    BY <1>1, SnapAt
  <2> QED BY <2>1 DEF OtherOK
<1> QED BY <1>1, SnapStepAside

LEMMA LoadedAside ==
  ASSUME SnapInv, NEW c \in Conn, Only(c), UNCHANGED <<shm, log, file, past>>,
         ~InTxn(con[c]), ~InTxn(con'[c]), con'[c].pc \in {"choose", "ckptTest"},
         Loaded(con'[c], con[c], shm.h0)
  PROVE  SnapInv'
<1>1. ASSUME shm.h0.init PROVE OtherOK(con'[c], shm, Committed)
  <2>1. OtherOK(con[c], shm, Committed)
    BY <1>1, SnapAt
  <2>2. con'[c].w.ckpt = con[c].w.ckpt
    BY DEF Loaded, WorkFields
  <2>3. CASE con[c].w.ckpt
    BY <2>1, <2>2, <2>3 DEF OtherOK, Loaded
  <2>4. CASE ~con[c].w.ckpt
    BY <2>1, <2>2, <2>4 DEF OtherOK, Loaded
  <2> QED BY <2>3, <2>4
<1> QED BY <1>1, SnapStepAside DEF Aside

\* The connections outside a transaction.
LEMMA NotInTxn ==
  ASSUME NEW x,
         \/ x.pc \in {"closed", "idle", "choose", "lock0", "retryHdr", "recover", "recoverHdr",
                      "recoverInfo", "ckptHdr", "ckptTest", "ckptMark", "ckptLock0",
                      "ckptWrite", "ckptEnd"}
         \/ (WRITE \notin x.excl /\ x.pc \notin Restarting \cup Logging)
  PROVE  ~InTxn(x)
BY DEF InTxn, Writes, Restarting, Logging

LEMMA BeginReadSnap ==
  ASSUME TypeInv, SnapInv, NEW c \in Conn, BeginRead(c) PROVE SnapInv'
<1> DEFINE x == con[c]
           y == con'[c]
<1>1. /\ Only(c) /\ UNCHANGED <<shm, log, file, past>> /\ x.pc = "idle"
      /\ \/ y.pc = "choose" /\ Loaded(y, x, shm.h0)
         \/ y.pc = "retryHdr" /\ Moved(y, x)
  BY BeginReadEffect
<1> HIDE DEF x, y
<1>2. ~InTxn(x) /\ ~InTxn(y)
  BY <1>1, NotInTxn
<1>3. CASE y.pc = "choose" /\ Loaded(y, x, shm.h0)
  BY <1>1, <1>2, <1>3, LoadedAside DEF x, y
<1>4. CASE y.pc = "retryHdr" /\ Moved(y, x)
  BY <1>1, <1>2, <1>4, MovedAside DEF x, y, Moved, Aside
<1> QED BY <1>1, <1>3, <1>4

LEMMA RetryHdrSnap ==
  ASSUME TypeInv, SnapInv, NEW c \in Conn, RetryHdr(c) PROVE SnapInv'
<1> DEFINE x == con[c]
           y == con'[c]
<1>1. /\ Only(c) /\ UNCHANGED <<shm, log, file, past>> /\ x.pc = "retryHdr"
      /\ \/ y.pc \in {"ckptTest", "choose"} /\ Loaded(y, x, shm.h0)
         \/ y.pc \in {"recover", "ckptEnd"} /\ Moved(y, x)
         \/ /\ ~x.w.ckpt /\ y.pc = "idle" /\ y.hdr = x.hdr /\ y.cache = x.cache
  <2>1. /\ Only(c) /\ UNCHANGED <<shm, log, file, past>> /\ x.pc = "retryHdr"
        /\ \/ y.pc = (IF x.w.ckpt THEN "ckptTest" ELSE "choose") /\ Loaded(y, x, shm.h0)
           \/ y.pc = "recover" /\ Moved(y, x)
           \/ y.pc = "ckptEnd" /\ Moved(y, x)
           \/ /\ ~x.w.ckpt /\ y.pc = "idle" /\ y.hdr = x.hdr /\ y.cache = x.cache
    BY RetryHdrEffect
  <2> HIDE DEF x, y
  <2> QED BY <2>1
<1> HIDE DEF x, y
<1>2. ~InTxn(x) /\ ~InTxn(y)
  BY <1>1, NotInTxn
<1>3. CASE y.pc \in {"ckptTest", "choose"} /\ Loaded(y, x, shm.h0)
  BY <1>1, <1>2, <1>3, LoadedAside DEF x, y
<1>4. CASE y.pc \in {"recover", "ckptEnd"} /\ Moved(y, x)
  BY <1>1, <1>2, <1>4, MovedAside DEF x, y, Moved, Aside
<1>5. CASE ~x.w.ckpt /\ y.pc = "idle" /\ y.hdr = x.hdr /\ y.cache = x.cache
  BY <1>1, <1>2, <1>5, MovedAside DEF x, y, Aside
<1> QED BY <1>1, <1>3, <1>4, <1>5

LEMMA CkptSnap ==
  ASSUME TypeInv, SnapInv, NEW c \in Conn,
         CkptHdr(c) \/ \E block \in BOOLEAN : CkptBegin(c, block)
  PROVE  SnapInv'
<1> DEFINE x == con[c]
           y == con'[c]
<1>1. CASE CkptHdr(c)
  <2>1. /\ Only(c) /\ UNCHANGED <<shm, log, file, past>> /\ x.pc = "ckptHdr"
        /\ \/ y.pc = "ckptTest" /\ Loaded(y, x, shm.h0)
           \/ y.pc = "retryHdr" /\ Moved(y, x)
           \/ y.pc = "ckptEnd" /\ Moved(y, x)
    BY <1>1, CkptHdrEffect
  <2> HIDE DEF x, y
  <2>2. ~InTxn(x) /\ ~InTxn(y)
    BY <2>1, NotInTxn
  <2>3. CASE y.pc = "ckptTest" /\ Loaded(y, x, shm.h0)
    BY <2>1, <2>2, <2>3, LoadedAside DEF x, y
  <2>4. CASE y.pc \in {"retryHdr", "ckptEnd"} /\ Moved(y, x)
    BY <2>1, <2>2, <2>4, MovedAside DEF x, y, Moved, Aside
  <2> QED BY <2>1, <2>3, <2>4
<1>2. ASSUME NEW block \in BOOLEAN, CkptBegin(c, block) PROVE SnapInv'
  <2>1. /\ Only(c) /\ UNCHANGED <<shm, log, file, past>> /\ x.pc = "idle" /\ ~x.w.ckpt
        /\ y.pc = "ckptHdr" /\ y.hdr = x.hdr /\ y.cache = x.cache
    BY <1>2, CkptBeginEffect
  <2> HIDE DEF x, y
  <2>2. ~InTxn(x) /\ ~InTxn(y)
    BY <2>1, NotInTxn
  <2> QED BY <2>1, <2>2, MovedAside DEF x, y, Aside
<1> QED BY <1>1, <1>2

LEMMA NewConnAside ==
  ASSUME NEW s, NEW img
  PROVE  /\ s.h0.init => OtherOK(Connected, s, img) /\ OtherOK(Closed, s, img)
         /\ Connected.pc = "idle" /\ Closed.pc = "closed"
<1>1. \A x \in {Connected, Closed} : x.pc \in {"idle", "closed"} /\ x.cache = NoImage
  BY DEF Connected, Closed
<1> QED BY <1>1 DEF OtherOK, Connected, Closed

LEMMA OpenCloseSnap ==
  ASSUME TypeInv, SnapInv, NEW c \in Conn, Open(c) \/ Close(c) PROVE SnapInv'
<1> DEFINE x == con[c]
           y == con'[c]
<1>1. CASE Open(c)
  <2>1. Only(c) /\ UNCHANGED <<shm, log, file, past>> /\ y = Connected
    BY <1>1, OpenEffect
  <2> HIDE DEF x, y
  <2>2. y.pc = "idle" /\ ~InTxn(y) /\ (shm.h0.init => OtherOK(y, shm, Committed))
    BY <2>1, NewConnAside, NotInTxn
  <2> QED BY <2>1, <2>2, SnapStepAside DEF y, Aside
<1>2. CASE Close(c)
  <2>1. /\ Only(c) /\ UNCHANGED <<shm, log, file, past>> /\ x.pc = "idle" /\ ~x.w.ckpt
        /\ \/ y = Closed
           \/ y.pc = "ckptHdr" /\ y.hdr = x.hdr /\ y.cache = x.cache
    BY <1>2, CloseEffect
  <2> HIDE DEF x, y
  <2>2. CASE y = Closed
    <3>1. y.pc = "closed" /\ ~InTxn(y) /\ (shm.h0.init => OtherOK(y, shm, Committed))
      BY <2>2, NewConnAside, NotInTxn
    <3> QED BY <2>1, <3>1, SnapStepAside DEF y, Aside
  <2>3. CASE y.pc = "ckptHdr" /\ y.hdr = x.hdr /\ y.cache = x.cache
    <3>1. ~InTxn(x) /\ ~InTxn(y)
      BY <2>1, <2>3, NotInTxn
    <3> QED BY <2>1, <2>3, <3>1, MovedAside DEF x, y, Aside
  <2> QED BY <2>1, <2>2, <2>3
<1> QED BY <1>1, <1>2

LEMMA EndReadSnap ==
  ASSUME TypeInv, SnapInv, NEW c \in Conn, EndRead(c) PROVE SnapInv'
<1> DEFINE x == con[c]
           y == con'[c]
<1>1. /\ Only(c) /\ UNCHANGED <<shm, log, file, past>> /\ x.pc = "read" /\ x.excl = {}
      /\ y.pc = "idle" /\ y.hdr = x.hdr /\ y.cache = x.cache
  BY EndReadEffect
<1>2. ~x.w.ckpt
  BY <1>1, AtConn DEF Phase, Checkpointing, Recovering
<1> HIDE DEF x, y
<1>3. ~InTxn(x) /\ ~InTxn(y)
  BY <1>1, NotInTxn DEF Restarting, Logging
<1> QED BY <1>1, <1>2, <1>3, MovedAside DEF x, y, Aside

LEMMA ChooseSnap ==
  ASSUME TypeInv, SnapInv, NEW c \in Conn, Choose(c) PROVE SnapInv'
<1> DEFINE x == con[c]
           y == con'[c]
<1>1. /\ Only(c) /\ UNCHANGED <<shm, log, file, past>> /\ x.pc = "choose" /\ x.excl = {}
      /\ y.pc = (IF shm.nBackfill = x.hdr.mx THEN "lock0" ELSE "pick")
      /\ y.excl = x.excl /\ Moved(y, x)
  BY ChooseEffect
<1>2. x.hdr.mx \in Nat /\ shm.nBackfill \in Nat
  BY AtConn, Constants DEF ConnType, HdrOK, TypeInv, ShmInv
<1> HIDE DEF x, y
<1>3. ~InTxn(x) /\ ~InTxn(y)
  BY <1>1, NotInTxn DEF Restarting, Logging
<1>4. ASSUME shm.h0.init PROVE OtherOK(y, shm, Committed)
  <2>1. OtherOK(x, shm, Committed)
    BY <1>4, SnapAt DEF x
  <2>2. y.hdr = x.hdr /\ y.cache = x.cache /\ y.w = x.w
    BY <1>1 DEF Moved
  <2>3. y.pc = "lock0" /\ y.hdr = shm.h0 => shm.h0.mx <= shm.nBackfill
    BY <1>1, <1>2, <2>2
  <2>4. y.pc # "lockMark"
    BY <1>1
  <2> QED BY <1>3, <2>1, <2>2, <2>3, <2>4 DEF OtherOK
<1>5. y.pc \in {"lock0", "pick"}
  BY <1>1
<1> QED BY <1>1, <1>3, <1>4, <1>5, SnapStepAside DEF y, Aside

\* The frames of a header, as far as they count.
LEMMA EffOK ==
  ASSUME NEW h, HdrOK(h), Sound(h)
  PROVE  /\ Eff(h) \in Seq(Entries) /\ Len(Eff(h)) = h.mx /\ h.mx \in Nat
         /\ h.mx > 0 => Eff(h) = h.sum
<1>1. h.mx \in Nat /\ h.sum \in Seq(Entries)
  BY DEF HdrOK, Sums
<1>2. CASE h.mx = 0
  BY <1>1, <1>2 DEF Eff
<1>3. CASE h.mx > 0
  BY <1>1, <1>3 DEF Eff, Sound
<1> QED BY <1>1, <1>2, <1>3

LEMMA HeadEff ==
  ASSUME TypeInv, NEW l, NEW db, NEW img, Common(shm, l, db, img)
  PROVE  /\ Eff(shm.h0) \in Seq(Entries) /\ Len(Eff(shm.h0)) = shm.h0.mx /\ shm.h0.mx \in Nat
         /\ shm.h0.mx > 0 => Eff(shm.h0) = shm.h0.sum
<1>1. HdrOK(shm.h0) /\ Sound(shm.h0)
  BY DEF TypeInv, ShmInv, Common, Held
<1> QED BY <1>1, EffOK

\* When all frames are in the database file it shows the database alone.
LEMMA Backfilled ==
  ASSUME NEW s \in Seq(Entries), NEW k \in Int, Len(s) <= k, NEW db, NEW img,
         Shows(s, db, img), Filled(s, k, db, img)
  PROVE  Shows(<<>>, db, img)
<1> SUFFICES ASSUME NEW p \in 1..Len(img) PROVE img[p] = PageAt(db, p)
  BY DEF Shows, Newest
<1>1. CASE Absent(s, p)
  BY <1>1 DEF Shows
<1>2. ASSUME NEW f \in 1..Len(s), Newest(s, f, p) PROVE img[p] = PageAt(db, p)
  <2>1. Len(s) \in Nat /\ f \in 1..k
    OBVIOUS
  <2> QED BY <1>2, <2>1 DEF Shows, Filled
<1> QED BY <1>1, <1>2, NewestOrAbsent

\* A reader of the latest snapshot.
LEMMA NewReader ==
  ASSUME TypeInv, NEW l, NEW db, NEW img, Common(shm, l, db, img), NEW y,
         y.hdr = shm.h0, y.image = img, y.cache = img, y.w = NoWork, y.lock \in Int,
         y.lock >= 0, y.lock = 0 => shm.h0.mx <= shm.nBackfill,
         y.lock > 0 => shm.mark[y.lock] <= shm.h0.mx
  PROVE  ReaderOK(y, shm, l, db, img)
<1>1. /\ Eff(shm.h0) \in Seq(Entries) /\ Len(Eff(shm.h0)) = shm.h0.mx /\ shm.h0.mx \in Nat
      /\ shm.nBackfill \in Int
  BY HeadEff, Constants DEF TypeInv, ShmInv
<1>2. y.lock = 0 => Shows(<<>>, db, img)
  BY <1>1, Backfilled DEF Common
<1>3. shm.h0.mx <= shm.h0.mx
  BY <1>1
<1> QED BY <1>2, <1>3 DEF ReaderOK, Common

LEMMA SnapReader ==
  ASSUME TypeInv, NEW y, NEW img, y.pc = "read", WRITE \notin y.excl,
         ReaderOK(y, shm, log.cur, file.cur, img), y.cache = img
  PROVE  SnapOK(y, shm, log.cur, file.cur, img) /\ RecoverOK(y, shm, log.cur) /\ ~InTxn(y)
<1>1. ~InTxn(y)
  BY NotInTxn DEF Restarting, Logging
<1> QED BY <1>1 DEF SnapOK, WriterOK, CkptOK, OtherOK, RecoverOK

LEMMA RetriedSnap ==
  ASSUME TypeInv, SnapInv, NEW c \in Conn, Only(c), UNCHANGED <<shm, log, file, past>>,
         con[c].pc \in {"lock0", "pick", "lockMark"}, WRITE \notin con[c].excl,
         Retried(con'[c], con[c])
  PROVE  SnapInv'
<1> DEFINE x == con[c]
           y == con'[c]
<1>1. ~x.w.ckpt
  BY AtConn DEF Phase, Checkpointing, Recovering
<1>2. y.pc = "idle" /\ y.hdr = x.hdr /\ y.cache = x.cache
  BY DEF Retried
<1> HIDE DEF y
<1>3. ~InTxn(x) /\ ~InTxn(y)
  BY <1>2, NotInTxn DEF Restarting, Logging
<1> QED BY <1>1, <1>2, <1>3, MovedAside DEF y, Aside

\* The cache of a connection that has the latest header.
LEMMA CacheOfLatest ==
  ASSUME NEW x, NEW s, NEW img, OtherOK(x, s, img), ~InTxn(x), ~x.w.ckpt, x.hdr = s.h0
  PROVE  (IF x.cache = NoImage THEN img ELSE x.cache) = img
BY DEF OtherOK

LEMMA Lock0Snap ==
  ASSUME TypeInv, HeadInv, SnapInv, NEW c \in Conn, Lock0(c) PROVE SnapInv'
<1> DEFINE x == con[c]
           y == con'[c]
<1>1. /\ Only(c) /\ UNCHANGED <<shm, log, file, past>> /\ x.pc = "lock0" /\ x.excl = {}
      /\ \/ y.pc = "pick" /\ y.excl = x.excl /\ Moved(y, x)
         \/ Retried(y, x)
         \/ SharedFree(c, READ(0)) /\ shm.h0 = x.hdr /\ NowReads(y, x, 0)
  BY Lock0Effect
<1>2. ~x.w.ckpt /\ shm.h0.init
  BY <1>1, AtConn, AtHead DEF Phase, Checkpointing, Recovering
<1> HIDE DEF x, y
<1>3. ~InTxn(x)
  BY <1>1, NotInTxn
<1>4. CASE y.pc = "pick" /\ y.excl = x.excl /\ Moved(y, x)
  <2>1. ~InTxn(y)
    BY <1>1, <1>4, NotInTxn DEF Restarting, Logging
  <2> QED BY <1>1, <1>2, <1>3, <1>4, <2>1, MovedAside DEF x, y, Aside, Moved
<1>5. CASE Retried(y, x)
  BY <1>1, <1>5, RetriedSnap DEF x, y
<1>6. CASE SharedFree(c, READ(0)) /\ shm.h0 = x.hdr /\ NowReads(y, x, 0)
  <2>1. OtherOK(x, shm, Committed) /\ Common(shm, log.cur, file.cur, Committed)
    BY <1>2, SnapAt DEF x
  <2>2. shm.h0.mx <= shm.nBackfill
    BY <1>1, <1>6, <2>1 DEF OtherOK
  <2>3. /\ y.pc = "read" /\ y.lock = 0 /\ y.image = Committed /\ y.w = NoWork /\ y.hdr = shm.h0
        /\ y.cache = Committed /\ y.excl = {}
    BY <1>1, <1>2, <1>3, <1>6, <2>1, CacheOfLatest DEF NowReads
  <2>4. ReaderOK(y, shm, log.cur, file.cur, Committed)
    BY <2>1, <2>2, <2>3, NewReader
  <2>5. SnapOK(y, shm, log.cur, file.cur, Committed) /\ RecoverOK(y, shm, log.cur)
    BY <2>3, <2>4, SnapReader
  <2>6. \A d \in Conn \ {c} : PairOK(y, con[d]) /\ PairOK(con[d], y)
    BY <2>3 DEF PairOK
  <2> QED BY <1>1, <2>5, <2>6, SnapLocal DEF y
<1> QED BY <1>1, <1>4, <1>5, <1>6

LEMMA CkptEndSnap ==
  ASSUME TypeInv, SnapInv, NEW c \in Conn, CkptEnd(c), ~AllClosed' PROVE SnapInv'
<1> DEFINE x == con[c]
           y == con'[c]
<1>1. /\ Only(c) /\ UNCHANGED <<shm, log, file, past>> /\ x.pc = "ckptEnd" /\ y.pc = "idle"
      /\ y.cache = x.cache /\ y.hdr = IF x.w.changed THEN NoHdr ELSE x.hdr
  BY CkptEndEffect
<1> HIDE DEF x, y
<1>2. ~InTxn(x) /\ ~InTxn(y)
  BY <1>1, NotInTxn
<1>3. ASSUME shm.h0.init PROVE OtherOK(y, shm, Committed)
  <2>1. OtherOK(x, shm, Committed) /\ NoHdr # shm.h0
    BY <1>3, SnapAt DEF x, NoHdr, Hdr
  <2> QED BY <1>1, <1>2, <2>1 DEF OtherOK
<1> QED BY <1>1, <1>2, <1>3, SnapStepAside DEF y, Aside

-----------------------------------------------------------------------------
(* The steps of a reader or a writer to a read lock.                          *)

\* The mark that a connection may change is not one in use.
LEMMA MarkFree ==
  ASSUME TypeInv, NEW c \in Conn, NEW j \in Marks, ExclFree(c, {READ(j)}),
         NEW d \in Conn \ {c}, con[d].lock > 0
  PROVE  con[d].lock \in Marks /\ con[d].lock # j
<1>1. con[d].lock \in Marks
  BY AtConn, Constants DEF ConnType
<1>2. READ(con[d].lock) # READ(j)
  BY <1>1, Constants DEF ExclFree
<1> QED BY <1>1, <1>2

LEMMA WriterAt ==
  ASSUME SnapInv, shm.h0.init, NEW c \in Conn, InTxn(con[c])
  PROVE  /\ PhaseOK(con[c], shm, file.cur, Committed) /\ LoggedOK(con[c], shm, log.cur)
         /\ TaleOK(con[c], shm, file.cur, Committed)
         /\ SavedOK(con[c], shm, log.cur, file.cur, Committed)
         /\ Common(shm, log.cur, file.cur, Committed)
BY SnapAt DEF WriterOK

LEMMA SnapWriter ==
  ASSUME NEW y, NEW s, NEW l, NEW db, NEW img, InTxn(y), y.pc # "lockMark",
         PhaseOK(y, s, db, img), LoggedOK(y, s, l), TaleOK(y, s, db, img),
         SavedOK(y, s, l, db, img)
  PROVE  SnapOK(y, s, l, db, img) /\ RecoverOK(y, s, l)
<1>1. y.pc \notin {"recoverHdr", "ckptMark", "ckptLock0", "ckptWrite", "lock0"} /\ ~Reads(y)
  BY DEF InTxn, Writes, Reads, Restarting, Logging
<1> QED BY <1>1 DEF SnapOK, ReaderOK, WriterOK, CkptOK, OtherOK, RecoverOK

LEMMA PairWriter ==
  ASSUME NEW y, InTxn(y), NEW z
  PROVE  PairOK(y, z) /\ PairOK(z, y)
BY DEF PairOK, Reads, InTxn, Writes, Restarting, Logging

LEMMA TaleSame ==
  ASSUME NEW x, NEW y, NEW s, NEW db, NEW img, TaleOK(x, s, db, img),
         Base(y) = Base(x), y.w.todo = x.w.todo, y.w.commit <=> x.w.commit, y.image = x.image,
         (y.lock = 0) <=> (x.lock = 0), y.pc # "commitHdr"
  PROVE  TaleOK(y, s, db, img)
BY DEF TaleOK, Tale

LEMMA SavedSame ==
  ASSUME NEW x, NEW y, NEW s, NEW l, NEW db, NEW img, SavedOK(x, s, l, db, img),
         y.sp = x.sp, y.nCkpt = x.nCkpt, y.hdr.mx = x.hdr.mx, y.lock = 0 => x.lock = 0
  PROVE  SavedOK(y, s, l, db, img)
BY DEF SavedOK

LEMMA PickSnap ==
  ASSUME TypeInv, HeadInv, SnapInv, NEW c \in Conn, Pick(c) PROVE SnapInv'
<1> DEFINE x == con[c]
           y == con'[c]
<1>1. /\ Only(c) /\ UNCHANGED <<log, file, past>> /\ x.pc = "pick"
      /\ shm'.h0 = shm.h0 /\ shm'.nBackfill = shm.nBackfill /\ shm'.pgno = shm.pgno
      /\ \/ shm'.mark = shm.mark
         \/ \E j \in Marks : /\ ExclFree(c, {READ(j)})
                             /\ shm'.mark = [shm.mark EXCEPT ![j] = x.hdr.mx]
      /\ \/ Retried(y, x)
         \/ /\ y.pc = "lockMark" /\ y.w.mxMark <= x.hdr.mx
            /\ \A f \in WorkFields \ {"mxI", "mxMark"} : y.w[f] = x.w[f]
            /\ y.hdr = x.hdr /\ y.lock = x.lock /\ y.excl = x.excl /\ y.nCkpt = x.nCkpt
            /\ y.cache = x.cache /\ y.image = x.image /\ y.sp = x.sp
  BY PickEffect
<1>2. shm.h0.init /\ x.lock = 0 - 1 /\ ~x.w.ckpt
  BY <1>1, AtHead, AtConn DEF Phase, Logging, Restarting, Checkpointing, Recovering
<1> HIDE DEF x, y
<1>3. /\ y.hdr = x.hdr /\ y.lock = 0 - 1 /\ y.excl = x.excl /\ y.nCkpt = x.nCkpt
      /\ y.cache = x.cache /\ y.image = x.image /\ y.sp = x.sp
  BY <1>1, <1>2 DEF Retried
<1>4. ASSUME NEW d \in Conn, con'[d].lock > 0
      PROVE  shm'.mark[con'[d].lock] = shm.mark[con'[d].lock]
  <2>1. d # c
    BY <1>3, <1>4 DEF y
  <2>2. con'[d] = con[d]
    BY <1>1, <2>1 DEF Only
  <2>3. CASE shm'.mark = shm.mark
    BY <2>3
  <2>4. ASSUME NEW j \in Marks, ExclFree(c, {READ(j)}),
               shm'.mark = [shm.mark EXCEPT ![j] = x.hdr.mx]
        PROVE  shm'.mark[con'[d].lock] = shm.mark[con'[d].lock]
    <3>1. con'[d].lock \in Marks /\ con'[d].lock # j
      BY <1>4, <2>1, <2>2, <2>4, MarkFree
    <3> QED BY <2>4, <3>1 DEF TypeInv, ShmInv
  <2> QED BY <1>1, <2>3, <2>4
<1>5. SnapOK(y, shm, log.cur, file.cur, Committed) /\ RecoverOK(y, shm, log.cur)
  <2>1. OtherOK(x, shm, Committed)
    BY <1>2, SnapAt DEF x
  <2>2. CASE WRITE \in x.excl
    <3>1. InTxn(x) /\ y.pc \in {"pick", "lockMark"}
      BY <1>1, <2>2 DEF InTxn, Writes, Retried
    <3>2. InTxn(y)
      BY <1>3, <2>2, <3>1 DEF InTxn, Writes
    <3>3. /\ PhaseOK(x, shm, file.cur, Committed) /\ LoggedOK(x, shm, log.cur)
          /\ TaleOK(x, shm, file.cur, Committed)
          /\ SavedOK(x, shm, log.cur, file.cur, Committed)
      BY <1>2, <3>1, WriterAt DEF x
    <3>4. y.w.todo = x.w.todo /\ (y.w.commit <=> x.w.commit)
      BY <1>1, <2>2 DEF Retried, WorkFields
    <3>5. Base(y) = Base(x)
      BY <1>1, <1>2, <1>3, <3>1 DEF Base
    <3>6. PhaseOK(y, shm, file.cur, Committed)
      BY <1>1, <1>3, <3>1, <3>3 DEF PhaseOK, Logging, Restarting
    <3>7. LoggedOK(y, shm, log.cur)
      BY <1>1, <1>2, <1>3, <3>1, <3>3, <3>5 DEF LoggedOK
    <3>8. TaleOK(y, shm, file.cur, Committed)
      BY <1>2, <1>3, <3>1, <3>3, <3>4, <3>5, TaleSame
    <3>9. SavedOK(y, shm, log.cur, file.cur, Committed)
      BY <1>2, <1>3, <3>3, SavedSame
    <3>10. y.pc = "lockMark" => y.w.mxMark <= y.hdr.mx
      BY <1>1, <1>3, <2>2 DEF Retried
    <3> QED BY <3>1, <3>2, <3>6, <3>7, <3>8, <3>9, <3>10
            DEF SnapOK, ReaderOK, WriterOK, CkptOK, OtherOK, RecoverOK, Reads
  <2>3. CASE WRITE \notin x.excl
    <3>1. y.pc \in {"idle", "lockMark"} /\ (y.pc = "lockMark" => y.w.mxMark <= y.hdr.mx)
      BY <1>1, <1>3, <2>3 DEF Retried
    <3>2. ~InTxn(x) /\ ~InTxn(y)
      BY <1>1, <1>3, <2>3, <3>1, NotInTxn DEF Restarting, Logging
    <3>3. OtherOK(y, shm, Committed)
      BY <1>2, <1>3, <2>1, <3>1, <3>2 DEF OtherOK
    <3> QED BY <3>1, <3>2, <3>3, SnapAside DEF RecoverOK, Aside
  <2> QED BY <2>2, <2>3
<1>6. y.pc \in Aside
  BY <1>1 DEF Aside, Retried
<1> QED BY <1>1, <1>4, <1>5, <1>6, PairAside, SnapLocal DEF y

LEMMA LockMarkSnap ==
  ASSUME TypeInv, BackInv, HeadInv, SnapInv, NEW c \in Conn, LockMark(c) PROVE SnapInv'
<1> DEFINE x == con[c]
           y == con'[c]
           i == x.w.mxI
<1>1. /\ Only(c) /\ UNCHANGED <<shm, log, file, past>> /\ x.pc = "lockMark" /\ i \in Marks
      /\ \/ Retried(y, x)
         \/ /\ shm.mark[i] = x.w.mxMark /\ shm.h0 = x.hdr
            /\ \/ WRITE \notin x.excl /\ NowReads(y, x, i)
               \/ /\ WRITE \in x.excl /\ y.pc = "frames" /\ y.lock = i
                  /\ \A f \in WorkFields \ {"mxI", "mxMark"} : y.w[f] = x.w[f]
                  /\ y.hdr = x.hdr /\ y.excl = x.excl /\ y.nCkpt = x.nCkpt
                  /\ y.cache = x.cache /\ y.image = x.image /\ y.sp = x.sp
  BY LockMarkEffect
<1>2. shm.h0.init /\ x.lock = 0 - 1 /\ ~x.w.ckpt
  BY <1>1, AtHead, AtConn DEF Phase, Logging, Restarting, Checkpointing, Recovering
<1>3. i \in Int /\ i > 0
  BY <1>1, Constants
<1> HIDE DEF x, y, i
<1>4. OtherOK(x, shm, Committed) /\ Common(shm, log.cur, file.cur, Committed)
  BY <1>2, SnapAt DEF x
<1>5. ASSUME WRITE \in x.excl
      PROVE  /\ InTxn(x) /\ PhaseOK(x, shm, file.cur, Committed) /\ LoggedOK(x, shm, log.cur)
             /\ TaleOK(x, shm, file.cur, Committed)
             /\ SavedOK(x, shm, log.cur, file.cur, Committed)
  <2>1. InTxn(x)
    BY <1>1, <1>5 DEF InTxn, Writes
  <2> QED BY <1>2, <2>1, WriterAt DEF x
<1>6. CASE Retried(y, x) /\ WRITE \notin x.excl
  BY <1>1, <1>6, RetriedSnap DEF x, y
<1>7. CASE Retried(y, x) /\ WRITE \in x.excl
  <2>1. /\ y.pc = "pick" /\ y.w = x.w /\ y.hdr = x.hdr /\ y.lock = x.lock /\ y.excl = x.excl
        /\ y.nCkpt = x.nCkpt /\ y.cache = x.cache /\ y.image = x.image /\ y.sp = x.sp
    BY <1>7 DEF Retried
  <2>2. InTxn(y) /\ Base(y) = Base(x)
    BY <1>1, <1>7, <2>1 DEF InTxn, Writes, Base
  <2>3. PhaseOK(y, shm, file.cur, Committed)
    BY <1>1, <1>2, <1>5, <1>7, <2>1 DEF PhaseOK, Logging, Restarting
  <2>4. LoggedOK(y, shm, log.cur)
    BY <1>1, <1>5, <1>7, <2>1, <2>2 DEF LoggedOK
  <2>5. TaleOK(y, shm, file.cur, Committed)
    BY <1>5, <1>7, <2>1, <2>2, TaleSame
  <2>6. SavedOK(y, shm, log.cur, file.cur, Committed)
    BY <1>5, <1>7, <2>1, SavedSame
  <2>7. SnapOK(y, shm, log.cur, file.cur, Committed) /\ RecoverOK(y, shm, log.cur)
    BY <2>1, <2>2, <2>3, <2>4, <2>5, <2>6, SnapWriter
  <2> QED BY <1>1, <2>2, <2>7, PairWriter, SnapLocal DEF y
<1>8. CASE /\ shm.mark[i] = x.w.mxMark /\ shm.h0 = x.hdr
           /\ WRITE \notin x.excl /\ NowReads(y, x, i)
  <2>1. ~InTxn(x)
    BY <1>1, <1>8, NotInTxn DEF Restarting, Logging
  <2>2. /\ y.pc = "read" /\ y.lock = i /\ y.image = Committed /\ y.w = NoWork /\ y.hdr = shm.h0
        /\ y.cache = Committed /\ y.excl = x.excl
    BY <1>2, <1>4, <1>8, <2>1, CacheOfLatest DEF NowReads
  <2>3. shm.mark[y.lock] <= shm.h0.mx
    BY <1>1, <1>4, <1>8, <2>2 DEF OtherOK
  <2>4. ReaderOK(y, shm, log.cur, file.cur, Committed)
    BY <1>3, <1>4, <2>2, <2>3, NewReader
  <2>5. SnapOK(y, shm, log.cur, file.cur, Committed) /\ RecoverOK(y, shm, log.cur)
    BY <1>8, <2>2, <2>4, SnapReader
  <2>6. ASSUME NEW d \in Conn \ {c} PROVE PairOK(y, con[d]) /\ PairOK(con[d], y)
    <3>1. con[d].pc \in {"ckptMark", "ckptLock0", "ckptWrite"} => con[d].w.safe <= shm.h0.mx
      BY DEF BackInv, BackOK, Copying
    <3> QED BY <2>2, <3>1 DEF PairOK
  <2> QED BY <1>1, <2>5, <2>6, SnapLocal DEF y
<1>9. CASE /\ shm.mark[i] = x.w.mxMark /\ shm.h0 = x.hdr
           /\ WRITE \in x.excl /\ y.pc = "frames" /\ y.lock = i
           /\ \A f \in WorkFields \ {"mxI", "mxMark"} : y.w[f] = x.w[f]
           /\ y.hdr = x.hdr /\ y.excl = x.excl /\ y.nCkpt = x.nCkpt
           /\ y.cache = x.cache /\ y.image = x.image /\ y.sp = x.sp
  <2>1. y.w.todo = x.w.todo /\ (y.w.commit <=> x.w.commit) /\ y.lock # 0 /\ x.lock # 0
        /\ y.pc # "commitHdr" /\ y.pc # "lockMark"
    BY <1>2, <1>3, <1>9 DEF WorkFields
  <2>2. InTxn(y) /\ Base(y) = Base(x)
    BY <1>1, <1>9, <2>1 DEF InTxn, Writes, Base, Logging
  <2>3. PhaseOK(y, shm, file.cur, Committed)
    <3>1. shm.mark[y.lock] <= shm.h0.mx
      BY <1>1, <1>4, <1>9 DEF OtherOK
    <3> QED BY <1>1, <1>3, <1>5, <1>9, <2>1, <3>1 DEF PhaseOK, Logging, Restarting
  <2>4. LoggedOK(y, shm, log.cur)
    BY <1>1, <1>2, <1>5, <1>9, <2>1, <2>2 DEF LoggedOK
  <2>5. TaleOK(y, shm, file.cur, Committed)
    BY <1>5, <1>9, <2>1, <2>2, TaleSame
  <2>6. SavedOK(y, shm, log.cur, file.cur, Committed)
    BY <1>5, <1>9, <2>1, SavedSame
  <2>7. SnapOK(y, shm, log.cur, file.cur, Committed) /\ RecoverOK(y, shm, log.cur)
    BY <2>1, <2>2, <2>3, <2>4, <2>5, <2>6, SnapWriter
  <2> QED BY <1>1, <2>2, <2>7, PairWriter, SnapLocal DEF y
<1> QED BY <1>1, <1>6, <1>7, <1>8, <1>9

LEMMA BeginWriteSnap ==
  ASSUME TypeInv, BackInv, HeadInv, SnapInv, NEW c \in Conn, BeginWrite(c) PROVE SnapInv'
<1> DEFINE x == con[c]
           y == con'[c]
<1>1. /\ Only(c) /\ UNCHANGED <<shm, log, file, past>> /\ x.pc = "read" /\ x.excl = {}
      /\ shm.h0 = x.hdr /\ y.pc = "read" /\ y.excl = {WRITE} /\ Moved(y, x)
  BY BeginWriteEffect
<1>2. shm.h0.init
  BY <1>1, AtHead
<1>3. x.sp = NoSavepoint
  BY <1>1 DEF BackInv, BackOK, Writes, Restarting, Logging
<1> HIDE DEF x, y
<1>4. Common(shm, log.cur, file.cur, Committed) /\ ReaderOK(x, shm, log.cur, file.cur, Committed)
  BY <1>2, SnapAt DEF x
<1>5. /\ Eff(shm.h0) \in Seq(Entries) /\ Len(Eff(shm.h0)) = shm.h0.mx /\ shm.h0.mx \in Nat
      /\ shm.h0.mx > 0 => Eff(shm.h0) = shm.h0.sum
  BY <1>4, HeadEff
<1>6. /\ x.lock >= 0 /\ x.cache = x.image /\ x.w = NoWork /\ x.image = Committed
      /\ x.lock = 0 => Shows(<<>>, file.cur, Committed)
      /\ x.lock > 0 => shm.mark[x.lock] <= shm.h0.mx
  BY <1>1, <1>4 DEF ReaderOK, Reads
<1>7. /\ y.hdr = shm.h0 /\ y.lock = x.lock /\ y.image = Committed /\ y.cache = Committed
      /\ y.w = NoWork /\ y.sp = NoSavepoint
  BY <1>1, <1>3, <1>6 DEF Moved
<1>8. y.w.todo = <<>> /\ ~y.w.commit /\ InTxn(y)
  BY <1>1, <1>7 DEF NoWork, InTxn, Writes
<1>9. Base(y) = (IF y.lock = 0 THEN <<>> ELSE Eff(shm.h0)) /\ Base(y) \in Seq(Entries)
  BY <1>1, <1>5, <1>7 DEF Base, Eff
<1>10. Tale(y) = Base(y)
  BY <1>8, <1>9 DEF Tale
<1>11. PhaseOK(y, shm, file.cur, Committed)
  BY <1>1, <1>6, <1>7, <1>8 DEF PhaseOK, Logging, Restarting
<1>12. LoggedOK(y, shm, log.cur)
  <2>1. shm.h0.mx > 0 => Len(shm.h0.sum) = shm.h0.mx
    BY <1>4 DEF Common, Held, Sound
  <2>2. Matches(Eff(shm.h0), Len(Eff(shm.h0)), log.cur)
    BY <1>4, <1>5 DEF Common, Held, Matches
  <2>3. Indexed(shm.h0.sum, shm.h0.mx, shm.pgno)
    BY <1>4 DEF Common, Held
  <2> QED BY <1>7, <1>9, <2>1, <2>2, <2>3 DEF LoggedOK
<1>13. TaleOK(y, shm, file.cur, Committed)
  <2>1. Shows(Tale(y), file.cur, Committed)
    BY <1>4, <1>6, <1>7, <1>9, <1>10 DEF Common
  <2>2. \A k : Grown(Tale(y), k, Committed, Committed)
    BY DEF Grown
  <2> QED BY <1>1, <1>7, <1>8, <2>1, <2>2 DEF TaleOK
<1>14. SavedOK(y, shm, log.cur, file.cur, Committed)
  BY <1>7 DEF SavedOK
<1>15. SnapOK(y, shm, log.cur, file.cur, Committed) /\ RecoverOK(y, shm, log.cur)
  BY <1>1, <1>8, <1>11, <1>12, <1>13, <1>14, SnapWriter
<1> QED BY <1>1, <1>8, <1>15, PairWriter, SnapLocal DEF y

-----------------------------------------------------------------------------
(* Frames behind frames.                                                      *)

LEMMA ConcatAt ==
  ASSUME NEW s \in Seq(Entries), NEW t \in Seq(Entries)
  PROVE  /\ s \o t \in Seq(Entries) /\ Len(s \o t) = Len(s) + Len(t)
         /\ \A f \in 1..Len(s) : (s \o t)[f] = s[f]
         /\ \A f \in 1..Len(t) : (s \o t)[Len(s) + f] = t[f]
OBVIOUS

LEMMA AbsentConcat ==
  ASSUME NEW s \in Seq(Entries), NEW t \in Seq(Entries), NEW p, Absent(s \o t, p)
  PROVE  Absent(s, p) /\ Absent(t, p)
<1> DEFINE u == s \o t
<1>1. /\ Len(u) = Len(s) + Len(t) /\ Len(s) \in Nat /\ Len(t) \in Nat
      /\ \A f \in 1..Len(s) : u[f] = s[f]
      /\ \A f \in 1..Len(t) : u[Len(s) + f] = t[f]
  BY ConcatAt
<1>2. \A f \in 1..Len(u) : u[f].pg # p
  BY DEF Absent
<1> HIDE DEF u
<1>3. \A f \in 1..Len(s) : f \in 1..Len(u)
  BY <1>1
<1>4. \A f \in 1..Len(t) : Len(s) + f \in 1..Len(u)
  BY <1>1
<1> QED BY <1>1, <1>2, <1>3, <1>4 DEF Absent

LEMMA NewestConcat ==
  ASSUME NEW s \in Seq(Entries), NEW t \in Seq(Entries), NEW p, NEW f, Newest(s \o t, f, p)
  PROVE  \/ f \in 1..Len(s) /\ Newest(s, f, p) /\ Absent(t, p) /\ (s \o t)[f] = s[f]
         \/ /\ f - Len(s) \in 1..Len(t) /\ Newest(t, f - Len(s), p)
            /\ (s \o t)[f] = t[f - Len(s)]
<1> DEFINE u == s \o t
<1>1. /\ Len(u) = Len(s) + Len(t) /\ Len(s) \in Nat /\ Len(t) \in Nat
      /\ \A g \in 1..Len(s) : u[g] = s[g]
      /\ \A g \in 1..Len(t) : u[Len(s) + g] = t[g]
  BY ConcatAt
<1>2. f \in 1..Len(u) /\ u[f].pg = p /\ \A g \in (f + 1)..Len(u) : u[g].pg # p
  BY DEF Newest
<1> HIDE DEF u
<1>3. CASE f <= Len(s)
  <2>1. f \in 1..Len(s) /\ u[f] = s[f]
    BY <1>1, <1>2, <1>3
  <2>2. ASSUME NEW g \in (f + 1)..Len(s) PROVE s[g].pg # p
    <3>1. g \in (f + 1)..Len(u) /\ g \in 1..Len(s)
      BY <1>1, <1>2
    <3> QED BY <1>1, <1>2, <3>1
  <2>3. ASSUME NEW g \in 1..Len(t) PROVE t[g].pg # p
    <3>1. Len(s) + g \in (f + 1)..Len(u)
      BY <1>1, <1>2, <1>3
    <3> QED BY <1>1, <1>2, <3>1
  <2> QED BY <1>2, <2>1, <2>2, <2>3 DEF Newest, Absent, u
<1>4. CASE f > Len(s)
  <2> DEFINE k == f - Len(s)
  <2>1. k \in 1..Len(t) /\ f = Len(s) + k
    BY <1>1, <1>2, <1>4
  <2>2. u[f] = t[k]
    BY <1>1, <2>1
  <2>3. ASSUME NEW g \in (k + 1)..Len(t) PROVE t[g].pg # p
    <3>1. Len(s) + g \in (f + 1)..Len(u) /\ g \in 1..Len(t)
      BY <1>1, <1>2, <1>4
    <3> QED BY <1>1, <1>2, <3>1
  <2> QED BY <1>2, <2>1, <2>2, <2>3 DEF Newest, u
<1> QED BY <1>1, <1>2, <1>3, <1>4

\* Frames t that show the image new behind an image img in the database file show
\* it as well behind frames s that show img too.
LEMMA ShowsBehind ==
  ASSUME NEW s \in Seq(Entries), NEW t \in Seq(Entries), NEW db, NEW img \in Images,
         NEW new \in Images, Shows(s, db, img), Shows(<<>>, db, img),
         Shows(t, db, new), Grown(t, 0, new, img)
  PROVE  Shows(s \o t, db, new) /\ Grown(s \o t, Len(s), new, img)
<1>1. Len(img) \in Nat /\ Len(new) \in Nat /\ Len(s) \in Nat /\ Len(t) \in Nat
  BY DEF Images
<1>2. ASSUME NEW p \in 1..Len(new), Absent(t, p)
      PROVE  p \in 1..Len(img) /\ new[p] = img[p] /\ img[p] = PageAt(db, p)
  <2>1. p \in 1..Len(img)
    <3>1. SUFFICES ASSUME p \notin 1..Len(img) PROVE FALSE
      OBVIOUS
    <3>2. p \in (Len(img) + 1)..Len(new)
      BY <1>1, <3>1
    <3> QED BY <1>1, <1>2, <3>2 DEF Grown, Absent
  <2>2. img[p] = PageAt(db, p)
    BY <2>1 DEF Shows, Absent
  <2>3. new[p] = PageAt(db, p)
    BY <1>2 DEF Shows
  <2> QED BY <2>1, <2>2, <2>3
<1>3. ASSUME NEW p \in 1..Len(new), NEW f \in 1..Len(s \o t), Newest(s \o t, f, p)
      PROVE  new[p] = (s \o t)[f].ver
  <2>1. CASE f \in 1..Len(s) /\ Newest(s, f, p) /\ Absent(t, p) /\ (s \o t)[f] = s[f]
    <3>1. p \in 1..Len(img) /\ new[p] = img[p]
      BY <1>2, <2>1
    <3> QED BY <2>1, <3>1 DEF Shows
  <2>2. CASE /\ f - Len(s) \in 1..Len(t) /\ Newest(t, f - Len(s), p)
             /\ (s \o t)[f] = t[f - Len(s)]
    BY <2>2 DEF Shows
  <2> QED BY <1>3, <2>1, <2>2, NewestConcat
<1>4. ASSUME NEW p \in 1..Len(new), Absent(s \o t, p) PROVE new[p] = PageAt(db, p)
  <2>1. Absent(t, p)
    BY <1>4, AbsentConcat
  <2> QED BY <1>2, <2>1
<1>5. ASSUME NEW p \in (Len(img) + 1)..Len(new)
      PROVE  \E f \in (Len(s) + 1)..Len(s \o t) : (s \o t)[f].pg = p
  <2>1. PICK f \in 1..Len(t) : t[f].pg = p
    BY DEF Grown
  <2>2. Len(s) + f \in (Len(s) + 1)..Len(s \o t) /\ (s \o t)[Len(s) + f] = t[f]
    BY <1>1, ConcatAt
  <2> QED BY <2>1, <2>2
<1> QED BY <1>3, <1>4, <1>5 DEF Shows, Grown

LEMMA LastConcat ==
  ASSUME NEW s \in Seq(Entries), NEW t \in Seq(Entries), t # <<>>
  PROVE  s \o t # <<>> /\ Last(s \o t) = Last(t)
<1>1. Len(t) \in Nat /\ Len(t) > 0 /\ Len(s) \in Nat /\ Len(s \o t) = Len(s) + Len(t)
  OBVIOUS
<1>2. (s \o t)[Len(s) + Len(t)] = t[Len(t)]
  BY <1>1, ConcatAt
<1> QED BY <1>1, <1>2 DEF Last

\* The types of what a writer has.
LEMMA WriterTypes ==
  ASSUME TypeInv, DataInv, NEW c \in Conn
  PROVE  /\ con[c].w.todo \in Seq(Entries) /\ con[c].hdr.sum \in Seq(Entries)
         /\ con[c].image \in Images /\ con[c].sp.image \in Images /\ con[c].cache \in Images
         /\ con[c].hdr.mx \in Nat /\ con[c].hdr.mx <= Len(con[c].hdr.sum)
         /\ con[c].lock \in Int /\ Committed \in Images /\ con[c].sp.sum \in Seq(Entries)
BY AtConn, CommittedImage DEF ConnType, WorkOK, HdrOK, SpOK, Sums, DataInv, ConnData

\* The frames of the latest header, as Matches and Indexed say them.
LEMMA LatestLogged ==
  ASSUME TypeInv, Common(shm, log.cur, file.cur, Committed)
  PROVE  /\ shm.h0.mx > 0 => Len(shm.h0.sum) = shm.h0.mx
         /\ Matches(Eff(shm.h0), Len(Eff(shm.h0)), log.cur)
         /\ Indexed(shm.h0.sum, shm.h0.mx, shm.pgno)
<1>1. /\ Len(Eff(shm.h0)) = shm.h0.mx /\ shm.h0.mx \in Nat
      /\ shm.h0.mx > 0 => Eff(shm.h0) = shm.h0.sum
  BY HeadEff
<1> QED BY <1>1 DEF Common, Held, Sound, Matches

LEMMA NoBase ==
  ASSUME NEW x, Base(x) = <<>>, x.w.todo \in Seq(Entries)
  PROVE  Tale(x) = x.w.todo
<1>1. \A t \in Seq(Entries) : <<>> \o t = t
  OBVIOUS
<1> QED BY <1>1 DEF Tale

LEMMA NoTodo ==
  ASSUME NEW x, Base(x) \in Seq(Entries), x.w.todo = <<>>
  PROVE  Tale(x) = Base(x)
<1>1. \A t \in Seq(Entries) : t \o <<>> = t
  OBVIOUS
<1> QED BY <1>1 DEF Tale

LEMMA RestartLogSnap ==
  ASSUME TypeInv, BackInv, DataInv, HeadInv, SnapInv, NEW c \in Conn, RestartLog(c)
  PROVE  SnapInv'
<1> DEFINE x == con[c]
           y == con'[c]
<1>1. /\ Only(c) /\ UNCHANGED <<log, file>> /\ x.pc = "restart" /\ x.excl = {WRITE}
      /\ \/ /\ past' = [past EXCEPT !.salt = @ + 1]
            /\ y.pc = "restartHdr" /\ y.hdr.mx = 0 /\ y.hdr.n = x.hdr.n
            /\ y.nCkpt = x.nCkpt + 1 /\ y.lock = x.lock /\ y.cache = x.cache
            /\ y.image = x.image /\ y.sp = x.sp /\ y.w = x.w
            /\ shm'.h0 = shm.h0 /\ shm'.nBackfill = shm.nBackfill
            /\ shm'.mark = shm.mark /\ shm'.pgno = shm.pgno
         \/ /\ UNCHANGED <<shm, past>> /\ y.pc = "pick" /\ y.lock = 0 - 1
            /\ y.hdr = x.hdr /\ y.excl = x.excl /\ y.nCkpt = x.nCkpt /\ y.cache = x.cache
            /\ y.image = x.image /\ y.sp = x.sp /\ y.w = x.w
  BY RestartLogEffect
<1>2. shm.h0.init /\ InTxn(x) /\ x.nCkpt \in Nat
  BY <1>1, AtHead, AtConn DEF InTxn, Restarting, ConnType
<1>3. x.sp # NoSavepoint => x.sp.nCkpt \in Nat /\ x.sp.nCkpt <= x.nCkpt
  BY <1>1, AtConn DEF BackInv, BackOK, Writes, ConnType, SpOK
<1>4. /\ PhaseOK(x, shm, file.cur, Committed) /\ LoggedOK(x, shm, log.cur)
      /\ TaleOK(x, shm, file.cur, Committed) /\ SavedOK(x, shm, log.cur, file.cur, Committed)
      /\ Common(shm, log.cur, file.cur, Committed)
  BY <1>2, WriterAt
<1>5. x.w.todo \in Seq(Entries) /\ x.image \in Images /\ Committed \in Images
  BY WriterTypes
<1> HIDE DEF x, y
<1>6. x.lock = 0 /\ Base(x) = <<>> /\ Tale(x) = x.w.todo /\ x.hdr = shm.h0
  <2>1. x.lock = 0 /\ x.hdr = shm.h0
    BY <1>1, <1>4 DEF PhaseOK, Restarting
  <2>2. Base(x) = <<>>
    BY <2>1 DEF Base
  <2> QED BY <1>5, <2>1, <2>2, NoBase
<1>7. CASE /\ past' = [past EXCEPT !.salt = @ + 1]
           /\ y.pc = "restartHdr" /\ y.hdr.mx = 0 /\ y.hdr.n = x.hdr.n
           /\ y.nCkpt = x.nCkpt + 1 /\ y.lock = x.lock /\ y.cache = x.cache
           /\ y.image = x.image /\ y.sp = x.sp /\ y.w = x.w
           /\ shm'.h0 = shm.h0 /\ shm'.nBackfill = shm.nBackfill
           /\ shm'.mark = shm.mark /\ shm'.pgno = shm.pgno
  <2>1. past'.images = past.images
    BY <1>7 DEF TypeInv, PastInv
  <2>2. InTxn(y) /\ Base(y) = Base(x)
    BY <1>6, <1>7 DEF InTxn, Restarting, Base
  <2>3. PhaseOK(y, shm, file.cur, Committed)
    BY <1>1, <1>4, <1>6, <1>7 DEF PhaseOK, Logging, Restarting
  <2>4. LoggedOK(y, shm, log.cur)
    BY <1>6, <1>7 DEF LoggedOK
  <2>5. TaleOK(y, shm, file.cur, Committed)
    BY <1>4, <1>7, <2>2, TaleSame
  <2>6. SavedOK(y, shm, log.cur, file.cur, Committed)
    <3>1. y.sp # NoSavepoint => y.sp.nCkpt # y.nCkpt /\ y.sp.image = Committed
      BY <1>2, <1>3, <1>4, <1>6, <1>7 DEF SavedOK
    <3> QED BY <3>1 DEF SavedOK
  <2>7. SnapOK(y, shm, log.cur, file.cur, Committed) /\ RecoverOK(y, shm, log.cur)
    BY <1>7, <2>2, <2>3, <2>4, <2>5, <2>6, SnapWriter
  <2> QED BY <1>1, <1>7, <2>1, <2>2, <2>7, PairWriter, SnapLocal DEF y
<1>8. CASE /\ UNCHANGED <<shm, past>> /\ y.pc = "pick" /\ y.lock = 0 - 1
           /\ y.hdr = x.hdr /\ y.excl = x.excl /\ y.nCkpt = x.nCkpt /\ y.cache = x.cache
           /\ y.image = x.image /\ y.sp = x.sp /\ y.w = x.w
  <2>1. /\ Eff(shm.h0) \in Seq(Entries) /\ Len(Eff(shm.h0)) = shm.h0.mx /\ shm.h0.mx \in Nat
        /\ shm.h0.mx > 0 => Eff(shm.h0) = shm.h0.sum
    BY <1>4, HeadEff
  <2>2. InTxn(y) /\ Base(y) = Eff(shm.h0) /\ Tale(y) = Eff(shm.h0) \o x.w.todo
    <3>1. InTxn(y)
      BY <1>1, <1>8 DEF InTxn, Writes
    <3>2. Base(y) = Eff(shm.h0)
      BY <1>6, <1>8 DEF Base, Eff
    <3> QED BY <1>8, <3>1, <3>2 DEF Tale
  <2>3. PhaseOK(y, shm, file.cur, Committed)
    BY <1>1, <1>4, <1>6, <1>8 DEF PhaseOK, Logging, Restarting
  <2>4. LoggedOK(y, shm, log.cur)
    BY <1>4, <1>6, <1>8, <2>2, LatestLogged DEF LoggedOK
  <2>5. TaleOK(y, shm, file.cur, Committed)
    <3>1. /\ Shows(x.w.todo, file.cur, x.image) /\ Grown(x.w.todo, 0, x.image, Committed)
          /\ x.w.commit => /\ x.w.todo # <<>> /\ Last(x.w.todo).n = Len(x.image)
                           /\ Len(x.image) > 0
      BY <1>4, <1>6 DEF TaleOK
    <3>2. Shows(Eff(shm.h0), file.cur, Committed) /\ Shows(<<>>, file.cur, Committed)
      BY <1>4, <1>6 DEF Common, PhaseOK
    <3>3. Shows(Tale(y), file.cur, x.image) /\ Grown(Tale(y), shm.h0.mx, x.image, Committed)
      BY <1>5, <2>1, <2>2, <3>1, <3>2, ShowsBehind
    <3>4. x.w.commit => Tale(y) # <<>> /\ Last(Tale(y)).n = Len(x.image)
      BY <1>5, <2>1, <2>2, <3>1, LastConcat
    <3> QED BY <1>8, <3>1, <3>3, <3>4 DEF TaleOK
  <2>6. SavedOK(y, shm, log.cur, file.cur, Committed)
    BY <1>4, <1>8, SavedSame
  <2>7. SnapOK(y, shm, log.cur, file.cur, Committed) /\ RecoverOK(y, shm, log.cur)
    BY <1>8, <2>2, <2>3, <2>4, <2>5, <2>6, SnapWriter
  <2> QED BY <1>1, <1>8, <2>2, <2>7, PairWriter, SnapLocal DEF y
<1> QED BY <1>1, <1>7, <1>8

\* Beside the writer nobody runs a checkpoint.
LEMMA NoCopier ==
  ASSUME OneWriter, TypeInv, NEW c \in Conn, c \in Writers, con[c].pc # "closed",
         NEW d \in Conn \ {c}
  PROVE  con[d].pc \notin Checkpointing
<1> SUFFICES ASSUME con[d].pc \in Checkpointing PROVE FALSE
  OBVIOUS
<1>1. d \in Checkpointers \/ con[d].w.close
  BY AtConn DEF Phase
<1>2. d \notin Checkpointers
  BY DEF OneWriter
<1>3. ~con[d].w.close
  BY DEF TypeInv, LockInv
<1> QED BY <1>1, <1>2, <1>3

LEMMA BesideWriter ==
  ASSUME OneWriter, TypeInv, BackInv, NEW c \in Conn, InTxn(con[c]), NEW d \in Conn \ {c}
  PROVE  /\ con[d].pc \notin {"ckptMark", "ckptLock0", "ckptWrite", "recoverHdr"}
         /\ ~InTxn(con[d])
<1>1. c \in Writers /\ con[c].pc # "closed" /\ WRITE \in con[c].excl
  BY AtConn DEF BackInv, BackOK, InTxn, Writes, Restarting, Logging, Phase
<1> QED BY <1>1, NoCopier, OneTxn DEF Checkpointing, Recovering

LEMMA BesideCopier ==
  ASSUME OneWriter, TypeInv, BackInv, NEW c \in Conn,
         con[c].pc \in {"ckptMark", "ckptLock0", "ckptWrite"}, NEW d \in Conn \ {c}
  PROVE  /\ con[d].pc \notin {"ckptMark", "ckptLock0", "ckptWrite", "recoverHdr"}
         /\ ~InTxn(con[d])
<1>1. ~InTxn(con[d])
  BY BesideWriter
<1>2. CKPT \in con[c].excl
  BY AtConn DEF Phase, Checkpointing
<1>3. CKPT \notin con[d].excl /\ CKPT \in AllLocks
  BY <1>2, Constants DEF TypeInv, LockInv, CKPT, AllLocks
<1>4. con[d].pc \in Checkpointing \cup Recovering => CKPT \in con[d].excl
  BY <1>3, AtConn DEF Phase, Checkpointing, Recovering
<1> QED BY <1>1, <1>3, <1>4 DEF Checkpointing, Recovering

\* A new header, which is not that of a connection beside the writer.
LEMMA SnapBystander ==
  ASSUME NEW z, NEW s, NEW t, NEW l, NEW db, NEW img, NEW new, ~InTxn(z), s.h0.init,
         z.pc \notin {"ckptMark", "ckptLock0", "ckptWrite"}, z.hdr # t.h0, t.pgno = s.pgno,
         Reads(z) /\ z.lock > 0 => z.hdr.mx <= t.h0.mx /\ t.mark[z.lock] = s.mark[z.lock],
         SnapOK(z, s, l, db, img)
  PROVE  SnapOK(z, t, l, db, new)
<1>1. ReaderOK(z, t, l, db, new)
  BY DEF SnapOK, ReaderOK, Held
<1>2. WriterOK(z, t, l, db, new) /\ CkptOK(z, t, db, new)
  BY DEF WriterOK, CkptOK
<1>3. OtherOK(z, t, new)
  BY DEF SnapOK, OtherOK
<1> QED BY <1>1, <1>2, <1>3 DEF SnapOK

LEMMA RestartHdrSnap ==
  ASSUME OneWriter, TypeInv, BackInv, DataInv, HeadInv, SnapInv, NEW c \in Conn, RestartHdr(c)
  PROVE  SnapInv'
<1> DEFINE x == con[c]
           y == con'[c]
<1>1. /\ Only(c) /\ UNCHANGED <<log, file, past>> /\ x.pc = "restartHdr"
      /\ y.pc = "restartInfo" /\ y.excl = x.excl /\ Moved(y, x)
      /\ shm'.h0 = x.hdr /\ shm'.nBackfill = shm.nBackfill
      /\ shm'.mark = shm.mark /\ shm'.pgno = shm.pgno
  BY RestartHdrEffect
<1>2. shm.h0.init /\ InTxn(x) /\ x.hdr.init /\ x.hdr.mx = 0 /\ ReadLocks \subseteq x.excl
      /\ (x.sp # NoSavepoint => x.sp.nCkpt \in Nat /\ x.nCkpt \in Nat /\ x.sp.nCkpt < x.nCkpt)
  BY <1>1, AtHead, AtConn DEF InTxn, Restarting, BackInv, BackOK, Informed, ConnType, SpOK
<1>3. /\ PhaseOK(x, shm, file.cur, Committed)
      /\ TaleOK(x, shm, file.cur, Committed) /\ SavedOK(x, shm, log.cur, file.cur, Committed)
      /\ Common(shm, log.cur, file.cur, Committed)
  BY <1>2, WriterAt
<1>4. shm.h0.salt < x.hdr.salt
  BY <1>1, AtHead DEF HeadOK
<1>5. Committed' = Committed
  BY <1>1 DEF Committed
<1>6. ASSUME NEW d \in Conn \ {c}
      PROVE  /\ con[d].pc \notin {"ckptMark", "ckptLock0", "ckptWrite", "recoverHdr"}
             /\ ~InTxn(con[d]) /\ con[d].hdr # x.hdr /\ ~(con[d].lock > 0)
  <2>1. /\ con[d].pc \notin {"ckptMark", "ckptLock0", "ckptWrite", "recoverHdr"}
        /\ ~InTxn(con[d])
    BY <1>2, BesideWriter
  <2>2. con[d].hdr.salt <= shm.h0.salt /\ con[d].hdr.salt \in Nat /\ shm.h0.salt \in Nat
        /\ x.hdr.salt \in Nat
    BY <1>2, <2>1, AtHead, HeadTypes DEF HeadOK
  <2>3. con[d].hdr # x.hdr
    BY <1>4, <2>2
  <2>4. ASSUME con[d].lock > 0 PROVE FALSE
    <3>1. con[d].lock \in Marks
      BY <2>4, AtConn, Constants DEF ConnType
    <3>2. READ(con[d].lock) \in ReadLocks
      BY <3>1 DEF ReadLocks
    <3>3. READ(con[d].lock) \in x.excl /\ con[d].lock >= 0
      BY <1>2, <3>1, <3>2, Constants
    <3> QED BY <3>3 DEF TypeInv, LockInv
  <2> QED BY <2>1, <2>3, <2>4
<1> HIDE DEF x, y
<1>7. x.lock = 0 /\ Shows(<<>>, file.cur, Committed) /\ x.hdr.n = shm.h0.n
  BY <1>1, <1>3 DEF PhaseOK, Restarting
<1>8. Common(shm', log'.cur, file'.cur, Committed')
  <2>1. Held(x.hdr, shm', log.cur)
    BY <1>2 DEF Held, Sound, Matches, Indexed
  <2>2. Eff(x.hdr) = <<>>
    BY <1>2 DEF Eff
  <2>3. Filled(<<>>, shm.nBackfill, file.cur, Committed)
    BY DEF Filled, Newest
  <2>4. Len(Committed) = SizeOf(x.hdr, file.cur)
    BY <1>3, <1>7 DEF Common, SizeOf
  <2> QED BY <1>1, <1>5, <1>7, <2>1, <2>2, <2>3, <2>4 DEF Common
<1>9. SnapOK(y, shm', log'.cur, file'.cur, Committed') /\ RecoverOK(y, shm', log'.cur)
  <2>1. /\ y.hdr = x.hdr /\ y.lock = x.lock /\ y.cache = x.cache /\ y.image = x.image
        /\ y.sp = x.sp /\ y.w = x.w /\ y.nCkpt = x.nCkpt
    BY <1>1 DEF Moved
  <2>2. InTxn(y) /\ Base(y) = Base(x)
    BY <1>1, <1>7, <2>1 DEF InTxn, Restarting, Base
  <2>3. PhaseOK(y, shm', file.cur, Committed)
    BY <1>1, <1>3, <1>7, <2>1 DEF PhaseOK, Logging, Restarting
  <2>4. LoggedOK(y, shm', log.cur)
    BY <1>2, <1>7, <2>1 DEF LoggedOK
  <2>5. TaleOK(y, shm', file.cur, Committed)
    <3>1. Tale(y) = Tale(x)
      BY <2>1, <2>2 DEF Tale
    <3> QED BY <1>1, <1>3, <1>7, <2>1, <3>1 DEF TaleOK
  <2>6. SavedOK(y, shm', log.cur, file.cur, Committed)
    BY <1>2, <1>3, <1>7, <2>1 DEF SavedOK
  <2> QED BY <1>1, <1>5, <2>2, <2>3, <2>4, <2>5, <2>6, SnapWriter
<1>10. ASSUME NEW d \in Conn \ {c}
       PROVE  /\ SnapOK(con[d], shm', log'.cur, file'.cur, Committed')
              /\ RecoverOK(con[d], shm', log'.cur)
              /\ PairOK(y, con[d]) /\ PairOK(con[d], y)
  <2>1. SnapOK(con[d], shm, log.cur, file.cur, Committed)
    BY DEF SnapInv
  <2>2. SnapOK(con[d], shm', log.cur, file.cur, Committed)
    BY <1>1, <1>2, <1>6, <2>1, SnapBystander
  <2>3. RecoverOK(con[d], shm', log'.cur)
    BY <1>6 DEF RecoverOK
  <2>4. PairOK(y, con[d]) /\ PairOK(con[d], y)
    BY <1>1, <1>6 DEF PairOK, Reads
  <2> QED BY <1>1, <1>5, <2>2, <2>3, <2>4
<1> QED BY <1>1, <1>8, <1>9, <1>10, SnapStep DEF y

LEMMA NoMarkHeld ==
  ASSUME TypeInv, NEW c \in Conn, ReadLocks \subseteq con[c].excl, NEW d \in Conn \ {c}
  PROVE  ~(con[d].lock > 0)
<1> SUFFICES ASSUME con[d].lock > 0 PROVE FALSE
  OBVIOUS
<1>1. con[d].lock \in Marks
  BY AtConn, Constants DEF ConnType
<1>2. READ(con[d].lock) \in ReadLocks
  BY <1>1 DEF ReadLocks
<1>3. READ(con[d].lock) \in con[c].excl /\ con[d].lock >= 0
  BY <1>1, <1>2, Constants
<1> QED BY <1>3 DEF TypeInv, LockInv

LEMMA RestartInfoSnap ==
  ASSUME OneWriter, TypeInv, BackInv, DataInv, HeadInv, SnapInv, NEW c \in Conn, RestartInfo(c)
  PROVE  SnapInv'
<1> DEFINE x == con[c]
           y == con'[c]
<1>1. /\ Only(c) /\ UNCHANGED <<log, file, past>> /\ x.pc = "restartInfo"
      /\ y.pc = "pick" /\ y.lock = 0 - 1 /\ y.excl = {WRITE}
      /\ y.hdr = x.hdr /\ y.nCkpt = x.nCkpt /\ y.cache = x.cache
      /\ y.image = x.image /\ y.sp = x.sp /\ y.w = x.w
      /\ shm'.h0 = shm.h0 /\ shm'.nBackfill = 0 /\ shm'.pgno = shm.pgno
  BY RestartInfoEffect
<1>2. /\ shm.h0.init /\ InTxn(x) /\ shm.h0 = x.hdr /\ x.hdr.mx = 0 /\ ReadLocks \subseteq x.excl
      /\ (x.sp # NoSavepoint => x.sp.nCkpt \in Nat /\ x.nCkpt \in Nat /\ x.sp.nCkpt < x.nCkpt)
  BY <1>1, AtHead, AtConn
     DEF InTxn, Restarting, BackInv, BackOK, HdrsAgree, Informed, ConnType, SpOK
<1>3. /\ PhaseOK(x, shm, file.cur, Committed)
      /\ TaleOK(x, shm, file.cur, Committed) /\ SavedOK(x, shm, log.cur, file.cur, Committed)
      /\ Common(shm, log.cur, file.cur, Committed)
  BY <1>2, WriterAt
<1>5. Committed' = Committed
  BY <1>1 DEF Committed
<1>6. ASSUME NEW d \in Conn \ {c}
      PROVE  /\ con[d].pc \notin {"ckptMark", "ckptLock0", "ckptWrite", "recoverHdr"}
             /\ ~InTxn(con[d]) /\ ~(con[d].lock > 0)
  BY <1>2, BesideWriter, NoMarkHeld
<1> HIDE DEF x, y
<1>7. x.lock = 0 /\ Shows(<<>>, file.cur, Committed)
  BY <1>1, <1>3 DEF PhaseOK, Restarting
<1>8. Common(shm', log'.cur, file'.cur, Committed')
  <2>2. Eff(shm.h0) = <<>>
    BY <1>2 DEF Eff
  <2>3. Filled(<<>>, 0, file.cur, Committed)
    BY DEF Filled, Newest
  <2> QED BY <1>1, <1>3, <1>5, <2>2, <2>3 DEF Common, Held
<1>9. SnapOK(y, shm', log'.cur, file'.cur, Committed') /\ RecoverOK(y, shm', log'.cur)
  <2>2. InTxn(y) /\ Base(y) = <<>> /\ Base(x) = <<>>
    BY <1>1, <1>2, <1>7 DEF InTxn, Writes, Base
  <2>3. PhaseOK(y, shm', file.cur, Committed)
    BY <1>1, <1>2, <1>3 DEF PhaseOK, Logging, Restarting
  <2>4. LoggedOK(y, shm', log.cur)
    BY <1>1, <1>2, <2>2 DEF LoggedOK, Matches, Indexed
  <2>5. TaleOK(y, shm', file.cur, Committed)
    <3>1. Tale(y) = Tale(x)
      BY <1>1, <2>2 DEF Tale
    <3> QED BY <1>1, <1>2, <1>3, <1>7, <3>1 DEF TaleOK
  <2>6. SavedOK(y, shm', log.cur, file.cur, Committed)
    BY <1>1, <1>2, <1>3, <1>7 DEF SavedOK
  <2> QED BY <1>1, <1>5, <2>2, <2>3, <2>4, <2>5, <2>6, SnapWriter
<1>10. ASSUME NEW d \in Conn \ {c}
       PROVE  /\ SnapOK(con[d], shm', log'.cur, file'.cur, Committed')
              /\ RecoverOK(con[d], shm', log'.cur)
              /\ PairOK(y, con[d]) /\ PairOK(con[d], y)
  <2>1. /\ ReaderOK(con[d], shm, log.cur, file.cur, Committed)
        /\ OtherOK(con[d], shm, Committed)
    BY <1>2, SnapAt
  <2>2. ReaderOK(con[d], shm', log.cur, file.cur, Committed)
    BY <1>1, <1>6, <2>1 DEF ReaderOK
  <2>3. OtherOK(con[d], shm', Committed)
    BY <1>1, <1>2, <2>1 DEF OtherOK
  <2>4. SnapOK(con[d], shm', log.cur, file.cur, Committed)
    BY <1>6, <2>2, <2>3 DEF SnapOK, WriterOK, CkptOK
  <2>5. RecoverOK(con[d], shm', log'.cur)
    BY <1>6 DEF RecoverOK
  <2>6. PairOK(y, con[d]) /\ PairOK(con[d], y)
    BY <1>1, <1>6 DEF PairOK, Reads
  <2> QED BY <1>1, <1>5, <2>4, <2>5, <2>6
<1> QED BY <1>1, <1>8, <1>9, <1>10, SnapStep DEF y

\* Of the log only the frames matter.
LEMMA SameFrames ==
  ASSUME NEW l, NEW m, m.frames = l.frames
  PROVE  /\ \A s, k : Matches(s, k, l) => Matches(s, k, m)
         /\ \A x, s, db, img : SnapOK(x, s, l, db, img) => SnapOK(x, s, m, db, img)
         /\ \A s, db, img : Common(s, l, db, img) => Common(s, m, db, img)
<1>1. \A s, k : Matches(s, k, l) => Matches(s, k, m)
  BY DEF Matches
<1>2. ASSUME NEW x, NEW s, NEW db, NEW img, SnapOK(x, s, l, db, img)
      PROVE  SnapOK(x, s, m, db, img)
  <2> SUFFICES ASSUME s.h0.init PROVE SnapOK(x, s, m, db, img)
    BY DEF SnapOK
  <2>1. ReaderOK(x, s, m, db, img)
    BY <1>1, <1>2 DEF SnapOK, ReaderOK, Held
  <2>2. WriterOK(x, s, m, db, img)
    BY <1>1, <1>2 DEF SnapOK, WriterOK, LoggedOK, SavedOK
  <2> QED BY <1>2, <2>1, <2>2 DEF SnapOK
<1>3. \A s, db, img : Common(s, l, db, img) => Common(s, m, db, img)
  BY <1>1 DEF Common, Held
<1> QED BY <1>1, <1>2, <1>3

LEMMA WriteLogHdrSnap ==
  ASSUME OneWriter, TypeInv, BackInv, DataInv, HeadInv, SnapInv, NEW c \in Conn, WriteLogHdr(c)
  PROVE  SnapInv'
<1> DEFINE x == con[c]
           y == con'[c]
<1>1. /\ Only(c) /\ UNCHANGED <<shm, file>> /\ x.pc = "frames" /\ x.hdr.mx = 0
      /\ log'.cur.frames = log.cur.frames
      /\ past' = [past EXCEPT !.salt = @ + 1] \/ past' = past
      /\ y.pc = "syncHdr" /\ y.hdr.mx = 0 /\ y.hdr.n = x.hdr.n /\ y.hdr.sum = <<>>
      /\ y.lock = x.lock /\ y.excl = x.excl /\ y.nCkpt = x.nCkpt /\ y.cache = x.cache
      /\ y.image = x.image /\ y.sp = x.sp /\ y.w = x.w
  BY WriteLogHdrEffect
<1>2. shm.h0.init /\ InTxn(x)
  BY <1>1, AtHead DEF InTxn, Writes, Logging
<1>3. /\ PhaseOK(x, shm, file.cur, Committed) /\ LoggedOK(x, shm, log.cur)
      /\ TaleOK(x, shm, file.cur, Committed) /\ SavedOK(x, shm, log.cur, file.cur, Committed)
      /\ Common(shm, log.cur, file.cur, Committed)
  BY <1>2, WriterAt
<1>4. past'.images = past.images
  BY <1>1 DEF TypeInv, PastInv
<1>5. Committed' = Committed
  BY <1>4 DEF Committed
<1> HIDE DEF x, y
<1>6. x.lock > 0 /\ x.lock # 0
  BY <1>1, <1>3 DEF PhaseOK, Logging
<1>7. SnapOK(y, shm, log'.cur, file.cur, Committed)
  <2>1. InTxn(y) /\ Base(y) = <<>> /\ Base(x) = <<>>
    BY <1>1, <1>6 DEF InTxn, Writes, Logging, Base
  <2>2. PhaseOK(y, shm, file.cur, Committed)
    BY <1>1, <1>3, <1>6 DEF PhaseOK, Logging, Restarting
  <2>3. LoggedOK(y, shm, log.cur)
    BY <1>1, <2>1 DEF LoggedOK, Matches, Indexed
  <2>4. TaleOK(y, shm, file.cur, Committed)
    BY <1>1, <1>3, <2>1, TaleSame
  <2>5. SavedOK(y, shm, log.cur, file.cur, Committed)
    BY <1>1, <1>3, SavedSame
  <2>6. SnapOK(y, shm, log.cur, file.cur, Committed)
    BY <1>1, <2>1, <2>2, <2>3, <2>4, <2>5, SnapWriter
  <2> QED BY <1>1, <2>6, SameFrames
<1>8. RecoverOK(y, shm, log'.cur) /\ InTxn(y)
  BY <1>1 DEF RecoverOK, InTxn, Writes, Logging
<1>9. ASSUME NEW d \in Conn \ {c}
      PROVE  /\ SnapOK(con[d], shm, log'.cur, file.cur, Committed)
             /\ RecoverOK(con[d], shm, log'.cur)
  <2>1. SnapOK(con[d], shm, log.cur, file.cur, Committed)
    BY DEF SnapInv
  <2>2. con[d].pc # "recoverHdr"
    BY <1>2, BesideWriter DEF x
  <2> QED BY <1>1, <2>1, <2>2, SameFrames DEF RecoverOK
<1>10. Common(shm, log'.cur, file.cur, Committed)
  BY <1>1, <1>3, SameFrames
<1> QED BY <1>1, <1>5, <1>7, <1>8, <1>9, <1>10, PairWriter, SnapStep DEF y

LEMMA SyncLogHdrSnap ==
  ASSUME TypeInv, DataInv, HeadInv, SnapInv, NEW c \in Conn, SyncLogHdr(c) PROVE SnapInv'
<1> DEFINE x == con[c]
           y == con'[c]
<1>1. /\ Only(c) /\ UNCHANGED <<shm, file, past>> /\ x.pc = "syncHdr" /\ log'.cur = log.cur
      /\ y.pc = "append" /\ y.excl = x.excl /\ Moved(y, x)
  BY SyncLogHdrEffect
<1>2. shm.h0.init /\ InTxn(x)
  BY <1>1, AtHead DEF InTxn, Writes, Logging
<1>3. /\ PhaseOK(x, shm, file.cur, Committed) /\ LoggedOK(x, shm, log.cur)
      /\ TaleOK(x, shm, file.cur, Committed) /\ SavedOK(x, shm, log.cur, file.cur, Committed)
  BY <1>2, WriterAt
<1> HIDE DEF x, y
<1>4. x.lock > 0 /\ x.lock # 0 /\ x.hdr.mx = 0 /\ x.hdr.sum = <<>>
  BY <1>1, <1>3 DEF PhaseOK, Logging
<1>5. /\ y.hdr = x.hdr /\ y.lock = x.lock /\ y.cache = x.cache /\ y.image = x.image
      /\ y.sp = x.sp /\ y.w = x.w /\ y.nCkpt = x.nCkpt
  BY <1>1 DEF Moved
<1>6. InTxn(y) /\ Base(y) = <<>> /\ Base(x) = <<>>
  BY <1>1, <1>4, <1>5 DEF InTxn, Writes, Logging, Base
<1>7. PhaseOK(y, shm, file.cur, Committed)
  BY <1>1, <1>3, <1>4, <1>5 DEF PhaseOK, Logging, Restarting
<1>8. LoggedOK(y, shm, log.cur)
  BY <1>4, <1>5, <1>6 DEF LoggedOK, Matches, Indexed
<1>9. TaleOK(y, shm, file.cur, Committed)
  BY <1>1, <1>3, <1>5, <1>6, TaleSame
<1>10. SavedOK(y, shm, log.cur, file.cur, Committed)
  BY <1>3, <1>5, SavedSame
<1>11. SnapOK(y, shm, log.cur, file.cur, Committed) /\ RecoverOK(y, shm, log.cur)
  BY <1>1, <1>6, <1>7, <1>8, <1>9, <1>10, SnapWriter
<1> QED BY <1>1, <1>6, <1>11, PairWriter, SnapLocal DEF y

-----------------------------------------------------------------------------
(* The writer changes the log and the index behind what others use.           *)

\* The first k frames and their pages are the same in s, l and in t, m.
Kept(s, l, t, m, k) == \A f \in 1..k : m.frames[f] = l.frames[f] /\ t.pgno[f] = s.pgno[f]

LEMMA HeldKept ==
  ASSUME NEW h, NEW s, NEW l, NEW t, NEW m, NEW k \in Int, h.mx \in Int, h.mx <= k,
         Kept(s, l, t, m, k), Held(h, s, l)
  PROVE  Held(h, t, m)
<1>1. \A f \in 1..h.mx : f \in 1..k
  OBVIOUS
<1> QED BY <1>1 DEF Held, Matches, Indexed, Kept

LEMMA MatchesKept ==
  ASSUME NEW u, NEW j \in Int, NEW s, NEW l, NEW t, NEW m, NEW k \in Int, j <= k,
         Kept(s, l, t, m, k), Matches(u, j, l)
  PROVE  Matches(u, j, m)
<1>1. \A f \in 1..j : f \in 1..k
  OBVIOUS
<1> QED BY <1>1 DEF Matches, Kept

LEMMA SnapKept ==
  ASSUME NEW z, NEW s, NEW t, NEW l, NEW m, NEW db, NEW img, s.h0.mx \in Int, z.hdr.mx \in Int,
         t.h0 = s.h0, t.nBackfill = s.nBackfill, t.mark = s.mark,
         Kept(s, l, t, m, s.h0.mx), ~InTxn(z), SnapOK(z, s, l, db, img)
  PROVE  SnapOK(z, t, m, db, img)
<1> SUFFICES ASSUME s.h0.init PROVE SnapOK(z, t, m, db, img)
  BY DEF SnapOK
<1>1. ReaderOK(z, s, l, db, img) /\ CkptOK(z, s, db, img) /\ OtherOK(z, s, img)
  BY DEF SnapOK
<1>2. CkptOK(z, t, db, img) /\ OtherOK(z, t, img) /\ WriterOK(z, t, m, db, img)
  BY <1>1 DEF CkptOK, OtherOK, WriterOK
<1>3. ReaderOK(z, t, m, db, img)
  <2>1. Reads(z) /\ z.lock > 0 => Held(z.hdr, t, m)
    BY <1>1, HeldKept DEF ReaderOK
  <2> QED BY <1>1, <2>1 DEF ReaderOK
<1> QED BY <1>2, <1>3 DEF SnapOK

LEMMA CommonKept ==
  ASSUME NEW s, NEW t, NEW l, NEW m, NEW db, NEW img, s.h0.mx \in Int,
         t.h0 = s.h0, t.nBackfill = s.nBackfill, Kept(s, l, t, m, s.h0.mx), Common(s, l, db, img)
  PROVE  Common(t, m, db, img)
<1>1. s.h0.mx <= s.h0.mx /\ Held(s.h0, s, l)
  BY DEF Common
<1>2. Held(s.h0, t, m)
  BY <1>1, HeldKept
<1> QED BY <1>2 DEF Common

\* A step of the writer that leaves the frames of the latest header alone.
LEMMA SnapBehind ==
  ASSUME OneWriter, TypeInv, BackInv, SnapInv, shm.h0.init, NEW c \in Conn, Only(c),
         InTxn(con[c]), shm'.h0 = shm.h0, shm'.nBackfill = shm.nBackfill, shm'.mark = shm.mark,
         file'.cur = file.cur, past'.images = past.images,
         Kept(shm, log.cur, shm', log'.cur, shm.h0.mx),
         con'[c].pc \notin {"ckptMark", "ckptLock0", "ckptWrite"},
         SnapOK(con'[c], shm', log'.cur, file.cur, Committed), RecoverOK(con'[c], shm', log'.cur)
  PROVE  SnapInv'
<1>1. Committed' = Committed
  BY DEF Committed
<1>2. shm.h0.mx \in Int
  BY AtConn DEF HdrOK
<1>3. Common(shm', log'.cur, file.cur, Committed)
  BY <1>2, SnapAt, CommonKept
<1>4. ASSUME NEW d \in Conn \ {c}
      PROVE  /\ SnapOK(con[d], shm', log'.cur, file.cur, Committed)
             /\ RecoverOK(con[d], shm', log'.cur)
             /\ PairOK(con'[c], con[d]) /\ PairOK(con[d], con'[c])
  <2>1. /\ con[d].pc \notin {"ckptMark", "ckptLock0", "ckptWrite", "recoverHdr"}
        /\ ~InTxn(con[d])
    BY BesideWriter
  <2>2. SnapOK(con[d], shm, log.cur, file.cur, Committed) /\ con[d].hdr.mx \in Int
    BY AtConn DEF SnapInv, ConnType, HdrOK
  <2>3. SnapOK(con[d], shm', log'.cur, file.cur, Committed)
    BY <1>2, <2>1, <2>2, SnapKept
  <2> QED BY <2>1, <2>3 DEF RecoverOK, PairOK
<1> QED BY <1>1, <1>3, <1>4, SnapStep

\* The log after a frame was written.
LEMMA FrameAt ==
  ASSUME NEW l \in Seq(FrameSet), NEW i \in Nat, 1 <= i, i <= Len(l) + 1, NEW e
  PROVE  At(l, i, e)[i] = e /\ \A f \in 1..(i - 1) : At(l, i, e)[f] = l[f]
<1> DEFINE m == Max({Len(l), i})
<1>1. Len(l) \in Int /\ i \in Int
  OBVIOUS
<1>2. m \in {Len(l), i} /\ m >= Len(l) /\ m >= i
  BY <1>1, MaxTwo
<1> HIDE DEF m
<1>3. m \in Int /\ i <= m
  BY <1>1, <1>2
<1>4. At(l, i, e) = [k \in 1..m |-> IF k = i THEN e ELSE l[k]]
  BY DEF At, m
<1>5. At(l, i, e)[i] = e
  BY <1>1, <1>3, <1>4
<1>6. \A f \in 1..(i - 1) : At(l, i, e)[f] = l[f]
  BY <1>1, <1>3, <1>4
<1> QED BY <1>5, <1>6

\* One frame goes from those to be written to those that are.
LEMMA MoveOne ==
  ASSUME NEW s \in Seq(Entries), NEW t \in Seq(Entries), t # <<>>
  PROVE  /\ Append(s, Head(t)) \o Tail(t) = s \o t /\ Head(t) \in Entries
         /\ Append(s, Head(t)) \in Seq(Entries) /\ Len(Append(s, Head(t))) = Len(s) + 1
         /\ \A f \in 1..Len(s) : Append(s, Head(t))[f] = s[f]
         /\ Last(Append(s, Head(t))) = Head(t) /\ Append(s, Head(t))[Len(s) + 1] = Head(t)
<1>1. Head(t) \in Entries /\ Tail(t) \in Seq(Entries)
  OBVIOUS
<1>2. /\ Append(s, Head(t)) \in Seq(Entries) /\ Len(Append(s, Head(t))) = Len(s) + 1
      /\ \A f \in 1..Len(s) : Append(s, Head(t))[f] = s[f]
      /\ Append(s, Head(t))[Len(s) + 1] = Head(t)
  BY <1>1
<1>3. Last(Append(s, Head(t))) = Head(t)
  BY <1>2 DEF Last
<1>4. Append(s, Head(t)) \o Tail(t) = s \o t
  <2>1. Len(Append(s, Head(t)) \o Tail(t)) = Len(s \o t)
    BY <1>1, <1>2
  <2>2. Len(s) \in Nat /\ Len(t) \in Nat /\ Len(Tail(t)) = Len(t) - 1 /\ Len(t) >= 1
        /\ Len(s \o t) = Len(s) + Len(t)
    OBVIOUS
  <2>3. ASSUME NEW f \in 1..Len(s \o t)
        PROVE  (Append(s, Head(t)) \o Tail(t))[f] = (s \o t)[f]
    <3>1. CASE f <= Len(s)
      BY <1>1, <1>2, <2>2, <3>1
    <3>2. CASE f = Len(s) + 1
      BY <1>1, <1>2, <2>2, <3>2
    <3>3. CASE f > Len(s) + 1
      BY <1>1, <1>2, <2>2, <3>3
    <3> QED BY <2>2, <3>1, <3>2, <3>3
  <2>4. Append(s, Head(t)) \o Tail(t) \in Seq(Entries) /\ s \o t \in Seq(Entries)
    BY <1>1, <1>2
  <2> QED BY <2>1, <2>3, <2>4
<1> QED BY <1>1, <1>2, <1>3, <1>4

LEMMA WriteFrameSnap ==
  ASSUME OneWriter, TypeInv, BackInv, DataInv, HeadInv, SnapInv, NEW c \in Conn, WriteFrame(c)
  PROVE  SnapInv'
<1> DEFINE x == con[c]
           y == con'[c]
           s == x.hdr.sum
           t == x.w.todo
           u == Append(s, Head(t))
           fr == log.cur.frames
<1>1. /\ Only(c) /\ UNCHANGED <<shm, file>> /\ x.excl = {WRITE}
      /\ x.pc = "append" \/ (x.pc = "frames" /\ x.hdr.mx > 0)
      /\ t # <<>>
      /\ log'.cur.frames = At(fr, Len(s) + 1, Frame(x.hdr.salt, u))
      /\ past'.images = past.images
      /\ y.pc = "append" /\ y.hdr.mx = x.hdr.mx /\ y.hdr.n = x.hdr.n /\ y.hdr.sum = u
      /\ y.lock = x.lock /\ y.excl = x.excl /\ y.nCkpt = x.nCkpt /\ y.cache = x.cache
      /\ y.image = x.image /\ y.sp = x.sp
      /\ y.w.todo = Tail(t) /\ \A f \in WorkFields \ {"todo"} : y.w[f] = x.w[f]
  BY WriteFrameEffect
<1>2. /\ shm.h0.init /\ InTxn(x) /\ shm.h0.mx <= x.hdr.mx /\ shm.h0.mx \in Nat
  BY <1>1, AtHead, AtConn DEF InTxn, Writes, Logging, BackInv, BackOK, HdrOK
<1>3. /\ PhaseOK(x, shm, file.cur, Committed) /\ LoggedOK(x, shm, log.cur)
      /\ TaleOK(x, shm, file.cur, Committed) /\ SavedOK(x, shm, log.cur, file.cur, Committed)
  BY <1>2, WriterAt
<1>4. /\ s \in Seq(Entries) /\ t \in Seq(Entries) /\ x.hdr.mx \in Nat /\ x.hdr.mx <= Len(s)
      /\ Len(s) \in Nat
  BY WriterTypes
<1>5. fr \in Seq(FrameSet) /\ Len(s) + 1 <= Len(fr) + 1
  <2>1. fr \in Seq(FrameSet) /\ Written(s, log.cur)
    BY AtConn DEF TypeInv, LogInv, Logs
  <2> QED BY <1>4, <2>1 DEF Written
<1>6. (y.w.commit <=> x.w.commit)
  BY <1>1 DEF WorkFields
<1>7. x.sp # NoSavepoint => x.sp.mx \in Int
  BY AtConn DEF ConnType, SpOK
<1> HIDE DEF x, y, s, t, u, fr
<1>8. /\ u \o Tail(t) = s \o t /\ Head(t) \in Entries
      /\ u \in Seq(Entries) /\ Len(u) = Len(s) + 1
      /\ \A f \in 1..Len(s) : u[f] = s[f]
      /\ Last(u) = Head(t) /\ u[Len(s) + 1] = Head(t)
  BY <1>1, <1>4, MoveOne DEF u
<1>9. /\ log'.cur.frames[Len(s) + 1] = Frame(x.hdr.salt, u)
      /\ \A f \in 1..Len(s) : log'.cur.frames[f] = fr[f]
  <2>1. Len(s) + 1 \in Nat /\ 1 <= Len(s) + 1 /\ (Len(s) + 1) - 1 = Len(s)
    BY <1>4
  <2>2. /\ At(fr, Len(s) + 1, Frame(x.hdr.salt, u))[Len(s) + 1] = Frame(x.hdr.salt, u)
        /\ \A f \in 1..((Len(s) + 1) - 1) : At(fr, Len(s) + 1, Frame(x.hdr.salt, u))[f] = fr[f]
    BY <1>5, <2>1, FrameAt
  <2> QED BY <1>1, <2>1, <2>2
<1>10. Kept(shm, log.cur, shm', log'.cur, Len(s)) /\ shm'.pgno = shm.pgno
  BY <1>1, <1>9 DEF Kept, fr
<1>11. Kept(shm, log.cur, shm', log'.cur, shm.h0.mx)
  <2>1. \A f \in 1..shm.h0.mx : f \in 1..Len(s)
    BY <1>2, <1>4
  <2> QED BY <1>10, <2>1 DEF Kept
<1>12. x.lock > 0 /\ x.lock # 0 /\ Base(x) = s /\ Base(y) = u
  <2>1. x.lock > 0 /\ x.lock # 0
    BY <1>1, <1>3 DEF PhaseOK, Logging
  <2>2. Base(x) = s
    BY <1>1, <1>4, <2>1 DEF Base, s
  <2>3. Base(y) = u
    BY <1>1, <2>1 DEF Base
  <2> QED BY <2>1, <2>2, <2>3
<1>13. Tale(y) = Tale(x)
  BY <1>1, <1>8, <1>12 DEF Tale, t
<1>14. InTxn(y)
  BY <1>1 DEF InTxn, Writes, Logging
<1>15. PhaseOK(y, shm, file.cur, Committed)
  BY <1>1, <1>3, <1>12 DEF PhaseOK, Logging, Restarting
<1>16. LoggedOK(y, shm, log'.cur)
  <2>1. Matches(s, Len(s), log.cur) /\ Indexed(s, x.hdr.mx, shm.pgno)
    BY <1>3, <1>12 DEF LoggedOK, s
  <2>2. ASSUME NEW f \in 1..Len(u) PROVE Last(log'.cur.frames[f].sum) = u[f]
    <3>1. CASE f = Len(s) + 1
      BY <1>8, <1>9, <3>1 DEF Frame
    <3>2. CASE f # Len(s) + 1
      <4>1. f \in 1..Len(s)
        BY <1>4, <1>8, <3>2
      <4> QED BY <1>8, <1>9, <2>1, <4>1 DEF Matches, fr
    <3> QED BY <3>1, <3>2
  <2>3. \A f \in 1..x.hdr.mx : f \in 1..Len(s)
    BY <1>4
  <2>4. Indexed(u, x.hdr.mx, shm.pgno)
    BY <1>8, <2>1, <2>3 DEF Indexed
  <2> QED BY <1>1, <1>12, <2>2, <2>4 DEF LoggedOK, Matches
<1>17. TaleOK(y, shm, file.cur, Committed)
  BY <1>1, <1>3, <1>6, <1>13 DEF TaleOK
<1>18. SavedOK(y, shm, log'.cur, file.cur, Committed)
  <2>1. ASSUME x.sp # NoSavepoint, x.sp.nCkpt = x.nCkpt
        PROVE  Matches(x.sp.sum, x.sp.mx, log'.cur)
    <3>1. Matches(x.sp.sum, x.sp.mx, log.cur) /\ x.sp.mx <= x.hdr.mx
      BY <1>3, <2>1 DEF SavedOK
    <3>2. x.sp.mx <= Len(s) /\ x.sp.mx \in Int
      BY <1>4, <1>7, <2>1, <3>1
    <3> QED BY <1>4, <1>10, <3>1, <3>2, MatchesKept
  <2> QED BY <1>1, <1>3, <2>1 DEF SavedOK
<1>19. SnapOK(y, shm, log'.cur, file.cur, Committed) /\ RecoverOK(y, shm, log'.cur)
  BY <1>1, <1>14, <1>15, <1>16, <1>17, <1>18, SnapWriter
<1> QED BY <1>1, <1>2, <1>11, <1>19, SnapBehind DEF x, y

LEMMA EndFramesSnap ==
  ASSUME OneWriter, TypeInv, BackInv, DataInv, HeadInv, SnapInv, NEW c \in Conn, EndFrames(c)
  PROVE  SnapInv'
<1> DEFINE x == con[c]
           y == con'[c]
           s == x.hdr.sum
<1>1. /\ Only(c) /\ UNCHANGED <<file, past>> /\ x.pc = "append" /\ x.w.todo = <<>>
      /\ x.excl = {WRITE} /\ log'.cur = log.cur
      /\ y.pc = IF x.w.commit THEN "commitHdr" ELSE "read"
      /\ y.hdr.mx = Len(s) /\ y.hdr.sum = s
      /\ y.hdr.n = IF x.w.commit THEN Last(s).n ELSE x.hdr.n
      /\ y.w = NoWork
      /\ y.lock = x.lock /\ y.excl = x.excl /\ y.nCkpt = x.nCkpt /\ y.cache = x.cache
      /\ y.image = x.image /\ y.sp = x.sp
      /\ shm'.h0 = shm.h0 /\ shm'.nBackfill = shm.nBackfill /\ shm'.mark = shm.mark
      /\ shm'.pgno = Appended(x)
  BY EndFramesEffect
<1>2. /\ shm.h0.init /\ InTxn(x) /\ shm.h0.mx <= x.hdr.mx /\ shm.h0.mx \in Nat
  BY <1>1, AtHead, AtConn DEF InTxn, Writes, Logging, BackInv, BackOK, HdrOK
<1>3. /\ PhaseOK(x, shm, file.cur, Committed) /\ LoggedOK(x, shm, log.cur)
      /\ TaleOK(x, shm, file.cur, Committed) /\ SavedOK(x, shm, log.cur, file.cur, Committed)
  BY <1>2, WriterAt
<1>4. /\ s \in Seq(Entries) /\ x.hdr.mx \in Nat /\ x.hdr.mx <= Len(s) /\ x.lock \in Int
      /\ Len(s) \in Nat /\ Len(s) <= MaxFrame /\ MaxFrame \in Nat
  BY WriterTypes, AtConn, HdrNumbers, Constants DEF ConnType
<1>5. x.sp # NoSavepoint => x.sp.mx \in Int
  BY AtConn DEF ConnType, SpOK
<1>6. /\ \A f \in 1..x.hdr.mx : shm'.pgno[f] = shm.pgno[f]
      /\ \A f \in 1..Len(s) : f > x.hdr.mx => shm'.pgno[f] = s[f].pg
  <2>1. \A f \in 1..MaxFrame : shm'.pgno[f] =
          (IF f > Len(s) THEN (IF x.hdr.mx = 0 \/ shm.pgno[x.hdr.mx + 1] # 0 THEN 0 ELSE shm.pgno[f])
           ELSE IF f > x.hdr.mx THEN s[f].pg ELSE shm.pgno[f])
    BY <1>1 DEF Appended
  <2> HIDE DEF x, s
  <2>2. ASSUME NEW f \in 1..x.hdr.mx PROVE shm'.pgno[f] = shm.pgno[f]
    <3>1. f \in 1..MaxFrame /\ ~(f > Len(s)) /\ ~(f > x.hdr.mx)
      BY <1>4
    <3> QED BY <2>1, <3>1
  <2>3. ASSUME NEW f \in 1..Len(s), f > x.hdr.mx PROVE shm'.pgno[f] = s[f].pg
    <3>1. f \in 1..MaxFrame /\ ~(f > Len(s))
      BY <1>4
    <3> QED BY <2>1, <2>3, <3>1
  <2> QED BY <2>2, <2>3
<1>7. /\ NoWork.todo = <<>> /\ ~NoWork.commit
  BY DEF NoWork
<1> HIDE DEF x, y, s
<1>8. x.lock > 0 /\ x.lock # 0 /\ Base(x) = s /\ Base(y) = s
  <2>1. x.lock > 0 /\ x.lock # 0
    BY <1>1, <1>3 DEF PhaseOK, Logging
  <2>2. Base(x) = s
    BY <1>1, <2>1 DEF Base, s
  <2>3. Len(s) = 0 => s = <<>>
    BY <1>4
  <2>4. Base(y) = s
    BY <1>1, <2>1, <2>3 DEF Base
  <2> QED BY <2>1, <2>2, <2>4
<1>9. Tale(x) = s /\ Tale(y) = s
  BY <1>1, <1>4, <1>7, <1>8, NoTodo
<1>10. Kept(shm, log.cur, shm', log'.cur, shm.h0.mx)
  <2>1. \A f \in 1..shm.h0.mx : f \in 1..x.hdr.mx
    BY <1>2, <1>4
  <2> QED BY <1>1, <1>6, <2>1 DEF Kept
<1>11. InTxn(y)
  BY <1>1 DEF InTxn, Writes, Logging
<1>12. PhaseOK(y, shm', file.cur, Committed)
  <2>1. y.pc # "commitHdr" => y.hdr.n = shm.h0.n
    BY <1>1, <1>3 DEF PhaseOK
  <2>2. y.pc = "commitHdr" \/ y.pc = "read"
    BY <1>1
  <2>3. y.lock >= 0 /\ y.w.todo = <<>> /\ ~y.w.commit
    BY <1>1, <1>4, <1>7, <1>8
  <2>4. y.pc \notin {"restart", "restartHdr", "restartInfo", "pick", "lockMark", "syncHdr"}
    BY <2>2
  <2>5. y.lock > 0 /\ y.lock # 0 /\ y.cache = Committed /\ shm'.mark[y.lock] <= shm'.h0.mx
    BY <1>1, <1>3, <1>8 DEF PhaseOK
  <2> HIDE DEF Logging
  <2> QED BY <1>1, <2>1, <2>3, <2>4, <2>5 DEF PhaseOK, Restarting
<1>13. LoggedOK(y, shm', log.cur)
  <2>1. Matches(s, Len(s), log.cur) /\ Indexed(s, x.hdr.mx, shm.pgno)
    BY <1>3, <1>8 DEF LoggedOK, s
  <2>2. ASSUME NEW f \in 1..Len(s) PROVE shm'.pgno[f] = s[f].pg
    <3>1. CASE f > x.hdr.mx
      BY <1>6, <3>1
    <3>2. CASE ~(f > x.hdr.mx)
      <4>1. f \in 1..x.hdr.mx
        BY <1>4, <3>2
      <4> QED BY <1>6, <2>1, <4>1 DEF Indexed
    <3> QED BY <3>1, <3>2
  <2> QED BY <1>1, <1>8, <2>1, <2>2 DEF LoggedOK, Indexed
<1>14. TaleOK(y, shm', file.cur, Committed)
  <2>1. Shows(s, file.cur, x.image) /\ Grown(s, shm.h0.mx, x.image, Committed)
    BY <1>3, <1>8, <1>9 DEF TaleOK
  <2>2. ASSUME x.w.commit
        PROVE  Sound(y.hdr) /\ y.hdr.n = Len(y.image) /\ y.hdr.mx > 0
    <3>1. s # <<>> /\ Last(s).n = Len(x.image) /\ Len(x.image) > 0
      BY <1>3, <1>9, <2>2 DEF TaleOK
    <3>2. Len(s) > 0 /\ Last(s) = s[Len(s)]
      BY <1>4, <3>1 DEF Last
    <3>3. y.hdr.n = s[Len(s)].n /\ y.hdr.n = Len(y.image) /\ y.hdr.n > 0
      BY <1>1, <2>2, <3>1, <3>2
    <3> QED BY <1>1, <3>2, <3>3 DEF Sound
  <2>3. y.pc = "commitHdr" => x.w.commit
    BY <1>1
  <2> QED BY <1>1, <1>7, <1>8, <1>9, <2>1, <2>2, <2>3 DEF TaleOK
<1>15. SavedOK(y, shm', log.cur, file.cur, Committed)
  <2>1. ASSUME x.sp # NoSavepoint, x.sp.nCkpt = x.nCkpt PROVE x.sp.mx <= Len(s)
    <3>1. x.sp.mx <= x.hdr.mx
      BY <1>3, <2>1 DEF SavedOK
    <3> QED BY <1>4, <1>5, <2>1, <3>1
  <2> QED BY <1>1, <1>3, <2>1 DEF SavedOK
<1>16. SnapOK(y, shm', log.cur, file.cur, Committed) /\ RecoverOK(y, shm', log.cur)
  BY <1>1, <1>11, <1>12, <1>13, <1>14, <1>15, SnapWriter
<1>17. y.pc \notin {"ckptMark", "ckptLock0", "ckptWrite"} /\ past'.images = past.images
  BY <1>1
<1> QED BY <1>1, <1>2, <1>10, <1>16, <1>17, SnapBehind DEF x, y

LEMMA ReadsOnly ==
  ASSUME NEW y, NEW s, NEW l, NEW db, NEW img, y.pc = "read", WRITE \notin y.excl,
         ReaderOK(y, s, l, db, img), y.cache = img
  PROVE  SnapOK(y, s, l, db, img) /\ RecoverOK(y, s, l)
<1>1. ~InTxn(y)
  BY DEF InTxn, Writes, Logging, Restarting
<1>2. WriterOK(y, s, l, db, img) /\ CkptOK(y, s, db, img) /\ OtherOK(y, s, img)
  BY <1>1 DEF WriterOK, CkptOK, OtherOK
<1> QED BY <1>2 DEF SnapOK, RecoverOK

LEMMA SamePrefix ==
  ASSUME NEW s, NEW t, NEW j \in Int, NEW k \in Int, k <= j, NEW l, Matches(s, j, l),
         Matches(t, k, l)
  PROVE  \A f \in 1..k : s[f] = t[f]
<1>1. \A f \in 1..k : f \in 1..j
  OBVIOUS
<1> QED BY <1>1 DEF Matches

LEMMA CommitHdrSnap ==
  ASSUME OneWriter, TypeInv, BackInv, DataInv, HeadInv, SnapInv, NEW c \in Conn, CommitHdr(c)
  PROVE  SnapInv'
<1> DEFINE x == con[c]
           y == con'[c]
           s == x.hdr.sum
           o == shm.h0
<1>1. /\ Only(c) /\ UNCHANGED <<log, file>> /\ x.pc = "commitHdr" /\ x.excl = {WRITE}
      /\ y.pc = "read" /\ y.excl = {} /\ y.hdr = x.hdr /\ y.image = x.image /\ y.cache = x.image
      /\ y.w = NoWork /\ y.lock = x.lock
      /\ shm'.h0 = x.hdr /\ shm'.nBackfill = shm.nBackfill
      /\ shm'.mark = shm.mark /\ shm'.pgno = shm.pgno
      /\ past' = Saw(x.image)
  BY CommitHdrEffect DEF Finished
<1>2. /\ o.init /\ InTxn(x) /\ o.mx <= x.hdr.mx /\ o.mx \in Nat
  BY <1>1, AtHead, AtConn DEF InTxn, Writes, Logging, BackInv, BackOK, HdrOK
<1>3. /\ PhaseOK(x, shm, file.cur, Committed) /\ LoggedOK(x, shm, log.cur)
      /\ TaleOK(x, shm, file.cur, Committed) /\ Common(shm, log.cur, file.cur, Committed)
  BY <1>2, WriterAt
<1>4. /\ s \in Seq(Entries) /\ x.hdr.mx \in Nat /\ x.lock \in Int /\ Committed \in Images
      /\ Len(s) \in Nat /\ x.image \in Images /\ Len(x.image) \in Nat /\ Len(Committed) \in Nat
  BY WriterTypes DEF Images
<1>5. /\ Committed' = x.image
  BY <1>1, <1>4, SawOK DEF Committed
<1>6. shm.nBackfill <= o.mx /\ shm.nBackfill \in Nat
  BY <1>1, UnderWriteLock DEF TypeInv, ShmInv
<1>7. /\ Eff(o) \in Seq(Entries) /\ Len(Eff(o)) = o.mx /\ (o.mx > 0 => Eff(o) = o.sum)
  BY <1>3, HeadEff
<1>8. ASSUME NEW d \in Conn \ {c}
      PROVE  /\ con[d].pc \notin {"ckptMark", "ckptLock0", "ckptWrite", "recoverHdr"}
             /\ ~InTxn(con[d]) /\ con[d].hdr # x.hdr
             /\ con[d].hdr.mx \in Int
             /\ SnapOK(con[d], shm, log.cur, file.cur, Committed)
  <2>1. /\ con[d].pc \notin {"ckptMark", "ckptLock0", "ckptWrite", "recoverHdr"}
        /\ ~InTxn(con[d])
    BY <1>2, BesideWriter
  <2>2. con[d].hdr.chg <= o.chg /\ x.hdr.chg = o.chg + 1
    BY <1>1, <1>2, <2>1, AtHead DEF HeadOK
  <2>3. con[d].hdr.chg \in Nat /\ o.chg \in Nat /\ con[d].hdr.mx \in Int
    BY HeadTypes, AtConn DEF ConnType, HdrOK
  <2> HIDE DEF x, o
  <2>4. con[d].hdr.chg # x.hdr.chg
    BY <2>2, <2>3
  <2> QED BY <2>1, <2>3, <2>4 DEF SnapInv
<1> HIDE DEF x, y, s, o
<1>9. /\ x.lock > 0 /\ x.lock # 0 /\ x.w.todo = <<>> /\ Sound(x.hdr) /\ x.hdr.n = Len(x.image)
      /\ x.hdr.mx > 0 /\ Len(s) = x.hdr.mx /\ x.hdr.n > 0
  <2>1. x.lock > 0 /\ x.lock # 0
    BY <1>1, <1>3 DEF PhaseOK, Logging
  <2> QED BY <1>1, <1>3, <2>1 DEF TaleOK, Sound, s
<1>10. Base(x) = s /\ Tale(x) = s /\ Eff(x.hdr) = s
  <2>1. Base(x) = s /\ Eff(x.hdr) = s
    BY <1>4, <1>9 DEF Base, Eff, s
  <2> QED BY <1>4, <1>9, <2>1, NoTodo
<1>11. /\ Shows(s, file.cur, x.image) /\ Grown(s, o.mx, x.image, Committed)
       /\ Matches(s, x.hdr.mx, log.cur) /\ Indexed(s, x.hdr.mx, shm.pgno)
  BY <1>3, <1>9, <1>10 DEF TaleOK, LoggedOK, s, o
<1>12. \A f \in 1..o.mx : s[f] = o.sum[f]
  <2>1. Matches(o.sum, o.mx, log.cur)
    BY <1>3 DEF Common, Held, o
  <2> QED BY <1>2, <1>4, <1>11, <2>1, SamePrefix
<1>13. Held(x.hdr, shm', log.cur)
  BY <1>1, <1>9, <1>11 DEF Held, s
<1>14. Filled(s, shm.nBackfill, file.cur, x.image)
  <2> SUFFICES ASSUME NEW p \in 1..Len(x.image), NEW f \in 1..shm.nBackfill, Newest(s, f, p)
               PROVE  PageAt(file.cur, p) = s[f].ver
    BY DEF Filled
  <2>1. f \in 1..o.mx /\ o.mx > 0 /\ f \in Nat
    BY <1>2, <1>6
  <2>2. ASSUME NEW g \in (f+1)..Len(s) PROVE s[g].pg # p
    BY DEF Newest
  <2>3. s[f].pg = p
    BY DEF Newest
  <2>4. p \in 1..Len(Committed)
    <3> SUFFICES ASSUME p \in (Len(Committed)+1)..Len(x.image) PROVE FALSE
      BY <1>4
    <3>1. PICK g \in (o.mx+1)..Len(s) : s[g].pg = p
      BY <1>11 DEF Grown
    <3>2. g \in (f+1)..Len(s)
      BY <1>2, <1>4, <2>1
    <3> QED BY <2>2, <3>1, <3>2
  <2>5. Newest(Eff(o), f, p)
    <3>1. Eff(o) = o.sum /\ Len(o.sum) = o.mx
      BY <1>7, <2>1
    <3>2. ASSUME NEW g \in (f+1)..o.mx PROVE o.sum[g].pg # p
      <4>1. g \in (f+1)..Len(s) /\ g \in 1..o.mx
        BY <1>2, <1>4, <1>9, <2>1
      <4> QED BY <1>12, <2>2, <4>1
    <3>3. o.sum[f].pg = p
      BY <1>12, <2>1, <2>3
    <3> QED BY <2>1, <3>1, <3>2, <3>3 DEF Newest
  <2>6. PageAt(file.cur, p) = Eff(o)[f].ver
    BY <1>3, <2>4, <2>5 DEF Common, Filled, o
  <2> QED BY <1>7, <1>12, <2>1, <2>6
<1>15. Common(shm', log.cur, file.cur, x.image)
  <2>1. Len(x.image) = SizeOf(x.hdr, file.cur)
    BY <1>9 DEF SizeOf
  <2> QED BY <1>1, <1>10, <1>11, <1>13, <1>14, <2>1 DEF Common
<1>16. ReaderOK(y, shm', log.cur, file.cur, x.image)
  <2>1. y.lock >= 0 /\ y.lock # 0 /\ x.hdr.mx <= x.hdr.mx
    BY <1>1, <1>4, <1>9
  <2>2. shm.mark[x.lock] <= o.mx
    BY <1>3, <1>9 DEF PhaseOK, o
  <2>3. shm.mark[x.lock] \in Int
    <3>1. x.lock \in Marks
      BY <1>9, AtConn, Constants DEF ConnType, x
    <3> QED BY <3>1, Constants DEF TypeInv, ShmInv
  <2>4. shm'.mark[y.lock] <= x.hdr.mx
    BY <1>1, <1>2, <1>4, <2>2, <2>3
  <2>5. Len(x.image) = SizeOf(x.hdr, file.cur)
    BY <1>9 DEF SizeOf
  <2> QED BY <1>1, <1>10, <1>11, <1>13, <2>1, <2>4, <2>5 DEF ReaderOK
<1>17. SnapOK(y, shm', log.cur, file.cur, x.image) /\ RecoverOK(y, shm', log.cur)
  <2>1. WRITE \notin y.excl /\ y.cache = x.image
    BY <1>1
  <2> QED BY <1>1, <1>16, <2>1, ReadsOnly
<1>18. ASSUME NEW d \in Conn \ {c}
       PROVE  /\ SnapOK(con[d], shm', log.cur, file.cur, x.image)
              /\ RecoverOK(con[d], shm', log.cur)
              /\ PairOK(y, con[d]) /\ PairOK(con[d], y)
  <2>1. PairOK(y, con[d]) /\ PairOK(con[d], y) /\ RecoverOK(con[d], shm', log.cur)
    BY <1>1, <1>8 DEF PairOK, RecoverOK
  <2>2. Reads(con[d]) /\ con[d].lock > 0 => con[d].hdr.mx <= o.mx
    BY <1>2, <1>8 DEF SnapOK, ReaderOK, o
  <2>3. Reads(con[d]) /\ con[d].lock > 0 => con[d].hdr.mx <= x.hdr.mx
    BY <1>2, <1>4, <1>8, <2>2
  <2>4. con[d].pc \notin {"ckptMark", "ckptLock0", "ckptWrite"} /\ con[d].hdr # shm'.h0
    BY <1>1, <1>8
  <2> QED BY <1>1, <1>2, <1>8, <2>1, <2>3, <2>4, SnapBystander DEF o
<1> QED BY <1>1, <1>5, <1>15, <1>17, <1>18, SnapStep DEF x, y

LEMMA CleanupKept ==
  ASSUME NEW mx \in Nat, NEW f \in 1..MaxFrame, mx > 0 => f <= mx
  PROVE  CleanupHash(mx)[f] = shm.pgno[f]
<1>1. MaxFrame \in Nat
  BY Constants
<1>2. ~(mx > 0 /\ f > mx)
  BY <1>1
<1> QED BY <1>2 DEF CleanupHash

LEMMA RollbackSnap ==
  ASSUME OneWriter, TypeInv, BackInv, DataInv, HeadInv, SnapInv, NEW c \in Conn, Rollback(c)
  PROVE  SnapInv'
<1> DEFINE x == con[c]
           y == con'[c]
           o == shm.h0
<1>1. /\ Only(c) /\ UNCHANGED <<log, file, past>> /\ x.pc = "read" /\ x.excl = {WRITE}
      /\ y.pc = "read" /\ y.excl = {} /\ y.hdr = o /\ y.image = x.cache /\ y.cache = x.cache
      /\ y.w = NoWork /\ y.lock = x.lock
      /\ shm'.h0 = shm.h0 /\ shm'.nBackfill = shm.nBackfill
      /\ shm'.mark = shm.mark
      /\ shm'.pgno = shm.pgno \/ shm'.pgno = CleanupHash(o.mx)
  BY RollbackEffect DEF Finished, Writing, Pc
<1>2. /\ o.init /\ InTxn(x) /\ o.mx \in Nat
  BY <1>1, AtHead, AtConn DEF InTxn, Writes, Logging, BackInv, BackOK, HdrOK
<1>3. /\ PhaseOK(x, shm, file.cur, Committed) /\ Common(shm, log.cur, file.cur, Committed)
  BY <1>2, WriterAt
<1>4. Kept(shm, log.cur, shm', log'.cur, o.mx)
  <2>1. MaxFrame \in Nat /\ o.mx <= MaxFrame
    BY HdrNumbers, Constants DEF TypeInv, ShmInv
  <2> HIDE DEF o
  <2>2. ASSUME NEW f \in 1..o.mx PROVE shm'.pgno[f] = shm.pgno[f]
    <3>1. f \in 1..MaxFrame /\ f <= o.mx
      BY <1>2, <2>1
    <3> QED BY <1>1, <1>2, <3>1, CleanupKept
  <2> QED BY <1>1, <2>2 DEF Kept
<1> HIDE DEF x, y, o
<1>5. Common(shm', log.cur, file.cur, Committed)
  BY <1>1, <1>2, <1>3, <1>4, CommonKept DEF o
<1>6. ReaderOK(y, shm', log.cur, file.cur, Committed)
  <2>1. x.lock >= 0 /\ x.cache = Committed /\ (x.lock = 0 => Shows(<<>>, file.cur, Committed))
        /\ (x.lock > 0 => shm'.mark[x.lock] <= o.mx)
    BY <1>1, <1>3 DEF PhaseOK, o
  <2>2. Held(o, shm', log.cur) /\ Len(Committed) = SizeOf(o, file.cur)
        /\ Shows(Eff(o), file.cur, Committed)
    BY <1>1, <1>5 DEF Common, o
  <2>3. o.mx <= shm'.h0.mx
    BY <1>1, <1>2 DEF o
  <2> QED BY <1>1, <2>1, <2>2, <2>3 DEF ReaderOK
<1>7. SnapOK(y, shm', log.cur, file.cur, Committed) /\ RecoverOK(y, shm', log.cur)
  <2>1. WRITE \notin y.excl /\ y.cache = Committed
    BY <1>1, <1>3 DEF PhaseOK
  <2> QED BY <1>1, <1>6, <2>1, ReadsOnly
<1>8. y.pc \notin {"ckptMark", "ckptLock0", "ckptWrite"} /\ past'.images = past.images
  BY <1>1
<1> QED BY <1>1, <1>2, <1>4, <1>7, <1>8, SnapBehind DEF x, y, o

LEMMA SavepointSnap ==
  ASSUME OneWriter, TypeInv, BackInv, DataInv, HeadInv, SnapInv, NEW c \in Conn, Savepoint(c)
  PROVE  SnapInv'
<1> DEFINE x == con[c]
           y == con'[c]
           o == shm.h0
<1>1. /\ Only(c) /\ UNCHANGED <<shm, log, file, past>> /\ x.pc = "read" /\ x.excl = {WRITE}
      /\ y.pc = "read" /\ y.sp.mx = x.hdr.mx /\ y.sp.sum = x.hdr.sum
      /\ y.sp.nCkpt = x.nCkpt /\ y.sp.image = x.image
      /\ y.hdr = x.hdr /\ y.lock = x.lock /\ y.excl = x.excl /\ y.nCkpt = x.nCkpt
      /\ y.cache = x.cache /\ y.image = x.image /\ y.w = x.w
  BY SavepointEffect DEF Writing, Pc
<1>2. /\ o.init /\ InTxn(x)
  BY <1>1, AtHead DEF InTxn, Writes
<1>3. /\ PhaseOK(x, shm, file.cur, Committed) /\ LoggedOK(x, shm, log.cur)
      /\ TaleOK(x, shm, file.cur, Committed) /\ Common(shm, log.cur, file.cur, Committed)
  BY <1>2, WriterAt
<1>4. /\ x.hdr.sum \in Seq(Entries) /\ x.hdr.mx \in Nat /\ x.lock \in Int /\ Committed \in Images
      /\ Len(Committed) \in Nat
  BY WriterTypes DEF Images
<1> HIDE DEF x, y, o
<1>5. InTxn(y) /\ y.pc # "lockMark"
  BY <1>1 DEF InTxn, Writes
<1>6. PhaseOK(y, shm, file.cur, Committed)
  BY <1>1, <1>3 DEF PhaseOK
<1>7. Base(y) = Base(x)
  BY <1>1 DEF Base
<1>8. LoggedOK(y, shm, log.cur)
  BY <1>1, <1>3, <1>7 DEF LoggedOK
<1>9. TaleOK(y, shm, file.cur, Committed)
  BY <1>1, <1>3, <1>7, TaleSame
<1>10. /\ x.hdr.mx > 0 => Len(x.hdr.sum) = x.hdr.mx
       /\ x.w.todo = <<>>
  BY <1>1, <1>3 DEF LoggedOK, PhaseOK
<1>11. /\ Matches(x.hdr.sum, x.hdr.mx, log.cur)
       /\ Shows(SpBase(y.sp), file.cur, x.image)
       /\ Grown(SpBase(y.sp), o.mx, x.image, Committed)
       /\ x.lock = 0 => x.image = Committed
  <2>1. CASE x.lock = 0
    <3>1. x.hdr = o /\ x.image = Committed
      BY <1>1, <1>3, <2>1 DEF PhaseOK, o
    <3>2. SpBase(y.sp) = Eff(o)
      BY <1>1, <3>1 DEF SpBase, Eff
    <3>3. Shows(Eff(o), file.cur, Committed) /\ Matches(o.sum, o.mx, log.cur)
      BY <1>3 DEF Common, Held, o
    <3>4. Grown(SpBase(y.sp), o.mx, Committed, Committed)
      <4>1. (Len(Committed)+1)..Len(Committed) = {}
        BY <1>4
      <4> QED BY <4>1 DEF Grown
    <3> QED BY <3>1, <3>2, <3>3, <3>4
  <2>2. CASE x.lock # 0
    <3>1. Base(x) = SpBase(y.sp)
      BY <1>1, <2>2 DEF Base, SpBase
    <3>2. Base(x) \in Seq(Entries)
      BY <1>4 DEF Base
    <3>3. Tale(x) = Base(x)
      BY <1>10, <3>2, NoTodo
    <3>4. Shows(SpBase(y.sp), file.cur, x.image) /\ Grown(SpBase(y.sp), o.mx, x.image, Committed)
      BY <1>3, <2>2, <3>1, <3>3 DEF TaleOK, o
    <3>5. Matches(Base(x), Len(Base(x)), log.cur)
      BY <1>3, <2>2 DEF LoggedOK
    <3>6. CASE x.hdr.mx = 0
      BY <2>2, <3>4, <3>6 DEF Matches
    <3>7. CASE x.hdr.mx # 0
      <4>1. Base(x) = x.hdr.sum
        BY <2>2, <3>7 DEF Base
      <4>2. Len(x.hdr.sum) = x.hdr.mx
        BY <1>4, <1>10, <3>7
      <4> QED BY <2>2, <3>4, <3>5, <4>1, <4>2
    <3> QED BY <3>6, <3>7
  <2> QED BY <2>1, <2>2
<1>12. SavedOK(y, shm, log.cur, file.cur, Committed)
  <2>1. x.hdr.mx <= x.hdr.mx
    BY <1>4
  <2> QED BY <1>1, <1>10, <1>11, <2>1 DEF SavedOK, o
<1>13. SnapOK(y, shm, log.cur, file.cur, Committed) /\ RecoverOK(y, shm, log.cur)
  BY <1>5, <1>6, <1>8, <1>9, <1>12, SnapWriter
<1>14. \A d \in Conn \ {c} : PairOK(y, con[d]) /\ PairOK(con[d], y)
  BY <1>5, PairWriter
<1> QED BY <1>1, <1>13, <1>14, SnapLocal DEF y

LEMMA SavepointUndoSnap ==
  ASSUME OneWriter, TypeInv, BackInv, DataInv, HeadInv, SnapInv, NEW c \in Conn, SavepointUndo(c)
  PROVE  SnapInv'
<1> DEFINE x == con[c]
           y == con'[c]
           o == shm.h0
           mx == UndoFrame(x)
<1>1. /\ Only(c) /\ UNCHANGED <<log, file, past>> /\ x.pc = "read" /\ x.excl = {WRITE}
      /\ x.sp # NoSavepoint
      /\ y.pc = "read" /\ y.sp.mx = mx /\ y.sp.sum = x.sp.sum
      /\ y.sp.nCkpt = x.nCkpt /\ y.sp.image = x.sp.image /\ y.image = x.sp.image
      /\ y.lock = x.lock /\ y.excl = x.excl /\ y.nCkpt = x.nCkpt
      /\ y.cache = x.cache /\ y.w = x.w
      /\ ~(mx < x.hdr.mx) => y.hdr = x.hdr
      /\ mx < x.hdr.mx => y.hdr.mx = mx /\ y.hdr.n = x.hdr.n /\ y.hdr.sum = x.sp.sum
      /\ shm'.h0 = shm.h0 /\ shm'.nBackfill = shm.nBackfill /\ shm'.mark = shm.mark
      /\ shm'.pgno = IF mx < x.hdr.mx THEN CleanupHash(mx) ELSE shm.pgno
  BY SavepointUndoEffect DEF Writing, Pc
<1>2. /\ o.init /\ InTxn(x) /\ Writes(x) /\ o.mx \in Nat
  BY <1>1, AtHead, AtConn DEF InTxn, Writes, HdrOK
<1>3. /\ PhaseOK(x, shm, file.cur, Committed) /\ LoggedOK(x, shm, log.cur)
      /\ SavedOK(x, shm, log.cur, file.cur, Committed) /\ Common(shm, log.cur, file.cur, Committed)
  BY <1>2, WriterAt
<1>4. /\ x.hdr.sum \in Seq(Entries) /\ x.hdr.mx \in Nat /\ x.lock \in Int /\ Committed \in Images
      /\ Len(Committed) \in Nat /\ x.sp.sum \in Seq(Entries)
  BY WriterTypes DEF Images
<1>5. /\ x.sp.mx \in Nat /\ x.hdr.mx <= MaxFrame /\ MaxFrame \in Nat
  BY <1>1, AtConn, HdrNumbers, Constants DEF ConnType, SpOK
<1>6. /\ o.mx <= x.hdr.mx
      /\ IF x.sp.nCkpt = x.nCkpt THEN o.mx <= x.sp.mx ELSE o.mx = 0
  BY <1>1, <1>2, WriteFacts
<1>7. mx = IF x.sp.nCkpt # x.nCkpt THEN 0 ELSE x.sp.mx
  BY DEF UndoFrame
<1> HIDE DEF x, y, o, mx
<1>8. /\ mx \in Nat /\ o.mx <= mx /\ mx <= x.hdr.mx
      /\ mx > 0 => Len(x.sp.sum) = mx
      /\ Matches(x.sp.sum, mx, log.cur)
      /\ Shows(SpBase(y.sp), file.cur, x.sp.image)
      /\ Grown(SpBase(y.sp), o.mx, x.sp.image, Committed)
      /\ x.lock = 0 => x.sp.image = Committed
  <2>0. Shows(Eff(o), file.cur, Committed)
    BY <1>3 DEF Common, o
  <2>1. CASE x.sp.nCkpt # x.nCkpt
    <3>1. mx = 0 /\ o.mx = 0 /\ x.sp.image = Committed
      BY <1>1, <1>3, <1>6, <1>7, <2>1 DEF SavedOK
    <3>2. SpBase(y.sp) = <<>> /\ Eff(o) = <<>>
      BY <1>1, <3>1 DEF SpBase, Eff
    <3>3. Grown(SpBase(y.sp), o.mx, Committed, Committed)
      <4>1. (Len(Committed)+1)..Len(Committed) = {}
        BY <1>4
      <4> QED BY <4>1 DEF Grown
    <3>4. Matches(x.sp.sum, mx, log.cur)
      BY <3>1 DEF Matches
    <3> QED BY <1>4, <2>0, <3>1, <3>2, <3>3, <3>4
  <2>2. CASE x.sp.nCkpt = x.nCkpt
    <3>1. mx = x.sp.mx /\ o.mx <= mx
      BY <1>6, <1>7, <2>2
    <3>2. SpBase(y.sp) = SpBase(x.sp)
      BY <1>1, <3>1 DEF SpBase
    <3>3. /\ x.sp.mx <= x.hdr.mx
          /\ x.sp.mx > 0 => Len(x.sp.sum) = x.sp.mx
          /\ Matches(x.sp.sum, x.sp.mx, log.cur)
          /\ Shows(SpBase(x.sp), file.cur, x.sp.image)
          /\ Grown(SpBase(x.sp), o.mx, x.sp.image, Committed)
          /\ x.lock = 0 => x.sp.image = Committed
      BY <1>1, <1>3, <2>2 DEF SavedOK, o
    <3> QED BY <1>5, <3>1, <3>2, <3>3
  <2> QED BY <2>1, <2>2
<1>9. y.hdr.mx = mx /\ y.hdr.n = x.hdr.n
  BY <1>1, <1>4, <1>8
<1>10. x.lock = 0 => y.hdr = x.hdr /\ x.hdr = o
  <2>1. x.lock = 0 => x.hdr = o
    BY <1>1, <1>3 DEF PhaseOK, o
  <2> QED BY <1>1, <1>2, <1>8, <2>1
<1>11. x.hdr.mx > 0 => Len(x.hdr.sum) = x.hdr.mx
  BY <1>1, <1>3 DEF LoggedOK
<1>12. ASSUME x.lock # 0, mx > 0
       PROVE  y.hdr.sum = x.sp.sum /\ \A f \in 1..mx : x.sp.sum[f] = x.hdr.sum[f]
  <2>1. x.hdr.mx > 0
    BY <1>4, <1>8, <1>12
  <2>2. Base(x) = x.hdr.sum
    BY <1>1, <1>4, <1>12, <2>1 DEF Base
  <2>3. Matches(x.hdr.sum, x.hdr.mx, log.cur)
    BY <1>3, <1>11, <1>12, <2>1, <2>2 DEF LoggedOK
  <2>4. \A f \in 1..mx : x.hdr.sum[f] = x.sp.sum[f]
    <3>1. mx \in Int /\ x.hdr.mx \in Int /\ mx <= x.hdr.mx /\ Matches(x.sp.sum, mx, log.cur)
      BY <1>4, <1>8
    <3> QED BY <2>3, <3>1, SamePrefix
  <2>5. CASE mx < x.hdr.mx
    BY <1>1, <2>4, <2>5
  <2>6. CASE ~(mx < x.hdr.mx)
    <3>1. mx = x.hdr.mx /\ y.hdr.sum = x.hdr.sum
      BY <1>1, <1>4, <1>8, <2>6
    <3>2. Len(x.hdr.sum) = mx /\ Len(x.sp.sum) = mx
      BY <1>8, <1>11, <1>12, <3>1
    <3>3. x.hdr.sum = x.sp.sum
      BY <1>4, <2>4, <3>2
    <3> QED BY <2>4, <3>1, <3>3
  <2> QED BY <2>5, <2>6
<1>13. x.lock # 0 => Base(y) = SpBase(y.sp)
  BY <1>1, <1>8, <1>9, <1>12 DEF Base, SpBase
<1>14. x.lock = 0 => Base(y) = <<>>
  BY <1>1 DEF Base
<1>15. Tale(y) = Base(y)
  <2>1. SpBase(y.sp) \in Seq(Entries)
    BY <1>1, <1>4 DEF SpBase
  <2>2. Base(y) \in Seq(Entries)
    <3>1. <<>> \in Seq(Entries)
      OBVIOUS
    <3>2. CASE x.lock = 0
      BY <1>14, <3>1, <3>2
    <3>3. CASE x.lock # 0
      BY <1>13, <2>1, <3>3
    <3> QED BY <3>2, <3>3
  <2>3. y.w.todo = <<>>
    BY <1>1, <1>3 DEF PhaseOK
  <2> QED BY <2>2, <2>3, NoTodo
<1>16. \A f \in 1..mx : shm'.pgno[f] = shm.pgno[f]
  <2> SUFFICES ASSUME NEW f \in 1..mx PROVE shm'.pgno[f] = shm.pgno[f]
    OBVIOUS
  <2>1. f \in 1..MaxFrame /\ f <= mx
    BY <1>4, <1>5, <1>8
  <2> QED BY <1>1, <1>8, <2>1, CleanupKept
<1>17. Kept(shm, log.cur, shm', log'.cur, o.mx)
  <2>1. \A f \in 1..o.mx : f \in 1..mx
    BY <1>2, <1>8
  <2> QED BY <1>1, <1>16, <2>1 DEF Kept
<1>18. InTxn(y) /\ y.pc # "lockMark"
  BY <1>1 DEF InTxn, Writes
<1>19. PhaseOK(y, shm', file.cur, Committed)
  BY <1>1, <1>3, <1>8, <1>9, <1>10 DEF PhaseOK, Logging, Restarting, o
<1>20. LoggedOK(y, shm', log.cur)
  <2>1. ASSUME y.hdr.mx > 0 PROVE Len(y.hdr.sum) = y.hdr.mx
    <3>1. CASE x.lock = 0
      BY <1>10, <1>11, <2>1, <3>1
    <3>2. CASE x.lock # 0
      BY <1>8, <1>9, <1>12, <2>1, <3>2
    <3> QED BY <3>1, <3>2
  <2>2. ASSUME x.lock # 0
        PROVE  Matches(Base(y), Len(Base(y)), log.cur) /\ Indexed(y.hdr.sum, y.hdr.mx, shm'.pgno)
    <3>1. CASE mx = 0
      <4>1. Base(y) = <<>> /\ Len(Base(y)) = 0
        BY <1>1, <1>9, <2>2, <3>1 DEF Base
      <4> QED BY <1>9, <3>1, <4>1 DEF Matches, Indexed
    <3>2. CASE mx > 0
      <4>1. Base(y) = x.sp.sum /\ Len(x.sp.sum) = mx /\ y.hdr.sum = x.sp.sum
        BY <1>1, <1>8, <1>9, <1>12, <2>2, <3>2 DEF Base
      <4>2. ASSUME NEW f \in 1..mx PROVE shm'.pgno[f] = x.sp.sum[f].pg
        <5>1. f \in 1..x.hdr.mx
          BY <1>4, <1>8
        <5>2. shm.pgno[f] = x.hdr.sum[f].pg
          BY <1>3, <2>2, <5>1 DEF LoggedOK, Indexed
        <5> QED BY <1>12, <1>16, <2>2, <3>2, <5>2
      <4> QED BY <1>8, <1>9, <4>1, <4>2 DEF Indexed
    <3> QED BY <1>8, <3>1, <3>2
  <2> QED BY <1>1, <2>1, <2>2 DEF LoggedOK
<1>21. TaleOK(y, shm', file.cur, Committed)
  <2>1. y.pc # "commitHdr" /\ ~y.w.commit
    BY <1>1, <1>3 DEF PhaseOK
  <2>2. CASE x.lock = 0
    <3>1. Shows(<<>>, file.cur, Committed)
      BY <1>3, <2>2 DEF PhaseOK
    <3>2. Grown(Tale(y), 0, Committed, Committed)
      <4>1. (Len(Committed)+1)..Len(Committed) = {}
        BY <1>4
      <4> QED BY <4>1 DEF Grown
    <3> QED BY <1>1, <1>8, <1>14, <1>15, <2>1, <2>2, <3>1, <3>2 DEF TaleOK
  <2>3. CASE x.lock # 0
    BY <1>1, <1>8, <1>13, <1>15, <2>1, <2>3 DEF TaleOK, o
  <2> QED BY <2>2, <2>3
<1>22. SavedOK(y, shm', log.cur, file.cur, Committed)
  <2>1. mx <= mx
    BY <1>8
  <2> QED BY <1>1, <1>8, <1>9, <2>1 DEF SavedOK, o
<1>23. SnapOK(y, shm', log.cur, file.cur, Committed) /\ RecoverOK(y, shm', log.cur)
  BY <1>18, <1>19, <1>20, <1>21, <1>22, SnapWriter
<1>24. y.pc \notin {"ckptMark", "ckptLock0", "ckptWrite"} /\ past'.images = past.images
  BY <1>1
<1> QED BY <1>1, <1>2, <1>17, <1>23, <1>24, SnapBehind DEF x, y, o

LEMMA PagesOnto ==
  ASSUME NEW S \in SUBSET (1..MaxPage), NEW pages \in [1..Cardinality(S) -> S],
         \A i, j \in DOMAIN pages : i < j => pages[i] < pages[j]
  PROVE  /\ Cardinality(S) \in Nat /\ (S # {} => Cardinality(S) > 0)
         /\ \A p \in S : \E k \in 1..Cardinality(S) : pages[k] = p
<1> DEFINE m == Cardinality(S)
<1>1. IsFiniteSet(S)
  <2>1. IsFiniteSet(1..MaxPage)
    BY Constants, FS_Interval
  <2> QED BY <2>1, FS_Subset
<1>2. m \in Nat
  BY <1>1, FS_CardinalityType
<1>3. IsFiniteSet(1..m) /\ Cardinality(1..m) = m
  BY <1>2, FS_Interval
<1>4. S # {} => m > 0
  BY <1>1, <1>2, FS_EmptySet
<1>5. \A i \in 1..m : pages[i] \in Nat
  <2>1. S \subseteq Nat
    BY Constants
  <2> QED BY <2>1
<1> HIDE DEF m
<1>6. \A i, j \in 1..m : i # j => pages[i] # pages[j]
  <2> SUFFICES ASSUME NEW i \in 1..m, NEW j \in 1..m, i # j PROVE pages[i] # pages[j]
    OBVIOUS
  <2>1. i < j \/ j < i
    BY <1>2
  <2>2. DOMAIN pages = 1..m
    BY DEF m
  <2>3. pages[i] < pages[j] \/ pages[j] < pages[i]
    BY <2>1, <2>2
  <2> QED BY <1>5, <2>3
<1>7. pages \in Injection(1..m, S)
  BY <1>6 DEF Injection, IsInjective, m
<1>8. pages \in Surjection(1..m, S)
  BY <1>1, <1>3, <1>7, FS_Injection DEF m
<1>9. \A p \in S : \E k \in 1..m : pages[k] = p
  BY <1>8 DEF Surjection
<1> QED BY <1>2, <1>4, <1>9 DEF m

Covers(T, S, v) == /\ \A f \in 1..Len(T) : T[f].pg \in S /\ T[f].ver = v
                   /\ \A p \in S : \E f \in 1..Len(T) : T[f].pg = p

Extends(new, S, old) == \A p \in 1..new : p \in S \/ p <= Len(old)

LEMMA ShowsChanged ==
  ASSUME NEW B \in Seq(Entries), NEW T \in Seq(Entries), NEW db, NEW img \in Images,
         NEW old \in Images, NEW S, NEW v \in Nat, NEW new \in Nat, NEW k \in Nat, k <= Len(B),
         Shows(B, db, old), Grown(B, k, old, img),
         Extends(new, S, old), Covers(T, S, v)
  PROVE  /\ Shows(B \o T, db, Changed(old, S, v, new))
         /\ Grown(B \o T, k, Changed(old, S, v, new), img)
<1> DEFINE C == Changed(old, S, v, new)
           U == B \o T
<1>0. /\ \A p \in 1..new : p \in S \/ p <= Len(old)
      /\ \A f \in 1..Len(T) : T[f].pg \in S /\ T[f].ver = v
      /\ \A p \in S : \E f \in 1..Len(T) : T[f].pg = p
  BY DEF Extends, Covers
<1>1. Len(C) = new /\ \A p \in 1..new : C[p] = IF p \in S THEN v ELSE PageAt(old, p)
  BY ChangedOK DEF Changed
<1>2. /\ U \in Seq(Entries) /\ Len(U) = Len(B) + Len(T) /\ Len(B) \in Nat /\ Len(T) \in Nat
      /\ \A f \in 1..Len(B) : U[f] = B[f]
      /\ \A f \in 1..Len(T) : U[Len(B) + f] = T[f]
  BY ConcatAt
<1>3. Len(old) \in Nat /\ Len(img) \in Nat
  BY DEF Images
<1>4. \A p : Absent(T, p) => p \notin S
  BY <1>0 DEF Absent
<1>5. ASSUME NEW p \in 1..new, p \notin S PROVE p \in 1..Len(old) /\ C[p] = old[p]
  <2>1. p \in 1..Len(old) /\ p <= Len(old)
    BY <1>0, <1>3, <1>5
  <2> QED BY <1>1, <1>5, <2>1 DEF PageAt
<1>6. ASSUME NEW p, NEW f \in 1..Len(U), Newest(U, f, p)
      PROVE  \/ f \in 1..Len(B) /\ Newest(B, f, p) /\ Absent(T, p) /\ U[f] = B[f]
             \/ /\ f - Len(B) \in 1..Len(T) /\ Newest(T, f - Len(B), p)
                /\ U[f] = T[f - Len(B)]
  <2> SUFFICES ASSUME ~(/\ f - Len(B) \in 1..Len(T) /\ Newest(T, f - Len(B), p)
                        /\ U[f] = T[f - Len(B)])
               PROVE  f \in 1..Len(B) /\ Newest(B, f, p) /\ Absent(T, p) /\ U[f] = B[f]
    OBVIOUS
  <2> QED BY ONLY B \in Seq(Entries), T \in Seq(Entries), <1>6, NewestConcat,
                  ~(/\ f - Len(B) \in 1..Len(T) /\ Newest(T, f - Len(B), p)
                    /\ U[f] = T[f - Len(B)])
<1>7. \A p : Absent(U, p) => Absent(B, p) /\ Absent(T, p)
  BY AbsentConcat
<1> HIDE DEF C, U
<1>8. Shows(U, db, C)
  <2> SUFFICES ASSUME NEW p \in 1..new
               PROVE  /\ \A f \in 1..Len(U) : Newest(U, f, p) => C[p] = U[f].ver
                      /\ Absent(U, p) => C[p] = PageAt(db, p)
    BY <1>1 DEF Shows
  <2>1. ASSUME NEW f \in 1..Len(U), Newest(U, f, p) PROVE C[p] = U[f].ver
    <3>1. CASE f \in 1..Len(B) /\ Newest(B, f, p) /\ Absent(T, p) /\ U[f] = B[f]
      <4>1. p \in 1..Len(old) /\ C[p] = old[p]
        BY <1>4, <1>5, <3>1
      <4>2. old[p] = B[f].ver
        BY <3>1, <4>1 DEF Shows
      <4> QED BY <3>1, <4>1, <4>2
    <3>2. CASE f - Len(B) \in 1..Len(T) /\ Newest(T, f - Len(B), p) /\ U[f] = T[f - Len(B)]
      <4>1. T[f - Len(B)].pg = p
        BY <3>2 DEF Newest
      <4>2. p \in S /\ T[f - Len(B)].ver = v
        BY <1>0, <3>2, <4>1
      <4> QED BY <1>1, <3>2, <4>2
    <3> QED BY <1>6, <2>1, <3>1, <3>2
  <2>2. ASSUME Absent(U, p) PROVE C[p] = PageAt(db, p)
    <3>1. p \in 1..Len(old) /\ C[p] = old[p]
      BY <1>4, <1>5, <1>7, <2>2
    <3> QED BY <1>7, <2>2, <3>1 DEF Shows
  <2> QED BY <2>1, <2>2
<1>9. Grown(U, k, C, img)
  <2> SUFFICES ASSUME NEW p \in (Len(img)+1)..new PROVE \E f \in (k+1)..Len(U) : U[f].pg = p
    BY <1>1 DEF Grown
  <2>1. CASE p \in S
    <3>1. PICK f \in 1..Len(T) : T[f].pg = p
      BY <1>0, <2>1
    <3>2. Len(B) + f \in (k+1)..Len(U)
      BY <1>2
    <3> QED BY <1>2, <3>1, <3>2
  <2>2. CASE p \notin S
    <3>1. p \in 1..new
      BY <1>3
    <3>2. p \in (Len(img)+1)..Len(old)
      BY <1>3, <1>5, <2>2, <3>1
    <3>3. PICK f \in (k+1)..Len(B) : B[f].pg = p
      BY <3>2 DEF Grown
    <3>4. f \in 1..Len(B) /\ f \in (k+1)..Len(U)
      BY <1>2
    <3> QED BY <1>2, <3>3, <3>4
  <2> QED BY <2>1, <2>2
<1> QED BY <1>8, <1>9 DEF C, U

InOrder(T, S, v, n) ==
  \E pages \in [1..Cardinality(S) -> S] :
    /\ \A i, j \in DOMAIN pages : i < j => pages[i] < pages[j]
    /\ T = Todo(S, pages, v, n)

LEMMA TodoFacts ==
  ASSUME NEW S \in SUBSET (1..MaxPage), S # {}, NEW v, NEW n, NEW T \in Seq(Entries),
         InOrder(T, S, v, n)
  PROVE  T # <<>> /\ Last(T).n = n /\ Covers(T, S, v)
<1> DEFINE m == Cardinality(S)
<1>1. PICK pages \in [1..m -> S] :
           /\ \A i, j \in DOMAIN pages : i < j => pages[i] < pages[j]
           /\ T = Todo(S, pages, v, n)
  BY DEF InOrder
<1>2. m \in Nat /\ m > 0 /\ \A p \in S : \E k \in 1..m : pages[k] = p
  BY <1>1, PagesOnto
<1>3. DOMAIN T = 1..m /\ \A k \in 1..m : T[k] = Entry(pages[k], v, IF k = m THEN n ELSE 0)
  BY <1>1 DEF Todo
<1> HIDE DEF m
<1>4. Len(T) = m
  BY <1>2, <1>3
<1>5. \A k \in 1..m : T[k].pg = pages[k] /\ T[k].ver = v /\ T[k].pg \in S
  BY <1>3 DEF Entry
<1>6. T # <<>> /\ Last(T) = T[m] /\ m \in 1..m
  BY <1>2, <1>4 DEF Last
<1>7. Last(T).n = n
  BY <1>3, <1>6 DEF Entry
<1> QED BY <1>2, <1>4, <1>5, <1>6, <1>7 DEF Covers

LEMMA FramesSnap ==
  ASSUME OneWriter, TypeInv, BackInv, DataInv, HeadInv, SnapInv, NEW c \in Conn,
         NEW S \in SUBSET (1..MaxPage), S # {}, NEW n \in 0..MaxPage, NEW commit \in BOOLEAN,
         commit => n # 0, FramesFacts(c, S, n, commit)
  PROVE  SnapInv'
<1> DEFINE x == con[c]
           y == con'[c]
           o == shm.h0
           T == y.w.todo
           v == past.ver + 1
           size == Len(x.image)
           new == NewSize(x.image, S, n, commit)
<1>1. /\ Only(c) /\ UNCHANGED <<shm, log, file>> /\ past' = [past EXCEPT !.ver = v]
      /\ x.pc = "read" /\ x.excl = {WRITE}
      /\ IF commit THEN S \subseteq 1..n /\ (size+1)..n \subseteq S
         ELSE S \subseteq 1..(size + 1)
      /\ y.pc = IF x.lock = 0 THEN "restart" ELSE "frames"
      /\ y.image = Changed(x.image, S, v, new)
      /\ y.w.commit <=> commit
      /\ T \in Seq(Entries)
      /\ y.hdr = x.hdr /\ y.excl = x.excl /\ y.nCkpt = x.nCkpt
      /\ y.cache = x.cache /\ y.lock = x.lock /\ y.sp = x.sp
  BY DEF FramesFacts
<1>2. T # <<>> /\ Last(T).n = n /\ Covers(T, S, v)
  <2>1. InOrder(T, S, v, n)
    BY DEF FramesFacts, InOrder
  <2> HIDE DEF T, v
  <2> QED BY <1>1, <2>1, TodoFacts
<1>3. /\ o.init /\ InTxn(x) /\ Writes(x) /\ o.mx \in Nat /\ o.mx <= x.hdr.mx
  <2>1. o.init /\ InTxn(x) /\ Writes(x) /\ o.mx \in Nat
    BY <1>1, AtHead, AtConn DEF InTxn, Writes, HdrOK
  <2> QED BY <2>1, WriteFacts
<1>4. /\ PhaseOK(x, shm, file.cur, Committed) /\ LoggedOK(x, shm, log.cur)
      /\ TaleOK(x, shm, file.cur, Committed)
      /\ SavedOK(x, shm, log.cur, file.cur, Committed)
  BY <1>3, WriterAt
<1>5. /\ x.hdr.sum \in Seq(Entries) /\ x.hdr.mx \in Nat /\ x.lock \in Int /\ Committed \in Images
      /\ x.image \in Images /\ size \in Nat
  BY WriterTypes DEF Images
<1>6. new \in Nat /\ v \in Nat /\ MaxPage \in Nat
  <2>1. new \in Nat
    BY <1>5, NewSizeOK
  <2> QED BY <2>1, Constants DEF TypeInv, PastInv
<1>7. (commit => new = n) /\ (~commit => new = Max(S \cup {size}))
  BY DEF NewSize
<1>8. past'.images = past.images
  BY <1>1 DEF TypeInv, PastInv
<1> HIDE DEF x, y, o, T, v, new, size
<1>9. \A p \in 1..new : p \in S \/ p <= size
  <2> SUFFICES ASSUME NEW p \in 1..new, p \notin S PROVE p <= size
    OBVIOUS
  <2>1. CASE commit
    <3>1. p \notin (size+1)..n
      BY <1>1, <2>1
    <3> QED BY <1>5, <1>6, <1>7, <2>1, <3>1
  <2>2. CASE ~commit
    <3>1. PICK q \in S \cup {size} : q = new
      <4>1. S \cup {size} \subseteq 0..(size+1) /\ S \cup {size} # {} /\ size + 1 \in Nat
        BY <1>1, <1>5, <2>2
      <4>2. Max(S \cup {size}) \in S \cup {size}
        BY <4>1, MaxOf
      <4> QED BY <1>7, <2>2, <4>2
    <3>2. q \in S => q <= size + 1 /\ q \in Nat
      BY <1>1, <1>5, <2>2
    <3>3. CASE q = size
      BY <1>5, <3>1, <3>3
    <3>4. CASE q \in S
      <4>1. p # q
        BY <3>4
      <4> QED BY <1>5, <3>1, <3>2, <3>4, <4>1
    <3> QED BY <3>3, <3>4
  <2> QED BY <2>1, <2>2
<1>10. InTxn(y) /\ y.pc # "lockMark" /\ y.pc # "commitHdr"
  BY <1>1 DEF InTxn, Writes, Logging, Restarting
<1>11. PhaseOK(y, shm, file.cur, Committed)
  <2>1. x.lock >= 0 /\ x.lock \in Int /\ (x.lock # 0 => x.lock > 0)
    BY <1>1, <1>4, <1>5 DEF PhaseOK
  <2>2. x.lock = 0 => x.hdr = o
    BY <1>1, <1>4 DEF PhaseOK, o
  <2> QED BY <1>1, <1>4, <2>1, <2>2 DEF PhaseOK, Logging, Restarting, o
<1>12. Base(y) = Base(x) /\ Base(x) \in Seq(Entries)
  <2>1. Base(y) = Base(x)
    BY <1>1 DEF Base
  <2>2. <<>> \in Seq(Entries)
    OBVIOUS
  <2> QED BY <1>5, <2>1, <2>2 DEF Base
<1>13. LoggedOK(y, shm, log.cur)
  BY <1>1, <1>4, <1>12 DEF LoggedOK
<1> DEFINE B == Base(x)
           k == IF x.lock = 0 THEN 0 ELSE o.mx
<1>14. Shows(B, file.cur, x.image) /\ Grown(B, k, x.image, Committed)
  <2>1. Tale(x) = B
    <3>1. x.w.todo = <<>>
      BY <1>1, <1>4 DEF PhaseOK
    <3> QED BY <1>12, <3>1, NoTodo
  <2> QED BY <1>4, <2>1 DEF TaleOK, o
<1>15. k \in Nat /\ k <= Len(B)
  <2>1. CASE x.lock = 0
    BY <2>1 DEF Base
  <2>2. CASE x.lock # 0 /\ x.hdr.mx = 0
    BY <1>3, <1>5, <2>2 DEF Base
  <2>3. CASE x.lock # 0 /\ x.hdr.mx # 0
    <3>1. B = x.hdr.sum /\ Len(x.hdr.sum) = x.hdr.mx
      BY <1>1, <1>4, <1>5, <2>3 DEF Base, LoggedOK
    <3> QED BY <1>3, <2>3, <3>1
  <2> QED BY <2>1, <2>2, <2>3
<1> HIDE DEF B, k
<1>16. Tale(y) = B \o T
  BY <1>12 DEF Tale, T, B
<1>17. Shows(Tale(y), file.cur, y.image) /\ Grown(Tale(y), k, y.image, Committed)
  <2>1. B \in Seq(Entries)
    BY <1>12 DEF B
  <2>2. Extends(new, S, x.image)
    BY <1>9 DEF size, Extends
  <2>3. /\ Shows(B \o T, file.cur, Changed(x.image, S, v, new))
        /\ Grown(B \o T, k, Changed(x.image, S, v, new), Committed)
    BY <1>1, <1>2, <1>5, <1>6, <1>14, <1>15, <2>1, <2>2, ShowsChanged
  <2> QED BY <1>1, <1>16, <2>3
<1>18. y.w.commit => Tale(y) # <<>> /\ Last(Tale(y)).n = Len(y.image) /\ Len(y.image) > 0
  <2>1. Len(y.image) = new
    BY <1>1, <1>5, <1>6, ChangedOK
  <2>2. Tale(y) # <<>> /\ Last(Tale(y)) = Last(T)
    BY <1>1, <1>2, <1>12, <1>16, LastConcat DEF B
  <2>3. commit => new = n /\ n > 0
    BY <1>6, <1>7
  <2> QED BY <1>1, <1>2, <2>1, <2>2, <2>3
<1>19. TaleOK(y, shm, file.cur, Committed)
  BY <1>1, <1>10, <1>17, <1>18 DEF TaleOK, k, o
<1>20. SavedOK(y, shm, log.cur, file.cur, Committed)
  BY <1>1, <1>4, SavedSame
<1>21. SnapOK(y, shm, log.cur, file.cur, Committed) /\ RecoverOK(y, shm, log.cur)
  BY <1>10, <1>11, <1>13, <1>19, <1>20, SnapWriter
<1>22. \A d \in Conn \ {c} : PairOK(y, con[d]) /\ PairOK(con[d], y)
  BY <1>10, PairWriter
<1> QED BY <1>1, <1>8, <1>21, <1>22, SnapLocal DEF y

LEMMA RecoverSnap ==
  ASSUME TypeInv, DataInv, HeadInv, SnapInv, NEW c \in Conn, Recover(c)
  PROVE  SnapInv'
<1> DEFINE x == con[c]
           y == con'[c]
           l == log.cur
           h == RecoveredHdr(l)
<1>1. /\ Only(c) /\ UNCHANGED <<log, file, past>> /\ x.pc = "recover" /\ x.excl = AllLocks
      /\ y.pc = "recoverHdr" /\ y.hdr = h
      /\ shm'.h0 = shm.h0
      /\ shm'.pgno = IF ValidFrames(l) = 0 THEN shm.pgno
                     ELSE [f \in 1..MaxFrame |->
                             IF f <= ValidFrames(l) THEN Last(l.frames[f].sum).pg ELSE 0]
  BY RecoverEffect
<1>2. ~shm.h0.init
  BY <1>1, AtHead DEF HeadOK
<1>3. /\ l \in Logs /\ ValidFrames(l) \in 0..MaxFrame /\ MaxFrame \in Nat /\ h.mx \in 0..ValidFrames(l)
  <2>1. l \in Logs
    BY DEF TypeInv, LogInv
  <2>2. ValidFrames(l) \in 0..Len(l.frames) /\ Len(l.frames) <= MaxFrame /\ Len(l.frames) \in Nat
    BY <2>1, ValidFramesOK DEF Logs
  <2>3. h.mx \in 0..ValidFrames(l)
    BY <2>1, RecoveredFields
  <2> HIDE DEF l, h
  <2> QED BY <2>1, <2>2, <2>3, Constants
<1> HIDE DEF x, l, h
<1>4. \A f \in 1..h.mx : shm'.pgno[f] = Last(l.frames[f].sum).pg
  <2> SUFFICES ASSUME NEW f \in 1..h.mx PROVE shm'.pgno[f] = Last(l.frames[f].sum).pg
    OBVIOUS
  <2>1. ValidFrames(l) # 0 /\ f \in 1..MaxFrame /\ f <= ValidFrames(l)
    BY <1>3
  <2> QED BY <1>1, <2>1
<1>5. RecoverOK(y, shm', log'.cur)
  BY <1>1, <1>4 DEF RecoverOK, l, h
<1>6. \A z : SnapOK(z, shm', log'.cur, file'.cur, Committed')
  BY <1>1, <1>2 DEF SnapOK
<1>7. WRITE \in x.excl
  BY <1>1, Constants DEF AllLocks, WRITE
<1>8. ASSUME NEW d \in Conn \ {c}
      PROVE  RecoverOK(con[d], shm', log'.cur) /\ PairOK(y, con[d]) /\ PairOK(con[d], y)
  <2>1. con[d].pc \notin Recovering
    BY <1>7, OneTxn DEF x
  <2>2. PairOK(y, con[d]) /\ PairOK(con[d], y)
    BY <1>1, PairAside DEF Aside
  <2> QED BY <2>1, <2>2 DEF RecoverOK, Recovering
<1> QED BY <1>1, <1>2, <1>5, <1>6, <1>8, SnapStep

LEMMA FrameChain ==
  ASSUME NEW l \in Logs, NEW k \in 1..ValidFrames(l), NEW f \in 1..k
  PROVE  l.frames[k].sum[f] = Last(l.frames[f].sum)
<1> DEFINE v == ValidFrames(l)
           F(i) == l.frames[i].sum
           D == {i \in 1..v : \E g \in 1..i : F(i)[g] # Last(F(g))}
<1>1. v \in Nat /\ \A i \in 1..v : ValidFrame(l, i)
  BY ValidFramesOK DEF Logs
<1>2. \A i \in 1..v : F(i) \in Seq(Entries) /\ Len(F(i)) = i /\ Last(F(i)) = F(i)[i]
  BY FrameEntry DEF Sums
<1>3. \A i \in 1..v : i > 1 => Front(F(i)) = F(i - 1)
  BY <1>1 DEF ValidFrame
<1>4. \A i \in 1..v : i \notin D => \A g \in 1..i : F(i)[g] = Last(F(g))
  OBVIOUS
<1>5. \A i \in D : i \in 1..v /\ \E g \in 1..i : F(i)[g] # Last(F(g))
  OBVIOUS
<1> HIDE DEF F, D, v
<1>6. SUFFICES ASSUME D # {} PROVE FALSE
  <2>1. k \in 1..v /\ k \notin D
    BY <1>6 DEF v
  <2> QED BY <1>4, <2>1 DEF F
<1>7. PICK i \in D : \A j \in D : i <= j
  <2>1. D \subseteq Nat
    BY <1>1, <1>5
  <2> QED BY <1>6, <2>1, HasMin
<1>8. PICK g \in 1..i : F(i)[g] # Last(F(g))
  BY <1>5, <1>7
<1>9. i \in 1..v /\ i \in Nat /\ g \in Nat /\ 1 <= g /\ g <= i
  BY <1>1, <1>5, <1>7, <1>8
<1>10. g # i
  BY <1>2, <1>8, <1>9
<1>11. i > 1 /\ i - 1 \in 1..v /\ g \in 1..(i - 1) /\ ~(i <= i - 1)
  BY <1>1, <1>9, <1>10
<1>12. i - 1 \notin D
  BY <1>7, <1>11
<1>13. F(i - 1)[g] = Last(F(g))
  BY <1>4, <1>11, <1>12
<1>14. Front(F(i))[g] = F(i)[g]
  <2>1. F(i) \in Seq(Entries) /\ Len(F(i)) = i
    BY <1>2, <1>9
  <2>2. Front(F(i)) = SubSeq(F(i), 1, i - 1)
    BY <2>1 DEF Front
  <2>3. SubSeq(F(i), 1, i - 1)[g] = F(i)[g]
    BY <1>9, <1>11, <2>1
  <2> QED BY <2>2, <2>3
<1> QED BY <1>3, <1>8, <1>9, <1>11, <1>13, <1>14

LEMMA RecoveredShows ==
  ASSUME NEW l \in Logs, NEW db \in Images
  PROVE  LET h == RecoveredHdr(l)
             img == RecoveredImage(l, db)
         IN  /\ Sound(h) /\ Matches(h.sum, h.mx, l)
             /\ Len(img) = SizeOf(h, db) /\ Shows(Eff(h), db, img)
<1> DEFINE h == RecoveredHdr(l)
           img == RecoveredImage(l, db)
           fs(p) == {f \in 1..h.mx : Last(l.frames[f].sum).pg = p}
           n == IF h.n > 0 THEN h.n ELSE Len(db)
<1>1. /\ h.mx \in 0..ValidFrames(l) /\ h.mx \in Nat /\ h.n \in Nat /\ HdrOK(h)
      /\ h.mx > 0 => /\ h.sum = l.frames[h.mx].sum /\ Len(h.sum) = h.mx
                     /\ h.n = Last(h.sum).n /\ h.n > 0
  <2>1. h.mx \in 0..ValidFrames(l) /\ HdrOK(h) /\ HdrData(h)
    BY RecoveredFields
  <2>2. h.mx > 0 => /\ h.sum = l.frames[h.mx].sum /\ Len(h.sum) = h.mx
                    /\ h.n = Last(h.sum).n /\ h.n > 0
    BY RecoveredFields
  <2> QED BY <2>1, <2>2 DEF HdrOK, HdrData
<1>2. ValidFrames(l) \in Nat /\ Len(db) \in Nat
  BY ValidFramesOK DEF Logs, Images
<1>3. img = [p \in 1..n |-> IF fs(p) # {} THEN PageIn(l, Max(fs(p))) ELSE PageAt(db, p)]
  BY DEF RecoveredImage
<1>4. n \in Nat
  BY <1>1, <1>2
<1>5. Len(img) = n /\ Len(img) = SizeOf(h, db)
        /\ \A p \in 1..n : img[p] = IF fs(p) # {} THEN PageIn(l, Max(fs(p))) ELSE PageAt(db, p)
  <2> HIDE DEF img, fs
  <2>1. Len(img) = n /\ \A p \in 1..n : img[p] = IF fs(p) # {} THEN PageIn(l, Max(fs(p))) ELSE PageAt(db, p)
    <3> HIDE DEF n
    <3> QED BY <1>3, <1>4
  <2> QED BY <2>1 DEF SizeOf
<1> HIDE DEF h, img, n
<1>6. Sound(h)
  <2> SUFFICES ASSUME h.mx > 0 PROVE h.n = h.sum[h.mx].n
    BY <1>1 DEF Sound
  <2>1. h.sum # <<>> /\ h.sum \in Sums
    BY <1>1 DEF HdrOK
  <2>2. Last(h.sum) = h.sum[Len(h.sum)]
    BY <2>1, SumLast
  <2> QED BY <1>1, <2>2
<1>7. ASSUME NEW f \in 1..h.mx PROVE Last(l.frames[f].sum) = h.sum[f]
  <2>1. h.mx > 0 /\ h.mx \in 1..ValidFrames(l) /\ h.sum = l.frames[h.mx].sum
    BY <1>1, <1>2
  <2> QED BY <2>1, FrameChain
<1>8. Matches(h.sum, h.mx, l)
  BY <1>7 DEF Matches
<1>9. /\ Eff(h) \in Seq(Entries) /\ Len(Eff(h)) = h.mx /\ (h.mx > 0 => Eff(h) = h.sum)
  BY <1>1, <1>6, EffOK
<1>10. \A f \in 1..h.mx : Eff(h)[f] = Last(l.frames[f].sum)
  <2> SUFFICES ASSUME NEW f \in 1..h.mx PROVE Eff(h)[f] = Last(l.frames[f].sum)
    OBVIOUS
  <2>1. h.mx > 0
    BY <1>1
  <2> QED BY <1>7, <1>9, <2>1
<1>11. Shows(Eff(h), db, img)
  <2> SUFFICES ASSUME NEW p \in 1..n
               PROVE  /\ \A f \in 1..h.mx : Newest(Eff(h), f, p) => img[p] = Eff(h)[f].ver
                      /\ Absent(Eff(h), p) => img[p] = PageAt(db, p)
    BY <1>5, <1>9 DEF Shows
  <2>1. ASSUME NEW f \in 1..h.mx, Newest(Eff(h), f, p) PROVE img[p] = Eff(h)[f].ver
    <3>1. Eff(h)[f].pg = p /\ \A g \in (f+1)..h.mx : Eff(h)[g].pg # p
      BY <1>9, <2>1 DEF Newest
    <3>2. f \in fs(p)
      BY <1>10, <3>1
    <3>3. fs(p) \subseteq 0..h.mx /\ fs(p) # {}
      BY <1>1, <3>2
    <3>4. PICK m \in fs(p) : m = Max(fs(p)) /\ \A g \in fs(p) : m >= g
      <4> HIDE DEF fs
      <4> QED BY <1>1, <3>3, MaxOf
    <3>5. m \in 1..h.mx /\ Eff(h)[m].pg = p
      BY <1>10
    <3>6. m >= f
      BY <3>2, <3>4
    <3>7. m \notin (f+1)..h.mx
      BY <3>1, <3>5
    <3>8. m = f
      BY <1>1, <3>5, <3>6, <3>7
    <3>9. img[p] = PageIn(l, f)
      BY <1>5, <3>3, <3>4, <3>8
    <3> QED BY <1>10, <3>9 DEF PageIn
  <2>2. ASSUME Absent(Eff(h), p) PROVE img[p] = PageAt(db, p)
    <3>1. fs(p) = {}
      BY <1>9, <1>10, <2>2 DEF Absent
    <3> QED BY <1>5, <3>1
  <2> QED BY <2>1, <2>2
<1> QED BY <1>5, <1>6, <1>8, <1>11 DEF h, img

LEMMA RecoverHdrSnap ==
  ASSUME TypeInv, BackInv, DataInv, HeadInv, SnapInv, NEW c \in Conn, RecoverHdr(c)
  PROVE  SnapInv'
<1> DEFINE x == con[c]
           y == con'[c]
           l == log.cur
           h == x.hdr
           img == RecoveredImage(l, file.cur)
<1>1. /\ Only(c) /\ UNCHANGED <<log, file>> /\ x.pc = "recoverHdr" /\ x.excl = AllLocks
      /\ y.pc = "recoverInfo" /\ y.cache = x.cache
      /\ shm'.h0 = h /\ shm'.nBackfill = shm.nBackfill
      /\ shm'.mark = shm.mark /\ shm'.pgno = shm.pgno
      /\ past' = Saw(img)
  BY RecoverHdrEffect DEF Moved
<1>2. ~shm.h0.init /\ Blank(x)
  BY <1>1, AtHead DEF HeadOK
<1>3. h = RecoveredHdr(l) /\ \A f \in 1..h.mx : shm.pgno[f] = Last(l.frames[f].sum).pg
  BY <1>1 DEF SnapInv, RecoverOK
<1>4. l \in Logs /\ file.cur \in Images /\ img \in Images
  BY RecoveredImageOK DEF TypeInv, LogInv, DataInv, FileData
<1>5. Committed' = img
  BY <1>1, <1>4, SawOK DEF Committed
<1>6. shm.nBackfill = 0
  BY <1>1 DEF BackInv, BackOK, Recovering
<1>7. WRITE \in x.excl
  BY <1>1, Constants DEF AllLocks, WRITE
<1>8. ASSUME NEW d \in Conn \ {c}
      PROVE  /\ con[d].pc \in Aside /\ con[d].pc \notin {"recoverHdr", "lock0", "lockMark"}
             /\ ~InTxn(con[d]) /\ con[d].cache = NoImage
  <2>1. ~InTxn(con[d]) /\ con[d].pc \notin Recovering
    BY <1>7, OneTxn
  <2>2. Blank(con[d])
    BY <1>2, AtHead DEF HeadOK
  <2> QED BY <2>1, <2>2 DEF Blank, Aside, Recovering
<1>9. Sound(h) /\ Matches(h.sum, h.mx, l) /\ Len(img) = SizeOf(h, file.cur)
      /\ Shows(Eff(h), file.cur, img)
  BY <1>3, <1>4, RecoveredShows
<1> HIDE DEF x, y, l, h, img
<1>10. Common(shm', l, file.cur, img)
  <2>1. Indexed(h.sum, h.mx, shm.pgno)
    BY <1>3, <1>9 DEF Indexed, Matches
  <2>2. Filled(Eff(h), 0, file.cur, img)
    BY DEF Filled
  <2> QED BY <1>1, <1>6, <1>9, <2>1, <2>2 DEF Common, Held
<1>11. SnapOK(y, shm', l, file.cur, img) /\ RecoverOK(y, shm', l) /\ y.pc \in Aside
  <2>1. ~InTxn(y)
    BY <1>1, NotInTxn
  <2>2. OtherOK(y, shm', img)
    BY <1>1, <1>2 DEF OtherOK, Blank
  <2>3. y.pc \in Aside /\ y.pc # "recoverHdr"
    BY <1>1 DEF Aside
  <2> QED BY <2>1, <2>2, <2>3, SnapAside DEF RecoverOK
<1>12. ASSUME NEW d \in Conn \ {c}
       PROVE  /\ SnapOK(con[d], shm', l, file.cur, img) /\ RecoverOK(con[d], shm', l)
              /\ PairOK(y, con[d]) /\ PairOK(con[d], y)
  <2>1. OtherOK(con[d], shm', img)
    BY <1>8 DEF OtherOK
  <2>2. PairOK(y, con[d]) /\ PairOK(con[d], y)
    BY <1>11, PairAside
  <2>3. RecoverOK(con[d], shm', l)
    BY <1>8 DEF RecoverOK
  <2>4. SnapOK(con[d], shm', l, file.cur, img)
    BY <1>8, <2>1, SnapAside
  <2> QED BY <2>2, <2>3, <2>4
<1> QED BY <1>1, <1>5, <1>10, <1>11, <1>12, SnapStep DEF y, l

LEMMA RecoverInfoSnap ==
  ASSUME TypeInv, BackInv, DataInv, HeadInv, SnapInv, NEW c \in Conn, RecoverInfo(c)
  PROVE  SnapInv'
<1> DEFINE x == con[c]
           y == con'[c]
<1>1. /\ Only(c) /\ UNCHANGED <<log, file, past>> /\ x.pc = "recoverInfo" /\ x.excl = AllLocks
      /\ y.pc = (IF x.w.ckpt THEN "ckptTest" ELSE "choose")
      /\ Moved(y, x)
      /\ shm'.h0 = shm.h0 /\ shm'.nBackfill = 0 /\ shm'.pgno = shm.pgno
  BY RecoverInfoEffect
<1>2. shm.nBackfill = 0 /\ shm.h0.init
  BY <1>1, AtHead DEF BackInv, BackOK, Recovering
<1>3. y.lock = 0 - 1 /\ y.cache = x.cache /\ y.hdr = x.hdr /\ y.w = x.w
  BY <1>1, AtConn DEF Moved, Phase, Recovering, Logging, Restarting
<1>4. ASSUME NEW d \in Conn PROVE ~(con'[d].lock > 0)
  <2>1. CASE d = c
    BY <1>3, <2>1
  <2>2. CASE d # c
    <3>1. ReadLocks \subseteq x.excl
      BY <1>1, Constants DEF ReadLocks, AllLocks, READ
    <3> QED BY <1>1, <2>2, <3>1, NoMarkHeld DEF Only
  <2> QED BY <2>1, <2>2
<1>5. OtherOK(x, shm, Committed) /\ ~InTxn(x) /\ ~InTxn(y)
  <2>1. OtherOK(x, shm, Committed)
    BY <1>2, SnapAt
  <2>2. ~InTxn(x) /\ ~InTxn(y)
    BY <1>1, NotInTxn
  <2> QED BY <2>1, <2>2
<1> HIDE DEF x, y
<1>6. OtherOK(y, shm, Committed)
  BY <1>1, <1>3, <1>5 DEF OtherOK
<1>7. y.pc \in Aside \ {"recoverHdr"}
  BY <1>1 DEF Aside
<1>8. SnapOK(y, shm, log.cur, file.cur, Committed) /\ RecoverOK(y, shm, log.cur)
  BY <1>5, <1>6, <1>7, SnapAside DEF RecoverOK
<1>9. \A d \in Conn \ {c} : PairOK(y, con[d]) /\ PairOK(con[d], y)
  BY <1>7, PairAside
<1>10. \A d \in Conn : con'[d].lock > 0 => shm'.mark[con'[d].lock] = shm.mark[con'[d].lock]
  BY <1>4
<1> QED BY <1>1, <1>2, <1>8, <1>9, <1>10, SnapLocal DEF y

LEMMA SnapCopier ==
  ASSUME NEW y, NEW s, NEW l, NEW db, NEW img, y.pc \in {"ckptMark", "ckptLock0", "ckptWrite"},
         CkptOK(y, s, db, img), OtherOK(y, s, img)
  PROVE  SnapOK(y, s, l, db, img) /\ RecoverOK(y, s, l) /\ ~InTxn(y) /\ \A z : PairOK(z, y)
<1>1. ~InTxn(y) /\ ~Reads(y)
  BY NotInTxn DEF Reads
<1>2. ReaderOK(y, s, l, db, img) /\ WriterOK(y, s, l, db, img)
  BY <1>1 DEF ReaderOK, WriterOK
<1> QED BY <1>1, <1>2 DEF SnapOK, RecoverOK, PairOK

LEMMA OtherCopier ==
  ASSUME NEW x, NEW y, NEW s, NEW t, NEW img, ~InTxn(x), y.hdr = x.hdr, y.cache = x.cache,
         y.w.ckpt <=> x.w.ckpt, y.w.changed <=> x.w.changed, y.pc \notin {"lockMark", "lock0"},
         t.h0 = s.h0, OtherOK(x, s, img)
  PROVE  OtherOK(y, t, img)
BY DEF OtherOK

LEMMA IteratorNewest ==
  ASSUME TypeInv, Common(shm, log.cur, file.cur, Committed)
  PROVE  /\ Newests(Eff(shm.h0), Iterator(shm.h0.mx))
         /\ \A p \in 1..MaxPage, f \in 1..shm.h0.mx :
              Newest(Eff(shm.h0), f, p) => Iterator(shm.h0.mx)[f] = p
<1> DEFINE e == Eff(shm.h0)
           mx == shm.h0.mx
           it == Iterator(mx)
           pg == shm.pgno
<1>1. /\ e \in Seq(Entries) /\ Len(e) = mx /\ mx \in Nat /\ (mx > 0 => e = shm.h0.sum)
  BY HeadEff
<1>2. mx <= MaxFrame /\ MaxFrame \in Nat
  BY Constants, HdrNumbers DEF TypeInv, ShmInv
<1>3. \A f \in 1..MaxFrame : it[f] =
        IF f <= mx /\ \A g \in (f+1)..mx : pg[g] # pg[f] THEN pg[f] ELSE 0
  BY DEF Iterator
<1>4. Indexed(shm.h0.sum, mx, pg)
  BY DEF Common, Held
<1> HIDE DEF e, mx, it, pg
<1>5. \A f \in 1..mx : pg[f] = e[f].pg
  <2> SUFFICES ASSUME NEW f \in 1..mx PROVE pg[f] = e[f].pg
    OBVIOUS
  <2>1. mx > 0
    BY <1>1
  <2> QED BY <1>1, <1>4, <2>1 DEF Indexed
<1>6. ASSUME NEW f \in 1..MaxFrame, it[f] > 0 PROVE Newest(e, f, it[f])
  <2>1. f <= mx /\ (\A g \in (f+1)..mx : pg[g] # pg[f]) /\ it[f] = pg[f]
    BY <1>3, <1>6
  <2>2. f \in 1..mx /\ f \in Nat
    BY <1>1, <1>2, <2>1
  <2>3. \A g \in (f+1)..mx : g \in 1..mx
    BY <1>1, <2>2
  <2>4. \A g \in (f+1)..mx : e[g].pg # it[f]
    BY <1>5, <2>1, <2>3
  <2> QED BY <1>1, <1>5, <2>1, <2>2, <2>4 DEF Newest
<1>7. ASSUME NEW p, NEW f \in 1..mx, Newest(e, f, p) PROVE it[f] = p
  <2>1. e[f].pg = p /\ \A g \in (f+1)..mx : e[g].pg # p
    BY <1>1, <1>7 DEF Newest
  <2>2. f \in 1..MaxFrame /\ f <= mx /\ \A g \in (f+1)..mx : g \in 1..mx
    BY <1>1, <1>2
  <2>3. pg[f] = p /\ \A g \in (f+1)..mx : pg[g] # pg[f]
    BY <1>5, <2>1, <2>2
  <2> QED BY <1>3, <2>2, <2>3
<1> QED BY <1>6, <1>7 DEF Newests, e, mx, it

LEMMA CkptTestSnap ==
  ASSUME TypeInv, BackInv, HeadInv, SnapInv, NEW c \in Conn, CkptTest(c)
  PROVE  SnapInv'
<1> DEFINE x == con[c]
           y == con'[c]
<1>1. /\ Only(c) /\ UNCHANGED <<shm, log, file, past>> /\ x.pc = "ckptTest"
      /\ \/ y.pc = "ckptEnd" /\ Moved(y, x)
         \/ /\ y.pc = "ckptMark" /\ y.w.iter = Iterator(x.hdr.mx) /\ y.w.mxI = 1
            /\ \A f \in WorkFields \ {"iter", "safe", "mxI"} : y.w[f] = x.w[f]
            /\ y.hdr = x.hdr /\ y.cache = x.cache
  BY CkptTestEffect
<1>2. shm.h0.init /\ x.hdr = shm.h0
  BY <1>1, InCopy DEF Copying, HdrsAgree
<1>3. /\ OtherOK(x, shm, Committed) /\ Common(shm, log.cur, file.cur, Committed)
  BY <1>2, SnapAt
<1>4. ~InTxn(x)
  BY <1>1, NotInTxn
<1>5. CASE y.pc = "ckptEnd" /\ Moved(y, x)
  <2>1. ~InTxn(y)
    BY <1>5, NotInTxn
  <2>2. y.pc \in Aside \ {"recoverHdr", "lock0", "lockMark"}
    BY <1>5 DEF Aside
  <2>3. y.hdr = x.hdr /\ y.cache = x.cache /\ (x.w.ckpt /\ x.w.changed => y.w.ckpt /\ y.w.changed)
    BY <1>5 DEF Moved
  <2> QED BY <1>1, <1>4, <2>1, <2>2, <2>3, MovedAside
<1>6. CASE /\ y.pc = "ckptMark" /\ y.w.iter = Iterator(x.hdr.mx) /\ y.w.mxI = 1
           /\ \A f \in WorkFields \ {"iter", "safe", "mxI"} : y.w[f] = x.w[f]
           /\ y.hdr = x.hdr /\ y.cache = x.cache
  <2>1. (y.w.ckpt <=> x.w.ckpt) /\ (y.w.changed <=> x.w.changed)
    BY <1>6 DEF WorkFields
  <2>2. /\ Newests(Eff(shm.h0), Iterator(shm.h0.mx))
        /\ \A p \in 1..MaxPage, f \in 1..shm.h0.mx :
             Newest(Eff(shm.h0), f, p) => Iterator(shm.h0.mx)[f] = p
    BY <1>3, IteratorNewest
  <2>3. \A d \in Conn : con[d].lock \in Int
    BY AtConn, Constants DEF ConnType
  <2> HIDE DEF x, y
  <2>4. CkptOK(y, shm, file.cur, Committed)
    BY <1>2, <1>6, <2>2 DEF CkptOK
  <2>5. OtherOK(y, shm, Committed)
    <3>1. y.pc \notin {"lockMark", "lock0"}
      BY <1>6
    <3> QED BY <1>3, <1>4, <1>6, <2>1, <3>1, OtherCopier
  <2>6. SnapOK(y, shm, log.cur, file.cur, Committed) /\ RecoverOK(y, shm, log.cur)
        /\ \A z : PairOK(z, y)
    BY <1>6, <2>4, <2>5, SnapCopier
  <2>7. ASSUME NEW d \in Conn \ {c} PROVE PairOK(y, con[d])
    <3>1. ~(con[d].lock > 0 /\ con[d].lock < 1)
      BY <2>3
    <3> QED BY <1>6, <3>1 DEF PairOK
  <2> QED BY <1>1, <2>6, <2>7, SnapLocal DEF y
<1> QED BY <1>1, <1>5, <1>6

LEMMA CkptMarkSnap ==
  ASSUME TypeInv, BackInv, HeadInv, SnapInv, NEW c \in Conn, CkptMark(c)
  PROVE  SnapInv'
<1> DEFINE x == con[c]
           y == con'[c]
           i == x.w.mxI
           busy == ~ExclFree(c, {READ(i)})
<1>1. /\ Only(c) /\ UNCHANGED <<log, file, past>> /\ x.pc = "ckptMark" /\ i \in Marks
      /\ shm'.h0 = shm.h0 /\ shm'.nBackfill = shm.nBackfill
      /\ shm'.pgno = shm.pgno
      /\ shm'.mark = IF x.w.safe > shm.mark[i] /\ ~busy
                     THEN [shm.mark EXCEPT ![i] = IF i = 1 THEN x.w.safe ELSE NotUsed]
                     ELSE shm.mark
      /\ y.pc = IF i + 1 \in Marks THEN "ckptMark" ELSE "ckptLock0"
      /\ y.w.mxI = IF i + 1 \in Marks THEN i + 1 ELSE 0
      /\ y.w.safe = SafeFrame(x.w.safe, shm.mark[i], busy)
      /\ \A f \in WorkFields \ {"safe", "mxI"} : y.w[f] = x.w[f]
      /\ y.hdr = x.hdr /\ y.lock = x.lock /\ y.cache = x.cache
  BY CkptMarkEffect
<1>2. shm.h0.init /\ x.hdr = shm.h0
  BY <1>1, InCopy DEF Copying, HdrsAgree
<1>3. OtherOK(x, shm, Committed) /\ CkptOK(x, shm, file.cur, Committed)
  BY <1>2, SnapAt
<1>4. ~InTxn(x)
  BY <1>1, NotInTxn
<1>5. /\ (y.w.ckpt <=> x.w.ckpt) /\ (y.w.changed <=> x.w.changed) /\ y.w.iter = x.w.iter
  BY <1>1 DEF WorkFields
<1>6. x.lock = 0 - 1
  BY <1>1, InCkpt DEF Checkpointing
<1>7. Marks = 1..(NReader - 1) /\ NReader \in Nat
  BY Constants
<1>8. x.w.safe \in Int /\ shm.mark \in [Marks -> 0..NotUsed] /\ shm.mark[i] \in Int
  BY <1>1, AtConn, Constants DEF ConnType, WorkOK, TypeInv, ShmInv
<1>9. ASSUME NEW d \in Conn \ {c}, con[d].lock > 0
      PROVE  /\ con[d].lock \in Marks
             /\ shm'.mark[con[d].lock] = shm.mark[con[d].lock]
             /\ con[d].lock = i => busy
  <2>1. con[d].lock \in Marks
    BY <1>7, <1>9, AtConn DEF ConnType
  <2>2. con[d].lock = i => busy
    BY <1>7, <2>1 DEF ExclFree
  <2> HIDE DEF busy, i, x, y
  <2>3. shm'.mark[con[d].lock] = shm.mark[con[d].lock]
    BY <1>1, <1>8, <2>1, <2>2
  <2> QED BY <2>1, <2>2, <2>3
<1>10. ASSUME NEW d \in Conn \ {c}, Reads(con[d]), con[d].lock > 0
       PROVE  /\ con[d].lock < i => x.w.safe <= con[d].hdr.mx
              /\ shm.mark[con[d].lock] <= con[d].hdr.mx
              /\ con[d].hdr.mx \in Int
  <2>1. PairOK(x, con[d])
    BY DEF SnapInv
  <2>2. ReaderOK(con[d], shm, log.cur, file.cur, Committed)
    BY <1>2, SnapAt
  <2>3. con[d].hdr.mx \in Int
    BY AtConn DEF ConnType, HdrOK
  <2> QED BY <1>1, <1>10, <2>1, <2>2, <2>3 DEF PairOK, ReaderOK
<1> HIDE DEF x, y, i, busy
<1>11. /\ y.w.safe \in Int /\ y.w.safe <= x.w.safe
       /\ busy => y.w.safe <= shm.mark[i]
  BY <1>1, <1>8 DEF SafeFrame
<1>12. y.pc \in {"ckptMark", "ckptLock0"}
  BY <1>1
<1>13. CkptOK(y, shm, file.cur, Committed)
  BY <1>1, <1>3, <1>5, <1>12 DEF CkptOK
<1>14. OtherOK(y, shm, Committed)
  <2>1. y.pc \notin {"lockMark", "lock0"}
    BY <1>12
  <2> QED BY <1>1, <1>3, <1>4, <1>5, <2>1, OtherCopier
<1>15. SnapOK(y, shm, log.cur, file.cur, Committed) /\ RecoverOK(y, shm, log.cur)
        /\ \A z : PairOK(z, y)
  BY <1>12, <1>13, <1>14, SnapCopier
<1>16. ASSUME NEW d \in Conn \ {c} PROVE PairOK(y, con[d])
  <2> SUFFICES ASSUME Reads(con[d]), con[d].lock > 0,
                      y.pc = "ckptMark" => con[d].lock < y.w.mxI
               PROVE  y.w.safe <= con[d].hdr.mx
    BY <1>12 DEF PairOK
  <2>1. con[d].lock \in Marks /\ i \in Marks
    BY <1>1, <1>9
  <2>2. con[d].lock < i \/ con[d].lock = i
    <3>1. CASE i + 1 \in Marks
      BY <1>1, <1>7, <2>1, <3>1
    <3>2. CASE i + 1 \notin Marks
      BY <1>7, <2>1, <3>2
    <3> QED BY <3>1, <3>2
  <2>3. CASE con[d].lock < i
    <3>1. x.w.safe <= con[d].hdr.mx /\ con[d].hdr.mx \in Int
      BY <1>10, <2>3
    <3> QED BY <1>8, <1>11, <3>1
  <2>4. CASE con[d].lock = i
    <3>1. busy
      BY <1>9, <2>4
    <3>2. shm.mark[i] <= con[d].hdr.mx /\ con[d].hdr.mx \in Int
      BY <1>10, <2>4
    <3> QED BY <1>8, <1>11, <3>1, <3>2
  <2> QED BY <2>2, <2>3, <2>4
<1>17. \A d \in Conn : con'[d].lock > 0 => shm'.mark[con'[d].lock] = shm.mark[con'[d].lock]
  <2>1. ~(y.lock > 0)
    BY <1>1, <1>6
  <2> QED BY <1>1, <1>9, <2>1 DEF Only, y
<1> QED BY <1>1, <1>15, <1>16, <1>17, SnapLocal DEF y

\* The iterator iter has the last frame of every page; new has those of them beyond k, up to
\* safe, of the first n pages.
Complete(e, iter) == \A p \in 1..MaxPage, f \in 1..Len(e) : Newest(e, f, p) => iter[f] = p
Remaining(new, iter, k, safe, n) ==
  new = [f \in 1..MaxFrame |-> IF f > k /\ f <= safe /\ iter[f] <= n THEN iter[f] ELSE 0]

\* With the frames of the iterator, the first safe frames e of the log are in the file db.
ToCopy(e, iter, safe, db, img) ==
  /\ Newests(e, iter)
  /\ \A f \in 1..MaxFrame : iter[f] > 0 => f <= safe /\ iter[f] <= Len(img)
  /\ \A p \in 1..Len(img), f \in 1..safe : Newest(e, f, p) =>
       PageAt(db, p) = e[f].ver \/ iter[f] = p

\* The frames that a checkpoint skips because they are in the database file already, or
\* beyond its end, are none that it has to copy.
LEMMA FilteredNewest ==
  ASSUME NEW e \in Seq(Entries), Len(e) <= MaxFrame, NEW iter \in Pgnos, NEW new,
         NEW k \in Int, NEW safe \in Int, safe <= Len(e), NEW db, NEW img \in Images,
         Remaining(new, iter, k, safe, Len(img)),
         Newests(e, iter), Filled(e, k, db, img), Complete(e, iter)
  PROVE  ToCopy(e, new, safe, db, img)
<1>1. \A f \in 1..MaxFrame :
        new[f] = IF f > k /\ f <= safe /\ iter[f] <= Len(img) THEN iter[f] ELSE 0
  BY DEF Remaining
<1>2. \A f \in 1..MaxFrame : new[f] > 0 => f <= safe /\ new[f] <= Len(img) /\ new[f] = iter[f]
  BY <1>1
<1>3. Newests(e, new)
  BY <1>2 DEF Newests
<1>4. ASSUME NEW p \in 1..Len(img), NEW f \in 1..safe, Newest(e, f, p)
      PROVE  PageAt(db, p) = e[f].ver \/ new[f] = p
  <2>1. f \in 1..Len(e) /\ e[f] \in Entries /\ e[f].pg = p /\ f \in Int /\ f <= safe
    BY <1>4 DEF Newest
  <2>2. p \in 1..MaxPage /\ p <= Len(img)
    BY <2>1, EntryFields DEF Images
  <2>3. iter[f] = p
    BY <1>4, <2>1, <2>2 DEF Complete
  <2>4. f \in 1..MaxFrame
    BY <2>1, Constants
  <2>5. CASE f > k
    BY <1>1, <2>1, <2>2, <2>3, <2>4, <2>5
  <2>6. CASE f <= k
    <3>1. f \in 1..k
      BY <2>1, <2>6
    <3> QED BY <1>4, <3>1 DEF Filled
  <2> QED BY <2>1, <2>5, <2>6
<1> QED BY <1>2, <1>3, <1>4 DEF ToCopy

LEMMA CkptLock0Snap ==
  ASSUME TypeInv, BackInv, DataInv, HeadInv, SnapInv, NEW c \in Conn, CkptLock0(c)
  PROVE  SnapInv'
<1> DEFINE x == con[c]
           y == con'[c]
           h == shm.h0
<1>1. /\ Only(c) /\ UNCHANGED <<shm, file, past>> /\ x.pc = "ckptLock0" /\ log'.cur = log.cur
      /\ \/ y.pc = "ckptEnd" /\ Moved(y, x)
         \/ /\ shm.nBackfill < x.w.safe
            /\ y.pc = "ckptWrite" /\ y.excl = x.excl \cup {READ(0)}
            /\ y.w.iter = [f \in 1..MaxFrame |->
                             IF f > shm.nBackfill /\ f <= x.w.safe /\ x.w.iter[f] <= x.hdr.n
                             THEN x.w.iter[f] ELSE 0]
            /\ \A f \in WorkFields \ {"iter"} : y.w[f] = x.w[f]
            /\ y.hdr = x.hdr /\ y.cache = x.cache
  BY CkptLock0Effect
<1>2. /\ h.init /\ x.hdr = h /\ x.w.safe <= h.mx
  BY <1>1, InCopy DEF Copying, HdrsAgree
<1>3. /\ OtherOK(x, shm, Committed) /\ CkptOK(x, shm, file.cur, Committed)
      /\ Common(shm, log.cur, file.cur, Committed)
  BY <1>2, SnapAt
<1>4. ~InTxn(x)
  BY <1>1, NotInTxn
<1>5. x.w.iter \in Pgnos /\ Committed \in Images
  BY WriterTypes DEF DataInv, ConnData
<1>6. x.w.safe \in Int /\ shm.nBackfill \in Nat
  BY AtConn, Constants DEF ConnType, WorkOK, TypeInv, ShmInv
<1>7. Eff(h) \in Seq(Entries) /\ Len(Eff(h)) = h.mx /\ h.mx \in Nat
  BY <1>3, HeadEff
<1>8. h.mx <= MaxFrame
  BY Constants, HdrNumbers DEF TypeInv, ShmInv
<1>9. ASSUME NEW d \in Conn \ {c} PROVE PairOK(x, con[d])
  BY DEF SnapInv
<1> HIDE DEF x, y, h
<1>10. CASE y.pc = "ckptEnd" /\ Moved(y, x)
  <2>1. ~InTxn(y) /\ y.pc \in Aside /\ y.pc \notin {"lockMark", "lock0", "recoverHdr"}
    BY <1>10, NotInTxn DEF Aside
  <2>2. /\ y.hdr = x.hdr /\ y.cache = x.cache
        /\ (y.w.ckpt <=> x.w.ckpt) /\ (y.w.changed <=> x.w.changed)
    BY <1>10 DEF Moved
  <2>3. OtherOK(y, shm, Committed)
    BY <1>3, <1>4, <2>1, <2>2, OtherCopier
  <2>4. SnapOK(y, shm, log.cur, file.cur, Committed) /\ RecoverOK(y, shm, log.cur)
    BY <2>1, <2>3, SnapAside DEF RecoverOK
  <2>5. \A d \in Conn \ {c} : PairOK(y, con[d]) /\ PairOK(con[d], y)
    BY <2>1, PairAside
  <2> QED BY <1>1, <2>4, <2>5, SnapLocal DEF y
<1>11. CASE /\ shm.nBackfill < x.w.safe
            /\ y.pc = "ckptWrite" /\ y.excl = x.excl \cup {READ(0)}
            /\ y.w.iter = [f \in 1..MaxFrame |->
                             IF f > shm.nBackfill /\ f <= x.w.safe /\ x.w.iter[f] <= x.hdr.n
                             THEN x.w.iter[f] ELSE 0]
            /\ \A f \in WorkFields \ {"iter"} : y.w[f] = x.w[f]
            /\ y.hdr = x.hdr /\ y.cache = x.cache
  <2>1. /\ (y.w.ckpt <=> x.w.ckpt) /\ (y.w.changed <=> x.w.changed) /\ y.w.safe = x.w.safe
    BY <1>11 DEF WorkFields
  <2>2. Len(Committed) = x.hdr.n
    <3>1. h.mx > 0
      BY <1>2, <1>6, <1>7, <1>11
    <3>2. Sound(h) /\ Len(Committed) = SizeOf(h, file.cur)
      BY <1>3 DEF Common, Held, h
    <3> QED BY <1>2, <3>1, <3>2 DEF Sound, SizeOf
  <2>3. /\ Newests(Eff(h), x.w.iter) /\ Filled(Eff(h), shm.nBackfill, file.cur, Committed)
        /\ \A p \in 1..MaxPage, f \in 1..Len(Eff(h)) : Newest(Eff(h), f, p) => x.w.iter[f] = p
    BY <1>1, <1>2, <1>3, <1>7 DEF CkptOK, Common, h
  <2>4. ToCopy(Eff(h), y.w.iter, x.w.safe, file.cur, Committed)
    <3> DEFINE e == Eff(h)
               iter == x.w.iter
               new == y.w.iter
               k == shm.nBackfill
               safe == x.w.safe
    <3>1. /\ e \in Seq(Entries) /\ Len(e) <= MaxFrame /\ iter \in Pgnos /\ k \in Int
          /\ safe \in Int /\ safe <= Len(e) /\ Newests(e, iter)
          /\ Filled(e, k, file.cur, Committed)
      BY <1>2, <1>5, <1>6, <1>7, <1>8, <2>3
    <3>2. Complete(e, iter) /\ Remaining(new, iter, k, safe, Len(Committed))
      BY <1>11, <2>2, <2>3 DEF Complete, Remaining
    <3> HIDE DEF e, iter, new, k, safe
    <3>3. ToCopy(e, new, safe, file.cur, Committed)
      BY <1>5, <3>1, <3>2, FilteredNewest
    <3> QED BY <3>3 DEF e, new, safe
  <2>5. CkptOK(y, shm, file.cur, Committed)
    BY <1>11, <2>1, <2>4 DEF CkptOK, ToCopy, h
  <2>6. OtherOK(y, shm, Committed)
    <3>1. y.pc \notin {"lockMark", "lock0"}
      BY <1>11
    <3> QED BY <1>3, <1>4, <1>11, <2>1, <3>1, OtherCopier
  <2>7. SnapOK(y, shm, log.cur, file.cur, Committed) /\ RecoverOK(y, shm, log.cur)
        /\ \A z : PairOK(z, y)
    <3>1. y.pc \in {"ckptMark", "ckptLock0", "ckptWrite"}
      BY <1>11
    <3> QED BY <2>5, <2>6, <3>1, SnapCopier
  <2>8. ASSUME NEW d \in Conn \ {c} PROVE PairOK(y, con[d])
    BY <1>1, <1>9, <1>11, <2>1 DEF PairOK
  <2> QED BY <1>1, <2>7, <2>8, SnapLocal DEF y
<1> QED BY <1>1, <1>10, <1>11

\* The file new is the file old but for the page p, which is v.
Wrote(new, old, p, v) ==
  PageAt(new, p) = v /\ \A q \in Nat \ {0} : q # p => PageAt(new, q) = PageAt(old, q)

LEMMA WroteAt ==
  ASSUME NEW db \in Images, NEW new \in Images, NEW p \in Nat \ {0}, NEW v, NEW n \in Nat,
         p <= n, Len(db) <= n, DOMAIN new = 1..n, new[p] = v,
         \A j \in 1..n : j # p => new[j] = PageAt(db, j)
  PROVE  Wrote(new, db, p, v)
<1>1. Len(new) = n /\ Len(db) \in Nat
  <2>1. Len(new) \in Nat /\ DOMAIN new = 1..Len(new) /\ Len(db) \in Nat
    BY DEF Images
  <2> QED BY <2>1
<1>2. PageAt(new, p) = v
  BY <1>1 DEF PageAt
<1>3. ASSUME NEW q \in Nat \ {0}, q # p PROVE PageAt(new, q) = PageAt(db, q)
  <2>1. CASE q <= n
    <3>1. q \in 1..n
      BY <2>1
    <3>2. PageAt(new, q) = new[q]
      BY <1>1, <2>1 DEF PageAt
    <3> QED BY <1>3, <3>1, <3>2
  <2>2. CASE ~(q <= n)
    <3>1. ~(q <= Len(db))
      BY <1>1, <2>2
    <3> QED BY <1>1, <2>2, <3>1 DEF PageAt
  <2> QED BY <2>1, <2>2
<1> QED BY <1>2, <1>3 DEF Wrote

LEMMA WroteOne ==
  ASSUME NEW db \in Images, NEW p \in Nat \ {0}, NEW v \in Int, NEW new,
         new = [k \in 1..Max({Len(db), p}) |-> IF k = p THEN v ELSE PageAt(db, k)]
  PROVE  Wrote(new, db, p, v)
<1> DEFINE k == Len(db)
           n == Max({k, p})
<1>1. k \in Nat /\ k \in Int /\ p \in Int
  BY DEF Images
<1> HIDE DEF k
<1>2. n \in {k, p} /\ n >= k /\ n >= p
  BY <1>1, MaxTwo
<1>3. new = [j \in 1..n |-> IF j = p THEN v ELSE PageAt(db, j)]
  BY DEF n, k
<1> HIDE DEF n
<1>4. n \in Nat
  BY <1>1, <1>2
<1>5. \A j \in 1..n : PageAt(db, j) \in Int
  <2>1. \A j \in 1..n : j \in Nat \ {0}
    BY <1>4
  <2> QED BY <2>1, PageAtOK
<1>6. new \in Images
  <2>1. [j \in 1..n |-> IF j = p THEN v ELSE PageAt(db, j)] \in Seq(Int)
    BY <1>4, <1>5
  <2> QED BY <1>3, <2>1, Zenon DEF Images
<1>7. p \in 1..n /\ p <= n /\ Len(db) <= n
  BY <1>1, <1>2, <1>4 DEF k
<1>8. /\ DOMAIN new = 1..n /\ new[p] = v
      /\ \A j \in 1..n : j # p => new[j] = PageAt(db, j)
  BY <1>3, <1>7
<1> QED BY <1>4, <1>6, <1>7, <1>8, WroteAt

LEMMA ShowsWrote ==
  ASSUME NEW s \in Seq(Entries), NEW db, NEW new, NEW p, NEW v, NEW img \in Images,
         Wrote(new, db, p, v), ~Absent(s, p), Shows(s, db, img)
  PROVE  Shows(s, new, img)
<1>1. ASSUME NEW q \in 1..Len(img), Absent(s, q) PROVE img[q] = PageAt(new, q)
  <2>1. q # p /\ q \in Nat \ {0}
    BY <1>1 DEF Images
  <2>2. PageAt(new, q) = PageAt(db, q)
    BY <2>1 DEF Wrote
  <2> QED BY <1>1, <2>2 DEF Shows
<1> QED BY <1>1 DEF Shows

LEMMA FilledWrote ==
  ASSUME NEW s \in Seq(Entries), NEW k, NEW db, NEW new, NEW p, NEW f, NEW img \in Images,
         Newest(s, f, p), Wrote(new, db, p, s[f].ver), Filled(s, k, db, img)
  PROVE  Filled(s, k, new, img)
<1>1. ASSUME NEW q \in 1..Len(img), NEW g \in 1..k, Newest(s, g, q)
      PROVE  PageAt(new, q) = s[g].ver
  <2>1. CASE q = p
    BY <1>1, <2>1, NewestOne DEF Wrote
  <2>2. CASE q # p
    <3>1. q \in Nat \ {0}
      BY DEF Images
    <3>2. PageAt(new, q) = PageAt(db, q)
      BY <2>2, <3>1 DEF Wrote
    <3> QED BY <1>1, <3>2 DEF Filled
  <2> QED BY <2>1, <2>2
<1> QED BY <1>1 DEF Filled

LEMMA ToCopyWrote ==
  ASSUME NEW e \in Seq(Entries), NEW iter \in Pgnos, NEW safe \in 0..MaxFrame, NEW db, NEW new,
         NEW img \in Images, NEW f \in 1..MaxFrame, iter[f] > 0,
         Wrote(new, db, iter[f], e[f].ver), ToCopy(e, iter, safe, db, img)
  PROVE  ToCopy(e, [iter EXCEPT ![f] = 0], safe, new, img)
<1> DEFINE it == [iter EXCEPT ![f] = 0]
           p == iter[f]
<1>1. /\ it[f] = 0 /\ \A g \in 1..MaxFrame : g # f => it[g] = iter[g]
      /\ \A g \in 1..MaxFrame : it[g] > 0 => it[g] = iter[g]
  BY DEF Pgnos
<1>2. Wrote(new, db, p, e[f].ver) /\ p > 0
  OBVIOUS
<1> HIDE DEF it, p
<1>3. Newests(e, it)
  BY <1>1 DEF ToCopy, Newests
<1>4. \A g \in 1..MaxFrame : it[g] > 0 => g <= safe /\ it[g] <= Len(img)
  BY <1>1 DEF ToCopy
<1>5. Newest(e, f, p)
  BY DEF ToCopy, Newests, p
<1>6. ASSUME NEW q \in 1..Len(img), NEW g \in 1..safe, Newest(e, g, q)
      PROVE  PageAt(new, q) = e[g].ver \/ it[g] = q
  <2>1. CASE q = p
    BY <1>2, <1>5, <1>6, <2>1, NewestOne DEF Wrote
  <2>2. CASE q # p
    <3>1. q \in Nat \ {0}
      BY DEF Images
    <3>2. PageAt(new, q) = PageAt(db, q)
      BY <1>2, <2>2, <3>1 DEF Wrote
    <3>3. PageAt(db, q) = e[g].ver \/ iter[g] = q
      BY <1>6 DEF ToCopy
    <3>4. iter[g] = q => g # f /\ g \in 1..MaxFrame /\ it[g] = q
      <4> SUFFICES ASSUME iter[g] = q PROVE g # f /\ g \in 1..MaxFrame /\ it[g] = q
        OBVIOUS
      <4>1. g # f
        BY <2>2 DEF p
      <4>2. g \in 1..MaxFrame
        BY Constants
      <4> QED BY <1>1, <4>1, <4>2
    <3> QED BY <3>2, <3>3, <3>4
  <2> QED BY <2>1, <2>2
<1> QED BY <1>3, <1>4, <1>6 DEF ToCopy, it

\* A connection that neither writes nor copies, when the file and nBackfill change.
LEMMA SnapBesideCopier ==
  ASSUME NEW z, NEW s, NEW t, NEW l, NEW db, NEW new, NEW img, s.h0.init, t.h0 = s.h0,
         s.nBackfill \in Int, t.nBackfill \in Int, s.h0.mx \in Int, s.nBackfill <= t.nBackfill,
         ~InTxn(z), z.pc \notin {"ckptMark", "ckptLock0", "ckptWrite", "recoverHdr"},
         SnapOK(z, s, l, db, img), ReaderOK(z, t, l, new, img)
  PROVE  SnapOK(z, t, l, new, img) /\ RecoverOK(z, t, l)
<1>1. OtherOK(z, s, img)
  BY DEF SnapOK
<1>2. OtherOK(z, t, img)
  BY <1>1 DEF OtherOK
<1> QED BY <1>2 DEF SnapOK, WriterOK, CkptOK, RecoverOK

\* The checkpointer holds the read lock 0, so every reader has a mark.
LEMMA ReadersMarked ==
  ASSUME TypeInv, SnapInv, shm.h0.init, NEW c \in Conn, READ(0) \in con[c].excl,
         NEW d \in Conn \ {c}, Reads(con[d])
  PROVE  /\ con[d].lock \in Int /\ con[d].lock > 0
         /\ ReaderOK(con[d], shm, log.cur, file.cur, Committed)
<1>1. ReaderOK(con[d], shm, log.cur, file.cur, Committed)
  BY SnapAt
<1>2. con[d].lock \in Int /\ con[d].lock >= 0
  BY <1>1, AtConn, Constants DEF ReaderOK, ConnType
<1>3. READ(con[d].lock) \notin con[c].excl
  BY <1>2 DEF TypeInv, LockInv
<1>4. con[d].lock # 0
  BY <1>3
<1> QED BY <1>1, <1>2, <1>4

\* The frames that a checkpoint copies are those of the latest snapshot.
LEMMA CopiedPage ==
  ASSUME TypeInv, BackInv, SnapInv, NEW c \in Conn, con[c].pc = "ckptWrite",
         NEW f \in 1..MaxFrame, con[c].w.iter[f] > 0
  PROVE  /\ Newest(Eff(shm.h0), f, con[c].w.iter[f]) /\ f \in 1..shm.h0.mx /\ shm.h0.mx > 0
         /\ PageIn(log.cur, f) = Eff(shm.h0)[f].ver /\ PageIn(log.cur, f) \in Int
<1> DEFINE h == shm.h0
<1>1. h.init
  BY InCopy DEF Copying, HdrsAgree
<1>2. /\ Common(shm, log.cur, file.cur, Committed) /\ CkptOK(con[c], shm, file.cur, Committed)
  BY <1>1, SnapAt
<1>3. /\ Eff(h) \in Seq(Entries) /\ Len(Eff(h)) = h.mx /\ h.mx \in Nat
      /\ h.mx > 0 => Eff(h) = h.sum
  BY <1>2, HeadEff
<1>4. Newest(Eff(h), f, con[c].w.iter[f])
  BY <1>2 DEF CkptOK, Newests
<1>5. Matches(h.sum, h.mx, log.cur)
  BY <1>2 DEF Common, Held
<1> HIDE DEF h
<1>6. f \in 1..h.mx /\ h.mx > 0
  BY <1>3, <1>4 DEF Newest
<1>7. PageIn(log.cur, f) = Eff(h)[f].ver
  BY <1>3, <1>5, <1>6 DEF PageIn, Matches
<1>8. Eff(h)[f] \in Entries
  BY <1>3, <1>6
<1>9. Eff(h)[f].ver \in Int
  BY <1>8, EntryFields
<1> QED BY <1>4, <1>6, <1>7, <1>9 DEF h

\* A reader behind the mark that limits the checkpoint has the page in its frames.
LEMMA ReaderWrote ==
  ASSUME TypeInv, NEW d \in Conn, NEW l, NEW db, NEW new, NEW img, NEW f \in Int, NEW p, NEW v,
         Common(shm, l, db, img), con[d].image \in Images,
         ReaderOK(con[d], shm, l, db, img), Reads(con[d]) => con[d].lock > 0,
         Reads(con[d]) => f <= con[d].hdr.mx, Wrote(new, db, p, v),
         Newest(Eff(shm.h0), f, p), con[d].lock \in Int
  PROVE  ReaderOK(con[d], shm, l, new, img)
<1> DEFINE z == con[d]
           g == z.hdr
           h == shm.h0
<1> SUFFICES ASSUME Reads(z) PROVE ReaderOK(z, shm, l, new, img)
  BY DEF ReaderOK
<1>1. /\ z.lock > 0 /\ g.mx <= h.mx /\ Held(g, shm, l) /\ Shows(Eff(g), db, z.image)
      /\ Len(z.image) = SizeOf(g, db)
  BY DEF ReaderOK
<1>2. HdrOK(g) /\ g.mx \in Nat
  BY AtConn, HdrNumbers, Constants DEF ConnType
<1>3. Eff(g) \in Seq(Entries) /\ Len(Eff(g)) = g.mx /\ (g.mx > 0 => Eff(g) = g.sum)
  BY <1>1, <1>2, EffOK DEF Held
<1>4. /\ Eff(h) \in Seq(Entries) /\ Len(Eff(h)) = h.mx /\ h.mx \in Nat
      /\ h.mx > 0 => Eff(h) = h.sum
  BY HeadEff
<1>5. Matches(h.sum, h.mx, l) /\ Matches(g.sum, g.mx, l) /\ Sound(g)
  BY <1>1 DEF Common, Held
<1>6. f \in 1..h.mx /\ Eff(h)[f].pg = p /\ f <= g.mx
  BY <1>4 DEF Newest
<1>0. z.image \in Images /\ z.lock \in Int
  OBVIOUS
<1> HIDE DEF z, g, h
<1>7. f \in 1..g.mx /\ g.mx > 0 /\ h.mx > 0 /\ g.mx \in Int /\ h.mx \in Int
  BY <1>2, <1>4, <1>6
<1>8. h.sum[f] = g.sum[f]
  BY <1>1, <1>5, <1>7, SamePrefix
<1>9. ~Absent(Eff(g), p)
  BY <1>3, <1>4, <1>6, <1>7, <1>8 DEF Absent
<1>10. Shows(Eff(g), new, z.image)
  BY <1>0, <1>1, <1>3, <1>9, ShowsWrote
<1>11. SizeOf(g, new) = SizeOf(g, db)
  BY <1>5, <1>7 DEF Sound, SizeOf
<1>12. ReaderOK(z, shm, l, db, img) /\ ~(z.lock = 0)
  BY <1>0, <1>1 DEF z
<1> QED BY <1>10, <1>11, <1>12 DEF ReaderOK, g, h

LEMMA CkptWriteSnap ==
  ASSUME OneWriter, TypeInv, BackInv, DataInv, HeadInv, SnapInv, NEW c \in Conn, CkptWrite(c)
  PROVE  SnapInv'
<1> DEFINE x == con[c]
           y == con'[c]
           h == shm.h0
           it == x.w.iter
           f == PageFrame(it)
           p == NextPage(it)
           v == PageIn(log.cur, f)
           db == file.cur
           new == file'.cur
<1>1. DOMAIN file = {"cur", "dur"} /\ db \in Images /\ it \in Pgnos
  BY DEF DataInv, FileData, ConnData
<1>2. /\ Only(c) /\ UNCHANGED <<shm, log, past>> /\ x.pc = "ckptWrite" /\ ToWrite(it) # {}
      /\ new = [k \in 1..Max({Len(db), p}) |-> IF k = p THEN v ELSE PageAt(db, k)]
      /\ y.pc = x.pc /\ y.excl = x.excl /\ y.w.iter = [it EXCEPT ![f] = 0]
      /\ \A g \in WorkFields \ {"iter"} : y.w[g] = x.w[g]
      /\ y.hdr = x.hdr /\ y.cache = x.cache
  BY <1>1, CkptWriteEffect DEF ToWrite, PageFrame, NextPage
<1>3. f \in 1..MaxFrame /\ it[f] > 0 /\ it[f] = p /\ p \in Nat \ {0}
  BY <1>1, <1>2, NextPageOK
<1>4. h.init /\ x.hdr = h /\ x.w.safe <= h.mx
  BY <1>2, InCopy DEF Copying, HdrsAgree
<1>5. /\ Common(shm, log.cur, db, Committed) /\ CkptOK(x, shm, db, Committed)
      /\ OtherOK(x, shm, Committed)
  BY <1>4, SnapAt
<1>6. /\ Newest(Eff(h), f, it[f]) /\ f \in 1..h.mx /\ h.mx > 0
      /\ v = Eff(h)[f].ver /\ v \in Int
  <2> HIDE DEF f
  <2> QED BY <1>2, <1>3, CopiedPage
<1>7. Committed \in Images /\ \A d \in Conn : con[d].image \in Images /\ con[d].lock \in Int
  BY WriterTypes
<1>8. Eff(h) \in Seq(Entries) /\ Len(Eff(h)) = h.mx /\ h.mx \in Nat
  BY <1>5, HeadEff
<1>9. x.w.safe \in 0..MaxFrame /\ shm.nBackfill \in Int
  BY AtConn, Constants DEF ConnType, WorkOK, TypeInv, ShmInv
<1>10. ASSUME NEW d \in Conn \ {c}
       PROVE  /\ SnapOK(con[d], shm, log.cur, db, Committed) /\ PairOK(x, con[d])
              /\ ~InTxn(con[d])
              /\ con[d].pc \notin {"ckptMark", "ckptLock0", "ckptWrite", "recoverHdr"}
  BY <1>2, BesideCopier DEF SnapInv
<1> HIDE DEF f, p, v, db, it, new
<1>11. Wrote(new, db, p, v)
  BY <1>1, <1>2, <1>3, <1>6, WroteOne
<1> HIDE DEF x, y, h
<1>12. ToCopy(Eff(h), it, x.w.safe, db, Committed) /\ READ(0) \in x.excl /\ f <= x.w.safe
       /\ shm.nBackfill < x.w.safe
  BY <1>2, <1>3, <1>5 DEF CkptOK, ToCopy, it, h
<1>13. ToCopy(Eff(h), y.w.iter, x.w.safe, new, Committed)
  <2> DEFINE e == Eff(h)
             safe == x.w.safe
  <2>1. /\ e \in Seq(Entries) /\ safe \in 0..MaxFrame /\ Wrote(new, db, it[f], e[f].ver)
        /\ ToCopy(e, it, safe, db, Committed)
    BY <1>3, <1>6, <1>8, <1>9, <1>11, <1>12
  <2> HIDE DEF e, safe
  <2>2. ToCopy(e, [it EXCEPT ![f] = 0], safe, new, Committed)
    BY <1>1, <1>3, <1>7, <2>1, ToCopyWrote
  <2> QED BY <1>2, <2>2 DEF e, safe
<1>14. (y.w.ckpt <=> x.w.ckpt) /\ (y.w.changed <=> x.w.changed) /\ y.w.safe = x.w.safe
  BY <1>2 DEF WorkFields
<1>15. CkptOK(y, shm, new, Committed)
  BY <1>2, <1>12, <1>13, <1>14 DEF CkptOK, ToCopy, h
<1>16. OtherOK(y, shm, Committed)
  <2>1. y.pc \notin {"lockMark", "lock0"} /\ ~InTxn(x)
    BY <1>2, NotInTxn
  <2> QED BY <1>2, <1>5, <1>14, <2>1, OtherCopier
<1>17. SnapOK(y, shm, log.cur, new, Committed) /\ RecoverOK(y, shm, log.cur)
       /\ \A z : PairOK(z, y)
  <2>1. y.pc \in {"ckptMark", "ckptLock0", "ckptWrite"}
    BY <1>2
  <2> QED BY <1>15, <1>16, <2>1, SnapCopier
<1>18. Common(shm, log.cur, new, Committed)
  <2>1. /\ Sound(h) /\ Held(h, shm, log.cur) /\ Len(Committed) = SizeOf(h, db)
        /\ Shows(Eff(h), db, Committed) /\ Filled(Eff(h), shm.nBackfill, db, Committed)
    BY <1>5 DEF Common, Held, h
  <2>2. ~Absent(Eff(h), p)
    BY <1>3, <1>6 DEF Newest, Absent
  <2>3. Shows(Eff(h), new, Committed)
    BY <1>7, <1>8, <1>11, <2>1, <2>2, ShowsWrote
  <2>4. Filled(Eff(h), shm.nBackfill, new, Committed)
    BY <1>3, <1>6, <1>7, <1>8, <1>11, <2>1, FilledWrote
  <2>5. SizeOf(h, new) = SizeOf(h, db)
    BY <1>6, <2>1 DEF Sound, SizeOf
  <2> QED BY <2>1, <2>3, <2>4, <2>5 DEF Common, h
<1>19. ASSUME NEW d \in Conn \ {c}
       PROVE  /\ SnapOK(con[d], shm, log.cur, new, Committed) /\ RecoverOK(con[d], shm, log.cur)
              /\ PairOK(y, con[d])
  <2>1. Reads(con[d]) => /\ con[d].lock > 0 /\ f <= con[d].hdr.mx
    <3> SUFFICES ASSUME Reads(con[d]) PROVE con[d].lock > 0 /\ f <= con[d].hdr.mx
      OBVIOUS
    <3>1. con[d].lock > 0
      BY <1>4, <1>12, ReadersMarked DEF x, h
    <3>2. x.w.safe <= con[d].hdr.mx
      BY <1>2, <1>10, <3>1 DEF PairOK
    <3>3. con[d].hdr.mx \in Int /\ x.w.safe \in Int /\ f \in Int
      BY <1>3, <1>9, Constants, AtConn DEF ConnType, HdrOK
    <3> QED BY <1>12, <3>1, <3>2, <3>3
  <2>2. ReaderOK(con[d], shm, log.cur, db, Committed)
    BY <1>4, <1>10 DEF SnapOK, h
  <2>3. ReaderOK(con[d], shm, log.cur, new, Committed)
    <3>1. f \in Int /\ Newest(Eff(shm.h0), f, p)
      BY <1>3, <1>6 DEF h
    <3> QED BY <1>5, <1>7, <1>11, <2>1, <2>2, <3>1, ReaderWrote
  <2>4. shm.nBackfill <= shm.nBackfill /\ shm.h0.mx \in Int /\ shm.h0.init
    BY <1>4, <1>8, <1>9 DEF h
  <2>5. SnapOK(con[d], shm, log.cur, new, Committed) /\ RecoverOK(con[d], shm, log.cur)
    BY <1>9, <1>10, <2>3, <2>4, SnapBesideCopier
  <2>6. PairOK(y, con[d])
    BY <1>2, <1>10, <1>14 DEF PairOK
  <2> QED BY <2>5, <2>6
<1>20. Committed' = Committed
  BY <1>2 DEF Committed
<1> QED BY <1>2, <1>17, <1>18, <1>19, <1>20, SnapStep DEF y, new

\* The first n pages of the files new and db are the same.
SamePages(new, db, n) == \A p \in 1..n : PageAt(new, p) = PageAt(db, p)

LEMMA ResizedSame ==
  ASSUME NEW db \in Images, NEW n \in Nat, NEW new, new = [k \in 1..n |-> PageAt(db, k)]
  PROVE  SamePages(new, db, n)
<1>1. [k \in 1..n |-> PageAt(db, k)] \in Images
  BY ResizedOK
<1>2. new \in Images /\ DOMAIN new = 1..n /\ \A k \in 1..n : new[k] = PageAt(db, k)
  BY <1>1
<1>3. Len(new) = n
  <2>1. Len(new) \in Nat /\ DOMAIN new = 1..Len(new)
    BY <1>2 DEF Images
  <2>2. 1..Len(new) = 1..n
    BY <1>2, <2>1, Zenon
  <2> DEFINE k == Len(new)
  <2>3. k \in Nat /\ 1..k = 1..n
    BY <2>1, <2>2
  <2> HIDE DEF k
  <2>4. \A i \in Nat : i \in 1..k <=> i \in 1..n
    BY <2>3, Zenon
  <2>5. k = n
    <3>1. CASE k = 0
      BY <2>3, <2>4, <3>1
    <3>2. CASE n = 0
      BY <2>3, <2>4, <3>2
    <3>3. CASE k > 0 /\ n > 0
      <4>1. k \in 1..n /\ n \in 1..k
        BY <2>3, <2>4, <3>3
      <4> QED BY <2>3, <4>1
    <3> QED BY <2>3, <3>1, <3>2, <3>3
  <2> QED BY <2>5 DEF k
<1>4. ASSUME NEW k \in 1..n PROVE PageAt(new, k) = PageAt(db, k)
  <2>1. new[k] = PageAt(db, k) /\ k <= Len(new)
    BY <1>2, <1>3
  <2>2. PageAt(new, k) = new[k]
    BY <2>1, Zenon DEF PageAt
  <2> QED BY <2>1, <2>2, Zenon
<1> QED BY <1>4 DEF SamePages

LEMMA ShowsResized ==
  ASSUME NEW s, NEW db, NEW new, NEW img, SamePages(new, db, Len(img)), Shows(s, db, img)
  PROVE  Shows(s, new, img)
BY DEF Shows, SamePages

\* At the end of a checkpoint the frames up to safe are in the database file.
LEMMA AllCopied ==
  ASSUME NEW e \in Seq(Entries), NEW iter, NEW safe \in 0..MaxFrame, NEW db, NEW new,
         NEW img \in Images, \A f \in 1..MaxFrame : iter[f] = 0,
         ToCopy(e, iter, safe, db, img), SamePages(new, db, Len(img))
  PROVE  Filled(e, safe, new, img)
<1> SUFFICES ASSUME NEW p \in 1..Len(img), NEW f \in 1..safe, Newest(e, f, p)
             PROVE  PageAt(new, p) = e[f].ver
  BY DEF Filled
<1>1. PageAt(db, p) = e[f].ver \/ iter[f] = p
  BY DEF ToCopy
<1>2. f \in 1..MaxFrame /\ p # 0
  BY Constants DEF Images
<1>3. PageAt(new, p) = PageAt(db, p)
  BY DEF SamePages
<1> QED BY <1>1, <1>2, <1>3

\* A reader of the whole log has the size that the file is truncated to.
LEMMA ReaderResized ==
  ASSUME TypeInv, NEW d \in Conn, NEW t, NEW l, NEW db, NEW new, NEW img,
         Common(shm, l, db, img), t.h0 = shm.h0, t.mark = shm.mark, t.pgno = shm.pgno,
         ReaderOK(con[d], shm, l, db, img), Reads(con[d]) => con[d].lock > 0,
         Reads(con[d]) => shm.h0.mx <= con[d].hdr.mx, shm.h0.mx > 0,
         SamePages(new, db, shm.h0.n), con[d].lock \in Int
  PROVE  ReaderOK(con[d], t, l, new, img)
<1> DEFINE z == con[d]
           g == z.hdr
           h == shm.h0
<1> SUFFICES ASSUME Reads(z) PROVE ReaderOK(z, t, l, new, img)
  BY DEF ReaderOK
<1>1. /\ z.lock > 0 /\ g.mx <= h.mx /\ Held(g, shm, l) /\ Shows(Eff(g), db, z.image)
      /\ Len(z.image) = SizeOf(g, db)
  BY DEF ReaderOK
<1>2. HdrOK(g) /\ g.mx \in Nat
  BY AtConn, HdrNumbers, Constants DEF ConnType
<1>3. h.mx \in Nat /\ h.mx <= g.mx
  BY HeadEff
<1>4. Matches(h.sum, h.mx, l) /\ Matches(g.sum, g.mx, l) /\ Sound(g) /\ Sound(h)
  BY <1>1 DEF Common, Held
<1>0. h.mx > 0 /\ SamePages(new, db, h.n) /\ z.lock \in Int
  OBVIOUS
<1> HIDE DEF z, g, h
<1>5. g.mx = h.mx /\ h.mx \in Int /\ h.mx <= h.mx /\ h.mx \in 1..h.mx
  BY <1>0, <1>1, <1>2, <1>3
<1>6. h.sum[h.mx] = g.sum[h.mx]
  <2>1. Matches(g.sum, h.mx, l)
    BY <1>4, <1>5
  <2> QED BY <1>4, <1>5, <2>1, SamePrefix
<1>7. g.n = h.n /\ g.n > 0
  BY <1>0, <1>4, <1>5, <1>6 DEF Sound
<1>8. Len(z.image) = h.n /\ SizeOf(g, new) = SizeOf(g, db)
  BY <1>1, <1>7 DEF SizeOf
<1>9. Shows(Eff(g), new, z.image)
  BY <1>0, <1>1, <1>8, ShowsResized
<1>10. ReaderOK(z, shm, l, db, img) /\ ~(z.lock = 0)
  BY <1>0, <1>1 DEF z
<1> QED BY <1>8, <1>9, <1>10 DEF ReaderOK, Held, g, h

LEMMA CkptDoneSnap ==
  ASSUME OneWriter, TypeInv, BackInv, DataInv, HeadInv, SnapInv, NEW c \in Conn, CkptDone(c)
  PROVE  SnapInv'
<1> DEFINE x == con[c]
           y == con'[c]
           h == shm.h0
           db == file.cur
           new == file'.cur
<1>1. DOMAIN file = {"cur", "dur"} /\ db \in Images /\ x.hdr.n \in Nat
  BY DEF DataInv, FileData, ConnData, HdrData
<1>2. /\ Only(c) /\ UNCHANGED <<log, past>> /\ x.pc = "ckptWrite"
      /\ \A f \in 1..MaxFrame : x.w.iter[f] = 0
      /\ \/ x.w.safe # h.mx /\ new = db
         \/ x.w.safe = h.mx /\ new = [k \in 1..x.hdr.n |-> PageAt(db, k)]
      /\ shm'.h0 = h /\ shm'.nBackfill = x.w.safe
      /\ shm'.mark = shm.mark /\ shm'.pgno = shm.pgno
      /\ y.pc = "ckptEnd" /\ Moved(y, x)
  BY <1>1, CkptDoneEffect
<1>3. h.init /\ x.hdr = h /\ x.w.safe <= h.mx
  BY <1>2, InCopy DEF Copying, HdrsAgree
<1>4. /\ Common(shm, log.cur, db, Committed) /\ CkptOK(x, shm, db, Committed)
      /\ OtherOK(x, shm, Committed)
  BY <1>3, SnapAt
<1>5. Committed \in Images /\ \A d \in Conn : con[d].image \in Images /\ con[d].lock \in Int
  BY WriterTypes
<1>6. Eff(h) \in Seq(Entries) /\ Len(Eff(h)) = h.mx /\ h.mx \in Nat
  BY <1>4, HeadEff
<1>7. x.w.safe \in 0..MaxFrame /\ x.w.safe \in Int /\ shm.nBackfill \in Nat
  BY AtConn, Constants DEF ConnType, WorkOK, TypeInv, ShmInv
<1>8. ASSUME NEW d \in Conn \ {c}
      PROVE  /\ SnapOK(con[d], shm, log.cur, db, Committed) /\ PairOK(x, con[d])
             /\ ~InTxn(con[d])
             /\ con[d].pc \notin {"ckptMark", "ckptLock0", "ckptWrite", "recoverHdr"}
  BY <1>2, BesideCopier DEF SnapInv
<1> HIDE DEF x, y, h, db, new
<1>9. ToCopy(Eff(h), x.w.iter, x.w.safe, db, Committed) /\ READ(0) \in x.excl
      /\ shm.nBackfill < x.w.safe
  BY <1>2, <1>4 DEF CkptOK, ToCopy, h
<1>10. h.mx > 0
  BY <1>3, <1>6, <1>7, <1>9
<1>11. /\ Held(h, shm, log.cur) /\ Len(Committed) = h.n /\ h.n > 0 /\ h.n \in Nat
       /\ Shows(Eff(h), db, Committed)
  <2>1. /\ Sound(h) /\ Held(h, shm, log.cur) /\ Len(Committed) = SizeOf(h, db)
        /\ Shows(Eff(h), db, Committed)
    BY <1>4 DEF Common, Held, h
  <2> QED BY <1>1, <1>3, <1>10, <2>1 DEF Sound, SizeOf
<1>12. SamePages(new, db, h.n)
  <2>1. CASE new = db
    BY <2>1 DEF SamePages
  <2>2. CASE new = [k \in 1..x.hdr.n |-> PageAt(db, k)]
    <3>1. new = [k \in 1..h.n |-> PageAt(db, k)]
      BY <1>3, <2>2
    <3> QED BY <1>1, <1>11, <3>1, ResizedSame
  <2> QED BY <1>2, <2>1, <2>2
<1>13. Common(shm', log.cur, new, Committed)
  <2>1. Shows(Eff(h), new, Committed)
    BY <1>11, <1>12, ShowsResized
  <2>2. Filled(Eff(h), x.w.safe, new, Committed)
    <3> DEFINE e == Eff(h)
               safe == x.w.safe
               iter == x.w.iter
    <3>1. /\ e \in Seq(Entries) /\ safe \in 0..MaxFrame /\ \A f \in 1..MaxFrame : iter[f] = 0
          /\ ToCopy(e, iter, safe, db, Committed) /\ SamePages(new, db, Len(Committed))
      BY <1>2, <1>6, <1>7, <1>9, <1>11, <1>12
    <3> HIDE DEF e, safe, iter
    <3>2. Filled(e, safe, new, Committed)
      BY <1>5, <3>1, AllCopied
    <3> QED BY <3>2 DEF e, safe
  <2>3. SizeOf(h, new) = h.n
    BY <1>11 DEF SizeOf
  <2>4. Held(h, shm', log.cur)
    BY <1>2, <1>11 DEF Held
  <2> QED BY <1>2, <1>11, <2>1, <2>2, <2>3, <2>4 DEF Common
<1>14. /\ SnapOK(y, shm', log.cur, new, Committed) /\ RecoverOK(y, shm', log.cur)
       /\ \A z : PairOK(y, z) /\ PairOK(z, y)
  <2>1. /\ ~InTxn(y) /\ ~InTxn(x) /\ y.pc \in Aside
        /\ y.pc \notin {"lockMark", "lock0", "recoverHdr"}
    BY <1>2, NotInTxn DEF Aside
  <2>2. /\ y.hdr = x.hdr /\ y.cache = x.cache
        /\ (y.w.ckpt <=> x.w.ckpt) /\ (y.w.changed <=> x.w.changed) /\ shm'.h0 = shm.h0
    BY <1>2 DEF Moved, h
  <2>3. OtherOK(y, shm', Committed)
    BY <1>4, <2>1, <2>2, OtherCopier
  <2> QED BY <2>1, <2>3, SnapAside, PairAside DEF RecoverOK
<1>15. ASSUME NEW d \in Conn \ {c}
       PROVE  SnapOK(con[d], shm', log.cur, new, Committed) /\ RecoverOK(con[d], shm', log.cur)
  <2>1. Reads(con[d]) => con[d].lock > 0 /\ x.w.safe <= con[d].hdr.mx
    <3> SUFFICES ASSUME Reads(con[d]) PROVE con[d].lock > 0 /\ x.w.safe <= con[d].hdr.mx
      OBVIOUS
    <3>1. con[d].lock > 0
      BY <1>3, <1>9, ReadersMarked DEF x, h
    <3> QED BY <1>2, <1>8, <3>1 DEF PairOK
  <2>2. ReaderOK(con[d], shm, log.cur, db, Committed)
    BY <1>3, <1>8 DEF SnapOK, h
  <2>3. ReaderOK(con[d], shm', log.cur, new, Committed)
    <3>1. CASE new = db
      BY <1>2, <2>2, <3>1 DEF ReaderOK, Held, h
    <3>2. CASE x.w.safe = h.mx
      <4>1. Reads(con[d]) => shm.h0.mx <= con[d].hdr.mx
        BY <2>1, <3>2 DEF h
      <4>2. /\ shm'.h0 = shm.h0 /\ shm.h0.mx > 0 /\ SamePages(new, db, shm.h0.n)
            /\ shm'.mark = shm.mark /\ shm'.pgno = shm.pgno /\ con[d].lock \in Int
        BY <1>2, <1>5, <1>10, <1>12 DEF h
      <4>3. Reads(con[d]) => con[d].lock > 0
        BY <2>1
      <4> QED BY <1>4, <2>2, <4>1, <4>2, <4>3, ReaderResized
    <3> QED BY <1>2, <3>1, <3>2
  <2>4. /\ shm.nBackfill <= shm'.nBackfill /\ shm.nBackfill \in Int /\ shm'.nBackfill \in Int
        /\ shm.h0.mx \in Int /\ shm.h0.init /\ shm'.h0 = shm.h0
    BY <1>2, <1>3, <1>6, <1>7, <1>9 DEF h
  <2> QED BY <1>8, <2>3, <2>4, SnapBesideCopier
<1>16. Committed' = Committed
  BY <1>2 DEF Committed
<1> QED BY <1>2, <1>13, <1>14, <1>15, <1>16, SnapStep DEF y, new

\* Nothing is held of a wal-index that is gone.
LEMMA UnusedSnap ==
  ASSUME ~shm.h0.init, \A c \in Conn : con[c].pc \in {"closed", "idle"}
  PROVE  SnapInv
<1>1. \A c \in Conn : con[c].pc \in Aside /\ con[c].pc # "recoverHdr"
  BY DEF Aside
<1>2. \A c, d \in Conn : PairOK(con[c], con[d])
  BY <1>1, PairAside
<1> QED BY <1>1, <1>2 DEF SnapInv, SnapOK, RecoverOK

LEMMA AllClosedSnap == ASSUME AllClosed' PROVE SnapInv'
<1>1. ~shm'.h0.init
  BY DEF AllClosed, EmptyShm, NoHdr, Hdr
<1>2. \A c \in Conn : con'[c].pc = "closed"
  BY DEF AllClosed, Closed, Connected
<1>3. \A c \in Conn : con'[c].pc \in Aside /\ con'[c].pc # "recoverHdr"
  BY <1>2 DEF Aside
<1>4. \A c, d \in Conn : PairOK(con'[c], con'[d])
  BY <1>3, PairAside
<1> QED BY <1>1, <1>3, <1>4 DEF SnapInv, SnapOK, RecoverOK

LEMMA SnapInit == Init => SnapInv
<1> SUFFICES ASSUME Init PROVE SnapInv
  OBVIOUS
<1>1. ~shm.h0.init
  BY DEF Init, EmptyShm, NoHdr, Hdr
<1>2. \A c \in Conn : con[c].pc = "idle"
  BY DEF Init, Connected
<1> QED BY <1>1, <1>2, UnusedSnap

LEMMA KillSnap ==
  ASSUME TypeInv, SnapInv, NEW P \in Mortal, Kill(P) PROVE SnapInv'
<1>1. /\ UNCHANGED <<log, file, past>>
      /\ \A c \in Conn : con'[c] = IF c \in P THEN Closed ELSE con[c]
      /\ AllClosed' \/ shm' = shm
  BY KillEffect
<1>2. CASE AllClosed'
  BY <1>2, AllClosedSnap
<1>3. CASE shm' = shm
  <2>1. Closed.pc = "closed" /\ (shm.h0.init => OtherOK(Closed, shm, Committed))
    BY NewConnAside
  <2>2. /\ Closed.pc \in Aside /\ ~InTxn(Closed) /\ RecoverOK(Closed, shm, log.cur)
    BY <2>1, NotInTxn DEF Aside, RecoverOK
  <2>3. SnapOK(Closed, shm, log.cur, file.cur, Committed)
    BY <2>1, <2>2, SnapAside
  <2>4. \A z : PairOK(z, Closed) /\ PairOK(Closed, z)
    BY <2>2, PairAside
  <2>5. Committed' = Committed
    BY <1>1 DEF Committed
  <2>6. \A c \in Conn : /\ SnapOK(con'[c], shm, log.cur, file.cur, Committed)
                        /\ RecoverOK(con'[c], shm, log.cur)
    BY <1>1, <2>2, <2>3 DEF SnapInv
  <2>7. \A c, d \in Conn : c # d => PairOK(con'[c], con'[d])
    BY <1>1, <2>4 DEF SnapInv
  <2>8. shm.h0.init => Common(shm, log.cur, file.cur, Committed)
    BY DEF SnapInv
  <2> QED BY <1>1, <1>3, <2>5, <2>6, <2>7, <2>8 DEF SnapInv
<1> QED BY <1>1, <1>2, <1>3

-----------------------------------------------------------------------------
(* The three invariants together.  Each needs something of the others: the    *)
(* salts of a writer, the frames of a commit, the header of a recovery and    *)
(* the pages of a checkpoint.                                                 *)

ReadInv == DataInv /\ HeadInv /\ SnapInv

LEMMA RecoverHdrRead ==
  ASSUME TypeInv, BackInv, ReadInv, NEW c \in Conn, RecoverHdr(c) PROVE ReadInv'
<1>1. con[c].pc = "recoverHdr"
  BY RecoverHdrEffect
<1>2. con[c].hdr = RecoveredHdr(log.cur)
  BY <1>1 DEF ReadInv, SnapInv, RecoverOK
<1> QED BY <1>2, RecoverHdrData, RecoverHdrHead, RecoverHdrSnap DEF ReadInv

LEMMA WriteLogHdrRead ==
  ASSUME OneWriter, TypeInv, BackInv, ReadInv, NEW c \in Conn, WriteLogHdr(c) PROVE ReadInv'
<1>1. con[c].pc = "frames"
  BY WriteLogHdrEffect
<1>2. InTxn(con[c])
  BY <1>1 DEF InTxn, Writes, Logging
<1>3. HeadOK(con[c], shm, past.salt)
  BY AtHead DEF ReadInv
<1>4. con[c].hdr.salt <= past.salt
  BY <1>2, <1>3 DEF HeadOK
<1> QED BY <1>4, WriteLogHdrData, WriteLogHdrHead, WriteLogHdrSnap DEF ReadInv

LEMMA EndFramesRead ==
  ASSUME OneWriter, TypeInv, BackInv, ReadInv, NEW c \in Conn, EndFrames(c) PROVE ReadInv'
<1> DEFINE x == con[c]
<1>1. x.pc = "append" /\ x.w.todo = <<>>
  BY EndFramesEffect
<1>2. InTxn(x)
  BY <1>1 DEF InTxn, Writes, Logging
<1>3. shm.h0.init
  BY <1>1, AtHead DEF ReadInv
<1>4. PhaseOK(x, shm, file.cur, Committed) /\ TaleOK(x, shm, file.cur, Committed)
  BY <1>2, <1>3, WriterAt DEF ReadInv
<1>5. x.hdr.sum \in Seq(Entries) /\ x.lock \in Int
  BY WriterTypes DEF ReadInv
<1> HIDE DEF x
<1>6. x.lock > 0
  BY <1>1, <1>4 DEF PhaseOK, Logging
<1>7. Base(x) = x.hdr.sum
  BY <1>1, <1>5, <1>6 DEF Base
<1>8. Tale(x) = Base(x)
  BY <1>1, <1>5, <1>7, NoTodo
<1>9. x.w.commit => x.hdr.sum # <<>>
  BY <1>4, <1>7, <1>8 DEF TaleOK
<1> QED BY <1>9, EndFramesData, EndFramesHead, EndFramesSnap DEF ReadInv, x

LEMMA CkptWriteRead ==
  ASSUME OneWriter, TypeInv, BackInv, ReadInv, NEW c \in Conn, CkptWrite(c) PROVE ReadInv'
<1>1. con[c].pc = "ckptWrite"
  BY DEF CkptWrite, Pc
<1>2. \A f \in 1..MaxFrame : con[c].w.iter[f] > 0 => PageIn(log.cur, f) \in Int
  BY <1>1, CopiedPage DEF ReadInv
<1> QED BY <1>2, CkptWriteData, CkptHead, CkptWriteSnap DEF ReadInv

LEMMA CkptEndRead ==
  ASSUME TypeInv, BackInv, ReadInv, NEW c \in Conn, CkptEnd(c) PROVE ReadInv'
<1>1. SnapInv'
  BY CkptEndSnap, AllClosedSnap DEF ReadInv
<1> QED BY <1>1, CkptEndData, LifeHead DEF ReadInv

LEMMA FramesRead ==
  ASSUME OneWriter, TypeInv, BackInv, ReadInv, NEW c \in Conn,
         NEW S \in SUBSET (1..MaxPage), S # {}, NEW n \in 0..MaxPage, NEW commit \in BOOLEAN,
         commit => n # 0, Frames(c, S, n, commit)
  PROVE  ReadInv'
<1>1. FramesFacts(c, S, n, commit)
  BY FramesEffect
<1>2. DataInv' /\ SnapInv'
  BY <1>1, FramesData, FramesSnap DEF ReadInv
<1>3. \E T \in SUBSET (1..MaxPage), m \in 0..MaxPage, b \in BOOLEAN : Frames(c, T, m, b)
  BY Zenon
<1>4. HeadInv'
  BY <1>3, WriterHead DEF ReadInv
<1> QED BY <1>2, <1>4 DEF ReadInv

LEMMA PowerLossRead ==
  ASSUME TypeInv, ReadInv, PowerLoss, TypeInv' PROVE ReadInv'
<1>1. AllClosed'
  BY PowerLossEffect
<1>2. past'.salt \in Nat
  BY DEF TypeInv, PastInv
<1> QED BY <1>1, <1>2, PowerLossData, AllClosedHead, AllClosedSnap DEF ReadInv

LEMMA ReadNext == OneWriter /\ TypeInv /\ BackInv /\ ReadInv /\ [Next]_vars => ReadInv'
<1> SUFFICES ASSUME OneWriter, TypeInv, BackInv, ReadInv, [Next]_vars PROVE ReadInv'
  OBVIOUS
<1>0. DataInv /\ HeadInv /\ SnapInv
  BY DEF ReadInv
<1>1. CASE UNCHANGED vars
  <2>1. UNCHANGED <<con, shm, log, file, past>>
    BY <1>1 DEF vars
  <2>2. DataInv'
    BY <1>0, <2>1 DEF DataInv, ShmData, FileData, PastData
  <2>3. HeadInv'
    BY <1>0, <2>1 DEF HeadInv
  <2>4. SnapInv'
    BY <1>0, <2>1 DEF SnapInv, Committed
  <2> QED BY <2>2, <2>3, <2>4 DEF ReadInv
<1>2. CASE PowerLoss
  BY <1>2, PowerLossRead, TypeNext
<1>3. ASSUME NEW P \in Mortal, Kill(P) PROVE ReadInv'
  BY <1>0, <1>3, KillData, KillHead, KillSnap DEF ReadInv
<1>4. ASSUME NEW c \in Conn, BeginRead(c) \/ RetryHdr(c) \/ Recover(c) \/ RecoverInfo(c)
      PROVE  ReadInv'
  BY <1>0, <1>4, BeginReadData, BeginReadHead, BeginReadSnap, RetryHdrData, RetryHdrHead,
     RetryHdrSnap, RecoverData, RecoverHead, RecoverSnap, RecoverInfoData, RecoverInfoHead,
     RecoverInfoSnap DEF ReadInv
<1>5. ASSUME NEW c \in Conn, Choose(c) \/ Lock0(c) \/ Pick(c) \/ LockMark(c) \/ EndRead(c)
      PROVE  ReadInv'
  BY <1>0, <1>5, QuietData, PickData, ReaderHead, ChooseSnap, Lock0Snap, PickSnap, LockMarkSnap,
     EndReadSnap DEF ReadInv
<1>6. ASSUME NEW c \in Conn, BeginWrite(c) \/ RestartLog(c) \/ RestartHdr(c) \/ RestartInfo(c)
      PROVE  ReadInv'
  BY <1>0, <1>6, QuietData, BeginWriteHead, BeginWriteSnap, RestartLogData, RestartLogHead,
     RestartLogSnap, RestartHdrData, RestartHdrHead, RestartHdrSnap, RestartInfoData, WriterHead,
     RestartInfoSnap DEF ReadInv
<1>7. ASSUME NEW c \in Conn, SyncLogHdr(c) \/ WriteFrame(c) \/ CommitHdr(c) \/ Rollback(c)
      PROVE  ReadInv'
  BY <1>0, <1>7, SyncLogHdrData, WriterHead, SyncLogHdrSnap, WriteFrameData, WriteFrameSnap,
     CommitHdrData, CommitHdrHead, CommitHdrSnap, RollbackData, RollbackHead, RollbackSnap
  DEF ReadInv
<1>8. ASSUME NEW c \in Conn, Savepoint(c) \/ SavepointUndo(c) PROVE ReadInv'
  BY <1>0, <1>8, QuietData, WriterHead, SavepointSnap, SavepointUndoData, SavepointUndoSnap
  DEF ReadInv
<1>9. ASSUME NEW c \in Conn, CkptTest(c) \/ CkptMark(c) \/ CkptLock0(c) \/ CkptDone(c)
      PROVE  ReadInv'
  BY <1>0, <1>9, CkptHead, CkptTestData, CkptTestSnap, CkptMarkData, CkptMarkSnap,
     CkptLock0Data, CkptLock0Snap, CkptDoneData, CkptDoneSnap DEF ReadInv
<1>10. ASSUME NEW c \in Conn, CkptHdr(c) \/ Open(c) \/ Close(c) PROVE ReadInv'
  BY <1>0, <1>10, QuietCkptData, CkptHdrHead, LifeHead, CkptSnap, OpenCloseSnap DEF ReadInv
<1>11. ASSUME NEW c \in Conn, NEW block \in BOOLEAN, CkptBegin(c, block) PROVE ReadInv'
  <2>1. \E b \in BOOLEAN : CkptBegin(c, b)
    BY <1>11
  <2>2. \E b : CkptBegin(c, b)
    BY <1>11
  <2> QED BY <1>0, <2>1, <2>2, QuietCkptData, LifeHead, CkptSnap DEF ReadInv
<1>12. ASSUME NEW c \in Conn,
              \/ RecoverHdr(c) \/ WriteLogHdr(c) \/ EndFrames(c) \/ CkptWrite(c) \/ CkptEnd(c)
       PROVE  ReadInv'
  BY <1>12, RecoverHdrRead, WriteLogHdrRead, EndFramesRead, CkptWriteRead, CkptEndRead
<1>13. ASSUME NEW c \in Conn, NEW S \in (SUBSET (1..MaxPage)) \ {{}},
              \/ Frames(c, S, 0, FALSE)
              \/ \E n \in 1..MaxPage : Frames(c, S, n, TRUE)
       PROVE  ReadInv'
  <2>1. 0 \in 0..MaxPage /\ \A n \in 1..MaxPage : n \in 0..MaxPage /\ n # 0
    BY Constants
  <2>2. S \in SUBSET (1..MaxPage) /\ S # {}
    OBVIOUS
  <2>3. CASE Frames(c, S, 0, FALSE)
    BY <2>1, <2>2, <2>3, FramesRead
  <2>4. ASSUME NEW n \in 1..MaxPage, Frames(c, S, n, TRUE) PROVE ReadInv'
    BY <2>1, <2>2, <2>4, FramesRead
  <2> QED BY <1>13, <2>3, <2>4
<1> QED BY Zenon, <1>1, <1>2, <1>3, <1>4, <1>5, <1>6, <1>7, <1>8, <1>9, <1>10, <1>11, <1>12,
           <1>13 DEF Next

-----------------------------------------------------------------------------
(* What a connection reads.                                                   *)

\* sqlite3WalFindFrame finds the last frame of a page, if it has one.
LEMMA FoundFrame ==
  ASSUME NEW x, NEW s \in Seq(Entries), NEW p, p # 0, x.lock # 0, x.hdr.mx \in Nat,
         Len(s) = x.hdr.mx, Indexed(s, x.hdr.mx, shm.pgno)
  PROVE  \/ FindFrame(x, p) = 0 /\ Absent(s, p)
         \/ FindFrame(x, p) \in 1..Len(s) /\ Newest(s, FindFrame(x, p), p)
<1> DEFINE mx == x.hdr.mx
           F == {f \in 1..mx : shm.pgno[f] = p}
           G == {0} \cup F
           m == Max(G)
<1>1. mx \in Nat /\ Len(s) = mx /\ FindFrame(x, p) = m
  BY DEF FindFrame
<1>2. \A f \in 1..mx : shm.pgno[f] = s[f].pg
  BY DEF Indexed
<1> HIDE DEF mx
<1>3. G \subseteq 0..mx /\ G # {}
  BY <1>1
<1> HIDE DEF G
<1>4. m \in G /\ \A g \in G : m >= g
  BY <1>1, <1>3, MaxOf
<1> HIDE DEF m
<1>5. CASE m = 0
  <2>1. \A f \in 1..mx : f \notin F
    BY <1>1, <1>4, <1>5 DEF G
  <2> QED BY <1>1, <1>2, <1>5, <2>1 DEF Absent
<1>6. CASE m # 0
  <2>1. m \in F /\ m \in 1..mx /\ m \in Nat
    BY <1>1, <1>4, <1>6 DEF G
  <2>2. ASSUME NEW g \in (m+1)..mx PROVE s[g].pg # p
    <3>1. g \in 1..mx /\ ~(m >= g)
      BY <1>1, <2>1
    <3>2. g \notin F
      BY <1>4, <3>1 DEF G
    <3> QED BY <1>2, <3>1, <3>2
  <2>3. s[m].pg = p
    BY <1>2, <2>1
  <2> QED BY <1>1, <2>1, <2>2, <2>3 DEF Newest
<1> QED BY <1>5, <1>6

LEMMA ViewShows ==
  ASSUME NEW x, x.image \in Images, NEW s \in Seq(Entries), DbSize(x) = Len(x.image),
         Shows(s, file.cur, x.image), x.lock = 0 => s = <<>>, x.hdr.mx \in Nat,
         x.lock # 0 => /\ Len(s) = x.hdr.mx /\ Indexed(s, x.hdr.mx, shm.pgno)
                       /\ Matches(s, x.hdr.mx, log.cur)
  PROVE  View(x) = x.image
<1> DEFINE img == x.image
           At1(p) == LET f == FindFrame(x, p)
                     IN  IF f > 0 THEN PageIn(log.cur, f) ELSE PageAt(file.cur, p)
<1>1. img \in Images /\ Len(img) \in Nat /\ Shows(s, file.cur, img)
  BY DEF Images
<1>2. ASSUME NEW p \in 1..Len(img) PROVE At1(p) = img[p]
  <2>1. p # 0
    BY <1>1
  <2>2. CASE x.lock = 0
    <3>1. FindFrame(x, p) = 0 /\ Absent(s, p)
      BY <2>2 DEF FindFrame, Absent
    <3>2. img[p] = PageAt(file.cur, p)
      BY <1>1, <3>1 DEF Shows
    <3> QED BY <3>1, <3>2
  <2>3. CASE x.lock # 0
    <3> DEFINE f == FindFrame(x, p)
    <3>1. \/ f = 0 /\ Absent(s, p)
          \/ f \in 1..Len(s) /\ Newest(s, f, p)
      BY <2>1, <2>3, FoundFrame
    <3>2. Matches(s, x.hdr.mx, log.cur) /\ Len(s) = x.hdr.mx
      BY <2>3
    <3>3. At1(p) = IF f > 0 THEN PageIn(log.cur, f) ELSE PageAt(file.cur, p)
      OBVIOUS
    <3> HIDE DEF f, At1, img
    <3>4. CASE f = 0 /\ Absent(s, p)
      <4>1. img[p] = PageAt(file.cur, p)
        BY <1>1, <3>4 DEF Shows
      <4> QED BY <3>3, <3>4, <4>1
    <3>5. CASE f \in 1..Len(s) /\ Newest(s, f, p)
      <4>1. img[p] = s[f].ver
        BY <1>1, <3>5 DEF Shows
      <4>2. PageIn(log.cur, f) = s[f].ver
        BY <3>2, <3>5 DEF PageIn, Matches
      <4>3. f > 0
        BY <3>5
      <4> QED BY <3>3, <4>1, <4>2, <4>3
    <3> QED BY <3>1, <3>4, <3>5
  <2> QED BY <2>2, <2>3
<1>3. View(x) = [p \in 1..Len(img) |-> At1(p)]
  BY DEF View
<1> HIDE DEF At1, img
<1>4. img = [p \in 1..Len(img) |-> img[p]]
  BY <1>1 DEF Images
<1>5. [p \in 1..Len(img) |-> At1(p)] = [p \in 1..Len(img) |-> img[p]]
  BY <1>2
<1> QED BY <1>3, <1>4, <1>5, Zenon DEF img

LEMMA ReaderSees ==
  ASSUME TypeInv, ReadInv, NEW c \in Conn, Reads(con[c])
  PROVE  View(con[c]) = con[c].image
<1> DEFINE x == con[c]
           h == x.hdr
<1>1. x.pc = "read" /\ WRITE \notin x.excl
  BY DEF Reads
<1>2. ReaderOK(x, shm, log.cur, file.cur, Committed)
  BY <1>1, AtHead, SnapAt DEF ReadInv
<1>3. x.image \in Images /\ x.lock \in Int /\ h.mx \in Nat /\ HdrOK(h)
  BY WriterTypes, AtConn DEF ReadInv, ConnType
<1>4. DbSize(x) = Len(x.image)
  BY <1>1, <1>2 DEF DbSize, ReaderOK, SizeOf
<1>5. CASE x.lock = 0
  <2>1. Shows(<<>>, file.cur, x.image)
    BY <1>2, <1>5 DEF ReaderOK
  <2>2. <<>> \in Seq(Entries)
    OBVIOUS
  <2> HIDE DEF x, h
  <2>3. x.hdr.mx \in Nat
    BY <1>3 DEF h
  <2>4. View(x) = x.image
    BY <1>3, <1>4, <1>5, <2>1, <2>2, <2>3, ViewShows
  <2> QED BY <2>4 DEF x
<1>6. CASE x.lock # 0
  <2>1. x.lock > 0
    BY <1>2, <1>3, <1>6 DEF ReaderOK
  <2>2. Held(h, shm, log.cur) /\ Shows(Eff(h), file.cur, x.image)
    BY <1>2, <2>1 DEF ReaderOK
  <2>3. Eff(h) \in Seq(Entries) /\ Len(Eff(h)) = h.mx /\ (h.mx > 0 => Eff(h) = h.sum)
    BY <1>3, <2>2, EffOK DEF Held
  <2> HIDE DEF x, h
  <2>4. Indexed(Eff(h), h.mx, shm.pgno) /\ Matches(Eff(h), h.mx, log.cur)
    <3>1. CASE h.mx > 0
      BY <2>2, <2>3, <3>1 DEF Held
    <3>2. CASE ~(h.mx > 0)
      <4>1. \A f \in 1..h.mx : FALSE
        BY <1>3, <3>2
      <4> QED BY <4>1 DEF Indexed, Matches
    <3> QED BY <3>1, <3>2
  <2>5. View(x) = x.image
    <3> DEFINE e == Eff(h)
    <3>1. /\ e \in Seq(Entries) /\ Len(e) = x.hdr.mx /\ Indexed(e, x.hdr.mx, shm.pgno)
          /\ Matches(e, x.hdr.mx, log.cur) /\ Shows(e, file.cur, x.image) /\ x.hdr.mx \in Nat
      BY <1>3, <2>2, <2>3, <2>4 DEF h
    <3> HIDE DEF e
    <3> QED BY <1>3, <1>4, <1>6, <3>1, ViewShows
  <2> QED BY <2>5 DEF x
<1> QED BY <1>5, <1>6

LEMMA WriterSees ==
  ASSUME TypeInv, ReadInv, NEW c \in Conn, con[c].pc = "read", WRITE \in con[c].excl
  PROVE  View(con[c]) = con[c].image
<1> DEFINE x == con[c]
           h == x.hdr
<1>1. x.pc = "read" /\ WRITE \in x.excl
  OBVIOUS
<1>2. InTxn(x)
  BY <1>1 DEF InTxn, Writes
<1>3. /\ PhaseOK(x, shm, file.cur, Committed) /\ LoggedOK(x, shm, log.cur)
      /\ TaleOK(x, shm, file.cur, Committed)
  BY <1>1, <1>2, AtHead, WriterAt DEF ReadInv
<1>4. /\ x.image \in Images /\ x.lock \in Int /\ h.mx \in Nat /\ h.sum \in Seq(Entries)
  BY WriterTypes DEF ReadInv
<1>5. DbSize(x) = Len(x.image)
  BY <1>1 DEF DbSize
<1> HIDE DEF x, h
<1> DEFINE b == Base(x)
<1>6. /\ b \in Seq(Entries) /\ (x.lock = 0 => b = <<>>)
      /\ x.lock # 0 => b = IF h.mx = 0 THEN <<>> ELSE h.sum
  <2>1. <<>> \in Seq(Entries)
    OBVIOUS
  <2> QED BY <1>1, <1>4, <2>1 DEF Base, h
<1>7. Shows(b, file.cur, x.image)
  <2>1. x.w.todo = <<>>
    BY <1>1, <1>3 DEF PhaseOK
  <2>2. Tale(x) = b
    BY <1>6, <2>1, NoTodo
  <2> QED BY <1>3, <2>2 DEF TaleOK
<1> HIDE DEF b
<1>8. ASSUME x.lock # 0
      PROVE  /\ Len(b) = h.mx /\ Indexed(b, h.mx, shm.pgno) /\ Matches(b, h.mx, log.cur)
  <2>1. CASE h.mx = 0
    <3>1. \A f \in 1..h.mx : FALSE
      BY <2>1
    <3> QED BY <1>6, <1>8, <2>1, <3>1 DEF Indexed, Matches
  <2>2. CASE h.mx # 0
    <3>1. b = h.sum /\ h.mx > 0
      BY <1>4, <1>6, <1>8, <2>2
    <3>2. Len(h.sum) = h.mx
      BY <1>1, <1>3, <3>1 DEF LoggedOK, h
    <3>3. Matches(b, Len(b), log.cur) /\ Indexed(h.sum, h.mx, shm.pgno)
      BY <1>3, <1>8 DEF LoggedOK, h, b
    <3> QED BY <3>1, <3>2, <3>3
  <2> QED BY <2>1, <2>2
<1>9. x.hdr.mx \in Nat
  BY <1>4 DEF h
<1>10. x.lock # 0 => /\ Len(b) = x.hdr.mx /\ Indexed(b, x.hdr.mx, shm.pgno)
                     /\ Matches(b, x.hdr.mx, log.cur)
  BY <1>8 DEF h
<1>11. View(x) = x.image
  BY <1>4, <1>5, <1>6, <1>7, <1>9, <1>10, ViewShows
<1> QED BY <1>11 DEF x

LEMMA ReadGivesSnapshot == TypeInv /\ ReadInv => Snapshot /\ CacheCurrent
<1> SUFFICES ASSUME TypeInv, ReadInv PROVE Snapshot /\ CacheCurrent
  OBVIOUS
<1>1. Snapshot
  BY ReaderSees, WriterSees DEF Snapshot, Pc, Reads
<1>2. ASSUME NEW c \in Conn, Pc(c, "read"), con[c].excl = {} PROVE con[c].cache = con[c].image
  <2>1. con[c].pc = "read" /\ Reads(con[c])
    BY <1>2 DEF Pc, Reads
  <2>2. ReaderOK(con[c], shm, log.cur, file.cur, Committed)
    BY <2>1, AtHead, SnapAt DEF ReadInv
  <2> QED BY <2>1, <2>2 DEF ReaderOK
<1> QED BY <1>1, <1>2 DEF CacheCurrent

LEMMA ReadInit == Init => ReadInv
BY DataInit, HeadInit, SnapInit DEF ReadInv

LEMMA AllNext ==
  OneWriter /\ TypeInv /\ BackInv /\ ReadInv /\ [Next]_vars => (TypeInv /\ BackInv /\ ReadInv)'
BY TypeNext, BackNext, ReadNext

\* A read transaction sees, in every page that sqlite3WalFindFrame finds in the log or
\* leaves to the database file, the image that was committed when it began, for as long
\* as it lasts, and a write transaction that image with its own changes and undone
\* savepoints, whatever checkpoints copy into the file or cut off it, and whatever
\* restarts and recoveries make of the log meanwhile.  One connection writes and
\* checkpoints, and it does not die without the others.
THEOREM SnapshotHolds ==
  ASSUME OneWriter
  PROVE  Spec => []Snapshot
<1>1. Init => TypeInv /\ BackInv /\ ReadInv
  BY TypeInit, BackInit, ReadInit
<1>2. TypeInv /\ BackInv /\ ReadInv /\ [Next]_vars => (TypeInv /\ BackInv /\ ReadInv)'
  BY AllNext
<1>3. TypeInv /\ BackInv /\ ReadInv => Snapshot
  BY ReadGivesSnapshot
<1> QED BY <1>1, <1>2, <1>3, PTL DEF Spec

\* The pages that a pager kept from its last transaction are those of the snapshot of
\* the new one, because pagerBeginReadTransaction empties the cache whenever the header
\* that walIndexTryHdr loads is another than the one it had, and sqlite3WalCheckpoint
\* forgets a header that it loaded without telling the pager.  One connection writes and
\* checkpoints, and it does not die without the others.
THEOREM CacheCurrentHolds ==
  ASSUME OneWriter
  PROVE  Spec => []CacheCurrent
<1>1. Init => TypeInv /\ BackInv /\ ReadInv
  BY TypeInit, BackInit, ReadInit
<1>2. TypeInv /\ BackInv /\ ReadInv /\ [Next]_vars => (TypeInv /\ BackInv /\ ReadInv)'
  BY AllNext
<1>3. TypeInv /\ BackInv /\ ReadInv => CacheCurrent
  BY ReadGivesSnapshot
<1> QED BY <1>1, <1>2, <1>3, PTL DEF Spec

=============================================================================
