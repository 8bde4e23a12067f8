--------------------------- MODULE WalRecoveryProofs ---------------------------
(* Proofs about Wal, continued: that what a recovery finds in the log and the *)
(* database file is the last commit, or the one that is being written         *)
(* (Recoverable), whatever dies and, when the power goes, whatever of the     *)
(* unsynced writes survives, when one connection writes and checkpoints.      *)
EXTENDS WalSnapshotProofs

-----------------------------------------------------------------------------
(* What a recovery reads in a log.                                            *)

\* The frames that a recovery of the log l accepts.
Text(l) == RecoveredHdr(l).sum

Begins(s, t) == Len(s) <= Len(t) /\ s = SubSeq(t, 1, Len(s))

\* The frames of the log l begin with s.
Chained(s, l) == \A i \in 1..Len(s) : FrameOf(l, i) = Frame(l.salt, SubSeq(s, 1, i))

\* They do, and s ends with a commit.
Spelled(s, l) == s = <<>> \/ (l.salt > 0 /\ Last(s).n > 0 /\ Chained(s, l))

\* Over the database file db, the frames s stand for the image.
Pictured(s, db, img) ==
  Len(img) = (IF s = <<>> THEN Len(db) ELSE Last(s).n) /\ Shows(s, db, img)

-----------------------------------------------------------------------------
(* What the files tell, whatever the wal-index and the connections say.       *)

\* A commit frame at place i of a log with that salt.
Ends(fr, i, salt) == fr.salt = salt /\ Len(fr.sum) = i /\ i > 0 /\ Last(fr.sum).n > 0

FramesAt(c, d, i) == {FrameOf(c, i), FrameOf(d, i)}

\* One of the frames before the end of s was overwritten, in c and in d, and will not be
\* written again: its version is one of G.
Dead(s, c, d, G) ==
  \E j \in 1..Len(s) : s[j].ver \in G /\ Frame(c.salt, SubSeq(s, 1, j)) \notin FramesAt(c, d, j)

\* Every commit frame in the written log c or in the durable one d belongs to what c tells,
\* or is the remains of a transaction that will never be whole again.
Story(c, d, G) ==
  \A i \in 1..MaxFrame : \A fr \in FramesAt(c, d, i) :
    Ends(fr, i, c.salt) => Begins(fr.sum, Text(c)) \/ Dead(fr.sum, c, d, G)

\* The versions of which no frame is still to be written.
Gone == {v \in Nat : v <= past.ver /\ (v = past.ver => \A c \in Conn : con[c].w.todo = <<>>)}

StoryInv == Story(log.cur, log.dur, Gone)

FrameNum(fr, p) ==
  /\ fr.salt <= p.salt /\ (fr.sum # <<>> => fr.salt > 0)
  /\ \A k \in 1..Len(fr.sum) : fr.sum[k].ver <= p.ver

NumInv ==
  /\ \A l \in {log.cur, log.dur}, i \in 1..MaxFrame : FrameNum(FrameOf(l, i), past)
  /\ \A c \in Conn : \A k \in DOMAIN con[c].w.todo : con[c].w.todo[k].ver = past.ver
  /\ Len(file.cur) \in 1..MaxPage /\ Len(file.dur) \in 1..MaxPage
  /\ past.full \in FullSync

\* The log file and its durable form have the same header.
OneHeader(lg) == ~lg.new /\ lg.cur.salt = lg.dur.salt

Strict(p) == p.full /\ "power" \in Env

\* What a power loss may leave: with synchronous=FULL only the last commit.
Old(p) == IF Strict(p) THEN {Last(p.images)} ELSE {p.images[k] : k \in DOMAIN p.images}

\* Each commit that the durable log may or may not have stands for a committed image.
Pictures(lg, db, p) ==
  \A m \in Len(Text(lg.dur))..(Len(Text(lg.cur)) - 1) :
    m = 0 \/ Text(lg.cur)[m].n > 0 =>
      \E img \in Old(p) : Pictured(SubSeq(Text(lg.cur), 1, m), db, img)

\* The pages that the database file may or may not have are in the durable log.
FilesAgree(lg, fl) ==
  /\ \A p \in 1..MaxPage : PageAt(fl.cur, p) = PageAt(fl.dur, p) \/ ~Absent(Text(lg.dur), p)
  /\ Text(lg.dur) = <<>> => fl.cur = fl.dur

OneHdr == OneHeader(log) => Pictures(log, file.cur, past) /\ FilesAgree(log, file)

\* Each frame of l is the one of c or of d; where they differ it may be torn.
Mixed(l, c, d) ==
  \A i \in 1..MaxFrame :
    /\ FrameOf(l, i) \in FramesAt(c, d, i) \cup {Torn}
    /\ FrameOf(c, i) = FrameOf(d, i) => FrameOf(l, i) = FrameOf(c, i)

\* What a power loss may leave of the log file under the old header.
Remains(l, lg) == l.salt = lg.dur.salt /\ IF lg.new THEN l = lg.dur ELSE Mixed(l, lg.cur, lg.dur)

AllInFile == file.cur = Committed /\ file.dur = Committed

\* Before the log begins anew, everything is in the database file, and what remains of the
\* old log stands for the same image.
TwoHdr ==
  ~OneHeader(log) =>
    /\ AllInFile /\ Text(log.cur) = <<>>
    /\ \A l \in Logs : Remains(l, log) => Pictured(Text(l), file.cur, Committed)

PersistInv == StoryInv /\ NumInv /\ OneHdr /\ TwoHdr /\ Recoverable

-----------------------------------------------------------------------------
(* What the wal-index and the connections know of the files.                  *)

\* The last frame of a commit is written, the header is not.
InFlight(x) == x.pc = "commitHdr" \/ (x.pc = "append" /\ x.w.commit /\ x.w.todo = <<>>)
Flying == \E c \in Conn : InFlight(con[c])

\* A salt with which the log can begin anew: none of its frames has it, or those that have
\* tell nothing.
FreshSalt(n, lg) ==
  \A l \in {lg.cur, lg.dur} : l.salt < n /\ \A i \in 1..MaxFrame : FrameOf(l, i).salt < n
SaltFit(n, lg) == n > 0 /\ ((n = lg.cur.salt /\ Text(lg.cur) = <<>>) \/ FreshSalt(n, lg))

FlightOK(x, s, lg, p) ==
  s.h0.init /\ InFlight(x) =>
    Text(lg.cur) = x.hdr.sum /\ p.flight = x.image /\ s.h0.mx < Len(x.hdr.sum)

Quiet(s, j, k) == \A i \in (j+1)..k : s[i].n = 0

\* A writer goes on in the log that the file has.
OnLog(x) == x.pc \in {"append", "commitHdr"} \/ (x.lock # 0 /\ x.hdr.mx > 0)

DraftOK(x, s, lg) ==
  s.h0.init /\ InTxn(x) =>
  /\ x.lock # 0 => /\ Chained(Base(x), lg.cur)
                   /\ Quiet(Base(x), s.h0.mx, IF InFlight(x) THEN Len(Base(x)) - 1 ELSE Len(Base(x)))
  /\ x.pc = "syncHdr" => x.hdr.salt = lg.cur.salt /\ lg.cur.salt > 0
  /\ OnLog(x) => x.hdr.salt = lg.cur.salt /\ lg.cur.salt > 0 /\ OneHeader(lg)
  /\ \A k \in DOMAIN x.w.todo : x.w.todo[k].n > 0 <=> (x.w.commit /\ k = Len(x.w.todo))
  /\ x.w.commit /\ x.pc # "append" => x.w.todo # <<>>
  /\ x.nCkpt > 0 /\ x.pc # "restartHdr" => x.hdr.salt = s.h0.salt
  /\ x.hdr.mx = 0 /\ x.nCkpt > 0 /\ x.pc \notin {"syncHdr", "append"} => SaltFit(x.hdr.salt, lg)
  /\ s.h0.mx = 0 /\ ~InFlight(x) /\ (x.pc = "syncHdr" \/ OnLog(x)) => Text(lg.cur) = <<>>
  /\ x.lock = 0 => s.h0.mx <= s.nBackfill

\* A connection that restarts the log takes a salt that fits.
SaltOK(c, x, s, lg) ==
  /\ s.h0.init /\ s.h0.mx = 0 /\ c \in Writers /\ x.nCkpt > 0 /\ ~InFlight(x) => SaltFit(s.h0.salt, lg)
  /\ x.nCkpt > 0 => s.h0.init \/ (x.pc = "recoverHdr" /\ HasFrames(lg.cur))

\* A reader that ignores the log; a checkpoint; the checkpoint of a close.
RestOK(x, s, lg, p) ==
  /\ ~InTxn(x) => x.w.todo = <<>>
  /\ s.h0.init /\ x.pc = "read" /\ x.lock = 0 /\ x.hdr = s.h0 => s.h0.mx <= s.nBackfill
  /\ x.pc = "ckptWrite" => OneHeader(lg) /\ lg.cur = lg.dur
  /\ x.w.close /\ x.pc \in {"ckptMark", "ckptLock0", "ckptWrite"} => x.w.safe = s.h0.mx
  /\ x.w.close /\ x.pc = "ckptEnd" => s.h0.init /\ s.h0.mx <= s.nBackfill
  /\ x.pc = "commitHdr" /\ Strict(p) => lg.cur = lg.dur

LinkOK(c, x, s, lg, p) ==
  FlightOK(x, s, lg, p) /\ DraftOK(x, s, lg) /\ SaltOK(c, x, s, lg) /\ RestOK(x, s, lg, p)

\* The shared header tells what the log tells, unless a commit is in flight.
LatestOK ==
  shm.h0.init =>
  /\ ~Flying => /\ Pictured(Text(log.cur), file.cur, Committed)
                /\ shm.h0.mx > 0 => Text(log.cur) = shm.h0.sum
  /\ shm.h0.mx > 0 => shm.h0.salt = log.cur.salt /\ log.cur.salt > 0 /\ OneHeader(log)
  /\ shm.h0.mx <= shm.nBackfill =>
       AllInFile /\ (~Flying /\ OneHeader(log) => Text(log.dur) = Text(log.cur))

\* With synchronous=FULL a commit is durable before it is visible.
SyncedOK == Strict(past) => Flying \/ Text(log.dur) = Text(log.cur) \/ ~OneHeader(log)

LinkInv == LatestOK /\ SyncedOK /\ \A c \in Conn : LinkOK(c, con[c], shm, log, past)

\* With synchronous=FULL, where the power can fail, the process that writes does not die
\* before that.  A commit frame that is written when its writer dies, and not yet synced, is
\* accepted by the next recovery, is seen by readers, and is lost with the power: EndFrames
\* syncs a commit before it shows it, walIndexRecover does not.
NoLateLoss == "power" \in Env /\ TRUE \in FullSync => \A P \in Mortal : P \cap Writers = {}

-----------------------------------------------------------------------------
(* Sequences of entries.                                                      *)

LEMMA PrefixAt ==
  ASSUME NEW s \in Seq(Entries), NEW i \in 0..Len(s)
  PROVE  /\ SubSeq(s, 1, i) \in Seq(Entries) /\ Len(SubSeq(s, 1, i)) = i
         /\ \A k \in 1..i : SubSeq(s, 1, i)[k] = s[k]
         /\ i > 0 => Last(SubSeq(s, 1, i)) = s[i] /\ SubSeq(s, 1, i) # <<>>
         /\ i > 0 => Front(SubSeq(s, 1, i)) = SubSeq(s, 1, i - 1)
         /\ \A k \in 0..i : SubSeq(SubSeq(s, 1, i), 1, k) = SubSeq(s, 1, k)
<1> DEFINE t == SubSeq(s, 1, i)
<1>1. i \in Int /\ 0 <= i /\ i <= Len(s) /\ Len(s) \in Nat
  OBVIOUS
<1>2. t \in Seq(Entries) /\ Len(t) = i /\ \A k \in 1..i : t[k] = s[k]
  BY <1>1
<1>3. ASSUME NEW k \in 0..i PROVE SubSeq(t, 1, k) = SubSeq(s, 1, k)
  <2>1. k \in Int /\ 0 <= k /\ k <= i
    BY <1>1
  <2>2. /\ SubSeq(t, 1, k) \in Seq(Entries) /\ Len(SubSeq(t, 1, k)) = k
        /\ \A j \in 1..k : SubSeq(t, 1, k)[j] = t[j]
    <3> HIDE DEF t
    <3> QED BY <1>2, <2>1
  <2>3. /\ SubSeq(s, 1, k) \in Seq(Entries) /\ Len(SubSeq(s, 1, k)) = k
        /\ \A j \in 1..k : SubSeq(s, 1, k)[j] = s[j]
    BY <1>1, <2>1
  <2>4. \A j \in 1..k : SubSeq(t, 1, k)[j] = SubSeq(s, 1, k)[j]
    <3> HIDE DEF t
    <3> QED BY <1>1, <1>2, <2>1, <2>2, <2>3
  <2> HIDE DEF t
  <2> QED BY <2>1, <2>2, <2>3, <2>4
<1> HIDE DEF t
<1>4. ASSUME i > 0 PROVE Last(t) = s[i] /\ t # <<>> /\ Front(t) = SubSeq(s, 1, i - 1)
  <2>1. Last(t) = t[i] /\ i \in 1..i
    BY <1>1, <1>2, <1>4 DEF Last
  <2>2. Front(t) = SubSeq(t, 1, i - 1) /\ i - 1 \in 0..i
    BY <1>1, <1>2, <1>4 DEF Front
  <2>3. t # <<>>
    BY <1>2, <1>4
  <2> QED BY <1>2, <1>3, <2>1, <2>2, <2>3
<1> QED BY <1>2, <1>3, <1>4 DEF t

LEMMA BeginsAt ==
  ASSUME NEW s \in Seq(Entries), NEW t \in Seq(Entries), Begins(s, t)
  PROVE  /\ Len(s) \in 0..Len(t) /\ \A k \in 1..Len(s) : s[k] = t[k]
         /\ \A k \in 0..Len(s) : SubSeq(s, 1, k) = SubSeq(t, 1, k)
<1>1. Len(s) \in 0..Len(t) /\ s = SubSeq(t, 1, Len(s))
  BY DEF Begins
<1>2. /\ \A k \in 1..Len(s) : SubSeq(t, 1, Len(s))[k] = t[k]
      /\ \A k \in 0..Len(s) : SubSeq(SubSeq(t, 1, Len(s)), 1, k) = SubSeq(t, 1, k)
  BY <1>1, PrefixAt
<1> QED BY <1>1, <1>2

LEMMA BeginsItself ==
  ASSUME NEW s \in Seq(Entries)
  PROVE  s = SubSeq(s, 1, Len(s)) /\ Begins(s, s) /\ Begins(<<>>, s)
<1>1. s = SubSeq(s, 1, Len(s)) /\ Len(s) \in Nat
  OBVIOUS
<1>2. <<>> = SubSeq(s, 1, 0) /\ Len(<<>>) = 0
  OBVIOUS
<1> QED BY <1>1, <1>2 DEF Begins

LEMMA BeginsThrough ==
  ASSUME NEW s \in Seq(Entries), NEW t \in Seq(Entries), NEW u \in Seq(Entries),
         Begins(s, t), Begins(t, u)
  PROVE  Begins(s, u)
<1>1. Len(s) \in 0..Len(t) /\ Len(t) \in 0..Len(u) /\ s = SubSeq(t, 1, Len(s))
  BY BeginsAt DEF Begins
<1>2. SubSeq(t, 1, Len(s)) = SubSeq(u, 1, Len(s))
  BY <1>1, BeginsAt
<1>3. Len(s) <= Len(u)
  BY <1>1
<1> QED BY <1>1, <1>2, <1>3 DEF Begins

LEMMA BeginsWhole ==
  ASSUME NEW s \in Seq(Entries), NEW t \in Seq(Entries), Begins(s, t), Len(t) <= Len(s)
  PROVE  s = t
<1>1. Len(s) = Len(t)
  BY BeginsAt
<1> QED BY <1>1, BeginsItself DEF Begins

-----------------------------------------------------------------------------
(* What a log tells is the longest sequence that its frames spell.            *)

LEMMA FrameOfType ==
  ASSUME NEW l \in Logs, NEW i \in Nat \ {0}
  PROVE  /\ FrameOf(l, i) \in FrameSet /\ FrameOf(l, i).sum \in Sums /\ FrameOf(l, i).salt \in Nat
         /\ FrameOf(l, i).sum \in Seq(Entries)
         /\ FrameOf(l, i).salt # 0 => i \in 1..Len(l.frames) /\ FrameOf(l, i) = l.frames[i]
<1>1. l.frames \in Seq(FrameSet) /\ Len(l.frames) \in Nat
  BY DEF Logs
<1>2. <<>> \in Seq(Entries) /\ Len(<<>>) = 0
  OBVIOUS
<1>3. Torn \in FrameSet /\ Torn.salt = 0
  BY <1>2, Constants DEF Torn, Frame, FrameSet, Sums
<1>4. CASE i <= Len(l.frames)
  <2>1. i \in 1..Len(l.frames) /\ FrameOf(l, i) = l.frames[i]
    BY <1>1, <1>4 DEF FrameOf
  <2>2. l.frames[i] \in FrameSet
    BY <1>1, <2>1
  <2> QED BY <2>1, <2>2 DEF FrameSet, Sums
<1>5. CASE ~(i <= Len(l.frames))
  <2>1. FrameOf(l, i) = Torn
    BY <1>5 DEF FrameOf
  <2> QED BY <1>3, <2>1 DEF FrameSet, Sums
<1> QED BY <1>4, <1>5

LEMMA TextType ==
  ASSUME NEW l \in Logs
  PROVE  /\ Text(l) \in Seq(Entries) /\ Text(l) \in Sums /\ Len(Text(l)) \in 0..MaxFrame
         /\ Len(Text(l)) = RecoveredHdr(l).mx
         /\ Text(l) # <<>> => /\ Last(Text(l)).n > 0 /\ l.salt > 0
                              /\ Last(Text(l)) = Text(l)[Len(Text(l))]
                              /\ Text(l) = l.frames[Len(Text(l))].sum
                              /\ Len(Text(l)) \in 1..ValidFrames(l)
<1> DEFINE h == RecoveredHdr(l)
<1>1. HdrOK(h) /\ h.mx \in 0..ValidFrames(l) /\ h.mx \in Nat
  BY RecoveredFields DEF HdrOK
<1>2. Text(l) \in Sums /\ Len(Text(l)) \in 0..MaxFrame
  BY <1>1, HdrNumbers DEF Text, HdrOK
<1>3. CASE h.mx = 0
  BY <1>1, <1>2, <1>3, RecoveredFields DEF Text, Sums
<1>4. CASE h.mx > 0
  <2>1. h.sum = l.frames[h.mx].sum /\ Len(h.sum) = h.mx /\ h.n = Last(h.sum).n /\ h.n > 0
    BY <1>4, RecoveredFields
  <2>2. Text(l) # <<>>
    BY <1>4, <2>1 DEF Text
  <2>3. ValidFrames(l) \in Nat
    BY ValidFramesOK DEF Logs
  <2>4. HasFrames(l)
    BY <1>1, <1>4, <2>3 DEF ValidFrames
  <2>5. l.salt > 0
    BY <2>4 DEF HasFrames, Logs
  <2>6. h.mx \in 1..ValidFrames(l)
    BY <1>1, <1>4, <2>3
  <2>7. Last(Text(l)) = Text(l)[Len(Text(l))]
    BY <1>2, <2>2, SumLast
  <2>8. Text(l) \in Seq(Entries)
    BY <1>2 DEF Sums
  <2> HIDE DEF h
  <2> QED BY <1>2, <2>1, <2>2, <2>5, <2>6, <2>7, <2>8 DEF Text, h
<1> QED BY <1>1, <1>3, <1>4

LEMMA FramePrefix ==
  ASSUME NEW l \in Logs, NEW k \in 1..ValidFrames(l), NEW i \in 1..k
  PROVE  l.frames[i].sum = SubSeq(l.frames[k].sum, 1, i) /\ FrameOf(l, i) = l.frames[i]
         /\ l.frames[i] = Frame(l.salt, l.frames[i].sum)
<1> DEFINE s == l.frames[k].sum
           t == l.frames[i].sum
<1>1. ValidFrames(l) \in 0..Len(l.frames) /\ Len(l.frames) \in Nat
  BY ValidFramesOK DEF Logs
<1>2. i \in 1..ValidFrames(l) /\ i \in Nat /\ k \in Nat /\ i <= k
  BY <1>1
<1>3. /\ s \in Seq(Entries) /\ Len(s) = k /\ t \in Seq(Entries) /\ Len(t) = i
      /\ i \in 1..Len(l.frames)
  BY <1>2, FrameEntry DEF Sums
<1>4. \A f \in 1..i : t[f] = s[f]
  <2> SUFFICES ASSUME NEW f \in 1..i PROVE t[f] = s[f]
    OBVIOUS
  <2>1. f \in 1..k
    BY <1>2
  <2> QED BY <1>2, <2>1, FrameChain
<1>5. l.frames[i] \in FrameSet /\ l.frames[i].salt = l.salt
  <2>1. ValidFrame(l, i)
    BY <1>2, ValidFramesOK
  <2> QED BY <1>3, <2>1 DEF ValidFrame, Logs
<1>6. FrameOf(l, i) = l.frames[i]
  BY <1>3 DEF FrameOf
<1>7. l.frames[i] = Frame(l.salt, t)
  BY <1>5 DEF FrameSet, Frame
<1> HIDE DEF s, t
<1>8. /\ SubSeq(s, 1, i) \in Seq(Entries) /\ Len(SubSeq(s, 1, i)) = i
      /\ \A f \in 1..i : SubSeq(s, 1, i)[f] = s[f]
  BY <1>2, <1>3
<1>9. t = SubSeq(s, 1, i)
  BY <1>3, <1>4, <1>8
<1> QED BY <1>6, <1>7, <1>9 DEF s, t

LEMMA TextSpelled ==
  ASSUME NEW l \in Logs
  PROVE  Spelled(Text(l), l) /\ Chained(Text(l), l)
<1>1. CASE Text(l) = <<>>
  BY <1>1 DEF Spelled, Chained
<1>2. CASE Text(l) # <<>>
  <2> DEFINE m == Len(Text(l))
  <2>1. m \in 1..ValidFrames(l) /\ Text(l) = l.frames[m].sum /\ Last(Text(l)).n > 0 /\ l.salt > 0
    BY <1>2, TextType
  <2>2. \A i \in 1..m : FrameOf(l, i) = Frame(l.salt, SubSeq(Text(l), 1, i))
    <3> SUFFICES ASSUME NEW i \in 1..m PROVE FrameOf(l, i) = Frame(l.salt, SubSeq(Text(l), 1, i))
      OBVIOUS
    <3> QED BY <2>1, FramePrefix
  <2> QED BY <2>1, <2>2 DEF Spelled, Chained
<1> QED BY <1>1, <1>2

LEMMA TextLongest ==
  ASSUME NEW l \in Logs, NEW s \in Seq(Entries), s # <<>>, Spelled(s, l)
  PROVE  Begins(s, Text(l)) /\ Len(s) \in 1..MaxFrame
<1> DEFINE n == Len(s)
           v == ValidFrames(l)
           commits == {i \in 1..v : Last(l.frames[i].sum).n > 0}
           mx == Max(commits \cup {0})
           K == {k \in 0..Len(l.frames) : \A i \in 1..k : ValidFrame(l, i)}
<1>1. n \in Nat /\ n >= 1 /\ l.salt > 0 /\ Last(s).n > 0 /\ l.salt \in Nat
  BY DEF Spelled, Logs
<1>2. Len(l.frames) \in Nat /\ Len(l.frames) <= MaxFrame /\ MaxFrame \in Nat
  BY Constants DEF Logs
<1>3. ASSUME NEW i \in 1..n
      PROVE  /\ i \in 1..Len(l.frames) /\ l.frames[i].salt = l.salt
             /\ l.frames[i].sum = SubSeq(s, 1, i)
  <2>1. FrameOf(l, i) = Frame(l.salt, SubSeq(s, 1, i))
    BY <1>1 DEF Spelled, Chained
  <2>2. FrameOf(l, i).salt # 0 /\ i \in Nat \ {0}
    BY <1>1, <2>1 DEF Frame
  <2>3. i \in 1..Len(l.frames) /\ FrameOf(l, i) = l.frames[i]
    BY <2>2, FrameOfType
  <2> QED BY <2>1, <2>3 DEF Frame
<1>4. ASSUME NEW i \in 1..n PROVE ValidFrame(l, i)
  <2>1. i \in 0..n /\ i \in Nat /\ i >= 1
    BY <1>1
  <2>2. Len(l.frames[i].sum) = i /\ l.frames[i].salt = l.salt
    BY <1>3, <2>1, PrefixAt
  <2>3. ASSUME i > 1 PROVE Front(l.frames[i].sum) = l.frames[i - 1].sum
    <3>1. i - 1 \in 1..n
      BY <1>1, <2>1, <2>3
    <3>2. Front(SubSeq(s, 1, i)) = SubSeq(s, 1, i - 1)
      BY <2>1, PrefixAt
    <3> QED BY <1>3, <3>1, <3>2
  <2> QED BY <2>2, <2>3 DEF ValidFrame
<1>5. n \in 1..n /\ n \in 1..Len(l.frames)
  BY <1>1, <1>3
<1>6. HasFrames(l)
  BY <1>1, <1>2, <1>5 DEF HasFrames
<1>7. v = Max(K) /\ n \in K
  BY <1>2, <1>4, <1>5, <1>6 DEF ValidFrames
<1>8. v \in Nat /\ v >= n /\ v \in 0..Len(l.frames)
  <2>1. K \subseteq 0..Len(l.frames) /\ K # {}
    BY <1>7
  <2>2. v \in 0..Len(l.frames)
    BY ValidFramesOK
  <2> HIDE DEF K, v
  <2>3. v >= n
    BY <1>2, <1>7, <2>1, MaxOf
  <2> QED BY <1>2, <2>2, <2>3
<1>9. n \in 1..v
  BY <1>1, <1>8
<1>10. l.frames[n].sum = s
  BY <1>3, <1>5, BeginsItself
<1>11. n \in commits
  BY <1>1, <1>9, <1>10
<1>12. mx >= n /\ mx \in commits /\ mx \in Nat
  <2>1. commits \cup {0} \subseteq 0..v /\ commits \cup {0} # {}
    BY <1>8
  <2>2. \A x \in commits : x \in 1..v
    OBVIOUS
  <2> HIDE DEF commits, v
  <2>3. mx \in commits \cup {0} /\ mx >= n
    BY <1>8, <1>11, <2>1, MaxOf
  <2> HIDE DEF mx
  <2> QED BY <1>1, <1>8, <2>2, <2>3
<1>13. Len(Text(l)) = mx
  <2>1. mx # 0
    <3> HIDE DEF mx
    <3> QED BY <1>1, <1>12
  <2>2. RecoveredHdr(l) = Hdr(TRUE, 0, mx, Last(l.frames[mx].sum).n, l.salt, l.frames[mx].sum)
    BY <2>1 DEF RecoveredHdr
  <2>3. RecoveredHdr(l).mx = mx
    BY <2>2 DEF Hdr
  <2> QED BY <2>3, TextType
<1> HIDE DEF commits, mx, K, v, n
<1>14. Text(l) # <<>> /\ mx \in 1..ValidFrames(l) /\ Text(l) = l.frames[mx].sum
  <2>1. Text(l) # <<>>
    BY <1>1, <1>12, <1>13
  <2> QED BY <1>13, <2>1, TextType
<1>15. s = SubSeq(Text(l), 1, n)
  <2>1. n \in 1..mx
    BY <1>1, <1>12
  <2> QED BY <1>10, <1>14, <2>1, FramePrefix
<1>16. n \in 1..MaxFrame
  BY <1>1, <1>2, <1>5
<1> QED BY <1>12, <1>13, <1>15, <1>16 DEF Begins, n

\* So the text is known when a sequence is spelled and no longer one is.
LEMMA TextIs ==
  ASSUME NEW l \in Logs, NEW s \in Seq(Entries), Spelled(s, l),
         \A t \in Seq(Entries) : Spelled(t, l) /\ Begins(s, t) => Len(t) <= Len(s)
  PROVE  Text(l) = s
<1>1. Text(l) \in Seq(Entries) /\ Spelled(Text(l), l)
  BY TextType, TextSpelled
<1>2. Begins(s, Text(l))
  BY <1>1, TextLongest, BeginsItself
<1> QED BY <1>1, <1>2, BeginsWhole

\* Of the header of a log only the salt matters.
LEMMA TextSame ==
  ASSUME NEW l \in Logs, NEW m \in Logs, m.salt = l.salt,
         \A i \in 1..MaxFrame : FrameOf(m, i) = FrameOf(l, i)
  PROVE  Text(m) = Text(l)
<1>1. \A a, b \in {l, m} : \A s \in Seq(Entries) : Len(s) <= MaxFrame /\ Spelled(s, a) => Spelled(s, b)
  <2> SUFFICES ASSUME NEW a \in {l, m}, NEW b \in {l, m}, NEW s \in Seq(Entries),
                      Len(s) <= MaxFrame, Spelled(s, a)
               PROVE  Spelled(s, b)
    OBVIOUS
  <2>1. \A i \in 1..Len(s) : i \in 1..MaxFrame
    BY Constants
  <2> QED BY <2>1 DEF Spelled, Chained
<1>2. /\ Text(l) \in Seq(Entries) /\ Text(m) \in Seq(Entries) /\ Len(Text(l)) <= MaxFrame
      /\ Len(Text(m)) <= MaxFrame /\ Spelled(Text(l), l) /\ Spelled(Text(m), m)
  BY TextType, TextSpelled, Constants
<1>3. Begins(Text(l), Text(m)) /\ Begins(Text(m), Text(l))
  BY <1>1, <1>2, TextLongest, BeginsItself
<1>4. Len(Text(m)) <= Len(Text(l))
  BY <1>2, <1>3, BeginsAt
<1> QED BY <1>2, <1>3, <1>4, BeginsWhole

\* A log whose frames all have another salt, or that has none, tells nothing.
LEMMA TextEmpty ==
  ASSUME NEW l \in Logs, \A i \in 1..MaxFrame : FrameOf(l, i).salt # l.salt \/ FrameOf(l, i).sum = <<>>
  PROVE  Text(l) = <<>>
<1> SUFFICES ASSUME Text(l) # <<>> PROVE FALSE
  OBVIOUS
<1>1. Len(Text(l)) \in 1..MaxFrame /\ Text(l) \in Seq(Entries)
  BY TextType, TextSpelled, TextLongest
<1>2. FrameOf(l, Len(Text(l))) = Frame(l.salt, SubSeq(Text(l), 1, Len(Text(l))))
  <2>1. Len(Text(l)) \in 1..Len(Text(l))
    BY <1>1
  <2> QED BY <2>1, TextSpelled DEF Chained
<1>3. SubSeq(Text(l), 1, Len(Text(l))) = Text(l)
  BY <1>1, BeginsItself
<1>4. FrameOf(l, Len(Text(l))).salt = l.salt /\ FrameOf(l, Len(Text(l))).sum = Text(l)
  BY <1>2, <1>3 DEF Frame
<1> QED BY <1>1, <1>4

-----------------------------------------------------------------------------
(* The story of the log.                                                      *)

LEMMA StoryMore ==
  ASSUME NEW c, NEW d, NEW G, NEW H, G \subseteq H, Story(c, d, G)
  PROVE  Story(c, d, H)
<1>1. \A s : Dead(s, c, d, G) => Dead(s, c, d, H)
  BY DEF Dead
<1> QED BY <1>1 DEF Story

\* A sync leaves fewer frames to tell of.
LEMMA StorySynced ==
  ASSUME NEW c, NEW d, NEW G, Story(c, d, G)
  PROVE  Story(c, c, G)
<1>1. \A i \in 1..MaxFrame : FramesAt(c, c, i) \subseteq FramesAt(c, d, i)
  BY DEF FramesAt
<1>2. \A j : FramesAt(c, c, j) \subseteq FramesAt(c, d, j)
  BY DEF FramesAt
<1>3. \A s : Dead(s, c, d, G) => Dead(s, c, c, G)
  BY <1>2 DEF Dead
<1> QED BY <1>1, <1>3 DEF Story

\* Whatever mixture of the frames survives, under the header of c it tells a part of what
\* c tells.
LEMMA StoryTells ==
  ASSUME NEW c \in Logs, NEW d \in Logs, NEW l \in Logs, NEW G, Story(c, d, G), l.salt = c.salt,
         \A i \in 1..MaxFrame : FrameOf(l, i) \in FramesAt(c, d, i) \cup {Torn}
  PROVE  Begins(Text(l), Text(c))
<1> DEFINE s == Text(l)
<1>1. s \in Seq(Entries) /\ Spelled(s, l) /\ Chained(s, l)
  BY TextType, TextSpelled
<1> HIDE DEF s
<1>2. CASE s = <<>>
  BY <1>2, TextType, BeginsItself DEF s
<1>3. CASE s # <<>>
  <2>1. Len(s) \in 1..MaxFrame /\ Last(s).n > 0 /\ l.salt > 0 /\ Len(s) \in 1..Len(s)
    BY <1>1, <1>3, TextLongest, Constants DEF Spelled
  <2>2. ASSUME NEW j \in 1..Len(s)
        PROVE  FrameOf(l, j) = Frame(c.salt, SubSeq(s, 1, j)) /\ FrameOf(l, j) \in FramesAt(c, d, j)
    <3>1. FrameOf(l, j) = Frame(c.salt, SubSeq(s, 1, j))
      BY <1>1 DEF Chained
    <3>2. FrameOf(l, j) # Torn
      BY <2>1, <3>1 DEF Frame, Torn
    <3>3. j \in 1..MaxFrame
      BY <2>1, Constants
    <3> QED BY <3>1, <3>2, <3>3
  <2>3. FrameOf(l, Len(s)) = Frame(c.salt, s) /\ FrameOf(l, Len(s)) \in FramesAt(c, d, Len(s))
    BY <1>1, <2>1, <2>2, BeginsItself
  <2>4. FrameOf(l, Len(s)).sum = s /\ FrameOf(l, Len(s)).salt = c.salt
    BY <2>3 DEF Frame
  <2>5. Ends(FrameOf(l, Len(s)), Len(s), c.salt)
    BY <2>1, <2>4 DEF Ends
  <2>6. Begins(s, Text(c)) \/ Dead(s, c, d, G)
    BY <2>1, <2>3, <2>4, <2>5 DEF Story
  <2>7. ~Dead(s, c, d, G)
    BY <2>2 DEF Dead
  <2> QED BY <2>6, <2>7 DEF s
<1> QED BY <1>2, <1>3

\* Under the one header, a mixture tells no less than d tells.
LEMMA StoryKeeps ==
  ASSUME NEW c \in Logs, NEW d \in Logs, NEW l \in Logs, NEW G, Story(c, d, G), l.salt = c.salt,
         d.salt = c.salt, Mixed(l, c, d)
  PROVE  Begins(Text(d), Text(l)) /\ Begins(Text(l), Text(c)) /\ Begins(Text(d), Text(c))
<1>1. Begins(Text(l), Text(c)) /\ Begins(Text(d), Text(c))
  <2>1. \A i \in 1..MaxFrame : /\ FrameOf(l, i) \in FramesAt(c, d, i) \cup {Torn}
                               /\ FrameOf(d, i) \in FramesAt(c, d, i) \cup {Torn}
    BY DEF Mixed, FramesAt
  <2> QED BY <2>1, StoryTells
<1> DEFINE s == Text(d)
<1>2. /\ s \in Seq(Entries) /\ Text(c) \in Seq(Entries) /\ Text(l) \in Seq(Entries)
      /\ Spelled(s, d) /\ Chained(s, d) /\ Chained(Text(c), c) /\ Len(s) \in 0..MaxFrame
  BY TextType, TextSpelled
<1> HIDE DEF s
<1>3. ASSUME NEW i \in 1..Len(s) PROVE FrameOf(l, i) = Frame(l.salt, SubSeq(s, 1, i))
  <2>1. i \in 1..MaxFrame /\ i \in 0..Len(s)
    BY <1>2, Constants
  <2>2. i \in 1..Len(Text(c)) /\ SubSeq(s, 1, i) = SubSeq(Text(c), 1, i)
    <3>1. Len(s) \in 0..Len(Text(c)) /\ SubSeq(s, 1, i) = SubSeq(Text(c), 1, i)
      BY <1>1, <1>2, <2>1, BeginsAt DEF s
    <3> QED BY <1>2, <2>1, <3>1
  <2>3. FrameOf(c, i) = FrameOf(d, i)
    BY <1>2, <2>2 DEF Chained
  <2> QED BY <1>2, <2>1, <2>3 DEF Mixed, Chained
<1>4. Spelled(s, l)
  BY <1>2, <1>3 DEF Spelled, Chained
<1>5. Begins(s, Text(l))
  BY <1>2, <1>4, TextLongest, BeginsItself
<1> QED BY <1>1, <1>5 DEF s

\* A single log of which all versions are gone has nothing to tell of another.
LEMMA StoryOfOne ==
  ASSUME NEW c \in Logs, NEW G,
         \A i \in 1..MaxFrame : /\ FrameOf(c, i).sum # <<>> => FrameOf(c, i).salt > 0
                                /\ \A k \in 1..Len(FrameOf(c, i).sum) : FrameOf(c, i).sum[k].ver \in G
  PROVE  Story(c, c, G)
<1> SUFFICES ASSUME NEW i \in 1..MaxFrame, Ends(FrameOf(c, i), i, c.salt)
             PROVE  Begins(FrameOf(c, i).sum, Text(c)) \/ Dead(FrameOf(c, i).sum, c, c, G)
  BY DEF Story, FramesAt
<1> DEFINE s == FrameOf(c, i).sum
<1>1. i \in Nat \ {0} /\ s \in Seq(Entries) /\ Len(s) = i /\ Last(s).n > 0 /\ s # <<>>
  BY FrameOfType DEF Ends
<1>2. c.salt > 0 /\ \A k \in 1..Len(s) : s[k].ver \in G
  BY <1>1 DEF Ends
<1> HIDE DEF s
<1>3. CASE Chained(s, c)
  <2>1. Spelled(s, c)
    BY <1>1, <1>2, <1>3 DEF Spelled
  <2> QED BY <1>1, <2>1, TextLongest DEF s
<1>4. CASE ~Chained(s, c)
  <2>1. PICK j \in 1..Len(s) : FrameOf(c, j) # Frame(c.salt, SubSeq(s, 1, j))
    BY <1>4 DEF Chained
  <2>2. Dead(s, c, c, G)
    BY <1>2, <2>1 DEF Dead, FramesAt
  <2> QED BY <2>2 DEF s
<1> QED BY <1>3, <1>4

\* No frame has the salt of the new header.
LEMMA StoryAnew ==
  ASSUME NEW c, NEW d, NEW G,
         \A i \in 1..MaxFrame : \A fr \in FramesAt(c, d, i) : fr.salt # c.salt \/ fr.sum = <<>>
  PROVE  Story(c, d, G)
BY DEF Story, Ends

LEMMA StorySame ==
  ASSUME NEW c \in Logs, NEW m \in Logs, NEW d, NEW G, m.salt = c.salt,
         \A i \in Nat \ {0} : FrameOf(m, i) = FrameOf(c, i), Story(c, d, G)
  PROVE  Story(m, d, G) /\ Text(m) = Text(c)
<1>1. Text(m) = Text(c)
  BY TextSame
<1>2. \A i \in Nat \ {0} : FramesAt(m, d, i) = FramesAt(c, d, i)
  BY DEF FramesAt
<1>3. ASSUME NEW s, Dead(s, c, d, G), Len(s) \in Nat PROVE Dead(s, m, d, G)
  BY <1>2, <1>3 DEF Dead
<1>4. ASSUME NEW i \in 1..MaxFrame, NEW fr \in FramesAt(m, d, i), Ends(fr, i, m.salt)
      PROVE  Begins(fr.sum, Text(m)) \/ Dead(fr.sum, m, d, G)
  <2>1. fr \in FramesAt(c, d, i) /\ Ends(fr, i, c.salt) /\ Len(fr.sum) \in Nat
    BY <1>2, <1>4 DEF Ends
  <2> QED BY <1>1, <1>3, <2>1 DEF Story
<1> QED BY <1>1, <1>4 DEF Story

\* The log m is c with the frame of entry e behind the frames b.
AppendedTo(m, c, b, e) ==
  /\ m.salt = c.salt /\ c.salt > 0 /\ Len(b) + 1 <= MaxFrame /\ Chained(b, c)
  /\ FrameOf(m, Len(b) + 1) = Frame(c.salt, Append(b, e))
  /\ \A i \in Nat \ {0} : i # Len(b) + 1 => FrameOf(m, i) = FrameOf(c, i)

LEMMA AppendAt ==
  ASSUME NEW b \in Seq(Entries), NEW e \in Entries
  PROVE  /\ Append(b, e) \in Seq(Entries) /\ Len(Append(b, e)) = Len(b) + 1 /\ Len(b) \in Nat
         /\ Append(b, e)[Len(b) + 1] = e /\ Last(Append(b, e)) = e /\ Append(b, e) # <<>>
         /\ \A k \in 1..Len(b) : Append(b, e)[k] = b[k]
         /\ \A k \in 0..Len(b) : SubSeq(Append(b, e), 1, k) = SubSeq(b, 1, k)
         /\ Begins(b, Append(b, e))
<1> DEFINE s == Append(b, e)
<1>1. /\ s \in Seq(Entries) /\ Len(s) = Len(b) + 1 /\ Len(b) \in Nat /\ s[Len(b) + 1] = e
      /\ \A k \in 1..Len(b) : s[k] = b[k]
  OBVIOUS
<1> HIDE DEF s
<1>2. Last(s) = e /\ s # <<>>
  BY <1>1 DEF Last
<1>3. ASSUME NEW k \in 0..Len(b) PROVE SubSeq(s, 1, k) = SubSeq(b, 1, k)
  <2>1. /\ k \in 0..Len(s) /\ k \in Nat
        /\ \A j \in 1..k : j \in 1..Len(b)
    BY <1>1
  <2>2. SubSeq(s, 1, k) \in Seq(Entries) /\ Len(SubSeq(s, 1, k)) = k
        /\ \A j \in 1..k : SubSeq(s, 1, k)[j] = s[j]
    BY <1>1, <2>1, PrefixAt
  <2>3. SubSeq(b, 1, k) \in Seq(Entries) /\ Len(SubSeq(b, 1, k)) = k
        /\ \A j \in 1..k : SubSeq(b, 1, k)[j] = b[j]
    BY PrefixAt
  <2>4. \A j \in 1..k : SubSeq(s, 1, k)[j] = SubSeq(b, 1, k)[j]
    BY <1>1, <2>1, <2>2, <2>3
  <2> QED BY <2>1, <2>2, <2>3, <2>4
<1>4. Begins(b, s)
  <2>1. Len(b) \in 0..Len(b) /\ Len(b) <= Len(s) /\ b = SubSeq(b, 1, Len(b))
    BY <1>1
  <2>2. SubSeq(s, 1, Len(b)) = SubSeq(b, 1, Len(b))
    BY <1>3, <2>1
  <2> QED BY <2>1, <2>2 DEF Begins
<1> QED BY <1>1, <1>2, <1>3, <1>4 DEF s

\* No older frame goes on from the new one.
LEMMA NothingBehind ==
  ASSUME NEW c \in Logs, NEW d \in Logs, NEW m \in Logs, NEW b \in Seq(Entries),
         NEW e \in Entries, NEW G, AppendedTo(m, c, b, e), Story(c, d, G), e.ver \notin G,
         Len(Text(c)) <= Len(b), NEW t \in Seq(Entries), Spelled(t, m)
  PROVE  Len(t) <= Len(b) + 1
<1> DEFINE f == Len(b) + 1
           i == Len(t)
<1> SUFFICES ASSUME i > f PROVE FALSE
  BY DEF i
<1>1. f \in Nat /\ f >= 1 /\ i \in Nat /\ m.salt = c.salt
      /\ FrameOf(m, f) = Frame(c.salt, Append(b, e))
      /\ \A j \in Nat \ {0} : j # f => FrameOf(m, j) = FrameOf(c, j)
  BY DEF AppendedTo
<1> HIDE DEF f, i
<1>2. t # <<>> /\ i \in 1..MaxFrame /\ Last(t).n > 0 /\ Chained(t, m)
  <2>1. t # <<>>
    BY <1>1 DEF i
  <2> QED BY <2>1, TextLongest DEF Spelled, i
<1>3. ASSUME NEW j \in 1..i PROVE j \in Nat \ {0} /\ FrameOf(m, j) = Frame(c.salt, SubSeq(t, 1, j))
  BY <1>1, <1>2, <1>3 DEF Chained, i
<1>4. i \in 1..i /\ i # f /\ f \in 1..i
  BY <1>1
<1>5. FrameOf(c, i) = Frame(c.salt, t)
  <2>1. SubSeq(t, 1, i) = t
    BY BeginsItself DEF i
  <2>2. FrameOf(m, i) = Frame(c.salt, t) /\ FrameOf(m, i) = FrameOf(c, i)
    BY <1>1, <1>3, <1>4, <2>1
  <2> QED BY <2>2
<1>6. Ends(FrameOf(c, i), i, c.salt) /\ FrameOf(c, i).sum = t
  <2>1. FrameOf(c, i).salt = c.salt /\ FrameOf(c, i).sum = t
    BY <1>5 DEF Frame
  <2> QED BY <1>2, <2>1, Constants DEF Ends, i
<1>7. Begins(t, Text(c)) \/ Dead(t, c, d, G)
  BY <1>2, <1>6 DEF Story, FramesAt
<1>8. ~Begins(t, Text(c))
  <2>1. Len(Text(c)) \in Nat /\ Len(b) \in Nat
    BY TextType, Constants
  <2> QED BY <1>1, <2>1 DEF Begins, i, f
<1>9. PICK j \in 1..i : t[j].ver \in G /\ Frame(c.salt, SubSeq(t, 1, j)) \notin FramesAt(c, d, j)
  BY <1>7, <1>8 DEF Dead, i
<1>10. j # f
  <2>1. Append(b, e) = SubSeq(t, 1, f)
    <3>1. FrameOf(m, f) = Frame(c.salt, SubSeq(t, 1, f))
      BY <1>3, <1>4
    <3>2. Frame(c.salt, Append(b, e)).sum = Frame(c.salt, SubSeq(t, 1, f)).sum
      BY <1>1, <3>1
    <3> QED BY <3>2 DEF Frame
  <2>2. SubSeq(t, 1, f)[f] = t[f]
    <3>1. f \in 0..Len(t) /\ f \in 1..f
      BY <1>1, <1>4 DEF i
    <3> QED BY <3>1, PrefixAt
  <2>3. Append(b, e)[f] = e
    BY AppendAt DEF f
  <2> QED BY <1>9, <2>1, <2>2, <2>3
<1> QED BY <1>1, <1>3, <1>9, <1>10 DEF FramesAt

LEMMA TextAppended ==
  ASSUME NEW c \in Logs, NEW d \in Logs, NEW m \in Logs, NEW b \in Seq(Entries),
         NEW e \in Entries, NEW G, AppendedTo(m, c, b, e), Story(c, d, G), e.ver \notin G,
         Begins(Text(c), b)
  PROVE  Text(m) = IF e.n > 0 THEN Append(b, e) ELSE Text(c)
<1> DEFINE f == Len(b) + 1
           s == Append(b, e)
           u == Text(c)
<1>1. /\ f \in Nat /\ f >= 1 /\ m.salt = c.salt /\ c.salt > 0 /\ Len(b) \in Nat
      /\ FrameOf(m, f) = Frame(c.salt, s) /\ Chained(b, c)
      /\ \A j \in Nat \ {0} : j # f => FrameOf(m, j) = FrameOf(c, j)
  BY DEF AppendedTo
<1>2. /\ s \in Seq(Entries) /\ Len(s) = f /\ Last(s) = e /\ s # <<>> /\ s[f] = e
      /\ \A k \in 0..Len(b) : SubSeq(s, 1, k) = SubSeq(b, 1, k)
  BY AppendAt
<1>3. u \in Seq(Entries) /\ Spelled(u, c) /\ Chained(u, c) /\ Len(u) \in 0..Len(b)
  BY TextType, TextSpelled, BeginsAt
<1>4. \A t \in Seq(Entries) : Spelled(t, m) => Len(t) <= f
  BY <1>3, NothingBehind
<1> HIDE DEF f, s, u
<1>5. CASE e.n > 0
  <2>1. ASSUME NEW j \in 1..f PROVE FrameOf(m, j) = Frame(m.salt, SubSeq(s, 1, j))
    <3>1. CASE j = f
      BY <1>1, <1>2, <3>1, BeginsItself
    <3>2. CASE j # f
      <4>1. j \in 1..Len(b) /\ j \in 0..Len(b) /\ j \in Nat \ {0}
        BY <1>1, <3>2 DEF f
      <4> QED BY <1>1, <1>2, <3>2, <4>1 DEF Chained
    <3> QED BY <3>1, <3>2
  <2>2. Spelled(s, m)
    BY <1>1, <1>2, <1>5, <2>1 DEF Spelled, Chained
  <2>3. Text(m) = s
    BY <1>2, <1>4, <2>2, TextIs
  <2> QED BY <1>5, <2>3 DEF s
<1>6. CASE ~(e.n > 0)
  <2>1. Spelled(u, m)
    <3>1. \A j \in 1..Len(u) : j \in Nat \ {0} /\ j # f
      BY <1>1, <1>3 DEF f
    <3> QED BY <1>1, <1>3, <3>1 DEF Spelled, Chained
  <2>2. ASSUME NEW t \in Seq(Entries), Spelled(t, m), Begins(u, t) PROVE Len(t) <= Len(u)
    <3>1. CASE t = <<>>
      BY <1>3, <3>1
    <3>2. CASE t # <<>>
      <4>1. Last(t).n > 0 /\ Chained(t, m) /\ Len(t) \in Nat /\ Len(t) <= f /\ Len(t) # 0
        BY <1>4, <2>2, <3>2 DEF Spelled
      <4>2. ASSUME Len(t) = f PROVE FALSE
        <5>1. FrameOf(m, f) = Frame(m.salt, SubSeq(t, 1, f)) /\ SubSeq(t, 1, f) = t
          BY <1>1, <4>1, <4>2, BeginsItself DEF Chained
        <5>2. t = s
          BY <1>1, <5>1 DEF Frame
        <5> QED BY <1>2, <1>6, <4>1, <5>2
      <4>3. \A j \in 1..Len(t) : j \in Nat \ {0} /\ j # f
        BY <1>1, <4>1, <4>2
      <4>4. Spelled(t, c)
        BY <1>1, <3>2, <4>1, <4>3 DEF Spelled, Chained
      <4>5. Begins(t, u)
        BY <3>2, <4>4, TextLongest DEF u
      <4> QED BY <4>5 DEF Begins
    <3> QED BY <3>1, <3>2
  <2>3. Text(m) = u
    BY <1>3, <2>1, <2>2, TextIs
  <2> QED BY <1>6, <2>3 DEF u
<1> QED BY <1>5, <1>6 DEF s, u

LEMMA StoryAppended ==
  ASSUME NEW c \in Logs, NEW d \in Logs, NEW m \in Logs, NEW b \in Seq(Entries),
         NEW e \in Entries, NEW G, AppendedTo(m, c, b, e), Story(c, d, G), e.ver \notin G,
         Begins(Text(c), b)
  PROVE  Story(m, d, G)
<1> DEFINE f == Len(b) + 1
           s == Append(b, e)
<1>1. /\ f \in Nat /\ f >= 1 /\ m.salt = c.salt /\ f <= MaxFrame
      /\ FrameOf(m, f) = Frame(c.salt, s)
      /\ \A j \in Nat \ {0} : j # f => FrameOf(m, j) = FrameOf(c, j)
  BY DEF AppendedTo
<1>2. s \in Seq(Entries) /\ Len(s) = f /\ Last(s) = e /\ s[f] = e
  BY AppendAt
<1>3. Text(m) = IF e.n > 0 THEN s ELSE Text(c)
  BY TextAppended
<1>4. Text(c) \in Seq(Entries) /\ Begins(Text(c), s)
  BY <1>2, TextType, AppendAt, BeginsThrough
<1>5. Begins(Text(c), Text(m)) /\ Text(m) \in Seq(Entries)
  BY <1>2, <1>3, <1>4, BeginsItself
<1> HIDE DEF f, s
<1>6. ASSUME NEW t \in Seq(Entries), Dead(t, c, d, G) PROVE Dead(t, m, d, G)
  <2>1. PICK j \in 1..Len(t) : t[j].ver \in G /\ Frame(c.salt, SubSeq(t, 1, j)) \notin FramesAt(c, d, j)
    BY <1>6 DEF Dead
  <2>2. Frame(m.salt, SubSeq(t, 1, j)) # FrameOf(m, j)
    <3>1. CASE j # f
      BY <1>1, <2>1, <3>1 DEF FramesAt
    <3>2. CASE j = f
      <4>1. SubSeq(t, 1, f)[f] = t[f]
        BY <1>1, <3>2, PrefixAt
      <4>2. SubSeq(t, 1, f) # s
        BY <1>2, <2>1, <3>2, <4>1
      <4> QED BY <1>1, <3>2, <4>2 DEF Frame
    <3> QED BY <3>1, <3>2
  <2>3. Frame(m.salt, SubSeq(t, 1, j)) # FrameOf(d, j)
    BY <1>1, <2>1 DEF FramesAt
  <2> QED BY <2>1, <2>2, <2>3 DEF Dead, FramesAt
<1>7. ASSUME NEW i \in 1..MaxFrame, NEW fr \in FramesAt(m, d, i), Ends(fr, i, m.salt)
      PROVE  Begins(fr.sum, Text(m)) \/ Dead(fr.sum, m, d, G)
  <2>1. CASE fr \in FramesAt(c, d, i)
    <3>1. Begins(fr.sum, Text(c)) \/ Dead(fr.sum, c, d, G)
      BY <1>1, <1>7, <2>1 DEF Story
    <3>2. fr.sum \in Seq(Entries)
      <4>1. i \in Nat \ {0}
        OBVIOUS
      <4> QED BY <2>1, <4>1, FrameOfType DEF FramesAt
    <3> QED BY <1>4, <1>5, <1>6, <3>1, <3>2, BeginsThrough
  <2>2. CASE fr \notin FramesAt(c, d, i)
    <3>1. fr = FrameOf(m, i) /\ FrameOf(m, i) # FrameOf(c, i)
      BY <1>7, <2>2 DEF FramesAt
    <3>2. i = f
      BY <1>1, <3>1
    <3>3. fr.sum = s
      BY <1>1, <3>1, <3>2 DEF Frame
    <3>4. e.n > 0
      BY <1>2, <1>7, <3>3 DEF Ends
    <3> QED BY <1>2, <1>3, <3>3, <3>4, BeginsItself
  <2> QED BY <2>1, <2>2
<1> QED BY <1>7 DEF Story

-----------------------------------------------------------------------------
(* The image that the frames of a log stand for.                              *)

LEMMA PictureOne ==
  ASSUME NEW s \in Seq(Entries), NEW db, NEW img \in Images, NEW new \in Images,
         Pictured(s, db, img), Pictured(s, db, new)
  PROVE  new = img
<1>1. Len(new) = Len(img) /\ Shows(s, db, img) /\ Shows(s, db, new)
  BY DEF Pictured
<1>2. ASSUME NEW p \in 1..Len(img) PROVE new[p] = img[p]
  <2>1. p \in 1..Len(new)
    BY <1>1
  <2>2. CASE Absent(s, p)
    BY <1>1, <2>1, <2>2 DEF Shows
  <2>3. CASE \E f \in 1..Len(s) : Newest(s, f, p)
    BY <1>1, <2>1, <2>3 DEF Shows
  <2> QED BY <2>2, <2>3, NewestOrAbsent
<1>3. \A p \in 1..Len(img) : new[p] = img[p]
  BY <1>2
<1>4. new \in Seq(Int) /\ img \in Seq(Int)
  BY DEF Images
<1> QED BY <1>1, <1>3, <1>4

LEMMA RecoveredPicture ==
  ASSUME NEW l \in Logs, NEW db \in Images
  PROVE  Pictured(Text(l), db, RecoveredImage(l, db)) /\ RecoveredImage(l, db) \in Images
<1> DEFINE h == RecoveredHdr(l)
           img == RecoveredImage(l, db)
<1>1. Len(img) = SizeOf(h, db) /\ Shows(Eff(h), db, img) /\ img \in Images
  BY RecoveredShows, RecoveredImageOK
<1>2. h.mx \in Nat /\ (h.mx = 0 => h.n = 0 /\ h.sum = <<>>)
      /\ (h.mx > 0 => h.n = Last(h.sum).n /\ h.n > 0 /\ Len(h.sum) = h.mx)
  BY RecoveredFields DEF HdrOK
<1> HIDE DEF h, img
<1>3. Eff(h) = h.sum
  BY <1>2 DEF Eff
<1>4. h.sum = <<>> <=> h.mx = 0
  BY <1>2
<1>5. SizeOf(h, db) = (IF h.sum = <<>> THEN Len(db) ELSE Last(h.sum).n)
  BY <1>2, <1>4 DEF SizeOf
<1>6. Pictured(h.sum, db, img)
  BY <1>1, <1>3, <1>5 DEF Pictured
<1> QED BY <1>1, <1>6 DEF Text, h, img

LEMMA PictureIs ==
  ASSUME NEW l \in Logs, NEW db \in Images, NEW img \in Images, Pictured(Text(l), db, img)
  PROVE  RecoveredImage(l, db) = img
BY RecoveredPicture, PictureOne, TextType

\* A picture has a page.
LEMMA PictureSome ==
  ASSUME NEW l \in Logs, NEW db \in Images, Len(db) > 0, NEW img, Pictured(Text(l), db, img)
  PROVE  img # NoImage
<1>1. Len(img) > 0
  BY TextType DEF Pictured
<1> QED BY <1>1 DEF NoImage

LEMMA EmptyPicture ==
  ASSUME NEW db \in Images
  PROVE  Pictured(<<>>, db, db) /\ \A img \in Images : Pictured(<<>>, db, img) => img = db
<1>1. \A p \in 1..Len(db) : PageAt(db, p) = db[p]
  BY DEF PageAt, Images
<1>2. Shows(<<>>, db, db)
  BY <1>1 DEF Shows
<1>3. Pictured(<<>>, db, db)
  BY <1>2 DEF Pictured
<1>4. <<>> \in Seq(Entries)
  OBVIOUS
<1> QED BY <1>3, <1>4, PictureOne

\* The file new has the pages of db, but for those that are in s.
Agrees(s, db, new) ==
  /\ \A p \in 1..MaxPage : PageAt(new, p) = PageAt(db, p) \/ ~Absent(s, p)
  /\ s = <<>> => new = db

LEMMA PictureAgrees ==
  ASSUME NEW s \in Sums, NEW db, NEW new, NEW img, Len(db) <= MaxPage, Len(db) \in Nat,
         Agrees(s, db, new), Pictured(s, db, img)
  PROVE  Pictured(s, new, img)
<1>1. Len(img) = (IF s = <<>> THEN Len(new) ELSE Last(s).n)
  BY DEF Pictured, Agrees
<1>2. Len(img) \in Nat /\ Len(img) <= MaxPage
  <2>1. CASE s = <<>>
    BY <2>1 DEF Pictured
  <2>2. CASE s # <<>>
    <3>1. Last(s).n \in 0..MaxPage
      BY <2>2, SumLast, EntryFields
    <3> QED BY <2>2, <3>1, Constants DEF Pictured
  <2> QED BY <2>1, <2>2
<1>3. ASSUME NEW p \in 1..Len(img), Absent(s, p) PROVE PageAt(new, p) = PageAt(db, p)
  <2>1. p \in 1..MaxPage
    BY <1>2, Constants
  <2> QED BY <1>3, <2>1 DEF Agrees
<1>4. Shows(s, new, img)
  BY <1>3 DEF Pictured, Shows
<1> QED BY <1>1, <1>4 DEF Pictured

\* A header that tells what the log tells shows its picture.
LEMMA HeadPicture ==
  ASSUME NEW s, NEW l, NEW db, NEW img, Common(s, l, db, img), s.h0.mx > 0, s.h0.mx \in Nat,
         s.h0.sum \in Sums
  PROVE  Pictured(s.h0.sum, db, img) /\ s.h0.sum # <<>>
<1>1. Sound(s.h0) /\ Len(img) = SizeOf(s.h0, db) /\ Shows(s.h0.sum, db, img)
  BY DEF Common, Held, Eff
<1>2. Len(s.h0.sum) = s.h0.mx /\ s.h0.n = s.h0.sum[s.h0.mx].n /\ s.h0.n > 0
  BY <1>1 DEF Sound
<1>3. s.h0.sum # <<>>
  BY <1>2
<1>4. Last(s.h0.sum).n = s.h0.n
  BY <1>2, <1>3, SumLast
<1>5. Len(img) = Last(s.h0.sum).n
  BY <1>1, <1>2, <1>4 DEF SizeOf
<1> QED BY <1>1, <1>3, <1>5 DEF Pictured

-----------------------------------------------------------------------------
(* Steps that leave the files alone.                                          *)

LEMMA FilesTyped ==
  ASSUME TypeInv, DataInv
  PROVE  /\ log.cur \in Logs /\ log.dur \in Logs /\ file.cur \in Images /\ file.dur \in Images
         /\ Committed \in Images /\ past.salt \in Nat /\ past.ver \in Nat
         /\ log.cur.salt \in Nat /\ log.dur.salt \in Nat
BY CommittedImage DEF TypeInv, LogInv, PastInv, DataInv, FileData, Logs

\* Only what is committed and what is in flight count.
LEMMA OldSame ==
  ASSUME NEW p, NEW q, q.images = p.images, q.full = p.full
  PROVE  Old(q) = Old(p) /\ (Strict(q) <=> Strict(p))
BY DEF Old, Strict

LEMMA NumMore ==
  ASSUME NEW l \in Logs, NEW i \in 1..MaxFrame, NEW p, NEW q, p.salt \in Nat, p.ver \in Nat, q.salt \in Nat,
         q.ver \in Nat, p.salt <= q.salt, p.ver <= q.ver, FrameNum(FrameOf(l, i), p)
  PROVE  FrameNum(FrameOf(l, i), q)
<1> DEFINE fr == FrameOf(l, i)
<1>1. i \in Nat \ {0}
  OBVIOUS
<1>2. fr.salt \in Nat /\ fr.sum \in Seq(Entries)
  BY <1>1, FrameOfType
<1> HIDE DEF fr
<1>3. \A k \in 1..Len(fr.sum) : fr.sum[k].ver \in Nat
  BY <1>2, EntryFields
<1> QED BY <1>2, <1>3 DEF FrameNum, fr

TodoNum == \A c \in Conn : \A k \in DOMAIN con[c].w.todo : con[c].w.todo[k].ver = past.ver

LEMMA PersistSame ==
  ASSUME TypeInv, DataInv, PersistInv, log' = log, file' = file, past'.images = past.images,
         past'.flight = past.flight, past'.full = past.full, past'.salt \in Nat, past'.ver \in Nat,
         past.salt <= past'.salt, past.ver <= past'.ver, Gone \subseteq Gone', TodoNum'
  PROVE  PersistInv'
<1>1. StoryInv'
  BY StoryMore DEF PersistInv, StoryInv
<1>2. \A l \in {log.cur, log.dur}, i \in 1..MaxFrame : FrameNum(FrameOf(l, i), past')
  BY FilesTyped, NumMore DEF PersistInv, NumInv
<1>3. NumInv'
  BY <1>2 DEF PersistInv, NumInv, TodoNum
<1>4. Old(past') = Old(past) /\ Committed' = Committed
  BY OldSame DEF Committed
<1>5. OneHdr'
  BY <1>4 DEF PersistInv, OneHdr, Pictures
<1>6. TwoHdr'
  BY <1>4 DEF PersistInv, TwoHdr, AllInFile
<1>7. Recoverable'
  BY <1>4 DEF PersistInv, Recoverable
<1> QED BY <1>1, <1>3, <1>5, <1>6, <1>7 DEF PersistInv

LEMMA PersistCalm ==
  ASSUME TypeInv, DataInv, PersistInv, log' = log, file' = file, past'.images = past.images,
         past'.flight = past.flight, past'.full = past.full, past'.ver = past.ver,
         past'.salt \in Nat, past.salt <= past'.salt,
         \A c \in Conn : con'[c].w.todo = con[c].w.todo \/ con'[c].w.todo = <<>>
  PROVE  PersistInv'
<1>1. Gone \subseteq Gone'
  BY DEF Gone
<1>2. TodoNum'
  BY DEF PersistInv, NumInv, TodoNum
<1>3. past.ver \in Nat
  BY FilesTyped
<1> QED BY <1>1, <1>2, <1>3, PersistSame

RecInv == PersistInv /\ LinkInv

LEMMA LinkSame ==
  ASSUME NEW c, NEW x, NEW s, NEW t, NEW lg, NEW p, NEW q, t.h0 = s.h0,
         t.h0.mx <= t.nBackfill <=> s.h0.mx <= s.nBackfill,
         q.flight = p.flight, q.full = p.full, LinkOK(c, x, s, lg, p)
  PROVE  LinkOK(c, x, t, lg, q)
<1>1. Strict(q) <=> Strict(p)
  BY DEF Strict
<1>2. FlightOK(x, t, lg, q)
  BY DEF LinkOK, FlightOK
<1>3. DraftOK(x, t, lg)
  BY DEF LinkOK, DraftOK
<1>4. SaltOK(c, x, t, lg)
  BY DEF LinkOK, SaltOK
<1>5. RestOK(x, t, lg, q)
  BY <1>1 DEF LinkOK, RestOK
<1> QED BY <1>2, <1>3, <1>4, <1>5 DEF LinkOK

LEMMA LinkCalm ==
  ASSUME LinkInv, NEW c \in Conn, Only(c), shm'.h0 = shm.h0,
         shm'.h0.mx <= shm'.nBackfill <=> shm.h0.mx <= shm.nBackfill,
         log' = log, file' = file, past'.images = past.images, past'.flight = past.flight,
         past'.full = past.full, InFlight(con'[c]) <=> InFlight(con[c]),
         LinkOK(c, con'[c], shm, log, past)
  PROVE  LinkInv'
<1>1. Flying' <=> Flying
  BY DEF Flying, Only
<1>2. \A d \in Conn : LinkOK(d, con'[d], shm', log', past')
  <2> SUFFICES ASSUME NEW d \in Conn PROVE LinkOK(d, con'[d], shm', log', past')
    OBVIOUS
  <2>1. LinkOK(d, con'[d], shm, log, past)
    BY DEF LinkInv, Only
  <2> QED BY <2>1, LinkSame
<1>3. LatestOK'
  BY <1>1 DEF LinkInv, LatestOK, AllInFile, Committed
<1>4. SyncedOK'
  BY <1>1 DEF LinkInv, SyncedOK, Strict
<1> QED BY <1>2, <1>3, <1>4 DEF LinkInv

\* What a connection outside a write transaction must know.
AsideOK(y, s) ==
  /\ ~InTxn(y) /\ y.w.todo = <<>> /\ y.pc # "ckptWrite"
  /\ s.h0.init /\ y.pc = "read" /\ y.lock = 0 /\ y.hdr = s.h0 => s.h0.mx <= s.nBackfill
  /\ y.w.close /\ y.pc \in {"ckptMark", "ckptLock0"} => y.w.safe = s.h0.mx
  /\ y.w.close /\ y.pc = "ckptEnd" => s.h0.init /\ s.h0.mx <= s.nBackfill

LEMMA NotFlying == ASSUME NEW x, ~InTxn(x) PROVE ~InFlight(x)
BY DEF InTxn, InFlight, Writes, Logging

LEMMA LinkAside ==
  ASSUME NEW c, NEW x, NEW y, NEW s, NEW lg, NEW p, LinkOK(c, x, s, lg, p), AsideOK(y, s),
         y.nCkpt = x.nCkpt \/ y.nCkpt = 0, x.pc # "recoverHdr", ~InFlight(x)
  PROVE  LinkOK(c, y, s, lg, p)
<1>1. ~InTxn(y) /\ ~InFlight(y) /\ y.pc # "commitHdr"
  BY NotFlying DEF AsideOK, InFlight
<1>2. FlightOK(y, s, lg, p) /\ DraftOK(y, s, lg)
  BY <1>1 DEF FlightOK, DraftOK
<1>3. SaltOK(c, y, s, lg)
  BY <1>1 DEF LinkOK, SaltOK
<1>4. RestOK(y, s, lg, p)
  BY <1>1 DEF RestOK, AsideOK
<1> QED BY <1>2, <1>3, <1>4 DEF LinkOK

LEMMA AsideStep ==
  ASSUME TypeInv, DataInv, RecInv, NEW c \in Conn, Only(c), shm'.h0 = shm.h0,
         shm'.nBackfill = shm.nBackfill, UNCHANGED <<log, file, past>>, AsideOK(con'[c], shm),
         con'[c].nCkpt = con[c].nCkpt \/ con'[c].nCkpt = 0, con[c].pc # "recoverHdr",
         ~InFlight(con[c])
  PROVE  RecInv'
<1>1. \A d \in Conn : con'[d].w.todo = con[d].w.todo \/ con'[d].w.todo = <<>>
  BY DEF AsideOK, Only
<1>2. past.salt \in Nat /\ past'.salt = past.salt
  BY FilesTyped
<1>3. PersistInv'
  BY <1>1, <1>2, PersistCalm DEF RecInv
<1>4. LinkOK(c, con'[c], shm, log, past)
  BY LinkAside DEF RecInv, LinkInv
<1>5. ~InFlight(con'[c])
  BY NotFlying DEF AsideOK
<1>6. LinkInv'
  BY <1>4, <1>5, LinkCalm DEF RecInv
<1> QED BY <1>3, <1>6 DEF RecInv

-----------------------------------------------------------------------------
(* The steps of readers, and those of a checkpoint that write nothing.        *)

LEMMA AtLink ==
  ASSUME RecInv, NEW c \in Conn
  PROVE  /\ LinkOK(c, con[c], shm, log, past)
         /\ ~InTxn(con[c]) => con[c].w.todo = <<>> /\ ~InFlight(con[c])
BY NotFlying DEF RecInv, LinkInv, LinkOK, RestOK

\* A connection that closes the log gets every lock.
LEMMA AloneFree ==
  ASSUME TypeInv, NEW c \in Conn, con[c].w.close, NEW S
  PROVE  ExclFree(c, S)
<1>1. \A d \in Conn \ {c} : con[d] = Closed
  BY DEF TypeInv, LockInv, ConnInv, ConnOK, Phase
<1> QED BY <1>1, NewConnFields DEF ExclFree

LEMMA BeginReadRec ==
  ASSUME TypeInv, DataInv, RecInv, NEW c \in Conn, BeginRead(c) PROVE RecInv'
<1> DEFINE x == con[c]
           y == con'[c]
<1>1. /\ Only(c) /\ UNCHANGED <<shm, log, file, past>> /\ x.pc = "idle"
      /\ y.pc \in {"choose", "retryHdr"} /\ (y.pc = "choose" => y.excl = {})
      /\ (Loaded(y, x, shm.h0) \/ Moved(y, x))
  BY BeginReadEffect
<1>2. ~x.w.ckpt
  BY BeginReadEffect
<1>3. ~InTxn(x) /\ x.w.todo = <<>> /\ ~InFlight(x)
  BY <1>1, NotInTxn, AtLink
<1>4. ~InTxn(y)
  BY <1>1, NotInTxn
<1>5. y.w = x.w /\ y.nCkpt = x.nCkpt
  BY <1>1, <1>2 DEF Loaded, Moved
<1>6. AsideOK(y, shm)
  BY <1>1, <1>3, <1>4, <1>5 DEF AsideOK
<1> QED BY <1>1, <1>3, <1>5, <1>6, AsideStep

LEMMA ChooseRec ==
  ASSUME TypeInv, DataInv, RecInv, NEW c \in Conn, Choose(c) PROVE RecInv'
<1> DEFINE x == con[c]
           y == con'[c]
<1>1. /\ Only(c) /\ UNCHANGED <<shm, log, file, past>> /\ x.pc = "choose" /\ x.excl = {}
      /\ y.pc \in {"lock0", "pick"} /\ y.excl = x.excl /\ Moved(y, x)
  BY ChooseEffect
<1>2. ~InTxn(x) /\ x.w.todo = <<>> /\ ~InFlight(x)
  BY <1>1, NotInTxn, AtLink
<1>3. ~InTxn(y)
  BY <1>1 DEF InTxn, Writes, Logging, Restarting
<1>4. AsideOK(y, shm) /\ y.nCkpt = x.nCkpt
  BY <1>1, <1>2, <1>3 DEF AsideOK, Moved
<1> QED BY <1>1, <1>2, <1>4, AsideStep

LEMMA EndReadRec ==
  ASSUME TypeInv, DataInv, RecInv, NEW c \in Conn, EndRead(c) PROVE RecInv'
<1> DEFINE x == con[c]
           y == con'[c]
<1>1. /\ Only(c) /\ UNCHANGED <<shm, log, file, past>> /\ x.pc = "read" /\ x.excl = {}
      /\ y.pc = "idle" /\ y.nCkpt = x.nCkpt /\ y.w = NoWork
  BY EndReadEffect
<1>2. ~InFlight(x) /\ ~InTxn(y)
  BY <1>1, NotInTxn DEF InFlight
<1>3. NoWork.todo = <<>>
  BY DEF NoWork
<1>4. AsideOK(y, shm)
  BY <1>1, <1>2, <1>3 DEF AsideOK
<1> QED BY <1>1, <1>2, <1>4, AsideStep

LEMMA NewConnRec ==
  ASSUME NEW s
  PROVE  /\ AsideOK(Closed, s) /\ AsideOK(Connected, s) /\ Closed.nCkpt = 0 /\ Connected.nCkpt = 0
         /\ Closed.w.todo = <<>>
<1>1. /\ Closed.pc = "closed" /\ Connected.pc = "idle" /\ Closed.w = NoWork /\ Connected.w = NoWork
      /\ Closed.nCkpt = 0 /\ Connected.nCkpt = 0 /\ NoWork.todo = <<>>
  BY DEF Closed, Connected, NoWork
<1>2. ~InTxn(Closed) /\ ~InTxn(Connected)
  BY <1>1, NotInTxn
<1> QED BY <1>1, <1>2 DEF AsideOK

LEMMA OpenCloseRec ==
  ASSUME TypeInv, DataInv, RecInv, NEW c \in Conn, Open(c) \/ Close(c) PROVE RecInv'
<1> DEFINE x == con[c]
           y == con'[c]
<1>1. /\ Only(c) /\ UNCHANGED <<shm, log, file, past>> /\ x.pc \in {"closed", "idle"}
      /\ \/ y \in {Closed, Connected}
         \/ y.pc = "ckptHdr" /\ y.w.todo = x.w.todo /\ y.nCkpt = x.nCkpt
  BY OpenEffect, CloseEffect DEF WorkFields
<1>2. ~InTxn(x) /\ x.w.todo = <<>> /\ ~InFlight(x)
  BY <1>1, NotInTxn, AtLink
<1>3. CASE y \in {Closed, Connected}
  BY <1>1, <1>2, <1>3, NewConnRec, AsideStep
<1>4. CASE y.pc = "ckptHdr" /\ y.w.todo = x.w.todo /\ y.nCkpt = x.nCkpt
  <2>1. ~InTxn(y)
    BY <1>4, NotInTxn
  <2>2. AsideOK(y, shm)
    BY <1>2, <1>4, <2>1 DEF AsideOK
  <2> QED BY <1>1, <1>2, <1>4, <2>2, AsideStep
<1> QED BY <1>1, <1>3, <1>4

LEMMA CkptBeginRec ==
  ASSUME TypeInv, DataInv, RecInv, NEW c \in Conn, NEW block, CkptBegin(c, block) PROVE RecInv'
<1> DEFINE x == con[c]
           y == con'[c]
<1>1. /\ Only(c) /\ UNCHANGED <<shm, log, file, past>> /\ x.pc = "idle"
      /\ y.pc = "ckptHdr" /\ y.w.todo = x.w.todo /\ y.nCkpt = x.nCkpt
  BY CkptBeginEffect DEF WorkFields
<1>2. ~InTxn(x) /\ x.w.todo = <<>> /\ ~InFlight(x) /\ ~InTxn(y)
  BY <1>1, NotInTxn, AtLink
<1>3. AsideOK(y, shm)
  BY <1>1, <1>2 DEF AsideOK
<1> QED BY <1>1, <1>2, <1>3, AsideStep

LEMMA CkptHdrRec ==
  ASSUME TypeInv, DataInv, RecInv, NEW c \in Conn, CkptHdr(c) PROVE RecInv'
<1> DEFINE x == con[c]
           y == con'[c]
<1>1. /\ Only(c) /\ UNCHANGED <<shm, log, file, past>> /\ x.pc = "ckptHdr" /\ x.w.ckpt
      /\ Loaded(y, x, shm.h0) \/ Moved(y, x)
      /\ y.pc \in {"ckptTest", "retryHdr", "ckptEnd"}
  BY CkptHdrEffect
<1>2. ASSUME x.w.close PROVE y.pc # "ckptEnd"
  <2>1. ExclFree(c, {WRITE})
    BY <1>2, AloneFree
  <2>2. ~Pc(c, "ckptEnd")'
    <3>1. \/ con' = [con EXCEPT ![c] = Goto(LoadHdr(x), "ckptTest")]
          \/ con' = [con EXCEPT ![c] = [Goto(x, "retryHdr") EXCEPT !.excl = @ \cup {WRITE}]]
      BY <2>1 DEF CkptHdr, Put
    <3>2. ConnType(x) /\ HdrOK(shm.h0)
      BY AtConn
    <3>3. Goto(LoadHdr(x), "ckptTest").pc = "ckptTest"
      BY <3>2, NewHdrFields, GotoFields DEF LoadHdr
    <3>4. [Goto(x, "retryHdr") EXCEPT !.excl = @ \cup {WRITE}].pc = "retryHdr"
      BY <3>2 DEF Goto, ConnType, ConnFields
    <3>5. CASE con' = [con EXCEPT ![c] = Goto(LoadHdr(x), "ckptTest")]
      BY <3>3, <3>5, StepOf DEF Pc
    <3>6. CASE con' = [con EXCEPT ![c] = [Goto(x, "retryHdr") EXCEPT !.excl = @ \cup {WRITE}]]
      BY <3>4, <3>6, StepOf DEF Pc
    <3> QED BY <3>1, <3>5, <3>6
  <2> QED BY <2>2 DEF Pc
<1>3. ~InTxn(x) /\ x.w.todo = <<>> /\ ~InFlight(x) /\ ~InTxn(y)
  BY <1>1, NotInTxn, AtLink
<1>4. y.w.todo = x.w.todo /\ (y.w.close <=> x.w.close) /\ y.nCkpt = x.nCkpt
  BY <1>1 DEF Loaded, Moved, WorkFields
<1>5. AsideOK(y, shm)
  BY <1>1, <1>2, <1>3, <1>4 DEF AsideOK
<1> QED BY <1>1, <1>3, <1>4, <1>5, AsideStep

LEMMA RetryHdrRec ==
  ASSUME TypeInv, DataInv, RecInv, NEW c \in Conn, RetryHdr(c) PROVE RecInv'
<1> DEFINE x == con[c]
           y == con'[c]
<1>1. /\ Only(c) /\ UNCHANGED <<shm, log, file, past>> /\ x.pc = "retryHdr" /\ x.lock = 0 - 1
      /\ WRITE \in x.excl
      /\ \/ /\ GoodHdr /\ y.pc \in {"ckptTest", "choose"} /\ Loaded(y, x, shm.h0)
            /\ y.excl = x.excl \ {WRITE}
         \/ ~GoodHdr /\ y.pc = "recover" /\ Moved(y, x)
         \/ x.w.ckpt /\ y.pc = "ckptEnd" /\ Moved(y, x)
         \/ ~x.w.ckpt /\ y.pc = "idle" /\ y.w = NoWork /\ y.nCkpt = x.nCkpt
  BY RetryHdrEffect
<1>2. ASSUME x.w.close PROVE y.pc # "ckptEnd"
  <2>1. ExclFree(c, AllLocks \ x.excl)
    BY <1>2, AloneFree
  <2>2. CASE GoodHdr
    <3>1. y.pc = IF x.w.ckpt THEN "ckptTest" ELSE "choose"
      <4>1. con' = [con EXCEPT ![c] = [Goto(LoadHdr(x), IF x.w.ckpt THEN "ckptTest" ELSE "choose")
                                         EXCEPT !.excl = @ \ {WRITE}]]
        BY <2>2 DEF RetryHdr, Put
      <4>2. ConnType(x) /\ HdrOK(shm.h0)
        BY AtConn
      <4>3. ConnType(LoadHdr(x))
        BY <4>2, NewHdrFields DEF LoadHdr
      <4>4. [Goto(LoadHdr(x), IF x.w.ckpt THEN "ckptTest" ELSE "choose")
               EXCEPT !.excl = @ \ {WRITE}].pc = IF x.w.ckpt THEN "ckptTest" ELSE "choose"
        BY <4>3 DEF Goto, ConnType, ConnFields
      <4> DEFINE z == [Goto(LoadHdr(x), IF x.w.ckpt THEN "ckptTest" ELSE "choose")
                         EXCEPT !.excl = @ \ {WRITE}]
      <4>5. z.pc = IF x.w.ckpt THEN "ckptTest" ELSE "choose"
        BY <4>4
      <4>6. con' = [con EXCEPT ![c] = z]
        BY <4>1
      <4> HIDE DEF z
      <4>7. con'[c] = z
        BY <4>6, StepOf
      <4> QED BY <4>5, <4>7
    <3> QED BY <3>1
  <2>3. CASE ~GoodHdr
    <3>1. con' = [con EXCEPT ![c] = [Goto(x, "recover") EXCEPT !.excl = AllLocks]]
      BY <2>1, <2>3 DEF RetryHdr, Put
    <3>2. [Goto(x, "recover") EXCEPT !.excl = AllLocks].pc = "recover"
      BY AtConn DEF Goto, ConnType, ConnFields
    <3>3. y.pc = "recover"
      BY <3>1, <3>2, StepOf
    <3> QED BY <3>3
  <2> QED BY <2>2, <2>3
<1>3. ~InTxn(x) /\ x.w.todo = <<>> /\ ~InFlight(x) /\ ~InTxn(y)
  BY <1>1, NotInTxn, AtLink
<1>4. y.w.todo = <<>> /\ (y.w.close => x.w.close) /\ y.nCkpt = x.nCkpt
  BY <1>1, <1>3 DEF Loaded, Moved, WorkFields, NoWork
<1>5. y.pc \in {"ckptTest", "choose", "recover", "ckptEnd", "idle"}
  BY <1>1
<1>6. AsideOK(y, shm)
  BY <1>2, <1>3, <1>4, <1>5 DEF AsideOK
<1> QED BY <1>1, <1>3, <1>4, <1>6, AsideStep

LEMMA RecoverInfoRec ==
  ASSUME TypeInv, BackInv, DataInv, RecInv, NEW c \in Conn, RecoverInfo(c) PROVE RecInv'
<1> DEFINE x == con[c]
           y == con'[c]
<1>1. /\ Only(c) /\ UNCHANGED <<log, file, past>> /\ x.pc = "recoverInfo"
      /\ y.pc \in {"ckptTest", "choose"} /\ Moved(y, x)
      /\ shm'.h0 = shm.h0 /\ shm'.nBackfill = 0
  BY RecoverInfoEffect
<1>2. shm.nBackfill = 0
  BY <1>1 DEF BackInv, BackOK, Recovering
<1>3. ~InTxn(x) /\ x.w.todo = <<>> /\ ~InFlight(x) /\ ~InTxn(y)
  BY <1>1, NotInTxn, AtLink
<1>4. AsideOK(y, shm)
  BY <1>1, <1>3 DEF AsideOK, Moved
<1>5. y.nCkpt = x.nCkpt
  BY <1>1 DEF Moved
<1> QED BY <1>1, <1>2, <1>3, <1>4, <1>5, AsideStep

\* A step of c on the field pc, when the rest of it does not matter.
LEMMA PcStep ==
  ASSUME TypeInv, NEW c \in Conn, NEW z, Put(c, z), NEW pc, z.pc = pc PROVE con'[c].pc = pc
BY StepOf DEF Put

LEMMA CkptTestRec ==
  ASSUME TypeInv, BackInv, DataInv, RecInv, NEW c \in Conn, CkptTest(c) PROVE RecInv'
<1> DEFINE x == con[c]
           y == con'[c]
<1>1. /\ Only(c) /\ UNCHANGED <<shm, log, file, past>> /\ x.pc = "ckptTest"
      /\ \/ y.pc = "ckptEnd" /\ Moved(y, x)
         \/ /\ y.pc = "ckptMark" /\ y.w.safe = x.hdr.mx /\ y.w.todo = x.w.todo
            /\ y.nCkpt = x.nCkpt
  BY CkptTestEffect DEF WorkFields
<1>2. shm.h0.init /\ x.hdr = shm.h0 /\ x.hdr.mx \in Nat /\ shm.nBackfill \in Nat
  BY <1>1, InCopy, AtConn DEF Copying, HdrsAgree, TypeInv, ShmInv, HdrOK
<1>3. y.pc = "ckptEnd" => shm.h0.mx <= shm.nBackfill
  <2>1. CASE shm.nBackfill >= x.hdr.mx
    BY <1>2, <2>1
  <2>2. CASE ~(shm.nBackfill >= x.hdr.mx)
    <3> DEFINE z == [Goto(x, "ckptMark") EXCEPT !.w.iter = Iterator(x.hdr.mx),
                                                !.w.safe = x.hdr.mx, !.w.mxI = 1]
    <3>1. Put(c, z)
      BY <2>2 DEF CkptTest
    <3>2. z.pc = "ckptMark"
      BY AtConn DEF Goto, ConnType, ConnFields
    <3> HIDE DEF z
    <3> QED BY <3>1, <3>2, PcStep
  <2> QED BY <2>1, <2>2
<1>4. ~InTxn(x) /\ x.w.todo = <<>> /\ ~InFlight(x) /\ ~InTxn(y)
  BY <1>1, NotInTxn, AtLink
<1>5. y.w.todo = <<>> /\ y.nCkpt = x.nCkpt /\ y.pc \in {"ckptMark", "ckptEnd"}
  BY <1>1, <1>4 DEF Moved
<1>6. AsideOK(y, shm)
  BY <1>1, <1>2, <1>3, <1>4, <1>5 DEF AsideOK
<1> QED BY <1>1, <1>4, <1>5, <1>6, AsideStep

LEMMA CkptMarkRec ==
  ASSUME TypeInv, DataInv, RecInv, NEW c \in Conn, CkptMark(c) PROVE RecInv'
<1> DEFINE x == con[c]
           y == con'[c]
<1>1. /\ Only(c) /\ UNCHANGED <<log, file, past>> /\ x.pc = "ckptMark"
      /\ shm'.h0 = shm.h0 /\ shm'.nBackfill = shm.nBackfill
      /\ y.pc \in {"ckptMark", "ckptLock0"}
      /\ \A f \in WorkFields \ {"safe", "mxI"} : y.w[f] = x.w[f]
      /\ y.w.safe = SafeFrame(x.w.safe, shm.mark[x.w.mxI], ~ExclFree(c, {READ(x.w.mxI)}))
      /\ y.nCkpt = x.nCkpt
  BY CkptMarkEffect
<1>5. y.w.todo = x.w.todo /\ (y.w.close <=> x.w.close)
  BY <1>1 DEF WorkFields
<1>2. ASSUME x.w.close PROVE y.w.safe = shm.h0.mx
  <2>1. ExclFree(c, {READ(x.w.mxI)})
    BY <1>2, AloneFree
  <2>2. y.w.safe = x.w.safe
    BY <1>1, <2>1 DEF SafeFrame
  <2>3. RestOK(x, shm, log, past)
    BY AtLink DEF LinkOK
  <2> QED BY <1>1, <1>2, <2>2, <2>3 DEF RestOK
<1>3. ~InTxn(x) /\ x.w.todo = <<>> /\ ~InFlight(x) /\ ~InTxn(y)
  BY <1>1, NotInTxn, AtLink
<1>4. AsideOK(y, shm)
  BY <1>1, <1>2, <1>3, <1>5 DEF AsideOK
<1> QED BY <1>1, <1>3, <1>4, AsideStep

\* Another connection reads the database file, or the log is there already.
LEMMA CkptLeaveRec ==
  ASSUME TypeInv, BackInv, DataInv, RecInv, NEW c \in Conn, CkptLock0(c),
         ~(shm.nBackfill < con[c].w.safe /\ ExclFree(c, {READ(0)}))
  PROVE  RecInv'
<1> DEFINE x == con[c]
           y == con'[c]
<1>1. Only(c) /\ UNCHANGED <<shm, file, past>> /\ x.pc = "ckptLock0"
  BY CkptLock0Effect
<1>2. log' = log /\ Put(c, Goto(x, "ckptEnd"))
  BY DEF CkptLock0
<1>3. y.pc = "ckptEnd" /\ y.w = x.w /\ y.nCkpt = x.nCkpt
  <2>1. con'[c] = Goto(x, "ckptEnd")
    BY <1>2, StepOf DEF Put
  <2> QED BY <2>1, AtConn, GotoFields DEF ConnFields
<1>4. ~InTxn(x) /\ x.w.todo = <<>> /\ ~InFlight(x) /\ ~InTxn(y)
  BY <1>1, <1>3, NotInTxn, AtLink
<1>5. shm.h0.init /\ x.w.safe \in Nat /\ shm.nBackfill \in Nat
  BY <1>1, InCopy, AtConn DEF Copying, HdrsAgree, TypeInv, ShmInv, ConnType, WorkOK
<1>6. ASSUME x.w.close PROVE shm.h0.mx <= shm.nBackfill
  <2>1. x.w.safe <= shm.nBackfill
    BY <1>5, <1>6, AloneFree
  <2>2. x.w.safe = shm.h0.mx
    BY <1>1, <1>6, AtLink DEF LinkOK, RestOK
  <2> QED BY <2>1, <2>2
<1>7. AsideOK(y, shm)
  BY <1>3, <1>4, <1>5, <1>6 DEF AsideOK
<1> QED BY <1>1, <1>2, <1>3, <1>4, <1>7, AsideStep

LEMMA Lock0Rec ==
  ASSUME TypeInv, DataInv, HeadInv, SnapInv, RecInv, NEW c \in Conn, Lock0(c) PROVE RecInv'
<1> DEFINE x == con[c]
           y == con'[c]
<1>1. /\ Only(c) /\ UNCHANGED <<shm, log, file, past>> /\ x.pc = "lock0" /\ x.excl = {}
      /\ \/ y.pc = "pick" /\ y.excl = x.excl /\ Moved(y, x)
         \/ Retried(y, x)
         \/ shm.h0 = x.hdr /\ NowReads(y, x, 0)
  BY Lock0Effect
<1>2. ~InTxn(x) /\ x.w.todo = <<>> /\ ~InFlight(x) /\ NoWork.todo = <<>>
  BY <1>1, NotInTxn, AtLink DEF NoWork
<1>3. /\ y.excl = x.excl /\ y.nCkpt = x.nCkpt /\ y.w.todo = <<>>
      /\ y.pc \in {"pick", "idle", "read"}
      /\ y.pc = "read" => shm.h0 = x.hdr
  BY <1>1, <1>2 DEF Moved, Retried, NowReads
<1>4. ~InTxn(y)
  BY <1>1, <1>3, NotInTxn DEF Restarting, Logging
<1>5. shm.h0 = x.hdr => shm.h0.mx <= shm.nBackfill
  <2>1. shm.h0.init
    BY <1>1, AtHead
  <2> QED BY <1>1, <2>1, SnapAt DEF OtherOK
<1>6. AsideOK(y, shm)
  BY <1>3, <1>4, <1>5 DEF AsideOK
<1> QED BY <1>1, <1>2, <1>3, <1>6, AsideStep

\* A reader that looks for a read mark.
LEMMA MarkReaderRec ==
  ASSUME TypeInv, DataInv, RecInv, NEW c \in Conn, Pick(c) \/ LockMark(c),
         WRITE \notin con[c].excl
  PROVE  RecInv'
<1> DEFINE x == con[c]
           y == con'[c]
<1>1. /\ Only(c) /\ UNCHANGED <<log, file, past>> /\ x.pc \in {"pick", "lockMark"}
      /\ shm'.h0 = shm.h0 /\ shm'.nBackfill = shm.nBackfill
      /\ \/ Retried(y, x)
         \/ /\ y.pc = "lockMark" /\ \A f \in WorkFields \ {"mxI", "mxMark"} : y.w[f] = x.w[f]
            /\ y.excl = x.excl /\ y.nCkpt = x.nCkpt
         \/ x.w.mxI \in Marks /\ NowReads(y, x, x.w.mxI)
  <2>1. CASE Pick(c)
    BY <2>1, PickEffect
  <2>2. CASE LockMark(c)
    BY <2>2, LockMarkEffect
  <2> QED BY <2>1, <2>2
<1>2. ~InTxn(x) /\ x.w.todo = <<>> /\ ~InFlight(x) /\ NoWork.todo = <<>>
  BY <1>1, NotInTxn, AtLink DEF NoWork, Restarting, Logging
<1>3. /\ y.excl = x.excl /\ y.nCkpt = x.nCkpt /\ y.w.todo = <<>>
      /\ y.pc \in {"lockMark", "idle", "read"}
      /\ y.pc = "read" => y.lock \in Marks
  <2>1. CASE Retried(y, x)
    BY <1>2, <2>1 DEF Retried
  <2>2. CASE y.pc = "lockMark" /\ (\A f \in WorkFields \ {"mxI", "mxMark"} : y.w[f] = x.w[f])
             /\ y.excl = x.excl /\ y.nCkpt = x.nCkpt
    <3>1. y.w.todo = x.w.todo
      BY <2>2 DEF WorkFields
    <3> QED BY <1>2, <2>2, <3>1
  <2>3. CASE x.w.mxI \in Marks /\ NowReads(y, x, x.w.mxI)
    BY <1>2, <2>3 DEF NowReads
  <2> QED BY <1>1, <2>1, <2>2, <2>3
<1>4. ~InTxn(y)
  BY <1>3, NotInTxn DEF Restarting, Logging
<1>5. y.pc = "read" => y.lock # 0
  BY <1>3, Constants
<1>6. AsideOK(y, shm)
  BY <1>3, <1>4, <1>5 DEF AsideOK
<1> QED BY <1>1, <1>2, <1>3, <1>6, AsideStep

LEMMA CkptEndRec ==
  ASSUME TypeInv, DataInv, RecInv, NEW c \in Conn, CkptEnd(c), ~con[c].w.close PROVE RecInv'
<1> DEFINE x == con[c]
           y == con'[c]
<1>1. Put(c, AfterCkpt(x)) /\ UNCHANGED <<shm, log, file, past>> /\ x.pc = "ckptEnd"
  BY DEF CkptEnd, Pc
<1>2. Only(c) /\ y = AfterCkpt(x)
  BY <1>1, StepOf DEF Put, Only
<1>3. y.pc = "idle" /\ y.w = NoWork /\ y.nCkpt = x.nCkpt
  BY <1>2 DEF AfterCkpt, Ended, Connected
<1>4. ~InTxn(x) /\ ~InFlight(x) /\ ~InTxn(y) /\ NoWork.todo = <<>>
  BY <1>1, <1>3, NotInTxn, AtLink DEF NoWork
<1>5. AsideOK(y, shm)
  BY <1>3, <1>4 DEF AsideOK
<1> QED BY <1>1, <1>2, <1>3, <1>4, <1>5, AsideStep

LEMMA RecoverRec ==
  ASSUME TypeInv, DataInv, HeadInv, RecInv, NEW c \in Conn, Recover(c) PROVE RecInv'
<1> DEFINE x == con[c]
           y == con'[c]
<1>1. /\ Only(c) /\ UNCHANGED <<log, file, past>> /\ x.pc = "recover"
      /\ shm'.h0 = shm.h0 /\ shm'.nBackfill = shm.nBackfill
      /\ y.pc = "recoverHdr" /\ \A f \in WorkFields \ {"changed"} : y.w[f] = x.w[f]
  BY RecoverEffect
<1>2. ~shm.h0.init
  BY <1>1, AtHead DEF HeadOK
<1>3. ~InTxn(x) /\ x.w.todo = <<>> /\ ~InFlight(x) /\ ~InTxn(y) /\ ~InFlight(y)
  BY <1>1, NotInTxn, AtLink, NotFlying
<1>4. y.w.todo = <<>>
  BY <1>1, <1>3 DEF WorkFields
<1>5. y.nCkpt = IF HasFrames(log.cur) THEN log.cur.nCkpt ELSE x.nCkpt
  <2> DEFINE z0 == Goto(NewHdr([con[c] EXCEPT !.hdr = NoHdr], RecoveredHdr(log.cur)), "recoverHdr")
             z == [z0 EXCEPT !.nCkpt = IF HasFrames(log.cur) THEN log.cur.nCkpt ELSE @]
  <2>1. con' = [con EXCEPT ![c] = z]
    BY DEF Recover, Put
  <2>2. ConnType(z0) /\ z0.nCkpt = x.nCkpt
    <3>1. ConnType([x EXCEPT !.hdr = NoHdr]) /\ [x EXCEPT !.hdr = NoHdr].nCkpt = x.nCkpt
      BY AtConn, EmptyOK DEF ConnType, ConnFields
    <3>2. HdrOK(RecoveredHdr(log.cur))
      BY RecoveredHdrOK, FilesTyped
    <3> DEFINE u == [x EXCEPT !.hdr = NoHdr]
               h == RecoveredHdr(log.cur)
               n == NewHdr(u, h)
    <3>4. ConnType(u) /\ u.nCkpt = x.nCkpt /\ HdrOK(h)
      BY <3>1, <3>2
    <3>5. z0 = Goto(n, "recoverHdr")
      OBVIOUS
    <3> HIDE DEF u, h, z0
    <3>6. ConnType(n) /\ \A f \in ConnFields \ {"hdr", "cache", "w"} : n[f] = u[f]
      BY <3>4, NewHdrFields
    <3>3. ConnType(n) /\ n.nCkpt = x.nCkpt
      BY <3>4, <3>6 DEF ConnFields
    <3> HIDE DEF n
    <3>7. ConnType(z0) /\ \A f \in ConnFields \ {"pc"} : z0[f] = n[f]
      BY <3>3, <3>5, GotoFields
    <3> QED BY <3>3, <3>7 DEF ConnFields
  <2> HIDE DEF z0
  <2>3. z.nCkpt = IF HasFrames(log.cur) THEN log.cur.nCkpt ELSE x.nCkpt
    BY <2>2 DEF ConnType, ConnFields
  <2>4. y = z
    BY <2>1, StepOf
  <2> QED BY <2>3, <2>4
<1>6. x.nCkpt > 0 => HasFrames(log.cur)
  BY <1>1, <1>2, AtLink DEF LinkOK, SaltOK
<1>7. x.nCkpt = 0 \/ x.nCkpt > 0
  BY AtConn DEF ConnType
<1>8. y.nCkpt > 0 => HasFrames(log.cur)
  BY <1>5, <1>6, <1>7
<1>9. LinkOK(c, y, shm, log, past)
  <2>1. SaltOK(c, y, shm, log)
    BY <1>1, <1>2, <1>8 DEF SaltOK
  <2>2. RestOK(y, shm, log, past)
    BY <1>1, <1>2, <1>4 DEF RestOK
  <2> QED BY <1>2, <2>1, <2>2 DEF LinkOK, FlightOK, DraftOK
<1>10. LinkInv'
  BY <1>1, <1>3, <1>9, LinkCalm DEF RecInv
<1>11. PersistInv'
  <2>1. \A d \in Conn : con'[d].w.todo = con[d].w.todo \/ con'[d].w.todo = <<>>
    BY <1>1, <1>4 DEF Only
  <2> QED BY <1>1, <2>1, FilesTyped, PersistCalm DEF RecInv
<1> QED BY <1>10, <1>11 DEF RecInv

-----------------------------------------------------------------------------
(* The steps of a writer that leave the files and the shared header alone.    *)

LEMMA TxnStep ==
  ASSUME TypeInv, DataInv, RecInv, NEW c \in Conn, Only(c), shm'.h0 = shm.h0,
         shm'.h0.mx <= shm'.nBackfill <=> shm.h0.mx <= shm.nBackfill,
         UNCHANGED <<log, file, past>>, con'[c].w.todo = con[c].w.todo,
         con'[c].nCkpt = con[c].nCkpt, InTxn(con'[c]), ~InFlight(con[c]), ~InFlight(con'[c]),
         con[c].pc # "recoverHdr", DraftOK(con'[c], shm, log)
  PROVE  RecInv'
<1> DEFINE x == con[c]
           y == con'[c]
<1>1. \A d \in Conn : con'[d].w.todo = con[d].w.todo \/ con'[d].w.todo = <<>>
  BY DEF Only
<1>2. past.salt \in Nat /\ past'.salt = past.salt
  BY FilesTyped
<1>3. PersistInv'
  BY <1>1, <1>2, PersistCalm DEF RecInv
<1>4. /\ y.pc \notin {"ckptWrite", "ckptMark", "ckptLock0", "ckptEnd", "commitHdr"}
      /\ y.pc \in Logging \cup Restarting \cup {"read", "pick", "lockMark"}
  BY DEF InTxn, Writes, Logging, Restarting, InFlight
<1>5. RestOK(y, shm, log, past)
  BY <1>4 DEF RestOK, DraftOK
<1>6. SaltOK(c, y, shm, log)
  BY AtLink DEF LinkOK, SaltOK
<1>7. LinkOK(c, y, shm, log, past)
  BY <1>5, <1>6 DEF LinkOK, FlightOK
<1>8. LinkInv'
  BY <1>7, LinkCalm DEF RecInv
<1> QED BY <1>3, <1>8 DEF RecInv

\* Nobody has a commit in flight when the write lock is free, or one's own.
LEMMA LockedFlying ==
  ASSUME TypeInv, NEW c \in Conn, \A d \in Conn \ {c} : WRITE \notin con[d].excl
  PROVE  Flying <=> InFlight(con[c])
<1>1. ASSUME NEW d \in Conn \ {c} PROVE ~InFlight(con[d])
  BY AtConn DEF InFlight, Phase, Logging
<1> QED BY <1>1 DEF Flying

\* What the shared header h says of the log.
HeadTold(h, lg) ==
  h.mx > 0 => /\ Text(lg.cur) = h.sum /\ Len(h.sum) = h.mx /\ h.salt = lg.cur.salt
              /\ lg.cur.salt > 0 /\ OneHeader(lg)

LEMMA ToldNow ==
  ASSUME TypeInv, SnapInv, RecInv, shm.h0.init, ~Flying PROVE HeadTold(shm.h0, log)
<1>1. shm.h0.mx > 0 => Len(shm.h0.sum) = shm.h0.mx
  BY DEF SnapInv, Common, Held, Sound
<1> QED BY <1>1 DEF RecInv, LinkInv, LatestOK, HeadTold

TodoEnds(w) ==
  /\ \A k \in DOMAIN w.todo : w.todo[k].n > 0 <=> (w.commit /\ k = Len(w.todo))
  /\ w.commit => w.todo # <<>>

\* A writer whose header is the shared one.
LEMMA DraftFresh ==
  ASSUME NEW y, NEW s, NEW lg, lg.cur \in Logs, s.h0.mx \in Nat, y.hdr = s.h0, HeadTold(s.h0, lg),
         y.pc \notin {"append", "commitHdr", "syncHdr"}, TodoEnds(y.w),
         s.h0.mx = 0 /\ y.nCkpt > 0 => SaltFit(s.h0.salt, lg), y.lock = 0 => s.h0.mx <= s.nBackfill
  PROVE  DraftOK(y, s, lg) /\ ~InFlight(y)
<1>1. ~InFlight(y)
  BY DEF InFlight
<1>2. y.lock # 0 => Base(y) = IF s.h0.mx = 0 THEN <<>> ELSE s.h0.sum
  BY DEF Base
<1>3. y.lock # 0 => Chained(Base(y), lg.cur) /\ Quiet(Base(y), s.h0.mx, Len(Base(y)))
  <2>1. CASE s.h0.mx = 0
    <3>1. Len(<<>>) = 0
      OBVIOUS
    <3> QED BY <1>2, <2>1, <3>1 DEF Chained, Quiet
  <2>2. CASE s.h0.mx > 0
    <3>1. Chained(s.h0.sum, lg.cur) /\ Len(s.h0.sum) = s.h0.mx
      BY <2>2, TextSpelled DEF HeadTold
    <3>2. Quiet(s.h0.sum, s.h0.mx, Len(s.h0.sum))
      BY <3>1 DEF Quiet
    <3> QED BY <1>2, <2>2, <3>1, <3>2
  <2> QED BY <2>1, <2>2
<1>4. OnLog(y) => s.h0.mx > 0 /\ y.hdr.salt = lg.cur.salt /\ lg.cur.salt > 0 /\ OneHeader(lg)
  BY DEF OnLog, HeadTold
<1> QED BY <1>1, <1>3, <1>4 DEF DraftOK, TodoEnds

LEMMA BeginWriteRec ==
  ASSUME TypeInv, HeadInv, DataInv, SnapInv, RecInv, NEW c \in Conn, BeginWrite(c) PROVE RecInv'
<1> DEFINE x == con[c]
           y == con'[c]
<1>1. /\ Only(c) /\ UNCHANGED <<shm, log, file, past>> /\ x.pc = "read" /\ x.excl = {}
      /\ c \in Writers /\ ExclFree(c, {WRITE}) /\ shm.h0 = x.hdr
      /\ y.pc = "read" /\ y.excl = {WRITE} /\ Moved(y, x)
  BY BeginWriteEffect
<1>2. shm.h0.init /\ shm.h0.mx \in Nat /\ log.cur \in Logs
  BY <1>1, AtHead, AtConn, FilesTyped DEF HdrOK
<1>3. ~InFlight(x) /\ InTxn(y) /\ ~InFlight(y)
  BY <1>1 DEF InFlight, InTxn, Writes
<1>4. ~Flying
  BY <1>1, <1>3, LockedFlying DEF ExclFree
<1>5. HeadTold(shm.h0, log)
  BY <1>2, <1>4, ToldNow
<1>6. x.w = NoWork
  BY <1>1, <1>2, SnapAt DEF ReaderOK, Reads
<1>7. TodoEnds(y.w)
  BY <1>1, <1>6 DEF Moved, TodoEnds, NoWork
<1>8. LinkOK(c, x, shm, log, past)
  BY AtLink
<1>9. /\ shm.h0.mx = 0 /\ x.nCkpt > 0 => SaltFit(shm.h0.salt, log)
      /\ x.lock = 0 => shm.h0.mx <= shm.nBackfill
  BY <1>1, <1>2, <1>3, <1>8 DEF LinkOK, SaltOK, RestOK
<1>10. y.hdr = shm.h0 /\ y.nCkpt = x.nCkpt /\ y.lock = x.lock /\ y.w = x.w
  BY <1>1 DEF Moved
<1>11. DraftOK(y, shm, log)
  BY <1>1, <1>2, <1>5, <1>7, <1>9, <1>10, DraftFresh
<1> QED BY <1>1, <1>3, <1>10, <1>11, TxnStep

\* What a writer that has written no frame yet knows.
LEMMA UnwrittenAt ==
  ASSUME TypeInv, BackInv, DataInv, SnapInv, RecInv, shm.h0.init, NEW c \in Conn, InTxn(con[c]),
         con[c].pc \notin {"append", "commitHdr"}
  PROVE  /\ ~InFlight(con[c]) /\ ~Flying /\ HeadTold(shm.h0, log) /\ TodoEnds(con[c].w)
         /\ shm.h0.mx = 0 /\ con[c].nCkpt > 0 => SaltFit(shm.h0.salt, log)
         /\ con[c].lock = 0 => shm.h0.mx <= shm.nBackfill
<1> DEFINE x == con[c]
<1>1. ~InFlight(x)
  BY DEF InFlight
<1>2. c \in Writers
  BY AtBack DEF BackOK, InTxn
<1>3. WRITE \in x.excl
  BY AtConn DEF InTxn, Writes, Phase, Restarting
<1>4. \A d \in Conn \ {c} : WRITE \notin con[d].excl
  BY <1>3, OneTxn
<1>5. ~Flying
  BY <1>1, <1>4, LockedFlying
<1>6. LinkOK(c, x, shm, log, past)
  BY AtLink
<1>7. DraftOK(x, shm, log) /\ SaltOK(c, x, shm, log)
  BY <1>6 DEF LinkOK
<1> QED BY <1>1, <1>2, <1>5, <1>7, ToldNow DEF DraftOK, SaltOK, TodoEnds

LEMMA NoRestartRec ==
  ASSUME TypeInv, BackInv, HeadInv, DataInv, SnapInv, RecInv, NEW c \in Conn, RestartLog(c),
         con'[c].pc # "restartHdr"
  PROVE  RecInv'
<1> DEFINE x == con[c]
           y == con'[c]
<1>1. /\ Only(c) /\ UNCHANGED <<shm, log, file, past>> /\ x.pc = "restart" /\ x.excl = {WRITE}
      /\ y.pc = "pick" /\ y.lock = 0 - 1
      /\ y.hdr = x.hdr /\ y.excl = x.excl /\ y.nCkpt = x.nCkpt /\ y.w = x.w
  BY RestartLogEffect
<1>2. InTxn(x) /\ InTxn(y) /\ shm.h0.init /\ shm.h0.mx \in Nat /\ log.cur \in Logs
  BY <1>1, AtHead, AtConn, FilesTyped DEF HdrOK, InTxn, Writes, Restarting
<1>3. x.hdr = shm.h0
  BY <1>1, <1>2, WriterAt DEF PhaseOK
<1>4. /\ ~InFlight(x) /\ HeadTold(shm.h0, log) /\ TodoEnds(x.w)
      /\ shm.h0.mx = 0 /\ x.nCkpt > 0 => SaltFit(shm.h0.salt, log)
  BY <1>1, <1>2, UnwrittenAt
<1>5. DraftOK(y, shm, log) /\ ~InFlight(y)
  BY <1>1, <1>2, <1>3, <1>4, DraftFresh
<1> QED BY <1>1, <1>2, <1>4, <1>5, TxnStep

LEMMA RestartInfoRec ==
  ASSUME TypeInv, BackInv, HeadInv, DataInv, SnapInv, RecInv, NEW c \in Conn, RestartInfo(c)
  PROVE  RecInv'
<1> DEFINE x == con[c]
           y == con'[c]
<1>1. /\ Only(c) /\ UNCHANGED <<log, file, past>> /\ x.pc = "restartInfo"
      /\ y.pc = "pick" /\ y.lock = 0 - 1 /\ y.excl = {WRITE}
      /\ y.hdr = x.hdr /\ y.nCkpt = x.nCkpt /\ y.w = x.w
      /\ shm'.h0 = shm.h0 /\ shm'.nBackfill = 0
  BY RestartInfoEffect
<1>2. InTxn(x) /\ InTxn(y) /\ shm.h0.init /\ log.cur \in Logs
  BY <1>1, AtHead, FilesTyped DEF InTxn, Writes, Restarting
<1>3. x.hdr = shm.h0 /\ shm.h0.mx = 0
  BY <1>1, AtBack DEF BackOK, HdrsAgree
<1>4. /\ ~InFlight(x) /\ HeadTold(shm.h0, log) /\ TodoEnds(x.w)
      /\ shm.h0.mx = 0 /\ x.nCkpt > 0 => SaltFit(shm.h0.salt, log)
  BY <1>1, <1>2, UnwrittenAt
<1>5. DraftOK(y, shm, log) /\ ~InFlight(y)
  BY <1>1, <1>2, <1>3, <1>4, DraftFresh
<1>6. shm'.h0.mx <= shm'.nBackfill <=> shm.h0.mx <= shm.nBackfill
  BY <1>1, <1>3 DEF TypeInv, ShmInv
<1> QED BY <1>1, <1>2, <1>4, <1>5, <1>6, TxnStep

\* A writer that looks for a read mark, or saves where it is.
LEMMA DraftSame ==
  ASSUME NEW x, NEW y, NEW s, NEW lg, DraftOK(x, s, lg), InTxn(x), y.hdr = x.hdr, y.nCkpt = x.nCkpt,
         y.lock # 0 => x.lock # 0, y.lock = 0 => x.lock = 0,
         y.w.todo = x.w.todo, y.w.commit <=> x.w.commit,
         x.pc \notin {"append", "commitHdr", "syncHdr", "restartHdr"},
         y.pc \notin {"append", "commitHdr", "syncHdr"}
  PROVE  DraftOK(y, s, lg) /\ ~InFlight(x) /\ ~InFlight(y)
<1>1. ~InFlight(y) /\ ~InFlight(x)
  BY DEF InFlight
<1>2. Base(y) = Base(x) /\ (OnLog(y) => OnLog(x))
  BY DEF Base, OnLog
<1> QED BY <1>1, <1>2 DEF DraftOK

LEMMA MarkWriterRec ==
  ASSUME TypeInv, BackInv, HeadInv, DataInv, SnapInv, RecInv, NEW c \in Conn,
         Pick(c) \/ LockMark(c), WRITE \in con[c].excl
  PROVE  RecInv'
<1> DEFINE x == con[c]
           y == con'[c]
<1>1. /\ Only(c) /\ UNCHANGED <<log, file, past>> /\ x.pc \in {"pick", "lockMark"}
      /\ shm'.h0 = shm.h0 /\ shm'.nBackfill = shm.nBackfill
      /\ \/ Retried(y, x)
         \/ /\ y.pc \in {"lockMark", "frames"}
            /\ \A f \in WorkFields \ {"mxI", "mxMark"} : y.w[f] = x.w[f]
            /\ y.hdr = x.hdr /\ y.excl = x.excl /\ y.nCkpt = x.nCkpt
            /\ y.lock = x.lock \/ (y.lock = x.w.mxI /\ x.w.mxI \in Marks)
  <2>1. CASE Pick(c)
    BY <2>1, PickEffect
  <2>2. CASE LockMark(c)
    BY <2>2, LockMarkEffect
  <2> QED BY <2>1, <2>2
<1>2. InTxn(x) /\ shm.h0.init /\ x.lock = 0 - 1
  BY <1>1, AtHead, AtConn DEF InTxn, Writes, Phase, Logging, Restarting
<1>3. /\ y.hdr = x.hdr /\ y.nCkpt = x.nCkpt /\ y.w.todo = x.w.todo /\ (y.w.commit <=> x.w.commit)
      /\ y.pc \in {"pick", "lockMark", "frames"} /\ WRITE \in y.excl
      /\ y.lock = x.lock \/ y.lock \in Marks
  <2>1. CASE Retried(y, x)
    BY <2>1 DEF Retried
  <2>2. CASE ~Retried(y, x)
    <3>1. y.w.todo = x.w.todo /\ (y.w.commit <=> x.w.commit)
      BY <1>1, <2>2 DEF WorkFields
    <3> QED BY <1>1, <2>2, <3>1
  <2> QED BY <2>1, <2>2
<1>4. InTxn(y) /\ y.lock # 0 /\ x.lock # 0
  BY <1>2, <1>3, Constants DEF InTxn, Writes, Logging
<1>5. DraftOK(y, shm, log) /\ ~InFlight(x) /\ ~InFlight(y)
  <2>1. DraftOK(x, shm, log)
    BY AtLink DEF LinkOK
  <2> QED BY <1>1, <1>2, <1>3, <1>4, <2>1, DraftSame
<1> QED BY <1>1, <1>3, <1>4, <1>5, TxnStep

LEMMA SavepointRec ==
  ASSUME TypeInv, BackInv, HeadInv, DataInv, SnapInv, RecInv, NEW c \in Conn, Savepoint(c)
  PROVE  RecInv'
<1> DEFINE x == con[c]
           y == con'[c]
<1>1. /\ Only(c) /\ UNCHANGED <<shm, log, file, past>> /\ Writing(c) /\ x.excl = {WRITE}
      /\ y.pc = "read" /\ y.hdr = x.hdr /\ y.lock = x.lock /\ y.excl = x.excl
      /\ y.nCkpt = x.nCkpt /\ y.w = x.w
  BY SavepointEffect
<1>2. x.pc = "read" /\ InTxn(x) /\ InTxn(y)
  BY <1>1 DEF InTxn, Writes, Writing, Pc
<1>3. DraftOK(y, shm, log) /\ ~InFlight(x) /\ ~InFlight(y)
  <2>1. DraftOK(x, shm, log)
    BY AtLink DEF LinkOK
  <2> QED BY <1>1, <1>2, <2>1, DraftSame
<1> QED BY <1>1, <1>2, <1>3, TxnStep

-----------------------------------------------------------------------------
(* What the other connections know, when one of them writes or copies.        *)

LEMMA LinkBeside ==
  ASSUME NEW d, NEW x, NEW s, NEW t, NEW lg, NEW m, NEW p, NEW q, LinkOK(d, x, s, lg, p), ~InTxn(x),
         x.pc \notin {"ckptMark", "ckptLock0", "ckptWrite", "recoverHdr"}, ~x.w.close,
         d \notin Writers \/ x.nCkpt = 0, x.nCkpt \in Nat, t.h0.init,
         x.pc = "read" /\ x.lock = 0 /\ x.hdr = t.h0 => t.h0.mx <= t.nBackfill
  PROVE  LinkOK(d, x, t, m, q)
<1>1. ~InFlight(x) /\ x.pc # "commitHdr"
  BY NotFlying DEF InFlight
<1>2. FlightOK(x, t, m, q) /\ DraftOK(x, t, m)
  BY <1>1 DEF FlightOK, DraftOK
<1>3. SaltOK(d, x, t, m)
  BY DEF SaltOK
<1>4. RestOK(x, t, m, q)
  BY <1>1 DEF LinkOK, RestOK
<1> QED BY <1>2, <1>3, <1>4 DEF LinkOK

LEMMA OthersRec ==
  ASSUME OneWriter, TypeInv, BackInv, RecInv, NEW c \in Conn, Only(c), shm'.h0.init,
         InTxn(con[c]) \/ con[c].pc \in {"ckptMark", "ckptLock0", "ckptWrite"},
         NEW d \in Conn \ {c},
         con[d].pc = "read" /\ con[d].lock = 0 /\ con[d].hdr = shm'.h0 =>
           shm'.h0.mx <= shm'.nBackfill
  PROVE  LinkOK(d, con'[d], shm', log', past') /\ ~InFlight(con'[d])
<1> DEFINE z == con[d]
<1>1. z.pc \notin {"ckptMark", "ckptLock0", "ckptWrite", "recoverHdr"} /\ ~InTxn(z)
  BY BesideWriter, BesideCopier
<1>2. con[c].pc # "closed"
  BY DEF InTxn, Writes, Logging, Restarting
<1>3. ~z.w.close
  BY <1>2 DEF TypeInv, LockInv
<1>4. d \notin Writers \/ z.nCkpt = 0
  <2>1. CASE InTxn(con[c])
    <3>1. c \in Writers
      BY <2>1, AtBack DEF BackOK, InTxn
    <3> QED BY <3>1 DEF OneWriter
  <2>2. CASE con[c].pc \in {"ckptMark", "ckptLock0", "ckptWrite"}
    <3>1. c \in Checkpointers \/ con[c].w.close
      BY <2>2, AtConn DEF Phase, Checkpointing
    <3>2. CASE c \in Checkpointers
      BY <3>2 DEF OneWriter
    <3>3. CASE con[c].w.close
      <4>1. z = Closed
        BY <3>3 DEF TypeInv, LockInv, ConnInv, ConnOK, Phase
      <4> QED BY <4>1, NewConnRec
    <3> QED BY <3>1, <3>2, <3>3
  <2> QED BY <2>1, <2>2
<1>5. LinkOK(d, z, shm, log, past) /\ z.nCkpt \in Nat
  BY AtLink, AtConn DEF ConnType
<1>6. con'[d] = z /\ ~InFlight(z)
  BY <1>1, NotFlying DEF Only
<1>7. LinkOK(d, z, shm', log', past')
  BY <1>1, <1>3, <1>4, <1>5, LinkBeside
<1> QED BY <1>6, <1>7

\* The shared header keeps what it says, of the log and of the database file.
LEMMA OthersKeep ==
  ASSUME OneWriter, TypeInv, BackInv, RecInv, NEW c \in Conn, Only(c), shm.h0.init,
         shm'.h0 = shm.h0, shm'.nBackfill = shm.nBackfill,
         InTxn(con[c]) \/ con[c].pc \in {"ckptMark", "ckptLock0", "ckptWrite"},
         NEW d \in Conn \ {c}
  PROVE  LinkOK(d, con'[d], shm', log', past') /\ ~InFlight(con'[d])
<1>1. RestOK(con[d], shm, log, past)
  BY AtLink DEF LinkOK
<1>2. con[d].pc = "read" /\ con[d].lock = 0 /\ con[d].hdr = shm'.h0 => shm'.h0.mx <= shm'.nBackfill
  BY <1>1 DEF RestOK
<1> QED BY <1>2, OthersRec

LEMMA OwnFlying ==
  ASSUME NEW c \in Conn, \A d \in Conn \ {c} : ~InFlight(con'[d])
  PROVE  Flying' <=> InFlight(con'[c])
BY DEF Flying

LEMMA RestartLogRec ==
  ASSUME TypeInv, BackInv, HeadInv, DataInv, SnapInv, RecInv, NEW c \in Conn, RestartLog(c)
  PROVE  RecInv'
<1> DEFINE x == con[c]
           y == con'[c]
<1>1. CASE y.pc # "restartHdr"
  BY <1>1, NoRestartRec
<1>2. CASE y.pc = "restartHdr"
  <2>1. /\ Only(c) /\ UNCHANGED <<log, file>> /\ x.pc = "restart" /\ x.excl = {WRITE}
        /\ shm.nBackfill > 0 /\ past' = [past EXCEPT !.salt = @ + 1]
        /\ y.hdr.mx = 0 /\ y.hdr.salt = past.salt + 1
        /\ y.lock = x.lock /\ y.w = x.w
        /\ shm'.h0 = shm.h0 /\ shm'.nBackfill = shm.nBackfill
    BY <1>2, RestartLogEffect
  <2>2. InTxn(x) /\ InTxn(y) /\ shm.h0.init /\ shm.h0.mx \in Nat /\ shm.nBackfill \in Nat
    BY <1>2, <2>1, AtHead, AtConn DEF HdrOK, InTxn, Writes, Restarting, TypeInv, ShmInv
  <2>3. ~InFlight(x) /\ TodoEnds(x.w) /\ (x.lock = 0 => shm.h0.mx <= shm.nBackfill)
    BY <2>1, <2>2, UnwrittenAt
  <2>4. x.lock = 0
    BY <2>1, <2>2, WriterAt DEF PhaseOK, Restarting
  <2>5. shm.h0.mx > 0
    <3>1. shm.nBackfill <= shm.h0.mx
      BY <2>1, UnderWriteLock
    <3> QED BY <2>1, <2>2, <3>1
  <2>6. /\ past'.salt = past.salt + 1 /\ past'.images = past.images /\ past'.ver = past.ver
        /\ past'.flight = past.flight /\ past'.full = past.full /\ past.salt \in Nat
    BY <2>1 DEF TypeInv, PastInv
  <2>7. SaltFit(past.salt + 1, log)
    <3>1. log.cur.salt \in Nat /\ log.dur.salt \in Nat /\ log.cur.salt <= past.salt
          /\ log.dur.salt <= past.salt
      BY FilesTyped DEF DataInv, PastData
    <3>2. ASSUME NEW l \in {log.cur, log.dur}, NEW i \in 1..MaxFrame
          PROVE  FrameOf(l, i).salt < past.salt + 1
      <4>1. l \in Logs /\ i \in Nat \ {0}
        BY FilesTyped
      <4>2. FrameNum(FrameOf(l, i), past) /\ FrameOf(l, i).salt \in Nat
        BY <4>1, FrameOfType DEF RecInv, PersistInv, NumInv
      <4> QED BY <2>6, <4>2 DEF FrameNum
    <3> QED BY <2>6, <3>1, <3>2 DEF SaltFit, FreshSalt
  <2>8. ~InFlight(y) /\ ~OnLog(y)
    BY <1>2, <2>1, <2>4 DEF InFlight, OnLog
  <2>9. DraftOK(y, shm, log)
    BY <1>2, <2>1, <2>3, <2>4, <2>7, <2>8 DEF DraftOK, TodoEnds
  <2>10. LinkOK(c, y, shm, log, past)
    BY <1>2, <2>2, <2>5, <2>8, <2>9 DEF LinkOK, FlightOK, SaltOK, RestOK
  <2>11. LinkInv'
    BY <2>1, <2>3, <2>6, <2>8, <2>10, LinkCalm DEF RecInv
  <2>12. PersistInv'
    <3>1. \A d \in Conn : con'[d].w.todo = con[d].w.todo \/ con'[d].w.todo = <<>>
      BY <2>1 DEF Only
    <3>2. past'.salt \in Nat /\ past.salt <= past'.salt
      BY <2>6
    <3> QED BY <2>1, <2>6, <3>1, <3>2, PersistCalm DEF RecInv
  <2> QED BY <2>11, <2>12 DEF RecInv
<1> QED BY <1>1, <1>2

LEMMA RestartHdrRec ==
  ASSUME OneWriter, TypeInv, BackInv, HeadInv, DataInv, SnapInv, RecInv, NEW c \in Conn,
         RestartHdr(c)
  PROVE  RecInv'
<1> DEFINE x == con[c]
           y == con'[c]
<1>1. /\ Only(c) /\ UNCHANGED <<log, file, past>> /\ x.pc = "restartHdr"
      /\ y.pc = "restartInfo" /\ y.hdr = x.hdr /\ y.lock = x.lock /\ y.nCkpt = x.nCkpt /\ y.w = x.w
      /\ shm'.h0 = x.hdr /\ shm'.nBackfill = shm.nBackfill
  BY RestartHdrEffect DEF Moved
<1>2. /\ InTxn(x) /\ InTxn(y) /\ shm.h0.init /\ x.hdr.init /\ x.hdr.mx = 0 /\ c \in Writers
      /\ shm.nBackfill \in Nat
  BY <1>1, AtHead, AtBack DEF BackOK, InTxn, Restarting, Informed, TypeInv, ShmInv
<1>3. x.lock = 0
  BY <1>1, <1>2, WriterAt DEF PhaseOK, Restarting
<1>4. ~InFlight(x) /\ ~Flying /\ TodoEnds(x.w) /\ shm.h0.mx <= shm.nBackfill
  BY <1>1, <1>2, <1>3, UnwrittenAt
<1>5. ~InFlight(y) /\ ~OnLog(y)
  BY <1>1, <1>3 DEF InFlight, OnLog
<1>6. ASSUME NEW d \in Conn \ {c}
      PROVE  LinkOK(d, con'[d], shm', log', past') /\ ~InFlight(con'[d])
  BY <1>1, <1>2, OthersRec
<1>7. ~Flying'
  BY <1>5, <1>6, OwnFlying
<1>8. LatestOK'
  <2>1. LatestOK
    BY DEF RecInv, LinkInv
  <2>2. Committed' = Committed
    BY <1>1 DEF Committed
  <2>3. Pictured(Text(log.cur), file.cur, Committed) /\ AllInFile
        /\ (OneHeader(log) => Text(log.dur) = Text(log.cur))
    BY <1>2, <1>4, <2>1 DEF LatestOK
  <2>4. AllInFile'
    BY <1>1, <2>2, <2>3 DEF AllInFile
  <2> QED BY <1>1, <1>2, <2>2, <2>3, <2>4 DEF LatestOK
<1>9. SyncedOK'
  BY <1>1, <1>4 DEF RecInv, LinkInv, SyncedOK
<1>10. LinkOK(c, x, shm, log, past)
  BY AtLink
<1>11. x.nCkpt > 0 => SaltFit(x.hdr.salt, log)
  BY <1>1, <1>2, <1>10 DEF LinkOK, DraftOK
<1>12. LinkOK(c, y, shm', log', past')
  <2>1. DraftOK(y, shm', log')
    BY <1>1, <1>2, <1>3, <1>4, <1>5, <1>11 DEF DraftOK, TodoEnds
  <2>2. SaltOK(c, y, shm', log') /\ FlightOK(y, shm', log', past')
    BY <1>1, <1>2, <1>5, <1>11 DEF SaltOK, FlightOK
  <2>3. RestOK(y, shm', log', past')
    BY <1>1, <1>2 DEF RestOK
  <2> QED BY <2>1, <2>2, <2>3 DEF LinkOK
<1>13. PersistInv'
  <2>1. \A d \in Conn : con'[d].w.todo = con[d].w.todo \/ con'[d].w.todo = <<>>
    BY <1>1 DEF Only
  <2> QED BY <1>1, <2>1, FilesTyped, PersistCalm DEF RecInv
<1>14. LinkInv'
  BY <1>6, <1>8, <1>9, <1>12 DEF LinkInv
<1> QED BY <1>13, <1>14 DEF RecInv

Versioned(w, v) == \A k \in DOMAIN w.todo : w.todo[k].ver = v
CommitsWith(w, n) == (w.commit => n # 0) /\ (~w.commit => n = 0)

LEMMA TodoEntries ==
  ASSUME NEW S \in SUBSET (1..MaxPage), S # {}, NEW v \in Nat, NEW n \in 0..MaxPage, NEW w,
         w.todo \in Seq(Entries), InOrder(w.todo, S, v, n), CommitsWith(w, n)
  PROVE  TodoEnds(w) /\ Versioned(w, v)
<1> DEFINE T == w.todo
           N == Cardinality(S)
<1>1. PICK pages \in [1..N -> S] :
           /\ \A i, j \in DOMAIN pages : i < j => pages[i] < pages[j]
           /\ T = Todo(S, pages, v, n)
  BY DEF InOrder
<1>2. T # <<>>
  BY TodoFacts
<1>3. N \in Nat
  BY <1>1, PagesOnto
<1>4. /\ DOMAIN T = 1..N
      /\ \A k \in 1..N : T[k].ver = v /\ T[k].n = IF k = N THEN n ELSE 0
  BY <1>1 DEF Todo, Entry
<1>5. Len(T) = N
  BY <1>3, <1>4
<1> HIDE DEF T, N
<1>6. \A k \in DOMAIN T : T[k].n > 0 <=> (w.commit /\ k = Len(T))
  BY <1>3, <1>4, <1>5, Constants DEF CommitsWith
<1> QED BY <1>2, <1>4, <1>6 DEF TodoEnds, T, CommitsWith, Versioned

LEMMA FramesRec ==
  ASSUME OneWriter, TypeInv, BackInv, HeadInv, DataInv, RecInv, NEW c \in Conn,
         NEW S \in SUBSET (1..MaxPage), S # {}, NEW n \in 0..MaxPage, NEW commit \in BOOLEAN,
         commit => n # 0, Frames(c, S, n, commit)
  PROVE  RecInv'
<1> DEFINE x == con[c]
           y == con'[c]
<1>1. FramesFacts(c, S, n, commit)
  BY FramesEffect
<1>2. /\ Only(c) /\ UNCHANGED <<shm, log, file>> /\ past' = [past EXCEPT !.ver = past.ver + 1]
      /\ x.pc = "read" /\ x.excl = {WRITE} /\ (commit <=> y.w.commit) /\ (~commit => n = 0)
      /\ y.pc \in {"restart", "frames"} /\ y.w.todo \in Seq(Entries)
      /\ y.hdr = x.hdr /\ y.excl = x.excl /\ y.nCkpt = x.nCkpt /\ y.lock = x.lock
      /\ InOrder(y.w.todo, S, past.ver + 1, n)
  BY <1>1 DEF FramesFacts, InOrder
<1>3. /\ past'.ver = past.ver + 1 /\ past'.images = past.images /\ past'.salt = past.salt
      /\ past'.flight = past.flight /\ past'.full = past.full
      /\ past.ver \in Nat /\ past.salt \in Nat
  BY <1>2 DEF TypeInv, PastInv
<1>4. InTxn(x) /\ InTxn(y) /\ ~InFlight(x) /\ ~InFlight(y)
  BY <1>2 DEF InTxn, Writes, Logging, Restarting, InFlight
<1>5. TodoEnds(y.w) /\ \A k \in DOMAIN y.w.todo : y.w.todo[k].ver = past.ver + 1
  <2>1. past.ver + 1 \in Nat /\ (y.w.commit => n # 0) /\ (~y.w.commit => n = 0)
    BY <1>2, <1>3
  <2> DEFINE w == y.w
             v == past.ver + 1
  <2>2. w.todo \in Seq(Entries) /\ InOrder(w.todo, S, v, n) /\ v \in Nat /\ CommitsWith(w, n)
    BY <1>2, <2>1 DEF CommitsWith
  <2> HIDE DEF w, v
  <2>3. TodoEnds(w) /\ Versioned(w, v)
    BY <2>2, TodoEntries
  <2> QED BY <2>3 DEF w, v, Versioned
<1>6. ASSUME NEW d \in Conn \ {c} PROVE con'[d].w.todo = <<>>
  <2>1. ~InTxn(con[d])
    BY <1>4, BesideWriter
  <2> QED BY <1>2, <2>1, AtLink DEF Only
<1>7. Gone \subseteq Gone'
  BY <1>3 DEF Gone
<1>8. TodoNum'
  BY <1>3, <1>5, <1>6 DEF TodoNum
<1>9. PersistInv'
  BY <1>2, <1>3, <1>7, <1>8, PersistSame DEF RecInv
<1>10. LinkOK(c, x, shm, log, past)
  BY AtLink
<1>11. Base(y) = Base(x) /\ (OnLog(y) => OnLog(x))
  BY <1>2 DEF Base, OnLog
<1>12. DraftOK(y, shm, log)
  BY <1>2, <1>4, <1>5, <1>10, <1>11 DEF LinkOK, DraftOK, TodoEnds
<1>13. LinkOK(c, y, shm, log, past)
  BY <1>2, <1>4, <1>10, <1>12 DEF LinkOK, FlightOK, SaltOK, RestOK
<1>14. LinkInv'
  BY <1>2, <1>3, <1>4, <1>13, LinkCalm DEF RecInv
<1> QED BY <1>9, <1>14 DEF RecInv

LEMMA WriteLogHdrFacts ==
  ASSUME TypeInv, BackInv, HeadInv, DataInv, SnapInv, RecInv, NEW c \in Conn, WriteLogHdr(c)
  PROVE  LET x == con[c]
             y == con'[c]
         IN
         /\ Only(c) /\ UNCHANGED <<shm, file>> /\ x.pc = "frames" /\ y.pc = "syncHdr"
         /\ log'.dur = log.dur /\ log'.new = log.new /\ log'.cur.frames = log.cur.frames
         /\ log'.cur.salt = y.hdr.salt /\ y.hdr.mx = 0 /\ y.lock = x.lock /\ y.nCkpt = x.nCkpt
         /\ y.hdr.sum = <<>> /\ y.w = x.w /\ x.lock # 0 /\ shm.h0.init /\ shm.h0.mx = 0
         /\ past'.images = past.images /\ past'.flight = past.flight /\ past'.full = past.full
         /\ past'.ver = past.ver /\ past'.salt \in Nat /\ past.salt <= past'.salt
         /\ InTxn(x) /\ InTxn(y) /\ ~InFlight(x) /\ ~InFlight(y) /\ ~Flying /\ TodoEnds(x.w)
         /\ SaltFit(y.hdr.salt, log) /\ (x.nCkpt > 0 => y.hdr.salt = shm.h0.salt)
<1> DEFINE x == con[c]
           y == con'[c]
           fresh == x.nCkpt = 0
           salt == IF fresh THEN past.salt + 1 ELSE x.hdr.salt
<1>1. /\ Only(c) /\ UNCHANGED <<shm, file>> /\ x.pc = "frames" /\ y.pc = "syncHdr"
      /\ log'.dur = log.dur /\ log'.cur.frames = log.cur.frames /\ log'.cur.salt = y.hdr.salt
      /\ x.hdr.mx = 0 /\ y.hdr.mx = 0 /\ y.lock = x.lock /\ y.nCkpt = x.nCkpt /\ y.w = x.w
      /\ y.hdr.sum = <<>>
  BY WriteLogHdrEffect
<1>2. /\ log' = [log EXCEPT !.cur.salt = salt, !.cur.nCkpt = x.nCkpt]
      /\ past' = IF fresh THEN [past EXCEPT !.salt = salt] ELSE past
  BY DEF WriteLogHdr
<1>3. log'.new = log.new /\ log'.cur.salt = salt
  <2>1. log.cur \in Logs /\ DOMAIN log = {"cur", "dur", "new"}
    BY DEF TypeInv, LogInv
  <2>2. "salt" \in DOMAIN log.cur /\ "nCkpt" \in DOMAIN log.cur
    BY <2>1 DEF Logs
  <2> HIDE DEF salt
  <2> QED BY <1>2, <2>1, <2>2
<1>4. /\ past'.images = past.images /\ past'.flight = past.flight /\ past'.full = past.full
      /\ past'.ver = past.ver /\ past'.salt = IF fresh THEN salt ELSE past.salt
      /\ past.salt \in Nat
  BY <1>2 DEF TypeInv, PastInv
<1>5. InTxn(x) /\ InTxn(y)
  BY <1>1 DEF InTxn, Writes, Logging
<1>6. shm.h0.init /\ shm.h0.mx \in Nat /\ shm.h0.mx <= x.hdr.mx
  BY <1>1, AtHead, AtBack DEF BackOK, Writes, Logging, TypeInv, ShmInv, HdrOK
<1>7. x.lock > 0
  BY <1>1, <1>5, <1>6, WriterAt DEF PhaseOK, Logging
<1>8. ~InFlight(x) /\ ~Flying /\ TodoEnds(x.w)
  BY <1>1, <1>5, <1>6, UnwrittenAt
<1>9. ~InFlight(y)
  BY <1>1 DEF InFlight
<1>10. LinkOK(c, x, shm, log, past)
  BY AtLink
<1>11. x.nCkpt > 0 => SaltFit(x.hdr.salt, log) /\ x.hdr.salt = shm.h0.salt
  BY <1>1, <1>5, <1>6, <1>10 DEF LinkOK, DraftOK
<1>12. x.nCkpt \in Nat
  BY AtConn DEF ConnType
<1>13. SaltFit(past.salt + 1, log)
  <2>1. log.cur.salt \in Nat /\ log.dur.salt \in Nat /\ log.cur.salt <= past.salt
        /\ log.dur.salt <= past.salt
    BY FilesTyped DEF DataInv, PastData
  <2>2. ASSUME NEW l \in {log.cur, log.dur}, NEW i \in 1..MaxFrame
        PROVE  FrameOf(l, i).salt < past.salt + 1
    <3>1. l \in Logs /\ i \in Nat \ {0}
      BY FilesTyped
    <3>2. FrameNum(FrameOf(l, i), past) /\ FrameOf(l, i).salt \in Nat
      BY <3>1, FrameOfType DEF RecInv, PersistInv, NumInv
    <3> QED BY <1>4, <3>2 DEF FrameNum
  <2> QED BY <1>4, <2>1, <2>2 DEF SaltFit, FreshSalt
<1>14. SaltFit(salt, log) /\ (x.nCkpt > 0 => salt = shm.h0.salt)
  <2>1. CASE fresh
    BY <1>13, <2>1
  <2>2. CASE ~fresh
    BY <1>11, <1>12, <2>2
  <2> QED BY <2>1, <2>2
<1>15. past'.salt \in Nat /\ past.salt <= past'.salt
  BY <1>4
<1>16. shm.h0.mx = 0 /\ x.lock # 0
  BY <1>1, <1>6, <1>7
<1> HIDE DEF salt, fresh
<1> QED BY <1>1, <1>3, <1>4, <1>5, <1>6, <1>8, <1>9, <1>14, <1>15, <1>16

\* The salt of the log file is changed, or written once more.
LEMMA NewSaltText ==
  ASSUME NEW lg, NEW m, NEW n, NEW G, lg.cur \in Logs, m.cur \in Logs, m.dur = lg.dur,
         m.cur.frames = lg.cur.frames, m.new = lg.new, m.cur.salt = n, n \in Nat,
         lg.dur \in Logs, SaltFit(n, lg), Story(lg.cur, lg.dur, G)
  PROVE  /\ \A i \in Nat \ {0} : FrameOf(m.cur, i) = FrameOf(lg.cur, i)
         /\ Text(m.cur) = <<>> /\ Story(m.cur, m.dur, G)
         /\ \/ Text(lg.cur) = <<>> /\ m.cur.salt = lg.cur.salt
            \/ ~OneHeader(m)
         /\ \A l \in Logs : Remains(l, m) <=> Remains(l, lg)
<1>1. \A i \in Nat \ {0} : FrameOf(m.cur, i) = FrameOf(lg.cur, i)
  BY DEF FrameOf
<1>2. \A l \in Logs : Remains(l, m) <=> Remains(l, lg)
  <2>1. \A i \in 1..MaxFrame : FrameOf(m.cur, i) = FrameOf(lg.cur, i)
    BY <1>1
  <2>2. ASSUME NEW l PROVE Mixed(l, m.cur, m.dur) <=> Mixed(l, lg.cur, lg.dur)
    BY <2>1 DEF Mixed, FramesAt
  <2> QED BY <2>2 DEF Remains
<1>3. CASE n = lg.cur.salt /\ Text(lg.cur) = <<>>
  <2>1. Story(m.cur, lg.dur, G) /\ Text(m.cur) = Text(lg.cur)
    BY <1>1, <1>3, StorySame
  <2> QED BY <1>1, <1>2, <1>3, <2>1
<1>4. CASE FreshSalt(n, lg)
  <2>1. ASSUME NEW i \in 1..MaxFrame, NEW fr \in FramesAt(m.cur, m.dur, i) PROVE fr.salt # n
    <3>1. FrameOf(lg.cur, i).salt < n /\ FrameOf(lg.dur, i).salt < n
      BY <1>4 DEF FreshSalt
    <3>2. FrameOf(lg.cur, i).salt \in Nat /\ FrameOf(lg.dur, i).salt \in Nat
      BY FrameOfType
    <3> QED BY <1>1, <3>1, <3>2 DEF FramesAt
  <2>2. Text(m.cur) = <<>>
    BY <2>1, TextEmpty DEF FramesAt
  <2>3. Story(m.cur, m.dur, G)
    BY <2>1, StoryAnew
  <2>4. ~OneHeader(m)
    <3>1. lg.dur.salt < n /\ lg.dur.salt \in Nat
      BY <1>4 DEF FreshSalt, Logs
    <3> QED BY <3>1 DEF OneHeader
  <2> QED BY <1>1, <1>2, <2>2, <2>3, <2>4
<1> QED BY <1>3, <1>4 DEF SaltFit

LEMMA RemainsOne ==
  ASSUME NEW lg, NEW G, lg.cur \in Logs, lg.dur \in Logs, Story(lg.cur, lg.dur, G), OneHeader(lg),
         Text(lg.dur) = Text(lg.cur), NEW l \in Logs, Remains(l, lg)
  PROVE  Text(l) = Text(lg.cur)
<1>1. Mixed(l, lg.cur, lg.dur) /\ l.salt = lg.cur.salt /\ lg.dur.salt = lg.cur.salt
  BY DEF Remains, OneHeader
<1>2. Begins(Text(lg.dur), Text(l)) /\ Begins(Text(l), Text(lg.cur))
  BY <1>1, StoryKeeps
<1>3. Text(l) \in Seq(Entries) /\ Text(lg.cur) \in Seq(Entries)
  BY TextType
<1>4. Len(Text(lg.cur)) <= Len(Text(l))
  BY <1>2 DEF Begins
<1> QED BY <1>2, <1>3, <1>4, BeginsWhole

LEMMA WriteLogHdrRec ==
  ASSUME OneWriter, TypeInv, BackInv, HeadInv, DataInv, SnapInv, RecInv, TypeInv', NEW c \in Conn,
         WriteLogHdr(c)
  PROVE  RecInv'
<1> DEFINE x == con[c]
           y == con'[c]
<1>1. /\ Only(c) /\ UNCHANGED <<shm, file>> /\ x.pc = "frames" /\ y.pc = "syncHdr"
      /\ log'.dur = log.dur /\ log'.new = log.new /\ log'.cur.frames = log.cur.frames
      /\ log'.cur.salt = y.hdr.salt /\ y.hdr.mx = 0 /\ y.lock = x.lock /\ y.nCkpt = x.nCkpt
      /\ y.hdr.sum = <<>> /\ y.w = x.w /\ x.lock # 0 /\ shm.h0.init /\ shm.h0.mx = 0
      /\ past'.images = past.images /\ past'.flight = past.flight /\ past'.full = past.full
      /\ past'.ver = past.ver /\ past'.salt \in Nat /\ past.salt <= past'.salt
      /\ InTxn(x) /\ InTxn(y) /\ ~InFlight(x) /\ ~InFlight(y) /\ ~Flying /\ TodoEnds(x.w)
      /\ SaltFit(y.hdr.salt, log) /\ (x.nCkpt > 0 => y.hdr.salt = shm.h0.salt)
  BY WriteLogHdrFacts
<1>2. /\ log.cur \in Logs /\ log'.cur \in Logs /\ log.dur \in Logs /\ y.hdr.salt \in Nat
      /\ log'.cur.salt \in Nat
  BY FilesTyped, AtConn, <1>1 DEF TypeInv, LogInv, Logs
<1>3. StoryInv /\ NumInv /\ TwoHdr /\ Recoverable
  BY DEF RecInv, PersistInv
<1>4. /\ \A i \in Nat \ {0} : FrameOf(log'.cur, i) = FrameOf(log.cur, i)
      /\ Text(log'.cur) = <<>> /\ Story(log'.cur, log'.dur, Gone)
      /\ (Text(log.cur) = <<>> /\ log'.cur.salt = log.cur.salt) \/ ~OneHeader(log')
      /\ \A l \in Logs : Remains(l, log') <=> Remains(l, log)
  BY <1>1, <1>2, <1>3, NewSaltText DEF StoryInv
<1>5. /\ Pictured(Text(log.cur), file.cur, Committed) /\ AllInFile
      /\ OneHeader(log) => Text(log.dur) = Text(log.cur)
  <2>1. 0 <= shm.nBackfill
    BY DEF TypeInv, ShmInv
  <2> QED BY <1>1, <2>1 DEF RecInv, LinkInv, LatestOK
<1>6. Committed' = Committed /\ AllInFile' /\ past.salt \in Nat /\ past.ver \in Nat
      /\ file.cur = Committed /\ file.cur \in Images
  BY <1>1, <1>5, FilesTyped DEF Committed, AllInFile
<1>7. Pictured(Text(log'.cur), file'.cur, Committed')
  BY <1>1, <1>4, <1>6, EmptyPicture
<1>8. ASSUME NEW d \in Conn \ {c}
      PROVE  LinkOK(d, con'[d], shm', log', past') /\ ~InFlight(con'[d])
  BY <1>1, OthersKeep
<1>9. ~Flying'
  BY <1>1, <1>8, OwnFlying
<1>10. OneHeader(log') => Text(log'.dur) = Text(log'.cur) /\ OneHeader(log)
  BY <1>1, <1>4, <1>5 DEF OneHeader
<1>11. PersistInv'
  <2>1. StoryInv'
    <3>1. Gone' = Gone
      <4>1. \A d \in Conn : con'[d].w.todo = con[d].w.todo
        BY <1>1 DEF Only
      <4> QED BY <1>1, <4>1 DEF Gone
    <3> QED BY <1>4, <3>1 DEF StoryInv
  <2>2. NumInv'
    <3>1. ASSUME NEW l \in {log'.cur, log'.dur}, NEW i \in 1..MaxFrame
          PROVE  FrameNum(FrameOf(l, i), past')
      <4>1. PICK k \in {log.cur, log.dur} : FrameOf(l, i) = FrameOf(k, i)
        BY <1>1, <1>4
      <4>2. k \in Logs /\ FrameNum(FrameOf(k, i), past)
        BY <1>2, <1>3 DEF NumInv
      <4>3. FrameNum(FrameOf(k, i), past')
        BY <1>1, <1>6, <4>2, NumMore
      <4> QED BY <4>1, <4>3
    <3>2. \A d \in Conn : \A k \in DOMAIN con'[d].w.todo : con'[d].w.todo[k].ver = past'.ver
      BY <1>1, <1>3 DEF Only, NumInv
    <3> QED BY <1>1, <1>3, <3>1, <3>2 DEF NumInv
  <2>3. OneHdr'
    <3>1. SUFFICES ASSUME OneHeader(log') PROVE Pictures(log', file'.cur, past') /\ FilesAgree(log', file')
      BY DEF OneHdr
    <3>2. Text(log'.dur) = <<>> /\ Text(log'.cur) = <<>> /\ Len(<<>>) = 0
      BY <1>4, <1>10, <3>1
    <3>3. Pictures(log', file'.cur, past')
      BY <3>2 DEF Pictures
    <3>4. file'.cur = file'.dur
      BY <1>6 DEF AllInFile
    <3> QED BY <3>3, <3>4 DEF FilesAgree
  <2>4. TwoHdr'
    <3>1. SUFFICES ASSUME NEW l \in Logs, Remains(l, log), ~OneHeader(log')
                   PROVE  Pictured(Text(l), file.cur, Committed)
      BY <1>1, <1>4, <1>6 DEF TwoHdr
    <3>2. CASE OneHeader(log)
      BY <1>2, <1>3, <1>5, <3>1, <3>2, RemainsOne DEF StoryInv
    <3>3. CASE ~OneHeader(log)
      BY <1>3, <3>1, <3>3 DEF TwoHdr
    <3> QED BY <3>2, <3>3
  <2>5. Recoverable'
    <3>1. Len(file.cur) > 0
      BY <1>3 DEF NumInv
    <3>2. Committed # NoImage /\ Committed \in Images
      BY <1>6, <3>1 DEF NoImage
    <3>3. RecoveredImage(log'.cur, file.cur) = Committed
      BY <1>1, <1>2, <1>6, <1>7, <3>2, PictureIs
    <3> QED BY <1>1, <1>6, <3>2, <3>3 DEF Recoverable
  <2> QED BY <2>1, <2>2, <2>3, <2>4, <2>5 DEF PersistInv
<1>12. LatestOK'
  BY <1>1, <1>6, <1>7, <1>10 DEF LatestOK
<1>13. SyncedOK'
  BY <1>10 DEF SyncedOK
<1>14. LinkOK(c, y, shm', log', past')
  <2>1. SaltFit(y.hdr.salt, log') /\ y.hdr.salt > 0
    BY <1>1, <1>4 DEF SaltFit
  <2>2. Base(y) = <<>> /\ Len(<<>>) = 0 /\ ~OnLog(y)
    BY <1>1 DEF Base, OnLog
  <2>3. DraftOK(y, shm', log')
    BY <1>1, <1>4, <2>1, <2>2 DEF DraftOK, TodoEnds, Chained, Quiet
  <2>4. SaltOK(c, y, shm', log') /\ FlightOK(y, shm', log', past')
    BY <1>1, <2>1 DEF SaltOK, FlightOK
  <2>5. RestOK(y, shm', log', past')
    BY <1>1 DEF RestOK
  <2> QED BY <2>3, <2>4, <2>5 DEF LinkOK
<1>15. LinkInv'
  BY <1>8, <1>12, <1>13, <1>14 DEF LinkInv
<1> QED BY <1>11, <1>15 DEF RecInv

LEMMA SyncedIs ==
  ASSUME TypeInv, log' = SyncedLog(log)
  PROVE  log'.cur = log.cur /\ log'.dur = log.cur /\ ~log'.new
BY DEF SyncedLog, Synced, TypeInv, LogInv

\* What is written is made durable.
LEMMA PersistSynced ==
  ASSUME TypeInv, DataInv, PersistInv, log' = SyncedLog(log), UNCHANGED <<file, past>>,
         \A c \in Conn : con'[c].w.todo = con[c].w.todo
  PROVE  PersistInv' /\ OneHeader(log') /\ Text(log'.dur) = Text(log'.cur)
<1>1. log'.cur = log.cur /\ log'.dur = log.cur /\ ~log'.new
  BY SyncedIs
<1>2. OneHeader(log')
  BY <1>1 DEF OneHeader
<1>3. StoryInv'
  <2>1. Gone' = Gone
    BY DEF Gone
  <2>2. Story(log.cur, log.cur, Gone)
    BY StorySynced DEF PersistInv, StoryInv
  <2> QED BY <1>1, <2>1, <2>2 DEF StoryInv
<1>4. NumInv'
  BY <1>1 DEF PersistInv, NumInv
<1>5. Recoverable'
  <2>1. RecoveredImage(log'.cur, file'.cur) = RecoveredImage(log.cur, file.cur)
    BY <1>1
  <2> QED BY <2>1 DEF PersistInv, Recoverable, Committed
<1>6. TwoHdr'
  BY <1>2 DEF TwoHdr
<1>7. FilesAgree(log', file)
  <2>1. CASE OneHeader(log)
    <3>1. FilesAgree(log, file)
      BY <2>1 DEF PersistInv, OneHdr
    <3>2. Begins(Text(log.dur), Text(log.cur))
      <4>1. Mixed(log.cur, log.cur, log.dur) /\ log.dur.salt = log.cur.salt
        BY <2>1 DEF Mixed, FramesAt, OneHeader
      <4> QED BY <4>1, FilesTyped, StoryKeeps DEF PersistInv, StoryInv
    <3> DEFINE s == Text(log.dur)
               t == Text(log.cur)
    <3>3. s \in Seq(Entries) /\ t \in Seq(Entries)
      BY FilesTyped, TextType
    <3> HIDE DEF s, t
    <3>4. Len(s) \in 0..Len(t) /\ \A k \in 1..Len(s) : s[k] = t[k]
      BY <3>2, <3>3, BeginsAt DEF s, t
    <3>5. ASSUME NEW p, ~Absent(s, p) PROVE ~Absent(t, p)
      <4>1. PICK f \in 1..Len(s) : s[f].pg = p
        BY <3>5 DEF Absent
      <4>2. f \in 1..Len(t) /\ t[f].pg = p
        BY <3>3, <3>4, <4>1
      <4> QED BY <4>2 DEF Absent
    <3>6. t = <<>> => s = <<>>
      BY <3>3, <3>4
    <3> QED BY <1>1, <3>1, <3>5, <3>6 DEF FilesAgree, s, t
  <2>2. CASE ~OneHeader(log)
    <3>1. file.cur = file.dur
      BY <2>2 DEF PersistInv, TwoHdr, AllInFile
    <3> QED BY <3>1 DEF FilesAgree
  <2> QED BY <2>1, <2>2
<1>8. OneHdr'
  <2>1. Len(Text(log'.cur)) \in Nat
    BY <1>1, FilesTyped, TextType
  <2>2. Pictures(log', file'.cur, past')
    BY <1>1, <2>1 DEF Pictures
  <2> QED BY <1>7, <2>2 DEF OneHdr
<1> QED BY <1>1, <1>2, <1>3, <1>4, <1>5, <1>6, <1>8 DEF PersistInv

LEMMA SyncLogHdrRec ==
  ASSUME OneWriter, TypeInv, BackInv, HeadInv, DataInv, SnapInv, RecInv, NEW c \in Conn,
         SyncLogHdr(c)
  PROVE  RecInv'
<1> DEFINE x == con[c]
           y == con'[c]
<1>1. /\ Only(c) /\ UNCHANGED <<shm, file, past>> /\ x.pc = "syncHdr" /\ y.pc = "append"
      /\ y.hdr = x.hdr /\ y.lock = x.lock /\ y.nCkpt = x.nCkpt /\ y.w = x.w
  BY SyncLogHdrEffect DEF Moved
<1>2. log' = SyncedLog(log)
  BY DEF SyncLogHdr
<1>3. log'.cur = log.cur /\ log'.dur = log.cur /\ ~log'.new
  BY <1>2, SyncedIs
<1>4. InTxn(x) /\ InTxn(y) /\ shm.h0.init /\ x.nCkpt \in Nat
  BY <1>1, AtHead, AtConn DEF InTxn, Writes, Logging, ConnType
<1>5. x.hdr.mx = 0 /\ x.hdr.sum = <<>> /\ x.lock > 0
  BY <1>1, <1>4, WriterAt DEF PhaseOK, Logging
<1>6. shm.h0.mx = 0
  <2>1. shm.h0.mx \in Nat /\ shm.h0.mx <= x.hdr.mx
    BY <1>1, AtBack DEF BackOK, Writes, Logging, TypeInv, ShmInv, HdrOK
  <2> QED BY <1>5, <2>1
<1>7. ~InFlight(x) /\ ~Flying /\ TodoEnds(x.w)
  BY <1>1, <1>4, UnwrittenAt
<1>8. ~InFlight(y)
  BY <1>1, <1>7 DEF InFlight, TodoEnds
<1>9. LinkOK(c, x, shm, log, past)
  BY AtLink
<1>10. /\ x.hdr.salt = log.cur.salt /\ log.cur.salt > 0 /\ Text(log.cur) = <<>>
       /\ (x.nCkpt > 0 => x.hdr.salt = shm.h0.salt)
  BY <1>1, <1>4, <1>6, <1>7, <1>9 DEF LinkOK, DraftOK
<1>11. PersistInv' /\ OneHeader(log') /\ Text(log'.dur) = Text(log'.cur)
  <2>1. \A d \in Conn : con'[d].w.todo = con[d].w.todo
    BY <1>1 DEF Only
  <2> QED BY <1>1, <1>2, <2>1, PersistSynced DEF RecInv
<1>12. ASSUME NEW d \in Conn \ {c}
       PROVE  LinkOK(d, con'[d], shm', log', past') /\ ~InFlight(con'[d])
  BY <1>1, <1>4, OthersKeep
<1>13. ~Flying'
  BY <1>8, <1>12, OwnFlying
<1>14. LatestOK'
  <2>1. 0 <= shm.nBackfill
    BY DEF TypeInv, ShmInv
  <2>2. Pictured(Text(log.cur), file.cur, Committed) /\ AllInFile
    BY <1>4, <1>6, <1>7, <2>1 DEF RecInv, LinkInv, LatestOK
  <2> QED BY <1>1, <1>3, <1>6, <1>11, <2>2 DEF LatestOK, AllInFile, Committed
<1>15. SyncedOK'
  BY <1>11 DEF SyncedOK
<1>16. LinkOK(c, y, shm', log', past')
  <2>1. SaltFit(shm.h0.salt, log') \/ x.nCkpt = 0
    BY <1>3, <1>4, <1>10 DEF SaltFit
  <2>2. Base(y) = <<>> /\ Len(<<>>) = 0
    BY <1>5, <1>1 DEF Base
  <2>3. DraftOK(y, shm', log')
    BY <1>1, <1>3, <1>5, <1>6, <1>7, <1>8, <1>10, <1>11, <2>2 DEF DraftOK, TodoEnds, Chained, Quiet
  <2>4. SaltOK(c, y, shm', log') /\ FlightOK(y, shm', log', past')
    BY <1>1, <1>4, <1>8, <2>1 DEF SaltOK, FlightOK
  <2>5. RestOK(y, shm', log', past')
    BY <1>1, <1>4 DEF RestOK
  <2> QED BY <2>3, <2>4, <2>5 DEF LinkOK
<1>17. LinkInv'
  BY <1>12, <1>14, <1>15, <1>16 DEF LinkInv
<1> QED BY <1>11, <1>17 DEF RecInv

PutAt(m, l, i, fr) ==
  1 <= i /\ i <= Len(l.frames) + 1 /\ m.frames = At(l.frames, i, fr)
PutThere(m, l, i, fr) ==
  FrameOf(m, i) = fr /\ \A j \in Nat \ {0} : j # i => FrameOf(m, j) = FrameOf(l, j)

LEMMA FrameOfAt ==
  ASSUME NEW l \in Logs, NEW m, NEW i \in Nat, NEW fr, PutAt(m, l, i, fr)
  PROVE  PutThere(m, l, i, fr)
<1> DEFINE s == l.frames
           k == Max({Len(s), i})
<1>1. s \in Seq(FrameSet) /\ Len(s) \in Int /\ i \in Int /\ Len(s) \in Nat /\ 1 <= i
      /\ i <= Len(s) + 1
  BY DEF Logs, PutAt
<1>2. k \in {Len(s), i} /\ k >= Len(s) /\ k >= i
  BY <1>1, MaxTwo
<1> HIDE DEF k
<1>3. k \in Nat /\ i <= k /\ Len(s) <= k /\ (k = i \/ k = Len(s))
  BY <1>1, <1>2
<1>4. At(s, i, fr) = [j \in 1..k |-> IF j = i THEN fr ELSE s[j]]
  BY DEF At, k
<1>5. m.frames = [j \in 1..k |-> IF j = i THEN fr ELSE s[j]]
  BY <1>4 DEF PutAt
<1>6. Len(m.frames) = k /\ m.frames[i] = fr /\ \A j \in 1..k : j # i => m.frames[j] = s[j]
  BY <1>1, <1>3, <1>5
<1>7. FrameOf(m, i) = fr
  BY <1>3, <1>6 DEF FrameOf
<1>8. ASSUME NEW j \in Nat \ {0}, j # i PROVE FrameOf(m, j) = FrameOf(l, j)
  BY <1>1, <1>3, <1>6, <1>8 DEF FrameOf
<1> QED BY <1>7, <1>8 DEF PutThere

\* The same frames of the log are told by both.
LEMMA ChainedPrefix ==
  ASSUME NEW s \in Seq(Entries), NEW t \in Seq(Entries), NEW l, Chained(s, l), Chained(t, l),
         Len(s) <= Len(t)
  PROVE  Begins(s, t)
<1>1. CASE s = <<>>
  BY <1>1, BeginsItself
<1>2. CASE s # <<>>
  <2> DEFINE n == Len(s)
  <2>1. n \in 1..Len(s) /\ n \in 1..Len(t) /\ n \in Nat
    BY <1>2
  <2>2. FrameOf(l, n) = Frame(l.salt, SubSeq(s, 1, n)) /\ FrameOf(l, n) = Frame(l.salt, SubSeq(t, 1, n))
    BY <2>1 DEF Chained
  <2>3. SubSeq(s, 1, n) = SubSeq(t, 1, n)
    BY <2>2 DEF Frame
  <2>4. s = SubSeq(s, 1, n)
    BY BeginsItself
  <2> QED BY <2>3, <2>4 DEF Begins
<1> QED BY <1>1, <1>2

\* What WriteFrame does to the files, for the frames b before it and its entry e.
FrameStep(c, b, e) ==
  LET x == con[c]
      y == con'[c]
  IN
  /\ Only(c) /\ UNCHANGED <<shm, file>> /\ x.pc \in {"append", "frames"} /\ y.pc = "append"
  /\ b = x.hdr.sum /\ x.w.todo # <<>> /\ e = Head(x.w.todo) /\ Base(x) = b
  /\ log'.dur = log.dur /\ log'.new = log.new /\ AppendedTo(log'.cur, log.cur, b, e)
  /\ past'.salt = past.salt /\ past'.images = past.images /\ past'.full = past.full
  /\ past'.ver = past.ver /\ past'.flight = IF e.n > 0 THEN x.image ELSE NoImage
  /\ y.hdr.salt = x.hdr.salt /\ y.hdr.sum = Append(b, e) /\ y.lock = x.lock /\ y.nCkpt = x.nCkpt
  /\ y.image = x.image /\ y.w.todo = Tail(x.w.todo) /\ (y.w.commit <=> x.w.commit)
  /\ InTxn(x) /\ InTxn(y) /\ shm.h0.init /\ x.lock > 0 /\ OneHeader(log)
  /\ x.hdr.salt = log.cur.salt /\ log.cur.salt > 0 /\ ~InFlight(x) /\ OnLog(x) /\ ~Flying

LEMMA WriteFrameFacts ==
  ASSUME OneWriter, TypeInv, BackInv, HeadInv, DataInv, SnapInv, RecInv, NEW c \in Conn,
         WriteFrame(c)
  PROVE  FrameStep(c, con[c].hdr.sum, Head(con[c].w.todo))
<1> DEFINE x == con[c]
           y == con'[c]
           b == x.hdr.sum
           e == Head(x.w.todo)
<1>1. /\ Only(c) /\ UNCHANGED <<shm, file>> /\ x.excl = {WRITE}
      /\ x.pc = "append" \/ (x.pc = "frames" /\ x.hdr.mx > 0)
      /\ x.w.todo # <<>> /\ Len(b) + 1 <= MaxFrame
      /\ log'.dur = log.dur /\ log'.cur.salt = log.cur.salt
      /\ log'.cur.frames = At(log.cur.frames, Len(b) + 1, Frame(x.hdr.salt, Append(b, e)))
      /\ past'.salt = past.salt /\ past'.images = past.images /\ past'.full = past.full
      /\ past'.flight = IF e.n > 0 THEN x.image ELSE NoImage
      /\ y.pc = "append" /\ y.hdr.salt = x.hdr.salt /\ y.hdr.sum = Append(b, e)
      /\ y.lock = x.lock /\ y.nCkpt = x.nCkpt /\ y.image = x.image /\ y.w.todo = Tail(x.w.todo)
      /\ \A f \in WorkFields \ {"todo"} : y.w[f] = x.w[f]
  BY WriteFrameEffect
<1>2. y.w.commit <=> x.w.commit
  BY <1>1 DEF WorkFields
<1>3. log'.new = log.new /\ past'.ver = past.ver
  <2>1. /\ log' = [log EXCEPT !.cur.frames = At(@, NextFrame(x), Frame(x.hdr.salt, Append(b, e)))]
        /\ past' = [past EXCEPT !.flight = IF e.n > 0 THEN x.image ELSE NoImage]
    BY DEF WriteFrame
  <2> HIDE DEF b, e, x
  <2> QED BY <2>1 DEF TypeInv, LogInv, PastInv
<1>4. InTxn(x) /\ InTxn(y)
  BY <1>1 DEF InTxn, Writes, Logging
<1>5. shm.h0.init
  BY <1>1, AtHead
<1>6. x.lock > 0
  BY <1>1, <1>4, <1>5, WriterAt DEF PhaseOK, Logging
<1>7. Base(x) = b /\ OnLog(x) /\ ~InFlight(x)
  BY <1>1, <1>6 DEF Base, OnLog, InFlight
<1>8. LinkOK(c, x, shm, log, past)
  BY AtLink
<1>9. x.hdr.salt = log.cur.salt /\ log.cur.salt > 0 /\ OneHeader(log) /\ Chained(b, log.cur)
  BY <1>4, <1>5, <1>6, <1>7, <1>8 DEF LinkOK, DraftOK
<1>10. ~Flying
  <2>1. \A d \in Conn \ {c} : ~InFlight(con[d])
    BY <1>4, BesideWriter, NotFlying
  <2> QED BY <1>7, <2>1 DEF Flying
<1>11. AppendedTo(log'.cur, log.cur, b, e)
  <2>1. /\ log.cur \in Logs /\ b \in Seq(Entries) /\ Len(b) <= Len(log.cur.frames)
        /\ Len(log.cur.frames) \in Nat
    BY FilesTyped, WriterTypes, AtConn DEF Written, Logs
  <2>2. Len(b) + 1 \in Nat /\ 1 <= Len(b) + 1 /\ Len(b) + 1 <= Len(log.cur.frames) + 1
    BY <2>1
  <2> DEFINE i == Len(b) + 1
             fr == Frame(x.hdr.salt, Append(b, e))
             m == log'.cur
  <2>3. PutAt(m, log.cur, i, fr) /\ i \in Nat
    BY <1>1, <2>2 DEF PutAt
  <2> HIDE DEF i, fr, m
  <2>4. PutThere(m, log.cur, i, fr)
    BY <2>1, <2>3, FrameOfAt
  <2> QED BY <1>1, <1>9, <2>4 DEF AppendedTo, PutThere, i, fr, m
<1> HIDE DEF b, e
<1> QED BY <1>1, <1>2, <1>3, <1>4, <1>5, <1>6, <1>7, <1>9, <1>10, <1>11 DEF FrameStep, b, e

LEMMA WriteFrameText ==
  ASSUME OneWriter, TypeInv, BackInv, HeadInv, DataInv, SnapInv, RecInv, TypeInv',
         NEW c \in Conn, NEW b, NEW e, FrameStep(c, b, e)
  PROVE  LET x == con[c]
             y == con'[c]
         IN
         /\ b \in Seq(Entries) /\ e \in Entries /\ e.ver = past.ver /\ past.ver \notin Gone
         /\ Begins(Text(log.cur), b) /\ Len(Text(log.cur)) = shm.h0.mx
         /\ Quiet(b, shm.h0.mx, Len(b)) /\ Chained(b, log.cur)
         /\ Pictured(Text(log.cur), file.cur, Committed)
         /\ (e.n > 0 <=> InFlight(y))
         /\ Story(log'.cur, log'.dur, Gone)
         /\ Text(log'.cur) = IF e.n > 0 THEN Append(b, e) ELSE Text(log.cur)
         /\ e.n > 0 => Pictured(Append(b, e), file.cur, x.image) /\ Len(x.image) > 0
         /\ \A k \in DOMAIN y.w.todo : y.w.todo[k].n > 0 <=> (y.w.commit /\ k = Len(y.w.todo))
<1> DEFINE x == con[c]
           y == con'[c]
           t == x.w.todo
<1>1. /\ b = x.hdr.sum /\ t # <<>> /\ e = Head(t) /\ Base(x) = b /\ InTxn(x) /\ ~InFlight(x)
      /\ ~Flying /\ shm.h0.init /\ x.lock > 0 /\ AppendedTo(log'.cur, log.cur, b, e)
      /\ y.w.todo = Tail(t) /\ (y.w.commit <=> x.w.commit) /\ y.pc = "append"
      /\ log'.dur = log.dur /\ x.pc \in {"append", "frames"}
  BY DEF FrameStep
<1>2. t \in Seq(Entries) /\ b \in Seq(Entries)
  BY <1>1, WriterTypes
<1> HIDE DEF t
<1>3. /\ e \in Entries /\ e = t[1] /\ 1 \in DOMAIN t /\ Len(t) \in Nat /\ Len(t) >= 1
      /\ Tail(t) \in Seq(Entries) /\ Len(Tail(t)) = Len(t) - 1
      /\ \A k \in 1..(Len(t) - 1) : Tail(t)[k] = t[k + 1]
      /\ DOMAIN t = 1..Len(t) /\ DOMAIN Tail(t) = 1..(Len(t) - 1)
  BY <1>1, <1>2
<1>4. e.ver = past.ver
  BY <1>1, <1>3 DEF RecInv, PersistInv, NumInv, t
<1>5. past.ver \notin Gone
  BY <1>1 DEF Gone, t
<1>6. LinkOK(c, x, shm, log, past)
  BY AtLink
<1>7. /\ Chained(b, log.cur) /\ Quiet(b, shm.h0.mx, Len(b))
      /\ \A k \in DOMAIN t : t[k].n > 0 <=> (x.w.commit /\ k = Len(t))
      /\ shm.h0.mx = 0 => Text(log.cur) = <<>>
  <2>1. OnLog(x)
    BY DEF FrameStep
  <2>2. x.lock # 0
    BY <1>1
  <2> QED BY <1>1, <1>6, <2>1, <2>2 DEF LinkOK, DraftOK, t
<1>8. HeadTold(shm.h0, log) /\ Pictured(Text(log.cur), file.cur, Committed)
  BY <1>1, ToldNow DEF RecInv, LinkInv, LatestOK
<1>9. shm.h0.mx \in Nat
  BY DEF TypeInv, ShmInv, HdrOK
<1>10. Len(Text(log.cur)) = shm.h0.mx
  <2>1. Len(<<>>) = 0
    OBVIOUS
  <2> QED BY <1>7, <1>8, <1>9, <2>1 DEF HeadTold
<1>11. shm.h0.mx <= Len(b)
  <2>1. Writes(x)
    BY <1>1 DEF Writes, Logging
  <2>2. shm.h0.mx <= x.hdr.mx /\ x.hdr.mx \in Nat /\ x.hdr.mx <= Len(x.hdr.sum)
    BY <2>1, WriteFacts, WriterTypes
  <2> QED BY <1>1, <1>2, <1>9, <2>2
<1>12. Text(log.cur) \in Seq(Entries) /\ Chained(Text(log.cur), log.cur)
  BY FilesTyped, TextType, TextSpelled
<1>13. Begins(Text(log.cur), b)
  BY <1>2, <1>7, <1>10, <1>11, <1>12, ChainedPrefix
<1>14. log.cur \in Logs /\ log.dur \in Logs /\ log'.cur \in Logs
  BY FilesTyped DEF TypeInv, LogInv
<1>15. Story(log'.cur, log'.dur, Gone)
  <2>1. Story(log.cur, log.dur, Gone)
    BY DEF RecInv, PersistInv, StoryInv
  <2> QED BY <1>1, <1>2, <1>3, <1>4, <1>5, <1>13, <1>14, <2>1, StoryAppended
<1>16. Text(log'.cur) = IF e.n > 0 THEN Append(b, e) ELSE Text(log.cur)
  <2> DEFINE m == log'.cur
             G == Gone
  <2>1. Story(log.cur, log.dur, G) /\ AppendedTo(m, log.cur, b, e) /\ e.ver \notin G /\ m \in Logs
    BY <1>1, <1>4, <1>5, <1>14 DEF RecInv, PersistInv, StoryInv
  <2> HIDE DEF m, G
  <2>2. b \in Seq(Entries) /\ e \in Entries
    BY <1>2, <1>3
  <2>3. Text(m) = IF e.n > 0 THEN Append(b, e) ELSE Text(log.cur)
    BY <1>13, <1>14, <2>1, <2>2, TextAppended
  <2> QED BY <2>3 DEF m
<1>17. e.n > 0 <=> InFlight(y)
  <2>1. e.n > 0 <=> (x.w.commit /\ 1 = Len(t))
    BY <1>3, <1>7
  <2> DEFINE u == Tail(t)
  <2>2. u = <<>> <=> Len(u) = 0
    <3>1. u \in Seq(Entries)
      BY <1>3
    <3> HIDE DEF u
    <3> QED BY <3>1
  <2>3. Tail(t) = <<>> <=> Len(t) = 1
    BY <1>3, <2>2
  <2> QED BY <1>1, <2>1, <2>3 DEF InFlight
<1>18. ASSUME e.n > 0 PROVE Pictured(Append(b, e), file.cur, x.image) /\ Len(x.image) > 0
  <2>1. x.w.commit /\ Len(t) = 1
    BY <1>3, <1>7, <1>18
  <2>2. Tail(t) = <<>>
    <3> DEFINE u == Tail(t)
    <3>1. u \in Seq(Entries) /\ Len(u) = 0
      BY <1>3, <2>1
    <3> HIDE DEF u
    <3>2. u = <<>>
      BY <3>1
    <3> QED BY <3>2 DEF u
  <2> DEFINE s == Append(b, e)
  <2>3. s \in Seq(Entries) /\ s # <<>>
    BY <1>2, <1>3, AppendAt
  <2>4. s = b \o t
    <3>1. s \o Tail(t) = b \o t
      BY <1>1, <1>2, MoveOne
    <3> HIDE DEF s
    <3>2. s \o <<>> = s
      BY <2>3
    <3> QED BY <2>2, <3>1, <3>2
  <2>5. Append(b, e) = Tale(x)
    BY <1>1, <2>4 DEF Tale, t, s
  <2>6. TaleOK(x, shm, file.cur, Committed)
    BY <1>1, WriterAt
  <2> QED BY <2>1, <2>3, <2>5, <2>6 DEF TaleOK, Pictured
<1>19. \A k \in DOMAIN Tail(t) : Tail(t)[k].n > 0 <=> (x.w.commit /\ k = Len(Tail(t)))
  <2> SUFFICES ASSUME NEW k \in 1..(Len(t) - 1)
               PROVE  Tail(t)[k].n > 0 <=> (x.w.commit /\ k = Len(t) - 1)
    BY <1>3
  <2>1. k + 1 \in DOMAIN t /\ Tail(t)[k] = t[k + 1] /\ (k + 1 = Len(t) <=> k = Len(t) - 1)
    BY <1>3
  <2> QED BY <1>7, <2>1
<1>20. \A k \in DOMAIN y.w.todo : y.w.todo[k].n > 0 <=> (y.w.commit /\ k = Len(y.w.todo))
  BY <1>1, <1>19
<1> QED BY <1>2, <1>3, <1>4, <1>5, <1>7, <1>8, <1>10, <1>13, <1>15, <1>16, <1>17, <1>18, <1>20

LEMMA TailVersions ==
  ASSUME NEW t \in Seq(Entries), t # <<>>, NEW v, \A k \in DOMAIN t : t[k].ver = v
  PROVE  \A k \in DOMAIN Tail(t) : Tail(t)[k].ver = v
<1>1. /\ Len(t) \in Nat /\ Len(t) >= 1 /\ DOMAIN t = 1..Len(t) /\ DOMAIN Tail(t) = 1..(Len(t) - 1)
      /\ \A k \in 1..(Len(t) - 1) : Tail(t)[k] = t[k + 1]
  OBVIOUS
<1> SUFFICES ASSUME NEW k \in 1..(Len(t) - 1) PROVE Tail(t)[k].ver = v
  BY <1>1
<1>2. k + 1 \in DOMAIN t /\ Tail(t)[k] = t[k + 1]
  BY <1>1
<1> QED BY <1>2

\* A new frame is numbered as those before it.
LEMMA NumAppended ==
  ASSUME NEW m, NEW l \in Logs, NEW b \in Seq(Entries), NEW e \in Entries, NEW p,
         AppendedTo(m, l, b, e), Len(b) <= MaxFrame, l.salt <= p.salt, e.ver <= p.ver,
         \A i \in 1..MaxFrame : FrameNum(FrameOf(l, i), p)
  PROVE  \A i \in 1..MaxFrame : FrameNum(FrameOf(m, i), p)
<1>1. ASSUME NEW i \in 1..MaxFrame, i # Len(b) + 1 PROVE FrameNum(FrameOf(m, i), p)
  <2>1. FrameOf(m, i) = FrameOf(l, i)
    BY <1>1 DEF AppendedTo
  <2> QED BY <2>1
<1>2. ASSUME NEW k \in 1..Len(b) PROVE b[k].ver <= p.ver
  <2> DEFINE n == Len(b)
  <2>1. n \in 1..MaxFrame /\ n \in 1..Len(b)
    BY <1>2, Constants
  <2>2. FrameOf(l, n) = Frame(l.salt, SubSeq(b, 1, n)) /\ FrameNum(FrameOf(l, n), p)
    BY <2>1 DEF AppendedTo, Chained
  <2>3. b = SubSeq(b, 1, n)
    BY BeginsItself
  <2>4. FrameOf(l, n).sum = b
    BY <2>2, <2>3 DEF Frame
  <2> QED BY <2>2, <2>4 DEF FrameNum
<1>3. FrameNum(FrameOf(m, Len(b) + 1), p)
  <2> DEFINE s == Append(b, e)
             fr == FrameOf(m, Len(b) + 1)
  <2>1. fr.salt = l.salt /\ fr.sum = s /\ l.salt > 0
    BY DEF AppendedTo, Frame
  <2>2. /\ Len(s) = Len(b) + 1 /\ s[Len(b) + 1] = e /\ \A k \in 1..Len(b) : s[k] = b[k]
        /\ Len(b) \in Nat
    BY AppendAt
  <2> HIDE DEF s, fr
  <2>3. \A k \in 1..Len(s) : s[k].ver <= p.ver
    BY <1>2, <2>2
  <2> QED BY <2>1, <2>3 DEF FrameNum, fr
<1> QED BY <1>1, <1>3

LEMMA WriteFramePersist ==
  ASSUME OneWriter, TypeInv, BackInv, HeadInv, DataInv, SnapInv, RecInv, TypeInv',
         NEW c \in Conn, NEW b, NEW e, FrameStep(c, b, e)
  PROVE  PersistInv'
<1> DEFINE x == con[c]
           y == con'[c]
           d == Text(log.dur)
           t == Text(log.cur)
<1>1. /\ Only(c) /\ UNCHANGED <<shm, file>> /\ b = x.hdr.sum /\ x.w.todo # <<>>
      /\ log'.dur = log.dur /\ log'.new = log.new /\ AppendedTo(log'.cur, log.cur, b, e)
      /\ past'.salt = past.salt /\ past'.images = past.images /\ past'.full = past.full
      /\ past'.ver = past.ver /\ past'.flight = IF e.n > 0 THEN x.image ELSE NoImage
      /\ y.w.todo = Tail(x.w.todo) /\ InTxn(x) /\ OneHeader(log) /\ log.cur.salt > 0
      /\ shm.h0.init /\ ~Flying
  BY DEF FrameStep
<1>2. /\ b \in Seq(Entries) /\ e \in Entries /\ e.ver = past.ver /\ past.ver \notin Gone
      /\ Begins(t, b) /\ Len(t) = shm.h0.mx
      /\ Quiet(b, shm.h0.mx, Len(b)) /\ Chained(b, log.cur)
      /\ Pictured(t, file.cur, Committed)
      /\ Story(log'.cur, log'.dur, Gone)
      /\ Text(log'.cur) = IF e.n > 0 THEN Append(b, e) ELSE t
      /\ e.n > 0 => Pictured(Append(b, e), file.cur, x.image) /\ Len(x.image) > 0
  BY WriteFrameText
<1>3. /\ log.cur \in Logs /\ log.dur \in Logs /\ log'.cur \in Logs /\ file.cur \in Images
      /\ past.salt \in Nat /\ past.ver \in Nat /\ log.cur.salt <= past.salt /\ Committed \in Images
  BY FilesTyped DEF TypeInv, LogInv, DataInv, PastData
<1>4. /\ t \in Seq(Entries) /\ d \in Seq(Entries) /\ Len(t) \in Nat /\ Len(d) \in Nat
      /\ Len(b) \in Nat
  BY <1>2, <1>3, TextType
<1>5. Committed' = Committed
  BY <1>1 DEF Committed
<1>6. NumInv /\ StoryInv /\ OneHdr
  BY DEF RecInv, PersistInv
<1>7. OneHeader(log')
  BY <1>1 DEF OneHeader, AppendedTo
<1>8. StoryInv'
  <2>1. \A k \in Conn : con[k].w.todo = <<>> => con'[k].w.todo = <<>>
    BY <1>1 DEF Only
  <2>2. Gone \subseteq Gone'
    BY <1>1, <2>1 DEF Gone
  <2> QED BY <1>2, <2>2, StoryMore DEF StoryInv
<1>9. NumInv'
  <2>1. \A i \in 1..MaxFrame : FrameNum(FrameOf(log'.cur, i), past)
    <3>1. Len(b) <= MaxFrame /\ e.ver <= past.ver
      BY <1>1, <1>2, <1>3, <1>4, Constants DEF AppendedTo
    <3>2. \A i \in 1..MaxFrame : FrameNum(FrameOf(log.cur, i), past)
      BY <1>6 DEF NumInv
    <3> QED BY <1>1, <1>2, <1>3, <3>1, <3>2, NumAppended
  <2>2. \A l \in {log'.cur, log'.dur}, i \in 1..MaxFrame : FrameNum(FrameOf(l, i), past')
    BY <1>1, <1>6, <2>1 DEF NumInv, FrameNum
  <2>3. ASSUME NEW k \in Conn, NEW j \in DOMAIN con'[k].w.todo
        PROVE  con'[k].w.todo[j].ver = past'.ver
    <3>1. CASE k = c
      <4>1. x.w.todo \in Seq(Entries) /\ \A i \in DOMAIN x.w.todo : x.w.todo[i].ver = past.ver
        BY <1>6, WriterTypes DEF NumInv
      <4>2. \A i \in DOMAIN Tail(x.w.todo) : Tail(x.w.todo)[i].ver = past.ver
        BY <1>1, <4>1, TailVersions
      <4> QED BY <1>1, <2>3, <3>1, <4>2
    <3>2. CASE k # c
      BY <1>1, <1>6, <2>3, <3>2 DEF NumInv, Only
    <3> QED BY <3>1, <3>2
  <2> QED BY <1>1, <1>6, <2>2, <2>3 DEF NumInv
<1>10. OneHdr'
  <2>1. Pictures(log, file.cur, past) /\ FilesAgree(log, file)
    BY <1>1, <1>6 DEF OneHdr
  <2>2. FilesAgree(log', file')
    BY <1>1, <2>1 DEF FilesAgree
  <2>3. Old(past') = Old(past) /\ Committed \in Old(past)
    <3>1. past.images # <<>> /\ past.images \in Seq(Images)
      BY DEF DataInv, PastData
    <3>2. Committed \in Old(past)
      BY <3>1 DEF Old, Committed, Last
    <3> QED BY <1>1, <3>2, OldSame
  <2>4. CASE e.n > 0
    <3> DEFINE s == Append(b, e)
    <3>1. /\ Text(log'.cur) = s /\ Len(s) = Len(b) + 1 /\ s \in Seq(Entries)
          /\ \A k \in 1..Len(b) : s[k] = b[k]
          /\ \A k \in 0..Len(b) : SubSeq(s, 1, k) = SubSeq(b, 1, k)
      BY <1>2, <2>4, AppendAt
    <3> HIDE DEF s
    <3>2. ASSUME NEW m \in Len(d)..Len(b), m = 0 \/ s[m].n > 0
          PROVE  \E img \in Old(past) : Pictured(SubSeq(s, 1, m), file.cur, img)
      <4>1. m \in Int /\ Len(d) <= m /\ m <= Len(b) /\ 0 <= m
        BY <1>4
      <4>2. m <= Len(t)
        <5>1. CASE m > Len(t)
          <6>1. b[m].n = 0 /\ s[m] = b[m]
            BY <1>2, <1>4, <3>1, <4>1, <5>1 DEF Quiet
          <6> QED BY <1>4, <3>2, <4>1, <5>1, <6>1
        <5> QED BY <1>4, <4>1, <5>1
      <4>3. SubSeq(s, 1, m) = SubSeq(t, 1, m) /\ (m > 0 => s[m] = t[m])
        BY <1>2, <1>4, <3>1, <4>1, <4>2, BeginsAt
      <4>4. CASE m = Len(t)
        <5>1. SubSeq(t, 1, m) = t
          BY <1>4, <4>4, BeginsItself
        <5> QED BY <1>2, <2>3, <4>3, <5>1
      <4>5. CASE m < Len(t)
        <5>1. m \in Len(d)..(Len(t) - 1) /\ (m = 0 \/ t[m].n > 0)
          BY <1>4, <3>2, <4>1, <4>3, <4>5
        <5> QED BY <2>1, <4>3, <5>1 DEF Pictures
      <4> QED BY <1>4, <4>1, <4>2, <4>4, <4>5
    <3>3. Len(s) - 1 = Len(b)
      BY <1>4, <3>1
    <3>4. Pictures(log', file'.cur, past')
      BY <1>1, <2>3, <3>1, <3>2, <3>3 DEF Pictures
    <3> QED BY <2>2, <3>4 DEF OneHdr
  <2>5. CASE ~(e.n > 0)
    <3>1. Pictures(log', file'.cur, past')
      BY <1>1, <1>2, <2>1, <2>3, <2>5 DEF Pictures
    <3> QED BY <2>2, <3>1 DEF OneHdr
  <2> QED BY <2>4, <2>5
<1>11. TwoHdr'
  BY <1>7 DEF TwoHdr
<1>12. Recoverable'
  <2>1. CASE e.n > 0
    <3>1. Pictured(Text(log'.cur), file.cur, x.image) /\ x.image \in Images
      BY <1>2, <2>1, WriterTypes
    <3>2. RecoveredImage(log'.cur, file.cur) = x.image
      BY <1>3, <3>1, PictureIs
    <3>3. x.image # NoImage
      BY <1>2, <2>1, <3>1 DEF NoImage
    <3> QED BY <1>1, <2>1, <3>2, <3>3 DEF Recoverable
  <2>2. CASE ~(e.n > 0)
    <3>1. Pictured(Text(log'.cur), file.cur, Committed)
      BY <1>2, <2>2
    <3>2. RecoveredImage(log'.cur, file.cur) = Committed
      BY <1>3, <3>1, PictureIs
    <3>3. Committed # NoImage
      BY <1>3, <1>6, <3>1, PictureSome DEF NumInv
    <3> QED BY <1>1, <1>5, <3>2, <3>3 DEF Recoverable
  <2> QED BY <2>1, <2>2
<1> QED BY <1>8, <1>9, <1>10, <1>11, <1>12 DEF PersistInv

LEMMA ChainedAppended ==
  ASSUME NEW m, NEW l, NEW b \in Seq(Entries), NEW e \in Entries, AppendedTo(m, l, b, e)
  PROVE  Chained(Append(b, e), m)
<1> DEFINE s == Append(b, e)
<1>1. /\ Len(s) = Len(b) + 1 /\ Len(b) \in Nat /\ s \in Seq(Entries)
      /\ \A k \in 0..Len(b) : SubSeq(s, 1, k) = SubSeq(b, 1, k)
  BY AppendAt
<1>2. s = SubSeq(s, 1, Len(s))
  BY <1>1, BeginsItself
<1>3. FrameOf(m, Len(b) + 1) = Frame(m.salt, s)
  BY DEF AppendedTo
<1> HIDE DEF s
<1>4. ASSUME NEW i \in 1..Len(s) PROVE FrameOf(m, i) = Frame(m.salt, SubSeq(s, 1, i))
  <2>1. CASE i = Len(b) + 1
    BY <1>1, <1>2, <1>3, <2>1
  <2>2. CASE i # Len(b) + 1
    <3>1. i \in 1..Len(b) /\ i \in 0..Len(b) /\ i \in Nat \ {0}
      BY <1>1, <2>2
    <3>2. FrameOf(m, i) = FrameOf(l, i) /\ FrameOf(l, i) = Frame(l.salt, SubSeq(b, 1, i))
          /\ m.salt = l.salt
      BY <2>2, <3>1 DEF AppendedTo, Chained
    <3> QED BY <1>1, <3>1, <3>2
  <2> QED BY <2>1, <2>2
<1> QED BY <1>4 DEF Chained, s

LEMMA WriteFrameLink ==
  ASSUME OneWriter, TypeInv, BackInv, HeadInv, DataInv, SnapInv, RecInv, TypeInv',
         NEW c \in Conn, NEW b, NEW e, FrameStep(c, b, e)
  PROVE  LinkInv'
<1> DEFINE x == con[c]
           y == con'[c]
           s == Append(b, e)
<1>1. /\ Only(c) /\ UNCHANGED <<shm, file>> /\ x.pc \in {"append", "frames"} /\ y.pc = "append"
      /\ log'.dur = log.dur /\ log'.new = log.new /\ AppendedTo(log'.cur, log.cur, b, e)
      /\ past'.images = past.images /\ past'.full = past.full
      /\ past'.flight = IF e.n > 0 THEN x.image ELSE NoImage
      /\ y.hdr.salt = x.hdr.salt /\ y.hdr.sum = s /\ y.lock = x.lock /\ y.nCkpt = x.nCkpt
      /\ y.image = x.image /\ InTxn(x) /\ InTxn(y) /\ shm.h0.init /\ x.lock > 0 /\ OneHeader(log)
      /\ x.hdr.salt = log.cur.salt /\ log.cur.salt > 0 /\ ~InFlight(x) /\ OnLog(x) /\ ~Flying
  BY DEF FrameStep
<1>2. /\ b \in Seq(Entries) /\ e \in Entries /\ Len(Text(log.cur)) = shm.h0.mx
      /\ Begins(Text(log.cur), b)
      /\ Quiet(b, shm.h0.mx, Len(b))
      /\ Pictured(Text(log.cur), file.cur, Committed)
      /\ (e.n > 0 <=> InFlight(y))
      /\ Text(log'.cur) = IF e.n > 0 THEN s ELSE Text(log.cur)
      /\ \A k \in DOMAIN y.w.todo : y.w.todo[k].n > 0 <=> (y.w.commit /\ k = Len(y.w.todo))
  BY WriteFrameText
<1>3. /\ s \in Seq(Entries) /\ Len(s) = Len(b) + 1 /\ Len(b) \in Nat /\ s[Len(b) + 1] = e
      /\ \A k \in 1..Len(b) : s[k] = b[k]
  BY <1>2, AppendAt
<1>4. Chained(s, log'.cur) /\ log'.cur.salt = log.cur.salt /\ OneHeader(log')
  BY <1>1, <1>2, ChainedAppended DEF AppendedTo, OneHeader
<1> HIDE DEF s
<1>5. shm.h0.mx \in Nat /\ shm.nBackfill \in Nat /\ shm.h0.mx <= Len(b)
  <2>1. Len(Text(log.cur)) <= Len(b) /\ shm.nBackfill \in Nat /\ shm.h0.mx \in Nat
    BY <1>2 DEF Begins, TypeInv, ShmInv, HdrOK
  <2> QED BY <1>2, <2>1
<1>6. ASSUME NEW d \in Conn \ {c}
      PROVE  LinkOK(d, con'[d], shm', log', past') /\ ~InFlight(con'[d])
  BY <1>1, OthersKeep
<1>7. Flying' <=> e.n > 0
  BY <1>2, <1>6, OwnFlying
<1>8. LinkOK(c, x, shm, log, past)
  BY AtLink
<1>9. LatestOK'
  <2>1. Committed' = Committed /\ shm' = shm /\ file' = file /\ log'.dur = log.dur
    BY <1>1 DEF Committed
  <2>2. e.n > 0 \/ Text(log'.cur) = Text(log.cur)
    BY <1>2
  <2>3. LatestOK
    BY DEF RecInv, LinkInv
  <2>4. AllInFile => AllInFile'
    BY <2>1 DEF AllInFile
  <2> QED BY <1>1, <1>4, <1>7, <2>1, <2>2, <2>3, <2>4 DEF LatestOK
<1>10. SyncedOK'
  <2>1. SyncedOK
    BY DEF RecInv, LinkInv
  <2> QED BY <1>1, <1>2, <1>7, <2>1 DEF SyncedOK, Strict
<1>11. e.n > 0 \/ (shm.h0.mx = 0 => Text(log'.cur) = <<>>)
  BY <1>1, <1>2, <1>8 DEF LinkOK, DraftOK
<1>12. Base(y) = s
  BY <1>1 DEF Base
<1>13. Quiet(s, shm.h0.mx, IF InFlight(y) THEN Len(s) - 1 ELSE Len(s))
  <2> DEFINE n == IF InFlight(y) THEN Len(s) - 1 ELSE Len(s)
  <2>1. ASSUME NEW i \in (shm.h0.mx + 1)..n PROVE s[i].n = 0
    <3>1. CASE i <= Len(b)
      <4>1. i \in (shm.h0.mx + 1)..Len(b) /\ i \in 1..Len(b)
        BY <1>3, <1>5, <2>1, <3>1
      <4> QED BY <1>2, <1>3, <4>1 DEF Quiet
    <3>2. CASE ~(i <= Len(b))
      <4>1. ~InFlight(y) /\ i = Len(b) + 1
        BY <1>3, <1>5, <2>1, <3>2
      <4>2. ~(e.n > 0) /\ e.n \in Nat
        BY <1>2, <4>1 DEF Entries
      <4>3. s[i] = e
        BY <1>3, <4>1
      <4> QED BY <4>2, <4>3
    <3> QED BY <3>1, <3>2
  <2> QED BY <2>1 DEF Quiet
<1>14. x.nCkpt > 0 => x.hdr.salt = shm.h0.salt
  BY <1>1, <1>8 DEF LinkOK, DraftOK
<1>15. LinkOK(c, y, shm', log', past')
  <2>1. DraftOK(y, shm', log')
    BY <1>1, <1>2, <1>4, <1>11, <1>12, <1>13, <1>14 DEF DraftOK
  <2>2. SaltOK(c, y, shm', log')
    BY <1>1, <1>2, <1>4, <1>11, <1>14 DEF SaltOK, SaltFit
  <2>3. FlightOK(y, shm', log', past')
    BY <1>1, <1>2, <1>3, <1>5 DEF FlightOK
  <2>4. RestOK(y, shm', log', past')
    BY <1>1 DEF RestOK
  <2> QED BY <2>1, <2>2, <2>3, <2>4 DEF LinkOK
<1> QED BY <1>6, <1>9, <1>10, <1>15 DEF LinkInv

LEMMA WriteFrameRec ==
  ASSUME OneWriter, TypeInv, BackInv, HeadInv, DataInv, SnapInv, RecInv, TypeInv',
         NEW c \in Conn, WriteFrame(c)
  PROVE  RecInv'
BY WriteFrameFacts, WriteFramePersist, WriteFrameLink DEF RecInv

LEMMA EndFramesRec ==
  ASSUME OneWriter, TypeInv, BackInv, HeadInv, DataInv, SnapInv, RecInv, NEW c \in Conn,
         EndFrames(c)
  PROVE  RecInv'
<1> DEFINE x == con[c]
           y == con'[c]
           sync == x.w.commit /\ past.full
<1>1. /\ Only(c) /\ UNCHANGED <<file, past>> /\ x.pc = "append" /\ x.w.todo = <<>>
      /\ x.excl = {WRITE}
      /\ y.pc = IF x.w.commit THEN "commitHdr" ELSE "read"
      /\ y.hdr.mx = Len(x.hdr.sum) /\ y.hdr.sum = x.hdr.sum /\ y.hdr.salt = x.hdr.salt
      /\ y.w = NoWork /\ y.lock = x.lock /\ y.excl = x.excl /\ y.nCkpt = x.nCkpt
      /\ y.image = x.image /\ shm'.h0 = shm.h0 /\ shm'.nBackfill = shm.nBackfill
  BY EndFramesEffect
<1>2. log' = IF sync THEN SyncedLog(log) ELSE log
  BY DEF EndFrames
<1>3. InTxn(x) /\ InTxn(y) /\ Writes(x)
  BY <1>1 DEF InTxn, Writes, Logging
<1>4. /\ shm.h0.init /\ shm.h0.mx <= x.hdr.mx /\ x.hdr.mx <= Len(x.hdr.sum) /\ shm.h0.mx \in Nat
      /\ x.hdr.mx \in Nat /\ x.hdr.sum \in Seq(Entries) /\ Len(x.hdr.sum) \in Nat
  BY <1>3, WriteFacts, WriterTypes DEF TypeInv, ShmInv, HdrOK
<1>5. x.lock > 0
  BY <1>1, <1>3, <1>4, WriterAt DEF PhaseOK, Logging
<1>6. /\ InFlight(x) <=> x.w.commit
      /\ InFlight(y) <=> x.w.commit
  BY <1>1 DEF InFlight
<1>7. LinkOK(c, x, shm, log, past)
  BY AtLink
<1>8. OnLog(x) /\ Base(x) = x.hdr.sum
  BY <1>1, <1>5 DEF OnLog, Base
<1>9. NoWork.todo = <<>> /\ ~NoWork.commit /\ ~NoWork.close
  BY DEF NoWork
<1>10. log'.cur = log.cur /\ (~sync => log' = log) /\ (sync => log'.dur = log.cur /\ ~log'.new)
  BY <1>2, SyncedIs
<1>11. /\ Chained(x.hdr.sum, log.cur)
       /\ Quiet(x.hdr.sum, shm.h0.mx, IF InFlight(x) THEN Len(x.hdr.sum) - 1 ELSE Len(x.hdr.sum))
       /\ x.hdr.salt = log.cur.salt /\ log.cur.salt > 0 /\ OneHeader(log)
       /\ (x.nCkpt > 0 => x.hdr.salt = shm.h0.salt)
       /\ (shm.h0.mx = 0 /\ ~InFlight(x) => Text(log.cur) = <<>>)
  BY <1>1, <1>3, <1>4, <1>5, <1>7, <1>8 DEF LinkOK, DraftOK
<1>12. ASSUME NEW d \in Conn \ {c}
       PROVE  LinkOK(d, con'[d], shm', log', past') /\ ~InFlight(con'[d])
  BY <1>1, <1>3, <1>4, OthersKeep
<1>13. (Flying' <=> x.w.commit) /\ (Flying <=> x.w.commit)
  <2>1. \A d \in Conn \ {c} : ~InFlight(con[d])
    BY <1>3, BesideWriter, NotFlying
  <2> QED BY <1>6, <1>12, <2>1, OwnFlying DEF Flying
<1>14. PersistInv'
  <2>1. \A d \in Conn : con'[d].w.todo = con[d].w.todo
    BY <1>1, <1>9 DEF Only
  <2>2. CASE sync
    BY <1>1, <1>2, <2>1, <2>2, PersistSynced DEF RecInv
  <2>3. CASE ~sync
    <3>1. \A d \in Conn : con'[d].w.todo = con[d].w.todo \/ con'[d].w.todo = <<>>
      BY <2>1
    <3> QED BY <1>1, <1>10, <2>3, <3>1, FilesTyped, PersistCalm DEF RecInv
  <2> QED BY <2>2, <2>3
<1>15. OneHeader(log') /\ (sync => Text(log'.dur) = Text(log'.cur))
  BY <1>10, <1>11 DEF OneHeader
<1>16. LatestOK'
  <2>1. Committed' = Committed /\ file' = file
    BY <1>1 DEF Committed
  <2>2. LatestOK
    BY DEF RecInv, LinkInv
  <2>3. AllInFile => AllInFile'
    BY <2>1 DEF AllInFile
  <2> QED BY <1>1, <1>4, <1>10, <1>11, <1>13, <1>15, <2>1, <2>2, <2>3 DEF LatestOK
<1>17. SyncedOK'
  <2>1. SyncedOK
    BY DEF RecInv, LinkInv
  <2>2. CASE sync
    BY <1>15, <2>2 DEF SyncedOK
  <2>3. CASE ~sync
    BY <1>1, <1>10, <1>13, <2>1, <2>3 DEF SyncedOK
  <2> QED BY <2>2, <2>3
<1>18. Base(y) = x.hdr.sum
  <2>1. x.hdr.sum = <<>> \/ Len(x.hdr.sum) # 0
    BY <1>4
  <2> QED BY <1>1, <1>5, <2>1 DEF Base
<1>19. shm.h0.mx = 0 /\ ~InFlight(y) => x.hdr.salt > 0 /\ x.hdr.salt = log'.cur.salt
                                       /\ Text(log'.cur) = <<>>
  BY <1>6, <1>10, <1>11
<1>20. y.hdr.mx = 0 => shm.h0.mx = 0 /\ ~InFlight(y)
  <2>1. InFlight(x) => shm.h0.mx < Len(x.hdr.sum)
    BY <1>4, <1>7 DEF LinkOK, FlightOK
  <2> QED BY <1>1, <1>4, <1>6, <2>1
<1>21. LinkOK(c, y, shm', log', past')
  <2>1. ~y.w.commit /\ y.w.todo = <<>> /\ ~y.w.close /\ DOMAIN y.w.todo = {}
    BY <1>1, <1>9
  <2>2. y.hdr.mx = 0 => SaltFit(y.hdr.salt, log')
    BY <1>1, <1>19, <1>20 DEF SaltFit
  <2>3. y.pc \notin {"syncHdr", "restartHdr", "append"}
    BY <1>1
  <2>4. DraftOK(y, shm', log')
    BY <1>1, <1>5, <1>6, <1>10, <1>11, <1>15, <1>18, <1>19, <2>1, <2>2, <2>3 DEF DraftOK
  <2>5. SaltOK(c, y, shm', log')
    BY <1>1, <1>4, <1>11, <1>19 DEF SaltOK, SaltFit
  <2>6. FlightOK(y, shm', log', past')
    BY <1>1, <1>4, <1>6, <1>7, <1>10 DEF LinkOK, FlightOK
  <2>7. RestOK(y, shm', log', past')
    BY <1>1, <1>3, <1>5, <1>10, <2>1 DEF RestOK, Strict
  <2> QED BY <2>4, <2>5, <2>6, <2>7 DEF LinkOK
<1>22. LinkInv'
  BY <1>12, <1>16, <1>17, <1>21 DEF LinkInv
<1> QED BY <1>14, <1>22 DEF RecInv

LEMMA CommitFacts ==
  ASSUME OneWriter, TypeInv, BackInv, HeadInv, DataInv, SnapInv, RecInv, NEW c \in Conn,
         CommitHdr(c)
  PROVE  LET x == con[c]
         IN
         /\ InTxn(x) /\ InFlight(x) /\ shm.h0.init /\ x.hdr.init /\ x.lock > 0 /\ x.hdr.mx > 0
         /\ Text(log.cur) = x.hdr.sum /\ x.hdr.mx = Len(x.hdr.sum) /\ x.hdr.mx \in Nat
         /\ shm.nBackfill < x.hdr.mx /\ shm.nBackfill \in Nat
         /\ x.hdr.salt = log.cur.salt /\ log.cur.salt > 0 /\ OneHeader(log)
         /\ Pictured(x.hdr.sum, file.cur, x.image) /\ x.image \in Images /\ x.image # NoImage
         /\ Strict(past) => log.cur = log.dur
         /\ Gone = {v \in Nat : v <= past.ver}
<1> DEFINE x == con[c]
<1>1. x.pc = "commitHdr" /\ x.excl = {WRITE}
  BY CommitHdrEffect
<1>2. InTxn(x) /\ Writes(x) /\ InFlight(x)
  BY <1>1 DEF InTxn, Writes, Logging, InFlight
<1>3. shm.h0.init /\ x.hdr.init
  BY <1>2, WriteFacts
<1>4. x.lock > 0 /\ TaleOK(x, shm, file.cur, Committed) /\ LoggedOK(x, shm, log.cur)
  BY <1>1, <1>2, <1>3, WriterAt DEF PhaseOK, Logging
<1>5. /\ x.w.todo = <<>> /\ Sound(x.hdr) /\ x.hdr.n = Len(x.image) /\ x.hdr.mx > 0
      /\ Shows(Tale(x), file.cur, x.image)
  BY <1>1, <1>4 DEF TaleOK
<1>6. x.hdr.sum \in Seq(Entries) /\ x.hdr.mx \in Nat /\ x.image \in Images
      /\ shm.nBackfill \in Nat /\ shm.h0.mx \in Nat
  BY WriterTypes DEF TypeInv, ShmInv, HdrOK
<1>7. Base(x) = x.hdr.sum /\ Tale(x) = x.hdr.sum /\ OnLog(x)
  <2> DEFINE s == x.hdr.sum
  <2>1. s \in Seq(Entries)
    BY <1>6
  <2>2. Base(x) = s
    BY <1>1, <1>4, <1>5 DEF Base
  <2>3. Tale(x) = s \o <<>>
    BY <1>5, <2>2 DEF Tale
  <2> HIDE DEF s
  <2>4. s \o <<>> = s
    BY <2>1
  <2> QED BY <1>1, <2>2, <2>3, <2>4 DEF s, OnLog
<1>8. x.hdr.mx = Len(x.hdr.sum) /\ x.hdr.n = x.hdr.sum[x.hdr.mx].n /\ x.hdr.n > 0
  BY <1>5 DEF Sound
<1>9. Pictured(x.hdr.sum, file.cur, x.image) /\ x.image # NoImage
  <2>1. Last(x.hdr.sum).n = Len(x.image)
    BY <1>5, <1>8 DEF Last
  <2>2. x.hdr.sum # <<>> /\ Len(x.image) > 0
    BY <1>5, <1>6, <1>8
  <2> QED BY <1>5, <1>7, <2>1, <2>2 DEF Pictured, NoImage
<1>10. LinkOK(c, x, shm, log, past)
  BY AtLink
<1>11. Text(log.cur) = x.hdr.sum /\ shm.h0.mx < Len(x.hdr.sum)
  BY <1>2, <1>3, <1>10 DEF LinkOK, FlightOK
<1>12. x.hdr.salt = log.cur.salt /\ log.cur.salt > 0 /\ OneHeader(log)
  BY <1>2, <1>3, <1>7, <1>10 DEF LinkOK, DraftOK
<1>13. Strict(past) => log.cur = log.dur
  BY <1>1, <1>10 DEF LinkOK, RestOK
<1>14. shm.nBackfill < x.hdr.mx
  <2>1. shm.nBackfill <= shm.h0.mx
    BY <1>1, UnderWriteLock
  <2> QED BY <1>6, <1>8, <1>11, <2>1
<1>15. Gone = {v \in Nat : v <= past.ver}
  <2>1. \A d \in Conn \ {c} : con[d].w.todo = <<>>
    BY <1>2, BesideWriter, AtLink
  <2> QED BY <1>5, <2>1 DEF Gone
<1> QED BY <1>2, <1>3, <1>4, <1>5, <1>6, <1>8, <1>9, <1>11, <1>12, <1>13, <1>14, <1>15

LEMMA SawFields ==
  ASSUME TypeInv, DataInv, NEW img \in Images, past' = Saw(img)
  PROVE  /\ past'.salt = past.salt /\ past'.ver = past.ver /\ past'.full = past.full
         /\ past'.flight = NoImage /\ Committed' = img
         /\ \A k \in DOMAIN past.images : \E j \in DOMAIN past'.images :
              past'.images[j] = past.images[k]
<1> DEFINE im == past.images
           new == IF img = Last(im) THEN im ELSE Append(im, img)
<1>1. im \in Seq(Images) /\ im # <<>>
  BY DEF DataInv, PastData
<1>2. /\ past'.salt = past.salt /\ past'.ver = past.ver /\ past'.full = past.full
      /\ past'.flight = NoImage /\ past'.images = new
  BY DEF Saw, TypeInv, PastInv
<1> HIDE DEF im
<1>3. Last(new) = img
  BY <1>1 DEF Last
<1>4. \A k \in DOMAIN im : \E j \in DOMAIN new : new[j] = im[k]
  <2> SUFFICES ASSUME NEW k \in DOMAIN im PROVE k \in DOMAIN new /\ new[k] = im[k]
    OBVIOUS
  <2> QED BY <1>1
<1> HIDE DEF new
<1> QED BY <1>2, <1>3, <1>4 DEF Committed, im

LEMMA CommitHdrRec ==
  ASSUME OneWriter, TypeInv, BackInv, HeadInv, DataInv, SnapInv, RecInv, NEW c \in Conn,
         CommitHdr(c)
  PROVE  RecInv'
<1> DEFINE x == con[c]
           y == con'[c]
<1>1. /\ Only(c) /\ UNCHANGED <<log, file>> /\ x.pc = "commitHdr" /\ Finished(y, x, x.hdr, x.image)
      /\ shm'.h0 = x.hdr /\ shm'.nBackfill = shm.nBackfill /\ past' = Saw(x.image)
  BY CommitHdrEffect
<1>2. /\ InTxn(x) /\ InFlight(x) /\ shm.h0.init /\ x.hdr.init /\ x.lock > 0 /\ x.hdr.mx > 0
      /\ Text(log.cur) = x.hdr.sum /\ x.hdr.mx = Len(x.hdr.sum) /\ x.hdr.mx \in Nat
      /\ shm.nBackfill < x.hdr.mx /\ shm.nBackfill \in Nat
      /\ x.hdr.salt = log.cur.salt /\ log.cur.salt > 0 /\ OneHeader(log)
      /\ Pictured(x.hdr.sum, file.cur, x.image) /\ x.image \in Images /\ x.image # NoImage
      /\ Strict(past) => log.cur = log.dur
      /\ Gone = {v \in Nat : v <= past.ver}
  BY CommitFacts
<1>3. /\ past'.salt = past.salt /\ past'.ver = past.ver /\ past'.full = past.full
      /\ past'.flight = NoImage /\ Committed' = x.image
      /\ \A k \in DOMAIN past.images : \E j \in DOMAIN past'.images :
           past'.images[j] = past.images[k]
  BY <1>1, <1>2, SawFields
<1>4. y.pc = "read" /\ y.excl = {} /\ y.hdr = x.hdr /\ y.w = NoWork /\ y.lock = x.lock
  BY <1>1 DEF Finished
<1>5. ~InTxn(y) /\ ~InFlight(y) /\ NoWork.todo = <<>> /\ ~NoWork.close
  BY <1>4 DEF InTxn, Writes, Logging, Restarting, InFlight, NoWork
<1>6. ASSUME NEW d \in Conn \ {c}
      PROVE  LinkOK(d, con'[d], shm', log', past') /\ ~InFlight(con'[d])
  <2>1. ~InTxn(con[d])
    BY <1>2, BesideWriter
  <2>2. con[d].hdr.chg <= shm.h0.chg /\ x.hdr.chg = shm.h0.chg + 1
    BY <1>1, <1>2, <2>1, AtHead DEF HeadOK
  <2>3. con[d].hdr # x.hdr
    BY <2>2, HeadTypes
  <2> QED BY <1>1, <1>2, <2>3, OthersRec
<1>7. ~Flying'
  BY <1>5, <1>6, OwnFlying
<1>8. PersistInv
  BY DEF RecInv
<1>9. \A d \in Conn : con'[d].w.todo = con[d].w.todo \/ con'[d].w.todo = <<>>
  BY <1>1, <1>4, <1>5 DEF Only
<1>10. PersistInv'
  <2>1. StoryInv'
    <3>1. Gone' \subseteq Gone /\ Gone \subseteq Gone'
      <4>1. \A d \in Conn \ {c} : con'[d].w.todo = <<>>
        BY <1>1, <1>2, BesideWriter, AtLink DEF Only
      <4>2. \A d \in Conn : con'[d].w.todo = <<>>
        BY <1>4, <1>5, <4>1
      <4> QED BY <1>2, <1>3, <4>2 DEF Gone
    <3>2. Gone' = Gone
      BY <3>1
    <3> QED BY <1>1, <1>8, <3>2 DEF PersistInv, StoryInv
  <2>2. NumInv'
    <3>1. TodoNum'
      BY <1>3, <1>8, <1>9 DEF TodoNum, PersistInv, NumInv
    <3> QED BY <1>1, <1>3, <1>8, <3>1 DEF PersistInv, NumInv, TodoNum, FrameNum
  <2>3. OneHdr'
    <3>1. Pictures(log, file.cur, past) /\ FilesAgree(log, file)
      BY <1>2, <1>8 DEF PersistInv, OneHdr
    <3>2. Pictures(log, file.cur, past')
      <4>1. CASE Strict(past)
        <5>1. Len(Text(log.dur)) = Len(Text(log.cur)) /\ Len(Text(log.cur)) \in Nat
          BY <1>2, <4>1, FilesTyped, TextType
        <5> QED BY <5>1 DEF Pictures
      <4>2. CASE ~Strict(past)
        <5>1. ~Strict(past')
          BY <1>3, <4>2 DEF Strict
        <5>2. Old(past) \subseteq Old(past')
          BY <1>3, <4>2, <5>1 DEF Old
        <5> QED BY <3>1, <5>2 DEF Pictures
      <4> QED BY <4>1, <4>2
    <3> QED BY <1>1, <3>1, <3>2 DEF OneHdr, FilesAgree
  <2>4. TwoHdr'
    BY <1>1, <1>2 DEF TwoHdr
  <2>5. Recoverable'
    <3>1. RecoveredImage(log.cur, file.cur) = x.image
      BY <1>2, FilesTyped, PictureIs
    <3> QED BY <1>1, <1>2, <1>3, <3>1 DEF Recoverable
  <2> QED BY <2>1, <2>2, <2>3, <2>4, <2>5 DEF PersistInv
<1>11. LatestOK'
  BY <1>1, <1>2, <1>3 DEF LatestOK
<1>12. SyncedOK'
  <2>1. Strict(past') <=> Strict(past)
    BY <1>3 DEF Strict
  <2> QED BY <1>1, <1>2, <2>1 DEF SyncedOK
<1>13. LinkOK(c, y, shm', log', past')
  <2>1. SaltOK(c, y, shm', log')
    BY <1>1, <1>2 DEF SaltOK
  <2>2. RestOK(y, shm', log', past')
    BY <1>2, <1>4, <1>5 DEF RestOK
  <2> QED BY <1>5, <2>1, <2>2 DEF LinkOK, FlightOK, DraftOK
<1>14. LinkInv'
  BY <1>6, <1>11, <1>12, <1>13 DEF LinkInv
<1> QED BY <1>10, <1>14 DEF RecInv

LEMMA RollbackRec ==
  ASSUME TypeInv, BackInv, HeadInv, DataInv, SnapInv, RecInv, NEW c \in Conn, Rollback(c)
  PROVE  RecInv'
<1> DEFINE x == con[c]
           y == con'[c]
<1>1. /\ Only(c) /\ UNCHANGED <<log, file, past>> /\ Writing(c) /\ x.excl = {WRITE}
      /\ Finished(y, x, shm.h0, x.cache) /\ shm'.h0 = shm.h0 /\ shm'.nBackfill = shm.nBackfill
  BY RollbackEffect
<1>2. /\ y.pc = "read" /\ y.excl = {} /\ y.hdr = shm.h0 /\ y.w = NoWork /\ y.lock = x.lock
      /\ y.nCkpt = x.nCkpt /\ x.pc = "read"
  BY <1>1 DEF Finished, Writing, Pc
<1>3. InTxn(x) /\ ~InTxn(y) /\ ~InFlight(x) /\ ~InFlight(y) /\ shm.h0.init
  BY <1>1, <1>2, AtHead DEF InTxn, Writes, Logging, Restarting, InFlight
<1>4. NoWork.todo = <<>> /\ ~NoWork.close
  BY DEF NoWork
<1>5. LinkOK(c, x, shm, log, past)
  BY AtLink
<1>6. x.lock = 0 => shm.h0.mx <= shm.nBackfill
  BY <1>3, <1>5 DEF LinkOK, DraftOK
<1>7. LinkOK(c, y, shm, log, past)
  <2>1. SaltOK(c, y, shm, log)
    BY <1>2, <1>3, <1>5 DEF LinkOK, SaltOK
  <2>2. RestOK(y, shm, log, past)
    BY <1>2, <1>3, <1>4, <1>6 DEF RestOK
  <2> QED BY <1>3, <2>1, <2>2 DEF LinkOK, FlightOK, DraftOK
<1>8. LinkInv'
  BY <1>1, <1>3, <1>7, LinkCalm DEF RecInv
<1>9. PersistInv'
  <2>1. \A d \in Conn : con'[d].w.todo = con[d].w.todo \/ con'[d].w.todo = <<>>
    BY <1>1, <1>2, <1>4 DEF Only
  <2> QED BY <1>1, <2>1, FilesTyped, PersistCalm DEF RecInv
<1> QED BY <1>8, <1>9 DEF RecInv

\* The frames of a savepoint are the first ones of the transaction.
LEMMA SavepointPrefix ==
  ASSUME TypeInv, BackInv, HeadInv, DataInv, SnapInv, RecInv, NEW c \in Conn, Writing(c),
         con[c].sp # NoSavepoint, con[c].lock # 0, con[c].sp.nCkpt = con[c].nCkpt,
         con[c].sp.mx > 0
  PROVE  /\ con[c].sp.mx \in 1..Len(con[c].hdr.sum)
         /\ con[c].sp.sum = SubSeq(con[c].hdr.sum, 1, con[c].sp.mx)
<1> DEFINE x == con[c]
           s == x.sp.sum
           t == x.hdr.sum
           n == x.sp.mx
<1>1. InTxn(x) /\ x.pc = "read" /\ shm.h0.init
  BY AtHead DEF Writing, Pc, InTxn, Writes
<1>2. LoggedOK(x, shm, log.cur) /\ SavedOK(x, shm, log.cur, file.cur, Committed)
  BY <1>1, WriterAt
<1>3. n <= x.hdr.mx /\ Len(s) = n /\ Matches(s, n, log.cur)
  BY <1>2 DEF SavedOK
<1>4. /\ s \in Seq(Entries) /\ t \in Seq(Entries) /\ n \in Nat /\ x.hdr.mx \in Nat
      /\ Len(t) \in Nat /\ n > 0
  BY WriterTypes, AtConn DEF ConnType, SpOK
<1>5. Base(x) = t /\ Len(t) = x.hdr.mx
  BY <1>1, <1>2, <1>3, <1>4 DEF Base, LoggedOK
<1>6. Matches(t, Len(t), log.cur)
  BY <1>2, <1>5 DEF LoggedOK
<1> HIDE DEF s, t, n, x
<1>7. \A f \in 1..n : t[f] = s[f]
  BY <1>3, <1>4, <1>5, <1>6, SamePrefix
<1>8. n \in 0..Len(t) /\ n \in 1..Len(t)
  BY <1>3, <1>4, <1>5
<1>9. /\ SubSeq(t, 1, n) \in Seq(Entries) /\ Len(SubSeq(t, 1, n)) = n
      /\ \A k \in 1..n : SubSeq(t, 1, n)[k] = t[k]
  BY <1>4, <1>8, PrefixAt
<1> DEFINE u == SubSeq(t, 1, n)
<1>10. u \in Seq(Entries) /\ Len(u) = Len(s) /\ \A k \in 1..Len(s) : u[k] = s[k]
  BY <1>3, <1>7, <1>9
<1> HIDE DEF u
<1>11. u = s
  BY <1>4, <1>10
<1> QED BY <1>8, <1>11 DEF s, t, n, x, u

LEMMA SavepointUndoRec ==
  ASSUME TypeInv, BackInv, HeadInv, DataInv, SnapInv, RecInv, NEW c \in Conn, SavepointUndo(c)
  PROVE  RecInv'
<1> DEFINE x == con[c]
           y == con'[c]
           mx == UndoFrame(x)
<1>1. /\ Only(c) /\ UNCHANGED <<log, file, past>> /\ Writing(c) /\ x.excl = {WRITE}
      /\ x.sp # NoSavepoint
      /\ y.pc = "read" /\ y.lock = x.lock /\ y.excl = x.excl /\ y.nCkpt = x.nCkpt /\ y.w = x.w
      /\ (~(mx < x.hdr.mx) => y.hdr = x.hdr)
      /\ mx < x.hdr.mx => y.hdr.mx = mx /\ y.hdr.salt = x.hdr.salt /\ y.hdr.sum = x.sp.sum
      /\ shm'.h0 = shm.h0 /\ shm'.nBackfill = shm.nBackfill
  BY SavepointUndoEffect
<1>2. x.pc = "read" /\ InTxn(x) /\ InTxn(y) /\ Writes(x) /\ ~InFlight(x) /\ ~InFlight(y)
  BY <1>1 DEF Writing, Pc, InTxn, Writes, InFlight
<1>3. /\ shm.h0.init /\ shm.h0.mx <= x.hdr.mx
      /\ IF x.sp.nCkpt = x.nCkpt THEN shm.h0.mx <= x.sp.mx ELSE shm.h0.mx = 0
  BY <1>1, <1>2, WriteFacts
<1>4. /\ x.hdr.mx \in Nat /\ shm.h0.mx \in Nat /\ x.sp.mx \in Nat /\ x.hdr.sum \in Seq(Entries)
      /\ Len(x.hdr.sum) \in Nat
  BY <1>1, WriterTypes, AtConn DEF ConnType, SpOK, TypeInv, ShmInv, HdrOK
<1>5. LinkOK(c, x, shm, log, past)
  BY AtLink
<1>6. DraftOK(y, shm, log)
  <2>1. CASE ~(mx < x.hdr.mx)
    <3>1. y.hdr = x.hdr /\ Base(y) = Base(x) /\ (OnLog(y) => OnLog(x))
      BY <1>1, <1>2, <2>1 DEF Base, OnLog
    <3> QED BY <1>1, <1>2, <1>3, <1>5, <3>1 DEF LinkOK, DraftOK
  <2>2. CASE mx < x.hdr.mx
    <3>1. mx \in Nat /\ x.hdr.mx > 0 /\ y.hdr.mx = mx /\ y.hdr.salt = x.hdr.salt
          /\ y.hdr.sum = x.sp.sum /\ shm.h0.mx <= mx
      BY <1>1, <1>3, <1>4, <2>2 DEF UndoFrame
    <3>2. x.lock = 0 => x.hdr = shm.h0
      BY <1>1, <1>2, <1>3, WriterAt DEF PhaseOK
    <3>3. x.lock # 0
      BY <1>4, <2>2, <3>1, <3>2
    <3>4. OnLog(x) /\ Base(x) = x.hdr.sum
      BY <1>2, <3>1, <3>3 DEF OnLog, Base
    <3>5. /\ x.hdr.salt = log.cur.salt /\ log.cur.salt > 0 /\ OneHeader(log)
          /\ Chained(x.hdr.sum, log.cur) /\ Quiet(x.hdr.sum, shm.h0.mx, Len(x.hdr.sum))
          /\ (x.nCkpt > 0 => x.hdr.salt = shm.h0.salt)
          /\ (shm.h0.mx = 0 => Text(log.cur) = <<>>)
          /\ \A k \in DOMAIN x.w.todo : x.w.todo[k].n > 0 <=> (x.w.commit /\ k = Len(x.w.todo))
          /\ x.w.commit => x.w.todo # <<>>
      BY <1>2, <1>3, <1>5, <3>3, <3>4 DEF LinkOK, DraftOK
    <3>6. Chained(Base(y), log.cur) /\ Quiet(Base(y), shm.h0.mx, Len(Base(y)))
      <4>1. CASE mx = 0
        <5>1. Base(y) = <<>> /\ Len(<<>>) = 0
          BY <1>1, <3>1, <4>1 DEF Base
        <5> QED BY <1>4, <5>1 DEF Chained, Quiet
      <4>2. CASE mx # 0
        <5>1. x.sp.nCkpt = x.nCkpt /\ x.sp.mx = mx
          BY <4>2 DEF UndoFrame
        <5>2. mx \in 1..Len(x.hdr.sum) /\ x.sp.sum = SubSeq(x.hdr.sum, 1, mx)
          BY <1>1, <3>1, <3>3, <4>2, <5>1, SavepointPrefix
        <5>3. Base(y) = SubSeq(x.hdr.sum, 1, mx)
          BY <1>1, <3>1, <3>3, <4>2, <5>2 DEF Base
        <5> DEFINE t == x.hdr.sum
                   u == SubSeq(t, 1, mx)
        <5>4. mx \in 0..Len(t) /\ mx <= Len(t) /\ t \in Seq(Entries) /\ Len(t) \in Nat
          BY <1>4, <5>2
        <5> HIDE DEF mx, t
        <5>5. /\ u \in Seq(Entries) /\ Len(u) = mx /\ \A k \in 1..mx : u[k] = t[k]
              /\ \A k \in 0..mx : SubSeq(u, 1, k) = SubSeq(t, 1, k)
          BY <5>4, PrefixAt
        <5>6. Chained(t, log.cur) /\ Quiet(t, shm.h0.mx, Len(t))
          BY <3>5 DEF t
        <5> HIDE DEF u
        <5>7. Chained(u, log.cur)
          <6>1. ASSUME NEW i \in 1..mx
                PROVE  i \in 1..Len(t) /\ SubSeq(u, 1, i) = SubSeq(t, 1, i)
            BY <3>1, <5>4, <5>5
          <6>2. \A i \in 1..mx : FrameOf(log.cur, i) = Frame(log.cur.salt, SubSeq(t, 1, i))
            BY <5>6, <6>1 DEF Chained
          <6>3. \A i \in 1..mx : FrameOf(log.cur, i) = Frame(log.cur.salt, SubSeq(u, 1, i))
            BY <6>1, <6>2
          <6> QED BY <5>5, <6>3 DEF Chained
        <5>8. Quiet(u, shm.h0.mx, Len(u))
          <6>1. ASSUME NEW i \in (shm.h0.mx + 1)..mx
                PROVE  i \in (shm.h0.mx + 1)..Len(t) /\ i \in 1..mx
            BY <1>4, <3>1, <5>4
          <6> QED BY <5>5, <5>6, <6>1 DEF Quiet
        <5> QED BY <5>3, <5>7, <5>8 DEF u, t
      <4> QED BY <4>1, <4>2
    <3>7. y.hdr.mx = 0 => SaltFit(y.hdr.salt, log)
      BY <1>4, <3>1, <3>5 DEF SaltFit
    <3> QED BY <1>1, <1>2, <3>1, <3>3, <3>5, <3>6, <3>7 DEF DraftOK
  <2> QED BY <2>1, <2>2
<1> QED BY <1>1, <1>2, <1>6, TxnStep

\* The log is made durable, and the copying begins.
LEMMA CkptGoRec ==
  ASSUME OneWriter, TypeInv, BackInv, DataInv, RecInv, NEW c \in Conn, CkptLock0(c),
         shm.nBackfill < con[c].w.safe, ExclFree(c, {READ(0)})
  PROVE  RecInv'
<1> DEFINE x == con[c]
           y == con'[c]
<1>1. Only(c) /\ UNCHANGED <<shm, file, past>> /\ x.pc = "ckptLock0"
  BY CkptLock0Effect
<1>2. log' = SyncedLog(log) /\ con'[c].pc = "ckptWrite"
  <2>1. log' = SyncedLog(log)
    BY DEF CkptLock0, SyncForCkpt
  <2>2. con'[c].pc # "ckptEnd"
    <3> DEFINE z == [Goto(con[c], "ckptWrite") EXCEPT
                          !.excl = @ \cup {READ(0)},
                          !.w.iter = [f \in 1..MaxFrame |->
                                        IF f > shm.nBackfill /\ f <= con[c].w.safe
                                           /\ con[c].w.iter[f] <= con[c].hdr.n
                                        THEN con[c].w.iter[f] ELSE 0]]
    <3>1. con' = [con EXCEPT ![c] = z]
      BY DEF CkptLock0, Put
    <3>2. z.pc = "ckptWrite"
      BY AtConn DEF Goto, ConnType, ConnFields
    <3> HIDE DEF z
    <3>3. con'[c] = z
      BY <3>1, StepOf
    <3> QED BY <3>2, <3>3
  <2>3. con'[c].pc \in {"ckptEnd", "ckptWrite"}
    BY CkptLock0Effect
  <2> QED BY <2>1, <2>2, <2>3
<1>3. \A f \in WorkFields \ {"iter"} : y.w[f] = x.w[f]
  BY <1>2, CkptLock0Effect
<1>4. y.w.todo = x.w.todo /\ (y.w.close <=> x.w.close) /\ y.w.safe = x.w.safe
  BY <1>3 DEF WorkFields
<1>5. /\ shm.h0.init /\ x.hdr = shm.h0 /\ x.w.safe <= shm.h0.mx /\ x.w.safe \in Nat
      /\ shm.nBackfill \in Nat /\ shm.h0.mx \in Nat
  <2>1. shm.h0.init /\ x.hdr = shm.h0 /\ x.w.safe <= x.hdr.mx
    BY <1>1, InCopy DEF Copying, HdrsAgree
  <2>2. x.w.safe \in Nat /\ x.hdr.mx \in Nat
    BY AtConn DEF ConnType, WorkOK, HdrOK
  <2>3. shm.nBackfill \in Nat
    BY DEF TypeInv, ShmInv
  <2> QED BY <2>1, <2>2, <2>3
<1>6. shm.nBackfill < shm.h0.mx /\ shm.h0.mx > 0
  <2> HIDE DEF x
  <2> QED BY <1>5 DEF x
<1>7. ~InTxn(x) /\ ~InTxn(y) /\ x.w.todo = <<>> /\ ~InFlight(x) /\ ~InFlight(y)
  BY <1>1, <1>2, NotInTxn, NotFlying, AtLink
<1>8. log'.cur = log.cur /\ log'.dur = log.cur /\ ~log'.new
  BY <1>2, SyncedIs
<1>9. PersistInv' /\ OneHeader(log') /\ Text(log'.dur) = Text(log'.cur)
  <2>1. \A d \in Conn : con'[d].w.todo = con[d].w.todo
    BY <1>1, <1>4 DEF Only
  <2> QED BY <1>1, <1>2, <2>1, PersistSynced DEF RecInv
<1>10. ASSUME NEW d \in Conn \ {c}
       PROVE  LinkOK(d, con'[d], shm', log', past') /\ ~InFlight(con'[d]) /\ con'[d] = con[d]
  <2>1. LinkOK(d, con'[d], shm', log', past') /\ ~InFlight(con'[d])
    BY <1>1, <1>5, OthersKeep
  <2> QED BY <1>1, <2>1 DEF Only
<1>11. ~Flying' /\ ~Flying
  BY <1>7, <1>10 DEF Flying
<1>12. LatestOK'
  <2>1. /\ Pictured(Text(log.cur), file.cur, Committed) /\ Text(log.cur) = shm.h0.sum
        /\ shm.h0.salt = log.cur.salt /\ log.cur.salt > 0
    BY <1>5, <1>6, <1>11 DEF RecInv, LinkInv, LatestOK
  <2> QED BY <1>1, <1>5, <1>6, <1>8, <1>9, <2>1 DEF LatestOK, Committed
<1>13. SyncedOK'
  BY <1>9 DEF SyncedOK
<1>14. LinkOK(c, y, shm', log', past')
  <2>1. FlightOK(y, shm', log', past') /\ DraftOK(y, shm', log') /\ SaltOK(c, y, shm', log')
    BY <1>1, <1>5, <1>6, <1>7 DEF FlightOK, DraftOK, SaltOK
  <2>2. y.w.close => y.w.safe = shm.h0.mx
    BY <1>1, <1>4, AtLink DEF LinkOK, RestOK
  <2>3. RestOK(y, shm', log', past')
    BY <1>1, <1>2, <1>4, <1>7, <1>8, <1>9, <2>2 DEF RestOK
  <2> QED BY <2>1, <2>3 DEF LinkOK
<1> QED
  <2>1. \A d \in Conn : LinkOK(d, con'[d], shm', log', past')
    BY <1>10, <1>14
  <2> QED BY <1>9, <1>12, <1>13, <2>1 DEF RecInv, LinkInv

LEMMA CkptLock0Rec ==
  ASSUME OneWriter, TypeInv, BackInv, DataInv, RecInv, NEW c \in Conn, CkptLock0(c)
  PROVE  RecInv'
BY CkptLeaveRec, CkptGoRec

\* While a page is copied.
PageCopied(c) ==
  LET x == con[c]
      y == con'[c]
      new == file'.cur
  IN
  /\ Only(c) /\ UNCHANGED <<shm, log, past>> /\ x.pc = "ckptWrite" /\ y.pc = "ckptWrite"
  /\ file'.dur = file.dur /\ y.w.todo = x.w.todo /\ (y.w.close <=> x.w.close)
  /\ y.w.safe = x.w.safe /\ y.nCkpt = x.nCkpt
  /\ \E p \in 1..MaxPage, v \in Int : Wrote(new, file.cur, p, v) /\ ~Absent(Eff(shm.h0), p)
  /\ Len(new) \in 1..MaxPage

LEMMA CkptWriteFacts ==
  ASSUME TypeInv, BackInv, DataInv, SnapInv, RecInv, NEW c \in Conn, CkptWrite(c)
  PROVE  PageCopied(c) /\ shm.h0.init /\ shm.h0.mx > 0
<1> DEFINE x == con[c]
           y == con'[c]
           it == x.w.iter
           f == PageFrame(it)
           p == NextPage(it)
           v == PageIn(log.cur, f)
           db == file.cur
           new == file'.cur
<1>1. DOMAIN file = {"cur", "dur"} /\ db \in Images /\ it \in Pgnos
  BY DEF DataInv, FileData, ConnData
<1>2. /\ Only(c) /\ UNCHANGED <<shm, log, past>> /\ x.pc = "ckptWrite" /\ ToWrite(it) # {}
      /\ new = [k \in 1..Max({Len(db), p}) |-> IF k = p THEN v ELSE PageAt(db, k)]
      /\ y.pc = x.pc /\ file'.dur = file.dur
      /\ \A g \in WorkFields \ {"iter"} : y.w[g] = x.w[g]
      /\ y.nCkpt = x.nCkpt
  BY <1>1, CkptWriteEffect DEF ToWrite, PageFrame, NextPage
<1>3. f \in 1..MaxFrame /\ it[f] > 0 /\ it[f] = p /\ p \in Nat \ {0}
  BY <1>1, <1>2, NextPageOK
<1>4. /\ Newest(Eff(shm.h0), f, it[f]) /\ f \in 1..shm.h0.mx /\ shm.h0.mx > 0
      /\ v \in Int
  <2> HIDE DEF f
  <2> QED BY <1>2, <1>3, CopiedPage
<1>5. shm.h0.init
  BY <1>2, InCopy DEF Copying, HdrsAgree
<1>6. y.w.todo = x.w.todo /\ (y.w.close <=> x.w.close) /\ y.w.safe = x.w.safe
  BY <1>2 DEF WorkFields
<1>7. Len(db) \in 1..MaxPage
  BY DEF RecInv, PersistInv, NumInv
<1> HIDE DEF f, p, v, db, it, new, x, y
<1>8. Wrote(new, db, p, v)
  BY <1>1, <1>2, <1>3, <1>4, WroteOne
<1>9. p \in 1..MaxPage
  <2>1. it[f] \in 0..MaxPage
    BY <1>1, <1>3 DEF Pgnos
  <2> QED BY <1>3, <2>1
<1>10. ~Absent(Eff(shm.h0), p)
  BY <1>3, <1>4 DEF Newest, Absent
<1>11. Len(new) \in 1..MaxPage
  <2> DEFINE n == Max({Len(db), p})
  <2>1. n \in {Len(db), p}
    <3> DEFINE k == Len(db)
    <3>1. k \in Int /\ p \in Int
      BY <1>3, <1>7
    <3> HIDE DEF k
    <3>2. Max({k, p}) \in {k, p}
      BY <3>1, MaxTwo
    <3> QED BY <3>2 DEF k
  <2> HIDE DEF n
  <2>2. n \in 1..MaxPage
    BY <1>7, <1>9, <2>1
  <2>3. Len(new) = n
    BY <1>2, <2>2 DEF n
  <2> QED BY <2>2, <2>3
<1> QED BY <1>2, <1>4, <1>5, <1>6, <1>8, <1>9, <1>10, <1>11 DEF PageCopied, x, y, new, db

LEMMA CkptWriteRec ==
  ASSUME OneWriter, TypeInv, BackInv, DataInv, HeadInv, SnapInv, RecInv, DataInv', SnapInv',
         NEW c \in Conn, CkptWrite(c)
  PROVE  RecInv'
<1> DEFINE x == con[c]
           y == con'[c]
           s == shm.h0.sum
           new == file'.cur
<1>1. PageCopied(c) /\ shm.h0.init /\ shm.h0.mx > 0
  BY CkptWriteFacts
<1>2. /\ Only(c) /\ UNCHANGED <<shm, log, past>> /\ x.pc = "ckptWrite" /\ y.pc = "ckptWrite"
      /\ file'.dur = file.dur /\ y.w.todo = x.w.todo /\ (y.w.close <=> x.w.close)
      /\ y.w.safe = x.w.safe /\ y.nCkpt = x.nCkpt /\ Len(new) \in 1..MaxPage
  BY <1>1 DEF PageCopied
<1>3. ~InTxn(x) /\ ~InTxn(y) /\ x.w.todo = <<>> /\ ~InFlight(x) /\ ~InFlight(y)
  BY <1>2, NotInTxn, NotFlying, AtLink
<1>4. OneHeader(log) /\ log.cur = log.dur
  BY <1>2, AtLink DEF LinkOK, RestOK
<1>5. ASSUME NEW d \in Conn \ {c}
      PROVE  LinkOK(d, con'[d], shm', log', past') /\ ~InFlight(con'[d]) /\ con'[d] = con[d]
  <2>1. LinkOK(d, con'[d], shm', log', past') /\ ~InFlight(con'[d])
    BY <1>1, <1>2, OthersKeep
  <2> QED BY <1>2, <2>1 DEF Only
<1>6. ~Flying' /\ ~Flying
  BY <1>3, <1>5 DEF Flying
<1>7. Text(log.cur) = s /\ Text(log.dur) = s /\ s \in Sums /\ Eff(shm.h0) = s
  <2>1. Text(log.cur) = s
    BY <1>1, <1>6 DEF RecInv, LinkInv, LatestOK
  <2> QED BY <1>1, <1>4, <2>1 DEF TypeInv, ShmInv, HdrOK, Eff
<1>8. Pictured(s, new, Committed) /\ s # <<>>
  <2>1. Common(shm', log'.cur, file'.cur, Committed')
    BY <1>1, <1>2 DEF SnapInv
  <2>2. Common(shm, log.cur, new, Committed)
    BY <1>2, <2>1 DEF Committed
  <2>3. shm.h0.mx \in Nat
    BY DEF TypeInv, ShmInv, HdrOK
  <2> QED BY <1>1, <1>7, <2>2, <2>3, HeadPicture
<1>9. new \in Images /\ log.cur \in Logs /\ Committed \in Images
  BY FilesTyped DEF DataInv, FileData
<1>10. PersistInv'
  <2>1. StoryInv'
    <3>1. \A d \in Conn : con'[d].w.todo = con[d].w.todo
      BY <1>2 DEF Only
    <3>2. Gone' = Gone
      BY <1>2, <3>1 DEF Gone
    <3> QED BY <1>2, <3>2 DEF RecInv, PersistInv, StoryInv
  <2>2. NumInv'
    <3>1. \A d \in Conn : con'[d].w.todo = con[d].w.todo
      BY <1>2 DEF Only
    <3> QED BY <1>2, <3>1 DEF RecInv, PersistInv, NumInv
  <2>3. Pictures(log, new, past)
    <3>1. Len(s) \in Nat
      BY <1>7 DEF Sums
    <3>2. (Len(s))..(Len(s) - 1) = {}
      BY <3>1
    <3> QED BY <1>7, <3>2 DEF Pictures
  <2>4. FilesAgree(log, file')
    <3>1. PICK p \in 1..MaxPage, v \in Int : Wrote(new, file.cur, p, v) /\ ~Absent(s, p)
      BY <1>1, <1>7 DEF PageCopied
    <3>2. FilesAgree(log, file)
      BY <1>4 DEF RecInv, PersistInv, OneHdr
    <3>3. ASSUME NEW q \in 1..MaxPage
          PROVE  PageAt(new, q) = PageAt(file.dur, q) \/ ~Absent(s, q)
      <4>1. CASE q = p
        BY <3>1, <4>1
      <4>2. CASE q # p
        <5>1. PageAt(new, q) = PageAt(file.cur, q)
          <6>1. q \in Nat \ {0}
            BY Constants
          <6> QED BY <3>1, <4>2, <6>1 DEF Wrote
        <5>2. PageAt(file.cur, q) = PageAt(file.dur, q) \/ ~Absent(s, q)
          BY <1>7, <3>2 DEF FilesAgree
        <5> QED BY <5>1, <5>2
      <4> QED BY <4>1, <4>2
    <3> QED BY <1>2, <1>7, <1>8, <3>3 DEF FilesAgree
  <2>5. OneHdr' /\ TwoHdr'
    BY <1>2, <1>4, <2>3, <2>4 DEF OneHdr, TwoHdr
  <2>6. RecoveredImage(log.cur, new) = Committed /\ Committed # NoImage
    BY <1>2, <1>7, <1>8, <1>9, PictureIs, PictureSome
  <2>7. Recoverable'
    BY <1>2, <2>6 DEF Recoverable, Committed
  <2> QED BY <2>1, <2>2, <2>5, <2>7 DEF PersistInv
<1>11. LatestOK'
  <2>1. ~(shm.h0.mx <= shm.nBackfill)
    <3>1. CkptOK(x, shm, file.cur, Committed)
      BY <1>1, SnapAt
    <3>2. x.w.safe <= x.hdr.mx /\ x.hdr = shm.h0
      BY <1>2, InCopy DEF Copying
    <3>3. shm.nBackfill < x.w.safe
      BY <1>2, <3>1 DEF CkptOK
    <3>4. shm.nBackfill \in Nat /\ x.w.safe \in Nat /\ shm.h0.mx \in Nat
      BY AtConn DEF TypeInv, ShmInv, ConnType, WorkOK, HdrOK
    <3> HIDE DEF x
    <3> QED BY <3>2, <3>3, <3>4
  <2>2. shm.h0.salt = log.cur.salt /\ log.cur.salt > 0
    BY <1>1 DEF RecInv, LinkInv, LatestOK
  <2> QED BY <1>2, <1>4, <1>7, <1>8, <2>1, <2>2 DEF LatestOK, Committed
<1>12. SyncedOK'
  BY <1>2, <1>4 DEF SyncedOK
<1>13. LinkOK(c, y, shm', log', past')
  <2>1. FlightOK(y, shm', log', past') /\ DraftOK(y, shm', log') /\ SaltOK(c, y, shm', log')
    BY <1>1, <1>2, <1>3 DEF FlightOK, DraftOK, SaltOK
  <2>2. y.w.close => y.w.safe = shm.h0.mx
    BY <1>2, AtLink DEF LinkOK, RestOK
  <2>3. RestOK(y, shm', log', past')
    BY <1>2, <1>3, <1>4, <2>2 DEF RestOK
  <2> QED BY <2>1, <2>3 DEF LinkOK
<1> QED
  <2>1. \A d \in Conn : LinkOK(d, con'[d], shm', log', past')
    BY <1>5, <1>13
  <2> QED BY <1>10, <1>11, <1>12, <2>1 DEF RecInv, LinkInv

\* The end of the copying: the backfill count, and when all is copied the file is synced.
LEMMA CkptDoneFacts ==
  ASSUME TypeInv, BackInv, DataInv, SnapInv, RecInv, NEW c \in Conn, CkptDone(c)
  PROVE  LET x == con[c]
             y == con'[c]
         IN
         /\ Only(c) /\ UNCHANGED <<log, past>> /\ x.pc = "ckptWrite" /\ y.pc = "ckptEnd"
         /\ shm'.h0 = shm.h0 /\ shm'.nBackfill = x.w.safe /\ y.w = x.w
         /\ shm.h0.init /\ shm.h0.mx > 0 /\ shm.h0.mx \in Nat /\ x.w.safe <= shm.h0.mx
         /\ shm.nBackfill < shm.h0.mx /\ x.w.safe \in Nat
         /\ (x.w.close => x.w.safe = shm.h0.mx) /\ OneHeader(log) /\ log.cur = log.dur
         /\ \/ x.w.safe # shm.h0.mx /\ file' = file
            \/ /\ x.w.safe = shm.h0.mx /\ file'.dur = file'.cur
               /\ file'.cur = [k \in 1..shm.h0.n |-> PageAt(file.cur, k)]
<1> DEFINE x == con[c]
           y == con'[c]
<1>1. /\ Only(c) /\ UNCHANGED <<log, past>> /\ x.pc = "ckptWrite" /\ y.pc = "ckptEnd"
      /\ shm'.h0 = shm.h0 /\ shm'.nBackfill = x.w.safe /\ y.w = x.w
      /\ \/ x.w.safe # shm.h0.mx /\ file' = file
         \/ /\ x.w.safe = shm.h0.mx /\ file'.dur = file'.cur
            /\ file'.cur = [k \in 1..x.hdr.n |-> PageAt(file.cur, k)]
  <2>1. DOMAIN file = {"cur", "dur"}
    BY DEF DataInv, FileData
  <2> QED BY <2>1, CkptDoneEffect DEF Moved
<1>2. shm.h0.init /\ x.hdr = shm.h0 /\ x.w.safe <= shm.h0.mx
  BY <1>1, InCopy DEF Copying, HdrsAgree
<1>3. x.w.safe \in Nat /\ shm.h0.mx \in Nat
  BY AtConn DEF ConnType, WorkOK, HdrOK
<1>4. shm.nBackfill \in Nat
  BY DEF TypeInv, ShmInv
<1>5. shm.nBackfill < x.w.safe
  <2>1. CkptOK(x, shm, file.cur, Committed)
    BY <1>2, SnapAt
  <2> QED BY <1>1, <2>1 DEF CkptOK
<1>6. shm.nBackfill < shm.h0.mx /\ shm.h0.mx > 0
  <2> HIDE DEF x
  <2> QED BY <1>2, <1>3, <1>4, <1>5
<1>7. (x.w.close => x.w.safe = shm.h0.mx) /\ OneHeader(log) /\ log.cur = log.dur
  BY <1>1, AtLink DEF LinkOK, RestOK
<1> QED BY <1>1, <1>2, <1>3, <1>6, <1>7

\* The connections after the copying.
LEMMA CkptDoneLinks ==
  ASSUME OneWriter, TypeInv, BackInv, DataInv, SnapInv, RecInv, NEW c \in Conn, CkptDone(c)
  PROVE  ~Flying' /\ ~Flying /\ \A d \in Conn : LinkOK(d, con'[d], shm', log', past')
<1> DEFINE x == con[c]
           y == con'[c]
<1>1. /\ Only(c) /\ UNCHANGED <<log, past>> /\ x.pc = "ckptWrite" /\ y.pc = "ckptEnd"
      /\ shm'.h0 = shm.h0 /\ shm'.nBackfill = x.w.safe /\ y.w = x.w
      /\ shm.h0.init /\ shm.h0.mx > 0 /\ shm.h0.mx \in Nat /\ x.w.safe <= shm.h0.mx
      /\ shm.nBackfill < shm.h0.mx /\ x.w.safe \in Nat
      /\ (x.w.close => x.w.safe = shm.h0.mx)
  BY CkptDoneFacts
<1>2. ~InTxn(x) /\ ~InTxn(y) /\ x.w.todo = <<>> /\ ~InFlight(x) /\ ~InFlight(y)
  BY <1>1, NotInTxn, NotFlying, AtLink
<1>3. ASSUME NEW d \in Conn \ {c}
      PROVE  LinkOK(d, con'[d], shm', log', past') /\ ~InFlight(con'[d]) /\ con'[d] = con[d]
  <2>1. ~(con[d].pc = "read" /\ con[d].lock = 0 /\ con[d].hdr = shm.h0)
    <3>1. RestOK(con[d], shm, log, past)
      BY AtLink DEF LinkOK
    <3>2. ~(shm.h0.mx <= shm.nBackfill)
      <4>1. shm.nBackfill \in Nat
        BY DEF TypeInv, ShmInv
      <4> QED BY <1>1, <4>1
    <3> QED BY <1>1, <3>1, <3>2 DEF RestOK
  <2>2. LinkOK(d, con'[d], shm', log', past') /\ ~InFlight(con'[d])
    BY <1>1, <2>1, OthersRec
  <2> QED BY <1>1, <2>2 DEF Only
<1>4. ~Flying' /\ ~Flying
  BY <1>2, <1>3 DEF Flying
<1>5. FlightOK(y, shm', log', past') /\ DraftOK(y, shm', log') /\ SaltOK(c, y, shm', log')
  BY <1>1, <1>2 DEF FlightOK, DraftOK, SaltOK
<1>6. y.w.close => shm'.h0.mx <= shm'.nBackfill
  BY <1>1
<1>7. RestOK(y, shm', log', past')
  BY <1>1, <1>2, <1>6 DEF RestOK
<1>8. LinkOK(c, y, shm', log', past')
  BY <1>5, <1>7 DEF LinkOK
<1> QED BY <1>3, <1>4, <1>8

\* A file to which everything is copied, cut to its size, is the committed image.
LEMMA SettledFile ==
  ASSUME TypeInv, NEW s, NEW l, NEW db \in Images, NEW img \in Images, Common(s, l, db, img),
         s.h0.mx > 0, s.h0.mx \in Nat, s.h0.sum \in Sums, s.nBackfill = s.h0.mx,
         Len(db) = s.h0.n
  PROVE  db = img
<1>1. /\ Sound(s.h0) /\ Len(img) = SizeOf(s.h0, db) /\ Shows(s.h0.sum, db, img)
      /\ Filled(s.h0.sum, s.h0.mx, db, img)
  BY DEF Common, Held, Eff
<1>2. Len(s.h0.sum) = s.h0.mx /\ s.h0.n > 0
  BY <1>1 DEF Sound
<1>3. Len(img) = Len(db)
  BY <1>1, <1>2 DEF SizeOf
<1>4. s.h0.sum \in Seq(Entries)
  BY DEF Sums
<1>5. Shows(<<>>, db, img)
  <2> DEFINE t == s.h0.sum
             k == s.h0.mx
  <2>1. t \in Seq(Entries) /\ k \in Int /\ Len(t) <= k /\ Shows(t, db, img) /\ Filled(t, k, db, img)
    BY <1>1, <1>2, <1>4
  <2> HIDE DEF t, k
  <2> QED BY <2>1, Backfilled
<1>6. Pictured(<<>>, db, img)
  BY <1>3, <1>5 DEF Pictured
<1> QED BY <1>6, EmptyPicture

LEMMA CkptDoneRec ==
  ASSUME OneWriter, TypeInv, BackInv, DataInv, SnapInv, RecInv, DataInv', SnapInv',
         NEW c \in Conn, CkptDone(c)
  PROVE  RecInv'
<1> DEFINE x == con[c]
           y == con'[c]
           s == shm.h0.sum
           new == file'.cur
<1>1. /\ Only(c) /\ UNCHANGED <<log, past>> /\ x.pc = "ckptWrite" /\ y.pc = "ckptEnd"
      /\ shm'.h0 = shm.h0 /\ shm'.nBackfill = x.w.safe /\ y.w = x.w
      /\ shm.h0.init /\ shm.h0.mx > 0 /\ shm.h0.mx \in Nat /\ x.w.safe <= shm.h0.mx
      /\ x.w.safe \in Nat /\ OneHeader(log) /\ log.cur = log.dur
      /\ \/ x.w.safe # shm.h0.mx /\ file' = file
         \/ /\ x.w.safe = shm.h0.mx /\ file'.dur = new
            /\ new = [k \in 1..shm.h0.n |-> PageAt(file.cur, k)]
  BY CkptDoneFacts
<1>2. ~Flying' /\ ~Flying /\ \A d \in Conn : LinkOK(d, con'[d], shm', log', past')
  BY CkptDoneLinks
<1>3. Text(log.cur) = s /\ Text(log.dur) = s /\ s \in Sums
      /\ shm.h0.salt = log.cur.salt /\ log.cur.salt > 0
  <2>1. Text(log.cur) = s /\ shm.h0.salt = log.cur.salt /\ log.cur.salt > 0
    BY <1>1, <1>2 DEF RecInv, LinkInv, LatestOK
  <2> QED BY <1>1, <2>1 DEF TypeInv, ShmInv, HdrOK
<1>4. \A d \in Conn : con'[d].w.todo = con[d].w.todo
  BY <1>1 DEF Only
<1>5. Common(shm', log.cur, new, Committed)
  <2>1. Common(shm', log'.cur, file'.cur, Committed')
    BY <1>1 DEF SnapInv
  <2> QED BY <1>1, <2>1 DEF Committed
<1>6. Pictured(s, new, Committed) /\ s # <<>>
  <2> DEFINE t == shm'
  <2>1. t.h0.mx > 0 /\ t.h0.mx \in Nat /\ t.h0.sum \in Sums /\ t.h0.sum = s
        /\ Common(t, log.cur, new, Committed)
    BY <1>1, <1>3, <1>5
  <2> HIDE DEF t
  <2> QED BY <2>1, HeadPicture
<1>7. new \in Images /\ log.cur \in Logs /\ Committed \in Images
  BY FilesTyped DEF DataInv, FileData
<1>8. SyncedOK'
  BY <1>1 DEF SyncedOK
<1>9. CASE x.w.safe # shm.h0.mx /\ file' = file
  <2>1. PersistInv'
    <3>1. past.salt \in Nat /\ past.salt <= past.salt
      BY DEF TypeInv, PastInv
    <3> QED BY <1>1, <1>4, <1>9, <3>1, PersistCalm DEF RecInv
  <2>2. ~(shm'.h0.mx <= shm'.nBackfill)
    <3> HIDE DEF x
    <3> QED BY <1>1, <1>9
  <2>3. LatestOK'
    BY <1>1, <1>2, <1>3, <1>6, <2>2 DEF LatestOK, Committed
  <2> QED BY <1>2, <1>8, <2>1, <2>3 DEF RecInv, LinkInv
<1>10. CASE /\ x.w.safe = shm.h0.mx /\ file'.dur = new
            /\ new = [k \in 1..shm.h0.n |-> PageAt(file.cur, k)]
  <2>1. shm.h0.n \in Nat /\ shm.h0.n > 0 /\ Len(new) = shm.h0.n
    <3>1. shm.h0.n \in Nat
      BY DEF DataInv, ShmData, HdrData
    <3>2. shm.h0.n > 0
      BY <1>1, <1>5 DEF Common, Held, Sound
    <3> QED BY <1>10, <3>1, <3>2
  <2>2. new = Committed
    <3> DEFINE t == shm'
    <3>1. t.h0.mx > 0 /\ t.h0.mx \in Nat /\ t.h0.sum \in Sums /\ t.nBackfill = t.h0.mx
          /\ Len(new) = t.h0.n /\ Common(t, log.cur, new, Committed)
      BY <1>1, <1>3, <1>5, <1>10, <2>1
    <3> HIDE DEF t, new
    <3> QED BY <1>7, <3>1, SettledFile
  <2>3. Len(new) \in 1..MaxPage
    <3>1. Len(new) = Len(Committed) /\ Len(Committed) = Last(s).n
      BY <1>6, <2>2 DEF Pictured
    <3>2. Last(s).n \in 0..MaxPage
      BY <1>3, <1>6, SumLast, EntryFields
    <3> HIDE DEF new, s
    <3> QED BY <2>1, <3>1, <3>2, Constants
  <2>4. StoryInv'
    <3>1. Gone' = Gone
      BY <1>1, <1>4 DEF Gone
    <3> QED BY <1>1, <3>1 DEF RecInv, PersistInv, StoryInv
  <2>5. NumInv'
    <3>1. /\ \A l \in {log'.cur, log'.dur}, i \in 1..MaxFrame : FrameNum(FrameOf(l, i), past')
          /\ \A d \in Conn : \A k \in DOMAIN con'[d].w.todo : con'[d].w.todo[k].ver = past'.ver
          /\ past'.full \in FullSync
      <4>1. log' = log /\ past' = past
        BY <1>1
      <4>2. /\ \A l \in {log.cur, log.dur}, i \in 1..MaxFrame : FrameNum(FrameOf(l, i), past)
            /\ \A d \in Conn : \A k \in DOMAIN con[d].w.todo : con[d].w.todo[k].ver = past.ver
            /\ past.full \in FullSync
        BY DEF RecInv, PersistInv, NumInv
      <4> QED BY <1>4, <4>1, <4>2
    <3>2. Len(file'.cur) \in 1..MaxPage /\ Len(file'.dur) \in 1..MaxPage
      BY <1>10, <2>3
    <3> QED BY <3>1, <3>2 DEF NumInv
  <2>6. Pictures(log, new, past)
    <3>1. Len(s) \in Nat
      BY <1>3 DEF Sums
    <3>2. (Len(s))..(Len(s) - 1) = {}
      BY <3>1
    <3> QED BY <1>3, <3>2 DEF Pictures
  <2>7. FilesAgree(log, file')
    BY <1>10 DEF FilesAgree
  <2>8. OneHdr' /\ TwoHdr'
    BY <1>1, <2>6, <2>7 DEF OneHdr, TwoHdr
  <2>9. RecoveredImage(log.cur, new) = Committed /\ Committed # NoImage
    <3>1. Len(new) > 0
      BY <2>1
    <3> HIDE DEF new, s
    <3> QED BY <1>3, <1>6, <1>7, <3>1, PictureIs, PictureSome
  <2>10. Recoverable'
    BY <1>1, <2>9 DEF Recoverable, Committed
  <2>11. LatestOK'
    BY <1>1, <1>2, <1>3, <1>6, <1>10, <2>2 DEF LatestOK, Committed, AllInFile
  <2> QED BY <1>2, <1>8, <2>4, <2>5, <2>8, <2>10, <2>11 DEF RecInv, LinkInv, PersistInv
<1> QED BY <1>1, <1>9, <1>10

-----------------------------------------------------------------------------
(* The end of the last connection, and the deaths.                            *)

\* When no connection is left, nobody knows anything of the files.
LEMMA AllClosedLink ==
  ASSUME AllClosed'
  PROVE  /\ LatestOK' /\ ~Flying' /\ ~shm'.h0.init
         /\ \A c \in Conn : LinkOK(c, con'[c], shm', log', past') /\ con'[c].w.todo = <<>>
<1>1. shm' = EmptyShm /\ \A c \in Conn : con'[c] = Closed
  BY DEF AllClosed
<1>2. ~shm'.h0.init
  BY <1>1 DEF EmptyShm, NoHdr, Hdr
<1>3. Closed.pc = "closed" /\ Closed.w = NoWork /\ Closed.nCkpt = 0 /\ Closed.w.todo = <<>> /\ ~Closed.w.close
  BY DEF Closed, Connected, NoWork
<1>4. ~InTxn(Closed) /\ ~InFlight(Closed)
  BY <1>3, NotInTxn, NotFlying
<1>5. LatestOK'
  BY <1>2 DEF LatestOK
<1>6. ~Flying'
  BY <1>1, <1>4 DEF Flying
<1>7. ASSUME NEW c \in Conn PROVE LinkOK(c, con'[c], shm', log', past') /\ con'[c].w.todo = <<>>
  <2>1. con'[c] = Closed
    BY <1>1
  <2>2. FlightOK(Closed, shm', log', past') /\ DraftOK(Closed, shm', log')
    BY <1>2 DEF FlightOK, DraftOK
  <2>3. SaltOK(c, Closed, shm', log')
    BY <1>2, <1>3 DEF SaltOK
  <2>4. RestOK(Closed, shm', log', past')
    BY <1>2, <1>3 DEF RestOK
  <2> QED BY <1>3, <2>1, <2>2, <2>3, <2>4 DEF LinkOK
<1> QED BY <1>2, <1>5, <1>6, <1>7

LEMMA NoLogIs ==
  /\ NoLog \in Logs /\ NoLog.salt = 0 /\ Text(NoLog) = <<>>
  /\ \A i \in Nat \ {0} : FrameOf(NoLog, i) = Torn
  /\ Torn.sum = <<>> /\ Torn.salt = 0
<1>1. NoLog \in Logs
  BY Constants DEF NoLog, Logs
<1>2. NoLog.salt = 0 /\ Torn.sum = <<>> /\ Torn.salt = 0
  BY DEF NoLog, Torn, Frame
<1>3. \A i \in Nat \ {0} : FrameOf(NoLog, i) = Torn
  <2>1. NoLog.frames = <<>> /\ Len(<<>>) = 0
    BY DEF NoLog
  <2> QED BY <2>1 DEF FrameOf
<1>4. 1..MaxFrame \subseteq Nat \ {0}
  BY Constants
<1>5. Text(NoLog) = <<>>
  BY <1>1, <1>2, <1>3, <1>4, TextEmpty
<1> QED BY <1>1, <1>2, <1>3, <1>5

\* What of the log survives its deletion.
LEMMA CloseFiles ==
  ASSUME TypeInv, DataInv, RecInv, NEW c \in Conn, CkptEnd(c), con[c].w.close
  PROVE  /\ AllClosed' /\ UNCHANGED <<file, past>> /\ AllInFile
         /\ log'.cur = NoLog /\ log'.dur = log.dur /\ log'.new
         /\ Pictured(Text(log.dur), file.cur, Committed)
<1> DEFINE x == con[c]
<1>1. x.pc = "ckptEnd" /\ log' = [log EXCEPT !.cur = NoLog, !.new = TRUE] /\ UNCHANGED <<file, past>>
  BY DEF CkptEnd, Pc
<1>2. log'.cur = NoLog /\ log'.dur = log.dur /\ log'.new
  BY <1>1 DEF TypeInv, LogInv
<1>3. ASSUME NEW d \in Conn \ {c} PROVE con[d] = Closed
  BY DEF TypeInv, LockInv, ConnInv, ConnOK, Phase
<1>4. AllClosed'
  <2>1. con' = [con EXCEPT ![c] = Closed] /\ shm' = EmptyShm
    BY DEF CkptEnd, Put
  <2>2. con'[c] = Closed /\ \A e \in Conn \ {c} : con'[e] = con[e]
    BY <2>1, StepOf
  <2> QED BY <1>3, <2>1, <2>2 DEF AllClosed
<1>5. shm.h0.init /\ shm.h0.mx <= shm.nBackfill
  BY <1>1, AtLink DEF LinkOK, RestOK
<1>6. ~Flying
  <2>1. ~InTxn(x) /\ ~InFlight(x)
    BY <1>1, NotInTxn, NotFlying
  <2>2. ~InFlight(Closed)
    BY DEF Closed, Connected, InFlight
  <2> QED BY <1>3, <2>1, <2>2 DEF Flying
<1>7. AllInFile /\ Pictured(Text(log.cur), file.cur, Committed)
      /\ (OneHeader(log) => Text(log.dur) = Text(log.cur))
  BY <1>5, <1>6 DEF RecInv, LinkInv, LatestOK
<1>8. CASE OneHeader(log)
  BY <1>1, <1>2, <1>4, <1>7, <1>8
<1>9. CASE ~OneHeader(log)
  <2>1. Remains(log.dur, log)
    BY DEF Remains, Mixed, FramesAt
  <2>2. Pictured(Text(log.dur), file.cur, Committed)
    BY <1>9, <2>1, FilesTyped DEF RecInv, PersistInv, TwoHdr
  <2> QED BY <1>1, <1>2, <1>4, <1>7, <2>2
<1> QED BY <1>8, <1>9

LEMMA CloseRec ==
  ASSUME TypeInv, DataInv, RecInv, NEW c \in Conn, CkptEnd(c), con[c].w.close
  PROVE  RecInv'
<1>1. /\ AllClosed' /\ UNCHANGED <<file, past>> /\ AllInFile
      /\ log'.cur = NoLog /\ log'.dur = log.dur /\ log'.new
      /\ Pictured(Text(log.dur), file.cur, Committed)
  BY CloseFiles
<1>2. LatestOK' /\ \A d \in Conn : LinkOK(d, con'[d], shm', log', past') /\ con'[d].w.todo = <<>>
  BY <1>1, AllClosedLink
<1>3. ~OneHeader(log')
  BY <1>1 DEF OneHeader
<1>4. SyncedOK'
  BY <1>3 DEF SyncedOK
<1>5. \A i \in 1..MaxFrame : FrameOf(NoLog, i) = Torn
  <2>1. 1..MaxFrame \subseteq Nat \ {0}
    BY Constants
  <2> QED BY <2>1, NoLogIs
<1>6. \A i \in 1..MaxFrame : FrameNum(FrameOf(log.dur, i), past)
  BY DEF RecInv, PersistInv, NumInv
<1>7. FrameNum(Torn, past)
  <2>1. Len(<<>>) = 0 /\ past.salt \in Nat
    BY FilesTyped
  <2> QED BY <2>1, NoLogIs DEF FrameNum
<1>8. Story(NoLog, log.dur, Gone')
  <2>1. ASSUME NEW i \in 1..MaxFrame, NEW fr \in FramesAt(NoLog, log.dur, i)
        PROVE  fr.salt # NoLog.salt \/ fr.sum = <<>>
    <3>1. FrameNum(fr, past)
      BY <1>5, <1>6, <1>7, <2>1 DEF FramesAt
    <3>2. fr.sum # <<>> => fr.salt > 0
      BY <3>1 DEF FrameNum
    <3> QED BY <3>2, NoLogIs
  <2> QED BY <2>1, StoryAnew
<1>9. StoryInv'
  BY <1>1, <1>8 DEF StoryInv
<1>10. NumInv'
  <2>1. \A l \in {log'.cur, log'.dur}, i \in 1..MaxFrame : FrameNum(FrameOf(l, i), past')
    BY <1>1, <1>5, <1>6, <1>7
  <2> QED BY <1>1, <1>2, <2>1 DEF NumInv, RecInv, PersistInv
<1>11. OneHdr'
  BY <1>3 DEF OneHdr
<1>12. TwoHdr'
  <2>1. ASSUME NEW l \in Logs, Remains(l, log') PROVE Pictured(Text(l), file.cur, Committed)
    <3>1. l = log.dur
      BY <1>1, <2>1 DEF Remains
    <3> QED BY <1>1, <3>1
  <2> QED BY <1>1, <2>1, NoLogIs DEF TwoHdr, AllInFile, Committed
<1>13. Recoverable'
  <2>1. Pictured(Text(NoLog), file.cur, Committed)
    BY <1>1, FilesTyped, EmptyPicture, NoLogIs DEF AllInFile
  <2>2. Len(file.cur) > 0
    BY DEF RecInv, PersistInv, NumInv
  <2>3. RecoveredImage(NoLog, file.cur) = Committed /\ Committed # NoImage
    BY <2>1, <2>2, FilesTyped, NoLogIs, PictureIs, PictureSome
  <2> QED BY <1>1, <2>3 DEF Recoverable, Committed
<1> QED BY <1>2, <1>4, <1>9, <1>10, <1>11, <1>12, <1>13 DEF RecInv, LinkInv, PersistInv

-----------------------------------------------------------------------------
(* A recovery.                                                                *)

\* What the files tell alone, and what the end of a recovery finds.
LEMMA RecoveredFacts ==
  ASSUME TypeInv, BackInv, HeadInv, DataInv, SnapInv, RecInv, NEW c \in Conn, RecoverHdr(c)
  PROVE  LET x == con[c]
             y == con'[c]
             img == RecoveredImage(log.cur, file.cur)
         IN
         /\ Only(c) /\ UNCHANGED <<log, file>> /\ x.pc = "recoverHdr" /\ y.pc = "recoverInfo"
         /\ y.w = x.w /\ y.nCkpt = x.nCkpt /\ past' = Saw(img) /\ img \in Images
         /\ shm'.h0 = RecoveredHdr(log.cur) /\ shm'.nBackfill = 0 /\ ~shm.h0.init
         /\ Pictured(Text(log.cur), file.cur, img) /\ img # NoImage
         /\ (OneHeader(log) \/ (img = Committed /\ file.cur = img /\ Text(log.cur) = <<>>))
         /\ x.w.todo = <<>> /\ ~InFlight(x) /\ ~InFlight(y) /\ ~InTxn(y)
<1> DEFINE x == con[c]
           y == con'[c]
           img == RecoveredImage(log.cur, file.cur)
<1>1. /\ Only(c) /\ UNCHANGED <<log, file>> /\ x.pc = "recoverHdr" /\ y.pc = "recoverInfo"
      /\ y.w = x.w /\ y.nCkpt = x.nCkpt /\ shm'.h0 = x.hdr /\ shm'.nBackfill = shm.nBackfill
      /\ past' = Saw(img)
  BY RecoverHdrEffect DEF Moved
<1>2. ~shm.h0.init
  BY <1>1, AtHead DEF HeadOK
<1>3. x.hdr = RecoveredHdr(log.cur)
  BY <1>1 DEF SnapInv, RecoverOK
<1>4. shm.nBackfill = 0
  BY <1>1, AtBack DEF BackOK, Recovering
<1>5. Pictured(Text(log.cur), file.cur, img) /\ img \in Images
  BY FilesTyped, RecoveredPicture
<1>6. img # NoImage
  <2>1. Len(file.cur) > 0
    BY DEF RecInv, PersistInv, NumInv
  <2> QED BY <1>5, <2>1, FilesTyped, PictureSome
<1>7. ~InTxn(x) /\ ~InTxn(y) /\ x.w.todo = <<>> /\ ~InFlight(x) /\ ~InFlight(y)
  BY <1>1, NotInTxn, NotFlying, AtLink
<1>8. OneHeader(log) \/ (img = Committed /\ file.cur = img /\ Text(log.cur) = <<>>)
  <2> SUFFICES ASSUME ~OneHeader(log)
               PROVE  img = Committed /\ file.cur = img /\ Text(log.cur) = <<>>
    OBVIOUS
  <2>1. file.cur = Committed /\ Text(log.cur) = <<>>
    BY DEF RecInv, PersistInv, TwoHdr, AllInFile
  <2>2. img = file.cur
    BY <1>5, <2>1, FilesTyped, EmptyPicture
  <2> QED BY <2>1, <2>2
<1> QED BY <1>1, <1>2, <1>3, <1>4, <1>5, <1>6, <1>7, <1>8

\* Beside a recovery nobody knows anything of the log.
LEMMA RecoverHdrOthers ==
  ASSUME TypeInv, BackInv, HeadInv, DataInv, SnapInv, RecInv, NEW c \in Conn, RecoverHdr(c),
         NEW d \in Conn \ {c}
  PROVE  LinkOK(d, con'[d], shm', log', past') /\ ~InFlight(con'[d])
<1> DEFINE z == con[d]
<1>1. Only(c) /\ con[c].pc = "recoverHdr" /\ con[c].excl = AllLocks
  BY RecoverHdrEffect
<1>2. ~shm.h0.init
  BY <1>1, AtHead DEF HeadOK
<1>3. WRITE \in con[c].excl
  BY <1>1, Constants DEF AllLocks, WRITE
<1>4. ~InTxn(z) /\ z.pc \notin Recovering
  BY <1>3, OneTxn
<1>5. z.pc \in {"closed", "idle", "retryHdr", "recover", "recoverHdr", "ckptHdr", "ckptEnd"}
  BY <1>2, AtHead DEF HeadOK, Blank
<1>6. z.pc \in {"closed", "idle", "retryHdr", "ckptHdr", "ckptEnd"}
  BY <1>4, <1>5 DEF Recovering
<1>7. ~(z.nCkpt > 0) /\ z.w.todo = <<>>
  BY <1>2, <1>4, <1>6, AtLink DEF LinkOK, SaltOK
<1>8. ~z.w.close
  BY <1>1 DEF TypeInv, LockInv
<1>9. con'[d] = z /\ ~InFlight(z)
  BY <1>1, <1>4, NotFlying DEF Only
<1>10. FlightOK(z, shm', log', past') /\ DraftOK(z, shm', log') /\ SaltOK(d, z, shm', log')
  BY <1>4, <1>7, <1>9 DEF FlightOK, DraftOK, SaltOK
<1>11. RestOK(z, shm', log', past')
  BY <1>6, <1>7, <1>8 DEF RestOK
<1> QED BY <1>9, <1>10, <1>11 DEF LinkOK

LEMMA RecoveredSalt ==
  ASSUME NEW l \in Logs
  PROVE  /\ Text(l) # <<>> <=> RecoveredHdr(l).mx > 0
         /\ RecoveredHdr(l).mx > 0 => RecoveredHdr(l).salt = l.salt /\ l.salt > 0
         /\ HasFrames(l) => RecoveredHdr(l).salt = l.salt /\ l.salt > 0
         /\ RecoveredHdr(l).init /\ RecoveredHdr(l).mx \in Nat
<1>1. RecoveredHdr(l).mx \in Nat /\ RecoveredHdr(l).init
  BY RecoveredFields DEF HdrOK
<1>2. Text(l) # <<>> <=> RecoveredHdr(l).mx > 0
  <2>1. Len(Text(l)) = RecoveredHdr(l).mx /\ Text(l) \in Seq(Entries)
    BY TextType
  <2> DEFINE t == Text(l)
  <2> HIDE DEF t
  <2>2. t = <<>> <=> Len(t) = 0
    BY <2>1 DEF t
  <2> QED BY <1>1, <2>1, <2>2 DEF t
<1>3. RecoveredHdr(l).mx > 0 \/ HasFrames(l) => RecoveredHdr(l).salt = l.salt
  BY DEF RecoveredHdr, Hdr
<1>4. HasFrames(l) => l.salt > 0
  BY DEF HasFrames, Logs
<1>5. RecoveredHdr(l).mx > 0 => l.salt > 0
  BY <1>2, TextType
<1> QED BY <1>1, <1>2, <1>3, <1>4, <1>5

\* A log that tells nothing has all that the database file has to have.
LEMMA NothingTold ==
  ASSUME TypeInv, DataInv, RecInv, Text(log.cur) = <<>>
  PROVE  file.cur = file.dur /\ (OneHeader(log) => Text(log.dur) = <<>>)
<1>1. CASE ~OneHeader(log)
  BY <1>1 DEF RecInv, PersistInv, TwoHdr, AllInFile
<1>2. CASE OneHeader(log)
  <2>1. Mixed(log.cur, log.cur, log.dur) /\ log.dur.salt = log.cur.salt
    BY <1>2 DEF Mixed, FramesAt, OneHeader
  <2>2. Begins(Text(log.dur), Text(log.cur))
    BY <2>1, FilesTyped, StoryKeeps DEF RecInv, PersistInv, StoryInv
  <2>3. Text(log.dur) = <<>>
    <3>1. Text(log.dur) \in Seq(Entries) /\ Len(<<>>) = 0
      BY FilesTyped, TextType
    <3> DEFINE t == Text(log.dur)
    <3> HIDE DEF t
    <3> QED BY <2>2, <3>1 DEF Begins, t
  <2> QED BY <1>2, <2>3 DEF RecInv, PersistInv, OneHdr, FilesAgree
<1> QED BY <1>1, <1>2

LEMMA RecoverHdrPersist ==
  ASSUME TypeInv, BackInv, HeadInv, DataInv, SnapInv, RecInv, NEW c \in Conn, RecoverHdr(c)
  PROVE  PersistInv' /\ SyncedOK' /\ ~Flying'
<1> DEFINE x == con[c]
           y == con'[c]
           img == RecoveredImage(log.cur, file.cur)
<1>1. /\ Only(c) /\ UNCHANGED <<log, file>> /\ x.pc = "recoverHdr" /\ y.pc = "recoverInfo"
      /\ y.w = x.w /\ past' = Saw(img) /\ img \in Images /\ img # NoImage
      /\ (OneHeader(log) \/ (img = Committed /\ file.cur = img /\ Text(log.cur) = <<>>))
      /\ ~InFlight(x) /\ ~InFlight(y)
  BY RecoveredFacts
<1>2. /\ past'.salt = past.salt /\ past'.ver = past.ver /\ past'.full = past.full
      /\ past'.flight = NoImage /\ Committed' = img
      /\ \A k \in DOMAIN past.images : \E j \in DOMAIN past'.images :
           past'.images[j] = past.images[k]
  BY <1>1, SawFields
<1>3. ~Flying' /\ ~Flying
  <2>1. \A d \in Conn \ {c} : ~InFlight(con'[d]) /\ con'[d] = con[d]
    BY <1>1, RecoverHdrOthers DEF Only
  <2> QED BY <1>1, <2>1 DEF Flying
<1>4. \A d \in Conn : con'[d].w.todo = con[d].w.todo
  BY <1>1 DEF Only
<1>5. PersistInv /\ SyncedOK
  BY DEF RecInv, LinkInv
<1>6. StoryInv'
  <2>1. Gone' = Gone
    BY <1>2, <1>4 DEF Gone
  <2> QED BY <1>1, <1>5, <2>1 DEF PersistInv, StoryInv
<1>7. NumInv'
  BY <1>1, <1>2, <1>4, <1>5 DEF PersistInv, NumInv, FrameNum
<1>8. Strict(past') <=> Strict(past)
  BY <1>2 DEF Strict
<1>9. OneHdr'
  <2> SUFFICES ASSUME OneHeader(log) PROVE Pictures(log, file.cur, past') /\ FilesAgree(log, file)
    BY <1>1 DEF OneHdr
  <2>1. Pictures(log, file.cur, past) /\ FilesAgree(log, file)
    BY <1>5 DEF PersistInv, OneHdr
  <2>2. CASE Strict(past)
    <3>1. Len(Text(log.dur)) = Len(Text(log.cur)) /\ Len(Text(log.cur)) \in Nat
      BY <1>3, <1>5, <2>2, FilesTyped, TextType DEF SyncedOK
    <3>2. Pictures(log, file.cur, past')
      BY <3>1 DEF Pictures
    <3> QED BY <2>1, <3>2
  <2>3. CASE ~Strict(past)
    <3>1. Old(past) \subseteq Old(past')
      BY <1>2, <1>8, <2>3 DEF Old
    <3>2. Pictures(log, file.cur, past')
      BY <2>1, <3>1 DEF Pictures
    <3> QED BY <2>1, <3>2
  <2> QED BY <2>2, <2>3
<1>10. TwoHdr'
  <2> SUFFICES ASSUME ~OneHeader(log)
               PROVE  /\ file.cur = img /\ file.dur = img /\ Text(log.cur) = <<>>
                      /\ \A l \in Logs : Remains(l, log) => Pictured(Text(l), file.cur, img)
    BY <1>1, <1>2 DEF TwoHdr, AllInFile
  <2>1. img = Committed
    BY <1>1
  <2> HIDE DEF img
  <2> QED BY <1>5, <2>1 DEF PersistInv, TwoHdr, AllInFile
<1>11. Recoverable'
  <2>1. RecoveredImage(log'.cur, file'.cur) = img
    BY <1>1
  <2> HIDE DEF img
  <2> QED BY <1>1, <1>2, <2>1 DEF Recoverable
<1>12. SyncedOK'
  BY <1>1, <1>3, <1>5, <1>8 DEF SyncedOK
<1> QED BY <1>3, <1>6, <1>7, <1>9, <1>10, <1>11, <1>12 DEF PersistInv

LEMMA RecoverHdrRec ==
  ASSUME TypeInv, BackInv, HeadInv, DataInv, SnapInv, RecInv, NEW c \in Conn, RecoverHdr(c)
  PROVE  RecInv'
<1> DEFINE x == con[c]
           y == con'[c]
           h == RecoveredHdr(log.cur)
           img == RecoveredImage(log.cur, file.cur)
<1>1. /\ Only(c) /\ UNCHANGED <<log, file>> /\ x.pc = "recoverHdr" /\ y.pc = "recoverInfo"
      /\ y.w = x.w /\ y.nCkpt = x.nCkpt /\ past' = Saw(img) /\ img \in Images
      /\ shm'.h0 = h /\ shm'.nBackfill = 0 /\ ~shm.h0.init
      /\ Pictured(Text(log.cur), file.cur, img)
      /\ (OneHeader(log) \/ (img = Committed /\ file.cur = img /\ Text(log.cur) = <<>>))
      /\ x.w.todo = <<>> /\ ~InFlight(y) /\ ~InTxn(y)
  BY RecoveredFacts
<1>2. PersistInv' /\ SyncedOK' /\ ~Flying'
  BY RecoverHdrPersist
<1>3. Committed' = img
  BY <1>1, SawFields
<1>4. /\ Text(log.cur) # <<>> <=> h.mx > 0
      /\ h.mx > 0 => h.salt = log.cur.salt /\ log.cur.salt > 0
      /\ HasFrames(log.cur) => h.salt = log.cur.salt /\ log.cur.salt > 0
      /\ h.init /\ h.mx \in Nat
  BY FilesTyped, RecoveredSalt
<1>5. h.sum = Text(log.cur)
  BY DEF Text
<1>6. ASSUME h.mx <= 0
      PROVE  file.cur = img /\ file.dur = img /\ (OneHeader(log) => Text(log.dur) = Text(log.cur))
  <2>1. Text(log.cur) = <<>>
    BY <1>4, <1>6
  <2>2. file.cur = file.dur /\ (OneHeader(log) => Text(log.dur) = <<>>)
    BY <2>1, NothingTold
  <2>3. img = file.cur
    BY <1>1, <2>1, FilesTyped, EmptyPicture
  <2> HIDE DEF img, h
  <2> QED BY <2>1, <2>2, <2>3
<1> HIDE DEF h, img
<1>7. LatestOK'
  BY <1>1, <1>2, <1>3, <1>4, <1>5, <1>6 DEF LatestOK, AllInFile
<1>8. LinkOK(c, y, shm', log', past')
  <2>1. FlightOK(y, shm', log', past') /\ DraftOK(y, shm', log')
    BY <1>1 DEF FlightOK, DraftOK
  <2>2. SaltOK(c, y, shm', log')
    <3>1. x.nCkpt > 0 => HasFrames(log.cur)
      BY <1>1, AtLink DEF LinkOK, SaltOK
    <3>2. ASSUME h.mx = 0, x.nCkpt > 0 PROVE SaltFit(h.salt, log)
      BY <1>4, <3>1, <3>2 DEF SaltFit
    <3> QED BY <1>1, <1>4, <3>2 DEF SaltOK
  <2>3. RestOK(y, shm', log', past')
    BY <1>1 DEF RestOK
  <2> QED BY <2>1, <2>2, <2>3 DEF LinkOK
<1>9. \A d \in Conn \ {c} : LinkOK(d, con'[d], shm', log', past')
  BY RecoverHdrOthers
<1> QED BY <1>2, <1>7, <1>8, <1>9 DEF RecInv, LinkInv

LEMMA LinkClosed ==
  ASSUME NEW c, NEW s, NEW lg, NEW p
  PROVE  LinkOK(c, Closed, s, lg, p) /\ ~InFlight(Closed)
<1>1. Closed.pc = "closed" /\ Closed.w = NoWork /\ Closed.nCkpt = 0 /\ Closed.w.todo = <<>> /\ ~Closed.w.close
  BY DEF Closed, Connected, NoWork
<1>2. ~InTxn(Closed) /\ ~InFlight(Closed)
  BY <1>1, NotInTxn, NotFlying
<1>3. FlightOK(Closed, s, lg, p) /\ DraftOK(Closed, s, lg)
  BY <1>2 DEF FlightOK, DraftOK
<1>4. SaltOK(c, Closed, s, lg) /\ RestOK(Closed, s, lg, p)
  BY <1>1 DEF SaltOK, RestOK
<1> QED BY <1>2, <1>3, <1>4 DEF LinkOK

LEMMA FlyingWriter ==
  ASSUME TypeInv, BackInv, NEW c \in Conn, InFlight(con[c])
  PROVE  c \in Writers
<1>1. InTxn(con[c])
  BY NotFlying
<1> QED BY <1>1, AtBack DEF BackOK, InTxn

LEMMA KillRec ==
  ASSUME OneWriter, NoLateLoss, TypeInv, BackInv, DataInv, RecInv, NEW P \in Mortal, Kill(P)
  PROVE  RecInv'
<1>1. /\ UNCHANGED <<log, file, past>>
      /\ \A c \in Conn : con'[c] = IF c \in P THEN Closed ELSE con[c]
      /\ AllClosed' \/ (shm' = shm /\ ~(Conn \subseteq P))
  BY KillEffect
<1>2. PersistInv'
  <2>1. \A c \in Conn : con'[c].w.todo = con[c].w.todo \/ con'[c].w.todo = <<>>
    BY <1>1, NewConnRec
  <2>2. past.salt \in Nat /\ past.salt <= past.salt
    BY FilesTyped
  <2> QED BY <1>1, <2>1, <2>2, PersistCalm DEF RecInv
<1>3. CASE AllClosed'
  <2>1. LatestOK' /\ ~Flying' /\ \A c \in Conn : LinkOK(c, con'[c], shm', log', past')
    BY <1>3, AllClosedLink
  <2>2. SyncedOK'
    <3> SUFFICES ASSUME Strict(past) PROVE Text(log.dur) = Text(log.cur) \/ ~OneHeader(log)
      BY <1>1 DEF SyncedOK
    <3>1. TRUE \in FullSync /\ "power" \in Env
      <4>1. past.full \in FullSync /\ FullSync \subseteq BOOLEAN
        BY Constants, WalAssumption DEF RecInv, PersistInv, NumInv
      <4> QED BY <4>1 DEF Strict
    <3>2. ASSUME NEW c \in Conn, InFlight(con[c]) PROVE FALSE
      <4>1. c \in Writers /\ P \cap Writers = {}
        BY <3>1, <3>2, FlyingWriter DEF NoLateLoss
      <4>2. con'[c] = con[c] /\ con'[c] = Closed
        BY <1>1, <1>3, <4>1 DEF AllClosed
      <4> QED BY <3>2, <4>2, LinkClosed
    <3> QED BY <3>2 DEF RecInv, LinkInv, SyncedOK, Flying
  <2> QED BY <1>2, <2>1, <2>2 DEF RecInv, LinkInv
<1>4. CASE shm' = shm /\ ~(Conn \subseteq P)
  <2>1. \A c \in Conn : LinkOK(c, con'[c], shm', log', past')
    <3> SUFFICES ASSUME NEW c \in Conn PROVE LinkOK(c, con'[c], shm, log, past)
      BY <1>1, <1>4
    <3>1. CASE c \in P
      BY <1>1, <3>1, LinkClosed
    <3>2. CASE c \notin P
      BY <1>1, <3>2, AtLink
    <3> QED BY <3>1, <3>2
  <2>2. ASSUME NEW c \in Conn PROVE InFlight(con'[c]) <=> InFlight(con[c])
    <3>1. CASE c \notin P
      BY <1>1, <3>1
    <3>2. CASE c \in P
      <4>1. c \notin Writers
        BY <1>4, <3>2 DEF OneWriter
      <4>2. ~InFlight(con[c])
        BY <4>1, FlyingWriter
      <4> QED BY <1>1, <3>2, <4>2, LinkClosed
    <3> QED BY <3>1, <3>2
  <2>3. Flying' <=> Flying
    BY <2>2 DEF Flying
  <2>4. LatestOK' /\ SyncedOK'
    BY <1>1, <1>4, <2>3 DEF RecInv, LinkInv, LatestOK, SyncedOK, AllInFile, Committed
  <2> QED BY <1>2, <2>1, <2>4 DEF RecInv, LinkInv
<1> QED BY <1>1, <1>3, <1>4

-----------------------------------------------------------------------------
(* The power goes.                                                            *)

\* Every frame that survives was written, or is torn.
LEMMA MixtureIs ==
  ASSUME LogInv, NEW hdr \in {"cur", "dur"}, NEW piece \in [UnsyncedFrames -> Pieces]
  PROVE  /\ Mixture(hdr, piece).salt = log[hdr].salt
         /\ Mixed(Mixture(hdr, piece), log.cur, log.dur)
<1>1. log.cur \in Logs /\ log.dur \in Logs
  BY DEF LogInv
<1> DEFINE l == Mixture(hdr, piece)
           a == Len(log.cur.frames)
           b == Len(log.dur.frames)
           m == Max({a, b})
           fs == [i \in 1..m |->
                    IF i \notin DOMAIN piece THEN FrameOf(log.cur, i)
                    ELSE IF piece[i] = "torn" THEN Torn ELSE FrameOf(log[piece[i]], i)]
<1>2. l.salt = log[hdr].salt /\ l.frames = fs
  BY DEF Mixture
<1>3. a \in Nat /\ b \in Nat
  BY <1>1 DEF Logs
<1>4. m \in {a, b} /\ m >= a /\ m >= b
  <2>1. a \in Int /\ b \in Int
    BY <1>3
  <2> HIDE DEF a, b
  <2> QED BY <2>1, MaxTwo
<1>5. \A i \in Nat \ {0} : (i > a => FrameOf(log.cur, i) = Torn) /\ (i > b => FrameOf(log.dur, i) = Torn)
  BY <1>3 DEF FrameOf
<1>6. Len(fs) = m /\ \A i \in 1..m : fs[i] =
                    IF i \notin DOMAIN piece THEN FrameOf(log.cur, i)
                    ELSE IF piece[i] = "torn" THEN Torn ELSE FrameOf(log[piece[i]], i)
  <2>1. m \in Nat
    BY <1>3, <1>4
  <2> HIDE DEF m
  <2> QED BY <2>1
<1> HIDE DEF m, a, b, fs
<1>7. ASSUME NEW i \in 1..MaxFrame
      PROVE  /\ FrameOf(l, i) \in FramesAt(log.cur, log.dur, i) \cup {Torn}
             /\ FrameOf(log.cur, i) = FrameOf(log.dur, i) => FrameOf(l, i) = FrameOf(log.cur, i)
  <2>1. i \in Nat \ {0}
    BY Constants
  <2>2. CASE i > m
    <3>1. FrameOf(l, i) = Torn
      BY <1>2, <1>3, <1>4, <1>6, <2>1, <2>2 DEF FrameOf
    <3>2. FrameOf(log.cur, i) = Torn
      BY <1>3, <1>4, <1>5, <2>1, <2>2
    <3> QED BY <3>1, <3>2
  <2>3. CASE ~(i > m)
    <3>1. i \in 1..m
      BY <1>3, <1>4, <2>1, <2>3
    <3>2. FrameOf(l, i) = fs[i]
      BY <1>2, <1>6, <3>1 DEF FrameOf
    <3>3. CASE i \notin DOMAIN piece
      BY <1>6, <3>1, <3>2, <3>3 DEF FramesAt
    <3>4. CASE i \in DOMAIN piece
      <4>1. FrameOf(log.cur, i) # FrameOf(log.dur, i)
        BY <3>4 DEF UnsyncedFrames
      <4>2. piece[i] \in {"cur", "dur", "torn"}
        BY <3>4 DEF Pieces
      <4>3. FrameOf(l, i) = IF piece[i] = "torn" THEN Torn ELSE FrameOf(log[piece[i]], i)
        BY <1>6, <3>1, <3>2, <3>4
      <4> QED BY <4>1, <4>2, <4>3 DEF FramesAt
    <3> QED BY <3>3, <3>4
  <2> QED BY <2>2, <2>3
<1> QED BY <1>2, <1>7 DEF Mixed

LEMMA SurvivingLogIs ==
  ASSUME LogInv, NEW l \in SurvivingLogs
  PROVE  /\ l \in Logs
         /\ \A i \in 1..MaxFrame : FrameOf(l, i) \in FramesAt(log.cur, log.dur, i) \cup {Torn}
         /\ log.new => l \in {log.cur, log.dur, NoLog}
         /\ ~log.new => l.salt \in {log.cur.salt, log.dur.salt} /\ Mixed(l, log.cur, log.dur)
<1>1. l \in Logs
  BY SurvivingLogOK
<1>2. CASE log.new
  <2>1. l \in {log.cur, log.dur, NoLog}
    BY <1>2 DEF SurvivingLogs
  <2>2. ASSUME NEW i \in 1..MaxFrame PROVE FrameOf(l, i) \in FramesAt(log.cur, log.dur, i) \cup {Torn}
    <3>1. i \in Nat \ {0}
      BY Constants
    <3> QED BY <2>1, <3>1, NoLogIs DEF FramesAt
  <2> QED BY <1>1, <1>2, <2>1, <2>2
<1>3. CASE ~log.new
  <2>1. PICK hdr \in {"cur", "dur"}, piece \in [UnsyncedFrames -> Pieces] : l = Mixture(hdr, piece)
    BY <1>3 DEF SurvivingLogs
  <2>2. l.salt \in {log.cur.salt, log.dur.salt} /\ Mixed(l, log.cur, log.dur)
    BY <2>1, MixtureIs
  <2> QED BY <1>1, <1>3, <2>2 DEF Mixed
<1> QED BY <1>2, <1>3

\* Every page that survives and is not the written one was not yet synced.
LEMMA SurvivingFileIs ==
  ASSUME FileData, Len(file.cur) \in 1..MaxPage, Len(file.dur) \in 1..MaxPage, NEW f \in SurvivingFiles
  PROVE  /\ f \in Images /\ Len(f) \in 1..MaxPage
         /\ \A p \in 1..MaxPage : PageAt(file.cur, p) = PageAt(file.dur, p) => PageAt(f, p) = PageAt(file.cur, p)
         /\ file.cur = file.dur => f = file.cur
<1>1. f \in Images
  BY SurvivingFileOK
<1>2. PICK len \in {"cur", "dur"}, piece \in [UnsyncedPages -> Pieces] :
        f = [p \in 1..Len(file[len]) |->
              IF p \notin UnsyncedPages THEN PageAt(file.cur, p)
              ELSE IF piece[p] = "torn" THEN TornPage ELSE PageAt(file[piece[p]], p)]
  BY DEF SurvivingFiles
<1> DEFINE n == Len(file[len])
<1>3. n \in 1..MaxPage /\ n \in Nat
  BY Constants
<1> HIDE DEF n
<1>4. Len(f) = n
  BY <1>2, <1>3 DEF n
<1>5. ASSUME NEW p \in 1..n, p \notin UnsyncedPages PROVE f[p] = PageAt(file.cur, p)
  BY <1>2, <1>5 DEF n
<1>6. ASSUME NEW p \in 1..MaxPage, PageAt(file.cur, p) = PageAt(file.dur, p)
      PROVE  PageAt(f, p) = PageAt(file.cur, p)
  <2>1. p \notin UnsyncedPages /\ p \in Nat \ {0}
    BY <1>6, Constants DEF UnsyncedPages
  <2>2. CASE p <= n
    BY <1>3, <1>4, <1>5, <2>1, <2>2 DEF PageAt
  <2>3. CASE ~(p <= n)
    <3>1. PageAt(file[len], p) = 0 /\ PageAt(f, p) = 0
      BY <1>4, <2>3 DEF PageAt, n
    <3>2. PageAt(file[len], p) = PageAt(file.cur, p)
      BY <1>6
    <3> QED BY <3>1, <3>2
  <2> QED BY <2>2, <2>3
<1>7. ASSUME file.cur = file.dur PROVE f = file.cur
  <2>1. n = Len(file.cur) /\ file.cur \in Images
    BY <1>7 DEF n, FileData
  <2>2. ASSUME NEW p \in 1..n PROVE f[p] = file.cur[p]
    <3>1. p \notin UnsyncedPages
      BY <1>7 DEF UnsyncedPages
    <3> QED BY <1>3, <1>5, <2>1, <3>1 DEF PageAt
  <2> DEFINE g == file.cur
  <2>3. f \in Seq(Int) /\ g \in Seq(Int) /\ Len(f) = n /\ Len(g) = n /\ \A p \in 1..n : f[p] = g[p]
    BY <1>1, <1>4, <2>1, <2>2 DEF Images
  <2> HIDE DEF g
  <2>4. f = g
    BY <2>3
  <2> QED BY <2>4 DEF g
<1> QED BY <1>1, <1>3, <1>4, <1>6, <1>7

\* The commits that remain end with the one that is found, if it is one of them.
LEMMA SurvivorsIs ==
  ASSUME TypeInv, PastData, NEW img
  PROVE  /\ Survivors(img).salt = past.salt /\ Survivors(img).ver = past.ver
         /\ Survivors(img).full = past.full /\ Survivors(img).flight = past.flight
         /\ past.full => Survivors(img) = past
         /\ ~past.full /\ (\E k \in DOMAIN past.images : past.images[k] = img) => Last(Survivors(img).images) = img
         /\ (\A k \in DOMAIN past.images : past.images[k] # img) => Survivors(img) = past
<1> DEFINE k == {i \in DOMAIN past.images : past.images[i] = img}
           s == past.images
<1>1. s \in Seq(Images) /\ s # <<>> /\ Len(s) \in Nat /\ DOMAIN s = 1..Len(s)
  BY DEF PastData
<1>2. CASE past.full \/ k = {}
  <2>1. Survivors(img) = past
    BY <1>2 DEF Survivors
  <2> QED BY <1>2, <2>1
<1>3. CASE ~(past.full \/ k = {})
  <2>1. k \subseteq 0..Len(s) /\ k # {} /\ \A i \in k : i \in 1..Len(s) /\ s[i] = img
    BY <1>1, <1>3
  <2>2. Survivors(img) = [past EXCEPT !.images = SubSeq(s, 1, Max(k))]
    BY <1>3 DEF Survivors
  <2>3. ~past.full /\ k # {}
    BY <1>3
  <2>4. \E j \in DOMAIN past.images : past.images[j] = img
    BY <2>3
  <2> HIDE DEF k
  <2>5. Max(k) \in 1..Len(s) /\ Max(k) \in k
    BY <1>1, <2>1, MaxOf
  <2> DEFINE m == Max(k)
  <2>6. m \in 1..Len(s) /\ s[m] = img
    BY <2>1, <2>5
  <2> HIDE DEF m, s
  <2>7. Last(SubSeq(s, 1, m)) = s[m]
    <3>1. 1 \in 1..Len(s)+1 /\ m \in 0..Len(s) /\ 1 <= m + 1 /\ m - 1 + 1 = m
      BY <1>1, <2>6
    <3>2. Len(SubSeq(s, 1, m)) = m /\ SubSeq(s, 1, m)[m] = s[m]
      BY <1>1, <2>6, <3>1
    <3> QED BY <3>2 DEF Last
  <2>8. Survivors(img) = [past EXCEPT !.images = SubSeq(s, 1, m)]
    BY <2>2 DEF m
  <2>9. DOMAIN past = {"full", "salt", "ver", "images", "flight"}
    BY DEF TypeInv, PastInv
  <2> QED BY <2>3, <2>4, <2>6, <2>7, <2>8, <2>9
<1> QED BY <1>2, <1>3

\* What a power loss may leave to recover.
Likely(img) == img \in Images /\ img \in Old(past) \cup {Committed, past.flight}

LEMMA OldLikely ==
  ASSUME TypeInv, DataInv, NEW img \in Old(past)
  PROVE  Likely(img)
<1>1. past.images \in Seq(Images) /\ past.images # <<>>
  BY DEF DataInv, PastData
<1>2. DOMAIN past.images = 1..Len(past.images) /\ \A k \in DOMAIN past.images : past.images[k] \in Images
  BY <1>1
<1>3. Committed \in Images /\ Committed = Last(past.images)
  BY FilesTyped DEF Committed
<1> QED BY <1>2, <1>3 DEF Likely, Old

\* One header: what survives of the log is told by it, and tells what is durable.
LEMMA SurvivesOneHeader ==
  ASSUME TypeInv, DataInv, RecInv, NEW l \in SurvivingLogs, NEW f \in SurvivingFiles,
         OneHeader(log)
  PROVE  \E img \in Images : Likely(img) /\ Pictured(Text(l), f, img)
<1>1. /\ log.cur \in Logs /\ log.dur \in Logs /\ file.cur \in Images /\ LogInv /\ FileData
      /\ Pictures(log, file.cur, past) /\ FilesAgree(log, file) /\ StoryInv /\ NumInv
  BY FilesTyped DEF TypeInv, DataInv, RecInv, PersistInv, OneHdr
<1>2. /\ l \in Logs /\ Mixed(l, log.cur, log.dur) /\ l.salt = log.cur.salt
      /\ log.dur.salt = log.cur.salt
  BY <1>1, SurvivingLogIs DEF OneHeader
<1> DEFINE s == Text(l)
           c == Text(log.cur)
           d == Text(log.dur)
           m == Len(s)
<1>3. Begins(d, s) /\ Begins(s, c)
  BY <1>1, <1>2, StoryKeeps DEF StoryInv
<1>4. /\ s \in Seq(Entries) /\ c \in Seq(Entries) /\ d \in Seq(Entries) /\ s \in Sums
      /\ (s # <<>> => Last(s).n > 0 /\ Last(s) = s[m])
  BY <1>1, <1>2, TextType
<1>5. f \in Images /\ Len(f) \in 1..MaxPage
      /\ (\A p \in 1..MaxPage : PageAt(file.cur, p) = PageAt(file.dur, p) => PageAt(f, p) = PageAt(file.cur, p))
      /\ (file.cur = file.dur => f = file.cur)
  BY <1>1, SurvivingFileIs DEF NumInv
<1>6. \E img \in Images : Likely(img) /\ Pictured(s, file.cur, img)
  <2>1. CASE s = c
    <3> DEFINE img == RecoveredImage(log.cur, file.cur)
    <3>1. Pictured(c, file.cur, img) /\ img \in Images
      BY <1>1, RecoveredPicture
    <3>2. img \in {Committed, past.flight}
      BY DEF RecInv, PersistInv, Recoverable
    <3> HIDE DEF img
    <3>3. Likely(img)
      BY <3>1, <3>2 DEF Likely
    <3> HIDE DEF s, c
    <3> QED BY <2>1, <3>1, <3>3
  <2>2. CASE s # c
    <3> HIDE DEF s, c, d
    <3>1. m \in Nat /\ Len(c) \in Nat /\ Len(d) \in Nat /\ Len(d) <= m /\ m <= Len(c)
          /\ s = SubSeq(c, 1, m)
      BY <1>3, <1>4 DEF Begins
    <3>2. m < Len(c)
      BY <1>3, <1>4, <2>2, <3>1, BeginsWhole
    <3>3. m \in Len(d)..(Len(c) - 1)
      BY <3>1, <3>2
    <3>4. m = 0 \/ c[m].n > 0
      <4>1. CASE m # 0
        <5>1. s # <<>> /\ m \in 1..m
          BY <3>1, <4>1
        <5>2. s[m] = c[m]
          BY <1>3, <1>4, <5>1, BeginsAt
        <5> QED BY <1>4, <5>1, <5>2
      <4> QED BY <4>1
    <3>5. \E img \in Old(past) : Pictured(SubSeq(c, 1, m), file.cur, img)
      BY <1>1, <3>3, <3>4 DEF Pictures, c, d
    <3>6. PICK img \in Old(past) : Pictured(s, file.cur, img)
      BY <3>1, <3>5
    <3>7. Likely(img) /\ img \in Images
      BY OldLikely DEF Likely
    <3> QED BY <3>6, <3>7
  <2> QED BY <2>1, <2>2
<1>7. Agrees(s, file.cur, f)
  <2> HIDE DEF s, d
  <2>1. ASSUME NEW p \in 1..MaxPage PROVE PageAt(f, p) = PageAt(file.cur, p) \/ ~Absent(s, p)
    <3>1. CASE PageAt(file.cur, p) = PageAt(file.dur, p)
      BY <1>5, <3>1
    <3>2. CASE ~Absent(d, p)
      <4>1. PICK i \in 1..Len(d) : d[i].pg = p
        BY <3>2 DEF Absent
      <4>2. i \in 1..Len(s) /\ s[i] = d[i]
        <5>1. Len(d) \in 0..Len(s) /\ d[i] = s[i]
          BY <1>3, <1>4, <4>1, BeginsAt
        <5> QED BY <1>4, <5>1
      <4> QED BY <4>1, <4>2 DEF Absent
    <3> QED BY <1>1, <3>1, <3>2 DEF FilesAgree, d
  <2>2. ASSUME s = <<>> PROVE f = file.cur
    <3>1. d = <<>>
      <4>1. Len(s) = 0
        BY <2>2
      <4>2. Len(d) = 0
        BY <1>3, <1>4, <4>1 DEF Begins
      <4> QED BY <1>4, <4>2
    <3> QED BY <1>1, <1>5, <3>1 DEF FilesAgree, d
  <2> QED BY <2>1, <2>2 DEF Agrees
<1>8. PICK img \in Images : Likely(img) /\ Pictured(s, file.cur, img)
  BY <1>6
<1>9. Len(file.cur) <= MaxPage /\ Len(file.cur) \in Nat
  BY <1>1, Constants DEF NumInv
<1>10. Pictured(s, f, img)
  BY <1>4, <1>7, <1>8, <1>9, PictureAgrees
<1> QED BY <1>8, <1>10

\* The log was about to begin anew: what survives of it stands for the database file.
LEMMA SurvivesTwoHeaders ==
  ASSUME TypeInv, DataInv, RecInv, NEW l \in SurvivingLogs, NEW f \in SurvivingFiles,
         ~OneHeader(log)
  PROVE  \E img \in Images : Likely(img) /\ Pictured(Text(l), f, img)
<1>1. /\ log.cur \in Logs /\ log.dur \in Logs /\ file.cur \in Images /\ LogInv /\ FileData
      /\ AllInFile /\ Text(log.cur) = <<>> /\ StoryInv /\ NumInv /\ Committed \in Images
      /\ \A k \in Logs : Remains(k, log) => Pictured(Text(k), file.cur, Committed)
  BY FilesTyped DEF TypeInv, DataInv, RecInv, PersistInv, TwoHdr
<1>2. f = file.cur
  BY <1>1, SurvivingFileIs DEF NumInv, AllInFile
<1>3. Likely(Committed)
  BY <1>1 DEF Likely
<1>4. /\ l \in Logs
      /\ \A i \in 1..MaxFrame : FrameOf(l, i) \in FramesAt(log.cur, log.dur, i) \cup {Torn}
      /\ log.new => l \in {log.cur, log.dur, NoLog}
      /\ ~log.new => l.salt \in {log.cur.salt, log.dur.salt} /\ Mixed(l, log.cur, log.dur)
  BY <1>1, SurvivingLogIs
<1>5. ASSUME Text(l) = <<>> PROVE Pictured(Text(l), f, Committed)
  <2>1. file.cur = Committed
    BY <1>1 DEF AllInFile
  <2>2. Pictured(<<>>, f, Committed)
    BY <1>1, <1>2, <2>1, EmptyPicture
  <2> QED BY <1>5, <2>2
<1>6. ASSUME Remains(l, log) PROVE Pictured(Text(l), f, Committed)
  BY <1>1, <1>2, <1>4, <1>6
<1>7. Text(l) = <<>> \/ Remains(l, log)
  <2>1. CASE log.new
    <3>1. l = log.dur => Remains(l, log)
      BY <2>1 DEF Remains
    <3>2. l = log.cur => Text(l) = <<>>
      BY <1>1
    <3>3. l = NoLog => Text(l) = <<>>
      BY NoLogIs
    <3> QED BY <1>4, <2>1, <3>1, <3>2, <3>3
  <2>2. CASE ~log.new /\ l.salt = log.dur.salt
    BY <1>4, <2>2 DEF Remains
  <2>3. CASE ~log.new /\ l.salt = log.cur.salt
    <3>1. Begins(Text(l), Text(log.cur))
      BY <1>1, <1>4, <2>3, StoryTells DEF StoryInv
    <3>2. Text(l) \in Seq(Entries) /\ Len(<<>>) = 0
      BY <1>4, TextType
    <3> DEFINE t == Text(l)
    <3> HIDE DEF t
    <3>3. Len(t) <= 0
      BY <1>1, <3>1, <3>2 DEF Begins, t
    <3>4. t = <<>>
      BY <3>2, <3>3 DEF t
    <3> QED BY <3>4 DEF t
  <2> QED BY <1>4, <2>1, <2>2, <2>3
<1> QED BY <1>1, <1>3, <1>5, <1>6, <1>7

\* After the loss, the image found is the last commit that remains, or the one in flight.
LEMMA PowerLossImage ==
  ASSUME TypeInv, DataInv, RecInv, "power" \in Env, NEW l \in SurvivingLogs, NEW f \in SurvivingFiles
  PROVE  LET img == RecoveredImage(l, f)
             q == Survivors(img)
         IN  img \in {Last(q.images), q.flight} \ {NoImage}
<1> DEFINE img == RecoveredImage(l, f)
           q == Survivors(img)
<1>1. PICK i0 \in Images : Likely(i0) /\ Pictured(Text(l), f, i0)
  BY SurvivesOneHeader, SurvivesTwoHeaders
<1>2. l \in Logs /\ f \in Images /\ Len(f) > 0
  <2>1. LogInv /\ FileData /\ NumInv
    BY DEF TypeInv, DataInv, RecInv, PersistInv
  <2>2. l \in Logs /\ f \in Images /\ Len(f) \in 1..MaxPage
    BY <2>1, SurvivingLogIs, SurvivingFileIs DEF NumInv
  <2> QED BY <2>2, Constants
<1>3. img = i0 /\ img # NoImage
  <2>1. RecoveredImage(l, f) = i0
    BY <1>1, <1>2, PictureIs
  <2>2. i0 # NoImage
    BY <1>1, <1>2, PictureSome
  <2> QED BY <2>1, <2>2
<1>4. PastData
  BY DEF DataInv
<1>5. /\ q.flight = past.flight /\ (past.full => q = past)
      /\ ~past.full /\ (\E k \in DOMAIN past.images : past.images[k] = img) => Last(q.images) = img
      /\ (\A k \in DOMAIN past.images : past.images[k] # img) => q = past
  BY <1>4, SurvivorsIs
<1> HIDE DEF img, q
<1>6. Likely(img)
  BY <1>1, <1>3
<1>7. CASE past.full
  <2>1. Old(past) = {Last(past.images)}
    BY <1>7 DEF Old, Strict
  <2>2. img = Last(past.images) \/ img = past.flight
    BY <1>6, <2>1 DEF Likely, Committed
  <2> QED BY <1>3, <1>5, <1>7, <2>2 DEF img, q
<1>8. CASE ~past.full /\ \E k \in DOMAIN past.images : past.images[k] = img
  BY <1>3, <1>5, <1>8 DEF img, q
<1>9. CASE ~past.full /\ \A k \in DOMAIN past.images : past.images[k] # img
  <2>1. Old(past) = {past.images[k] : k \in DOMAIN past.images}
    BY <1>9 DEF Old, Strict
  <2>2. img \notin Old(past)
    BY <1>9, <2>1
  <2>3. img = Last(past.images) \/ img = past.flight
    BY <1>6, <2>2 DEF Likely, Committed
  <2> QED BY <1>3, <1>5, <1>9, <2>3 DEF img, q
<1> QED BY <1>7, <1>8, <1>9

LEMMA PowerLossRec ==
  ASSUME TypeInv, DataInv, RecInv, PowerLoss
  PROVE  RecInv'
<1>1. "power" \in Env
  BY DEF PowerLoss
<1>2. PICK l \in SurvivingLogs, f \in SurvivingFiles :
        /\ log' = [cur |-> l, dur |-> l, new |-> FALSE]
        /\ file' = [cur |-> f, dur |-> f]
        /\ past' = Survivors(RecoveredImage(l, f))
  BY PowerLossEffect
<1>3. AllClosed'
  BY PowerLossEffect
<1>4. /\ LatestOK' /\ \A c \in Conn : LinkOK(c, con'[c], shm', log', past') /\ con'[c].w.todo = <<>>
  BY <1>3, AllClosedLink
<1>5. log'.cur = l /\ log'.dur = l /\ ~log'.new /\ file'.cur = f /\ file'.dur = f
  BY <1>2
<1>6. /\ LogInv /\ FileData /\ PastData /\ NumInv /\ log.cur \in Logs /\ log.dur \in Logs
      /\ past.salt \in Nat /\ past.ver \in Nat
  BY FilesTyped DEF TypeInv, DataInv, RecInv, PersistInv
<1>7. past'.salt = past.salt /\ past'.ver = past.ver /\ past'.full = past.full
  BY <1>2, <1>6, SurvivorsIs
<1>8. l \in Logs /\ \A i \in 1..MaxFrame : FrameOf(l, i) \in FramesAt(log.cur, log.dur, i) \cup {Torn}
  BY <1>6, SurvivingLogIs
<1>9. f \in Images /\ Len(f) \in 1..MaxPage
  BY <1>6, SurvivingFileIs DEF NumInv
<1>10. ASSUME NEW i \in 1..MaxFrame PROVE FrameNum(FrameOf(l, i), past)
  <2>1. FrameNum(Torn, past)
    BY <1>6, NoLogIs DEF FrameNum
  <2>2. FrameNum(FrameOf(log.cur, i), past) /\ FrameNum(FrameOf(log.dur, i), past)
    BY <1>6 DEF NumInv
  <2> QED BY <1>8, <2>1, <2>2 DEF FramesAt
<1>11. StoryInv'
  <2> DEFINE G == Gone'
  <2>1. G = {v \in Nat : v <= past.ver}
    BY <1>4, <1>7 DEF Gone
  <2>2. ASSUME NEW i \in 1..MaxFrame
        PROVE  /\ FrameOf(l, i).sum # <<>> => FrameOf(l, i).salt > 0
               /\ \A k \in 1..Len(FrameOf(l, i).sum) : FrameOf(l, i).sum[k].ver \in G
    <3>1. i \in Nat \ {0}
      BY Constants
    <3> DEFINE u == FrameOf(l, i).sum
    <3>2. u \in Seq(Entries)
      BY <1>8, <3>1, FrameOfType
    <3>3. /\ u # <<>> => FrameOf(l, i).salt > 0
          /\ \A k \in 1..Len(u) : u[k].ver <= past.ver
      BY <1>10 DEF FrameNum
    <3> HIDE DEF u, G
    <3>4. \A k \in 1..Len(u) : u[k].ver \in Nat
      <4>1. \A k \in 1..Len(u) : u[k] \in Entries
        BY <3>2
      <4> QED BY <4>1 DEF Entries
    <3>5. \A k \in 1..Len(u) : u[k].ver \in G
      BY <2>1, <3>3, <3>4
    <3> QED BY <3>3, <3>5 DEF u
  <2> HIDE DEF G
  <2>3. Story(l, l, G)
    BY <1>8, <2>2, StoryOfOne
  <2> QED BY <1>5, <2>3 DEF StoryInv, G
<1>12. NumInv'
  <2>1. \A k \in {log'.cur, log'.dur}, i \in 1..MaxFrame : FrameNum(FrameOf(k, i), past')
    BY <1>5, <1>7, <1>10 DEF FrameNum
  <2>2. \A c \in Conn : \A k \in DOMAIN con'[c].w.todo : FALSE
    BY <1>4
  <2>3. Len(file'.cur) \in 1..MaxPage /\ Len(file'.dur) \in 1..MaxPage
    BY <1>5, <1>9
  <2>4. past'.full \in FullSync
    BY <1>6, <1>7 DEF NumInv
  <2> QED BY <2>1, <2>2, <2>3, <2>4 DEF NumInv
<1>13. OneHdr' /\ TwoHdr'
  <2>1. OneHeader(log')
    BY <1>5 DEF OneHeader
  <2>2. Pictures(log', file'.cur, past')
    <3>1. Text(log'.dur) = Text(log'.cur) /\ Len(Text(l)) \in Nat /\ Text(log'.cur) = Text(l)
      BY <1>5, <1>8, TextType
    <3> QED BY <3>1 DEF Pictures
  <2>3. FilesAgree(log', file')
    BY <1>5 DEF FilesAgree
  <2> QED BY <2>1, <2>2, <2>3 DEF OneHdr, TwoHdr
<1>14. Recoverable'
  <2> DEFINE img == RecoveredImage(l, f)
  <2>1. img \in {Last(past'.images), past'.flight} \ {NoImage}
    BY <1>1, <1>2, PowerLossImage
  <2>2. RecoveredImage(log'.cur, file'.cur) = img
    BY <1>5
  <2> HIDE DEF img
  <2> QED BY <2>1, <2>2 DEF Recoverable, Committed
<1>15. SyncedOK'
  BY <1>5 DEF SyncedOK
<1> QED BY <1>4, <1>11, <1>12, <1>13, <1>14, <1>15 DEF RecInv, PersistInv, LinkInv

-----------------------------------------------------------------------------
(* The invariant, and what it says of a recovery.                             *)

LEMMA RecInit == Init => RecInv
<1> SUFFICES ASSUME Init PROVE RecInv
  OBVIOUS
<1>1. PICK full \in FullSync : past = [full |-> full, salt |-> 0, ver |-> 0,
                                       images |-> <<InitImage>>, flight |-> NoImage]
  BY DEF Init
<1>2. /\ con = [c \in Conn |-> Connected] /\ shm = EmptyShm
      /\ log.cur = NoLog /\ log.dur = NoLog /\ ~log.new /\ file.cur = InitImage /\ file.dur = InitImage
  BY DEF Init
<1>3. /\ past.salt = 0 /\ past.ver = 0 /\ past.full \in FullSync /\ past.images = <<InitImage>>
  BY <1>1
<1>4. /\ InitImage \in Images /\ Len(InitImage) = 1 /\ InitImage # NoImage
  <2>1. InitImage \in Images /\ Len(InitImage) = 1
    BY DEF InitImage, Images
  <2>2. Len(NoImage) = 0
    BY DEF NoImage
  <2> QED BY <2>1, <2>2
<1>5. Committed = InitImage
  BY <1>3 DEF Committed, Last
<1>6. ~shm.h0.init
  BY <1>2 DEF EmptyShm, NoHdr, Hdr
<1>7. Connected.pc = "idle" /\ Connected.w = NoWork /\ Connected.nCkpt = 0
      /\ Connected.w.todo = <<>> /\ ~Connected.w.close
  BY DEF Connected, NoWork
<1>8. \A c \in Conn : con[c] = Connected
  BY <1>2
<1>9. ~InTxn(Connected) /\ ~InFlight(Connected)
  BY <1>7, NotInTxn, NotFlying
<1>10. \A c \in Conn : LinkOK(c, con[c], shm, log, past)
  <2> SUFFICES ASSUME NEW c \in Conn PROVE LinkOK(c, Connected, shm, log, past)
    BY <1>8
  <2>1. FlightOK(Connected, shm, log, past) /\ DraftOK(Connected, shm, log)
    BY <1>6 DEF FlightOK, DraftOK
  <2>2. SaltOK(c, Connected, shm, log)
    BY <1>6, <1>7 DEF SaltOK
  <2>3. RestOK(Connected, shm, log, past)
    BY <1>6, <1>7 DEF RestOK
  <2> QED BY <2>1, <2>2, <2>3 DEF LinkOK
<1>11. LatestOK /\ SyncedOK
  BY <1>2, <1>6 DEF LatestOK, SyncedOK
<1>12. \A i \in 1..MaxFrame : FrameOf(NoLog, i) = Torn /\ FrameNum(Torn, past)
  <2>1. \A i \in 1..MaxFrame : i \in Nat \ {0}
    BY Constants
  <2>2. \A k \in 1..Len(Torn.sum) : FALSE
    BY NoLogIs
  <2>3. FrameNum(Torn, past)
    BY <1>3, <2>2, NoLogIs DEF FrameNum
  <2> QED BY <2>1, <2>3, NoLogIs
<1>13. StoryInv
  <2>1. Story(NoLog, NoLog, Gone)
    <3>1. \A k \in 1..Len(Torn.sum) : FALSE
      BY NoLogIs
    <3> QED BY <1>12, <3>1, NoLogIs, StoryOfOne
  <2> QED BY <1>2, <2>1 DEF StoryInv
<1>14. NumInv
  <2>1. \A l \in {log.cur, log.dur}, i \in 1..MaxFrame : FrameNum(FrameOf(l, i), past)
    BY <1>2, <1>12
  <2>2. \A c \in Conn : \A k \in DOMAIN con[c].w.todo : FALSE
    BY <1>7, <1>8
  <2>3. Len(file.cur) \in 1..MaxPage /\ Len(file.dur) \in 1..MaxPage
    BY <1>2, <1>4, Constants
  <2> QED BY <1>3, <2>1, <2>2, <2>3 DEF NumInv
<1>15. OneHdr /\ TwoHdr
  <2>1. OneHeader(log)
    BY <1>2 DEF OneHeader
  <2>2. Pictures(log, file.cur, past)
    <3>1. Len(Text(log.dur)) = 0 /\ Len(Text(log.cur)) = 0
      BY <1>2, NoLogIs
    <3> QED BY <3>1 DEF Pictures
  <2>3. FilesAgree(log, file)
    BY <1>2 DEF FilesAgree
  <2> QED BY <2>1, <2>2, <2>3 DEF OneHdr, TwoHdr
<1>16. Recoverable
  <2>1. Pictured(Text(NoLog), InitImage, InitImage)
    BY <1>4, NoLogIs, EmptyPicture
  <2>2. RecoveredImage(NoLog, InitImage) = InitImage
    BY <1>4, <2>1, NoLogIs, PictureIs
  <2> QED BY <1>2, <1>4, <1>5, <2>2 DEF Recoverable
<1> QED BY <1>10, <1>11, <1>13, <1>14, <1>15, <1>16 DEF RecInv, PersistInv, LinkInv

LEMMA PickLockRec ==
  ASSUME TypeInv, BackInv, ReadInv, RecInv, NEW c \in Conn, Pick(c) \/ LockMark(c)
  PROVE  RecInv'
BY MarkReaderRec, MarkWriterRec DEF ReadInv

LEMMA RecNext ==
  OneWriter /\ NoLateLoss /\ TypeInv /\ BackInv /\ ReadInv /\ RecInv /\ [Next]_vars => RecInv'
<1> SUFFICES ASSUME OneWriter, NoLateLoss, TypeInv, BackInv, ReadInv, RecInv, [Next]_vars
             PROVE  RecInv'
  OBVIOUS
<1>0. DataInv /\ HeadInv /\ SnapInv /\ TypeInv' /\ DataInv' /\ SnapInv'
  BY AllNext DEF ReadInv
<1>1. CASE UNCHANGED vars
  <2>1. UNCHANGED <<con, shm, log, file, past>>
    BY <1>1 DEF vars
  <2>2. PersistInv'
    BY <2>1 DEF RecInv, PersistInv, StoryInv, Gone, NumInv, OneHdr, TwoHdr, AllInFile, Committed,
                Recoverable
  <2>3. LinkInv'
    BY <2>1 DEF RecInv, LinkInv, LatestOK, Flying, SyncedOK, AllInFile, Committed
  <2> QED BY <2>2, <2>3 DEF RecInv
<1>2. CASE PowerLoss
  BY <1>0, <1>2, PowerLossRec
<1>3. ASSUME NEW P \in Mortal, Kill(P) PROVE RecInv'
  BY <1>0, <1>3, KillRec
<1>4. ASSUME NEW c \in Conn, BeginRead(c) \/ RetryHdr(c) \/ Recover(c) PROVE RecInv'
  BY <1>0, <1>4, BeginReadRec, RetryHdrRec, RecoverRec
<1>5. ASSUME NEW c \in Conn, RecoverHdr(c) \/ RecoverInfo(c) PROVE RecInv'
  BY <1>0, <1>5, RecoverHdrRec, RecoverInfoRec
<1>6. ASSUME NEW c \in Conn, Choose(c) \/ Lock0(c) \/ Pick(c) \/ LockMark(c) \/ EndRead(c)
      PROVE  RecInv'
  BY <1>0, <1>6, ChooseRec, Lock0Rec, PickLockRec, EndReadRec
<1>7. ASSUME NEW c \in Conn, BeginWrite(c) \/ RestartLog(c) \/ RestartHdr(c) \/ RestartInfo(c)
      PROVE  RecInv'
  BY <1>0, <1>7, BeginWriteRec, RestartLogRec, RestartHdrRec, RestartInfoRec
<1>8. ASSUME NEW c \in Conn, WriteLogHdr(c) \/ SyncLogHdr(c) \/ WriteFrame(c) \/ EndFrames(c)
      PROVE  RecInv'
  BY <1>0, <1>8, WriteLogHdrRec, SyncLogHdrRec, WriteFrameRec, EndFramesRec
<1>9. ASSUME NEW c \in Conn, CommitHdr(c) \/ Rollback(c) \/ Savepoint(c) \/ SavepointUndo(c)
      PROVE  RecInv'
  BY <1>0, <1>9, CommitHdrRec, RollbackRec, SavepointRec, SavepointUndoRec
<1>10. ASSUME NEW c \in Conn, CkptHdr(c) \/ CkptTest(c) \/ CkptMark(c) \/ CkptLock0(c)
       PROVE  RecInv'
  BY <1>0, <1>10, CkptHdrRec, CkptTestRec, CkptMarkRec, CkptLock0Rec
<1>11. ASSUME NEW c \in Conn, CkptWrite(c) \/ CkptDone(c) \/ CkptEnd(c) PROVE RecInv'
  BY <1>0, <1>11, CkptWriteRec, CkptDoneRec, CkptEndRec, CloseRec
<1>12. ASSUME NEW c \in Conn, Open(c) \/ Close(c) PROVE RecInv'
  BY <1>0, <1>12, OpenCloseRec
<1>13. ASSUME NEW c \in Conn, NEW block \in BOOLEAN, CkptBegin(c, block) PROVE RecInv'
  BY <1>0, <1>13, CkptBeginRec
<1>14. ASSUME NEW c \in Conn, NEW S \in (SUBSET (1..MaxPage)) \ {{}},
              \/ Frames(c, S, 0, FALSE)
              \/ \E n \in 1..MaxPage : Frames(c, S, n, TRUE)
       PROVE  RecInv'
  <2>1. 0 \in 0..MaxPage /\ \A n \in 1..MaxPage : n \in 0..MaxPage /\ n # 0
    BY Constants
  <2>2. S \in SUBSET (1..MaxPage) /\ S # {}
    OBVIOUS
  <2>3. CASE Frames(c, S, 0, FALSE)
    BY <1>0, <2>1, <2>2, <2>3, FramesRec
  <2>4. ASSUME NEW n \in 1..MaxPage, Frames(c, S, n, TRUE) PROVE RecInv'
    BY <1>0, <2>1, <2>2, <2>4, FramesRec
  <2> QED BY <1>14, <2>3, <2>4
<1> QED BY Zenon, <1>1, <1>2, <1>3, <1>4, <1>5, <1>6, <1>7, <1>8, <1>9, <1>10, <1>11, <1>12,
           <1>13, <1>14 DEF Next

\* Whatever dies and, when the power goes, whatever of the unsynced writes to the log and
\* to the database file survives, in any mixture and torn: walIndexRecover finds the last
\* commit or the one that is being written, whole.  Through restarts of the log (the old
\* frames stay behind the new ones), savepoints undone in the log, checkpoints that stop
\* half way, and logs that come back after their deletion.  With synchronous=NORMAL the
\* last commit is the last one that survives, and none of those before it is missing; with
\* FULL it is the last that any connection saw.  One connection writes and checkpoints, it
\* does not die without the others, and NoLateLoss.
THEOREM RecoverableHolds ==
  ASSUME OneWriter, NoLateLoss
  PROVE  Spec => []Recoverable
<1>1. Init => TypeInv /\ BackInv /\ ReadInv /\ RecInv
  BY TypeInit, BackInit, ReadInit, RecInit
<1>2. TypeInv /\ BackInv /\ ReadInv /\ RecInv /\ [Next]_vars
        => (TypeInv /\ BackInv /\ ReadInv /\ RecInv)'
  BY AllNext, RecNext
<1>3. TypeInv /\ BackInv /\ ReadInv /\ RecInv => Recoverable
  BY DEF RecInv, PersistInv
<1> QED BY <1>1, <1>2, <1>3, PTL DEF Spec

=============================================================================
