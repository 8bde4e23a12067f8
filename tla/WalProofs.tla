------------------------------ MODULE WalProofs ------------------------------
(* Proofs about Wal: that locks exclude each other and the numbers of frames  *)
(* stay within the log (TypeOK), for every number of connections, writers and *)
(* checkpointers; and that the backfill count stays within the log            *)
(* (BackfillBound), when one connection writes and checkpoints.  Then what    *)
(* the proofs about images need: what every step does to the data, and in     *)
(* which order the headers of the log follow each other.                      *)
EXTENDS Wal, QueueLemmas, FiniteSetTheorems

-----------------------------------------------------------------------------
(* The shape of headers, logs and connections.                                *)

Entries  == [pg : 1..MaxPage, ver : Nat, n : 0..MaxPage]
Sums     == {s \in Seq(Entries) : Len(s) <= MaxFrame}
FrameSet == [salt : Nat, sum : Sums]
Logs     == [salt : Nat, nCkpt : Nat, frames : {s \in Seq(FrameSet) : Len(s) <= MaxFrame}]

ConnFields      == {"pc", "hdr", "lock", "excl", "nCkpt", "cache", "image", "sp", "w"}
HdrFields       == {"init", "chg", "mx", "n", "salt", "sum"}
WorkFields      == {"todo", "commit", "mxI", "mxMark", "safe", "iter", "changed", "ckpt",
                    "close"}
SavepointFields == {"mx", "sum", "nCkpt", "image"}

HdrOK(h) == /\ DOMAIN h = HdrFields
            /\ h.mx \in Nat
            /\ h.salt \in Nat
            /\ h.sum \in Sums
            /\ h.mx <= Len(h.sum)

WorkOK(w) == /\ DOMAIN w = WorkFields
             /\ w.todo \in Seq(Entries)
             /\ w.mxI \in 0..(NReader - 1)
             /\ w.safe \in 0..MaxFrame

SpOK(sp) == /\ DOMAIN sp = SavepointFields
            /\ sp.sum \in Sums
            /\ sp = NoSavepoint \/ /\ sp.mx \in Nat /\ sp.mx <= Len(sp.sum)
                                   /\ sp.nCkpt \in Nat

ConnType(x) ==
  /\ DOMAIN x = ConnFields
  /\ HdrOK(x.hdr)
  /\ x.lock \in (0 - 1)..(NReader - 1)
  /\ x.excl \subseteq AllLocks
  /\ x.nCkpt \in Nat
  /\ SpOK(x.sp)
  /\ WorkOK(x.w)

\* The phases of a connection, and the locks that go with them.
Outside       == {"closed", "idle", "choose", "lock0"}
Recovering    == {"recover", "recoverHdr", "recoverInfo"}
Restarting    == {"restart", "restartHdr", "restartInfo"}
Logging       == {"frames", "syncHdr", "append", "commitHdr"}
Checkpointing == {"ckptHdr", "ckptTest", "ckptMark", "ckptLock0", "ckptWrite", "ckptEnd"}
Phases        == Outside \cup Recovering \cup Restarting \cup Logging \cup Checkpointing
                   \cup {"retryHdr", "pick", "lockMark", "read"}

Phase(c, x) ==
  /\ x.pc \in Phases
  /\ x.pc \in {"ckptMark", "lockMark"} => x.w.mxI \in Marks
  /\ x.pc = "closed" => x = Closed
  /\ x.pc \in Outside => x.excl = {}
  /\ x.pc \notin Logging \cup Restarting \cup {"read"} => x.lock = 0 - 1
  /\ x.pc \in Logging \cup {"restart", "read", "pick", "lockMark"} => x.excl \subseteq {WRITE}
  /\ x.pc = "retryHdr" /\ ~x.w.ckpt => x.excl = {WRITE}
  /\ x.pc \in Recovering => x.excl = AllLocks
  /\ x.pc \in Restarting \cup Logging \cup {"retryHdr"} => WRITE \in x.excl
  /\ x.w.ckpt => CKPT \in x.excl
  /\ x.w.close => x.w.ckpt
  /\ x.pc \in Checkpointing => x.w.ckpt
  /\ x.pc \notin Checkpointing \cup Recovering \cup {"retryHdr"} => ~x.w.ckpt
  /\ x.w.ckpt => c \in Checkpointers \/ x.w.close

ConnOK(c, x) == ConnType(x) /\ Phase(c, x)

\* Locks exclude each other; a connection that closes the log is alone.
LockInv ==
  \A c, d \in Conn : c # d =>
    /\ con[c].excl \cap con[d].excl = {}
    /\ con[c].lock >= 0 => READ(con[c].lock) \notin con[d].excl
    /\ con[c].w.close => con[d].pc = "closed"

\* The frames that a checksum covers are in the log file.
Written(s, l) == Len(s) <= Len(l.frames)

ConnInv == \A c \in Conn : /\ ConnOK(c, con[c])
                           /\ Written(con[c].hdr.sum, log.cur)
                           /\ Written(con[c].sp.sum, log.cur)

ShmInv == /\ DOMAIN shm = {"h0", "h1", "nBackfill", "mark", "pgno"}
          /\ HdrOK(shm.h0) /\ Written(shm.h0.sum, log.cur)
          /\ HdrOK(shm.h1) /\ Written(shm.h1.sum, log.cur)
          /\ shm.nBackfill \in 0..MaxFrame
          /\ shm.mark \in [Marks -> 0..NotUsed]

LogInv == /\ DOMAIN log = {"cur", "dur", "new"}
          /\ log.cur \in Logs /\ log.dur \in Logs

PastInv == /\ DOMAIN past = {"full", "salt", "ver", "images", "flight"}
           /\ past.salt \in Nat /\ past.ver \in Nat

TypeInv ==
  /\ con = [c \in Conn |-> con[c]]
  /\ LockInv
  /\ ConnInv
  /\ ShmInv
  /\ LogInv
  /\ PastInv

LEMMA Constants ==
  /\ NReader \in Nat /\ NReader >= 2
  /\ MaxFrame \in Nat \ {0} /\ MaxPage \in Nat \ {0}
  /\ NotUsed = MaxFrame + 1
  /\ Marks = 1..(NReader - 1) /\ 1 \in Marks
BY WalAssumption DEF NotUsed, Marks

LEMMA HdrNumbers ==
  ASSUME NEW h, HdrOK(h)
  PROVE  h.mx \in 0..MaxFrame /\ Len(h.sum) \in 0..MaxFrame
<1>1. Len(h.sum) \in Nat /\ Len(h.sum) <= MaxFrame /\ MaxFrame \in Nat
  BY Constants DEF HdrOK, Sums
<1> QED BY <1>1 DEF HdrOK

LEMMA TypeInvGivesTypeOK == TypeInv => TypeOK
<1> SUFFICES ASSUME TypeInv PROVE TypeOK
  OBVIOUS
<1>1. \A c \in Conn : con[c].hdr.mx \in 0..MaxFrame /\ con[c].lock \in (0 - 1)..(NReader - 1)
  BY HdrNumbers DEF TypeInv, ConnInv, ConnOK, ConnType
<1>2. shm.nBackfill \in 0..MaxFrame /\ \A i \in Marks : shm.mark[i] \in 0..NotUsed
  BY DEF TypeInv, ShmInv
<1> QED BY <1>1, <1>2 DEF TypeInv, LockInv, TypeOK

LEMMA WrittenLater ==
  ASSUME NEW s \in Sums, NEW l \in Logs, NEW m \in Logs,
         Len(l.frames) <= Len(m.frames), Written(s, l)
  PROVE  Written(s, m)
<1>1. Len(s) \in Nat /\ Len(l.frames) \in Nat /\ Len(m.frames) \in Nat
  BY DEF Sums, Logs
<1> QED BY <1>1 DEF Written

-----------------------------------------------------------------------------
(* A step of one connection.                                                  *)

\* What a step of connection c has to say of c's new state y, of the locks S
\* that it takes and of the rest of the state.
LEMMA StepInv ==
  ASSUME TypeInv, NEW c \in Conn, NEW y, NEW S,
         con' = [con EXCEPT ![c] = y],
         con[c].pc # "closed" \/ \A d \in Conn : ~con[d].w.close,
         ConnOK(c, y),
         y.excl \subseteq con[c].excl \cup S, ExclFree(c, S),
         \/ y.lock = con[c].lock
         \/ y.lock = 0 - 1
         \/ SharedFree(c, READ(y.lock)),
         y.w.close => con[c].w.close \/ \A d \in Conn \ {c} : con[d].pc = "closed",
         Len(log.cur.frames) <= Len(log'.cur.frames),
         Written(y.hdr.sum, log'.cur), Written(y.sp.sum, log'.cur),
         ShmInv', LogInv', PastInv'
  PROVE  TypeInv'
<1>1. con = [d \in Conn |-> con[d]] /\ LockInv /\ ConnInv /\ LogInv
  BY DEF TypeInv
<1>2. con' = [d \in Conn |-> con'[d]]
  BY <1>1
<1>3. con'[c] = y /\ \A d \in Conn \ {c} : con'[d] = con[d]
  BY <1>1
<1>4. ASSUME NEW d \in Conn \ {c}
      PROVE  /\ y.excl \cap con[d].excl = {}
             /\ y.lock >= 0 => READ(y.lock) \notin con[d].excl
             /\ con[d].lock >= 0 => READ(con[d].lock) \notin y.excl
             /\ y.w.close => con[d].pc = "closed"
             /\ ~con[d].w.close
  <2>1. /\ con[c].excl \cap con[d].excl = {}
        /\ con[c].lock >= 0 => READ(con[c].lock) \notin con[d].excl
        /\ con[d].lock >= 0 => READ(con[d].lock) \notin con[c].excl
        /\ con[c].w.close => con[d].pc = "closed"
        /\ ~con[d].w.close
    BY <1>1 DEF LockInv
  <2>2. con[d].excl \cap S = {} /\ (con[d].lock >= 0 => READ(con[d].lock) \notin S)
    BY DEF ExclFree
  <2>3. y.lock >= 0 => READ(y.lock) \notin con[d].excl
    <3>1. CASE y.lock = con[c].lock
      BY <2>1, <3>1
    <3>2. CASE y.lock = 0 - 1
      BY <3>2
    <3>3. CASE SharedFree(c, READ(y.lock))
      BY <3>3 DEF SharedFree
    <3> QED BY <3>1, <3>2, <3>3
  <2> QED BY <2>1, <2>2, <2>3
<1>5. LockInv'
  <2> SUFFICES ASSUME NEW a \in Conn, NEW b \in Conn, a # b
               PROVE  /\ con'[a].excl \cap con'[b].excl = {}
                      /\ con'[a].lock >= 0 => READ(con'[a].lock) \notin con'[b].excl
                      /\ con'[a].w.close => con'[b].pc = "closed"
    BY DEF LockInv, READ
  <2>1. CASE a = c
    BY <1>3, <1>4, <2>1
  <2>2. CASE b = c
    BY <1>3, <1>4, <2>2
  <2>3. CASE a # c /\ b # c
    BY <1>1, <1>3, <2>3 DEF LockInv
  <2> QED BY <2>1, <2>2, <2>3
<1>6. ConnInv'
  <2> SUFFICES ASSUME NEW d \in Conn
               PROVE  /\ ConnOK(d, con'[d])
                      /\ Written(con'[d].hdr.sum, log'.cur)
                      /\ Written(con'[d].sp.sum, log'.cur)
    BY DEF ConnInv
  <2>1. CASE d = c
    BY <1>3, <2>1
  <2>2. CASE d # c
    <3>1. con'[d] = con[d]
      BY <1>3, <2>2
    <3>2. ConnOK(d, con[d]) /\ Written(con[d].hdr.sum, log.cur) /\ Written(con[d].sp.sum, log.cur)
      BY <1>1 DEF ConnInv
    <3>3. con[d].hdr.sum \in Sums /\ con[d].sp.sum \in Sums
      BY <3>2 DEF ConnOK, ConnType, HdrOK, SpOK
    <3>4. log.cur \in Logs /\ log'.cur \in Logs
      BY <1>1 DEF LogInv
    <3>5. Written(con[d].hdr.sum, log'.cur) /\ Written(con[d].sp.sum, log'.cur)
      BY <3>2, <3>3, <3>4, WrittenLater
    <3> QED BY <3>1, <3>2, <3>5
  <2> QED BY <2>1, <2>2
<1> QED BY <1>2, <1>5, <1>6 DEF TypeInv

\* A step that changes nothing but the connection.
LEMMA ConnStep ==
  ASSUME TypeInv, NEW c \in Conn, NEW y, NEW S,
         con' = [con EXCEPT ![c] = y],
         con[c].pc # "closed" \/ \A d \in Conn : ~con[d].w.close,
         ConnOK(c, y),
         y.excl \subseteq con[c].excl \cup S, ExclFree(c, S),
         \/ y.lock = con[c].lock
         \/ y.lock = 0 - 1
         \/ SharedFree(c, READ(y.lock)),
         y.w.close => con[c].w.close \/ \A d \in Conn \ {c} : con[d].pc = "closed",
         Written(y.hdr.sum, log.cur), Written(y.sp.sum, log.cur),
         UNCHANGED <<shm, log, file, past>>
  PROVE  TypeInv'
<1>1. ShmInv' /\ LogInv' /\ PastInv'
  BY DEF TypeInv, ShmInv, LogInv, PastInv
<1>2. /\ Len(log.cur.frames) <= Len(log'.cur.frames)
      /\ Written(y.hdr.sum, log'.cur) /\ Written(y.sp.sum, log'.cur)
  <2>1. log' = log /\ Len(log.cur.frames) \in Nat
    BY DEF TypeInv, LogInv, Logs
  <2> QED BY <2>1
<1> QED BY <1>1, <1>2, StepInv

\* What the invariant says of one connection.
LEMMA AtConn ==
  ASSUME TypeInv, NEW c \in Conn
  PROVE  /\ ConnType(con[c]) /\ Phase(c, con[c])
         /\ Written(con[c].hdr.sum, log.cur) /\ Written(con[c].sp.sum, log.cur)
         /\ HdrOK(shm.h0) /\ Written(shm.h0.sum, log.cur)
         /\ HdrOK(shm.h1) /\ Written(shm.h1.sum, log.cur)
BY DEF TypeInv, ConnInv, ConnOK, ShmInv

LEMMA NoLocksFree == ASSUME NEW c \in Conn PROVE ExclFree(c, {})
BY DEF ExclFree

LEMMA NewHdrFields ==
  ASSUME NEW x, ConnType(x), NEW h, HdrOK(h)
  PROVE  /\ ConnType(NewHdr(x, h))
         /\ NewHdr(x, h).hdr = h
         /\ \A f \in ConnFields \ {"hdr", "cache", "w"} : NewHdr(x, h)[f] = x[f]
         /\ \A f \in WorkFields \ {"changed"} : NewHdr(x, h).w[f] = x.w[f]
<1>1. DOMAIN x = ConnFields /\ DOMAIN x.w = WorkFields
  BY DEF ConnType, WorkOK
<1>2. /\ DOMAIN NewHdr(x, h) = ConnFields
      /\ NewHdr(x, h).hdr = h
      /\ \A f \in ConnFields \ {"hdr", "cache", "w"} : NewHdr(x, h)[f] = x[f]
  BY <1>1 DEF NewHdr, ConnFields
<1>3. /\ DOMAIN NewHdr(x, h).w = WorkFields
      /\ \A f \in WorkFields \ {"changed"} : NewHdr(x, h).w[f] = x.w[f]
  BY <1>1 DEF NewHdr, ConnFields, WorkFields
<1>4. WorkOK(NewHdr(x, h).w)
  BY <1>3 DEF ConnType, WorkOK, WorkFields
<1>5. ConnType(NewHdr(x, h))
  BY <1>2, <1>4 DEF ConnType, ConnFields
<1> QED BY <1>2, <1>3, <1>5

\* A new phase leaves the types alone.
LEMMA GotoFields ==
  ASSUME NEW x, ConnType(x), NEW pc
  PROVE  /\ ConnType(Goto(x, pc))
         /\ Goto(x, pc).pc = pc
         /\ \A f \in ConnFields \ {"pc"} : Goto(x, pc)[f] = x[f]
BY DEF ConnType, Goto, ConnFields

LEMMA Begun ==
  ASSUME TypeInv, NEW c \in Conn, BeginRead(c)
  PROVE  TypeInv'
<1> DEFINE x == con[c]
<1>1. /\ ConnType(x) /\ Phase(c, x)
      /\ Written(x.hdr.sum, log.cur) /\ Written(x.sp.sum, log.cur)
      /\ HdrOK(shm.h0) /\ Written(shm.h0.sum, log.cur)
  BY AtConn
<1>2. x.pc = "idle" /\ UNCHANGED <<shm, log, file, past>>
  BY DEF BeginRead, Pc
<1>3. CASE con' = [con EXCEPT ![c] = Goto(LoadHdr(x), "choose")]
  <2> DEFINE y == Goto(LoadHdr(x), "choose")
  <2>1. /\ ConnType(LoadHdr(x)) /\ LoadHdr(x).hdr = shm.h0
        /\ \A f \in ConnFields \ {"hdr", "cache", "w"} : LoadHdr(x)[f] = x[f]
        /\ \A f \in WorkFields \ {"changed"} : LoadHdr(x).w[f] = x.w[f]
    BY <1>1, NewHdrFields DEF LoadHdr
  <2>2. /\ ConnType(y) /\ y.pc = "choose"
        /\ \A f \in ConnFields \ {"pc"} : y[f] = LoadHdr(x)[f]
    BY <2>1, GotoFields
  <2> HIDE DEF y
  <2>3. /\ y.lock = x.lock /\ y.excl = x.excl /\ y.sp = x.sp /\ y.hdr = shm.h0
        /\ y.w.ckpt = x.w.ckpt /\ y.w.close = x.w.close
    BY <2>1, <2>2 DEF ConnFields, WorkFields
  <2>4. Phase(c, y)
    BY <1>1, <1>2, <2>2, <2>3 DEF Phase, Phases, Outside, Recovering, Restarting, Logging,
       Checkpointing
  <2>5. con' = [con EXCEPT ![c] = y]
    BY <1>3 DEF y
  <2> QED BY <1>1, <1>2, <2>2, <2>3, <2>4, <2>5, ConnStep, NoLocksFree DEF ConnOK
<1>4. CASE /\ ExclFree(c, {WRITE})
           /\ con' = [con EXCEPT ![c] = [Goto(x, "retryHdr") EXCEPT !.excl = {WRITE}]]
  <2> DEFINE y == [Goto(x, "retryHdr") EXCEPT !.excl = {WRITE}]
  <2>1. DOMAIN y = ConnFields /\ y.pc = "retryHdr" /\ y.excl = {WRITE}
    BY <1>1 DEF ConnType, Goto, ConnFields
  <2>2. \A f \in ConnFields \ {"pc", "excl"} : y[f] = x[f]
    BY <1>1 DEF ConnType, Goto, ConnFields
  <2> HIDE DEF y
  <2>3. ConnType(y)
    BY <1>1, <2>1, <2>2, Constants DEF ConnType, ConnFields, WRITE, AllLocks
  <2>4. y.lock = x.lock /\ y.w = x.w /\ y.hdr = x.hdr /\ y.sp = x.sp
    BY <2>2 DEF ConnFields
  <2>5. Phase(c, y)
    BY <1>1, <1>2, <2>1, <2>4 DEF Phase, Phases, Outside, Recovering, Restarting, Logging,
       Checkpointing
  <2>6. con' = [con EXCEPT ![c] = y]
    BY <1>4 DEF y
  <2> QED BY <1>1, <1>2, <1>4, <2>1, <2>3, <2>4, <2>5, <2>6, ConnStep DEF ConnOK
<1> QED BY <1>3, <1>4 DEF BeginRead, Put

LEMMA Chosen ==
  ASSUME TypeInv, NEW c \in Conn, Choose(c)
  PROVE  TypeInv'
<1> DEFINE x == con[c]
           pc == IF shm.nBackfill = x.hdr.mx THEN "lock0" ELSE "pick"
           y  == Goto(x, pc)
<1>1. /\ ConnType(x) /\ Phase(c, x)
      /\ Written(x.hdr.sum, log.cur) /\ Written(x.sp.sum, log.cur)
  BY AtConn
<1>2. /\ x.pc = "choose" /\ UNCHANGED <<shm, log, file, past>>
      /\ con' = [con EXCEPT ![c] = y]
  BY DEF Choose, Pc, Put
<1>3. pc \in {"lock0", "pick"}
  OBVIOUS
<1>4. ConnType(y) /\ y.pc = pc /\ \A f \in ConnFields \ {"pc"} : y[f] = x[f]
  BY <1>1, GotoFields
<1> HIDE DEF y, pc
<1>5. y.excl = x.excl /\ y.lock = x.lock /\ y.w = x.w /\ y.hdr = x.hdr /\ y.sp = x.sp
  BY <1>4 DEF ConnFields
<1>6. Phase(c, y)
  BY <1>1, <1>2, <1>3, <1>4, <1>5 DEF Phase, Phases, Outside, Recovering, Restarting, Logging,
     Checkpointing
<1> QED BY <1>1, <1>2, <1>4, <1>5, <1>6, ConnStep, NoLocksFree DEF ConnOK

LEMMA NothingDone == WorkOK(NoWork) /\ SpOK(NoSavepoint) /\ HdrOK(NoHdr)
<1>1. <<>> \in Sums /\ Len(<<>>) = 0
  BY Constants DEF Sums
<1>2. WorkOK(NoWork)
  BY Constants DEF NoWork, WorkOK, WorkFields
<1>3. SpOK(NoSavepoint)
  BY <1>1 DEF NoSavepoint, SpOK, SavepointFields
<1>4. HdrOK(NoHdr)
  BY <1>1 DEF NoHdr, Hdr, HdrOK, HdrFields
<1> QED BY <1>2, <1>3, <1>4

LEMMA RetryOK ==
  ASSUME NEW c \in Conn, NEW x, ConnType(x), Phase(c, x),
         x.pc \in {"lock0", "pick", "lockMark"}
  PROVE  /\ ConnOK(c, Retry(x))
         /\ \A f \in {"excl", "lock", "hdr", "sp"} : Retry(x)[f] = x[f]
         /\ ~Retry(x).w.close
<1> DEFINE y == Retry(x)
<1>0. /\ x.lock = 0 - 1 /\ x.excl \subseteq {WRITE} /\ ~x.w.ckpt /\ ~x.w.close
  BY DEF Phase, Outside, Recovering, Restarting, Logging, Checkpointing
<1>1. CASE WRITE \in x.excl
  <2>1. y = Goto(x, "pick")
    BY <1>1 DEF Retry
  <2>2. ConnType(y) /\ y.pc = "pick" /\ \A f \in ConnFields \ {"pc"} : y[f] = x[f]
    BY <2>1, GotoFields
  <2> HIDE DEF y
  <2>3. y.excl = x.excl /\ y.lock = x.lock /\ y.w = x.w /\ y.hdr = x.hdr /\ y.sp = x.sp
    BY <2>2 DEF ConnFields
  <2>4. Phase(c, y)
    BY <1>0, <2>2, <2>3 DEF Phase, Phases, Outside, Recovering, Restarting, Logging,
       Checkpointing
  <2> QED BY <1>0, <2>2, <2>3, <2>4 DEF ConnOK, y
<1>2. CASE WRITE \notin x.excl
  <2>1. y = [Goto(x, "idle") EXCEPT !.w = NoWork]
    BY <1>2 DEF Retry
  <2>2. /\ DOMAIN y = ConnFields /\ y.pc = "idle" /\ y.w = NoWork
        /\ \A f \in ConnFields \ {"pc", "w"} : y[f] = x[f]
    BY <2>1 DEF ConnType, Goto, ConnFields
  <2> HIDE DEF y
  <2>3. y.excl = x.excl /\ y.lock = x.lock /\ y.hdr = x.hdr /\ y.sp = x.sp
    BY <2>2 DEF ConnFields
  <2>4. ConnType(y)
    BY <2>2, NothingDone DEF ConnType, ConnFields
  <2>5. ~y.w.ckpt /\ ~y.w.close /\ y.excl = {}
    BY <1>0, <1>2, <2>2, <2>3 DEF NoWork
  <2>6. Phase(c, y)
    BY <1>0, <2>2, <2>3, <2>5 DEF Phase, Phases, Outside, Recovering, Restarting, Logging,
       Checkpointing
  <2> QED BY <2>3, <2>4, <2>5, <2>6 DEF ConnOK, y
<1> QED BY <1>1, <1>2

\* A reader that has its lock.
LEMMA ReadingOK ==
  ASSUME NEW c \in Conn, NEW x, ConnType(x), Phase(c, x), NEW i \in 0..(NReader - 1),
         x.pc \in {"lock0", "lockMark"}
  PROVE  /\ ConnOK(c, Goto(Reading(x, i), "read"))
         /\ \A f \in {"excl", "hdr", "sp"} : Goto(Reading(x, i), "read")[f] = x[f]
         /\ Goto(Reading(x, i), "read").lock = i
         /\ ~Goto(Reading(x, i), "read").w.close
<1> DEFINE y == Goto(Reading(x, i), "read")
<1>1. /\ DOMAIN y = ConnFields /\ y.pc = "read" /\ y.lock = i /\ y.w = NoWork
      /\ \A f \in ConnFields \ {"pc", "lock", "w", "image", "cache"} : y[f] = x[f]
  BY DEF ConnType, Goto, Reading, ConnFields
<1> HIDE DEF y
<1>2. y.excl = x.excl /\ y.hdr = x.hdr /\ y.sp = x.sp /\ y.nCkpt = x.nCkpt
  BY <1>1 DEF ConnFields
<1>3. ConnType(y)
  BY <1>1, <1>2, NothingDone, Constants DEF ConnType
<1>4. ~y.w.ckpt /\ ~y.w.close
  BY <1>1 DEF NoWork
<1>5. Phase(c, y)
  BY <1>1, <1>2, <1>4 DEF Phase, Phases, Outside, Recovering, Restarting, Logging,
     Checkpointing
<1> QED BY <1>1, <1>2, <1>3, <1>4, <1>5 DEF ConnOK, y

LEMMA Locked0 ==
  ASSUME TypeInv, NEW c \in Conn, Lock0(c)
  PROVE  TypeInv'
<1> DEFINE x == con[c]
<1>1. /\ ConnType(x) /\ Phase(c, x)
      /\ Written(x.hdr.sum, log.cur) /\ Written(x.sp.sum, log.cur)
  BY AtConn
<1>2. x.pc = "lock0" /\ UNCHANGED <<shm, log, file, past>>
  BY DEF Lock0, Pc
<1>3. CASE con' = [con EXCEPT ![c] = Goto(x, "pick")]
  <2> DEFINE y == Goto(x, "pick")
  <2>1. ConnType(y) /\ y.pc = "pick" /\ \A f \in ConnFields \ {"pc"} : y[f] = x[f]
    BY <1>1, GotoFields
  <2> HIDE DEF y
  <2>2. y.excl = x.excl /\ y.lock = x.lock /\ y.w = x.w /\ y.hdr = x.hdr /\ y.sp = x.sp
    BY <2>1 DEF ConnFields
  <2>3. Phase(c, y)
    BY <1>1, <1>2, <2>1, <2>2 DEF Phase, Phases, Outside, Recovering, Restarting, Logging,
       Checkpointing
  <2>4. con' = [con EXCEPT ![c] = y]
    BY <1>3 DEF y
  <2> QED BY <1>1, <1>2, <2>1, <2>2, <2>3, <2>4, ConnStep, NoLocksFree DEF ConnOK
<1>4. CASE con' = [con EXCEPT ![c] = Retry(x)]
  <2> DEFINE y == Retry(x)
  <2>1. ConnOK(c, y) /\ y.excl = x.excl /\ y.lock = x.lock /\ y.hdr = x.hdr /\ y.sp = x.sp
        /\ ~y.w.close
    BY <1>1, <1>2, RetryOK
  <2>2. con' = [con EXCEPT ![c] = y]
    BY <1>4
  <2> HIDE DEF y
  <2> QED BY <1>1, <1>2, <2>1, <2>2, ConnStep, NoLocksFree
<1>5. CASE SharedFree(c, READ(0)) /\ con' = [con EXCEPT ![c] = Goto(Reading(x, 0), "read")]
  <2> DEFINE y == Goto(Reading(x, 0), "read")
  <2>1. 0 \in 0..(NReader - 1)
    BY Constants
  <2>2. ConnOK(c, y) /\ y.excl = x.excl /\ y.lock = 0 /\ y.hdr = x.hdr /\ y.sp = x.sp
        /\ ~y.w.close
    BY <1>1, <1>2, <2>1, ReadingOK
  <2>3. con' = [con EXCEPT ![c] = y]
    BY <1>5
  <2> HIDE DEF y
  <2> QED BY <1>1, <1>2, <1>5, <2>2, <2>3, ConnStep, NoLocksFree
<1> QED BY <1>3, <1>4, <1>5 DEF Lock0, Put

LEMMA ReadEnded ==
  ASSUME TypeInv, NEW c \in Conn, EndRead(c)
  PROVE  TypeInv'
<1> DEFINE x == con[c]
           y == Ended(x)
<1>1. /\ ConnType(x) /\ Phase(c, x)
      /\ Written(x.hdr.sum, log.cur) /\ Written(x.sp.sum, log.cur)
  BY AtConn
<1>2. /\ x.pc = "read" /\ UNCHANGED <<shm, log, file, past>>
      /\ con' = [con EXCEPT ![c] = y]
  BY DEF EndRead, Pc, Put
<1> HIDE DEF y
<1>3. /\ DOMAIN y = ConnFields /\ y.pc = "idle" /\ y.excl = {} /\ y.lock = 0 - 1
      /\ y.hdr = x.hdr /\ y.nCkpt = x.nCkpt /\ y.sp = NoSavepoint /\ y.w = NoWork
  BY DEF Ended, Connected, ConnFields, y
<1>4. ConnOK(c, y)
  <2>1. ConnType(y)
    BY <1>1, <1>3, NothingDone, Constants DEF ConnType
  <2>2. ~y.w.ckpt /\ ~y.w.close
    BY <1>3 DEF NoWork
  <2> QED BY <1>3, <2>1, <2>2 DEF ConnOK, Phase, Phases, Outside, Recovering, Restarting,
          Logging, Checkpointing
<1>5. ~y.w.close
  BY <1>3 DEF NoWork
<1>6. Written(y.hdr.sum, log.cur) /\ Written(y.sp.sum, log.cur)
  <2>1. Written(NoSavepoint.sum, log.cur)
    <3>1. NoSavepoint.sum = <<>> /\ Len(<<>>) = 0
      BY DEF NoSavepoint
    <3>2. Len(log.cur.frames) \in Nat
      BY DEF TypeInv, LogInv, Logs
    <3> QED BY <3>1, <3>2 DEF Written
  <2> QED BY <1>1, <1>3, <2>1
<1> QED BY <1>2, <1>3, <1>4, <1>5, <1>6, ConnStep, NoLocksFree

LEMMA WriteBegun ==
  ASSUME TypeInv, NEW c \in Conn, BeginWrite(c)
  PROVE  TypeInv'
<1> DEFINE x == con[c]
           y == [x EXCEPT !.excl = {WRITE}]
<1>1. /\ ConnType(x) /\ Phase(c, x)
      /\ Written(x.hdr.sum, log.cur) /\ Written(x.sp.sum, log.cur)
  BY AtConn
<1>2. /\ x.pc = "read" /\ UNCHANGED <<shm, log, file, past>>
      /\ con' = [con EXCEPT ![c] = y] /\ ExclFree(c, {WRITE})
  BY DEF BeginWrite, Pc, Put
<1> HIDE DEF y
<1>3. /\ DOMAIN y = ConnFields /\ y.excl = {WRITE} /\ y.pc = x.pc /\ y.lock = x.lock
      /\ y.hdr = x.hdr /\ y.nCkpt = x.nCkpt /\ y.sp = x.sp /\ y.w = x.w
  BY <1>1 DEF ConnType, ConnFields, y
<1>4. ConnOK(c, y)
  <2>1. ConnType(y)
    BY <1>1, <1>3, Constants DEF ConnType, WRITE, AllLocks
  <2> QED BY <1>1, <1>2, <1>3, <2>1 DEF ConnOK, Phase, Phases, Outside, Recovering, Restarting,
          Logging, Checkpointing
<1> QED BY <1>1, <1>2, <1>3, <1>4, ConnStep

\* A step that changes the connection and the wal-index.
LEMMA ShmStep ==
  ASSUME TypeInv, NEW c \in Conn, NEW y, NEW S,
         con' = [con EXCEPT ![c] = y],
         con[c].pc # "closed" \/ \A d \in Conn : ~con[d].w.close,
         ConnOK(c, y),
         y.excl \subseteq con[c].excl \cup S, ExclFree(c, S),
         \/ y.lock = con[c].lock
         \/ y.lock = 0 - 1
         \/ SharedFree(c, READ(y.lock)),
         y.w.close => con[c].w.close \/ \A d \in Conn \ {c} : con[d].pc = "closed",
         Written(y.hdr.sum, log.cur), Written(y.sp.sum, log.cur),
         ShmInv', PastInv', UNCHANGED <<log, file>>
  PROVE  TypeInv'
<1>1. LogInv'
  BY DEF TypeInv, LogInv
<1>2. /\ Len(log.cur.frames) <= Len(log'.cur.frames)
      /\ Written(y.hdr.sum, log'.cur) /\ Written(y.sp.sum, log'.cur)
  <2>1. log' = log /\ Len(log.cur.frames) \in Nat
    BY DEF TypeInv, LogInv, Logs
  <2> QED BY <2>1
<1> QED BY <1>1, <1>2, StepInv

\* A log that has not become shorter is as good for the wal-index.
LEMMA ShmKept ==
  ASSUME TypeInv, UNCHANGED shm, log'.cur \in Logs,
         Len(log.cur.frames) <= Len(log'.cur.frames)
  PROVE  ShmInv'
<1>1. ShmInv /\ log.cur \in Logs
  BY DEF TypeInv, LogInv
<1>2. shm.h0.sum \in Sums /\ shm.h1.sum \in Sums
  BY <1>1 DEF ShmInv, HdrOK
<1>3. Written(shm.h0.sum, log'.cur) /\ Written(shm.h1.sum, log'.cur)
  BY <1>1, <1>2, WrittenLater DEF ShmInv
<1> QED BY <1>1, <1>3 DEF ShmInv

LEMMA BestMarkOK ==
  ASSUME TypeInv, NEW x, HdrOK(x.hdr)
  PROVE  /\ BestMark(x) \in 0..(NReader - 1)
         /\ BestMark(x) # 0 => /\ BestMark(x) \in Marks
                               /\ shm.mark[BestMark(x)] <= x.hdr.mx
<1> DEFINE ok   == {i \in Marks : shm.mark[i] <= x.hdr.mx}
           best == {i \in ok : \A j \in ok : shm.mark[j] <= shm.mark[i]}
           vals == {shm.mark[i] : i \in ok}
<1>1. CASE ok = {}
  BY <1>1, Constants DEF BestMark
<1>2. CASE ok # {}
  <2>0. shm.mark \in [Marks -> 0..NotUsed] /\ ok \subseteq Marks
    BY DEF TypeInv, ShmInv
  <2>1. vals \subseteq 0..NotUsed /\ vals # {} /\ NotUsed \in Nat
    BY <1>2, <2>0, Constants
  <2> HIDE DEF vals
  <2>2. Max(vals) \in vals /\ \A v \in vals : Max(vals) >= v
    BY <2>1, MaxOf
  <2>3. PICK i \in ok : Max(vals) = shm.mark[i]
    BY <2>2 DEF vals
  <2>4. \A j \in ok : shm.mark[j] <= shm.mark[i]
    <3> SUFFICES ASSUME NEW j \in ok PROVE shm.mark[j] <= shm.mark[i]
      OBVIOUS
    <3>1. shm.mark[j] \in vals
      BY DEF vals
    <3>2. Max(vals) >= shm.mark[j]
      BY <2>2, <3>1
    <3>3. vals \subseteq Int
      BY <2>1
    <3>4. shm.mark[j] \in Int /\ Max(vals) \in Int
      BY <2>2, <3>1, <3>3
    <3> QED BY <2>3, <3>2, <3>4
  <2>5. /\ best # {} /\ best \subseteq Marks
        /\ \A k \in best : k \in Marks /\ shm.mark[k] <= x.hdr.mx
    BY <2>4
  <2>6. Marks \subseteq 0..(NReader - 1) /\ NReader - 1 \in Nat
    BY Constants
  <2>7. BestMark(x) = Max(best)
    BY <1>2 DEF BestMark
  <2> HIDE DEF best, ok
  <2>8. Max(best) \in best
    BY <2>5, <2>6, MaxOf
  <2> QED BY <2>5, <2>6, <2>7, <2>8
<1> QED BY <1>1, <1>2

LEMMA Picked ==
  ASSUME TypeInv, NEW c \in Conn, Pick(c)
  PROVE  TypeInv'
<1> DEFINE x     == con[c]
           i     == BestMark(x)
           free  == {j \in Marks : ExclFree(c, {READ(j)})}
           raise == (i = 0 \/ shm.mark[i] < x.hdr.mx) /\ free # {}
           j     == IF raise THEN Min(free) ELSE i
           m     == IF raise THEN x.hdr.mx ELSE shm.mark[j]
           y     == [Goto(x, "lockMark") EXCEPT !.w.mxI = j, !.w.mxMark = m]
<1>1. /\ ConnType(x) /\ Phase(c, x)
      /\ Written(x.hdr.sum, log.cur) /\ Written(x.sp.sum, log.cur)
  BY AtConn
<1>2. /\ x.pc = "pick" /\ UNCHANGED <<log, file, past>>
      /\ shm' = IF raise THEN [shm EXCEPT !.mark[j] = x.hdr.mx] ELSE shm
      /\ con' = [con EXCEPT ![c] = IF j = 0 THEN Retry(x) ELSE y]
  BY DEF Pick, Pc, Put
<1>3. raise => j \in Marks
  <2>1. free \subseteq Nat
    BY Constants
  <2>2. raise => Min(free) \in free
    BY <2>1, MinOf
  <2> QED BY <2>2
<1>4. j \in 0..(NReader - 1)
  <2>1. i \in 0..(NReader - 1)
    BY <1>1, BestMarkOK DEF ConnType
  <2>2. Marks \subseteq 0..(NReader - 1)
    BY Constants
  <2>3. CASE raise
    BY <1>3, <2>2, <2>3
  <2>4. CASE ~raise
    BY <2>1, <2>4
  <2> QED BY <2>3, <2>4
<1> HIDE DEF i, free, raise, j, m
<1>5. ShmInv' /\ PastInv'
  <2>1. PastInv'
    BY <1>2 DEF TypeInv, PastInv
  <2>2. ShmInv /\ log' = log
    BY <1>2 DEF TypeInv
  <2>3. CASE raise
    <3>1. x.hdr.mx \in 0..NotUsed
      BY <1>1, HdrNumbers, Constants DEF ConnType
    <3>2. shm' = [shm EXCEPT !.mark[j] = x.hdr.mx]
      BY <1>2, <2>3
    <3>3. /\ DOMAIN shm' = DOMAIN shm
          /\ shm'.h0 = shm.h0 /\ shm'.h1 = shm.h1 /\ shm'.nBackfill = shm.nBackfill
          /\ shm'.mark = [shm.mark EXCEPT ![j] = x.hdr.mx]
      BY <2>2, <3>2 DEF ShmInv
    <3>4. shm'.mark \in [Marks -> 0..NotUsed]
      BY <2>2, <3>1, <3>3 DEF ShmInv
    <3> QED BY <2>1, <2>2, <3>3, <3>4 DEF ShmInv
  <2>4. CASE ~raise
    BY <1>2, <2>1, <2>2, <2>4 DEF ShmInv
  <2> QED BY <2>3, <2>4
<1>6. CASE j = 0
  <2> DEFINE z == Retry(x)
  <2>1. ConnOK(c, z) /\ z.excl = x.excl /\ z.lock = x.lock /\ z.hdr = x.hdr /\ z.sp = x.sp
        /\ ~z.w.close
    BY <1>1, <1>2, RetryOK
  <2>2. con' = [con EXCEPT ![c] = z]
    BY <1>2, <1>6
  <2> HIDE DEF z
  <2> QED BY <1>1, <1>2, <1>5, <2>1, <2>2, ShmStep, NoLocksFree
<1>7. CASE j # 0
  <2>1. con' = [con EXCEPT ![c] = y]
    BY <1>2, <1>7
  <2>2. /\ DOMAIN y = ConnFields /\ y.pc = "lockMark"
        /\ \A f \in ConnFields \ {"pc", "w"} : y[f] = x[f]
        /\ DOMAIN y.w = WorkFields /\ y.w.mxI = j
        /\ \A f \in WorkFields \ {"mxI", "mxMark"} : y.w[f] = x.w[f]
    BY <1>1 DEF ConnType, Goto, ConnFields, WorkOK, WorkFields
  <2> HIDE DEF y
  <2>3. y.excl = x.excl /\ y.lock = x.lock /\ y.hdr = x.hdr /\ y.sp = x.sp /\ y.nCkpt = x.nCkpt
    BY <2>2 DEF ConnFields
  <2>4. /\ y.w.ckpt = x.w.ckpt /\ y.w.close = x.w.close
        /\ y.w.todo = x.w.todo /\ y.w.safe = x.w.safe
    BY <2>2 DEF WorkFields
  <2>5. ConnType(y)
    <3>1. WorkOK(y.w)
      BY <1>1, <1>4, <2>2, <2>4 DEF ConnType, WorkOK
    <3> QED BY <1>1, <2>2, <2>3, <3>1 DEF ConnType
  <2>6. y.w.mxI \in Marks
    BY <1>4, <1>7, <2>2, Constants
  <2>7. Phase(c, y)
    BY <1>1, <1>2, <2>2, <2>3, <2>4, <2>6 DEF Phase, Phases, Outside, Recovering, Restarting,
       Logging, Checkpointing
  <2> QED BY <1>1, <1>2, <1>5, <2>1, <2>3, <2>4, <2>5, <2>7, ShmStep, NoLocksFree DEF ConnOK
<1> QED BY <1>6, <1>7

LEMMA MarkLocked ==
  ASSUME TypeInv, NEW c \in Conn, LockMark(c)
  PROVE  TypeInv'
<1> DEFINE x == con[c]
<1>1. /\ ConnType(x) /\ Phase(c, x)
      /\ Written(x.hdr.sum, log.cur) /\ Written(x.sp.sum, log.cur)
  BY AtConn
<1>2. x.pc = "lockMark" /\ UNCHANGED <<shm, log, file, past>>
  BY DEF LockMark, Pc
<1>3. x.w.mxI \in Marks
  BY <1>1, <1>2 DEF Phase
<1>4. CASE con' = [con EXCEPT ![c] = Retry(x)]
  <2> DEFINE y == Retry(x)
  <2>1. ConnOK(c, y) /\ y.excl = x.excl /\ y.lock = x.lock /\ y.hdr = x.hdr /\ y.sp = x.sp
        /\ ~y.w.close
    BY <1>1, <1>2, RetryOK
  <2>2. con' = [con EXCEPT ![c] = y]
    BY <1>4
  <2> HIDE DEF y
  <2> QED BY <1>1, <1>2, <2>1, <2>2, ConnStep, NoLocksFree
<1>5. CASE /\ SharedFree(c, READ(x.w.mxI))
           /\ con' = [con EXCEPT ![c] = Goto(Reading(x, x.w.mxI), "read")]
  <2> DEFINE i == x.w.mxI
             y == Goto(Reading(x, i), "read")
  <2>1. i \in 0..(NReader - 1)
    BY <1>3, Constants
  <2>2. ConnOK(c, y) /\ y.excl = x.excl /\ y.lock = i /\ y.hdr = x.hdr /\ y.sp = x.sp
        /\ ~y.w.close
    BY <1>1, <1>2, <2>1, ReadingOK
  <2>3. con' = [con EXCEPT ![c] = y]
    BY <1>5
  <2>4. SharedFree(c, READ(i))
    BY <1>5
  <2> HIDE DEF y, i
  <2> QED BY <1>1, <1>2, <2>2, <2>3, <2>4, ConnStep, NoLocksFree
<1>6. CASE /\ SharedFree(c, READ(x.w.mxI)) /\ WRITE \in x.excl
           /\ con' = [con EXCEPT ![c] = Goto([x EXCEPT !.lock = x.w.mxI, !.w.mxI = 0,
                                                       !.w.mxMark = 0], "frames")]
  <2> DEFINE i == x.w.mxI
             y == Goto([x EXCEPT !.lock = i, !.w.mxI = 0, !.w.mxMark = 0], "frames")
  <2>1. /\ DOMAIN y = ConnFields /\ y.pc = "frames" /\ y.lock = i
        /\ \A f \in ConnFields \ {"pc", "lock", "w"} : y[f] = x[f]
        /\ DOMAIN y.w = WorkFields /\ y.w.mxI = 0
        /\ \A f \in WorkFields \ {"mxI", "mxMark"} : y.w[f] = x.w[f]
    BY <1>1 DEF ConnType, Goto, ConnFields, WorkOK, WorkFields
  <2>2. con' = [con EXCEPT ![c] = y] /\ SharedFree(c, READ(i))
    BY <1>6
  <2>3. i \in (0 - 1)..(NReader - 1)
    BY <1>3, Constants
  <2> HIDE DEF y, i
  <2>4. y.excl = x.excl /\ y.hdr = x.hdr /\ y.sp = x.sp /\ y.nCkpt = x.nCkpt
    BY <2>1 DEF ConnFields
  <2>5. /\ y.w.ckpt = x.w.ckpt /\ y.w.close = x.w.close
        /\ y.w.todo = x.w.todo /\ y.w.safe = x.w.safe
    BY <2>1 DEF WorkFields
  <2>6. ConnType(y)
    <3>1. WorkOK(y.w)
      BY <1>1, <2>1, <2>5, Constants DEF ConnType, WorkOK
    <3> QED BY <1>1, <2>1, <2>3, <2>4, <3>1 DEF ConnType
  <2>7. Phase(c, y)
    BY <1>1, <1>2, <1>6, <2>1, <2>4, <2>5 DEF Phase, Phases, Outside, Recovering, Restarting,
       Logging, Checkpointing
  <2> QED BY <1>1, <1>2, <2>1, <2>2, <2>4, <2>5, <2>6, <2>7, ConnStep, NoLocksFree DEF ConnOK
<1> QED BY <1>4, <1>5, <1>6 DEF LockMark, Put

-----------------------------------------------------------------------------
(* Write transactions.                                                        *)

\* What is known of a connection in a write transaction.
LEMMA InWrite ==
  ASSUME TypeInv, NEW c \in Conn,
         \/ con[c].pc \in Logging \cup {"restart"}
         \/ con[c].pc = "read" /\ WRITE \in con[c].excl
  PROVE  con[c].excl = {WRITE} /\ ~con[c].w.ckpt /\ ~con[c].w.close
<1>1. Phase(c, con[c])
  BY AtConn
<1> QED BY <1>1 DEF Phase, Outside, Recovering, Restarting, Logging, Checkpointing

\* The frames of a call of sqlite3WalFrames that are still to be written.
Todo(S, pages, v, n) ==
  [k \in DOMAIN pages |-> Entry(pages[k], v, IF k = Cardinality(S) THEN n ELSE 0)]

LEMMA TodoOK ==
  ASSUME NEW S, S \subseteq 1..MaxPage, NEW pages \in [1..Cardinality(S) -> S],
         NEW v \in Nat, NEW n \in 0..MaxPage
  PROVE  Todo(S, pages, v, n) \in Seq(Entries)
<1>1. IsFiniteSet(1..MaxPage)
  BY FS_Interval, Constants
<1>2. IsFiniteSet(S)
  BY <1>1, FS_Subset
<1>3. Cardinality(S) \in Nat
  BY <1>2, FS_CardinalityType
<1>4. DOMAIN pages = 1..Cardinality(S)
  OBVIOUS
<1>5. \A k \in 1..Cardinality(S) :
        Entry(pages[k], v, IF k = Cardinality(S) THEN n ELSE 0) \in Entries
  <2> SUFFICES ASSUME NEW k \in 1..Cardinality(S),
                      NEW m \in 0..MaxPage
               PROVE  Entry(pages[k], v, m) \in Entries
    BY Constants
  <2> QED BY DEF Entry, Entries
<1> QED BY <1>3, <1>4, <1>5 DEF Todo

LEMMA FramesBegun ==
  ASSUME TypeInv, NEW c \in Conn, NEW S, S \subseteq 1..MaxPage, NEW n \in 0..MaxPage,
         NEW commit, Frames(c, S, n, commit)
  PROVE  TypeInv'
<1> DEFINE x  == con[c]
           v  == past.ver + 1
           pc == IF x.lock = 0 THEN "restart" ELSE "frames"
           new == IF commit THEN n ELSE Max(S \cup {Len(x.image)})
<1>1. /\ ConnType(x) /\ Phase(c, x)
      /\ Written(x.hdr.sum, log.cur) /\ Written(x.sp.sum, log.cur)
  BY AtConn
<1>2. /\ x.pc = "read" /\ WRITE \in x.excl
      /\ past' = [past EXCEPT !.ver = v] /\ UNCHANGED <<shm, log, file>>
  BY DEF Frames, Writing, Pc
<1>3. x.excl = {WRITE} /\ ~x.w.ckpt /\ ~x.w.close
  BY <1>2, InWrite
<1>4. PICK pages \in [1..Cardinality(S) -> S] :
        con' = [con EXCEPT ![c] =
                  [Goto(x, pc) EXCEPT
                     !.image = Changed(@, S, v, new),
                     !.w.commit = commit,
                     !.w.todo = [k \in DOMAIN pages |->
                                   Entry(pages[k], v, IF k = Cardinality(S) THEN n ELSE 0)]]]
  BY DEF Frames, Put
<1> HIDE DEF new
<1> DEFINE todo == [k \in DOMAIN pages |-> Entry(pages[k], v, IF k = Cardinality(S) THEN n ELSE 0)]
           y == [Goto(x, pc) EXCEPT !.image = Changed(@, S, v, new), !.w.commit = commit,
                                    !.w.todo = todo]
<1>5. v \in Nat /\ PastInv'
  BY <1>2 DEF TypeInv, PastInv
<1> HIDE DEF v
<1>6. todo \in Seq(Entries)
  <2>1. Todo(S, pages, v, n) \in Seq(Entries)
    BY <1>5, TodoOK
  <2>2. todo = Todo(S, pages, v, n)
    BY DEF Todo
  <2> HIDE DEF todo
  <2> QED BY <2>1, <2>2
<1> HIDE DEF todo
<1>7. pc \in {"restart", "frames"}
  OBVIOUS
<1> HIDE DEF pc
<1>8. /\ DOMAIN y = ConnFields /\ y.pc = pc
      /\ \A f \in ConnFields \ {"pc", "image", "w"} : y[f] = x[f]
      /\ DOMAIN y.w = WorkFields /\ y.w.todo = todo
      /\ \A f \in WorkFields \ {"commit", "todo"} : y.w[f] = x.w[f]
  BY <1>1 DEF ConnType, Goto, ConnFields, WorkOK, WorkFields
<1>9. con' = [con EXCEPT ![c] = y]
  BY <1>4 DEF todo
<1> HIDE DEF y
<1>10. y.excl = x.excl /\ y.lock = x.lock /\ y.hdr = x.hdr /\ y.sp = x.sp /\ y.nCkpt = x.nCkpt
  BY <1>8 DEF ConnFields
<1>11. /\ y.w.ckpt = x.w.ckpt /\ y.w.close = x.w.close
       /\ y.w.mxI = x.w.mxI /\ y.w.safe = x.w.safe
  BY <1>8 DEF WorkFields
<1>12. ConnType(y)
  <2>1. WorkOK(y.w)
    BY <1>1, <1>6, <1>8, <1>11 DEF ConnType, WorkOK
  <2> QED BY <1>1, <1>8, <1>10, <2>1 DEF ConnType
<1>13. Phase(c, y)
  BY <1>1, <1>2, <1>3, <1>7, <1>8, <1>10, <1>11 DEF Phase, Phases, Outside, Recovering,
     Restarting, Logging, Checkpointing
<1>14. ShmInv'
  BY <1>2 DEF TypeInv, ShmInv
<1> QED BY <1>1, <1>2, <1>5, <1>9, <1>10, <1>11, <1>12, <1>13, <1>14, ShmStep, NoLocksFree
        DEF ConnOK

LEMMA LogRestarted ==
  ASSUME TypeInv, NEW c \in Conn, RestartLog(c)
  PROVE  TypeInv'
<1> DEFINE x == con[c]
<1>1. /\ ConnType(x) /\ Phase(c, x)
      /\ Written(x.hdr.sum, log.cur) /\ Written(x.sp.sum, log.cur)
  BY AtConn
<1>2. x.pc = "restart" /\ UNCHANGED <<log, file>>
  BY DEF RestartLog, Pc
<1>3. x.excl = {WRITE} /\ ~x.w.ckpt /\ ~x.w.close
  BY <1>2, InWrite
<1>4. CASE /\ ExclFree(c, RestartLocks)
           /\ past' = [past EXCEPT !.salt = @ + 1]
           /\ shm' = [shm EXCEPT !.h1 = Restarted(x).hdr]
           /\ con' = [con EXCEPT ![c] = [Goto(Restarted(x), "restartHdr") EXCEPT
                                           !.excl = @ \cup RestartLocks]]
  <2> DEFINE h == [x.hdr EXCEPT !.mx = 0, !.salt = past.salt + 1]
             y == [Goto(Restarted(x), "restartHdr") EXCEPT !.excl = @ \cup RestartLocks]
  <2>1. /\ DOMAIN y = ConnFields /\ y.pc = "restartHdr" /\ y.hdr = h /\ y.nCkpt = x.nCkpt + 1
        /\ y.excl = x.excl \cup RestartLocks
        /\ \A f \in ConnFields \ {"pc", "hdr", "nCkpt", "excl"} : y[f] = x[f]
        /\ Restarted(x).hdr = h
    BY <1>1 DEF ConnType, Goto, Restarted, ConnFields
  <2>2. con' = [con EXCEPT ![c] = y] /\ shm' = [shm EXCEPT !.h1 = h]
    BY <1>4, <2>1
  <2> HIDE DEF y
  <2>3. y.lock = x.lock /\ y.sp = x.sp /\ y.w = x.w
    BY <2>1 DEF ConnFields
  <2>4. past.salt + 1 \in Nat /\ PastInv'
    BY <1>4 DEF TypeInv, PastInv
  <2>5. HdrOK(h) /\ h.sum = x.hdr.sum
    <3>1. HdrOK(x.hdr)
      BY <1>1 DEF ConnType
    <3>2. Len(x.hdr.sum) \in Nat
      BY <3>1, HdrNumbers, Constants
    <3> QED BY <2>4, <3>1, <3>2 DEF HdrOK, HdrFields
  <2> HIDE DEF h
  <2>6. ConnType(y)
    <3>1. RestartLocks \subseteq AllLocks
      BY Constants DEF RestartLocks, ReadLocks, READ, AllLocks
    <3>2. y.nCkpt \in Nat /\ y.excl \subseteq AllLocks
      BY <1>1, <2>1, <3>1 DEF ConnType
    <3> QED BY <1>1, <2>1, <2>3, <2>5, <3>2 DEF ConnType
  <2>7. Phase(c, y)
    BY <1>1, <1>2, <1>3, <2>1, <2>3 DEF Phase, Phases, Outside, Recovering, Restarting, Logging,
       Checkpointing
  <2>8. ShmInv'
    <3>1. ShmInv /\ log' = log
      BY <1>2 DEF TypeInv
    <3>2. /\ DOMAIN shm' = DOMAIN shm /\ shm'.h1 = h /\ shm'.h0 = shm.h0
          /\ shm'.nBackfill = shm.nBackfill /\ shm'.mark = shm.mark
      BY <2>2, <3>1 DEF ShmInv
    <3> QED BY <1>1, <2>5, <3>1, <3>2 DEF ShmInv
  <2> QED BY <1>1, <1>2, <1>3, <1>4, <2>1, <2>2, <2>3, <2>4, <2>5, <2>6, <2>7, <2>8, ShmStep
          DEF ConnOK
<1>5. CASE /\ con' = [con EXCEPT ![c] = [Goto(x, "pick") EXCEPT !.lock = 0 - 1]]
           /\ UNCHANGED <<shm, past>>
  <2> DEFINE y == [Goto(x, "pick") EXCEPT !.lock = 0 - 1]
  <2>1. /\ DOMAIN y = ConnFields /\ y.pc = "pick" /\ y.lock = 0 - 1
        /\ \A f \in ConnFields \ {"pc", "lock"} : y[f] = x[f]
    BY <1>1 DEF ConnType, Goto, ConnFields
  <2>2. con' = [con EXCEPT ![c] = y]
    BY <1>5
  <2> HIDE DEF y
  <2>3. y.excl = x.excl /\ y.hdr = x.hdr /\ y.sp = x.sp /\ y.nCkpt = x.nCkpt /\ y.w = x.w
    BY <2>1 DEF ConnFields
  <2>4. ConnType(y)
    BY <1>1, <2>1, <2>3, Constants DEF ConnType
  <2>5. Phase(c, y)
    BY <1>1, <1>2, <1>3, <2>1, <2>3 DEF Phase, Phases, Outside, Recovering, Restarting, Logging,
       Checkpointing
  <2> QED BY <1>1, <1>2, <1>5, <2>1, <2>2, <2>3, <2>4, <2>5, ConnStep, NoLocksFree DEF ConnOK
<1> QED BY <1>4, <1>5 DEF RestartLog, Put

LEMMA RestartedHdr ==
  ASSUME TypeInv, NEW c \in Conn, RestartHdr(c)
  PROVE  TypeInv'
<1> DEFINE x == con[c]
           y == Goto(x, "restartInfo")
<1>1. /\ ConnType(x) /\ Phase(c, x)
      /\ Written(x.hdr.sum, log.cur) /\ Written(x.sp.sum, log.cur)
  BY AtConn
<1>2. /\ x.pc = "restartHdr" /\ UNCHANGED <<log, file, past>>
      /\ shm' = [shm EXCEPT !.h0 = x.hdr] /\ con' = [con EXCEPT ![c] = y]
  BY DEF RestartHdr, Pc, Put
<1>3. ConnType(y) /\ y.pc = "restartInfo" /\ \A f \in ConnFields \ {"pc"} : y[f] = x[f]
  BY <1>1, GotoFields
<1> HIDE DEF y
<1>4. y.excl = x.excl /\ y.lock = x.lock /\ y.w = x.w /\ y.hdr = x.hdr /\ y.sp = x.sp
  BY <1>3 DEF ConnFields
<1>5. Phase(c, y)
  BY <1>1, <1>2, <1>3, <1>4 DEF Phase, Phases, Outside, Recovering, Restarting, Logging,
     Checkpointing
<1>6. ShmInv' /\ PastInv'
  <2>1. ShmInv /\ PastInv /\ log' = log /\ past' = past
    BY <1>2 DEF TypeInv
  <2>2. /\ DOMAIN shm' = DOMAIN shm /\ shm'.h0 = x.hdr /\ shm'.h1 = shm.h1
        /\ shm'.nBackfill = shm.nBackfill /\ shm'.mark = shm.mark
    BY <1>2, <2>1 DEF ShmInv
  <2> QED BY <1>1, <2>1, <2>2 DEF ShmInv, PastInv, ConnType
<1> QED BY <1>1, <1>2, <1>3, <1>4, <1>5, <1>6, ShmStep, NoLocksFree DEF ConnOK

LEMMA RestartedInfo ==
  ASSUME TypeInv, NEW c \in Conn, RestartInfo(c)
  PROVE  TypeInv'
<1> DEFINE x == con[c]
           y == [Goto(x, "pick") EXCEPT !.lock = 0 - 1, !.excl = {WRITE}]
<1>1. /\ ConnType(x) /\ Phase(c, x)
      /\ Written(x.hdr.sum, log.cur) /\ Written(x.sp.sum, log.cur)
  BY AtConn
<1>2. /\ x.pc = "restartInfo" /\ UNCHANGED <<log, file, past>>
      /\ shm' = ResetInfo(shm) /\ con' = [con EXCEPT ![c] = y]
  BY DEF RestartInfo, Pc, Put
<1>3. WRITE \in x.excl /\ ~x.w.ckpt /\ ~x.w.close
  BY <1>1, <1>2 DEF Phase, Restarting, Checkpointing, Recovering
<1>4. /\ DOMAIN y = ConnFields /\ y.pc = "pick" /\ y.lock = 0 - 1 /\ y.excl = {WRITE}
      /\ \A f \in ConnFields \ {"pc", "lock", "excl"} : y[f] = x[f]
  BY <1>1 DEF ConnType, Goto, ConnFields
<1> HIDE DEF y
<1>5. y.hdr = x.hdr /\ y.sp = x.sp /\ y.nCkpt = x.nCkpt /\ y.w = x.w
  BY <1>4 DEF ConnFields
<1>6. ConnType(y)
  BY <1>1, <1>3, <1>4, <1>5, Constants DEF ConnType
<1>7. Phase(c, y)
  BY <1>1, <1>2, <1>3, <1>4, <1>5 DEF Phase, Phases, Outside, Recovering, Restarting, Logging,
     Checkpointing
<1>8. ShmInv' /\ PastInv'
  <2>1. ShmInv /\ PastInv /\ log' = log /\ past' = past
    BY <1>2 DEF TypeInv
  <2>2. /\ DOMAIN shm' = DOMAIN shm /\ shm'.h0 = shm.h0 /\ shm'.h1 = shm.h1
        /\ shm'.nBackfill = 0
        /\ shm'.mark = [i \in Marks |-> IF i = 1 THEN 0 ELSE NotUsed]
    BY <1>2, <2>1 DEF ShmInv, ResetInfo
  <2>3. shm'.mark \in [Marks -> 0..NotUsed] /\ shm'.nBackfill \in 0..MaxFrame
    BY <2>2, Constants
  <2> QED BY <2>1, <2>2, <2>3 DEF ShmInv, PastInv
<1> QED BY <1>1, <1>2, <1>3, <1>4, <1>5, <1>6, <1>7, <1>8, ShmStep, NoLocksFree DEF ConnOK

LEMMA LogHdrWritten ==
  ASSUME TypeInv, NEW c \in Conn, WriteLogHdr(c)
  PROVE  TypeInv'
<1> DEFINE x    == con[c]
           salt == IF x.nCkpt = 0 THEN past.salt + 1 ELSE x.hdr.salt
           y    == [Goto(x, "syncHdr") EXCEPT !.hdr.salt = salt, !.hdr.sum = <<>>]
<1>1. /\ ConnType(x) /\ Phase(c, x)
      /\ Written(x.hdr.sum, log.cur) /\ Written(x.sp.sum, log.cur)
  BY AtConn
<1>2. /\ x.pc = "frames" /\ x.hdr.mx = 0 /\ UNCHANGED <<shm, file>>
      /\ past' = IF x.nCkpt = 0 THEN [past EXCEPT !.salt = salt] ELSE past
      /\ log' = [log EXCEPT !.cur.salt = salt, !.cur.nCkpt = x.nCkpt]
      /\ con' = [con EXCEPT ![c] = y]
  BY DEF WriteLogHdr, Pc, Put
<1>3. x.excl = {WRITE} /\ ~x.w.ckpt /\ ~x.w.close
  BY <1>2, InWrite DEF Logging
<1>4. salt \in Nat /\ PastInv'
  <2>1. past.salt + 1 \in Nat /\ x.hdr.salt \in Nat
    BY <1>1 DEF TypeInv, PastInv, ConnType, HdrOK
  <2>2. DOMAIN past = {"full", "salt", "ver", "images", "flight"} /\ past.ver \in Nat
        /\ past.salt \in Nat
    BY DEF TypeInv, PastInv
  <2> QED BY <1>2, <2>1, <2>2 DEF PastInv
<1> HIDE DEF salt
<1>5. /\ DOMAIN y = ConnFields /\ y.pc = "syncHdr"
      /\ \A f \in ConnFields \ {"pc", "hdr"} : y[f] = x[f]
      /\ DOMAIN y.hdr = HdrFields /\ y.hdr.salt = salt /\ y.hdr.sum = <<>>
      /\ y.hdr.mx = x.hdr.mx
  BY <1>1 DEF ConnType, Goto, ConnFields, HdrOK, HdrFields
<1> HIDE DEF y
<1>6. y.excl = x.excl /\ y.lock = x.lock /\ y.sp = x.sp /\ y.nCkpt = x.nCkpt /\ y.w = x.w
  BY <1>5 DEF ConnFields
<1>7. HdrOK(y.hdr)
  <2>1. <<>> \in Sums /\ Len(<<>>) = 0
    BY NothingDone DEF NoHdr, Hdr, HdrOK
  <2> QED BY <1>2, <1>4, <1>5, <2>1 DEF HdrOK
<1>8. ConnType(y)
  BY <1>1, <1>5, <1>6, <1>7 DEF ConnType
<1>9. Phase(c, y)
  BY <1>1, <1>2, <1>3, <1>5, <1>6 DEF Phase, Phases, Outside, Recovering, Restarting, Logging,
     Checkpointing
<1>10. /\ LogInv' /\ log'.cur.frames = log.cur.frames
       /\ Len(log.cur.frames) <= Len(log'.cur.frames)
  <2>1. LogInv /\ x.nCkpt \in Nat
    BY <1>1 DEF TypeInv, ConnType
  <2>2. /\ DOMAIN log' = DOMAIN log /\ log'.dur = log.dur
        /\ log'.cur = [log.cur EXCEPT !.salt = salt, !.nCkpt = x.nCkpt]
    BY <1>2, <2>1 DEF LogInv
  <2>3. log.cur \in Logs
    BY <2>1 DEF LogInv
  <2>4. log'.cur \in Logs /\ log'.cur.frames = log.cur.frames
    BY <1>4, <2>1, <2>2, <2>3 DEF Logs
  <2>5. Len(log.cur.frames) \in Nat
    BY <2>3 DEF Logs
  <2> QED BY <2>1, <2>2, <2>4, <2>5 DEF LogInv
<1>11. ShmInv'
  BY <1>2, <1>10, ShmKept DEF LogInv
<1>12. Written(y.hdr.sum, log'.cur) /\ Written(y.sp.sum, log'.cur)
  <2>1. Len(<<>>) = 0 /\ Len(log'.cur.frames) \in Nat
    BY <1>10 DEF LogInv, Logs
  <2> QED BY <1>1, <1>5, <1>6, <1>10, <2>1 DEF Written
<1> QED BY <1>2, <1>4, <1>6, <1>8, <1>9, <1>10, <1>11, <1>12, <1>5, StepInv, NoLocksFree
        DEF ConnOK

LEMMA SyncedLogOK ==
  ASSUME LogInv
  PROVE  /\ DOMAIN SyncedLog(log) = DOMAIN log
         /\ SyncedLog(log).cur = log.cur /\ SyncedLog(log).dur = log.cur
BY DEF LogInv, SyncedLog, Synced

LEMMA LogHdrSynced ==
  ASSUME TypeInv, NEW c \in Conn, SyncLogHdr(c)
  PROVE  TypeInv'
<1> DEFINE x == con[c]
           y == Goto(x, "append")
<1>1. /\ ConnType(x) /\ Phase(c, x)
      /\ Written(x.hdr.sum, log.cur) /\ Written(x.sp.sum, log.cur)
  BY AtConn
<1>2. /\ x.pc = "syncHdr" /\ UNCHANGED <<shm, file, past>>
      /\ log' = SyncedLog(log) /\ con' = [con EXCEPT ![c] = y]
  BY DEF SyncLogHdr, Pc, Put
<1>3. ConnType(y) /\ y.pc = "append" /\ \A f \in ConnFields \ {"pc"} : y[f] = x[f]
  BY <1>1, GotoFields
<1> HIDE DEF y
<1>4. y.excl = x.excl /\ y.lock = x.lock /\ y.w = x.w /\ y.hdr = x.hdr /\ y.sp = x.sp
  BY <1>3 DEF ConnFields
<1>5. Phase(c, y)
  BY <1>1, <1>2, <1>3, <1>4 DEF Phase, Phases, Outside, Recovering, Restarting, Logging,
     Checkpointing
<1>6. LogInv /\ PastInv'
  BY <1>2 DEF TypeInv, PastInv
<1>7. LogInv' /\ log'.cur = log.cur
  BY <1>2, <1>6, SyncedLogOK DEF LogInv
<1>8. Len(log.cur.frames) <= Len(log'.cur.frames)
  <2>1. Len(log.cur.frames) \in Nat
    BY <1>6 DEF LogInv, Logs
  <2> QED BY <1>7, <2>1
<1>9. ShmInv'
  BY <1>2, <1>7, <1>8, ShmKept DEF LogInv
<1> QED BY <1>1, <1>2, <1>3, <1>4, <1>5, <1>6, <1>7, <1>8, <1>9, StepInv, NoLocksFree DEF ConnOK

\* A frame is written over an old one or after the last one.
LEMMA AtOK ==
  ASSUME NEW T, NEW s \in Seq(T), NEW i \in Nat, 1 <= i, i <= Len(s) + 1, NEW e \in T
  PROVE  /\ At(s, i, e) \in Seq(T)
         /\ i <= Len(At(s, i, e)) /\ Len(s) <= Len(At(s, i, e))
         /\ Len(At(s, i, e)) = i \/ Len(At(s, i, e)) = Len(s)
<1> DEFINE m == Max({Len(s), i})
<1>1. Len(s) \in Int /\ i \in Int
  OBVIOUS
<1>2. m \in {Len(s), i} /\ m >= Len(s) /\ m >= i
  BY <1>1, MaxTwo
<1> HIDE DEF m
<1>3. m \in Nat /\ i <= m /\ Len(s) <= m /\ (m = i \/ m = Len(s))
  BY <1>1, <1>2
<1>4. At(s, i, e) = [k \in 1..m |-> IF k = i THEN e ELSE s[k]]
  BY DEF At, m
<1>5. \A k \in 1..m : k # i => k \in 1..Len(s)
  BY <1>1, <1>3
<1>6. \A k \in 1..m : (IF k = i THEN e ELSE s[k]) \in T
  BY <1>5
<1>7. At(s, i, e) \in Seq(T) /\ Len(At(s, i, e)) = m
  BY <1>3, <1>4, <1>6
<1> QED BY <1>3, <1>7

LEMMA FrameWritten ==
  ASSUME TypeInv, NEW c \in Conn, WriteFrame(c)
  PROVE  TypeInv'
<1> DEFINE x   == con[c]
           f   == NextFrame(x)
           sum == Append(x.hdr.sum, Head(x.w.todo))
           fr  == Frame(x.hdr.salt, sum)
           y   == [Goto(x, "append") EXCEPT !.hdr.sum = sum, !.w.todo = Tail(@)]
<1>1. /\ ConnType(x) /\ Phase(c, x)
      /\ Written(x.hdr.sum, log.cur) /\ Written(x.sp.sum, log.cur)
  BY AtConn
<1>2. /\ x.pc \in {"append", "frames"} /\ x.w.todo # <<>> /\ f <= MaxFrame
      /\ log' = [log EXCEPT !.cur.frames = At(@, f, fr)]
      /\ con' = [con EXCEPT ![c] = y] /\ UNCHANGED <<shm, file>>
      /\ past' = [past EXCEPT !.flight = IF Head(x.w.todo).n > 0 THEN x.image ELSE NoImage]
  BY DEF WriteFrame, Pc, Put
<1>3. x.excl = {WRITE} /\ ~x.w.ckpt /\ ~x.w.close
  BY <1>2, InWrite DEF Logging
<1>4. PastInv'
  BY <1>2 DEF TypeInv, PastInv
<1>5. /\ x.hdr.sum \in Seq(Entries) /\ x.w.todo \in Seq(Entries) /\ x.hdr.salt \in Nat
      /\ x.hdr.mx \in Nat /\ x.hdr.mx <= Len(x.hdr.sum) /\ Len(x.hdr.sum) \in Nat
  BY <1>1 DEF ConnType, HdrOK, Sums, WorkOK
<1>6. f = Len(x.hdr.sum) + 1
  BY DEF NextFrame
<1>7. sum \in Sums /\ Len(sum) = f
  <2>1. Head(x.w.todo) \in Entries
    BY <1>2, <1>5
  <2>2. sum \in Seq(Entries) /\ Len(sum) = Len(x.hdr.sum) + 1
    BY <1>5, <2>1
  <2> QED BY <1>2, <1>6, <2>2 DEF Sums
<1>8. Tail(x.w.todo) \in Seq(Entries)
  BY <1>2, <1>5
<1> HIDE DEF sum, f
<1>9. /\ DOMAIN y = ConnFields /\ y.pc = "append"
      /\ \A g \in ConnFields \ {"pc", "hdr", "w"} : y[g] = x[g]
      /\ DOMAIN y.hdr = HdrFields /\ y.hdr.sum = sum
      /\ y.hdr.mx = x.hdr.mx /\ y.hdr.salt = x.hdr.salt
      /\ DOMAIN y.w = WorkFields /\ y.w.todo = Tail(x.w.todo)
      /\ \A g \in WorkFields \ {"todo"} : y.w[g] = x.w[g]
  BY <1>1 DEF ConnType, Goto, ConnFields, HdrOK, HdrFields, WorkOK, WorkFields
<1> HIDE DEF y
<1>10. y.excl = x.excl /\ y.lock = x.lock /\ y.sp = x.sp /\ y.nCkpt = x.nCkpt
  BY <1>9 DEF ConnFields
<1>11. /\ y.w.ckpt = x.w.ckpt /\ y.w.close = x.w.close
       /\ y.w.mxI = x.w.mxI /\ y.w.safe = x.w.safe
  BY <1>9 DEF WorkFields
<1>12. ConnType(y)
  <2>1. HdrOK(y.hdr)
    <3>1. x.hdr.mx <= Len(sum)
      BY <1>5, <1>6, <1>7
    <3> QED BY <1>5, <1>7, <1>9, <3>1 DEF HdrOK
  <2>2. WorkOK(y.w)
    BY <1>1, <1>8, <1>9, <1>11 DEF ConnType, WorkOK
  <2> QED BY <1>1, <1>9, <1>10, <2>1, <2>2 DEF ConnType
<1>13. Phase(c, y)
  BY <1>1, <1>2, <1>3, <1>9, <1>10, <1>11 DEF Phase, Phases, Outside, Recovering, Restarting,
     Logging, Checkpointing
<1>14. /\ LogInv' /\ f <= Len(log'.cur.frames)
       /\ Len(log.cur.frames) <= Len(log'.cur.frames)
  <2> DEFINE s == log.cur.frames
             t == At(s, f, fr)
  <2>1. LogInv /\ log.cur \in Logs
    BY DEF TypeInv, LogInv
  <2>2. s \in Seq(FrameSet) /\ Len(s) <= MaxFrame /\ Len(s) \in Nat
    BY <2>1 DEF Logs
  <2>3. fr \in FrameSet
    BY <1>5, <1>7 DEF Frame, FrameSet
  <2>4. f \in Nat /\ 1 <= f /\ f <= Len(s) + 1
    BY <1>1, <1>5, <1>6, <2>2 DEF Written
  <2>5. /\ DOMAIN log' = DOMAIN log /\ log'.dur = log.dur
        /\ log'.cur = [log.cur EXCEPT !.frames = t]
    BY <1>2, <2>1 DEF LogInv
  <2> HIDE DEF fr
  <2>6. /\ t \in Seq(FrameSet) /\ f <= Len(t) /\ Len(s) <= Len(t)
        /\ Len(t) = f \/ Len(t) = Len(s)
    BY <2>2, <2>3, <2>4, AtOK
  <2>7. Len(t) <= MaxFrame
    BY <1>2, <2>2, <2>6
  <2> HIDE DEF t
  <2>8. log'.cur \in Logs /\ log'.cur.frames = t
    BY <2>1, <2>5, <2>6, <2>7 DEF Logs
  <2> QED BY <2>1, <2>5, <2>6, <2>8 DEF LogInv
<1>15. ShmInv'
  BY <1>2, <1>14, ShmKept DEF LogInv
<1>16. Written(y.hdr.sum, log'.cur) /\ Written(y.sp.sum, log'.cur)
  <2>1. Written(sum, log'.cur)
    BY <1>7, <1>14 DEF Written
  <2>2. log.cur \in Logs /\ log'.cur \in Logs /\ x.sp.sum \in Sums
    BY <1>1, <1>14 DEF TypeInv, LogInv, ConnType, SpOK
  <2>3. Written(x.sp.sum, log'.cur)
    BY <1>1, <1>14, <2>2, WrittenLater
  <2> QED BY <1>9, <1>10, <2>1, <2>3
<1> QED BY <1>2, <1>4, <1>10, <1>11, <1>12, <1>13, <1>14, <1>15, <1>16, StepInv, NoLocksFree
        DEF ConnOK

LEMMA FramesEnded ==
  ASSUME TypeInv, NEW c \in Conn, EndFrames(c)
  PROVE  TypeInv'
<1> DEFINE x  == con[c]
           h  == [x.hdr EXCEPT !.mx = Len(x.hdr.sum), !.init = TRUE,
                               !.chg = IF x.w.commit THEN @ + 1 ELSE @,
                               !.n = IF x.w.commit THEN Last(x.hdr.sum).n ELSE @]
           pc == IF x.w.commit THEN "commitHdr" ELSE "read"
           y  == [Goto(x, pc) EXCEPT !.hdr = h, !.w = NoWork]
           h1 == IF x.w.commit THEN h ELSE shm.h1
<1>1. /\ ConnType(x) /\ Phase(c, x)
      /\ Written(x.hdr.sum, log.cur) /\ Written(x.sp.sum, log.cur)
      /\ HdrOK(shm.h1) /\ Written(shm.h1.sum, log.cur)
  BY AtConn
<1>2. /\ x.pc = "append" /\ UNCHANGED <<file, past>>
      /\ log' = IF x.w.commit /\ past.full THEN SyncedLog(log) ELSE log
      /\ con' = [con EXCEPT ![c] = y]
  BY DEF EndFrames, Pc, Put
<1>3. shm' = [shm EXCEPT !.pgno = Appended(x), !.h1 = IF x.w.commit THEN h ELSE @]
  BY DEF EndFrames
<1>4. x.excl = {WRITE} /\ ~x.w.ckpt /\ ~x.w.close
  BY <1>2, InWrite DEF Logging
<1>5. HdrOK(h) /\ h.sum = x.hdr.sum
  <2>1. DOMAIN x.hdr = HdrFields /\ x.hdr.salt \in Nat /\ x.hdr.sum \in Sums
    BY <1>1 DEF ConnType, HdrOK
  <2>2. Len(x.hdr.sum) \in Nat
    BY <2>1 DEF Sums
  <2>3. /\ DOMAIN h = HdrFields /\ h.mx = Len(x.hdr.sum) /\ h.salt = x.hdr.salt
        /\ h.sum = x.hdr.sum
    BY <2>1 DEF HdrFields
  <2> HIDE DEF h
  <2> QED BY <2>1, <2>2, <2>3 DEF HdrOK
<1> HIDE DEF h
<1>6. pc \in {"commitHdr", "read"}
  OBVIOUS
<1> HIDE DEF pc
<1>7. /\ DOMAIN y = ConnFields /\ y.pc = pc /\ y.hdr = h /\ y.w = NoWork
      /\ \A f \in ConnFields \ {"pc", "hdr", "w"} : y[f] = x[f]
  BY <1>1 DEF ConnType, Goto, ConnFields
<1> HIDE DEF y
<1>8. y.excl = x.excl /\ y.lock = x.lock /\ y.sp = x.sp /\ y.nCkpt = x.nCkpt
  BY <1>7 DEF ConnFields
<1>9. ConnType(y)
  BY <1>1, <1>5, <1>7, <1>8, NothingDone DEF ConnType
<1>10. ~y.w.ckpt /\ ~y.w.close
  BY <1>7 DEF NoWork
<1>11. Phase(c, y)
  BY <1>1, <1>2, <1>4, <1>6, <1>7, <1>8, <1>10 DEF Phase, Phases, Outside, Recovering,
     Restarting, Logging, Checkpointing
<1>12. LogInv' /\ log'.cur = log.cur /\ PastInv'
  <2>1. LogInv /\ PastInv
    BY DEF TypeInv
  <2>2. PastInv'
    BY <1>2, <2>1 DEF PastInv
  <2>3. CASE log' = SyncedLog(log)
    BY <2>1, <2>2, <2>3, SyncedLogOK DEF LogInv
  <2>4. CASE log' = log
    BY <2>1, <2>2, <2>4 DEF LogInv
  <2> QED BY <1>2, <2>3, <2>4
<1>13. ShmInv'
  <2>1. ShmInv
    BY DEF TypeInv
  <2>2. /\ DOMAIN shm' = DOMAIN shm /\ shm'.h0 = shm.h0 /\ shm'.h1 = h1
        /\ shm'.nBackfill = shm.nBackfill /\ shm'.mark = shm.mark
    BY <1>3, <2>1 DEF ShmInv
  <2>3. HdrOK(h1) /\ Written(h1.sum, log.cur)
    BY <1>1, <1>5
  <2> HIDE DEF h1
  <2> QED BY <1>12, <2>1, <2>2, <2>3 DEF ShmInv
<1>14. Len(log.cur.frames) <= Len(log'.cur.frames)
  <2>1. Len(log.cur.frames) \in Nat
    BY DEF TypeInv, LogInv, Logs
  <2> QED BY <1>12, <2>1
<1> QED BY <1>1, <1>2, <1>5, <1>7, <1>8, <1>9, <1>10, <1>11, <1>12, <1>13, <1>14, StepInv,
        NoLocksFree DEF ConnOK

\* The end of a write transaction.
LEMMA EndWriteOK ==
  ASSUME NEW c \in Conn, NEW x, ConnType(x), ~x.w.ckpt, NEW h, HdrOK(h), NEW img
  PROVE  /\ ConnOK(c, EndWrite(x, h, img))
         /\ EndWrite(x, h, img).excl = {} /\ EndWrite(x, h, img).lock = x.lock
         /\ EndWrite(x, h, img).hdr = h /\ EndWrite(x, h, img).sp = NoSavepoint
         /\ ~EndWrite(x, h, img).w.close
<1> DEFINE y == EndWrite(x, h, img)
<1>1. /\ DOMAIN y = ConnFields /\ y.pc = "read" /\ y.excl = {} /\ y.hdr = h
      /\ y.sp = NoSavepoint /\ y.w = NoWork
      /\ y.lock = x.lock /\ y.nCkpt = x.nCkpt
  BY DEF EndWrite, ConnType, Goto, ConnFields
<1> HIDE DEF y
<1>2. ConnType(y)
  BY <1>1, NothingDone DEF ConnType
<1>3. ~y.w.ckpt /\ ~y.w.close
  BY <1>1 DEF NoWork
<1>4. Phase(c, y)
  BY <1>1, <1>3 DEF Phase, Phases, Outside, Recovering, Restarting, Logging, Checkpointing
<1> QED BY <1>1, <1>2, <1>3, <1>4 DEF ConnOK, y

LEMMA NoSavepointWritten == TypeInv => Written(NoSavepoint.sum, log.cur)
<1>1. NoSavepoint.sum = <<>> /\ Len(<<>>) = 0
  BY DEF NoSavepoint
<1>2. TypeInv => Len(log.cur.frames) \in Nat
  BY DEF TypeInv, LogInv, Logs
<1> QED BY <1>1, <1>2 DEF Written

LEMMA HdrCommitted ==
  ASSUME TypeInv, NEW c \in Conn, CommitHdr(c)
  PROVE  TypeInv'
<1> DEFINE x == con[c]
           y == EndWrite(x, x.hdr, x.image)
<1>1. /\ ConnType(x) /\ Phase(c, x)
      /\ Written(x.hdr.sum, log.cur) /\ Written(x.sp.sum, log.cur)
  BY AtConn
<1>2. /\ x.pc = "commitHdr" /\ UNCHANGED <<log, file>>
      /\ shm' = [shm EXCEPT !.h0 = x.hdr] /\ con' = [con EXCEPT ![c] = y]
      /\ past' = Saw(x.image)
  BY DEF CommitHdr, Pc, Put
<1>3. ~x.w.ckpt /\ HdrOK(x.hdr)
  BY <1>1, <1>2, InWrite DEF Logging, ConnType
<1>4. /\ ConnOK(c, y) /\ y.excl = {} /\ y.lock = x.lock /\ y.hdr = x.hdr
      /\ y.sp = NoSavepoint /\ ~y.w.close
  BY <1>1, <1>3, EndWriteOK
<1> HIDE DEF y
<1>5. PastInv'
  BY <1>2 DEF TypeInv, PastInv, Saw
<1>6. ShmInv'
  <2>1. ShmInv /\ log' = log
    BY <1>2 DEF TypeInv
  <2>2. /\ DOMAIN shm' = DOMAIN shm /\ shm'.h0 = x.hdr /\ shm'.h1 = shm.h1
        /\ shm'.nBackfill = shm.nBackfill /\ shm'.mark = shm.mark
    BY <1>2, <2>1 DEF ShmInv
  <2> QED BY <1>1, <1>3, <2>1, <2>2 DEF ShmInv
<1>7. Written(y.hdr.sum, log.cur) /\ Written(y.sp.sum, log.cur)
  BY <1>1, <1>4, NoSavepointWritten
<1> QED BY <1>2, <1>4, <1>5, <1>6, <1>7, ShmStep, NoLocksFree

LEMMA RolledBack ==
  ASSUME TypeInv, NEW c \in Conn, Rollback(c)
  PROVE  TypeInv'
<1> DEFINE x == con[c]
           y == EndWrite(x, shm.h0, x.cache)
<1>1. /\ ConnType(x) /\ Phase(c, x)
      /\ HdrOK(shm.h0) /\ Written(shm.h0.sum, log.cur)
  BY AtConn
<1>2. /\ x.pc = "read" /\ WRITE \in x.excl /\ UNCHANGED <<log, file, past>>
      /\ shm' = IF x.hdr.mx # shm.h0.mx THEN [shm EXCEPT !.pgno = CleanupHash(shm.h0.mx)]
                ELSE shm
      /\ con' = [con EXCEPT ![c] = y]
  BY DEF Rollback, Writing, Pc, Put
<1>3. ~x.w.ckpt
  BY <1>1, <1>2, InWrite
<1>4. /\ ConnOK(c, y) /\ y.excl = {} /\ y.lock = x.lock /\ y.hdr = shm.h0
      /\ y.sp = NoSavepoint /\ ~y.w.close
  BY <1>1, <1>3, EndWriteOK
<1> HIDE DEF y
<1>5. PastInv' /\ ShmInv'
  <2>1. ShmInv /\ PastInv /\ log' = log /\ past' = past
    BY <1>2 DEF TypeInv
  <2>2. /\ DOMAIN shm' = DOMAIN shm /\ shm'.h0 = shm.h0 /\ shm'.h1 = shm.h1
        /\ shm'.nBackfill = shm.nBackfill /\ shm'.mark = shm.mark
    BY <1>2, <2>1 DEF ShmInv
  <2> QED BY <2>1, <2>2 DEF ShmInv, PastInv
<1>6. Written(y.hdr.sum, log.cur) /\ Written(y.sp.sum, log.cur)
  BY <1>1, <1>4, NoSavepointWritten
<1> QED BY <1>2, <1>4, <1>5, <1>6, ShmStep, NoLocksFree

LEMMA Saved ==
  ASSUME TypeInv, NEW c \in Conn, Savepoint(c)
  PROVE  TypeInv'
<1> DEFINE x  == con[c]
           sp == [mx |-> x.hdr.mx, sum |-> x.hdr.sum, nCkpt |-> x.nCkpt, image |-> x.image]
           y  == [x EXCEPT !.sp = sp]
<1>1. /\ ConnType(x) /\ Phase(c, x)
      /\ Written(x.hdr.sum, log.cur) /\ Written(x.sp.sum, log.cur)
  BY AtConn
<1>2. /\ x.pc = "read" /\ UNCHANGED <<shm, log, file, past>>
      /\ con' = [con EXCEPT ![c] = y]
  BY DEF Savepoint, Writing, Pc, Put
<1>3. SpOK(sp) /\ sp.sum = x.hdr.sum
  BY <1>1 DEF ConnType, HdrOK, SpOK, SavepointFields
<1> HIDE DEF sp
<1>4. DOMAIN y = ConnFields /\ y.sp = sp /\ \A f \in ConnFields \ {"sp"} : y[f] = x[f]
  BY <1>1 DEF ConnType, ConnFields
<1> HIDE DEF y
<1>5. /\ y.pc = x.pc /\ y.excl = x.excl /\ y.lock = x.lock /\ y.nCkpt = x.nCkpt
      /\ y.hdr = x.hdr /\ y.w = x.w
  BY <1>4 DEF ConnFields
<1>6. ConnType(y)
  BY <1>1, <1>3, <1>4, <1>5 DEF ConnType
<1>7. Phase(c, y)
  BY <1>1, <1>2, <1>5 DEF Phase
<1> QED BY <1>1, <1>2, <1>3, <1>4, <1>5, <1>6, <1>7, ConnStep, NoLocksFree DEF ConnOK

LEMMA SavepointUndone ==
  ASSUME TypeInv, NEW c \in Conn, SavepointUndo(c)
  PROVE  TypeInv'
<1> DEFINE x  == con[c]
           mx == UndoFrame(x)
           h  == IF mx < x.hdr.mx THEN [x.hdr EXCEPT !.mx = mx, !.sum = x.sp.sum] ELSE x.hdr
           y  == [x EXCEPT !.sp.mx = mx, !.sp.nCkpt = x.nCkpt, !.image = x.sp.image, !.hdr = h]
<1>1. /\ ConnType(x) /\ Phase(c, x)
      /\ Written(x.hdr.sum, log.cur) /\ Written(x.sp.sum, log.cur)
  BY AtConn
<1>2. /\ x.pc = "read" /\ x.sp # NoSavepoint /\ UNCHANGED <<log, file, past>>
      /\ shm' = IF mx < x.hdr.mx THEN [shm EXCEPT !.pgno = CleanupHash(mx)] ELSE shm
      /\ con' = [con EXCEPT ![c] = [x EXCEPT !.sp.mx = mx, !.sp.nCkpt = x.nCkpt,
           !.image = x.sp.image,
           !.hdr = IF mx < x.hdr.mx THEN [x.hdr EXCEPT !.mx = mx, !.sum = x.sp.sum] ELSE @]]
  BY DEF SavepointUndo, Writing, Pc, Put
<1>3. con' = [con EXCEPT ![c] = y]
  BY <1>2
<1>4. /\ mx \in Nat /\ mx <= Len(x.sp.sum) /\ x.sp.sum \in Sums /\ x.nCkpt \in Nat
      /\ DOMAIN x.sp = SavepointFields
  <2>1. SpOK(x.sp) /\ x.nCkpt \in Nat
    BY <1>1 DEF ConnType
  <2>2. x.sp.mx \in Nat /\ x.sp.mx <= Len(x.sp.sum) /\ Len(x.sp.sum) \in Nat
    BY <1>2, <2>1 DEF SpOK, Sums
  <2> QED BY <2>1, <2>2 DEF UndoFrame, SpOK
<1> HIDE DEF mx
<1>5. HdrOK(h) /\ (h.sum = x.hdr.sum \/ h.sum = x.sp.sum)
  <2>1. HdrOK(x.hdr)
    BY <1>1 DEF ConnType
  <2>2. CASE mx < x.hdr.mx
    BY <1>4, <2>1, <2>2 DEF HdrOK, HdrFields
  <2>3. CASE ~(mx < x.hdr.mx)
    BY <2>1, <2>3
  <2> QED BY <2>2, <2>3
<1> HIDE DEF h
<1>6. /\ DOMAIN y = ConnFields /\ y.hdr = h
      /\ \A f \in ConnFields \ {"sp", "image", "hdr"} : y[f] = x[f]
      /\ DOMAIN y.sp = SavepointFields /\ y.sp.mx = mx /\ y.sp.nCkpt = x.nCkpt
      /\ y.sp.sum = x.sp.sum
  BY <1>1, <1>4 DEF ConnType, ConnFields, SavepointFields
<1> HIDE DEF y
<1>7. /\ y.pc = x.pc /\ y.excl = x.excl /\ y.lock = x.lock /\ y.nCkpt = x.nCkpt
      /\ y.w = x.w
  BY <1>6 DEF ConnFields
<1>8. SpOK(y.sp)
  BY <1>4, <1>6 DEF SpOK
<1>9. ConnType(y)
  BY <1>1, <1>5, <1>6, <1>7, <1>8 DEF ConnType
<1>10. Phase(c, y)
  BY <1>1, <1>2, <1>7 DEF Phase
<1>11. PastInv' /\ ShmInv'
  <2>1. ShmInv /\ PastInv /\ log' = log /\ past' = past
    BY <1>2 DEF TypeInv
  <2>2. /\ DOMAIN shm' = DOMAIN shm /\ shm'.h0 = shm.h0 /\ shm'.h1 = shm.h1
        /\ shm'.nBackfill = shm.nBackfill /\ shm'.mark = shm.mark
    BY <1>2, <2>1 DEF ShmInv
  <2> QED BY <2>1, <2>2 DEF ShmInv, PastInv
<1>12. Written(y.hdr.sum, log.cur) /\ Written(y.sp.sum, log.cur)
  BY <1>1, <1>5, <1>6
<1> QED BY <1>2, <1>3, <1>7, <1>9, <1>10, <1>11, <1>12, ShmStep, NoLocksFree DEF ConnOK

-----------------------------------------------------------------------------
(* Recovery.                                                                  *)

LEMMA EmptyOK ==
  /\ HdrOK(NoHdr)
  /\ \A l \in Logs : Written(NoHdr.sum, l) /\ Written(NoSavepoint.sum, l)
<1>1. NoHdr.sum = <<>> /\ NoSavepoint.sum = <<>> /\ Len(<<>>) = 0
  BY DEF NoHdr, Hdr, NoSavepoint
<1>2. \A l \in Logs : Len(l.frames) \in Nat
  BY DEF Logs
<1> QED BY <1>1, <1>2, NothingDone DEF Written

LEMMA ValidFramesOK ==
  ASSUME NEW l \in Logs
  PROVE  /\ ValidFrames(l) \in 0..Len(l.frames)
         /\ \A i \in 1..ValidFrames(l) : ValidFrame(l, i)
<1> DEFINE K == {k \in 0..Len(l.frames) : \A i \in 1..k : ValidFrame(l, i)}
<1>1. Len(l.frames) \in Nat
  BY DEF Logs
<1>2. CASE ~HasFrames(l)
  BY <1>1, <1>2 DEF ValidFrames
<1>3. CASE HasFrames(l)
  <2>1. 0 \in K
    BY <1>1
  <2>2. ValidFrames(l) = Max(K)
    BY <1>3 DEF ValidFrames
  <2>3. K \subseteq 0..Len(l.frames) /\ K # {}
    BY <2>1
  <2> HIDE DEF K
  <2>4. Max(K) \in K
    BY <1>1, <2>3, MaxOf
  <2> QED BY <2>2, <2>4 DEF K
<1> QED BY <1>2, <1>3

LEMMA RecoveredHdrOK ==
  ASSUME NEW l \in Logs
  PROVE  HdrOK(RecoveredHdr(l)) /\ Written(RecoveredHdr(l).sum, l)
<1> DEFINE commits == {i \in 1..ValidFrames(l) : Last(l.frames[i].sum).n > 0}
           mx == Max(commits \cup {0})
<1>1. /\ Len(l.frames) \in Nat /\ l.salt \in Nat /\ l.frames \in Seq(FrameSet)
      /\ ValidFrames(l) \in 0..Len(l.frames)
  BY ValidFramesOK DEF Logs
<1>2. mx \in commits \cup {0}
  <2>1. commits \cup {0} \subseteq 0..Len(l.frames) /\ commits \cup {0} # {}
    BY <1>1
  <2> HIDE DEF commits
  <2> QED BY <1>1, <2>1, MaxOf
<1>3. CASE mx = 0
  <2>1. RecoveredHdr(l) = Hdr(TRUE, 0, 0, 0, IF HasFrames(l) THEN l.salt ELSE 0, <<>>)
    BY <1>3 DEF RecoveredHdr
  <2>2. <<>> \in Sums /\ Len(<<>>) = 0
    BY NothingDone DEF NoHdr, Hdr, HdrOK
  <2> QED BY <1>1, <2>1, <2>2 DEF Hdr, HdrOK, HdrFields, Written
<1>4. CASE mx # 0
  <2>1. RecoveredHdr(l) = Hdr(TRUE, 0, mx, Last(l.frames[mx].sum).n, l.salt, l.frames[mx].sum)
    BY <1>4 DEF RecoveredHdr
  <2>2. mx \in 1..ValidFrames(l)
    BY <1>2, <1>4
  <2> HIDE DEF mx
  <2>3. mx \in 1..Len(l.frames)
    BY <1>1, <2>2
  <2>4. ValidFrame(l, mx)
    BY <2>2, ValidFramesOK
  <2>5. l.frames[mx].sum \in Sums /\ Len(l.frames[mx].sum) = mx
    <3>1. l.frames[mx] \in FrameSet
      BY <1>1, <2>3
    <3>2. l.frames[mx].sum \in Sums
      BY <3>1 DEF FrameSet
    <3>3. Len(l.frames[mx].sum) = mx
      BY <2>4 DEF ValidFrame
    <3> QED BY <3>2, <3>3
  <2> QED BY <1>1, <2>1, <2>3, <2>5 DEF Hdr, HdrOK, HdrFields, Written
<1> QED BY <1>3, <1>4

\* The shared memory after a change of its headers.
LEMMA HeadersChanged ==
  ASSUME TypeInv, NEW h0, HdrOK(h0), Written(h0.sum, log.cur),
         NEW h1, HdrOK(h1), Written(h1.sum, log.cur),
         DOMAIN shm' = DOMAIN shm, shm'.h0 = h0, shm'.h1 = h1,
         shm'.nBackfill = shm.nBackfill, shm'.mark = shm.mark,
         log'.cur = log.cur
  PROVE  ShmInv'
BY DEF TypeInv, ShmInv

LEMMA HdrRetried ==
  ASSUME TypeInv, NEW c \in Conn, RetryHdr(c)
  PROVE  TypeInv'
<1> DEFINE x == con[c]
<1>1. /\ ConnType(x) /\ Phase(c, x)
      /\ Written(x.hdr.sum, log.cur) /\ Written(x.sp.sum, log.cur)
      /\ HdrOK(shm.h0) /\ Written(shm.h0.sum, log.cur)
  BY AtConn
<1>2. x.pc = "retryHdr" /\ UNCHANGED <<shm, log, file, past>>
  BY DEF RetryHdr, Pc
<1>3. x.lock = 0 - 1 /\ x.excl \subseteq AllLocks
  BY <1>1, <1>2 DEF Phase, Logging, Restarting, ConnType
<1>4. CASE con' = [con EXCEPT ![c] = [Goto(LoadHdr(x), IF x.w.ckpt THEN "ckptTest" ELSE "choose")
                                        EXCEPT !.excl = @ \ {WRITE}]]
  <2> DEFINE pc == IF x.w.ckpt THEN "ckptTest" ELSE "choose"
             y == [Goto(LoadHdr(x), pc) EXCEPT !.excl = @ \ {WRITE}]
  <2>1. /\ ConnType(LoadHdr(x)) /\ LoadHdr(x).hdr = shm.h0
        /\ \A f \in ConnFields \ {"hdr", "cache", "w"} : LoadHdr(x)[f] = x[f]
        /\ \A f \in WorkFields \ {"changed"} : LoadHdr(x).w[f] = x.w[f]
    BY <1>1, NewHdrFields DEF LoadHdr
  <2>2. con' = [con EXCEPT ![c] = y]
    BY <1>4
  <2>3. pc = IF x.w.ckpt THEN "ckptTest" ELSE "choose"
    OBVIOUS
  <2> HIDE DEF pc
  <2>4. /\ DOMAIN y = ConnFields /\ y.pc = pc /\ y.excl = LoadHdr(x).excl \ {WRITE}
        /\ \A f \in ConnFields \ {"pc", "excl"} : y[f] = LoadHdr(x)[f]
    BY <2>1 DEF ConnType, Goto, ConnFields
  <2> HIDE DEF y
  <2>5. /\ y.lock = x.lock /\ y.excl = x.excl \ {WRITE} /\ y.sp = x.sp /\ y.hdr = shm.h0
        /\ y.w.ckpt = x.w.ckpt /\ y.w.close = x.w.close
        /\ y.w = LoadHdr(x).w /\ y.nCkpt = LoadHdr(x).nCkpt
    BY <2>1, <2>4 DEF ConnFields, WorkFields
  <2>6. ConnType(y)
    BY <1>1, <1>3, <2>1, <2>4, <2>5 DEF ConnType
  <2>7. Phase(c, y)
    <3>1. CASE x.w.ckpt
      BY <1>1, <1>2, <1>3, <2>3, <2>4, <2>5, <3>1 DEF Phase, Phases, Outside, Recovering,
         Restarting, Logging, Checkpointing, CKPT, WRITE
    <3>2. CASE ~x.w.ckpt
      BY <1>1, <1>2, <1>3, <2>3, <2>4, <2>5, <3>2 DEF Phase, Phases, Outside, Recovering,
         Restarting, Logging, Checkpointing
    <3> QED BY <3>1, <3>2
  <2> QED BY <1>1, <1>2, <2>2, <2>5, <2>6, <2>7, ConnStep, NoLocksFree DEF ConnOK
<1>5. CASE /\ ExclFree(c, AllLocks \ x.excl)
           /\ con' = [con EXCEPT ![c] = [Goto(x, "recover") EXCEPT !.excl = AllLocks]]
  <2> DEFINE y == [Goto(x, "recover") EXCEPT !.excl = AllLocks]
  <2>1. /\ DOMAIN y = ConnFields /\ y.pc = "recover" /\ y.excl = AllLocks
        /\ \A f \in ConnFields \ {"pc", "excl"} : y[f] = x[f]
    BY <1>1 DEF ConnType, Goto, ConnFields
  <2>2. con' = [con EXCEPT ![c] = y]
    BY <1>5
  <2> HIDE DEF y
  <2>3. y.lock = x.lock /\ y.w = x.w /\ y.hdr = x.hdr /\ y.sp = x.sp /\ y.nCkpt = x.nCkpt
    BY <2>1 DEF ConnFields
  <2>4. ConnType(y)
    BY <1>1, <2>1, <2>3 DEF ConnType
  <2>5. Phase(c, y)
    <3>1. CKPT \in AllLocks
      BY Constants DEF CKPT, AllLocks
    <3> QED BY <1>1, <1>2, <1>3, <2>1, <2>3, <3>1 DEF Phase, Phases, Outside, Recovering,
            Restarting, Logging, Checkpointing
  <2>6. y.excl \subseteq x.excl \cup (AllLocks \ x.excl)
    BY <2>1
  <2> QED BY <1>1, <1>2, <1>5, <2>2, <2>3, <2>4, <2>5, <2>6, ConnStep DEF ConnOK
<1>6. CASE x.w.ckpt /\ con' = [con EXCEPT ![c] = [Goto(x, "ckptEnd") EXCEPT !.excl = @ \ {WRITE}]]
  <2> DEFINE y == [Goto(x, "ckptEnd") EXCEPT !.excl = @ \ {WRITE}]
  <2>1. /\ DOMAIN y = ConnFields /\ y.pc = "ckptEnd" /\ y.excl = x.excl \ {WRITE}
        /\ \A f \in ConnFields \ {"pc", "excl"} : y[f] = x[f]
    BY <1>1 DEF ConnType, Goto, ConnFields
  <2>2. con' = [con EXCEPT ![c] = y]
    BY <1>6
  <2> HIDE DEF y
  <2>3. y.lock = x.lock /\ y.w = x.w /\ y.hdr = x.hdr /\ y.sp = x.sp /\ y.nCkpt = x.nCkpt
    BY <2>1 DEF ConnFields
  <2>4. ConnType(y)
    BY <1>1, <1>3, <2>1, <2>3 DEF ConnType
  <2>5. Phase(c, y)
    BY <1>1, <1>2, <1>3, <1>6, <2>1, <2>3 DEF Phase, Phases, Outside, Recovering,
       Restarting, Logging, Checkpointing, CKPT, WRITE
  <2> QED BY <1>1, <1>2, <2>1, <2>2, <2>3, <2>4, <2>5, ConnStep, NoLocksFree DEF ConnOK
<1>7. CASE /\ ~x.w.ckpt
           /\ con' = [con EXCEPT ![c] = [Goto([x EXCEPT !.w = NoWork], "idle") EXCEPT
                                           !.excl = @ \ {WRITE}]]
  <2> DEFINE y == [Goto([x EXCEPT !.w = NoWork], "idle") EXCEPT !.excl = @ \ {WRITE}]
  <2>1. /\ DOMAIN y = ConnFields /\ y.pc = "idle" /\ y.excl = x.excl \ {WRITE}
        /\ y.w = NoWork /\ \A f \in ConnFields \ {"pc", "w", "excl"} : y[f] = x[f]
    BY <1>1 DEF ConnType, Goto, ConnFields
  <2>2. con' = [con EXCEPT ![c] = y]
    BY <1>7
  <2> HIDE DEF y
  <2>3. y.lock = x.lock /\ y.hdr = x.hdr /\ y.sp = x.sp /\ y.nCkpt = x.nCkpt
    BY <2>1 DEF ConnFields
  <2>4. ConnType(y)
    BY <1>1, <1>3, <2>1, <2>3, NothingDone DEF ConnType
  <2>5. ~y.w.ckpt /\ ~y.w.close /\ y.excl = {}
    BY <1>1, <1>2, <1>7, <2>1 DEF NoWork, Phase
  <2>6. Phase(c, y)
    BY <1>3, <2>1, <2>3, <2>5 DEF Phase, Phases, Outside, Recovering,
       Restarting, Logging, Checkpointing
  <2> QED BY <1>1, <1>2, <2>1, <2>2, <2>3, <2>4, <2>5, <2>6, ConnStep, NoLocksFree DEF ConnOK
<1> QED
  <2>1. CASE GoodHdr
    BY <1>4, <2>1 DEF RetryHdr, Put
  <2>2. CASE ~GoodHdr /\ ExclFree(c, AllLocks \ x.excl)
    BY <1>5, <2>2 DEF RetryHdr, Put
  <2>3. CASE ~GoodHdr /\ ~ExclFree(c, AllLocks \ x.excl)
    BY <1>6, <1>7, <2>3 DEF RetryHdr, Put
  <2> QED BY <2>1, <2>2, <2>3

LEMMA Recovered ==
  ASSUME TypeInv, NEW c \in Conn, Recover(c)
  PROVE  TypeInv'
<1> DEFINE x == con[c]
           h == RecoveredHdr(log.cur)
           z == [x EXCEPT !.hdr = NoHdr]
           k == IF HasFrames(log.cur) THEN log.cur.nCkpt ELSE x.nCkpt
           y == [Goto(NewHdr(z, h), "recoverHdr") EXCEPT !.nCkpt = k]
<1>1. /\ ConnType(x) /\ Phase(c, x)
      /\ Written(x.hdr.sum, log.cur) /\ Written(x.sp.sum, log.cur)
      /\ HdrOK(shm.h0) /\ Written(shm.h0.sum, log.cur)
  BY AtConn
<1>2. /\ x.pc = "recover" /\ UNCHANGED <<log, file, past>>
      /\ con' = [con EXCEPT ![c] = [Goto(NewHdr(z, h), "recoverHdr") EXCEPT
                   !.nCkpt = IF HasFrames(log.cur) THEN log.cur.nCkpt ELSE @]]
  BY DEF Recover, Pc, Put
<1>3. /\ DOMAIN shm' = DOMAIN shm /\ shm'.h0 = shm.h0 /\ shm'.h1 = h
      /\ shm'.nBackfill = shm.nBackfill /\ shm'.mark = shm.mark
  BY DEF Recover, TypeInv, ShmInv
<1>4. HdrOK(h) /\ Written(h.sum, log.cur) /\ log.cur \in Logs
  BY RecoveredHdrOK DEF TypeInv, LogInv
<1> HIDE DEF h
<1>5. /\ DOMAIN z = ConnFields /\ z.hdr = NoHdr
      /\ \A f \in ConnFields \ {"hdr"} : z[f] = x[f]
  BY <1>1 DEF ConnType, ConnFields
<1> HIDE DEF z
<1>6. /\ z.pc = x.pc /\ z.excl = x.excl /\ z.lock = x.lock /\ z.nCkpt = x.nCkpt
      /\ z.sp = x.sp /\ z.w = x.w
  BY <1>5 DEF ConnFields
<1>7. ConnType(z)
  BY <1>1, <1>5, <1>6, NothingDone DEF ConnType
<1>8. /\ ConnType(NewHdr(z, h)) /\ NewHdr(z, h).hdr = h
      /\ \A f \in ConnFields \ {"hdr", "cache", "w"} : NewHdr(z, h)[f] = z[f]
      /\ \A f \in WorkFields \ {"changed"} : NewHdr(z, h).w[f] = z.w[f]
  BY <1>4, <1>7, NewHdrFields
<1> DEFINE u == NewHdr(z, h)
<1>9. /\ u.excl = x.excl /\ u.lock = x.lock /\ u.nCkpt = x.nCkpt /\ u.sp = x.sp
      /\ u.w.ckpt = x.w.ckpt /\ u.w.close = x.w.close /\ ConnType(u) /\ u.hdr = h
  BY <1>6, <1>8 DEF ConnFields, WorkFields
<1>10. con' = [con EXCEPT ![c] = [Goto(u, "recoverHdr") EXCEPT !.nCkpt = k]]
  <2>1. Goto(u, "recoverHdr").nCkpt = x.nCkpt /\ "nCkpt" \in DOMAIN Goto(u, "recoverHdr")
    BY <1>9 DEF Goto, ConnType, ConnFields
  <2> QED BY <1>2, <2>1
<1>11. k \in Nat
  BY <1>1, <1>4 DEF ConnType, Logs
<1> HIDE DEF u, k
<1>12. PICK v : v = [Goto(u, "recoverHdr") EXCEPT !.nCkpt = k]
  OBVIOUS
<1>13. /\ DOMAIN v = ConnFields /\ v.pc = "recoverHdr" /\ v.nCkpt = k
       /\ v.hdr = u.hdr /\ v.excl = u.excl /\ v.lock = u.lock /\ v.sp = u.sp /\ v.w = u.w
  BY <1>9, <1>12 DEF ConnType, Goto, ConnFields
<1>14. ConnType(v)
  BY <1>9, <1>11, <1>13 DEF ConnType
<1>15. Phase(c, v)
  BY <1>1, <1>2, <1>9, <1>13 DEF Phase, Phases, Outside, Recovering, Restarting, Logging,
     Checkpointing
<1>16. ShmInv' /\ PastInv'
  <2>1. ShmInv'
    BY <1>1, <1>2, <1>3, <1>4, HeadersChanged
  <2> QED BY <1>2, <2>1 DEF TypeInv, PastInv
<1> QED BY <1>1, <1>2, <1>4, <1>9, <1>10, <1>12, <1>13, <1>14, <1>15, <1>16, ShmStep, NoLocksFree
        DEF ConnOK

LEMMA HdrRecovered ==
  ASSUME TypeInv, NEW c \in Conn, RecoverHdr(c)
  PROVE  TypeInv'
<1> DEFINE x == con[c]
           y == Goto(x, "recoverInfo")
<1>1. /\ ConnType(x) /\ Phase(c, x)
      /\ Written(x.hdr.sum, log.cur) /\ Written(x.sp.sum, log.cur)
      /\ HdrOK(shm.h1) /\ Written(shm.h1.sum, log.cur)
  BY AtConn
<1>2. /\ x.pc = "recoverHdr" /\ UNCHANGED <<log, file>>
      /\ con' = [con EXCEPT ![c] = y]
      /\ past' = Saw(RecoveredImage(log.cur, file.cur))
  BY DEF RecoverHdr, Pc, Put
<1>3. /\ DOMAIN shm' = DOMAIN shm /\ shm'.h0 = x.hdr /\ shm'.h1 = shm.h1
      /\ shm'.nBackfill = shm.nBackfill /\ shm'.mark = shm.mark
  BY DEF RecoverHdr, TypeInv, ShmInv
<1>4. ConnType(y) /\ y.pc = "recoverInfo" /\ \A f \in ConnFields \ {"pc"} : y[f] = x[f]
  BY <1>1, GotoFields
<1> HIDE DEF y
<1>5. y.excl = x.excl /\ y.lock = x.lock /\ y.w = x.w /\ y.hdr = x.hdr /\ y.sp = x.sp
  BY <1>4 DEF ConnFields
<1>6. Phase(c, y)
  BY <1>1, <1>2, <1>4, <1>5 DEF Phase, Phases, Outside, Recovering, Restarting, Logging,
     Checkpointing
<1>7. PastInv'
  BY <1>2 DEF TypeInv, PastInv, Saw
<1>8. ShmInv'
  <2>1. HdrOK(x.hdr)
    BY <1>1 DEF ConnType
  <2> QED BY <1>1, <1>2, <1>3, <2>1, HeadersChanged
<1> QED BY <1>1, <1>2, <1>4, <1>5, <1>6, <1>7, <1>8, ShmStep, NoLocksFree DEF ConnOK

LEMMA InfoRecovered ==
  ASSUME TypeInv, NEW c \in Conn, RecoverInfo(c)
  PROVE  TypeInv'
<1> DEFINE x  == con[c]
           pc == IF x.w.ckpt THEN "ckptTest" ELSE "choose"
           e  == IF x.w.ckpt THEN {CKPT} ELSE {}
           y  == [Goto(x, pc) EXCEPT !.excl = e]
<1>1. /\ ConnType(x) /\ Phase(c, x)
      /\ Written(x.hdr.sum, log.cur) /\ Written(x.sp.sum, log.cur)
  BY AtConn
<1>2. /\ x.pc = "recoverInfo" /\ UNCHANGED <<log, file, past>>
      /\ con' = [con EXCEPT ![c] = y]
  BY DEF RecoverInfo, Pc, Put
<1>3. x.excl = AllLocks /\ x.lock = 0 - 1 /\ e \subseteq x.excl
  BY <1>1, <1>2, Constants DEF Phase, Recovering, Restarting, Logging, CKPT, AllLocks
<1>4. pc \in {"ckptTest", "choose"} /\ (pc = "ckptTest" <=> x.w.ckpt)
  OBVIOUS
<1>5. e = IF x.w.ckpt THEN {CKPT} ELSE {}
  OBVIOUS
<1> HIDE DEF pc, e
<1>6. /\ DOMAIN y = ConnFields /\ y.pc = pc /\ y.excl = e
      /\ \A f \in ConnFields \ {"pc", "excl"} : y[f] = x[f]
  BY <1>1 DEF ConnType, Goto, ConnFields
<1> HIDE DEF y
<1>7. y.lock = x.lock /\ y.w = x.w /\ y.hdr = x.hdr /\ y.sp = x.sp /\ y.nCkpt = x.nCkpt
  BY <1>6 DEF ConnFields
<1>8. ConnType(y)
  BY <1>1, <1>3, <1>6, <1>7 DEF ConnType
<1>9. Phase(c, y)
  <2>1. CASE x.w.ckpt
    BY <1>1, <1>2, <1>3, <1>4, <1>5, <1>6, <1>7, <2>1 DEF Phase, Phases, Outside, Recovering,
       Restarting, Logging, Checkpointing
  <2>2. CASE ~x.w.ckpt
    BY <1>1, <1>2, <1>3, <1>4, <1>5, <1>6, <1>7, <2>2 DEF Phase, Phases, Outside, Recovering,
       Restarting, Logging, Checkpointing
  <2> QED BY <2>1, <2>2
<1>10. ShmInv' /\ PastInv'
  <2>1. ShmInv /\ PastInv /\ log' = log /\ past' = past
    BY <1>2 DEF TypeInv
  <2> DEFINE m == [i \in Marks |-> IF i = 1 /\ x.hdr.mx > 0 THEN x.hdr.mx ELSE NotUsed]
  <2>2. /\ DOMAIN shm' = DOMAIN shm /\ shm'.h0 = shm.h0 /\ shm'.h1 = shm.h1
        /\ shm'.nBackfill = 0 /\ shm'.mark = m
    BY <2>1 DEF RecoverInfo, ShmInv
  <2>3. m \in [Marks -> 0..NotUsed]
    <3>1. x.hdr.mx \in 0..NotUsed /\ NotUsed \in 0..NotUsed
      BY <1>1, HdrNumbers, Constants DEF ConnType
    <3> QED BY <3>1
  <2> HIDE DEF m
  <2> QED BY <2>1, <2>2, <2>3, Constants DEF ShmInv, PastInv
<1> QED BY <1>1, <1>2, <1>3, <1>6, <1>7, <1>8, <1>9, <1>10, ShmStep, NoLocksFree DEF ConnOK

-----------------------------------------------------------------------------
(* Checkpoints.                                                               *)

\* What is known of a connection in a checkpoint.
LEMMA InCkpt ==
  ASSUME TypeInv, NEW c \in Conn, con[c].pc \in Checkpointing
  PROVE  con[c].w.ckpt /\ CKPT \in con[c].excl /\ con[c].lock = 0 - 1
BY AtConn DEF Phase, Checkpointing, Logging, Restarting

\* A connection of which the phase, the work and perhaps the locks change.
LEMMA CkptMove ==
  ASSUME NEW c \in Conn, NEW x, ConnType(x), Phase(c, x),
         x.pc \in Checkpointing \cup {"retryHdr"}, x.w.ckpt,
         NEW y, DOMAIN y = ConnFields, y.pc \in Checkpointing \cup {"retryHdr"},
         y.excl \subseteq AllLocks, CKPT \in y.excl,
         y.pc = "retryHdr" => WRITE \in y.excl,
         HdrOK(y.hdr),
         y.lock = x.lock, y.nCkpt = x.nCkpt, y.sp = x.sp,
         WorkOK(y.w), y.w.ckpt <=> x.w.ckpt, y.w.close <=> x.w.close,
         y.pc = "ckptMark" => y.w.mxI \in Marks
  PROVE  ConnOK(c, y)
<1>1. ConnType(y)
  BY DEF ConnType
<1>2. Phase(c, y)
  BY DEF Phase, Phases, Outside, Recovering, Restarting, Logging, Checkpointing
<1> QED BY <1>1, <1>2 DEF ConnOK

LEMMA CkptBegun ==
  ASSUME TypeInv, NEW c \in Conn, NEW block, CkptBegin(c, block)
  PROVE  TypeInv'
<1> DEFINE x == con[c]
           e == IF block /\ ExclFree(c, {WRITE}) THEN {CKPT, WRITE} ELSE {CKPT}
           y == [Goto(x, "ckptHdr") EXCEPT !.excl = e, !.w.ckpt = TRUE]
<1>1. /\ ConnType(x) /\ Phase(c, x)
      /\ Written(x.hdr.sum, log.cur) /\ Written(x.sp.sum, log.cur)
  BY AtConn
<1>2. /\ x.pc = "idle" /\ c \in Checkpointers /\ UNCHANGED <<shm, log, file, past>>
      /\ con' = [con EXCEPT ![c] = y] /\ ExclFree(c, {CKPT})
  BY DEF CkptBegin, Pc, Put
<1>3. ExclFree(c, e)
  BY <1>2 DEF ExclFree
<1>4. e \subseteq AllLocks /\ CKPT \in e
  BY Constants DEF CKPT, WRITE, AllLocks
<1> HIDE DEF e
<1>5. /\ DOMAIN y = ConnFields /\ y.pc = "ckptHdr" /\ y.excl = e
      /\ \A f \in ConnFields \ {"pc", "excl", "w"} : y[f] = x[f]
      /\ DOMAIN y.w = WorkFields /\ y.w.ckpt
      /\ \A f \in WorkFields \ {"ckpt"} : y.w[f] = x.w[f]
  BY <1>1 DEF ConnType, Goto, ConnFields, WorkOK, WorkFields
<1> HIDE DEF y
<1>6. y.lock = x.lock /\ y.hdr = x.hdr /\ y.sp = x.sp /\ y.nCkpt = x.nCkpt
  BY <1>5 DEF ConnFields
<1>7. y.w.todo = x.w.todo /\ y.w.mxI = x.w.mxI /\ y.w.safe = x.w.safe /\ y.w.close = x.w.close
  BY <1>5 DEF WorkFields
<1>8. ConnType(y)
  <2>1. WorkOK(y.w)
    BY <1>1, <1>5, <1>7 DEF ConnType, WorkOK
  <2> QED BY <1>1, <1>4, <1>5, <1>6, <2>1 DEF ConnType
<1>9. Phase(c, y)
  BY <1>1, <1>2, <1>4, <1>5, <1>6, <1>7 DEF Phase, Phases, Outside, Recovering, Restarting,
     Logging, Checkpointing
<1> QED BY <1>1, <1>2, <1>3, <1>5, <1>6, <1>7, <1>8, <1>9, ConnStep DEF ConnOK

LEMMA CkptHdrRead ==
  ASSUME TypeInv, NEW c \in Conn, CkptHdr(c)
  PROVE  TypeInv'
<1> DEFINE x == con[c]
<1>1. /\ ConnType(x) /\ Phase(c, x)
      /\ Written(x.hdr.sum, log.cur) /\ Written(x.sp.sum, log.cur)
      /\ HdrOK(shm.h0) /\ Written(shm.h0.sum, log.cur)
  BY AtConn
<1>2. x.pc = "ckptHdr" /\ UNCHANGED <<shm, log, file, past>>
  BY DEF CkptHdr, Pc
<1>3. x.w.ckpt /\ CKPT \in x.excl /\ x.pc \in Checkpointing
  BY <1>2, InCkpt DEF Checkpointing
<1>4. CASE con' = [con EXCEPT ![c] = Goto(LoadHdr(x), "ckptTest")]
  <2> DEFINE y == Goto(LoadHdr(x), "ckptTest")
  <2>1. /\ ConnType(LoadHdr(x)) /\ LoadHdr(x).hdr = shm.h0
        /\ \A f \in ConnFields \ {"hdr", "cache", "w"} : LoadHdr(x)[f] = x[f]
        /\ \A f \in WorkFields \ {"changed"} : LoadHdr(x).w[f] = x.w[f]
    BY <1>1, NewHdrFields DEF LoadHdr
  <2>2. /\ ConnType(y) /\ y.pc = "ckptTest"
        /\ \A f \in ConnFields \ {"pc"} : y[f] = LoadHdr(x)[f]
    BY <2>1, GotoFields
  <2>3. con' = [con EXCEPT ![c] = y]
    BY <1>4
  <2> HIDE DEF y
  <2>4. /\ y.lock = x.lock /\ y.excl = x.excl /\ y.sp = x.sp /\ y.nCkpt = x.nCkpt
        /\ y.hdr = shm.h0 /\ y.w.ckpt = x.w.ckpt /\ y.w.close = x.w.close
    BY <2>1, <2>2 DEF ConnFields, WorkFields
  <2>5. ConnOK(c, y)
    <3>1. DOMAIN y = ConnFields /\ WorkOK(y.w) /\ y.excl \subseteq AllLocks
      BY <2>2 DEF ConnType
    <3>2. y.pc \in Checkpointing
      BY <2>2 DEF Checkpointing
    <3> QED BY <1>1, <1>3, <2>2, <2>4, <3>1, <3>2, CkptMove
  <2> QED BY <1>1, <1>2, <2>3, <2>4, <2>5, ConnStep, NoLocksFree
<1>5. CASE /\ ExclFree(c, {WRITE})
           /\ con' = [con EXCEPT ![c] = [Goto(x, "retryHdr") EXCEPT !.excl = @ \cup {WRITE}]]
  <2> DEFINE y == [Goto(x, "retryHdr") EXCEPT !.excl = @ \cup {WRITE}]
  <2>1. /\ DOMAIN y = ConnFields /\ y.pc = "retryHdr" /\ y.excl = x.excl \cup {WRITE}
        /\ \A f \in ConnFields \ {"pc", "excl"} : y[f] = x[f]
    BY <1>1 DEF ConnType, Goto, ConnFields
  <2>2. con' = [con EXCEPT ![c] = y]
    BY <1>5
  <2> HIDE DEF y
  <2>3. y.lock = x.lock /\ y.w = x.w /\ y.hdr = x.hdr /\ y.sp = x.sp /\ y.nCkpt = x.nCkpt
    BY <2>1 DEF ConnFields
  <2>4. ConnOK(c, y)
    <3>1. y.excl \subseteq AllLocks /\ WorkOK(y.w) /\ HdrOK(y.hdr)
      BY <1>1, <2>1, <2>3, Constants DEF ConnType, WRITE, AllLocks
    <3> QED BY <1>1, <1>3, <2>1, <2>3, <3>1, CkptMove
  <2> QED BY <1>1, <1>2, <1>5, <2>1, <2>2, <2>3, <2>4, ConnStep
<1>6. CASE con' = [con EXCEPT ![c] = Goto(x, "ckptEnd")]
  <2> DEFINE y == Goto(x, "ckptEnd")
  <2>1. ConnType(y) /\ y.pc = "ckptEnd" /\ \A f \in ConnFields \ {"pc"} : y[f] = x[f]
    BY <1>1, GotoFields
  <2>2. con' = [con EXCEPT ![c] = y]
    BY <1>6
  <2> HIDE DEF y
  <2>3. /\ y.lock = x.lock /\ y.w = x.w /\ y.hdr = x.hdr /\ y.sp = x.sp /\ y.nCkpt = x.nCkpt
        /\ y.excl = x.excl
    BY <2>1 DEF ConnFields
  <2>4. ConnOK(c, y)
    <3>1. DOMAIN y = ConnFields /\ WorkOK(y.w) /\ HdrOK(y.hdr) /\ y.excl \subseteq AllLocks
      BY <2>1 DEF ConnType
    <3>2. y.pc \in Checkpointing
      BY <2>1 DEF Checkpointing
    <3> QED BY <1>1, <1>3, <2>1, <2>3, <3>1, <3>2, CkptMove
  <2> QED BY <1>1, <1>2, <2>2, <2>3, <2>4, ConnStep, NoLocksFree
<1> QED BY <1>4, <1>5, <1>6 DEF CkptHdr, Put

LEMMA CkptTested ==
  ASSUME TypeInv, NEW c \in Conn, CkptTest(c)
  PROVE  TypeInv'
<1> DEFINE x == con[c]
<1>1. /\ ConnType(x) /\ Phase(c, x)
      /\ Written(x.hdr.sum, log.cur) /\ Written(x.sp.sum, log.cur)
  BY AtConn
<1>2. x.pc = "ckptTest" /\ UNCHANGED <<shm, log, file, past>>
  BY DEF CkptTest, Pc
<1>3. x.w.ckpt /\ CKPT \in x.excl /\ x.pc \in Checkpointing
  BY <1>2, InCkpt DEF Checkpointing
<1>4. CASE con' = [con EXCEPT ![c] = Goto(x, "ckptEnd")]
  <2> DEFINE y == Goto(x, "ckptEnd")
  <2>1. ConnType(y) /\ y.pc = "ckptEnd" /\ \A f \in ConnFields \ {"pc"} : y[f] = x[f]
    BY <1>1, GotoFields
  <2>2. con' = [con EXCEPT ![c] = y]
    BY <1>4
  <2> HIDE DEF y
  <2>3. /\ y.lock = x.lock /\ y.w = x.w /\ y.hdr = x.hdr /\ y.sp = x.sp /\ y.nCkpt = x.nCkpt
        /\ y.excl = x.excl
    BY <2>1 DEF ConnFields
  <2>4. ConnOK(c, y)
    <3>1. DOMAIN y = ConnFields /\ WorkOK(y.w) /\ HdrOK(y.hdr) /\ y.excl \subseteq AllLocks
      BY <2>1 DEF ConnType
    <3>2. y.pc \in Checkpointing
      BY <2>1 DEF Checkpointing
    <3> QED BY <1>1, <1>3, <2>1, <2>3, <3>1, <3>2, CkptMove
  <2> QED BY <1>1, <1>2, <2>2, <2>3, <2>4, ConnStep, NoLocksFree
<1>5. CASE con' = [con EXCEPT ![c] = [Goto(x, "ckptMark") EXCEPT !.w.iter = Iterator(x.hdr.mx),
                                        !.w.safe = x.hdr.mx, !.w.mxI = 1]]
  <2> DEFINE y == [Goto(x, "ckptMark") EXCEPT !.w.iter = Iterator(x.hdr.mx),
                                        !.w.safe = x.hdr.mx, !.w.mxI = 1]
  <2>1. /\ DOMAIN y = ConnFields /\ y.pc = "ckptMark"
        /\ \A f \in ConnFields \ {"pc", "w"} : y[f] = x[f]
        /\ DOMAIN y.w = WorkFields /\ y.w.safe = x.hdr.mx /\ y.w.mxI = 1
        /\ \A f \in WorkFields \ {"iter", "safe", "mxI"} : y.w[f] = x.w[f]
    BY <1>1 DEF ConnType, Goto, ConnFields, WorkOK, WorkFields
  <2>2. con' = [con EXCEPT ![c] = y]
    BY <1>5
  <2> HIDE DEF y
  <2>3. /\ y.lock = x.lock /\ y.hdr = x.hdr /\ y.sp = x.sp /\ y.nCkpt = x.nCkpt
        /\ y.excl = x.excl
    BY <2>1 DEF ConnFields
  <2>4. y.w.ckpt = x.w.ckpt /\ y.w.close = x.w.close /\ y.w.todo = x.w.todo
    BY <2>1 DEF WorkFields
  <2>5. ConnOK(c, y)
    <3>1. x.hdr.mx \in 0..MaxFrame
      BY <1>1, HdrNumbers DEF ConnType
    <3>2. WorkOK(y.w) /\ HdrOK(y.hdr) /\ y.excl \subseteq AllLocks
      BY <1>1, <2>1, <2>3, <2>4, <3>1, Constants DEF ConnType, WorkOK
    <3>3. y.pc \in Checkpointing /\ y.w.mxI \in Marks
      BY <2>1, Constants DEF Checkpointing
    <3> QED BY <1>1, <1>3, <2>1, <2>3, <2>4, <3>2, <3>3, CkptMove
  <2> QED BY <1>1, <1>2, <2>2, <2>3, <2>4, <2>5, ConnStep, NoLocksFree
<1> QED BY <1>4, <1>5 DEF CkptTest, Put

LEMMA CkptMarked ==
  ASSUME TypeInv, NEW c \in Conn, CkptMark(c)
  PROVE  TypeInv'
<1> DEFINE x    == con[c]
           i    == x.w.mxI
           m    == shm.mark[i]
           busy == ~ExclFree(c, {READ(i)})
           s    == SafeFrame(x.w.safe, m, busy)
           pc   == IF i + 1 \in Marks THEN "ckptMark" ELSE "ckptLock0"
           j    == IF i + 1 \in Marks THEN i + 1 ELSE 0
           y    == [Goto(x, pc) EXCEPT !.w.safe = s, !.w.mxI = j]
<1>1. /\ ConnType(x) /\ Phase(c, x)
      /\ Written(x.hdr.sum, log.cur) /\ Written(x.sp.sum, log.cur)
  BY AtConn
<1>2. /\ x.pc = "ckptMark" /\ UNCHANGED <<log, file, past>>
      /\ con' = [con EXCEPT ![c] = [Goto(x, pc) EXCEPT !.w.safe = SafeFrame(@, m, busy),
                                                       !.w.mxI = j]]
  BY DEF CkptMark, Pc, Put
<1>3. shm' = IF x.w.safe > m /\ ~busy
             THEN [shm EXCEPT !.mark[i] = IF i = 1 THEN x.w.safe ELSE NotUsed] ELSE shm
  BY DEF CkptMark
<1>4. x.w.ckpt /\ CKPT \in x.excl /\ x.pc \in Checkpointing
  BY <1>2, InCkpt DEF Checkpointing
<1>5. con' = [con EXCEPT ![c] = y]
  <2>1. Goto(x, pc).w.safe = x.w.safe /\ "safe" \in DOMAIN Goto(x, pc).w
        /\ "w" \in DOMAIN Goto(x, pc)
    BY <1>1 DEF ConnType, Goto, ConnFields, WorkOK, WorkFields
  <2> HIDE DEF pc, j, m, busy
  <2> QED BY <1>2, <2>1
<1>6. i \in Marks /\ x.w.safe \in 0..MaxFrame
  BY <1>1, <1>2 DEF Phase, ConnType, WorkOK
<1>7. ShmInv /\ m \in 0..NotUsed
  BY <1>6 DEF TypeInv, ShmInv
<1>8. s \in 0..MaxFrame
  BY <1>6, <1>7, Constants DEF SafeFrame
<1>9. /\ pc \in {"ckptMark", "ckptLock0"} /\ (pc = "ckptMark" => j \in Marks)
      /\ j \in 0..(NReader - 1)
  BY Constants
<1>10. ShmInv'
  <2>1. CASE shm' = shm
    BY <1>2, <1>7, <2>1 DEF ShmInv
  <2>2. CASE shm' = [shm EXCEPT !.mark[i] = IF i = 1 THEN x.w.safe ELSE NotUsed]
    <3> DEFINE v == IF i = 1 THEN x.w.safe ELSE NotUsed
    <3>1. v \in 0..NotUsed
      BY <1>6, Constants
    <3>2. shm' = [shm EXCEPT !.mark[i] = v]
      BY <2>2
    <3> HIDE DEF v, i
    <3>3. /\ DOMAIN shm' = DOMAIN shm
          /\ shm'.h0 = shm.h0 /\ shm'.h1 = shm.h1 /\ shm'.nBackfill = shm.nBackfill
          /\ shm'.mark = [shm.mark EXCEPT ![i] = v]
      BY <1>7, <3>2 DEF ShmInv
    <3>4. shm'.mark \in [Marks -> 0..NotUsed]
      BY <1>7, <3>1, <3>3 DEF ShmInv
    <3> QED BY <1>2, <1>7, <3>3, <3>4 DEF ShmInv
  <2> QED BY <1>3, <2>1, <2>2
<1> HIDE DEF s, pc, j
<1>11. /\ DOMAIN y = ConnFields /\ y.pc = pc
       /\ \A f \in ConnFields \ {"pc", "w"} : y[f] = x[f]
       /\ DOMAIN y.w = WorkFields /\ y.w.safe = s /\ y.w.mxI = j
       /\ \A f \in WorkFields \ {"safe", "mxI"} : y.w[f] = x.w[f]
  BY <1>1 DEF ConnType, Goto, ConnFields, WorkOK, WorkFields
<1> HIDE DEF y
<1>12. /\ y.lock = x.lock /\ y.hdr = x.hdr /\ y.sp = x.sp /\ y.nCkpt = x.nCkpt
       /\ y.excl = x.excl
  BY <1>11 DEF ConnFields
<1>13. y.w.ckpt = x.w.ckpt /\ y.w.close = x.w.close /\ y.w.todo = x.w.todo
  BY <1>11 DEF WorkFields
<1>14. ConnOK(c, y)
  <2>1. WorkOK(y.w) /\ HdrOK(y.hdr) /\ y.excl \subseteq AllLocks
    BY <1>1, <1>8, <1>9, <1>11, <1>12, <1>13 DEF ConnType, WorkOK
  <2>2. y.pc \in Checkpointing /\ (y.pc = "ckptMark" => y.w.mxI \in Marks) /\ y.pc # "retryHdr"
    BY <1>9, <1>11 DEF Checkpointing
  <2> QED BY <1>1, <1>4, <1>11, <1>12, <1>13, <2>1, <2>2, CkptMove
<1>15. PastInv'
  BY <1>2 DEF TypeInv, PastInv
<1> QED BY <1>1, <1>2, <1>5, <1>10, <1>12, <1>13, <1>14, <1>15, ShmStep, NoLocksFree

LEMMA CkptLocked0 ==
  ASSUME TypeInv, NEW c \in Conn, CkptLock0(c)
  PROVE  TypeInv'
<1> DEFINE x  == con[c]
           go == shm.nBackfill < x.w.safe /\ ExclFree(c, {READ(0)})
<1>1. /\ ConnType(x) /\ Phase(c, x)
      /\ Written(x.hdr.sum, log.cur) /\ Written(x.sp.sum, log.cur)
  BY AtConn
<1>2. /\ x.pc = "ckptLock0" /\ UNCHANGED <<shm, file, past>>
      /\ log' = IF go THEN SyncForCkpt(log) ELSE log
  BY DEF CkptLock0, Pc
<1>3. x.w.ckpt /\ CKPT \in x.excl /\ x.pc \in Checkpointing
  BY <1>2, InCkpt DEF Checkpointing
<1>4. LogInv' /\ log'.cur = log.cur /\ PastInv'
  <2>1. LogInv /\ PastInv'
    BY <1>2 DEF TypeInv, PastInv
  <2>2. CASE log' = SyncForCkpt(log)
    BY <2>1, <2>2, SyncedLogOK DEF LogInv, SyncForCkpt
  <2>3. CASE log' = log
    BY <2>1, <2>3 DEF LogInv
  <2> QED BY <1>2, <2>1, <2>2, <2>3
<1>5. Len(log.cur.frames) <= Len(log'.cur.frames)
  <2>1. Len(log.cur.frames) \in Nat
    BY DEF TypeInv, LogInv, Logs
  <2> QED BY <1>4, <2>1
<1>6. ShmInv'
  BY <1>2, <1>4, <1>5, ShmKept DEF LogInv
<1>7. CASE go
  <2>1. PICK iter : con' = [con EXCEPT ![c] = [Goto(x, "ckptWrite") EXCEPT
                              !.excl = @ \cup {READ(0)}, !.w.iter = iter]]
    BY <1>7 DEF CkptLock0, Put
  <2> DEFINE y == [Goto(x, "ckptWrite") EXCEPT !.excl = @ \cup {READ(0)}, !.w.iter = iter]
  <2>2. /\ DOMAIN y = ConnFields /\ y.pc = "ckptWrite" /\ y.excl = x.excl \cup {READ(0)}
        /\ \A f \in ConnFields \ {"pc", "excl", "w"} : y[f] = x[f]
        /\ DOMAIN y.w = WorkFields
        /\ \A f \in WorkFields \ {"iter"} : y.w[f] = x.w[f]
    BY <1>1 DEF ConnType, Goto, ConnFields, WorkOK, WorkFields
  <2>3. con' = [con EXCEPT ![c] = y] /\ ExclFree(c, {READ(0)})
    BY <1>7, <2>1
  <2> HIDE DEF y
  <2>4. y.lock = x.lock /\ y.hdr = x.hdr /\ y.sp = x.sp /\ y.nCkpt = x.nCkpt
    BY <2>2 DEF ConnFields
  <2>5. /\ y.w.ckpt = x.w.ckpt /\ y.w.close = x.w.close /\ y.w.todo = x.w.todo
        /\ y.w.safe = x.w.safe /\ y.w.mxI = x.w.mxI
    BY <2>2 DEF WorkFields
  <2>6. ConnOK(c, y)
    <3>1. WorkOK(y.w) /\ HdrOK(y.hdr)
      BY <1>1, <2>2, <2>4, <2>5 DEF ConnType, WorkOK
    <3>2. READ(0) \in AllLocks
      BY Constants DEF READ, AllLocks
    <3>3. y.excl \subseteq AllLocks /\ y.pc \in Checkpointing
      BY <1>1, <2>2, <3>2 DEF ConnType, Checkpointing
    <3> QED BY <1>1, <1>3, <2>2, <2>4, <2>5, <3>1, <3>3, CkptMove
  <2> QED BY <1>1, <1>2, <1>4, <1>5, <1>6, <2>2, <2>3, <2>4, <2>5, <2>6, StepInv
<1>8. CASE ~go
  <2> DEFINE y == Goto(x, "ckptEnd")
  <2>1. ConnType(y) /\ y.pc = "ckptEnd" /\ \A f \in ConnFields \ {"pc"} : y[f] = x[f]
    BY <1>1, GotoFields
  <2>2. con' = [con EXCEPT ![c] = y]
    BY <1>8 DEF CkptLock0, Put
  <2> HIDE DEF y
  <2>3. /\ y.lock = x.lock /\ y.w = x.w /\ y.hdr = x.hdr /\ y.sp = x.sp /\ y.nCkpt = x.nCkpt
        /\ y.excl = x.excl
    BY <2>1 DEF ConnFields
  <2>4. ConnOK(c, y)
    <3>1. DOMAIN y = ConnFields /\ WorkOK(y.w) /\ HdrOK(y.hdr) /\ y.excl \subseteq AllLocks
      BY <2>1 DEF ConnType
    <3>2. y.pc \in Checkpointing
      BY <2>1 DEF Checkpointing
    <3> QED BY <1>1, <1>3, <2>1, <2>3, <3>1, <3>2, CkptMove
  <2> HIDE DEF go
  <2> QED BY <1>1, <1>2, <1>4, <1>5, <1>6, <2>2, <2>3, <2>4, StepInv, NoLocksFree
<1> QED BY <1>7, <1>8

LEMMA CkptWritten ==
  ASSUME TypeInv, NEW c \in Conn, CkptWrite(c)
  PROVE  TypeInv'
<1> DEFINE x == con[c]
<1>1. /\ ConnType(x) /\ Phase(c, x)
      /\ Written(x.hdr.sum, log.cur) /\ Written(x.sp.sum, log.cur)
  BY AtConn
<1>2. x.pc = "ckptWrite" /\ UNCHANGED <<shm, log, past>>
  BY DEF CkptWrite, Pc
<1>3. x.w.ckpt /\ CKPT \in x.excl /\ x.pc \in Checkpointing
  BY <1>2, InCkpt DEF Checkpointing
<1>4. PICK f : con' = [con EXCEPT ![c] = [x EXCEPT !.w.iter[f] = 0]]
  BY DEF CkptWrite, Put
<1> DEFINE y == [x EXCEPT !.w.iter[f] = 0]
<1>5. /\ DOMAIN y = ConnFields
      /\ \A g \in ConnFields \ {"w"} : y[g] = x[g]
      /\ DOMAIN y.w = WorkFields
      /\ \A g \in WorkFields \ {"iter"} : y.w[g] = x.w[g]
  BY <1>1 DEF ConnType, ConnFields, WorkOK, WorkFields
<1>6. con' = [con EXCEPT ![c] = y]
  BY <1>4
<1> HIDE DEF y
<1>7. /\ y.pc = x.pc /\ y.excl = x.excl /\ y.lock = x.lock /\ y.hdr = x.hdr
      /\ y.sp = x.sp /\ y.nCkpt = x.nCkpt
  BY <1>5 DEF ConnFields
<1>8. /\ y.w.ckpt = x.w.ckpt /\ y.w.close = x.w.close /\ y.w.todo = x.w.todo
      /\ y.w.safe = x.w.safe /\ y.w.mxI = x.w.mxI
  BY <1>5 DEF WorkFields
<1>9. ConnOK(c, y)
  <2>1. WorkOK(y.w) /\ HdrOK(y.hdr) /\ y.excl \subseteq AllLocks
    BY <1>1, <1>5, <1>7, <1>8 DEF ConnType, WorkOK
  <2> QED BY <1>1, <1>2, <1>3, <1>5, <1>7, <1>8, <2>1, CkptMove
<1>10. ShmInv' /\ PastInv' /\ LogInv'
  BY <1>2 DEF TypeInv, ShmInv, PastInv, LogInv
<1>11. /\ Len(log.cur.frames) <= Len(log'.cur.frames)
       /\ Written(y.hdr.sum, log'.cur) /\ Written(y.sp.sum, log'.cur)
  <2>1. Len(log.cur.frames) \in Nat
    BY DEF TypeInv, LogInv, Logs
  <2> QED BY <1>1, <1>2, <1>7, <2>1
<1> QED BY <1>2, <1>6, <1>7, <1>8, <1>9, <1>10, <1>11, StepInv, NoLocksFree

LEMMA CkptFinished ==
  ASSUME TypeInv, NEW c \in Conn, CkptDone(c)
  PROVE  TypeInv'
<1> DEFINE x == con[c]
           y == [Goto(x, "ckptEnd") EXCEPT !.excl = @ \ {READ(0)}]
<1>1. /\ ConnType(x) /\ Phase(c, x)
      /\ Written(x.hdr.sum, log.cur) /\ Written(x.sp.sum, log.cur)
  BY AtConn
<1>2. /\ x.pc = "ckptWrite" /\ UNCHANGED <<log, past>>
      /\ shm' = [shm EXCEPT !.nBackfill = x.w.safe] /\ con' = [con EXCEPT ![c] = y]
  BY DEF CkptDone, Pc, Put
<1>3. x.w.ckpt /\ CKPT \in x.excl /\ x.pc \in Checkpointing
  BY <1>2, InCkpt DEF Checkpointing
<1>4. /\ DOMAIN y = ConnFields /\ y.pc = "ckptEnd" /\ y.excl = x.excl \ {READ(0)}
      /\ \A f \in ConnFields \ {"pc", "excl"} : y[f] = x[f]
  BY <1>1 DEF ConnType, Goto, ConnFields
<1> HIDE DEF y
<1>5. y.lock = x.lock /\ y.w = x.w /\ y.hdr = x.hdr /\ y.sp = x.sp /\ y.nCkpt = x.nCkpt
  BY <1>4 DEF ConnFields
<1>6. ConnOK(c, y)
  <2>1. WorkOK(y.w) /\ HdrOK(y.hdr) /\ y.excl \subseteq AllLocks
    BY <1>1, <1>4, <1>5 DEF ConnType
  <2>2. y.pc \in Checkpointing /\ CKPT \in y.excl /\ y.pc # "ckptMark" /\ y.pc # "retryHdr"
    BY <1>3, <1>4 DEF Checkpointing, CKPT, READ
  <2> QED BY <1>1, <1>3, <1>4, <1>5, <2>1, <2>2, CkptMove
<1>7. ShmInv' /\ PastInv' /\ LogInv'
  <2>1. ShmInv /\ PastInv /\ LogInv /\ log' = log /\ past' = past
    BY <1>2 DEF TypeInv
  <2>2. /\ DOMAIN shm' = DOMAIN shm /\ shm'.h0 = shm.h0 /\ shm'.h1 = shm.h1
        /\ shm'.nBackfill = x.w.safe /\ shm'.mark = shm.mark
    BY <1>2, <2>1 DEF ShmInv
  <2>3. x.w.safe \in 0..MaxFrame
    BY <1>1 DEF ConnType, WorkOK
  <2> QED BY <2>1, <2>2, <2>3 DEF ShmInv, PastInv, LogInv
<1>8. /\ Len(log.cur.frames) <= Len(log'.cur.frames)
      /\ Written(y.hdr.sum, log'.cur) /\ Written(y.sp.sum, log'.cur)
  <2>1. Len(log.cur.frames) \in Nat
    BY DEF TypeInv, LogInv, Logs
  <2> QED BY <1>1, <1>2, <1>5, <2>1
<1> QED BY <1>1, <1>2, <1>4, <1>5, <1>6, <1>7, <1>8, StepInv, NoLocksFree

-----------------------------------------------------------------------------
(* Opening, closing, crashes.                                                 *)

LEMMA NewConnOK ==
  \A c \in Conn : ConnOK(c, Connected) /\ ConnOK(c, Closed)
<1> SUFFICES ASSUME NEW c \in Conn PROVE ConnOK(c, Connected) /\ ConnOK(c, Closed)
  OBVIOUS
<1>1. /\ DOMAIN Connected = ConnFields /\ Connected.pc = "idle" /\ Connected.hdr = NoHdr
      /\ Connected.lock = 0 - 1 /\ Connected.excl = {} /\ Connected.nCkpt = 0
      /\ Connected.sp = NoSavepoint /\ Connected.w = NoWork
  BY DEF Connected, ConnFields
<1>2. /\ DOMAIN Closed = ConnFields /\ Closed.pc = "closed" /\ Closed.hdr = NoHdr
      /\ Closed.lock = 0 - 1 /\ Closed.excl = {} /\ Closed.nCkpt = 0
      /\ Closed.sp = NoSavepoint /\ Closed.w = NoWork
  BY DEF Closed, Connected, ConnFields
<1>3. ~NoWork.ckpt /\ ~NoWork.close
  BY DEF NoWork
<1>4. ConnType(Connected) /\ ConnType(Closed)
  BY <1>1, <1>2, NothingDone, Constants DEF ConnType
<1>5. Phase(c, Connected)
  BY <1>1, <1>3 DEF Phase, Phases, Outside, Recovering, Restarting, Logging, Checkpointing
<1>6. Phase(c, Closed)
  BY <1>2, <1>3 DEF Phase, Phases, Outside, Recovering, Restarting, Logging, Checkpointing
<1> QED BY <1>4, <1>5, <1>6 DEF ConnOK

LEMMA NewConnFields ==
  /\ Connected.excl = {} /\ Connected.lock = 0 - 1 /\ ~Connected.w.close
  /\ Connected.hdr = NoHdr /\ Connected.sp = NoSavepoint
  /\ Closed.excl = {} /\ Closed.lock = 0 - 1 /\ ~Closed.w.close
  /\ Closed.hdr = NoHdr /\ Closed.sp = NoSavepoint /\ Closed.pc = "closed"
BY DEF Connected, Closed, NoWork

LEMMA EmptyShmOK ==
  ASSUME NEW l \in Logs
  PROVE  /\ DOMAIN EmptyShm = {"h0", "h1", "nBackfill", "mark", "pgno"}
         /\ HdrOK(EmptyShm.h0) /\ Written(EmptyShm.h0.sum, l)
         /\ HdrOK(EmptyShm.h1) /\ Written(EmptyShm.h1.sum, l)
         /\ EmptyShm.nBackfill \in 0..MaxFrame
         /\ EmptyShm.mark \in [Marks -> 0..NotUsed]
BY EmptyOK, Constants DEF EmptyShm

LEMMA Opened ==
  ASSUME TypeInv, NEW c \in Conn, Open(c)
  PROVE  TypeInv'
<1>1. /\ \A d \in Conn : ~con[d].w.close
      /\ con' = [con EXCEPT ![c] = Connected] /\ UNCHANGED <<shm, log, file, past>>
  BY DEF Open, Put
<1>2. ConnOK(c, Connected) /\ Written(NoHdr.sum, log.cur) /\ Written(NoSavepoint.sum, log.cur)
  BY NewConnOK, EmptyOK DEF TypeInv, LogInv
<1> QED BY <1>1, <1>2, NewConnFields, ConnStep, NoLocksFree

LEMMA CloseBegun ==
  ASSUME TypeInv, NEW c \in Conn, Close(c)
  PROVE  TypeInv'
<1> DEFINE x == con[c]
           y == [Goto(x, "ckptHdr") EXCEPT !.excl = {CKPT}, !.w.ckpt = TRUE, !.w.close = TRUE]
<1>1. /\ ConnType(x) /\ Phase(c, x)
      /\ Written(x.hdr.sum, log.cur) /\ Written(x.sp.sum, log.cur)
  BY AtConn
<1>2. /\ x.pc = "idle" /\ UNCHANGED <<shm, log, file, past>>
      /\ con' = [con EXCEPT ![c] = IF OpenConn = {c} THEN y ELSE Closed]
  BY DEF Close, Pc, Put
<1>3. CASE OpenConn = {c}
  <2>1. \A d \in Conn \ {c} : con[d].pc = "closed"
    BY <1>3 DEF OpenConn, Pc
  <2>2. ExclFree(c, {CKPT})
    <3>1. ASSUME NEW d \in Conn \ {c} PROVE con[d] = Closed
      BY <2>1, AtConn DEF Phase
    <3> QED BY <3>1, NewConnFields DEF ExclFree
  <2>3. con' = [con EXCEPT ![c] = y]
    BY <1>2, <1>3
  <2>4. /\ DOMAIN y = ConnFields /\ y.pc = "ckptHdr" /\ y.excl = {CKPT}
        /\ \A f \in ConnFields \ {"pc", "excl", "w"} : y[f] = x[f]
        /\ DOMAIN y.w = WorkFields /\ y.w.ckpt /\ y.w.close
        /\ \A f \in WorkFields \ {"ckpt", "close"} : y.w[f] = x.w[f]
    BY <1>1 DEF ConnType, Goto, ConnFields, WorkOK, WorkFields
  <2> HIDE DEF y
  <2>5. y.lock = x.lock /\ y.hdr = x.hdr /\ y.sp = x.sp /\ y.nCkpt = x.nCkpt
    BY <2>4 DEF ConnFields
  <2>6. y.w.todo = x.w.todo /\ y.w.mxI = x.w.mxI /\ y.w.safe = x.w.safe
    BY <2>4 DEF WorkFields
  <2>7. ConnType(y)
    <3>1. WorkOK(y.w)
      BY <1>1, <2>4, <2>6 DEF ConnType, WorkOK
    <3>2. CKPT \in AllLocks
      BY Constants DEF CKPT, AllLocks
    <3> QED BY <1>1, <2>4, <2>5, <3>1, <3>2 DEF ConnType
  <2>8. Phase(c, y)
    BY <1>1, <1>2, <2>4, <2>5 DEF Phase, Phases, Outside, Recovering, Restarting,
       Logging, Checkpointing
  <2> QED BY <1>1, <1>2, <2>1, <2>2, <2>3, <2>4, <2>5, <2>7, <2>8, ConnStep DEF ConnOK
<1>4. CASE OpenConn # {c}
  <2>1. ConnOK(c, Closed) /\ Written(NoHdr.sum, log.cur) /\ Written(NoSavepoint.sum, log.cur)
    BY NewConnOK, EmptyOK DEF TypeInv, LogInv
  <2>2. con' = [con EXCEPT ![c] = Closed]
    BY <1>2, <1>4
  <2> QED BY <1>2, <2>1, <2>2, NewConnFields, ConnStep, NoLocksFree
<1> QED BY <1>3, <1>4

\* Whoever is not closed after a step is as it was before it.
LEMMA ClosedInv ==
  ASSUME TypeInv, con' = [c \in Conn |-> con'[c]],
         \A c \in Conn : con'[c] = Closed \/ (con'[c] = con[c] /\ log'.cur = log.cur),
         ShmInv', LogInv', PastInv'
  PROVE  TypeInv'
<1>1. LockInv /\ ConnInv /\ LogInv
  BY DEF TypeInv
<1>2. LockInv'
  <2> SUFFICES ASSUME NEW a \in Conn, NEW b \in Conn, a # b
               PROVE  /\ con'[a].excl \cap con'[b].excl = {}
                      /\ con'[a].lock >= 0 => READ(con'[a].lock) \notin con'[b].excl
                      /\ con'[a].w.close => con'[b].pc = "closed"
    BY DEF LockInv, READ
  <2>1. CASE con'[a] = Closed
    BY <2>1, NewConnFields
  <2>2. CASE con'[a] = con[a] /\ con'[b] = Closed
    BY <2>2, NewConnFields
  <2>3. CASE con'[a] = con[a] /\ con'[b] = con[b]
    BY <1>1, <2>3 DEF LockInv
  <2> QED BY <2>1, <2>2, <2>3
<1>3. ConnInv'
  <2> SUFFICES ASSUME NEW d \in Conn
               PROVE  /\ ConnOK(d, con'[d])
                      /\ Written(con'[d].hdr.sum, log'.cur)
                      /\ Written(con'[d].sp.sum, log'.cur)
    BY DEF ConnInv
  <2>1. CASE con'[d] = Closed
    <3>1. log'.cur \in Logs
      BY DEF LogInv
    <3>2. Written(NoHdr.sum, log'.cur) /\ Written(NoSavepoint.sum, log'.cur)
      BY <3>1, EmptyOK
    <3> QED BY <2>1, <3>2, NewConnOK, NewConnFields
  <2>2. CASE con'[d] = con[d] /\ log'.cur = log.cur
    BY <1>1, <2>2 DEF ConnInv
  <2> QED BY <2>1, <2>2
<1> QED BY <1>2, <1>3 DEF TypeInv

LEMMA Killed ==
  ASSUME TypeInv, NEW P, Kill(P)
  PROVE  TypeInv'
<1>1. /\ con' = [c \in Conn |-> IF c \in P THEN Closed ELSE con[c]]
      /\ shm' = EmptyShm \/ shm' = shm
      /\ UNCHANGED <<log, file, past>>
  BY DEF Kill, Left
<1>2. LogInv' /\ PastInv' /\ log'.cur = log.cur
  BY <1>1 DEF TypeInv, LogInv, PastInv
<1>3. ShmInv'
  <2>1. CASE shm' = EmptyShm
    BY <1>2, <2>1, EmptyShmOK DEF ShmInv, LogInv
  <2>2. CASE shm' = shm
    BY <1>1, <2>2 DEF TypeInv, ShmInv
  <2> QED BY <1>1, <2>1, <2>2
<1>4. /\ con' = [c \in Conn |-> con'[c]]
      /\ \A c \in Conn : con'[c] = Closed \/ con'[c] = con[c]
  BY <1>1
<1> QED BY <1>2, <1>3, <1>4, ClosedInv

LEMMA CkptLeft ==
  ASSUME TypeInv, NEW c \in Conn, CkptEnd(c)
  PROVE  TypeInv'
<1> DEFINE x == con[c]
<1>1. /\ ConnType(x) /\ Phase(c, x)
      /\ Written(x.hdr.sum, log.cur) /\ Written(x.sp.sum, log.cur)
  BY AtConn
<1>2. x.pc = "ckptEnd" /\ UNCHANGED <<file, past>>
  BY DEF CkptEnd, Pc
<1>3. PastInv' /\ LogInv
  BY <1>2 DEF TypeInv, PastInv
<1>4. CASE x.w.close
  <2>1. /\ con' = [con EXCEPT ![c] = Closed] /\ shm' = EmptyShm
        /\ log' = [log EXCEPT !.cur = NoLog, !.new = TRUE]
    BY <1>4 DEF CkptEnd, Put
  <2>2. NoLog \in Logs
    <3>1. <<>> \in Seq(FrameSet) /\ Len(<<>>) <= MaxFrame
      BY Constants
    <3> QED BY <3>1 DEF NoLog, Logs
  <2>3. LogInv'
    BY <1>3, <2>1, <2>2 DEF LogInv
  <2>4. ShmInv'
    BY <2>1, <2>3, EmptyShmOK DEF ShmInv, LogInv
  <2>5. con = [d \in Conn |-> con[d]] /\ LockInv
    BY DEF TypeInv
  <2>6. con' = [d \in Conn |-> con'[d]]
    BY <2>1, <2>5
  <2>7. ASSUME NEW d \in Conn PROVE con'[d] = Closed
    <3>1. CASE d = c
      BY <2>1, <2>5, <3>1
    <3>2. CASE d # c
      <4>1. con[d].pc = "closed"
        BY <1>4, <2>5, <3>2 DEF LockInv
      <4>2. con[d] = Closed
        BY <4>1, AtConn DEF Phase
      <4> QED BY <2>1, <2>5, <3>2, <4>2
    <3> QED BY <3>1, <3>2
  <2> QED BY <1>3, <2>3, <2>4, <2>6, <2>7, ClosedInv
<1>5. CASE ~x.w.close
  <2> DEFINE h == IF x.w.changed THEN NoHdr ELSE x.hdr
             y == AfterCkpt(x)
  <2>1. con' = [con EXCEPT ![c] = y] /\ UNCHANGED <<shm, log>>
    BY <1>5 DEF CkptEnd, Put
  <2>2. HdrOK(h) /\ Written(h.sum, log.cur)
    <3>1. Written(NoHdr.sum, log.cur)
      BY EmptyOK DEF TypeInv, LogInv
    <3> QED BY <1>1, <3>1, NothingDone DEF ConnType
  <2>3. /\ DOMAIN y = ConnFields /\ y.hdr = h /\ y.pc = "idle" /\ y.lock = 0 - 1 /\ y.excl = {}
        /\ y.nCkpt = x.nCkpt /\ y.sp = NoSavepoint /\ y.w = NoWork
    BY DEF AfterCkpt, Ended, Connected, ConnFields
  <2> HIDE DEF y, h
  <2>4. ~y.w.ckpt /\ ~y.w.close
    BY <2>3 DEF NoWork
  <2>5. ConnType(y)
    BY <1>1, <2>2, <2>3, NothingDone, Constants DEF ConnType
  <2>6. Phase(c, y)
    BY <2>3, <2>4 DEF Phase, Phases, Outside, Recovering, Restarting, Logging, Checkpointing
  <2>7. Written(y.hdr.sum, log.cur) /\ Written(y.sp.sum, log.cur)
    BY <2>2, <2>3, NoSavepointWritten
  <2> QED BY <1>2, <2>1, <2>3, <2>4, <2>5, <2>6, <2>7, ConnStep, NoLocksFree DEF ConnOK
<1> QED BY <1>4, <1>5

LEMMA FrameOfOK ==
  ASSUME NEW l \in Logs, NEW i \in Nat \ {0}
  PROVE  FrameOf(l, i) \in FrameSet
<1>1. l.frames \in Seq(FrameSet) /\ Len(l.frames) \in Nat
  BY DEF Logs
<1>2. Torn \in FrameSet
  <2>1. <<>> \in Sums
    BY NothingDone DEF NoHdr, Hdr, HdrOK
  <2> QED BY <2>1 DEF Torn, Frame, FrameSet
<1>3. CASE i <= Len(l.frames)
  BY <1>1, <1>3 DEF FrameOf
<1>4. CASE ~(i <= Len(l.frames))
  BY <1>2, <1>4 DEF FrameOf
<1> QED BY <1>3, <1>4

\* What a power loss leaves of the log is a log.
LEMMA SurvivingLogOK ==
  ASSUME LogInv, NEW l \in SurvivingLogs
  PROVE  l \in Logs
<1>1. log.cur \in Logs /\ log.dur \in Logs
  BY DEF LogInv
<1>2. NoLog \in Logs
  <2>1. <<>> \in Seq(FrameSet) /\ Len(<<>>) <= MaxFrame
    BY Constants
  <2> QED BY <2>1 DEF NoLog, Logs
<1>3. CASE log.new
  BY <1>1, <1>2, <1>3 DEF SurvivingLogs
<1>4. CASE ~log.new
  <2>1. PICK hdr \in {"cur", "dur"}, piece \in [UnsyncedFrames -> Pieces] :
          l = Mixture(hdr, piece)
    BY <1>4 DEF SurvivingLogs
  <2> DEFINE a == Len(log.cur.frames)
             b == Len(log.dur.frames)
             m == Max({a, b})
             fs == [i \in 1..m |->
                      IF i \notin DOMAIN piece THEN FrameOf(log.cur, i)
                      ELSE IF piece[i] = "torn" THEN Torn ELSE FrameOf(log[piece[i]], i)]
  <2>2. l = [salt |-> log[hdr].salt, nCkpt |-> log[hdr].nCkpt, frames |-> fs]
    BY <2>1 DEF Mixture
  <2>3. a \in Nat /\ b \in Nat /\ a <= MaxFrame /\ b <= MaxFrame
    BY <1>1 DEF Logs
  <2>4. m \in Nat /\ m <= MaxFrame
    <3>1. a \in Int /\ b \in Int
      BY <2>3
    <3> HIDE DEF a, b
    <3>2. m \in {a, b}
      BY <3>1, MaxTwo
    <3> QED BY <2>3, <3>2
  <2> HIDE DEF m, a, b
  <2>5. ASSUME NEW i \in 1..m PROVE fs[i] \in FrameSet
    <3>1. i \in Nat \ {0}
      BY <2>4
    <3>2. FrameOf(log.cur, i) \in FrameSet /\ FrameOf(log.dur, i) \in FrameSet
      BY <1>1, <3>1, FrameOfOK
    <3>3. Torn \in FrameSet
      <4>1. <<>> \in Sums
        BY NothingDone DEF NoHdr, Hdr, HdrOK
      <4> QED BY <4>1 DEF Torn, Frame, FrameSet
    <3>4. CASE i \notin DOMAIN piece
      BY <3>2, <3>4
    <3>5. CASE i \in DOMAIN piece
      <4>1. piece[i] \in {"cur", "dur", "torn"}
        BY <3>5 DEF Pieces
      <4>2. CASE piece[i] = "torn"
        BY <3>3, <3>5, <4>2
      <4>3. CASE piece[i] = "cur"
        BY <3>2, <3>5, <4>3
      <4>4. CASE piece[i] = "dur"
        BY <3>2, <3>5, <4>4
      <4> QED BY <4>1, <4>2, <4>3, <4>4
    <3> QED BY <3>4, <3>5
  <2>6. fs \in Seq(FrameSet) /\ Len(fs) = m
    <3>1. DOMAIN fs = 1..m /\ fs = [i \in 1..m |-> fs[i]]
      OBVIOUS
    <3> HIDE DEF fs
    <3> QED BY <2>4, <2>5, <3>1
  <2> HIDE DEF fs
  <2>7. log[hdr].salt \in Nat /\ log[hdr].nCkpt \in Nat
    BY <1>1, <2>1 DEF Logs
  <2> QED BY <2>2, <2>4, <2>6, <2>7 DEF Logs
<1> QED BY <1>3, <1>4

LEMMA PowerLost ==
  ASSUME TypeInv, PowerLoss
  PROVE  TypeInv'
<1>1. con' = [c \in Conn |-> Closed] /\ shm' = EmptyShm
  BY DEF PowerLoss
<1>2. PICK l \in SurvivingLogs, f \in SurvivingFiles :
        /\ log' = [cur |-> l, dur |-> l, new |-> FALSE]
        /\ past' = Survivors(RecoveredImage(l, f))
  BY DEF PowerLoss
<1>3. l \in Logs
  BY SurvivingLogOK DEF TypeInv
<1>4. LogInv'
  BY <1>2, <1>3 DEF LogInv
<1>5. ShmInv'
  BY <1>1, <1>4, EmptyShmOK DEF ShmInv, LogInv
<1>6. PastInv'
  BY <1>2 DEF TypeInv, PastInv, Survivors
<1>7. con' = [c \in Conn |-> con'[c]] /\ \A c \in Conn : con'[c] = Closed
  BY <1>1
<1> QED BY <1>4, <1>5, <1>6, <1>7, ClosedInv

-----------------------------------------------------------------------------
LEMMA TypeInit == Init => TypeInv
<1> SUFFICES ASSUME Init PROVE TypeInv
  OBVIOUS
<1>1. con = [c \in Conn |-> Connected] /\ shm = EmptyShm
      /\ log = [cur |-> NoLog, dur |-> NoLog, new |-> FALSE]
  BY DEF Init
<1>2. NoLog \in Logs
  <2>1. <<>> \in Seq(FrameSet) /\ Len(<<>>) <= MaxFrame
    BY Constants
  <2> QED BY <2>1 DEF NoLog, Logs
<1>3. LogInv
  BY <1>1, <1>2 DEF LogInv
<1>4. ShmInv
  BY <1>1, <1>3, EmptyShmOK DEF ShmInv, LogInv
<1>5. PastInv
  BY DEF Init, PastInv
<1>6. LockInv
  BY <1>1, NewConnFields DEF LockInv
<1>7. ConnInv
  <2>1. Written(NoHdr.sum, log.cur) /\ Written(NoSavepoint.sum, log.cur)
    BY <1>3, EmptyOK DEF LogInv
  <2> QED BY <1>1, <2>1, NewConnOK, NewConnFields DEF ConnInv
<1> QED BY <1>1, <1>3, <1>4, <1>5, <1>6, <1>7 DEF TypeInv

LEMMA TypeNext == TypeInv /\ [Next]_vars => TypeInv'
<1> SUFFICES ASSUME TypeInv, [Next]_vars PROVE TypeInv'
  OBVIOUS
<1>1. CASE UNCHANGED vars
  BY <1>1 DEF vars, TypeInv, LockInv, ConnInv, ShmInv, LogInv, PastInv
<1>2. CASE PowerLoss
  BY <1>2, PowerLost
<1>3. ASSUME NEW P \in Mortal, Kill(P) PROVE TypeInv'
  BY <1>3, Killed
<1>4. ASSUME NEW c \in Conn,
             \/ BeginRead(c) \/ RetryHdr(c) \/ Recover(c) \/ RecoverHdr(c) \/ RecoverInfo(c)
             \/ Choose(c) \/ Lock0(c) \/ Pick(c) \/ LockMark(c) \/ EndRead(c)
      PROVE  TypeInv'
  BY <1>4, Begun, HdrRetried, Recovered, HdrRecovered, InfoRecovered, Chosen, Locked0, Picked,
     MarkLocked, ReadEnded
<1>5. ASSUME NEW c \in Conn,
             \/ BeginWrite(c) \/ RestartLog(c) \/ RestartHdr(c) \/ RestartInfo(c)
             \/ WriteLogHdr(c) \/ SyncLogHdr(c) \/ WriteFrame(c) \/ EndFrames(c) \/ CommitHdr(c)
             \/ Rollback(c) \/ Savepoint(c) \/ SavepointUndo(c)
      PROVE  TypeInv'
  BY <1>5, WriteBegun, LogRestarted, RestartedHdr, RestartedInfo, LogHdrWritten, LogHdrSynced,
     FrameWritten, FramesEnded, HdrCommitted, RolledBack, Saved, SavepointUndone
<1>6. ASSUME NEW c \in Conn,
             \/ CkptHdr(c) \/ CkptTest(c) \/ CkptMark(c) \/ CkptLock0(c) \/ CkptWrite(c)
             \/ CkptDone(c) \/ CkptEnd(c) \/ Open(c) \/ Close(c)
             \/ \E block \in BOOLEAN : CkptBegin(c, block)
      PROVE  TypeInv'
  BY <1>6, CkptHdrRead, CkptTested, CkptMarked, CkptLocked0, CkptWritten, CkptFinished,
     CkptLeft, Opened, CloseBegun, CkptBegun
<1>7. ASSUME NEW c \in Conn, NEW S \in SUBSET (1..MaxPage), NEW n \in 0..MaxPage, NEW commit,
             Frames(c, S, n, commit)
      PROVE  TypeInv'
  BY <1>7, FramesBegun
<1>8. 0 \in 0..MaxPage /\ 1..MaxPage \subseteq 0..MaxPage
  BY Constants
<1> QED BY Zenon, <1>1, <1>2, <1>3, <1>4, <1>5, <1>6, <1>7, <1>8 DEF Next

\* walLockShared and walLockExclusive keep their promise through every call,
\* retry, kill, close and loss of power: no two connections hold conflicting locks
\* of the wal-index.  Every frame number, read mark and backfill count that
\* walTryBeginRead, walRestartLog or walCheckpoint leaves is one of the log.
THEOREM TypeCorrect == Spec => []TypeOK
<1>1. Init => TypeInv
  BY TypeInit
<1>2. TypeInv /\ [Next]_vars => TypeInv'
  BY TypeNext
<1>3. TypeInv => TypeOK
  BY TypeInvGivesTypeOK
<1> QED BY <1>1, <1>2, <1>3, PTL DEF Spec

-----------------------------------------------------------------------------
(* The backfill count.  It is compared with the header long after it was set, *)
(* by connections that hold no lock on either: what keeps it within the log   *)
(* is that one connection writes and runs the checkpoints, and that it does   *)
(* not die alone.                                                             *)

\* The primary connection of a pool is the only one of it that writes, and a
\* commit is what runs a checkpoint.  The connections of one process die together.
\* A second pool that writes to the same file is excluded.
OneWriter ==
  \E w \in Conn : /\ Writers \subseteq {w} /\ Checkpointers \subseteq {w}
                  /\ \A P \in Mortal : w \in P => Conn \subseteq P

\* The copies of the header in the wal-index s are the same and in use.
HdrsAgree(s) == s.h0 = s.h1 /\ s.h0.init

\* A write transaction, from its beginning to its commit, but for the restart.
Writes(x) == \/ x.pc \in Logging \cup {"restart"}
             \/ x.pc \in {"read", "pick", "lockMark"} /\ WRITE \in x.excl

\* A checkpoint that works from the header it has read.
Copying == {"ckptTest", "ckptMark", "ckptLock0", "ckptWrite"}

\* The phases in which a connection has a header.
Informed == {"choose", "lock0", "pick", "lockMark", "read", "recoverHdr", "recoverInfo"}
              \cup Restarting \cup Logging

\* What a connection in state x knows of the wal-index s.
BackOK(c, x, s) ==
  /\ x.pc \in Recovering => s.nBackfill = 0
  /\ x.pc \in {"recoverHdr", "recoverInfo", "restartHdr", "restartInfo", "commitHdr"}
       => s.h1 = x.hdr
  /\ x.pc \in {"recoverInfo", "restartInfo"} => HdrsAgree(s)
  /\ x.pc \in {"restartHdr", "restartInfo"} =>
       /\ x.hdr.mx = 0
       /\ ReadLocks \subseteq x.excl
       /\ x.sp # NoSavepoint => x.sp.nCkpt < x.nCkpt
  /\ x.pc \in Informed => x.hdr.init
  /\ x.pc \in Copying => HdrsAgree(s) /\ x.hdr = s.h0
  /\ x.pc \in Copying \ {"ckptTest"} => x.w.safe <= x.hdr.mx
  /\ Writes(x) \/ x.pc \in Restarting => c \in Writers
  /\ Writes(x) => s.h0.init /\ s.h0.mx <= x.hdr.mx
  /\ Writes(x) /\ x.sp # NoSavepoint =>
       /\ x.sp.nCkpt <= x.nCkpt
       /\ IF x.sp.nCkpt = x.nCkpt THEN s.h0.mx <= x.sp.mx ELSE s.h0.mx = 0
  /\ x.sp # NoSavepoint => Writes(x) \/ x.pc \in Restarting

\* The backfill count is within the log, and it is 0 when the header is bad: but
\* for the moments at which the writer restarts the log or commits.
BackInv ==
  /\ shm.nBackfill <= shm.h0.mx \/ \E c \in Conn : con[c].pc = "restartInfo"
  /\ shm.nBackfill = 0 \/ HdrsAgree(shm)
       \/ \E c \in Conn : con[c].pc \in {"restartHdr", "commitHdr"}
  /\ \A c \in Conn : BackOK(c, con[c], shm)

LEMMA BackInvGivesBound == TypeInv /\ BackInv => BackfillBound
<1> SUFFICES ASSUME TypeInv, BackInv, \A c \in Conn : ReadLocks \cap con[c].excl = {}
             PROVE  shm.nBackfill <= shm.h0.mx
  BY DEF BackfillBound
<1>1. ReadLocks # {}
  BY Constants DEF ReadLocks
<1>2. ASSUME NEW c \in Conn, con[c].pc = "restartInfo" PROVE FALSE
  BY <1>1, <1>2 DEF BackInv, BackOK
<1> QED BY <1>2 DEF BackInv

LEMMA StepOf ==
  ASSUME TypeInv, NEW c \in Conn, NEW y, con' = [con EXCEPT ![c] = y]
  PROVE  con'[c] = y /\ \A d \in Conn \ {c} : con'[d] = con[d]
BY DEF TypeInv

\* Only the headers and the backfill count matter.
LEMMA BackSame ==
  ASSUME NEW c, NEW x, NEW s, NEW t,
         t.h0 = s.h0, t.h1 = s.h1, t.nBackfill = s.nBackfill, BackOK(c, x, s)
  PROVE  BackOK(c, x, t)
BY DEF BackOK, HdrsAgree

\* A step that leaves them alone.
LEMMA BackStep ==
  ASSUME TypeInv, BackInv, NEW c \in Conn, NEW y, con' = [con EXCEPT ![c] = y],
         shm'.h0 = shm.h0, shm'.h1 = shm.h1, shm'.nBackfill = shm.nBackfill,
         con[c].pc \notin {"restartHdr", "restartInfo", "commitHdr"},
         BackOK(c, y, shm)
  PROVE  BackInv'
<1>1. con'[c] = y /\ \A d \in Conn \ {c} : con'[d] = con[d]
  BY StepOf
<1>2. ASSUME NEW d \in Conn PROVE BackOK(d, con'[d], shm')
  <2>1. BackOK(d, con'[d], shm)
    BY <1>1 DEF BackInv
  <2> QED BY <2>1, BackSame
<1>3. ASSUME NEW d \in Conn, con[d].pc \in {"restartHdr", "restartInfo", "commitHdr"}
      PROVE  con'[d].pc = con[d].pc
  BY <1>1, <1>3
<1>4. shm'.nBackfill <= shm'.h0.mx \/ \E d \in Conn : con'[d].pc = "restartInfo"
  BY <1>3 DEF BackInv
<1>5. \/ shm'.nBackfill = 0 \/ HdrsAgree(shm')
      \/ \E d \in Conn : con'[d].pc \in {"restartHdr", "commitHdr"}
  BY <1>3 DEF BackInv, HdrsAgree
<1> QED BY <1>2, <1>4, <1>5 DEF BackInv

\* A connection that neither writes nor copies nor recovers.
LEMMA Plain ==
  ASSUME NEW c, NEW y, NEW s,
         y.pc \in {"closed", "idle", "choose", "lock0", "pick", "lockMark", "read", "retryHdr",
                   "ckptHdr", "ckptEnd"},
         y.pc \in {"pick", "lockMark", "read"} => WRITE \notin y.excl,
         y.pc \in {"choose", "lock0", "pick", "lockMark", "read"} => y.hdr.init,
         y.sp = NoSavepoint
  PROVE  BackOK(c, y, s)
BY DEF BackOK, Writes, Copying, Informed, Recovering, Restarting, Logging

\* While a connection holds the write lock to write or to recover, no other one
\* relies on the headers.
LEMMA Bystander ==
  ASSUME OneWriter, TypeInv, BackInv, NEW c \in Conn, WRITE \in con[c].excl,
         c \in Writers \/ con[c].pc \in Recovering,
         NEW d \in Conn \ {c}, NEW s
  PROVE  BackOK(d, con[d], s)
<1>1. Phase(c, con[c]) /\ Phase(d, con[d])
  BY AtConn
<1>2. WRITE \notin con[d].excl
  BY DEF TypeInv, LockInv
<1>3. con[d].pc \notin Recovering
  BY <1>1, <1>2, Constants DEF Phase, WRITE, AllLocks
<1>4. ~Writes(con[d]) /\ con[d].pc \notin Restarting
  BY <1>1, <1>2 DEF Phase, Writes, Restarting, Logging
<1>5. con[d].pc \notin Copying
  <2>1. SUFFICES ASSUME con[d].pc \in Copying PROVE FALSE
    OBVIOUS
  <2>2. con[d].w.ckpt /\ CKPT \in con[d].excl
    BY <1>1, <2>1 DEF Phase, Copying, Checkpointing
  <2>3. CASE con[c].pc \in Recovering
    <3>1. CKPT \in con[c].excl
      BY <1>1, <2>3, Constants DEF Phase, CKPT, AllLocks
    <3> QED BY <2>2, <3>1 DEF TypeInv, LockInv
  <2>4. CASE c \in Writers
    <3>1. d \notin Checkpointers
      BY <2>4 DEF OneWriter
    <3>2. con[d].w.close
      BY <1>1, <2>2, <3>1 DEF Phase
    <3>3. con[c].pc = "closed"
      BY <3>2 DEF TypeInv, LockInv
    <3>4. con[c] = Closed
      BY <1>1, <3>3 DEF Phase
    <3> QED BY <3>4, NewConnFields
  <2> QED BY <2>3, <2>4
<1>6. BackOK(d, con[d], shm)
  BY DEF BackInv
<1>7. con[d].pc \notin {"recoverHdr", "recoverInfo", "restartHdr", "restartInfo", "commitHdr"}
  BY <1>3, <1>4 DEF Recovering, Restarting, Writes, Logging
<1> QED BY <1>3, <1>4, <1>5, <1>6, <1>7 DEF BackOK

\* A step that changes the headers or the count, by a connection that then leaves
\* them alike or in one of the moments of the invariant.
LEMMA HeaderStep ==
  ASSUME OneWriter, TypeInv, BackInv, NEW c \in Conn, NEW y, con' = [con EXCEPT ![c] = y],
         WRITE \in con[c].excl, c \in Writers \/ con[c].pc \in Recovering,
         BackOK(c, y, shm'),
         shm'.nBackfill <= shm'.h0.mx \/ y.pc = "restartInfo",
         shm'.nBackfill = 0 \/ HdrsAgree(shm') \/ y.pc \in {"restartHdr", "commitHdr"}
  PROVE  BackInv'
<1>1. con'[c] = y /\ \A d \in Conn \ {c} : con'[d] = con[d]
  BY StepOf
<1>2. ASSUME NEW d \in Conn PROVE BackOK(d, con'[d], shm')
  <2>1. CASE d = c
    BY <1>1, <2>1
  <2>2. CASE d # c
    <3>1. \A s : BackOK(d, con[d], s)
      BY <2>2, Bystander
    <3> QED BY <1>1, <2>2, <3>1
  <2> QED BY <2>1, <2>2
<1> QED BY <1>1, <1>2 DEF BackInv

\* What the invariant says of one connection.
LEMMA AtBack ==
  ASSUME TypeInv, BackInv, NEW c \in Conn
  PROVE  /\ BackOK(c, con[c], shm)
         /\ con[c].pc \notin Restarting /\ ~Writes(con[c]) => con[c].sp = NoSavepoint
         /\ con[c].pc \in Outside \cup Checkpointing \cup {"retryHdr"} \cup Recovering =>
              con[c].pc \notin Restarting /\ ~Writes(con[c])
BY DEF BackInv, BackOK, Writes, Outside, Checkpointing, Recovering, Restarting, Logging

\* A step of a connection that is, and remains, plain.
LEMMA PlainStep ==
  ASSUME TypeInv, BackInv, NEW c \in Conn, NEW y, con' = [con EXCEPT ![c] = y],
         con[c].pc \in Outside \cup Checkpointing \cup {"retryHdr"}
           \/ (con[c].pc \in {"pick", "lockMark", "read"} /\ WRITE \notin con[c].excl),
         shm'.h0 = shm.h0, shm'.h1 = shm.h1, shm'.nBackfill = shm.nBackfill,
         y.pc \in {"closed", "idle", "choose", "lock0", "pick", "lockMark", "read", "retryHdr",
                   "ckptHdr", "ckptEnd"},
         y.pc \in {"pick", "lockMark", "read"} => WRITE \notin y.excl,
         y.pc \in {"choose", "lock0", "pick", "lockMark", "read"} => y.hdr.init,
         y.sp = con[c].sp \/ y.sp = NoSavepoint
  PROVE  BackInv'
<1>1. con[c].sp = NoSavepoint /\ con[c].pc \notin {"restartHdr", "restartInfo", "commitHdr"}
  BY AtBack DEF Writes, Outside, Checkpointing, Restarting, Logging
<1>2. BackOK(c, y, shm)
  BY <1>1, Plain
<1> QED BY <1>1, <1>2, BackStep

LEMMA BegunBack ==
  ASSUME TypeInv, BackInv, NEW c \in Conn, BeginRead(c)
  PROVE  BackInv'
<1> DEFINE x == con[c]
<1>1. ConnType(x) /\ HdrOK(shm.h0) /\ x.pc = "idle" /\ shm' = shm
  BY AtConn DEF BeginRead, Pc
<1>2. CASE GoodHdr /\ con' = [con EXCEPT ![c] = Goto(LoadHdr(x), "choose")]
  <2>1. /\ ConnType(LoadHdr(x)) /\ LoadHdr(x).hdr = shm.h0
        /\ \A f \in ConnFields \ {"hdr", "cache", "w"} : LoadHdr(x)[f] = x[f]
    BY <1>1, NewHdrFields DEF LoadHdr
  <2> DEFINE y == Goto(LoadHdr(x), "choose")
  <2>2. y.pc = "choose" /\ \A f \in ConnFields \ {"pc"} : y[f] = LoadHdr(x)[f]
    BY <2>1, GotoFields
  <2>3. con' = [con EXCEPT ![c] = y]
    BY <1>2
  <2> HIDE DEF y
  <2>4. y.hdr.init /\ y.sp = x.sp
    BY <1>2, <2>1, <2>2 DEF ConnFields, GoodHdr
  <2> QED BY <1>1, <2>2, <2>3, <2>4, PlainStep DEF Outside
<1>3. CASE con' = [con EXCEPT ![c] = [Goto(x, "retryHdr") EXCEPT !.excl = {WRITE}]]
  <2> DEFINE y == [Goto(x, "retryHdr") EXCEPT !.excl = {WRITE}]
  <2>1. y.pc = "retryHdr" /\ y.sp = x.sp
    BY <1>1 DEF ConnType, Goto, ConnFields
  <2>2. con' = [con EXCEPT ![c] = y]
    BY <1>3
  <2> HIDE DEF y
  <2> QED BY <1>1, <2>1, <2>2, PlainStep DEF Outside
<1> QED BY <1>2, <1>3 DEF BeginRead, Put

LEMMA ChosenBack ==
  ASSUME TypeInv, BackInv, NEW c \in Conn, Choose(c)
  PROVE  BackInv'
<1> DEFINE x == con[c]
           y == Goto(x, IF shm.nBackfill = x.hdr.mx THEN "lock0" ELSE "pick")
<1>1. ConnType(x) /\ Phase(c, x) /\ BackOK(c, x, shm)
  BY AtConn DEF BackInv
<1>2. x.pc = "choose" /\ shm' = shm /\ con' = [con EXCEPT ![c] = y]
  BY DEF Choose, Pc, Put
<1>3. /\ y.pc \in {"lock0", "pick"} /\ y.hdr = x.hdr /\ y.sp = x.sp /\ y.excl = x.excl
  BY <1>1 DEF ConnType, Goto, ConnFields
<1> HIDE DEF y
<1>4. x.hdr.init /\ x.excl = {}
  BY <1>1, <1>2 DEF Phase, BackOK, Informed, Outside
<1> QED BY <1>2, <1>3, <1>4, PlainStep DEF Outside

\* The phases of a reader that finds its lock.
LEMMA Locked0Back ==
  ASSUME TypeInv, BackInv, NEW c \in Conn, Lock0(c)
  PROVE  BackInv'
<1> DEFINE x == con[c]
<1>1. ConnType(x) /\ Phase(c, x) /\ BackOK(c, x, shm)
  BY AtConn DEF BackInv
<1>2. x.pc = "lock0" /\ shm' = shm
  BY DEF Lock0, Pc
<1>3. x.hdr.init /\ x.excl = {}
  BY <1>1, <1>2 DEF Phase, BackOK, Informed, Outside
<1>4. PICK y : /\ con' = [con EXCEPT ![c] = y]
               /\ \/ y = Goto(x, "pick") \/ y = Retry(x) \/ y = Goto(Reading(x, 0), "read")
  BY DEF Lock0, Put
<1>5. /\ y.pc \in {"pick", "idle", "read"} /\ y.hdr = x.hdr /\ y.sp = x.sp
      /\ y.excl = x.excl
  BY <1>1, <1>4 DEF ConnType, Goto, Retry, Reading, ConnFields
<1> QED BY <1>2, <1>3, <1>4, <1>5, PlainStep DEF Outside

LEMMA PickedBack ==
  ASSUME TypeInv, BackInv, NEW c \in Conn, Pick(c)
  PROVE  BackInv'
<1> DEFINE x == con[c]
<1>1. ConnType(x) /\ Phase(c, x) /\ BackOK(c, x, shm)
  BY AtConn DEF BackInv
<1>2. x.pc = "pick"
  BY DEF Pick, Pc
<1>3. shm'.h0 = shm.h0 /\ shm'.h1 = shm.h1 /\ shm'.nBackfill = shm.nBackfill
  BY DEF Pick, TypeInv, ShmInv
<1> DEFINE i     == BestMark(x)
           free  == {d \in Marks : ExclFree(c, {READ(d)})}
           raise == (i = 0 \/ shm.mark[i] < x.hdr.mx) /\ free # {}
           j     == IF raise THEN Min(free) ELSE i
           m     == IF raise THEN x.hdr.mx ELSE shm.mark[j]
           y     == IF j = 0 THEN Retry(x)
                    ELSE [Goto(x, "lockMark") EXCEPT !.w.mxI = j, !.w.mxMark = m]
<1>4. con' = [con EXCEPT ![c] = y]
  BY DEF Pick, Put
<1> HIDE DEF i, free, raise, j, m
<1>5. /\ y.pc \in {"pick", "idle", "lockMark"} /\ y.hdr = x.hdr /\ y.sp = x.sp
      /\ y.excl = x.excl /\ y.nCkpt = x.nCkpt
      /\ WRITE \in x.excl => y.pc \in {"pick", "lockMark"}
  BY <1>1 DEF ConnType, Goto, Retry, ConnFields
<1> HIDE DEF y
<1>6. x.hdr.init
  BY <1>1, <1>2 DEF BackOK, Informed
<1>7. CASE WRITE \notin x.excl
  BY <1>2, <1>3, <1>4, <1>5, <1>6, <1>7, PlainStep
<1>8. CASE WRITE \in x.excl
  <2>1. BackOK(c, y, shm)
    BY <1>1, <1>2, <1>5, <1>6, <1>8 DEF BackOK, Writes, Copying, Informed, Recovering,
       Restarting, Logging
  <2> QED BY <1>2, <1>3, <1>4, <2>1, BackStep
<1> QED BY <1>7, <1>8

LEMMA MarkLockedBack ==
  ASSUME TypeInv, BackInv, NEW c \in Conn, LockMark(c)
  PROVE  BackInv'
<1> DEFINE x == con[c]
<1>1. ConnType(x) /\ Phase(c, x) /\ BackOK(c, x, shm)
  BY AtConn DEF BackInv
<1>2. x.pc = "lockMark" /\ shm' = shm
  BY DEF LockMark, Pc
<1>3. PICK y : /\ con' = [con EXCEPT ![c] = y]
               /\ \/ y = Retry(x)
                  \/ WRITE \notin x.excl /\ y = Goto(Reading(x, x.w.mxI), "read")
                  \/ /\ WRITE \in x.excl
                     /\ y = Goto([x EXCEPT !.lock = x.w.mxI, !.w.mxI = 0, !.w.mxMark = 0],
                                 "frames")
  BY DEF LockMark, Put
<1>4. /\ y.hdr = x.hdr /\ y.sp = x.sp /\ y.excl = x.excl /\ y.nCkpt = x.nCkpt
      /\ IF WRITE \in x.excl THEN y.pc \in {"pick", "frames"} ELSE y.pc \in {"idle", "read"}
  BY <1>1, <1>3 DEF ConnType, Goto, Retry, Reading, ConnFields
<1>5. x.hdr.init
  BY <1>1, <1>2 DEF BackOK, Informed
<1>6. CASE WRITE \notin x.excl
  BY <1>2, <1>3, <1>4, <1>5, <1>6, PlainStep
<1>7. CASE WRITE \in x.excl
  <2>1. BackOK(c, y, shm)
    BY <1>1, <1>2, <1>4, <1>5, <1>7 DEF BackOK, Writes, Copying, Informed, Recovering,
       Restarting, Logging
  <2> QED BY <1>2, <1>3, <2>1, BackStep
<1> QED BY <1>6, <1>7

LEMMA ReadEndedBack ==
  ASSUME TypeInv, BackInv, NEW c \in Conn, EndRead(c)
  PROVE  BackInv'
<1> DEFINE x == con[c]
           y == Ended(x)
<1>1. /\ x.pc = "read" /\ x.excl = {} /\ shm' = shm /\ con' = [con EXCEPT ![c] = y]
  BY DEF EndRead, Pc, Put
<1>2. y.pc = "idle" /\ y.sp = NoSavepoint
  BY DEF Ended, Connected
<1> HIDE DEF y
<1> QED BY <1>1, <1>2, PlainStep

LEMMA WriteBegunBack ==
  ASSUME TypeInv, BackInv, NEW c \in Conn, BeginWrite(c)
  PROVE  BackInv'
<1> DEFINE x == con[c]
           y == [x EXCEPT !.excl = {WRITE}]
<1>1. ConnType(x) /\ BackOK(c, x, shm) /\ HdrOK(shm.h0)
  BY AtConn DEF BackInv
<1>2. /\ x.pc = "read" /\ c \in Writers /\ x.excl = {} /\ shm.h0 = x.hdr /\ shm' = shm
      /\ con' = [con EXCEPT ![c] = y]
  BY DEF BeginWrite, Pc, Put, SnapshotIsLatest
<1>3. y.pc = "read" /\ y.excl = {WRITE} /\ y.hdr = x.hdr /\ y.sp = x.sp /\ y.nCkpt = x.nCkpt
  BY <1>1, <1>2 DEF ConnType, ConnFields
<1> HIDE DEF y
<1>4. x.sp = NoSavepoint /\ x.hdr.init
  BY <1>1, <1>2 DEF BackOK, Writes, Restarting, Logging, Informed
<1>5. x.hdr.mx <= x.hdr.mx
  BY <1>1 DEF ConnType, HdrOK
<1>6. BackOK(c, y, shm)
  BY <1>2, <1>3, <1>4, <1>5 DEF BackOK, Writes, Copying, Informed, Recovering, Restarting, Logging
<1> QED BY <1>2, <1>6, BackStep

\* Under the write lock, no other connection is restarting the log or committing.
LEMMA UnderWriteLock ==
  ASSUME TypeInv, BackInv, NEW c \in Conn, WRITE \in con[c].excl
  PROVE  /\ con[c].pc # "restartInfo" => shm.nBackfill <= shm.h0.mx
         /\ con[c].pc \notin {"restartHdr", "commitHdr"} =>
              shm.nBackfill = 0 \/ HdrsAgree(shm)
<1>1. ASSUME NEW d \in Conn, con[d].pc \in {"restartInfo", "restartHdr", "commitHdr"}
      PROVE  d = c
  <2>1. WRITE \in con[d].excl
    BY <1>1, AtConn DEF Phase, Restarting, Logging
  <2> QED BY <2>1 DEF TypeInv, LockInv
<1> QED BY <1>1 DEF BackInv

\* A step within a write transaction that changes neither the headers nor the
\* count.
LEMMA WriteStep ==
  ASSUME TypeInv, BackInv, NEW c \in Conn, NEW y, con' = [con EXCEPT ![c] = y],
         con[c].pc \in {"restart", "frames", "syncHdr", "append"}
           \/ (con[c].pc = "read" /\ WRITE \in con[c].excl),
         shm'.h0 = shm.h0, shm'.h1 = shm.h1, shm'.nBackfill = shm.nBackfill,
         y.pc \in {"restart", "frames", "syncHdr", "append"}
           \/ (y.pc \in {"read", "pick"} /\ WRITE \in y.excl),
         y.hdr.init, shm.h0.mx <= y.hdr.mx,
         y.sp # NoSavepoint =>
           /\ y.sp.nCkpt <= y.nCkpt
           /\ IF y.sp.nCkpt = y.nCkpt THEN shm.h0.mx <= y.sp.mx ELSE shm.h0.mx = 0
  PROVE  BackInv'
<1>1. BackOK(c, con[c], shm)
  BY DEF BackInv
<1>2. c \in Writers /\ shm.h0.init
  BY <1>1 DEF BackOK, Writes, Logging
<1>3. Writes(y) /\ y.pc \notin Copying \cup Recovering
        /\ y.pc \notin {"recoverHdr", "recoverInfo", "restartHdr", "restartInfo", "commitHdr"}
  BY DEF Writes, Logging, Copying, Recovering
<1>4. BackOK(c, y, shm)
  BY <1>2, <1>3 DEF BackOK
<1> QED BY <1>4, BackStep

\* What is known of a connection within a write transaction.
LEMMA WriteFacts ==
  ASSUME TypeInv, BackInv, NEW c \in Conn, Writes(con[c])
  PROVE  /\ c \in Writers /\ con[c].hdr.init /\ shm.h0.init
         /\ shm.h0.mx <= con[c].hdr.mx /\ WRITE \in con[c].excl
         /\ con[c].sp # NoSavepoint =>
              /\ con[c].sp.nCkpt <= con[c].nCkpt
              /\ IF con[c].sp.nCkpt = con[c].nCkpt THEN shm.h0.mx <= con[c].sp.mx
                 ELSE shm.h0.mx = 0
<1>1. BackOK(c, con[c], shm) /\ Phase(c, con[c])
  BY AtConn DEF BackInv
<1>2. con[c].pc \in Informed /\ WRITE \in con[c].excl
  BY <1>1 DEF Writes, Informed, Phase, Restarting
<1> QED BY <1>1, <1>2 DEF BackOK

LEMMA FramesBegunBack ==
  ASSUME TypeInv, BackInv, NEW c \in Conn, NEW S, NEW n, NEW commit, Frames(c, S, n, commit)
  PROVE  BackInv'
<1> DEFINE x   == con[c]
           v   == past.ver + 1
           pc  == IF x.lock = 0 THEN "restart" ELSE "frames"
           new == IF commit THEN n ELSE Max(S \cup {Len(x.image)})
<1>1. ConnType(x) /\ x.pc = "read" /\ WRITE \in x.excl /\ shm' = shm
  BY AtConn DEF Frames, Writing, Pc
<1>2. PICK pages \in [1..Cardinality(S) -> S] :
        con' = [con EXCEPT ![c] =
                  [Goto(x, pc) EXCEPT
                     !.image = Changed(@, S, v, new),
                     !.w.commit = commit,
                     !.w.todo = [k \in DOMAIN pages |->
                                   Entry(pages[k], v, IF k = Cardinality(S) THEN n ELSE 0)]]]
  BY DEF Frames, Put
<1> HIDE DEF new, v
<1> DEFINE todo == [k \in DOMAIN pages |-> Entry(pages[k], v, IF k = Cardinality(S) THEN n ELSE 0)]
           y == [Goto(x, pc) EXCEPT !.image = Changed(@, S, v, new), !.w.commit = commit,
                                    !.w.todo = todo]
<1>3. con' = [con EXCEPT ![c] = y]
  BY <1>2
<1> HIDE DEF todo
<1>4. /\ y.pc \in {"restart", "frames"} /\ y.hdr = x.hdr /\ y.sp = x.sp /\ y.nCkpt = x.nCkpt
  BY <1>1 DEF ConnType, Goto, ConnFields
<1> HIDE DEF y
<1>5. Writes(x)
  BY <1>1 DEF Writes
<1>6. /\ x.hdr.init /\ shm.h0.mx <= x.hdr.mx
      /\ x.sp # NoSavepoint =>
           /\ x.sp.nCkpt <= x.nCkpt
           /\ IF x.sp.nCkpt = x.nCkpt THEN shm.h0.mx <= x.sp.mx ELSE shm.h0.mx = 0
  BY <1>5, WriteFacts
<1> QED BY <1>1, <1>3, <1>4, <1>6, WriteStep

LEMMA LogRestartedBack ==
  ASSUME OneWriter, TypeInv, BackInv, NEW c \in Conn, RestartLog(c)
  PROVE  BackInv'
<1> DEFINE x == con[c]
<1>1. ConnType(x) /\ x.pc = "restart"
  BY AtConn DEF RestartLog, Pc
<1>2. Writes(x)
  BY <1>1 DEF Writes
<1>3. /\ c \in Writers /\ x.hdr.init /\ shm.h0.init /\ shm.h0.mx <= x.hdr.mx /\ WRITE \in x.excl
      /\ x.sp # NoSavepoint =>
           /\ x.sp.nCkpt <= x.nCkpt
           /\ IF x.sp.nCkpt = x.nCkpt THEN shm.h0.mx <= x.sp.mx ELSE shm.h0.mx = 0
  BY <1>2, WriteFacts
<1>4. CASE /\ shm' = [shm EXCEPT !.h1 = Restarted(x).hdr]
           /\ con' = [con EXCEPT ![c] = [Goto(Restarted(x), "restartHdr") EXCEPT
                                           !.excl = @ \cup RestartLocks]]
  <2> DEFINE h == [x.hdr EXCEPT !.mx = 0, !.salt = past.salt + 1]
             y == [Goto(Restarted(x), "restartHdr") EXCEPT !.excl = @ \cup RestartLocks]
  <2>1. /\ y.pc = "restartHdr" /\ y.hdr = h /\ y.nCkpt = x.nCkpt + 1
        /\ y.excl = x.excl \cup RestartLocks /\ y.sp = x.sp /\ Restarted(x).hdr = h
    BY <1>1 DEF ConnType, Goto, Restarted, ConnFields
  <2>2. con' = [con EXCEPT ![c] = y] /\ shm' = [shm EXCEPT !.h1 = h]
    BY <1>4, <2>1
  <2> HIDE DEF y
  <2>3. /\ shm'.h0 = shm.h0 /\ shm'.h1 = h /\ shm'.nBackfill = shm.nBackfill
    BY <2>2 DEF TypeInv, ShmInv
  <2>4. h.mx = 0 /\ h.init
    BY <1>1, <1>3 DEF ConnType, HdrOK, HdrFields
  <2> HIDE DEF h
  <2>5. y.sp # NoSavepoint => y.sp.nCkpt < y.nCkpt
    <3>1. x.sp # NoSavepoint => x.sp.nCkpt \in Nat
      BY <1>1 DEF ConnType, SpOK
    <3>2. x.nCkpt \in Nat
      BY <1>1 DEF ConnType
    <3> QED BY <1>3, <2>1, <3>1, <3>2
  <2>6. BackOK(c, y, shm')
    BY <1>3, <2>1, <2>3, <2>4, <2>5 DEF BackOK, Writes, Copying, Informed, Recovering, Restarting,
       Logging, RestartLocks
  <2>7. shm.nBackfill <= shm.h0.mx
    BY <1>1, <1>3, UnderWriteLock
  <2> QED BY <1>3, <2>1, <2>2, <2>3, <2>6, <2>7, HeaderStep
<1>5. CASE /\ con' = [con EXCEPT ![c] = [Goto(x, "pick") EXCEPT !.lock = 0 - 1]]
           /\ UNCHANGED <<shm, past>>
  <2> DEFINE y == [Goto(x, "pick") EXCEPT !.lock = 0 - 1]
  <2>1. /\ y.pc = "pick" /\ y.hdr = x.hdr /\ y.sp = x.sp /\ y.nCkpt = x.nCkpt /\ y.excl = x.excl
    BY <1>1 DEF ConnType, Goto, ConnFields
  <2>2. con' = [con EXCEPT ![c] = y]
    BY <1>5
  <2> HIDE DEF y
  <2>3. /\ shm'.h0 = shm.h0 /\ shm'.h1 = shm.h1 /\ shm'.nBackfill = shm.nBackfill
    BY <1>5
  <2>4. y.hdr.init /\ shm.h0.mx <= y.hdr.mx /\ WRITE \in y.excl
    BY <1>3, <2>1
  <2>5. y.sp # NoSavepoint =>
          /\ y.sp.nCkpt <= y.nCkpt
          /\ IF y.sp.nCkpt = y.nCkpt THEN shm.h0.mx <= y.sp.mx ELSE shm.h0.mx = 0
    BY <1>3, <2>1
  <2>6. x.pc \in {"restart", "frames", "syncHdr", "append"} /\ y.pc \in {"read", "pick"}
    BY <1>1, <2>1
  <2> HIDE DEF x
  <2> QED BY <2>2, <2>3, <2>4, <2>5, <2>6, WriteStep DEF x
<1> QED BY <1>4, <1>5 DEF RestartLog, Put

LEMMA RestartedHdrBack ==
  ASSUME OneWriter, TypeInv, BackInv, NEW c \in Conn, RestartHdr(c)
  PROVE  BackInv'
<1> DEFINE x == con[c]
           y == Goto(x, "restartInfo")
<1>1. /\ ConnType(x) /\ Phase(c, x) /\ x.pc = "restartHdr" /\ BackOK(c, x, shm)
      /\ con' = [con EXCEPT ![c] = y]
  BY AtConn DEF RestartHdr, Pc, Put, BackInv
<1>2. shm'.h0 = x.hdr /\ shm'.h1 = shm.h1 /\ shm'.nBackfill = shm.nBackfill
  BY DEF RestartHdr, TypeInv, ShmInv
<1>3. /\ y.pc = "restartInfo" /\ y.hdr = x.hdr /\ y.sp = x.sp /\ y.nCkpt = x.nCkpt
      /\ y.excl = x.excl
  BY <1>1 DEF ConnType, Goto, ConnFields
<1> HIDE DEF y
<1>4. WRITE \in x.excl /\ c \in Writers /\ x.hdr.init /\ shm.h1 = x.hdr
  BY <1>1 DEF Phase, BackOK, Restarting, Informed
<1>5. HdrsAgree(shm')
  BY <1>2, <1>4 DEF HdrsAgree
<1>6. BackOK(c, y, shm')
  BY <1>1, <1>2, <1>3, <1>4, <1>5 DEF BackOK, Writes, Copying, Informed, Recovering, Restarting,
     Logging
<1> QED BY <1>1, <1>3, <1>4, <1>5, <1>6, HeaderStep

LEMMA RestartedInfoBack ==
  ASSUME OneWriter, TypeInv, BackInv, NEW c \in Conn, RestartInfo(c)
  PROVE  BackInv'
<1> DEFINE x == con[c]
           y == [Goto(x, "pick") EXCEPT !.lock = 0 - 1, !.excl = {WRITE}]
<1>1. /\ ConnType(x) /\ Phase(c, x) /\ x.pc = "restartInfo" /\ BackOK(c, x, shm)
      /\ con' = [con EXCEPT ![c] = y]
  BY AtConn DEF RestartInfo, Pc, Put, BackInv
<1>2. shm'.h0 = shm.h0 /\ shm'.h1 = shm.h1 /\ shm'.nBackfill = 0
  BY DEF RestartInfo, ResetInfo, TypeInv, ShmInv
<1>3. /\ y.pc = "pick" /\ y.hdr = x.hdr /\ y.sp = x.sp /\ y.nCkpt = x.nCkpt
      /\ y.excl = {WRITE}
  BY <1>1 DEF ConnType, Goto, ConnFields
<1> HIDE DEF y
<1>4. /\ WRITE \in x.excl /\ c \in Writers /\ x.hdr.init /\ shm.h1 = x.hdr /\ HdrsAgree(shm)
      /\ x.hdr.mx = 0 /\ (x.sp # NoSavepoint => x.sp.nCkpt < x.nCkpt)
  BY <1>1 DEF Phase, BackOK, Restarting, Informed
<1>5. shm.h0.mx = 0 /\ shm.h0.init
  BY <1>4 DEF HdrsAgree
<1>6. x.sp # NoSavepoint => x.sp.nCkpt <= x.nCkpt /\ x.sp.nCkpt # x.nCkpt
  <2>1. (x.sp # NoSavepoint => x.sp.nCkpt \in Nat) /\ x.nCkpt \in Nat
    BY <1>1 DEF ConnType, SpOK
  <2> QED BY <1>4, <2>1
<1>7. BackOK(c, y, shm')
  BY <1>2, <1>3, <1>4, <1>5, <1>6 DEF BackOK, Writes, Copying, Informed, Recovering, Restarting,
     Logging
<1>8. shm'.nBackfill <= shm'.h0.mx
  <2>1. shm'.h0.mx = 0 /\ shm'.nBackfill = 0
    BY <1>2, <1>5
  <2> QED BY <2>1
<1>9. con' = [con EXCEPT ![c] = y] /\ WRITE \in x.excl /\ c \in Writers /\ shm'.nBackfill = 0
  BY <1>1, <1>2, <1>4
<1> HIDE DEF x
<1> QED BY <1>7, <1>8, <1>9, HeaderStep DEF x

LEMMA LogHdrWrittenBack ==
  ASSUME TypeInv, BackInv, NEW c \in Conn, WriteLogHdr(c)
  PROVE  BackInv'
<1> DEFINE x    == con[c]
           salt == IF x.nCkpt = 0 THEN past.salt + 1 ELSE x.hdr.salt
           y    == [Goto(x, "syncHdr") EXCEPT !.hdr.salt = salt, !.hdr.sum = <<>>]
<1>1. /\ ConnType(x) /\ x.pc = "frames" /\ shm' = shm /\ con' = [con EXCEPT ![c] = y]
  BY AtConn DEF WriteLogHdr, Pc, Put
<1> HIDE DEF salt
<1>2. /\ y.pc = "syncHdr" /\ y.hdr.mx = x.hdr.mx /\ y.hdr.init = x.hdr.init /\ y.sp = x.sp
      /\ y.nCkpt = x.nCkpt
  BY <1>1 DEF ConnType, Goto, ConnFields, HdrOK, HdrFields
<1> HIDE DEF y
<1>3. Writes(x)
  BY <1>1 DEF Writes, Logging
<1>4. /\ x.hdr.init /\ shm.h0.mx <= x.hdr.mx
      /\ x.sp # NoSavepoint =>
           /\ x.sp.nCkpt <= x.nCkpt
           /\ IF x.sp.nCkpt = x.nCkpt THEN shm.h0.mx <= x.sp.mx ELSE shm.h0.mx = 0
  BY <1>3, WriteFacts
<1> QED BY <1>1, <1>2, <1>4, WriteStep

LEMMA LogHdrSyncedBack ==
  ASSUME TypeInv, BackInv, NEW c \in Conn, SyncLogHdr(c)
  PROVE  BackInv'
<1> DEFINE x == con[c]
           y == Goto(x, "append")
<1>1. /\ ConnType(x) /\ x.pc = "syncHdr" /\ shm' = shm /\ con' = [con EXCEPT ![c] = y]
  BY AtConn DEF SyncLogHdr, Pc, Put
<1>2. y.pc = "append" /\ y.hdr = x.hdr /\ y.sp = x.sp /\ y.nCkpt = x.nCkpt
  BY <1>1 DEF ConnType, Goto, ConnFields
<1> HIDE DEF y
<1>3. Writes(x)
  BY <1>1 DEF Writes, Logging
<1>4. /\ x.hdr.init /\ shm.h0.mx <= x.hdr.mx
      /\ x.sp # NoSavepoint =>
           /\ x.sp.nCkpt <= x.nCkpt
           /\ IF x.sp.nCkpt = x.nCkpt THEN shm.h0.mx <= x.sp.mx ELSE shm.h0.mx = 0
  BY <1>3, WriteFacts
<1> QED BY <1>1, <1>2, <1>4, WriteStep

LEMMA FrameWrittenBack ==
  ASSUME TypeInv, BackInv, NEW c \in Conn, WriteFrame(c)
  PROVE  BackInv'
<1> DEFINE x   == con[c]
           sum == Append(x.hdr.sum, Head(x.w.todo))
           y   == [Goto(x, "append") EXCEPT !.hdr.sum = sum, !.w.todo = Tail(@)]
<1>1. /\ ConnType(x) /\ x.pc \in {"append", "frames"} /\ shm' = shm
      /\ con' = [con EXCEPT ![c] = y]
  BY AtConn DEF WriteFrame, Pc, Put
<1> HIDE DEF sum
<1>2. /\ y.pc = "append" /\ y.hdr.mx = x.hdr.mx /\ y.hdr.init = x.hdr.init /\ y.sp = x.sp
      /\ y.nCkpt = x.nCkpt
  BY <1>1 DEF ConnType, Goto, ConnFields, HdrOK, HdrFields
<1> HIDE DEF y
<1>3. Writes(x)
  BY <1>1 DEF Writes, Logging
<1>4. /\ x.hdr.init /\ shm.h0.mx <= x.hdr.mx
      /\ x.sp # NoSavepoint =>
           /\ x.sp.nCkpt <= x.nCkpt
           /\ IF x.sp.nCkpt = x.nCkpt THEN shm.h0.mx <= x.sp.mx ELSE shm.h0.mx = 0
  BY <1>3, WriteFacts
<1> QED BY <1>1, <1>2, <1>4, WriteStep

LEMMA FramesEndedBack ==
  ASSUME OneWriter, TypeInv, BackInv, NEW c \in Conn, EndFrames(c)
  PROVE  BackInv'
<1> DEFINE x  == con[c]
           h  == [x.hdr EXCEPT !.mx = Len(x.hdr.sum), !.init = TRUE,
                               !.chg = IF x.w.commit THEN @ + 1 ELSE @,
                               !.n = IF x.w.commit THEN Last(x.hdr.sum).n ELSE @]
           pc == IF x.w.commit THEN "commitHdr" ELSE "read"
           y  == [Goto(x, pc) EXCEPT !.hdr = h, !.w = NoWork]
<1>1. /\ ConnType(x) /\ HdrOK(shm.h0) /\ x.pc = "append" /\ con' = [con EXCEPT ![c] = y]
  BY AtConn DEF EndFrames, Pc, Put
<1>2. shm' = [shm EXCEPT !.pgno = Appended(x), !.h1 = IF x.w.commit THEN h ELSE @]
  BY DEF EndFrames
<1>3. h.init /\ h.mx = Len(x.hdr.sum)
  BY <1>1 DEF ConnType, HdrOK, HdrFields
<1> HIDE DEF h
<1>4. /\ shm'.h0 = shm.h0 /\ shm'.h1 = (IF x.w.commit THEN h ELSE shm.h1)
      /\ shm'.nBackfill = shm.nBackfill
  BY <1>2 DEF TypeInv, ShmInv
<1>5. pc = IF x.w.commit THEN "commitHdr" ELSE "read"
  OBVIOUS
<1> HIDE DEF pc
<1>6. y.pc = pc /\ y.hdr = h /\ y.excl = x.excl /\ y.sp = x.sp /\ y.nCkpt = x.nCkpt
  BY <1>1 DEF ConnType, Goto, ConnFields
<1> HIDE DEF y
<1>7. Writes(x)
  BY <1>1 DEF Writes, Logging
<1>8. /\ c \in Writers /\ shm.h0.init /\ shm.h0.mx <= x.hdr.mx /\ WRITE \in x.excl
      /\ x.sp # NoSavepoint =>
           /\ x.sp.nCkpt <= x.nCkpt
           /\ IF x.sp.nCkpt = x.nCkpt THEN shm.h0.mx <= x.sp.mx ELSE shm.h0.mx = 0
  BY <1>7, WriteFacts
<1>9. shm.h0.mx <= h.mx
  <2>1. shm.h0.mx \in Nat /\ x.hdr.mx \in Nat /\ x.hdr.mx <= Len(x.hdr.sum)
        /\ Len(x.hdr.sum) \in Nat
    BY <1>1 DEF ConnType, HdrOK, Sums
  <2> QED BY <1>3, <1>8, <2>1
<1>10. shm.nBackfill <= shm.h0.mx
  BY <1>1, <1>8, UnderWriteLock
<1>11. CASE x.w.commit
  <2>1. y.pc = "commitHdr" /\ shm'.h1 = y.hdr
    BY <1>4, <1>5, <1>6, <1>11
  <2>2. BackOK(c, y, shm')
    BY <1>3, <1>4, <1>6, <1>8, <1>9, <2>1 DEF BackOK, Writes, Copying, Informed, Recovering,
       Restarting, Logging
  <2>3. shm'.nBackfill <= shm'.h0.mx
    BY <1>4, <1>10
  <2> HIDE DEF x
  <2> QED BY <1>1, <1>8, <2>1, <2>2, <2>3, HeaderStep DEF x
<1>12. CASE ~x.w.commit
  <2>1. y.pc = "read" /\ shm'.h1 = shm.h1 /\ WRITE \in y.excl
    BY <1>4, <1>5, <1>6, <1>8, <1>12
  <2>2. y.hdr.init /\ shm.h0.mx <= y.hdr.mx
    BY <1>3, <1>6, <1>9
  <2>3. y.sp # NoSavepoint =>
          /\ y.sp.nCkpt <= y.nCkpt
          /\ IF y.sp.nCkpt = y.nCkpt THEN shm.h0.mx <= y.sp.mx ELSE shm.h0.mx = 0
    BY <1>6, <1>8
  <2>4. con[c].pc = "append" /\ shm'.h0 = shm.h0 /\ shm'.nBackfill = shm.nBackfill
    BY <1>1, <1>4
  <2> HIDE DEF x
  <2> QED BY <1>1, <2>1, <2>2, <2>3, <2>4, WriteStep
<1> QED BY <1>11, <1>12

LEMMA EndWriteFields ==
  ASSUME NEW x, ConnType(x), NEW h, NEW img
  PROVE  LET y == EndWrite(x, h, img)
         IN  y.pc = "read" /\ y.excl = {} /\ y.hdr = h /\ y.sp = NoSavepoint
BY DEF EndWrite, ConnType, Goto, ConnFields

LEMMA HdrCommittedBack ==
  ASSUME OneWriter, TypeInv, BackInv, NEW c \in Conn, CommitHdr(c)
  PROVE  BackInv'
<1> DEFINE x == con[c]
           y == EndWrite(x, x.hdr, x.image)
<1>1. /\ ConnType(x) /\ HdrOK(shm.h0) /\ x.pc = "commitHdr" /\ con' = [con EXCEPT ![c] = y]
      /\ BackOK(c, x, shm)
  BY AtConn DEF CommitHdr, Pc, Put, BackInv
<1>2. shm'.h0 = x.hdr /\ shm'.h1 = shm.h1 /\ shm'.nBackfill = shm.nBackfill
  BY DEF CommitHdr, TypeInv, ShmInv
<1>3. y.pc = "read" /\ y.excl = {} /\ y.hdr = x.hdr /\ y.sp = NoSavepoint
  BY <1>1, EndWriteFields
<1> HIDE DEF y
<1>4. Writes(x)
  BY <1>1 DEF Writes, Logging
<1>5. c \in Writers /\ x.hdr.init /\ shm.h0.mx <= x.hdr.mx /\ WRITE \in x.excl
  BY <1>4, WriteFacts
<1>6. shm.h1 = x.hdr
  BY <1>1 DEF BackOK
<1>7. HdrsAgree(shm')
  BY <1>2, <1>5, <1>6 DEF HdrsAgree
<1>8. BackOK(c, y, shm')
  BY <1>3, <1>5, Plain
<1>9. shm'.nBackfill <= shm'.h0.mx
  <2>1. shm.nBackfill <= shm.h0.mx
    BY <1>1, <1>5, UnderWriteLock
  <2>2. shm.nBackfill \in Int /\ shm.h0.mx \in Int /\ x.hdr.mx \in Int
    BY <1>1, Constants DEF TypeInv, ShmInv, ConnType, HdrOK
  <2> QED BY <1>2, <1>5, <2>1, <2>2
<1> HIDE DEF x
<1> QED BY <1>1, <1>5, <1>7, <1>8, <1>9, HeaderStep DEF x

LEMMA RolledBackBack ==
  ASSUME TypeInv, BackInv, NEW c \in Conn, Rollback(c)
  PROVE  BackInv'
<1> DEFINE x == con[c]
           y == EndWrite(x, shm.h0, x.cache)
<1>1. /\ ConnType(x) /\ x.pc = "read" /\ WRITE \in x.excl /\ con' = [con EXCEPT ![c] = y]
      /\ shm' = IF x.hdr.mx # shm.h0.mx THEN [shm EXCEPT !.pgno = CleanupHash(shm.h0.mx)]
                ELSE shm
  BY AtConn DEF Rollback, Writing, Pc, Put
<1>2. shm'.h0 = shm.h0 /\ shm'.h1 = shm.h1 /\ shm'.nBackfill = shm.nBackfill
  BY <1>1 DEF TypeInv, ShmInv
<1>3. y.pc = "read" /\ y.excl = {} /\ y.hdr = shm.h0 /\ y.sp = NoSavepoint
  BY <1>1, EndWriteFields
<1> HIDE DEF y
<1>4. shm.h0.init
  BY <1>1, WriteFacts DEF Writes
<1>5. BackOK(c, y, shm)
  BY <1>3, <1>4, Plain
<1>6. x.pc \notin {"restartHdr", "restartInfo", "commitHdr"}
  BY <1>1
<1> QED BY <1>1, <1>2, <1>5, <1>6, BackStep

LEMMA SavedBack ==
  ASSUME TypeInv, BackInv, NEW c \in Conn, Savepoint(c)
  PROVE  BackInv'
<1> DEFINE x  == con[c]
           sp == [mx |-> x.hdr.mx, sum |-> x.hdr.sum, nCkpt |-> x.nCkpt, image |-> x.image]
           y  == [x EXCEPT !.sp = sp]
<1>1. /\ ConnType(x) /\ x.pc = "read" /\ WRITE \in x.excl /\ shm' = shm
      /\ con' = [con EXCEPT ![c] = y]
  BY AtConn DEF Savepoint, Writing, Pc, Put
<1>2. sp.mx = x.hdr.mx /\ sp.nCkpt = x.nCkpt
  OBVIOUS
<1> HIDE DEF sp
<1>3. y.pc = "read" /\ y.hdr = x.hdr /\ y.sp = sp /\ y.nCkpt = x.nCkpt /\ y.excl = x.excl
  BY <1>1 DEF ConnType, ConnFields
<1> HIDE DEF y
<1>4. x.hdr.init /\ shm.h0.mx <= x.hdr.mx
  BY <1>1, WriteFacts DEF Writes
<1>5. x.nCkpt <= x.nCkpt
  BY <1>1 DEF ConnType
<1>6. y.sp # NoSavepoint =>
        /\ y.sp.nCkpt <= y.nCkpt
        /\ IF y.sp.nCkpt = y.nCkpt THEN shm.h0.mx <= y.sp.mx ELSE shm.h0.mx = 0
  BY <1>2, <1>3, <1>4, <1>5
<1>7. /\ y.hdr.init /\ shm.h0.mx <= y.hdr.mx /\ WRITE \in y.excl
      /\ shm'.h0 = shm.h0 /\ shm'.h1 = shm.h1 /\ shm'.nBackfill = shm.nBackfill
  BY <1>1, <1>3, <1>4
<1> HIDE DEF x
<1> QED BY <1>1, <1>3, <1>6, <1>7, WriteStep DEF x

LEMMA SavepointUndoneBack ==
  ASSUME TypeInv, BackInv, NEW c \in Conn, SavepointUndo(c)
  PROVE  BackInv'
<1> DEFINE x  == con[c]
           mx == UndoFrame(x)
           h  == IF mx < x.hdr.mx THEN [x.hdr EXCEPT !.mx = mx, !.sum = x.sp.sum] ELSE x.hdr
           y  == [x EXCEPT !.sp.mx = mx, !.sp.nCkpt = x.nCkpt, !.image = x.sp.image, !.hdr = h]
<1>1. /\ ConnType(x) /\ x.pc = "read" /\ WRITE \in x.excl /\ x.sp # NoSavepoint
      /\ HdrOK(shm.h0)
      /\ shm' = IF mx < x.hdr.mx THEN [shm EXCEPT !.pgno = CleanupHash(mx)] ELSE shm
      /\ con' = [con EXCEPT ![c] = [x EXCEPT !.sp.mx = mx, !.sp.nCkpt = x.nCkpt,
           !.image = x.sp.image,
           !.hdr = IF mx < x.hdr.mx THEN [x.hdr EXCEPT !.mx = mx, !.sum = x.sp.sum] ELSE @]]
  BY AtConn DEF SavepointUndo, Writing, Pc, Put
<1>2. con' = [con EXCEPT ![c] = y]
  BY <1>1
<1>3. /\ x.hdr.init /\ shm.h0.mx <= x.hdr.mx
      /\ x.sp.nCkpt <= x.nCkpt
      /\ IF x.sp.nCkpt = x.nCkpt THEN shm.h0.mx <= x.sp.mx ELSE shm.h0.mx = 0
  BY <1>1, WriteFacts DEF Writes
<1>4. shm.h0.mx <= mx
  <2>1. shm.h0.mx \in Nat
    BY <1>1 DEF HdrOK
  <2> QED BY <1>3, <2>1 DEF UndoFrame
<1>5. shm'.h0 = shm.h0 /\ shm'.h1 = shm.h1 /\ shm'.nBackfill = shm.nBackfill
  BY <1>1 DEF TypeInv, ShmInv
<1>6. x.nCkpt \in Nat /\ DOMAIN x.sp = SavepointFields
  BY <1>1 DEF ConnType, SpOK
<1> HIDE DEF mx
<1>7. h.init /\ shm.h0.mx <= h.mx
  <2>1. CASE mx < x.hdr.mx
    BY <1>1, <1>3, <1>4, <2>1 DEF ConnType, HdrOK, HdrFields
  <2>2. CASE ~(mx < x.hdr.mx)
    BY <1>3, <2>2
  <2> QED BY <2>1, <2>2
<1> HIDE DEF h
<1>8. /\ y.pc = "read" /\ y.hdr = h /\ y.nCkpt = x.nCkpt /\ y.excl = x.excl
      /\ y.sp.mx = mx /\ y.sp.nCkpt = x.nCkpt
  BY <1>1, <1>6 DEF ConnType, ConnFields, SavepointFields
<1> HIDE DEF y
<1>9. /\ y.sp.nCkpt <= y.nCkpt
      /\ IF y.sp.nCkpt = y.nCkpt THEN shm.h0.mx <= y.sp.mx ELSE shm.h0.mx = 0
  BY <1>4, <1>6, <1>8
<1>10. y.hdr.init /\ shm.h0.mx <= y.hdr.mx /\ WRITE \in y.excl
  BY <1>1, <1>7, <1>8
<1> HIDE DEF x
<1> QED BY <1>1, <1>2, <1>5, <1>8, <1>9, <1>10, WriteStep DEF x

LEMMA HdrRetriedBack ==
  ASSUME TypeInv, BackInv, NEW c \in Conn, RetryHdr(c)
  PROVE  BackInv'
<1> DEFINE x == con[c]
<1>1. ConnType(x) /\ Phase(c, x) /\ x.pc = "retryHdr" /\ shm' = shm /\ HdrOK(shm.h0)
  BY AtConn DEF RetryHdr, Pc
<1>2. shm'.h0 = shm.h0 /\ shm'.h1 = shm.h1 /\ shm'.nBackfill = shm.nBackfill
  BY <1>1
<1>3. x.sp = NoSavepoint
  BY <1>1, AtBack DEF Writes, Restarting, Logging
<1>4. x.pc \notin {"restartHdr", "restartInfo", "commitHdr"}
  BY <1>1
<1>5. CASE /\ GoodHdr
           /\ con' = [con EXCEPT ![c] = [Goto(LoadHdr(x), IF x.w.ckpt THEN "ckptTest" ELSE "choose")
                                           EXCEPT !.excl = @ \ {WRITE}]]
  <2> DEFINE pc == IF x.w.ckpt THEN "ckptTest" ELSE "choose"
             y == [Goto(LoadHdr(x), pc) EXCEPT !.excl = @ \ {WRITE}]
  <2>1. /\ ConnType(LoadHdr(x)) /\ LoadHdr(x).hdr = shm.h0
        /\ \A f \in ConnFields \ {"hdr", "cache", "w"} : LoadHdr(x)[f] = x[f]
    BY <1>1, NewHdrFields DEF LoadHdr
  <2>2. con' = [con EXCEPT ![c] = y]
    BY <1>5
  <2>3. pc \in {"ckptTest", "choose"}
    OBVIOUS
  <2> HIDE DEF pc
  <2>4. y.pc = pc /\ y.hdr = shm.h0 /\ y.sp = x.sp
    BY <2>1 DEF ConnType, Goto, ConnFields
  <2> HIDE DEF y
  <2>5. HdrsAgree(shm)
    BY <1>5 DEF GoodHdr, HdrsAgree
  <2>6. BackOK(c, y, shm)
    BY <1>3, <2>3, <2>4, <2>5 DEF BackOK, HdrsAgree, Writes, Copying, Informed, Recovering,
       Restarting, Logging
  <2> HIDE DEF x
  <2> QED BY <1>2, <1>4, <2>2, <2>6, BackStep DEF x
<1>6. CASE /\ ~GoodHdr
           /\ con' = [con EXCEPT ![c] = [Goto(x, "recover") EXCEPT !.excl = AllLocks]]
  <2> DEFINE y == [Goto(x, "recover") EXCEPT !.excl = AllLocks]
  <2>1. y.pc = "recover" /\ y.sp = x.sp
    BY <1>1 DEF ConnType, Goto, ConnFields
  <2>2. con' = [con EXCEPT ![c] = y]
    BY <1>6
  <2> HIDE DEF y
  <2>3. WRITE \in x.excl
    BY <1>1 DEF Phase
  <2>4. shm.nBackfill = 0
    BY <1>4, <1>6, <2>3, UnderWriteLock DEF GoodHdr, HdrsAgree
  <2>5. BackOK(c, y, shm)
    BY <1>3, <2>1, <2>4 DEF BackOK, Writes, Copying, Informed, Recovering, Restarting, Logging
  <2> HIDE DEF x
  <2> QED BY <1>2, <1>4, <2>2, <2>5, BackStep DEF x
<1>7. CASE con' = [con EXCEPT ![c] = [Goto(x, "ckptEnd") EXCEPT !.excl = @ \ {WRITE}]]
  <2> DEFINE y == [Goto(x, "ckptEnd") EXCEPT !.excl = @ \ {WRITE}]
  <2>1. y.pc = "ckptEnd" /\ y.sp = x.sp
    BY <1>1 DEF ConnType, Goto, ConnFields
  <2>2. con' = [con EXCEPT ![c] = y]
    BY <1>7
  <2> HIDE DEF y
  <2>3. BackOK(c, y, shm)
    BY <1>3, <2>1, Plain
  <2> HIDE DEF x
  <2> QED BY <1>2, <1>4, <2>2, <2>3, BackStep DEF x
<1>8. CASE con' = [con EXCEPT ![c] = [Goto([x EXCEPT !.w = NoWork], "idle") EXCEPT
                                        !.excl = @ \ {WRITE}]]
  <2> DEFINE y == [Goto([x EXCEPT !.w = NoWork], "idle") EXCEPT !.excl = @ \ {WRITE}]
  <2>1. y.pc = "idle" /\ y.sp = x.sp
    BY <1>1 DEF ConnType, Goto, ConnFields
  <2>2. con' = [con EXCEPT ![c] = y]
    BY <1>8
  <2> HIDE DEF y
  <2>3. BackOK(c, y, shm)
    BY <1>3, <2>1, Plain
  <2> HIDE DEF x
  <2> QED BY <1>2, <1>4, <2>2, <2>3, BackStep DEF x
<1> QED
  <2>1. CASE GoodHdr
    BY <1>5, <2>1 DEF RetryHdr, Put
  <2>2. CASE ~GoodHdr /\ ExclFree(c, AllLocks \ x.excl)
    BY <1>6, <2>2 DEF RetryHdr, Put
  <2>3. CASE ~GoodHdr /\ ~ExclFree(c, AllLocks \ x.excl)
    BY <1>7, <1>8, <2>3 DEF RetryHdr, Put
  <2> QED BY <2>1, <2>2, <2>3

LEMMA RecoveredInit == ASSUME NEW l PROVE RecoveredHdr(l).init
BY DEF RecoveredHdr, Hdr

\* A connection that recovers, and goes on with it.
LEMMA RecoveryStep ==
  ASSUME OneWriter, TypeInv, BackInv, NEW c \in Conn, NEW y, con' = [con EXCEPT ![c] = y],
         con[c].pc \in Recovering, BackOK(c, y, shm'), shm'.nBackfill = 0, HdrOK(shm'.h0)
  PROVE  BackInv'
<1>1. WRITE \in con[c].excl
  <2>1. con[c].excl = AllLocks
    BY AtConn DEF Phase
  <2> QED BY <2>1, Constants DEF WRITE, AllLocks
<1>2. shm'.nBackfill <= shm'.h0.mx
  BY DEF HdrOK
<1> QED BY <1>1, <1>2, HeaderStep

LEMMA RecoveredBack ==
  ASSUME OneWriter, TypeInv, BackInv, NEW c \in Conn, Recover(c)
  PROVE  BackInv'
<1> DEFINE x == con[c]
           h == RecoveredHdr(log.cur)
           z == [x EXCEPT !.hdr = NoHdr]
           u == NewHdr(z, h)
<1>1. /\ ConnType(x) /\ x.pc = "recover" /\ HdrOK(shm.h0) /\ BackOK(c, x, shm)
      /\ con' = [con EXCEPT ![c] = [Goto(u, "recoverHdr") EXCEPT
                   !.nCkpt = IF HasFrames(log.cur) THEN log.cur.nCkpt ELSE @]]
  BY AtConn DEF Recover, Pc, Put, BackInv
<1>2. shm'.h0 = shm.h0 /\ shm'.h1 = h /\ shm'.nBackfill = shm.nBackfill
  BY DEF Recover, TypeInv, ShmInv
<1>3. HdrOK(h) /\ h.init
  BY RecoveredHdrOK, RecoveredInit DEF TypeInv, LogInv
<1> HIDE DEF h
<1>4. DOMAIN z = ConnFields /\ z.hdr = NoHdr /\ \A f \in ConnFields \ {"hdr"} : z[f] = x[f]
  BY <1>1 DEF ConnType, ConnFields
<1> HIDE DEF z
<1>5. ConnType(z) /\ z.sp = x.sp
  <2>1. /\ z.excl = x.excl /\ z.lock = x.lock /\ z.nCkpt = x.nCkpt
        /\ z.sp = x.sp /\ z.w = x.w
    BY <1>4 DEF ConnFields
  <2> QED BY <1>1, <1>4, <2>1, NothingDone DEF ConnType
<1>6. ConnType(u) /\ u.hdr = h /\ u.sp = x.sp
  BY <1>3, <1>5, NewHdrFields DEF ConnFields
<1> HIDE DEF u
<1>7. PICK v : v = [Goto(u, "recoverHdr") EXCEPT
                      !.nCkpt = IF HasFrames(log.cur) THEN log.cur.nCkpt ELSE @]
  OBVIOUS
<1>8. v.pc = "recoverHdr" /\ v.hdr = h /\ v.sp = x.sp
  BY <1>6, <1>7 DEF ConnType, Goto, ConnFields
<1>9. x.sp = NoSavepoint /\ shm.nBackfill = 0
  BY <1>1, AtBack DEF Recovering, BackOK, Restarting, Writes, Logging
<1>10. BackOK(c, v, shm')
  BY <1>2, <1>3, <1>8, <1>9 DEF BackOK, Writes, Copying, Informed, Recovering, Restarting,
     Logging
<1>11. con' = [con EXCEPT ![c] = v] /\ con[c].pc \in Recovering
  BY <1>1, <1>7 DEF Recovering
<1>12. shm'.nBackfill = 0 /\ HdrOK(shm'.h0)
  BY <1>1, <1>2, <1>9
<1> HIDE DEF x
<1> QED BY <1>10, <1>11, <1>12, RecoveryStep

LEMMA HdrRecoveredBack ==
  ASSUME OneWriter, TypeInv, BackInv, NEW c \in Conn, RecoverHdr(c)
  PROVE  BackInv'
<1> DEFINE x == con[c]
           y == Goto(x, "recoverInfo")
<1>1. /\ ConnType(x) /\ x.pc = "recoverHdr" /\ BackOK(c, x, shm)
      /\ con' = [con EXCEPT ![c] = y]
  BY AtConn DEF RecoverHdr, Pc, Put, BackInv
<1>2. shm'.h0 = x.hdr /\ shm'.h1 = shm.h1 /\ shm'.nBackfill = shm.nBackfill
  BY DEF RecoverHdr, TypeInv, ShmInv
<1>3. y.pc = "recoverInfo" /\ y.hdr = x.hdr /\ y.sp = x.sp
  BY <1>1 DEF ConnType, Goto, ConnFields
<1> HIDE DEF y
<1>4. /\ x.sp = NoSavepoint /\ shm.nBackfill = 0 /\ x.hdr.init /\ shm.h1 = x.hdr
  BY <1>1, AtBack DEF Recovering, BackOK, Restarting, Writes, Logging, Informed
<1>5. BackOK(c, y, shm')
  BY <1>2, <1>3, <1>4 DEF BackOK, HdrsAgree, Writes, Copying, Informed, Recovering, Restarting,
     Logging
<1>6. con[c].pc \in Recovering /\ shm'.nBackfill = 0 /\ HdrOK(shm'.h0)
  BY <1>1, <1>2, <1>4 DEF Recovering, ConnType
<1> HIDE DEF x
<1> QED BY <1>1, <1>5, <1>6, RecoveryStep

LEMMA InfoRecoveredBack ==
  ASSUME OneWriter, TypeInv, BackInv, NEW c \in Conn, RecoverInfo(c)
  PROVE  BackInv'
<1> DEFINE x  == con[c]
           pc == IF x.w.ckpt THEN "ckptTest" ELSE "choose"
           y  == [Goto(x, pc) EXCEPT !.excl = IF x.w.ckpt THEN {CKPT} ELSE {}]
<1>1. /\ ConnType(x) /\ x.pc = "recoverInfo" /\ BackOK(c, x, shm) /\ HdrOK(shm.h0)
      /\ con' = [con EXCEPT ![c] = y]
  BY AtConn DEF RecoverInfo, Pc, Put, BackInv
<1>2. shm'.h0 = shm.h0 /\ shm'.h1 = shm.h1 /\ shm'.nBackfill = 0
  BY DEF RecoverInfo, TypeInv, ShmInv
<1>3. pc \in {"ckptTest", "choose"}
  OBVIOUS
<1> HIDE DEF pc
<1>4. y.pc = pc /\ y.hdr = x.hdr /\ y.sp = x.sp
  BY <1>1 DEF ConnType, Goto, ConnFields
<1> HIDE DEF y
<1>5. x.sp = NoSavepoint /\ x.hdr.init /\ shm.h1 = x.hdr /\ HdrsAgree(shm)
  BY <1>1, AtBack DEF Recovering, BackOK, Restarting, Writes, Logging, Informed
<1>6. BackOK(c, y, shm')
  BY <1>2, <1>3, <1>4, <1>5 DEF BackOK, HdrsAgree, Writes, Copying, Informed, Recovering,
     Restarting, Logging
<1>7. con[c].pc \in Recovering /\ HdrOK(shm'.h0)
  BY <1>1, <1>2 DEF Recovering
<1> HIDE DEF x
<1> QED BY <1>1, <1>2, <1>6, <1>7, RecoveryStep

\* A checkpoint on its way, with a header that is the shared one.
LEMMA CopyOK ==
  ASSUME NEW c, NEW y, NEW s, y.pc \in Copying, HdrsAgree(s), y.hdr = s.h0, y.sp = NoSavepoint,
         y.pc # "ckptTest" => y.w.safe <= y.hdr.mx
  PROVE  BackOK(c, y, s)
BY DEF BackOK, HdrsAgree, Writes, Copying, Informed, Recovering, Restarting, Logging

LEMMA InCopy ==
  ASSUME TypeInv, BackInv, NEW c \in Conn, con[c].pc \in Copying
  PROVE  /\ HdrsAgree(shm) /\ con[c].hdr = shm.h0 /\ con[c].sp = NoSavepoint
         /\ con[c].pc # "ckptTest" => con[c].w.safe <= con[c].hdr.mx
BY AtBack DEF BackOK, Copying, Writes, Restarting, Logging

\* A step of a checkpoint that leaves the headers and the count alone.
LEMMA CopyStep ==
  ASSUME TypeInv, BackInv, NEW c \in Conn, NEW y, con' = [con EXCEPT ![c] = y],
         con[c].pc \in Copying, shm'.h0 = shm.h0, shm'.h1 = shm.h1,
         shm'.nBackfill = shm.nBackfill,
         y.pc \in Copying \cup {"ckptEnd"}, y.hdr = con[c].hdr, y.sp = con[c].sp,
         y.pc \notin {"ckptTest", "ckptEnd"} => y.w.safe <= y.hdr.mx
  PROVE  BackInv'
<1>1. HdrsAgree(shm) /\ con[c].hdr = shm.h0 /\ con[c].sp = NoSavepoint
  BY InCopy
<1>2. BackOK(c, y, shm)
  <2>1. CASE y.pc \in Copying
    BY <1>1, <2>1, CopyOK DEF Copying
  <2>2. CASE y.pc = "ckptEnd"
    BY <1>1, <2>2, Plain
  <2> QED BY <2>1, <2>2
<1>3. con[c].pc \notin {"restartHdr", "restartInfo", "commitHdr"}
  BY DEF Copying
<1> QED BY <1>2, <1>3, BackStep

LEMMA CkptBegunBack ==
  ASSUME TypeInv, BackInv, NEW c \in Conn, NEW block, CkptBegin(c, block)
  PROVE  BackInv'
<1> DEFINE x == con[c]
           e == IF block /\ ExclFree(c, {WRITE}) THEN {CKPT, WRITE} ELSE {CKPT}
           y == [Goto(x, "ckptHdr") EXCEPT !.excl = e, !.w.ckpt = TRUE]
<1>1. ConnType(x) /\ x.pc = "idle" /\ shm' = shm /\ con' = [con EXCEPT ![c] = y]
  BY AtConn DEF CkptBegin, Pc, Put
<1> HIDE DEF e
<1>2. y.pc = "ckptHdr" /\ y.sp = x.sp
  BY <1>1 DEF ConnType, Goto, ConnFields
<1> HIDE DEF y
<1>3. /\ shm'.h0 = shm.h0 /\ shm'.h1 = shm.h1 /\ shm'.nBackfill = shm.nBackfill
      /\ con[c].pc \in Outside /\ y.sp = con[c].sp
  BY <1>1, <1>2 DEF Outside
<1>4. con' = [con EXCEPT ![c] = y]
  BY <1>1
<1> HIDE DEF x
<1> QED BY <1>2, <1>3, <1>4, PlainStep

LEMMA CkptHdrReadBack ==
  ASSUME TypeInv, BackInv, NEW c \in Conn, CkptHdr(c)
  PROVE  BackInv'
<1> DEFINE x == con[c]
<1>1. ConnType(x) /\ x.pc = "ckptHdr" /\ shm' = shm /\ HdrOK(shm.h0)
  BY AtConn DEF CkptHdr, Pc
<1>2. /\ shm'.h0 = shm.h0 /\ shm'.h1 = shm.h1 /\ shm'.nBackfill = shm.nBackfill
      /\ con[c].pc \notin {"restartHdr", "restartInfo", "commitHdr"}
  BY <1>1
<1>3. x.sp = NoSavepoint
  BY <1>1, AtBack DEF Writes, Restarting, Logging
<1>4. CASE GoodHdr /\ con' = [con EXCEPT ![c] = Goto(LoadHdr(x), "ckptTest")]
  <2> DEFINE y == Goto(LoadHdr(x), "ckptTest")
  <2>1. /\ ConnType(LoadHdr(x)) /\ LoadHdr(x).hdr = shm.h0 /\ LoadHdr(x).sp = x.sp
    BY <1>1, NewHdrFields DEF LoadHdr, ConnFields
  <2>2. y.pc = "ckptTest" /\ y.hdr = shm.h0 /\ y.sp = NoSavepoint
    BY <1>3, <2>1 DEF ConnType, Goto, ConnFields
  <2>3. con' = [con EXCEPT ![c] = y]
    BY <1>4
  <2> HIDE DEF y, x
  <2>4. HdrsAgree(shm) /\ y.pc \in Copying
    BY <1>4, <2>2 DEF GoodHdr, HdrsAgree, Copying
  <2>5. BackOK(c, y, shm)
    BY <2>2, <2>4, CopyOK
  <2> QED BY <1>2, <2>3, <2>5, BackStep
<1>5. CASE con' = [con EXCEPT ![c] = [Goto(x, "retryHdr") EXCEPT !.excl = @ \cup {WRITE}]]
  <2> DEFINE y == [Goto(x, "retryHdr") EXCEPT !.excl = @ \cup {WRITE}]
  <2>1. y.pc = "retryHdr" /\ y.sp = NoSavepoint
    BY <1>1, <1>3 DEF ConnType, Goto, ConnFields
  <2>2. con' = [con EXCEPT ![c] = y]
    BY <1>5
  <2> HIDE DEF y, x
  <2>3. BackOK(c, y, shm)
    BY <2>1, Plain
  <2> QED BY <1>2, <2>2, <2>3, BackStep
<1>6. CASE con' = [con EXCEPT ![c] = Goto(x, "ckptEnd")]
  <2> DEFINE y == Goto(x, "ckptEnd")
  <2>1. y.pc = "ckptEnd" /\ y.sp = NoSavepoint
    BY <1>1, <1>3 DEF ConnType, Goto, ConnFields
  <2>2. con' = [con EXCEPT ![c] = y]
    BY <1>6
  <2> HIDE DEF y, x
  <2>3. BackOK(c, y, shm)
    BY <2>1, Plain
  <2> QED BY <1>2, <2>2, <2>3, BackStep
<1> QED BY <1>4, <1>5, <1>6 DEF CkptHdr, Put

LEMMA CkptTestedBack ==
  ASSUME TypeInv, BackInv, NEW c \in Conn, CkptTest(c)
  PROVE  BackInv'
<1> DEFINE x == con[c]
<1>1. ConnType(x) /\ x.pc = "ckptTest" /\ shm' = shm
  BY AtConn DEF CkptTest, Pc
<1>2. /\ shm'.h0 = shm.h0 /\ shm'.h1 = shm.h1 /\ shm'.nBackfill = shm.nBackfill
      /\ con[c].pc \in Copying
  BY <1>1 DEF Copying
<1>3. CASE con' = [con EXCEPT ![c] = Goto(x, "ckptEnd")]
  <2> DEFINE y == Goto(x, "ckptEnd")
  <2>1. y.pc = "ckptEnd" /\ y.sp = x.sp /\ y.hdr = x.hdr
    BY <1>1 DEF ConnType, Goto, ConnFields
  <2>2. con' = [con EXCEPT ![c] = y] /\ y.sp = con[c].sp /\ y.hdr = con[c].hdr
    BY <1>3, <2>1
  <2> HIDE DEF y, x
  <2> QED BY <1>2, <2>1, <2>2, CopyStep
<1>4. CASE con' = [con EXCEPT ![c] = [Goto(x, "ckptMark") EXCEPT !.w.iter = Iterator(x.hdr.mx),
                                        !.w.safe = x.hdr.mx, !.w.mxI = 1]]
  <2> DEFINE y == [Goto(x, "ckptMark") EXCEPT !.w.iter = Iterator(x.hdr.mx),
                                        !.w.safe = x.hdr.mx, !.w.mxI = 1]
  <2>1. y.pc = "ckptMark" /\ y.sp = x.sp /\ y.hdr = x.hdr /\ y.w.safe = x.hdr.mx
    BY <1>1 DEF ConnType, Goto, ConnFields, WorkOK, WorkFields
  <2>2. con' = [con EXCEPT ![c] = y] /\ y.sp = con[c].sp /\ y.hdr = con[c].hdr
    BY <1>4, <2>1
  <2>3. y.w.safe <= y.hdr.mx
    <3>1. x.hdr.mx \in Nat
      BY <1>1 DEF ConnType, HdrOK
    <3> QED BY <2>1, <3>1
  <2>4. y.pc \in Copying
    BY <2>1 DEF Copying
  <2> HIDE DEF y, x
  <2> QED BY <1>2, <2>2, <2>3, <2>4, CopyStep
<1> QED BY <1>3, <1>4 DEF CkptTest, Put

LEMMA CkptMarkedBack ==
  ASSUME TypeInv, BackInv, NEW c \in Conn, CkptMark(c)
  PROVE  BackInv'
<1> DEFINE x    == con[c]
           i    == x.w.mxI
           m    == shm.mark[i]
           busy == ~ExclFree(c, {READ(i)})
           s    == SafeFrame(x.w.safe, m, busy)
           pc   == IF i + 1 \in Marks THEN "ckptMark" ELSE "ckptLock0"
           j    == IF i + 1 \in Marks THEN i + 1 ELSE 0
           y    == [Goto(x, pc) EXCEPT !.w.safe = s, !.w.mxI = j]
<1>1. /\ ConnType(x) /\ Phase(c, x) /\ x.pc = "ckptMark"
      /\ con' = [con EXCEPT ![c] = [Goto(x, pc) EXCEPT !.w.safe = SafeFrame(@, m, busy),
                                                       !.w.mxI = j]]
  BY AtConn DEF CkptMark, Pc, Put
<1>2. shm' = IF x.w.safe > m /\ ~busy
             THEN [shm EXCEPT !.mark[i] = IF i = 1 THEN x.w.safe ELSE NotUsed] ELSE shm
  BY DEF CkptMark
<1>3. con' = [con EXCEPT ![c] = y]
  <2>1. Goto(x, pc).w.safe = x.w.safe /\ "safe" \in DOMAIN Goto(x, pc).w
        /\ "w" \in DOMAIN Goto(x, pc)
    BY <1>1 DEF ConnType, Goto, ConnFields, WorkOK, WorkFields
  <2> HIDE DEF pc, j, m, busy
  <2> QED BY <1>1, <2>1
<1>4. i \in Marks /\ x.w.safe \in 0..MaxFrame
  BY <1>1 DEF Phase, ConnType, WorkOK
<1>5. ShmInv /\ m \in 0..NotUsed
  BY <1>4 DEF TypeInv, ShmInv
<1>6. s <= x.w.safe
  BY <1>4, <1>5, Constants DEF SafeFrame
<1>7. s \in Int /\ x.w.safe \in Int /\ x.hdr.mx \in Int
  BY <1>1, <1>4, <1>5, Constants DEF SafeFrame, ConnType, HdrOK
<1>8. /\ shm'.h0 = shm.h0 /\ shm'.h1 = shm.h1 /\ shm'.nBackfill = shm.nBackfill
  BY <1>2, <1>5 DEF ShmInv
<1>9. pc \in {"ckptMark", "ckptLock0"}
  OBVIOUS
<1> HIDE DEF s, pc, j
<1>10. y.pc = pc /\ y.hdr = x.hdr /\ y.sp = x.sp /\ y.w.safe = s
  BY <1>1 DEF ConnType, Goto, ConnFields, WorkOK, WorkFields
<1> HIDE DEF y
<1>11. con[c].pc \in Copying /\ con[c].w.safe <= con[c].hdr.mx
  BY <1>1, InCopy DEF Copying
<1>12. y.pc \in Copying /\ y.w.safe <= y.hdr.mx /\ y.hdr = con[c].hdr /\ y.sp = con[c].sp
  BY <1>6, <1>7, <1>9, <1>10, <1>11 DEF Copying
<1> HIDE DEF x
<1> QED BY <1>3, <1>8, <1>11, <1>12, CopyStep

LEMMA CkptLocked0Back ==
  ASSUME TypeInv, BackInv, NEW c \in Conn, CkptLock0(c)
  PROVE  BackInv'
<1> DEFINE x  == con[c]
           go == shm.nBackfill < x.w.safe /\ ExclFree(c, {READ(0)})
<1>1. ConnType(x) /\ x.pc = "ckptLock0" /\ shm' = shm
  BY AtConn DEF CkptLock0, Pc
<1>2. /\ shm'.h0 = shm.h0 /\ shm'.h1 = shm.h1 /\ shm'.nBackfill = shm.nBackfill
      /\ con[c].pc \in Copying /\ con[c].w.safe <= con[c].hdr.mx
  BY <1>1, InCopy DEF Copying
<1>3. CASE go
  <2>1. PICK iter : con' = [con EXCEPT ![c] = [Goto(x, "ckptWrite") EXCEPT
                              !.excl = @ \cup {READ(0)}, !.w.iter = iter]]
    BY <1>3 DEF CkptLock0, Put
  <2> DEFINE y == [Goto(x, "ckptWrite") EXCEPT !.excl = @ \cup {READ(0)}, !.w.iter = iter]
  <2>2. y.pc = "ckptWrite" /\ y.sp = x.sp /\ y.hdr = x.hdr /\ y.w.safe = x.w.safe
    BY <1>1 DEF ConnType, Goto, ConnFields, WorkOK, WorkFields
  <2>3. con' = [con EXCEPT ![c] = y]
    BY <2>1
  <2> HIDE DEF y
  <2>4. y.pc \in Copying /\ y.w.safe <= y.hdr.mx /\ y.hdr = con[c].hdr /\ y.sp = con[c].sp
    BY <1>2, <2>2 DEF Copying
  <2> HIDE DEF x
  <2> QED BY <1>2, <2>3, <2>4, CopyStep
<1>4. CASE ~go
  <2> DEFINE y == Goto(x, "ckptEnd")
  <2>1. y.pc = "ckptEnd" /\ y.sp = x.sp /\ y.hdr = x.hdr
    BY <1>1 DEF ConnType, Goto, ConnFields
  <2>2. con' = [con EXCEPT ![c] = y] /\ y.sp = con[c].sp /\ y.hdr = con[c].hdr
    BY <1>4, <2>1 DEF CkptLock0, Put
  <2> HIDE DEF y, x
  <2> QED BY <1>2, <2>1, <2>2, CopyStep
<1> QED BY <1>3, <1>4

LEMMA CkptWrittenBack ==
  ASSUME TypeInv, BackInv, NEW c \in Conn, CkptWrite(c)
  PROVE  BackInv'
<1> DEFINE x == con[c]
<1>1. ConnType(x) /\ x.pc = "ckptWrite" /\ shm' = shm
  BY AtConn DEF CkptWrite, Pc
<1>2. /\ shm'.h0 = shm.h0 /\ shm'.h1 = shm.h1 /\ shm'.nBackfill = shm.nBackfill
      /\ con[c].pc \in Copying /\ con[c].w.safe <= con[c].hdr.mx
  BY <1>1, InCopy DEF Copying
<1>3. PICK f : con' = [con EXCEPT ![c] = [x EXCEPT !.w.iter[f] = 0]]
  BY DEF CkptWrite, Put
<1> DEFINE y == [x EXCEPT !.w.iter[f] = 0]
<1>4. y.pc = "ckptWrite" /\ y.sp = x.sp /\ y.hdr = x.hdr /\ y.w.safe = x.w.safe
  BY <1>1 DEF ConnType, Goto, ConnFields, WorkOK, WorkFields
<1>5. con' = [con EXCEPT ![c] = y]
  BY <1>3
<1> HIDE DEF y
<1>6. y.pc \in Copying /\ y.w.safe <= y.hdr.mx /\ y.hdr = con[c].hdr /\ y.sp = con[c].sp
  BY <1>2, <1>4 DEF Copying
<1> HIDE DEF x
<1> QED BY <1>2, <1>5, <1>6, CopyStep

LEMMA CkptFinishedBack ==
  ASSUME TypeInv, BackInv, NEW c \in Conn, CkptDone(c)
  PROVE  BackInv'
<1> DEFINE x == con[c]
           y == [Goto(x, "ckptEnd") EXCEPT !.excl = @ \ {READ(0)}]
<1>1. ConnType(x) /\ Phase(c, x) /\ x.pc = "ckptWrite" /\ con' = [con EXCEPT ![c] = y]
  BY AtConn DEF CkptDone, Pc, Put
<1>2. shm'.h0 = shm.h0 /\ shm'.h1 = shm.h1 /\ shm'.nBackfill = x.w.safe
  BY DEF CkptDone, TypeInv, ShmInv
<1>3. HdrsAgree(shm) /\ x.hdr = shm.h0 /\ x.sp = NoSavepoint /\ x.w.safe <= x.hdr.mx
  BY <1>1, InCopy DEF Copying
<1>4. y.pc = "ckptEnd" /\ y.sp = x.sp
  BY <1>1 DEF ConnType, Goto, ConnFields
<1> HIDE DEF y
<1>5. CKPT \in x.excl
  BY <1>1, InCkpt DEF Checkpointing
<1>6. con'[c] = y /\ \A d \in Conn \ {c} : con'[d] = con[d]
  BY <1>1, StepOf
<1>7. ASSUME NEW d \in Conn PROVE BackOK(d, con'[d], shm')
  <2>1. CASE d = c
    <3>1. BackOK(c, y, shm')
      BY <1>3, <1>4, Plain
    <3> QED BY <1>6, <2>1, <3>1
  <2>2. CASE d # c
    <3>1. BackOK(d, con[d], shm) /\ Phase(d, con[d])
      BY AtConn DEF BackInv
    <3>2. CKPT \notin con[d].excl
      BY <1>5, <2>2 DEF TypeInv, LockInv
    <3>3. con[d].pc \notin Recovering
      BY <3>1, <3>2, Constants DEF Phase, CKPT, AllLocks
    <3>4. BackOK(d, con[d], shm')
      BY <1>2, <3>1, <3>3 DEF BackOK, HdrsAgree
    <3> QED BY <1>6, <2>2, <3>4
  <2> QED BY <2>1, <2>2
<1>8. shm'.nBackfill <= shm'.h0.mx /\ HdrsAgree(shm')
  BY <1>2, <1>3 DEF HdrsAgree
<1> QED BY <1>7, <1>8 DEF BackInv

\* Every connection is closed, and the wal-index gone.
LEMMA NobodyOK == ASSUME NEW c, NEW s PROVE BackOK(c, Closed, s) /\ BackOK(c, Connected, s)
<1>1. /\ Closed.pc = "closed" /\ Closed.sp = NoSavepoint
      /\ Connected.pc = "idle" /\ Connected.sp = NoSavepoint
  BY DEF Closed, Connected
<1> QED BY <1>1, Plain

LEMMA EmptyHdrs == EmptyShm.nBackfill = 0 /\ EmptyShm.nBackfill <= EmptyShm.h0.mx
<1>1. EmptyShm.nBackfill = 0 /\ EmptyShm.h0.mx = 0
  BY DEF EmptyShm, NoHdr, Hdr
<1> QED BY <1>1

LEMMA AllClosedBack ==
  ASSUME \A c \in Conn : con'[c] = Closed, shm' = EmptyShm
  PROVE  BackInv'
<1>1. shm'.nBackfill = 0 /\ shm'.nBackfill <= shm'.h0.mx
  BY EmptyHdrs
<1>2. \A c \in Conn : BackOK(c, con'[c], shm')
  BY NobodyOK
<1> QED BY <1>1, <1>2 DEF BackInv

LEMMA CkptLeftBack ==
  ASSUME TypeInv, BackInv, NEW c \in Conn, CkptEnd(c)
  PROVE  BackInv'
<1> DEFINE x == con[c]
<1>1. ConnType(x) /\ Phase(c, x) /\ x.pc = "ckptEnd"
  BY AtConn DEF CkptEnd, Pc
<1>2. CASE x.w.close
  <2>1. con' = [con EXCEPT ![c] = Closed] /\ shm' = EmptyShm
    BY <1>2 DEF CkptEnd, Put
  <2>2. ASSUME NEW d \in Conn PROVE con'[d] = Closed
    <3>1. con'[c] = Closed /\ \A e \in Conn \ {c} : con'[e] = con[e]
      BY <2>1, StepOf
    <3>2. CASE d # c
      <4>1. con[d].pc = "closed"
        BY <1>2, <3>2 DEF TypeInv, LockInv
      <4>2. con[d] = Closed
        BY <4>1, AtConn DEF Phase
      <4> QED BY <3>1, <3>2, <4>2
    <3> QED BY <3>1, <3>2
  <2> QED BY <2>1, <2>2, AllClosedBack
<1>3. CASE ~x.w.close
  <2> DEFINE y == AfterCkpt(x)
  <2>1. con' = [con EXCEPT ![c] = y] /\ shm' = shm
    BY <1>3 DEF CkptEnd, Put
  <2>2. y.pc = "idle" /\ y.sp = NoSavepoint
    BY DEF AfterCkpt, Ended, Connected
  <2> HIDE DEF y
  <2>3. BackOK(c, y, shm)
    BY <2>2, Plain
  <2>4. /\ shm'.h0 = shm.h0 /\ shm'.h1 = shm.h1 /\ shm'.nBackfill = shm.nBackfill
        /\ con[c].pc \notin {"restartHdr", "restartInfo", "commitHdr"}
    BY <1>1, <2>1
  <2> HIDE DEF x
  <2> QED BY <2>1, <2>3, <2>4, BackStep
<1> QED BY <1>2, <1>3

LEMMA OpenedBack ==
  ASSUME TypeInv, BackInv, NEW c \in Conn, Open(c)
  PROVE  BackInv'
<1>1. con[c].pc = "closed" /\ con' = [con EXCEPT ![c] = Connected] /\ shm' = shm
  BY DEF Open, Put, Pc
<1>2. /\ shm'.h0 = shm.h0 /\ shm'.h1 = shm.h1 /\ shm'.nBackfill = shm.nBackfill
      /\ con[c].pc \notin {"restartHdr", "restartInfo", "commitHdr"}
  BY <1>1
<1> QED BY <1>1, <1>2, NobodyOK, BackStep

LEMMA CloseBegunBack ==
  ASSUME TypeInv, BackInv, NEW c \in Conn, Close(c)
  PROVE  BackInv'
<1> DEFINE x == con[c]
<1>1. ConnType(x) /\ x.pc = "idle" /\ shm' = shm
  BY AtConn DEF Close, Pc
<1>2. /\ shm'.h0 = shm.h0 /\ shm'.h1 = shm.h1 /\ shm'.nBackfill = shm.nBackfill
      /\ con[c].pc \notin {"restartHdr", "restartInfo", "commitHdr"}
  BY <1>1
<1>3. x.sp = NoSavepoint
  BY <1>1, AtBack DEF Writes, Restarting, Logging
<1>4. CASE con' = [con EXCEPT ![c] = [Goto(x, "ckptHdr") EXCEPT
                     !.excl = {CKPT}, !.w.ckpt = TRUE, !.w.close = TRUE]]
  <2> DEFINE y == [Goto(x, "ckptHdr") EXCEPT !.excl = {CKPT}, !.w.ckpt = TRUE, !.w.close = TRUE]
  <2>1. y.pc = "ckptHdr" /\ y.sp = NoSavepoint
    BY <1>1, <1>3 DEF ConnType, Goto, ConnFields
  <2>2. con' = [con EXCEPT ![c] = y]
    BY <1>4
  <2> HIDE DEF y, x
  <2>3. BackOK(c, y, shm)
    BY <2>1, Plain
  <2> QED BY <1>2, <2>2, <2>3, BackStep
<1>5. CASE con' = [con EXCEPT ![c] = Closed]
  <2> HIDE DEF x
  <2> QED BY <1>2, <1>5, NobodyOK, BackStep
<1> QED BY <1>4, <1>5 DEF Close, Put

\* The connection that writes and checkpoints dies with all the others, or not.
LEMMA KilledBack ==
  ASSUME OneWriter, TypeInv, BackInv, NEW P \in Mortal, Kill(P)
  PROVE  BackInv'
<1>1. /\ con' = [c \in Conn |-> IF c \in P THEN Closed ELSE con[c]]
      /\ shm' = Left(OpenConn \ P)
  BY DEF Kill
<1>2. CASE OpenConn \ P = {}
  <2>1. ASSUME NEW d \in Conn PROVE con'[d] = Closed
    <3>1. CASE d \in P
      BY <1>1, <3>1
    <3>2. CASE d \notin P
      <4>1. con[d].pc = "closed"
        BY <1>2, <3>2 DEF OpenConn, Pc
      <4>2. con[d] = Closed
        BY <4>1, AtConn DEF Phase
      <4> QED BY <1>1, <3>2, <4>2
    <3> QED BY <3>1, <3>2
  <2>2. shm' = EmptyShm
    BY <1>1, <1>2 DEF Left
  <2> QED BY <2>1, <2>2, AllClosedBack
<1>3. CASE OpenConn \ P # {}
  <2>1. shm' = shm
    BY <1>1, <1>3 DEF Left
  <2>2. PICK w \in Conn : Writers \subseteq {w} /\ (w \in P => Conn \subseteq P)
    BY DEF OneWriter
  <2>3. w \notin P
    BY <1>3, <2>2 DEF OpenConn
  <2>4. ASSUME NEW d \in Conn PROVE BackOK(d, con'[d], shm')
    <3>1. con'[d] = Closed \/ con'[d] = con[d]
      BY <1>1
    <3>2. BackOK(d, con[d], shm)
      BY DEF BackInv
    <3> QED BY <2>1, <3>1, <3>2, NobodyOK
  <2>5. ASSUME NEW d \in Conn, con[d].pc \in {"restartHdr", "restartInfo", "commitHdr"}
        PROVE  con'[d].pc = con[d].pc
    <3>1. BackOK(d, con[d], shm)
      BY DEF BackInv
    <3>2. d \in Writers
      BY <2>5, <3>1 DEF BackOK, Writes, Restarting, Logging
    <3>3. d \notin P
      BY <2>2, <2>3, <3>2
    <3> QED BY <1>1, <3>3
  <2>6. shm'.nBackfill <= shm'.h0.mx \/ \E d \in Conn : con'[d].pc = "restartInfo"
    BY <2>1, <2>5 DEF BackInv
  <2>7. \/ shm'.nBackfill = 0 \/ HdrsAgree(shm')
        \/ \E d \in Conn : con'[d].pc \in {"restartHdr", "commitHdr"}
    BY <2>1, <2>5 DEF BackInv
  <2> QED BY <2>4, <2>6, <2>7 DEF BackInv
<1> QED BY <1>2, <1>3

LEMMA PowerLostBack == PowerLoss => BackInv'
<1> SUFFICES ASSUME PowerLoss PROVE BackInv'
  OBVIOUS
<1>1. con' = [c \in Conn |-> Closed] /\ shm' = EmptyShm
  BY DEF PowerLoss
<1>2. \A c \in Conn : con'[c] = Closed
  BY <1>1
<1> QED BY <1>1, <1>2, AllClosedBack

LEMMA BackInit == Init => BackInv
<1> SUFFICES ASSUME Init PROVE BackInv
  OBVIOUS
<1>1. con = [c \in Conn |-> Connected] /\ shm = EmptyShm
  BY DEF Init
<1>2. \A c \in Conn : BackOK(c, con[c], shm)
  BY <1>1, NobodyOK
<1> QED BY <1>1, <1>2, EmptyHdrs DEF BackInv

LEMMA BackNext == OneWriter /\ TypeInv /\ BackInv /\ [Next]_vars => BackInv'
<1> SUFFICES ASSUME OneWriter, TypeInv, BackInv, [Next]_vars PROVE BackInv'
  OBVIOUS
<1>1. CASE UNCHANGED vars
  BY <1>1 DEF vars, BackInv, BackOK, HdrsAgree
<1>2. CASE PowerLoss
  BY <1>2, PowerLostBack
<1>3. ASSUME NEW P \in Mortal, Kill(P) PROVE BackInv'
  BY <1>3, KilledBack
<1>4. ASSUME NEW c \in Conn,
             \/ BeginRead(c) \/ RetryHdr(c) \/ Recover(c) \/ RecoverHdr(c) \/ RecoverInfo(c)
             \/ Choose(c) \/ Lock0(c) \/ Pick(c) \/ LockMark(c) \/ EndRead(c)
      PROVE  BackInv'
  BY <1>4, BegunBack, HdrRetriedBack, RecoveredBack, HdrRecoveredBack, InfoRecoveredBack,
     ChosenBack, Locked0Back, PickedBack, MarkLockedBack, ReadEndedBack
<1>5. ASSUME NEW c \in Conn,
             \/ BeginWrite(c) \/ RestartLog(c) \/ RestartHdr(c) \/ RestartInfo(c)
             \/ WriteLogHdr(c) \/ SyncLogHdr(c) \/ WriteFrame(c) \/ EndFrames(c) \/ CommitHdr(c)
             \/ Rollback(c) \/ Savepoint(c) \/ SavepointUndo(c)
      PROVE  BackInv'
  BY <1>5, WriteBegunBack, LogRestartedBack, RestartedHdrBack, RestartedInfoBack,
     LogHdrWrittenBack, LogHdrSyncedBack, FrameWrittenBack, FramesEndedBack, HdrCommittedBack,
     RolledBackBack, SavedBack, SavepointUndoneBack
<1>6. ASSUME NEW c \in Conn,
             \/ CkptHdr(c) \/ CkptTest(c) \/ CkptMark(c) \/ CkptLock0(c) \/ CkptWrite(c)
             \/ CkptDone(c) \/ CkptEnd(c) \/ Open(c) \/ Close(c)
             \/ \E block \in BOOLEAN : CkptBegin(c, block)
      PROVE  BackInv'
  BY <1>6, CkptHdrReadBack, CkptTestedBack, CkptMarkedBack, CkptLocked0Back, CkptWrittenBack,
     CkptFinishedBack, CkptLeftBack, OpenedBack, CloseBegunBack, CkptBegunBack
<1>7. ASSUME NEW c \in Conn, NEW S \in SUBSET (1..MaxPage), NEW n \in 0..MaxPage, NEW commit,
             Frames(c, S, n, commit)
      PROVE  BackInv'
  BY <1>7, FramesBegunBack
<1>8. 0 \in 0..MaxPage /\ 1..MaxPage \subseteq 0..MaxPage
  BY Constants
<1> QED BY Zenon, <1>1, <1>2, <1>3, <1>4, <1>5, <1>6, <1>7, <1>8 DEF Next

\* The backfill count that walCheckpoint leaves in the wal-index never exceeds the
\* number of frames of the log, but while walRestartLog holds the read locks
\* between its header and the count: a reader that compares the two
\* (walTryBeginRead), and a writer that restarts the log because they are equal,
\* never act on a count that belongs to an earlier log.  One connection writes
\* and checkpoints, as the primary connection of the pool does, and it does not
\* die without the others.
THEOREM BackfillInLog ==
  ASSUME OneWriter
  PROVE  Spec => []BackfillBound
<1>1. Init => TypeInv /\ BackInv
  BY TypeInit, BackInit
<1>2. TypeInv /\ BackInv /\ [Next]_vars => (TypeInv /\ BackInv)'
  BY TypeNext, BackNext
<1>3. TypeInv /\ BackInv => BackfillBound
  BY BackInvGivesBound
<1> QED BY <1>1, <1>2, <1>3, PTL DEF Spec


-----------------------------------------------------------------------------
(* What the steps of a connection do to it, field by field.                   *)

\* Only c moves.
Only(c) == \A d \in Conn \ {c} : con'[d] = con[d]

\* y is x in another phase, perhaps with other locks.
Moved(y, x) == /\ y.hdr = x.hdr /\ y.lock = x.lock /\ y.nCkpt = x.nCkpt
               /\ y.cache = x.cache /\ y.image = x.image /\ y.sp = x.sp /\ y.w = x.w

\* y is x with the header h, and perhaps other locks.
Loaded(y, x, h) ==
  /\ y.hdr = h /\ y.lock = x.lock /\ y.nCkpt = x.nCkpt /\ y.image = x.image /\ y.sp = x.sp
  /\ \A f \in WorkFields \ {"changed"} : y.w[f] = x.w[f]
  /\ x.w.ckpt => y.cache = x.cache /\ (y.w.changed <=> (x.w.changed \/ x.hdr # h))
  /\ ~x.w.ckpt => /\ y.w = x.w
                  /\ y.cache = IF x.hdr # h THEN NoImage ELSE x.cache

LEMMA MovedTo ==
  ASSUME NEW x, ConnType(x), NEW pc
  PROVE  Goto(x, pc).pc = pc /\ Goto(x, pc).excl = x.excl /\ Moved(Goto(x, pc), x)
BY DEF ConnType, Goto, ConnFields, Moved

LEMMA LoadedBy ==
  ASSUME NEW x, ConnType(x), NEW h, NEW y, NewHdr(x, h).hdr = y.hdr, NewHdr(x, h).lock = y.lock,
         NewHdr(x, h).nCkpt = y.nCkpt, NewHdr(x, h).image = y.image, NewHdr(x, h).sp = y.sp,
         NewHdr(x, h).w = y.w, NewHdr(x, h).cache = y.cache
  PROVE  Loaded(y, x, h)
<1>1. DOMAIN x = ConnFields /\ DOMAIN x.w = WorkFields
  BY DEF ConnType, WorkOK
<1>2. CASE x.w.ckpt
  <2> DEFINE z == [x EXCEPT !.hdr = h, !.w.changed = @ \/ x.hdr # h]
  <2>1. NewHdr(x, h) = z
    BY <1>2 DEF NewHdr, HdrChanged
  <2>2. /\ z.hdr = h /\ z.lock = x.lock /\ z.nCkpt = x.nCkpt /\ z.image = x.image
        /\ z.sp = x.sp /\ z.cache = x.cache /\ z.w = [x.w EXCEPT !.changed = @ \/ x.hdr # h]
    BY <1>1 DEF ConnFields
  <2> HIDE DEF z
  <2>3. /\ \A f \in WorkFields \ {"changed"} : z.w[f] = x.w[f]
        /\ z.w.changed <=> (x.w.changed \/ x.hdr # h)
    BY <1>1, <2>2 DEF WorkFields
  <2> QED BY <1>2, <2>1, <2>2, <2>3 DEF Loaded
<1>3. CASE ~x.w.ckpt
  <2> DEFINE z == [x EXCEPT !.hdr = h, !.cache = IF x.hdr # h THEN NoImage ELSE @]
  <2>1. NewHdr(x, h) = z
    BY <1>3 DEF NewHdr, HdrChanged
  <2>2. /\ z.hdr = h /\ z.lock = x.lock /\ z.nCkpt = x.nCkpt /\ z.image = x.image
        /\ z.sp = x.sp /\ z.w = x.w /\ z.cache = IF x.hdr # h THEN NoImage ELSE x.cache
    BY <1>1 DEF ConnFields
  <2> HIDE DEF z
  <2> QED BY <1>3, <2>1, <2>2 DEF Loaded
<1> QED BY <1>2, <1>3

LEMMA BeginReadEffect ==
  ASSUME TypeInv, NEW c \in Conn, BeginRead(c)
  PROVE  LET x == con[c]  y == con'[c] IN
         /\ Only(c) /\ UNCHANGED <<shm, log, file, past>> /\ x.pc = "idle" /\ x.excl = {}
         /\ ~x.w.ckpt
         /\ \/ GoodHdr /\ y.pc = "choose" /\ Loaded(y, x, shm.h0) /\ y.excl = {}
            \/ /\ ~GoodHdr /\ y.pc = "retryHdr" /\ y.excl = {WRITE} /\ ExclFree(c, {WRITE})
               /\ Moved(y, x)
<1> DEFINE x == con[c]
<1>1. ConnType(x) /\ Phase(c, x) /\ HdrOK(shm.h0)
  BY AtConn
<1>2. x.pc = "idle" /\ UNCHANGED <<shm, log, file, past>>
  BY DEF BeginRead, Pc
<1>3. x.excl = {} /\ ~x.w.ckpt
  BY <1>1, <1>2 DEF Phase, Outside, Checkpointing, Recovering
<1>4. CASE GoodHdr /\ con' = [con EXCEPT ![c] = Goto(LoadHdr(x), "choose")]
  <2> DEFINE y == Goto(LoadHdr(x), "choose")
  <2>1. ConnType(LoadHdr(x)) /\ LoadHdr(x).excl = x.excl
    BY <1>1, NewHdrFields DEF LoadHdr, ConnFields
  <2>2. y.pc = "choose" /\ y.excl = x.excl /\ Moved(y, LoadHdr(x))
    BY <2>1, MovedTo
  <2>3. con'[c] = y /\ Only(c)
    BY <1>4, StepOf DEF Only
  <2> HIDE DEF y
  <2>4. Loaded(y, x, shm.h0)
    BY <1>1, <2>2, LoadedBy DEF LoadHdr, Moved
  <2> QED BY <1>2, <1>3, <1>4, <2>1, <2>2, <2>3, <2>4 DEF Moved
<1>5. CASE ~GoodHdr /\ ExclFree(c, {WRITE})
           /\ con' = [con EXCEPT ![c] = [Goto(x, "retryHdr") EXCEPT !.excl = {WRITE}]]
  <2> DEFINE y == [Goto(x, "retryHdr") EXCEPT !.excl = {WRITE}]
  <2>1. y.pc = "retryHdr" /\ y.excl = {WRITE} /\ Moved(y, x)
    BY <1>1 DEF ConnType, Goto, ConnFields, Moved
  <2>2. con'[c] = y /\ Only(c)
    BY <1>5, StepOf DEF Only
  <2> HIDE DEF y
  <2> QED BY <1>2, <1>3, <1>5, <2>1, <2>2
<1> QED BY <1>4, <1>5 DEF BeginRead, Put

LEMMA RetryHdrEffect ==
  ASSUME TypeInv, NEW c \in Conn, RetryHdr(c)
  PROVE  LET x == con[c]  y == con'[c] IN
         /\ Only(c) /\ UNCHANGED <<shm, log, file, past>> /\ x.pc = "retryHdr"
         /\ WRITE \in x.excl /\ x.lock = 0 - 1
         /\ \/ /\ GoodHdr /\ y.pc = IF x.w.ckpt THEN "ckptTest" ELSE "choose"
               /\ Loaded(y, x, shm.h0) /\ y.excl = x.excl \ {WRITE}
            \/ /\ ~GoodHdr /\ ExclFree(c, AllLocks \ x.excl) /\ y.pc = "recover"
               /\ y.excl = AllLocks /\ Moved(y, x)
            \/ /\ x.w.ckpt /\ y.pc = "ckptEnd" /\ y.excl = x.excl \ {WRITE} /\ Moved(y, x)
            \/ /\ ~x.w.ckpt /\ y.pc = "idle" /\ y.excl = {} /\ y.w = NoWork
               /\ y.hdr = x.hdr /\ y.lock = x.lock /\ y.nCkpt = x.nCkpt /\ y.cache = x.cache
               /\ y.image = x.image /\ y.sp = x.sp
<1> DEFINE x == con[c]
<1>1. ConnType(x) /\ Phase(c, x) /\ HdrOK(shm.h0)
  BY AtConn
<1>2. x.pc = "retryHdr" /\ UNCHANGED <<shm, log, file, past>>
  BY DEF RetryHdr, Pc
<1>3. WRITE \in x.excl /\ x.lock = 0 - 1 /\ (~x.w.ckpt => x.excl = {WRITE})
  BY <1>1, <1>2 DEF Phase, Logging, Restarting
<1>4. ASSUME GoodHdr PROVE
        LET y == con'[c] IN
        /\ Only(c) /\ y.pc = IF x.w.ckpt THEN "ckptTest" ELSE "choose"
        /\ Loaded(y, x, shm.h0) /\ y.excl = x.excl \ {WRITE}
  <2> DEFINE z == Goto(LoadHdr(x), IF x.w.ckpt THEN "ckptTest" ELSE "choose")
             y == [z EXCEPT !.excl = @ \ {WRITE}]
  <2>1. ConnType(LoadHdr(x)) /\ LoadHdr(x).excl = x.excl
    BY <1>1, NewHdrFields DEF LoadHdr, ConnFields
  <2>2. /\ z.pc = IF x.w.ckpt THEN "ckptTest" ELSE "choose"
        /\ z.excl = x.excl /\ Moved(z, LoadHdr(x)) /\ ConnType(z)
    BY <2>1, MovedTo, GotoFields
  <2>3. con'[c] = y /\ Only(c)
    BY <1>4, StepOf DEF Only, RetryHdr, Put
  <2> HIDE DEF z
  <2>4. y.pc = z.pc /\ y.excl = z.excl \ {WRITE} /\ Moved(y, z)
    BY <2>2 DEF ConnType, ConnFields, Moved
  <2> HIDE DEF y
  <2>5. Loaded(y, x, shm.h0)
    BY <1>1, <2>2, <2>4, LoadedBy DEF LoadHdr, Moved
  <2> QED BY <2>2, <2>3, <2>4, <2>5
<1>5. ASSUME ~GoodHdr, ExclFree(c, AllLocks \ x.excl) PROVE
        LET y == con'[c] IN
        Only(c) /\ y.pc = "recover" /\ y.excl = AllLocks /\ Moved(y, x)
  <2> DEFINE y == [Goto(x, "recover") EXCEPT !.excl = AllLocks]
  <2>1. y.pc = "recover" /\ y.excl = AllLocks /\ Moved(y, x)
    BY <1>1 DEF ConnType, Goto, ConnFields, Moved
  <2>2. con'[c] = y /\ Only(c)
    BY <1>5, StepOf DEF Only, RetryHdr, Put
  <2> HIDE DEF y
  <2> QED BY <2>1, <2>2
<1>6. ASSUME ~GoodHdr, ~ExclFree(c, AllLocks \ x.excl) PROVE
        LET y == con'[c] IN
        /\ Only(c)
        /\ \/ x.w.ckpt /\ y.pc = "ckptEnd" /\ y.excl = x.excl \ {WRITE} /\ Moved(y, x)
           \/ /\ ~x.w.ckpt /\ y.pc = "idle" /\ y.excl = {} /\ y.w = NoWork
              /\ y.hdr = x.hdr /\ y.lock = x.lock /\ y.nCkpt = x.nCkpt /\ y.cache = x.cache
              /\ y.image = x.image /\ y.sp = x.sp
  <2>1. CASE x.w.ckpt
    <3> DEFINE y == [Goto(x, "ckptEnd") EXCEPT !.excl = @ \ {WRITE}]
    <3>1. y.pc = "ckptEnd" /\ y.excl = x.excl \ {WRITE} /\ Moved(y, x)
      BY <1>1 DEF ConnType, Goto, ConnFields, Moved
    <3>2. con'[c] = y /\ Only(c)
      BY <1>6, <2>1, StepOf DEF Only, RetryHdr, Put
    <3> HIDE DEF y
    <3> QED BY <2>1, <3>1, <3>2
  <2>2. CASE ~x.w.ckpt
    <3> DEFINE y == [Goto([x EXCEPT !.w = NoWork], "idle") EXCEPT !.excl = @ \ {WRITE}]
    <3>1. /\ y.pc = "idle" /\ y.excl = x.excl \ {WRITE} /\ y.w = NoWork
          /\ y.hdr = x.hdr /\ y.lock = x.lock /\ y.nCkpt = x.nCkpt /\ y.cache = x.cache
          /\ y.image = x.image /\ y.sp = x.sp
      BY <1>1 DEF ConnType, Goto, ConnFields
    <3>2. con'[c] = y /\ Only(c)
      BY <1>6, <2>2, StepOf DEF Only, RetryHdr, Put
    <3> HIDE DEF y
    <3> QED BY <1>3, <2>2, <3>1, <3>2
  <2> QED BY <2>1, <2>2
<1> QED BY <1>2, <1>3, <1>4, <1>5, <1>6

LEMMA RecoverEffect ==
  ASSUME TypeInv, NEW c \in Conn, Recover(c)
  PROVE  LET x == con[c]  y == con'[c] IN
         /\ Only(c) /\ UNCHANGED <<log, file, past>> /\ x.pc = "recover" /\ x.excl = AllLocks
         /\ y.pc = "recoverHdr" /\ y.excl = x.excl
         /\ y.hdr = RecoveredHdr(log.cur) /\ y.lock = x.lock /\ y.image = x.image
         /\ y.sp = x.sp /\ \A f \in WorkFields \ {"changed"} : y.w[f] = x.w[f]
         /\ y.cache = x.cache \/ y.cache = NoImage
         /\ shm'.h0 = shm.h0 /\ shm'.h1 = y.hdr /\ shm'.nBackfill = shm.nBackfill
         /\ shm'.mark = shm.mark
         /\ shm'.pgno = IF ValidFrames(log.cur) = 0 THEN shm.pgno
                        ELSE [f \in 1..MaxFrame |->
                                IF f <= ValidFrames(log.cur) THEN Last(log.cur.frames[f].sum).pg
                                ELSE 0]
<1> DEFINE x == con[c]
           h == RecoveredHdr(log.cur)
           z == [x EXCEPT !.hdr = NoHdr]
           k == IF HasFrames(log.cur) THEN log.cur.nCkpt ELSE x.nCkpt
           r == NewHdr(z, h)
           y == [Goto(r, "recoverHdr") EXCEPT !.nCkpt = k]
<1>1. ConnType(x) /\ Phase(c, x)
  BY AtConn
<1>2. x.pc = "recover" /\ UNCHANGED <<log, file, past>>
  BY DEF Recover, Pc
<1>3. HdrOK(h)
  BY RecoveredHdrOK DEF TypeInv, LogInv
<1>4. /\ shm'.h0 = shm.h0 /\ shm'.h1 = h /\ shm'.nBackfill = shm.nBackfill
      /\ shm'.mark = shm.mark
      /\ shm'.pgno = IF ValidFrames(log.cur) = 0 THEN shm.pgno
                     ELSE [f \in 1..MaxFrame |->
                             IF f <= ValidFrames(log.cur) THEN Last(log.cur.frames[f].sum).pg
                             ELSE 0]
  BY DEF Recover, TypeInv, ShmInv
<1> HIDE DEF h
<1>5. z.hdr = NoHdr /\ \A f \in ConnFields \ {"hdr"} : z[f] = x[f]
  BY <1>1 DEF ConnType
<1>6. ConnType(z)
  BY <1>1, <1>5, NothingDone DEF ConnType, ConnFields
<1> HIDE DEF z
<1>7. /\ ConnType(r) /\ r.hdr = h /\ \A f \in ConnFields \ {"hdr", "cache", "w"} : r[f] = z[f]
      /\ \A f \in WorkFields \ {"changed"} : r.w[f] = z.w[f]
      /\ Loaded(r, z, h)
  <2>1. ConnType(r) /\ r.hdr = h /\ \A f \in ConnFields \ {"hdr", "cache", "w"} : r[f] = z[f]
    BY <1>3, <1>6, NewHdrFields
  <2>2. \A f \in WorkFields \ {"changed"} : r.w[f] = z.w[f]
    BY <1>3, <1>6, NewHdrFields
  <2>3. Loaded(r, z, h)
    BY <1>6, LoadedBy
  <2> QED BY <2>1, <2>2, <2>3
<1> HIDE DEF r
<1>8. /\ y.pc = "recoverHdr" /\ y.hdr = r.hdr /\ y.lock = r.lock /\ y.image = r.image
      /\ y.sp = r.sp /\ y.w = r.w /\ y.cache = r.cache /\ y.excl = r.excl
  BY <1>7 DEF ConnType, Goto, ConnFields
<1>9. con'[c] = y /\ Only(c)
  <2>1. con' = [con EXCEPT ![c] = [Goto(r, "recoverHdr") EXCEPT
                    !.nCkpt = IF HasFrames(log.cur) THEN log.cur.nCkpt ELSE @]]
    BY DEF Recover, Put, r, z, h
  <2>2. Goto(r, "recoverHdr").nCkpt = x.nCkpt
    BY <1>5, <1>7, GotoFields DEF ConnFields
  <2>3. con' = [con EXCEPT ![c] = y]
    BY <2>1, <2>2
  <2> HIDE DEF y
  <2> QED BY <2>3, StepOf DEF Only
<1> HIDE DEF y
<1>10. x.excl = AllLocks
  BY <1>1, <1>2 DEF Phase, Recovering
<1>11. y.cache = x.cache \/ y.cache = NoImage
  BY <1>5, <1>7, <1>8 DEF Loaded, ConnFields
<1> QED BY <1>2, <1>4, <1>5, <1>7, <1>8, <1>9, <1>10, <1>11 DEF ConnFields, h

LEMMA RecoverHdrEffect ==
  ASSUME TypeInv, NEW c \in Conn, RecoverHdr(c)
  PROVE  LET x == con[c]  y == con'[c] IN
         /\ Only(c) /\ UNCHANGED <<log, file>> /\ x.pc = "recoverHdr" /\ x.excl = AllLocks
         /\ y.pc = "recoverInfo" /\ y.excl = x.excl /\ Moved(y, x)
         /\ shm'.h0 = x.hdr /\ shm'.h1 = shm.h1 /\ shm'.nBackfill = shm.nBackfill
         /\ shm'.mark = shm.mark /\ shm'.pgno = shm.pgno
         /\ past' = Saw(RecoveredImage(log.cur, file.cur))
<1> DEFINE x == con[c]
           y == Goto(x, "recoverInfo")
<1>1. ConnType(x) /\ Phase(c, x)
  BY AtConn
<1>2. x.pc = "recoverHdr" /\ UNCHANGED <<log, file>> /\ con' = [con EXCEPT ![c] = y]
      /\ past' = Saw(RecoveredImage(log.cur, file.cur))
  BY DEF RecoverHdr, Pc, Put
<1>3. y.pc = "recoverInfo" /\ y.excl = x.excl /\ Moved(y, x)
  BY <1>1, MovedTo
<1>4. shm'.h0 = x.hdr /\ shm'.h1 = shm.h1 /\ shm'.nBackfill = shm.nBackfill
      /\ shm'.mark = shm.mark /\ shm'.pgno = shm.pgno
  BY DEF RecoverHdr, TypeInv, ShmInv
<1> HIDE DEF y
<1>5. con'[c] = y /\ Only(c)
  BY <1>2, StepOf DEF Only
<1>6. x.excl = AllLocks
  BY <1>1, <1>2 DEF Phase, Recovering
<1> QED BY <1>2, <1>3, <1>4, <1>5, <1>6

LEMMA RecoverInfoEffect ==
  ASSUME TypeInv, NEW c \in Conn, RecoverInfo(c)
  PROVE  LET x == con[c]  y == con'[c] IN
         /\ Only(c) /\ UNCHANGED <<log, file, past>> /\ x.pc = "recoverInfo" /\ x.excl = AllLocks
         /\ y.pc = (IF x.w.ckpt THEN "ckptTest" ELSE "choose")
         /\ y.excl = (IF x.w.ckpt THEN {CKPT} ELSE {}) /\ Moved(y, x)
         /\ shm'.h0 = shm.h0 /\ shm'.h1 = shm.h1 /\ shm'.nBackfill = 0
         /\ shm'.pgno = shm.pgno
         /\ shm'.mark = [i \in Marks |-> IF i = 1 /\ x.hdr.mx > 0 THEN x.hdr.mx ELSE NotUsed]
<1> DEFINE x == con[c]
           y == [Goto(x, IF x.w.ckpt THEN "ckptTest" ELSE "choose") EXCEPT
                   !.excl = IF x.w.ckpt THEN {CKPT} ELSE {}]
<1>1. ConnType(x) /\ Phase(c, x)
  BY AtConn
<1>2. x.pc = "recoverInfo" /\ UNCHANGED <<log, file, past>> /\ con' = [con EXCEPT ![c] = y]
  BY DEF RecoverInfo, Pc, Put
<1>3. /\ y.pc = (IF x.w.ckpt THEN "ckptTest" ELSE "choose")
      /\ y.excl = (IF x.w.ckpt THEN {CKPT} ELSE {}) /\ Moved(y, x)
  BY <1>1 DEF ConnType, Goto, ConnFields, Moved
<1>4. /\ shm'.h0 = shm.h0 /\ shm'.h1 = shm.h1 /\ shm'.nBackfill = 0
      /\ shm'.pgno = shm.pgno
      /\ shm'.mark = [i \in Marks |-> IF i = 1 /\ x.hdr.mx > 0 THEN x.hdr.mx ELSE NotUsed]
  BY DEF RecoverInfo, TypeInv, ShmInv
<1> HIDE DEF y
<1>5. con'[c] = y /\ Only(c)
  BY <1>2, StepOf DEF Only
<1>6. x.excl = AllLocks
  BY <1>1, <1>2 DEF Phase, Recovering
<1> QED BY <1>2, <1>3, <1>4, <1>5, <1>6

LEMMA ChooseEffect ==
  ASSUME TypeInv, NEW c \in Conn, Choose(c)
  PROVE  LET x == con[c]  y == con'[c] IN
         /\ Only(c) /\ UNCHANGED <<shm, log, file, past>> /\ x.pc = "choose" /\ x.excl = {}
         /\ y.pc = (IF shm.nBackfill = x.hdr.mx THEN "lock0" ELSE "pick")
         /\ y.excl = x.excl /\ Moved(y, x)
<1> DEFINE x == con[c]
           y == Goto(x, IF shm.nBackfill = x.hdr.mx THEN "lock0" ELSE "pick")
<1>1. ConnType(x) /\ Phase(c, x)
  BY AtConn
<1>2. x.pc = "choose" /\ UNCHANGED <<shm, log, file, past>> /\ con' = [con EXCEPT ![c] = y]
  BY DEF Choose, Pc, Put
<1>3. /\ y.pc = (IF shm.nBackfill = x.hdr.mx THEN "lock0" ELSE "pick")
      /\ y.excl = x.excl /\ Moved(y, x)
  BY <1>1, MovedTo
<1> HIDE DEF y
<1>4. con'[c] = y /\ Only(c)
  BY <1>2, StepOf DEF Only
<1>5. x.excl = {}
  BY <1>1, <1>2 DEF Phase, Outside
<1> QED BY <1>2, <1>3, <1>4, <1>5

\* y is x after a retry.
Retried(y, x) ==
  /\ y.hdr = x.hdr /\ y.lock = x.lock /\ y.excl = x.excl /\ y.nCkpt = x.nCkpt
  /\ y.cache = x.cache /\ y.image = x.image /\ y.sp = x.sp
  /\ WRITE \in x.excl => y.pc = "pick" /\ y.w = x.w
  /\ WRITE \notin x.excl => y.pc = "idle" /\ y.w = NoWork

\* y is x with the read lock i.
NowReads(y, x, i) ==
  /\ y.pc = "read" /\ y.lock = i /\ y.image = Committed /\ y.w = NoWork
  /\ y.cache = (IF x.cache = NoImage THEN Committed ELSE x.cache)
  /\ y.hdr = x.hdr /\ y.excl = x.excl /\ y.nCkpt = x.nCkpt /\ y.sp = x.sp

LEMMA RetriedBy ==
  ASSUME NEW x, ConnType(x)
  PROVE  Retried(Retry(x), x)
<1>1. CASE WRITE \in x.excl
  BY <1>1 DEF Retry, Retried, ConnType, Goto, ConnFields
<1>2. CASE WRITE \notin x.excl
  <2> DEFINE y == [Goto(x, "idle") EXCEPT !.w = NoWork]
  <2>1. Retry(x) = y
    BY <1>2 DEF Retry
  <2>2. /\ y.pc = "idle" /\ y.hdr = x.hdr /\ y.lock = x.lock /\ y.excl = x.excl
        /\ y.nCkpt = x.nCkpt /\ y.cache = x.cache /\ y.image = x.image /\ y.sp = x.sp
        /\ y.w = NoWork
    BY DEF ConnType, Goto, ConnFields
  <2> HIDE DEF y
  <2> QED BY <1>2, <2>1, <2>2 DEF Retried
<1> QED BY <1>1, <1>2

LEMMA ReadingBy ==
  ASSUME NEW x, ConnType(x), NEW i
  PROVE  NowReads(Goto(Reading(x, i), "read"), x, i)
<1> DEFINE z == Reading(x, i)
           y == Goto(z, "read")
<1>1. /\ DOMAIN z = ConnFields /\ z.lock = i /\ z.image = Committed /\ z.w = NoWork
      /\ z.cache = (IF x.cache = NoImage THEN Committed ELSE x.cache)
      /\ z.hdr = x.hdr /\ z.excl = x.excl /\ z.nCkpt = x.nCkpt /\ z.sp = x.sp
  BY DEF ConnType, Reading, ConnFields
<1> HIDE DEF z
<1>2. /\ y.pc = "read" /\ y.lock = z.lock /\ y.image = z.image /\ y.w = z.w
      /\ y.cache = z.cache /\ y.hdr = z.hdr /\ y.excl = z.excl /\ y.nCkpt = z.nCkpt
      /\ y.sp = z.sp
  BY <1>1 DEF Goto, ConnFields
<1> HIDE DEF y
<1>3. NowReads(y, x, i)
  BY <1>1, <1>2 DEF NowReads
<1> QED BY <1>3 DEF y, z

LEMMA Lock0Effect ==
  ASSUME TypeInv, NEW c \in Conn, Lock0(c)
  PROVE  LET x == con[c]  y == con'[c] IN
         /\ Only(c) /\ UNCHANGED <<shm, log, file, past>> /\ x.pc = "lock0" /\ x.excl = {}
         /\ \/ y.pc = "pick" /\ y.excl = x.excl /\ Moved(y, x)
            \/ Retried(y, x)
            \/ SharedFree(c, READ(0)) /\ shm.h0 = x.hdr /\ NowReads(y, x, 0)
<1> DEFINE x == con[c]
<1>1. ConnType(x) /\ Phase(c, x)
  BY AtConn
<1>2. x.pc = "lock0" /\ UNCHANGED <<shm, log, file, past>>
  BY DEF Lock0, Pc
<1>3. x.excl = {}
  BY <1>1, <1>2 DEF Phase, Outside
<1>4. PICK y : /\ con' = [con EXCEPT ![c] = y]
               /\ \/ y = Goto(x, "pick") \/ y = Retry(x)
                  \/ /\ SharedFree(c, READ(0)) /\ shm.h0 = x.hdr
                     /\ y = Goto(Reading(x, 0), "read")
  BY DEF Lock0, Put
<1>5. con'[c] = y /\ Only(c)
  BY <1>4, StepOf DEF Only
<1>6. CASE y = Goto(x, "pick")
  <2>1. y.pc = "pick" /\ y.excl = x.excl /\ Moved(y, x)
    BY <1>1, <1>6, MovedTo
  <2> QED BY <1>2, <1>3, <1>5, <2>1
<1>7. CASE y = Retry(x)
  BY <1>1, <1>2, <1>3, <1>5, <1>7, RetriedBy
<1>8. CASE SharedFree(c, READ(0)) /\ shm.h0 = x.hdr /\ y = Goto(Reading(x, 0), "read")
  BY <1>1, <1>2, <1>3, <1>5, <1>8, ReadingBy
<1> QED BY <1>4, <1>6, <1>7, <1>8

LEMMA PickEffect ==
  ASSUME TypeInv, NEW c \in Conn, Pick(c)
  PROVE  LET x == con[c]  y == con'[c] IN
         /\ Only(c) /\ UNCHANGED <<log, file, past>> /\ x.pc = "pick"
         /\ shm'.h0 = shm.h0 /\ shm'.h1 = shm.h1 /\ shm'.nBackfill = shm.nBackfill
         /\ shm'.pgno = shm.pgno
         /\ \/ shm'.mark = shm.mark
            \/ \E j \in Marks : /\ ExclFree(c, {READ(j)})
                                /\ shm'.mark = [shm.mark EXCEPT ![j] = x.hdr.mx]
         /\ \/ Retried(y, x)
            \/ /\ y.pc = "lockMark" /\ y.w.mxMark \in Nat /\ y.w.mxMark <= x.hdr.mx
               /\ \A f \in WorkFields \ {"mxI", "mxMark"} : y.w[f] = x.w[f]
               /\ y.hdr = x.hdr /\ y.lock = x.lock /\ y.excl = x.excl /\ y.nCkpt = x.nCkpt
               /\ y.cache = x.cache /\ y.image = x.image /\ y.sp = x.sp
<1> DEFINE x     == con[c]
           i     == BestMark(x)
           free  == {j \in Marks : ExclFree(c, {READ(j)})}
           raise == (i = 0 \/ shm.mark[i] < x.hdr.mx) /\ free # {}
           j     == IF raise THEN Min(free) ELSE i
           m     == IF raise THEN x.hdr.mx ELSE shm.mark[j]
           y     == [Goto(x, "lockMark") EXCEPT !.w.mxI = j, !.w.mxMark = m]
<1>1. ConnType(x) /\ x.hdr.mx \in Nat
  BY AtConn DEF ConnType, HdrOK
<1>2. /\ x.pc = "pick" /\ UNCHANGED <<log, file, past>>
      /\ shm' = IF raise THEN [shm EXCEPT !.mark[j] = x.hdr.mx] ELSE shm
      /\ con' = [con EXCEPT ![c] = IF j = 0 THEN Retry(x) ELSE y]
  BY DEF Pick, Pc, Put
<1>3. raise => j \in Marks /\ ExclFree(c, {READ(j)})
  <2>1. free \subseteq Nat
    BY Constants
  <2>2. raise => Min(free) \in free
    BY <2>1, MinOf
  <2> QED BY <2>2
<1>4. j # 0 => m \in Nat /\ m <= x.hdr.mx
  <2>1. CASE raise
    BY <1>1, <2>1
  <2>2. CASE ~raise
    <3>1. shm.mark \in [Marks -> 0..NotUsed]
      BY DEF TypeInv, ShmInv
    <3>2. i # 0 => i \in Marks /\ shm.mark[i] <= x.hdr.mx
      BY <1>1, BestMarkOK DEF ConnType
    <3>3. j = i /\ m = shm.mark[j]
      BY <2>2
    <3>4. \A k \in Marks : shm.mark[k] \in Nat
      BY <3>1, Constants
    <3> HIDE DEF i, free, raise, j, m
    <3> QED BY <3>2, <3>3, <3>4
  <2> QED BY <2>1, <2>2
<1> HIDE DEF i, free, raise, j, m
<1>5. /\ shm'.h0 = shm.h0 /\ shm'.h1 = shm.h1 /\ shm'.nBackfill = shm.nBackfill
      /\ shm'.pgno = shm.pgno
      /\ shm'.mark = IF raise THEN [shm.mark EXCEPT ![j] = x.hdr.mx] ELSE shm.mark
  BY <1>2 DEF TypeInv, ShmInv
<1>6. CASE j = 0
  <2> DEFINE z == Retry(x)
  <2>1. con' = [con EXCEPT ![c] = z]
    BY <1>2, <1>6
  <2>2. con'[c] = z /\ Only(c)
    BY <2>1, StepOf DEF Only
  <2>3. Retried(z, x)
    BY <1>1, RetriedBy
  <2> QED BY <1>2, <1>3, <1>5, <2>2, <2>3
<1>7. CASE j # 0
  <2>1. con' = [con EXCEPT ![c] = y]
    BY <1>2, <1>7
  <2>2. con'[c] = y /\ Only(c)
    BY <2>1, StepOf DEF Only
  <2>3. /\ y.pc = "lockMark" /\ y.w.mxMark = m
        /\ \A f \in WorkFields \ {"mxI", "mxMark"} : y.w[f] = x.w[f]
        /\ y.hdr = x.hdr /\ y.lock = x.lock /\ y.excl = x.excl /\ y.nCkpt = x.nCkpt
        /\ y.cache = x.cache /\ y.image = x.image /\ y.sp = x.sp
    BY <1>1 DEF ConnType, Goto, ConnFields, WorkOK, WorkFields
  <2> HIDE DEF y
  <2> QED BY <1>2, <1>3, <1>4, <1>5, <1>7, <2>2, <2>3
<1> QED BY <1>6, <1>7

LEMMA LockMarkEffect ==
  ASSUME TypeInv, NEW c \in Conn, LockMark(c)
  PROVE  LET x == con[c]  y == con'[c] IN
         /\ Only(c) /\ UNCHANGED <<shm, log, file, past>> /\ x.pc = "lockMark"
         /\ x.w.mxI \in Marks
         /\ \/ Retried(y, x)
            \/ /\ SharedFree(c, READ(x.w.mxI)) /\ shm.mark[x.w.mxI] = x.w.mxMark
               /\ shm.h0 = x.hdr
               /\ \/ WRITE \notin x.excl /\ NowReads(y, x, x.w.mxI)
                  \/ /\ WRITE \in x.excl /\ y.pc = "frames" /\ y.lock = x.w.mxI
                     /\ \A f \in WorkFields \ {"mxI", "mxMark"} : y.w[f] = x.w[f]
                     /\ y.w.mxMark = 0
                     /\ y.hdr = x.hdr /\ y.excl = x.excl /\ y.nCkpt = x.nCkpt
                     /\ y.cache = x.cache /\ y.image = x.image /\ y.sp = x.sp
<1> DEFINE x == con[c]
<1>1. ConnType(x) /\ Phase(c, x)
  BY AtConn
<1>2. x.pc = "lockMark" /\ UNCHANGED <<shm, log, file, past>>
  BY DEF LockMark, Pc
<1>3. x.w.mxI \in Marks
  BY <1>1, <1>2 DEF Phase
<1>4. CASE con' = [con EXCEPT ![c] = Retry(x)]
  <2> DEFINE y == Retry(x)
  <2>1. con'[c] = y /\ Only(c)
    BY <1>4, StepOf DEF Only
  <2>2. Retried(y, x)
    BY <1>1, RetriedBy
  <2> QED BY <1>2, <1>3, <2>1, <2>2
<1> DEFINE good == /\ SharedFree(c, READ(x.w.mxI)) /\ shm.mark[x.w.mxI] = x.w.mxMark
                   /\ shm.h0 = x.hdr
<1>5. CASE /\ good /\ WRITE \notin x.excl
           /\ con' = [con EXCEPT ![c] = Goto(Reading(x, x.w.mxI), "read")]
  <2> DEFINE y == Goto(Reading(x, x.w.mxI), "read")
  <2>1. con'[c] = y /\ Only(c)
    BY <1>5, StepOf DEF Only
  <2>2. NowReads(y, x, x.w.mxI)
    BY <1>1, ReadingBy
  <2> QED BY <1>2, <1>3, <1>5, <2>1, <2>2
<1>6. CASE /\ good /\ WRITE \in x.excl
           /\ con' = [con EXCEPT ![c] = Goto([x EXCEPT !.lock = x.w.mxI, !.w.mxI = 0,
                                                       !.w.mxMark = 0], "frames")]
  <2> DEFINE i == x.w.mxI
             y == Goto([x EXCEPT !.lock = i, !.w.mxI = 0, !.w.mxMark = 0], "frames")
  <2>1. con'[c] = y /\ Only(c)
    BY <1>6, StepOf DEF Only
  <2> HIDE DEF i
  <2>2. /\ y.pc = "frames" /\ y.lock = i
        /\ \A f \in WorkFields \ {"mxI", "mxMark"} : y.w[f] = x.w[f]
        /\ y.w.mxMark = 0
        /\ y.hdr = x.hdr /\ y.excl = x.excl /\ y.nCkpt = x.nCkpt
        /\ y.cache = x.cache /\ y.image = x.image /\ y.sp = x.sp
    BY <1>1 DEF ConnType, Goto, ConnFields, WorkOK, WorkFields
  <2> HIDE DEF y
  <2> QED BY <1>2, <1>3, <1>6, <2>1, <2>2 DEF i
<1>7. \/ con' = [con EXCEPT ![c] = Retry(x)]
      \/ good /\ WRITE \notin x.excl
           /\ con' = [con EXCEPT ![c] = Goto(Reading(x, x.w.mxI), "read")]
      \/ good /\ WRITE \in x.excl
           /\ con' = [con EXCEPT ![c] = Goto([x EXCEPT !.lock = x.w.mxI, !.w.mxI = 0,
                                                       !.w.mxMark = 0], "frames")]
  BY DEF LockMark, Put, MarkStillGood
<1> QED BY <1>4, <1>5, <1>6, <1>7, Zenon

LEMMA EndReadEffect ==
  ASSUME TypeInv, NEW c \in Conn, EndRead(c)
  PROVE  LET x == con[c]  y == con'[c] IN
         /\ Only(c) /\ UNCHANGED <<shm, log, file, past>> /\ x.pc = "read" /\ x.excl = {}
         /\ y.pc = "idle" /\ y.excl = {} /\ y.hdr = x.hdr /\ y.nCkpt = x.nCkpt
         /\ y.cache = x.cache /\ y.lock = 0 - 1 /\ y.image = NoImage /\ y.sp = NoSavepoint
         /\ y.w = NoWork
<1> DEFINE x == con[c]
           y == Ended(x)
<1>1. /\ x.pc = "read" /\ x.excl = {} /\ UNCHANGED <<shm, log, file, past>>
      /\ con' = [con EXCEPT ![c] = y]
  BY DEF EndRead, Pc, Put
<1>2. /\ y.pc = "idle" /\ y.excl = {} /\ y.hdr = x.hdr /\ y.nCkpt = x.nCkpt
      /\ y.cache = x.cache /\ y.lock = 0 - 1 /\ y.image = NoImage /\ y.sp = NoSavepoint
      /\ y.w = NoWork
  BY DEF Ended, Connected
<1> HIDE DEF y
<1>3. con'[c] = y /\ Only(c)
  BY <1>1, StepOf DEF Only
<1> QED BY <1>1, <1>2, <1>3

LEMMA BeginWriteEffect ==
  ASSUME TypeInv, NEW c \in Conn, BeginWrite(c)
  PROVE  LET x == con[c]  y == con'[c] IN
         /\ Only(c) /\ UNCHANGED <<shm, log, file, past>> /\ x.pc = "read" /\ x.excl = {}
         /\ c \in Writers /\ ExclFree(c, {WRITE}) /\ shm.h0 = x.hdr
         /\ y.pc = "read" /\ y.excl = {WRITE} /\ Moved(y, x)
<1> DEFINE x == con[c]
           y == [x EXCEPT !.excl = {WRITE}]
<1>1. ConnType(x)
  BY AtConn
<1>2. /\ x.pc = "read" /\ c \in Writers /\ x.excl = {} /\ shm.h0 = x.hdr
      /\ ExclFree(c, {WRITE}) /\ UNCHANGED <<shm, log, file, past>>
      /\ con' = [con EXCEPT ![c] = y]
  BY DEF BeginWrite, Pc, Put, SnapshotIsLatest
<1>3. y.pc = x.pc /\ y.excl = {WRITE} /\ Moved(y, x)
  BY <1>1 DEF ConnType, ConnFields, Moved
<1> HIDE DEF y
<1>4. con'[c] = y /\ Only(c)
  BY <1>2, StepOf DEF Only
<1> QED BY <1>2, <1>3, <1>4

\* The size of the database after a call of sqlite3WalFrames.
NewSize(img, S, n, commit) == IF commit THEN n ELSE Max(S \cup {Len(img)})

\* What a call of sqlite3WalFrames with the pages S begins with.
FramesFacts(c, S, n, commit) ==
  LET x == con[c]
      y == con'[c]
      size == Len(x.image)
      v == past.ver + 1
  IN
  /\ Only(c) /\ UNCHANGED <<shm, log, file>> /\ past' = [past EXCEPT !.ver = v]
  /\ x.pc = "read" /\ x.excl = {WRITE}
  /\ IF commit
     THEN S \subseteq 1..n /\ (size+1)..n \subseteq S /\ (n # size => 1 \in S)
     ELSE 1 \notin S /\ n = 0 /\ S \subseteq 1..(size + 1)
  /\ y.pc = IF x.lock = 0 THEN "restart" ELSE "frames"
  /\ y.image = Changed(x.image, S, v, NewSize(x.image, S, n, commit))
  /\ y.w.commit <=> commit
  /\ \A f \in WorkFields \ {"commit", "todo"} : y.w[f] = x.w[f]
  /\ y.w.todo \in Seq(Entries)
  /\ \E pages \in [1..Cardinality(S) -> S] :
       /\ \A i, j \in DOMAIN pages : i < j => pages[i] < pages[j]
       /\ y.w.todo = Todo(S, pages, v, n)
  /\ y.hdr = x.hdr /\ y.excl = x.excl /\ y.nCkpt = x.nCkpt
  /\ y.cache = x.cache /\ y.lock = x.lock /\ y.sp = x.sp

LEMMA FramesEffect ==
  ASSUME TypeInv, NEW c \in Conn, NEW S \in SUBSET (1..MaxPage), NEW n \in 0..MaxPage,
         NEW commit \in BOOLEAN, Frames(c, S, n, commit)
  PROVE  FramesFacts(c, S, n, commit)
<1> DEFINE x  == con[c]
           v  == past.ver + 1
           pc == IF x.lock = 0 THEN "restart" ELSE "frames"
           new == IF commit THEN n ELSE Max(S \cup {Len(x.image)})
<1>1. ConnType(x)
  BY AtConn
<1>2. /\ Writing(c) /\ past' = [past EXCEPT !.ver = v] /\ UNCHANGED <<shm, log, file>>
      /\ IF commit
         THEN S \subseteq 1..n /\ (Len(x.image)+1)..n \subseteq S /\ (n # Len(x.image) => 1 \in S)
         ELSE 1 \notin S /\ n = 0 /\ S \subseteq 1..(Len(x.image) + 1)
  BY DEF Frames
<1>3. x.excl = {WRITE}
  BY <1>2, InWrite DEF Writing, Pc
<1>4. PICK pages \in [1..Cardinality(S) -> S] :
        /\ \A i, j \in DOMAIN pages : i < j => pages[i] < pages[j]
        /\ con' = [con EXCEPT ![c] =
                  [Goto(x, pc) EXCEPT
                     !.image = Changed(@, S, v, new),
                     !.w.commit = commit,
                     !.w.todo = [k \in DOMAIN pages |->
                                   Entry(pages[k], v, IF k = Cardinality(S) THEN n ELSE 0)]]]
  BY DEF Frames, Put
<1> HIDE DEF new
<1> DEFINE todo == Todo(S, pages, v, n)
           y == [Goto(x, pc) EXCEPT !.image = Changed(@, S, v, new), !.w.commit = commit,
                                    !.w.todo = todo]
<1>5. con' = [con EXCEPT ![c] = y]
  BY <1>4 DEF Todo
<1>6. v \in Nat
  BY DEF TypeInv, PastInv
<1>7. todo \in Seq(Entries)
  BY <1>6, TodoOK
<1> HIDE DEF v, todo, pc
<1>8. /\ y.pc = pc /\ y.image = Changed(x.image, S, v, new) /\ (y.w.commit <=> commit)
      /\ \A f \in WorkFields \ {"commit", "todo"} : y.w[f] = x.w[f]
      /\ y.w.todo = todo
      /\ y.hdr = x.hdr /\ y.excl = x.excl /\ y.nCkpt = x.nCkpt
      /\ y.cache = x.cache /\ y.lock = x.lock /\ y.sp = x.sp
  BY <1>1 DEF ConnType, Goto, ConnFields, WorkOK, WorkFields
<1> HIDE DEF y
<1>9. con'[c] = y /\ Only(c)
  BY <1>5, StepOf DEF Only
<1>10. /\ con'[c].w.todo \in Seq(Entries)
       /\ con'[c].w.todo = Todo(S, pages, v, n)
  BY <1>7, <1>8, <1>9 DEF todo
<1>11. LET z == con'[c] IN
       \E ps \in [1..Cardinality(S) -> S] :
         /\ \A i, j \in DOMAIN ps : i < j => ps[i] < ps[j]
         /\ z.w.todo = Todo(S, ps, v, n)
  BY <1>4, <1>10
<1>12. new = NewSize(x.image, S, n, commit) /\ x.pc = "read"
  BY <1>2 DEF new, NewSize, Writing, Pc
<1> QED BY <1>2, <1>3, <1>8, <1>9, <1>10, <1>11, <1>12 DEF v, pc, FramesFacts

LEMMA RestartLogEffect ==
  ASSUME TypeInv, NEW c \in Conn, RestartLog(c)
  PROVE  LET x == con[c]  y == con'[c] IN
         /\ Only(c) /\ UNCHANGED <<log, file>> /\ x.pc = "restart" /\ x.excl = {WRITE}
         /\ \/ /\ shm.nBackfill > 0 /\ ExclFree(c, ReadLocks)
               /\ past' = [past EXCEPT !.salt = @ + 1]
               /\ y.pc = "restartHdr" /\ y.excl = x.excl \cup ReadLocks
               /\ y.hdr.init = x.hdr.init /\ y.hdr.chg = x.hdr.chg /\ y.hdr.mx = 0
               /\ y.hdr.n = x.hdr.n /\ y.hdr.salt = past.salt + 1 /\ y.hdr.sum = x.hdr.sum
               /\ y.nCkpt = x.nCkpt + 1 /\ y.lock = x.lock /\ y.cache = x.cache
               /\ y.image = x.image /\ y.sp = x.sp /\ y.w = x.w
               /\ shm'.h0 = shm.h0 /\ shm'.h1 = y.hdr /\ shm'.nBackfill = shm.nBackfill
               /\ shm'.mark = shm.mark /\ shm'.pgno = shm.pgno
            \/ /\ UNCHANGED <<shm, past>> /\ y.pc = "pick" /\ y.lock = 0 - 1
               /\ y.hdr = x.hdr /\ y.excl = x.excl /\ y.nCkpt = x.nCkpt /\ y.cache = x.cache
               /\ y.image = x.image /\ y.sp = x.sp /\ y.w = x.w
<1> DEFINE x == con[c]
<1>1. ConnType(x)
  BY AtConn
<1>2. x.pc = "restart" /\ UNCHANGED <<log, file>>
  BY DEF RestartLog, Pc
<1>3. x.excl = {WRITE}
  BY <1>2, InWrite
<1>4. CASE /\ shm.nBackfill > 0 /\ ExclFree(c, RestartLocks)
           /\ past' = [past EXCEPT !.salt = @ + 1]
           /\ shm' = [shm EXCEPT !.h1 = Restarted(x).hdr]
           /\ con' = [con EXCEPT ![c] = [Goto(Restarted(x), "restartHdr") EXCEPT
                                           !.excl = @ \cup RestartLocks]]
  <2> DEFINE h == [x.hdr EXCEPT !.mx = 0, !.salt = past.salt + 1]
             y == [Goto(Restarted(x), "restartHdr") EXCEPT !.excl = @ \cup RestartLocks]
  <2>1. /\ y.pc = "restartHdr" /\ y.hdr = h /\ y.nCkpt = x.nCkpt + 1
        /\ y.excl = x.excl \cup RestartLocks /\ y.lock = x.lock /\ y.cache = x.cache
        /\ y.image = x.image /\ y.sp = x.sp /\ y.w = x.w
        /\ Restarted(x).hdr = h
    BY <1>1 DEF ConnType, Goto, Restarted, ConnFields
  <2>2. con' = [con EXCEPT ![c] = y] /\ shm' = [shm EXCEPT !.h1 = h]
    BY <1>4, <2>1
  <2> HIDE DEF y
  <2>3. /\ h.init = x.hdr.init /\ h.chg = x.hdr.chg /\ h.mx = 0
        /\ h.n = x.hdr.n /\ h.salt = past.salt + 1 /\ h.sum = x.hdr.sum
    BY <1>1 DEF ConnType, HdrOK, HdrFields
  <2> HIDE DEF h
  <2>4. /\ shm'.h0 = shm.h0 /\ shm'.h1 = h /\ shm'.nBackfill = shm.nBackfill
        /\ shm'.mark = shm.mark /\ shm'.pgno = shm.pgno
    BY <2>2 DEF TypeInv, ShmInv
  <2>5. con'[c] = y /\ Only(c)
    BY <2>2, StepOf DEF Only
  <2> QED BY <1>2, <1>3, <1>4, <2>1, <2>3, <2>4, <2>5 DEF RestartLocks
<1>5. CASE /\ con' = [con EXCEPT ![c] = [Goto(x, "pick") EXCEPT !.lock = 0 - 1]]
           /\ UNCHANGED <<shm, past>>
  <2> DEFINE y == [Goto(x, "pick") EXCEPT !.lock = 0 - 1]
  <2>1. /\ y.pc = "pick" /\ y.lock = 0 - 1
        /\ y.hdr = x.hdr /\ y.excl = x.excl /\ y.nCkpt = x.nCkpt /\ y.cache = x.cache
        /\ y.image = x.image /\ y.sp = x.sp /\ y.w = x.w
    BY <1>1 DEF ConnType, Goto, ConnFields
  <2>2. con' = [con EXCEPT ![c] = y]
    BY <1>5
  <2> HIDE DEF y
  <2>3. con'[c] = y /\ Only(c)
    BY <2>2, StepOf DEF Only
  <2> QED BY <1>2, <1>3, <1>5, <2>1, <2>3
<1> QED BY <1>4, <1>5 DEF RestartLog, Put

LEMMA RestartHdrEffect ==
  ASSUME TypeInv, NEW c \in Conn, RestartHdr(c)
  PROVE  LET x == con[c]  y == con'[c] IN
         /\ Only(c) /\ UNCHANGED <<log, file, past>> /\ x.pc = "restartHdr"
         /\ y.pc = "restartInfo" /\ y.excl = x.excl /\ Moved(y, x)
         /\ shm'.h0 = x.hdr /\ shm'.h1 = shm.h1 /\ shm'.nBackfill = shm.nBackfill
         /\ shm'.mark = shm.mark /\ shm'.pgno = shm.pgno
<1> DEFINE x == con[c]
           y == Goto(x, "restartInfo")
<1>1. ConnType(x)
  BY AtConn
<1>2. x.pc = "restartHdr" /\ UNCHANGED <<log, file, past>> /\ con' = [con EXCEPT ![c] = y]
  BY DEF RestartHdr, Pc, Put
<1>3. y.pc = "restartInfo" /\ y.excl = x.excl /\ Moved(y, x)
  BY <1>1, MovedTo
<1>4. shm'.h0 = x.hdr /\ shm'.h1 = shm.h1 /\ shm'.nBackfill = shm.nBackfill
      /\ shm'.mark = shm.mark /\ shm'.pgno = shm.pgno
  BY DEF RestartHdr, TypeInv, ShmInv
<1> HIDE DEF y
<1>5. con'[c] = y /\ Only(c)
  BY <1>2, StepOf DEF Only
<1> QED BY <1>2, <1>3, <1>4, <1>5

LEMMA RestartInfoEffect ==
  ASSUME TypeInv, NEW c \in Conn, RestartInfo(c)
  PROVE  LET x == con[c]  y == con'[c] IN
         /\ Only(c) /\ UNCHANGED <<log, file, past>> /\ x.pc = "restartInfo"
         /\ y.pc = "pick" /\ y.lock = 0 - 1 /\ y.excl = {WRITE}
         /\ y.hdr = x.hdr /\ y.nCkpt = x.nCkpt /\ y.cache = x.cache
         /\ y.image = x.image /\ y.sp = x.sp /\ y.w = x.w
         /\ shm'.h0 = shm.h0 /\ shm'.h1 = shm.h1 /\ shm'.nBackfill = 0
         /\ shm'.mark = [i \in Marks |-> IF i = 1 THEN 0 ELSE NotUsed]
         /\ shm'.pgno = shm.pgno
<1> DEFINE x == con[c]
           y == [Goto(x, "pick") EXCEPT !.lock = 0 - 1, !.excl = {WRITE}]
<1>1. ConnType(x)
  BY AtConn
<1>2. x.pc = "restartInfo" /\ UNCHANGED <<log, file, past>> /\ con' = [con EXCEPT ![c] = y]
  BY DEF RestartInfo, Pc, Put
<1>3. /\ y.pc = "pick" /\ y.lock = 0 - 1 /\ y.excl = {WRITE}
      /\ y.hdr = x.hdr /\ y.nCkpt = x.nCkpt /\ y.cache = x.cache
      /\ y.image = x.image /\ y.sp = x.sp /\ y.w = x.w
  BY <1>1 DEF ConnType, Goto, ConnFields
<1>4. /\ shm'.h0 = shm.h0 /\ shm'.h1 = shm.h1 /\ shm'.nBackfill = 0
      /\ shm'.mark = [i \in Marks |-> IF i = 1 THEN 0 ELSE NotUsed]
      /\ shm'.pgno = shm.pgno
  BY DEF RestartInfo, ResetInfo, TypeInv, ShmInv
<1> HIDE DEF y
<1>5. con'[c] = y /\ Only(c)
  BY <1>2, StepOf DEF Only
<1> QED BY <1>2, <1>3, <1>4, <1>5

LEMMA WriteLogHdrEffect ==
  ASSUME TypeInv, NEW c \in Conn, WriteLogHdr(c)
  PROVE  LET x == con[c]  y == con'[c] IN
         /\ Only(c) /\ UNCHANGED <<shm, file>> /\ x.pc = "frames" /\ x.hdr.mx = 0
         /\ log'.dur = log.dur /\ log'.cur.frames = log.cur.frames /\ log'.cur.salt = y.hdr.salt
         /\ \/ past' = [past EXCEPT !.salt = @ + 1] /\ y.hdr.salt = past.salt + 1
            \/ past' = past /\ y.hdr.salt = x.hdr.salt
         /\ y.pc = "syncHdr" /\ y.hdr.init = x.hdr.init /\ y.hdr.chg = x.hdr.chg
         /\ y.hdr.mx = 0 /\ y.hdr.n = x.hdr.n /\ y.hdr.sum = <<>>
         /\ y.lock = x.lock /\ y.excl = x.excl /\ y.nCkpt = x.nCkpt /\ y.cache = x.cache
         /\ y.image = x.image /\ y.sp = x.sp /\ y.w = x.w
<1> DEFINE x    == con[c]
           salt == IF x.nCkpt = 0 THEN past.salt + 1 ELSE x.hdr.salt
           y    == [Goto(x, "syncHdr") EXCEPT !.hdr.salt = salt, !.hdr.sum = <<>>]
<1>1. ConnType(x)
  BY AtConn
<1>2. /\ x.pc = "frames" /\ x.hdr.mx = 0 /\ UNCHANGED <<shm, file>>
      /\ past' = IF x.nCkpt = 0 THEN [past EXCEPT !.salt = salt] ELSE past
      /\ log' = [log EXCEPT !.cur.salt = salt, !.cur.nCkpt = x.nCkpt]
      /\ con' = [con EXCEPT ![c] = y]
  BY DEF WriteLogHdr, Pc, Put
<1>3. \/ past' = [past EXCEPT !.salt = @ + 1] /\ salt = past.salt + 1
      \/ past' = past /\ salt = x.hdr.salt
  BY <1>2
<1> HIDE DEF salt
<1>4. /\ y.pc = "syncHdr" /\ y.lock = x.lock /\ y.excl = x.excl /\ y.nCkpt = x.nCkpt
      /\ y.cache = x.cache /\ y.image = x.image /\ y.sp = x.sp /\ y.w = x.w
      /\ y.hdr.init = x.hdr.init /\ y.hdr.chg = x.hdr.chg /\ y.hdr.salt = salt
      /\ y.hdr.mx = x.hdr.mx /\ y.hdr.n = x.hdr.n /\ y.hdr.sum = <<>>
  BY <1>1 DEF ConnType, Goto, ConnFields, HdrOK, HdrFields
<1> HIDE DEF y
<1>5. con'[c] = y /\ Only(c)
  BY <1>2, StepOf DEF Only
<1>6. log'.dur = log.dur /\ log'.cur.frames = log.cur.frames /\ log'.cur.salt = salt
  BY <1>2 DEF TypeInv, LogInv, Logs
<1> QED BY <1>2, <1>3, <1>4, <1>5, <1>6

LEMMA SyncLogHdrEffect ==
  ASSUME TypeInv, NEW c \in Conn, SyncLogHdr(c)
  PROVE  LET x == con[c]  y == con'[c] IN
         /\ Only(c) /\ UNCHANGED <<shm, file, past>> /\ x.pc = "syncHdr"
         /\ log'.cur = log.cur /\ log'.dur = log.cur
         /\ y.pc = "append" /\ y.excl = x.excl /\ Moved(y, x)
<1> DEFINE x == con[c]
           y == Goto(x, "append")
<1>1. ConnType(x)
  BY AtConn
<1>2. /\ x.pc = "syncHdr" /\ UNCHANGED <<shm, file, past>> /\ con' = [con EXCEPT ![c] = y]
      /\ log' = SyncedLog(log)
  BY DEF SyncLogHdr, Pc, Put
<1>3. y.pc = "append" /\ y.excl = x.excl /\ Moved(y, x)
  BY <1>1, MovedTo
<1> HIDE DEF y
<1>4. con'[c] = y /\ Only(c)
  BY <1>2, StepOf DEF Only
<1>5. log'.cur = log.cur /\ log'.dur = log.cur
  BY <1>2, SyncedLogOK DEF TypeInv
<1> QED BY <1>2, <1>3, <1>4, <1>5

LEMMA WriteFrameEffect ==
  ASSUME TypeInv, NEW c \in Conn, WriteFrame(c)
  PROVE  LET x == con[c]
             y == con'[c]
             sum == Append(x.hdr.sum, Head(x.w.todo))
         IN
         /\ Only(c) /\ UNCHANGED <<shm, file>> /\ x.excl = {WRITE}
         /\ x.pc = "append" \/ (x.pc = "frames" /\ x.hdr.mx > 0)
         /\ x.w.todo # <<>> /\ Len(x.hdr.sum) + 1 <= MaxFrame
         /\ log'.dur = log.dur /\ log'.cur.salt = log.cur.salt
         /\ log'.cur.frames = At(log.cur.frames, Len(x.hdr.sum) + 1, Frame(x.hdr.salt, sum))
         /\ past'.salt = past.salt /\ past'.images = past.images /\ past'.full = past.full
         /\ past'.flight = IF Head(x.w.todo).n > 0 THEN x.image ELSE NoImage
         /\ y.pc = "append" /\ y.hdr.init = x.hdr.init /\ y.hdr.chg = x.hdr.chg
         /\ y.hdr.mx = x.hdr.mx /\ y.hdr.n = x.hdr.n /\ y.hdr.salt = x.hdr.salt
         /\ y.hdr.sum = sum
         /\ y.lock = x.lock /\ y.excl = x.excl /\ y.nCkpt = x.nCkpt /\ y.cache = x.cache
         /\ y.image = x.image /\ y.sp = x.sp
         /\ y.w.todo = Tail(x.w.todo) /\ \A f \in WorkFields \ {"todo"} : y.w[f] = x.w[f]
<1> DEFINE x   == con[c]
           sum == Append(x.hdr.sum, Head(x.w.todo))
           y   == [Goto(x, "append") EXCEPT !.hdr.sum = sum, !.w.todo = Tail(x.w.todo)]
<1>1. ConnType(x)
  BY AtConn
<1>2. /\ x.pc = "append" \/ (x.pc = "frames" /\ x.hdr.mx > 0)
      /\ x.w.todo # <<>> /\ Len(x.hdr.sum) + 1 <= MaxFrame
      /\ log' = [log EXCEPT !.cur.frames = At(@, Len(x.hdr.sum) + 1, Frame(x.hdr.salt, sum))]
      /\ past' = [past EXCEPT !.flight = IF Head(x.w.todo).n > 0 THEN x.image ELSE NoImage]
      /\ UNCHANGED <<shm, file>>
  BY DEF WriteFrame, Pc, NextFrame
<1>3. x.excl = {WRITE}
  BY <1>2, InWrite DEF Logging
<1>4. con' = [con EXCEPT ![c] = y]
  <2>1. con' = [con EXCEPT ![c] = [Goto(x, "append") EXCEPT !.hdr.sum = sum, !.w.todo = Tail(@)]]
    BY DEF WriteFrame, Put
  <2>2. Goto(x, "append").w.todo = x.w.todo
    BY <1>1 DEF ConnType, Goto, ConnFields
  <2> HIDE DEF sum
  <2> QED BY <2>1, <2>2
<1> HIDE DEF sum
<1>5. /\ log'.dur = log.dur /\ log'.cur.salt = log.cur.salt
      /\ log'.cur.frames = At(log.cur.frames, Len(x.hdr.sum) + 1, Frame(x.hdr.salt, sum))
  BY <1>2 DEF TypeInv, LogInv, Logs
<1>6. /\ past'.salt = past.salt /\ past'.images = past.images /\ past'.full = past.full
      /\ past'.flight = IF Head(x.w.todo).n > 0 THEN x.image ELSE NoImage
  BY <1>2 DEF TypeInv, PastInv
<1>7. /\ y.pc = "append" /\ y.lock = x.lock /\ y.excl = x.excl /\ y.nCkpt = x.nCkpt
      /\ y.cache = x.cache /\ y.image = x.image /\ y.sp = x.sp
  BY <1>1 DEF ConnType, Goto, ConnFields
<1>8. /\ y.hdr.init = x.hdr.init /\ y.hdr.chg = x.hdr.chg
      /\ y.hdr.mx = x.hdr.mx /\ y.hdr.n = x.hdr.n /\ y.hdr.salt = x.hdr.salt
      /\ y.hdr.sum = sum
  BY <1>1 DEF ConnType, Goto, ConnFields, HdrOK, HdrFields
<1>9. y.w.todo = Tail(x.w.todo) /\ \A f \in WorkFields \ {"todo"} : y.w[f] = x.w[f]
  BY <1>1 DEF ConnType, Goto, ConnFields, WorkOK, WorkFields
<1> HIDE DEF y
<1>10. con'[c] = y /\ Only(c)
  BY <1>4, StepOf DEF Only
<1> QED BY <1>2, <1>3, <1>5, <1>6, <1>7, <1>8, <1>9, <1>10 DEF sum

LEMMA EndFramesEffect ==
  ASSUME TypeInv, NEW c \in Conn, EndFrames(c)
  PROVE  LET x == con[c]  y == con'[c] IN
         /\ Only(c) /\ UNCHANGED <<file, past>> /\ x.pc = "append" /\ x.w.todo = <<>>
         /\ x.excl = {WRITE}
         /\ log'.cur = log.cur /\ (log'.dur = log.dur \/ log'.dur = log.cur)
         /\ y.pc = IF x.w.commit THEN "commitHdr" ELSE "read"
         /\ y.hdr.init /\ y.hdr.mx = Len(x.hdr.sum) /\ y.hdr.sum = x.hdr.sum
         /\ y.hdr.salt = x.hdr.salt
         /\ y.hdr.chg = IF x.w.commit THEN x.hdr.chg + 1 ELSE x.hdr.chg
         /\ y.hdr.n = IF x.w.commit THEN Last(x.hdr.sum).n ELSE x.hdr.n
         /\ y.w = NoWork
         /\ y.lock = x.lock /\ y.excl = x.excl /\ y.nCkpt = x.nCkpt /\ y.cache = x.cache
         /\ y.image = x.image /\ y.sp = x.sp
         /\ shm'.h0 = shm.h0 /\ shm'.nBackfill = shm.nBackfill /\ shm'.mark = shm.mark
         /\ shm'.h1 = IF x.w.commit THEN y.hdr ELSE shm.h1
         /\ shm'.pgno = Appended(x)
<1> DEFINE x == con[c]
           h == [x.hdr EXCEPT !.mx = Len(x.hdr.sum), !.init = TRUE,
                              !.chg = IF x.w.commit THEN @ + 1 ELSE @,
                              !.n = IF x.w.commit THEN Last(x.hdr.sum).n ELSE @]
           y == [Goto(x, IF x.w.commit THEN "commitHdr" ELSE "read") EXCEPT
                    !.hdr = h, !.w = NoWork]
<1>1. ConnType(x)
  BY AtConn
<1>2. /\ x.pc = "append" /\ x.w.todo = <<>> /\ UNCHANGED <<file, past>>
      /\ log' = (IF x.w.commit /\ past.full THEN SyncedLog(log) ELSE log)
      /\ shm' = [shm EXCEPT !.pgno = Appended(x), !.h1 = IF x.w.commit THEN h ELSE @]
      /\ con' = [con EXCEPT ![c] = y]
  BY DEF EndFrames, Pc, Put
<1>3. x.excl = {WRITE}
  BY <1>2, InWrite DEF Logging
<1>4. /\ h.init /\ h.mx = Len(x.hdr.sum) /\ h.sum = x.hdr.sum
      /\ h.salt = x.hdr.salt
      /\ h.chg = (IF x.w.commit THEN x.hdr.chg + 1 ELSE x.hdr.chg)
      /\ h.n = (IF x.w.commit THEN Last(x.hdr.sum).n ELSE x.hdr.n)
  BY <1>1 DEF ConnType, HdrOK, HdrFields
<1> HIDE DEF h
<1>5. log'.cur = log.cur /\ (log'.dur = log.dur \/ log'.dur = log.cur)
  BY <1>2, SyncedLogOK DEF TypeInv
<1>6. /\ y.pc = (IF x.w.commit THEN "commitHdr" ELSE "read")
      /\ y.hdr = h /\ y.w = NoWork
      /\ y.lock = x.lock /\ y.excl = x.excl /\ y.nCkpt = x.nCkpt /\ y.cache = x.cache
      /\ y.image = x.image /\ y.sp = x.sp
  BY <1>1 DEF ConnType, Goto, ConnFields
<1> HIDE DEF y
<1>7. con'[c] = y /\ Only(c)
  BY <1>2, StepOf DEF Only
<1>8. /\ shm'.h0 = shm.h0 /\ shm'.nBackfill = shm.nBackfill /\ shm'.mark = shm.mark
      /\ shm'.h1 = (IF x.w.commit THEN h ELSE shm.h1)
      /\ shm'.pgno = Appended(x)
  BY <1>2 DEF TypeInv, ShmInv
<1> QED BY <1>2, <1>3, <1>4, <1>5, <1>6, <1>7, <1>8

\* y is x after its write transaction.
Finished(y, x, h, img) ==
  /\ y.pc = "read" /\ y.excl = {} /\ y.hdr = h /\ y.image = img /\ y.cache = img
  /\ y.sp = NoSavepoint /\ y.w = NoWork /\ y.lock = x.lock /\ y.nCkpt = x.nCkpt

LEMMA FinishedBy ==
  ASSUME NEW x, ConnType(x), NEW h, NEW img
  PROVE  Finished(EndWrite(x, h, img), x, h, img)
<1> DEFINE y == EndWrite(x, h, img)
<1>1. /\ y.pc = "read" /\ y.excl = {} /\ y.hdr = h /\ y.image = img /\ y.cache = img
      /\ y.sp = NoSavepoint /\ y.w = NoWork /\ y.lock = x.lock /\ y.nCkpt = x.nCkpt
  BY DEF EndWrite, ConnType, Goto, ConnFields
<1> HIDE DEF y
<1>2. Finished(y, x, h, img)
  BY <1>1 DEF Finished
<1> QED BY <1>2 DEF y

LEMMA CommitHdrEffect ==
  ASSUME TypeInv, NEW c \in Conn, CommitHdr(c)
  PROVE  LET x == con[c]  y == con'[c] IN
         /\ Only(c) /\ UNCHANGED <<log, file>> /\ x.pc = "commitHdr" /\ x.excl = {WRITE}
         /\ Finished(y, x, x.hdr, x.image)
         /\ shm'.h0 = x.hdr /\ shm'.h1 = shm.h1 /\ shm'.nBackfill = shm.nBackfill
         /\ shm'.mark = shm.mark /\ shm'.pgno = shm.pgno
         /\ past' = Saw(x.image)
<1> DEFINE x == con[c]
           y == EndWrite(x, x.hdr, x.image)
<1>1. ConnType(x)
  BY AtConn
<1>2. /\ x.pc = "commitHdr" /\ UNCHANGED <<log, file>> /\ con' = [con EXCEPT ![c] = y]
      /\ past' = Saw(x.image)
  BY DEF CommitHdr, Pc, Put
<1>3. Finished(y, x, x.hdr, x.image)
  BY <1>1, FinishedBy
<1> HIDE DEF y
<1>4. con'[c] = y /\ Only(c)
  BY <1>2, StepOf DEF Only
<1>5. shm'.h0 = x.hdr /\ shm'.h1 = shm.h1 /\ shm'.nBackfill = shm.nBackfill
      /\ shm'.mark = shm.mark /\ shm'.pgno = shm.pgno
  BY DEF CommitHdr, TypeInv, ShmInv
<1>6. x.excl = {WRITE}
  BY <1>2, InWrite DEF Logging
<1> QED BY <1>2, <1>3, <1>4, <1>5, <1>6

LEMMA RollbackEffect ==
  ASSUME TypeInv, NEW c \in Conn, Rollback(c)
  PROVE  LET x == con[c]  y == con'[c] IN
         /\ Only(c) /\ UNCHANGED <<log, file, past>> /\ Writing(c) /\ x.excl = {WRITE}
         /\ Finished(y, x, shm.h0, x.cache)
         /\ shm'.h0 = shm.h0 /\ shm'.h1 = shm.h1 /\ shm'.nBackfill = shm.nBackfill
         /\ shm'.mark = shm.mark
         /\ \/ shm'.pgno = shm.pgno /\ x.hdr.mx = shm.h0.mx
            \/ shm'.pgno = CleanupHash(shm.h0.mx) /\ x.hdr.mx # shm.h0.mx
<1> DEFINE x == con[c]
           y == EndWrite(x, shm.h0, x.cache)
<1>1. ConnType(x)
  BY AtConn
<1>2. /\ Writing(c) /\ UNCHANGED <<log, file, past>> /\ con' = [con EXCEPT ![c] = y]
  BY DEF Rollback, Put
<1>3. Finished(y, x, shm.h0, x.cache)
  BY <1>1, FinishedBy
<1> HIDE DEF y
<1>4. con'[c] = y /\ Only(c)
  BY <1>2, StepOf DEF Only
<1>5. /\ shm'.h0 = shm.h0 /\ shm'.h1 = shm.h1 /\ shm'.nBackfill = shm.nBackfill
      /\ shm'.mark = shm.mark
      /\ \/ shm'.pgno = shm.pgno /\ x.hdr.mx = shm.h0.mx
         \/ shm'.pgno = CleanupHash(shm.h0.mx) /\ x.hdr.mx # shm.h0.mx
  BY DEF Rollback, TypeInv, ShmInv
<1>6. x.excl = {WRITE}
  BY <1>2, InWrite DEF Writing, Pc
<1> QED BY <1>2, <1>3, <1>4, <1>5, <1>6

LEMMA SavepointEffect ==
  ASSUME TypeInv, NEW c \in Conn, Savepoint(c)
  PROVE  LET x == con[c]  y == con'[c] IN
         /\ Only(c) /\ UNCHANGED <<shm, log, file, past>> /\ Writing(c) /\ x.excl = {WRITE}
         /\ y.pc = "read" /\ y.sp.mx = x.hdr.mx /\ y.sp.sum = x.hdr.sum
         /\ y.sp.nCkpt = x.nCkpt /\ y.sp.image = x.image
         /\ y.hdr = x.hdr /\ y.lock = x.lock /\ y.excl = x.excl /\ y.nCkpt = x.nCkpt
         /\ y.cache = x.cache /\ y.image = x.image /\ y.w = x.w
<1> DEFINE x == con[c]
           s == [mx |-> x.hdr.mx, sum |-> x.hdr.sum, nCkpt |-> x.nCkpt, image |-> x.image]
           y == [x EXCEPT !.sp = s]
<1>1. ConnType(x)
  BY AtConn
<1>2. /\ Writing(c) /\ UNCHANGED <<shm, log, file, past>> /\ con' = [con EXCEPT ![c] = y]
  BY DEF Savepoint, Put
<1>3. /\ s.mx = x.hdr.mx /\ s.sum = x.hdr.sum /\ s.nCkpt = x.nCkpt /\ s.image = x.image
  OBVIOUS
<1> HIDE DEF s
<1>4. /\ y.pc = x.pc /\ y.sp = s
      /\ y.hdr = x.hdr /\ y.lock = x.lock /\ y.excl = x.excl /\ y.nCkpt = x.nCkpt
      /\ y.cache = x.cache /\ y.image = x.image /\ y.w = x.w
  BY <1>1 DEF ConnType, ConnFields
<1> HIDE DEF y
<1>5. con'[c] = y /\ Only(c)
  BY <1>2, StepOf DEF Only
<1>6. x.excl = {WRITE}
  BY <1>2, InWrite DEF Writing, Pc
<1> QED BY <1>2, <1>3, <1>4, <1>5, <1>6 DEF Writing, Pc

LEMMA SavepointUndoEffect ==
  ASSUME TypeInv, NEW c \in Conn, SavepointUndo(c)
  PROVE  LET x == con[c]
             y == con'[c]
             mx == UndoFrame(x)
         IN
         /\ Only(c) /\ UNCHANGED <<log, file, past>> /\ Writing(c) /\ x.excl = {WRITE}
         /\ x.sp # NoSavepoint
         /\ y.pc = "read" /\ y.sp.mx = mx /\ y.sp.sum = x.sp.sum
         /\ y.sp.nCkpt = x.nCkpt /\ y.sp.image = x.sp.image /\ y.image = x.sp.image
         /\ y.lock = x.lock /\ y.excl = x.excl /\ y.nCkpt = x.nCkpt
         /\ y.cache = x.cache /\ y.w = x.w
         /\ ~(mx < x.hdr.mx) => y.hdr = x.hdr
         /\ mx < x.hdr.mx =>
              /\ y.hdr.init = x.hdr.init /\ y.hdr.chg = x.hdr.chg /\ y.hdr.mx = mx
              /\ y.hdr.n = x.hdr.n /\ y.hdr.salt = x.hdr.salt /\ y.hdr.sum = x.sp.sum
         /\ shm'.h0 = shm.h0 /\ shm'.h1 = shm.h1 /\ shm'.nBackfill = shm.nBackfill
         /\ shm'.mark = shm.mark
         /\ shm'.pgno = IF mx < x.hdr.mx THEN CleanupHash(mx) ELSE shm.pgno
<1> DEFINE x  == con[c]
           mx == UndoFrame(x)
           h  == IF mx < x.hdr.mx THEN [x.hdr EXCEPT !.mx = mx, !.sum = x.sp.sum] ELSE x.hdr
           y  == [x EXCEPT !.sp.mx = mx, !.sp.nCkpt = x.nCkpt, !.image = x.sp.image, !.hdr = h]
<1>1. ConnType(x)
  BY AtConn
<1>2. /\ Writing(c) /\ x.sp # NoSavepoint /\ UNCHANGED <<log, file, past>>
      /\ con' = [con EXCEPT ![c] = y]
      /\ shm' = IF mx < x.hdr.mx THEN [shm EXCEPT !.pgno = CleanupHash(mx)] ELSE shm
  <2>1. con' = [con EXCEPT ![c] = [x EXCEPT
                  !.sp.mx = mx, !.sp.nCkpt = x.nCkpt, !.image = x.sp.image,
                  !.hdr = IF mx < x.hdr.mx
                          THEN [x.hdr EXCEPT !.mx = mx, !.sum = x.sp.sum] ELSE @]]
    BY DEF SavepointUndo, Put
  <2> HIDE DEF mx
  <2>2. con' = [con EXCEPT ![c] = y]
    BY <2>1
  <2> QED BY <2>2 DEF SavepointUndo, mx
<1>3. x.excl = {WRITE}
  BY <1>2, InWrite DEF Writing, Pc
<1> HIDE DEF mx
<1>4. /\ ~(mx < x.hdr.mx) => h = x.hdr
      /\ mx < x.hdr.mx =>
           /\ h.init = x.hdr.init /\ h.chg = x.hdr.chg /\ h.mx = mx
           /\ h.n = x.hdr.n /\ h.salt = x.hdr.salt /\ h.sum = x.sp.sum
  BY <1>1 DEF ConnType, HdrOK, HdrFields
<1> HIDE DEF h
<1>5. /\ y.pc = x.pc /\ y.hdr = h /\ y.image = x.sp.image
      /\ y.lock = x.lock /\ y.excl = x.excl /\ y.nCkpt = x.nCkpt
      /\ y.cache = x.cache /\ y.w = x.w
  BY <1>1 DEF ConnType, ConnFields
<1>6. y.sp.mx = mx /\ y.sp.sum = x.sp.sum /\ y.sp.nCkpt = x.nCkpt /\ y.sp.image = x.sp.image
  BY <1>1 DEF ConnType, ConnFields, SpOK, SavepointFields
<1> HIDE DEF y
<1>7. con'[c] = y /\ Only(c)
  BY <1>2, StepOf DEF Only
<1>8. /\ shm'.h0 = shm.h0 /\ shm'.h1 = shm.h1 /\ shm'.nBackfill = shm.nBackfill
      /\ shm'.mark = shm.mark
      /\ shm'.pgno = IF mx < x.hdr.mx THEN CleanupHash(mx) ELSE shm.pgno
  BY <1>2 DEF TypeInv, ShmInv
<1> QED BY <1>2, <1>3, <1>4, <1>5, <1>6, <1>7, <1>8 DEF Writing, Pc, mx

\* A checkpoint begins.
LEMMA CkptBeginEffect ==
  ASSUME TypeInv, NEW c \in Conn, NEW block, CkptBegin(c, block)
  PROVE  LET x == con[c]  y == con'[c] IN
         /\ Only(c) /\ UNCHANGED <<shm, log, file, past>> /\ x.pc = "idle" /\ c \in Checkpointers
         /\ ~x.w.ckpt
         /\ y.pc = "ckptHdr" /\ CKPT \in y.excl /\ y.excl \subseteq {CKPT, WRITE}
         /\ \A f \in WorkFields \ {"ckpt"} : y.w[f] = x.w[f]
         /\ y.hdr = x.hdr /\ y.lock = x.lock /\ y.nCkpt = x.nCkpt
         /\ y.cache = x.cache /\ y.image = x.image /\ y.sp = x.sp
<1> DEFINE x == con[c]
           e == IF block /\ ExclFree(c, {WRITE}) THEN {CKPT, WRITE} ELSE {CKPT}
           y == [Goto(x, "ckptHdr") EXCEPT !.excl = e, !.w.ckpt = TRUE]
<1>1. ConnType(x) /\ Phase(c, x)
  BY AtConn
<1>2. /\ x.pc = "idle" /\ c \in Checkpointers /\ UNCHANGED <<shm, log, file, past>>
      /\ con' = [con EXCEPT ![c] = y]
  BY DEF CkptBegin, Pc, Put
<1>3. ~x.w.ckpt
  BY <1>1, <1>2 DEF Phase, Checkpointing, Recovering
<1>4. CKPT \in e /\ e \subseteq {CKPT, WRITE}
  OBVIOUS
<1> HIDE DEF e
<1>5. /\ y.pc = "ckptHdr" /\ y.excl = e
      /\ \A f \in WorkFields \ {"ckpt"} : y.w[f] = x.w[f]
      /\ y.hdr = x.hdr /\ y.lock = x.lock /\ y.nCkpt = x.nCkpt
      /\ y.cache = x.cache /\ y.image = x.image /\ y.sp = x.sp
  BY <1>1 DEF ConnType, Goto, ConnFields, WorkOK, WorkFields
<1> HIDE DEF y
<1>6. con'[c] = y /\ Only(c)
  BY <1>2, StepOf DEF Only
<1> QED BY <1>2, <1>3, <1>4, <1>5, <1>6

LEMMA CkptHdrEffect ==
  ASSUME TypeInv, NEW c \in Conn, CkptHdr(c)
  PROVE  LET x == con[c]  y == con'[c] IN
         /\ Only(c) /\ UNCHANGED <<shm, log, file, past>> /\ x.pc = "ckptHdr" /\ x.w.ckpt
         /\ \/ GoodHdr /\ y.pc = "ckptTest" /\ Loaded(y, x, shm.h0) /\ y.excl = x.excl
            \/ /\ ~GoodHdr /\ y.pc = "retryHdr" /\ y.excl = x.excl \cup {WRITE}
               /\ ExclFree(c, {WRITE}) /\ Moved(y, x)
            \/ ~GoodHdr /\ y.pc = "ckptEnd" /\ y.excl = x.excl /\ Moved(y, x)
<1> DEFINE x == con[c]
<1>1. ConnType(x) /\ Phase(c, x) /\ HdrOK(shm.h0)
  BY AtConn
<1>2. x.pc = "ckptHdr" /\ UNCHANGED <<shm, log, file, past>>
  BY DEF CkptHdr, Pc
<1>3. x.w.ckpt
  BY <1>2, InCkpt DEF Checkpointing
<1>4. CASE GoodHdr /\ con' = [con EXCEPT ![c] = Goto(LoadHdr(x), "ckptTest")]
  <2> DEFINE y == Goto(LoadHdr(x), "ckptTest")
  <2>1. ConnType(LoadHdr(x)) /\ LoadHdr(x).excl = x.excl
    BY <1>1, NewHdrFields DEF LoadHdr, ConnFields
  <2>2. y.pc = "ckptTest" /\ y.excl = x.excl /\ Moved(y, LoadHdr(x))
    BY <2>1, MovedTo
  <2>3. con'[c] = y /\ Only(c)
    BY <1>4, StepOf DEF Only
  <2> HIDE DEF y
  <2>4. Loaded(y, x, shm.h0)
    BY <1>1, <2>2, LoadedBy DEF LoadHdr, Moved
  <2> QED BY <1>2, <1>3, <1>4, <2>1, <2>2, <2>3, <2>4 DEF Moved
<1>5. CASE ~GoodHdr /\ ExclFree(c, {WRITE})
           /\ con' = [con EXCEPT ![c] = [Goto(x, "retryHdr") EXCEPT !.excl = @ \cup {WRITE}]]
  <2> DEFINE y == [Goto(x, "retryHdr") EXCEPT !.excl = @ \cup {WRITE}]
  <2>1. y.pc = "retryHdr" /\ y.excl = x.excl \cup {WRITE} /\ Moved(y, x)
    BY <1>1 DEF ConnType, Goto, ConnFields, Moved
  <2>2. con'[c] = y /\ Only(c)
    BY <1>5, StepOf DEF Only
  <2> HIDE DEF y
  <2> QED BY <1>2, <1>3, <1>5, <2>1, <2>2
<1>6. CASE ~GoodHdr /\ con' = [con EXCEPT ![c] = Goto(x, "ckptEnd")]
  <2> DEFINE y == Goto(x, "ckptEnd")
  <2>1. y.pc = "ckptEnd" /\ y.excl = x.excl /\ Moved(y, x)
    BY <1>1, MovedTo
  <2>2. con'[c] = y /\ Only(c)
    BY <1>6, StepOf DEF Only
  <2> HIDE DEF y
  <2> QED BY <1>2, <1>3, <1>6, <2>1, <2>2
<1> QED BY <1>4, <1>5, <1>6, Zenon DEF CkptHdr, Put

LEMMA CkptTestEffect ==
  ASSUME TypeInv, NEW c \in Conn, CkptTest(c)
  PROVE  LET x == con[c]  y == con'[c] IN
         /\ Only(c) /\ UNCHANGED <<shm, log, file, past>> /\ x.pc = "ckptTest" /\ x.w.ckpt
         /\ y.excl = x.excl
         /\ \/ y.pc = "ckptEnd" /\ Moved(y, x)
            \/ /\ shm.nBackfill < x.hdr.mx
               /\ y.pc = "ckptMark" /\ y.w.iter = Iterator(x.hdr.mx) /\ y.w.safe = x.hdr.mx
               /\ y.w.mxI = 1
               /\ \A f \in WorkFields \ {"iter", "safe", "mxI"} : y.w[f] = x.w[f]
               /\ y.hdr = x.hdr /\ y.lock = x.lock /\ y.nCkpt = x.nCkpt
               /\ y.cache = x.cache /\ y.image = x.image /\ y.sp = x.sp
<1> DEFINE x == con[c]
<1>1. ConnType(x)
  BY AtConn
<1>2. x.pc = "ckptTest" /\ UNCHANGED <<shm, log, file, past>>
  BY DEF CkptTest, Pc
<1>3. x.w.ckpt
  BY <1>2, InCkpt DEF Checkpointing
<1>4. CASE con' = [con EXCEPT ![c] = Goto(x, "ckptEnd")]
  <2> DEFINE y == Goto(x, "ckptEnd")
  <2>1. y.pc = "ckptEnd" /\ y.excl = x.excl /\ Moved(y, x)
    BY <1>1, MovedTo
  <2>2. con'[c] = y /\ Only(c)
    BY <1>4, StepOf DEF Only
  <2> HIDE DEF y
  <2> QED BY <1>2, <1>3, <2>1, <2>2
<1>5. CASE /\ ~(shm.nBackfill >= x.hdr.mx)
           /\ con' = [con EXCEPT ![c] = [Goto(x, "ckptMark") EXCEPT
                        !.w.iter = Iterator(x.hdr.mx), !.w.safe = x.hdr.mx, !.w.mxI = 1]]
  <2> DEFINE it == Iterator(x.hdr.mx)
             y  == [Goto(x, "ckptMark") EXCEPT !.w.iter = it, !.w.safe = x.hdr.mx, !.w.mxI = 1]
  <2>1. con'[c] = y /\ Only(c)
    BY <1>5, StepOf DEF Only
  <2>2. shm.nBackfill < x.hdr.mx
    <3>1. shm.nBackfill \in Nat /\ x.hdr.mx \in Nat
      BY <1>1, Constants DEF ConnType, HdrOK, TypeInv, ShmInv
    <3> QED BY <1>5, <3>1
  <2> HIDE DEF it
  <2>3. /\ y.pc = "ckptMark" /\ y.w.iter = it /\ y.w.safe = x.hdr.mx
        /\ y.w.mxI = 1 /\ y.excl = x.excl
        /\ \A f \in WorkFields \ {"iter", "safe", "mxI"} : y.w[f] = x.w[f]
        /\ y.hdr = x.hdr /\ y.lock = x.lock /\ y.nCkpt = x.nCkpt
        /\ y.cache = x.cache /\ y.image = x.image /\ y.sp = x.sp
    BY <1>1 DEF ConnType, Goto, ConnFields, WorkOK, WorkFields
  <2> HIDE DEF y
  <2> QED BY <1>2, <1>3, <2>1, <2>2, <2>3 DEF it
<1> QED BY <1>4, <1>5 DEF CkptTest, Put

LEMMA CkptMarkEffect ==
  ASSUME TypeInv, NEW c \in Conn, CkptMark(c)
  PROVE  LET x    == con[c]
             y    == con'[c]
             i    == x.w.mxI
             busy == ~ExclFree(c, {READ(i)})
         IN
         /\ Only(c) /\ UNCHANGED <<log, file, past>> /\ x.pc = "ckptMark" /\ i \in Marks
         /\ x.w.ckpt
         /\ shm'.h0 = shm.h0 /\ shm'.h1 = shm.h1 /\ shm'.nBackfill = shm.nBackfill
         /\ shm'.pgno = shm.pgno
         /\ shm'.mark = IF x.w.safe > shm.mark[i] /\ ~busy
                        THEN [shm.mark EXCEPT ![i] = IF i = 1 THEN x.w.safe ELSE NotUsed]
                        ELSE shm.mark
         /\ y.pc = IF i + 1 \in Marks THEN "ckptMark" ELSE "ckptLock0"
         /\ y.w.mxI = IF i + 1 \in Marks THEN i + 1 ELSE 0
         /\ y.w.safe = SafeFrame(x.w.safe, shm.mark[i], busy)
         /\ \A f \in WorkFields \ {"safe", "mxI"} : y.w[f] = x.w[f]
         /\ y.hdr = x.hdr /\ y.lock = x.lock /\ y.nCkpt = x.nCkpt /\ y.excl = x.excl
         /\ y.cache = x.cache /\ y.image = x.image /\ y.sp = x.sp
<1> DEFINE x    == con[c]
           i    == x.w.mxI
           m    == shm.mark[i]
           busy == ~ExclFree(c, {READ(i)})
           s    == SafeFrame(x.w.safe, m, busy)
           pc   == IF i + 1 \in Marks THEN "ckptMark" ELSE "ckptLock0"
           j    == IF i + 1 \in Marks THEN i + 1 ELSE 0
           y    == [Goto(x, pc) EXCEPT !.w.safe = s, !.w.mxI = j]
           v    == IF i = 1 THEN x.w.safe ELSE NotUsed
<1>1. ConnType(x) /\ Phase(c, x)
  BY AtConn
<1>2. /\ x.pc = "ckptMark" /\ UNCHANGED <<log, file, past>>
      /\ con' = [con EXCEPT ![c] = [Goto(x, pc) EXCEPT !.w.safe = SafeFrame(@, m, busy),
                                                       !.w.mxI = j]]
  BY DEF CkptMark, Pc, Put
<1>3. shm' = IF x.w.safe > m /\ ~busy
             THEN [shm EXCEPT !.mark[i] = v] ELSE shm
  BY DEF CkptMark
<1>4. x.w.ckpt /\ i \in Marks
  BY <1>1, <1>2, InCkpt DEF Checkpointing, Phase
<1>5. con' = [con EXCEPT ![c] = y]
  <2>1. Goto(x, pc).w.safe = x.w.safe /\ "safe" \in DOMAIN Goto(x, pc).w
        /\ "w" \in DOMAIN Goto(x, pc)
    BY <1>1 DEF ConnType, Goto, ConnFields, WorkOK, WorkFields
  <2> HIDE DEF pc, j, m, busy
  <2> QED BY <1>2, <2>1
<1> HIDE DEF busy, v
<1>6. /\ shm'.h0 = shm.h0 /\ shm'.h1 = shm.h1 /\ shm'.nBackfill = shm.nBackfill
      /\ shm'.pgno = shm.pgno
      /\ shm'.mark = IF x.w.safe > m /\ ~busy THEN [shm.mark EXCEPT ![i] = v] ELSE shm.mark
  BY <1>3 DEF TypeInv, ShmInv
<1> HIDE DEF s, pc, j
<1>7. /\ y.pc = pc /\ y.w.mxI = j /\ y.w.safe = s
      /\ \A f \in WorkFields \ {"safe", "mxI"} : y.w[f] = x.w[f]
      /\ y.hdr = x.hdr /\ y.lock = x.lock /\ y.nCkpt = x.nCkpt /\ y.excl = x.excl
      /\ y.cache = x.cache /\ y.image = x.image /\ y.sp = x.sp
  BY <1>1 DEF ConnType, Goto, ConnFields, WorkOK, WorkFields
<1> HIDE DEF y
<1>8. con'[c] = y /\ Only(c)
  BY <1>5, StepOf DEF Only
<1> QED BY <1>2, <1>4, <1>6, <1>7, <1>8 DEF s, pc, j, busy, v

LEMMA CkptLock0Effect ==
  ASSUME TypeInv, NEW c \in Conn, CkptLock0(c)
  PROVE  LET x == con[c]  y == con'[c] IN
         /\ Only(c) /\ UNCHANGED <<shm, file, past>> /\ x.pc = "ckptLock0" /\ x.w.ckpt
         /\ log'.cur = log.cur /\ (log'.dur = log.dur \/ log'.dur = log.cur)
         /\ \/ y.pc = "ckptEnd" /\ y.excl = x.excl /\ Moved(y, x)
            \/ /\ shm.nBackfill < x.w.safe /\ ExclFree(c, {READ(0)})
               /\ y.pc = "ckptWrite" /\ y.excl = x.excl \cup {READ(0)}
               /\ y.w.iter = [f \in 1..MaxFrame |->
                                IF f > shm.nBackfill /\ f <= x.w.safe /\ x.w.iter[f] <= x.hdr.n
                                THEN x.w.iter[f] ELSE 0]
               /\ \A f \in WorkFields \ {"iter"} : y.w[f] = x.w[f]
               /\ y.hdr = x.hdr /\ y.lock = x.lock /\ y.nCkpt = x.nCkpt
               /\ y.cache = x.cache /\ y.image = x.image /\ y.sp = x.sp
<1> DEFINE x  == con[c]
           go == shm.nBackfill < x.w.safe /\ ExclFree(c, {READ(0)})
           iter == [f \in 1..MaxFrame |->
                      IF f > shm.nBackfill /\ f <= x.w.safe /\ x.w.iter[f] <= x.hdr.n
                      THEN x.w.iter[f] ELSE 0]
<1>1. ConnType(x)
  BY AtConn
<1>2. /\ x.pc = "ckptLock0" /\ UNCHANGED <<shm, file, past>>
      /\ log' = (IF go THEN SyncedLog(log) ELSE log)
      /\ con' = [con EXCEPT ![c] = IF go THEN [Goto(x, "ckptWrite") EXCEPT
                     !.excl = @ \cup {READ(0)}, !.w.iter = iter] ELSE Goto(x, "ckptEnd")]
  BY DEF CkptLock0, Pc, Put, SyncForCkpt
<1>3. x.w.ckpt
  BY <1>2, InCkpt DEF Checkpointing
<1>4. log'.cur = log.cur /\ (log'.dur = log.dur \/ log'.dur = log.cur)
  BY <1>2, SyncedLogOK DEF TypeInv
<1> HIDE DEF iter
<1>5. CASE go
  <2> DEFINE y == [Goto(x, "ckptWrite") EXCEPT !.excl = @ \cup {READ(0)}, !.w.iter = iter]
  <2>1. con' = [con EXCEPT ![c] = y]
    BY <1>2, <1>5
  <2>2. /\ y.pc = "ckptWrite" /\ y.excl = x.excl \cup {READ(0)} /\ y.w.iter = iter
        /\ \A f \in WorkFields \ {"iter"} : y.w[f] = x.w[f]
        /\ y.hdr = x.hdr /\ y.lock = x.lock /\ y.nCkpt = x.nCkpt
        /\ y.cache = x.cache /\ y.image = x.image /\ y.sp = x.sp
    BY <1>1 DEF ConnType, Goto, ConnFields, WorkOK, WorkFields
  <2> HIDE DEF y
  <2>3. con'[c] = y /\ Only(c)
    BY <2>1, StepOf DEF Only
  <2> QED BY <1>2, <1>3, <1>4, <1>5, <2>2, <2>3 DEF iter
<1>6. CASE ~go
  <2> DEFINE y == Goto(x, "ckptEnd")
  <2>1. con' = [con EXCEPT ![c] = y]
    BY <1>2, <1>6
  <2>2. y.pc = "ckptEnd" /\ y.excl = x.excl /\ Moved(y, x)
    BY <1>1, MovedTo
  <2> HIDE DEF y, go
  <2>3. con'[c] = y /\ Only(c)
    BY <2>1, StepOf DEF Only
  <2> QED BY <1>2, <1>3, <1>4, <2>2, <2>3
<1> QED BY <1>5, <1>6

LEMMA CkptWriteEffect ==
  ASSUME TypeInv, NEW c \in Conn, CkptWrite(c), DOMAIN file = {"cur", "dur"}
  PROVE  LET x  == con[c]
             y  == con'[c]
             fs == {f \in 1..MaxFrame : x.w.iter[f] > 0}
             p  == Min({x.w.iter[f] : f \in fs})
             f  == CHOOSE g \in fs : x.w.iter[g] = p
         IN
         /\ Only(c) /\ UNCHANGED <<shm, log, past>> /\ x.pc = "ckptWrite" /\ x.w.ckpt
         /\ fs # {}
         /\ file'.dur = file.dur /\ DOMAIN file' = {"cur", "dur"}
         /\ file'.cur = [k \in 1..Max({Len(file.cur), p}) |->
                           IF k = p THEN PageIn(log.cur, f) ELSE PageAt(file.cur, k)]
         /\ y.pc = x.pc /\ y.excl = x.excl /\ y.w.iter = [x.w.iter EXCEPT ![f] = 0]
         /\ \A g \in WorkFields \ {"iter"} : y.w[g] = x.w[g]
         /\ y.hdr = x.hdr /\ y.lock = x.lock /\ y.nCkpt = x.nCkpt
         /\ y.cache = x.cache /\ y.image = x.image /\ y.sp = x.sp
<1> DEFINE x  == con[c]
           fs == {f \in 1..MaxFrame : x.w.iter[f] > 0}
           p  == Min({x.w.iter[f] : f \in fs})
           f  == CHOOSE g \in fs : x.w.iter[g] = p
           y  == [x EXCEPT !.w.iter[f] = 0]
           v  == PageIn(log.cur, f)
<1>1. ConnType(x)
  BY AtConn
<1>2. /\ x.pc = "ckptWrite" /\ fs # {} /\ UNCHANGED <<shm, log, past>>
      /\ file' = [file EXCEPT !.cur = [k \in 1..Max({Len(@), p}) |->
                                     IF k = p THEN PageIn(log.cur, f) ELSE PageAt(@, k)]]
      /\ con' = [con EXCEPT ![c] = y]
  BY DEF CkptWrite, Pc, Put
<1>3. x.w.ckpt
  BY <1>2, InCkpt DEF Checkpointing
<1> HIDE DEF f, p, fs
<1>4. /\ file'.dur = file.dur /\ DOMAIN file' = {"cur", "dur"}
      /\ file'.cur = [k \in 1..Max({Len(file.cur), p}) |->
                        IF k = p THEN PageIn(log.cur, f) ELSE PageAt(file.cur, k)]
  BY <1>2
<1>5. /\ y.pc = x.pc /\ y.excl = x.excl /\ y.w.iter = [x.w.iter EXCEPT ![f] = 0]
      /\ \A g \in WorkFields \ {"iter"} : y.w[g] = x.w[g]
      /\ y.hdr = x.hdr /\ y.lock = x.lock /\ y.nCkpt = x.nCkpt
      /\ y.cache = x.cache /\ y.image = x.image /\ y.sp = x.sp
  BY <1>1 DEF ConnType, ConnFields, WorkOK, WorkFields
<1> HIDE DEF y
<1>6. con'[c] = y /\ Only(c)
  BY <1>2, StepOf DEF Only
<1> QED BY <1>2, <1>3, <1>4, <1>5, <1>6 DEF f, p, fs

LEMMA CkptDoneEffect ==
  ASSUME TypeInv, NEW c \in Conn, CkptDone(c), DOMAIN file = {"cur", "dur"}
  PROVE  LET x == con[c]  y == con'[c] IN
         /\ Only(c) /\ UNCHANGED <<log, past>> /\ x.pc = "ckptWrite" /\ x.w.ckpt
         /\ \A f \in 1..MaxFrame : x.w.iter[f] = 0
         /\ DOMAIN file' = {"cur", "dur"}
         /\ \/ x.w.safe # shm.h0.mx /\ file' = file
            \/ /\ x.w.safe = shm.h0.mx /\ file'.dur = file'.cur
               /\ file'.cur = [k \in 1..x.hdr.n |-> PageAt(file.cur, k)]
         /\ shm'.h0 = shm.h0 /\ shm'.h1 = shm.h1 /\ shm'.nBackfill = x.w.safe
         /\ shm'.mark = shm.mark /\ shm'.pgno = shm.pgno
         /\ y.pc = "ckptEnd" /\ y.excl = x.excl \ {READ(0)} /\ Moved(y, x)
<1> DEFINE x == con[c]
           y == [Goto(x, "ckptEnd") EXCEPT !.excl = @ \ {READ(0)}]
<1>1. ConnType(x)
  BY AtConn
<1>2. /\ x.pc = "ckptWrite" /\ UNCHANGED <<log, past>>
      /\ \A f \in 1..MaxFrame : x.w.iter[f] = 0
      /\ file' = (IF x.w.safe = shm.h0.mx THEN Settled(file, x.hdr.n) ELSE file)
      /\ shm' = [shm EXCEPT !.nBackfill = x.w.safe] /\ con' = [con EXCEPT ![c] = y]
  BY DEF CkptDone, Pc, Put
<1>3. x.w.ckpt
  BY <1>2, InCkpt DEF Checkpointing
<1>4. y.pc = "ckptEnd" /\ y.excl = x.excl \ {READ(0)} /\ Moved(y, x)
  BY <1>1 DEF ConnType, Goto, ConnFields, Moved
<1> HIDE DEF y
<1>5. con'[c] = y /\ Only(c)
  BY <1>2, StepOf DEF Only
<1>6. /\ shm'.h0 = shm.h0 /\ shm'.h1 = shm.h1 /\ shm'.nBackfill = x.w.safe
      /\ shm'.mark = shm.mark /\ shm'.pgno = shm.pgno
  BY <1>2 DEF TypeInv, ShmInv
<1>7. x.w.safe = shm.h0.mx =>
        /\ file'.dur = file'.cur /\ DOMAIN file' = {"cur", "dur"}
        /\ file'.cur = [k \in 1..x.hdr.n |-> PageAt(file.cur, k)]
  <2> SUFFICES ASSUME x.w.safe = shm.h0.mx
               PROVE  /\ file'.dur = file'.cur /\ DOMAIN file' = {"cur", "dur"}
                      /\ file'.cur = [k \in 1..x.hdr.n |-> PageAt(file.cur, k)]
    OBVIOUS
  <2> DEFINE g == [file EXCEPT !.cur = [k \in 1..x.hdr.n |-> PageAt(@, k)]]
  <2>1. file' = [g EXCEPT !.dur = g.cur]
    BY <1>2 DEF Settled, Synced
  <2>2. DOMAIN g = {"cur", "dur"} /\ g.cur = [k \in 1..x.hdr.n |-> PageAt(file.cur, k)]
    OBVIOUS
  <2> HIDE DEF g
  <2> QED BY <2>1, <2>2
<1> QED BY <1>2, <1>3, <1>4, <1>5, <1>6, <1>7

\* Every connection is closed, and the wal-index gone.
AllClosed == (\A c \in Conn : con[c] = Closed) /\ shm = EmptyShm

LEMMA CkptEndEffect ==
  ASSUME TypeInv, NEW c \in Conn, CkptEnd(c)
  PROVE  LET x == con[c]  y == con'[c] IN
         /\ x.pc = "ckptEnd" /\ x.w.ckpt /\ UNCHANGED <<file, past>>
         /\ \/ AllClosed' /\ log'.cur = NoLog /\ log'.dur = log.dur
            \/ /\ Only(c) /\ UNCHANGED <<shm, log>>
               /\ y.pc = "idle" /\ y.excl = {} /\ y.lock = 0 - 1 /\ y.image = NoImage
               /\ y.sp = NoSavepoint /\ y.w = NoWork /\ y.nCkpt = x.nCkpt
               /\ y.cache = x.cache /\ y.hdr = IF x.w.changed THEN NoHdr ELSE x.hdr
<1> DEFINE x == con[c]
<1>1. ConnType(x)
  BY AtConn
<1>2. x.pc = "ckptEnd" /\ UNCHANGED <<file, past>>
  BY DEF CkptEnd, Pc
<1>3. x.w.ckpt
  BY <1>2, InCkpt DEF Checkpointing
<1>4. CASE x.w.close
  <2>1. /\ con' = [con EXCEPT ![c] = Closed] /\ shm' = EmptyShm
        /\ log' = [log EXCEPT !.cur = NoLog, !.new = TRUE]
    BY <1>4 DEF CkptEnd, Put
  <2>2. log'.cur = NoLog /\ log'.dur = log.dur
    BY <2>1 DEF TypeInv, LogInv
  <2>3. ASSUME NEW d \in Conn PROVE con'[d] = Closed
    <3>1. con'[c] = Closed /\ \A e \in Conn \ {c} : con'[e] = con[e]
      BY <2>1, StepOf
    <3>2. CASE d # c
      <4>1. con[d].pc = "closed"
        BY <1>4, <3>2 DEF TypeInv, LockInv
      <4>2. con[d] = Closed
        BY <4>1, AtConn DEF Phase
      <4> QED BY <3>1, <3>2, <4>2
    <3> QED BY <3>1, <3>2
  <2> QED BY <1>2, <1>3, <2>1, <2>2, <2>3 DEF AllClosed
<1>5. CASE ~x.w.close
  <2> DEFINE h == IF x.w.changed THEN NoHdr ELSE x.hdr
             y == AfterCkpt(x)
  <2>1. con' = [con EXCEPT ![c] = y] /\ UNCHANGED <<shm, log>>
    BY <1>5 DEF CkptEnd, Put
  <2>2. /\ y.hdr = h /\ y.pc = "idle" /\ y.lock = 0 - 1 /\ y.excl = {} /\ y.cache = x.cache
        /\ y.nCkpt = x.nCkpt /\ y.sp = NoSavepoint /\ y.w = NoWork /\ y.image = NoImage
    BY DEF AfterCkpt, Ended, Connected
  <2> HIDE DEF y
  <2>3. con'[c] = y /\ Only(c)
    BY <2>1, StepOf DEF Only
  <2> QED BY <1>2, <1>3, <2>1, <2>2, <2>3
<1> QED BY <1>4, <1>5

LEMMA OpenEffect ==
  ASSUME TypeInv, NEW c \in Conn, Open(c)
  PROVE  /\ Only(c) /\ UNCHANGED <<shm, log, file, past>> /\ con[c].pc = "closed"
         /\ con'[c] = Connected
<1>1. /\ con[c].pc = "closed" /\ con' = [con EXCEPT ![c] = Connected]
      /\ UNCHANGED <<shm, log, file, past>>
  BY DEF Open, Put, Pc
<1> QED BY <1>1, StepOf DEF Only

LEMMA CloseEffect ==
  ASSUME TypeInv, NEW c \in Conn, Close(c)
  PROVE  LET x == con[c]  y == con'[c] IN
         /\ Only(c) /\ UNCHANGED <<shm, log, file, past>> /\ x.pc = "idle" /\ ~x.w.ckpt
         /\ \/ y = Closed
            \/ /\ y.pc = "ckptHdr" /\ y.excl = {CKPT}
               /\ \A f \in WorkFields \ {"ckpt", "close"} : y.w[f] = x.w[f]
               /\ y.hdr = x.hdr /\ y.lock = x.lock /\ y.nCkpt = x.nCkpt
               /\ y.cache = x.cache /\ y.image = x.image /\ y.sp = x.sp
<1> DEFINE x == con[c]
           y == [Goto(x, "ckptHdr") EXCEPT !.excl = {CKPT}, !.w.ckpt = TRUE, !.w.close = TRUE]
<1>1. ConnType(x) /\ Phase(c, x)
  BY AtConn
<1>2. /\ x.pc = "idle" /\ UNCHANGED <<shm, log, file, past>>
      /\ con' = [con EXCEPT ![c] = IF OpenConn = {c} THEN y ELSE Closed]
  BY DEF Close, Pc, Put
<1>3. ~x.w.ckpt
  BY <1>1, <1>2 DEF Phase, Checkpointing, Recovering
<1>4. CASE con' = [con EXCEPT ![c] = y]
  <2>1. /\ y.pc = "ckptHdr" /\ y.excl = {CKPT}
        /\ \A f \in WorkFields \ {"ckpt", "close"} : y.w[f] = x.w[f]
        /\ y.hdr = x.hdr /\ y.lock = x.lock /\ y.nCkpt = x.nCkpt
        /\ y.cache = x.cache /\ y.image = x.image /\ y.sp = x.sp
    BY <1>1 DEF ConnType, Goto, ConnFields, WorkOK, WorkFields
  <2> HIDE DEF y
  <2>2. con'[c] = y /\ Only(c)
    BY <1>4, StepOf DEF Only
  <2> QED BY <1>2, <1>3, <2>1, <2>2
<1>5. CASE con' = [con EXCEPT ![c] = Closed]
  <2>1. con'[c] = Closed /\ Only(c)
    BY <1>5, StepOf DEF Only
  <2> QED BY <1>2, <1>3, <2>1
<1> QED BY <1>2, <1>4, <1>5

\* Some connections die, or all that are left.
LEMMA KillEffect ==
  ASSUME TypeInv, NEW P \in Mortal, Kill(P)
  PROVE  /\ UNCHANGED <<log, file, past>>
         /\ \A c \in Conn : con'[c] = IF c \in P THEN Closed ELSE con[c]
         /\ AllClosed' \/ (shm' = shm /\ ~(Conn \subseteq P))
<1>1. /\ con' = [c \in Conn |-> IF c \in P THEN Closed ELSE con[c]]
      /\ shm' = Left(OpenConn \ P) /\ UNCHANGED <<log, file, past>>
  BY DEF Kill
<1>2. CASE OpenConn \ P = {}
  <2>1. ASSUME NEW d \in Conn PROVE con'[d] = Closed
    <3>1. CASE d \in P
      BY <1>1, <3>1
    <3>2. CASE d \notin P
      <4>1. con[d].pc = "closed"
        BY <1>2, <3>2 DEF OpenConn, Pc
      <4>2. con[d] = Closed
        BY <4>1, AtConn DEF Phase
      <4> QED BY <1>1, <3>2, <4>2
    <3> QED BY <3>1, <3>2
  <2>2. shm' = EmptyShm
    BY <1>1, <1>2 DEF Left
  <2> QED BY <1>1, <2>1, <2>2 DEF AllClosed
<1>3. CASE OpenConn \ P # {}
  <2>1. shm' = shm /\ ~(Conn \subseteq P)
    BY <1>1, <1>3 DEF Left, OpenConn
  <2> QED BY <1>1, <2>1
<1> QED BY <1>2, <1>3

-----------------------------------------------------------------------------
(* The data: images are sequences of versions, the salts in the log files are *)
(* among those in use so far.                                                 *)

Images == Seq(Int)
Pgnos  == [1..MaxFrame -> 0..MaxPage]

HdrData(h) == h.chg \in Nat /\ h.n \in Nat

ConnData(x) ==
  /\ HdrData(x.hdr)
  /\ x.cache \in Images /\ x.image \in Images /\ x.sp.image \in Images
  /\ x.w.iter \in Pgnos /\ x.w.mxMark \in Nat

ShmData  == HdrData(shm.h0) /\ HdrData(shm.h1) /\ shm.pgno \in Pgnos
FileData == DOMAIN file = {"cur", "dur"} /\ file.cur \in Images /\ file.dur \in Images
PastData == /\ past.images \in Seq(Images) /\ past.images # <<>>
            /\ log.cur.salt <= past.salt /\ log.dur.salt <= past.salt

DataInv ==
  /\ \A c \in Conn : ConnData(con[c])
  /\ ShmData /\ FileData /\ PastData

LEMMA NoData ==
  /\ NoImage \in Images /\ NoPgno \in Pgnos /\ HdrData(NoHdr)
  /\ NoWork.iter = NoPgno /\ NoWork.mxMark = 0 /\ NoSavepoint.image = NoImage
BY Constants DEF NoImage, Images, NoPgno, Pgnos, HdrData, NoHdr, Hdr, NoWork, NoSavepoint

LEMMA NewConnData == ConnData(Connected) /\ ConnData(Closed)
<1>1. \A x \in {Connected, Closed} :
        /\ x.hdr = NoHdr /\ x.cache = NoImage /\ x.image = NoImage /\ x.sp = NoSavepoint
        /\ x.w = NoWork
  BY DEF Connected, Closed
<1> QED BY <1>1, NoData DEF ConnData

LEMMA CommittedImage == ASSUME DataInv PROVE Committed \in Images
BY DEF DataInv, PastData, Committed, Last

LEMMA DataStep ==
  ASSUME DataInv, NEW c \in Conn, Only(c), ConnData(con'[c]), ShmData', FileData', PastData'
  PROVE  DataInv'
<1> SUFFICES ASSUME NEW d \in Conn PROVE ConnData(con'[d])
  BY DEF DataInv
<1> QED BY DEF DataInv, Only

\* A step that changes nothing but the connection.
LEMMA DataQuiet ==
  ASSUME DataInv, NEW c \in Conn, Only(c), UNCHANGED <<shm, log, file, past>>, ConnData(con'[c])
  PROVE  DataInv'
<1>1. ShmData' /\ FileData' /\ PastData'
  BY DEF DataInv, ShmData, FileData, PastData
<1> QED BY <1>1, DataStep

LEMMA MovedData ==
  ASSUME NEW x, NEW y, ConnData(x), Moved(y, x)
  PROVE  ConnData(y)
BY DEF ConnData, Moved

LEMMA LoadedData ==
  ASSUME NEW x, NEW y, NEW h, ConnData(x), HdrData(h), Loaded(y, x, h)
  PROVE  ConnData(y)
<1>1. y.w.iter = x.w.iter /\ y.w.mxMark = x.w.mxMark
  BY DEF Loaded, WorkFields
<1>2. y.cache \in Images /\ y.image = x.image /\ y.sp = x.sp /\ y.hdr = h
  BY NoData DEF Loaded, ConnData
<1> QED BY <1>1, <1>2 DEF ConnData

LEMMA RetriedData ==
  ASSUME NEW x, NEW y, ConnData(x), Retried(y, x)
  PROVE  ConnData(y)
BY NoData DEF ConnData, Retried

LEMMA NowReadsData ==
  ASSUME DataInv, NEW x, NEW y, NEW i, ConnData(x), NowReads(y, x, i)
  PROVE  ConnData(y)
<1>1. Committed \in Images
  BY CommittedImage
<1> QED BY <1>1, NoData DEF ConnData, NowReads

LEMMA BeginReadData ==
  ASSUME TypeInv, DataInv, NEW c \in Conn, BeginRead(c) PROVE DataInv'
<1>1. ConnData(con[c]) /\ HdrData(shm.h0)
  BY DEF DataInv, ShmData
<1>2. /\ Only(c) /\ UNCHANGED <<shm, log, file, past>>
      /\ Loaded(con'[c], con[c], shm.h0) \/ Moved(con'[c], con[c])
  BY BeginReadEffect
<1> QED BY <1>1, <1>2, MovedData, LoadedData, DataQuiet

LEMMA RetryHdrData ==
  ASSUME TypeInv, DataInv, NEW c \in Conn, RetryHdr(c) PROVE DataInv'
<1> DEFINE x == con[c]
           y == con'[c]
<1>1. ConnData(x) /\ HdrData(shm.h0)
  BY DEF DataInv, ShmData
<1>2. /\ Only(c) /\ UNCHANGED <<shm, log, file, past>>
      /\ \/ Loaded(y, x, shm.h0) \/ Moved(y, x)
         \/ /\ y.w = NoWork /\ y.hdr = x.hdr /\ y.cache = x.cache /\ y.image = x.image
            /\ y.sp = x.sp
  BY RetryHdrEffect
<1> HIDE DEF x, y
<1>3. ConnData(y)
  BY <1>1, <1>2, MovedData, LoadedData, NoData DEF ConnData
<1> QED BY <1>2, <1>3, DataQuiet DEF y

LEMMA QuietData ==
  ASSUME TypeInv, DataInv, NEW c \in Conn,
         Choose(c) \/ Lock0(c) \/ LockMark(c) \/ EndRead(c) \/ BeginWrite(c) \/ Savepoint(c)
  PROVE  DataInv'
<1> DEFINE x == con[c]
           y == con'[c]
<1>1. ConnData(x)
  BY DEF DataInv
<1>2. CASE Choose(c) \/ Lock0(c) \/ BeginWrite(c)
  <2>1. /\ Only(c) /\ UNCHANGED <<shm, log, file, past>>
        /\ Moved(y, x) \/ Retried(y, x) \/ \E i : NowReads(y, x, i)
    BY <1>2, ChooseEffect, Lock0Effect, BeginWriteEffect
  <2> QED BY <1>1, <2>1, MovedData, RetriedData, NowReadsData, DataQuiet
<1>3. CASE LockMark(c)
  <2>1. Only(c) /\ UNCHANGED <<shm, log, file, past>>
    BY <1>3, LockMarkEffect
  <2>2. \/ Retried(y, x) \/ \E i : NowReads(y, x, i)
        \/ /\ \A f \in WorkFields \ {"mxI", "mxMark"} : y.w[f] = x.w[f]
           /\ y.w.mxMark = 0
           /\ y.hdr = x.hdr /\ y.cache = x.cache /\ y.image = x.image /\ y.sp = x.sp
    BY <1>3, LockMarkEffect
  <2> HIDE DEF x, y
  <2>3. ConnData(y)
    <3>1. CASE Retried(y, x) \/ \E i : NowReads(y, x, i)
      BY <1>1, <3>1, RetriedData, NowReadsData
    <3>2. CASE /\ \A f \in WorkFields \ {"mxI", "mxMark"} : y.w[f] = x.w[f]
               /\ y.w.mxMark = 0
               /\ y.hdr = x.hdr /\ y.cache = x.cache /\ y.image = x.image /\ y.sp = x.sp
      <4>1. y.w.iter = x.w.iter
        BY <3>2 DEF WorkFields
      <4> QED BY <1>1, <3>2, <4>1 DEF ConnData
    <3> QED BY <2>2, <3>1, <3>2
  <2> QED BY <2>1, <2>3, DataQuiet DEF y
<1>4. CASE EndRead(c)
  <2>1. /\ Only(c) /\ UNCHANGED <<shm, log, file, past>> /\ y.hdr = x.hdr /\ y.cache = x.cache
        /\ y.image = NoImage /\ y.sp = NoSavepoint /\ y.w = NoWork
    BY <1>4, EndReadEffect
  <2> HIDE DEF x, y
  <2>2. ConnData(y)
    BY <1>1, <2>1, NoData DEF ConnData
  <2> QED BY <2>1, <2>2, DataQuiet DEF y
<1>5. CASE Savepoint(c)
  <2>1. /\ Only(c) /\ UNCHANGED <<shm, log, file, past>> /\ y.hdr = x.hdr /\ y.cache = x.cache
        /\ y.image = x.image /\ y.sp.image = x.image /\ y.w = x.w
    BY <1>5, SavepointEffect
  <2> HIDE DEF x, y
  <2>2. ConnData(y)
    BY <1>1, <2>1 DEF ConnData
  <2> QED BY <2>1, <2>2, DataQuiet DEF y
<1> QED BY <1>2, <1>3, <1>4, <1>5

\* The last entry of the checksum of a frame is the frame.
LEMMA SumLast ==
  ASSUME NEW s \in Sums, s # <<>>
  PROVE  Len(s) \in 1..MaxFrame /\ Last(s) = s[Len(s)] /\ Last(s) \in Entries
<1>1. Len(s) \in Nat /\ Len(s) <= MaxFrame /\ Len(s) # 0
  BY DEF Sums
<1>2. s[Len(s)] \in Entries
  BY <1>1 DEF Sums
<1> QED BY <1>1, <1>2, Constants DEF Last

LEMMA EntryFields ==
  ASSUME NEW e \in Entries
  PROVE  /\ e.pg \in 1..MaxPage /\ e.ver \in Nat /\ e.n \in 0..MaxPage
         /\ e.pg \in 0..MaxPage /\ e.ver \in Int /\ e.n \in Nat
BY Constants DEF Entries

LEMMA FrameEntry ==
  ASSUME NEW l \in Logs, NEW i \in 1..ValidFrames(l)
  PROVE  /\ i \in 1..Len(l.frames) /\ l.frames[i].sum \in Sums /\ Len(l.frames[i].sum) = i
         /\ Last(l.frames[i].sum) = l.frames[i].sum[i] /\ Last(l.frames[i].sum) \in Entries
<1>1. ValidFrames(l) \in 0..Len(l.frames) /\ Len(l.frames) \in Nat /\ ValidFrame(l, i)
  BY ValidFramesOK DEF Logs
<1>2. i \in 1..Len(l.frames)
  BY <1>1
<1>3. l.frames[i] \in FrameSet
  BY <1>2 DEF Logs
<1>4. l.frames[i].sum \in Sums /\ Len(l.frames[i].sum) = i
  BY <1>1, <1>3 DEF FrameSet, ValidFrame
<1>5. l.frames[i].sum # <<>>
  BY <1>4
<1> QED BY <1>2, <1>4, <1>5, SumLast

LEMMA RecoveredFields ==
  ASSUME NEW l \in Logs
  PROVE  /\ HdrOK(RecoveredHdr(l)) /\ HdrData(RecoveredHdr(l))
         /\ RecoveredHdr(l).mx \in 0..ValidFrames(l)
         /\ RecoveredHdr(l).chg = 0 /\ RecoveredHdr(l).init
         /\ RecoveredHdr(l).salt <= l.salt
         /\ RecoveredHdr(l).mx = 0 => RecoveredHdr(l).n = 0 /\ RecoveredHdr(l).sum = <<>>
         /\ RecoveredHdr(l).mx > 0 =>
              /\ RecoveredHdr(l).sum = l.frames[RecoveredHdr(l).mx].sum
              /\ Len(RecoveredHdr(l).sum) = RecoveredHdr(l).mx
              /\ RecoveredHdr(l).n = Last(RecoveredHdr(l).sum).n
              /\ RecoveredHdr(l).n > 0
<1> DEFINE commits == {i \in 1..ValidFrames(l) : Last(l.frames[i].sum).n > 0}
           mx == Max(commits \cup {0})
           h == RecoveredHdr(l)
<1>1. /\ Len(l.frames) \in Nat /\ l.salt \in Nat
      /\ ValidFrames(l) \in 0..Len(l.frames)
  BY ValidFramesOK DEF Logs
<1>2. mx \in commits \cup {0}
  <2>1. commits \cup {0} \subseteq 0..Len(l.frames) /\ commits \cup {0} # {}
    BY <1>1
  <2> HIDE DEF commits
  <2> QED BY <1>1, <2>1, MaxOf
<1>3. HdrOK(h) /\ h.init
  BY RecoveredHdrOK, RecoveredInit
<1>4. CASE mx = 0
  <2>1. h = Hdr(TRUE, 0, 0, 0, IF HasFrames(l) THEN l.salt ELSE 0, <<>>)
    BY <1>4 DEF RecoveredHdr
  <2>2. h.chg = 0 /\ h.mx = 0 /\ h.n = 0 /\ h.sum = <<>> /\ h.salt <= l.salt
    BY <1>1, <2>1 DEF Hdr
  <2> HIDE DEF h, mx
  <2> QED BY <1>1, <1>3, <2>2 DEF HdrData, h
<1>5. CASE mx # 0
  <2>1. h = Hdr(TRUE, 0, mx, Last(l.frames[mx].sum).n, l.salt, l.frames[mx].sum)
    BY <1>5 DEF RecoveredHdr
  <2>2. mx \in 1..ValidFrames(l) /\ Last(l.frames[mx].sum).n > 0
    BY <1>2, <1>5
  <2>3. /\ h.chg = 0 /\ h.mx = mx /\ h.n = Last(l.frames[mx].sum).n /\ h.salt = l.salt
        /\ h.sum = l.frames[mx].sum
    BY <2>1 DEF Hdr
  <2> HIDE DEF h, mx
  <2>4. Len(l.frames[mx].sum) = mx /\ Last(l.frames[mx].sum).n \in Nat
    BY <2>2, FrameEntry, EntryFields
  <2>5. h.mx \in 0..ValidFrames(l) /\ h.salt <= l.salt
    BY <1>1, <2>2, <2>3
  <2> QED BY <1>3, <2>2, <2>3, <2>4, <2>5 DEF HdrData, h
<1> QED BY <1>4, <1>5

LEMMA PageAtOK == ASSUME NEW db \in Images, NEW p \in Nat \ {0} PROVE PageAt(db, p) \in Int
BY DEF PageAt, Images

LEMMA RecoveredImageOK ==
  ASSUME NEW l \in Logs, NEW db \in Images
  PROVE  RecoveredImage(l, db) \in Images
<1> DEFINE h == RecoveredHdr(l)
           n == IF h.n > 0 THEN h.n ELSE Len(db)
           fs(p) == {f \in 1..h.mx : Last(l.frames[f].sum).pg = p}
           val(p) == IF fs(p) # {} THEN PageIn(l, Max(fs(p))) ELSE PageAt(db, p)
<1>1. h.mx \in 0..ValidFrames(l) /\ HdrData(h)
  BY RecoveredFields
<1>2. ValidFrames(l) \in Nat
  BY ValidFramesOK DEF Logs
<1>3. n \in Nat
  BY <1>1 DEF HdrData, Images
<1>4. ASSUME NEW p \in 1..n PROVE val(p) \in Int
  <2>1. CASE fs(p) # {}
    <3> DEFINE F == fs(p)
    <3>1. F \subseteq 0..h.mx /\ F # {} /\ h.mx \in Nat
      BY <1>1, <1>2, <2>1
    <3>2. Max(F) \in F
      <4> HIDE DEF h, F
      <4> QED BY <3>1, MaxOf
    <3>3. Max(F) \in 1..ValidFrames(l)
      BY <1>1, <1>2, <3>2
    <3> HIDE DEF F
    <3>4. PageIn(l, Max(F)) \in Int
      BY <3>3, FrameEntry, EntryFields DEF PageIn
    <3> QED BY <2>1, <3>4 DEF F
  <2>2. CASE fs(p) = {}
    <3>1. p \in Nat \ {0}
      BY <1>3
    <3> QED BY <2>2, <3>1, PageAtOK
  <2> QED BY <2>1, <2>2
<1>5. RecoveredImage(l, db) = [p \in 1..n |-> val(p)]
  BY DEF RecoveredImage
<1> HIDE DEF n, val
<1> QED BY <1>3, <1>4, <1>5 DEF Images

LEMMA SawOK ==
  ASSUME TypeInv, DataInv, NEW img \in Images
  PROVE  /\ Saw(img).images \in Seq(Images) /\ Saw(img).images # <<>>
         /\ Saw(img).salt = past.salt /\ Last(Saw(img).images) = img
         /\ Saw(img).full = past.full
<1>1. past.images \in Seq(Images) /\ past.images # <<>>
  BY DEF DataInv, PastData
<1> DEFINE s == IF img = Last(past.images) THEN past.images ELSE Append(past.images, img)
<1>2. s \in Seq(Images) /\ s # <<>> /\ Last(s) = img
  <2>1. CASE img = Last(past.images)
    BY <1>1, <2>1
  <2>2. CASE img # Last(past.images)
    BY <1>1, <2>2 DEF Last
  <2> QED BY <2>1, <2>2
<1>3. Saw(img).images = s /\ Saw(img).salt = past.salt /\ Saw(img).full = past.full
  BY DEF Saw, TypeInv, PastInv
<1> QED BY <1>2, <1>3

LEMMA RecoverData ==
  ASSUME TypeInv, DataInv, NEW c \in Conn, Recover(c) PROVE DataInv'
<1> DEFINE x == con[c]
           y == con'[c]
           V == ValidFrames(log.cur)
<1>1. ConnData(x) /\ ShmData /\ FileData /\ PastData /\ log.cur \in Logs
  BY DEF DataInv, TypeInv, LogInv
<1>2. /\ Only(c) /\ UNCHANGED <<log, file, past>>
      /\ y.hdr = RecoveredHdr(log.cur) /\ y.image = x.image /\ y.sp = x.sp
      /\ \A f \in WorkFields \ {"changed"} : y.w[f] = x.w[f]
      /\ y.cache = x.cache \/ y.cache = NoImage
      /\ shm'.h0 = shm.h0 /\ shm'.h1 = y.hdr
      /\ shm'.pgno = IF V = 0 THEN shm.pgno
                     ELSE [f \in 1..MaxFrame |->
                             IF f <= V THEN Last(log.cur.frames[f].sum).pg ELSE 0]
  BY RecoverEffect
<1>3. HdrData(RecoveredHdr(log.cur))
  BY <1>1, RecoveredFields
<1>4. shm'.pgno \in Pgnos
  <2>1. V \in Nat
    BY <1>1, ValidFramesOK DEF Logs
  <2>2. ASSUME NEW f \in 1..MaxFrame
        PROVE  (IF f <= V THEN Last(log.cur.frames[f].sum).pg ELSE 0) \in 0..MaxPage
    <3>1. CASE f <= V
      <4>1. f \in 1..V
        BY <2>1, <3>1
      <4>2. Last(log.cur.frames[f].sum).pg \in 0..MaxPage
        BY <1>1, <4>1, FrameEntry, EntryFields
      <4> QED BY <3>1, <4>2
    <3>2. CASE ~(f <= V)
      BY <3>2, Constants
    <3> QED BY <3>1, <3>2
  <2> HIDE DEF V
  <2> QED BY <1>1, <1>2, <2>2 DEF Pgnos, ShmData
<1> HIDE DEF x, y
<1>5. ConnData(y)
  <2>1. y.w.iter = x.w.iter /\ y.w.mxMark = x.w.mxMark
    BY <1>2 DEF WorkFields
  <2> QED BY <1>1, <1>2, <1>3, <2>1, NoData DEF ConnData
<1>6. ShmData' /\ FileData' /\ PastData'
  BY <1>1, <1>2, <1>3, <1>4 DEF ShmData, FileData, PastData
<1> QED BY <1>2, <1>5, <1>6, DataStep DEF y

\* The wal-index after a change of what is no data.
LEMMA ShmDataKept ==
  ASSUME ShmData, shm'.h0 = shm.h0, shm'.h1 = shm.h1, shm'.pgno = shm.pgno PROVE ShmData'
BY DEF ShmData

LEMMA RecoverHdrData ==
  ASSUME TypeInv, DataInv, NEW c \in Conn, RecoverHdr(c) PROVE DataInv'
<1> DEFINE x == con[c]
           y == con'[c]
           img == RecoveredImage(log.cur, file.cur)
<1>1. ConnData(x) /\ ShmData /\ FileData /\ PastData /\ log.cur \in Logs
  BY DEF DataInv, TypeInv, LogInv
<1>2. /\ Only(c) /\ UNCHANGED <<log, file>> /\ Moved(y, x)
      /\ shm'.h0 = x.hdr /\ shm'.h1 = shm.h1 /\ shm'.pgno = shm.pgno
      /\ past' = Saw(img)
  BY RecoverHdrEffect
<1>3. img \in Images
  BY <1>1, RecoveredImageOK DEF FileData
<1> HIDE DEF img
<1>4. /\ past'.images \in Seq(Images) /\ past'.images # <<>> /\ past'.salt = past.salt
  BY <1>2, <1>3, SawOK
<1>5. ShmData' /\ FileData' /\ PastData'
  BY <1>1, <1>2, <1>4 DEF ShmData, FileData, PastData, ConnData
<1> QED BY <1>1, <1>2, <1>5, DataStep, MovedData

LEMMA RecoverInfoData ==
  ASSUME TypeInv, DataInv, NEW c \in Conn, RecoverInfo(c) PROVE DataInv'
<1>1. ConnData(con[c]) /\ ShmData /\ FileData /\ PastData
  BY DEF DataInv
<1>2. /\ Only(c) /\ UNCHANGED <<log, file, past>> /\ Moved(con'[c], con[c])
      /\ shm'.h0 = shm.h0 /\ shm'.h1 = shm.h1 /\ shm'.pgno = shm.pgno
  BY RecoverInfoEffect
<1>3. ShmData' /\ FileData' /\ PastData'
  BY <1>1, <1>2, ShmDataKept DEF FileData, PastData
<1> QED BY <1>1, <1>2, <1>3, DataStep, MovedData

LEMMA PickData ==
  ASSUME TypeInv, DataInv, NEW c \in Conn, Pick(c) PROVE DataInv'
<1> DEFINE x == con[c]
           y == con'[c]
<1>1. ConnData(x) /\ ShmData /\ FileData /\ PastData
  BY DEF DataInv
<1>2. /\ Only(c) /\ UNCHANGED <<log, file, past>>
      /\ shm'.h0 = shm.h0 /\ shm'.h1 = shm.h1 /\ shm'.pgno = shm.pgno
  BY PickEffect
<1>3. \/ Retried(y, x)
      \/ /\ y.w.mxMark \in Nat
         /\ \A f \in WorkFields \ {"mxI", "mxMark"} : y.w[f] = x.w[f]
         /\ y.hdr = x.hdr /\ y.cache = x.cache /\ y.image = x.image /\ y.sp = x.sp
  BY PickEffect
<1> HIDE DEF x, y
<1>4. ConnData(y)
  <2>1. CASE Retried(y, x)
    BY <1>1, <2>1, RetriedData
  <2>2. CASE /\ y.w.mxMark \in Nat
             /\ \A f \in WorkFields \ {"mxI", "mxMark"} : y.w[f] = x.w[f]
             /\ y.hdr = x.hdr /\ y.cache = x.cache /\ y.image = x.image /\ y.sp = x.sp
    <3>1. y.w.iter = x.w.iter
      BY <2>2 DEF WorkFields
    <3> QED BY <1>1, <2>2, <3>1 DEF ConnData
  <2> QED BY <1>3, <2>1, <2>2
<1>5. ShmData' /\ FileData' /\ PastData'
  BY <1>1, <1>2, ShmDataKept DEF FileData, PastData
<1> QED BY <1>2, <1>4, <1>5, DataStep DEF y

LEMMA ChangedOK ==
  ASSUME NEW img \in Images, NEW S, NEW v \in Nat, NEW n \in Nat
  PROVE  Changed(img, S, v, n) \in Images /\ Len(Changed(img, S, v, n)) = n
<1>1. ASSUME NEW p \in 1..n PROVE (IF p \in S THEN v ELSE PageAt(img, p)) \in Int
  <2>1. p \in Nat \ {0}
    OBVIOUS
  <2> QED BY <2>1, PageAtOK
<1> QED BY <1>1 DEF Changed, Images

\* The size after a spill.
LEMMA SpillSize ==
  ASSUME NEW S \in SUBSET (1..MaxPage), NEW size \in Nat
  PROVE  Max(S \cup {size}) \in Nat /\ size <= Max(S \cup {size})
         /\ \A p \in S : p <= Max(S \cup {size})
<1> DEFINE T == S \cup {size}
           b == MaxPage + size
<1>1. b \in Nat /\ T \subseteq 0..b /\ T # {} /\ size \in T
  BY Constants
<1> HIDE DEF T, b
<1>2. Max(T) \in T /\ \A y \in T : Max(T) >= y
  BY <1>1, MaxOf
<1>3. Max(T) \in Nat /\ \A y \in T : y \in Nat
  <2>1. 0..b \subseteq Nat
    BY <1>1
  <2> QED BY <1>1, <1>2, <2>1
<1>4. \A y \in T : y <= Max(T)
  BY <1>2, <1>3
<1> QED BY <1>1, <1>3, <1>4 DEF T

LEMMA NewSizeOK ==
  ASSUME NEW img \in Images, NEW S \in SUBSET (1..MaxPage), NEW n \in 0..MaxPage, NEW commit
  PROVE  NewSize(img, S, n, commit) \in Nat
<1> DEFINE size == Len(img)
<1>1. size \in Nat
  BY DEF Images
<1>2. NewSize(img, S, n, commit) \in {n, Max(S \cup {size})}
  BY DEF NewSize
<1> HIDE DEF size
<1>3. Max(S \cup {size}) \in Nat
  BY <1>1, SpillSize
<1> QED BY <1>2, <1>3, Constants

LEMMA FramesData ==
  ASSUME TypeInv, DataInv, NEW c \in Conn, NEW S \in SUBSET (1..MaxPage), NEW n \in 0..MaxPage,
         NEW commit, FramesFacts(c, S, n, commit)
  PROVE  DataInv'
<1> DEFINE x == con[c]
           y == con'[c]
           v == past.ver + 1
           new == NewSize(x.image, S, n, commit)
<1>1. ConnData(x) /\ ShmData /\ FileData /\ PastData /\ v \in Nat
  BY DEF DataInv, TypeInv, PastInv
<1>2. /\ Only(c) /\ UNCHANGED <<shm, log, file>> /\ past' = [past EXCEPT !.ver = v]
      /\ y.image = Changed(x.image, S, v, new)
      /\ \A f \in WorkFields \ {"commit", "todo"} : y.w[f] = x.w[f]
      /\ y.hdr = x.hdr /\ y.cache = x.cache /\ y.sp = x.sp
  BY DEF FramesFacts
<1>3. new \in Nat
  BY <1>1, NewSizeOK DEF ConnData
<1> HIDE DEF new, v
<1>4. y.image \in Images
  BY <1>1, <1>2, <1>3, ChangedOK DEF ConnData
<1> HIDE DEF x, y
<1>5. ConnData(y)
  <2>1. y.w.iter = x.w.iter /\ y.w.mxMark = x.w.mxMark
    BY <1>2 DEF WorkFields
  <2> QED BY <1>1, <1>2, <1>4, <2>1 DEF ConnData
<1>6. past'.images = past.images /\ past'.salt = past.salt
  BY <1>2 DEF TypeInv, PastInv
<1>7. ShmData' /\ FileData' /\ PastData'
  BY <1>1, <1>2, <1>6 DEF ShmData, FileData, PastData
<1> QED BY <1>2, <1>5, <1>7, DataStep DEF y

LEMMA RestartLogData ==
  ASSUME TypeInv, DataInv, NEW c \in Conn, RestartLog(c) PROVE DataInv'
<1> DEFINE x == con[c]
           y == con'[c]
<1>1. ConnData(x) /\ ShmData /\ FileData /\ PastData
  BY DEF DataInv
<1>2. /\ past.salt \in Nat /\ log.cur.salt \in Nat /\ log.dur.salt \in Nat
  BY DEF TypeInv, PastInv, LogInv, Logs
<1>3. /\ Only(c) /\ UNCHANGED <<log, file>>
      /\ y.hdr.chg = x.hdr.chg /\ y.hdr.n = x.hdr.n
      /\ y.cache = x.cache /\ y.image = x.image /\ y.sp = x.sp /\ y.w = x.w
      /\ \/ /\ past' = [past EXCEPT !.salt = @ + 1]
            /\ shm'.h0 = shm.h0 /\ shm'.h1 = y.hdr /\ shm'.pgno = shm.pgno
         \/ UNCHANGED <<shm, past>>
  BY RestartLogEffect
<1> HIDE DEF x, y
<1>4. ConnData(y)
  BY <1>1, <1>3 DEF ConnData, HdrData
<1>5. /\ past'.images = past.images /\ past'.salt \in {past.salt, past.salt + 1}
  BY <1>3 DEF TypeInv, PastInv
<1>6. ShmData' /\ FileData' /\ PastData'
  BY <1>1, <1>2, <1>3, <1>4, <1>5 DEF ShmData, FileData, PastData, ConnData
<1> QED BY <1>3, <1>4, <1>6, DataStep DEF y

LEMMA RestartHdrData ==
  ASSUME TypeInv, DataInv, NEW c \in Conn, RestartHdr(c) PROVE DataInv'
<1>1. ConnData(con[c]) /\ ShmData /\ FileData /\ PastData
  BY DEF DataInv
<1>2. /\ Only(c) /\ UNCHANGED <<log, file, past>> /\ Moved(con'[c], con[c])
      /\ shm'.h0 = con[c].hdr /\ shm'.h1 = shm.h1 /\ shm'.pgno = shm.pgno
  BY RestartHdrEffect
<1>3. ShmData' /\ FileData' /\ PastData'
  BY <1>1, <1>2 DEF ShmData, FileData, PastData, ConnData
<1> QED BY <1>1, <1>2, <1>3, DataStep, MovedData

LEMMA RestartInfoData ==
  ASSUME TypeInv, DataInv, NEW c \in Conn, RestartInfo(c) PROVE DataInv'
<1> DEFINE x == con[c]
           y == con'[c]
<1>1. ConnData(x) /\ ShmData /\ FileData /\ PastData
  BY DEF DataInv
<1>2. /\ Only(c) /\ UNCHANGED <<log, file, past>>
      /\ y.hdr = x.hdr /\ y.cache = x.cache /\ y.image = x.image /\ y.sp = x.sp /\ y.w = x.w
      /\ shm'.h0 = shm.h0 /\ shm'.h1 = shm.h1 /\ shm'.pgno = shm.pgno
  BY RestartInfoEffect
<1> HIDE DEF x, y
<1>3. ConnData(y)
  BY <1>1, <1>2 DEF ConnData
<1>4. ShmData' /\ FileData' /\ PastData'
  BY <1>1, <1>2, ShmDataKept DEF FileData, PastData
<1> QED BY <1>2, <1>3, <1>4, DataStep DEF y

LEMMA WriteLogHdrData ==
  ASSUME TypeInv, DataInv, NEW c \in Conn, WriteLogHdr(c), con[c].hdr.salt <= past.salt
  PROVE  DataInv'
<1> DEFINE x == con[c]
           y == con'[c]
<1>1. ConnData(x) /\ ShmData /\ FileData /\ PastData
  BY DEF DataInv
<1>2. /\ past.salt \in Nat /\ log.cur.salt \in Nat /\ log.dur.salt \in Nat /\ x.hdr.salt \in Nat
  BY AtConn DEF TypeInv, PastInv, LogInv, Logs, ConnType, HdrOK
<1>3. /\ Only(c) /\ UNCHANGED <<shm, file>>
      /\ log'.dur = log.dur /\ log'.cur.salt = y.hdr.salt
      /\ \/ past' = [past EXCEPT !.salt = @ + 1] /\ y.hdr.salt = past.salt + 1
         \/ past' = past /\ y.hdr.salt = x.hdr.salt
      /\ y.hdr.chg = x.hdr.chg /\ y.hdr.n = x.hdr.n
      /\ y.cache = x.cache /\ y.image = x.image /\ y.sp = x.sp /\ y.w = x.w
  BY WriteLogHdrEffect
<1> HIDE DEF x, y
<1>4. ConnData(y)
  BY <1>1, <1>3 DEF ConnData, HdrData
<1>5. /\ past'.images = past.images
      /\ \/ past'.salt = past.salt + 1 /\ y.hdr.salt = past.salt + 1
         \/ past'.salt = past.salt /\ y.hdr.salt = x.hdr.salt
  BY <1>3 DEF TypeInv, PastInv
<1>6. x.hdr.salt <= past.salt
  BY DEF x
<1>7. PastData'
  BY <1>1, <1>2, <1>3, <1>5, <1>6 DEF PastData
<1>8. ShmData' /\ FileData'
  BY <1>1, <1>3 DEF ShmData, FileData
<1> QED BY <1>3, <1>4, <1>7, <1>8, DataStep DEF y

LEMMA SyncLogHdrData ==
  ASSUME TypeInv, DataInv, NEW c \in Conn, SyncLogHdr(c) PROVE DataInv'
<1>1. ConnData(con[c]) /\ ShmData /\ FileData /\ PastData
  BY DEF DataInv
<1>2. /\ Only(c) /\ UNCHANGED <<shm, file, past>> /\ Moved(con'[c], con[c])
      /\ log'.cur = log.cur /\ log'.dur = log.cur
  BY SyncLogHdrEffect
<1>3. ShmData' /\ FileData' /\ PastData'
  BY <1>1, <1>2 DEF ShmData, FileData, PastData
<1> QED BY <1>1, <1>2, <1>3, DataStep, MovedData

LEMMA WriteFrameData ==
  ASSUME TypeInv, DataInv, NEW c \in Conn, WriteFrame(c) PROVE DataInv'
<1> DEFINE x == con[c]
           y == con'[c]
<1>1. ConnData(x) /\ ShmData /\ FileData /\ PastData
  BY DEF DataInv
<1>2. /\ Only(c) /\ UNCHANGED <<shm, file>>
      /\ log'.dur = log.dur /\ log'.cur.salt = log.cur.salt
      /\ past'.salt = past.salt /\ past'.images = past.images
  BY WriteFrameEffect
<1>3. /\ y.hdr.chg = x.hdr.chg /\ y.hdr.n = x.hdr.n
      /\ y.cache = x.cache /\ y.image = x.image /\ y.sp = x.sp
      /\ \A f \in WorkFields \ {"todo"} : y.w[f] = x.w[f]
  BY WriteFrameEffect
<1> HIDE DEF x, y
<1>4. ConnData(y)
  <2>1. y.w.iter = x.w.iter /\ y.w.mxMark = x.w.mxMark
    BY <1>3 DEF WorkFields
  <2> QED BY <1>1, <1>3, <2>1 DEF ConnData, HdrData
<1>5. ShmData' /\ FileData' /\ PastData'
  BY <1>1, <1>2 DEF ShmData, FileData, PastData
<1> QED BY <1>2, <1>4, <1>5, DataStep DEF y

LEMMA AppendedOK ==
  ASSUME NEW x, ConnType(x), shm.pgno \in Pgnos
  PROVE  Appended(x) \in Pgnos
<1> DEFINE n == Len(x.hdr.sum)
<1>1. n \in Nat /\ x.hdr.mx \in Nat /\ x.hdr.sum \in Sums
  BY DEF ConnType, HdrOK, Sums
<1>2. ASSUME NEW f \in 1..MaxFrame
      PROVE  /\ f <= n => x.hdr.sum[f].pg \in 0..MaxPage
             /\ shm.pgno[f] \in 0..MaxPage /\ 0 \in 0..MaxPage
  <2>1. f <= n => x.hdr.sum[f] \in Entries
    BY <1>1 DEF Sums
  <2> QED BY <2>1, EntryFields, Constants DEF Pgnos
<1>3. ASSUME NEW f \in 1..MaxFrame
      PROVE  (IF f > n THEN (IF x.hdr.mx = 0 \/ shm.pgno[x.hdr.mx + 1] # 0 THEN 0 ELSE shm.pgno[f])
              ELSE IF f > x.hdr.mx THEN x.hdr.sum[f].pg ELSE shm.pgno[f]) \in 0..MaxPage
  <2>1. f > n \/ f <= n
    BY <1>1
  <2> HIDE DEF n
  <2> QED BY <1>2, <2>1
<1> QED BY <1>3 DEF Appended, Pgnos

LEMMA CleanupOK ==
  ASSUME shm.pgno \in Pgnos, NEW mx
  PROVE  CleanupHash(mx) \in Pgnos
<1>1. ASSUME NEW f \in 1..MaxFrame PROVE (IF mx > 0 /\ f > mx THEN 0 ELSE shm.pgno[f]) \in 0..MaxPage
  BY Constants DEF Pgnos
<1> QED BY <1>1 DEF CleanupHash, Pgnos

LEMMA EndFramesData ==
  ASSUME TypeInv, DataInv, NEW c \in Conn, EndFrames(c), con[c].w.commit => con[c].hdr.sum # <<>>
  PROVE  DataInv'
<1> DEFINE x == con[c]
           y == con'[c]
<1>1. ConnData(x) /\ ShmData /\ FileData /\ PastData /\ ConnType(x)
  BY AtConn DEF DataInv
<1>2. /\ Only(c) /\ UNCHANGED <<file, past>>
      /\ log'.cur = log.cur /\ (log'.dur = log.dur \/ log'.dur = log.cur)
      /\ shm'.h0 = shm.h0 /\ shm'.h1 = (IF x.w.commit THEN y.hdr ELSE shm.h1)
      /\ shm'.pgno = Appended(x)
  BY EndFramesEffect
<1>3. /\ y.hdr.chg = IF x.w.commit THEN x.hdr.chg + 1 ELSE x.hdr.chg
      /\ y.hdr.n = IF x.w.commit THEN Last(x.hdr.sum).n ELSE x.hdr.n
      /\ y.w = NoWork /\ y.cache = x.cache /\ y.image = x.image /\ y.sp = x.sp
  BY EndFramesEffect
<1>4. HdrData(y.hdr)
  <2>1. x.w.commit => Last(x.hdr.sum).n \in Nat
    BY <1>1, SumLast, EntryFields DEF ConnType, HdrOK
  <2>2. x.hdr.chg \in Nat /\ x.hdr.n \in Nat
    BY <1>1 DEF ConnData, HdrData
  <2> QED BY <1>3, <2>1, <2>2 DEF HdrData
<1>5. shm'.pgno \in Pgnos
  BY <1>1, <1>2, AppendedOK DEF ShmData
<1> HIDE DEF x, y
<1>6. ConnData(y)
  BY <1>1, <1>3, <1>4, NoData DEF ConnData
<1>7. ShmData' /\ FileData' /\ PastData'
  BY <1>1, <1>2, <1>4, <1>5 DEF ShmData, FileData, PastData
<1> QED BY <1>2, <1>6, <1>7, DataStep DEF y

LEMMA FinishedData ==
  ASSUME NEW x, NEW y, NEW h, NEW img, Finished(y, x, h, img), HdrData(h), img \in Images
  PROVE  ConnData(y)
BY NoData DEF Finished, ConnData

LEMMA CommitHdrData ==
  ASSUME TypeInv, DataInv, NEW c \in Conn, CommitHdr(c) PROVE DataInv'
<1> DEFINE x == con[c]
           y == con'[c]
<1>1. ConnData(x) /\ ShmData /\ FileData /\ PastData
  BY DEF DataInv
<1>2. /\ Only(c) /\ UNCHANGED <<log, file>> /\ Finished(y, x, x.hdr, x.image)
      /\ shm'.h0 = x.hdr /\ shm'.h1 = shm.h1 /\ shm'.pgno = shm.pgno
      /\ past' = Saw(x.image)
  BY CommitHdrEffect
<1>3. ConnData(y) /\ x.image \in Images /\ HdrData(x.hdr)
  BY <1>1, <1>2, FinishedData DEF ConnData
<1>4. /\ past'.images \in Seq(Images) /\ past'.images # <<>> /\ past'.salt = past.salt
  BY <1>2, <1>3, SawOK
<1> HIDE DEF x, y
<1>5. ShmData' /\ FileData' /\ PastData'
  BY <1>1, <1>2, <1>3, <1>4 DEF ShmData, FileData, PastData
<1> QED BY <1>2, <1>3, <1>5, DataStep DEF y

LEMMA RollbackData ==
  ASSUME TypeInv, DataInv, NEW c \in Conn, Rollback(c) PROVE DataInv'
<1> DEFINE x == con[c]
           y == con'[c]
<1>1. ConnData(x) /\ ShmData /\ FileData /\ PastData
  BY DEF DataInv
<1>2. /\ Only(c) /\ UNCHANGED <<log, file, past>> /\ Finished(y, x, shm.h0, x.cache)
      /\ shm'.h0 = shm.h0 /\ shm'.h1 = shm.h1
      /\ shm'.pgno = shm.pgno \/ shm'.pgno = CleanupHash(shm.h0.mx)
  BY RollbackEffect
<1>3. ConnData(y)
  BY <1>1, <1>2, FinishedData DEF ConnData, ShmData
<1> HIDE DEF x, y
<1>4. ShmData' /\ FileData' /\ PastData'
  BY <1>1, <1>2, CleanupOK DEF ShmData, FileData, PastData
<1> QED BY <1>2, <1>3, <1>4, DataStep DEF y

LEMMA SavepointUndoData ==
  ASSUME TypeInv, DataInv, NEW c \in Conn, SavepointUndo(c) PROVE DataInv'
<1> DEFINE x == con[c]
           y == con'[c]
           mx == UndoFrame(x)
<1>1. ConnData(x) /\ ShmData /\ FileData /\ PastData
  BY DEF DataInv
<1>2. /\ Only(c) /\ UNCHANGED <<log, file, past>>
      /\ shm'.h0 = shm.h0 /\ shm'.h1 = shm.h1
      /\ shm'.pgno = IF mx < x.hdr.mx THEN CleanupHash(mx) ELSE shm.pgno
  BY SavepointUndoEffect
<1>3. /\ y.sp.image = x.sp.image /\ y.image = x.sp.image /\ y.cache = x.cache /\ y.w = x.w
      /\ ~(mx < x.hdr.mx) => y.hdr = x.hdr
      /\ mx < x.hdr.mx => y.hdr.chg = x.hdr.chg /\ y.hdr.n = x.hdr.n
  BY SavepointUndoEffect
<1> HIDE DEF x, y, mx
<1>4. ConnData(y)
  BY <1>1, <1>3 DEF ConnData, HdrData
<1>5. ShmData' /\ FileData' /\ PastData'
  BY <1>1, <1>2, CleanupOK DEF ShmData, FileData, PastData
<1> QED BY <1>2, <1>4, <1>5, DataStep DEF y

LEMMA QuietCkptData ==
  ASSUME TypeInv, DataInv, NEW c \in Conn,
         CkptHdr(c) \/ Close(c) \/ Open(c) \/ \E block : CkptBegin(c, block)
  PROVE  DataInv'
<1> DEFINE x == con[c]
           y == con'[c]
<1>1. ConnData(x) /\ HdrData(shm.h0)
  BY DEF DataInv, ShmData
<1>2. CASE CkptHdr(c)
  <2>1. /\ Only(c) /\ UNCHANGED <<shm, log, file, past>>
        /\ Moved(y, x) \/ Loaded(y, x, shm.h0)
    BY <1>2, CkptHdrEffect
  <2> QED BY <1>1, <2>1, MovedData, LoadedData, DataQuiet
<1>3. CASE Open(c)
  BY <1>3, OpenEffect, NewConnData, DataQuiet
<1>4. CASE Close(c)
  <2>1. /\ Only(c) /\ UNCHANGED <<shm, log, file, past>>
        /\ \/ y = Closed
           \/ /\ \A f \in WorkFields \ {"ckpt", "close"} : y.w[f] = x.w[f]
              /\ y.hdr = x.hdr /\ y.cache = x.cache /\ y.image = x.image /\ y.sp = x.sp
    BY <1>4, CloseEffect
  <2> HIDE DEF x, y
  <2>2. CASE y = Closed
    BY <2>1, <2>2, NewConnData, DataQuiet DEF y
  <2>3. CASE /\ \A f \in WorkFields \ {"ckpt", "close"} : y.w[f] = x.w[f]
             /\ y.hdr = x.hdr /\ y.cache = x.cache /\ y.image = x.image /\ y.sp = x.sp
    <3>1. y.w.iter = x.w.iter /\ y.w.mxMark = x.w.mxMark
      BY <2>3 DEF WorkFields
    <3>2. ConnData(y)
      BY <1>1, <2>3, <3>1 DEF ConnData
    <3> QED BY <2>1, <3>2, DataQuiet DEF y
  <2> QED BY <2>1, <2>2, <2>3
<1>5. ASSUME NEW block, CkptBegin(c, block) PROVE DataInv'
  <2>1. /\ Only(c) /\ UNCHANGED <<shm, log, file, past>>
        /\ \A f \in WorkFields \ {"ckpt"} : y.w[f] = x.w[f]
        /\ y.hdr = x.hdr /\ y.cache = x.cache /\ y.image = x.image /\ y.sp = x.sp
    BY <1>5, CkptBeginEffect
  <2> HIDE DEF x, y
  <2>2. y.w.iter = x.w.iter /\ y.w.mxMark = x.w.mxMark
    BY <2>1 DEF WorkFields
  <2>3. ConnData(y)
    BY <1>1, <2>1, <2>2 DEF ConnData
  <2> QED BY <2>1, <2>3, DataQuiet DEF y
<1> QED BY <1>2, <1>3, <1>4, <1>5

LEMMA IteratorOK == ASSUME shm.pgno \in Pgnos, NEW mx PROVE Iterator(mx) \in Pgnos
BY Constants DEF Iterator, Pgnos

LEMMA CkptTestData ==
  ASSUME TypeInv, DataInv, NEW c \in Conn, CkptTest(c) PROVE DataInv'
<1> DEFINE x == con[c]
           y == con'[c]
<1>1. ConnData(x) /\ ShmData
  BY DEF DataInv
<1>2. Only(c) /\ UNCHANGED <<shm, log, file, past>>
  BY CkptTestEffect
<1>3. \/ Moved(y, x)
      \/ /\ y.w.iter = Iterator(x.hdr.mx)
         /\ \A f \in WorkFields \ {"iter", "safe", "mxI"} : y.w[f] = x.w[f]
         /\ y.hdr = x.hdr /\ y.cache = x.cache /\ y.image = x.image /\ y.sp = x.sp
  BY CkptTestEffect
<1> HIDE DEF x, y
<1>4. ConnData(y)
  <2>1. CASE Moved(y, x)
    BY <1>1, <2>1, MovedData
  <2>2. CASE /\ y.w.iter = Iterator(x.hdr.mx)
             /\ \A f \in WorkFields \ {"iter", "safe", "mxI"} : y.w[f] = x.w[f]
             /\ y.hdr = x.hdr /\ y.cache = x.cache /\ y.image = x.image /\ y.sp = x.sp
    <3>1. y.w.mxMark = x.w.mxMark
      BY <2>2 DEF WorkFields
    <3>2. y.w.iter \in Pgnos
      BY <1>1, <2>2, IteratorOK DEF ShmData
    <3> QED BY <1>1, <2>2, <3>1, <3>2 DEF ConnData
  <2> QED BY <1>3, <2>1, <2>2
<1> QED BY <1>2, <1>4, DataQuiet DEF y

LEMMA CkptMarkData ==
  ASSUME TypeInv, DataInv, NEW c \in Conn, CkptMark(c) PROVE DataInv'
<1> DEFINE x == con[c]
           y == con'[c]
<1>1. ConnData(x) /\ ShmData /\ FileData /\ PastData
  BY DEF DataInv
<1>2. /\ Only(c) /\ UNCHANGED <<log, file, past>>
      /\ shm'.h0 = shm.h0 /\ shm'.h1 = shm.h1 /\ shm'.pgno = shm.pgno
      /\ \A f \in WorkFields \ {"safe", "mxI"} : y.w[f] = x.w[f]
      /\ y.hdr = x.hdr /\ y.cache = x.cache /\ y.image = x.image /\ y.sp = x.sp
  BY CkptMarkEffect
<1> HIDE DEF x, y
<1>3. ConnData(y)
  <2>1. y.w.iter = x.w.iter /\ y.w.mxMark = x.w.mxMark
    BY <1>2 DEF WorkFields
  <2> QED BY <1>1, <1>2, <2>1 DEF ConnData
<1>4. ShmData' /\ FileData' /\ PastData'
  BY <1>1, <1>2, ShmDataKept DEF FileData, PastData
<1> QED BY <1>2, <1>3, <1>4, DataStep DEF y

LEMMA CkptLock0Data ==
  ASSUME TypeInv, DataInv, NEW c \in Conn, CkptLock0(c) PROVE DataInv'
<1> DEFINE x == con[c]
           y == con'[c]
           it == [f \in 1..MaxFrame |->
                    IF f > shm.nBackfill /\ f <= x.w.safe /\ x.w.iter[f] <= x.hdr.n
                    THEN x.w.iter[f] ELSE 0]
<1>1. ConnData(x) /\ ShmData /\ FileData /\ PastData
  BY DEF DataInv
<1>2. /\ Only(c) /\ UNCHANGED <<shm, file, past>>
      /\ log'.cur = log.cur /\ (log'.dur = log.dur \/ log'.dur = log.cur)
  BY CkptLock0Effect
<1>3. \/ Moved(y, x)
      \/ /\ y.w.iter = it /\ \A f \in WorkFields \ {"iter"} : y.w[f] = x.w[f]
         /\ y.hdr = x.hdr /\ y.cache = x.cache /\ y.image = x.image /\ y.sp = x.sp
  BY CkptLock0Effect
<1>4. it \in Pgnos
  BY <1>1, Constants DEF ConnData, Pgnos
<1> HIDE DEF x, y, it
<1>5. ConnData(y)
  <2>1. CASE Moved(y, x)
    BY <1>1, <2>1, MovedData
  <2>2. CASE /\ y.w.iter = it /\ \A f \in WorkFields \ {"iter"} : y.w[f] = x.w[f]
             /\ y.hdr = x.hdr /\ y.cache = x.cache /\ y.image = x.image /\ y.sp = x.sp
    <3>1. y.w.mxMark = x.w.mxMark
      BY <2>2 DEF WorkFields
    <3> QED BY <1>1, <1>4, <2>2, <3>1 DEF ConnData
  <2> QED BY <1>3, <2>1, <2>2
<1>6. ShmData' /\ FileData' /\ PastData'
  BY <1>1, <1>2 DEF ShmData, FileData, PastData
<1> QED BY <1>2, <1>5, <1>6, DataStep DEF y

\* The least page of the iterator is written next, with its last frame.
ToWrite(iter)   == {f \in 1..MaxFrame : iter[f] > 0}
NextPage(iter)  == Min({iter[f] : f \in ToWrite(iter)})
PageFrame(iter) == CHOOSE g \in ToWrite(iter) : iter[g] = NextPage(iter)

LEMMA NextPageOK ==
  ASSUME NEW iter \in Pgnos, ToWrite(iter) # {}
  PROVE  /\ PageFrame(iter) \in 1..MaxFrame /\ iter[PageFrame(iter)] > 0
         /\ iter[PageFrame(iter)] = NextPage(iter) /\ NextPage(iter) \in Nat \ {0}
<1> DEFINE fs == ToWrite(iter)
           T == {iter[g] : g \in fs}
           p == NextPage(iter)
           f == PageFrame(iter)
<1>1. ASSUME NEW g \in fs PROVE iter[g] \in Nat \ {0} /\ g \in 1..MaxFrame /\ iter[g] > 0
  <2>1. iter[g] \in 0..MaxPage /\ 0..MaxPage \subseteq Nat /\ iter[g] > 0
    BY Constants DEF Pgnos, ToWrite
  <2> QED BY <2>1 DEF ToWrite
<1>2. T \subseteq Nat /\ T # {} /\ p = Min(T)
  BY <1>1 DEF NextPage
<1> HIDE DEF T, fs, p
<1>3. p \in T
  BY <1>2, MinOf
<1>4. \E g \in fs : iter[g] = p
  BY <1>3 DEF T
<1>5. f = CHOOSE g \in fs : iter[g] = p
  BY DEF PageFrame, fs, p
<1> HIDE DEF f
<1>6. f \in fs /\ iter[f] = p
  BY <1>4, <1>5
<1> QED BY <1>1, <1>6 DEF f, p, fs

LEMMA CkptWriteData ==
  ASSUME TypeInv, DataInv, NEW c \in Conn, CkptWrite(c),
         \A f \in 1..MaxFrame : con[c].w.iter[f] > 0 => PageIn(log.cur, f) \in Int
  PROVE  DataInv'
<1> DEFINE x  == con[c]
           y  == con'[c]
           fs == {f \in 1..MaxFrame : x.w.iter[f] > 0}
           p  == Min({x.w.iter[f] : f \in fs})
           f  == CHOOSE g \in fs : x.w.iter[g] = p
           n  == Max({Len(file.cur), p})
<1>1. ConnData(x) /\ ShmData /\ FileData /\ PastData
  BY DEF DataInv
<1>2. /\ Only(c) /\ UNCHANGED <<shm, log, past>> /\ fs # {}
      /\ file'.dur = file.dur /\ DOMAIN file' = {"cur", "dur"}
      /\ file'.cur = [k \in 1..n |-> IF k = p THEN PageIn(log.cur, f) ELSE PageAt(file.cur, k)]
  BY <1>1, CkptWriteEffect DEF FileData
<1>3. /\ y.w.iter = [x.w.iter EXCEPT ![f] = 0]
      /\ \A g \in WorkFields \ {"iter"} : y.w[g] = x.w[g]
      /\ y.hdr = x.hdr /\ y.cache = x.cache /\ y.image = x.image /\ y.sp = x.sp
  BY <1>1, CkptWriteEffect DEF FileData
<1>4. x.w.iter \in Pgnos
  BY <1>1 DEF ConnData
<1>5. f \in 1..MaxFrame /\ x.w.iter[f] > 0 /\ p \in Nat \ {0}
  BY <1>2, <1>4, NextPageOK DEF ToWrite, NextPage, PageFrame
<1>6. PageIn(log.cur, f) \in Int
  <2> HIDE DEF f
  <2> QED BY <1>5
<1> HIDE DEF f, p, fs
<1>7. n \in Nat
  <2>1. Len(file.cur) \in Nat /\ p \in Nat
    BY <1>1, <1>5 DEF FileData, Images
  <2> DEFINE k == Len(file.cur)
  <2>2. k \in Int /\ p \in Int
    BY <2>1
  <2> HIDE DEF k
  <2>3. Max({k, p}) \in {k, p}
    BY <2>2, MaxTwo
  <2> QED BY <2>1, <2>3 DEF k
<1> HIDE DEF n
<1>8. \A k \in 1..n : PageAt(file.cur, k) \in Int
  <2>1. \A k \in 1..n : k \in Nat \ {0}
    BY <1>7
  <2> QED BY <1>1, <2>1, PageAtOK DEF FileData
<1>9. file'.cur \in Images
  BY <1>2, <1>6, <1>7, <1>8 DEF Images
<1> HIDE DEF x, y
<1>10. ConnData(y)
  <2>1. y.w.mxMark = x.w.mxMark
    BY <1>3 DEF WorkFields
  <2>2. y.w.iter \in Pgnos
    <3> DEFINE it == x.w.iter
    <3>1. it \in Pgnos /\ y.w.iter = [it EXCEPT ![f] = 0] /\ 0 \in 0..MaxPage
      BY <1>3, <1>4, Constants
    <3> HIDE DEF it
    <3> QED BY <3>1 DEF Pgnos
  <2> QED BY <1>1, <1>3, <2>1, <2>2 DEF ConnData
<1>11. ShmData' /\ FileData' /\ PastData'
  BY <1>1, <1>2, <1>9 DEF ShmData, FileData, PastData
<1> QED BY <1>2, <1>10, <1>11, DataStep DEF y

\* The first n pages of an image, with zeroes for those it lacks.
LEMMA ResizedOK ==
  ASSUME NEW db \in Images, NEW n \in Nat
  PROVE  [k \in 1..n |-> PageAt(db, k)] \in Images
<1>1. \A k \in 1..n : k \in Nat \ {0}
  OBVIOUS
<1>2. \A k \in 1..n : PageAt(db, k) \in Int
  BY <1>1, PageAtOK
<1> QED BY <1>2 DEF Images

LEMMA CkptDoneData ==
  ASSUME TypeInv, DataInv, NEW c \in Conn, CkptDone(c) PROVE DataInv'
<1> DEFINE x == con[c]
           y == con'[c]
<1>1. ConnData(x) /\ ShmData /\ FileData /\ PastData
  BY DEF DataInv
<1>2. /\ Only(c) /\ UNCHANGED <<log, past>> /\ DOMAIN file' = {"cur", "dur"}
      /\ \/ file' = file
         \/ /\ file'.dur = file'.cur
            /\ file'.cur = [k \in 1..x.hdr.n |-> PageAt(file.cur, k)]
      /\ shm'.h0 = shm.h0 /\ shm'.h1 = shm.h1 /\ shm'.pgno = shm.pgno /\ Moved(y, x)
  BY <1>1, CkptDoneEffect DEF FileData
<1>3. x.hdr.n \in Nat
  BY <1>1 DEF ConnData, HdrData
<1>4. FileData'
  BY <1>1, <1>2, <1>3, ResizedOK DEF FileData
<1>5. ShmData' /\ PastData'
  BY <1>1, <1>2, ShmDataKept DEF PastData
<1> QED BY <1>1, <1>2, <1>4, <1>5, DataStep, MovedData

\* Every connection is closed.
LEMMA AllClosedData ==
  ASSUME AllClosed', FileData', PastData'
  PROVE  DataInv'
<1>1. ShmData'
  <2>1. shm' = EmptyShm
    BY DEF AllClosed
  <2>2. EmptyShm.h0 = NoHdr /\ EmptyShm.h1 = NoHdr /\ EmptyShm.pgno = NoPgno
    BY DEF EmptyShm
  <2> QED BY <2>1, <2>2, NoData DEF ShmData
<1>2. \A c \in Conn : ConnData(con'[c])
  BY NewConnData DEF AllClosed
<1> QED BY <1>1, <1>2 DEF DataInv

LEMMA CkptEndData ==
  ASSUME TypeInv, DataInv, NEW c \in Conn, CkptEnd(c) PROVE DataInv'
<1> DEFINE x == con[c]
           y == con'[c]
<1>1. ConnData(x) /\ ShmData /\ FileData /\ PastData
  BY DEF DataInv
<1>2. UNCHANGED <<file, past>>
  BY CkptEndEffect
<1>3. CASE AllClosed' /\ log'.cur = NoLog /\ log'.dur = log.dur
  <2>1. past.salt \in Nat /\ NoLog.salt = 0
    BY DEF TypeInv, PastInv, NoLog
  <2>2. FileData' /\ PastData'
    BY <1>1, <1>2, <1>3, <2>1 DEF FileData, PastData
  <2> QED BY <1>3, <2>2, AllClosedData
<1>4. CASE /\ Only(c) /\ UNCHANGED <<shm, log>>
           /\ y.image = NoImage /\ y.sp = NoSavepoint /\ y.w = NoWork
           /\ y.cache = x.cache /\ y.hdr = IF x.w.changed THEN NoHdr ELSE x.hdr
  <2> HIDE DEF x, y
  <2>1. ConnData(y)
    BY <1>1, <1>4, NoData DEF ConnData
  <2> QED BY <1>2, <1>4, <2>1, DataQuiet DEF y
<1>5. \/ AllClosed' /\ log'.cur = NoLog /\ log'.dur = log.dur
      \/ /\ Only(c) /\ UNCHANGED <<shm, log>>
         /\ y.image = NoImage /\ y.sp = NoSavepoint /\ y.w = NoWork
         /\ y.cache = x.cache /\ y.hdr = IF x.w.changed THEN NoHdr ELSE x.hdr
  BY CkptEndEffect
<1> QED BY <1>3, <1>4, <1>5

LEMMA KillData ==
  ASSUME TypeInv, DataInv, NEW P \in Mortal, Kill(P) PROVE DataInv'
<1>1. /\ UNCHANGED <<log, file, past>>
      /\ \A c \in Conn : con'[c] = IF c \in P THEN Closed ELSE con[c]
      /\ AllClosed' \/ shm' = shm
  BY KillEffect
<1>2. FileData' /\ PastData'
  BY <1>1 DEF DataInv, FileData, PastData
<1>3. CASE AllClosed'
  BY <1>2, <1>3, AllClosedData
<1>4. CASE shm' = shm
  <2>1. ShmData'
    BY <1>4 DEF DataInv, ShmData
  <2>2. \A c \in Conn : ConnData(con'[c])
    BY <1>1, NewConnData DEF DataInv
  <2> QED BY <1>2, <2>1, <2>2 DEF DataInv
<1> QED BY <1>1, <1>3, <1>4

LEMMA SurvivingFileOK ==
  ASSUME FileData, NEW f \in SurvivingFiles
  PROVE  f \in Images
<1>1. PICK len \in {"cur", "dur"}, piece \in [UnsyncedPages -> Pieces] :
        f = [p \in 1..Len(file[len]) |->
              IF p \notin UnsyncedPages THEN PageAt(file.cur, p)
              ELSE IF piece[p] = "torn" THEN TornPage ELSE PageAt(file[piece[p]], p)]
  BY DEF SurvivingFiles
<1>2. file.cur \in Images /\ file.dur \in Images /\ Len(file[len]) \in Nat
  BY DEF FileData, Images
<1>3. ASSUME NEW p \in 1..Len(file[len])
      PROVE  (IF p \notin UnsyncedPages THEN PageAt(file.cur, p)
              ELSE IF piece[p] = "torn" THEN TornPage ELSE PageAt(file[piece[p]], p)) \in Int
  <2>1. p \in Nat \ {0}
    BY <1>2
  <2>2. PageAt(file.cur, p) \in Int /\ PageAt(file.dur, p) \in Int /\ TornPage \in Int
    BY <1>2, <2>1, PageAtOK DEF TornPage
  <2>3. p \in UnsyncedPages => piece[p] \in {"cur", "dur", "torn"}
    BY DEF Pieces
  <2> QED BY <2>2, <2>3
<1> QED BY <1>1, <1>2, <1>3 DEF Images

LEMMA SurvivingSalt ==
  ASSUME TypeInv, PastData, NEW l \in SurvivingLogs
  PROVE  l.salt <= past.salt
<1>1. past.salt \in Nat /\ NoLog.salt = 0 /\ log.cur.salt <= past.salt /\ log.dur.salt <= past.salt
  BY DEF TypeInv, PastInv, NoLog, PastData
<1>2. CASE l \in {log.cur, log.dur, NoLog}
  BY <1>1, <1>2
<1>3. ASSUME NEW hdr \in {"cur", "dur"}, NEW piece, l = Mixture(hdr, piece) PROVE l.salt <= past.salt
  <2>1. l.salt = log[hdr].salt
    BY <1>3 DEF Mixture
  <2> QED BY <1>1, <2>1
<1> QED BY <1>2, <1>3 DEF SurvivingLogs

LEMMA SurvivorsOK ==
  ASSUME TypeInv, PastData, NEW img
  PROVE  /\ Survivors(img).images \in Seq(Images) /\ Survivors(img).images # <<>>
         /\ Survivors(img).salt = past.salt
<1> DEFINE k == {i \in DOMAIN past.images : past.images[i] = img}
           s == past.images
<1>1. s \in Seq(Images) /\ s # <<>> /\ Len(s) \in Nat /\ DOMAIN s = 1..Len(s)
  BY DEF PastData
<1>2. CASE past.full \/ k = {}
  BY <1>1, <1>2 DEF Survivors
<1>3. CASE ~(past.full \/ k = {})
  <2>1. k \subseteq 0..Len(s) /\ k # {} /\ \A i \in k : i \in 1..Len(s)
    BY <1>1, <1>3
  <2>2. Survivors(img) = [past EXCEPT !.images = SubSeq(s, 1, Max(k))]
    BY <1>3 DEF Survivors
  <2> HIDE DEF k
  <2>3. Max(k) \in 1..Len(s)
    BY <1>1, <2>1, MaxOf
  <2> DEFINE m == Max(k)
  <2> HIDE DEF m, s
  <2>4. SubSeq(s, 1, m) \in Seq(Images) /\ SubSeq(s, 1, m) # <<>>
    <3>1. m \in 1..Len(s)
      BY <2>3 DEF m
    <3>2. 1 \in 1..Len(s)+1 /\ m \in 0..Len(s) /\ 1 <= m + 1 /\ m - 1 + 1 # 0
      BY <1>1, <3>1
    <3>3. SubSeq(s, 1, m) \in Seq(Images) /\ Len(SubSeq(s, 1, m)) = m - 1 + 1
      BY <1>1, <3>2, SubSeqType
    <3> QED BY <3>2, <3>3
  <2> QED BY <2>2, <2>4 DEF TypeInv, PastInv, m, s
<1> QED BY <1>2, <1>3

LEMMA PowerLossEffect ==
  ASSUME PowerLoss
  PROVE  /\ AllClosed'
         /\ \E l \in SurvivingLogs, f \in SurvivingFiles :
              /\ log' = [cur |-> l, dur |-> l, new |-> FALSE]
              /\ file' = [cur |-> f, dur |-> f]
              /\ past' = Survivors(RecoveredImage(l, f))
BY DEF PowerLoss, AllClosed

LEMMA PowerLossData == ASSUME TypeInv, DataInv, PowerLoss PROVE DataInv'
<1>1. FileData /\ PastData
  BY DEF DataInv
<1>2. PICK l \in SurvivingLogs, f \in SurvivingFiles :
              /\ log' = [cur |-> l, dur |-> l, new |-> FALSE]
              /\ file' = [cur |-> f, dur |-> f]
              /\ past' = Survivors(RecoveredImage(l, f))
  BY PowerLossEffect
<1>3. f \in Images /\ l.salt <= past.salt
  BY <1>1, SurvivingFileOK, SurvivingSalt
<1>4. /\ past'.images \in Seq(Images) /\ past'.images # <<>> /\ past'.salt = past.salt
  BY <1>1, <1>2, SurvivorsOK
<1>5. FileData' /\ PastData'
  BY <1>2, <1>3, <1>4 DEF FileData, PastData
<1> QED BY <1>5, AllClosedData, PowerLossEffect

LEMMA DataInit == Init => DataInv
<1> SUFFICES ASSUME Init PROVE DataInv
  OBVIOUS
<1>1. InitImage \in Images
  BY DEF InitImage, Images
<1>2. FileData
  BY <1>1 DEF Init, FileData
<1>3. PastData
  <2>1. PICK full \in FullSync : past = [full |-> full, salt |-> 0, ver |-> 0,
                     images |-> <<InitImage>>, flight |-> NoImage]
    BY DEF Init
  <2>2. log.cur = NoLog /\ log.dur = NoLog /\ NoLog.salt = 0
    BY DEF Init, NoLog
  <2> QED BY <1>1, <2>1, <2>2 DEF PastData
<1>4. ShmData
  <2>1. shm = EmptyShm
    BY DEF Init
  <2>2. EmptyShm.h0 = NoHdr /\ EmptyShm.h1 = NoHdr /\ EmptyShm.pgno = NoPgno
    BY DEF EmptyShm
  <2> QED BY <2>1, <2>2, NoData DEF ShmData
<1>5. \A c \in Conn : ConnData(con[c])
  BY NewConnData DEF Init
<1> QED BY <1>2, <1>3, <1>4, <1>5 DEF DataInv

-----------------------------------------------------------------------------
(* The header in the wal-index: nobody has a newer one but the writer, and    *)
(* before there is one nobody has any.                                        *)

\* In a write transaction.
InTxn(x) == Writes(x) \/ x.pc \in Restarting

Blank(x) == /\ x.pc \in {"closed", "idle", "retryHdr", "recover", "recoverHdr", "ckptHdr", "ckptEnd"}
            /\ x.cache = NoImage
            /\ x.pc # "recoverHdr" => x.hdr = NoHdr

HeadOK(x, s, salt) ==
  /\ x.pc \in {"recover", "recoverHdr"} => ~s.h0.init
  /\ ~s.h0.init => Blank(x)
  /\ x.pc \in {"recoverInfo"} => x.hdr = s.h0
  /\ s.h0.init /\ ~InTxn(x) => x.hdr.chg <= s.h0.chg /\ x.hdr.salt <= s.h0.salt
  /\ InTxn(x) => /\ x.hdr.chg = IF x.pc = "commitHdr" THEN s.h0.chg + 1 ELSE s.h0.chg
                 /\ s.h0.salt <= x.hdr.salt /\ x.hdr.salt <= salt
  /\ x.pc = "restartHdr" => s.h0.salt < x.hdr.salt

HeadInv ==
  /\ shm.h0.init => shm.h0 = shm.h1 \/ \E c \in Conn : con[c].pc \in {"restartHdr", "commitHdr"}
  /\ shm.h0.salt <= past.salt
  /\ \A c \in Conn : HeadOK(con[c], shm, past.salt)

\* The numbers of the headers.
LEMMA HeadTypes ==
  ASSUME TypeInv, DataInv, NEW c \in Conn
  PROVE  /\ con[c].hdr.chg \in Nat /\ con[c].hdr.salt \in Nat
         /\ shm.h0.chg \in Nat /\ shm.h0.salt \in Nat /\ past.salt \in Nat
BY AtConn DEF TypeInv, PastInv, ConnType, HdrOK, DataInv, ShmData, ConnData, HdrData

LEMMA AtHead ==
  ASSUME HeadInv, NEW c \in Conn
  PROVE  /\ HeadOK(con[c], shm, past.salt)
         /\ con[c].pc \notin {"closed", "idle", "retryHdr", "recover", "recoverHdr", "ckptHdr",
                              "ckptEnd"} => shm.h0.init
         /\ con[c].cache # NoImage => shm.h0.init
BY DEF HeadInv, HeadOK, Blank

LEMMA HeadBlank ==
  ASSUME NEW y, NEW s, NEW salt, Blank(y), ~s.h0.init
  PROVE  HeadOK(y, s, salt)
BY DEF HeadOK, Blank, InTxn, Writes, Restarting, Logging

LEMMA HeadOutside ==
  ASSUME NEW y, NEW s, NEW salt, s.h0.init, ~InTxn(y),
         y.pc \notin {"recover", "recoverHdr", "recoverInfo"},
         y.hdr.chg <= s.h0.chg, y.hdr.salt <= s.h0.salt
  PROVE  HeadOK(y, s, salt)
BY DEF HeadOK, InTxn, Restarting

LEMMA HeadSame ==
  ASSUME NEW x, NEW y, NEW s, NEW a \in Nat, NEW b \in Nat, a <= b, HeadOK(x, s, a), s.h0.init,
         x.hdr.salt \in Nat,
         y.hdr.chg = x.hdr.chg, y.hdr.salt = x.hdr.salt, InTxn(y) <=> InTxn(x),
         x.pc # "commitHdr",
         y.pc \notin {"commitHdr", "restartHdr", "recoverInfo", "recover", "recoverHdr"}
  PROVE  HeadOK(y, s, b)
BY DEF HeadOK

\* A step that leaves the first copy of the header alone.
LEMMA HeadStep ==
  ASSUME TypeInv, DataInv, HeadInv, NEW c \in Conn, Only(c), shm'.h0 = shm.h0,
         past'.salt \in Nat, past.salt <= past'.salt,
         \/ ~shm.h0.init
         \/ con'[c].pc \in {"restartHdr", "commitHdr"}
         \/ shm'.h1 = shm.h1 /\ con[c].pc \notin {"restartHdr", "commitHdr"},
         HeadOK(con'[c], shm, past'.salt)
  PROVE  HeadInv'
<1>1. past.salt \in Nat /\ shm.h0.salt \in Nat
  BY HeadTypes
<1>2. ASSUME NEW d \in Conn PROVE HeadOK(con'[d], shm', past'.salt)
  <2>1. HeadOK(con'[d], shm, past'.salt)
    <3>1. CASE d = c
      BY <3>1
    <3>2. CASE d # c
      <4>1. con'[d] = con[d] /\ HeadOK(con[d], shm, past.salt) /\ con[d].hdr.salt \in Nat
        BY <3>2, HeadTypes DEF Only, HeadInv
      <4> QED BY <1>1, <4>1 DEF HeadOK
    <3> QED BY <3>1, <3>2
  <2> QED BY <2>1 DEF HeadOK
<1>3. shm'.h0.init => shm'.h0 = shm'.h1 \/ \E d \in Conn : con'[d].pc \in {"restartHdr", "commitHdr"}
  <2>1. \A d \in Conn : d # c => con'[d] = con[d]
    BY DEF Only
  <2>2. CASE con'[c].pc \in {"restartHdr", "commitHdr"}
    BY <2>2
  <2>3. CASE ~shm.h0.init
    BY <2>3
  <2>4. CASE shm'.h1 = shm.h1 /\ con[c].pc \notin {"restartHdr", "commitHdr"}
    BY <2>1, <2>4 DEF HeadInv
  <2> QED BY <2>2, <2>3, <2>4
<1>4. shm'.h0.salt <= past'.salt
  BY <1>1 DEF HeadInv
<1> QED BY <1>2, <1>3, <1>4 DEF HeadInv

\* A step of a connection that leaves the headers and the salts alone.
LEMMA HeadQuiet ==
  ASSUME TypeInv, DataInv, HeadInv, NEW c \in Conn, Only(c),
         shm'.h0 = shm.h0, shm'.h1 = shm.h1, past'.salt = past.salt,
         con[c].pc \notin {"restartHdr", "commitHdr"},
         HeadOK(con'[c], shm, past.salt)
  PROVE  HeadInv'
<1>1. past.salt \in Nat /\ past.salt <= past.salt
  BY HeadTypes
<1> QED BY <1>1, HeadStep

\* A move that changes nothing of the header, by a connection that has one.
LEMMA HeadMove ==
  ASSUME TypeInv, DataInv, HeadInv, NEW c \in Conn, Only(c),
         shm'.h0 = shm.h0, shm'.h1 = shm.h1, past'.salt = past.salt, shm.h0.init,
         con'[c].hdr.chg = con[c].hdr.chg, con'[c].hdr.salt = con[c].hdr.salt,
         InTxn(con'[c]) <=> InTxn(con[c]), con[c].pc \notin {"restartHdr", "commitHdr"},
         con'[c].pc \notin {"commitHdr", "restartHdr", "recoverInfo", "recover", "recoverHdr"}
  PROVE  HeadInv'
<1>1. past.salt \in Nat /\ past.salt <= past.salt /\ con[c].hdr.salt \in Nat
      /\ HeadOK(con[c], shm, past.salt)
  BY HeadTypes, AtHead
<1>2. HeadOK(con'[c], shm, past.salt)
  BY <1>1, HeadSame
<1> QED BY <1>2, HeadQuiet

\* The header has just been loaded.
LEMMA HeadLoaded ==
  ASSUME TypeInv, DataInv, HeadInv, NEW c \in Conn, Only(c), UNCHANGED <<shm, past>>, shm.h0.init,
         con'[c].hdr = shm.h0, con[c].pc \notin {"restartHdr", "commitHdr"},
         con'[c].pc \in {"choose", "ckptTest"}
  PROVE  HeadInv'
<1>1. shm.h0.chg \in Nat /\ shm.h0.salt \in Nat
  BY HeadTypes
<1>2. shm.h0.chg <= shm.h0.chg /\ shm.h0.salt <= shm.h0.salt
  BY <1>1
<1>3. HeadOK(con'[c], shm, past.salt)
  BY <1>2, HeadOutside DEF InTxn, Writes, Restarting, Logging
<1> QED BY <1>3, HeadQuiet

\* A move between phases in which a connection may have no header.
LEMMA HeadIdle ==
  ASSUME TypeInv, DataInv, HeadInv, NEW c \in Conn, Only(c), UNCHANGED <<shm, past>>,
         con[c].pc \in {"closed", "idle", "retryHdr", "ckptHdr", "ckptEnd"},
         con'[c].pc \in {"closed", "idle", "retryHdr", "ckptHdr", "ckptEnd"},
         con'[c].hdr = con[c].hdr \/ con'[c].hdr = NoHdr,
         con'[c].cache = con[c].cache \/ con'[c].cache = NoImage
  PROVE  HeadInv'
<1>1. HeadOK(con[c], shm, past.salt) /\ shm.h0.chg \in Nat /\ shm.h0.salt \in Nat
  BY AtHead, HeadTypes
<1>2. ~InTxn(con[c]) /\ ~InTxn(con'[c])
  BY DEF InTxn, Writes, Restarting, Logging
<1>3. CASE shm.h0.init
  <2>1. con[c].hdr.chg <= shm.h0.chg /\ con[c].hdr.salt <= shm.h0.salt
    BY <1>1, <1>2, <1>3 DEF HeadOK
  <2>2. NoHdr.chg <= shm.h0.chg /\ NoHdr.salt <= shm.h0.salt
    BY <1>1 DEF NoHdr, Hdr
  <2>3. HeadOK(con'[c], shm, past.salt)
    BY <1>2, <1>3, <2>1, <2>2, HeadOutside
  <2> QED BY <2>3, HeadQuiet
<1>4. CASE ~shm.h0.init
  <2>1. Blank(con[c])
    BY <1>1, <1>4 DEF HeadOK
  <2>2. Blank(con'[c])
    BY <2>1 DEF Blank
  <2>3. HeadOK(con'[c], shm, past.salt)
    BY <1>4, <2>2, HeadBlank
  <2> QED BY <2>3, HeadQuiet
<1> QED BY <1>3, <1>4

LEMMA BeginReadHead ==
  ASSUME TypeInv, DataInv, HeadInv, NEW c \in Conn, BeginRead(c) PROVE HeadInv'
<1> DEFINE x == con[c]
           y == con'[c]
<1>1. /\ Only(c) /\ UNCHANGED <<shm, log, file, past>> /\ x.pc = "idle"
      /\ \/ GoodHdr /\ y.pc = "choose" /\ Loaded(y, x, shm.h0)
         \/ y.pc = "retryHdr" /\ Moved(y, x)
  BY BeginReadEffect
<1>2. CASE GoodHdr /\ y.pc = "choose" /\ Loaded(y, x, shm.h0)
  BY <1>1, <1>2, HeadLoaded DEF Loaded, GoodHdr
<1>3. CASE y.pc = "retryHdr" /\ Moved(y, x)
  BY <1>1, <1>3, HeadIdle DEF Moved
<1> QED BY <1>1, <1>2, <1>3

LEMMA RetryHdrHead ==
  ASSUME TypeInv, DataInv, HeadInv, NEW c \in Conn, RetryHdr(c) PROVE HeadInv'
<1> DEFINE x == con[c]
           y == con'[c]
<1>1. /\ Only(c) /\ UNCHANGED <<shm, log, file, past>> /\ x.pc = "retryHdr" /\ WRITE \in x.excl
      /\ \/ /\ GoodHdr /\ y.pc = IF x.w.ckpt THEN "ckptTest" ELSE "choose"
            /\ Loaded(y, x, shm.h0)
         \/ ~GoodHdr /\ y.pc = "recover" /\ Moved(y, x)
         \/ y.pc = "ckptEnd" /\ Moved(y, x)
         \/ y.pc = "idle" /\ y.hdr = x.hdr /\ y.cache = x.cache
  BY RetryHdrEffect
<1>2. CASE /\ GoodHdr /\ y.pc = IF x.w.ckpt THEN "ckptTest" ELSE "choose"
           /\ Loaded(y, x, shm.h0)
  BY <1>1, <1>2, HeadLoaded DEF Loaded, GoodHdr
<1>3. CASE ~GoodHdr /\ y.pc = "recover" /\ Moved(y, x)
  <2>1. ASSUME NEW d \in Conn, con[d].pc \in {"restartHdr", "commitHdr"} PROVE FALSE
    <3>1. WRITE \in con[d].excl /\ d # c
      BY <1>1, <2>1, AtConn DEF Phase, Restarting, Logging
    <3> QED BY <1>1, <3>1 DEF TypeInv, LockInv
  <2>2. ~shm.h0.init
    BY <1>3, <2>1 DEF HeadInv, GoodHdr
  <2>3. Blank(x)
    BY <2>2, AtHead DEF HeadOK
  <2>4. Blank(y)
    BY <1>1, <1>3, <2>3 DEF Blank, Moved
  <2>5. HeadOK(y, shm, past.salt)
    BY <2>2, <2>4, HeadBlank
  <2> QED BY <1>1, <2>5, HeadQuiet
<1>4. CASE y.pc \in {"ckptEnd", "idle"} /\ y.hdr = x.hdr /\ y.cache = x.cache
  BY <1>1, <1>4, HeadIdle
<1> QED BY <1>1, <1>2, <1>3, <1>4 DEF Moved

LEMMA RecoverHead ==
  ASSUME TypeInv, DataInv, HeadInv, NEW c \in Conn, Recover(c) PROVE HeadInv'
<1> DEFINE x == con[c]
           y == con'[c]
<1>1. /\ Only(c) /\ past' = past /\ x.pc = "recover" /\ y.pc = "recoverHdr"
      /\ shm'.h0 = shm.h0 /\ (y.cache = x.cache \/ y.cache = NoImage)
  BY RecoverEffect
<1>2. HeadOK(x, shm, past.salt) /\ past.salt \in Nat /\ past.salt <= past.salt
  BY AtHead, HeadTypes
<1>3. ~shm.h0.init /\ Blank(x)
  BY <1>1, <1>2 DEF HeadOK
<1>4. Blank(y)
  BY <1>1, <1>3 DEF Blank
<1>5. HeadOK(y, shm, past'.salt)
  BY <1>3, <1>4, HeadBlank
<1> QED BY <1>1, <1>2, <1>3, <1>5, HeadStep

LEMMA RecoverHdrHead ==
  ASSUME TypeInv, BackInv, DataInv, HeadInv, NEW c \in Conn, RecoverHdr(c),
         con[c].hdr = RecoveredHdr(log.cur)
  PROVE  HeadInv'
<1> DEFINE x == con[c]
           y == con'[c]
<1>1. /\ Only(c) /\ x.pc = "recoverHdr" /\ x.excl = AllLocks
      /\ y.pc = "recoverInfo" /\ Moved(y, x) /\ shm'.h0 = x.hdr /\ shm'.h1 = shm.h1
      /\ past' = Saw(RecoveredImage(log.cur, file.cur))
  BY RecoverHdrEffect
<1>2. /\ log.cur \in Logs /\ log.cur.salt <= past.salt /\ file.cur \in Images
      /\ past.salt \in Nat /\ log.cur.salt \in Nat
  BY DEF TypeInv, LogInv, PastInv, Logs, DataInv, FileData, PastData
<1>3. past'.salt = past.salt
  BY <1>1, <1>2, SawOK, RecoveredImageOK
<1>4. x.hdr.salt <= log.cur.salt /\ x.hdr.init /\ x.hdr.chg \in Nat /\ x.hdr.salt \in Nat
  BY <1>2, RecoveredFields, HeadTypes
<1>5. x.hdr = shm.h1 /\ ~shm.h0.init
  BY <1>1, AtHead DEF BackInv, BackOK, HeadOK
<1>6. ASSUME NEW d \in Conn PROVE HeadOK(con'[d], shm', past'.salt)
  <2>1. CASE d = c
    <3>1. ~InTxn(y)
      BY <1>1 DEF InTxn, Writes, Restarting, Logging
    <3>2. y.hdr = shm'.h0 /\ x.hdr.chg <= x.hdr.chg /\ x.hdr.salt <= x.hdr.salt
      BY <1>1, <1>4 DEF Moved
    <3> QED BY <1>1, <1>4, <2>1, <3>1, <3>2 DEF HeadOK, Restarting
  <2>2. CASE d # c
    <3>1. con'[d] = con[d] /\ Blank(con[d])
      BY <1>1, <1>5, <2>2, AtHead DEF Only, HeadOK
    <3>2. con[d].pc \notin Recovering
      <4>1. SUFFICES ASSUME con[d].excl = AllLocks PROVE FALSE
        BY AtConn DEF Phase
      <4>2. WRITE \in AllLocks
        BY Constants DEF WRITE, AllLocks
      <4> QED BY <1>1, <2>2, <4>1, <4>2 DEF TypeInv, LockInv
    <3>3. con[d].hdr = NoHdr /\ con[d].pc \notin {"recover", "recoverHdr", "recoverInfo"}
      BY <3>1, <3>2 DEF Blank, Recovering
    <3>4. ~InTxn(con[d])
      BY <3>1 DEF InTxn, Writes, Restarting, Logging, Blank
    <3>5. con[d].hdr.chg <= shm'.h0.chg /\ con[d].hdr.salt <= shm'.h0.salt
      BY <1>1, <1>4, <3>3 DEF NoHdr, Hdr
    <3> QED BY <1>1, <1>4, <3>1, <3>3, <3>4, <3>5, HeadOutside
  <2> QED BY <2>1, <2>2
<1>7. shm'.h0 = shm'.h1 /\ shm'.h0.salt <= past'.salt
  BY <1>1, <1>2, <1>3, <1>4, <1>5
<1> QED BY <1>6, <1>7 DEF HeadInv

LEMMA RecoverInfoHead ==
  ASSUME TypeInv, DataInv, HeadInv, NEW c \in Conn, RecoverInfo(c) PROVE HeadInv'
<1> DEFINE x == con[c]
           y == con'[c]
<1>1. /\ Only(c) /\ past' = past /\ x.pc = "recoverInfo"
      /\ y.pc = (IF x.w.ckpt THEN "ckptTest" ELSE "choose") /\ Moved(y, x)
      /\ shm'.h0 = shm.h0 /\ shm'.h1 = shm.h1
  BY RecoverInfoEffect
<1>2. shm.h0.init
  BY <1>1, AtHead
<1>3. ~InTxn(x) /\ ~InTxn(y)
  BY <1>1 DEF InTxn, Writes, Restarting, Logging
<1>4. y.hdr = x.hdr /\ y.pc \in {"ckptTest", "choose"}
  BY <1>1 DEF Moved
<1> HIDE DEF x, y
<1> QED BY <1>1, <1>2, <1>3, <1>4, HeadMove DEF x, y

\* The steps of a reader.
LEMMA ReaderHead ==
  ASSUME TypeInv, DataInv, HeadInv, NEW c \in Conn,
         Choose(c) \/ Lock0(c) \/ Pick(c) \/ LockMark(c) \/ EndRead(c)
  PROVE  HeadInv'
<1> DEFINE x == con[c]
           y == con'[c]
<1>0. Phase(c, x)
  BY AtConn
<1>1. /\ Only(c) /\ past' = past /\ shm'.h0 = shm.h0 /\ shm'.h1 = shm.h1
      /\ y.hdr = x.hdr /\ x.pc \in {"choose", "lock0", "pick", "lockMark", "read"}
      /\ y.pc \in {"lock0", "pick", "idle", "read", "lockMark", "frames"}
      /\ y.excl = x.excl
      /\ x.pc \in {"choose", "lock0", "read"} => x.excl = {}
      /\ WRITE \notin x.excl => y.pc # "frames"
      /\ y.pc \in {"idle", "lock0"} => WRITE \notin x.excl
  <2>1. CASE Choose(c)
    BY <2>1, ChooseEffect DEF Moved
  <2>2. CASE Lock0(c)
    BY <2>2, Lock0Effect DEF Moved, Retried, NowReads
  <2>3. CASE Pick(c)
    BY <2>3, PickEffect DEF Retried
  <2>4. CASE LockMark(c)
    BY <2>4, LockMarkEffect DEF Retried, NowReads
  <2>5. CASE EndRead(c)
    BY <2>5, EndReadEffect
  <2> QED BY <2>1, <2>2, <2>3, <2>4, <2>5
<1>2. shm.h0.init
  BY <1>1, AtHead
<1>3. InTxn(x) <=> InTxn(y)
  <2>1. InTxn(x) <=> WRITE \in x.excl
    BY <1>1 DEF InTxn, Writes, Restarting, Logging
  <2>2. InTxn(y) <=> WRITE \in y.excl
    BY <1>1 DEF InTxn, Writes, Restarting, Logging
  <2> QED BY <1>1, <2>1, <2>2
<1> HIDE DEF x, y
<1> QED BY <1>1, <1>2, <1>3, HeadMove DEF x, y

LEMMA BeginWriteHead ==
  ASSUME TypeInv, DataInv, HeadInv, NEW c \in Conn, BeginWrite(c) PROVE HeadInv'
<1> DEFINE x == con[c]
           y == con'[c]
<1>1. /\ Only(c) /\ UNCHANGED <<shm, past>> /\ x.pc = "read" /\ shm.h0 = x.hdr
      /\ y.pc = "read" /\ Moved(y, x)
  BY BeginWriteEffect
<1>2. shm.h0.init /\ shm.h0.salt \in Nat /\ shm.h0.salt <= past.salt /\ x.hdr.chg \in Nat
  BY <1>1, AtHead, HeadTypes DEF HeadInv
<1>3. y.hdr = shm.h0 /\ shm.h0.salt <= shm.h0.salt /\ shm.h0.chg <= shm.h0.chg
  BY <1>1, <1>2 DEF Moved
<1>4. HeadOK(y, shm, past.salt)
  BY <1>1, <1>2, <1>3 DEF HeadOK, Moved
<1> QED BY <1>1, <1>4, HeadQuiet

\* The steps of a writer that leave the numbers of its header alone.
LEMMA WriterHead ==
  ASSUME TypeInv, DataInv, HeadInv, NEW c \in Conn,
         \/ \E S \in SUBSET (1..MaxPage), n \in 0..MaxPage, commit \in BOOLEAN :
              Frames(c, S, n, commit)
         \/ RestartInfo(c) \/ SyncLogHdr(c) \/ WriteFrame(c)
         \/ Savepoint(c) \/ SavepointUndo(c)
  PROVE  HeadInv'
<1> DEFINE x == con[c]
           y == con'[c]
<1>1. /\ Only(c) /\ shm'.h0 = shm.h0 /\ shm'.h1 = shm.h1 /\ past'.salt = past.salt
      /\ y.hdr.chg = x.hdr.chg /\ y.hdr.salt = x.hdr.salt
      /\ x.pc \in {"restartInfo", "frames", "append", "syncHdr"}
           \/ (x.pc = "read" /\ WRITE \in x.excl)
      /\ y.pc \in {"restart", "frames", "append"}
           \/ (y.pc \in {"read", "pick"} /\ WRITE \in y.excl)
  <2>1. CASE \E S \in SUBSET (1..MaxPage), n \in 0..MaxPage, commit \in BOOLEAN :
              Frames(c, S, n, commit)
    <3>1. PICK S \in SUBSET (1..MaxPage), n \in 0..MaxPage, commit \in BOOLEAN :
            Frames(c, S, n, commit)
      BY <2>1
    <3>2. FramesFacts(c, S, n, commit)
      BY <3>1, FramesEffect
    <3>3. /\ Only(c) /\ UNCHANGED shm /\ past' = [past EXCEPT !.ver = past.ver + 1]
          /\ x.pc = "read" /\ x.excl = {WRITE}
          /\ y.pc = (IF x.lock = 0 THEN "restart" ELSE "frames") /\ y.hdr = x.hdr
      BY <3>2 DEF FramesFacts
    <3>4. past'.salt = past.salt
      BY <3>3 DEF TypeInv, PastInv
    <3> QED BY <3>3, <3>4
  <2>2. CASE RestartInfo(c)
    BY <2>2, RestartInfoEffect
  <2>3. CASE SyncLogHdr(c)
    BY <2>3, SyncLogHdrEffect DEF Moved
  <2>4. CASE WriteFrame(c)
    BY <2>4, WriteFrameEffect
  <2>5. CASE Savepoint(c)
    BY <2>5, SavepointEffect DEF Writing, Pc
  <2>6. CASE SavepointUndo(c)
    <3>1. /\ Only(c) /\ shm'.h0 = shm.h0 /\ shm'.h1 = shm.h1 /\ past' = past
          /\ Writing(c) /\ y.pc = "read" /\ y.excl = x.excl
      BY <2>6, SavepointUndoEffect
    <3>2. y.hdr.chg = x.hdr.chg /\ y.hdr.salt = x.hdr.salt
      BY <2>6, SavepointUndoEffect
    <3> QED BY <3>1, <3>2 DEF Writing, Pc
  <2> QED BY <2>1, <2>2, <2>3, <2>4, <2>5, <2>6
<1>2. shm.h0.init
  BY <1>1, AtHead
<1>3. InTxn(x) /\ InTxn(y)
  BY <1>1 DEF InTxn, Writes, Restarting, Logging
<1> HIDE DEF x, y
<1> QED BY <1>1, <1>2, <1>3, HeadMove DEF x, y

LEMMA RestartLogHead ==
  ASSUME TypeInv, DataInv, HeadInv, NEW c \in Conn, RestartLog(c) PROVE HeadInv'
<1> DEFINE x == con[c]
           y == con'[c]
<1>1. Only(c) /\ x.pc = "restart" /\ x.excl = {WRITE} /\ y.hdr.chg = x.hdr.chg
  BY RestartLogEffect
<1>2. \/ /\ y.pc = "restartHdr" /\ y.hdr.salt = past.salt + 1 /\ shm'.h0 = shm.h0
         /\ past' = [past EXCEPT !.salt = @ + 1]
      \/ y.pc = "pick" /\ UNCHANGED <<shm, past>> /\ y.hdr = x.hdr /\ y.excl = x.excl
  BY RestartLogEffect
<1>3. /\ shm.h0.init /\ HeadOK(x, shm, past.salt) /\ past.salt \in Nat /\ shm.h0.salt \in Nat
      /\ shm.h0.salt <= past.salt
  BY <1>1, AtHead, HeadTypes DEF HeadInv
<1>4. InTxn(x)
  BY <1>1 DEF InTxn, Restarting
<1>5. CASE /\ y.pc = "restartHdr" /\ y.hdr.salt = past.salt + 1 /\ shm'.h0 = shm.h0
           /\ past' = [past EXCEPT !.salt = @ + 1]
  <2>1. past'.salt = past.salt + 1
    BY <1>5 DEF TypeInv, PastInv
  <2>2. x.hdr.chg = shm.h0.chg
    BY <1>1, <1>3, <1>4 DEF HeadOK
  <2>3. past'.salt \in Nat /\ past.salt <= past'.salt /\ shm.h0.salt <= y.hdr.salt
        /\ y.hdr.salt <= past'.salt /\ shm.h0.salt < y.hdr.salt
    BY <1>3, <1>5, <2>1
  <2>4. HeadOK(y, shm, past'.salt)
    BY <1>1, <1>3, <1>5, <2>2, <2>3 DEF HeadOK, InTxn, Restarting
  <2> QED BY <1>1, <1>5, <2>3, <2>4, HeadStep
<1>6. CASE y.pc = "pick" /\ UNCHANGED <<shm, past>> /\ y.hdr = x.hdr /\ y.excl = x.excl
  <2>1. InTxn(y)
    BY <1>1, <1>6 DEF InTxn, Writes
  <2> HIDE DEF x, y
  <2> QED BY <1>1, <1>3, <1>4, <1>6, <2>1, HeadMove DEF x, y
<1> QED BY <1>2, <1>5, <1>6

LEMMA WriteLogHdrHead ==
  ASSUME TypeInv, DataInv, HeadInv, NEW c \in Conn, WriteLogHdr(c) PROVE HeadInv'
<1> DEFINE x == con[c]
           y == con'[c]
<1>1. /\ Only(c) /\ UNCHANGED shm /\ x.pc = "frames" /\ y.pc = "syncHdr"
      /\ y.hdr.chg = x.hdr.chg
      /\ \/ past' = [past EXCEPT !.salt = @ + 1] /\ y.hdr.salt = past.salt + 1
         \/ past' = past /\ y.hdr.salt = x.hdr.salt
  BY WriteLogHdrEffect
<1>2. /\ shm.h0.init /\ HeadOK(x, shm, past.salt) /\ past.salt \in Nat /\ shm.h0.salt \in Nat
      /\ shm.h0.salt <= past.salt /\ x.hdr.salt \in Nat
  BY <1>1, AtHead, HeadTypes DEF HeadInv
<1>3. InTxn(x) /\ InTxn(y)
  BY <1>1 DEF InTxn, Writes, Logging
<1>4. /\ x.hdr.chg = shm.h0.chg /\ shm.h0.salt <= x.hdr.salt /\ x.hdr.salt <= past.salt
  BY <1>1, <1>2, <1>3 DEF HeadOK
<1>5. \/ past'.salt = past.salt + 1 /\ y.hdr.salt = past.salt + 1
      \/ past'.salt = past.salt /\ y.hdr.salt = x.hdr.salt
  BY <1>1 DEF TypeInv, PastInv
<1>6. past'.salt \in Nat /\ past.salt <= past'.salt /\ shm.h0.salt <= y.hdr.salt
      /\ y.hdr.salt <= past'.salt
  BY <1>2, <1>4, <1>5
<1>7. HeadOK(y, shm, past'.salt)
  BY <1>1, <1>2, <1>3, <1>4, <1>6 DEF HeadOK
<1> QED BY <1>1, <1>6, <1>7, HeadStep

\* With the last frame of a commit the change counter moves.
LEMMA EndFramesHead ==
  ASSUME TypeInv, DataInv, HeadInv, NEW c \in Conn, EndFrames(c) PROVE HeadInv'
<1> DEFINE x == con[c]
           y == con'[c]
<1>1. /\ Only(c) /\ past' = past /\ x.pc = "append" /\ shm'.h0 = shm.h0
      /\ x.excl = {WRITE} /\ y.excl = x.excl /\ y.hdr.salt = x.hdr.salt
      /\ y.pc = IF x.w.commit THEN "commitHdr" ELSE "read"
      /\ y.hdr.chg = IF x.w.commit THEN x.hdr.chg + 1 ELSE x.hdr.chg
      /\ shm'.h1 = IF x.w.commit THEN y.hdr ELSE shm.h1
  BY EndFramesEffect
<1>2. /\ shm.h0.init /\ HeadOK(x, shm, past.salt) /\ past.salt \in Nat /\ past.salt <= past.salt
  BY <1>1, AtHead, HeadTypes
<1>3. InTxn(x) /\ InTxn(y)
  BY <1>1 DEF InTxn, Writes, Logging
<1>4. /\ x.hdr.chg = shm.h0.chg /\ shm.h0.salt <= x.hdr.salt /\ x.hdr.salt <= past.salt
  BY <1>1, <1>2, <1>3 DEF HeadOK
<1>5. HeadOK(y, shm, past.salt)
  BY <1>1, <1>2, <1>3, <1>4 DEF HeadOK
<1> QED BY <1>1, <1>2, <1>5, HeadStep

\* Of two connections only one is in a write transaction or recovers.
LEMMA OneTxn ==
  ASSUME TypeInv, NEW c \in Conn, NEW d \in Conn, c # d, WRITE \in con[c].excl
  PROVE  ~InTxn(con[d]) /\ WRITE \notin con[d].excl /\ con[d].pc \notin Recovering
<1>1. WRITE \notin con[d].excl
  BY DEF TypeInv, LockInv
<1>2. Phase(d, con[d]) /\ WRITE \in AllLocks
  BY AtConn, Constants DEF WRITE, AllLocks
<1> QED BY <1>1, <1>2 DEF Phase, InTxn, Writes, Restarting, Logging

\* A step that puts a newer header in place, under the write lock.
LEMMA HeadNewer ==
  ASSUME TypeInv, DataInv, HeadInv, NEW c \in Conn, Only(c), WRITE \in con[c].excl,
         shm.h0.init, shm'.h0.init, shm'.h0 = shm'.h1, shm'.h0.salt <= past'.salt,
         shm'.h0.chg \in Nat, shm'.h0.salt \in Nat,
         shm.h0.chg <= shm'.h0.chg, shm.h0.salt <= shm'.h0.salt,
         HeadOK(con'[c], shm', past'.salt)
  PROVE  HeadInv'
<1>1. ASSUME NEW d \in Conn PROVE HeadOK(con'[d], shm', past'.salt)
  <2>1. CASE d = c
    BY <2>1
  <2>2. CASE d # c
    <3>1. con'[d] = con[d] /\ HeadOK(con[d], shm, past.salt)
      BY <2>2, AtHead DEF Only
    <3>2. ~InTxn(con[d]) /\ con[d].pc \notin Recovering
      BY <2>2, OneTxn
    <3>3. con[d].hdr.chg <= shm.h0.chg /\ con[d].hdr.salt <= shm.h0.salt
      BY <3>1, <3>2 DEF HeadOK
    <3>4. con[d].hdr.chg <= shm'.h0.chg /\ con[d].hdr.salt <= shm'.h0.salt
      BY <3>3, HeadTypes
    <3> QED BY <3>1, <3>2, <3>4, HeadOutside DEF Recovering
  <2> QED BY <2>1, <2>2
<1> QED BY <1>1 DEF HeadInv

LEMMA RestartHdrHead ==
  ASSUME TypeInv, BackInv, DataInv, HeadInv, NEW c \in Conn, RestartHdr(c) PROVE HeadInv'
<1> DEFINE x == con[c]
           y == con'[c]
<1>1. /\ Only(c) /\ past' = past /\ x.pc = "restartHdr" /\ y.pc = "restartInfo" /\ Moved(y, x)
      /\ shm'.h0 = x.hdr /\ shm'.h1 = shm.h1
  BY RestartHdrEffect
<1>2. /\ shm.h0.init /\ HeadOK(x, shm, past.salt) /\ x.hdr.chg \in Nat /\ x.hdr.salt \in Nat
      /\ shm.h0.chg \in Nat /\ shm.h0.salt \in Nat
  BY <1>1, AtHead, HeadTypes
<1>3. WRITE \in x.excl
  BY <1>1, AtConn DEF Phase, Restarting
<1>4. x.hdr.init /\ x.hdr = shm.h1
  BY <1>1 DEF BackInv, BackOK, Informed, Restarting
<1>5. /\ x.hdr.chg = shm.h0.chg /\ shm.h0.salt <= x.hdr.salt /\ x.hdr.salt <= past.salt
  BY <1>1, <1>2 DEF HeadOK, InTxn, Restarting
<1>6. shm.h0.chg <= shm'.h0.chg /\ y.hdr = shm'.h0 /\ x.hdr.salt <= x.hdr.salt
  BY <1>1, <1>2, <1>5 DEF Moved
<1>7. HeadOK(y, shm', past'.salt)
  BY <1>1, <1>2, <1>4, <1>5, <1>6 DEF HeadOK
<1> QED BY <1>1, <1>2, <1>3, <1>4, <1>5, <1>6, <1>7, HeadNewer

LEMMA CommitHdrHead ==
  ASSUME TypeInv, BackInv, DataInv, HeadInv, NEW c \in Conn, CommitHdr(c) PROVE HeadInv'
<1> DEFINE x == con[c]
           y == con'[c]
<1>1. /\ Only(c) /\ x.pc = "commitHdr" /\ x.excl = {WRITE}
      /\ Finished(y, x, x.hdr, x.image)
      /\ shm'.h0 = x.hdr /\ shm'.h1 = shm.h1 /\ past' = Saw(x.image)
  BY CommitHdrEffect
<1>2. /\ shm.h0.init /\ HeadOK(x, shm, past.salt) /\ x.hdr.chg \in Nat /\ x.hdr.salt \in Nat
      /\ shm.h0.chg \in Nat /\ shm.h0.salt \in Nat
  BY <1>1, AtHead, HeadTypes
<1>3. x.hdr.init /\ x.hdr = shm.h1
  BY <1>1 DEF BackInv, BackOK, Informed, Logging
<1>4. /\ x.hdr.chg = shm.h0.chg + 1 /\ shm.h0.salt <= x.hdr.salt /\ x.hdr.salt <= past.salt
  BY <1>1, <1>2 DEF HeadOK, InTxn, Writes, Logging
<1>5. past'.salt = past.salt
  <2>1. x.image \in Images
    BY DEF DataInv, ConnData
  <2> QED BY <1>1, <2>1, SawOK
<1>6. shm.h0.chg <= shm'.h0.chg /\ y.hdr = shm'.h0 /\ x.hdr.salt <= x.hdr.salt
      /\ x.hdr.chg <= x.hdr.chg
  BY <1>1, <1>2, <1>4 DEF Finished
<1>7. HeadOK(y, shm', past'.salt)
  <2>1. ~InTxn(y) /\ y.pc = "read"
    BY <1>1 DEF InTxn, Writes, Restarting, Logging, Finished
  <2> QED BY <1>1, <1>3, <1>6, <2>1, HeadOutside
<1> QED BY <1>1, <1>2, <1>3, <1>4, <1>5, <1>6, <1>7, HeadNewer

LEMMA RollbackHead ==
  ASSUME TypeInv, DataInv, HeadInv, NEW c \in Conn, Rollback(c) PROVE HeadInv'
<1> DEFINE x == con[c]
           y == con'[c]
<1>1. /\ Only(c) /\ UNCHANGED past /\ x.pc = "read" /\ Finished(y, x, shm.h0, x.cache)
      /\ shm'.h0 = shm.h0 /\ shm'.h1 = shm.h1
  BY RollbackEffect DEF Writing, Pc
<1>2. shm.h0.init /\ shm.h0.chg \in Nat /\ shm.h0.salt \in Nat
  BY <1>1, AtHead, HeadTypes
<1>3. ~InTxn(y) /\ y.pc = "read" /\ y.hdr = shm.h0
  BY <1>1 DEF InTxn, Writes, Restarting, Logging, Finished
<1>4. shm.h0.chg <= shm.h0.chg /\ shm.h0.salt <= shm.h0.salt
  BY <1>2
<1>5. HeadOK(y, shm, past.salt)
  BY <1>2, <1>3, <1>4, HeadOutside
<1> QED BY <1>1, <1>5, HeadQuiet

\* The steps of a checkpoint, and a connection that comes or goes.
LEMMA CkptHead ==
  ASSUME TypeInv, DataInv, HeadInv, NEW c \in Conn,
         CkptTest(c) \/ CkptMark(c) \/ CkptLock0(c) \/ CkptWrite(c) \/ CkptDone(c)
  PROVE  HeadInv'
<1> DEFINE x == con[c]
           y == con'[c]
<1>0. DOMAIN file = {"cur", "dur"}
  BY DEF DataInv, FileData
<1>1. /\ Only(c) /\ shm'.h0 = shm.h0 /\ shm'.h1 = shm.h1 /\ past' = past /\ y.hdr = x.hdr
      /\ x.pc \in {"ckptTest", "ckptMark", "ckptLock0", "ckptWrite"}
      /\ y.pc \in {"ckptMark", "ckptLock0", "ckptWrite", "ckptEnd"}
  <2>1. CASE CkptTest(c)
    BY <2>1, CkptTestEffect DEF Moved
  <2>2. CASE CkptMark(c)
    BY <2>2, CkptMarkEffect
  <2>3. CASE CkptLock0(c)
    BY <2>3, CkptLock0Effect DEF Moved
  <2>4. CASE CkptWrite(c)
    BY <1>0, <2>4, CkptWriteEffect
  <2>5. CASE CkptDone(c)
    BY <1>0, <2>5, CkptDoneEffect DEF Moved
  <2> QED BY <2>1, <2>2, <2>3, <2>4, <2>5
<1>2. shm.h0.init
  BY <1>1, AtHead
<1>3. InTxn(x) <=> InTxn(y)
  BY <1>1 DEF InTxn, Writes, Restarting, Logging
<1> HIDE DEF x, y
<1> QED BY <1>1, <1>2, <1>3, HeadMove DEF x, y

LEMMA CkptHdrHead ==
  ASSUME TypeInv, DataInv, HeadInv, NEW c \in Conn, CkptHdr(c) PROVE HeadInv'
<1> DEFINE x == con[c]
           y == con'[c]
<1>1. /\ Only(c) /\ UNCHANGED <<shm, log, file, past>> /\ x.pc = "ckptHdr"
      /\ \/ GoodHdr /\ y.pc = "ckptTest" /\ Loaded(y, x, shm.h0)
         \/ y.pc \in {"retryHdr", "ckptEnd"} /\ Moved(y, x)
  BY CkptHdrEffect
<1>2. CASE GoodHdr /\ y.pc = "ckptTest" /\ Loaded(y, x, shm.h0)
  BY <1>1, <1>2, HeadLoaded DEF Loaded, GoodHdr
<1>3. CASE y.pc \in {"retryHdr", "ckptEnd"} /\ Moved(y, x)
  BY <1>1, <1>3, HeadIdle DEF Moved
<1> QED BY <1>1, <1>2, <1>3

LEMMA AllClosedHead == ASSUME AllClosed', past'.salt \in Nat PROVE HeadInv'
<1>1. ~shm'.h0.init /\ shm'.h0.salt = 0
  BY DEF AllClosed, EmptyShm, NoHdr, Hdr
<1>2. Blank(Closed)
  BY DEF Blank, Closed, Connected
<1>3. \A c \in Conn : HeadOK(con'[c], shm', past'.salt)
  BY <1>1, <1>2, HeadBlank DEF AllClosed
<1> QED BY <1>1, <1>3 DEF HeadInv

LEMMA LifeHead ==
  ASSUME TypeInv, DataInv, HeadInv, NEW c \in Conn,
         Open(c) \/ Close(c) \/ CkptEnd(c) \/ \E block : CkptBegin(c, block)
  PROVE  HeadInv'
<1> DEFINE x == con[c]
           y == con'[c]
<1>1. CASE /\ Only(c) /\ UNCHANGED <<shm, past>>
           /\ x.pc \in {"closed", "idle", "ckptEnd"} /\ y.pc \in {"closed", "idle", "ckptHdr"}
           /\ y.hdr = x.hdr \/ y.hdr = NoHdr
           /\ y.cache = x.cache \/ y.cache = NoImage
  BY <1>1, HeadIdle
<1>2. CASE Open(c)
  BY <1>1, <1>2, OpenEffect DEF Connected
<1>3. CASE Close(c)
  <2>1. Closed.pc = "closed" /\ Closed.hdr = NoHdr /\ Closed.cache = NoImage
    BY DEF Closed, Connected
  <2> QED BY <1>1, <1>3, <2>1, CloseEffect
<1>4. CASE CkptEnd(c)
  <2>1. past' = past /\ past.salt \in Nat
    BY <1>4, CkptEndEffect, HeadTypes
  <2> QED BY <1>1, <1>4, <2>1, CkptEndEffect, AllClosedHead
<1>5. ASSUME NEW block, CkptBegin(c, block) PROVE HeadInv'
  BY <1>1, <1>5, CkptBeginEffect
<1> QED BY <1>2, <1>3, <1>4, <1>5

LEMMA KillHead ==
  ASSUME OneWriter, TypeInv, BackInv, DataInv, HeadInv, NEW P \in Mortal, Kill(P)
  PROVE  HeadInv'
<1>1. /\ past' = past /\ \A c \in Conn : con'[c] = IF c \in P THEN Closed ELSE con[c]
      /\ AllClosed' \/ (shm' = shm /\ ~(Conn \subseteq P))
  BY KillEffect
<1>2. CASE AllClosed'
  <2>1. past'.salt \in Nat
    BY <1>1 DEF TypeInv, PastInv
  <2> QED BY <1>2, <2>1, AllClosedHead
<1>3. CASE shm' = shm /\ ~(Conn \subseteq P)
  <2>1. PICK w \in Conn : Writers \subseteq {w} /\ (w \in P => Conn \subseteq P)
    BY DEF OneWriter
  <2>2. ASSUME NEW d \in Conn, con[d].pc \in {"restartHdr", "commitHdr"}
        PROVE  con'[d].pc = con[d].pc
    <3>1. d \in Writers
      BY <2>2 DEF BackInv, BackOK, Writes, Restarting, Logging
    <3> QED BY <1>1, <1>3, <2>1, <3>1
  <2>3. ASSUME NEW d \in Conn PROVE HeadOK(con'[d], shm', past'.salt)
    <3>1. CASE d \notin P
      BY <1>1, <1>3, <3>1 DEF HeadInv
    <3>2. CASE d \in P
      <4>1. /\ Closed.pc = "closed" /\ Closed.hdr.chg = 0 /\ Closed.hdr.salt = 0 /\ Blank(Closed)
        BY DEF Closed, Connected, NoHdr, Hdr, Blank
      <4>2. ~InTxn(Closed) /\ 0 <= shm.h0.chg /\ 0 <= shm.h0.salt
        BY <4>1, HeadTypes DEF InTxn, Writes, Restarting, Logging
      <4>3. HeadOK(Closed, shm, past.salt)
        BY <4>1, <4>2, HeadOutside, HeadBlank
      <4> QED BY <1>1, <1>3, <3>2, <4>3
    <3> QED BY <3>1, <3>2
  <2>4. shm'.h0.init => shm'.h0 = shm'.h1 \/ \E d \in Conn : con'[d].pc \in {"restartHdr", "commitHdr"}
    BY <1>3, <2>2 DEF HeadInv
  <2> QED BY <1>1, <1>3, <2>3, <2>4 DEF HeadInv
<1> QED BY <1>1, <1>2, <1>3

LEMMA HeadInit == Init => HeadInv
<1> SUFFICES ASSUME Init PROVE HeadInv
  OBVIOUS
<1>1. ~shm.h0.init /\ shm.h0.salt = 0 /\ past.salt = 0
  BY DEF Init, EmptyShm, NoHdr, Hdr
<1>2. Blank(Connected)
  BY DEF Blank, Connected
<1>3. \A c \in Conn : HeadOK(con[c], shm, past.salt)
  BY <1>1, <1>2, HeadBlank DEF Init
<1> QED BY <1>1, <1>3 DEF HeadInv

=============================================================================
