----------------------------- MODULE PagerProofs -----------------------------
(* Proofs about Pager: the shape of its state (TypeOK) and the agreement of   *)
(* the states of a pager with its lock, its journal and its sizes             *)
(* (PagerState), for every number of connections and pages and for every      *)
(* fault, whatever the pages contain.                                         *)
EXTENDS Pager, QueueLemmas, TLAPS

-----------------------------------------------------------------------------
(* Sequences whose elements have no type in common.                           *)

IsList(s) == \E n \in Nat : DOMAIN s = 1..n /\ s = [k \in 1..n |-> s[k]]

LEMMA ListLen ==
  ASSUME NEW n \in Nat, NEW s, DOMAIN s = 1..n, s = [k \in 1..n |-> s[k]]
  PROVE  /\ s \in Seq({s[k] : k \in 1..n})
         /\ Len(s) = n
<1>1. s \in [1..n -> {s[k] : k \in 1..n}]
  OBVIOUS
<1>2. s \in Seq({s[k] : k \in 1..n})
  BY <1>1
<1> QED BY <1>2

LEMMA ListType ==
  ASSUME NEW s, IsList(s)
  PROVE  /\ Len(s) \in Nat
         /\ DOMAIN s = 1..Len(s)
         /\ s \in Seq({s[k] : k \in DOMAIN s})
<1>1. PICK n \in Nat : DOMAIN s = 1..n /\ s = [k \in 1..n |-> s[k]]
  BY DEF IsList
<1> QED BY <1>1, ListLen

LEMMA ListAppend ==
  ASSUME NEW s, IsList(s), NEW x
  PROVE  /\ IsList(Append(s, x))
         /\ Len(Append(s, x)) = Len(s) + 1
         /\ \A k \in 1..Len(s) : Append(s, x)[k] = s[k]
         /\ Append(s, x)[Len(s) + 1] = x
<1> DEFINE T == {s[k] : k \in DOMAIN s}
           S == T \cup {x}
<1>0. s \in Seq(T)
  BY ListType
<1> HIDE DEF T
<1>1. s \in Seq(S) /\ x \in S
  BY <1>0
<1>2. Append(s, x) \in Seq(S) /\ Len(Append(s, x)) = Len(s) + 1
  BY <1>1
<1>3. /\ \A k \in 1..Len(s) : Append(s, x)[k] = s[k]
      /\ Append(s, x)[Len(s) + 1] = x
  BY <1>1
<1>4. /\ DOMAIN Append(s, x) = 1..(Len(s) + 1)
      /\ Append(s, x) = [k \in 1..(Len(s) + 1) |-> Append(s, x)[k]]
  <2>1. \A t \in Seq(S) : t \in [1..Len(t) -> S]
    OBVIOUS
  <2>2. Append(s, x) \in [1..(Len(s) + 1) -> S]
    BY <1>2, <2>1
  <2> QED BY <2>2
<1>5. Len(s) + 1 \in Nat
  BY ListType
<1> QED BY <1>2, <1>3, <1>4, <1>5 DEF IsList

LEMMA ListPrefix ==
  ASSUME NEW s, IsList(s), NEW i \in Int, i <= Len(s)
  PROVE  /\ IsList(SubSeq(s, 1, i))
         /\ Len(SubSeq(s, 1, i)) = IF i < 0 THEN 0 ELSE i
         /\ \A k \in 1..i : SubSeq(s, 1, i)[k] = s[k]
<1> DEFINE S == {s[k] : k \in DOMAIN s}
           n == IF i < 0 THEN 0 ELSE i
           t == SubSeq(s, 1, i)
<1>1. s \in Seq(S) /\ Len(s) \in Nat /\ DOMAIN s = 1..Len(s)
  BY ListType
<1>2. t = [k \in 1..i |-> s[k]]
  BY <1>1 DEF SubSeq
<1>3. n \in Nat /\ 1..i = 1..n
  OBVIOUS
<1>4. DOMAIN t = 1..n /\ t = [k \in 1..n |-> t[k]]
  BY <1>2, <1>3
<1>5. IsList(t)
  BY <1>3, <1>4 DEF IsList
<1>6. Len(t) = n
  BY <1>3, <1>4, ListLen
<1> QED BY <1>2, <1>5, <1>6

LEMMA ListPut ==
  ASSUME NEW s, IsList(s), NEW i \in Nat \ {0}, NEW x
  PROVE  /\ IsList(Put(s, i, x))
         /\ Len(Put(s, i, x)) \in {Len(s), i}
         /\ Len(Put(s, i, x)) >= Len(s)
         /\ Len(Put(s, i, x)) >= i
         /\ \A k \in DOMAIN Put(s, i, x) :
              \/ k = i /\ Put(s, i, x)[k] = x
              \/ k # i /\ k \in DOMAIN s /\ Put(s, i, x)[k] = s[k]
              \/ k # i /\ Put(s, i, x)[k] = Junk
<1> DEFINE n == Max({Len(s), i})
           t == Put(s, i, x)
<1>1. Len(s) \in Nat /\ DOMAIN s = 1..Len(s)
  BY ListType
<1>2. n \in {Len(s), i} /\ n >= Len(s) /\ n >= i
  <2>1. Len(s) \in Int /\ i \in Int
    BY <1>1
  <2> QED BY <2>1, MaxTwo
<1>3. n \in Nat
  BY <1>1, <1>2
<1> HIDE DEF n
<1>4. t = [k \in 1..n |-> IF k = i THEN x ELSE IF k <= Len(s) THEN s[k] ELSE Junk]
  BY DEF Put, n
<1>5. DOMAIN t = 1..n /\ t = [k \in 1..n |-> t[k]]
  BY <1>4
<1>6. IsList(t)
  BY <1>3, <1>5 DEF IsList
<1>7. Len(t) = n
  BY <1>3, <1>5, ListLen
<1> QED BY <1>1, <1>2, <1>3, <1>4, <1>5, <1>6, <1>7

LEMMA ListResize ==
  ASSUME NEW s, IsList(s), NEW n \in Nat
  PROVE  IsList(Resize(s, n)) /\ Len(Resize(s, n)) = n
<1> DEFINE t == Resize(s, n)
<1>1. DOMAIN t = 1..n /\ t = [k \in 1..n |-> t[k]]
  BY DEF Resize
<1> QED BY <1>1, ListLen DEF IsList

-----------------------------------------------------------------------------
(* The shape of a pager and of a journal.                                     *)

PagerFields == {"st", "pc", "size", "orig", "fsize", "cache", "vers", "inj", "nRec",
                "off", "hdr", "sp", "sub", "ccd", "left", "tgt"}

SavepointFields == {"nOrig", "iOffset", "iSubRec", "in", "image"}

SlotOK(x) == /\ IsHdr(x) => x.orig \in 0..MaxPage
             /\ IsRec(x) => x.pg \in 1..MaxPage

Journal(j) == IsList(j) /\ \A k \in DOMAIN j : SlotOK(j[k])

SubOK(sub) == IsList(sub) /\ \A k \in DOMAIN sub : sub[k].pg \in 1..MaxPage

Nested(sp) == \A i, k \in DOMAIN sp : i < k => /\ sp[i].iSubRec <= sp[k].iSubRec
                                              /\ sp[i].iOffset <= sp[k].iOffset

SavepointsOK(sp) ==
  /\ IsList(sp)
  /\ \A k \in DOMAIN sp : /\ DOMAIN sp[k] = SavepointFields
                          /\ sp[k].nOrig \in 0..MaxPage
                          /\ sp[k].iOffset \in Nat \ {0}
                          /\ sp[k].iSubRec \in Nat
  /\ Nested(sp)

Shape(p) ==
  /\ DOMAIN p = PagerFields
  /\ p.st \in States
  /\ p.size \in 0..MaxPage
  /\ p.orig \in 0..MaxPage
  /\ DOMAIN p.cache \subseteq 1..MaxPage
  /\ p.off \in Nat
  /\ p.hdr \in Nat
  /\ SubOK(p.sub)
  /\ SavepointsOK(p.sp)

\* The savepoints were opened before the present end of the two journals.
SavepointsBehind(p) ==
  \A k \in DOMAIN p.sp : /\ p.sp[k].iSubRec <= Len(p.sub)
                         /\ p.sp[k].iOffset <= p.off \/ p.sp[k].iOffset = 1

InjOK(p) == p.inj \subseteq 1..p.orig

\* What the operators that write to the journal and to the cache preserve: s is
\* a pager that has opened its journal, and the content of that journal.
Within(i, s) == i <= MaxSlot \/ i <= Len(s.j)

Working(s) ==
  /\ DOMAIN s = {"p", "j"}
  /\ Shape(s.p)
  /\ SavepointsBehind(s.p)
  /\ InjOK(s.p)
  /\ s.p.st \in {"CACHEMOD", "DBMOD"}
  /\ Journal(s.j)
  /\ Within(s.p.off, s)
  /\ Within(s.p.hdr, s)

\* The control state is not theirs to change.
SameControl(p, q) == /\ q.pc = p.pc
                     /\ q.orig = p.orig
                     /\ q.fsize = p.fsize
                     /\ q.ccd = p.ccd

SlotTypes == /\ \A m, n : \A o \in 0..MaxPage : SlotOK(Hdr(m, n, o))
             /\ \A d : \A n \in 1..MaxPage : SlotOK(Rec(n, d))
             /\ SlotOK(Junk)

LEMMA SlotsTyped == SlotTypes
<1>1. \A m, n : \A o \in 0..MaxPage : SlotOK(Hdr(m, n, o))
  BY DEF SlotOK, IsHdr, IsRec, Hdr
<1>2. \A d : \A n \in 1..MaxPage : SlotOK(Rec(n, d))
  BY DEF SlotOK, IsHdr, IsRec, Rec
<1>3. SlotOK(Junk)
  BY DEF SlotOK, IsHdr, IsRec
<1> QED BY <1>1, <1>2, <1>3 DEF SlotTypes

LEMMA JournalPut ==
  ASSUME NEW j, Journal(j), NEW i \in Nat \ {0}, NEW x, SlotOK(x)
  PROVE  /\ Journal(Put(j, i, x))
         /\ Len(Put(j, i, x)) >= i
         /\ Len(Put(j, i, x)) >= Len(j)
<1>1. IsList(j)
  BY DEF Journal
<1> DEFINE t == Put(j, i, x)
<1>2. /\ IsList(t)
      /\ Len(t) >= i
      /\ Len(t) >= Len(j)
  BY <1>1, ListPut
<1>3. \A k \in DOMAIN t : \/ k = i /\ t[k] = x
                          \/ k # i /\ k \in DOMAIN j /\ t[k] = j[k]
                          \/ k # i /\ t[k] = Junk
  BY <1>1, ListPut
<1> HIDE DEF t
<1>4. \A k \in DOMAIN t : SlotOK(t[k])
  BY <1>3, SlotsTyped DEF Journal, SlotTypes
<1> QED BY <1>2, <1>4 DEF Journal, t

\* addToSavepointBitvecs changes nothing but the bit vectors.
LEMMA AddBits ==
  ASSUME NEW p, Shape(p), NEW n,
         NEW q, q = AddToSavepointBitvecs(p, n)
  PROVE  /\ Shape(q)
         /\ SavepointsBehind(p) => SavepointsBehind(q)
         /\ \A x \in PagerFields \ {"sp"} : q[x] = p[x]
<1>1. DOMAIN p = PagerFields /\ IsList(p.sp)
  BY DEF Shape, SavepointsOK
<1> DEFINE Mark(sp) == IF n <= sp.nOrig THEN [sp EXCEPT !.in = @ \union {n}] ELSE sp
           sp == [i \in DOMAIN p.sp |-> Mark(p.sp[i])]
<1>2. q = [p EXCEPT !.sp = sp]
  BY DEF AddToSavepointBitvecs
<1>3. DOMAIN q = PagerFields /\ q.sp = sp /\ \A x \in PagerFields \ {"sp"} : q[x] = p[x]
  BY <1>1, <1>2 DEF PagerFields
<1>4. DOMAIN sp = DOMAIN p.sp /\ IsList(sp)
  BY <1>1 DEF IsList
<1>5. ASSUME NEW k \in DOMAIN p.sp
      PROVE  /\ DOMAIN sp[k] = SavepointFields
             /\ sp[k].nOrig = p.sp[k].nOrig
             /\ sp[k].iOffset = p.sp[k].iOffset
             /\ sp[k].iSubRec = p.sp[k].iSubRec
  <2>1. DOMAIN p.sp[k] = SavepointFields
    BY DEF Shape, SavepointsOK
  <2> QED BY <2>1 DEF SavepointFields
<1> HIDE DEF sp
<1>6. SavepointsOK(q.sp)
  BY <1>3, <1>4, <1>5 DEF Shape, SavepointsOK, Nested
<1>7. Shape(q)
  BY <1>3, <1>6 DEF Shape, PagerFields
<1>8. SavepointsBehind(p) => SavepointsBehind(q)
  BY <1>3, <1>4, <1>5 DEF SavepointsBehind, PagerFields
<1> QED BY <1>3, <1>7, <1>8

-----------------------------------------------------------------------------
(* What pager_write and the operators it is made of preserve.                 *)

LEMMA WriteHdr ==
  ASSUME NEW s, DOMAIN s = {"p", "j"}, Shape(s.p), Journal(s.j),
         NEW t, t = WriteJournalHdr(s)
  PROVE  /\ DOMAIN t = {"p", "j"}
         /\ DOMAIN t.p = PagerFields
         /\ t.p.hdr = s.p.off
         /\ t.p.off = s.p.off + 1
         /\ \A x \in PagerFields \ {"hdr", "off"} : t.p[x] = s.p[x]
         /\ Journal(t.j)
         /\ Len(t.j) >= s.p.off + 1
<1>1. DOMAIN s.p = PagerFields /\ s.p.off \in Nat /\ s.p.orig \in 0..MaxPage
  BY DEF Shape
<1>2. /\ DOMAIN t = {"p", "j"}
      /\ DOMAIN t.p = PagerFields
      /\ t.p.hdr = s.p.off
      /\ t.p.off = s.p.off + 1
      /\ \A x \in PagerFields \ {"hdr", "off"} : t.p[x] = s.p[x]
      /\ t.j = Put(s.j, s.p.off + 1, Hdr(FALSE, 0, s.p.orig))
  BY <1>1 DEF WriteJournalHdr, PagerFields
<1>3. SlotOK(Hdr(FALSE, 0, s.p.orig))
  BY <1>1, SlotsTyped DEF SlotTypes
<1>4. s.p.off + 1 \in Nat \ {0}
  BY <1>1
<1>5. Journal(t.j) /\ Len(t.j) >= s.p.off + 1
  <2> DEFINE h == Hdr(FALSE, 0, s.p.orig)
             i == s.p.off + 1
  <2>1. SlotOK(h) /\ i \in Nat \ {0} /\ t.j = Put(s.j, i, h)
    BY <1>2, <1>3, <1>4
  <2> HIDE DEF h, i
  <2>2. Journal(t.j) /\ Len(t.j) >= i
    BY <2>1, JournalPut
  <2> QED BY <2>2 DEF i
<1> QED BY <1>2, <1>5

\* A pager that is about to open its journal.
Opening(s) ==
  /\ DOMAIN s = {"p", "j"}
  /\ Shape(s.p)
  /\ SavepointsBehind(s.p)
  /\ s.p.st = "LOCKED" /\ s.p.off = 0
  /\ s.j = NoFile \/ IsList(s.j)

LEMMA OpenJournal ==
  ASSUME NEW s, Opening(s),
         NEW t, t = PagerOpenJournal(s)
  PROVE  /\ Working(t)
         /\ t.p.st = "CACHEMOD"
         /\ SameControl(s.p, t.p)
<1> DEFINE blank == IF s.j = NoFile THEN <<>> ELSE [i \in DOMAIN s.j |-> Junk]
           u == [s EXCEPT !.j = IF @ = NoFile THEN <<>> ELSE [i \in DOMAIN @ |-> Junk],
                          !.p.st = "CACHEMOD", !.p.inj = {}, !.p.nRec = 0,
                          !.p.off = 0, !.p.hdr = 0]
<1>1. DOMAIN s = {"p", "j"} /\ DOMAIN s.p = PagerFields /\ s.p.st = "LOCKED"
  BY DEF Shape, Opening
<1>2. t = WriteJournalHdr(u)
  BY <1>1 DEF PagerOpenJournal
<1>3. /\ DOMAIN u = {"p", "j"}
      /\ DOMAIN u.p = PagerFields
      /\ u.j = blank
      /\ u.p.st = "CACHEMOD" /\ u.p.inj = {} /\ u.p.off = 0 /\ u.p.hdr = 0
      /\ \A x \in PagerFields \ {"st", "inj", "nRec", "off", "hdr"} : u.p[x] = s.p[x]
  BY <1>1 DEF PagerFields
<1>4. Journal(blank)
  <2>1. CASE s.j = NoFile
    <3>1. IsList(<<>>) /\ DOMAIN <<>> = {}
      BY DEF IsList
    <3> QED BY <2>1, <3>1 DEF Journal
  <2>2. CASE s.j # NoFile
    <3>1. IsList(s.j)
      BY <2>2 DEF Opening
    <3>2. IsList(blank) /\ \A k \in DOMAIN blank : blank[k] = Junk
      BY <2>2, <3>1 DEF IsList
    <3> HIDE DEF blank
    <3> QED BY <3>2, SlotsTyped DEF Journal, SlotTypes
  <2> QED BY <2>1, <2>2
<1> HIDE DEF u, blank
<1>5. Shape(u.p)
  BY <1>3 DEF Shape, Opening, PagerFields, States
<1>6. /\ DOMAIN t = {"p", "j"}
      /\ DOMAIN t.p = PagerFields
      /\ t.p.hdr = 0
      /\ t.p.off = 1
      /\ \A x \in PagerFields \ {"hdr", "off"} : t.p[x] = u.p[x]
      /\ Journal(t.j)
      /\ Len(t.j) >= 1
  BY <1>2, <1>3, <1>4, <1>5, WriteHdr
<1>7. Shape(t.p)
  BY <1>5, <1>6 DEF Shape, PagerFields
<1>8. SavepointsBehind(t.p)
  <2>1. t.p.sp = s.p.sp /\ t.p.sub = s.p.sub
    BY <1>3, <1>6 DEF PagerFields
  <2>2. SavepointsBehind(s.p) /\ s.p.off = 0
    BY DEF Opening
  <2>3. \A k \in DOMAIN s.p.sp : s.p.sp[k].iOffset \in Nat
    BY DEF Opening, Shape, SavepointsOK
  <2> QED BY <1>6, <2>1, <2>2, <2>3 DEF SavepointsBehind
<1>9. t.p.st = "CACHEMOD" /\ t.p.inj = {}
  BY <1>3, <1>6 DEF PagerFields
<1>10. SameControl(s.p, t.p)
  BY <1>3, <1>6 DEF SameControl, PagerFields
<1>11. Within(t.p.off, t) /\ Within(t.p.hdr, t)
  BY <1>6, PagerAssumption DEF Within
<1>12. InjOK(t.p)
  BY <1>9 DEF InjOK
<1> QED BY <1>6, <1>7, <1>8, <1>9, <1>10, <1>11, <1>12 DEF Working

LEMMA MarkDirty ==
  ASSUME NEW s, Working(s), NEW n,
         NEW t, t = [s EXCEPT !.p.cache[n].dirty = TRUE]
  PROVE  Working(t) /\ t.p.st = s.p.st /\ SameControl(s.p, t.p)
<1>1. DOMAIN s = {"p", "j"} /\ DOMAIN s.p = PagerFields
  BY DEF Shape, Working
<1>2. /\ DOMAIN t = {"p", "j"}
      /\ DOMAIN t.p = PagerFields
      /\ t.j = s.j
      /\ DOMAIN t.p.cache = DOMAIN s.p.cache
      /\ \A x \in PagerFields \ {"cache"} : t.p[x] = s.p[x]
  BY <1>1 DEF PagerFields
<1>3. Shape(t.p)
  BY <1>2 DEF Shape, Working, PagerFields
<1>4. SavepointsBehind(t.p) /\ InjOK(t.p)
  BY <1>2 DEF SavepointsBehind, InjOK, Working, PagerFields
<1>5. t.p.st = s.p.st /\ SameControl(s.p, t.p)
  BY <1>2 DEF SameControl, PagerFields
<1>6. Within(t.p.off, t) /\ Within(t.p.hdr, t)
  BY <1>2 DEF Within, Working, PagerFields
<1> QED BY <1>2, <1>3, <1>4, <1>5, <1>6 DEF Working

LEMMA JournalPageType ==
  ASSUME NEW s, Working(s), NEW n \in 1..MaxPage,
         NEW t, t = JournalPage(s, n)
  PROVE  Working(t) /\ t.p.st = s.p.st /\ SameControl(s.p, t.p)
<1> DEFINE p == s.p
           logged == [p EXCEPT !.off = @ + 1, !.nRec = @ + 1, !.inj = @ \union {n},
                               !.cache[n].ns = TRUE]
           q == AddToSavepointBitvecs(logged, n)
           r == Rec(n, p.cache[n].d)
<1>1. DOMAIN s = {"p", "j"} /\ DOMAIN p = PagerFields /\ p.off \in Nat /\ p.orig \in 0..MaxPage
  BY DEF Shape, Working
<1>2. CASE n \in p.inj
  BY <1>2 DEF JournalPage, SameControl
<1>3. CASE n \notin p.inj /\ n <= p.orig
  <2>1. t = [s EXCEPT !.j = Put(@, p.off + 1, r), !.p = q]
    BY <1>3 DEF JournalPage
  <2>2. /\ DOMAIN logged = PagerFields
        /\ logged.off = p.off + 1
        /\ logged.inj = p.inj \union {n}
        /\ DOMAIN logged.cache = DOMAIN p.cache
        /\ \A x \in PagerFields \ {"off", "nRec", "inj", "cache"} : logged[x] = p[x]
    BY <1>1 DEF PagerFields
  <2> HIDE DEF logged
  <2>3. Shape(logged)
    BY <2>2 DEF Shape, Working, PagerFields
  <2>4. SavepointsBehind(logged)
    <3>1. /\ logged.sp = p.sp /\ logged.sub = p.sub
          /\ SavepointsBehind(p)
          /\ \A k \in DOMAIN p.sp : p.sp[k].iOffset \in Nat
      BY <2>2 DEF Shape, SavepointsOK, Working, PagerFields
    <3> QED BY <1>1, <2>2, <3>1 DEF SavepointsBehind
  <2>5. /\ Shape(q)
        /\ SavepointsBehind(q)
        /\ \A x \in PagerFields \ {"sp"} : q[x] = logged[x]
    BY <2>3, <2>4, AddBits
  <2> HIDE DEF q, r
  <2>6. DOMAIN t = {"p", "j"} /\ t.p = q /\ t.j = Put(s.j, p.off + 1, r)
    BY <1>1, <2>1
  <2>7. Journal(t.j) /\ Len(t.j) >= p.off + 1 /\ Len(t.j) >= Len(s.j)
    <3> DEFINE i == p.off + 1
    <3>1. SlotOK(r)
      BY SlotsTyped DEF SlotTypes, r
    <3>2. i \in Nat \ {0} /\ t.j = Put(s.j, i, r) /\ Journal(s.j)
      BY <1>1, <2>6 DEF Working
    <3> HIDE DEF i
    <3>3. Journal(t.j) /\ Len(t.j) >= i /\ Len(t.j) >= Len(s.j)
      BY <3>1, <3>2, JournalPut
    <3> QED BY <3>3 DEF i
  <2>8. Within(t.p.off, t) /\ Within(t.p.hdr, t)
    <3>1. t.p.off = p.off + 1 /\ t.p.hdr = p.hdr
      BY <2>2, <2>5, <2>6 DEF PagerFields
    <3>2. p.hdr \in Nat /\ Len(t.j) \in Nat /\ Len(s.j) \in Nat
      BY <2>7, ListType DEF Shape, Working, Journal
    <3> QED BY <2>7, <3>1, <3>2, PagerAssumption DEF Within, Working
  <2>9. InjOK(t.p)
    <3>1. t.p.inj = p.inj \union {n} /\ t.p.orig = p.orig
      BY <2>2, <2>5, <2>6 DEF PagerFields
    <3> QED BY <1>1, <1>3, <3>1 DEF InjOK, Working
  <2>10. t.p.st = p.st /\ SameControl(p, t.p)
    BY <2>2, <2>5, <2>6 DEF PagerFields, SameControl
  <2>11. t.p.st \in {"CACHEMOD", "DBMOD"}
    BY <2>10 DEF Working
  <2> QED BY <2>5, <2>6, <2>7, <2>8, <2>9, <2>10, <2>11 DEF Working
<1>4. CASE n \notin p.inj /\ ~(n <= p.orig)
  <2>1. t = [s EXCEPT !.p.cache[n].ns = @ \/ p.st # "DBMOD"]
    BY <1>4 DEF JournalPage
  <2>2. /\ DOMAIN t = {"p", "j"}
        /\ DOMAIN t.p = PagerFields
        /\ t.j = s.j
        /\ DOMAIN t.p.cache = DOMAIN p.cache
        /\ \A x \in PagerFields \ {"cache"} : t.p[x] = p[x]
    BY <1>1, <2>1 DEF PagerFields
  <2>3. Shape(t.p)
    BY <2>2 DEF Shape, Working, PagerFields
  <2>4. SavepointsBehind(t.p) /\ InjOK(t.p)
    BY <2>2 DEF SavepointsBehind, InjOK, Working, PagerFields
  <2>5. t.p.st = s.p.st /\ SameControl(s.p, t.p)
    BY <2>2 DEF SameControl, PagerFields
  <2>6. Within(t.p.off, t) /\ Within(t.p.hdr, t)
    BY <2>2 DEF Within, Working, PagerFields
  <2> QED BY <2>2, <2>3, <2>4, <2>5, <2>6 DEF Working
<1> QED BY <1>2, <1>3, <1>4

LEMMA SubjournalPageType ==
  ASSUME NEW s, Working(s), NEW n \in 1..MaxPage,
         NEW t, t = SubjournalPage(s, n)
  PROVE  Working(t) /\ t.p.st = s.p.st /\ SameControl(s.p, t.p)
<1> DEFINE p == s.p
           r == Rec(n, p.cache[n].d)
           logged == [p EXCEPT !.sub = Append(@, r)]
           q == AddToSavepointBitvecs(logged, n)
<1>1. DOMAIN s = {"p", "j"} /\ DOMAIN p = PagerFields /\ SubOK(p.sub)
  BY DEF Shape, Working
<1>2. CASE ~SubjRequiresPage(p, n)
  BY <1>2 DEF SubjournalPage, SameControl
<1>3. CASE SubjRequiresPage(p, n)
  <2>1. t = [s EXCEPT !.p = q]
    BY <1>3 DEF SubjournalPage
  <2>2. /\ DOMAIN logged = PagerFields
        /\ logged.sub = Append(p.sub, r)
        /\ \A x \in PagerFields \ {"sub"} : logged[x] = p[x]
    BY <1>1 DEF PagerFields
  <2>3. r.pg = n
    BY DEF Rec
  <2> HIDE DEF logged, r
  <2>4. /\ IsList(p.sub)
        /\ \A k \in DOMAIN p.sub : p.sub[k].pg \in 1..MaxPage
        /\ Len(p.sub) \in Nat
        /\ DOMAIN p.sub = 1..Len(p.sub)
    BY <1>1, ListType DEF SubOK
  <2>5. /\ IsList(logged.sub)
        /\ Len(logged.sub) = Len(p.sub) + 1
        /\ \A k \in 1..Len(p.sub) : logged.sub[k] = p.sub[k]
        /\ logged.sub[Len(p.sub) + 1] = r
    BY <2>2, <2>4, ListAppend
  <2>6. DOMAIN logged.sub = 1..(Len(p.sub) + 1)
    BY <2>5, ListType
  <2>7. SubOK(logged.sub)
    <3>1. ASSUME NEW k \in DOMAIN logged.sub PROVE logged.sub[k].pg \in 1..MaxPage
      <4>1. CASE k = Len(p.sub) + 1
        BY <2>3, <2>5, <4>1
      <4>2. CASE k # Len(p.sub) + 1
        <5>1. k \in 1..Len(p.sub)
          BY <2>4, <2>6, <4>2
        <5>2. logged.sub[k] = p.sub[k] /\ p.sub[k].pg \in 1..MaxPage
          BY <2>4, <2>5, <5>1
        <5> QED BY <5>2
      <4> QED BY <4>1, <4>2
    <3> QED BY <2>5, <3>1 DEF SubOK
  <2>8. Shape(logged)
    BY <2>2, <2>7 DEF Shape, Working, PagerFields
  <2>9. SavepointsBehind(logged)
    <3>1. /\ logged.sp = p.sp /\ logged.off = p.off
          /\ SavepointsBehind(p)
          /\ \A k \in DOMAIN p.sp : p.sp[k].iSubRec \in Nat
      BY <2>2 DEF Shape, SavepointsOK, Working, PagerFields
    <3> QED BY <2>4, <2>5, <3>1 DEF SavepointsBehind
  <2>10. /\ Shape(q)
         /\ SavepointsBehind(q)
         /\ \A x \in PagerFields \ {"sp"} : q[x] = logged[x]
    BY <2>8, <2>9, AddBits
  <2> HIDE DEF q
  <2>11. DOMAIN t = {"p", "j"} /\ t.p = q /\ t.j = s.j
    BY <1>1, <2>1
  <2>12. \A x \in PagerFields \ {"sp", "sub"} : t.p[x] = p[x]
    BY <2>2, <2>10, <2>11 DEF PagerFields
  <2>13. InjOK(t.p)
    BY <2>12 DEF InjOK, Working, PagerFields
  <2>14. t.p.st = s.p.st /\ SameControl(s.p, t.p)
    BY <2>12 DEF SameControl, PagerFields
  <2>15. Within(t.p.off, t) /\ Within(t.p.hdr, t)
    BY <2>11, <2>12 DEF Within, Working, PagerFields
  <2> QED BY <2>10, <2>11, <2>13, <2>14, <2>15 DEF Working
<1> QED BY <1>2, <1>3

LEMMA SetSize ==
  ASSUME NEW s, Working(s), NEW n \in 1..MaxPage,
         NEW t, t = [s EXCEPT !.p.size = Max({@, n})]
  PROVE  Working(t) /\ t.p.st = s.p.st /\ SameControl(s.p, t.p)
<1>1. DOMAIN s = {"p", "j"} /\ DOMAIN s.p = PagerFields /\ s.p.size \in 0..MaxPage
  BY DEF Shape, Working
<1>2. Max({s.p.size, n}) \in 0..MaxPage
  <2>1. s.p.size \in Int /\ n \in Int
    BY <1>1
  <2>2. Max({s.p.size, n}) \in {s.p.size, n}
    BY <2>1, MaxTwo
  <2> QED BY <1>1, <2>2, PagerAssumption
<1>3. /\ DOMAIN t = {"p", "j"}
      /\ DOMAIN t.p = PagerFields
      /\ t.j = s.j
      /\ t.p.size \in 0..MaxPage
      /\ \A x \in PagerFields \ {"size"} : t.p[x] = s.p[x]
  BY <1>1, <1>2 DEF PagerFields
<1>4. Shape(t.p)
  BY <1>3 DEF Shape, Working, PagerFields
<1>5. SavepointsBehind(t.p) /\ InjOK(t.p)
  BY <1>3 DEF SavepointsBehind, InjOK, Working, PagerFields
<1>6. t.p.st = s.p.st /\ SameControl(s.p, t.p)
  BY <1>3 DEF SameControl, PagerFields
<1>7. Within(t.p.off, t) /\ Within(t.p.hdr, t)
  BY <1>3 DEF Within, Working, PagerFields
<1> QED BY <1>3, <1>4, <1>5, <1>6, <1>7 DEF Working

\* pager_write: whatever state the pager was in, its journal is open afterwards.
LEMMA PagerWriteType ==
  ASSUME NEW s, Opening(s) \/ Working(s), NEW n \in 1..MaxPage,
         NEW t, t = PagerWrite(s, n)
  PROVE  /\ Working(t)
         /\ t.p.st = IF s.p.st = "LOCKED" THEN "CACHEMOD" ELSE s.p.st
         /\ SameControl(s.p, t.p)
<1> DEFINE a == PagerOpenJournal(s)
           b == [a EXCEPT !.p.cache[n].dirty = TRUE]
           d == JournalPage(b, n)
           e == SubjournalPage(d, n)
           f == [e EXCEPT !.p.size = Max({@, n})]
<1>1. t = f
  BY DEF PagerWrite
<1>2. /\ Working(a)
      /\ a.p.st = IF s.p.st = "LOCKED" THEN "CACHEMOD" ELSE s.p.st
      /\ SameControl(s.p, a.p)
  <2>1. CASE Opening(s)
    <3>1. s.p.st = "LOCKED"
      BY <2>1 DEF Opening
    <3> HIDE DEF a
    <3>2. a = PagerOpenJournal(s)
      BY DEF a
    <3> QED BY <2>1, <3>1, <3>2, OpenJournal
  <2>2. CASE Working(s)
    <3>1. s.p.st # "LOCKED"
      BY <2>2 DEF Working
    <3>2. a = s
      BY <3>1 DEF PagerOpenJournal
    <3> QED BY <2>2, <3>1, <3>2 DEF SameControl
  <2> QED BY <2>1, <2>2
<1> HIDE DEF a
<1>3. Working(b) /\ b.p.st = a.p.st /\ SameControl(a.p, b.p)
  BY <1>2, MarkDirty
<1> HIDE DEF b
<1>4. Working(d) /\ d.p.st = b.p.st /\ SameControl(b.p, d.p)
  BY <1>3, JournalPageType
<1> HIDE DEF d
<1>5. Working(e) /\ e.p.st = d.p.st /\ SameControl(d.p, e.p)
  BY <1>4, SubjournalPageType
<1> HIDE DEF e
<1>6. Working(f) /\ f.p.st = e.p.st /\ SameControl(e.p, f.p)
  BY <1>5, SetSize
<1> HIDE DEF f
<1> QED BY <1>1, <1>2, <1>3, <1>4, <1>5, <1>6 DEF SameControl

LEMMA SetDataType ==
  ASSUME NEW s, Working(s), NEW n, NEW x,
         NEW t, t = [s EXCEPT !.p = SetData(@, n, x)]
  PROVE  Working(t) /\ t.p.st = s.p.st /\ SameControl(s.p, t.p)
<1>1. DOMAIN s = {"p", "j"} /\ DOMAIN s.p = PagerFields
  BY DEF Shape, Working
<1> DEFINE q == SetData(s.p, n, x)
<1>2. /\ DOMAIN q = PagerFields
      /\ DOMAIN q.cache = DOMAIN s.p.cache
      /\ \A y \in PagerFields \ {"cache"} : q[y] = s.p[y]
  BY <1>1 DEF SetData, PagerFields
<1> HIDE DEF q
<1>3. DOMAIN t = {"p", "j"} /\ t.p = q /\ t.j = s.j
  BY <1>1 DEF q
<1>4. Shape(t.p)
  BY <1>2, <1>3 DEF Shape, Working, PagerFields
<1>5. SavepointsBehind(t.p) /\ InjOK(t.p)
  BY <1>2, <1>3 DEF SavepointsBehind, InjOK, Working, PagerFields
<1>6. t.p.st = s.p.st /\ SameControl(s.p, t.p)
  BY <1>2, <1>3 DEF SameControl, PagerFields
<1>7. Within(t.p.off, t) /\ Within(t.p.hdr, t)
  BY <1>2, <1>3 DEF Within, Working, PagerFields
<1> QED BY <1>3, <1>4, <1>5, <1>6, <1>7 DEF Working

LEMMA AcquireType ==
  ASSUME NEW s, Working(s), NEW n \in 1..MaxPage,
         NEW t, t = [s EXCEPT !.p = AcquireNoContent(@, n)]
  PROVE  Working(t) /\ t.p.st = s.p.st /\ SameControl(s.p, t.p)
<1>1. DOMAIN s = {"p", "j"} /\ DOMAIN s.p = PagerFields
  BY DEF Shape, Working
<1> DEFINE p == s.p
           x == Entry(Zero, Cached(p, n) /\ p.cache[n].dirty, Cached(p, n) /\ p.cache[n].ns)
           cache == WithPage(p.cache, n, x)
           inj == IF n <= p.orig THEN p.inj \union {n} ELSE p.inj
           u == [p EXCEPT !.cache = cache, !.inj = inj]
           q == AddToSavepointBitvecs(u, n)
<1>2. AcquireNoContent(p, n) = q
  BY DEF AcquireNoContent
<1>3. DOMAIN cache = DOMAIN p.cache \union {n}
  BY DEF WithPage
<1> HIDE DEF x, cache, inj
<1>4. /\ DOMAIN u = PagerFields
      /\ u.cache = cache /\ u.inj = inj
      /\ \A y \in PagerFields \ {"cache", "inj"} : u[y] = p[y]
  BY <1>1 DEF PagerFields
<1> HIDE DEF u
<1>5. Shape(u)
  BY <1>3, <1>4 DEF Shape, Working, PagerFields
<1>6. SavepointsBehind(u)
  BY <1>4 DEF SavepointsBehind, Working, PagerFields
<1>7. InjOK(u)
  <2>1. InjOK(p) /\ p.orig \in 0..MaxPage /\ u.orig = p.orig
    BY <1>4 DEF Working, Shape, PagerFields
  <2> QED BY <1>4, <2>1 DEF InjOK, inj
<1>8. /\ Shape(q)
      /\ SavepointsBehind(q)
      /\ \A y \in PagerFields \ {"sp"} : q[y] = u[y]
  BY <1>5, <1>6, AddBits
<1> HIDE DEF q
<1>9. DOMAIN t = {"p", "j"} /\ t.p = q /\ t.j = s.j
  BY <1>1, <1>2
<1>10. \A y \in PagerFields \ {"cache", "inj", "sp"} : t.p[y] = p[y]
  BY <1>4, <1>8, <1>9 DEF PagerFields
<1>11. InjOK(t.p)
  BY <1>7, <1>8, <1>9 DEF InjOK, PagerFields
<1>12. t.p.st = s.p.st /\ SameControl(s.p, t.p)
  BY <1>10 DEF SameControl, PagerFields
<1>13. Within(t.p.off, t) /\ Within(t.p.hdr, t)
  BY <1>9, <1>10 DEF Within, Working, PagerFields
<1> QED BY <1>8, <1>9, <1>11, <1>12, <1>13 DEF Working

-----------------------------------------------------------------------------
(* The inductive invariant.  A connection is outside a transaction, checks    *)
(* for a hot journal, reads, writes, or undoes; each phase goes with a state  *)
(* of the pager and a lock.                                                   *)

Checks == {"exists", "reserved", "first", "exclusive", "validate"}
Undo   == {"play", "resync", "finish", "unlock"}
Syncs  == {"lock", "sync1", "count", "sync2"}

Phase(p) ==
  \/ p.st = "OPEN" /\ p.pc \in {"idle", "empty"} \cup Checks \cup Undo
  \/ p.st \in {"READER", "LOCKED", "ERROR"} /\ p.pc = "idle"
  \/ p.st = "CACHEMOD" /\ p.pc \in {"idle"} \cup Syncs \cup Undo
  \/ p.st = "DBMOD" /\ p.pc \in {"idle", "write", "dbsync"} \cup Syncs \cup Undo
  \/ p.st = "FINISHED" /\ p.pc \in {"commit", "trim"}

Locked(p, l) ==
  /\ l \in NO_LOCK..EXCLUSIVE
  /\ p.st = "READER" \/ p.pc \in Checks => l >= SHARED
  /\ p.st \in {"LOCKED", "CACHEMOD"} \/ p.pc = "empty" => l >= RESERVED
  /\ \/ p.st \in {"DBMOD", "FINISHED"}
     \/ p.st = "OPEN" /\ p.pc \in Undo
     \/ p.pc \in {"sync1", "count", "sync2"}
     => l = EXCLUSIVE
  /\ p.ccd => l >= RESERVED

Sizes(p) ==
  /\ p.st = "LOCKED" => p.size = p.orig /\ p.fsize = p.orig /\ p.off = 0
  /\ p.st = "CACHEMOD" /\ p.pc \notin Undo => p.fsize = p.orig
  /\ p.pc \in Syncs \cup {"write"} => p.tgt \in 0..MaxPage

Clean(p) ==
  /\ p.st \in {"OPEN", "READER"} => ~p.ccd
  /\ p.st \in {"OPEN", "READER"} \/ p.pc \in {"trim", "unlock"} => p.inj = {} /\ p.sp = <<>>

Content(p) ==
  /\ Shape(p)
  /\ p.off <= MaxSlot
  /\ p.hdr <= MaxSlot
  /\ IsWriter(p) => InjOK(p)
  /\ IsWriter(p) /\ p.pc \notin Undo => SavepointsBehind(p)

ConnOK(p, l) == Phase(p) /\ Locked(p, l) /\ Sizes(p) /\ Clean(p) /\ Content(p)

\* The phases in which the journal must not go away.
NeedsJournal(p) ==
  \/ p.pc \in Undo \ {"unlock"}
  \/ p.st \in {"CACHEMOD", "DBMOD"} /\ p.pc # "unlock"
  \/ p.pc = "commit"

\* Two connections never hold conflicting locks: at most one RESERVED or more,
\* and nobody else any lock beside EXCLUSIVE.
Exclusion ==
  \A c, d \in Conn : c # d => /\ lock[c] >= RESERVED => lock[d] < RESERVED
                              /\ lock[c] = EXCLUSIVE => lock[d] = NO_LOCK

JournalFile(j) == j = NoFile \/ (Journal(j) /\ Len(j) <= MaxSlot)
DatabaseFile(f) == IsList(f) /\ Len(f) <= MaxPage

JournalInv == /\ DOMAIN jrnl = {"cur", "dur", "new"}
              /\ JournalFile(jrnl.cur) /\ JournalFile(jrnl.dur)
FileInv    == /\ DOMAIN file = {"cur", "dur"}
              /\ DatabaseFile(file.cur) /\ DatabaseFile(file.dur)

Inv ==
  /\ lock \in [Conn -> NO_LOCK..EXCLUSIVE]
  /\ pgr = [c \in Conn |-> pgr[c]]
  /\ Exclusion
  /\ JournalInv
  /\ FileInv
  /\ \A c \in Conn : ConnOK(pgr[c], lock[c])
  /\ \A c \in Conn : NeedsJournal(pgr[c]) => jrnl.cur # NoFile

\* Nothing that is written to a file is mistaken for the absence of the file.
NoFileIsNoJournal == ~IsList(NoFile)

LEMMA InvGivesTypeOK == Inv => TypeOK
<1> SUFFICES ASSUME Inv PROVE TypeOK
  OBVIOUS
<1>1. lock \in [Conn -> NO_LOCK..EXCLUSIVE]
  BY DEF Inv
<1>2. ASSUME NEW c \in Conn, NEW p, p = pgr[c]
      PROVE  /\ p.st \in States
             /\ DOMAIN p.cache \subseteq 1..MaxPage
             /\ p.inj \subseteq 1..p.orig \/ ~IsWriter(p)
             /\ p.hdr \in 0..MaxSlot /\ p.off \in 0..MaxSlot
             /\ \A i, k \in DOMAIN p.sp : i < k => /\ p.sp[i].iSubRec <= p.sp[k].iSubRec
                                                   /\ p.sp[i].iOffset <= p.sp[k].iOffset
  <2>1. Content(p)
    BY <1>2 DEF Inv, ConnOK
  <2>2. p.hdr \in 0..MaxSlot /\ p.off \in 0..MaxSlot
    BY <2>1, PagerAssumption DEF Content, Shape
  <2> QED BY <2>1, <2>2 DEF Content, Shape, InjOK, SavepointsOK, Nested
<1> QED BY <1>1, <1>2 DEF TypeOK

LEMMA InvGivesPagerState == Inv => PagerState
<1> SUFFICES ASSUME Inv, NEW c \in Conn, At(c, "idle"), NEW p, p = pgr[c]
             PROVE  /\ p.ccd => lock[c] >= RESERVED
                    /\ p.st = "READER" => lock[c] >= SHARED
                    /\ p.st = "LOCKED" => /\ lock[c] >= RESERVED
                                          /\ p.size = p.orig /\ p.fsize = p.orig
                    /\ p.st = "CACHEMOD" => /\ lock[c] >= RESERVED
                                            /\ jrnl.cur # NoFile /\ p.fsize = p.orig
                    /\ p.st = "DBMOD" => lock[c] = EXCLUSIVE /\ jrnl.cur # NoFile
                    /\ p.st \notin {"FINISHED"}
  BY DEF PagerState
<1>1. ConnOK(p, lock[c]) /\ (NeedsJournal(p) => jrnl.cur # NoFile) /\ p.pc = "idle"
  BY DEF Inv, At
<1>2. Phase(p) /\ Locked(p, lock[c]) /\ Sizes(p)
  BY <1>1 DEF ConnOK
<1>3. p.st \in {"CACHEMOD", "DBMOD"} => jrnl.cur # NoFile
  BY <1>1 DEF NeedsJournal
<1> QED BY <1>1, <1>2, <1>3 DEF Phase, Locked, Sizes, Undo, Syncs

-----------------------------------------------------------------------------
(* A step of one connection.                                                  *)

LEMMA NeedsLock ==
  ASSUME NEW p, NEW l, ConnOK(p, l), NeedsJournal(p)
  PROVE  l >= RESERVED
BY DEF ConnOK, NeedsJournal, Phase, Locked, Undo, Checks, Syncs, NO_LOCK, RESERVED, EXCLUSIVE

\* Connection c becomes p and its lock l; the others allow it that lock, and a
\* journal is deleted under a lock that keeps every other writer out.
LEMMA Replace ==
  ASSUME Inv, NEW c \in Conn, NEW p, NEW l,
         pgr' = [pgr EXCEPT ![c] = p],
         lock' = [lock EXCEPT ![c] = l],
         ConnOK(p, l),
         \A d \in Conn \ {c} : /\ l >= RESERVED => lock[d] < RESERVED
                               /\ l = EXCLUSIVE => lock[d] = NO_LOCK
                               /\ l >= SHARED => lock[d] # EXCLUSIVE,
         JournalInv', FileInv',
         NeedsJournal(p) => jrnl'.cur # NoFile,
         jrnl'.cur = NoFile => jrnl.cur = NoFile \/ lock[c] >= RESERVED
  PROVE  Inv'
<1>1. l \in NO_LOCK..EXCLUSIVE
  BY DEF ConnOK, Locked
<1>2. lock \in [Conn -> NO_LOCK..EXCLUSIVE] /\ pgr = [d \in Conn |-> pgr[d]]
  BY DEF Inv
<1>3. lock' \in [Conn -> NO_LOCK..EXCLUSIVE] /\ pgr' = [d \in Conn |-> pgr'[d]]
  BY <1>1, <1>2
<1>4. /\ pgr'[c] = p /\ lock'[c] = l
      /\ \A d \in Conn \ {c} : pgr'[d] = pgr[d] /\ lock'[d] = lock[d]
  BY <1>2
<1>5. Exclusion'
  <2> SUFFICES ASSUME NEW a \in Conn, NEW b \in Conn, a # b
               PROVE  /\ lock'[a] >= RESERVED => lock'[b] < RESERVED
                      /\ lock'[a] = EXCLUSIVE => lock'[b] = NO_LOCK
    BY DEF Exclusion
  <2>1. Exclusion
    BY DEF Inv
  <2>2. CASE a = c
    <3>1. lock'[a] = l /\ b \in Conn \ {c} /\ lock'[b] = lock[b]
      BY <1>4, <2>2
    <3> QED BY <3>1
  <2>3. CASE b = c
    <3>1. lock'[b] = l /\ a \in Conn \ {c} /\ lock'[a] = lock[a] /\ lock[a] \in NO_LOCK..EXCLUSIVE
      BY <1>2, <1>4, <2>3
    <3> QED BY <1>1, <3>1 DEF NO_LOCK, SHARED, RESERVED, EXCLUSIVE
  <2>4. CASE a # c /\ b # c
    BY <1>4, <2>1, <2>4 DEF Exclusion
  <2> QED BY <2>2, <2>3, <2>4
<1>6. \A d \in Conn : ConnOK(pgr'[d], lock'[d])
  BY <1>4 DEF Inv
<1>7. ASSUME NEW d \in Conn, NeedsJournal(pgr'[d]) PROVE jrnl'.cur # NoFile
  <2>1. CASE d = c
    BY <1>4, <1>7, <2>1
  <2>2. CASE d # c
    <3>1. NeedsJournal(pgr[d]) /\ ConnOK(pgr[d], lock[d])
      BY <1>4, <1>7, <2>2 DEF Inv
    <3>2. jrnl.cur # NoFile
      BY <3>1 DEF Inv
    <3>3. lock[d] >= RESERVED
      BY <3>1, NeedsLock
    <3>4. ~(lock[c] >= RESERVED)
      BY <1>2, <2>2, <3>3 DEF Inv, Exclusion, NO_LOCK, RESERVED, EXCLUSIVE
    <3> QED BY <3>2, <3>4
  <2> QED BY <2>1, <2>2
<1> QED BY <1>3, <1>5, <1>6, <1>7 DEF Inv

LEMMA Stay ==
  ASSUME Inv, NEW c \in Conn, NEW p,
         pgr' = [pgr EXCEPT ![c] = p],
         lock' = lock,
         ConnOK(p, lock[c]),
         JournalInv', FileInv',
         NeedsJournal(p) => jrnl'.cur # NoFile,
         jrnl'.cur = NoFile => jrnl.cur = NoFile \/ lock[c] >= RESERVED
  PROVE  Inv'
<1> DEFINE l == lock[c]
<1>1. lock \in [Conn -> NO_LOCK..EXCLUSIVE] /\ Exclusion
  BY DEF Inv
<1>2. lock' = [lock EXCEPT ![c] = l]
  BY <1>1
<1>3. \A d \in Conn \ {c} : /\ l >= RESERVED => lock[d] < RESERVED
                            /\ l = EXCLUSIVE => lock[d] = NO_LOCK
                            /\ l >= SHARED => lock[d] # EXCLUSIVE
  <2> SUFFICES ASSUME NEW d \in Conn \ {c}
               PROVE  /\ l >= RESERVED => lock[d] < RESERVED
                      /\ l = EXCLUSIVE => lock[d] = NO_LOCK
                      /\ l >= SHARED => lock[d] # EXCLUSIVE
    OBVIOUS
  <2>1. /\ l >= RESERVED => lock[d] < RESERVED
        /\ l = EXCLUSIVE => lock[d] = NO_LOCK
        /\ lock[d] = EXCLUSIVE => l = NO_LOCK
    BY <1>1 DEF Exclusion
  <2> QED BY <1>1, <2>1 DEF NO_LOCK, SHARED
<1>4. ConnOK(p, l)
  OBVIOUS
<1> HIDE DEF l
<1>5. jrnl'.cur = NoFile => jrnl.cur = NoFile \/ lock[c] >= RESERVED
  OBVIOUS
<1> QED BY <1>2, <1>3, <1>4, <1>5, Replace

\* The files stay as they are.
LEMMA SameFiles ==
  ASSUME Inv, file' = file
  PROVE  FileInv'
BY DEF Inv, FileInv

LEMMA SameJournal ==
  ASSUME Inv, jrnl' = jrnl
  PROVE  JournalInv'
BY DEF Inv, JournalInv

DataFields == {"size", "orig", "cache", "inj", "off", "hdr", "sp", "sub"}

LEMMA KeepContent ==
  ASSUME NEW p, Content(p), NEW q,
         DOMAIN q = PagerFields,
         \A x \in DataFields : q[x] = p[x],
         q.st \in States,
         IsWriter(q) => IsWriter(p),
         IsWriter(q) /\ q.pc \notin Undo => p.pc \notin Undo
  PROVE  Content(q)
<1>1. Shape(q)
  BY DEF Content, Shape, DataFields
<1>2. q.off <= MaxSlot /\ q.hdr <= MaxSlot
  BY DEF Content, DataFields
<1>3. InjOK(p) => InjOK(q)
  BY DEF InjOK, DataFields
<1>4. SavepointsBehind(p) => SavepointsBehind(q)
  BY DEF SavepointsBehind, DataFields
<1> QED BY <1>1, <1>2, <1>3, <1>4 DEF Content

LEMMA GotoFields ==
  ASSUME NEW p, DOMAIN p = PagerFields, NEW x, NEW q, q = Goto(p, x)
  PROVE  /\ DOMAIN q = PagerFields
         /\ q.pc = x
         /\ \A y \in PagerFields \ {"pc"} : q[y] = p[y]
BY DEF Goto, PagerFields

\* A step from one phase to another of the same state of the pager.
LEMMA GotoContent ==
  ASSUME NEW p, Content(p), NEW x, NEW q, q = Goto(p, x),
         p.pc \in Undo => x \in Undo \/ ~IsWriter(p)
  PROVE  Content(q)
<1>1. DOMAIN p = PagerFields /\ p.st \in States
  BY DEF Content, Shape
<1>2. /\ DOMAIN q = PagerFields
      /\ q.pc = x
      /\ \A y \in PagerFields \ {"pc"} : q[y] = p[y]
  BY <1>1, GotoFields
<1>3. q.st = p.st /\ \A y \in DataFields : q[y] = p[y]
  BY <1>2 DEF PagerFields, DataFields
<1> QED BY <1>1, <1>2, <1>3, KeepContent DEF IsWriter

\* What a pager that only checks for a hot journal may become.
LEMMA GotoOpen ==
  ASSUME NEW p, NEW l, ConnOK(p, l), p.st = "OPEN",
         NEW x \in {"idle", "empty"} \cup Checks \cup Undo, NEW k \in NO_LOCK..EXCLUSIVE,
         x \in Checks => k >= SHARED,
         x = "empty" => k >= RESERVED,
         x \in Undo => k = EXCLUSIVE,
         NEW q, q = Goto(p, x)
  PROVE  ConnOK(q, k)
<1>1. DOMAIN p = PagerFields /\ Content(p)
  BY DEF ConnOK, Content, Shape
<1>2. /\ DOMAIN q = PagerFields
      /\ q.pc = x
      /\ \A y \in PagerFields \ {"pc"} : q[y] = p[y]
  BY <1>1, GotoFields
<1>3. q.st = "OPEN" /\ q.inj = p.inj /\ q.sp = p.sp /\ q.ccd = p.ccd
  BY <1>2 DEF PagerFields
<1>4. ~IsWriter(p)
  BY DEF IsWriter
<1>5. Content(q)
  BY <1>1, <1>4, GotoContent
<1>6. Phase(q) /\ Sizes(q)
  BY <1>2, <1>3 DEF Phase, Sizes, Syncs, Checks, Undo
<1>7. Clean(q) /\ ~q.ccd
  BY <1>3 DEF Clean, ConnOK
<1>8. Locked(q, k)
  BY <1>2, <1>3, <1>7 DEF Locked, Checks, Undo
<1> QED BY <1>5, <1>6, <1>7, <1>8 DEF ConnOK

\* In these states nothing of the journal is needed.
LEMMA NoNeed ==
  ASSUME NEW q, q.st \in {"OPEN", "READER", "LOCKED", "ERROR"}, q.pc \notin Undo \ {"unlock"}, q.pc # "commit"
  PROVE  ~NeedsJournal(q)
BY DEF NeedsJournal

LEMMA SharedLockStep == ASSUME Inv, NEW c \in Conn, SharedLock(c) PROVE Inv'
<1> DEFINE p == pgr[c]
           q == Goto(p, "exists")
<1>1. /\ p.st = "OPEN" /\ p.pc = "idle"
      /\ \A d \in Conn \ {c} : lock[d] < PENDING
      /\ lock' = [lock EXCEPT ![c] = SHARED]
      /\ pgr' = [pgr EXCEPT ![c] = q]
      /\ file' = file /\ jrnl' = jrnl
  BY DEF SharedLock, Idle, At, Lock, Step, Others
<1>2. ConnOK(p, lock[c]) /\ DOMAIN p = PagerFields
  BY DEF Inv, ConnOK, Content, Shape
<1>3. q.pc = "exists" /\ q.st = "OPEN"
  BY <1>1, <1>2, GotoFields DEF PagerFields
<1>4. ConnOK(q, SHARED)
  <2>1. SHARED \in NO_LOCK..EXCLUSIVE /\ SHARED >= SHARED /\ ~("exists" \in Undo) /\ "exists" # "empty"
        /\ "exists" \in {"idle", "empty"} \cup Checks \cup Undo
    BY DEF SHARED, NO_LOCK, EXCLUSIVE, Undo, Checks
  <2> QED BY <1>1, <1>2, <2>1, GotoOpen
<1>5. ~NeedsJournal(q)
  BY <1>3, NoNeed DEF Undo
<1> HIDE DEF p, q
<1>6. JournalInv' /\ FileInv'
  BY <1>1, SameFiles, SameJournal
<1>7. \A d \in Conn \ {c} : /\ SHARED >= RESERVED => lock[d] < RESERVED
                            /\ SHARED = EXCLUSIVE => lock[d] = NO_LOCK
                            /\ SHARED >= SHARED => lock[d] # EXCLUSIVE
  BY <1>1 DEF SHARED, RESERVED, EXCLUSIVE, PENDING, NO_LOCK
<1>8. jrnl'.cur = NoFile => jrnl.cur = NoFile \/ lock[c] >= RESERVED
  BY <1>1
<1> QED BY <1>1, <1>4, <1>5, <1>6, <1>7, <1>8, Replace

LEMMA CheckOn ==
  ASSUME Inv, NEW c \in Conn, pgr[c].pc \in Checks, NEW x \in Checks,
         pgr' = [pgr EXCEPT ![c] = Goto(pgr[c], x)],
         file' = file, jrnl' = jrnl,
         \/ lock' = lock
         \/ lock' = [lock EXCEPT ![c] = SHARED] /\ \A d \in Conn \ {c} : lock[d] < SHARED
  PROVE  Inv'
<1> DEFINE p == pgr[c]
           q == Goto(p, x)
<1>1. ConnOK(p, lock[c]) /\ DOMAIN p = PagerFields /\ lock[c] \in NO_LOCK..EXCLUSIVE
  BY DEF Inv, ConnOK, Content, Shape
<1>2. p.st = "OPEN" /\ lock[c] >= SHARED
  BY <1>1 DEF ConnOK, Phase, Locked, Checks, Undo, Syncs
<1>3. q.pc = x /\ q.st = "OPEN"
  BY <1>1, <1>2, GotoFields DEF PagerFields
<1>4. x \in {"idle", "empty"} \cup Checks \cup Undo /\ x \notin Undo /\ x # "empty" /\ x # "commit"
  BY DEF Checks, Undo
<1>5. ConnOK(q, lock[c])
  BY <1>1, <1>2, <1>4, GotoOpen
<1>6. ConnOK(q, SHARED)
  <2>1. SHARED \in NO_LOCK..EXCLUSIVE /\ SHARED >= SHARED
    BY DEF SHARED, NO_LOCK, EXCLUSIVE
  <2> QED BY <1>1, <1>2, <1>4, <2>1, GotoOpen
<1>7. ~NeedsJournal(q)
  BY <1>3, <1>4, NoNeed
<1> HIDE DEF p, q
<1>8. JournalInv' /\ FileInv'
  BY SameFiles, SameJournal
<1>9. jrnl'.cur = NoFile => jrnl.cur = NoFile \/ lock[c] >= RESERVED
  OBVIOUS
<1>10. pgr' = [pgr EXCEPT ![c] = q]
  BY DEF p, q
<1>11. CASE lock' = lock
  BY <1>5, <1>7, <1>8, <1>9, <1>10, <1>11, Stay
<1>12. CASE lock' = [lock EXCEPT ![c] = SHARED] /\ \A d \in Conn \ {c} : lock[d] < SHARED
  <2>1. \A d \in Conn \ {c} : /\ SHARED >= RESERVED => lock[d] < RESERVED
                              /\ SHARED = EXCLUSIVE => lock[d] = NO_LOCK
                              /\ SHARED >= SHARED => lock[d] # EXCLUSIVE
    BY <1>12 DEF SHARED, RESERVED, EXCLUSIVE, NO_LOCK
  <2> QED BY <1>6, <1>7, <1>8, <1>9, <1>10, <1>12, <2>1, Replace
<1> QED BY <1>11, <1>12

LEMMA HotExistsStep == ASSUME Inv, NEW c \in Conn, HotExists(c) PROVE Inv'
<1> DEFINE x == IF jrnl.cur = NoFile THEN "validate" ELSE "reserved"
<1>1. x \in Checks /\ "exists" \in Checks
  BY DEF Checks
<1>2. /\ pgr[c].pc = "exists"
      /\ pgr' = [pgr EXCEPT ![c] = Goto(pgr[c], x)]
      /\ file' = file /\ jrnl' = jrnl /\ lock' = lock
  BY DEF HotExists, At, Step
<1> HIDE DEF x
<1> QED BY <1>1, <1>2, CheckOn

LEMMA HotReservedStep == ASSUME Inv, NEW c \in Conn, HotReserved(c) PROVE Inv'
<1> DEFINE x == IF \E d \in Others(c) : lock[d] >= RESERVED THEN "validate" ELSE "first"
<1>1. x \in Checks /\ "reserved" \in Checks
  BY DEF Checks
<1>2. /\ pgr[c].pc = "reserved"
      /\ pgr' = [pgr EXCEPT ![c] = Goto(pgr[c], x)]
      /\ file' = file /\ jrnl' = jrnl /\ lock' = lock
  BY DEF HotReserved, At, Step
<1> HIDE DEF x
<1> QED BY <1>1, <1>2, CheckOn

LEMMA HotFirstByteStep == ASSUME Inv, NEW c \in Conn, HotFirstByte(c) PROVE Inv'
<1> DEFINE p == pgr[c]
           q == Goto(p, "empty")
           y == IF \/ jrnl.cur = NoFile
                   \/ (jrnl.cur # <<>>) /\ (IsHdr(jrnl.cur[1]) => jrnl.cur[1].magic)
                THEN "exclusive" ELSE "validate"
<1>1. p.pc = "first" /\ file' = file /\ jrnl' = jrnl /\ "first" \in Checks
  BY DEF HotFirstByte, At, Checks
<1>2. CASE Len(file.cur) = 0 /\ \A d \in Others(c) : lock[d] < RESERVED
  <2>1. lock' = [lock EXCEPT ![c] = RESERVED] /\ pgr' = [pgr EXCEPT ![c] = q]
    BY <1>2 DEF HotFirstByte, Lock, Step
  <2>2. ConnOK(p, lock[c]) /\ DOMAIN p = PagerFields
    BY DEF Inv, ConnOK, Content, Shape
  <2>3. p.st = "OPEN"
    BY <1>1, <2>2 DEF ConnOK, Phase, Checks, Undo, Syncs
  <2>4. q.pc = "empty" /\ q.st = "OPEN"
    BY <2>2, <2>3, GotoFields DEF PagerFields
  <2>5. ConnOK(q, RESERVED)
    <3>1. RESERVED \in NO_LOCK..EXCLUSIVE /\ RESERVED >= RESERVED /\ ~("empty" \in Undo) /\ ~("empty" \in Checks)
          /\ "empty" \in {"idle", "empty"} \cup Checks \cup Undo
      BY DEF RESERVED, NO_LOCK, EXCLUSIVE, Undo, Checks
    <3> QED BY <2>2, <2>3, <3>1, GotoOpen
  <2>6. ~NeedsJournal(q)
    BY <2>4, NoNeed DEF Undo
  <2> HIDE DEF p, q
  <2>7. JournalInv' /\ FileInv'
    BY <1>1, SameFiles, SameJournal
  <2>8. \A d \in Conn \ {c} : /\ RESERVED >= RESERVED => lock[d] < RESERVED
                              /\ RESERVED = EXCLUSIVE => lock[d] = NO_LOCK
                              /\ RESERVED >= SHARED => lock[d] # EXCLUSIVE
    BY <1>2 DEF SHARED, RESERVED, EXCLUSIVE, NO_LOCK, Others
  <2>9. jrnl'.cur = NoFile => jrnl.cur = NoFile \/ lock[c] >= RESERVED
    BY <1>1
  <2> QED BY <2>1, <2>5, <2>6, <2>7, <2>8, <2>9, Replace
<1>3. CASE Len(file.cur) = 0 /\ ~\A d \in Others(c) : lock[d] < RESERVED
  <2>1. lock' = lock /\ pgr' = [pgr EXCEPT ![c] = Goto(p, "validate")] /\ "validate" \in Checks
    BY <1>3 DEF HotFirstByte, Step, Checks
  <2> QED BY <1>1, <2>1, CheckOn
<1>4. CASE Len(file.cur) # 0
  <2>1. lock' = lock /\ pgr' = [pgr EXCEPT ![c] = Goto(p, y)]
    BY <1>4 DEF HotFirstByte, Step
  <2>2. y \in Checks
    BY DEF Checks
  <2> HIDE DEF y
  <2> QED BY <1>1, <2>1, <2>2, CheckOn
<1> QED BY <1>2, <1>3, <1>4

LEMMA HotEmptyStep == ASSUME Inv, NEW c \in Conn, HotEmpty(c) PROVE Inv'
<1> DEFINE p == pgr[c]
           q == Goto(p, "validate")
<1>1. /\ p.pc = "empty"
      /\ jrnl' = [jrnl EXCEPT !.cur = NoFile, !.new = FALSE]
      /\ lock' = [lock EXCEPT ![c] = SHARED]
      /\ pgr' = [pgr EXCEPT ![c] = q]
      /\ file' = file
  BY DEF HotEmpty, At, Lock, Step
<1>2. ConnOK(p, lock[c]) /\ DOMAIN p = PagerFields
  BY DEF Inv, ConnOK, Content, Shape
<1>3. p.st = "OPEN" /\ lock[c] >= RESERVED
  BY <1>1, <1>2 DEF ConnOK, Phase, Locked, Checks, Undo, Syncs
<1>4. q.pc = "validate" /\ q.st = "OPEN"
  BY <1>2, <1>3, GotoFields DEF PagerFields
<1>5. ConnOK(q, SHARED)
  <2>1. SHARED \in NO_LOCK..EXCLUSIVE /\ SHARED >= SHARED /\ ~("validate" \in Undo) /\ "validate" # "empty"
        /\ "validate" \in {"idle", "empty"} \cup Checks \cup Undo
    BY DEF SHARED, NO_LOCK, EXCLUSIVE, Undo, Checks
  <2> QED BY <1>2, <1>3, <2>1, GotoOpen
<1>6. ~NeedsJournal(q)
  BY <1>4, NoNeed DEF Undo
<1> HIDE DEF p, q
<1>7. FileInv'
  BY <1>1, SameFiles
<1>8. JournalInv'
  BY <1>1 DEF Inv, JournalInv, JournalFile
<1>9. \A d \in Conn \ {c} : /\ SHARED >= RESERVED => lock[d] < RESERVED
                            /\ SHARED = EXCLUSIVE => lock[d] = NO_LOCK
                            /\ SHARED >= SHARED => lock[d] # EXCLUSIVE
  <2>1. \A d \in Conn \ {c} : lock[d] < RESERVED
    BY <1>3 DEF Inv, Exclusion
  <2> QED BY <2>1 DEF SHARED, RESERVED, EXCLUSIVE, NO_LOCK
<1>10. jrnl'.cur = NoFile => jrnl.cur = NoFile \/ lock[c] >= RESERVED
  BY <1>3
<1> QED BY <1>1, <1>5, <1>6, <1>7, <1>8, <1>9, <1>10, Replace

LEMMA NoSavepoints ==
  /\ IsList(<<>>) /\ DOMAIN <<>> = {} /\ Len(<<>>) = 0
  /\ SavepointsOK(<<>>) /\ SubOK(<<>>)
<1>1. DOMAIN <<>> = {} /\ Len(<<>>) = 0
  OBVIOUS
<1>2. IsList(<<>>)
  BY DEF IsList
<1> QED BY <1>1, <1>2 DEF SavepointsOK, SubOK, Nested

LEMMA ForgetFields ==
  ASSUME NEW p, DOMAIN p = PagerFields, NEW q, q = Forget(p)
  PROVE  /\ DOMAIN q = PagerFields
         /\ q.orig = 0 /\ q.off = 0 /\ q.hdr = 0
         /\ \A x \in PagerFields \ {"orig", "fsize", "off", "hdr", "nRec", "left", "tgt"} : q[x] = p[x]
BY DEF Forget, PagerFields

\* A pager without a transaction: after pager_unlock, and when it is new.
LEMMA OutsideOK ==
  ASSUME NEW q, DOMAIN q = PagerFields, q.st = "OPEN", q.pc = "idle",
         q.inj = {}, q.ccd = FALSE, q.sp = <<>>, q.sub = <<>>,
         q.size \in 0..MaxPage, q.orig = 0, q.off = 0, q.hdr = 0,
         DOMAIN q.cache \subseteq 1..MaxPage
  PROVE  ConnOK(q, NO_LOCK) /\ ~NeedsJournal(q)
<1>1. Shape(q)
  BY NoSavepoints, PagerAssumption DEF Shape, States
<1>2. Content(q)
  BY <1>1, PagerAssumption DEF Content, IsWriter
<1>3. Phase(q) /\ Sizes(q) /\ Clean(q)
  BY DEF Phase, Sizes, Clean, Syncs
<1>4. Locked(q, NO_LOCK)
  BY DEF Locked, Checks, Undo, NO_LOCK, EXCLUSIVE
<1>5. ~NeedsJournal(q)
  BY DEF NeedsJournal, Undo
<1> QED BY <1>2, <1>3, <1>4, <1>5 DEF ConnOK

LEMMA UnlockedOK ==
  ASSUME NEW p, Shape(p), NEW q, q = PagerUnlock(p)
  PROVE  ConnOK(q, NO_LOCK) /\ ~NeedsJournal(q)
<1> DEFINE a == IF p.st = "ERROR" THEN PagerReset(p) ELSE p
           b == Forget(a)
<1>1. DOMAIN p = PagerFields
  BY DEF Shape
<1>2. DOMAIN a = PagerFields /\ a.size = p.size /\ DOMAIN a.cache \subseteq 1..MaxPage
  BY <1>1 DEF PagerReset, NoPages, PagerFields, Shape
<1>3. q = [b EXCEPT !.st = "OPEN", !.pc = "idle", !.inj = {}, !.sp = <<>>, !.sub = <<>>,
                    !.ccd = FALSE]
  BY DEF PagerUnlock
<1> HIDE DEF a
<1>4. /\ DOMAIN b = PagerFields
      /\ b.orig = 0 /\ b.off = 0 /\ b.hdr = 0
      /\ \A x \in PagerFields \ {"orig", "fsize", "off", "hdr", "nRec", "left", "tgt"} : b[x] = a[x]
  BY <1>2, ForgetFields
<1>5. b.size = p.size /\ DOMAIN b.cache \subseteq 1..MaxPage
  BY <1>2, <1>4 DEF PagerFields
<1> HIDE DEF b
<1>6. /\ DOMAIN q = PagerFields /\ q.st = "OPEN" /\ q.pc = "idle"
      /\ q.inj = {} /\ q.ccd = FALSE /\ q.sp = <<>> /\ q.sub = <<>>
      /\ q.size = b.size /\ q.orig = 0 /\ q.off = 0 /\ q.hdr = 0 /\ q.cache = b.cache
  BY <1>3, <1>4 DEF PagerFields
<1>7. q.size \in 0..MaxPage /\ DOMAIN q.cache \subseteq 1..MaxPage
  BY <1>5, <1>6 DEF Shape
<1> QED BY <1>6, <1>7, OutsideOK

LEMMA NewPagerOK == ConnOK(NewPager, NO_LOCK) /\ ~NeedsJournal(NewPager)
<1> DEFINE q == NewPager
<1>1. /\ DOMAIN q = PagerFields /\ q.st = "OPEN" /\ q.pc = "idle"
      /\ q.inj = {} /\ q.ccd = FALSE /\ q.sp = <<>> /\ q.sub = <<>>
      /\ q.size = 0 /\ q.orig = 0 /\ q.off = 0 /\ q.hdr = 0 /\ DOMAIN q.cache = {}
  BY DEF NewPager, PagerFields, NoPages
<1>2. q.size \in 0..MaxPage /\ DOMAIN q.cache \subseteq 1..MaxPage
  BY <1>1, PagerAssumption
<1> HIDE DEF q
<1>3. ConnOK(q, NO_LOCK) /\ ~NeedsJournal(q)
  BY <1>1, <1>2, OutsideOK
<1> QED BY <1>3 DEF q

\* Giving up every lock disturbs nobody.
LEMMA LeaveStep ==
  ASSUME Inv, NEW c \in Conn, NEW q, ConnOK(q, NO_LOCK), ~NeedsJournal(q),
         pgr' = [pgr EXCEPT ![c] = q],
         lock' = [lock EXCEPT ![c] = NO_LOCK],
         file' = file, jrnl' = jrnl
  PROVE  Inv'
<1>1. JournalInv' /\ FileInv'
  BY SameFiles, SameJournal
<1>2. \A d \in Conn \ {c} : /\ NO_LOCK >= RESERVED => lock[d] < RESERVED
                            /\ NO_LOCK = EXCLUSIVE => lock[d] = NO_LOCK
                            /\ NO_LOCK >= SHARED => lock[d] # EXCLUSIVE
  BY DEF NO_LOCK, SHARED, RESERVED, EXCLUSIVE
<1> DEFINE l == NO_LOCK
<1>3. /\ ConnOK(q, l)
      /\ lock' = [lock EXCEPT ![c] = l]
      /\ \A d \in Conn \ {c} : /\ l >= RESERVED => lock[d] < RESERVED
                               /\ l = EXCLUSIVE => lock[d] = NO_LOCK
                               /\ l >= SHARED => lock[d] # EXCLUSIVE
  BY <1>2
<1>4. jrnl'.cur = NoFile => jrnl.cur = NoFile \/ lock[c] >= RESERVED
  OBVIOUS
<1> HIDE DEF l
<1> QED BY <1>1, <1>3, <1>4, Replace

LEMMA HotExclusiveStep ==
  ASSUME Inv, NEW c \in Conn, HotExclusive(c), NoFileIsNoJournal PROVE Inv'
<1> DEFINE p == pgr[c]
           q == [Goto(p, "play") EXCEPT !.hdr = Len(jrnl.cur), !.off = 0, !.left = 0]
<1>1. p.pc = "exclusive" /\ file' = file /\ "exclusive" \in Checks
  BY DEF HotExclusive, At, Checks
<1>2. ConnOK(p, lock[c]) /\ DOMAIN p = PagerFields /\ Shape(p) /\ lock \in [Conn -> NO_LOCK..EXCLUSIVE]
  BY DEF Inv, ConnOK, Content, Shape
<1>3. p.st = "OPEN" /\ p.inj = {} /\ p.sp = <<>> /\ ~p.ccd
  BY <1>1, <1>2 DEF ConnOK, Phase, Clean, Checks, Undo, Syncs
<1>4. CASE \E d \in Others(c) : lock[d] >= SHARED
  <2> DEFINE r == PagerUnlock(p)
  <2>1. pgr' = [pgr EXCEPT ![c] = r] /\ lock' = [lock EXCEPT ![c] = NO_LOCK] /\ jrnl' = jrnl
    BY <1>4 DEF HotExclusive, Lock, Step
  <2>2. ConnOK(r, NO_LOCK) /\ ~NeedsJournal(r)
    BY <1>2, UnlockedOK
  <2> HIDE DEF r
  <2> QED BY <1>1, <2>1, <2>2, LeaveStep
<1>5. CASE ~(\E d \in Others(c) : lock[d] >= SHARED) /\ jrnl.cur = NoFile
  <2>1. /\ lock' = [lock EXCEPT ![c] = SHARED]
        /\ pgr' = [pgr EXCEPT ![c] = Goto(p, "validate")]
        /\ jrnl' = jrnl /\ "validate" \in Checks
    BY <1>5 DEF HotExclusive, Lock, Step, Checks
  <2>2. \A d \in Conn \ {c} : lock[d] < SHARED
    BY <1>2, <1>5 DEF Others, NO_LOCK, SHARED, EXCLUSIVE
  <2> QED BY <1>1, <2>1, <2>2, CheckOn
<1>6. CASE ~(\E d \in Others(c) : lock[d] >= SHARED) /\ jrnl.cur # NoFile
  <2>1. /\ lock' = [lock EXCEPT ![c] = EXCLUSIVE]
        /\ pgr' = [pgr EXCEPT ![c] = q]
        /\ jrnl' = [cur |-> jrnl.cur, dur |-> jrnl.cur, new |-> FALSE]
    BY <1>6 DEF HotExclusive, Lock, Step
  <2>2. Journal(jrnl.cur) /\ Len(jrnl.cur) <= MaxSlot /\ Len(jrnl.cur) \in Nat
    BY <1>6, ListType DEF Inv, JournalInv, JournalFile, Journal
  <2>3. /\ DOMAIN q = PagerFields
        /\ q.pc = "play" /\ q.hdr = Len(jrnl.cur) /\ q.off = 0
        /\ \A x \in PagerFields \ {"pc", "hdr", "off", "left"} : q[x] = p[x]
    BY <1>2 DEF Goto, PagerFields
  <2> HIDE DEF q
  <2>4. Shape(q)
    BY <1>2, <2>2, <2>3 DEF Shape, PagerFields
  <2>5. q.st = "OPEN" /\ q.inj = {} /\ q.sp = <<>> /\ ~q.ccd
    BY <1>3, <2>3 DEF PagerFields
  <2>6. Content(q)
    BY <2>2, <2>3, <2>4, <2>5, PagerAssumption DEF Content, IsWriter
  <2>7. Phase(q) /\ Sizes(q) /\ Clean(q)
    BY <2>3, <2>5 DEF Phase, Sizes, Clean, Undo, Syncs
  <2>8. Locked(q, EXCLUSIVE)
    BY <2>3, <2>5 DEF Locked, Checks, NO_LOCK, SHARED, RESERVED, EXCLUSIVE
  <2>9. ConnOK(q, EXCLUSIVE)
    BY <2>6, <2>7, <2>8 DEF ConnOK
  <2>10. JournalInv' /\ jrnl'.cur # NoFile
    BY <1>6, <2>1, <2>2 DEF JournalInv, JournalFile
  <2>11. FileInv'
    BY <1>1, SameFiles
  <2>12. \A d \in Conn \ {c} : /\ EXCLUSIVE >= RESERVED => lock[d] < RESERVED
                               /\ EXCLUSIVE = EXCLUSIVE => lock[d] = NO_LOCK
                               /\ EXCLUSIVE >= SHARED => lock[d] # EXCLUSIVE
    BY <1>2, <1>6 DEF Others, NO_LOCK, SHARED, RESERVED, EXCLUSIVE
  <2> DEFINE l == EXCLUSIVE
  <2>13. /\ ConnOK(q, l)
         /\ lock' = [lock EXCEPT ![c] = l]
         /\ \A d \in Conn \ {c} : /\ l >= RESERVED => lock[d] < RESERVED
                                  /\ l = EXCLUSIVE => lock[d] = NO_LOCK
                                  /\ l >= SHARED => lock[d] # EXCLUSIVE
    BY <2>1, <2>9, <2>12
  <2> HIDE DEF l
  <2> QED BY <2>1, <2>10, <2>11, <2>13, Replace
<1> QED BY <1>4, <1>5, <1>6

-----------------------------------------------------------------------------
(* Reading.                                                                   *)

\* The lock goes back to SHARED.
LEMMA DowngradeStep ==
  ASSUME Inv, NEW c \in Conn, NEW q, ConnOK(q, SHARED), ~NeedsJournal(q),
         pgr' = [pgr EXCEPT ![c] = q],
         lock' = [lock EXCEPT ![c] = SHARED],
         lock[c] >= SHARED,
         JournalInv', FileInv',
         jrnl'.cur = NoFile => jrnl.cur = NoFile \/ lock[c] >= RESERVED
  PROVE  Inv'
<1>1. \A d \in Conn \ {c} : /\ SHARED >= RESERVED => lock[d] < RESERVED
                            /\ SHARED = EXCLUSIVE => lock[d] = NO_LOCK
                            /\ SHARED >= SHARED => lock[d] # EXCLUSIVE
  <2> SUFFICES ASSUME NEW d \in Conn \ {c}, lock[d] = EXCLUSIVE PROVE FALSE
    BY DEF SHARED, RESERVED, EXCLUSIVE
  <2>1. lock[c] = NO_LOCK
    BY DEF Inv, Exclusion
  <2> QED BY <2>1 DEF NO_LOCK, SHARED
<1> DEFINE l == SHARED
<1>2. /\ ConnOK(q, l)
      /\ lock' = [lock EXCEPT ![c] = l]
      /\ \A d \in Conn \ {c} : /\ l >= RESERVED => lock[d] < RESERVED
                               /\ l = EXCLUSIVE => lock[d] = NO_LOCK
                               /\ l >= SHARED => lock[d] # EXCLUSIVE
  BY <1>1
<1> HIDE DEF l
<1> QED BY <1>2, Replace

LEMMA LoadFields ==
  ASSUME NEW p, DOMAIN p = PagerFields, DOMAIN p.cache \subseteq 1..MaxPage,
         NEW n \in 1..MaxPage, NEW q, q = Load(p, n)
  PROVE  /\ DOMAIN q = PagerFields
         /\ DOMAIN q.cache \subseteq 1..MaxPage
         /\ \A x \in PagerFields \ {"cache", "vers"} : q[x] = p[x]
<1>1. CASE Cached(p, n)
  BY <1>1 DEF Load
<1>2. CASE ~Cached(p, n)
  <2> DEFINE e == Entry(Fetch(p, n), FALSE, FALSE)
             w == WithPage(p.cache, n, e)
             v == IF n = 1 /\ p.size > 0 THEN file.cur[1] ELSE p.vers
  <2>1. q = [p EXCEPT !.cache = w, !.vers = v]
    BY <1>2 DEF Load
  <2>2. DOMAIN w \subseteq 1..MaxPage
    BY DEF WithPage
  <2> HIDE DEF w, v
  <2> QED BY <2>1, <2>2 DEF PagerFields
<1> QED BY <1>1, <1>2

\* Only the cache and the version it goes with have changed.
LEMMA CacheOK ==
  ASSUME NEW p, NEW l, ConnOK(p, l), NEW q,
         DOMAIN q = PagerFields,
         DOMAIN q.cache \subseteq 1..MaxPage,
         \A x \in PagerFields \ {"cache", "vers"} : q[x] = p[x]
  PROVE  ConnOK(q, l) /\ (NeedsJournal(q) <=> NeedsJournal(p))
<1>1. \A x \in {"st", "pc", "size", "orig", "fsize", "inj", "off", "hdr", "sp", "sub", "ccd", "tgt"} : q[x] = p[x]
  BY DEF PagerFields
<1>2. Shape(q)
  BY <1>1 DEF ConnOK, Content, Shape
<1>3. Content(q)
  BY <1>1, <1>2 DEF ConnOK, Content, IsWriter, InjOK, SavepointsBehind
<1>4. Phase(q) /\ Sizes(q) /\ Clean(q)
  BY <1>1 DEF ConnOK, Phase, Sizes, Clean, Syncs
<1>5. Locked(q, l)
  BY <1>1 DEF ConnOK, Locked
<1>6. NeedsJournal(q) <=> NeedsJournal(p)
  BY <1>1 DEF NeedsJournal
<1> QED BY <1>3, <1>4, <1>5, <1>6 DEF ConnOK

LEMMA ReadStep == ASSUME Inv, NEW c \in Conn, NEW n \in 1..MaxPage, Read(c, n) PROVE Inv'
<1> DEFINE p == pgr[c]
           q == Load(p, n)
<1>1. /\ pgr' = [pgr EXCEPT ![c] = q]
      /\ lock' = lock /\ file' = file /\ jrnl' = jrnl
  BY DEF Read, Step
<1>2. ConnOK(p, lock[c]) /\ (NeedsJournal(p) => jrnl.cur # NoFile)
  BY DEF Inv
<1>3. DOMAIN p = PagerFields /\ DOMAIN p.cache \subseteq 1..MaxPage
  BY <1>2 DEF ConnOK, Content, Shape
<1>4. /\ DOMAIN q = PagerFields
      /\ DOMAIN q.cache \subseteq 1..MaxPage
      /\ \A x \in PagerFields \ {"cache", "vers"} : q[x] = p[x]
  BY <1>3, LoadFields
<1> HIDE DEF p, q
<1>5. ConnOK(q, lock[c]) /\ (NeedsJournal(q) <=> NeedsJournal(p))
  BY <1>2, <1>4, CacheOK
<1>6. JournalInv' /\ FileInv'
  BY <1>1, SameFiles, SameJournal
<1> QED BY <1>1, <1>2, <1>5, <1>6, Stay

\* A pager that has just got its SHARED lock, or gone back to it.
LEMMA ReaderOK ==
  ASSUME NEW q, DOMAIN q = PagerFields, q.st = "READER", q.pc = "idle",
         Shape(q), q.inj = {}, q.sp = <<>>, ~q.ccd, q.off <= MaxSlot, q.hdr <= MaxSlot,
         NEW l \in NO_LOCK..EXCLUSIVE, l >= SHARED
  PROVE  ConnOK(q, l) /\ ~NeedsJournal(q)
<1>1. Content(q)
  BY DEF Content, IsWriter
<1>2. Phase(q) /\ Sizes(q) /\ Clean(q)
  BY DEF Phase, Sizes, Clean, Syncs
<1>3. Locked(q, l)
  BY DEF Locked, Checks, Undo
<1>4. ~NeedsJournal(q)
  BY DEF NeedsJournal, Undo
<1> QED BY <1>1, <1>2, <1>3, <1>4 DEF ConnOK

LEMMA ValidateStep == ASSUME Inv, NEW c \in Conn, Validate(c) PROVE Inv'
<1> DEFINE p    == pgr[c]
           now  == IF Len(file.cur) = 0 THEN Zero ELSE file.cur[1]
           kept == IF p.cache # NoPages /\ p.vers # now THEN PagerReset(p) ELSE p
           r    == [kept EXCEPT !.st = "READER", !.pc = "idle", !.size = Len(file.cur)]
           q    == Load(r, 1)
<1>1. /\ p.pc = "validate"
      /\ pgr' = [pgr EXCEPT ![c] = q]
      /\ lock' = lock /\ file' = file /\ jrnl' = jrnl
  BY DEF Validate, At, Step
<1>2. ConnOK(p, lock[c]) /\ lock[c] \in NO_LOCK..EXCLUSIVE
  BY DEF Inv
<1>3. Content(p) /\ Shape(p) /\ DOMAIN p = PagerFields
  BY <1>2 DEF ConnOK, Content, Shape
<1>4. p.st = "OPEN" /\ p.inj = {} /\ p.sp = <<>> /\ ~p.ccd /\ lock[c] >= SHARED
  BY <1>1, <1>2 DEF ConnOK, Phase, Clean, Locked, Checks, Undo, Syncs
<1>5. /\ DOMAIN kept = PagerFields
      /\ DOMAIN kept.cache \subseteq 1..MaxPage
      /\ \A x \in PagerFields \ {"cache"} : kept[x] = p[x]
  BY <1>3 DEF PagerReset, NoPages, PagerFields, Shape
<1>6. Len(file.cur) \in 0..MaxPage
  BY ListType DEF Inv, FileInv, DatabaseFile
<1> HIDE DEF kept
<1>7. /\ DOMAIN r = PagerFields
      /\ r.st = "READER" /\ r.pc = "idle" /\ r.size \in 0..MaxPage
      /\ DOMAIN r.cache \subseteq 1..MaxPage
      /\ \A x \in PagerFields \ {"st", "pc", "size", "cache"} : r[x] = p[x]
  BY <1>5, <1>6 DEF PagerFields
<1> HIDE DEF r
<1>8. 1 \in 1..MaxPage
  BY PagerAssumption
<1>9. /\ DOMAIN q = PagerFields
      /\ DOMAIN q.cache \subseteq 1..MaxPage
      /\ \A x \in PagerFields \ {"cache", "vers"} : q[x] = r[x]
  BY <1>7, <1>8, LoadFields
<1> HIDE DEF q
<1>10. /\ q.st = "READER" /\ q.pc = "idle" /\ q.size \in 0..MaxPage
       /\ \A x \in PagerFields \ {"st", "pc", "size", "cache", "vers"} : q[x] = p[x]
  BY <1>7, <1>9 DEF PagerFields
<1>11. Shape(q)
  BY <1>3, <1>9, <1>10 DEF Shape, PagerFields, States
<1>12. q.inj = {} /\ q.sp = <<>> /\ ~q.ccd /\ q.off <= MaxSlot /\ q.hdr <= MaxSlot
  BY <1>3, <1>4, <1>10 DEF Content, PagerFields
<1>13. ConnOK(q, lock[c]) /\ ~NeedsJournal(q)
  BY <1>2, <1>4, <1>9, <1>10, <1>11, <1>12, ReaderOK
<1>14. JournalInv' /\ FileInv'
  BY <1>1, SameFiles, SameJournal
<1> HIDE DEF p
<1> QED BY <1>1, <1>13, <1>14, Stay

LEMMA EndReadStep == ASSUME Inv, NEW c \in Conn, EndRead(c) PROVE Inv'
<1> DEFINE p == pgr[c]
           q == PagerUnlock(p)
<1>1. /\ pgr' = [pgr EXCEPT ![c] = q]
      /\ lock' = [lock EXCEPT ![c] = NO_LOCK]
      /\ file' = file /\ jrnl' = jrnl
  BY DEF EndRead, Step, Lock
<1>2. Shape(p)
  BY DEF Inv, ConnOK, Content
<1>3. ConnOK(q, NO_LOCK) /\ ~NeedsJournal(q)
  BY <1>2, UnlockedOK
<1> HIDE DEF q
<1> QED BY <1>1, <1>3, LeaveStep

LEMMA KillStep == ASSUME Inv, NEW c \in Conn, Kill(c) PROVE Inv'
<1>1. /\ pgr' = [pgr EXCEPT ![c] = NewPager]
      /\ lock' = [lock EXCEPT ![c] = NO_LOCK]
      /\ file' = file /\ jrnl' = jrnl
  BY DEF Kill, Step, Lock
<1> QED BY <1>1, NewPagerOK, LeaveStep

-----------------------------------------------------------------------------
(* Writing.                                                                   *)

LEMMA BeginStep == ASSUME Inv, NEW c \in Conn, Begin(c) PROVE Inv'
<1> DEFINE p == pgr[c]
           q == [p EXCEPT !.st = "LOCKED", !.fsize = p.size, !.orig = p.size, !.off = 0]
<1>1. /\ p.st = "READER" /\ p.pc = "idle"
      /\ \A d \in Conn \ {c} : lock[d] < RESERVED
      /\ lock' = [lock EXCEPT ![c] = RESERVED]
      /\ pgr' = [pgr EXCEPT ![c] = q]
      /\ file' = file /\ jrnl' = jrnl
  BY DEF Begin, Idle, At, Lock, Step, Others
<1>2. ConnOK(p, lock[c]) /\ Content(p) /\ Shape(p) /\ DOMAIN p = PagerFields
  BY DEF Inv, ConnOK, Content, Shape
<1>3. p.inj = {} /\ p.sp = <<>> /\ ~p.ccd
  BY <1>1, <1>2 DEF ConnOK, Clean
<1>4. /\ DOMAIN q = PagerFields
      /\ q.st = "LOCKED" /\ q.fsize = p.size /\ q.orig = p.size /\ q.off = 0
      /\ \A x \in PagerFields \ {"st", "fsize", "orig", "off"} : q[x] = p[x]
  BY <1>2 DEF PagerFields
<1> HIDE DEF q
<1>5. q.pc = "idle" /\ q.size = p.size /\ q.inj = {} /\ q.sp = <<>> /\ ~q.ccd /\ q.hdr = p.hdr
  BY <1>1, <1>3, <1>4 DEF PagerFields
<1>6. Shape(q)
  BY <1>2, <1>4 DEF Shape, PagerFields, States
<1>7. SavepointsBehind(q) /\ InjOK(q)
  BY <1>5, NoSavepoints DEF SavepointsBehind, InjOK
<1>8. Content(q)
  BY <1>2, <1>4, <1>5, <1>6, <1>7, PagerAssumption DEF Content
<1>9. Phase(q) /\ Sizes(q) /\ Clean(q)
  BY <1>4, <1>5 DEF Phase, Sizes, Clean, Syncs
<1>10. Locked(q, RESERVED)
  BY <1>4, <1>5 DEF Locked, Checks, Undo, NO_LOCK, SHARED, RESERVED, EXCLUSIVE
<1>11. ~NeedsJournal(q)
  BY <1>4, <1>5, NoNeed DEF Undo
<1>12. JournalInv' /\ FileInv'
  BY <1>1, SameFiles, SameJournal
<1> DEFINE l == RESERVED
<1>13. /\ ConnOK(q, l)
       /\ lock' = [lock EXCEPT ![c] = l]
       /\ \A d \in Conn \ {c} : /\ l >= RESERVED => lock[d] < RESERVED
                                /\ l = EXCLUSIVE => lock[d] = NO_LOCK
                                /\ l >= SHARED => lock[d] # EXCLUSIVE
  BY <1>1, <1>8, <1>9, <1>10 DEF ConnOK, RESERVED, EXCLUSIVE
<1>14. jrnl'.cur = NoFile => jrnl.cur = NoFile \/ lock[c] >= RESERVED
  BY <1>1
<1> HIDE DEF l, p
<1> QED BY <1>1, <1>11, <1>12, <1>13, <1>14, Replace

\* Neither the lock nor a file is touched, and the pager keeps its phase but
\* for the step from one point of a call to the next.
LEMMA QuietStep ==
  ASSUME Inv, NEW c \in Conn, NEW q, ConnOK(q, lock[c]),
         NeedsJournal(q) => NeedsJournal(pgr[c]),
         pgr' = [pgr EXCEPT ![c] = q],
         lock' = lock, file' = file, jrnl' = jrnl
  PROVE  Inv'
<1>1. JournalInv' /\ FileInv'
  BY SameFiles, SameJournal
<1>2. NeedsJournal(q) => jrnl'.cur # NoFile
  BY DEF Inv
<1> QED BY <1>1, <1>2, Stay

\* Savepoints are pushed and popped by a writer between two calls.
LEMMA SavepointsChanged ==
  ASSUME NEW p, NEW l, ConnOK(p, l), p.st \in Writable, p.pc = "idle",
         NEW q, DOMAIN q = PagerFields,
         \A x \in PagerFields \ {"sp", "sub"} : q[x] = p[x],
         SavepointsOK(q.sp), SubOK(q.sub), SavepointsBehind(q)
  PROVE  ConnOK(q, l) /\ (NeedsJournal(q) => NeedsJournal(p))
<1>1. \A x \in {"st", "pc", "size", "orig", "fsize", "inj", "off", "hdr", "cache", "ccd"} : q[x] = p[x]
  BY DEF PagerFields
<1>2. Shape(q)
  BY <1>1 DEF ConnOK, Content, Shape
<1>3. Content(q)
  BY <1>1, <1>2 DEF ConnOK, Content, IsWriter, InjOK
<1>4. Phase(q) /\ Sizes(q) /\ Clean(q)
  BY <1>1 DEF ConnOK, Phase, Sizes, Clean, Writable, Syncs
<1>5. Locked(q, l)
  BY <1>1 DEF ConnOK, Locked
<1>6. NeedsJournal(q) => NeedsJournal(p)
  BY <1>1 DEF NeedsJournal
<1> QED BY <1>3, <1>4, <1>5, <1>6 DEF ConnOK

LEMMA WriterBehind ==
  ASSUME NEW p, NEW l, ConnOK(p, l), p.st \in Writable, p.pc = "idle"
  PROVE  SavepointsBehind(p) /\ InjOK(p)
BY DEF ConnOK, Content, IsWriter, Writable, Undo

LEMMA OpenSavepointStep == ASSUME Inv, NEW c \in Conn, OpenSavepoint(c) PROVE Inv'
<1> DEFINE p == pgr[c]
           a == Max({p.off, 1})
           new == [nOrig |-> p.size, iOffset |-> a, iSubRec |-> Len(p.sub),
                   in |-> {}, image |-> ViewImage(p)]
           q == [p EXCEPT !.sp = Append(@, new)]
<1>1. /\ p.st \in Writable /\ p.pc = "idle"
      /\ pgr' = [pgr EXCEPT ![c] = q]
      /\ lock' = lock /\ file' = file /\ jrnl' = jrnl
  BY DEF OpenSavepoint, Idle, At, Step
<1>2. ConnOK(p, lock[c]) /\ Shape(p) /\ DOMAIN p = PagerFields
  BY DEF Inv, ConnOK, Content, Shape
<1>3. SavepointsBehind(p)
  BY <1>1, <1>2, WriterBehind
<1>4. /\ IsList(p.sp) /\ SavepointsOK(p.sp) /\ p.off \in Nat /\ p.size \in 0..MaxPage
      /\ SubOK(p.sub) /\ Len(p.sub) \in Nat
      /\ DOMAIN p.sp = 1..Len(p.sp) /\ Len(p.sp) \in Nat
  BY <1>2, ListType DEF Shape, SavepointsOK, SubOK
<1>5. a \in Nat \ {0} /\ a >= p.off /\ a >= 1 /\ (a = p.off \/ a = 1)
  <2>1. p.off \in Int /\ 1 \in Int
    BY <1>4
  <2>2. a \in {p.off, 1} /\ a >= p.off /\ a >= 1
    BY <2>1, MaxTwo
  <2> HIDE DEF a
  <2> QED BY <1>4, <2>2
<1> HIDE DEF a
<1>6. /\ DOMAIN new = SavepointFields
      /\ new.nOrig = p.size /\ new.iOffset = a /\ new.iSubRec = Len(p.sub)
  BY DEF SavepointFields
<1> HIDE DEF new
<1>7. /\ DOMAIN q = PagerFields
      /\ q.sp = Append(p.sp, new)
      /\ \A x \in PagerFields \ {"sp"} : q[x] = p[x]
  BY <1>2 DEF PagerFields
<1> HIDE DEF q, p
<1>8. /\ IsList(q.sp)
      /\ DOMAIN q.sp = 1..(Len(p.sp) + 1)
      /\ \A k \in 1..Len(p.sp) : q.sp[k] = p.sp[k]
      /\ q.sp[Len(p.sp) + 1] = new
  BY <1>4, <1>7, ListAppend, ListType
<1>9. \A k \in DOMAIN q.sp : \/ k \in DOMAIN p.sp /\ q.sp[k] = p.sp[k]
                             \/ k = Len(p.sp) + 1 /\ q.sp[k] = new
  BY <1>4, <1>8
<1>10. q.sub = p.sub /\ q.off = p.off
  BY <1>7 DEF PagerFields
<1>11. \A k \in DOMAIN p.sp : /\ p.sp[k].iSubRec <= Len(p.sub)
                              /\ p.sp[k].iOffset <= a
                              /\ p.sp[k].iSubRec \in Nat /\ p.sp[k].iOffset \in Nat
  BY <1>3, <1>4, <1>5 DEF SavepointsBehind, SavepointsOK
<1>12. SavepointsBehind(q)
  BY <1>3, <1>4, <1>5, <1>6, <1>9, <1>10 DEF SavepointsBehind
<1>13. \A k \in DOMAIN q.sp : /\ DOMAIN q.sp[k] = SavepointFields
                              /\ q.sp[k].nOrig \in 0..MaxPage
                              /\ q.sp[k].iOffset \in Nat \ {0}
                              /\ q.sp[k].iSubRec \in Nat
  BY <1>4, <1>5, <1>6, <1>9 DEF SavepointsOK
<1>14. Nested(q.sp)
  <2> SUFFICES ASSUME NEW i \in DOMAIN q.sp, NEW k \in DOMAIN q.sp, i < k
               PROVE  /\ q.sp[i].iSubRec <= q.sp[k].iSubRec
                      /\ q.sp[i].iOffset <= q.sp[k].iOffset
    BY DEF Nested
  <2>1. i \in DOMAIN p.sp /\ q.sp[i] = p.sp[i]
    BY <1>4, <1>8
  <2>2. CASE k \in DOMAIN p.sp
    <3>1. q.sp[k] = p.sp[k]
      BY <1>4, <1>8, <2>2
    <3> QED BY <1>4, <2>1, <2>2, <3>1 DEF SavepointsOK, Nested
  <2>3. CASE k \notin DOMAIN p.sp
    <3>1. q.sp[k] = new
      BY <1>9, <2>3
    <3> QED BY <1>6, <1>11, <2>1, <3>1
  <2> QED BY <2>2, <2>3
<1>15. SavepointsOK(q.sp) /\ SubOK(q.sub)
  BY <1>4, <1>8, <1>10, <1>13, <1>14 DEF SavepointsOK
<1>16. ConnOK(q, lock[c]) /\ (NeedsJournal(q) => NeedsJournal(p))
  BY <1>1, <1>2, <1>7, <1>12, <1>15, SavepointsChanged
<1> QED BY <1>1, <1>16, QuietStep DEF p

\* The first savepoints of a list are as good as the list.
LEMMA SavepointsPrefix ==
  ASSUME NEW p, Shape(p), NEW i \in Int, i <= Len(p.sp),
         NEW sp, sp = SubSeq(p.sp, 1, i)
  PROVE  /\ SavepointsOK(sp)
         /\ DOMAIN sp \subseteq DOMAIN p.sp
         /\ \A k \in DOMAIN sp : sp[k] = p.sp[k]
         /\ i <= 0 => DOMAIN sp = {}
<1>1. /\ IsList(p.sp) /\ SavepointsOK(p.sp)
      /\ DOMAIN p.sp = 1..Len(p.sp) /\ Len(p.sp) \in Nat
  BY ListType DEF Shape, SavepointsOK
<1>2. /\ IsList(sp)
      /\ Len(sp) = IF i < 0 THEN 0 ELSE i
      /\ \A k \in 1..i : sp[k] = p.sp[k]
  BY <1>1, ListPrefix
<1>3. DOMAIN sp = 1..i
  BY <1>2, ListType
<1>4. DOMAIN sp \subseteq DOMAIN p.sp /\ \A k \in DOMAIN sp : sp[k] = p.sp[k]
  BY <1>1, <1>2, <1>3
<1>5. SavepointsOK(sp)
  BY <1>1, <1>2, <1>4 DEF SavepointsOK, Nested
<1> QED BY <1>3, <1>4, <1>5

LEMMA ReleaseSavepointStep ==
  ASSUME Inv, NEW c \in Conn, NEW i, ReleaseSavepoint(c, i) PROVE Inv'
<1> DEFINE p == pgr[c]
           a == i - 1
           sp == SubSeq(p.sp, 1, a)
           sub == IF i = 1 THEN <<>> ELSE p.sub
           q == [p EXCEPT !.sp = sp, !.sub = sub]
<1>1. /\ p.st \in Writable /\ p.pc = "idle" /\ i \in DOMAIN p.sp
      /\ pgr' = [pgr EXCEPT ![c] = q]
      /\ lock' = lock /\ file' = file /\ jrnl' = jrnl
  BY DEF ReleaseSavepoint, Idle, At, Step
<1>2. ConnOK(p, lock[c]) /\ Shape(p) /\ DOMAIN p = PagerFields
  BY DEF Inv, ConnOK, Content, Shape
<1>3. SavepointsBehind(p)
  BY <1>1, <1>2, WriterBehind
<1>4. DOMAIN p.sp = 1..Len(p.sp) /\ Len(p.sp) \in Nat /\ SubOK(p.sub)
  BY <1>2, ListType DEF Shape, SavepointsOK
<1>5. a \in Int /\ a <= Len(p.sp) /\ (i = 1 => a <= 0)
  BY <1>1, <1>4
<1>6. SubOK(sub)
  BY <1>4, NoSavepoints
<1> HIDE DEF a
<1>7. /\ SavepointsOK(sp)
      /\ DOMAIN sp \subseteq DOMAIN p.sp
      /\ \A k \in DOMAIN sp : sp[k] = p.sp[k]
      /\ a <= 0 => DOMAIN sp = {}
  BY <1>2, <1>5, SavepointsPrefix
<1> HIDE DEF sp
<1>8. i # 1 => sub = p.sub
  OBVIOUS
<1> HIDE DEF sub
<1>9. /\ DOMAIN q = PagerFields /\ q.sp = sp /\ q.sub = sub
      /\ \A x \in PagerFields \ {"sp", "sub"} : q[x] = p[x]
  BY <1>2 DEF PagerFields
<1>10. q.off = p.off
  BY <1>9 DEF PagerFields
<1> HIDE DEF q, p
<1>11. SavepointsBehind(q)
  BY <1>3, <1>5, <1>7, <1>8, <1>9, <1>10 DEF SavepointsBehind
<1>12. ConnOK(q, lock[c]) /\ (NeedsJournal(q) => NeedsJournal(p))
  BY <1>1, <1>2, <1>6, <1>7, <1>9, <1>11, SavepointsChanged
<1> QED BY <1>1, <1>12, QuietStep DEF p

-----------------------------------------------------------------------------
(* From one point of a call to the next.                                      *)

LEMMA Moved ==
  ASSUME NEW p, NEW l, ConnOK(p, l), NEW q,
         DOMAIN q = PagerFields,
         \A x \in PagerFields \ {"pc", "nRec", "left", "tgt", "vers"} : q[x] = p[x],
         p.pc \in Undo => q.pc \in Undo \/ ~IsWriter(p),
         q.pc \notin {"trim", "unlock"},
         q.pc \in Syncs \cup {"write"} => q.tgt \in 0..MaxPage,
         Phase(q), NEW k, Locked(q, k)
  PROVE  ConnOK(q, k)
<1>1. \A x \in {"st", "size", "orig", "fsize", "inj", "off", "hdr", "cache", "sp", "sub", "ccd"} : q[x] = p[x]
  BY DEF PagerFields
<1>2. Shape(q)
  BY <1>1 DEF ConnOK, Content, Shape
<1>3. Content(q)
  BY <1>1, <1>2 DEF ConnOK, Content, IsWriter, InjOK, SavepointsBehind
<1>4. Clean(q)
  BY <1>1 DEF ConnOK, Clean
<1>5. Sizes(q)
  BY <1>1 DEF ConnOK, Sizes, IsWriter, Syncs
<1> QED BY <1>3, <1>4, <1>5 DEF ConnOK

\* A lock that keeps other writers out is raised.
LEMMA RaiseStep ==
  ASSUME Inv, NEW c \in Conn, lock[c] >= RESERVED, NEW k \in {PENDING, EXCLUSIVE},
         k = EXCLUSIVE => \A d \in Conn \ {c} : lock[d] = NO_LOCK,
         NEW q, ConnOK(q, k), NeedsJournal(q) => NeedsJournal(pgr[c]),
         pgr' = [pgr EXCEPT ![c] = q],
         lock' = [lock EXCEPT ![c] = k],
         file' = file, jrnl' = jrnl
  PROVE  Inv'
<1>1. JournalInv' /\ FileInv'
  BY SameFiles, SameJournal
<1>2. \A d \in Conn \ {c} : lock[d] < RESERVED
  BY DEF Inv, Exclusion
<1>3. \A d \in Conn \ {c} : /\ k >= RESERVED => lock[d] < RESERVED
                            /\ k = EXCLUSIVE => lock[d] = NO_LOCK
                            /\ k >= SHARED => lock[d] # EXCLUSIVE
  BY <1>2 DEF RESERVED, EXCLUSIVE
<1>4. NeedsJournal(q) => jrnl'.cur # NoFile
  BY DEF Inv
<1> QED BY <1>1, <1>3, <1>4, Replace

LEMMA StressStep ==
  ASSUME Inv, NEW c \in Conn, NEW n \in 1..MaxPage, Stress(c, n) PROVE Inv'
<1> DEFINE p == pgr[c]
           x == IF p.cache[n].ns \/ p.st = "CACHEMOD" THEN "lock" ELSE "write"
           q == [p EXCEPT !.tgt = n, !.pc = x]
<1>1. /\ p.st \in {"CACHEMOD", "DBMOD"} /\ p.pc = "idle"
      /\ pgr' = [pgr EXCEPT ![c] = q]
      /\ lock' = lock /\ file' = file /\ jrnl' = jrnl
  BY DEF Stress, Idle, At, Step
<1>2. ConnOK(p, lock[c]) /\ DOMAIN p = PagerFields
  BY DEF Inv, ConnOK, Content, Shape
<1>3. x = "lock" \/ (x = "write" /\ p.st = "DBMOD")
  BY <1>1
<1> HIDE DEF x
<1>0. n \in 0..MaxPage
  OBVIOUS
<1>4. /\ DOMAIN q = PagerFields /\ q.pc = x /\ q.tgt = n
      /\ \A y \in PagerFields \ {"pc", "nRec", "left", "tgt", "vers"} : q[y] = p[y]
      /\ q.st = p.st /\ q.ccd = p.ccd
  BY <1>2 DEF PagerFields
<1> HIDE DEF q
<1>5. p.pc \notin Undo /\ q.pc \notin {"trim", "unlock"}
  BY <1>1, <1>3, <1>4 DEF Undo
<1>6. Phase(q)
  BY <1>1, <1>3, <1>4 DEF Phase, Syncs
<1>7. Locked(q, lock[c])
  BY <1>1, <1>2, <1>3, <1>4 DEF ConnOK, Locked, Checks
<1>8. ConnOK(q, lock[c])
  BY <1>0, <1>2, <1>4, <1>5, <1>6, <1>7, Moved
<1>9. NeedsJournal(p)
  BY <1>1 DEF NeedsJournal
<1> QED BY <1>1, <1>8, <1>9, QuietStep

LEMMA ExclusiveLockStep ==
  ASSUME Inv, NEW c \in Conn, ExclusiveLock(c) PROVE Inv'
<1> DEFINE p == pgr[c]
<1>1. p.pc = "lock" /\ file' = file /\ jrnl' = jrnl
  BY DEF ExclusiveLock, At
<1>2. ConnOK(p, lock[c]) /\ DOMAIN p = PagerFields /\ pgr = [d \in Conn |-> pgr[d]]
  BY DEF Inv, ConnOK, Content, Shape
<1>3. /\ p.st \in {"CACHEMOD", "DBMOD"}
      /\ p.st = "DBMOD" => lock[c] = EXCLUSIVE
      /\ lock[c] >= RESERVED
      /\ p.ccd => lock[c] >= RESERVED
  BY <1>1, <1>2 DEF ConnOK, Phase, Locked, Checks, Undo, Syncs, RESERVED, EXCLUSIVE
<1>4. NeedsJournal(p)
  BY <1>1, <1>3 DEF NeedsJournal
<1>5. ASSUME NEW x \in {"idle", "sync1", "count"}, NEW k \in {PENDING, EXCLUSIVE},
             x # "idle" \/ p.st = "DBMOD" => k = EXCLUSIVE,
             NEW q, q = Goto(p, x)
      PROVE  ConnOK(q, k)
  <2>1. /\ DOMAIN q = PagerFields /\ q.pc = x
        /\ \A y \in PagerFields \ {"pc"} : q[y] = p[y]
    BY <1>2, <1>5, GotoFields
  <2>2. q.st = p.st /\ q.tgt = p.tgt /\ p.tgt \in 0..MaxPage
    BY <1>1, <1>2, <2>1 DEF ConnOK, Sizes, Syncs, PagerFields
  <2>3. Phase(q) /\ p.pc \notin Undo /\ q.pc \notin {"trim", "unlock"}
    BY <1>1, <1>3, <2>1, <2>2 DEF Phase, Syncs, Undo
  <2>4. Locked(q, k)
    BY <1>3, <1>5, <2>1, <2>2
       DEF Locked, Checks, Undo, NO_LOCK, SHARED, RESERVED, PENDING, EXCLUSIVE
  <2> QED BY <1>2, <2>1, <2>2, <2>3, <2>4, Moved
<1>6. CASE \A d \in Others(c) : lock[d] = NO_LOCK
  <2> DEFINE x == IF FullSync THEN "sync1" ELSE "count"
             q == Goto(p, x)
  <2>1. lock' = [lock EXCEPT ![c] = EXCLUSIVE] /\ pgr' = [pgr EXCEPT ![c] = q]
    BY <1>6 DEF ExclusiveLock, Lock, Step
  <2>2. x \in {"idle", "sync1", "count"} /\ EXCLUSIVE \in {PENDING, EXCLUSIVE}
    OBVIOUS
  <2> HIDE DEF x
  <2>3. ConnOK(q, EXCLUSIVE)
    BY <1>5, <2>2
  <2>4. \A d \in Conn \ {c} : lock[d] = NO_LOCK
    BY <1>6 DEF Others
  <2> HIDE DEF q
  <2> QED BY <1>1, <1>3, <1>4, <2>1, <2>2, <2>3, <2>4, RaiseStep
<1>7. CASE ~\A d \in Others(c) : lock[d] = NO_LOCK
  <2>1. /\ lock' = [lock EXCEPT ![c] = PENDING]
        /\ pgr' = pgr \/ pgr' = [pgr EXCEPT ![c] = Goto(p, "idle")]
    BY <1>7 DEF ExclusiveLock, Lock, Step
  <2>2. p.st = "CACHEMOD"
    BY <1>3, <1>7 DEF Inv, Exclusion, Others
  <2>3. PENDING \in {PENDING, EXCLUSIVE} /\ PENDING # EXCLUSIVE
    BY DEF PENDING, EXCLUSIVE
  <2>4. CASE pgr' = pgr
    <3>1. pgr' = [pgr EXCEPT ![c] = p]
      BY <1>2, <2>4
    <3>2. Locked(p, PENDING)
      BY <1>1, <1>3, <2>2
         DEF Locked, Checks, Undo, NO_LOCK, SHARED, RESERVED, PENDING, EXCLUSIVE
    <3>3. ConnOK(p, PENDING)
      BY <1>2, <3>2 DEF ConnOK
    <3> HIDE DEF p
    <3> QED BY <1>1, <1>3, <2>1, <2>3, <3>1, <3>3, RaiseStep DEF p
  <2>5. CASE pgr' = [pgr EXCEPT ![c] = Goto(p, "idle")]
    <3> DEFINE q == Goto(p, "idle")
    <3>1. ConnOK(q, PENDING)
      BY <1>5, <2>2, <2>3
    <3> HIDE DEF q
    <3> QED BY <1>1, <1>3, <1>4, <2>1, <2>3, <2>5, <3>1, RaiseStep DEF q
  <2> QED BY <2>1, <2>4, <2>5
<1> QED BY <1>6, <1>7

LEMMA SyncJournalFirstStep ==
  ASSUME Inv, NEW c \in Conn, SyncJournalFirst(c) PROVE Inv'
<1> DEFINE p == pgr[c]
           q == Goto(p, "count")
<1>1. /\ p.pc = "sync1"
      /\ pgr' = [pgr EXCEPT ![c] = q]
      /\ jrnl' = [cur |-> jrnl.cur, dur |-> jrnl.cur, new |-> FALSE]
      /\ lock' = lock /\ file' = file
  BY DEF SyncJournalFirst, At, Step, JournalSynced
<1>2. ConnOK(p, lock[c]) /\ DOMAIN p = PagerFields
  BY DEF Inv, ConnOK, Content, Shape
<1>3. p.st \in {"CACHEMOD", "DBMOD"} /\ lock[c] = EXCLUSIVE
  BY <1>1, <1>2 DEF ConnOK, Phase, Locked, Checks, Undo, Syncs
<1>4. /\ DOMAIN q = PagerFields /\ q.pc = "count"
      /\ \A y \in PagerFields \ {"pc"} : q[y] = p[y]
  BY <1>2, GotoFields
<1> HIDE DEF q
<1>5. q.st = p.st /\ q.tgt = p.tgt /\ p.tgt \in 0..MaxPage
  BY <1>1, <1>2, <1>4 DEF ConnOK, Sizes, Syncs, PagerFields
<1>6. Phase(q) /\ p.pc \notin Undo /\ q.pc \notin {"trim", "unlock"}
  BY <1>1, <1>3, <1>4, <1>5 DEF Phase, Syncs, Undo
<1>7. Locked(q, lock[c])
  BY <1>3, <1>4, <1>5 DEF Locked, Checks, NO_LOCK, SHARED, RESERVED, EXCLUSIVE
<1>8. ConnOK(q, lock[c])
  BY <1>2, <1>4, <1>5, <1>6, <1>7, Moved
<1>9. jrnl.cur # NoFile
  BY <1>1, <1>3 DEF Inv, NeedsJournal
<1>10. FileInv'
  BY <1>1, SameFiles
<1>11. JournalInv' /\ jrnl'.cur = jrnl.cur
  BY <1>1 DEF Inv, JournalInv
<1> QED BY <1>1, <1>8, <1>9, <1>10, <1>11, Stay

LEMMA PlaySyncStep == ASSUME Inv, NEW c \in Conn, PlaySync(c) PROVE Inv'
<1> DEFINE p == pgr[c]
           q == Goto(p, "finish")
<1>1. /\ p.pc = "resync"
      /\ pgr' = [pgr EXCEPT ![c] = q]
      /\ file' = file \/ file' = [file EXCEPT !.dur = file.cur]
      /\ lock' = lock /\ jrnl' = jrnl
  BY DEF PlaySync, At, Step
<1>2. ConnOK(p, lock[c]) /\ DOMAIN p = PagerFields
  BY DEF Inv, ConnOK, Content, Shape
<1>3. p.st \in {"OPEN", "CACHEMOD", "DBMOD"}
  BY <1>1, <1>2 DEF ConnOK, Phase
<1>4. /\ DOMAIN q = PagerFields /\ q.pc = "finish"
      /\ \A y \in PagerFields \ {"pc"} : q[y] = p[y]
  BY <1>2, GotoFields
<1> HIDE DEF q
<1>5. q.st = p.st /\ q.ccd = p.ccd
  BY <1>4 DEF PagerFields
<1>6. Phase(q) /\ q.pc \in Undo /\ q.pc \notin {"trim", "unlock", "write"} \cup Syncs
  BY <1>3, <1>4, <1>5 DEF Phase, Undo, Syncs
<1>7. Locked(q, lock[c])
  BY <1>1, <1>2, <1>4, <1>5 DEF ConnOK, Locked, Checks, Undo
<1>8. ConnOK(q, lock[c])
  BY <1>2, <1>4, <1>6, <1>7, Moved
<1>9. NeedsJournal(p)
  BY <1>1 DEF NeedsJournal, Undo
<1>10. FileInv'
  BY <1>1 DEF Inv, FileInv
<1>11. JournalInv' /\ jrnl'.cur = jrnl.cur /\ jrnl.cur # NoFile
  BY <1>1, <1>9, SameJournal DEF Inv
<1> QED BY <1>1, <1>8, <1>10, <1>11, Stay

\* The journal is about to be played back: nothing has been read of it yet.
LEMMA StartPlay ==
  ASSUME NEW p, NEW l, ConnOK(p, l), p.st \in {"CACHEMOD", "DBMOD"}, p.pc # "unlock",
         NEW q, q = [p EXCEPT !.pc = "play", !.off = 0, !.left = 0]
  PROVE  ConnOK(q, l) /\ NeedsJournal(p)
<1>1. DOMAIN p = PagerFields
  BY DEF ConnOK, Content, Shape
<1>2. /\ DOMAIN q = PagerFields /\ q.pc = "play" /\ q.off = 0
      /\ \A x \in PagerFields \ {"pc", "off", "left"} : q[x] = p[x]
  BY <1>1 DEF PagerFields
<1>3. \A x \in {"st", "size", "orig", "fsize", "inj", "hdr", "cache", "sp", "sub", "ccd"} : q[x] = p[x]
  BY <1>2 DEF PagerFields
<1>4. Shape(q)
  BY <1>2, <1>3 DEF ConnOK, Content, Shape
<1>5. Content(q)
  BY <1>2, <1>3, <1>4, PagerAssumption DEF ConnOK, Content, IsWriter, InjOK, Undo
<1>6. Phase(q) /\ Sizes(q) /\ Clean(q)
  BY <1>2, <1>3 DEF Phase, Sizes, Clean, Undo, Syncs
<1>7. Locked(q, l)
  BY <1>2, <1>3 DEF ConnOK, Locked, Checks, Undo
<1>8. NeedsJournal(p)
  BY DEF NeedsJournal
<1> QED BY <1>5, <1>6, <1>7, <1>8 DEF ConnOK

LEMMA RollbackStep == ASSUME Inv, NEW c \in Conn, Rollback(c) PROVE Inv'
<1> DEFINE p == pgr[c]
           q == [p EXCEPT !.pc = "play", !.off = 0, !.left = 0]
<1>1. /\ p.st \in {"CACHEMOD", "DBMOD"} /\ p.pc = "idle"
      /\ pgr' = [pgr EXCEPT ![c] = q]
      /\ lock' = lock /\ file' = file /\ jrnl' = jrnl
  BY DEF Rollback, Idle, At, Step
<1>2. ConnOK(p, lock[c])
  BY DEF Inv
<1>3. ConnOK(q, lock[c]) /\ NeedsJournal(p)
  BY <1>1, <1>2, StartPlay
<1> HIDE DEF q
<1> QED BY <1>1, <1>3, QuietStep

-----------------------------------------------------------------------------
(* The end of a transaction.                                                  *)

LEMMA EndFields ==
  ASSUME NEW p, Shape(p), NEW q, q = EndTransaction(p)
  PROVE  /\ DOMAIN q = PagerFields
         /\ q.sp = <<>> /\ q.inj = {}
         /\ \A x \in PagerFields \ {"sp", "sub", "inj", "nRec", "cache"} : q[x] = p[x]
         /\ Shape(q)
<1> DEFINE w == IF p.size = 0 /\ p.st # "OPEN" THEN [n \in {1} |-> Entry(Zero, FALSE, FALSE)]
                ELSE CleanAll(Keep(p.cache, 1..p.size))
<1>1. DOMAIN p = PagerFields
  BY DEF Shape
<1>2. DOMAIN w \subseteq 1..MaxPage
  <2>1. 1 \in 1..MaxPage
    BY PagerAssumption
  <2>2. DOMAIN [n \in {1} |-> Entry(Zero, FALSE, FALSE)] = {1}
    OBVIOUS
  <2>3. DOMAIN CleanAll(Keep(p.cache, 1..p.size)) \subseteq DOMAIN p.cache
    BY DEF CleanAll, Keep
  <2> QED BY <2>1, <2>2, <2>3 DEF Shape
<1>3. q = [p EXCEPT !.sp = <<>>, !.sub = <<>>, !.inj = {}, !.nRec = 0, !.cache = w]
  BY DEF EndTransaction
<1> HIDE DEF w
<1>4. /\ DOMAIN q = PagerFields
      /\ q.sp = <<>> /\ q.sub = <<>> /\ q.inj = {} /\ q.cache = w
      /\ \A x \in PagerFields \ {"sp", "sub", "inj", "nRec", "cache"} : q[x] = p[x]
  BY <1>1, <1>3 DEF PagerFields
<1>5. Shape(q)
  BY <1>2, <1>4, NoSavepoints DEF Shape, PagerFields
<1> QED BY <1>4, <1>5

LEMMA DowngradedOK ==
  ASSUME NEW p, Shape(p), p.inj = {}, p.sp = <<>>, NEW q, q = Downgraded(p)
  PROVE  ConnOK(q, SHARED) /\ ~NeedsJournal(q)
<1> DEFINE f == Forget(p)
<1>1. DOMAIN p = PagerFields
  BY DEF Shape
<1>2. /\ DOMAIN f = PagerFields
      /\ f.orig = 0 /\ f.off = 0 /\ f.hdr = 0
      /\ \A x \in PagerFields \ {"orig", "fsize", "off", "hdr", "nRec", "left", "tgt"} : f[x] = p[x]
  BY <1>1, ForgetFields
<1>3. q = [f EXCEPT !.st = "READER", !.pc = "idle", !.ccd = FALSE]
  BY DEF Downgraded
<1> HIDE DEF f
<1>4. /\ DOMAIN q = PagerFields
      /\ q.st = "READER" /\ q.pc = "idle" /\ q.ccd = FALSE
      /\ q.orig = 0 /\ q.off = 0 /\ q.hdr = 0
      /\ q.size = p.size /\ q.cache = p.cache /\ q.inj = p.inj /\ q.sp = p.sp /\ q.sub = p.sub
  BY <1>2, <1>3 DEF PagerFields
<1>5. Shape(q)
  BY <1>4, PagerAssumption DEF Shape, States
<1>6. q.off <= MaxSlot /\ q.hdr <= MaxSlot
  BY <1>4, PagerAssumption
<1>7. SHARED \in NO_LOCK..EXCLUSIVE /\ SHARED >= SHARED
  BY DEF NO_LOCK, SHARED, EXCLUSIVE
<1> QED BY <1>4, <1>5, <1>6, <1>7, ReaderOK

LEMMA EndUnchangedStep == ASSUME Inv, NEW c \in Conn, EndUnchanged(c) PROVE Inv'
<1> DEFINE p == pgr[c]
           e == EndTransaction(p)
           q == Downgraded(e)
<1>1. /\ p.st = "LOCKED"
      /\ pgr' = [pgr EXCEPT ![c] = q]
      /\ lock' = [lock EXCEPT ![c] = SHARED]
      /\ file' = file /\ jrnl' = jrnl
  BY DEF EndUnchanged, Idle, Lock, Step
<1>2. Shape(p) /\ lock[c] >= RESERVED
  BY <1>1 DEF Inv, ConnOK, Content, Locked
<1>3. Shape(e) /\ e.inj = {} /\ e.sp = <<>>
  BY <1>2, EndFields
<1> HIDE DEF e
<1>4. ConnOK(q, SHARED) /\ ~NeedsJournal(q)
  BY <1>3, DowngradedOK
<1> HIDE DEF q
<1>5. JournalInv' /\ FileInv'
  BY <1>1, SameFiles, SameJournal
<1>6. lock[c] >= SHARED
  BY <1>2 DEF Inv, RESERVED, SHARED, NO_LOCK, EXCLUSIVE
<1> QED BY <1>1, <1>2, <1>4, <1>5, <1>6, DowngradeStep

LEMMA TrimAndUnlockStep == ASSUME Inv, NEW c \in Conn, TrimAndUnlock(c) PROVE Inv'
<1> DEFINE p == pgr[c]
           q == Downgraded(p)
<1>1. /\ p.pc = "trim"
      /\ pgr' = [pgr EXCEPT ![c] = q]
      /\ lock' = [lock EXCEPT ![c] = SHARED]
      /\ file' = file \/ file' = [file EXCEPT !.cur = Resize(@, p.size)]
      /\ jrnl' = jrnl
  BY DEF TrimAndUnlock, At, Lock, Step
<1>2. ConnOK(p, lock[c]) /\ Shape(p)
  BY DEF Inv, ConnOK, Content
<1>3. p.inj = {} /\ p.sp = <<>> /\ p.size \in 0..MaxPage
  BY <1>1, <1>2 DEF ConnOK, Clean, Shape
<1>4. p.st = "FINISHED"
  BY <1>1, <1>2 DEF ConnOK, Phase, Checks, Undo, Syncs
<1>5. lock[c] = EXCLUSIVE
  BY <1>2, <1>4 DEF ConnOK, Locked
<1>6. ConnOK(q, SHARED) /\ ~NeedsJournal(q)
  BY <1>2, <1>3, DowngradedOK
<1> HIDE DEF q
<1>7. JournalInv'
  BY <1>1, SameJournal
<1>8. FileInv'
  <2> DEFINE n == p.size
             t == Resize(file.cur, n)
  <2>1. n \in Nat /\ n <= MaxPage /\ IsList(file.cur)
    BY <1>3 DEF Inv, FileInv, DatabaseFile
  <2> HIDE DEF n
  <2>2. DatabaseFile(t)
    BY <2>1, ListResize DEF DatabaseFile
  <2> HIDE DEF t
  <2>3. file' = file \/ file' = [file EXCEPT !.cur = t]
    BY <1>1 DEF t, n
  <2> QED BY <2>2, <2>3 DEF Inv, FileInv
<1>9. lock[c] >= SHARED
  BY <1>5 DEF SHARED, EXCLUSIVE
<1> HIDE DEF p
<1> QED BY <1>1, <1>6, <1>7, <1>8, <1>9, DowngradeStep

\* The journal is deleted under a lock that keeps other writers out.
LEMMA DeleteStep ==
  ASSUME Inv, NEW c \in Conn, NEW q, ConnOK(q, lock[c]), ~NeedsJournal(q),
         lock[c] >= RESERVED,
         pgr' = [pgr EXCEPT ![c] = q],
         jrnl' = [jrnl EXCEPT !.cur = NoFile, !.new = FALSE],
         lock' = lock, file' = file
  PROVE  Inv'
<1>1. FileInv'
  BY SameFiles
<1>2. JournalInv'
  BY DEF Inv, JournalInv, JournalFile
<1> QED BY <1>1, <1>2, Stay

LEMMA EndedContent ==
  ASSUME NEW p, Content(p), NEW q, DOMAIN q = PagerFields, Shape(q),
         q.sp = <<>>, q.inj = {}, q.off = p.off, q.hdr = p.hdr
  PROVE  Content(q)
BY NoSavepoints DEF Content, InjOK, SavepointsBehind

LEMMA CommitPhaseTwoStep == ASSUME Inv, NEW c \in Conn, CommitPhaseTwo(c) PROVE Inv'
<1> DEFINE p == pgr[c]
           e == EndTransaction(p)
           q == Goto(e, "trim")
<1>1. /\ p.pc = "commit"
      /\ pgr' = [pgr EXCEPT ![c] = q]
      /\ jrnl' = [jrnl EXCEPT !.cur = NoFile, !.new = FALSE]
      /\ lock' = lock /\ file' = file
  BY DEF CommitPhaseTwo, At, Step
<1>2. ConnOK(p, lock[c]) /\ Content(p) /\ Shape(p)
  BY DEF Inv, ConnOK, Content
<1>3. p.st = "FINISHED"
  BY <1>1, <1>2 DEF ConnOK, Phase, Checks, Undo, Syncs
<1>4. lock[c] = EXCLUSIVE
  BY <1>2, <1>3 DEF ConnOK, Locked
<1>5. /\ DOMAIN e = PagerFields
      /\ e.sp = <<>> /\ e.inj = {}
      /\ \A x \in PagerFields \ {"sp", "sub", "inj", "nRec", "cache"} : e[x] = p[x]
      /\ Shape(e)
  BY <1>2, EndFields
<1> HIDE DEF e
<1>6. /\ DOMAIN q = PagerFields /\ q.pc = "trim"
      /\ \A x \in PagerFields \ {"pc"} : q[x] = e[x]
  BY <1>5, GotoFields
<1> HIDE DEF q
<1>7. /\ q.st = "FINISHED" /\ q.sp = <<>> /\ q.inj = {} /\ q.off = p.off /\ q.hdr = p.hdr
      /\ q.ccd = p.ccd
  BY <1>3, <1>5, <1>6 DEF PagerFields
<1>8. Shape(q)
  BY <1>5, <1>6 DEF Shape, PagerFields
<1>9. Content(q)
  BY <1>2, <1>6, <1>7, <1>8, EndedContent
<1>10. Phase(q) /\ Sizes(q) /\ Clean(q)
  BY <1>6, <1>7 DEF Phase, Sizes, Clean, Syncs
<1>11. Locked(q, lock[c])
  BY <1>2, <1>4, <1>6, <1>7 DEF Locked, Checks, Undo, NO_LOCK, SHARED, RESERVED, EXCLUSIVE
<1>12. ConnOK(q, lock[c])
  BY <1>9, <1>10, <1>11 DEF ConnOK
<1>13. ~NeedsJournal(q)
  BY <1>6, <1>7 DEF NeedsJournal, Undo
<1>14. lock[c] >= RESERVED
  BY <1>4 DEF RESERVED, EXCLUSIVE
<1> QED BY <1>1, <1>12, <1>13, <1>14, DeleteStep

LEMMA PlayDeleteStep == ASSUME Inv, NEW c \in Conn, PlayDelete(c) PROVE Inv'
<1> DEFINE p == pgr[c]
           e == EndTransaction(p)
           q == Goto(e, "unlock")
<1>1. /\ p.pc = "finish"
      /\ pgr' = [pgr EXCEPT ![c] = q]
      /\ jrnl' = [jrnl EXCEPT !.cur = NoFile, !.new = FALSE]
      /\ lock' = lock /\ file' = file
  BY DEF PlayDelete, At, Step
<1>2. ConnOK(p, lock[c]) /\ Content(p) /\ Shape(p)
  BY DEF Inv, ConnOK, Content
<1>3. p.st \in {"OPEN", "CACHEMOD", "DBMOD"}
  BY <1>1, <1>2 DEF ConnOK, Phase
<1>4. lock[c] >= RESERVED
  BY <1>1, <1>2, <1>3 DEF ConnOK, Locked, Undo, RESERVED, EXCLUSIVE
<1>5. /\ DOMAIN e = PagerFields
      /\ e.sp = <<>> /\ e.inj = {}
      /\ \A x \in PagerFields \ {"sp", "sub", "inj", "nRec", "cache"} : e[x] = p[x]
      /\ Shape(e)
  BY <1>2, EndFields
<1> HIDE DEF e
<1>6. /\ DOMAIN q = PagerFields /\ q.pc = "unlock"
      /\ \A x \in PagerFields \ {"pc"} : q[x] = e[x]
  BY <1>5, GotoFields
<1> HIDE DEF q
<1>7. /\ q.st = p.st /\ q.sp = <<>> /\ q.inj = {} /\ q.off = p.off /\ q.hdr = p.hdr
      /\ q.ccd = p.ccd
  BY <1>5, <1>6 DEF PagerFields
<1>8. Shape(q)
  BY <1>5, <1>6 DEF Shape, PagerFields
<1>9. Content(q)
  BY <1>2, <1>6, <1>7, <1>8, EndedContent
<1>10. Phase(q) /\ Sizes(q)
  BY <1>3, <1>6, <1>7 DEF Phase, Sizes, Undo, Syncs
<1>11. Clean(q)
  BY <1>2, <1>7 DEF ConnOK, Clean
<1>12. Locked(q, lock[c])
  BY <1>1, <1>2, <1>6, <1>7 DEF ConnOK, Locked, Checks, Undo
<1>13. ConnOK(q, lock[c])
  BY <1>9, <1>10, <1>11, <1>12 DEF ConnOK
<1>14. ~NeedsJournal(q)
  BY <1>6 DEF NeedsJournal, Undo
<1> QED BY <1>1, <1>4, <1>13, <1>14, DeleteStep

LEMMA PlayUnlockStep == ASSUME Inv, NEW c \in Conn, PlayUnlock(c) PROVE Inv'
<1> DEFINE p == pgr[c]
           f == Forget(p)
           g == Goto(f, "validate")
           q == IF IsHot(p) THEN g ELSE Downgraded(p)
<1>1. /\ p.pc = "unlock"
      /\ pgr' = [pgr EXCEPT ![c] = q]
      /\ lock' = [lock EXCEPT ![c] = SHARED]
      /\ file' = file /\ jrnl' = jrnl
  BY DEF PlayUnlock, At, Lock, Step
<1>2. ConnOK(p, lock[c]) /\ Content(p) /\ Shape(p) /\ DOMAIN p = PagerFields
  BY DEF Inv, ConnOK, Content, Shape
<1>3. /\ p.st \in {"OPEN", "CACHEMOD", "DBMOD"} /\ p.inj = {} /\ p.sp = <<>>
      /\ p.st = "OPEN" => ~p.ccd
  BY <1>1, <1>2 DEF ConnOK, Phase, Clean
<1>4. lock[c] >= SHARED
  BY <1>1, <1>2, <1>3 DEF ConnOK, Locked, Undo, RESERVED, SHARED, EXCLUSIVE, NO_LOCK
<1>5. ConnOK(q, SHARED) /\ ~NeedsJournal(q)
  <2>1. CASE ~IsHot(p)
    <3> DEFINE r == Downgraded(p)
    <3>1. ConnOK(r, SHARED) /\ ~NeedsJournal(r)
      BY <1>2, <1>3, DowngradedOK
    <3> QED BY <2>1, <3>1
  <2>2. CASE IsHot(p)
    <3>1. p.st = "OPEN" /\ q = g
      BY <2>2 DEF IsHot
    <3>2. /\ DOMAIN f = PagerFields
          /\ f.orig = 0 /\ f.off = 0 /\ f.hdr = 0
          /\ \A x \in PagerFields \ {"orig", "fsize", "off", "hdr", "nRec", "left", "tgt"} : f[x] = p[x]
      BY <1>2, ForgetFields
    <3> HIDE DEF f
    <3>3. /\ DOMAIN g = PagerFields /\ g.pc = "validate"
          /\ \A x \in PagerFields \ {"pc"} : g[x] = f[x]
      BY <3>2, GotoFields
    <3> HIDE DEF g, q
    <3>4. /\ g.st = "OPEN" /\ g.orig = 0 /\ g.off = 0 /\ g.hdr = 0
          /\ g.size = p.size /\ g.cache = p.cache /\ g.inj = {} /\ g.sp = <<>>
          /\ g.sub = p.sub /\ ~g.ccd
      BY <1>3, <3>1, <3>2, <3>3 DEF PagerFields
    <3>5. Shape(g)
      BY <1>2, <3>3, <3>4, NoSavepoints, PagerAssumption DEF Shape, States
    <3>6. Content(g)
      BY <3>4, <3>5, PagerAssumption DEF Content, IsWriter
    <3>7. Phase(g) /\ Sizes(g) /\ Clean(g) /\ ~NeedsJournal(g)
      BY <3>3, <3>4 DEF Phase, Sizes, Clean, NeedsJournal, Checks, Undo, Syncs
    <3>8. Locked(g, SHARED)
      BY <3>3, <3>4 DEF Locked, Undo, NO_LOCK, SHARED, EXCLUSIVE
    <3> QED BY <3>1, <3>6, <3>7, <3>8 DEF ConnOK
  <2> QED BY <2>1, <2>2
<1> HIDE DEF q
<1>6. JournalInv' /\ FileInv'
  BY <1>1, SameFiles, SameJournal
<1>7. jrnl'.cur = NoFile => jrnl.cur = NoFile \/ lock[c] >= RESERVED
  BY <1>1
<1> QED BY <1>1, <1>4, <1>5, <1>6, <1>7, DowngradeStep

-----------------------------------------------------------------------------
(* The commit: the journal is completed and synced, then the file is written. *)

LEMMA JournalCountStep ==
  ASSUME Inv, NEW c \in Conn, JournalCount(c), NoFileIsNoJournal PROVE Inv'
<1> DEFINE p == pgr[c]
           q == Goto(p, "sync2")
           i == p.hdr + 1
           h == Hdr(TRUE, p.nRec, p.orig)
           j == [jrnl.cur EXCEPT ![i] = h]
<1>1. /\ p.pc = "count"
      /\ pgr' = [pgr EXCEPT ![c] = q]
      /\ jrnl' = [jrnl EXCEPT !.cur = j]
      /\ lock' = lock /\ file' = file
  BY DEF JournalCount, At, Step
<1>2. ConnOK(p, lock[c]) /\ Shape(p) /\ DOMAIN p = PagerFields
  BY DEF Inv, ConnOK, Content, Shape
<1>3. p.st \in {"CACHEMOD", "DBMOD"} /\ lock[c] = EXCLUSIVE
  BY <1>1, <1>2 DEF ConnOK, Phase, Locked, Checks, Undo, Syncs
<1>4. /\ DOMAIN q = PagerFields /\ q.pc = "sync2"
      /\ \A y \in PagerFields \ {"pc"} : q[y] = p[y]
  BY <1>2, GotoFields
<1> HIDE DEF q
<1>5. q.st = p.st /\ q.tgt = p.tgt /\ p.tgt \in 0..MaxPage
  BY <1>1, <1>2, <1>4 DEF ConnOK, Sizes, Syncs, PagerFields
<1>6. Phase(q) /\ p.pc \notin Undo /\ q.pc \notin {"trim", "unlock"}
  BY <1>1, <1>3, <1>4, <1>5 DEF Phase, Syncs, Undo
<1>7. Locked(q, lock[c])
  BY <1>3, <1>4, <1>5 DEF Locked, Checks, NO_LOCK, SHARED, RESERVED, EXCLUSIVE
<1>8. ConnOK(q, lock[c])
  BY <1>2, <1>4, <1>5, <1>6, <1>7, Moved
<1>9. jrnl.cur # NoFile
  BY <1>1, <1>3 DEF Inv, NeedsJournal
<1>10. Journal(jrnl.cur) /\ Len(jrnl.cur) <= MaxSlot
  BY <1>9 DEF Inv, JournalInv, JournalFile
<1>11. SlotOK(h)
  BY <1>2, SlotsTyped DEF SlotTypes, Shape
<1> HIDE DEF i, h
<1>12. PICK n \in Nat : DOMAIN jrnl.cur = 1..n /\ jrnl.cur = [k \in 1..n |-> jrnl.cur[k]]
  BY <1>10 DEF Journal, IsList
<1>13. DOMAIN j = 1..n /\ j = [k \in 1..n |-> j[k]]
  BY <1>12
<1>14. \A k \in DOMAIN j : SlotOK(j[k])
  BY <1>10, <1>11, <1>12 DEF Journal
<1> HIDE DEF j
<1>15. Len(j) = Len(jrnl.cur)
  BY <1>12, <1>13, ListLen
<1>16. Journal(j) /\ Len(j) <= MaxSlot
  BY <1>10, <1>13, <1>14, <1>15 DEF Journal, IsList
<1>17. j # NoFile
  BY <1>16 DEF Journal, NoFileIsNoJournal
<1>18. JournalInv' /\ jrnl'.cur # NoFile
  BY <1>1, <1>16, <1>17 DEF Inv, JournalInv, JournalFile
<1>19. FileInv'
  BY <1>1, SameFiles
<1> QED BY <1>1, <1>8, <1>18, <1>19, Stay

LEMMA SyncJournalStep ==
  ASSUME Inv, NEW c \in Conn, SyncJournal(c), NoFileIsNoJournal PROVE Inv'
<1> DEFINE p == pgr[c]
           w == [n \in DOMAIN p.cache |-> [p.cache[n] EXCEPT !.ns = FALSE]]
           clear == [p EXCEPT !.hdr = p.off, !.st = "DBMOD", !.pc = "write", !.cache = w]
           again == [clear EXCEPT !.nRec = 0]
           r == [p |-> again, j |-> jrnl.cur]
           s == WriteJournalHdr(r)
<1>1. /\ p.pc = "sync2"
      /\ \/ jrnl' = JournalSynced /\ pgr' = [pgr EXCEPT ![c] = clear]
         \/ /\ Len(s.j) <= MaxSlot
            /\ jrnl' = [JournalSynced EXCEPT !.cur = s.j]
            /\ pgr' = [pgr EXCEPT ![c] = s.p]
      /\ lock' = lock /\ file' = file
  BY DEF SyncJournal, At, Step
<1>2. ConnOK(p, lock[c]) /\ Content(p) /\ Shape(p) /\ DOMAIN p = PagerFields
  BY DEF Inv, ConnOK, Content, Shape
<1>3. p.st \in {"CACHEMOD", "DBMOD"} /\ lock[c] = EXCLUSIVE
  BY <1>1, <1>2 DEF ConnOK, Phase, Locked, Checks, Undo, Syncs
<1>4. jrnl.cur # NoFile
  BY <1>1, <1>3 DEF Inv, NeedsJournal
<1>5. Journal(jrnl.cur) /\ Len(jrnl.cur) <= MaxSlot
  BY <1>4 DEF Inv, JournalInv, JournalFile
<1>6. p.off \in Nat /\ p.off <= MaxSlot /\ InjOK(p) /\ SavepointsBehind(p)
  BY <1>1, <1>2, <1>3 DEF Content, Shape, IsWriter, Undo
<1>7. FileInv'
  BY <1>1, SameFiles
<1>8. DOMAIN w = DOMAIN p.cache
  OBVIOUS
<1> HIDE DEF w
\* What both outcomes have in common.
<1>9. ASSUME NEW q, DOMAIN q = PagerFields, q.st = "DBMOD", q.pc = "write",
             q.hdr = p.off, q.off \in Nat, q.off <= MaxSlot, q.off >= p.off,
             DOMAIN q.cache = DOMAIN p.cache,
             \A x \in PagerFields \ {"st", "pc", "hdr", "off", "cache", "nRec"} : q[x] = p[x]
      PROVE  ConnOK(q, lock[c])
  <2>1. /\ q.size = p.size /\ q.orig = p.orig /\ q.inj = p.inj /\ q.sp = p.sp /\ q.sub = p.sub
        /\ q.ccd = p.ccd
    BY <1>9 DEF PagerFields
  <2>2. Shape(q)
    BY <1>2, <1>6, <1>9, <2>1 DEF Shape, States
  <2>3. InjOK(q)
    BY <1>6, <2>1 DEF InjOK
  <2>4. SavepointsBehind(q)
    <3>1. \A k \in DOMAIN p.sp : p.sp[k].iOffset \in Nat
      BY <1>2 DEF Shape, SavepointsOK
    <3> QED BY <1>6, <1>9, <2>1, <3>1 DEF SavepointsBehind
  <2>5. Content(q)
    BY <1>6, <1>9, <2>2, <2>3, <2>4 DEF Content
  <2>6. q.tgt \in 0..MaxPage
    BY <1>1, <1>2, <1>9 DEF ConnOK, Sizes, Syncs, PagerFields
  <2>7. Phase(q) /\ Sizes(q) /\ Clean(q)
    BY <1>9, <2>6 DEF Phase, Sizes, Clean, Syncs
  <2>8. Locked(q, lock[c])
    BY <1>3, <1>9 DEF Locked, Checks, NO_LOCK, SHARED, RESERVED, EXCLUSIVE
  <2> QED BY <2>5, <2>7, <2>8 DEF ConnOK
<1>10. /\ DOMAIN clear = PagerFields
       /\ clear.st = "DBMOD" /\ clear.pc = "write" /\ clear.hdr = p.off /\ clear.cache = w
       /\ \A x \in PagerFields \ {"st", "pc", "hdr", "cache"} : clear[x] = p[x]
  BY <1>2 DEF PagerFields
<1> HIDE DEF clear
<1>11. clear.off = p.off
  BY <1>10 DEF PagerFields
<1>12. CASE jrnl' = JournalSynced /\ pgr' = [pgr EXCEPT ![c] = clear]
  <2>1. ConnOK(clear, lock[c])
    BY <1>6, <1>8, <1>9, <1>10, <1>11
  <2>2. JournalInv' /\ jrnl'.cur = jrnl.cur
    BY <1>12 DEF JournalSynced, Inv, JournalInv
  <2> QED BY <1>1, <1>4, <1>7, <1>12, <2>1, <2>2, Stay
<1>13. CASE /\ Len(s.j) <= MaxSlot
            /\ jrnl' = [JournalSynced EXCEPT !.cur = s.j]
            /\ pgr' = [pgr EXCEPT ![c] = s.p]
  <2>1. /\ DOMAIN again = PagerFields
        /\ \A x \in PagerFields \ {"nRec"} : again[x] = clear[x]
    BY <1>10 DEF PagerFields
  <2> HIDE DEF again
  <2>2. /\ again.st = "DBMOD" /\ again.pc = "write" /\ again.cache = w /\ again.off = p.off
        /\ \A x \in PagerFields \ {"st", "pc", "hdr", "cache", "nRec"} : again[x] = p[x]
    BY <1>10, <1>11, <2>1 DEF PagerFields
  <2>3. Shape(again)
    <3>1. /\ again.size = p.size /\ again.orig = p.orig /\ again.sp = p.sp /\ again.sub = p.sub
          /\ again.hdr = p.off
      BY <1>10, <2>1, <2>2 DEF PagerFields
    <3> QED BY <1>2, <1>8, <2>1, <2>2, <3>1 DEF Shape, States
  <2>4. DOMAIN r = {"p", "j"} /\ r.p = again /\ r.j = jrnl.cur
    OBVIOUS
  <2> HIDE DEF r
  <2>5. /\ DOMAIN s = {"p", "j"}
        /\ DOMAIN s.p = PagerFields
        /\ s.p.hdr = p.off
        /\ s.p.off = p.off + 1
        /\ \A x \in PagerFields \ {"hdr", "off"} : s.p[x] = again[x]
        /\ Journal(s.j)
        /\ Len(s.j) >= p.off + 1
    <3>1. /\ DOMAIN s = {"p", "j"}
          /\ DOMAIN s.p = PagerFields
          /\ s.p.hdr = r.p.off
          /\ s.p.off = r.p.off + 1
          /\ \A x \in PagerFields \ {"hdr", "off"} : s.p[x] = r.p[x]
          /\ Journal(s.j)
          /\ Len(s.j) >= r.p.off + 1
      BY <1>5, <2>3, <2>4, WriteHdr
    <3> QED BY <2>2, <2>4, <3>1
  <2> DEFINE q == s.p
             j == s.j
  <2>6. /\ DOMAIN q = PagerFields /\ q.hdr = p.off /\ q.off = p.off + 1
        /\ \A x \in PagerFields \ {"hdr", "off"} : q[x] = again[x]
        /\ Journal(j) /\ Len(j) >= p.off + 1 /\ Len(j) <= MaxSlot
        /\ jrnl' = [JournalSynced EXCEPT !.cur = j]
        /\ pgr' = [pgr EXCEPT ![c] = q]
    BY <1>13, <2>5
  <2> HIDE DEF q, j, s
  <2>7. /\ q.st = "DBMOD" /\ q.pc = "write" /\ DOMAIN q.cache = DOMAIN p.cache
        /\ \A x \in PagerFields \ {"st", "pc", "hdr", "off", "cache", "nRec"} : q[x] = p[x]
    BY <1>8, <2>2, <2>6 DEF PagerFields
  <2>8. q.off \in Nat /\ q.off <= MaxSlot /\ q.off >= p.off
    <3>1. Len(j) \in Nat /\ MaxSlot \in Nat
      BY <2>6, ListType, PagerAssumption DEF Journal
    <3> QED BY <1>6, <2>6, <3>1
  <2>9. ConnOK(q, lock[c])
    BY <1>9, <2>6, <2>7, <2>8
  <2>10. j # NoFile
    BY <2>6 DEF Journal, NoFileIsNoJournal
  <2>11. JournalInv' /\ jrnl'.cur # NoFile
    BY <1>5, <2>6, <2>10 DEF JournalSynced, JournalInv, JournalFile
  <2> QED BY <1>1, <1>7, <2>6, <2>9, <2>11, Stay
<1> QED BY <1>1, <1>12, <1>13

\* A page is written to the file, or the last one has been.
LEMMA WriterCache ==
  ASSUME NEW p, ConnOK(p, EXCLUSIVE), p.st = "DBMOD", p.pc = "write", NEW q,
         DOMAIN q = PagerFields,
         DOMAIN q.cache \subseteq 1..MaxPage,
         \A x \in PagerFields \ {"pc", "cache", "vers", "fsize", "left", "tgt"} : q[x] = p[x],
         q.pc \in {"idle", "write", "dbsync"},
         q.tgt \in 0..MaxPage
  PROVE  ConnOK(q, EXCLUSIVE)
<1>1. \A x \in {"st", "size", "orig", "inj", "off", "hdr", "sp", "sub", "ccd"} : q[x] = p[x]
  BY DEF PagerFields
<1>2. Shape(q)
  BY <1>1 DEF ConnOK, Content, Shape
<1>3. Content(q)
  BY <1>1, <1>2 DEF ConnOK, Content, IsWriter, InjOK, SavepointsBehind, Undo
<1>4. Phase(q) /\ Sizes(q) /\ Clean(q)
  BY <1>1 DEF Phase, Sizes, Clean, Syncs
<1>5. Locked(q, EXCLUSIVE)
  BY <1>1 DEF Locked, Checks, NO_LOCK, SHARED, RESERVED, EXCLUSIVE
<1> QED BY <1>3, <1>4, <1>5 DEF ConnOK

LEMMA FilePut ==
  ASSUME NEW f, DatabaseFile(f), NEW n \in 1..MaxPage, NEW x
  PROVE  DatabaseFile(Put(f, n, x))
<1>1. IsList(f) /\ Len(f) <= MaxPage /\ n \in Nat \ {0} /\ n <= MaxPage
  BY DEF DatabaseFile
<1>2. IsList(Put(f, n, x)) /\ Len(Put(f, n, x)) \in {Len(f), n}
  BY <1>1, ListPut
<1> QED BY <1>1, <1>2 DEF DatabaseFile

LEMMA WritePageStep == ASSUME Inv, NEW c \in Conn, WritePage(c) PROVE Inv'
<1> DEFINE p == pgr[c]
           list == {n \in DOMAIN p.cache : n >= p.left /\ n <= p.size /\ p.cache[n].dirty}
           n == IF p.tgt # 0 THEN p.tgt ELSE Min(list)
           v == IF n = 1 THEN p.cache[1].d ELSE p.vers
           m == Max({p.fsize, n})
           wrote == [p EXCEPT !.vers = v, !.fsize = m]
           f == Put(file.cur, n, p.cache[n].d)
           done == [p EXCEPT !.cache = CleanAll(@), !.pc = "dbsync"]
           next == [wrote EXCEPT !.left = n + 1]
           a == [p.cache EXCEPT ![n].dirty = FALSE]
           b == Keep(p.cache, DOMAIN p.cache \ {n})
           spilled(w) == [wrote EXCEPT !.pc = "idle", !.tgt = 0, !.cache = w]
<1>1. /\ p.pc = "write"
      /\ \/ pgr' = [pgr EXCEPT ![c] = done] /\ file' = file
         \/ /\ p.tgt = 0 => list # {}
            /\ file' = [file EXCEPT !.cur = f]
            /\ \/ pgr' = [pgr EXCEPT ![c] = next]
               \/ pgr' = [pgr EXCEPT ![c] = spilled(a)]
               \/ pgr' = [pgr EXCEPT ![c] = spilled(b)]
      /\ lock' = lock /\ jrnl' = jrnl
  BY DEF WritePage, At, Step
<1> HIDE DEF list, n, v, m, wrote, f, done, next, a, b, spilled
<1>10. p.pc = "write" /\ lock' = lock /\ jrnl' = jrnl
  BY <1>1
<1>2. ConnOK(p, lock[c]) /\ DOMAIN p = PagerFields /\ DOMAIN p.cache \subseteq 1..MaxPage
  BY DEF Inv, ConnOK, Content, Shape
<1>3. p.st = "DBMOD" /\ lock[c] = EXCLUSIVE
  BY <1>10, <1>2 DEF ConnOK, Phase, Locked, Checks, Undo, Syncs
<1>4. p.tgt \in 0..MaxPage
  BY <1>10, <1>2 DEF ConnOK, Sizes
<1>5. jrnl'.cur # NoFile /\ jrnl.cur # NoFile
  BY <1>10, <1>3 DEF Inv, NeedsJournal
<1>6. JournalInv'
  BY <1>10, SameJournal
<1>7. ConnOK(p, EXCLUSIVE)
  BY <1>2, <1>3
<1>8. CASE pgr' = [pgr EXCEPT ![c] = done] /\ file' = file
  <2>1. /\ DOMAIN done = PagerFields /\ done.pc = "dbsync"
        /\ DOMAIN done.cache = DOMAIN p.cache
        /\ \A x \in PagerFields \ {"pc", "cache"} : done[x] = p[x]
    BY <1>2 DEF done, CleanAll, PagerFields
  <2>2. done.tgt \in 0..MaxPage
    BY <1>4, <2>1 DEF PagerFields
  <2>3. ConnOK(done, EXCLUSIVE)
    BY <1>2, <1>3, <1>7, <1>10, <2>1, <2>2, WriterCache
  <2>4. FileInv'
    BY <1>8, SameFiles
  <2> HIDE DEF p
  <2> QED BY <1>10, <1>3, <1>5, <1>6, <1>8, <2>3, <2>4, Stay
<1>9. CASE /\ p.tgt = 0 => list # {}
           /\ file' = [file EXCEPT !.cur = f]
           /\ \/ pgr' = [pgr EXCEPT ![c] = next]
              \/ pgr' = [pgr EXCEPT ![c] = spilled(a)]
              \/ pgr' = [pgr EXCEPT ![c] = spilled(b)]
  <2>1. n \in 1..MaxPage
    <3>1. CASE p.tgt # 0
      BY <1>4, <3>1 DEF n
    <3>2. CASE p.tgt = 0
      <4>1. list # {} /\ list \subseteq Nat /\ list \subseteq 1..MaxPage
        BY <1>2, <1>9, <3>2 DEF list
      <4>2. Min(list) \in list
        BY <4>1, MinOf
      <4> QED BY <3>2, <4>1, <4>2 DEF n
    <3> QED BY <3>1, <3>2
  <2>2. FileInv'
    <3>1. DatabaseFile(file.cur)
      BY DEF Inv, FileInv
    <3>2. DatabaseFile(f)
      BY <2>1, <3>1, FilePut DEF f
    <3> QED BY <1>9, <3>2 DEF Inv, FileInv
  <2>3. DOMAIN a = DOMAIN p.cache /\ DOMAIN b \subseteq DOMAIN p.cache
    BY DEF a, b, Keep
  <2>4. /\ DOMAIN wrote = PagerFields
        /\ \A x \in PagerFields \ {"vers", "fsize"} : wrote[x] = p[x]
    BY <1>2 DEF wrote, PagerFields
  <2>5. ConnOK(next, EXCLUSIVE)
    <3>1. /\ DOMAIN next = PagerFields
          /\ \A x \in PagerFields \ {"vers", "fsize", "left"} : next[x] = p[x]
          /\ next.pc = "write" /\ next.cache = p.cache /\ next.tgt = p.tgt
      BY <1>10, <2>4 DEF next, PagerFields
    <3> QED BY <1>10, <1>2, <1>3, <1>4, <1>7, <3>1, WriterCache
  <2>6. ASSUME NEW w \in {a, b}, NEW q, q = spilled(w) PROVE ConnOK(q, EXCLUSIVE)
    <3>1. /\ DOMAIN q = PagerFields
          /\ \A x \in PagerFields \ {"pc", "vers", "fsize", "tgt", "cache"} : q[x] = p[x]
          /\ q.pc = "idle" /\ q.cache = w /\ q.tgt = 0
      BY <2>4, <2>6 DEF spilled, PagerFields
    <3>2. DOMAIN q.cache \subseteq 1..MaxPage
      BY <1>2, <2>3, <3>1
    <3>3. 0 \in 0..MaxPage
      BY PagerAssumption
    <3> QED BY <1>10, <1>3, <1>7, <3>1, <3>2, <3>3, WriterCache
  <2>7. PICK q : ConnOK(q, EXCLUSIVE) /\ pgr' = [pgr EXCEPT ![c] = q]
    <3> DEFINE qa == spilled(a)
               qb == spilled(b)
    <3>1. ConnOK(qa, EXCLUSIVE) /\ ConnOK(qb, EXCLUSIVE)
      BY <2>6
    <3>2. \/ pgr' = [pgr EXCEPT ![c] = next]
          \/ pgr' = [pgr EXCEPT ![c] = qa]
          \/ pgr' = [pgr EXCEPT ![c] = qb]
      BY <1>9
    <3> HIDE DEF qa, qb
    <3> QED BY <2>5, <3>1, <3>2
  <2> HIDE DEF p
  <2> QED BY <1>10, <1>3, <1>5, <1>6, <2>2, <2>7, Stay
<1> QED BY <1>1, <1>8, <1>9

LEMMA SyncDatabaseStep == ASSUME Inv, NEW c \in Conn, SyncDatabase(c) PROVE Inv'
<1> DEFINE p == pgr[c]
           q == [p EXCEPT !.st = "FINISHED", !.pc = "commit"]
           f == IF p.size > p.fsize THEN Resize(file.cur, p.size) ELSE file.cur
<1>1. /\ p.pc = "dbsync"
      /\ pgr' = [pgr EXCEPT ![c] = q]
      /\ file' = [cur |-> f, dur |-> f]
      /\ lock' = lock /\ jrnl' = jrnl
  BY DEF SyncDatabase, At, Step
<1>2. ConnOK(p, lock[c]) /\ Shape(p) /\ Content(p) /\ DOMAIN p = PagerFields
  BY DEF Inv, ConnOK, Content, Shape
<1>3. p.st = "DBMOD" /\ lock[c] = EXCLUSIVE
  BY <1>1, <1>2 DEF ConnOK, Phase, Locked, Checks, Undo, Syncs
<1>4. /\ DOMAIN q = PagerFields /\ q.st = "FINISHED" /\ q.pc = "commit"
      /\ \A x \in DataFields : q[x] = p[x]
  BY <1>2 DEF PagerFields, DataFields
<1> HIDE DEF q
<1>5. Content(q)
  <2>1. q.st \in States /\ IsWriter(p) /\ p.pc \notin Undo
    BY <1>1, <1>3, <1>4 DEF States, IsWriter, Undo
  <2> QED BY <1>2, <1>4, <2>1, KeepContent
<1>6. Phase(q) /\ Sizes(q) /\ Clean(q)
  BY <1>4 DEF Phase, Sizes, Clean, Syncs
<1>7. Locked(q, lock[c])
  BY <1>3, <1>4 DEF Locked, Checks, NO_LOCK, SHARED, RESERVED, EXCLUSIVE
<1>8. ConnOK(q, lock[c])
  BY <1>5, <1>6, <1>7 DEF ConnOK
<1>9. FileInv'
  <2> DEFINE n == p.size
             t == Resize(file.cur, n)
  <2>1. n \in Nat /\ n <= MaxPage /\ DatabaseFile(file.cur) /\ IsList(file.cur)
    BY <1>2 DEF Inv, FileInv, DatabaseFile, Shape
  <2> HIDE DEF n
  <2>2. DatabaseFile(t)
    BY <2>1, ListResize DEF DatabaseFile
  <2>3. f \in {t, file.cur}
    BY DEF n
  <2> HIDE DEF t, f
  <2> QED BY <1>1, <2>1, <2>2, <2>3 DEF FileInv
<1>10. JournalInv' /\ jrnl'.cur = jrnl.cur /\ jrnl.cur # NoFile
  BY <1>1, <1>3, SameJournal DEF Inv, NeedsJournal
<1> QED BY <1>1, <1>8, <1>9, <1>10, Stay

-----------------------------------------------------------------------------
(* Faults.                                                                    *)

LEMMA ErrorOK ==
  ASSUME NEW q, DOMAIN q = PagerFields, q.st = "ERROR", q.pc = "idle",
         Shape(q), q.off <= MaxSlot, q.hdr <= MaxSlot,
         NEW l \in NO_LOCK..EXCLUSIVE, q.ccd => l >= RESERVED
  PROVE  ConnOK(q, l) /\ ~NeedsJournal(q)
<1>1. Content(q)
  BY DEF Content, IsWriter
<1>2. Phase(q) /\ Sizes(q) /\ Clean(q)
  BY DEF Phase, Sizes, Clean, Syncs
<1>3. Locked(q, l)
  BY DEF Locked, Checks, Undo
<1>4. ~NeedsJournal(q)
  BY DEF NeedsJournal, Undo
<1> QED BY <1>1, <1>2, <1>3, <1>4 DEF ConnOK

\* A pager that has forgotten what belonged to its transaction goes to ERROR.
LEMMA ForgottenError ==
  ASSUME NEW p, Shape(p), NEW cc \in {p.ccd, FALSE}, NEW q,
         q = [Forget(p) EXCEPT !.st = "ERROR", !.pc = "idle", !.ccd = cc],
         NEW l \in NO_LOCK..EXCLUSIVE, cc => l >= RESERVED
  PROVE  ConnOK(q, l) /\ ~NeedsJournal(q)
<1> DEFINE f == Forget(p)
<1>1. DOMAIN p = PagerFields
  BY DEF Shape
<1>2. /\ DOMAIN f = PagerFields
      /\ f.orig = 0 /\ f.off = 0 /\ f.hdr = 0
      /\ \A x \in PagerFields \ {"orig", "fsize", "off", "hdr", "nRec", "left", "tgt"} : f[x] = p[x]
  BY <1>1, ForgetFields
<1>3. q = [f EXCEPT !.st = "ERROR", !.pc = "idle", !.ccd = cc]
  OBVIOUS
<1> HIDE DEF f
<1>4. /\ DOMAIN q = PagerFields
      /\ q.st = "ERROR" /\ q.pc = "idle" /\ q.ccd = cc
      /\ q.orig = 0 /\ q.off = 0 /\ q.hdr = 0
      /\ q.size = p.size /\ q.cache = p.cache /\ q.sp = p.sp /\ q.sub = p.sub
  BY <1>2, <1>3 DEF PagerFields
<1>5. Shape(q)
  BY <1>4, PagerAssumption DEF Shape, States
<1>6. q.off <= MaxSlot /\ q.hdr <= MaxSlot
  BY <1>4, PagerAssumption
<1>7. q.ccd => l >= RESERVED
  BY <1>4
<1> QED BY <1>4, <1>5, <1>6, <1>7, ErrorOK

LEMMA IOErrorStep == ASSUME Inv, NEW c \in Conn, IOError(c) PROVE Inv'
<1> DEFINE p == pgr[c]
           e == EndTransaction(p)
           q1 == [Forget(p) EXCEPT !.st = "ERROR", !.pc = "idle"]
           q2 == [p EXCEPT !.pc = "play", !.off = 0, !.left = 0]
           q3 == [Forget(e) EXCEPT !.st = "ERROR", !.pc = "idle", !.ccd = FALSE]
           q4 == [Forget(p) EXCEPT !.st = "ERROR", !.pc = "idle", !.ccd = FALSE]
           r  == [p EXCEPT !.st = "ERROR"]
           q5 == PagerUnlock(r)
<1>1. /\ file' = file /\ jrnl' = jrnl
      /\ \/ Spilling(p) /\ pgr' = [pgr EXCEPT ![c] = q1] /\ lock' = lock
         \/ Committing(p) /\ pgr' = [pgr EXCEPT ![c] = q2] /\ lock' = lock
         \/ /\ p.pc \in {"commit", "finish"}
            /\ pgr' = [pgr EXCEPT ![c] = q3] /\ lock' = [lock EXCEPT ![c] = SHARED]
            /\ p.pc = "commit" \/ ~IsHot(p)
         \/ pgr' = [pgr EXCEPT ![c] = q4] /\ lock' = lock
         \/ pgr' = [pgr EXCEPT ![c] = q5] /\ lock' = [lock EXCEPT ![c] = NO_LOCK]
  BY DEF IOError, Step, Lock
<1>2. /\ ConnOK(p, lock[c]) /\ Content(p) /\ Shape(p) /\ DOMAIN p = PagerFields
      /\ lock[c] \in NO_LOCK..EXCLUSIVE
  BY DEF Inv, ConnOK, Content, Shape
<1>3. p.ccd => lock[c] >= RESERVED
  BY <1>2 DEF ConnOK, Locked
<1>4. DOMAIN Forget(p) = PagerFields /\ Forget(p).ccd = p.ccd
  BY <1>2, ForgetFields DEF PagerFields
<1>5. CASE Spilling(p) /\ pgr' = [pgr EXCEPT ![c] = q1] /\ lock' = lock
  <2>1. q1 = [Forget(p) EXCEPT !.st = "ERROR", !.pc = "idle", !.ccd = p.ccd]
    BY <1>4 DEF Forget
  <2>2. p.ccd \in {p.ccd, FALSE}
    OBVIOUS
  <2> HIDE DEF q1
  <2>3. ConnOK(q1, lock[c]) /\ ~NeedsJournal(q1)
    BY <1>2, <1>3, <2>1, <2>2, ForgottenError
  <2> QED BY <1>1, <1>5, <2>3, QuietStep
<1>6. CASE Committing(p) /\ pgr' = [pgr EXCEPT ![c] = q2] /\ lock' = lock
  <2>1. p.st \in {"CACHEMOD", "DBMOD"} /\ p.pc # "unlock"
    BY <1>2, <1>6 DEF Committing, ConnOK, Phase, Checks, Undo, Syncs
  <2>2. ConnOK(q2, lock[c]) /\ NeedsJournal(p)
    BY <1>2, <2>1, StartPlay
  <2> HIDE DEF q2
  <2> QED BY <1>1, <1>6, <2>2, QuietStep
<1>7. CASE /\ p.pc \in {"commit", "finish"}
           /\ pgr' = [pgr EXCEPT ![c] = q3] /\ lock' = [lock EXCEPT ![c] = SHARED]
           /\ p.pc = "commit" \/ ~IsHot(p)
  <2>1. Shape(e)
    BY <1>2, EndFields
  <2>2. SHARED \in NO_LOCK..EXCLUSIVE /\ FALSE \in {e.ccd, FALSE}
    BY DEF NO_LOCK, SHARED, EXCLUSIVE
  <2> HIDE DEF e
  <2>3. ConnOK(q3, SHARED) /\ ~NeedsJournal(q3)
    BY <2>1, <2>2, ForgottenError
  <2>4. lock[c] >= SHARED
    BY <1>2, <1>7 DEF ConnOK, Phase, Locked, Checks, Undo, Syncs, IsHot, SHARED, RESERVED, EXCLUSIVE
  <2>5. JournalInv' /\ FileInv'
    BY <1>1, SameFiles, SameJournal
  <2>6. jrnl'.cur = NoFile => jrnl.cur = NoFile \/ lock[c] >= RESERVED
    BY <1>1
  <2> HIDE DEF q3
  <2> QED BY <1>7, <2>3, <2>4, <2>5, <2>6, DowngradeStep
<1>8. CASE pgr' = [pgr EXCEPT ![c] = q4] /\ lock' = lock
  <2>1. FALSE \in {p.ccd, FALSE}
    OBVIOUS
  <2>2. ConnOK(q4, lock[c]) /\ ~NeedsJournal(q4)
    BY <1>2, <2>1, ForgottenError
  <2> HIDE DEF q4
  <2> QED BY <1>1, <1>8, <2>2, QuietStep
<1>9. CASE pgr' = [pgr EXCEPT ![c] = q5] /\ lock' = [lock EXCEPT ![c] = NO_LOCK]
  <2>1. Shape(r)
    BY <1>2 DEF Shape, States, PagerFields
  <2> HIDE DEF r
  <2>2. ConnOK(q5, NO_LOCK) /\ ~NeedsJournal(q5)
    BY <2>1, UnlockedOK
  <2> HIDE DEF q5
  <2> QED BY <1>1, <1>9, <2>2, LeaveStep
<1> QED BY <1>1, <1>5, <1>6, <1>7, <1>8, <1>9

-----------------------------------------------------------------------------
(* Playing the journal back.                                                  *)

LEMMA PlayOn ==
  ASSUME NEW p, NEW l, ConnOK(p, l), p.pc = "play", NEW q,
         DOMAIN q = PagerFields,
         \A x \in PagerFields \ {"pc", "off", "left", "size", "fsize", "cache", "vers", "ccd"} :
           q[x] = p[x],
         q.pc \in {"play", "resync"},
         q.off \in Nat, q.off <= MaxSlot,
         q.size \in 0..MaxPage,
         DOMAIN q.cache \subseteq 1..MaxPage,
         q.ccd => p.ccd
  PROVE  ConnOK(q, l) /\ NeedsJournal(p)
<1>1. \A x \in {"st", "orig", "inj", "hdr", "sp", "sub"} : q[x] = p[x]
  BY DEF PagerFields
<1>2. Shape(q)
  BY <1>1 DEF ConnOK, Content, Shape
<1>3. q.pc \in Undo /\ p.pc \in Undo \ {"unlock"}
      /\ q.pc \notin {"trim", "unlock", "write"} \cup Syncs
  BY DEF Undo, Syncs
<1>4. Content(q)
  BY <1>1, <1>2, <1>3 DEF ConnOK, Content, IsWriter, InjOK
<1>5. Phase(q)
  BY <1>1, <1>3 DEF ConnOK, Phase, Checks, Syncs
<1>6. Sizes(q) /\ Clean(q)
  BY <1>1, <1>3, <1>5 DEF ConnOK, Phase, Sizes, Clean, Checks
<1>7. Locked(q, l)
  BY <1>1, <1>3 DEF ConnOK, Locked, Checks, Undo
<1>8. NeedsJournal(p)
  BY <1>3 DEF NeedsJournal
<1> QED BY <1>4, <1>5, <1>6, <1>7, <1>8 DEF ConnOK

\* One step of pager_playback, whatever it does to the file.
LEMMA PlayedStep ==
  ASSUME Inv, NEW c \in Conn, NEW q, ConnOK(q, lock[c]), NeedsJournal(pgr[c]),
         pgr' = [pgr EXCEPT ![c] = q],
         NEW f, DatabaseFile(f),
         file' = file \/ file' = [file EXCEPT !.cur = f],
         lock' = lock, jrnl' = jrnl
  PROVE  Inv'
<1>1. JournalInv'
  BY SameJournal
<1>2. FileInv'
  BY DEF Inv, FileInv
<1>3. jrnl'.cur # NoFile
  BY DEF Inv
<1> QED BY <1>1, <1>2, <1>3, Stay

LEMMA PlayStep == ASSUME Inv, NEW c \in Conn, Play(c) PROVE Inv'
<1> DEFINE p    == pgr[c]
           k    == p.off + 1
           s    == jrnl.cur[k]
           last == s.nRec = 0 /\ ~IsHot(p) /\ p.off = p.hdr
           left == IF last THEN Len(jrnl.cur) - k ELSE s.nRec
           size == IF k = 1 THEN s.orig ELSE p.size
           fsize == IF k = 1 /\ ToFile(p) THEN s.orig ELSE p.fsize
           cache == IF IsHot(p) THEN NoPages ELSE p.cache
           head == [p EXCEPT !.off = k, !.left = left, !.size = size, !.fsize = fsize, !.cache = cache]
           body == [p EXCEPT !.off = k, !.left = @ - 1]
           fsz  == IF ToFile(p) /\ k <= p.hdr THEN Max({p.fsize, s.pg}) ELSE p.fsize
           over == IF Cached(p, s.pg) THEN WithPage(p.cache, s.pg, Entry(s.d, FALSE, FALSE)) ELSE p.cache
           vers == IF s.pg = 1 /\ Cached(p, 1) THEN s.d ELSE p.vers
           one  == [body EXCEPT !.fsize = fsz, !.cache = over, !.vers = vers]
           end  == [Goto(p, "resync") EXCEPT !.ccd = FALSE]
           cut  == Resize(file.cur, s.orig)
           wrote == Put(file.cur, s.pg, s.d)
           stop == k > Len(jrnl.cur) \/ (IF p.left = 0 THEN ~HdrValid(p) ELSE ~IsRec(s))
<1>1. /\ p.pc = "play"
      /\ \/ pgr' = [pgr EXCEPT ![c] = end] /\ file' = file
         \/ /\ ~(k > Len(jrnl.cur)) /\ p.left = 0 /\ HdrValid(p)
            /\ pgr' = [pgr EXCEPT ![c] = head]
            /\ file' = file \/ file' = [file EXCEPT !.cur = cut]
         \/ /\ ~(k > Len(jrnl.cur)) /\ IsRec(s)
            /\ pgr' = [pgr EXCEPT ![c] = body] /\ file' = file
         \/ /\ ~(k > Len(jrnl.cur)) /\ IsRec(s)
            /\ pgr' = [pgr EXCEPT ![c] = one]
            /\ file' = file \/ file' = [file EXCEPT !.cur = wrote]
      /\ lock' = lock /\ jrnl' = jrnl
  <2>1. CASE stop
    BY <2>1 DEF Play, At, Step
  <2>2. CASE ~stop /\ p.left = 0
    BY <2>2 DEF Play, At, Step
  <2>3. CASE ~stop /\ p.left # 0 /\ s.pg > p.size
    BY <2>3 DEF Play, At, Step
  <2>4. CASE ~stop /\ p.left # 0 /\ ~(s.pg > p.size)
    BY <2>4 DEF Play, At, Step
  <2> QED BY <2>1, <2>2, <2>3, <2>4
<1> HIDE DEF last, left, size, fsize, cache, head, body, fsz, over, vers, one, end, cut, wrote, stop
<1>2. p.pc = "play" /\ lock' = lock /\ jrnl' = jrnl
  BY <1>1
<1>3. ConnOK(p, lock[c]) /\ Shape(p) /\ Content(p) /\ DOMAIN p = PagerFields
  BY DEF Inv, ConnOK, Content, Shape
<1>4. /\ p.off \in Nat /\ p.off <= MaxSlot /\ p.size \in 0..MaxPage
      /\ DOMAIN p.cache \subseteq 1..MaxPage
  BY <1>3 DEF Content, Shape
<1>5. NeedsJournal(p)
  BY <1>2 DEF NeedsJournal, Undo
<1>6. Journal(jrnl.cur) /\ Len(jrnl.cur) <= MaxSlot
  BY <1>5 DEF Inv, JournalInv, JournalFile
<1>7. DOMAIN jrnl.cur = 1..Len(jrnl.cur) /\ Len(jrnl.cur) \in Nat
  BY <1>6, ListType DEF Journal
<1>8. DatabaseFile(file.cur)
  BY DEF Inv, FileInv
<1>9. ASSUME ~(k > Len(jrnl.cur)) PROVE SlotOK(s) /\ k \in Nat /\ k <= MaxSlot
  <2>1. k \in Nat /\ k >= 1
    BY <1>4
  <2>2. k \in DOMAIN jrnl.cur
    BY <1>7, <1>9, <2>1
  <2>3. SlotOK(s)
    BY <1>6, <2>2 DEF Journal
  <2>4. Len(jrnl.cur) <= MaxSlot /\ Len(jrnl.cur) \in Nat /\ MaxSlot \in Nat
    BY <1>6, <1>7, PagerAssumption
  <2> HIDE DEF k
  <2>5. k <= MaxSlot
    BY <1>9, <2>1, <2>4
  <2> QED BY <2>1, <2>3, <2>5
<1> HIDE DEF s
<1>10. CASE pgr' = [pgr EXCEPT ![c] = end] /\ file' = file
  <2>1. /\ DOMAIN end = PagerFields /\ end.pc = "resync" /\ end.ccd = FALSE
        /\ \A x \in PagerFields \ {"pc", "ccd"} : end[x] = p[x]
    BY <1>3 DEF end, Goto, PagerFields
  <2>2. end.off = p.off /\ end.size = p.size /\ end.cache = p.cache
    BY <2>1 DEF PagerFields
  <2>3. ConnOK(end, lock[c])
    BY <1>2, <1>3, <1>4, <2>1, <2>2, PlayOn
  <2> QED BY <1>2, <1>5, <1>8, <1>10, <2>3, PlayedStep
<1>11. CASE /\ ~(k > Len(jrnl.cur)) /\ p.left = 0 /\ HdrValid(p)
            /\ pgr' = [pgr EXCEPT ![c] = head]
            /\ file' = file \/ file' = [file EXCEPT !.cur = cut]
  <2>1. IsHdr(s)
    BY <1>11 DEF HdrValid, s
  <2>2. s.orig \in 0..MaxPage /\ k \in Nat /\ k <= MaxSlot
    BY <1>9, <1>11, <2>1 DEF SlotOK
  <2>3. size \in 0..MaxPage /\ DOMAIN cache \subseteq 1..MaxPage
    BY <1>4, <2>2 DEF size, cache, NoPages
  <2>4. /\ DOMAIN head = PagerFields
        /\ head.off = k /\ head.size = size /\ head.cache = cache
        /\ \A x \in PagerFields \ {"off", "left", "size", "fsize", "cache"} : head[x] = p[x]
    BY <1>3 DEF head, PagerFields
  <2>5. head.pc = "play" /\ (head.ccd => p.ccd)
    BY <1>2, <2>4 DEF PagerFields
  <2> HIDE DEF k
  <2>6. ConnOK(head, lock[c])
    BY <1>2, <1>3, <2>2, <2>3, <2>4, <2>5, PlayOn
  <2>7. DatabaseFile(cut)
    <3> DEFINE n == s.orig
    <3>1. n \in Nat /\ n <= MaxPage /\ IsList(file.cur)
      BY <1>8, <2>2 DEF DatabaseFile
    <3> HIDE DEF n
    <3>2. DatabaseFile(Resize(file.cur, n))
      BY <3>1, ListResize DEF DatabaseFile
    <3> QED BY <3>2 DEF cut, n
  <2> QED BY <1>2, <1>5, <1>11, <2>6, <2>7, PlayedStep
<1>12. CASE /\ ~(k > Len(jrnl.cur)) /\ IsRec(s)
            /\ pgr' = [pgr EXCEPT ![c] = body] /\ file' = file
  <2>1. /\ DOMAIN body = PagerFields /\ body.off = k
        /\ \A x \in PagerFields \ {"off", "left"} : body[x] = p[x]
    BY <1>3 DEF body, PagerFields
  <2>2. body.size = p.size /\ body.cache = p.cache /\ body.pc = "play" /\ (body.ccd => p.ccd)
    BY <1>2, <2>1 DEF PagerFields
  <2>3. k \in Nat /\ k <= MaxSlot
    BY <1>9, <1>12
  <2> HIDE DEF k
  <2>4. ConnOK(body, lock[c])
    BY <1>2, <1>3, <1>4, <2>1, <2>2, <2>3, PlayOn
  <2> QED BY <1>2, <1>5, <1>8, <1>12, <2>4, PlayedStep
<1>13. CASE /\ ~(k > Len(jrnl.cur)) /\ IsRec(s)
            /\ pgr' = [pgr EXCEPT ![c] = one]
            /\ file' = file \/ file' = [file EXCEPT !.cur = wrote]
  <2>1. s.pg \in 1..MaxPage /\ k \in Nat /\ k <= MaxSlot
    BY <1>9, <1>13 DEF SlotOK
  <2>2. DOMAIN over \subseteq 1..MaxPage
    BY <1>4 DEF over, WithPage, Cached
  <2>3. /\ DOMAIN one = PagerFields /\ one.off = k /\ one.cache = over
        /\ \A x \in PagerFields \ {"off", "left", "fsize", "cache", "vers"} : one[x] = p[x]
    BY <1>3 DEF one, body, PagerFields
  <2>4. one.size = p.size /\ one.pc = "play" /\ (one.ccd => p.ccd)
    BY <1>2, <2>3 DEF PagerFields
  <2> HIDE DEF k
  <2>5. ConnOK(one, lock[c])
    BY <1>2, <1>3, <1>4, <2>1, <2>2, <2>3, <2>4, PlayOn
  <2>6. DatabaseFile(wrote)
    <3> DEFINE n == s.pg
               x == s.d
    <3>1. n \in 1..MaxPage
      BY <2>1
    <3> HIDE DEF n, x
    <3>2. DatabaseFile(Put(file.cur, n, x))
      BY <1>8, <3>1, FilePut
    <3> QED BY <3>2 DEF wrote, n, x
  <2> QED BY <1>2, <1>5, <1>13, <2>5, <2>6, PlayedStep
<1> QED BY <1>1, <1>10, <1>11, <1>12, <1>13

-----------------------------------------------------------------------------
(* The calls that write to the journal.                                       *)

\* What Apply installs is a pager in the same phase whose journal is open.
LEMMA ApplyStep ==
  ASSUME Inv, NoFileIsNoJournal, NEW c \in Conn, pgr[c].st \in Writable, pgr[c].pc = "idle",
         NEW s, Working(s), Apply(c, s),
         s.p.st = IF pgr[c].st = "LOCKED" THEN "CACHEMOD" ELSE pgr[c].st,
         s.p.orig = pgr[c].orig, s.p.fsize = pgr[c].fsize,
         s.p.pc \in {"idle", "lock"},
         s.p.pc = "lock" => s.p.tgt \in 0..MaxPage
  PROVE  Inv'
<1> DEFINE p == pgr[c]
           q == s.p
           j == s.j
           blank == [i \in DOMAIN jrnl.dur |-> Junk]
           dur == IF p.st = "LOCKED" /\ ~jrnl.new /\ jrnl.dur # NoFile THEN blank ELSE jrnl.dur
<1>1. /\ pgr' = [pgr EXCEPT ![c] = q]
      /\ lock' = lock /\ file' = file
      /\ Len(j) <= MaxSlot
      /\ jrnl' = IF jrnl.cur = NoFile THEN [jrnl EXCEPT !.cur = j, !.new = TRUE]
                 ELSE [jrnl EXCEPT !.cur = j, !.dur = dur]
  BY DEF Apply, Fits, Step
<1>2. ConnOK(p, lock[c]) /\ lock[c] \in NO_LOCK..EXCLUSIVE
  BY DEF Inv
<1>3. /\ lock[c] >= RESERVED
      /\ q.st = "DBMOD" => lock[c] = EXCLUSIVE
      /\ q.st = "CACHEMOD" => q.fsize = q.orig
      /\ q.st \in {"CACHEMOD", "DBMOD"}
  BY <1>2 DEF ConnOK, Locked, Sizes, Writable, RESERVED, EXCLUSIVE, Undo
<1>4. Journal(j) /\ Shape(q) /\ SavepointsBehind(q) /\ InjOK(q)
  BY DEF Working
<1>5. q.off <= MaxSlot /\ q.hdr <= MaxSlot
  <2>1. (q.off <= MaxSlot \/ q.off <= Len(j)) /\ (q.hdr <= MaxSlot \/ q.hdr <= Len(j))
    BY DEF Working, Within
  <2>2. Len(j) \in Nat /\ q.off \in Nat /\ q.hdr \in Nat /\ MaxSlot \in Nat
    BY <1>4, ListType, PagerAssumption DEF Journal, Shape
  <2> QED BY <1>1, <2>1, <2>2
<1> HIDE DEF q, j
<1>6. Content(q)
  BY <1>4, <1>5 DEF Content
<1>7. Phase(q)
  BY <1>3 DEF Phase, Syncs, q
<1>8. Sizes(q)
  BY <1>3 DEF Sizes, Syncs, q
<1>9. Clean(q)
  BY <1>3 DEF Clean, q
<1>10. Locked(q, lock[c])
  BY <1>2, <1>3 DEF Locked, Checks, Undo, q, SHARED, RESERVED, EXCLUSIVE
<1>11. ConnOK(q, lock[c])
  BY <1>6, <1>7, <1>8, <1>9, <1>10 DEF ConnOK
<1>12. j # NoFile
  BY <1>4 DEF Journal, NoFileIsNoJournal
<1>13. JournalFile(j) /\ JournalFile(jrnl.cur) /\ JournalFile(jrnl.dur) /\ DOMAIN jrnl = {"cur", "dur", "new"}
  BY <1>1, <1>4 DEF Inv, JournalInv, JournalFile
<1>14. JournalFile(dur)
  <2>1. CASE jrnl.dur = NoFile
    BY <1>13, <2>1
  <2>2. CASE jrnl.dur # NoFile
    <3>1. IsList(jrnl.dur) /\ Len(jrnl.dur) <= MaxSlot
      BY <1>13, <2>2 DEF JournalFile, Journal
    <3>2. PICK n \in Nat : DOMAIN jrnl.dur = 1..n /\ jrnl.dur = [k \in 1..n |-> jrnl.dur[k]]
      BY <3>1 DEF IsList
    <3>3. DOMAIN blank = 1..n /\ blank = [k \in 1..n |-> blank[k]]
      BY <3>2
    <3>4. \A k \in DOMAIN blank : blank[k] = Junk
      OBVIOUS
    <3> HIDE DEF blank
    <3>5. Len(blank) = Len(jrnl.dur)
      BY <3>2, <3>3, ListLen
    <3>6. JournalFile(blank)
      BY <3>1, <3>3, <3>4, <3>5, SlotsTyped DEF JournalFile, Journal, IsList, SlotTypes
    <3> QED BY <1>13, <3>6
  <2> QED BY <2>1, <2>2
<1> HIDE DEF dur, blank
<1>15. JournalInv' /\ jrnl'.cur = j
  BY <1>1, <1>13, <1>14 DEF JournalInv
<1>16. FileInv'
  BY <1>1, SameFiles
<1> HIDE DEF p
<1> QED BY <1>1, <1>11, <1>12, <1>15, <1>16, Stay

LEMMA OpenedOK ==
  ASSUME Inv, NEW c \in Conn, pgr[c].st \in Writable, pgr[c].pc = "idle",
         NEW s, s = Opened(c)
  PROVE  /\ Opening(s) \/ Working(s)
         /\ s.p = pgr[c] /\ s.j = jrnl.cur
         /\ pgr[c].st # "LOCKED" => Working(s)
<1> DEFINE p == pgr[c]
<1>1. DOMAIN s = {"p", "j"} /\ s.p = p /\ s.j = jrnl.cur
  BY DEF Opened
<1>2. ConnOK(p, lock[c]) /\ Content(p) /\ Shape(p)
  BY DEF Inv, ConnOK, Content
<1>3. SavepointsBehind(p) /\ InjOK(p)
  BY <1>2, WriterBehind
<1>4. CASE p.st = "LOCKED"
  <2>1. p.off = 0
    BY <1>2, <1>4 DEF ConnOK, Sizes
  <2>2. jrnl.cur = NoFile \/ IsList(jrnl.cur)
    BY DEF Inv, JournalInv, JournalFile, Journal
  <2> HIDE DEF p
  <2> QED BY <1>1, <1>2, <1>3, <1>4, <2>1, <2>2 DEF Opening, p
<1>5. CASE p.st # "LOCKED"
  <2>1. p.st \in {"CACHEMOD", "DBMOD"}
    BY <1>5 DEF Writable
  <2>2. jrnl.cur # NoFile
    BY <2>1 DEF Inv, NeedsJournal
  <2>3. Journal(jrnl.cur)
    BY <2>2 DEF Inv, JournalInv, JournalFile
  <2>4. p.off <= MaxSlot /\ p.hdr <= MaxSlot
    BY <1>2 DEF Content
  <2> HIDE DEF p
  <2> QED BY <1>1, <1>2, <1>3, <2>1, <2>3, <2>4 DEF Working, Within, p
<1> QED BY <1>1, <1>4, <1>5

LEMMA WriteStep ==
  ASSUME Inv, NoFileIsNoJournal, NEW c \in Conn, NEW n \in 1..MaxPage, NEW d, Write(c, n, d)
  PROVE  Inv'
<1> DEFINE p == pgr[c]
           o == Opened(c)
           s == PagerWrite(o, n)
           t == [s EXCEPT !.p = SetData(@, n, d)]
<1>1. p.st \in Writable /\ p.pc = "idle" /\ Apply(c, t)
  BY DEF Write, Idle, At
<1>2. (Opening(o) \/ Working(o)) /\ o.p = p
  BY <1>1, OpenedOK
<1> HIDE DEF o
<1>3. /\ Working(s)
      /\ s.p.st = IF p.st = "LOCKED" THEN "CACHEMOD" ELSE p.st
      /\ SameControl(p, s.p)
  BY <1>2, PagerWriteType
<1> HIDE DEF s
<1>4. Working(t) /\ t.p.st = s.p.st /\ SameControl(s.p, t.p)
  BY <1>3, SetDataType
<1> HIDE DEF t
<1>5. t.p.orig = p.orig /\ t.p.fsize = p.fsize /\ t.p.pc = "idle"
  BY <1>1, <1>3, <1>4 DEF SameControl
<1> QED BY <1>1, <1>3, <1>4, <1>5, ApplyStep

LEMMA GrowStep ==
  ASSUME Inv, NoFileIsNoJournal, NEW c \in Conn, NEW d, Grow(c, d)
  PROVE  Inv'
<1> DEFINE p == pgr[c]
           o == Opened(c)
           n == Len(ViewImage(p)) + 1
           one == PagerWrite(o, 1)
           x == Page1(one.p.cache[1].d.ver, n)
           count == [one EXCEPT !.p = SetData(@, 1, x)]
           new == [count EXCEPT !.p = AcquireNoContent(@, n)]
           two == PagerWrite(new, n)
           t == [two EXCEPT !.p = SetData(@, n, d)]
<1>1. /\ p.st \in Writable /\ p.pc = "idle" /\ n \in 1..MaxPage
      /\ Apply(c, count) \/ Apply(c, t)
  BY DEF Grow, Idle, At
<1> HIDE DEF n
<1>2. (Opening(o) \/ Working(o)) /\ o.p = p
  BY <1>1, OpenedOK
<1>3. 1 \in 1..MaxPage
  BY PagerAssumption
<1> HIDE DEF o
<1>4. /\ Working(one)
      /\ one.p.st = IF p.st = "LOCKED" THEN "CACHEMOD" ELSE p.st
      /\ SameControl(p, one.p)
  BY <1>2, <1>3, PagerWriteType
<1> HIDE DEF x, one
<1>5. Working(count) /\ count.p.st = one.p.st /\ SameControl(one.p, count.p)
  BY <1>4, SetDataType
<1> HIDE DEF count
<1>6. Working(new) /\ new.p.st = count.p.st /\ SameControl(count.p, new.p)
  BY <1>1, <1>5, AcquireType
<1> HIDE DEF new
<1>7. /\ Working(two)
      /\ two.p.st = IF new.p.st = "LOCKED" THEN "CACHEMOD" ELSE new.p.st
      /\ SameControl(new.p, two.p)
  BY <1>1, <1>6, PagerWriteType
<1> HIDE DEF two
<1>8. Working(t) /\ t.p.st = two.p.st /\ SameControl(two.p, t.p)
  BY <1>7, SetDataType
<1> HIDE DEF t
<1>9. count.p.orig = p.orig /\ count.p.fsize = p.fsize /\ count.p.pc = "idle"
  BY <1>1, <1>4, <1>5 DEF SameControl
<1>10. t.p.orig = p.orig /\ t.p.fsize = p.fsize /\ t.p.pc = "idle"
  BY <1>6, <1>7, <1>8, <1>9 DEF SameControl
<1>11. t.p.st = IF p.st = "LOCKED" THEN "CACHEMOD" ELSE p.st
  BY <1>4, <1>5, <1>6, <1>7, <1>8 DEF Working
<1>12. CASE Apply(c, count)
  BY <1>1, <1>4, <1>5, <1>9, <1>12, ApplyStep
<1>13. CASE Apply(c, t)
  BY <1>1, <1>8, <1>10, <1>11, <1>13, ApplyStep
<1> QED BY <1>1, <1>12, <1>13

\* Page 1 gets its new content, or only the phase of the call changes.
LEMMA WorkingSame ==
  ASSUME NEW s, Working(s), NEW t,
         DOMAIN t = {"p", "j"}, DOMAIN t.p = PagerFields, t.j = s.j,
         DOMAIN t.p.cache = DOMAIN s.p.cache,
         \A x \in PagerFields \ {"cache", "pc", "ccd", "tgt", "left"} : t.p[x] = s.p[x]
  PROVE  Working(t) /\ t.p.st = s.p.st /\ t.p.orig = s.p.orig /\ t.p.fsize = s.p.fsize
<1>1. \A x \in {"st", "size", "orig", "fsize", "inj", "off", "hdr", "sp", "sub"} : t.p[x] = s.p[x]
  BY DEF PagerFields
<1>2. Shape(t.p)
  BY <1>1 DEF Working, Shape
<1>3. SavepointsBehind(t.p) /\ InjOK(t.p)
  BY <1>1 DEF Working, SavepointsBehind, InjOK
<1>4. Within(t.p.off, t) /\ Within(t.p.hdr, t)
  BY <1>1 DEF Working, Within
<1> QED BY <1>1, <1>2, <1>3, <1>4 DEF Working

LEMMA CommitPhaseOneStep ==
  ASSUME Inv, NoFileIsNoJournal, NEW c \in Conn, CommitPhaseOne(c)
  PROVE  Inv'
<1> DEFINE p == pgr[c]
           o == Opened(c)
           s == PagerWrite(o, 1)
           x == Page1(p.vers.ver + 1, s.p.cache[1].d.n)
           inc == [s EXCEPT !.p.cache[1].d = x, !.p.ccd = TRUE]
           res == IF p.ccd THEN o ELSE inc
           t == [res EXCEPT !.p.pc = "lock", !.p.tgt = 0, !.p.left = 1]
<1>1. p.st \in {"CACHEMOD", "DBMOD"} /\ p.pc = "idle" /\ Apply(c, t)
  BY DEF CommitPhaseOne, Idle, At
<1>2. Working(o) /\ o.p = p
  BY <1>1, OpenedOK DEF Writable
<1>3. 1 \in 1..MaxPage
  BY PagerAssumption
<1> HIDE DEF o
<1>4. Working(s) /\ s.p.st = p.st /\ SameControl(p, s.p)
  BY <1>1, <1>2, <1>3, PagerWriteType
<1> HIDE DEF s, x
<1>5. DOMAIN s = {"p", "j"} /\ DOMAIN s.p = PagerFields
  BY <1>4 DEF Working, Shape
<1>6. /\ DOMAIN inc = {"p", "j"} /\ DOMAIN inc.p = PagerFields /\ inc.j = s.j
      /\ DOMAIN inc.p.cache = DOMAIN s.p.cache
      /\ \A y \in PagerFields \ {"cache", "ccd"} : inc.p[y] = s.p[y]
  BY <1>5 DEF PagerFields
<1> HIDE DEF inc
<1>7. Working(inc) /\ inc.p.st = s.p.st /\ inc.p.orig = s.p.orig /\ inc.p.fsize = s.p.fsize
  BY <1>4, <1>6, WorkingSame
<1>8. Working(res) /\ res.p.st = p.st /\ res.p.orig = p.orig /\ res.p.fsize = p.fsize
  BY <1>2, <1>4, <1>7 DEF SameControl
<1> HIDE DEF res
<1>9. DOMAIN res = {"p", "j"} /\ DOMAIN res.p = PagerFields
  BY <1>8 DEF Working, Shape
<1>10. /\ DOMAIN t = {"p", "j"} /\ DOMAIN t.p = PagerFields /\ t.j = res.j
       /\ t.p.cache = res.p.cache /\ t.p.pc = "lock" /\ t.p.tgt = 0
       /\ \A y \in PagerFields \ {"pc", "tgt", "left"} : t.p[y] = res.p[y]
  BY <1>9 DEF PagerFields
<1> HIDE DEF t
<1>11. Working(t) /\ t.p.st = res.p.st /\ t.p.orig = res.p.orig /\ t.p.fsize = res.p.fsize
  BY <1>8, <1>10, WorkingSame
<1>12. 0 \in 0..MaxPage /\ p.st \in Writable /\ p.st # "LOCKED"
  BY <1>1, PagerAssumption DEF Writable
<1> QED BY <1>1, <1>8, <1>10, <1>11, <1>12, ApplyStep

-----------------------------------------------------------------------------
(* Rolling back to a savepoint.                                               *)

LEMMA PlaybackType ==
  ASSUME NEW p, DOMAIN p = PagerFields, DOMAIN p.cache \subseteq 1..MaxPage,
         NEW rec, DOMAIN rec \subseteq 1..MaxPage, NEW place,
         DatabaseFile(file.cur),
         NEW a, a = PlaybackPages(p, rec, place)
  PROVE  /\ DatabaseFile(a.f)
         /\ DOMAIN a.p = PagerFields
         /\ DOMAIN a.p.cache \subseteq 1..MaxPage
         /\ \A x \in PagerFields \ {"cache", "fsize", "vers"} : a.p[x] = p[x]
         /\ p.st # "DBMOD" /\ p.fsize \in Int => a.p.fsize = p.fsize
<1> DEFINE Synced(n)  == IF place[n] > 0 THEN place[n] <= p.hdr
                         ELSE ~Cached(p, n) \/ ~p.cache[n].ns
           written    == {n \in DOMAIN rec : p.st = "DBMOD" /\ Synced(n)}
           fetched    == {n \in DOMAIN rec : place[n] = 0 /\ n \notin written}
           clean(n)   == place[n] > 0 /\ place[n] <= p.hdr
           Back(n)    == IF Cached(p, n)
                         THEN Entry(rec[n], p.cache[n].dirty /\ ~clean(n), p.cache[n].ns /\ ~clean(n))
                         ELSE Entry(rec[n], TRUE, FALSE)
           m          == Max({Len(file.cur)} \union written)
           f          == [n \in 1..m |-> IF n \in written THEN rec[n]
                            ELSE IF n <= Len(file.cur) THEN file.cur[n] ELSE Junk]
           cache      == [n \in DOMAIN p.cache \union fetched |->
                            IF n \in DOMAIN rec THEN Back(n) ELSE p.cache[n]]
           fsize      == Max({p.fsize} \union written)
           vers       == IF 1 \in DOMAIN rec /\ Cached(p, 1) THEN rec[1] ELSE p.vers
           q          == [p EXCEPT !.cache = cache, !.fsize = fsize, !.vers = vers]
<1>1. a = [f |-> f, p |-> q]
  BY DEF PlaybackPages
<1>2. written \subseteq 1..MaxPage /\ fetched \subseteq 1..MaxPage
  OBVIOUS
<1>3. p.st # "DBMOD" => written = {}
  OBVIOUS
<1>4. DOMAIN cache = DOMAIN p.cache \union fetched
  OBVIOUS
<1> HIDE DEF Synced, written, fetched, clean, Back, cache, vers
<1>5. /\ DOMAIN q = PagerFields /\ q.cache = cache /\ q.fsize = fsize
      /\ \A x \in PagerFields \ {"cache", "fsize", "vers"} : q[x] = p[x]
  BY DEF PagerFields
<1> HIDE DEF q
<1>6. a.f = f /\ a.p = q
  BY <1>1
<1>7. m \in 0..MaxPage
  <2>1. Len(file.cur) \in 0..MaxPage /\ MaxPage \in Nat
    BY ListType, PagerAssumption DEF DatabaseFile
  <2> DEFINE S == {Len(file.cur)} \union written
  <2>2. \A x \in S : x \in 0..MaxPage
    <3>1. \A x \in written : x \in 0..MaxPage
      BY <1>2, <2>1
    <3> QED BY <2>1, <3>1
  <2>3. S # {}
    OBVIOUS
  <2> HIDE DEF S
  <2>4. Max(S) \in S
    BY <2>1, <2>2, <2>3, MaxOf
  <2> QED BY <2>2, <2>4 DEF S
<1>8. DatabaseFile(f)
  <2> HIDE DEF m
  <2>1. m \in Nat /\ m <= MaxPage
    BY <1>7
  <2>2. DOMAIN f = 1..m /\ f = [k \in 1..m |-> f[k]]
    OBVIOUS
  <2> HIDE DEF f
  <2>3. Len(f) = m
    BY <2>1, <2>2, ListLen
  <2> QED BY <2>1, <2>2, <2>3 DEF DatabaseFile, IsList
<1>9. ASSUME p.st # "DBMOD", p.fsize \in Int PROVE a.p.fsize = p.fsize
  <2>1. {p.fsize} \union written = {p.fsize}
    BY <1>3, <1>9
  <2>2. fsize = p.fsize
    BY <1>9, <2>1, MaxOne
  <2> QED BY <1>5, <1>6, <2>2
<1> QED BY <1>2, <1>4, <1>5, <1>6, <1>8, <1>9

LEMMA RollbackToStep ==
  ASSUME Inv, NEW c \in Conn, NEW i, RollbackTo(c, i)
  PROVE  Inv'
<1> DEFINE p     == pgr[c]
           size  == IF i = 0 THEN p.orig ELSE p.sp[i].nOrig
           sp    == SubSeq(p.sp, 1, i)
           back  == [p EXCEPT !.sp = sp, !.ccd = FALSE, !.size = size]
           main(n) == {k \in (IF i = 0 THEN 2 ELSE p.sp[i].iOffset + 1)..p.off :
                         IsRec(jrnl.cur[k]) /\ jrnl.cur[k].pg = n}
           subs(n) == {k \in 1..Len(p.sub) : i > 0 /\ k > p.sp[i].iSubRec /\ p.sub[k].pg = n}
           pages == {n \in 1..size : main(n) \union subs(n) # {}}
           place == [n \in pages |-> IF main(n) # {} THEN Min(main(n)) ELSE 0]
           rec   == [n \in pages |-> IF place[n] > 0 THEN jrnl.cur[place[n]].d
                                     ELSE p.sub[Min(subs(n))].d]
           all   == PlaybackPages(back, rec, place)
           none  == [p EXCEPT !.sp = sp]
<1>1. /\ p.st \in Writable /\ p.pc = "idle" /\ i \in 0..Len(p.sp)
      /\ lock' = lock /\ jrnl' = jrnl
      /\ IF p.st = "LOCKED" THEN pgr' = [pgr EXCEPT ![c] = none] /\ file' = file
         ELSE pgr' = [pgr EXCEPT ![c] = all.p] /\ file' = [file EXCEPT !.cur = all.f]
  BY DEF RollbackTo, Idle, At, Step
<1> HIDE DEF size, sp, back, main, subs, pages, place, rec, all, none
<1>0. p.st \in Writable /\ p.pc = "idle" /\ i \in 0..Len(p.sp) /\ lock' = lock /\ jrnl' = jrnl
  BY <1>1
<1>2. ConnOK(p, lock[c]) /\ Content(p) /\ Shape(p) /\ DOMAIN p = PagerFields
  BY DEF Inv, ConnOK, Content, Shape
<1>3. SavepointsBehind(p) /\ InjOK(p)
  BY <1>0, <1>2, WriterBehind
<1>4. DOMAIN p.sp = 1..Len(p.sp) /\ Len(p.sp) \in Nat
  BY <1>2, ListType DEF Shape, SavepointsOK
<1>5. i \in Nat /\ i <= Len(p.sp) /\ (i = 0 \/ i \in DOMAIN p.sp)
  BY <1>0, <1>4
<1>6. size \in 0..MaxPage
  BY <1>2, <1>5 DEF Shape, SavepointsOK, size
<1>7. DOMAIN rec \subseteq 1..MaxPage
  <2>1. DOMAIN rec = pages /\ pages \subseteq 1..size
    BY DEF rec, pages
  <2>2. 1..size \subseteq 1..MaxPage
    BY <1>6, PagerAssumption
  <2> QED BY <2>1, <2>2
<1>8. /\ SavepointsOK(sp)
      /\ DOMAIN sp \subseteq DOMAIN p.sp
      /\ \A k \in DOMAIN sp : sp[k] = p.sp[k]
  <2>1. sp = SubSeq(p.sp, 1, i) /\ i \in Int
    BY <1>5 DEF sp
  <2> HIDE DEF p
  <2> QED BY <1>2, <1>5, <2>1, SavepointsPrefix
<1>9. CASE p.st = "LOCKED"
  <2>1. /\ DOMAIN none = PagerFields /\ none.sp = sp
        /\ \A x \in PagerFields \ {"sp"} : none[x] = p[x]
    BY <1>2 DEF none, PagerFields
  <2>2. none.sub = p.sub /\ none.off = p.off
    BY <2>1 DEF PagerFields
  <2>3. SavepointsBehind(none) /\ SubOK(none.sub)
    BY <1>2, <1>3, <1>8, <2>1, <2>2 DEF SavepointsBehind, Shape
  <2>4. ConnOK(none, lock[c]) /\ (NeedsJournal(none) => NeedsJournal(p))
    BY <1>0, <1>2, <1>8, <2>1, <2>3, SavepointsChanged
  <2>5. pgr' = [pgr EXCEPT ![c] = none] /\ file' = file
    BY <1>1, <1>9
  <2> QED BY <1>0, <2>4, <2>5, QuietStep
<1>10. CASE p.st # "LOCKED"
  <2> DEFINE q == all.p
             f == all.f
  <2>1. /\ DOMAIN back = PagerFields /\ back.sp = sp /\ back.ccd = FALSE /\ back.size = size
        /\ \A x \in PagerFields \ {"sp", "ccd", "size"} : back[x] = p[x]
    BY <1>2 DEF back, PagerFields
  <2>2. back.st = p.st /\ back.fsize = p.fsize /\ DOMAIN back.cache \subseteq 1..MaxPage
    BY <1>2, <2>1 DEF PagerFields, Shape
  <2>3. DatabaseFile(file.cur)
    BY DEF Inv, FileInv
  <2>4. all = PlaybackPages(back, rec, place)
    BY DEF all
  <2>5. /\ DatabaseFile(f)
        /\ DOMAIN q = PagerFields
        /\ DOMAIN q.cache \subseteq 1..MaxPage
        /\ \A x \in PagerFields \ {"cache", "fsize", "vers"} : q[x] = back[x]
        /\ back.st # "DBMOD" /\ back.fsize \in Int => q.fsize = back.fsize
    BY <1>7, <2>1, <2>2, <2>3, <2>4, PlaybackType
  <2>6. pgr' = [pgr EXCEPT ![c] = q] /\ file' = [file EXCEPT !.cur = f]
    BY <1>1, <1>10
  <2> HIDE DEF q, f
  <2>7. /\ q.st = p.st /\ q.pc = "idle" /\ q.size = size /\ q.orig = p.orig /\ q.inj = p.inj
        /\ q.off = p.off /\ q.hdr = p.hdr /\ q.sp = sp /\ q.sub = p.sub /\ q.ccd = FALSE
    BY <1>0, <2>1, <2>5 DEF PagerFields
  <2>8. p.st \in {"CACHEMOD", "DBMOD"}
    BY <1>0, <1>10 DEF Writable
  <2>9. p.st = "CACHEMOD" => q.fsize = q.orig
    <3>1. p.st = "CACHEMOD" => p.fsize = p.orig /\ p.orig \in Int
      BY <1>0, <1>2 DEF ConnOK, Sizes, Shape, Undo
    <3> QED BY <2>2, <2>5, <2>7, <3>1
  <2>10. Shape(q)
    BY <1>2, <1>6, <1>8, <2>5, <2>7 DEF Shape
  <2>11. SavepointsBehind(q) /\ InjOK(q)
    BY <1>3, <1>8, <2>7 DEF SavepointsBehind, InjOK
  <2>12. Content(q)
    BY <1>2, <2>7, <2>10, <2>11 DEF Content
  <2>13. Phase(q) /\ Sizes(q) /\ Clean(q)
    BY <2>7, <2>8, <2>9 DEF Phase, Sizes, Clean, Syncs
  <2>14. Locked(q, lock[c])
    BY <1>0, <1>2, <2>7, <2>8 DEF ConnOK, Locked, Checks, Undo
  <2>15. ConnOK(q, lock[c])
    BY <2>12, <2>13, <2>14 DEF ConnOK
  <2>16. NeedsJournal(p)
    BY <1>0, <2>8 DEF NeedsJournal
  <2> QED BY <1>0, <2>5, <2>6, <2>15, <2>16, PlayedStep
<1> QED BY <1>9, <1>10

-----------------------------------------------------------------------------
(* Loss of power.  A journal that exists and whose directory entry is synced  *)
(* is one that the disk has some content of.                                  *)

Synced == jrnl.cur = NoFile \/ jrnl.new \/ jrnl.dur # NoFile

LEMMA TornSlots ==
  ASSUME NEW a, IsList(a), NEW b, IsList(b), NEW f \in Torn(a, b)
  PROVE  /\ IsList(f)
         /\ Len(f) <= Len(a) \/ Len(f) <= Len(b)
         /\ \A k \in DOMAIN f : \/ f[k] = Junk
                                \/ k \in DOMAIN a /\ f[k] = a[k]
                                \/ k \in DOMAIN b /\ f[k] = b[k]
<1> DEFINE Slot(s, i) == IF i \in DOMAIN s THEN s[i] ELSE Junk
           Differ(n)  == {i \in 1..n : Slot(a, i) # Slot(b, i)}
           lens       == Min({Len(a), Len(b)})..Max({Len(a), Len(b)})
           Mix(n, g)  == [i \in 1..n |-> IF i \notin Differ(n) \/ g[i] = 0 THEN Slot(a, i)
                                         ELSE IF g[i] = 1 THEN Slot(b, i) ELSE Junk]
<1>1. Torn(a, b) = UNION {{Mix(n, g) : g \in [Differ(n) -> 0..2]} : n \in lens}
  BY DEF Torn
<1> HIDE DEF Differ, lens
<1>2. PICK n \in lens : \E g \in [Differ(n) -> 0..2] : f = Mix(n, g)
  BY <1>1
<1>3. PICK g : f = Mix(n, g)
  BY <1>2
<1>4. n \in Nat /\ (n <= Len(a) \/ n <= Len(b))
  <2>1. Len(a) \in Nat /\ Len(b) \in Nat
    BY ListType
  <2>2. Len(a) \in Int /\ Len(b) \in Int
    BY <2>1
  <2>3. Min({Len(a), Len(b)}) \in {Len(a), Len(b)} /\ Max({Len(a), Len(b)}) \in {Len(a), Len(b)}
    BY <2>2, MinTwo, MaxTwo
  <2> QED BY <2>1, <2>3 DEF lens
<1>5. DOMAIN f = 1..n /\ f = [k \in 1..n |-> f[k]]
  BY <1>3
<1>6. IsList(f) /\ Len(f) = n
  BY <1>4, <1>5, ListLen DEF IsList
<1>7. \A k \in DOMAIN f : f[k] = Junk \/ f[k] = Slot(a, k) \/ f[k] = Slot(b, k)
  BY <1>3, <1>5
<1> QED BY <1>4, <1>6, <1>7

LEMMA TornDatabase ==
  ASSUME NEW a, DatabaseFile(a), NEW b, DatabaseFile(b), NEW f \in Torn(a, b)
  PROVE  DatabaseFile(f)
<1>1. IsList(a) /\ IsList(b) /\ Len(a) <= MaxPage /\ Len(b) <= MaxPage
  BY DEF DatabaseFile
<1>2. IsList(f) /\ (Len(f) <= Len(a) \/ Len(f) <= Len(b))
  BY <1>1, TornSlots
<1>3. Len(f) \in Nat /\ Len(a) \in Nat /\ Len(b) \in Nat /\ MaxPage \in Nat
  BY <1>1, <1>2, ListType, PagerAssumption
<1> QED BY <1>1, <1>2, <1>3 DEF DatabaseFile

LEMMA TornJournal ==
  ASSUME NEW a, Journal(a), Len(a) <= MaxSlot, NEW b, Journal(b), Len(b) <= MaxSlot,
         NEW f \in Torn(a, b)
  PROVE  JournalFile(f)
<1>1. IsList(a) /\ IsList(b)
  BY DEF Journal
<1>2. /\ IsList(f) /\ (Len(f) <= Len(a) \/ Len(f) <= Len(b))
      /\ \A k \in DOMAIN f : \/ f[k] = Junk
                             \/ k \in DOMAIN a /\ f[k] = a[k]
                             \/ k \in DOMAIN b /\ f[k] = b[k]
  BY <1>1, TornSlots
<1>3. Len(f) \in Nat /\ Len(a) \in Nat /\ Len(b) \in Nat /\ MaxSlot \in Nat
  BY <1>1, <1>2, ListType, PagerAssumption
<1>4. Len(f) <= MaxSlot
  BY <1>2, <1>3
<1>5. \A k \in DOMAIN f : SlotOK(f[k])
  BY <1>2, SlotsTyped DEF Journal, SlotTypes
<1> QED BY <1>2, <1>4, <1>5 DEF Journal, JournalFile

LEMMA JournalLost ==
  ASSUME Inv, Synced, NEW j \in JournalAfterLoss
  PROVE  JournalFile(j)
<1>1. JournalFile(jrnl.cur) /\ JournalFile(jrnl.dur) /\ JournalFile(NoFile)
  BY DEF Inv, JournalInv, JournalFile
<1>2. Journal(<<>>) /\ Len(<<>>) <= MaxSlot
  <2> DEFINE e == <<>>
  <2>1. DOMAIN e = 1..0 /\ e = [k \in 1..0 |-> e[k]]
    OBVIOUS
  <2>2. Len(e) = 0 /\ IsList(e)
    BY <2>1, ListLen DEF IsList
  <2>3. MaxSlot \in Nat
    BY PagerAssumption
  <2> QED BY <2>1, <2>2, <2>3 DEF Journal
<1>3. CASE jrnl.cur = NoFile \/ j \in {NoFile, jrnl.dur}
  BY <1>1, <1>3 DEF JournalAfterLoss
<1>4. CASE jrnl.cur # NoFile /\ j \notin {NoFile, jrnl.dur}
  <2>1. Journal(jrnl.cur) /\ Len(jrnl.cur) <= MaxSlot
    BY <1>1, <1>4 DEF JournalFile
  <2>2. CASE jrnl.new
    <3>1. j \in Torn(<<>>, jrnl.cur)
      BY <1>4, <2>2 DEF JournalAfterLoss
    <3> QED BY <1>2, <2>1, <3>1, TornJournal
  <2>3. CASE ~ jrnl.new
    <3>1. j \in Torn(jrnl.dur, jrnl.cur)
      BY <1>4, <2>3 DEF JournalAfterLoss
    <3>2. Journal(jrnl.dur) /\ Len(jrnl.dur) <= MaxSlot
      BY <1>1, <1>4, <2>3 DEF JournalFile, Synced
    <3> QED BY <2>1, <3>1, <3>2, TornJournal
  <2> QED BY <2>2, <2>3
<1> QED BY <1>3, <1>4

LEMMA PowerLossStep == ASSUME Inv, Synced, PowerLoss PROVE Inv' /\ Synced'
<1>1. PICK f \in Torn(file.dur, file.cur), j \in JournalAfterLoss :
        /\ file' = [cur |-> f, dur |-> f]
        /\ jrnl' = [cur |-> j, dur |-> j, new |-> FALSE]
  BY DEF PowerLoss
<1>2. lock' = [c \in Conn |-> NO_LOCK] /\ pgr' = [c \in Conn |-> NewPager]
  BY DEF PowerLoss
<1>3. DatabaseFile(f)
  BY TornDatabase DEF Inv, FileInv
<1>4. FileInv'
  BY <1>1, <1>3 DEF FileInv
<1>5. JournalFile(j)
  BY JournalLost
<1>6. JournalInv' /\ Synced'
  BY <1>1, <1>5 DEF JournalInv, Synced
<1>7. lock' \in [Conn -> NO_LOCK..EXCLUSIVE] /\ Exclusion'
  BY <1>2 DEF Exclusion, NO_LOCK, RESERVED, EXCLUSIVE
<1>8. \A c \in Conn : ConnOK(pgr'[c], lock'[c]) /\ ~NeedsJournal(pgr'[c])
  BY <1>2, NewPagerOK
<1>9. pgr' = [c \in Conn |-> pgr'[c]]
  BY <1>2
<1> QED BY <1>4, <1>6, <1>7, <1>8, <1>9 DEF Inv

LEMMA InitInv == Init => Inv /\ Synced
<1> SUFFICES ASSUME Init PROVE Inv /\ Synced
  OBVIOUS
<1>1. PICK n \in InitSizes : file = [cur |-> InitFile(n), dur |-> InitFile(n)]
  BY DEF Init
<1>2. n \in 0..MaxPage /\ n \in Nat /\ MaxPage \in Nat
  BY PagerAssumption
<1> DEFINE f == InitFile(n)
<1>3. DOMAIN f = 1..n /\ f = [k \in 1..n |-> f[k]]
  BY DEF InitFile
<1> HIDE DEF f
<1>4. DatabaseFile(f)
  BY <1>2, <1>3, ListLen DEF DatabaseFile, IsList
<1>5. FileInv
  BY <1>1, <1>4 DEF FileInv, f
<1>6. JournalInv /\ Synced
  BY DEF Init, JournalInv, JournalFile, Synced
<1>7. lock \in [Conn -> NO_LOCK..EXCLUSIVE] /\ Exclusion
  BY DEF Init, Exclusion, NO_LOCK, RESERVED, EXCLUSIVE
<1>8. \A c \in Conn : ConnOK(pgr[c], lock[c]) /\ ~NeedsJournal(pgr[c])
  BY NewPagerOK DEF Init
<1>9. pgr = [c \in Conn |-> pgr[c]]
  BY DEF Init
<1> QED BY <1>5, <1>6, <1>7, <1>8, <1>9 DEF Inv

LEMMA StutterStep == ASSUME Inv, Synced, UNCHANGED vars PROVE Inv' /\ Synced'
BY DEF vars, Inv, JournalInv, FileInv, Exclusion, Synced

\* The journal of a connection that needs it is not replaced by another one.
LEMMA SyncedKept ==
  ASSUME Inv, Synced, NEW j, NEW b,
         jrnl' = [jrnl EXCEPT !.cur = j, !.dur = b],
         jrnl.cur # NoFile, b = NoFile => jrnl.dur = NoFile
  PROVE  Synced'
<1>1. DOMAIN jrnl = {"cur", "dur", "new"}
  BY DEF Inv, JournalInv
<1> QED BY <1>1 DEF Synced

LEMMA ApplySynced ==
  ASSUME Inv, Synced, NoFileIsNoJournal, NEW c \in Conn, NEW s, Apply(c, s)
  PROVE  Synced'
<1> DEFINE blank == [i \in DOMAIN jrnl.dur |-> Junk]
           b == IF pgr[c].st = "LOCKED" /\ ~jrnl.new /\ jrnl.dur # NoFile THEN blank ELSE jrnl.dur
           j == s.j
<1>1. jrnl' = IF jrnl.cur = NoFile THEN [jrnl EXCEPT !.cur = j, !.new = TRUE]
              ELSE [jrnl EXCEPT !.cur = j, !.dur = b]
  BY DEF Apply
<1>2. DOMAIN jrnl = {"cur", "dur", "new"} /\ JournalFile(jrnl.dur)
  BY DEF Inv, JournalInv
<1>3. b = NoFile => jrnl.dur = NoFile
  <2>1. CASE jrnl.dur = NoFile
    BY <2>1
  <2>2. CASE jrnl.dur # NoFile
    <3>1. IsList(jrnl.dur)
      BY <1>2, <2>2 DEF JournalFile, Journal
    <3>2. IsList(blank)
      BY <3>1 DEF IsList
    <3>3. blank # NoFile
      BY <3>2 DEF NoFileIsNoJournal
    <3> HIDE DEF blank
    <3> QED BY <2>2, <3>3
  <2> QED BY <2>1, <2>2
<1> HIDE DEF b, j
<1>4. CASE jrnl.cur = NoFile
  BY <1>1, <1>2, <1>4 DEF Synced
<1>5. CASE jrnl.cur # NoFile
  BY <1>1, <1>3, <1>5, SyncedKept
<1> QED BY <1>4, <1>5

LEMMA WriteSynced ==
  ASSUME Inv, Synced, NoFileIsNoJournal, NEW c \in Conn,
         \/ \E n, d : Write(c, n, d)
         \/ \E d : Grow(c, d)
         \/ CommitPhaseOne(c)
  PROVE  Synced'
<1>1. \E s : Apply(c, s)
  <2>1. CASE \E n, d : Write(c, n, d)
    BY <2>1, Zenon DEF Write
  <2>2. CASE \E d : Grow(c, d)
    BY <2>2, Zenon DEF Grow
  <2>3. CASE CommitPhaseOne(c)
    BY <2>3, Zenon DEF CommitPhaseOne
  <2> QED BY <2>1, <2>2, <2>3
<1> QED BY <1>1, ApplySynced

\* The other steps that change the journal sync it or delete it, or fill in its
\* last header.
LEMMA DeleteSynced ==
  ASSUME Inv, jrnl' = [jrnl EXCEPT !.cur = NoFile, !.new = FALSE] PROVE Synced'
BY DEF Inv, JournalInv, Synced

LEMMA SyncSynced ==
  ASSUME NEW c \in Conn, Inv, Synced,
         \/ HotExclusive(c) \/ SyncJournalFirst(c) \/ JournalCount(c) \/ SyncJournal(c)
  PROVE  Synced'
<1>1. DOMAIN jrnl = {"cur", "dur", "new"}
  BY DEF Inv, JournalInv
<1>2. At(c, "sync1") \/ At(c, "count") \/ At(c, "sync2") => jrnl.cur # NoFile
  <2>1. ASSUME pgr[c].pc \in Syncs \ {"lock"} PROVE NeedsJournal(pgr[c])
    <3>1. Phase(pgr[c])
      BY DEF Inv, ConnOK
    <3> QED BY <2>1, <3>1 DEF Phase, NeedsJournal, Syncs, Undo, Checks
  <2> QED BY <2>1 DEF Inv, At, Syncs
<1>3. CASE HotExclusive(c)
  <2>1. \/ jrnl' = jrnl
        \/ jrnl.cur # NoFile /\ jrnl' = [cur |-> jrnl.cur, dur |-> jrnl.cur, new |-> FALSE]
    BY <1>3 DEF HotExclusive
  <2> QED BY <2>1 DEF Synced
<1>4. CASE SyncJournalFirst(c)
  <2>1. jrnl' = JournalSynced /\ jrnl.cur # NoFile
    BY <1>2, <1>4 DEF SyncJournalFirst
  <2> QED BY <2>1 DEF Synced, JournalSynced
<1>5. CASE JournalCount(c)
  <2>1. jrnl.cur # NoFile
    BY <1>2, <1>5 DEF JournalCount
  <2>2. jrnl'.new = jrnl.new /\ jrnl'.dur = jrnl.dur
    BY <1>1, <1>5 DEF JournalCount
  <2> QED BY <2>1, <2>2 DEF Synced
<1>6. CASE SyncJournal(c)
  <2>1. jrnl.cur # NoFile
    BY <1>2, <1>6 DEF SyncJournal
  <2>2. jrnl'.dur = jrnl.cur
    BY <1>6 DEF SyncJournal, JournalSynced
  <2> QED BY <2>1, <2>2 DEF Synced
<1> QED BY <1>3, <1>4, <1>5, <1>6

-----------------------------------------------------------------------------
(* The theorems.                                                              *)

LEMMA ReaderStep ==
  ASSUME Inv, NoFileIsNoJournal, NEW c \in Conn,
         \/ SharedLock(c) \/ HotExists(c) \/ HotReserved(c) \/ HotFirstByte(c)
         \/ HotEmpty(c) \/ HotExclusive(c) \/ Validate(c) \/ EndRead(c)
         \/ Begin(c) \/ OpenSavepoint(c) \/ Kill(c)
         \/ \E n \in 1..MaxPage : Read(c, n) \/ Stress(c, n)
         \/ \E n \in 1..MaxPage, d \in Data : Write(c, n, d)
         \/ \E d \in Data : Grow(c, d)
         \/ \E i \in 0..MaxSavepoint : ReleaseSavepoint(c, i) \/ RollbackTo(c, i)
  PROVE  Inv'
BY SharedLockStep, HotExistsStep, HotReservedStep, HotFirstByteStep, HotEmptyStep,
   HotExclusiveStep, ValidateStep, EndReadStep, BeginStep, OpenSavepointStep, KillStep,
   ReadStep, StressStep, WriteStep, GrowStep, ReleaseSavepointStep, RollbackToStep, Zenon

LEMMA EndStep ==
  ASSUME Inv, NoFileIsNoJournal, NEW c \in Conn,
         \/ CommitPhaseOne(c) \/ ExclusiveLock(c)
         \/ SyncJournalFirst(c) \/ JournalCount(c) \/ SyncJournal(c) \/ WritePage(c)
         \/ SyncDatabase(c) \/ CommitPhaseTwo(c) \/ TrimAndUnlock(c) \/ EndUnchanged(c)
         \/ Rollback(c) \/ Play(c) \/ PlaySync(c) \/ PlayDelete(c) \/ PlayUnlock(c)
         \/ IOError(c)
  PROVE  Inv'
BY CommitPhaseOneStep, ExclusiveLockStep, SyncJournalFirstStep, JournalCountStep,
   SyncJournalStep, WritePageStep, SyncDatabaseStep, CommitPhaseTwoStep,
   TrimAndUnlockStep, EndUnchangedStep, RollbackStep, PlayStep, PlaySyncStep,
   PlayDeleteStep, PlayUnlockStep, IOErrorStep, Zenon

LEMMA ConnSynced ==
  ASSUME Inv, Synced, NoFileIsNoJournal, NEW c \in Conn,
         \/ SharedLock(c) \/ HotExists(c) \/ HotReserved(c) \/ HotFirstByte(c)
         \/ HotEmpty(c) \/ HotExclusive(c) \/ Validate(c) \/ EndRead(c)
         \/ Begin(c) \/ OpenSavepoint(c) \/ CommitPhaseOne(c) \/ ExclusiveLock(c)
         \/ SyncJournalFirst(c) \/ JournalCount(c) \/ SyncJournal(c) \/ WritePage(c)
         \/ SyncDatabase(c) \/ CommitPhaseTwo(c) \/ TrimAndUnlock(c) \/ EndUnchanged(c)
         \/ Rollback(c) \/ Play(c) \/ PlaySync(c) \/ PlayDelete(c) \/ PlayUnlock(c)
         \/ IOError(c) \/ Kill(c)
         \/ \E n \in 1..MaxPage : Read(c, n) \/ Stress(c, n)
         \/ \E n \in 1..MaxPage, d \in Data : Write(c, n, d)
         \/ \E d \in Data : Grow(c, d)
         \/ \E i \in 0..MaxSavepoint : ReleaseSavepoint(c, i) \/ RollbackTo(c, i)
  PROVE  Synced'
<1>1. CASE HotExclusive(c) \/ SyncJournalFirst(c) \/ JournalCount(c) \/ SyncJournal(c)
  BY <1>1, SyncSynced
<1>2. CASE \/ \E n \in 1..MaxPage, d \in Data : Write(c, n, d)
           \/ \E d \in Data : Grow(c, d)
           \/ CommitPhaseOne(c)
  BY <1>2, WriteSynced, Zenon
<1>3. CASE HotEmpty(c) \/ CommitPhaseTwo(c) \/ PlayDelete(c)
  BY <1>3, DeleteSynced DEF HotEmpty, CommitPhaseTwo, PlayDelete
<1>4. CASE \/ SharedLock(c) \/ HotExists(c) \/ HotReserved(c) \/ HotFirstByte(c)
           \/ Validate(c) \/ EndRead(c) \/ Begin(c) \/ OpenSavepoint(c)
           \/ ExclusiveLock(c) \/ WritePage(c) \/ SyncDatabase(c)
           \/ TrimAndUnlock(c) \/ EndUnchanged(c) \/ Rollback(c) \/ Play(c)
           \/ PlaySync(c) \/ PlayUnlock(c) \/ IOError(c) \/ Kill(c)
           \/ \E n \in 1..MaxPage : Read(c, n) \/ Stress(c, n)
           \/ \E i \in 0..MaxSavepoint : ReleaseSavepoint(c, i) \/ RollbackTo(c, i)
  <2>1. jrnl' = jrnl
    BY <1>4, Zenon
       DEF SharedLock, HotExists, HotReserved, HotFirstByte, Validate, EndRead, Begin,
           OpenSavepoint, ExclusiveLock, WritePage, SyncDatabase, TrimAndUnlock,
           EndUnchanged, Rollback, Play, PlaySync, PlayUnlock, IOError, Kill, Read,
           Stress, ReleaseSavepoint, RollbackTo
  <2> QED BY <2>1 DEF Synced
<1> QED BY <1>1, <1>2, <1>3, <1>4, Zenon

LEMMA NextStep ==
  ASSUME NoFileIsNoJournal, Inv /\ Synced, [Next]_vars PROVE (Inv /\ Synced)'
<1>1. CASE PowerLoss
  BY <1>1, PowerLossStep
<1>2. CASE UNCHANGED vars
  BY <1>2, StutterStep
<1>3. CASE Next /\ ~PowerLoss
  <2>1. PICK c \in Conn :
       \/ SharedLock(c) \/ HotExists(c) \/ HotReserved(c) \/ HotFirstByte(c)
       \/ HotEmpty(c) \/ HotExclusive(c) \/ Validate(c) \/ EndRead(c)
       \/ Begin(c) \/ OpenSavepoint(c) \/ CommitPhaseOne(c) \/ ExclusiveLock(c)
       \/ SyncJournalFirst(c) \/ JournalCount(c) \/ SyncJournal(c) \/ WritePage(c)
       \/ SyncDatabase(c) \/ CommitPhaseTwo(c) \/ TrimAndUnlock(c) \/ EndUnchanged(c)
       \/ Rollback(c) \/ Play(c) \/ PlaySync(c) \/ PlayDelete(c) \/ PlayUnlock(c)
       \/ IOError(c) \/ Kill(c)
       \/ \E n \in 1..MaxPage : Read(c, n) \/ Stress(c, n)
       \/ \E n \in 1..MaxPage, d \in Data : Write(c, n, d)
       \/ \E d \in Data : Grow(c, d)
       \/ \E i \in 0..MaxSavepoint : ReleaseSavepoint(c, i) \/ RollbackTo(c, i)
    BY <1>3, Zenon DEF Next
  <2>2. Synced'
    BY <2>1, ConnSynced, Zenon
  <2>3. Inv'
    BY <2>1, ReaderStep, EndStep, Zenon
  <2> QED BY <2>2, <2>3
<1> QED BY <1>1, <1>2, <1>3

LEMMA Invariant == NoFileIsNoJournal => (Spec => [](Inv /\ Synced))
<1> SUFFICES ASSUME NoFileIsNoJournal PROVE Spec => [](Inv /\ Synced)
  OBVIOUS
<1>1. Init => Inv /\ Synced
  BY InitInv
<1>2. (Inv /\ Synced) /\ [Next]_vars => (Inv /\ Synced)'
  BY NextStep
<1> QED BY <1>1, <1>2, PTL DEF Spec

\* The state of a pager keeps its shape whatever the pages contain: the bits of
\* pInJournal are about pages of the original database, the offsets lie within
\* the journal, and a savepoint never refers to a later point of the journal or
\* of the sub-journal than a savepoint that was opened after it (sqlite3.c,
\* openSavepoint, sqlite3PagerSavepoint, pager_playback).
THEOREM TypeCorrect == NoFileIsNoJournal => (Spec => []TypeOK)
<1> SUFFICES ASSUME NoFileIsNoJournal PROVE Spec => []TypeOK
  OBVIOUS
<1>1. Spec => [](Inv /\ Synced)
  BY Invariant
<1>2. Inv /\ Synced => TypeOK
  BY InvGivesTypeOK
<1> QED BY <1>1, <1>2, PTL

\* Between two calls every state of every pager goes with its lock, its journal
\* and its sizes, as assert_pager_state claims: a writer that has changed pages
\* has a journal that no other connection has deleted, holds RESERVED at least,
\* and EXCLUSIVE once it has written to the file; after kills, failed I/O and
\* losses of power as well.
THEOREM PagerStateHolds == NoFileIsNoJournal => (Spec => []PagerState)
<1> SUFFICES ASSUME NoFileIsNoJournal PROVE Spec => []PagerState
  OBVIOUS
<1>1. Spec => [](Inv /\ Synced)
  BY Invariant
<1>2. Inv /\ Synced => PagerState
  BY InvGivesPagerState
<1> QED BY <1>1, <1>2, PTL

=============================================================================
