--------------------------- MODULE SessionProofs ---------------------------
(* Theorems about Session, for any number of sessions and connections, any   *)
(* nesting and any re-entrance.                                              *)
EXTENDS Session, QueueLemmas, FiniteSetTheorems, TLAPS

-----------------------------------------------------------------------------
(* The stacks of frames and of activations.                                  *)

LEMMA AppendFacts ==
  ASSUME NEW S, NEW q \in Seq(S), NEW e \in S
  PROVE  /\ Append(q, e) \in Seq(S) /\ Append(q, e) # <<>>
         /\ Len(q) \in Nat /\ Len(Append(q, e)) = Len(q) + 1
         /\ \A i \in 1 .. Len(q) : Append(q, e)[i] = q[i]
         /\ Append(q, e)[Len(q) + 1] = e /\ Last(Append(q, e)) = e
BY DEF Last

LEMMA FrontFacts ==
  ASSUME NEW S, NEW q \in Seq(S), q # <<>>
  PROVE  /\ Front(q) \in Seq(S) /\ Len(q) \in Nat /\ Len(q) > 0
         /\ Len(Front(q)) = Len(q) - 1
         /\ \A i \in 1 .. Len(q) - 1 : Front(q)[i] = q[i]
         /\ Last(q) = q[Len(q)] /\ Last(q) \in S
<1>1. Len(q) \in Nat /\ Len(q) > 0 /\ q[Len(q)] \in S
  OBVIOUS
<1>2. ASSUME NEW k \in Nat, k < Len(q)
      PROVE  /\ SubSeq(q, 1, k) \in Seq(S) /\ Len(SubSeq(q, 1, k)) = k
             /\ \A i \in 1 .. k : SubSeq(q, 1, k)[i] = q[i]
  <2>1. 1 \in 1 .. Len(q) + 1 /\ k \in 0 .. Len(q) /\ 1 <= k + 1
    BY <1>1, <1>2
  <2> QED BY <1>2, <2>1, SubSeqType
<1>3. Len(q) - 1 \in Nat /\ Len(q) - 1 < Len(q)
  BY <1>1
<1> QED BY <1>1, <1>2, <1>3 DEF Front, Last

LEMMA EmptyFacts ==
  ASSUME NEW S
  PROVE  /\ <<>> \in Seq(S) /\ Len(<<>>) = 0
         /\ \A q \in Seq(S) : Len(q) \in Nat /\ DOMAIN q = 1 .. Len(q)
                              /\ (q = <<>> <=> Len(q) = 0)
OBVIOUS

LEMMA EqualStacks ==
  ASSUME NEW S, NEW q \in Seq(S), NEW r \in Seq(S), Len(q) = Len(r),
         \A i \in 1 .. Len(q) : q[i] = r[i]
  PROVE  q = r
OBVIOUS

\* An activation with a use of the connection: a statement, or the begin of an
\* outermost transaction that is not on the stack yet.
Counting(a) == a.kind = "statement" \/ (a.kind = "onBegin" /\ a.base = 0)
Counted(cs) == {i \in DOMAIN cs : Counting(cs[i])}
One(b) == IF b THEN 1 ELSE 0
Uses(cs, d) == Cardinality(Counted(cs)) + One(d > 0)

\* One activation more counts or does not.
LEMMA CountedLast ==
  ASSUME NEW cs \in Seq(Activations), NEW ds \in Seq(Activations), Len(ds) = Len(cs) + 1,
         \A i \in 1 .. Len(cs) : ds[i] = cs[i]
  PROVE  Cardinality(Counted(ds)) = Cardinality(Counted(cs)) + One(Counting(ds[Len(ds)]))
<1>1. /\ Len(cs) \in Nat /\ DOMAIN cs = 1 .. Len(cs) /\ DOMAIN ds = 1 .. Len(cs) + 1
      /\ Len(cs) + 1 \notin Counted(cs)
  BY EmptyFacts DEF Counted
<1>2. IsFiniteSet(Counted(cs))
  <2>1. 1 \in Int /\ Len(cs) \in Int /\ Counted(cs) \subseteq 1 .. Len(cs)
    BY <1>1 DEF Counted
  <2>2. IsFiniteSet(1 .. Len(cs))
    BY <2>1, FS_Interval
  <2> QED BY <2>1, <2>2, FS_Subset
<1>3. CASE Counting(ds[Len(ds)])
  <2>1. Counted(ds) = Counted(cs) \cup {Len(cs) + 1}
    BY <1>1, <1>3 DEF Counted
  <2> QED BY <1>1, <1>2, <1>3, <2>1, FS_AddElement DEF One
<1>4. CASE ~Counting(ds[Len(ds)])
  <2>1. Counted(ds) = Counted(cs)
    BY <1>1, <1>4 DEF Counted
  <2> QED BY <1>2, <1>4, <2>1, FS_CardinalityType DEF One
<1> QED BY <1>3, <1>4

LEMMA CountedFacts ==
  ASSUME NEW cs \in Seq(Activations)
  PROVE  /\ Cardinality(Counted(cs)) \in Nat /\ Cardinality(Counted(cs)) <= Len(cs)
         /\ \A i \in DOMAIN cs : Counting(cs[i]) => Cardinality(Counted(cs)) > 0
         /\ cs = <<>> => Cardinality(Counted(cs)) = 0
         /\ \A a \in Activations :
              Cardinality(Counted(Append(cs, a))) = Cardinality(Counted(cs)) + One(Counting(a))
         /\ cs # <<>> =>
              /\ Cardinality(Counted(cs)) = Cardinality(Counted(Front(cs))) + One(Counting(Last(cs)))
              /\ Cardinality(Counted(Front(cs))) <= Len(cs) - 1
              /\ Cardinality(Counted(Front(cs))) \in Nat
<1>1. ASSUME NEW ds \in Seq(Activations)
      PROVE  /\ IsFiniteSet(Counted(ds)) /\ Cardinality(Counted(ds)) \in Nat
             /\ Cardinality(Counted(ds)) <= Len(ds)
  <2>1. /\ Len(ds) \in Nat /\ DOMAIN ds = 1 .. Len(ds) /\ Counted(ds) \subseteq 1 .. Len(ds)
    BY EmptyFacts DEF Counted
  <2>2. IsFiniteSet(1 .. Len(ds)) /\ Cardinality(1 .. Len(ds)) = Len(ds)
    <3>1. 1 \in Int /\ Len(ds) \in Int
      BY <2>1
    <3>2. /\ IsFiniteSet(1 .. Len(ds))
          /\ Cardinality(1 .. Len(ds)) = IF 1 > Len(ds) THEN 0 ELSE Len(ds) - 1 + 1
      BY <3>1, FS_Interval
    <3> QED BY <2>1, <3>2
  <2>3. Counted(ds) \in SUBSET (1 .. Len(ds))
    BY <2>1
  <2>4. IsFiniteSet(Counted(ds)) /\ Cardinality(Counted(ds)) <= Len(ds)
    BY <2>2, <2>3, FS_Subset
  <2> QED BY <2>4, FS_CardinalityType
<1>2. \A i \in DOMAIN cs : Counting(cs[i]) => Cardinality(Counted(cs)) > 0
  BY <1>1, FS_EmptySet DEF Counted
<1>3. cs = <<>> => Cardinality(Counted(cs)) = 0
  BY FS_EmptySet DEF Counted
<1>4. ASSUME NEW a \in Activations
      PROVE  Cardinality(Counted(Append(cs, a))) = Cardinality(Counted(cs)) + One(Counting(a))
  <2>1. /\ Append(cs, a) \in Seq(Activations) /\ Len(Append(cs, a)) = Len(cs) + 1
        /\ \A i \in 1 .. Len(cs) : Append(cs, a)[i] = cs[i]
        /\ Append(cs, a)[Len(Append(cs, a))] = a
    BY <1>4, AppendFacts
  <2> HIDE DEF Counted, Counting
  <2> QED BY <2>1, CountedLast
<1>5. ASSUME cs # <<>>
      PROVE  /\ Cardinality(Counted(cs)) = Cardinality(Counted(Front(cs))) + One(Counting(Last(cs)))
             /\ Cardinality(Counted(Front(cs))) <= Len(cs) - 1
             /\ Cardinality(Counted(Front(cs))) \in Nat
  <2>1. /\ Front(cs) \in Seq(Activations) /\ Len(cs) = Len(Front(cs)) + 1 /\ Len(cs) \in Nat
        /\ Len(Front(cs)) = Len(cs) - 1
        /\ \A i \in 1 .. Len(Front(cs)) : cs[i] = Front(cs)[i]
        /\ Last(cs) = cs[Len(cs)]
    BY <1>5, FrontFacts
  <2>2. Cardinality(Counted(cs)) = Cardinality(Counted(Front(cs))) + One(Counting(Last(cs)))
    BY <2>1, CountedLast
  <2> QED BY <1>1, <2>1, <2>2
<1> QED BY <1>1, <1>2, <1>3, <1>4, <1>5

-----------------------------------------------------------------------------
(* The inductive invariant.                                                  *)

\* Where activations may stand on a stack: an activation's base is its depth when it
\* began, those of its callers are not higher, and what ends a transaction has one.
CallsOK(cs, d) ==
  \A i \in DOMAIN cs : LET a == cs[i] IN
    /\ a.base <= d
    /\ \A j \in 1 .. i - 1 : cs[j].base <= a.base
    /\ a.kind \in {"onEnd", "commit"} => a.base > 0 /\ \A j \in 1 .. i - 1 : cs[j].base < a.base
    /\ a.kind \in {"sleep", "commit"} => i = Len(cs) /\ a.base = d
    /\ a.kind = "onBegin" => a.base < MaxDepth
    /\ a.kind = "sleep" => d = 0 /\ 0 < MaxDepth

\* A yield may exceed MaxCalls by its sleep; nothing but the listener follows.
LongOK(cs, d, open) ==
  /\ Len(cs) <= MaxCalls + 1
  /\ Len(cs) > MaxCalls =>
       d = 0 /\ (Last(cs).kind = "sleep" \/ (Last(cs).kind = "onBegin" /\ open))

\* The use count is exact, and the session has a connection while it is positive.
ConnectionInv(s) ==
  /\ mConnectionUseCount[s] = Uses(calls[s], Depth(s))
  /\ \A c \in Conn : owner[c] = s <=> mConnection[s] = c
  /\ mConnection[s] # NoConn <=> mConnectionUseCount[s] > 0

SessionInv(s) ==
  /\ ConnectionInv(s)
  /\ CallsOK(calls[s], Depth(s))
  /\ LongOK(calls[s], Depth(s), native[mConnection[s]].open)

IInv == TypeOK /\ \A s \in Session : SessionInv(s)

-----------------------------------------------------------------------------
(* Stacks of activations.                                                    *)

Base(cs) == IF cs = <<>> THEN 0 ELSE Last(cs).base

\* A stack on which client code runs or a call continues.
Steady(cs, d) ==
  /\ cs \in Seq(Activations)
  /\ CallsOK(cs, d)
  /\ \A i \in DOMAIN cs : cs[i].kind \notin {"sleep", "commit"}

LEMMA ActivationTypes ==
  ASSUME NEW a \in Activations
  PROVE  /\ a.kind \in Kinds /\ a.base \in 0 .. MaxDepth /\ a.base \in Nat /\ MaxDepth \in Nat
         /\ a.listener \in BOOLEAN /\ a.successful \in BOOLEAN /\ a.yielding \in BOOLEAN
BY SessionAssumption DEF Activations

\* The highest base is that of the last activation.
LEMMA BaseFacts ==
  ASSUME NEW cs \in Seq(Activations), NEW d \in Nat, CallsOK(cs, d)
  PROVE  /\ Base(cs) \in Nat /\ Base(cs) <= d
         /\ \A i \in DOMAIN cs : cs[i].base \in Nat /\ cs[i].base <= Base(cs)
<1>1. Len(cs) \in Nat /\ DOMAIN cs = 1 .. Len(cs) /\ (cs = <<>> <=> Len(cs) = 0)
      /\ \A i \in DOMAIN cs : cs[i] \in Activations
  BY EmptyFacts
<1>2. \A i \in DOMAIN cs : cs[i].base \in Nat
  BY <1>1, ActivationTypes
<1>3. CASE cs = <<>>
  BY <1>1, <1>3 DEF Base
<1>4. CASE cs # <<>>
  <2>1. Len(cs) \in DOMAIN cs /\ Base(cs) = cs[Len(cs)].base
    BY <1>1, <1>4 DEF Base, Last
  <2>2. \A i \in DOMAIN cs : i # Len(cs) => i \in 1 .. Len(cs) - 1
    BY <1>1
  <2> QED BY <1>2, <2>1, <2>2 DEF CallsOK
<1> QED BY <1>3, <1>4

\* Client code is running.
LEMMA RunningSteady ==
  ASSUME NEW cs \in Seq(Activations), NEW d \in Nat, CallsOK(cs, d),
         cs # <<>> => Last(cs).kind \notin {"sleep", "commit"}
  PROVE  Steady(cs, d)
<1>1. Len(cs) \in Nat /\ DOMAIN cs = 1 .. Len(cs) /\ (cs = <<>> <=> Len(cs) = 0)
  BY EmptyFacts
<1>2. ASSUME NEW i \in DOMAIN cs, cs[i].kind \in {"sleep", "commit"}
      PROVE  FALSE
  <2>1. i = Len(cs) /\ cs # <<>>
    BY <1>1, <1>2 DEF CallsOK
  <2> QED BY <1>2, <2>1 DEF Last
<1> QED BY <1>2 DEF Steady

\* An activation returns.
LEMMA FrontSteady ==
  ASSUME NEW cs \in Seq(Activations), NEW d \in Nat, CallsOK(cs, d), cs # <<>>
  PROVE  /\ Steady(Front(cs), d) /\ Base(Front(cs)) <= Last(cs).base
         /\ Last(cs).kind \in {"onEnd", "commit"} => Base(Front(cs)) < Last(cs).base
<1> DEFINE fs == Front(cs)  n == Len(cs)
<1>1. /\ fs \in Seq(Activations) /\ n \in Nat /\ n > 0 /\ Len(fs) = n - 1 /\ DOMAIN fs = 1 .. n - 1
      /\ \A i \in 1 .. n - 1 : fs[i] = cs[i]
      /\ DOMAIN cs = 1 .. n /\ Last(cs) = cs[n] /\ Last(cs) \in Activations
  BY FrontFacts, EmptyFacts
<1> HIDE DEF fs
<1>2. \A i \in DOMAIN fs : i \in DOMAIN cs /\ i # n /\ fs[i] = cs[i]
                           /\ \A j \in 1 .. i - 1 : fs[j] = cs[j]
  BY <1>1
<1>3. CallsOK(fs, d)
  BY <1>2 DEF CallsOK
<1>4. \A i \in DOMAIN fs : fs[i].kind \notin {"sleep", "commit"}
  BY <1>2 DEF CallsOK
<1>5. CASE fs = <<>>
  <2>1. Base(fs) = 0 /\ Last(cs).base \in Nat /\ n \in DOMAIN cs
    BY <1>1, <1>5, ActivationTypes DEF Base
  <2> QED BY <1>1, <1>3, <1>4, <2>1 DEF Steady, CallsOK, fs
<1>6. CASE fs # <<>>
  <2>1. Base(fs) = cs[n - 1].base /\ n - 1 \in 1 .. n - 1 /\ n \in DOMAIN cs
    BY <1>1, <1>6, EmptyFacts DEF Base, Last
  <2> QED BY <1>1, <1>3, <1>4, <2>1 DEF Steady, CallsOK, fs
<1> QED BY <1>5, <1>6

\* Frames come and go above the bases.
LEMMA DepthSteady ==
  ASSUME NEW cs, NEW d \in Nat, Steady(cs, d), NEW e \in Nat, Base(cs) <= e
  PROVE  Steady(cs, e)
<1>1. \A i \in DOMAIN cs : cs[i].base \in Nat /\ cs[i].base <= Base(cs) /\ Base(cs) \in Nat
  BY BaseFacts DEF Steady
<1>2. \A i \in DOMAIN cs : cs[i].base <= e
  BY <1>1
<1> QED BY <1>2 DEF Steady, CallsOK

\* An activation begins.
LEMMA PushedOK ==
  ASSUME NEW cs, NEW d \in Nat, Steady(cs, d), NEW a \in Activations, a.base = d,
         a.kind \in {"onEnd", "commit"} => Base(cs) < d,
         a.kind = "onBegin" => d < MaxDepth,
         a.kind = "sleep" => d = 0 /\ 0 < MaxDepth
  PROVE  /\ Append(cs, a) \in Seq(Activations) /\ CallsOK(Append(cs, a), d)
<1> DEFINE as == Append(cs, a)  n == Len(cs)
<1>1. /\ cs \in Seq(Activations) /\ as \in Seq(Activations) /\ n \in Nat /\ Len(as) = n + 1
      /\ \A i \in 1 .. n : as[i] = cs[i]
      /\ as[n + 1] = a /\ DOMAIN as = 1 .. n + 1 /\ DOMAIN cs = 1 .. n
  BY AppendFacts, EmptyFacts DEF Steady
<1> HIDE DEF as, n
<1>2. Base(cs) \in Nat /\ Base(cs) <= d /\ \A i \in 1 .. n : cs[i].base \in Nat /\ cs[i].base <= Base(cs)
  BY <1>1, BaseFacts DEF Steady
<1>3. \A i \in 1 .. n : /\ i # n + 1 /\ i \in DOMAIN cs /\ i \in Nat
                         /\ \A j \in 1 .. i - 1 : j \in 1 .. n /\ as[j] = cs[j]
  <2>1. n \in Nat /\ DOMAIN cs = 1 .. n
    BY <1>1
  <2>2. \A i \in 1 .. n : i # n + 1 /\ i \in Nat /\ \A j \in 1 .. i - 1 : j \in 1 .. n
    BY <2>1
  <2> QED BY <1>1, <2>1, <2>2
<1>4. ASSUME NEW i \in 1 .. n
      PROVE  LET b == as[i] IN
               /\ b.base <= d
               /\ \A j \in 1 .. i - 1 : as[j].base <= b.base
               /\ b.kind \in {"onEnd", "commit"}
                    => b.base > 0 /\ \A j \in 1 .. i - 1 : as[j].base < b.base
               /\ b.kind \notin {"sleep", "commit"}
               /\ b.kind = "onBegin" => b.base < MaxDepth
  BY <1>1, <1>3 DEF Steady, CallsOK, n
<1>5. ASSUME NEW j \in 1 .. n
      PROVE  as[j].base <= d /\ (Base(cs) < d => as[j].base < d)
  <2>1. as[j] = cs[j] /\ cs[j].base \in Nat /\ cs[j].base <= Base(cs) /\ Base(cs) \in Nat
    BY <1>1, <1>2
  <2>2. cs[j].base <= d /\ (Base(cs) < d => cs[j].base < d)
    BY <1>2, <2>1
  <2> QED BY <2>1, <2>2
<1>6. n + 1 - 1 = n /\ (Base(cs) < d => d > 0)
  BY <1>1, <1>2
<1>7. \A i \in DOMAIN as : i \in 1 .. n \/ (i = n + 1 /\ as[i] = a)
  <2>1. \A i \in 1 .. n + 1 : i \in 1 .. n \/ i = n + 1
    BY <1>1
  <2> QED BY <1>1, <2>1
<1>8. /\ \A j \in 1 .. n : as[j].base <= as[n + 1].base
      /\ as[n + 1].kind \in {"onEnd", "commit"}
           => as[n + 1].base > 0 /\ \A j \in 1 .. n : as[j].base < as[n + 1].base
  BY <1>1, <1>5, <1>6
<1>9. /\ as[n + 1].base = d /\ d <= d /\ n + 1 = Len(as)
      /\ as[n + 1].kind = "onBegin" => as[n + 1].base < MaxDepth
      /\ as[n + 1].kind = "sleep" => d = 0 /\ 0 < MaxDepth
  BY <1>1
<1>10. CallsOK(as, d)
  <2> SUFFICES ASSUME NEW i \in DOMAIN as
               PROVE  LET b == as[i] IN
                        /\ b.base <= d
                        /\ \A j \in 1 .. i - 1 : as[j].base <= b.base
                        /\ b.kind \in {"onEnd", "commit"}
                             => b.base > 0 /\ \A j \in 1 .. i - 1 : as[j].base < b.base
                        /\ b.kind \in {"sleep", "commit"} => i = Len(as) /\ b.base = d
                        /\ b.kind = "onBegin" => b.base < MaxDepth
                        /\ b.kind = "sleep" => d = 0 /\ 0 < MaxDepth
    BY DEF CallsOK
  <2>1. CASE i \in 1 .. n
    BY <1>4, <2>1
  <2>2. CASE i = n + 1
    <3>0. i - 1 = n
      BY <1>1, <2>2
    <3>1. as[i].base = d /\ as[i].base <= d /\ i = Len(as)
      BY <1>9, <2>2
    <3>2. \A j \in 1 .. i - 1 : as[j].base <= as[i].base
      BY <1>8, <2>2, <3>0
    <3>3. as[i].kind \in {"onEnd", "commit"}
            => as[i].base > 0 /\ \A j \in 1 .. i - 1 : as[j].base < as[i].base
      BY <1>8, <2>2, <3>0
    <3>4. /\ as[i].kind = "onBegin" => as[i].base < MaxDepth
          /\ as[i].kind = "sleep" => d = 0 /\ 0 < MaxDepth
      BY <1>9, <2>2
    <3> QED BY <3>1, <3>2, <3>3, <3>4
  <2> QED BY <1>7, <2>1, <2>2
<1> QED BY <1>1, <1>10 DEF as

-----------------------------------------------------------------------------
(* What a step of a session changes.                                         *)

\* Its connection, which it then uses n times.
ConnectionEffect(s, n) ==
  /\ mConnection' \in [Session -> Conn \cup {NoConn}]
  /\ owner' \in [Conn -> Session \cup {NoSession}]
  /\ n \in Nat /\ mConnectionUseCount' = [mConnectionUseCount EXCEPT ![s] = n]
  /\ \A t \in Session \ {s} : /\ mConnection'[t] = mConnection[t]
                              /\ \A c \in Conn : owner'[c] = t <=> owner[c] = t
  /\ \A c \in Conn : owner'[c] = s <=> mConnection'[s] = c
  /\ mConnection'[s] # NoConn <=> n > 0

\* Its frames, of which d remain.
StackEffect(s, d) ==
  /\ mTransactionStack' \in [Session -> Seq(Frames)]
  /\ mTransactionPool' \in [Session -> Seq(Frames)]
  /\ d \in Nat /\ d <= MaxDepth /\ Len(mTransactionStack'[s]) = d
  /\ \A t \in Session \ {s} : mTransactionStack'[t] = mTransactionStack[t]

\* The database, on its connection.
DataEffect(s) ==
  /\ native' \in [Conn -> [open : BOOLEAN, pending : SUBSET Write]]
  /\ durable' \subseteq Write /\ written' \in [Session -> 0 .. MaxWrites]
  /\ \A t \in Session \ {s} : written'[t] = written[t]
  /\ \A c \in Conn : owner[c] # s /\ owner'[c] # s => native'[c] = native[c]

\* Its history.
HistoryEffect(s) ==
  /\ nestedFailed' \in [Session -> BOOLEAN]
  /\ \A t \in Session \ {s} : nestedFailed'[t] = nestedFailed[t]

\* Nothing of any other session.
StepOf(s) ==
  /\ \A t \in Session \ {s} :
       /\ mConnection'[t] = mConnection[t] /\ \A c \in Conn : owner'[c] = t <=> owner[c] = t
       /\ calls'[t] = calls[t] /\ mTransactionStack'[t] = mTransactionStack[t]
       /\ written'[t] = written[t] /\ nestedFailed'[t] = nestedFailed[t]
  /\ \A c \in Conn : owner[c] # s /\ owner'[c] # s => native'[c] = native[c]

\* What the invariant says of one session.
LEMMA SessionFacts ==
  ASSUME IInv, NEW s \in Session
  PROVE  /\ mTransactionStack[s] \in Seq(Frames) /\ mTransactionPool[s] \in Seq(Frames)
         /\ Depth(s) \in Nat /\ Depth(s) <= MaxDepth /\ MaxDepth \in Nat /\ MaxCalls \in Nat
         /\ (mTransactionStack[s] = <<>> <=> Depth(s) = 0)
         /\ calls[s] \in Seq(Activations) /\ CallsOK(calls[s], Depth(s))
         /\ mConnectionUseCount[s] \in Nat /\ mConnectionUseCount[s] = Uses(calls[s], Depth(s))
         /\ mConnection[s] \in Conn \cup {NoConn}
         /\ \A c \in Conn : owner[c] = s <=> mConnection[s] = c
         /\ mConnection[s] # NoConn <=> mConnectionUseCount[s] > 0
         /\ LongOK(calls[s], Depth(s), native[mConnection[s]].open)
         /\ NoSession # s
<1>1. mTransactionStack[s] \in Seq(Frames) /\ mTransactionPool[s] \in Seq(Frames)
      /\ calls[s] \in Seq(Activations) /\ Depth(s) <= MaxDepth
      /\ mConnectionUseCount[s] \in 0 .. MaxCalls + 1 /\ mConnection[s] \in Conn \cup {NoConn}
  BY DEF IInv, TypeOK
<1>2. MaxDepth \in Nat /\ MaxCalls \in Nat /\ NoSession # s
  BY SessionAssumption
<1>3. Depth(s) \in Nat /\ (mTransactionStack[s] = <<>> <=> Depth(s) = 0)
  BY <1>1, EmptyFacts DEF Depth
<1>4. SessionInv(s)
  BY DEF IInv
<1> QED BY <1>1, <1>2, <1>3, <1>4 DEF SessionInv, ConnectionInv

LEMMA UsesType ==
  ASSUME NEW cs \in Seq(Activations), NEW d \in Nat
  PROVE  /\ Uses(cs, d) \in Nat
         /\ d > 0 => Uses(cs, d) = Cardinality(Counted(cs)) + 1
         /\ d = 0 => Uses(cs, d) = Cardinality(Counted(cs))
         /\ Cardinality(Counted(cs)) \in Nat
BY CountedFacts DEF Uses, One

\* The bound that TypeOK states.
LEMMA UsesBound ==
  ASSUME NEW cs \in Seq(Activations), NEW d \in Nat, NEW open, LongOK(cs, d, open)
  PROVE  Uses(cs, d) <= MaxCalls + 1
<1>1. MaxCalls \in Nat /\ Len(cs) \in Nat /\ Len(cs) <= MaxCalls + 1
  BY SessionAssumption, EmptyFacts DEF LongOK
<1>2. Cardinality(Counted(cs)) \in Nat /\ Cardinality(Counted(cs)) <= Len(cs)
  BY CountedFacts
<1>3. Uses(cs, d) <= Cardinality(Counted(cs)) + 1
      /\ (d = 0 => Uses(cs, d) = Cardinality(Counted(cs)))
  BY <1>2, UsesType
<1>4. CASE Len(cs) <= MaxCalls
  BY <1>1, <1>2, <1>3, <1>4, UsesType
<1>5. CASE Len(cs) > MaxCalls
  <2>1. d = 0
    BY <1>5 DEF LongOK
  <2> QED BY <1>1, <1>2, <1>3, <2>1
<1> QED BY <1>1, <1>4, <1>5

\* A listener that exceeds MaxCalls has the connection of its outermost transaction.
LEMMA ListenerOwns ==
  ASSUME IInv, NEW t \in Session, Len(calls[t]) > MaxCalls, Last(calls[t]).kind = "onBegin"
  PROVE  /\ mConnection[t] \in Conn /\ owner[mConnection[t]] = t
         /\ native[mConnection[t]].open /\ Depth(t) = 0
<1>1. Depth(t) = 0 /\ native[mConnection[t]].open /\ calls[t] \in Seq(Activations)
      /\ CallsOK(calls[t], Depth(t))
  BY SessionFacts DEF LongOK
<1>2. Len(calls[t]) \in DOMAIN calls[t] /\ Last(calls[t]) = calls[t][Len(calls[t])]
      /\ calls[t][Len(calls[t])] \in Activations
  BY <1>1, SessionAssumption, EmptyFacts DEF Last
<1>3. Counting(calls[t][Len(calls[t])])
  BY <1>1, <1>2, ActivationTypes DEF CallsOK, Counting
<1>4. Cardinality(Counted(calls[t])) > 0
  BY <1>1, <1>2, <1>3, CountedFacts
<1>5. Uses(calls[t], Depth(t)) = Cardinality(Counted(calls[t])) /\ Depth(t) \in Nat
  BY <1>1, UsesType
<1>6. mConnectionUseCount[t] > 0
  BY <1>4, <1>5, SessionFacts
<1> QED BY <1>1, <1>6, SessionFacts

\* A step of one session keeps the invariant if what it leaves of that session does.
LEMMA SessionStep ==
  ASSUME IInv, NEW s \in Session, NEW n, NEW d, NEW cs,
         ConnectionEffect(s, n), StackEffect(s, d), DataEffect(s),
         calls' = [calls EXCEPT ![s] = cs], cs \in Seq(Activations),
         HistoryEffect(s),
         n = Uses(cs, d), CallsOK(cs, d), LongOK(cs, d, native'[mConnection'[s]].open)
  PROVE  IInv' /\ StepOf(s)
<1>1. /\ \A t \in Session \ {s} : calls'[t] = calls[t] /\ Depth(t)' = Depth(t)
                                  /\ mConnectionUseCount'[t] = mConnectionUseCount[t]
      /\ calls'[s] = cs /\ mConnectionUseCount'[s] = n /\ Depth(s)' = d
      /\ calls' \in [Session -> Seq(Activations)]
  BY DEF IInv, TypeOK, StackEffect, ConnectionEffect, Depth
<1>2. SessionInv(s)'
  BY <1>1 DEF SessionInv, ConnectionInv, ConnectionEffect
<1>3. ASSUME NEW t \in Session \ {s}
      PROVE  SessionInv(t)'
  <2>1. SessionInv(t) /\ t \in Session
    BY <1>3 DEF IInv
  <2>2. mConnection'[t] = mConnection[t] /\ \A c \in Conn : owner'[c] = t <=> owner[c] = t
    BY <1>3 DEF ConnectionEffect
  <2>3. ConnectionInv(t)'
    BY <1>1, <1>3, <2>1, <2>2 DEF SessionInv, ConnectionInv
  <2>4. LongOK(calls[t], Depth(t), native'[mConnection[t]].open)
    <3>1. CASE Len(calls[t]) > MaxCalls /\ Last(calls[t]).kind = "onBegin"
      <4>1. mConnection[t] \in Conn /\ owner[mConnection[t]] = t
        BY <2>1, <3>1, ListenerOwns
      <4>2. native'[mConnection[t]] = native[mConnection[t]]
        BY <1>3, <2>2, <4>1 DEF DataEffect
      <4> QED BY <2>1, <4>2 DEF SessionInv
    <3>2. CASE ~(Len(calls[t]) > MaxCalls /\ Last(calls[t]).kind = "onBegin")
      BY <2>1, <3>2 DEF SessionInv, LongOK
    <3> QED BY <3>1, <3>2
  <2> QED BY <1>1, <1>3, <2>1, <2>2, <2>3, <2>4 DEF SessionInv
<1>4. \A t \in Session : SessionInv(t)'
  BY <1>2, <1>3
<1>5. \A t \in Session : Depth(t)' <= MaxDepth /\ Len(calls'[t]) <= MaxCalls + 1
                         /\ mConnectionUseCount'[t] \in 0 .. MaxCalls + 1
  <2> SUFFICES ASSUME NEW t \in Session
               PROVE  Depth(t)' <= MaxDepth /\ Len(calls'[t]) <= MaxCalls + 1
                      /\ mConnectionUseCount'[t] \in 0 .. MaxCalls + 1
    OBVIOUS
  <2>1. CASE t = s
    <3>1. n \in Nat /\ n <= MaxCalls + 1 /\ MaxCalls \in Nat /\ d <= MaxDepth
      BY UsesBound, UsesType, SessionAssumption DEF StackEffect
    <3>2. Len(cs) <= MaxCalls + 1
      BY DEF LongOK
    <3> QED BY <1>1, <2>1, <3>1, <3>2
  <2>2. CASE t # s
    BY <1>1, <2>2 DEF IInv, TypeOK
  <2> QED BY <2>1, <2>2
<1>6. mConnectionUseCount' \in [Session -> 0 .. MaxCalls + 1]
  BY <1>5 DEF ConnectionEffect, IInv, TypeOK
<1>7. TypeOK'
  BY <1>1, <1>5, <1>6 DEF TypeOK, ConnectionEffect, StackEffect, DataEffect, HistoryEffect
<1>8. StepOf(s)
  BY <1>1 DEF StepOf, ConnectionEffect, StackEffect, DataEffect, HistoryEffect
<1> QED BY <1>4, <1>7, <1>8 DEF IInv

-----------------------------------------------------------------------------
(* The operations on the connection, the frames and the native transaction.  *)

\* acquireConnection gives the session a connection unless it has one.
LEMMA AcquireEffect ==
  ASSUME IInv, NEW s \in Session, acquireConnection(s)
  PROVE  /\ ConnectionEffect(s, mConnectionUseCount[s] + 1)
         /\ mConnection'[s] \in Conn /\ owner'[mConnection'[s]] = s
         /\ mConnection[s] # NoConn => UNCHANGED <<mConnection, owner>>
         /\ mConnection[s] = NoConn => owner[mConnection'[s]] = NoSession
<1>1. /\ mConnection \in [Session -> Conn \cup {NoConn}]
      /\ owner \in [Conn -> Session \cup {NoSession}] /\ NoConn \notin Conn
      /\ \A t \in Session : NoSession # t
      /\ \A t \in Session, c \in Conn : owner[c] = t <=> mConnection[t] = c
      /\ mConnectionUseCount' = [mConnectionUseCount EXCEPT ![s] = mConnectionUseCount[s] + 1]
      /\ mConnectionUseCount[s] \in Nat
  BY SessionFacts, SessionAssumption DEF IInv, TypeOK, acquireConnection
<1>2. CASE mConnection[s] # NoConn
  <2>1. UNCHANGED <<mConnection, owner>>
    BY <1>2 DEF acquireConnection
  <2> QED BY <1>1, <1>2, <2>1 DEF ConnectionEffect
<1>3. CASE mConnection[s] = NoConn
  <2>1. PICK c \in Conn : /\ owner[c] = NoSession /\ owner' = [owner EXCEPT ![c] = s]
                          /\ mConnection' = [mConnection EXCEPT ![s] = c]
    BY <1>3 DEF acquireConnection, Pool!Acquire
  <2> QED BY <1>1, <1>3, <2>1 DEF ConnectionEffect
<1> QED BY <1>2, <1>3

\* releaseConnection returns it with the last use.
LEMMA ReleaseEffect ==
  ASSUME IInv, NEW s \in Session, releaseConnection(s), mConnectionUseCount[s] > 0
  PROVE  /\ ConnectionEffect(s, mConnectionUseCount[s] - 1)
         /\ mConnectionUseCount[s] > 1 => UNCHANGED <<mConnection, owner>>
         /\ mConnectionUseCount[s] = 1 => mConnection'[s] = NoConn
         /\ \A c \in Conn : owner'[c] # owner[c] => owner[c] = s /\ owner'[c] = NoSession
<1>1. /\ mConnection \in [Session -> Conn \cup {NoConn}]
      /\ owner \in [Conn -> Session \cup {NoSession}] /\ NoConn \notin Conn
      /\ \A t \in Session : NoSession # t
      /\ \A t \in Session, c \in Conn : owner[c] = t <=> mConnection[t] = c
      /\ mConnectionUseCount' = [mConnectionUseCount EXCEPT ![s] = mConnectionUseCount[s] - 1]
      /\ mConnectionUseCount[s] \in Nat /\ mConnection[s] # NoConn /\ mConnection[s] \in Conn
      /\ owner[mConnection[s]] = s
  BY SessionFacts, SessionAssumption DEF IInv, TypeOK, releaseConnection
<1>2. CASE mConnectionUseCount[s] # 1
  <2>1. UNCHANGED <<mConnection, owner>>
    BY <1>2 DEF releaseConnection
  <2>2. mConnectionUseCount[s] - 1 \in Nat /\ mConnectionUseCount[s] - 1 > 0
    BY <1>1, <1>2
  <2> QED BY <1>1, <1>2, <2>1, <2>2 DEF ConnectionEffect
<1>3. CASE mConnectionUseCount[s] = 1
  <2>1. /\ owner' = [owner EXCEPT ![mConnection[s]] = NoSession]
        /\ mConnection' = [mConnection EXCEPT ![s] = NoConn]
    BY <1>3 DEF releaseConnection, Pool!Release
  <2>2. mConnectionUseCount[s] - 1 = 0
    BY <1>3
  <2> QED BY <1>1, <1>3, <2>1, <2>2 DEF ConnectionEffect
<1> QED BY <1>2, <1>3

LEMMA SameConnection ==
  ASSUME IInv, NEW s \in Session, UNCHANGED connVars
  PROVE  ConnectionEffect(s, mConnectionUseCount[s])
<1>1. /\ mConnection \in [Session -> Conn \cup {NoConn}]
      /\ mConnectionUseCount \in [Session -> 0 .. MaxCalls + 1]
      /\ owner \in [Conn -> Session \cup {NoSession}]
  BY DEF IInv, TypeOK
<1>2. UNCHANGED <<mConnection, mConnectionUseCount, owner>>
  BY DEF connVars
<1> QED BY <1>1, <1>2, SessionFacts DEF ConnectionEffect

LEMMA SameHistory ==
  ASSUME IInv, NEW s \in Session, UNCHANGED nestedFailed
  PROVE  HistoryEffect(s)
BY DEF IInv, TypeOK, HistoryEffect

\* The data change on the session's connection only.
LEMMA DataSteps ==
  ASSUME IInv, NEW s \in Session
  PROVE  /\ UNCHANGED dataVars => DataEffect(s)
         /\ mConnection'[s] \in Conn /\ owner'[mConnection'[s]] = s /\ NativeBegin(s)
              => DataEffect(s)
         /\ mConnection[s] \in Conn /\ (NativeCommit(s) \/ NativeRollback(s)) => DataEffect(s)
<1>1. /\ native \in [Conn -> [open : BOOLEAN, pending : SUBSET Write]]
      /\ durable \subseteq Write /\ written \in [Session -> 0 .. MaxWrites]
  BY DEF IInv, TypeOK
<1>2. UNCHANGED dataVars => DataEffect(s)
  BY <1>1 DEF dataVars, DataEffect
<1>3. ASSUME mConnection'[s] \in Conn, owner'[mConnection'[s]] = s, NativeBegin(s)
      PROVE  DataEffect(s)
  <2>1. native' = [native EXCEPT ![mConnection'[s]].open = TRUE] /\ UNCHANGED <<durable, written>>
    BY <1>3 DEF NativeBegin
  <2>2. native' \in [Conn -> [open : BOOLEAN, pending : SUBSET Write]]
    BY <1>1, <1>3, <2>1
  <2> QED BY <1>1, <1>3, <2>1, <2>2 DEF DataEffect
<1>4. ASSUME mConnection[s] \in Conn, NativeCommit(s) \/ NativeRollback(s)
      PROVE  DataEffect(s)
  <2> DEFINE closed == [open |-> FALSE, pending |-> {}]
  <2>1. native' = [native EXCEPT ![mConnection[s]] = closed] /\ UNCHANGED written
        /\ durable' \subseteq durable \cup native[mConnection[s]].pending
    BY <1>4 DEF NativeCommit, NativeRollback
  <2>2. closed \in [open : BOOLEAN, pending : SUBSET Write]
    OBVIOUS
  <2>3. owner[mConnection[s]] = s
    BY <1>4, SessionFacts
  <2>4. durable' \subseteq Write
    BY <1>1, <1>4, <2>1
  <2> HIDE DEF closed
  <2> QED BY <1>1, <1>4, <2>1, <2>2, <2>3, <2>4 DEF DataEffect
<1> QED BY <1>2, <1>3, <1>4

LEMMA SameStack ==
  ASSUME IInv, NEW s \in Session, UNCHANGED stackVars
  PROVE  StackEffect(s, Depth(s))
<1>1. UNCHANGED <<mTransactionStack, mTransactionPool>>
  BY DEF stackVars
<1> QED BY <1>1, SessionFacts DEF StackEffect, IInv, TypeOK, Depth

\* obtainTransaction and the link to the parent add a frame.
LEMMA PushEffect ==
  ASSUME IInv, NEW s \in Session, NEW l \in BOOLEAN, PushTransaction(s, l), Depth(s) < MaxDepth
  PROVE  /\ StackEffect(s, Depth(s) + 1)
         /\ mTransactionStack' = [mTransactionStack EXCEPT ![s] = Append(@, NewFrame(l))]
<1> DEFINE q == Append(mTransactionStack[s], NewFrame(l))
           pool == mTransactionPool[s]
           p == IF pool = <<>> THEN pool ELSE Front(pool)
<1>1. NewFrame(l) \in Frames
  BY DEF NewFrame, Frames
<1>2. q \in Seq(Frames) /\ Len(q) = Depth(s) + 1
  BY <1>1, SessionFacts, AppendFacts DEF Depth
<1>3. p \in Seq(Frames)
  BY SessionFacts, FrontFacts
<1>4. /\ mTransactionStack' = [mTransactionStack EXCEPT ![s] = q]
      /\ mTransactionPool' = [mTransactionPool EXCEPT ![s] = p]
  BY DEF PushTransaction
<1>5. /\ mTransactionStack \in [Session -> Seq(Frames)]
      /\ mTransactionPool \in [Session -> Seq(Frames)]
  BY DEF IInv, TypeOK
<1>6. Depth(s) + 1 \in Nat /\ Depth(s) + 1 <= MaxDepth
  BY SessionFacts
<1>7. mTransactionStack' = [mTransactionStack EXCEPT ![s] = Append(@, NewFrame(l))]
  BY DEF PushTransaction
<1> HIDE DEF q, p
<1>8. StackEffect(s, Depth(s) + 1)
  BY <1>2, <1>3, <1>4, <1>5, <1>6 DEF StackEffect
<1> QED BY <1>7, <1>8

\* The frame goes back to the pool of frames, and the parent may learn of a failure.
LEMMA PopEffect ==
  ASSUME IInv, NEW s \in Session, NEW ok, PopTransaction(s, ok), Depth(s) > 0
  PROVE  /\ StackEffect(s, Depth(s) - 1)
         /\ \A i \in 1 .. Depth(s) - 1 :
              mTransactionStack'[s][i] = IF ok \/ i # Depth(s) - 1 THEN mTransactionStack[s][i]
                ELSE [mTransactionStack[s][i] EXCEPT !.childFailed = TRUE]
<1> DEFINE st == mTransactionStack[s]  rest == Front(st)
           q == IF ok \/ rest = <<>> THEN rest
                ELSE [rest EXCEPT ![Len(rest)].childFailed = TRUE]
           f == [Top(s) EXCEPT !.listener = FALSE]
           p == Append(mTransactionPool[s], f)
<1>1. /\ st \in Seq(Frames) /\ st # <<>> /\ Depth(s) \in Nat /\ Len(st) = Depth(s)
      /\ Top(s) = Last(st)
  BY SessionFacts DEF Depth, Top, Last
<1>2. /\ rest \in Seq(Frames) /\ Len(rest) = Depth(s) - 1 /\ Top(s) \in Frames
      /\ \A i \in 1 .. Depth(s) - 1 : rest[i] = st[i]
  BY <1>1, FrontFacts
<1>3. f \in Frames
  BY <1>2 DEF Frames
<1>4. p \in Seq(Frames)
  BY <1>3, SessionFacts, AppendFacts
<1> HIDE DEF rest
<1>5. /\ q \in Seq(Frames) /\ Len(q) = Depth(s) - 1
      /\ \A i \in 1 .. Depth(s) - 1 :
           q[i] = IF ok \/ i # Depth(s) - 1 THEN st[i] ELSE [st[i] EXCEPT !.childFailed = TRUE]
  <2>0. Len(rest) \in Nat /\ DOMAIN rest = 1 .. Len(rest) /\ (rest = <<>> <=> Len(rest) = 0)
    BY <1>2, EmptyFacts
  <2>1. CASE ok \/ rest = <<>>
    BY <1>2, <2>0, <2>1
  <2>2. CASE ~(ok \/ rest = <<>>)
    <3> DEFINE g == [rest[Len(rest)] EXCEPT !.childFailed = TRUE]
    <3>1. q = [rest EXCEPT ![Len(rest)] = g] /\ Len(rest) \in 1 .. Len(rest)
      BY <1>2, <2>0, <2>2
    <3>2. rest[Len(rest)] \in Frames
      BY <1>2, <3>1
    <3>3. g \in Frames
      BY <3>2 DEF Frames
    <3> HIDE DEF q, g
    <3>4. q \in Seq(Frames) /\ Len(q) = Len(rest)
          /\ \A i \in 1 .. Len(rest) : q[i] = IF i = Len(rest) THEN g ELSE rest[i]
      BY <1>2, <3>1, <3>3
    <3> QED BY <1>2, <2>2, <3>4 DEF g
  <2> QED BY <2>1, <2>2
<1>6. /\ mTransactionStack' = [mTransactionStack EXCEPT ![s] = q]
      /\ mTransactionPool' = [mTransactionPool EXCEPT ![s] = p]
  BY DEF PopTransaction, rest
<1>7. /\ mTransactionStack \in [Session -> Seq(Frames)]
      /\ mTransactionPool \in [Session -> Seq(Frames)]
  BY DEF IInv, TypeOK
<1>8. Depth(s) - 1 \in Nat /\ Depth(s) - 1 <= MaxDepth
  BY SessionFacts
<1> HIDE DEF q, p
<1>9. StackEffect(s, Depth(s) - 1)
  BY <1>4, <1>5, <1>6, <1>7, <1>8 DEF StackEffect
<1>10. mTransactionStack'[s] = q
  BY <1>6, <1>7
<1> QED BY <1>5, <1>9, <1>10

-----------------------------------------------------------------------------
(* Calls and returns.                                                        *)

LEMMA ActivationFacts ==
  ASSUME IInv, NEW s \in Session, NEW kind \in Kinds,
         NEW l \in BOOLEAN, NEW ok \in BOOLEAN, NEW y \in BOOLEAN
  PROVE  LET a == Activation(s, kind, l, ok, y) IN
           /\ a \in Activations /\ a.kind = kind /\ a.base = Depth(s)
           /\ a.listener = l /\ a.successful = ok /\ a.yielding = y
<1>1. Depth(s) \in 0 .. MaxDepth
  BY SessionFacts
<1> QED BY <1>1 DEF Activation, Activations

LEMMA ShortOK ==
  ASSUME NEW cs \in Seq(Activations), NEW d, NEW open, Len(cs) <= MaxCalls
  PROVE  LongOK(cs, d, open)
<1>1. Len(cs) \in Nat /\ MaxCalls \in Nat
  BY SessionAssumption, EmptyFacts
<1> QED BY <1>1 DEF LongOK

\* Client code of the session is running.
LEMMA RunningFacts ==
  ASSUME IInv, NEW s \in Session, Running(s)
  PROVE  /\ Steady(calls[s], Depth(s))
         /\ HasOwnTransaction(s) =>
              Base(calls[s]) < Depth(s) /\ Depth(s) > 0 /\ Len(calls[s]) <= MaxCalls
<1>1. Steady(calls[s], Depth(s))
  BY SessionFacts, RunningSteady DEF Running, At, Call
<1>2. Base(calls[s]) \in Nat /\ Len(calls[s]) \in Nat
  BY SessionFacts, BaseFacts, EmptyFacts
<1>3. HasOwnTransaction(s) => Base(calls[s]) < Depth(s)
  BY <1>2, SessionFacts DEF HasOwnTransaction, Base, Call
<1>4. Depth(s) > 0 => Len(calls[s]) <= MaxCalls
  BY <1>2, SessionFacts DEF LongOK
<1> QED BY <1>1, <1>2, <1>3, <1>4, SessionFacts

\* An activation is about to return.
LEMMA ReturnFacts ==
  ASSUME IInv, NEW s \in Session, calls[s] # <<>>
  PROVE  /\ Steady(Front(calls[s]), Depth(s)) /\ Front(calls[s]) \in Seq(Activations)
         /\ Base(Front(calls[s])) <= Call(s).base /\ Base(Front(calls[s])) \in Nat
         /\ Call(s).kind \in {"onEnd", "commit"} => Base(Front(calls[s])) < Call(s).base
         /\ Len(Front(calls[s])) <= MaxCalls /\ Len(Front(calls[s])) \in Nat
         /\ Call(s) \in Activations /\ Call(s).base <= Depth(s)
         /\ calls[s] = Append(Front(calls[s]), Call(s))
         /\ Uses(calls[s], Depth(s)) = Uses(Front(calls[s]), Depth(s)) + One(Counting(Call(s)))
         /\ ~HasOwnTransaction(s) => Call(s).base = Depth(s)
         /\ Call(s).kind = "onBegin" => Call(s).base < MaxDepth
         /\ Call(s).kind = "sleep" => Depth(s) = 0 /\ Call(s).base = 0 /\ 0 < MaxDepth
         /\ Call(s).kind = "commit" => Call(s).base = Depth(s)
<1> DEFINE cs == calls[s]  d == Depth(s)
<1>1. /\ cs \in Seq(Activations) /\ d \in Nat /\ CallsOK(cs, d) /\ Len(cs) \in Nat /\ Len(cs) > 0
      /\ Len(cs) \in DOMAIN cs /\ Call(s) = Last(cs) /\ Call(s) = cs[Len(cs)]
      /\ Call(s) \in Activations /\ Len(Front(cs)) = Len(cs) - 1 /\ Front(cs) \in Seq(Activations)
  BY SessionFacts, FrontFacts, EmptyFacts DEF Call, Last
<1>2. /\ Steady(Front(cs), d) /\ Base(Front(cs)) <= Call(s).base
      /\ Call(s).kind \in {"onEnd", "commit"} => Base(Front(cs)) < Call(s).base
  BY <1>1, FrontSteady
<1>3. Base(Front(cs)) \in Nat
  BY <1>1, <1>2, BaseFacts DEF Steady
<1>4. Len(Front(cs)) <= MaxCalls /\ Len(Front(cs)) \in Nat
  BY <1>1, SessionFacts DEF LongOK
<1>5. cs = Append(Front(cs), Call(s))
  <2> DEFINE ds == Append(Front(cs), Call(s))
  <2>1. ds \in Seq(Activations) /\ Len(ds) = Len(cs) /\ ds[Len(cs)] = cs[Len(cs)]
        /\ \A i \in 1 .. Len(Front(cs)) : ds[i] = Front(cs)[i]
    BY <1>1, AppendFacts
  <2>2. \A i \in 1 .. Len(cs) - 1 : Front(cs)[i] = cs[i]
    BY <1>1, FrontFacts
  <2>3. \A i \in 1 .. Len(cs) : i = Len(cs) \/ i \in 1 .. Len(cs) - 1
    BY <1>1
  <2> HIDE DEF ds
  <2>4. \A i \in 1 .. Len(cs) : ds[i] = cs[i]
    BY <1>1, <2>1, <2>2, <2>3
  <2> HIDE DEF cs
  <2>5. ds = cs
    BY <1>1, <2>1, <2>4, EqualStacks
  <2> QED BY <2>5 DEF ds, cs
<1>6. Uses(cs, d) = Uses(Front(cs), d) + One(Counting(Call(s)))
  <2>1. Cardinality(Counted(cs)) = Cardinality(Counted(Front(cs))) + One(Counting(Call(s)))
        /\ Cardinality(Counted(Front(cs))) \in Nat
    BY <1>1, CountedFacts
  <2>2. One(Counting(Call(s))) \in Nat /\ One(d > 0) \in Nat
    BY DEF One
  <2> QED BY <2>1, <2>2 DEF Uses
<1>7. /\ Call(s).base <= d /\ Call(s).base \in Nat
      /\ Call(s).kind = "onBegin" => Call(s).base < MaxDepth
      /\ Call(s).kind = "sleep" => d = 0 /\ Call(s).base = d /\ 0 < MaxDepth
      /\ Call(s).kind = "commit" => Call(s).base = d
  BY <1>1, ActivationTypes DEF CallsOK
<1>8. ~HasOwnTransaction(s) => Call(s).base = d
  BY <1>1, <1>7 DEF HasOwnTransaction
<1> QED BY <1>1, <1>2, <1>3, <1>4, <1>5, <1>6, <1>7, <1>8

\* A call goes on the stack.
LEMMA PushFacts ==
  ASSUME NEW cs, NEW d \in Nat, Steady(cs, d), NEW a \in Activations, a.base = d,
         a.kind \in {"onEnd", "commit"} => Base(cs) < d,
         a.kind = "onBegin" => d < MaxDepth,
         a.kind = "sleep" => d = 0 /\ 0 < MaxDepth
  PROVE  /\ Append(cs, a) \in Seq(Activations) /\ CallsOK(Append(cs, a), d)
         /\ Uses(Append(cs, a), d) = Uses(cs, d) + One(Counting(a))
         /\ Len(cs) \in Nat /\ Len(Append(cs, a)) = Len(cs) + 1
         /\ Last(Append(cs, a)) = a /\ Append(cs, a) # <<>>
<1>1. Append(cs, a) \in Seq(Activations) /\ CallsOK(Append(cs, a), d)
  BY PushedOK
<1>2. /\ cs \in Seq(Activations) /\ Len(cs) \in Nat /\ Len(Append(cs, a)) = Len(cs) + 1
      /\ Last(Append(cs, a)) = a /\ Append(cs, a) # <<>>
  BY AppendFacts DEF Steady
<1>3. Uses(Append(cs, a), d) = Uses(cs, d) + One(Counting(a))
  <2>1. Cardinality(Counted(Append(cs, a))) = Cardinality(Counted(cs)) + One(Counting(a))
        /\ Cardinality(Counted(cs)) \in Nat
    BY <1>2, CountedFacts
  <2>2. One(Counting(a)) \in Nat /\ One(d > 0) \in Nat
    BY DEF One
  <2> QED BY <2>1, <2>2 DEF Uses
<1> QED BY <1>1, <1>2, <1>3

\* The outermost transaction comes and goes with one use.
LEMMA DepthUses ==
  ASSUME NEW cs \in Seq(Activations), NEW d \in Nat
  PROVE  /\ d > 0 => Uses(cs, d) = Uses(cs, 1)
         /\ Uses(cs, 1) = Uses(cs, 0) + 1 /\ Uses(cs, 0) \in Nat /\ Uses(cs, d) \in Nat
BY UsesType

-----------------------------------------------------------------------------
(* Statements.                                                               *)

LEMMA ExecuteBeginStep ==
  ASSUME IInv, NEW s \in Session, ExecuteBegin(s)
  PROVE  IInv' /\ StepOf(s)
<1> DEFINE a == Activation(s, "statement", FALSE, FALSE, FALSE)
           cs == Append(calls[s], a)
<1>1. /\ Running(s) /\ acquireConnection(s) /\ Len(calls[s]) < MaxCalls
      /\ calls' = [calls EXCEPT ![s] = cs] /\ UNCHANGED <<stackVars, dataVars, nestedFailed>>
  BY DEF ExecuteBegin, Push
<1>2. a \in Activations /\ a.kind = "statement" /\ a.base = Depth(s)
  <2>1. "statement" \in Kinds /\ FALSE \in BOOLEAN
    BY DEF Kinds
  <2> QED BY <2>1, ActivationFacts
<1>3. Steady(calls[s], Depth(s)) /\ Depth(s) \in Nat /\ MaxCalls \in Nat
  BY <1>1, RunningFacts, SessionFacts
<1> HIDE DEF a
<1>4. /\ cs \in Seq(Activations) /\ CallsOK(cs, Depth(s)) /\ Len(cs) <= MaxCalls
      /\ Uses(cs, Depth(s)) = Uses(calls[s], Depth(s)) + One(Counting(a))
  BY <1>1, <1>2, <1>3, PushFacts
<1>5. One(Counting(a)) = 1
  BY <1>2 DEF Counting, One
<1> HIDE DEF cs
<1>6. /\ ConnectionEffect(s, mConnectionUseCount[s] + 1) /\ StackEffect(s, Depth(s)) /\ DataEffect(s)
      /\ mConnectionUseCount[s] + 1 = Uses(cs, Depth(s)) /\ HistoryEffect(s)
  BY <1>1, <1>4, <1>5, AcquireEffect, SameStack, DataSteps, SessionFacts, SameHistory
<1> QED BY <1>1, <1>4, <1>6, ShortOK, SessionStep

\* A statement ends; what it did to the database is left open.
LEMMA ExecuteEndStep ==
  ASSUME IInv, NEW s \in Session, ExecuteEnd(s), mConnection[s] \in Conn => DataEffect(s)
  PROVE  IInv' /\ StepOf(s)
<1>1. /\ calls[s] # <<>> /\ Call(s).kind = "statement" /\ releaseConnection(s)
      /\ calls' = [calls EXCEPT ![s] = Front(calls[s])] /\ UNCHANGED <<stackVars, nestedFailed>>
  BY DEF ExecuteEnd, At, Return
<1>2. One(Counting(Call(s))) = 1
  BY <1>1 DEF Counting, One
<1>3. /\ Front(calls[s]) \in Seq(Activations) /\ CallsOK(Front(calls[s]), Depth(s))
      /\ Len(Front(calls[s])) <= MaxCalls
      /\ Uses(calls[s], Depth(s)) = Uses(Front(calls[s]), Depth(s)) + 1
      /\ Uses(Front(calls[s]), Depth(s)) \in Nat
  BY <1>1, <1>2, ReturnFacts, SessionFacts, UsesType DEF Steady
<1>4. mConnectionUseCount[s] > 0 /\ mConnectionUseCount[s] - 1 = Uses(Front(calls[s]), Depth(s))
  <2>1. mConnectionUseCount[s] = Uses(calls[s], Depth(s))
    BY SessionFacts
  <2> QED BY <1>3, <2>1
<1>5. mConnection[s] \in Conn
  BY <1>4, SessionFacts
<1>6. /\ ConnectionEffect(s, mConnectionUseCount[s] - 1) /\ StackEffect(s, Depth(s)) /\ DataEffect(s)
      /\ HistoryEffect(s)
  BY <1>1, <1>4, <1>5, ReleaseEffect, SameStack, SameHistory
<1> QED BY <1>1, <1>3, <1>4, <1>6, ShortOK, SessionStep

LEMMA ExecuteStep ==
  ASSUME IInv, NEW s \in Session, ExecuteWrite(s) \/ ExecuteRead(s) \/ ExecuteConflict(s)
  PROVE  IInv' /\ StepOf(s)
<1>1. CASE ExecuteWrite(s)
  <2> DEFINE c == mConnection[s]  w == <<s, written[s] + 1>>
  <2>1. ExecuteEnd(s) /\ written[s] < MaxWrites /\ written' = [written EXCEPT ![s] = @ + 1]
    BY <1>1 DEF ExecuteWrite
  <2>2. CASE mConnection[s] \in Conn
    <3>1. /\ native \in [Conn -> [open : BOOLEAN, pending : SUBSET Write]]
          /\ durable \subseteq Write /\ written \in [Session -> 0 .. MaxWrites] /\ MaxWrites \in Nat
          /\ owner[c] = s
      BY <2>2, SessionFacts, SessionAssumption DEF IInv, TypeOK
    <3>2. w \in Write /\ written' \in [Session -> 0 .. MaxWrites]
      BY <2>1, <3>1 DEF Write
    <3>3. \/ native' = [native EXCEPT ![c].pending = @ \cup {w}] /\ UNCHANGED durable
          \/ durable' = durable \cup {w} /\ UNCHANGED native
      BY <1>1 DEF ExecuteWrite
    <3> HIDE DEF w
    <3>4. native' \in [Conn -> [open : BOOLEAN, pending : SUBSET Write]] /\ durable' \subseteq Write
      BY <2>2, <3>1, <3>2, <3>3
    <3>5. \A d \in Conn : owner[d] # s => native'[d] = native[d]
      BY <2>2, <3>1, <3>3
    <3>6. DataEffect(s)
      BY <2>1, <3>1, <3>2, <3>4, <3>5 DEF DataEffect
    <3> QED BY <2>1, <3>6, ExecuteEndStep
  <2> QED BY <2>1, <2>2, ExecuteEndStep
<1>2. CASE ExecuteRead(s)
  BY <1>2, ExecuteEndStep, DataSteps DEF ExecuteRead
<1>3. CASE ExecuteConflict(s)
  BY <1>3, ExecuteEndStep, DataSteps DEF ExecuteConflict
<1> QED BY <1>1, <1>2, <1>3

-----------------------------------------------------------------------------
(* beginTransaction.                                                         *)

\* An outermost transaction takes one more use of the connection.
LEMMA StartEffect ==
  ASSUME IInv, NEW s \in Session, StartTransaction(s)
  PROVE  /\ DataEffect(s)
         /\ Depth(s) > 0 => UNCHANGED <<connVars, dataVars>>
                            /\ ConnectionEffect(s, mConnectionUseCount[s])
         /\ Depth(s) = 0 => /\ acquireConnection(s) /\ NativeBegin(s)
                            /\ ConnectionEffect(s, mConnectionUseCount[s] + 1)
                            /\ mConnection'[s] \in Conn
                            /\ ~native[mConnection'[s]].open /\ native'[mConnection'[s]].open
<1>1. CASE Depth(s) = 0
  <2>1. acquireConnection(s) /\ NativeBegin(s)
    BY <1>1, SessionFacts DEF StartTransaction
  <2>2. /\ ConnectionEffect(s, mConnectionUseCount[s] + 1)
        /\ mConnection'[s] \in Conn /\ owner'[mConnection'[s]] = s
    BY <2>1, AcquireEffect
  <2>3. native \in [Conn -> [open : BOOLEAN, pending : SUBSET Write]]
    BY DEF IInv, TypeOK
  <2>4. ~native[mConnection'[s]].open /\ native'[mConnection'[s]].open
    BY <2>1, <2>2, <2>3 DEF NativeBegin
  <2> QED BY <1>1, <2>1, <2>2, <2>4, DataSteps
<1>2. CASE Depth(s) # 0
  <2>1. UNCHANGED <<connVars, dataVars>>
    BY <1>2, SessionFacts DEF StartTransaction
  <2> QED BY <1>2, <2>1, SameConnection, DataSteps
<1> QED BY <1>1, <1>2

LEMMA OnBeginActivation ==
  ASSUME IInv, NEW s \in Session, NEW l \in BOOLEAN
  PROVE  LET a == Activation(s, "onBegin", l, FALSE, FALSE)
         IN a \in Activations /\ a.kind = "onBegin" /\ a.base = Depth(s)
<1>1. Depth(s) \in 0 .. MaxDepth
  BY SessionFacts
<1> QED BY <1>1 DEF Activation, Activations, Kinds

LEMMA BeginStep ==
  ASSUME IInv, NEW s \in Session, NEW l \in BOOLEAN, beginTransaction(s, l)
  PROVE  IInv' /\ StepOf(s)
<1> DEFINE d == Depth(s)  n == mConnectionUseCount[s] + One(d = 0)
<1>1. /\ Running(s) /\ d < MaxDepth /\ StartTransaction(s) /\ UNCHANGED nestedFailed
      /\ d \in Nat /\ d + 1 \in Nat /\ MaxDepth \in Nat /\ calls[s] \in Seq(Activations)
      /\ mConnectionUseCount[s] = Uses(calls[s], d) /\ Uses(calls[s], d) \in Nat
      /\ HistoryEffect(s) /\ Steady(calls[s], d) /\ MaxCalls \in Nat
  BY SessionFacts, RunningFacts, SameHistory DEF beginTransaction
<1>2. ConnectionEffect(s, n) /\ DataEffect(s)
  BY <1>1, StartEffect DEF One
<1>3. CASE l
  <2> DEFINE a == Activation(s, "onBegin", l, FALSE, FALSE)
             cs == Append(calls[s], a)
  <2>1. Len(calls[s]) < MaxCalls /\ calls' = [calls EXCEPT ![s] = cs] /\ UNCHANGED stackVars
    BY <1>3 DEF beginTransaction, Push
  <2>2. a \in Activations /\ a.kind = "onBegin" /\ a.base = d
    BY OnBeginActivation
  <2> HIDE DEF a
  <2>3. /\ cs \in Seq(Activations) /\ CallsOK(cs, d) /\ Len(cs) <= MaxCalls
        /\ Uses(cs, d) = Uses(calls[s], d) + One(Counting(a))
    BY <1>1, <2>1, <2>2, PushFacts
  <2>4. One(Counting(a)) = One(d = 0)
    BY <2>2 DEF Counting
  <2> HIDE DEF cs
  <2> QED BY <1>1, <1>2, <2>1, <2>3, <2>4, SameStack, ShortOK, SessionStep
<1>4. CASE ~l
  <2>1. PushTransaction(s, l) /\ UNCHANGED calls
    BY <1>4 DEF beginTransaction
  <2>2. calls' = [calls EXCEPT ![s] = calls[s]]
    BY <2>1 DEF IInv, TypeOK
  <2>3. StackEffect(s, d + 1)
    BY <1>1, <2>1, PushEffect
  <2>4. Base(calls[s]) <= d + 1
    BY <1>1, BaseFacts DEF Steady
  <2>5. CallsOK(calls[s], d + 1)
    BY <1>1, <2>4, DepthSteady DEF Steady
  <2>6. Uses(calls[s], d + 1) = n
    <3>1. d + 1 > 0
      BY <1>1
    <3> QED BY <1>1, <3>1, DepthUses DEF One
  <2>7. Len(calls[s]) <= MaxCalls
    <3>1. SUFFICES ASSUME Len(calls[s]) > MaxCalls
                   PROVE  FALSE
      BY <1>1, EmptyFacts
    <3>2. Last(calls[s]).kind = "onBegin" /\ d = 0
      <4>1. calls[s] # <<>> /\ Last(calls[s]).kind # "sleep"
        BY <1>1, <3>1, EmptyFacts DEF Running, At, Call
      <4> QED BY <3>1, <4>1, SessionFacts DEF LongOK
    <3>3. mConnection[s] \in Conn /\ native[mConnection[s]].open
      BY <3>1, <3>2, ListenerOwns
    <3>4. mConnection'[s] = mConnection[s]
      BY <1>1, <3>2, <3>3, StartEffect, AcquireEffect, SessionAssumption
    <3> QED BY <1>1, <3>2, <3>3, <3>4, StartEffect
  <2> QED BY <1>1, <1>2, <2>2, <2>3, <2>5, <2>6, <2>7, ShortOK, SessionStep
<1> QED BY <1>3, <1>4

\* The listener is called with one use counted for it, which goes over to the frame.
LEMMA ListenerUses ==
  ASSUME IInv, NEW s \in Session, At(s, "onBegin"), ~HasOwnTransaction(s)
  PROVE  /\ Depth(s) < MaxDepth
         /\ Uses(Front(calls[s]), Depth(s) + 1) = mConnectionUseCount[s]
         /\ Uses(Front(calls[s]), Depth(s)) = mConnectionUseCount[s] - One(Depth(s) = 0)
         /\ Uses(Front(calls[s]), Depth(s)) \in Nat
<1> DEFINE d == Depth(s)  fs == Front(calls[s])
<1>1. /\ calls[s] # <<>> /\ Call(s).kind = "onBegin" /\ d \in Nat
      /\ mConnectionUseCount[s] = Uses(calls[s], d)
  BY SessionFacts DEF At
<1>2. /\ d < MaxDepth /\ Uses(calls[s], d) = Uses(fs, d) + One(Counting(Call(s)))
      /\ Call(s).base = d /\ fs \in Seq(Activations)
  BY <1>1, ReturnFacts
<1>3. One(Counting(Call(s))) = One(d = 0)
  BY <1>1, <1>2 DEF Counting
<1>4. d + 1 > 0 /\ d + 1 \in Nat
  BY <1>1
<1>5. /\ Uses(fs, d + 1) = Uses(fs, 1) /\ (d > 0 => Uses(fs, d) = Uses(fs, 1))
      /\ Uses(fs, 1) = Uses(fs, 0) + 1 /\ Uses(fs, d) \in Nat
  BY <1>1, <1>2, <1>4, DepthUses
<1>6. CASE d = 0
  BY <1>1, <1>2, <1>3, <1>5, <1>6 DEF One
<1>7. CASE d # 0
  BY <1>1, <1>2, <1>3, <1>5, <1>7 DEF One
<1> QED BY <1>6, <1>7

LEMMA OnBeginStep ==
  ASSUME IInv, NEW s \in Session, OnBeginReturns(s) \/ OnBeginThrows(s)
  PROVE  IInv' /\ StepOf(s)
<1> DEFINE d == Depth(s)  fs == Front(calls[s])
<1>1. /\ At(s, "onBegin") /\ ~HasOwnTransaction(s) /\ calls[s] # <<>>
      /\ calls' = [calls EXCEPT ![s] = fs] /\ HistoryEffect(s)
  <2>1. At(s, "onBegin") /\ ~HasOwnTransaction(s) /\ Return(s) /\ UNCHANGED nestedFailed
    BY DEF OnBeginReturns, OnBeginThrows
  <2> QED BY <2>1, SameHistory DEF Return, At
<1>2. /\ fs \in Seq(Activations) /\ Steady(fs, d) /\ CallsOK(fs, d) /\ Len(fs) <= MaxCalls
      /\ d \in Nat /\ d + 1 \in Nat /\ Base(fs) <= d + 1
  <2>1. fs \in Seq(Activations) /\ Steady(fs, d) /\ Len(fs) <= MaxCalls /\ d \in Nat
    BY <1>1, SessionFacts, ReturnFacts
  <2>2. Base(fs) \in Nat /\ Base(fs) <= d
    BY <2>1, BaseFacts DEF Steady
  <2> QED BY <2>1, <2>2 DEF Steady
<1>3. CASE OnBeginReturns(s)
  <2>1. PushTransaction(s, TRUE) /\ UNCHANGED <<connVars, dataVars>>
    BY <1>3 DEF OnBeginReturns
  <2>2. StackEffect(s, d + 1) /\ ConnectionEffect(s, mConnectionUseCount[s]) /\ DataEffect(s)
    BY <1>1, <2>1, PushEffect, SameConnection, DataSteps, ListenerUses
  <2>3. CallsOK(fs, d + 1)
    BY <1>2, DepthSteady DEF Steady
  <2> QED BY <1>1, <1>2, <2>2, <2>3, ListenerUses, ShortOK, SessionStep
<1>4. CASE OnBeginThrows(s)
  <2>1. StackEffect(s, d)
    BY <1>4, SameStack DEF OnBeginThrows
  <2>2. CASE d = 0
    <3>1. releaseConnection(s)
          /\ (NativeRollback(s) \/ NativeEndThrows(s, "rollbackFails"))
      BY <1>4, <2>2, SessionFacts DEF OnBeginThrows
    <3>2. mConnectionUseCount[s] > 0 /\ Uses(fs, d) = mConnectionUseCount[s] - 1
      BY <1>1, <2>2, ListenerUses, SessionFacts DEF One
    <3>3. mConnection[s] \in Conn
      BY <3>2, SessionFacts
    <3>4. ConnectionEffect(s, mConnectionUseCount[s] - 1) /\ DataEffect(s)
      BY <3>1, <3>2, <3>3, ReleaseEffect, DataSteps DEF NativeEndThrows
    <3> QED BY <1>1, <1>2, <2>1, <3>2, <3>4, ShortOK, SessionStep
  <2>3. CASE d # 0
    <3>1. UNCHANGED <<connVars, dataVars>>
      BY <1>4, <2>3, SessionFacts DEF OnBeginThrows
    <3>2. Uses(fs, d) = mConnectionUseCount[s]
      BY <1>1, <2>3, ListenerUses, SessionFacts DEF One
    <3>3. ConnectionEffect(s, mConnectionUseCount[s]) /\ DataEffect(s)
      BY <3>1, SameConnection, DataSteps
    <3> QED BY <1>1, <1>2, <2>1, <3>2, <3>3, ShortOK, SessionStep
  <2> QED BY <2>2, <2>3
<1> QED BY <1>3, <1>4

-----------------------------------------------------------------------------
(* setTransactionSuccessful, endTransaction and yieldTransaction.            *)

\* The mark is set on the innermost frame.
LEMMA MarkEffect ==
  ASSUME IInv, NEW s \in Session, setTransactionSuccessfulUnlessMarked(s)
  PROVE  /\ StackEffect(s, Depth(s)) /\ ConnectionEffect(s, mConnectionUseCount[s]) /\ DataEffect(s)
         /\ HistoryEffect(s) /\ Steady(calls[s], Depth(s))
         /\ Base(calls[s]) < Depth(s) /\ Depth(s) > 0 /\ Len(calls[s]) <= MaxCalls
         /\ \A i \in 1 .. Depth(s) :
              mTransactionStack'[s][i] = IF i # Depth(s) THEN mTransactionStack[s][i]
                ELSE [mTransactionStack[s][i] EXCEPT !.markedSuccessful = TRUE]
<1> DEFINE st == mTransactionStack[s]  d == Depth(s)
           f == [st[d] EXCEPT !.markedSuccessful = TRUE]
           q == [st EXCEPT ![d] = f]
<1>1. /\ Running(s) /\ HasOwnTransaction(s) /\ UNCHANGED <<connVars, dataVars, nestedFailed>>
      /\ UNCHANGED mTransactionPool
      /\ mTransactionStack' = [mTransactionStack EXCEPT ![s][d].markedSuccessful = TRUE]
  BY DEF setTransactionSuccessfulUnlessMarked
<1>2. /\ Steady(calls[s], d) /\ Base(calls[s]) < d /\ d > 0 /\ d \in Nat /\ d <= MaxDepth
      /\ Len(calls[s]) <= MaxCalls /\ st \in Seq(Frames) /\ Len(st) = d
  BY <1>1, RunningFacts, SessionFacts DEF Depth
<1>3. /\ mTransactionStack \in [Session -> Seq(Frames)]
      /\ mTransactionPool \in [Session -> Seq(Frames)] /\ HistoryEffect(s)
  BY <1>1, SameHistory DEF IInv, TypeOK
<1>4. d \in 1 .. Len(st) /\ st[d] \in Frames
  BY <1>2
<1>5. f \in Frames
  BY <1>4 DEF Frames
<1>6. mTransactionStack' = [mTransactionStack EXCEPT ![s] = q]
  BY <1>1, <1>3
<1> HIDE DEF f
<1>7. q \in Seq(Frames) /\ Len(q) = d /\ \A i \in 1 .. d : q[i] = IF i = d THEN f ELSE st[i]
  BY <1>2, <1>4, <1>5
<1> HIDE DEF q
<1>8. StackEffect(s, d)
  BY <1>1, <1>2, <1>3, <1>6, <1>7 DEF StackEffect
<1>9. mTransactionStack'[s] = q
  BY <1>3, <1>6
<1>10. ConnectionEffect(s, mConnectionUseCount[s]) /\ DataEffect(s)
  BY <1>1, SameConnection, DataSteps
<1> QED BY <1>1, <1>2, <1>3, <1>7, <1>8, <1>9, <1>10 DEF f

LEMMA SetSuccessfulStep ==
  ASSUME IInv, NEW s \in Session, setTransactionSuccessful(s)
  PROVE  IInv' /\ StepOf(s)
<1>1. setTransactionSuccessfulUnlessMarked(s) /\ calls' = [calls EXCEPT ![s] = calls[s]]
  BY DEF setTransactionSuccessful, IInv, TypeOK
<1>2. /\ calls[s] \in Seq(Activations) /\ CallsOK(calls[s], Depth(s)) /\ Len(calls[s]) <= MaxCalls
      /\ mConnectionUseCount[s] = Uses(calls[s], Depth(s))
  BY <1>1, SessionFacts, MarkEffect
<1> QED BY <1>1, <1>2, MarkEffect, ShortOK, SessionStep

LEMMA CommitStep ==
  ASSUME IInv, NEW s \in Session, executeCommit(s)
  PROVE  IInv' /\ StepOf(s)
<1> DEFINE a == Activation(s, "commit", FALSE, FALSE, FALSE)
           cs == Append(calls[s], a)
<1>1. /\ setTransactionSuccessfulUnlessMarked(s)
      /\ Len(calls[s]) < MaxCalls /\ calls' = [calls EXCEPT ![s] = cs]
  BY DEF executeCommit, Push
<1>2. a \in Activations /\ a.kind = "commit" /\ a.base = Depth(s)
  <2>1. "commit" \in Kinds /\ FALSE \in BOOLEAN
    BY DEF Kinds
  <2> QED BY <2>1, ActivationFacts
<1>3. /\ Steady(calls[s], Depth(s)) /\ Base(calls[s]) < Depth(s) /\ Depth(s) \in Nat /\ MaxCalls \in Nat
      /\ mConnectionUseCount[s] = Uses(calls[s], Depth(s)) /\ Uses(calls[s], Depth(s)) \in Nat
  BY <1>1, MarkEffect, SessionFacts
<1> HIDE DEF a
<1>4. /\ cs \in Seq(Activations) /\ CallsOK(cs, Depth(s)) /\ Len(cs) <= MaxCalls
      /\ Uses(cs, Depth(s)) = Uses(calls[s], Depth(s)) + One(Counting(a))
  BY <1>1, <1>2, <1>3, PushFacts
<1>5. One(Counting(a)) = 0
  BY <1>2 DEF Counting, One
<1> HIDE DEF cs
<1>6. mConnectionUseCount[s] = Uses(cs, Depth(s))
  BY <1>3, <1>4, <1>5
<1> QED BY <1>1, <1>4, <1>6, MarkEffect, ShortOK, SessionStep

\* rest is what remains of the calls when the innermost transaction has ended.
Remains(s, rest) ==
  /\ Steady(rest, Depth(s)) /\ Base(rest) < Depth(s) /\ Len(rest) <= MaxCalls
  /\ Uses(rest, Depth(s)) = mConnectionUseCount[s]

LEMMA RunningRemains ==
  ASSUME IInv, NEW s \in Session, Running(s), HasOwnTransaction(s)
  PROVE  Remains(s, calls[s])
BY RunningFacts, SessionFacts DEF Remains

LEMMA ReturnRemains ==
  ASSUME IInv, NEW s \in Session, At(s, "commit") \/ (At(s, "onEnd") /\ ~HasOwnTransaction(s))
  PROVE  Remains(s, Front(calls[s]))
<1>1. calls[s] # <<>> /\ Call(s).kind \in {"onEnd", "commit"}
      /\ (Call(s).kind = "onEnd" => ~HasOwnTransaction(s))
  BY DEF At
<1>2. One(Counting(Call(s))) = 0
  BY <1>1 DEF Counting, One
<1>3. Uses(Front(calls[s]), Depth(s)) \in Nat
  BY <1>1, ReturnFacts, SessionFacts, UsesType
<1> QED BY <1>1, <1>2, <1>3, ReturnFacts, SessionFacts DEF Remains

LEMMA FinishEndStep ==
  ASSUME IInv, NEW s \in Session, NEW rest, Remains(s, rest),
         NEW ok, NEW yielding, FinishEnd(s, ok, yielding, rest), Depth(s) > 0, Top(s).listener \in BOOLEAN
  PROVE  IInv' /\ StepOf(s)
<1> DEFINE d == Depth(s)
<1>1. /\ d \in Nat /\ d > 0 /\ d - 1 \in Nat /\ rest \in Seq(Activations) /\ Base(rest) <= d - 1
      /\ Steady(rest, d) /\ Base(rest) \in Nat /\ Len(rest) <= MaxCalls
      /\ mConnectionUseCount[s] = Uses(rest, d)
  <2>1. d \in Nat /\ Steady(rest, d) /\ Base(rest) < d
    BY SessionFacts DEF Remains
  <2>2. Base(rest) \in Nat
    BY <2>1, BaseFacts DEF Steady
  <2> QED BY <2>1, <2>2 DEF Remains, Steady
<1>2. Steady(rest, d - 1) /\ CallsOK(rest, d - 1)
  <2>1. Steady(rest, d - 1)
    BY <1>1, DepthSteady
  <2> QED BY <2>1 DEF Steady
<1>3. StackEffect(s, d - 1)
  BY PopEffect DEF FinishEnd
<1>4. HistoryEffect(s)
  <2>1. nestedFailed \in [Session -> BOOLEAN]
    BY DEF IInv, TypeOK
  <2> QED BY <2>1 DEF FinishEnd, HistoryEffect
<1>5. CASE d > 1
  <2>1. calls' = [calls EXCEPT ![s] = rest] /\ UNCHANGED <<connVars, dataVars>>
    BY <1>5 DEF FinishEnd
  <2>2. Uses(rest, d - 1) = Uses(rest, d)
    BY <1>1, <1>5, DepthUses
  <2>3. ConnectionEffect(s, mConnectionUseCount[s]) /\ DataEffect(s)
    BY <2>1, SameConnection, DataSteps
  <2> QED BY <1>1, <1>2, <1>3, <1>4, <2>1, <2>2, <2>3, ShortOK, SessionStep
<1>6. CASE d = 1
  <2>0. d - 1 = 0 /\ StackEffect(s, 0) /\ CallsOK(rest, 0) /\ Steady(rest, 0)
    <3>1. d - 1 = 0
      BY <1>6
    <3> QED BY <1>2, <1>3, <3>1
  <2>1. Uses(rest, 0) \in Nat /\ mConnectionUseCount[s] = Uses(rest, 0) + 1
    BY <1>1, <1>6, DepthUses
  <2>2. mConnection[s] \in Conn /\ mConnectionUseCount[s] > 0
        /\ mConnectionUseCount[s] - 1 = Uses(rest, 0)
    <3>1. mConnectionUseCount[s] > 0 /\ mConnectionUseCount[s] - 1 = Uses(rest, 0)
      BY <2>1
    <3> QED BY <3>1, SessionFacts
  <2>3. EndOutermost(s, ok) \/ EndOutermostThrows(s, ok)
    BY <1>6 DEF FinishEnd
  <2>4. ConnectionEffect(s, mConnectionUseCount[s] - 1) /\ DataEffect(s)
    BY <2>2, <2>3, ReleaseEffect, DataSteps
       DEF EndOutermost, EndOutermostThrows, NativeEndThrows
  <2>5. CASE calls' = [calls EXCEPT ![s] = rest]
    BY <1>1, <1>4, <2>0, <2>2, <2>4, <2>5, ShortOK, SessionStep
  <2>6. CASE calls' # [calls EXCEPT ![s] = rest]
    <3> DEFINE b == Activation(s, "sleep", Top(s).listener, FALSE, FALSE)
               a == [b EXCEPT !.base = 0]
               cs == Append(rest, a)
    <3>1. calls' = [calls EXCEPT ![s] = cs]
      BY <1>6, <2>6 DEF FinishEnd
    <3>2. "sleep" \in Kinds /\ FALSE \in BOOLEAN /\ MaxDepth \in Nat /\ 0 < MaxDepth
          /\ 0 \in 0 .. MaxDepth
      BY <1>6, SessionFacts DEF Kinds
    <3>3. b \in Activations /\ b.kind = "sleep"
      BY <3>2, ActivationFacts
    <3> HIDE DEF b
    <3>4. a \in Activations /\ a.kind = "sleep" /\ a.base = 0
      BY <3>2, <3>3 DEF Activations
    <3> HIDE DEF a
    <3>5. /\ cs \in Seq(Activations) /\ CallsOK(cs, 0) /\ Len(cs) = Len(rest) + 1
          /\ Uses(cs, 0) = Uses(rest, 0) + One(Counting(a)) /\ Last(cs) = a
      BY <1>2, <1>6, <3>2, <3>4, PushFacts
    <3>6. One(Counting(a)) = 0
      BY <3>4 DEF Counting, One
    <3>7. LongOK(cs, 0, native'[mConnection'[s]].open)
      BY <1>1, <3>4, <3>5, SessionFacts, EmptyFacts DEF LongOK
    <3>8. mConnectionUseCount[s] - 1 = Uses(cs, 0)
      BY <2>1, <2>2, <3>5, <3>6
    <3> HIDE DEF cs
    <3> QED BY <1>4, <2>0, <2>4, <3>1, <3>5, <3>7, <3>8, SessionStep
  <2> QED BY <2>5, <2>6
<1> QED BY <1>1, <1>5, <1>6

\* A frame knows whether it has a listener.
LEMMA TopFacts ==
  ASSUME IInv, NEW s \in Session, Depth(s) > 0
  PROVE  /\ Top(s) \in Frames /\ Top(s) = mTransactionStack[s][Depth(s)] /\ Top(s).listener \in BOOLEAN
         /\ Top(s).markedSuccessful \in BOOLEAN /\ Top(s).childFailed \in BOOLEAN
<1>1. Depth(s) \in 1 .. Len(mTransactionStack[s]) /\ mTransactionStack[s] \in Seq(Frames)
  BY SessionFacts DEF Depth
<1>2. Top(s) \in Frames /\ Top(s) = mTransactionStack[s][Depth(s)]
  BY <1>1 DEF Top
<1> QED BY <1>2 DEF Frames

LEMMA EndUncheckedStep ==
  ASSUME IInv, NEW s \in Session, NEW rest, Remains(s, rest),
         NEW yielding \in BOOLEAN, EndUnchecked(s, yielding, rest)
  PROVE  IInv' /\ StepOf(s)
<1> DEFINE d == Depth(s)  ok == Successful(Top(s), yielding)
           a == Activation(s, "onEnd", TRUE, ok, yielding)
           cs == Append(rest, a)
<1>1. /\ Steady(rest, d) /\ Base(rest) < d /\ Base(rest) \in Nat /\ d \in Nat /\ d > 0
      /\ Uses(rest, d) = mConnectionUseCount[s] /\ Uses(rest, d) \in Nat /\ Len(rest) \in Nat
  <2>1. Steady(rest, d) /\ Base(rest) < d /\ Uses(rest, d) = mConnectionUseCount[s] /\ d \in Nat
    BY SessionFacts DEF Remains
  <2>2. Base(rest) \in Nat /\ Len(rest) \in Nat
    BY <2>1, BaseFacts, EmptyFacts DEF Steady
  <2> QED BY <2>1, <2>2, SessionFacts
<1>2. Top(s).listener \in BOOLEAN /\ ok \in BOOLEAN
  BY <1>1, TopFacts DEF Successful
<1>3. CASE ~Top(s).listener
  <2>1. FinishEnd(s, ok, yielding, rest)
    BY <1>3 DEF EndUnchecked
  <2> HIDE DEF ok
  <2> QED BY <1>1, <1>2, <2>1, FinishEndStep
<1>4. CASE Top(s).listener
  <2>1. /\ Len(rest) < MaxCalls /\ calls' = [calls EXCEPT ![s] = cs]
        /\ UNCHANGED <<connVars, stackVars, dataVars, nestedFailed>>
    BY <1>4 DEF EndUnchecked
  <2>2. a \in Activations /\ a.kind = "onEnd" /\ a.base = d
    <3> DEFINE l == TRUE
    <3>1. "onEnd" \in Kinds /\ l \in BOOLEAN
      BY DEF Kinds
    <3> HIDE DEF ok, l
    <3>2. LET b == Activation(s, "onEnd", l, ok, yielding)
          IN b \in Activations /\ b.kind = "onEnd" /\ b.base = d
      BY <1>2, <3>1, ActivationFacts
    <3> QED BY <3>2 DEF l
  <2> HIDE DEF a
  <2>3. /\ cs \in Seq(Activations) /\ CallsOK(cs, d) /\ Len(cs) = Len(rest) + 1
        /\ Uses(cs, d) = Uses(rest, d) + One(Counting(a))
    BY <1>1, <2>2, PushFacts
  <2>4. One(Counting(a)) = 0
    BY <2>2 DEF Counting, One
  <2>5. Uses(cs, d) = mConnectionUseCount[s] /\ Len(cs) <= MaxCalls
    BY <1>1, <2>1, <2>3, <2>4, SessionFacts
  <2>6. /\ ConnectionEffect(s, mConnectionUseCount[s]) /\ StackEffect(s, d) /\ DataEffect(s)
        /\ HistoryEffect(s)
    BY <2>1, SameConnection, SameStack, DataSteps, SameHistory
  <2> HIDE DEF cs
  <2> QED BY <2>1, <2>3, <2>5, <2>6, ShortOK, SessionStep
<1> QED BY <1>2, <1>3, <1>4

LEMMA EndStep ==
  ASSUME IInv, NEW s \in Session,
         endTransaction(s) \/ executeCommitEnd(s) \/ yieldTransaction(s)
         \/ OnEndReturns(s) \/ OnEndThrows(s)
  PROVE  IInv' /\ StepOf(s)
<1>1. CASE endTransaction(s)
  BY <1>1, RunningRemains, EndUncheckedStep DEF endTransaction
<1>2. CASE yieldTransaction(s)
  BY <1>2, RunningRemains, EndUncheckedStep DEF yieldTransaction
<1>3. CASE executeCommitEnd(s)
  BY <1>3, ReturnRemains, EndUncheckedStep DEF executeCommitEnd
<1>4. CASE OnEndReturns(s) \/ OnEndThrows(s)
  <2>1. At(s, "onEnd") /\ ~HasOwnTransaction(s) /\ calls[s] # <<>>
    BY <1>4 DEF OnEndReturns, OnEndThrows, At
  <2>2. PICK ok, yielding : FinishEnd(s, ok, yielding, Front(calls[s]))
    BY <1>4 DEF OnEndReturns, OnEndThrows
  <2>3. Remains(s, Front(calls[s]))
    BY <2>1, ReturnRemains
  <2>4. Depth(s) > 0
    <3>1. Base(Front(calls[s])) \in Nat /\ Base(Front(calls[s])) < Depth(s) /\ Depth(s) \in Nat
      BY <2>1, <2>3, ReturnFacts, SessionFacts DEF Remains
    <3> QED BY <3>1
  <2> QED BY <2>2, <2>3, <2>4, TopFacts, FinishEndStep
<1> QED BY <1>1, <1>2, <1>3, <1>4

\* The sleep of a yield is the only call left with the transaction of its session ended.
LEMMA SleepFacts ==
  ASSUME IInv, NEW s \in Session, At(s, "sleep")
  PROVE  /\ calls[s] # <<>> /\ Depth(s) = 0 /\ 0 < MaxDepth /\ Call(s).base = 0
         /\ Steady(Front(calls[s]), 0) /\ Front(calls[s]) \in Seq(Activations)
         /\ CallsOK(Front(calls[s]), 0) /\ Len(Front(calls[s])) <= MaxCalls
         /\ Uses(Front(calls[s]), 0) = mConnectionUseCount[s] /\ Uses(Front(calls[s]), 0) \in Nat
<1>1. calls[s] # <<>> /\ Call(s).kind = "sleep"
  BY DEF At
<1>2. Depth(s) = 0 /\ 0 < MaxDepth /\ Call(s).base = 0 /\ Front(calls[s]) \in Seq(Activations)
      /\ Steady(Front(calls[s]), 0) /\ Len(Front(calls[s])) <= MaxCalls
      /\ Uses(calls[s], 0) = Uses(Front(calls[s]), 0) + One(Counting(Call(s)))
  BY <1>1, ReturnFacts
<1>3. One(Counting(Call(s))) = 0
  BY <1>1 DEF Counting, One
<1>4. Uses(Front(calls[s]), 0) \in Nat
  BY <1>2, UsesType
<1> QED BY <1>1, <1>2, <1>3, <1>4, SessionFacts DEF Steady

\* The activation of the sleep becomes that of the listener.
LEMMA ResumedCalls ==
  ASSUME IInv, NEW s \in Session, calls[s] # <<>>,
         calls' = [calls EXCEPT ![s][Len(calls[s])].kind = "onBegin"]
  PROVE  LET a == [Call(s) EXCEPT !.kind = "onBegin"] IN
           /\ a \in Activations /\ a.kind = "onBegin" /\ a.base = Call(s).base
           /\ calls' = [calls EXCEPT ![s] = Append(Front(calls[s]), a)]
<1> DEFINE fs == Front(calls[s])
           a == [Call(s) EXCEPT !.kind = "onBegin"]
           cs == Append(fs, a)
           n == Len(calls[s])
           ds == [calls[s] EXCEPT ![n] = [@ EXCEPT !.kind = "onBegin"]]
<1>1. a \in Activations /\ a.kind = "onBegin" /\ a.base = Call(s).base
  <2>1. Call(s) \in Activations
    BY ReturnFacts
  <2> QED BY <2>1 DEF Activations, Kinds
<1>2. calls \in [Session -> Seq(Activations)] /\ fs \in Seq(Activations)
  BY ReturnFacts DEF IInv, TypeOK
<1>3. calls' = [calls EXCEPT ![s] = ds]
  BY <1>2
<1>4. /\ calls[s] \in Seq(Activations) /\ n \in Nat /\ n > 0 /\ n \in 1 .. n
      /\ Call(s) = calls[s][n] /\ Len(fs) = n - 1 /\ \A i \in 1 .. n - 1 : fs[i] = calls[s][i]
  BY <1>2, FrontFacts, EmptyFacts DEF Call, Last
<1> HIDE DEF a
<1>5. ds = [calls[s] EXCEPT ![n] = a]
  BY <1>4 DEF a
<1>6. ds \in Seq(Activations) /\ Len(ds) = n
      /\ \A i \in 1 .. n : ds[i] = IF i = n THEN a ELSE calls[s][i]
  BY <1>1, <1>4, <1>5
<1>7. cs \in Seq(Activations) /\ Len(cs) = n /\ cs[n] = a
      /\ \A i \in 1 .. n - 1 : cs[i] = fs[i]
  <2>1. cs \in Seq(Activations) /\ Len(cs) = Len(fs) + 1 /\ cs[Len(fs) + 1] = a
        /\ \A i \in 1 .. Len(fs) : cs[i] = fs[i]
    BY <1>1, <1>2, AppendFacts
  <2>2. Len(fs) + 1 = n
    BY <1>4
  <2> QED BY <1>4, <2>1, <2>2
<1>8. ds = cs
  <2> HIDE DEF ds, cs, fs
  <2>1. \A i \in 1 .. n : i = n \/ i \in 1 .. n - 1
    BY <1>4
  <2>2. \A i \in 1 .. n : ds[i] = cs[i]
    BY <1>4, <1>6, <1>7, <2>1
  <2> QED BY <1>6, <1>7, <2>2, EqualStacks
<1>9. calls' = [calls EXCEPT ![s] = cs]
  <2> HIDE DEF ds, cs
  <2> QED BY <1>3, <1>8
<1> QED BY <1>1, <1>9 DEF a

LEMMA ResumeStep ==
  ASSUME IInv, NEW s \in Session, YieldResumes(s)
  PROVE  IInv' /\ StepOf(s)
<1> DEFINE fs == Front(calls[s])
           a == [Call(s) EXCEPT !.kind = "onBegin"]
           cs == Append(fs, a)
<1>1. At(s, "sleep") /\ StartTransaction(s) /\ HistoryEffect(s)
  BY SameHistory DEF YieldResumes
<1>2. /\ calls[s] # <<>> /\ Depth(s) = 0 /\ 0 < MaxDepth /\ Call(s).base = 0 /\ Steady(fs, 0)
      /\ fs \in Seq(Activations) /\ Len(fs) <= MaxCalls /\ Len(fs) \in Nat
      /\ Uses(fs, 0) = mConnectionUseCount[s] /\ Uses(fs, 0) \in Nat
  BY <1>1, SleepFacts, EmptyFacts
<1>3. /\ ConnectionEffect(s, mConnectionUseCount[s] + 1) /\ DataEffect(s)
      /\ native'[mConnection'[s]].open
  BY <1>1, <1>2, StartEffect
<1>4. CASE Call(s).listener
  <2>1. calls' = [calls EXCEPT ![s][Len(calls[s])].kind = "onBegin"] /\ UNCHANGED stackVars
    BY <1>4 DEF YieldResumes
  <2>2. a \in Activations /\ a.kind = "onBegin" /\ a.base = 0 /\ calls' = [calls EXCEPT ![s] = cs]
    BY <1>2, <2>1, ResumedCalls
  <2> HIDE DEF a
  <2>4. /\ cs \in Seq(Activations) /\ CallsOK(cs, 0) /\ Len(cs) = Len(fs) + 1 /\ Last(cs) = a
        /\ Uses(cs, 0) = Uses(fs, 0) + One(Counting(a))
    BY <1>2, <2>2, PushFacts
  <2>5. One(Counting(a)) = 1
    BY <2>2 DEF Counting, One
  <2>6. LongOK(cs, 0, native'[mConnection'[s]].open)
    BY <1>2, <1>3, <2>2, <2>4, SessionAssumption DEF LongOK
  <2>7. StackEffect(s, 0) /\ mConnectionUseCount[s] + 1 = Uses(cs, 0)
    BY <1>2, <2>1, <2>4, <2>5, SameStack
  <2> HIDE DEF cs
  <2> QED BY <1>1, <1>3, <2>2, <2>4, <2>6, <2>7, SessionStep
<1>5. CASE ~Call(s).listener
  <2>1. PushTransaction(s, FALSE) /\ calls' = [calls EXCEPT ![s] = fs]
    BY <1>5 DEF YieldResumes, Return
  <2>2. StackEffect(s, 1)
    <3>1. Depth(s) < MaxDepth /\ Depth(s) + 1 = 1 /\ FALSE \in BOOLEAN
      BY <1>2
    <3>2. StackEffect(s, Depth(s) + 1)
      BY <2>1, <3>1, PushEffect
    <3> QED BY <3>1, <3>2
  <2>3. CallsOK(fs, 1)
    <3>1. Base(fs) \in Nat /\ Base(fs) <= 0
      BY <1>2, BaseFacts DEF Steady
    <3>2. Base(fs) <= 1
      BY <3>1
    <3> QED BY <1>2, <3>2, DepthSteady DEF Steady
  <2>4. mConnectionUseCount[s] + 1 = Uses(fs, 1)
    BY <1>2, DepthUses
  <2> QED BY <1>1, <1>2, <1>3, <2>1, <2>2, <2>3, <2>4, ShortOK, SessionStep
<1> QED BY <1>4, <1>5

LEMMA ResumeThrowsStep ==
  ASSUME IInv, NEW s \in Session, YieldResumeThrows(s)
  PROVE  IInv' /\ StepOf(s)
<1>1. /\ At(s, "sleep") /\ calls' = [calls EXCEPT ![s] = Front(calls[s])]
      /\ UNCHANGED <<connVars, stackVars, dataVars, nestedFailed>>
  BY DEF YieldResumeThrows, Return
<1>2. /\ ConnectionEffect(s, mConnectionUseCount[s]) /\ StackEffect(s, 0) /\ DataEffect(s)
      /\ HistoryEffect(s)
  BY <1>1, SleepFacts, SameConnection, SameStack, DataSteps, SameHistory
<1> QED BY <1>1, <1>2, SleepFacts, ShortOK, SessionStep

LEMMA CloseIdleStep ==
  ASSUME IInv, NEW c \in Conn, CloseIdleConnection(c)
  PROVE  IInv'
<1> DEFINE closed == [open |-> FALSE, pending |-> {}]
<1>1. /\ owner[c] = NoSession /\ native' = [native EXCEPT ![c] = closed]
      /\ UNCHANGED <<connVars, stackVars, calls, durable, written, nestedFailed>>
  BY DEF CloseIdleConnection
<1>2. native \in [Conn -> [open : BOOLEAN, pending : SUBSET Write]]
  BY DEF IInv, TypeOK
<1>3. closed \in [open : BOOLEAN, pending : SUBSET Write]
  OBVIOUS
<1> HIDE DEF closed
<1>4. native' \in [Conn -> [open : BOOLEAN, pending : SUBSET Write]]
  BY <1>1, <1>2, <1>3
<1>5. /\ UNCHANGED <<mConnection, mConnectionUseCount, owner, mTransactionStack, mTransactionPool>>
      /\ UNCHANGED <<calls, durable, written, nestedFailed>>
  BY <1>1 DEF connVars, stackVars
<1>6. TypeOK'
  BY <1>4, <1>5 DEF IInv, TypeOK, Depth
<1>7. ASSUME NEW s \in Session
      PROVE  SessionInv(s)'
  <2>1. SessionInv(s) /\ Depth(s)' = Depth(s)
    BY <1>5 DEF IInv, Depth
  <2>2. LongOK(calls[s], Depth(s), native'[mConnection[s]].open)
    <3>1. CASE Len(calls[s]) > MaxCalls /\ Last(calls[s]).kind = "onBegin"
      <4>1. mConnection[s] \in Conn /\ owner[mConnection[s]] = s /\ s # NoSession
        BY <3>1, ListenerOwns, SessionFacts
      <4>2. native'[mConnection[s]] = native[mConnection[s]]
        BY <1>1, <1>2, <4>1
      <4> QED BY <2>1, <4>2 DEF SessionInv
    <3>2. CASE ~(Len(calls[s]) > MaxCalls /\ Last(calls[s]).kind = "onBegin")
      BY <2>1, <3>2 DEF SessionInv, LongOK
    <3> QED BY <3>1, <3>2
  <2> QED BY <1>5, <2>1, <2>2 DEF SessionInv, ConnectionInv
<1> QED BY <1>6, <1>7 DEF IInv

-----------------------------------------------------------------------------
LEMMA InitIInv == Init => IInv
<1> SUFFICES ASSUME Init
             PROVE  IInv
  OBVIOUS
<1>1. /\ MaxDepth \in Nat /\ MaxCalls \in Nat /\ MaxWrites \in Nat /\ NoConn \notin Conn
      /\ NoSession \notin Session
  BY SessionAssumption
<1>2. <<>> \in Seq(Frames) /\ <<>> \in Seq(Activations) /\ Len(<<>>) = 0
  BY EmptyFacts
<1>3. [open |-> FALSE, pending |-> {}] \in [open : BOOLEAN, pending : SUBSET Write]
  OBVIOUS
<1>4. /\ mTransactionStack \in [Session -> Seq(Frames)]
      /\ mTransactionPool \in [Session -> Seq(Frames)]
      /\ calls \in [Session -> Seq(Activations)]
      /\ \A s \in Session : Depth(s) = 0 /\ calls[s] = <<>> /\ Len(calls[s]) = 0
  BY <1>2 DEF Init, Depth
<1>5. /\ mConnection \in [Session -> Conn \cup {NoConn}]
      /\ mConnectionUseCount \in [Session -> 0 .. MaxCalls + 1]
      /\ owner \in [Conn -> Session \cup {NoSession}]
      /\ durable \subseteq Write /\ written \in [Session -> 0 .. MaxWrites]
      /\ nestedFailed \in [Session -> BOOLEAN]
  BY <1>1 DEF Init, Pool!Init
<1>6. native \in [Conn -> [open : BOOLEAN, pending : SUBSET Write]]
  <2> DEFINE closed == [open |-> FALSE, pending |-> {}]
  <2>1. native = [c \in Conn |-> closed] /\ closed \in [open : BOOLEAN, pending : SUBSET Write]
    BY DEF Init
  <2> HIDE DEF closed
  <2> QED BY <2>1
<1>7. TypeOK
  BY <1>1, <1>4, <1>5, <1>6 DEF TypeOK
<1>8. ASSUME NEW s \in Session
      PROVE  SessionInv(s)
  <2>1. calls[s] = <<>> /\ Depth(s) = 0 /\ mConnectionUseCount[s] = 0 /\ mConnection[s] = NoConn
        /\ \A c \in Conn : owner[c] = NoSession
    BY <1>4 DEF Init, Pool!Init
  <2>2. Uses(calls[s], Depth(s)) = 0
    <3>1. calls[s] \in Seq(Activations) /\ 0 \in Nat
      BY <1>2, <2>1
    <3>2. Cardinality(Counted(calls[s])) = 0
      BY <2>1, <3>1, CountedFacts
    <3>3. Uses(calls[s], 0) = Cardinality(Counted(calls[s]))
      BY <3>1, UsesType
    <3> QED BY <2>1, <3>2, <3>3
  <2>3. CallsOK(calls[s], Depth(s))
    BY <2>1 DEF CallsOK
  <2>4. LongOK(calls[s], Depth(s), native[mConnection[s]].open)
    <3>1. calls[s] \in Seq(Activations) /\ Len(calls[s]) <= MaxCalls
      BY <1>1, <1>2, <2>1
    <3> QED BY <3>1, ShortOK
  <2>5. ConnectionInv(s)
    BY <1>1, <2>1, <2>2 DEF ConnectionInv
  <2> QED BY <2>3, <2>4, <2>5 DEF SessionInv
<1> QED BY <1>7, <1>8 DEF IInv

LEMMA Stutter ==
  ASSUME IInv, UNCHANGED vars
  PROVE  IInv'
<1>1. /\ UNCHANGED <<mConnection, mConnectionUseCount, owner, mTransactionStack, mTransactionPool>>
      /\ UNCHANGED <<calls, native, durable, written, nestedFailed>>
  BY DEF vars, connVars, stackVars, dataVars
<1>2. TypeOK'
  BY <1>1 DEF IInv, TypeOK, Depth
<1>3. ASSUME NEW s \in Session
      PROVE  SessionInv(s)'
  <2>1. SessionInv(s) /\ Depth(s)' = Depth(s)
    BY <1>1 DEF IInv, Depth
  <2> QED BY <1>1, <2>1 DEF SessionInv, ConnectionInv
<1> QED BY <1>2, <1>3 DEF IInv

LEMMA NextIInv == IInv /\ [Next]_vars => IInv'
<1> SUFFICES ASSUME IInv, [Next]_vars
             PROVE  IInv'
  OBVIOUS
<1>1. ASSUME NEW s \in Session, ExecuteBegin(s)
      PROVE  IInv'
  BY <1>1, ExecuteBeginStep
<1>2. ASSUME NEW s \in Session, ExecuteWrite(s) \/ ExecuteRead(s) \/ ExecuteConflict(s)
      PROVE  IInv'
  BY <1>2, ExecuteStep
<1>3. ASSUME NEW s \in Session, NEW l \in Listeners, beginTransaction(s, l)
      PROVE  IInv'
  <2>1. l \in BOOLEAN
    BY DEF Listeners
  <2> QED BY <1>3, <2>1, BeginStep
<1>4. ASSUME NEW s \in Session, OnBeginReturns(s) \/ OnBeginThrows(s)
      PROVE  IInv'
  BY <1>4, OnBeginStep
<1>5. ASSUME NEW s \in Session, setTransactionSuccessful(s)
      PROVE  IInv'
  BY <1>5, SetSuccessfulStep
<1>6. ASSUME NEW s \in Session, executeCommit(s)
      PROVE  IInv'
  BY <1>6, CommitStep
<1>7. ASSUME NEW s \in Session, endTransaction(s) \/ executeCommitEnd(s) \/ yieldTransaction(s)
                                \/ OnEndReturns(s) \/ OnEndThrows(s)
      PROVE  IInv'
  BY <1>7, EndStep
<1>8. ASSUME NEW s \in Session, YieldResumes(s)
      PROVE  IInv'
  BY <1>8, ResumeStep
<1>9. ASSUME NEW s \in Session, YieldResumeThrows(s)
      PROVE  IInv'
  BY <1>9, ResumeThrowsStep
<1>10. ASSUME NEW c \in Conn, CloseIdleConnection(c)
       PROVE  IInv'
  BY <1>10, CloseIdleStep
<1>11. CASE UNCHANGED vars
  BY <1>11, Stutter
<1> QED BY <1>1, <1>2, <1>3, <1>4, <1>5, <1>6, <1>7, <1>8, <1>9, <1>10, <1>11 DEF Next

LEMMA Invariant == Spec => []IInv
BY InitIInv, NextIInv, PTL DEF Spec

-----------------------------------------------------------------------------
(* The theorems.                                                             *)

\* The variables of the session keep their types, and the use count its bound.
THEOREM TypeCorrect == Spec => []TypeOK
<1>1. IInv => TypeOK
  BY DEF IInv
<1> QED BY <1>1, Invariant, PTL

\* Statements in progress, begins in progress and the transaction make up the use count.
LEMMA UsesSplit ==
  ASSUME IInv, NEW s \in Session
  PROVE  Cardinality(Statements(s)) + Cardinality(BeginningOutermost(s)) = Cardinality(Counted(calls[s]))
<1> DEFINE S == Statements(s)  B == BeginningOutermost(s)
<1>1. /\ DOMAIN calls[s] = 1 .. Len(calls[s]) /\ Len(calls[s]) \in Int /\ 1 \in Int
      /\ S \in SUBSET (1 .. Len(calls[s])) /\ B \in SUBSET (1 .. Len(calls[s]))
  BY SessionFacts, EmptyFacts DEF Statements, BeginningOutermost
<1>2. IsFiniteSet(1 .. Len(calls[s]))
  BY <1>1, FS_Interval
<1>3. IsFiniteSet(S) /\ IsFiniteSet(B)
  BY <1>1, <1>2, FS_Subset
<1>4. S \cap B = {} /\ S \cup B = Counted(calls[s])
  BY DEF Statements, BeginningOutermost, Counted, Counting
<1> HIDE DEF S, B
<1>5. Cardinality(S \cup B) = Cardinality(S) + Cardinality(B) - Cardinality(S \cap B)
  BY <1>3, FS_Union
<1>6. Cardinality(S) \in Nat /\ Cardinality(B) \in Nat /\ Cardinality({}) = 0
  BY <1>3, FS_CardinalityType, FS_EmptySet
<1> QED BY <1>4, <1>5, <1>6 DEF S, B

\* mConnectionUseCount is exact at any nesting and re-entrance and with every failure: no
\* connection stays with a session that has returned, none is given back in use.
THEOREM UseCountCorrect == Spec => []UseCountExact
<1>1. IInv => UseCountExact
  <2> SUFFICES ASSUME IInv, NEW s \in Session
               PROVE  /\ mConnectionUseCount[s] = Cardinality(Statements(s))
                           + Cardinality(BeginningOutermost(s)) + IF Depth(s) > 0 THEN 1 ELSE 0
                      /\ \A c \in Conn : owner[c] = s <=> mConnection[s] = c
                      /\ (mConnection[s] # NoConn) = (mConnectionUseCount[s] > 0)
    BY DEF UseCountExact
  <2>1. mConnectionUseCount[s] = Cardinality(Counted(calls[s])) + IF Depth(s) > 0 THEN 1 ELSE 0
    BY SessionFacts DEF Uses, One
  <2> QED BY <2>1, UsesSplit, SessionFacts
<1> QED BY <1>1, Invariant, PTL

-----------------------------------------------------------------------------
(* Where COMMIT and ROLLBACK end what they are asked to end, an open native  *)
(* transaction is that of the session which has the connection.              *)

EndsSucceed == Env \cap {"commitFails", "rollbackFails"} = {}

InTransaction(s) == Depth(s) > 0 \/ BeginningOutermost(s) # {}

OpenInv ==
  \A c \in Conn : native[c].open => owner[c] \in Session /\ InTransaction(owner[c])

Beginning(a) == a.kind = "onBegin" /\ a.base = 0
Began(cs) == \E i \in DOMAIN cs : Beginning(cs[i])

LEMMA BeganFacts ==
  ASSUME NEW cs \in Seq(Activations), NEW a \in Activations, NEW d \in Nat
  PROVE  /\ Began(Append(cs, a)) <=> Began(cs) \/ Beginning(a)
         /\ Began(cs) \/ d > 0 => Uses(cs, d) > 0
<1>1. /\ Append(cs, a) \in Seq(Activations) /\ Len(cs) \in Nat /\ Len(Append(cs, a)) = Len(cs) + 1
      /\ \A i \in 1 .. Len(cs) : Append(cs, a)[i] = cs[i]
      /\ Append(cs, a)[Len(cs) + 1] = a /\ DOMAIN cs = 1 .. Len(cs)
      /\ DOMAIN Append(cs, a) = 1 .. Len(cs) + 1
  BY AppendFacts, EmptyFacts
<1>2. \A i \in 1 .. Len(cs) + 1 : i \in 1 .. Len(cs) \/ i = Len(cs) + 1
  BY <1>1
<1>3. \A i \in 1 .. Len(cs) : i \in 1 .. Len(cs) + 1
  BY <1>1
<1>4. Len(cs) + 1 \in 1 .. Len(cs) + 1
  BY <1>1
<1> DEFINE as == Append(cs, a)
<1>5. Began(as) <=> Began(cs) \/ Beginning(a)
  <2> HIDE DEF as
  <2> SUFFICES (\E i \in DOMAIN as : Beginning(as[i]))
                 <=> (\E i \in DOMAIN cs : Beginning(cs[i])) \/ Beginning(a)
    BY DEF Began
  <2> HIDE DEF Beginning
  <2> QED BY <1>1, <1>2, <1>3, <1>4 DEF as
<1>6. Began(cs) => Cardinality(Counted(cs)) > 0
  BY CountedFacts DEF Began, Beginning, Counting
<1>7. Began(cs) \/ d > 0 => Uses(cs, d) > 0
  BY <1>6, UsesType
<1> QED BY <1>5, <1>7

LEMMA InTransactionFacts ==
  ASSUME IInv, NEW s \in Session
  PROVE  /\ InTransaction(s) <=> Depth(s) > 0 \/ Began(calls[s])
         /\ InTransaction(s) => mConnection[s] \in Conn /\ owner[mConnection[s]] = s
<1>1. InTransaction(s) <=> Depth(s) > 0 \/ Began(calls[s])
  BY DEF InTransaction, BeginningOutermost, Began, Beginning
<1>2. InTransaction(s) => mConnectionUseCount[s] > 0
  <2>1. calls[s] \in Seq(Activations) /\ Depth(s) \in Nat
        /\ mConnectionUseCount[s] = Uses(calls[s], Depth(s))
    BY SessionFacts
  <2>2. Began(calls[s]) => Cardinality(Counted(calls[s])) > 0
    BY <2>1, CountedFacts DEF Began, Beginning, Counting
  <2> QED BY <1>1, <2>1, <2>2, UsesType
<1> QED BY <1>1, <1>2, SessionFacts

\* It is enough to look at the connection that the session has or had.
LEMMA OpenStep ==
  ASSUME IInv, IInv', OpenInv, NEW s \in Session, StepOf(s),
         mConnection'[s] \in Conn /\ native'[mConnection'[s]].open => InTransaction(s)',
         mConnection[s] \in Conn /\ mConnection'[s] # mConnection[s] => ~native'[mConnection[s]].open
  PROVE  OpenInv'
<1> SUFFICES ASSUME NEW c \in Conn, native'[c].open
             PROVE  owner'[c] \in Session /\ InTransaction(owner[c])'
  BY DEF OpenInv
<1>1. owner \in [Conn -> Session \cup {NoSession}] /\ owner' \in [Conn -> Session \cup {NoSession}]
  BY DEF IInv, TypeOK
<1>2. /\ owner[c] = s <=> mConnection[s] = c
      /\ owner'[c] = s <=> mConnection'[s] = c
      /\ NoSession \notin Session
  BY SessionAssumption DEF IInv, SessionInv, ConnectionInv
<1>3. ASSUME NEW t \in Session \ {s}, owner'[c] = t
      PROVE  InTransaction(t)'
  <2>1. owner[c] = t /\ native'[c] = native[c] /\ calls'[t] = calls[t]
        /\ mTransactionStack'[t] = mTransactionStack[t]
    BY <1>3 DEF StepOf
  <2>2. InTransaction(t)
    BY <2>1 DEF OpenInv
  <2> QED BY <2>1, <2>2 DEF InTransaction, BeginningOutermost, Depth
<1>4. CASE owner'[c] = s
  BY <1>2, <1>4
<1>5. CASE owner'[c] = NoSession
  <2>1. owner[c] \notin Session \ {s}
    BY <1>2, <1>5 DEF StepOf
  <2>2. owner[c] = s => FALSE
    BY <1>2, <1>5
  <2>3. owner[c] = NoSession
    BY <1>1, <2>1, <2>2
  <2>4. native'[c] = native[c]
    BY <1>2, <1>5, <2>3 DEF StepOf
  <2> QED BY <1>2, <2>3, <2>4 DEF OpenInv
<1> QED BY <1>1, <1>3, <1>4, <1>5

\* Inside of a transaction the session keeps its connection, or the transaction is closed.
LEMMA OpenInside ==
  ASSUME IInv, IInv', OpenInv, NEW s \in Session, StepOf(s), InTransaction(s)',
         mConnection'[s] = mConnection[s] \/ mConnection[s] = NoConn
  PROVE  OpenInv'
BY OpenStep, SessionAssumption

LEMMA OpenClosed ==
  ASSUME IInv, IInv', OpenInv, NEW s \in Session, StepOf(s),
         mConnection[s] \in Conn, ~native'[mConnection[s]].open,
         mConnection'[s] = mConnection[s] \/ mConnection'[s] = NoConn
  PROVE  OpenInv'
BY OpenStep, SessionAssumption

LEMMA OpenExecuteBegin ==
  ASSUME IInv, IInv', OpenInv, NEW s \in Session, StepOf(s), ExecuteBegin(s)
  PROVE  OpenInv'
<1> DEFINE a == Activation(s, "statement", FALSE, FALSE, FALSE)
<1>1. /\ acquireConnection(s) /\ calls' = [calls EXCEPT ![s] = Append(calls[s], a)]
      /\ UNCHANGED <<stackVars, dataVars>>
  BY DEF ExecuteBegin, Push
<1>2. a \in Activations /\ a.kind = "statement"
  <2>1. "statement" \in Kinds /\ FALSE \in BOOLEAN
    BY DEF Kinds
  <2> QED BY <2>1, ActivationFacts
<1> HIDE DEF a
<1>3. ~Beginning(a)
  BY <1>2 DEF Beginning
<1>4. /\ calls[s] \in Seq(Activations) /\ Depth(s) \in Nat /\ Depth(s)' = Depth(s) /\ native' = native
      /\ calls'[s] = Append(calls[s], a)
  BY <1>1, SessionFacts DEF stackVars, dataVars, Depth, IInv, TypeOK
<1>5. InTransaction(s)' <=> InTransaction(s)
  <2>1. InTransaction(s)' <=> Depth(s)' > 0 \/ Began(calls'[s])
    BY InTransactionFacts DEF InTransaction, BeginningOutermost, Began, Beginning
  <2> QED BY <1>2, <1>3, <1>4, <2>1, InTransactionFacts, BeganFacts
<1>6. CASE mConnection[s] # NoConn
  <2>1. mConnection'[s] = mConnection[s]
    BY <1>1, <1>6, AcquireEffect
  <2>2. native[mConnection[s]].open /\ mConnection[s] \in Conn => InTransaction(s)
    BY SessionFacts DEF OpenInv
  <2> QED BY <1>4, <1>5, <2>1, <2>2, OpenStep
<1>7. CASE mConnection[s] = NoConn
  <2>1. owner[mConnection'[s]] = NoSession /\ mConnection'[s] \in Conn
    BY <1>1, <1>7, AcquireEffect
  <2>2. ~native[mConnection'[s]].open
    BY <2>1, SessionAssumption DEF OpenInv
  <2> QED BY <1>4, <1>7, <2>2, OpenStep, SessionAssumption
<1> QED BY <1>6, <1>7

LEMMA InTransactionPrime ==
  ASSUME NEW s \in Session
  PROVE  InTransaction(s)' <=> Depth(s)' > 0 \/ Began(calls'[s])
BY DEF InTransaction, BeginningOutermost, Began, Beginning

LEMMA OpenExecute ==
  ASSUME IInv, IInv', OpenInv, NEW s \in Session, StepOf(s),
         ExecuteWrite(s) \/ ExecuteRead(s) \/ ExecuteConflict(s)
  PROVE  OpenInv'
<1> DEFINE c == mConnection[s]  fs == Front(calls[s])
<1>1. ExecuteEnd(s) /\ calls[s] # <<>> /\ Call(s).kind = "statement"
  BY DEF ExecuteWrite, ExecuteRead, ExecuteConflict, ExecuteEnd, At
<1>2. /\ releaseConnection(s) /\ calls'[s] = fs /\ UNCHANGED stackVars
      /\ calls[s] = Append(fs, Call(s)) /\ fs \in Seq(Activations) /\ Call(s) \in Activations
      /\ mConnectionUseCount[s] = Uses(fs, Depth(s)) + One(Counting(Call(s)))
  BY <1>1, ReturnFacts, SessionFacts DEF ExecuteEnd, Return, IInv, TypeOK
<1>3. /\ ~Beginning(Call(s)) /\ One(Counting(Call(s))) = 1
  BY <1>1 DEF Beginning, Counting, One
<1>4. /\ Depth(s) \in Nat /\ Depth(s)' = Depth(s) /\ Uses(fs, Depth(s)) \in Nat
      /\ mConnectionUseCount[s] = Uses(fs, Depth(s)) + 1
  BY <1>2, <1>3, SessionFacts, UsesType DEF Depth, stackVars
<1>5. c \in Conn /\ owner[c] = s /\ mConnectionUseCount[s] > 0
  <2>1. mConnectionUseCount[s] > 0
    BY <1>4
  <2> QED BY <2>1, SessionFacts
<1>6. mConnection'[s] = c \/ mConnection'[s] = NoConn
  <2>1. mConnectionUseCount[s] > 1 \/ mConnectionUseCount[s] = 1
    BY <1>4
  <2> QED BY <1>2, <1>5, <2>1, ReleaseEffect
<1>7. native \in [Conn -> [open : BOOLEAN, pending : SUBSET Write]]
  BY DEF IInv, TypeOK
<1>8. CASE native'[c].open
  <2>1. native[c].open
    <3>1. CASE ExecuteWrite(s)
      <4>1. native' = [native EXCEPT ![c].pending = @ \cup {<<s, written[s] + 1>>}] \/ native' = native
        BY <3>1 DEF ExecuteWrite
      <4> QED BY <1>5, <1>7, <1>8, <4>1
    <3>2. CASE ExecuteRead(s)
      BY <1>8, <3>2 DEF ExecuteRead, dataVars
    <3>3. CASE ExecuteConflict(s)
      BY <3>3 DEF ExecuteConflict, NativeRollback
    <3> QED BY <3>1, <3>2, <3>3
  <2>2. Depth(s) > 0 \/ Began(fs)
    <3>1. InTransaction(s)
      BY <1>5, <2>1 DEF OpenInv
    <3>2. Began(Append(fs, Call(s))) <=> Began(fs) \/ Beginning(Call(s))
      BY <1>2, <1>4, BeganFacts
    <3>3. Depth(s) > 0 \/ Began(calls[s])
      BY <3>1, InTransactionFacts
    <3>4. Began(calls[s]) = Began(Append(fs, Call(s)))
      BY <1>2
    <3> HIDE DEF fs
    <3> QED BY <1>3, <3>2, <3>3, <3>4
  <2>3. InTransaction(s)'
    BY <1>2, <1>4, <2>2, InTransactionPrime
  <2>4. Uses(fs, Depth(s)) > 0
    BY <1>2, <1>4, <2>2, BeganFacts
  <2>5. mConnectionUseCount[s] > 1
    BY <1>4, <2>4
  <2>6. mConnection'[s] = c
    BY <1>2, <1>5, <2>5, ReleaseEffect
  <2> QED BY <2>3, <2>6, OpenInside
<1>9. CASE ~native'[c].open
  BY <1>5, <1>6, <1>9, OpenClosed
<1> QED BY <1>8, <1>9

LEMMA OpenBegin ==
  ASSUME IInv, IInv', OpenInv, NEW s \in Session, StepOf(s), NEW l \in BOOLEAN, beginTransaction(s, l)
  PROVE  OpenInv'
<1>1. StartTransaction(s) /\ Depth(s) \in Nat /\ Depth(s) < MaxDepth
  BY SessionFacts DEF beginTransaction
<1>2. mConnection'[s] = mConnection[s] \/ mConnection[s] = NoConn
  BY <1>1, StartEffect, AcquireEffect DEF connVars
<1>3. CASE l
  <2> DEFINE a == Activation(s, "onBegin", l, FALSE, FALSE)
  <2>1. calls' = [calls EXCEPT ![s] = Append(calls[s], a)] /\ UNCHANGED stackVars
    BY <1>3 DEF beginTransaction, Push
  <2>2. a \in Activations /\ a.kind = "onBegin" /\ a.base = Depth(s)
    BY OnBeginActivation
  <2> HIDE DEF a
  <2>3. /\ calls[s] \in Seq(Activations) /\ calls'[s] = Append(calls[s], a)
        /\ Depth(s)' = Depth(s)
    BY <2>1, SessionFacts DEF stackVars, Depth, IInv, TypeOK
  <2>4. Depth(s) = 0 => Beginning(a)
    BY <2>2 DEF Beginning
  <2>5. InTransaction(s)'
    <3>1. Began(Append(calls[s], a)) <=> Began(calls[s]) \/ Beginning(a)
      BY <1>1, <2>2, <2>3, BeganFacts
    <3>2. Depth(s) = 0 => Began(calls'[s])
      BY <2>3, <2>4, <3>1
    <3>3. Depth(s) > 0 => Depth(s)' > 0
      BY <2>3
    <3>4. Depth(s) = 0 \/ Depth(s) > 0
      BY <1>1
    <3> QED BY <3>2, <3>3, <3>4, InTransactionPrime
  <2> QED BY <1>2, <2>5, OpenInside
<1>4. CASE ~l
  <2>1. StackEffect(s, Depth(s) + 1)
    BY <1>1, <1>4, PushEffect DEF beginTransaction
  <2>2. Depth(s)' > 0
    BY <1>1, <2>1 DEF StackEffect, Depth
  <2> QED BY <1>2, <2>2, OpenInside, InTransactionPrime
<1> QED BY <1>3, <1>4

\* ROLLBACK and COMMIT leave no native transaction.
LEMMA EndedClosed ==
  ASSUME IInv, EndsSucceed, NEW s \in Session, mConnection[s] \in Conn,
         \/ NativeCommit(s) \/ NativeRollback(s)
         \/ NativeEndThrows(s, "commitFails") \/ NativeEndThrows(s, "rollbackFails")
  PROVE  ~native'[mConnection[s]].open
<1>1. native \in [Conn -> [open : BOOLEAN, pending : SUBSET Write]]
  BY DEF IInv, TypeOK
<1>2. CASE NativeCommit(s) \/ NativeRollback(s)
  BY <1>1, <1>2 DEF NativeCommit, NativeRollback
<1>3. CASE NativeEndThrows(s, "commitFails") \/ NativeEndThrows(s, "rollbackFails")
  BY <1>3 DEF NativeEndThrows, EndsSucceed, dataVars
<1> QED BY <1>2, <1>3

LEMMA OpenOnBegin ==
  ASSUME IInv, IInv', OpenInv, EndsSucceed, NEW s \in Session, StepOf(s),
         OnBeginReturns(s) \/ OnBeginThrows(s)
  PROVE  OpenInv'
<1>1. At(s, "onBegin") /\ ~HasOwnTransaction(s) /\ Depth(s) \in Nat
  BY SessionFacts DEF OnBeginReturns, OnBeginThrows
<1>2. CASE OnBeginReturns(s)
  <2>1. Depth(s) < MaxDepth
    BY <1>1, ListenerUses
  <2>2. StackEffect(s, Depth(s) + 1) /\ mConnection'[s] = mConnection[s]
    BY <1>2, <2>1, PushEffect DEF OnBeginReturns, connVars
  <2>3. Depth(s)' > 0
    BY <1>1, <2>2 DEF StackEffect, Depth
  <2> QED BY <2>2, <2>3, OpenInside, InTransactionPrime
<1>3. CASE OnBeginThrows(s) /\ Depth(s) > 0
  <2>1. mConnection'[s] = mConnection[s] /\ Depth(s)' = Depth(s)
    BY <1>3, SessionFacts DEF OnBeginThrows, connVars, stackVars, Depth
  <2> QED BY <1>3, <2>1, OpenInside, InTransactionPrime
<1>4. CASE OnBeginThrows(s) /\ Depth(s) = 0
  <2>1. releaseConnection(s) /\ (NativeRollback(s) \/ NativeEndThrows(s, "rollbackFails"))
    BY <1>4, SessionFacts DEF OnBeginThrows
  <2>2. mConnectionUseCount[s] > 0 /\ mConnectionUseCount[s] \in Nat
    BY <1>1, <1>4, ListenerUses, SessionFacts DEF One
  <2>3. mConnection[s] \in Conn
    BY <2>2, SessionFacts
  <2>4. mConnection'[s] = mConnection[s] \/ mConnection'[s] = NoConn
    <3>1. mConnectionUseCount[s] > 1 \/ mConnectionUseCount[s] = 1
      BY <2>2
    <3> QED BY <2>1, <2>2, <3>1, ReleaseEffect
  <2> QED BY <2>1, <2>3, <2>4, EndedClosed, OpenClosed
<1> QED BY <1>1, <1>2, <1>3, <1>4

LEMMA OpenFinishEnd ==
  ASSUME IInv, IInv', OpenInv, EndsSucceed, NEW s \in Session, StepOf(s), NEW rest, Remains(s, rest),
         NEW ok, NEW yielding, FinishEnd(s, ok, yielding, rest), Depth(s) > 0
  PROVE  OpenInv'
<1>1. Depth(s) \in Nat /\ StackEffect(s, Depth(s) - 1)
  BY SessionFacts, PopEffect DEF FinishEnd
<1>2. CASE Depth(s) > 1
  <2>1. Depth(s)' > 0
    BY <1>1, <1>2 DEF StackEffect, Depth
  <2>2. mConnection'[s] = mConnection[s]
    BY <1>2 DEF FinishEnd, connVars
  <2> QED BY <2>1, <2>2, OpenInside, InTransactionPrime
<1>3. CASE Depth(s) = 1
  <2>1. /\ releaseConnection(s)
        /\ \/ NativeCommit(s) \/ NativeRollback(s)
           \/ NativeEndThrows(s, "commitFails") \/ NativeEndThrows(s, "rollbackFails")
    BY <1>3 DEF FinishEnd, EndOutermost, EndOutermostThrows
  <2>2. mConnectionUseCount[s] > 0 /\ mConnectionUseCount[s] \in Nat
    BY <1>3, SessionFacts, UsesType
  <2>3. mConnection[s] \in Conn
    BY <2>2, SessionFacts
  <2>4. mConnection'[s] = mConnection[s] \/ mConnection'[s] = NoConn
    <3>1. mConnectionUseCount[s] > 1 \/ mConnectionUseCount[s] = 1
      BY <2>2
    <3> QED BY <2>1, <2>2, <3>1, ReleaseEffect
  <2> QED BY <2>1, <2>3, <2>4, EndedClosed, OpenClosed
<1> QED BY <1>1, <1>2, <1>3

LEMMA OpenEndUnchecked ==
  ASSUME IInv, IInv', OpenInv, EndsSucceed, NEW s \in Session, StepOf(s), NEW rest, Remains(s, rest),
         NEW yielding \in BOOLEAN, EndUnchecked(s, yielding, rest)
  PROVE  OpenInv'
<1>1. Depth(s) > 0
  <2>1. Steady(rest, Depth(s)) /\ Base(rest) < Depth(s) /\ Depth(s) \in Nat
    BY SessionFacts DEF Remains
  <2>2. Base(rest) \in Nat
    BY <2>1, BaseFacts DEF Steady
  <2> QED BY <2>1, <2>2
<1>2. CASE ~Top(s).listener
  <2>1. PICK ok : FinishEnd(s, ok, yielding, rest)
    BY <1>2 DEF EndUnchecked
  <2> QED BY <1>1, <2>1, OpenFinishEnd
<1>3. CASE Top(s).listener
  <2>1. mConnection'[s] = mConnection[s] /\ Depth(s)' = Depth(s)
    BY <1>3 DEF EndUnchecked, connVars, stackVars, Depth
  <2> QED BY <1>1, <2>1, OpenInside, InTransactionPrime
<1> QED BY <1>2, <1>3

LEMMA OpenEnd ==
  ASSUME IInv, IInv', OpenInv, EndsSucceed, NEW s \in Session, StepOf(s),
         endTransaction(s) \/ executeCommitEnd(s) \/ yieldTransaction(s)
         \/ OnEndReturns(s) \/ OnEndThrows(s)
  PROVE  OpenInv'
<1>1. CASE endTransaction(s)
  BY <1>1, RunningRemains, OpenEndUnchecked DEF endTransaction
<1>3. CASE yieldTransaction(s)
  BY <1>3, RunningRemains, OpenEndUnchecked DEF yieldTransaction
<1>4. CASE executeCommitEnd(s)
  BY <1>4, ReturnRemains, OpenEndUnchecked DEF executeCommitEnd
<1>2. CASE OnEndReturns(s) \/ OnEndThrows(s)
  <2>1. At(s, "onEnd") /\ ~HasOwnTransaction(s) /\ calls[s] # <<>>
    BY <1>2 DEF OnEndReturns, OnEndThrows, At
  <2>2. PICK ok, yielding : FinishEnd(s, ok, yielding, Front(calls[s]))
    BY <1>2 DEF OnEndReturns, OnEndThrows
  <2>3. Remains(s, Front(calls[s]))
    BY <2>1, ReturnRemains
  <2>4. Depth(s) > 0
    <3>1. Base(Front(calls[s])) \in Nat /\ Base(Front(calls[s])) < Depth(s) /\ Depth(s) \in Nat
      BY <2>1, <2>3, ReturnFacts, SessionFacts DEF Remains
    <3> QED BY <3>1
  <2> QED BY <2>2, <2>3, <2>4, OpenFinishEnd
<1> QED BY <1>1, <1>2, <1>3, <1>4

LEMMA OpenResume ==
  ASSUME IInv, IInv', OpenInv, NEW s \in Session, StepOf(s), YieldResumes(s)
  PROVE  OpenInv'
<1>1. /\ At(s, "sleep") /\ StartTransaction(s) /\ Depth(s) = 0 /\ calls[s] # <<>> /\ 0 < MaxDepth
      /\ Call(s).base = 0
  BY SleepFacts DEF YieldResumes
<1>2. mConnection'[s] = mConnection[s] \/ mConnection[s] = NoConn
  BY <1>1, StartEffect, AcquireEffect
<1>3. CASE Call(s).listener
  <2> DEFINE n == Len(calls[s])
             a == [calls[s][n] EXCEPT !.kind = "onBegin"]
  <2>1. calls' = [calls EXCEPT ![s][n].kind = "onBegin"] /\ calls \in [Session -> Seq(Activations)]
    BY <1>3 DEF YieldResumes, IInv, TypeOK
  <2>2. n \in DOMAIN calls[s] /\ calls[s][n] \in Activations /\ calls[s][n].base = 0
    BY <1>1, <2>1, EmptyFacts DEF Call, Last
  <2>3. calls'[s] = [calls[s] EXCEPT ![n] = a]
    BY <2>1
  <2>4. Beginning(a)
    BY <2>2 DEF Beginning, Activations
  <2> HIDE DEF a, n
  <2>5. n \in DOMAIN calls'[s] /\ calls'[s][n] = a
    BY <2>2, <2>3
  <2>6. Began(calls'[s])
    BY <2>4, <2>5 DEF Began
  <2> QED BY <1>2, <2>6, OpenInside, InTransactionPrime
<1>4. CASE ~Call(s).listener
  <2>1. PushTransaction(s, FALSE) /\ FALSE \in BOOLEAN
    BY <1>4 DEF YieldResumes
  <2>2. StackEffect(s, Depth(s) + 1)
    BY <1>1, <2>1, PushEffect
  <2>3. Depth(s)' > 0
    BY <1>1, <2>2 DEF StackEffect, Depth
  <2> QED BY <1>2, <2>3, OpenInside, InTransactionPrime
<1> QED BY <1>3, <1>4

LEMMA OpenResumeThrows ==
  ASSUME IInv, IInv', OpenInv, NEW s \in Session, StepOf(s), YieldResumeThrows(s)
  PROVE  OpenInv'
<1> DEFINE fs == Front(calls[s])
<1>1. /\ calls[s] # <<>> /\ Call(s).kind = "sleep" /\ calls'[s] = fs
      /\ mConnection'[s] = mConnection[s] /\ Depth(s)' = Depth(s) /\ native' = native
      /\ calls[s] = Append(fs, Call(s)) /\ fs \in Seq(Activations) /\ Call(s) \in Activations
      /\ Depth(s) \in Nat
  <2>1. /\ calls[s] # <<>> /\ Call(s).kind = "sleep" /\ calls'[s] = fs
        /\ mConnection'[s] = mConnection[s] /\ Depth(s)' = Depth(s) /\ native' = native
    BY DEF YieldResumeThrows, At, Return, connVars, stackVars, dataVars, Depth, IInv, TypeOK
  <2> QED BY <2>1, ReturnFacts, SessionFacts
<1>2. ~Beginning(Call(s))
  BY <1>1 DEF Beginning
<1>3. Began(Append(fs, Call(s))) <=> Began(fs) \/ Beginning(Call(s))
  BY <1>1, BeganFacts
<1>4. Began(Append(fs, Call(s))) = Began(calls[s])
  BY <1>1
<1>5. mConnection[s] \in Conn /\ native[mConnection[s]].open => InTransaction(s)
  BY SessionFacts DEF OpenInv
<1>6. InTransaction(s) => InTransaction(s)'
  <2>1. InTransaction(s) => Depth(s) > 0 \/ Began(calls[s])
    BY InTransactionFacts
  <2> HIDE DEF fs
  <2>2. InTransaction(s) => Depth(s)' > 0 \/ Began(calls'[s])
    BY <1>1, <1>2, <1>3, <1>4, <2>1
  <2> QED BY <2>2, InTransactionPrime
<1> QED BY <1>1, <1>5, <1>6, OpenStep

LEMMA NextOpen == IInv /\ IInv' /\ EndsSucceed /\ OpenInv /\ [Next]_vars => OpenInv'
<1> SUFFICES ASSUME IInv, IInv', EndsSucceed, OpenInv, [Next]_vars
             PROVE  OpenInv'
  OBVIOUS
<1>1. ASSUME NEW s \in Session, ExecuteBegin(s)
      PROVE  OpenInv'
  BY <1>1, ExecuteBeginStep, OpenExecuteBegin
<1>2. ASSUME NEW s \in Session, ExecuteWrite(s) \/ ExecuteRead(s) \/ ExecuteConflict(s)
      PROVE  OpenInv'
  BY <1>2, ExecuteStep, OpenExecute
<1>3. ASSUME NEW s \in Session, NEW l \in Listeners, beginTransaction(s, l)
      PROVE  OpenInv'
  <2>1. l \in BOOLEAN
    BY DEF Listeners
  <2> QED BY <1>3, <2>1, BeginStep, OpenBegin
<1>4. ASSUME NEW s \in Session, OnBeginReturns(s) \/ OnBeginThrows(s)
      PROVE  OpenInv'
  BY <1>4, OnBeginStep, OpenOnBegin
<1>5. ASSUME NEW s \in Session, setTransactionSuccessful(s) \/ executeCommit(s)
      PROVE  OpenInv'
  <2>1. setTransactionSuccessfulUnlessMarked(s)
    BY <1>5 DEF setTransactionSuccessful, executeCommit
  <2>2. StepOf(s)
    BY <1>5, SetSuccessfulStep, CommitStep
  <2>3. mConnection'[s] = mConnection[s]
    BY <2>1 DEF setTransactionSuccessfulUnlessMarked, connVars
  <2>4. Depth(s)' > 0
    BY <2>1, MarkEffect DEF StackEffect, Depth
  <2> QED BY <2>2, <2>3, <2>4, OpenInside, InTransactionPrime
<1>6. ASSUME NEW s \in Session, endTransaction(s) \/ executeCommitEnd(s) \/ yieldTransaction(s)
                                \/ OnEndReturns(s) \/ OnEndThrows(s)
      PROVE  OpenInv'
  BY <1>6, EndStep, OpenEnd
<1>7. ASSUME NEW s \in Session, YieldResumes(s)
      PROVE  OpenInv'
  BY <1>7, ResumeStep, OpenResume
<1>8. ASSUME NEW s \in Session, YieldResumeThrows(s)
      PROVE  OpenInv'
  BY <1>8, ResumeThrowsStep, OpenResumeThrows
<1>9. ASSUME NEW c \in Conn, CloseIdleConnection(c)
      PROVE  OpenInv'
  <2>1. /\ native' = [native EXCEPT ![c] = [open |-> FALSE, pending |-> {}]]
        /\ UNCHANGED <<owner, mTransactionStack, calls>>
        /\ native \in [Conn -> [open : BOOLEAN, pending : SUBSET Write]]
    BY <1>9 DEF CloseIdleConnection, connVars, stackVars, IInv, TypeOK
  <2>2. \A e \in Conn : native'[e].open => native[e].open
    BY <2>1
  <2> QED BY <2>1, <2>2 DEF OpenInv, InTransaction, BeginningOutermost, Depth
<1>10. CASE UNCHANGED vars
  BY <1>10 DEF vars, connVars, stackVars, dataVars, OpenInv, InTransaction, BeginningOutermost, Depth
<1> QED BY <1>1, <1>2, <1>3, <1>4, <1>5, <1>6, <1>7, <1>8, <1>9, <1>10 DEF Next

\* No exception of a listener, no failing statement or BEGIN, no yield and no close of an
\* idle connection leaves a transaction behind in the pool: only a COMMIT or ROLLBACK
\* that fails does.
THEOREM NothingStaysOpen ==
  ASSUME EndsSucceed
  PROVE  Spec => []NothingLeftOpen
<1>1. Init => OpenInv
  <2>1. Init => \A c \in Conn : ~native[c].open
    BY DEF Init
  <2> QED BY <2>1 DEF OpenInv
<1>2. IInv /\ IInv' /\ OpenInv /\ [Next]_vars => OpenInv'
  BY NextOpen
<1>3. OpenInv => NothingLeftOpen
  BY SessionAssumption DEF OpenInv, NothingLeftOpen
<1> QED BY <1>1, <1>2, <1>3, Invariant, PTL DEF Spec

-----------------------------------------------------------------------------
(* Session implements Transactions: frames, use counts, callbacks and        *)
(* connections together are flat transactions, one per session.              *)

\* What may happen besides: listeners that throw but begin nothing, yields, a BEGIN
\* that fails, and the pool closing idle connections.  COMMIT and ROLLBACK do what they
\* are asked to, and SQLite does not end a transaction by itself.
TransactionsHold == Env \subseteq {"listener", "yield", "beginFails", "poolCloses"}

-----------------------------------------------------------------------------
(* The stack of activations, once more.  Client code in a listener begins no *)
(* transaction, so at most one activation is not a statement.                *)

Plain(cs) == \A i \in DOMAIN cs : cs[i].kind = "statement"
Asleep(cs) == \E i \in DOMAIN cs : cs[i].kind = "sleep"

\* What the end of a transaction has decided still holds when its listener returns.
Promise(a, d, top) == a.kind = "onEnd" =>
  /\ a.successful => ~top.childFailed /\ (a.yielding \/ top.markedSuccessful)
  /\ a.yielding => a.successful /\ d = 1 /\ ~top.markedSuccessful

Solo(cs, d, top) == \A i \in DOMAIN cs : cs[i].kind # "statement" =>
  /\ cs[i].base = d /\ Promise(cs[i], d, top)
  /\ \A j \in DOMAIN cs : j # i => cs[j].kind = "statement"

LEMMA AppendDomain ==
  ASSUME NEW cs \in Seq(Activations), NEW a \in Activations
  PROVE  /\ \A i \in DOMAIN cs : i \in DOMAIN Append(cs, a) /\ Append(cs, a)[i] = cs[i]
                                 /\ i # Len(cs) + 1
         /\ Len(cs) + 1 \in DOMAIN Append(cs, a) /\ Append(cs, a)[Len(cs) + 1] = a
         /\ \A i \in DOMAIN Append(cs, a) : i \in DOMAIN cs \/ i = Len(cs) + 1
<1>1. /\ Append(cs, a) \in Seq(Activations) /\ Len(cs) \in Nat /\ Len(Append(cs, a)) = Len(cs) + 1
      /\ \A i \in 1 .. Len(cs) : Append(cs, a)[i] = cs[i]
      /\ Append(cs, a)[Len(cs) + 1] = a /\ DOMAIN cs = 1 .. Len(cs)
      /\ DOMAIN Append(cs, a) = 1 .. Len(cs) + 1
  BY AppendFacts, EmptyFacts
<1>2. \A i \in 1 .. Len(cs) + 1 : i \in 1 .. Len(cs) \/ i = Len(cs) + 1
  BY <1>1
<1>3. \A i \in 1 .. Len(cs) : i \in 1 .. Len(cs) + 1 /\ i # Len(cs) + 1
  BY <1>1
<1>4. Len(cs) + 1 \in 1 .. Len(cs) + 1
  BY <1>1
<1> QED BY <1>1, <1>2, <1>3, <1>4

LEMMA AppendCalls ==
  ASSUME NEW cs \in Seq(Activations), NEW a \in Activations, NEW d, NEW top
  PROVE  /\ Asleep(Append(cs, a)) <=> Asleep(cs) \/ a.kind = "sleep"
         /\ Plain(Append(cs, a)) <=> Plain(cs) /\ a.kind = "statement"
         /\ a.kind = "statement" => (Solo(Append(cs, a), d, top) <=> Solo(cs, d, top))
         /\ a.kind # "statement" => (Solo(Append(cs, a), d, top)
              <=> Plain(cs) /\ a.base = d /\ Promise(a, d, top))
<1> DEFINE as == Append(cs, a)  n == Len(cs) + 1
<1>1. /\ \A i \in DOMAIN cs : i \in DOMAIN as /\ as[i] = cs[i] /\ i # n
      /\ n \in DOMAIN as /\ as[n] = a
      /\ \A i \in DOMAIN as : i \in DOMAIN cs \/ i = n
  BY AppendDomain
<1> HIDE DEF as, n
<1>2. Asleep(as) <=> Asleep(cs) \/ a.kind = "sleep"
  BY <1>1 DEF Asleep
<1>3. Plain(as) <=> Plain(cs) /\ a.kind = "statement"
  BY <1>1 DEF Plain
<1> HIDE DEF Promise
<1>4. ASSUME a.kind = "statement"
      PROVE  Solo(as, d, top) <=> Solo(cs, d, top)
  <2>1. Solo(as, d, top) => Solo(cs, d, top)
    BY <1>1 DEF Solo
  <2>2. Solo(cs, d, top) => Solo(as, d, top)
    BY <1>1, <1>4 DEF Solo
  <2> QED BY <2>1, <2>2
<1>5. ASSUME a.kind # "statement"
      PROVE  Solo(as, d, top) <=> Plain(cs) /\ a.base = d /\ Promise(a, d, top)
  <2>1. Solo(as, d, top) => Plain(cs) /\ a.base = d /\ Promise(a, d, top)
    BY <1>1, <1>5 DEF Solo, Plain
  <2>2. Plain(cs) /\ a.base = d /\ Promise(a, d, top) => Solo(as, d, top)
    BY <1>1, <1>5 DEF Solo, Plain
  <2> QED BY <2>1, <2>2
<1> QED BY <1>2, <1>3, <1>4, <1>5 DEF as

\* Nothing but statements in progress.
LEMMA PlainFacts ==
  ASSUME NEW cs, Plain(cs), NEW d, NEW top
  PROVE  /\ ~Began(cs) /\ ~Asleep(cs) /\ Solo(cs, d, top)
BY DEF Plain, Began, Beginning, Asleep, Solo

-----------------------------------------------------------------------------
(* The invariant of the refinement, on top of IInv and OpenInv.              *)

TransactionInv(s) ==
  /\ InTransaction(s) => native[mConnection[s]].open
  /\ Solo(calls[s], Depth(s), Top(s))
  /\ nestedFailed[s] =>
       \E i \in DOMAIN mTransactionStack[s] : mTransactionStack[s][i].childFailed

\* Writes are numbered as they are made; those held back are in the transaction of
\* the session that has the connection.
WritesInv ==
  /\ \A w \in durable : w[2] <= written[w[1]]
  /\ \A c \in Conn :
       /\ native[c].open \/ native[c].pending = {}
       /\ \A s \in Session : owner[c] = s =>
            \A w \in native[c].pending : w[1] = s /\ w[2] <= written[s]

RInv == OpenInv /\ (\A s \in Session : TransactionInv(s)) /\ WritesInv

\* The state of Transactions.
Phase(s) == IF Depth(s) > 0 \/ BeginningOutermost(s) # {} THEN "active"
            ELSE IF \E i \in DOMAIN calls[s] : calls[s][i].kind = "sleep" THEN "yielded"
            ELSE "none"
Marked(s) == Depth(s) > 0 /\ mTransactionStack[s][1].markedSuccessful
Pending(s) == IF mConnection[s] = NoConn THEN {} ELSE native[mConnection[s]].pending

phases   == [s \in Session |-> Phase(s)]
marks    == [s \in Session |-> Marked(s)]
pendings == [s \in Session |-> Pending(s)]

LEMMA PhaseFacts ==
  ASSUME NEW s \in Session
  PROVE  /\ Phase(s) = IF Depth(s) > 0 \/ Began(calls[s]) THEN "active"
                       ELSE IF Asleep(calls[s]) THEN "yielded" ELSE "none"
         /\ Phase(s)' = IF Depth(s)' > 0 \/ Began(calls'[s]) THEN "active"
                        ELSE IF Asleep(calls'[s]) THEN "yielded" ELSE "none"
         /\ InTransaction(s) <=> Phase(s) = "active"
         /\ InTransaction(s)' <=> Phase(s)' = "active"
<1>1. /\ BeginningOutermost(s) # {} <=> Began(calls[s])
      /\ (BeginningOutermost(s) # {})' <=> Began(calls'[s])
  BY DEF BeginningOutermost, Began, Beginning
<1>2. /\ Phase(s) = IF Depth(s) > 0 \/ Began(calls[s]) THEN "active"
                    ELSE IF Asleep(calls[s]) THEN "yielded" ELSE "none"
      /\ Phase(s)' = IF Depth(s)' > 0 \/ Began(calls'[s]) THEN "active"
                     ELSE IF Asleep(calls'[s]) THEN "yielded" ELSE "none"
  BY <1>1 DEF Phase, Asleep
<1>3. /\ InTransaction(s) <=> Depth(s) > 0 \/ Began(calls[s])
      /\ InTransaction(s)' <=> Depth(s)' > 0 \/ Began(calls'[s])
  BY <1>1 DEF InTransaction
<1> QED BY <1>2, <1>3

\* A step of s changes the state of Transactions at s only.
LEMMA MapStep ==
  ASSUME IInv, NEW s \in Session, StepOf(s)
  PROVE  /\ phases' = [phases EXCEPT ![s] = Phase(s)'] /\ marks' = [marks EXCEPT ![s] = Marked(s)']
         /\ pendings' = [pendings EXCEPT ![s] = Pending(s)']
         /\ phases[s] = Phase(s) /\ marks[s] = Marked(s) /\ pendings[s] = Pending(s)
<1>1. ASSUME NEW t \in Session \ {s}
      PROVE  Phase(t)' = Phase(t) /\ Marked(t)' = Marked(t) /\ Pending(t)' = Pending(t)
  <2>1. /\ mConnection'[t] = mConnection[t] /\ \A c \in Conn : owner'[c] = t <=> owner[c] = t
        /\ calls'[t] = calls[t] /\ mTransactionStack'[t] = mTransactionStack[t] /\ t # s
    BY <1>1 DEF StepOf
  <2>2. mConnection[t] \in Conn \cup {NoConn} /\ \A c \in Conn : owner[c] = t <=> mConnection[t] = c
    BY SessionFacts
  <2>3. mConnection[t] # NoConn => native'[mConnection[t]] = native[mConnection[t]]
    BY <2>1, <2>2 DEF StepOf
  <2>4. Pending(t)' = Pending(t)
    BY <2>1, <2>3 DEF Pending
  <2>5. Depth(t)' = Depth(t)
    BY <2>1 DEF Depth
  <2>6. Marked(t)' = Marked(t)
    BY <2>1, <2>5 DEF Marked
  <2>7. Phase(t)' = Phase(t)
    BY <2>1, <2>5, PhaseFacts
  <2> QED BY <2>4, <2>6, <2>7
<1> QED BY <1>1 DEF phases, marks, pendings

\* What the session s does to its transaction.
Same(s) ==
  /\ Phase(s)' = Phase(s) /\ Marked(s)' = Marked(s) /\ Pending(s)' = Pending(s)
  /\ nestedFailed'[s] = nestedFailed[s] /\ durable' = durable
Begins(s) ==
  /\ Phase(s) # "active" /\ Phase(s)' = "active" /\ Marked(s)' = Marked(s) /\ Pending(s)' = Pending(s)
  /\ nestedFailed'[s] = nestedFailed[s] /\ durable' = durable
Writes(s, w) ==
  /\ w \in Write /\ w \notin durable /\ \A t \in Session : w \notin Pending(t)
  /\ Phase(s)' = Phase(s) /\ Marked(s)' = Marked(s) /\ nestedFailed'[s] = nestedFailed[s]
  /\ \/ Phase(s) = "active" /\ Pending(s)' = Pending(s) \cup {w} /\ durable' = durable
     \/ Phase(s) = "none" /\ durable' = durable \cup {w} /\ Pending(s)' = Pending(s)
Marks(s) ==
  /\ Phase(s) = "active" /\ Phase(s)' = Phase(s) /\ Marked(s)' = TRUE /\ Pending(s)' = Pending(s)
  /\ nestedFailed'[s] = nestedFailed[s] /\ durable' = durable
ChildFails(s) ==
  /\ Phase(s) = "active" /\ Phase(s)' = Phase(s) /\ Marked(s)' = Marked(s) /\ Pending(s)' = Pending(s)
  /\ nestedFailed'[s] = TRUE /\ durable' = durable
Ends(s) ==
  /\ Phase(s) = "active" /\ Marked(s)' = FALSE /\ nestedFailed'[s] = FALSE /\ Pending(s)' = {}
  /\ \/ Phase(s)' = "none" /\ durable' = durable
     \/ /\ Marked(s) /\ ~nestedFailed[s] /\ Phase(s)' = "none"
        /\ durable' = durable \cup Pending(s)
     \/ /\ ~Marked(s) /\ ~nestedFailed[s] /\ Phase(s)' = "yielded"
        /\ durable' = durable \cup Pending(s)
Abandons(s) ==
  /\ Phase(s) = "yielded" /\ Phase(s)' = "none" /\ Marked(s)' = Marked(s) /\ Pending(s)' = Pending(s)
  /\ nestedFailed'[s] = nestedFailed[s] /\ durable' = durable

AbstractStep(s) ==
  \/ Same(s) \/ Begins(s) \/ (\E w \in Write : Writes(s, w)) \/ Marks(s) \/ ChildFails(s)
  \/ Ends(s) \/ Abandons(s)

LEMMA Unfold ==
  /\ T!vars = <<phases, marks, nestedFailed, pendings, durable>>
  /\ T!vars' = <<phases', marks', nestedFailed', pendings', durable'>>
BY DEF T!vars, phases, marks, pendings, Phase, Marked, Pending

LEMMA AbstractSteps ==
  ASSUME IInv, NEW s \in Session, StepOf(s), AbstractStep(s), nestedFailed' \in [Session -> BOOLEAN]
  PROVE  [T!Next]_(T!vars)
<1>1. /\ phases' = [phases EXCEPT ![s] = Phase(s)'] /\ marks' = [marks EXCEPT ![s] = Marked(s)']
      /\ pendings' = [pendings EXCEPT ![s] = Pending(s)']
      /\ phases[s] = Phase(s) /\ marks[s] = Marked(s) /\ pendings[s] = Pending(s)
  BY MapStep
<1>2. nestedFailed' = [nestedFailed EXCEPT ![s] = nestedFailed'[s]]
  <2>1. nestedFailed \in [Session -> BOOLEAN] /\ \A t \in Session \ {s} : nestedFailed'[t] = nestedFailed[t]
    BY DEF IInv, TypeOK, StepOf
  <2> QED BY <2>1
<1>3. /\ Phase(s)' = Phase(s) => phases' = phases
      /\ Marked(s)' = Marked(s) => marks' = marks
      /\ Pending(s)' = Pending(s) => pendings' = pendings
      /\ nestedFailed'[s] = nestedFailed[s] => nestedFailed' = nestedFailed
  <2>1. nestedFailed \in [Session -> BOOLEAN]
    BY DEF IInv, TypeOK
  <2> QED BY <1>1, <1>2, <2>1 DEF phases, marks, pendings
<1>4. CASE Same(s)
  <2>1. phases' = phases /\ marks' = marks /\ nestedFailed' = nestedFailed /\ pendings' = pendings
        /\ durable' = durable
    BY <1>3, <1>4 DEF Same
  <2> QED BY <2>1, Unfold
<1>5. CASE Begins(s)
  <2>1. /\ phases[s] # "active" /\ phases' = [phases EXCEPT ![s] = "active"]
        /\ marks' = marks /\ nestedFailed' = nestedFailed /\ pendings' = pendings
        /\ durable' = durable
    BY <1>1, <1>3, <1>5 DEF Begins
  <2>2. T!Begin(s)
    BY <2>1 DEF T!Begin, phases, marks, pendings, Phase, Marked, Pending
  <2> QED BY <2>2 DEF T!Next
<1>6. ASSUME NEW w \in Write, Writes(s, w)
      PROVE  T!Next
  <2>1. /\ w \notin durable /\ \A t \in Session : w \notin pendings[t]
        /\ phases' = phases /\ marks' = marks /\ nestedFailed' = nestedFailed
    BY <1>3, <1>6 DEF Writes, pendings
  <2>2. CASE Phase(s) = "active" /\ Pending(s)' = Pending(s) \cup {w} /\ durable' = durable
    <3>1. phases[s] = "active" /\ pendings' = [pendings EXCEPT ![s] = @ \cup {w}]
      BY <1>1, <2>2
    <3>2. T!WriteInside(s, w)
      BY <2>1, <2>2, <3>1 DEF T!WriteInside, T!New, phases, marks, pendings, Phase, Marked, Pending
    <3> QED BY <3>2 DEF T!Next
  <2>3. CASE Phase(s) = "none" /\ durable' = durable \cup {w} /\ Pending(s)' = Pending(s)
    <3>1. phases[s] = "none" /\ pendings' = pendings
      BY <1>1, <1>3, <2>3
    <3>2. T!WriteAlone(s, w)
      BY <2>1, <2>3, <3>1 DEF T!WriteAlone, T!New, phases, marks, pendings, Phase, Marked, Pending
    <3> QED BY <3>2 DEF T!Next
  <2> QED BY <1>6, <2>2, <2>3 DEF Writes
<1>7. CASE Marks(s)
  <2>1. /\ phases[s] = "active" /\ phases' = phases /\ marks' = [marks EXCEPT ![s] = TRUE]
        /\ nestedFailed' = nestedFailed /\ pendings' = pendings /\ durable' = durable
    BY <1>1, <1>3, <1>7 DEF Marks
  <2>2. T!MarkSuccessful(s)
    BY <2>1 DEF T!MarkSuccessful, phases, marks, pendings, Phase, Marked, Pending
  <2> QED BY <2>2 DEF T!Next
<1>8. CASE ChildFails(s)
  <2>1. /\ phases[s] = "active" /\ phases' = phases /\ marks' = marks
        /\ nestedFailed' = [nestedFailed EXCEPT ![s] = TRUE] /\ pendings' = pendings
        /\ durable' = durable
    BY <1>1, <1>2, <1>3, <1>8 DEF ChildFails
  <2>2. T!NestedFails(s)
    BY <2>1 DEF T!NestedFails, phases, marks, pendings, Phase, Marked, Pending
  <2> QED BY <2>2 DEF T!Next
<1>9. CASE Ends(s)
  <2>1. /\ phases[s] = "active" /\ marks' = [marks EXCEPT ![s] = FALSE]
        /\ nestedFailed' = [nestedFailed EXCEPT ![s] = FALSE]
        /\ pendings' = [pendings EXCEPT ![s] = {}]
    BY <1>1, <1>2, <1>9 DEF Ends
  <2>2. CASE Phase(s)' = "none" /\ durable' = durable
    <3>1. phases' = [phases EXCEPT ![s] = "none"]
      BY <1>1, <2>2
    <3>2. T!Rollback(s)
      BY <2>1, <2>2, <3>1 DEF T!Rollback, T!EndIn, phases, marks, pendings, Phase, Marked, Pending
    <3> QED BY <3>2 DEF T!Next
  <2>3. CASE /\ Marked(s) /\ ~nestedFailed[s] /\ Phase(s)' = "none"
             /\ durable' = durable \cup Pending(s)
    <3>1. /\ phases' = [phases EXCEPT ![s] = "none"] /\ marks[s] /\ ~nestedFailed[s]
          /\ durable' = durable \cup pendings[s]
      BY <1>1, <2>3
    <3>2. T!Commit(s)
      BY <2>1, <3>1 DEF T!Commit, T!EndIn, phases, marks, pendings, Phase, Marked, Pending
    <3> QED BY <3>2 DEF T!Next
  <2>4. CASE /\ ~Marked(s) /\ ~nestedFailed[s] /\ Phase(s)' = "yielded"
             /\ durable' = durable \cup Pending(s)
    <3>1. /\ phases' = [phases EXCEPT ![s] = "yielded"] /\ ~marks[s] /\ ~nestedFailed[s]
          /\ durable' = durable \cup pendings[s]
      BY <1>1, <2>4
    <3>2. T!Yield(s)
      BY <2>1, <3>1 DEF T!Yield, T!EndIn, phases, marks, pendings, Phase, Marked, Pending
    <3> QED BY <3>2 DEF T!Next
  <2> QED BY <1>9, <2>2, <2>3, <2>4 DEF Ends
<1>10. CASE Abandons(s)
  <2>1. /\ phases[s] = "yielded" /\ phases' = [phases EXCEPT ![s] = "none"]
        /\ marks' = marks /\ nestedFailed' = nestedFailed /\ pendings' = pendings
        /\ durable' = durable
    BY <1>1, <1>3, <1>10 DEF Abandons
  <2>2. T!Abandon(s)
    BY <2>1 DEF T!Abandon, phases, marks, pendings, Phase, Marked, Pending
  <2> QED BY <2>2 DEF T!Next
<1> QED BY <1>4, <1>5, <1>6, <1>7, <1>8, <1>9, <1>10 DEF AbstractStep

-----------------------------------------------------------------------------
(* The writes.                                                               *)

\* What the step of s leaves of the connection that it had and the one that it has.
WritesEffect(s) ==
  /\ \A w \in durable' : w[2] <= written'[w[1]]
  /\ mConnection[s] \in Conn =>
       native'[mConnection[s]].open \/ native'[mConnection[s]].pending = {}
  /\ mConnection'[s] \in Conn =>
       LET n == native'[mConnection'[s]] IN
         /\ n.open \/ n.pending = {}
         /\ \A w \in n.pending : w[1] = s /\ w[2] <= written'[s]

LEMMA RStep ==
  ASSUME IInv, IInv', OpenInv', RInv, NEW s \in Session, StepOf(s), TransactionInv(s)', WritesEffect(s)
  PROVE  RInv'
<1>1. /\ \A c \in Conn : /\ owner[c] = s <=> mConnection[s] = c
                         /\ owner'[c] = s <=> mConnection'[s] = c
      /\ \A t \in Session \ {s}, c \in Conn : owner'[c] = t <=> owner[c] = t
      /\ \A c \in Conn : owner[c] # s /\ owner'[c] # s => native'[c] = native[c]
      /\ \A t \in Session \ {s} : written'[t] = written[t]
  BY DEF IInv, SessionInv, ConnectionInv, StepOf
<1>2. ASSUME NEW t \in Session, t # s
      PROVE  TransactionInv(t)'
  <2>1. /\ mConnection'[t] = mConnection[t] /\ calls'[t] = calls[t] /\ nestedFailed'[t] = nestedFailed[t]
        /\ mTransactionStack'[t] = mTransactionStack[t]
    BY <1>2 DEF StepOf
  <2>2. Depth(t)' = Depth(t) /\ Top(t)' = Top(t) /\ (InTransaction(t)' <=> InTransaction(t))
    BY <2>1 DEF Depth, Top, InTransaction, BeginningOutermost
  <2>3. ASSUME InTransaction(t)
        PROVE  native'[mConnection[t]] = native[mConnection[t]]
    <3>1. mConnection[t] \in Conn /\ owner[mConnection[t]] = t
      BY <2>3, InTransactionFacts
    <3>2. owner'[mConnection[t]] = t
      BY <1>1, <1>2, <3>1
    <3> QED BY <1>1, <1>2, <3>1, <3>2
  <2>4. TransactionInv(t)
    BY DEF RInv
  <2> QED BY <2>1, <2>2, <2>3, <2>4 DEF TransactionInv
<1>3. WritesInv'
  <2>1. ASSUME NEW c \in Conn
        PROVE  /\ native'[c].open \/ native'[c].pending = {}
               /\ \A t \in Session : owner'[c] = t =>
                    \A w \in native'[c].pending : w[1] = t /\ w[2] <= written'[t]
    <3>0. /\ native[c].open \/ native[c].pending = {}
          /\ \A t \in Session : owner[c] = t =>
               \A w \in native[c].pending : w[1] = t /\ w[2] <= written[t]
      BY DEF RInv, WritesInv
    <3>1. CASE owner'[c] = s
      BY <1>1, <3>1 DEF WritesEffect
    <3>2. CASE owner'[c] # s /\ owner[c] = s
      <4>1. \A t \in Session : owner'[c] # t
        BY <1>1, <3>2
      <4> QED BY <1>1, <3>2, <4>1 DEF WritesEffect
    <3>3. CASE owner'[c] # s /\ owner[c] # s
      <4>1. native'[c] = native[c]
        BY <1>1, <3>3
      <4>2. \A t \in Session : owner'[c] = t => t # s /\ owner[c] = t /\ written'[t] = written[t]
        BY <1>1, <3>3
      <4> QED BY <3>0, <4>1, <4>2
    <3> QED BY <3>1, <3>2, <3>3
  <2> QED BY <2>1 DEF WritesInv, WritesEffect
<1> QED BY <1>2, <1>3 DEF RInv

\* A connection that no transaction uses holds nothing back.
LEMMA IdleFacts ==
  ASSUME IInv, RInv, NEW s \in Session, ~InTransaction(s)
  PROVE  /\ Pending(s) = {}
         /\ \A c \in Conn : owner[c] = s \/ owner[c] = NoSession =>
              ~native[c].open /\ native[c].pending = {}
<1>1. \A c \in Conn : owner[c] = s \/ owner[c] = NoSession => ~native[c].open
  BY SessionAssumption DEF RInv, OpenInv
<1>2. \A c \in Conn : owner[c] = s \/ owner[c] = NoSession => native[c].pending = {}
  BY <1>1 DEF RInv, WritesInv
<1>3. mConnection[s] \in Conn \cup {NoConn} /\ (mConnection[s] \in Conn => owner[mConnection[s]] = s)
  BY SessionFacts
<1> QED BY <1>1, <1>2, <1>3 DEF Pending

\* Nothing is written.
LEMMA SameWrites ==
  ASSUME IInv, RInv, NEW s \in Session, UNCHANGED dataVars,
         \/ mConnection'[s] = mConnection[s] \/ mConnection'[s] = NoConn
         \/ mConnection[s] = NoConn /\ owner[mConnection'[s]] = NoSession /\ ~InTransaction(s)
  PROVE  WritesEffect(s)
<1>1. native' = native /\ durable' = durable /\ written' = written /\ NoConn \notin Conn
  BY SessionAssumption DEF dataVars
<1>2. /\ \A w \in durable : w[2] <= written[w[1]]
      /\ \A c \in Conn : /\ native[c].open \/ native[c].pending = {}
                         /\ owner[c] = s => \A w \in native[c].pending : w[1] = s /\ w[2] <= written[s]
  BY DEF RInv, WritesInv
<1>3. mConnection[s] \in Conn => owner[mConnection[s]] = s
  BY SessionFacts
<1>4. CASE mConnection'[s] = mConnection[s] \/ mConnection'[s] = NoConn
  BY <1>1, <1>2, <1>3, <1>4 DEF WritesEffect
<1>5. CASE mConnection[s] = NoConn /\ owner[mConnection'[s]] = NoSession /\ ~InTransaction(s)
  <2>1. mConnection'[s] \in Conn => native[mConnection'[s]].pending = {}
    BY <1>5, IdleFacts
  <2> QED BY <1>1, <1>2, <1>5, <2>1 DEF WritesEffect
<1> QED BY <1>4, <1>5

\* The native transaction begins.
LEMMA BegunWrites ==
  ASSUME IInv, RInv, NEW s \in Session, ~InTransaction(s), StartTransaction(s)
  PROVE  /\ WritesEffect(s) /\ native'[mConnection'[s]].open /\ durable' = durable
         /\ Pending(s) = {} /\ Pending(s)' = {} /\ Depth(s) = 0
<1>1. /\ Depth(s) = 0 /\ acquireConnection(s) /\ NativeBegin(s) /\ mConnection'[s] \in Conn
      /\ native'[mConnection'[s]].open
  <2>1. Depth(s) = 0
    BY SessionFacts DEF InTransaction
  <2> QED BY <2>1, StartEffect
<1>2. /\ native \in [Conn -> [open : BOOLEAN, pending : SUBSET Write]]
      /\ native' = [native EXCEPT ![mConnection'[s]].open = TRUE]
      /\ durable' = durable /\ written' = written /\ NoConn \notin Conn
  BY <1>1, SessionAssumption DEF IInv, TypeOK, NativeBegin
<1>3. owner[mConnection'[s]] = s \/ owner[mConnection'[s]] = NoSession
  BY <1>1, AcquireEffect, SessionFacts
<1>4. native'[mConnection'[s]].pending = {}
  <2>1. native[mConnection'[s]].pending = {}
    BY <1>1, <1>3, IdleFacts
  <2> QED BY <1>1, <1>2, <2>1
<1>5. Pending(s) = {} /\ Pending(s)' = {}
  BY <1>1, <1>2, <1>4, IdleFacts DEF Pending
<1>6. mConnection[s] \in Conn => mConnection'[s] = mConnection[s]
  BY <1>1, <1>2, AcquireEffect
<1>7. \A w \in durable : w[2] <= written[w[1]]
  BY DEF RInv, WritesInv
<1> QED BY <1>1, <1>2, <1>4, <1>5, <1>6, <1>7 DEF WritesEffect

\* It ends, and the connection may go back to the pool.
LEMMA EndedWrites ==
  ASSUME IInv, RInv, NEW s \in Session, mConnection[s] \in Conn,
         NativeCommit(s) \/ NativeRollback(s),
         mConnection'[s] = mConnection[s] \/ mConnection'[s] = NoConn
  PROVE  /\ WritesEffect(s) /\ Pending(s)' = {}
         /\ NativeCommit(s) => durable' = durable \cup Pending(s)
         /\ NativeRollback(s) => durable' = durable
<1>1. native' = [native EXCEPT ![mConnection[s]] = [open |-> FALSE, pending |-> {}]]
      /\ written' = written /\ native \in [Conn -> [open : BOOLEAN, pending : SUBSET Write]]
      /\ NoConn \notin Conn
  BY SessionAssumption DEF NativeCommit, NativeRollback, IInv, TypeOK
<1>2. native'[mConnection[s]].pending = {}
  BY <1>1
<1>3. Pending(s)' = {} /\ Pending(s) = native[mConnection[s]].pending
  BY <1>1, <1>2 DEF Pending
<1>4. /\ NativeCommit(s) => durable' = durable \cup Pending(s)
      /\ NativeRollback(s) => durable' = durable
  BY <1>3 DEF NativeCommit, NativeRollback
<1>5. owner[mConnection[s]] = s
  BY SessionFacts
<1>6. \A w \in Pending(s) : w[2] <= written[w[1]]
  BY <1>3, <1>5 DEF RInv, WritesInv
<1>7. \A w \in durable' : w[2] <= written'[w[1]]
  BY <1>1, <1>4, <1>6 DEF RInv, WritesInv
<1> QED BY <1>1, <1>2, <1>3, <1>4, <1>7 DEF WritesEffect

\* The connection stays or goes back to the pool.
LEMMA ReleasedConnection ==
  ASSUME IInv, NEW s \in Session, InTransaction(s), releaseConnection(s)
  PROVE  mConnection'[s] = mConnection[s] \/ mConnection'[s] = NoConn
<1>1. mConnection[s] # NoConn
  BY InTransactionFacts, SessionAssumption
<1>2. mConnectionUseCount[s] > 0 /\ mConnectionUseCount[s] \in Nat
  BY <1>1, SessionFacts
<1>3. mConnectionUseCount[s] > 1 \/ mConnectionUseCount[s] = 1
  BY <1>2
<1> QED BY <1>2, <1>3, ReleaseEffect

-----------------------------------------------------------------------------
(* Where client code runs and what it returns to.                            *)

LEMMA TransactionFacts ==
  ASSUME IInv, RInv, NEW s \in Session
  PROVE  /\ InTransaction(s) => native[mConnection[s]].open /\ mConnection[s] \in Conn
         /\ Solo(calls[s], Depth(s), Top(s))
         /\ nestedFailed[s] =>
              \E i \in DOMAIN mTransactionStack[s] : mTransactionStack[s][i].childFailed
         /\ Depth(s) = 0 => ~nestedFailed[s]
<1>1. TransactionInv(s) /\ nestedFailed \in [Session -> BOOLEAN]
  BY DEF RInv, IInv, TypeOK
<1>2. Depth(s) = 0 => DOMAIN mTransactionStack[s] = {}
  <2>1. mTransactionStack[s] \in Seq(Frames) /\ (mTransactionStack[s] = <<>> <=> Depth(s) = 0)
    BY SessionFacts
  <2>2. DOMAIN <<>> = {}
    OBVIOUS
  <2> QED BY <2>1, <2>2
<1> QED BY <1>1, <1>2, InTransactionFacts DEF TransactionInv

\* Client code that is not in a listener, or has a transaction of its own.
LEMMA PlainRunning ==
  ASSUME IInv, RInv, NEW s \in Session, Running(s), HasOwnTransaction(s) \/ ~InListener(s)
  PROVE  Plain(calls[s])
<1>1. Steady(calls[s], Depth(s))
  BY RunningFacts
<1>2. /\ \A i \in DOMAIN calls[s] : /\ calls[s][i] \in Activations
                                    /\ calls[s][i].kind \notin {"sleep", "commit"}
                                    /\ calls[s][i].base \in Nat /\ calls[s][i].base <= Base(calls[s])
      /\ Base(calls[s]) \in Nat
  <2>1. calls[s] \in Seq(Activations) /\ CallsOK(calls[s], Depth(s)) /\ Depth(s) \in Nat
    BY SessionFacts
  <2>2. \A i \in DOMAIN calls[s] : calls[s][i] \in Activations
    BY <2>1, EmptyFacts
  <2> QED BY <1>1, <2>1, <2>2, BaseFacts DEF Steady
<1>3. ASSUME NEW i \in DOMAIN calls[s], calls[s][i].kind # "statement"
      PROVE  FALSE
  <2>1. calls[s][i].kind \in {"onBegin", "onEnd"}
    BY <1>2, <1>3, ActivationTypes DEF Kinds
  <2>2. HasOwnTransaction(s)
    BY <2>1 DEF InListener
  <2>3. Base(calls[s]) < Depth(s) /\ Depth(s) \in Nat
    BY <2>2, RunningFacts, SessionFacts
  <2>4. calls[s][i].base = Depth(s)
    BY <1>3, TransactionFacts DEF Solo
  <2>5. calls[s][i].base \in Nat /\ calls[s][i].base <= Base(calls[s])
    BY <1>2
  <2> QED BY <1>2, <2>3, <2>4, <2>5
<1> QED BY <1>3 DEF Plain

\* The return of what is not a statement.
LEMMA PlainFront ==
  ASSUME IInv, RInv, NEW s \in Session, calls[s] # <<>>, Call(s).kind # "statement"
  PROVE  /\ Plain(Front(calls[s])) /\ Call(s).base = Depth(s)
         /\ Promise(Call(s), Depth(s), Top(s))
         /\ Depth(s) = 0 /\ Call(s).kind = "onBegin" => InTransaction(s)
         /\ Call(s).kind = "sleep" => Phase(s) = "yielded"
<1> DEFINE fs == Front(calls[s])  a == Call(s)
<1>1. fs \in Seq(Activations) /\ a \in Activations /\ calls[s] = Append(fs, a)
  BY ReturnFacts
<1>2. Solo(Append(fs, a), Depth(s), Top(s))
  <2>1. Solo(calls[s], Depth(s), Top(s))
    BY TransactionFacts
  <2> QED BY <1>1, <2>1
<1>3. Plain(fs) /\ a.base = Depth(s) /\ Promise(a, Depth(s), Top(s))
  <2> HIDE DEF fs, a
  <2>1. a.kind # "statement"
    BY DEF a
  <2> QED BY <1>1, <1>2, <2>1, AppendCalls
<1>4. /\ Began(Append(fs, a)) <=> Beginning(a)
      /\ Asleep(Append(fs, a)) <=> a.kind = "sleep"
  <2>1. ~Began(fs) /\ ~Asleep(fs)
    BY <1>3, PlainFacts
  <2>2. 0 \in Nat
    OBVIOUS
  <2> HIDE DEF fs, a
  <2>3. Began(Append(fs, a)) <=> Began(fs) \/ Beginning(a)
    BY <1>1, <2>2, BeganFacts
  <2>4. Asleep(Append(fs, a)) <=> Asleep(fs) \/ a.kind = "sleep"
    BY <1>1, AppendCalls
  <2> QED BY <2>1, <2>3, <2>4
<1>5. Depth(s) = 0 /\ a.kind = "onBegin" => InTransaction(s)
  <2>1. Depth(s) = 0 /\ a.kind = "onBegin" => Began(calls[s])
    BY <1>1, <1>3, <1>4 DEF Beginning
  <2> QED BY <2>1, InTransactionFacts
<1>6. a.kind = "sleep" => Phase(s) = "yielded"
  <2>1. a.kind = "sleep" => Depth(s) = 0 /\ ~Began(calls[s]) /\ Asleep(calls[s])
    BY <1>1, <1>4, ReturnFacts DEF Beginning
  <2> QED BY <2>1, PhaseFacts
<1> QED BY <1>3, <1>5, <1>6

\* Outside of any call there is nothing but the frames.
LEMMA PlainPhase ==
  ASSUME IInv, NEW s \in Session, Plain(calls[s])
  PROVE  /\ InTransaction(s) <=> Depth(s) > 0
         /\ Phase(s) = IF Depth(s) > 0 THEN "active" ELSE "none"
<1>1. ~Began(calls[s]) /\ ~Asleep(calls[s])
  BY PlainFacts
<1> QED BY <1>1, PhaseFacts, InTransactionFacts

LEMMA PlainPhasePrime ==
  ASSUME NEW s \in Session, Plain(calls'[s])
  PROVE  /\ InTransaction(s)' <=> Depth(s)' > 0
         /\ Phase(s)' = IF Depth(s)' > 0 THEN "active" ELSE "none"
<1>1. ~Began(calls'[s]) /\ ~Asleep(calls'[s])
  BY PlainFacts
<1> QED BY <1>1, PhaseFacts

\* The frames stay as they are.
LEMMA SameFrames ==
  ASSUME NEW s \in Session, mTransactionStack'[s] = mTransactionStack[s]
  PROVE  Depth(s)' = Depth(s) /\ Top(s)' = Top(s) /\ Marked(s)' = Marked(s)
<1>1. Depth(s)' = Depth(s)
  BY DEF Depth
<1> QED BY <1>1 DEF Top, Marked

\* The proof that a step of s is one of Transactions.
StepHolds(s) == TransactionInv(s)' /\ WritesEffect(s) /\ AbstractStep(s)

-----------------------------------------------------------------------------
(* Statements.                                                               *)

LEMMA ExecuteBeginHolds ==
  ASSUME IInv, IInv', RInv, NEW s \in Session, StepOf(s), ExecuteBegin(s)
  PROVE  StepHolds(s)
<1> DEFINE a == Activation(s, "statement", FALSE, FALSE, FALSE)
<1>1. /\ acquireConnection(s) /\ calls' = [calls EXCEPT ![s] = Append(calls[s], a)]
      /\ UNCHANGED <<stackVars, dataVars, nestedFailed>>
  BY DEF ExecuteBegin, Push
<1>2. a \in Activations /\ a.kind = "statement"
  <2>1. "statement" \in Kinds /\ FALSE \in BOOLEAN
    BY DEF Kinds
  <2> QED BY <2>1, ActivationFacts
<1> HIDE DEF a
<1>3. /\ calls[s] \in Seq(Activations) /\ native' = native /\ durable' = durable
      /\ calls'[s] = Append(calls[s], a) /\ nestedFailed'[s] = nestedFailed[s]
      /\ mTransactionStack'[s] = mTransactionStack[s] /\ Depth(s) \in Nat
  BY <1>1, SessionFacts DEF stackVars, dataVars, IInv, TypeOK
<1>4. Depth(s)' = Depth(s) /\ Top(s)' = Top(s) /\ Marked(s)' = Marked(s)
  BY <1>3, SameFrames
<1>5. /\ Began(Append(calls[s], a)) <=> Began(calls[s])
      /\ Asleep(Append(calls[s], a)) <=> Asleep(calls[s])
      /\ Solo(Append(calls[s], a), Depth(s), Top(s)) <=> Solo(calls[s], Depth(s), Top(s))
  <2>1. ~Beginning(a)
    BY <1>2 DEF Beginning
  <2> QED BY <1>2, <1>3, <2>1, BeganFacts, AppendCalls
<1>6. Phase(s)' = Phase(s) /\ (InTransaction(s)' <=> InTransaction(s))
  BY <1>3, <1>4, <1>5, PhaseFacts
<1>7. /\ mConnection'[s] = mConnection[s]
         \/ (mConnection[s] = NoConn /\ owner[mConnection'[s]] = NoSession /\ mConnection'[s] \in Conn)
  BY <1>1, AcquireEffect
<1>8. InTransaction(s) => mConnection[s] # NoConn /\ native[mConnection[s]].open
  BY TransactionFacts, SessionAssumption
<1>9. Pending(s)' = Pending(s)
  <2>1. CASE mConnection'[s] = mConnection[s]
    BY <1>3, <2>1 DEF Pending
  <2>2. CASE mConnection'[s] # mConnection[s]
    <3>1. ~InTransaction(s) /\ owner[mConnection'[s]] = NoSession /\ mConnection'[s] \in Conn
      BY <1>7, <1>8, <2>2
    <3>2. native[mConnection'[s]].pending = {} /\ Pending(s) = {}
      BY <3>1, IdleFacts
    <3> QED BY <1>3, <3>2 DEF Pending
  <2> QED BY <2>1, <2>2
<1>10. WritesEffect(s)
  BY <1>1, <1>7, <1>8, SameWrites
<1>11. TransactionInv(s)'
  <2>1. InTransaction(s)' => native'[mConnection'[s]].open
    BY <1>3, <1>6, <1>7, <1>8
  <2>2. Solo(calls'[s], Depth(s)', Top(s)')
    BY <1>3, <1>4, <1>5, TransactionFacts
  <2> QED BY <1>3, <2>1, <2>2, TransactionFacts DEF TransactionInv
<1> QED BY <1>3, <1>4, <1>6, <1>9, <1>10, <1>11 DEF StepHolds, AbstractStep, Same

\* A statement returns to the client code, or the connection to the pool.
LEMMA ExecuteEndFacts ==
  ASSUME IInv, RInv, NEW s \in Session, ExecuteEnd(s)
  PROVE  /\ Phase(s)' = Phase(s) /\ (InTransaction(s)' <=> InTransaction(s)) /\ Phase(s) # "yielded"
         /\ Marked(s)' = Marked(s) /\ nestedFailed'[s] = nestedFailed[s]
         /\ mConnection[s] \in Conn /\ owner[mConnection[s]] = s
         /\ mConnection'[s] = mConnection[s] \/ mConnection'[s] = NoConn
         /\ InTransaction(s) => mConnection'[s] = mConnection[s]
         /\ Solo(calls'[s], Depth(s)', Top(s)')
         /\ mTransactionStack'[s] = mTransactionStack[s]
<1> DEFINE fs == Front(calls[s])  a == Call(s)
<1>1. /\ calls[s] # <<>> /\ a.kind = "statement"
      /\ releaseConnection(s) /\ calls'[s] = fs /\ mTransactionStack'[s] = mTransactionStack[s]
      /\ nestedFailed'[s] = nestedFailed[s]
  BY DEF ExecuteEnd, Return, At, IInv, TypeOK, stackVars
<1>2. /\ calls[s] = Append(fs, a) /\ fs \in Seq(Activations) /\ a \in Activations
      /\ mConnectionUseCount[s] = Uses(fs, Depth(s)) + One(Counting(a))
  BY <1>1, ReturnFacts, SessionFacts
<1>3. ~Beginning(a) /\ One(Counting(a)) = 1
  BY <1>1 DEF Beginning, Counting, One
<1>4. /\ Depth(s) \in Nat /\ Uses(fs, Depth(s)) \in Nat
      /\ mConnectionUseCount[s] = Uses(fs, Depth(s)) + 1
      /\ Depth(s)' = Depth(s) /\ Top(s)' = Top(s) /\ Marked(s)' = Marked(s)
  <2>1. Depth(s) \in Nat /\ Uses(fs, Depth(s)) \in Nat
    BY <1>2, SessionFacts, UsesType
  <2>2. Depth(s)' = Depth(s) /\ Top(s)' = Top(s) /\ Marked(s)' = Marked(s)
    BY <1>1, SameFrames
  <2> QED BY <1>2, <1>3, <2>1, <2>2
<1>5. mConnection[s] \in Conn /\ owner[mConnection[s]] = s /\ mConnectionUseCount[s] > 0
  <2>1. mConnectionUseCount[s] > 0
    BY <1>4
  <2> QED BY <2>1, SessionFacts
<1>6. mConnection'[s] = mConnection[s] \/ mConnection'[s] = NoConn
  <2>1. mConnectionUseCount[s] > 1 \/ mConnectionUseCount[s] = 1
    BY <1>4
  <2> QED BY <1>1, <1>5, <2>1, ReleaseEffect
<1> HIDE DEF fs
<1>7. /\ Began(calls[s]) <=> Began(fs)
      /\ Asleep(calls[s]) <=> Asleep(fs)
      /\ Solo(fs, Depth(s), Top(s))
  <2> HIDE DEF a
  <2>1. a.kind = "statement"
    BY <1>1
  <2>2. /\ Began(Append(fs, a)) <=> Began(fs) \/ Beginning(a)
        /\ Asleep(Append(fs, a)) <=> Asleep(fs)
        /\ Solo(Append(fs, a), Depth(s), Top(s)) <=> Solo(fs, Depth(s), Top(s))
    BY <1>2, <1>4, <2>1, BeganFacts, AppendCalls
  <2>3. Solo(calls[s], Depth(s), Top(s))
    BY TransactionFacts
  <2>4. Began(calls[s]) = Began(Append(fs, a)) /\ Asleep(calls[s]) = Asleep(Append(fs, a))
        /\ Solo(Append(fs, a), Depth(s), Top(s))
    BY <1>2, <2>3
  <2> QED BY <1>3, <2>2, <2>4
<1>8. Phase(s)' = Phase(s) /\ (InTransaction(s)' <=> InTransaction(s))
  BY <1>1, <1>4, <1>7, PhaseFacts
<1>9. Phase(s) # "yielded"
  <2>1. \A i \in DOMAIN calls[s] : calls[s][i].kind # "sleep"
    <3>1. Running(s)
      BY <1>1 DEF Running, At
    <3> QED BY <3>1, RunningFacts DEF Steady
  <2> QED BY <2>1 DEF Phase
<1>10. ASSUME InTransaction(s)
       PROVE  mConnection'[s] = mConnection[s]
  <2>1. Depth(s) > 0 \/ Began(fs)
    BY <1>7, <1>10, InTransactionFacts
  <2>2. Uses(fs, Depth(s)) > 0
    BY <1>2, <1>4, <2>1, BeganFacts
  <2>3. mConnectionUseCount[s] > 1
    BY <1>4, <2>2
  <2> QED BY <1>1, <1>5, <2>3, ReleaseEffect
<1> QED BY <1>1, <1>4, <1>5, <1>6, <1>7, <1>8, <1>9, <1>10

LEMMA ExecuteReadHolds ==
  ASSUME IInv, IInv', RInv, NEW s \in Session, StepOf(s), ExecuteRead(s)
  PROVE  StepHolds(s)
<1>1. ExecuteEnd(s) /\ UNCHANGED dataVars /\ native' = native /\ durable' = durable
  BY DEF ExecuteRead, dataVars
<1>2. WritesEffect(s)
  BY <1>1, ExecuteEndFacts, SameWrites
<1>3. Pending(s)' = Pending(s)
  <2>1. CASE InTransaction(s)
    BY <1>1, <2>1, ExecuteEndFacts DEF Pending
  <2>2. CASE ~InTransaction(s)
    <3>1. Pending(s) = {} /\ native[mConnection[s]].pending = {}
      BY <1>1, <2>2, ExecuteEndFacts, IdleFacts
    <3> QED BY <1>1, <3>1, ExecuteEndFacts DEF Pending
  <2> QED BY <2>1, <2>2
<1>4. TransactionInv(s)'
  BY <1>1, ExecuteEndFacts, TransactionFacts DEF TransactionInv
<1>5. Same(s)
  BY <1>1, <1>3, ExecuteEndFacts DEF Same
<1> QED BY <1>2, <1>4, <1>5 DEF StepHolds, AbstractStep

LEMMA ExecuteWriteHolds ==
  ASSUME IInv, IInv', RInv, NEW s \in Session, StepOf(s), ExecuteWrite(s)
  PROVE  StepHolds(s)
<1> DEFINE c == mConnection[s]  w == <<s, written[s] + 1>>
<1>1. /\ ExecuteEnd(s) /\ written' = [written EXCEPT ![s] = @ + 1] /\ written[s] < MaxWrites
      /\ c \in Conn /\ owner[c] = s
  BY ExecuteEndFacts DEF ExecuteWrite
<1>2. /\ written \in [Session -> 0 .. MaxWrites] /\ MaxWrites \in Nat /\ durable \subseteq Write
      /\ native \in [Conn -> [open : BOOLEAN, pending : SUBSET Write]] /\ NoConn \notin Conn
  BY SessionAssumption DEF IInv, TypeOK
<1>3. /\ written[s] \in Nat /\ written'[s] = written[s] + 1 /\ w \in Write /\ w[1] = s
      /\ w[2] = written'[s] /\ ~(w[2] <= written[s])
      /\ \A t \in Session : written'[t] \in Nat /\ written[t] \in Nat /\ written[t] <= written'[t]
  <2>1. \A t \in Session : written[t] \in 0 .. MaxWrites
    BY <1>2
  <2>2. written[s] \in Nat /\ written[s] + 1 \in 1 .. MaxWrites
    BY <1>1, <1>2, <2>1
  <2>3. \A t \in Session : written'[t] = IF t = s THEN written[t] + 1 ELSE written[t]
    BY <1>1, <1>2
  <2>4. \A t \in Session : written[t] \in Nat /\ written'[t] \in Nat /\ written[t] <= written'[t]
    BY <1>2, <2>1, <2>3
  <2> QED BY <2>2, <2>3, <2>4 DEF Write
<1>4. /\ \A v \in durable : v[2] <= written[v[1]]
      /\ \A t \in Session : \A v \in Pending(t) : v[1] = t /\ v[2] <= written[t]
  <2>1. \A t \in Session : mConnection[t] # NoConn => mConnection[t] \in Conn /\ owner[mConnection[t]] = t
    BY SessionFacts
  <2> QED BY <2>1 DEF RInv, WritesInv, Pending
<1> HIDE DEF w
<1>5. w \notin durable /\ \A t \in Session : w \notin Pending(t)
  BY <1>3, <1>4
<1>6. \A v \in durable \cup {w} : v[2] <= written'[v[1]]
  <2>1. \A v \in durable : v[1] \in Session /\ v[2] \in Nat
    BY <1>2 DEF Write
  <2>2. \A v \in durable : v[2] <= written'[v[1]]
    BY <1>3, <1>4, <2>1
  <2> QED BY <1>3, <2>2
<1>7. CASE native[c].open
  <2>1. native' = [native EXCEPT ![c].pending = @ \cup {w}] /\ durable' = durable
    BY <1>7 DEF ExecuteWrite, w
  <2>2. InTransaction(s) /\ Phase(s) = "active" /\ mConnection'[s] = c
    <3>1. InTransaction(s)
      BY <1>1, <1>7 DEF RInv, OpenInv
    <3> QED BY <1>1, <3>1, ExecuteEndFacts, PhaseFacts
  <2>3. native'[c].open /\ native'[c].pending = Pending(s) \cup {w} /\ Pending(s) \subseteq Write
    BY <1>1, <1>2, <1>7, <2>1 DEF Pending
  <2>4. Pending(s)' = Pending(s) \cup {w}
    BY <1>1, <1>2, <2>2, <2>3 DEF Pending
  <2>5. Writes(s, w)
    BY <1>1, <1>3, <1>5, <2>1, <2>2, <2>4, ExecuteEndFacts DEF Writes
  <2>6. \A v \in Pending(s) \cup {w} : v[1] = s /\ v[2] <= written'[s]
    <3>1. \A v \in Pending(s) : v[2] \in Nat
      BY <2>3 DEF Write
    <3> QED BY <1>3, <1>4, <3>1
  <2>7. WritesEffect(s)
    BY <1>6, <2>1, <2>2, <2>3, <2>6 DEF WritesEffect
  <2>8. TransactionInv(s)'
    BY <1>1, <2>2, <2>3, ExecuteEndFacts, TransactionFacts DEF TransactionInv
  <2> QED BY <1>3, <2>5, <2>7, <2>8 DEF StepHolds, AbstractStep
<1>8. CASE ~native[c].open
  <2>1. native' = native /\ durable' = durable \cup {w}
    BY <1>8 DEF ExecuteWrite, w
  <2>2. ~InTransaction(s) /\ Phase(s) = "none" /\ Pending(s) = {} /\ native[c].pending = {}
    <3>1. ~InTransaction(s)
      BY <1>8, TransactionFacts
    <3>2. Phase(s) # "active" /\ Phase(s) # "yielded"
      BY <1>1, <3>1, ExecuteEndFacts, PhaseFacts
    <3> QED BY <1>1, <3>1, <3>2, IdleFacts DEF Phase
  <2>3. Pending(s)' = Pending(s)
    BY <1>1, <2>1, <2>2, ExecuteEndFacts DEF Pending
  <2>4. Writes(s, w)
    BY <1>1, <1>3, <1>5, <2>1, <2>2, <2>3, ExecuteEndFacts DEF Writes
  <2>5. WritesEffect(s)
    BY <1>1, <1>2, <1>6, <2>1, <2>2, ExecuteEndFacts DEF WritesEffect
  <2>6. TransactionInv(s)'
    BY <1>1, <2>2, ExecuteEndFacts, TransactionFacts DEF TransactionInv
  <2> QED BY <1>3, <2>4, <2>5, <2>6 DEF StepHolds, AbstractStep
<1> QED BY <1>7, <1>8

-----------------------------------------------------------------------------
(* beginTransaction.                                                         *)

\* A frame is pushed.
LEMMA PushedFrames ==
  ASSUME IInv, NEW s \in Session, NEW l \in BOOLEAN, PushTransaction(s, l), Depth(s) < MaxDepth
  PROVE  /\ Depth(s)' = Depth(s) + 1 /\ Depth(s)' > 0 /\ Marked(s)' = Marked(s)
         /\ (\E i \in DOMAIN mTransactionStack[s] : mTransactionStack[s][i].childFailed)
              => \E i \in DOMAIN mTransactionStack'[s] : mTransactionStack'[s][i].childFailed
<1> DEFINE st == mTransactionStack[s]  f == NewFrame(l)  d == Depth(s)
<1>1. /\ mTransactionStack'[s] = Append(st, f) /\ st \in Seq(Frames) /\ d \in Nat /\ Len(st) = d
      /\ DOMAIN st = 1 .. d /\ f \in Frames /\ ~f.markedSuccessful
  <2>1. mTransactionStack' = [mTransactionStack EXCEPT ![s] = Append(@, f)] /\ f \in Frames
        /\ ~f.markedSuccessful
    BY PushEffect DEF NewFrame, Frames
  <2>2. mTransactionStack \in [Session -> Seq(Frames)]
    BY DEF IInv, TypeOK
  <2>3. st \in Seq(Frames) /\ d \in Nat /\ Len(st) = d /\ DOMAIN st = 1 .. d
    BY SessionFacts, EmptyFacts DEF Depth
  <2> QED BY <2>1, <2>2, <2>3
<1> HIDE DEF f
<1>2. /\ Append(st, f) \in Seq(Frames) /\ Len(Append(st, f)) = d + 1
      /\ \A i \in 1 .. d : Append(st, f)[i] = st[i]
      /\ Append(st, f)[d + 1] = f /\ DOMAIN Append(st, f) = 1 .. d + 1
  BY <1>1, AppendFacts, EmptyFacts
<1>3. Depth(s)' = d + 1 /\ Depth(s)' > 0
  <2>1. Depth(s)' = Len(mTransactionStack'[s])
    BY DEF Depth
  <2> QED BY <1>1, <1>2, <2>1
<1>4. Marked(s)' <=> Append(st, f)[1].markedSuccessful
  BY <1>1, <1>3 DEF Marked
<1>5. CASE d = 0
  <2>1. Append(st, f)[1] = f
    BY <1>2, <1>5
  <2>2. ~Marked(s)
    BY <1>5 DEF Marked
  <2>3. ~Marked(s)' /\ Marked(s)' \in BOOLEAN /\ Marked(s) \in BOOLEAN
    BY <1>1, <1>4, <2>1 DEF Marked
  <2>4. DOMAIN st = {}
    BY <1>1, <1>5
  <2> QED BY <1>3, <2>2, <2>3, <2>4
<1>6. CASE d # 0
  <2>1. 1 \in 1 .. d /\ d > 0
    BY <1>1, <1>6
  <2>2. Append(st, f)[1] = st[1] /\ st[1].markedSuccessful \in BOOLEAN
    <3>1. st[1] \in Frames
      BY <1>1, <2>1
    <3> QED BY <1>2, <2>1, <3>1 DEF Frames
  <2>3. (Marked(s) <=> st[1].markedSuccessful) /\ Marked(s) \in BOOLEAN /\ Marked(s)' \in BOOLEAN
    BY <2>1, <2>2 DEF Marked
  <2>4. \A i \in 1 .. d : i \in 1 .. d + 1
    BY <1>1
  <2> QED BY <1>1, <1>2, <1>3, <1>4, <2>2, <2>3, <2>4
<1> QED BY <1>5, <1>6

LEMMA BeginHolds ==
  ASSUME TransactionsHold, IInv, IInv', RInv, NEW s \in Session, StepOf(s),
         NEW l \in BOOLEAN, beginTransaction(s, l)
  PROVE  StepHolds(s)
<1>1. /\ StartTransaction(s) /\ Depth(s) \in Nat /\ Depth(s) < MaxDepth /\ Plain(calls[s])
      /\ nestedFailed'[s] = nestedFailed[s]
  <2>1. Running(s) /\ ~InListener(s)
    BY DEF beginTransaction, TransactionsHold
  <2> QED BY <2>1, PlainRunning, SessionFacts DEF beginTransaction
<1>2. /\ InTransaction(s) <=> Depth(s) > 0
      /\ Phase(s) = IF Depth(s) > 0 THEN "active" ELSE "none"
  BY <1>1, PlainPhase
<1>3. /\ WritesEffect(s) /\ native'[mConnection'[s]].open /\ durable' = durable
      /\ Pending(s)' = Pending(s)
  <2>1. CASE Depth(s) = 0
    BY <1>1, <1>2, <2>1, BegunWrites
  <2>2. CASE Depth(s) > 0
    <3>1. UNCHANGED <<connVars, dataVars>>
      BY <1>1, <2>2, StartEffect
    <3>2. UNCHANGED <<mConnection, native, durable>> /\ UNCHANGED dataVars
      BY <3>1 DEF connVars, dataVars
    <3> QED BY <1>2, <2>2, <3>2, SameWrites, TransactionFacts DEF Pending
  <2> QED BY <1>1, <2>1, <2>2
<1>4. /\ Phase(s)' = "active" /\ Marked(s)' = Marked(s) /\ Solo(calls'[s], Depth(s)', Top(s)')
      /\ (\E i \in DOMAIN mTransactionStack[s] : mTransactionStack[s][i].childFailed)
           => \E i \in DOMAIN mTransactionStack'[s] : mTransactionStack'[s][i].childFailed
  <2>1. CASE l
    <3> DEFINE a == Activation(s, "onBegin", l, FALSE, FALSE)
    <3>1. calls' = [calls EXCEPT ![s] = Append(calls[s], a)] /\ UNCHANGED stackVars
      BY <2>1 DEF beginTransaction, Push
    <3>2. a \in Activations /\ a.kind = "onBegin" /\ a.base = Depth(s)
      BY OnBeginActivation
    <3> HIDE DEF a
    <3>3. /\ calls[s] \in Seq(Activations) /\ calls'[s] = Append(calls[s], a)
          /\ mTransactionStack'[s] = mTransactionStack[s]
      BY <3>1 DEF IInv, TypeOK, stackVars
    <3>4. Depth(s)' = Depth(s) /\ Top(s)' = Top(s) /\ Marked(s)' = Marked(s)
      BY <3>3, SameFrames
    <3>5. Solo(Append(calls[s], a), Depth(s), Top(s))
      <4>1. Promise(a, Depth(s), Top(s)) /\ a.kind # "statement"
        BY <3>2 DEF Promise
      <4> QED BY <1>1, <3>2, <3>3, <4>1, AppendCalls
    <3>6. Depth(s) = 0 => Began(Append(calls[s], a))
      <4>1. Depth(s) = 0 => Beginning(a)
        BY <3>2 DEF Beginning
      <4>2. Began(Append(calls[s], a)) <=> Began(calls[s]) \/ Beginning(a)
        BY <1>1, <3>2, <3>3, BeganFacts
      <4> QED BY <4>1, <4>2
    <3>7. Phase(s)' = "active"
      <4>1. Depth(s)' > 0 \/ Began(calls'[s])
        <5>1. Depth(s) > 0 \/ Depth(s) = 0
          BY <1>1
        <5> QED BY <3>3, <3>4, <3>6, <5>1
      <4> QED BY <4>1, PhaseFacts
    <3> QED BY <3>3, <3>4, <3>5, <3>7
  <2>2. CASE ~l
    <3>1. PushTransaction(s, l) /\ calls' = calls
      BY <2>2 DEF beginTransaction
    <3>2. Solo(calls'[s], Depth(s)', Top(s)')
      BY <1>1, <3>1, PlainFacts
    <3> QED BY <1>1, <3>1, <3>2, PushedFrames, PlainPhasePrime
  <2> QED BY <2>1, <2>2
<1>5. TransactionInv(s)'
  BY <1>1, <1>3, <1>4, TransactionFacts DEF TransactionInv
<1>6. Same(s) \/ Begins(s)
  BY <1>1, <1>2, <1>3, <1>4 DEF Same, Begins
<1> QED BY <1>3, <1>5, <1>6 DEF StepHolds, AbstractStep

\* COMMIT and ROLLBACK are not refused in a transaction.
LEMMA EndsHold ==
  ASSUME TransactionsHold, NEW s \in Session, native[mConnection[s]].open
  PROVE  ~NativeEndThrows(s, "commitFails") /\ ~NativeEndThrows(s, "rollbackFails")
BY DEF TransactionsHold, NativeEndThrows

\* Neither the connections nor the database change.
LEMMA SameDatabase ==
  ASSUME IInv, RInv, NEW s \in Session, UNCHANGED connVars, UNCHANGED dataVars
  PROVE  /\ WritesEffect(s) /\ Pending(s)' = Pending(s) /\ durable' = durable
         /\ InTransaction(s) => native'[mConnection'[s]].open
<1>1. UNCHANGED <<mConnection, native, durable>>
  BY DEF connVars, dataVars
<1> QED BY <1>1, SameWrites, TransactionFacts DEF Pending

LEMMA OnBeginReturnsHolds ==
  ASSUME IInv, IInv', RInv, NEW s \in Session, StepOf(s), OnBeginReturns(s)
  PROVE  StepHolds(s)
<1>1. /\ At(s, "onBegin") /\ ~HasOwnTransaction(s) /\ calls[s] # <<>> /\ Call(s).kind = "onBegin"
      /\ PushTransaction(s, TRUE) /\ calls'[s] = Front(calls[s]) /\ UNCHANGED <<connVars, dataVars>>
      /\ nestedFailed'[s] = nestedFailed[s]
  BY DEF OnBeginReturns, At, Return, IInv, TypeOK
<1>2. Depth(s) < MaxDepth /\ Depth(s) \in Nat /\ Plain(calls'[s])
      /\ (Depth(s) = 0 => InTransaction(s)) /\ InTransaction(s)
  <2>1. Depth(s) = 0 => InTransaction(s)
    BY <1>1, PlainFront
  <2>2. Depth(s) \in Nat /\ Plain(calls'[s])
    BY <1>1, PlainFront, SessionFacts
  <2> QED BY <1>1, <2>1, <2>2, ListenerUses, InTransactionFacts
<1>3. /\ Phase(s) = "active" /\ Phase(s)' = "active" /\ Marked(s)' = Marked(s)
      /\ nestedFailed[s] =>
           \E i \in DOMAIN mTransactionStack'[s] : mTransactionStack'[s][i].childFailed
  <2> DEFINE l == TRUE
  <2>1. l \in BOOLEAN /\ PushTransaction(s, l)
    BY <1>1
  <2> HIDE DEF l
  <2>2. /\ Depth(s)' > 0 /\ Marked(s)' = Marked(s)
        /\ (\E i \in DOMAIN mTransactionStack[s] : mTransactionStack[s][i].childFailed)
             => \E i \in DOMAIN mTransactionStack'[s] : mTransactionStack'[s][i].childFailed
    BY <1>2, <2>1, PushedFrames
  <2> QED BY <1>2, <2>2, PhaseFacts, TransactionFacts
<1>4. /\ WritesEffect(s) /\ Pending(s)' = Pending(s) /\ durable' = durable
      /\ native'[mConnection'[s]].open
  BY <1>1, <1>2, SameDatabase
<1>5. Solo(calls'[s], Depth(s)', Top(s)')
  BY <1>2, PlainFacts
<1>6. TransactionInv(s)'
  BY <1>1, <1>3, <1>4, <1>5 DEF TransactionInv
<1> QED BY <1>1, <1>3, <1>4, <1>6 DEF StepHolds, AbstractStep, Same

LEMMA OnBeginThrowsHolds ==
  ASSUME TransactionsHold, IInv, IInv', RInv, NEW s \in Session, StepOf(s), OnBeginThrows(s)
  PROVE  StepHolds(s)
<1>1. /\ At(s, "onBegin") /\ ~HasOwnTransaction(s) /\ calls[s] # <<>> /\ Call(s).kind = "onBegin"
      /\ calls'[s] = Front(calls[s]) /\ mTransactionStack'[s] = mTransactionStack[s]
      /\ nestedFailed'[s] = nestedFailed[s] /\ Depth(s) \in Nat
  BY SessionFacts DEF OnBeginThrows, At, Return, IInv, TypeOK, stackVars
<1>2. /\ Plain(calls'[s]) /\ Depth(s)' = Depth(s) /\ Marked(s)' = Marked(s)
      /\ Solo(calls'[s], Depth(s)', Top(s)')
  BY <1>1, PlainFront, PlainFacts, SameFrames
<1>3. CASE Depth(s) > 0
  <2>1. UNCHANGED connVars /\ UNCHANGED dataVars
    BY <1>3, SessionFacts DEF OnBeginThrows
  <2>2. Phase(s) = "active" /\ Phase(s)' = "active" /\ InTransaction(s)
    BY <1>2, <1>3, PhaseFacts, InTransactionFacts
  <2>3. /\ WritesEffect(s) /\ Pending(s)' = Pending(s) /\ durable' = durable
        /\ native'[mConnection'[s]].open
    BY <2>1, <2>2, SameDatabase
  <2>4. TransactionInv(s)'
    BY <1>1, <1>2, <2>3, TransactionFacts DEF TransactionInv
  <2> QED BY <1>1, <1>2, <2>2, <2>3, <2>4 DEF StepHolds, AbstractStep, Same
<1>4. CASE Depth(s) = 0
  <2>1. InTransaction(s) /\ Phase(s) = "active" /\ native[mConnection[s]].open /\ mConnection[s] \in Conn
    <3>1. InTransaction(s)
      BY <1>1, <1>4, PlainFront
    <3> QED BY <3>1, PhaseFacts, TransactionFacts
  <2>2. NativeRollback(s) /\ releaseConnection(s)
    <3>1. ~NativeEndThrows(s, "rollbackFails")
      BY <2>1, EndsHold
    <3>2. mTransactionStack[s] = <<>>
      BY <1>4, SessionFacts
    <3> QED BY <3>1, <3>2 DEF OnBeginThrows
  <2>3. mConnection'[s] = mConnection[s] \/ mConnection'[s] = NoConn
    BY <2>1, <2>2, ReleasedConnection
  <2>4. WritesEffect(s) /\ Pending(s)' = {} /\ durable' = durable
    BY <2>1, <2>2, <2>3, EndedWrites
  <2>5. Phase(s)' = "none" /\ ~InTransaction(s)' /\ Marked(s)' = FALSE /\ ~nestedFailed'[s]
    <3>1. ~(Depth(s)' > 0)
      BY <1>2, <1>4
    <3>2. Marked(s)' = FALSE
      BY <3>1 DEF Marked
    <3>3. ~nestedFailed'[s]
      BY <1>1, <1>4, TransactionFacts
    <3> QED BY <1>2, <3>1, <3>2, <3>3, PlainPhasePrime
  <2>6. TransactionInv(s)'
    BY <1>2, <2>5 DEF TransactionInv
  <2>7. nestedFailed'[s] = FALSE
    BY <2>5 DEF IInv, TypeOK
  <2> QED BY <2>1, <2>4, <2>5, <2>6, <2>7 DEF StepHolds, AbstractStep, Ends
<1> QED BY <1>1, <1>3, <1>4

-----------------------------------------------------------------------------
(* setTransactionSuccessful, endTransaction and yieldTransaction.            *)

LEMMA MarkHolds ==
  ASSUME IInv, IInv', RInv, NEW s \in Session, StepOf(s),
         setTransactionSuccessful(s) \/ executeCommit(s)
  PROVE  StepHolds(s)
<1> DEFINE d == Depth(s)  st == mTransactionStack[s]
<1>1. setTransactionSuccessfulUnlessMarked(s)
  BY DEF setTransactionSuccessful, executeCommit
<1>2. /\ Running(s) /\ HasOwnTransaction(s) /\ UNCHANGED <<connVars, dataVars, nestedFailed>>
      /\ Plain(calls[s])
  BY <1>1, PlainRunning DEF setTransactionSuccessfulUnlessMarked
<1>3. /\ d \in Nat /\ d > 0 /\ st \in Seq(Frames) /\ DOMAIN st = 1 .. d
      /\ mTransactionStack'[s] \in Seq(Frames) /\ Len(mTransactionStack'[s]) = d
      /\ \A i \in 1 .. d : mTransactionStack'[s][i] = IF i # d THEN st[i]
           ELSE [st[i] EXCEPT !.markedSuccessful = TRUE]
  <2>1. StackEffect(s, d) /\ d > 0 /\ mTransactionStack' \in [Session -> Seq(Frames)]
    BY <1>1, MarkEffect DEF StackEffect
  <2>2. st \in Seq(Frames) /\ d \in Nat /\ Len(st) = d
    BY SessionFacts DEF Depth
  <2> QED BY <1>1, <2>1, <2>2, MarkEffect, EmptyFacts DEF StackEffect
<1>4. Depth(s)' = d /\ DOMAIN mTransactionStack'[s] = 1 .. d
  BY <1>3, EmptyFacts DEF Depth
<1>5. InTransaction(s) /\ Phase(s) = "active" /\ Phase(s)' = "active"
  BY <1>3, <1>4, PhaseFacts
<1>6. /\ WritesEffect(s) /\ Pending(s)' = Pending(s) /\ durable' = durable
      /\ native'[mConnection'[s]].open
  BY <1>2, <1>5, SameDatabase
<1>7. \A i \in 1 .. d : /\ st[i] \in Frames
                        /\ mTransactionStack'[s][i].childFailed = st[i].childFailed
                        /\ mTransactionStack'[s][i].markedSuccessful
                             = (st[i].markedSuccessful \/ i = d)
  <2>1. \A i \in 1 .. d : st[i] \in Frames
    BY <1>3
  <2> QED BY <1>3, <2>1 DEF Frames
<1>8. IF d = 1 THEN Marked(s)' = TRUE ELSE Marked(s)' = Marked(s)
  <2>1. 1 \in 1 .. d
    BY <1>3
  <2>2. /\ Marked(s) = (d > 0 /\ st[1].markedSuccessful)
        /\ Marked(s)' = (Depth(s)' > 0 /\ mTransactionStack'[s][1].markedSuccessful)
    BY DEF Marked
  <2>3. st[1].markedSuccessful \in BOOLEAN
    BY <1>7, <2>1 DEF Frames
  <2> QED BY <1>3, <1>4, <1>7, <2>1, <2>2, <2>3
<1>9. nestedFailed'[s] => \E i \in DOMAIN mTransactionStack'[s] : mTransactionStack'[s][i].childFailed
  <2>1. nestedFailed'[s] => \E i \in 1 .. d : st[i].childFailed
    BY <1>2, <1>3, TransactionFacts
  <2> QED BY <1>4, <1>7, <2>1
<1>10. Solo(calls'[s], Depth(s)', Top(s)')
  <2>1. CASE setTransactionSuccessful(s)
    BY <1>2, <2>1, PlainFacts DEF setTransactionSuccessful
  <2>2. CASE executeCommit(s)
    <3> DEFINE a == Activation(s, "commit", FALSE, FALSE, FALSE)
    <3>1. calls'[s] = Append(calls[s], a) /\ calls[s] \in Seq(Activations)
      BY <2>2 DEF executeCommit, Push, IInv, TypeOK
    <3>2. a \in Activations /\ a.kind = "commit" /\ a.base = d
      <4>1. "commit" \in Kinds /\ FALSE \in BOOLEAN
        BY DEF Kinds
      <4> QED BY <4>1, ActivationFacts
    <3> HIDE DEF a
    <3>3. Promise(a, d, Top(s)') /\ a.kind # "statement"
      BY <3>2 DEF Promise
    <3>4. Solo(Append(calls[s], a), d, Top(s)')
      BY <1>2, <3>1, <3>2, <3>3, AppendCalls
    <3> QED BY <1>4, <3>1, <3>4
  <2> QED BY <2>1, <2>2
<1>11. TransactionInv(s)'
  BY <1>6, <1>9, <1>10 DEF TransactionInv
<1>12. Same(s) \/ Marks(s)
  BY <1>2, <1>5, <1>6, <1>8 DEF Same, Marks
<1> QED BY <1>6, <1>11, <1>12 DEF StepHolds, AbstractStep

\* endTransactionUnchecked ends what it was asked to end, and with the success promised.
LEMMA FinishEndHolds ==
  ASSUME TransactionsHold, IInv, IInv', RInv, NEW s \in Session, StepOf(s),
         NEW rest, Plain(rest), rest \in Seq(Activations), Depth(s) > 0,
         NEW ok \in BOOLEAN, NEW yielding \in BOOLEAN, FinishEnd(s, ok, yielding, rest),
         ok => ~Top(s).childFailed /\ (yielding \/ Top(s).markedSuccessful),
         yielding => ok /\ Depth(s) = 1 /\ ~Top(s).markedSuccessful
  PROVE  StepHolds(s)
<1> DEFINE d == Depth(s)  st == mTransactionStack[s]
<1>1. /\ d \in Nat /\ st \in Seq(Frames) /\ DOMAIN st = 1 .. d /\ Top(s) = st[d]
      /\ \A i \in 1 .. d : st[i] \in Frames
      /\ InTransaction(s) /\ Phase(s) = "active" /\ native[mConnection[s]].open
      /\ mConnection[s] \in Conn /\ st[d].childFailed \in BOOLEAN /\ st[d].markedSuccessful \in BOOLEAN
  <2>1. d \in Nat /\ st \in Seq(Frames) /\ DOMAIN st = 1 .. d /\ Top(s) = st[d]
        /\ \A i \in 1 .. d : st[i] \in Frames
    BY SessionFacts, EmptyFacts DEF Depth, Top
  <2>2. InTransaction(s) /\ Phase(s) = "active"
    BY PhaseFacts
  <2> QED BY <2>1, <2>2, TransactionFacts, TopFacts
<1>2. /\ Depth(s)' = d - 1 /\ mTransactionStack'[s] \in Seq(Frames)
      /\ DOMAIN mTransactionStack'[s] = 1 .. d - 1
      /\ \A i \in 1 .. d - 1 :
           mTransactionStack'[s][i] = IF ok \/ i # d - 1 THEN st[i] ELSE [st[i] EXCEPT !.childFailed = TRUE]
  <2>1. StackEffect(s, d - 1) /\ PopTransaction(s, ok)
    BY PopEffect DEF FinishEnd
  <2> QED BY <2>1, PopEffect, EmptyFacts DEF StackEffect, Depth
<1>3. CASE d > 1
  <2>1. /\ calls'[s] = rest /\ UNCHANGED connVars /\ UNCHANGED dataVars
        /\ nestedFailed'[s] = (nestedFailed[s] \/ ~ok \/ ~st[d].markedSuccessful)
    BY <1>1, <1>3 DEF FinishEnd, IInv, TypeOK
  <2>2. /\ d - 1 \in 1 .. d - 1 /\ d - 1 > 0 /\ 1 \in 1 .. d - 1 /\ d \notin 1 .. d - 1
        /\ \A i \in 1 .. d : i = d \/ i \in 1 .. d - 1
        /\ \A i \in 1 .. d - 1 : i \in 1 .. d
    BY <1>1, <1>3
  <2>3. Phase(s)' = "active" /\ InTransaction(s)'
    BY <1>2, <2>1, <2>2, PlainPhasePrime
  <2>4. /\ WritesEffect(s) /\ Pending(s)' = Pending(s) /\ durable' = durable
        /\ native'[mConnection'[s]].open
    BY <1>1, <2>1, SameDatabase
  <2>5. Marked(s)' = Marked(s)
    <3> DEFINE ts == mTransactionStack'[s]
    <3>0. \A i \in 1 .. d - 1 : ts[i] = IF ok \/ i # d - 1 THEN st[i] ELSE [st[i] EXCEPT !.childFailed = TRUE]
      BY <1>2
    <3> HIDE DEF ts
    <3>1. /\ st[1] \in Frames
          /\ ts[1] = st[1] \/ ts[1] = [st[1] EXCEPT !.childFailed = TRUE]
      <4>1. 1 \in 1 .. d /\ 1 \in 1 .. d - 1
        BY <2>2
      <4> HIDE DEF d, st
      <4> QED BY <1>1, <3>0, <4>1
    <3>2. mTransactionStack'[s][1].markedSuccessful = st[1].markedSuccessful
      BY <3>1 DEF Frames, ts
    <3> QED BY <1>2, <1>3, <2>2, <3>2 DEF Marked
  <2>6. nestedFailed'[s] => \E i \in DOMAIN mTransactionStack'[s] : mTransactionStack'[s][i].childFailed
    <3>1. CASE ok
      <4>1. st[d].markedSuccessful /\ ~st[d].childFailed
        BY <1>1, <1>3, <3>1
      <4>2. nestedFailed'[s] => \E i \in 1 .. d : st[i].childFailed
        BY <1>1, <2>1, <3>1, <4>1, TransactionFacts
      <4> QED BY <1>2, <2>2, <3>1, <4>1, <4>2
    <3>2. CASE ~ok
      <4>1. mTransactionStack'[s][d - 1] = [st[d - 1] EXCEPT !.childFailed = TRUE] /\ st[d - 1] \in Frames
        BY <1>1, <1>2, <2>2, <3>2
      <4>2. mTransactionStack'[s][d - 1].childFailed
        BY <4>1 DEF Frames
      <4> QED BY <1>2, <2>2, <4>2
    <3> QED BY <3>1, <3>2
  <2>7. TransactionInv(s)'
    BY <2>1, <2>4, <2>6, PlainFacts DEF TransactionInv
  <2>8. Same(s) \/ ChildFails(s)
    <3>1. nestedFailed[s] \in BOOLEAN /\ nestedFailed'[s] \in BOOLEAN
      BY DEF IInv, TypeOK
    <3> QED BY <1>1, <2>1, <2>3, <2>4, <2>5, <3>1 DEF Same, ChildFails
  <2> QED BY <2>4, <2>7, <2>8 DEF StepHolds, AbstractStep
<1>4. CASE d = 1
  <2>1. EndOutermost(s, ok) /\ nestedFailed'[s] = FALSE
        /\ calls' = [calls EXCEPT ![s] = IF ~yielding THEN rest ELSE Append(rest,
             [Activation(s, "sleep", Top(s).listener, FALSE, FALSE) EXCEPT !.base = 0])]
    <3>1. ~EndOutermostThrows(s, ok)
      BY <1>1, EndsHold DEF EndOutermostThrows
    <3> QED BY <1>4, <3>1 DEF FinishEnd, IInv, TypeOK
  <2>2. mConnection'[s] = mConnection[s] \/ mConnection'[s] = NoConn
    BY <1>1, <2>1, ReleasedConnection DEF EndOutermost
  <2>3. /\ WritesEffect(s) /\ Pending(s)' = {}
        /\ ok => durable' = durable \cup Pending(s)
        /\ ~ok => durable' = durable
    BY <1>1, <2>1, <2>2, EndedWrites DEF EndOutermost
  <2>4. Depth(s)' = 0 /\ Marked(s)' = FALSE
    <3>1. Depth(s)' = 0
      BY <1>2, <1>4
    <3> QED BY <3>1 DEF Marked
  <2>5. ok => ~nestedFailed[s]
    <3>1. nestedFailed[s] => \E i \in 1 .. d : st[i].childFailed
      BY <1>1, TransactionFacts
    <3>2. \A i \in 1 .. d : i = d
      BY <1>4
    <3> QED BY <1>1, <3>1, <3>2
  <2>6. Marked(s) = st[d].markedSuccessful
    BY <1>1, <1>4 DEF Marked
  <2>7. /\ Phase(s)' = IF yielding THEN "yielded" ELSE "none"
        /\ Solo(calls'[s], Depth(s)', Top(s)') /\ ~InTransaction(s)'
    <3>1. CASE ~yielding
      <4>1. calls'[s] = rest
        BY <2>1, <3>1 DEF IInv, TypeOK
      <4> QED BY <2>4, <3>1, <4>1, PlainFacts, PlainPhasePrime
    <3>2. CASE yielding
      <4> DEFINE b == Activation(s, "sleep", Top(s).listener, FALSE, FALSE)
                 a == [b EXCEPT !.base = 0]
      <4>1. calls'[s] = Append(rest, a)
        BY <2>1, <3>2 DEF IInv, TypeOK
      <4>2. b \in Activations /\ b.kind = "sleep"
        <5> DEFINE l == Top(s).listener  no == FALSE
        <5>1. "sleep" \in Kinds /\ no \in BOOLEAN /\ l \in BOOLEAN
          BY TopFacts DEF Kinds
        <5> HIDE DEF l, no
        <5>2. LET c == Activation(s, "sleep", l, no, no) IN c \in Activations /\ c.kind = "sleep"
          BY <5>1, ActivationFacts
        <5> QED BY <5>2 DEF l, no
      <4> HIDE DEF b
      <4>3. a \in Activations /\ a.kind = "sleep" /\ a.base = 0
        <5>1. 0 \in 0 .. MaxDepth
          BY SessionAssumption
        <5> QED BY <4>2, <5>1 DEF Activations
      <4> HIDE DEF a
      <4>4. Solo(Append(rest, a), 0, Top(s)')
        <5>1. Promise(a, 0, Top(s)') /\ a.kind # "statement"
          BY <4>3 DEF Promise
        <5> QED BY <4>3, <5>1, AppendCalls
      <4>5. ~Began(Append(rest, a)) /\ Asleep(Append(rest, a))
        <5>1. ~Began(rest) /\ ~Beginning(a)
          BY <4>3, PlainFacts DEF Beginning
        <5>2. Began(Append(rest, a)) <=> Began(rest) \/ Beginning(a)
          <6>1. 0 \in Nat
            OBVIOUS
          <6> QED BY <4>3, <6>1, BeganFacts
        <5> QED BY <4>3, <5>1, <5>2, AppendCalls
      <4>6. ~(Depth(s)' > 0) /\ ~Began(calls'[s]) /\ Asleep(calls'[s])
        BY <2>4, <4>1, <4>5
      <4> QED BY <2>4, <3>2, <4>1, <4>4, <4>6, PhaseFacts
    <3> QED BY <3>1, <3>2
  <2>8. TransactionInv(s)'
    BY <2>1, <2>7 DEF TransactionInv
  <2>9. Ends(s)
    BY <1>1, <1>4, <2>1, <2>3, <2>4, <2>5, <2>6, <2>7 DEF Ends
  <2> QED BY <2>3, <2>8, <2>9 DEF StepHolds, AbstractStep
<1> QED BY <1>1, <1>3, <1>4

\* endTransactionUnchecked: all of it, or up to the listener that is told of the end.
LEMMA EndUncheckedHolds ==
  ASSUME TransactionsHold, IInv, IInv', RInv, NEW s \in Session, StepOf(s),
         NEW rest, Plain(rest), rest \in Seq(Activations), Depth(s) > 0,
         NEW yielding \in BOOLEAN, EndUnchecked(s, yielding, rest),
         yielding => Depth(s) = 1 /\ ~Top(s).markedSuccessful /\ ~Top(s).childFailed
  PROVE  StepHolds(s)
<1> DEFINE ok == Successful(Top(s), yielding)  d == Depth(s)
<1>1. /\ ok \in BOOLEAN /\ d \in Nat
      /\ ok => ~Top(s).childFailed /\ (yielding \/ Top(s).markedSuccessful)
      /\ yielding => ok /\ d = 1 /\ ~Top(s).markedSuccessful
  BY TopFacts, SessionFacts DEF Successful
<1>2. CASE ~Top(s).listener
  <2>1. FinishEnd(s, ok, yielding, rest)
    BY <1>2 DEF EndUnchecked
  <2> HIDE DEF ok
  <2> QED BY <1>1, <2>1, FinishEndHolds
<1>3. CASE Top(s).listener
  <2> DEFINE a == Activation(s, "onEnd", TRUE, ok, yielding)
  <2>1. /\ calls' = [calls EXCEPT ![s] = Append(rest, a)]
        /\ UNCHANGED <<connVars, stackVars, dataVars, nestedFailed>>
    BY <1>3 DEF EndUnchecked
  <2>2. /\ a \in Activations /\ a.kind = "onEnd" /\ a.base = d
        /\ (a.successful <=> ok) /\ (a.yielding <=> yielding)
    <3> DEFINE l == TRUE
    <3>1. "onEnd" \in Kinds /\ l \in BOOLEAN
      BY DEF Kinds
    <3> HIDE DEF ok, l
    <3>2. LET b == Activation(s, "onEnd", l, ok, yielding)
          IN b \in Activations /\ b.kind = "onEnd" /\ b.base = d
      BY <1>1, <3>1, ActivationFacts
    <3>3. (a.successful <=> ok) /\ (a.yielding <=> yielding)
      BY <1>1 DEF Activation
    <3> QED BY <3>2, <3>3 DEF l
  <2> HIDE DEF a
  <2>3. calls'[s] = Append(rest, a) /\ mTransactionStack'[s] = mTransactionStack[s]
        /\ nestedFailed'[s] = nestedFailed[s]
    BY <2>1 DEF stackVars, IInv, TypeOK
  <2>4. Depth(s)' = d /\ Top(s)' = Top(s) /\ Marked(s)' = Marked(s)
    BY <2>3, SameFrames
  <2>5. Solo(Append(rest, a), d, Top(s))
    <3>1. Promise(a, d, Top(s)) /\ a.kind # "statement"
      BY <1>1, <2>2 DEF Promise
    <3> HIDE DEF d
    <3> QED BY <2>2, <3>1, AppendCalls
  <2>6. InTransaction(s) /\ Phase(s) = "active" /\ Phase(s)' = "active"
    BY <2>4, PhaseFacts
  <2>7. /\ WritesEffect(s) /\ Pending(s)' = Pending(s) /\ durable' = durable
        /\ native'[mConnection'[s]].open
    BY <2>1, <2>6, SameDatabase
  <2>8. TransactionInv(s)'
    <3>1. Solo(calls'[s], Depth(s)', Top(s)')
      BY <2>3, <2>4, <2>5
    <3> QED BY <2>3, <2>7, <3>1, TransactionFacts DEF TransactionInv
  <2> QED BY <2>3, <2>4, <2>6, <2>7, <2>8 DEF StepHolds, AbstractStep, Same
<1> QED BY <1>2, <1>3, TopFacts

LEMMA EndHolds ==
  ASSUME TransactionsHold, IInv, IInv', RInv, NEW s \in Session, StepOf(s),
         endTransaction(s) \/ executeCommitEnd(s) \/ yieldTransaction(s)
         \/ OnEndReturns(s) \/ OnEndThrows(s)
  PROVE  StepHolds(s)
<1> DEFINE yes == TRUE  no == FALSE
<1>1. yes \in BOOLEAN /\ no \in BOOLEAN /\ yes /\ ~no
  OBVIOUS
<1>2. CASE endTransaction(s) \/ yieldTransaction(s)
  <2>1. Running(s) /\ HasOwnTransaction(s) /\ Plain(calls[s]) /\ Depth(s) > 0
        /\ calls[s] \in Seq(Activations)
    BY <1>2, PlainRunning, RunningFacts, SessionFacts DEF endTransaction, yieldTransaction
  <2>2. CASE endTransaction(s)
    <3>1. EndUnchecked(s, no, calls[s])
      BY <2>2 DEF endTransaction
    <3> HIDE DEF no, yes
    <3> QED BY <1>1, <2>1, <3>1, EndUncheckedHolds
  <2>3. CASE yieldTransaction(s)
    <3>1. /\ EndUnchecked(s, yes, calls[s])
          /\ Depth(s) = 1 /\ ~Top(s).markedSuccessful /\ ~Top(s).childFailed
      BY <2>3 DEF yieldTransaction
    <3> HIDE DEF no, yes
    <3> QED BY <1>1, <2>1, <3>1, EndUncheckedHolds
  <2> QED BY <1>2, <2>2, <2>3
<1>3. CASE executeCommitEnd(s) \/ OnEndReturns(s) \/ OnEndThrows(s)
  <2> DEFINE fs == Front(calls[s])  a == Call(s)
  <2>1. /\ calls[s] # <<>> /\ a.kind \in {"commit", "onEnd"}
        /\ At(s, "commit") \/ (At(s, "onEnd") /\ ~HasOwnTransaction(s))
    BY <1>3 DEF executeCommitEnd, OnEndReturns, OnEndThrows, At
  <2>2. Plain(fs) /\ Promise(a, Depth(s), Top(s)) /\ fs \in Seq(Activations) /\ a \in Activations
    BY <2>1, PlainFront, ReturnFacts
  <2>3. Depth(s) > 0
    <3>1. Remains(s, fs)
      BY <2>1, ReturnRemains
    <3>2. Base(fs) \in Nat /\ Base(fs) < Depth(s) /\ Depth(s) \in Nat
      BY <2>1, <3>1, ReturnFacts, SessionFacts DEF Remains
    <3> QED BY <3>2
  <2> HIDE DEF fs
  <2>4. CASE executeCommitEnd(s)
    <3>1. EndUnchecked(s, no, fs)
      BY <2>4 DEF executeCommitEnd, fs
    <3> HIDE DEF no, yes
    <3> QED BY <1>1, <2>2, <2>3, <3>1, EndUncheckedHolds
  <2>5. CASE OnEndReturns(s)
    <3>1. FinishEnd(s, a.successful, a.yielding, fs) /\ a.kind = "onEnd"
      BY <2>5 DEF OnEndReturns, At, fs
    <3>2. a.successful \in BOOLEAN /\ a.yielding \in BOOLEAN
      BY <2>2 DEF Activations
    <3>3. /\ a.successful => ~Top(s).childFailed /\ (a.yielding \/ Top(s).markedSuccessful)
          /\ a.yielding => a.successful /\ Depth(s) = 1 /\ ~Top(s).markedSuccessful
      BY <2>2, <3>1 DEF Promise
    <3> QED BY <2>2, <2>3, <3>1, <3>2, <3>3, FinishEndHolds
  <2>6. CASE OnEndThrows(s)
    <3>1. FinishEnd(s, no, no, fs)
      BY <2>6 DEF OnEndThrows, fs
    <3> HIDE DEF no, yes
    <3> QED BY <1>1, <2>2, <2>3, <3>1, FinishEndHolds
  <2> QED BY <1>3, <2>4, <2>5, <2>6
<1> QED BY <1>2, <1>3

-----------------------------------------------------------------------------
(* The end of a yield.                                                       *)

\* A frame, or the listener before it, begins the transaction of the yielded one.
LEMMA ResumeHolds ==
  ASSUME IInv, IInv', RInv, NEW s \in Session, StepOf(s), YieldResumes(s)
  PROVE  StepHolds(s)
<1> DEFINE fs == Front(calls[s])
<1>1. /\ calls[s] # <<>> /\ Call(s).kind = "sleep" /\ StartTransaction(s)
      /\ Depth(s) = 0 /\ Depth(s) < MaxDepth /\ Call(s).base = 0 /\ fs \in Seq(Activations)
      /\ nestedFailed'[s] = nestedFailed[s]
  BY SleepFacts DEF YieldResumes, At
<1>2. Plain(fs) /\ Phase(s) = "yielded" /\ ~InTransaction(s) /\ ~nestedFailed[s]
  <2>1. Plain(fs) /\ Phase(s) = "yielded"
    BY <1>1, PlainFront
  <2> QED BY <1>1, <2>1, PhaseFacts, TransactionFacts
<1>3. /\ WritesEffect(s) /\ native'[mConnection'[s]].open /\ durable' = durable
      /\ Pending(s) = {} /\ Pending(s)' = {}
  BY <1>1, <1>2, BegunWrites
<1>4. Phase(s)' = "active" /\ Marked(s)' = Marked(s) /\ Solo(calls'[s], Depth(s)', Top(s)')
  <2>1. CASE Call(s).listener
    <3> DEFINE a == [Call(s) EXCEPT !.kind = "onBegin"]
    <3>1. calls' = [calls EXCEPT ![s][Len(calls[s])].kind = "onBegin"] /\ UNCHANGED stackVars
      BY <2>1 DEF YieldResumes
    <3>2. /\ a \in Activations /\ a.kind = "onBegin" /\ a.base = 0
          /\ calls' = [calls EXCEPT ![s] = Append(fs, a)]
      BY <1>1, <3>1, ResumedCalls
    <3> HIDE DEF a, fs
    <3>3. calls'[s] = Append(fs, a) /\ mTransactionStack'[s] = mTransactionStack[s]
      BY <3>1, <3>2 DEF stackVars, IInv, TypeOK
    <3>4. Depth(s)' = 0 /\ Top(s)' = Top(s) /\ Marked(s)' = Marked(s)
      BY <1>1, <3>3, SameFrames
    <3>5. Solo(Append(fs, a), 0, Top(s))
      <4>1. Promise(a, 0, Top(s)) /\ a.kind # "statement"
        BY <3>2 DEF Promise
      <4> QED BY <1>1, <1>2, <3>2, <4>1, AppendCalls
    <3>6. Began(Append(fs, a))
      <4>1. Beginning(a) /\ 0 \in Nat
        BY <3>2 DEF Beginning
      <4> QED BY <1>1, <3>2, <4>1, BeganFacts
    <3>7. Began(calls'[s]) /\ Solo(calls'[s], Depth(s)', Top(s)')
      BY <3>3, <3>4, <3>5, <3>6
    <3>8. Phase(s)' = "active"
      BY <3>7, PhaseFacts
    <3> QED BY <3>4, <3>7, <3>8
  <2>2. CASE ~Call(s).listener
    <3> DEFINE no == FALSE
    <3>1. PushTransaction(s, no) /\ calls'[s] = fs /\ no \in BOOLEAN
      BY <2>2 DEF YieldResumes, Return, IInv, TypeOK
    <3> HIDE DEF no, fs
    <3>2. Depth(s)' > 0 /\ Marked(s)' = Marked(s)
      BY <1>1, <3>1, PushedFrames
    <3>3. Plain(calls'[s])
      BY <1>2, <3>1
    <3> QED BY <3>2, <3>3, PlainFacts, PlainPhasePrime
  <2> QED BY <2>1, <2>2
<1>5. TransactionInv(s)'
  BY <1>1, <1>2, <1>3, <1>4 DEF TransactionInv
<1>6. Begins(s)
  BY <1>1, <1>2, <1>3, <1>4 DEF Begins
<1> QED BY <1>3, <1>5, <1>6 DEF StepHolds, AbstractStep

LEMMA ResumeThrowsHolds ==
  ASSUME IInv, IInv', RInv, NEW s \in Session, StepOf(s), YieldResumeThrows(s)
  PROVE  StepHolds(s)
<1>1. /\ calls[s] # <<>> /\ Call(s).kind = "sleep" /\ Depth(s) = 0
      /\ calls'[s] = Front(calls[s]) /\ mTransactionStack'[s] = mTransactionStack[s]
      /\ nestedFailed'[s] = nestedFailed[s] /\ UNCHANGED connVars /\ UNCHANGED dataVars
  BY SleepFacts DEF YieldResumeThrows, At, Return, IInv, TypeOK, stackVars
<1>2. Plain(calls'[s]) /\ Phase(s) = "yielded" /\ ~nestedFailed[s]
  BY <1>1, PlainFront, TransactionFacts
<1>3. Depth(s)' = 0 /\ Marked(s)' = Marked(s)
  BY <1>1, SameFrames
<1>4. Phase(s)' = "none" /\ ~InTransaction(s)' /\ Solo(calls'[s], Depth(s)', Top(s)')
  <2>1. ~(Depth(s)' > 0)
    BY <1>3
  <2> QED BY <1>2, <2>1, PlainFacts, PlainPhasePrime
<1>5. WritesEffect(s) /\ Pending(s)' = Pending(s) /\ durable' = durable
  BY <1>1, SameDatabase
<1>6. TransactionInv(s)'
  BY <1>1, <1>2, <1>4 DEF TransactionInv
<1>7. Abandons(s)
  BY <1>1, <1>2, <1>3, <1>4, <1>5 DEF Abandons
<1> QED BY <1>5, <1>6, <1>7 DEF StepHolds, AbstractStep

-----------------------------------------------------------------------------
(* The refinement.                                                           *)

LEMMA SessionHolds ==
  ASSUME IInv, IInv', OpenInv', RInv, NEW s \in Session, StepOf(s), StepHolds(s)
  PROVE  RInv' /\ [T!Next]_(T!vars)
<1>1. nestedFailed' \in [Session -> BOOLEAN]
  BY DEF IInv, TypeOK
<1> QED BY <1>1, RStep, AbstractSteps DEF StepHolds

LEMMA StutterHolds ==
  ASSUME RInv, UNCHANGED vars
  PROVE  RInv' /\ [T!Next]_(T!vars)
<1>1. /\ UNCHANGED <<mConnection, owner, mTransactionStack, calls, native, durable, written>>
      /\ nestedFailed' = nestedFailed
  BY DEF vars, connVars, stackVars, dataVars
<1>2. \A s \in Session : /\ Depth(s)' = Depth(s) /\ Top(s)' = Top(s)
                         /\ (InTransaction(s)' <=> InTransaction(s))
  BY <1>1 DEF Depth, Top, InTransaction, BeginningOutermost
<1>3. OpenInv'
  BY <1>1, <1>2 DEF RInv, OpenInv, InTransaction, BeginningOutermost, Depth
<1>4. ASSUME NEW s \in Session
      PROVE  TransactionInv(s)'
  BY <1>1, <1>2 DEF RInv, TransactionInv
<1>5. WritesInv'
  BY <1>1 DEF RInv, WritesInv
<1>6. phases' = phases /\ marks' = marks /\ pendings' = pendings
  BY <1>1 DEF phases, marks, pendings, Phase, Marked, Pending, Depth, BeginningOutermost
<1> QED BY <1>1, <1>3, <1>4, <1>5, <1>6, Unfold DEF RInv

LEMMA NextHolds ==
  ASSUME TransactionsHold, IInv, IInv', RInv, [Next]_vars
  PROVE  RInv' /\ [T!Next]_(T!vars)
<1> DEFINE Holds == RInv' /\ [T!Next]_(T!vars)
<1>0. OpenInv' /\ OpenInv
  <2>1. EndsSucceed
    BY DEF TransactionsHold, EndsSucceed
  <2>2. OpenInv
    BY DEF RInv
  <2> QED BY <2>1, <2>2, NextOpen
<1> HIDE DEF Holds
<1>1. ASSUME NEW s \in Session, StepOf(s), StepHolds(s)
      PROVE  Holds
  BY <1>0, <1>1, SessionHolds DEF Holds
<1>2. ASSUME NEW s \in Session, ExecuteBegin(s)
      PROVE  Holds
  BY <1>1, <1>2, ExecuteBeginStep, ExecuteBeginHolds
<1>3. ASSUME NEW s \in Session, ExecuteWrite(s) \/ ExecuteRead(s) \/ ExecuteConflict(s)
      PROVE  Holds
  <2>1. ~ExecuteConflict(s)
    BY DEF ExecuteConflict, TransactionsHold
  <2>2. StepOf(s)
    BY <1>3, ExecuteStep
  <2>3. StepHolds(s)
    BY <1>3, <2>1, <2>2, ExecuteWriteHolds, ExecuteReadHolds
  <2> QED BY <1>1, <2>2, <2>3
<1>4. ASSUME NEW s \in Session, NEW l \in Listeners, beginTransaction(s, l)
      PROVE  Holds
  <2>1. l \in BOOLEAN
    BY DEF Listeners
  <2> QED BY <1>1, <1>4, <2>1, BeginStep, BeginHolds
<1>5. ASSUME NEW s \in Session, OnBeginReturns(s) \/ OnBeginThrows(s)
      PROVE  Holds
  BY <1>1, <1>5, OnBeginStep, OnBeginReturnsHolds, OnBeginThrowsHolds
<1>6. ASSUME NEW s \in Session, setTransactionSuccessful(s) \/ executeCommit(s)
      PROVE  Holds
  BY <1>1, <1>6, SetSuccessfulStep, CommitStep, MarkHolds
<1>7. ASSUME NEW s \in Session, endTransaction(s) \/ executeCommitEnd(s) \/ yieldTransaction(s)
                                \/ OnEndReturns(s) \/ OnEndThrows(s)
      PROVE  Holds
  BY <1>1, <1>7, EndStep, EndHolds
<1>8. ASSUME NEW s \in Session, YieldResumes(s)
      PROVE  Holds
  BY <1>1, <1>8, ResumeStep, ResumeHolds
<1>9. ASSUME NEW s \in Session, YieldResumeThrows(s)
      PROVE  Holds
  BY <1>1, <1>9, ResumeThrowsStep, ResumeThrowsHolds
<1>10. ASSUME NEW c \in Conn, CloseIdleConnection(c)
       PROVE  FALSE
  <2>1. owner[c] = NoSession /\ native[c].open
    BY <1>10 DEF CloseIdleConnection
  <2> QED BY <1>0, <2>1, SessionAssumption DEF OpenInv
<1>11. ASSUME UNCHANGED vars
       PROVE  Holds
  BY <1>11, StutterHolds DEF Holds
<1>12. Holds
  BY <1>2, <1>3, <1>4, <1>5, <1>6, <1>7, <1>8, <1>9, <1>10, <1>11 DEF Next
<1> QED BY <1>12 DEF Holds

LEMMA InitHolds ==
  ASSUME Init
  PROVE  RInv /\ T!Init
<1>1. /\ \A c \in Conn : native[c] = [open |-> FALSE, pending |-> {}]
      /\ \A s \in Session : /\ calls[s] = <<>> /\ mTransactionStack[s] = <<>> /\ ~nestedFailed[s]
                            /\ mConnection[s] = NoConn
      /\ durable = {} /\ nestedFailed = [s \in Session |-> FALSE]
  BY DEF Init
<1>2. \A s \in Session : /\ DOMAIN calls[s] = {} /\ Depth(s) = 0 /\ ~(Depth(s) > 0)
                         /\ BeginningOutermost(s) = {} /\ ~InTransaction(s)
  <2>1. DOMAIN <<>> = {} /\ Len(<<>>) = 0
    OBVIOUS
  <2>2. \A s \in Session : DOMAIN calls[s] = {} /\ Depth(s) = 0
    BY <1>1, <2>1 DEF Depth
  <2>3. \A s \in Session : ~(Depth(s) > 0) /\ BeginningOutermost(s) = {}
    BY <2>2 DEF BeginningOutermost
  <2> QED BY <2>2, <2>3 DEF InTransaction
<1>3. OpenInv /\ WritesInv
  BY <1>1 DEF OpenInv, WritesInv
<1>4. \A s \in Session : TransactionInv(s)
  BY <1>1, <1>2 DEF TransactionInv, Solo
<1>5. /\ phases = [s \in Session |-> "none"] /\ marks = [s \in Session |-> FALSE]
      /\ pendings = [s \in Session |-> {}]
  BY <1>1, <1>2 DEF phases, marks, pendings, Phase, Marked, Pending
<1>6. T!Init
  BY <1>1, <1>5 DEF T!Init, phases, marks, pendings, Phase, Marked, Pending
<1> QED BY <1>3, <1>4, <1>6 DEF RInv

\* Frames, use counts, callbacks and connections together implement flat transactions: a
\* transaction is committed as a whole, only if it was marked successful or is yielded,
\* and no nested one failed, and it never holds a write of another session.
THEOREM SessionImplementsTransactions ==
  ASSUME TransactionsHold
  PROVE  Spec => TransactionsImplemented
<1>1. Init => RInv /\ T!Init
  BY InitHolds
<1>2. IInv /\ IInv' /\ RInv /\ [Next]_vars => RInv' /\ [T!Next]_(T!vars)
  BY NextHolds
<1> QED BY <1>1, <1>2, Invariant, PTL DEF Spec, TransactionsImplemented, T!Spec

=============================================================================
