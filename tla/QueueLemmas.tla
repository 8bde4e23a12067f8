---------------------------- MODULE QueueLemmas ----------------------------
(* Facts about the sequences that model the linked lists of the code, and   *)
(* about the least and the greatest element of a set of numbers.           *)
EXTENDS Integers, SequencesExt, WellFoundedInduction, TLAPS

\* No element occurs twice.
Distinct(q) == \A i, j \in DOMAIN q : q[i] = q[j] => i = j

\* Concatenation keeps both operands, element by element.
LEMMA ConcatType ==
  ASSUME NEW S, NEW a \in Seq(S), NEW b \in Seq(S)
  PROVE  /\ a \o b \in Seq(S)
         /\ Len(a \o b) = Len(a) + Len(b)
         /\ \A j \in 1 .. Len(a) : (a \o b)[j] = a[j]
         /\ \A j \in Len(a) + 1 .. Len(a) + Len(b) : (a \o b)[j] = b[j - Len(a)]
OBVIOUS

\* A slice of a queue has its elements, shifted.
LEMMA SubSeqType ==
  ASSUME NEW S, NEW q \in Seq(S), NEW i \in 1 .. Len(q) + 1, NEW k \in 0 .. Len(q), i <= k + 1
  PROVE  /\ SubSeq(q, i, k) \in Seq(S)
         /\ Len(SubSeq(q, i, k)) = k - i + 1
         /\ \A j \in 1 .. k - i + 1 : SubSeq(q, i, k)[j] = q[j + i - 1]
OBVIOUS

\* RemoveAt (unlinking a waiter in the code) closes the gap and keeps the order of the rest.
LEMMA RemoveAtType ==
  ASSUME NEW S, NEW q \in Seq(S), NEW i \in 1 .. Len(q)
  PROVE  /\ RemoveAt(q, i) \in Seq(S)
         /\ Len(RemoveAt(q, i)) = Len(q) - 1
         /\ \A j \in 1 .. Len(q) - 1 :
              RemoveAt(q, i)[j] = IF j < i THEN q[j] ELSE q[j + 1]
<1> DEFINE a == SubSeq(q, 1, i - 1)
           b == SubSeq(q, i + 1, Len(q))
<1>0. i \in Nat /\ Len(q) \in Nat /\ 1 <= i /\ i <= Len(q)
  OBVIOUS
<1>1. /\ a \in Seq(S) /\ Len(a) = i - 1
      /\ \A j \in 1 .. i - 1 : a[j] = q[j]
  BY <1>0, SubSeqType
<1>2. /\ b \in Seq(S) /\ Len(b) = Len(q) - i
      /\ \A j \in 1 .. Len(q) - i : b[j] = q[j + i]
  BY <1>0, SubSeqType
<1>3. RemoveAt(q, i) = a \o b
  BY DEF RemoveAt
<1> HIDE DEF a, b
<1>4. /\ a \o b \in Seq(S) /\ Len(a \o b) = Len(a) + Len(b)
      /\ \A j \in 1 .. Len(a) : (a \o b)[j] = a[j]
      /\ \A j \in Len(a) + 1 .. Len(a) + Len(b) : (a \o b)[j] = b[j - Len(a)]
  BY <1>1, <1>2, ConcatType
<1>5. ASSUME NEW j \in 1 .. Len(q) - 1
      PROVE  (a \o b)[j] = IF j < i THEN q[j] ELSE q[j + 1]
  <2>1. CASE j < i
    BY <1>0, <1>1, <1>4, <2>1
  <2>2. CASE ~(j < i)
    <3>1. j \in Len(a) + 1 .. Len(a) + Len(b) /\ j - Len(a) \in 1 .. Len(q) - i
      BY <1>0, <1>1, <1>2, <2>2
    <3>2. (a \o b)[j] = b[j - Len(a)]
      BY <1>4, <3>1
    <3>3. b[j - Len(a)] = q[(j - Len(a)) + i]
      BY <1>2, <3>1
    <3>4. (j - Len(a)) + i = j + 1
      BY <1>0, <1>1
    <3> QED BY <2>2, <3>2, <3>3, <3>4
  <2> QED BY <2>1, <2>2
<1> QED BY <1>0, <1>1, <1>2, <1>3, <1>4, <1>5

\* InsertAt (linking a waiter in) shifts what is behind it and keeps the order of the rest.
LEMMA InsertAtType ==
  ASSUME NEW S, NEW q \in Seq(S), NEW i \in 1 .. Len(q) + 1, NEW e \in S
  PROVE  /\ InsertAt(q, i, e) \in Seq(S)
         /\ Len(InsertAt(q, i, e)) = Len(q) + 1
         /\ \A j \in 1 .. i - 1 : InsertAt(q, i, e)[j] = q[j]
         /\ InsertAt(q, i, e)[i] = e
         /\ \A j \in i + 1 .. Len(q) + 1 : InsertAt(q, i, e)[j] = q[j - 1]
<1> DEFINE a == SubSeq(q, 1, i - 1)
           b == SubSeq(q, i, Len(q))
           c == a \o <<e>>
<1>0. i \in Nat /\ Len(q) \in Nat /\ 1 <= i /\ i <= Len(q) + 1
  OBVIOUS
<1>1. /\ a \in Seq(S) /\ Len(a) = i - 1
      /\ \A j \in 1 .. i - 1 : a[j] = q[j]
  BY <1>0, SubSeqType
<1>2. /\ b \in Seq(S) /\ Len(b) = Len(q) - i + 1
      /\ \A j \in 1 .. Len(q) - i + 1 : b[j] = q[j + i - 1]
  BY <1>0, SubSeqType
<1>3. /\ c \in Seq(S) /\ Len(c) = i
      /\ \A j \in 1 .. i - 1 : c[j] = a[j]
      /\ c[i] = e
  <2>1. <<e>> \in Seq(S) /\ Len(<<e>>) = 1 /\ <<e>>[1] = e
    OBVIOUS
  <2>2. /\ c \in Seq(S) /\ Len(c) = Len(a) + 1
        /\ \A j \in 1 .. Len(a) : c[j] = a[j]
        /\ \A j \in Len(a) + 1 .. Len(a) + 1 : c[j] = <<e>>[j - Len(a)]
    BY <1>1, <2>1, ConcatType
  <2> HIDE DEF a, b, c
  <2> QED BY <1>0, <1>1, <2>1, <2>2
<1>4. InsertAt(q, i, e) = c \o b
  BY DEF InsertAt
<1> HIDE DEF a, b, c
<1>5. /\ c \o b \in Seq(S) /\ Len(c \o b) = Len(c) + Len(b)
      /\ \A j \in 1 .. Len(c) : (c \o b)[j] = c[j]
      /\ \A j \in Len(c) + 1 .. Len(c) + Len(b) : (c \o b)[j] = b[j - Len(c)]
  BY <1>2, <1>3, ConcatType
<1>6. ASSUME NEW j \in i + 1 .. Len(q) + 1
      PROVE  (c \o b)[j] = q[j - 1]
  <2>1. j \in Len(c) + 1 .. Len(c) + Len(b) /\ j - Len(c) \in 1 .. Len(q) - i + 1
    BY <1>0, <1>2, <1>3
  <2>2. (c \o b)[j] = b[j - Len(c)]
    BY <1>5, <2>1
  <2>3. b[j - Len(c)] = q[(j - Len(c)) + i - 1]
    BY <1>2, <2>1
  <2>4. (j - Len(c)) + i - 1 = j - 1
    BY <1>0, <1>3
  <2> QED BY <2>2, <2>3, <2>4
<1> QED BY <1>0, <1>1, <1>2, <1>3, <1>4, <1>5, <1>6

\* Unlinking an element of a list without duplicates takes exactly this element out.
LEMMA RemoveAtRange ==
  ASSUME NEW S, NEW q \in Seq(S), NEW i \in DOMAIN q, Distinct(q)
  PROVE  /\ RemoveAt(q, i) \in Seq(S)
         /\ Distinct(RemoveAt(q, i))
         /\ Range(RemoveAt(q, i)) = Range(q) \ {q[i]}
<1> DEFINE r == RemoveAt(q, i)
           n == Len(q)
<1>0. i \in 1 .. n /\ n \in Nat /\ DOMAIN q = 1 .. n
  OBVIOUS
<1>1. /\ r \in Seq(S) /\ Len(r) = n - 1
      /\ \A j \in 1 .. n - 1 : r[j] = IF j < i THEN q[j] ELSE q[j + 1]
  BY <1>0, RemoveAtType
<1> HIDE DEF r, n
<1>2. DOMAIN r = 1 .. n - 1
  BY <1>0, <1>1
<1>3. Distinct(r)
  <2> SUFFICES ASSUME NEW j \in 1 .. n - 1, NEW k \in 1 .. n - 1, r[j] = r[k]
               PROVE  j = k
    BY <1>2 DEF Distinct
  <2> DEFINE up(x) == IF x < i THEN x ELSE x + 1
  <2>1. up(j) \in DOMAIN q /\ up(k) \in DOMAIN q /\ r[j] = q[up(j)] /\ r[k] = q[up(k)]
    BY <1>0, <1>1
  <2>2. up(j) = up(k)
    BY <2>1 DEF Distinct
  <2> QED BY <1>0, <2>2
<1>4. Range(r) = Range(q) \ {q[i]}
  <2>1. ASSUME NEW j \in 1 .. n - 1 PROVE r[j] \in Range(q) \ {q[i]}
    <3> DEFINE k == IF j < i THEN j ELSE j + 1
    <3>1. k \in DOMAIN q /\ k # i /\ r[j] = q[k]
      BY <1>0, <1>1
    <3> QED BY <1>0, <3>1 DEF Distinct, Range
  <2>2. ASSUME NEW k \in 1 .. n, q[k] # q[i] PROVE \E j \in 1 .. n - 1 : r[j] = q[k]
    <3>1. CASE k < i
      <4>1. k \in 1 .. n - 1 /\ r[k] = q[k]
        BY <1>0, <1>1, <3>1
      <4> QED BY <4>1
    <3>2. CASE k > i
      <4>1. k - 1 \in 1 .. n - 1 /\ r[k - 1] = q[k]
        BY <1>0, <1>1, <3>2
      <4> QED BY <4>1
    <3> QED BY <1>0, <2>2, <3>1, <3>2
  <2>3. ASSUME NEW x PROVE x \in Range(r) <=> x \in Range(q) \ {q[i]}
    <3>1. ASSUME x \in Range(r) PROVE x \in Range(q) \ {q[i]}
      BY <1>2, <2>1, <3>1 DEF Range
    <3>2. ASSUME x \in Range(q) \ {q[i]} PROVE x \in Range(r)
      BY <1>0, <1>2, <2>2, <3>2 DEF Range
    <3> QED BY <3>1, <3>2
  <2> QED BY <2>3
<1> QED BY <1>1, <1>3, <1>4 DEF r

\* Linking a new element in adds exactly this element.
LEMMA InsertAtRange ==
  ASSUME NEW S, NEW q \in Seq(S), NEW i \in 1 .. Len(q) + 1, NEW e \in S,
         Distinct(q), e \notin Range(q)
  PROVE  /\ InsertAt(q, i, e) \in Seq(S)
         /\ Distinct(InsertAt(q, i, e))
         /\ Range(InsertAt(q, i, e)) = Range(q) \cup {e}
<1> DEFINE r == InsertAt(q, i, e)
           n == Len(q)
<1>0. i \in 1 .. n + 1 /\ n \in Nat /\ DOMAIN q = 1 .. n
  OBVIOUS
<1>1. /\ r \in Seq(S) /\ Len(r) = n + 1
      /\ \A j \in 1 .. i - 1 : r[j] = q[j]
      /\ r[i] = e
      /\ \A j \in i + 1 .. n + 1 : r[j] = q[j - 1]
  <2>1. r \in Seq(S) /\ Len(r) = n + 1
    BY InsertAtType
  <2>2. \A j \in 1 .. i - 1 : r[j] = q[j]
    BY InsertAtType
  <2>3. r[i] = e
    BY InsertAtType
  <2>4. \A j \in i + 1 .. n + 1 : r[j] = q[j - 1]
    BY InsertAtType
  <2> QED BY <2>1, <2>2, <2>3, <2>4
<1> HIDE DEF r, n
<1>2. DOMAIN r = 1 .. n + 1
  BY <1>0, <1>1
<1>3. \A k \in 1 .. n : q[k] # e
  BY <1>0 DEF Range
<1> DEFINE down(x) == IF x < i THEN x ELSE x - 1
<1>4. \A j \in 1 .. n + 1 : j # i => down(j) \in 1 .. n /\ r[j] = q[down(j)]
  BY <1>0, <1>1
<1>5. Distinct(r)
  <2> SUFFICES ASSUME NEW j \in 1 .. n + 1, NEW k \in 1 .. n + 1, r[j] = r[k]
               PROVE  j = k
    BY <1>2 DEF Distinct
  <2>1. CASE j = i \/ k = i
    BY <1>0, <1>1, <1>3, <1>4, <2>1
  <2>2. CASE j # i /\ k # i
    <3>1. down(j) = down(k)
      BY <1>0, <1>4, <2>2 DEF Distinct
    <3> QED BY <1>0, <2>2, <3>1
  <2> QED BY <2>1, <2>2
<1> HIDE DEF down
<1>6. Range(r) = Range(q) \cup {e}
  <2>1. ASSUME NEW j \in 1 .. n + 1 PROVE r[j] \in Range(q) \cup {e}
    BY <1>0, <1>1, <1>4 DEF Range
  <2>2. \E j \in 1 .. n + 1 : r[j] = e
    BY <1>0, <1>1
  <2>3. ASSUME NEW k \in 1 .. n PROVE \E j \in 1 .. n + 1 : r[j] = q[k]
    <3>1. CASE k < i
      <4>1. k \in 1 .. i - 1 /\ k \in 1 .. n + 1 /\ r[k] = q[k]
        BY <1>0, <1>1, <3>1
      <4> QED BY <4>1
    <3>2. CASE k >= i
      <4>1. k + 1 \in i + 1 .. n + 1 /\ k + 1 \in 1 .. n + 1 /\ r[k + 1] = q[k]
        BY <1>0, <1>1, <3>2
      <4> QED BY <4>1
    <3> QED BY <1>0, <3>1, <3>2
  <2> QED BY <1>0, <1>2, <2>1, <2>2, <2>3 DEF Range
<1> QED BY <1>1, <1>5, <1>6 DEF r

---------------------------------------------------------------------------
(* Extrema. *)

LEMMA MaxTwo ==
  ASSUME NEW a \in Int, NEW b \in Int
  PROVE  /\ Max({a, b}) \in {a, b}
         /\ Max({a, b}) >= a
         /\ Max({a, b}) >= b
<1>1. \E x \in {a, b} : \A y \in {a, b} : x >= y
  <2>1. CASE a >= b
    BY <2>1
  <2>2. CASE b >= a
    BY <2>2
  <2> QED BY <2>1, <2>2
<1> QED BY <1>1 DEF Max

LEMMA MinTwo ==
  ASSUME NEW a \in Int, NEW b \in Int
  PROVE  Min({a, b}) \in {a, b}
<1>1. \E x \in {a, b} : \A y \in {a, b} : x <= y
  <2>1. CASE a <= b
    BY <2>1
  <2>2. CASE b <= a
    BY <2>2
  <2> QED BY <2>1, <2>2
<1> QED BY <1>1 DEF Min

LEMMA MaxOne == ASSUME NEW a \in Int PROVE Max({a}) = a
<1>1. \E x \in {a} : \A y \in {a} : x >= y
  OBVIOUS
<1> QED BY <1>1 DEF Max

\* The least number of a set of naturals, from the well-foundedness of their order.
LEMMA HasMin ==
  ASSUME NEW T, T \subseteq Nat, T # {}
  PROVE  \E x \in T : \A y \in T : x <= y
<1> DEFINE R == {ss \in Nat \X Nat : ss[1] < ss[2]}
<1>1. IsWellFoundedOn(R, Nat)
  BY NatLessThanWellFounded DEF OpToRel
<1>2. \A a, b \in Nat : a < b => <<a, b>> \in R
  OBVIOUS
<1> HIDE DEF R
<1>3. PICK x \in T : \A y \in T : ~ (<<y, x>> \in R)
  BY <1>1, WFMin
<1>4. ASSUME NEW y \in T PROVE x <= y
  <2>1. <<y, x>> \notin R
    BY <1>3
  <2>2. y \in Nat /\ x \in Nat
    OBVIOUS
  <2>3. ~ (y < x)
    BY <1>2, <2>1, <2>2
  <2> QED BY <2>2, <2>3
<1> QED BY <1>4

\* The maximum of a set of naturals below a bound.
LEMMA MaxOf ==
  ASSUME NEW b \in Nat, NEW S, S \subseteq 0..b, S # {}
  PROVE  /\ Max(S) \in S
         /\ \A y \in S : Max(S) >= y
<1> DEFINE T == {b - x : x \in S}
<1>1. T \subseteq Nat /\ T # {}
  OBVIOUS
<1>2. PICK t \in T : \A y \in T : t <= y
  BY <1>1, HasMin
<1>3. PICK x \in S : t = b - x
  OBVIOUS
<1>4. ASSUME NEW y \in S PROVE x >= y
  <2>1. b - y \in T
    OBVIOUS
  <2>2. t <= b - y
    BY <1>2, <2>1
  <2>3. x \in Int /\ y \in Int
    OBVIOUS
  <2> QED BY <1>3, <2>2, <2>3
<1>5. \E z \in S : \A y \in S : z >= y
  BY <1>4
<1> QED BY <1>5 DEF Max

LEMMA MinOf ==
  ASSUME NEW S, S \subseteq Nat, S # {}
  PROVE  Min(S) \in S
<1>1. \E z \in S : \A y \in S : z <= y
  BY HasMin
<1> QED BY <1>1 DEF Min

===========================================================================
