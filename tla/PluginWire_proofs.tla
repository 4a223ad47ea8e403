------------------------- MODULE PluginWire_proofs -------------------------
(***************************************************************************)
(* Theorems about PluginWire: the byte stream implements the channel of     *)
(* records that PluginSocket writes to.                                     *)
(***************************************************************************)
EXTENDS PluginWire, SequenceTheorems, WellFoundedInduction, TLAPS

Wholes == {Whole(r) : r \in Records}

\* The bytes of k records.
Bytes(k) == k * EVENT_SIZE

\* c is the records of q, one after the other.
Carries(c, q) ==
    /\ Len(c) = Bytes(Len(q))
    /\ \A k \in 1..Len(q), i \in 1..EVENT_SIZE : c[Bytes(k - 1) + i] = q[k][i]

InFlight == buffer \o (wire \o delayed)
Pending == From(sent, Len(got) + 1)

\* The inductive invariant: what has been accepted and not delivered is what
\* is on its way, and the reader keeps less than a record.
IInv ==
    /\ delayed \in Seq(Byte) /\ wire \in Seq(Byte) /\ buffer \in Seq(Byte)
    /\ Len(delayed) < EVENT_SIZE /\ Len(buffer) < EVENT_SIZE
    /\ Len(wire) <= SocketBytes
    /\ sent \in Seq(Wholes)
    /\ Len(got) \in 0..Len(sent) /\ got = SubSeq(sent, 1, Len(got))
    /\ Carries(InFlight, Pending)

-----------------------------------------------------------------------------
(* Arithmetic.                                                             *)

LEMMA SizeIsPositive == EVENT_SIZE \in Nat /\ EVENT_SIZE >= 1
BY WireAssumption

LEMMA BytesType == \A k \in Nat : Bytes(k) \in Nat /\ k <= Bytes(k)
BY SizeIsPositive, Z3 DEF Bytes

LEMMA BytesNext ==
  Bytes(0) = 0 /\ \A k \in Nat : Bytes(k + 1) = Bytes(k) + EVENT_SIZE
BY SizeIsPositive DEF Bytes

LEMMA BytesSum == \A j, k \in Nat : Bytes(j + k) = Bytes(j) + Bytes(k)
BY SizeIsPositive DEF Bytes

\* Where a record begins that ends before n, and n before l.
LEMMA Within ==
  \A j, n, l \in Nat :
     j + EVENT_SIZE <= n /\ n <= l =>
        /\ j + 1 \in 1..(l + 1) /\ ~(l - (j + 1) + 1 < EVENT_SIZE)
        /\ j + 1 \in Int /\ (j + 1) + EVENT_SIZE - 1 \in Int
        /\ j + 1 <= (j + 1) + EVENT_SIZE - 1
        /\ ((j + 1) + EVENT_SIZE - 1) - (j + 1) + 1 = EVENT_SIZE
        /\ (j + 1) + EVENT_SIZE = (j + EVENT_SIZE) + 1
BY SizeIsPositive

LEMMA BytesGrow ==
  \A j, k \in Nat : j < k => Bytes(j) + EVENT_SIZE <= Bytes(k)
<1> TAKE j \in Nat, k \in Nat
<1> HAVE j < k
<1> DEFINE m == k - (j + 1)
<1>1. m \in Nat /\ k = (j + 1) + m
  OBVIOUS
<1> HIDE DEF m
<1>2. Bytes(k) = Bytes(j + 1) + Bytes(m) /\ Bytes(m) \in Nat
  BY <1>1, BytesSum, BytesType
<1>3. Bytes(j + 1) = Bytes(j) + EVENT_SIZE /\ Bytes(j) \in Nat
  BY BytesNext, BytesType
<1> QED
  BY <1>2, <1>3, SizeIsPositive

Lt == {ss \in Nat \X Nat : ss[1] < ss[2]}

\* A set of numbers that is not empty has a least one.
LEMMA Least ==
  ASSUME NEW S \in SUBSET Nat, S # {}
  PROVE  \E n \in S : \A k \in S : n <= k
<1>1. IsWellFoundedOn(Lt, Nat)
  BY NatLessThanWellFounded, Zenon DEF OpToRel, Lt
<1>2. \E n \in S : \A k \in S : ~ (<<k, n>> \in Lt)
  BY <1>1, WFMin
<1>3. ASSUME NEW a \in Nat, NEW b \in Nat, ~ (<<a, b>> \in Lt)
      PROVE  b <= a
  <2>1. a < b => <<a, b>> \in Lt
    <3>1. <<a, b>> \in Nat \X Nat /\ <<a, b>>[1] = a /\ <<a, b>>[2] = b
      OBVIOUS
    <3> QED
      BY <3>1, Zenon DEF Lt
  <2> QED
    BY <1>3, <2>1
<1> QED
  BY <1>2, <1>3

\* The whole records that n bytes hold.
LEMMA Quotient ==
  ASSUME NEW n \in Nat
  PROVE  \E k \in Nat : Bytes(k) <= n /\ n < Bytes(k) + EVENT_SIZE
<1> DEFINE S == {k \in Nat : n < Bytes(k)}
<1>1. n + 1 \in S
  BY BytesType
<1>2. PICK k \in S : \A j \in S : k <= j
  BY <1>1, Least
<1>3. k \in Nat /\ k # 0
  BY <1>2, BytesNext
<1>4. k - 1 \in Nat /\ k - 1 \notin S
  BY <1>2, <1>3
<1>5. Bytes(k - 1) <= n
  BY <1>4, BytesType
<1>6. Bytes(k) = Bytes(k - 1) + EVENT_SIZE
  BY <1>4, BytesNext
<1> QED
  BY <1>2, <1>4, <1>5, <1>6

-----------------------------------------------------------------------------
(* Sequences of bytes.                                                     *)

LEMMA FromFields ==
  ASSUME NEW S, NEW s \in Seq(S), NEW n \in 0..Len(s)
  PROVE  /\ From(s, n + 1) \in Seq(S)
         /\ Len(From(s, n + 1)) = Len(s) - n
         /\ \A i \in 1..(Len(s) - n) : From(s, n + 1)[i] = s[n + i]
         /\ SubSeq(s, 1, n) \in Seq(S) /\ Len(SubSeq(s, 1, n)) = n
         /\ \A i \in 1..n : SubSeq(s, 1, n)[i] = s[i]
<1>1. \A i \in 1..Len(s) : s[i] \in S
  BY ElementOfSeq
<1>2. Len(s) \in Nat /\ n \in Nat /\ n <= Len(s)
  BY LenProperties
<1>3. /\ From(s, n + 1) \in Seq(S)
      /\ Len(From(s, n + 1)) = IF n + 1 <= Len(s) THEN Len(s) - (n + 1) + 1 ELSE 0
      /\ \A i \in 1..(Len(s) - (n + 1) + 1) : From(s, n + 1)[i] = s[n + 1 + i - 1]
  BY <1>1, <1>2, SubSeqProperties DEF From
<1>4. /\ SubSeq(s, 1, n) \in Seq(S)
      /\ Len(SubSeq(s, 1, n)) = IF 1 <= n THEN n - 1 + 1 ELSE 0
      /\ \A i \in 1..(n - 1 + 1) : SubSeq(s, 1, n)[i] = s[1 + i - 1]
  BY <1>1, <1>2, SubSeqProperties
<1> QED
  BY <1>2, <1>3, <1>4

\* A sequence in two parts.
LEMMA Split ==
  ASSUME NEW S, NEW s \in Seq(S), NEW n \in 0..Len(s)
  PROVE  SubSeq(s, 1, n) \o From(s, n + 1) = s
<1> DEFINE a == SubSeq(s, 1, n)
           b == From(s, n + 1)
<1>1. /\ a \in Seq(S) /\ Len(a) = n /\ \A i \in 1..n : a[i] = s[i]
      /\ b \in Seq(S) /\ Len(b) = Len(s) - n
      /\ \A i \in 1..(Len(s) - n) : b[i] = s[n + i]
  BY FromFields
<1>2. Len(s) \in Nat
  BY LenProperties
<1> HIDE DEF a, b
<1>3. /\ a \o b \in Seq(S) /\ Len(a \o b) = Len(s)
      /\ \A i \in 1..Len(s) : (a \o b)[i] = IF i <= n THEN a[i] ELSE b[i - n]
  BY <1>1, <1>2, ConcatProperties
<1>4. \A i \in 1..Len(s) : (a \o b)[i] = s[i]
  BY <1>1, <1>2, <1>3
<1>5. a \o b = s
  BY <1>3, <1>4, SeqEqual
<1> QED
  BY <1>5 DEF a, b

\* What follows the first n elements of s \o t.
LEMMA FromConcat ==
  ASSUME NEW S, NEW s \in Seq(S), NEW t \in Seq(S), NEW n \in 0..Len(s)
  PROVE  From(s \o t, n + 1) = From(s, n + 1) \o t
<1> DEFINE a == From(s, n + 1)
           c == From(s \o t, n + 1)
<1>1. /\ a \in Seq(S) /\ Len(a) = Len(s) - n
      /\ \A i \in 1..(Len(s) - n) : a[i] = s[n + i]
  BY FromFields
<1>2. Len(s) \in Nat /\ Len(t) \in Nat
  BY LenProperties
<1>3. /\ s \o t \in Seq(S) /\ Len(s \o t) = Len(s) + Len(t)
      /\ \A i \in 1..(Len(s) + Len(t)) :
            (s \o t)[i] = IF i <= Len(s) THEN s[i] ELSE t[i - Len(s)]
  BY ConcatProperties
<1>4. n \in 0..Len(s \o t)
  BY <1>2, <1>3
<1>5. /\ c \in Seq(S) /\ Len(c) = Len(s) + Len(t) - n
      /\ \A i \in 1..(Len(s) + Len(t) - n) : c[i] = (s \o t)[n + i]
  <2> DEFINE u == s \o t
  <2>1. u \in Seq(S) /\ n \in 0..Len(u) /\ Len(u) = Len(s) + Len(t)
    BY <1>3, <1>4
  <2> HIDE DEF u
  <2>2. /\ From(u, n + 1) \in Seq(S) /\ Len(From(u, n + 1)) = Len(u) - n
        /\ \A i \in 1..(Len(u) - n) : From(u, n + 1)[i] = u[n + i]
    BY <2>1, FromFields
  <2> QED
    BY <2>1, <2>2 DEF u
<1> HIDE DEF a, c
<1>6. /\ a \o t \in Seq(S) /\ Len(a \o t) = Len(s) - n + Len(t)
      /\ \A i \in 1..(Len(s) - n + Len(t)) :
            (a \o t)[i] = IF i <= Len(s) - n THEN a[i] ELSE t[i - (Len(s) - n)]
  <2>1. /\ a \o t \in Seq(S) /\ Len(a \o t) = Len(a) + Len(t)
        /\ \A i \in 1..(Len(a) + Len(t)) :
              (a \o t)[i] = IF i <= Len(a) THEN a[i] ELSE t[i - Len(a)]
    BY <1>1, ConcatProperties
  <2> QED
    BY <1>1, <2>1
<1>7. \A i \in 1..Len(c) : c[i] = (a \o t)[i]
  <2> TAKE i \in 1..Len(c)
  <2>1. i \in 1..(Len(s) + Len(t) - n) /\ n + i \in 1..(Len(s) + Len(t))
    BY <1>2, <1>5
  <2>2. CASE i <= Len(s) - n
    <3>1. n + i <= Len(s) /\ i \in 1..(Len(s) - n) /\ i \in 1..(Len(s) - n + Len(t))
      BY <1>2, <2>1, <2>2
    <3>2. c[i] = s[n + i]
      BY <1>3, <1>5, <2>1, <3>1
    <3>3. (a \o t)[i] = s[n + i]
      BY <1>1, <1>6, <2>2, <3>1
    <3> QED
      BY <3>2, <3>3
  <2>3. CASE ~(i <= Len(s) - n)
    <3>1. ~(n + i <= Len(s)) /\ n + i - Len(s) = i - (Len(s) - n)
      BY <1>2, <2>1, <2>3
    <3> QED
      BY <1>2, <1>3, <1>5, <1>6, <2>1, <2>3, <3>1
  <2> QED
    BY <2>2, <2>3
<1>8. c = a \o t
  <2>1. Len(c) = Len(a \o t)
    BY <1>2, <1>5, <1>6
  <2>2. c \in Seq(S) /\ a \o t \in Seq(S)
    BY <1>5, <1>6
  <2> QED
    BY <1>7, <2>1, <2>2, SeqEqual
<1> QED
  BY <1>8 DEF a, c


-----------------------------------------------------------------------------
(* Records on the stream.                                                  *)

LEMMA WholeType ==
  ASSUME NEW x \in Wholes
  PROVE  /\ x \in Seq(Byte) /\ Len(x) = EVENT_SIZE
         /\ \A i \in 1..EVENT_SIZE : x[i].place = i
<1>1. PICK r \in Records : x = Whole(r)
  BY DEF Wholes
<1>2. x \in [1..EVENT_SIZE -> Byte]
  BY <1>1 DEF Whole, Byte
<1>3. x \in Seq(Byte) /\ Len(x) = EVENT_SIZE
  BY <1>2, SizeIsPositive
<1>4. \A i \in 1..EVENT_SIZE : x[i].place = i
  BY <1>1 DEF Whole
<1> QED
  BY <1>3, <1>4

\* Accepting a record.
LEMMA CarriesMore ==
  ASSUME NEW c \in Seq(Byte), NEW q \in Seq(Wholes), NEW x \in Wholes,
         Carries(c, q)
  PROVE  Carries(c \o x, Append(q, x))
<1> DEFINE n == Len(q)
           d == c \o x
           p == Append(q, x)
<1>1. n \in Nat /\ Len(c) = Bytes(n) /\ Len(c) \in Nat
  BY LenProperties DEF Carries
<1>2. x \in Seq(Byte) /\ Len(x) = EVENT_SIZE
  BY WholeType
<1>3. /\ Len(d) = Bytes(n) + EVENT_SIZE
      /\ \A i \in 1..(Bytes(n) + EVENT_SIZE) :
            d[i] = IF i <= Bytes(n) THEN c[i] ELSE x[i - Bytes(n)]
  <2>1. /\ Len(d) = Len(c) + Len(x)
        /\ \A i \in 1..(Len(c) + Len(x)) :
              d[i] = IF i <= Len(c) THEN c[i] ELSE x[i - Len(c)]
    BY <1>2, ConcatProperties
  <2> QED
    BY <1>1, <1>2, <2>1
<1>4. Len(p) = n + 1 /\ p[n + 1] = x /\ \A k \in 1..n : p[k] = q[k]
  BY AppendProperties
<1> HIDE DEF d, p
<1>5. Len(d) = Bytes(Len(p))
  BY <1>1, <1>3, <1>4, BytesNext
<1>6. ASSUME NEW k \in 1..Len(p), NEW i \in 1..EVENT_SIZE
      PROVE  d[Bytes(k - 1) + i] = p[k][i]
  <2> DEFINE j == Bytes(k - 1) + i
  <2>1. k \in 1..(n + 1) /\ k - 1 \in Nat /\ Bytes(k - 1) \in Nat
    <3>1. k \in 1..(n + 1)
      BY <1>4
    <3>2. k - 1 \in Nat
      BY <1>1, <3>1
    <3> QED
      BY <3>1, <3>2, BytesType
  <2>2. CASE k = n + 1
    <3>1. j = Bytes(n) + i
      BY <1>1, <2>2
    <3>2. j \in 1..(Bytes(n) + EVENT_SIZE) /\ ~(j <= Bytes(n)) /\ j - Bytes(n) = i
      BY <1>1, <3>1, SizeIsPositive
    <3> QED
      BY <1>3, <1>4, <2>2, <3>2
  <2>3. CASE k # n + 1
    <3>1. k \in 1..n /\ k - 1 < n
      BY <1>1, <2>1, <2>3
    <3>2. Bytes(k - 1) + EVENT_SIZE <= Bytes(n)
      BY <1>1, <2>1, <3>1, BytesGrow
    <3>3. j \in 1..(Bytes(n) + EVENT_SIZE) /\ j <= Bytes(n)
      BY <1>1, <2>1, <3>2, SizeIsPositive
    <3>4. c[j] = q[k][i]
      BY <3>1 DEF Carries
    <3> QED
      BY <1>3, <1>4, <3>1, <3>3, <3>4
  <2> QED
    BY <2>2, <2>3
<1>7. Carries(d, p)
  BY <1>5, <1>6 DEF Carries
<1> QED
  BY <1>7 DEF d, p

\* Delivering n records.
LEMMA CarriesLess ==
  ASSUME NEW c \in Seq(Byte), NEW q \in Seq(Wholes), Carries(c, q),
         NEW n \in 0..Len(q)
  PROVE  Carries(From(c, Bytes(n) + 1), From(q, n + 1))
<1> DEFINE d == From(c, Bytes(n) + 1)
           p == From(q, n + 1)
           m == Len(q) - n
<1>1. n \in Nat /\ Len(q) \in Nat /\ m \in Nat /\ Len(q) = n + m
  BY LenProperties
<1>2. /\ Bytes(n) \in Nat /\ Bytes(m) \in Nat
      /\ Len(c) = Bytes(n) + Bytes(m)
  BY <1>1, BytesSum, BytesType DEF Carries
<1> HIDE DEF m
<1>3. Len(p) = m /\ \A k \in 1..m : p[k] = q[n + k]
  <2>1. Len(p) = Len(q) - n /\ \A k \in 1..(Len(q) - n) : p[k] = q[n + k]
    BY FromFields
  <2>2. Len(q) - n = m
    BY <1>1
  <2> QED
    BY <2>1, <2>2
<1>4. Bytes(n) \in 0..Len(c)
  BY <1>2
<1>5. Len(d) = Bytes(m) /\ \A i \in 1..Bytes(m) : d[i] = c[Bytes(n) + i]
  <2>1. /\ Len(d) = Len(c) - Bytes(n)
        /\ \A i \in 1..(Len(c) - Bytes(n)) : d[i] = c[Bytes(n) + i]
    BY <1>4, FromFields
  <2>2. Len(c) - Bytes(n) = Bytes(m)
    BY <1>2
  <2> QED
    BY <2>1, <2>2
<1> HIDE DEF d, p
<1>6. ASSUME NEW k \in 1..Len(p), NEW i \in 1..EVENT_SIZE
      PROVE  d[Bytes(k - 1) + i] = p[k][i]
  <2>1. k \in 1..m /\ k - 1 \in Nat /\ k - 1 < m /\ n + k \in 1..Len(q)
    BY <1>1, <1>3
  <2>2. /\ Bytes(k - 1) \in Nat /\ Bytes(k - 1) + EVENT_SIZE <= Bytes(m)
        /\ Bytes(n + (k - 1)) = Bytes(n) + Bytes(k - 1)
    BY <1>1, <2>1, BytesType, BytesGrow, BytesSum
  <2>3. Bytes(k - 1) + i \in 1..Bytes(m)
    <3>1. Bytes(m) \in Nat
      BY <1>2
    <3> QED
      BY <2>2, <3>1, SizeIsPositive
  <2>4. n + k - 1 = n + (k - 1)
    BY <1>1, <2>1
  <2>5. c[Bytes(n + k - 1) + i] = q[n + k][i]
    BY <2>1 DEF Carries
  <2>6. Bytes(n + k - 1) + i = Bytes(n) + (Bytes(k - 1) + i)
    BY <1>2, <2>2, <2>4
  <2> QED
    BY <1>3, <1>5, <2>1, <2>3, <2>5, <2>6
<1>7. Carries(d, p)
  BY <1>3, <1>5, <1>6 DEF Carries
<1> QED
  BY <1>7 DEF d, p

-----------------------------------------------------------------------------
(* findnext.                                                               *)

\* What the loop gives from place p on, when f says what it gives from later
\* ones.
Cut(b, f, p) ==
    IF Len(b) - p + 1 < EVENT_SIZE THEN [events |-> <<>>, left |-> From(b, p)]
    ELSE IF b[p].place # 1 THEN f[p + 1]
    ELSE [f[p + EVENT_SIZE] EXCEPT
             !.events = <<SubSeq(b, p, p + EVENT_SIZE - 1)>> \o @]

\* The values of the loop for the last k + 1 places.
Cuts(b, k, f) ==
    f = [p \in (Len(b) + 1 - k)..(Len(b) + 1) |-> Cut(b, f, p)]

LEMMA CutsExist ==
  ASSUME NEW b \in Seq(Byte), NEW n \in Nat, n <= Len(b)
  PROVE  \E f : Cuts(b, n, f)
<1> DEFINE L == Len(b)
           Bad == {k \in Nat : k <= L /\ ~ \E f : Cuts(b, k, f)}
<1>0. L \in Nat
  BY LenProperties
<1> SUFFICES ASSUME Bad # {}
             PROVE  FALSE
  OBVIOUS
<1>1. PICK k \in Bad : \A i \in Bad : k <= i
  BY Least
<1>2. k \in Nat /\ k <= L /\ ~ \E f : Cuts(b, k, f)
  OBVIOUS
<1>3. \A j \in Nat : j < k => \E f : Cuts(b, j, f)
  BY <1>0, <1>1, <1>2
<1> HIDE DEF Bad
<1>4. CASE k = 0
  <2> DEFINE f == [p \in (L + 1)..(L + 1) |-> Cut(b, <<>>, L + 1)]
  <2>1. \A g : Cut(b, g, L + 1) = [events |-> <<>>, left |-> From(b, L + 1)]
    BY <1>0, SizeIsPositive DEF Cut
  <2>2. \A p \in (L + 1)..(L + 1) : Cut(b, f, p) = Cut(b, <<>>, L + 1)
    <3>1. \A p \in (L + 1)..(L + 1) : p = L + 1
      BY <1>0
    <3> HIDE DEF f
    <3> QED
      BY <2>1, <3>1
  <2>3. f = [p \in (L + 1)..(L + 1) |-> Cut(b, f, p)]
    <3> HIDE DEF Cut
    <3> QED
      BY <2>2
  <2> HIDE DEF f
  <2>4. L + 1 - k = L + 1
    BY <1>0, <1>4
  <2>5. Cuts(b, k, f)
    BY <2>3, <2>4 DEF Cuts
  <2> QED
    BY <1>2, <2>5
<1>5. CASE k # 0
  <2> DEFINE first == L + 1 - k
  <2>1. k - 1 \in Nat /\ k - 1 < k /\ L + 1 - (k - 1) = first + 1
        /\ first \in 1..L
    BY <1>0, <1>2, <1>5
  <2>2. PICK g : Cuts(b, k - 1, g)
    BY <1>3, <2>1
  <2> HIDE DEF first
  <2>3. g = [p \in (first + 1)..(L + 1) |-> Cut(b, g, p)]
    BY <2>1, <2>2 DEF Cuts
  <2> DEFINE f == [p \in first..(L + 1) |->
                      IF p = first THEN Cut(b, g, first) ELSE g[p]]
  <2>4. \A p \in (first + 1)..(L + 1) : p \in first..(L + 1) /\ p # first
    BY <1>0, <2>1
  <2>5. \A p \in (first + 1)..(L + 1) : f[p] = g[p]
    BY <2>4
  <2>6. \A p \in first..(L + 1) : p = first \/ p \in (first + 1)..(L + 1)
    BY <1>0, <2>1
  <2>7. f[first] = Cut(b, g, first)
    BY <1>0, <2>1
  <2>8. f = [p \in first..(L + 1) |-> f[p]]
    OBVIOUS
  <2> HIDE DEF f
  <2>9. \A p \in first..(L + 1) : Cut(b, f, p) = Cut(b, g, p)
    <3> TAKE p \in first..(L + 1)
    <3>1. p \in Int /\ first \in Int /\ p >= first /\ p <= L + 1
      BY <1>0, <2>1
    <3>2. CASE L - p + 1 < EVENT_SIZE
      BY <3>2 DEF Cut
    <3>3. CASE ~(L - p + 1 < EVENT_SIZE)
      <4>1. /\ p + 1 \in (first + 1)..(L + 1)
            /\ p + EVENT_SIZE \in (first + 1)..(L + 1)
        BY <1>0, <3>1, <3>3, SizeIsPositive
      <4>2. f[p + 1] = g[p + 1] /\ f[p + EVENT_SIZE] = g[p + EVENT_SIZE]
        BY <2>5, <4>1
      <4> QED
        BY <4>2 DEF Cut
    <3> QED
      BY <3>2, <3>3
  <2>10. \A p \in first..(L + 1) : f[p] = Cut(b, f, p)
    <3> TAKE p \in first..(L + 1)
    <3>1. CASE p = first
      BY <2>7, <2>9, <3>1
    <3>2. CASE p \in (first + 1)..(L + 1)
      BY <2>3, <2>5, <2>9, <3>2
    <3> QED
      BY <2>6, <3>1, <3>2
  <2>11. f = [p \in first..(L + 1) |-> Cut(b, f, p)]
    BY <2>8, <2>10
  <2>12. Cuts(b, k, f)
    BY <2>11 DEF Cuts, first
  <2> QED
    BY <1>2, <2>12
<1> QED
  BY <1>4, <1>5

\* The loop as a function of the place it has reached.
LEMMA FindnextLoop ==
  ASSUME NEW b \in Seq(Byte)
  PROVE  \E f : /\ findnext(b) = f[1]
                /\ \A p \in 1..(Len(b) + 1) : f[p] = Cut(b, f, p)
<1>0. Len(b) \in Nat /\ Len(b) + 1 - Len(b) = 1
  BY LenProperties
<1> DEFINE f == CHOOSE f : f = [p \in 1..(Len(b) + 1) |-> Cut(b, f, p)]
<1>1. \E g : g = [p \in 1..(Len(b) + 1) |-> Cut(b, g, p)]
  BY <1>0, CutsExist DEF Cuts
<1>2. f = [p \in 1..(Len(b) + 1) |-> Cut(b, f, p)]
  BY <1>1
<1>3. findnext(b) = f[1]
  BY DEF findnext, Cut
<1> HIDE DEF f
<1>4. \A p \in 1..(Len(b) + 1) : f[p] = Cut(b, f, p)
  BY <1>2
<1> QED
  BY <1>3, <1>4

\* The loop delivers the whole records among its bytes and keeps the rest.
LEMMA FindnextRecords ==
  ASSUME NEW b \in Seq(Byte), NEW rest \in Seq(Byte), NEW q \in Seq(Wholes),
         Carries(b \o rest, q)
  PROVE  \E n \in 0..Len(q) :
            /\ Bytes(n) <= Len(b) /\ Len(b) < Bytes(n) + EVENT_SIZE
            /\ findnext(b) = [events |-> SubSeq(q, 1, n),
                              left |-> From(b, Bytes(n) + 1)]
<1> DEFINE c == b \o rest
           L == Len(b)
<1>1. /\ L \in Nat /\ Len(rest) \in Nat /\ Len(q) \in Nat
      /\ Len(c) = L + Len(rest) /\ \A i \in 1..L : c[i] = b[i]
  <2>1. L \in Nat /\ Len(rest) \in Nat /\ Len(q) \in Nat
    BY LenProperties
  <2>2. /\ Len(c) = L + Len(rest)
        /\ \A i \in 1..(L + Len(rest)) :
              c[i] = IF i <= L THEN b[i] ELSE rest[i - L]
    BY ConcatProperties
  <2> QED
    BY <2>1, <2>2
<1>2. /\ Len(c) = Bytes(Len(q))
      /\ \A k \in 1..Len(q), i \in 1..EVENT_SIZE : c[Bytes(k - 1) + i] = q[k][i]
  BY DEF Carries
<1> HIDE DEF c
<1>3. PICK n \in Nat : Bytes(n) <= L /\ L < Bytes(n) + EVENT_SIZE
  BY <1>1, Quotient
<1>4. n \in 0..Len(q) /\ Bytes(n) \in Nat
  <2>1. ~(Len(q) < n)
    <3> SUFFICES ASSUME Len(q) < n PROVE FALSE
      OBVIOUS
    <3>1. Bytes(Len(q)) + EVENT_SIZE <= Bytes(n)
      BY <1>1, BytesGrow
    <3>2. Bytes(Len(q)) \in Nat /\ Bytes(n) \in Nat
      BY <1>1, BytesType
    <3> QED
      BY <1>1, <1>2, <1>3, <3>1, <3>2, SizeIsPositive
  <2> QED
    BY <1>1, <2>1, BytesType
<1>5. PICK f : /\ findnext(b) = f[1]
               /\ \A p \in 1..(L + 1) : f[p] = Cut(b, f, p)
  BY FindnextLoop
<1> DEFINE left == From(b, Bytes(n) + 1)
           At(m) == f[Bytes(m) + 1] = [events |-> SubSeq(q, m + 1, n), left |-> left]
           Bad == {j \in Nat : j <= n /\ ~At(n - j)}
<1>6. At(n)
  <2>1. Bytes(n) + 1 \in 1..(L + 1) /\ L - (Bytes(n) + 1) + 1 < EVENT_SIZE
    BY <1>1, <1>3, <1>4, SizeIsPositive
  <2>2. f[Bytes(n) + 1] = [events |-> <<>>, left |-> left]
    BY <1>5, <2>1 DEF Cut
  <2>3. SubSeq(q, n + 1, n) = <<>>
    BY <1>4, SubSeqEmpty
  <2> QED
    BY <2>2, <2>3
<1>7. ASSUME NEW m \in Nat, m < n, At(m + 1)
      PROVE  At(m)
  <2> DEFINE p == Bytes(m) + 1
             x == SubSeq(b, p, p + EVENT_SIZE - 1)
  <2>1. /\ Bytes(m) \in Nat /\ Bytes(m) + EVENT_SIZE <= Bytes(n)
        /\ Bytes(m + 1) = Bytes(m) + EVENT_SIZE
    BY <1>7, BytesType, BytesGrow, BytesNext
  <2>2. /\ p \in 1..(L + 1) /\ ~(L - p + 1 < EVENT_SIZE)
        /\ p + EVENT_SIZE = Bytes(m + 1) + 1
    <3>1. L \in Nat /\ Bytes(n) \in Nat /\ Bytes(n) <= L
      BY <1>1, <1>3, <1>4
    <3> QED
      BY <2>1, <3>1, Within
  <2>3. \A i \in 1..EVENT_SIZE : Bytes(m) + i \in 1..L
    BY <1>1, <1>3, <1>4, <2>1, SizeIsPositive
  <2>4. m + 1 \in 1..Len(q) /\ m + 1 - 1 = m
    BY <1>1, <1>4, <1>7
  <2>5. \A i \in 1..EVENT_SIZE : b[Bytes(m) + i] = q[m + 1][i]
    BY <1>1, <1>2, <2>3, <2>4
  <2>6. q[m + 1] \in Wholes
    BY <2>4, ElementOfSeq
  <2>7. /\ q[m + 1] \in Seq(Byte) /\ Len(q[m + 1]) = EVENT_SIZE
        /\ \A i \in 1..EVENT_SIZE : q[m + 1][i].place = i
    BY <2>6, WholeType
  <2>8. b[p].place = 1
    BY <2>5, <2>7, SizeIsPositive
  <2>9. x = q[m + 1]
    <3>1. \A i \in p..(p + EVENT_SIZE - 1) : b[i] \in Byte
      <4>1. \A i \in p..(p + EVENT_SIZE - 1) : i \in 1..L
        BY <1>1, <1>3, <1>4, <2>1, SizeIsPositive
      <4> QED
        BY <4>1, ElementOfSeq
    <3> DEFINE last == p + EVENT_SIZE - 1
    <3>2. p \in Int /\ last \in Int /\ p <= last /\ last - p + 1 = EVENT_SIZE
      <4>1. Bytes(n) \in Nat /\ Bytes(m) \in Nat /\ Bytes(n) <= Bytes(n)
        BY <1>1, <1>4, <2>1
      <4>2. /\ Bytes(m) + 1 \in Int /\ (Bytes(m) + 1) + EVENT_SIZE - 1 \in Int
            /\ Bytes(m) + 1 <= (Bytes(m) + 1) + EVENT_SIZE - 1
            /\ ((Bytes(m) + 1) + EVENT_SIZE - 1) - (Bytes(m) + 1) + 1 = EVENT_SIZE
        BY <2>1, <4>1, Within
      <4> QED
        BY <4>2
    <3>3. /\ x \in Seq(Byte) /\ Len(x) = EVENT_SIZE
          /\ \A i \in 1..EVENT_SIZE : x[i] = b[p + i - 1]
      <4> HIDE DEF last
      <4>1. /\ SubSeq(b, p, last) \in Seq(Byte)
            /\ Len(SubSeq(b, p, last)) = IF p <= last THEN last - p + 1 ELSE 0
            /\ \A i \in 1..(last - p + 1) : SubSeq(b, p, last)[i] = b[p + i - 1]
        <5>1. \A i \in p..last : b[i] \in Byte
          BY <3>1 DEF last
        <5> HIDE DEF p
        <5> QED
          BY <3>2, <5>1, SubSeqProperties
      <4> QED
        BY <3>2, <4>1 DEF last
    <3> HIDE DEF x
    <3>4. \A i \in 1..EVENT_SIZE : p + i - 1 = Bytes(m) + i
      BY <2>1, SizeIsPositive
    <3>5. \A i \in 1..EVENT_SIZE : x[i] = q[m + 1][i]
      BY <2>5, <3>3, <3>4
    <3> QED
      BY <2>7, <3>3, <3>5, SeqEqual
  <2>10. f[p + EVENT_SIZE] = [events |-> SubSeq(q, m + 2, n), left |-> left]
    <3>1. m + 1 + 1 = m + 2
      OBVIOUS
    <3> QED
      BY <1>7, <2>2, <3>1
  <2>11. f[p] = [f[p + EVENT_SIZE] EXCEPT !.events = <<x>> \o @]
    BY <1>5, <2>2, <2>8 DEF Cut
  <2>12. <<q[m + 1]>> \o SubSeq(q, m + 2, n) = SubSeq(q, m + 1, n)
    <3>1. m + 1 \in 1..Len(q) /\ n \in (m + 1)..Len(q) /\ m + 1 + 1 = m + 2
      BY <1>1, <1>4, <1>7
    <3> QED
      BY <3>1, SubSeqRecursiveFirst
  <2> DEFINE later == f[p + EVENT_SIZE]
             tail == SubSeq(q, m + 2, n)
  <2> HIDE DEF x, p, left
  <2>13. f[p] = [events |-> SubSeq(q, m + 1, n), left |-> left]
    <3>1. later = [events |-> tail, left |-> left]
      BY <2>10
    <3>2. f[p] = [later EXCEPT !.events = <<x>> \o @]
      BY <2>11
    <3> HIDE DEF later, tail
    <3>3. f[p] = [events |-> <<x>> \o tail, left |-> left]
      BY <3>1, <3>2
    <3>4. <<x>> \o tail = SubSeq(q, m + 1, n)
      BY <2>9, <2>12 DEF tail
    <3> QED
      BY <3>3, <3>4
  <2> QED
    BY <2>13 DEF p
<1> HIDE DEF At
<1>8. Bad = {}
  <2> SUFFICES ASSUME Bad # {} PROVE FALSE
    OBVIOUS
  <2>1. PICK j \in Bad : \A i \in Bad : j <= i
    BY Least
  <2>2. j \in Nat /\ j <= n /\ ~At(n - j)
    OBVIOUS
  <2>3. j # 0
    BY <1>6, <2>2
  <2>4. j - 1 \in Nat /\ j - 1 <= n /\ j - 1 \notin Bad
    <3>1. j - 1 \in Nat /\ j - 1 <= n /\ ~(j <= j - 1)
      BY <2>2, <2>3
    <3> HIDE DEF Bad
    <3> QED
      BY <2>1, <3>1
  <2>5. n - j \in Nat /\ n - j < n /\ n - (j - 1) = (n - j) + 1
    BY <2>2, <2>3
  <2> QED
    BY <1>7, <2>2, <2>4, <2>5
<1>9. At(0)
  <2>1. n \in Nat /\ n <= n /\ n - n = 0
    OBVIOUS
  <2> QED
    BY <1>8, <2>1
<1>10. f[1] = [events |-> SubSeq(q, 1, n), left |-> left]
  <2>1. Bytes(0) + 1 = 1 /\ 0 + 1 = 1
    BY BytesNext
  <2> QED
    BY <1>9, <2>1 DEF At
<1> QED
  BY <1>3, <1>4, <1>5, <1>10


-----------------------------------------------------------------------------
(* More about parts of sequences.                                          *)

LEMMA PrefixConcat ==
  ASSUME NEW S, NEW s \in Seq(S), NEW t \in Seq(S), NEW n \in 0..Len(s)
  PROVE  SubSeq(s \o t, 1, n) = SubSeq(s, 1, n)
<1> DEFINE u == s \o t
<1>1. Len(s) \in Nat /\ Len(t) \in Nat
  BY LenProperties
<1>2. /\ u \in Seq(S) /\ Len(u) = Len(s) + Len(t)
      /\ \A i \in 1..(Len(s) + Len(t)) : u[i] = IF i <= Len(s) THEN s[i] ELSE t[i - Len(s)]
  BY ConcatProperties
<1> HIDE DEF u
<1>3. n \in 0..Len(u)
  BY <1>1, <1>2
<1>4. /\ SubSeq(u, 1, n) \in Seq(S) /\ Len(SubSeq(u, 1, n)) = n
      /\ \A i \in 1..n : SubSeq(u, 1, n)[i] = u[i]
  BY <1>2, <1>3, FromFields
<1>5. /\ SubSeq(s, 1, n) \in Seq(S) /\ Len(SubSeq(s, 1, n)) = n
      /\ \A i \in 1..n : SubSeq(s, 1, n)[i] = s[i]
  BY FromFields
<1>6. \A i \in 1..n : u[i] = s[i]
  BY <1>1, <1>2
<1>7. SubSeq(u, 1, n) = SubSeq(s, 1, n)
  BY <1>4, <1>5, <1>6, SeqEqual
<1> QED
  BY <1>7 DEF u

LEMMA FromFrom ==
  ASSUME NEW S, NEW s \in Seq(S), NEW g \in Nat, NEW m \in Nat, g + m <= Len(s)
  PROVE  /\ From(From(s, g + 1), m + 1) = From(s, g + m + 1)
         /\ SubSeq(s, 1, g) \o SubSeq(From(s, g + 1), 1, m) = SubSeq(s, 1, g + m)
<1> DEFINE a == From(s, g + 1)
           p == SubSeq(s, 1, g)
           h == g + m
<1>1. Len(s) \in Nat /\ g \in 0..Len(s) /\ h \in 0..Len(s) /\ h = g + m
  BY LenProperties
<1>2. /\ a \in Seq(S) /\ Len(a) = Len(s) - g
      /\ \A i \in 1..(Len(s) - g) : a[i] = s[g + i]
      /\ p \in Seq(S) /\ Len(p) = g /\ \A i \in 1..g : p[i] = s[i]
  BY <1>1, FromFields
<1> HIDE DEF a, p, h
<1> DEFINE b == From(a, m + 1)
           c == From(s, h + 1)
           x == SubSeq(a, 1, m)
           y == SubSeq(s, 1, h)
<1>3. m \in 0..Len(a)
  BY <1>1, <1>2
<1>4. /\ b \in Seq(S) /\ Len(b) = Len(a) - m
      /\ \A i \in 1..(Len(a) - m) : b[i] = a[m + i]
      /\ x \in Seq(S) /\ Len(x) = m /\ \A i \in 1..m : x[i] = a[i]
  BY <1>2, <1>3, FromFields
<1>5. /\ c \in Seq(S) /\ Len(c) = Len(s) - h
      /\ \A i \in 1..(Len(s) - h) : c[i] = s[h + i]
      /\ y \in Seq(S) /\ Len(y) = h /\ \A i \in 1..h : y[i] = s[i]
  BY <1>1, FromFields
<1> HIDE DEF b, c, x, y
<1>6. b = c
  <2>1. Len(b) = Len(c)
    BY <1>1, <1>2, <1>4, <1>5
  <2>2. ASSUME NEW i \in 1..Len(b) PROVE b[i] = c[i]
    <3>1. /\ i \in 1..(Len(a) - m) /\ m + i \in 1..(Len(s) - g)
          /\ i \in 1..(Len(s) - h) /\ g + (m + i) = h + i
      BY <1>1, <1>2, <1>4
    <3>2. b[i] = a[m + i] /\ a[m + i] = s[g + (m + i)] /\ c[i] = s[h + i]
      BY <1>2, <1>4, <1>5, <3>1
    <3> QED
      BY <3>1, <3>2
  <2> QED
    BY <1>4, <1>5, <2>1, <2>2, SeqEqual
<1>7. p \o x = y
  <2>1. /\ p \o x \in Seq(S) /\ Len(p \o x) = Len(p) + Len(x)
        /\ \A i \in 1..(Len(p) + Len(x)) :
              (p \o x)[i] = IF i <= Len(p) THEN p[i] ELSE x[i - Len(p)]
    BY <1>2, <1>4, ConcatProperties
  <2>2. ASSUME NEW i \in 1..h PROVE (p \o x)[i] = y[i]
    <3>1. i \in 1..(Len(p) + Len(x)) /\ i \in Int
      BY <1>1, <1>2, <1>4
    <3>2. CASE i <= g
      <4>1. i \in 1..g
        BY <1>1, <3>1, <3>2
      <4> QED
        BY <1>2, <1>5, <2>1, <3>1, <3>2, <4>1
    <3>3. CASE ~(i <= g)
      <4>1. i - g \in 1..m /\ i - g \in 1..(Len(s) - g) /\ g + (i - g) = i
        BY <1>1, <3>1, <3>3
      <4>2. x[i - g] = a[i - g] /\ a[i - g] = s[g + (i - g)]
        BY <1>2, <1>4, <4>1
      <4> QED
        BY <1>2, <1>5, <2>1, <3>1, <3>3, <4>1, <4>2
    <3> QED
      BY <3>2, <3>3
  <2>3. Len(p \o x) = Len(y) /\ Len(p \o x) = h
    BY <1>1, <1>2, <1>4, <1>5, <2>1
  <2> QED
    BY <1>5, <2>1, <2>2, <2>3, SeqEqual
<1>8. From(From(s, g + 1), m + 1) = From(s, g + m + 1)
  BY <1>6 DEF a, b, c, h
<1>9. SubSeq(s, 1, g) \o SubSeq(From(s, g + 1), 1, m) = SubSeq(s, 1, g + m)
  BY <1>7 DEF a, p, x, y, h
<1> QED
  BY <1>8, <1>9

\* A record more at the end leaves the beginning alone.
LEMMA AppendParts ==
  ASSUME NEW S, NEW s \in Seq(S), NEW x \in S, NEW g \in 0..Len(s)
  PROVE  /\ Append(s, x) \in Seq(S) /\ g \in 0..Len(Append(s, x))
         /\ SubSeq(Append(s, x), 1, g) = SubSeq(s, 1, g)
         /\ From(Append(s, x), g + 1) = Append(From(s, g + 1), x)
<1>1. /\ Append(s, x) \in Seq(S) /\ Len(Append(s, x)) = Len(s) + 1
      /\ Append(s, x) = s \o <<x>> /\ Len(s) \in Nat
  BY AppendProperties, AppendIsConcat, LenProperties
<1>2. <<x>> \in Seq(S) /\ From(s, g + 1) \in Seq(S)
  BY FromFields
<1>3. Append(From(s, g + 1), x) = From(s, g + 1) \o <<x>>
  BY <1>2, AppendIsConcat
<1>4. /\ SubSeq(s \o <<x>>, 1, g) = SubSeq(s, 1, g)
      /\ From(s \o <<x>>, g + 1) = From(s, g + 1) \o <<x>>
  BY <1>2, PrefixConcat, FromConcat
<1>5. g \in 0..Len(Append(s, x))
  BY <1>1
<1> QED
  BY <1>1, <1>3, <1>4, <1>5

\* Three stretches of bytes.
LEMMA Together ==
  \A s, t, u \in Seq(Byte) : /\ s \o t \in Seq(Byte) /\ t \o u \in Seq(Byte)
                            /\ (s \o t) \o u = s \o (t \o u)
<1> TAKE s \in Seq(Byte), t \in Seq(Byte), u \in Seq(Byte)
<1>1. s \o t \in Seq(Byte) /\ t \o u \in Seq(Byte)
  BY ConcatProperties
<1> QED
  BY <1>1, ConcatAssociative
-----------------------------------------------------------------------------
(* The steps.                                                              *)

LEMMA Starts == Init => IInv
<1> SUFFICES ASSUME Init PROVE IInv
  OBVIOUS
<1>1. \A S : <<>> \in Seq(S)
  BY EmptySeq
<1>2. Len(<<>>) = 0 /\ SubSeq(<<>>, 1, 0) = <<>> /\ From(<<>>, 1) = <<>>
  BY SubSeqEmpty, EmptySeq DEF From
<1>3. <<>> \o (<<>> \o <<>>) = <<>>
  BY <1>1, ConcatEmptySeq
<1>4. Carries(<<>>, <<>>)
  BY <1>2, BytesNext DEF Carries
<1> QED
  BY <1>1, <1>2, <1>3, <1>4, SizeIsPositive, WireAssumption
  DEF Init, IInv, InFlight, Pending


LEMMA SendKeeps ==
  ASSUME IInv, NEW r \in Records, send_to_plugin(r)
  PROVE  IInv' /\ [Channel!Next]_<<sent, got>>
<1> DEFINE x == Whole(r)
           D == delayed \o x
           g == Len(got)
<1>1. /\ delayed \in Seq(Byte) /\ wire \in Seq(Byte) /\ buffer \in Seq(Byte)
      /\ sent \in Seq(Wholes) /\ g \in 0..Len(sent)
      /\ got = SubSeq(sent, 1, g) /\ Carries(InFlight, Pending)
      /\ Len(delayed) < EVENT_SIZE /\ Len(wire) <= SocketBytes
  BY DEF IInv
<1>2. x \in Wholes /\ x \in Seq(Byte) /\ Len(x) = EVENT_SIZE
  BY WholeType DEF Wholes
<1>3. /\ Len(delayed) \in Nat /\ Len(wire) \in Nat
      /\ D \in Seq(Byte) /\ Len(D) = Len(delayed) + EVENT_SIZE
  BY <1>1, <1>2, ConcatProperties, LenProperties
<1>4. PICK w \in Takes(D) :
         LET refused == Len(w) <= Len(delayed) IN
         /\ wire' = wire \o w
         /\ delayed' = From(IF refused THEN delayed ELSE D, Len(w) + 1)
         /\ sent' = IF refused THEN sent ELSE Append(sent, x)
  BY DEF send_to_plugin
<1>5. buffer' = buffer /\ got' = got
  BY DEF send_to_plugin
<1>6. PICK n \in 0..Len(D) : n <= Room /\ w = SubSeq(D, 1, n)
  BY DEF Takes
<1> HIDE DEF x, D
<1>7. /\ w \in Seq(Byte) /\ Len(w) = n /\ n \in Nat
      /\ wire \o w \in Seq(Byte) /\ Len(wire \o w) = Len(wire) + n
  <2>1. w \in Seq(Byte) /\ Len(w) = n
    BY <1>3, <1>6, FromFields
  <2>2. wire \o w \in Seq(Byte) /\ Len(wire \o w) = Len(wire) + Len(w)
    BY <1>1, <2>1, ConcatProperties
  <2> QED
    BY <1>3, <2>1, <2>2
<1>8. Len(wire') <= SocketBytes /\ wire' \in Seq(Byte)
  BY <1>3, <1>4, <1>6, <1>7, WireAssumption DEF Room
<1>9. CASE n <= Len(delayed)
  <2>1. delayed' = From(delayed, n + 1) /\ sent' = sent
    BY <1>4, <1>7, <1>9
  <2>2. n \in 0..Len(delayed)
    BY <1>3, <1>7, <1>9
  <2>3. w = SubSeq(delayed, 1, n)
    BY <1>1, <1>2, <1>6, <2>2, PrefixConcat DEF D
  <2>4. delayed' \in Seq(Byte) /\ Len(delayed') = Len(delayed) - n
    BY <1>1, <2>1, <2>2, FromFields
  <2>5. w \o delayed' = delayed
    BY <1>1, <2>1, <2>2, <2>3, Split
  <2>6. wire' \o delayed' = wire \o delayed
    <3>0. wire \in Seq(Byte) /\ w \in Seq(Byte) /\ delayed' \in Seq(Byte)
      BY <1>1, <1>7, <2>4
    <3>1. (wire \o w) \o delayed' = wire \o (w \o delayed')
      BY <3>0, Together, Zenon
    <3> QED
      BY <1>4, <2>5, <3>1
  <2>7. InFlight' = InFlight /\ Pending' = Pending
    BY <1>5, <2>1, <2>6 DEF InFlight, Pending
  <2>8. Len(delayed') < EVENT_SIZE
    BY <1>1, <1>3, <2>2, <2>4, SizeIsPositive
  <2> QED
    BY <1>1, <1>5, <1>8, <2>1, <2>4, <2>7, <2>8 DEF IInv
<1>10. CASE ~(n <= Len(delayed))
  <2>1. delayed' = From(D, n + 1) /\ sent' = Append(sent, x)
    BY <1>4, <1>7, <1>10
  <2>2. delayed' \in Seq(Byte) /\ Len(delayed') = Len(D) - n
    BY <1>3, <2>1, FromFields
  <2>3. Len(delayed') < EVENT_SIZE
    BY <1>3, <1>7, <1>10, <2>2, SizeIsPositive
  <2>4. w \o delayed' = delayed \o x
    BY <1>3, <1>6, <2>1, Split DEF D
  <2>5. wire' \o delayed' = (wire \o delayed) \o x
    <3>0. wire \in Seq(Byte) /\ w \in Seq(Byte) /\ delayed' \in Seq(Byte)
      BY <1>1, <1>7, <2>2
    <3>1. (wire \o w) \o delayed' = wire \o (w \o delayed')
      BY <3>0, Together, Zenon
    <3>2. wire \in Seq(Byte) /\ delayed \in Seq(Byte) /\ x \in Seq(Byte)
      BY <1>1, <1>2
    <3>3. (wire \o delayed) \o x = wire \o (delayed \o x)
      BY <3>2, Together, Zenon
    <3> QED
      BY <1>4, <2>4, <3>1, <3>3
  <2>6. wire \o delayed \in Seq(Byte) /\ InFlight \in Seq(Byte)
    BY <1>1, ConcatProperties DEF InFlight
  <2>7. InFlight' = InFlight \o x
    <3>1. buffer \in Seq(Byte) /\ wire \o delayed \in Seq(Byte) /\ x \in Seq(Byte)
      BY <1>1, <1>2, <2>6
    <3>2. buffer \o ((wire \o delayed) \o x) = (buffer \o (wire \o delayed)) \o x
      BY <3>1, Together, Zenon
    <3> QED
      BY <1>5, <2>5, <3>2 DEF InFlight
  <2>8. /\ sent' \in Seq(Wholes) /\ g \in 0..Len(sent')
        /\ SubSeq(sent', 1, g) = got /\ Pending' = Append(Pending, x)
    BY <1>1, <1>2, <1>5, <2>1, AppendParts DEF Pending
  <2>9. Pending \in Seq(Wholes)
    BY <1>1, FromFields DEF Pending
  <2>10. Carries(InFlight', Pending')
    BY <1>1, <1>2, <2>6, <2>7, <2>8, <2>9, CarriesMore
  <2>11. Channel!Next
    BY <1>5, <2>1 DEF Channel!Next, Channel!Accept, x
  <2>12. IInv'
    BY <1>1, <1>5, <1>8, <2>2, <2>3, <2>8, <2>10 DEF IInv
  <2> QED
    BY <2>11, <2>12
<1> QED
  BY <1>9, <1>10

LEMMA ReceiveKeeps ==
  ASSUME IInv, NEW n \in 1..buffersize, wrapper_server_recv(n)
  PROVE  IInv' /\ [Channel!Next]_<<sent, got>>
<1> DEFINE a == SubSeq(wire, 1, n)
           z == From(wire, n + 1)
           b == buffer \o a
           rest == z \o delayed
           g == Len(got)
<1>1. /\ delayed \in Seq(Byte) /\ wire \in Seq(Byte) /\ buffer \in Seq(Byte)
      /\ sent \in Seq(Wholes) /\ g \in 0..Len(sent)
      /\ got = SubSeq(sent, 1, g) /\ Carries(InFlight, Pending)
      /\ Len(delayed) < EVENT_SIZE /\ Len(wire) <= SocketBytes
  BY DEF IInv
<1>2. /\ n <= Len(wire) /\ buffer' = findnext(b).left
      /\ got' = got \o findnext(b).events /\ wire' = z
      /\ delayed' = delayed /\ sent' = sent
  BY DEF wrapper_server_recv
<1>3. n \in 0..Len(wire) /\ Len(wire) \in Nat /\ Len(sent) \in Nat
  BY <1>1, <1>2, LenProperties, WireAssumption
<1>4. /\ a \in Seq(Byte) /\ z \in Seq(Byte) /\ Len(z) = Len(wire) - n
      /\ a \o z = wire
  <2>1. wire \in Seq(Byte) /\ n \in 0..Len(wire)
    BY <1>1, <1>3
  <2>2. a \in Seq(Byte) /\ z \in Seq(Byte) /\ Len(z) = Len(wire) - n
    BY <2>1, FromFields
  <2>3. a \o z = wire
    BY <2>1, Split
  <2> QED
    BY <2>2, <2>3
<1> HIDE DEF a, z
<1>5. b \in Seq(Byte) /\ rest \in Seq(Byte) /\ b \o rest \in Seq(Byte)
  BY <1>1, <1>4, ConcatProperties
<1>6. b \o rest = InFlight
  <2>1. a \o rest = wire \o delayed
    <3>0. a \in Seq(Byte) /\ z \in Seq(Byte) /\ delayed \in Seq(Byte)
      BY <1>1, <1>4
    <3>1. (a \o z) \o delayed = a \o (z \o delayed)
      BY <3>0, Together, Zenon
    <3> QED
      BY <1>4, <3>1
  <2> HIDE DEF rest
  <2>2. (buffer \o a) \o rest = buffer \o (a \o rest)
    <3>1. buffer \in Seq(Byte) /\ a \in Seq(Byte) /\ rest \in Seq(Byte)
      BY <1>1, <1>4, <1>5
    <3> QED
      BY <3>1, Together, Zenon
  <2> QED
    BY <2>1, <2>2 DEF InFlight
<1>7. Pending \in Seq(Wholes) /\ Len(Pending) = Len(sent) - g
  BY <1>1, FromFields DEF Pending
<1> HIDE DEF b, rest
<1>8. PICK m \in 0..Len(Pending) :
         /\ Bytes(m) <= Len(b) /\ Len(b) < Bytes(m) + EVENT_SIZE
         /\ findnext(b) = [events |-> SubSeq(Pending, 1, m),
                           left |-> From(b, Bytes(m) + 1)]
  BY <1>1, <1>5, <1>6, <1>7, FindnextRecords
<1>9. g \in Nat /\ m \in Nat /\ g + m <= Len(sent) /\ Bytes(m) \in 0..Len(b)
      /\ Len(b) \in Nat
  BY <1>1, <1>3, <1>5, <1>7, <1>8, BytesType, LenProperties
<1>10. buffer' \in Seq(Byte) /\ Len(buffer') < EVENT_SIZE
  <2>1. buffer' = From(b, Bytes(m) + 1)
    BY <1>2, <1>8
  <2>2. buffer' \in Seq(Byte) /\ Len(buffer') = Len(b) - Bytes(m)
    BY <1>5, <1>9, <2>1, FromFields
  <2> QED
    BY <1>8, <1>9, <2>2, SizeIsPositive
<1>11. got' = SubSeq(sent, 1, g + m) /\ Len(got') = g + m
  <2>1. got' = SubSeq(sent, 1, g) \o SubSeq(From(sent, g + 1), 1, m)
    <3>1. findnext(b).events = SubSeq(Pending, 1, m)
      BY <1>8
    <3>2. got' = got \o SubSeq(Pending, 1, m)
      BY <1>2, <3>1
    <3>3. Pending = From(sent, g + 1) /\ got = SubSeq(sent, 1, g)
      BY <1>1 DEF Pending
    <3> HIDE DEF g
    <3> QED
      BY <3>2, <3>3
  <2>2. got' = SubSeq(sent, 1, g + m)
    BY <1>1, <1>9, <2>1, FromFrom
  <2>3. g + m \in 0..Len(sent)
    BY <1>3, <1>9
  <2> QED
    BY <1>1, <2>2, <2>3, FromFields
<1>12. InFlight' = From(InFlight, Bytes(m) + 1)
  <2>1. buffer' = From(b, Bytes(m) + 1)
    BY <1>2, <1>8
  <2>2. wire' \o delayed' = rest
    BY <1>2 DEF rest
  <2>3. InFlight' = From(b, Bytes(m) + 1) \o rest
    BY <2>1, <2>2 DEF InFlight
  <2>4. From(b \o rest, Bytes(m) + 1) = From(b, Bytes(m) + 1) \o rest
    BY <1>5, <1>9, FromConcat
  <2> QED
    BY <1>6, <2>3, <2>4
<1>13. Pending' = From(Pending, m + 1)
  <2>1. Pending' = From(sent, g + m + 1)
    BY <1>2, <1>11 DEF Pending
  <2> QED
    BY <1>1, <1>9, <2>1, FromFrom DEF Pending
<1>14. Carries(InFlight', Pending')
  BY <1>1, <1>5, <1>6, <1>7, <1>12, <1>13, CarriesLess
<1>15. Len(wire') <= SocketBytes
  BY <1>1, <1>2, <1>3, <1>4, WireAssumption
<1>16. Len(got') \in 0..Len(sent') /\ got' = SubSeq(sent', 1, Len(got'))
  BY <1>2, <1>3, <1>9, <1>11
<1>17. IInv'
  BY <1>1, <1>2, <1>4, <1>10, <1>14, <1>15, <1>16 DEF IInv
<1>18. [Channel!Next]_<<sent, got>>
  <2>1. CASE m = 0
    BY <1>1, <1>2, <1>9, <1>11, <2>1
  <2>2. CASE m # 0
    <3>1. g + m \in (Len(got) + 1)..Len(sent)
      BY <1>3, <1>9, <2>2
    <3> QED
      BY <1>2, <1>11, <3>1 DEF Channel!Next, Channel!Deliver
  <2> QED
    BY <2>1, <2>2
<1> QED
  BY <1>17, <1>18

LEMMA RestartKeeps ==
  ASSUME kill_and_accept
  PROVE  IInv' /\ [Channel!Next]_<<sent, got>>
<1>1. Init'
  BY DEF kill_and_accept, Init
<1>2. IInv'
  BY <1>1, Starts, PTL
<1>3. Channel!Next
  BY DEF kill_and_accept, Channel!Next, Channel!Reconnect
<1> QED
  BY <1>2, <1>3

LEMMA NextKeeps == IInv /\ [Next]_vars => IInv' /\ [Channel!Next]_<<sent, got>>
<1>1. ASSUME IInv, Next PROVE IInv' /\ [Channel!Next]_<<sent, got>>
  BY <1>1, SendKeeps, ReceiveKeeps, RestartKeeps DEF Next, Receive
<1>2. ASSUME IInv, UNCHANGED vars PROVE IInv' /\ UNCHANGED <<sent, got>>
  BY <1>2 DEF vars, IInv, InFlight, Pending
<1> QED
  BY <1>1, <1>2

-----------------------------------------------------------------------------

\* The inductive invariant holds throughout.
THEOREM StreamInvariant == Spec => []IInv
<1> QED
  BY Starts, NextKeeps, PTL DEF Spec

\* Every variable keeps its type, the socket is never overfilled and a tail
\* that waits is shorter than a record.
THEOREM TypeCorrect == Spec => []TypeOK
<1>1. Wholes \subseteq Seq(Byte)
  BY WholeType
<1>2. IInv => TypeOK
  <2> SUFFICES ASSUME IInv PROVE TypeOK
    OBVIOUS
  <2>1. sent \in Seq(Wholes) /\ Len(got) \in 0..Len(sent)
        /\ got = SubSeq(sent, 1, Len(got))
    BY DEF IInv
  <2>2. SubSeq(sent, 1, Len(got)) \in Seq(Wholes)
    BY <2>1, FromFields
  <2>3. sent \in Seq(Seq(Byte)) /\ got \in Seq(Seq(Byte))
    BY <1>1, <2>1, <2>2, SeqMonotonic
  <2> QED
    BY <2>3 DEF IInv, TypeOK
<1> QED
  BY <1>2, StreamInvariant, PTL

\* Between two callbacks the reader never keeps a whole record: findnext
\* hands on every record there is.
THEOREM RecordsHandedOn == Spec => []NoRecordWaits
<1>1. IInv => NoRecordWaits
  <2> SUFFICES ASSUME IInv, NEW p \in 1..Len(buffer)
               PROVE  Len(buffer) - p + 1 < EVENT_SIZE
    BY DEF NoRecordWaits
  <2>1. Len(buffer) \in Nat /\ Len(buffer) < EVENT_SIZE
    BY LenProperties DEF IInv
  <2> QED
    BY <2>1, SizeIsPositive
<1> QED
  BY <1>1, StreamInvariant, PTL

\* The byte stream implements the channel: a record that send_to_plugin has
\* not refused arrives whole, once and in order, for records, buffers and
\* sockets of any size.
THEOREM StreamIsChannel == Spec => ImplementsChannel
<1>1. Init => Channel!Init
  BY DEF Init, Channel!Init
<1>2. IInv /\ [Next]_vars => [Channel!Next]_<<sent, got>>
  BY NextKeeps
<1> QED
  BY <1>1, <1>2, StreamInvariant, PTL DEF Spec, ImplementsChannel
=============================================================================
