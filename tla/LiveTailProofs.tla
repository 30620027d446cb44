--------------------------- MODULE LiveTailProofs ---------------------------
(***************************************************************************)
(* Proofs about the live tail page: the two ring buffers implement the     *)
(* window of TailWindow for every capacity and every order of operations,  *)
(* and the page is of one query and says so.                               *)
(***************************************************************************)
EXTENDS LiveTail, Collections

-----------------------------------------------------------------------------
(***************************************************************************)
(* The ring buffer.                                                        *)
(***************************************************************************)

RingOf(c, T) == [buf : [0..(c - 1) -> T \cup {NoRow}], start : 0..(c - 1), count : 0..c]

\* The array index wraps around at most once.
LEMMA Wraps ==
  ASSUME NEW c \in Nat \ {0}, NEW a \in Nat, a < 2 * c
  PROVE  a % c = IF a < c THEN a ELSE a - c
<1>1. CASE a < c
  <2>1. a % c = a
    BY <1>1
  <2> QED BY <1>1, <2>1
<1>2. CASE a >= c
  <2>1. a % c = a - c
    BY <1>2
  <2> QED BY <1>2, <2>1
<1> QED
  BY <1>1, <1>2

\* A ring of capacity c says so.
LEMMA CapacityIs ==
  ASSUME NEW c \in Nat \ {0}, NEW T, NEW rb \in RingOf(c, T)
  PROVE  Capacity(rb) = c
<1>1. DOMAIN rb.buf = 0..(c - 1)
  BY DEF RingOf
<1>2. Cardinality(0..(c - 1)) = c
  BY FS_Interval
<1> QED
  BY <1>1, <1>2 DEF Capacity

\* A new ring, and one that was cleared, holds nothing.
LEMMA NewRingFacts ==
  ASSUME NEW c \in Nat \ {0}, NEW T
  PROVE  /\ NewRing(c) \in RingOf(c, T) /\ ToArray(NewRing(c)) = <<>>
         /\ \A rb \in RingOf(c, T) : ClearRing(rb) = NewRing(c)
<1>1. NewRing(c) \in RingOf(c, T)
  BY DEF NewRing, RingOf
<1>2. ToArray(NewRing(c)) = <<>>
  <2>1. NewRing(c).count = 0 /\ 1..0 = {}
    BY DEF NewRing
  <2> QED
    BY <2>1 DEF ToArray
<1>3. \A rb \in RingOf(c, T) : ClearRing(rb) = NewRing(c)
  BY CapacityIs DEF ClearRing
<1> QED
  BY <1>1, <1>2, <1>3

\* The contents of a ring are a sequence of its count.
LEMMA ContentsFacts ==
  ASSUME NEW c \in Nat \ {0}, NEW T, NEW rb \in RingOf(c, T)
  PROVE  /\ ToArray(rb) \in Seq(T \cup {NoRow}) /\ Len(ToArray(rb)) = rb.count
         /\ \A i \in 1..rb.count :
               ToArray(rb)[i] = rb.buf[IF rb.start + i - 1 < c THEN rb.start + i - 1
                                       ELSE rb.start + i - 1 - c]
<1> DEFINE k(i) == IF rb.start + i - 1 < c THEN rb.start + i - 1 ELSE rb.start + i - 1 - c
<1>1. /\ rb.buf \in [0..(c - 1) -> T \cup {NoRow}] /\ rb.start \in 0..(c - 1)
      /\ rb.count \in 0..c
  BY DEF RingOf
<1>2. ASSUME NEW i \in 1..rb.count PROVE k(i) \in 0..(c - 1) /\ Slot(rb, i - 1) = k(i)
  <2>1. PICK a : a = rb.start + (i - 1)
    OBVIOUS
  <2>2. a \in Nat /\ a < 2 * c
    BY <1>1, <2>1
  <2>3. a % c = IF a < c THEN a ELSE a - c
    BY <2>2, Wraps
  <2>4. Slot(rb, i - 1) = a % c
    BY <2>1, CapacityIs DEF Slot
  <2>5. k(i) = IF a < c THEN a ELSE a - c
    BY <1>1, <2>1
  <2>6. k(i) \in 0..(c - 1)
    BY <1>1
  <2> QED
    BY <2>3, <2>4, <2>5, <2>6
<1>3. ToArray(rb) = [i \in 1..rb.count |-> rb.buf[k(i)]]
  BY <1>2 DEF ToArray
<1>4. \A i \in 1..rb.count : rb.buf[k(i)] \in T \cup {NoRow}
  BY <1>1, <1>2
<1> HIDE DEF k
<1>5. rb.count \in Nat
  BY <1>1
<1>6. /\ ToArray(rb) \in Seq(T \cup {NoRow}) /\ Len(ToArray(rb)) = rb.count
      /\ \A i \in 1..rb.count : ToArray(rb)[i] = rb.buf[k(i)]
  BY <1>3, <1>4, <1>5
<1> QED
  BY <1>6 DEF k

\* A sequence and its last n items.
LEMMA LastFacts ==
  ASSUME NEW T, NEW s \in Seq(T), NEW n \in Nat
  PROVE  /\ Window!Last(s, n) \in Seq(T)
         /\ Len(Window!Last(s, n)) = IF Len(s) <= n THEN Len(s) ELSE n
         /\ \A i \in 1..Len(Window!Last(s, n)) :
               Window!Last(s, n)[i] = s[IF Len(s) <= n THEN i ELSE i + Len(s) - n]
<1>1. CASE Len(s) <= n
  BY <1>1 DEF Window!Last
<1>2. CASE Len(s) > n
  <2> DEFINE m == Len(s) - n + 1
             t == SubSeq(s, m, Len(s))
  <2>1. Len(s) \in Nat /\ m \in 1..(Len(s) + 1) /\ Len(s) - m + 1 = n
    BY <1>2
  <2>2. t \in Seq(T) /\ Len(t) = n /\ \A i \in 1..n : t[i] = s[m + i - 1]
    BY <2>1, SubSeqProperties
  <2>3. \A i \in 1..n : m + i - 1 = i + Len(s) - n
    BY <2>1
  <2>4. Window!Last(s, n) = t
    BY <1>2, <2>1 DEF Window!Last
  <2>5. ~(Len(s) <= n)
    BY <1>2, <2>1
  <2> HIDE DEF t, m
  <2>6. \A i \in 1..n : t[i] = s[i + Len(s) - n]
    BY <2>2, <2>3
  <2> QED
    BY <2>2, <2>4, <2>5, <2>6
<1> QED
  BY <1>1, <1>2

\* One push appends an item, and drops the oldest when the ring is full.
LEMMA PushOneFacts ==
  ASSUME NEW c \in Nat \ {0}, NEW T, NEW rb \in RingOf(c, T), NEW x \in T
  PROVE  /\ PushOne(rb, x) \in RingOf(c, T)
         /\ ToArray(PushOne(rb, x)) = Window!Last(Append(ToArray(rb), x), c)
<1> DEFINE p == PushOne(rb, x)
           A == ToArray(rb)
           B == ToArray(p)
           W == Append(A, x)
           U == T \cup {NoRow}
           at(st, i) == IF st + i - 1 < c THEN st + i - 1 ELSE st + i - 1 - c
<1>0. PICK e : e = at(rb.start, rb.count + 1)
  OBVIOUS
<1>1. /\ rb.buf \in [0..(c - 1) -> U] /\ rb.start \in 0..(c - 1) /\ rb.count \in 0..c
  BY DEF RingOf
<1>2. /\ A \in Seq(U) /\ Len(A) = rb.count
      /\ \A i \in 1..rb.count : A[i] = rb.buf[at(rb.start, i)]
  BY ContentsFacts
<1>3. e \in 0..(c - 1) /\ Slot(rb, rb.count) = e
  <2>1. PICK a : a = rb.start + rb.count
    OBVIOUS
  <2>2. a \in Nat /\ a < 2 * c
    BY <1>1, <2>1
  <2>3. a % c = IF a < c THEN a ELSE a - c
    BY <2>2, Wraps
  <2>4. Slot(rb, rb.count) = a % c
    BY <2>1, CapacityIs DEF Slot
  <2>5. e = IF a < c THEN a ELSE a - c
    BY <1>0, <1>1, <2>1
  <2>6. e \in 0..(c - 1)
    BY <2>2, <2>5
  <2> QED
    BY <2>3, <2>4, <2>5, <2>6
<1>4. /\ p.buf = [rb.buf EXCEPT ![e] = x]
      /\ p.start = IF rb.count = c THEN (rb.start + 1) % c ELSE rb.start
      /\ p.count = IF rb.count = c THEN c ELSE rb.count + 1
      /\ p = [buf |-> p.buf, start |-> p.start, count |-> p.count]
  BY <1>3, CapacityIs DEF PushOne
<1>5. rb.count = c => p.start = IF rb.start + 1 < c THEN rb.start + 1 ELSE 0
  <2>1. PICK a : a = rb.start + 1
    OBVIOUS
  <2>2. a \in Nat /\ a < 2 * c /\ a <= c
    BY <1>1, <2>1
  <2>3. a % c = IF a < c THEN a ELSE a - c
    BY <2>2, Wraps
  <2>4. a % c = IF a < c THEN a ELSE 0
    BY <2>2, <2>3
  <2>5. rb.count = c => p.start = a % c
    BY <1>4, <2>1
  <2> QED
    BY <2>1, <2>4, <2>5
<1>6. p.buf \in [0..(c - 1) -> U]
  BY <1>1, <1>3, <1>4
<1>7. p.start \in 0..(c - 1)
  BY <1>1, <1>4, <1>5
<1>8. p.count \in 0..c
  BY <1>1, <1>4
<1>9. p \in RingOf(c, T)
  BY <1>4, <1>6, <1>7, <1>8 DEF RingOf
<1>10. /\ B \in Seq(U) /\ Len(B) = p.count
       /\ \A i \in 1..p.count : B[i] = p.buf[at(p.start, i)]
  <2> HIDE DEF p
  <2> QED BY <1>9, ContentsFacts
<1>11. /\ W \in Seq(U) /\ Len(W) = rb.count + 1
       /\ \A i \in 1..(rb.count + 1) : W[i] = IF i = rb.count + 1 THEN x ELSE A[i]
  <2> HIDE DEF A
  <2> QED BY <1>2, AppendProperties
<1> HIDE DEF p, A, B, W, U
<1>12. PICK L : L = Window!Last(W, c)
  OBVIOUS
<1>13. /\ L \in Seq(U)
       /\ Len(L) = IF Len(W) <= c THEN Len(W) ELSE c
       /\ \A i \in 1..Len(L) : L[i] = W[IF Len(W) <= c THEN i ELSE i + Len(W) - c]
  <2>1. c \in Nat
    OBVIOUS
  <2> QED BY <1>11, <1>12, <2>1, LastFacts
<1>14. CASE rb.count = c
  <2>1. Len(L) = c /\ p.count = c /\ \A i \in 1..c : L[i] = W[i + 1]
    BY <1>11, <1>13, <1>14, <1>4
  <2>2. ASSUME NEW i \in 1..c PROVE B[i] = L[i]
    <3>1. L[i] = IF i = c THEN x ELSE A[i + 1]
      BY <1>11, <1>14, <2>1
    <3>2. B[i] = p.buf[at(p.start, i)]
      BY <1>10, <2>1
    <3>3. e = rb.start
      BY <1>0, <1>1, <1>14
    <3>4. CASE i = c
      <4>1. at(p.start, i) = e
        BY <1>1, <1>5, <1>14, <3>3, <3>4
      <4> HIDE DEF at
      <4> QED BY <1>1, <1>3, <1>4, <3>1, <3>2, <3>4, <4>1
    <3>5. CASE i # c
      <4>1. i + 1 \in 1..rb.count
        BY <1>14, <3>5
      <4>2. at(p.start, i) = at(rb.start, i + 1) /\ at(p.start, i) # e /\ at(p.start, i) \in 0..(c - 1)
        BY <1>1, <1>5, <1>14, <3>3, <3>5
      <4>3. A[i + 1] = rb.buf[at(rb.start, i + 1)]
        BY <1>2, <4>1
      <4> HIDE DEF at
      <4> QED BY <1>1, <1>3, <1>4, <3>1, <3>2, <3>5, <4>2, <4>3
    <3> QED
      BY <3>4, <3>5
  <2> QED
    BY <1>10, <1>13, <2>1, <2>2, <1>12, <1>9, SeqEqual DEF p, A, B, W
<1>15. CASE rb.count # c
  <2>1. Len(L) = rb.count + 1 /\ p.count = rb.count + 1 /\ \A i \in 1..(rb.count + 1) : L[i] = W[i]
    BY <1>1, <1>11, <1>13, <1>15, <1>4
  <2>2. ASSUME NEW i \in 1..(rb.count + 1) PROVE B[i] = L[i]
    <3>1. L[i] = IF i = rb.count + 1 THEN x ELSE A[i]
      BY <1>11, <2>1
    <3>2. B[i] = p.buf[at(rb.start, i)]
      BY <1>10, <1>4, <1>15, <2>1
    <3>3. CASE i = rb.count + 1
      <4>1. at(rb.start, i) = e
        BY <1>0, <3>3
      <4> HIDE DEF at
      <4> QED BY <1>1, <1>3, <1>4, <3>1, <3>2, <3>3, <4>1
    <3>4. CASE i # rb.count + 1
      <4>1. i \in 1..rb.count
        BY <1>1, <3>4
      <4>2. at(rb.start, i) # e /\ at(rb.start, i) \in 0..(c - 1)
        <5>1. PICK st, n : st = rb.start /\ n = rb.count
          OBVIOUS
        <5>2. st \in 0..(c - 1) /\ n \in 0..c /\ n # c /\ i \in 1..n
          BY <1>1, <1>15, <4>1, <5>1
        <5>3. at(st, i) # at(st, n + 1) /\ at(st, i) \in 0..(c - 1)
          BY <5>2
        <5> HIDE DEF at
        <5> QED BY <1>0, <5>1, <5>3
      <4>3. A[i] = rb.buf[at(rb.start, i)]
        BY <1>2, <4>1
      <4> HIDE DEF at
      <4> QED BY <1>1, <1>3, <1>4, <3>1, <3>2, <3>4, <4>2, <4>3
    <3> QED
      BY <3>3, <3>4
  <2> QED
    BY <1>10, <1>13, <2>1, <2>2, <1>12, <1>9, SeqEqual DEF p, A, B, W
<1> QED
  BY <1>14, <1>15

\* Dropping the oldest before an item is appended or only after it is the same.
LEMMA LastAppend ==
  ASSUME NEW T, NEW s \in Seq(T), NEW x \in T, NEW c \in Nat \ {0}
  PROVE  Window!Last(Append(Window!Last(s, c), x), c) = Window!Last(Append(s, x), c)
<1> DEFINE n == Len(s)
<1>0. c \in Nat /\ n \in Nat
  OBVIOUS
<1>1. PICK u : u = Window!Last(s, c)
  OBVIOUS
<1>2. /\ u \in Seq(T) /\ Len(u) = IF n <= c THEN n ELSE c
      /\ \A i \in 1..Len(u) : u[i] = s[IF n <= c THEN i ELSE i + n - c]
  BY <1>0, <1>1, LastFacts
<1>3. PICK v : v = Append(u, x)
  OBVIOUS
<1>4. /\ v \in Seq(T) /\ Len(v) = Len(u) + 1
      /\ \A i \in 1..(Len(u) + 1) : v[i] = IF i = Len(u) + 1 THEN x ELSE u[i]
  BY <1>2, <1>3, AppendProperties
<1>5. PICK w : w = Append(s, x)
  OBVIOUS
<1>6. /\ w \in Seq(T) /\ Len(w) = n + 1
      /\ \A i \in 1..(n + 1) : w[i] = IF i = n + 1 THEN x ELSE s[i]
  BY <1>5, AppendProperties
<1>7. PICK a : a = Window!Last(v, c)
  OBVIOUS
<1>8. /\ a \in Seq(T) /\ Len(a) = IF Len(v) <= c THEN Len(v) ELSE c
      /\ \A i \in 1..Len(a) : a[i] = v[IF Len(v) <= c THEN i ELSE i + Len(v) - c]
  BY <1>0, <1>4, <1>7, LastFacts
<1>9. PICK b : b = Window!Last(w, c)
  OBVIOUS
<1>10. /\ b \in Seq(T) /\ Len(b) = IF Len(w) <= c THEN Len(w) ELSE c
       /\ \A i \in 1..Len(b) : b[i] = w[IF Len(w) <= c THEN i ELSE i + Len(w) - c]
  BY <1>0, <1>6, <1>9, LastFacts
<1> HIDE DEF n
<1>11. Len(a) = Len(b) /\ Len(a) \in Nat
  BY <1>0, <1>2, <1>4, <1>6, <1>8, <1>10
<1>12. ASSUME NEW i \in 1..Len(a) PROVE a[i] = b[i]
  <2>1. CASE n + 1 <= c
    <3>1. /\ Len(u) = n /\ Len(v) = n + 1 /\ Len(w) = n + 1 /\ Len(a) = n + 1
          /\ n <= c /\ Len(v) <= c /\ Len(w) <= c
      BY <1>0, <1>2, <1>4, <1>6, <1>8, <2>1
    <3>2. a[i] = v[i] /\ b[i] = w[i]
      BY <1>8, <1>10, <1>11, <3>1
    <3>3. i # n + 1 => i \in 1..n
      BY <1>0, <3>1
    <3> QED
      BY <1>2, <1>4, <1>6, <3>1, <3>2, <3>3
  <2>2. CASE n = c
    <3>1. /\ Len(u) = n /\ Len(v) = n + 1 /\ Len(w) = n + 1 /\ Len(a) = c
          /\ n <= c /\ ~(Len(v) <= c) /\ ~(Len(w) <= c)
      BY <1>0, <1>2, <1>4, <1>6, <1>8, <2>2
    <3>2. i + Len(v) - c = i + 1 /\ i + Len(w) - c = i + 1 /\ i + 1 \in 1..(n + 1)
      BY <1>0, <2>2, <3>1
    <3>3. a[i] = v[i + 1] /\ b[i] = w[i + 1]
      BY <1>8, <1>10, <1>11, <3>1, <3>2
    <3>4. i + 1 # n + 1 => i + 1 \in 1..n
      BY <1>0, <3>2
    <3> QED
      BY <1>2, <1>4, <1>6, <3>1, <3>2, <3>3, <3>4
  <2>3. CASE n > c
    <3>1. /\ Len(u) = c /\ Len(v) = c + 1 /\ Len(w) = n + 1 /\ Len(a) = c
          /\ ~(n <= c) /\ ~(Len(v) <= c) /\ ~(Len(w) <= c)
      BY <1>0, <1>2, <1>4, <1>6, <1>8, <2>3
    <3>2. i + Len(v) - c = i + 1 /\ i + Len(w) - c = i + n + 1 - c /\ i + 1 \in 1..(c + 1)
          /\ i + n + 1 - c \in 1..(n + 1)
      BY <1>0, <2>3, <3>1
    <3>3. a[i] = v[i + 1] /\ b[i] = w[i + n + 1 - c]
      BY <1>8, <1>10, <1>11, <3>1, <3>2
    <3>4. CASE i = c
      <4>1. i + 1 = Len(u) + 1 /\ i + n + 1 - c = n + 1
        BY <1>0, <3>1, <3>4
      <4> QED
        BY <1>4, <1>6, <3>1, <3>2, <3>3, <4>1
    <3>5. CASE i # c
      <4>1. i + 1 \in 1..c /\ i + 1 # c + 1 /\ i + n + 1 - c # n + 1 /\ i + 1 + n - c = i + n + 1 - c
        BY <1>0, <3>1, <3>5
      <4>2. v[i + 1] = u[i + 1] /\ w[i + n + 1 - c] = s[i + n + 1 - c]
        BY <1>4, <1>6, <3>1, <3>2, <4>1
      <4>3. u[i + 1] = s[i + n + 1 - c]
        BY <1>2, <3>1, <4>1
      <4> QED
        BY <3>3, <4>2, <4>3
    <3> QED
      BY <3>4, <3>5
  <2> QED
    BY <1>0, <2>1, <2>2, <2>3
<1>13. a = b
  BY <1>8, <1>10, <1>11, <1>12, SeqEqual
<1> QED
  BY <1>1, <1>3, <1>5, <1>7, <1>9, <1>13

PushLoop(f, rb, s, n) ==
    /\ f[0] = rb
    /\ \A i \in 1..n : f[i] = PushOne(f[i - 1], s[i])

\* The recursive function in Push exists for a sequence of any length.
LEMMA PushLoopExists ==
  ASSUME NEW rb, NEW s, NEW n \in Nat
  PROVE  \E f : PushLoop(f, rb, s, n)
<1> DEFINE S == {k \in Nat : \E f : PushLoop(f, rb, s, k)}
<1>1. 0 \in S
  <2> DEFINE f == [i \in {0} |-> rb]
  <2>1. PushLoop(f, rb, s, 0)
    BY DEF PushLoop
  <2> QED
    BY <2>1
<1>2. ASSUME NEW k \in Nat, k \in S PROVE k + 1 \in S
  <2>1. PICK f : PushLoop(f, rb, s, k)
    BY <1>2
  <2> DEFINE e == PushOne(f[k], s[k + 1])
             g == [i \in 0..(k + 1) |-> IF i = k + 1 THEN e ELSE f[i]]
  <2>2. /\ g[k + 1] = e /\ \A i \in 0..k : g[i] = f[i]
    OBVIOUS
  <2> HIDE DEF g
  <2>3. g[0] = rb
    BY <2>1, <2>2 DEF PushLoop
  <2>4. ASSUME NEW i \in 1..(k + 1) PROVE g[i] = PushOne(g[i - 1], s[i])
    <3>1. CASE i = k + 1
      <4>1. i - 1 = k /\ k \in 0..k
        BY <3>1
      <4> QED
        BY <2>2, <3>1, <4>1
    <3>2. CASE i # k + 1
      <4>1. i \in 1..k /\ i \in 0..k /\ i - 1 \in 0..k
        BY <3>2
      <4> QED
        BY <2>1, <2>2, <4>1 DEF PushLoop
    <3> QED
      BY <3>1, <3>2
  <2>5. PushLoop(g, rb, s, k + 1)
    BY <2>3, <2>4 DEF PushLoop
  <2> QED
    BY <2>5
<1>3. Nat \subseteq S
  <2> HIDE DEF S
  <2> QED BY <1>1, <1>2, NatSetInduction
<1> QED
  BY <1>3

\* What the loop of push computes.
LEMMA PushIsLoop ==
  ASSUME NEW rb, NEW T, NEW s \in Seq(T)
  PROVE  \E f : PushLoop(f, rb, s, Len(s)) /\ Push(rb, s) = f[Len(s)]
<1> DEFINE n == Len(s)
           Is(k) == k = [i \in 0..n |-> IF i = 0 THEN rb ELSE PushOne(k[i - 1], s[i])]
           h == CHOOSE k : Is(k)
<1>1. n \in Nat
  OBVIOUS
<1>2. Push(rb, s) = h[n]
  BY DEF Push
<1> HIDE DEF n
<1>3. PICK f : PushLoop(f, rb, s, n)
  BY <1>1, PushLoopExists
<1>4. \E k : Is(k)
  <2> DEFINE k == [i \in 0..n |-> f[i]]
  <2>1. \A i \in 0..n : k[i] = f[i]
    OBVIOUS
  <2>2. \A i \in 0..n : i # 0 => i \in 1..n /\ i - 1 \in 0..n
    BY <1>1
  <2>3. \A i \in 0..n : f[i] = IF i = 0 THEN rb ELSE PushOne(f[i - 1], s[i])
    BY <1>3, <2>2 DEF PushLoop
  <2>4. \A i \in 0..n : f[i] = IF i = 0 THEN rb ELSE PushOne(k[i - 1], s[i])
    BY <2>1, <2>2, <2>3
  <2>5. Is(k)
    BY <2>4
  <2> QED
    BY <2>5
<1>5. Is(h)
  BY <1>4
<1> HIDE DEF h
<1>6. PushLoop(h, rb, s, n)
  <2>1. 0 \in 0..n /\ \A i \in 1..n : i \in 0..n /\ i # 0
    BY <1>1
  <2> QED
    BY <1>5, <2>1 DEF PushLoop
<1> QED
  BY <1>2, <1>6 DEF n

\* A push of any number of items leaves the newest that fit, in order.
LEMMA PushFacts ==
  ASSUME NEW c \in Nat \ {0}, NEW T, NEW rb \in RingOf(c, T), NEW s \in Seq(T)
  PROVE  /\ Push(rb, s) \in RingOf(c, T)
         /\ ToArray(Push(rb, s)) = Window!Last(ToArray(rb) \o s, c)
<1> DEFINE A == ToArray(rb)
           U == T \cup {NoRow}
           n == Len(s)
           Upto(k) == A \o SubSeq(s, 1, k)
<1>1. PICK f : PushLoop(f, rb, s, n) /\ Push(rb, s) = f[n]
  BY PushIsLoop
<1> DEFINE S == {k \in Nat : k <= n => f[k] \in RingOf(c, T) /\ ToArray(f[k]) = Window!Last(Upto(k), c)}
<1>2. A \in Seq(U) /\ Len(A) = rb.count /\ rb.count \in 0..c /\ Len(A) <= c
  <2>1. A \in Seq(U) /\ Len(A) = rb.count
    BY ContentsFacts
  <2>2. rb.count \in 0..c
    BY DEF RingOf
  <2>3. rb.count <= c
    BY <2>2
  <2> QED
    BY <2>1, <2>2, <2>3
<1>3. n \in Nat /\ \A k \in 0..n : SubSeq(s, 1, k) \in Seq(T) /\ SubSeq(s, 1, k) \in Seq(U)
  <2>1. n \in Nat
    OBVIOUS
  <2>2. \A k \in 0..n : SubSeq(s, 1, k) \in Seq(T)
    OBVIOUS
  <2>3. \A k \in 0..n : SubSeq(s, 1, k) \in Seq(U)
    BY <2>2, SeqMonotonic
  <2> QED BY <2>1, <2>2, <2>3
<1> HIDE DEF A, U
<1>4. 0 \in S
  <2>1. SubSeq(s, 1, 0) = <<>>
    OBVIOUS
  <2>2. Upto(0) = A
    BY <1>2, <2>1, ConcatEmptySeq
  <2>3. Window!Last(A, c) = A
    BY <1>2 DEF Window!Last
  <2>4. f[0] = rb
    BY <1>1 DEF PushLoop
  <2> QED
    BY <2>2, <2>3, <2>4 DEF A
<1>5. ASSUME NEW k \in Nat, k \in S PROVE k + 1 \in S
  <2> SUFFICES ASSUME k + 1 <= n
               PROVE  f[k + 1] \in RingOf(c, T) /\ ToArray(f[k + 1]) = Window!Last(Upto(k + 1), c)
    OBVIOUS
  <2>1. k \in 0..n /\ k + 1 \in 1..n /\ (k + 1) - 1 = k /\ k <= n
    BY <1>3
  <2>2. f[k] \in RingOf(c, T) /\ ToArray(f[k]) = Window!Last(Upto(k), c)
    BY <1>5, <2>1
  <2>3. f[k + 1] = PushOne(f[k], s[k + 1])
    BY <1>1, <2>1 DEF PushLoop
  <2>4. s[k + 1] \in T /\ s[k + 1] \in U
    BY <2>1 DEF U
  <2>5. Upto(k) \in Seq(U)
    BY <1>2, <1>3, <2>1, ConcatProperties
  <2>6. Upto(k + 1) = Append(Upto(k), s[k + 1])
    <3>1. SubSeq(s, 1, k + 1) = Append(SubSeq(s, 1, k), s[k + 1])
      BY <2>1
    <3>2. PICK q : q = SubSeq(s, 1, k)
      OBVIOUS
    <3>3. A \o Append(q, s[k + 1]) = Append(A \o q, s[k + 1])
      BY <1>2, <1>3, <2>1, <2>4, <3>2
    <3> QED
      BY <3>1, <3>2, <3>3
  <2>7. f[k + 1] \in RingOf(c, T) /\ ToArray(f[k + 1]) = Window!Last(Append(ToArray(f[k]), s[k + 1]), c)
    BY <2>2, <2>3, <2>4, PushOneFacts
  <2> HIDE DEF Upto
  <2>8. Window!Last(Append(Window!Last(Upto(k), c), s[k + 1]), c)
           = Window!Last(Append(Upto(k), s[k + 1]), c)
    BY <2>4, <2>5, LastAppend
  <2> QED
    BY <2>2, <2>6, <2>7, <2>8
<1>6. n \in S
  <2> HIDE DEF S
  <2>1. Nat \subseteq S
    BY <1>4, <1>5, NatSetInduction
  <2> QED BY <2>1, <1>3
<1>7. Upto(n) = A \o s
  BY <1>3
<1>8. n <= n
  BY <1>3
<1>9. f[n] \in RingOf(c, T) /\ ToArray(f[n]) = Window!Last(Upto(n), c)
  <2> HIDE DEF n, Upto
  <2> QED BY <1>6, <1>8
<1> QED
  BY <1>1, <1>7, <1>9 DEF A

\* The last items of two sequences of items, joined.
LEMMA LastOfJoined ==
  ASSUME NEW T, NEW s \in Seq(T), NEW t \in Seq(T), NEW c \in Nat
  PROVE  Window!Last(s \o t, c) \in Seq(T) /\ Window!Last(s, c) \in Seq(T)
<1>1. s \o t \in Seq(T)
  BY ConcatProperties
<1> QED
  BY <1>1, LastFacts

\* A resize keeps the newest items that fit.
LEMMA ResizeFacts ==
  ASSUME NEW c \in Nat \ {0}, NEW d \in Nat \ {0}, NEW T, NEW rb \in RingOf(c, T),
         ToArray(rb) \in Seq(T)
  PROVE  /\ Resize(rb, d) \in RingOf(d, T)
         /\ ToArray(Resize(rb, d)) = Window!Last(ToArray(rb), d)
<1>1. PICK s : s = ToArray(rb)
  OBVIOUS
<1>2. s \in Seq(T) /\ Len(s) \in Nat /\ d \in Nat
  BY <1>1
<1>3. Newest(s, d) = Window!Last(s, d)
  <2> DEFINE D == {0, Len(s) - d}
  <2>1. IsFiniteSet(D) /\ D \subseteq Int /\ D # {}
    <3>1. IsFiniteSet(D)
      <4>1. IsFiniteSet({0}) /\ IsFiniteSet({Len(s) - d})
        BY FS_Singleton
      <4>2. D = {0} \cup {Len(s) - d}
        OBVIOUS
      <4> QED BY <4>1, <4>2, FS_Union
    <3> QED BY <1>2, <3>1
  <2>2. Max(D) \in D /\ \A y \in D : Max(D) >= y
    <3> HIDE DEF D
    <3> QED BY <2>1, MaxExists
  <2>3. Max({0, Len(s) - d}) = IF Len(s) <= d THEN 0 ELSE Len(s) - d
    BY <1>2, <2>2
  <2>4. CASE Len(s) <= d
    <3>1. SubSeq(s, 1, Len(s)) = s
      BY <1>2
    <3>2. Max({0, Len(s) - d}) + 1 = 1
      BY <2>3, <2>4
    <3> QED
      BY <2>4, <3>1, <3>2 DEF Newest, Window!Last
  <2>5. CASE ~(Len(s) <= d)
    BY <2>3, <2>5 DEF Newest, Window!Last
  <2> QED
    BY <2>4, <2>5
<1>4. PICK w : w = Window!Last(s, d)
  OBVIOUS
<1>5. w \in Seq(T) /\ Len(w) <= d
  BY <1>2, <1>4, LastFacts
<1>6. NewRing(d) \in RingOf(d, T) /\ ToArray(NewRing(d)) = <<>>
  BY NewRingFacts
<1>7. /\ Push(NewRing(d), w) \in RingOf(d, T)
      /\ ToArray(Push(NewRing(d), w)) = Window!Last(<<>> \o w, d)
  BY <1>5, <1>6, PushFacts
<1>8. <<>> \o w = w /\ Window!Last(w, d) = w
  BY <1>5, ConcatEmptySeq DEF Window!Last
<1> QED
  BY <1>1, <1>3, <1>4, <1>7, <1>8 DEF Resize

-----------------------------------------------------------------------------
(***************************************************************************)
(* The page.  The invariant its properties rest on: what a connection is,  *)
(* what the rings hold, and the parts of PageIsTrue, some of them also for *)
(* a page that is closed.                                                  *)
(***************************************************************************)

RowsFrom(s) == {r \in Rows : r.from = s}

ConnsShaped ==
    /\ DOMAIN conns = Slots /\ cur \in Slots
    /\ \A s \in Slots : /\ DOMAIN conns[s] = {"es", "timer", "closed", "attempt", "cursor"}
                        /\ conns[s].cursor \in 0..MaxRow

StoreOK ==
    \E c \in MaxRowOptions :
        /\ rows \in RingOf(c, Rows) /\ ToArray(rows) \in Seq(Rows)
        /\ pending \in RingOf(c, Rows) /\ ToArray(pending) \in Seq(Rows)

RowsAreOwn ==
    mounted /\ parses =>
        ToArray(rows) \in Seq(RowsFrom(cur)) /\ ToArray(pending) \in Seq(RowsFrom(cur))

FrameIsDue == ~scheduled => view = ToArray(rows)

AtTheEnd == Follows(autoScroll, paused, view) => atBottom

StreamInv == ConnsShaped /\ OneStream /\ StatusTruthful

\* The batch of a `logs' event is a sequence of rows of its connection.
LEMMA BatchFacts ==
  ASSUME NEW s \in Slots, NEW from \in 0..MaxRow, NEW upTo \in (from + 1)..MaxRow
  PROVE  LET batch == [i \in 1..(upTo - from) |-> [from |-> s, n |-> from + i]]
         IN  batch \in Seq(RowsFrom(s)) /\ upTo - from \in 1..MaxRow
             /\ batch \in [1..(upTo - from) -> Rows] /\ batch \in Seq(Rows)
<1> DEFINE m == upTo - from
           batch == [i \in 1..m |-> [from |-> s, n |-> from + i]]
<1>1. MaxRow \in Nat
  BY LiveTailAssumption
<1>2. m \in 1..MaxRow /\ m \in Nat
  BY <1>1
<1>3. ASSUME NEW i \in 1..m PROVE [from |-> s, n |-> from + i] \in RowsFrom(s)
  <2>1. from + i \in 1..MaxRow
    BY <1>1
  <2> QED
    BY <2>1 DEF RowsFrom, Rows
<1> HIDE DEF m
<1>4. batch \in [1..m -> RowsFrom(s)]
  BY <1>3
<1>5. RowsFrom(s) \subseteq Rows
  BY DEF RowsFrom
<1> HIDE DEF batch
<1>6. batch \in [1..m -> Rows]
  BY <1>4, <1>5
<1>7. batch \in Seq(RowsFrom(s)) /\ batch \in Seq(Rows)
  BY <1>2, <1>4, <1>6
<1> QED
  BY <1>2, <1>6, <1>7 DEF m, batch

\* Every step of the page is a step of the window, or leaves it alone, and
\* leaves rings of one capacity behind.
LEMMA StoreStep ==
  ASSUME StoreOK, ConnsShaped, [Next]_vars
  PROVE  StoreOK' /\ [Window!Next]_(Window!window)
<1> DEFINE Keeps == StoreOK' /\ [Window!Next]_(Window!window)
           C == Capacity(rows)
           New == NewRing(DefaultSize)
<1>1. PICK c \in MaxRowOptions :
        /\ rows \in RingOf(c, Rows) /\ ToArray(rows) \in Seq(Rows)
        /\ pending \in RingOf(c, Rows) /\ ToArray(pending) \in Seq(Rows)
  BY DEF StoreOK
<1>2. /\ c \in Nat \ {0} /\ DefaultSize \in Nat \ {0} /\ DefaultSize \in MaxRowOptions
      /\ \A n \in MaxRowOptions : n \in Nat \ {0}
  BY LiveTailAssumption
<1>3. Capacity(rows) = c
  BY <1>1, <1>2, CapacityIs
<1>4. ASSUME rows' = rows, pending' = pending, paused' = paused PROVE Keeps
  <2>1. StoreOK'
    BY <1>4 DEF StoreOK
  <2>2. UNCHANGED Window!window
    BY <1>4 DEF Window!window
  <2> QED
    BY <2>1, <2>2
<1>5. ASSUME rows' = ClearRing(rows), pending' = ClearRing(pending), paused' = paused PROVE Keeps
  <2>1. /\ rows' \in RingOf(c, Rows) /\ pending' \in RingOf(c, Rows)
        /\ ToArray(rows') = <<>> /\ ToArray(pending') = <<>>
    BY <1>1, <1>2, <1>5, NewRingFacts
  <2>2. Capacity(rows') = c
    BY <1>2, <2>1, CapacityIs
  <2>3. StoreOK'
    BY <2>1 DEF StoreOK
  <2>4. Window!Clear
    BY <1>3, <1>5, <2>1, <2>2 DEF Window!Clear
  <2> QED
    BY <2>3, <2>4 DEF Window!Next
<1>6. ASSUME NEW ok \in BOOLEAN, ConnectTo(ok), paused' = paused PROVE Keeps
  BY <1>4, <1>5, <1>6 DEF ConnectTo
<1>7. ASSUME NEW ok \in BOOLEAN, Enter(ok) PROVE Keeps
  BY <1>4, <1>6, <1>7 DEF Enter
<1>8. ASSUME NEW ok \in BOOLEAN, SetSearch(ok) PROVE Keeps
  BY <1>6, <1>8 DEF SetSearch
<1>9. ASSUME Leave PROVE Keeps
  <2>1. rows' = New /\ pending' = New /\ paused' = FALSE
    BY <1>9 DEF Leave
  <2>2. New \in RingOf(DefaultSize, Rows) /\ ToArray(New) = <<>>
    BY <1>2, NewRingFacts
  <2>3. Capacity(New) = DefaultSize
    BY <1>2, <2>2, CapacityIs
  <2>4. StoreOK'
    BY <1>2, <2>1, <2>2 DEF StoreOK
  <2>5. Window!Renew
    BY <1>2, <2>1, <2>2, <2>3 DEF Window!Renew
  <2> QED
    BY <2>4, <2>5 DEF Window!Next
<1>10. ASSUME TogglePause PROVE Keeps
  <2>1. CASE paused
    <3>1. PICK t : t = ToArray(pending)
      OBVIOUS
    <3>2. rows' = Push(rows, t) /\ pending' = ClearRing(pending) /\ paused' = FALSE
      BY <1>10, <2>1, <3>1 DEF TogglePause
    <3>3. /\ rows' \in RingOf(c, Rows) /\ ToArray(rows') = Window!Last(ToArray(rows) \o t, c)
      BY <1>1, <1>2, <3>1, <3>2, PushFacts
    <3>4. pending' \in RingOf(c, Rows) /\ ToArray(pending') = <<>>
      BY <1>1, <1>2, <3>2, NewRingFacts
    <3>5. ToArray(rows') \in Seq(Rows)
      <4>1. c \in Nat
        BY <1>2
      <4> QED BY <1>1, <3>1, <3>3, <4>1, LastOfJoined
    <3>6. Capacity(rows') = c
      BY <1>2, <3>3, CapacityIs
    <3>7. StoreOK'
      BY <3>3, <3>4, <3>5 DEF StoreOK
    <3>8. Window!Thaw
      BY <1>3, <2>1, <3>1, <3>2, <3>3, <3>4, <3>6 DEF Window!Thaw
    <3> QED
      BY <3>7, <3>8 DEF Window!Next
  <2>2. CASE ~paused
    <3>1. rows' = rows /\ pending' = pending /\ paused' = TRUE
      BY <1>10, <2>2 DEF TogglePause
    <3>2. StoreOK'
      BY <3>1 DEF StoreOK
    <3>3. Window!Freeze
      BY <2>2, <3>1 DEF Window!Freeze
    <3> QED
      BY <3>2, <3>3 DEF Window!Next
  <2> QED
    BY <2>1, <2>2
<1>11. ASSUME ClearRows PROVE Keeps
  BY <1>5, <1>11 DEF ClearRows
<1>12. ASSUME NEW n \in MaxRowOptions, SetMaxRows(n) PROVE Keeps
  <2>1. rows' = Resize(rows, n) /\ pending' = Resize(pending, n) /\ paused' = paused
    BY <1>12 DEF SetMaxRows
  <2>2. n \in Nat \ {0} /\ n \in Nat
    BY <1>2
  <2>3. rows' \in RingOf(n, Rows) /\ ToArray(rows') = Window!Last(ToArray(rows), n)
    BY <1>1, <1>2, <2>1, <2>2, ResizeFacts
  <2>4. pending' \in RingOf(n, Rows) /\ ToArray(pending') = Window!Last(ToArray(pending), n)
    BY <1>1, <1>2, <2>1, <2>2, ResizeFacts
  <2>5. ToArray(rows') \in Seq(Rows) /\ ToArray(pending') \in Seq(Rows)
    BY <1>1, <2>2, <2>3, <2>4, LastOfJoined
  <2>6. Capacity(rows') = n
    BY <2>2, <2>3, CapacityIs
  <2>7. StoreOK'
    BY <2>3, <2>4, <2>5 DEF StoreOK
  <2>8. Window!SetSize(n)
    BY <2>1, <2>3, <2>4, <2>6 DEF Window!SetSize
  <2> QED
    BY <2>7, <2>8 DEF Window!Next
<1>13. ASSUME NEW s \in Slots, Logs(s) PROVE Keeps
  <2>1. PICK from \in 0..MaxRow : from = conns[s].cursor
    BY DEF ConnsShaped
  <2>0. PICK upTo \in (from + 1)..MaxRow :
          LET batch == [i \in 1..(upTo - from) |-> [from |-> s, n |-> from + i]]
          IN  /\ rows' = IF paused THEN rows ELSE Push(rows, batch)
              /\ pending' = IF paused THEN Push(pending, batch) ELSE pending
              /\ paused' = paused
    BY <1>13, <2>1 DEF Logs
  <2>2. PICK batch :
          /\ batch = [i \in 1..(upTo - from) |-> [from |-> s, n |-> from + i]]
          /\ rows' = IF paused THEN rows ELSE Push(rows, batch)
          /\ pending' = IF paused THEN Push(pending, batch) ELSE pending
          /\ paused' = paused
    BY <2>0
  <2>3. /\ upTo - from \in 1..MaxRow /\ batch \in [1..(upTo - from) -> Rows]
        /\ batch \in Seq(Rows)
    BY <2>2, BatchFacts
  <2>4. c \in Nat
    BY <1>2
  <2>5. ASSUME NEW rb \in RingOf(c, Rows), ToArray(rb) \in Seq(Rows)
        PROVE  /\ Push(rb, batch) \in RingOf(c, Rows) /\ ToArray(Push(rb, batch)) \in Seq(Rows)
               /\ ToArray(Push(rb, batch)) = Window!Last(ToArray(rb) \o batch, c)
               /\ Capacity(Push(rb, batch)) = c
    <3>1. /\ Push(rb, batch) \in RingOf(c, Rows)
          /\ ToArray(Push(rb, batch)) = Window!Last(ToArray(rb) \o batch, c)
      BY <1>2, <2>3, PushFacts
    <3>2. Capacity(Push(rb, batch)) = c
      BY <1>2, <3>1, CapacityIs
    <3>3. ToArray(Push(rb, batch)) \in Seq(Rows)
      BY <2>3, <2>4, <2>5, <3>1, LastOfJoined
    <3> QED
      BY <3>1, <3>2, <3>3
  <2>6. StoreOK'
    BY <1>1, <2>2, <2>5 DEF StoreOK
  <2>7. Window!Deliver(batch)
    BY <1>1, <1>3, <2>2, <2>5 DEF Window!Deliver
  <2>8. Window!Next
    BY <2>3, <2>7 DEF Window!Next
  <2> QED
    BY <2>6, <2>8
<1>14. ASSUME NEW s \in Slots, Opened(s) \/ Error(s) \/ Reopen(s) PROVE Keeps
  BY <1>4, <1>14 DEF Opened, Error, Reopen, store
<1>15. ASSUME ToggleAutoScroll \/ OnScroll \/ Frame \/ Flip \/ UNCHANGED vars PROVE Keeps
  BY <1>4, <1>15 DEF ToggleAutoScroll, OnScroll, Frame, Flip, vars, store
<1> QED
  BY <1>7, <1>8, <1>9, <1>10, <1>11, <1>12, <1>13, <1>14, <1>15 DEF Next

\* The stream: a connection or a timer is the open page's, and the indicator
\* follows it.
LEMMA StreamStep ==
  ASSUME StreamInv, [Next]_vars
  PROVE  StreamInv'
<1> USE DEF StreamInv
<1>0. /\ DOMAIN conns = Slots /\ cur \in Slots
      /\ \A s \in Slots : /\ DOMAIN conns[s] = {"es", "timer", "closed", "attempt", "cursor"}
                          /\ conns[s].cursor \in 0..MaxRow
  BY DEF ConnsShaped
<1>1. Slots = {1, 2} /\ 3 - cur \in Slots /\ 3 - cur # cur
  BY <1>0 DEF Slots
<1>2. 0 \in 0..MaxRow
  BY LiveTailAssumption
<1>3. ASSUME NEW s \in Slots,
             conns[s].es # "none" \/ conns[s].timer # 0
      PROVE  mounted /\ s = cur /\ ~conns[s].closed
  BY <1>3 DEF OneStream
<1>4. ASSUME conns' = conns, cur' = cur, status' = status, mounted' = mounted, parses' = parses
      PROVE  StreamInv'
  BY <1>4 DEF ConnsShaped, OneStream, StatusTruthful
<1>5. ASSUME NEW ok \in BOOLEAN, ConnectTo(ok), mounted' = TRUE, parses' = ok
      PROVE  StreamInv'
  <2> DEFINE nxt == 3 - cur
             fresh == [NoConn EXCEPT !.closed = FALSE, !.es = "connecting"]
  <2>0. /\ DOMAIN NoConn = {"es", "timer", "closed", "attempt", "cursor"}
        /\ NoConn.cursor = 0 /\ NoConn.es = "none" /\ NoConn.timer = 0
        /\ DOMAIN fresh = {"es", "timer", "closed", "attempt", "cursor"}
        /\ fresh.cursor = 0 /\ fresh.es = "connecting" /\ fresh.timer = 0 /\ ~fresh.closed
        /\ \A c : /\ DOMAIN Close(c) = {"es", "timer", "closed", "attempt", "cursor"}
                  /\ Close(c).cursor = 0 /\ Close(c).es = "none" /\ Close(c).timer = 0
    BY DEF NoConn, Close
  <2>1. CASE ~ok
    <3>1. conns' = [conns EXCEPT ![cur] = Close(@)] /\ cur' = cur
      BY <1>5, <2>1 DEF ConnectTo
    <3>2. /\ DOMAIN conns' = Slots /\ conns'[cur] = Close(conns[cur])
          /\ \A s \in Slots : s # cur => conns'[s] = conns[s]
      BY <1>0, <3>1
    <3>3. ConnsShaped'
      BY <1>0, <1>2, <2>0, <3>1, <3>2 DEF ConnsShaped
    <3>4. OneStream'
      BY <1>3, <2>0, <3>2 DEF OneStream
    <3>5. StatusTruthful'
      BY <1>5, <2>1 DEF StatusTruthful
    <3> QED
      BY <3>3, <3>4, <3>5
  <2>2. CASE ok
    <3>1. /\ conns' = [conns EXCEPT ![cur] = Close(@), ![nxt] = fresh]
          /\ cur' = nxt /\ status' = "connecting"
      BY <1>5, <2>2 DEF ConnectTo
    <3> HIDE DEF nxt, fresh
    <3>a. nxt \in Slots /\ nxt # cur /\ \A s \in Slots : s = cur \/ s = nxt
      BY <1>0, <1>1 DEF nxt
    <3>2. /\ DOMAIN conns' = Slots /\ conns'[nxt] = fresh
          /\ conns'[cur] = Close(conns[cur])
      BY <1>0, <3>1, <3>a
    <3>3. ConnsShaped'
      BY <1>2, <2>0, <3>1, <3>2, <3>a DEF ConnsShaped
    <3>4. OneStream'
      BY <1>5, <2>0, <3>1, <3>2, <3>a DEF OneStream
    <3>5. StatusTruthful'
      BY <2>0, <3>1, <3>2 DEF StatusTruthful
    <3> QED
      BY <3>3, <3>4, <3>5
  <2> QED
    BY <2>1, <2>2
<1>6. ASSUME NEW ok \in BOOLEAN, Enter(ok) PROVE StreamInv'
  <2>1. CASE ok
    BY <1>5, <1>6, <2>1 DEF Enter
  <2>2. CASE ~ok
    <3>1. /\ conns' = conns /\ cur' = cur /\ status' = status /\ mounted' = TRUE
          /\ parses' = FALSE /\ ~mounted
      BY <1>6, <2>2 DEF Enter
    <3> QED
      BY <1>3, <3>1 DEF ConnsShaped, OneStream, StatusTruthful
  <2> QED
    BY <2>1, <2>2
<1>7. ASSUME NEW ok \in BOOLEAN, SetSearch(ok) PROVE StreamInv'
  BY <1>5, <1>7 DEF SetSearch
<1>8. ASSUME Leave PROVE StreamInv'
  <2>1. conns' = [conns EXCEPT ![cur] = Close(@)] /\ cur' = cur /\ mounted' = FALSE
    BY <1>8 DEF Leave
  <2>2. /\ DOMAIN conns' = Slots /\ conns'[cur] = Close(conns[cur])
        /\ \A s \in Slots : s # cur => conns'[s] = conns[s]
    BY <1>0, <2>1
  <2>3. \A c : /\ DOMAIN Close(c) = {"es", "timer", "closed", "attempt", "cursor"}
               /\ Close(c).cursor = 0 /\ Close(c).es = "none" /\ Close(c).timer = 0
    BY DEF NoConn, Close
  <2>4. ConnsShaped'
    BY <1>0, <1>2, <2>1, <2>2, <2>3 DEF ConnsShaped
  <2>5. OneStream'
    BY <1>3, <2>2, <2>3 DEF OneStream
  <2>6. StatusTruthful'
    BY <2>1 DEF StatusTruthful
  <2> QED
    BY <2>4, <2>5, <2>6
<1>9. ASSUME NEW s \in Slots, Opened(s) PROVE StreamInv'
  <2>1. PICK from \in 0..MaxRow :
          conns' = [conns EXCEPT ![s].es = "open", ![s].attempt = 0, ![s].cursor = from]
    BY <1>9 DEF Opened
  <2>2. /\ DOMAIN conns' = Slots /\ DOMAIN conns'[s] = DOMAIN conns[s]
        /\ conns'[s].es = "open" /\ conns'[s].cursor = from /\ conns'[s].timer = conns[s].timer
        /\ conns'[s].closed = conns[s].closed
        /\ \A t \in Slots : t # s => conns'[t] = conns[t]
    BY <1>0, <2>1
  <2>3. /\ mounted /\ s = cur /\ ~conns[s].closed
        /\ cur' = cur /\ mounted' = mounted /\ status' = "live"
    BY <1>3, <1>9 DEF Opened
  <2>4. ConnsShaped'
    BY <1>0, <2>2, <2>3 DEF ConnsShaped
  <2>5. OneStream'
    BY <1>3, <2>2, <2>3 DEF OneStream
  <2>6. StatusTruthful'
    BY <2>2, <2>3 DEF StatusTruthful
  <2> QED
    BY <2>4, <2>5, <2>6
<1>10. ASSUME NEW s \in Slots, Logs(s) PROVE StreamInv'
  <2>1. PICK upTo \in (conns[s].cursor + 1)..MaxRow : conns' = [conns EXCEPT ![s].cursor = upTo]
    BY <1>10 DEF Logs
  <2>2. /\ DOMAIN conns' = Slots /\ DOMAIN conns'[s] = DOMAIN conns[s]
        /\ conns'[s].es = conns[s].es /\ conns'[s].cursor = upTo
        /\ conns'[s].timer = conns[s].timer /\ conns'[s].closed = conns[s].closed
        /\ \A t \in Slots : t # s => conns'[t] = conns[t]
    BY <1>0, <2>1
  <2>3. cur' = cur /\ mounted' = mounted /\ status' = status /\ parses' = parses
    BY <1>10 DEF Logs
  <2>4. upTo \in 0..MaxRow
    <3>1. conns[s].cursor \in Nat /\ MaxRow \in Nat
      BY <1>0, LiveTailAssumption
    <3> QED BY <3>1
  <2>5. ConnsShaped'
    BY <1>0, <2>2, <2>3, <2>4 DEF ConnsShaped
  <2>6. OneStream'
    BY <1>3, <2>2, <2>3 DEF OneStream
  <2>7. StatusTruthful'
    BY <1>0, <2>2, <2>3 DEF StatusTruthful
  <2> QED
    BY <2>5, <2>6, <2>7
<1>11. ASSUME NEW s \in Slots, Error(s) PROVE StreamInv'
  <2>1. mounted /\ s = cur /\ ~conns[s].closed
    BY <1>3, <1>11 DEF Error
  <2>2. PICK n, delay :
          /\ conns' = [conns EXCEPT ![s].es = "none", ![s].attempt = n, ![s].timer = delay]
          /\ status' \in {"error", "reconnecting"}
    BY <1>11, <2>1 DEF Error
  <2>3. cur' = cur /\ mounted' = mounted
    BY <1>11 DEF Error
  <2>4. /\ DOMAIN conns' = Slots /\ DOMAIN conns'[s] = DOMAIN conns[s]
        /\ conns'[s].es = "none" /\ conns'[s].cursor = conns[s].cursor
        /\ conns'[s].closed = conns[s].closed
        /\ \A t \in Slots : t # s => conns'[t] = conns[t]
    BY <1>0, <2>2
  <2>5. ConnsShaped'
    BY <1>0, <2>3, <2>4 DEF ConnsShaped
  <2>6. OneStream'
    BY <1>3, <2>1, <2>3, <2>4 DEF OneStream
  <2>7. StatusTruthful'
    BY <2>1, <2>2, <2>3, <2>4 DEF StatusTruthful
  <2> QED
    BY <2>5, <2>6, <2>7
<1>12. ASSUME NEW s \in Slots, Reopen(s) PROVE StreamInv'
  <2>1. mounted /\ s = cur /\ ~conns[s].closed
    BY <1>3, <1>12 DEF Reopen
  <2>2. /\ conns' = [conns EXCEPT ![s].timer = 0, ![s].es = "connecting"]
        /\ status' \in {"connecting", "reconnecting"} /\ cur' = cur /\ mounted' = mounted
    BY <1>12 DEF Reopen
  <2>3. /\ DOMAIN conns' = Slots /\ DOMAIN conns'[s] = DOMAIN conns[s]
        /\ conns'[s].es = "connecting" /\ conns'[s].cursor = conns[s].cursor
        /\ conns'[s].closed = conns[s].closed
        /\ \A t \in Slots : t # s => conns'[t] = conns[t]
    BY <1>0, <2>2
  <2>4. ConnsShaped'
    BY <1>0, <2>2, <2>3 DEF ConnsShaped
  <2>5. OneStream'
    BY <1>3, <2>1, <2>2, <2>3 DEF OneStream
  <2>6. StatusTruthful'
    BY <2>1, <2>2, <2>3 DEF StatusTruthful
  <2> QED
    BY <2>4, <2>5, <2>6
<1>13. ASSUME \/ TogglePause \/ ClearRows \/ ToggleAutoScroll \/ OnScroll \/ Frame \/ Flip
              \/ UNCHANGED vars \/ \E n \in MaxRowOptions : SetMaxRows(n)
       PROVE  StreamInv'
  BY <1>4, <1>13 DEF TogglePause, ClearRows, ToggleAutoScroll, OnScroll, Frame, Flip, vars, stream,
     SetMaxRows
<1> QED
  BY <1>6, <1>7, <1>8, <1>9, <1>10, <1>11, <1>12, <1>13 DEF Next

\* The rows of the store are the current connection's.
LEMMA RowsStep ==
  ASSUME StreamInv, StoreOK, RowsAreOwn, [Next]_vars
  PROVE  RowsAreOwn'
<1>1. PICK c \in MaxRowOptions :
        /\ rows \in RingOf(c, Rows) /\ ToArray(rows) \in Seq(Rows)
        /\ pending \in RingOf(c, Rows) /\ ToArray(pending) \in Seq(Rows)
  BY DEF StoreOK
<1>2. c \in Nat \ {0} /\ c \in Nat /\ \A n \in MaxRowOptions : n \in Nat \ {0} /\ n \in Nat
  BY LiveTailAssumption
<1>3. ASSUME NEW T PROVE <<>> \in Seq(T)
  OBVIOUS
<1>4. \A rb \in RingOf(c, Rows) : ToArray(ClearRing(rb)) = <<>>
  BY <1>2, NewRingFacts
<1>5. ASSUME rows' = rows, pending' = pending, cur' = cur, mounted' = mounted, parses' = parses
      PROVE  RowsAreOwn'
  BY <1>5 DEF RowsAreOwn
<1>6. ASSUME rows' = ClearRing(rows), pending' = ClearRing(pending) PROVE RowsAreOwn'
  BY <1>1, <1>3, <1>4, <1>6 DEF RowsAreOwn
<1>7. ASSUME NEW ok \in BOOLEAN, Enter(ok) \/ SetSearch(ok) PROVE RowsAreOwn'
  <2>1. CASE ok
    BY <1>6, <1>7, <2>1 DEF Enter, SetSearch, ConnectTo
  <2>2. CASE ~ok
    BY <1>7, <2>2 DEF Enter, SetSearch, RowsAreOwn
  <2> QED
    BY <2>1, <2>2
<1>8. ASSUME Leave PROVE RowsAreOwn'
  BY <1>8 DEF Leave, RowsAreOwn
<1>9. ASSUME TogglePause PROVE RowsAreOwn'
  <2>1. mounted' = mounted /\ parses' = parses /\ cur' = cur
    BY <1>9 DEF TogglePause, stream
  <2>2. CASE paused
    <3>1. PICK t : t = ToArray(pending)
      OBVIOUS
    <3>2. rows' = Push(rows, t) /\ pending' = ClearRing(pending)
      BY <1>9, <2>2, <3>1 DEF TogglePause
    <3>3. ToArray(rows') = Window!Last(ToArray(rows) \o t, c)
      BY <1>1, <1>2, <3>1, <3>2, PushFacts
    <3>4. ToArray(pending') = <<>>
      BY <1>1, <1>4, <3>2
    <3>5. ASSUME mounted, parses PROVE ToArray(rows') \in Seq(RowsFrom(cur))
      <4>1. ToArray(rows) \in Seq(RowsFrom(cur)) /\ t \in Seq(RowsFrom(cur))
        BY <3>1, <3>5 DEF RowsAreOwn
      <4> QED
        BY <1>2, <3>3, <4>1, LastOfJoined
    <3> QED
      BY <1>3, <2>1, <3>4, <3>5 DEF RowsAreOwn
  <2>3. CASE ~paused
    BY <1>5, <1>9, <2>1, <2>3 DEF TogglePause
  <2> QED
    BY <2>2, <2>3
<1>10. ASSUME ClearRows PROVE RowsAreOwn'
  BY <1>6, <1>10 DEF ClearRows
<1>11. ASSUME NEW n \in MaxRowOptions, SetMaxRows(n) PROVE RowsAreOwn'
  <2>1. /\ rows' = Resize(rows, n) /\ pending' = Resize(pending, n)
        /\ mounted' = mounted /\ parses' = parses /\ cur' = cur
    BY <1>11 DEF SetMaxRows, stream
  <2>2. /\ ToArray(rows') = Window!Last(ToArray(rows), n)
        /\ ToArray(pending') = Window!Last(ToArray(pending), n)
    BY <1>1, <1>2, <2>1, ResizeFacts
  <2>3. ASSUME mounted, parses
        PROVE  ToArray(rows') \in Seq(RowsFrom(cur)) /\ ToArray(pending') \in Seq(RowsFrom(cur))
    <3>1. ToArray(rows) \in Seq(RowsFrom(cur)) /\ ToArray(pending) \in Seq(RowsFrom(cur))
      BY <2>3 DEF RowsAreOwn
    <3> QED
      BY <1>2, <2>2, <3>1, LastOfJoined
  <2> QED
    BY <2>1, <2>3 DEF RowsAreOwn
<1>12. ASSUME NEW s \in Slots, Logs(s) PROVE RowsAreOwn'
  <2>1. PICK from \in 0..MaxRow : from = conns[s].cursor
    BY DEF StreamInv, ConnsShaped
  <2>0. PICK upTo \in (from + 1)..MaxRow :
          LET batch == [i \in 1..(upTo - from) |-> [from |-> s, n |-> from + i]]
          IN  /\ rows' = IF paused THEN rows ELSE Push(rows, batch)
              /\ pending' = IF paused THEN Push(pending, batch) ELSE pending
    BY <1>12, <2>1 DEF Logs
  <2>2. PICK batch :
          /\ batch = [i \in 1..(upTo - from) |-> [from |-> s, n |-> from + i]]
          /\ rows' = IF paused THEN rows ELSE Push(rows, batch)
          /\ pending' = IF paused THEN Push(pending, batch) ELSE pending
    BY <2>0
  <2>3. s = cur /\ mounted' = mounted /\ parses' = parses /\ cur' = cur
    BY <1>12 DEF Logs, StreamInv, OneStream
  <2>4. batch \in Seq(Rows) /\ batch \in Seq(RowsFrom(cur))
    BY <2>2, <2>3, BatchFacts
  <2>5. ASSUME NEW rb \in RingOf(c, Rows), ToArray(rb) \in Seq(RowsFrom(cur))
        PROVE  ToArray(Push(rb, batch)) \in Seq(RowsFrom(cur))
    <3>1. ToArray(Push(rb, batch)) = Window!Last(ToArray(rb) \o batch, c)
      BY <1>2, <2>4, PushFacts
    <3> QED
      BY <1>2, <2>4, <2>5, <3>1, LastOfJoined
  <2> QED
    BY <1>1, <2>2, <2>3, <2>5 DEF RowsAreOwn
<1>13. ASSUME NEW s \in Slots, Opened(s) \/ Error(s) \/ Reopen(s) PROVE RowsAreOwn'
  BY <1>5, <1>13 DEF Opened, Error, Reopen, store
<1>14. ASSUME ToggleAutoScroll \/ OnScroll \/ Frame \/ Flip \/ UNCHANGED vars PROVE RowsAreOwn'
  BY <1>5, <1>14 DEF ToggleAutoScroll, OnScroll, Frame, Flip, vars, store, stream
<1> QED
  BY <1>7, <1>8, <1>9, <1>10, <1>11, <1>12, <1>13, <1>14 DEF Next

\* A list that is behind the store is rendered again, and one that follows the
\* tail is at its end.
LEMMA ViewStep ==
  ASSUME FrameIsDue, AtTheEnd, [Next]_vars
  PROVE  FrameIsDue' /\ AtTheEnd'
<1> USE DEF FrameIsDue, AtTheEnd
<1>1. ASSUME rows' = rows, scheduled' = scheduled, view' = view, autoScroll' = autoScroll,
             atBottom' = atBottom, paused' = paused
      PROVE  FrameIsDue' /\ AtTheEnd'
  BY <1>1 DEF Follows
<1>2. ASSUME scheduled' = TRUE, view' = view, autoScroll' = autoScroll,
             atBottom' = atBottom, paused' = paused
      PROVE  FrameIsDue' /\ AtTheEnd'
  BY <1>2 DEF Follows
<1>3. ASSUME NEW ok \in BOOLEAN, Enter(ok) \/ SetSearch(ok) PROVE FrameIsDue' /\ AtTheEnd'
  <2>1. view' = view /\ autoScroll' = autoScroll /\ atBottom' = atBottom /\ paused' = paused
    BY <1>3 DEF Enter, SetSearch, page
  <2>2. CASE ok
    BY <1>2, <1>3, <2>1, <2>2 DEF Enter, SetSearch, ConnectTo
  <2>3. CASE ~ok
    BY <1>1, <1>3, <2>1, <2>3 DEF Enter, SetSearch, ConnectTo
  <2> QED
    BY <2>2, <2>3
<1>4. ASSUME Leave PROVE FrameIsDue' /\ AtTheEnd'
  <2>1. DefaultSize \in Nat \ {0}
    BY LiveTailAssumption
  <2>2. ToArray(NewRing(DefaultSize)) = <<>>
    BY <2>1, NewRingFacts
  <2>3. rows' = NewRing(DefaultSize) /\ view' = <<>>
    BY <1>4 DEF Leave
  <2> QED
    BY <2>2, <2>3 DEF Follows
<1>5. ASSUME TogglePause PROVE FrameIsDue' /\ AtTheEnd'
  BY <1>5 DEF TogglePause, Follows
<1>6. ASSUME ClearRows PROVE FrameIsDue' /\ AtTheEnd'
  BY <1>2, <1>6 DEF ClearRows, page
<1>7. ASSUME NEW n \in MaxRowOptions, SetMaxRows(n) PROVE FrameIsDue' /\ AtTheEnd'
  BY <1>2, <1>7 DEF SetMaxRows, page
<1>8. ASSUME ToggleAutoScroll PROVE FrameIsDue' /\ AtTheEnd'
  BY <1>8 DEF ToggleAutoScroll, Follows, store
<1>9. ASSUME OnScroll PROVE FrameIsDue' /\ AtTheEnd'
  BY <1>9 DEF OnScroll, Follows, store
<1>10. ASSUME Frame PROVE FrameIsDue' /\ AtTheEnd'
  BY <1>10 DEF Frame, Render, Follows, store
<1>11. ASSUME NEW s \in Slots, Opened(s) \/ Error(s) \/ Reopen(s) PROVE FrameIsDue' /\ AtTheEnd'
  BY <1>1, <1>11 DEF Opened, Error, Reopen, store, page
<1>12. ASSUME NEW s \in Slots, Logs(s) PROVE FrameIsDue' /\ AtTheEnd'
  BY <1>2, <1>12 DEF Logs, page
<1>13. ASSUME Flip \/ UNCHANGED vars PROVE FrameIsDue' /\ AtTheEnd'
  BY <1>1, <1>13 DEF Flip, vars, store, page
<1> QED
  BY <1>3, <1>4, <1>5, <1>6, <1>7, <1>8, <1>9, <1>10, <1>11, <1>12, <1>13 DEF Next

-----------------------------------------------------------------------------
(***************************************************************************)
(* The theorems.                                                           *)
(***************************************************************************)

PageInv == StreamInv /\ StoreOK /\ RowsAreOwn /\ FrameIsDue /\ AtTheEnd

\* The invariant holds of a page that was never opened.
LEMMA PageInitially == Init => PageInv
<1> SUFFICES ASSUME Init PROVE PageInv
  OBVIOUS
<1> USE DEF Init, PageInit
<1>1. DefaultSize \in Nat \ {0} /\ DefaultSize \in MaxRowOptions /\ 0 \in 0..MaxRow
  BY LiveTailAssumption
<1>2. /\ rows \in RingOf(DefaultSize, Rows) /\ pending \in RingOf(DefaultSize, Rows)
      /\ ToArray(rows) = <<>> /\ ToArray(pending) = <<>>
  BY <1>1, NewRingFacts
<1>3. <<>> \in Seq(Rows)
  OBVIOUS
<1>4. StreamInv
  BY <1>1 DEF StreamInv, ConnsShaped, OneStream, StatusTruthful, Slots, NoConn
<1>5. StoreOK
  BY <1>1, <1>2, <1>3 DEF StoreOK
<1>6. RowsAreOwn /\ FrameIsDue /\ AtTheEnd
  BY <1>2 DEF RowsAreOwn, FrameIsDue, AtTheEnd, Follows
<1> QED
  BY <1>4, <1>5, <1>6 DEF PageInv

\* No step breaks the invariant.
LEMMA PageStep == PageInv /\ [Next]_vars => PageInv'
<1> SUFFICES ASSUME PageInv, [Next]_vars PROVE PageInv'
  OBVIOUS
<1>1. ConnsShaped
  BY DEF PageInv, StreamInv
<1> QED
  BY <1>1, StreamStep, StoreStep, RowsStep, ViewStep DEF PageInv

\* The page is of one query and says so, for every size of the rings and any
\* order of deliveries, failures, reconnects and what the person does: its
\* stream is the only one, the rows are that query's, the indicator tells the
\* state of the stream, no frame is forgotten and a list that follows the tail
\* shows its end.
THEOREM PageTellsTheTruth == Spec => []PageIsTrue
<1>1. PageInv => PageIsTrue
  <2> SUFFICES ASSUME PageInv PROVE PageIsTrue
    OBVIOUS
  <2>1. OneStream /\ StatusTruthful /\ NoLostWakeup /\ FollowsNewest
    BY DEF PageInv, StreamInv, FrameIsDue, AtTheEnd, NoLostWakeup, FollowsNewest
  <2>2. ASSUME NEW s \in Seq(RowsFrom(cur)), NEW r \in ToSet(s) PROVE r.from = cur
    BY DEF ToSet, RowsFrom
  <2>3. NoForeignRows
    BY <2>2 DEF PageInv, RowsAreOwn, NoForeignRows
  <2> QED
    BY <2>1, <2>3 DEF PageIsTrue
<1> QED
  BY <1>1, PageInitially, PageStep, PTL DEF Spec

\* The two ring buffers of the page implement two windows on the newest rows,
\* whatever their capacity and whatever the order of pushes, pauses, resumes,
\* clears and resizes: the refinement mapping is `toArray'.
THEOREM RingsAreWindows == Spec => KeepsTheNewest
<1>1. Init => Window!Init
  <2> SUFFICES ASSUME Init PROVE Window!Init
    OBVIOUS
  <2>1. DefaultSize \in Nat \ {0} /\ DefaultSize \in MaxRowOptions
    BY LiveTailAssumption
  <2>2. /\ NewRing(DefaultSize) \in RingOf(DefaultSize, Rows)
        /\ ToArray(NewRing(DefaultSize)) = <<>>
    BY <2>1, NewRingFacts
  <2>3. Capacity(NewRing(DefaultSize)) = DefaultSize
    BY <2>1, <2>2, CapacityIs
  <2> QED
    BY <2>1, <2>2, <2>3 DEF Init, PageInit, Window!Init
<1>2. PageInv /\ [Next]_vars => [Window!Next]_(Window!window)
  BY StoreStep DEF PageInv, StreamInv
<1> QED
  BY <1>1, <1>2, PageInitially, PageStep, PTL DEF Spec, KeepsTheNewest, Window!Spec
=============================================================================
