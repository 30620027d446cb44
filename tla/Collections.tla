----------------------------- MODULE Collections ----------------------------
(***************************************************************************)
(* Facts about sequences without repetitions and about sums.  The folds of *)
(* the community modules are given by a recursive function on sets; here   *)
(* it is shown that they add up: that an element more or less changes a    *)
(* sum by its weight.  Induction is over a set of numbers or of subsets,   *)
(* as no prover here takes an operator for a hypothesis.                   *)
(***************************************************************************)
EXTENDS Integers, Sequences, FiniteSets, FiniteSetsExt, SequencesExt, FiniteSetTheorems,
        SequenceTheorems, TLAPS

Distinct(s) == \A i, j \in 1..Len(s) : s[i] = s[j] => i = j

\* The elements of a sequence after an append, and without its head.
LEMMA ToSetAppend ==
  ASSUME NEW S, NEW s \in Seq(S), NEW e
  PROVE  ToSet(Append(s, e)) = ToSet(s) \cup {e}
<1>1. /\ DOMAIN s = 1..Len(s) /\ Len(s) \in Nat
      /\ DOMAIN Append(s, e) = 1..(Len(s) + 1)
      /\ \A i \in 1..Len(s) : Append(s, e)[i] = s[i]
      /\ Append(s, e)[Len(s) + 1] = e
  <2>1. s \in Seq(S \cup {e})
    OBVIOUS
  <2> QED
    BY <2>1, AppendProperties
<1>2. \A i \in 1..(Len(s) + 1) : i \in 1..Len(s) \/ i = Len(s) + 1
  BY <1>1
<1>3. \A i \in 1..Len(s) : i \in 1..(Len(s) + 1)
  BY <1>1
<1>4. Len(s) + 1 \in 1..(Len(s) + 1)
  BY <1>1
<1> HIDE <1>1
<1> QED
  BY <1>1, <1>2, <1>3, <1>4 DEF ToSet

\* The elements of a sequence without repetitions, its head taken off.
LEMMA ToSetTail ==
  ASSUME NEW S, NEW s \in Seq(S), s # <<>>
  PROVE  /\ ToSet(s) = {Head(s)} \cup ToSet(Tail(s))
         /\ Distinct(s) => Head(s) \notin ToSet(Tail(s)) /\ Distinct(Tail(s))
<1>1. /\ DOMAIN s = 1..Len(s) /\ Len(s) \in Nat /\ Len(s) > 0
      /\ DOMAIN Tail(s) = 1..(Len(s) - 1) /\ Len(Tail(s)) = Len(s) - 1
      /\ \A i \in 1..(Len(s) - 1) : Tail(s)[i] = s[i + 1]
      /\ Head(s) = s[1]
  BY HeadTailProperties
<1>2. \A i \in 1..Len(s) : i = 1 \/ (i - 1 \in 1..(Len(s) - 1) /\ (i - 1) + 1 = i)
  BY <1>1
<1>3. \A i \in 1..(Len(s) - 1) : i + 1 \in 1..Len(s) /\ i + 1 # 1
  BY <1>1
<1>4. 1 \in 1..Len(s)
  BY <1>1
<1>5. \A i, j \in 1..(Len(s) - 1) : i + 1 = j + 1 => i = j
  BY <1>1
<1>6. ToSet(s) = {Head(s)} \cup ToSet(Tail(s))
  <2>1. ASSUME NEW x \in ToSet(s) PROVE x \in {Head(s)} \cup ToSet(Tail(s))
    <3>1. PICK i \in 1..Len(s) : x = s[i]
      BY <1>1 DEF ToSet
    <3>2. CASE i = 1
      BY <1>1, <3>1, <3>2
    <3>3. CASE i # 1
      <4>1. i - 1 \in DOMAIN Tail(s) /\ x = Tail(s)[i - 1]
        BY <1>1, <1>2, <3>1, <3>3
      <4> QED
        BY <4>1 DEF ToSet
    <3> QED
      BY <3>2, <3>3
  <2>2. ASSUME NEW x \in ToSet(Tail(s)) PROVE x \in ToSet(s)
    BY <1>1, <1>3 DEF ToSet
  <2>3. Head(s) \in ToSet(s)
    BY <1>1, <1>4 DEF ToSet
  <2> QED
    BY <2>1, <2>2, <2>3
<1>7. ASSUME Distinct(s) PROVE Head(s) \notin ToSet(Tail(s)) /\ Distinct(Tail(s))
  BY <1>1, <1>3, <1>4, <1>5, <1>7 DEF ToSet, Distinct
<1> QED
  BY <1>6, <1>7

\* Appending a new element repeats nothing.
LEMMA DistinctAppend ==
  ASSUME NEW S, NEW s \in Seq(S), NEW e, e \notin ToSet(s), Distinct(s)
  PROVE  Distinct(Append(s, e))
<1>1. /\ DOMAIN s = 1..Len(s) /\ Len(s) \in Nat
      /\ Len(Append(s, e)) = Len(s) + 1
      /\ \A i \in 1..Len(s) : Append(s, e)[i] = s[i]
      /\ Append(s, e)[Len(s) + 1] = e
  <2>1. s \in Seq(S \cup {e})
    OBVIOUS
  <2> QED
    BY <2>1, AppendProperties
<1>2. \A i \in 1..(Len(s) + 1) : i \in 1..Len(s) \/ i = Len(s) + 1
  BY <1>1
<1>3. \A i \in 1..Len(s) : s[i] # e
  BY <1>1 DEF ToSet
<1> QED
  BY <1>1, <1>2, <1>3 DEF Distinct

-----------------------------------------------------------------------------
\* f adds up w over the subsets of D in the way the folds of the community
\* modules do: one element after the other, in an arbitrary order.
Sums(f, w, D) ==
    f = [s \in SUBSET D |->
            IF s = {} THEN 0
            ELSE w[CHOOSE x \in s : TRUE] + f[s \ {CHOOSE x \in s : TRUE}]]

\* A set that has 0 and, with n, n + 1 has every natural number: induction with the
\* induction hypothesis as a set instead of an operator.
LEMMA NatSetInduction ==
  ASSUME NEW S, 0 \in S, \A n \in Nat : n \in S => n + 1 \in S
  PROVE Nat \subseteq S
<1> DEFINE T == Nat \ S
           R == OpToRel(<, Nat)
<1>1. SUFFICES ASSUME T # {} PROVE FALSE
  OBVIOUS
<1>2. IsWellFoundedOn(R, Nat)
  BY NatLessThanWellFounded
<1>3. \E x \in T : \A y \in T : ~(<<y, x>> \in R)
  <2> HIDE DEF R
  <2> QED BY <1>1, <1>2, WFMin
<1>4. PICK x \in T : \A y \in T : ~(<<y, x>> \in R)
  BY <1>3
<1>5. x # 0 /\ x \in Nat
  OBVIOUS
<1>6. x - 1 \in Nat /\ x - 1 < x
  BY <1>5
<1>7. x - 1 \in T
  BY <1>5, <1>6
<1>8. <<x - 1, x>> \in R
  BY <1>5, <1>6 DEF OpToRel
<1> QED
  BY <1>4, <1>7, <1>8

\* f[i] is the value of T that a loop has after i of its n rounds.
Rounds(f, T, a, n, st) ==
    /\ f \in [0..n -> T]
    /\ f[0] = a
    /\ \A i \in 1..n : f[i] = st[<<f[i - 1], i>>]

\* A loop that runs over 1..n and changes a value of T in every round has a
\* value after every round: what a recursive function over 0..n denotes.
LEMMA LoopExists ==
  ASSUME NEW T, NEW a \in T, NEW n \in Nat, NEW st \in [T \X (1..n) -> T]
  PROVE  \E f : Rounds(f, T, a, n, st)
<1> DEFINE Good(f, k) == f[0] = a /\ \A i \in 1..k : f[i] = st[<<f[i - 1], i>>]
           S == {k \in Nat : k <= n => \E f \in [0..k -> T] : Good(f, k)}
<1>1. 0 \in S
  <2>1. [i \in 0..0 |-> a] \in [0..0 -> T] /\ Good([i \in 0..0 |-> a], 0)
    OBVIOUS
  <2> QED BY <2>1
<1>2. ASSUME NEW k \in Nat, k \in S PROVE k + 1 \in S
  <2> SUFFICES ASSUME k + 1 <= n PROVE \E f \in [0..(k + 1) -> T] : Good(f, k + 1)
    OBVIOUS
  <2>1. PICK f \in [0..k -> T] : Good(f, k)
    <3>1. k <= n
      OBVIOUS
    <3> QED BY <1>2, <3>1
  <2>2. k \in 0..k /\ k + 1 \in 1..n /\ (k + 1) - 1 = k /\ 0 \in 0..k
    OBVIOUS
  <2>3. f[k] \in T /\ <<f[k], k + 1>> \in T \X (1..n)
    BY <2>2
  <2> DEFINE v == st[<<f[k], k + 1>>]
             g == [i \in 0..(k + 1) |-> IF i = k + 1 THEN v ELSE f[i]]
  <2>4. v \in T
    BY <2>3
  <2> HIDE DEF v
  <2>5. g \in [0..(k + 1) -> T]
    BY <2>4
  <2>6. \A i \in 0..k : g[i] = f[i]
    OBVIOUS
  <2>7. g[k + 1] = v
    OBVIOUS
  <2> HIDE DEF g
  <2>8. \A i \in 1..(k + 1) : g[i] = st[<<g[i - 1], i>>]
    <3> SUFFICES ASSUME NEW i \in 1..(k + 1) PROVE g[i] = st[<<g[i - 1], i>>]
      OBVIOUS
    <3>1. CASE i = k + 1
      BY <2>2, <2>6, <2>7, <3>1 DEF v
    <3>2. CASE i # k + 1
      <4>1. i \in 1..k /\ i \in 0..k /\ i - 1 \in 0..k
        BY <3>2
      <4> QED BY <2>1, <2>6, <4>1
    <3> QED BY <3>1, <3>2
  <2>9. Good(g, k + 1)
    BY <2>1, <2>2, <2>6, <2>8
  <2> HIDE DEF Good
  <2> QED BY <2>5, <2>9
<1>3. Nat \subseteq S
  <2> HIDE DEF S
  <2> QED BY <1>1, <1>2, NatSetInduction
<1>4. PICK f \in [0..n -> T] : Good(f, n)
  BY <1>3
<1> QED
  BY <1>4 DEF Rounds

\* The empty set and every set that is one element larger than a member:
\* these are all subsets of a finite set.
LEMMA SubsetInduction ==
  ASSUME NEW D, IsFiniteSet(D), NEW P, {} \in P,
         \A s \in SUBSET D : \A x \in s : s \ {x} \in P => s \in P
  PROVE  SUBSET D \subseteq P
<1> DEFINE S == {n \in Nat : \A s \in SUBSET D : Cardinality(s) = n => s \in P}
<1>1. 0 \in S
  BY FS_EmptySet, FS_Subset
<1>2. ASSUME NEW n \in Nat, n \in S PROVE n + 1 \in S
  <2>1. SUFFICES ASSUME NEW s \in SUBSET D, Cardinality(s) = n + 1 PROVE s \in P
    OBVIOUS
  <2>2. IsFiniteSet(s) /\ s # {}
    BY <2>1, FS_Subset, FS_EmptySet
  <2>3. PICK x \in s : TRUE
    BY <2>2
  <2>4. Cardinality(s \ {x}) = n
    <3> HIDE DEF S
    <3>1. Cardinality(s \ {x}) = Cardinality(s) - 1
      BY <2>2, <2>3, FS_RemoveElement
    <3> QED
      BY <2>1, <3>1
  <2> QED
    BY <1>2, <2>4
<1>3. Nat \subseteq S
  <2> HIDE DEF S
  <2> QED BY <1>1, <1>2, NatSetInduction
<1>4. ASSUME NEW s \in SUBSET D PROVE s \in P
  <2>1. Cardinality(s) \in Nat
    BY FS_Subset, FS_CardinalityType
  <2> QED
    BY <1>3, <2>1
<1> QED
  BY <1>4

\* There is a function that sums over the subsets of a finite set: what the recursive
\* function in MapThenFoldSet denotes.
LEMMA SumExists ==
  ASSUME NEW D, IsFiniteSet(D), NEW w \in [D -> Int]
  PROVE  \E f : Sums(f, w, D)
<1> DEFINE Upto(n) == {s \in SUBSET D : Cardinality(s) <= n}
           c(s) == CHOOSE x \in s : TRUE
           Good(f, n) == \A s \in Upto(n) :
               f[s] = IF s = {} THEN 0 ELSE w[c(s)] + f[s \ {c(s)}]
           S == {n \in Nat : \E f : Good(f, n)}
<1>0. \A s \in SUBSET D : s # {} => c(s) \in s
  OBVIOUS
<1>c. \A s \in SUBSET D : IsFiniteSet(s) /\ Cardinality(s) \in Nat
  BY FS_Subset, FS_CardinalityType
<1>a. \A n \in Nat : \A s \in Upto(n + 1) : s # {} => s \ {c(s)} \in Upto(n)
  <2> SUFFICES ASSUME NEW n \in Nat, NEW s \in Upto(n + 1), s # {}
               PROVE  s \ {c(s)} \in Upto(n)
    OBVIOUS
  <2>1. c(s) \in s
    BY <1>0
  <2> HIDE DEF c
  <2>2. IsFiniteSet(s) /\ Cardinality(s) \in Nat /\ Cardinality(s) <= n + 1
    BY <1>c
  <2>3. Cardinality(s \ {c(s)}) = Cardinality(s) - 1
    BY <2>1, <2>2, FS_RemoveElement
  <2> QED
    BY <2>2, <2>3
<1>1. 0 \in S
  <2> DEFINE f == [s \in SUBSET D |-> 0]
  <2>1. \A s \in Upto(0) : s = {}
    BY <1>c, FS_EmptySet
  <2>2. Good(f, 0)
    <3> HIDE DEF Upto
    <3> QED BY <2>1 DEF Upto
  <2> QED
    BY <2>2
<1>2. ASSUME NEW n \in Nat, n \in S PROVE n + 1 \in S
  <2>1. PICK f : Good(f, n)
    BY <1>2
  <2> DEFINE g == [s \in Upto(n + 1) |-> IF s = {} THEN 0 ELSE w[c(s)] + f[s \ {c(s)}]]
  <2>2. Upto(n) \subseteq Upto(n + 1)
    BY <1>c
  <2> HIDE DEF c, Upto
  <2>3. \A s \in Upto(n) : g[s] = f[s]
    BY <2>1, <2>2
  <2>4. \A s \in Upto(n + 1) : s # {} => g[s \ {c(s)}] = f[s \ {c(s)}]
    BY <1>a, <2>3
  <2>5. Good(g, n + 1)
    BY <2>4
  <2>6. \E h : Good(h, n + 1)
    <3> HIDE DEF g, Good
    <3> QED BY <2>5
  <2> HIDE DEF Good
  <2> QED
    BY <2>6
<1>3. Nat \subseteq S
  <2> HIDE DEF S
  <2> QED BY <1>1, <1>2, NatSetInduction
<1>4. PICK f : Good(f, Cardinality(D))
  BY <1>3, FS_CardinalityType
<1>5. SUBSET D = Upto(Cardinality(D))
  BY <1>c, FS_Subset
<1> DEFINE g == [s \in SUBSET D |-> f[s]]
<1>6. \A s \in SUBSET D : g[s] = IF s = {} THEN 0 ELSE w[c(s)] + g[s \ {c(s)}]
  <2> HIDE DEF c, Upto
  <2> QED BY <1>4, <1>5
<1>7. Sums(g, w, D)
  <2>1. g = [s \in SUBSET D |-> g[s]]
    OBVIOUS
  <2> HIDE DEF g
  <2> QED BY <1>6, <2>1 DEF Sums
<1> QED
  BY <1>7

\* f adds up w over the subsets of D, whichever element is taken off first.
Additive(f, w, D) ==
    /\ f \in [SUBSET D -> Int]
    /\ f[{}] = 0
    /\ \A s \in SUBSET D : \A x \in s : f[s] = w[x] + f[s \ {x}]

\* What a sum is worth does not depend on the order.
LEMMA SumRemove ==
  ASSUME NEW D, IsFiniteSet(D), NEW w \in [D -> Int], NEW f, Sums(f, w, D)
  PROVE  Additive(f, w, D)
<1> DEFINE c(s) == CHOOSE x \in s : TRUE
           P == {s \in SUBSET D : /\ f[s] \in Int
                                  /\ \A x \in s : f[s] = w[x] + f[s \ {x}]}
<1>0. \A s \in SUBSET D : s # {} => c(s) \in s
  OBVIOUS
<1>1. \A s \in SUBSET D : f[s] = IF s = {} THEN 0 ELSE w[c(s)] + f[s \ {c(s)}]
  BY DEF Sums
<1>2. f = [s \in SUBSET D |-> f[s]]
  BY DEF Sums
<1> HIDE DEF c
<1>3. {} \in P
  <2>1. f[{}] = 0
    BY <1>1
  <2> QED
    BY <2>1
<1>4. ASSUME NEW s \in SUBSET D, \A u \in SUBSET D : u \subseteq s /\ u # s => u \in P
      PROVE s \in P
  <2>1. CASE s = {}
    BY <2>1, <1>3
  <2>2. CASE s # {}
    <3> DEFINE y == c(s)
    <3>1. y \in s /\ y \in D
      BY <1>0, <2>2
    <3>2. s \ {y} \in P
      BY <1>4, <3>1
    <3>3. f[s] = w[y] + f[s \ {y}]
      BY <1>1, <2>2
    <3> HIDE DEF y
    <3>4. f[s] \in Int
      BY <3>1, <3>2, <3>3
    <3>5. ASSUME NEW x \in s PROVE f[s] = w[x] + f[s \ {x}]
      <4>1. CASE x = y
        BY <4>1, <3>3
      <4>2. CASE x # y
        <5>1. s \ {x} \in P
          BY <1>4
        <5>2. x \in s \ {y} /\ y \in s \ {x} /\ (s \ {x}) \ {y} = (s \ {y}) \ {x}
          BY <4>2, <3>1
        <5>3. f[s \ {y}] = w[x] + f[(s \ {y}) \ {x}]
          BY <3>2, <5>2
        <5>4. f[s \ {x}] = w[y] + f[(s \ {x}) \ {y}]
          BY <5>1, <5>2
        <5>5. (s \ {y}) \ {x} \in P
          BY <1>4, <3>1
        <5>6. w[x] \in Int /\ w[y] \in Int /\ f[(s \ {y}) \ {x}] \in Int
          BY <3>1, <5>5
        <5> DEFINE a == f[(s \ {y}) \ {x}]
        <5>7. f[s] = w[y] + (w[x] + a) /\ f[s \ {x}] = w[y] + a
          BY <3>3, <5>2, <5>3, <5>4
        <5> HIDE DEF a, P
        <5> QED
          BY <5>6, <5>7 DEF a
      <4> QED
        BY <4>1, <4>2
    <3> QED
      BY <3>4, <3>5
  <2> QED
    BY <2>1, <2>2
<1>5. SUBSET D \subseteq P
  <2> DEFINE T == (SUBSET D) \ P
             R == StrictSubsetOrdering(D)
  <2>1. IsWellFoundedOn(R, SUBSET D)
    BY FS_StrictSubsetOrderingWellFounded, FS_FiniteSubsetsOfFinite
  <2>2. SUFFICES ASSUME T # {} PROVE FALSE
    OBVIOUS
  <2>3. PICK s \in T : \A u \in T : ~(<<u, s>> \in R)
    <3> HIDE DEF R, T, P
    <3> QED BY <2>1, <2>2, WFMin DEF T
  <2>4. \A u \in SUBSET D : u \subseteq s /\ u # s => u \in P
    <3> HIDE DEF P
    <3> QED BY <2>3 DEF StrictSubsetOrdering
  <2> HIDE DEF P
  <2> QED
    BY <1>4, <2>4
<1>6. \A s \in SUBSET D : f[s] \in Int /\ \A x \in s : f[s] = w[x] + f[s \ {x}]
  BY <1>5
<1> QED
  BY <1>1, <1>2, <1>6 DEF Additive

\* Sums over two sets agree on their common subsets.
LEMMA SumAgrees ==
  ASSUME NEW D, IsFiniteSet(D), NEW E \in SUBSET D,
         NEW v \in [D -> Int], NEW w \in [E -> Int], \A x \in E : v[x] = w[x],
         NEW f, Sums(f, v, D), NEW g, Sums(g, w, E)
  PROVE  g[E] = f[E]
<1>0. IsFiniteSet(E)
  BY FS_Subset
<1>a. Additive(f, v, D)
  BY SumRemove
<1>b. Additive(g, w, E)
  BY <1>0, SumRemove
<1> DEFINE P == {s \in SUBSET E : g[s] = f[s]}
<1>1. {} \in P
  BY <1>a, <1>b DEF Additive
<1>2. ASSUME NEW s \in SUBSET E, NEW x \in s, s \ {x} \in P PROVE s \in P
  <2>1. g[s] = w[x] + g[s \ {x}]
    BY <1>b DEF Additive
  <2>2. f[s] = v[x] + f[s \ {x}]
    BY <1>a DEF Additive
  <2> QED
    BY <1>2, <2>1, <2>2
<1>3. SUBSET E \subseteq P
  <2> HIDE DEF P
  <2> QED BY <1>0, <1>1, <1>2, SubsetInduction
<1> QED
  BY <1>3

SumOf(w, D) == MapThenSumSet(LAMBDA x : w[x], D)

\* MapThenSumSet is such a sum.
LEMMA SumOfIsSum ==
  ASSUME NEW D, IsFiniteSet(D), NEW w, \A x \in D : w[x] \in Int
  PROVE  \E f : Sums(f, [x \in D |-> w[x]], D) /\ SumOf(w, D) = f[D]
<1> DEFINE h == CHOOSE f : f = [s \in SUBSET D |->
            IF s = {} THEN 0
            ELSE w[CHOOSE x \in s : TRUE] + f[s \ {CHOOSE x \in s : TRUE}]]
           u == [x \in D |-> w[x]]
<1>1. PICK f : Sums(f, u, D)
  BY SumExists
<1>2. f = [s \in SUBSET D |->
            IF s = {} THEN 0
            ELSE w[CHOOSE x \in s : TRUE] + f[s \ {CHOOSE x \in s : TRUE}]]
  BY <1>1 DEF Sums
<1>3. h = [s \in SUBSET D |->
            IF s = {} THEN 0
            ELSE w[CHOOSE x \in s : TRUE] + h[s \ {CHOOSE x \in s : TRUE}]]
  BY <1>2
<1>4. SumOf(w, D) = h[D]
  BY DEF SumOf, MapThenSumSet, MapThenFoldSet
<1>5. Sums(h, u, D)
  <2> HIDE DEF h
  <2> QED BY <1>3 DEF Sums
<1> QED
  BY <1>4, <1>5


\* The sum of integers is an integer.
LEMMA SumOfType ==
  ASSUME NEW D, IsFiniteSet(D), NEW w, \A x \in D : w[x] \in Int
  PROVE  SumOf(w, D) \in Int
<1> DEFINE u == [x \in D |-> w[x]]
<1>1. PICK f : Sums(f, u, D) /\ SumOf(w, D) = f[D]
  BY SumOfIsSum
<1>2. u \in [D -> Int]
  OBVIOUS
<1> HIDE DEF u
<1>3. Additive(f, u, D)
  BY <1>1, <1>2, SumRemove
<1> QED
  BY <1>1, <1>3 DEF Additive

\* The sum over no element is 0.
LEMMA SumOfEmpty ==
  ASSUME NEW w
  PROVE  SumOf(w, {}) = 0
<1> DEFINE u == [x \in {} |-> w[x]]
<1>0. IsFiniteSet({})
  BY FS_EmptySet
<1>1. PICK f : Sums(f, u, {}) /\ SumOf(w, {}) = f[{}]
  BY <1>0, SumOfIsSum
<1>2. u \in [{} -> Int]
  OBVIOUS
<1> HIDE DEF u
<1>3. Additive(f, u, {})
  BY <1>0, <1>1, <1>2, SumRemove
<1> QED
  BY <1>1, <1>3 DEF Additive

\* One more element adds its weight.
LEMMA SumOfAdd ==
  ASSUME NEW D, IsFiniteSet(D), NEW e, e \notin D,
         NEW w, \A x \in D \cup {e} : w[x] \in Int
  PROVE  SumOf(w, D \cup {e}) = SumOf(w, D) + w[e]
<1> DEFINE E == D \cup {e}
           u == [x \in E |-> w[x]]
           v == [x \in D |-> w[x]]
<1>0. IsFiniteSet(E)
  BY FS_AddElement
<1>1. PICK f : Sums(f, u, E) /\ SumOf(w, E) = f[E]
  BY <1>0, SumOfIsSum
<1>2. PICK g : Sums(g, v, D) /\ SumOf(w, D) = g[D]
  BY SumOfIsSum
<1>3. u \in [E -> Int] /\ v \in [D -> Int] /\ u[e] = w[e] /\ (\A x \in D : u[x] = v[x])
  OBVIOUS
<1>4. D \in SUBSET E /\ e \in E /\ E \in SUBSET E /\ E \ {e} = D
  OBVIOUS
<1> HIDE DEF u, v, E
<1>5. g[D] = f[D]
  BY <1>0, <1>1, <1>2, <1>3, <1>4, SumAgrees
<1>6. Additive(f, u, E)
  BY <1>0, <1>1, <1>3, SumRemove
<1>7. f[E] = u[e] + f[D] /\ f[D] \in Int
  BY <1>4, <1>6 DEF Additive
<1>8. u[e] \in Int
  BY <1>3, <1>4
<1>9. SumOf(w, E) = w[e] + SumOf(w, D) /\ SumOf(w, D) \in Int /\ w[e] \in Int
  BY <1>1, <1>2, <1>3, <1>5, <1>7, <1>8
<1>10. SumOf(w, E) = SumOf(w, D) + w[e]
  <2> DEFINE a == SumOf(w, D)
             b == SumOf(w, E)
             c == w[e]
  <2> HIDE DEF a, b, c
  <2> QED BY <1>9 DEF a, b, c
<1> QED
  BY <1>10 DEF E

\* One element less takes its weight away.
LEMMA SumOfRemove ==
  ASSUME NEW D, IsFiniteSet(D), NEW e \in D, NEW w, \A x \in D : w[x] \in Int
  PROVE  SumOf(w, D \ {e}) = SumOf(w, D) - w[e]
<1> DEFINE E == D \ {e}
<1>1. IsFiniteSet(E) /\ e \notin E /\ E \cup {e} = D
  BY FS_RemoveElement
<1>2. \A x \in E : w[x] \in Int
  OBVIOUS
<1> HIDE DEF E
<1>3. SumOf(w, E \cup {e}) = SumOf(w, E) + w[e]
  BY <1>1, <1>2, SumOfAdd
<1>4. SumOf(w, E) \in Int /\ w[e] \in Int
  BY <1>1, <1>2, SumOfType
<1>5. SumOf(w, D) = SumOf(w, E) + w[e]
  BY <1>1, <1>3
<1>6. SumOf(w, E) = SumOf(w, D) - w[e]
  BY <1>4, <1>5
<1> QED
  BY <1>6 DEF E

\* Equal weights have equal sums.
LEMMA SumOfSame ==
  ASSUME NEW D, IsFiniteSet(D), NEW v, NEW w,
         \A x \in D : v[x] \in Int /\ v[x] = w[x]
  PROVE  SumOf(v, D) = SumOf(w, D)
<1> DEFINE u == [x \in D |-> w[x]]
           t == [x \in D |-> v[x]]
<1>1. PICK f : Sums(f, u, D) /\ SumOf(w, D) = f[D]
  BY SumOfIsSum
<1>2. PICK g : Sums(g, t, D) /\ SumOf(v, D) = g[D]
  BY SumOfIsSum
<1>3. u \in [D -> Int] /\ u = t
  OBVIOUS
<1>4. D \in SUBSET D
  OBVIOUS
<1> HIDE DEF u, t
<1> QED
  BY <1>1, <1>2, <1>3, <1>4, SumAgrees

\* The sum after the weight of one element has changed, or it was added.
LEMMA SumOfUpdate ==
  ASSUME NEW D, IsFiniteSet(D), NEW e, NEW v, NEW w,
         v[e] \in Int, w[e] \in Int, e \notin D => w[e] = 0,
         \A x \in D : x # e => w[x] \in Int /\ v[x] = w[x]
  PROVE  SumOf(v, D \cup {e}) = SumOf(w, D) + v[e] - w[e]
<1> DEFINE E == D \ {e}
<1>1. /\ IsFiniteSet(E) /\ e \notin E /\ E \cup {e} = D \cup {e}
      /\ \A x \in E : v[x] \in Int /\ v[x] = w[x]
      /\ \A x \in D : w[x] \in Int
  BY FS_RemoveElement
<1>2. e \in D => E \cup {e} = D
  OBVIOUS
<1>3. e \notin D => E = D
  OBVIOUS
<1> HIDE DEF E
<1>4. SumOf(v, E) = SumOf(w, E)
  BY <1>1, SumOfSame
<1>5. SumOf(v, E) \in Int
  BY <1>1, SumOfType
<1>6. SumOf(v, E \cup {e}) = SumOf(v, E) + v[e]
  BY <1>1, SumOfAdd
<1>7. \A x \in E \cup {e} : w[x] \in Int
  BY <1>1
<1>8. SumOf(w, E \cup {e}) = SumOf(w, E) + w[e]
  BY <1>1, <1>7, SumOfAdd
<1>9. SumOf(w, D) = SumOf(v, E) + w[e]
  <2>1. CASE e \in D
    BY <1>2, <1>4, <1>8, <2>1
  <2>2. CASE e \notin D
    BY <1>3, <1>4, <1>5, <2>2
  <2> QED
    BY <2>1, <2>2
<1>10. SumOf(v, D \cup {e}) = SumOf(v, E) + v[e]
  BY <1>1, <1>6
<1> DEFINE a == SumOf(v, D \cup {e})
           b == SumOf(w, D)
           c == SumOf(v, E)
<1>11. a = c + v[e] /\ b = c + w[e] /\ c \in Int
  BY <1>5, <1>9, <1>10
<1> HIDE DEF a, b, c
<1>12. a = b + v[e] - w[e]
  BY <1>11
<1> QED
  BY <1>12 DEF a, b

\* A sum of naturals is a natural number, and positive when one of them is.
LEMMA SumOfNat ==
  ASSUME NEW D, IsFiniteSet(D), NEW w, \A x \in D : w[x] \in Nat
  PROVE  /\ SumOf(w, D) \in Nat
         /\ \A x \in D : SumOf(w, D) >= w[x]
<1> DEFINE P == {s \in SUBSET D : SumOf(w, s) \in Nat}
<1>1. {} \in P
  BY SumOfEmpty
<1>2. ASSUME NEW s \in SUBSET D, NEW x \in s, s \ {x} \in P PROVE s \in P
  <2>1. IsFiniteSet(s) /\ \A y \in s : w[y] \in Int
    BY FS_Subset
  <2>2. SumOf(w, s \ {x}) = SumOf(w, s) - w[x]
    BY <2>1, SumOfRemove
  <2>3. SumOf(w, s) \in Int
    BY <2>1, SumOfType
  <2>4. SumOf(w, s \ {x}) \in Nat /\ w[x] \in Nat
    BY <1>2
  <2>5. SumOf(w, s) \in Nat
    <3> HIDE DEF P
    <3> QED BY <2>2, <2>3, <2>4
  <2> QED
    BY <2>5
<1>3. SUBSET D \subseteq P
  <2> HIDE DEF P
  <2> QED BY <1>1, <1>2, SubsetInduction
<1>4. SumOf(w, D) \in Nat
  BY <1>3
<1>5. ASSUME NEW x \in D PROVE SumOf(w, D) >= w[x]
  <2>1. SumOf(w, D \ {x}) \in Nat
    BY <1>3
  <2>2. \A y \in D : w[y] \in Int
    OBVIOUS
  <2> HIDE DEF P
  <2>3. SumOf(w, D \ {x}) = SumOf(w, D) - w[x]
    BY <2>2, SumOfRemove
  <2>4. w[x] \in Nat
    OBVIOUS
  <2> QED
    BY <1>4, <2>1, <2>3, <2>4
<1> QED
  BY <1>4, <1>5

-----------------------------------------------------------------------------
(***************************************************************************)
(* Sums along a sequence.                                                  *)
(***************************************************************************)
SeqSum(w, s) == FoldSeq(LAMBDA x, sum : w[x] + sum, 0, s)

\* FoldSeq adds up the weights at the positions of a sequence.
LEMMA SeqSumIsSum ==
  ASSUME NEW S, NEW s \in Seq(S), NEW w, \A x \in S : w[x] \in Int
  PROVE  /\ SeqSum(w, s) = SumOf([i \in 1..Len(s) |-> w[s[i]]], 1..Len(s))
         /\ IsFiniteSet(1..Len(s)) /\ \A i \in 1..Len(s) : w[s[i]] \in Int
<1> DEFINE D == 1..Len(s)
           u == [i \in D |-> w[s[i]]]
           h == CHOOSE f : f = [t \in SUBSET D |->
            IF t = {} THEN 0
            ELSE w[s[CHOOSE x \in t : TRUE]] + f[t \ {CHOOSE x \in t : TRUE}]]
<1>0. IsFiniteSet(D) /\ u \in [D -> Int] /\ D = DOMAIN s
  <2>1. Len(s) \in Int /\ 1 \in Int
    OBVIOUS
  <2>2. IsFiniteSet(D)
    BY <2>1, FS_Interval
  <2>3. D = DOMAIN s /\ \A i \in D : s[i] \in S
    OBVIOUS
  <2> QED
    BY <2>2, <2>3
<1>t. \A x \in D : w[s[x]] \in Int
  OBVIOUS
<1>1. PICK f : Sums(f, u, D)
  BY <1>0, SumExists
<1>2. f = [t \in SUBSET D |->
            IF t = {} THEN 0
            ELSE w[s[CHOOSE x \in t : TRUE]] + f[t \ {CHOOSE x \in t : TRUE}]]
  <2> HIDE DEF D
  <2> QED BY <1>1 DEF Sums
<1>3. h = [t \in SUBSET D |->
            IF t = {} THEN 0
            ELSE w[s[CHOOSE x \in t : TRUE]] + h[t \ {CHOOSE x \in t : TRUE}]]
  <2> HIDE DEF D
  <2> QED BY <1>2
<1>4. SeqSum(w, s) = h[D]
  <2> HIDE DEF D
  <2> QED BY <1>0 DEF SeqSum, FoldSeq, FoldFunction, FoldFunctionOnSet, MapThenFoldSet
<1>5. Sums(h, u, D)
  <2> HIDE DEF h, D
  <2> QED BY <1>3 DEF Sums
<1>6. SumOf(u, D) = h[D]
  <2>1. u = [x \in D |-> u[x]]
    OBVIOUS
  <2> HIDE DEF u, D, h
  <2>2. \A x \in D : u[x] \in Int
    BY <1>0
  <2>3. PICK g : Sums(g, u, D) /\ SumOf(u, D) = g[D]
    BY <1>0, <2>1, <2>2, SumOfIsSum
  <2>4. D \in SUBSET D
    OBVIOUS
  <2> QED
    BY <1>0, <1>5, <2>3, <2>4, SumAgrees
<1> QED
  BY <1>0, <1>4, <1>6, <1>t

\* The sum along no element is 0.
LEMMA SeqSumEmpty ==
  ASSUME NEW w
  PROVE  SeqSum(w, <<>>) = 0
<1>1. <<>> \in Seq({}) /\ Len(<<>>) = 0 /\ 1..0 = {}
  OBVIOUS
<1>2. SeqSum(w, <<>>) = SumOf([i \in 1..Len(<<>>) |-> w[<<>>[i]]], 1..Len(<<>>))
  BY <1>1, SeqSumIsSum
<1> QED
  BY <1>1, <1>2, SumOfEmpty

\* The sum along a sequence of integers is an integer, of naturals a natural.
LEMMA SeqSumType ==
  ASSUME NEW S, NEW s \in Seq(S), NEW w
  PROVE  /\ (\A x \in S : w[x] \in Int) => SeqSum(w, s) \in Int
         /\ (\A x \in S : w[x] \in Nat) => SeqSum(w, s) \in Nat
<1> DEFINE D == 1..Len(s)
           u == [i \in D |-> w[s[i]]]
<1>1. ASSUME \A x \in S : w[x] \in Int PROVE SeqSum(w, s) \in Int
  <2>1. SeqSum(w, s) = SumOf(u, D) /\ IsFiniteSet(D) /\ \A i \in D : u[i] \in Int
    BY <1>1, SeqSumIsSum
  <2> HIDE DEF u, D
  <2> QED
    BY <2>1, SumOfType
<1>2. ASSUME \A x \in S : w[x] \in Nat PROVE SeqSum(w, s) \in Nat
  <2>0. \A x \in S : w[x] \in Int
    BY <1>2
  <2>1. SeqSum(w, s) = SumOf(u, D) /\ IsFiniteSet(D)
    BY <2>0, SeqSumIsSum
  <2>2. \A i \in D : u[i] \in Nat
    BY <1>2
  <2> HIDE DEF u, D
  <2> QED
    BY <2>1, <2>2, SumOfNat
<1> QED
  BY <1>1, <1>2

\* One element more at the end adds its weight.
LEMMA SeqSumAppend ==
  ASSUME NEW S, NEW s \in Seq(S), NEW e \in S, NEW w, \A x \in S : w[x] \in Int
  PROVE  SeqSum(w, Append(s, e)) = SeqSum(w, s) + w[e]
<1> DEFINE n == Len(s)
           t == Append(s, e)
           u == [i \in 1..Len(s) |-> w[s[i]]]
           v == [i \in 1..Len(t) |-> w[t[i]]]
<1>1. /\ n \in Nat /\ t \in Seq(S) /\ Len(t) = n + 1 /\ t[n + 1] = e
      /\ \A i \in 1..n : t[i] = s[i]
  BY AppendProperties
<1>2. SeqSum(w, s) = SumOf(u, 1..Len(s)) /\ IsFiniteSet(1..Len(s)) /\ \A i \in 1..Len(s) : w[s[i]] \in Int
  BY SeqSumIsSum
<1> HIDE DEF t
<1>3. SeqSum(w, t) = SumOf(v, 1..Len(t)) /\ IsFiniteSet(1..Len(t)) /\ \A i \in 1..Len(t) : w[t[i]] \in Int
  BY <1>1, SeqSumIsSum
<1>4. 1..Len(t) = (1..n) \cup {n + 1} /\ n + 1 \notin 1..n
  BY <1>1
<1>5. /\ \A i \in (1..n) \cup {n + 1} : v[i] \in Int
      /\ \A i \in 1..n : v[i] \in Int /\ v[i] = u[i]
      /\ v[n + 1] = w[e]
  <2>1. \A i \in 1..Len(t) : v[i] = w[t[i]]
    OBVIOUS
  <2>2. \A i \in 1..Len(s) : u[i] = w[s[i]]
    OBVIOUS
  <2> HIDE DEF u, v
  <2> QED
    BY <1>1, <1>3, <1>4, <2>1, <2>2
<1>6. SeqSum(w, s) = SumOf(u, 1..n) /\ IsFiniteSet(1..n)
  BY <1>2
<1> HIDE DEF n, u, v
<1>7. SumOf(v, (1..n) \cup {n + 1}) = SumOf(v, 1..n) + v[n + 1]
  BY <1>4, <1>5, <1>6, SumOfAdd
<1>8. SumOf(v, 1..n) = SumOf(u, 1..n)
  BY <1>5, <1>6, SumOfSame
<1> QED
  BY <1>3, <1>4, <1>5, <1>6, <1>7, <1>8 DEF t

\* Without its head a sequence has its weight less.
LEMMA SeqSumTail ==
  ASSUME NEW S, NEW s \in Seq(S), s # <<>>, NEW w, \A x \in S : w[x] \in Int
  PROVE  SeqSum(w, Tail(s)) = SeqSum(w, s) - w[Head(s)]
<1> DEFINE t == Tail(s)
           n == Len(t)
           u == [i \in 1..Len(s) |-> w[s[i]]]
           v == [i \in 1..Len(t) |-> w[t[i]]]
           A(k) == SumOf(v, 1..k)
           B(k) == SumOf(u, 1..(k + 1))
           K == {k \in Nat : k <= n => B(k) = A(k) + u[1]}
<1>1. /\ n \in Nat /\ t \in Seq(S) /\ Len(s) = n + 1 /\ Head(s) = s[1]
      /\ \A i \in 1..n : t[i] = s[i + 1]
  <2>1. Len(s) \in Nat /\ Len(s) # 0
    BY EmptySeq
  <2>2. t \in Seq(S) /\ Len(t) = Len(s) - 1 /\ Head(s) = s[1] /\ \A i \in 1..Len(t) : t[i] = s[i + 1]
    BY HeadTailProperties
  <2> QED
    BY <2>1, <2>2
<1>2. SeqSum(w, s) = SumOf(u, 1..Len(s)) /\ \A i \in 1..Len(s) : w[s[i]] \in Int
  BY SeqSumIsSum
<1> HIDE DEF t
<1>3. SeqSum(w, t) = SumOf(v, 1..Len(t)) /\ \A i \in 1..Len(t) : w[t[i]] \in Int
  BY <1>1, SeqSumIsSum
<1>4. /\ \A i \in 1..(n + 1) : u[i] \in Int
      /\ \A i \in 1..n : v[i] \in Int /\ v[i] = u[i + 1]
      /\ u[1] = w[Head(s)]
  <2>1. \A i \in 1..Len(t) : v[i] = w[t[i]]
    OBVIOUS
  <2>2. \A i \in 1..Len(s) : u[i] = w[s[i]]
    OBVIOUS
  <2>3. \A i \in 1..n : i + 1 \in 1..Len(s)
    BY <1>1
  <2>4. 1 \in 1..Len(s)
    BY <1>1
  <2> HIDE DEF u, v
  <2> QED
    BY <1>1, <1>2, <1>3, <2>1, <2>2, <2>3, <2>4
<1>5. SeqSum(w, s) = B(n) /\ SeqSum(w, t) = A(n)
  BY <1>1, <1>2, <1>3
<1>f. \A k \in Nat : IsFiniteSet(1..k)
  BY FS_Interval
<1>n. n \in Nat
  BY <1>1
<1> HIDE DEF n, u, v
<1>6. 0 \in K
  <2>0. PICK Z : Z = {}
    OBVIOUS
  <2>1. 1..0 = {} /\ 1..(0 + 1) = Z \cup {1} /\ 1 \notin Z /\ 1 \in 1..(n + 1)
    BY <1>n, <2>0
  <2>2. A(0) = 0
    BY <2>1, SumOfEmpty
  <2>3. SumOf(u, Z) = 0 /\ IsFiniteSet(Z)
    BY <2>0, SumOfEmpty, FS_EmptySet
  <2>4. \A x \in Z \cup {1} : u[x] \in Int
    BY <1>4, <2>0, <2>1
  <2>5. SumOf(u, Z \cup {1}) = SumOf(u, Z) + u[1]
    <3> DEFINE e == 1
    <3>1. e \notin Z /\ IsFiniteSet(Z) /\ \A x \in Z \cup {e} : u[x] \in Int
      BY <2>1, <2>3, <2>4
    <3> HIDE DEF e
    <3>2. SumOf(u, Z \cup {e}) = SumOf(u, Z) + u[e]
      BY <3>1, SumOfAdd
    <3> QED
      BY <3>2 DEF e
  <2>6. B(0) = 0 + u[1]
    BY <2>1, <2>3, <2>5
  <2> QED
    BY <2>2, <2>6
<1>7. ASSUME NEW k \in Nat, k \in K PROVE k + 1 \in K
  <2> SUFFICES ASSUME k + 1 <= n PROVE B(k + 1) = A(k + 1) + u[1]
    OBVIOUS
  <2>1. k <= n
    BY <1>n
  <2>2. B(k) = A(k) + u[1]
    BY <1>7, <2>1
  <2> HIDE DEF K
  <2>3. /\ 1..(k + 1) = (1..k) \cup {k + 1} /\ k + 1 \notin 1..k /\ k + 1 \in 1..n
        /\ \A i \in (1..k) \cup {k + 1} : i \in 1..n
    BY <1>n
  <2>4. \A i \in (1..k) \cup {k + 1} : v[i] \in Int
    BY <1>4, <2>3
  <2>5. A(k + 1) = A(k) + v[k + 1]
    <3>1. SumOf(v, (1..k) \cup {k + 1}) = SumOf(v, 1..k) + v[k + 1]
      BY <1>f, <2>3, <2>4, SumOfAdd
    <3> QED
      BY <2>3, <3>1
  <2> DEFINE j == k + 1
  <2>6. /\ j \in Nat /\ 1..(j + 1) = (1..j) \cup {j + 1} /\ j + 1 \notin 1..j
        /\ \A i \in (1..j) \cup {j + 1} : i \in 1..(n + 1)
    BY <1>n
  <2>7. v[j] = u[j + 1] /\ v[j] \in Int
    BY <1>4, <2>3
  <2>8. B(k) = SumOf(u, 1..j) /\ B(k + 1) = SumOf(u, 1..(j + 1))
    OBVIOUS
  <2>9. B(k + 1) = B(k) + v[j]
    <3> HIDE DEF j
    <3>1. \A i \in (1..j) \cup {j + 1} : u[i] \in Int
      BY <1>4, <2>6
    <3>2. SumOf(u, (1..j) \cup {j + 1}) = SumOf(u, 1..j) + u[j + 1]
      BY <1>f, <2>6, <3>1, SumOfAdd
    <3> HIDE DEF B
    <3> QED
      BY <2>6, <2>7, <2>8, <3>2
  <2>10. A(k) \in Int
    <3>1. \A i \in 1..k : v[i] \in Int
      BY <2>4
    <3> QED
      BY <1>f, <3>1, SumOfType
  <2>11. u[1] \in Int
    <3>1. 1 \in 1..(n + 1)
      BY <1>n
    <3> QED
      BY <1>4, <3>1
  <2> DEFINE a == A(k)
             b == B(k)
             c == A(k + 1)
             d == B(k + 1)
             x == u[1]
             y == v[j]
  <2>12. b = a + x /\ c = a + y /\ d = b + y /\ a \in Int /\ x \in Int /\ y \in Int
    BY <2>2, <2>5, <2>7, <2>9, <2>10, <2>11
  <2> HIDE DEF a, b, c, d, x, y
  <2>13. d = c + x
    BY <2>12
  <2> QED
    BY <2>13 DEF c, d, x
<1>8. Nat \subseteq K
  <2> HIDE DEF K
  <2> QED BY <1>6, <1>7, NatSetInduction
<1>9. B(n) = A(n) + u[1]
  BY <1>8, <1>n
<1>10. A(n) \in Int
  BY <1>4, <1>f, <1>n, SumOfType
<1>11. u[1] \in Int
  <2>1. 1 \in 1..(n + 1)
    BY <1>n
  <2> QED
    BY <1>4, <2>1
<1> DEFINE a == A(n)
           b == B(n)
           x == u[1]
<1>12. SeqSum(w, s) = b /\ SeqSum(w, t) = a /\ x = w[Head(s)] /\ b = a + x /\ a \in Int /\ x \in Int
  BY <1>4, <1>5, <1>9, <1>10, <1>11
<1> HIDE DEF a, b, x
<1>13. SeqSum(w, t) = SeqSum(w, s) - w[Head(s)]
  BY <1>12
<1> QED
  BY <1>13 DEF t

-----------------------------------------------------------------------------
\* A sum of smaller weights is smaller.
LEMMA SumOfMonotone ==
  ASSUME NEW D, IsFiniteSet(D), NEW v, NEW w,
         \A x \in D : v[x] \in Int /\ w[x] \in Int /\ v[x] <= w[x]
  PROVE  SumOf(v, D) <= SumOf(w, D)
<1> DEFINE P == {s \in SUBSET D : SumOf(v, s) <= SumOf(w, s)}
<1>1. {} \in P
  <2>1. SumOf(v, {}) = 0 /\ SumOf(w, {}) = 0
    BY SumOfEmpty
  <2> QED
    BY <2>1
<1>2. ASSUME NEW s \in SUBSET D, NEW x \in s, s \ {x} \in P PROVE s \in P
  <2>1. IsFiniteSet(s) /\ \A y \in s : v[y] \in Int /\ w[y] \in Int
    BY FS_Subset
  <2>2. SumOf(v, s) \in Int /\ SumOf(w, s) \in Int
    BY <2>1, SumOfType
  <2>3. SumOf(v, s \ {x}) = SumOf(v, s) - v[x]
    BY <2>1, SumOfRemove
  <2>4. SumOf(w, s \ {x}) = SumOf(w, s) - w[x]
    BY <2>1, SumOfRemove
  <2>5. SumOf(v, s \ {x}) <= SumOf(w, s \ {x})
    BY <1>2
  <2>6. v[x] \in Int /\ w[x] \in Int /\ v[x] <= w[x]
    OBVIOUS
  <2>7. SumOf(v, s) <= SumOf(w, s)
    BY <2>2, <2>3, <2>4, <2>5, <2>6
  <2> QED
    BY <2>7
<1>3. SUBSET D \subseteq P
  <2> HIDE DEF P
  <2> QED BY <1>1, <1>2, SubsetInduction
<1> QED
  BY <1>3

\* A sum of weights of at most m.
LEMMA SumOfBounded ==
  ASSUME NEW D, IsFiniteSet(D), NEW w, NEW m \in Nat, \A x \in D : w[x] \in Int /\ w[x] <= m
  PROVE  SumOf(w, D) <= Cardinality(D) * m
<1> DEFINE P == {s \in SUBSET D : SumOf(w, s) <= Cardinality(s) * m}
<1>1. {} \in P
  <2>1. SumOf(w, {}) = 0 /\ Cardinality({}) = 0
    BY SumOfEmpty, FS_EmptySet
  <2> QED
    BY <2>1
<1>2. ASSUME NEW s \in SUBSET D, NEW x \in s, s \ {x} \in P PROVE s \in P
  <2>1. IsFiniteSet(s) /\ \A y \in s : w[y] \in Int
    BY FS_Subset
  <2>2. SumOf(w, s) \in Int
    BY <2>1, SumOfType
  <2>3. SumOf(w, s \ {x}) = SumOf(w, s) - w[x]
    BY <2>1, SumOfRemove
  <2>4. Cardinality(s \ {x}) = Cardinality(s) - 1 /\ Cardinality(s) \in Nat
    BY <2>1, FS_RemoveElement, FS_CardinalityType
  <2>5. SumOf(w, s \ {x}) <= Cardinality(s \ {x}) * m
    BY <1>2
  <2>6. w[x] \in Int /\ w[x] <= m
    OBVIOUS
  <2> DEFINE c == Cardinality(s)
             a == SumOf(w, s)
             e == w[x]
  <2>7. c \in Nat /\ a \in Int /\ e \in Int /\ e <= m /\ a - e <= (c - 1) * m
    BY <2>2, <2>3, <2>4, <2>5, <2>6
  <2> HIDE DEF c, a, e
  <2>8. (c - 1) * m = c * m - m
    BY <2>7
  <2>9. c * m \in Int
    BY <2>7
  <2>10. a <= c * m
    BY <2>7, <2>8, <2>9
  <2> QED
    BY <2>10 DEF a, c
<1>3. SUBSET D \subseteq P
  <2> HIDE DEF P
  <2> QED BY <1>1, <1>2, SubsetInduction
<1> QED
  BY <1>3

\* A finite set of integers that is not empty has a largest element.
LEMMA MaxExists ==
  ASSUME NEW D, IsFiniteSet(D), D \subseteq Int, D # {}
  PROVE  Max(D) \in D /\ \A y \in D : Max(D) >= y
<1> DEFINE Top(s) == \E x \in s : \A y \in s : x >= y
           P == {s \in SUBSET D : s # {} => Top(s)}
<1>1. {} \in P
  OBVIOUS
<1>2. ASSUME NEW s \in SUBSET D, NEW x \in s, s \ {x} \in P PROVE s \in P
  <2>1. CASE s \ {x} = {}
    <3>1. s = {x} /\ x \in Int
      BY <2>1
    <3>2. Top(s)
      BY <3>1
    <3> QED
      BY <3>2
  <2>2. CASE s \ {x} # {}
    <3>1. PICK z \in s \ {x} : \A y \in s \ {x} : z >= y
      BY <1>2, <2>2
    <3>2. x \in Int /\ z \in Int /\ z \in s /\ \A y \in s : y \in Int
      OBVIOUS
    <3>3. CASE z >= x
      <4>1. \A y \in s : z >= y
        BY <3>1, <3>3
      <4> QED
        BY <3>2, <4>1
    <3>4. CASE x >= z
      <4>1. \A y \in s : x >= y
        BY <3>1, <3>2, <3>4
      <4> QED
        BY <4>1
    <3> QED
      BY <3>2, <3>3, <3>4
  <2> QED
    BY <2>1, <2>2
<1>3. SUBSET D \subseteq P
  <2> HIDE DEF P
  <2> QED BY <1>1, <1>2, SubsetInduction
<1>4. \E x \in D : \A y \in D : x >= y
  BY <1>3
<1> QED
  BY <1>4 DEF Max

\* f folds st over the finite sets of integers within D, the largest element last:
\* what the recursive function in FoldLeft denotes.
Folded(f, st, b, T, D) ==
    /\ f \in [SUBSET D -> T]
    /\ \A s \in SUBSET D : f[s] = IF s = {} THEN b ELSE st[<<f[s \ {Max(s)}], Max(s)>>]

\* There is such a function, whatever the loop does to a value of T.
LEMMA FoldExists ==
  ASSUME NEW D, IsFiniteSet(D), D \subseteq Int, NEW T, NEW b \in T, NEW st \in [T \X D -> T]
  PROVE  \E f : Folded(f, st, b, T, D)
<1> DEFINE Upto(n) == {s \in SUBSET D : Cardinality(s) <= n}
           m(s) == Max(s)
           Good(f, n) == \A s \in Upto(n) :
               f[s] \in T /\ f[s] = IF s = {} THEN b ELSE st[<<f[s \ {m(s)}], m(s)>>]
           S == {n \in Nat : \E f : Good(f, n)}
<1>c. \A s \in SUBSET D : IsFiniteSet(s) /\ Cardinality(s) \in Nat
  BY FS_Subset, FS_CardinalityType
<1>0. \A s \in SUBSET D : s # {} => m(s) \in s /\ m(s) \in D
  <2> SUFFICES ASSUME NEW s \in SUBSET D, s # {} PROVE Max(s) \in s
    OBVIOUS
  <2>1. IsFiniteSet(s) /\ s \subseteq Int
    BY <1>c
  <2> QED BY <2>1, MaxExists
<1> HIDE DEF m
<1>a. \A n \in Nat : \A s \in Upto(n + 1) : s # {} => s \ {m(s)} \in Upto(n)
  <2> SUFFICES ASSUME NEW n \in Nat, NEW s \in Upto(n + 1), s # {}
               PROVE  s \ {m(s)} \in Upto(n)
    OBVIOUS
  <2>1. m(s) \in s
    BY <1>0
  <2>2. IsFiniteSet(s) /\ Cardinality(s) \in Nat /\ Cardinality(s) <= n + 1
    BY <1>c
  <2>3. Cardinality(s \ {m(s)}) = Cardinality(s) - 1
    BY <2>1, <2>2, FS_RemoveElement
  <2>4. s \in SUBSET D /\ Cardinality(s) - 1 <= n
    BY <2>2
  <2>5. PICK r : r = s \ {m(s)}
    OBVIOUS
  <2>6. r \in SUBSET D /\ Cardinality(r) <= n
    BY <2>3, <2>4, <2>5
  <2> QED
    BY <2>5, <2>6
<1>1. 0 \in S
  <2> DEFINE f == [s \in SUBSET D |-> b]
  <2>1. \A s \in Upto(0) : s = {}
    BY <1>c, FS_EmptySet
  <2>2. Good(f, 0)
    <3> HIDE DEF Upto
    <3> QED BY <2>1 DEF Upto
  <2> QED
    BY <2>2
<1>2. ASSUME NEW n \in Nat, n \in S PROVE n + 1 \in S
  <2>1. PICK f : Good(f, n)
    BY <1>2
  <2> DEFINE g == [s \in Upto(n + 1) |-> IF s = {} THEN b ELSE st[<<f[s \ {m(s)}], m(s)>>]]
  <2>2. Upto(n) \subseteq Upto(n + 1)
    BY <1>c
  <2>d. \A s \in Upto(n + 1) : s # {} => m(s) \in D
    BY <1>0
  <2> HIDE DEF Upto
  <2>3. \A s \in Upto(n) : g[s] = f[s]
    BY <2>1, <2>2
  <2>4. \A s \in Upto(n + 1) : s # {} => g[s \ {m(s)}] = f[s \ {m(s)}] /\ f[s \ {m(s)}] \in T
    BY <1>a, <2>1, <2>3
  <2>5. \A s \in Upto(n + 1) : g[s] \in T
    BY <2>4, <2>d
  <2>6. Good(g, n + 1)
    BY <2>4, <2>5
  <2>7. \E h : Good(h, n + 1)
    <3> HIDE DEF g, Good
    <3> QED BY <2>6
  <2> HIDE DEF Good
  <2> QED
    BY <2>7
<1>3. Nat \subseteq S
  <2> HIDE DEF S
  <2> QED BY <1>1, <1>2, NatSetInduction
<1>4. PICK f : Good(f, Cardinality(D))
  BY <1>3, FS_CardinalityType
<1>5. SUBSET D = Upto(Cardinality(D))
  BY <1>c, FS_Subset
<1> DEFINE g == [s \in SUBSET D |-> f[s]]
<1>6. \A s \in SUBSET D : g[s] \in T /\ g[s] = IF s = {} THEN b ELSE st[<<g[s \ {m(s)}], m(s)>>]
  <2> HIDE DEF Upto
  <2> QED BY <1>4, <1>5
<1>7. g \in [SUBSET D -> T]
  BY <1>6
<1> HIDE DEF g
<1> QED
  BY <1>6, <1>7 DEF Folded, m

\* The largest of the first k numbers.
LEMMA MaxOfFirst ==
  ASSUME NEW k \in Nat, k # 0
  PROVE  Max(1..k) = k /\ (1..k) \ {k} = 1..(k - 1) /\ 1..k # {}
<1>1. IsFiniteSet(1..k) /\ 1..k \subseteq Int /\ k \in 1..k
  BY FS_Interval
<1>2. Max(1..k) \in 1..k /\ Max(1..k) >= k
  BY <1>1, MaxExists
<1>3. (1..k) \ {k} = 1..(k - 1)
  OBVIOUS
<1>4. 1..k # {}
  BY <1>1
<1> QED BY <1>2, <1>3, <1>4
=============================================================================
