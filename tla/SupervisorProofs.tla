-------------------------- MODULE SupervisorProofs --------------------------
(***************************************************************************)
(* Proofs about the source supervisor, for any sources, rows, addresses    *)
(* and edits.  SourcesInv is inductive for the whole specification and     *)
(* carries the types, the union of file and database and what the          *)
(* supervisor remembers; AgreeInv says what runs, also in the middle of a  *)
(* reconcile.  Sockets are lost only by a move that succeeds: the last     *)
(* three theorems take its absence as a premise.                           *)
(***************************************************************************)
EXTENDS Supervisor, Collections

-----------------------------------------------------------------------------
(* The list that is handed to Reconcile.                                   *)

\* Keep is the last value of a loop.
KeepLoop(f, list, S, T) ==
    /\ f \in [0..Len(list) -> T]
    /\ f[0] = <<>>
    /\ \A i \in 1..Len(list) :
          f[i] = IF list[i] \in S THEN Append(f[i - 1], list[i]) ELSE f[i - 1]

\* Keep returns what its loop has after the last element.
LEMMA KeepIsLoop ==
  ASSUME NEW X, NEW list \in Seq(X), NEW S
  PROVE  \E f : KeepLoop(f, list, S, Seq(X)) /\ Keep(list, S) = f[Len(list)]
<1> DEFINE n == Len(list)
           T == Seq(X)
           h == CHOOSE f : f = [i \in 0..n |->
                  IF i = 0 THEN <<>>
                  ELSE IF list[i] \in S THEN Append(f[i - 1], list[i]) ELSE f[i - 1]]
           st == [p \in T \X (1..n) |->
                    IF list[p[2]] \in S THEN Append(p[1], list[p[2]]) ELSE p[1]]
<1>1. n \in Nat /\ <<>> \in T /\ \A i \in 1..n : list[i] \in X
  OBVIOUS
<1>2. st \in [T \X (1..n) -> T]
  <2>1. \A q \in T, i \in 1..n : Append(q, list[i]) \in T
    OBVIOUS
  <2> HIDE DEF T, n
  <2> QED BY <2>1
<1>3. PICK f \in [0..n -> T] : f[0] = <<>> /\ \A i \in 1..n : f[i] = st[<<f[i - 1], i>>]
  <2>1. PICK e : e = <<>>
    OBVIOUS
  <2> HIDE DEF st, n, T
  <2>2. e \in T
    BY <1>1, <2>1
  <2>3. PICK f : Rounds(f, T, e, n, st)
    BY <1>1, <1>2, <2>2, LoopExists
  <2> QED BY <2>1, <2>3 DEF Rounds
<1>4. \A i \in 1..n : f[i] = IF list[i] \in S THEN Append(f[i - 1], list[i]) ELSE f[i - 1]
  <2> SUFFICES ASSUME NEW i \in 1..n
               PROVE  f[i] = IF list[i] \in S THEN Append(f[i - 1], list[i]) ELSE f[i - 1]
    OBVIOUS
  <2>1. i - 1 \in 0..n
    BY <1>1
  <2> HIDE DEF T, n
  <2>2. <<f[i - 1], i>> \in T \X (1..n)
    BY <2>1
  <2> QED BY <1>3, <2>2
<1>5. f = [i \in 0..n |->
             IF i = 0 THEN <<>>
             ELSE IF list[i] \in S THEN Append(f[i - 1], list[i]) ELSE f[i - 1]]
  <2>1. f = [i \in 0..n |-> f[i]]
    OBVIOUS
  <2>2. \A i \in 0..n : i # 0 => i \in 1..n
    BY <1>1
  <2> HIDE DEF n, T, st
  <2> QED BY <1>3, <1>4, <2>1, <2>2
<1>6. h = [i \in 0..n |->
             IF i = 0 THEN <<>>
             ELSE IF list[i] \in S THEN Append(h[i - 1], list[i]) ELSE h[i - 1]]
  <2> HIDE DEF n, T, st
  <2> QED BY <1>5
<1>7. Keep(list, S) = h[n]
  BY DEF Keep
<1> DEFINE Q == {k \in Nat : k <= n => h[k] = f[k]}
<1>8. \A i \in 0..n : h[i] = IF i = 0 THEN <<>>
             ELSE IF list[i] \in S THEN Append(h[i - 1], list[i]) ELSE h[i - 1]
  <2> HIDE DEF h, n
  <2> QED BY <1>6
<1>9. h[n] = f[n]
  <2> HIDE DEF h, n, T, st
  <2>1. 0 \in Q
    BY <1>1, <1>3, <1>8
  <2>2. ASSUME NEW k \in Nat, k \in Q PROVE k + 1 \in Q
    <3> SUFFICES ASSUME k + 1 <= n PROVE h[k + 1] = f[k + 1]
      OBVIOUS
    <3>1. k + 1 \in 1..n /\ k + 1 \in 0..n /\ k + 1 # 0 /\ (k + 1) - 1 = k /\ k <= n
      BY <1>1
    <3>2. h[k] = f[k]
      BY <2>2, <3>1
    <3>3. f[k + 1] = IF list[k + 1] \in S THEN Append(f[k], list[k + 1]) ELSE f[k]
      BY <1>4, <3>1
    <3>4. h[k + 1] = IF list[k + 1] \in S THEN Append(h[k], list[k + 1]) ELSE h[k]
      BY <1>8, <3>1
    <3> QED BY <3>2, <3>3, <3>4
  <2>3. Nat \subseteq Q
    <3> HIDE DEF Q
    <3> QED BY <2>1, <2>2, NatSetInduction
  <2> QED BY <1>1, <2>3
<1> QED
  BY <1>3, <1>4, <1>7, <1>9 DEF KeepLoop

\* What Keep returns: members of the list that are in S, different ones from
\* different places.
LEMMA KeepFacts ==
  ASSUME NEW X, NEW list \in Seq(X), NEW S
  PROVE  /\ Keep(list, S) \in Seq(X)
         /\ \A i \in DOMAIN Keep(list, S) :
               /\ Keep(list, S)[i] \in S
               /\ \E a \in DOMAIN list : Keep(list, S)[i] = list[a]
         /\ \A i, j \in DOMAIN Keep(list, S) : i # j =>
               \E a, b \in DOMAIN list :
                  a # b /\ Keep(list, S)[i] = list[a] /\ Keep(list, S)[j] = list[b]
<1>1. PICK f : KeepLoop(f, list, S, Seq(X)) /\ Keep(list, S) = f[Len(list)]
  BY KeepIsLoop
<1> DEFINE n == Len(list)
           From(q, k) ==
               /\ \A i \in 1..Len(q) : q[i] \in S /\ \E a \in 1..k : q[i] = list[a]
               /\ \A i, j \in 1..Len(q) : i # j =>
                     \E a, b \in 1..k : a # b /\ q[i] = list[a] /\ q[j] = list[b]
           Q == {k \in Nat : k <= n => From(f[k], k)}
<1>2. n \in Nat /\ DOMAIN list = 1..n
  OBVIOUS
<1>3. \A k \in 0..n : f[k] \in Seq(X)
  BY <1>1 DEF KeepLoop
<1>4. 0 \in Q
  <2>1. f[0] = <<>>
    BY <1>1 DEF KeepLoop
  <2> QED BY <2>1
<1>5. ASSUME NEW k \in Nat, k \in Q PROVE k + 1 \in Q
  <2> SUFFICES ASSUME k + 1 <= n PROVE From(f[k + 1], k + 1)
    OBVIOUS
  <2>1. k \in 0..n /\ k + 1 \in 1..n /\ (k + 1) - 1 = k /\ k <= n /\ k + 1 \in 1..(k + 1)
        /\ k + 1 \notin 1..k /\ \A a \in 1..k : a \in 1..(k + 1)
    BY <1>2
  <2>2. From(f[k], k)
    BY <1>5, <2>1
  <2>3. f[k + 1] = IF list[k + 1] \in S THEN Append(f[k], list[k + 1]) ELSE f[k]
    BY <1>1, <2>1 DEF KeepLoop
  <2>4. CASE list[k + 1] \notin S
    <3>1. f[k + 1] = f[k]
      BY <2>3, <2>4
    <3> QED BY <2>1, <2>2, <3>1
  <2>5. CASE list[k + 1] \in S
    <3> DEFINE q == f[k]
               e == list[k + 1]
               m == Len(q)
    <3>1. q \in Seq(X) /\ e \in X /\ m \in Nat
      BY <1>2, <1>3, <2>1
    <3>2. f[k + 1] = Append(q, e)
      BY <2>3, <2>5
    <3>3. From(q, k)
      BY <2>2
    <3>4. e = list[k + 1] /\ e \in S
      BY <2>5
    <3> HIDE DEF q, e
    <3>5. /\ Len(Append(q, e)) = m + 1 /\ Append(q, e)[m + 1] = e
          /\ \A i \in 1..m : Append(q, e)[i] = q[i]
      BY <3>1, AppendProperties
    <3>6. \A i \in 1..(m + 1) : i \in 1..m \/ i = m + 1
      BY <3>1
    <3> HIDE DEF m
    <3>7. ASSUME NEW i \in 1..(m + 1)
          PROVE  Append(q, e)[i] \in S /\ \E a \in 1..(k + 1) : Append(q, e)[i] = list[a]
      BY <2>1, <3>3, <3>4, <3>5, <3>6 DEF m
    <3>8. ASSUME NEW i \in 1..(m + 1), NEW j \in 1..(m + 1), i # j
          PROVE  \E a, b \in 1..(k + 1) : a # b /\ Append(q, e)[i] = list[a] /\ Append(q, e)[j] = list[b]
      <4>1. CASE i \in 1..m /\ j \in 1..m
        <5>1. PICK a \in 1..k, b \in 1..k : a # b /\ q[i] = list[a] /\ q[j] = list[b]
          BY <3>3, <3>8, <4>1 DEF m
        <5>2. a \in 1..(k + 1) /\ b \in 1..(k + 1)
          BY <2>1
        <5>3. Append(q, e)[i] = list[a] /\ Append(q, e)[j] = list[b]
          BY <3>5, <4>1, <5>1
        <5> QED BY <5>1, <5>2, <5>3
      <4>2. CASE i \in 1..m /\ j = m + 1
        <5>1. PICK a \in 1..k : q[i] = list[a]
          BY <3>3, <4>2 DEF m
        <5> QED BY <2>1, <3>4, <3>5, <4>2, <5>1
      <4>3. CASE j \in 1..m /\ i = m + 1
        <5>1. PICK a \in 1..k : q[j] = list[a]
          BY <3>3, <4>3 DEF m
        <5> QED BY <2>1, <3>4, <3>5, <4>3, <5>1
      <4> QED BY <3>6, <3>8, <4>1, <4>2, <4>3
    <3>9. From(Append(q, e), k + 1)
      <4>1. PICK r : r = Append(q, e)
        OBVIOUS
      <4>2. Len(r) = m + 1
        BY <3>5, <4>1
      <4>3. \A i \in 1..Len(r) : r[i] \in S /\ \E a \in 1..(k + 1) : r[i] = list[a]
        BY <3>7, <4>1, <4>2
      <4>4. \A i, j \in 1..Len(r) : i # j =>
               \E a, b \in 1..(k + 1) : a # b /\ r[i] = list[a] /\ r[j] = list[b]
        <5> SUFFICES ASSUME NEW i \in 1..Len(r), NEW j \in 1..Len(r), i # j
                     PROVE  \E a, b \in 1..(k + 1) : a # b /\ r[i] = list[a] /\ r[j] = list[b]
          OBVIOUS
        <5>1. i \in 1..(m + 1) /\ j \in 1..(m + 1)
          BY <4>2
        <5>2. PICK a \in 1..(k + 1), b \in 1..(k + 1) :
                  a # b /\ Append(q, e)[i] = list[a] /\ Append(q, e)[j] = list[b]
          BY <3>8, <5>1
        <5> QED BY <4>1, <5>2
      <4>5. From(r, k + 1)
        BY <4>3, <4>4
      <4> HIDE DEF From
      <4> QED BY <4>1, <4>5
    <3> HIDE DEF From
    <3> QED BY <3>2, <3>9
  <2> QED BY <2>4, <2>5
<1>6. From(f[n], n)
  <2> HIDE DEF Q, From
  <2>1. Nat \subseteq Q
    BY <1>4, <1>5, NatSetInduction
  <2> QED BY <1>2, <2>1 DEF Q
<1>7. n \in 0..n
  BY <1>2
<1>8. Keep(list, S) \in Seq(X) /\ Keep(list, S) = f[n]
  BY <1>1, <1>3, <1>7
<1>9. DOMAIN Keep(list, S) = 1..Len(f[n])
  BY <1>8
<1>10. PICK r : r = Keep(list, S)
  OBVIOUS
<1>11. From(r, n) /\ DOMAIN r = 1..Len(r) /\ r \in Seq(X)
  <2> HIDE DEF From, n
  <2> QED BY <1>6, <1>8, <1>9, <1>10
<1>12. /\ \A i \in DOMAIN r : r[i] \in S /\ \E a \in DOMAIN list : r[i] = list[a]
       /\ \A i, j \in DOMAIN r : i # j =>
             \E a, b \in DOMAIN list : a # b /\ r[i] = list[a] /\ r[j] = list[b]
  <2>1. \A i \in DOMAIN r : r[i] \in S /\ \E a \in DOMAIN list : r[i] = list[a]
    BY <1>2, <1>11
  <2>2. ASSUME NEW i \in DOMAIN r, NEW j \in DOMAIN r, i # j
        PROVE  \E a, b \in DOMAIN list : a # b /\ r[i] = list[a] /\ r[j] = list[b]
    <3>1. PICK a \in 1..n, b \in 1..n : a # b /\ r[i] = list[a] /\ r[j] = list[b]
      BY <1>11, <2>2
    <3>2. a \in DOMAIN list /\ b \in DOMAIN list
      BY <1>2
    <3> QED BY <3>1, <3>2
  <2> QED BY <2>1, <2>2
<1> QED
  BY <1>10, <1>11, <1>12

\* Two definitions that can run beside each other, and a list of such.
Apart(d, e) ==
    /\ d.src.name # e.src.name
    /\ (d.src.enabled /\ e.src.enabled) =>
          /\ \/ d.src.type # "http_json"
             \/ e.src.type # "http_json"
             \/ d.origin = "file" /\ e.origin = "file"
          /\ \/ d.src.type # "syslog"
             \/ e.src.type # "syslog"
             \/ d.src.address # e.src.address
             \/ Transport(d.src) # Transport(e.src)

AllApart(list) == \A i, j \in DOMAIN list : i # j => Apart(list[i], list[j])

\* The rows of the sources table.
ManagedOK == \A n \in Names : managed[n] = None \/ managed[n] \in Rows[n]

\* A managed source that is added conflicts with none that is there.
LEMMA AddManagedFacts ==
  ASSUME NEW list \in Seq(Desired), NEW n \in Names, ManagedOK
  PROVE  /\ AddManaged(list, n) \in Seq(Desired)
         /\ AllApart(list) => AllApart(AddManaged(list, n))
<1>1. CASE \/ managed[n] = None
           \/ ~managed[n].valid
           \/ \E i \in DOMAIN list : ConflictsWith(managed[n].src, list[i].src)
  BY <1>1 DEF AddManaged
<1>2. CASE ~ (\/ managed[n] = None
              \/ ~managed[n].valid
              \/ \E i \in DOMAIN list : ConflictsWith(managed[n].src, list[i].src))
  <2> DEFINE e == [src |-> managed[n].src, origin |-> "database"]
             m == Len(list)
  <2>1. e \in Desired /\ e.src = managed[n].src /\ e.origin = "database"
    BY <1>2, SourcesAssumption DEF Desired, ManagedOK
  <2>2. \A i \in DOMAIN list : ~ConflictsWith(e.src, list[i].src)
    BY <1>2, <2>1
  <2>3. AddManaged(list, n) = Append(list, e)
    BY <1>2 DEF AddManaged
  <2> HIDE DEF e
  <2>4. /\ Append(list, e) \in Seq(Desired) /\ m \in Nat
        /\ DOMAIN Append(list, e) = 1..(m + 1) /\ DOMAIN list = 1..m
        /\ \A i \in 1..m : Append(list, e)[i] = list[i]
        /\ Append(list, e)[m + 1] = e
        /\ \A i \in 1..(m + 1) : i \in 1..m \/ i = m + 1
    BY <2>1, AppendProperties
  <2>5. \A i \in 1..m : Apart(e, list[i]) /\ Apart(list[i], e)
    <3> SUFFICES ASSUME NEW i \in 1..m PROVE Apart(e, list[i]) /\ Apart(list[i], e)
      OBVIOUS
    <3>1. ~ConflictsWith(e.src, list[i].src)
      BY <2>2, <2>4
    <3>2. PICK d : d = list[i]
      OBVIOUS
    <3>3. Apart(e, d) /\ Apart(d, e)
      BY <3>1, <3>2, <2>1 DEF Apart, ConflictsWith
    <3> QED BY <3>2, <3>3
  <2>6. AllApart(list) => AllApart(Append(list, e))
    <3> HIDE DEF m
    <3> QED BY <2>4, <2>5 DEF AllApart
  <2> QED
    BY <2>3, <2>4, <2>6
<1> QED
  BY <1>1, <1>2

\* The sources of the file that are not adopted.
LEMMA FilePartFacts ==
  ASSUME NEW S
  PROVE  /\ FileSources(Keep(File, S)) \in Seq(Desired)
         /\ AllApart(FileSources(Keep(File, S)))
<1>1. PICK k : k = Keep(File, S)
  OBVIOUS
<1>2. File \in Seq(Source)
  BY SourcesAssumption
<1>3. /\ k \in Seq(Source)
      /\ \A i, j \in DOMAIN k : i # j =>
            \E a, b \in DOMAIN File : a # b /\ k[i] = File[a] /\ k[j] = File[b]
  BY <1>1, <1>2, KeepFacts
<1>4. FileSources(k) \in Seq(Desired)
  <2>1. \A i \in DOMAIN k : k[i] \in Source
    BY <1>3
  <2>2. Len(k) \in Nat /\ DOMAIN k = 1..Len(k)
    BY <1>3
  <2>3. FileSources(k) \in [1..Len(k) -> Desired]
    BY <2>1, <2>2 DEF FileSources, Desired
  <2> QED BY <2>2, <2>3
<1>5. \A i \in DOMAIN k : FileSources(k)[i].src = k[i] /\ FileSources(k)[i].origin = "file"
  BY DEF FileSources
<1>6. DOMAIN FileSources(k) = DOMAIN k
  BY DEF FileSources
<1>7. ASSUME NEW i \in DOMAIN k, NEW j \in DOMAIN k, i # j
      PROVE  Apart(FileSources(k)[i], FileSources(k)[j])
  <2>1. PICK a \in DOMAIN File, b \in DOMAIN File : a # b /\ k[i] = File[a] /\ k[j] = File[b]
    BY <1>3, <1>7
  <2>2. /\ File[a].name # File[b].name
        /\ \/ ~File[a].enabled \/ ~File[b].enabled
           \/ File[a].type # "syslog" \/ File[b].type # "syslog"
           \/ Transport(File[a]) # Transport(File[b])
           \/ File[a].address # File[b].address
    BY <2>1, SourcesAssumption
  <2>3. PICK d, e : d = FileSources(k)[i] /\ e = FileSources(k)[j]
    OBVIOUS
  <2>4. d.src = File[a] /\ e.src = File[b] /\ d.origin = "file" /\ e.origin = "file"
    BY <1>5, <2>1, <2>3
  <2>5. Apart(d, e)
    BY <2>2, <2>4 DEF Apart
  <2> QED BY <2>3, <2>5
<1> QED
  BY <1>1, <1>4, <1>6, <1>7 DEF AllApart

\* The union of file and database has no clash.
LEMMA UnionFacts ==
  ASSUME ManagedOK
  PROVE  desiredSources \in Seq(Desired) /\ AllApart(desiredSources)
<1> DEFINE n == Len(NameOrder)
           T == Seq(Desired)
           start == FileSources(Keep(File, {s \in Range(File) : ~Adopted(s.name)}))
           h == CHOOSE f : f = [i \in 0..n |->
                  IF i = 0 THEN start ELSE AddManaged(f[i - 1], NameOrder[i])]
           st == [p \in T \X (1..n) |-> AddManaged(p[1], NameOrder[p[2]])]
<1>1. start \in T /\ AllApart(start)
  BY FilePartFacts
<1>2. n \in Nat /\ \A i \in 1..n : NameOrder[i] \in Names
  BY SourcesAssumption
<1>3. desiredSources = h[n]
  BY DEF desiredSources
<1>4. ASSUME NEW q \in T, NEW i \in 1..n
      PROVE  /\ AddManaged(q, NameOrder[i]) \in T
             /\ AllApart(q) => AllApart(AddManaged(q, NameOrder[i]))
  BY <1>2, AddManagedFacts
<1> HIDE DEF T, start, n
<1>5. st \in [T \X (1..n) -> T]
  <2>1. ASSUME NEW p \in T \X (1..n) PROVE AddManaged(p[1], NameOrder[p[2]]) \in T
    <3>1. PICK q \in T, i \in 1..n : p = <<q, i>>
      OBVIOUS
    <3>2. p[1] = q /\ p[2] = i
      BY <3>1
    <3>3. AddManaged(q, NameOrder[i]) \in T
      BY <1>4
    <3> QED BY <3>2, <3>3
  <2> QED BY <2>1
<1>6. PICK f : Rounds(f, T, start, n, st)
  <2> HIDE DEF st
  <2> QED BY <1>1, <1>2, <1>5, LoopExists
<1>7. f \in [0..n -> T] /\ f[0] = start /\ \A i \in 1..n : f[i] = AddManaged(f[i - 1], NameOrder[i])
  <2>1. \A i \in 1..n : i - 1 \in 0..n
    BY <1>2
  <2>2. \A i \in 1..n : <<f[i - 1], i>> \in T \X (1..n)
    BY <1>6, <2>1 DEF Rounds
  <2> QED BY <1>6, <2>2 DEF Rounds
<1>8. f = [i \in 0..n |-> IF i = 0 THEN start ELSE AddManaged(f[i - 1], NameOrder[i])]
  <2>1. f = [i \in 0..n |-> f[i]]
    BY <1>7
  <2>2. \A i \in 0..n : i # 0 => i \in 1..n
    BY <1>2
  <2> QED BY <1>7, <2>1, <2>2
<1>9. h = [i \in 0..n |-> IF i = 0 THEN start ELSE AddManaged(h[i - 1], NameOrder[i])]
  BY <1>8
<1>10. \A i \in 0..n : h[i] = IF i = 0 THEN start ELSE AddManaged(h[i - 1], NameOrder[i])
  <2> HIDE DEF h
  <2> QED BY <1>9
<1> DEFINE Q == {k \in Nat : k <= n => h[k] \in T /\ AllApart(h[k])}
<1> HIDE DEF h, st
<1>11. 0 \in Q
  BY <1>1, <1>2, <1>10
<1>12. ASSUME NEW k \in Nat, k \in Q PROVE k + 1 \in Q
  <2> SUFFICES ASSUME k + 1 <= n PROVE h[k + 1] \in T /\ AllApart(h[k + 1])
    OBVIOUS
  <2>1. k + 1 \in 1..n /\ k + 1 \in 0..n /\ k + 1 # 0 /\ (k + 1) - 1 = k /\ k <= n
    BY <1>2
  <2>2. h[k] \in T /\ AllApart(h[k])
    BY <1>12, <2>1
  <2>3. h[k + 1] = AddManaged(h[k], NameOrder[k + 1])
    BY <1>10, <2>1
  <2>4. PICK q \in T : q = h[k]
    BY <2>2
  <2>5. AddManaged(q, NameOrder[k + 1]) \in T /\ AllApart(AddManaged(q, NameOrder[k + 1]))
    BY <1>4, <2>1, <2>2, <2>4
  <2> QED BY <2>3, <2>4, <2>5
<1>13. Nat \subseteq Q
  <2> HIDE DEF Q
  <2> QED BY <1>11, <1>12, NatSetInduction
<1>14. h[n] \in T /\ AllApart(h[n])
  BY <1>2, <1>13
<1> QED
  BY <1>3, <1>14 DEF T

-----------------------------------------------------------------------------
(* The invariants.                                                         *)

\* No source holds two sockets at once.
OneSocketPerSource ==
    \A l, k \in open : l.src.name = k.src.name => l = k

\* The names of the definitions that apply has not reached, and of the sources
\* whose old listener is to be given up after it.
Pending == {todo[i].src.name : i \in DOMAIN todo}
Moving == {p.name : p \in after}

\* No source that moves comes up at its new address while its old listener is open.
NoListenerReplaced ==
    \A p \in after :
        p.name \notin Pending /\ status[p.name].state = "running" => \A l \in open : l.src # p

\* The lists of a reconcile: no name twice, a moving source is known, and between
\* two reconciles nothing is left over.
ListsOK ==
    /\ AllApart(fetched)
    /\ \A i, j \in DOMAIN todo : i # j => todo[i].src.name # todo[j].src.name
    /\ \A p, q \in after : p.name = q.name => p = q
    /\ \A p \in after : desired[p.name] # None
    /\ lock = "free" => todo = <<>> /\ after = {}
    /\ life = "new" => watch = "idle" /\ lock = "free" /\ \A n \in Names : desired[n] = None

\* A source has a status if and only if it has a definition, and a listener only
\* under its own name.
Known ==
    \A n \in Names :
        /\ status[n] = None <=> desired[n] = None
        /\ running[n] # None => running[n].src.name = n /\ desired[n] # None

\* The HTTP endpoint belongs to a known source, which is an http_json source, was
\* one before its move, or has just become one.
HTTPKnown ==
    http # None =>
        /\ desired[http] # None
        /\ http \notin Moving => http \notin Pending /\ desired[http].src.type = "http_json"
        /\ http \in Moving =>
              \/ \E p \in after : p.name = http /\ p.type = "http_json"
              \/ /\ http \notin Pending
                 /\ status[http].state = "running"
                 /\ desired[http].src.type = "http_json"

\* Inductive without any premise.
SourcesInv == TypeOK /\ ListsOK /\ Known /\ HTTPKnown

\* The supervisor has a listener for every source that has a socket.
AllKnown == \A l \in open : running[l.src.name] # None

\* A source that waits to be moved is enabled, and its definition is still the one
\* whose listener is to be given up.
MovesPending ==
    \A i \in DOMAIN todo : todo[i].src.name \in Moving =>
      todo[i].src.enabled /\ desired[todo[i].src.name].src \in after

\* What runs: the definition remembered; in a reconcile also the old one of a source
\* that moves, until its replacement serves.
Runs ==
    \A n \in Names : running[n] # None =>
        /\ n \in Pending => n \in Moving /\ running[n].src = desired[n].src
        /\ n \notin Pending /\ n \in Moving =>
              status[n].state = "running" \/ running[n].src \in after
        /\ n \notin Pending /\ n \notin Moving => running[n].src = desired[n].src

\* What ServesItsDefinition says, also during a reconcile.
Serves ==
    life # "stopped" => \A n \in Names :
        /\ status[n] # None
        /\ status[n].state = "running"
        /\ desired[n].src.type = "syslog"
        => /\ running[n] # None
           /\ running[n].src = desired[n].src
           /\ running[n].at \in Candidates(desired[n].src)

\* Inductive beside SourcesInv, also during a reconcile and without any premise.
AgreeInv == MovesPending /\ Runs /\ Serves

-----------------------------------------------------------------------------
(* SourcesInv, action by action.                                           *)

\* The invariant holds before Start.
LEMMA SourcesInitially == Init => SourcesInv
<1> SUFFICES ASSUME Init PROVE SourcesInv
  OBVIOUS
<1>1. TypeOK
  BY SourcesAssumption DEF Init, TypeOK
<1>2. ListsOK /\ Known /\ HTTPKnown
  BY SourcesAssumption DEF Init, ListsOK, Known, HTTPKnown, AllApart
<1> QED BY <1>1, <1>2 DEF SourcesInv

\* Steps that leave the supervisor alone, and the reading of the list.
LEMMA QuietKeeps ==
  ASSUME SourcesInv,
         \/ \E n \in Names : Edit(n)
         \/ \E k \in Binds : OtherBinds(k) \/ OtherReleases(k)
         \/ ReadSources
         \/ Cancel
         \/ UNCHANGED vars
  PROVE  SourcesInv'
<1> USE DEF SourcesInv, supervisor, database, Moving, Pending
<1>1. ASSUME NEW n \in Names, Edit(n) PROVE SourcesInv'
  <2>1. TypeOK'
    BY <1>1, SourcesAssumption DEF Edit, TypeOK
  <2>2. ListsOK' /\ Known' /\ HTTPKnown'
    BY <1>1 DEF Edit, ListsOK, Known, HTTPKnown
  <2> QED BY <2>1, <2>2
<1>2. ASSUME NEW k \in Binds, OtherBinds(k) \/ OtherReleases(k) PROVE SourcesInv'
  <2>1. TypeOK'
    BY <1>2 DEF OtherBinds, OtherReleases, TypeOK
  <2>2. ListsOK' /\ Known' /\ HTTPKnown'
    BY <1>2 DEF OtherBinds, OtherReleases, ListsOK, Known, HTTPKnown
  <2> QED BY <2>1, <2>2
<1>3. CASE ReadSources
  <2>0. ManagedOK
    BY DEF TypeOK, ManagedOK
  <2>1. fetched' \in Seq(Desired) /\ AllApart(fetched')
    BY <1>3, <2>0, UnionFacts DEF ReadSources
  <2>2. TypeOK'
    BY <1>3, <2>1 DEF ReadSources, TypeOK
  <2>3. ListsOK' /\ Known' /\ HTTPKnown'
    BY <1>3, <2>1 DEF ReadSources, ListsOK, Known, HTTPKnown, AllApart
  <2> QED BY <2>2, <2>3
<1>4. CASE Cancel
  <2>1. TypeOK'
    BY <1>4 DEF Cancel, TypeOK
  <2>2. ListsOK' /\ Known' /\ HTTPKnown'
    BY <1>4 DEF Cancel, ListsOK, Known, HTTPKnown
  <2> QED BY <2>1, <2>2
<1>5. CASE UNCHANGED vars
  <2>1. TypeOK'
    BY <1>5 DEF vars, TypeOK
  <2>2. ListsOK' /\ Known' /\ HTTPKnown'
    BY <1>5 DEF vars, ListsOK, Known, HTTPKnown
  <2> QED BY <2>1, <2>2
<1> QED
  BY <1>1, <1>2, <1>3, <1>4, <1>5

\* Start hands the sources of the file to apply.
LEMMA StartKeeps ==
  ASSUME SourcesInv, Start
  PROVE  SourcesInv'
<1> USE DEF SourcesInv
<1>1. PICK t : t = FileSources(File)
  OBVIOUS
<1>2. t \in Seq(Desired) /\ \A i, j \in DOMAIN t : i # j => t[i].src.name # t[j].src.name
  <2>1. File \in Seq(Source) /\ \A i, j \in DOMAIN File : i # j => File[i].name # File[j].name
    BY SourcesAssumption
  <2>2. t \in [1..Len(File) -> Desired] /\ \A i \in DOMAIN t : t[i].src = File[i]
    BY <1>1, <2>1 DEF FileSources, Desired
  <2>3. DOMAIN t = DOMAIN File /\ Len(File) \in Nat
    BY <1>1, <2>1 DEF FileSources
  <2>4. t \in Seq(Desired)
    BY <2>2, <2>3
  <2> QED BY <2>1, <2>2, <2>3, <2>4
<1>3. TypeOK'
  BY <1>1, <1>2 DEF Start, database, TypeOK
<1>4. ListsOK'
  BY <1>1, <1>2 DEF Start, database, ListsOK
<1>5. Known'
  BY DEF Start, Known
<1>6. http = None
  BY DEF Start, ListsOK, HTTPKnown, TypeOK
<1>7. HTTPKnown'
  BY <1>6 DEF Start, HTTPKnown
<1> QED BY <1>3, <1>4, <1>5, <1>7

\* The definition that apply records.
LEMMA RecordFacts ==
  ASSUME SourcesInv, todo # <<>>, NEW st \in {"running", "error", "disabled"},
         Record(Head(todo), st)
  PROVE  \E d \in Desired :
           /\ d = Head(todo) /\ d.src.name \in Names
           /\ todo' = Tail(todo) /\ todo' \in Seq(Desired)
           /\ \A i, j \in DOMAIN todo' : i # j => todo'[i].src.name # todo'[j].src.name
           /\ \A i \in DOMAIN todo' : \E j \in DOMAIN todo : todo'[i] = todo[j]
           /\ Pending' = Pending \ {d.src.name} /\ d.src.name \in Pending
           /\ \E i \in DOMAIN todo : d = todo[i]
           /\ Moving' = Moving
           /\ desired' = [desired EXCEPT ![d.src.name] = d]
           /\ status' = [status EXCEPT ![d.src.name] = [state |-> st, type |-> d.src.type]]
<1> DEFINE d == Head(todo)
           t == Tail(todo)
           n == Len(todo)
<1>1. todo \in Seq(Desired) /\ \A i, j \in DOMAIN todo : i # j => todo[i].src.name # todo[j].src.name
  BY DEF SourcesInv, TypeOK, ListsOK
<1>2. /\ n \in Nat /\ n > 0 /\ DOMAIN todo = 1..n /\ d = todo[1] /\ d \in Desired
      /\ t \in Seq(Desired) /\ DOMAIN t = 1..(n - 1) /\ \A i \in 1..(n - 1) : t[i] = todo[i + 1]
  BY <1>1, HeadTailProperties
<1>3. /\ todo' = t /\ after' = after
      /\ desired' = [desired EXCEPT ![d.src.name] = d]
      /\ status' = [status EXCEPT ![d.src.name] = [state |-> st, type |-> d.src.type]]
  BY DEF Record
<1> HIDE DEF d, t, n
<1>4. \A i \in 1..(n - 1) : i + 1 \in 1..n /\ i + 1 # 1
  BY <1>2
<1>5. \A i \in 1..n : i # 1 => i - 1 \in 1..(n - 1) /\ (i - 1) + 1 = i
  BY <1>2
<1>6. 1 \in 1..n
  BY <1>2
<1>7. \A i, j \in DOMAIN t : i # j => t[i].src.name # t[j].src.name
  <2> SUFFICES ASSUME NEW i \in 1..(n - 1), NEW j \in 1..(n - 1), i # j
               PROVE  t[i].src.name # t[j].src.name
    BY <1>2
  <2>1. i + 1 # j + 1
    BY <1>2
  <2>2. i + 1 \in DOMAIN todo /\ j + 1 \in DOMAIN todo /\ t[i] = todo[i + 1] /\ t[j] = todo[j + 1]
    BY <1>2, <1>4
  <2> QED BY <1>1, <2>1, <2>2
<1>8. \A i \in DOMAIN t : \E j \in DOMAIN todo : t[i] = todo[j]
  BY <1>2, <1>4
<1>9. {t[i].src.name : i \in DOMAIN t} = {todo[i].src.name : i \in DOMAIN todo} \ {d.src.name}
  <2>1. ASSUME NEW i \in DOMAIN t
        PROVE  t[i].src.name \in {todo[j].src.name : j \in DOMAIN todo} \ {d.src.name}
    BY <1>1, <1>2, <1>4, <1>6
  <2>2. ASSUME NEW j \in DOMAIN todo, todo[j].src.name # d.src.name
        PROVE  todo[j].src.name \in {t[i].src.name : i \in DOMAIN t}
    BY <1>2, <1>5, <2>2
  <2> QED BY <2>1, <2>2
<1>10. d.src.name \in {todo[i].src.name : i \in DOMAIN todo}
  BY <1>2, <1>6
<1>11. d.src.name \in Names
  BY <1>2 DEF Desired, Source
<1>12. Pending' = Pending \ {d.src.name} /\ d.src.name \in Pending /\ Moving' = Moving
  BY <1>3, <1>9, <1>10 DEF Pending, Moving
<1>13. \E i \in DOMAIN todo : d = todo[i]
  BY <1>2, <1>6
<1> QED
  BY <1>2, <1>3, <1>7, <1>8, <1>11, <1>12, <1>13 DEF d, t

\* One round of apply keeps the invariant.
LEMMA ApplyKeeps ==
  ASSUME SourcesInv, Apply
  PROVE  SourcesInv'
<1> USE DEF SourcesInv
<1>0. todo # <<>> /\ lock = "apply"
  BY DEF Apply, ApplyDisabled, ApplyHTTP, ApplyListener, ApplyFails, ListsOK, TypeOK
<1>1. PICK st \in {"running", "error", "disabled"} : Record(Head(todo), st)
  BY DEF Apply, ApplyDisabled, ApplyHTTP, ApplyListener, ApplyFails
<1>2. PICK d \in Desired :
           /\ d = Head(todo) /\ d.src.name \in Names
           /\ todo' = Tail(todo) /\ todo' \in Seq(Desired)
           /\ \A i, j \in DOMAIN todo' : i # j => todo'[i].src.name # todo'[j].src.name
           /\ \A i \in DOMAIN todo' : \E j \in DOMAIN todo : todo'[i] = todo[j]
           /\ Pending' = Pending \ {d.src.name} /\ d.src.name \in Pending
           /\ \E i \in DOMAIN todo : d = todo[i]
           /\ Moving' = Moving
           /\ desired' = [desired EXCEPT ![d.src.name] = d]
           /\ status' = [status EXCEPT ![d.src.name] = [state |-> st, type |-> d.src.type]]
  BY <1>0, <1>1, RecordFacts
<1>3. /\ managed' = managed /\ edits' = edits /\ fetched' = fetched /\ watch' = watch
      /\ lock' = lock /\ after' = after /\ taken' = taken /\ life' = life
  BY <1>1 DEF Record, database
<1>4. PICK n \in Names : n = d.src.name
  BY <1>2
<1>5. d # None /\ [state |-> st, type |-> d.src.type] \in Status
  BY SourcesAssumption DEF Desired, Source, Status
<1>6. [state |-> st, type |-> d.src.type] # None
  BY <1>5, SourcesAssumption
<1>7. /\ desired \in [Names -> Desired \cup {None}] /\ status \in [Names -> Status \cup {None}]
      /\ \A m \in Names : desired[m] # None => desired[m].src.name = m
      /\ running \in [Names -> open \cup {None}] /\ open \subseteq Listener
  BY DEF TypeOK
<1>8. /\ desired' \in [Names -> Desired \cup {None}] /\ status' \in [Names -> Status \cup {None}]
      /\ desired'[n] = d /\ \A m \in Names : m # n => desired'[m] = desired[m] /\ status'[m] = status[m]
      /\ status'[n] = [state |-> st, type |-> d.src.type]
  BY <1>2, <1>4, <1>5, <1>7
<1>9. /\ running' \in [Names -> open' \cup {None}] /\ open' \subseteq Listener
      /\ \A m \in Names : m # n => running'[m] = running[m]
      /\ running'[n] # running[n] => running'[n].src = d.src
  <2>1. CASE running' = running /\ open' = open
    BY <1>7, <2>1
  <2>2. CASE ApplyListener
    <3>1. PICK k \in Candidates(d.src) : /\ open' = open \cup {[at |-> k, src |-> d.src]}
                                       /\ running' = [running EXCEPT ![n] = [at |-> k, src |-> d.src]]
      BY <1>2, <1>4, <2>2 DEF ApplyListener
    <3>2. [at |-> k, src |-> d.src] \in Listener
      BY <3>1 DEF Candidates, Listener, Desired
    <3> QED BY <1>7, <3>1, <3>2
  <2> QED BY <2>1, <2>2 DEF Apply, ApplyDisabled, ApplyHTTP, ApplyFails
<1>10. http' = http \/ (http = None /\ http' = n /\ d.src.type = "http_json" /\ st = "running")
  <2>1. CASE ApplyHTTP
    <3>1. Record(Head(todo), "running") /\ http = None /\ http' = n /\ d.src.type = "http_json"
      BY <1>2, <1>4, <2>1 DEF ApplyHTTP, HTTPFree
    <3>2. status'[n].state = "running"
      BY <1>4, <1>2, <1>7, <3>1 DEF Record
    <3>3. st = "running"
      BY <1>8, <3>2
    <3> QED BY <3>1, <3>3
  <2> QED BY <2>1 DEF Apply, ApplyDisabled, ApplyListener, ApplyFails
<1>11. TypeOK'
  <2>1. \A m \in Names : desired'[m] # None => desired'[m].src.name = m
    BY <1>4, <1>7, <1>8
  <2> QED BY <1>2, <1>3, <1>8, <1>9, <1>10, <2>1 DEF TypeOK
<1>12. ListsOK'
  <2>1. \A p \in after' : desired'[p.name] # None
    <3> SUFFICES ASSUME NEW p \in after PROVE desired'[p.name] # None
      BY <1>3
    <3>1. p.name \in Names /\ desired[p.name] # None
      BY DEF ListsOK, TypeOK, Source
    <3> QED BY <1>5, <1>8, <3>1
  <2>2. life # "new" /\ lock # "free"
    BY <1>0 DEF ListsOK
  <2> QED BY <1>2, <1>3, <2>1, <2>2 DEF ListsOK
<1>13. Known'
  <2> SUFFICES ASSUME NEW m \in Names
               PROVE  /\ status'[m] = None <=> desired'[m] = None
                      /\ running'[m] # None => running'[m].src.name = m /\ desired'[m] # None
    BY DEF Known
  <2>1. CASE m = n
    BY <1>4, <1>5, <1>6, <1>8, <1>9, <2>1 DEF Known
  <2>2. CASE m # n
    BY <1>8, <1>9, <2>2 DEF Known
  <2> QED BY <2>1, <2>2
<1>14. HTTPKnown'
  <2> SUFFICES ASSUME http' # None
      PROVE  /\ desired'[http'] # None
             /\ http' \notin Moving => http' \notin Pending' /\ desired'[http'].src.type = "http_json"
             /\ http' \in Moving =>
                   \/ \E p \in after : p.name = http' /\ p.type = "http_json"
                   \/ /\ http' \notin Pending'
                      /\ status'[http'].state = "running"
                      /\ desired'[http'].src.type = "http_json"
    BY <1>2, <1>3 DEF HTTPKnown
  <2>1. CASE http' # http
    BY <1>2, <1>4, <1>5, <1>8, <1>10, <2>1
  <2>2. CASE http' = http /\ http = n
    BY <1>2, <1>4, <1>5, <1>8, <2>2 DEF HTTPKnown
  <2>3. CASE http' = http /\ http # n
    <3>1. http \in Names
      BY <2>3 DEF TypeOK
    <3> QED BY <1>2, <1>4, <1>8, <2>3, <3>1 DEF HTTPKnown
  <2> QED BY <2>1, <2>2, <2>3
<1> QED BY <1>11, <1>12, <1>13, <1>14

\* What Reconcile does before apply, source by source.
BeginWith(changed, removed, first, gone) ==
    /\ changed \in Seq(Desired)
    /\ \A i, j \in DOMAIN changed : i # j => changed[i].src.name # changed[j].src.name
    /\ \A i \in DOMAIN changed :
          /\ desired[changed[i].src.name] # changed[i]
          /\ \E a \in DOMAIN fetched : changed[i] = fetched[a]
    /\ removed \subseteq Names /\ gone \subseteq Names
    /\ \A n \in removed : desired[n] # None /\ \A a \in DOMAIN fetched : fetched[a].src.name # n
    /\ first \subseteq DOMAIN changed
    /\ \A i \in first : desired[changed[i].src.name] # None
    /\ \A i \in DOMAIN changed \ first :
          \/ desired[changed[i].src.name] = None
          \/ ~StopsFirst(desired[changed[i].src.name].src, changed[i].src)
    /\ gone = removed \cup {changed[i].src.name : i \in first}
    /\ after' = {desired[changed[i].src.name].src :
                   i \in {j \in DOMAIN changed \ first : desired[changed[j].src.name] # None}}
    /\ running' = [n \in Names |-> IF n \in gone THEN None ELSE running[n]]
    /\ open' = open \ {running[n] : n \in gone}
    /\ http' = IF \E n \in gone : http = n /\ desired[n].src.type = "http_json" THEN None ELSE http
    /\ desired' = [n \in Names |-> IF n \in removed THEN None ELSE desired[n]]
    /\ status' = [n \in Names |->
          IF n \in removed THEN None ELSE IF n \in gone THEN StatusStopped(n) ELSE status[n]]
    /\ todo' = changed
    /\ lock = "free" /\ watch = "read"
    /\ lock' = IF changed = <<>> THEN "free" ELSE "apply"
    /\ watch' = IF changed = <<>> THEN "idle" ELSE "read"
    /\ UNCHANGED <<managed, edits, fetched, taken, life>>

\* ReconcileBegin is such a step.
LEMMA BeginFacts ==
  ASSUME SourcesInv, ReconcileBegin
  PROVE  \E changed, removed, first, gone : BeginWith(changed, removed, first, gone)
<1> DEFINE wanted  == {fetched[i].src.name : i \in DOMAIN fetched}
           removed == {n \in Names : desired[n] # None /\ n \notin wanted}
           changed == Keep(fetched, {d \in Range(fetched) : Changed(d)})
           known   == {d \in Range(changed) : desired[d.src.name] # None}
           firstD  == {d \in known : StopsFirst(desired[d.src.name].src, d.src)}
           gone    == removed \cup NamesOf(firstD)
           prev    == [n \in gone |-> desired[n].src]
           first   == {i \in DOMAIN changed : changed[i] \in firstD}
<1>1. fetched \in Seq(Desired) /\ AllApart(fetched)
  BY DEF SourcesInv, TypeOK, ListsOK
<1>2. /\ changed \in Seq(Desired)
      /\ \A i \in DOMAIN changed :
             /\ changed[i] \in {d \in Range(fetched) : Changed(d)}
             /\ \E a \in DOMAIN fetched : changed[i] = fetched[a]
      /\ \A i, j \in DOMAIN changed : i # j =>
             \E a, b \in DOMAIN fetched : a # b /\ changed[i] = fetched[a] /\ changed[j] = fetched[b]
  <2>1. PICK S : S = {d \in Range(fetched) : Changed(d)}
    OBVIOUS
  <2>2. PICK k : k = Keep(fetched, S)
    OBVIOUS
  <2>3. /\ k \in Seq(Desired)
        /\ \A i \in DOMAIN k : k[i] \in S /\ \E a \in DOMAIN fetched : k[i] = fetched[a]
        /\ \A i, j \in DOMAIN k : i # j =>
             \E a, b \in DOMAIN fetched : a # b /\ k[i] = fetched[a] /\ k[j] = fetched[b]
    BY <1>1, <2>2, KeepFacts
  <2>4. k = changed
    BY <2>1, <2>2
  <2> HIDE DEF changed
  <2> QED BY <2>1, <2>3, <2>4
<1>3. /\ watch = "read" /\ lock = "free"
      /\ CloseListeners(gone)
      /\ http' = HTTPWithout(gone, prev)
      /\ desired' = [n \in Names |-> IF n \in removed THEN None ELSE desired[n]]
      /\ status' = [n \in Names |->
            IF n \in removed THEN None ELSE IF n \in gone THEN StatusStopped(n) ELSE status[n]]
      /\ after' = {desired[d.src.name].src : d \in known \ firstD}
      /\ todo' = changed
      /\ lock' = IF changed = <<>> THEN "free" ELSE "apply"
      /\ watch' = IF changed = <<>> THEN "idle" ELSE "read"
      /\ UNCHANGED <<managed, edits, fetched, taken, life>>
  BY DEF ReconcileBegin, database
<1> HIDE DEF changed
<1>4. Range(changed) = {changed[i] : i \in DOMAIN changed}
  BY DEF Range
<1>5. \A i, j \in DOMAIN changed : i # j => changed[i].src.name # changed[j].src.name
  <2> SUFFICES ASSUME NEW i \in DOMAIN changed, NEW j \in DOMAIN changed, i # j
               PROVE  changed[i].src.name # changed[j].src.name
    OBVIOUS
  <2>1. PICK a \in DOMAIN fetched, b \in DOMAIN fetched :
            a # b /\ changed[i] = fetched[a] /\ changed[j] = fetched[b]
    BY <1>2
  <2> QED BY <1>1, <2>1 DEF AllApart, Apart
<1>6. \A i \in DOMAIN changed : desired[changed[i].src.name] # changed[i]
  BY <1>2 DEF Changed
<1>7. \A i \in DOMAIN changed : changed[i].src.name \in Names
  <2>1. \A i \in DOMAIN changed : changed[i] \in Desired
    BY <1>2
  <2> QED BY <2>1 DEF Desired, Source
<1>8. NamesOf(firstD) = {changed[i].src.name : i \in first}
  BY <1>4 DEF NamesOf
<1>9. gone \subseteq Names /\ removed \subseteq Names
  BY <1>7, <1>8
<1>10. {desired[d.src.name].src : d \in known \ firstD}
         = {desired[changed[i].src.name].src :
              i \in {j \in DOMAIN changed \ first : desired[changed[j].src.name] # None}}
  BY <1>4
<1>11. HTTPWithout(gone, prev) = IF \E n \in gone : http = n /\ desired[n].src.type = "http_json" THEN None ELSE http
  <2> HIDE DEF gone
  <2> QED BY DEF HTTPWithout
<1>12. \A i \in first : desired[changed[i].src.name] # None
  OBVIOUS
<1>13. \A i \in DOMAIN changed \ first :
          \/ desired[changed[i].src.name] = None
          \/ ~StopsFirst(desired[changed[i].src.name].src, changed[i].src)
  BY <1>4
<1>14. \A n \in removed : desired[n] # None /\ \A a \in DOMAIN fetched : fetched[a].src.name # n
  OBVIOUS
<1>15. gone = removed \cup {changed[i].src.name : i \in first}
  BY <1>8
<1>16. first \subseteq DOMAIN changed
  OBVIOUS
<1>17. /\ running' = [n \in Names |-> IF n \in gone THEN None ELSE running[n]]
       /\ open' = open \ {running[n] : n \in gone}
  BY <1>3 DEF CloseListeners
<1>18. /\ http' = IF \E n \in gone : http = n /\ desired[n].src.type = "http_json" THEN None ELSE http
       /\ after' = {desired[changed[i].src.name].src :
                   i \in {j \in DOMAIN changed \ first : desired[changed[j].src.name] # None}}
  BY <1>3, <1>10, <1>11
<1> HIDE DEF wanted, removed, known, firstD, gone, prev, first
<1>19. BeginWith(changed, removed, first, gone)
  BY <1>2, <1>3, <1>5, <1>6, <1>9, <1>12, <1>13, <1>14, <1>15, <1>16, <1>17, <1>18 DEF BeginWith
<1> QED
  BY <1>19

\* The first half of Reconcile keeps the invariant.
LEMMA BeginKeeps ==
  ASSUME SourcesInv, ReconcileBegin
  PROVE  SourcesInv'
<1>1. PICK changed, removed, first, gone : BeginWith(changed, removed, first, gone)
  BY BeginFacts
<1> USE DEF SourcesInv
<1>2. todo = <<>> /\ after = {} /\ Moving = {} /\ Pending = {}
  BY <1>1 DEF BeginWith, ListsOK, Moving, Pending
<1>3. \A i \in DOMAIN changed : changed[i].src.name \in Names /\ changed[i] \in Desired
  <2>1. \A i \in DOMAIN changed : changed[i] \in Desired
    BY <1>1 DEF BeginWith
  <2> QED BY <2>1 DEF Desired, Source
<1>4. /\ \A n \in Names : desired'[n] = IF n \in removed THEN None ELSE desired[n]
      /\ \A n \in Names : running'[n] = IF n \in gone THEN None ELSE running[n]
      /\ \A n \in Names : status'[n] = IF n \in removed THEN None
                                        ELSE IF n \in gone THEN StatusStopped(n) ELSE status[n]
  BY <1>1 DEF BeginWith
<1>5. \A n \in Names : status[n] # None => StatusStopped(n) \in Status /\ StatusStopped(n) # None
  <2> SUFFICES ASSUME NEW n \in Names, status[n] # None
               PROVE  StatusStopped(n) \in Status /\ StatusStopped(n) # None
    OBVIOUS
  <2>1. status[n] \in Status
    BY DEF TypeOK
  <2>2. StatusStopped(n) \in Status
    BY <2>1 DEF StatusStopped, Status
  <2> QED BY <2>2, SourcesAssumption
<1>6. \A n \in gone : desired[n] # None /\ status[n] # None /\ n \in Names
  BY <1>1 DEF BeginWith, Known
<1>7. \A n \in Names : desired[n] # None => desired[n] \in Desired /\ desired[n].src.name = n
                                                /\ desired[n].src \in Source
  BY DEF TypeOK, Desired
<1>8. \A p \in after' : \E i \in DOMAIN changed \ first :
         /\ p = desired[changed[i].src.name].src /\ desired[changed[i].src.name] # None
         /\ p.name = changed[i].src.name /\ p \in Source
  BY <1>1, <1>3, <1>7 DEF BeginWith
<1>9. \A i \in DOMAIN changed : changed[i].src.name \notin removed
  BY <1>1 DEF BeginWith
<1>10. TypeOK'
  <2>1. desired' \in [Names -> Desired \cup {None}] /\ \A n \in Names : desired'[n] # None => desired'[n].src.name = n
    BY <1>1, <1>4 DEF BeginWith, TypeOK
  <2>2. status' \in [Names -> Status \cup {None}]
    <3>1. \A n \in Names : status[n] \in Status \cup {None}
      BY DEF TypeOK
    <3>2. \A n \in Names : status'[n] \in Status \cup {None}
      BY <1>4, <1>5, <1>6, <3>1
    <3> QED BY <1>1, <3>2 DEF BeginWith
  <2>3. running' \in [Names -> open' \cup {None}] /\ open' \subseteq Listener
    <3>1. \A n \in Names : running'[n] \in open' \cup {None}
      <4> SUFFICES ASSUME NEW n \in Names, n \notin gone, running[n] # None PROVE running[n] \in open'
        BY <1>4
      <4>1. running[n] \in open /\ running[n].src.name = n
        BY DEF TypeOK, Known
      <4>2. \A m \in gone : running[m] # running[n]
        BY <1>6, <4>1 DEF Known
      <4> QED BY <1>1, <4>1, <4>2 DEF BeginWith
    <3> QED BY <1>1, <3>1 DEF BeginWith, TypeOK
  <2>4. after' \subseteq Source
    BY <1>8
  <2>5. /\ todo' \in Seq(Desired) /\ lock' \in {"free", "apply"} /\ watch' \in {"idle", "read"}
        /\ http' \in Names \cup {None}
    BY <1>1 DEF BeginWith, TypeOK
  <2>6. managed' = managed /\ edits' = edits /\ fetched' = fetched /\ taken' = taken /\ life' = life
    BY <1>1 DEF BeginWith
  <2> QED BY <2>1, <2>2, <2>3, <2>4, <2>5, <2>6 DEF TypeOK
<1>11. ListsOK'
  <2>1. /\ fetched' = fetched /\ life' = life /\ todo' = changed /\ life # "new"
        /\ lock' = IF changed = <<>> THEN "free" ELSE "apply"
    BY <1>1 DEF BeginWith, ListsOK
  <2>2. \A p, q \in after' : p.name = q.name => p = q
    BY <1>8
  <2>3. \A p \in after' : desired'[p.name] # None
    BY <1>3, <1>4, <1>8, <1>9
  <2>4. changed = <<>> => after' = {}
    <3>1. changed = <<>> => DOMAIN changed = {}
      OBVIOUS
    <3> QED BY <1>8, <3>1
  <2>5. \A i, j \in DOMAIN changed : i # j => changed[i].src.name # changed[j].src.name
    BY <1>1 DEF BeginWith
  <2> QED BY <2>1, <2>2, <2>3, <2>4, <2>5 DEF ListsOK
<1>12. Known'
  <2> SUFFICES ASSUME NEW n \in Names
               PROVE  /\ status'[n] = None <=> desired'[n] = None
                      /\ running'[n] # None => running'[n].src.name = n /\ desired'[n] # None
    BY DEF Known
  <2>1. removed \subseteq gone
    BY <1>1 DEF BeginWith
  <2> QED BY <1>4, <1>5, <1>6, <2>1 DEF Known
<1>13. HTTPKnown'
  <2> SUFFICES ASSUME http' # None PROVE HTTPKnown'
    BY DEF HTTPKnown
  <2>1. http' = http /\ http \in Names /\ desired[http] # None /\ desired[http].src.type = "http_json"
    BY <1>1, <1>2 DEF BeginWith, HTTPKnown, TypeOK
  <2>2. http \notin gone
    BY <1>1, <2>1 DEF BeginWith
  <2>3. desired'[http] = desired[http]
    BY <1>1, <1>4, <2>1, <2>2 DEF BeginWith
  <2>4. http \in Pending' => \E p \in after' : p.name = http /\ p.type = "http_json"
    <3> SUFFICES ASSUME http \in Pending' PROVE \E p \in after' : p.name = http /\ p.type = "http_json"
      OBVIOUS
    <3>1. PICK i \in DOMAIN changed : changed[i].src.name = http
      BY <1>1 DEF BeginWith, Pending
    <3>2. i \notin first
      BY <1>1, <2>2, <3>1 DEF BeginWith
    <3>3. desired[http].src \in after'
      BY <1>1, <2>1, <3>1, <3>2 DEF BeginWith
    <3> QED BY <1>7, <2>1, <3>3
  <2>5. http \in Moving' => \E p \in after' : p.name = http /\ p.type = "http_json"
    <3> SUFFICES ASSUME http \in Moving' PROVE \E p \in after' : p.name = http /\ p.type = "http_json"
      OBVIOUS
    <3>1. PICK p \in after' : p.name = http
      BY DEF Moving
    <3> QED BY <1>8, <2>1, <3>1
  <2> QED BY <2>1, <2>3, <2>4, <2>5 DEF HTTPKnown, Moving
<1> QED BY <1>10, <1>11, <1>12, <1>13

\* What Reconcile does after apply, source by source.
EndWith(gone) ==
    /\ gone \subseteq Names
    /\ \A n \in Names : n \in gone <=> n \in Moving /\ status[n].state = "running"
    /\ running' = [n \in Names |-> IF n \in gone THEN None ELSE running[n]]
    /\ open' = open \ {running[n] : n \in gone}
    /\ http' = IF \E p \in after : p.name \in gone /\ http = p.name /\ p.type = "http_json"
               THEN None ELSE http
    /\ status' = [n \in Names |-> IF n \in gone THEN StatusStopped(n) ELSE status[n]]
    /\ DOMAIN desired' = Names /\ desired' = [n \in Names |-> desired'[n]]
    /\ \A p \in after : p.name \notin gone =>
          desired'[p.name] = [src |-> p, origin |-> desired[p.name].origin]
    /\ \A n \in Names : n \notin Moving \/ n \in gone => desired'[n] = desired[n]
    /\ lock = "apply" /\ todo = <<>>
    /\ after' = {} /\ lock' = "free" /\ watch' = "idle" /\ todo' = todo
    /\ life' = IF life = "starting" THEN "up" ELSE life
    /\ UNCHANGED <<managed, edits, fetched, taken>>

\* ReconcileEnd is such a step.
LEMMA EndFacts ==
  ASSUME SourcesInv, ReconcileEnd
  PROVE  \E gone : EndWith(gone)
<1> DEFINE served == {p \in after : ReplacementServes(p)}
           gone   == {p.name : p \in served}
           prev   == [n \in gone |-> CHOOSE p \in served : p.name = n]
<1>1. \A p \in after : p.name \in Names
  BY DEF SourcesInv, TypeOK, Source
<1>2. \A p, q \in after : p.name = q.name => p = q
  BY DEF SourcesInv, ListsOK
<1>3. gone \subseteq Names
  BY <1>1
<1>4. \A n \in Names : n \in gone <=> n \in Moving /\ status[n].state = "running"
  BY DEF ReplacementServes, Moving
<1>5. \A p \in after : p.name \in gone <=> p \in served
  BY <1>2
<1>6. \A p \in served : prev[p.name] = p
  <2> SUFFICES ASSUME NEW p \in served PROVE prev[p.name] = p
    OBVIOUS
  <2>1. p.name \in gone /\ prev[p.name] = CHOOSE q \in served : q.name = p.name
    OBVIOUS
  <2>2. (CHOOSE q \in served : q.name = p.name) \in served /\ (CHOOSE q \in served : q.name = p.name).name = p.name
    OBVIOUS
  <2> HIDE DEF prev, gone
  <2> QED BY <1>2, <2>1, <2>2
<1>7. HTTPWithout(gone, prev) = IF \E p \in after : p.name \in gone /\ http = p.name /\ p.type = "http_json"
                               THEN None ELSE http
  <2>1. (\E n \in gone : http = n /\ prev[n].type = "http_json")
          <=> \E p \in after : p.name \in gone /\ http = p.name /\ p.type = "http_json"
    <3> HIDE DEF prev
    <3> QED BY <1>5, <1>6
  <2> HIDE DEF prev, gone
  <2> QED BY <2>1 DEF HTTPWithout
<1>8. /\ lock = "apply" /\ todo = <<>>
      /\ CloseListeners(gone)
      /\ http' = HTTPWithout(gone, prev)
      /\ status' = [n \in Names |-> IF n \in gone THEN StatusStopped(n) ELSE status[n]]
      /\ desired' = [n \in Names |->
              IF \E p \in after \ served : p.name = n
              THEN Restored(CHOOSE p \in after : p.name = n)
              ELSE desired[n]]
      /\ after' = {} /\ lock' = "free" /\ watch' = "idle" /\ todo' = todo
      /\ life' = IF life = "starting" THEN "up" ELSE life
      /\ UNCHANGED <<managed, edits, fetched, taken>>
  BY DEF ReconcileEnd, database
<1>9. \A p \in after : p.name \notin gone =>
          desired'[p.name] = [src |-> p, origin |-> desired[p.name].origin]
  <2> SUFFICES ASSUME NEW p \in after, p.name \notin gone
               PROVE  desired'[p.name] = [src |-> p, origin |-> desired[p.name].origin]
    OBVIOUS
  <2>1. p \in after \ served /\ p.name \in Names
    BY <1>1, <1>5
  <2>2. desired'[p.name] = Restored(CHOOSE q \in after : q.name = p.name)
    BY <1>8, <2>1
  <2>3. (CHOOSE q \in after : q.name = p.name) = p
    BY <1>2
  <2> QED BY <2>2, <2>3 DEF Restored
<1>10. \A n \in Names : n \notin Moving \/ n \in gone => desired'[n] = desired[n]
  <2> SUFFICES ASSUME NEW n \in Names, n \notin Moving \/ n \in gone PROVE desired'[n] = desired[n]
    OBVIOUS
  <2>1. ~ \E p \in after \ served : p.name = n
    BY <1>5 DEF Moving
  <2> QED BY <1>8, <2>1
<1>11. DOMAIN desired' = Names /\ desired' = [n \in Names |-> desired'[n]]
  BY <1>8
<1> HIDE DEF served, gone, prev
<1>12. EndWith(gone)
  BY <1>3, <1>4, <1>7, <1>8, <1>9, <1>10, <1>11 DEF EndWith, CloseListeners
<1> QED BY <1>12

\* The second half of Reconcile keeps the invariant.
LEMMA EndKeeps ==
  ASSUME SourcesInv, ReconcileEnd
  PROVE  SourcesInv'
<1>1. PICK gone : EndWith(gone)
  BY EndFacts
<1> USE DEF SourcesInv
<1>2. /\ \A n \in Names : running'[n] = IF n \in gone THEN None ELSE running[n]
      /\ \A n \in Names : status'[n] = IF n \in gone THEN StatusStopped(n) ELSE status[n]
  BY <1>1 DEF EndWith
<1>3. \A p \in after : p.name \in Names /\ p \in Source /\ desired[p.name] # None
  BY DEF TypeOK, ListsOK, Source
<1>4. \A n \in gone : n \in Names /\ n \in Moving /\ desired[n] # None /\ status[n] # None
  <2>1. \A n \in gone : n \in Names /\ n \in Moving
    BY <1>1 DEF EndWith
  <2>2. \A n \in gone : desired[n] # None
    BY <1>3, <2>1 DEF Moving
  <2> QED BY <2>1, <2>2 DEF Known
<1>5. \A n \in Names : status[n] # None => StatusStopped(n) \in Status /\ StatusStopped(n) # None
  <2> SUFFICES ASSUME NEW n \in Names, status[n] # None
               PROVE  StatusStopped(n) \in Status /\ StatusStopped(n) # None
    OBVIOUS
  <2>1. status[n] \in Status
    BY DEF TypeOK
  <2>2. StatusStopped(n) \in Status
    BY <2>1 DEF StatusStopped, Status
  <2> QED BY <2>2, SourcesAssumption
<1>6. \A n \in Names : \/ desired'[n] = desired[n]
                        \/ \E p \in after : /\ p.name = n /\ n \notin gone
                                            /\ desired'[n] = [src |-> p, origin |-> desired[n].origin]
  <2> SUFFICES ASSUME NEW n \in Names, n \in Moving, n \notin gone
               PROVE  \E p \in after : /\ p.name = n /\ n \notin gone
                                      /\ desired'[n] = [src |-> p, origin |-> desired[n].origin]
    BY <1>1 DEF EndWith
  <2>1. PICK p \in after : p.name = n
    BY DEF Moving
  <2> QED BY <1>1, <2>1 DEF EndWith
<1>7. ASSUME NEW n \in Names
      PROVE  /\ desired'[n] \in Desired \cup {None}
             /\ desired'[n] # None => desired'[n].src.name = n
             /\ desired'[n] = None <=> desired[n] = None
  <2>1. CASE desired'[n] = desired[n]
    BY <2>1 DEF TypeOK
  <2>2. CASE \E p \in after : /\ p.name = n /\ n \notin gone
                              /\ desired'[n] = [src |-> p, origin |-> desired[n].origin]
    <3>1. PICK p \in after : p.name = n /\ desired'[n] = [src |-> p, origin |-> desired[n].origin]
      BY <2>2
    <3>2. p \in Source /\ desired[n] # None /\ desired[n] \in Desired
      BY <1>3, <3>1 DEF TypeOK
    <3>3. desired'[n] \in Desired /\ desired'[n].src = p
      BY <3>1, <3>2 DEF Desired
    <3> QED BY <3>1, <3>2, <3>3, SourcesAssumption
  <2> QED BY <1>6, <2>1, <2>2
<1>8. TypeOK'
  <2>1. desired' \in [Names -> Desired \cup {None}]
    BY <1>1, <1>7 DEF EndWith
  <2>2. status' \in [Names -> Status \cup {None}]
    <3>1. \A n \in Names : status[n] \in Status \cup {None}
      BY DEF TypeOK
    <3>2. \A n \in Names : status'[n] \in Status \cup {None}
      BY <1>2, <1>4, <1>5, <3>1
    <3> QED BY <1>1, <3>2 DEF EndWith
  <2>3. running' \in [Names -> open' \cup {None}] /\ open' \subseteq Listener
    <3>1. \A n \in Names : running'[n] \in open' \cup {None}
      <4> SUFFICES ASSUME NEW n \in Names, n \notin gone, running[n] # None PROVE running[n] \in open'
        BY <1>2
      <4>1. running[n] \in open /\ running[n].src.name = n
        BY DEF TypeOK, Known
      <4>2. \A m \in gone : running[m] # running[n]
        BY <1>4, <4>1 DEF Known
      <4> QED BY <1>1, <4>1, <4>2 DEF EndWith
    <3> QED BY <1>1, <3>1 DEF EndWith, TypeOK
  <2>4. /\ after' \subseteq Source /\ todo' \in Seq(Desired) /\ lock' \in {"free", "apply"}
        /\ watch' \in {"idle", "read"} /\ http' \in Names \cup {None}
    BY <1>1 DEF EndWith, TypeOK
  <2>5. /\ managed' = managed /\ edits' = edits /\ fetched' = fetched /\ taken' = taken
        /\ life' \in {"new", "starting", "up", "draining", "stopped"}
    BY <1>1 DEF EndWith, TypeOK
  <2> QED BY <1>7, <2>1, <2>2, <2>3, <2>4, <2>5 DEF TypeOK
<1>9. ListsOK'
  BY <1>1 DEF EndWith, ListsOK
<1>10. Known'
  <2> SUFFICES ASSUME NEW n \in Names
               PROVE  /\ status'[n] = None <=> desired'[n] = None
                      /\ running'[n] # None => running'[n].src.name = n /\ desired'[n] # None
    BY DEF Known
  <2> QED BY <1>2, <1>4, <1>5, <1>7 DEF Known
<1>11. HTTPKnown'
  <2> SUFFICES ASSUME http' # None PROVE desired'[http'] # None /\ desired'[http'].src.type = "http_json"
    <3>1. Pending' = {} /\ Moving' = {}
      BY <1>1 DEF EndWith, Pending, Moving
    <3> QED BY <3>1 DEF HTTPKnown
  <2>1. http' = http /\ http \in Names /\ desired[http] # None
    BY <1>1 DEF EndWith, HTTPKnown, TypeOK
  <2>2. CASE http \notin Moving
    BY <1>1, <2>1, <2>2 DEF EndWith, HTTPKnown
  <2>3. CASE http \in Moving /\ http \in gone
    <3>1. ~ \E p \in after : p.name = http /\ p.type = "http_json"
      BY <1>1, <2>1, <2>3 DEF EndWith
    <3> QED BY <1>1, <2>1, <2>3, <3>1 DEF EndWith, HTTPKnown
  <2>4. CASE http \in Moving /\ http \notin gone
    <3>1. status[http].state # "running"
      BY <1>1, <2>1, <2>4 DEF EndWith
    <3>2. PICK p \in after : p.name = http /\ p.type = "http_json"
      BY <2>1, <2>4, <3>1 DEF HTTPKnown
    <3>3. desired'[http] = [src |-> p, origin |-> desired[http].origin]
      BY <1>1, <2>4, <3>2 DEF EndWith
    <3>4. desired'[http] # None
      BY <1>7, <2>1
    <3> QED BY <2>1, <3>2, <3>3, <3>4
  <2> QED BY <2>2, <2>3, <2>4
<1> QED BY <1>8, <1>9, <1>10, <1>11

\* Stop keeps the invariant.
LEMMA StopKeeps ==
  ASSUME SourcesInv, Stop
  PROVE  SourcesInv'
<1> USE DEF SourcesInv
<1>1. /\ running' = [n \in Names |-> None]
      /\ open' = open \ {running[n] : n \in Names} /\ http' = None
      /\ status' = [n \in Names |->
            IF running[n] # None \/ http = n
            THEN [status[n] EXCEPT !.state = "stopped"] ELSE status[n]]
      /\ UNCHANGED <<managed, edits, fetched, watch, lock, todo, after, desired, taken>>
      /\ life' = "stopped" /\ life = "draining" /\ lock = "free"
  BY DEF Stop, CloseListeners, database
<1>2. ASSUME NEW n \in Names
      PROVE  status'[n] \in Status \cup {None} /\ (status'[n] = None <=> status[n] = None)
  <2>1. status[n] \in Status \cup {None}
    BY DEF TypeOK
  <2>2. CASE running[n] # None \/ http = n
    <3>1. status[n] # None
      <4>1. http = n => desired[n] # None
        BY SourcesAssumption DEF HTTPKnown
      <4> QED BY <2>2, <4>1 DEF Known
    <3>2. [status[n] EXCEPT !.state = "stopped"] \in Status
      BY <2>1, <3>1 DEF Status
    <3>3. status'[n] \in Status
      BY <1>1, <2>2, <3>2
    <3> QED BY <3>1, <3>3, SourcesAssumption
  <2>3. CASE ~(running[n] # None \/ http = n)
    BY <1>1, <2>1, <2>3
  <2> QED BY <2>2, <2>3
<1>3. TypeOK'
  <2>1. status' \in [Names -> Status \cup {None}]
    BY <1>1, <1>2
  <2> QED BY <1>1, <2>1 DEF TypeOK
<1>4. ListsOK'
  BY <1>1 DEF ListsOK
<1>5. Known'
  BY <1>1, <1>2 DEF Known
<1>6. HTTPKnown'
  BY <1>1 DEF HTTPKnown
<1> QED BY <1>3, <1>4, <1>5, <1>6

\* Every step keeps the invariant.
LEMMA SourcesStep == SourcesInv /\ [Next]_vars => SourcesInv'
<1> SUFFICES ASSUME SourcesInv, [Next]_vars PROVE SourcesInv'
  OBVIOUS
<1>1. CASE \/ \E n \in Names : Edit(n)
           \/ \E k \in Binds : OtherBinds(k) \/ OtherReleases(k)
           \/ ReadSources
           \/ Cancel
           \/ UNCHANGED vars
  BY <1>1, QuietKeeps
<1>2. CASE Start
  BY <1>2, StartKeeps
<1>3. CASE ReconcileBegin
  BY <1>3, BeginKeeps
<1>4. CASE Apply
  BY <1>4, ApplyKeeps
<1>5. CASE ReconcileEnd
  BY <1>5, EndKeeps
<1>6. CASE Stop
  BY <1>6, StopKeeps
<1> QED BY <1>1, <1>2, <1>3, <1>4, <1>5, <1>6 DEF Next

-----------------------------------------------------------------------------
\* Every reachable state is well typed, whatever sources are defined, changed
\* and refused, and whatever other processes bind (supervisor.go, app.go).
THEOREM TypeCorrect == Spec => []TypeOK
<1>1. Init => SourcesInv
  BY SourcesInitially
<1>2. SourcesInv /\ [Next]_vars => SourcesInv'
  BY SourcesStep
<1>3. SourcesInv => TypeOK
  BY DEF SourcesInv
<1> QED
  BY <1>1, <1>2, <1>3, PTL DEF Spec

\* No list that watchSources hands to Reconcile holds a clash, for any file that
\* Validate accepts and any rows of the database (desiredSources).
THEOREM ListsAreClean == Spec => []UnionHasNoClash
<1>1. Init => SourcesInv
  BY SourcesInitially
<1>2. SourcesInv /\ [Next]_vars => SourcesInv'
  BY SourcesStep
<1>3. SourcesInv => UnionHasNoClash
  BY DEF SourcesInv, ListsOK, AllApart, Apart, UnionHasNoClash
<1> QED
  BY <1>1, <1>2, <1>3, PTL DEF Spec

\* Reconcile never touches the listener of a source whose own definition did not
\* change, whatever else changes or fails (Reconcile).
THEOREM OthersUntouched == Spec => UnchangedUntouched
<1> DEFINE Mine(n) ==
          \/ running'[n] = running[n]
          \/ lock = "free" /\ ~ \E i \in DOMAIN fetched : fetched[i] = desired[n]
          \/ lock = "apply" /\ todo # <<>> /\ Head(todo).src.name = n
          \/ lock = "apply" /\ \E p \in after : p.name = n
           Untouched == life = "up" => \A n \in Names : Mine(n)
<1>1. Init => SourcesInv
  BY SourcesInitially
<1>2. SourcesInv /\ [Next]_vars => SourcesInv'
  BY SourcesStep
<1>3. SourcesInv /\ [Next]_vars => [Untouched]_vars
  <2> SUFFICES ASSUME SourcesInv, Next, life = "up", NEW n \in Names PROVE Mine(n)
    OBVIOUS
  <2>1. CASE \/ \E m \in Names : Edit(m)
             \/ \E k \in Binds : OtherBinds(k) \/ OtherReleases(k)
             \/ Start \/ ReadSources \/ Cancel
    BY <2>1 DEF Edit, OtherBinds, OtherReleases, Start, ReadSources, Cancel, supervisor
  <2>2. CASE Stop
    BY <2>2 DEF Stop
  <2>3. CASE ReconcileBegin
    <3>1. PICK changed, removed, first, gone : BeginWith(changed, removed, first, gone)
      BY <2>3, BeginFacts
    <3>2. SUFFICES ASSUME n \in gone PROVE ~ \E i \in DOMAIN fetched : fetched[i] = desired[n]
      BY <3>1 DEF BeginWith
    <3>3. desired[n] # None => desired[n].src.name = n
      BY DEF SourcesInv, TypeOK
    <3>4. CASE n \in removed
      BY <3>1, <3>3, <3>4 DEF BeginWith
    <3>5. CASE n \notin removed
      <4>1. PICK i \in first : changed[i].src.name = n
        BY <3>1, <3>2, <3>5 DEF BeginWith
      <4>2. PICK a \in DOMAIN fetched : changed[i] = fetched[a]
        BY <3>1, <4>1 DEF BeginWith
      <4>3. desired[n] # fetched[a] /\ fetched[a].src.name = n /\ desired[n].src.name = n
        BY <3>1, <3>3, <4>1, <4>2 DEF BeginWith
      <4>4. ASSUME NEW b \in DOMAIN fetched, fetched[b] = desired[n] PROVE FALSE
        <5>1. b # a /\ fetched[b].src.name = fetched[a].src.name
          BY <4>3, <4>4
        <5> QED BY <5>1 DEF SourcesInv, ListsOK, AllApart, Apart
      <4> QED BY <4>4
    <3> QED BY <3>4, <3>5
  <2>4. CASE Apply
    <3>1. todo # <<>> /\ lock = "apply"
      BY <2>4 DEF Apply, ApplyDisabled, ApplyHTTP, ApplyListener, ApplyFails, SourcesInv, ListsOK, TypeOK
    <3>2. CASE running' = running
      BY <3>2
    <3>3. CASE ApplyListener
      <4>1. n # Head(todo).src.name => running'[n] = running[n]
        BY <3>3 DEF ApplyListener, SourcesInv, TypeOK
      <4> QED BY <3>1, <4>1
    <3> QED BY <2>4, <3>2, <3>3 DEF Apply, ApplyDisabled, ApplyHTTP, ApplyFails
  <2>5. CASE ReconcileEnd
    <3>1. PICK gone : EndWith(gone)
      BY <2>5, EndFacts
    <3>2. n \in gone \/ running'[n] = running[n]
      BY <3>1 DEF EndWith
    <3>3. n \in gone => lock = "apply" /\ \E p \in after : p.name = n
      BY <3>1 DEF EndWith, Moving
    <3> QED BY <3>2, <3>3
  <2> QED BY <2>1, <2>2, <2>3, <2>4, <2>5 DEF Next
<1>4. UnchangedUntouched <=> [][Untouched]_vars
  BY DEF UnchangedUntouched
<1> QED
  BY <1>1, <1>2, <1>3, <1>4, PTL DEF Spec

-----------------------------------------------------------------------------
(* AgreeInv, action by action.                                             *)

\* Nothing runs before Start.
LEMMA AgreeInitially == Init => AgreeInv /\ AllKnown
BY SourcesAssumption DEF Init, AgreeInv, AllKnown, MovesPending, Runs, Serves

\* Steps that leave the supervisor alone.
LEMMA QuietAgrees ==
  ASSUME SourcesInv, AgreeInv,
         \/ \E n \in Names : Edit(n)
         \/ \E k \in Binds : OtherBinds(k) \/ OtherReleases(k)
         \/ ReadSources
         \/ Cancel
         \/ UNCHANGED vars
  PROVE  AgreeInv'
<1>1. UNCHANGED supervisor /\ open' = open /\ (life = "stopped" => life' = "stopped")
  BY DEF Edit, OtherBinds, OtherReleases, ReadSources, Cancel, vars, supervisor
<1>3. MovesPending'
  BY <1>1 DEF AgreeInv, MovesPending, Moving, supervisor
<1>4. Runs'
  BY <1>1 DEF AgreeInv, Runs, Moving, Pending, supervisor
<1>5. Serves'
  BY <1>1 DEF AgreeInv, Serves, supervisor, Candidates
<1> QED BY <1>3, <1>4, <1>5 DEF AgreeInv

\* Start finds nothing running.
LEMMA StartAgrees ==
  ASSUME SourcesInv, AgreeInv, Start
  PROVE  AgreeInv'
<1>1. \A n \in Names : desired[n] = None /\ running[n] = None /\ status[n] = None
  BY DEF Start, SourcesInv, ListsOK, Known
<1>2. /\ running' = running /\ open' = open /\ desired' = desired /\ status' = status
      /\ after' = {}
  BY DEF Start, SourcesInv, ListsOK
<1>3. MovesPending'
  BY <1>2 DEF AgreeInv, MovesPending, Moving
<1>4. Runs' /\ Serves'
  BY <1>1, <1>2 DEF Runs, Serves
<1> QED BY <1>3, <1>4 DEF AgreeInv

\* Stop leaves nothing running.
LEMMA StopAgrees ==
  ASSUME SourcesInv, AgreeInv, Stop
  PROVE  AgreeInv'
<1>1. /\ running' = [n \in Names |-> None]
      /\ UNCHANGED <<todo, after, desired>> /\ todo = <<>>
      /\ life' = "stopped"
  BY DEF Stop, CloseListeners, SourcesInv, ListsOK
<1> QED BY <1>1 DEF AgreeInv, Runs, Serves, MovesPending

\* What waits for apply runs only if it moves.
LEMMA BeginAgrees ==
  ASSUME SourcesInv, AgreeInv, ReconcileBegin
  PROVE  AgreeInv'
<1>1. PICK changed, removed, first, gone : BeginWith(changed, removed, first, gone)
  BY BeginFacts
<1>2. /\ \A n \in Names : desired'[n] = IF n \in removed THEN None ELSE desired[n]
      /\ \A n \in Names : running'[n] = IF n \in gone THEN None ELSE running[n]
      /\ \A n \in Names : status'[n] = IF n \in removed THEN None
                                        ELSE IF n \in gone THEN StatusStopped(n) ELSE status[n]
      /\ removed \subseteq gone /\ gone \subseteq Names
      /\ todo' = changed /\ life' = life /\ open' = open \ {running[n] : n \in gone}
  BY <1>1 DEF BeginWith
<1>3. /\ Pending = {} /\ Moving = {}
      /\ Pending' = {changed[i].src.name : i \in DOMAIN changed}
  BY <1>1 DEF BeginWith, SourcesInv, ListsOK, Moving, Pending
<1>4. \A n \in Names : desired[n] # None => desired[n].src.name = n
  BY DEF SourcesInv, TypeOK
<1>5. \A n \in Names : running[n] # None => desired[n] # None /\ running[n].src = desired[n].src
  BY <1>3 DEF AgreeInv, Runs, SourcesInv, Known
<1>7. \A i \in DOMAIN changed : changed[i].src.name \in Names
  <2>1. \A i \in DOMAIN changed : changed[i] \in Desired
    BY <1>1 DEF BeginWith
  <2> QED BY <2>1 DEF Desired, Source
<1>8. \A i \in DOMAIN changed : changed[i].src.name \notin removed
  BY <1>1 DEF BeginWith
<1>9. ASSUME NEW i \in DOMAIN changed, changed[i].src.name \in Moving'
      PROVE  i \notin first /\ desired[changed[i].src.name] # None
  <2>1. PICK p \in after' : p.name = changed[i].src.name
    BY <1>9 DEF Moving
  <2>2. PICK j \in DOMAIN changed \ first : /\ desired[changed[j].src.name] # None
                                           /\ p = desired[changed[j].src.name].src
    BY <1>1, <2>1 DEF BeginWith
  <2>3. p.name = changed[j].src.name
    BY <1>4, <1>7, <2>2
  <2>4. i = j
    BY <1>1, <2>1, <2>2, <2>3 DEF BeginWith
  <2> QED BY <2>2, <2>4
<1>10. \A i \in DOMAIN changed \ first : desired[changed[i].src.name] # None =>
           /\ changed[i].src.enabled
           /\ desired[changed[i].src.name].src \in after'
           /\ changed[i].src.name \in Moving'
  <2> SUFFICES ASSUME NEW i \in DOMAIN changed \ first, desired[changed[i].src.name] # None
               PROVE  /\ changed[i].src.enabled
                      /\ desired[changed[i].src.name].src \in after'
                      /\ changed[i].src.name \in Moving'
    OBVIOUS
  <2>1. ~StopsFirst(desired[changed[i].src.name].src, changed[i].src)
    BY <1>1 DEF BeginWith
  <2>2. desired[changed[i].src.name].src \in after'
    BY <1>1 DEF BeginWith
  <2>3. desired[changed[i].src.name].src.name = changed[i].src.name
    BY <1>4, <1>7
  <2> QED BY <2>1, <2>2, <2>3 DEF StopsFirst, Moving
<1>11. MovesPending'
  <2> SUFFICES ASSUME NEW i \in DOMAIN changed, changed[i].src.name \in Moving'
               PROVE  changed[i].src.enabled /\ desired'[changed[i].src.name].src \in after'
    BY <1>2 DEF MovesPending
  <2> QED BY <1>2, <1>7, <1>8, <1>9, <1>10
<1>12. Runs'
  <2> SUFFICES ASSUME NEW n \in Names, running'[n] # None
               PROVE  /\ n \in Pending' => n \in Moving' /\ running'[n].src = desired'[n].src
                      /\ n \notin Pending' /\ n \in Moving' =>
                            status'[n].state = "running" \/ running'[n].src \in after'
                      /\ n \notin Pending' /\ n \notin Moving' => running'[n].src = desired'[n].src
    BY DEF Runs
  <2>1. n \notin gone /\ running'[n] = running[n] /\ desired'[n] = desired[n]
        /\ desired[n] # None /\ running[n].src = desired[n].src
    BY <1>2, <1>5
  <2>2. n \in Pending' => n \in Moving'
    <3> SUFFICES ASSUME n \in Pending' PROVE n \in Moving'
      OBVIOUS
    <3>1. PICK i \in DOMAIN changed : changed[i].src.name = n
      BY <1>3
    <3>2. i \notin first
      BY <1>1, <2>1, <3>1 DEF BeginWith
    <3> QED BY <1>10, <2>1, <3>1, <3>2
  <2>3. n \in Moving' => n \in Pending'
    <3> SUFFICES ASSUME n \in Moving' PROVE n \in Pending'
      OBVIOUS
    <3>1. PICK p \in after' : p.name = n
      BY DEF Moving
    <3>2. PICK j \in DOMAIN changed \ first : /\ desired[changed[j].src.name] # None
                                             /\ p = desired[changed[j].src.name].src
      BY <1>1, <3>1 DEF BeginWith
    <3>3. p.name = changed[j].src.name
      BY <1>4, <1>7, <3>2
    <3> QED BY <1>3, <3>1, <3>3
  <2> QED BY <2>1, <2>2, <2>3
<1>13. Serves'
  <2> SUFFICES ASSUME life' # "stopped", NEW n \in Names, status'[n] # None, status'[n].state = "running",
                      desired'[n].src.type = "syslog"
               PROVE  /\ running'[n] # None /\ running'[n].src = desired'[n].src
                      /\ running'[n].at \in Candidates(desired'[n].src)
    BY DEF Serves, Candidates
  <2>1. n \notin removed
    BY <1>2
  <2>2. n \notin gone
    <3> SUFFICES ASSUME n \in gone PROVE FALSE
      OBVIOUS
    <3>1. status'[n] = StatusStopped(n) /\ status[n] \in Status \cup {None}
      BY <1>2, <2>1 DEF SourcesInv, TypeOK
    <3> QED BY <3>1 DEF StatusStopped, Status
  <2>3. status'[n] = status[n] /\ desired'[n] = desired[n] /\ running'[n] = running[n]
    BY <1>2, <2>1, <2>2
  <2> QED BY <1>2, <2>3 DEF AgreeInv, Serves
<1> QED BY <1>11, <1>12, <1>13 DEF AgreeInv

\* A round of apply starts the new definition or leaves the old one.
LEMMA ApplyAgrees ==
  ASSUME SourcesInv, AgreeInv, Apply
  PROVE  AgreeInv'
<1>0. todo # <<>> /\ lock = "apply"
  BY DEF Apply, ApplyDisabled, ApplyHTTP, ApplyListener, ApplyFails, SourcesInv, ListsOK, TypeOK
<1>1. PICK st \in {"running", "error", "disabled"} :
          /\ Record(Head(todo), st)
          /\ st = "disabled" => ~Head(todo).src.enabled
          /\ st = "running" /\ Head(todo).src.type = "syslog" => ApplyListener
  BY DEF Apply, ApplyDisabled, ApplyHTTP, ApplyListener, ApplyFails
<1>2. PICK d \in Desired :
           /\ d = Head(todo) /\ d.src.name \in Names
           /\ todo' = Tail(todo) /\ todo' \in Seq(Desired)
           /\ \A i, j \in DOMAIN todo' : i # j => todo'[i].src.name # todo'[j].src.name
           /\ \A i \in DOMAIN todo' : \E j \in DOMAIN todo : todo'[i] = todo[j]
           /\ Pending' = Pending \ {d.src.name} /\ d.src.name \in Pending
           /\ \E i \in DOMAIN todo : d = todo[i]
           /\ Moving' = Moving
           /\ desired' = [desired EXCEPT ![d.src.name] = d]
           /\ status' = [status EXCEPT ![d.src.name] = [state |-> st, type |-> d.src.type]]
  BY <1>0, <1>1, RecordFacts
<1>3. after' = after /\ life' = life
  BY <1>1 DEF Record
<1>4. PICK n \in Names : n = d.src.name
  BY <1>2
<1>5. /\ desired'[n] = d /\ \A m \in Names : m # n => desired'[m] = desired[m] /\ status'[m] = status[m]
      /\ status'[n].state = st
  BY <1>2, <1>4 DEF SourcesInv, TypeOK
<1>6. \/ /\ running' = running /\ open' = open
         /\ st = "running" => d.src.type # "syslog"
      \/ \E k \in Candidates(d.src) : /\ open' = open \cup {[at |-> k, src |-> d.src]}
                                     /\ running' = [running EXCEPT ![n] = [at |-> k, src |-> d.src]]
                                     /\ st = "running"
  <2>1. CASE ApplyListener
    <3>1. PICK k \in Candidates(d.src) : /\ open' = open \cup {[at |-> k, src |-> d.src]}
                                       /\ running' = [running EXCEPT ![n] = [at |-> k, src |-> d.src]]
      BY <1>2, <1>4, <2>1 DEF ApplyListener
    <3>2. status' = [status EXCEPT ![n] = [state |-> "running", type |-> d.src.type]]
      BY <1>2, <1>4, <2>1 DEF ApplyListener, Record
    <3>3. st = "running"
      BY <1>5, <3>2 DEF SourcesInv, TypeOK
    <3> QED BY <3>1, <3>3
  <2>2. CASE ~ApplyListener
    BY <1>1, <1>2, <2>2 DEF Apply, ApplyDisabled, ApplyHTTP, ApplyFails
  <2> QED BY <2>1, <2>2
<1>7. running \in [Names -> open \cup {None}] /\ open \subseteq Listener
  BY DEF SourcesInv, TypeOK
<1>8. ASSUME NEW k \in Candidates(d.src)
      PROVE  [at |-> k, src |-> d.src] \in Listener /\ [at |-> k, src |-> d.src] # None
  <2>1. [at |-> k, src |-> d.src] \in Listener
    BY DEF Candidates, Listener, Desired
  <2> QED BY <2>1, SourcesAssumption
<1>9. /\ \A m \in Names : m # n => running'[m] = running[m]
      /\ \/ running'[n] = running[n] /\ (st = "running" => d.src.type # "syslog")
         \/ /\ running'[n] # None /\ running'[n].src = d.src /\ running'[n].at \in Candidates(d.src)
            /\ st = "running"
  BY <1>6, <1>7, <1>8
<1>11. MovesPending'
  <2> SUFFICES ASSUME NEW i \in DOMAIN todo', todo'[i].src.name \in Moving
               PROVE  todo'[i].src.enabled /\ desired'[todo'[i].src.name].src \in after
    BY <1>2, <1>3 DEF MovesPending
  <2>1. PICK j \in DOMAIN todo : todo'[i] = todo[j]
    BY <1>2
  <2>2. todo[j].src.enabled /\ desired[todo[j].src.name].src \in after
    BY <2>1 DEF AgreeInv, MovesPending
  <2>3. todo'[i].src.name \in Pending' /\ todo'[i].src.name \in Names
    <3>1. todo'[i] \in Desired
      BY <1>2
    <3> QED BY <3>1 DEF Pending, Desired, Source
  <2>4. todo'[i].src.name # n
    BY <1>2, <1>4, <2>3
  <2> QED BY <1>5, <2>1, <2>2, <2>3, <2>4
<1>12. Runs'
  <2> SUFFICES ASSUME NEW m \in Names, running'[m] # None
               PROVE  /\ m \in Pending' => m \in Moving /\ running'[m].src = desired'[m].src
                      /\ m \notin Pending' /\ m \in Moving =>
                            status'[m].state = "running" \/ running'[m].src \in after
                      /\ m \notin Pending' /\ m \notin Moving => running'[m].src = desired'[m].src
    BY <1>2, <1>3 DEF Runs
  <2>1. CASE m # n
    BY <1>2, <1>4, <1>5, <1>9, <2>1 DEF AgreeInv, Runs
  <2>2. CASE m = n
    <3>1. n \notin Pending' /\ n \in Pending
      BY <1>2, <1>4
    <3>2. CASE running'[n] = running[n]
      <4>1. n \in Moving /\ running[n].src = desired[n].src
        BY <2>2, <3>1, <3>2 DEF AgreeInv, Runs
      <4>2. PICK i \in DOMAIN todo : d = todo[i]
        BY <1>2
      <4>3. desired[n].src \in after
        BY <1>4, <4>1, <4>2 DEF AgreeInv, MovesPending
      <4> QED BY <2>2, <3>1, <3>2, <4>1, <4>3
    <3>3. CASE running'[n] # running[n]
      <4>1. running'[n].src = d.src /\ st = "running"
        BY <1>9, <3>3
      <4> QED BY <1>5, <2>2, <3>1, <4>1
    <3> QED BY <3>2, <3>3
  <2> QED BY <2>1, <2>2
<1>13. Serves'
  <2> SUFFICES ASSUME life # "stopped", NEW m \in Names, status'[m] # None, status'[m].state = "running",
                      desired'[m].src.type = "syslog"
               PROVE  /\ running'[m] # None /\ running'[m].src = desired'[m].src
                      /\ running'[m].at \in Candidates(desired'[m].src)
    BY <1>3 DEF Serves, Candidates
  <2>1. CASE m # n
    BY <1>5, <1>9, <2>1 DEF AgreeInv, Serves
  <2>2. CASE m = n
    BY <1>5, <1>9, <2>2
  <2> QED BY <2>1, <2>2
<1> QED BY <1>11, <1>12, <1>13 DEF AgreeInv

\* What is kept because its replacement failed is remembered again.
LEMMA EndAgrees ==
  ASSUME SourcesInv, AgreeInv, ReconcileEnd
  PROVE  AgreeInv'
<1>1. PICK gone : EndWith(gone)
  BY EndFacts
<1>2. /\ \A n \in Names : running'[n] = IF n \in gone THEN None ELSE running[n]
      /\ \A n \in Names : status'[n] = IF n \in gone THEN StatusStopped(n) ELSE status[n]
      /\ open' = open \ {running[n] : n \in gone} /\ gone \subseteq Names
      /\ todo = <<>> /\ todo' = <<>> /\ after' = {} /\ (life' = "stopped" <=> life = "stopped")
  BY <1>1 DEF EndWith
<1>3. Pending = {} /\ Pending' = {} /\ Moving' = {}
  BY <1>2 DEF Pending, Moving
<1>5. MovesPending'
  BY <1>2 DEF MovesPending
<1>6. Runs'
  <2> SUFFICES ASSUME NEW n \in Names, running'[n] # None PROVE running'[n].src = desired'[n].src
    BY <1>3 DEF Runs
  <2>1. n \notin gone /\ running'[n] = running[n] /\ running[n] # None
    BY <1>2
  <2>2. CASE n \notin Moving
    BY <1>1, <1>3, <2>1, <2>2 DEF EndWith, AgreeInv, Runs
  <2>3. CASE n \in Moving
    <3>1. status[n].state # "running"
      BY <1>1, <2>1, <2>3 DEF EndWith
    <3>2. running[n].src \in after
      BY <1>3, <2>1, <2>3, <3>1 DEF AgreeInv, Runs
    <3>3. running[n].src.name = n
      BY <2>1 DEF SourcesInv, Known
    <3>4. desired'[n] = [src |-> running[n].src, origin |-> desired[n].origin]
      BY <1>1, <2>1, <3>2, <3>3 DEF EndWith
    <3> QED BY <2>1, <3>4
  <2> QED BY <2>2, <2>3
<1>7. Serves'
  <2> SUFFICES ASSUME life' # "stopped", NEW n \in Names, status'[n] # None, status'[n].state = "running",
                      desired'[n].src.type = "syslog"
               PROVE  /\ running'[n] # None /\ running'[n].src = desired'[n].src
                      /\ running'[n].at \in Candidates(desired'[n].src)
    BY DEF Serves, Candidates
  <2>1. n \notin gone
    <3> SUFFICES ASSUME n \in gone PROVE FALSE
      OBVIOUS
    <3>1. status'[n] = StatusStopped(n) /\ status[n] \in Status \cup {None}
      BY <1>2 DEF SourcesInv, TypeOK
    <3> QED BY <3>1 DEF StatusStopped, Status
  <2>2. status'[n] = status[n] /\ running'[n] = running[n]
    BY <1>2, <2>1
  <2>3. n \notin Moving
    BY <1>1, <2>1, <2>2 DEF EndWith
  <2>4. desired'[n] = desired[n]
    BY <1>1, <2>3 DEF EndWith
  <2> QED BY <1>2, <2>2, <2>4 DEF AgreeInv, Serves
<1> QED BY <1>5, <1>6, <1>7 DEF AgreeInv

\* Every step keeps the agreement.
LEMMA AgreeStep == SourcesInv /\ AgreeInv /\ [Next]_vars => AgreeInv'
<1> SUFFICES ASSUME SourcesInv, AgreeInv, [Next]_vars PROVE AgreeInv'
  OBVIOUS
<1>1. CASE \/ \E n \in Names : Edit(n)
           \/ \E k \in Binds : OtherBinds(k) \/ OtherReleases(k)
           \/ ReadSources
           \/ Cancel
           \/ UNCHANGED vars
  BY <1>1, QuietAgrees
<1>2. CASE Start
  BY <1>2, StartAgrees
<1>3. CASE ReconcileBegin
  BY <1>3, BeginAgrees
<1>4. CASE Apply
  BY <1>4, ApplyAgrees
<1>5. CASE ReconcileEnd
  BY <1>5, EndAgrees
<1>6. CASE Stop
  BY <1>6, StopAgrees
<1> QED BY <1>1, <1>2, <1>3, <1>4, <1>5, <1>6 DEF Next

\* Between two reconciles nothing is pending and nothing moves.
LEMMA SettledFacts ==
  ASSUME SourcesInv, AgreeInv
  PROVE  ServesItsDefinition /\ RunsWhatIsRemembered
<1>1. ServesItsDefinition
  BY DEF AgreeInv, Serves, ServesItsDefinition, Settled
<1>2. RunsWhatIsRemembered
  <2> SUFFICES ASSUME lock = "free", NEW n \in Names, running[n] # None
               PROVE  desired[n] # None /\ running[n].src = desired[n].src
    BY DEF RunsWhatIsRemembered, Settled
  <2>1. n \notin Pending /\ n \notin Moving
    BY DEF SourcesInv, ListsOK, Pending, Moving
  <2> QED BY <2>1 DEF SourcesInv, Known, AgreeInv, Runs
<1> QED BY <1>1, <1>2

\* A step that closes the listeners of the sources in gone, by name.
LEMMA ClosingByName ==
  ASSUME SourcesInv, AllKnown, OneSocketPerSource, NEW gone \in SUBSET Names,
         open' = open \ {running[n] : n \in gone},
         running' = [n \in Names |-> IF n \in gone THEN None ELSE running[n]]
  PROVE  AllKnown'
<1> SUFFICES ASSUME NEW l \in open' PROVE running'[l.src.name] # None
  BY DEF AllKnown
<1>1. l \in open /\ \A n \in gone : l # running[n]
  OBVIOUS
<1>2. l.src.name \in Names /\ running[l.src.name] # None
  BY <1>1 DEF SourcesInv, TypeOK, Listener, Source, AllKnown
<1>3. running[l.src.name] \in open /\ running[l.src.name].src.name = l.src.name
  BY <1>2 DEF SourcesInv, TypeOK, Known
<1>4. running[l.src.name] = l
  BY <1>1, <1>3 DEF OneSocketPerSource
<1> QED
  BY <1>1, <1>2, <1>4

\* While no source holds two sockets, every socket stays one of a source whose
\* listener the supervisor knows.
LEMMA AllKnownStep ==
  SourcesInv /\ AllKnown /\ OneSocketPerSource /\ [Next]_vars => AllKnown'
<1> SUFFICES ASSUME SourcesInv, AllKnown, OneSocketPerSource, [Next]_vars PROVE AllKnown'
  OBVIOUS
<1>1. CASE UNCHANGED <<running, open>>
  BY <1>1 DEF AllKnown
<1>2. CASE ReconcileBegin
  <2>1. PICK changed, removed, first, gone : BeginWith(changed, removed, first, gone)
    BY <1>2, BeginFacts
  <2> QED BY <2>1, ClosingByName DEF BeginWith
<1>3. CASE ReconcileEnd
  <2>1. PICK gone : EndWith(gone)
    BY <1>3, EndFacts
  <2> QED BY <2>1, ClosingByName DEF EndWith
<1>4. CASE Stop
  <2>1. /\ running' = [n \in Names |-> IF n \in Names THEN None ELSE running[n]]
        /\ open' = open \ {running[n] : n \in Names}
    BY <1>4 DEF Stop, CloseListeners
  <2> QED BY <2>1, ClosingByName
<1>5. CASE ApplyListener
  <2>0. PICK s \in Source : s = Head(todo).src
    <3>1. todo # <<>> /\ todo \in Seq(Desired)
      BY <1>5 DEF ApplyListener, SourcesInv, TypeOK
    <3>2. Head(todo) \in Desired
      BY <3>1
    <3> QED BY <3>2 DEF Desired
  <2>1. PICK k \in Candidates(s) :
            /\ open' = open \cup {[at |-> k, src |-> s]}
            /\ running' = [running EXCEPT ![s.name] = [at |-> k, src |-> s]]
    BY <1>5, <2>0 DEF ApplyListener
  <2>2. [at |-> k, src |-> s] # None
    <3>1. [at |-> k, src |-> s] \in Listener
      BY DEF Candidates, Listener
    <3> QED BY <3>1, SourcesAssumption
  <2>3. s.name \in Names /\ DOMAIN running = Names
    BY DEF Source, SourcesInv, TypeOK
  <2> SUFFICES ASSUME NEW l \in open' PROVE running'[l.src.name] # None
    BY DEF AllKnown
  <2>4. CASE l \in open
    <3>1. running[l.src.name] # None /\ l.src.name \in Names
      BY <2>4 DEF AllKnown, SourcesInv, TypeOK, Listener, Source
    <3> QED BY <2>1, <2>2, <2>3, <3>1
  <2>5. CASE l = [at |-> k, src |-> s]
    BY <2>1, <2>2, <2>3, <2>5
  <2> QED BY <2>1, <2>4, <2>5
<1>6. CASE \/ \E n \in Names : Edit(n)
           \/ \E k \in Binds : OtherBinds(k) \/ OtherReleases(k)
           \/ Start \/ ReadSources \/ Cancel
           \/ ApplyDisabled \/ ApplyHTTP \/ ApplyFails
           \/ UNCHANGED vars
  <2>1. UNCHANGED <<running, open>>
    BY <1>6 DEF Edit, OtherBinds, OtherReleases, Start, ReadSources, Cancel, ApplyDisabled,
                ApplyHTTP, ApplyFails, supervisor, vars
  <2> QED BY <1>1, <2>1
<1> QED
  BY <1>2, <1>3, <1>4, <1>5, <1>6 DEF Next, Apply

\* A source reported as running serves the definition asked for last, on an address
\* of that definition, and a listener that runs, also one kept because its
\* replacement failed, runs the definition that is remembered, so that the next
\* reconcile sees the difference (apply, the restore at the end of Reconcile).
THEOREM RunningIsServing == Spec => [](ServesItsDefinition /\ RunsWhatIsRemembered)
<1>1. Init => SourcesInv /\ AgreeInv
  BY SourcesInitially, AgreeInitially
<1>2. SourcesInv /\ AgreeInv /\ [Next]_vars => (SourcesInv /\ AgreeInv)'
  BY SourcesStep, AgreeStep
<1>3. SourcesInv /\ AgreeInv => ServesItsDefinition /\ RunsWhatIsRemembered
  BY SettledFacts
<1> QED
  BY <1>1, <1>2, <1>3, PTL DEF Spec

\* While no listener is replaced, a source opens a socket only if it has none.
LEMMA OneSocketStep ==
  SourcesInv /\ AgreeInv /\ AllKnown /\ OneSocketPerSource /\ NoListenerReplaced' /\ [Next]_vars
    => OneSocketPerSource'
<1> SUFFICES ASSUME SourcesInv, AgreeInv, AllKnown, OneSocketPerSource, NoListenerReplaced', [Next]_vars
             PROVE  OneSocketPerSource'
  OBVIOUS
<1>1. CASE open' \subseteq open
  BY <1>1 DEF OneSocketPerSource
<1>2. CASE ApplyListener
  <2>0. todo # <<>> /\ Record(Head(todo), "running")
    BY <1>2 DEF ApplyListener
  <2>1. PICK d \in Desired :
           /\ d = Head(todo) /\ d.src.name \in Names
           /\ Pending' = Pending \ {d.src.name} /\ d.src.name \in Pending
           /\ \E i \in DOMAIN todo : d = todo[i]
           /\ status' = [status EXCEPT ![d.src.name] = [state |-> "running", type |-> d.src.type]]
    <3>1. PICK st \in {"running", "error", "disabled"} : st = "running"
      OBVIOUS
    <3>2. Record(Head(todo), st)
      BY <2>0, <3>1
    <3> QED BY <2>0, <3>1, <3>2, RecordFacts
  <2>2. PICK k \in Candidates(d.src) : open' = open \cup {[at |-> k, src |-> d.src]}
    BY <1>2, <2>1 DEF ApplyListener
  <2>3. PICK n \in Names : n = d.src.name
    BY <2>1
  <2>4. after' = after /\ status'[n].state = "running" /\ n \notin Pending'
    BY <2>0, <2>1, <2>3 DEF Record, SourcesInv, TypeOK
  <2>5. running[n] = None
    <3> SUFFICES ASSUME running[n] # None PROVE FALSE
      OBVIOUS
    <3>1. n \in Moving /\ running[n].src = desired[n].src /\ running[n] \in open
      BY <2>1, <2>3 DEF AgreeInv, Runs, SourcesInv, TypeOK
    <3>2. PICK i \in DOMAIN todo : d = todo[i]
      BY <2>1
    <3>3. running[n].src \in after /\ running[n].src.name = n
      BY <2>3, <3>1, <3>2 DEF AgreeInv, MovesPending, SourcesInv, Known
    <3>4. PICK p \in after' : p = running[n].src
      BY <2>4, <3>3
    <3>5. \E l \in open' : l.src = p
      BY <2>2, <3>1, <3>4
    <3> QED BY <2>4, <3>3, <3>4, <3>5 DEF NoListenerReplaced
  <2>6. \A l \in open : l.src.name # n
    BY <2>5 DEF AllKnown
  <2> QED BY <2>2, <2>3, <2>6 DEF OneSocketPerSource
<1>3. CASE ReconcileBegin
  <2>1. PICK changed, removed, first, gone : BeginWith(changed, removed, first, gone)
    BY <1>3, BeginFacts
  <2> QED BY <1>1, <2>1 DEF BeginWith
<1>4. CASE ReconcileEnd
  <2>1. PICK gone : EndWith(gone)
    BY <1>4, EndFacts
  <2> QED BY <1>1, <2>1 DEF EndWith
<1>5. CASE \/ \E n \in Names : Edit(n)
           \/ \E k \in Binds : OtherBinds(k) \/ OtherReleases(k)
           \/ Start \/ ReadSources \/ Cancel \/ Stop
           \/ ApplyDisabled \/ ApplyHTTP \/ ApplyFails
           \/ UNCHANGED vars
  <2>1. open' \subseteq open
    BY <1>5 DEF Edit, OtherBinds, OtherReleases, Start, ReadSources, Cancel, Stop, CloseListeners,
                ApplyDisabled, ApplyHTTP, ApplyFails, supervisor, vars
  <2> QED BY <1>1, <2>1
<1> QED
  BY <1>2, <1>3, <1>4, <1>5 DEF Next, Apply

\* As long as no source comes up at a new address while its old listener is open,
\* the list, the definitions, the listeners and the sockets agree after every
\* reconcile, whatever failed in it.  What the premise leaves out is the successful
\* move of the finding at supervisor.go:174, which is therefore the only way in
\* which Reconcile leaves a socket behind; only NoOrphanListener needs it.
THEOREM ListenersAgree == Spec /\ []NoListenerReplaced => []ListenersMatchDefinitions
<1> DEFINE Inv == SourcesInv /\ AgreeInv /\ AllKnown /\ OneSocketPerSource
<1>1. Init => Inv
  <2>1. Init => OneSocketPerSource
    BY DEF Init, OneSocketPerSource
  <2> QED BY <2>1, SourcesInitially, AgreeInitially
<1>2. Inv /\ NoListenerReplaced' /\ [Next]_vars => Inv'
  BY SourcesStep, AgreeStep, AllKnownStep, OneSocketStep
<1>3. Inv => ListenersMatchDefinitions
  <2> SUFFICES ASSUME Inv PROVE ListenersMatchDefinitions
    OBVIOUS
  <2>1. UnionHasNoClash
    BY DEF SourcesInv, ListsOK, AllApart, Apart, UnionHasNoClash
  <2>2. ServesItsDefinition /\ RunsWhatIsRemembered
    BY SettledFacts
  <2>3. NoOrphanListener
    <3> SUFFICES ASSUME NEW l \in open PROVE running[l.src.name] = l
      BY DEF NoOrphanListener
    <3>1. l.src.name \in Names /\ running[l.src.name] # None
      BY DEF SourcesInv, TypeOK, Listener, Source, AllKnown
    <3>2. running[l.src.name] \in open /\ running[l.src.name].src.name = l.src.name
      BY <3>1 DEF SourcesInv, TypeOK, Known
    <3> QED BY <3>2 DEF OneSocketPerSource
  <2> QED BY <2>1, <2>2, <2>3 DEF ListenersMatchDefinitions
<1> HIDE DEF Inv
<1> QED
  BY <1>1, <1>2, <1>3, PTL DEF Spec

-----------------------------------------------------------------------------
(* What is reported.                                                       *)

\* Until Stop, no source that moves comes up at its new address.
NoMoveSucceeds ==
    life # "stopped" => \A p \in after :
        p.name \notin Pending => status[p.name].state # "running"

\* Until Stop, only enabled syslog sources move, and they stay syslog sources.
SyslogMovesOnly ==
    life # "stopped" => \A p \in after :
        /\ p.type = "syslog" /\ p.enabled
        /\ \A i \in DOMAIN todo : todo[i].src.name = p.name => todo[i].src.type = "syslog"

\* The state of a source that is not about to be started again is that of its
\* definition, and the HTTP endpoint is that of the http_json source that runs.
ReportOK(n) ==
    /\ status[n].type = desired[n].src.type
    /\ status[n].state # "stopped"
    /\ status[n].state = "disabled" <=> ~desired[n].src.enabled
    /\ desired[n].src.type = "http_json" => (http = n <=> status[n].state = "running")
    /\ n \in Moving => desired[n].src.type = "syslog" /\ desired[n].src.enabled

\* Inductive beside SourcesInv and AgreeInv under the two premises above.
ReportInv ==
    life # "stopped" => \A n \in Names :
        desired[n] # None /\ (n \in Pending => n \in Moving) => ReportOK(n)

\* Stop is final.
LEMMA LifeEnds == SourcesInv /\ [Next]_vars /\ life = "stopped" => life' = "stopped"
<1> SUFFICES ASSUME SourcesInv, [Next]_vars, life = "stopped" PROVE life' = "stopped"
  OBVIOUS
<1>1. CASE Apply
  BY <1>1 DEF Apply, ApplyDisabled, ApplyHTTP, ApplyListener, ApplyFails, Record
<1>2. CASE ReconcileBegin \/ ReconcileEnd
  BY <1>2 DEF ReconcileBegin, ReconcileEnd
<1> QED
  BY <1>1, <1>2 DEF Next, Edit, OtherBinds, OtherReleases, Start, ReadSources, Cancel, Stop, vars

\* What a reconcile has not to start again keeps its state and its endpoint.
LEMMA BeginReports ==
  ASSUME SourcesInv, AgreeInv, ReportInv, SyslogMovesOnly', ReconcileBegin
  PROVE  ReportInv'
<1> SUFFICES ASSUME life' # "stopped", NEW n \in Names, desired'[n] # None,
                    n \in Pending' => n \in Moving'
             PROVE  ReportOK(n)'
  BY DEF ReportInv
<1>1. PICK changed, removed, first, gone : BeginWith(changed, removed, first, gone)
  BY BeginFacts
<1>2. /\ desired'[n] = IF n \in removed THEN None ELSE desired[n]
      /\ status'[n] = IF n \in removed THEN None ELSE IF n \in gone THEN StatusStopped(n) ELSE status[n]
      /\ todo' = changed /\ life' = life
  BY <1>1 DEF BeginWith
<1>3. n \notin removed /\ desired'[n] = desired[n] /\ desired[n] # None
  BY <1>2
<1>4. Pending = {} /\ Moving = {}
  BY <1>1 DEF BeginWith, SourcesInv, ListsOK, Moving, Pending
<1>5. \A m \in Names : desired[m] # None => desired[m].src.name = m
  BY DEF SourcesInv, TypeOK
<1>6. \A i \in DOMAIN changed : changed[i].src.name \in Names
  <2>1. \A i \in DOMAIN changed : changed[i] \in Desired
    BY <1>1 DEF BeginWith
  <2> QED BY <2>1 DEF Desired, Source
<1>7. n \in Moving' => \E j \in DOMAIN changed \ first : changed[j].src.name = n /\ desired[n].src \in after'
  <2> SUFFICES ASSUME n \in Moving'
               PROVE  \E j \in DOMAIN changed \ first : changed[j].src.name = n /\ desired[n].src \in after'
    OBVIOUS
  <2>1. PICK p \in after' : p.name = n
    BY DEF Moving
  <2>2. PICK j \in DOMAIN changed \ first : /\ desired[changed[j].src.name] # None
                                           /\ p = desired[changed[j].src.name].src
    BY <1>1, <2>1 DEF BeginWith
  <2>3. changed[j].src.name = n
    BY <1>5, <1>6, <2>1, <2>2
  <2> QED BY <2>1, <2>2, <2>3
<1>8. n \notin gone
  <2> SUFFICES ASSUME n \in gone PROVE FALSE
    OBVIOUS
  <2>1. PICK i \in first : changed[i].src.name = n /\ i \in DOMAIN changed
    BY <1>1, <1>3 DEF BeginWith
  <2>2. n \in Pending'
    BY <1>2, <2>1 DEF Pending
  <2>3. PICK j \in DOMAIN changed \ first : changed[j].src.name = n
    BY <1>7, <2>2
  <2>4. i = j
    BY <1>1, <2>1, <2>3 DEF BeginWith
  <2> QED BY <2>1, <2>3, <2>4
<1>9. status'[n] = status[n]
  BY <1>2, <1>3, <1>8
<1>10. http' = n <=> http = n
  <2>1. n # None
    BY SourcesAssumption
  <2> QED BY <1>1, <1>8, <2>1 DEF BeginWith
<1>11. n \in Moving' => desired[n].src.type = "syslog" /\ desired[n].src.enabled
  BY <1>2, <1>7 DEF SyslogMovesOnly
<1>12. ReportOK(n)
  BY <1>2, <1>3, <1>4 DEF ReportInv
<1> QED BY <1>3, <1>9, <1>10, <1>11, <1>12 DEF ReportOK

\* apply records the state of the definition it was given.
LEMMA ApplyReports ==
  ASSUME SourcesInv, AgreeInv, ReportInv, SyslogMovesOnly, Apply, life # "stopped"
  PROVE  ReportInv'
<1>0. todo # <<>> /\ lock = "apply"
  BY DEF Apply, ApplyDisabled, ApplyHTTP, ApplyListener, ApplyFails, SourcesInv, ListsOK, TypeOK
<1>1. PICK st \in {"running", "error", "disabled"} :
          /\ Record(Head(todo), st)
          /\ st = "disabled" <=> ~Head(todo).src.enabled
          /\ \/ st # "running" /\ http' = http
             \/ st = "running" /\ Head(todo).src.type = "syslog" /\ http' = http
             \/ /\ st = "running" /\ Head(todo).src.type = "http_json"
                /\ http = None /\ http' = Head(todo).src.name
  BY DEF Apply, ApplyDisabled, ApplyHTTP, ApplyListener, ApplyFails, HTTPFree
<1>2. PICK d \in Desired :
           /\ d = Head(todo) /\ d.src.name \in Names
           /\ Pending' = Pending \ {d.src.name} /\ d.src.name \in Pending
           /\ \E i \in DOMAIN todo : d = todo[i]
           /\ Moving' = Moving
           /\ desired' = [desired EXCEPT ![d.src.name] = d]
           /\ status' = [status EXCEPT ![d.src.name] = [state |-> st, type |-> d.src.type]]
  BY <1>0, <1>1, RecordFacts
<1>3. PICK n \in Names : n = d.src.name
  BY <1>2
<1>4. /\ desired'[n] = d /\ \A m \in Names : m # n => desired'[m] = desired[m] /\ status'[m] = status[m]
      /\ status'[n].state = st /\ status'[n].type = d.src.type
  BY <1>2, <1>3 DEF SourcesInv, TypeOK
<1>5. life' = life
  BY <1>1 DEF Record
<1>6. n # None
  BY SourcesAssumption
<1>7. n \in Moving => d.src.type = "syslog" /\ d.src.enabled
  <2> SUFFICES ASSUME n \in Moving PROVE d.src.type = "syslog" /\ d.src.enabled
    OBVIOUS
  <2>1. PICK i \in DOMAIN todo : d = todo[i]
    BY <1>2
  <2>2. PICK p \in after : p.name = n
    BY DEF Moving
  <2>3. d.src.type = "syslog"
    BY <1>3, <2>1, <2>2 DEF SyslogMovesOnly
  <2>4. d.src.enabled
    BY <1>3, <2>1 DEF AgreeInv, MovesPending
  <2> QED BY <2>3, <2>4
<1>8. http # n
  <2> SUFFICES ASSUME http = n PROVE FALSE
    OBVIOUS
  <2>1. n \in Pending
    BY <1>2, <1>3
  <2>2. \E p \in after : p.name = n /\ p.type = "http_json"
    BY <1>6, <2>1 DEF SourcesInv, HTTPKnown
  <2> QED BY <2>2 DEF SyslogMovesOnly
<1> SUFFICES ASSUME NEW m \in Names, desired'[m] # None, m \in Pending' => m \in Moving
             PROVE  ReportOK(m)'
  BY <1>2, <1>5 DEF ReportInv
<1>9. CASE m = n
  BY <1>1, <1>2, <1>3, <1>4, <1>7, <1>8, <1>9 DEF ReportOK
<1>10. CASE m # n
  <2>1. ReportOK(m)
    BY <1>2, <1>3, <1>4, <1>10 DEF ReportInv
  <2>2. http' = m <=> http = m
    BY <1>1, <1>2, <1>3, <1>10, SourcesAssumption
  <2> QED BY <1>2, <1>4, <1>10, <2>1, <2>2 DEF ReportOK
<1> QED BY <1>9, <1>10

\* A definition that is restored is of the kind whose failure was recorded.
LEMMA EndReports ==
  ASSUME SourcesInv, AgreeInv, ReportInv, NoMoveSucceeds, SyslogMovesOnly, ReconcileEnd,
         life # "stopped"
  PROVE  ReportInv'
<1>1. PICK gone : EndWith(gone)
  BY EndFacts
<1>2. todo = <<>> /\ Pending = {} /\ Moving' = {} /\ (life' = "stopped" <=> life = "stopped")
  BY <1>1 DEF EndWith, Pending, Moving
<1>3. gone = {}
  <2> SUFFICES ASSUME NEW n \in gone PROVE FALSE
    OBVIOUS
  <2>1. n \in Moving /\ status[n].state = "running"
    BY <1>1 DEF EndWith
  <2>2. PICK p \in after : p.name = n
    BY <2>1 DEF Moving
  <2> QED BY <1>2, <2>1, <2>2 DEF NoMoveSucceeds
<1>4. http' = http /\ \A n \in Names : status'[n] = status[n]
  BY <1>1, <1>3 DEF EndWith
<1> SUFFICES ASSUME NEW n \in Names, desired'[n] # None PROVE ReportOK(n)'
  BY <1>2 DEF ReportInv
<1>5. CASE n \notin Moving
  <2>1. desired'[n] = desired[n]
    BY <1>1, <1>5 DEF EndWith
  <2>2. ReportOK(n)
    BY <1>2, <2>1 DEF ReportInv
  <2> QED BY <1>2, <1>4, <2>1, <2>2 DEF ReportOK
<1>6. CASE n \in Moving
  <2>1. PICK p \in after : p.name = n
    BY <1>6 DEF Moving
  <2>2. desired'[n] = [src |-> p, origin |-> desired[n].origin] /\ desired[n] # None
    BY <1>1, <1>3, <2>1 DEF EndWith, SourcesInv, ListsOK
  <2>3. ReportOK(n) /\ desired[n].src.type = "syslog" /\ desired[n].src.enabled
    BY <1>2, <1>6, <2>2 DEF ReportInv, ReportOK
  <2>4. p.type = "syslog" /\ p.enabled
    BY <2>1 DEF SyslogMovesOnly
  <2> QED BY <1>2, <1>4, <2>2, <2>3, <2>4 DEF ReportOK
<1> QED BY <1>5, <1>6

\* Every step keeps the reports true.
LEMMA ReportStep ==
  /\ SourcesInv /\ AgreeInv /\ ReportInv /\ NoMoveSucceeds /\ SyslogMovesOnly /\ SyslogMovesOnly'
  /\ [Next]_vars
  => ReportInv'
<1> SUFFICES ASSUME SourcesInv, AgreeInv, ReportInv, NoMoveSucceeds, SyslogMovesOnly, SyslogMovesOnly',
                    [Next]_vars, life' # "stopped"
             PROVE  ReportInv'
  BY DEF ReportInv
<1>0. life # "stopped"
  BY LifeEnds
<1>1. CASE \/ \E n \in Names : Edit(n)
           \/ \E k \in Binds : OtherBinds(k) \/ OtherReleases(k)
           \/ ReadSources
           \/ Cancel
           \/ UNCHANGED vars
  <2>1. UNCHANGED supervisor /\ (life = "stopped" => life' = "stopped")
    BY <1>1 DEF Edit, OtherBinds, OtherReleases, ReadSources, Cancel, vars, supervisor
  <2> QED BY <2>1 DEF ReportInv, ReportOK, Moving, Pending, supervisor
<1>2. CASE Start
  <2>1. \A n \in Names : desired'[n] = None
    BY <1>2 DEF Start, SourcesInv, ListsOK
  <2> QED BY <2>1 DEF ReportInv
<1>3. CASE ReconcileBegin
  BY <1>3, BeginReports
<1>4. CASE Apply
  BY <1>0, <1>4, ApplyReports
<1>5. CASE ReconcileEnd
  BY <1>0, <1>5, EndReports
<1>6. CASE Stop
  BY <1>6 DEF Stop, ReportInv
<1> QED BY <1>1, <1>2, <1>3, <1>4, <1>5, <1>6 DEF Next

\* Between two reconciles the endpoint and the readiness probe say what is served.
LEMMA ReportFacts ==
  ASSUME SourcesInv, ReportInv, life # "stopped" => AllKnown
  PROVE  ReportsAreTrue
<1> SUFFICES ASSUME Settled PROVE ReportsAreTrue
  BY DEF ReportsAreTrue, HTTPSourceTruthful, ReadyMeansServing
<1>1. Pending = {} /\ Moving = {} /\ life # "stopped"
  BY DEF Settled, SourcesInv, ListsOK, Pending, Moving
<1>2. \A n \in Names : desired[n] # None => ReportOK(n)
  BY <1>1 DEF ReportInv
<1>3. HTTPSourceTruthful
  <2> SUFFICES ASSUME NEW n \in Names
               PROVE  (http = n) <=> /\ desired[n] # None
                                     /\ desired[n].src.type = "http_json"
                                     /\ status[n].state = "running"
    BY DEF HTTPSourceTruthful
  <2>1. ASSUME http = n PROVE desired[n] # None /\ desired[n].src.type = "http_json"
    BY <1>1, <2>1, SourcesAssumption DEF SourcesInv, HTTPKnown
  <2> QED BY <1>2, <2>1 DEF ReportOK
<1>4. ReadyMeansServing
  <2> DEFINE wanted == {n \in Names : /\ status[n] # None
                                     /\ status[n].type = "syslog"
                                     /\ status[n].state \in {"running", "error"}}
             asked == \A n \in Names : desired[n] # None =>
                         desired[n].src.type # "syslog" \/ ~desired[n].src.enabled
  <2>1. ASSUME NEW n \in Names
        PROVE  n \in wanted <=> /\ desired[n] # None
                                /\ desired[n].src.type = "syslog" /\ desired[n].src.enabled
    <3>1. status[n] = None <=> desired[n] = None
      BY DEF SourcesInv, Known
    <3>2. desired[n] # None => status[n].state \in {"running", "stopped", "error", "disabled"}
      BY <3>1 DEF SourcesInv, TypeOK, Status
    <3> QED BY <1>2, <3>1, <3>2 DEF ReportOK
  <2>2. wanted = {} <=> asked
    <3> HIDE DEF wanted
    <3>1. wanted \subseteq Names
      BY DEF wanted
    <3> QED BY <2>1, <3>1
  <2>3. (\E n \in Names : running[n] # None) <=> open # {}
    <3>1. \A n \in Names : running[n] \in open \cup {None}
      BY DEF SourcesInv, TypeOK
    <3>2. \A l \in open : l.src.name \in Names /\ running[l.src.name] # None
      BY <1>1 DEF AllKnown, SourcesInv, TypeOK, Listener, Source
    <3> QED BY <3>1, <3>2
  <2>4. Ready <=> open # {} \/ asked
    BY <2>2, <2>3 DEF Ready
  <2> QED BY <2>4 DEF ReadyMeansServing
<1> QED BY <1>3, <1>4 DEF ReportsAreTrue

\* The HTTP endpoint serves a source if and only if that source is reported as the
\* running http_json source, and the readiness probe is up if and only if a syslog
\* socket is open or no syslog source is to run.  The premises leave out a move that
\* succeeds, which is stopped at once and reported so (supervisor.go:174), and a
\* failed move that also changed the type or switched the source on, whose error
\* stays with a definition that has since been restored (supervisor.go:180).  Other
\* edits, failures, refusals and processes remain (apply, stopSource, Ready).
THEOREM ReportsStayTrue ==
  Spec /\ []NoMoveSucceeds /\ []SyslogMovesOnly => []ReportsAreTrue
<1> DEFINE Inv == /\ SourcesInv /\ AgreeInv /\ ReportInv
                  /\ life # "stopped" => AllKnown /\ OneSocketPerSource
           Premise == NoMoveSucceeds /\ SyslogMovesOnly
<1>1. Init => Inv
  <2>1. Init => OneSocketPerSource /\ ReportInv
    BY DEF Init, OneSocketPerSource, ReportInv
  <2> QED BY <2>1, SourcesInitially, AgreeInitially
<1>2. Inv /\ Premise /\ Premise' /\ [Next]_vars => Inv'
  <2>1. life' # "stopped" /\ NoMoveSucceeds' => NoListenerReplaced'
    BY DEF NoMoveSucceeds, NoListenerReplaced
  <2> QED BY <2>1, LifeEnds, SourcesStep, AgreeStep, AllKnownStep, OneSocketStep, ReportStep
<1>3. Inv => ReportsAreTrue
  BY ReportFacts
<1>4. NoMoveSucceeds /\ SyslogMovesOnly => Premise
  OBVIOUS
<1> HIDE DEF Inv, Premise
<1> QED
  BY <1>1, <1>2, <1>3, <1>4, PTL DEF Spec

\* No reconcile takes a source off the air that it could have left on it: not one
\* whose definition did not change, and not one whose move fails or is under way.
\* The premise leaves out the move that succeeds, in which the new listener is
\* closed under its name (Reconcile, supervisor.go:174).
THEOREM NobodyTakenOffTheAir == Spec /\ []NoMoveSucceeds => SourcesUndisturbed
<1> DEFINE Served == life = "up" /\ lock = "apply" => \A p \in after :
                        running[p.name] # None => running'[p.name] # None
<1>1. Init => SourcesInv
  BY SourcesInitially
<1>2. SourcesInv /\ [Next]_vars => SourcesInv'
  BY SourcesStep
<1>3. SourcesInv /\ NoMoveSucceeds /\ [Next]_vars => [Served]_vars
  <2> SUFFICES ASSUME SourcesInv, NoMoveSucceeds, Next, life = "up", lock = "apply",
                      NEW p \in after, running[p.name] # None
               PROVE  running'[p.name] # None
    OBVIOUS
  <2>0. p.name \in Names
    BY DEF SourcesInv, TypeOK, Source
  <2>1. CASE running' = running
    BY <2>1
  <2>2. CASE ApplyListener
    <3>1. PICK s \in Source : s = Head(todo).src
      <4>1. todo # <<>> /\ todo \in Seq(Desired)
        BY <2>2 DEF ApplyListener, SourcesInv, TypeOK
      <4>2. Head(todo) \in Desired
        BY <4>1
      <4> QED BY <4>2 DEF Desired
    <3>2. PICK k \in Candidates(s) : running' = [running EXCEPT ![s.name] = [at |-> k, src |-> s]]
      BY <2>2, <3>1 DEF ApplyListener
    <3>3. [at |-> k, src |-> s] \in Listener
      BY DEF Candidates, Listener
    <3> QED BY <2>0, <3>2, <3>3, SourcesAssumption DEF SourcesInv, TypeOK
  <2>3. CASE ReconcileEnd
    <3>1. PICK gone : EndWith(gone)
      BY <2>3, EndFacts
    <3>2. Pending = {}
      BY <3>1 DEF EndWith, Pending
    <3>3. p.name \notin gone
      BY <2>0, <3>1, <3>2 DEF EndWith, NoMoveSucceeds
    <3> QED BY <2>0, <3>1, <3>3 DEF EndWith
  <2>4. CASE \/ \E m \in Names : Edit(m)
             \/ \E k \in Binds : OtherBinds(k) \/ OtherReleases(k)
             \/ Start \/ ReadSources \/ Cancel
             \/ ApplyDisabled \/ ApplyHTTP \/ ApplyFails
    <3>1. running' = running
      BY <2>4 DEF Edit, OtherBinds, OtherReleases, Start, ReadSources, Cancel, ApplyDisabled,
                  ApplyHTTP, ApplyFails, supervisor
    <3> QED BY <2>1, <3>1
  <2>5. CASE ReconcileBegin \/ Stop
    BY <2>5 DEF ReconcileBegin, Stop
  <2> QED BY <2>2, <2>3, <2>4, <2>5 DEF Next, Apply
<1>4. MovingSourceServed <=> [][Served]_vars
  BY DEF MovingSourceServed
<1>5. SourcesUndisturbed <=> UnchangedUntouched /\ MovingSourceServed
  BY DEF SourcesUndisturbed
<1> QED
  BY <1>1, <1>2, <1>3, <1>4, <1>5, OthersUntouched, PTL DEF Spec
=============================================================================
