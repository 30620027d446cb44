------------------------- MODULE AdminConsoleProofs -------------------------
(***************************************************************************)
(* Proofs about the pages that change the server (module AdminConsole).    *)
(*                                                                         *)
(* Each page has an inductive invariant of its own; the pages share no     *)
(* variable, so a step of the console is a step or a stutter of each.      *)
(* From the invariants follow what the pages show (PagesTellTheTruth),     *)
(* what they send (NoBlindOverwrite), that an untouched save stores what   *)
(* was there (UntouchedIsUnchanged) and that a read which succeeds leaves  *)
(* alone what is being typed (TypingSurvives), for every number of calls,  *)
(* reads, dialogs, lost answers and changes by others.                     *)
(*                                                                         *)
(* The shapes of records are stated as equations (r = [a |-> r.a, ...])    *)
(* because no set of values is given for texts, forms and rows.            *)
(***************************************************************************)
EXTENDS AdminConsole, Collections, TLAPS

-----------------------------------------------------------------------------
(***************************************************************************)
(* The query cache and lists of calls.                                     *)
(***************************************************************************)

\* An entry of the query cache: its last data, whether the last read failed, and
\* the read that is on its way, if any.
IsEntry(q) ==
    /\ q = [data |-> q.data, error |-> q.error, fetch |-> q.fetch]
    /\ \/ q.fetch = NotAsked
       \/ q.fetch = Asked
       \/ q.fetch = [step |-> "answered", data |-> q.fetch.data]

\* What the operations of the cache do to the three fields of an entry.
LEMMA CacheFacts ==
  ASSUME NEW q, IsEntry(q), NEW d
  PROVE  /\ Refetch(q) = [data |-> q.data, error |-> q.error, fetch |-> IF q.fetch = NotAsked THEN Asked ELSE q.fetch]
         /\ Invalidate(q) = [data |-> q.data, error |-> q.error, fetch |-> IF FirstRead(q) THEN q.fetch ELSE Asked]
         /\ SetQueryData(q, d) = [data |-> d, error |-> FALSE, fetch |-> q.fetch]
         /\ AnswerFetch(q, d) = [data |-> q.data, error |-> q.error, fetch |-> [step |-> "answered", data |-> d]]
<1>1. Refetch(q) = [data |-> q.data, error |-> q.error, fetch |-> IF q.fetch = NotAsked THEN Asked ELSE q.fetch]
  BY SMT DEF IsEntry, Refetch
<1>2. Invalidate(q) = [data |-> q.data, error |-> q.error, fetch |-> IF FirstRead(q) THEN q.fetch ELSE Asked]
  BY SMT DEF IsEntry, Invalidate
<1>3. SetQueryData(q, d) = [data |-> d, error |-> FALSE, fetch |-> q.fetch]
  <2>1. [q EXCEPT !.data = d] = [data |-> d, error |-> q.error, fetch |-> q.fetch]
    BY SMT DEF IsEntry
  <2>2. SetQueryData(q, d) = [[q EXCEPT !.data = d] EXCEPT !.error = FALSE]
    BY Zenon DEF SetQueryData
  <2>3. \A x : [[data |-> d, error |-> q.error, fetch |-> q.fetch] EXCEPT !.error = x] =
            [data |-> d, error |-> x, fetch |-> q.fetch]
    BY SMT
  <2> QED BY <2>1, <2>2, <2>3, Zenon
<1>4. AnswerFetch(q, d) = [data |-> q.data, error |-> q.error, fetch |-> [step |-> "answered", data |-> d]]
  BY SMT DEF IsEntry, AnswerFetch
<1> QED BY <1>1, <1>2, <1>3, <1>4

\* An answer that arrives ends the read: a failure keeps the data and marks the
\* entry, an answer replaces the data.
LEMMA Arrival ==
  ASSUME NEW q, IsEntry(q)
  PROVE  LET r == Arrive(q) IN
         /\ IsEntry(r) /\ r.fetch = NotAsked
         /\ q.fetch.data = NoData => r.data = q.data /\ r.error = TRUE
         /\ q.fetch.data # NoData => r.data = q.fetch.data /\ r.error = FALSE
<1>1. CASE q.fetch.data = NoData
  <2>1. \A x : [q EXCEPT !.error = x] = [data |-> q.data, error |-> x, fetch |-> q.fetch]
    BY DEF IsEntry
  <2>2. [q EXCEPT !.error = TRUE] = [data |-> q.data, error |-> TRUE, fetch |-> q.fetch]
    BY <2>1, Zenon
  <2>3. \A x : [[data |-> q.data, error |-> x, fetch |-> q.fetch] EXCEPT !.fetch = NotAsked] =
              [data |-> q.data, error |-> x, fetch |-> NotAsked]
    OBVIOUS
  <2>4. [[data |-> q.data, error |-> TRUE, fetch |-> q.fetch] EXCEPT !.fetch = NotAsked] =
            [data |-> q.data, error |-> TRUE, fetch |-> NotAsked]
    BY <2>3, Zenon
  <2>5. Arrive(q) = [data |-> q.data, error |-> TRUE, fetch |-> NotAsked]
    BY <1>1, <2>2, <2>4, Zenon DEF Arrive
  <2> QED BY <1>1, <2>5 DEF IsEntry
<1>2. CASE q.fetch.data # NoData
  <2>1. Arrive(q) = [data |-> q.fetch.data, error |-> FALSE, fetch |-> NotAsked]
    BY <1>2 DEF Arrive
  <2> QED BY <1>2, <2>1 DEF IsEntry
<1> QED BY <1>1, <1>2

\* A finite list of anything.
Listed(s) == s \in Seq(ToSet(s))

\* A list with its elements replaced one by one is a list of the same length.
LEMMA ListedMap ==
  ASSUME NEW s, Listed(s), NEW t, t = [i \in DOMAIN s |-> t[i]]
  PROVE  Listed(t) /\ DOMAIN t = DOMAIN s /\ Len(t) = Len(s)
<1>1. DOMAIN s = 1..Len(s) /\ Len(s) \in Nat
  BY DEF Listed
<1>2. DOMAIN t = 1..Len(s)
  BY <1>1
<1>3. t \in [1..Len(s) -> ToSet(t)]
  BY <1>2 DEF ToSet
<1>4. t \in Seq(ToSet(t))
  BY <1>1, <1>3, SeqDef
<1> QED BY <1>1, <1>2, <1>4 DEF Listed

\* A list with one element more: the old elements are where they were.
LEMMA ListedAppend ==
  ASSUME NEW s, Listed(s), NEW e
  PROVE  /\ Listed(Append(s, e)) /\ DOMAIN Append(s, e) = 1..(Len(s) + 1) /\ Len(Append(s, e)) = Len(s) + 1
         /\ Len(s) \in Nat /\ DOMAIN s = 1..Len(s)
         /\ \A i \in DOMAIN s : Append(s, e)[i] = s[i] /\ i \in DOMAIN Append(s, e) /\ i \in Nat /\ i # Len(s) + 1 /\ i # 0
         /\ Append(s, e)[Len(s) + 1] = e
         /\ \A i \in DOMAIN Append(s, e) : i \in DOMAIN s \/ i = Len(s) + 1
<1> DEFINE S == ToSet(s) \cup {e}
<1>1. s \in Seq(S)
  BY DEF Listed
<1>2. e \in S
  OBVIOUS
<1> HIDE DEF S
<1>3. /\ Append(s, e) \in Seq(S) /\ Len(Append(s, e)) = Len(s) + 1
      /\ \A i \in 1..Len(s) : Append(s, e)[i] = s[i]
      /\ Append(s, e)[Len(s) + 1] = e
      /\ DOMAIN s = 1..Len(s) /\ Len(s) \in Nat
      /\ DOMAIN Append(s, e) = 1..(Len(s) + 1)
  BY <1>1, <1>2, AppendProperties
<1> DEFINE t == Append(s, e)
           n == Len(s) + 1
<1>4. n \in Nat /\ DOMAIN t = 1..n /\ t \in Seq(S)
  BY <1>3
<1>5. Listed(t)
  <2> HIDE DEF t, n
  <2>1. t = [i \in 1..n |-> t[i]]
    BY <1>4
  <2>2. t \in [1..n -> ToSet(t)]
    BY <1>4, <2>1 DEF ToSet
  <2>3. t \in Seq(ToSet(t))
    BY <1>4, <2>2, SeqDef
  <2> QED BY <2>3 DEF Listed
<1> QED BY <1>3, <1>5

\* An answer that is written into one call of a list leaves the other calls alone.
LEMMA Answering ==
  ASSUME NEW s, Listed(s), NEW i \in DOMAIN s, NEW a, NEW t, t = [s EXCEPT ![i].answer = a]
  PROVE  /\ Listed(t) /\ DOMAIN t = DOMAIN s /\ Len(t) = Len(s)
         /\ t[i] = [s[i] EXCEPT !.answer = a]
         /\ \A j \in DOMAIN s : j # i => t[j] = s[j]
<1>1. t = [j \in DOMAIN s |-> IF j = i THEN [s[i] EXCEPT !.answer = a] ELSE s[j]]
  BY Zenon
<1>2. t = [j \in DOMAIN s |-> t[j]]
  BY <1>1
<1> QED BY <1>1, <1>2, ListedMap

\* A list made of the elements of another.
LEMMA SeqListed ==
  ASSUME NEW S, NEW s \in Seq(S)
  PROVE  Listed(s) /\ \A i \in DOMAIN s : s[i] \in S
<1>1. s = [i \in 1..Len(s) |-> s[i]] /\ DOMAIN s = 1..Len(s) /\ Len(s) \in Nat
  OBVIOUS
<1>2. s \in [1..Len(s) -> ToSet(s)]
  BY <1>1 DEF ToSet
<1>3. s \in Seq(ToSet(s))
  BY <1>1, <1>2, SeqDef
<1> QED BY <1>1, <1>3 DEF Listed

\* The indices of a list.
LEMMA ListedFacts ==
  ASSUME NEW s, Listed(s)
  PROVE  /\ DOMAIN s = 1..Len(s) /\ Len(s) \in Nat /\ s = [i \in DOMAIN s |-> s[i]]
         /\ \A i \in DOMAIN s : i \in Nat /\ i # 0 /\ s[i] \in ToSet(s)
BY DEF Listed, ToSet

\* A list without one of its elements holds nothing new.
LEMMA ListedRemove ==
  ASSUME NEW s, Listed(s), NEW i \in DOMAIN s
  PROVE  Listed(RemoveAt(s, i)) /\ \A j \in DOMAIN RemoveAt(s, i) : RemoveAt(s, i)[j] \in ToSet(s)
<1> DEFINE S == ToSet(s)
           a == SubSeq(s, 1, i - 1)
           b == SubSeq(s, i + 1, Len(s))
<1>1. /\ Len(s) \in Nat /\ i \in 1..Len(s) /\ \A j \in 1..Len(s) : s[j] \in S
  BY ListedFacts
<1>2. i - 1 \in Int /\ i + 1 \in Int /\ Len(s) \in Int /\ 1 \in Int
  BY <1>1
<1>3. \A j \in 1..(i - 1) : s[j] \in S
  BY <1>1
<1>4. \A j \in (i + 1)..Len(s) : s[j] \in S
  BY <1>1
<1> HIDE DEF S
<1>5. a \in Seq(S)
  BY <1>2, <1>3, SubSeqProperties
<1>6. b \in Seq(S)
  BY <1>2, <1>4, SubSeqProperties
<1>7. a \o b \in Seq(S)
  BY <1>5, <1>6, ConcatProperties
<1>8. RemoveAt(s, i) \in Seq(S)
  BY <1>7 DEF RemoveAt
<1>9. Listed(RemoveAt(s, i)) /\ \A j \in DOMAIN RemoveAt(s, i) : RemoveAt(s, i)[j] \in S
  BY <1>8, SeqListed
<1> QED BY <1>9 DEF S

\* What remains of a list without e: its entries in their order, none of them e.
LEMMA WithoutIs ==
  ASSUME NEW s, Listed(s), NEW e
  PROVE  /\ Listed(Without(s, e)) /\ \A i \in DOMAIN Without(s, e) : Without(s, e)[i] \in ToSet(s) /\ Without(s, e)[i] # e
         /\ (\A i \in DOMAIN s : s[i] # e) => Without(s, e) = s
<1> DEFINE R == ToSet(s)
           n == Len(s)
           D == 1..n
           T == Seq(R)
           st == [p \in T \X D |-> IF s[p[2]] = e THEN p[1] ELSE Append(p[1], s[p[2]])]
           h == CHOOSE f : f = [t \in SUBSET D |->
                  IF t = {} THEN <<>>
                  ELSE IF s[Max(t)] = e THEN f[t \ {Max(t)}] ELSE Append(f[t \ {Max(t)}], s[Max(t)])]
<1>0. /\ D = DOMAIN s /\ n \in Nat /\ s = [i \in D |-> s[i]] /\ \A i \in D : s[i] \in R /\ i \in Nat /\ i # 0
      /\ IsFiniteSet(D) /\ D \subseteq Int
  <2>1. D = DOMAIN s /\ n \in Nat /\ s = [i \in D |-> s[i]] /\ \A i \in D : s[i] \in R /\ i \in Nat /\ i # 0
    BY ListedFacts
  <2>2. 1 \in Int /\ n \in Int /\ D \subseteq Int
    BY <2>1
  <2>3. IsFiniteSet(D)
    BY <2>2, FS_Interval
  <2> QED BY <2>1, <2>2, <2>3
<1>1. \E f : f = [t \in SUBSET D |->
                  IF t = {} THEN <<>>
                  ELSE IF s[Max(t)] = e THEN f[t \ {Max(t)}] ELSE Append(f[t \ {Max(t)}], s[Max(t)])]
  <2> HIDE DEF D, R, n
  <2>1. <<>> \in T /\ st \in [T \X D -> T]
    BY <1>0
  <2>2. \A a \in T, i \in D : st[<<a, i>>] = IF s[i] = e THEN a ELSE Append(a, s[i])
    OBVIOUS
  <2> HIDE DEF st, T
  <2>3. PICK b : b = <<>>
    OBVIOUS
  <2>4. PICK f : Folded(f, st, b, T, D)
    BY <1>0, <2>1, <2>3, FoldExists
  <2>5. \A t \in SUBSET D : t # {} => Max(t) \in D
    <3> SUFFICES ASSUME NEW t \in SUBSET D, t # {} PROVE Max(t) \in D
      OBVIOUS
    <3>1. IsFiniteSet(t) /\ t \subseteq Int
      BY <1>0, FS_Subset
    <3> QED BY <3>1, MaxExists
  <2>6. \A t \in SUBSET D : f[t \ {Max(t)}] \in T
    BY <2>4 DEF Folded
  <2>7. \A t \in SUBSET D :
           f[t] = IF t = {} THEN b
                  ELSE IF s[Max(t)] = e THEN f[t \ {Max(t)}] ELSE Append(f[t \ {Max(t)}], s[Max(t)])
    BY <2>2, <2>4, <2>5, <2>6 DEF Folded
  <2>8. f = [t \in SUBSET D |-> f[t]]
    BY <2>4 DEF Folded
  <2>9. f = [t \in SUBSET D |->
                  IF t = {} THEN <<>>
                  ELSE IF s[Max(t)] = e THEN f[t \ {Max(t)}] ELSE Append(f[t \ {Max(t)}], s[Max(t)])]
    BY <2>3, <2>7, <2>8, Zenon
  <2> QED BY <2>9
<1>2. h = [t \in SUBSET D |->
                  IF t = {} THEN <<>>
                  ELSE IF s[Max(t)] = e THEN h[t \ {Max(t)}] ELSE Append(h[t \ {Max(t)}], s[Max(t)])]
  <2> HIDE DEF D
  <2> QED BY <1>1
<1>3. Without(s, e) = h[D]
  <2> HIDE DEF D
  <2> QED BY <1>0 DEF Without, FoldLeft, MapThenFoldSet
<1> HIDE DEF h
<1>4. h[{}] = <<>>
  <2> HIDE DEF D
  <2>1. {} \in SUBSET D
    OBVIOUS
  <2> QED BY <1>2, <2>1
<1>5. \A k \in D : h[1..k] = IF s[k] = e THEN h[1..(k - 1)] ELSE Append(h[1..(k - 1)], s[k])
  <2> SUFFICES ASSUME NEW k \in D
               PROVE  h[1..k] = IF s[k] = e THEN h[1..(k - 1)] ELSE Append(h[1..(k - 1)], s[k])
    OBVIOUS
  <2>1. Max(1..k) = k /\ (1..k) \ {k} = 1..(k - 1) /\ 1..k # {}
    BY <1>0, MaxOfFirst
  <2>2. 1..k \in SUBSET D
    BY <1>0
  <2>3. PICK t \in SUBSET D : t = 1..k
    BY <2>2
  <2>4. t # {} /\ Max(t) = k /\ t \ {Max(t)} = 1..(k - 1)
    BY <2>1, <2>3
  <2> HIDE DEF D
  <2>5. h[t] = IF s[k] = e THEN h[1..(k - 1)] ELSE Append(h[1..(k - 1)], s[k])
    BY <1>2, <2>4
  <2> QED BY <2>3, <2>5
<1> DEFINE K == R \ {e}
           All == \A i \in D : s[i] # e
           P == {k \in Nat : k <= n => h[1..k] \in Seq(K) /\ (All => Len(h[1..k]) = k /\ \A i \in 1..k : h[1..k][i] = s[i])}
<1>6. 0 \in P
  <2>1. 1..0 = {}
    OBVIOUS
  <2>2. h[1..0] = <<>>
    BY <1>4, <2>1
  <2>3. PICK b : b = h[1..0]
    OBVIOUS
  <2> HIDE DEF K, All
  <2>4. b \in Seq(K) /\ Len(b) = 0 /\ \A i \in 1..0 : b[i] = s[i]
    BY <2>2, <2>3
  <2> QED BY <2>3, <2>4
<1>7. ASSUME NEW j \in Nat, j \in P PROVE j + 1 \in P
  <2> SUFFICES ASSUME j + 1 <= n
               PROVE  /\ h[1..(j + 1)] \in Seq(K)
                      /\ All => Len(h[1..(j + 1)]) = j + 1 /\ \A i \in 1..(j + 1) : h[1..(j + 1)][i] = s[i]
    OBVIOUS
  <2>1. PICK k : k = j + 1
    OBVIOUS
  <2>2. k \in D /\ k - 1 = j /\ k \in Nat
    BY <1>0, <2>1
  <2>3. PICK a : a = h[1..j]
    OBVIOUS
  <2>4. a \in Seq(K) /\ (All => Len(a) = j /\ \A i \in 1..j : a[i] = s[i])
    BY <1>0, <1>7, <2>3
  <2>5. h[1..k] = IF s[k] = e THEN a ELSE Append(a, s[k])
    BY <1>5, <2>2, <2>3
  <2>6. s[k] \in R
    BY <1>0, <2>2
  <2>a. All => s[k] # e
    BY <2>2
  <2> HIDE DEF All, D, R, P, n
  <2>7. CASE s[k] = e
    <3>1. ~All
      BY <2>7, <2>a
    <3> QED BY <2>1, <2>4, <2>5, <2>7, <3>1
  <2>8. CASE s[k] # e
    <3>1. s[k] \in K
      BY <2>6, <2>8
    <3> HIDE DEF K
    <3>2. /\ Append(a, s[k]) \in Seq(K) /\ Len(Append(a, s[k])) = Len(a) + 1
          /\ \A i \in 1..Len(a) : Append(a, s[k])[i] = a[i]
          /\ Append(a, s[k])[Len(a) + 1] = s[k]
      BY <2>4, <3>1, AppendProperties
    <3>3. h[1..k] = Append(a, s[k])
      BY <2>5, <2>8
    <3>4. ASSUME All PROVE Len(h[1..k]) = k /\ \A i \in 1..k : h[1..k][i] = s[i]
      <4>1. Len(a) = j /\ \A i \in 1..j : a[i] = s[i]
        BY <2>4, <3>4
      <4>2. \A i \in 1..k : i \in 1..j \/ i = k
        BY <2>1, <2>2
      <4> QED BY <2>1, <3>2, <3>3, <4>1, <4>2
    <3> QED BY <2>1, <3>2, <3>3, <3>4
  <2> QED BY <2>7, <2>8
<1>8. Nat \subseteq P
  <2> HIDE DEF P
  <2> QED BY <1>6, <1>7, NatSetInduction
<1>9. Without(s, e) \in Seq(K) /\ (All => Len(Without(s, e)) = n /\ \A i \in 1..n : Without(s, e)[i] = s[i])
  <2>1. n \in P
    BY <1>0, <1>8
  <2>2. n <= n
    BY <1>0
  <2> HIDE DEF K, All
  <2> QED BY <1>3, <2>1, <2>2
<1>10. PICK r : r = Without(s, e)
  OBVIOUS
<1>11. Listed(r) /\ \A i \in DOMAIN r : r[i] \in K
  <2>1. r \in Seq(K)
    BY <1>9, <1>10
  <2> HIDE DEF K
  <2> QED BY <2>1, SeqListed
<1>12. ASSUME All PROVE r = s
  <2>1. Len(r) = n /\ \A i \in 1..n : r[i] = s[i]
    BY <1>9, <1>10, <1>12
  <2>2. r = [i \in 1..Len(r) |-> r[i]]
    BY <1>11, ListedFacts
  <2> QED BY <1>0, <2>1, <2>2
<1> QED BY <1>0, <1>10, <1>11, <1>12

-----------------------------------------------------------------------------
(***************************************************************************)
(* The page of API keys.                                                   *)
(***************************************************************************)

\* A call that creates or revokes a key.
IsKeyCall(c) ==
    /\ c = [op |-> c.op, key |-> c.key, live |-> c.live, answer |-> c.answer]
    /\ c.op \in {"create", "revoke"} /\ c.live \in BOOLEAN
    /\ c.answer \in {"none", "ok", "lost", "refused", "listing", "done", "unheard"}

\* The shape of the page.
KeysShape ==
    /\ IsEntry(keys)
    /\ Listed(keyCalls) /\ \A i \in DOMAIN keyCalls : IsKeyCall(keyCalls[i])
    /\ keyDialog = [open |-> keyDialog.open, name |-> keyDialog.name, scopes |-> keyDialog.scopes,
                     secret |-> keyDialog.secret, error |-> keyDialog.error]

\* A key is known by the call that made it, and its callback is kept.
KeyCallsKept ==
    \A i \in DOMAIN keyCalls : keyCalls[i].op = "create" =>
        /\ keyCalls[i].key = i
        /\ keyCalls[i].answer \notin {"done", "unheard"} => keyCalls[i].live

\* A key was made or revoked by a call that has not been heard of.
KeyMoving(k) == \E i \in DOMAIN keyCalls :
    keyCalls[i].key = k /\ (keyCalls[i].answer = "ok" \/ Unheard(keyCalls[i]))

\* A list of keys differs from what is stored by such keys only.
KeysAgree(rows) == \A k \in (rows \ stored) \cup (stored \ rows) : KeyMoving(k)

\* So does what was read last, and what is shown when nothing is being read: a
\* change the page hears of invalidates the list.  The exception is a change that
\* joined a first read which had been answered.
KeysFresh ==
    ~overtakenKeys =>
        /\ keys.fetch.step = "answered" => keys.fetch.data # NoData /\ KeysAgree(keys.fetch.data.rows)
        /\ keys.fetch = NotAsked /\ keys.data # NoData => KeysAgree(keys.data.rows)

\* The secret of a key that is stored is on the screen, was there when the dialog
\* was closed, or is in an answer whose callback is still attached, or was lost.
KeyKnown(k) ==
    /\ k \in DOMAIN keyCalls /\ keyCalls[k].op = "create"
    /\ (keyCalls[k].answer \in {"ok", "listing"} /\ keyCalls[k].live) \/ Unheard(keyCalls[k])
KeysShown == \A k \in stored \ {FirstKey} : k \in onScreen \cup closedOn \/ KeyKnown(k)

\* The invariant of the page of API keys.
KeysInv == KeysShape /\ KeyCallsKept /\ KeysFresh /\ KeysShown

\* The page starts with nothing asked, one key stored and no call.
LEMMA KeysStart == KeysInit => KeysInv
<1> SUFFICES ASSUME KeysInit PROVE KeysInv
  OBVIOUS
<1>1. keyCalls = <<>> /\ DOMAIN keyCalls = {} /\ Listed(keyCalls)
  BY DEF KeysInit, Listed, ToSet
<1>2. keys = [data |-> NoData, error |-> FALSE, fetch |-> Asked]
  BY DEF KeysInit, EmptyEntry
<1>3. keyDialog = [open |-> FALSE, name |-> "", scopes |-> {"ingest"}, secret |-> 0, error |-> FALSE]
  BY DEF KeysInit, FreshDialog
<1>4. KeysShape
  BY <1>1, <1>2, <1>3 DEF KeysShape, IsEntry
<1>5. keys.fetch.step = "asked" /\ keys.fetch # NotAsked
  BY <1>2 DEF Asked, NotAsked
<1> QED BY <1>1, <1>4, <1>5 DEF KeysInv, KeyCallsKept, KeysFresh, KeysShown, KeysInit

\* The other fields of a call when it is answered or its callback is dropped.
LEMMA KeyCallFields ==
  ASSUME NEW c, IsKeyCall(c), NEW a, NEW l
  PROVE  /\ [c EXCEPT !.answer = a] = [op |-> c.op, key |-> c.key, live |-> c.live, answer |-> a]
         /\ [c EXCEPT !.live = l] = [op |-> c.op, key |-> c.key, live |-> l, answer |-> c.answer]
BY DEF IsKeyCall

\* The dialogs change nothing but what is typed.
LEMMA KeysDialogs ==
  ASSUME KeysInv, UNCHANGED <<stored, keys, keyCalls, onScreen, closedOn, overtakenKeys>>,
         keyDialog' = [open |-> keyDialog'.open, name |-> keyDialog'.name, scopes |-> keyDialog'.scopes,
                       secret |-> keyDialog'.secret, error |-> keyDialog'.error]
  PROVE  KeysInv'
BY DEF KeysInv, KeysShape, KeyCallsKept, KeysFresh, KeysShown, KeysAgree, KeyMoving, KeyKnown

\* The other fields of the dialog when one of them changes.
LEMMA KeyDialogFields ==
  ASSUME KeysShape, NEW x
  PROVE  LET d == keyDialog IN
         /\ [d EXCEPT !.open = x] = [open |-> x, name |-> d.name, scopes |-> d.scopes, secret |-> d.secret, error |-> d.error]
         /\ [d EXCEPT !.name = x] = [open |-> d.open, name |-> x, scopes |-> d.scopes, secret |-> d.secret, error |-> d.error]
         /\ [d EXCEPT !.scopes = x] = [open |-> d.open, name |-> d.name, scopes |-> x, secret |-> d.secret, error |-> d.error]
         /\ [d EXCEPT !.secret = x] = [open |-> d.open, name |-> d.name, scopes |-> d.scopes, secret |-> x, error |-> d.error]
         /\ [d EXCEPT !.error = x] = [open |-> d.open, name |-> d.name, scopes |-> d.scopes, secret |-> d.secret, error |-> x]
BY DEF KeysShape

\* Nothing is stored or read, and no answer that was not heard of is forgotten.
LEMMA KeysKept ==
  ASSUME KeysInv, UNCHANGED <<stored, keys, overtakenKeys>>, \A k : KeyMoving(k) => KeyMoving(k)'
  PROVE  KeysFresh'
<1>1. \A rows : KeysAgree(rows) => KeysAgree(rows)'
  BY DEF KeysAgree
<1> QED BY <1>1 DEF KeysInv, KeysFresh

\* A call is made: the callbacks of a finished call of the same kind go.
LEMMA KeysCalled ==
  ASSUME KeysInv, NEW op \in {"create", "revoke"}, NEW key, CallKeys(op, key),
         op = "create" => key = Len(keyCalls) + 1 /\ ~KeyPending("create"),
         UNCHANGED <<stored, keys, onScreen, closedOn, overtakenKeys>>,
         keyDialog' = [open |-> keyDialog'.open, name |-> keyDialog'.name, scopes |-> keyDialog'.scopes,
                       secret |-> keyDialog'.secret, error |-> keyDialog'.error]
  PROVE  KeysInv'
<1> DEFINE cs == [i \in DOMAIN keyCalls |-> [keyCalls[i] EXCEPT !.live = @ /\ keyCalls[i].op # op]]
           c == [op |-> op, key |-> key, live |-> TRUE, answer |-> "none"]
           n == Len(keyCalls) + 1
<1>1. keyCalls' = Append(cs, c)
  BY DEF CallKeys
<1>2. Listed(keyCalls) /\ \A i \in DOMAIN keyCalls : IsKeyCall(keyCalls[i])
  BY DEF KeysInv, KeysShape
<1>3. cs = [i \in DOMAIN keyCalls |-> cs[i]] /\ DOMAIN cs = DOMAIN keyCalls
  OBVIOUS
<1>4. Listed(cs) /\ Len(cs) = Len(keyCalls)
  <2> HIDE DEF cs
  <2> QED BY <1>2, <1>3, ListedMap
<1>5. ASSUME NEW i \in DOMAIN keyCalls
      PROVE  cs[i] = [op |-> keyCalls[i].op, key |-> keyCalls[i].key,
                      live |-> keyCalls[i].live /\ keyCalls[i].op # op, answer |-> keyCalls[i].answer]
  <2>1. cs[i] = [keyCalls[i] EXCEPT !.live = keyCalls[i].live /\ keyCalls[i].op # op]
    OBVIOUS
  <2>2. \A l : [keyCalls[i] EXCEPT !.live = l] =
             [op |-> keyCalls[i].op, key |-> keyCalls[i].key, live |-> l, answer |-> keyCalls[i].answer]
    BY <1>2, KeyCallFields
  <2> QED BY <2>1, <2>2, Zenon
<1>6. ASSUME NEW i \in DOMAIN keyCalls
      PROVE  /\ IsKeyCall(cs[i]) /\ cs[i].op = keyCalls[i].op /\ cs[i].key = keyCalls[i].key
             /\ cs[i].answer = keyCalls[i].answer
             /\ keyCalls[i].op # op => cs[i].live = keyCalls[i].live
  <2> HIDE DEF cs
  <2>1. PICK l \in BOOLEAN : l = (keyCalls[i].live /\ keyCalls[i].op # op)
    OBVIOUS
  <2>2. cs[i] = [op |-> keyCalls[i].op, key |-> keyCalls[i].key, live |-> l, answer |-> keyCalls[i].answer]
    BY <1>5, <2>1, Zenon
  <2>3. keyCalls[i].op # op => l = keyCalls[i].live
    BY <1>2, <2>1 DEF IsKeyCall
  <2> QED BY <1>2, <2>2, <2>3 DEF IsKeyCall
<1>7. IsKeyCall(c) /\ c.op = op /\ c.key = key /\ c.answer = "none" /\ c.live
  BY DEF IsKeyCall
<1> HIDE DEF cs, c
<1>8. /\ Listed(keyCalls') /\ DOMAIN keyCalls' = 1..n /\ keyCalls'[n] = c /\ n \in DOMAIN keyCalls'
      /\ \A i \in DOMAIN keyCalls : i \in DOMAIN keyCalls' /\ keyCalls'[i] = cs[i] /\ i # n
      /\ \A i \in DOMAIN keyCalls' : i \in DOMAIN keyCalls \/ i = n
  BY <1>1, <1>3, <1>4, ListedAppend
<1>p. ASSUME NEW i \in DOMAIN keyCalls, keyCalls[i].op = "create", keyCalls[i].answer \notin {"done", "unheard"}
      PROVE  op # "create" /\ cs[i].live
  <2>1. keyCalls[i].live
    BY <1>p DEF KeysInv, KeyCallsKept
  <2>2. op # "create"
    BY <1>p, <2>1 DEF KeyPending
  <2> QED BY <1>6, <1>p, <2>1, <2>2
<1>9. KeysShape'
  BY <1>6, <1>7, <1>8 DEF KeysInv, KeysShape
<1>10. KeyCallsKept'
  <2> SUFFICES ASSUME NEW i \in DOMAIN keyCalls', keyCalls'[i].op = "create"
               PROVE  /\ keyCalls'[i].key = i
                      /\ keyCalls'[i].answer \notin {"done", "unheard"} => keyCalls'[i].live
    BY DEF KeyCallsKept
  <2>1. CASE i = n
    BY <1>7, <1>8, <2>1
  <2>2. CASE i \in DOMAIN keyCalls
    <3>1. keyCalls[i].op = "create" /\ keyCalls[i].key = i
      BY <1>6, <1>8, <2>2 DEF KeysInv, KeyCallsKept
    <3> QED BY <1>6, <1>8, <1>p, <2>2, <3>1
  <2> QED BY <1>8, <2>1, <2>2
<1>11. KeysFresh'
  <2>1. \A i \in DOMAIN keyCalls : i \in DOMAIN keyCalls' /\ keyCalls'[i].key = keyCalls[i].key /\ keyCalls'[i].answer = keyCalls[i].answer
    BY <1>6, <1>8
  <2>2. \A k : KeyMoving(k) => KeyMoving(k)'
    BY <2>1 DEF KeyMoving, Unheard
  <2> QED BY <2>2, KeysKept
<1>12. KeysShown'
  <2> SUFFICES ASSUME NEW k \in stored \ {FirstKey}, k \notin onScreen \cup closedOn
               PROVE  KeyKnown(k)'
    BY DEF KeysShown
  <2>1. KeyKnown(k)
    BY DEF KeysInv, KeysShown
  <2>2. k \in DOMAIN keyCalls' /\ keyCalls'[k].op = "create" /\ keyCalls'[k].answer = keyCalls[k].answer
    BY <1>6, <1>8, <2>1 DEF KeyKnown
  <2>3. keyCalls[k].answer \in {"ok", "listing"} => keyCalls'[k].live
    BY <1>6, <1>8, <1>p, <2>1 DEF KeyKnown
  <2> QED BY <2>1, <2>2, <2>3 DEF KeyKnown, Unheard
<1> QED BY <1>9, <1>10, <1>11, <1>12 DEF KeysInv

\* The server answers a call, or the page takes the answer.
LEMMA KeysAnswered ==
  ASSUME KeysInv, NEW i \in DOMAIN keyCalls, NEW a \in {"ok", "lost", "refused", "listing", "done", "unheard"},
         keyCalls' = [keyCalls EXCEPT ![i].answer = a]
  PROVE  /\ Listed(keyCalls') /\ DOMAIN keyCalls' = DOMAIN keyCalls
         /\ keyCalls'[i] = [op |-> keyCalls[i].op, key |-> keyCalls[i].key, live |-> keyCalls[i].live, answer |-> a]
         /\ \A j \in DOMAIN keyCalls : j # i => keyCalls'[j] = keyCalls[j]
         /\ \A j \in DOMAIN keyCalls' : IsKeyCall(keyCalls'[j])
<1>1. Listed(keyCalls) /\ \A j \in DOMAIN keyCalls : IsKeyCall(keyCalls[j])
  BY DEF KeysInv, KeysShape
<1>2. /\ Listed(keyCalls') /\ DOMAIN keyCalls' = DOMAIN keyCalls
      /\ keyCalls'[i] = [keyCalls[i] EXCEPT !.answer = a]
      /\ \A j \in DOMAIN keyCalls : j # i => keyCalls'[j] = keyCalls[j]
  BY <1>1, Answering
<1>3. keyCalls'[i] = [op |-> keyCalls[i].op, key |-> keyCalls[i].key, live |-> keyCalls[i].live, answer |-> a]
  BY <1>1, <1>2, KeyCallFields
<1>4. IsKeyCall(keyCalls'[i])
  BY <1>1, <1>3 DEF IsKeyCall
<1> QED BY <1>1, <1>2, <1>3, <1>4

\* Every step of the page of API keys keeps its invariant.
LEMMA KeysStep == KeysInv /\ [KeysNext]_keyVars => KeysInv'
<1> SUFFICES ASSUME KeysInv, [KeysNext]_keyVars PROVE KeysInv'
  OBVIOUS
<1> DEFINE Shaped(d) == d = [open |-> d.open, name |-> d.name, scopes |-> d.scopes, secret |-> d.secret, error |-> d.error]
<1>s. IsEntry(keys) /\ Listed(keyCalls) /\ Shaped(keyDialog) /\ \A i \in DOMAIN keyCalls : IsKeyCall(keyCalls[i])
  BY DEF KeysInv, KeysShape
<1>d. \A x : /\ Shaped([keyDialog EXCEPT !.open = x]) /\ Shaped([keyDialog EXCEPT !.name = x])
             /\ Shaped([keyDialog EXCEPT !.scopes = x]) /\ Shaped([keyDialog EXCEPT !.error = x])
             /\ Shaped([keyDialog EXCEPT !.secret = x])
             /\ [keyDialog EXCEPT !.secret = x].open = keyDialog.open /\ [keyDialog EXCEPT !.secret = x].secret = x
  BY KeyDialogFields DEF KeysInv
<1>1. CASE UNCHANGED keyVars
  BY <1>1, <1>s, KeysDialogs DEF keyVars
<1>2. CASE OpenKeyDialog
  <2>1. Shaped(FreshDialog)
    BY DEF FreshDialog
  <2> QED BY <1>2, <2>1, KeysDialogs DEF OpenKeyDialog
<1>3. CASE TypeKey
  <2>1. Shaped(keyDialog')
    <3> HIDE DEF Shaped
    <3>1. CASE keyDialog' = [keyDialog EXCEPT !.name = "k"]
      BY <1>d, <3>1, Zenon
    <3>2. ASSUME NEW s \in Scopes, keyDialog' = [keyDialog EXCEPT !.scopes = (@ \ {s}) \cup ({s} \ @)] PROVE Shaped(keyDialog')
      BY <1>d, <3>2, Zenon
    <3> QED BY <1>3, <3>1, <3>2 DEF TypeKey
  <2> QED BY <1>3, <2>1, KeysDialogs DEF TypeKey
<1>4. CASE CloseKeyDialog
  <2>1. Shaped(keyDialog')
    <3> HIDE DEF Shaped
    <3> QED BY <1>4, <1>d DEF CloseKeyDialog
  <2> QED BY <1>4, <2>1, KeysDialogs DEF CloseKeyDialog
<1>5. CASE CreateKey
  <2>1. Shaped(keyDialog')
    <3> HIDE DEF Shaped
    <3> QED BY <1>5, <1>d DEF CreateKey
  <2>2. CASE UNCHANGED keyCalls
    BY <1>5, <2>1, <2>2, KeysDialogs DEF CreateKey
  <2>3. CASE CallKeys("create", Len(keyCalls) + 1)
    BY <1>5, <2>1, <2>3, KeysCalled DEF CreateKey, MayCreate
  <2> QED BY <1>5, <2>2, <2>3 DEF CreateKey
<1>6. CASE AskRevoke
  BY <1>6, <1>s, KeysDialogs DEF AskRevoke
<1>7. CASE RevokeKey
  BY <1>7, <1>s, KeysCalled DEF RevokeKey
<1>8. CASE CancelRevoke
  BY <1>8, <1>s, KeysDialogs DEF CancelRevoke
<1>9. ASSUME NEW i \in DOMAIN keyCalls, ServeKey(i) PROVE KeysInv'
  <2>0. keyCalls[i].answer = "none" /\ UNCHANGED <<keys, keyDialog, onScreen, closedOn, overtakenKeys>>
    BY <1>9 DEF ServeKey
  <2>1. CASE stored' = stored /\ keyCalls' = [keyCalls EXCEPT ![i].answer = "refused"]
    <3>1. /\ Listed(keyCalls') /\ DOMAIN keyCalls' = DOMAIN keyCalls
          /\ keyCalls'[i] = [op |-> keyCalls[i].op, key |-> keyCalls[i].key, live |-> keyCalls[i].live, answer |-> "refused"]
          /\ \A j \in DOMAIN keyCalls : j # i => keyCalls'[j] = keyCalls[j]
          /\ \A j \in DOMAIN keyCalls' : IsKeyCall(keyCalls'[j])
      BY <2>1, KeysAnswered
    <3>2. KeysShape' /\ KeyCallsKept'
      <4>1. KeysShape'
        BY <1>s, <2>0, <3>1 DEF KeysShape
      <4>2. KeyCallsKept'
        BY <1>s, <2>0, <3>1 DEF KeysInv, KeyCallsKept
      <4> QED BY <4>1, <4>2
    <3>4. \A k : KeyMoving(k) => KeyMoving(k)'
      BY <2>0, <3>1 DEF KeyMoving, Unheard
    <3>5. KeysFresh'
      BY <2>0, <2>1, <3>4, KeysKept
    <3>3. KeysShown'
      BY <2>0, <2>1, <3>1 DEF KeysInv, KeysShown, KeyKnown, Unheard
    <3> QED BY <3>2, <3>3, <3>5 DEF KeysInv
  <2>2. ASSUME NEW a \in {"ok", "lost"},
               stored' = (IF keyCalls[i].op = "create" THEN stored \cup {keyCalls[i].key} ELSE stored \ {keyCalls[i].key}),
               keyCalls' = [keyCalls EXCEPT ![i].answer = a]
        PROVE  KeysInv'
    <3>1. /\ Listed(keyCalls') /\ DOMAIN keyCalls' = DOMAIN keyCalls
          /\ keyCalls'[i] = [op |-> keyCalls[i].op, key |-> keyCalls[i].key, live |-> keyCalls[i].live, answer |-> a]
          /\ \A j \in DOMAIN keyCalls : j # i => keyCalls'[j] = keyCalls[j]
          /\ \A j \in DOMAIN keyCalls' : IsKeyCall(keyCalls'[j])
      BY <2>2, KeysAnswered
    <3>2. KeysShape' /\ KeyCallsKept'
      BY <1>s, <2>0, <3>1 DEF KeysInv, KeysShape, KeyCallsKept
    <3>3. KeysShown'
      <4>1. keyCalls[i].op = "create" => keyCalls[i].key = i /\ keyCalls[i].live
        BY <2>0 DEF KeysInv, KeyCallsKept
      <4>2. ASSUME NEW k \in stored', k # FirstKey, k \notin onScreen \cup closedOn
            PROVE  KeyKnown(k)'
        <5>1. CASE k \in stored
          <6>1. KeyKnown(k) /\ k # i
            BY <2>0, <4>2, <5>1 DEF KeysInv, KeysShown, KeyKnown, Unheard
          <6> QED BY <3>1, <6>1 DEF KeyKnown, Unheard
        <5>2. CASE k \notin stored
          <6>1. k = i /\ keyCalls[i].op = "create" /\ keyCalls[i].live
            BY <2>2, <4>1, <4>2, <5>2
          <6> QED BY <3>1, <6>1 DEF KeyKnown, Unheard
        <5> QED BY <5>1, <5>2
      <4> QED BY <2>0, <4>2 DEF KeysShown
    <3>4. KeysFresh'
      <4>1. \A k : KeyMoving(k) => KeyMoving(k)'
        BY <2>0, <3>1 DEF KeyMoving, Unheard
      <4>2. \A k : k = keyCalls[i].key => KeyMoving(k)'
        BY <3>1 DEF KeyMoving, Unheard
      <4>3. ASSUME NEW rows, KeysAgree(rows) PROVE KeysAgree(rows)'
        <5>1. SUFFICES ASSUME NEW k \in (rows \ stored') \cup (stored' \ rows) PROVE KeyMoving(k)'
          BY Zenon DEF KeysAgree
        <5>2. k = keyCalls[i].key \/ KeyMoving(k)
          BY <2>2, <4>3, <5>1 DEF KeysAgree
        <5> QED BY <4>1, <4>2, <5>2, Zenon
      <4> QED BY <2>0, <4>3 DEF KeysInv, KeysFresh
    <3> QED BY <3>2, <3>3, <3>4 DEF KeysInv
  <2> QED BY <1>9, <2>1, <2>2 DEF ServeKey
<1>l. ASSUME NEW i \in DOMAIN keyCalls, KeyListed(i) PROVE KeysInv'
  <2>0. keyCalls[i].answer = "ok" /\ UNCHANGED <<stored, keyDialog, onScreen, closedOn>>
    BY <1>l DEF KeyListed
  <2>1. /\ Listed(keyCalls') /\ DOMAIN keyCalls' = DOMAIN keyCalls
        /\ keyCalls'[i] = [op |-> keyCalls[i].op, key |-> keyCalls[i].key, live |-> keyCalls[i].live, answer |-> "listing"]
        /\ \A j \in DOMAIN keyCalls : j # i => keyCalls'[j] = keyCalls[j]
        /\ \A j \in DOMAIN keyCalls' : IsKeyCall(keyCalls'[j])
    BY <1>l, KeysAnswered DEF KeyListed
  <2>3. keys' = [data |-> keys.data, error |-> keys.error, fetch |-> IF FirstRead(keys) THEN keys.fetch ELSE Asked]
    BY <1>l, <1>s, CacheFacts DEF KeyListed
  <2>4. IsEntry(keys') /\ keys'.fetch # NotAsked
    BY <1>s, <2>3 DEF IsEntry, Asked, NotAsked, FirstRead
  <2>5. keys'.fetch.step = "answered" => overtakenKeys'
    <3>1. CASE FirstRead(keys)
      <4>1. keys'.fetch = keys.fetch /\ overtakenKeys' = (overtakenKeys \/ Overtaken(keys))
        BY <1>l, <2>3, <3>1 DEF KeyListed
      <4>2. keys.fetch.step = "answered" => keys.fetch # Asked
        BY DEF Asked
      <4> QED BY <3>1, <4>1, <4>2, Zenon DEF Overtaken
    <3>2. CASE ~FirstRead(keys)
      BY <2>3, <3>2 DEF Asked
    <3> QED BY <3>1, <3>2
  <2>6. KeysShape'
    BY <1>s, <2>0, <2>1, <2>4 DEF KeysShape
  <2>7. KeyCallsKept'
    BY <2>0, <2>1 DEF KeysInv, KeyCallsKept
  <2>8. KeysFresh'
    BY <2>4, <2>5 DEF KeysFresh
  <2>9. KeysShown'
    BY <2>0, <2>1 DEF KeysInv, KeysShown, KeyKnown, Unheard
  <2> QED BY <2>6, <2>7, <2>8, <2>9 DEF KeysInv
<1>10. ASSUME NEW i \in DOMAIN keyCalls, KeyOk(i) PROVE KeysInv'
  <2>1. /\ Listed(keyCalls') /\ DOMAIN keyCalls' = DOMAIN keyCalls
        /\ keyCalls'[i] = [op |-> keyCalls[i].op, key |-> keyCalls[i].key, live |-> keyCalls[i].live, answer |-> "done"]
        /\ \A j \in DOMAIN keyCalls : j # i => keyCalls'[j] = keyCalls[j]
        /\ \A j \in DOMAIN keyCalls' : IsKeyCall(keyCalls'[j])
    BY <1>10, KeysAnswered DEF KeyOk
  <2>2. Shaped(keyDialog')
    <3> HIDE DEF Shaped
    <3> QED BY <1>10, <1>d, <1>s DEF KeyOk
  <2>3. keyCalls[i].answer = "listing" /\ UNCHANGED <<stored, keys, overtakenKeys>>
    BY <1>10 DEF KeyOk
  <2>4. \A k : KeyMoving(k) => KeyMoving(k)'
    BY <2>1, <2>3 DEF KeyMoving, Unheard
  <2>5. KeysShape' /\ KeyCallsKept' /\ KeysFresh'
    <3>1. KeysShape'
      BY <1>s, <2>1, <2>2, <2>3 DEF KeysShape
    <3>2. KeyCallsKept'
      BY <2>1 DEF KeysInv, KeyCallsKept
    <3> QED BY <2>3, <2>4, <3>1, <3>2, KeysKept
  <2>6. onScreen \subseteq onScreen' /\ closedOn \subseteq closedOn' /\ stored' = stored /\ FirstKey' = FirstKey
    BY <1>10 DEF KeyOk, SecretsShown, FirstKey
  <2>7. keyCalls[i].op = "create" /\ keyCalls[i].live => i \in onScreen' \cup closedOn'
    <3> SUFFICES ASSUME keyCalls[i].op = "create", keyCalls[i].live, keyDialog.open PROVE i \in onScreen'
      BY <1>10 DEF KeyOk
    <3>1. keyDialog' = [keyDialog EXCEPT !.secret = i]
      BY <1>10 DEF KeyOk
    <3>2. keyDialog'.open = keyDialog.open /\ keyDialog'.secret = i
      BY <3>1, <1>d
    <3>3. i # 0
      BY <1>s, ListedAppend
    <3> QED BY <1>10, <3>2, <3>3 DEF KeyOk, SecretsShown
  <2>8. KeysShown'
    BY <2>1, <2>3, <2>6, <2>7 DEF KeysInv, KeysShown, KeyKnown, Unheard
  <2> QED BY <2>5, <2>8 DEF KeysInv
<1>11. ASSUME NEW i \in DOMAIN keyCalls, KeyRefused(i) PROVE KeysInv'
  <2>0. PICK a \in {"done", "unheard"} : a = (IF keyCalls[i].answer = "lost" THEN "unheard" ELSE "done")
    OBVIOUS
  <2>1. /\ Listed(keyCalls') /\ DOMAIN keyCalls' = DOMAIN keyCalls
        /\ keyCalls'[i] = [op |-> keyCalls[i].op, key |-> keyCalls[i].key, live |-> keyCalls[i].live, answer |-> a]
        /\ \A j \in DOMAIN keyCalls : j # i => keyCalls'[j] = keyCalls[j]
        /\ \A j \in DOMAIN keyCalls' : IsKeyCall(keyCalls'[j])
    <3>1. keyCalls' = [keyCalls EXCEPT ![i].answer = a]
      BY <1>11, <2>0, Zenon DEF KeyRefused
    <3> QED BY <3>1, KeysAnswered
  <2>2. Shaped(keyDialog')
    <3> HIDE DEF Shaped
    <3> QED BY <1>11, <1>d, <1>s DEF KeyRefused
  <2>3. UNCHANGED <<stored, keys, onScreen, closedOn, overtakenKeys>> /\ keyCalls[i].answer \in {"refused", "lost"}
    BY <1>11 DEF KeyRefused
  <2>4. \A k : KeyMoving(k) => KeyMoving(k)'
    BY <2>0, <2>1, <2>3 DEF KeyMoving, Unheard
  <2>5. KeysFresh'
    BY <2>3, <2>4, KeysKept
  <2>6. KeysShape'
    BY <1>s, <2>1, <2>2, <2>3 DEF KeysShape
  <2>7. KeyCallsKept'
    BY <2>1 DEF KeysInv, KeyCallsKept
  <2>8. KeysShown'
    BY <2>0, <2>1, <2>3 DEF KeysInv, KeysShown, KeyKnown, Unheard
  <2> QED BY <2>5, <2>6, <2>7, <2>8 DEF KeysInv
<1>12. CASE ServeKeys
  <2>1. keys' = [data |-> keys.data, error |-> keys.error, fetch |-> [step |-> "answered", data |-> KeyRows]]
    BY <1>12, <1>s, CacheFacts DEF ServeKeys
  <2>2. IsEntry(keys') /\ keys'.fetch # NotAsked /\ keys'.fetch.data = KeyRows
    BY <2>1 DEF IsEntry, NotAsked
  <2>3. KeyRows # NoData /\ KeyRows.rows = stored
    BY DEF KeyRows, NoData
  <2>4. UNCHANGED <<stored, keyDialog, keyCalls, onScreen, closedOn, overtakenKeys>>
    BY <1>12 DEF ServeKeys
  <2> QED BY <2>2, <2>3, <2>4 DEF KeysInv, KeysShape, KeyCallsKept, KeysFresh, KeysShown, KeysAgree, KeyKnown
<1>13. CASE KeysArrive
  <2>1. keys.fetch.step = "answered" /\ keys' = Arrive(keys)
    BY <1>13 DEF KeysArrive
  <2>2. IsEntry(keys') /\ keys'.fetch = NotAsked /\ (keys.fetch.data # NoData => keys'.data = keys.fetch.data)
    BY <1>s, <2>1, Arrival
  <2>3. keys'.fetch.step # "answered"
    BY <2>2 DEF NotAsked
  <2>4. UNCHANGED <<stored, keyDialog, keyCalls, onScreen, closedOn, overtakenKeys>>
    BY <1>13 DEF KeysArrive
  <2> QED BY <2>1, <2>2, <2>3, <2>4 DEF KeysInv, KeysShape, KeyCallsKept, KeysFresh, KeysShown, KeysAgree, KeyMoving, KeyKnown
<1> QED BY <1>1, <1>2, <1>3, <1>4, <1>5, <1>6, <1>7, <1>8, <1>9, <1>l, <1>10, <1>11, <1>12, <1>13 DEF KeysNext

\* The invariant gives the two properties of the page of API keys.
LEMMA KeysTruth == KeysInv => KeysListedTruly /\ SecretReachesScreen
BY DEF KeysInv, KeysFresh, KeysShown, KeysAgree, KeyMoving, KeyKnown, KeysListedTruly, SecretReachesScreen

-----------------------------------------------------------------------------
(***************************************************************************)
(* The users page.                                                         *)
(***************************************************************************)

\* The dialog that creates an account.
IsCreating(c) == c = [open |-> c.open, error |-> c.error, form |-> c.form]

\* The dialog that edits an account, and the row it was opened on.
IsEditing(e) ==
    \/ e = NoEditing
    \/ /\ e = [id |-> e.id, seen |-> e.seen, form |-> e.form, disabled |-> e.disabled]
       /\ e.seen.disabled \in BOOLEAN

\* A question before an account is deleted or its sessions are revoked.
IsAsking(q) == q = NoQuestion \/ q.action \in {"delete", "revoke"}

\* An account on the server.
IsAccount(a) ==
    /\ a = [name |-> a.name, role |-> a.role, disabled |-> a.disabled, password |-> a.password]
    /\ a.disabled \in BOOLEAN

\* The switch of a row is a Boolean.
IsUserList(d) == d # NoData => \A u \in DOMAIN d.rows : d.rows[u].disabled \in BOOLEAN

\* An update carries a role and a switch only when they were changed.
IsUserCall(m) ==
    /\ m = [op |-> m.op, id |-> m.id, seen |-> m.seen, body |-> m.body, row |-> m.row, live |-> m.live, answer |-> m.answer]
    /\ m.op \in {"create", "update", "delete", "revoke"}
    /\ m.live \in BOOLEAN
    /\ m.answer \in {"none", "read", "ok", "lost", "refused", "listing", "done", "rejected", "unheard"}
    /\ m.op = "create" => m.live /\ m.id = Made
    /\ m.answer = "read" => m.op = "update" /\ m.row.disabled \in BOOLEAN
    /\ m.op = "update" => /\ m.seen.disabled \in BOOLEAN
                          /\ m.body.role = Unset \/ m.body.role # m.seen.role
                          /\ m.body.disabled = Unset \/ (m.body.disabled = "yes" <=> ~m.seen.disabled)

\* The shape of the page and of the accounts.
UsersShape ==
    /\ accounts = [u \in DOMAIN accounts |-> accounts[u]] /\ \A u \in DOMAIN accounts : IsAccount(accounts[u])
    /\ IsEntry(users) /\ IsUserList(users.data) /\ IsUserList(users.fetch.data)
    /\ IsCreating(creating) /\ IsEditing(editing) /\ IsAsking(asking)
    /\ Listed(mutations) /\ \A i \in DOMAIN mutations : IsUserCall(mutations[i])

\* The i-th call creates an account and the page has not taken its answer.
CreateWaits(i) == mutations[i].op = "create" /\ mutations[i].answer \notin {"done", "rejected", "unheard"}

\* Only one account is being created at a time, and a generated password is on the
\* screen only when no dialog is open and none is on its way.
OneCreate ==
    /\ \A i, j \in DOMAIN mutations : CreateWaits(i) /\ CreateWaits(j) => i = j
    /\ generated # {} => ~creating.open /\ \A i \in DOMAIN mutations : ~CreateWaits(i)

\* An account was made or deleted by a call that has not been heard of.
UserMoving(u) == \E i \in DOMAIN mutations :
    /\ mutations[i].id = u /\ mutations[i].op \in {"create", "delete"}
    /\ mutations[i].answer \in {"ok", "lost", "unheard"}

\* A list of accounts differs from those there are by such accounts only.
UsersAgree(rows) ==
    \A u \in (DOMAIN rows \ DOMAIN accounts) \cup (DOMAIN accounts \ DOMAIN rows) : UserMoving(u)

\* So does what was read last, and what is shown when nothing is being read, unless
\* a change joined a first read which had been answered.
UsersFresh ==
    ~overtakenUsers =>
        /\ users.fetch.step = "answered" => users.fetch.data # NoData /\ UsersAgree(users.fetch.data.rows)
        /\ users.fetch = NotAsked /\ users.data # NoData => UsersAgree(users.data.rows)

\* The invariant of the users page.
UsersInv == UsersShape /\ OneCreate /\ UsersFresh /\ GeneratedIsShown

\* The page starts with the accounts of the server and no call.
LEMMA UsersStart == UsersInit => UsersInv
<1> SUFFICES ASSUME UsersInit PROVE UsersInv
  OBVIOUS
<1>1. mutations = <<>> /\ DOMAIN mutations = {} /\ Listed(mutations)
  BY DEF UsersInit, Listed, ToSet
<1>2. users = [data |-> NoData, error |-> FALSE, fetch |-> Asked] /\ editing = NoEditing
  BY DEF UsersInit, EmptyEntry
<1>3. creating = [open |-> FALSE, error |-> FALSE, form |-> NoForm]
  BY DEF UsersInit
<1>4. IsEntry(users) /\ users.data = NoData /\ users.fetch.data = NoData /\ users.fetch.step = "asked" /\ users.fetch # NotAsked
  BY <1>2 DEF IsEntry, Asked, NotAsked
<1>5. accounts = [u \in DOMAIN accounts |-> accounts[u]] /\ \A u \in DOMAIN accounts : IsAccount(accounts[u])
  BY DEF UsersInit, IsAccount
<1>6. UsersShape
  BY <1>1, <1>2, <1>3, <1>4, <1>5 DEF UsersShape, IsUserList, IsCreating, IsEditing, UsersInit, IsAsking
<1> QED BY <1>1, <1>4, <1>6 DEF UsersInv, OneCreate, UsersFresh, GeneratedIsShown, UsersInit

\* The other fields of a call when it is answered or its callback is dropped.
LEMMA UserCallFields ==
  ASSUME NEW m, IsUserCall(m), NEW x
  PROVE  /\ [m EXCEPT !.answer = x] = [op |-> m.op, id |-> m.id, seen |-> m.seen, body |-> m.body, row |-> m.row, live |-> m.live, answer |-> x]
         /\ [m EXCEPT !.live = x] = [op |-> m.op, id |-> m.id, seen |-> m.seen, body |-> m.body, row |-> m.row, live |-> x, answer |-> m.answer]
BY DEF IsUserCall

\* The other fields of a call for which the account has been read.
LEMMA UserRowRead ==
  ASSUME NEW m, IsUserCall(m), NEW x, NEW y
  PROVE  [m EXCEPT !.answer = x, !.row = y] =
             [op |-> m.op, id |-> m.id, seen |-> m.seen, body |-> m.body, row |-> y, live |-> m.live, answer |-> x]
<1> DEFINE n == [m EXCEPT !.answer = x]
           k == [n EXCEPT !.row = y]
<1>1. [m EXCEPT !.answer = x, !.row = y] = k
  OBVIOUS
<1>2. n = [op |-> m.op, id |-> m.id, seen |-> m.seen, body |-> m.body, row |-> m.row, live |-> m.live, answer |-> x]
  BY UserCallFields
<1> HIDE DEF n
<1>3. k = [f \in DOMAIN n |-> IF f = "row" THEN y ELSE n[f]]
  BY <1>2
<1>4. DOMAIN n = {"op", "id", "seen", "body", "row", "live", "answer"}
  BY <1>2
<1>5. n.op = m.op /\ n.id = m.id /\ n.seen = m.seen /\ n.body = m.body /\ n.answer = x
  BY <1>2
<1>6. n.live = m.live
  BY <1>2, Zenon
<1> HIDE DEF k
<1> QED BY <1>1, <1>3, <1>4, <1>5, <1>6

\* The other fields of the dialog when one of them changes.
LEMMA CreatingFields ==
  ASSUME NEW c, IsCreating(c), NEW x
  PROVE  /\ [c EXCEPT !.open = x] = [open |-> x, error |-> c.error, form |-> c.form]
         /\ [c EXCEPT !.error = x] = [open |-> c.open, error |-> x, form |-> c.form]
         /\ [c EXCEPT !.form = x] = [open |-> c.open, error |-> c.error, form |-> x]
BY DEF IsCreating

\* The dialogs change nothing but what is typed.
LEMMA UsersDialogs ==
  ASSUME UsersInv, UNCHANGED <<accounts, users, mutations, overtakenUsers>>, IsCreating(creating'), IsEditing(editing'),
         IsAsking(asking'),
         generated' # {} => generated # {} /\ ~creating'.open,
         generated \cup acknowledged \subseteq generated' \cup acknowledged'
  PROVE  UsersInv'
<1>1. UsersShape' /\ UsersFresh'
  BY DEF UsersInv, UsersShape, UsersFresh, UsersAgree, UserMoving
<1>2. OneCreate'
  BY DEF UsersInv, OneCreate, CreateWaits
<1>3. GeneratedIsShown'
  BY DEF UsersInv, GeneratedIsShown
<1> QED BY <1>1, <1>2, <1>3 DEF UsersInv

\* No account comes or goes, nothing is read, and no answer that was not heard of
\* is forgotten.
LEMMA UsersKept ==
  ASSUME UsersInv, UNCHANGED <<users, overtakenUsers>>, DOMAIN accounts' = DOMAIN accounts,
         \A u : UserMoving(u) => UserMoving(u)'
  PROVE  UsersFresh'
<1>1. \A rows : UsersAgree(rows) => UsersAgree(rows)'
  BY DEF UsersAgree
<1> QED BY <1>1 DEF UsersInv, UsersFresh

\* A call is made.
LEMMA UsersMutated ==
  ASSUME UsersInv, NEW op \in {"create", "update", "delete", "revoke"}, NEW id, NEW seen, NEW body, Mutate(op, id, seen, body),
         op = "create" => creating.open /\ ~InFlight({"create"}) /\ id = Made,
         op = "update" => /\ seen.disabled \in BOOLEAN
                          /\ body.role = Unset \/ body.role # seen.role
                          /\ body.disabled = Unset \/ (body.disabled = "yes" <=> ~seen.disabled),
         UNCHANGED <<accounts, users, editing, asking, generated, acknowledged, overtakenUsers>>,
         IsCreating(creating'), creating'.open = creating.open
  PROVE  UsersInv'
<1> DEFINE m == [op |-> op, id |-> id, seen |-> seen, body |-> body, row |-> NoData, live |-> TRUE, answer |-> "none"]
           n == Len(mutations) + 1
<1>1. mutations' = Append(mutations, m)
  BY DEF Mutate
<1>2. IsUserCall(m) /\ m.op = op /\ m.answer = "none" /\ m.body = body
  BY DEF IsUserCall
<1> HIDE DEF m
<1>3. /\ Listed(mutations') /\ DOMAIN mutations' = 1..n /\ mutations'[n] = m /\ n \in DOMAIN mutations'
      /\ \A i \in DOMAIN mutations : i \in DOMAIN mutations' /\ mutations'[i] = mutations[i] /\ i # n
      /\ \A i \in DOMAIN mutations' : i \in DOMAIN mutations \/ i = n
  BY <1>1, ListedAppend DEF UsersInv, UsersShape
<1> HIDE DEF n
<1>4. UsersShape'
  BY <1>2, <1>3 DEF UsersInv, UsersShape
<1>5. op = "create" => generated = {} /\ \A i \in DOMAIN mutations : ~CreateWaits(i)
  BY DEF UsersInv, OneCreate, UsersShape, IsUserCall, InFlight, CreateWaits
<1>6. \A i \in DOMAIN mutations' :
          CreateWaits(i)' => (i \in DOMAIN mutations /\ CreateWaits(i)) \/ (i = n /\ op = "create")
  BY <1>2, <1>3 DEF CreateWaits
<1>7. OneCreate'
  BY <1>3, <1>5, <1>6 DEF UsersInv, OneCreate
<1>8. UsersFresh'
  <2>1. \A u : UserMoving(u) => UserMoving(u)'
    BY <1>3 DEF UserMoving
  <2> QED BY <2>1, UsersKept
<1>9. GeneratedIsShown'
  BY <1>2, <1>3 DEF UsersInv, GeneratedIsShown
<1> QED BY <1>4, <1>7, <1>8, <1>9 DEF UsersInv

\* The server answers a call, or the page takes the answer.
LEMMA UsersAnswered ==
  ASSUME UsersInv, NEW i \in DOMAIN mutations, NEW a \in {"ok", "lost", "refused", "listing", "done", "rejected", "unheard"},
         mutations' = [mutations EXCEPT ![i].answer = a]
  PROVE  LET m == mutations[i] IN
         /\ Listed(mutations') /\ DOMAIN mutations' = DOMAIN mutations
         /\ mutations'[i] = [op |-> m.op, id |-> m.id, seen |-> m.seen, body |-> m.body, row |-> m.row, live |-> m.live, answer |-> a]
         /\ \A j \in DOMAIN mutations : j # i => mutations'[j] = mutations[j]
         /\ \A j \in DOMAIN mutations' : IsUserCall(mutations'[j])
<1> DEFINE m == mutations[i]
<1>1. Listed(mutations) /\ \A j \in DOMAIN mutations : IsUserCall(mutations[j])
  BY DEF UsersInv, UsersShape
<1>2. /\ Listed(mutations') /\ DOMAIN mutations' = DOMAIN mutations
      /\ mutations'[i] = [m EXCEPT !.answer = a]
      /\ \A j \in DOMAIN mutations : j # i => mutations'[j] = mutations[j]
  BY <1>1, Answering
<1>3. mutations'[i] = [op |-> m.op, id |-> m.id, seen |-> m.seen, body |-> m.body, row |-> m.row, live |-> m.live, answer |-> a]
  BY <1>1, <1>2, UserCallFields
<1>4. IsUserCall(mutations'[i])
  BY <1>1, <1>3 DEF IsUserCall
<1> QED BY <1>1, <1>2, <1>3, <1>4

\* What the server makes of a call is accounts again.
LEMMA AccountsApplied ==
  ASSUME UsersInv, NEW i \in DOMAIN mutations, NEW a, ServeUser(i),
         \/ a = "refused" /\ accounts' = accounts
         \/ /\ a \in {"ok", "lost"} /\ accounts' = Applied(mutations[i]) /\ mutations[i].op # "update"
            /\ IF mutations[i].op = "create" THEN Made \notin DOMAIN accounts ELSE mutations[i].id \in DOMAIN accounts
  PROVE  /\ accounts' = [u \in DOMAIN accounts' |-> accounts'[u]]
         /\ \A u \in DOMAIN accounts' : IsAccount(accounts'[u])
         /\ \/ DOMAIN accounts' = DOMAIN accounts
            \/ /\ a \in {"ok", "lost"} /\ mutations[i].op \in {"create", "delete"}
               /\ \A u : u # mutations[i].id => (u \in DOMAIN accounts' <=> u \in DOMAIN accounts)
<1> DEFINE m == mutations[i]
<1>0. accounts = [u \in DOMAIN accounts |-> accounts[u]] /\ \A u \in DOMAIN accounts : IsAccount(accounts[u])
  BY DEF UsersInv, UsersShape
<1>1. CASE accounts' = accounts
  BY <1>0, <1>1
<1> SUFFICES ASSUME a \in {"ok", "lost"}, accounts' = Applied(m), m.op # "update",
                    IF m.op = "create" THEN Made \notin DOMAIN accounts ELSE m.id \in DOMAIN accounts
             PROVE  /\ accounts' = [u \in DOMAIN accounts' |-> accounts'[u]]
                    /\ \A u \in DOMAIN accounts' : IsAccount(accounts'[u])
                    /\ \/ DOMAIN accounts' = DOMAIN accounts
                       \/ /\ m.op \in {"create", "delete"}
                          /\ \A u : u # m.id => (u \in DOMAIN accounts' <=> u \in DOMAIN accounts)
  BY <1>1
<1>2. CASE m.op = "create"
  <2> DEFINE new == [name |-> m.body.name, role |-> m.body.role, disabled |-> FALSE,
                      password |-> IF m.body.password = Unset THEN "generated" ELSE "typed"]
  <2>1. accounts' = [u \in DOMAIN accounts \cup {Made} |-> IF u = Made THEN new ELSE accounts[u]]
    BY <1>2, Zenon DEF Applied
  <2>2. IsAccount(new)
    BY DEF IsAccount
  <2>3. m.id = Made
    BY <1>2 DEF UsersInv, UsersShape, IsUserCall
  <2> HIDE DEF new
  <2> QED BY <1>0, <1>2, <2>1, <2>2, <2>3
<1>4. CASE m.op = "delete"
  <2>1. accounts' = [u \in DOMAIN accounts \ {m.id} |-> accounts[u]]
    BY <1>4 DEF Applied
  <2> QED BY <1>0, <1>4, <2>1
<1>5. CASE m.op = "revoke"
  <2>1. accounts' = accounts
    BY <1>5 DEF Applied
  <2> QED BY <1>0, <2>1
<1> QED BY <1>2, <1>4, <1>5 DEF UsersInv, UsersShape, IsUserCall

\* Every step of the users page keeps its invariant.
LEMMA UsersStep == UsersInv /\ [UsersNext]_userVars => UsersInv'
<1> SUFFICES ASSUME UsersInv, [UsersNext]_userVars PROVE UsersInv'
  OBVIOUS
<1>s. /\ IsEntry(users) /\ Listed(mutations) /\ IsCreating(creating) /\ IsEditing(editing)
      /\ \A i \in DOMAIN mutations : IsUserCall(mutations[i])
      /\ generated # {} => ~creating.open
      /\ IsAsking(asking)
  BY DEF UsersInv, UsersShape, OneCreate
<1>c. \A x : /\ IsCreating([creating EXCEPT !.open = x]) /\ [creating EXCEPT !.open = x].open = x
             /\ IsCreating([creating EXCEPT !.error = x]) /\ [creating EXCEPT !.error = x].open = creating.open
             /\ IsCreating([creating EXCEPT !.form = x]) /\ [creating EXCEPT !.form = x].open = creating.open
  <2> TAKE x
  <2>1. /\ [creating EXCEPT !.open = x] = [open |-> x, error |-> creating.error, form |-> creating.form]
        /\ [creating EXCEPT !.error = x] = [open |-> creating.open, error |-> x, form |-> creating.form]
        /\ [creating EXCEPT !.form = x] = [open |-> creating.open, error |-> creating.error, form |-> x]
    BY <1>s, CreatingFields
  <2> QED BY <2>1 DEF IsCreating
<1>1. CASE UNCHANGED userVars
  <2>1. UNCHANGED <<accounts, users, mutations, creating, editing, asking, generated, acknowledged, overtakenUsers>>
    BY <1>1 DEF userVars
  <2> QED BY <1>s, <2>1, UsersDialogs
<1>2. CASE OpenCreate
  <2>1. /\ UNCHANGED <<accounts, asking, users, mutations, editing, generated, acknowledged, overtakenUsers>> /\ generated = {}
        /\ creating' = [creating EXCEPT !.open = TRUE]
    BY <1>2 DEF OpenCreate, NothingOpen
  <2>2. IsCreating(creating')
    BY <1>c, <2>1, Zenon
  <2> QED BY <1>s, <2>1, <2>2, UsersDialogs
<1>3. CASE OpenEdit
  <2>0. UNCHANGED <<accounts, asking, users, mutations, creating, generated, acknowledged, overtakenUsers>>
    BY <1>3 DEF OpenEdit
  <2>1. IsEditing(editing')
    <3>1. PICK u \in ListedUsers : editing' = [id |-> u, seen |-> users.data.rows[u], disabled |-> users.data.rows[u].disabled,
                form |-> [name |-> users.data.rows[u].name, role |-> users.data.rows[u].role, password |-> ""]]
      BY <1>3 DEF OpenEdit
    <3>2. users.data # NoData /\ u \in DOMAIN users.data.rows
      BY DEF ListedUsers
    <3>3. users.data.rows[u].disabled \in BOOLEAN
      BY <3>2 DEF UsersInv, UsersShape, IsUserList
    <3> QED BY <3>1, <3>3 DEF IsEditing
  <2> QED BY <1>s, <2>0, <2>1, UsersDialogs
<1>4. CASE TypeNewUser
  <2>1. UNCHANGED <<accounts, asking, users, mutations, editing, generated, acknowledged, overtakenUsers>> /\ \E f : creating' = [creating EXCEPT !.form = f]
    BY <1>4 DEF TypeNewUser
  <2>2. IsCreating(creating') /\ creating'.open = creating.open
    BY <1>c, <2>1
  <2> QED BY <1>s, <2>1, <2>2, UsersDialogs
<1>5. CASE TypeUser
  <2>0. UNCHANGED <<accounts, asking, users, mutations, creating, generated, acknowledged, overtakenUsers>>
    BY <1>5 DEF TypeUser
  <2>1. IsEditing(editing')
    <3>1. PICK f, d : editing' = [editing EXCEPT !.form = f, !.disabled = d]
      BY <1>5 DEF TypeUser
    <3>2. editing # NoEditing
      BY <1>5 DEF TypeUser
    <3>3. editing = [id |-> editing.id, seen |-> editing.seen, form |-> editing.form, disabled |-> editing.disabled]
      BY <1>s, <3>2 DEF IsEditing
    <3>4. editing' = [id |-> editing.id, seen |-> editing.seen, form |-> f, disabled |-> d]
      BY <3>1, <3>3
    <3> QED BY <1>s, <3>2, <3>4 DEF IsEditing
  <2> QED BY <1>s, <2>0, <2>1, UsersDialogs
<1>6. CASE CreateUser
  <2>0. UNCHANGED <<accounts, asking, users, editing, generated, acknowledged, overtakenUsers>>
    BY <1>6 DEF CreateUser
  <2>1. IsCreating(creating') /\ creating'.open = creating.open
    BY <1>6, <1>c, Zenon DEF CreateUser
  <2>2. CASE UNCHANGED mutations
    BY <1>s, <2>0, <2>1, <2>2, UsersDialogs
  <2>3. CASE mutations' # mutations
    <3>1. PICK body : Mutate("create", Made, NoData, body)
      BY <1>6, <2>3 DEF CreateUser
    <3>2. creating.open /\ ~InFlight({"create"})
      BY <1>6 DEF CreateUser
    <3> QED BY <2>0, <2>1, <3>1, <3>2, UsersMutated
  <2> QED BY <2>2, <2>3
<1>7. CASE UpdateUser
  <2> DEFINE body == [name |-> IF editing.form.name = "" THEN Unset ELSE editing.form.name,
               role |-> Changed(editing.form.role, editing.seen.role),
               disabled |-> Changed(IF editing.disabled THEN "yes" ELSE "no",
                                    IF editing.seen.disabled THEN "yes" ELSE "no"),
               password |-> IF editing.form.password = "" THEN Unset ELSE "typed"]
  <2>0. UNCHANGED <<accounts, asking, users, creating, editing, generated, acknowledged, overtakenUsers>> /\ editing # NoEditing
    BY <1>7 DEF UpdateUser
  <2>1. Mutate("update", editing.id, editing.seen, body)
    BY <1>7 DEF UpdateUser
  <2>2. editing.seen.disabled \in BOOLEAN
    BY <1>s, <2>0 DEF IsEditing
  <2>3. body.role = Unset \/ body.role # editing.seen.role
    BY DEF Changed
  <2>4. body.disabled = Unset \/ (body.disabled = "yes" <=> ~editing.seen.disabled)
    BY <2>2 DEF Changed
  <2> HIDE DEF body
  <2> QED BY <1>s, <2>0, <2>1, <2>2, <2>3, <2>4, UsersMutated
<1>8. CASE CancelCreate
  <2>1. UNCHANGED <<accounts, asking, users, editing, generated, acknowledged, overtakenUsers>> /\ creating' = [creating EXCEPT !.open = FALSE]
    BY <1>8 DEF CancelCreate
  <2>2. mutations' = mutations
    <3>1. mutations' = [i \in DOMAIN mutations |-> mutations[i]]
      BY <1>8 DEF CancelCreate, KeepsCalls
    <3> QED BY <1>s, <3>1 DEF Listed
  <2>3. IsCreating(creating') /\ (creating'.open <=> FALSE)
    BY <1>c, <2>1, Zenon
  <2> QED BY <1>s, <2>1, <2>2, <2>3, UsersDialogs
<1>9. CASE CancelEdit
  <2>0. UNCHANGED <<accounts, asking, users, creating, generated, acknowledged, overtakenUsers>> /\ editing' = NoEditing
    BY <1>9 DEF CancelEdit
  <2>1. mutations' = [i \in DOMAIN mutations |-> [mutations[i] EXCEPT !.live = @ /\ mutations[i].op # "update"]]
    BY <1>9 DEF CancelEdit
  <2>2. Listed(mutations') /\ DOMAIN mutations' = DOMAIN mutations
    <3>1. mutations' = [i \in DOMAIN mutations |-> mutations'[i]]
      BY <2>1
    <3> QED BY <1>s, <3>1, ListedMap
  <2>3. ASSUME NEW i \in DOMAIN mutations
        PROVE  /\ IsUserCall(mutations'[i]) /\ mutations'[i].op = mutations[i].op /\ mutations'[i].id = mutations[i].id
               /\ mutations'[i].answer = mutations[i].answer /\ mutations'[i].body = mutations[i].body
    <3> DEFINE m == mutations[i]
    <3>1. PICK l \in BOOLEAN : l = (m.live /\ m.op # "update")
      OBVIOUS
    <3>2. mutations'[i] = [m EXCEPT !.live = l]
      BY <2>1, <3>1, Zenon
    <3>3. mutations'[i] = [op |-> m.op, id |-> m.id, seen |-> m.seen, body |-> m.body, row |-> m.row, live |-> l, answer |-> m.answer]
      BY <1>s, <3>2, UserCallFields
    <3>4. m.op = "create" => l
      BY <1>s, <3>1 DEF IsUserCall
    <3> QED BY <1>s, <3>3, <3>4 DEF IsUserCall
  <2>4. UsersShape'
    BY <2>0, <2>2, <2>3 DEF UsersInv, UsersShape, IsEditing
  <2>5. OneCreate'
    BY <2>0, <2>2, <2>3 DEF UsersInv, OneCreate, CreateWaits
  <2>6. UsersFresh' /\ GeneratedIsShown'
    <3>1. \A u : UserMoving(u) => UserMoving(u)'
      BY <2>2, <2>3 DEF UserMoving
    <3>2. UsersFresh'
      BY <2>0, <3>1, UsersKept
    <3> QED BY <2>0, <2>2, <2>3, <3>2 DEF UsersInv, GeneratedIsShown
  <2> QED BY <2>4, <2>5, <2>6 DEF UsersInv
<1>10. CASE AskUser \/ CancelQuestion
  <2>1. UNCHANGED <<accounts, users, mutations, creating, editing, generated, acknowledged, overtakenUsers>>
    BY <1>10 DEF AskUser, CancelQuestion
  <2>2. IsAsking(asking')
    BY <1>10 DEF AskUser, CancelQuestion, IsAsking
  <2> QED BY <1>s, <2>1, <2>2, UsersDialogs
<1>11. CASE ConfirmUser
  <2>1. UNCHANGED <<accounts, asking, users, creating, editing, generated, acknowledged, overtakenUsers>>
    BY <1>11 DEF ConfirmUser
  <2>2. asking.action \in {"delete", "revoke"}
    BY <1>11, <1>s DEF ConfirmUser, IsAsking
  <2>3. PICK body : Mutate(asking.action, asking.id, NoData, body)
    BY <1>11 DEF ConfirmUser
  <2> QED BY <1>s, <2>1, <2>2, <2>3, UsersMutated
<1>15. CASE DismissPassword
  <2>1. /\ UNCHANGED <<accounts, asking, users, mutations, creating, editing, overtakenUsers>> /\ generated' = {}
        /\ acknowledged' = acknowledged \cup generated
    BY <1>15 DEF DismissPassword
  <2> QED BY <1>s, <2>1, UsersDialogs
<1>12. ASSUME NEW i \in DOMAIN mutations, ServeUser(i) PROVE UsersInv'
  <2> DEFINE m == mutations[i]
  <2>0. m.answer = "none" /\ UNCHANGED <<users, creating, editing, asking, generated, acknowledged, overtakenUsers>>
    BY <1>12 DEF ServeUser
  <2>1. PICK a \in {"ok", "lost", "refused"} :
          /\ mutations' = [mutations EXCEPT ![i].answer = a]
          /\ \/ a = "refused" /\ accounts' = accounts
             \/ /\ a \in {"ok", "lost"} /\ accounts' = Applied(m) /\ m.op # "update"
                /\ IF m.op = "create" THEN Made \notin DOMAIN accounts ELSE m.id \in DOMAIN accounts
    BY <1>12 DEF ServeUser
  <2>2. /\ Listed(mutations') /\ DOMAIN mutations' = DOMAIN mutations
        /\ mutations'[i] = [op |-> m.op, id |-> m.id, seen |-> m.seen, body |-> m.body, row |-> m.row, live |-> m.live, answer |-> a]
        /\ \A j \in DOMAIN mutations : j # i => mutations'[j] = mutations[j]
        /\ \A j \in DOMAIN mutations' : IsUserCall(mutations'[j])
    BY <2>1, UsersAnswered
  <2>3. /\ accounts' = [u \in DOMAIN accounts' |-> accounts'[u]]
        /\ \A u \in DOMAIN accounts' : IsAccount(accounts'[u])
        /\ \/ DOMAIN accounts' = DOMAIN accounts
           \/ /\ a \in {"ok", "lost"} /\ m.op \in {"create", "delete"}
              /\ \A u : u # m.id => (u \in DOMAIN accounts' <=> u \in DOMAIN accounts)
    BY <1>12, <2>1, AccountsApplied
  <2>4. UsersShape'
    BY <2>0, <2>2, <2>3 DEF UsersInv, UsersShape
  <2>5. OneCreate'
    <3>1. \A j \in DOMAIN mutations : CreateWaits(j)' => CreateWaits(j)
      BY <2>0, <2>2 DEF CreateWaits
    <3> QED BY <2>0, <2>2, <3>1 DEF UsersInv, OneCreate
  <2>6. UsersFresh'
    <3>1. \A u : UserMoving(u) => UserMoving(u)'
      BY <2>0, <2>2 DEF UserMoving
    <3>2. CASE DOMAIN accounts' = DOMAIN accounts
      BY <2>0, <3>1, <3>2, UsersKept
    <3>3. CASE /\ a \in {"ok", "lost"} /\ m.op \in {"create", "delete"}
               /\ \A u : u # m.id => (u \in DOMAIN accounts' <=> u \in DOMAIN accounts)
      <4>1. \A u : u = m.id => UserMoving(u)'
        BY <2>2, <3>3 DEF UserMoving
      <4>2. ASSUME NEW rows, UsersAgree(rows) PROVE UsersAgree(rows)'
        <5>1. SUFFICES ASSUME NEW u \in (DOMAIN rows \ DOMAIN accounts') \cup (DOMAIN accounts' \ DOMAIN rows) PROVE UserMoving(u)'
          BY Zenon DEF UsersAgree
        <5>2. u = m.id \/ UserMoving(u)
          BY <3>3, <4>2, <5>1 DEF UsersAgree
        <5> QED BY <3>1, <4>1, <5>2, Zenon
      <4> QED BY <2>0, <4>2 DEF UsersInv, UsersFresh
    <3> QED BY <2>3, <3>2, <3>3
  <2>7. GeneratedIsShown'
    BY <2>0, <2>1, <2>2 DEF UsersInv, GeneratedIsShown
  <2> QED BY <2>4, <2>5, <2>6, <2>7 DEF UsersInv
<1>r. ASSUME NEW i \in DOMAIN mutations, ReadUser(i) PROVE UsersInv'
  <2> DEFINE m == mutations[i]
             row == accounts[m.id]
  <2>0. /\ m.answer = "none" /\ m.op = "update" /\ m.id \in DOMAIN accounts /\ IsUserCall(m)
        /\ UNCHANGED <<accounts, users, creating, editing, asking, generated, acknowledged, overtakenUsers>>
    BY <1>r, <1>s DEF ReadUser
  <2>1. mutations' = [mutations EXCEPT ![i] = [m EXCEPT !.answer = "read", !.row = row]]
    BY <1>r DEF ReadUser
  <2>2. [m EXCEPT !.answer = "read", !.row = row] =
            [op |-> m.op, id |-> m.id, seen |-> m.seen, body |-> m.body, row |-> row, live |-> m.live, answer |-> "read"]
    <3> HIDE DEF m, row
    <3>1. IsUserCall(m)
      BY <2>0
    <3> HIDE DEF m, row
    <3> QED BY <3>1, UserRowRead, Zenon
  <2>3. /\ DOMAIN mutations' = DOMAIN mutations
        /\ mutations'[i] = [op |-> m.op, id |-> m.id, seen |-> m.seen, body |-> m.body, row |-> row, live |-> m.live, answer |-> "read"]
        /\ \A j \in DOMAIN mutations : j # i => mutations'[j] = mutations[j]
        /\ mutations' = [j \in DOMAIN mutations |-> mutations'[j]]
    BY <2>1, <2>2
  <2>4. row.disabled \in BOOLEAN
    BY <2>0 DEF UsersInv, UsersShape, IsAccount
  <2> HIDE DEF row
  <2>5. IsUserCall(mutations'[i])
    BY <2>0, <2>3, <2>4 DEF IsUserCall
  <2>6. UsersShape'
    <3>1. Listed(mutations')
      BY <1>s, <2>3, ListedMap
    <3> QED BY <2>0, <2>3, <2>5, <3>1 DEF UsersInv, UsersShape
  <2>7. OneCreate'
    <3>1. \A j \in DOMAIN mutations : CreateWaits(j)' => CreateWaits(j)
      BY <2>0, <2>3 DEF CreateWaits
    <3> QED BY <2>0, <2>3, <3>1 DEF UsersInv, OneCreate
  <2>8. UsersFresh'
    <3>1. \A u : UserMoving(u) => UserMoving(u)'
      BY <2>0, <2>3 DEF UserMoving
    <3> QED BY <2>0, <3>1, UsersKept
  <2>9. GeneratedIsShown'
    BY <2>0, <2>3 DEF UsersInv, GeneratedIsShown
  <2> QED BY <2>6, <2>7, <2>8, <2>9 DEF UsersInv
<1>w. ASSUME NEW i \in DOMAIN mutations, WriteUser(i) PROVE UsersInv'
  <2> DEFINE m == mutations[i]
  <2>0. m.answer = "read" /\ IsUserCall(m) /\ UNCHANGED <<users, creating, editing, asking, generated, acknowledged, overtakenUsers>>
    BY <1>w, <1>s DEF WriteUser
  <2>1. PICK a \in {"ok", "lost", "refused"} : mutations' = [mutations EXCEPT ![i].answer = a]
    BY <1>w DEF WriteUser
  <2>2. /\ Listed(mutations') /\ DOMAIN mutations' = DOMAIN mutations
        /\ mutations'[i] = [op |-> m.op, id |-> m.id, seen |-> m.seen, body |-> m.body, row |-> m.row, live |-> m.live, answer |-> a]
        /\ \A j \in DOMAIN mutations : j # i => mutations'[j] = mutations[j]
        /\ \A j \in DOMAIN mutations' : IsUserCall(mutations'[j])
    BY <2>1, UsersAnswered
  <2>3. /\ DOMAIN accounts' = DOMAIN accounts /\ accounts' = [u \in DOMAIN accounts' |-> accounts'[u]]
        /\ \A u \in DOMAIN accounts' : IsAccount(accounts'[u])
    <3>0. accounts = [u \in DOMAIN accounts |-> accounts[u]] /\ \A u \in DOMAIN accounts : IsAccount(accounts[u])
      BY DEF UsersInv, UsersShape
    <3>1. CASE accounts' = accounts
      BY <3>0, <3>1
    <3>2. CASE accounts' # accounts
      <4>1. m.id \in DOMAIN accounts /\ \E p : accounts' = [accounts EXCEPT ![m.id] = Written(m, p)]
        BY <1>w, <3>2, Zenon DEF WriteUser
      <4>2. PICK p : accounts' = [accounts EXCEPT ![m.id] = Written(m, p)]
        BY <4>1
      <4>3. IsAccount(Written(m, p))
        BY <2>0 DEF Written, IsAccount, IsUserCall
      <4>4. /\ DOMAIN accounts' = DOMAIN accounts /\ accounts'[m.id] = Written(m, p)
            /\ accounts' = [u \in DOMAIN accounts' |-> accounts'[u]]
            /\ \A u \in DOMAIN accounts : u # m.id => accounts'[u] = accounts[u]
        BY <4>1, <4>2
      <4> QED BY <3>0, <4>3, <4>4
    <3> QED BY <3>1, <3>2
  <2>4. UsersShape'
    BY <2>0, <2>2, <2>3 DEF UsersInv, UsersShape
  <2>5. OneCreate'
    <3>1. \A j \in DOMAIN mutations : CreateWaits(j)' => CreateWaits(j)
      BY <2>0, <2>2 DEF CreateWaits
    <3> QED BY <2>0, <2>2, <3>1 DEF UsersInv, OneCreate
  <2>6. UsersFresh'
    <3>1. \A u : UserMoving(u) => UserMoving(u)'
      BY <2>0, <2>2 DEF UserMoving
    <3> QED BY <2>0, <2>3, <3>1, UsersKept
  <2>7. GeneratedIsShown'
    BY <2>0, <2>1, <2>2 DEF UsersInv, GeneratedIsShown
  <2> QED BY <2>4, <2>5, <2>6, <2>7 DEF UsersInv
<1>l. ASSUME NEW i \in DOMAIN mutations, UserListed(i) PROVE UsersInv'
  <2> DEFINE m == mutations[i]
  <2>0. m.answer = "ok" /\ UNCHANGED <<accounts, creating, editing, asking, generated, acknowledged>>
    BY <1>l DEF UserListed
  <2>1. /\ Listed(mutations') /\ DOMAIN mutations' = DOMAIN mutations
        /\ mutations'[i] = [op |-> m.op, id |-> m.id, seen |-> m.seen, body |-> m.body, row |-> m.row, live |-> m.live, answer |-> "listing"]
        /\ \A j \in DOMAIN mutations : j # i => mutations'[j] = mutations[j]
        /\ \A j \in DOMAIN mutations' : IsUserCall(mutations'[j])
    BY <1>l, UsersAnswered DEF UserListed
  <2>2. users' = [data |-> users.data, error |-> users.error, fetch |-> IF FirstRead(users) THEN users.fetch ELSE Asked]
    BY <1>l, <1>s, CacheFacts DEF UserListed
  <2>3. IsEntry(users') /\ users'.fetch # NotAsked /\ IsUserList(users'.data) /\ IsUserList(users'.fetch.data)
    BY <2>2 DEF UsersInv, UsersShape, IsEntry, Asked, NotAsked, FirstRead, IsUserList
  <2>4. users'.fetch.step = "answered" => overtakenUsers'
    <3>1. CASE FirstRead(users)
      <4>1. users'.fetch = users.fetch /\ overtakenUsers' = (overtakenUsers \/ Overtaken(users))
        BY <1>l, <2>2, <3>1 DEF UserListed
      <4>2. users.fetch.step = "answered" => users.fetch # Asked
        BY DEF Asked
      <4> QED BY <3>1, <4>1, <4>2, Zenon DEF Overtaken
    <3>2. CASE ~FirstRead(users)
      BY <2>2, <3>2 DEF Asked
    <3> QED BY <3>1, <3>2
  <2>5. UsersShape'
    BY <2>0, <2>1, <2>3 DEF UsersInv, UsersShape
  <2>6. OneCreate'
    <3>1. \A j \in DOMAIN mutations : CreateWaits(j)' => CreateWaits(j)
      BY <2>0, <2>1 DEF CreateWaits
    <3> QED BY <2>0, <2>1, <3>1 DEF UsersInv, OneCreate
  <2>7. UsersFresh'
    BY <2>3, <2>4 DEF UsersFresh
  <2>8. GeneratedIsShown'
    BY <2>0, <2>1 DEF UsersInv, GeneratedIsShown
  <2> QED BY <2>5, <2>6, <2>7, <2>8 DEF UsersInv
<1>13. ASSUME NEW i \in DOMAIN mutations, UserOk(i) PROVE UsersInv'
  <2> DEFINE m == mutations[i]
  <2>1. /\ Listed(mutations') /\ DOMAIN mutations' = DOMAIN mutations
        /\ mutations'[i] = [op |-> m.op, id |-> m.id, seen |-> m.seen, body |-> m.body, row |-> m.row, live |-> m.live, answer |-> "done"]
        /\ \A j \in DOMAIN mutations : j # i => mutations'[j] = mutations[j]
        /\ \A j \in DOMAIN mutations' : IsUserCall(mutations'[j])
    BY <1>13, UsersAnswered DEF UserOk
  <2>2. /\ m.answer \in {"ok", "listing"} /\ UNCHANGED <<accounts, users, acknowledged, overtakenUsers>> /\ IsUserCall(m)
        /\ m.answer = "ok" => m.op = "revoke"
    BY <1>13, <1>s DEF UserOk
  <2>4. /\ IsCreating(creating') /\ (m.op = "create" => ~creating'.open)
        /\ m.op # "create" => creating' = creating
    <3>1. CASE m.op = "create"
      <4>1. creating' = [creating EXCEPT !.open = FALSE]
        BY <1>13, <2>2, <3>1 DEF UserOk, IsUserCall
      <4>2. IsCreating(creating') /\ (creating'.open <=> FALSE)
        BY <1>c, <4>1, Zenon
      <4> QED BY <3>1, <4>2
    <3>2. CASE m.op # "create"
      BY <1>13, <1>s, <3>2 DEF UserOk
    <3> QED BY <3>1, <3>2
  <2>5. IsEditing(editing') /\ IsAsking(asking')
    BY <1>13, <1>s DEF UserOk, IsEditing, IsAsking
  <2>6. UsersShape'
    BY <2>1, <2>2, <2>4, <2>5 DEF UsersInv, UsersShape
  <2>7. \A j \in DOMAIN mutations : CreateWaits(j)' => CreateWaits(j) /\ j # i
    BY <2>1 DEF CreateWaits
  <2>8. m.op = "create" => generated = {} /\ \A j \in DOMAIN mutations : j # i => ~CreateWaits(j)
    BY <2>2 DEF UsersInv, OneCreate, CreateWaits
  <2>9. m.op # "create" => generated' = generated
    BY <1>13 DEF UserOk
  <2>10. OneCreate'
    <3>1. CASE m.op = "create"
      BY <2>1, <2>4, <2>7, <2>8, <3>1 DEF OneCreate
    <3>2. CASE m.op # "create"
      BY <2>1, <2>4, <2>7, <2>9, <3>2 DEF UsersInv, OneCreate
    <3> QED BY <3>1, <3>2
  <2>11. UsersFresh'
    <3>1. \A u : UserMoving(u) => UserMoving(u)'
      BY <2>1, <2>2 DEF UserMoving
    <3> QED BY <2>2, <3>1, UsersKept
  <2>12. GeneratedIsShown'
    <3>1. generated \subseteq generated'
      BY <2>8, <2>9
    <3>2. m.op = "create" /\ m.body.password = Unset => i \in generated'
      BY <1>13, <2>2 DEF UserOk, IsUserCall
    <3> QED BY <2>1, <2>2, <3>1, <3>2 DEF UsersInv, GeneratedIsShown
  <2> QED BY <2>6, <2>10, <2>11, <2>12 DEF UsersInv
<1>14. ASSUME NEW i \in DOMAIN mutations, UserRefused(i) PROVE UsersInv'
  <2> DEFINE m == mutations[i]
  <2>0. PICK a \in {"rejected", "unheard"} : a = (IF m.answer = "lost" THEN "unheard" ELSE "rejected")
    OBVIOUS
  <2>1. /\ Listed(mutations') /\ DOMAIN mutations' = DOMAIN mutations
        /\ mutations'[i] = [op |-> m.op, id |-> m.id, seen |-> m.seen, body |-> m.body, row |-> m.row, live |-> m.live, answer |-> a]
        /\ \A j \in DOMAIN mutations : j # i => mutations'[j] = mutations[j]
        /\ \A j \in DOMAIN mutations' : IsUserCall(mutations'[j])
    <3>1. mutations' = [mutations EXCEPT ![i].answer = a]
      BY <1>14, <2>0, Zenon DEF UserRefused
    <3> QED BY <3>1, UsersAnswered
  <2>2. m.answer \in {"refused", "lost"} /\ UNCHANGED <<accounts, users, editing, generated, acknowledged, overtakenUsers>>
    BY <1>14 DEF UserRefused
  <2>3. IsCreating(creating') /\ creating'.open = creating.open /\ IsAsking(asking')
    <3>1. IsCreating(creating') /\ creating'.open = creating.open
      BY <1>14, <1>c, <1>s, Zenon DEF UserRefused
    <3> QED BY <1>14, <1>s, <3>1 DEF UserRefused, IsAsking
  <2>4. UsersShape'
    BY <2>1, <2>2, <2>3 DEF UsersInv, UsersShape
  <2>5. OneCreate'
    <3>1. \A j \in DOMAIN mutations : CreateWaits(j)' => CreateWaits(j)
      BY <2>1 DEF CreateWaits
    <3> QED BY <2>1, <2>2, <2>3, <3>1 DEF UsersInv, OneCreate
  <2>6. UsersFresh'
    <3>1. \A u : UserMoving(u) => UserMoving(u)'
      BY <2>0, <2>1, <2>2 DEF UserMoving
    <3> QED BY <2>2, <3>1, UsersKept
  <2>7. GeneratedIsShown'
    BY <2>1, <2>2 DEF UsersInv, GeneratedIsShown
  <2> QED BY <2>4, <2>5, <2>6, <2>7 DEF UsersInv
<1>16. CASE ServeUsers
  <2>1. users' = [data |-> users.data, error |-> users.error, fetch |-> [step |-> "answered", data |-> UserRows]]
    BY <1>16, <1>s, CacheFacts DEF ServeUsers
  <2>2. IsEntry(users') /\ users'.fetch # NotAsked /\ users'.fetch.data = UserRows /\ users'.data = users.data
    BY <2>1 DEF IsEntry, NotAsked
  <2>3. UserRows # NoData /\ DOMAIN UserRows.rows = DOMAIN accounts
    BY DEF UserRows, NoData
  <2>4. IsUserList(UserRows)
    BY DEF UserRows, IsUserList, UsersInv, UsersShape, IsAccount
  <2>5. UNCHANGED <<accounts, creating, editing, asking, generated, mutations, acknowledged, overtakenUsers>>
    BY <1>16 DEF ServeUsers
  <2>6. UsersShape'
    BY <2>2, <2>4, <2>5 DEF UsersInv, UsersShape
  <2>7. OneCreate' /\ GeneratedIsShown'
    BY <2>5 DEF UsersInv, OneCreate, CreateWaits, GeneratedIsShown
  <2>8. UsersFresh'
    BY <2>2, <2>3, <2>5 DEF UsersFresh, UsersAgree
  <2> QED BY <2>6, <2>7, <2>8 DEF UsersInv
<1>17. CASE UsersArrive
  <2>1. users.fetch.step = "answered" /\ users' = Arrive(users)
    BY <1>17 DEF UsersArrive
  <2>2. /\ IsEntry(users') /\ users'.fetch = NotAsked
        /\ users.fetch.data # NoData => users'.data = users.fetch.data
        /\ users.fetch.data = NoData => users'.data = users.data
    BY <1>s, <2>1, Arrival
  <2>3. users'.fetch.step # "answered" /\ users'.fetch.data = NoData
    BY <2>2 DEF NotAsked
  <2>4. UNCHANGED <<accounts, creating, editing, asking, generated, mutations, acknowledged, overtakenUsers>>
    BY <1>17 DEF UsersArrive
  <2>5. UsersShape'
    BY <2>2, <2>3, <2>4 DEF UsersInv, UsersShape, IsUserList
  <2>6. OneCreate' /\ GeneratedIsShown'
    BY <2>4 DEF UsersInv, OneCreate, CreateWaits, GeneratedIsShown
  <2>7. UsersFresh'
    BY <2>1, <2>2, <2>3, <2>4 DEF UsersInv, UsersFresh, UsersAgree, UserMoving
  <2> QED BY <2>5, <2>6, <2>7 DEF UsersInv
<1>18. CASE AnotherAdmin
  <2>1. UNCHANGED <<users, creating, editing, asking, generated, mutations, acknowledged, overtakenUsers>>
    BY <1>18 DEF AnotherAdmin
  <2>2. /\ DOMAIN accounts' = DOMAIN accounts /\ accounts' = [u \in DOMAIN accounts' |-> accounts'[u]]
        /\ \A u \in DOMAIN accounts' : IsAccount(accounts'[u])
    <3>0. IsAccount(accounts[Other]) /\ Other \in DOMAIN accounts /\ \A u \in DOMAIN accounts : IsAccount(accounts[u])
      BY <1>18 DEF AnotherAdmin, UsersInv, UsersShape
    <3>1. CASE \E r : accounts' = [accounts EXCEPT ![Other].role = r]
      <4>1. PICK r : accounts' = [accounts EXCEPT ![Other].role = r]
        BY <3>1
      <4>2. /\ DOMAIN accounts' = DOMAIN accounts /\ accounts' = [u \in DOMAIN accounts' |-> accounts'[u]]
            /\ accounts'[Other] = [accounts[Other] EXCEPT !.role = r]
            /\ \A u \in DOMAIN accounts : u # Other => accounts'[u] = accounts[u]
        BY <3>0, <4>1
      <4>3. IsAccount(accounts'[Other])
        BY <3>0, <4>2 DEF IsAccount
      <4> QED BY <3>0, <4>2, <4>3
    <3>2. CASE accounts' = [accounts EXCEPT ![Other].disabled = ~@]
      <4>1. PICK b \in BOOLEAN : b = ~accounts[Other].disabled
        OBVIOUS
      <4>2. accounts' = [accounts EXCEPT ![Other].disabled = b]
        BY <3>2, <4>1, Zenon
      <4>3. /\ DOMAIN accounts' = DOMAIN accounts /\ accounts' = [u \in DOMAIN accounts' |-> accounts'[u]]
            /\ accounts'[Other] = [accounts[Other] EXCEPT !.disabled = b]
            /\ \A u \in DOMAIN accounts : u # Other => accounts'[u] = accounts[u]
        BY <3>0, <4>2
      <4>4. IsAccount(accounts'[Other])
        BY <3>0, <4>3 DEF IsAccount
      <4> QED BY <3>0, <4>3, <4>4
    <3> QED BY <1>18, <3>1, <3>2 DEF AnotherAdmin
  <2>3. UsersShape'
    BY <2>1, <2>2 DEF UsersInv, UsersShape
  <2>4. OneCreate' /\ GeneratedIsShown'
    BY <2>1 DEF UsersInv, OneCreate, CreateWaits, GeneratedIsShown
  <2>5. UsersFresh'
    <3>1. \A u : UserMoving(u) => UserMoving(u)'
      BY <2>1 DEF UserMoving
    <3> QED BY <2>1, <2>2, <3>1, UsersKept
  <2> QED BY <2>3, <2>4, <2>5 DEF UsersInv
<1> QED BY <1>1, <1>2, <1>3, <1>4, <1>5, <1>6, <1>7, <1>8, <1>9, <1>10, <1>11, <1>12, <1>r, <1>w, <1>l, <1>13, <1>14, <1>15, <1>16, <1>17, <1>18
        DEF UsersNext

\* The invariant gives the two properties of the users page.
LEMMA UsersTruth == UsersInv => OwnChangesListed /\ GeneratedIsShown
BY DEF UsersInv, UsersFresh, UsersAgree, UserMoving, OwnChangesListed

\* Only the server writes an account.
LEMMA UserTaken ==
  ASSUME UsersInv, UsersNext, NEW i \in DOMAIN mutations, Took(i)
  PROVE  WriteUser(i) /\ \E a \in {"ok", "lost"} : mutations'[i].answer = a
<1>s. Listed(mutations) /\ \A j \in DOMAIN mutations : IsUserCall(mutations[j])
  BY DEF UsersInv, UsersShape
<1>t. mutations[i].answer = "read" /\ mutations'[i].answer \in {"ok", "lost"}
  BY DEF Took
<1>1. mutations' # mutations
  BY <1>t
<1>2. ASSUME NEW op, NEW id, NEW seen, NEW body, Mutate(op, id, seen, body) PROVE FALSE
  <2>1. PICK m : mutations' = Append(mutations, m)
    BY <1>2 DEF Mutate
  <2>2. mutations'[i] = mutations[i]
    BY <1>s, <2>1, ListedAppend
  <2> QED BY <1>t, <2>2
<1>3. ASSUME CancelCreate \/ CancelEdit PROVE FALSE
  <2>1. CASE CancelCreate
    BY <1>t, <2>1 DEF CancelCreate, KeepsCalls
  <2>2. CASE CancelEdit
    <3>1. PICK l : mutations'[i] = [mutations[i] EXCEPT !.live = l]
      BY <2>2 DEF CancelEdit
    <3>2. mutations'[i].answer = mutations[i].answer
      BY <1>s, <3>1, UserCallFields
    <3> QED BY <1>t, <3>2
  <2> QED BY <1>3, <2>1, <2>2
<1>4. ASSUME NEW j \in DOMAIN mutations, NEW a, mutations' = [mutations EXCEPT ![j].answer = a] PROVE i = j /\ a \in {"ok", "lost"}
  <2>1. i = j
    <3> SUFFICES ASSUME i # j PROVE FALSE
      OBVIOUS
    <3>1. mutations'[i] = mutations[i]
      BY <1>4
    <3> QED BY <1>t, <3>1
  <2>2. mutations'[i] = [mutations[i] EXCEPT !.answer = a]
    BY <1>4, <2>1
  <2>3. mutations'[i].answer = a
    BY <1>s, <2>2, UserCallFields
  <2> QED BY <1>t, <2>1, <2>3
<1>5. ASSUME NEW j \in DOMAIN mutations, ServeUser(j) \/ UserListed(j) \/ UserOk(j) \/ UserRefused(j) PROVE FALSE
  <2>1. ~UserListed(j) /\ ~UserOk(j)
    <3>1. UserListed(j) => mutations' = [mutations EXCEPT ![j].answer = "listing"]
      BY DEF UserListed
    <3>2. UserOk(j) => mutations' = [mutations EXCEPT ![j].answer = "done"]
      BY DEF UserOk
    <3> QED BY <1>4, <3>1, <3>2
  <2>2. ASSUME UserRefused(j) PROVE FALSE
    <3>1. PICK a \in {"rejected", "unheard"} : mutations' = [mutations EXCEPT ![j].answer = a]
      BY <2>2 DEF UserRefused
    <3> QED BY <1>4, <3>1
  <2>3. ASSUME ServeUser(j) PROVE FALSE
    <3>1. mutations[j].answer = "none" /\ \E a : mutations' = [mutations EXCEPT ![j].answer = a]
      BY <2>3 DEF ServeUser
    <3> QED BY <1>4, <1>t, <3>1
  <2> QED BY <1>5, <2>1, <2>2, <2>3
<1>r. ASSUME NEW j \in DOMAIN mutations, ReadUser(j) PROVE FALSE
  <2>1. mutations[j].answer = "none" /\ mutations' = [mutations EXCEPT ![j] = [mutations[j] EXCEPT !.answer = "read", !.row = accounts[mutations[j].id]]]
    BY <1>r DEF ReadUser
  <2>2. i # j => mutations'[i] = mutations[i]
    BY <2>1
  <2> QED BY <1>t, <2>1, <2>2
<1>6. ASSUME NEW j \in DOMAIN mutations, WriteUser(j) PROVE i = j
  BY <1>4, <1>6 DEF WriteUser
<1>7. ~CreateUser
  BY <1>1, <1>2 DEF CreateUser
<1>8. ~UpdateUser /\ ~ConfirmUser
  BY <1>2 DEF UpdateUser, ConfirmUser
<1>9. ~(OpenCreate \/ OpenEdit \/ TypeNewUser \/ TypeUser \/ AskUser \/ CancelQuestion \/ DismissPassword
         \/ ServeUsers \/ UsersArrive \/ AnotherAdmin)
  BY <1>1 DEF OpenCreate, OpenEdit, TypeNewUser, TypeUser, AskUser, CancelQuestion, DismissPassword,
         ServeUsers, UsersArrive, AnotherAdmin
<1> QED BY <1>t, <1>3, <1>5, <1>r, <1>6, <1>7, <1>8, <1>9 DEF UsersNext

\* What NoStaleRevert says of a step.
NoStaleStep ==
    \A i \in DOMAIN mutations :
        Took(i) =>
            LET u == mutations[i].id
                m == mutations[i] IN
            /\ accounts'[u].role # m.row.role => accounts'[u].role # m.seen.role
            /\ accounts'[u].disabled # m.row.disabled => accounts'[u].disabled # m.seen.disabled

\* An update changes a role or a switch of the account the server read only away
\* from what its form had shown: a field nobody touched is not sent.
LEMMA UsersNoRevert ==
  ASSUME UsersInv, [UsersNext]_userVars
  PROVE  NoStaleStep
<1> SUFFICES ASSUME NEW i \in DOMAIN mutations, Took(i)
             PROVE  LET u == mutations[i].id
                        m == mutations[i] IN
                    /\ accounts'[u].role # m.row.role => accounts'[u].role # m.seen.role
                    /\ accounts'[u].disabled # m.row.disabled => accounts'[u].disabled # m.seen.disabled
  BY DEF NoStaleStep
<1> DEFINE m == mutations[i]
           u == m.id
<1>1. UsersNext
  BY DEF Took, userVars
<1>2. WriteUser(i)
  BY <1>1, UserTaken
<1>3. Listed(mutations) /\ IsUserCall(m) /\ m.answer = "read"
  BY DEF UsersInv, UsersShape, Took
<1>4. mutations' # [mutations EXCEPT ![i].answer = "refused"]
  <2> SUFFICES ASSUME mutations' = [mutations EXCEPT ![i].answer = "refused"] PROVE FALSE
    OBVIOUS
  <2>1. mutations'[i] = [m EXCEPT !.answer = "refused"]
    OBVIOUS
  <2>2. mutations'[i].answer = "refused"
    <3> HIDE DEF m
    <3>1. \A x : [m EXCEPT !.answer = x] =
              [op |-> m.op, id |-> m.id, seen |-> m.seen, body |-> m.body, row |-> m.row, live |-> m.live, answer |-> x]
      BY <1>3, UserCallFields
    <3> QED BY <2>1, <3>1
  <2> QED BY <2>2 DEF Took
<1>5. u \in DOMAIN accounts /\ \E p : accounts' = [accounts EXCEPT ![u] = Written(m, p)]
  BY <1>2, <1>4, Zenon DEF WriteUser
<1>6. PICK p : accounts' = [accounts EXCEPT ![u] = Written(m, p)]
  BY <1>5
<1> DEFINE new == Written(m, p)
<1>7. accounts'[u] = new
  BY <1>5, <1>6, Zenon
<1>8. new.role = (IF m.body.role = Unset THEN m.row.role ELSE m.body.role)
  BY DEF Written
<1>9. m.body.disabled # Unset => (new.disabled <=> m.body.disabled = "yes") /\ new.disabled \in BOOLEAN
  BY DEF Written
<1>10. m.body.disabled = Unset => new.disabled = m.row.disabled
  BY DEF Written
<1> HIDE DEF new
<1>11. accounts'[u].role # m.row.role => accounts'[u].role # m.seen.role
  BY <1>3, <1>7, <1>8 DEF IsUserCall
<1>12. accounts'[u].disabled # m.row.disabled => accounts'[u].disabled # m.seen.disabled
  BY <1>3, <1>7, <1>9, <1>10 DEF IsUserCall
<1> QED BY <1>11, <1>12

-----------------------------------------------------------------------------
(***************************************************************************)
(* The forwarding page: every row anybody acts on is tied to a version.    *)
(***************************************************************************)

\* What the dialog would spell the same way, when nobody stores anything else.
Tidy(c) == PlainStores => PlainConfig(c)
\* The names of sources that are typed are a list.
FormListed(f) == PlainStores => "sources" \in DOMAIN f /\ Listed(f.sources)

\* A row somebody has or had on the screen: the target t as it was at that version.
SeenOf(t, x) ==
    /\ x = [id |-> x.id, version |-> x.version, config |-> x.config, enabled |-> x.enabled, token_stored |-> x.token_stored]
    /\ x.id \in Nat /\ x.version \in Nat \ {0} /\ IsConfig(x.config) /\ x.enabled \in BOOLEAN
    /\ Prepared(x.config) = x.config /\ Tidy(x.config)
    /\ x.id <= t.id
    /\ x.id = t.id => t.version = 0 \/ x.version <= t.version
    /\ x.id = t.id /\ x.version = t.version => x = View(t)

\* A call carries the version it was made on, and changes what it says it changes.
IsRequest(t, r) ==
    /\ r = [op |-> r.op, seen |-> r.seen, form |-> r.form, version |-> r.version, config |-> r.config,
            enabled |-> r.enabled, token |-> r.token, live |-> r.live, answer |-> r.answer]
    /\ r.op \in {"create", "update", "enable", "disable", "delete"}
    /\ r.enabled \in BOOLEAN /\ IsConfig(r.config) /\ Tidy(r.config)
    /\ r.op # "create" => SeenOf(t, r.seen)
    /\ r.op \in {"update", "enable", "disable"} => r.version = r.seen.version
    /\ r.op \in {"enable", "disable"} =>
          r.config = r.seen.config /\ r.token = NoToken /\ (r.enabled <=> r.op = "enable")
    /\ r.op = "update" => r.enabled = r.seen.enabled /\ r.token = TokenSent(r.form)

\* Every row of a list that was read is or was the target.
IsTargetList(t, d) == d # NoData => \A x \in d.rows : SeenOf(t, x)

\* A dialog that edits was opened on a row that was shown.
IsDialog(t, d) ==
    /\ d = [open |-> d.open, seen |-> d.seen, form |-> d.form, errors |-> d.errors, conflict |-> d.conflict]
    /\ d.seen # NoData => SeenOf(t, d.seen)
    /\ FormListed(d.form)

\* A question before a switch or a deletion was asked about a row that was shown.
IsConfirm(t, c) == c # NoConfirm => SeenOf(t, c.seen)

\* The invariant of the forwarding page: whatever is shown, typed into or sent is
\* tied to a version the target has or had.
ForwardInv ==
    /\ IsTarget(target) /\ Tidy(target.config)
    /\ IsEntry(targets) /\ IsTargetList(target, targets.data) /\ IsTargetList(target, targets.fetch.data)
    /\ IsDialog(target, dialog) /\ IsConfirm(target, confirm)
    /\ Listed(requests) /\ \A i \in DOMAIN requests : IsRequest(target, requests[i])

\* The target is unchanged, a new one, or the same one later.
Moves(t, u) ==
    \/ u = t
    \/ u.id = t.id + 1
    \/ u.id = t.id /\ t.version > 0 /\ u.version = t.version + 1
    \/ u.id = t.id /\ u.version = 0

\* A row that was shown stays one that was shown when the target moves on: the
\* version only grows, and a new target has a new identity.
LEMMA SeenStays ==
  ASSUME NEW t, NEW u, IsTarget(t), IsTarget(u), Moves(t, u), NEW x, SeenOf(t, x)
  PROVE  SeenOf(u, x)
<1>1. t.id \in Nat /\ t.version \in Nat /\ u.id \in Nat /\ u.version \in Nat
  BY DEF IsTarget
<1>2. CASE u = t
  BY <1>2
<1>3. CASE u.id = t.id + 1
  BY <1>1, <1>3 DEF SeenOf
<1>4. CASE u.id = t.id /\ t.version > 0 /\ u.version = t.version + 1
  BY <1>1, <1>4 DEF SeenOf
<1>5. CASE u.id = t.id /\ u.version = 0
  BY <1>1, <1>5 DEF SeenOf
<1> QED BY <1>2, <1>3, <1>4, <1>5 DEF Moves

\* A row that is shown is the target of its version, and no missing one.
LEMMA ViewSeen ==
  ASSUME NEW t, IsTarget(t), Tidy(t.config), t.version # 0
  PROVE  SeenOf(t, View(t))
BY DEF IsTarget, SeenOf, View

\* A row is data.
LEMMA SeenIsData ==
  ASSUME NEW t, NEW x, SeenOf(t, x)
  PROVE  x # NoData
BY DEF SeenOf, NoData

\* The other fields of a definition when the server sets its defaults.
LEMMA ConfigFields ==
  ASSUME NEW c, IsConfig(c), NEW x, NEW y
  PROVE  [c EXCEPT !.limit = x, !.stream = y] =
            [name |-> c.name, url |-> c.url, sources |-> c.sources, limit |-> x, stream |-> y]
<1> DEFINE d == [name |-> c.name, url |-> c.url, sources |-> c.sources, limit |-> x, stream |-> c.stream]
<1>1. [c EXCEPT !.limit = x] = d
  BY DEF IsConfig
<1>2. [d EXCEPT !.stream = y] = [name |-> c.name, url |-> c.url, sources |-> c.sources, limit |-> x, stream |-> y]
  OBVIOUS
<1> HIDE DEF d
<1> QED BY <1>1, <1>2, Zenon

\* What the server has prepared once it does not change again, so a switch that
\* sends the stored definition back stores the same one.
LEMMA PreparedTwice ==
  ASSUME NEW c, IsConfig(c)
  PROVE  IsConfig(Prepared(c)) /\ Prepared(Prepared(c)) = Prepared(c)
<1> DEFINE l == IF c.limit = "" THEN DefaultLimit ELSE c.limit
           m == IF c.stream = "" THEN DefaultStream ELSE c.stream
           p == [name |-> c.name, url |-> c.url, sources |-> c.sources, limit |-> l, stream |-> m]
<1>1. Prepared(c) = [c EXCEPT !.limit = l, !.stream = m]
  BY Zenon DEF Prepared, IsConfig
<1>2. Prepared(c) = p
  <2> HIDE DEF l, m
  <2> QED BY <1>1, ConfigFields
<1>3. l # "" /\ m # ""
  BY DEF DefaultLimit, DefaultStream
<1> HIDE DEF l, m
<1>4. p.limit = l /\ p.stream = m /\ IsConfig(p) /\ p.name = c.name /\ p.url = c.url /\ p.sources = c.sources
  BY DEF IsConfig
<1>5. Prepared(p) = [p EXCEPT !.limit = IF p.limit = "" THEN DefaultLimit ELSE p.limit,
                              !.stream = IF p.stream = "" THEN DefaultStream ELSE p.stream]
  BY Zenon DEF Prepared, IsConfig
<1>6. Prepared(p) = [p EXCEPT !.limit = l, !.stream = m]
  <2> HIDE DEF p
  <2> QED BY <1>3, <1>4, <1>5
<1>7. Prepared(p) = p
  <2>1. [p EXCEPT !.limit = l, !.stream = m] =
          [name |-> p.name, url |-> p.url, sources |-> p.sources, limit |-> l, stream |-> m]
    <3>1. IsConfig(p)
      BY <1>4
    <3> HIDE DEF p
    <3> QED BY <3>1, ConfigFields, Zenon
  <2> QED BY <1>4, <1>6, <2>1
<1> QED BY <1>2, <1>4, <1>7

\* The defaults of the server need no other spelling.
LEMMA PreparedTidy ==
  ASSUME NEW c, IsConfig(c), Tidy(c)
  PROVE  Tidy(Prepared(c))
<1> DEFINE l == IF c.limit = "" THEN DefaultLimit ELSE c.limit
           m == IF c.stream = "" THEN DefaultStream ELSE c.stream
<1>1. Prepared(c) = [c EXCEPT !.limit = l, !.stream = m]
  BY Zenon DEF Prepared, IsConfig
<1>2. Trimmed(c.limit) = c.limit /\ c.limit # NotANumber => Trimmed(l) = l /\ l # NotANumber
  BY DEF Trimmed, DefaultLimit, NotANumber
<1> HIDE DEF l, m
<1>3. PICK p : p = Prepared(c)
  OBVIOUS
<1>4. p = [name |-> c.name, url |-> c.url, sources |-> c.sources, limit |-> l, stream |-> m]
  BY <1>1, <1>3, ConfigFields
<1>5. p.name = c.name /\ p.url = c.url /\ p.sources = c.sources /\ p.limit = l
  BY <1>4
<1>6. PlainConfig(c) => PlainConfig(p)
  BY <1>2, <1>5 DEF PlainConfig
<1> QED BY <1>3, <1>6 DEF Tidy

\* Trimming twice is trimming once.
LEMMA TrimmedTwice ==
  ASSUME NEW w
  PROVE  Trimmed(Trimmed(w)) = Trimmed(w)
BY DEF Trimmed

\* The names that are sent: trimmed, none of them empty.
LEMMA SourcesSent ==
  ASSUME NEW text, Listed(text)
  PROVE  LET names == ForwardSourceNames(text) IN
         /\ Listed(names) /\ \A i \in DOMAIN names : Trimmed(names[i]) = names[i] /\ names[i] # ""
         /\ (\A i \in DOMAIN text : Trimmed(text[i]) = text[i] /\ text[i] # "") => names = text
<1>1. PICK s : s = [i \in DOMAIN text |-> Trimmed(text[i])]
  OBVIOUS
<1>2. s = [i \in DOMAIN text |-> s[i]]
  BY <1>1
<1>3. Listed(s) /\ DOMAIN s = DOMAIN text
  BY <1>2, ListedMap
<1>4. PICK names : names = ForwardSourceNames(text)
  OBVIOUS
<1>5. names = Without(s, "")
  BY <1>1, <1>4 DEF ForwardSourceNames
<1>6. /\ Listed(names) /\ \A i \in DOMAIN names : names[i] \in ToSet(s) /\ names[i] # ""
      /\ (\A i \in DOMAIN s : s[i] # "") => names = s
  BY <1>3, <1>5, WithoutIs
<1>7. \A x \in ToSet(s) : Trimmed(x) = x
  <2>1. \A i \in DOMAIN s : Trimmed(s[i]) = s[i]
    BY <1>1, <1>3, TrimmedTwice
  <2> QED BY <2>1 DEF ToSet
<1>8. ASSUME \A i \in DOMAIN text : Trimmed(text[i]) = text[i] /\ text[i] # ""
      PROVE  names = text
  <2>1. \A i \in DOMAIN text : s[i] = text[i]
    BY <1>1, <1>8
  <2>2. s = text
    <3>1. text = [i \in DOMAIN text |-> text[i]]
      BY ListedFacts
    <3> QED BY <1>2, <2>1, <3>1
  <2> QED BY <1>3, <1>6, <1>8, <2>1, <2>2
<1> QED BY <1>4, <1>6, <1>7, <1>8

\* What is sent of a form without errors is spelled as the dialog spells it.
LEMMA FormSent ==
  ASSUME NEW f, FormListed(f), ~HasForwardErrors(FormToForwardInput(f).errors)
  PROVE  Tidy(FormToForwardInput(f).config)
<1> SUFFICES ASSUME PlainStores PROVE PlainConfig(FormToForwardInput(f).config)
  BY DEF Tidy
<1>1. PICK c : c = FormToForwardInput(f).config
  OBVIOUS
<1>2. /\ c.name = Trimmed(f.name) /\ c.url = Trimmed(f.url) /\ c.sources = ForwardSourceNames(f.sources)
      /\ c.limit = IF Trimmed(f.limit) = NotANumber THEN "" ELSE Trimmed(f.limit)
  BY <1>1 DEF FormToForwardInput
<1>3. Trimmed(f.name) # "" /\ ~UrlError(Trimmed(f.url)) /\ Trimmed(f.limit) # NotANumber
  <2>1. PICK e : e = FormToForwardInput(f).errors
    OBVIOUS
  <2>2. e.fields = {x \in {"name", "url", "limit"} :
                                CASE x = "name" -> Trimmed(f.name) = ""
                                  [] x = "url" -> UrlError(Trimmed(f.url))
                                  [] x = "limit" -> Trimmed(f.limit) = NotANumber}
    BY <2>1 DEF FormToForwardInput
  <2>3. e.fields = {}
    BY <2>1 DEF HasForwardErrors
  <2>4. "name" \notin e.fields /\ "url" \notin e.fields /\ "limit" \notin e.fields
    BY <2>3
  <2> QED BY <2>2, <2>4
<1>4. Trimmed(c.name) = c.name /\ Trimmed(c.url) = c.url /\ Trimmed(c.limit) = c.limit
  BY <1>2, <1>3, TrimmedTwice
<1>5. Listed(c.sources) /\ \A i \in DOMAIN c.sources : Trimmed(c.sources[i]) = c.sources[i] /\ c.sources[i] # ""
  BY <1>2, SourcesSent DEF FormListed
<1>6. PlainConfig(c)
  BY <1>2, <1>3, <1>4, <1>5 DEF PlainConfig, Listed
<1> QED BY <1>1, <1>6

\* The form of a new target.
LEMMA FormAtFirst == FormListed(DEFAULT_FORWARD_FORM)
<1>1. "sources" \in DOMAIN DEFAULT_FORWARD_FORM /\ DEFAULT_FORWARD_FORM.sources = <<>>
  BY DEF DEFAULT_FORWARD_FORM
<1>2. Listed(<<>>)
  BY DEF Listed
<1> QED BY <1>1, <1>2 DEF FormListed

\* The form of a target that is opened.
LEMMA FormOpened ==
  ASSUME NEW t, Tidy(t.config)
  PROVE  FormListed(ConfigToForwardForm(t))
<1>1. "sources" \in DOMAIN ConfigToForwardForm(t) /\ ConfigToForwardForm(t).sources = t.config.sources
  BY DEF ConfigToForwardForm, DEFAULT_FORWARD_FORM
<1>2. PlainStores => Listed(t.config.sources)
  BY DEF Tidy, PlainConfig, Listed
<1> QED BY <1>1, <1>2 DEF FormListed

\* Typing into fields.
LEMMA FormTyped ==
  ASSUME NEW f, FormListed(f), NEW i \in FieldInputs
  PROVE  FormListed([x \in DOMAIN f |-> IF x \in DOMAIN i THEN i[x] ELSE f[x]])
<1>1. PICK g : g = [x \in DOMAIN f |-> IF x \in DOMAIN i THEN i[x] ELSE f[x]]
  OBVIOUS
<1>2. "sources" \in DOMAIN i => Listed(i.sources)
  BY FieldInputsAssumption DEF Listed
<1>3. "sources" \in DOMAIN f =>
         "sources" \in DOMAIN g /\ g.sources = IF "sources" \in DOMAIN i THEN i.sources ELSE f.sources
  BY <1>1
<1>4. FormListed(g)
  BY <1>2, <1>3 DEF FormListed
<1> QED BY <1>1, <1>4

\* Ticking a source, or taking the tick away.
LEMMA FormTicked ==
  ASSUME NEW f, FormListed(f), NEW n, NEW s, s = ForwardSourceNames(f.sources)
  PROVE  FormListed([f EXCEPT !.sources = IF Contains(s, n) THEN Without(s, n) ELSE Append(s, n)])
<1>1. PlainStores => Listed(s)
  BY SourcesSent DEF FormListed
<1>2. PICK x : x = IF Contains(s, n) THEN Without(s, n) ELSE Append(s, n)
  OBVIOUS
<1>3. PlainStores => Listed(x)
  BY <1>1, <1>2, WithoutIs, ListedAppend
<1>4. FormListed([f EXCEPT !.sources = x])
  BY <1>3 DEF FormListed
<1> QED BY <1>2, <1>4, Zenon

\* Ticking the box that removes the token.
LEMMA FormCleared ==
  ASSUME NEW f, FormListed(f), NEW on
  PROVE  FormListed([f EXCEPT !.remove_token = on, !.token = IF on THEN "" ELSE @])
<1>1. PICK g : g = [f EXCEPT !.remove_token = on]
  OBVIOUS
<1>2. PICK x : x = IF on THEN "" ELSE g.token
  OBVIOUS
<1>3. [f EXCEPT !.remove_token = on, !.token = IF on THEN "" ELSE @] = [g EXCEPT !.token = x]
  BY <1>1, <1>2, Zenon
<1>4. FormListed(g)
  BY <1>1 DEF FormListed
<1>5. FormListed([g EXCEPT !.token = x])
  BY <1>4 DEF FormListed
<1> QED BY <1>3, <1>5, Zenon

\* The page starts with the target of the server, or with none.
LEMMA ForwardStart == ForwardInit => ForwardInv
<1> SUFFICES ASSUME ForwardInit PROVE ForwardInv
  OBVIOUS
<1>1. requests = <<>> /\ DOMAIN requests = {} /\ Listed(requests)
  BY DEF ForwardInit, Listed, ToSet
<1>2. targets = [data |-> NoData, error |-> FALSE, fetch |-> Asked]
  BY DEF ForwardInit, EmptyEntry
<1>3. IsEntry(targets) /\ targets.data = NoData /\ targets.fetch.data = NoData
  BY <1>2 DEF IsEntry, Asked
<1>4. IsTarget(target) /\ Tidy(target.config)
  BY StartTargetsAssumption DEF ForwardInit, Tidy, PlainStores
<1>5. IsDialog(target, dialog) /\ IsConfirm(target, confirm)
  BY FormAtFirst DEF ForwardInit, IsDialog, NoDialog, IsConfirm
<1> QED BY <1>1, <1>3, <1>4, <1>5 DEF ForwardInv, IsTargetList

\* The page changes and the target does not.
LEMMA ForwardPage ==
  ASSUME ForwardInv, target' = target,
         IsEntry(targets'), IsTargetList(target, targets'.data), IsTargetList(target, targets'.fetch.data),
         IsDialog(target, dialog'), IsConfirm(target, confirm'),
         Listed(requests'), \A i \in DOMAIN requests' : IsRequest(target, requests'[i])
  PROVE  ForwardInv'
BY DEF ForwardInv

\* The target changes and the page does not know yet.
LEMMA ForwardMoved ==
  ASSUME ForwardInv, IsTarget(target'), Tidy(target'.config), Moves(target, target'),
         UNCHANGED <<targets, dialog, confirm>>,
         Listed(requests'), \A i \in DOMAIN requests' : IsRequest(target, requests'[i])
  PROVE  ForwardInv'
<1>1. \A x : SeenOf(target, x) => SeenOf(target', x)
  BY SeenStays DEF ForwardInv
<1>2. \A i \in DOMAIN requests' : IsRequest(target', requests'[i])
  BY <1>1 DEF IsRequest
<1>3. IsTargetList(target', targets.data) /\ IsTargetList(target', targets.fetch.data)
  BY <1>1 DEF ForwardInv, IsTargetList
<1>4. IsDialog(target', dialog) /\ IsConfirm(target', confirm)
  BY <1>1 DEF ForwardInv, IsDialog, IsConfirm
<1> QED BY <1>2, <1>3, <1>4 DEF ForwardInv

\* A call that is answered, or whose callback is dropped, is the same call.
LEMMA RequestFields ==
  ASSUME NEW t, NEW r, IsRequest(t, r), NEW x
  PROVE  /\ IsRequest(t, [r EXCEPT !.answer = x]) /\ [r EXCEPT !.answer = x].answer = x
         /\ IsRequest(t, [r EXCEPT !.live = x]) /\ [r EXCEPT !.live = x].answer = r.answer
<1>1. [r EXCEPT !.answer = x] = [op |-> r.op, seen |-> r.seen, form |-> r.form, version |-> r.version, config |-> r.config,
            enabled |-> r.enabled, token |-> r.token, live |-> r.live, answer |-> x]
  BY DEF IsRequest
<1>2. [r EXCEPT !.live = x] = [op |-> r.op, seen |-> r.seen, form |-> r.form, version |-> r.version, config |-> r.config,
            enabled |-> r.enabled, token |-> r.token, live |-> x, answer |-> r.answer]
  BY DEF IsRequest
<1>3. IsRequest(t, [r EXCEPT !.answer = x]) /\ [r EXCEPT !.answer = x].answer = x
  <2> DEFINE q == [r EXCEPT !.answer = x]
  <2>1. /\ q.op = r.op /\ q.seen = r.seen /\ q.form = r.form /\ q.version = r.version /\ q.config = r.config
        /\ q.enabled = r.enabled /\ q.token = r.token /\ q.answer = x
        /\ q = [op |-> q.op, seen |-> q.seen, form |-> q.form, version |-> q.version, config |-> q.config,
            enabled |-> q.enabled, token |-> q.token, live |-> q.live, answer |-> q.answer]
    BY <1>1
  <2> HIDE DEF q
  <2> QED BY <2>1 DEF IsRequest
<1>4. IsRequest(t, [r EXCEPT !.live = x]) /\ [r EXCEPT !.live = x].answer = r.answer
  <2> DEFINE q == [r EXCEPT !.live = x]
  <2>1. /\ q.op = r.op /\ q.seen = r.seen /\ q.form = r.form /\ q.version = r.version /\ q.config = r.config
        /\ q.enabled = r.enabled /\ q.token = r.token /\ q.answer = r.answer
        /\ q = [op |-> q.op, seen |-> q.seen, form |-> q.form, version |-> q.version, config |-> q.config,
            enabled |-> q.enabled, token |-> q.token, live |-> q.live, answer |-> q.answer]
    BY <1>2
  <2> HIDE DEF q
  <2> QED BY <2>1 DEF IsRequest
<1> QED BY <1>3, <1>4

\* A dialog that is typed into was opened on the same row.
LEMMA DialogFields ==
  ASSUME NEW t, NEW d, IsDialog(t, d), NEW x
  PROVE  /\ FormListed(x) => IsDialog(t, [d EXCEPT !.form = x])
         /\ IsDialog(t, [d EXCEPT !.errors = x])
         /\ IsDialog(t, [d EXCEPT !.conflict = x])
<1>1. /\ [d EXCEPT !.form = x] = [open |-> d.open, seen |-> d.seen, form |-> x, errors |-> d.errors, conflict |-> d.conflict]
      /\ [d EXCEPT !.errors = x] = [open |-> d.open, seen |-> d.seen, form |-> d.form, errors |-> x, conflict |-> d.conflict]
      /\ [d EXCEPT !.conflict = x] = [open |-> d.open, seen |-> d.seen, form |-> d.form, errors |-> d.errors, conflict |-> x]
  BY DEF IsDialog
<1> QED BY <1>1 DEF IsDialog

\* A call is made.
LEMMA Requested ==
  ASSUME ForwardInv, NEW r, IsRequest(target, r), Request(r)
  PROVE  Listed(requests') /\ \A i \in DOMAIN requests' : IsRequest(target, requests'[i])
<1>1. requests' = Append(requests, r) /\ Listed(requests)
  BY DEF Request, ForwardInv
<1>2. /\ Listed(requests') /\ requests'[Len(requests) + 1] = r
      /\ \A i \in DOMAIN requests : requests'[i] = requests[i]
      /\ \A i \in DOMAIN requests' : i \in DOMAIN requests \/ i = Len(requests) + 1
  BY <1>1, ListedAppend
<1> QED BY <1>2 DEF ForwardInv

\* One call is answered and the others are left alone.
LEMMA RequestAnswered ==
  ASSUME ForwardInv, NEW i \in DOMAIN requests, NEW a, requests' = [requests EXCEPT ![i].answer = a]
  PROVE  /\ Listed(requests') /\ \A j \in DOMAIN requests' : IsRequest(target, requests'[j])
         /\ requests'[i].answer = a /\ \A j \in DOMAIN requests : j # i => requests'[j] = requests[j]
<1>1. Listed(requests) /\ \A j \in DOMAIN requests : IsRequest(target, requests[j])
  BY DEF ForwardInv
<1>2. /\ Listed(requests') /\ DOMAIN requests' = DOMAIN requests
      /\ requests'[i] = [requests[i] EXCEPT !.answer = a]
      /\ \A j \in DOMAIN requests : j # i => requests'[j] = requests[j]
  BY <1>1, Answering
<1>3. IsRequest(target, requests'[i]) /\ requests'[i].answer = a
  <2>1. IsRequest(target, [requests[i] EXCEPT !.answer = a]) /\ [requests[i] EXCEPT !.answer = a].answer = a
    <3> DEFINE r == requests[i]
    <3>1. IsRequest(target, r)
      BY <1>1
    <3> HIDE DEF r
    <3>2. IsRequest(target, [r EXCEPT !.answer = a])
      BY <3>1, RequestFields, Zenon
    <3>3. [r EXCEPT !.answer = a].answer = a
      BY <3>1 DEF IsRequest
    <3> QED BY <3>2, <3>3 DEF r
  <2> QED BY <1>2, <2>1, Zenon
<1> QED BY <1>1, <1>2, <1>3

\* What the server stores is a target, and the target moves on.
LEMMA StoreMoves ==
  ASSUME ForwardInv, NEW i \in DOMAIN requests, ServerSays(requests[i]) = "ok"
  PROVE  /\ IsTarget(Store(requests[i])) /\ Moves(target, Store(requests[i]))
         /\ Tidy(Store(requests[i]).config)
<1> DEFINE r == requests[i]
<1>1. IsRequest(target, r) /\ IsTarget(target) /\ Tidy(target.config)
  BY DEF ForwardInv
<1>2. r.op # "create" => target.version > 0
  BY DEF ServerSays, Exists
<1>3. IsConfig(Prepared(r.config)) /\ Prepared(Prepared(r.config)) = Prepared(r.config) /\ Tidy(Prepared(r.config))
  <2>1. IsConfig(r.config) /\ Tidy(r.config)
    BY <1>1 DEF IsRequest
  <2> QED BY <2>1, PreparedTwice, PreparedTidy, Zenon
<1> SUFFICES IsTarget(Store(r)) /\ Moves(target, Store(r)) /\ Tidy(Store(r).config)
  OBVIOUS
<1> HIDE DEF r
<1>4. CASE r.op = "create"
  <2> DEFINE s == IF r.token = NoToken THEN "" ELSE r.token
             c == Prepared(r.config)
  <2>1. Store(r) = [id |-> target.id + 1, version |-> 1, config |-> c, enabled |-> FALSE, secret |-> s]
    BY <1>4, Zenon DEF Store
  <2> HIDE DEF s, c
  <2>2. /\ Store(r).id = target.id + 1 /\ Store(r).version = 1 /\ Store(r).config = c /\ Store(r).enabled \in BOOLEAN
        /\ Store(r) = [id |-> Store(r).id, version |-> Store(r).version, config |-> Store(r).config,
                       enabled |-> Store(r).enabled, secret |-> Store(r).secret]
    BY <2>1
  <2> QED BY <1>1, <1>3, <2>2 DEF IsTarget, Moves, c
<1>5. CASE r.op = "delete"
  <2>1. Store(r) = [target EXCEPT !.version = 0]
    BY <1>5 DEF Store
  <2>2. Store(r) = [id |-> target.id, version |-> 0, config |-> target.config, enabled |-> target.enabled, secret |-> target.secret]
    BY <1>1, <2>1 DEF IsTarget
  <2> QED BY <1>1, <2>2 DEF IsTarget, Moves
<1>6. CASE r.op \notin {"create", "delete"}
  <2> DEFINE s == IF r.token = NoToken THEN target.secret ELSE r.token
             c == Prepared(r.config)
  <2>1. Store(r) = [id |-> target.id, version |-> target.version + 1, config |-> c, enabled |-> r.enabled, secret |-> s]
    BY <1>6, Zenon DEF Store
  <2> HIDE DEF s, c
  <2>2. /\ Store(r).id = target.id /\ Store(r).version = target.version + 1 /\ Store(r).config = c /\ Store(r).enabled = r.enabled
        /\ Store(r) = [id |-> Store(r).id, version |-> Store(r).version, config |-> Store(r).config,
                       enabled |-> Store(r).enabled, secret |-> Store(r).secret]
    BY <2>1
  <2>3. r.enabled \in BOOLEAN
    BY <1>1 DEF IsRequest
  <2> QED BY <1>1, <1>2, <1>3, <1>6, <2>2, <2>3 DEF IsTarget, Moves, c
<1> QED BY <1>4, <1>5, <1>6

\* Every step of the forwarding page keeps its invariant.
LEMMA ForwardStep == ForwardInv /\ [ForwardNext]_forwardVars => ForwardInv'
<1> SUFFICES ASSUME ForwardInv, [ForwardNext]_forwardVars PROVE ForwardInv'
  OBVIOUS
<1>s. /\ IsTarget(target) /\ Tidy(target.config)
      /\ IsEntry(targets) /\ IsTargetList(target, targets.data) /\ IsTargetList(target, targets.fetch.data)
      /\ IsDialog(target, dialog) /\ IsConfirm(target, confirm)
      /\ Listed(requests) /\ \A i \in DOMAIN requests : IsRequest(target, requests[i])
  BY DEF ForwardInv
<1>d. \A x : (FormListed(x) => IsDialog(target, [dialog EXCEPT !.form = x])) /\ IsDialog(target, [dialog EXCEPT !.errors = x])
             /\ IsDialog(target, [dialog EXCEPT !.conflict = x])
  BY <1>s, DialogFields
<1>n. IsDialog(target, NoDialog) /\ IsConfirm(target, NoConfirm)
  BY FormAtFirst DEF IsDialog, NoDialog, IsConfirm
<1>v. \A t \in Shown : SeenOf(target, t)
  BY <1>s DEF Shown, IsTargetList
<1>i. IsEntry(Invalidate(targets)) /\ Invalidate(targets).data = targets.data /\ IsTargetList(target, Invalidate(targets).fetch.data)
  <2>1. Invalidate(targets) = [data |-> targets.data, error |-> targets.error, fetch |-> IF FirstRead(targets) THEN targets.fetch ELSE Asked]
    BY <1>s, CacheFacts
  <2>2. Asked.data = NoData
    BY DEF Asked
  <2> QED BY <1>s, <2>1, <2>2 DEF IsEntry, IsTargetList
<1>1. CASE UNCHANGED forwardVars
  <2>1. UNCHANGED <<target, targets, dialog, confirm, requests>>
    BY <1>1 DEF forwardVars
  <2> QED BY <1>s, <2>1, ForwardPage
<1>2. CASE OpenDialog
  <2>1. UNCHANGED <<target, targets, confirm, requests>>
    BY <1>2 DEF OpenDialog
  <2>2. PICK t \in Shown \cup {NoData} :
          dialog' = [NoDialog EXCEPT !.open = TRUE, !.seen = t,
                        !.form = IF t = NoData THEN DEFAULT_FORWARD_FORM ELSE ConfigToForwardForm(t)]
    BY <1>2 DEF OpenDialog
  <2>3. PICK f : f = IF t = NoData THEN DEFAULT_FORWARD_FORM ELSE ConfigToForwardForm(t)
    OBVIOUS
  <2>4. dialog' = [open |-> TRUE, seen |-> t, form |-> f, errors |-> EmptyForwardErrors, conflict |-> FALSE]
    <3>1. dialog' = [NoDialog EXCEPT !.open = TRUE, !.seen = t, !.form = f]
      BY <2>2, <2>3, Zenon
    <3> QED BY <3>1 DEF NoDialog
  <2>5. IsDialog(target, dialog')
    <3>1. t # NoData => SeenOf(target, t) /\ Tidy(t.config)
      BY <1>v DEF SeenOf
    <3>2. FormListed(f)
      BY <2>3, <3>1, FormAtFirst, FormOpened
    <3> QED BY <2>4, <3>1, <3>2 DEF IsDialog
  <2> QED BY <1>s, <2>1, <2>5, ForwardPage
<1>3. CASE CloseDialog
  <2>1. UNCHANGED <<target, targets, confirm>> /\ dialog' = NoDialog /\ requests' = Deserted(requests)
    BY <1>3 DEF CloseDialog
  <2>2. requests' = [i \in DOMAIN requests |-> requests'[i]]
    BY <2>1 DEF Deserted
  <2>3. Listed(requests') /\ DOMAIN requests' = DOMAIN requests
    BY <1>s, <2>2, ListedMap
  <2>4. ASSUME NEW i \in DOMAIN requests PROVE IsRequest(target, requests'[i])
    <3>1. PICK l : l = (requests[i].live /\ requests[i].op \notin {"create", "update"})
      OBVIOUS
    <3>2. requests'[i] = [requests[i] EXCEPT !.live = l]
      BY <2>1, <3>1, Zenon DEF Deserted
    <3>3. IsRequest(target, requests[i])
      BY <1>s
    <3>4. IsRequest(target, [requests[i] EXCEPT !.live = l])
      BY <3>3, RequestFields, Zenon
    <3> QED BY <3>2, <3>4, Zenon
  <2> QED BY <1>n, <1>s, <2>1, <2>3, <2>4, ForwardPage
<1>4. CASE TypeField \/ ToggleSource \/ RemoveToken
  <2>0. FormListed(dialog.form)
    BY <1>s DEF IsDialog
  <2>1. PICK f : SetForm(f) /\ FormListed(f)
    <3>1. CASE TypeField
      <4>1. PICK i \in FieldInputs : SetForm([x \in DOMAIN dialog.form |-> IF x \in DOMAIN i THEN i[x] ELSE dialog.form[x]])
        BY <3>1, Zenon DEF TypeField
      <4>2. FormListed([x \in DOMAIN dialog.form |-> IF x \in DOMAIN i THEN i[x] ELSE dialog.form[x]])
        BY <2>0, FormTyped, Zenon
      <4> QED BY <4>1, <4>2, Zenon
    <3>2. CASE ToggleSource
      <4>1. PICK selected : selected = ForwardSourceNames(dialog.form.sources)
        BY Zenon
      <4>2. PICK n : SetForm([dialog.form EXCEPT !.sources =
                        IF Contains(selected, n) THEN Without(selected, n) ELSE Append(selected, n)])
        BY <3>2, <4>1, Zenon DEF ToggleSource
      <4>3. FormListed([dialog.form EXCEPT !.sources =
                        IF Contains(selected, n) THEN Without(selected, n) ELSE Append(selected, n)])
        BY <2>0, <4>1, FormTicked, Zenon
      <4> QED BY <4>2, <4>3, Zenon
    <3>3. CASE RemoveToken
      <4>1. PICK on : SetForm([dialog.form EXCEPT !.remove_token = on, !.token = IF on THEN "" ELSE @])
        BY <3>3, Zenon DEF RemoveToken
      <4>2. FormListed([dialog.form EXCEPT !.remove_token = on, !.token = IF on THEN "" ELSE @])
        BY <2>0, FormCleared, Zenon
      <4> QED BY <4>1, <4>2, Zenon
    <3> QED BY <1>4, <3>1, <3>2, <3>3
  <2>2. UNCHANGED <<target, targets, confirm, requests>> /\ dialog' = [dialog EXCEPT !.form = f]
    BY <2>1 DEF SetForm
  <2>3. IsDialog(target, dialog')
    BY <1>d, <2>1, <2>2, Zenon
  <2> QED BY <1>s, <2>2, <2>3, ForwardPage
<1>5. CASE SubmitTarget
  <2> DEFINE out == FormToForwardInput(dialog.form)
  <2>1. UNCHANGED <<target, targets, confirm>>
    BY <1>5 DEF SubmitTarget
  <2>2. CASE UNCHANGED requests /\ dialog' = [dialog EXCEPT !.errors = out.errors]
    <3>1. IsDialog(target, dialog')
      BY <1>d, <2>2, Zenon
    <3> QED BY <1>s, <2>1, <2>2, <3>1, ForwardPage
  <2>3. CASE /\ ~HasForwardErrors(out.errors)
             /\ dialog' = [dialog EXCEPT !.errors = EmptyForwardErrors, !.conflict = FALSE]
             /\ Request(IF dialog.seen = NoData
                       THEN Mutation("create", NoData, dialog.form, 0, out.config, FALSE, out.token)
                       ELSE Mutation("update", dialog.seen, dialog.form, VersionSent(dialog.seen),
                                     out.config, EnabledSent(dialog.seen), out.token))
    <3>1. IsDialog(target, dialog')
      <4> DEFINE d == [dialog EXCEPT !.errors = EmptyForwardErrors]
      <4>1. IsDialog(target, d)
        BY <1>d
      <4>2. dialog' = [d EXCEPT !.conflict = FALSE]
        BY <2>3, Zenon
      <4> HIDE DEF d
      <4>3. \A x : IsDialog(target, [d EXCEPT !.conflict = x])
        BY <4>1, DialogFields
      <4> QED BY <4>2, <4>3, Zenon
    <3>2. IsConfig(out.config) /\ out.token = TokenSent(dialog.form) /\ Tidy(out.config)
      <4>1. FormListed(dialog.form)
        BY <1>s DEF IsDialog
      <4>2. Tidy(out.config)
        BY <2>3, <4>1, FormSent
      <4> QED BY <4>2 DEF FormToForwardInput, IsConfig
    <3> HIDE DEF out
    <3>3. CASE dialog.seen = NoData
      <4> DEFINE r == Mutation("create", NoData, dialog.form, 0, out.config, FALSE, out.token)
      <4>1. IsRequest(target, r)
        BY <3>2 DEF Mutation, IsRequest
      <4>2. Request(r)
        BY <2>3, <3>3
      <4> HIDE DEF r
      <4> QED BY <1>s, <2>1, <3>1, <4>1, <4>2, ForwardPage, Requested
    <3>4. CASE dialog.seen # NoData
      <4> DEFINE r == Mutation("update", dialog.seen, dialog.form, VersionSent(dialog.seen),
                                     out.config, EnabledSent(dialog.seen), out.token)
      <4>0. SeenOf(target, dialog.seen) /\ dialog.seen.enabled \in BOOLEAN
        BY <1>s, <3>4 DEF IsDialog, SeenOf
      <4>1. IsRequest(target, r)
        BY <3>2, <4>0 DEF Mutation, IsRequest, VersionSent, EnabledSent
      <4>2. Request(r)
        BY <2>3, <3>4
      <4> HIDE DEF r
      <4> QED BY <1>s, <2>1, <3>1, <4>1, <4>2, ForwardPage, Requested
    <3> QED BY <3>3, <3>4
  <2> QED BY <1>5, <2>2, <2>3 DEF SubmitTarget
<1>6. CASE AskEnable \/ AskDeleteTarget \/ CancelConfirm
  <2>1. UNCHANGED <<target, targets, dialog, requests>>
    BY <1>6 DEF AskEnable, AskDeleteTarget, CancelConfirm
  <2>2. IsConfirm(target, confirm')
    BY <1>6, <1>v DEF AskEnable, AskDeleteTarget, CancelConfirm, IsConfirm
  <2> QED BY <1>s, <2>1, <2>2, ForwardPage
<1>7. ASSUME NEW t, SeenOf(target, t), NEW on \in BOOLEAN, SetEnabled(t, on), UNCHANGED <<target, targets, dialog, confirm>>
      PROVE  ForwardInv'
  <2> DEFINE op == IF on THEN "enable" ELSE "disable"
             r == Mutation(op, t, DEFAULT_FORWARD_FORM, RowSent(t).version, RowSent(t).config, on, NoToken)
  <2>1. Request(r)
    BY <1>7 DEF SetEnabled
  <2>2. op \in {"enable", "disable"} /\ (on <=> op = "enable")
    OBVIOUS
  <2> HIDE DEF op
  <2>3. IsRequest(target, r)
    BY <1>7, <2>2 DEF Mutation, IsRequest, RowSent, SeenOf
  <2> HIDE DEF r
  <2> QED BY <1>7, <1>s, <2>1, <2>3, ForwardPage, Requested
<1>8. CASE Disable
  BY <1>7, <1>8, <1>v DEF Disable
<1>9. CASE Confirm
  <2>1. UNCHANGED <<target, targets, dialog, confirm>> /\ confirm # NoConfirm
    BY <1>9 DEF Confirm
  <2>2. SeenOf(target, confirm.seen)
    BY <1>s, <2>1 DEF IsConfirm
  <2>3. CASE SetEnabled(confirm.seen, TRUE)
    BY <1>7, <2>1, <2>2, <2>3
  <2>4. CASE Request(Mutation("delete", confirm.seen, DEFAULT_FORWARD_FORM, 0, confirm.seen.config, FALSE, NoToken))
    <3> DEFINE r == Mutation("delete", confirm.seen, DEFAULT_FORWARD_FORM, 0, confirm.seen.config, FALSE, NoToken)
    <3>1. IsRequest(target, r)
      BY <2>2 DEF Mutation, IsRequest, SeenOf
    <3>2. Request(r)
      BY <2>4
    <3> HIDE DEF r
    <3> QED BY <1>s, <2>1, <3>1, <3>2, ForwardPage, Requested
  <2> QED BY <1>9, <2>3, <2>4 DEF Confirm
<1>10. ASSUME NEW i \in DOMAIN requests, ServeRequest(i) PROVE ForwardInv'
  <2>1. PICK says \in {ServerSays(requests[i]), "failed", "lost"} :
          /\ says = "lost" => ServerSays(requests[i]) = "ok"
          /\ requests' = [requests EXCEPT ![i].answer = says]
          /\ target' = IF says \in {"ok", "lost"} THEN Store(requests[i]) ELSE target
    BY <1>10 DEF ServeRequest
  <2>2. UNCHANGED <<targets, dialog, confirm>>
    BY <1>10 DEF ServeRequest
  <2>3. Listed(requests') /\ \A j \in DOMAIN requests' : IsRequest(target, requests'[j])
    BY <2>1, RequestAnswered
  <2>4. IsTarget(target') /\ Moves(target, target') /\ Tidy(target'.config)
    <3>1. CASE says \in {"ok", "lost"}
      BY <2>1, <3>1, StoreMoves
    <3>2. CASE says \notin {"ok", "lost"}
      BY <1>s, <2>1, <3>2 DEF Moves
    <3> QED BY <3>1, <3>2
  <2> QED BY <2>2, <2>3, <2>4, ForwardMoved
<1>11. ASSUME NEW i \in DOMAIN requests, RequestOk(i) PROVE ForwardInv'
  <2>1. Listed(requests') /\ \A j \in DOMAIN requests' : IsRequest(target, requests'[j])
    BY <1>11, RequestAnswered DEF RequestOk
  <2>2. target' = target /\ targets' = Invalidate(targets)
    BY <1>11 DEF RequestOk
  <2>3. IsDialog(target, dialog') /\ IsConfirm(target, confirm')
    BY <1>11, <1>n, <1>s DEF RequestOk
  <2> QED BY <1>i, <1>s, <2>1, <2>2, <2>3, ForwardPage
<1>12. ASSUME NEW i \in DOMAIN requests, RequestRefused(i) PROVE ForwardInv'
  <2>1. Listed(requests') /\ \A j \in DOMAIN requests' : IsRequest(target, requests'[j])
    BY <1>12, RequestAnswered DEF RequestRefused
  <2>2. UNCHANGED <<target, targets>>
    BY <1>12 DEF RequestRefused
  <2>3. IsDialog(target, dialog')
    <3>1. \/ dialog' = dialog \/ dialog' = [dialog EXCEPT !.conflict = TRUE]
          \/ dialog' = [dialog EXCEPT !.errors = ForwardProblemErrors(requests[i].answer)]
      BY <1>12 DEF RequestRefused
    <3> QED BY <1>d, <1>s, <3>1, Zenon
  <2>4. IsConfirm(target, confirm')
    BY <1>12, <1>n, <1>s DEF RequestRefused
  <2> QED BY <1>s, <2>1, <2>2, <2>3, <2>4, ForwardPage
<1>13. CASE PollTargets
  <2>1. UNCHANGED <<target, dialog, confirm, requests>> /\ targets' = Refetch(targets) /\ targets.fetch = NotAsked
    BY <1>13 DEF PollTargets
  <2>2. targets' = [data |-> targets.data, error |-> targets.error, fetch |-> Asked]
    BY <1>s, <2>1, CacheFacts
  <2>3. IsEntry(targets') /\ targets'.data = targets.data /\ targets'.fetch.data = NoData
    BY <2>2 DEF IsEntry, Asked
  <2> QED BY <1>s, <2>1, <2>3, ForwardPage DEF IsTargetList
<1>14. CASE SettleTick
  <2>1. UNCHANGED <<target, dialog, confirm, requests>> /\ targets' = Invalidate(targets)
    BY <1>14 DEF SettleTick
  <2> QED BY <1>i, <1>s, <2>1, ForwardPage
<1>15. CASE ServeTargets
  <2>1. UNCHANGED <<target, dialog, confirm, requests>> /\ targets' = AnswerFetch(targets, Rows(target))
    BY <1>15 DEF ServeTargets
  <2>2. targets' = [data |-> targets.data, error |-> targets.error, fetch |-> [step |-> "answered", data |-> Rows(target)]]
    BY <1>s, <2>1, CacheFacts
  <2>3. IsEntry(targets') /\ targets'.data = targets.data /\ targets'.fetch.data = Rows(target)
    BY <2>2 DEF IsEntry
  <2>4. IsTargetList(target, Rows(target))
    <3>1. Rows(target).rows = IF target.version = 0 THEN {} ELSE {View(target)}
      BY DEF Rows
    <3> QED BY <1>s, <3>1, ViewSeen DEF IsTargetList
  <2> QED BY <1>s, <2>1, <2>3, <2>4, ForwardPage
<1>16. CASE TargetsArrive
  <2>1. UNCHANGED <<target, dialog, confirm, requests>> /\ targets' = Arrive(targets)
    BY <1>16 DEF TargetsArrive
  <2>2. /\ IsEntry(targets') /\ targets'.fetch = NotAsked
        /\ targets'.data = targets.data \/ targets'.data = targets.fetch.data
    BY <1>s, <2>1, Arrival
  <2>3. targets'.fetch.data = NoData
    BY <2>2 DEF NotAsked
  <2> QED BY <1>s, <2>1, <2>2, <2>3, ForwardPage DEF IsTargetList
<1>17. CASE SomebodyElse
  <2>1. UNCHANGED <<targets, dialog, confirm, requests>> /\ target.version > 0
    BY <1>17 DEF SomebodyElse, Exists
  <2>2. IsTarget(target') /\ Moves(target, target') /\ Tidy(target'.config)
    <3>1. ASSUME NEW c \in OtherConfigs, target' = [target EXCEPT !.version = @ + 1, !.config = Prepared(c), !.secret = "o"]
          PROVE  IsTarget(target') /\ Moves(target, target') /\ Tidy(target'.config)
      <4>1. PICK p : p = Prepared(c)
        OBVIOUS
      <4>0. IsConfig(c) /\ Tidy(c)
        BY OtherConfigsAssumption DEF Tidy, PlainStores
      <4>2. IsConfig(p) /\ Prepared(p) = p /\ Tidy(p)
        BY <4>0, <4>1, PreparedTwice, PreparedTidy
      <4>3. target' = [id |-> target.id, version |-> target.version + 1, config |-> p, enabled |-> target.enabled, secret |-> "o"]
        BY <1>s, <3>1, <4>1 DEF IsTarget
      <4> QED BY <1>s, <2>1, <4>2, <4>3 DEF IsTarget, Moves
    <3>2. CASE target' = [target EXCEPT !.version = @ + 1, !.enabled = ~@]
      <4>1. PICK b \in BOOLEAN : b = ~target.enabled
        OBVIOUS
      <4>2. target' = [target EXCEPT !.version = target.version + 1, !.enabled = b]
        BY <3>2, <4>1, Zenon
      <4>3. target' = [id |-> target.id, version |-> target.version + 1, config |-> target.config, enabled |-> b, secret |-> target.secret]
        BY <1>s, <4>2 DEF IsTarget
      <4> QED BY <1>s, <2>1, <4>3 DEF IsTarget, Moves
    <3>3. CASE target' = [target EXCEPT !.version = 0]
      <4>1. target' = [id |-> target.id, version |-> 0, config |-> target.config, enabled |-> target.enabled, secret |-> target.secret]
        BY <1>s, <3>3 DEF IsTarget
      <4> QED BY <1>s, <4>1 DEF IsTarget, Moves
    <3> QED BY <1>17, <3>1, <3>2, <3>3 DEF SomebodyElse
  <2> QED BY <1>s, <2>1, <2>2, ForwardMoved
<1> QED BY <1>1, <1>2, <1>3, <1>4, <1>5, <1>6, <1>8, <1>9, <1>10, <1>11, <1>12, <1>13, <1>14, <1>15, <1>16, <1>17
        DEF ForwardNext

\* Saving a target that was opened and not changed sends what was shown.
LEMMA ForwardTruth == ForwardInv /\ PlainStores => UntouchedTargetIsKept
<1> SUFFICES ASSUME ForwardInv, PlainStores, dialog.open, dialog.seen # NoData,
                    dialog.form = ConfigToForwardForm(dialog.seen)
             PROVE  LET out == FormToForwardInput(dialog.form) IN
                    /\ ~HasForwardErrors(out.errors) /\ out.token = NoToken
                    /\ Prepared(out.config) = [dialog.seen.config EXCEPT !.stream = DefaultStream]
  BY DEF UntouchedTargetIsKept
<1>1. PICK c : c = dialog.seen.config
  OBVIOUS
<1>2. IsConfig(c) /\ Prepared(c) = c /\ PlainConfig(c)
  BY <1>1 DEF ForwardInv, IsDialog, SeenOf, Tidy
<1>3. PICK f : f = dialog.form
  OBVIOUS
<1>4. /\ f.name = c.name /\ f.url = c.url /\ f.sources = c.sources /\ f.limit = c.limit
      /\ f.token = "" /\ f.remove_token = FALSE
  BY <1>1, <1>3 DEF ConfigToForwardForm, DEFAULT_FORWARD_FORM
<1>5. /\ Trimmed(f.name) = c.name /\ Trimmed(f.url) = c.url /\ Trimmed(f.limit) = c.limit
      /\ c.name # "" /\ ~UrlError(c.url) /\ c.limit # NotANumber
  BY <1>2, <1>4 DEF PlainConfig
<1>6. ForwardSourceNames(f.sources) = c.sources
  <2>1. Listed(c.sources) /\ \A i \in DOMAIN c.sources : Trimmed(c.sources[i]) = c.sources[i] /\ c.sources[i] # ""
    BY <1>2 DEF PlainConfig, Listed
  <2>2. PICK s : s = c.sources
    OBVIOUS
  <2>3. ForwardSourceNames(s) = s
    BY <2>1, <2>2, SourcesSent
  <2> QED BY <1>4, <2>2, <2>3
<1>7. PICK out : out = FormToForwardInput(f)
  OBVIOUS
<1>8. out.token = NoToken
  BY <1>4, <1>7 DEF FormToForwardInput, TokenSent
<1>9. ~HasForwardErrors(out.errors)
  <2>1. out.errors = [fields |-> {x \in {"name", "url", "limit"} :
                                CASE x = "name" -> Trimmed(f.name) = ""
                                  [] x = "url" -> UrlError(Trimmed(f.url))
                                  [] x = "limit" -> Trimmed(f.limit) = NotANumber},
                     general |-> FALSE]
    BY <1>7 DEF FormToForwardInput
  <2>2. {x \in {"name", "url", "limit"} :
                                CASE x = "name" -> Trimmed(f.name) = ""
                                  [] x = "url" -> UrlError(Trimmed(f.url))
                                  [] x = "limit" -> Trimmed(f.limit) = NotANumber} = {}
    BY <1>5
  <2>3. out.errors = [fields |-> {}, general |-> FALSE]
    BY <2>1, <2>2, Zenon
  <2> QED BY <2>3 DEF HasForwardErrors
<1>10. PICK p : p = out.config
  OBVIOUS
<1>11. p = [name |-> c.name, url |-> c.url, sources |-> c.sources, limit |-> c.limit, stream |-> ""]
  BY <1>5, <1>6, <1>7, <1>10 DEF FormToForwardInput
<1>12. IsConfig(p) /\ p.limit = c.limit /\ p.stream = "" /\ p.name = c.name /\ p.url = c.url /\ p.sources = c.sources
  BY <1>11 DEF IsConfig
<1>13. c.limit # ""
  <2>1. PICK l, m : l = (IF c.limit = "" THEN DefaultLimit ELSE c.limit) /\ m = IF c.stream = "" THEN DefaultStream ELSE c.stream
    OBVIOUS
  <2>2. Prepared(c) = [c EXCEPT !.limit = l, !.stream = m]
    BY <1>2, <2>1, Zenon DEF Prepared, IsConfig
  <2>3. c = [name |-> c.name, url |-> c.url, sources |-> c.sources, limit |-> l, stream |-> m]
    BY <1>2, <2>2, ConfigFields
  <2>4. c.limit = l
    BY <2>3
  <2> QED BY <2>1, <2>4 DEF DefaultLimit
<1>14. Prepared(p) = [p EXCEPT !.limit = c.limit, !.stream = DefaultStream]
  <2>1. Prepared(p) = [p EXCEPT !.limit = IF p.limit = "" THEN DefaultLimit ELSE p.limit,
                                !.stream = IF p.stream = "" THEN DefaultStream ELSE p.stream]
    BY <1>12, Zenon DEF Prepared, IsConfig
  <2> QED BY <1>12, <1>13, <2>1
<1>15. Prepared(p) = [name |-> c.name, url |-> c.url, sources |-> c.sources, limit |-> c.limit, stream |-> DefaultStream]
  BY <1>12, <1>14, ConfigFields
<1>16. [c EXCEPT !.stream = DefaultStream] =
          [name |-> c.name, url |-> c.url, sources |-> c.sources, limit |-> c.limit, stream |-> DefaultStream]
  BY <1>2 DEF IsConfig
<1> QED BY <1>1, <1>3, <1>7, <1>8, <1>9, <1>10, <1>15, <1>16

\* Only the server stores what a call carries.
LEMMA RequestStored ==
  ASSUME ForwardInv, [ForwardNext]_forwardVars, NEW i \in DOMAIN requests, Stored(i)
  PROVE  ServerSays(requests[i]) = "ok" /\ target' = Store(requests[i])
<1>s. Listed(requests) /\ \A j \in DOMAIN requests : IsRequest(target, requests[j])
  BY DEF ForwardInv
<1>t. requests'[i].answer \in {"ok", "lost"} /\ requests[i].answer = "none"
  BY DEF Stored
<1>1. requests' # requests
  BY <1>t
<1>2. ASSUME NEW r, Request(r) PROVE FALSE
  <2>1. requests'[i] = requests[i]
    BY <1>2, <1>s, ListedAppend DEF Request
  <2> QED BY <1>t, <2>1
<1>3. ASSUME CloseDialog PROVE FALSE
  <2>1. PICK l : requests'[i] = [requests[i] EXCEPT !.live = l]
    BY <1>3 DEF CloseDialog, Deserted
  <2>2. IsRequest(target, requests[i])
    BY <1>s
  <2>3. requests'[i].answer = requests[i].answer
    BY <2>1, <2>2 DEF IsRequest
  <2> QED BY <1>t, <2>3
<1>4. ASSUME NEW j \in DOMAIN requests, NEW a, requests' = [requests EXCEPT ![j].answer = a] PROVE i = j /\ a \in {"ok", "lost"}
  <2>1. requests'[j].answer = a /\ \A k \in DOMAIN requests : k # j => requests'[k] = requests[k]
    BY <1>4, RequestAnswered
  <2> QED BY <1>t, <2>1
<1>5. ASSUME NEW j \in DOMAIN requests, ServeRequest(j) PROVE ServerSays(requests[i]) = "ok" /\ target' = Store(requests[i])
  <2>1. PICK says \in {ServerSays(requests[j]), "failed", "lost"} :
          /\ says = "lost" => ServerSays(requests[j]) = "ok"
          /\ requests' = [requests EXCEPT ![j].answer = says]
          /\ target' = IF says \in {"ok", "lost"} THEN Store(requests[j]) ELSE target
    BY <1>5 DEF ServeRequest
  <2>2. i = j /\ says \in {"ok", "lost"}
    BY <1>4, <2>1
  <2> QED BY <2>1, <2>2
<1>6. ASSUME NEW j \in DOMAIN requests, RequestOk(j) \/ RequestRefused(j) PROVE FALSE
  BY <1>4, <1>6 DEF RequestOk, RequestRefused
<1>7. ~SubmitTarget /\ ~Disable /\ ~Confirm
  BY <1>1, <1>2 DEF SubmitTarget, Disable, Confirm, SetEnabled
<1>8. ~(OpenDialog \/ TypeField \/ ToggleSource \/ RemoveToken \/ AskEnable \/ AskDeleteTarget \/ CancelConfirm
         \/ PollTargets \/ SettleTick \/ ServeTargets \/ TargetsArrive \/ SomebodyElse)
  BY <1>1 DEF OpenDialog, TypeField, ToggleSource, RemoveToken, SetForm, AskEnable, AskDeleteTarget, CancelConfirm,
         PollTargets, SettleTick, ServeTargets, TargetsArrive, SomebodyElse
<1>9. requests' = requests \/ ForwardNext
  BY DEF forwardVars
<1> QED BY <1>1, <1>3, <1>5, <1>6, <1>7, <1>8, <1>9 DEF ForwardNext

\* What the four properties say of a step.
ForwardStored ==
    \A i \in DOMAIN requests : Stored(i) =>
        /\ requests[i].op \in {"update", "enable", "disable"} => View(target) = requests[i].seen
        /\ requests[i].op = "update" => target'.enabled = target.enabled
        /\ requests[i].op = "create" => ~target'.enabled
        /\ target'.enabled /\ ~target.enabled =>
              requests[i].op = "enable" /\ target'.config = requests[i].seen.config
        /\ requests[i].op # "create" /\ target'.secret # target.secret =>
              requests[i].form.token # "" \/ requests[i].form.remove_token

\* A call that is stored replaced the version its sender had seen, and changed of
\* it what the call says: an If-Match that holds means nobody was in between.
LEMMA ForwardActions ==
  ASSUME ForwardInv, [ForwardNext]_forwardVars
  PROVE  ForwardStored
<1> SUFFICES ASSUME NEW i \in DOMAIN requests, Stored(i)
             PROVE
        /\ requests[i].op \in {"update", "enable", "disable"} => View(target) = requests[i].seen
        /\ requests[i].op = "update" => target'.enabled = target.enabled
        /\ requests[i].op = "create" => ~target'.enabled
        /\ target'.enabled /\ ~target.enabled =>
              requests[i].op = "enable" /\ target'.config = requests[i].seen.config
        /\ requests[i].op # "create" /\ target'.secret # target.secret =>
              requests[i].form.token # "" \/ requests[i].form.remove_token
  BY DEF ForwardStored
<1> DEFINE r == requests[i]
           S == target'
<1>1. ServerSays(r) = "ok" /\ S = Store(r)
  BY RequestStored
<1>2. IsRequest(target, r) /\ IsTarget(target)
  BY DEF ForwardInv
<1> SUFFICES
        /\ r.op \in {"update", "enable", "disable"} => View(target) = r.seen
        /\ r.op = "update" => S.enabled = target.enabled
        /\ r.op = "create" => ~S.enabled
        /\ S.enabled /\ ~target.enabled => r.op = "enable" /\ S.config = r.seen.config
        /\ r.op # "create" /\ S.secret # target.secret => r.form.token # "" \/ r.form.remove_token
  OBVIOUS
<1> HIDE DEF r, S
<1>3. ASSUME r.op \in {"update", "enable", "disable"} PROVE View(target) = r.seen /\ target.version > 0
  <2>1. target.version > 0 /\ r.seen.id = target.id /\ r.version = target.version
    BY <1>1, <1>3 DEF ServerSays, Exists
  <2> QED BY <1>2, <1>3, <2>1 DEF IsRequest, SeenOf
<1>4. CASE r.op = "create"
  <2>1. S = [id |-> target.id + 1, version |-> 1, config |-> Prepared(r.config), enabled |-> FALSE,
             secret |-> IF r.token = NoToken THEN "" ELSE r.token]
    BY <1>1, <1>4, Zenon DEF Store
  <2>2. ~S.enabled
    BY <2>1
  <2> QED BY <1>4, <2>2
<1>5. CASE r.op = "delete"
  <2>1. S = [target EXCEPT !.version = 0]
    BY <1>1, <1>5 DEF Store
  <2>2. S.enabled = target.enabled /\ S.secret = target.secret
    BY <1>2, <2>1 DEF IsTarget
  <2> QED BY <1>5, <2>2
<1>6. CASE r.op \in {"update", "enable", "disable"}
  <2> DEFINE s == IF r.token = NoToken THEN target.secret ELSE r.token
             c == Prepared(r.config)
  <2>1. S = [id |-> target.id, version |-> target.version + 1, config |-> c, enabled |-> r.enabled, secret |-> s]
    BY <1>1, <1>6 DEF Store
  <2>2. S.enabled = r.enabled /\ S.secret = s /\ S.config = c
    <3> HIDE DEF s, c
    <3> QED BY <2>1
  <2>3. View(target) = r.seen /\ target.version > 0
    BY <1>3, <1>6
  <2>4. r.seen.enabled = target.enabled /\ r.seen.config = target.config
    <3>1. target.version # 0
      BY <2>3
    <3>0. PICK b : b = (target.secret # "")
      OBVIOUS
    <3>2. r.seen = [id |-> target.id, version |-> target.version, config |-> target.config, enabled |-> target.enabled,
                    token_stored |-> b]
      BY <2>3, <3>0, <3>1, Zenon DEF View
    <3> QED BY <3>2
  <2>5. r.op = "update" => r.enabled = target.enabled
    BY <1>2, <2>4 DEF IsRequest
  <2>6. r.op = "disable" => ~r.enabled
    BY <1>2 DEF IsRequest
  <2>7. r.op = "enable" => c = r.seen.config
    <3>1. r.op = "enable" => r.config = r.seen.config
      BY <1>2 DEF IsRequest
    <3>2. Prepared(target.config) = target.config
      BY <1>2 DEF IsTarget
    <3> QED BY <2>4, <3>1, <3>2
  <2>8. r.token # NoToken => r.form.token # "" \/ r.form.remove_token
    BY <1>2, <1>6 DEF IsRequest, TokenSent
  <2>9. s # target.secret => r.token # NoToken
    OBVIOUS
  <2> HIDE DEF s, c
  <2> QED BY <1>6, <2>2, <2>3, <2>5, <2>6, <2>7, <2>8, <2>9
<1> QED BY <1>2, <1>4, <1>5, <1>6 DEF IsRequest

-----------------------------------------------------------------------------
(***************************************************************************)
(* The retention page.                                                     *)
(***************************************************************************)

\* A read of the retention period that succeeds leaves the form alone, and every
\* step keeps the cache entry an entry.
LEMMA RetentionStep ==
  ASSUME IsEntry(retention), [RetentionNext]_retentionVars
  PROVE  /\ IsEntry(retention')
         /\ retention.fetch.step = "answered" /\ retention.fetch.data # NoData /\ retention'.fetch = NotAsked
              /\ periodForm.mounted => periodForm' = periodForm
<1>1. CASE retention' = retention
  <2>1. retention.fetch.step = "answered" => retention.fetch # NotAsked
    BY DEF NotAsked
  <2> QED BY <1>1, <2>1
<1>2. CASE ServeRetention
  <2>1. PICK d : retention' = AnswerFetch(retention, d)
    BY <1>2 DEF ServeRetention
  <2>2. retention' = [data |-> retention.data, error |-> retention.error, fetch |-> [step |-> "answered", data |-> d]]
    BY <2>1, CacheFacts
  <2> QED BY <2>2 DEF IsEntry, NotAsked
<1>3. CASE RetentionArrives
  <2>1. retention' = Arrive(retention) /\ periodForm' = FormAfter(retention')
    BY <1>3 DEF RetentionArrives
  <2>2. /\ IsEntry(retention')
        /\ retention.fetch.data # NoData => retention'.data = retention.fetch.data /\ ~retention'.error
    BY <2>1, Arrival
  <2> QED BY <2>1, <2>2 DEF FormAfter
<1>4. CASE PollRetention
  <2>1. retention' = Refetch(retention) /\ retention.fetch = NotAsked
    BY <1>4 DEF PollRetention
  <2>2. retention' = [data |-> retention.data, error |-> retention.error, fetch |-> Asked]
    BY <2>1, CacheFacts
  <2> QED BY <2>2 DEF IsEntry, NotAsked, Asked
<1>5. ASSUME NEW i \in DOMAIN puts, PeriodStored(i)
      PROVE  IsEntry(retention') /\ retention'.fetch # NotAsked
  <2>1. PICK q : /\ q = IF retention.data = NoData THEN retention
                      ELSE SetQueryData(retention, [retention.data EXCEPT !.desired = puts[i].stored,
                                                                           !.restart = {puts[i].restart}])
                 /\ retention' = Invalidate(q)
    BY <1>5 DEF PeriodStored
  <2>2. IsEntry(q)
    <3>1. CASE retention.data = NoData
      BY <2>1, <3>1
    <3>2. CASE retention.data # NoData
      <4>1. PICK d : q = SetQueryData(retention, d)
        BY <2>1, <3>2
      <4>2. q = [data |-> d, error |-> FALSE, fetch |-> retention.fetch]
        BY <4>1, CacheFacts
      <4> QED BY <4>2 DEF IsEntry
    <3> QED BY <3>1, <3>2
  <2>3. retention' = [data |-> q.data, error |-> q.error, fetch |-> IF FirstRead(q) THEN q.fetch ELSE Asked]
    BY <2>1, <2>2, CacheFacts
  <2> QED BY <2>2, <2>3 DEF IsEntry, NotAsked, Asked, FirstRead
<1>6. CASE \/ SetPeriod \/ SubmitPeriod \/ Restart \/ StoredElsewhere
           \/ \E i \in DOMAIN puts : ServePeriod(i) \/ PeriodRefused(i)
  <2>1. retention' = retention
    BY <1>6 DEF SetPeriod, SubmitPeriod, Restart, StoredElsewhere, ServePeriod, PeriodRefused
  <2> QED BY <1>1, <2>1
<1>7. CASE UNCHANGED retentionVars
  BY <1>1, <1>7 DEF retentionVars
<1> QED BY <1>2, <1>3, <1>4, <1>5, <1>6, <1>7 DEF RetentionNext

\* The page starts by asking for the period.
LEMMA RetentionStart == RetentionInit => IsEntry(retention)
<1> SUFFICES ASSUME RetentionInit PROVE IsEntry(retention)
  OBVIOUS
<1>1. retention = [data |-> NoData, error |-> FALSE, fetch |-> Asked]
  BY DEF RetentionInit, EmptyEntry
<1> QED BY <1>1 DEF IsEntry

\* The text of a period: parts with a count, whatever their units.
IsText(t) == Listed(t) /\ \A i \in DOMAIN t : t[i].count \in Nat

\* The minutes of the parts of a text.
Minutes(text) == [p \in ToSet(text) |-> p.count * UNIT_MINUTES[p.unit]]

\* The units.
LEMMA Units ==
  /\ DAY = 1440
  /\ DOMAIN UNIT_MINUTES = {"m", "h", "d"}
  /\ UNIT_MINUTES["m"] = 1 /\ UNIT_MINUTES["h"] = 60 /\ UNIT_MINUTES["d"] = 1440
<1>1. DAY = 1440
  BY DEF DAY
<1> QED BY <1>1 DEF UNIT_MINUTES

\* The length of a period is the sum of its parts, a natural number.
LEMMA PeriodIsNat ==
  ASSUME NEW t, IsText(t), IsPeriod(t)
  PROVE  ParsePeriod(t) = SeqSum(Minutes(t), t) /\ ParsePeriod(t) \in Nat
<1>1. ParsePeriod(t) = SeqSum(Minutes(t), t)
  BY DEF ParsePeriod, SeqSum, Minutes
<1>2. \A p \in ToSet(t) : p.count \in Nat /\ p.unit \in {"m", "h", "d"}
  BY Units DEF IsText, IsPeriod, ToSet
<1>3. \A p \in ToSet(t) : UNIT_MINUTES[p.unit] \in Nat
  BY <1>2, Units
<1>4. \A n, m \in Nat : n * m \in Nat
  OBVIOUS
<1>5. \A p \in ToSet(t) : Minutes(t)[p] = p.count * UNIT_MINUTES[p.unit]
  BY DEF Minutes
<1>6. \A p \in ToSet(t) : Minutes(t)[p] \in Nat
  BY <1>2, <1>3, <1>4, <1>5
<1>7. SeqSum(Minutes(t), t) \in Nat
  BY <1>6, SeqSumType DEF IsText, Listed
<1> QED BY <1>1, <1>7

\* One element has its weight.
LEMMA SumOfOne ==
  ASSUME NEW p, NEW w, w[p] \in Int
  PROVE  SeqSum(w, Append(<<>>, p)) = SeqSum(w, <<>>) + w[p]
<1>1. PICK S : S = {p}
  OBVIOUS
<1>2. p \in S /\ \A x \in S : w[x] \in Int
  BY <1>1
<1>3. \A s \in Seq(S) : SeqSum(w, Append(s, p)) = SeqSum(w, s) + w[p]
  BY <1>2, SeqSumAppend
<1>4. <<>> \in Seq(S)
  OBVIOUS
<1> HIDE DEF SeqSum
<1> QED BY <1>3, <1>4, Zenon

\* A period of whole days.
LEMMA DaysParsed ==
  ASSUME NEW n \in Nat, NEW t, t = <<Part(n, "d")>>
  PROVE  IsText(t) /\ IsPeriod(t) /\ ParsePeriod(t) = n * 1440
<1>1. DOMAIN t = {1} /\ t[1] = Part(n, "d") /\ Len(t) = 1 /\ t # <<>>
  OBVIOUS
<1>2. Part(n, "d").count = n /\ Part(n, "d").unit = "d"
  BY DEF Part
<1>3. ToSet(t) = {Part(n, "d")}
  BY <1>1 DEF ToSet
<1>4. t \in Seq(ToSet(t))
  BY <1>3
<1>5. IsText(t)
  BY <1>1, <1>2, <1>4 DEF IsText, Listed
<1>6. IsPeriod(t)
  BY <1>1, <1>2, Units DEF IsPeriod
<1>7. t = Append(<<>>, Part(n, "d"))
  OBVIOUS
<1>8. Minutes(t)[Part(n, "d")] = n * 1440
  BY <1>2, <1>3, Units DEF Minutes
<1>9. SeqSum(Minutes(t), t) = SeqSum(Minutes(t), <<>>) + Minutes(t)[Part(n, "d")]
  <2>1. PICK w : w = Minutes(t)
    OBVIOUS
  <2>2. PICK p : p = Part(n, "d")
    OBVIOUS
  <2>3. w[p] \in Int
    BY <1>8, <2>1, <2>2
  <2> QED BY <1>7, <2>1, <2>2, <2>3, SumOfOne, Zenon
<1>10. SeqSum(Minutes(t), <<>>) = 0
  BY SeqSumEmpty
<1>11. ParsePeriod(t) = SeqSum(Minutes(t), t)
  BY <1>5, <1>6, PeriodIsNat
<1> QED BY <1>5, <1>6, <1>8, <1>9, <1>10, <1>11

\* What the server writes is a text.
LEMMA SpelledText ==
  ASSUME NEW n \in Nat
  PROVE  IsText(Spelled(n))
<1>0. DAY = 1440
  BY Units
<1>1. n \div 1440 \in Nat /\ n \div 60 \in Nat /\ n % 60 \in Nat
  OBVIOUS
<1>2. CASE n % DAY = 0
  <2>1. Spelled(n) = <<Part(n \div 1440, "d")>>
    BY <1>0, <1>2 DEF Spelled
  <2> QED BY <1>1, <2>1, DaysParsed
<1>3. CASE n % DAY # 0
  <2>1. PICK p, q : p = Part(n \div 60, "h") /\ q = Part(n % 60, "m") /\ Spelled(n) = <<p, q>>
    BY <1>3 DEF Spelled
  <2>2. p.count \in Nat /\ q.count \in Nat
    BY <1>1, <2>1 DEF Part
  <2>3. DOMAIN <<p, q>> = {1, 2} /\ <<p, q>>[1] = p /\ <<p, q>>[2] = q
    OBVIOUS
  <2>4. ToSet(<<p, q>>) = {p, q}
    BY <2>3 DEF ToSet
  <2>5. <<p, q>> \in Seq({p, q})
    OBVIOUS
  <2> QED BY <2>1, <2>2, <2>3, <2>4, <2>5 DEF IsText, Listed
<1> QED BY <1>2, <1>3

\* What is sent of a text that is typed: as long, and spelled as it is stored.
LEMMA NormalizedText ==
  ASSUME NEW t, IsText(t), IsPeriod(t)
  PROVE  LET sent == NormalizePeriod(t) IN
         /\ IsText(sent) /\ IsPeriod(sent)
         /\ SamePeriod(sent, t) /\ NormalizePeriod(sent) = sent
         /\ ParsePeriod(sent) % DAY = 0 => sent = Spelled(ParsePeriod(sent))
<1>0. DAY = 1440 /\ ParsePeriod(t) \in Nat /\ t # <<>>
  BY Units, PeriodIsNat DEF IsPeriod
<1>1. CASE ParsePeriod(t) % DAY # 0
  <2>1. NormalizePeriod(t) = t
    BY <1>1 DEF NormalizePeriod
  <2> QED BY <1>0, <1>1, <2>1 DEF SamePeriod
<1>2. CASE ParsePeriod(t) % DAY = 0
  <2>1. PICK n : n = ParsePeriod(t) \div 1440
    OBVIOUS
  <2>2. n \in Nat /\ n * 1440 = ParsePeriod(t)
    BY <1>0, <1>2, <2>1
  <2>3. PICK s : s = <<Part(n, "d")>>
    OBVIOUS
  <2>4. NormalizePeriod(t) = s
    BY <1>0, <1>2, <2>1, <2>3 DEF NormalizePeriod
  <2>5. IsText(s) /\ IsPeriod(s) /\ ParsePeriod(s) = ParsePeriod(t)
    BY <2>2, <2>3, DaysParsed
  <2>6. NormalizePeriod(s) = s
    BY <1>0, <1>2, <2>1, <2>3, <2>5 DEF NormalizePeriod
  <2>7. SamePeriod(s, t)
    BY <1>0, <2>5 DEF SamePeriod, IsPeriod
  <2>8. s = Spelled(ParsePeriod(s))
    BY <1>0, <1>2, <2>1, <2>3, <2>5 DEF Spelled
  <2> QED BY <2>4, <2>5, <2>6, <2>7, <2>8
<1> QED BY <1>1, <1>2

\* What a read of the period carries.
IsReply(d) ==
    d # NoData => /\ d = [version |-> d.version, configured |-> d.configured, desired |-> d.desired, restart |-> d.restart]
                  /\ d.configured \in Nat /\ d.desired \in Nat

\* The form of the period.
IsPeriodForm(f) ==
    /\ f = [mounted |-> f.mounted, period |-> f.period, error |-> f.error, saved |-> f.saved]
    /\ IsText(f.period)

\* A period on its way to the server.
IsPut(p) ==
    /\ p = [sent |-> p.sent, answer |-> p.answer, live |-> p.live, stored |-> p.stored, restart |-> p.restart]
    /\ IsText(p.sent) /\ p.stored \in Nat

\* The invariant of the retention page: periods are texts, lengths are numbers.
PeriodInv ==
    /\ configured \in Nat /\ desired \in Nat
    /\ IsEntry(retention) /\ IsReply(retention.data) /\ IsReply(retention.fetch.data)
    /\ IsPeriodForm(periodForm)
    /\ Listed(puts) /\ \A i \in DOMAIN puts : IsPut(puts[i])

\* The form with one field changed.
LEMMA PeriodFormField ==
  ASSUME NEW f, IsPeriodForm(f), NEW x, NEW g
  PROVE  /\ g = [f EXCEPT !.mounted = x] => IsPeriodForm(g)
         /\ g = [f EXCEPT !.error = x] => IsPeriodForm(g)
         /\ g = [f EXCEPT !.saved = x] => IsPeriodForm(g)
         /\ g = [f EXCEPT !.period = x] /\ IsText(x) => IsPeriodForm(g)
<1>1. ASSUME g = [f EXCEPT !.mounted = x] PROVE IsPeriodForm(g)
  <2>1. g = [mounted |-> x, period |-> f.period, error |-> f.error, saved |-> f.saved]
    BY <1>1 DEF IsPeriodForm
  <2> QED BY <2>1 DEF IsPeriodForm
<1>2. ASSUME g = [f EXCEPT !.error = x] PROVE IsPeriodForm(g)
  <2>1. g = [mounted |-> f.mounted, period |-> f.period, error |-> x, saved |-> f.saved]
    BY <1>2 DEF IsPeriodForm
  <2> QED BY <2>1 DEF IsPeriodForm
<1>3. ASSUME g = [f EXCEPT !.saved = x] PROVE IsPeriodForm(g)
  <2>1. g = [mounted |-> f.mounted, period |-> f.period, error |-> f.error, saved |-> x]
    BY <1>3 DEF IsPeriodForm
  <2> QED BY <2>1 DEF IsPeriodForm
<1>4. ASSUME g = [f EXCEPT !.period = x], IsText(x) PROVE IsPeriodForm(g)
  <2>1. g = [mounted |-> f.mounted, period |-> x, error |-> f.error, saved |-> f.saved]
    BY <1>4 DEF IsPeriodForm
  <2> QED BY <1>4, <2>1 DEF IsPeriodForm
<1> QED BY <1>1, <1>2, <1>3, <1>4

\* The form after a change of several fields, as the actions make it.
LEMMA PeriodFormFields ==
  ASSUME NEW f, IsPeriodForm(f), NEW x, IsText(x), NEW y, NEW z
  PROVE  /\ IsPeriodForm([f EXCEPT !.period = x, !.error = y, !.saved = z])
         /\ IsPeriodForm([f EXCEPT !.error = y, !.saved = z])
         /\ IsPeriodForm([f EXCEPT !.period = x, !.saved = z])
<1>1. PICK a : a = [f EXCEPT !.period = x]
  OBVIOUS
<1>2. PICK b : b = [a EXCEPT !.error = y]
  OBVIOUS
<1>3. PICK c : c = [b EXCEPT !.saved = z]
  OBVIOUS
<1>4. PICK d : d = [f EXCEPT !.error = y]
  OBVIOUS
<1>5. PICK e : e = [d EXCEPT !.saved = z]
  OBVIOUS
<1>6. PICK g : g = [a EXCEPT !.saved = z]
  OBVIOUS
<1>7. IsPeriodForm(a)
  BY <1>1, PeriodFormField
<1>8. IsPeriodForm(b) /\ IsPeriodForm(d)
  BY <1>2, <1>4, <1>7, PeriodFormField
<1>9. IsPeriodForm(c) /\ IsPeriodForm(e) /\ IsPeriodForm(g)
  BY <1>3, <1>5, <1>6, <1>7, <1>8, PeriodFormField
<1>10. /\ [f EXCEPT !.period = x, !.error = y, !.saved = z] = c
       /\ [f EXCEPT !.error = y, !.saved = z] = e
       /\ [f EXCEPT !.period = x, !.saved = z] = g
  BY <1>1, <1>2, <1>3, <1>4, <1>5, <1>6, Zenon
<1> QED BY <1>9, <1>10

\* The form that is not on the screen, and the one that is shown first.
LEMMA PeriodFormShown ==
  /\ IsPeriodForm(NoPeriodForm)
  /\ \A r : r.configured \in Nat /\ r.desired \in Nat => IsPeriodForm(Seeded(r))
<1>0. IsText(<<>>)
  BY DEF IsText, Listed
<1>1. IsPeriodForm(NoPeriodForm)
  <2>1. PICK z : z = FALSE
    OBVIOUS
  <2>2. NoPeriodForm = [mounted |-> z, period |-> <<>>, error |-> z, saved |-> z]
    BY <2>1, Zenon DEF NoPeriodForm
  <2>3. PICK e : e = <<>>
    OBVIOUS
  <2> QED BY <1>0, <2>2 DEF IsPeriodForm
<1>2. ASSUME NEW r, r.configured \in Nat /\ r.desired \in Nat
      PROVE  IsPeriodForm(Seeded(r))
  <2>1. PICK s : s = Spelled(IF r.desired = 0 THEN r.configured ELSE r.desired)
    OBVIOUS
  <2>2. IsText(s)
    BY <1>2, <2>1, SpelledText
  <2>3. PICK y : y = TRUE
    OBVIOUS
  <2>4. PICK g : g = [NoPeriodForm EXCEPT !.mounted = y]
    OBVIOUS
  <2>5. PICK h : h = [g EXCEPT !.period = s]
    OBVIOUS
  <2>6. Seeded(r) = h
    BY <2>1, <2>3, <2>4, <2>5, Zenon DEF Seeded
  <2>7. IsPeriodForm(g)
    BY <1>1, <2>4, PeriodFormField
  <2>8. IsPeriodForm(h)
    BY <2>2, <2>5, <2>7, PeriodFormField
  <2> QED BY <2>6, <2>8
<1> QED BY <1>1, <1>2

\* The page starts with nothing read.
LEMMA PeriodStart == RetentionInit => PeriodInv
<1> SUFFICES ASSUME RetentionInit PROVE PeriodInv
  OBVIOUS
<1>1. configured \in Nat /\ desired \in Nat
  BY PeriodsAssumption DEF RetentionInit
<1>2. retention = [data |-> NoData, error |-> FALSE, fetch |-> Asked]
  <2>1. PICK z : z = FALSE
    OBVIOUS
  <2>2. EmptyEntry = [data |-> NoData, error |-> z, fetch |-> NotAsked]
    BY <2>1, Zenon DEF EmptyEntry
  <2>3. [EmptyEntry EXCEPT !.fetch = Asked] = [data |-> NoData, error |-> z, fetch |-> Asked]
    BY <2>2, SMT
  <2> QED BY <2>1, <2>3, Zenon DEF RetentionInit
<1>3. IsEntry(retention)
  BY RetentionStart
<1>4. retention.data = NoData /\ retention.fetch.data = NoData
  BY <1>2 DEF Asked
<1>5. IsReply(retention.data) /\ IsReply(retention.fetch.data)
  BY <1>4, Zenon DEF IsReply
<1>6. IsPeriodForm(periodForm)
  BY PeriodFormShown DEF RetentionInit
<1>7. Listed(puts) /\ \A i \in DOMAIN puts : IsPut(puts[i])
  BY DEF RetentionInit, Listed
<1> QED BY <1>1, <1>3, <1>5, <1>6, <1>7 DEF PeriodInv

\* A put with one field changed.
LEMMA PutField ==
  ASSUME NEW p, IsPut(p), NEW x, NEW g
  PROVE  /\ g = [p EXCEPT !.answer = x] => IsPut(g)
         /\ g = [p EXCEPT !.live = x] => IsPut(g)
         /\ g = [p EXCEPT !.restart = x] => IsPut(g)
         /\ g = [p EXCEPT !.stored = x] /\ x \in Nat => IsPut(g)
<1>1. ASSUME g = [p EXCEPT !.answer = x] PROVE IsPut(g)
  <2>1. g = [sent |-> p.sent, answer |-> x, live |-> p.live, stored |-> p.stored, restart |-> p.restart]
    BY <1>1 DEF IsPut
  <2> QED BY <2>1 DEF IsPut
<1>2. ASSUME g = [p EXCEPT !.live = x] PROVE IsPut(g)
  <2>1. g = [sent |-> p.sent, answer |-> p.answer, live |-> x, stored |-> p.stored, restart |-> p.restart]
    BY <1>2 DEF IsPut
  <2> QED BY <2>1 DEF IsPut
<1>3. ASSUME g = [p EXCEPT !.restart = x] PROVE IsPut(g)
  <2>1. g = [sent |-> p.sent, answer |-> p.answer, live |-> p.live, stored |-> p.stored, restart |-> x]
    BY <1>3 DEF IsPut
  <2> QED BY <2>1 DEF IsPut
<1>4. ASSUME g = [p EXCEPT !.stored = x], x \in Nat PROVE IsPut(g)
  <2>1. g = [sent |-> p.sent, answer |-> p.answer, live |-> p.live, stored |-> x, restart |-> p.restart]
    BY <1>4 DEF IsPut
  <2> QED BY <1>4, <2>1 DEF IsPut
<1> QED BY <1>1, <1>2, <1>3, <1>4

\* The list of puts.
IsPuts(s) == Listed(s) /\ \A i \in DOMAIN s : IsPut(s[i])

\* One put of the list replaced.
LEMMA PutsReplaced ==
  ASSUME NEW s, IsPuts(s), NEW i \in DOMAIN s, NEW p, IsPut(p), NEW t, t = [s EXCEPT ![i] = p]
  PROVE  IsPuts(t)
<1>1. t = [j \in DOMAIN s |-> IF j = i THEN p ELSE s[j]]
  BY Zenon
<1>2. t = [j \in DOMAIN s |-> t[j]]
  BY <1>1
<1>3. Listed(t) /\ DOMAIN t = DOMAIN s
  BY <1>2, ListedMap DEF IsPuts
<1>4. \A j \in DOMAIN s : t[j] = IF j = i THEN p ELSE s[j]
  BY <1>1
<1> QED BY <1>3, <1>4 DEF IsPuts

\* A put is answered.
LEMMA PutsAnswered ==
  ASSUME NEW s, IsPuts(s), NEW i \in DOMAIN s, NEW x, NEW n \in Nat, NEW y
  PROVE  /\ IsPuts([s EXCEPT ![i].answer = x])
         /\ IsPuts([s EXCEPT ![i].answer = x, ![i].stored = n, ![i].restart = y])
<1>1. PICK a : a = [s[i] EXCEPT !.answer = x]
  OBVIOUS
<1>2. PICK b : b = [a EXCEPT !.stored = n]
  OBVIOUS
<1>3. PICK c : c = [b EXCEPT !.restart = y]
  OBVIOUS
<1>4. IsPut(s[i])
  BY DEF IsPuts
<1>5. IsPut(a)
  BY <1>1, <1>4, PutField
<1>6. IsPut(b)
  BY <1>2, <1>5, PutField
<1>7. IsPut(c)
  BY <1>3, <1>6, PutField
<1>8. [s EXCEPT ![i].answer = x] = [s EXCEPT ![i] = a]
  BY <1>1, Zenon
<1>9. [s EXCEPT ![i].answer = x, ![i].stored = n, ![i].restart = y] = [s EXCEPT ![i] = c]
  <2>1. PICK r : r = [s EXCEPT ![i] = a]
    OBVIOUS
  <2>2. r[i] = a
    BY <2>1
  <2>3. PICK q : q = [r EXCEPT ![i] = b]
    OBVIOUS
  <2>4. q[i] = b
    BY <2>1, <2>3
  <2>5. [s EXCEPT ![i].answer = x, ![i].stored = n, ![i].restart = y] = [q EXCEPT ![i].restart = y]
    <3>1. [s EXCEPT ![i].answer = x] = r
      BY <1>8, <2>1
    <3>2. [r EXCEPT ![i].stored = n] = q
      BY <1>2, <2>2, <2>3, Zenon
    <3> QED BY <3>1, <3>2, Zenon
  <2>6. [q EXCEPT ![i].restart = y] = [q EXCEPT ![i] = c]
    BY <1>3, <2>4, Zenon
  <2>7. [q EXCEPT ![i] = c] = [s EXCEPT ![i] = c]
    BY <2>1, <2>3
  <2> QED BY <2>5, <2>6, <2>7, Zenon
<1>10. IsPuts([s EXCEPT ![i] = a]) /\ IsPuts([s EXCEPT ![i] = c])
  BY <1>5, <1>7, PutsReplaced
<1> QED BY <1>8, <1>9, <1>10, Zenon

\* The puts whose form is gone are no longer listened to.
LEMMA PutsLeft ==
  ASSUME NEW s, IsPuts(s), NEW m, NEW t, t = [i \in DOMAIN s |-> [s[i] EXCEPT !.live = @ /\ m]]
  PROVE  IsPuts(t)
<1>1. t = [j \in DOMAIN s |-> t[j]]
  BY Zenon
<1>2. Listed(t) /\ DOMAIN t = DOMAIN s
  BY <1>1, ListedMap DEF IsPuts
<1>3. ASSUME NEW j \in DOMAIN s PROVE IsPut(t[j])
  <2>1. PICK x : x = (s[j].live /\ m)
    OBVIOUS
  <2>2. t[j] = [s[j] EXCEPT !.live = x]
    BY <2>1, Zenon
  <2> QED BY <2>2, PutField DEF IsPuts
<1> QED BY <1>2, <1>3 DEF IsPuts

\* What the tab shows of an entry.
LEMMA FormKept ==
  ASSUME NEW q, IsReply(q.data), IsPeriodForm(periodForm)
  PROVE  IsPeriodForm(FormAfter(q))
<1>1. CASE q.error \/ q.data = NoData
  BY <1>1, PeriodFormShown DEF FormAfter
<1>2. CASE ~(q.error \/ q.data = NoData)
  <2>1. IsPeriodForm(Seeded(q.data))
    BY <1>2, PeriodFormShown DEF IsReply
  <2>2. FormAfter(q) \in {periodForm, Seeded(q.data)}
    BY <1>2 DEF FormAfter
  <2> QED BY <2>1, <2>2
<1> QED BY <1>1, <1>2

\* A period that the server takes is a text of a number of minutes.
LEMMA PeriodServed ==
  ASSUME PeriodInv, NEW i \in DOMAIN puts, ServePeriod(i)
  PROVE  desired' \in Nat /\ IsPuts(puts')
<1>0. IsPuts(puts) /\ desired \in Nat /\ IsText(puts[i].sent)
  BY DEF PeriodInv, IsPuts, IsPut
<1>1. ASSUME NEW a, ServerParses(puts[i].sent), desired' = ParsePeriod(puts[i].sent),
             puts' = [puts EXCEPT ![i].answer = a, ![i].stored = desired', ![i].restart = RestartRequired(desired')]
      PROVE  desired' \in Nat /\ IsPuts(puts')
  <2>1. desired' \in Nat
    BY <1>0, <1>1, PeriodIsNat DEF ServerParses
  <2>2. PICK y : y = RestartRequired(desired')
    OBVIOUS
  <2>3. puts' = [puts EXCEPT ![i].answer = a, ![i].stored = desired', ![i].restart = y]
    BY <1>1, <2>2, Zenon
  <2>4. PICK n \in Nat : n = desired'
    BY <2>1
  <2>5. IsPuts([puts EXCEPT ![i].answer = a, ![i].stored = n, ![i].restart = y])
    BY <1>0, PutsAnswered
  <2> QED BY <2>1, <2>3, <2>4, <2>5, Zenon
<1>2. CASE desired' = desired /\ puts' = [puts EXCEPT ![i].answer = "refused"]
  <2>1. 0 \in Nat
    OBVIOUS
  <2> QED BY <1>0, <1>2, <2>1, PutsAnswered
<1> QED BY <1>1, <1>2 DEF ServePeriod

\* A stored period is shown in the field.
LEMMA PeriodShown ==
  ASSUME PeriodInv, NEW i \in DOMAIN puts, PeriodStored(i)
  PROVE  IsReply(retention'.data) /\ IsReply(retention'.fetch.data) /\ IsPeriodForm(periodForm') /\ IsPuts(puts')
<1>0. /\ IsPuts(puts) /\ IsEntry(retention) /\ IsPeriodForm(periodForm)
      /\ IsReply(retention.data) /\ IsReply(retention.fetch.data)
      /\ puts[i].stored \in Nat
  BY DEF PeriodInv, IsPuts, IsPut
<1>1. PICK q : /\ q = IF retention.data = NoData THEN retention
                   ELSE SetQueryData(retention, [retention.data EXCEPT !.desired = puts[i].stored,
                                                                        !.restart = {puts[i].restart}])
               /\ retention' = Invalidate(q)
  BY DEF PeriodStored
<1>2. IsEntry(q) /\ IsReply(q.data) /\ q.fetch = retention.fetch
  <2>1. CASE retention.data = NoData
    BY <1>0, <1>1, <2>1
  <2>2. CASE retention.data # NoData
    <3>0. PICK r : r = {puts[i].restart}
      OBVIOUS
    <3>1. PICK d : d = [retention.data EXCEPT !.desired = puts[i].stored, !.restart = r]
      OBVIOUS
    <3>2. q = SetQueryData(retention, d)
      BY <1>1, <2>2, <3>0, <3>1, Zenon
    <3>3. q = [data |-> d, error |-> FALSE, fetch |-> retention.fetch]
      BY <1>0, <3>2, CacheFacts
    <3>4. d = [version |-> retention.data.version, configured |-> retention.data.configured,
               desired |-> puts[i].stored, restart |-> r]
      BY <1>0, <2>2, <3>1 DEF IsReply
    <3>5. IsReply(d)
      BY <1>0, <2>2, <3>4 DEF IsReply
    <3>6. IsEntry(q)
      BY <1>0, <3>3 DEF IsEntry
    <3>7. q.data = d /\ q.fetch = retention.fetch
      BY <3>3
    <3> QED BY <3>5, <3>6, <3>7
  <2> QED BY <2>1, <2>2
<1>3. retention' = [data |-> q.data, error |-> q.error, fetch |-> IF FirstRead(q) THEN q.fetch ELSE Asked]
  BY <1>1, <1>2, CacheFacts
<1>4. retention'.data = q.data /\ (retention'.fetch = retention.fetch \/ retention'.fetch.data = NoData)
  BY <1>2, <1>3 DEF Asked
<1>5. IsReply(retention'.data) /\ IsReply(retention'.fetch.data)
  BY <1>0, <1>2, <1>4, Zenon DEF IsReply
<1>6. IsPeriodForm(FormAfter(retention'))
  BY <1>0, <1>5, FormKept
<1>7. IsPeriodForm(periodForm')
  <2>1. PICK now : now = FormAfter(retention')
    OBVIOUS
  <2>2. PICK z : z = ~puts[i].restart
    OBVIOUS
  <2>3. IsText(Spelled(puts[i].stored))
    BY <1>0, SpelledText
  <2>4. IsPeriodForm([now EXCEPT !.period = Spelled(puts[i].stored), !.saved = z])
    BY <1>6, <2>1, <2>3, PeriodFormFields
  <2>5. periodForm' = IF ~puts[i].live THEN now
               ELSE [now EXCEPT !.period = Spelled(puts[i].stored), !.saved = ~puts[i].restart]
    BY <2>1, Zenon DEF PeriodStored
  <2>6. periodForm' = now \/ periodForm' = [now EXCEPT !.period = Spelled(puts[i].stored), !.saved = z]
    BY <2>2, <2>5, Zenon
  <2> QED BY <1>6, <2>1, <2>4, <2>6, Zenon
<1>8. IsPuts(puts')
  <2>1. puts' = [puts EXCEPT ![i].answer = "done"] /\ 0 \in Nat
    BY DEF PeriodStored
  <2> QED BY <1>0, <2>1, PutsAnswered
<1> QED BY <1>5, <1>7, <1>8

\* What is submitted is what the field says.
LEMMA PeriodSubmitted ==
  ASSUME PeriodInv, SubmitPeriod
  PROVE  IsPeriodForm(periodForm') /\ IsPuts(puts')
<1>0. IsPuts(puts) /\ IsPeriodForm(periodForm)
  BY DEF PeriodInv, IsPuts
<1>1. PICK z : z = FALSE
  OBVIOUS
<1>2. PICK y : y = TRUE
  OBVIOUS
<1>3. CASE ValidPeriod(periodForm.period)
  <2>1. /\ periodForm' = [periodForm EXCEPT !.error = FALSE, !.saved = FALSE]
        /\ puts' = Append(puts, NewPut(NormalizePeriod(periodForm.period)))
    BY <1>3, Zenon DEF SubmitPeriod
  <2>2. periodForm' = [periodForm EXCEPT !.error = z, !.saved = z]
    BY <1>1, <2>1, Zenon
  <2>3. IsText(periodForm.period) /\ IsPeriod(periodForm.period)
    BY <1>0, <1>3 DEF IsPeriodForm, ValidPeriod
  <2>4. IsPeriodForm(periodForm')
    BY <1>0, <2>2, <2>3, PeriodFormFields
  <2>5. PICK u : u = NormalizePeriod(periodForm.period)
    OBVIOUS
  <2>6. IsText(u)
    BY <2>3, <2>5, NormalizedText
  <2>7. PICK p : p = NewPut(u)
    OBVIOUS
  <2>8. p = [sent |-> u, answer |-> "none", live |-> y, stored |-> 0, restart |-> z]
    BY <1>1, <1>2, <2>7, Zenon DEF NewPut
  <2>9. IsPut(p)
    BY <2>6, <2>8 DEF IsPut
  <2>10. puts' = Append(puts, p)
    BY <2>1, <2>5, <2>7
  <2> QED BY <1>0, <2>4, <2>9, <2>10, ListedAppend DEF IsPuts
<1>4. CASE ~ValidPeriod(periodForm.period)
  <2>1. periodForm' = [periodForm EXCEPT !.error = TRUE, !.saved = FALSE] /\ puts' = puts
    BY <1>4, Zenon DEF SubmitPeriod
  <2>2. periodForm' = [periodForm EXCEPT !.error = y, !.saved = z]
    BY <1>1, <1>2, <2>1, Zenon
  <2>3. IsText(periodForm.period)
    BY <1>0 DEF IsPeriodForm
  <2>4. IsPeriodForm([periodForm EXCEPT !.error = y, !.saved = z])
    BY <1>0, <2>3, PeriodFormFields
  <2> QED BY <1>0, <2>1, <2>2, <2>4, Zenon
<1> QED BY <1>3, <1>4

\* Every step keeps the invariant of the retention page.
LEMMA PeriodStep == PeriodInv /\ [RetentionNext]_retentionVars => PeriodInv'
<1> SUFFICES ASSUME PeriodInv, [RetentionNext]_retentionVars PROVE PeriodInv'
  OBVIOUS
<1>0. /\ configured \in Nat /\ desired \in Nat
      /\ IsEntry(retention) /\ IsReply(retention.data) /\ IsReply(retention.fetch.data)
      /\ IsPeriodForm(periodForm) /\ IsPuts(puts)
  BY DEF PeriodInv, IsPuts
<1>a. IsEntry(retention')
  BY <1>0, RetentionStep
<1> SUFFICES /\ configured' \in Nat /\ desired' \in Nat
             /\ IsReply(retention'.data) /\ IsReply(retention'.fetch.data)
             /\ IsPeriodForm(periodForm') /\ IsPuts(puts')
  BY <1>a DEF PeriodInv, IsPuts
<1>1. CASE UNCHANGED retentionVars
  BY <1>0, <1>1 DEF retentionVars
<1>2. CASE ServeRetention
  <2>1. PICK d \in {Reply, NoData} : retention' = AnswerFetch(retention, d)
    BY <1>2 DEF ServeRetention
  <2>2. retention' = [data |-> retention.data, error |-> retention.error, fetch |-> [step |-> "answered", data |-> d]]
    BY <1>0, <2>1, CacheFacts
  <2>3. retention'.data = retention.data /\ retention'.fetch.data = d
    BY <2>2
  <2>4. IsReply(d)
    <3>1. IsReply(Reply)
      <4>1. PICK r : r = IF desired = 0 THEN {} ELSE {RestartRequired(desired)}
        OBVIOUS
      <4>2. Reply = [version |-> 1, configured |-> configured, desired |-> desired, restart |-> r]
        BY <4>1, Zenon DEF Reply
      <4> QED BY <1>0, <4>2 DEF IsReply
    <3>2. IsReply(NoData)
      BY DEF IsReply
    <3> QED BY <2>1, <3>1, <3>2
  <2>5. UNCHANGED <<configured, desired, periodForm, puts>>
    BY <1>2 DEF ServeRetention
  <2> QED BY <1>0, <2>3, <2>4, <2>5
<1>3. CASE RetentionArrives
  <2>1. /\ retention' = Arrive(retention) /\ periodForm' = FormAfter(retention')
        /\ puts' = [i \in DOMAIN puts |-> [puts[i] EXCEPT !.live = @ /\ periodForm'.mounted]]
        /\ UNCHANGED <<configured, desired>>
    BY <1>3, Zenon DEF RetentionArrives
  <2>2. retention'.fetch = NotAsked /\ retention'.data \in {retention.data, retention.fetch.data}
    BY <1>0, <2>1, Arrival
  <2>3. IsReply(retention'.data)
    BY <1>0, <2>2
  <2>4. retention'.fetch.data = NoData
    BY <2>2 DEF NotAsked
  <2>5. IsReply(retention'.fetch.data)
    BY <2>4, Zenon DEF IsReply
  <2>6. IsPeriodForm(periodForm')
    BY <1>0, <2>1, <2>3, FormKept
  <2>7. IsPuts(puts')
    BY <1>0, <2>1, PutsLeft, Zenon
  <2> QED BY <1>0, <2>1, <2>3, <2>5, <2>6, <2>7
<1>4. CASE PollRetention
  <2>1. retention' = Refetch(retention) /\ retention.fetch = NotAsked
    BY <1>4 DEF PollRetention
  <2>2. retention' = [data |-> retention.data, error |-> retention.error, fetch |-> Asked]
    BY <1>0, <2>1, CacheFacts
  <2>3. retention'.data = retention.data /\ retention'.fetch.data = NoData
    BY <2>2 DEF Asked
  <2>4. IsReply(retention'.fetch.data)
    BY <2>3, Zenon DEF IsReply
  <2>5. UNCHANGED <<configured, desired, periodForm, puts>>
    BY <1>4 DEF PollRetention
  <2> QED BY <1>0, <2>3, <2>4, <2>5
<1>5. CASE SetPeriod
  <2>1. PICK t \in Texts \cup Presets : periodForm' = [periodForm EXCEPT !.period = t, !.error = FALSE, !.saved = FALSE]
    BY <1>5, Zenon DEF SetPeriod
  <2>2. IsText(t)
    BY PeriodsAssumption DEF IsText, Listed
  <2>3. PICK z : z = FALSE
    OBVIOUS
  <2>4. periodForm' = [periodForm EXCEPT !.period = t, !.error = z, !.saved = z]
    BY <2>1, <2>3, Zenon
  <2>5. IsPeriodForm(periodForm')
    BY <1>0, <2>2, <2>4, PeriodFormFields
  <2>6. UNCHANGED <<configured, desired, retention, puts>>
    BY <1>5 DEF SetPeriod
  <2> QED BY <1>0, <2>5, <2>6
<1>6. CASE SubmitPeriod
  <2>1. UNCHANGED <<configured, desired, retention>>
    BY <1>6 DEF SubmitPeriod
  <2> QED BY <1>0, <1>6, <2>1, PeriodSubmitted
<1>7. ASSUME NEW i \in DOMAIN puts, ServePeriod(i)
      PROVE  /\ configured' \in Nat /\ desired' \in Nat
             /\ IsReply(retention'.data) /\ IsReply(retention'.fetch.data)
             /\ IsPeriodForm(periodForm') /\ IsPuts(puts')
  <2>1. UNCHANGED <<configured, retention, periodForm>>
    BY <1>7 DEF ServePeriod
  <2> QED BY <1>0, <1>7, <2>1, PeriodServed
<1>8. ASSUME NEW i \in DOMAIN puts, PeriodStored(i)
      PROVE  /\ configured' \in Nat /\ desired' \in Nat
             /\ IsReply(retention'.data) /\ IsReply(retention'.fetch.data)
             /\ IsPeriodForm(periodForm') /\ IsPuts(puts')
  <2>1. UNCHANGED <<configured, desired>>
    BY <1>8 DEF PeriodStored
  <2> QED BY <1>0, <1>8, <2>1, PeriodShown
<1>9. ASSUME NEW i \in DOMAIN puts, PeriodRefused(i)
      PROVE  /\ configured' \in Nat /\ desired' \in Nat
             /\ IsReply(retention'.data) /\ IsReply(retention'.fetch.data)
             /\ IsPeriodForm(periodForm') /\ IsPuts(puts')
  <2>1. UNCHANGED <<configured, desired, retention>>
    BY <1>9 DEF PeriodRefused
  <2>2. PICK y : y = TRUE
    OBVIOUS
  <2>3. periodForm' = IF puts[i].live THEN [periodForm EXCEPT !.error = y] ELSE periodForm
    BY <1>9, <2>2, Zenon DEF PeriodRefused
  <2>4. IsPeriodForm(periodForm')
    BY <1>0, <2>3, PeriodFormField
  <2>5. puts' = [puts EXCEPT ![i].answer = "done"] /\ 0 \in Nat
    BY <1>9 DEF PeriodRefused
  <2>6. IsPuts(puts')
    BY <1>0, <2>5, PutsAnswered
  <2> QED BY <1>0, <2>1, <2>4, <2>6
<1>10. CASE Restart
  <2>1. configured' = desired /\ UNCHANGED <<desired, retention, periodForm, puts>>
    BY <1>10 DEF Restart
  <2> QED BY <1>0, <2>1
<1>11. CASE StoredElsewhere
  <2>1. desired' \in OtherPeriods /\ UNCHANGED <<configured, retention, periodForm, puts>>
    BY <1>11 DEF StoredElsewhere
  <2> QED BY <1>0, <2>1, PeriodsAssumption
<1> QED BY <1>1, <1>2, <1>3, <1>4, <1>5, <1>6, <1>7, <1>8, <1>9, <1>10, <1>11 DEF RetentionNext

\* What is sent of what is typed is the same period.
LEMMA PeriodTruth == PeriodInv => NormalizedIsTheSame
<1> SUFFICES ASSUME PeriodInv, ValidPeriod(periodForm.period)
             PROVE LET sent == NormalizePeriod(periodForm.period) IN
        /\ SamePeriod(sent, periodForm.period) /\ NormalizePeriod(sent) = sent
        /\ ParsePeriod(sent) % DAY = 0 => sent = Spelled(ParsePeriod(sent))
  BY DEF NormalizedIsTheSame
<1>1. IsText(periodForm.period) /\ IsPeriod(periodForm.period)
  BY DEF PeriodInv, IsPeriodForm, ValidPeriod
<1> QED BY <1>1, NormalizedText

-----------------------------------------------------------------------------
(***************************************************************************)
(* The catalog editor: the shape of its state.                             *)
(***************************************************************************)

\* What is sent of the domains that are typed: each that is not blank, as it is spelled.
LEMMA DomainsParsed ==
  ASSUME NEW text, Listed(text)
  PROVE  /\ Listed(ParseDomains(text))
         /\ ToSet(ParseDomains(text)) = {Lower(Trim(text[i])) : i \in DOMAIN text} \ {""}
<1> DEFINE s == [i \in DOMAIN text |-> Lower(Trim(text[i]))]
           R == ToSet(s)
           n == Len(text)
           D == 1..n
           T == Seq(R)
           st == [p \in T \X D |-> IF s[p[2]] = "" \/ Contains(p[1], s[p[2]]) THEN p[1] ELSE Append(p[1], s[p[2]])]
           h == CHOOSE f : f = [t \in SUBSET D |->
                  IF t = {} THEN <<>>
                  ELSE IF s[Max(t)] = "" \/ Contains(f[t \ {Max(t)}], s[Max(t)]) THEN f[t \ {Max(t)}]
                       ELSE Append(f[t \ {Max(t)}], s[Max(t)])]
<1>0. /\ D = DOMAIN text /\ n \in Nat /\ \A i \in D : i \in Nat /\ i # 0
      /\ IsFiniteSet(D) /\ D \subseteq Int
  <2>1. D = DOMAIN text /\ n \in Nat /\ \A i \in D : i \in Nat /\ i # 0
    BY ListedFacts
  <2>2. 1 \in Int /\ n \in Int /\ D \subseteq Int
    BY <2>1
  <2>3. IsFiniteSet(D)
    BY <2>2, FS_Interval
  <2> QED BY <2>1, <2>2, <2>3
<1>s. D = DOMAIN s /\ \A i \in D : s[i] \in R /\ s[i] = Lower(Trim(text[i]))
  <2> HIDE DEF D
  <2> QED BY <1>0 DEF ToSet
<1>r. R = {s[i] : i \in D} /\ R = {Lower(Trim(text[i])) : i \in DOMAIN text}
  <2> HIDE DEF D
  <2> QED BY <1>0 DEF ToSet
<1>p. ParseDomains(text) =
        FoldLeft(LAMBDA kept, w : IF w = "" \/ Contains(kept, w) THEN kept ELSE Append(kept, w), <<>>, s)
  BY Zenon DEF ParseDomains
<1> HIDE DEF s
<1>1. \E f : f = [t \in SUBSET D |->
                  IF t = {} THEN <<>>
                  ELSE IF s[Max(t)] = "" \/ Contains(f[t \ {Max(t)}], s[Max(t)]) THEN f[t \ {Max(t)}]
                       ELSE Append(f[t \ {Max(t)}], s[Max(t)])]
  <2> HIDE DEF D, R, n
  <2>0. \A i \in D : s[i] \in R
    BY <1>s
  <2>a. \A p \in T \X D : p[1] \in T /\ p[2] \in D /\ Append(p[1], s[p[2]]) \in T
    BY <2>0
  <2>b. \A p \in T \X D : (IF s[p[2]] = "" \/ Contains(p[1], s[p[2]]) THEN p[1] ELSE Append(p[1], s[p[2]])) \in T
    <3> HIDE DEF T
    <3> QED BY <2>a
  <2>c. st \in [T \X D -> T]
    <3> HIDE DEF T
    <3> QED BY <2>b, Zenon
  <2>1. <<>> \in T
    OBVIOUS
  <2>2. \A a \in T, i \in D : st[<<a, i>>] = IF s[i] = "" \/ Contains(a, s[i]) THEN a ELSE Append(a, s[i])
    OBVIOUS
  <2> HIDE DEF st, T
  <2>3. PICK b : b = <<>>
    OBVIOUS
  <2>4. PICK f : Folded(f, st, b, T, D)
    BY <1>0, <2>1, <2>3, <2>c, FoldExists
  <2>5. \A t \in SUBSET D : t # {} => Max(t) \in D
    <3> SUFFICES ASSUME NEW t \in SUBSET D, t # {} PROVE Max(t) \in D
      OBVIOUS
    <3>1. IsFiniteSet(t) /\ t \subseteq Int
      BY <1>0, FS_Subset
    <3> QED BY <3>1, MaxExists
  <2>6. \A t \in SUBSET D : f[t \ {Max(t)}] \in T
    BY <2>4 DEF Folded
  <2>7. \A t \in SUBSET D :
           f[t] = IF t = {} THEN b
                  ELSE IF s[Max(t)] = "" \/ Contains(f[t \ {Max(t)}], s[Max(t)]) THEN f[t \ {Max(t)}]
                       ELSE Append(f[t \ {Max(t)}], s[Max(t)])
    BY <2>2, <2>4, <2>5, <2>6 DEF Folded
  <2>8. f = [t \in SUBSET D |-> f[t]]
    BY <2>4 DEF Folded
  <2>9. f = [t \in SUBSET D |->
                  IF t = {} THEN <<>>
                  ELSE IF s[Max(t)] = "" \/ Contains(f[t \ {Max(t)}], s[Max(t)]) THEN f[t \ {Max(t)}]
                       ELSE Append(f[t \ {Max(t)}], s[Max(t)])]
    BY <2>3, <2>7, <2>8, Zenon
  <2> QED BY <2>9
<1>2. h = [t \in SUBSET D |->
                  IF t = {} THEN <<>>
                  ELSE IF s[Max(t)] = "" \/ Contains(h[t \ {Max(t)}], s[Max(t)]) THEN h[t \ {Max(t)}]
                       ELSE Append(h[t \ {Max(t)}], s[Max(t)])]
  <2> HIDE DEF D
  <2> QED BY <1>1
<1>3. ParseDomains(text) = h[D]
  <2> HIDE DEF D
  <2> QED BY <1>p, <1>s DEF FoldLeft, MapThenFoldSet
<1> HIDE DEF h
<1>4. h[{}] = <<>>
  <2> HIDE DEF D
  <2>1. {} \in SUBSET D
    OBVIOUS
  <2> QED BY <1>2, <2>1
<1>5. \A k \in D : h[1..k] = IF s[k] = "" \/ Contains(h[1..(k - 1)], s[k]) THEN h[1..(k - 1)]
                             ELSE Append(h[1..(k - 1)], s[k])
  <2> SUFFICES ASSUME NEW k \in D
               PROVE  h[1..k] = IF s[k] = "" \/ Contains(h[1..(k - 1)], s[k]) THEN h[1..(k - 1)]
                                ELSE Append(h[1..(k - 1)], s[k])
    OBVIOUS
  <2>1. Max(1..k) = k /\ (1..k) \ {k} = 1..(k - 1) /\ 1..k # {}
    BY <1>0, MaxOfFirst
  <2>2. 1..k \in SUBSET D
    BY <1>0
  <2>3. PICK t \in SUBSET D : t = 1..k
    BY <2>2
  <2>4. t # {} /\ Max(t) = k /\ t \ {Max(t)} = 1..(k - 1)
    BY <2>1, <2>3
  <2> HIDE DEF D
  <2>5. h[t] = IF s[k] = "" \/ Contains(h[1..(k - 1)], s[k]) THEN h[1..(k - 1)]
               ELSE Append(h[1..(k - 1)], s[k])
    BY <1>2, <2>4
  <2> QED BY <2>3, <2>5
<1> DEFINE First(k) == {s[i] : i \in 1..k} \ {""}
           P == {k \in Nat : k <= n => h[1..k] \in Seq(R) /\ ToSet(h[1..k]) = First(k)}
<1>6. 0 \in P
  <2>1. 1..0 = {}
    OBVIOUS
  <2>2. h[1..0] = <<>>
    BY <1>4, <2>1
  <2>3. PICK b : b = h[1..0]
    OBVIOUS
  <2>4. b \in Seq(R) /\ ToSet(b) = {}
    <3> HIDE DEF R
    <3> QED BY <2>2, <2>3 DEF ToSet
  <2>5. First(0) = {}
    BY <2>1
  <2> QED BY <2>3, <2>4, <2>5
<1>7. ASSUME NEW j \in Nat, j \in P PROVE j + 1 \in P
  <2> HIDE DEF First, R
  <2> SUFFICES ASSUME j + 1 <= n
               PROVE  h[1..(j + 1)] \in Seq(R) /\ ToSet(h[1..(j + 1)]) = First(j + 1)
    OBVIOUS
  <2>1. PICK k : k = j + 1
    OBVIOUS
  <2>2. k \in D /\ k - 1 = j /\ k \in Nat
    BY <1>0, <2>1
  <2>3. PICK a : a = h[1..j]
    OBVIOUS
  <2>4. a \in Seq(R) /\ ToSet(a) = First(j)
    BY <1>0, <1>7, <2>3
  <2>5. h[1..k] = IF s[k] = "" \/ Contains(a, s[k]) THEN a ELSE Append(a, s[k])
    BY <1>5, <2>2, <2>3
  <2>6. s[k] \in R
    BY <1>s, <2>2
  <2>7. First(k) = First(j) \cup ({s[k]} \ {""})
    <3>1. \A i : i \in 1..k <=> i \in 1..j \/ i = k
      BY <2>1, <2>2
    <3> QED BY <3>1 DEF First
  <2> HIDE DEF D, P, n
  <2>8. Contains(a, s[k]) <=> s[k] \in ToSet(a)
    <3>1. DOMAIN a = 1..Len(a)
      BY <2>4
    <3> QED BY <3>1 DEF Contains, ToSet
  <2>9. CASE s[k] = "" \/ Contains(a, s[k])
    <3>1. First(k) = First(j)
      BY <2>4, <2>7, <2>8, <2>9
    <3> QED BY <2>1, <2>4, <2>5, <2>9, <3>1
  <2>10. CASE ~(s[k] = "" \/ Contains(a, s[k]))
    <3>1. h[1..k] = Append(a, s[k])
      BY <2>5, <2>10
    <3>2. Append(a, s[k]) \in Seq(R)
      BY <2>4, <2>6
    <3>3. ToSet(Append(a, s[k])) = ToSet(a) \cup {s[k]}
      BY <2>4, ToSetAppend
    <3>4. First(k) = First(j) \cup {s[k]}
      BY <2>7, <2>10
    <3> QED BY <2>1, <2>4, <3>1, <3>2, <3>3, <3>4
  <2> QED BY <2>9, <2>10
<1>8. Nat \subseteq P
  <2> HIDE DEF P
  <2> QED BY <1>6, <1>7, NatSetInduction
<1>9. ParseDomains(text) \in Seq(R) /\ ToSet(ParseDomains(text)) = First(n)
  <2>1. n \in P
    BY <1>0, <1>8
  <2>2. n <= n
    BY <1>0
  <2> HIDE DEF First, R
  <2> QED BY <1>3, <2>1, <2>2
<1>10. Listed(ParseDomains(text))
  <2> HIDE DEF R
  <2> QED BY <1>9, SeqListed
<1>11. First(n) = R \ {""}
  BY <1>r
<1> QED BY <1>9, <1>10, <1>11, <1>r

\* Rows whose domains are lists of lines, and a catalog with nothing to trim.
RowSpelled(r) == {"domains", "mainDomains"} \subseteq DOMAIN r /\ Listed(r.domains) /\ Listed(r.mainDomains)
RowsSpelled(rows) == \A i \in DOMAIN rows : RowSpelled(rows[i])
CatalogPlain(c) == \A i \in DOMAIN c : PlainService(c[i])

\* Spelling anew what was spelled so already changes nothing, of any word.
LEMMA Spellings ==
  ASSUME NEW w
  PROVE  /\ Lower(Lower(w)) = Lower(w) /\ Trim(Trim(w)) = Trim(w)
         /\ Lower(Lower(Trim(w))) = Lower(Trim(w)) /\ Trim(Lower(Trim(w))) = Lower(Trim(w))
<1>1. CASE w \in DOMAIN LOWER \cup DOMAIN TRIMMED
  BY <1>1, SpellingsAssumption
<1>2. CASE w \notin DOMAIN LOWER \cup DOMAIN TRIMMED
  <2>1. Lower(w) = w /\ Trim(w) = w
    BY <1>2 DEF Lower, Trim
  <2> QED BY <2>1
<1> QED BY <1>1, <1>2

\* What is parsed of lines has nothing to trim.
LEMMA ParsedPlain ==
  ASSUME NEW text, Listed(text)
  PROVE  PlainDomains(ParseDomains(text))
<1>1. PICK r : r = ParseDomains(text)
  OBVIOUS
<1>2. Listed(r) /\ ToSet(r) = {Lower(Trim(text[i])) : i \in DOMAIN text} \ {""}
  BY <1>1, DomainsParsed
<1>3. ASSUME NEW i \in DOMAIN r PROVE Trim(r[i]) = r[i] /\ Lower(r[i]) # ""
  <2>1. r[i] \in {Lower(Trim(text[j])) : j \in DOMAIN text} \ {""}
    BY <1>2 DEF ToSet
  <2>2. PICK j \in DOMAIN text : r[i] = Lower(Trim(text[j])) /\ r[i] # ""
    BY <2>1
  <2>3. PICK w : w = text[j]
    OBVIOUS
  <2>4. Lower(Lower(Trim(w))) = Lower(Trim(w)) /\ Trim(Lower(Trim(w))) = Lower(Trim(w))
    BY Spellings
  <2> QED BY <2>2, <2>3, <2>4
<1> QED BY <1>1, <1>2, <1>3 DEF PlainDomains, Listed

\* Reading plain domains back from the form keeps what is counted under them.
LEMMA ParsedMeans ==
  ASSUME NEW names, PlainDomains(names)
  PROVE  {NormalDomain(d) : d \in ToSet(ParseDomains(names))} = {NormalDomain(d) : d \in ToSet(names)}
<1>0. Listed(names) /\ \A i \in DOMAIN names : Trim(names[i]) = names[i] /\ Lower(names[i]) # ""
  BY DEF PlainDomains, Listed
<1>1. ToSet(ParseDomains(names)) = {Lower(Trim(names[i])) : i \in DOMAIN names} \ {""}
  BY <1>0, DomainsParsed
<1>2. \A i \in DOMAIN names : Lower(Trim(names[i])) = Lower(names[i]) /\ Lower(names[i]) # ""
  BY <1>0
<1>3. ToSet(ParseDomains(names)) = {Lower(names[i]) : i \in DOMAIN names}
  BY <1>1, <1>2
<1>4. \A w : NormalDomain(Lower(w)) = NormalDomain(w)
  BY Spellings DEF NormalDomain
<1>5. ToSet(names) = {names[i] : i \in DOMAIN names}
  BY DEF ToSet
<1>6. \A x : x \in {NormalDomain(d) : d \in ToSet(ParseDomains(names))} <=> \E i \in DOMAIN names : x = NormalDomain(names[i])
  BY <1>3, <1>4
<1>7. \A x : x \in {NormalDomain(d) : d \in ToSet(names)} <=> \E i \in DOMAIN names : x = NormalDomain(names[i])
  BY <1>5
<1> QED BY <1>6, <1>7

\* The rows of a catalog.
LEMMA FormFields ==
  ASSUME NEW c, NEW i \in DOMAIN c
  PROVE  CatalogToForm(c)[i] = [name |-> c[i].name, label |-> c[i].label, domains |-> c[i].domains,
            mainDomains |-> c[i].main_domains, country |-> c[i].country, enabled |-> c[i].enabled]
<1>1. CatalogToForm(c)[i] = [NewServiceForm EXCEPT !.name = c[i].name, !.label = c[i].label, !.domains = c[i].domains,
            !.mainDomains = c[i].main_domains, !.country = c[i].country, !.enabled = c[i].enabled]
  BY DEF CatalogToForm
<1> QED BY <1>1 DEF NewServiceForm

\* The rows of a plain catalog have lists of domains.
LEMMA FormSpelled ==
  ASSUME NEW c, CatalogPlain(c)
  PROVE  RowsSpelled(CatalogToForm(c))
<1>1. DOMAIN CatalogToForm(c) = DOMAIN c
  BY DEF CatalogToForm
<1>2. ASSUME NEW i \in DOMAIN c PROVE RowSpelled(CatalogToForm(c)[i])
  <2>1. PICK r : r = CatalogToForm(c)[i]
    OBVIOUS
  <2>2. r = [name |-> c[i].name, label |-> c[i].label, domains |-> c[i].domains,
             mainDomains |-> c[i].main_domains, country |-> c[i].country, enabled |-> c[i].enabled]
    BY <2>1, FormFields
  <2>3. r.domains = c[i].domains /\ r.mainDomains = c[i].main_domains /\ {"domains", "mainDomains"} \subseteq DOMAIN r
    BY <2>2
  <2>4. PlainDomains(c[i].domains) /\ PlainDomains(c[i].main_domains)
    BY DEF CatalogPlain, PlainService
  <2>5. Listed(r.domains) /\ Listed(r.mainDomains)
    BY <2>3, <2>4 DEF PlainDomains, Listed
  <2> QED BY <2>1, <2>3, <2>5 DEF RowSpelled
<1> QED BY <1>1, <1>2 DEF RowsSpelled

\* What is sent of rows is plain.
LEMMA SentPlain ==
  ASSUME NEW rows, RowsSpelled(rows)
  PROVE  CatalogPlain(FormToServices(rows))
<1>1. DOMAIN FormToServices(rows) = DOMAIN rows
  BY DEF FormToServices
<1>2. ASSUME NEW i \in DOMAIN rows PROVE PlainService(FormToServices(rows)[i])
  <2>1. PICK s : s = FormToServices(rows)[i]
    OBVIOUS
  <2>2. s = [name |-> Trim(rows[i].name), label |-> Trim(rows[i].label), domains |-> ParseDomains(rows[i].domains),
             main_domains |-> ParseDomains(rows[i].mainDomains), country |-> rows[i].country,
             enabled |-> rows[i].enabled]
    BY <2>1 DEF FormToServices
  <2>3. PlainDomains(ParseDomains(rows[i].domains)) /\ PlainDomains(ParseDomains(rows[i].mainDomains))
    BY ParsedPlain DEF RowsSpelled, RowSpelled
  <2>4. \A w : Trim(Trim(w)) = Trim(w)
    BY Spellings
  <2>5. PICK n, l, d, m : n = Trim(rows[i].name) /\ l = Trim(rows[i].label) /\ d = ParseDomains(rows[i].domains)
                          /\ m = ParseDomains(rows[i].mainDomains)
    OBVIOUS
  <2>6. s = [name |-> n, label |-> l, domains |-> d, main_domains |-> m, country |-> rows[i].country,
             enabled |-> rows[i].enabled]
    BY <2>2, <2>5
  <2>7. Trim(n) = n /\ Trim(l) = l /\ PlainDomains(d) /\ PlainDomains(m)
    BY <2>3, <2>4, <2>5
  <2>8. PlainService(s)
    BY <2>6, <2>7 DEF PlainService
  <2> QED BY <2>1, <2>8
<1> QED BY <1>1, <1>2 DEF CatalogPlain

\* What the names of a list of domains count under.
Normals(names) == {NormalDomain(d) : d \in ToSet(names)}

\* What a service means, field by field.
LEMMA MeaningFields ==
  ASSUME NEW n, NEW l, NEW d, NEW m, NEW k, NEW e
  PROVE  Meaning([name |-> n, label |-> l, domains |-> d, main_domains |-> m, country |-> k, enabled |-> e]) =
            [name |-> n, label |-> l, domains |-> Normals(d), main_domains |-> Normals(m), country |-> k, enabled |-> e]
<1>0. PICK s : s = [name |-> n, label |-> l, domains |-> d, main_domains |-> m, country |-> k, enabled |-> e]
  OBVIOUS
<1>1. PICK A : A = Normals(d)
  OBVIOUS
<1>2. PICK B : B = Normals(m)
  OBVIOUS
<1>3. PICK t : t = [s EXCEPT !.domains = A]
  OBVIOUS
<1>4. s.domains = d
  BY <1>0
<1>5. t = [name |-> n, label |-> l, domains |-> A, main_domains |-> m, country |-> k, enabled |-> e]
  BY <1>0, <1>3
<1>6. t.main_domains = m
  BY <1>5
<1>7. [t EXCEPT !.main_domains = B] =
         [name |-> n, label |-> l, domains |-> A, main_domains |-> B, country |-> k, enabled |-> e]
  BY <1>5
<1>8. Meaning(s) = [t EXCEPT !.main_domains = B]
  <2>1. Meaning(s) = [[s EXCEPT !.domains = Normals(s.domains)] EXCEPT !.main_domains = Normals(@)]
    BY Zenon DEF Meaning, Normals
  <2>2. [s EXCEPT !.domains = Normals(s.domains)] = t
    BY <1>1, <1>3, <1>4, Zenon
  <2>3. Meaning(s) = [t EXCEPT !.main_domains = Normals(t.main_domains)]
    BY <2>1, <2>2, Zenon
  <2> QED BY <1>2, <1>6, <2>3, Zenon
<1> QED BY <1>0, <1>1, <1>2, <1>7, <1>8, Zenon

\* A plain catalog, read into the form and sent back, counts the same.
LEMMA CatalogReturns ==
  ASSUME NEW c, CatalogPlain(c)
  PROVE  LET back == FormToServices(CatalogToForm(c)) IN
         /\ DOMAIN back = DOMAIN c
         /\ \A i \in DOMAIN c : Meaning(back[i]) = Meaning(c[i])
<1>1. PICK rows : rows = CatalogToForm(c)
  OBVIOUS
<1>2. DOMAIN rows = DOMAIN c
  BY <1>1 DEF CatalogToForm
<1>3. PICK back : back = FormToServices(rows)
  OBVIOUS
<1>4. DOMAIN back = DOMAIN c
  BY <1>2, <1>3 DEF FormToServices
<1>5. ASSUME NEW i \in DOMAIN c PROVE Meaning(back[i]) = Meaning(c[i])
  <2>1. rows[i] = [name |-> c[i].name, label |-> c[i].label, domains |-> c[i].domains,
            mainDomains |-> c[i].main_domains, country |-> c[i].country, enabled |-> c[i].enabled]
    BY <1>1, FormFields
  <2>2. PICK s : s = c[i]
    OBVIOUS
  <2>3. PlainService(s)
    BY <2>2 DEF CatalogPlain
  <2>4. /\ rows[i].name = s.name /\ rows[i].label = s.label /\ rows[i].domains = s.domains
        /\ rows[i].mainDomains = s.main_domains /\ rows[i].country = s.country /\ rows[i].enabled = s.enabled
    BY <2>1, <2>2
  <2>5. back[i] = [name |-> Trim(rows[i].name), label |-> Trim(rows[i].label), domains |-> ParseDomains(rows[i].domains),
             main_domains |-> ParseDomains(rows[i].mainDomains), country |-> rows[i].country,
             enabled |-> rows[i].enabled]
    BY <1>2, <1>3 DEF FormToServices
  <2>6. back[i] = [name |-> s.name, label |-> s.label, domains |-> ParseDomains(s.domains),
                   main_domains |-> ParseDomains(s.main_domains), country |-> s.country, enabled |-> s.enabled]
    BY <2>3, <2>4, <2>5 DEF PlainService
  <2>7. s = [name |-> s.name, label |-> s.label, domains |-> s.domains, main_domains |-> s.main_domains,
             country |-> s.country, enabled |-> s.enabled]
    BY <2>3, Zenon DEF PlainService
  <2>8. Meaning(back[i]) = [name |-> s.name, label |-> s.label, domains |-> Normals(ParseDomains(s.domains)),
            main_domains |-> Normals(ParseDomains(s.main_domains)), country |-> s.country, enabled |-> s.enabled]
    <3>1. PICK n, l, d, m, k, e : n = s.name /\ l = s.label /\ d = ParseDomains(s.domains)
              /\ m = ParseDomains(s.main_domains) /\ k = s.country /\ e = s.enabled
      OBVIOUS
    <3>2. PICK u : u = [name |-> n, label |-> l, domains |-> d, main_domains |-> m, country |-> k, enabled |-> e]
      OBVIOUS
    <3>3. back[i] = u
      BY <2>6, <3>1, <3>2, Zenon
    <3>4. Meaning([name |-> n, label |-> l, domains |-> d, main_domains |-> m, country |-> k, enabled |-> e]) =
          [name |-> n, label |-> l, domains |-> Normals(d), main_domains |-> Normals(m), country |-> k, enabled |-> e]
      BY MeaningFields
    <3>5. Meaning(u) =
          [name |-> n, label |-> l, domains |-> Normals(d), main_domains |-> Normals(m), country |-> k, enabled |-> e]
      BY <3>2, <3>4, Zenon
    <3> QED BY <3>1, <3>3, <3>5, Zenon
  <2>9. Meaning(s) = [name |-> s.name, label |-> s.label, domains |-> Normals(s.domains),
            main_domains |-> Normals(s.main_domains), country |-> s.country, enabled |-> s.enabled]
    <3>1. PICK n, l, d, m, k, e : n = s.name /\ l = s.label /\ d = s.domains
              /\ m = s.main_domains /\ k = s.country /\ e = s.enabled
      OBVIOUS
    <3>2. PICK u : u = [name |-> n, label |-> l, domains |-> d, main_domains |-> m, country |-> k, enabled |-> e]
      OBVIOUS
    <3>3. s = u
      BY <2>7, <3>1, <3>2, Zenon
    <3>4. Meaning([name |-> n, label |-> l, domains |-> d, main_domains |-> m, country |-> k, enabled |-> e]) =
          [name |-> n, label |-> l, domains |-> Normals(d), main_domains |-> Normals(m), country |-> k, enabled |-> e]
      BY MeaningFields
    <3>5. Meaning(u) =
          [name |-> n, label |-> l, domains |-> Normals(d), main_domains |-> Normals(m), country |-> k, enabled |-> e]
      BY <3>2, <3>4, Zenon
    <3> QED BY <3>1, <3>3, <3>5, Zenon
  <2>10. Normals(ParseDomains(s.domains)) = Normals(s.domains) /\ Normals(ParseDomains(s.main_domains)) = Normals(s.main_domains)
    BY <2>3, ParsedMeans DEF PlainService, Normals
  <2> QED BY <2>2, <2>8, <2>9, <2>10, Zenon
<1> QED BY <1>1, <1>3, <1>4, <1>5

\* A row of the form.
IsServiceRow(r) ==
    r = [name |-> r.name, label |-> r.label, domains |-> r.domains, mainDomains |-> r.mainDomains,
         country |-> r.country, enabled |-> r.enabled]
\* The domains of a row are lists, and a catalog has nothing to trim, when nobody
\* stores anything else.
Spelt(r) == PlainStores => RowSpelled(r)
Neat(c) == PlainStores => CatalogPlain(c)
\* The rows of the form.
IsRows(rows) == Listed(rows) /\ \A i \in DOMAIN rows : IsServiceRow(rows[i]) /\ Spelt(rows[i])

\* The panel that edits the catalog.
IsPanel(p) ==
    /\ p = [mounted |-> p.mounted, rows |-> p.rows, errors |-> p.errors, dirty |-> p.dirty, saved |-> p.saved]
    /\ IsRows(p.rows)

\* A request for the shipped countries, and the rows it was asked for.
IsFilling(f) ==
    /\ f = [step |-> f.step, rows |-> f.rows, live |-> f.live, known |-> f.known]
    /\ IsRows(f.rows)

\* What the page lets through.
ChecksOut(cat) ==
    /\ Listed(cat) /\ Neat(cat) /\ ~(Len(cat) > MAX_SERVICES)
    /\ \A i \in DOMAIN cat : cat[i].name \in Slugs
    /\ \A i, j \in DOMAIN cat : cat[i].name = cat[j].name => i = j

\* A catalog on its way to the server has passed the checks of the page; what was
\* accepted is in H, and what was refused was refused for a reason.
IsCatalogPut(H, p) ==
    /\ p = [sent |-> p.sent, answer |-> p.answer, live |-> p.live, complaints |-> p.complaints]
    /\ ChecksOut(p.sent)
    /\ p.answer = "ok" => p.sent \in H
    /\ p.answer = "refused" => p.complaints = Complaints(p.sent) /\ p.complaints # {}

\* What was read is a catalog of H.
IsReading(H, d) == d # NoData => d.services \in H

\* Rows without a change are a catalog of H.
CleanIn(H, p) == p.mounted /\ ~p.dirty => \E c \in H : p.rows = CatalogToForm(c)

\* The invariant of the catalog editor.  `held' is every catalog the server has held.
ServicesInv ==
    /\ services \in held /\ \A c \in held : Listed(c) /\ Neat(c)
    /\ IsEntry(catalog) /\ IsReading(held, catalog.data) /\ IsReading(held, catalog.fetch.data)
    /\ IsPanel(panel) /\ IsFilling(filling) /\ CleanIn(held, panel)
    /\ panel.mounted => catalog.data # NoData
    /\ Listed(catalogPuts) /\ \A i \in DOMAIN catalogPuts : IsCatalogPut(held, catalogPuts[i])

\* The other fields of the panel when some change.
LEMMA PanelFields ==
  ASSUME NEW p, IsPanel(p), NEW x, NEW y, NEW z
  PROVE  /\ [p EXCEPT !.saved = z] = [mounted |-> p.mounted, rows |-> p.rows, errors |-> p.errors, dirty |-> p.dirty, saved |-> z]
         /\ [p EXCEPT !.errors = x] = [mounted |-> p.mounted, rows |-> p.rows, errors |-> x, dirty |-> p.dirty, saved |-> p.saved]
         /\ [p EXCEPT !.errors = x, !.saved = z] =
              [mounted |-> p.mounted, rows |-> p.rows, errors |-> x, dirty |-> p.dirty, saved |-> z]
         /\ [p EXCEPT !.rows = x, !.dirty = y, !.saved = z] =
              [mounted |-> p.mounted, rows |-> x, errors |-> p.errors, dirty |-> y, saved |-> z]
<1> DEFINE a == [mounted |-> p.mounted, rows |-> p.rows, errors |-> x, dirty |-> p.dirty, saved |-> p.saved]
           b == [mounted |-> p.mounted, rows |-> x, errors |-> p.errors, dirty |-> p.dirty, saved |-> p.saved]
           c == [mounted |-> p.mounted, rows |-> x, errors |-> p.errors, dirty |-> y, saved |-> p.saved]
<1>1. /\ [p EXCEPT !.saved = z] = [mounted |-> p.mounted, rows |-> p.rows, errors |-> p.errors, dirty |-> p.dirty, saved |-> z]
      /\ [p EXCEPT !.errors = x] = a
      /\ [p EXCEPT !.rows = x] = b
  BY DEF IsPanel
<1>2. /\ [a EXCEPT !.saved = z] = [mounted |-> p.mounted, rows |-> p.rows, errors |-> x, dirty |-> p.dirty, saved |-> z]
      /\ [b EXCEPT !.dirty = y] = c
      /\ [c EXCEPT !.saved = z] = [mounted |-> p.mounted, rows |-> x, errors |-> p.errors, dirty |-> y, saved |-> z]
  OBVIOUS
<1>3. [p EXCEPT !.errors = x, !.saved = z] = [[p EXCEPT !.errors = x] EXCEPT !.saved = z]
  BY Zenon
<1>4. [p EXCEPT !.rows = x, !.dirty = y, !.saved = z] = [[[p EXCEPT !.rows = x] EXCEPT !.dirty = y] EXCEPT !.saved = z]
  BY Zenon
<1> HIDE DEF a, b, c
<1> QED BY <1>1, <1>2, <1>3, <1>4, Zenon DEF a

\* The other fields of a request for countries when some change.
LEMMA FillingFields ==
  ASSUME NEW f, IsFilling(f), NEW x, NEW y, NEW z
  PROVE  /\ [f EXCEPT !.live = x] = [step |-> f.step, rows |-> f.rows, live |-> x, known |-> f.known]
         /\ [f EXCEPT !.step = x, !.rows = y, !.live = z] = [step |-> x, rows |-> y, live |-> z, known |-> f.known]
<1> DEFINE a == [step |-> x, rows |-> f.rows, live |-> f.live, known |-> f.known]
           b == [step |-> x, rows |-> y, live |-> f.live, known |-> f.known]
<1>1. /\ [f EXCEPT !.live = x] = [step |-> f.step, rows |-> f.rows, live |-> x, known |-> f.known]
      /\ [f EXCEPT !.step = x] = a
  BY DEF IsFilling
<1>2. [a EXCEPT !.rows = y] = b /\ [b EXCEPT !.live = z] = [step |-> x, rows |-> y, live |-> z, known |-> f.known]
  OBVIOUS
<1>3. [f EXCEPT !.step = x, !.rows = y, !.live = z] = [[[f EXCEPT !.step = x] EXCEPT !.rows = y] EXCEPT !.live = z]
  BY Zenon
<1> HIDE DEF a, b
<1> QED BY <1>1, <1>2, <1>3, Zenon

\* The other fields of a PUT when some change.
LEMMA PutFields ==
  ASSUME NEW p, NEW H, IsCatalogPut(H, p), NEW x, NEW y
  PROVE  /\ [p EXCEPT !.live = x] = [sent |-> p.sent, answer |-> p.answer, live |-> x, complaints |-> p.complaints]
         /\ [p EXCEPT !.answer = x] = [sent |-> p.sent, answer |-> x, live |-> p.live, complaints |-> p.complaints]
         /\ [[p EXCEPT !.answer = x] EXCEPT !.complaints = y] =
               [sent |-> p.sent, answer |-> x, live |-> p.live, complaints |-> y]
<1> DEFINE a == [sent |-> p.sent, answer |-> x, live |-> p.live, complaints |-> p.complaints]
<1>1. /\ [p EXCEPT !.live = x] = [sent |-> p.sent, answer |-> p.answer, live |-> x, complaints |-> p.complaints]
      /\ [p EXCEPT !.answer = x] = a
  BY DEF IsCatalogPut
<1>2. [a EXCEPT !.complaints = y] = [sent |-> p.sent, answer |-> x, live |-> p.live, complaints |-> y]
  OBVIOUS
<1> HIDE DEF a
<1> QED BY <1>1, <1>2, Zenon DEF a

\* The rows of a catalog are rows.
LEMMA FormRows ==
  ASSUME NEW cat, Listed(cat), Neat(cat)
  PROVE  IsRows(CatalogToForm(cat))
<1> DEFINE rows == CatalogToForm(cat)
<1>1. rows = [i \in DOMAIN cat |-> rows[i]]
  BY DEF CatalogToForm
<1>2. Listed(rows) /\ DOMAIN rows = DOMAIN cat
  <2> HIDE DEF rows
  <2> QED BY <1>1, ListedMap
<1>3. ASSUME NEW i \in DOMAIN cat PROVE IsServiceRow(rows[i])
  <2>1. rows[i] = [NewServiceForm EXCEPT !.name = cat[i].name, !.label = cat[i].label, !.domains = cat[i].domains,
            !.mainDomains = cat[i].main_domains, !.country = cat[i].country, !.enabled = cat[i].enabled]
    BY DEF CatalogToForm
  <2>2. rows[i] = [name |-> cat[i].name, label |-> cat[i].label, domains |-> cat[i].domains,
            mainDomains |-> cat[i].main_domains, country |-> cat[i].country, enabled |-> cat[i].enabled]
    BY <2>1 DEF NewServiceForm
  <2> HIDE DEF rows
  <2> QED BY <2>2 DEF IsServiceRow
<1>4. ASSUME NEW i \in DOMAIN cat PROVE Spelt(rows[i])
  <2>1. PlainStores => RowsSpelled(rows)
    BY FormSpelled DEF Neat
  <2> HIDE DEF rows
  <2> QED BY <1>2, <2>1 DEF RowsSpelled, Spelt
<1> QED BY <1>2, <1>3, <1>4 DEF IsRows

\* A panel that is opened shows the catalog without a change.
LEMMA SeededFields ==
  ASSUME NEW cat
  PROVE  SeededPanel(cat) = [mounted |-> TRUE, rows |-> CatalogToForm(cat), errors |-> EmptyCatalogErrors,
                              dirty |-> FALSE, saved |-> FALSE]
<1> DEFINE n == [mounted |-> FALSE, rows |-> <<>>, errors |-> EmptyCatalogErrors, dirty |-> FALSE, saved |-> FALSE]
           m == [mounted |-> TRUE, rows |-> <<>>, errors |-> EmptyCatalogErrors, dirty |-> FALSE, saved |-> FALSE]
<1>1. \A x, y : [[mounted |-> x, rows |-> <<>>, errors |-> EmptyCatalogErrors, dirty |-> x, saved |-> x] EXCEPT !.mounted = y] =
              [mounted |-> y, rows |-> <<>>, errors |-> EmptyCatalogErrors, dirty |-> x, saved |-> x]
  OBVIOUS
<1>2. [n EXCEPT !.mounted = TRUE] = m
  BY <1>1, Zenon
<1>3. \A x, y, z : [[mounted |-> y, rows |-> <<>>, errors |-> EmptyCatalogErrors, dirty |-> x, saved |-> x] EXCEPT !.rows = z] =
              [mounted |-> y, rows |-> z, errors |-> EmptyCatalogErrors, dirty |-> x, saved |-> x]
  OBVIOUS
<1>4. [m EXCEPT !.rows = CatalogToForm(cat)] = [mounted |-> TRUE, rows |-> CatalogToForm(cat), errors |-> EmptyCatalogErrors,
                              dirty |-> FALSE, saved |-> FALSE]
  BY <1>3, Zenon
<1>5. NoPanel = n
  BY Zenon DEF NoPanel
<1>6. SeededPanel(cat) = [[NoPanel EXCEPT !.mounted = TRUE] EXCEPT !.rows = CatalogToForm(cat)]
  BY Zenon DEF SeededPanel
<1> HIDE DEF n, m
<1> QED BY <1>2, <1>4, <1>5, <1>6, Zenon

\* The empty form.
LEMMA NoRows == IsRows(<<>>)
<1>1. <<>> \in Seq(ToSet(<<>>)) /\ DOMAIN <<>> = {}
  OBVIOUS
<1> QED BY <1>1 DEF IsRows, Listed

\* The panel with other rows.
LEMMA RowsOf ==
  ASSUME NEW p, IsPanel(p), NEW r, IsRows(r), NEW q, q = [p EXCEPT !.rows = r]
  PROVE  IsPanel(q) /\ q.mounted = p.mounted /\ q.rows = r /\ q.errors = p.errors /\ q.dirty = p.dirty /\ q.saved = p.saved
<1>1. q = [mounted |-> p.mounted, rows |-> r, errors |-> p.errors, dirty |-> p.dirty, saved |-> p.saved]
  BY DEF IsPanel
<1>2. q.mounted = p.mounted /\ q.rows = r /\ q.errors = p.errors /\ q.dirty = p.dirty /\ q.saved = p.saved
  BY <1>1
<1> QED BY <1>1, <1>2, Zenon DEF IsPanel

\* The panel marked changed or unchanged.
LEMMA DirtyOf ==
  ASSUME NEW p, IsPanel(p), NEW y, NEW q, q = [p EXCEPT !.dirty = y]
  PROVE  IsPanel(q) /\ q.mounted = p.mounted /\ q.rows = p.rows /\ q.errors = p.errors /\ q.dirty = y /\ q.saved = p.saved
<1>1. q = [mounted |-> p.mounted, rows |-> p.rows, errors |-> p.errors, dirty |-> y, saved |-> p.saved]
  BY DEF IsPanel
<1>2. q.mounted = p.mounted /\ q.rows = p.rows /\ q.errors = p.errors /\ q.dirty = y /\ q.saved = p.saved
  BY <1>1
<1> QED BY <1>1, <1>2, Zenon DEF IsPanel

\* The panel with or without its `saved' mark.
LEMMA SavedOf ==
  ASSUME NEW p, IsPanel(p), NEW z, NEW q, q = [p EXCEPT !.saved = z]
  PROVE  IsPanel(q) /\ q.mounted = p.mounted /\ q.rows = p.rows /\ q.errors = p.errors /\ q.dirty = p.dirty /\ q.saved = z
<1>1. q = [mounted |-> p.mounted, rows |-> p.rows, errors |-> p.errors, dirty |-> p.dirty, saved |-> z]
  BY DEF IsPanel
<1>2. q.mounted = p.mounted /\ q.rows = p.rows /\ q.errors = p.errors /\ q.dirty = p.dirty /\ q.saved = z
  BY <1>1
<1> QED BY <1>1, <1>2, Zenon DEF IsPanel

\* The panel after the person changed its rows.
LEMMA RowsChanged ==
  ASSUME NEW p, IsPanel(p), NEW r, IsRows(r)
  PROVE  \A q : q = [p EXCEPT !.rows = r, !.dirty = TRUE, !.saved = FALSE] =>
            IsPanel(q) /\ q.mounted = p.mounted /\ q.rows = r /\ q.dirty = TRUE
<1>1. PICK a : a = [p EXCEPT !.rows = r]
  BY Zenon
<1>2. IsPanel(a) /\ a.mounted = p.mounted /\ a.rows = r
  BY <1>1, RowsOf
<1>y. PICK y : y = TRUE
  OBVIOUS
<1>z. PICK z : z = FALSE
  OBVIOUS
<1>3. PICK b : b = [a EXCEPT !.dirty = y]
  BY Zenon
<1>4. IsPanel(b) /\ b.mounted = a.mounted /\ b.rows = a.rows /\ b.dirty = y
  BY <1>3, <1>2, DirtyOf
<1>5. ASSUME NEW q, q = [p EXCEPT !.rows = r, !.dirty = TRUE, !.saved = FALSE]
      PROVE  IsPanel(q) /\ q.mounted = p.mounted /\ q.rows = r /\ q.dirty = TRUE
  <2>1. q = [b EXCEPT !.saved = z]
    BY <1>1, <1>3, <1>5, <1>y, <1>z, Zenon
  <2>2. IsPanel(q) /\ q.mounted = b.mounted /\ q.rows = b.rows /\ q.dirty = b.dirty
    BY <2>1, <1>4, SavedOf
  <2> QED BY <1>2, <1>4, <1>y, <2>2, Zenon
<1> QED BY <1>5

\* The panel after its rows were saved.
LEMMA RowsSaved ==
  ASSUME NEW p, IsPanel(p), NEW r, IsRows(r)
  PROVE  \A q : q = [p EXCEPT !.rows = r, !.dirty = FALSE, !.saved = TRUE] =>
            IsPanel(q) /\ q.mounted = p.mounted /\ q.rows = r /\ q.dirty = FALSE
<1>1. PICK a : a = [p EXCEPT !.rows = r]
  BY Zenon
<1>2. IsPanel(a) /\ a.mounted = p.mounted /\ a.rows = r
  BY <1>1, RowsOf
<1>y. PICK y : y = FALSE
  OBVIOUS
<1>z. PICK z : z = TRUE
  OBVIOUS
<1>3. PICK b : b = [a EXCEPT !.dirty = y]
  BY Zenon
<1>4. IsPanel(b) /\ b.mounted = a.mounted /\ b.rows = a.rows /\ b.dirty = y
  BY <1>3, <1>2, DirtyOf
<1>5. ASSUME NEW q, q = [p EXCEPT !.rows = r, !.dirty = FALSE, !.saved = TRUE]
      PROVE  IsPanel(q) /\ q.mounted = p.mounted /\ q.rows = r /\ q.dirty = FALSE
  <2>1. q = [b EXCEPT !.saved = z]
    BY <1>1, <1>3, <1>5, <1>y, <1>z, Zenon
  <2>2. IsPanel(q) /\ q.mounted = b.mounted /\ q.rows = b.rows /\ q.dirty = b.dirty
    BY <2>1, <1>4, SavedOf
  <2> QED BY <1>2, <1>4, <1>y, <2>2, Zenon
<1> QED BY <1>5

\* Messages and marks leave the rows alone.
LEMMA PanelMarked ==
  ASSUME NEW p, IsPanel(p), NEW x, NEW q,
         \/ q = [p EXCEPT !.saved = FALSE]
         \/ q = [p EXCEPT !.errors = x]
         \/ q = [p EXCEPT !.errors = x, !.saved = FALSE]
  PROVE  IsPanel(q) /\ q.mounted = p.mounted /\ q.rows = p.rows /\ q.dirty = p.dirty
<1>1. PICK z : z = FALSE
  OBVIOUS
<1>2. \/ q = [p EXCEPT !.saved = z]
      \/ q = [p EXCEPT !.errors = x]
      \/ q = [p EXCEPT !.errors = x, !.saved = z]
  BY <1>1, Zenon
<1>3. \/ q = [mounted |-> p.mounted, rows |-> p.rows, errors |-> p.errors, dirty |-> p.dirty, saved |-> z]
      \/ q = [mounted |-> p.mounted, rows |-> p.rows, errors |-> x, dirty |-> p.dirty, saved |-> p.saved]
      \/ q = [mounted |-> p.mounted, rows |-> p.rows, errors |-> x, dirty |-> p.dirty, saved |-> z]
  BY <1>2, PanelFields, Zenon
<1>4. PICK u, v : q = [mounted |-> p.mounted, rows |-> p.rows, errors |-> u, dirty |-> p.dirty, saved |-> v]
  BY <1>3, Zenon
<1>5. q.mounted = p.mounted /\ q.rows = p.rows /\ q.errors = u /\ q.dirty = p.dirty /\ q.saved = v
  BY <1>4
<1> QED BY <1>4, <1>5, Zenon DEF IsPanel

\* The panel that is not on the screen.
LEMMA PanelGone == IsPanel(NoPanel) /\ ~NoPanel.mounted
<1>1. PICK z : z = FALSE
  OBVIOUS
<1>2. NoPanel = [mounted |-> z, rows |-> <<>>, errors |-> EmptyCatalogErrors, dirty |-> z, saved |-> z]
  BY <1>1, Zenon DEF NoPanel
<1>3. /\ NoPanel.mounted = z /\ NoPanel.rows = <<>> /\ NoPanel.errors = EmptyCatalogErrors /\ NoPanel.dirty = z
      /\ NoPanel.saved = z
  BY <1>2
<1> QED BY <1>1, <1>2, <1>3, NoRows, Zenon DEF IsPanel

\* A panel that is opened on a catalog of H is clean in H.
LEMMA PanelSeeded ==
  ASSUME NEW H, NEW c \in H, Listed(c), Neat(c)
  PROVE  LET p == SeededPanel(c) IN IsPanel(p) /\ CleanIn(H, p) /\ p.rows = CatalogToForm(c)
<1> DEFINE p == SeededPanel(c)
<1>1. PICK y : y = TRUE
  OBVIOUS
<1>2. PICK z : z = FALSE
  OBVIOUS
<1>3. p = [mounted |-> y, rows |-> CatalogToForm(c), errors |-> EmptyCatalogErrors, dirty |-> z, saved |-> z]
  BY <1>1, <1>2, SeededFields, Zenon
<1> SUFFICES IsPanel(p) /\ CleanIn(H, p) /\ p.rows = CatalogToForm(c)
  OBVIOUS
<1> HIDE DEF p
<1>4. p.mounted = y /\ p.rows = CatalogToForm(c) /\ p.errors = EmptyCatalogErrors /\ p.dirty = z /\ p.saved = z
  BY <1>3
<1> QED BY <1>3, <1>4, FormRows, Zenon DEF IsPanel, CleanIn

\* No countries have been asked for.
LEMMA FillStart == IsFilling(NoFill)
<1>1. PICK z : z = FALSE
  OBVIOUS
<1>2. NoFill = [step |-> "no", rows |-> <<>>, live |-> z, known |-> z]
  BY <1>1, Zenon DEF NoFill
<1>3. NoFill.step = "no" /\ NoFill.rows = <<>> /\ NoFill.live = z /\ NoFill.known = z
  BY <1>2
<1> QED BY <1>2, <1>3, NoRows, Zenon DEF IsFilling

\* What the server has held only grows.
LEMMA HeldGrows ==
  ASSUME NEW H, NEW G, H \subseteq G
  PROVE  /\ \A p : IsCatalogPut(H, p) => IsCatalogPut(G, p)
         /\ \A p : CleanIn(H, p) => CleanIn(G, p)
         /\ \A d : IsReading(H, d) => IsReading(G, d)
BY DEF IsCatalogPut, CleanIn, IsReading

\* What the page lets through: names that are slugs, no name twice, not too many.
LEMMA Checked ==
  ASSUME NEW rows, IsRows(rows), ~HasCatalogErrors(ValidateCatalog(rows))
  PROVE  ChecksOut(FormToServices(rows))
<1> DEFINE sent == FormToServices(rows)
           bad == {i \in DOMAIN sent : sent[i].name \notin Slugs \/ UsedBefore(sent, i) \/ DomainsRefused(sent[i])}
<1>1. PICK b : b = (Len(rows) > MAX_SERVICES)
  OBVIOUS
<1>2. [rows |-> bad, general |-> b] = [rows |-> {}, general |-> FALSE]
  BY <1>1, Zenon DEF ValidateCatalog, HasCatalogErrors, EmptyCatalogErrors
<1>3. bad = {} /\ ~b
  <2>1. PICK f : f = FALSE
    OBVIOUS
  <2> HIDE DEF bad
  <2>2. [rows |-> bad, general |-> b] = [rows |-> {}, general |-> f]
    BY <1>2, <2>1, Zenon
  <2>3. bad = {} /\ b = f
    BY <2>2
  <2> QED BY <2>1, <2>3
<1>4. sent = [i \in DOMAIN rows |-> sent[i]]
  BY DEF FormToServices
<1>5. \A i \in DOMAIN sent : sent[i].name \in Slugs /\ ~UsedBefore(sent, i)
  BY <1>3, Zenon
<1>n. Neat(sent)
  <2>1. PlainStores => RowsSpelled(rows)
    BY DEF IsRows, Spelt, RowsSpelled
  <2> QED BY <2>1, SentPlain DEF Neat
<1> HIDE DEF sent, bad
<1>6. Listed(sent) /\ Len(sent) = Len(rows)
  BY <1>4, ListedMap DEF IsRows
<1>7. ASSUME NEW i \in DOMAIN sent, NEW j \in DOMAIN sent, sent[i].name = sent[j].name PROVE i = j
  <2>1. DOMAIN sent = 1..Len(sent) /\ Len(sent) \in Nat
    BY <1>6, ListedFacts
  <2> QED BY <1>5, <1>7, <2>1 DEF UsedBefore
<1> QED BY <1>1, <1>3, <1>5, <1>6, <1>7, <1>n DEF ChecksOut, sent

\* Rows with some fields of one of them replaced are rows.
LEMMA RowEdited ==
  ASSUME NEW rows, IsRows(rows), NEW i \in DOMAIN rows, NEW e \in ServiceEdits
  PROVE  IsRows([rows EXCEPT ![i] = [f \in DOMAIN @ |-> IF f \in DOMAIN e THEN e[f] ELSE @[f]]])
<1> DEFINE r == [f \in DOMAIN rows[i] |-> IF f \in DOMAIN e THEN e[f] ELSE rows[i][f]]
           t == [rows EXCEPT ![i] = r]
<1>1. IsServiceRow(r)
  <2>1. DOMAIN rows[i] = {"name", "label", "domains", "mainDomains", "country", "enabled"}
    BY DEF IsRows, IsServiceRow
  <2>2. r = [f \in {"name", "label", "domains", "mainDomains", "country", "enabled"} |-> r[f]]
    BY <2>1
  <2> HIDE DEF r
  <2> QED BY <2>2 DEF IsServiceRow
<1>s. Spelt(r)
  <2>1. \A f \in {"domains", "mainDomains"} : f \in DOMAIN e => Listed(e[f])
    BY ServiceEditsAssumption DEF Listed
  <2>2. Spelt(rows[i])
    BY DEF IsRows
  <2>3. PICK q : q = rows[i]
    OBVIOUS
  <2>4. r = [f \in DOMAIN q |-> IF f \in DOMAIN e THEN e[f] ELSE q[f]]
    BY <2>3
  <2> HIDE DEF r
  <2>5. RowSpelled(q) => RowSpelled(r)
    <3>1. ASSUME RowSpelled(q) PROVE RowSpelled(r)
      <4>1. {"domains", "mainDomains"} \subseteq DOMAIN q /\ Listed(q.domains) /\ Listed(q.mainDomains)
        BY <3>1 DEF RowSpelled
      <4>2. /\ {"domains", "mainDomains"} \subseteq DOMAIN r
            /\ r.domains = IF "domains" \in DOMAIN e THEN e["domains"] ELSE q.domains
            /\ r.mainDomains = IF "mainDomains" \in DOMAIN e THEN e["mainDomains"] ELSE q.mainDomains
        BY <2>4, <4>1
      <4> QED BY <2>1, <4>1, <4>2 DEF RowSpelled
    <3> QED BY <3>1
  <2> QED BY <2>2, <2>3, <2>5 DEF Spelt
<1> HIDE DEF r
<1>2. t = [j \in DOMAIN rows |-> t[j]]
  OBVIOUS
<1>3. Listed(t) /\ DOMAIN t = DOMAIN rows
  BY <1>2, ListedMap DEF IsRows
<1>4. ASSUME NEW j \in DOMAIN rows PROVE IsServiceRow(t[j]) /\ Spelt(t[j])
  BY <1>1, <1>s DEF IsRows
<1>5. IsRows(t)
  BY <1>3, <1>4 DEF IsRows
<1> QED BY <1>5 DEF r

\* Rows with one more or one less are rows.
LEMMA RowsAdded ==
  ASSUME NEW rows, IsRows(rows)
  PROVE  IsRows(Append(rows, NewServiceForm)) /\ \A i \in DOMAIN rows : IsRows(RemoveAt(rows, i))
<1>1. IsServiceRow(NewServiceForm)
  <2>1. PICK y : y = TRUE
    OBVIOUS
  <2>2. NewServiceForm = [name |-> "", label |-> "", domains |-> <<>>, mainDomains |-> <<>>, country |-> "", enabled |-> y]
    BY <2>1, Zenon DEF NewServiceForm
  <2> QED BY <2>2 DEF IsServiceRow
<1>s. Spelt(NewServiceForm)
  <2>1. /\ {"domains", "mainDomains"} \subseteq DOMAIN NewServiceForm
        /\ NewServiceForm.domains = <<>> /\ NewServiceForm.mainDomains = <<>>
    BY DEF NewServiceForm
  <2>2. Listed(<<>>)
    BY DEF Listed
  <2> QED BY <2>1, <2>2 DEF Spelt, RowSpelled
<1>2. IsRows(Append(rows, NewServiceForm))
  BY <1>1, <1>s, ListedAppend DEF IsRows
<1>3. ASSUME NEW i \in DOMAIN rows PROVE IsRows(RemoveAt(rows, i))
  <2>1. Listed(RemoveAt(rows, i)) /\ \A j \in DOMAIN RemoveAt(rows, i) : RemoveAt(rows, i)[j] \in ToSet(rows)
    BY ListedRemove DEF IsRows
  <2>2. \A r \in ToSet(rows) : IsServiceRow(r) /\ Spelt(r)
    BY DEF IsRows, ToSet
  <2> QED BY <2>1, <2>2 DEF IsRows
<1> QED BY <1>2, <1>3

\* The countries that are filled in, and the rest of the rows.
LEMMA RowsFilled ==
  ASSUME NEW rows, IsRows(rows)
  PROVE  LET t == FillCountries(rows) IN
         /\ IsRows(t) /\ DOMAIN t = DOMAIN rows
         /\ \A i \in DOMAIN rows :
               t[i] # rows[i] => rows[i].country = "" /\ [t[i] EXCEPT !.country = ""] = rows[i]
<1> DEFINE t == FillCountries(rows)
<1>1. t = [i \in DOMAIN rows |-> t[i]]
  BY DEF FillCountries
<1>2. ASSUME NEW i \in DOMAIN rows
      PROVE  \/ t[i] = rows[i]
             \/ rows[i].country = "" /\ \E c : t[i] = [rows[i] EXCEPT !.country = c]
  BY DEF FillCountries
<1> SUFFICES /\ IsRows(t) /\ DOMAIN t = DOMAIN rows
             /\ \A i \in DOMAIN rows :
                   t[i] # rows[i] => rows[i].country = "" /\ [t[i] EXCEPT !.country = ""] = rows[i]
  OBVIOUS
<1> HIDE DEF t
<1>3. Listed(t) /\ DOMAIN t = DOMAIN rows
  BY <1>1, ListedMap DEF IsRows
<1>4. ASSUME NEW i \in DOMAIN rows
      PROVE  /\ IsServiceRow(t[i]) /\ Spelt(t[i])
             /\ t[i] # rows[i] => rows[i].country = "" /\ [t[i] EXCEPT !.country = ""] = rows[i]
  <2> DEFINE r == rows[i]
             u == t[i]
  <2>1. IsServiceRow(r) /\ Spelt(r)
    BY DEF IsRows
  <2>2. CASE u = r
    BY <2>1, <2>2
  <2>3. CASE u # r
    <3>1. PICK c : u = [r EXCEPT !.country = c] /\ r.country = ""
      BY <1>2, <2>3
    <3> SUFFICES IsServiceRow(u) /\ Spelt(u) /\ [u EXCEPT !.country = ""] = r /\ r.country = ""
      OBVIOUS
    <3> HIDE DEF r, u
    <3>2. u = [name |-> r.name, label |-> r.label, domains |-> r.domains, mainDomains |-> r.mainDomains,
               country |-> c, enabled |-> r.enabled]
      BY <2>1, <3>1 DEF IsServiceRow
    <3>3. IsServiceRow(u) /\ Spelt(u)
      <4>1. IsServiceRow(u)
        BY <3>2 DEF IsServiceRow
      <4>2. u.domains = r.domains /\ u.mainDomains = r.mainDomains /\ {"domains", "mainDomains"} \subseteq DOMAIN u
        BY <3>2
      <4>3. Spelt(u)
        BY <2>1, <4>2 DEF Spelt, RowSpelled
      <4> QED BY <4>1, <4>3
    <3>4. [u EXCEPT !.country = ""] = [name |-> r.name, label |-> r.label, domains |-> r.domains,
               mainDomains |-> r.mainDomains, country |-> "", enabled |-> r.enabled]
      <4>1. \A x, y : [[name |-> r.name, label |-> r.label, domains |-> r.domains, mainDomains |-> r.mainDomains,
                        country |-> x, enabled |-> r.enabled] EXCEPT !.country = y] =
                      [name |-> r.name, label |-> r.label, domains |-> r.domains, mainDomains |-> r.mainDomains,
                        country |-> y, enabled |-> r.enabled]
        OBVIOUS
      <4> QED BY <3>2, <4>1, Zenon
    <3> QED BY <2>1, <3>1, <3>3, <3>4 DEF IsServiceRow
  <2> QED BY <2>2, <2>3
<1> QED BY <1>3, <1>4 DEF IsRows

\* When the panel is closed the callbacks of its PUTs go, and nothing else.
LEMMA PutsAbandoned ==
  ASSUME NEW H, NEW s, Listed(s), \A i \in DOMAIN s : IsCatalogPut(H, s[i]),
         NEW t, t = [i \in DOMAIN s |-> [s[i] EXCEPT !.live = FALSE]]
  PROVE  Listed(t) /\ \A i \in DOMAIN t : IsCatalogPut(H, t[i])
<1>1. PICK z : z = FALSE
  OBVIOUS
<1>2. t = [i \in DOMAIN s |-> [s[i] EXCEPT !.live = z]]
  BY <1>1, Zenon
<1>3. t = [i \in DOMAIN s |-> t[i]]
  BY <1>2, Zenon
<1>4. Listed(t) /\ DOMAIN t = DOMAIN s
  BY <1>3, ListedMap, Zenon
<1>5. ASSUME NEW i \in DOMAIN s PROVE IsCatalogPut(H, t[i])
  <2>1. PICK p : p = s[i]
    OBVIOUS
  <2>2. IsCatalogPut(H, p)
    BY <2>1
  <2>3. t[i] = [p EXCEPT !.live = z]
    BY <1>2, <2>1, Zenon
  <2>4. t[i] = [sent |-> p.sent, answer |-> p.answer, live |-> z, complaints |-> p.complaints]
    BY <2>2, <2>3, PutFields, Zenon
  <2>5. t[i].sent = p.sent /\ t[i].answer = p.answer /\ t[i].live = z /\ t[i].complaints = p.complaints
    BY <2>4
  <2> QED BY <2>2, <2>4, <2>5, Zenon DEF IsCatalogPut
<1> QED BY <1>4, <1>5

\* A request for countries with one field changed.
LEMMA FillField ==
  ASSUME NEW f, IsFilling(f), NEW x, NEW g
  PROVE  /\ g = [f EXCEPT !.live = x] => IsFilling(g) /\ g.step = f.step /\ g.rows = f.rows
         /\ g = [f EXCEPT !.step = x] => IsFilling(g) /\ g.step = x
         /\ g = [f EXCEPT !.rows = x] /\ IsRows(x) => IsFilling(g) /\ g.step = f.step
<1>1. ASSUME g = [f EXCEPT !.live = x] PROVE IsFilling(g) /\ g.step = f.step /\ g.rows = f.rows
  <2>1. g = [step |-> f.step, rows |-> f.rows, live |-> x, known |-> f.known]
    BY <1>1 DEF IsFilling
  <2> QED BY <2>1 DEF IsFilling
<1>2. ASSUME g = [f EXCEPT !.step = x] PROVE IsFilling(g) /\ g.step = x
  <2>1. g = [step |-> x, rows |-> f.rows, live |-> f.live, known |-> f.known]
    BY <1>2 DEF IsFilling
  <2> QED BY <2>1 DEF IsFilling
<1>3. ASSUME g = [f EXCEPT !.rows = x], IsRows(x) PROVE IsFilling(g) /\ g.step = f.step
  <2>1. g = [step |-> f.step, rows |-> x, live |-> f.live, known |-> f.known]
    BY <1>3 DEF IsFilling
  <2> QED BY <1>3, <2>1 DEF IsFilling
<1> QED BY <1>1, <1>2, <1>3

\* A request whose callback is dropped.
LEMMA FillAbandoned ==
  ASSUME NEW f, IsFilling(f)
  PROVE  \A g : g = [f EXCEPT !.live = FALSE] => IsFilling(g) /\ g.step = f.step
<1>1. ASSUME NEW g, g = [f EXCEPT !.live = FALSE] PROVE IsFilling(g) /\ g.step = f.step
  <2>1. PICK z : z = FALSE
    OBVIOUS
  <2>2. g = [f EXCEPT !.live = z]
    BY <1>1, <2>1, Zenon
  <2> QED BY <2>2, FillField
<1> QED BY <1>1

\* A request that is made.
LEMMA FillAsked ==
  ASSUME NEW f, IsFilling(f), NEW r, IsRows(r)
  PROVE  \A g : g = [f EXCEPT !.step = "asked", !.rows = r, !.live = TRUE] => IsFilling(g) /\ g.step = "asked"
<1>1. ASSUME NEW g, g = [f EXCEPT !.step = "asked", !.rows = r, !.live = TRUE] PROVE IsFilling(g) /\ g.step = "asked"
  <2>1. PICK z : z = TRUE
    OBVIOUS
  <2>2. PICK a : a = [f EXCEPT !.step = "asked"]
    BY Zenon
  <2>3. IsFilling(a) /\ a.step = "asked"
    BY <2>2, FillField
  <2>4. PICK b : b = [a EXCEPT !.rows = r]
    BY Zenon
  <2>5. IsFilling(b) /\ b.step = "asked"
    BY <2>3, <2>4, FillField
  <2>6. g = [b EXCEPT !.live = z]
    BY <1>1, <2>1, <2>2, <2>4, Zenon
  <2> QED BY <2>5, <2>6, FillField
<1> QED BY <1>1

\* A request that is over.
LEMMA FillEnded ==
  ASSUME NEW b, NEW g, g = [NoFill EXCEPT !.known = b]
  PROVE  IsFilling(g) /\ g.step = "no"
<1>1. PICK z : z = FALSE
  OBVIOUS
<1>2. NoFill = [step |-> "no", rows |-> <<>>, live |-> z, known |-> z]
  BY <1>1, Zenon DEF NoFill
<1>3. \A x : [[step |-> "no", rows |-> <<>>, live |-> x, known |-> x] EXCEPT !.known = b] =
             [step |-> "no", rows |-> <<>>, live |-> x, known |-> b]
  OBVIOUS
<1>4. g = [step |-> "no", rows |-> <<>>, live |-> z, known |-> b]
  BY <1>2, <1>3, Zenon
<1>5. g.step = "no" /\ g.rows = <<>> /\ g.live = z /\ g.known = b
  BY <1>4
<1> QED BY <1>4, <1>5, NoRows, Zenon DEF IsFilling

\* An answer to a PUT.
LEMMA PutAnswered ==
  ASSUME NEW H, NEW s, Listed(s), \A i \in DOMAIN s : IsCatalogPut(H, s[i]), NEW i \in DOMAIN s, NEW a,
         a = "ok" => s[i].sent \in H, a # "refused", NEW t, t = [s EXCEPT ![i].answer = a]
  PROVE  Listed(t) /\ \A j \in DOMAIN t : IsCatalogPut(H, t[j])
<1>1. /\ Listed(t) /\ DOMAIN t = DOMAIN s
      /\ t[i] = [s[i] EXCEPT !.answer = a]
      /\ \A j \in DOMAIN s : j # i => t[j] = s[j]
  BY Answering
<1>2. IsCatalogPut(H, t[i])
  <2>1. PICK p : p = s[i]
    OBVIOUS
  <2>2. IsCatalogPut(H, p)
    BY <2>1
  <2>3. t[i] = [p EXCEPT !.answer = a]
    BY <1>1, <2>1
  <2>4. t[i] = [sent |-> p.sent, answer |-> a, live |-> p.live, complaints |-> p.complaints]
    BY <2>2, <2>3, PutFields, Zenon
  <2>5. t[i].sent = p.sent /\ t[i].answer = a /\ t[i].live = p.live /\ t[i].complaints = p.complaints
    BY <2>4
  <2> QED BY <2>1, <2>2, <2>4, <2>5, Zenon DEF IsCatalogPut
<1> QED BY <1>1, <1>2

\* A PUT the server refused carries the complaints about what was sent.
LEMMA PutRefused ==
  ASSUME NEW H, NEW s, Listed(s), \A i \in DOMAIN s : IsCatalogPut(H, s[i]), NEW i \in DOMAIN s, NEW cs, cs # {},
         cs = Complaints(s[i].sent)
  PROVE  \A t : t = [s EXCEPT ![i].answer = "refused", ![i].complaints = cs] =>
            Listed(t) /\ \A j \in DOMAIN t : IsCatalogPut(H, t[j])
<1>1. PICK r : r = [s EXCEPT ![i].answer = "refused"]
  BY Zenon
<1>2. /\ Listed(r) /\ DOMAIN r = DOMAIN s
      /\ r[i] = [s[i] EXCEPT !.answer = "refused"]
      /\ \A j \in DOMAIN s : j # i => r[j] = s[j]
  BY <1>1, Answering
<1>3. ASSUME NEW t, t = [s EXCEPT ![i].answer = "refused", ![i].complaints = cs]
      PROVE  Listed(t) /\ \A j \in DOMAIN t : IsCatalogPut(H, t[j])
  <2>1. t = [r EXCEPT ![i].complaints = cs]
    BY <1>1, <1>3, Zenon
  <2>2. t = [j \in DOMAIN r |-> IF j = i THEN [r[i] EXCEPT !.complaints = cs] ELSE r[j]]
    BY <2>1, Zenon
  <2>3. t = [j \in DOMAIN r |-> t[j]]
    BY <2>2, Zenon
  <2>4. Listed(t) /\ DOMAIN t = DOMAIN s
    BY <1>2, <2>3, ListedMap
  <2>5. ASSUME NEW j \in DOMAIN s, j # i PROVE IsCatalogPut(H, t[j])
    <3>1. t[j] = r[j]
      BY <1>2, <2>2, <2>5, Zenon
    <3> QED BY <1>2, <2>5, <3>1, Zenon
  <2>6. IsCatalogPut(H, t[i])
    <3>1. PICK p : p = s[i]
      BY Zenon
    <3>2. IsCatalogPut(H, p) /\ cs = Complaints(p.sent)
      BY <3>1, Zenon
    <3>3. r[i] = [p EXCEPT !.answer = "refused"]
      BY <1>2, <3>1, Zenon
    <3>4. t[i] = [r[i] EXCEPT !.complaints = cs]
      BY <1>2, <2>2, Zenon
    <3>5. r[i] = [sent |-> p.sent, answer |-> "refused", live |-> p.live, complaints |-> p.complaints]
      BY <3>2, <3>3 DEF IsCatalogPut
    <3>6. t[i] = [sent |-> p.sent, answer |-> "refused", live |-> p.live, complaints |-> cs]
      BY <3>4, <3>5
    <3>7. t[i].sent = p.sent /\ t[i].answer = "refused" /\ t[i].live = p.live /\ t[i].complaints = cs /\ "refused" # "ok"
      BY <3>6
    <3> QED BY <3>2, <3>6, <3>7, Zenon DEF IsCatalogPut
  <2> QED BY <2>4, <2>5, <2>6
<1> QED BY <1>3

\* The editor starts closed, with nothing read.
LEMMA ServicesStart == ServicesInit => ServicesInv
<1> SUFFICES ASSUME ServicesInit PROVE ServicesInv
  OBVIOUS
<1>1. services \in StartCatalogs /\ held = {services} /\ panel = NoPanel /\ filling = NoFill /\ catalogPuts = <<>>
  BY DEF ServicesInit
<1>2. Listed(services) /\ Neat(services)
  BY <1>1, CatalogsAssumption DEF Listed, Neat, PlainStores, CatalogPlain
<1>3. catalog = [data |-> NoData, error |-> FALSE, fetch |-> Asked]
  BY DEF ServicesInit, EmptyEntry
<1>4. IsEntry(catalog) /\ catalog.data = NoData /\ catalog.fetch.data = NoData
  BY <1>3 DEF IsEntry, Asked
<1>5. Listed(catalogPuts) /\ DOMAIN catalogPuts = {}
  BY <1>1 DEF Listed
<1> QED BY <1>1, <1>2, <1>4, <1>5, PanelGone, FillStart DEF ServicesInv, IsReading, CleanIn

\* What a read carries.
LEMMA ReadingFacts ==
  ASSUME NEW c
  PROVE  Reading(c).services = c /\ Reading(c) # NoData
<1>1. Reading(c).version = 1 /\ NoData.version = 0 /\ Reading(c).services = c
  BY DEF Reading, NoData
<1> QED BY <1>1

\* What a read in the background does.
LEMMA CatalogRead ==
  ASSUME ServicesInv, ReadCatalog \/ ServeCatalog
  PROVE  ServicesInv'
<1>1. UNCHANGED <<services, panel, filling, catalogPuts, held>>
  BY DEF ReadCatalog, ServeCatalog
<1>2. IsEntry(catalog') /\ catalog'.data = catalog.data /\ IsReading(held, catalog'.fetch.data)
  <2>1. CASE ReadCatalog
    <3>1. catalog' = Refetch(catalog) /\ catalog.fetch = NotAsked
      BY <2>1 DEF ReadCatalog
    <3>2. catalog' = [data |-> catalog.data, error |-> catalog.error, fetch |-> Asked]
      BY <3>1, CacheFacts DEF ServicesInv
    <3> QED BY <3>2 DEF IsEntry, Asked, IsReading
  <2>2. CASE ServeCatalog
    <3>1. PICK d : catalog' = AnswerFetch(catalog, d) /\ IsReading(held, d)
      BY <2>2, ReadingFacts DEF ServeCatalog, IsReading, ServicesInv
    <3>2. catalog' = [data |-> catalog.data, error |-> catalog.error, fetch |-> [step |-> "answered", data |-> d]]
      BY <3>1, CacheFacts DEF ServicesInv
    <3> QED BY <3>1, <3>2 DEF IsEntry
  <2> QED BY <2>1, <2>2
<1> QED BY <1>1, <1>2 DEF ServicesInv

\* A read that arrives leaves an open panel alone.
LEMMA CatalogArrived ==
  ASSUME ServicesInv, CatalogArrives
  PROVE  ServicesInv' /\ (panel'.mounted => panel' = panel)
<1> DEFINE r == Arrive(catalog)
<1>1. catalog' = r /\ panel' = PanelAfter(r) /\ UNCHANGED <<services, held>>
  BY DEF CatalogArrives
<1>2. /\ IsEntry(r) /\ r.fetch = NotAsked
      /\ catalog.fetch.data = NoData => r.data = catalog.data /\ r.error = TRUE
      /\ catalog.fetch.data # NoData => r.data = catalog.fetch.data /\ r.error = FALSE
  BY Arrival DEF ServicesInv
<1>3. panel' = NoPanel \/ (panel' = panel /\ ~r.error)
  BY <1>1 DEF PanelAfter
<1>4. IF panel'.mounted THEN UNCHANGED <<filling, catalogPuts>> ELSE Abandoned
  BY DEF CatalogArrives
<1> HIDE DEF r
<1>5. IsReading(held, r.data) /\ IsReading(held, r.fetch.data)
  BY <1>2 DEF ServicesInv, IsReading, NotAsked
<1>6. IsPanel(panel') /\ CleanIn(held, panel') /\ (panel'.mounted => panel' = panel /\ r.data # NoData)
  <2>1. CASE panel' = NoPanel
    BY <2>1, PanelGone DEF CleanIn
  <2>2. CASE panel' = panel /\ ~r.error
    BY <1>2, <2>2 DEF ServicesInv
  <2> QED BY <1>3, <2>1, <2>2
<1>7. IsFilling(filling') /\ Listed(catalogPuts') /\ \A i \in DOMAIN catalogPuts' : IsCatalogPut(held, catalogPuts'[i])
  <2>1. CASE UNCHANGED <<filling, catalogPuts>>
    BY <2>1 DEF ServicesInv
  <2>2. CASE Abandoned
    BY <2>2, PutsAbandoned, FillAbandoned, Zenon DEF Abandoned, ServicesInv
  <2> QED BY <1>4, <2>1, <2>2
<1>8. services' = services /\ held' = held /\ catalog' = r
  BY <1>1
<1> QED BY <1>2, <1>5, <1>6, <1>7, <1>8 DEF ServicesInv

\* Opening, closing and reverting.
LEMMA PanelShown ==
  ASSUME ServicesInv, OpenCatalog \/ CloseCatalog \/ Revert
  PROVE  ServicesInv'
<1>1. UNCHANGED <<services, catalog, held>>
  BY DEF OpenCatalog, CloseCatalog, Revert
<1>2. /\ IsPanel(panel') /\ CleanIn(held, panel') /\ (panel'.mounted => catalog.data # NoData)
  <2>1. CASE CloseCatalog
    BY <2>1, PanelGone DEF CloseCatalog, CleanIn
  <2>2. CASE OpenCatalog \/ Revert
    <3>1. panel' = SeededPanel(catalog.data.services) /\ catalog.data # NoData
      BY <2>2 DEF OpenCatalog, Revert, ServicesInv
    <3>2. catalog.data.services \in held /\ Listed(catalog.data.services) /\ Neat(catalog.data.services)
      BY <3>1 DEF ServicesInv, IsReading
    <3> QED BY <3>1, <3>2, PanelSeeded
  <2> QED BY <2>1, <2>2
<1>3. IsFilling(filling') /\ Listed(catalogPuts') /\ \A i \in DOMAIN catalogPuts' : IsCatalogPut(held, catalogPuts'[i])
  <2>1. CASE UNCHANGED <<filling, catalogPuts>>
    BY <2>1 DEF ServicesInv
  <2>2. CASE Abandoned
    BY <2>2, PutsAbandoned, FillAbandoned, Zenon DEF Abandoned, ServicesInv
  <2> QED BY <2>1, <2>2 DEF OpenCatalog, CloseCatalog, Revert
<1> QED BY <1>1, <1>2, <1>3 DEF ServicesInv

\* Rows that are changed are to be saved.
LEMMA PanelChanged ==
  ASSUME ServicesInv, NEW rows, IsRows(rows), ChangeRows(rows)
  PROVE  IsPanel(panel') /\ panel'.mounted = panel.mounted /\ panel'.rows = rows /\ panel'.dirty
<1>1. IsPanel(panel)
  BY DEF ServicesInv
<1>2. panel' = [panel EXCEPT !.rows = rows, !.dirty = TRUE, !.saved = FALSE]
  BY Zenon DEF ChangeRows
<1>3. IsPanel(panel') /\ panel'.mounted = panel.mounted /\ panel'.rows = rows /\ panel'.dirty = TRUE
  <2>1. PICK p : p = panel
    BY Zenon
  <2>2. IsPanel(p)
    BY <1>1, <2>1, Zenon
  <2>3. \A q : q = [p EXCEPT !.rows = rows, !.dirty = TRUE, !.saved = FALSE] =>
            IsPanel(q) /\ q.mounted = p.mounted /\ q.rows = rows /\ q.dirty = TRUE
    BY <2>2, RowsChanged, Zenon
  <2>4. panel' = [p EXCEPT !.rows = rows, !.dirty = TRUE, !.saved = FALSE]
    BY <1>2, <2>1, Zenon
  <2> QED BY <2>1, <2>3, <2>4, Zenon
<1> QED BY <1>3, Zenon

\* What the person does to the rows.
LEMMA RowsTyped ==
  ASSUME ServicesInv, EditRows
  PROVE  ServicesInv'
<1>1. UNCHANGED <<services, catalog, filling, catalogPuts, held>>
  BY DEF EditRows
<1>2. IsRows(panel.rows)
  BY DEF ServicesInv, IsPanel
<1>3. PICK rows : ChangeRows(rows) /\ IsRows(rows)
  <2>1. CASE ChangeRows(Append(panel.rows, NewServiceForm))
    BY <1>2, <2>1, RowsAdded, Zenon
  <2>2. ASSUME NEW i \in DOMAIN panel.rows, ChangeRows(RemoveAt(panel.rows, i))
        PROVE  \E rows : ChangeRows(rows) /\ IsRows(rows)
    BY <1>2, <2>2, RowsAdded, Zenon
  <2>3. ASSUME NEW i \in DOMAIN panel.rows, NEW e \in ServiceEdits,
               ChangeRows([panel.rows EXCEPT ![i] = [f \in DOMAIN @ |-> IF f \in DOMAIN e THEN e[f] ELSE @[f]]])
        PROVE  \E rows : ChangeRows(rows) /\ IsRows(rows)
    <3>1. PICK r : r = panel.rows
      BY Zenon
    <3>2. PICK t : t = [r EXCEPT ![i] = [f \in DOMAIN @ |-> IF f \in DOMAIN e THEN e[f] ELSE @[f]]]
      BY Zenon
    <3>3. IsRows(r) /\ i \in DOMAIN r
      BY <1>2, <3>1, Zenon
    <3>4. IsRows(t)
      BY <3>2, <3>3, RowEdited, Zenon
    <3>5. ChangeRows(t)
      BY <2>3, <3>1, <3>2, Zenon
    <3> QED BY <3>4, <3>5, Zenon
  <2> QED BY <2>1, <2>2, <2>3, Zenon DEF EditRows
<1>4. IsPanel(panel') /\ panel'.mounted = panel.mounted /\ panel'.dirty
  BY <1>3, PanelChanged, Zenon
<1> QED BY <1>1, <1>4, Zenon DEF ServicesInv, CleanIn

\* The countries are asked for.
LEMMA CountriesAsked ==
  ASSUME ServicesInv, FillFromShipped
  PROVE  ServicesInv' /\ filling'.step = "asked"
<1>1. UNCHANGED <<services, catalog, catalogPuts, held>>
  BY DEF FillFromShipped
<1>2. IsFilling(filling') /\ filling'.step = "asked"
  <2>1. filling' = [filling EXCEPT !.step = "asked", !.rows = panel.rows, !.live = TRUE]
    BY Zenon DEF FillFromShipped
  <2>2. IsFilling(filling) /\ IsRows(panel.rows)
    BY DEF ServicesInv, IsPanel
  <2> QED BY <2>1, <2>2, FillAsked, Zenon
<1>3. IsPanel(panel') /\ panel'.mounted = panel.mounted /\ panel'.rows = panel.rows /\ panel'.dirty = panel.dirty
  <2>1. panel' = [panel EXCEPT !.saved = FALSE]
    BY Zenon DEF FillFromShipped
  <2>2. IsPanel(panel)
    BY DEF ServicesInv
  <2> QED BY <2>1, <2>2, PanelMarked, Zenon
<1> QED BY <1>1, <1>2, <1>3 DEF ServicesInv, CleanIn

\* The countries arrive: only empty ones are filled in, and the form is to be saved
\* when one was.
LEMMA CountriesArrived ==
  ASSUME ServicesInv, ShippedArrives
  PROVE  /\ ServicesInv'
         /\ filling.rows = panel.rows =>
               /\ panel'.rows # panel.rows => panel'.dirty
               /\ \A i \in DOMAIN panel.rows :
                     panel'.rows[i] # panel.rows[i] =>
                         panel.rows[i].country = "" /\ [panel'.rows[i] EXCEPT !.country = ""] = panel.rows[i]
<1>1. UNCHANGED <<services, catalog, catalogPuts, held>>
  BY DEF ShippedArrives
<1>2. PICK b : filling' = [NoFill EXCEPT !.known = b]
  BY Zenon DEF ShippedArrives
<1>3. IsFilling(filling')
  BY <1>2, FillEnded
<1>4. CASE panel' = panel
  BY <1>1, <1>3, <1>4 DEF ServicesInv
<1>5. CASE ChangeRows(FillCountries(filling.rows))
  <2>1. IsRows(filling.rows)
    BY DEF ServicesInv, IsFilling
  <2>2. /\ IsRows(FillCountries(filling.rows))
        /\ \A i \in DOMAIN filling.rows : FillCountries(filling.rows)[i] # filling.rows[i] =>
              /\ filling.rows[i].country = ""
              /\ [FillCountries(filling.rows)[i] EXCEPT !.country = ""] = filling.rows[i]
    BY <2>1, RowsFilled
  <2>3. IsPanel(panel') /\ panel'.mounted = panel.mounted /\ panel'.rows = FillCountries(filling.rows) /\ panel'.dirty
    BY <1>5, <2>2, PanelChanged
  <2>4. ServicesInv'
    BY <1>1, <1>3, <2>3 DEF ServicesInv, CleanIn
  <2> QED BY <2>2, <2>3, <2>4
<1> QED BY <1>4, <1>5 DEF ShippedArrives, Filled

\* The form is saved: nothing leaves the page that its checks refuse.
LEMMA CatalogSent ==
  ASSUME ServicesInv, SaveCatalog
  PROVE  ServicesInv'
<1>1. UNCHANGED <<services, catalog, filling, held>>
  BY DEF SaveCatalog
<1>2. IsPanel(panel)
  BY DEF ServicesInv
<1>3. PICK x : \/ panel' = [panel EXCEPT !.errors = x]
               \/ panel' = [panel EXCEPT !.errors = x, !.saved = FALSE]
  BY Zenon DEF SaveCatalog
<1>4. IsPanel(panel') /\ panel'.mounted = panel.mounted /\ panel'.rows = panel.rows /\ panel'.dirty = panel.dirty
  <2>1. PICK p : p = panel
    BY Zenon
  <2>2. PICK q : q = panel'
    BY Zenon
  <2>3. IsPanel(p)
    BY <1>2, <2>1, Zenon
  <2>4. q = [p EXCEPT !.errors = x] \/ q = [p EXCEPT !.errors = x, !.saved = FALSE]
    BY <1>3, <2>1, <2>2, Zenon
  <2>5. IsPanel(q) /\ q.mounted = p.mounted /\ q.rows = p.rows /\ q.dirty = p.dirty
    <3>1. CASE q = [p EXCEPT !.errors = x]
      BY <2>3, <3>1, PanelMarked, Zenon
    <3>2. CASE q = [p EXCEPT !.errors = x, !.saved = FALSE]
      <4>1. PICK z : z = FALSE
        BY Zenon
      <4>2. PICK u : u = [p EXCEPT !.errors = x]
        BY Zenon
      <4>3. q = [u EXCEPT !.saved = z]
        BY <3>2, <4>1, <4>2, Zenon
      <4>4. IsPanel(u) /\ u.mounted = p.mounted /\ u.rows = p.rows /\ u.dirty = p.dirty
        BY <2>3, <4>2, PanelMarked, Zenon
      <4>5. IsPanel(q) /\ q.mounted = u.mounted /\ q.rows = u.rows /\ q.dirty = u.dirty
        BY <4>3, <4>4, SavedOf
      <4> QED BY <4>4, <4>5, Zenon
    <3> QED BY <2>4, <3>1, <3>2, Zenon
  <2> QED BY <2>1, <2>2, <2>5, Zenon
<1>5. Listed(catalogPuts') /\ \A i \in DOMAIN catalogPuts' : IsCatalogPut(held, catalogPuts'[i])
  <2>1. CASE UNCHANGED catalogPuts
    BY <2>1 DEF ServicesInv
  <2>2. CASE ~UNCHANGED catalogPuts
    <3>1. PICK p : /\ p = [sent |-> FormToServices(panel.rows), answer |-> "none", live |-> TRUE, complaints |-> {}]
                   /\ catalogPuts' = Append(catalogPuts, p)
                   /\ ~HasCatalogErrors(ValidateCatalog(panel.rows))
      BY <2>2, Zenon DEF SaveCatalog
    <3>2. ChecksOut(FormToServices(panel.rows))
      BY <1>2, <3>1, Checked DEF IsPanel
    <3>3. PICK y : y = TRUE
      OBVIOUS
    <3>4. p = [sent |-> FormToServices(panel.rows), answer |-> "none", live |-> y, complaints |-> {}]
      BY <3>1, <3>3, Zenon
    <3>5. p.sent = FormToServices(panel.rows) /\ p.answer = "none" /\ p.live = y /\ p.complaints = {}
      BY <3>4
    <3>6. p = [sent |-> p.sent, answer |-> p.answer, live |-> p.live, complaints |-> p.complaints]
      BY <3>4, <3>5, Zenon
    <3>7. IsCatalogPut(held, p)
      BY <3>2, <3>5, <3>6 DEF IsCatalogPut
    <3>8. catalogPuts' = Append(catalogPuts, p)
      BY <3>1, Zenon
    <3> QED BY <3>7, <3>8, ListedAppend DEF ServicesInv
  <2> QED BY <2>1, <2>2
<1> QED BY <1>1, <1>4, <1>5 DEF ServicesInv, CleanIn

\* The server stores a catalog or refuses it.
LEMMA CatalogPutServed ==
  ASSUME ServicesInv, NEW i \in DOMAIN catalogPuts, ServeCatalogPut(i)
  PROVE  ServicesInv'
<1>1. UNCHANGED <<catalog, panel, filling>> /\ held' = held \cup {services'}
  BY DEF ServeCatalogPut
<1>2. /\ \A p : IsCatalogPut(held, p) => IsCatalogPut(held', p)
      /\ \A p : CleanIn(held, p) => CleanIn(held', p)
      /\ \A d : IsReading(held, d) => IsReading(held', d)
  BY <1>1, HeldGrows
<1>3. Listed(catalogPuts) /\ \A j \in DOMAIN catalogPuts : IsCatalogPut(held', catalogPuts[j])
  BY <1>2 DEF ServicesInv
<1>4. Listed(services') /\ Neat(services')
  BY DEF ServeCatalogPut, ServicesInv, IsCatalogPut, ChecksOut
<1>5. Listed(catalogPuts') /\ \A j \in DOMAIN catalogPuts' : IsCatalogPut(held', catalogPuts'[j])
  <2>1. CASE \E a \in {"ok", "lost"} : services' = catalogPuts[i].sent /\ catalogPuts' = [catalogPuts EXCEPT ![i].answer = a]
    <3>1. PICK a \in {"ok", "lost"} : catalogPuts' = [catalogPuts EXCEPT ![i].answer = a]
      BY <2>1, Zenon
    <3>2. catalogPuts[i].sent \in held' /\ a # "refused"
      BY <1>1, <2>1
    <3> QED BY <1>3, <3>1, <3>2, PutAnswered, Zenon
  <2>2. CASE /\ Complaints(catalogPuts[i].sent) # {}
             /\ catalogPuts' = [catalogPuts EXCEPT ![i].answer = "refused", ![i].complaints = Complaints(catalogPuts[i].sent)]
    BY <1>3, <2>2, PutRefused, Zenon
  <2>3. CASE catalogPuts' = [catalogPuts EXCEPT ![i].answer = "lost"]
    <3>1. "lost" # "ok" /\ "lost" # "refused"
      OBVIOUS
    <3> QED BY <1>3, <2>3, <3>1, PutAnswered, Zenon
  <2> QED BY <2>1, <2>2, <2>3, Zenon DEF ServeCatalogPut
<1> QED BY <1>1, <1>2, <1>4, <1>5 DEF ServicesInv

\* The page takes the answer to a PUT.
LEMMA CatalogAnswered ==
  ASSUME ServicesInv, NEW i \in DOMAIN catalogPuts, CatalogSaved(i) \/ CatalogRefused(i)
  PROVE  ServicesInv' /\ catalog'.fetch = catalog.fetch
<1>1. UNCHANGED <<services, filling, held>> /\ catalogPuts' = [catalogPuts EXCEPT ![i].answer = "done"]
  BY Zenon DEF CatalogSaved, CatalogRefused
<1>2. Listed(catalogPuts') /\ \A j \in DOMAIN catalogPuts' : IsCatalogPut(held, catalogPuts'[j])
  <2>1. "done" # "ok" /\ "done" # "refused"
    OBVIOUS
  <2>2. Listed(catalogPuts) /\ \A j \in DOMAIN catalogPuts : IsCatalogPut(held, catalogPuts[j])
    BY Zenon DEF ServicesInv
  <2> QED BY <1>1, <2>1, <2>2, PutAnswered, Zenon
<1>3. IsPanel(panel)
  BY Zenon DEF ServicesInv
<1>4. CASE CatalogSaved(i)
  <2> DEFINE c == catalogPuts[i].sent
  <2>1. c \in held /\ Listed(c) /\ Neat(c)
    BY <1>4 DEF CatalogSaved, ServicesInv, IsCatalogPut
  <2>2. catalog' = SetQueryData(catalog, Reading(c))
    BY <1>4, Zenon DEF CatalogSaved
  <2>3. catalog' = [data |-> Reading(c), error |-> FALSE, fetch |-> catalog.fetch]
    BY <2>2, CacheFacts, Zenon DEF ServicesInv
  <2>4. \/ panel' = panel
        \/ panel' = [panel EXCEPT !.rows = CatalogToForm(c), !.dirty = FALSE, !.saved = TRUE]
    BY <1>4, Zenon DEF CatalogSaved
  <2> HIDE DEF c
  <2>5. IsEntry(catalog') /\ catalog'.data = Reading(c) /\ catalog'.fetch = catalog.fetch
    BY <2>3 DEF IsEntry, ServicesInv
  <2>6. IsPanel(panel') /\ CleanIn(held, panel')
    <3>1. CASE panel' = panel
      BY <3>1 DEF ServicesInv
    <3>2. CASE panel' = [panel EXCEPT !.rows = CatalogToForm(c), !.dirty = FALSE, !.saved = TRUE]
      <4>1. IsRows(CatalogToForm(c))
        BY <2>1, FormRows
      <4>2. IsPanel(panel') /\ panel'.rows = CatalogToForm(c)
        <5>1. PICK p : p = panel
          BY Zenon
        <5>2. IsPanel(p)
          BY <1>3, <5>1, Zenon
        <5>3. \A r, q : IsRows(r) /\ q = [p EXCEPT !.rows = r, !.dirty = FALSE, !.saved = TRUE] =>
                 IsPanel(q) /\ q.mounted = p.mounted /\ q.rows = r /\ q.dirty = FALSE
          BY <5>2, RowsSaved, Zenon
        <5>4. panel' = [p EXCEPT !.rows = CatalogToForm(c), !.dirty = FALSE, !.saved = TRUE]
          BY <3>2, <5>1, Zenon
        <5> QED BY <4>1, <5>1, <5>3, <5>4, Zenon
      <4> QED BY <2>1, <4>2, Zenon DEF CleanIn
    <3> QED BY <2>4, <3>1, <3>2, Zenon
  <2> QED BY <1>1, <1>2, <2>1, <2>5, <2>6, ReadingFacts DEF ServicesInv, IsReading
<1>5. CASE CatalogRefused(i)
  <2>1. PICK x : panel' = panel \/ panel' = [panel EXCEPT !.errors = x]
    BY <1>5, Zenon DEF CatalogRefused
  <2>2. IsPanel(panel') /\ panel'.mounted = panel.mounted /\ panel'.rows = panel.rows /\ panel'.dirty = panel.dirty
    <3>1. CASE panel' = panel
      BY <1>3, <3>1, Zenon
    <3>2. CASE panel' = [panel EXCEPT !.errors = x]
      <4>1. PICK p : p = panel
        BY Zenon
      <4>2. PICK q : q = panel'
        BY Zenon
      <4>3. IsPanel(p) /\ q = [p EXCEPT !.errors = x]
        BY <1>3, <3>2, <4>1, <4>2, Zenon
      <4>4. IsPanel(q) /\ q.mounted = p.mounted /\ q.rows = p.rows /\ q.dirty = p.dirty
        BY <4>3, PanelMarked, Zenon
      <4> QED BY <4>1, <4>2, <4>4, Zenon
    <3> QED BY <2>1, <3>1, <3>2, Zenon
  <2>3. catalog' = catalog
    BY <1>5 DEF CatalogRefused
  <2> QED BY <1>1, <1>2, <2>2, <2>3 DEF ServicesInv, CleanIn
<1> QED BY <1>4, <1>5

\* Somebody else stores a catalog.
LEMMA CatalogReplaced ==
  ASSUME ServicesInv, StoredByOther
  PROVE  ServicesInv'
<1>1. UNCHANGED <<catalog, panel, filling, catalogPuts>> /\ held' = held \cup {services'} /\ services' \in OtherCatalogs
  BY DEF StoredByOther
<1>2. /\ \A p : IsCatalogPut(held, p) => IsCatalogPut(held', p)
      /\ \A p : CleanIn(held, p) => CleanIn(held', p)
      /\ \A d : IsReading(held, d) => IsReading(held', d)
  BY <1>1, HeldGrows
<1>3. Listed(services') /\ Neat(services')
  BY <1>1, CatalogsAssumption DEF Listed, Neat, PlainStores, CatalogPlain
<1> QED BY <1>1, <1>2, <1>3 DEF ServicesInv

\* Every step of the catalog editor keeps its invariant.
LEMMA ServicesStep ==
  ASSUME ServicesInv, [ServicesNext]_serviceVars
  PROVE  ServicesInv'
<1>1. CASE UNCHANGED serviceVars
  <2>1. UNCHANGED <<services, catalog, panel, filling, catalogPuts, held>>
    BY <1>1 DEF serviceVars
  <2> QED BY <2>1 DEF ServicesInv
<1>2. CASE ReadCatalog \/ ServeCatalog
  BY <1>2, CatalogRead
<1>3. CASE CatalogArrives
  BY <1>3, CatalogArrived
<1>4. CASE OpenCatalog \/ CloseCatalog \/ Revert
  BY <1>4, PanelShown
<1>5. CASE EditRows
  BY <1>5, RowsTyped
<1>6. CASE FillFromShipped
  BY <1>6, CountriesAsked
<1>7. CASE ShippedArrives
  BY <1>7, CountriesArrived
<1>8. CASE SaveCatalog
  BY <1>8, CatalogSent
<1>9. CASE \E i \in DOMAIN catalogPuts : ServeCatalogPut(i) \/ CatalogSaved(i) \/ CatalogRefused(i)
  BY <1>9, CatalogPutServed, CatalogAnswered
<1>10. CASE StoredByOther
  BY <1>10, CatalogReplaced
<1> QED BY <1>1, <1>2, <1>3, <1>4, <1>5, <1>6, <1>7, <1>8, <1>9, <1>10 DEF ServicesNext

\* A catalog that was stored, read into rows and sent back, counts the same.
LEMMA ServicesReturn == ServicesInv /\ PlainStores => UntouchedCountsTheSame
<1> SUFFICES ASSUME ServicesInv, PlainStores, NEW c \in held
             PROVE  LET back == FormToServices(CatalogToForm(c)) IN
                    /\ DOMAIN back = DOMAIN c
                    /\ \A i \in DOMAIN c : Meaning(back[i]) = Meaning(c[i])
  BY DEF UntouchedCountsTheSame
<1>1. CatalogPlain(c)
  BY DEF ServicesInv, Neat
<1> QED BY <1>1, CatalogReturns

\* What the two action properties say of a step.
ServicesKept ==
    /\ filling.step = "asked" /\ filling'.step = "no" /\ filling.rows = panel.rows =>
        /\ panel'.rows # panel.rows => panel'.dirty
        /\ \A i \in DOMAIN panel.rows :
              panel'.rows[i] # panel.rows[i] =>
                  /\ panel.rows[i].country = ""
                  /\ [panel'.rows[i] EXCEPT !.country = ""] = panel.rows[i]
    /\ catalog.fetch.step = "answered" /\ catalog.fetch.data # NoData /\ catalog'.fetch = NotAsked
        => panel'.rows = panel.rows

\* Every step of the catalog editor keeps what the person chose and typed.
LEMMA ServicesActions ==
  ASSUME ServicesInv, [ServicesNext]_serviceVars
  PROVE  ServicesKept
<1>0. NotAsked.step = "no"
  BY DEF NotAsked
<1>1. ASSUME filling'.step = filling.step, catalog'.fetch.step = catalog.fetch.step
      PROVE  ServicesKept
  BY <1>0, <1>1 DEF ServicesKept
<1>2. CASE UNCHANGED serviceVars
  BY <1>1, <1>2 DEF serviceVars
<1>3. CASE OpenCatalog \/ EditRows \/ Revert \/ SaveCatalog \/ StoredByOther
           \/ \E i \in DOMAIN catalogPuts : ServeCatalogPut(i)
  <2>1. UNCHANGED <<filling, catalog>>
    BY <1>3, Zenon DEF OpenCatalog, EditRows, Revert, SaveCatalog, StoredByOther, ServeCatalogPut
  <2> QED BY <1>1, <2>1
<1>4. CASE CloseCatalog
  <2>1. filling' = [filling EXCEPT !.live = FALSE] /\ catalog' = catalog /\ IsFilling(filling)
    BY <1>4, Zenon DEF CloseCatalog, Abandoned, ServicesInv
  <2>2. filling'.step = filling.step
    BY <2>1, FillAbandoned, Zenon
  <2> QED BY <1>1, <2>1, <2>2, Zenon
<1>5. CASE ReadCatalog
  <2>1. catalog.fetch.step = "no" /\ filling' = filling
    BY <1>0, <1>5 DEF ReadCatalog
  <2> QED BY <2>1 DEF ServicesKept
<1>6. CASE ServeCatalog
  <2>1. catalog.fetch = Asked /\ filling' = filling
    BY <1>6 DEF ServeCatalog
  <2>2. catalog.fetch.step = "asked"
    BY <2>1 DEF Asked
  <2> QED BY <2>1, <2>2 DEF ServicesKept
<1>7. CASE CatalogArrives
  <2>1. catalog.fetch.data # NoData => panel' = panel
    <3>1. catalog' = Arrive(catalog) /\ panel' = PanelAfter(catalog')
      BY <1>7 DEF CatalogArrives
    <3>2. catalog.fetch.data # NoData => ~catalog'.error
      BY <3>1, Arrival DEF ServicesInv
    <3> QED BY <3>1, <3>2 DEF PanelAfter
  <2>2. filling'.step = filling.step
    <3>1. CASE UNCHANGED <<filling, catalogPuts>>
      BY <3>1
    <3>2. CASE Abandoned
      <4>1. filling' = [filling EXCEPT !.live = FALSE] /\ IsFilling(filling)
        BY <3>2, Zenon DEF Abandoned, ServicesInv
      <4> QED BY <4>1, FillAbandoned, Zenon
    <3> QED BY <1>7, <3>1, <3>2 DEF CatalogArrives
  <2> QED BY <2>1, <2>2 DEF ServicesKept
<1>8. CASE FillFromShipped
  <2>1. filling'.step = "asked" /\ catalog' = catalog
    BY <1>8, CountriesAsked, Zenon DEF FillFromShipped
  <2> QED BY <1>0, <2>1 DEF ServicesKept
<1>9. CASE ShippedArrives
  <2>1. catalog' = catalog
    BY <1>9, Zenon DEF ShippedArrives
  <2>2. filling.rows = panel.rows =>
               /\ panel'.rows # panel.rows => panel'.dirty
               /\ \A i \in DOMAIN panel.rows :
                     panel'.rows[i] # panel.rows[i] =>
                         panel.rows[i].country = "" /\ [panel'.rows[i] EXCEPT !.country = ""] = panel.rows[i]
    BY <1>9, CountriesArrived, Zenon
  <2>3. catalog.fetch.step = "answered" => catalog'.fetch # NotAsked
    BY <1>0, <2>1
  <2> QED BY <2>2, <2>3, Zenon DEF ServicesKept
<1>10. CASE \E i \in DOMAIN catalogPuts : CatalogSaved(i) \/ CatalogRefused(i)
  <2>1. catalog'.fetch = catalog.fetch /\ filling' = filling
    BY <1>10, CatalogAnswered, Zenon DEF CatalogSaved, CatalogRefused
  <2> QED BY <1>1, <2>1
<1> QED BY <1>2, <1>3, <1>4, <1>5, <1>6, <1>7, <1>8, <1>9, <1>10, Zenon DEF ServicesNext

\* The invariant gives the two properties of the catalog editor; the refusal lands
\* on its row because no name that was sent is there twice.
LEMMA ServicesTruth ==
  ASSUME ServicesInv
  PROVE  CleanIsStored /\ RefusalOnItsRow
<1>1. CleanIsStored
  BY DEF ServicesInv, CleanIn, CleanIsStored
<1>2. ASSUME NEW i \in DOMAIN catalogPuts, catalogPuts[i].answer = "refused"
      PROVE  CatalogProblemErrors(catalogPuts[i].complaints, catalogPuts[i].sent) =
                [rows |-> {j \in DOMAIN catalogPuts[i].sent : ServerRefuses(catalogPuts[i].sent, j)}, general |-> FALSE]
  <2> DEFINE s == catalogPuts[i].sent
             cs == catalogPuts[i].complaints
             bad == {j \in DOMAIN s : ServerRefuses(s, j)}
             at == {ServiceErrorIndex(s, c) : c \in cs}
  <2>1. cs = Complaints(s) /\ cs # {} /\ ChecksOut(s)
    BY <1>2 DEF ServicesInv, IsCatalogPut
  <2>2. cs = {[name |-> s[j].name, position |-> j] : j \in bad}
    BY <2>1 DEF Complaints, ChecksOut
  <2>3. ASSUME NEW j \in DOMAIN s
        PROVE  ServiceErrorIndex(s, [name |-> s[j].name, position |-> j]) = j
    <3>1. s[j].name # "" /\ \A k \in DOMAIN s : s[k].name = s[j].name => k = j
      BY <2>1, <2>3, SlugsAssumption DEF ChecksOut
    <3>2. DOMAIN s = 1..Len(s) /\ Len(s) \in Nat
      BY <2>1, ListedFacts DEF ChecksOut
    <3> HIDE DEF s
    <3>3. {k \in 1..Len(s) : s[k].name = s[j].name} = {j}
      BY <3>1, <3>2
    <3>4. Min({j}) = j
      BY <3>2 DEF Min
    <3>5. PICK c : c = [name |-> s[j].name, position |-> j]
      OBVIOUS
    <3>6. c.name = s[j].name
      BY <3>5
    <3>7. {k \in 1..Len(s) : s[k].name = c.name} = {j}
      BY <3>3, <3>6
    <3>8. ServiceErrorIndex(s, c) = j
      BY <3>1, <3>4, <3>6, <3>7 DEF ServiceErrorIndex, SelectInSeq
    <3> QED BY <3>5, <3>8
  <2>4. at = bad
    <3>1. \A c \in cs : \E j \in bad : ServiceErrorIndex(s, c) = j /\ c = [name |-> s[j].name, position |-> j]
      BY <2>2, <2>3
    <3>2. \A j \in bad : \E c \in cs : ServiceErrorIndex(s, c) = j
      BY <2>2, <2>3
    <3> HIDE DEF cs, bad, s
    <3> QED BY <3>1, <3>2
  <2>5. bad # {} /\ 0 \notin bad
    <3>1. 0 \notin DOMAIN s
      BY <2>1, ListedFacts DEF ChecksOut
    <3> QED BY <2>1, <2>2, <3>1
  <2>6. CatalogProblemErrors(cs, s) = [rows |-> at \ {0}, general |-> 0 \in at \/ at = {}]
    BY Zenon DEF CatalogProblemErrors
  <2>7. at \ {0} = bad
    <3> HIDE DEF at, bad
    <3> QED BY <2>4, <2>5
  <2>8. (0 \in at \/ at = {}) = FALSE
    <3> HIDE DEF at, bad
    <3> QED BY <2>4, <2>5
  <2> HIDE DEF at
  <2>9. CatalogProblemErrors(cs, s) = [rows |-> bad, general |-> FALSE]
    BY <2>6, <2>7, <2>8, Zenon
  <2> QED BY <2>9
<1> QED BY <1>1, <1>2 DEF RefusalOnItsRow

-----------------------------------------------------------------------------
(***************************************************************************)
(* The source editor: versions, bodies and the calls that carry them.      *)
(***************************************************************************)

\* A source that was deleted: there is nothing under its id any more.
Ended(S) == S.origin \in {"gone", "returned"}

\* A source on the server; one that is not stored has version 0.
IsSource(S) ==
    /\ S = [version |-> S.version, edits |-> S.edits, origin |-> S.origin]
    /\ S.version \in Nat
    /\ S.origin = "none" \/ Ended(S) => S.version = 0

\* A version and its edits that the source had once.
Had(S, v, e) ==
    /\ v \in Nat /\ v > 0
    /\ ~Managed(S) => Ended(S)
    /\ Managed(S) => v <= S.version /\ e \subseteq S.edits /\ (v = S.version => e = S.edits)

\* Nothing, or a body the source had once.
HadBody(S, b) == b = NoData \/ Had(S, b.version, b.edits)

\* A save that waits replaces nothing it did not start from.
Builds(S, v, e) ==
    /\ v \in Nat /\ v > 0
    /\ ~Managed(S) => Ended(S)
    /\ Managed(S) => v <= S.version /\ (v = S.version => S.edits \subseteq e)

\* A call of the editor: one that was accepted carries what the source had then, one
\* that waits builds on the version it names.
IsCall(S, c) ==
    /\ c = [op |-> c.op, version |-> c.version, edits |-> c.edits, live |-> c.live, answer |-> c.answer]
    /\ c.op \in {"create", "adopt", "update", "delete"} /\ c.live \in BOOLEAN
    /\ c.answer \in {"none", "checked", "ok", "lost", "conflict", "refused", "done"}
    /\ c.op \in {"update", "adopt"} /\ c.answer = "ok" => Had(S, c.version, c.edits)
    /\ c.op = "update" /\ c.answer = "none" => Builds(S, c.version, c.edits)

\* The editor on the screen.
IsEditor(ed) ==
    /\ ed = [kind |-> ed.kind, base |-> ed.base, draft |-> ed.draft, conflict |-> ed.conflict,
             failed |-> ed.failed, confirm |-> ed.confirm]

\* The editor of a source is keyed by the version the page holds; that of a new
\* source starts from nothing.
Keyed(pg, it, ed) ==
    /\ ed.kind = "new" => ed.base = NoData
    /\ ed.kind = "item" => pg = "item" /\ it.data # NoData /\ ed.base # NoData /\ ed.base.version = it.data.version

\* A version the page was told of is not newer than the source.
ToldOf(S, n) == n = 0 \/ (n \in Nat /\ (~Managed(S) => Ended(S)) /\ (Managed(S) => n <= S.version))

\* What the page holds is as new as what it was told, or is being read.
Fresh(pg, it, n) ==
    /\ pg # "item" => it.fetch = NotAsked
    /\ pg = "item" /\ it.fetch = NotAsked /\ ~it.error => it.data.version >= n
    /\ pg = "item" /\ it.fetch.step = "answered" /\ it.fetch.data # NoData => it.fetch.data.version >= n

\* The invariant of the source editor: what the page holds, edits and sends is tied
\* to versions the source had, and the page is no older than what it was told.
EditorInv ==
    /\ IsSource(source)
    /\ IsEntry(item) /\ HadBody(source, item.data) /\ HadBody(source, item.fetch.data)
    /\ IsEditor(editor) /\ HadBody(source, editor.base) /\ Keyed(page, item, editor)
    /\ Listed(calls) /\ \A i \in DOMAIN calls : IsCall(source, calls[i])
    /\ ToldOf(source, told) /\ told \in Nat
    /\ Fresh(page, item, told)

\* What somebody else saved and b does not have.
Beyond(S, b) == (S.edits \cap Others) \ (IF b = NoData THEN {} ELSE b.edits) # {}

\* The source is there and holds what the editor does not show, or is gone again.
Disputed(S, ed) == S.origin # "none" /\ (Managed(S) => Beyond(S, ed.base))

\* A name that was free when it was checked has been taken by somebody else since.
Taken(S, ed) == Managed(S) => Beyond(S, ed.base)

\* A save whose form is still on the screen.
LiveSave(c) == c.live /\ Waiting(c) /\ c.op \in {"create", "update"}

\* What each call on its way says of the editor it came from.
OfEditor(c, ed) ==
    /\ Waiting(c) => c.live
    /\ c.live /\ Waiting(c) /\ c.op = "create" => ed.kind = "new"
    /\ c.live /\ Waiting(c) /\ c.op = "adopt" => ed.kind = "file"
    /\ c.live /\ Waiting(c) /\ c.op = "update" =>
        /\ ed.kind = "item"
        /\ c.answer = "none" => c.version = ed.base.version
        /\ c.answer = "ok" => c.version > ed.base.version

\* A save was accepted and the page has not heard of it yet.
Served(cs) == \E i \in DOMAIN cs : cs[i].op = "update" /\ cs[i].answer = "ok"

\* A body that is not current is behind somebody else's edit.
Explained(S, b) == b # NoData /\ Managed(S) => b.version = S.version \/ Beyond(S, b)

\* What each call says of the editor and of the source.
CallsInv(S, ed, cs) ==
    /\ \A i \in DOMAIN cs : OfEditor(cs[i], ed)
    /\ \A i, j \in DOMAIN cs : LiveSave(cs[i]) /\ LiveSave(cs[j]) => i = j
    /\ \A i \in DOMAIN cs : cs[i].op \in {"update", "adopt"} /\ cs[i].answer = "ok" => Explained(S, cs[i])
    /\ ed.conflict => ed.kind \in {"new", "item"} /\ Disputed(S, ed)
    /\ \A i \in DOMAIN cs : cs[i].live /\ cs[i].op \in {"create", "update"} /\ cs[i].answer = "conflict" => Disputed(S, ed)
    /\ \A i \in DOMAIN cs : cs[i].live /\ cs[i].op = "create" /\ cs[i].answer = "checked" => Taken(S, ed)

\* What the page holds and edits is explained, or its own save explains it.
BodiesInv(S, it, ed, cs) ==
    Served(cs) \/ (Explained(S, it.data) /\ Explained(S, it.fetch.data) /\ Explained(S, ed.base))

\* Why a conflict is somebody else's: until a call outlives its page or an answer is
\* lost, every version the page may build on is current, or behind an edit of another
\* administrator, or about to be replaced by the answer to its own save.
ConflictInv == ~orphaned => CallsInv(source, editor, calls) /\ BodiesInv(source, item, editor, calls)

\* The page starts with the source of the server and nothing read.
LEMMA EditorStart == EditorInit => EditorInv /\ ConflictInv
<1> SUFFICES ASSUME EditorInit PROVE EditorInv /\ ConflictInv
  OBVIOUS
<1>1. IsSource(source) /\ item = EmptyEntry /\ page = "list" /\ editor = NoEditor /\ calls = <<>> /\ told = 0
  BY DEF EditorInit, IsSource, Ended
<1>2. PICK z : z = FALSE
  OBVIOUS
<1>3. item = [data |-> NoData, error |-> z, fetch |-> NotAsked]
  BY <1>1, <1>2, Zenon DEF EmptyEntry
<1>4. IsEntry(item) /\ item.data = NoData /\ item.fetch = NotAsked /\ item.fetch.data = NoData
  BY <1>3 DEF IsEntry, NotAsked
<1>5. editor = [kind |-> "none", base |-> NoData, draft |-> {}, conflict |-> z, failed |-> z, confirm |-> z]
  BY <1>1, <1>2, Zenon DEF NoEditor
<1>6. editor.kind = "none" /\ editor.base = NoData /\ editor.draft = {} /\ editor.conflict = z /\ editor.failed = z /\ editor.confirm = z
  BY <1>5
<1>7. IsEditor(editor)
  BY <1>5, <1>6, Zenon DEF IsEditor
<1>8. Listed(calls) /\ DOMAIN calls = {}
  BY <1>1 DEF Listed
<1>9. EditorInv
  BY <1>1, <1>4, <1>6, <1>7, <1>8 DEF EditorInv, HadBody, Keyed, ToldOf, Fresh, Ended
<1>10. ConflictInv
  BY <1>2, <1>4, <1>6, <1>8 DEF ConflictInv, CallsInv, BodiesInv, Explained
<1> QED BY <1>9, <1>10

\* The editors a page may mount.
LEMMA Mounting ==
  ASSUME NEW k, NEW b
  PROVE  LET m == Mount(k, b) IN
         IsEditor(m) /\ m.kind = k /\ m.base = b /\ ~m.conflict
<1> DEFINE m == Mount(k, b)
<1>1. PICK z : z = FALSE
  OBVIOUS
<1>2. NoEditor = [kind |-> "none", base |-> NoData, draft |-> {}, conflict |-> z, failed |-> z, confirm |-> z]
  BY <1>1, Zenon DEF NoEditor
<1>3. PICK n : n = [NoEditor EXCEPT !.kind = k]
  BY Zenon
<1>4. m = [n EXCEPT !.base = b]
  BY <1>3, Zenon DEF Mount
<1> SUFFICES IsEditor(m) /\ m.kind = k /\ m.base = b /\ ~m.conflict
  OBVIOUS
<1> HIDE DEF m
<1>5. n = [kind |-> k, base |-> NoData, draft |-> {}, conflict |-> z, failed |-> z, confirm |-> z]
  BY <1>2, <1>3
<1>6. m = [kind |-> k, base |-> b, draft |-> {}, conflict |-> z, failed |-> z, confirm |-> z]
  BY <1>4, <1>5
<1>7. m.kind = k /\ m.base = b /\ m.draft = {} /\ m.conflict = z /\ m.failed = z /\ m.confirm = z
  BY <1>6
<1> QED BY <1>1, <1>6, <1>7, Zenon DEF IsEditor

\* No editor is on the screen.
LEMMA Unmounting == IsEditor(NoEditor) /\ NoEditor.kind = "none" /\ NoEditor.base = NoData /\ ~NoEditor.conflict
<1>1. PICK z : z = FALSE
  OBVIOUS
<1>2. NoEditor = [kind |-> "none", base |-> NoData, draft |-> {}, conflict |-> z, failed |-> z, confirm |-> z]
  BY <1>1, Zenon DEF NoEditor
<1>3. /\ NoEditor.kind = "none" /\ NoEditor.base = NoData /\ NoEditor.draft = {} /\ NoEditor.conflict = z
      /\ NoEditor.failed = z /\ NoEditor.confirm = z
  BY <1>2
<1> QED BY <1>1, <1>2, <1>3, Zenon DEF IsEditor

\* What a page shows after its queries changed.
LEMMA RenderedFacts ==
  ASSUME IsEditor(editor), Keyed(page, item, editor), NEW pg, NEW it, NEW li
  PROVE  LET ed == Rendered(pg, it, li) IN
         /\ IsEditor(ed) /\ Keyed(pg, it, ed)
         /\ ed = editor \/ ((ed.base = NoData \/ ed.base = it.data) /\ ~ed.conflict)
<1> DEFINE ed == Rendered(pg, it, li)
<1> SUFFICES /\ IsEditor(ed) /\ Keyed(pg, it, ed)
             /\ ed = editor \/ ((ed.base = NoData \/ ed.base = it.data) /\ ~ed.conflict)
  OBVIOUS
<1> DEFINE ok == it.data # NoData /\ ~it.error
           lok == li.data # NoData /\ ~li.error
<1>1. \/ ed = NoEditor \/ ed = Mount("new", NoData) \/ ed = Mount("file", NoData)
      \/ ed = editor /\ editor.kind \in {"new", "file"}
      \/ ed = editor /\ pg = "item" /\ it.data # NoData /\ editor.kind = "item" /\ editor.base.version = it.data.version
      \/ ed = Mount("item", it.data) /\ pg = "item" /\ it.data # NoData
  <2>1. CASE pg = "new"
    BY <2>1 DEF Rendered
  <2>2. CASE pg = "item" /\ ok
    <3>1. pg # "new" /\ pg # "file" /\ pg = "item"
      BY <2>2
    <3>2. ed = IF editor.kind = "item" /\ editor.base.version = it.data.version THEN editor ELSE Mount("item", it.data)
      BY <2>2, <3>1 DEF Rendered
    <3> QED BY <2>2, <3>2
  <2>3. CASE pg = "file" /\ lok
    <3>1. pg # "new" /\ pg # "item"
      BY <2>3
    <3>2. ed = IF ~li.data.file THEN NoEditor ELSE IF editor.kind = "file" THEN editor ELSE Mount("file", NoData)
      BY <2>3, <3>1 DEF Rendered
    <3> QED BY <3>2
  <2>4. CASE pg # "new" /\ ~(pg = "item" /\ ok) /\ ~(pg = "file" /\ lok)
    <3>1. ed = NoEditor
      BY <2>4 DEF Rendered
    <3> QED BY <3>1
  <2> QED BY <2>1, <2>2, <2>3, <2>4
<1> HIDE DEF ed, ok, lok
<1>2. CASE ed = NoEditor
  BY <1>2, Unmounting DEF Keyed
<1>3. CASE \E k \in {"new", "file"} : ed = Mount(k, NoData)
  BY <1>3, Mounting DEF Keyed
<1>4. CASE ed = editor /\ editor.kind \in {"new", "file"}
  BY <1>4 DEF Keyed
<1>5. CASE ed = editor /\ pg = "item" /\ it.data # NoData /\ editor.kind = "item" /\ editor.base.version = it.data.version
  BY <1>5 DEF Keyed
<1>6. CASE ed = Mount("item", it.data) /\ pg = "item" /\ it.data # NoData
  BY <1>6, Mounting DEF Keyed
<1> QED BY <1>1, <1>2, <1>3, <1>4, <1>5, <1>6

\* Calls whose callbacks are dropped.
LEMMA CallsDropped ==
  ASSUME NEW S, NEW cs, Listed(cs), \A i \in DOMAIN cs : IsCall(S, cs[i])
  PROVE  LET u == Unmounted(cs) IN
         /\ Listed(u) /\ DOMAIN u = DOMAIN cs
         /\ \A i \in DOMAIN u : /\ IsCall(S, u[i]) /\ ~u[i].live /\ u[i].op = cs[i].op /\ u[i].answer = cs[i].answer
                                /\ u[i].version = cs[i].version /\ u[i].edits = cs[i].edits
<1> DEFINE u == Unmounted(cs)
<1>1. u = [i \in DOMAIN cs |-> [cs[i] EXCEPT !.live = FALSE]]
  BY Zenon DEF Unmounted
<1>2. u = [i \in DOMAIN cs |-> u[i]]
  BY <1>1, Zenon
<1>3. Listed(u) /\ DOMAIN u = DOMAIN cs
  <2> HIDE DEF u
  <2> QED BY <1>2, ListedMap
<1>4. ASSUME NEW i \in DOMAIN cs
      PROVE  /\ IsCall(S, u[i]) /\ ~u[i].live /\ u[i].op = cs[i].op /\ u[i].answer = cs[i].answer
             /\ u[i].version = cs[i].version /\ u[i].edits = cs[i].edits
  <2>1. PICK c : c = cs[i]
    BY Zenon
  <2>2. PICK d : d = u[i]
    BY Zenon
  <2>3. PICK z : z = FALSE
    BY Zenon
  <2>4. d = [c EXCEPT !.live = z]
    BY <1>1, <2>1, <2>2, <2>3, Zenon
  <2>5. IsCall(S, c)
    BY <2>1, Zenon
  <2>6. d = [op |-> c.op, version |-> c.version, edits |-> c.edits, live |-> z, answer |-> c.answer]
    BY <2>4, <2>5 DEF IsCall
  <2>7. d.op = c.op /\ d.version = c.version /\ d.edits = c.edits /\ d.live = z /\ d.answer = c.answer
    BY <2>6
  <2>8. d.live \in BOOLEAN
    BY <2>3, <2>7
  <2>9. IsCall(S, d)
    BY <2>5, <2>6, <2>7, <2>8, Zenon DEF IsCall
  <2> QED BY <2>1, <2>2, <2>3, <2>7, <2>9, Zenon
<1> SUFFICES /\ Listed(u) /\ DOMAIN u = DOMAIN cs
             /\ \A i \in DOMAIN u : /\ IsCall(S, u[i]) /\ ~u[i].live /\ u[i].op = cs[i].op /\ u[i].answer = cs[i].answer
                                    /\ u[i].version = cs[i].version /\ u[i].edits = cs[i].edits
  OBVIOUS
<1> HIDE DEF u
<1> QED BY <1>3, <1>4

\* An entry nobody observes has no read on its way, and is otherwise the same.
LEMMA ObservedFacts ==
  ASSUME NEW pg, NEW it, IsEntry(it)
  PROVE  LET o == Observed(pg, it) IN
         /\ IsEntry(o) /\ o.data = it.data /\ o.error = it.error
         /\ pg = "item" => o = it
         /\ pg # "item" => o.fetch = NotAsked
<1>1. CASE pg = "item"
  BY <1>1 DEF Observed
<1>2. CASE pg # "item"
  <2>1. Observed(pg, it) = [data |-> it.data, error |-> it.error, fetch |-> NotAsked]
    BY <1>2 DEF Observed, IsEntry
  <2> QED BY <1>2, <2>1 DEF IsEntry
<1> QED BY <1>1, <1>2

\* A page that is shown keeps EditorInv, given what its queries hold.
LEMMA Showing ==
  ASSUME EditorInv, NEW pg, NEW it, NEW li, NEW cs, Show(pg, it, li, cs), source' = source,
         IsEntry(it), HadBody(source, it.data), HadBody(source, it.fetch.data),
         Listed(cs), \A i \in DOMAIN cs : IsCall(source, cs[i]),
         ToldOf(source, told'), told' \in Nat, pg = "item" => Fresh(pg, it, told')
  PROVE  /\ EditorInv'
         /\ editor' = Rendered(pg, it, li)
         /\ item'.data = it.data /\ (item'.fetch = it.fetch \/ item'.fetch = NotAsked)
<1> DEFINE ed == Rendered(pg, it, li)
           o == Observed(pg, it)
<1>1. page' = pg /\ item' = o /\ editor' = ed /\ calls' = IF ed = editor THEN cs ELSE Unmounted(cs)
  BY DEF Show
<1>2. /\ IsEditor(ed) /\ Keyed(pg, it, ed)
      /\ ed = editor \/ ((ed.base = NoData \/ ed.base = it.data) /\ ~ed.conflict)
  BY RenderedFacts DEF EditorInv
<1>3. /\ IsEntry(o) /\ o.data = it.data /\ o.error = it.error
      /\ pg = "item" => o = it
      /\ pg # "item" => o.fetch = NotAsked
  BY ObservedFacts
<1> HIDE DEF ed, o
<1>4. HadBody(source, ed.base)
  BY <1>2 DEF HadBody, EditorInv
<1>5. HadBody(source, o.data) /\ HadBody(source, o.fetch.data)
  BY <1>3 DEF HadBody, NotAsked
<1>6. Fresh(pg, o, told') /\ Keyed(pg, o, ed)
  BY <1>2, <1>3 DEF Fresh, Keyed
<1>7. Listed(calls') /\ \A i \in DOMAIN calls' : IsCall(source, calls'[i])
  BY <1>1, CallsDropped
<1>8. EditorInv'
  BY <1>1, <1>2, <1>3, <1>4, <1>5, <1>6, <1>7 DEF EditorInv
<1> QED BY <1>1, <1>3, <1>8 DEF ed

\* A page that is shown keeps ConflictInv, given what its queries and calls say.
LEMMA ShowingConflict ==
  ASSUME EditorInv, NEW pg, NEW it, NEW li, NEW cs, Show(pg, it, li, cs), source' = source,
         IsEntry(it), Listed(cs), \A i \in DOMAIN cs : IsCall(source, cs[i]),
         ~orphaned =>
             /\ CallsInv(source, editor, cs)
             /\ Served(cs) \/ (Explained(source, it.data) /\ Explained(source, it.fetch.data))
             /\ Rendered(pg, it, li) = editor => Served(cs) \/ Explained(source, editor.base)
  PROVE  ConflictInv'
<1> DEFINE ed == Rendered(pg, it, li)
           o == Observed(pg, it)
<1>1. page' = pg /\ item' = o /\ editor' = ed /\ calls' = IF ed = editor THEN cs ELSE Unmounted(cs)
  BY DEF Show
<1>2. orphaned' <=> (orphaned \/ (ed # editor /\ \E i \in DOMAIN cs : cs[i].live /\ Waiting(cs[i])))
  BY DEF Show
<1>3. ed = editor \/ ((ed.base = NoData \/ ed.base = it.data) /\ ~ed.conflict)
  BY RenderedFacts DEF EditorInv
<1>4. /\ o.data = it.data
      /\ pg = "item" => o = it
      /\ pg # "item" => o.fetch = NotAsked
  BY ObservedFacts
<1>5. NotAsked.data = NoData
  BY DEF NotAsked
<1>6. ASSUME ~orphaned'
      PROVE  CallsInv(source, editor', calls') /\ BodiesInv(source, item', editor', calls')
  <2>1. ~orphaned
    BY <1>2, <1>6
  <2>2. Served(cs) \/ (Explained(source, o.data) /\ Explained(source, o.fetch.data))
    BY <1>4, <1>5, <2>1 DEF Explained
  <2>3. CASE ed = editor
    <3>1. BodiesInv(source, o, editor, cs)
      BY <2>1, <2>2, <2>3 DEF BodiesInv
    <3> HIDE DEF ed, o
    <3> QED BY <1>1, <2>1, <2>3, <3>1
  <2>4. CASE ed # editor
    <3>1. \A i \in DOMAIN cs : ~Waiting(cs[i])
      BY <1>2, <1>6, <2>1, <2>4 DEF CallsInv, OfEditor
    <3>2. /\ DOMAIN calls' = DOMAIN cs
          /\ \A i \in DOMAIN calls' : calls'[i].answer = cs[i].answer
      <4>1. calls' = Unmounted(cs)
        BY <1>1, <2>4
      <4>2. /\ DOMAIN Unmounted(cs) = DOMAIN cs
            /\ \A i \in DOMAIN Unmounted(cs) : Unmounted(cs)[i].answer = cs[i].answer
        BY CallsDropped
      <4> QED BY <4>1, <4>2
    <3>3. \A i \in DOMAIN calls' : ~Waiting(calls'[i]) /\ calls'[i].answer = "done"
      BY <3>1, <3>2 DEF Waiting
    <3> HIDE DEF ed, o
    <3>4. CallsInv(source, editor', calls')
      BY <1>1, <1>3, <2>4, <3>3 DEF CallsInv, OfEditor, LiveSave
    <3>5. ~Served(cs)
      BY <3>1 DEF Served, Waiting
    <3>6. Explained(source, o.data) /\ Explained(source, o.fetch.data) /\ Explained(source, ed.base)
      BY <1>3, <1>4, <2>2, <2>4, <3>5 DEF Explained
    <3> QED BY <1>1, <3>4, <3>6 DEF BodiesInv
  <2> QED BY <2>3, <2>4
<1>7. source' = source
  OBVIOUS
<1> HIDE DEF ed, o
<1> QED BY <1>6, <1>7 DEF ConflictInv, CallsInv, BodiesInv

\* The constants of the cache.
LEMMA FetchFacts ==
  /\ NoData.version = 0
  /\ NotAsked.data = NoData /\ NotAsked.step = "no" /\ Asked.data = NoData /\ Asked.step = "asked"
  /\ Asked # NotAsked
BY DEF NoData, NotAsked, Asked

\* Going to another page, and the list arriving.
LEMMA PageLeft ==
  ASSUME EditorInv, ConflictInv, (\E pg \in Pages : Navigate(pg)) \/ ListArrives
  PROVE  EditorInv' /\ ConflictInv'
<1>1. PICK pg, it, li :
         /\ Show(pg, it, li, calls) /\ source' = source /\ told' = told
         /\ \/ pg = page /\ it = item
            \/ pg # page /\ it = IF pg = "item" THEN Refetch(item) ELSE item
  BY DEF Navigate, ListArrives
<1>2. /\ IsEntry(it) /\ it.data = item.data /\ (it.fetch.data = item.fetch.data \/ it.fetch.data = NoData)
      /\ pg = "item" => Fresh(pg, it, told)
  <2>1. CASE pg = page /\ it = item
    BY <2>1 DEF EditorInv
  <2>2. CASE pg # page /\ pg # "item" /\ it = item
    BY <2>2 DEF EditorInv
  <2>3. CASE pg # page /\ pg = "item" /\ it = Refetch(item)
    <3>1. item.fetch = NotAsked
      BY <2>3 DEF EditorInv, Fresh
    <3>2. it = [data |-> item.data, error |-> item.error, fetch |-> Asked]
      BY <2>3, <3>1, CacheFacts DEF EditorInv
    <3>3. IsEntry(it) /\ it.data = item.data /\ it.fetch = Asked
      BY <3>2 DEF IsEntry
    <3> QED BY <3>3, FetchFacts DEF Fresh
  <2> QED BY <1>1, <2>1, <2>2, <2>3
<1>3. HadBody(source, it.data) /\ HadBody(source, it.fetch.data)
  BY <1>2 DEF EditorInv, HadBody
<1>4. Listed(calls) /\ \A i \in DOMAIN calls : IsCall(source, calls[i])
  BY DEF EditorInv
<1>5. EditorInv'
  BY <1>1, <1>2, <1>3, <1>4, Showing DEF EditorInv
<1>6. ASSUME ~orphaned
      PROVE  /\ CallsInv(source, editor, calls)
             /\ Served(calls) \/ (Explained(source, it.data) /\ Explained(source, it.fetch.data))
             /\ Rendered(pg, it, li) = editor => Served(calls) \/ Explained(source, editor.base)
  <2>1. CallsInv(source, editor, calls) /\ BodiesInv(source, item, editor, calls)
    BY <1>6 DEF ConflictInv
  <2>2. Served(calls) \/ (Explained(source, item.data) /\ Explained(source, item.fetch.data) /\ Explained(source, editor.base))
    BY <2>1 DEF BodiesInv
  <2> QED BY <1>2, <2>1, <2>2 DEF Explained
<1>7. ConflictInv'
  BY <1>1, <1>2, <1>4, <1>6, ShowingConflict
<1> QED BY <1>5, <1>7

\* The source arrives that was read.
LEMMA ItemRead ==
  ASSUME EditorInv, ConflictInv, ItemArrives
  PROVE  EditorInv' /\ ConflictInv'
<1> DEFINE it == Arrive(item)
           v == item.fetch.data.version
<1>1. /\ Show(page, it, list, calls) /\ source' = source /\ told' = (IF v > told THEN v ELSE told)
      /\ item.fetch.step = "answered"
  BY DEF ItemArrives, Newer
<1>2. /\ IsEntry(it) /\ it.fetch = NotAsked
      /\ item.fetch.data = NoData => it.data = item.data /\ it.error
      /\ item.fetch.data # NoData => it.data = item.fetch.data
  BY Arrival DEF EditorInv
<1>3. page = "item"
  BY <1>1, FetchFacts DEF EditorInv, Fresh
<1>4. v \in Nat /\ (item.fetch.data # NoData => v >= told /\ Had(source, v, item.fetch.data.edits)) /\ (item.fetch.data = NoData => v = 0)
  BY <1>1, <1>3, FetchFacts DEF EditorInv, Fresh, HadBody, Had
<1> HIDE DEF it, v
<1>5. told' \in Nat /\ ToldOf(source, told')
  <2>1. told \in Nat /\ ToldOf(source, told)
    BY DEF EditorInv
  <2> QED BY <1>1, <1>4, <2>1 DEF ToldOf, Had
<1>6. Fresh(page, it, told')
  <2>1. told \in Nat
    BY DEF EditorInv
  <2>2. ~it.error => it.data.version >= told'
    <3>1. CASE item.fetch.data = NoData
      BY <1>2, <3>1
    <3>2. CASE item.fetch.data # NoData
      <4>1. it.data.version = v /\ v >= told
        BY <1>2, <1>4, <3>2 DEF v
      <4> QED BY <1>1, <1>4, <2>1, <4>1
    <3> QED BY <3>1, <3>2
  <2> QED BY <1>2, <1>3, <2>2, FetchFacts DEF Fresh
<1>7. HadBody(source, it.data) /\ HadBody(source, it.fetch.data)
  BY <1>2, FetchFacts DEF EditorInv, HadBody
<1>8. Listed(calls) /\ \A i \in DOMAIN calls : IsCall(source, calls[i])
  BY DEF EditorInv
<1>9. EditorInv'
  BY <1>1, <1>2, <1>5, <1>6, <1>7, <1>8, Showing
<1>10. ASSUME ~orphaned
      PROVE  /\ CallsInv(source, editor, calls)
             /\ Served(calls) \/ (Explained(source, it.data) /\ Explained(source, it.fetch.data))
             /\ Rendered(page, it, list) = editor => Served(calls) \/ Explained(source, editor.base)
  <2>1. CallsInv(source, editor, calls) /\ BodiesInv(source, item, editor, calls)
    BY <1>10 DEF ConflictInv
  <2>2. Served(calls) \/ (Explained(source, item.data) /\ Explained(source, item.fetch.data) /\ Explained(source, editor.base))
    BY <2>1 DEF BodiesInv
  <2> QED BY <1>2, <2>1, <2>2, FetchFacts DEF Explained
<1>11. ConflictInv'
  BY <1>1, <1>2, <1>8, <1>10, ShowingConflict
<1> QED BY <1>9, <1>11

\* One answer is done with.
LEMMA CallDone ==
  ASSUME NEW S, NEW c, IsCall(S, c), NEW a, a \in {"checked", "refused", "done"}, NEW d, d = [c EXCEPT !.answer = a]
  PROVE  IsCall(S, d) /\ d.op = c.op /\ d.version = c.version /\ d.edits = c.edits /\ d.live = c.live /\ d.answer = a
<1>1. d = [op |-> c.op, version |-> c.version, edits |-> c.edits, live |-> c.live, answer |-> a]
  BY DEF IsCall
<1>2. d.op = c.op /\ d.version = c.version /\ d.edits = c.edits /\ d.live = c.live /\ d.answer = a
  BY <1>1
<1>3. IsCall(S, d)
  BY <1>1, <1>2 DEF IsCall
<1> QED BY <1>2, <1>3

\* An answer that is done with explains no more than before.
LEMMA CallsInvDone ==
  ASSUME NEW S, NEW ed, NEW cs, CallsInv(S, ed, cs), NEW i \in DOMAIN cs, NEW t, DOMAIN t = DOMAIN cs,
         \A j \in DOMAIN t : t[j].op = cs[j].op /\ t[j].live = cs[j].live /\ (j # i => t[j] = cs[j]),
         \/ t[i].answer = "done"
         \/ t[i].answer = "refused" /\ cs[i].answer \in {"none", "checked"}
         \/ t[i].answer = "checked" /\ cs[i].answer = "none" /\ Taken(S, ed)
  PROVE  /\ CallsInv(S, ed, t)
         /\ Served(cs) /\ ~(cs[i].op = "update" /\ cs[i].answer = "ok") => Served(t)
<1>1. \A j \in DOMAIN t : Waiting(t[j]) => Waiting(cs[j])
  BY DEF Waiting
<1>2. \A j \in DOMAIN t : t[j].answer \in {"ok", "conflict", "none"} => t[j] = cs[j]
  OBVIOUS
<1>3. \A j \in DOMAIN t : OfEditor(t[j], ed)
  <2> TAKE j \in DOMAIN t
  <2>1. OfEditor(cs[j], ed) /\ t[j].op = cs[j].op /\ t[j].live = cs[j].live
    BY DEF CallsInv
  <2>2. CASE t[j] = cs[j]
    BY <2>1, <2>2
  <2>3. CASE t[j] # cs[j]
    <3>1. t[j].answer # "none" /\ t[j].answer # "ok"
      BY <1>2, <2>3
    <3> QED BY <1>1, <2>1, <3>1 DEF OfEditor
  <2> QED BY <2>2, <2>3
<1>4. \A j, k \in DOMAIN t : LiveSave(t[j]) /\ LiveSave(t[k]) => j = k
  BY <1>1 DEF CallsInv, LiveSave
<1>5. \A j \in DOMAIN t : t[j].op \in {"update", "adopt"} /\ t[j].answer = "ok" => Explained(S, t[j])
  BY <1>2 DEF CallsInv
<1>6. \A j \in DOMAIN t : t[j].live /\ t[j].op \in {"create", "update"} /\ t[j].answer = "conflict" => Disputed(S, ed)
  BY <1>2 DEF CallsInv
<1>c. \A j \in DOMAIN t : t[j].live /\ t[j].op = "create" /\ t[j].answer = "checked" => Taken(S, ed)
  <2>1. \A j \in DOMAIN t : t[j].answer = "checked" => t[j] = cs[j] \/ Taken(S, ed)
    OBVIOUS
  <2> QED BY <2>1 DEF CallsInv
<1>7. CallsInv(S, ed, t)
  BY <1>3, <1>4, <1>5, <1>6, <1>c DEF CallsInv
<1>8. Served(cs) /\ ~(cs[i].op = "update" /\ cs[i].answer = "ok") => Served(t)
  BY DEF Served
<1> QED BY <1>7, <1>8

\* What the page holds after a call succeeded.
LEMMA SuccessShown ==
  ASSUME EditorInv, NEW c, IsCall(source, c), c.answer = "ok", NEW pg,
         NEW it, it = InvalidatedItem(pg, AfterSuccess(item, c)),
         NEW is, is = IF pg = "item" /\ page # "item" THEN Refetch(it) ELSE it
  PROVE  /\ IsEntry(is) /\ (pg # "item" => is.fetch = item.fetch)
         /\ pg = "item" => is.fetch = Asked \/ (page = "item" /\ c.op \notin {"update", "adopt"} /\ is.fetch = item.fetch /\ is.fetch # NotAsked)
         /\ c.op \in {"update", "adopt"} => is.data = [version |-> c.version, edits |-> c.edits]
         /\ c.op \notin {"update", "adopt"} => is.data = item.data
<1> DEFINE a == AfterSuccess(item, c)
           own == c.op \in {"update", "adopt"}
           d == [version |-> c.version, edits |-> c.edits]
<1>1. IsEntry(item)
  BY DEF EditorInv
<1>2. IsEntry(a) /\ a.fetch = item.fetch /\ (own => a.data = d) /\ (~own => a.data = item.data)
  <2>1. CASE own
    <3>1. a = SetQueryData(item, d)
      BY <2>1, Zenon DEF AfterSuccess
    <3> HIDE DEF a, d
    <3>2. a = [data |-> d, error |-> FALSE, fetch |-> item.fetch]
      BY <1>1, <3>1, CacheFacts, Zenon
    <3>3. PICK z : z = FALSE
      OBVIOUS
    <3>4. a = [data |-> d, error |-> z, fetch |-> item.fetch]
      BY <3>2, <3>3, Zenon
    <3> QED BY <1>1, <2>1, <3>4 DEF IsEntry
  <2>2. CASE ~own
    BY <1>1, <2>2 DEF AfterSuccess
  <2> QED BY <2>1, <2>2
<1> HIDE DEF a
<1>f. own => d # NoData
  <2>1. own => c.version > 0
    BY DEF IsCall, Had
  <2>2. d.version = c.version
    OBVIOUS
  <2> HIDE DEF d
  <2> QED BY <2>1, <2>2, FetchFacts
<1>3. /\ IsEntry(it) /\ it.data = a.data /\ (pg # "item" => it.fetch = a.fetch)
      /\ pg = "item" => it.fetch = Asked \/ (~own /\ it.fetch = item.fetch /\ it.fetch # NotAsked)
  <2>1. CASE pg = "item"
    <3>1. it = [data |-> a.data, error |-> a.error, fetch |-> IF FirstRead(a) THEN a.fetch ELSE Asked]
      BY <1>2, <2>1, CacheFacts DEF InvalidatedItem, a
    <3>2. FirstRead(a) => ~own /\ a.fetch # NotAsked
      BY <1>2, <1>f DEF FirstRead
    <3> QED BY <1>2, <2>1, <3>1, <3>2 DEF IsEntry
  <2>2. CASE pg # "item"
    BY <1>2, <2>2 DEF InvalidatedItem, a
  <2> QED BY <2>1, <2>2
<1>4. IsEntry(is) /\ is.data = it.data /\ is.fetch = it.fetch
  <2>1. CASE pg = "item" /\ page # "item"
    <3>1. Refetch(it) = it
      BY <1>3, <2>1, FetchFacts DEF Refetch
    <3> QED BY <1>3, <2>1, <3>1
  <2>2. CASE ~(pg = "item" /\ page # "item")
    BY <1>3, <2>2
  <2> QED BY <2>1, <2>2
<1>5. page # "item" => item.fetch = NotAsked
  BY DEF EditorInv, Fresh
<1> QED BY <1>2, <1>3, <1>4, <1>5

\* The page takes a success: the answer goes into the cache and the queries are read
\* again.
LEMMA CallSucceeded ==
  ASSUME EditorInv, ConflictInv, NEW i \in DOMAIN calls, Succeeded(i)
  PROVE  EditorInv' /\ ConflictInv'
<1> DEFINE c == calls[i]
           own == c.op \in {"update", "adopt"}
           d == [version |-> c.version, edits |-> c.edits]
           n == IF own THEN c.version ELSE 0
<1>1. IsCall(source, c) /\ c.answer = "ok"
  BY DEF EditorInv, Succeeded
<1>2. PICK pg, t, it, cs :
         /\ pg = IF ~c.live THEN page
                 ELSE CASE c.op \in {"create", "adopt"} -> "item" [] c.op = "delete" -> "list" [] OTHER -> page
         /\ t = InvalidatedItem(pg, AfterSuccess(item, c))
         /\ it = IF pg = "item" /\ page # "item" THEN Refetch(t) ELSE t
         /\ cs = [calls EXCEPT ![i].answer = "done"]
         /\ Show(pg, it, Invalidate(list), cs)
         /\ source' = source /\ told' = IF n > told THEN n ELSE told
  BY Zenon DEF Succeeded, Newer
<1>3. /\ IsEntry(it) /\ (pg # "item" => it.fetch = item.fetch)
      /\ pg = "item" => it.fetch = Asked \/ (page = "item" /\ ~own /\ it.fetch = item.fetch /\ it.fetch # NotAsked)
      /\ own => it.data = d
      /\ ~own => it.data = item.data
  <2>1. t = InvalidatedItem(pg, AfterSuccess(item, c))
    BY <1>2, Zenon
  <2>2. it = IF pg = "item" /\ page # "item" THEN Refetch(t) ELSE t
    BY <1>2, Zenon
  <2> HIDE DEF c
  <2> QED BY <1>1, <2>1, <2>2, SuccessShown
<1>4. c.live => /\ c.op \in {"create", "adopt"} => pg = "item"
                /\ c.op = "update" => pg = page
  BY <1>2
<1>5. d.version = c.version /\ d.edits = c.edits
  OBVIOUS
<1>6. own => Had(source, c.version, c.edits)
  BY <1>1 DEF IsCall
<1>7. \A j \in DOMAIN calls : IsCall(source, calls[j])
  BY DEF EditorInv
<1>8. Listed(calls) /\ told \in Nat /\ ToldOf(source, told) /\ HadBody(source, item.data) /\ HadBody(source, item.fetch.data)
  BY DEF EditorInv
<1>9. /\ Listed(cs) /\ DOMAIN cs = DOMAIN calls
      /\ \A j \in DOMAIN cs : IsCall(source, cs[j]) /\ cs[j].op = calls[j].op /\ cs[j].live = calls[j].live /\ (j # i => cs[j] = calls[j])
      /\ cs[i].answer = "done"
  <2>1. cs = [calls EXCEPT ![i].answer = "done"]
    BY <1>2, Zenon
  <2>2. /\ Listed(cs) /\ DOMAIN cs = DOMAIN calls
        /\ cs[i] = [calls[i] EXCEPT !.answer = "done"]
        /\ \A j \in DOMAIN calls : j # i => cs[j] = calls[j]
    BY <1>8, <2>1, Answering
  <2>3. IsCall(source, cs[i]) /\ cs[i].op = calls[i].op /\ cs[i].live = calls[i].live /\ cs[i].answer = "done"
    BY <1>7, <2>2, CallDone
  <2> QED BY <1>7, <2>2, <2>3
<1>10. Show(pg, it, Invalidate(list), cs) /\ source' = source /\ told' = IF n > told THEN n ELSE told
  BY <1>2, Zenon
<1>11. c.op \in {"create", "adopt", "update", "delete"}
  BY <1>1 DEF IsCall
<1> HIDE DEF d
<1>12. HadBody(source, it.data) /\ HadBody(source, it.fetch.data)
  BY <1>3, <1>5, <1>6, <1>8, FetchFacts DEF HadBody
<1>13. told' \in Nat /\ ToldOf(source, told')
  BY <1>6, <1>8, <1>10 DEF ToldOf, Had
<1>14. pg = "item" => Fresh(pg, it, told')
  <2>1. ASSUME pg = "item", it.fetch # Asked PROVE Fresh(pg, it, told')
    <3>1. page = "item" /\ ~own /\ it.fetch = item.fetch /\ it.fetch # NotAsked
      BY <1>3, <2>1
    <3>2. told' = told
      BY <1>8, <1>10, <3>1
    <3> QED BY <2>1, <3>1, <3>2 DEF Fresh, EditorInv
  <2> QED BY <2>1, FetchFacts DEF Fresh
<1>15. EditorInv'
  BY <1>3, <1>9, <1>10, <1>12, <1>13, <1>14, Showing
<1>16. ASSUME ~orphaned
      PROVE  /\ CallsInv(source, editor, cs)
             /\ Served(cs) \/ (Explained(source, it.data) /\ Explained(source, it.fetch.data))
             /\ Rendered(pg, it, Invalidate(list)) = editor => Served(cs) \/ Explained(source, editor.base)
  <2>1. CallsInv(source, editor, calls) /\ BodiesInv(source, item, editor, calls)
    BY <1>16 DEF ConflictInv
  <2>2. /\ CallsInv(source, editor, cs)
        /\ Served(calls) /\ ~(c.op = "update" /\ c.answer = "ok") => Served(cs)
    BY <1>9, <2>1, CallsInvDone
  <2>3. Served(calls) \/ (Explained(source, item.data) /\ Explained(source, item.fetch.data) /\ Explained(source, editor.base))
    BY <2>1 DEF BodiesInv
  <2>4. c.live /\ Waiting(c) /\ OfEditor(c, editor)
    BY <1>1, <2>1 DEF CallsInv, OfEditor, Waiting
  <2>5. own => Explained(source, d)
    <3>1. own => Explained(source, c) /\ c.version # 0
      BY <1>1, <1>6, <2>1 DEF CallsInv, Had
    <3> QED BY <1>5, <3>1, FetchFacts DEF Explained, Beyond
  <2>6. CASE c.op = "update"
    <3>1. editor.kind = "item" /\ c.version > editor.base.version /\ page = "item" /\ editor.base # NoData
      BY <1>1, <2>4, <2>6 DEF OfEditor, EditorInv, Keyed
    <3>2. pg = "item" /\ it.fetch.data = NoData /\ it.data = d
      BY <1>3, <1>4, <2>4, <2>6, <3>1, FetchFacts
    <3>3. Rendered(pg, it, Invalidate(list)) # editor
      <4>1. Keyed(pg, it, Rendered(pg, it, Invalidate(list)))
        BY RenderedFacts DEF EditorInv
      <4>2. editor.base.version \in Nat /\ c.version \in Nat
        BY <1>6, <2>6, <3>1 DEF EditorInv, HadBody, Had
      <4>3. Keyed(pg, it, editor) => editor.base.version = c.version
        BY <1>5, <3>1, <3>2 DEF Keyed
      <4> QED BY <3>1, <4>1, <4>2, <4>3
    <3> QED BY <2>2, <2>5, <2>6, <3>2, <3>3 DEF Explained
  <2>7. CASE c.op = "adopt"
    <3>1. editor.kind = "file"
      BY <2>4, <2>7 DEF OfEditor
    <3>2. ~Served(calls)
      <4>1. ASSUME NEW j \in DOMAIN calls, calls[j].op = "update", calls[j].answer = "ok" PROVE FALSE
        BY <2>1, <3>1, <4>1 DEF CallsInv, OfEditor, Waiting
      <4> QED BY <4>1 DEF Served
    <3>3. pg = "item" /\ it.fetch.data = NoData /\ it.data = d
      BY <1>3, <1>4, <2>4, <2>7, FetchFacts
    <3> QED BY <2>2, <2>3, <2>5, <2>7, <3>2, <3>3 DEF Explained
  <2>8. CASE c.op \in {"create", "delete"}
    <3>1. it.data = item.data /\ (it.fetch.data = NoData \/ it.fetch.data = item.fetch.data)
      BY <1>3, <2>8, FetchFacts
    <3>2. Served(calls) => Served(cs)
      BY <2>2, <2>8
    <3> QED BY <2>2, <2>3, <3>1, <3>2 DEF Explained
  <2> QED BY <1>11, <2>6, <2>7, <2>8
<1>17. ConflictInv'
  BY <1>3, <1>9, <1>10, <1>16, ShowingConflict
<1> QED BY <1>15, <1>17

\* The other fields of the editor when one changes.
LEMMA EditorField ==
  ASSUME NEW ed, IsEditor(ed), NEW x, NEW n
  PROVE  /\ n = [ed EXCEPT !.draft = x] => IsEditor(n) /\ n.kind = ed.kind /\ n.base = ed.base /\ n.conflict = ed.conflict
         /\ n = [ed EXCEPT !.confirm = x] => IsEditor(n) /\ n.kind = ed.kind /\ n.base = ed.base /\ n.conflict = ed.conflict
         /\ n = [ed EXCEPT !.failed = x] => IsEditor(n) /\ n.kind = ed.kind /\ n.base = ed.base /\ n.conflict = ed.conflict
         /\ n = [ed EXCEPT !.conflict = x] => IsEditor(n) /\ n.kind = ed.kind /\ n.base = ed.base /\ n.conflict = x
<1>1. ASSUME n = [ed EXCEPT !.draft = x]
      PROVE  IsEditor(n) /\ n.kind = ed.kind /\ n.base = ed.base /\ n.conflict = ed.conflict
  <2>1. n = [kind |-> ed.kind, base |-> ed.base, draft |-> x, conflict |-> ed.conflict, failed |-> ed.failed, confirm |-> ed.confirm]
    BY <1>1 DEF IsEditor
  <2> QED BY <2>1 DEF IsEditor
<1>2. ASSUME n = [ed EXCEPT !.confirm = x]
      PROVE  IsEditor(n) /\ n.kind = ed.kind /\ n.base = ed.base /\ n.conflict = ed.conflict
  <2>1. n = [kind |-> ed.kind, base |-> ed.base, draft |-> ed.draft, conflict |-> ed.conflict, failed |-> ed.failed, confirm |-> x]
    BY <1>2 DEF IsEditor
  <2> QED BY <2>1 DEF IsEditor
<1>3. ASSUME n = [ed EXCEPT !.failed = x]
      PROVE  IsEditor(n) /\ n.kind = ed.kind /\ n.base = ed.base /\ n.conflict = ed.conflict
  <2>1. n = [kind |-> ed.kind, base |-> ed.base, draft |-> ed.draft, conflict |-> ed.conflict, failed |-> x, confirm |-> ed.confirm]
    BY <1>3 DEF IsEditor
  <2> QED BY <2>1 DEF IsEditor
<1>4. ASSUME n = [ed EXCEPT !.conflict = x]
      PROVE  IsEditor(n) /\ n.kind = ed.kind /\ n.base = ed.base /\ n.conflict = x
  <2>1. n = [kind |-> ed.kind, base |-> ed.base, draft |-> ed.draft, conflict |-> x, failed |-> ed.failed, confirm |-> ed.confirm]
    BY <1>4 DEF IsEditor
  <2> QED BY <2>1 DEF IsEditor
<1> QED BY <1>1, <1>2, <1>3, <1>4

\* A step that leaves the source and the queries of the page alone.
LEMMA EditorTouched ==
  ASSUME EditorInv, ConflictInv, UNCHANGED <<source, item, page, told, orphaned>>,
         IsEditor(editor'), editor'.kind = editor.kind, editor'.base = editor.base,
         Listed(calls'), \A i \in DOMAIN calls' : IsCall(source, calls'[i]),
         ~orphaned => CallsInv(source, editor', calls') /\ (Served(calls) => Served(calls'))
  PROVE  EditorInv' /\ ConflictInv'
<1>1. EditorInv'
  BY DEF EditorInv, Keyed
<1>2. ASSUME ~orphaned PROVE BodiesInv(source, item, editor', calls')
  BY <1>2 DEF ConflictInv, BodiesInv
<1>3. ConflictInv'
  BY <1>2 DEF ConflictInv, CallsInv, BodiesInv
<1> QED BY <1>1, <1>3

\* The same editor, but for what is typed and asked.
LEMMA EditorTyped ==
  ASSUME NEW S, NEW cs, NEW ed, NEW n, CallsInv(S, ed, cs), n.kind = ed.kind, n.base = ed.base, n.conflict => ed.conflict
  PROVE  CallsInv(S, n, cs)
BY DEF CallsInv, OfEditor, Disputed, Taken

\* What is typed and asked.
LEMMA Typed ==
  ASSUME EditorInv, ConflictInv, (\E e \in Mine : Typing(e)) \/ AskDelete \/ CancelDelete
  PROVE  EditorInv' /\ ConflictInv'
<1>1. UNCHANGED <<source, item, page, calls, told, orphaned>>
  BY DEF Typing, AskDelete, CancelDelete
<1>2. PICK x : editor' = [editor EXCEPT !.draft = x] \/ editor' = [editor EXCEPT !.confirm = x]
  BY Zenon DEF Typing, AskDelete, CancelDelete
<1>3. IsEditor(editor') /\ editor'.kind = editor.kind /\ editor'.base = editor.base /\ editor'.conflict = editor.conflict
  BY <1>2, EditorField DEF EditorInv
<1>4. ~orphaned => CallsInv(source, editor', calls)
  BY <1>3, EditorTyped DEF ConflictInv
<1> QED BY <1>1, <1>3, <1>4, EditorTouched DEF EditorInv

\* A call more.
LEMMA Called ==
  ASSUME NEW S, NEW ed, NEW cs, Listed(cs), NEW c, c.live, c.answer = "none", OfEditor(c, ed), CallsInv(S, ed, cs),
         LiveSave(c) => \A i \in DOMAIN cs : ~LiveSave(cs[i])
  PROVE  CallsInv(S, ed, Append(cs, c)) /\ (Served(cs) => Served(Append(cs, c)))
<1> DEFINE t == Append(cs, c)
           k == Len(cs) + 1
<1>1. /\ \A i \in DOMAIN cs : t[i] = cs[i] /\ i \in DOMAIN t /\ i # k
      /\ t[k] = c
      /\ \A i \in DOMAIN t : i \in DOMAIN cs \/ i = k
  BY ListedAppend
<1> SUFFICES CallsInv(S, ed, t) /\ (Served(cs) => Served(t))
  OBVIOUS
<1> HIDE DEF t, k
<1>2. \A i \in DOMAIN t : OfEditor(t[i], ed)
  BY <1>1 DEF CallsInv
<1>3. \A i, j \in DOMAIN t : LiveSave(t[i]) /\ LiveSave(t[j]) => i = j
  BY <1>1 DEF CallsInv
<1>4. \A i \in DOMAIN t : t[i].op \in {"update", "adopt"} /\ t[i].answer = "ok" => Explained(S, t[i])
  BY <1>1 DEF CallsInv
<1>5. \A i \in DOMAIN t : t[i].live /\ t[i].op \in {"create", "update"} /\ t[i].answer = "conflict" => Disputed(S, ed)
  BY <1>1 DEF CallsInv
<1>c. \A i \in DOMAIN t : t[i].live /\ t[i].op = "create" /\ t[i].answer = "checked" => Taken(S, ed)
  BY <1>1 DEF CallsInv
<1>6. CallsInv(S, ed, t)
  BY <1>2, <1>3, <1>4, <1>5, <1>c DEF CallsInv
<1> QED BY <1>1, <1>6 DEF Served

\* The fields of a call that is made.
LEMMA CallFields ==
  ASSUME NEW op, NEW v, NEW e, NEW c, c = [op |-> op, version |-> v, edits |-> e, live |-> TRUE, answer |-> "none"]
  PROVE  /\ c.op = op /\ c.version = v /\ c.edits = e /\ c.live = TRUE /\ c.answer = "none"
         /\ c = [op |-> c.op, version |-> c.version, edits |-> c.edits, live |-> c.live, answer |-> c.answer]
<1>1. \A y : LET k == [op |-> op, version |-> v, edits |-> e, live |-> y, answer |-> "none"] IN
         /\ k.op = op /\ k.version = v /\ k.edits = e /\ k.live = y /\ k.answer = "none"
         /\ k = [op |-> k.op, version |-> k.version, edits |-> k.edits, live |-> k.live, answer |-> k.answer]
  OBVIOUS
<1> QED BY <1>1, Zenon

\* A call is made on what the editor was opened with.
LEMMA CallMade ==
  ASSUME EditorInv, ConflictInv, Submitted \/ Adopt \/ Delete
  PROVE  EditorInv' /\ ConflictInv'
<1>1. UNCHANGED <<source, item, page, told, orphaned>>
  BY DEF Submitted, Adopt, Delete
<1>2. IsEditor(editor') /\ editor'.kind = editor.kind /\ editor'.base = editor.base /\ (editor'.conflict => editor.conflict)
  <2>1. CASE Submitted
    <3>1. PICK z : z = FALSE
      BY Zenon
    <3>2. PICK n : n = [editor EXCEPT !.conflict = z]
      BY Zenon
    <3>3. editor' = [n EXCEPT !.failed = z]
      BY <2>1, <3>1, <3>2, Zenon DEF Submitted
    <3>4. IsEditor(n) /\ n.kind = editor.kind /\ n.base = editor.base /\ n.conflict = z
      BY <3>2, EditorField DEF EditorInv
    <3>5. IsEditor(editor') /\ editor'.kind = n.kind /\ editor'.base = n.base /\ editor'.conflict = n.conflict
      BY <3>3, <3>4, EditorField
    <3> QED BY <3>1, <3>4, <3>5
  <2>2. CASE Adopt \/ Delete
    BY <2>2 DEF Adopt, Delete, EditorInv
  <2> QED BY <2>1, <2>2
<1>3. PICK op, v, e, c :
         /\ c = [op |-> op, version |-> v, edits |-> e, live |-> TRUE, answer |-> "none"]
         /\ calls' = Append(calls, c)
         /\ \/ op = "create" /\ editor.kind = "new" /\ ~Pending({"create", "update"})
            \/ op = "update" /\ editor.kind = "item" /\ ~Pending({"create", "update"})
                 /\ v = item.data.version /\ e = editor.base.edits \cup editor.draft
            \/ op = "adopt" /\ editor.kind = "file"
            \/ op = "delete"
  <2>1. CASE Submitted
    <3>1. CASE editor.kind = "new"
      BY <2>1, <3>1, Zenon DEF Submitted, Call
    <3>2. CASE editor.kind # "new"
      <4>1. editor.kind = "item"
        BY <2>1, <3>2 DEF Submitted
      <4> QED BY <2>1, <3>2, <4>1, Zenon DEF Submitted, Call
    <3> QED BY <3>1, <3>2, Zenon
  <2>2. CASE Adopt
    BY <2>2, Zenon DEF Adopt, Call
  <2>3. CASE Delete
    BY <2>3, Zenon DEF Delete, Call
  <2> QED BY <2>1, <2>2, <2>3, Zenon
<1>4. /\ c.op = op /\ c.version = v /\ c.edits = e /\ c.live = TRUE /\ c.answer = "none"
      /\ c = [op |-> c.op, version |-> c.version, edits |-> c.edits, live |-> c.live, answer |-> c.answer]
  BY <1>3, CallFields, Zenon
<1>5. c.live /\ c.live \in BOOLEAN
  BY <1>4
<1>6. op = "update" => Builds(source, v, e) /\ v = editor.base.version
  <2>1. ASSUME op = "update" PROVE Builds(source, v, e) /\ v = editor.base.version
    <3>1. editor.kind = "item" /\ v = item.data.version /\ e = editor.base.edits \cup editor.draft
      BY <1>3, <2>1
    <3>2. editor.base # NoData /\ v = editor.base.version
      BY <3>1 DEF EditorInv, Keyed
    <3>3. Had(source, editor.base.version, editor.base.edits)
      BY <3>2 DEF EditorInv, HadBody
    <3> QED BY <3>1, <3>2, <3>3 DEF Had, Builds
  <2> QED BY <2>1
<1>7. calls' = Append(calls, c) /\ op \in {"create", "adopt", "update", "delete"}
  BY <1>3
<1>8. IsCall(source, c)
  BY <1>4, <1>5, <1>6, <1>7 DEF IsCall
<1>9. Listed(calls') /\ \A i \in DOMAIN calls' : IsCall(source, calls'[i])
  BY <1>7, <1>8, ListedAppend DEF EditorInv
<1>10. ASSUME ~orphaned PROVE CallsInv(source, editor', calls') /\ (Served(calls) => Served(calls'))
  <2>1. CallsInv(source, editor', calls)
    BY <1>2, <1>10, EditorTyped DEF ConflictInv
  <2>2. OfEditor(c, editor')
    <3>1. c.op = op /\ c.answer = "none" /\ c.version = v /\ c.live
      BY <1>4, <1>5
    <3>2. /\ op = "create" => editor.kind = "new"
          /\ op = "adopt" => editor.kind = "file"
          /\ op = "update" => editor.kind = "item"
      BY <1>3
    <3> QED BY <1>2, <1>6, <3>1, <3>2 DEF OfEditor
  <2>3. LiveSave(c) => \A i \in DOMAIN calls : ~LiveSave(calls[i])
    <3>1. LiveSave(c) => ~Pending({"create", "update"})
      BY <1>3, <1>4 DEF LiveSave
    <3> QED BY <3>1 DEF LiveSave, Pending
  <2>4. Listed(calls) /\ c.answer = "none"
    BY <1>4 DEF EditorInv
  <2> QED BY <1>5, <1>7, <2>1, <2>2, <2>3, <2>4, Called
<1> QED BY <1>1, <1>2, <1>9, <1>10, EditorTouched

\* The name of a new source is checked, a call fails on its way, or the page takes a
\* failure: a conflict the server answered is explained by the edit that came before it.
LEMMA CallFailed ==
  ASSUME EditorInv, ConflictInv, NEW i \in DOMAIN calls, Check(i) \/ Fail(i) \/ Failed(i)
  PROVE  EditorInv' /\ ConflictInv'
<1>1. UNCHANGED <<source, item, page, told, orphaned>>
  BY Zenon DEF Check, Fail, Failed
<1>2. PICK a \in {"checked", "refused", "done"} :
         /\ calls' = [calls EXCEPT ![i].answer = a]
         /\ a = "refused" => calls[i].answer \in {"none", "checked"}
         /\ a = "checked" => calls[i].answer = "none" /\ source.origin = "none"
  <2>1. "refused" # "done" /\ "checked" # "done" /\ "checked" # "refused" /\ "none" \in {"none", "checked"}
    OBVIOUS
  <2>2. CASE Fail(i) \/ Failed(i)
    BY <2>1, <2>2, Zenon DEF Fail, Failed
  <2>3. CASE Check(i)
    <3>1. calls[i].answer = "none" /\ calls' = [calls EXCEPT ![i].answer = IF source.origin = "none" THEN "checked" ELSE "refused"]
      BY <2>3, Zenon DEF Check
    <3>2. PICK x : x = IF source.origin = "none" THEN "checked" ELSE "refused"
      OBVIOUS
    <3>3. calls' = [calls EXCEPT ![i].answer = x]
      BY <3>1, <3>2, Zenon
    <3> QED BY <2>1, <3>1, <3>2, <3>3, Zenon
  <2> QED BY <2>2, <2>3
<1>3. /\ Listed(calls') /\ DOMAIN calls' = DOMAIN calls
      /\ calls'[i] = [calls[i] EXCEPT !.answer = a]
      /\ \A j \in DOMAIN calls : j # i => calls'[j] = calls[j]
  BY <1>2, Answering DEF EditorInv
<1>4. IsCall(source, calls'[i]) /\ calls'[i].op = calls[i].op /\ calls'[i].live = calls[i].live /\ calls'[i].answer = a
  BY <1>3, CallDone DEF EditorInv
<1>5. Listed(calls') /\ \A j \in DOMAIN calls' : IsCall(source, calls'[j])
  BY <1>3, <1>4 DEF EditorInv
<1>6. /\ IsEditor(editor') /\ editor'.kind = editor.kind /\ editor'.base = editor.base
      /\ editor'.conflict => editor.conflict \/ (calls[i].live /\ calls[i].op \in {"create", "update"} /\ calls[i].answer = "conflict")
  <2>1. CASE editor' = editor
    BY <2>1 DEF EditorInv
  <2>2. CASE editor' # editor
    <3>1. calls[i].live /\ editor' = [editor EXCEPT !.failed = TRUE,
              !.conflict = @ \/ (calls[i].op \in {"create", "update"} /\ calls[i].answer = "conflict"),
              !.confirm = @ /\ calls[i].op # "delete"]
      BY <2>2, Zenon DEF Check, Fail, Failed
    <3>2. PICK x : x = TRUE
      BY Zenon
    <3>3. PICK y : y = (editor.conflict \/ (calls[i].op \in {"create", "update"} /\ calls[i].answer = "conflict"))
      BY Zenon
    <3>4. PICK z : z = (editor.confirm /\ calls[i].op # "delete")
      BY Zenon
    <3>5. PICK n : n = [editor EXCEPT !.failed = x]
      BY Zenon
    <3>6. IsEditor(n) /\ n.kind = editor.kind /\ n.base = editor.base /\ n.conflict = editor.conflict
      BY <3>5, EditorField DEF EditorInv
    <3>7. PICK m : m = [n EXCEPT !.conflict = y]
      BY Zenon
    <3>8. IsEditor(m) /\ m.kind = n.kind /\ m.base = n.base /\ m.conflict = y
      BY <3>6, <3>7, EditorField
    <3>9. editor' = [editor EXCEPT !.failed = x, !.conflict = y, !.confirm = z]
      BY <3>1, <3>2, <3>3, <3>4, Zenon
    <3>10. editor' = [m EXCEPT !.confirm = z]
      BY <3>5, <3>7, <3>9, Zenon
    <3>11. IsEditor(editor') /\ editor'.kind = m.kind /\ editor'.base = m.base /\ editor'.conflict = m.conflict
      BY <3>8, <3>10, EditorField
    <3>12. y => editor.conflict \/ (calls[i].op \in {"create", "update"} /\ calls[i].answer = "conflict")
      BY <3>3
    <3>13. calls[i].live
      BY <3>1
    <3> QED BY <3>6, <3>8, <3>11, <3>12, <3>13
  <2> QED BY <2>1, <2>2
<1>7. ASSUME ~orphaned PROVE CallsInv(source, editor', calls') /\ (Served(calls) => Served(calls'))
  <2>1. CallsInv(source, editor, calls)
    BY <1>7 DEF ConflictInv
  <2>2. calls[i].answer # "ok"
    BY DEF Check, Fail, Failed
  <2>3. CallsInv(source, editor, calls') /\ (Served(calls) => Served(calls'))
    <3>1. \A j \in DOMAIN calls' : calls'[j].op = calls[j].op /\ calls'[j].live = calls[j].live /\ (j # i => calls'[j] = calls[j])
      BY <1>3, <1>4
    <3>2. \/ calls'[i].answer = "done"
          \/ calls'[i].answer = "refused" /\ calls[i].answer \in {"none", "checked"}
          \/ calls'[i].answer = "checked" /\ calls[i].answer = "none" /\ Taken(source, editor)
      BY <1>2, <1>4 DEF Taken, EditorInv, IsSource, Managed
    <3>3. DOMAIN calls' = DOMAIN calls
      BY <1>3
    <3> QED BY <2>1, <2>2, <3>1, <3>2, <3>3, CallsInvDone
  <2>4. editor'.conflict => editor.kind \in {"new", "item"} /\ Disputed(source, editor)
    <3>1. calls[i].live /\ calls[i].op \in {"create", "update"} /\ calls[i].answer = "conflict" =>
             editor.kind \in {"new", "item"} /\ Disputed(source, editor)
      BY <2>1 DEF CallsInv, OfEditor, Waiting
    <3> QED BY <1>6, <2>1, <3>1 DEF CallsInv
  <2>5. CallsInv(source, editor', calls')
    BY <1>6, <2>3, <2>4 DEF CallsInv, OfEditor, Disputed, Taken
  <2> QED BY <2>3, <2>5
<1> QED BY <1>1, <1>5, <1>6, <1>7, EditorTouched

\* How the source may change in a step.
SourceMoves(S, T) ==
    /\ IsSource(S) /\ IsSource(T)
    /\ \/ Managed(S) /\ T.version = S.version + 1 /\ S.edits \subseteq T.edits
       \/ ~Managed(S) /\ ~Ended(S) /\ T.version = 1
       \/ Ended(T)

\* What was true of the versions of a source stays true when it moves on.
LEMMA SourceMoved ==
  ASSUME NEW S, NEW T, SourceMoves(S, T)
  PROVE  /\ \A v, e : Had(S, v, e) => Had(T, v, e)
         /\ \A v, e : Builds(S, v, e) => Builds(T, v, e)
         /\ \A b : HadBody(S, b) => HadBody(T, b)
         /\ \A n : ToldOf(S, n) => ToldOf(T, n)
         /\ \A b : Managed(S) /\ Managed(T) /\ Beyond(S, b) => Beyond(T, b)
         /\ Managed(S) /\ Managed(T) => S.edits \subseteq T.edits
<1>1. \A v, e : Had(S, v, e) => Had(T, v, e)
  BY DEF SourceMoves, IsSource, Had, Managed, Ended
<1>2. \A v, e : Builds(S, v, e) => Builds(T, v, e)
  BY DEF SourceMoves, IsSource, Builds, Managed, Ended
<1>3. \A n : ToldOf(S, n) => ToldOf(T, n)
  BY DEF SourceMoves, IsSource, ToldOf, Managed, Ended
<1>4. Managed(S) /\ Managed(T) => S.edits \subseteq T.edits
  BY DEF SourceMoves, IsSource, Managed, Ended
<1>5. \A b : Managed(S) /\ Managed(T) /\ Beyond(S, b) => Beyond(T, b)
  BY <1>4 DEF Beyond
<1> QED BY <1>1, <1>2, <1>3, <1>4, <1>5 DEF HadBody

\* A call stays a call when the source moves on.
LEMMA CallStays ==
  ASSUME NEW S, NEW T, SourceMoves(S, T), NEW c, IsCall(S, c)
  PROVE  IsCall(T, c)
BY SourceMoved DEF IsCall

\* Another administrator saves.
LEMMA SavedByOther ==
  ASSUME EditorInv, ConflictInv, NEW e \in Others, OtherSaves(e)
  PROVE  EditorInv' /\ ConflictInv' /\ SourceMoves(source, source')
<1>1. UNCHANGED <<item, page, editor, calls, told, orphaned>> /\ Managed(source) /\ e \notin source.edits
  BY DEF OtherSaves
<1>2. source' = [version |-> source.version + 1, edits |-> source.edits \cup {e}, origin |-> source.origin]
  <2>1. PICK t : t = [source EXCEPT !.version = source.version + 1]
    BY Zenon
  <2>2. t = [version |-> source.version + 1, edits |-> source.edits, origin |-> source.origin]
    BY <2>1 DEF EditorInv, IsSource
  <2>3. source' = [t EXCEPT !.edits = source.edits \cup {e}]
    <3>1. source' = [source EXCEPT !.version = source.version + 1, !.edits = source.edits \cup {e}]
      BY Zenon DEF OtherSaves
    <3> QED BY <2>1, <3>1, Zenon
  <2> QED BY <2>2, <2>3
<1>3. SourceMoves(source, source')
  BY <1>1, <1>2 DEF EditorInv, SourceMoves, IsSource, Managed, Ended
<1>4. EditorInv'
  <2>1. \A i \in DOMAIN calls : IsCall(source', calls[i])
    BY <1>3, CallStays DEF EditorInv
  <2>2. HadBody(source', item.data) /\ HadBody(source', item.fetch.data) /\ HadBody(source', editor.base) /\ ToldOf(source', told)
    BY <1>3, SourceMoved DEF EditorInv
  <2>3. IsSource(source')
    BY <1>3 DEF SourceMoves
  <2> QED BY <1>1, <2>1, <2>2, <2>3 DEF EditorInv
<1>5. ASSUME NEW b, b = NoData \/ b.edits \subseteq source.edits PROVE Beyond(source', b)
  BY <1>1, <1>2, <1>5 DEF Beyond
<1>6. ASSUME NEW b, HadBody(source, b) PROVE Explained(source', b)
  BY <1>1, <1>5, <1>6 DEF HadBody, Had, Explained
<1>7. ASSUME ~orphaned
      PROVE  CallsInv(source', editor, calls) /\ BodiesInv(source', item, editor, calls)
  <2>1. CallsInv(source, editor, calls)
    BY <1>7 DEF ConflictInv
  <2>2. \A i \in DOMAIN calls : calls[i].op \in {"update", "adopt"} /\ calls[i].answer = "ok" => Explained(source', calls[i])
    <3>1. ASSUME NEW i \in DOMAIN calls, calls[i].op \in {"update", "adopt"}, calls[i].answer = "ok" PROVE Explained(source', calls[i])
      <4>1. Had(source, calls[i].version, calls[i].edits)
        BY <3>1 DEF EditorInv, IsCall
      <4> QED BY <1>6, <4>1 DEF HadBody
    <3> QED BY <3>1
  <2>3. \A b : Beyond(source, b) => Beyond(source', b)
    BY <1>2 DEF Beyond
  <2>4. CallsInv(source', editor, calls)
    BY <1>1, <1>2, <2>1, <2>2, <2>3 DEF CallsInv, Disputed, Taken
  <2> QED BY <1>6, <2>4 DEF BodiesInv, EditorInv
<1>8. ConflictInv'
  BY <1>1, <1>7 DEF ConflictInv, CallsInv, BodiesInv
<1> QED BY <1>3, <1>4, <1>8

\* Another administrator creates the source: a name that was checked is taken by him.
LEMMA CreatedByOther ==
  ASSUME EditorInv, ConflictInv, NEW e \in Others, OtherCreates(e)
  PROVE  EditorInv' /\ ConflictInv' /\ SourceMoves(source, source')
<1>1. /\ UNCHANGED <<item, page, editor, calls, told, orphaned>> /\ source.origin = "none"
      /\ source' = [version |-> 1, edits |-> {e}, origin |-> "database"]
  BY DEF OtherCreates
<1>2. ~Managed(source) /\ ~Ended(source)
  BY <1>1 DEF EditorInv, IsSource, Managed, Ended
<1>3. SourceMoves(source, source')
  BY <1>1, <1>2 DEF EditorInv, SourceMoves, IsSource, Ended
<1>4. EditorInv'
  <2>1. \A i \in DOMAIN calls : IsCall(source', calls[i])
    BY <1>3, CallStays DEF EditorInv
  <2>2. HadBody(source', item.data) /\ HadBody(source', item.fetch.data) /\ HadBody(source', editor.base) /\ ToldOf(source', told)
    BY <1>3, SourceMoved DEF EditorInv
  <2>3. IsSource(source')
    BY <1>3 DEF SourceMoves
  <2> QED BY <1>1, <2>1, <2>2, <2>3 DEF EditorInv
<1>5. /\ item.data = NoData /\ item.fetch.data = NoData /\ editor.base = NoData
      /\ \A i \in DOMAIN calls : ~(calls[i].op \in {"update", "adopt"} /\ calls[i].answer = "ok")
  BY <1>2 DEF EditorInv, HadBody, Had, IsCall
<1>6. Beyond(source', NoData)
  BY <1>1 DEF Beyond
<1>7. ASSUME ~orphaned
      PROVE  CallsInv(source', editor, calls) /\ BodiesInv(source', item, editor, calls)
  <2>1. CallsInv(source, editor, calls)
    BY <1>7 DEF ConflictInv
  <2>2. Taken(source', editor) /\ ~Disputed(source, editor)
    BY <1>1, <1>5, <1>6 DEF Taken, Disputed
  <2>3. CallsInv(source', editor, calls)
    BY <1>5, <2>1, <2>2 DEF CallsInv
  <2> QED BY <1>5, <2>3 DEF BodiesInv, Explained
<1>8. ConflictInv'
  BY <1>1, <1>7 DEF ConflictInv, CallsInv, BodiesInv
<1> QED BY <1>3, <1>4, <1>8

\* What the server makes of a call.
LEMMA ServedFields ==
  ASSUME EditorInv, NEW i \in DOMAIN calls, NEW a, calls' = [calls EXCEPT ![i].answer = a, ![i].version = source'.version]
  PROVE  /\ Listed(calls') /\ DOMAIN calls' = DOMAIN calls /\ \A j \in DOMAIN calls : j # i => calls'[j] = calls[j]
         /\ calls'[i] = [op |-> calls[i].op, version |-> source'.version, edits |-> calls[i].edits, live |-> calls[i].live,
                         answer |-> a]
<1> DEFINE v == source'.version
<1>1. calls' = [calls EXCEPT ![i].answer = a, ![i].version = v]
  BY Zenon
<1> HIDE DEF v
<1>2. PICK r : r = [calls EXCEPT ![i].answer = a]
  BY Zenon
<1>3. /\ Listed(r) /\ DOMAIN r = DOMAIN calls
      /\ r[i] = [calls[i] EXCEPT !.answer = a]
      /\ \A j \in DOMAIN calls : j # i => r[j] = calls[j]
  BY <1>2, Answering DEF EditorInv
<1>4. calls' = [r EXCEPT ![i].version = v]
  BY <1>1, <1>2, Zenon
<1>5. calls' = [j \in DOMAIN r |-> IF j = i THEN [r[i] EXCEPT !.version = v] ELSE r[j]]
  BY <1>4, Zenon
<1>6. PICK t : t = calls'
  BY Zenon
<1>7. t = [j \in DOMAIN r |-> t[j]] /\ t[i] = [r[i] EXCEPT !.version = v] /\ \A j \in DOMAIN r : j # i => t[j] = r[j]
  BY <1>3, <1>5, <1>6, Zenon
<1>8. Listed(t) /\ DOMAIN t = DOMAIN calls
  BY <1>3, <1>7, ListedMap
<1>9. PICK c : c = calls[i]
  BY Zenon
<1>10. IsCall(source, c)
  BY <1>9 DEF EditorInv
<1>11. r[i] = [op |-> c.op, version |-> c.version, edits |-> c.edits, live |-> c.live, answer |-> a]
  BY <1>3, <1>9, <1>10 DEF IsCall
<1>12. t[i] = [op |-> c.op, version |-> v, edits |-> c.edits, live |-> c.live, answer |-> a]
  BY <1>7, <1>11
<1> QED BY <1>3, <1>6, <1>7, <1>8, <1>9, <1>12, Zenon DEF v

\* What a call that is served does to the source: nothing, a first version, the next
\* version over the one it names, or its end.
LEMMA ServedSource ==
  ASSUME EditorInv, NEW i \in DOMAIN calls, Serve(i)
  PROVE  LET c == calls[i] IN
         \/ /\ Outcome(c) # "ok" /\ source' = source
            /\ c.op = "update" /\ Outcome(c) = "conflict" => Managed(source) /\ c.version # source.version
            /\ c.op = "create" => source.origin # "none"
         \/ /\ Outcome(c) = "ok" /\ c.op \in {"create", "adopt"} /\ ~Managed(source) /\ ~Ended(source)
            /\ c.op = "create" => source.origin = "none"
            /\ \E o \in {"database", "file"} : source' = [version |-> 1, edits |-> c.edits, origin |-> o]
         \/ /\ Outcome(c) = "ok" /\ c.op = "update" /\ Managed(source) /\ c.version = source.version
            /\ source' = [version |-> source.version + 1, edits |-> c.edits, origin |-> source.origin]
         \/ /\ Outcome(c) = "ok" /\ c.op = "delete"
            /\ \E o \in {"gone", "returned"} : source' = [version |-> 0, edits |-> source.edits, origin |-> o]
<1> DEFINE c == calls[i]
<1>1. c.op \in {"create", "adopt", "update", "delete"} /\ IsSource(source)
  BY DEF EditorInv, IsCall
<1>2. source' = IF Outcome(c) # "ok" THEN source
                 ELSE CASE c.op \in {"create", "adopt"} ->
                              [source EXCEPT !.version = 1, !.edits = c.edits,
                                             !.origin = IF @ = "none" THEN "database" ELSE @]
                        [] c.op = "update" ->
                              [source EXCEPT !.version = @ + 1, !.edits = c.edits]
                        [] c.op = "delete" ->
                              [source EXCEPT !.version = 0,
                                             !.origin = IF @ = "file" THEN "returned" ELSE "gone"]
  BY Zenon DEF Serve
<1> SUFFICES
         \/ /\ Outcome(c) # "ok" /\ source' = source
            /\ c.op = "update" /\ Outcome(c) = "conflict" => Managed(source) /\ c.version # source.version
            /\ c.op = "create" => source.origin # "none"
         \/ /\ Outcome(c) = "ok" /\ c.op \in {"create", "adopt"} /\ ~Managed(source) /\ ~Ended(source)
            /\ c.op = "create" => source.origin = "none"
            /\ \E o \in {"database", "file"} : source' = [version |-> 1, edits |-> c.edits, origin |-> o]
         \/ /\ Outcome(c) = "ok" /\ c.op = "update" /\ Managed(source) /\ c.version = source.version
            /\ source' = [version |-> source.version + 1, edits |-> c.edits, origin |-> source.origin]
         \/ /\ Outcome(c) = "ok" /\ c.op = "delete"
            /\ \E o \in {"gone", "returned"} : source' = [version |-> 0, edits |-> source.edits, origin |-> o]
  BY Zenon
<1> HIDE DEF c
<1>3. CASE c.op = "create"
  <2>1. Outcome(c) = IF source.origin = "none" THEN "ok" ELSE "conflict"
    BY <1>3 DEF Outcome
  <2>2. CASE Outcome(c) # "ok"
    BY <1>2, <1>3, <2>1, <2>2
  <2>3. CASE Outcome(c) = "ok"
    <3>1. source.origin = "none" /\ ~Managed(source) /\ ~Ended(source)
      BY <1>1, <2>1, <2>3 DEF IsSource, Managed, Ended
    <3>2. source' = [source EXCEPT !.version = 1, !.edits = c.edits, !.origin = "database"]
      BY <1>2, <1>3, <2>3, <3>1
    <3>3. source' = [version |-> 1, edits |-> c.edits, origin |-> "database"]
      BY <1>1, <3>2 DEF IsSource
    <3> QED BY <1>3, <2>3, <3>1, <3>3
  <2> QED BY <2>2, <2>3
<1>4. CASE c.op = "adopt"
  <2>1. Outcome(c) = IF source.origin = "file" /\ ~Managed(source) THEN "ok" ELSE "conflict"
    BY <1>4 DEF Outcome
  <2>2. CASE Outcome(c) # "ok"
    BY <1>2, <1>4, <2>2
  <2>3. CASE Outcome(c) = "ok"
    <3>1. source.origin = "file" /\ ~Managed(source) /\ ~Ended(source)
      BY <2>1, <2>3 DEF Ended
    <3>2. source' = [source EXCEPT !.version = 1, !.edits = c.edits, !.origin = "file"]
      BY <1>2, <1>4, <2>3, <3>1
    <3>3. source' = [version |-> 1, edits |-> c.edits, origin |-> "file"]
      BY <1>1, <3>2 DEF IsSource
    <3> QED BY <1>4, <2>3, <3>1, <3>3
  <2> QED BY <2>2, <2>3
<1>5. CASE c.op = "update"
  <2>1. Outcome(c) = IF ~Managed(source) THEN "refused" ELSE IF c.version = source.version THEN "ok" ELSE "conflict"
    BY <1>5 DEF Outcome
  <2>2. CASE Outcome(c) # "ok"
    BY <1>2, <1>5, <2>1, <2>2
  <2>3. CASE Outcome(c) = "ok"
    <3>1. Managed(source) /\ c.version = source.version
      BY <2>1, <2>3
    <3>2. source' = [source EXCEPT !.version = source.version + 1, !.edits = c.edits]
      BY <1>2, <1>5, <2>3, <3>1
    <3>3. source' = [version |-> source.version + 1, edits |-> c.edits, origin |-> source.origin]
      BY <1>1, <3>2 DEF IsSource
    <3> QED BY <1>5, <2>3, <3>1, <3>3
  <2> QED BY <2>2, <2>3
<1>6. CASE c.op = "delete"
  <2>2. CASE Outcome(c) # "ok"
    BY <1>2, <1>6, <2>2
  <2>3. CASE Outcome(c) = "ok"
    <3>1. PICK o \in {"gone", "returned"} : o = IF source.origin = "file" THEN "returned" ELSE "gone"
      OBVIOUS
    <3>2. source' = [source EXCEPT !.version = 0, !.origin = o]
      BY <1>2, <1>6, <2>3, <3>1
    <3>3. source' = [version |-> 0, edits |-> source.edits, origin |-> o]
      BY <1>1, <3>2 DEF IsSource
    <3> QED BY <1>6, <2>3, <3>3
  <2> QED BY <2>2, <2>3
<1> QED BY <1>1, <1>3, <1>4, <1>5, <1>6

\* The server takes a call: what it replaces it was made on, so no edit is lost.
LEMMA CallServed ==
  ASSUME EditorInv, ConflictInv, NEW i \in DOMAIN calls, Serve(i)
  PROVE  EditorInv' /\ ConflictInv' /\ (Managed(source) /\ Managed(source') => source.edits \subseteq source'.edits)
<1> DEFINE c == calls[i]
           d == calls'[i]
           ok == Outcome(c) = "ok"
<1>1. /\ UNCHANGED <<item, page, editor, told>>
      /\ c.answer = IF c.op = "create" THEN "checked" ELSE "none"
  BY Zenon DEF Serve
<1>a. PICK a \in {Outcome(c), "lost"} :
         /\ a = "lost" => ok
         /\ calls' = [calls EXCEPT ![i].answer = a, ![i].version = source'.version]
         /\ orphaned' = (orphaned \/ a = "lost")
  BY Zenon DEF Serve
<1>2. /\ Listed(calls') /\ DOMAIN calls' = DOMAIN calls /\ \A j \in DOMAIN calls : j # i => calls'[j] = calls[j]
      /\ d = [op |-> c.op, version |-> source'.version, edits |-> c.edits, live |-> c.live, answer |-> a]
  BY <1>a, ServedFields, Zenon
<1>3. \/ /\ ~ok /\ source' = source
         /\ c.op = "update" /\ Outcome(c) = "conflict" => Managed(source) /\ c.version # source.version
         /\ c.op = "create" => source.origin # "none"
      \/ /\ ok /\ c.op \in {"create", "adopt"} /\ ~Managed(source) /\ ~Ended(source)
         /\ c.op = "create" => source.origin = "none"
         /\ \E o \in {"database", "file"} : source' = [version |-> 1, edits |-> c.edits, origin |-> o]
      \/ /\ ok /\ c.op = "update" /\ Managed(source) /\ c.version = source.version
         /\ source' = [version |-> source.version + 1, edits |-> c.edits, origin |-> source.origin]
      \/ /\ ok /\ c.op = "delete"
         /\ \E o \in {"gone", "returned"} : source' = [version |-> 0, edits |-> source.edits, origin |-> o]
  BY ServedSource
<1>4. IsCall(source, c) /\ IsSource(source)
  BY DEF EditorInv
<1>5. c.op \in {"create", "adopt", "update", "delete"} /\ c.live \in BOOLEAN
  BY <1>4 DEF IsCall
<1>6. Outcome(c) \in {"ok", "conflict", "refused"}
  BY <1>5 DEF Outcome
<1>b. (a = "lost" => ok) /\ (~orphaned' => ~orphaned /\ a = Outcome(c)) /\ a \in {Outcome(c), "lost"}
  BY <1>a
<1> HIDE DEF c, d, ok
<1>7. d.op = c.op /\ d.version = source'.version /\ d.edits = c.edits /\ d.live = c.live /\ d.answer = a
  BY <1>2
<1>8. d = [op |-> d.op, version |-> d.version, edits |-> d.edits, live |-> d.live, answer |-> d.answer]
  BY <1>2, <1>7, Zenon
<1>9. source' = source \/ SourceMoves(source, source')
  <2>1. CASE ok /\ c.op = "update" /\ source' = [version |-> source.version + 1, edits |-> c.edits, origin |-> source.origin]
             /\ Managed(source) /\ c.version = source.version
    <3>1. source.edits \subseteq c.edits
      BY <1>1, <1>4, <2>1 DEF IsCall, Builds
    <3> QED BY <1>4, <2>1, <3>1 DEF SourceMoves, IsSource, Managed, Ended
  <2>2. CASE ~Managed(source) /\ ~Ended(source) /\ \E o \in {"database", "file"} : source' = [version |-> 1, edits |-> c.edits, origin |-> o]
    BY <1>4, <2>2 DEF SourceMoves, IsSource, Ended
  <2>3. CASE \E o \in {"gone", "returned"} : source' = [version |-> 0, edits |-> source.edits, origin |-> o]
    BY <1>4, <2>3 DEF SourceMoves, IsSource, Ended
  <2> QED BY <1>3, <2>1, <2>2, <2>3
<1>10. /\ \A b : HadBody(source, b) => HadBody(source', b)
       /\ \A n : ToldOf(source, n) => ToldOf(source', n)
       /\ \A k : IsCall(source, k) => IsCall(source', k)
       /\ \A b : Managed(source) /\ Managed(source') /\ Beyond(source, b) => Beyond(source', b)
       /\ Managed(source) /\ Managed(source') => source.edits \subseteq source'.edits
       /\ IsSource(source')
  <2>1. CASE source' = source
    BY <1>4, <2>1
  <2>2. CASE SourceMoves(source, source')
    BY <2>2, SourceMoved, CallStays DEF SourceMoves
  <2> QED BY <1>9, <2>1, <2>2
<1>11. c.op \in {"update", "adopt"} /\ ok => source'.version \in Nat /\ source'.version > 0 /\ source'.edits = c.edits /\ Managed(source')
  BY <1>3, <1>4, <1>5 DEF IsSource, Managed
<1>12. IsCall(source', d)
  <2>1. c.op \in {"update", "adopt"} /\ ok => Had(source', d.version, d.edits)
    BY <1>7, <1>11 DEF Had
  <2> QED BY <1>5, <1>6, <1>7, <1>8, <1>b, <2>1 DEF IsCall, ok
<1>13. \A j \in DOMAIN calls' : IsCall(source', calls'[j])
  BY <1>2, <1>10, <1>12 DEF EditorInv, d
<1>14. EditorInv'
  BY <1>1, <1>2, <1>10, <1>13 DEF EditorInv
<1>15. ASSUME ~orphaned'
      PROVE  CallsInv(source', editor, calls') /\ BodiesInv(source', item, editor, calls')
  <2>0. ~orphaned /\ d.answer = Outcome(c) /\ c.answer # "ok" /\ c.answer # "done"
    BY <1>1, <1>7, <1>15, <1>b DEF c
  <2>1. CallsInv(source, editor, calls) /\ BodiesInv(source, item, editor, calls)
    BY <2>0 DEF ConflictInv
  <2>2. c.live /\ Waiting(c) /\ OfEditor(c, editor)
    BY <2>0, <2>1 DEF CallsInv, OfEditor, Waiting, c
  <2>3. c.op = "update" => /\ editor.kind = "item" /\ c.version = editor.base.version
                           /\ editor.base # NoData /\ editor.base.version \in Nat
    <3>1. c.op = "update" => editor.kind = "item" /\ c.version = editor.base.version
      BY <1>1, <2>2 DEF OfEditor, c
    <3>2. editor.kind = "item" => editor.base # NoData /\ editor.base.version \in Nat
      BY DEF EditorInv, Keyed, HadBody, Had
    <3> QED BY <3>1, <3>2
  <2>4. OfEditor(d, editor)
    <3>1. Waiting(d) /\ d.live /\ d.op = c.op
      BY <1>6, <1>7, <2>0, <2>2 DEF Waiting
    <3>2. d.answer # "none"
      BY <1>6, <2>0
    <3>3. d.op = "update" /\ d.answer = "ok" => d.version > editor.base.version
      <4>1. ASSUME c.op = "update", ok PROVE source'.version > editor.base.version
        <5>1. source'.version = source.version + 1 /\ c.version = source.version
          BY <1>3, <4>1
        <5> QED BY <2>3, <4>1, <5>1
      <4> QED BY <1>7, <2>0, <4>1 DEF ok
    <3>4. /\ c.op = "create" => editor.kind = "new"
          /\ c.op = "adopt" => editor.kind = "file"
          /\ c.op = "update" => editor.kind = "item"
      BY <2>2 DEF OfEditor
    <3> QED BY <3>1, <3>2, <3>3, <3>4 DEF OfEditor
  <2>5. \A j \in DOMAIN calls' : OfEditor(calls'[j], editor)
    BY <1>2, <2>1, <2>4 DEF CallsInv, d
  <2>6. \A j, k \in DOMAIN calls' : LiveSave(calls'[j]) /\ LiveSave(calls'[k]) => j = k
    <3>1. LiveSave(d) => LiveSave(c)
      BY <1>7, <2>2 DEF LiveSave
    <3>2. \A j \in DOMAIN calls' : LiveSave(calls'[j]) => LiveSave(calls[j])
      BY <1>2, <3>1 DEF c, d
    <3> QED BY <1>2, <2>1, <3>2 DEF CallsInv
  <2>7. ~Managed(source) /\ ~Ended(source) =>
           /\ item.data = NoData /\ item.fetch.data = NoData /\ editor.base = NoData /\ editor.kind # "item"
           /\ \A j \in DOMAIN calls : ~(calls[j].op \in {"update", "adopt"} /\ calls[j].answer = "ok")
    BY DEF EditorInv, HadBody, Had, IsCall, Keyed
  <2>8. c.op = "update" => \A j \in DOMAIN calls : j # i => ~(calls[j].op \in {"update", "adopt"} /\ calls[j].answer = "ok")
    <3>1. ASSUME c.op = "update", NEW j \in DOMAIN calls, j # i, calls[j].op \in {"update", "adopt"}, calls[j].answer = "ok" PROVE FALSE
      <4>1. calls[j].live /\ Waiting(calls[j]) /\ OfEditor(calls[j], editor)
        BY <2>1, <3>1 DEF CallsInv, OfEditor, Waiting
      <4>2. calls[j].op = "update"
        BY <2>3, <3>1, <4>1 DEF OfEditor
      <4>3. LiveSave(calls[i]) /\ LiveSave(calls[j])
        BY <2>2, <3>1, <4>1, <4>2 DEF LiveSave, c
      <4> QED BY <2>1, <3>1, <4>3 DEF CallsInv
    <3> QED BY <3>1
  <2>9. \A j \in DOMAIN calls' : calls'[j].op \in {"update", "adopt"} /\ calls'[j].answer = "ok" => Explained(source', calls'[j])
    <3>1. d.op \in {"update", "adopt"} /\ d.answer = "ok" => Explained(source', d)
      BY <1>7 DEF Explained
    <3>2. ASSUME NEW j \in DOMAIN calls, j # i, calls[j].op \in {"update", "adopt"}, calls[j].answer = "ok" PROVE Explained(source', calls[j])
      <4>1. CASE source' = source
        BY <2>1, <3>2, <4>1 DEF CallsInv
      <4>2. CASE ~Managed(source')
        BY <4>2 DEF Explained
      <4>3. CASE Managed(source') /\ source' # source
        <5>1. c.op = "update" \/ (~Managed(source) /\ ~Ended(source))
          BY <1>3, <4>3 DEF Managed
        <5> QED BY <2>7, <2>8, <3>2, <5>1
      <4> QED BY <4>1, <4>2, <4>3
    <3> QED BY <1>2, <3>1, <3>2 DEF d
  <2>m. Managed(source') => Managed(source) \/ (c.op = "create" /\ source.origin = "none") \/ c.op = "adopt"
    BY <1>3 DEF Managed
  <2>o. source.origin # "none" => source'.origin # "none"
    BY <1>3
  <2>10. ASSUME editor.kind \in {"new", "item"}, Disputed(source, editor) PROVE Disputed(source', editor)
    <3>1. c.op # "adopt"
      BY <2>2, <2>10 DEF OfEditor
    <3>2. Managed(source') => Managed(source)
      BY <2>10, <2>m, <3>1 DEF Disputed
    <3> QED BY <1>10, <2>10, <2>o, <3>2 DEF Disputed
  <2>11. ASSUME d.live, d.op \in {"create", "update"}, d.answer = "conflict" PROVE Disputed(source', editor)
    <3>1. ~ok /\ c.op = d.op /\ Outcome(c) = "conflict" /\ source' = source
      BY <1>3, <1>7, <2>0, <2>11 DEF ok
    <3>2. CASE c.op = "update"
      <4>1. Managed(source) /\ c.version # source.version
        BY <1>3, <3>1, <3>2
      <4>2. source.origin # "none"
        BY <1>4, <4>1 DEF IsSource, Managed
      <4>3. ~Served(calls)
        BY <2>0, <2>8, <3>2 DEF Served, c
      <4>4. Explained(source, editor.base)
        BY <2>1, <4>3 DEF BodiesInv
      <4> QED BY <2>3, <3>1, <3>2, <4>1, <4>2, <4>4 DEF Explained, Disputed
    <3>3. CASE c.op = "create"
      <4>1. source.origin # "none"
        BY <1>3, <3>1, <3>3
      <4>2. Taken(source, editor)
        BY <1>1, <2>1, <2>2, <3>3 DEF CallsInv, c
      <4> QED BY <3>1, <4>1, <4>2 DEF Taken, Disputed
    <3> QED BY <2>11, <3>1, <3>2, <3>3
  <2>12. \A j \in DOMAIN calls' : calls'[j].live /\ calls'[j].op \in {"create", "update"} /\ calls'[j].answer = "conflict"
            => Disputed(source', editor)
    <3>1. ASSUME NEW j \in DOMAIN calls, j # i, calls[j].live, calls[j].op \in {"create", "update"}, calls[j].answer = "conflict"
          PROVE  Disputed(source', editor)
      <4>1. editor.kind \in {"new", "item"} /\ Disputed(source, editor)
        BY <2>1, <3>1 DEF CallsInv, OfEditor, Waiting
      <4> QED BY <2>10, <4>1
    <3> QED BY <1>2, <2>11, <3>1 DEF d
  <2>c. \A j \in DOMAIN calls' : calls'[j].live /\ calls'[j].op = "create" /\ calls'[j].answer = "checked" => Taken(source', editor)
    <3>1. ASSUME NEW j \in DOMAIN calls, j # i, calls[j].live, calls[j].op = "create", calls[j].answer = "checked"
          PROVE  Taken(source', editor)
      <4>1. editor.kind = "new" /\ Taken(source, editor) /\ LiveSave(calls[j])
        BY <2>1, <3>1 DEF CallsInv, OfEditor, Waiting, LiveSave
      <4>2. c.op # "adopt" /\ c.op # "create"
        <5>1. c.op # "adopt"
          BY <2>2, <4>1 DEF OfEditor
        <5>2. c.op = "create" => LiveSave(calls[i])
          BY <2>2 DEF LiveSave, c
        <5> QED BY <2>1, <3>1, <4>1, <5>1, <5>2 DEF CallsInv
      <4> QED BY <1>10, <2>m, <4>1, <4>2 DEF Taken
    <3>2. d.answer # "checked"
      BY <1>6, <2>0
    <3> QED BY <1>2, <3>1, <3>2 DEF d
  <2>13. CallsInv(source', editor, calls')
    <3>1. editor.conflict => editor.kind \in {"new", "item"} /\ Disputed(source', editor)
      BY <2>1, <2>10 DEF CallsInv
    <3> QED BY <2>5, <2>6, <2>9, <2>12, <2>c, <3>1 DEF CallsInv
  <2>14. BodiesInv(source', item, editor, calls')
    <3>1. CASE ~ok
      <4>1. source' = source
        BY <1>3, <3>1
      <4>2. Served(calls) => Served(calls')
        BY <1>2, <2>0 DEF Served, c
      <4> QED BY <2>1, <4>1, <4>2 DEF BodiesInv
    <3>2. CASE ok /\ c.op = "update"
      <4>1. Served(calls')
        BY <1>2, <1>7, <2>0, <3>2 DEF Served, d, ok
      <4> QED BY <4>1 DEF BodiesInv
    <3>3. CASE ok /\ c.op \in {"create", "adopt"}
      BY <1>3, <2>7, <3>3 DEF BodiesInv, Explained
    <3>4. CASE ok /\ c.op = "delete"
      <4>1. ~Managed(source')
        BY <1>3, <3>4 DEF Managed
      <4> QED BY <4>1 DEF BodiesInv, Explained
    <3> QED BY <1>5, <3>1, <3>2, <3>3, <3>4
  <2> QED BY <2>13, <2>14
<1>16. ConflictInv'
  BY <1>1, <1>15 DEF ConflictInv, CallsInv, BodiesInv
<1> QED BY <1>10, <1>14, <1>16

\* What a read in the background does.
LEMMA ItemFetched ==
  ASSUME EditorInv, ConflictInv, ServeItem \/ Tick
  PROVE  EditorInv' /\ ConflictInv'
<1>1. UNCHANGED <<source, page, editor, calls, told, orphaned>>
  BY DEF ServeItem, Tick
<1>2. /\ IsEntry(item') /\ item'.data = item.data
      /\ item'.fetch.data = item.fetch.data \/ item'.fetch.data = NoData \/ item'.fetch.data = Body(source)
      /\ Fresh(page, item', told)
  <2>1. CASE ServeItem
    <3>1. item' = AnswerFetch(item, Body(source)) /\ item.fetch = Asked
      BY <2>1 DEF ServeItem
    <3>2. item' = [data |-> item.data, error |-> item.error, fetch |-> [step |-> "answered", data |-> Body(source)]]
      BY <3>1, CacheFacts DEF EditorInv
    <3>3. IsEntry(item') /\ item'.data = item.data /\ item'.fetch.data = Body(source) /\ item'.fetch.step = "answered"
      BY <3>2 DEF IsEntry
    <3>4. page = "item"
      BY <3>1, FetchFacts DEF EditorInv, Fresh
    <3>5. Body(source) # NoData => Body(source).version >= told
      BY DEF EditorInv, ToldOf, Body, Managed, IsSource
    <3> QED BY <3>3, <3>4, <3>5, FetchFacts DEF Fresh
  <2>2. CASE Tick
    <3>1. item' = InvalidatedItem(page, item)
      BY <2>2 DEF Tick
    <3>2. CASE page = "item"
      <4>1. item' = [data |-> item.data, error |-> item.error, fetch |-> IF FirstRead(item) THEN item.fetch ELSE Asked]
        BY <3>1, <3>2, CacheFacts DEF EditorInv, InvalidatedItem
      <4>2. CASE FirstRead(item)
        <5>1. item' = item
          BY <3>1, <3>2, <4>2 DEF InvalidatedItem, Invalidate
        <5> QED BY <5>1 DEF EditorInv
      <4>3. CASE ~FirstRead(item)
        <5>1. IsEntry(item') /\ item'.data = item.data /\ item'.fetch = Asked
          BY <4>1, <4>3 DEF IsEntry
        <5> QED BY <3>2, <5>1, FetchFacts DEF Fresh
      <4> QED BY <4>2, <4>3
    <3>3. CASE page # "item"
      BY <3>1, <3>3 DEF EditorInv, InvalidatedItem
    <3> QED BY <3>2, <3>3
  <2> QED BY <2>1, <2>2
<1>3. HadBody(source, Body(source)) /\ Explained(source, Body(source))
  BY DEF EditorInv, IsSource, HadBody, Had, Body, Explained, Managed
<1>4. HadBody(source, item'.fetch.data)
  BY <1>2, <1>3 DEF EditorInv, HadBody
<1>5. EditorInv'
  BY <1>1, <1>2, <1>4 DEF EditorInv, Keyed
<1>6. ASSUME ~orphaned PROVE BodiesInv(source, item', editor, calls) /\ CallsInv(source, editor, calls)
  <2>1. CallsInv(source, editor, calls) /\ BodiesInv(source, item, editor, calls)
    BY <1>6 DEF ConflictInv
  <2>2. Explained(source, NoData)
    BY DEF Explained
  <2> QED BY <1>2, <1>3, <2>1, <2>2 DEF BodiesInv
<1>7. ConflictInv'
  BY <1>1, <1>6 DEF ConflictInv, CallsInv, BodiesInv
<1> QED BY <1>5, <1>7

\* What another administrator or this person does to the list, and stuttering.
LEMMA ListFetched ==
  ASSUME EditorInv, ConflictInv, UNCHANGED <<source, item, page, editor, calls, told, orphaned>>
  PROVE  EditorInv' /\ ConflictInv'
BY DEF EditorInv, ConflictInv, CallsInv, BodiesInv, Keyed

\* Every step of the source editor keeps its invariants and loses no edit.
LEMMA EditorStep ==
  ASSUME EditorInv, ConflictInv, [EditorNext]_editorVars
  PROVE  EditorInv' /\ ConflictInv' /\ (Managed(source) /\ Managed(source') => source.edits \subseteq source'.edits)
<1>1. CASE Poll \/ ServeList \/ UNCHANGED editorVars
  <2>1. UNCHANGED <<source, item, page, editor, calls, told, orphaned>>
    BY <1>1 DEF Poll, ServeList, editorVars
  <2> QED BY <2>1, ListFetched
<1>2. CASE (\E pg \in Pages : Navigate(pg)) \/ ListArrives
  <2>1. source' = source
    BY <1>2 DEF Navigate, ListArrives
  <2> QED BY <1>2, <2>1, PageLeft
<1>3. CASE ItemArrives
  <2>1. source' = source
    BY <1>3 DEF ItemArrives
  <2> QED BY <1>3, <2>1, ItemRead
<1>4. CASE ServeItem \/ Tick
  <2>1. source' = source
    BY <1>4 DEF ServeItem, Tick
  <2> QED BY <1>4, <2>1, ItemFetched
<1>5. CASE (\E e \in Mine : Typing(e)) \/ AskDelete \/ CancelDelete
  <2>1. source' = source
    BY <1>5 DEF Typing, AskDelete, CancelDelete
  <2> QED BY <1>5, <2>1, Typed
<1>6. CASE Submitted \/ Adopt \/ Delete
  <2>1. source' = source
    BY <1>6 DEF Submitted, Adopt, Delete
  <2> QED BY <1>6, <2>1, CallMade
<1>7. ASSUME NEW i \in DOMAIN calls, Serve(i)
      PROVE  EditorInv' /\ ConflictInv' /\ (Managed(source) /\ Managed(source') => source.edits \subseteq source'.edits)
  BY <1>7, CallServed
<1>8. ASSUME NEW i \in DOMAIN calls, Check(i) \/ Fail(i) \/ Failed(i)
      PROVE  EditorInv' /\ ConflictInv' /\ source' = source
  BY <1>8, CallFailed, Zenon DEF Check, Fail, Failed
<1>9. ASSUME NEW i \in DOMAIN calls, Succeeded(i)
      PROVE  EditorInv' /\ ConflictInv' /\ source' = source
  BY <1>9, CallSucceeded, Zenon DEF Succeeded
<1>10. ASSUME NEW e \in Others, OtherSaves(e) \/ OtherCreates(e)
      PROVE  EditorInv' /\ ConflictInv' /\ (Managed(source) /\ Managed(source') => source.edits \subseteq source'.edits)
  BY <1>10, SavedByOther, CreatedByOther, SourceMoved
<1> QED BY <1>1, <1>2, <1>3, <1>4, <1>5, <1>6, <1>7, <1>8, <1>9, <1>10 DEF EditorNext

\* The invariants give the two properties of the source editor.
LEMMA EditorTruth ==
  ASSUME EditorInv, ConflictInv
  PROVE  QuietIsFresh /\ ConflictIsOthers
<1>1. QuietIsFresh
  BY DEF EditorInv, Fresh, QuietIsFresh
<1>2. ConflictIsOthers
  BY DEF ConflictInv, CallsInv, Disputed, ConflictIsOthers, OthersUnseen, Beyond
<1> QED BY <1>1, <1>2

-----------------------------------------------------------------------------
(***************************************************************************)
(* The console: every page keeps its own invariant.                        *)
(***************************************************************************)

\* What holds of every page at every time.
ConsoleInv ==
    /\ EditorInv /\ ConflictInv
    /\ ForwardInv
    /\ UsersInv
    /\ KeysInv
    /\ PeriodInv
    /\ ServicesInv

\* A step of the console is a step or a stutter of every page: the pages share
\* no variable.
LEMMA EveryPageSteps ==
  ASSUME [ConsoleNext]_consoleVars
  PROVE  /\ [EditorNext]_editorVars /\ [ForwardNext]_forwardVars /\ [UsersNext]_userVars
         /\ [KeysNext]_keyVars /\ [RetentionNext]_retentionVars /\ [ServicesNext]_serviceVars
BY DEF ConsoleNext, consoleVars, InSources, InForwarding, InUsers, InKeys, InRetention, InServices

\* Every page starts in its invariant.
LEMMA ConsoleStart == ConsoleInit => ConsoleInv
BY EditorStart, ForwardStart, UsersStart, KeysStart, PeriodStart, ServicesStart DEF ConsoleInit, ConsoleInv

\* Every step of the console keeps the invariant of every page.
LEMMA ConsoleStep ==
  ASSUME ConsoleInv, [ConsoleNext]_consoleVars
  PROVE  ConsoleInv'
<1>1. EditorInv' /\ ConflictInv'
  BY EveryPageSteps, EditorStep DEF ConsoleInv
<1>2. ForwardInv' /\ UsersInv' /\ KeysInv'
  BY EveryPageSteps, ForwardStep, UsersStep, KeysStep DEF ConsoleInv
<1>3. PeriodInv'
  BY EveryPageSteps, PeriodStep DEF ConsoleInv
<1>4. ServicesInv'
  BY EveryPageSteps, ServicesStep DEF ConsoleInv
<1> QED BY <1>1, <1>2, <1>3, <1>4 DEF ConsoleInv

\* At every time every page of the console satisfies its invariant: what a page
\* holds, shows and sends is tied to what the server has or had, whichever calls,
\* reads and other administrators come between.
THEOREM ConsoleInvariant == ConsoleSpec => []ConsoleInv
<1>1. ConsoleInit => ConsoleInv
  BY ConsoleStart
<1>2. ConsoleInv /\ [ConsoleNext]_consoleVars => ConsoleInv'
  BY ConsoleStep
<1> QED BY <1>1, <1>2, PTL DEF ConsoleSpec

\* What the pages say is so, for every number of calls, reads, keys, accounts and
\* catalogs, and whatever answers are lost: a quiet page is no older than the answers
\* it got, a conflict is somebody else's doing or that of an own save nothing was heard
\* of, a list differs from what is stored only by such calls, secrets whose answer comes
\* reach the screen, a form without changes is a stored one, and a refusal is on its row.
THEOREM PagesAreTrue == ConsoleSpec => []PagesTellTheTruth
<1>1. ConsoleInv => PagesTellTheTruth
  BY EditorTruth, UsersTruth, KeysTruth, ServicesTruth DEF ConsoleInv, PagesTellTheTruth
<1> QED BY <1>1, ConsoleInvariant, PTL

\* Opening a target or the catalog and saving it without a change stores what was
\* there, and a period that is typed is stored as long as it was typed, whatever was
\* saved, read and stored by others before.  What is stored at first and what others
\* store is spelled as the pages spell it: the API takes labels and names of sources
\* with blanks around them, which the pages would trim.
THEOREM UntouchedSavesTheSame ==
  ASSUME PlainStores
  PROVE  ConsoleSpec => []UntouchedIsUnchanged
<1>1. ConsoleInv => UntouchedIsUnchanged
  BY ForwardTruth, PeriodTruth, ServicesReturn DEF ConsoleInv, UntouchedIsUnchanged
<1> QED BY <1>1, ConsoleInvariant, PTL

\* No save of a source and no save or switch of a target replaces what its sender had
\* not seen.  A save of an account changes the role and the switch that the server read
\* only away from what the dialog had shown; the update of the account that follows the
\* read has no version, and undoes what is stored between the two.
THEOREM NothingOverwrittenBlindly == ConsoleSpec => NoBlindOverwrite
<1>1. ConsoleInv /\ [ConsoleNext]_consoleVars =>
         [Managed(source) /\ Managed(source') => source.edits \subseteq source'.edits]_editorVars
  BY EveryPageSteps, EditorStep DEF ConsoleInv
<1>2. ConsoleInv /\ [ConsoleNext]_consoleVars => ForwardStored
  BY EveryPageSteps, ForwardActions DEF ConsoleInv
<1>3. ForwardStored =>
         [\A i \in DOMAIN requests :
            Stored(i) /\ requests[i].op \in {"update", "enable", "disable"} =>
                View(target) = requests[i].seen]_forwardVars
  BY DEF ForwardStored
<1>4. ForwardStored =>
         [\A i \in DOMAIN requests :
            Stored(i) => /\ requests[i].op = "update" => target'.enabled = target.enabled
                         /\ requests[i].op = "create" => ~target'.enabled]_forwardVars
  BY DEF ForwardStored
<1>5. ForwardStored =>
         [\A i \in DOMAIN requests :
            Stored(i) /\ target'.enabled /\ ~target.enabled =>
                /\ requests[i].op = "enable"
                /\ target'.config = requests[i].seen.config]_forwardVars
  BY DEF ForwardStored
<1>6. ForwardStored =>
         [\A i \in DOMAIN requests :
            Stored(i) /\ requests[i].op # "create" /\ target'.secret # target.secret =>
                requests[i].form.token # "" \/ requests[i].form.remove_token]_forwardVars
  BY DEF ForwardStored
<1>7. ConsoleInv /\ [ConsoleNext]_consoleVars =>
         [\A i \in DOMAIN mutations :
            Took(i) =>
                LET u == mutations[i].id
                    m == mutations[i] IN
                /\ accounts'[u].role # m.row.role => accounts'[u].role # m.seen.role
                /\ accounts'[u].disabled # m.row.disabled => accounts'[u].disabled # m.seen.disabled]_userVars
  BY EveryPageSteps, UsersNoRevert DEF ConsoleInv, NoStaleStep
<1> QED
  BY <1>1, <1>2, <1>3, <1>4, <1>5, <1>6, <1>7, ConsoleInvariant, PTL
     DEF ConsoleSpec, NoBlindOverwrite, NothingLost, ReplacesWhatWasSeen, StartsWhatWasShown, EditNeverSwitches,
         TokenKept, NoStaleRevert

\* No read in the background that succeeds replaces what is being typed, and filling in
\* countries on rows that were not touched since changes only empty ones.  (A read that
\* fails unmounts the form, and a list of countries that comes after rows were edited is
\* applied to the rows of the click: there the code loses what was typed.)
THEOREM TypingIsKept == ConsoleSpec => TypingSurvives
<1>1. ConsoleInv /\ [ConsoleNext]_consoleVars =>
         [retention.fetch.step = "answered" /\ retention.fetch.data # NoData /\ retention'.fetch = NotAsked
           /\ periodForm.mounted => periodForm' = periodForm]_retentionVars
  BY EveryPageSteps, RetentionStep DEF ConsoleInv, PeriodInv
<1>2. ConsoleInv /\ [ConsoleNext]_consoleVars => ServicesKept
  BY EveryPageSteps, ServicesActions DEF ConsoleInv
<1>3. ServicesKept =>
         [filling.step = "asked" /\ filling'.step = "no" /\ filling.rows = panel.rows =>
           /\ panel'.rows # panel.rows => panel'.dirty
           /\ \A i \in DOMAIN panel.rows :
                 panel'.rows[i] # panel.rows[i] =>
                     /\ panel.rows[i].country = ""
                     /\ [panel'.rows[i] EXCEPT !.country = ""] = panel.rows[i]]_serviceVars
  BY DEF ServicesKept
<1>4. ServicesKept =>
         [catalog.fetch.step = "answered" /\ catalog.fetch.data # NoData /\ catalog'.fetch = NotAsked
           => panel'.rows = panel.rows]_serviceVars
  BY DEF ServicesKept
<1> QED
  BY <1>1, <1>2, <1>3, <1>4, ConsoleInvariant, PTL
     DEF ConsoleSpec, TypingSurvives, PollKeepsTyping, TypingSurvivesRead, FillKeepsChosen
=============================================================================
