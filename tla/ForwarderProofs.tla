--------------------------- MODULE ForwarderProofs --------------------------
(***************************************************************************)
(* Proofs about one forward target: it never sends on its closed queue, a  *)
(* write carries one tenant, and every copy that Forward makes is in one   *)
(* place until it is counted, once, under the outcome it had; the counters *)
(* follow the buffer, which stays near its limit.                          *)
(***************************************************************************)
EXTENDS Forwarder, Collections

USE DEF callers, counters, batch, sending, stopping

-----------------------------------------------------------------------------
(***************************************************************************)
(* The copies of a group: its selected rows, each of them once.            *)
(***************************************************************************)

\* One pass of the loop of Forward over the rows of s.
Loop(f, s, n) ==
    /\ f[0] = <<>>
    /\ \A i \in 1..n : f[i] = IF s[i] \in Selected THEN Append(f[i - 1], s[i]) ELSE f[i - 1]

\* The recursive function in Copies exists for a sequence of any length.
LEMMA CopyLoopExists ==
  ASSUME NEW s, NEW n \in Nat
  PROVE  \E f : Loop(f, s, n)
<1> DEFINE S == {k \in Nat : \E f : Loop(f, s, k)}
<1>1. 0 \in S
  <2> DEFINE f == [i \in {0} |-> <<>>]
  <2>1. Loop(f, s, 0)
    BY DEF Loop
  <2> QED
    BY <2>1
<1>2. ASSUME NEW k \in Nat, k \in S PROVE k + 1 \in S
  <2>1. PICK f : Loop(f, s, k)
    BY <1>2
  <2> DEFINE e == IF s[k + 1] \in Selected THEN Append(f[k], s[k + 1]) ELSE f[k]
             g == [i \in 0..(k + 1) |-> IF i = k + 1 THEN e ELSE f[i]]
  <2>2. /\ g[k + 1] = e /\ \A i \in 0..k : g[i] = f[i]
    OBVIOUS
  <2> HIDE DEF g
  <2>3. g[0] = <<>>
    BY <2>1, <2>2 DEF Loop
  <2>4. ASSUME NEW i \in 1..(k + 1)
        PROVE  g[i] = IF s[i] \in Selected THEN Append(g[i - 1], s[i]) ELSE g[i - 1]
    <3>1. CASE i = k + 1
      <4>1. i - 1 = k /\ k \in 0..k
        BY <3>1
      <4> QED
        BY <2>2, <3>1, <4>1
    <3>2. CASE i # k + 1
      <4>1. i \in 1..k /\ i \in 0..k /\ i - 1 \in 0..k
        BY <3>2
      <4> QED
        BY <2>1, <2>2, <4>1 DEF Loop
    <3> QED
      BY <3>1, <3>2
  <2>5. Loop(g, s, k + 1)
    BY <2>3, <2>4 DEF Loop
  <2> QED
    BY <2>5
<1>3. Nat \subseteq S
  <2> HIDE DEF S
  <2> QED BY <1>1, <1>2, NatSetInduction
<1> QED
  BY <1>3

\* What the loop of Forward computes for a group.
LEMMA CopiesLoop ==
  ASSUME NEW g \in Groups
  PROVE  \E f : Loop(f, Content[g], Len(Content[g])) /\ Copies(g) = f[Len(Content[g])]
<1> DEFINE s == Content[g]
           n == Len(s)
           Is(k) == k = [i \in 0..n |-> IF i = 0 THEN <<>>
                                        ELSE IF s[i] \in Selected
                                             THEN Append(k[i - 1], s[i])
                                             ELSE k[i - 1]]
           h == CHOOSE k : Is(k)
<1>1. n \in Nat
  BY GroupsAssumption
<1>2. Copies(g) = h[n]
  BY DEF Copies
<1> HIDE DEF n, s
<1>3. PICK f : Loop(f, s, n)
  BY <1>1, CopyLoopExists
<1>4. \E k : Is(k)
  <2> DEFINE k == [i \in 0..n |-> f[i]]
  <2>1. \A i \in 0..n : k[i] = f[i]
    OBVIOUS
  <2>2. \A i \in 0..n : i # 0 => i \in 1..n /\ i - 1 \in 0..n
    BY <1>1
  <2>3. \A i \in 0..n : f[i] = IF i = 0 THEN <<>>
                               ELSE IF s[i] \in Selected
                                    THEN Append(f[i - 1], s[i]) ELSE f[i - 1]
    BY <1>3, <2>2 DEF Loop
  <2>4. \A i \in 0..n : f[i] = IF i = 0 THEN <<>>
                               ELSE IF s[i] \in Selected
                                    THEN Append(k[i - 1], s[i]) ELSE k[i - 1]
    BY <2>1, <2>2, <2>3
  <2>5. Is(k)
    BY <2>4
  <2> QED
    BY <2>5
<1>5. Is(h)
  BY <1>4
<1> HIDE DEF h
<1>6. Loop(h, s, n)
  <2>1. 0 \in 0..n /\ \A i \in 1..n : i \in 0..n /\ i # 0
    BY <1>1
  <2> QED
    BY <1>5, <2>1 DEF Loop
<1> QED
  BY <1>2, <1>6 DEF s, n

\* The copies of a group are rows of it, each once.
LEMMA CopiesFacts ==
  ASSUME NEW g \in Groups
  PROVE  /\ Copies(g) \in Seq(Rows) /\ Distinct(Copies(g))
         /\ ToSet(Copies(g)) \subseteq ToSet(Content[g])
         /\ Len(Copies(g)) <= Len(Content[g])
<1> DEFINE s == Content[g]
           n == Len(s)
<1>0. s \in Seq(Rows) /\ n \in Nat
  BY GroupsAssumption
<1>d. \A i, j \in 1..n : s[i] = s[j] => i = j
  BY <1>0, GroupsAssumption
<1>1. PICK f : Loop(f, s, n) /\ Copies(g) = f[n]
  BY CopiesLoop
<1> HIDE DEF n, s
<1> DEFINE Good(k) == /\ f[k] \in Seq(Rows) /\ Distinct(f[k]) /\ Len(f[k]) <= k
                      /\ \A x \in ToSet(f[k]) : \E i \in 1..k : x = s[i]
           K == {k \in Nat : k <= n => Good(k)}
<1>2. 0 \in K
  <2>1. f[0] = <<>>
    BY <1>1 DEF Loop
  <2>2. ToSet(<<>>) = {} /\ Distinct(<<>>) /\ <<>> \in Seq(Rows) /\ Len(<<>>) <= 0
    BY DEF ToSet, Distinct
  <2> QED
    BY <2>1, <2>2
<1>3. ASSUME NEW k \in Nat, k \in K PROVE k + 1 \in K
  <2> SUFFICES ASSUME k + 1 <= n PROVE Good(k + 1)
    OBVIOUS
  <2>1. Good(k)
    BY <1>0, <1>3
  <2>2. k + 1 \in 1..n /\ (k + 1) - 1 = k /\ \A i \in 1..k : i \in 1..n /\ i \in 1..(k + 1) /\ i # k + 1
    BY <1>0
  <2>3. f[k + 1] = IF s[k + 1] \in Selected THEN Append(f[k], s[k + 1]) ELSE f[k]
    BY <1>1, <2>2 DEF Loop
  <2>4. s[k + 1] \in Rows
    BY <1>0, <2>2 DEF n
  <2> DEFINE q == f[k]
             e == s[k + 1]
  <2>5. q \in Seq(Rows) /\ Distinct(q) /\ Len(q) <= k /\ Len(q) \in Nat
        /\ \A x \in ToSet(q) : \E i \in 1..k : x = s[i]
    BY <2>1
  <2>6. e \notin ToSet(q)
    BY <1>d, <2>2, <2>5
  <2>7. e \in Rows
    BY <2>4
  <2>8. k + 1 \in 1..(k + 1)
    BY <2>2
  <2>9. CASE s[k + 1] \in Selected
    <3>1. f[k + 1] = Append(q, e)
      BY <2>3, <2>9
    <3>2. \A x \in ToSet(q) \cup {e} : \E i \in 1..(k + 1) : x = s[i]
      BY <2>2, <2>5, <2>8
    <3> HIDE DEF q, e
    <3>3. ToSet(Append(q, e)) = ToSet(q) \cup {e}
      BY <2>5, ToSetAppend
    <3>4. Distinct(Append(q, e))
      BY <2>5, <2>6, DistinctAppend
    <3>5. Append(q, e) \in Seq(Rows) /\ Len(Append(q, e)) = Len(q) + 1
      BY <2>5, <2>7, AppendProperties
    <3>6. Len(Append(q, e)) <= k + 1
      BY <2>5, <3>5
    <3> QED
      BY <3>1, <3>2, <3>3, <3>4, <3>5, <3>6
  <2>10. CASE s[k + 1] \notin Selected
    <3>1. f[k + 1] = q
      BY <2>3, <2>10
    <3>2. \A x \in ToSet(q) : \E i \in 1..(k + 1) : x = s[i]
      BY <2>2, <2>5
    <3> HIDE DEF q
    <3>3. Len(q) <= k + 1
      BY <2>5
    <3> QED
      BY <2>5, <3>1, <3>2, <3>3
  <2> QED
    BY <2>9, <2>10
<1>4. Nat \subseteq K
  <2> HIDE DEF K
  <2> QED BY <1>2, <1>3, NatSetInduction
<1>5. Good(n)
  <2>1. n \in K
    <3> HIDE DEF K
    <3> QED BY <1>0, <1>4
  <2>2. n <= n
    BY <1>0
  <2> HIDE DEF Good
  <2> QED
    BY <2>1, <2>2
<1>6. \A x \in ToSet(f[n]) : x \in ToSet(s)
  <2>1. DOMAIN s = 1..n
    BY <1>0 DEF n
  <2> QED
    BY <1>5, <2>1 DEF ToSet
<1> QED
  BY <1>1, <1>5, <1>6 DEF s, n

\* A row is a copy of one group only.
LEMMA CopiesApart ==
  ASSUME NEW g \in Groups, NEW h \in Groups, NEW r, r \in ToSet(Copies(g)), r \in ToSet(Copies(h))
  PROVE  g = h /\ r \in Rows
<1>1. r \in ToSet(Content[g]) /\ r \in ToSet(Content[h])
  BY CopiesFacts
<1>2. Content \in [Groups -> Seq(Rows)]
  BY GroupsAssumption
<1>3. PICK i \in DOMAIN Content[g] : Content[g][i] = r
  BY <1>1 DEF ToSet
<1>4. PICK j \in DOMAIN Content[h] : Content[h][j] = r
  BY <1>1 DEF ToSet
<1>5. g = h
  BY <1>3, <1>4, GroupsAssumption
<1> QED
  BY <1>2, <1>3, <1>5

\* The sizes that are summed are natural numbers.
LEMMA SizesType ==
  ASSUME NEW rows \in Seq(Rows)
  PROVE  SumSizes(rows) = SeqSum(Size, rows) /\ SumSizes(rows) \in Nat
<1>1. SumSizes(rows) = SeqSum(Size, rows)
  BY DEF SumSizes, SeqSum
<1>2. \A r \in Rows : Size[r] \in Nat
  BY GroupsAssumption
<1> QED
  BY <1>1, <1>2, SeqSumType

\* The rows and bytes of a group of copies.
LEMMA GroupSizes ==
  ASSUME NEW g \in Groups
  PROVE  /\ RowsOf[g] = Len(Copies(g)) /\ RowsOf[g] \in Nat /\ Len(Copies(g)) \in Nat
         /\ SizeOf[g] = BytesOf(g) /\ SizeOf[g] \in Nat /\ BytesOf(g) \in Nat
<1>1. Copies(g) \in Seq(Rows)
  BY CopiesFacts
<1>2. BytesOf(g) \in Nat
  BY <1>1, SizesType DEF BytesOf
<1>3. Len(Copies(g)) \in Nat
  BY <1>1
<1> QED
  BY <1>2, <1>3 DEF RowsOf, SizeOf

-----------------------------------------------------------------------------
(***************************************************************************)
(* Types.                                                                  *)
(***************************************************************************)

\* A call that has begun is about a group, and what the sender still has to
\* append are copies of the group it received last.
HandFull == \A w \in Callers : caller[w] # "idle" => hand[w] \in Groups
GroupKnown == rest # <<>> => group \in Groups /\ ToSet(rest) \subseteq ToSet(Copies(group))

TypeInv == TypeOK /\ HandFull /\ GroupKnown

\* Marking keeps the outcomes well typed.
LEMMA MarkType ==
  ASSUME TypeOK, NEW rows, NEW what \in Dropped \cup {"sent", "ignored"}, Mark(rows, what)
  PROVE  outcome' \in [Rows -> Dropped \cup {"none", "sent", "ignored"}]
BY DEF TypeOK, Mark

\* The steps of Forward keep the types.
LEMMA ForwardKeepsType ==
  ASSUME TypeInv, NEW w \in Callers, Forward(w)
  PROVE  TypeInv'
<1> USE DEF TypeInv
<1>1. ASSUME NEW g \in Groups, Enter(w, g) PROVE TypeInv'
  <2>1. outcome' \in [Rows -> Dropped \cup {"none", "sent", "ignored"}]
    <3>1. CASE closed \/ Copies(g) = <<>>
      <4>1. Mark(Copies(g), "ignored")
        BY <1>1, <3>1 DEF Enter
      <4> QED
        BY <4>1, MarkType
    <3>2. CASE ~(closed \/ Copies(g) = <<>>)
      BY <1>1, <3>2 DEF Enter, TypeOK
    <3> QED
      BY <3>1, <3>2
  <2>2. /\ caller' \in [Callers -> {"idle", "copied", "fits", "sent", "added"}]
        /\ hand' \in [Callers -> Groups \cup {None}]
        /\ HandFull'
    BY <1>1 DEF Enter, TypeOK, HandFull
  <2>3. GroupKnown'
    BY <1>1 DEF Enter, GroupKnown
  <2>4. offered' \subseteq Groups /\ UNCHANGED <<queue, queued, bytes, sender, group, rest,
                                      pending, tenant, stopper, closed, cancelled, remote>>
    BY <1>1 DEF Enter, TypeOK
  <2> QED
    BY <2>1, <2>2, <2>3, <2>4 DEF TypeOK
<1>2. ASSUME Leave(w) PROVE /\ caller' \in [Callers -> {"idle", "copied", "fits", "sent", "added"}]
                            /\ hand' \in [Callers -> Groups \cup {None}]
                            /\ HandFull'
  BY <1>2 DEF Leave, TypeOK, HandFull
<1>3. CASE Check(w)
  <2>1. CASE Fits(hand[w])
    <3>1. /\ caller' \in [Callers -> {"idle", "copied", "fits", "sent", "added"}]
          /\ HandFull'
      BY <1>3, <2>1 DEF Check, TypeOK, HandFull
    <3>2. UNCHANGED <<hand, offered, queue, queued, bytes, sender, group, rest, pending, tenant,
                      stopper, closed, cancelled, outcome, remote>>
      BY <1>3, <2>1 DEF Check
    <3> QED
      BY <3>1, <3>2 DEF TypeOK, GroupKnown
  <2>2. CASE ~Fits(hand[w])
    <3>1. Leave(w) /\ Mark(Copies(hand[w]), DropQueueFull)
      BY <1>3, <2>2 DEF Check
    <3>2. DropQueueFull \in Dropped
      BY DEF DropQueueFull, Dropped
    <3>3. outcome' \in [Rows -> Dropped \cup {"none", "sent", "ignored"}]
      BY <3>1, <3>2, MarkType
    <3>4. UNCHANGED <<offered, queue, queued, bytes, sender, group, rest, pending, tenant,
                      stopper, closed, cancelled, remote>>
      BY <1>3 DEF Check
    <3> QED
      BY <1>2, <3>1, <3>3, <3>4 DEF TypeOK, GroupKnown
  <2> QED
    BY <2>1, <2>2
<1>4. CASE Send(w)
  <2>1. CASE Len(queue) < QueueSlots
    <3>1. /\ caller' \in [Callers -> {"idle", "copied", "fits", "sent", "added"}]
          /\ HandFull'
      BY <1>4, <2>1 DEF Send, TypeOK, HandFull
    <3>2. UNCHANGED <<hand, offered, queued, bytes, sender, group, rest, pending, tenant,
                      stopper, closed, cancelled, outcome, remote>>
      BY <1>4, <2>1 DEF Send
    <3>3. queue' = Append(queue, hand[w]) /\ hand[w] \in Groups /\ queue \in Seq(Groups)
      BY <1>4, <2>1 DEF Send, TypeOK, HandFull
    <3>4. queue' \in Seq(Groups)
      BY <3>3
    <3> QED
      BY <3>1, <3>2, <3>4 DEF TypeOK, GroupKnown
  <2>2. CASE ~(Len(queue) < QueueSlots)
    <3>1. Leave(w) /\ Mark(Copies(hand[w]), DropQueueFull)
      BY <1>4, <2>2 DEF Send
    <3>2. DropQueueFull \in Dropped
      BY DEF DropQueueFull, Dropped
    <3>3. outcome' \in [Rows -> Dropped \cup {"none", "sent", "ignored"}]
      BY <3>1, <3>2, MarkType
    <3>4. UNCHANGED <<offered, queue, queued, bytes, sender, group, rest, pending, tenant,
                      stopper, closed, cancelled, remote>>
      BY <1>4, <2>2 DEF Send
    <3> QED
      BY <1>2, <3>1, <3>3, <3>4 DEF TypeOK, GroupKnown
  <2> QED
    BY <2>1, <2>2
<1>5. CASE AddQueued(w)
  <2>1. /\ caller' \in [Callers -> {"idle", "copied", "fits", "sent", "added"}]
        /\ HandFull'
    BY <1>5 DEF AddQueued, TypeOK, HandFull
  <2>2. hand[w] \in Groups
    BY <1>5 DEF AddQueued, HandFull
  <2>3. Len(Copies(hand[w])) \in Nat
    BY <2>2, GroupSizes
  <2>4. queued' = queued + Len(Copies(hand[w])) /\ queued \in Int
    BY <1>5 DEF AddQueued, TypeOK
  <2>5. queued' \in Int
    BY <2>3, <2>4
  <2>6. UNCHANGED <<hand, offered, queue, bytes, sender, group, rest, pending, tenant,
                    stopper, closed, cancelled, outcome, remote>>
    BY <1>5 DEF AddQueued
  <2> QED
    BY <2>1, <2>5, <2>6 DEF TypeOK, GroupKnown
<1>6. CASE AddBytes(w)
  <2>1. Leave(w)
    BY <1>6 DEF AddBytes
  <2>2. hand[w] \in Groups
    BY <1>6 DEF AddBytes, HandFull
  <2>3. BytesOf(hand[w]) \in Nat
    BY <2>2, GroupSizes
  <2>4. bytes' = bytes + BytesOf(hand[w]) /\ bytes \in Int
    BY <1>6 DEF AddBytes, TypeOK
  <2>5. bytes' \in Int
    BY <2>3, <2>4
  <2>6. UNCHANGED <<offered, queue, queued, sender, group, rest, pending, tenant,
                    stopper, closed, cancelled, outcome, remote>>
    BY <1>6 DEF AddBytes
  <2> QED
    BY <1>2, <2>1, <2>5, <2>6 DEF TypeOK, GroupKnown
<1> QED
  BY <1>1, <1>3, <1>4, <1>5, <1>6 DEF Forward

\* What a return of write leaves.
LEMMA WriteReturnsType ==
  ASSUME TypeInv, NEW what \in Dropped \cup {"sent", "ignored"}, WriteReturns(what), remote' \subseteq Rows
  PROVE  TypeInv'
<1> USE DEF TypeInv
<1>1. outcome' \in [Rows -> Dropped \cup {"none", "sent", "ignored"}]
  <2>1. Mark(pending, what)
    BY DEF WriteReturns
  <2> QED
    BY <2>1, MarkType
<1>2. pending \in Seq(Rows) /\ queued \in Int /\ bytes \in Int
  BY DEF TypeOK
<1>3. Len(pending) \in Nat /\ SumSizes(pending) \in Nat
  BY <1>2, SizesType
<1>4. queued' = queued - Len(pending) /\ bytes' = bytes - SumSizes(pending)
  BY DEF WriteReturns
<1>5. queued' \in Int /\ bytes' \in Int
  BY <1>2, <1>3, <1>4
<1>6. /\ pending' = <<>> /\ sender' = "filling"
      /\ UNCHANGED <<caller, hand, offered, queue, group, rest, tenant, stopper, closed, cancelled>>
  BY DEF WriteReturns
<1>7. pending' \in Seq(Rows)
  BY <1>6
<1> QED
  BY <1>1, <1>5, <1>6, <1>7 DEF TypeOK, HandFull, GroupKnown

\* The steps of the sender keep the types.
LEMMA SenderKeepsType ==
  ASSUME TypeInv, Sender
  PROVE  TypeInv'
<1> USE DEF TypeInv
<1>1. CASE Receive
  <2>1. queue \in Seq(Groups) /\ queue # <<>>
    BY <1>1 DEF Receive, TypeOK
  <2>2. Head(queue) \in Groups /\ Tail(queue) \in Seq(Groups)
    BY <2>1, HeadTailProperties
  <2>3. Copies(Head(queue)) \in Seq(Rows)
    BY <2>2, CopiesFacts
  <2>4. /\ queue' = Tail(queue) /\ group' = Head(queue) /\ rest' = Copies(Head(queue))
        /\ sender' = "filling"
    BY <1>1 DEF Receive
  <2>5. UNCHANGED <<caller, hand, offered, queued, bytes, pending, tenant, remote, stopper,
                    closed, cancelled, outcome>>
    BY <1>1 DEF Receive
  <2>6. GroupKnown'
    BY <2>2, <2>4 DEF GroupKnown
  <2>7. HandFull'
    BY <2>5 DEF HandFull
  <2> QED
    BY <2>2, <2>3, <2>4, <2>5, <2>6, <2>7 DEF TypeOK
<1>2. CASE Fill
  <2>1. rest \in Seq(Rows) /\ rest # <<>> /\ group \in Groups /\ pending \in Seq(Rows)
    BY <1>2 DEF Fill, TypeOK, GroupKnown
  <2>2. UNCHANGED <<caller, hand, offered, queue, queued, bytes, group, remote, stopper,
                    closed, cancelled, outcome>>
    BY <1>2 DEF Fill
  <2>3. HandFull'
    BY <2>2 DEF HandFull
  <2>4. CASE TenantChanges
    <3>1. sender' = "writing" /\ UNCHANGED <<rest, pending, tenant>>
      BY <1>2, <2>4 DEF Fill
    <3> QED
      BY <2>2, <2>3, <3>1 DEF TypeOK, GroupKnown
  <2>5. CASE ~TenantChanges
    <3>1. /\ tenant' = Tenant[group] /\ pending' = Append(pending, Head(rest)) /\ rest' = Tail(rest)
          /\ sender' \in {"writing", "filling"}
      BY <1>2, <2>5 DEF Fill
    <3>2. Head(rest) \in Rows /\ Tail(rest) \in Seq(Rows)
      BY <2>1, HeadTailProperties
    <3>3. Append(pending, Head(rest)) \in Seq(Rows)
      BY <2>1, <3>2
    <3>4. Tenant[group] \in Tenants
      BY <2>1, GroupsAssumption
    <3>5. ToSet(rest) = {Head(rest)} \cup ToSet(Tail(rest))
      BY <2>1, ToSetTail
    <3>6. GroupKnown'
      BY <2>1, <2>2, <3>1, <3>5 DEF GroupKnown
    <3> QED
      BY <2>2, <2>3, <3>1, <3>2, <3>3, <3>4, <3>6 DEF TypeOK
  <2> QED
    BY <2>4, <2>5
<1>3. ASSUME NEW where \in {"idle", "filling", "writing", "backoff", "exited"}, GoTo(where)
      PROVE  TypeInv'
  BY <1>3 DEF GoTo, TypeOK, HandFull, GroupKnown
<1>4. CASE GroupDone
  BY <1>3, <1>4 DEF GroupDone
<1>5. CASE TimerFires
  BY <1>3, <1>5 DEF TimerFires
<1>6. CASE QueueClosed
  BY <1>3, <1>6 DEF QueueClosed, AfterQueueClosed
<1>7. CASE BackoffEnds
  BY <1>3, <1>7 DEF BackoffEnds
<1>p. ToSet(pending) \subseteq Rows /\ remote \subseteq Rows
  <2>1. pending \in Seq(Rows) /\ remote \subseteq Rows
    BY DEF TypeOK
  <2> QED
    BY <2>1 DEF ToSet
<1>8. CASE WriteSucceeds
  <2>1. remote' \subseteq Rows /\ WriteReturns("sent")
    BY <1>8, <1>p DEF WriteSucceeds
  <2> QED
    BY <2>1, WriteReturnsType
<1>9. CASE WriteRejected
  <2>1. remote' \subseteq Rows /\ WriteReturns("rejected") /\ "rejected" \in Dropped
    BY <1>9, <1>p DEF WriteRejected, Dropped
  <2> QED
    BY <2>1, WriteReturnsType
<1>10. CASE WriteAbandoned
  <2>1. remote' \subseteq Rows /\ WriteReturns("shutdown") /\ "shutdown" \in Dropped
    BY <1>10, <1>p DEF WriteAbandoned, Dropped
  <2> QED
    BY <2>1, WriteReturnsType
<1>11. CASE WriteFails
  <2>1. remote' \subseteq Rows /\ sender' = "backoff"
        /\ UNCHANGED <<caller, hand, offered, queue, queued, bytes, group, rest, pending, tenant,
                      stopper, closed, cancelled, outcome>>
    BY <1>11, <1>p DEF WriteFails
  <2> QED
    BY <2>1 DEF TypeOK, HandFull, GroupKnown
<1> QED
  BY <1>1, <1>2, <1>4, <1>5, <1>6, <1>7, <1>8, <1>9, <1>10, <1>11 DEF Sender

\* The types hold, and a step keeps them.
LEMMA TypeHolds == Spec => []TypeInv
<1>1. Init => TypeInv
  <2> SUFFICES ASSUME Init PROVE TypeInv
    OBVIOUS
  <2>1. <<>> \in Seq(Groups) /\ <<>> \in Seq(Rows)
    OBVIOUS
  <2>2. /\ caller \in [Callers -> {"idle", "copied", "fits", "sent", "added"}]
        /\ hand \in [Callers -> Groups \cup {None}]
        /\ outcome \in [Rows -> Dropped \cup {"none", "sent", "ignored"}]
    BY DEF Init
  <2>3. queued \in Int /\ bytes \in Int
    BY DEF Init
  <2>4. TypeOK
    BY <2>1, <2>2, <2>3 DEF Init, TypeOK
  <2>5. HandFull /\ GroupKnown
    BY DEF Init, HandFull, GroupKnown
  <2> QED
    BY <2>4, <2>5 DEF TypeInv
<1>2. TypeInv /\ [Next]_vars => TypeInv'
  <2> SUFFICES ASSUME TypeInv, [Next]_vars PROVE TypeInv'
    OBVIOUS
  <2>1. ASSUME NEW w \in Callers, Forward(w) PROVE TypeInv'
    BY <2>1, ForwardKeepsType
  <2>2. CASE Sender
    BY <2>2, SenderKeepsType
  <2>3. CASE StopCalled
    BY <2>3 DEF StopCalled, TypeInv, TypeOK, HandFull, GroupKnown
  <2>4. CASE CloseQueue
    BY <2>4 DEF CloseQueue, TypeInv, TypeOK, HandFull, GroupKnown
  <2>5. CASE DeadlineExpires
    BY <2>5 DEF DeadlineExpires, TypeInv, TypeOK, HandFull, GroupKnown
  <2>6. CASE StopReturns
    BY <2>6 DEF StopReturns, TypeInv, TypeOK, HandFull, GroupKnown
  <2>7. CASE UNCHANGED vars
    BY <2>7 DEF vars, TypeInv, TypeOK, HandFull, GroupKnown
  <2> QED
    BY <2>1, <2>2, <2>3, <2>4, <2>5, <2>6, <2>7 DEF Next
<1> QED
  BY <1>1, <1>2, PTL DEF Spec

\* Every variable of a target keeps its type.
THEOREM TypeCorrect == Spec => []TypeOK
<1>1. TypeInv => TypeOK
  BY DEF TypeInv
<1> QED
  BY <1>1, TypeHolds, PTL

-----------------------------------------------------------------------------
(***************************************************************************)
(* Stop.  The queue is closed under the write lock, that is while no call  *)
(* of Forward runs, and no call gets past the flag afterwards.             *)
(***************************************************************************)

ClosedInv ==
    /\ closed => \A w \in Callers : caller[w] = "idle"
    /\ closed <=> stopper \in {"draining", "returned"}

\* What the sender has when it waits for a group and when it has ended.
SenderInv ==
    /\ sender \in {"idle", "exited"} => rest = <<>>
    /\ sender = "exited" => closed /\ queue = <<>> /\ pending = <<>>
    /\ stopper = "returned" => sender = "exited"

\* A step keeps both.
LEMMA StopStep ==
  ASSUME TypeInv, ClosedInv, SenderInv, [Next]_vars
  PROVE  ClosedInv' /\ SenderInv'
<1> USE DEF ClosedInv, SenderInv
<1>t. caller \in [Callers -> {"idle", "copied", "fits", "sent", "added"}]
  BY DEF TypeInv, TypeOK
<1>1. ASSUME NEW w \in Callers, NEW g \in Groups, Enter(w, g) PROVE ClosedInv' /\ SenderInv'
  BY <1>1, <1>t DEF Enter
<1>2. ASSUME NEW w \in Callers, Check(w) \/ Send(w) \/ AddQueued(w) \/ AddBytes(w)
      PROVE  ClosedInv' /\ SenderInv'
  <2>1. caller[w] # "idle"
    BY <1>2 DEF Check, Send, AddQueued, AddBytes
  <2>2. ~closed
    BY <2>1
  <2>3. UNCHANGED <<sender, rest, stopper, closed>>
    BY <1>2 DEF Check, Send, AddQueued, AddBytes
  <2>4. sender # "exited"
    BY <2>2
  <2> QED
    BY <2>2, <2>3, <2>4
<1>3. ASSUME NEW where \in {"idle", "filling", "writing", "backoff"}, GoTo(where),
             where = "idle" => rest = <<>>, sender # "exited"
      PROVE  ClosedInv' /\ SenderInv'
  BY <1>3 DEF GoTo
<1>4. CASE Receive
  BY <1>4 DEF Receive
<1>5. CASE Fill
  <2>1. UNCHANGED <<caller, stopper, closed, queue>> /\ sender = "filling" /\ sender' \in {"writing", "filling"}
    BY <1>5 DEF Fill
  <2> QED
    BY <2>1
<1>6. CASE GroupDone
  BY <1>3, <1>6 DEF GroupDone
<1>7. CASE TimerFires
  BY <1>3, <1>7 DEF TimerFires
<1>8. CASE QueueClosed
  <2>1. CASE pending = <<>>
    <3>1. sender' = "exited" /\ UNCHANGED <<caller, queue, rest, pending, stopper, closed>>
      BY <1>8, <2>1 DEF QueueClosed, AfterQueueClosed, GoTo
    <3> QED
      BY <1>8, <2>1, <3>1 DEF QueueClosed
  <2>2. CASE pending # <<>>
    BY <1>3, <1>8, <2>2 DEF QueueClosed, AfterQueueClosed
  <2> QED
    BY <2>1, <2>2
<1>9. ASSUME NEW what, WriteReturns(what), sender # "exited" PROVE ClosedInv' /\ SenderInv'
  BY <1>9 DEF WriteReturns
<1>10. CASE WriteSucceeds
  BY <1>9, <1>10 DEF WriteSucceeds
<1>11. CASE WriteRejected
  BY <1>9, <1>11 DEF WriteRejected
<1>12. CASE WriteAbandoned
  BY <1>9, <1>12 DEF WriteAbandoned, Interruptible
<1>13. CASE WriteFails
  BY <1>13 DEF WriteFails
<1>14. CASE BackoffEnds
  BY <1>3, <1>14 DEF BackoffEnds
<1>15. CASE StopCalled
  BY <1>15 DEF StopCalled
<1>16. CASE CloseQueue
  BY <1>16 DEF CloseQueue, NoReaders
<1>17. CASE DeadlineExpires
  BY <1>17 DEF DeadlineExpires
<1>18. CASE StopReturns
  BY <1>18 DEF StopReturns
<1>19. CASE UNCHANGED vars
  BY <1>19 DEF vars
<1> QED
  BY <1>1, <1>2, <1>4, <1>5, <1>6, <1>7, <1>8, <1>10, <1>11, <1>12, <1>13, <1>14, <1>15, <1>16,
     <1>17, <1>18, <1>19 DEF Next, Forward, Sender

\* The flags of Stop and the state of the sender agree at all times.
LEMMA StopHolds == Spec => [](TypeInv /\ ClosedInv /\ SenderInv)
<1>1. Init => ClosedInv /\ SenderInv
  BY DEF Init, ClosedInv, SenderInv
<1>2. TypeInv /\ ClosedInv /\ SenderInv /\ [Next]_vars => ClosedInv' /\ SenderInv'
  BY StopStep
<1> QED
  BY <1>1, <1>2, TypeHolds, PTL DEF Spec

\* Forward never sends on the closed queue, whatever the number of writers: it holds the
\* read lock from the test of f.closed to the send, and Stop closes under the write lock.
THEOREM NoPanicOnSend == Spec => []NoSendOnClosed
<1>1. ClosedInv => NoSendOnClosed
  BY DEF ClosedInv, NoSendOnClosed
<1> QED
  BY <1>1, StopHolds, PTL

-----------------------------------------------------------------------------
(***************************************************************************)
(* Tenants.                                                                *)
(***************************************************************************)

\* The pending rows are copies of groups of the tenant of the batch.
TenantInv == \A g \in Groups : \A r \in ToSet(pending) : r \in ToSet(Copies(g)) => Tenant[g] = tenant

\* A step keeps the tenants apart.
LEMMA TenantStep ==
  ASSUME TypeInv, TenantInv, [Next]_vars
  PROVE  TenantInv'
<1>e. ToSet(<<>>) = {}
  BY DEF ToSet
<1>1. ASSUME UNCHANGED <<pending, tenant>> PROVE TenantInv'
  BY <1>1 DEF TenantInv
<1>2. ASSUME pending' = <<>> PROVE TenantInv'
  BY <1>e, <1>2 DEF TenantInv
<1>3. CASE Fill
  <2>1. rest \in Seq(Rows) /\ rest # <<>> /\ group \in Groups /\ pending \in Seq(Rows)
        /\ ToSet(rest) \subseteq ToSet(Copies(group))
    BY <1>3 DEF Fill, TypeInv, TypeOK, GroupKnown
  <2>2. CASE TenantChanges
    BY <1>1, <1>3, <2>2 DEF Fill
  <2>3. CASE ~TenantChanges
    <3>1. tenant' = Tenant[group] /\ pending' = Append(pending, Head(rest))
      BY <1>3, <2>3 DEF Fill
    <3>2. ToSet(rest) = {Head(rest)} \cup ToSet(Tail(rest))
      BY <2>1, ToSetTail
    <3>3. ToSet(pending') = ToSet(pending) \cup {Head(rest)}
      BY <2>1, <3>1, ToSetAppend
    <3>4. \A r \in ToSet(pending) : Tenant[group] = tenant
      BY <1>e, <2>3 DEF TenantChanges
    <3>5. ASSUME NEW g \in Groups, NEW r \in ToSet(pending'), r \in ToSet(Copies(g))
          PROVE  Tenant[g] = tenant'
      <4>1. CASE r \in ToSet(pending)
        BY <3>1, <3>4, <3>5, <4>1 DEF TenantInv
      <4>2. CASE r = Head(rest)
        <5>1. r \in ToSet(Copies(group))
          BY <2>1, <3>2, <4>2
        <5>2. g = group
          BY <2>1, <3>5, <5>1, CopiesApart
        <5> QED
          BY <3>1, <5>2
      <4> QED
        BY <3>3, <3>5, <4>1, <4>2
    <3> QED
      BY <3>5 DEF TenantInv
  <2> QED
    BY <2>2, <2>3
<1>4. ASSUME NEW w \in Callers, Forward(w) PROVE UNCHANGED <<pending, tenant>>
  BY <1>4 DEF Forward, Enter, Check, Send, AddQueued, AddBytes
<1>5. ASSUME Receive \/ GroupDone \/ TimerFires \/ QueueClosed \/ WriteFails \/ BackoffEnds
      PROVE  UNCHANGED <<pending, tenant>>
  BY <1>5 DEF Receive, GroupDone, TimerFires, QueueClosed, WriteFails, BackoffEnds, GoTo
<1>6. ASSUME WriteSucceeds \/ WriteRejected \/ WriteAbandoned PROVE pending' = <<>>
  BY <1>6 DEF WriteSucceeds, WriteRejected, WriteAbandoned, WriteReturns
<1>7. ASSUME StopCalled \/ CloseQueue \/ DeadlineExpires \/ StopReturns \/ UNCHANGED vars
      PROVE  UNCHANGED <<pending, tenant>>
  BY <1>7 DEF StopCalled, CloseQueue, DeadlineExpires, StopReturns, vars
<1> QED
  BY <1>1, <1>2, <1>3, <1>4, <1>5, <1>6, <1>7 DEF Next, Sender

\* A write carries rows of one tenant, whatever the groups and the limits of a batch: the
\* sender flushes before it appends a row of another tenant.
THEOREM TenantsApart == Spec => []OneTenantPerWrite
<1>1. Init => TenantInv
  BY DEF Init, TenantInv, ToSet
<1>2. TypeInv /\ TenantInv /\ [Next]_vars => TenantInv'
  BY TenantStep
<1>3. TenantInv => OneTenantPerWrite
  BY DEF TenantInv, OneTenantPerWrite
<1> QED
  BY <1>1, <1>2, <1>3, TypeHolds, PTL DEF Spec

-----------------------------------------------------------------------------
(***************************************************************************)
(* Places.  A copy is in the hands of the call that made it, in the queue, *)
(* among the rows the sender has received, among the rows of its batch, or *)
(* counted; every step takes it from one of these to the next.             *)
(***************************************************************************)
InCall(w) == IF caller[w] \in {"copied", "fits"} THEN ToSet(Copies(hand[w])) ELSE {}
InQueue == {r \in Rows : \E g \in ToSet(queue) : r \in ToSet(Copies(g))}
Counted == {r \in Rows : outcome[r] # "none"}

At(r, p) ==
    \/ \E w \in Callers : p = <<"call", w>> /\ r \in InCall(w)
    \/ p = <<"queue">> /\ r \in InQueue
    \/ p = <<"rest">> /\ r \in ToSet(rest)
    \/ p = <<"pending">> /\ r \in ToSet(pending)
    \/ p = <<"counted">> /\ r \in Counted

Taken == {r \in Rows : \E g \in offered : r \in ToSet(Copies(g))}

OnePlace == \A r, p, q : At(r, p) /\ At(r, q) => p = q
Somewhere == \A r \in Taken : \E p : At(r, p)
TakenOnly == \A r, p : At(r, p) => r \in Taken

PlacesInv == OnePlace /\ Somewhere /\ TakenOnly

\* A buffer holds nothing twice, and a call is about a group with something to copy.
NoRepeats ==
    /\ Distinct(queue) /\ Distinct(rest) /\ Distinct(pending)
    /\ \A w \in Callers : caller[w] # "idle" => Copies(hand[w]) # <<>>

MovesInv == TypeInv /\ ClosedInv /\ SenderInv /\ PlacesInv /\ NoRepeats

\* What it is to be at a place.
LEMMA AtPlace ==
  ASSUME NEW r
  PROVE  /\ \A w \in Callers : At(r, <<"call", w>>) <=> r \in InCall(w)
         /\ At(r, <<"queue">>) <=> r \in InQueue
         /\ At(r, <<"rest">>) <=> r \in ToSet(rest)
         /\ At(r, <<"pending">>) <=> r \in ToSet(pending)
         /\ At(r, <<"counted">>) <=> r \in Counted
BY DEF At

\* The same after a step.
LEMMA AtPlaceNext ==
  ASSUME NEW r
  PROVE  /\ \A w \in Callers : At(r, <<"call", w>>)' <=> r \in InCall(w)'
         /\ At(r, <<"queue">>)' <=> r \in InQueue'
         /\ At(r, <<"rest">>)' <=> r \in ToSet(rest')
         /\ At(r, <<"pending">>)' <=> r \in ToSet(pending')
         /\ At(r, <<"counted">>)' <=> r \in Counted'
BY DEF At

\* The copies X go from place s to place p, and nothing else moves.
Moves(X, s, p) ==
    /\ s # p
    /\ \A r \in X : At(r, s)
    /\ \A r, q : q # s /\ q # p => (At(r, q)' <=> At(r, q))
    /\ \A r : At(r, s)' <=> At(r, s) /\ r \notin X
    /\ \A r : At(r, p)' <=> At(r, p) \/ r \in X

\* Moving keeps every copy in one place.
LEMMA MovesKeepsPlaces ==
  ASSUME PlacesInv, UNCHANGED offered, NEW X, NEW s, NEW p, Moves(X, s, p)
  PROVE  PlacesInv'
<1>0. Taken' = Taken
  BY DEF Taken
<1>1. \A r, q : r \in X => (At(r, q)' <=> q = p)
  BY DEF Moves, PlacesInv, OnePlace
<1>2. \A r, q : r \notin X => (At(r, q)' <=> At(r, q))
  BY DEF Moves
<1>3. \A r \in X : r \in Taken
  BY DEF Moves, PlacesInv, TakenOnly
<1>4. OnePlace'
  BY <1>1, <1>2 DEF PlacesInv, OnePlace
<1>5. Somewhere'
  BY <1>0, <1>1, <1>2 DEF PlacesInv, Somewhere
<1>6. TakenOnly'
  BY <1>0, <1>1, <1>2, <1>3 DEF PlacesInv, TakenOnly
<1> QED
  BY <1>4, <1>5, <1>6 DEF PlacesInv

\* So does standing still.
LEMMA StaysKeepsPlaces ==
  ASSUME PlacesInv, UNCHANGED offered, \A r, q : At(r, q)' <=> At(r, q)
  PROVE  PlacesInv'
<1>0. Taken' = Taken
  BY DEF Taken
<1>1. OnePlace'
  BY DEF PlacesInv, OnePlace
<1>2. Somewhere'
  BY <1>0 DEF PlacesInv, Somewhere
<1>3. TakenOnly'
  BY <1>0 DEF PlacesInv, TakenOnly
<1> QED
  BY <1>1, <1>2, <1>3 DEF PlacesInv

\* The copies of a group that was not offered before come to place p.
LEMMA EntersKeepsPlaces ==
  ASSUME PlacesInv, offered \subseteq Groups, NEW g \in Groups, g \notin offered,
         offered' = offered \cup {g}, NEW p,
         \A r, q : q # p => (At(r, q)' <=> At(r, q)),
         \A r : At(r, p)' <=> At(r, p) \/ r \in ToSet(Copies(g))
  PROVE  PlacesInv'
<1> DEFINE X == ToSet(Copies(g))
<1>x. X \subseteq Rows
  BY CopiesApart
<1>0. Taken' = Taken \cup X
  BY <1>x DEF Taken
<1>1. \A r \in X : r \notin Taken
  BY CopiesApart DEF Taken
<1>2. \A r \in X : \A q : ~At(r, q)
  BY <1>1 DEF PlacesInv, TakenOnly
<1> HIDE DEF X
<1>3. \A r : At(r, p)' <=> At(r, p) \/ r \in X
  BY DEF X
<1>4. OnePlace'
  <2>1. SUFFICES ASSUME NEW r, NEW a, NEW b, At(r, a)', At(r, b)' PROVE a = b
    BY DEF OnePlace
  <2>2. CASE r \in X
    BY <1>2, <2>1, <2>2
  <2>3. CASE r \notin X
    <3>1. At(r, a) /\ At(r, b)
      BY <1>3, <2>1, <2>3
    <3> QED
      BY <3>1 DEF PlacesInv, OnePlace
  <2> QED
    BY <2>2, <2>3
<1>5. Somewhere'
  BY <1>0, <1>3 DEF PlacesInv, Somewhere
<1>6. TakenOnly'
  BY <1>0, <1>3 DEF PlacesInv, TakenOnly
<1> QED
  BY <1>4, <1>5, <1>6 DEF PlacesInv

\* The rows that are counted after a Mark.
LEMMA MarkCounts ==
  ASSUME TypeOK, NEW rows, NEW what, what # "none", Mark(rows, what), ToSet(rows) \subseteq Rows
  PROVE  Counted' = Counted \cup ToSet(rows)
BY DEF Counted, Mark, TypeOK

\* The copies in the hands of a call are there; the other calls keep theirs when one moves on.
LEMMA CallsApart ==
  ASSUME TypeInv, NEW w \in Callers, NEW X,
         \A x \in Callers : x # w => InCall(x)' = InCall(x),
         UNCHANGED <<queue, rest, pending>>
  PROVE  /\ \A r, q : q # <<"call", w>> /\ q # <<"counted">> => (At(r, q)' <=> At(r, q))
         /\ Counted' = Counted => \A r, q : q # <<"call", w>> => (At(r, q)' <=> At(r, q))
<1>1. InQueue' = InQueue
  BY DEF InQueue
<1> QED
  BY <1>1 DEF At

\* A call that leaves with its copies counted.
LEMMA LeaveCounts ==
  ASSUME MovesInv, NEW w \in Callers, caller[w] \in {"copied", "fits"}, Leave(w),
         Mark(Copies(hand[w]), DropQueueFull), UNCHANGED <<offered, queue, rest, pending>>
  PROVE  PlacesInv' /\ NoRepeats'
<1> DEFINE X == ToSet(Copies(hand[w]))
<1>t. /\ TypeInv /\ PlacesInv /\ TypeOK /\ NoRepeats /\ hand[w] \in Groups
      /\ caller \in [Callers -> {"idle", "copied", "fits", "sent", "added"}]
      /\ hand \in [Callers -> Groups \cup {None}]
  BY DEF MovesInv, TypeInv, TypeOK, HandFull
<1>1. InCall(w) = X /\ InCall(w)' = {}
  BY <1>t DEF InCall, Leave
<1>2. \A x \in Callers : x # w => InCall(x)' = InCall(x)
  BY <1>t DEF InCall, Leave
<1>3. X \subseteq Rows
  BY <1>t, CopiesApart
<1>4. Counted' = Counted \cup X
  <2>1. DropQueueFull # "none"
    BY DEF DropQueueFull
  <2> QED
    BY <1>t, <1>3, <2>1, MarkCounts
<1> HIDE DEF X
<1>5. Moves(X, <<"call", w>>, <<"counted">>)
  <2>1. <<"call", w>> # <<"counted">>
    OBVIOUS
  <2>2. \A r \in X : At(r, <<"call", w>>)
    BY <1>1, AtPlace
  <2>3. \A r, q : q # <<"call", w>> /\ q # <<"counted">> => (At(r, q)' <=> At(r, q))
    BY <1>t, <1>2, CallsApart
  <2>4. \A r : At(r, <<"call", w>>)' <=> At(r, <<"call", w>>) /\ r \notin X
    BY <1>1, AtPlace, AtPlaceNext
  <2>5. \A r : At(r, <<"counted">>)' <=> At(r, <<"counted">>) \/ r \in X
    BY <1>4, AtPlace, AtPlaceNext
  <2> QED
    BY <2>1, <2>2, <2>3, <2>4, <2>5 DEF Moves
<1>6. PlacesInv'
  BY <1>t, <1>5, MovesKeepsPlaces
<1>7. NoRepeats'
  BY <1>t DEF NoRepeats, Leave
<1> QED
  BY <1>6, <1>7

\* Forward keeps every copy in one place.
LEMMA ForwardMoves ==
  ASSUME MovesInv, NEW w \in Callers, Forward(w)
  PROVE  PlacesInv' /\ NoRepeats'
<1>t. /\ TypeInv /\ PlacesInv /\ TypeOK /\ NoRepeats /\ HandFull
      /\ caller \in [Callers -> {"idle", "copied", "fits", "sent", "added"}]
      /\ hand \in [Callers -> Groups \cup {None}]
      /\ queue \in Seq(Groups) /\ offered \subseteq Groups
  BY DEF MovesInv, TypeInv, TypeOK
<1>1. ASSUME NEW g \in Groups, Enter(w, g) PROVE PlacesInv' /\ NoRepeats'
  <2> DEFINE X == ToSet(Copies(g))
  <2>1. g \notin offered /\ offered' = offered \cup {g} /\ UNCHANGED <<queue, rest, pending>>
        /\ caller[w] = "idle"
    BY <1>1 DEF Enter
  <2>2. X \subseteq Rows
    BY CopiesApart
  <2>3. CASE closed \/ Copies(g) = <<>>
    <3>1. Mark(Copies(g), "ignored") /\ UNCHANGED <<caller, hand>>
      BY <1>1, <2>3 DEF Enter
    <3>2. Counted' = Counted \cup X
      BY <1>t, <2>2, <3>1, MarkCounts
    <3>3. \A x \in Callers : InCall(x)' = InCall(x)
      BY <3>1 DEF InCall
    <3>4. InQueue' = InQueue
      BY <2>1 DEF InQueue
    <3> HIDE DEF X
    <3>5. \A r, q : q # <<"counted">> => (At(r, q)' <=> At(r, q))
      BY <2>1, <3>3, <3>4 DEF At
    <3>6. \A r : At(r, <<"counted">>)' <=> At(r, <<"counted">>) \/ r \in X
      BY <3>2, AtPlace, AtPlaceNext
    <3>7. PlacesInv'
      BY <1>t, <2>1, <3>5, <3>6, EntersKeepsPlaces DEF X
    <3>8. NoRepeats'
      BY <1>t, <2>1, <3>1 DEF NoRepeats
    <3> QED
      BY <3>7, <3>8
  <2>4. CASE ~(closed \/ Copies(g) = <<>>)
    <3>1. /\ caller' = [caller EXCEPT ![w] = "copied"] /\ hand' = [hand EXCEPT ![w] = g]
          /\ UNCHANGED outcome
      BY <1>1, <2>4 DEF Enter
    <3>2. InCall(w)' = X /\ InCall(w) = {}
      BY <1>t, <2>1, <3>1 DEF InCall
    <3>3. \A x \in Callers : x # w => InCall(x)' = InCall(x)
      BY <1>t, <3>1 DEF InCall
    <3>4. InQueue' = InQueue /\ Counted' = Counted
      BY <2>1, <3>1 DEF InQueue, Counted
    <3> HIDE DEF X
    <3>5. \A r, q : q # <<"call", w>> => (At(r, q)' <=> At(r, q))
      BY <2>1, <3>3, <3>4 DEF At
    <3>6. \A r : At(r, <<"call", w>>)' <=> At(r, <<"call", w>>) \/ r \in X
      BY <3>2, AtPlace, AtPlaceNext
    <3>7. PlacesInv'
      BY <1>t, <2>1, <3>5, <3>6, EntersKeepsPlaces DEF X
    <3>8. NoRepeats'
      BY <1>t, <2>1, <2>4, <3>1 DEF NoRepeats
    <3> QED
      BY <3>7, <3>8
  <2> QED
    BY <2>3, <2>4
<1>2. ASSUME UNCHANGED <<offered, queue, rest, pending, outcome>>,
             \A x \in Callers : InCall(x)' = InCall(x)
      PROVE  PlacesInv'
  <2>1. InQueue' = InQueue /\ Counted' = Counted
    BY <1>2 DEF InQueue, Counted
  <2>2. \A r, q : At(r, q)' <=> At(r, q)
    BY <1>2, <2>1 DEF At
  <2> QED
    BY <1>2, <1>t, <2>2, StaysKeepsPlaces
<1>3. CASE Check(w)
  <2>1. CASE Fits(hand[w])
    <3>1. /\ caller[w] = "copied" /\ caller' = [caller EXCEPT ![w] = "fits"]
          /\ UNCHANGED <<hand, outcome, offered, queue, rest, pending>>
      BY <1>3, <2>1 DEF Check
    <3>2. \A x \in Callers : InCall(x)' = InCall(x)
      BY <1>t, <3>1 DEF InCall
    <3>3. NoRepeats'
      BY <1>t, <3>1 DEF NoRepeats
    <3> QED
      BY <1>2, <3>1, <3>2, <3>3
  <2>2. CASE ~Fits(hand[w])
    <3>1. /\ caller[w] \in {"copied", "fits"} /\ Leave(w) /\ Mark(Copies(hand[w]), DropQueueFull)
          /\ UNCHANGED <<offered, queue, rest, pending>>
      BY <1>3, <2>2 DEF Check
    <3> QED
      BY <3>1, LeaveCounts
  <2> QED
    BY <2>1, <2>2
<1>4. CASE Send(w)
  <2>1. CASE Len(queue) < QueueSlots
    <3>1. /\ caller[w] = "fits" /\ caller' = [caller EXCEPT ![w] = "sent"]
          /\ queue' = Append(queue, hand[w])
          /\ UNCHANGED <<hand, outcome, offered, rest, pending>>
      BY <1>4, <2>1 DEF Send
    <3>2. PICK g : g = hand[w]
      OBVIOUS
    <3>3. g \in Groups
      BY <1>t, <3>1, <3>2 DEF HandFull
    <3> DEFINE X == ToSet(Copies(g))
    <3>4. InCall(w) = X /\ InCall(w)' = {}
      BY <1>t, <3>1, <3>2 DEF InCall
    <3>5. \A x \in Callers : x # w => InCall(x)' = InCall(x)
      BY <1>t, <3>1 DEF InCall
    <3>6. ToSet(queue') = ToSet(queue) \cup {g}
      BY <1>t, <3>1, <3>2, ToSetAppend
    <3>7. X \subseteq Rows
      BY <3>3, CopiesApart
    <3>8. InQueue' = InQueue \cup X /\ Counted' = Counted
      BY <3>1, <3>6, <3>7 DEF InQueue, Counted
    <3>9. g \notin ToSet(queue)
      <4>1. Copies(g) # <<>> /\ Copies(g) \in Seq(Rows)
        BY <1>t, <3>1, <3>2, <3>3, CopiesFacts DEF NoRepeats
      <4>2. PICK r : r \in X
        <5>1. 1 \in DOMAIN Copies(g)
          BY <4>1
        <5> QED
          BY <5>1 DEF ToSet
      <4> HIDE DEF X
      <4>3. At(r, <<"call", w>>)
        BY <3>4, <4>2, AtPlace
      <4>4. ~At(r, <<"queue">>)
        BY <1>t, <4>3 DEF PlacesInv, OnePlace
      <4>5. r \notin InQueue
        BY <4>4, AtPlace
      <4> QED
        BY <3>7, <4>2, <4>5 DEF InQueue, X
    <3>10. Distinct(queue')
      <4>1. Distinct(queue)
        BY <1>t DEF NoRepeats
      <4> QED
        BY <1>t, <3>1, <3>2, <3>9, <4>1, DistinctAppend
    <3> HIDE DEF X
    <3>11. Moves(X, <<"call", w>>, <<"queue">>)
      <4>1. <<"call", w>> # <<"queue">>
        OBVIOUS
      <4>2. \A r \in X : At(r, <<"call", w>>)
        BY <3>4, AtPlace
      <4>3. \A r, q : q # <<"call", w>> /\ q # <<"queue">> => (At(r, q)' <=> At(r, q))
        BY <3>1, <3>5, <3>8 DEF At
      <4>4. \A r : At(r, <<"call", w>>)' <=> At(r, <<"call", w>>) /\ r \notin X
        BY <3>4, AtPlace, AtPlaceNext
      <4>5. \A r : At(r, <<"queue">>)' <=> At(r, <<"queue">>) \/ r \in X
        BY <3>8, AtPlace, AtPlaceNext
      <4> QED
        BY <4>1, <4>2, <4>3, <4>4, <4>5 DEF Moves
    <3>12. PlacesInv'
      BY <1>t, <3>1, <3>11, MovesKeepsPlaces
    <3>13. NoRepeats'
      BY <1>t, <3>1, <3>10 DEF NoRepeats
    <3> QED
      BY <3>12, <3>13
  <2>2. CASE ~(Len(queue) < QueueSlots)
    <3>1. /\ caller[w] \in {"copied", "fits"} /\ Leave(w) /\ Mark(Copies(hand[w]), DropQueueFull)
          /\ UNCHANGED <<offered, queue, rest, pending>>
      BY <1>4, <2>2 DEF Send
    <3> QED
      BY <3>1, LeaveCounts
  <2> QED
    BY <2>1, <2>2
<1>5. CASE AddQueued(w)
  <2>1. /\ caller[w] = "sent" /\ caller' = [caller EXCEPT ![w] = "added"]
        /\ UNCHANGED <<hand, outcome, offered, queue, rest, pending>>
    BY <1>5 DEF AddQueued
  <2>2. \A x \in Callers : InCall(x)' = InCall(x)
    BY <1>t, <2>1 DEF InCall
  <2>3. NoRepeats'
    BY <1>t, <2>1 DEF NoRepeats
  <2> QED
    BY <1>2, <2>1, <2>2, <2>3
<1>6. CASE AddBytes(w)
  <2>1. /\ caller[w] = "added" /\ Leave(w)
        /\ UNCHANGED <<outcome, offered, queue, rest, pending>>
    BY <1>6 DEF AddBytes
  <2>2. \A x \in Callers : InCall(x)' = InCall(x)
    BY <1>t, <2>1 DEF InCall, Leave
  <2>3. NoRepeats'
    BY <1>t, <2>1 DEF NoRepeats, Leave
  <2> QED
    BY <1>2, <2>1, <2>2, <2>3
<1> QED
  BY <1>1, <1>3, <1>4, <1>5, <1>6 DEF Forward

\* Receive unpacks the group at the head of the queue.
LEMMA ReceiveMoves ==
  ASSUME MovesInv, Receive
  PROVE  PlacesInv' /\ NoRepeats'
<1>0. PICK h : h = Head(queue)
  OBVIOUS
<1>t. /\ TypeInv /\ PlacesInv /\ NoRepeats /\ queue \in Seq(Groups) /\ queue # <<>>
      /\ sender = "idle" /\ rest = <<>>
  BY DEF MovesInv, TypeInv, TypeOK, SenderInv, Receive
<1>1. /\ queue' = Tail(queue) /\ rest' = Copies(h)
      /\ UNCHANGED <<caller, hand, offered, pending, outcome>>
  BY <1>0 DEF Receive
<1>2. h \in Groups
  BY <1>0, <1>t, HeadTailProperties
<1>3. Distinct(Copies(h))
  BY <1>2, CopiesFacts
<1>4. /\ ToSet(queue) = {h} \cup ToSet(queue') /\ h \notin ToSet(queue') /\ Distinct(queue')
  BY <1>0, <1>t, <1>1, ToSetTail DEF NoRepeats
<1> DEFINE X == ToSet(Copies(h))
<1>5. ToSet(queue) \subseteq Groups
  BY <1>t DEF ToSet
<1>6. X \subseteq InQueue
  BY <1>2, <1>4, CopiesApart DEF InQueue
<1>7. InQueue' = InQueue \ X
  <2>1. \A g \in ToSet(queue') : \A r \in ToSet(Copies(g)) : r \notin X
    BY <1>2, <1>4, <1>5, CopiesApart
  <2> QED
    BY <1>4, <2>1 DEF InQueue
<1>8. ToSet(rest) = {} /\ ToSet(rest') = X
  BY <1>t, <1>1 DEF ToSet
<1>9. Counted' = Counted /\ \A x \in Callers : InCall(x)' = InCall(x)
  BY <1>1 DEF Counted, InCall
<1> HIDE DEF X
<1>10. Moves(X, <<"queue">>, <<"rest">>)
  <2>1. <<"queue">> # <<"rest">>
    OBVIOUS
  <2>2. \A r \in X : At(r, <<"queue">>)
    BY <1>6, AtPlace
  <2>3. \A r, q : q # <<"queue">> /\ q # <<"rest">> => (At(r, q)' <=> At(r, q))
    BY <1>1, <1>9 DEF At
  <2>4. \A r : At(r, <<"queue">>)' <=> At(r, <<"queue">>) /\ r \notin X
    BY <1>7, AtPlace, AtPlaceNext
  <2>5. \A r : At(r, <<"rest">>)' <=> At(r, <<"rest">>) \/ r \in X
    BY <1>8, AtPlace, AtPlaceNext
  <2> QED
    BY <2>1, <2>2, <2>3, <2>4, <2>5 DEF Moves
<1>11. PlacesInv'
  BY <1>t, <1>1, <1>10, MovesKeepsPlaces
<1>12. NoRepeats'
  BY <1>t, <1>1, <1>3, <1>4 DEF NoRepeats
<1> QED
  BY <1>11, <1>12

\* Fill moves a row into the batch, or lets it wait for the flush of another tenant's.
LEMMA FillMoves ==
  ASSUME MovesInv, Fill
  PROVE  PlacesInv' /\ NoRepeats'
<1>0. PICK h : h = Head(rest)
  OBVIOUS
<1>t. /\ TypeInv /\ PlacesInv /\ NoRepeats /\ rest \in Seq(Rows) /\ rest # <<>>
      /\ pending \in Seq(Rows)
  BY DEF MovesInv, TypeInv, TypeOK, Fill
<1>1. UNCHANGED <<caller, hand, offered, queue, outcome>>
  BY DEF Fill
<1>2. InQueue' = InQueue /\ Counted' = Counted /\ \A x \in Callers : InCall(x)' = InCall(x)
  BY <1>1 DEF InQueue, Counted, InCall
<1>3. CASE TenantChanges
  <2>1. UNCHANGED <<rest, pending>>
    BY <1>3 DEF Fill
  <2>2. \A r, q : At(r, q)' <=> At(r, q)
    BY <1>2, <2>1 DEF At
  <2>3. PlacesInv'
    BY <1>t, <1>1, <2>2, StaysKeepsPlaces
  <2>4. NoRepeats'
    BY <1>t, <1>1, <2>1 DEF NoRepeats
  <2> QED
    BY <2>3, <2>4
<1>4. CASE ~TenantChanges
  <2>1. pending' = Append(pending, h) /\ rest' = Tail(rest)
    BY <1>0, <1>4 DEF Fill
  <2>2. /\ ToSet(rest) = {h} \cup ToSet(rest') /\ h \notin ToSet(rest') /\ Distinct(rest')
    BY <1>0, <1>t, <2>1, ToSetTail DEF NoRepeats
  <2>3. ToSet(pending') = ToSet(pending) \cup {h}
    BY <1>t, <2>1, ToSetAppend
  <2>4. h \notin ToSet(pending)
    <3>1. At(h, <<"rest">>)
      BY <2>2, AtPlace
    <3>2. ~At(h, <<"pending">>)
      BY <1>t, <3>1 DEF PlacesInv, OnePlace
    <3> QED
      BY <3>2, AtPlace
  <2>5. Distinct(pending')
    <3>1. Distinct(pending)
      BY <1>t DEF NoRepeats
    <3> QED
      BY <1>t, <2>1, <2>4, <3>1, DistinctAppend
  <2>6. Moves({h}, <<"rest">>, <<"pending">>)
    <3>1. <<"rest">> # <<"pending">>
      OBVIOUS
    <3>2. \A r \in {h} : At(r, <<"rest">>)
      BY <2>2, AtPlace
    <3>3. \A r, q : q # <<"rest">> /\ q # <<"pending">> => (At(r, q)' <=> At(r, q))
      BY <1>2 DEF At
    <3>4. \A r : At(r, <<"rest">>)' <=> At(r, <<"rest">>) /\ r \notin {h}
      BY <2>2, AtPlace, AtPlaceNext
    <3>5. \A r : At(r, <<"pending">>)' <=> At(r, <<"pending">>) \/ r \in {h}
      BY <2>3, AtPlace, AtPlaceNext
    <3> QED
      BY <3>1, <3>2, <3>3, <3>4, <3>5 DEF Moves
  <2>7. PlacesInv'
    BY <1>t, <1>1, <2>6, MovesKeepsPlaces
  <2>8. NoRepeats'
    BY <1>t, <1>1, <2>2, <2>5 DEF NoRepeats
  <2> QED
    BY <2>7, <2>8
<1> QED
  BY <1>3, <1>4

\* A write that returns counts the rows of its batch.
LEMMA WriteMoves ==
  ASSUME MovesInv, NEW what, what # "none", WriteReturns(what)
  PROVE  PlacesInv' /\ NoRepeats'
<1> DEFINE X == ToSet(pending)
<1>t. /\ TypeInv /\ PlacesInv /\ NoRepeats /\ TypeOK /\ pending \in Seq(Rows)
  BY DEF MovesInv, TypeInv, TypeOK
<1>1. /\ UNCHANGED <<caller, hand, offered, queue, rest>> /\ Mark(pending, what) /\ pending' = <<>>
  BY DEF WriteReturns
<1>2. InQueue' = InQueue /\ \A x \in Callers : InCall(x)' = InCall(x)
  BY <1>1 DEF InQueue, InCall
<1>3. ToSet(pending') = {} /\ X \subseteq Rows
  BY <1>t, <1>1 DEF ToSet
<1>4. Counted' = Counted \cup X
  BY <1>t, <1>1, <1>3, MarkCounts
<1>5. Moves(X, <<"pending">>, <<"counted">>)
  <2>1. <<"pending">> # <<"counted">>
    OBVIOUS
  <2>2. \A r \in X : At(r, <<"pending">>)
    BY AtPlace
  <2>3. \A r, q : q # <<"pending">> /\ q # <<"counted">> => (At(r, q)' <=> At(r, q))
    BY <1>1, <1>2 DEF At
  <2>4. \A r : At(r, <<"pending">>)' <=> At(r, <<"pending">>) /\ r \notin X
    BY <1>3, AtPlace, AtPlaceNext
  <2>5. \A r : At(r, <<"counted">>)' <=> At(r, <<"counted">>) \/ r \in X
    BY <1>4, AtPlace, AtPlaceNext
  <2> QED
    BY <2>1, <2>2, <2>3, <2>4, <2>5 DEF Moves
<1>6. PlacesInv'
  BY <1>t, <1>1, <1>5, MovesKeepsPlaces
<1>7. NoRepeats'
  BY <1>t, <1>1 DEF NoRepeats, Distinct
<1> QED
  BY <1>6, <1>7

\* Every step keeps every copy in one place.
LEMMA NextMoves ==
  ASSUME MovesInv, [Next]_vars
  PROVE  PlacesInv' /\ NoRepeats'
<1>t. PlacesInv /\ NoRepeats
  BY DEF MovesInv
<1>1. ASSUME UNCHANGED <<caller, hand, offered, queue, rest, pending, outcome>>
      PROVE  PlacesInv' /\ NoRepeats'
  <2>1. InQueue' = InQueue /\ Counted' = Counted /\ \A x \in Callers : InCall(x)' = InCall(x)
    BY <1>1 DEF InQueue, Counted, InCall
  <2>2. \A r, q : At(r, q)' <=> At(r, q)
    BY <1>1, <2>1 DEF At
  <2>3. PlacesInv'
    BY <1>t, <1>1, <2>2, StaysKeepsPlaces
  <2>4. NoRepeats'
    BY <1>t, <1>1 DEF NoRepeats
  <2> QED
    BY <2>3, <2>4
<1>2. CASE GroupDone \/ TimerFires \/ QueueClosed \/ WriteFails \/ BackoffEnds
  <2>1. UNCHANGED <<caller, hand, offered, queue, rest, pending, outcome>>
    BY <1>2 DEF GroupDone, TimerFires, QueueClosed, WriteFails, BackoffEnds, GoTo
  <2> QED
    BY <1>1, <2>1
<1>3. CASE StopCalled \/ CloseQueue \/ DeadlineExpires \/ StopReturns \/ UNCHANGED vars
  <2>1. UNCHANGED <<caller, hand, offered, queue, rest, pending, outcome>>
    BY <1>3 DEF StopCalled, CloseQueue, DeadlineExpires, StopReturns, vars
  <2> QED
    BY <1>1, <2>1
<1>4. CASE WriteSucceeds
  BY <1>4, WriteMoves DEF WriteSucceeds
<1>5. CASE WriteRejected
  BY <1>5, WriteMoves DEF WriteRejected
<1>6. CASE WriteAbandoned
  BY <1>6, WriteMoves DEF WriteAbandoned
<1> QED
  BY <1>2, <1>3, <1>4, <1>5, <1>6, ForwardMoves, ReceiveMoves, FillMoves DEF Next, Sender

\* Nothing is anywhere at the start.
LEMMA MovesInit == Init => PlacesInv /\ NoRepeats
<1> SUFFICES ASSUME Init PROVE PlacesInv /\ NoRepeats
  OBVIOUS
<1>1. /\ ToSet(queue) = {} /\ ToSet(rest) = {} /\ ToSet(pending) = {}
  BY DEF Init, ToSet
<1>2. InQueue = {} /\ Counted = {} /\ Taken = {} /\ \A w \in Callers : InCall(w) = {}
  BY <1>1 DEF Init, InQueue, Counted, Taken, InCall
<1>3. \A r, p : ~At(r, p)
  BY <1>1, <1>2 DEF At
<1>4. PlacesInv
  BY <1>2, <1>3 DEF PlacesInv, OnePlace, Somewhere, TakenOnly
<1>5. NoRepeats
  BY DEF Init, NoRepeats, Distinct
<1> QED
  BY <1>4, <1>5

\* Every copy is in one place at all times.
LEMMA MovesHolds == Spec => []MovesInv
<1>1. Init => PlacesInv /\ NoRepeats
  BY MovesInit
<1>2. MovesInv /\ [Next]_vars => PlacesInv' /\ NoRepeats'
  BY NextMoves
<1>3. MovesInv <=> (TypeInv /\ ClosedInv /\ SenderInv) /\ (PlacesInv /\ NoRepeats)
  BY DEF MovesInv
<1>4. MovesInv' <=> (TypeInv /\ ClosedInv /\ SenderInv)' /\ (PlacesInv /\ NoRepeats)'
  BY DEF MovesInv
<1>5. (TypeInv /\ ClosedInv /\ SenderInv) /\ (PlacesInv /\ NoRepeats) /\ [Next]_vars
        => (PlacesInv /\ NoRepeats)'
  BY <1>2, <1>3
<1> QED
  BY <1>1, <1>3, <1>5, StopHolds, PTL DEF Spec

\* A copy that is in one place has one position there.
LEMMA OnePosition == MovesInv => CopyInOnePlace
<1> SUFFICES ASSUME MovesInv, NEW g \in offered, NEW r \in ToSet(Copies(g))
             PROVE  Cardinality(Places(r)) = 1
  BY DEF CopyInOnePlace
<1>t. /\ OnePlace /\ Somewhere /\ queue \in Seq(Groups) /\ rest \in Seq(Rows)
      /\ pending \in Seq(Rows) /\ offered \subseteq Groups
      /\ Distinct(queue) /\ Distinct(rest) /\ Distinct(pending)
  BY DEF MovesInv, PlacesInv, NoRepeats, TypeInv, TypeOK
<1>d. DOMAIN queue = 1..Len(queue) /\ DOMAIN rest = 1..Len(rest) /\ DOMAIN pending = 1..Len(pending)
  BY <1>t
<1>0. r \in Rows /\ r \in Taken
  BY <1>t, CopiesApart DEF Taken
<1> DEFINE C(x) == \E w \in Callers : x = <<"call", w>> /\ r \in InCall(w)
           Q(x) == \E i \in DOMAIN queue : x = <<"queue", i>> /\ r \in ToSet(Copies(queue[i]))
           R(x) == \E i \in DOMAIN rest : x = <<"rest", i>> /\ rest[i] = r
           P(x) == \E i \in DOMAIN pending : x = <<"pending", i>> /\ pending[i] = r
           O(x) == x = <<"counted">> /\ outcome[r] # "none"
<1>1. \A x : x \in Places(r) <=> C(x) \/ Q(x) \/ R(x) \/ P(x) \/ O(x)
  <2>1. \A w \in Callers : r \in InCall(w) <=> caller[w] \in {"copied", "fits"} /\ r \in ToSet(Copies(hand[w]))
    BY DEF InCall
  <2> QED
    BY <2>1 DEF Places
<1>2. ASSUME NEW x, Q(x) PROVE At(r, <<"queue">>)
  BY <1>0, <1>2 DEF At, InQueue, ToSet
<1>3. ASSUME NEW x, R(x) PROVE At(r, <<"rest">>)
  BY <1>3 DEF At, ToSet
<1>4. ASSUME NEW x, P(x) PROVE At(r, <<"pending">>)
  BY <1>4 DEF At, ToSet
<1>5. ASSUME NEW x, O(x) PROVE At(r, <<"counted">>)
  BY <1>0, <1>5 DEF At, Counted
<1>6. ASSUME NEW x, C(x) PROVE \E w \in Callers : x = <<"call", w>> /\ At(r, x)
  BY <1>6 DEF At
<1>7. \E x : x \in Places(r)
  <2>1. PICK p : At(r, p)
    BY <1>0, <1>t DEF Somewhere
  <2>2. CASE \E w \in Callers : p = <<"call", w>> /\ r \in InCall(w)
    BY <1>1, <2>2
  <2>3. CASE r \in InQueue
    <3>1. PICK i \in DOMAIN queue : r \in ToSet(Copies(queue[i]))
      BY <2>3 DEF InQueue, ToSet
    <3>2. Q(<<"queue", i>>)
      BY <3>1
    <3> QED
      BY <1>1, <3>2
  <2>4. CASE r \in ToSet(rest)
    <3>1. PICK i \in DOMAIN rest : rest[i] = r
      BY <2>4 DEF ToSet
    <3>2. R(<<"rest", i>>)
      BY <3>1
    <3> QED
      BY <1>1, <3>2
  <2>5. CASE r \in ToSet(pending)
    <3>1. PICK i \in DOMAIN pending : pending[i] = r
      BY <2>5 DEF ToSet
    <3>2. P(<<"pending", i>>)
      BY <3>1
    <3> QED
      BY <1>1, <3>2
  <2>6. CASE r \in Counted
    <3>1. O(<<"counted">>)
      BY <2>6 DEF Counted
    <3> QED
      BY <1>1, <3>1
  <2> QED
    BY <2>1, <2>2, <2>3, <2>4, <2>5, <2>6 DEF At
<1>8. ASSUME NEW x, NEW y, Q(x), Q(y) PROVE x = y
  <2>1. PICK i \in DOMAIN queue : x = <<"queue", i>> /\ r \in ToSet(Copies(queue[i]))
    BY <1>8
  <2>2. PICK j \in DOMAIN queue : y = <<"queue", j>> /\ r \in ToSet(Copies(queue[j]))
    BY <1>8
  <2>3. queue[i] \in Groups /\ queue[j] \in Groups
    BY <1>t
  <2>4. queue[i] = queue[j]
    BY <2>1, <2>2, <2>3, CopiesApart
  <2>5. i = j
    BY <1>d, <1>t, <2>4 DEF Distinct
  <2> QED
    BY <2>1, <2>2, <2>5
<1>9. ASSUME NEW x, NEW y, R(x), R(y) PROVE x = y
  BY <1>d, <1>t, <1>9 DEF Distinct
<1>10. ASSUME NEW x, NEW y, P(x), P(y) PROVE x = y
  BY <1>d, <1>t, <1>10 DEF Distinct
<1> HIDE DEF C, Q, R, P
<1>11. ASSUME NEW x \in Places(r), NEW y \in Places(r) PROVE x = y
  <2>0. \A p, q : At(r, p) /\ At(r, q) => p = q
    BY <1>t DEF OnePlace
  <2>1. CASE C(x)
    BY <1>1, <1>2, <1>3, <1>4, <1>5, <1>6, <1>11, <2>0, <2>1
  <2>2. CASE Q(x)
    BY <1>1, <1>2, <1>3, <1>4, <1>5, <1>6, <1>8, <1>11, <2>0, <2>2
  <2>3. CASE R(x)
    BY <1>1, <1>2, <1>3, <1>4, <1>5, <1>6, <1>9, <1>11, <2>0, <2>3
  <2>4. CASE P(x)
    BY <1>1, <1>2, <1>3, <1>4, <1>5, <1>6, <1>10, <1>11, <2>0, <2>4
  <2>5. CASE O(x)
    BY <1>1, <1>2, <1>3, <1>4, <1>5, <1>6, <1>11, <2>0, <2>5
  <2> QED
    BY <1>1, <1>11, <2>1, <2>2, <2>3, <2>4, <2>5
<1>12. PICK x : Places(r) = {x}
  BY <1>7, <1>11
<1> QED
  BY <1>12, FS_Singleton

-----------------------------------------------------------------------------
(***************************************************************************)
(* What the remote holds.                                                  *)
(***************************************************************************)

\* A row at the remote is still in the batch, after a failure that came too late, or it
\* is counted as sent or as given up; only a batch that the remote could accept is there.
RemoteInv ==
    /\ \A r \in remote : r \in ToSet(pending) \/ outcome[r] \in {"sent", "shutdown"}
    /\ \A r \in Rows : outcome[r] = "sent" => r \in remote
    /\ \A r \in remote : r \in ToSet(pending) =>
          sender \in {"writing", "backoff"} /\ ToSet(pending) \cap Poison = {}

\* Rows that are counted as refused are not at the remote.
LEMMA RefusedNotRemote ==
  ASSUME MovesInv, RemoteInv, NEW rows, NEW what, what # "sent", Mark(rows, what),
         \A r \in ToSet(rows) : r \notin remote, UNCHANGED <<pending, remote, sender>>
  PROVE  RemoteInv'
<1>1. remote \subseteq Rows
  BY DEF MovesInv, TypeInv, TypeOK
<1>2. \A r \in Rows : outcome'[r] = IF r \in ToSet(rows) THEN what ELSE outcome[r]
  BY DEF Mark
<1> QED
  BY <1>1, <1>2 DEF RemoteInv

\* A row at the remote is in the batch or counted.
LEMMA RemotePlace ==
  ASSUME MovesInv, RemoteInv, NEW r \in remote
  PROVE  /\ \A p : At(r, p) => p \in {<<"pending">>, <<"counted">>}
         /\ r \in Taken
<1>1. r \in Rows
  BY DEF MovesInv, TypeInv, TypeOK
<1>2. At(r, <<"pending">>) \/ At(r, <<"counted">>)
  BY <1>1, AtPlace DEF RemoteInv, Counted
<1> QED
  BY <1>2 DEF MovesInv, PlacesInv, OnePlace, TakenOnly

\* Every step keeps the counters true to the remote.
LEMMA RemoteStep ==
  ASSUME MovesInv, RemoteInv, [Next]_vars
  PROVE  RemoteInv'
<1>t. /\ TypeInv /\ PlacesInv /\ TypeOK /\ HandFull /\ remote \subseteq Rows
      /\ offered \subseteq Groups /\ pending \in Seq(Rows) /\ rest \in Seq(Rows)
      /\ ToSet(pending) \subseteq Rows
  BY DEF MovesInv, TypeInv, TypeOK, ToSet
<1>e. ToSet(<<>>) = {}
  BY DEF ToSet
<1>s. ASSUME UNCHANGED <<pending, remote, outcome>>, sender \notin {"writing", "backoff"} \/ sender' \in {"writing", "backoff"}
      PROVE  RemoteInv'
  BY <1>s DEF RemoteInv
<1>1. ASSUME NEW w \in Callers, NEW g \in Groups, Enter(w, g) PROVE RemoteInv'
  <2>1. UNCHANGED <<pending, remote, sender>> /\ g \notin offered
    BY <1>1 DEF Enter
  <2>2. CASE closed \/ Copies(g) = <<>>
    <3>1. Mark(Copies(g), "ignored")
      BY <1>1, <2>2 DEF Enter
    <3>2. \A r \in ToSet(Copies(g)) : r \notin Taken
      BY <1>t, <2>1, CopiesApart DEF Taken
    <3>3. \A r \in ToSet(Copies(g)) : r \notin remote
      BY <3>2, RemotePlace
    <3> QED
      BY <2>1, <3>1, <3>3, RefusedNotRemote
  <2>3. CASE ~(closed \/ Copies(g) = <<>>)
    <3>1. UNCHANGED outcome
      BY <1>1, <2>3 DEF Enter
    <3> QED
      BY <1>s, <2>1, <3>1
  <2> QED
    BY <2>2, <2>3
<1>2. ASSUME NEW w \in Callers, Check(w) \/ Send(w) PROVE RemoteInv'
  <2>1. UNCHANGED <<pending, remote, sender>> /\ caller[w] \in {"copied", "fits"}
    BY <1>2 DEF Check, Send
  <2>2. CASE UNCHANGED outcome
    BY <1>s, <2>1, <2>2
  <2>3. CASE Mark(Copies(hand[w]), DropQueueFull)
    <3>1. \A r \in ToSet(Copies(hand[w])) : At(r, <<"call", w>>)
      BY <2>1, AtPlace DEF InCall
    <3>2. <<"call", w>> \notin {<<"pending">>, <<"counted">>}
      OBVIOUS
    <3>3. \A r \in ToSet(Copies(hand[w])) : r \notin remote
      BY <3>1, <3>2, RemotePlace
    <3>4. DropQueueFull # "sent"
      BY DEF DropQueueFull
    <3> QED
      BY <2>1, <2>3, <3>3, <3>4, RefusedNotRemote
  <2> QED
    BY <1>2, <2>2, <2>3 DEF Check, Send
<1>3. ASSUME NEW w \in Callers, AddQueued(w) \/ AddBytes(w) PROVE RemoteInv'
  <2>1. UNCHANGED <<pending, remote, outcome, sender>>
    BY <1>3 DEF AddQueued, AddBytes
  <2> QED
    BY <1>s, <2>1
<1>4. CASE Receive \/ GroupDone \/ TimerFires \/ QueueClosed \/ BackoffEnds
  <2>1. /\ UNCHANGED <<pending, remote, outcome>>
        /\ sender \notin {"writing", "backoff"} \/ sender' \in {"writing", "backoff"}
    BY <1>4 DEF Receive, GroupDone, TimerFires, QueueClosed, BackoffEnds, GoTo
  <2> QED
    BY <1>s, <2>1
<1>5. CASE Fill
  <2>0. PICK h : h = Head(rest)
    OBVIOUS
  <2>1. UNCHANGED <<remote, outcome>> /\ sender = "filling" /\ rest # <<>>
    BY <1>5 DEF Fill
  <2>2. \A r \in remote : r \notin ToSet(pending)
    BY <2>1 DEF RemoteInv
  <2>3. CASE TenantChanges
    BY <1>5, <1>s, <2>1, <2>3 DEF Fill
  <2>4. CASE ~TenantChanges
    <3>1. pending' = Append(pending, h)
      BY <1>5, <2>0, <2>4 DEF Fill
    <3>2. ToSet(pending') = ToSet(pending) \cup {h}
      BY <1>t, <3>1, ToSetAppend
    <3>3. h \in ToSet(rest)
      BY <1>t, <2>0, <2>1, ToSetTail
    <3>4. At(h, <<"rest">>) /\ <<"rest">> \notin {<<"pending">>, <<"counted">>}
      BY <3>3, AtPlace
    <3>5. h \notin remote
      BY <3>4, RemotePlace
    <3> QED
      BY <2>1, <2>2, <3>2, <3>5 DEF RemoteInv
  <2> QED
    BY <2>3, <2>4
<1>6. ASSUME NEW what, WriteReturns(what)
      PROVE  /\ ToSet(pending') = {}
             /\ \A r \in Rows : outcome'[r] = IF r \in ToSet(pending) THEN what ELSE outcome[r]
  BY <1>6, <1>e DEF WriteReturns, Mark
<1>7. CASE WriteSucceeds
  <2>1. remote' = remote \cup ToSet(pending) /\ WriteReturns("sent")
    BY <1>7 DEF WriteSucceeds
  <2> QED
    BY <1>6, <1>t, <2>1 DEF RemoteInv
<1>8. CASE WriteRejected
  <2>1. remote' = remote /\ WriteReturns("rejected") /\ ToSet(pending) \cap Poison # {}
    BY <1>8 DEF WriteRejected
  <2>2. \A r \in remote : r \notin ToSet(pending)
    BY <2>1 DEF RemoteInv
  <2> QED
    BY <1>6, <1>t, <2>1, <2>2 DEF RemoteInv
<1>9. CASE WriteAbandoned
  <2>1. WriteReturns("shutdown") /\ remote' \subseteq remote \cup ToSet(pending) /\ remote \subseteq remote'
    BY <1>9 DEF WriteAbandoned
  <2>2. \A r \in Rows : outcome'[r] = "sent" => r \in remote
    BY <1>6, <2>1 DEF RemoteInv
  <2>3. \A r \in remote' : outcome'[r] \in {"sent", "shutdown"}
    BY <1>6, <1>t, <2>1 DEF RemoteInv
  <2> QED
    BY <1>6, <2>1, <2>2, <2>3 DEF RemoteInv
<1>10. CASE WriteFails
  <2>1. sender' = "backoff" /\ sender = "writing" /\ UNCHANGED <<pending, outcome>>
    BY <1>10 DEF WriteFails
  <2>2. CASE UNCHANGED remote
    BY <1>s, <2>1, <2>2
  <2>3. CASE ToSet(pending) \cap Poison = {} /\ remote' = remote \cup ToSet(pending)
    BY <1>t, <2>1, <2>3 DEF RemoteInv
  <2> QED
    BY <1>10, <2>2, <2>3 DEF WriteFails
<1>11. CASE StopCalled \/ CloseQueue \/ DeadlineExpires \/ StopReturns \/ UNCHANGED vars
  <2>1. UNCHANGED <<pending, remote, outcome, sender>>
    BY <1>11 DEF StopCalled, CloseQueue, DeadlineExpires, StopReturns, vars
  <2> QED
    BY <1>s, <2>1
<1> QED
  BY <1>1, <1>2, <1>3, <1>4, <1>5, <1>7, <1>8, <1>9, <1>10, <1>11 DEF Next, Forward, Sender

\* The counters are true to the remote at all times.
LEMMA RemoteHolds == Spec => [](MovesInv /\ RemoteInv)
<1>1. Init => RemoteInv
  BY DEF Init, RemoteInv
<1>2. MovesInv /\ RemoteInv /\ [Next]_vars => RemoteInv'
  BY RemoteStep
<1> QED
  BY <1>1, <1>2, MovesHolds, PTL DEF Spec

\* What is counted is what happened.
LEMMA CountedAsItWas == MovesInv /\ RemoteInv => OutcomeIsTrue
<1> SUFFICES ASSUME MovesInv, RemoteInv, NEW r \in Rows
             PROVE  /\ outcome[r] = "sent" => r \in remote
                    /\ outcome[r] \in {"queue_full", "rejected", "ignored"} => r \notin remote
  BY DEF OutcomeIsTrue
<1>1. outcome[r] = "sent" => r \in remote
  BY DEF RemoteInv
<1>2. ASSUME outcome[r] \in {"queue_full", "rejected", "ignored"}, r \in remote PROVE FALSE
  <2>1. r \in ToSet(pending)
    BY <1>2 DEF RemoteInv
  <2>2. At(r, <<"pending">>) /\ At(r, <<"counted">>)
    BY <1>2, <2>1, AtPlace DEF Counted
  <2> QED
    BY <2>2 DEF MovesInv, PlacesInv, OnePlace
<1> QED
  BY <1>1, <1>2

-----------------------------------------------------------------------------
(***************************************************************************)
(* The counters of the buffer.                                             *)
(***************************************************************************)
LateR == SumOf(LateRows, Callers)
LateB == SumOf(LateBytes, Callers)
QueueR == SeqSum(RowsOf, queue)
QueueB == SeqSum(SizeOf, queue)

RowsExact == queued + LateR = QueueR + Len(rest) + Len(pending)
BytesExact == bytes + LateB = QueueB + SumSizes(rest) + SumSizes(pending)

\* What the calls have not added yet.
LEMMA LateTypes ==
  ASSUME TypeInv
  PROVE  /\ LateRows \in [Callers -> Nat] /\ LateBytes \in [Callers -> Nat]
         /\ LateR \in Nat /\ LateB \in Nat
<1>1. \A w \in Callers : caller[w] # "idle" => RowsOf[hand[w]] \in Nat /\ SizeOf[hand[w]] \in Nat
  BY GroupSizes DEF TypeInv, HandFull
<1>2. LateRows \in [Callers -> Nat] /\ LateBytes \in [Callers -> Nat]
  BY <1>1 DEF LateRows, LateBytes
<1>3. IsFiniteSet(Callers)
  BY LimitsAssumption
<1>4. LateR \in Nat
  BY <1>2, <1>3, SumOfNat DEF LateR
<1>5. LateB \in Nat
  BY <1>2, <1>3, SumOfNat DEF LateB
<1> QED
  BY <1>2, <1>4, <1>5

\* What is in the queue.
LEMMA QueueTypes ==
  ASSUME TypeInv
  PROVE  QueueR \in Nat /\ QueueB \in Nat /\ queued \in Int /\ bytes \in Int
         /\ Len(rest) \in Nat /\ Len(pending) \in Nat
         /\ SumSizes(rest) \in Nat /\ SumSizes(pending) \in Nat
<1>1. queue \in Seq(Groups) /\ rest \in Seq(Rows) /\ pending \in Seq(Rows)
  BY DEF TypeInv, TypeOK
<1>2. \A g \in Groups : RowsOf[g] \in Nat /\ SizeOf[g] \in Nat
  BY GroupSizes
<1>3. QueueR \in Nat
  BY <1>1, <1>2, SeqSumType DEF QueueR
<1>4. QueueB \in Nat
  BY <1>1, <1>2, SeqSumType DEF QueueB
<1>5. SumSizes(rest) \in Nat /\ SumSizes(pending) \in Nat
  BY <1>1, SizesType
<1>6. queued \in Int /\ bytes \in Int
  BY DEF TypeInv, TypeOK
<1> QED
  BY <1>1, <1>3, <1>4, <1>5, <1>6

\* One call changes what it owes.
LEMMA OneChanges ==
  ASSUME NEW w \in Callers, NEW f \in [Callers -> Int], NEW g \in [Callers -> Int],
         \A x \in Callers : x # w => g[x] = f[x]
  PROVE  SumOf(g, Callers) = SumOf(f, Callers) + g[w] - f[w]
<1>1. IsFiniteSet(Callers) /\ Callers \cup {w} = Callers
  BY LimitsAssumption
<1>2. SumOf(g, Callers \cup {w}) = SumOf(f, Callers) + g[w] - f[w]
  BY <1>1, SumOfUpdate
<1> QED
  BY <1>1, <1>2

\* The sums after a step in which w alone may change what it owes.
LEMMA LateChanges ==
  ASSUME TypeInv, TypeInv', NEW w \in Callers,
         \A x \in Callers : x # w => caller'[x] = caller[x] /\ hand'[x] = hand[x]
  PROVE  /\ LateR' = LateR + LateRows'[w] - LateRows[w]
         /\ LateB' = LateB + LateBytes'[w] - LateBytes[w]
         /\ LateRows[w] \in Nat /\ LateRows'[w] \in Nat /\ LateR \in Nat
         /\ LateBytes[w] \in Nat /\ LateBytes'[w] \in Nat /\ LateB \in Nat
<1>1. LateRows \in [Callers -> Nat] /\ LateBytes \in [Callers -> Nat] /\ LateR \in Nat /\ LateB \in Nat
  BY LateTypes
<1>2. LateRows' \in [Callers -> Nat] /\ LateBytes' \in [Callers -> Nat]
  <2>1. \A x \in Callers : caller'[x] # "idle" => RowsOf[hand'[x]] \in Nat /\ SizeOf[hand'[x]] \in Nat
    BY GroupSizes DEF TypeInv, HandFull
  <2> QED
    BY <2>1 DEF LateRows, LateBytes
<1>3. /\ \A x \in Callers : x # w => LateRows'[x] = LateRows[x]
      /\ \A x \in Callers : x # w => LateBytes'[x] = LateBytes[x]
  BY DEF LateRows, LateBytes
<1>4. PICK f : f = LateRows
  OBVIOUS
<1>5. PICK g : g = LateRows'
  OBVIOUS
<1>6. f \in [Callers -> Int] /\ g \in [Callers -> Int] /\ \A x \in Callers : x # w => g[x] = f[x]
  BY <1>1, <1>2, <1>3, <1>4, <1>5
<1>7. SumOf(g, Callers) = SumOf(f, Callers) + g[w] - f[w]
  BY <1>6, OneChanges
<1>8. LateR' = LateR + LateRows'[w] - LateRows[w]
  BY <1>4, <1>5, <1>7 DEF LateR
<1>9. PICK h : h = LateBytes
  OBVIOUS
<1>10. PICK k : k = LateBytes'
  OBVIOUS
<1>11. h \in [Callers -> Int] /\ k \in [Callers -> Int] /\ \A x \in Callers : x # w => k[x] = h[x]
  BY <1>1, <1>2, <1>3, <1>9, <1>10
<1>12. SumOf(k, Callers) = SumOf(h, Callers) + k[w] - h[w]
  BY <1>11, OneChanges
<1>13. LateB' = LateB + LateBytes'[w] - LateBytes[w]
  BY <1>9, <1>10, <1>12 DEF LateB
<1> QED
  BY <1>1, <1>2, <1>8, <1>13

\* The counters follow the buffer through a step of Forward.
LEMMA ForwardCounts ==
  ASSUME TypeInv, TypeInv', RowsExact, BytesExact, NEW w \in Callers, Forward(w)
  PROVE  RowsExact' /\ BytesExact'
<1>t. /\ caller \in [Callers -> {"idle", "copied", "fits", "sent", "added"}]
      /\ hand \in [Callers -> Groups \cup {None}] /\ queue \in Seq(Groups)
      /\ HandFull
  BY DEF TypeInv, TypeOK
<1>u. /\ QueueR \in Nat /\ QueueB \in Nat /\ queued \in Int /\ bytes \in Int
      /\ Len(rest) \in Nat /\ Len(pending) \in Nat
      /\ SumSizes(rest) \in Nat /\ SumSizes(pending) \in Nat
  BY QueueTypes
<1>1. \A x \in Callers : x # w => caller'[x] = caller[x] /\ hand'[x] = hand[x]
  BY <1>t DEF Forward, Enter, Check, Send, AddQueued, AddBytes, Leave
<1>2. /\ LateR' = LateR + LateRows'[w] - LateRows[w]
      /\ LateB' = LateB + LateBytes'[w] - LateBytes[w]
      /\ LateRows[w] \in Nat /\ LateRows'[w] \in Nat /\ LateR \in Nat
      /\ LateBytes[w] \in Nat /\ LateBytes'[w] \in Nat /\ LateB \in Nat
  BY <1>1, LateChanges
<1>3. UNCHANGED <<rest, pending>>
  BY DEF Forward, Enter, Check, Send, AddQueued, AddBytes
<1>4. SumSizes(rest)' = SumSizes(rest) /\ SumSizes(pending)' = SumSizes(pending)
      /\ Len(rest)' = Len(rest) /\ Len(pending)' = Len(pending)
  BY <1>3
<1>5. ASSUME UNCHANGED <<queued, bytes, queue>>, LateRows'[w] = LateRows[w], LateBytes'[w] = LateBytes[w]
      PROVE  RowsExact' /\ BytesExact'
  <2>1. QueueR' = QueueR /\ QueueB' = QueueB
    BY <1>5 DEF QueueR, QueueB
  <2>2. LateR' = LateR /\ LateB' = LateB
    BY <1>2, <1>5
  <2> QED
    BY <1>3, <1>5, <2>1, <2>2 DEF RowsExact, BytesExact
<1>6. ASSUME caller[w] \in {"idle", "copied", "fits"}, caller'[w] \in {"idle", "copied", "fits"}
      PROVE  LateRows'[w] = LateRows[w] /\ LateBytes'[w] = LateBytes[w]
  BY <1>6 DEF LateRows, LateBytes
<1>7. ASSUME NEW g \in Groups, Enter(w, g) PROVE RowsExact' /\ BytesExact'
  <2>1. /\ caller[w] \in {"idle", "copied", "fits"} /\ caller'[w] \in {"idle", "copied", "fits"}
        /\ UNCHANGED <<queued, bytes, queue>>
    BY <1>7, <1>t DEF Enter
  <2> QED
    BY <1>5, <1>6, <2>1
<1>8. CASE Check(w)
  <2>1. /\ caller[w] \in {"idle", "copied", "fits"} /\ caller'[w] \in {"idle", "copied", "fits"}
        /\ UNCHANGED <<queued, bytes, queue>>
    BY <1>8, <1>t DEF Check, Leave
  <2> QED
    BY <1>5, <1>6, <2>1
<1>9. CASE Send(w)
  <2>1. CASE Len(queue) < QueueSlots
    <3>0. PICK g : g = hand[w]
      OBVIOUS
    <3>1. /\ caller[w] = "fits" /\ queue' = Append(queue, g) /\ caller'[w] = "sent"
          /\ hand'[w] = g /\ UNCHANGED <<queued, bytes>>
      BY <1>9, <1>t, <2>1, <3>0 DEF Send
    <3>2. g \in Groups
      BY <1>t, <3>0, <3>1 DEF HandFull
    <3>3. LateRows'[w] = RowsOf[g] /\ LateRows[w] = 0 /\ LateBytes'[w] = SizeOf[g] /\ LateBytes[w] = 0
      BY <3>1 DEF LateRows, LateBytes
    <3>4. \A x \in Groups : RowsOf[x] \in Int /\ SizeOf[x] \in Int
      BY GroupSizes
    <3>5. QueueR' = QueueR + RowsOf[g]
      BY <1>t, <3>1, <3>2, <3>4, SeqSumAppend DEF QueueR
    <3>6. QueueB' = QueueB + SizeOf[g]
      BY <1>t, <3>1, <3>2, <3>4, SeqSumAppend DEF QueueB
    <3>7. RowsOf[g] \in Int /\ SizeOf[g] \in Int
      BY <3>2, <3>4
    <3>10. LateR' = LateR + RowsOf[g] /\ LateB' = LateB + SizeOf[g]
      BY <1>2, <3>3, <3>7
    <3>11. UNCHANGED <<queued, bytes>>
      BY <3>1
    <3>12. LateR \in Int /\ LateB \in Int
      BY <1>2
    <3> DEFINE x == RowsOf[g]
               y == SizeOf[g]
    <3>13. /\ x \in Int /\ y \in Int
           /\ LateR' = LateR + x /\ LateB' = LateB + y /\ QueueR' = QueueR + x /\ QueueB' = QueueB + y
      BY <3>5, <3>6, <3>7, <3>10
    <3> HIDE DEF x, y
    <3>14. queued + (LateR + x) = (QueueR + x) + Len(rest) + Len(pending)
      BY <1>u, <3>12, <3>13 DEF RowsExact
    <3>15. bytes + (LateB + y) = (QueueB + y) + SumSizes(rest) + SumSizes(pending)
      BY <1>u, <3>12, <3>13 DEF BytesExact
    <3>8. RowsExact'
      BY <1>3, <3>11, <3>13, <3>14 DEF RowsExact
    <3>9. BytesExact'
      BY <1>3, <3>11, <3>13, <3>15 DEF BytesExact
    <3> QED
      BY <3>8, <3>9
  <2>2. CASE ~(Len(queue) < QueueSlots)
    <3>1. /\ caller[w] \in {"idle", "copied", "fits"} /\ caller'[w] \in {"idle", "copied", "fits"}
          /\ UNCHANGED <<queued, bytes, queue>>
      BY <1>9, <1>t, <2>2 DEF Send, Leave
    <3> QED
      BY <1>5, <1>6, <3>1
  <2> QED
    BY <2>1, <2>2
<1>10. CASE AddQueued(w)
  <2>0. PICK g : g = hand[w]
    OBVIOUS
  <2>1. /\ caller[w] = "sent" /\ caller'[w] = "added" /\ hand'[w] = g
        /\ queued' = queued + Len(Copies(g)) /\ UNCHANGED <<bytes, queue>>
    BY <1>10, <1>t, <2>0 DEF AddQueued
  <2>2. g \in Groups
    BY <1>t, <2>0, <2>1 DEF HandFull
  <2>3. LateRows'[w] = 0 /\ LateRows[w] = RowsOf[g] /\ LateBytes'[w] = LateBytes[w]
    BY <2>0, <2>1 DEF LateRows, LateBytes
  <2>4. RowsOf[g] = Len(Copies(g)) /\ RowsOf[g] \in Nat
    BY <2>2, GroupSizes
  <2>5. QueueR' = QueueR /\ QueueB' = QueueB
    BY <2>1 DEF QueueR, QueueB
  <2>6. queued' = queued + RowsOf[g]
    BY <2>1, <2>4
  <2>7. RowsExact'
    BY <1>2, <1>3, <1>u, <2>3, <2>4, <2>5, <2>6 DEF RowsExact
  <2>8. LateB' = LateB
    BY <1>2, <2>3
  <2>9. BytesExact'
    BY <1>3, <2>1, <2>5, <2>8 DEF BytesExact
  <2> QED
    BY <2>7, <2>9
<1>11. CASE AddBytes(w)
  <2>0. PICK g : g = hand[w]
    OBVIOUS
  <2>1. /\ caller[w] = "added" /\ caller'[w] = "idle"
        /\ bytes' = bytes + BytesOf(g) /\ UNCHANGED <<queued, queue>>
    BY <1>11, <1>t, <2>0 DEF AddBytes, Leave
  <2>2. g \in Groups
    BY <1>t, <2>0, <2>1 DEF HandFull
  <2>3. LateRows'[w] = LateRows[w] /\ LateBytes'[w] = 0 /\ LateBytes[w] = SizeOf[g]
    BY <2>0, <2>1 DEF LateRows, LateBytes
  <2>4. SizeOf[g] = BytesOf(g) /\ SizeOf[g] \in Nat
    BY <2>2, GroupSizes
  <2>5. QueueR' = QueueR /\ QueueB' = QueueB
    BY <2>1 DEF QueueR, QueueB
  <2>6. bytes' = bytes + SizeOf[g]
    BY <2>1, <2>4
  <2>7. BytesExact'
    BY <1>2, <1>3, <1>u, <2>3, <2>4, <2>5, <2>6 DEF BytesExact
  <2>8. LateR' = LateR
    BY <1>2, <2>3
  <2>9. RowsExact'
    BY <1>3, <2>1, <2>5, <2>8 DEF RowsExact
  <2> QED
    BY <2>7, <2>9
<1> QED
  BY <1>7, <1>8, <1>9, <1>10, <1>11 DEF Forward

\* The counters follow the buffer through a step of the sender.
LEMMA SenderCounts ==
  ASSUME TypeInv, SenderInv, RowsExact, BytesExact, Sender
  PROVE  RowsExact' /\ BytesExact'
<1>t. /\ queue \in Seq(Groups) /\ rest \in Seq(Rows) /\ pending \in Seq(Rows)
  BY DEF TypeInv, TypeOK
<1>u. /\ QueueR \in Nat /\ QueueB \in Nat /\ queued \in Int /\ bytes \in Int
      /\ Len(rest) \in Nat /\ Len(pending) \in Nat
      /\ SumSizes(rest) \in Nat /\ SumSizes(pending) \in Nat
  BY QueueTypes
<1>0. LateR \in Nat /\ LateB \in Nat
  BY LateTypes
<1>s. Size \in [Rows -> Nat] /\ \A r \in Rows : Size[r] \in Int
  BY GroupsAssumption
<1>e. SumSizes(<<>>) = 0 /\ Len(<<>>) = 0
  <2>1. <<>> \in Seq(Rows) /\ Len(<<>>) = 0
    OBVIOUS
  <2>2. SumSizes(<<>>) = SeqSum(Size, <<>>)
    BY <2>1, SizesType
  <2> QED
    BY <2>1, <2>2, SeqSumEmpty
<1>1. UNCHANGED <<caller, hand>>
  BY DEF Sender, Receive, Fill, GroupDone, TimerFires, QueueClosed, WriteSucceeds,
     WriteRejected, WriteFails, WriteAbandoned, BackoffEnds, WriteReturns, GoTo
<1>2. LateR' = LateR /\ LateB' = LateB
  <2>1. LateRows' = LateRows /\ LateBytes' = LateBytes
    BY <1>1 DEF LateRows, LateBytes
  <2> QED
    BY <2>1 DEF LateR, LateB
<1>3. CASE Receive
  <2>0. PICK h : h = Head(queue)
    OBVIOUS
  <2>1. /\ queue # <<>> /\ rest = <<>> /\ queue' = Tail(queue) /\ rest' = Copies(h)
        /\ UNCHANGED <<queued, bytes, pending>>
    BY <1>3, <2>0 DEF Receive, SenderInv
  <2>2. h \in Groups
    BY <1>t, <2>0, <2>1, HeadTailProperties
  <2>3. \A x \in Groups : RowsOf[x] \in Int /\ SizeOf[x] \in Int
    BY GroupSizes
  <2>4. QueueR' = QueueR - RowsOf[h]
    BY <1>t, <2>0, <2>1, <2>3, SeqSumTail DEF QueueR
  <2>5. QueueB' = QueueB - SizeOf[h]
    BY <1>t, <2>0, <2>1, <2>3, SeqSumTail DEF QueueB
  <2>6. Len(rest') = RowsOf[h] /\ SumSizes(rest') = SizeOf[h] /\ RowsOf[h] \in Int /\ SizeOf[h] \in Int
    BY <2>1, <2>2, GroupSizes DEF BytesOf
  <2>7. Len(rest) = 0 /\ SumSizes(rest) = 0
    BY <1>e, <2>1
  <2>8. RowsExact'
    BY <1>0, <1>2, <1>u, <2>1, <2>4, <2>6, <2>7 DEF RowsExact
  <2>9. BytesExact'
    BY <1>0, <1>2, <1>u, <2>1, <2>5, <2>6, <2>7 DEF BytesExact
  <2> QED
    BY <2>8, <2>9
<1>4. ASSUME UNCHANGED <<queue, queued, bytes, rest, pending>> PROVE RowsExact' /\ BytesExact'
  <2>1. QueueR' = QueueR /\ QueueB' = QueueB
    BY <1>4 DEF QueueR, QueueB
  <2> QED
    BY <1>2, <1>4, <2>1 DEF RowsExact, BytesExact
<1>5. CASE Fill
  <2>0. PICK h : h = Head(rest)
    OBVIOUS
  <2>1. UNCHANGED <<queue, queued, bytes>> /\ rest # <<>>
    BY <1>5 DEF Fill
  <2>2. CASE TenantChanges
    BY <1>4, <1>5, <2>1, <2>2 DEF Fill
  <2>3. CASE ~TenantChanges
    <3>1. pending' = Append(pending, h) /\ rest' = Tail(rest)
      BY <1>5, <2>0, <2>3 DEF Fill
    <3>2. h \in Rows /\ Len(rest') = Len(rest) - 1 /\ rest' \in Seq(Rows)
      BY <1>t, <2>0, <2>1, <3>1, HeadTailProperties
    <3>3. Len(pending') = Len(pending) + 1 /\ pending' \in Seq(Rows)
      BY <1>t, <3>1, <3>2, AppendProperties
    <3>4. SumSizes(rest') = SumSizes(rest) - Size[h]
      <4>1. SeqSum(Size, Tail(rest)) = SeqSum(Size, rest) - Size[Head(rest)]
        BY <1>s, <1>t, <2>1, SeqSumTail
      <4> QED
        BY <1>t, <2>0, <3>1, <3>2, <4>1, SizesType
    <3>5. SumSizes(pending') = SumSizes(pending) + Size[h]
      <4>1. SeqSum(Size, Append(pending, h)) = SeqSum(Size, pending) + Size[h]
        BY <1>s, <1>t, <3>2, SeqSumAppend
      <4> QED
        BY <1>t, <3>1, <3>3, <4>1, SizesType
    <3>6. Size[h] \in Int
      BY <1>s, <3>2
    <3>7. QueueR' = QueueR /\ QueueB' = QueueB
      BY <2>1 DEF QueueR, QueueB
    <3>8. RowsExact'
      BY <1>0, <1>2, <1>u, <2>1, <3>2, <3>3, <3>7 DEF RowsExact
    <3>9. BytesExact'
      BY <1>0, <1>2, <1>u, <2>1, <3>4, <3>5, <3>6, <3>7 DEF BytesExact
    <3> QED
      BY <3>8, <3>9
  <2> QED
    BY <2>2, <2>3
<1>6. CASE GroupDone \/ TimerFires \/ QueueClosed \/ WriteFails \/ BackoffEnds
  <2>1. UNCHANGED <<queue, queued, bytes, rest, pending>>
    BY <1>6 DEF GroupDone, TimerFires, QueueClosed, WriteFails, BackoffEnds, GoTo
  <2> QED
    BY <1>4, <2>1
<1>7. CASE WriteSucceeds \/ WriteRejected \/ WriteAbandoned
  <2>1. /\ queued' = queued - Len(pending) /\ bytes' = bytes - SumSizes(pending) /\ pending' = <<>>
        /\ UNCHANGED <<queue, rest>>
    BY <1>7 DEF WriteSucceeds, WriteRejected, WriteAbandoned, WriteReturns
  <2>2. QueueR' = QueueR /\ QueueB' = QueueB
    BY <2>1 DEF QueueR, QueueB
  <2>3. Len(pending') = 0 /\ SumSizes(pending') = 0
    BY <1>e, <2>1
  <2>4. RowsExact'
    BY <1>0, <1>2, <1>u, <2>1, <2>2, <2>3 DEF RowsExact
  <2>5. BytesExact'
    BY <1>0, <1>2, <1>u, <2>1, <2>2, <2>3 DEF BytesExact
  <2> QED
    BY <2>4, <2>5
<1> QED
  BY <1>3, <1>5, <1>6, <1>7 DEF Sender

\* No rows have no size.
LEMMA SizesEmpty == SumSizes(<<>>) = 0 /\ Len(<<>>) = 0
<1>1. <<>> \in Seq(Rows) /\ Len(<<>>) = 0
  OBVIOUS
<1>2. SumSizes(<<>>) = SeqSum(Size, <<>>)
  BY <1>1, SizesType
<1> QED
  BY <1>1, <1>2, SeqSumEmpty

\* Calls that owe nothing owe nothing together.
LEMMA NothingLate ==
  ASSUME \A w \in Callers : LateRows[w] = 0 /\ LateBytes[w] = 0
  PROVE  LateR = 0 /\ LateB = 0
<1>0. PICK z : z = 0
  OBVIOUS
<1> DEFINE o == [w \in Callers |-> z]
<1>1. IsFiniteSet(Callers) /\ \A w \in Callers : o[w] \in Int /\ o[w] <= 0 /\ o[w] \in Nat
  BY <1>0, LimitsAssumption
<1>2. SumOf(o, Callers) = 0
  <2>1. SumOf(o, Callers) \in Nat
    BY <1>1, SumOfNat
  <2>2. Cardinality(Callers) \in Nat
    BY <1>1, FS_CardinalityType
  <2>3. SumOf(o, Callers) <= Cardinality(Callers) * 0
    <3> HIDE DEF o
    <3> QED BY <1>1, SumOfBounded
  <2> HIDE DEF o
  <2> QED
    BY <2>1, <2>2, <2>3
<1>3. PICK f : f = LateRows
  OBVIOUS
<1>4. PICK g : g = LateBytes
  OBVIOUS
<1>5. \A w \in Callers : o[w] \in Int /\ o[w] = f[w] /\ o[w] = g[w]
  BY <1>0, <1>1, <1>3, <1>4
<1> HIDE DEF o
<1>6. SumOf(o, Callers) = SumOf(f, Callers)
  BY <1>1, <1>5, SumOfSame
<1>7. SumOf(o, Callers) = SumOf(g, Callers)
  BY <1>1, <1>5, SumOfSame
<1> QED
  BY <1>2, <1>3, <1>4, <1>6, <1>7 DEF LateR, LateB

\* The counters follow the buffer at all times.
LEMMA CountHolds == Spec => [](MovesInv /\ RemoteInv /\ RowsExact /\ BytesExact)
<1>1. Init => RowsExact /\ BytesExact
  <2> SUFFICES ASSUME Init PROVE RowsExact /\ BytesExact
    OBVIOUS
  <2>1. queue = <<>> /\ rest = <<>> /\ pending = <<>> /\ queued = 0 /\ bytes = 0
    BY DEF Init
  <2>2. \A w \in Callers : LateRows[w] = 0 /\ LateBytes[w] = 0
    BY DEF Init, LateRows, LateBytes
  <2>3. LateR = 0 /\ LateB = 0
    BY <2>2, NothingLate
  <2>4. QueueR = 0 /\ QueueB = 0
    BY <2>1, SeqSumEmpty DEF QueueR, QueueB
  <2>5. SumSizes(<<>>) = 0 /\ Len(<<>>) = 0
    BY SizesEmpty
  <2> QED
    BY <2>1, <2>3, <2>4, <2>5 DEF RowsExact, BytesExact
<1>2. TypeInv /\ TypeInv' /\ SenderInv /\ RowsExact /\ BytesExact /\ [Next]_vars
        => RowsExact' /\ BytesExact'
  <2> SUFFICES ASSUME TypeInv, TypeInv', SenderInv, RowsExact, BytesExact, [Next]_vars
               PROVE  RowsExact' /\ BytesExact'
    OBVIOUS
  <2>1. ASSUME NEW w \in Callers, Forward(w) PROVE RowsExact' /\ BytesExact'
    BY <2>1, ForwardCounts
  <2>2. CASE Sender
    BY <2>2, SenderCounts
  <2>3. CASE StopCalled \/ CloseQueue \/ DeadlineExpires \/ StopReturns \/ UNCHANGED vars
    <3>1. UNCHANGED <<caller, hand, queue, queued, bytes, rest, pending>>
      BY <2>3 DEF StopCalled, CloseQueue, DeadlineExpires, StopReturns, vars
    <3>2. LateRows' = LateRows /\ LateBytes' = LateBytes
      BY <3>1 DEF LateRows, LateBytes
    <3>3. LateR' = LateR /\ LateB' = LateB /\ QueueR' = QueueR /\ QueueB' = QueueB
      BY <3>1, <3>2 DEF LateR, LateB, QueueR, QueueB
    <3> QED
      BY <3>1, <3>3 DEF RowsExact, BytesExact
  <2> QED
    BY <2>1, <2>2, <2>3 DEF Next
<1>3. MovesInv => TypeInv /\ SenderInv
  BY DEF MovesInv
<1> QED
  BY <1>1, <1>2, <1>3, RemoteHolds, TypeHolds, PTL DEF Spec

\* When Stop returns the buffer is empty and so are the counters.
LEMMA StopLeavesNothing == MovesInv /\ RowsExact /\ BytesExact => StopDrains
<1> SUFFICES ASSUME MovesInv, RowsExact, BytesExact, stopper = "returned"
             PROVE  queue = <<>> /\ rest = <<>> /\ pending = <<>> /\ queued = 0 /\ bytes = 0
  BY DEF StopDrains
<1>1. queue = <<>> /\ rest = <<>> /\ pending = <<>> /\ \A w \in Callers : caller[w] = "idle"
  BY DEF MovesInv, SenderInv, ClosedInv
<1>2. \A w \in Callers : LateRows[w] = 0 /\ LateBytes[w] = 0
  BY <1>1 DEF LateRows, LateBytes
<1>3. LateR = 0 /\ LateB = 0
  BY <1>2, NothingLate
<1>4. QueueR = 0 /\ QueueB = 0
  BY <1>1, SeqSumEmpty DEF QueueR, QueueB
<1>5. SumSizes(<<>>) = 0 /\ Len(<<>>) = 0
  BY SizesEmpty
<1>6. queued \in Int /\ bytes \in Int
  BY DEF MovesInv, TypeInv, TypeOK
<1>7. queued + 0 = 0 + 0 + 0
  BY <1>1, <1>3, <1>4, <1>5 DEF RowsExact
<1>8. bytes + 0 = 0 + 0 + 0
  BY <1>1, <1>3, <1>4, <1>5 DEF BytesExact
<1> QED
  BY <1>1, <1>6, <1>7, <1>8

\* No copy is lost, duplicated or miscounted on its way through the target, and none is left in
\* memory when Stop returns, for any number of writers, groups and rows and any limits.
THEOREM EveryCopyAccounted == Spec => []CopiesAccounted
<1>1. MovesInv /\ RemoteInv /\ RowsExact /\ BytesExact => CopiesAccounted
  BY OnePosition, CountedAsItWas, StopLeavesNothing DEF CopiesAccounted
<1> QED
  BY <1>1, CountHolds, PTL

-----------------------------------------------------------------------------
(***************************************************************************)
(* The limit of the buffer.  Forward compares before it adds, so what the  *)
(* limit bounds is the counter and, on top of it, the groups of the calls  *)
(* that have compared and not yet added.                                   *)
(***************************************************************************)
Pressing == [w \in Callers |-> IF caller[w] \in {"fits", "sent"} THEN RowsOf[hand[w]] ELSE 0]
Pressure == SumOf(Pressing, Callers)

Most == Max({RowsOf[g] : g \in Groups})
Bound == QueueMaxMessages + (Cardinality(Callers) - 1) * Most

PressureInv == queued + Pressure <= Bound

\* The largest group.
LEMMA MostIsMost == Most \in Nat /\ \A g \in Groups : RowsOf[g] <= Most
<1> DEFINE L == {Len(Content[g]) : g \in Groups}
           S == {RowsOf[g] : g \in Groups}
<1>1. L # {} /\ L \subseteq Int /\ IsFiniteSet(L) /\ L \subseteq Nat
  <2>1. \A g \in Groups : Len(Content[g]) \in Nat
    BY GroupsAssumption
  <2>2. L \subseteq Nat
    BY <2>1
  <2>3. L # {}
    <3>1. PICK g : g \in Groups
      BY GroupsAssumption
    <3> QED
      BY <3>1
  <2>4. IsFiniteSet(L)
    BY GroupsAssumption, Zenon
  <2> HIDE DEF L
  <2> QED
    BY <2>2, <2>3, <2>4
<1>2. PICK n : n = Max(L)
  OBVIOUS
<1>3. n \in Nat /\ \A y \in L : n >= y
  <2> HIDE DEF L
  <2> QED BY <1>1, <1>2, MaxExists
<1>4. \A g \in Groups : RowsOf[g] \in 0..n
  <2> SUFFICES ASSUME NEW g \in Groups PROVE RowsOf[g] \in 0..n
    OBVIOUS
  <2>1. RowsOf[g] = Len(Copies(g)) /\ RowsOf[g] \in Nat
    BY GroupSizes
  <2>2. Len(Copies(g)) <= Len(Content[g])
    BY CopiesFacts
  <2>3. Len(Content[g]) \in Nat /\ n >= Len(Content[g])
    BY <1>1, <1>3
  <2> QED
    BY <1>3, <2>1, <2>2, <2>3
<1>5. IsFiniteSet(0..n)
  BY <1>3, FS_Interval
<1>6. S \subseteq 0..n /\ S # {}
  BY <1>4, GroupsAssumption
<1>7. IsFiniteSet(S) /\ S \subseteq Int
  <2> HIDE DEF S
  <2>1. IsFiniteSet(S)
    BY <1>5, <1>6, FS_Subset
  <2>2. 0..n \subseteq Int
    BY <1>3
  <2> QED
    BY <1>6, <2>1, <2>2
<1>8. Max(S) \in S /\ \A y \in S : Max(S) >= y
  <2> HIDE DEF S
  <2> QED BY <1>6, <1>7, MaxExists
<1>9. Most = Max(S)
  BY DEF Most
<1>10. Most \in Nat
  <2> HIDE DEF S
  <2>1. Most \in 0..n
    BY <1>6, <1>8, <1>9
  <2> QED
    BY <1>3, <2>1
<1>11. \A g \in Groups : RowsOf[g] <= Most
  <2> SUFFICES ASSUME NEW g \in Groups PROVE RowsOf[g] <= Most
    OBVIOUS
  <2>1. RowsOf[g] \in S /\ RowsOf[g] \in Int
    BY <1>4
  <2>2. Most >= RowsOf[g]
    BY <1>8, <1>9, <2>1
  <2> QED
    BY <1>10, <2>1, <2>2
<1> QED
  BY <1>10, <1>11

\* The bound is a number.
LEMMA BoundType == Bound \in Nat /\ Bound >= QueueMaxMessages /\ QueueMaxMessages \in Nat
<1>1. Cardinality(Callers) \in Nat /\ Cardinality(Callers) # 0
  BY LimitsAssumption, FS_CardinalityType, FS_EmptySet
<1>2. QueueMaxMessages \in Nat
  BY LimitsAssumption
<1> DEFINE c == Cardinality(Callers) - 1
           m == Most
<1>3. c \in Nat /\ m \in Nat
  BY <1>1, MostIsMost
<1>4. Bound = QueueMaxMessages + c * m
  BY DEF Bound
<1> HIDE DEF c, m
<1>5. c * m \in Nat
  BY <1>3
<1> QED
  BY <1>2, <1>4, <1>5

\* What presses on the limit.
LEMMA PressureTypes ==
  ASSUME TypeInv
  PROVE  /\ Pressing \in [Callers -> Nat] /\ Pressure \in Nat
         /\ \A w \in Callers : Pressing[w] <= Most
<1>1. \A w \in Callers : caller[w] # "idle" => RowsOf[hand[w]] \in Nat /\ RowsOf[hand[w]] <= Most
  BY GroupSizes, MostIsMost DEF TypeInv, HandFull
<1>2. Pressing \in [Callers -> Nat]
  BY <1>1 DEF Pressing
<1>3. Most \in Nat
  BY MostIsMost
<1>4. ASSUME NEW w \in Callers PROVE Pressing[w] <= Most
  <2>1. CASE caller[w] \in {"fits", "sent"}
    <3>1. Pressing[w] = RowsOf[hand[w]]
      BY <2>1 DEF Pressing
    <3> QED
      BY <1>1, <2>1, <3>1
  <2>2. CASE caller[w] \notin {"fits", "sent"}
    <3>1. Pressing[w] = 0
      BY <2>2 DEF Pressing
    <3> QED
      BY <1>3, <3>1
  <2> QED
    BY <2>1, <2>2
<1>5. IsFiniteSet(Callers)
  BY LimitsAssumption
<1>6. Pressure \in Nat
  BY <1>2, <1>5, SumOfNat DEF Pressure
<1> QED
  BY <1>2, <1>4, <1>6

\* The other calls press with a group each.
LEMMA OthersPress ==
  ASSUME TypeInv, NEW w \in Callers
  PROVE  Pressure - Pressing[w] <= (Cardinality(Callers) - 1) * Most
<1>0. PICK f : f = Pressing
  OBVIOUS
<1> DEFINE D == Callers \ {w}
<1>1. IsFiniteSet(Callers)
  BY LimitsAssumption
<1>2. f \in [Callers -> Nat] /\ \A x \in Callers : f[x] <= Most
  BY <1>0, PressureTypes
<1>3. SumOf(f, D) = SumOf(f, Callers) - f[w]
  BY <1>1, <1>2, SumOfRemove
<1>4. IsFiniteSet(D) /\ Cardinality(D) = Cardinality(Callers) - 1
  BY <1>1, FS_RemoveElement
<1>5. Most \in Nat
  BY MostIsMost
<1>6. \A x \in D : f[x] \in Int /\ f[x] <= Most
  BY <1>2
<1> HIDE DEF D
<1>7. SumOf(f, D) <= Cardinality(D) * Most
  BY <1>4, <1>5, <1>6, SumOfBounded
<1> QED
  BY <1>0, <1>3, <1>4, <1>7 DEF Pressure

\* The pressure after a step in which w alone moves.
LEMMA PressureChanges ==
  ASSUME TypeInv, TypeInv', NEW w \in Callers,
         \A x \in Callers : x # w => caller'[x] = caller[x] /\ hand'[x] = hand[x]
  PROVE  /\ Pressure' = Pressure + Pressing'[w] - Pressing[w]
         /\ Pressing'[w] \in Nat /\ Pressing[w] \in Nat /\ Pressure \in Nat
<1>1. Pressing \in [Callers -> Nat] /\ Pressure \in Nat
  BY PressureTypes
<1>2. Pressing' \in [Callers -> Nat]
  <2>1. \A x \in Callers : caller'[x] # "idle" => RowsOf[hand'[x]] \in Nat
    BY GroupSizes DEF TypeInv, HandFull
  <2> QED
    BY <2>1 DEF Pressing
<1>3. \A x \in Callers : x # w => Pressing'[x] = Pressing[x]
  BY DEF Pressing
<1>4. PICK f : f = Pressing
  OBVIOUS
<1>5. PICK g : g = Pressing'
  OBVIOUS
<1>6. f \in [Callers -> Int] /\ g \in [Callers -> Int] /\ \A x \in Callers : x # w => g[x] = f[x]
  BY <1>1, <1>2, <1>3, <1>4, <1>5
<1>7. SumOf(g, Callers) = SumOf(f, Callers) + g[w] - f[w]
  BY <1>6, OneChanges
<1>8. Pressure' = Pressure + Pressing'[w] - Pressing[w]
  BY <1>4, <1>5, <1>7 DEF Pressure
<1> QED
  BY <1>1, <1>2, <1>8

\* Forward keeps the pressure below the bound.
LEMMA ForwardPresses ==
  ASSUME TypeInv, TypeInv', PressureInv, NEW w \in Callers, Forward(w)
  PROVE  PressureInv'
<1>t. /\ caller \in [Callers -> {"idle", "copied", "fits", "sent", "added"}]
      /\ hand \in [Callers -> Groups \cup {None}] /\ HandFull /\ queued \in Int
  BY DEF TypeInv, TypeOK
<1>1. \A x \in Callers : x # w => caller'[x] = caller[x] /\ hand'[x] = hand[x]
  BY <1>t DEF Forward, Enter, Check, Send, AddQueued, AddBytes, Leave
<1>2. /\ Pressure' = Pressure + Pressing'[w] - Pressing[w]
      /\ Pressing'[w] \in Nat /\ Pressing[w] \in Nat /\ Pressure \in Nat
  BY <1>1, PressureChanges
<1>b. Bound \in Nat
  BY BoundType
<1>c. Bound' = Bound
  BY DEF Bound
<1>3. ASSUME UNCHANGED queued, Pressing'[w] <= Pressing[w] PROVE PressureInv'
  <2>1. Pressure' <= Pressure /\ Pressure' \in Int
    BY <1>2, <1>3
  <2> QED
    BY <1>2, <1>3, <1>b, <1>c, <1>t, <2>1 DEF PressureInv
<1>4. ASSUME caller'[w] \notin {"fits", "sent"} PROVE Pressing'[w] <= Pressing[w]
  <2>1. Pressing'[w] = 0
    BY <1>4 DEF Pressing
  <2> QED
    BY <1>2, <2>1
<1>5. ASSUME NEW g \in Groups, Enter(w, g) PROVE PressureInv'
  <2>1. caller'[w] \notin {"fits", "sent"} /\ UNCHANGED queued
    BY <1>5, <1>t DEF Enter
  <2> QED
    BY <1>3, <1>4, <2>1
<1>6. CASE Check(w)
  <2>1. UNCHANGED queued
    BY <1>6 DEF Check
  <2>2. CASE Fits(hand[w])
    <3>0. PICK g : g = hand[w]
      OBVIOUS
    <3>1. caller[w] = "copied" /\ caller'[w] = "fits" /\ hand'[w] = g
      BY <1>6, <1>t, <2>2, <3>0 DEF Check
    <3>2. g \in Groups
      BY <1>t, <3>0, <3>1 DEF HandFull
    <3>3. Pressing'[w] = RowsOf[g] /\ Pressing[w] = 0
      BY <3>1 DEF Pressing
    <3>4. RowsOf[g] = Len(Copies(g)) /\ RowsOf[g] \in Nat
      BY <3>2, GroupSizes
    <3>5. queued + Len(Copies(g)) <= QueueMaxMessages
      BY <2>2, <3>0 DEF Fits
    <3>6. Pressure - Pressing[w] <= (Cardinality(Callers) - 1) * Most
      BY OthersPress
    <3> DEFINE x == RowsOf[g]
               rim == (Cardinality(Callers) - 1) * Most
               q == QueueMaxMessages
    <3>7. queued + x <= q /\ Pressure - 0 <= rim /\ Pressure' = Pressure + x - 0 /\ Bound = q + rim
      BY <1>2, <3>3, <3>4, <3>5, <3>6 DEF Bound
    <3>8. x \in Nat /\ rim \in Int /\ q \in Nat
      <4>1. Cardinality(Callers) \in Nat /\ Most \in Nat
        BY LimitsAssumption, FS_CardinalityType, MostIsMost
      <4>2. Cardinality(Callers) - 1 \in Int
        BY <4>1
      <4>3. rim \in Int
        BY <4>1, <4>2
      <4> QED
        BY <3>4, <4>3, BoundType
    <3> HIDE DEF x, rim, q
    <3>9. queued + (Pressure + x) <= q + rim
      BY <1>2, <1>t, <3>7, <3>8
    <3>10. Pressure' = Pressure + x
      BY <1>2, <3>7, <3>8
    <3> QED
      BY <1>c, <2>1, <3>7, <3>9, <3>10 DEF PressureInv
  <2>3. CASE ~Fits(hand[w])
    <3>1. caller'[w] \notin {"fits", "sent"}
      BY <1>6, <1>t, <2>3 DEF Check, Leave
    <3> QED
      BY <1>3, <1>4, <2>1, <3>1
  <2> QED
    BY <2>2, <2>3
<1>7. CASE Send(w)
  <2>1. UNCHANGED queued
    BY <1>7 DEF Send
  <2>2. CASE Len(queue) < QueueSlots
    <3>1. caller[w] = "fits" /\ caller'[w] = "sent" /\ hand' = hand
      BY <1>7, <1>t, <2>2 DEF Send
    <3>2. Pressing'[w] = Pressing[w]
      BY <3>1 DEF Pressing
    <3>3. Pressing'[w] <= Pressing[w]
      BY <1>2, <3>2
    <3> QED
      BY <1>3, <2>1, <3>3
  <2>3. CASE ~(Len(queue) < QueueSlots)
    <3>1. caller'[w] \notin {"fits", "sent"}
      BY <1>7, <1>t, <2>3 DEF Send, Leave
    <3> QED
      BY <1>3, <1>4, <2>1, <3>1
  <2> QED
    BY <2>2, <2>3
<1>8. CASE AddQueued(w)
  <2>0. PICK g : g = hand[w]
    OBVIOUS
  <2>1. /\ caller[w] = "sent" /\ caller'[w] = "added" /\ queued' = queued + Len(Copies(g))
    BY <1>8, <1>t, <2>0 DEF AddQueued
  <2>2. g \in Groups
    BY <1>t, <2>0, <2>1 DEF HandFull
  <2>3. Pressing'[w] = 0 /\ Pressing[w] = RowsOf[g]
    BY <2>0, <2>1 DEF Pressing
  <2>4. RowsOf[g] = Len(Copies(g)) /\ RowsOf[g] \in Nat
    BY <2>2, GroupSizes
  <2> DEFINE x == RowsOf[g]
  <2>5. queued' = queued + x /\ Pressure' = Pressure + 0 - x /\ x \in Nat
    BY <1>2, <2>1, <2>3, <2>4
  <2> HIDE DEF x
  <2>6. queued' + Pressure' = queued + Pressure
    BY <1>2, <1>t, <2>5
  <2> QED
    BY <1>c, <2>6 DEF PressureInv
<1>9. CASE AddBytes(w)
  <2>1. caller'[w] \notin {"fits", "sent"} /\ UNCHANGED queued
    BY <1>9, <1>t DEF AddBytes, Leave
  <2> QED
    BY <1>3, <1>4, <2>1
<1> QED
  BY <1>5, <1>6, <1>7, <1>8, <1>9 DEF Forward

\* The pressure stays below the bound.
LEMMA PressureHolds == Spec => [](TypeInv /\ PressureInv)
<1>1. Init => PressureInv
  <2> SUFFICES ASSUME Init PROVE PressureInv
    OBVIOUS
  <2>0. PICK f : f = Pressing
    OBVIOUS
  <2>1. \A w \in Callers : f[w] \in Int /\ f[w] <= 0
    BY <2>0 DEF Init, Pressing
  <2>2. IsFiniteSet(Callers) /\ Cardinality(Callers) \in Nat
    BY LimitsAssumption, FS_CardinalityType
  <2>3. SumOf(f, Callers) <= Cardinality(Callers) * 0 /\ SumOf(f, Callers) \in Int
    BY <2>1, <2>2, SumOfBounded, SumOfType
  <2>4. Pressure <= 0 /\ Pressure \in Int
    BY <2>0, <2>2, <2>3 DEF Pressure
  <2>5. queued = 0
    BY DEF Init
  <2>6. Bound \in Nat
    BY BoundType
  <2> QED
    BY <2>4, <2>5, <2>6 DEF PressureInv
<1>2. TypeInv /\ TypeInv' /\ PressureInv /\ [Next]_vars => PressureInv'
  <2> SUFFICES ASSUME TypeInv, TypeInv', PressureInv, [Next]_vars PROVE PressureInv'
    OBVIOUS
  <2>1. ASSUME UNCHANGED <<caller, hand>>, queued' \in Int, queued' <= queued PROVE PressureInv'
    <3>1. Pressing' = Pressing
      BY <2>1 DEF Pressing
    <3>2. Pressure' = Pressure /\ Bound' = Bound
      BY <3>1 DEF Pressure, Bound
    <3>3. Pressure \in Nat /\ Bound \in Nat /\ queued \in Int
      BY PressureTypes, BoundType DEF TypeInv, TypeOK
    <3>4. queued + Pressure <= Bound
      BY DEF PressureInv
    <3>5. queued' + Pressure <= Bound
      <4>0. PICK x : x = queued'
        OBVIOUS
      <4>1. x \in Int /\ x <= queued
        BY <2>1, <4>0
      <4>2. x + Pressure <= Bound
        BY <3>3, <3>4, <4>1
      <4> QED
        BY <4>0, <4>2
    <3> QED
      BY <3>2, <3>5 DEF PressureInv
  <2>2. ASSUME NEW w \in Callers, Forward(w) PROVE PressureInv'
    BY <2>2, ForwardPresses
  <2>q. queued \in Int /\ queued <= queued
    BY DEF TypeInv, TypeOK
  <2>3. CASE Sender
    <3>1. UNCHANGED <<caller, hand>> /\ queued' \in {queued, queued - Len(pending)}
      BY <2>3 DEF Sender, Receive, Fill, GroupDone, TimerFires, QueueClosed, WriteSucceeds,
         WriteRejected, WriteFails, WriteAbandoned, BackoffEnds, WriteReturns, GoTo
    <3>2. Len(pending) \in Nat /\ queued \in Int
      BY QueueTypes
    <3>3. queued' \in Int /\ queued' <= queued
      BY <3>1, <3>2
    <3> QED
      BY <2>1, <3>1, <3>3
  <2>4. CASE StopCalled \/ CloseQueue \/ DeadlineExpires \/ StopReturns \/ UNCHANGED vars
    <3>1. UNCHANGED <<caller, hand, queued>>
      BY <2>4 DEF StopCalled, CloseQueue, DeadlineExpires, StopReturns, vars
    <3> QED
      BY <2>1, <2>q, <3>1
  <2> QED
    BY <2>2, <2>3, <2>4 DEF Next
<1> QED
  BY <1>1, <1>2, TypeHolds, PTL DEF Spec

\* The buffer is what the counter says and what the calls that have sent still owe.
LEMMA BufferBelowBound ==
  ASSUME TypeInv, PressureInv, RowsExact
  PROVE  BufferNearlyBounded
<1>1. BufferedRows = QueueR + Len(rest) + Len(pending)
  BY DEF BufferedRows, QueueR, SeqSum
<1>2. LateRows \in [Callers -> Nat] /\ LateR \in Nat
  BY LateTypes
<1>3. Pressing \in [Callers -> Nat] /\ Pressure \in Nat
  BY PressureTypes
<1>4. ASSUME NEW w \in Callers PROVE LateRows[w] <= Pressing[w]
  <2>1. CASE caller[w] = "sent"
    <3>1. LateRows[w] = Pressing[w] /\ Pressing[w] \in Nat
      BY <1>3, <2>1 DEF LateRows, Pressing
    <3> QED
      BY <3>1
  <2>2. CASE caller[w] # "sent"
    <3>1. LateRows[w] = 0 /\ Pressing[w] \in Nat
      BY <1>3, <2>2 DEF LateRows
    <3> QED
      BY <3>1
  <2> QED
    BY <2>1, <2>2
<1>5. PICK f : f = LateRows
  OBVIOUS
<1>6. PICK g : g = Pressing
  OBVIOUS
<1>7. \A w \in Callers : f[w] \in Int /\ g[w] \in Int /\ f[w] <= g[w]
  BY <1>2, <1>3, <1>4, <1>5, <1>6
<1>8. IsFiniteSet(Callers)
  BY LimitsAssumption
<1>9. SumOf(f, Callers) <= SumOf(g, Callers)
  BY <1>7, <1>8, SumOfMonotone
<1>10. LateR <= Pressure
  BY <1>5, <1>6, <1>9 DEF LateR, Pressure
<1>11. queued \in Int /\ Bound \in Nat
  BY BoundType DEF TypeInv, TypeOK
<1>12. queued + LateR <= Bound
  BY <1>2, <1>3, <1>10, <1>11 DEF PressureInv
<1>13. BufferedRows <= Bound
  BY <1>1, <1>12 DEF RowsExact
<1> QED
  BY <1>13 DEF BufferNearlyBounded, Bound, Most

\* The counters are exact as the model states it.
LEMMA CountersAreExact ==
  ASSUME RowsExact, BytesExact
  PROVE  CountersExact
<1>1. BufferedRows = QueueR + Len(rest) + Len(pending)
  BY DEF BufferedRows, QueueR, SeqSum
<1>2. BufferedBytes = QueueB + SumSizes(rest) + SumSizes(pending)
  BY DEF BufferedBytes, QueueB, SeqSum
<1>3. MapThenSumSet(LAMBDA w : LateRows[w], Callers) = LateR
  BY DEF LateR, SumOf
<1>4. MapThenSumSet(LAMBDA w : LateBytes[w], Callers) = LateB
  BY DEF LateB, SumOf
<1> QED
  BY <1>1, <1>2, <1>3, <1>4 DEF CountersExact, RowsExact, BytesExact

\* f.queued and f.bytes never drift from the buffer, and the buffer exceeds its limit by at
\* most a group of each other writer, for any number of writers, groups and rows and any limits.
THEOREM BufferStaysBounded == Spec => []BufferAccounted
<1>1. TypeInv /\ PressureInv /\ RowsExact /\ BytesExact => BufferAccounted
  BY BufferBelowBound, CountersAreExact DEF BufferAccounted
<1> QED
  BY <1>1, CountHolds, PressureHolds, PTL
=============================================================================
