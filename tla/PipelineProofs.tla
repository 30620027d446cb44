--------------------------- MODULE PipelineProofs ---------------------------
(***************************************************************************)
(* What holds of the ingestion pipeline for every number of messages,      *)
(* workers, writers and tenants and every size of its queues: first what   *)
(* bounds its channels and its memory, then where the messages are.  The   *)
(* byte budget is the weight of those that hold it, a batch holds rows of  *)
(* one tenant, and every accepted message is in one place until it is      *)
(* counted, once, under the outcome it had.                                *)
(***************************************************************************)
EXTENDS Pipeline, Collections, SequenceTheorems, TLAPS

USE DEF offProducer, offClose, offWorker, offWriter, GiveBack

\* What the types need to be preserved: a busy worker holds a message, a writer
\* that works on a batch has a range of its rows to write, the semaphore wakes somebody.
HandFull ==
    \A w \in Workers : wpc[w] \in {"process", "flush", "account", "release"} =>
                           hand[w] \in Messages

RangesLeft ==
    \A v \in Writers :
        /\ rpc[v] \notin {"recv", "exit"} => ranges[v] # <<>>
        /\ \A i \in 1..Len(ranges[v]) : ranges[v][i][2] <= Len(rows[v])

NotifyingSomebody ==
    notifying => /\ waiters # <<>>
                 /\ cur + Weight[Head(waiters)] <= QueueMaxBytes

TypeInv == TypeOK /\ HandFull /\ RangesLeft /\ NotifyingSomebody

LEMMA InitType == Init => TypeInv
<1> SUFFICES ASSUME Init PROVE TypeInv
  OBVIOUS
<1> USE MessagesAssumption, SizesAssumption DEF Init
<1>1. ProducerType
  BY DEF ProducerType, CallState
<1>2. BudgetType
  <2>1. cur \in Int /\ waiters \in Seq(Messages)
    OBVIOUS
  <2>2. notifying \in BOOLEAN
    OBVIOUS
  <2> QED
    BY <2>1, <2>2 DEF BudgetType
<1>8. QueueType /\ BatchesType
  BY DEF QueueType, BatchesType
<1>7. CloseType
  BY DEF CloseType
<1>3. WorkerType
  BY DEF WorkerType, WorkerState
<1>4. WriterType
  BY DEF WriterType, WriterState
<1>5. OutcomeType
  BY DEF OutcomeType
<1>6. HandFull /\ RangesLeft /\ NotifyingSomebody
  BY DEF HandFull, RangesLeft, NotifyingSomebody
<1> HIDE DEF Init
<1> QED
  BY <1>1, <1>2, <1>3, <1>4, <1>5, <1>6, <1>7, <1>8 DEF TypeInv, TypeOK

\* A part of the type invariant whose variables do not change keeps holding.
LEMMA UnchangedTypes ==
    /\ ProducerType /\ UNCHANGED producerVars => ProducerType'
    /\ BudgetType /\ UNCHANGED budgetVars => BudgetType'
    /\ QueueType /\ UNCHANGED queueVars => QueueType'
    /\ CloseType /\ UNCHANGED closeVars => CloseType'
    /\ WorkerType /\ UNCHANGED workerVars => WorkerType'
    /\ BatchesType /\ UNCHANGED batches => BatchesType'
    /\ WriterType /\ UNCHANGED writerVars => WriterType'
    /\ OutcomeType /\ UNCHANGED outcomeVars => OutcomeType'
    /\ HandFull /\ UNCHANGED <<wpc, hand>> => HandFull'
    /\ RangesLeft /\ UNCHANGED <<rpc, rows, ranges>> => RangesLeft'
    /\ NotifyingSomebody /\ UNCHANGED budgetVars => NotifyingSomebody'
<1>1. ProducerType /\ UNCHANGED producerVars => ProducerType'
  BY DEF ProducerType, producerVars
<1>2. BudgetType /\ UNCHANGED budgetVars => BudgetType'
  BY DEF BudgetType, budgetVars
<1>3. QueueType /\ UNCHANGED queueVars => QueueType'
  BY DEF QueueType, queueVars
<1>4. CloseType /\ UNCHANGED closeVars => CloseType'
  BY DEF CloseType, closeVars
<1>5. WorkerType /\ UNCHANGED workerVars => WorkerType'
  BY DEF WorkerType, workerVars
<1>6. BatchesType /\ UNCHANGED batches => BatchesType'
  BY DEF BatchesType
<1>7. WriterType /\ UNCHANGED writerVars => WriterType'
  BY DEF WriterType, writerVars
<1>8. OutcomeType /\ UNCHANGED outcomeVars => OutcomeType'
  BY DEF OutcomeType, outcomeVars
<1>9. HandFull /\ UNCHANGED <<wpc, hand>> => HandFull'
  BY DEF HandFull
<1>10. RangesLeft /\ UNCHANGED <<rpc, rows, ranges>> => RangesLeft'
  BY DEF RangesLeft
<1>11. NotifyingSomebody /\ UNCHANGED budgetVars => NotifyingSomebody'
  BY DEF NotifyingSomebody, budgetVars
<1> QED
  BY <1>1, <1>2, <1>3, <1>4, <1>5, <1>6, <1>7, <1>8, <1>9, <1>10, <1>11

LEMMA ConstantTypes ==
    /\ \A m \in Messages : Weight[m] \in Nat \ {0} /\ Tenant[m] \in Tenants
    /\ QueueMaxBytes \in Nat
  BY MessagesAssumption, SizesAssumption
  DEF MessagesAssumption, SizesAssumption

LEMMA TypeInvParts ==
    TypeInv <=> /\ ProducerType /\ BudgetType /\ QueueType /\ CloseType
                /\ WorkerType /\ BatchesType /\ WriterType /\ OutcomeType
                /\ HandFull /\ RangesLeft /\ NotifyingSomebody
  BY DEF TypeInv, TypeOK

LEMMA ReleaseKeepsType ==
  ASSUME BudgetType, NEW m \in Messages, Release(m)
  PROVE  BudgetType' /\ NotifyingSomebody'
<1>1. cur' \in Int /\ waiters' \in Seq(Messages)
  BY ConstantTypes DEF BudgetType, Release
<1>2. notifying' \in BOOLEAN
  BY DEF Release, NextFits
<1>3. NotifyingSomebody'
  BY DEF Release, NextFits, NotifyingSomebody
<1> QED
  BY <1>1, <1>2, <1>3 DEF BudgetType

\* Leaving the line keeps the waiters a sequence of messages.
LEMMA RemoveAtType ==
  ASSUME NEW S, NEW s \in Seq(S), NEW i \in DOMAIN s
  PROVE  /\ RemoveAt(s, i) \in Seq(S)
         /\ Len(RemoveAt(s, i)) = Len(s) - 1
         /\ \A j \in 1..(Len(s) - 1) :
              RemoveAt(s, i)[j] = IF j < i THEN s[j] ELSE s[j + 1]
<1> DEFINE front == SubSeq(s, 1, i - 1)
           back == SubSeq(s, i + 1, Len(s))
<1>1. i \in 1..Len(s) /\ Len(s) \in Nat
  OBVIOUS
<1>2. front \in Seq(S) /\ Len(front) = i - 1
  BY <1>1
<1>3. back \in Seq(S) /\ Len(back) = Len(s) - i
  BY <1>1
<1>4. \A j \in 1..(i - 1) : front[j] = s[j]
  BY <1>1
<1>5. \A j \in 1..(Len(s) - i) : back[j] = s[j + i]
  BY <1>1
<1>6. RemoveAt(s, i) = front \o back
  BY DEF RemoveAt
<1> HIDE DEF front, back
<1>7. /\ front \o back \in Seq(S)
      /\ Len(front \o back) = Len(s) - 1
  BY <1>1, <1>2, <1>3, ConcatProperties
<1>8. ASSUME NEW j \in 1..(Len(s) - 1)
      PROVE  (front \o back)[j] = IF j < i THEN s[j] ELSE s[j + 1]
  <2>1. j \in 1..(Len(front) + Len(back))
    BY <1>1, <1>2, <1>3
  <2>2. (front \o back)[j] = IF j <= Len(front) THEN front[j] ELSE back[j - Len(front)]
    BY <1>2, <1>3, <2>1, ConcatProperties
  <2>3. CASE j < i
    BY <1>1, <1>2, <1>4, <2>2, <2>3
  <2>4. CASE j >= i
    <3>1. j - (i - 1) \in 1..(Len(s) - i) /\ (j - (i - 1)) + i = j + 1 /\ ~(j <= i - 1)
      BY <1>1, <2>4
    <3>2. (front \o back)[j] = back[j - (i - 1)]
      BY <1>2, <2>2, <3>1
    <3>3. back[j - (i - 1)] = s[j + 1]
      BY <1>5, <3>1
    <3>4. ~(j < i)
      BY <1>1, <2>4
    <3> QED
      BY <3>2, <3>3, <3>4
  <2>5. j < i \/ j >= i
    BY <1>1
  <2> QED
    BY <2>3, <2>4, <2>5
<1> QED
  BY <1>6, <1>7, <1>8

LEMMA LeaveLineKeepsType ==
  ASSUME BudgetType, NotifyingSomebody, NEW m \in Messages, LeaveLine(m)
  PROVE  BudgetType' /\ NotifyingSomebody'
<1>1. CASE UNCHANGED <<waiters, notifying>>
  BY <1>1, UnchangedTypes DEF LeaveLine, budgetVars
<1>2. CASE \E i \in DOMAIN waiters :
             /\ waiters[i] = m
             /\ waiters' = RemoveAt(waiters, i)
             /\ notifying' = WakesNext(i)
  <2>1. PICK i \in DOMAIN waiters : /\ waiters' = RemoveAt(waiters, i)
                                    /\ notifying' = WakesNext(i)
    BY <1>2
  <2>2. cur' = cur
    BY DEF LeaveLine
  <2>3. waiters' \in Seq(Messages)
    BY <2>1, RemoveAtType DEF BudgetType
  <2>4. notifying' \in BOOLEAN
    BY <2>1 DEF WakesNext
  <2>5. ASSUME notifying'
        PROVE  waiters' # <<>> /\ cur + Weight[Head(waiters')] <= QueueMaxBytes
    <3>1. i = 1 /\ NextFits(cur, Tail(waiters))
      BY <2>1, <2>5 DEF WakesNext
    <3>2. waiters' = Tail(waiters)
      BY <2>1, <3>1 DEF RemoveAt, BudgetType
    <3> QED
      BY <3>1, <3>2 DEF NextFits
  <2> QED
    BY <2>2, <2>3, <2>4, <2>5 DEF BudgetType, NotifyingSomebody
<1> QED
  BY <1>1, <1>2 DEF LeaveLine

LEMMA ProducerKeepsType ==
  ASSUME TypeInv, NEW m \in Messages, Producer(m)
  PROVE  TypeInv'
<1> USE TypeInvParts, ConstantTypes
<1>1. /\ UNCHANGED closeVars
      /\ UNCHANGED workerVars
      /\ UNCHANGED batches
      /\ UNCHANGED writerVars
      /\ UNCHANGED disk
  BY DEF Producer, Enter, TryAcquire, TrySend, Acquire, BlockingSend, AddBytes,
         CallerGone, WokenByStop, AbortEnqueue, AccountRefused, outcomeVars
<1>2. /\ CloseType' /\ WorkerType' /\ BatchesType' /\ WriterType'
      /\ HandFull' /\ RangesLeft'
  BY <1>1, UnchangedTypes DEF workerVars, writerVars
<1>3. ProducerType'
  BY DEF ProducerType, CallState, Producer, Enter, TryAcquire, TrySend,
         SendToQueue, Acquire, BlockingSend, AddBytes, CallerGone, WokenByStop,
         AbortEnqueue, AccountRefused, Moved
<1>4. QueueType'
  <2>1. queue' = queue \/ queue' = Append(queue, m)
    BY DEF queueVars, Producer, Enter, TryAcquire, TrySend, SendToQueue, Acquire,
           BlockingSend, AddBytes, CallerGone, WokenByStop, AbortEnqueue,
           AccountRefused
  <2>2. queueBytes' = queueBytes \/ queueBytes' = queueBytes + Weight[m]
    BY DEF queueVars, Producer, Enter, TryAcquire, TrySend, SendToQueue, Acquire,
           BlockingSend, AddBytes, CallerGone, WokenByStop, AbortEnqueue,
           AccountRefused
  <2>3. queue \in Seq(Messages) /\ queueBytes \in Int /\ Weight[m] \in Int
    BY ConstantTypes DEF QueueType
  <2> QED
    BY <2>1, <2>2, <2>3 DEF QueueType
<1>5. OutcomeType'
  <2>1. \/ UNCHANGED ledger
        \/ \E o \in Outcome : Count(m, o)
    BY DEF Producer, Enter, TryAcquire, TrySend, SendToQueue, Acquire,
           BlockingSend, AddBytes, CallerGone, WokenByStop, AbortEnqueue,
           AccountRefused, RefusedOutcome, Outcome, outcomeVars
  <2>2. ASSUME NEW o \in Outcome, Count(m, o)
        PROVE  ledger' \in [Messages -> Seq(Outcome)]
    BY <2>2 DEF OutcomeType, Count
  <2> QED
    BY <1>1, <2>1, <2>2 DEF OutcomeType
<1>6. BudgetType' /\ NotifyingSomebody'
  <2>1. CASE UNCHANGED budgetVars
    BY <2>1, UnchangedTypes
  <2>2. CASE ~notifying /\ Take(m)
    BY <2>2 DEF Take, BudgetType, NotifyingSomebody
  <2>3. CASE Release(m)
    BY <2>3, ReleaseKeepsType
  <2>4. CASE LeaveLine(m)
    BY <2>4, LeaveLineKeepsType
  <2>5. CASE Acquire(m) /\ ~MayAcquire(m)
    BY <2>5 DEF Acquire, BudgetType, NotifyingSomebody
  <2> QED
    BY <2>1, <2>2, <2>3, <2>4, <2>5
    DEF Producer, Enter, TryAcquire, TrySend, SendToQueue, Acquire,
        BlockingSend, AddBytes, CallerGone, WokenByStop, AbortEnqueue,
        AccountRefused
<1> QED
  BY <1>2, <1>3, <1>4, <1>5, <1>6 DEF TypeInv, TypeOK

LEMMA GrantKeepsType ==
  ASSUME TypeInv, Grant
  PROVE  TypeInv'
<1> USE TypeInvParts, ConstantTypes
<1>1. waiters # <<>> /\ Head(waiters) \in Messages
  BY DEF Grant, NotifyingSomebody, BudgetType
<1>2. BudgetType'
  <2>1. cur' \in Int /\ waiters' \in Seq(Messages)
    BY <1>1 DEF Grant, BudgetType
  <2>2. notifying' \in BOOLEAN
    BY DEF Grant, NextFits
  <2> QED
    BY <2>1, <2>2 DEF BudgetType
<1>3. NotifyingSomebody'
  BY DEF Grant, NextFits, NotifyingSomebody
<1>4. ProducerType'
  BY <1>1 DEF Grant, ProducerType, CallState, Moved
<1> QED
  BY <1>2, <1>3, <1>4, UnchangedTypes
  DEF Grant, workerVars, writerVars, TypeInv, TypeOK

LEMMA CloseKeepsType ==
  ASSUME TypeInv, Close
  PROVE  TypeInv'
<1> USE TypeInvParts
<1>1. CloseType'
  BY DEF CloseType, Close, Stop, LockWait, CloseQueue, CloseBatches, Expire,
         CloseReturn
<1>2. /\ UNCHANGED producerVars
      /\ UNCHANGED budgetVars
      /\ UNCHANGED queueVars
      /\ UNCHANGED workerVars
      /\ UNCHANGED batches
      /\ UNCHANGED writerVars
      /\ UNCHANGED outcomeVars
  BY DEF Close, Stop, LockWait, CloseQueue, CloseBatches, Expire, CloseReturn
<1> QED
  BY <1>1, <1>2, UnchangedTypes DEF TypeInv, TypeOK, workerVars, writerVars

LEMMA WorkerKeepsType ==
  ASSUME TypeInv, NEW w \in Workers, RunWorker(w)
  PROVE  TypeInv'
<1> USE TypeInvParts, ConstantTypes
<1>1. /\ UNCHANGED producerVars
      /\ UNCHANGED closeVars
      /\ UNCHANGED writerVars
      /\ UNCHANGED outcomeVars
  BY DEF RunWorker, Receive, Process, FlushFull, SubtractBytes, ReleaseBudget,
         TimerFires, QueueClosed, FlushNext, FlushAllDone
<1>2. ProducerType' /\ CloseType' /\ WriterType' /\ OutcomeType' /\ RangesLeft'
  BY <1>1, UnchangedTypes DEF writerVars
<1>3. CASE Receive(w)
  <2>1. Head(queue) \in Messages /\ Tail(queue) \in Seq(Messages)
    BY <1>3 DEF Receive, QueueType
  <2>2. QueueType'
    BY <1>3, <2>1 DEF Receive, QueueType
  <2>3. WorkerType'
    BY <1>3, <2>1 DEF Receive, WorkerType, WorkerState
  <2>4. HandFull'
    BY <1>3, <2>1 DEF Receive, WorkerType, HandFull
  <2>5. BudgetType' /\ NotifyingSomebody' /\ BatchesType'
    BY <1>3, UnchangedTypes DEF Receive
  <2> QED
    BY <1>2, <2>2, <2>3, <2>4, <2>5 DEF TypeInv, TypeOK
<1>4. CASE Process(w)
  <2>1. hand[w] \in Messages /\ BatchOf(hand[w]) \in Tenants
    BY <1>4 DEF Process, HandFull, BatchOf
  <2>2. WorkerType'
    BY <1>4, <2>1 DEF Process, WorkerType, WorkerState
  <2>3. HandFull'
    BY <1>4, <2>1 DEF Process, WorkerType, HandFull
  <2>4. BudgetType' /\ NotifyingSomebody' /\ QueueType' /\ BatchesType'
    BY <1>4, UnchangedTypes DEF Process
  <2> QED
    BY <1>2, <2>2, <2>3, <2>4 DEF TypeInv, TypeOK
<1>5. ASSUME NEW t \in Tenants, Flush(w, t)
      PROVE  /\ BatchesType'
             /\ batch' \in [Workers -> [Tenants -> Seq(Messages)]]
             /\ pending' \in [Workers -> Int]
  BY <1>5 DEF Flush, BatchesType, WorkerType
<1>6. CASE FlushFull(w)
  <2>1. hand[w] \in Messages /\ BatchOf(hand[w]) \in Tenants
    BY <1>6 DEF FlushFull, HandFull, BatchOf
  <2>2. WorkerType' /\ BatchesType'
    BY <1>5, <1>6, <2>1 DEF FlushFull, WorkerType, WorkerState
  <2>3. HandFull'
    BY <1>6, <2>1 DEF FlushFull, WorkerType, HandFull
  <2>4. BudgetType' /\ NotifyingSomebody' /\ QueueType'
    BY <1>6, UnchangedTypes DEF FlushFull
  <2> QED
    BY <1>2, <2>2, <2>3, <2>4 DEF TypeInv, TypeOK
<1>7. CASE SubtractBytes(w)
  <2>1. hand[w] \in Messages
    BY <1>7 DEF SubtractBytes, HandFull
  <2>2. QueueType'
    BY <1>7, <2>1 DEF SubtractBytes, QueueType
  <2>3. WorkerType'
    BY <1>7 DEF SubtractBytes, WorkerType, WorkerState
  <2>4. HandFull'
    BY <1>7, <2>1 DEF SubtractBytes, WorkerType, HandFull
  <2>5. BudgetType' /\ NotifyingSomebody' /\ BatchesType'
    BY <1>7, UnchangedTypes DEF SubtractBytes
  <2> QED
    BY <1>2, <2>2, <2>3, <2>4, <2>5 DEF TypeInv, TypeOK
<1>8. CASE ReleaseBudget(w)
  <2>1. hand[w] \in Messages
    BY <1>8 DEF ReleaseBudget, HandFull
  <2>2. BudgetType' /\ NotifyingSomebody'
    BY <1>8, <2>1, ReleaseKeepsType DEF ReleaseBudget
  <2>3. WorkerType'
    BY <1>8 DEF ReleaseBudget, WorkerType, WorkerState, TimerNeeded
  <2>4. HandFull'
    BY <1>8 DEF ReleaseBudget, WorkerType, HandFull
  <2>5. QueueType' /\ BatchesType'
    BY <1>8, UnchangedTypes DEF ReleaseBudget
  <2> QED
    BY <1>2, <2>2, <2>3, <2>4, <2>5 DEF TypeInv, TypeOK
<1>9. CASE FlushNext(w)
  <2>1. WorkerType' /\ BatchesType'
    BY <1>5, <1>9 DEF FlushNext, WorkerType
  <2>2. BudgetType' /\ NotifyingSomebody' /\ QueueType' /\ HandFull'
    BY <1>9, UnchangedTypes DEF FlushNext
  <2> QED
    BY <1>2, <2>1, <2>2 DEF TypeInv, TypeOK
<1>10. CASE TimerFires(w) \/ QueueClosed(w) \/ FlushAllDone(w)
  <2>1. WorkerType'
    <3>1. CASE TimerFires(w)
      BY <3>1 DEF TimerFires, WorkerType, WorkerState
    <3>2. CASE QueueClosed(w)
      BY <3>2 DEF QueueClosed, WorkerType, WorkerState, AfterQueueClosed
    <3>3. CASE FlushAllDone(w)
      BY <3>3 DEF FlushAllDone, WorkerType, WorkerState
    <3> QED
      BY <1>10, <3>1, <3>2, <3>3
  <2>2. HandFull'
    BY <1>10 DEF TimerFires, QueueClosed, FlushAllDone, WorkerType, HandFull,
                 AfterQueueClosed
  <2>3. BudgetType' /\ NotifyingSomebody' /\ QueueType' /\ BatchesType'
    BY <1>10, UnchangedTypes DEF TimerFires, QueueClosed, FlushAllDone
  <2> QED
    BY <1>2, <2>1, <2>2, <2>3 DEF TypeInv, TypeOK
<1> QED
  BY <1>3, <1>4, <1>6, <1>7, <1>8, <1>9, <1>10 DEF RunWorker

\* The range that writeRange works on, and what returning from it leaves.
LEMMA RangeType ==
  ASSUME TypeInv, NEW v \in Writers, rpc[v] \notin {"recv", "exit"}
  PROVE  /\ ranges[v] \in Seq(Nat \X Nat) /\ ranges[v] # <<>>
         /\ Lo(v) \in Nat /\ Hi(v) \in Nat /\ Hi(v) <= Len(rows[v])
         /\ Tail(ranges[v]) \in Seq(Nat \X Nat)
<1>1. ranges[v] \in Seq(Nat \X Nat) /\ ranges[v] # <<>>
  BY DEF TypeInv, TypeOK, WriterType, RangesLeft
<1>2. Head(ranges[v]) \in Nat \X Nat /\ Tail(ranges[v]) \in Seq(Nat \X Nat)
  BY <1>1
<1>3. 1 \in 1..Len(ranges[v]) /\ Head(ranges[v]) = ranges[v][1]
  BY <1>1
<1>4. ranges[v][1][2] <= Len(rows[v])
  BY <1>3 DEF TypeInv, RangesLeft
<1> QED
  BY <1>1, <1>2, <1>3, <1>4 DEF Lo, Hi

LEMMA ReturnKeepsType ==
  ASSUME TypeInv, NEW v \in Writers, rpc[v] \notin {"recv", "exit"}, Return(v),
         UNCHANGED <<healthy, healthGauge>>
  PROVE  WriterType' /\ RangesLeft'
<1>1. /\ ranges[v] \in Seq(Nat \X Nat) /\ ranges[v] # <<>>
      /\ Tail(ranges[v]) \in Seq(Nat \X Nat)
  BY RangeType
<1>2. WriterType'
  BY <1>1 DEF TypeInv, TypeOK, WriterType, WriterState, Return
<1>3. /\ Len(Tail(ranges[v])) = Len(ranges[v]) - 1
      /\ Len(ranges[v]) \in Nat /\ Len(ranges[v]) > 0
      /\ \A i \in 1..Len(Tail(ranges[v])) : Tail(ranges[v])[i] = ranges[v][i + 1]
  BY <1>1, HeadTailProperties
<1>4. Len(ranges[v]) # 1 => Tail(ranges[v]) # <<>>
  <2>1. Len(ranges[v]) # 1 => Len(Tail(ranges[v])) # 0
    BY <1>3
  <2> QED
    BY <2>1
<1>5. ASSUME NEW x \in Writers
      PROVE  /\ rpc'[x] \notin {"recv", "exit"} => ranges'[x] # <<>>
             /\ \A i \in 1..Len(ranges'[x]) : ranges'[x][i][2] <= Len(rows'[x])
  <2>1. CASE x = v /\ Len(ranges[v]) = 1
    <3>1. ranges'[x] = Tail(ranges[v]) /\ rpc'[x] = "recv"
      BY <2>1 DEF TypeInv, TypeOK, WriterType, Return
    <3>2. Len(Tail(ranges[v])) = 0
      BY <1>3, <2>1
    <3> QED
      BY <3>1, <3>2
  <2>2. CASE x = v /\ Len(ranges[v]) # 1
    <3>1. /\ ranges'[x] = Tail(ranges[v])
          /\ rows'[x] = rows[v]
      BY <2>2 DEF TypeInv, TypeOK, WriterType, Return
    <3>2. ASSUME NEW i \in 1..Len(Tail(ranges[v]))
          PROVE  Tail(ranges[v])[i][2] <= Len(rows[v])
      <4>1. i + 1 \in 1..Len(ranges[v])
        BY <1>3
      <4> QED
        BY <1>3, <4>1 DEF TypeInv, RangesLeft
    <3> QED
      BY <1>4, <2>2, <3>1, <3>2
  <2>3. CASE x # v
    BY <2>3 DEF TypeInv, TypeOK, WriterType, RangesLeft, Return
  <2> QED
    BY <2>1, <2>2, <2>3
<1>6. RangesLeft'
  BY <1>5 DEF RangesLeft
<1> QED
  BY <1>2, <1>6

LEMMA CountRangeKeepsType ==
  ASSUME TypeInv, NEW v \in Writers, NEW o \in Outcome, CountRange(v, o)
  PROVE  ledger' \in [Messages -> Seq(Outcome)]
  BY DEF TypeInv, TypeOK, OutcomeType, CountRange

LEMMA SetHealthyKeepsType ==
  ASSUME TypeInv, NEW v \in Writers, rpc[v] = "inflight", NEW ok \in BOOLEAN,
         SetHealthy(v, ok), UNCHANGED <<rows, ranges, healthGauge>>
  PROVE  WriterType' /\ RangesLeft'
<1>1. healthy' \in BOOLEAN
  BY DEF SetHealthy
<1>2. rpc' \in [Writers -> WriterState]
  BY DEF TypeInv, TypeOK, WriterType, WriterState, SetHealthy
<1>3. RangesLeft'
  BY DEF TypeInv, TypeOK, WriterType, RangesLeft, SetHealthy
<1> QED
  BY <1>1, <1>2, <1>3 DEF TypeInv, TypeOK, WriterType

LEMMA WriterKeepsType ==
  ASSUME TypeInv, NEW v \in Writers, RunWriter(v)
  PROVE  TypeInv'
<1> USE TypeInvParts
<1>1. /\ UNCHANGED producerVars
      /\ UNCHANGED budgetVars
      /\ UNCHANGED queueVars
      /\ UNCHANGED closeVars
      /\ UNCHANGED workerVars
  BY DEF RunWriter, TakeBatch, WriterExit, WriteBatch, DropUnwritten,
         WriteSucceeds, WriteFails, WriteRejected, SetGauge, RecordStored,
         BackoffEnds
<1>2. /\ ProducerType' /\ BudgetType' /\ QueueType' /\ CloseType' /\ WorkerType'
      /\ HandFull' /\ NotifyingSomebody'
  BY <1>1, UnchangedTypes DEF workerVars
<1>3. CASE TakeBatch(v)
  <2>1. /\ Head(batches) \in Seq(Messages) /\ Tail(batches) \in Seq(Seq(Messages))
        /\ << <<0, Len(Head(batches))>> >> \in Seq(Nat \X Nat)
        /\ << <<0, Len(Head(batches))>> >> # <<>>
    BY <1>3 DEF TakeBatch, BatchesType
  <2>2. WriterType'
    BY <1>3, <2>1 DEF TakeBatch, WriterType, WriterState
  <2>3. RangesLeft'
    <3> DEFINE b == Head(batches)
               r == << <<0, Len(b)>> >>
    <3>1. /\ rpc' = [rpc EXCEPT ![v] = "write"]
          /\ rows' = [rows EXCEPT ![v] = b]
          /\ ranges' = [ranges EXCEPT ![v] = r]
      BY <1>3 DEF TakeBatch
    <3>2. r # <<>> /\ \A i \in 1..Len(r) : r[i][2] <= Len(b)
      BY <2>1
    <3> HIDE DEF b, r
    <3>3. ASSUME NEW x \in Writers
          PROVE  /\ rpc'[x] \notin {"recv", "exit"} => ranges'[x] # <<>>
                 /\ \A i \in 1..Len(ranges'[x]) : ranges'[x][i][2] <= Len(rows'[x])
      BY <3>1, <3>2 DEF WriterType, RangesLeft
    <3> QED
      BY <3>3 DEF RangesLeft
  <2>4. BatchesType'
    BY <1>3, <2>1 DEF TakeBatch, BatchesType
  <2>5. OutcomeType'
    BY <1>3, UnchangedTypes DEF TakeBatch
  <2> QED
    BY <1>2, <2>2, <2>3, <2>4, <2>5 DEF TypeInv, TypeOK
<1>4. ASSUME UNCHANGED batches, WriterType', RangesLeft', OutcomeType'
      PROVE  TypeInv'
  BY <1>2, <1>4, UnchangedTypes DEF TypeInv, TypeOK
<1>5. CASE WriterExit(v) \/ WriteBatch(v) \/ BackoffEnds(v)
  <2>1. WriterType'
    BY <1>5 DEF WriterExit, WriteBatch, BackoffEnds, WriterType, WriterState
  <2>2. RangesLeft'
    BY <1>5 DEF WriterExit, WriteBatch, BackoffEnds, WriterType, RangesLeft
  <2> QED
    BY <1>4, <1>5, <2>1, <2>2, UnchangedTypes DEF WriterExit, WriteBatch, BackoffEnds
<1>6. CASE SetGauge(v)
  <2>1. healthGauge' \in BOOLEAN
    BY <1>6 DEF SetGauge
  <2>2. rpc' \in [Writers -> WriterState]
    BY <1>6 DEF SetGauge, WriterType, WriterState
  <2>3. WriterType'
    BY <1>6, <2>1, <2>2 DEF SetGauge, WriterType
  <2>4. RangesLeft'
    BY <1>6 DEF SetGauge, WriterType, RangesLeft
  <2> QED
    BY <1>4, <1>6, <2>3, <2>4, UnchangedTypes DEF SetGauge
<1>7. ASSUME NEW o \in Outcome, CountRange(v, o), Return(v),
             rpc[v] \notin {"recv", "exit"}, disk' \subseteq Messages,
             UNCHANGED <<batches, healthy, healthGauge>>
      PROVE  TypeInv'
  BY <1>4, <1>7, CountRangeKeepsType, ReturnKeepsType DEF OutcomeType
<1>8. CASE DropUnwritten(v) \/ RecordStored(v)
  BY <1>7, <1>8 DEF DropUnwritten, RecordStored, Outcome, OutcomeType
<1>9. rpc[v] = "inflight" => InRange(v) \subseteq Messages
  <2>1. ASSUME rpc[v] = "inflight"
        PROVE  SubSeq(rows[v], Lo(v) + 1, Hi(v)) \in Seq(Messages)
    <3>1. /\ Lo(v) \in Nat /\ Hi(v) \in Nat /\ Hi(v) <= Len(rows[v])
          /\ rows[v] \in Seq(Messages)
      BY <2>1, RangeType DEF WriterType
    <3>2. \A i \in (Lo(v) + 1)..Hi(v) : rows[v][i] \in Messages
      BY <3>1
    <3> QED
      BY <3>1, <3>2, SubSeqProperties
  <2> QED
    BY <2>1 DEF InRange, ToSet
<1>10. CASE WriteSucceeds(v)
  <2>1. WriterType' /\ RangesLeft'
    BY <1>10, SetHealthyKeepsType DEF WriteSucceeds
  <2>2. OutcomeType'
    BY <1>9, <1>10 DEF WriteSucceeds, OutcomeType
  <2> QED
    BY <1>4, <1>10, <2>1, <2>2 DEF WriteSucceeds
<1>11. CASE WriteFails(v)
  <2>1. disk' \subseteq Messages
    BY <1>9, <1>11 DEF WriteFails, OutcomeType
  <2>2. CASE ioCancelled
    BY <1>7, <1>11, <2>1, <2>2 DEF WriteFails, Outcome
  <2>3. CASE ~ioCancelled
    <3>1. WriterType' /\ RangesLeft'
      BY <1>11, <2>3, SetHealthyKeepsType DEF WriteFails
    <3> QED
      BY <1>4, <1>11, <2>1, <2>3, <3>1 DEF WriteFails, OutcomeType
  <2> QED
    BY <2>2, <2>3
<1>12. CASE WriteRejected(v)
  <2>1. CASE ioCancelled \/ ~(Hi(v) - Lo(v) > 1)
    BY <1>7, <1>12, <2>1 DEF WriteRejected, HandleRejected, Outcome, OutcomeType
  <2>2. CASE ~ioCancelled /\ Hi(v) - Lo(v) > 1
    <3> DEFINE mid == Lo(v) + (Hi(v) - Lo(v)) \div 2
               halves == << <<Lo(v), mid>>, <<mid, Hi(v)>> >> \o Tail(ranges[v])
    <3>1. Bisect(v) /\ rpc[v] = "inflight"
      BY <1>12, <2>2 DEF WriteRejected, HandleRejected
    <3>2. /\ Lo(v) \in Nat /\ Hi(v) \in Nat /\ mid \in Nat
          /\ Tail(ranges[v]) \in Seq(Nat \X Nat)
      BY <2>2, <3>1, RangeType
    <3>3. << <<Lo(v), mid>>, <<mid, Hi(v)>> >> \in Seq(Nat \X Nat)
      BY <3>2
    <3>4. /\ halves \in Seq(Nat \X Nat) /\ halves # <<>>
          /\ \A i \in 1..Len(halves) : halves[i][2] <= Len(rows[v])
      <4>1. /\ Len(halves) = 1 + Len(ranges[v])
            /\ halves \in Seq(Nat \X Nat)
            /\ halves[1] = <<Lo(v), mid>> /\ halves[2] = <<mid, Hi(v)>>
            /\ \A i \in 3..Len(halves) : halves[i] = ranges[v][i - 1]
        BY <3>1, <3>2, <3>3, RangeType
      <4>2. mid <= Len(rows[v]) /\ Hi(v) <= Len(rows[v]) /\ Len(ranges[v]) \in Nat
        <5>1. /\ Hi(v) <= Len(rows[v]) /\ Len(rows[v]) \in Nat
              /\ Len(ranges[v]) \in Nat
          BY <3>1, RangeType DEF WriterType
        <5>2. mid <= Hi(v)
          BY <2>2, <3>2
        <5> HIDE DEF mid
        <5> QED
          BY <3>2, <5>1, <5>2
      <4>3. \A i \in 3..(1 + Len(ranges[v])) : ranges[v][i - 1][2] <= Len(rows[v])
        BY <4>2 DEF RangesLeft
      <4> HIDE DEF halves, mid
      <4>4. ASSUME NEW i \in 1..Len(halves)
            PROVE  halves[i][2] <= Len(rows[v])
        <5>1. i = 1 \/ i = 2 \/ i \in 3..Len(halves)
          BY <4>1, <4>2
        <5>2. i \in 3..Len(halves) => halves[i][2] = ranges[v][i - 1][2]
          BY <4>1
        <5>3. CASE i = 1
          BY <4>1, <4>2, <5>3
        <5>4. CASE i = 2
          BY <4>1, <4>2, <5>4
        <5>5. CASE i \in 3..Len(halves)
          <6>1. i \in 3..(1 + Len(ranges[v]))
            BY <4>1, <5>5
          <6> QED
            BY <4>3, <5>2, <5>5, <6>1
        <5> QED
          BY <5>1, <5>3, <5>4, <5>5
      <4>5. halves # <<>>
        BY <4>1, <4>2
      <4> QED
        BY <4>1, <4>4, <4>5
    <3>5. /\ ranges' = [ranges EXCEPT ![v] = halves]
          /\ rpc' = [rpc EXCEPT ![v] = "write"]
          /\ UNCHANGED <<rows, ledger>>
      BY <3>1 DEF Bisect
    <3> HIDE DEF mid, halves
    <3>6. WriterType'
      BY <1>12, <3>4, <3>5 DEF WriteRejected, WriterType, WriterState
    <3>7. RangesLeft'
      BY <3>4, <3>5 DEF WriterType, RangesLeft
    <3> QED
      BY <1>4, <1>12, <3>5, <3>6, <3>7 DEF WriteRejected, OutcomeType
  <2> QED
    BY <2>1, <2>2
<1> QED
  BY <1>3, <1>5, <1>6, <1>8, <1>10, <1>11, <1>12 DEF RunWriter

\* The whole step, and the type theorem.
LEMMA NextKeepsType == TypeInv /\ [Next]_vars => TypeInv'
<1> SUFFICES ASSUME TypeInv, [Next]_vars PROVE TypeInv'
  OBVIOUS
<1>1. CASE \E m \in Messages : Producer(m)
  BY <1>1, ProducerKeepsType
<1>2. CASE Grant
  BY <1>2, GrantKeepsType
<1>3. CASE Close
  BY <1>3, CloseKeepsType
<1>4. CASE \E w \in Workers : RunWorker(w)
  BY <1>4, WorkerKeepsType
<1>5. CASE \E v \in Writers : RunWriter(v)
  BY <1>5, WriterKeepsType
<1>6. CASE UNCHANGED vars
  BY <1>6, UnchangedTypes
  DEF TypeInv, TypeOK, vars, producerVars, budgetVars, queueVars, closeVars,
      workerVars, writerVars, outcomeVars
<1> QED
  BY <1>1, <1>2, <1>3, <1>4, <1>5, <1>6 DEF Next, Finished

\* Type correctness of every reachable state.
THEOREM TypeCorrect == Spec => []TypeOK
<1>1. TypeInv => TypeOK
  BY DEF TypeInv
<1> QED
  BY <1>1, InitType, NextKeepsType, PTL DEF Spec

-----------------------------------------------------------------------------
(***************************************************************************)
(* Closing the channels.  A producer holds the read lock from the test of  *)
(* p.closed to its send, so Close waits for it.  The waiters of the budget *)
(* matter because a Grant moves a call on: they are calls that still hold  *)
(* the lock, each of them in line once.                                    *)
(***************************************************************************)
ClosedByCloser == closed => closer \in {"drain", "expired", "returned"}

WaitersInLine ==
    /\ \A i \in 1..Len(waiters) : call[waiters[i]] = "wait"
    /\ \A i, j \in 1..Len(waiters) : waiters[i] = waiters[j] => i = j

ChannelInv == TypeInv /\ ClosedByCloser /\ WaitersInLine /\ NoSendOnClosed

LEMMA InitChannel == Init => ChannelInv
<1> SUFFICES ASSUME Init PROVE ChannelInv
  OBVIOUS
<1>1. ClosedByCloser /\ NoSendOnClosed
  BY DEF Init, ClosedByCloser, NoSendOnClosed
<1>2. WaitersInLine
  BY DEF Init, WaitersInLine
<1> QED
  BY <1>1, <1>2, InitType DEF ChannelInv

\* A call that is not waiting is not in line, and may move anywhere else.
LEMMA MoveKeepsLine ==
  ASSUME TypeInv, WaitersInLine, NEW m \in Messages, NEW pc,
         call[m] # "wait", call' = Moved(m, pc), UNCHANGED waiters
  PROVE  WaitersInLine'
  BY DEF WaitersInLine, Moved, TypeInv, TypeOK, ProducerType, BudgetType

LEMMA LeaveLineKeepsLine ==
  ASSUME TypeInv, WaitersInLine, NEW m \in Messages, LeaveLine(m),
         call' = Moved(m, "refused")
  PROVE  WaitersInLine'
<1>t. waiters \in Seq(Messages) /\ call \in [Messages -> CallState]
  BY DEF TypeInv, TypeOK, BudgetType, ProducerType
<1>1. CASE m \notin ToSet(waiters) /\ UNCHANGED <<waiters, notifying>>
  <2>1. \A i \in 1..Len(waiters) : waiters[i] # m /\ waiters[i] \in Messages
    BY <1>1, <1>t DEF ToSet
  <2> QED
    BY <1>1, <1>t, <2>1 DEF WaitersInLine, Moved
<1>2. CASE \E i \in DOMAIN waiters :
             waiters[i] = m /\ waiters' = RemoveAt(waiters, i)
  <2>1. PICK i \in DOMAIN waiters : waiters[i] = m /\ waiters' = RemoveAt(waiters, i)
    BY <1>2
  <2>2. i \in 1..Len(waiters) /\ Len(waiters) \in Nat
    BY <1>t, <2>1
  <2>3. /\ Len(waiters') = Len(waiters) - 1
        /\ \A j \in 1..(Len(waiters) - 1) :
             waiters'[j] = IF j < i THEN waiters[j] ELSE waiters[j + 1]
    BY <1>t, <2>1, RemoveAtType
  <2> DEFINE old(j) == IF j < i THEN j ELSE j + 1
  <2>4. \A j \in 1..(Len(waiters) - 1) :
          old(j) \in 1..Len(waiters) /\ old(j) # i /\ waiters'[j] = waiters[old(j)]
    BY <2>2, <2>3
  <2>5. \A j, k \in 1..(Len(waiters) - 1) : old(j) = old(k) => j = k
    BY <2>2
  <2> HIDE DEF old
  <2>6. \A j \in 1..Len(waiters') : call'[waiters'[j]] = "wait"
    <3> SUFFICES ASSUME NEW j \in 1..Len(waiters')
                 PROVE  call'[waiters'[j]] = "wait"
      OBVIOUS
    <3>1. /\ old(j) \in 1..Len(waiters) /\ old(j) # i
          /\ waiters'[j] = waiters[old(j)]
      BY <2>3, <2>4
    <3>2. waiters[old(j)] # m /\ waiters[old(j)] \in Messages
      BY <1>t, <2>1, <2>2, <3>1 DEF WaitersInLine
    <3>3. call[waiters[old(j)]] = "wait"
      BY <3>1 DEF WaitersInLine
    <3> QED
      BY <1>t, <3>1, <3>2, <3>3 DEF Moved
  <2>7. \A j, k \in 1..Len(waiters') : waiters'[j] = waiters'[k] => j = k
    BY <2>3, <2>4, <2>5 DEF WaitersInLine
  <2> QED
    BY <2>6, <2>7 DEF WaitersInLine
<1> QED
  BY <1>1, <1>2 DEF LeaveLine

LEMMA ProducerKeepsChannel ==
  ASSUME ChannelInv, NEW m \in Messages, Producer(m)
  PROVE  ClosedByCloser' /\ WaitersInLine' /\ NoSendOnClosed'
<1>t. TypeInv /\ ClosedByCloser /\ WaitersInLine /\ NoSendOnClosed
  BY DEF ChannelInv
<1>c. call \in [Messages -> CallState] /\ waiters \in Seq(Messages)
  BY <1>t DEF TypeInv, TypeOK, ProducerType, BudgetType
<1>1. UNCHANGED <<closer, closed, batchesClosed, wpc>>
  BY DEF Producer, Enter, TryAcquire, TrySend, Acquire, BlockingSend, AddBytes,
         CallerGone, WokenByStop, AbortEnqueue, AccountRefused, closeVars, workerVars
<1>2. ClosedByCloser'
  BY <1>t, <1>1 DEF ClosedByCloser
<1>3. NoSendOnClosed'
  <2>1. ASSUME closed PROVE call[m] \in {"idle", "refused", "done"}
    BY <1>t, <1>c, <2>1 DEF NoSendOnClosed, ReadLocked, CallState
  <2>2. ASSUME closed PROVE \E pc \in {"done", "refused"} : call' = Moved(m, pc)
    BY <2>1, <2>2 DEF Producer, Enter, SeesClosed, TryAcquire, TrySend, Acquire,
       BlockingSend, AddBytes, CallerGone, WokenByStop, AbortEnqueue, AccountRefused
  <2>3. ASSUME closed, NEW x \in Messages PROVE call'[x] \notin ReadLocked
    BY <1>t, <1>c, <2>2, <2>3 DEF NoSendOnClosed, ReadLocked, Moved
  <2> QED
    BY <1>t, <1>1, <2>3 DEF NoSendOnClosed
<1>4. WaitersInLine'
  <2>1. CASE /\ call[m] # "wait"
             /\ UNCHANGED waiters
             /\ \E pc \in CallState : call' = Moved(m, pc)
    BY <1>t, <2>1, MoveKeepsLine
  <2>2. CASE Acquire(m) /\ ~UNCHANGED waiters
    <3>1. /\ waiters' = Append(waiters, m)
          /\ call' = Moved(m, "wait")
          /\ call[m] = "acquire"
      BY <2>2 DEF Acquire, Take
    <3>2. \A i \in 1..Len(waiters) : waiters[i] # m /\ waiters[i] \in Messages
      BY <1>t, <1>c, <3>1 DEF WaitersInLine
    <3>3. /\ Len(waiters') = Len(waiters) + 1 /\ Len(waiters) \in Nat
          /\ \A i \in 1..Len(waiters) : waiters'[i] = waiters[i]
          /\ waiters'[Len(waiters) + 1] = m
      BY <1>c, <3>1
    <3>4. \A i \in 1..Len(waiters') : i \in 1..Len(waiters) \/ i = Len(waiters) + 1
      BY <3>3
    <3>5. \A i \in 1..Len(waiters') : call'[waiters'[i]] = "wait"
      BY <1>t, <1>c, <3>1, <3>2, <3>3, <3>4 DEF WaitersInLine, Moved
    <3>6. \A i, j \in 1..Len(waiters') : waiters'[i] = waiters'[j] => i = j
      BY <1>t, <3>2, <3>3, <3>4 DEF WaitersInLine
    <3> QED
      BY <3>5, <3>6 DEF WaitersInLine
  <2>3. CASE call[m] = "wait" /\ LeaveLine(m) /\ call' = Moved(m, "refused")
    BY <1>t, <2>3, LeaveLineKeepsLine
  <2>4. CASE Enter(m) \/ AddBytes(m) \/ AccountRefused(m) \/ BlockingSend(m)
    BY <2>1, <2>4 DEF Enter, AddBytes, AccountRefused, BlockingSend, SendToQueue,
                      CallState, budgetVars
  <2>5. CASE TryAcquire(m) \/ TrySend(m)
    BY <2>1, <2>5 DEF TryAcquire, TrySend, SendToQueue, Take, Release, CallState,
                      budgetVars
  <2>6. CASE Acquire(m)
    BY <2>1, <2>2, <2>6 DEF Acquire, Take, CallState
  <2>7. CASE AbortEnqueue(m)
    BY <2>1, <2>3, <2>7 DEF AbortEnqueue, Release, CallState, budgetVars
  <2> QED
    BY <2>4, <2>5, <2>6, <2>7 DEF Producer, CallerGone, WokenByStop
<1> QED
  BY <1>2, <1>3, <1>4

LEMMA GrantKeepsChannel ==
  ASSUME ChannelInv, Grant
  PROVE  ClosedByCloser' /\ WaitersInLine' /\ NoSendOnClosed'
<1>t. TypeInv /\ ClosedByCloser /\ WaitersInLine /\ NoSendOnClosed
  BY DEF ChannelInv
<1>c. /\ call \in [Messages -> CallState]
      /\ waiters \in Seq(Messages) /\ waiters # <<>>
  BY <1>t DEF TypeInv, TypeOK, ProducerType, BudgetType, NotifyingSomebody, Grant
<1>1. /\ Head(waiters) \in Messages /\ Head(waiters) = waiters[1]
      /\ Len(waiters) \in Nat /\ 1 \in 1..Len(waiters)
      /\ Len(Tail(waiters)) = Len(waiters) - 1
      /\ \A i \in 1..Len(Tail(waiters)) : Tail(waiters)[i] = waiters[i + 1]
  BY <1>c
<1>2. call[Head(waiters)] = "wait"
  BY <1>t, <1>1 DEF WaitersInLine
<1>3. ~closed
  BY <1>t, <1>1, <1>2 DEF NoSendOnClosed, ReadLocked
<1>4. UNCHANGED <<closer, closed, batchesClosed, wpc>>
  BY DEF Grant, closeVars, workerVars
<1>5. ASSUME NEW i \in 1..Len(waiters')
      PROVE  /\ waiters'[i] = waiters[i + 1] /\ i + 1 \in 1..Len(waiters)
             /\ waiters[i + 1] # Head(waiters)
             /\ call'[waiters'[i]] = "wait"
  <2>1. waiters'[i] = waiters[i + 1] /\ i + 1 \in 1..Len(waiters) /\ i + 1 # 1
    BY <1>1 DEF Grant
  <2>2. waiters[i + 1] # Head(waiters) /\ waiters[i + 1] \in Messages
    BY <1>t, <1>c, <1>1, <2>1 DEF WaitersInLine
  <2>3. call[waiters[i + 1]] = "wait"
    BY <1>t, <2>1 DEF WaitersInLine
  <2> QED
    BY <1>c, <1>1, <2>1, <2>2, <2>3 DEF Grant, Moved
<1>6. \A i, j \in 1..Len(waiters') : waiters'[i] = waiters'[j] => i = j
  <2> SUFFICES ASSUME NEW i \in 1..Len(waiters'), NEW j \in 1..Len(waiters'),
                      waiters'[i] = waiters'[j]
               PROVE  i = j
    OBVIOUS
  <2>1. i + 1 = j + 1
    BY <1>t, <1>5 DEF WaitersInLine
  <2> QED
    BY <2>1
<1>7. WaitersInLine'
  BY <1>5, <1>6 DEF WaitersInLine
<1> QED
  BY <1>t, <1>3, <1>4, <1>7 DEF ClosedByCloser, NoSendOnClosed

LEMMA CloseKeepsChannel ==
  ASSUME ChannelInv, Close
  PROVE  ClosedByCloser' /\ WaitersInLine' /\ NoSendOnClosed'
<1>1. UNCHANGED <<call, waiters, wpc>>
  BY DEF Close, Stop, LockWait, CloseQueue, CloseBatches, Expire, CloseReturn,
         producerVars, budgetVars, workerVars
<1>2. WaitersInLine'
  BY <1>1 DEF ChannelInv, WaitersInLine
<1>3. ClosedByCloser'
  BY DEF ChannelInv, ClosedByCloser, Close, Stop, LockWait, CloseQueue,
         CloseBatches, Expire, CloseReturn
<1>4. NoSendOnClosed'
  BY <1>1 DEF ChannelInv, NoSendOnClosed, Close, Stop, LockWait, CloseQueue,
              NoReaders, CloseBatches, WorkersDone, Expire, CloseReturn
<1> QED
  BY <1>2, <1>3, <1>4

\* A worker that has exited stays so: no step of a worker starts there.
LEMMA WorkerKeepsChannel ==
  ASSUME ChannelInv, NEW w \in Workers, RunWorker(w)
  PROVE  ClosedByCloser' /\ WaitersInLine' /\ NoSendOnClosed'
<1>1. UNCHANGED <<call, waiters, closer, closed, batchesClosed>>
  BY DEF RunWorker, Receive, Process, FlushFull, SubtractBytes, ReleaseBudget,
         Release, TimerFires, QueueClosed, FlushNext, FlushAllDone, producerVars,
         budgetVars, closeVars
<1>2. wpc[w] # "exit"
  BY DEF RunWorker, Receive, Process, FlushFull, SubtractBytes, ReleaseBudget,
         TimerFires, QueueClosed, FlushNext, FlushAllDone
<1>3. ~batchesClosed
  BY <1>2 DEF ChannelInv, NoSendOnClosed
<1> QED
  BY <1>1, <1>3 DEF ChannelInv, ClosedByCloser, WaitersInLine, NoSendOnClosed

LEMMA NextKeepsChannel == ChannelInv /\ [Next]_vars => ChannelInv'
<1> SUFFICES ASSUME ChannelInv, [Next]_vars PROVE ChannelInv'
  OBVIOUS
<1>0. TypeInv'
  BY NextKeepsType DEF ChannelInv
<1>1. CASE \E m \in Messages : Producer(m)
  BY <1>0, <1>1, ProducerKeepsChannel DEF ChannelInv
<1>2. CASE Grant
  BY <1>0, <1>2, GrantKeepsChannel DEF ChannelInv
<1>3. CASE Close
  BY <1>0, <1>3, CloseKeepsChannel DEF ChannelInv
<1>4. CASE \E w \in Workers : RunWorker(w)
  BY <1>0, <1>4, WorkerKeepsChannel DEF ChannelInv
<1>5. CASE (\E v \in Writers : RunWriter(v)) \/ UNCHANGED vars
  <2>1. UNCHANGED <<call, waiters, closer, closed, batchesClosed, wpc>>
    BY <1>5 DEF RunWriter, TakeBatch, WriterExit, WriteBatch, DropUnwritten,
       WriteSucceeds, WriteFails, WriteRejected, SetGauge, RecordStored,
       BackoffEnds, producerVars, budgetVars, closeVars, workerVars, vars
  <2> QED
    BY <1>0, <2>1 DEF ChannelInv, ClosedByCloser, WaitersInLine, NoSendOnClosed
<1> QED
  BY <1>1, <1>2, <1>3, <1>4, <1>5 DEF Next, Finished

\* No producer and no worker ever sends on a channel that Close has closed.
THEOREM ChannelSafety == Spec => []NoSendOnClosed
<1>1. ChannelInv => NoSendOnClosed
  BY DEF ChannelInv
<1> QED
  BY <1>1, InitChannel, NextKeepsChannel, PTL DEF Spec

\* Close stops accepting: once the queue is closed no message enters it.
THEOREM ClosedMeansClosed == Spec => NothingAcceptedAfterClose
<1>1. ChannelInv /\ [Next]_vars => [closed => accepted' = accepted]_vars
  <2> SUFFICES ASSUME ChannelInv, Next, closed PROVE accepted' = accepted
    BY DEF vars
  <2>1. \A m \in Messages : call[m] \notin {"trysend", "send"}
    BY DEF ChannelInv, NoSendOnClosed, ReadLocked
  <2>2. CASE \E m \in Messages : Producer(m)
    BY <2>1, <2>2 DEF Producer, Enter, TryAcquire, TrySend, Acquire, BlockingSend,
       AddBytes, CallerGone, WokenByStop, AbortEnqueue, AccountRefused
  <2>3. CASE Grant \/ Close
    BY <2>3 DEF Grant, Close, Stop, LockWait, CloseQueue, CloseBatches, Expire,
       CloseReturn, producerVars
  <2>4. CASE \E w \in Workers : RunWorker(w)
    BY <2>4 DEF RunWorker, Receive, Process, FlushFull, SubtractBytes,
       ReleaseBudget, TimerFires, QueueClosed, FlushNext, FlushAllDone, producerVars
  <2>5. CASE \E v \in Writers : RunWriter(v)
    BY <2>5 DEF RunWriter, TakeBatch, WriterExit, WriteBatch, DropUnwritten,
       WriteSucceeds, WriteFails, WriteRejected, SetGauge, RecordStored,
       BackoffEnds, producerVars
  <2> QED
    BY <2>2, <2>3, <2>4, <2>5 DEF Next, Finished, vars
<1> QED
  BY <1>1, InitChannel, NextKeepsChannel, PTL DEF Spec, NothingAcceptedAfterClose

-----------------------------------------------------------------------------
(***************************************************************************)
(* Memory.  MemoryBounded is inductive but for the rows of a batch: a      *)
(* worker's open batch is below its limit except between the message that  *)
(* fills it and the flush.                                                 *)
(***************************************************************************)
OpenBatchesFit ==
    \A w \in Workers, t \in Tenants :
        \/ Len(batch[w][t]) < BatchMaxRows
        \/ /\ wpc[w] = "flush" /\ t = BatchOf(hand[w])
           /\ Len(batch[w][t]) = BatchMaxRows

QueuesBounded ==
    Len(queue) <= QueueMaxMessages /\ Len(batches) <= BatchQueue

FlushedBatchesFit ==
    \A i \in 1..Len(batches) : Len(batches[i]) \in 1..BatchMaxRows

MemoryInv ==
    /\ TypeInv /\ cur <= QueueMaxBytes /\ QueuesBounded
    /\ OpenBatchesFit /\ FlushedBatchesFit

LEMMA InitMemory == Init => MemoryInv
<1> SUFFICES ASSUME Init PROVE MemoryInv
  OBVIOUS
<1>1. cur <= QueueMaxBytes /\ QueuesBounded /\ FlushedBatchesFit
  BY SizesAssumption DEF SizesAssumption, Init, QueuesBounded, FlushedBatchesFit
<1>2. OpenBatchesFit
  BY SizesAssumption DEF SizesAssumption, Init, OpenBatchesFit
<1> QED
  BY <1>1, <1>2, InitType DEF MemoryInv

\* The budget is never overdrawn: every acquisition checks that it fits.
LEMMA BudgetStep ==
  ASSUME MemoryInv, [Next]_vars
  PROVE  cur' <= QueueMaxBytes
<1>t. /\ TypeInv /\ cur \in Int /\ cur <= QueueMaxBytes
      /\ waiters \in Seq(Messages)
      /\ \A w \in Workers : wpc[w] = "release" => hand[w] \in Messages
  BY DEF MemoryInv, TypeInv, TypeOK, BudgetType, HandFull
<1>1. ASSUME NEW m \in Messages, Release(m) PROVE cur' <= QueueMaxBytes
  BY <1>t, <1>1, ConstantTypes DEF Release
<1>2. CASE \E m \in Messages : Producer(m)
  <2>1. PICK m \in Messages : Producer(m)
    BY <1>2
  <2>2. UNCHANGED cur \/ Release(m) \/ (MayAcquire(m) /\ Take(m))
    BY <2>1 DEF Producer, Enter, TryAcquire, TrySend, SendToQueue, Acquire,
       BlockingSend, AddBytes, CallerGone, WokenByStop, AbortEnqueue, LeaveLine,
       AccountRefused, budgetVars
  <2> QED
    BY <1>t, <1>1, <2>2 DEF MayAcquire, Take
<1>3. CASE Grant
  BY <1>t, <1>3 DEF Grant, TypeInv, NotifyingSomebody
<1>4. CASE \E w \in Workers : RunWorker(w)
  BY <1>t, <1>1, <1>4 DEF RunWorker, Receive, Process, FlushFull, SubtractBytes,
     ReleaseBudget, TimerFires, QueueClosed, FlushNext, FlushAllDone, budgetVars
<1>5. CASE Close \/ (\E v \in Writers : RunWriter(v)) \/ UNCHANGED vars
  <2>1. UNCHANGED cur
    BY <1>5 DEF Close, Stop, LockWait, CloseQueue, CloseBatches, Expire,
       CloseReturn, RunWriter, TakeBatch, WriterExit, WriteBatch, DropUnwritten,
       WriteSucceeds, WriteFails, WriteRejected, SetGauge, RecordStored,
       BackoffEnds, budgetVars, vars
  <2> QED
    BY <1>t, <2>1
<1> QED
  BY <1>2, <1>3, <1>4, <1>5 DEF Next, Finished

\* flush keeps the batch queue within its capacity and its batches within their
\* rows.
LEMMA FlushKeepsMemory ==
  ASSUME MemoryInv, NEW w \in Workers, NEW t \in Tenants, Flush(w, t)
  PROVE  Len(batches') <= BatchQueue /\ FlushedBatchesFit'
<1>t. /\ batches \in Seq(Seq(Messages)) /\ batch[w][t] \in Seq(Messages)
      /\ Len(batches) \in Nat /\ Len(batch[w][t]) \in Nat
      /\ BatchQueue \in Nat /\ BatchMaxRows \in Nat
  BY SizesAssumption DEF SizesAssumption, MemoryInv, TypeInv, TypeOK, BatchesType,
                         WorkerType
<1>1. Len(batch[w][t]) \in 1..BatchMaxRows
  <2>1. Len(batch[w][t]) # 0
    BY <1>t DEF Flush
  <2>2. Len(batch[w][t]) <= BatchMaxRows
    BY <1>t DEF MemoryInv, OpenBatchesFit
  <2> QED
    BY <1>t, <2>1, <2>2
<1>2. /\ Len(batches') = Len(batches) + 1
      /\ \A i \in 1..Len(batches) : batches'[i] = batches[i]
      /\ batches'[Len(batches) + 1] = batch[w][t]
  BY <1>t DEF Flush
<1>3. \A i \in 1..Len(batches') : i \in 1..Len(batches) \/ i = Len(batches) + 1
  BY <1>t, <1>2
<1>4. FlushedBatchesFit'
  BY <1>1, <1>2, <1>3 DEF MemoryInv, FlushedBatchesFit
<1> QED
  BY <1>t, <1>2, <1>4 DEF Flush

LEMMA ProcessKeepsMemory ==
  ASSUME MemoryInv, NEW w \in Workers, Process(w)
  PROVE  OpenBatchesFit'
<1> DEFINE tt == BatchOf(hand[w])
           b == Append(batch[w][tt], hand[w])
<1>t. /\ hand[w] \in Messages /\ tt \in Tenants
      /\ batch \in [Workers -> [Tenants -> Seq(Messages)]]
      /\ wpc \in [Workers -> WorkerState]
      /\ BatchMaxRows \in Nat
  BY SizesAssumption, ConstantTypes
  DEF SizesAssumption, MemoryInv, TypeInv, TypeOK, WorkerType, HandFull, Process,
      BatchOf
<1>1. /\ batch' = [batch EXCEPT ![w][tt] = b]
      /\ wpc' = [wpc EXCEPT ![w] = IF BatchFull(b) THEN "flush" ELSE "account"]
      /\ hand' = hand /\ wpc[w] = "process"
  BY DEF Process
<1>2. /\ Len(batch[w][tt]) \in Nat /\ Len(batch[w][tt]) < BatchMaxRows
      /\ Len(b) = Len(batch[w][tt]) + 1
  BY <1>t, <1>1 DEF MemoryInv, OpenBatchesFit
<1>3. Len(b) >= BatchMaxRows => BatchFull(b)
  BY DEF BatchFull
<1> HIDE DEF tt, b
<1>4. ASSUME NEW x \in Workers, NEW y \in Tenants
      PROVE  \/ Len(batch'[x][y]) < BatchMaxRows
             \/ /\ wpc'[x] = "flush" /\ y = BatchOf(hand'[x])
                /\ Len(batch'[x][y]) = BatchMaxRows
  <2>1. CASE x = w /\ y = tt
    <3>1. batch'[x][y] = b
      BY <1>t, <1>1, <2>1
    <3>2. Len(b) < BatchMaxRows \/ Len(b) = BatchMaxRows
      BY <1>t, <1>2
    <3>3. Len(b) = BatchMaxRows => wpc'[x] = "flush"
      BY <1>t, <1>1, <1>3, <2>1
    <3> QED
      BY <1>1, <2>1, <3>1, <3>2, <3>3 DEF tt
  <2>2. CASE x # w \/ y # tt
    <3>1. batch'[x][y] = batch[x][y]
      BY <1>t, <1>1, <2>2
    <3>2. x = w => Len(batch[x][y]) < BatchMaxRows
      BY <1>1 DEF MemoryInv, OpenBatchesFit
    <3>3. x # w => wpc'[x] = wpc[x]
      BY <1>t, <1>1
    <3> QED
      BY <1>1, <3>1, <3>2, <3>3 DEF MemoryInv, OpenBatchesFit
  <2> QED
    BY <2>1, <2>2
<1> QED
  BY <1>4 DEF OpenBatchesFit

LEMMA FlushKeepsOpenBatches ==
  ASSUME MemoryInv, NEW w \in Workers, NEW t \in Tenants, Flush(w, t),
         hand' = hand,
         \/ wpc' = wpc
         \/ t = BatchOf(hand[w]) /\ wpc' = [wpc EXCEPT ![w] = "account"]
  PROVE  OpenBatchesFit'
<1>t. /\ batch \in [Workers -> [Tenants -> Seq(Messages)]]
      /\ wpc \in [Workers -> WorkerState]
      /\ BatchMaxRows \in Nat \ {0}
  BY SizesAssumption DEF SizesAssumption, MemoryInv, TypeInv, TypeOK, WorkerType
<1>1. batch' = [batch EXCEPT ![w][t] = <<>>]
  BY DEF Flush
<1>2. ASSUME NEW x \in Workers, NEW y \in Tenants
      PROVE  \/ Len(batch'[x][y]) < BatchMaxRows
             \/ /\ wpc'[x] = "flush" /\ y = BatchOf(hand'[x])
                /\ Len(batch'[x][y]) = BatchMaxRows
  <2>1. CASE x = w /\ y = t
    <3>1. batch'[x][y] = <<>>
      BY <1>t, <1>1, <2>1
    <3> QED
      BY <1>t, <3>1
  <2>2. CASE x # w \/ y # t
    <3>1. batch'[x][y] = batch[x][y]
      BY <1>t, <1>1, <2>2
    <3>2. wpc'[x] = wpc[x] \/ (x = w /\ y # BatchOf(hand[w]))
      BY <1>t, <2>2
    <3> QED
      BY <3>1, <3>2 DEF MemoryInv, OpenBatchesFit
  <2> QED
    BY <2>1, <2>2
<1> QED
  BY <1>2 DEF OpenBatchesFit

\* Worker steps that leave the open batches alone and do not start or end a
\* flush of a full batch.
LEMMA OtherWorkerSteps ==
  ASSUME MemoryInv, NEW w \in Workers, wpc[w] # "flush", UNCHANGED batch,
         \E s \in WorkerState : wpc' = [wpc EXCEPT ![w] = s],
         \E h \in Messages \cup {NoMessage} : hand' = [hand EXCEPT ![w] = h]
  PROVE  OpenBatchesFit'
<1>1. wpc \in [Workers -> WorkerState] /\ hand \in [Workers -> Messages \cup {NoMessage}]
  BY DEF MemoryInv, TypeInv, TypeOK, WorkerType
<1>2. \A x \in Workers : x # w => wpc'[x] = wpc[x] /\ hand'[x] = hand[x]
  BY <1>1
<1> QED
  BY <1>2 DEF MemoryInv, OpenBatchesFit

LEMMA WorkerKeepsMemory ==
  ASSUME MemoryInv, NEW w \in Workers, RunWorker(w)
  PROVE  QueuesBounded' /\ OpenBatchesFit' /\ FlushedBatchesFit'
<1>t. /\ queue \in Seq(Messages) /\ QueuesBounded /\ FlushedBatchesFit
      /\ hand \in [Workers -> Messages \cup {NoMessage}]
      /\ wpc \in [Workers -> WorkerState]
      /\ wpc[w] = "flush" => hand[w] \in Messages
      /\ QueueMaxMessages \in Nat
  BY SizesAssumption DEF SizesAssumption, MemoryInv, TypeInv, TypeOK, QueueType,
                         WorkerType, HandFull
<1>1. CASE Receive(w)
  <2>1. QueuesBounded'
    BY <1>t, <1>1 DEF Receive, QueuesBounded
  <2>2. FlushedBatchesFit'
    BY <1>t, <1>1 DEF Receive, FlushedBatchesFit
  <2>3. Head(queue) \in Messages
    BY <1>t, <1>1 DEF Receive
  <2>4. OpenBatchesFit'
    BY <1>1, <2>3, OtherWorkerSteps DEF Receive, WorkerState
  <2> QED
    BY <2>1, <2>2, <2>4
<1>2. CASE Process(w)
  BY <1>t, <1>2, ProcessKeepsMemory
  DEF Process, queueVars, QueuesBounded, FlushedBatchesFit
<1>3. CASE FlushFull(w)
  <2>1. BatchOf(hand[w]) \in Tenants
    BY <1>t, <1>3, ConstantTypes DEF FlushFull, BatchOf
  <2> QED
    BY <1>t, <1>3, <2>1, FlushKeepsMemory, FlushKeepsOpenBatches
    DEF FlushFull, queueVars, QueuesBounded
<1>4. CASE FlushNext(w)
  BY <1>t, <1>4, FlushKeepsMemory, FlushKeepsOpenBatches
  DEF FlushNext, queueVars, QueuesBounded
<1>5. CASE SubtractBytes(w) \/ ReleaseBudget(w) \/ TimerFires(w) \/ QueueClosed(w)
           \/ FlushAllDone(w)
  <2>1. UNCHANGED <<queue, batches, batch>>
    BY <1>5 DEF SubtractBytes, ReleaseBudget, TimerFires, QueueClosed,
                FlushAllDone, queueVars
  <2>2. wpc[w] # "flush"
    BY <1>5 DEF SubtractBytes, ReleaseBudget, TimerFires, QueueClosed, FlushAllDone
  <2>3. \E s \in WorkerState : wpc' = [wpc EXCEPT ![w] = s]
    BY <1>5 DEF SubtractBytes, ReleaseBudget, TimerFires, QueueClosed,
                FlushAllDone, WorkerState, AfterQueueClosed
  <2>4. \E h \in Messages \cup {NoMessage} : hand' = [hand EXCEPT ![w] = h]
    <3>1. CASE UNCHANGED hand
      BY <1>t, <3>1
    <3>2. CASE ReleaseBudget(w)
      BY <3>2 DEF ReleaseBudget
    <3> QED
      BY <1>5, <3>1, <3>2 DEF SubtractBytes, TimerFires, QueueClosed, FlushAllDone
  <2>5. OpenBatchesFit'
    BY <2>1, <2>2, <2>3, <2>4, OtherWorkerSteps
  <2> QED
    BY <1>t, <2>1, <2>5 DEF QueuesBounded, FlushedBatchesFit
<1> QED
  BY <1>1, <1>2, <1>3, <1>4, <1>5 DEF RunWorker

LEMMA NextKeepsMemory == MemoryInv /\ [Next]_vars => MemoryInv'
<1> SUFFICES ASSUME MemoryInv, [Next]_vars PROVE MemoryInv'
  OBVIOUS
<1>t. /\ TypeInv /\ queue \in Seq(Messages) /\ batches \in Seq(Seq(Messages))
      /\ QueuesBounded /\ OpenBatchesFit /\ FlushedBatchesFit
      /\ QueueMaxMessages \in Nat /\ BatchQueue \in Nat
  BY SizesAssumption
  DEF SizesAssumption, MemoryInv, TypeInv, TypeOK, QueueType, BatchesType
<1>0. TypeInv' /\ cur' <= QueueMaxBytes
  BY <1>t, NextKeepsType, BudgetStep
<1>1. ASSUME UNCHANGED <<wpc, hand, batch>> PROVE OpenBatchesFit'
  BY <1>t, <1>1 DEF OpenBatchesFit
<1>2. CASE \E m \in Messages : Producer(m)
  <2>1. PICK m \in Messages : Producer(m)
    BY <1>2
  <2>2. UNCHANGED <<wpc, hand, batch, batches>>
    BY <2>1 DEF Producer, Enter, TryAcquire, TrySend, Acquire, BlockingSend,
       AddBytes, CallerGone, WokenByStop, AbortEnqueue, AccountRefused, workerVars
  <2>3. UNCHANGED queue \/ (QueueHasRoom /\ queue' = Append(queue, m))
    BY <2>1 DEF Producer, Enter, TryAcquire, TrySend, SendToQueue, Acquire,
       BlockingSend, AddBytes, CallerGone, WokenByStop, AbortEnqueue,
       AccountRefused, queueVars
  <2>4. Len(queue') <= QueueMaxMessages
    BY <1>t, <2>3 DEF QueueHasRoom, QueuesBounded
  <2> QED
    BY <1>t, <1>0, <1>1, <2>2, <2>4 DEF MemoryInv, QueuesBounded, FlushedBatchesFit
<1>3. CASE Grant \/ Close \/ UNCHANGED vars
  <2>1. UNCHANGED <<queue, wpc, hand, batch, batches>>
    BY <1>3 DEF Grant, Close, Stop, LockWait, CloseQueue, CloseBatches, Expire,
       CloseReturn, queueVars, workerVars, vars
  <2> QED
    BY <1>t, <1>0, <1>1, <2>1 DEF MemoryInv, QueuesBounded, FlushedBatchesFit
<1>4. CASE \E w \in Workers : RunWorker(w)
  BY <1>0, <1>4, WorkerKeepsMemory DEF MemoryInv
<1>5. CASE \E v \in Writers : RunWriter(v)
  <2>1. PICK v \in Writers : RunWriter(v)
    BY <1>5
  <2>2. UNCHANGED <<queue, wpc, hand, batch>>
    BY <2>1 DEF RunWriter, TakeBatch, WriterExit, WriteBatch, DropUnwritten,
       WriteSucceeds, WriteFails, WriteRejected, SetGauge, RecordStored,
       BackoffEnds, queueVars, workerVars
  <2>3. UNCHANGED batches \/ (batches # <<>> /\ batches' = Tail(batches))
    BY <2>1 DEF RunWriter, TakeBatch, WriterExit, WriteBatch, DropUnwritten,
       WriteSucceeds, WriteFails, WriteRejected, SetGauge, RecordStored, BackoffEnds
  <2>4. CASE UNCHANGED batches
    BY <1>t, <1>0, <1>1, <2>2, <2>4 DEF MemoryInv, QueuesBounded, FlushedBatchesFit
  <2>5. CASE batches # <<>> /\ batches' = Tail(batches)
    <3>1. /\ Len(batches') = Len(batches) - 1 /\ Len(batches) \in Nat
          /\ \A i \in 1..Len(batches') : batches'[i] = batches[i + 1]
      BY <1>t, <2>5
    <3>2. \A i \in 1..Len(batches') : i + 1 \in 1..Len(batches)
      BY <3>1
    <3>3. FlushedBatchesFit'
      BY <1>t, <3>1, <3>2 DEF FlushedBatchesFit
    <3> QED
      BY <1>t, <1>0, <1>1, <2>2, <3>1, <3>3 DEF MemoryInv, QueuesBounded
  <2> QED
    BY <2>3, <2>4, <2>5
<1> QED
  BY <1>2, <1>3, <1>4, <1>5 DEF Next, Finished

\* Memory is bounded by the configuration, whatever the backend and the senders
\* do.
THEOREM BoundedMemory == Spec => []MemoryBounded
<1>1. MemoryInv => MemoryBounded
  <2> SUFFICES ASSUME MemoryInv PROVE MemoryBounded
    OBVIOUS
  <2>1. BatchMaxRows \in Nat
    BY SizesAssumption DEF SizesAssumption
  <2>2. ASSUME NEW w \in Workers, NEW t \in Tenants
        PROVE  Len(batch[w][t]) <= BatchMaxRows
    <3>1. Len(batch[w][t]) \in Nat
      BY DEF MemoryInv, TypeInv, TypeOK, WorkerType
    <3> QED
      BY <2>1, <3>1 DEF MemoryInv, OpenBatchesFit
  <2> QED
    BY <2>2 DEF MemoryInv, MemoryBounded, QueuesBounded, FlushedBatchesFit
<1> QED
  BY <1>1, InitMemory, NextKeepsMemory, PTL DEF Spec

-----------------------------------------------------------------------------
(***************************************************************************)
(* The byte budget.  That a release gives back bytes that are taken, and   *)
(* an acquisition takes new ones, rests on a message being in the queue or *)
(* in one worker's hand, and only once it was accepted.                    *)
(***************************************************************************)
HandEmpty ==
    \A w \in Workers : wpc[w] \in {"recv", "flushall", "exit"} => hand[w] = NoMessage

NotYetAccepted ==
    \A m \in Messages : call[m] \notin {"added", "done"} => m \notin accepted

HandsDistinct ==
    /\ Distinct(queue) /\ ToSet(queue) \subseteq accepted
    /\ \A w \in Workers : hand[w] # NoMessage =>
         /\ hand[w] \in accepted /\ hand[w] \notin ToSet(queue)
         /\ \A x \in Workers : hand[x] = hand[w] => x = w

HoldersExact ==
    /\ IsFiniteSet(BudgetHolders) /\ BudgetHolders \subseteq Messages
    /\ cur = SumOf(Weight, BudgetHolders)

WaitersMustWait == ~notifying => ~NextFits(cur, waiters)

PlacedInv == ChannelInv /\ HandEmpty /\ NotYetAccepted /\ HandsDistinct

BudgetInv == PlacedInv /\ HoldersExact /\ WaitersMustWait

\* The parts of the type invariant that the places of messages use.
LEMMA PlacedTypes ==
  ASSUME PlacedInv
  PROVE  /\ TypeInv /\ ChannelInv /\ WaitersInLine
         /\ call \in [Messages -> CallState] /\ accepted \subseteq Messages
         /\ queue \in Seq(Messages) /\ waiters \in Seq(Messages)
         /\ cur \in Int
         /\ wpc \in [Workers -> WorkerState]
         /\ hand \in [Workers -> Messages \cup {NoMessage}]
         /\ \A w \in Workers : wpc[w] \in {"process", "flush", "account", "release"} =>
              hand[w] \in Messages
         /\ NoMessage \notin Messages
         /\ HandEmpty /\ NotYetAccepted /\ HandsDistinct
  BY MessagesAssumption
  DEF PlacedInv, ChannelInv, TypeInv, TypeOK, ProducerType, QueueType, BudgetType,
      WorkerType, HandFull, MessagesAssumption

\* Initially there is no message anywhere.
LEMMA InitPlaced == Init => PlacedInv
<1> SUFFICES ASSUME Init PROVE PlacedInv
  OBVIOUS
<1>1. HandEmpty /\ NotYetAccepted
  BY DEF Init, HandEmpty, NotYetAccepted
<1>2. HandsDistinct
  BY DEF Init, HandsDistinct, Distinct, ToSet
<1> QED
  BY <1>1, <1>2, InitChannel DEF PlacedInv

\* A producer's call either sends its message into the queue or moves on
\* without it, and a call that has sent does not do so again.
LEMMA ProducerSteps ==
  ASSUME PlacedInv, NEW m \in Messages, Producer(m)
  PROVE  /\ UNCHANGED closeVars /\ UNCHANGED workerVars /\ UNCHANGED writerVars
         /\ UNCHANGED <<batches, disk>>
         /\ \/ call[m] \in {"trysend", "send"} /\ SendToQueue(m)
            \/ /\ UNCHANGED <<accepted, queue>>
               /\ \/ /\ call[m] \notin {"added", "done"}
                     /\ \E pc \in CallState \ {"added"} : call' = Moved(m, pc)
                  \/ /\ call[m] = "added" /\ call' = Moved(m, "done")
                     /\ UNCHANGED <<budgetVars, ledger>>
<1>1. /\ UNCHANGED closeVars /\ UNCHANGED workerVars /\ UNCHANGED writerVars
      /\ UNCHANGED <<batches, disk>>
  BY DEF Producer, Enter, TryAcquire, TrySend, Acquire, BlockingSend, AddBytes,
         CallerGone, WokenByStop, AbortEnqueue, AccountRefused, outcomeVars
<1>2. CASE Enter(m)
  BY <1>1, <1>2 DEF Enter, CallState, queueVars
<1>3. CASE TryAcquire(m)
  BY <1>1, <1>3 DEF TryAcquire, CallState, queueVars
<1>4. CASE TrySend(m)
  BY <1>1, <1>4 DEF TrySend, CallState
<1>5. CASE Acquire(m)
  BY <1>1, <1>5 DEF Acquire, CallState, queueVars
<1>6. CASE BlockingSend(m)
  BY <1>1, <1>6 DEF BlockingSend
<1>7. CASE AddBytes(m)
  BY <1>1, <1>7 DEF AddBytes, outcomeVars
<1>8. CASE CallerGone(m) \/ WokenByStop(m)
  BY <1>1, <1>8 DEF CallerGone, WokenByStop, AbortEnqueue, CallState, queueVars
<1>9. CASE AccountRefused(m)
  BY <1>1, <1>9 DEF AccountRefused, CallState, queueVars
<1> QED
  BY <1>2, <1>3, <1>4, <1>5, <1>6, <1>7, <1>8, <1>9 DEF Producer

\* A send puts a message into the queue that was not accepted before.
LEMMA ProducerKeepsPlaced ==
  ASSUME PlacedInv, NEW m \in Messages, Producer(m)
  PROVE  HandEmpty' /\ NotYetAccepted' /\ HandsDistinct'
<1> USE PlacedTypes
<1>1. UNCHANGED <<wpc, hand>>
  BY ProducerSteps DEF workerVars
<1>2. HandEmpty'
  BY <1>1 DEF HandEmpty
<1>3. CASE call[m] \in {"trysend", "send"} /\ SendToQueue(m)
  <2>1. m \notin accepted
    BY <1>3 DEF NotYetAccepted
  <2>2. queue' = Append(queue, m) /\ accepted' = accepted \cup {m} /\ call' = Moved(m, "added")
    BY <1>3 DEF SendToQueue
  <2>3. m \notin ToSet(queue) /\ \A w \in Workers : hand[w] # m
    BY <2>1 DEF HandsDistinct
  <2>4. ToSet(queue') = ToSet(queue) \cup {m}
    BY <2>2, ToSetAppend
  <2>5. Distinct(queue')
    BY <2>2, <2>3, DistinctAppend DEF HandsDistinct
  <2>6. NotYetAccepted'
    BY <2>2 DEF NotYetAccepted, Moved
  <2>7. HandsDistinct'
    BY <1>1, <2>2, <2>3, <2>4, <2>5 DEF HandsDistinct
  <2> QED
    BY <1>2, <2>6, <2>7
<1>4. CASE UNCHANGED <<accepted, queue>>
  <2>1. HandsDistinct'
    BY <1>1, <1>4 DEF HandsDistinct
  <2>2. NotYetAccepted'
    BY <1>4, ProducerSteps DEF NotYetAccepted, Moved, SendToQueue
  <2> QED
    BY <1>2, <2>1, <2>2
<1> QED
  BY <1>3, <1>4, ProducerSteps

\* Waking a blocked Acquire moves no message.
LEMMA GrantKeepsPlaced ==
  ASSUME PlacedInv, Grant
  PROVE  /\ Head(waiters) \in Messages /\ call[Head(waiters)] = "wait"
         /\ HandEmpty' /\ NotYetAccepted' /\ HandsDistinct'
<1> USE PlacedTypes
<1>1. waiters # <<>>
  BY DEF Grant, TypeInv, NotifyingSomebody
<1>2. Head(waiters) \in Messages /\ call[Head(waiters)] = "wait"
  BY <1>1 DEF WaitersInLine
<1>3. UNCHANGED <<accepted, queue, wpc, hand>> /\ call' = Moved(Head(waiters), "send")
  BY DEF Grant, queueVars, workerVars
<1>4. NotYetAccepted'
  BY <1>2, <1>3 DEF NotYetAccepted, Moved
<1> QED
  BY <1>2, <1>3, <1>4 DEF HandEmpty, HandsDistinct

\* A receive moves the head of the queue into one hand, a release empties it.
LEMMA WorkerKeepsPlaced ==
  ASSUME PlacedInv, NEW w \in Workers, RunWorker(w)
  PROVE  HandEmpty' /\ NotYetAccepted' /\ HandsDistinct'
<1> USE PlacedTypes
<1>1. UNCHANGED <<call, accepted>>
  BY DEF RunWorker, Receive, Process, FlushFull, SubtractBytes, ReleaseBudget,
         TimerFires, QueueClosed, FlushNext, FlushAllDone, producerVars
<1>2. NotYetAccepted'
  BY <1>1 DEF NotYetAccepted
<1>3. CASE Receive(w)
  <2>1. /\ hand' = [hand EXCEPT ![w] = Head(queue)] /\ queue # <<>>
        /\ queue' = Tail(queue) /\ wpc[w] = "recv"
        /\ wpc' = [wpc EXCEPT ![w] = "process"]
    BY <1>3 DEF Receive
  <2>2. /\ ToSet(queue) = {Head(queue)} \cup ToSet(queue')
        /\ Head(queue) \notin ToSet(queue') /\ Distinct(queue')
    BY <2>1, ToSetTail DEF HandsDistinct
  <2>3. HandEmpty'
    BY <2>1 DEF HandEmpty
  <2>4. HandsDistinct'
    BY <1>1, <2>1, <2>2 DEF HandsDistinct
  <2> QED
    BY <1>2, <2>3, <2>4
<1>4. CASE ReleaseBudget(w)
  <2>1. /\ hand' = [hand EXCEPT ![w] = NoMessage] /\ UNCHANGED queue
        /\ wpc' = [wpc EXCEPT ![w] = "recv"]
    BY <1>4 DEF ReleaseBudget, queueVars
  <2>2. HandEmpty'
    BY <2>1 DEF HandEmpty
  <2>3. HandsDistinct'
    BY <1>1, <2>1 DEF HandsDistinct
  <2> QED
    BY <1>2, <2>2, <2>3
<1>5. CASE Process(w) \/ FlushFull(w) \/ SubtractBytes(w) \/ TimerFires(w)
           \/ QueueClosed(w) \/ FlushNext(w) \/ FlushAllDone(w)
  <2>1. UNCHANGED <<hand, queue>>
    BY <1>5 DEF Process, FlushFull, SubtractBytes, TimerFires, QueueClosed,
                FlushNext, FlushAllDone, queueVars
  <2>2. HandEmpty'
    BY <1>5, <2>1 DEF HandEmpty, Process, FlushFull, SubtractBytes, TimerFires,
                QueueClosed, FlushNext, FlushAllDone
  <2>3. HandsDistinct'
    BY <1>1, <2>1 DEF HandsDistinct
  <2> QED
    BY <1>2, <2>2, <2>3
<1> QED
  BY <1>3, <1>4, <1>5 DEF RunWorker

\* Close and the storage writers touch neither the calls nor the queue.
LEMMA OtherSteps ==
  ASSUME Close \/ (\E v \in Writers : RunWriter(v)) \/ UNCHANGED vars
  PROVE  /\ UNCHANGED producerVars /\ UNCHANGED budgetVars
         /\ UNCHANGED queueVars /\ UNCHANGED workerVars
  BY DEF Close, Stop, LockWait, CloseQueue, CloseBatches, Expire, CloseReturn,
         RunWriter, TakeBatch, WriterExit, WriteBatch, DropUnwritten, WriteSucceeds,
         WriteFails, WriteRejected, SetGauge, RecordStored, BackoffEnds, vars,
         producerVars, budgetVars, queueVars, workerVars

\* Every step keeps a message in one hand or in the queue.
LEMMA NextKeepsPlaced == PlacedInv /\ [Next]_vars => PlacedInv'
<1> SUFFICES ASSUME PlacedInv, [Next]_vars PROVE PlacedInv'
  OBVIOUS
<1>0. ChannelInv'
  BY NextKeepsChannel DEF PlacedInv
<1>1. CASE Close \/ (\E v \in Writers : RunWriter(v)) \/ UNCHANGED vars
  BY <1>0, <1>1, OtherSteps DEF PlacedInv, HandEmpty, NotYetAccepted, HandsDistinct,
     producerVars, queueVars, workerVars
<1> QED
  BY <1>0, <1>1, ProducerKeepsPlaced, GrantKeepsPlaced, WorkerKeepsPlaced
  DEF Next, Finished, PlacedInv

\* One message more, or one less, among those that hold bytes.
LEMMA HoldersAdd ==
  ASSUME HoldersExact, NEW m \in Messages, m \notin BudgetHolders,
         BudgetHolders' = BudgetHolders \cup {m}, cur' = cur + Weight[m]
  PROVE  HoldersExact'
<1> DEFINE H == BudgetHolders
<1>1. IsFiniteSet(H) /\ H \subseteq Messages /\ cur = SumOf(Weight, H)
  BY DEF HoldersExact
<1>2. \A x \in H \cup {m} : Weight[x] \in Int
  BY <1>1, ConstantTypes
<1> HIDE DEF H
<1>3. SumOf(Weight, H \cup {m}) = SumOf(Weight, H) + Weight[m]
  BY <1>1, <1>2, SumOfAdd DEF H
<1>4. IsFiniteSet(H \cup {m})
  BY <1>1, FS_AddElement
<1>5. BudgetHolders' = H \cup {m}
  BY DEF H
<1>6. cur' = SumOf(Weight, BudgetHolders')
  BY <1>1, <1>3, <1>5
<1>7. IsFiniteSet(BudgetHolders') /\ BudgetHolders' \subseteq Messages
  BY <1>1, <1>4, <1>5
<1> QED
  BY <1>6, <1>7 DEF HoldersExact

\* One message less among those that hold bytes: what it held is given back.
LEMMA HoldersRemove ==
  ASSUME HoldersExact, NEW m \in BudgetHolders,
         BudgetHolders' = BudgetHolders \ {m}, cur' = cur - Weight[m]
  PROVE  HoldersExact'
<1> DEFINE H == BudgetHolders
<1>1. IsFiniteSet(H) /\ H \subseteq Messages /\ cur = SumOf(Weight, H)
  BY DEF HoldersExact
<1>2. \A x \in H : Weight[x] \in Int
  BY <1>1, ConstantTypes
<1>3. m \in H /\ BudgetHolders' = H \ {m}
  OBVIOUS
<1> HIDE DEF H
<1>4. SumOf(Weight, H \ {m}) = SumOf(Weight, H) - Weight[m]
  BY <1>1, <1>2, <1>3, SumOfRemove
<1>5. IsFiniteSet(H \ {m})
  BY <1>1, FS_RemoveElement
<1>6. cur' = SumOf(Weight, BudgetHolders')
  BY <1>1, <1>3, <1>4
<1>7. IsFiniteSet(BudgetHolders') /\ BudgetHolders' \subseteq Messages
  BY <1>1, <1>3, <1>5
<1> QED
  BY <1>6, <1>7 DEF HoldersExact

\* The same messages hold the same bytes.
LEMMA HoldersSame ==
  ASSUME HoldersExact, BudgetHolders' = BudgetHolders, cur' = cur
  PROVE  HoldersExact'
  BY DEF HoldersExact

\* A call holds bytes from its acquisition to its send or its refusal.
LEMMA ProducerKeepsBudget ==
  ASSUME BudgetInv, NEW m \in Messages, Producer(m)
  PROVE  HoldersExact' /\ WaitersMustWait'
<1>p. PlacedInv /\ HoldersExact /\ WaitersMustWait
  BY DEF BudgetInv
<1> USE <1>p, PlacedTypes, ConstantTypes
<1> DEFINE Holding == {"trysend", "send"}
<1>1. UNCHANGED hand
  BY ProducerSteps DEF workerVars
<1>2. call[m] \notin {"added", "done"} =>
        m \notin ToSet(queue) /\ \A w \in Workers : hand[w] # m
  BY DEF NotYetAccepted, HandsDistinct
<1>3. ASSUME UNCHANGED queue, NEW pc \in CallState, call' = Moved(m, pc),
             call[m] \notin {"added", "done"}, pc \notin Holding,
             call[m] \notin Holding, cur' = cur
      PROVE  HoldersExact'
  <2>1. \A x \in Messages : call'[x] \in Holding <=> call[x] \in Holding
    BY <1>3 DEF Moved
  <2>2. BudgetHolders' = BudgetHolders
    BY <1>1, <1>3, <2>1 DEF BudgetHolders
  <2> QED
    BY <1>3, <2>2, HoldersSame
<1>4. ASSUME UNCHANGED queue, NEW pc \in Holding, call' = Moved(m, pc),
             call[m] \notin {"added", "done"} \cup Holding, Take(m)
      PROVE  HoldersExact'
  <2>1. \A x \in Messages : call'[x] \in Holding <=> x = m \/ call[x] \in Holding
    BY <1>4 DEF Moved
  <2>2. BudgetHolders' = BudgetHolders \cup {m}
    BY <1>1, <1>4, <2>1 DEF BudgetHolders
  <2>3. m \notin BudgetHolders
    BY <1>2, <1>4 DEF BudgetHolders
  <2> QED
    BY <1>4, <2>2, <2>3, HoldersAdd DEF Take
<1>5. ASSUME UNCHANGED queue, NEW pc \in CallState \ Holding, call' = Moved(m, pc),
             call[m] \in Holding, Release(m)
      PROVE  HoldersExact'
  <2>1. \A x \in Messages : call'[x] \in Holding <=> x # m /\ call[x] \in Holding
    BY <1>5 DEF Moved
  <2>2. BudgetHolders' = BudgetHolders \ {m} /\ m \in BudgetHolders
    BY <1>1, <1>2, <1>5, <2>1 DEF BudgetHolders
  <2> QED
    BY <1>5, <2>2, HoldersRemove DEF Release
<1>6. ASSUME Release(m) PROVE WaitersMustWait'
  BY <1>6 DEF Release, WaitersMustWait
<1>7. ASSUME UNCHANGED budgetVars PROVE WaitersMustWait' /\ cur' = cur
  BY <1>7 DEF budgetVars, WaitersMustWait
<1>8. ASSUME MayAcquire(m), Take(m) PROVE WaitersMustWait'
  <2>1. ~NextFits(cur', waiters')
    BY <1>8 DEF MayAcquire, Take, NextFits
  <2> QED
    BY <2>1 DEF WaitersMustWait
<1>9. CASE Enter(m)
  <2>1. UNCHANGED queue /\ UNCHANGED budgetVars
    BY <1>9 DEF Enter, queueVars
  <2> QED
    BY <1>3, <1>7, <1>9, <2>1 DEF Enter, CallState
<1>10. CASE TryAcquire(m)
  <2>1. UNCHANGED queue
    BY <1>10 DEF TryAcquire, queueVars
  <2>2. CASE MayAcquire(m)
    BY <1>4, <1>8, <1>10, <2>1, <2>2 DEF TryAcquire
  <2>3. CASE ~MayAcquire(m)
    BY <1>3, <1>7, <1>10, <2>1, <2>3 DEF TryAcquire, CallState
  <2> QED
    BY <2>2, <2>3
<1>11. CASE call[m] \in Holding /\ SendToQueue(m)
  <2>1. /\ queue' = Append(queue, m) /\ call' = Moved(m, "added")
        /\ UNCHANGED budgetVars
    BY <1>11 DEF SendToQueue
  <2>2. ToSet(queue') = ToSet(queue) \cup {m}
    BY <2>1, ToSetAppend
  <2>3. \A x \in Messages : call'[x] \in Holding <=> x # m /\ call[x] \in Holding
    BY <1>11, <2>1 DEF Moved
  <2>4. BudgetHolders' = BudgetHolders
    BY <1>1, <1>11, <2>2, <2>3 DEF BudgetHolders
  <2> QED
    BY <1>7, <2>1, <2>4, HoldersSame
<1>12. CASE TrySend(m) /\ ~SendToQueue(m)
  BY <1>5, <1>6, <1>12 DEF TrySend, CallState
<1>13. CASE Acquire(m)
  <2>1. UNCHANGED queue
    BY <1>13 DEF Acquire, queueVars
  <2>2. CASE MayAcquire(m)
    BY <1>4, <1>8, <1>13, <2>1, <2>2 DEF Acquire
  <2>3. CASE ~MayAcquire(m)
    <3>1. /\ call' = Moved(m, "wait") /\ cur' = cur /\ notifying' = notifying
          /\ waiters' = IF Weight[m] > QueueMaxBytes THEN waiters ELSE Append(waiters, m)
          /\ ~notifying /\ call[m] = "acquire"
      BY <1>13, <2>3 DEF Acquire
    <3>2. HoldersExact'
      BY <1>3, <2>1, <3>1 DEF CallState
    <3>3. CASE waiters' = waiters
      BY <3>1, <3>2, <3>3 DEF WaitersMustWait
    <3>4. CASE waiters' = Append(waiters, m)
      <4>1. CASE waiters = <<>>
        <5>1. Head(waiters') = m
          BY <3>4, <4>1
        <5>2. ~NextFits(cur, waiters')
          BY <2>3, <4>1, <5>1 DEF MayAcquire, NextFits
        <5> QED
          BY <3>1, <3>2, <5>2 DEF WaitersMustWait
      <4>2. CASE waiters # <<>>
        <5>1. Head(waiters') = Head(waiters)
          BY <3>4, <4>2
        <5>2. ~NextFits(cur, waiters')
          BY <3>1, <4>2, <5>1 DEF NextFits, WaitersMustWait
        <5> QED
          BY <3>1, <3>2, <5>2 DEF WaitersMustWait
      <4> QED
        BY <3>2, <4>1, <4>2
    <3> QED
      BY <3>1, <3>2, <3>3, <3>4
  <2> QED
    BY <2>2, <2>3
<1>14. CASE AddBytes(m)
  <2>1. UNCHANGED queue /\ UNCHANGED budgetVars /\ call[m] = "added" /\ call' = Moved(m, "done")
    BY <1>14 DEF AddBytes
  <2>2. \A x \in Messages : call'[x] \in Holding <=> call[x] \in Holding
    BY <2>1 DEF Moved
  <2>3. BudgetHolders' = BudgetHolders
    BY <1>1, <2>1, <2>2 DEF BudgetHolders
  <2> QED
    BY <1>7, <2>1, <2>3, HoldersSame
<1>15. CASE AbortEnqueue(m)
  <2>1. UNCHANGED queue /\ call' = Moved(m, "refused")
    BY <1>15 DEF AbortEnqueue, queueVars
  <2>2. CASE call[m] = "acquire" /\ UNCHANGED budgetVars
    BY <1>3, <1>7, <2>1, <2>2 DEF CallState
  <2>3. CASE call[m] = "send" /\ Release(m)
    BY <1>5, <1>6, <2>1, <2>3 DEF CallState
  <2>4. CASE call[m] = "wait" /\ LeaveLine(m)
    <3>1. cur' = cur
      BY <2>4 DEF LeaveLine
    <3>2. HoldersExact'
      BY <1>3, <2>1, <2>4, <3>1 DEF CallState
    <3>3. CASE UNCHANGED <<waiters, notifying>>
      BY <3>1, <3>2, <3>3 DEF WaitersMustWait
    <3>4. CASE \E i \in DOMAIN waiters :
                 /\ waiters[i] = m
                 /\ waiters' = RemoveAt(waiters, i)
                 /\ notifying' = WakesNext(i)
      <4>1. PICK i \in DOMAIN waiters : /\ waiters' = RemoveAt(waiters, i)
                                        /\ notifying' = WakesNext(i)
        BY <3>4
      <4>2. ~notifying /\ waiters # <<>> /\ i \in 1..Len(waiters) /\ Len(waiters) \in Nat
        BY <2>4 DEF LeaveLine
      <4>3. CASE i = 1
        <5>1. waiters' = Tail(waiters)
          BY <4>1, <4>2, <4>3 DEF RemoveAt
        <5> QED
          BY <3>1, <3>2, <4>1, <4>3, <5>1 DEF WakesNext, WaitersMustWait
      <4>4. CASE i # 1
        <5>1. /\ waiters' \in Seq(Messages) /\ Len(waiters') = Len(waiters) - 1
              /\ \A j \in 1..(Len(waiters) - 1) :
                   waiters'[j] = IF j < i THEN waiters[j] ELSE waiters[j + 1]
          BY <4>1, RemoveAtType
        <5>2. 1 \in 1..(Len(waiters) - 1) /\ 1 < i
          BY <4>2, <4>4
        <5>3. waiters'[1] = waiters[1]
          BY <5>1, <5>2
        <5>4. Head(waiters') = Head(waiters)
          BY <4>2, <5>1, <5>2, <5>3
        <5>5. NextFits(cur, waiters') => NextFits(cur, waiters)
          BY <4>2, <5>4 DEF NextFits
        <5> QED
          BY <3>1, <3>2, <4>2, <5>5 DEF WaitersMustWait
      <4> QED
        BY <4>3, <4>4
    <3> QED
      BY <2>4, <3>2, <3>3, <3>4 DEF LeaveLine
  <2> QED
    BY <1>15, <2>2, <2>3, <2>4 DEF AbortEnqueue
<1>16. CASE AccountRefused(m)
  <2>1. UNCHANGED queue /\ UNCHANGED budgetVars
    BY <1>16 DEF AccountRefused, queueVars
  <2> QED
    BY <1>3, <1>7, <1>16, <2>1 DEF AccountRefused, CallState
<1> QED
  BY <1>9, <1>10, <1>11, <1>12, <1>13, <1>14, <1>15, <1>16
  DEF Producer, TrySend, BlockingSend, CallerGone, WokenByStop

\* The first in line becomes a holder of its bytes.
LEMMA GrantKeepsBudget ==
  ASSUME BudgetInv, Grant
  PROVE  HoldersExact' /\ WaitersMustWait'
<1>p. PlacedInv /\ HoldersExact /\ WaitersMustWait
  BY DEF BudgetInv
<1> USE <1>p, PlacedTypes, ConstantTypes
<1> DEFINE m == Head(waiters)
           Holding == {"trysend", "send"}
<1>1. m \in Messages /\ call[m] = "wait"
  BY GrantKeepsPlaced
<1>2. /\ UNCHANGED <<queue, hand>> /\ call' = Moved(m, "send") /\ cur' = cur + Weight[m]
      /\ notifying' = NextFits(cur', waiters')
  BY DEF Grant, queueVars, workerVars
<1> HIDE DEF m
<1>3. m \notin ToSet(queue) /\ \A w \in Workers : hand[w] # m
  BY <1>1 DEF NotYetAccepted, HandsDistinct
<1>4. \A x \in Messages : call'[x] \in Holding <=> x = m \/ call[x] \in Holding
  BY <1>1, <1>2 DEF Moved
<1>5. BudgetHolders' = BudgetHolders \cup {m}
  BY <1>1, <1>2, <1>4 DEF BudgetHolders
<1>6. m \notin BudgetHolders
  BY <1>1, <1>3 DEF BudgetHolders
<1>7. HoldersExact'
  BY <1>1, <1>2, <1>5, <1>6, HoldersAdd
<1>8. WaitersMustWait'
  BY <1>2 DEF WaitersMustWait
<1> QED
  BY <1>7, <1>8

\* A worker's receive moves the bytes with the message, its release gives them back.
LEMMA WorkerKeepsBudget ==
  ASSUME BudgetInv, NEW w \in Workers, RunWorker(w)
  PROVE  HoldersExact' /\ WaitersMustWait'
<1>p. PlacedInv /\ HoldersExact /\ WaitersMustWait
  BY DEF BudgetInv
<1> USE <1>p, PlacedTypes, ConstantTypes
<1>1. UNCHANGED call
  BY DEF RunWorker, Receive, Process, FlushFull, SubtractBytes, ReleaseBudget,
         TimerFires, QueueClosed, FlushNext, FlushAllDone, producerVars
<1>2. CASE Receive(w)
  <2>1. /\ hand' = [hand EXCEPT ![w] = Head(queue)] /\ queue # <<>>
        /\ queue' = Tail(queue) /\ hand[w] = NoMessage /\ Head(queue) \in Messages
    BY <1>2 DEF Receive, HandEmpty
  <2>2. ToSet(queue) = {Head(queue)} \cup ToSet(queue')
    BY <2>1, ToSetTail
  <2>3. {hand'[x] : x \in Workers} \ {NoMessage} =
          ({hand[x] : x \in Workers} \ {NoMessage}) \cup {Head(queue)}
    <3> DEFINE h == Head(queue)
    <3>1. hand' = [hand EXCEPT ![w] = h] /\ h # NoMessage /\ hand[w] = NoMessage
      BY <2>1
    <3> HIDE DEF h
    <3>2. hand'[w] = h /\ \A x \in Workers : x # w => hand'[x] = hand[x]
      BY <3>1
    <3> QED
      BY <3>1, <3>2 DEF h
  <2>4. BudgetHolders' = BudgetHolders
    BY <1>1, <2>2, <2>3 DEF BudgetHolders
  <2>5. UNCHANGED <<cur, waiters, notifying>>
    BY <1>2 DEF Receive, budgetVars
  <2> QED
    BY <2>4, <2>5, HoldersSame DEF WaitersMustWait
<1>3. CASE ReleaseBudget(w)
  <2> DEFINE m == hand[w]
  <2>1. /\ hand' = [hand EXCEPT ![w] = NoMessage] /\ UNCHANGED queue
        /\ Release(m) /\ m \in Messages
    BY <1>3 DEF ReleaseBudget, queueVars
  <2>2. m \in accepted /\ m \notin ToSet(queue) /\ (\A x \in Workers : hand[x] = m => x = w)
    BY <2>1 DEF HandsDistinct
  <2>3. m \notin {x \in Messages : call[x] \in {"trysend", "send"}}
    BY <2>2 DEF NotYetAccepted
  <2>4. {hand'[x] : x \in Workers} \ {NoMessage} =
          ({hand[x] : x \in Workers} \ {NoMessage}) \ {m}
    <3>1. hand'[w] = NoMessage /\ \A x \in Workers : x # w => hand'[x] = hand[x]
      BY <2>1
    <3> QED
      BY <2>1, <2>2, <3>1
  <2>5. m \in {hand[x] : x \in Workers} \ {NoMessage}
    BY <2>1
  <2> HIDE DEF m
  <2>6. BudgetHolders' = BudgetHolders \ {m} /\ m \in BudgetHolders
    BY <1>1, <2>1, <2>2, <2>3, <2>4, <2>5 DEF BudgetHolders
  <2>7. HoldersExact'
    BY <2>1, <2>6, HoldersRemove DEF Release
  <2>8. WaitersMustWait'
    BY <2>1 DEF Release, WaitersMustWait
  <2> QED
    BY <2>7, <2>8
<1>4. CASE Process(w) \/ FlushFull(w) \/ SubtractBytes(w) \/ TimerFires(w)
           \/ QueueClosed(w) \/ FlushNext(w) \/ FlushAllDone(w)
  <2>1. UNCHANGED <<hand, queue, cur, waiters, notifying>>
    BY <1>4 DEF Process, FlushFull, SubtractBytes, TimerFires, QueueClosed,
                FlushNext, FlushAllDone, queueVars, budgetVars
  <2>2. BudgetHolders' = BudgetHolders
    BY <1>1, <2>1 DEF BudgetHolders
  <2> QED
    BY <2>1, <2>2, HoldersSame DEF WaitersMustWait
<1> QED
  BY <1>2, <1>3, <1>4 DEF RunWorker

\* Initially no bytes are taken.
LEMMA InitBudget == Init => BudgetInv
<1> SUFFICES ASSUME Init PROVE BudgetInv
  OBVIOUS
<1>1. BudgetHolders = {}
  BY DEF Init, BudgetHolders, ToSet
<1>2. HoldersExact
  BY <1>1, FS_EmptySet, SumOfEmpty DEF Init, HoldersExact
<1>3. WaitersMustWait
  BY DEF Init, NextFits, WaitersMustWait
<1> QED
  BY <1>2, <1>3, InitPlaced DEF BudgetInv

\* Every step keeps the budget at the weight of its holders.
LEMMA NextKeepsBudget == BudgetInv /\ [Next]_vars => BudgetInv'
<1> SUFFICES ASSUME BudgetInv, [Next]_vars PROVE BudgetInv'
  OBVIOUS
<1>0. PlacedInv'
  BY NextKeepsPlaced DEF BudgetInv
<1>1. CASE Close \/ (\E v \in Writers : RunWriter(v)) \/ UNCHANGED vars
  <2>1. UNCHANGED <<call, cur, waiters, notifying, queue, hand>>
    BY <1>1, OtherSteps DEF producerVars, budgetVars, queueVars, workerVars
  <2>2. BudgetHolders' = BudgetHolders
    BY <2>1 DEF BudgetHolders
  <2> QED
    BY <1>0, <2>1, <2>2, HoldersSame DEF BudgetInv, WaitersMustWait
<1> QED
  BY <1>0, <1>1, ProducerKeepsBudget, GrantKeepsBudget, WorkerKeepsBudget
  DEF Next, Finished, BudgetInv

\* The byte budget is the weight of the messages between Acquire and Release, for
\* any number of messages, workers and writers, and nobody waits for free bytes.
THEOREM BudgetNeverLeaks == Spec => []BudgetConserved
<1>1. BudgetInv => BudgetConserved
  <2> SUFFICES ASSUME BudgetInv PROVE BudgetConserved
    OBVIOUS
  <2>1. cur \in Int /\ waiters \in Seq(Messages)
    BY PlacedTypes DEF BudgetInv
  <2>2. waiters # <<>> /\ ~NextFits(cur, waiters) => cur + Weight[Head(waiters)] > QueueMaxBytes
    <3> SUFFICES ASSUME waiters # <<>>, ~NextFits(cur, waiters)
                 PROVE  cur + Weight[Head(waiters)] > QueueMaxBytes
      OBVIOUS
    <3>1. Weight[Head(waiters)] \in Nat /\ QueueMaxBytes \in Nat
      BY <2>1, ConstantTypes
    <3> QED
      BY <2>1, <3>1 DEF NextFits
  <2>3. cur = MapThenSumSet(LAMBDA m : Weight[m], BudgetHolders)
    BY DEF BudgetInv, HoldersExact, SumOf
  <2> QED
    BY <2>2, <2>3 DEF BudgetInv, WaitersMustWait, BudgetConserved
<1> QED
  BY <1>1, InitBudget, NextKeepsBudget, PTL DEF Spec

-----------------------------------------------------------------------------
(***************************************************************************)
(* Tenants.  A worker files a message under its tenant, so a batch is of   *)
(* one tenant when it is flushed and stays so in the writer's hands.       *)
(***************************************************************************)
OneTenant(s) == \A j, k \in 1..Len(s) : Tenant[s[j]] = Tenant[s[k]]

FiledByTenant ==
    \A w \in Workers, t \in Tenants :
        \A i \in 1..Len(batch[w][t]) : Tenant[batch[w][t][i]] = t

FlushedOneTenant ==
    \A i \in 1..Len(batches) : batches[i] # <<>> /\ OneTenant(batches[i])

WrittenOneTenant == \A v \in Writers : OneTenant(rows[v])

TenantInv == TypeInv /\ FiledByTenant /\ FlushedOneTenant /\ WrittenOneTenant

\* Initially there is no batch.
LEMMA InitTenant == Init => TenantInv
  BY InitType
  DEF Init, TenantInv, FiledByTenant, FlushedOneTenant, WrittenOneTenant, OneTenant

\* The steps of a worker on its batches: one message into the batch of its
\* tenant, or one batch to the writers.
LEMMA WorkerBatches ==
  ASSUME TypeInv, NEW w \in Workers, RunWorker(w)
  PROVE  /\ UNCHANGED producerVars /\ UNCHANGED closeVars
         /\ UNCHANGED writerVars /\ UNCHANGED outcomeVars
         /\ \/ UNCHANGED <<batch, batches>>
            \/ Process(w) /\ hand[w] \in Messages /\ BatchOf(hand[w]) \in Tenants
            \/ \E t \in Tenants : Flush(w, t)
<1>1. /\ UNCHANGED producerVars /\ UNCHANGED closeVars
      /\ UNCHANGED writerVars /\ UNCHANGED outcomeVars
  BY DEF RunWorker, Receive, Process, FlushFull, SubtractBytes, ReleaseBudget,
         TimerFires, QueueClosed, FlushNext, FlushAllDone
<1>2. ASSUME wpc[w] \in {"process", "flush"}
      PROVE  hand[w] \in Messages /\ BatchOf(hand[w]) \in Tenants
  BY <1>2, ConstantTypes DEF TypeInv, HandFull, BatchOf
<1>3. \/ UNCHANGED <<batch, batches>>
      \/ Process(w) /\ hand[w] \in Messages /\ BatchOf(hand[w]) \in Tenants
      \/ \E t \in Tenants : Flush(w, t)
  BY <1>2 DEF RunWorker, Receive, Process, FlushFull, SubtractBytes, ReleaseBudget,
         TimerFires, QueueClosed, FlushNext, FlushAllDone
<1> QED
  BY <1>1, <1>3

\* process files a message under its tenant, flush hands on one such batch.
LEMMA WorkerKeepsTenants ==
  ASSUME TenantInv, NEW w \in Workers, RunWorker(w)
  PROVE  FiledByTenant' /\ FlushedOneTenant' /\ WrittenOneTenant'
<1>t. /\ TypeInv /\ FiledByTenant /\ FlushedOneTenant /\ WrittenOneTenant
      /\ batch \in [Workers -> [Tenants -> Seq(Messages)]]
      /\ batches \in Seq(Seq(Messages))
  BY DEF TenantInv, TypeInv, TypeOK, WorkerType, BatchesType
<1>1. WrittenOneTenant'
  BY <1>t, WorkerBatches DEF WrittenOneTenant, writerVars
<1>2. CASE UNCHANGED <<batch, batches>>
  BY <1>t, <1>1, <1>2 DEF FiledByTenant, FlushedOneTenant
<1>3. CASE Process(w) /\ hand[w] \in Messages /\ BatchOf(hand[w]) \in Tenants
  <2> DEFINE m == hand[w]
             s == batch[w][Tenant[m]]
  <2>1. /\ batch' = [batch EXCEPT ![w][Tenant[m]] = Append(s, m)]
        /\ UNCHANGED batches /\ m \in Messages /\ Tenant[m] \in Tenants
    BY <1>3 DEF Process, BatchOf
  <2>2. s \in Seq(Messages) /\ \A i \in 1..Len(s) : Tenant[s[i]] = Tenant[m]
    BY <1>t, <2>1 DEF FiledByTenant
  <2> HIDE DEF m, s
  <2>3. /\ Len(Append(s, m)) = Len(s) + 1 /\ Len(s) \in Nat
        /\ \A i \in 1..Len(s) : Append(s, m)[i] = s[i]
        /\ Append(s, m)[Len(s) + 1] = m
    BY <2>1, <2>2, AppendProperties
  <2>4. ASSUME NEW i \in 1..Len(Append(s, m)) PROVE Tenant[Append(s, m)[i]] = Tenant[m]
    <3>1. i \in 1..Len(s) \/ i = Len(s) + 1
      BY <2>3
    <3> QED
      BY <2>2, <2>3, <3>1
  <2> DEFINE a == Append(s, m)
  <2>5. ASSUME NEW x \in Workers, NEW y \in Tenants, NEW i \in 1..Len(batch'[x][y])
        PROVE  Tenant[batch'[x][y][i]] = y
    <3>0. /\ batch' = [batch EXCEPT ![w][Tenant[m]] = a]
          /\ \A k \in 1..Len(a) : Tenant[a[k]] = Tenant[m]
      BY <2>1, <2>4
    <3> HIDE DEF a
    <3>1. CASE x = w /\ y = Tenant[m]
      <4>1. batch'[x][y] = a
        BY <1>t, <2>1, <3>0, <3>1
      <4> QED
        BY <3>0, <3>1, <4>1
    <3>2. CASE x # w \/ y # Tenant[m]
      <4>1. batch'[x][y] = batch[x][y]
        BY <1>t, <2>1, <3>0, <3>2
      <4> QED
        BY <1>t, <4>1 DEF FiledByTenant
    <3> QED
      BY <3>1, <3>2
  <2> QED
    BY <1>t, <1>1, <2>1, <2>5 DEF FiledByTenant, FlushedOneTenant
<1>4. ASSUME NEW t \in Tenants, Flush(w, t)
      PROVE  FiledByTenant' /\ FlushedOneTenant'
  <2> DEFINE s == batch[w][t]
  <2>1. /\ s # <<>> /\ s \in Seq(Messages) /\ OneTenant(s)
        /\ batches' = Append(batches, s) /\ batch' = [batch EXCEPT ![w][t] = <<>>]
    BY <1>t, <1>4 DEF Flush, FiledByTenant, OneTenant
  <2> HIDE DEF s
  <2>2. FiledByTenant'
    BY <1>t, <2>1 DEF FiledByTenant
  <2>3. /\ Len(batches') = Len(batches) + 1 /\ Len(batches) \in Nat
        /\ \A i \in 1..Len(batches) : batches'[i] = batches[i]
        /\ batches'[Len(batches) + 1] = s
    BY <1>t, <2>1, AppendProperties
  <2>4. \A i \in 1..Len(batches') : i \in 1..Len(batches) \/ i = Len(batches) + 1
    BY <2>3
  <2>5. FlushedOneTenant'
    BY <1>t, <2>1, <2>3, <2>4 DEF FlushedOneTenant
  <2> QED
    BY <2>2, <2>5
<1> QED
  BY <1>t, <1>1, <1>2, <1>3, <1>4, WorkerBatches

\* A writer takes a whole batch and never joins two.
LEMMA WriterKeepsTenants ==
  ASSUME TenantInv, NEW v \in Writers, RunWriter(v)
  PROVE  FiledByTenant' /\ FlushedOneTenant' /\ WrittenOneTenant'
<1>t. /\ TypeInv /\ FiledByTenant /\ FlushedOneTenant /\ WrittenOneTenant
      /\ batches \in Seq(Seq(Messages)) /\ rows \in [Writers -> Seq(Messages)]
  BY DEF TenantInv, TypeInv, TypeOK, BatchesType, WriterType
<1>1. FiledByTenant'
  BY <1>t, OtherSteps DEF workerVars, FiledByTenant
<1>2. CASE TakeBatch(v)
  <2>1. /\ rows' = [rows EXCEPT ![v] = Head(batches)] /\ batches # <<>>
        /\ batches' = Tail(batches)
    BY <1>2 DEF TakeBatch
  <2>2. /\ Len(batches) \in Nat /\ Len(batches) > 0 /\ Head(batches) = batches[1]
        /\ Len(batches') = Len(batches) - 1
        /\ \A i \in 1..Len(batches') : batches'[i] = batches[i + 1]
    BY <1>t, <2>1, HeadTailProperties
  <2>3. \A i \in 1..Len(batches') : i + 1 \in 1..Len(batches)
    BY <2>2
  <2>4. 1 \in 1..Len(batches)
    BY <2>2
  <2>5. FlushedOneTenant'
    BY <1>t, <2>2, <2>3 DEF FlushedOneTenant
  <2>6. OneTenant(Head(batches))
    BY <1>t, <2>2, <2>4 DEF FlushedOneTenant
  <2>7. WrittenOneTenant'
    BY <1>t, <2>1, <2>6 DEF WrittenOneTenant
  <2> QED
    BY <1>1, <2>5, <2>7
<1>3. CASE ~TakeBatch(v)
  <2>1. UNCHANGED batches
    BY <1>3 DEF RunWriter, WriterExit, WriteBatch, DropUnwritten, WriteSucceeds,
       WriteFails, WriteRejected, SetGauge, RecordStored, BackoffEnds
  <2>2. UNCHANGED rows \/ Return(v)
    BY <1>3 DEF RunWriter, WriterExit, WriteBatch, DropUnwritten, WriteSucceeds,
       WriteFails, WriteRejected, HandleRejected, Bisect, SetGauge, RecordStored,
       BackoffEnds
  <2>3. OneTenant(<<>>)
    BY DEF OneTenant
  <2>4. WrittenOneTenant'
    BY <1>t, <2>2, <2>3 DEF Return, WrittenOneTenant
  <2> QED
    BY <1>t, <1>1, <2>1, <2>4 DEF FlushedOneTenant
<1> QED
  BY <1>2, <1>3

\* Every step keeps tenants apart.
LEMMA NextKeepsTenant == TenantInv /\ [Next]_vars => TenantInv'
<1> SUFFICES ASSUME TenantInv, [Next]_vars PROVE TenantInv'
  OBVIOUS
<1>0. TypeInv'
  BY NextKeepsType DEF TenantInv
<1>1. CASE (\E m \in Messages : Producer(m)) \/ Grant \/ Close \/ UNCHANGED vars
  <2>1. UNCHANGED <<batch, batches, rows>>
    BY <1>1 DEF Producer, Enter, TryAcquire, TrySend, Acquire, BlockingSend, AddBytes,
       CallerGone, WokenByStop, AbortEnqueue, AccountRefused, Grant, Close, Stop,
       LockWait, CloseQueue, CloseBatches, Expire, CloseReturn, vars, workerVars,
       writerVars
  <2> QED
    BY <1>0, <2>1 DEF TenantInv, FiledByTenant, FlushedOneTenant, WrittenOneTenant
<1> QED
  BY <1>0, <1>1, WorkerKeepsTenants, WriterKeepsTenants DEF Next, Finished, TenantInv

\* The tenants of the rows of a batch are one set of at most one element.
LEMMA OneTenantCardinality ==
  ASSUME NEW s \in Seq(Messages), OneTenant(s)
  PROVE  /\ s # <<>> => Cardinality({Tenant[m] : m \in ToSet(s)}) = 1
         /\ Cardinality({Tenant[m] : m \in ToSet(s)}) <= 1
<1>1. CASE s = <<>>
  <2>1. {Tenant[m] : m \in ToSet(s)} = {}
    BY <1>1 DEF ToSet
  <2>2. Cardinality({}) = 0
    BY FS_EmptySet
  <2> DEFINE T == {Tenant[m] : m \in ToSet(s)}
  <2>3. Cardinality(T) = 0
    BY <2>1, <2>2
  <2>4. Cardinality(T) <= 1
    <3> HIDE DEF T
    <3> QED BY <2>3
  <2> QED
    BY <1>1, <2>4
<1>2. CASE s # <<>>
  <2>1. 1 \in 1..Len(s) /\ DOMAIN s = 1..Len(s)
    BY <1>2
  <2>2. {Tenant[m] : m \in ToSet(s)} = {Tenant[s[1]]}
    BY <2>1 DEF ToSet, OneTenant
  <2>3. Cardinality({Tenant[s[1]]}) = 1
    BY FS_Singleton
  <2> DEFINE T == {Tenant[m] : m \in ToSet(s)}
  <2>4. Cardinality(T) = 1
    BY <2>2, <2>3
  <2>5. Cardinality(T) <= 1
    <3> HIDE DEF T
    <3> QED BY <2>4
  <2> QED
    BY <2>4, <2>5
<1> QED
  BY <1>1, <1>2

\* Batches never mix tenants, in the batch queue and in the writers' hands.
THEOREM TenantsKeptApart == Spec => []TenantsSeparate
<1>1. TenantInv => TenantsSeparate
  <2> SUFFICES ASSUME TenantInv PROVE TenantsSeparate
    OBVIOUS
  <2>1. batches \in Seq(Seq(Messages)) /\ rows \in [Writers -> Seq(Messages)]
    BY DEF TenantInv, TypeInv, TypeOK, BatchesType, WriterType
  <2>2. \A i \in 1..Len(batches) : batches[i] \in Seq(Messages)
    BY <2>1
  <2> QED
    BY <2>1, <2>2, OneTenantCardinality
    DEF TenantInv, FlushedOneTenant, WrittenOneTenant, TenantsSeparate
<1> QED
  BY <1>1, InitTenant, NextKeepsTenant, PTL DEF Spec

-----------------------------------------------------------------------------
(***************************************************************************)
(* No row stays behind in a worker.  The flush timer is armed by the count *)
(* of pending rows, so that count has to be exact: it is the sum of the    *)
(* lengths of the worker's open batches.                                   *)
(***************************************************************************)
Open(w) == {t \in Tenants : batch[w][t] # <<>>}

RowsOf(w) == [t \in Tenants |-> Len(batch[w][t])]

PendingExact ==
    \A w \in Workers : IsFiniteSet(Open(w)) /\ pending[w] = SumOf(RowsOf(w), Open(w))

StrandedInv == PlacedInv /\ PendingExact /\ NoStrandedRows

\* Initially no row is pending and no timer is needed.
LEMMA InitStranded == Init => StrandedInv
<1> SUFFICES ASSUME Init PROVE StrandedInv
  OBVIOUS
<1>1. ASSUME NEW w \in Workers PROVE IsFiniteSet(Open(w)) /\ pending[w] = SumOf(RowsOf(w), Open(w))
  <2>1. Open(w) = {} /\ pending[w] = 0
    BY DEF Init, Open
  <2> QED
    BY <2>1, FS_EmptySet, SumOfEmpty
<1>2. NoStrandedRows
  BY DEF Init, NoStrandedRows
<1> QED
  BY <1>1, <1>2, InitPlaced DEF StrandedInv, PendingExact

\* A step of worker w changes nothing of another worker.
LEMMA OtherWorkersSame ==
  ASSUME TypeInv, NEW w \in Workers, RunWorker(w), NEW x \in Workers, x # w
  PROVE  /\ wpc'[x] = wpc[x] /\ hand'[x] = hand[x] /\ batch'[x] = batch[x]
         /\ pending'[x] = pending[x] /\ timerActive'[x] = timerActive[x]
         /\ draining'[x] = draining[x]
<1>1. /\ wpc \in [Workers -> WorkerState] /\ hand \in [Workers -> Messages \cup {NoMessage}]
      /\ batch \in [Workers -> [Tenants -> Seq(Messages)]]
      /\ pending \in [Workers -> Int] /\ timerActive \in [Workers -> BOOLEAN]
      /\ draining \in [Workers -> BOOLEAN]
  BY DEF TypeInv, TypeOK, WorkerType
<1>2. wpc'[x] = wpc[x] /\ hand'[x] = hand[x]
  BY <1>1 DEF RunWorker, Receive, Process, FlushFull, SubtractBytes, ReleaseBudget,
     TimerFires, QueueClosed, FlushNext, FlushAllDone
<1>3. batch'[x] = batch[x] /\ pending'[x] = pending[x]
  BY <1>1 DEF RunWorker, Receive, Process, FlushFull, SubtractBytes, ReleaseBudget,
     TimerFires, QueueClosed, FlushNext, FlushAllDone, Flush
<1>4. timerActive'[x] = timerActive[x]
  BY <1>1, Zenon DEF RunWorker, Receive, Process, FlushFull, SubtractBytes, ReleaseBudget,
     TimerFires, QueueClosed, FlushNext, FlushAllDone
<1>5. draining'[x] = draining[x]
  BY <1>1, Zenon DEF RunWorker, Receive, Process, FlushFull, SubtractBytes, ReleaseBudget,
     TimerFires, QueueClosed, FlushNext, FlushAllDone
<1> QED
  BY <1>2, <1>3, <1>4, <1>5

\* One more row in an open batch, and a flushed batch, in the count.
LEMMA ProcessKeepsCount ==
  ASSUME StrandedInv, NEW w \in Workers, Process(w)
  PROVE  IsFiniteSet(Open(w)') /\ pending'[w] = SumOf(RowsOf(w), Open(w))'
<1> DEFINE m == hand[w]
           t == BatchOf(m)
           b == Append(batch[w][t], m)
           r == RowsOf(w)
           q == RowsOf(w)'
           D == Open(w)
<1>1. /\ m \in Messages /\ t \in Tenants
      /\ batch \in [Workers -> [Tenants -> Seq(Messages)]] /\ pending \in [Workers -> Int]
      /\ batch' = [batch EXCEPT ![w][t] = b]
      /\ pending' = [pending EXCEPT ![w] = @ + 1]
  BY ConstantTypes DEF StrandedInv, PlacedInv, ChannelInv, TypeInv, TypeOK, WorkerType,
     HandFull, Process, BatchOf
<1>2. IsFiniteSet(D) /\ pending[w] = SumOf(r, D)
  BY DEF StrandedInv, PendingExact
<1>3. b # <<>> /\ Len(b) = Len(batch[w][t]) + 1 /\ Len(batch[w][t]) \in Nat
  BY <1>1
<1> HIDE DEF m, t, b
<1>4. batch'[w] = [batch[w] EXCEPT ![t] = b]
  BY <1>1
<1>5. batch'[w][t] = b /\ \A x \in Tenants : x # t => batch'[w][x] = batch[w][x]
  BY <1>1, <1>4
<1>6. Open(w)' = D \cup {t}
  BY <1>1, <1>3, <1>5 DEF Open
<1>7. \A x \in Tenants : r[x] \in Int /\ q[x] = Len(batch'[w][x]) /\ r[x] = Len(batch[w][x])
  BY <1>1 DEF RowsOf
<1>8. /\ q[t] = r[t] + 1 /\ r[t] \in Int /\ q[t] \in Int
      /\ t \notin D => r[t] = 0
      /\ \A x \in D : x # t => r[x] \in Int /\ q[x] = r[x]
  BY <1>1, <1>3, <1>5, <1>7 DEF Open
<1> HIDE DEF r, q, D
<1>a. \A x \in D : x # t => r[x] \in Int /\ q[x] = r[x]
  BY <1>8
<1>b. t \notin D => r[t] = 0
  BY <1>8
<1>c. q[t] \in Int /\ r[t] \in Int
  BY <1>8
<1> HIDE <1>8
<1>9. SumOf(q, D \cup {t}) = SumOf(r, D) + q[t] - r[t]
  BY <1>2, <1>a, <1>b, <1>c, SumOfUpdate
<1>10. SumOf(r, D) \in Int
  BY <1>1, <1>2
<1>11. SumOf(q, D \cup {t}) = SumOf(r, D) + 1
  BY <1>8, <1>9, <1>10
<1>12. pending'[w] = SumOf(q, D \cup {t})
  BY <1>1, <1>2, <1>11
<1>13. IsFiniteSet(D \cup {t})
  BY <1>2, FS_AddElement
<1> QED
  BY <1>6, <1>12, <1>13 DEF q

\* flush takes the rows of one batch from the count of pending rows.
LEMMA FlushKeepsCount ==
  ASSUME StrandedInv, NEW w \in Workers, NEW t \in Tenants, Flush(w, t)
  PROVE  IsFiniteSet(Open(w)') /\ pending'[w] = SumOf(RowsOf(w), Open(w))'
<1> DEFINE r == RowsOf(w)
           q == RowsOf(w)'
           D == Open(w)
<1>1. /\ batch \in [Workers -> [Tenants -> Seq(Messages)]] /\ pending \in [Workers -> Int]
      /\ batch' = [batch EXCEPT ![w][t] = <<>>] /\ batch[w][t] # <<>>
      /\ pending' = [pending EXCEPT ![w] = @ - Len(batch[w][t])]
  BY DEF StrandedInv, PlacedInv, ChannelInv, TypeInv, TypeOK, WorkerType, Flush
<1>2. IsFiniteSet(D) /\ pending[w] = SumOf(r, D)
  BY DEF StrandedInv, PendingExact
<1>3. batch'[w][t] = <<>> /\ \A x \in Tenants : x # t => batch'[w][x] = batch[w][x]
  BY <1>1
<1>4. Open(w)' = D \ {t} /\ t \in D
  BY <1>1, <1>3 DEF Open
<1>5. \A x \in Tenants : r[x] \in Int /\ q[x] = Len(batch'[w][x]) /\ r[x] = Len(batch[w][x])
  BY <1>1 DEF RowsOf
<1>6. /\ \A x \in D : r[x] \in Int
      /\ \A x \in D \ {t} : r[x] \in Int /\ r[x] = q[x]
  BY <1>3, <1>5 DEF Open
<1>7. r[t] = Len(batch[w][t])
  BY <1>5
<1> HIDE DEF r, q, D
<1>8. IsFiniteSet(D \ {t})
  BY <1>2, FS_RemoveElement
<1>9. SumOf(r, D \ {t}) = SumOf(r, D) - r[t]
  BY <1>2, <1>4, <1>6, SumOfRemove
<1>10. SumOf(r, D \ {t}) = SumOf(q, D \ {t})
  BY <1>6, <1>8, SumOfSame
<1>11. pending'[w] = SumOf(q, D \ {t})
  BY <1>1, <1>2, <1>7, <1>9, <1>10
<1> QED
  BY <1>4, <1>8, <1>11 DEF q

\* A worker that goes back to its select with rows pending has armed its timer.
LEMMA WorkerKeepsStranded ==
  ASSUME StrandedInv, NEW w \in Workers, RunWorker(w)
  PROVE  PendingExact' /\ NoStrandedRows'
<1>p. PlacedInv /\ PendingExact /\ NoStrandedRows
  BY DEF StrandedInv
<1>t. /\ batch \in [Workers -> [Tenants -> Seq(Messages)]] /\ pending \in [Workers -> Int]
      /\ timerActive \in [Workers -> BOOLEAN] /\ wpc \in [Workers -> WorkerState]
      /\ TypeInv
  BY <1>p DEF PlacedInv, ChannelInv, TypeInv, TypeOK, WorkerType
<1>1. ASSUME UNCHANGED batch, UNCHANGED pending
      PROVE  IsFiniteSet(Open(w)') /\ pending'[w] = SumOf(RowsOf(w), Open(w))'
  <2>1. Open(w)' = Open(w) /\ RowsOf(w)' = RowsOf(w)
    BY <1>1 DEF Open, RowsOf
  <2> QED
    BY <1>p, <1>1, <2>1 DEF PendingExact
<1>2. ASSUME FlushAllDone(w)
      PROVE  IsFiniteSet(Open(w)') /\ pending'[w] = SumOf(RowsOf(w), Open(w))'
  <2>1. /\ \A t \in Tenants : batch[w][t] = <<>>
        /\ UNCHANGED batch /\ pending' = [pending EXCEPT ![w] = 0]
    BY <1>2 DEF FlushAllDone
  <2>2. Open(w)' = {} /\ pending'[w] = 0
    BY <1>t, <2>1 DEF Open
  <2>3. SumOf(RowsOf(w), Open(w))' = 0
    BY <2>2, SumOfEmpty
  <2> QED
    BY <2>2, <2>3, FS_EmptySet
<1>3. IsFiniteSet(Open(w)') /\ pending'[w] = SumOf(RowsOf(w), Open(w))'
  <2>1. CASE Process(w)
    BY <2>1, ProcessKeepsCount
  <2>2. CASE \E t \in Tenants : Flush(w, t)
    BY <2>2, FlushKeepsCount
  <2>3. CASE ~Process(w) /\ ~FlushAllDone(w) /\ ~\E t \in Tenants : Flush(w, t)
    <3>1. UNCHANGED batch /\ UNCHANGED pending
      <4>1. wpc[w] = "flush" => BatchOf(hand[w]) \in Tenants
        BY <1>t, ConstantTypes DEF TypeInv, HandFull, BatchOf
      <4> QED
        BY <2>3, <4>1 DEF RunWorker, Receive, FlushFull, SubtractBytes, ReleaseBudget,
           TimerFires, QueueClosed, FlushNext
    <3> QED
      BY <1>1, <3>1
  <2> QED
    BY <1>2, <2>1, <2>2, <2>3
<1>4. PendingExact'
  <2>1. ASSUME NEW x \in Workers
        PROVE  (IsFiniteSet(Open(x)) /\ pending[x] = SumOf(RowsOf(x), Open(x)))'
    <3>1. CASE x = w
      BY <1>3, <3>1
    <3>2. CASE x # w
      <4>1. batch'[x] = batch[x] /\ pending'[x] = pending[x]
        BY <1>t, <3>2, OtherWorkersSame
      <4>2. Open(x)' = Open(x) /\ RowsOf(x)' = RowsOf(x)
        BY <4>1 DEF Open, RowsOf
      <4> QED
        BY <1>p, <4>1, <4>2 DEF PendingExact
    <3> QED
      BY <3>1, <3>2
  <2> QED
    BY <2>1 DEF PendingExact
<1> DEFINE Quiet(x) ==
       /\ wpc[x] = "recv" /\ (\E t \in Tenants : batch[x][t] # <<>>) => timerActive[x]
       /\ wpc[x] = "exit" => hand[x] = NoMessage /\ \A t \in Tenants : batch[x][t] = <<>>
<1>5. ASSUME NEW x \in Workers, x # w PROVE Quiet(x)'
  <2>1. /\ wpc'[x] = wpc[x] /\ hand'[x] = hand[x] /\ batch'[x] = batch[x]
        /\ timerActive'[x] = timerActive[x]
    BY <1>t, <1>5, OtherWorkersSame
  <2>2. Quiet(x)
    BY <1>p DEF NoStrandedRows
  <2> QED
    BY <2>1, <2>2
<1>6. Quiet(w)'
  <2>1. CASE ReleaseBudget(w)
    <3>1. /\ wpc'[w] = "recv" /\ timerActive'[w] = (pending[w] > 0)
          /\ UNCHANGED batch
      BY <1>t, <2>1 DEF ReleaseBudget, TimerNeeded
    <3>2. ASSUME NEW t \in Tenants, batch[w][t] # <<>> PROVE pending[w] > 0
      <4> DEFINE r == RowsOf(w)
                 D == Open(w)
      <4>1. /\ IsFiniteSet(D) /\ pending[w] = SumOf(r, D) /\ t \in D
            /\ \A x \in D : r[x] \in Nat
            /\ r[t] \in Nat /\ r[t] # 0
        <5>1. IsFiniteSet(D) /\ pending[w] = SumOf(r, D)
          BY <1>p DEF PendingExact
        <5>2. t \in D /\ \A x \in D : x \in Tenants
          BY <3>2 DEF Open
        <5>3. \A x \in Tenants : batch[w][x] \in Seq(Messages) /\ r[x] = Len(batch[w][x])
          BY <1>t DEF RowsOf
        <5>4. \A x \in Tenants : r[x] \in Nat
          BY <5>3
        <5>5. r[t] # 0
          BY <3>2, <5>3
        <5> QED
          BY <5>1, <5>2, <5>4, <5>5
      <4> HIDE DEF r, D
      <4>2. SumOf(r, D) \in Nat /\ SumOf(r, D) >= r[t]
        BY <4>1, SumOfNat
      <4> QED
        BY <4>1, <4>2
    <3>3. (\E t \in Tenants : batch'[w][t] # <<>>) => timerActive'[w]
      BY <3>1, <3>2
    <3> QED
      BY <3>1, <3>3
  <2>2. CASE FlushAllDone(w)
    <3>1. \A t \in Tenants : batch'[w][t] = <<>>
      BY <2>2 DEF FlushAllDone
    <3>2. hand'[w] = NoMessage
      BY <1>p, <2>2 DEF FlushAllDone, PlacedInv, HandEmpty
    <3> QED
      BY <3>1, <3>2
  <2>3. CASE ~ReleaseBudget(w) /\ ~FlushAllDone(w)
    <3>1. wpc'[w] \notin {"recv", "exit"}
      BY <1>t, <2>3 DEF RunWorker, Receive, Process, FlushFull, SubtractBytes,
         TimerFires, QueueClosed, AfterQueueClosed, FlushNext
    <3> QED
      BY <3>1
  <2> QED
    BY <2>1, <2>2, <2>3
<1>7. \A x \in Workers : Quiet(x)'
  BY <1>5, <1>6
<1> QED
  BY <1>4, <1>7 DEF NoStrandedRows

\* Every step keeps the count of each worker's pending rows exact.
LEMMA NextKeepsStranded == StrandedInv /\ [Next]_vars => StrandedInv'
<1> SUFFICES ASSUME StrandedInv, [Next]_vars PROVE StrandedInv'
  OBVIOUS
<1>0. PlacedInv'
  BY NextKeepsPlaced DEF StrandedInv
<1>1. CASE ~\E w \in Workers : RunWorker(w)
  <2>1. UNCHANGED <<wpc, hand, batch, pending, timerActive, draining>>
    BY <1>1, OtherSteps
    DEF Next, Finished, Producer, Enter, TryAcquire, TrySend, Acquire, BlockingSend,
       AddBytes, CallerGone, WokenByStop, AbortEnqueue, AccountRefused, Grant, vars,
       workerVars
  <2>2. PendingExact'
    BY <2>1 DEF StrandedInv, PendingExact, Open, RowsOf
  <2>3. NoStrandedRows'
    BY <2>1 DEF StrandedInv, NoStrandedRows
  <2> QED
    BY <1>0, <2>2, <2>3 DEF StrandedInv
<1> QED
  BY <1>0, <1>1, WorkerKeepsStranded DEF StrandedInv

-----------------------------------------------------------------------------
(***************************************************************************)
(* Accounting.  From its acceptance until it is counted a message is in    *)
(* exactly one place: the queue, a worker that has not parsed it yet, an   *)
(* open batch, the batch queue, or the rows a writer has not done with.    *)
(***************************************************************************)
Working(v) == rpc[v] \notin {"recv", "exit"}

Unwritten(v) ==
    IF Working(v) THEN {rows[v][j] : j \in (Lo(v) + 1)..Len(rows[v])} ELSE {}

InHand(w) == IF wpc[w] = "process" THEN {hand[w]} ELSE {}

InBatches == {m \in Messages : \E i \in 1..Len(batches) : m \in ToSet(batches[i])}

At(m, p) ==
    \/ p = <<"queue">> /\ m \in ToSet(queue)
    \/ \E w \in Workers : p = <<"hand", w>> /\ m \in InHand(w)
    \/ \E w \in Workers, t \in Tenants : p = <<"batch", w, t>> /\ m \in ToSet(batch[w][t])
    \/ p = <<"batches">> /\ m \in InBatches
    \/ \E v \in Writers : p = <<"writer", v>> /\ m \in Unwritten(v)
    \/ p = <<"counted">> /\ m \in Messages /\ ledger[m] # <<>>

OnePlace == \A m, p, q : At(m, p) /\ At(m, q) => p = q

Somewhere == \A m \in accepted : \E p : At(m, p)

AcceptedOnly == \A m, p : At(m, p) /\ p # <<"counted">> => m \in accepted

PlacesInv == OnePlace /\ Somewhere /\ AcceptedOnly

\* A step takes the messages X to place p and leaves the others where they are.
Takes(X, p) ==
    \A m, q : IF m \in X THEN At(m, q)' <=> q = p ELSE At(m, q)' <=> At(m, q)

\* Moving messages that are accepted, or counting them, keeps each in one place.
LEMMA TakesKeepsPlaces ==
  ASSUME PlacesInv, NEW X, NEW p, Takes(X, p),
         X \subseteq accepted' \/ p = <<"counted">>,
         accepted \subseteq accepted', accepted' \subseteq accepted \cup X
  PROVE  PlacesInv'
<1>1. OnePlace'
  BY DEF PlacesInv, OnePlace, Takes
<1>2. Somewhere'
  BY DEF PlacesInv, Somewhere, Takes
<1>3. AcceptedOnly'
  BY DEF PlacesInv, AcceptedOnly, Takes
<1> QED
  BY <1>1, <1>2, <1>3 DEF PlacesInv

\* What a message is at, place by place.
LEMMA AtPlace ==
  ASSUME NEW m
  PROVE  /\ At(m, <<"queue">>) <=> m \in ToSet(queue)
         /\ \A w \in Workers : At(m, <<"hand", w>>) <=> m \in InHand(w)
         /\ \A w \in Workers, t \in Tenants : At(m, <<"batch", w, t>>) <=> m \in ToSet(batch[w][t])
         /\ At(m, <<"batches">>) <=> m \in InBatches
         /\ \A v \in Writers : At(m, <<"writer", v>>) <=> m \in Unwritten(v)
         /\ At(m, <<"counted">>) <=> m \in Messages /\ ledger[m] # <<>>
  BY DEF At

\* A step that leaves every place alone.
LEMMA SamePlaces ==
  ASSUME ToSet(queue)' = ToSet(queue), \A w \in Workers : InHand(w)' = InHand(w),
         UNCHANGED batch, UNCHANGED batches,
         \A v \in Writers : Unwritten(v)' = Unwritten(v), UNCHANGED ledger
  PROVE  Takes({}, <<"counted">>)
<1>1. InBatches' = InBatches
  BY DEF InBatches
<1> QED
  BY <1>1 DEF Takes, At

\* One message enters the queue, or is counted without having been accepted.
LEMMA EntersQueue ==
  ASSUME NEW m, \A q : ~At(m, q), ToSet(queue)' = ToSet(queue) \cup {m},
         \A w \in Workers : InHand(w)' = InHand(w),
         UNCHANGED batch, UNCHANGED batches,
         \A v \in Writers : Unwritten(v)' = Unwritten(v), UNCHANGED ledger
  PROVE  Takes({m}, <<"queue">>)
<1>1. InBatches' = InBatches
  BY DEF InBatches
<1> QED
  BY <1>1 DEF Takes, At

\* A message that is nowhere is counted: a producer refused it.
LEMMA CountedOutside ==
  ASSUME NEW m \in Messages, \A q : ~At(m, q),
         UNCHANGED <<queue, batch, batches>>,
         \A w \in Workers : InHand(w)' = InHand(w),
         \A v \in Writers : Unwritten(v)' = Unwritten(v),
         ledger'[m] # <<>>, \A x \in Messages : x # m => ledger'[x] = ledger[x]
  PROVE  Takes({m}, <<"counted">>)
<1>1. InBatches' = InBatches
  BY DEF InBatches
<1> QED
  BY <1>1 DEF Takes, At

\* The ranges a writer still has to write follow each other up to the end of
\* the batch, so that what it has not done with is everything from Lo on.
Chain(v) ==
    /\ \A i \in 1..Len(ranges[v]) : ranges[v][i][1] <= ranges[v][i][2]
    /\ \A i \in 1..(Len(ranges[v]) - 1) : ranges[v][i][2] = ranges[v][i + 1][1]
    /\ ranges[v][Len(ranges[v])][2] = Len(rows[v])

RowsInOrder == \A v \in Writers : Distinct(rows[v]) /\ (Working(v) => Chain(v))

\* The current range of a writer lies in its rows, where the next range begins.
LEMMA WriterFacts ==
  ASSUME TypeInv, RowsInOrder, NEW v \in Writers, Working(v)
  PROVE  /\ rows[v] \in Seq(Messages) /\ Len(rows[v]) \in Nat
         /\ Lo(v) \in Nat /\ Hi(v) \in Nat /\ Lo(v) <= Hi(v) /\ Hi(v) <= Len(rows[v])
         /\ Len(ranges[v]) \in Nat /\ Len(ranges[v]) >= 1
         /\ ranges[v] \in Seq(Nat \X Nat)
         /\ ranges[v][1] = <<Lo(v), Hi(v)>>
         /\ Len(ranges[v]) = 1 => Hi(v) = Len(rows[v])
         /\ Len(ranges[v]) # 1 => ranges[v][2][1] = Hi(v)
         /\ InRange(v) = {rows[v][j] : j \in (Lo(v) + 1)..Hi(v)}
<1>1. /\ ranges[v] \in Seq(Nat \X Nat) /\ ranges[v] # <<>>
      /\ Lo(v) \in Nat /\ Hi(v) \in Nat /\ Hi(v) <= Len(rows[v])
  BY RangeType DEF Working
<1>2. rows[v] \in Seq(Messages)
  BY DEF TypeInv, TypeOK, WriterType
<1>3. Len(ranges[v]) \in Nat /\ Len(ranges[v]) >= 1 /\ Head(ranges[v]) = ranges[v][1]
  BY <1>1
<1>4. ranges[v][1] \in Nat \X Nat
  BY <1>1, <1>3
<1>5. ranges[v][1] = <<Lo(v), Hi(v)>> /\ ranges[v][1][1] = Lo(v) /\ ranges[v][1][2] = Hi(v)
  BY <1>3, <1>4 DEF Lo, Hi
<1>6. Chain(v)
  BY DEF RowsInOrder
<1>7. Lo(v) <= Hi(v)
  BY <1>3, <1>5, <1>6 DEF Chain
<1>8. Len(ranges[v]) = 1 => Hi(v) = Len(rows[v])
  BY <1>5, <1>6 DEF Chain
<1>9. Len(ranges[v]) # 1 => ranges[v][2][1] = Hi(v)
  <2> DEFINE n == Len(ranges[v])
  <2>1. n \in Nat /\ n >= 1
    BY <1>3
  <2>2. \A i \in 1..(n - 1) : ranges[v][i][2] = ranges[v][i + 1][1]
    BY <1>6 DEF Chain
  <2> HIDE DEF n
  <2>3. n # 1 => 1 \in 1..(n - 1) /\ 1 + 1 = 2
    BY <2>1
  <2>4. n # 1 => ranges[v][2][1] = Hi(v)
    BY <1>5, <2>2, <2>3
  <2> QED
    BY <2>4 DEF n
<1>10. InRange(v) = {rows[v][j] : j \in (Lo(v) + 1)..Hi(v)}
  <2> DEFINE s == SubSeq(rows[v], Lo(v) + 1, Hi(v))
  <2>1. /\ Len(s) = Hi(v) - Lo(v) /\ DOMAIN s = 1..(Hi(v) - Lo(v))
        /\ \A i \in 1..(Hi(v) - Lo(v)) : s[i] = rows[v][Lo(v) + i]
    <3>1. \A i \in (Lo(v) + 1)..Hi(v) : rows[v][i] \in Messages
      BY <1>1, <1>2
    <3>2. /\ s \in Seq(Messages)
          /\ Len(s) = IF Lo(v) + 1 <= Hi(v) THEN Hi(v) - (Lo(v) + 1) + 1 ELSE 0
          /\ \A i \in 1..(Hi(v) - (Lo(v) + 1) + 1) : s[i] = rows[v][Lo(v) + 1 + i - 1]
      <4> DEFINE a == Lo(v) + 1
                 b == Hi(v)
                 q == rows[v]
      <4>1. a \in Int /\ b \in Int /\ \A i \in a..b : q[i] \in Messages
        BY <1>1, <3>1
      <4> HIDE DEF a, b, q
      <4>2. /\ SubSeq(q, a, b) \in Seq(Messages)
            /\ Len(SubSeq(q, a, b)) = IF a <= b THEN b - a + 1 ELSE 0
            /\ \A i \in 1..(b - a + 1) : SubSeq(q, a, b)[i] = q[a + i - 1]
        BY <4>1, SubSeqProperties
      <4> QED
        BY <4>2 DEF a, b, q
    <3> HIDE DEF s
    <3>3. Len(s) = Hi(v) - Lo(v)
      BY <1>1, <1>7, <3>2
    <3>4. DOMAIN s = 1..(Hi(v) - Lo(v))
      BY <3>2, <3>3
    <3>5. ASSUME NEW i \in 1..(Hi(v) - Lo(v)) PROVE s[i] = rows[v][Lo(v) + i]
      <4>1. i \in 1..(Hi(v) - (Lo(v) + 1) + 1) /\ Lo(v) + 1 + i - 1 = Lo(v) + i
        BY <1>1
      <4> QED
        BY <3>2, <4>1
    <3> QED
      BY <3>3, <3>4, <3>5
  <2>2. ToSet(s) = {s[i] : i \in 1..(Hi(v) - Lo(v))}
    BY <2>1 DEF ToSet
  <2> HIDE DEF s
  <2>3. \A j \in (Lo(v) + 1)..Hi(v) : j - Lo(v) \in 1..(Hi(v) - Lo(v)) /\ Lo(v) + (j - Lo(v)) = j
    BY <1>1
  <2>4. \A i \in 1..(Hi(v) - Lo(v)) : Lo(v) + i \in (Lo(v) + 1)..Hi(v)
    BY <1>1
  <2>5. ASSUME NEW x \in ToSet(s) PROVE x \in {rows[v][j] : j \in (Lo(v) + 1)..Hi(v)}
    BY <2>1, <2>2, <2>4
  <2>6. ASSUME NEW j \in (Lo(v) + 1)..Hi(v) PROVE rows[v][j] \in ToSet(s)
    <3>1. s[j - Lo(v)] = rows[v][j]
      BY <2>1, <2>3
    <3> QED
      BY <2>2, <2>3, <3>1
  <2> QED
    BY <2>5, <2>6 DEF InRange, s
<1> QED
  BY <1>1, <1>2, <1>3, <1>5, <1>7, <1>8, <1>9, <1>10

\* Returning from a range takes its rows, and only those, from the writer.
LEMMA ReturnTakesRange ==
  ASSUME TypeInv, RowsInOrder, NEW v \in Writers, Working(v), Return(v)
  PROVE  /\ InRange(v) \subseteq Unwritten(v)
         /\ Unwritten(v)' = Unwritten(v) \ InRange(v)
         /\ \A x \in Writers : x # v => Unwritten(x)' = Unwritten(x)
         /\ RowsInOrder'
<1> USE WriterFacts
<1>t. /\ rpc \in [Writers -> WriterState] /\ rows \in [Writers -> Seq(Messages)]
      /\ ranges \in [Writers -> Seq(Nat \X Nat)]
  BY DEF TypeInv, TypeOK, WriterType
<1> DEFINE U(a, b) == {rows[v][j] : j \in (a + 1)..b}
<1>1. Unwritten(v) = U(Lo(v), Len(rows[v])) /\ InRange(v) = U(Lo(v), Hi(v))
  BY DEF Unwritten
<1>2. InRange(v) \subseteq Unwritten(v)
  <2>1. \A j \in (Lo(v) + 1)..Hi(v) : j \in (Lo(v) + 1)..Len(rows[v])
    OBVIOUS
  <2> QED
    BY <1>1, <2>1
<1>3. U(Hi(v), Len(rows[v])) = U(Lo(v), Len(rows[v])) \ U(Lo(v), Hi(v))
  <2>1. \A j \in (Lo(v) + 1)..Len(rows[v]) : j \in (Lo(v) + 1)..Hi(v) \/ j \in (Hi(v) + 1)..Len(rows[v])
    OBVIOUS
  <2>2. \A j \in (Hi(v) + 1)..Len(rows[v]) : j \in (Lo(v) + 1)..Len(rows[v]) /\ j \notin (Lo(v) + 1)..Hi(v)
    OBVIOUS
  <2>3. \A i \in (Lo(v) + 1)..Hi(v) : i \in 1..Len(rows[v])
    OBVIOUS
  <2>4. \A i \in (Hi(v) + 1)..Len(rows[v]) : i \in 1..Len(rows[v])
    OBVIOUS
  <2>5. \A i, j \in 1..Len(rows[v]) : rows[v][i] = rows[v][j] => i = j
    BY DEF RowsInOrder, Distinct
  <2>6. ASSUME NEW x \in U(Hi(v), Len(rows[v])) PROVE x \in U(Lo(v), Len(rows[v])) \ U(Lo(v), Hi(v))
    <3>1. PICK j \in (Hi(v) + 1)..Len(rows[v]) : x = rows[v][j]
      OBVIOUS
    <3>2. x \in U(Lo(v), Len(rows[v]))
      BY <2>2, <3>1
    <3>3. ASSUME NEW i \in (Lo(v) + 1)..Hi(v), x = rows[v][i] PROVE FALSE
      BY <2>2, <2>3, <2>4, <2>5, <3>1, <3>3
    <3> QED
      BY <3>2, <3>3
  <2>7. ASSUME NEW x \in U(Lo(v), Len(rows[v])) \ U(Lo(v), Hi(v)) PROVE x \in U(Hi(v), Len(rows[v]))
    BY <2>1
  <2> QED
    BY <2>6, <2>7
<1>4. \A x \in Writers : x # v => /\ rpc'[x] = rpc[x] /\ rows'[x] = rows[x]
                                  /\ ranges'[x] = ranges[x]
  BY <1>t DEF Return
<1>5. \A x \in Writers : x # v => Unwritten(x)' = Unwritten(x)
  <2> SUFFICES ASSUME NEW x \in Writers, x # v PROVE Unwritten(x)' = Unwritten(x)
    OBVIOUS
  <2>1. Working(x)' = Working(x) /\ Lo(x)' = Lo(x) /\ rows'[x] = rows[x]
    BY <1>4 DEF Working, Lo
  <2> QED
    BY <2>1 DEF Unwritten
<1>r. ASSUME Distinct(rows'[v]), Working(v)' => Chain(v)'
      PROVE  RowsInOrder'
  <2>1. ASSUME NEW x \in Writers, x # v PROVE Distinct(rows'[x]) /\ (Working(x)' => Chain(x)')
    <3>1. Distinct(rows[x]) /\ (Working(x) => Chain(x))
      BY DEF RowsInOrder
    <3>2. Working(x)' = Working(x)
      BY <1>4, <2>1 DEF Working
    <3>3. Chain(x) => Chain(x)'
      BY <1>4, <2>1 DEF Chain
    <3> QED
      BY <1>4, <2>1, <3>1, <3>2, <3>3
  <2> QED
    BY <1>r, <2>1 DEF RowsInOrder
<1>6. CASE Len(ranges[v]) = 1
  <2>1. rpc'[v] = "recv" /\ rows'[v] = <<>>
    BY <1>t, <1>6 DEF Return
  <2>2. Unwritten(v)' = {} /\ ~Working(v)'
    BY <2>1 DEF Unwritten, Working
  <2>3. Unwritten(v) \ InRange(v) = {}
    BY <1>1, <1>6
  <2>4. Distinct(rows'[v])
    BY <2>1 DEF Distinct
  <2>5. RowsInOrder'
    BY <1>r, <2>2, <2>4
  <2> QED
    BY <1>2, <1>5, <2>2, <2>3, <2>5
<1>7. CASE Len(ranges[v]) # 1
  <2> DEFINE r == ranges[v]
             n == Len(r)
  <2>1. rpc'[v] = "write" /\ rows'[v] = rows[v] /\ ranges'[v] = Tail(r)
    BY <1>t, <1>7 DEF Return
  <2>2. /\ n \in Nat /\ n >= 2 /\ Len(Tail(r)) = n - 1
        /\ \A i \in 1..(n - 1) : Tail(r)[i] = r[i + 1]
    <3>1. n \in Nat /\ n >= 1 /\ n # 1 /\ r \in Seq(Nat \X Nat) /\ r # <<>>
      BY <1>7
    <3>2. n >= 2
      <4> HIDE DEF n
      <4> QED BY <3>1
    <3> QED
      BY <3>1, <3>2, HeadTailProperties
  <2>3. Tail(r) \in Seq(Nat \X Nat) /\ Head(Tail(r)) = r[2] /\ r[2][1] = Hi(v)
    <3>1. Tail(r) \in Seq(Nat \X Nat) /\ Tail(r) # <<>>
      <4>1. r \in Seq(Nat \X Nat) /\ r # <<>>
        BY <2>2
      <4>2. Tail(r) \in Seq(Nat \X Nat)
        BY <4>1
      <4> DEFINE u == Tail(r)
                 k == Len(u)
      <4>3. k = n - 1
        BY <2>2
      <4> HIDE DEF u, k, n
      <4>4. k # 0
        BY <2>2, <4>3
      <4>5. u # <<>>
        BY <4>4 DEF k
      <4> QED
        BY <4>2, <4>5 DEF u
    <3>2. Head(Tail(r)) = Tail(r)[1]
      BY <3>1
    <3>3. 1 \in 1..(n - 1) /\ 1 + 1 = 2
      BY <2>2
    <3>4. Tail(r)[1] = r[2]
      BY <2>2, <3>3
    <3> QED
      BY <1>7, <3>1, <3>2, <3>4
  <2>4. Working(v)' /\ Lo(v)' = Hi(v)
    BY <2>1, <2>3 DEF Working, Lo
  <2>5. Unwritten(v)' = U(Hi(v), Len(rows[v]))
    BY <2>1, <2>4 DEF Unwritten
  <2>6. Chain(v)'
    <3>1. /\ \A i \in 1..n : r[i][1] <= r[i][2]
          /\ \A i \in 1..(n - 1) : r[i][2] = r[i + 1][1]
          /\ r[n][2] = Len(rows[v])
      BY DEF RowsInOrder, Chain
    <3> DEFINE u == Tail(r)
    <3>2. Len(u) = n - 1 /\ \A i \in 1..(n - 1) : u[i] = r[i + 1]
      BY <2>2
    <3>3. ranges'[v] = u /\ rows'[v] = rows[v]
      BY <2>1
    <3> HIDE DEF u, r, n
    <3>4. \A i \in 1..(n - 1) : i + 1 \in 1..n
      BY <2>2
    <3>5. \A i \in 1..(n - 2) : i \in 1..(n - 1) /\ i + 1 \in 1..(n - 1)
      BY <2>2
    <3>6. \A i \in 1..Len(u) : u[i][1] <= u[i][2]
      BY <3>1, <3>2, <3>4
    <3>7. \A i \in 1..(Len(u) - 1) : u[i][2] = u[i + 1][1]
      <4> SUFFICES ASSUME NEW i \in 1..(Len(u) - 1) PROVE u[i][2] = u[i + 1][1]
        OBVIOUS
      <4>1. i \in 1..(n - 2)
        BY <2>2, <3>2
      <4>2. u[i] = r[i + 1] /\ u[i + 1] = r[(i + 1) + 1]
        BY <3>2, <3>5, <4>1
      <4>3. r[i + 1][2] = r[(i + 1) + 1][1]
        BY <3>1, <3>5, <4>1
      <4> QED
        BY <4>2, <4>3
    <3>8. u[Len(u)][2] = Len(rows[v])
      <4>1. n - 1 \in 1..(n - 1) /\ (n - 1) + 1 = n
        BY <2>2
      <4> QED
        BY <3>1, <3>2, <4>1
    <3> QED
      BY <3>3, <3>6, <3>7, <3>8 DEF Chain
  <2>7. RowsInOrder'
    BY <1>r, <2>1, <2>6 DEF RowsInOrder
  <2> QED
    BY <1>1, <1>2, <1>3, <1>5, <2>5, <2>7
<1> QED
  BY <1>6, <1>7

OpenDistinct == \A w \in Workers, t \in Tenants : Distinct(batch[w][t])

FlushedDistinct ==
    \A i, j \in 1..Len(batches) :
        \A k \in 1..Len(batches[i]), l \in 1..Len(batches[j]) :
            batches[i][k] = batches[j][l] => i = j /\ k = l

CallsAgree ==
    \A m \in Messages :
        /\ call[m] \notin {"added", "done"} => ledger[m] = <<>>
        /\ call[m] = "added" => m \in accepted
        /\ call[m] = "done" => m \in accepted \/ ledger[m] # <<>>

MovesInv ==
    /\ PlacedInv /\ PlacesInv /\ CallsAgree
    /\ OpenDistinct /\ FlushedDistinct /\ RowsInOrder

\* Initially every message is nowhere.
LEMMA InitMoves == Init => MovesInv
<1> SUFFICES ASSUME Init PROVE MovesInv
  OBVIOUS
<1>1. PlacesInv
  <2>1. \A m, p : ~At(m, p)
    BY DEF Init, At, ToSet, InHand, InBatches, Unwritten, Working
  <2>2. accepted = {}
    BY DEF Init
  <2> QED
    BY <2>1, <2>2 DEF PlacesInv, OnePlace, Somewhere, AcceptedOnly
<1>2. CallsAgree
  BY DEF Init, CallsAgree
<1>3. OpenDistinct /\ FlushedDistinct
  BY DEF Init, OpenDistinct, FlushedDistinct, Distinct
<1>4. RowsInOrder
  BY DEF Init, RowsInOrder, Distinct, Working
<1> QED
  BY <1>1, <1>2, <1>3, <1>4, InitPlaced DEF MovesInv

\* A producer's call counts its message only when it ends without having sent it.
LEMMA ProducerCounts ==
  ASSUME PlacedInv, NEW m \in Messages, Producer(m)
  PROVE  \/ /\ UNCHANGED ledger /\ call[m] \notin {"added", "done"}
            /\ SendToQueue(m)
         \/ /\ UNCHANGED ledger /\ UNCHANGED <<accepted, queue>>
            /\ call[m] \notin {"added", "done"}
            /\ \E pc \in CallState \ {"added", "done"} : call' = Moved(m, pc)
         \/ /\ UNCHANGED ledger /\ UNCHANGED <<accepted, queue>>
            /\ call[m] = "added" /\ call' = Moved(m, "done")
         \/ /\ UNCHANGED <<accepted, queue>> /\ call[m] \notin {"added", "done"}
            /\ call' = Moved(m, "done")
            /\ \E o \in {"shutdown", "queue_full", "http_503"} : Count(m, o)
<1>2. CASE Enter(m)
  BY <1>2 DEF Enter, CallState, queueVars
<1>3. CASE TryAcquire(m)
  BY <1>3 DEF TryAcquire, CallState, queueVars
<1>4. CASE TrySend(m)
  BY <1>4 DEF TrySend, CallState, SendToQueue
<1>5. CASE Acquire(m)
  BY <1>5 DEF Acquire, CallState, queueVars, outcomeVars
<1>6. CASE BlockingSend(m)
  BY <1>6 DEF BlockingSend, SendToQueue
<1>7. CASE AddBytes(m)
  BY <1>7 DEF AddBytes, outcomeVars
<1>8. CASE CallerGone(m) \/ WokenByStop(m)
  BY <1>8 DEF CallerGone, WokenByStop, AbortEnqueue, CallState, queueVars, outcomeVars
<1>9. CASE AccountRefused(m)
  BY <1>9 DEF AccountRefused, CallState, queueVars, RefusedOutcome
<1> QED
  BY <1>2, <1>3, <1>4, <1>5, <1>6, <1>7, <1>8, <1>9 DEF Producer

\* The parts of the invariant on places, and the types they use.
LEMMA MovesTypes ==
  ASSUME MovesInv
  PROVE  /\ PlacedInv /\ PlacesInv /\ CallsAgree /\ OpenDistinct /\ FlushedDistinct
         /\ RowsInOrder /\ TypeInv
         /\ call \in [Messages -> CallState] /\ accepted \subseteq Messages
         /\ queue \in Seq(Messages)
         /\ wpc \in [Workers -> WorkerState]
         /\ hand \in [Workers -> Messages \cup {NoMessage}]
         /\ batch \in [Workers -> [Tenants -> Seq(Messages)]]
         /\ batches \in Seq(Seq(Messages))
         /\ rpc \in [Writers -> WriterState] /\ rows \in [Writers -> Seq(Messages)]
         /\ ranges \in [Writers -> Seq(Nat \X Nat)]
         /\ ledger \in [Messages -> Seq(Outcome)]
  BY DEF MovesInv, PlacedInv, ChannelInv, TypeInv, TypeOK, ProducerType, QueueType,
      WorkerType, BatchesType, WriterType, OutcomeType

\* A message that was not accepted and not counted is nowhere.
LEMMA Nowhere ==
  ASSUME MovesInv, NEW m \in Messages, call[m] \notin {"added", "done"}
  PROVE  \A p : ~At(m, p)
<1>1. m \notin accepted /\ ledger[m] = <<>>
  BY DEF MovesInv, PlacedInv, NotYetAccepted, CallsAgree
<1>2. ~At(m, <<"counted">>)
  BY <1>1, AtPlace
<1> QED
  BY <1>1, <1>2 DEF MovesInv, PlacesInv, AcceptedOnly

\* A call sends its message into the queue, counts it as refused, or moves nothing.
LEMMA ProducerMoves ==
  ASSUME MovesInv, NEW m \in Messages, Producer(m)
  PROVE  /\ PlacesInv' /\ CallsAgree' /\ OpenDistinct' /\ FlushedDistinct'
         /\ RowsInOrder'
<1> USE MovesTypes
<1>1. UNCHANGED <<wpc, hand, batch, batches, rpc, rows, ranges>>
  BY ProducerSteps DEF workerVars, writerVars
<1>2. OpenDistinct' /\ FlushedDistinct'
  BY <1>1 DEF OpenDistinct, FlushedDistinct
<1>3. RowsInOrder'
  BY <1>1 DEF RowsInOrder, Working, Chain
<1>4. /\ \A w \in Workers : InHand(w)' = InHand(w)
      /\ \A v \in Writers : Unwritten(v)' = Unwritten(v)
  BY <1>1 DEF InHand, Unwritten, Working, Lo
<1>5. CASE UNCHANGED ledger /\ call[m] \notin {"added", "done"} /\ SendToQueue(m)
  <2>1. /\ queue' = Append(queue, m) /\ accepted' = accepted \cup {m}
        /\ call' = Moved(m, "added")
    BY <1>5 DEF SendToQueue
  <2>2. ToSet(queue)' = ToSet(queue) \cup {m}
    BY <2>1, ToSetAppend
  <2>3. Takes({m}, <<"queue">>)
    BY <1>1, <1>4, <1>5, <2>2, Nowhere, EntersQueue
  <2>4. PlacesInv'
    BY <2>1, <2>3, TakesKeepsPlaces
  <2>5. CallsAgree'
    BY <1>5, <2>1 DEF CallsAgree, Moved
  <2> QED
    BY <1>2, <1>3, <2>4, <2>5
<1>6. CASE /\ UNCHANGED ledger /\ UNCHANGED <<accepted, queue>>
           /\ \/ /\ call[m] \notin {"added", "done"}
                 /\ \E pc \in CallState \ {"added", "done"} : call' = Moved(m, pc)
              \/ call[m] = "added" /\ call' = Moved(m, "done")
  <2>1. Takes({}, <<"counted">>)
    BY <1>1, <1>4, <1>6, SamePlaces
  <2>2. PlacesInv'
    BY <1>6, <2>1, TakesKeepsPlaces
  <2>3. CallsAgree'
    BY <1>6 DEF CallsAgree, Moved
  <2> QED
    BY <1>2, <1>3, <2>2, <2>3
<1>7. CASE /\ UNCHANGED <<accepted, queue>> /\ call[m] \notin {"added", "done"}
           /\ call' = Moved(m, "done")
           /\ \E o \in {"shutdown", "queue_full", "http_503"} : Count(m, o)
  <2>1. PICK o : ledger' = [ledger EXCEPT ![m] = Append(@, o)]
    BY <1>7 DEF Count
  <2>2. ledger'[m] = Append(ledger[m], o) /\ \A x \in Messages : x # m => ledger'[x] = ledger[x]
    BY <2>1
  <2>3. ledger'[m] # <<>>
    <3>1. ledger[m] = <<>>
      BY <1>7 DEF CallsAgree
    <3> QED
      BY <2>2, <3>1
  <2>4. Takes({m}, <<"counted">>)
    BY <1>1, <1>4, <1>7, <2>2, <2>3, Nowhere, CountedOutside
  <2>5. PlacesInv'
    BY <1>7, <2>4, TakesKeepsPlaces
  <2>6. CallsAgree'
    BY <1>7, <2>2, <2>3 DEF CallsAgree, Moved
  <2> QED
    BY <1>2, <1>3, <2>5, <2>6
<1> QED
  BY <1>5, <1>6, <1>7, ProducerCounts

\* Receive moves the head of the queue into the hand of the worker.
LEMMA ReceiveMoves ==
  ASSUME MovesInv, NEW w \in Workers, Receive(w)
  PROVE  Takes({Head(queue)}, <<"hand", w>>)
<1>0. PICK h : h = Head(queue)
  OBVIOUS
<1>1. /\ hand' = [hand EXCEPT ![w] = h] /\ queue # <<>>
      /\ queue' = Tail(queue) /\ wpc[w] = "recv" /\ wpc' = [wpc EXCEPT ![w] = "process"]
      /\ UNCHANGED <<batch, batches>> /\ UNCHANGED <<rpc, rows, ranges>> /\ UNCHANGED ledger
  BY <1>0 DEF Receive, writerVars, outcomeVars
<1>t. /\ PlacedInv /\ PlacesInv /\ queue \in Seq(Messages)
      /\ wpc \in [Workers -> WorkerState]
      /\ hand \in [Workers -> Messages \cup {NoMessage}]
  BY MovesTypes
<1>2. ToSet(queue) = {h} \cup ToSet(queue') /\ h \notin ToSet(queue')
  BY <1>0, <1>t, <1>1, ToSetTail DEF PlacedInv, HandsDistinct
<1>3. InHand(w)' = {h} /\ InHand(w) = {}
  BY <1>t, <1>1 DEF InHand
<1>4. \A x \in Workers : x # w => InHand(x)' = InHand(x)
  BY <1>t, <1>1 DEF InHand
<1>5. \A v \in Writers : Unwritten(v)' = Unwritten(v)
  BY <1>1 DEF Unwritten, Working, Lo
<1>6. InBatches' = InBatches
  BY <1>1 DEF InBatches
<1>7. At(h, <<"queue">>)
  BY <1>2, AtPlace
<1>8. \A q : At(h, q) => q = <<"queue">>
  BY <1>t, <1>7 DEF PlacesInv, OnePlace
<1>9. ~(h \in ToSet(queue'))
  BY <1>2
<1>10. Takes({h}, <<"hand", w>>)
  <2>1. ASSUME NEW m, NEW q, m # h PROVE At(m, q)' <=> At(m, q)
    <3>1. m \in ToSet(queue') <=> m \in ToSet(queue)
      BY <1>2, <2>1
    <3>2. \A x \in Workers : m \in InHand(x)' <=> m \in InHand(x)
      BY <1>3, <1>4, <2>1
    <3> QED
      BY <1>1, <1>5, <1>6, <3>1, <3>2 DEF At
  <2>2. At(h, <<"hand", w>>)'
    BY <1>3 DEF At
  <2>3. ASSUME NEW q, At(h, q)', q # <<"hand", w>> PROVE FALSE
    <3>1. At(h, q) /\ q # <<"queue">>
      BY <1>1, <1>2, <1>3, <1>4, <1>5, <1>6, <2>3 DEF At
    <3> QED
      BY <1>8, <3>1
  <2> QED
    BY <2>1, <2>2, <2>3 DEF Takes
<1> QED
  BY <1>0, <1>10

\* process moves the message in hand into the open batch of its tenant.
LEMMA ProcessMoves ==
  ASSUME MovesInv, NEW w \in Workers, Process(w)
  PROVE  /\ Takes({hand[w]}, <<"batch", w, BatchOf(hand[w])>>)
         /\ OpenDistinct'
<1>a. PICK m : m = hand[w]
  OBVIOUS
<1>b. PICK t : t = BatchOf(m)
  OBVIOUS
<1> DEFINE b == Append(batch[w][t], m)
<1>1. /\ m \in Messages /\ t \in Tenants
      /\ wpc[w] = "process" /\ batch' = [batch EXCEPT ![w][t] = b]
      /\ \E s \in {"flush", "account"} : wpc' = [wpc EXCEPT ![w] = s]
      /\ UNCHANGED <<queue, hand, batches>> /\ UNCHANGED <<rpc, rows, ranges>>
      /\ UNCHANGED ledger
  BY <1>a, <1>b, PlacedTypes, ConstantTypes
  DEF MovesInv, Process, writerVars, outcomeVars, queueVars, BatchOf
<1>t. /\ PlacesInv /\ OpenDistinct /\ wpc \in [Workers -> WorkerState]
      /\ batch \in [Workers -> [Tenants -> Seq(Messages)]]
  BY MovesTypes
<1>2. batch[w][t] \in Seq(Messages)
  BY <1>t, <1>1
<1>3. ToSet(b) = ToSet(batch[w][t]) \cup {m}
  BY <1>2, ToSetAppend
<1>4. m \in InHand(w) /\ InHand(w) = {m} /\ InHand(w)' = {}
  BY <1>t, <1>1, <1>a DEF InHand
<1>5. At(m, <<"hand", w>>)
  BY <1>4, AtPlace
<1>6. \A q : At(m, q) => q = <<"hand", w>>
  BY <1>t, <1>5 DEF PlacesInv, OnePlace
<1>7. m \notin ToSet(batch[w][t])
  <2>1. ~At(m, <<"batch", w, t>>)
    BY <1>6
  <2> QED
    BY <1>1, <2>1, AtPlace
<1>8. Distinct(b)
  BY <1>t, <1>1, <1>2, <1>7, DistinctAppend DEF OpenDistinct
<1> HIDE DEF b
<1>9. batch'[w][t] = b /\ \A x \in Workers, y \in Tenants : x # w \/ y # t => batch'[x][y] = batch[x][y]
  BY <1>t, <1>1
<1>10. OpenDistinct'
  BY <1>t, <1>8, <1>9 DEF OpenDistinct
<1>11. \A x \in Workers : x # w => InHand(x)' = InHand(x)
  BY <1>t, <1>1 DEF InHand
<1>12. \A v \in Writers : Unwritten(v)' = Unwritten(v)
  BY <1>1 DEF Unwritten, Working, Lo
<1>13. InBatches' = InBatches /\ ToSet(queue)' = ToSet(queue)
  BY <1>1 DEF InBatches
<1>14. Takes({m}, <<"batch", w, t>>)
  <2>1. ASSUME NEW x, NEW q, x # m PROVE At(x, q)' <=> At(x, q)
    <3>1. \A y \in Workers : x \in InHand(y)' <=> x \in InHand(y)
      BY <1>4, <1>11, <2>1
    <3>2. \A y \in Workers, z \in Tenants : x \in ToSet(batch'[y][z]) <=> x \in ToSet(batch[y][z])
      BY <1>3, <1>9, <2>1
    <3> QED
      BY <1>1, <1>12, <1>13, <3>1, <3>2 DEF At
  <2>2. At(m, <<"batch", w, t>>)'
    BY <1>1, <1>3, <1>9 DEF At
  <2>3. ASSUME NEW q, At(m, q)', q # <<"batch", w, t>> PROVE FALSE
    <3>1. \A y \in Workers : m \in InHand(y)' => y # w /\ m \in InHand(y)
      BY <1>4, <1>11
    <3>2. \A y \in Workers, z \in Tenants :
            m \in ToSet(batch'[y][z]) => (y = w /\ z = t) \/ m \in ToSet(batch[y][z])
      BY <1>9
    <3>3. At(m, q) /\ q # <<"hand", w>>
      BY <1>1, <1>12, <1>13, <2>3, <3>1, <3>2 DEF At
    <3> QED
      BY <1>6, <3>3
  <2> QED
    BY <2>1, <2>2, <2>3 DEF Takes
<1> QED
  BY <1>10, <1>14, <1>a, <1>b

\* flush moves a whole open batch into the batch queue.
LEMMA FlushMoves ==
  ASSUME MovesInv, NEW w \in Workers, NEW t \in Tenants, Flush(w, t),
         UNCHANGED <<queue, hand, rpc, rows, ranges, ledger>>,
         \A x \in Workers : wpc'[x] = "process" <=> wpc[x] = "process"
  PROVE  /\ Takes(ToSet(batch[w][t]), <<"batches">>)
         /\ OpenDistinct' /\ FlushedDistinct'
<1> DEFINE s == batch[w][t]
<1>1. /\ s \in Seq(Messages) /\ Distinct(s)
      /\ batches' = Append(batches, s) /\ batch' = [batch EXCEPT ![w][t] = <<>>]
  BY MovesTypes DEF Flush, OpenDistinct
<1>t. /\ PlacesInv /\ OpenDistinct /\ FlushedDistinct
      /\ batch \in [Workers -> [Tenants -> Seq(Messages)]]
      /\ batches \in Seq(Seq(Messages))
  BY MovesTypes
<1> HIDE DEF s
<1>a. /\ Len(batches') = Len(batches) + 1 /\ Len(batches) \in Nat
      /\ \A i \in 1..Len(batches) : batches'[i] = batches[i]
      /\ batches'[Len(batches) + 1] = s
  BY <1>t, <1>1, AppendProperties
<1>b. \A i \in 1..Len(batches') : i \in 1..Len(batches) \/ i = Len(batches) + 1
  BY <1>a
<1>c. \A i \in 1..Len(batches) : i \in 1..Len(batches')
  BY <1>a
<1>d. Len(batches) + 1 \in 1..Len(batches')
  BY <1>a
<1>e. ToSet(s) \subseteq Messages
  BY <1>1 DEF ToSet
<1>2. InBatches' = InBatches \cup ToSet(s)
  BY <1>a, <1>b, <1>c, <1>d, <1>e DEF InBatches
<1>3. batch'[w][t] = <<>> /\ \A x \in Workers, y \in Tenants : x # w \/ y # t => batch'[x][y] = batch[x][y]
  BY <1>t, <1>1
<1>4. ToSet(batch'[w][t]) = {} /\ Distinct(<<>>)
  BY <1>3 DEF ToSet, Distinct
<1>5. OpenDistinct'
  BY <1>t, <1>3, <1>4 DEF OpenDistinct
<1>6. \A m \in ToSet(s) : At(m, <<"batch", w, t>>)
  BY AtPlace DEF s
<1>7. \A m \in ToSet(s) : \A q : At(m, q) => q = <<"batch", w, t>>
  BY <1>t, <1>6 DEF PlacesInv, OnePlace
<1>8. \A m \in ToSet(s) : m \notin InBatches
  <2>1. \A m \in ToSet(s) : ~At(m, <<"batches">>)
    BY <1>7
  <2> QED
    BY <2>1, AtPlace
<1>9. FlushedDistinct'
  <2>3. \A i \in 1..Len(batches) : \A k \in 1..Len(batches[i]) : batches[i][k] \in InBatches
    <3> SUFFICES ASSUME NEW i \in 1..Len(batches), NEW k \in 1..Len(batches[i])
                 PROVE  batches[i][k] \in InBatches
      OBVIOUS
    <3>1. batches[i] \in Seq(Messages)
      BY <1>t
    <3>2. batches[i][k] \in Messages /\ batches[i][k] \in ToSet(batches[i])
      BY <3>1 DEF ToSet
    <3> QED
      BY <3>2 DEF InBatches
  <2>4. \A l \in 1..Len(s) : s[l] \in ToSet(s)
    BY <1>1 DEF ToSet
  <2>5. ASSUME NEW i \in 1..Len(batches'), NEW j \in 1..Len(batches'),
               NEW k \in 1..Len(batches'[i]), NEW l \in 1..Len(batches'[j]),
               batches'[i][k] = batches'[j][l]
        PROVE  i = j /\ k = l
    <3>1. CASE i \in 1..Len(batches) /\ j \in 1..Len(batches)
      <4>1. batches'[i] = batches[i] /\ batches'[j] = batches[j]
        BY <1>a, <3>1
      <4>2. /\ k \in 1..Len(batches[i]) /\ l \in 1..Len(batches[j])
            /\ batches[i][k] = batches[j][l]
        BY <2>5, <4>1
      <4> QED
        BY <1>t, <3>1, <4>2 DEF FlushedDistinct
    <3>2. CASE i \in 1..Len(batches) /\ j = Len(batches) + 1
      BY <1>8, <1>a, <2>3, <2>4, <2>5, <3>2
    <3>3. CASE i = Len(batches) + 1 /\ j \in 1..Len(batches)
      BY <1>8, <1>a, <2>3, <2>4, <2>5, <3>3
    <3>4. CASE i = Len(batches) + 1 /\ j = Len(batches) + 1
      BY <1>1, <1>a, <2>5, <3>4 DEF Distinct
    <3> QED
      BY <1>b, <3>1, <3>2, <3>3, <3>4
  <2> QED
    BY <2>5 DEF FlushedDistinct
<1>10. \A x \in Workers : InHand(x)' = InHand(x)
  BY DEF InHand
<1>11. \A v \in Writers : Unwritten(v)' = Unwritten(v)
  BY DEF Unwritten, Working, Lo
<1>12. Takes(ToSet(s), <<"batches">>)
  <2>1. ASSUME NEW m, NEW q, m \notin ToSet(s) PROVE At(m, q)' <=> At(m, q)
    <3>1. \A y \in Workers, z \in Tenants : m \in ToSet(batch'[y][z]) <=> m \in ToSet(batch[y][z])
      BY <1>3, <1>4, <2>1 DEF s
    <3>2. m \in InBatches' <=> m \in InBatches
      BY <1>2, <2>1
    <3> QED
      BY <1>10, <1>11, <3>1, <3>2 DEF At
  <2>2. ASSUME NEW m \in ToSet(s) PROVE At(m, <<"batches">>)'
    BY <1>2 DEF At
  <2>3. ASSUME NEW m \in ToSet(s), NEW q, At(m, q)', q # <<"batches">> PROVE FALSE
    <3>1. \A y \in Workers, z \in Tenants :
            m \in ToSet(batch'[y][z]) => (y # w \/ z # t) /\ m \in ToSet(batch[y][z])
      BY <1>3, <1>4
    <3>2. At(m, q) /\ q # <<"batch", w, t>>
      BY <1>10, <1>11, <2>3, <3>1 DEF At
    <3> QED
      BY <1>7, <3>2
  <2> QED
    BY <2>1, <2>2, <2>3 DEF Takes
<1> QED
  BY <1>5, <1>9, <1>12 DEF s

\* A worker moves accepted messages and loses, repeats and counts none.
LEMMA WorkerMoves ==
  ASSUME MovesInv, NEW w \in Workers, RunWorker(w)
  PROVE  /\ PlacesInv' /\ CallsAgree' /\ OpenDistinct' /\ FlushedDistinct'
         /\ RowsInOrder'
<1>t. /\ PlacesInv /\ CallsAgree /\ OpenDistinct /\ FlushedDistinct /\ RowsInOrder /\ TypeInv
      /\ wpc \in [Workers -> WorkerState] /\ queue \in Seq(Messages)
  BY MovesTypes
<1>1. UNCHANGED <<call, accepted, rpc, rows, ranges, ledger>>
  BY <1>t, WorkerBatches DEF producerVars, writerVars, outcomeVars
<1>2. CallsAgree' /\ RowsInOrder'
  BY <1>t, <1>1 DEF CallsAgree, RowsInOrder, Working, Chain
<1>3. \A v \in Writers : Unwritten(v)' = Unwritten(v)
  BY <1>1 DEF Unwritten, Working, Lo
<1>4. ASSUME NEW X, NEW p, Takes(X, p),
             \A m \in X : \E q : At(m, q) /\ q # <<"counted">>
      PROVE  PlacesInv'
  <2>1. X \subseteq accepted'
    BY <1>t, <1>1, <1>4 DEF PlacesInv, AcceptedOnly
  <2> QED
    BY <1>t, <1>1, <1>4, <2>1, TakesKeepsPlaces
<1>5. ASSUME UNCHANGED <<queue, hand, batch, batches>>,
             \A x \in Workers : wpc'[x] = "process" <=> wpc[x] = "process"
      PROVE  PlacesInv' /\ OpenDistinct' /\ FlushedDistinct'
  <2>1. \A x \in Workers : InHand(x)' = InHand(x)
    BY <1>5 DEF InHand
  <2>2. Takes({}, <<"counted">>)
    BY <1>1, <1>3, <1>5, <2>1, SamePlaces
  <2> QED
    BY <1>t, <1>4, <1>5, <2>2 DEF OpenDistinct, FlushedDistinct
<1>6. CASE Receive(w)
  <2>1. UNCHANGED <<batch, batches>> /\ queue # <<>>
    BY <1>6 DEF Receive
  <2>2. At(Head(queue), <<"queue">>)
    BY <1>t, <2>1, ToSetTail, AtPlace
  <2>3. PlacesInv'
    <3>1. Takes({Head(queue)}, <<"hand", w>>)
      BY <1>6, ReceiveMoves
    <3>2. \A m \in {Head(queue)} : \E q : At(m, q) /\ q # <<"counted">>
      <4>1. <<"queue">> # <<"counted">>
        OBVIOUS
      <4> QED
        BY <2>2, <4>1
    <3> QED
      BY <1>4, <3>1, <3>2
  <2> QED
    BY <1>t, <1>2, <2>1, <2>3 DEF OpenDistinct, FlushedDistinct
<1>7. CASE Process(w)
  <2>1. UNCHANGED batches /\ wpc[w] = "process"
    BY <1>7 DEF Process
  <2>2. At(hand[w], <<"hand", w>>)
    BY <2>1, AtPlace DEF InHand
  <2>3. PlacesInv' /\ OpenDistinct'
    <3>1. Takes({hand[w]}, <<"batch", w, BatchOf(hand[w])>>) /\ OpenDistinct'
      BY <1>7, ProcessMoves
    <3>2. \A m \in {hand[w]} : \E q : At(m, q) /\ q # <<"counted">>
      <4>1. <<"hand", w>> # <<"counted">>
        OBVIOUS
      <4> QED
        BY <2>2, <4>1
    <3> QED
      BY <1>4, <3>1, <3>2
  <2> QED
    BY <1>t, <1>2, <2>1, <2>3 DEF FlushedDistinct
<1>8. ASSUME NEW t \in Tenants, Flush(w, t), UNCHANGED <<queue, hand>>,
             \A x \in Workers : wpc'[x] = "process" <=> wpc[x] = "process"
      PROVE  PlacesInv' /\ OpenDistinct' /\ FlushedDistinct'
  <2>1. \A m \in ToSet(batch[w][t]) : At(m, <<"batch", w, t>>)
    BY AtPlace
  <2>2. Takes(ToSet(batch[w][t]), <<"batches">>) /\ OpenDistinct' /\ FlushedDistinct'
    BY <1>1, <1>8, FlushMoves
  <2> QED
    BY <1>4, <2>1, <2>2
<1>9. CASE FlushFull(w)
  <2>1. BatchOf(hand[w]) \in Tenants
    BY <1>t, <1>9, ConstantTypes DEF FlushFull, TypeInv, HandFull, BatchOf
  <2>2. \A x \in Workers : wpc'[x] = "process" <=> wpc[x] = "process"
    BY <1>t, <1>9 DEF FlushFull
  <2>3. UNCHANGED <<queue, hand>>
    BY <1>9 DEF FlushFull, queueVars
  <2> QED
    BY <1>2, <1>8, <1>9, <2>1, <2>2, <2>3 DEF FlushFull
<1>10. CASE FlushNext(w)
  <2>1. UNCHANGED <<queue, hand, wpc>>
    BY <1>10 DEF FlushNext, queueVars
  <2> QED
    BY <1>2, <1>8, <1>10, <2>1 DEF FlushNext
<1>11. CASE SubtractBytes(w) \/ ReleaseBudget(w) \/ TimerFires(w) \/ QueueClosed(w)
            \/ FlushAllDone(w)
  <2>1. UNCHANGED <<queue, batch, batches>>
    BY <1>11 DEF SubtractBytes, ReleaseBudget, TimerFires, QueueClosed, FlushAllDone,
       queueVars
  <2>2. \A x \in Workers : wpc'[x] = "process" <=> wpc[x] = "process"
    BY <1>t, <1>11 DEF SubtractBytes, ReleaseBudget, TimerFires, QueueClosed,
       FlushAllDone, AfterQueueClosed
  <2>3. \A x \in Workers : InHand(x)' = InHand(x)
    <3>1. hand \in [Workers -> Messages \cup {NoMessage}]
      BY MovesTypes
    <3>2. \A x \in Workers : wpc[x] = "process" => hand'[x] = hand[x]
      BY <1>t, <1>11, <3>1 DEF SubtractBytes, ReleaseBudget, TimerFires, QueueClosed,
         FlushAllDone
    <3> QED
      BY <2>2, <3>2 DEF InHand
  <2>4. Takes({}, <<"counted">>)
    BY <1>1, <1>3, <2>1, <2>3, SamePlaces
  <2>5. PlacesInv'
    BY <1>4, <2>4
  <2> QED
    BY <1>t, <1>2, <2>1, <2>5 DEF OpenDistinct, FlushedDistinct
<1> QED
  BY <1>6, <1>7, <1>9, <1>10, <1>11 DEF RunWorker

\* A writer takes the first batch: all its rows are still to be written.
LEMMA TakeBatchMoves ==
  ASSUME MovesInv, NEW v \in Writers, TakeBatch(v)
  PROVE  PlacesInv' /\ FlushedDistinct' /\ RowsInOrder'
<1>t. /\ PlacesInv /\ FlushedDistinct /\ RowsInOrder /\ batches \in Seq(Seq(Messages))
      /\ rpc \in [Writers -> WriterState] /\ rows \in [Writers -> Seq(Messages)]
      /\ ranges \in [Writers -> Seq(Nat \X Nat)]
  BY MovesTypes
<1>0. PICK b : b = Head(batches)
  OBVIOUS
<1>1. /\ rows' = [rows EXCEPT ![v] = b] /\ batches # <<>> /\ batches' = Tail(batches)
      /\ ranges' = [ranges EXCEPT ![v] = << <<0, Len(b)>> >>]
      /\ rpc[v] = "recv" /\ rpc' = [rpc EXCEPT ![v] = "write"]
      /\ UNCHANGED <<queue, wpc, hand, batch, ledger, accepted>>
  BY <1>0 DEF TakeBatch, producerVars, queueVars, workerVars, outcomeVars
<1>2. /\ Len(batches) \in Nat /\ Len(batches) > 0 /\ b = batches[1] /\ b \in Seq(Messages)
      /\ Len(batches') = Len(batches) - 1
      /\ \A i \in 1..Len(batches') : batches'[i] = batches[i + 1]
  BY <1>t, <1>0, <1>1, HeadTailProperties
<1>3. /\ \A i \in 1..Len(batches') : i + 1 \in 1..Len(batches) /\ i + 1 # 1
      /\ \A i \in 1..Len(batches) : i = 1 \/ (i - 1 \in 1..Len(batches') /\ (i - 1) + 1 = i)
      /\ \A i, j \in 1..Len(batches') : i + 1 = j + 1 => i = j
      /\ 1 \in 1..Len(batches)
  BY <1>2
<1>4. FlushedDistinct'
  <2>1. ASSUME NEW i \in 1..Len(batches'), NEW j \in 1..Len(batches'),
               NEW k \in 1..Len(batches'[i]), NEW l \in 1..Len(batches'[j]),
               batches'[i][k] = batches'[j][l]
        PROVE  i = j /\ k = l
    <3>1. batches'[i] = batches[i + 1] /\ batches'[j] = batches[j + 1]
      BY <1>2
    <3>2. /\ k \in 1..Len(batches[i + 1]) /\ l \in 1..Len(batches[j + 1])
          /\ batches[i + 1][k] = batches[j + 1][l]
      BY <2>1, <3>1
    <3>3. i + 1 \in 1..Len(batches) /\ j + 1 \in 1..Len(batches)
      BY <1>3
    <3>4. i + 1 = j + 1 /\ k = l
      <4> DEFINE a == i + 1
                 c == j + 1
      <4>1. /\ a \in 1..Len(batches) /\ c \in 1..Len(batches) /\ FlushedDistinct
            /\ k \in 1..Len(batches[a]) /\ l \in 1..Len(batches[c]) /\ batches[a][k] = batches[c][l]
        BY <1>t, <3>2, <3>3
      <4> HIDE DEF a, c
      <4>2. a = c /\ k = l
        BY <4>1 DEF FlushedDistinct
      <4> QED
        BY <4>2 DEF a, c
    <3> QED
      BY <1>3, <3>4
  <2> QED
    BY <2>1 DEF FlushedDistinct
<1>5. Distinct(b)
  <2>1. \A k \in 1..Len(batches[1]), l \in 1..Len(batches[1]) :
          batches[1][k] = batches[1][l] => k = l
    <3> DEFINE a == 1
    <3>1. a \in 1..Len(batches) /\ FlushedDistinct
      BY <1>t, <1>3
    <3> HIDE DEF a
    <3>2. \A k \in 1..Len(batches[a]), l \in 1..Len(batches[a]) :
            batches[a][k] = batches[a][l] => k = l
      BY <3>1 DEF FlushedDistinct
    <3> QED
      BY <3>2 DEF a
  <2> QED
    BY <1>2, <2>1 DEF Distinct
<1>6. ~Working(v) /\ Working(v)' /\ rows'[v] = b /\ ranges'[v] = << <<0, Len(b)>> >>
  BY <1>t, <1>1 DEF Working
<1>7. Lo(v)' = 0
  BY <1>6 DEF Lo
<1>8. Unwritten(v) = {} /\ Unwritten(v)' = ToSet(b)
  <2>1. Unwritten(v)' = {b[j] : j \in (0 + 1)..Len(b)}
    BY <1>6, <1>7 DEF Unwritten
  <2>2. DOMAIN b = 1..Len(b) /\ 0 + 1 = 1
    BY <1>2
  <2> QED
    BY <1>6, <2>1, <2>2 DEF Unwritten, ToSet
<1>9. \A x \in Writers : x # v => rpc'[x] = rpc[x] /\ rows'[x] = rows[x] /\ ranges'[x] = ranges[x]
  BY <1>t, <1>1
<1>10. \A x \in Writers : x # v => Unwritten(x)' = Unwritten(x)
  <2> SUFFICES ASSUME NEW x \in Writers, x # v PROVE Unwritten(x)' = Unwritten(x)
    OBVIOUS
  <2>1. Working(x)' = Working(x) /\ Lo(x)' = Lo(x) /\ rows'[x] = rows[x]
    BY <1>9 DEF Working, Lo
  <2> QED
    BY <2>1 DEF Unwritten
<1>11. RowsInOrder'
  <2>1. Chain(v)'
    <3> DEFINE r == << <<0, Len(b)>> >>
    <3>1. Len(r) = 1 /\ r[1][1] = 0 /\ r[1][2] = Len(b) /\ Len(b) \in Nat
      BY <1>2
    <3>2. ranges'[v] = r /\ rows'[v] = b
      BY <1>6
    <3> HIDE DEF r
    <3>3. /\ \A i \in 1..Len(r) : r[i][1] <= r[i][2]
          /\ \A i \in 1..(Len(r) - 1) : r[i][2] = r[i + 1][1]
          /\ r[Len(r)][2] = Len(b)
      BY <3>1
    <3> QED
      BY <3>2, <3>3 DEF Chain
  <2>2. ASSUME NEW x \in Writers, x # v PROVE Distinct(rows'[x]) /\ (Working(x)' => Chain(x)')
    <3>1. Distinct(rows[x]) /\ (Working(x) => Chain(x))
      BY <1>t DEF RowsInOrder
    <3>2. Working(x)' = Working(x)
      BY <1>9, <2>2 DEF Working
    <3>3. Chain(x) => Chain(x)'
      BY <1>9, <2>2 DEF Chain
    <3> QED
      BY <1>9, <2>2, <3>1, <3>2, <3>3
  <2> QED
    BY <1>5, <1>6, <2>1, <2>2 DEF RowsInOrder
<1>12. \A m : m \in InBatches <=> m \in InBatches' \/ m \in ToSet(b)
  <2> SUFFICES ASSUME NEW m PROVE m \in InBatches <=> m \in InBatches' \/ m \in ToSet(b)
    OBVIOUS
  <2>1. ASSUME m \in InBatches PROVE m \in InBatches' \/ m \in ToSet(b)
    <3>1. m \in Messages /\ \E i \in 1..Len(batches) : m \in ToSet(batches[i])
      BY <2>1 DEF InBatches
    <3>2. PICK i \in 1..Len(batches) : m \in ToSet(batches[i])
      BY <3>1
    <3>3. CASE i = 1
      BY <1>2, <3>2, <3>3
    <3>4. CASE i # 1
      <4>1. i - 1 \in 1..Len(batches') /\ batches'[i - 1] = batches[i]
        BY <1>2, <1>3, <3>4
      <4> QED
        BY <3>1, <3>2, <4>1 DEF InBatches
    <3> QED
      BY <3>3, <3>4
  <2>2. ASSUME m \in InBatches' PROVE m \in InBatches
    BY <1>2, <1>3, <2>2 DEF InBatches
  <2>3. ASSUME m \in ToSet(b) PROVE m \in InBatches
    <3>1. m \in Messages
      BY <1>2, <2>3 DEF ToSet
    <3> QED
      BY <1>2, <1>3, <2>3, <3>1 DEF InBatches
  <2> QED
    BY <2>1, <2>2, <2>3
<1>13. \A m \in ToSet(b) : m \notin InBatches'
  <2> SUFFICES ASSUME NEW m \in ToSet(b), m \in InBatches' PROVE FALSE
    OBVIOUS
  <2>1. PICK k \in 1..Len(b) : b[k] = m
    BY <1>2 DEF ToSet
  <2>2. PICK i \in 1..Len(batches') : m \in ToSet(batches'[i])
    BY DEF InBatches
  <2>3. batches'[i] = batches[i + 1] /\ batches[i + 1] \in Seq(Messages)
    BY <1>t, <1>2, <1>3
  <2>4. PICK l \in 1..Len(batches[i + 1]) : batches[i + 1][l] = m
    BY <2>2, <2>3 DEF ToSet
  <2> DEFINE a == i + 1
  <2>5. /\ a \in 1..Len(batches) /\ a # 1 /\ l \in 1..Len(batches[a])
        /\ 1 \in 1..Len(batches) /\ k \in 1..Len(batches[1]) /\ FlushedDistinct
        /\ batches[1][k] = batches[a][l]
    BY <1>t, <1>2, <1>3, <2>1, <2>4
  <2> HIDE DEF a
  <2> QED
    BY <2>5 DEF FlushedDistinct
<1>14. \A m \in ToSet(b) : \A q : At(m, q) => q = <<"batches">>
  <2>1. \A m \in ToSet(b) : At(m, <<"batches">>)
    BY <1>12, AtPlace
  <2> QED
    BY <1>t, <2>1 DEF PlacesInv, OnePlace
<1>15. \A x \in Workers : InHand(x)' = InHand(x)
  BY <1>1 DEF InHand
<1>16. Takes(ToSet(b), <<"writer", v>>)
  <2>1. ASSUME NEW m, NEW q, m \notin ToSet(b) PROVE At(m, q)' <=> At(m, q)
    <3>1. m \in InBatches' <=> m \in InBatches
      BY <1>12, <2>1
    <3>2. \A x \in Writers : m \in Unwritten(x)' <=> m \in Unwritten(x)
      BY <1>8, <1>10, <2>1
    <3> QED
      BY <1>1, <1>15, <3>1, <3>2 DEF At
  <2>2. ASSUME NEW m \in ToSet(b) PROVE At(m, <<"writer", v>>)'
    BY <1>8 DEF At
  <2>3. ASSUME NEW m \in ToSet(b), NEW q, At(m, q)', q # <<"writer", v>> PROVE FALSE
    <3>1. \A x \in Writers : m \in Unwritten(x)' => x = v \/ m \in Unwritten(x)
      BY <1>10
    <3>2. m \notin InBatches'
      BY <1>13
    <3>3. At(m, q) /\ q # <<"batches">>
      BY <1>1, <1>15, <2>3, <3>1, <3>2 DEF At
    <3> QED
      BY <1>14, <3>3
  <2> QED
    BY <2>1, <2>2, <2>3 DEF Takes
<1>17. ToSet(b) \subseteq accepted'
  <2>1. \A m \in ToSet(b) : At(m, <<"batches">>)
    BY <1>12, AtPlace
  <2>2. <<"batches">> # <<"counted">>
    OBVIOUS
  <2> QED
    BY <1>t, <1>1, <2>1, <2>2 DEF PlacesInv, AcceptedOnly
<1>18. PlacesInv'
  BY <1>t, <1>1, <1>16, <1>17, TakesKeepsPlaces
<1> QED
  BY <1>4, <1>11, <1>18

\* The writer is done with its current range: every row of it is counted now.
LEMMA CountMoves ==
  ASSUME MovesInv, NEW v \in Writers, Working(v), Return(v),
         NEW o, CountRange(v, o),
         UNCHANGED batches, UNCHANGED offWriter
  PROVE  /\ PlacesInv' /\ CallsAgree' /\ RowsInOrder'
         /\ InRange(v) \subseteq accepted
         /\ \A m \in InRange(v) : ledger[m] = <<>> /\ ledger'[m] = <<o>>
         /\ \A m \in Messages : m \notin InRange(v) => ledger'[m] = ledger[m]
<1>t. /\ PlacesInv /\ CallsAgree /\ RowsInOrder /\ TypeInv /\ PlacedInv
      /\ accepted \subseteq Messages /\ ledger \in [Messages -> Seq(Outcome)]
  BY MovesTypes
<1>0. PICK X : X = InRange(v)
  OBVIOUS
<1>1. /\ X \subseteq Unwritten(v) /\ Unwritten(v)' = Unwritten(v) \ X
      /\ \A x \in Writers : x # v => Unwritten(x)' = Unwritten(x)
      /\ RowsInOrder'
  BY <1>t, <1>0, ReturnTakesRange
<1>2. /\ UNCHANGED <<call, accepted, queue>> /\ UNCHANGED <<wpc, hand, batch>>
  BY DEF producerVars, queueVars, workerVars
<1>3. \A m \in X : At(m, <<"writer", v>>)
  BY <1>1, AtPlace
<1>4. \A m \in X : \A q : At(m, q) => q = <<"writer", v>>
  BY <1>t, <1>3 DEF PlacesInv, OnePlace
<1>5. X \subseteq accepted
  <2>1. <<"writer", v>> # <<"counted">>
    OBVIOUS
  <2> QED
    BY <1>t, <1>3, <2>1 DEF PlacesInv, AcceptedOnly
<1>6. \A m \in X : ledger[m] = <<>>
  <2> SUFFICES ASSUME NEW m \in X, ledger[m] # <<>> PROVE FALSE
    OBVIOUS
  <2>1. m \in Messages
    BY <1>t, <1>5
  <2>2. At(m, <<"counted">>)
    BY <2>1, AtPlace
  <2> QED
    BY <1>4, <2>2
<1>7. /\ \A m \in Messages : m \in X => ledger'[m] = Append(ledger[m], o)
      /\ \A m \in Messages : m \notin X => ledger'[m] = ledger[m]
  BY <1>0 DEF CountRange
<1>8. \A m \in X : ledger'[m] = <<o>>
  <2> SUFFICES ASSUME NEW m \in X PROVE ledger'[m] = <<o>>
    OBVIOUS
  <2>1. ledger'[m] = Append(ledger[m], o) /\ ledger[m] = <<>>
    BY <1>t, <1>5, <1>6, <1>7
  <2> QED
    BY <2>1
<1>9. \A m \in X : ledger'[m] # <<>>
  <2>1. <<o>> # <<>>
    OBVIOUS
  <2> QED
    BY <1>8, <2>1
<1>10. \A w \in Workers : InHand(w)' = InHand(w)
  BY <1>2 DEF InHand
<1>11. InBatches' = InBatches
  BY DEF InBatches
<1>12. Takes(X, <<"counted">>)
  <2>1. ASSUME NEW m, NEW q, m \notin X PROVE At(m, q)' <=> At(m, q)
    <3>1. \A x \in Writers : m \in Unwritten(x)' <=> m \in Unwritten(x)
      BY <1>1, <2>1
    <3>2. m \in Messages => ledger'[m] = ledger[m]
      BY <1>7, <2>1
    <3> QED
      BY <1>2, <1>10, <1>11, <3>1, <3>2 DEF At
  <2>2. ASSUME NEW m \in X PROVE At(m, <<"counted">>)'
    BY <1>t, <1>5, <1>9 DEF At
  <2>3. ASSUME NEW m \in X, NEW q, At(m, q)', q # <<"counted">> PROVE FALSE
    <3>1. \A x \in Writers : m \in Unwritten(x)' => x # v /\ m \in Unwritten(x)
      BY <1>1
    <3>2. At(m, q) /\ q # <<"writer", v>>
      BY <1>2, <1>10, <1>11, <2>3, <3>1 DEF At
    <3> QED
      BY <1>4, <3>2
  <2> QED
    BY <2>1, <2>2, <2>3 DEF Takes
<1>13. PlacesInv'
  BY <1>t, <1>2, <1>12, TakesKeepsPlaces
<1>14. CallsAgree'
  <2> SUFFICES ASSUME NEW m \in Messages
               PROVE  /\ call[m] \notin {"added", "done"} => ledger'[m] = <<>>
                      /\ call[m] = "added" => m \in accepted
                      /\ call[m] = "done" => m \in accepted \/ ledger'[m] # <<>>
    BY <1>2 DEF CallsAgree
  <2>1. CASE m \in X
    BY <1>t, <1>5, <2>1 DEF PlacedInv, NotYetAccepted
  <2>2. CASE m \notin X
    BY <1>t, <1>7, <2>2 DEF CallsAgree
  <2> QED
    BY <2>1, <2>2
<1> QED
  BY <1>0, <1>1, <1>5, <1>6, <1>7, <1>8, <1>13, <1>14

\* A writer's step that neither takes nor counts rows.
LEMMA WriterStays ==
  ASSUME MovesInv, NEW v \in Writers, UNCHANGED <<rows, batches, ledger>>,
         UNCHANGED offWriter,
         \A x \in Writers : Working(x)' = Working(x),
         \A x \in Writers : Lo(x)' = Lo(x),
         \A x \in Writers : Working(x) /\ Chain(x) => Chain(x)'
  PROVE  PlacesInv' /\ CallsAgree' /\ RowsInOrder'
<1>t. PlacesInv /\ CallsAgree /\ RowsInOrder
  BY MovesTypes
<1>1. /\ UNCHANGED <<call, accepted, queue>> /\ UNCHANGED <<wpc, hand, batch>>
      /\ UNCHANGED rows /\ UNCHANGED batches /\ UNCHANGED ledger
  BY DEF producerVars, queueVars, workerVars
<1>2. \A x \in Writers : Unwritten(x)' = Unwritten(x)
  BY <1>1 DEF Unwritten
<1>3. \A w \in Workers : InHand(w)' = InHand(w)
  BY <1>1 DEF InHand
<1>4. Takes({}, <<"counted">>)
  BY <1>1, <1>2, <1>3, SamePlaces
<1>5. PlacesInv'
  BY <1>t, <1>1, <1>4, TakesKeepsPlaces
<1>6. CallsAgree'
  BY <1>t, <1>1 DEF CallsAgree
<1>7. RowsInOrder'
  BY <1>t, <1>1 DEF RowsInOrder
<1> QED
  BY <1>5, <1>6, <1>7

\* Halving a range keeps the rows from Lo on and the ranges in a chain.
LEMMA BisectKeepsChain ==
  ASSUME TypeInv, RowsInOrder, NEW v \in Writers, Working(v), Bisect(v)
  PROVE  /\ Lo(v)' = Lo(v) /\ Chain(v)' /\ Working(v)'
         /\ \A x \in Writers : x # v => ranges'[x] = ranges[x] /\ rpc'[x] = rpc[x]
<1>t. /\ rpc \in [Writers -> WriterState] /\ rows \in [Writers -> Seq(Messages)]
      /\ ranges \in [Writers -> Seq(Nat \X Nat)]
  BY DEF TypeInv, TypeOK, WriterType
<1>0. /\ Lo(v) \in Nat /\ Hi(v) \in Nat /\ Lo(v) <= Hi(v) /\ Hi(v) <= Len(rows[v])
      /\ Len(ranges[v]) \in Nat /\ Len(ranges[v]) >= 1
      /\ ranges[v] \in Seq(Nat \X Nat)
      /\ ranges[v][1] = <<Lo(v), Hi(v)>>
  BY WriterFacts
<1>c. Chain(v)
  BY DEF RowsInOrder
<1> DEFINE mid == Lo(v) + (Hi(v) - Lo(v)) \div 2
           lo == Lo(v)
           hi == Hi(v)
           r == ranges[v]
           a == <<lo, mid>>
           b == <<mid, hi>>
           s == <<a, b>> \o Tail(r)
<1>1. mid \in Nat /\ lo <= mid /\ mid <= hi /\ lo \in Nat /\ hi \in Nat
  BY <1>0
<1>2. ranges'[v] = s /\ rpc'[v] = "write" /\ UNCHANGED rows
  BY <1>t DEF Bisect
<1>3. \A x \in Writers : x # v => ranges'[x] = ranges[x] /\ rpc'[x] = rpc[x]
  BY <1>t DEF Bisect
<1>4. r \in Seq(Nat \X Nat) /\ Len(r) \in Nat /\ Len(r) >= 1
  BY <1>0
<1>5. /\ \A i \in 1..Len(r) : r[i][1] <= r[i][2]
      /\ \A i \in 1..(Len(r) - 1) : r[i][2] = r[i + 1][1]
      /\ r[Len(r)][2] = Len(rows[v])
  BY <1>c DEF Chain
<1>6. r[1][1] = lo /\ r[1][2] = hi
  BY <1>0
<1>7. a[1] = lo /\ a[2] = mid /\ b[1] = mid /\ b[2] = hi
  OBVIOUS
<1> HIDE DEF mid, lo, hi, r
<1>8. /\ Tail(r) \in Seq(Nat \X Nat) /\ Len(Tail(r)) = Len(r) - 1
      /\ \A i \in 1..(Len(r) - 1) : Tail(r)[i] = r[i + 1]
  BY <1>4, HeadTailProperties
<1>9. a \in Nat \X Nat /\ b \in Nat \X Nat
  BY <1>1
<1> HIDE DEF a, b
<1>10. <<a, b>> \in Seq(Nat \X Nat) /\ Len(<<a, b>>) = 2 /\ <<a, b>>[1] = a /\ <<a, b>>[2] = b
  BY <1>9
<1>11. Len(s) = Len(r) + 1 /\ s[1] = a /\ s[2] = b
       /\ \A i \in 3..(Len(r) + 1) : s[i] = r[i - 1]
  <2> DEFINE u == <<a, b>>
             z == Tail(r)
  <2>1. /\ u \in Seq(Nat \X Nat) /\ z \in Seq(Nat \X Nat) /\ Len(u) = 2 /\ u[1] = a /\ u[2] = b
        /\ Len(z) = Len(r) - 1 /\ \A i \in 1..(Len(r) - 1) : z[i] = r[i + 1]
    BY <1>8, <1>10
  <2> HIDE DEF u, z
  <2>2. /\ Len(u \o z) = Len(u) + Len(z)
        /\ \A i \in 1..(Len(u) + Len(z)) :
             (u \o z)[i] = IF i <= Len(u) THEN u[i] ELSE z[i - Len(u)]
    BY <2>1, ConcatProperties
  <2>3. /\ Len(u \o z) = Len(r) + 1 /\ (u \o z)[1] = a /\ (u \o z)[2] = b
    <3>1. /\ 1 \in 1..(Len(u) + Len(z)) /\ 2 \in 1..(Len(u) + Len(z))
          /\ Len(u) + Len(z) = Len(r) + 1
      BY <1>4, <2>1
    <3>2. (u \o z)[1] = u[1] /\ (u \o z)[2] = u[2]
      BY <2>1, <2>2, <3>1
    <3> QED
      BY <2>1, <2>2, <3>1, <3>2
  <2>4. ASSUME NEW i \in 3..(Len(r) + 1) PROVE (u \o z)[i] = r[i - 1]
    <3>1. i \in 1..(Len(u) + Len(z)) /\ ~(i <= Len(u)) /\ i - Len(u) \in 1..(Len(r) - 1)
          /\ (i - Len(u)) + 1 = i - 1
      BY <1>4, <2>1
    <3> QED
      BY <2>1, <2>2, <3>1
  <2> QED
    BY <2>3, <2>4 DEF u, z
<1> HIDE DEF s
<1>12. /\ \A i \in 1..Len(s) : s[i][1] <= s[i][2]
       /\ \A i \in 1..(Len(s) - 1) : s[i][2] = s[i + 1][1]
       /\ s[Len(s)][2] = Len(rows[v])
  <2>1. ASSUME NEW i \in 1..Len(s) PROVE s[i][1] <= s[i][2]
    <3>1. CASE i = 1
      BY <1>1, <1>7, <1>11, <3>1
    <3>2. CASE i = 2
      BY <1>1, <1>7, <1>11, <3>2
    <3>3. CASE i \in 3..(Len(r) + 1)
      <4>1. s[i] = r[i - 1] /\ i - 1 \in 1..Len(r)
        BY <1>4, <1>11, <3>3
      <4> QED
        BY <1>5, <4>1
    <3> QED
      BY <1>4, <1>11, <3>1, <3>2, <3>3
  <2>2. ASSUME NEW i \in 1..(Len(s) - 1) PROVE s[i][2] = s[i + 1][1]
    <3>1. CASE i = 1
      <4>1. s[i] = a /\ s[i + 1] = b
        BY <1>11, <3>1
      <4> QED
        BY <1>7, <4>1
    <3>2. CASE i = 2
      <4>1. i + 1 \in 3..(Len(r) + 1) /\ (i + 1) - 1 = 2 /\ 1 \in 1..(Len(r) - 1) /\ 1 + 1 = 2
        <5>1. Len(s) - 1 = Len(r)
          BY <1>4, <1>11
        <5>2. Len(r) >= 2
          BY <1>4, <3>2, <5>1
        <5> QED
          BY <1>4, <3>2, <5>2
      <4>2. s[i + 1] = r[2] /\ r[1][2] = r[2][1]
        BY <1>5, <1>11, <4>1
      <4> QED
        BY <1>6, <1>7, <1>11, <3>2, <4>2
    <3>3. CASE i \in 3..Len(r)
      <4>1. /\ i \in 3..(Len(r) + 1) /\ i + 1 \in 3..(Len(r) + 1) /\ (i + 1) - 1 = i
            /\ i - 1 \in 1..(Len(r) - 1) /\ (i - 1) + 1 = i
        BY <1>4, <3>3
      <4>2. s[i] = r[i - 1] /\ s[i + 1] = r[i] /\ r[i - 1][2] = r[i][1]
        BY <1>5, <1>11, <4>1
      <4> QED
        BY <4>2
    <3> QED
      BY <1>4, <1>11, <3>1, <3>2, <3>3
  <2>3. s[Len(s)][2] = Len(rows[v])
    <3>1. CASE Len(r) = 1
      <4>1. Len(s) = 2
        BY <1>11, <3>1
      <4> QED
        BY <1>5, <1>6, <1>7, <1>11, <3>1, <4>1
    <3>2. CASE Len(r) # 1
      <4> DEFINE n == Len(r)
      <4>0. n \in Nat /\ n >= 1 /\ n # 1 /\ Len(s) = n + 1
        BY <1>4, <1>11, <3>2
      <4> HIDE DEF n
      <4>2. Len(s) \in 3..(n + 1) /\ Len(s) - 1 = n
        BY <4>0
      <4>1. Len(s) \in 3..(Len(r) + 1) /\ Len(s) - 1 = Len(r)
        BY <4>2 DEF n
      <4> QED
        BY <1>5, <1>11, <4>1
    <3> QED
      BY <3>1, <3>2
  <2> QED
    BY <2>1, <2>2, <2>3
<1>13. Chain(v)'
  BY <1>2, <1>12 DEF Chain
<1>14. s # <<>> /\ Head(s) = s[1]
  <2>1. s \in Seq(Nat \X Nat)
    BY <1>8, <1>10 DEF s
  <2> QED
    BY <1>4, <1>11, <2>1
<1>15. Lo(v)' = Lo(v)
  BY <1>2, <1>7, <1>11, <1>14 DEF Lo, lo
<1>16. Working(v)'
  BY <1>2 DEF Working
<1> QED
  BY <1>3, <1>13, <1>15, <1>16

\* The four kinds of step of a writer: it takes a batch, counts its range, halves
\* it, or moves on within the same range.
LEMMA WriterSteps ==
  ASSUME TypeInv, NEW v \in Writers, RunWriter(v)
  PROVE  /\ UNCHANGED offWriter
         /\ \/ TakeBatch(v)
            \/ /\ Working(v) /\ Return(v) /\ UNCHANGED batches
               /\ \E o : CountRange(v, o)
            \/ /\ Working(v) /\ Bisect(v) /\ UNCHANGED batches
            \/ /\ UNCHANGED <<rows, batches, ledger>> /\ UNCHANGED ranges
               /\ \A x \in Writers : Working(x)' = Working(x)
<1>t. rpc \in [Writers -> WriterState]
  BY DEF TypeInv, TypeOK, WriterType
<1>1. CASE TakeBatch(v)
  BY <1>1 DEF TakeBatch
<1>2. ASSUME NEW a \in WriterState, rpc' = [rpc EXCEPT ![v] = a],
             a \in {"recv", "exit"} <=> rpc[v] \in {"recv", "exit"}
      PROVE  \A x \in Writers : Working(x)' = Working(x)
  BY <1>t, <1>2 DEF Working
<1>3. CASE WriterExit(v)
  <2>1. rpc' = [rpc EXCEPT ![v] = "exit"] /\ rpc[v] = "recv"
    BY <1>3 DEF WriterExit
  <2>2. \A x \in Writers : Working(x)' = Working(x)
    BY <1>2, <2>1 DEF WriterState
  <2> QED
    BY <1>3, <2>2 DEF WriterExit, outcomeVars
<1>4. CASE WriteBatch(v)
  <2>1. rpc' = [rpc EXCEPT ![v] = "inflight"] /\ rpc[v] = "write"
    BY <1>4 DEF WriteBatch
  <2>2. \A x \in Writers : Working(x)' = Working(x)
    BY <1>2, <2>1 DEF WriterState
  <2> QED
    BY <1>4, <2>2 DEF WriteBatch, outcomeVars
<1>5. CASE DropUnwritten(v)
  BY <1>5 DEF DropUnwritten, Working
<1>6. ASSUME NEW ok \in BOOLEAN, SetHealthy(v, ok), rpc[v] = "inflight"
      PROVE  \A x \in Writers : Working(x)' = Working(x)
  <2>1. PICK a \in {"gaugeUp", "gaugeDown", "stored", "backoff"} : rpc' = [rpc EXCEPT ![v] = a]
    BY <1>6 DEF SetHealthy
  <2> QED
    BY <1>2, <1>6, <2>1 DEF WriterState
<1>7. CASE WriteSucceeds(v)
  <2>1. SetHealthy(v, TRUE) /\ rpc[v] = "inflight"
    BY <1>7 DEF WriteSucceeds
  <2>2. \A x \in Writers : Working(x)' = Working(x)
    BY <1>6, <2>1
  <2> QED
    BY <1>7, <2>2 DEF WriteSucceeds
<1>8. CASE WriteFails(v)
  <2>1. CASE ioCancelled
    BY <1>8, <2>1 DEF WriteFails, Working
  <2>2. CASE ~ioCancelled
    <3>1. SetHealthy(v, FALSE) /\ rpc[v] = "inflight"
      BY <1>8, <2>2 DEF WriteFails
    <3>2. \A x \in Writers : Working(x)' = Working(x)
      BY <1>6, <3>1
    <3> QED
      BY <1>8, <2>2, <3>2 DEF WriteFails
  <2> QED
    BY <2>1, <2>2
<1>9. CASE WriteRejected(v)
  BY <1>9 DEF WriteRejected, HandleRejected, Working
<1>10. CASE SetGauge(v)
  <2>1. PICK a \in {"stored", "backoff"} : rpc' = [rpc EXCEPT ![v] = a]
    BY <1>10 DEF SetGauge
  <2>2. \A x \in Writers : Working(x)' = Working(x)
    BY <1>2, <1>10, <2>1 DEF WriterState, SetGauge
  <2> QED
    BY <1>10, <2>2 DEF SetGauge, outcomeVars
<1>11. CASE RecordStored(v)
  BY <1>11 DEF RecordStored, Working
<1>12. CASE BackoffEnds(v)
  <2>1. rpc' = [rpc EXCEPT ![v] = "write"] /\ rpc[v] = "backoff"
    BY <1>12 DEF BackoffEnds
  <2>2. \A x \in Writers : Working(x)' = Working(x)
    BY <1>2, <2>1 DEF WriterState
  <2> QED
    BY <1>12, <2>2 DEF BackoffEnds, outcomeVars
<1> QED
  BY <1>1, <1>3, <1>4, <1>5, <1>7, <1>8, <1>9, <1>10, <1>11, <1>12 DEF RunWriter

\* A writer takes a batch, counts the rows of a range, or moves nothing: no row is
\* lost or counted twice by a bisected, retried or cancelled write.
LEMMA WriterMoves ==
  ASSUME MovesInv, NEW v \in Writers, RunWriter(v)
  PROVE  /\ PlacesInv' /\ CallsAgree' /\ OpenDistinct' /\ FlushedDistinct'
         /\ RowsInOrder'
<1>t. /\ PlacesInv /\ CallsAgree /\ OpenDistinct /\ FlushedDistinct /\ RowsInOrder /\ TypeInv
  BY MovesTypes
<1>1. UNCHANGED offWriter
  BY <1>t, WriterSteps
<1>2. OpenDistinct'
  <2>1. UNCHANGED batch
    BY <1>1 DEF workerVars
  <2> QED
    BY <1>t, <2>1 DEF OpenDistinct
<1>3. ASSUME UNCHANGED batches PROVE FlushedDistinct'
  BY <1>t, <1>3 DEF FlushedDistinct
<1>4. CASE TakeBatch(v)
  <2>1. UNCHANGED <<call, accepted, ledger>>
    BY <1>4 DEF TakeBatch, producerVars, outcomeVars
  <2>2. CallsAgree'
    BY <1>t, <2>1 DEF CallsAgree
  <2> QED
    BY <1>2, <1>4, <2>2, TakeBatchMoves
<1>5. CASE /\ Working(v) /\ Return(v) /\ UNCHANGED batches
           /\ \E o : CountRange(v, o)
  <2>1. PICK o : CountRange(v, o)
    BY <1>5
  <2>2. PlacesInv' /\ CallsAgree' /\ RowsInOrder'
    BY <1>1, <1>5, <2>1, CountMoves
  <2> QED
    BY <1>2, <1>3, <1>5, <2>2
<1>6. CASE Working(v) /\ Bisect(v) /\ UNCHANGED batches
  <2>1. /\ Lo(v)' = Lo(v) /\ Chain(v)' /\ Working(v)'
        /\ \A x \in Writers : x # v => ranges'[x] = ranges[x] /\ rpc'[x] = rpc[x]
    BY <1>t, <1>6, BisectKeepsChain
  <2>2. UNCHANGED <<rows, batches, ledger>>
    BY <1>6 DEF Bisect
  <2>3. \A x \in Writers : Working(x)' = Working(x)
    <3>1. Working(v) \in BOOLEAN /\ Working(v)' \in BOOLEAN
      BY DEF Working
    <3>2. Working(v)' = Working(v)
      BY <1>6, <2>1, <3>1
    <3>3. \A x \in Writers : x # v => Working(x)' = Working(x)
      BY <2>1 DEF Working
    <3> QED
      BY <3>2, <3>3
  <2>4. \A x \in Writers : Lo(x)' = Lo(x)
    BY <2>1 DEF Lo
  <2>5. \A x \in Writers : Working(x) /\ Chain(x) => Chain(x)'
    <3>1. \A x \in Writers : x # v /\ Chain(x) => Chain(x)'
      BY <2>1, <2>2 DEF Chain
    <3> QED
      BY <2>1, <3>1
  <2>6. PlacesInv' /\ CallsAgree' /\ RowsInOrder'
    BY <1>1, <2>2, <2>3, <2>4, <2>5, WriterStays
  <2> QED
    BY <1>2, <1>3, <1>6, <2>6
<1>7. CASE /\ UNCHANGED <<rows, batches, ledger>> /\ UNCHANGED ranges
           /\ \A x \in Writers : Working(x)' = Working(x)
  <2>1. \A x \in Writers : Lo(x)' = Lo(x)
    BY <1>7 DEF Lo
  <2>2. \A x \in Writers : Working(x) /\ Chain(x) => Chain(x)'
    BY <1>7 DEF Chain
  <2>3. PlacesInv' /\ CallsAgree' /\ RowsInOrder'
    BY <1>1, <1>7, <2>1, <2>2, WriterStays
  <2> QED
    BY <1>2, <1>3, <1>7, <2>3
<1> QED
  BY <1>t, <1>4, <1>5, <1>6, <1>7, WriterSteps

\* Every step keeps each accepted message in one place.
LEMMA NextKeepsMoves == MovesInv /\ [Next]_vars => MovesInv'
<1> SUFFICES ASSUME MovesInv, [Next]_vars PROVE MovesInv'
  OBVIOUS
<1>t. /\ PlacedInv /\ PlacesInv /\ CallsAgree /\ OpenDistinct /\ FlushedDistinct /\ RowsInOrder
  BY MovesTypes
<1>0. PlacedInv'
  BY <1>t, NextKeepsPlaced
<1>1. ASSUME UNCHANGED <<accepted, ledger, wpc, hand, batch, batches, rpc, rows, ranges>>,
             UNCHANGED queue,
             \A m \in Messages : call[m] = call'[m] \/ {call[m], call'[m]} \cap {"added", "done"} = {}
      PROVE  MovesInv'
  <2>1. /\ \A w \in Workers : InHand(w)' = InHand(w)
        /\ \A v \in Writers : Unwritten(v)' = Unwritten(v)
    BY <1>1 DEF InHand, Unwritten, Working, Lo
  <2>2. Takes({}, <<"counted">>)
    BY <1>1, <2>1, SamePlaces
  <2>3. PlacesInv'
    BY <1>t, <1>1, <2>2, TakesKeepsPlaces
  <2>4. CallsAgree'
    BY <1>t, <1>1 DEF CallsAgree
  <2>5. OpenDistinct' /\ FlushedDistinct' /\ RowsInOrder'
    BY <1>t, <1>1 DEF OpenDistinct, FlushedDistinct, RowsInOrder, Working, Chain
  <2> QED
    BY <1>0, <2>3, <2>4, <2>5 DEF MovesInv
<1>2. CASE \E m \in Messages : Producer(m)
  BY <1>0, <1>2, ProducerMoves DEF MovesInv
<1>3. CASE \E w \in Workers : RunWorker(w)
  BY <1>0, <1>3, WorkerMoves DEF MovesInv
<1>4. CASE \E v \in Writers : RunWriter(v)
  BY <1>0, <1>4, WriterMoves DEF MovesInv
<1>5. CASE Grant
  <2>1. /\ UNCHANGED <<accepted, ledger, wpc, hand, batch, batches, rpc, rows, ranges>>
        /\ UNCHANGED queue /\ call' = Moved(Head(waiters), "send")
    BY <1>5 DEF Grant, queueVars, outcomeVars, workerVars, writerVars
  <2>2. call[Head(waiters)] = "wait" /\ call \in [Messages -> CallState]
    <3>1. notifying
      BY <1>5 DEF Grant
    <3>2. waiters # <<>> /\ waiters \in Seq(Messages) /\ WaitersInLine
      BY <1>t, <3>1 DEF PlacedInv, ChannelInv, TypeInv, NotifyingSomebody, TypeOK, BudgetType
    <3>3. Head(waiters) = waiters[1] /\ 1 \in 1..Len(waiters)
      BY <3>2
    <3> QED
      BY <3>2, <3>3, MovesTypes DEF WaitersInLine
  <2> QED
    BY <1>1, <2>1, <2>2 DEF Moved
<1>6. CASE Close
  <2>1. UNCHANGED offClose
    BY <1>6 DEF Close, Stop, LockWait, CloseQueue, CloseBatches, Expire, CloseReturn
  <2> QED
    BY <1>1, <2>1 DEF queueVars, outcomeVars, workerVars, writerVars, producerVars
<1>7. CASE UNCHANGED vars
  BY <1>1, <1>7 DEF vars
<1> QED
  BY <1>2, <1>3, <1>4, <1>5, <1>6, <1>7 DEF Next, Finished

-----------------------------------------------------------------------------
(***************************************************************************)
(* The counters tell the truth.                                            *)
(***************************************************************************)
LedgerOnce == \A m \in Messages : Len(ledger[m]) <= 1

DiskIsTrue ==
    /\ disk \subseteq accepted \ Poison
    /\ \A v \in Writers : rpc[v] \in {"stored", "gaugeUp"} => InRange(v) \subseteq disk

TruthInv == MovesInv /\ LedgerOnce /\ DiskIsTrue /\ OutcomeIsTrue

\* Initially nothing is counted or stored.
LEMMA InitTruth == Init => TruthInv
<1> SUFFICES ASSUME Init PROVE TruthInv
  OBVIOUS
<1>1. LedgerOnce /\ DiskIsTrue
  BY DEF Init, LedgerOnce, DiskIsTrue
<1>2. \A m \in Messages : Outcomes(m) = {}
  BY DEF Init, Outcomes, ToSet
<1>3. OutcomeIsTrue
  BY <1>2 DEF OutcomeIsTrue, Init
<1> QED
  BY <1>1, <1>3, InitMoves DEF TruthInv

\* A step that counts nothing, accepts only what was not counted, and stores only
\* what was accepted.
LEMMA NothingCounted ==
  ASSUME LedgerOnce, OutcomeIsTrue, UNCHANGED ledger,
         ioCancelled => ioCancelled', disk \subseteq disk', disk' \subseteq accepted' \ Poison,
         accepted \subseteq accepted',
         \A m \in accepted' : m \in accepted \/ Outcomes(m) = {}
  PROVE  LedgerOnce' /\ OutcomeIsTrue'
<1>1. \A m \in Messages : Outcomes(m)' = Outcomes(m)
  BY DEF Outcomes
<1>2. LedgerOnce'
  BY DEF LedgerOnce
<1>3. OutcomeIsTrue'
  BY <1>1 DEF OutcomeIsTrue
<1> QED
  BY <1>2, <1>3

\* A ledger of one entry.
LEMMA SingleOutcome ==
  ASSUME NEW o
  PROVE  Len(<<o>>) = 1 /\ ToSet(<<o>>) = {o} /\ Len(<<>>) = 0 /\ ToSet(<<>>) = {}
  BY DEF ToSet

\* A refused message was not accepted, so it is not stored.
LEMMA ProducerTruth ==
  ASSUME TruthInv, NEW m \in Messages, Producer(m)
  PROVE  LedgerOnce' /\ DiskIsTrue' /\ OutcomeIsTrue'
<1>t. /\ MovesInv /\ PlacedInv /\ CallsAgree /\ NotYetAccepted
      /\ LedgerOnce /\ DiskIsTrue /\ OutcomeIsTrue
      /\ ledger \in [Messages -> Seq(Outcome)] /\ accepted \subseteq Messages
  BY MovesTypes DEF TruthInv, PlacedInv
<1>1. UNCHANGED <<rpc, rows, ranges>> /\ UNCHANGED disk /\ UNCHANGED ioCancelled
  <2>1. UNCHANGED offProducer /\ UNCHANGED disk
    BY DEF Producer, Enter, TryAcquire, TrySend, Acquire, BlockingSend, AddBytes,
        CallerGone, WokenByStop, AbortEnqueue, AccountRefused, outcomeVars
  <2> QED
    BY <2>1 DEF writerVars, closeVars
<1>2. accepted \subseteq accepted'
  BY <1>t, ProducerCounts DEF SendToQueue
<1>3. DiskIsTrue'
  BY <1>t, <1>1, <1>2 DEF DiskIsTrue, InRange, Lo, Hi
<1>4. CASE UNCHANGED ledger
  <2>1. \A x \in accepted' : x \in accepted \/ Outcomes(x) = {}
    <3>1. CASE UNCHANGED accepted
      BY <3>1
    <3>2. CASE call[m] \notin {"added", "done"} /\ SendToQueue(m)
      <4>1. ledger[m] = <<>>
        BY <1>t, <3>2 DEF CallsAgree
      <4>2. Outcomes(m) = {}
        BY <4>1, SingleOutcome DEF Outcomes
      <4> QED
        BY <3>2, <4>2 DEF SendToQueue
    <3> QED
      BY <1>t, <3>1, <3>2, ProducerCounts
  <2>2. disk' \subseteq accepted' \ Poison
    BY <1>3 DEF DiskIsTrue
  <2> QED
    BY <1>t, <1>1, <1>2, <1>3, <1>4, <2>1, <2>2, NothingCounted
<1>5. CASE /\ UNCHANGED <<accepted, queue>> /\ call[m] \notin {"added", "done"}
           /\ \E o \in {"shutdown", "queue_full", "http_503"} : Count(m, o)
  <2>1. PICK o \in {"shutdown", "queue_full", "http_503"} : Count(m, o)
    BY <1>5
  <2>2. ledger[m] = <<>> /\ m \notin accepted
    BY <1>t, <1>5 DEF CallsAgree, NotYetAccepted
  <2>3. ledger'[m] = <<o>> /\ \A x \in Messages : x # m => ledger'[x] = ledger[x]
    <3>1. ledger'[m] = Append(ledger[m], o) /\ \A x \in Messages : x # m => ledger'[x] = ledger[x]
      BY <1>t, <2>1 DEF Count
    <3> QED
      BY <2>2, <3>1
  <2>4. Outcomes(m)' = {o} /\ Len(ledger'[m]) = 1
    BY <2>3, SingleOutcome DEF Outcomes
  <2>5. \A x \in Messages : x # m => Outcomes(x)' = Outcomes(x)
    BY <2>3 DEF Outcomes
  <2>6. LedgerOnce'
    <3>1. Len(ledger'[m]) <= 1
      BY <2>4
    <3>2. \A x \in Messages : x # m => Len(ledger'[x]) <= 1
      BY <1>t, <2>3 DEF LedgerOnce
    <3> QED
      BY <3>1, <3>2 DEF LedgerOnce
  <2>7. m \notin disk'
    BY <1>t, <1>1, <2>2 DEF DiskIsTrue
  <2>8. OutcomeIsTrue'
    <3> SUFFICES ASSUME NEW x \in Messages
                 PROVE  /\ "stored" \in Outcomes(x)' => x \in disk'
                        /\ "rejected" \in Outcomes(x)' => x \in Poison \ disk'
                        /\ x \in accepted' /\ "shutdown" \in Outcomes(x)' => ioCancelled'
                        /\ x \in accepted' => Outcomes(x)' \cap {"queue_full", "http_503"} = {}
                        /\ x \notin accepted' => x \notin disk'
                             /\ Outcomes(x)' \cap {"stored", "rejected"} = {}
      BY DEF OutcomeIsTrue
    <3>1. CASE x = m
      BY <1>5, <2>2, <2>4, <2>7, <3>1
    <3>2. CASE x # m
      BY <1>t, <1>1, <1>5, <2>5, <3>2 DEF OutcomeIsTrue
    <3> QED
      BY <3>1, <3>2
  <2> QED
    BY <1>3, <2>6, <2>8
<1> QED
  BY <1>t, <1>4, <1>5, ProducerCounts

\* The rows of a range are counted under the outcome they really had.
LEMMA CountTruth ==
  ASSUME TruthInv, NEW v \in Writers, Working(v), Return(v),
         NEW o, CountRange(v, o), UNCHANGED batches, UNCHANGED offWriter,
         disk \subseteq disk', disk' \subseteq accepted \ Poison,
         \/ o = "shutdown" /\ ioCancelled
         \/ o = "stored" /\ InRange(v) \subseteq disk'
         \/ o = "rejected" /\ InRange(v) \subseteq Poison
  PROVE  LedgerOnce' /\ DiskIsTrue' /\ OutcomeIsTrue'
<1>t. /\ MovesInv /\ LedgerOnce /\ DiskIsTrue /\ OutcomeIsTrue
      /\ accepted \subseteq Messages /\ TypeInv
      /\ rpc \in [Writers -> WriterState] /\ rows \in [Writers -> Seq(Messages)]
      /\ ranges \in [Writers -> Seq(Nat \X Nat)]
  BY MovesTypes DEF TruthInv
<1>0. PICK X : X = InRange(v)
  OBVIOUS
<1>1. /\ X \subseteq accepted
      /\ \A m \in X : ledger'[m] = <<o>>
      /\ \A m \in Messages : m \notin X => ledger'[m] = ledger[m]
  BY <1>t, <1>0, CountMoves
<1>2. UNCHANGED accepted /\ UNCHANGED ioCancelled
  BY DEF producerVars, closeVars
<1>3. \A m \in X : Outcomes(m)' = {o} /\ Len(ledger'[m]) = 1
  BY <1>1, SingleOutcome DEF Outcomes
<1>4. \A m \in Messages : m \notin X => Outcomes(m)' = Outcomes(m)
  BY <1>1 DEF Outcomes
<1>5. LedgerOnce'
  <2>1. \A m \in X : Len(ledger'[m]) <= 1
    <3>1. 1 <= 1
      OBVIOUS
    <3> QED
      BY <1>3, <3>1
  <2>2. \A m \in Messages : m \notin X => Len(ledger'[m]) <= 1
    BY <1>t, <1>1 DEF LedgerOnce
  <2> QED
    BY <2>1, <2>2 DEF LedgerOnce
<1>6. OutcomeIsTrue'
  <2> SUFFICES ASSUME NEW x \in Messages
               PROVE  /\ "stored" \in Outcomes(x)' => x \in disk'
                      /\ "rejected" \in Outcomes(x)' => x \in Poison \ disk'
                      /\ x \in accepted' /\ "shutdown" \in Outcomes(x)' => ioCancelled'
                      /\ x \in accepted' => Outcomes(x)' \cap {"queue_full", "http_503"} = {}
                      /\ x \notin accepted' => x \notin disk'
                           /\ Outcomes(x)' \cap {"stored", "rejected"} = {}
    BY DEF OutcomeIsTrue
  <2>1. CASE x \in X
    <3>1. x \in accepted' /\ Outcomes(x)' = {o}
      BY <1>1, <1>2, <1>3, <2>1
    <3>2. CASE o = "shutdown" /\ ioCancelled
      BY <1>2, <3>1, <3>2
    <3>3. CASE o = "stored" /\ X \subseteq disk'
      BY <2>1, <3>1, <3>3
    <3>4. CASE o = "rejected" /\ X \subseteq Poison
      BY <2>1, <3>1, <3>4
    <3> QED
      BY <1>0, <3>2, <3>3, <3>4
  <2>2. CASE x \notin X
    BY <1>t, <1>2, <1>4, <2>2 DEF OutcomeIsTrue
  <2> QED
    BY <2>1, <2>2
<1>7. DiskIsTrue'
  <2>1. ASSUME NEW x \in Writers, rpc'[x] \in {"stored", "gaugeUp"}
        PROVE  x # v /\ rpc'[x] = rpc[x] /\ rows'[x] = rows[x] /\ ranges'[x] = ranges[x]
    BY <1>t, <2>1 DEF Return
  <2>2. \A x \in Writers : rows'[x] = rows[x] /\ ranges'[x] = ranges[x] => InRange(x)' = InRange(x)
    BY DEF InRange, Lo, Hi
  <2> QED
    BY <1>t, <1>2, <2>1, <2>2 DEF DiskIsTrue
<1> QED
  BY <1>5, <1>6, <1>7

\* A writer's step that counts nothing: it may have stored its range.
LEMMA UncountedTruth ==
  ASSUME TruthInv, NEW v \in Writers, UNCHANGED ledger, UNCHANGED offWriter,
         disk \subseteq disk', disk' \subseteq accepted \ Poison,
         \A x \in Writers : x # v =>
            rpc'[x] = rpc[x] /\ rows'[x] = rows[x] /\ ranges'[x] = ranges[x],
         rpc'[v] \in {"stored", "gaugeUp"} => InRange(v)' \subseteq disk'
  PROVE  LedgerOnce' /\ DiskIsTrue' /\ OutcomeIsTrue'
<1>t. LedgerOnce /\ DiskIsTrue /\ OutcomeIsTrue
  BY DEF TruthInv
<1>1. UNCHANGED accepted /\ UNCHANGED ioCancelled
  BY DEF producerVars, closeVars
<1>2. \A x \in Writers : x # v => InRange(x)' = InRange(x)
  BY DEF InRange, Lo, Hi
<1>3. DiskIsTrue'
  BY <1>t, <1>1, <1>2 DEF DiskIsTrue
<1> QED
  BY <1>t, <1>1, <1>3, NothingCounted

\* A range of one row that the backend rejects is that poisoned row.
LEMMA RejectedIsPoison ==
  ASSUME TypeInv, RowsInOrder, NEW v \in Writers, Working(v),
         InRange(v) \cap Poison # {}, ~(Hi(v) - Lo(v) > 1)
  PROVE  InRange(v) \subseteq Poison
<1>1. /\ Lo(v) \in Nat /\ Hi(v) \in Nat /\ Lo(v) <= Hi(v)
      /\ InRange(v) = {rows[v][j] : j \in (Lo(v) + 1)..Hi(v)}
  BY WriterFacts
<1>2. \A i, j \in (Lo(v) + 1)..Hi(v) : i = j
  BY <1>1
<1>3. PICK p : p \in InRange(v) /\ p \in Poison
  OBVIOUS
<1>4. PICK i \in (Lo(v) + 1)..Hi(v) : p = rows[v][i]
  BY <1>1, <1>3
<1>5. ASSUME NEW x \in InRange(v) PROVE x \in Poison
  <2>1. PICK j \in (Lo(v) + 1)..Hi(v) : x = rows[v][j]
    BY <1>1
  <2>2. i = j
    BY <1>2
  <2> QED
    BY <1>3, <1>4, <2>1, <2>2
<1> QED
  BY <1>5

\* A writer counts as stored what the backend has, as rejected what it refuses, and as
\* lost to the shutdown only once its context is cancelled.
LEMMA WriterTruth ==
  ASSUME TruthInv, NEW v \in Writers, RunWriter(v)
  PROVE  LedgerOnce' /\ DiskIsTrue' /\ OutcomeIsTrue'
<1>t. /\ MovesInv /\ DiskIsTrue /\ RowsInOrder
      /\ TypeInv /\ rpc \in [Writers -> WriterState]
      /\ rows \in [Writers -> Seq(Messages)] /\ ranges \in [Writers -> Seq(Nat \X Nat)]
  BY MovesTypes DEF TruthInv
<1>d. disk \subseteq accepted \ Poison
  BY <1>t DEF DiskIsTrue
<1>r. Working(v) => InRange(v) \subseteq accepted
  <2> SUFFICES ASSUME Working(v) PROVE InRange(v) \subseteq accepted
    OBVIOUS
  <2>1. /\ Lo(v) \in Nat /\ Hi(v) \in Nat /\ Hi(v) <= Len(rows[v]) /\ Len(rows[v]) \in Nat
        /\ InRange(v) = {rows[v][j] : j \in (Lo(v) + 1)..Hi(v)}
    BY <1>t, WriterFacts
  <2>2. \A j \in (Lo(v) + 1)..Hi(v) : j \in (Lo(v) + 1)..Len(rows[v])
    BY <2>1
  <2>3. InRange(v) \subseteq Unwritten(v)
    BY <2>1, <2>2 DEF Unwritten
  <2>4. \A m \in InRange(v) : At(m, <<"writer", v>>)
    BY <2>3, AtPlace
  <2>5. <<"writer", v>> # <<"counted">>
    OBVIOUS
  <2> QED
    BY <1>t, <2>4, <2>5 DEF MovesInv, PlacesInv, AcceptedOnly
<1>s. UNCHANGED offWriter
  BY <1>t, WriterSteps
<1>u. ASSUME UNCHANGED ledger, disk \subseteq disk', disk' \subseteq accepted \ Poison,
             \A x \in Writers : x # v =>
                rpc'[x] = rpc[x] /\ rows'[x] = rows[x] /\ ranges'[x] = ranges[x],
             rpc'[v] \in {"stored", "gaugeUp"} => InRange(v)' \subseteq disk'
      PROVE  LedgerOnce' /\ DiskIsTrue' /\ OutcomeIsTrue'
  BY <1>s, <1>u, UncountedTruth
<1>c. ASSUME NEW o, Working(v), Return(v), CountRange(v, o), UNCHANGED batches,
             disk \subseteq disk', disk' \subseteq accepted \ Poison,
             \/ o = "shutdown" /\ ioCancelled
             \/ o = "stored" /\ InRange(v) \subseteq disk'
             \/ o = "rejected" /\ InRange(v) \subseteq Poison
      PROVE  LedgerOnce' /\ DiskIsTrue' /\ OutcomeIsTrue'
  BY <1>s, <1>c, CountTruth
<1>1. CASE TakeBatch(v) \/ WriterExit(v) \/ WriteBatch(v) \/ BackoffEnds(v)
  <2>1. /\ UNCHANGED ledger /\ UNCHANGED disk
        /\ \A x \in Writers : x # v =>
             rpc'[x] = rpc[x] /\ rows'[x] = rows[x] /\ ranges'[x] = ranges[x]
        /\ rpc'[v] \notin {"stored", "gaugeUp"}
    BY <1>t, <1>1 DEF TakeBatch, WriterExit, WriteBatch, BackoffEnds, outcomeVars
  <2> QED
    BY <1>d, <1>u, <2>1
<1>2. CASE DropUnwritten(v)
  BY <1>c, <1>d, <1>2 DEF DropUnwritten, Working
<1>3. CASE WriteSucceeds(v)
  <2>1. /\ UNCHANGED <<rows, ranges>> /\ UNCHANGED ledger /\ disk' = disk \cup InRange(v)
        /\ InRange(v) \cap Poison = {} /\ Working(v)
    BY <1>3 DEF WriteSucceeds, Working
  <2>2. InRange(v)' = InRange(v)
    BY <2>1 DEF InRange, Lo, Hi
  <2>3. \A x \in Writers : x # v => rpc'[x] = rpc[x]
    BY <1>t, <1>3 DEF WriteSucceeds, SetHealthy
  <2>4. disk \subseteq disk' /\ disk' \subseteq accepted \ Poison /\ InRange(v)' \subseteq disk'
    BY <1>d, <1>r, <2>1, <2>2
  <2> QED
    BY <1>u, <2>1, <2>3, <2>4
<1>4. CASE WriteFails(v)
  <2>1. disk \subseteq disk' /\ disk' \subseteq accepted \ Poison /\ Working(v) /\ UNCHANGED batches
    <3>1. Working(v) /\ UNCHANGED batches
      BY <1>4 DEF WriteFails, Working
    <3>2. UNCHANGED disk \/ (InRange(v) \cap Poison = {} /\ disk' = disk \cup InRange(v))
      BY <1>4 DEF WriteFails
    <3> QED
      BY <1>d, <1>r, <3>1, <3>2
  <2>2. CASE ioCancelled
    <3>1. CountRange(v, "shutdown") /\ Return(v)
      BY <1>4, <2>2 DEF WriteFails
    <3> QED
      BY <1>c, <2>1, <2>2, <3>1
  <2>3. CASE ~ioCancelled
    <3>1. SetHealthy(v, FALSE) /\ UNCHANGED <<rows, ranges>> /\ UNCHANGED ledger
      BY <1>4, <2>3 DEF WriteFails
    <3>2. PICK a \in {"gaugeDown", "backoff"} : rpc' = [rpc EXCEPT ![v] = a]
      BY <3>1 DEF SetHealthy
    <3>3. /\ \A x \in Writers : x # v => rpc'[x] = rpc[x]
          /\ rpc'[v] \notin {"stored", "gaugeUp"}
      BY <1>t, <3>2
    <3> QED
      BY <1>u, <2>1, <3>1, <3>3
  <2> QED
    BY <2>2, <2>3
<1>5. CASE WriteRejected(v)
  <2>1. Working(v) /\ UNCHANGED batches /\ UNCHANGED disk /\ InRange(v) \cap Poison # {}
    BY <1>5 DEF WriteRejected, Working
  <2>2. CASE ioCancelled
    <3>1. CountRange(v, "shutdown") /\ Return(v)
      BY <1>5, <2>2 DEF WriteRejected
    <3> QED
      BY <1>c, <1>d, <2>1, <2>2, <3>1
  <2>3. CASE ~ioCancelled /\ Hi(v) - Lo(v) > 1
    <3>1. Bisect(v)
      BY <1>5, <2>3 DEF WriteRejected, HandleRejected
    <3>2. /\ UNCHANGED ledger /\ rpc'[v] = "write"
          /\ \A x \in Writers : x # v =>
               rpc'[x] = rpc[x] /\ rows'[x] = rows[x] /\ ranges'[x] = ranges[x]
      BY <1>t, <3>1 DEF Bisect
    <3> QED
      BY <1>d, <1>u, <2>1, <3>2
  <2>4. CASE ~ioCancelled /\ ~(Hi(v) - Lo(v) > 1)
    <3>1. CountRange(v, "rejected") /\ Return(v)
      BY <1>5, <2>4 DEF WriteRejected, HandleRejected
    <3>2. InRange(v) \subseteq Poison
      BY <1>t, <2>1, <2>4, RejectedIsPoison
    <3> QED
      BY <1>c, <1>d, <2>1, <3>1, <3>2
  <2> QED
    BY <2>2, <2>3, <2>4
<1>6. CASE SetGauge(v)
  <2>1. /\ UNCHANGED <<rows, ranges>> /\ UNCHANGED ledger /\ UNCHANGED disk
        /\ \A x \in Writers : x # v => rpc'[x] = rpc[x]
        /\ rpc'[v] \in {"stored", "gaugeUp"} => rpc[v] = "gaugeUp"
    BY <1>t, <1>6 DEF SetGauge, outcomeVars
  <2>2. InRange(v)' = InRange(v)
    BY <2>1 DEF InRange, Lo, Hi
  <2>3. rpc'[v] \in {"stored", "gaugeUp"} => InRange(v)' \subseteq disk'
    BY <1>t, <2>1, <2>2 DEF DiskIsTrue
  <2> QED
    BY <1>d, <1>u, <2>1, <2>3
<1>7. CASE RecordStored(v)
  <2>1. InRange(v) \subseteq disk
    BY <1>t, <1>7 DEF RecordStored, DiskIsTrue
  <2>2. /\ Working(v) /\ Return(v) /\ CountRange(v, "stored") /\ UNCHANGED batches
        /\ UNCHANGED disk
    BY <1>7 DEF RecordStored, Working
  <2> QED
    BY <1>c, <1>d, <2>1, <2>2
<1> QED
  BY <1>1, <1>2, <1>3, <1>4, <1>5, <1>6, <1>7 DEF RunWriter

\* Every step keeps the counters true.
LEMMA NextKeepsTruth == TruthInv /\ [Next]_vars => TruthInv'
<1> SUFFICES ASSUME TruthInv, [Next]_vars PROVE TruthInv'
  OBVIOUS
<1>t. MovesInv /\ LedgerOnce /\ DiskIsTrue /\ OutcomeIsTrue /\ TypeInv
  BY MovesTypes DEF TruthInv
<1>0. MovesInv'
  BY <1>t, NextKeepsMoves
<1>1. ASSUME UNCHANGED <<accepted, ledger, disk>>, UNCHANGED <<rpc, rows, ranges>>,
             ioCancelled => ioCancelled'
      PROVE  TruthInv'
  <2>1. DiskIsTrue'
    BY <1>t, <1>1 DEF DiskIsTrue, InRange, Lo, Hi
  <2>2. /\ disk \subseteq disk' /\ disk' \subseteq accepted' \ Poison /\ UNCHANGED ledger
        /\ accepted \subseteq accepted' /\ \A m \in accepted' : m \in accepted \/ Outcomes(m) = {}
    BY <1>1, <2>1 DEF DiskIsTrue
  <2>3. LedgerOnce' /\ OutcomeIsTrue'
    BY <1>t, <1>1, <2>2, NothingCounted
  <2> QED
    BY <1>0, <2>1, <2>3 DEF TruthInv
<1>2. CASE \E m \in Messages : Producer(m)
  BY <1>0, <1>2, ProducerTruth DEF TruthInv
<1>3. CASE \E w \in Workers : RunWorker(w)
  <2>1. PICK w \in Workers : RunWorker(w)
    BY <1>3
  <2>2. UNCHANGED offWorker
    BY <2>1 DEF RunWorker, Receive, Process, FlushFull, SubtractBytes, ReleaseBudget,
       TimerFires, QueueClosed, FlushNext, FlushAllDone
  <2> QED
    BY <1>1, <2>2 DEF producerVars, closeVars, writerVars, outcomeVars
<1>4. CASE \E v \in Writers : RunWriter(v)
  BY <1>0, <1>4, WriterTruth DEF TruthInv
<1>5. CASE Grant
  BY <1>1, <1>5 DEF Grant, outcomeVars, writerVars, closeVars
<1>6. CASE Close
  <2>1. UNCHANGED offClose /\ (ioCancelled => ioCancelled')
    BY <1>6 DEF Close, Stop, LockWait, CloseQueue, CloseBatches, Expire, CloseReturn
  <2> QED
    BY <1>1, <2>1 DEF outcomeVars, writerVars, producerVars
<1>7. CASE UNCHANGED vars
  BY <1>1, <1>7 DEF vars
<1> QED
  BY <1>2, <1>3, <1>4, <1>5, <1>6, <1>7 DEF Next, Finished

-----------------------------------------------------------------------------
(***************************************************************************)
(* Close returns with everything drained.                                  *)
(***************************************************************************)
Drained ==
    /\ \A w \in Workers : draining[w] => closed /\ queue = <<>>
    /\ \A w \in Workers : wpc[w] = "exit" => draining[w]
    /\ \A v \in Writers : rpc[v] = "exit" => batches = <<>> /\ batchesClosed
    /\ closer = "returned" => WorkersDone /\ WritersDone

AccountingInv == TruthInv /\ StrandedInv /\ Drained

\* The inductive invariant holds initially.
LEMMA InitAccounting == Init => AccountingInv
<1> SUFFICES ASSUME Init PROVE Drained
  BY InitTruth, InitStranded DEF AccountingInv
<1> QED
  BY DEF Init, Drained

\* The producers and the semaphore: nothing enters the queue once it is closed.
LEMMA ProducerDrained ==
  ASSUME ChannelInv, Drained, NEW m \in Messages, Producer(m)
  PROVE  Drained'
<1>1. UNCHANGED <<closer, closed, ioCancelled, batchesClosed>> /\ UNCHANGED <<wpc, draining>>
      /\ UNCHANGED batches /\ UNCHANGED rpc
  BY DEF Producer, Enter, TryAcquire, TrySend, Acquire, BlockingSend, AddBytes,
      CallerGone, WokenByStop, AbortEnqueue, AccountRefused, closeVars, workerVars, writerVars
<1>2. closed => UNCHANGED queue
  <2> SUFFICES ASSUME closed PROVE UNCHANGED queue
    OBVIOUS
  <2>1. call[m] \notin ReadLocked
    BY DEF ChannelInv, NoSendOnClosed
  <2> QED
    BY <2>1 DEF Producer, Enter, TryAcquire, TrySend, Acquire, BlockingSend, AddBytes,
        CallerGone, WokenByStop, AbortEnqueue, AccountRefused, queueVars, ReadLocked
<1> QED
  BY <1>1, <1>2 DEF Drained, WorkersDone, WritersDone

\* A worker exits only after the closed queue was found empty; it sends no batch
\* once the batch queue is closed.
LEMMA WorkerDrained ==
  ASSUME ChannelInv, Drained, NEW w \in Workers, RunWorker(w)
  PROVE  Drained'
<1>t. wpc \in [Workers -> WorkerState] /\ draining \in [Workers -> BOOLEAN]
  BY DEF ChannelInv, TypeInv, TypeOK, WorkerType
<1>1. UNCHANGED <<closer, closed, ioCancelled, batchesClosed>> /\ UNCHANGED rpc
  BY DEF RunWorker, Receive, Process, FlushFull, SubtractBytes, ReleaseBudget, TimerFires,
      QueueClosed, FlushNext, FlushAllDone, closeVars, writerVars
<1>2. wpc[w] # "exit" /\ ~batchesClosed
  <2>1. wpc[w] # "exit"
    BY DEF RunWorker, Receive, Process, FlushFull, SubtractBytes, ReleaseBudget, TimerFires,
        QueueClosed, FlushNext, FlushAllDone
  <2> QED
    BY <2>1 DEF ChannelInv, NoSendOnClosed
<1>3. closer # "returned"
  BY <1>2 DEF Drained, WorkersDone
<1>4. \A v \in Writers : rpc[v] # "exit"
  BY <1>2 DEF Drained
<1>5. CASE QueueClosed(w)
  <2>1. /\ closed /\ queue = <<>> /\ UNCHANGED queue
        /\ draining' = [draining EXCEPT ![w] = TRUE] /\ wpc' = [wpc EXCEPT ![w] = "flushall"]
    BY <1>5 DEF QueueClosed, AfterQueueClosed, queueVars
  <2> QED
    BY <1>t, <1>1, <1>3, <1>4, <2>1 DEF Drained
<1>6. CASE ~QueueClosed(w)
  <2>1. UNCHANGED draining
    BY <1>6 DEF RunWorker, Receive, Process, FlushFull, SubtractBytes, ReleaseBudget,
        TimerFires, FlushNext, FlushAllDone
  <2>2. \A x \in Workers : wpc'[x] = "exit" => draining[x]
    <3>1. CASE FlushAllDone(w)
      <4>1. wpc' = [wpc EXCEPT ![w] = IF draining[w] THEN "exit" ELSE "recv"]
        BY <3>1 DEF FlushAllDone
      <4> QED
        BY <1>t, <4>1 DEF Drained
    <3>2. CASE ~FlushAllDone(w)
      <4>1. \E a \in WorkerState \ {"exit"} : wpc' = [wpc EXCEPT ![w] = a]
        <5>1. CASE FlushNext(w)
          <6>1. wpc' = wpc
            BY <5>1 DEF FlushNext
          <6>2. wpc' = [wpc EXCEPT ![w] = wpc[w]]
            BY <1>t, <6>1
          <6> QED
            BY <1>t, <1>2, <6>2
        <5>2. CASE ~FlushNext(w)
          BY <1>6, <3>2, <5>2 DEF RunWorker, Receive, Process, FlushFull, SubtractBytes,
             ReleaseBudget, TimerFires, WorkerState
        <5> QED
          BY <5>1, <5>2
      <4> QED
        BY <1>t, <4>1 DEF Drained
    <3> QED
      BY <3>1, <3>2
  <2>3. queue = <<>> => queue' = <<>>
    BY <1>6 DEF RunWorker, Receive, Process, FlushFull, SubtractBytes, ReleaseBudget,
        TimerFires, FlushNext, FlushAllDone, queueVars
  <2> QED
    BY <1>1, <1>3, <1>4, <2>1, <2>2, <2>3 DEF Drained
<1> QED
  BY <1>5, <1>6

\* A writer exits only when the closed batch queue is empty.
LEMMA WriterDrained ==
  ASSUME ChannelInv, Drained, NEW v \in Writers, RunWriter(v)
  PROVE  Drained'
<1>t. rpc \in [Writers -> WriterState]
  BY DEF ChannelInv, TypeInv, TypeOK, WriterType
<1>s. UNCHANGED offWriter
  BY WriterSteps DEF ChannelInv
<1>1. /\ UNCHANGED <<closer, closed, ioCancelled, batchesClosed>> /\ UNCHANGED <<wpc, draining>>
      /\ UNCHANGED queue
  BY <1>s DEF closeVars, workerVars, queueVars
<1>2. rpc[v] # "exit"
  BY DEF RunWriter, TakeBatch, WriterExit, WriteBatch, DropUnwritten, WriteSucceeds, WriteFails,
      WriteRejected, SetGauge, RecordStored, BackoffEnds
<1>3. closer # "returned"
  BY <1>2 DEF Drained, WritersDone
<1>4. CASE WriterExit(v)
  <2>1. batches = <<>> /\ batchesClosed /\ UNCHANGED batches /\ rpc' = [rpc EXCEPT ![v] = "exit"]
    BY <1>4 DEF WriterExit
  <2> QED
    BY <1>t, <1>1, <1>3, <2>1 DEF Drained
<1>5. CASE ~WriterExit(v)
  <2>1. \E a \in WriterState \ {"exit"} : rpc' = [rpc EXCEPT ![v] = a]
    BY <1>5 DEF RunWriter, TakeBatch, WriteBatch, DropUnwritten, WriteSucceeds, WriteFails,
       WriteRejected, SetGauge, RecordStored, BackoffEnds, HandleRejected, Bisect, Return,
       SetHealthy, WriterState
  <2>2. batches = <<>> => batches' = <<>>
    BY <1>5 DEF RunWriter, TakeBatch, WriteBatch, DropUnwritten, WriteSucceeds, WriteFails,
       WriteRejected, SetGauge, RecordStored, BackoffEnds
  <2> QED
    BY <1>t, <1>1, <1>3, <2>1, <2>2 DEF Drained
<1> QED
  BY <1>4, <1>5

\* Every step keeps the inductive invariant.
LEMMA NextKeepsAccounting == AccountingInv /\ [Next]_vars => AccountingInv'
<1> SUFFICES ASSUME AccountingInv, [Next]_vars PROVE AccountingInv'
  OBVIOUS
<1>1. TruthInv' /\ StrandedInv'
  BY NextKeepsTruth, NextKeepsStranded DEF AccountingInv
<1>2. ChannelInv /\ Drained
  BY DEF AccountingInv, StrandedInv, PlacedInv
<1>3. Drained'
  <2>1. CASE \E m \in Messages : Producer(m)
    BY <1>2, <2>1, ProducerDrained
  <2>2. CASE \E w \in Workers : RunWorker(w)
    BY <1>2, <2>2, WorkerDrained
  <2>3. CASE \E v \in Writers : RunWriter(v)
    BY <1>2, <2>3, WriterDrained
  <2>4. CASE Grant
    BY <1>2, <2>4 DEF Grant, queueVars, closeVars, workerVars, writerVars, Drained,
       WorkersDone, WritersDone
  <2>5. CASE Close
    <3>1. UNCHANGED <<wpc, draining>> /\ UNCHANGED batches /\ UNCHANGED rpc /\ UNCHANGED queue
      BY <2>5 DEF Close, Stop, LockWait, CloseQueue, CloseBatches, Expire, CloseReturn,
         queueVars, workerVars, writerVars
    <3>2. /\ closed => closed'
          /\ batchesClosed => batchesClosed'
          /\ closer' = "returned" => WorkersDone /\ WritersDone
      BY <1>2, <2>5 DEF Close, Stop, LockWait, CloseQueue, CloseBatches, Expire, CloseReturn,
         Drained
    <3> QED
      BY <1>2, <3>1, <3>2 DEF Drained, WorkersDone, WritersDone
  <2>6. CASE UNCHANGED vars
    BY <1>2, <2>6 DEF vars, Drained, WorkersDone, WritersDone
  <2> QED
    BY <2>1, <2>2, <2>3, <2>4, <2>5, <2>6 DEF Next, Finished
<1> QED
  BY <1>1, <1>3 DEF AccountingInv

\* When Close has returned, an accepted message can only be among the counted.
LEMMA ReturnedIsCounted ==
  ASSUME AccountingInv, closer = "returned", NEW m \in Messages, call[m] = "done"
  PROVE  Len(ledger[m]) = 1
<1>t. /\ MovesInv /\ PlacesInv /\ CallsAgree /\ NoStrandedRows /\ Drained /\ LedgerOnce
      /\ queue \in Seq(Messages) /\ ledger \in [Messages -> Seq(Outcome)]
      /\ batches \in Seq(Seq(Messages))
  BY MovesTypes DEF AccountingInv, TruthInv, StrandedInv
<1>1. WorkersDone /\ WritersDone
  BY <1>t DEF Drained
<1>2. queue = <<>>
  <2>1. PICK w : w \in Workers
    BY SizesAssumption
  <2> QED
    BY <1>t, <1>1, <2>1 DEF Drained, WorkersDone
<1>3. batches = <<>>
  <2>1. PICK v : v \in Writers
    BY SizesAssumption
  <2> QED
    BY <1>t, <1>1, <2>1 DEF Drained, WritersDone
<1>4. ToSet(queue) = {} /\ InBatches = {}
  BY <1>2, <1>3 DEF ToSet, InBatches
<1>5. \A w \in Workers : InHand(w) = {}
  BY <1>1 DEF InHand, WorkersDone
<1>6. \A w \in Workers, t \in Tenants : ToSet(batch[w][t]) = {}
  <2>1. \A w \in Workers, t \in Tenants : batch[w][t] = <<>>
    BY <1>t, <1>1 DEF NoStrandedRows, WorkersDone
  <2> QED
    BY <2>1 DEF ToSet
<1>7. \A v \in Writers : Unwritten(v) = {}
  BY <1>1 DEF Unwritten, Working, WritersDone
<1>8. \A p : At(m, p) => p = <<"counted">>
  BY <1>4, <1>5, <1>6, <1>7 DEF At
<1>9. ledger[m] # <<>>
  <2>1. CASE m \in accepted
    <3>1. At(m, <<"counted">>)
      BY <1>t, <1>8, <2>1 DEF PlacesInv, Somewhere
    <3> QED
      BY <3>1, AtPlace
  <2>2. CASE m \notin accepted
    BY <1>t, <2>2 DEF CallsAgree
  <2> QED
    BY <2>1, <2>2
<1>10. ledger[m] \in Seq(Outcome) /\ Len(ledger[m]) <= 1
  BY <1>t DEF LedgerOnce
<1>11. Len(ledger[m]) \in Nat /\ Len(ledger[m]) # 0
  BY <1>9, <1>10, EmptySeq
<1> DEFINE n == Len(ledger[m])
<1>12. n \in Nat /\ n # 0 /\ n <= 1
  BY <1>10, <1>11
<1> HIDE DEF n
<1>13. n = 1
  BY <1>12
<1> QED
  BY <1>13 DEF n

\* Every message is counted at most once, under the outcome it had, no row stays behind
\* in a worker, and when Close has returned every message whose call has ended was
\* counted, for any number of messages, tenants, workers and writers.
THEOREM EveryMessageCountedOnce == Spec => []Accounting
<1>1. AccountingInv => Accounting
  <2> SUFFICES ASSUME AccountingInv PROVE Accounting
    OBVIOUS
  <2>1. AccountedOnce
    BY ReturnedIsCounted DEF AccountedOnce, AccountingInv, TruthInv, LedgerOnce
  <2> QED
    BY <2>1 DEF Accounting, AccountingInv, TruthInv, StrandedInv
<1> QED
  BY <1>1, InitAccounting, NextKeepsAccounting, PTL DEF Spec
====
