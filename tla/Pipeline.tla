------------------------------ MODULE Pipeline ------------------------------
(***************************************************************************)
(* The bounded ingestion pipeline (internal/ingestion/pipeline):           *)
(*                                                                         *)
(*   producers -> ingest queue (count + byte budget) -> parse workers ->   *)
(*   per-tenant batches -> batch queue -> storage writers -> backend       *)
(*                                                                         *)
(* Every message is one call of TryEnqueue (a UDP datagram) or Enqueue (a  *)
(* message of a TCP/TLS connection, an event of an HTTP ingest request).   *)
(* Goroutines interleave at every access to shared state: the byte budget, *)
(* the two channels, the read-write lock, the atomic gauges and the        *)
(* storage calls.  Parsing is abstracted to the tenant and the estimated   *)
(* size of the entry that a message becomes.                               *)
(***************************************************************************)
EXTENDS Integers, Sequences, FiniteSets, SequencesExt, FiniteSetsExt

CONSTANTS
    Messages,          \* every message that some producer offers once
    NoMessage,         \* a worker's empty hand
    Transport,         \* Transport[m]: how m arrives, "udp", "tcp" or "http"
    Weight,            \* Weight[m]: bytes charged to the budget (weight())
    EntrySize,         \* EntrySize[m]: estimated bytes of the parsed entry
    Tenants, Tenant,   \* Tenant[m]: the tenant of m's source
    Poison,            \* messages whose entry the backend rejects
    Workers, Writers,
    QueueMaxMessages, QueueMaxBytes,
    BatchMaxRows, BatchMaxBytes,
    BatchQueue

ASSUME MessagesAssumption ==
    /\ Transport \in [Messages -> {"udp", "tcp", "http"}]
    /\ Weight \in [Messages -> Nat \ {0}]
    /\ EntrySize \in [Messages -> Nat]
    /\ Tenant \in [Messages -> Tenants]
    /\ Poison \subseteq Messages
    /\ NoMessage \notin Messages

ASSUME SizesAssumption ==
    /\ QueueMaxMessages \in Nat \ {0}
    /\ QueueMaxBytes \in Nat \ {0}
    /\ BatchMaxRows \in Nat \ {0}
    /\ BatchMaxBytes \in Nat \ {0}
    /\ BatchQueue \in Nat \ {0}
    /\ Workers # {} /\ Writers # {}

VARIABLES
    \* producers
    call,           \* where the Enqueue/TryEnqueue call of a message stands
    accepted,       \* history: the messages that were sent into the queue
    \* the byte budget (semaphore.Weighted)
    cur,            \* bytes taken
    waiters,        \* blocked Acquire calls, first in first out
    notifying,      \* the semaphore is waking the calls that fit
    \* the ingest queue
    queue, queueBytes,
    \* Close
    closer,         \* where the Close call stands
    closed,         \* p.closed, and the queue channel is closed
    ioCancelled,    \* writeCtx is done
    batchesClosed,  \* the batches channel is closed
    \* parse workers
    wpc, hand, batch, pending, timerActive, draining,
    \* the batch queue and the storage writers
    batches, rpc, rows, ranges,
    healthy,        \* p.healthy
    healthGauge,    \* the exported storage_healthy gauge, 1 is TRUE
    \* what became of the messages
    ledger,         \* history: the counters incremented on behalf of m
    disk            \* external: the entries that reached the backend

producerVars == <<call, accepted>>
budgetVars == <<cur, waiters, notifying>>
queueVars == <<queue, queueBytes>>
closeVars == <<closer, closed, ioCancelled, batchesClosed>>
workerVars == <<wpc, hand, batch, pending, timerActive, draining>>
writerVars == <<rpc, rows, ranges, healthy, healthGauge>>
outcomeVars == <<ledger, disk>>
vars == <<call, accepted, cur, waiters, notifying, queue, queueBytes, closer, closed,
          ioCancelled, batchesClosed, wpc, hand, batch, pending, timerActive,
          draining, batches, rpc, rows, ranges, healthy, healthGauge, ledger,
          disk>>

\* What the steps of each part leave alone.
offProducer == <<closeVars, workerVars, batches, writerVars>>
offClose == <<producerVars, budgetVars, queueVars, workerVars, batches, writerVars,
              outcomeVars>>
offWorker == <<producerVars, closeVars, writerVars, outcomeVars>>
offWriter == <<producerVars, budgetVars, queueVars, closeVars, workerVars>>

CallState == {"idle", "try", "trysend", "acquire", "wait", "send", "added",
              "refused", "done"}
WorkerState == {"recv", "process", "flush", "account", "release", "flushall",
                "exit"}
WriterState == {"recv", "write", "inflight", "gaugeUp", "gaugeDown", "stored",
                "backoff", "exit"}
Outcome == {"stored", "queue_full", "shutdown", "rejected", "http_503"}

\* The calls that hold the read lock p.mu.RLock().
ReadLocked == {"try", "trysend", "acquire", "wait", "send", "added"}

Init ==
    /\ call = [m \in Messages |-> "idle"]
    /\ accepted = {}
    /\ cur = 0
    /\ waiters = <<>>
    /\ notifying = FALSE
    /\ queue = <<>>
    /\ queueBytes = 0
    /\ closer = "open"
    /\ closed = FALSE
    /\ ioCancelled = FALSE
    /\ batchesClosed = FALSE
    /\ wpc = [w \in Workers |-> "recv"]
    /\ hand = [w \in Workers |-> NoMessage]
    /\ batch = [w \in Workers |-> [t \in Tenants |-> <<>>]]
    /\ pending = [w \in Workers |-> 0]
    /\ timerActive = [w \in Workers |-> FALSE]
    /\ draining = [w \in Workers |-> FALSE]
    /\ batches = <<>>
    /\ rpc = [v \in Writers |-> "recv"]
    /\ rows = [v \in Writers |-> <<>>]
    /\ ranges = [v \in Writers |-> <<>>]
    /\ healthy = TRUE
    /\ healthGauge = TRUE
    /\ ledger = [m \in Messages |-> <<>>]
    /\ disk = {}

-----------------------------------------------------------------------------
(***************************************************************************)
(* The byte budget.  A Release, or the first in line leaving it, wakes the *)
(* blocked Acquire calls in their order as long as the next one fits.      *)
(* Meanwhile the semaphore's mutex is held: notifying keeps every other    *)
(* operation on the budget out.                                            *)
(***************************************************************************)
NextFits(taken, ws) == ws # <<>> /\ taken + Weight[Head(ws)] <= QueueMaxBytes

\* TryAcquire succeeds only when nobody waits for the budget already.
MayAcquire(m) == cur + Weight[m] <= QueueMaxBytes /\ waiters = <<>>

Take(m) == cur' = cur + Weight[m] /\ UNCHANGED <<waiters, notifying>>

Release(m) ==
    /\ ~notifying
    /\ cur' = cur - Weight[m]
    /\ notifying' = NextFits(cur - Weight[m], waiters)
    /\ UNCHANGED waiters

Moved(m, pc) == [call EXCEPT ![m] = pc]

\* The first waiter gets its bytes: its Acquire returns.
Grant ==
    /\ notifying
    /\ cur' = cur + Weight[Head(waiters)]
    /\ waiters' = Tail(waiters)
    /\ notifying' = NextFits(cur + Weight[Head(waiters)], Tail(waiters))
    /\ call' = Moved(Head(waiters), "send")
    /\ UNCHANGED <<accepted, queueVars, outcomeVars, offProducer>>

Count(m, outcome) == ledger' = [ledger EXCEPT ![m] = Append(@, outcome)]

\* Mutant: one message more than the channel is made for.
QueueOverfull == Len(queue) <= QueueMaxMessages

QueueHasRoom == Len(queue) < QueueMaxMessages

-----------------------------------------------------------------------------
(***************************************************************************)
(* Producers.                                                              *)
(***************************************************************************)

SeesClosed == closed

\* RLock and the test of p.closed.  A Close that waits for the lock holds new
\* readers back.  A refused UDP message is counted under the lock; Enqueue
\* returns ErrClosed and its caller accounts for the message.
Enter(m) ==
    /\ call[m] = "idle"
    /\ closer # "lock"
    /\ IF ~SeesClosed
       THEN call' = Moved(m, "try") /\ UNCHANGED ledger
       ELSE IF Transport[m] = "udp"
            THEN call' = Moved(m, "done") /\ Count(m, "shutdown")
            ELSE call' = Moved(m, "refused") /\ UNCHANGED ledger
    /\ UNCHANGED <<accepted, budgetVars, queueVars, disk, offProducer>>

\* budget.TryAcquire: the only attempt of TryEnqueue, the fast path of Enqueue.
TryAcquire(m) ==
    /\ call[m] = "try"
    /\ ~notifying
    /\ IF MayAcquire(m)
       THEN /\ Take(m)
            /\ call' = Moved(m, "trysend")
            /\ UNCHANGED ledger
       ELSE /\ UNCHANGED budgetVars
            /\ IF Transport[m] = "udp"
               THEN call' = Moved(m, "done") /\ Count(m, "queue_full")
               ELSE call' = Moved(m, "acquire") /\ UNCHANGED ledger
    /\ UNCHANGED <<accepted, queueVars, disk, offProducer>>

\* A send into the queue channel: the gauge is raised by a later step.
SendToQueue(m) ==
    /\ QueueHasRoom
    /\ queue' = Append(queue, m)
    /\ accepted' = accepted \cup {m}
    /\ call' = Moved(m, "added")
    /\ UNCHANGED <<budgetVars, ledger>>

\* Mutant: a call that could not send keeps its bytes.
KeepBytes(m) == ~notifying /\ UNCHANGED budgetVars

\* A call that could not send its message gives its bytes back.
GiveBack(m) == Release(m)

\* The non-blocking send; a full queue gives the bytes back.
TrySend(m) ==
    /\ call[m] = "trysend"
    /\ \/ SendToQueue(m)
       \/ /\ ~QueueHasRoom
          /\ GiveBack(m)
          /\ IF Transport[m] = "udp"
             THEN call' = Moved(m, "done") /\ Count(m, "queue_full")
             ELSE call' = Moved(m, "acquire") /\ UNCHANGED ledger
          /\ UNCHANGED <<queue, accepted>>
    /\ UNCHANGED <<queueBytes, disk, offProducer>>

\* The slow path of Enqueue: budget.Acquire.  A message heavier than the whole
\* budget waits outside the line, only for its context.
Acquire(m) ==
    /\ call[m] = "acquire"
    /\ ~notifying
    /\ IF MayAcquire(m)
       THEN /\ Take(m)
            /\ call' = Moved(m, "send")
       ELSE /\ call' = Moved(m, "wait")
            /\ waiters' = IF Weight[m] > QueueMaxBytes
                          THEN waiters ELSE Append(waiters, m)
            /\ UNCHANGED <<cur, notifying>>
    /\ UNCHANGED <<accepted, queueVars, outcomeVars, offProducer>>

BlockingSend(m) ==
    /\ call[m] = "send"
    /\ SendToQueue(m)
    /\ UNCHANGED <<queueBytes, disk, offProducer>>

\* p.queueBytes.Add(w) and RUnlock.
AddBytes(m) ==
    /\ call[m] = "added"
    /\ queueBytes' = queueBytes + Weight[m]
    /\ call' = Moved(m, "done")
    /\ UNCHANGED <<accepted, budgetVars, queue, outcomeVars, offProducer>>

\* A cancelled Acquire that was first in line lets the next one in if it fits.
WakesNext(i) == i = 1 /\ NextFits(cur, Tail(waiters))

LeaveLine(m) ==
    /\ ~notifying
    /\ \/ m \notin ToSet(waiters) /\ UNCHANGED <<waiters, notifying>>
       \/ \E i \in DOMAIN waiters :
            /\ waiters[i] = m
            /\ waiters' = RemoveAt(waiters, i)
            /\ notifying' = WakesNext(i)
    /\ UNCHANGED cur

\* waitCtx is done: the caller's context ended, or Close called stop().  The
\* call leaves the line or gives its bytes back, and returns an error.
AbortEnqueue(m) ==
    /\ \/ call[m] = "acquire" /\ UNCHANGED budgetVars
       \/ call[m] = "wait" /\ LeaveLine(m)
       \/ call[m] = "send" /\ GiveBack(m)
    /\ call' = Moved(m, "refused")
    /\ UNCHANGED <<accepted, queueVars, outcomeVars, offProducer>>

CallerGone(m) == closer = "open" /\ AbortEnqueue(m)

WokenByStop(m) == closer # "open" /\ AbortEnqueue(m)

\* Mutant: a reason that is no label of the dropped counter.
RefusedMislabelled(m) == "closed"

RefusedOutcome(m) == IF Transport[m] = "tcp" THEN "shutdown" ELSE "http_503"

\* Enqueue returned an error: the TCP connection counts the drop and ends; the
\* HTTP handler answers 503 with Retry-After and the client keeps the event.
AccountRefused(m) ==
    /\ call[m] = "refused"
    /\ call' = Moved(m, "done")
    /\ Count(m, RefusedOutcome(m))
    /\ UNCHANGED <<accepted, budgetVars, queueVars, disk, offProducer>>

-----------------------------------------------------------------------------
(***************************************************************************)
(* Close.                                                                  *)
(***************************************************************************)
Stop ==
    /\ closer = "open"
    /\ closer' = "stop"
    /\ UNCHANGED <<closed, ioCancelled, batchesClosed, offClose>>

\* mu.Lock() announces the writer: no new reader gets in from here on.
LockWait ==
    /\ closer = "stop"
    /\ closer' = "lock"
    /\ UNCHANGED <<closed, ioCancelled, batchesClosed, offClose>>

\* Mutant: Close does not take the lock.
IgnoreReaders == TRUE

NoReaders == \A m \in Messages : call[m] \notin ReadLocked

CloseQueue ==
    /\ closer = "lock"
    /\ NoReaders
    /\ closer' = "drain"
    /\ closed' = TRUE
    /\ UNCHANGED <<ioCancelled, batchesClosed, offClose>>

WorkersDone == \A w \in Workers : wpc[w] = "exit"
WritersDone == \A v \in Writers : rpc[v] = "exit"

CloseBatches ==
    /\ closer \in {"drain", "expired"}
    /\ ~batchesClosed
    /\ WorkersDone
    /\ batchesClosed' = TRUE
    /\ UNCHANGED <<closer, closed, ioCancelled, offClose>>

\* Mutant: the writes in flight and their retries are not cancelled.
ExpireWithoutCancel ==
    /\ closer = "drain"
    /\ closer' = "expired"
    /\ UNCHANGED <<closed, ioCancelled, batchesClosed, offClose>>

\* The context of Close ends before everything has drained.
Expire ==
    /\ closer = "drain"
    /\ closer' = "expired"
    /\ ioCancelled' = TRUE
    /\ UNCHANGED <<closed, batchesClosed, offClose>>

CloseReturn ==
    /\ closer \in {"drain", "expired"}
    /\ WorkersDone /\ WritersDone
    /\ closer' = "returned"
    /\ UNCHANGED <<closed, ioCancelled, batchesClosed, offClose>>

-----------------------------------------------------------------------------
(***************************************************************************)
(* Parse workers.                                                          *)
(***************************************************************************)
Receive(w) ==
    /\ wpc[w] = "recv"
    /\ queue # <<>>
    /\ hand' = [hand EXCEPT ![w] = Head(queue)]
    /\ queue' = Tail(queue)
    /\ wpc' = [wpc EXCEPT ![w] = "process"]
    /\ UNCHANGED <<budgetVars, queueBytes, batch, pending, timerActive,
                   draining, batches, offWorker>>

BatchBytes(b) == FoldLeft(LAMBDA sum, m : sum + EntrySize[m], 0, b)

BatchFull(b) == Len(b) >= BatchMaxRows \/ BatchBytes(b) >= BatchMaxBytes

\* Mutant: one batch for everybody.
SharedBatch(m) == CHOOSE x \in Tenants : TRUE

BatchOf(m) == Tenant[m]

\* process: parse into the tenant's batch; a full batch is flushed at once.
Process(w) ==
    LET m == hand[w]
        b == Append(batch[w][BatchOf(m)], m)
    IN  /\ wpc[w] = "process"
        /\ batch' = [batch EXCEPT ![w][BatchOf(m)] = b]
        /\ pending' = [pending EXCEPT ![w] = @ + 1]
        /\ wpc' = [wpc EXCEPT ![w] = IF BatchFull(b) THEN "flush" ELSE "account"]
        /\ UNCHANGED <<budgetVars, queueVars, hand, timerActive, draining,
                       batches, offWorker>>

\* flush: hand the tenant's batch to the writers, blocking while they are busy.
Flush(w, t) ==
    /\ batch[w][t] # <<>>
    /\ Len(batches) < BatchQueue
    /\ batches' = Append(batches, batch[w][t])
    /\ batch' = [batch EXCEPT ![w][t] = <<>>]
    /\ pending' = [pending EXCEPT ![w] = @ - Len(batch[w][t])]

FlushFull(w) ==
    /\ wpc[w] = "flush"
    /\ Flush(w, BatchOf(hand[w]))
    /\ wpc' = [wpc EXCEPT ![w] = "account"]
    /\ UNCHANGED <<budgetVars, queueVars, hand, timerActive, draining,
                   offWorker>>

\* p.queueBytes.Add(-weight)
SubtractBytes(w) ==
    /\ wpc[w] = "account"
    /\ queueBytes' = queueBytes - Weight[hand[w]]
    /\ wpc' = [wpc EXCEPT ![w] = "release"]
    /\ UNCHANGED <<budgetVars, queue, hand, batch, pending, timerActive,
                   draining, batches, offWorker>>

\* Mutant: the timer is stopped when it already runs.
TimerToggled(w) == pending[w] > 0 /\ ~timerActive[w]

\* The timer is armed when rows are pending and stopped when none are.
TimerNeeded(w) == pending[w] > 0

\* budget.Release, then the flush timer is armed or stopped.
ReleaseBudget(w) ==
    /\ wpc[w] = "release"
    /\ Release(hand[w])
    /\ timerActive' = [timerActive EXCEPT ![w] = TimerNeeded(w)]
    /\ hand' = [hand EXCEPT ![w] = NoMessage]
    /\ wpc' = [wpc EXCEPT ![w] = "recv"]
    /\ UNCHANGED <<queueVars, batch, pending, draining, batches, offWorker>>

TimerFires(w) ==
    /\ wpc[w] = "recv"
    /\ timerActive[w]
    /\ timerActive' = [timerActive EXCEPT ![w] = FALSE]
    /\ wpc' = [wpc EXCEPT ![w] = "flushall"]
    /\ UNCHANGED <<budgetVars, queueVars, hand, batch, pending, draining,
                   batches, offWorker>>

AfterQueueClosed == "flushall"

QueueClosed(w) ==
    /\ wpc[w] = "recv"
    /\ queue = <<>> /\ closed
    /\ draining' = [draining EXCEPT ![w] = TRUE]
    /\ wpc' = [wpc EXCEPT ![w] = AfterQueueClosed]
    /\ UNCHANGED <<budgetVars, queueVars, hand, batch, pending, timerActive,
                   batches, offWorker>>

\* flushAll: one iteration of the loop over the tenants, in any order.
FlushNext(w) ==
    /\ wpc[w] = "flushall"
    /\ \E t \in Tenants : Flush(w, t)
    /\ UNCHANGED <<budgetVars, queueVars, wpc, hand, timerActive, draining,
                   offWorker>>

FlushAllDone(w) ==
    /\ wpc[w] = "flushall"
    /\ \A t \in Tenants : batch[w][t] = <<>>
    /\ pending' = [pending EXCEPT ![w] = 0]
    /\ wpc' = [wpc EXCEPT ![w] = IF draining[w] THEN "exit" ELSE "recv"]
    /\ UNCHANGED <<budgetVars, queueVars, hand, batch, timerActive, draining,
                   batches, offWorker>>

-----------------------------------------------------------------------------
(***************************************************************************)
(* Storage writers.  ranges[v] is the stack of the recursive writeRange    *)
(* calls: the ranges <<lo, hi>> (entries lo+1 .. hi) still to be written,  *)
(* the current one first.                                                  *)
(***************************************************************************)
Lo(v) == Head(ranges[v])[1]
Hi(v) == Head(ranges[v])[2]
InRange(v) == ToSet(SubSeq(rows[v], Lo(v) + 1, Hi(v)))

TakeBatch(v) ==
    /\ rpc[v] = "recv"
    /\ batches # <<>>
    /\ rows' = [rows EXCEPT ![v] = Head(batches)]
    /\ ranges' = [ranges EXCEPT ![v] = << <<0, Len(Head(batches))>> >>]
    /\ batches' = Tail(batches)
    /\ rpc' = [rpc EXCEPT ![v] = "write"]
    /\ UNCHANGED <<healthy, healthGauge, outcomeVars, offWriter>>

WriterExit(v) ==
    /\ rpc[v] = "recv"
    /\ batches = <<>> /\ batchesClosed
    /\ rpc' = [rpc EXCEPT ![v] = "exit"]
    /\ UNCHANGED <<batches, rows, ranges, healthy, healthGauge, outcomeVars,
                   offWriter>>

\* The counters incremented when writeRange returns, one per row of the range.
CountRange(v, outcome) ==
    ledger' = [m \in Messages |-> IF m \in InRange(v)
                                  THEN Append(ledger[m], outcome)
                                  ELSE ledger[m]]

\* writeRange returns: its caller continues with the next range, or runWriter
\* puts the batch back and takes another one.
Return(v) ==
    /\ ranges' = [ranges EXCEPT ![v] = Tail(@)]
    /\ rpc' = [rpc EXCEPT ![v] = IF Len(ranges[v]) = 1 THEN "recv" ELSE "write"]
    /\ rows' = [rows EXCEPT ![v] = IF Len(ranges[v]) = 1 THEN <<>> ELSE @]

\* The top of the retry loop.
WriteBatch(v) ==
    /\ rpc[v] = "write"
    /\ ~ioCancelled
    /\ rpc' = [rpc EXCEPT ![v] = "inflight"]
    /\ UNCHANGED <<batches, rows, ranges, healthy, healthGauge, outcomeVars,
                   offWriter>>

DropUnwritten(v) ==
    /\ rpc[v] = "write"
    /\ ioCancelled
    /\ CountRange(v, "shutdown")
    /\ Return(v)
    /\ UNCHANGED <<batches, healthy, healthGauge, disk, offWriter>>

\* setHealthy: Swap, and a change is exported by a later step.
SetHealthy(v, ok) ==
    /\ healthy' = ok
    /\ rpc' = [rpc EXCEPT ![v] =
                 IF healthy # ok THEN IF ok THEN "gaugeUp" ELSE "gaugeDown"
                                 ELSE IF ok THEN "stored" ELSE "backoff"]

\* External: the backend stores the request and says so.
WriteSucceeds(v) ==
    /\ rpc[v] = "inflight"
    /\ InRange(v) \cap Poison = {}
    /\ disk' = disk \cup InRange(v)
    /\ SetHealthy(v, TRUE)
    /\ UNCHANGED <<batches, rows, ranges, healthGauge, ledger, offWriter>>

\* External: a transport error, a timeout, 429, 5xx, 401, 403, 404...  The rows
\* may have been stored all the same when only the answer was lost.
WriteFails(v) ==
    /\ rpc[v] = "inflight"
    /\ \/ UNCHANGED disk
       \/ InRange(v) \cap Poison = {} /\ disk' = disk \cup InRange(v)
    /\ IF ioCancelled
       THEN /\ CountRange(v, "shutdown")
            /\ Return(v)
            /\ UNCHANGED healthy
       ELSE /\ SetHealthy(v, FALSE)
            /\ UNCHANGED <<rows, ranges, ledger>>
    /\ UNCHANGED <<batches, healthGauge, offWriter>>

\* Mutant: the right half starts one row too late.
BisectSkipsRow(v) ==
    LET mid == Lo(v) + (Hi(v) - Lo(v)) \div 2
    IN  /\ ranges' = [ranges EXCEPT ![v] =
                        << <<Lo(v), mid>>, <<mid + 1, Hi(v)>> >> \o Tail(@)]
        /\ rpc' = [rpc EXCEPT ![v] = "write"]
        /\ UNCHANGED <<rows, ledger>>

Bisect(v) ==
    LET mid == Lo(v) + (Hi(v) - Lo(v)) \div 2
    IN  /\ ranges' = [ranges EXCEPT ![v] =
                        << <<Lo(v), mid>>, <<mid, Hi(v)>> >> \o Tail(@)]
        /\ rpc' = [rpc EXCEPT ![v] = "write"]
        /\ UNCHANGED <<rows, ledger>>

\* Bisect the range, and drop the row when it is down to one.
HandleRejected(v) ==
    IF Hi(v) - Lo(v) > 1 THEN Bisect(v) ELSE CountRange(v, "rejected") /\ Return(v)

\* The backend rejects the content of the request (400, 413, ...).
WriteRejected(v) ==
    /\ rpc[v] = "inflight"
    /\ InRange(v) \cap Poison # {}
    /\ IF ioCancelled
       THEN CountRange(v, "shutdown") /\ Return(v)
       ELSE HandleRejected(v)
    /\ UNCHANGED <<batches, healthy, healthGauge, disk, offWriter>>

\* metrics.StorageHealthy.Set(v)
SetGauge(v) ==
    /\ rpc[v] \in {"gaugeUp", "gaugeDown"}
    /\ healthGauge' = (rpc[v] = "gaugeUp")
    /\ rpc' = [rpc EXCEPT ![v] = IF @ = "gaugeUp" THEN "stored" ELSE "backoff"]
    /\ UNCHANGED <<batches, rows, ranges, healthy, outcomeVars, offWriter>>

\* recordStored after setHealthy(true): Tee.Forward and the Stored counters.
RecordStored(v) ==
    /\ rpc[v] = "stored"
    /\ CountRange(v, "stored")
    /\ Return(v)
    /\ UNCHANGED <<batches, healthy, healthGauge, disk, offWriter>>

\* The backoff timer fires, or writeCtx is done.
BackoffEnds(v) ==
    /\ rpc[v] = "backoff"
    /\ rpc' = [rpc EXCEPT ![v] = "write"]
    /\ UNCHANGED <<batches, rows, ranges, healthy, healthGauge, outcomeVars,
                   offWriter>>

-----------------------------------------------------------------------------
Producer(m) ==
    \/ Enter(m) \/ TryAcquire(m) \/ TrySend(m) \/ Acquire(m)
    \/ BlockingSend(m) \/ AddBytes(m) \/ CallerGone(m) \/ WokenByStop(m)
    \/ AccountRefused(m)

Close ==
    Stop \/ LockWait \/ CloseQueue \/ CloseBatches \/ Expire \/ CloseReturn

RunWorker(w) ==
    \/ Receive(w) \/ Process(w) \/ FlushFull(w) \/ SubtractBytes(w)
    \/ ReleaseBudget(w) \/ TimerFires(w) \/ QueueClosed(w) \/ FlushNext(w)
    \/ FlushAllDone(w)

RunWriter(v) ==
    \/ TakeBatch(v) \/ WriterExit(v) \/ WriteBatch(v) \/ DropUnwritten(v)
    \/ WriteSucceeds(v) \/ WriteFails(v) \/ WriteRejected(v) \/ SetGauge(v)
    \/ RecordStored(v) \/ BackoffEnds(v)

\* Close has returned and every call with it: nothing is left to do.
Finished ==
    /\ closer = "returned"
    /\ \A m \in Messages : call[m] = "done"
    /\ UNCHANGED vars

Next ==
    \/ \E m \in Messages : Producer(m)
    \/ Grant
    \/ Close
    \/ \E w \in Workers : RunWorker(w)
    \/ \E v \in Writers : RunWriter(v)
    \/ Finished

Spec == Init /\ [][Next]_vars

\* Every goroutine keeps running: a producer call that is not blocked, Close
\* itself, the workers, the writers and their timers.  A storage request ends
\* in one of its three ways, but nothing makes the backend recover.  Callers
\* may never give up, and Close need not be called.
InFlightEnds(v) == WriteSucceeds(v) \/ WriteFails(v) \/ WriteRejected(v)

Fairness ==
    /\ \A m \in Messages :
        /\ WF_vars(Enter(m)) /\ WF_vars(TryAcquire(m)) /\ WF_vars(TrySend(m))
        /\ WF_vars(Acquire(m)) /\ WF_vars(BlockingSend(m)) /\ WF_vars(AddBytes(m))
        /\ WF_vars(WokenByStop(m)) /\ WF_vars(AccountRefused(m))
    /\ WF_vars(Grant) /\ WF_vars(LockWait) /\ WF_vars(CloseQueue) /\ WF_vars(CloseBatches)
    /\ WF_vars(Expire) /\ WF_vars(CloseReturn)
    /\ \A w \in Workers : WF_vars(RunWorker(w))
    /\ \A v \in Writers :
        /\ WF_vars(TakeBatch(v)) /\ WF_vars(WriterExit(v))
        /\ WF_vars(WriteBatch(v)) /\ WF_vars(DropUnwritten(v))
        /\ WF_vars(InFlightEnds(v)) /\ WF_vars(SetGauge(v))
        /\ WF_vars(RecordStored(v)) /\ WF_vars(BackoffEnds(v))

FairSpec == Spec /\ Fairness

\* A backend that answers infinitely many retries of the same range properly.
BackendRecovers ==
    \A v \in Writers : SF_vars(WriteSucceeds(v)) /\ SF_vars(WriteRejected(v))

-----------------------------------------------------------------------------
(***************************************************************************)
(* Properties.                                                             *)
(***************************************************************************)

\* The type invariant, one conjunct per group of variables.
ProducerType ==
    call \in [Messages -> CallState] /\ accepted \subseteq Messages
BudgetType ==
    cur \in Int /\ waiters \in Seq(Messages) /\ notifying \in BOOLEAN
QueueType ==
    queue \in Seq(Messages) /\ queueBytes \in Int
CloseType ==
    /\ closer \in {"open", "stop", "lock", "drain", "expired", "returned"}
    /\ closed \in BOOLEAN /\ ioCancelled \in BOOLEAN /\ batchesClosed \in BOOLEAN
WorkerType ==
    /\ wpc \in [Workers -> WorkerState]
    /\ hand \in [Workers -> Messages \cup {NoMessage}]
    /\ batch \in [Workers -> [Tenants -> Seq(Messages)]]
    /\ pending \in [Workers -> Int]
    /\ timerActive \in [Workers -> BOOLEAN]
    /\ draining \in [Workers -> BOOLEAN]
BatchesType ==
    batches \in Seq(Seq(Messages))
WriterType ==
    /\ rpc \in [Writers -> WriterState]
    /\ rows \in [Writers -> Seq(Messages)]
    /\ ranges \in [Writers -> Seq(Nat \X Nat)]
    /\ healthy \in BOOLEAN /\ healthGauge \in BOOLEAN
OutcomeType ==
    ledger \in [Messages -> Seq(Outcome)] /\ disk \subseteq Messages

TypeOK ==
    /\ ProducerType /\ BudgetType /\ QueueType /\ CloseType
    /\ WorkerType /\ BatchesType /\ WriterType /\ OutcomeType

\* "It returns only when the rows are stored or accounted as dropped", "every
\* loss increments dropped_total": no message is ever counted twice, through
\* retries, bisected batches and shutdown, and when Close has returned every
\* message whose call has ended was counted.
AccountedOnce ==
    /\ \A m \in Messages : Len(ledger[m]) <= 1
    /\ closer = "returned" =>
         \A m \in Messages : call[m] = "done" => Len(ledger[m]) = 1

Outcomes(m) == ToSet(ledger[m])

\* The counter tells the sender the truth.  A refused message never reaches the
\* backend, a stored one did, and a message that made it into the queue is lost
\* only to the shutdown deadline or to the backend's rejection of that very row.
OutcomeIsTrue ==
    \A m \in Messages :
        /\ "stored" \in Outcomes(m) => m \in disk
        /\ "rejected" \in Outcomes(m) => m \in Poison \ disk
        /\ m \in accepted /\ "shutdown" \in Outcomes(m) => ioCancelled
        /\ m \in accepted => Outcomes(m) \cap {"queue_full", "http_503"} = {}
        /\ m \notin accepted => m \notin disk /\ Outcomes(m) \cap {"stored", "rejected"} = {}

\* Messages whose bytes are taken from the budget.
BudgetHolders ==
    {m \in Messages : call[m] \in {"trysend", "send"}}
      \cup ToSet(queue) \cup ({hand[w] : w \in Workers} \ {NoMessage})

\* The byte budget neither leaks nor is given back twice: it is exactly the
\* weight of the messages between Acquire and Release, whatever path their
\* calls took.  Nobody waits for bytes that are free.
BudgetConserved ==
    /\ cur = MapThenSumSet(LAMBDA m : Weight[m], BudgetHolders)
    /\ waiters # <<>> /\ ~notifying => cur + Weight[Head(waiters)] > QueueMaxBytes

\* "Memory is bounded by configuration regardless of storage speed": bytes and
\* messages of the ingest queue, batches of the batch queue, rows of a batch.
MemoryBounded ==
    /\ cur <= QueueMaxBytes
    /\ Len(queue) <= QueueMaxMessages
    /\ Len(batches) <= BatchQueue
    /\ \A i \in 1..Len(batches) : Len(batches[i]) \in 1..BatchMaxRows
    /\ \A w \in Workers, t \in Tenants : Len(batch[w][t]) <= BatchMaxRows

\* Nobody sends on a closed channel (Go would panic): a call that found the
\* pipeline open finishes its send before close(queue), a worker before
\* close(batches).
NoSendOnClosed ==
    /\ closed => \A m \in Messages : call[m] \notin ReadLocked
    /\ batchesClosed => \A w \in Workers : wpc[w] = "exit"

\* No row waits for ever in a worker's batch: an idle worker that holds rows
\* has its flush timer running, and an exited one holds none.
NoStrandedRows ==
    \A w \in Workers :
        /\ wpc[w] = "recv" /\ (\E t \in Tenants : batch[w][t] # <<>>) =>
             timerActive[w]
        /\ wpc[w] = "exit" =>
             hand[w] = NoMessage /\ \A t \in Tenants : batch[w][t] = <<>>

\* The promise of the pipeline to whoever hands it a message: it is counted
\* once, under the outcome it really had, and does not stay behind in a worker.
Accounting == AccountedOnce /\ OutcomeIsTrue /\ NoStrandedRows

\* Batches never mix tenants: a request to the backend is made for one tenant.
TenantsSeparate ==
    /\ \A i \in 1..Len(batches) : Cardinality({Tenant[m] : m \in ToSet(batches[i])}) = 1
    /\ \A v \in Writers : Cardinality({Tenant[m] : m \in ToSet(rows[v])}) <= 1

\* Close stops accepting messages: nothing enters the queue once it is closed.
NothingAcceptedAfterClose == [][closed => accepted' = accepted]_vars

\* Close returns although the backend may never answer well again: producers
\* blocked in Enqueue are woken, the drain ends at the latest at its deadline.
CloseTerminates == (closer = "stop") ~> (closer = "returned")

\* With a backend that recovers, every message offered is accounted for, the
\* accepted ones by the writers, without any Close.  A message heavier than the
\* whole budget waits for its caller to give up.
EveryMessageAccounted ==
    BackendRecovers =>
        \A m \in Messages :
            Weight[m] <= QueueMaxBytes => <>(ledger[m] # <<>>)
=============================================================================
