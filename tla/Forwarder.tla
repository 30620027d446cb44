------------------------------ MODULE Forwarder ------------------------------
(***************************************************************************)
(* One forward target (internal/forwarding/forwarding.go): a bounded queue *)
(* of copies between the storage writers of the pipeline, which call       *)
(* Forward after a batch was stored, and one sender goroutine that writes  *)
(* the copies to a remote backend.                                         *)
(*                                                                         *)
(* Forward runs under the read lock and Stop closes the queue under the    *)
(* write lock.  The counters `queued' and `bytes' are atomics that Forward *)
(* reads before it sends and adds to after it has sent, so writers         *)
(* interleave with each other and with the sender at each of these points. *)
(* The health flag, the last error and the metrics are display only and    *)
(* are left out.                                                           *)
(***************************************************************************)
EXTENDS Integers, Sequences, FiniteSets, SequencesExt, FiniteSetsExt

CONSTANTS
    Callers,          \* storage writers of the pipeline
    Groups,           \* the stored ranges they hand to Forward, once each
    Rows,             \* every row of every group
    Content,          \* Content[g]: the rows of g, in order
    Selected,         \* rows that pass the source and severity filter
    Size,             \* Size[r]: estimated bytes of a row
    Tenants, Tenant,  \* Tenant[g]: the tenant of a group
    Poison,           \* rows that make the remote reject a batch
    QueueMaxMessages, QueueMaxBytes, QueueSlots,
    BatchMaxRows, BatchMaxBytes,
    None

ASSUME GroupsAssumption ==
    /\ Content \in [Groups -> Seq(Rows)]
    /\ \A g, h \in Groups : \A i \in DOMAIN Content[g], j \in DOMAIN Content[h] :
          Content[g][i] = Content[h][j] => g = h /\ i = j
    /\ Groups # {} /\ IsFiniteSet({Len(Content[g]) : g \in Groups})
    /\ Selected \subseteq Rows /\ Poison \subseteq Rows
    /\ Size \in [Rows -> Nat \ {0}]
    /\ Tenant \in [Groups -> Tenants]
    /\ None \notin Groups \cup Tenants

ASSUME LimitsAssumption ==
    /\ {QueueMaxMessages, QueueSlots, BatchMaxRows} \subseteq Nat \ {0}
    /\ {QueueMaxBytes, BatchMaxBytes} \subseteq Nat    \* 0: no limit
    /\ IsFiniteSet(Callers) /\ Callers # {}

VARIABLES
    caller,    \* where the Forward call of a writer stands
    hand,      \* the group it is about
    offered,   \* groups that were handed to Forward
    queue,     \* the channel: groups of copies
    queued,    \* f.queued
    bytes,     \* f.bytes
    sender,    \* the sender goroutine
    group,     \* the group it received last
    rest,      \* rows of that group it has not appended yet
    pending,   \* rows of the batch it is building or writing
    tenant,    \* tenant of that batch
    stopper,   \* where the Stop call stands
    closed,    \* f.closed, and the queue is closed
    cancelled, \* stopCtx is done
    outcome,   \* what became of a copy
    remote     \* rows that the remote backend holds

vars == <<caller, hand, offered, queue, queued, bytes, sender, group, rest,
          pending, tenant, stopper, closed, cancelled, outcome, remote>>
callers == <<caller, hand, offered>>
counters == <<queued, bytes>>
batch == <<group, rest, pending, tenant>>
sending == <<sender, batch, remote>>
stopping == <<stopper, closed, cancelled>>

Dropped == {"queue_full", "rejected", "shutdown"}

TypeOK ==
    /\ caller \in [Callers -> {"idle", "copied", "fits", "sent", "added"}]
    /\ hand \in [Callers -> Groups \cup {None}]
    /\ offered \subseteq Groups
    /\ queue \in Seq(Groups)
    /\ queued \in Int /\ bytes \in Int
    /\ sender \in {"idle", "filling", "writing", "backoff", "exited"}
    /\ group \in Groups \cup {None}
    /\ rest \in Seq(Rows) /\ pending \in Seq(Rows)
    /\ tenant \in Tenants \cup {None}
    /\ stopper \in {"none", "locking", "draining", "returned"}
    /\ closed \in BOOLEAN /\ cancelled \in BOOLEAN
    /\ outcome \in [Rows -> Dropped \cup {"none", "sent", "ignored"}]
    /\ remote \subseteq Rows

Init ==
    /\ caller = [w \in Callers |-> "idle"]
    /\ hand = [w \in Callers |-> None]
    /\ offered = {}
    /\ queue = <<>>
    /\ queued = 0 /\ bytes = 0
    /\ sender = "idle"
    /\ group = None
    /\ rest = <<>> /\ pending = <<>>
    /\ tenant = None
    /\ stopper = "none"
    /\ closed = FALSE /\ cancelled = FALSE
    /\ outcome = [r \in Rows |-> "none"]
    /\ remote = {}

-----------------------------------------------------------------------------
(* Forward.                                                                *)

\* The loop of Forward that copies the rows of a group that pass the filter.
Copies(g) ==
    LET kept[i \in 0..Len(Content[g])] ==
            IF i = 0 THEN <<>>
            ELSE IF Content[g][i] \in Selected
                 THEN Append(kept[i - 1], Content[g][i])
                 ELSE kept[i - 1]
    IN  kept[Len(Content[g])]

SumSizes(rows) == FoldSeq(LAMBDA r, sum : Size[r] + sum, 0, rows)

\* Mutant: the sizes of the whole group are summed, filtered rows included.
BytesUnfiltered(g) == SumSizes(Content[g])

BytesOf(g) == SumSizes(Copies(g))

Mark(rows, what) ==
    outcome' = [r \in Rows |-> IF r \in ToSet(rows) THEN what ELSE outcome[r]]

\* Forward takes the read lock, looks at f.closed and copies what passes the
\* filter.  A forwarder that is closed ignores the group.
Enter(w, g) ==
    /\ caller[w] = "idle"
    /\ g \notin offered
    /\ stopper # "locking"
    /\ offered' = offered \cup {g}
    /\ IF closed \/ Copies(g) = <<>>
       THEN /\ Mark(Copies(g), "ignored")
            /\ UNCHANGED <<caller, hand>>
       ELSE /\ caller' = [caller EXCEPT ![w] = "copied"]
            /\ hand' = [hand EXCEPT ![w] = g]
            /\ UNCHANGED outcome
    /\ UNCHANGED <<queue, counters, sending, stopping>>

\* The reason under which copies that find no room are counted.
DropQueueFull == "queue_full"

\* Forward returns and releases the read lock.
Leave(w) ==
    /\ caller' = [caller EXCEPT ![w] = "idle"]
    /\ hand' = [hand EXCEPT ![w] = None]

Fits(g) ==
    /\ queued + Len(Copies(g)) <= QueueMaxMessages
    /\ QueueMaxBytes > 0 => bytes + BytesOf(g) <= QueueMaxBytes

\* The limits, as the counters stand now.
Check(w) ==
    /\ caller[w] = "copied"
    /\ IF Fits(hand[w])
       THEN /\ caller' = [caller EXCEPT ![w] = "fits"]
            /\ UNCHANGED <<hand, outcome>>
       ELSE /\ Leave(w)
            /\ Mark(Copies(hand[w]), DropQueueFull)
    /\ UNCHANGED <<offered, queue, counters, sending, stopping>>

\* The non-blocking send.
Send(w) ==
    /\ caller[w] = "fits"
    /\ IF Len(queue) < QueueSlots
       THEN /\ queue' = Append(queue, hand[w])
            /\ caller' = [caller EXCEPT ![w] = "sent"]
            /\ UNCHANGED <<hand, outcome>>
       ELSE /\ Leave(w)
            /\ Mark(Copies(hand[w]), DropQueueFull)
            /\ UNCHANGED queue
    /\ UNCHANGED <<offered, counters, sending, stopping>>

AddQueued(w) ==
    /\ caller[w] = "sent"
    /\ caller' = [caller EXCEPT ![w] = "added"]
    /\ queued' = queued + Len(Copies(hand[w]))
    /\ UNCHANGED <<hand, offered, queue, bytes, sending, stopping, outcome>>

AddBytes(w) ==
    /\ caller[w] = "added"
    /\ bytes' = bytes + BytesOf(hand[w])
    /\ Leave(w)
    /\ UNCHANGED <<offered, queue, queued, sending, stopping, outcome>>

-----------------------------------------------------------------------------
(* The sender goroutine.                                                   *)

\* Mutant: the tenant of the pending rows is not looked at.
TenantIgnored == FALSE

\* A batch carries one tenant: a change flushes what is pending.
TenantChanges == pending # <<>> /\ Tenant[group] # tenant

\* A flush is due.
BatchFull(rows) ==
    \/ Len(rows) >= BatchMaxRows
    \/ BatchMaxBytes > 0 /\ SumSizes(rows) >= BatchMaxBytes

\* The sender goes on without touching anything else.
GoTo(where) ==
    /\ sender' = where
    /\ UNCHANGED <<callers, queue, counters, batch, remote, stopping, outcome>>

Receive ==
    /\ sender = "idle"
    /\ queue # <<>>
    /\ queue' = Tail(queue)
    /\ group' = Head(queue)
    /\ rest' = Copies(Head(queue))
    /\ sender' = "filling"
    /\ UNCHANGED <<callers, counters, pending, tenant, remote, stopping, outcome>>

\* Rows are appended one by one, with a flush whenever the batch is full.
Fill ==
    /\ sender = "filling"
    /\ rest # <<>>
    /\ IF TenantChanges
       THEN /\ sender' = "writing"
            /\ UNCHANGED <<rest, pending, tenant>>
       ELSE /\ tenant' = Tenant[group]
            /\ pending' = Append(pending, Head(rest))
            /\ rest' = Tail(rest)
            /\ sender' = IF BatchFull(pending') THEN "writing" ELSE "filling"
    /\ UNCHANGED <<callers, queue, counters, group, remote, stopping, outcome>>

GroupDone ==
    /\ sender = "filling"
    /\ rest = <<>>
    /\ GoTo("idle")

\* Mutant: flush does not reset the timer.
TimerNotReset ==
    /\ sender = "idle"
    /\ pending # <<>>
    /\ \A r \in Rows : outcome[r] \notin {"sent", "rejected", "shutdown"}
    /\ GoTo("writing")

\* BatchMaxWait has passed.
TimerFires ==
    /\ sender = "idle"
    /\ pending # <<>>
    /\ GoTo("writing")

\* Mutant: the sender leaves with rows it has not written.
AtOnce == "exited"

\* The closed queue is empty: flush, then return.
AfterQueueClosed == IF pending = <<>> THEN "exited" ELSE "writing"

QueueClosed ==
    /\ sender = "idle"
    /\ closed
    /\ queue = <<>>
    /\ GoTo(AfterQueueClosed)

\* write takes the rows off the counters as it returns; flush empties the
\* batch.
WriteReturns(what) ==
    /\ Mark(pending, what)
    /\ queued' = queued - Len(pending)
    /\ bytes' = bytes - SumSizes(pending)
    /\ pending' = <<>>
    /\ sender' = "filling"
    /\ UNCHANGED <<callers, queue, group, rest, tenant, stopping>>

WriteSucceeds ==
    /\ sender = "writing"
    /\ ToSet(pending) \cap Poison = {}
    /\ remote' = remote \cup ToSet(pending)
    /\ WriteReturns("sent")

WriteRejected ==
    /\ sender = "writing"
    /\ ~cancelled
    /\ ToSet(pending) \cap Poison # {}
    /\ WriteReturns("rejected")
    /\ UNCHANGED remote

\* A transient failure; the remote may hold the rows all the same.
WriteFails ==
    /\ sender = "writing"
    /\ ~cancelled
    /\ sender' = "backoff"
    /\ \/ UNCHANGED remote
       \/ /\ ToSet(pending) \cap Poison = {}
          /\ remote' = remote \cup ToSet(pending)
    /\ UNCHANGED <<callers, queue, counters, batch, stopping, outcome>>

\* Mutant: only the pause between two attempts notices the cancellation.
OnlyInBackoff == sender = "backoff"

\* The write and the pause before a retry both end when stopCtx does.
Interruptible == sender \in {"writing", "backoff"}

\* Stop gave up: whatever the remote said, the rows count as dropped.
WriteAbandoned ==
    /\ Interruptible
    /\ cancelled
    /\ WriteReturns("shutdown")
    /\ remote' \in {remote, remote \cup (ToSet(pending) \ Poison)}

BackoffEnds ==
    /\ sender = "backoff"
    /\ GoTo("writing")

-----------------------------------------------------------------------------
(* Stop.                                                                   *)

StopCalled ==
    /\ stopper = "none"
    /\ stopper' = "locking"
    /\ UNCHANGED <<callers, queue, counters, sending, closed, cancelled, outcome>>

\* Mutant: Stop does not wait for the calls of Forward.
ReadersIgnored == TRUE

\* The write lock is granted when no call of Forward holds the read lock.
NoReaders == \A w \in Callers : caller[w] = "idle"

CloseQueue ==
    /\ stopper = "locking"
    /\ NoReaders
    /\ stopper' = "draining"
    /\ closed' = TRUE
    /\ UNCHANGED <<callers, queue, counters, sending, cancelled, outcome>>

\* The context of Stop ends before the sender does.
DeadlineExpires ==
    /\ stopper = "draining"
    /\ sender # "exited"
    /\ ~cancelled
    /\ cancelled' = TRUE
    /\ UNCHANGED <<callers, queue, counters, sending, stopper, closed, outcome>>

StopReturns ==
    /\ stopper = "draining"
    /\ sender = "exited"
    /\ stopper' = "returned"
    /\ UNCHANGED <<callers, queue, counters, sending, closed, cancelled, outcome>>

Forward(w) ==
    \/ \E g \in Groups : Enter(w, g)
    \/ Check(w) \/ Send(w) \/ AddQueued(w) \/ AddBytes(w)

Sender ==
    \/ Receive \/ Fill \/ GroupDone \/ TimerFires \/ QueueClosed
    \/ WriteSucceeds \/ WriteRejected \/ WriteFails \/ WriteAbandoned
    \/ BackoffEnds

Next ==
    \/ \E w \in Callers : Forward(w)
    \/ Sender
    \/ StopCalled \/ CloseQueue \/ DeadlineExpires \/ StopReturns

Spec == Init /\ [][Next]_vars

\* A call of Forward that has begun runs to its end, the sender runs whenever
\* it has something to do, the context of Stop has a deadline and a remote
\* call returns once it is cancelled.  Nothing is assumed of the remote.
Fairness ==
    /\ \A w \in Callers :
          WF_vars(Check(w) \/ Send(w) \/ AddQueued(w) \/ AddBytes(w))
    /\ WF_vars(Receive \/ Fill \/ GroupDone \/ QueueClosed)
    /\ WF_vars(TimerFires)
    /\ WF_vars(WriteAbandoned)
    /\ WF_vars(BackoffEnds)
    /\ WF_vars(CloseQueue)
    /\ WF_vars(DeadlineExpires)
    /\ WF_vars(StopReturns)

FairSpec == Spec /\ Fairness

\* A remote that keeps failing for a while answers in the end.
RemoteRecovers == SF_vars(WriteSucceeds \/ WriteRejected)

-----------------------------------------------------------------------------
(* Properties.                                                             *)

\* Where a copy is: in the hands of the call that makes it, in a group of the
\* queue, at a position of the sender's buffers, or counted under an outcome.
Places(r) ==
    {<<"call", w>> : w \in {x \in Callers : /\ caller[x] \in {"copied", "fits"}
                                            /\ r \in ToSet(Copies(hand[x]))}}
      \cup {<<"queue", i>> : i \in {j \in DOMAIN queue : r \in ToSet(Copies(queue[j]))}}
      \cup {<<"rest", i>> : i \in {j \in DOMAIN rest : rest[j] = r}}
      \cup {<<"pending", i>> : i \in {j \in DOMAIN pending : pending[j] = r}}
      \cup {<<"counted">> : x \in {outcome[r]} \ {"none"}}

\* Every copy is in exactly one place; none is duplicated or lost by a flush, a
\* tenant change, a rejection or Stop.
CopyInOnePlace ==
    \A g \in offered : \A r \in ToSet(Copies(g)) : Cardinality(Places(r)) = 1

\* What the counters tell is what the remote holds: a copy counted as sent
\* is there, a copy counted as rejected or refused is not.
OutcomeIsTrue ==
    \A r \in Rows :
        /\ outcome[r] = "sent" => r \in remote
        /\ outcome[r] \in {"queue_full", "rejected", "ignored"} => r \notin remote

\* The rows and the bytes that are in memory behind Forward.
RowsOf == [g \in Groups |-> Len(Copies(g))]
SizeOf == [g \in Groups |-> BytesOf(g)]
BufferedRows == FoldSeq(LAMBDA g, n : RowsOf[g] + n, 0, queue) + Len(rest) + Len(pending)
BufferedBytes ==
    FoldSeq(LAMBDA g, n : SizeOf[g] + n, 0, queue) + SumSizes(rest) + SumSizes(pending)

\* What the calls that have sent have not added to the counters yet.
LateRows == [w \in Callers |-> IF caller[w] = "sent" THEN RowsOf[hand[w]] ELSE 0]
LateBytes ==
    [w \in Callers |-> IF caller[w] \in {"sent", "added"} THEN SizeOf[hand[w]] ELSE 0]

\* f.queued and f.bytes are the rows and bytes in memory, up to the calls
\* that have sent and not yet added: neither drifts over the life of a target.
CountersExact ==
    /\ queued + MapThenSumSet(LAMBDA w : LateRows[w], Callers) = BufferedRows
    /\ bytes + MapThenSumSet(LAMBDA w : LateBytes[w], Callers) = BufferedBytes

\* The buffer exceeds its configured size at most by the groups that the
\* other writers were adding at the same moment: Forward checks and adds
\* under a read lock that the writers share, so the limit itself can be
\* passed.
BufferNearlyBounded ==
    LET most == Max({RowsOf[g] : g \in Groups})
    IN  BufferedRows <= QueueMaxMessages + (Cardinality(Callers) - 1) * most

\* A write carries rows of one tenant only.
OneTenantPerWrite ==
    sender \in {"writing", "backoff"} =>
        \A g \in Groups : ToSet(Copies(g)) \cap ToSet(pending) # {} =>
            Tenant[g] = tenant

\* Forward never sends on the closed queue, which would panic.
NoSendOnClosed ==
    closed => \A w \in Callers : caller[w] \notin {"copied", "fits"}

\* When Stop returns nothing is left in memory: every copy that was taken in
\* is at the remote or counted as dropped.
StopDrains ==
    stopper = "returned" =>
        queue = <<>> /\ rest = <<>> /\ pending = <<>> /\ queued = 0 /\ bytes = 0

\* No copy is lost, duplicated or miscounted on its way through the target, and
\* none is left in memory when Stop returns.
CopiesAccounted == CopyInOnePlace /\ OutcomeIsTrue /\ StopDrains

\* The counters that Forward compares with the limits follow the buffer, and so
\* the buffer stays near them.
BufferAccounted == CountersExact /\ BufferNearlyBounded

\* Stop returns whatever the remote does.
StopTerminates == stopper = "locking" ~> stopper = "returned"

\* With a remote that recovers every copy taken in is settled in the end.
EveryCopySettled ==
    RemoteRecovers =>
        \A g \in Groups : g \in offered ~>
            \A r \in ToSet(Copies(g)) : outcome[r] # "none"
=============================================================================
