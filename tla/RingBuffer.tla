----------------------------- MODULE RingBuffer -----------------------------
(***************************************************************************)
(* The fixed-capacity FIFO of the web client (lib/ring-buffer.ts): a ring  *)
(* is an array, the index of its oldest item and the number of items.  The *)
(* counter `dropped' is read by no page and is left out.                   *)
(***************************************************************************)
EXTENDS Integers, Sequences, FiniteSets, SequencesExt, FiniteSetsExt

CONSTANT NoRow    \* an array slot that holds nothing

\* new RingBuffer(capacity)
NewRing(capacity) ==
    [buf |-> [i \in 0..(capacity - 1) |-> NoRow], start |-> 0, count |-> 0]

Capacity(rb) == Cardinality(DOMAIN rb.buf)

\* The array index of the item at position i, counted from the oldest.
Slot(rb, i) == (rb.start + i) % Capacity(rb)

PushOneKeepsStart(rb, item) ==       \* mutant: the oldest index stays put
    [buf   |-> [rb.buf EXCEPT ![Slot(rb, rb.count)] = item],
     start |-> rb.start,
     count |-> IF rb.count = Capacity(rb) THEN rb.count ELSE rb.count + 1]

\* One round of the loop in push: the write lands behind the newest item,
\* and when the ring is full that slot is the oldest one's.
PushOne(rb, item) ==
    LET full == rb.count = Capacity(rb)
    IN  [buf   |-> [rb.buf EXCEPT ![Slot(rb, rb.count)] = item],
         start |-> IF full THEN (rb.start + 1) % Capacity(rb) ELSE rb.start,
         count |-> IF full THEN rb.count ELSE rb.count + 1]

\* The loop: pushed[i] is the ring after i items.
Push(rb, items) ==
    LET pushed[i \in 0..Len(items)] ==
            IF i = 0 THEN rb ELSE PushOne(pushed[i - 1], items[i])
    IN  pushed[Len(items)]

\* Oldest-first copy of the contents.
ToArray(rb) == [i \in 1..rb.count |-> rb.buf[Slot(rb, i - 1)]]

ClearRing(rb) == NewRing(Capacity(rb))

\* The newest n items of a sequence: slice(max(0, length - n)).
Newest(s, n) == SubSeq(s, Max({0, Len(s) - n}) + 1, Len(s))

\* A ring of another capacity that keeps the newest items.
Resize(rb, capacity) == Push(NewRing(capacity), Newest(ToArray(rb), capacity))
=============================================================================
