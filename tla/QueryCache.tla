----------------------------- MODULE QueryCache -----------------------------
(***************************************************************************)
(* One entry of the web client's query cache (TanStack Query), as          *)
(* api/hooks uses it.  A fetch that is on its way is "asked" until the     *)
(* server reads its state for it; what it read is then fixed, however late *)
(* the answer comes.  Asking again joins a fetch that is on its way.  An   *)
(* invalidation drops it and asks anew, but it joins the first fetch of an *)
(* entry that has no data yet; setQueryData leaves a fetch alone.          *)
(***************************************************************************)
EXTENDS Naturals

NoData == [version |-> 0]
NotAsked == [step |-> "no", data |-> NoData]
Asked == [step |-> "asked", data |-> NoData]

EmptyEntry == [data |-> NoData, error |-> FALSE, fetch |-> NotAsked]

\* An observer is mounted, or the interval of a poll has passed.
Refetch(q) == IF q.fetch = NotAsked THEN [q EXCEPT !.fetch = Asked] ELSE q

\* A first fetch is on its way: it is not cancelled.
FirstRead(q) == q.data = NoData /\ q.fetch # NotAsked

\* invalidateQueries, of a query that is observed.
Invalidate(q) == IF FirstRead(q) THEN q ELSE [q EXCEPT !.fetch = Asked]

\* The fetch was answered before the invalidation that joined it.
Overtaken(q) == FirstRead(q) /\ q.fetch # Asked

SetQueryData(q, d) == [q EXCEPT !.data = d, !.error = FALSE]

\* The server answers: d, or an error when there is nothing to return.
AnswerFetch(q, d) == [q EXCEPT !.fetch = [step |-> "answered", data |-> d]]

Arrive(q) ==
    IF q.fetch.data = NoData
    THEN [q EXCEPT !.error = TRUE, !.fetch = NotAsked]
    ELSE [data |-> q.fetch.data, error |-> FALSE, fetch |-> NotAsked]
=============================================================================
