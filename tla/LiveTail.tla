------------------------------ MODULE LiveTail ------------------------------
(***************************************************************************)
(* The live tail page of the web client (features/live-tail): a stream of  *)
(* server-sent events that reconnects with backoff (tailSource.ts), a      *)
(* store of rows outside React that renders at most once per frame         *)
(* (tailStore.ts), and the page around them (LiveTailPage.tsx).            *)
(*                                                                         *)
(* A row is the connection that delivered it and its number in the log of  *)
(* the server; a row that is not stored yet is one that is delivered       *)
(* later.  A query is only told apart by whether it parses: every change   *)
(* to one that does makes a connection of its own.  A (re)connection       *)
(* starts a little in the past (start_offset=5s), so the server may begin  *)
(* at any row.  The rate of rows per second, the      *)
(* `stats' events (no handler is installed), the text of an error and what *)
(* only looks at rendered rows (highlighting, the drawer) are left out.    *)
(***************************************************************************)
EXTENDS RingBuffer

CONSTANTS
    MaxRow,       \* bound: rows in the server's log
    MaxRowOptions,\* the sizes the page offers
    DefaultSize,  \* 2000 in the code
    AttemptCap    \* bound: failures in a row that are told apart

ASSUME LiveTailAssumption ==
    /\ MaxRow \in Nat \ {0}
    /\ MaxRowOptions \subseteq Nat \ {0} /\ DefaultSize \in MaxRowOptions
    /\ AttemptCap \in Nat \ {0}

VARIABLES
    mounted,      \* the page is open
    parses,       \* the query of the URL parses
    conns,        \* the connections: the current one and the one before it
    cur,          \* which of them the page's effect holds
    status,       \* what the indicator says
    rows,         \* TailStore.rows
    pending,      \* TailStore.pending
    paused,       \* TailStore.paused and the page's copy of it
    scheduled,    \* TailStore.scheduled: a frame was asked for
    view,         \* the rows the page rendered last
    autoScroll,   \* the page follows the newest row
    atBottom,     \* where the list is scrolled to
    up            \* the server serves tails

stream == <<conns, cur, status>>
store == <<rows, pending, paused>>
page == <<autoScroll, atBottom>>
vars == <<mounted, parses, stream, store, scheduled, view, page, up>>

Slots == {1, 2}
Rows == [from : Slots, n : 1..MaxRow]
TailStatus == {"connecting", "live", "reconnecting", "error"}

\* MAX_BACKOFF_MS, and the delay before the jitter of 25 % either way.
MaxBackoff == 15000
Backoff(attempt) == Min({MaxBackoff, 500 * 2 ^ Min({attempt, 5})})

\* timer is the delay of the reconnect that is due, 0: none.
Conn == [es : {"none", "connecting", "open"},
         timer : 0..MaxBackoff, closed : BOOLEAN, attempt : 0..AttemptCap,
         cursor : 0..MaxRow]
NoConn == [es |-> "none", timer |-> 0, closed |-> TRUE,
           attempt |-> 0, cursor |-> 0]

CloseLeavesTimer(c) ==              \* mutant: clearTimeout is missing
    [c EXCEPT !.closed = TRUE, !.es = "none"]

\* close(): the flag, the timer and the EventSource.  Nothing reads the other
\* variables of a closed connection, so they are reset as well.
Close(c) == [NoConn EXCEPT !.closed = TRUE, !.timer = 0, !.es = "none"]

-----------------------------------------------------------------------------
(***************************************************************************)
(* The page.                                                               *)
(***************************************************************************)

\* The effect on the query: the cleanup closes the connection there was;
\* a query that parses empties the store and connects, one that does not
\* stops here and leaves the store and the indicator as they are.
ConnectTo(ok) ==
    LET nxt == 3 - cur IN
    IF ~ok
    THEN /\ conns' = [conns EXCEPT ![cur] = Close(@)]
         /\ UNCHANGED <<cur, status, rows, pending, scheduled>>
    ELSE /\ conns' = [conns EXCEPT ![cur] = Close(@),
                                   ![nxt] = [NoConn EXCEPT !.closed = FALSE, !.es = "connecting"]]
         /\ cur' = nxt
         /\ status' = "connecting"
         /\ rows' = ClearRing(rows) /\ pending' = ClearRing(pending)
         /\ scheduled' = TRUE

PageInit ==
    /\ parses = FALSE
    /\ conns = [s \in Slots |-> NoConn] /\ cur = 1
    /\ status = "connecting"
    /\ rows = NewRing(DefaultSize) /\ pending = NewRing(DefaultSize)
    /\ paused = FALSE /\ scheduled = FALSE /\ view = <<>>
    /\ autoScroll = TRUE /\ atBottom = TRUE

Init ==
    /\ mounted = FALSE
    /\ PageInit
    /\ up = TRUE

\* Opening the page mounts fresh state and runs the effect for its URL.
Enter(ok) ==
    /\ ~mounted /\ mounted' = TRUE
    /\ parses' = ok
    /\ IF ~ok
       THEN UNCHANGED <<conns, cur, status, rows, pending, scheduled>>
       ELSE ConnectTo(ok)
    /\ UNCHANGED <<paused, view, page, up>>

\* Leaving it runs the effect's cleanup; the state of the page is gone.
Leave ==
    /\ mounted /\ mounted' = FALSE
    /\ parses' = FALSE
    /\ conns' = [conns EXCEPT ![cur] = Close(@)]
    /\ UNCHANGED <<cur, up>>
    /\ status' = "connecting"
    /\ rows' = NewRing(DefaultSize) /\ pending' = NewRing(DefaultSize)
    /\ paused' = FALSE /\ scheduled' = FALSE /\ view' = <<>>
    /\ autoScroll' = TRUE /\ atBottom' = TRUE

\* setSearch: the query bar, or + and - in the drawer, change the URL.
SetSearch(ok) ==
    /\ mounted
    /\ parses' = ok
    /\ ConnectTo(ok)
    /\ UNCHANGED <<mounted, paused, view, page, up>>

\* The page follows the newest row when it renders, when auto-scroll is
\* switched on and when it is resumed.
Follows(auto, pause, v) == auto /\ ~pause /\ v # <<>>

\* togglePause: setPaused(false) lets the rows that waited in.
TogglePause ==
    /\ mounted /\ paused' = ~paused
    /\ IF paused
       THEN /\ rows' = Push(rows, ToArray(pending))
            /\ pending' = ClearRing(pending)
       ELSE UNCHANGED <<rows, pending>>
    /\ scheduled' = TRUE
    /\ atBottom' = (atBottom \/ Follows(autoScroll, paused', view))
    /\ UNCHANGED <<mounted, parses, stream, view, autoScroll, up>>

\* The Clear button.
ClearRows ==
    /\ mounted
    /\ rows' = ClearRing(rows) /\ pending' = ClearRing(pending)
    /\ scheduled' = TRUE
    /\ UNCHANGED <<mounted, parses, stream, paused, view, page, up>>

\* The Max rows list.
SetMaxRows(n) ==
    /\ mounted /\ n # Capacity(rows)
    /\ rows' = Resize(rows, n) /\ pending' = Resize(pending, n)
    /\ scheduled' = TRUE
    /\ UNCHANGED <<mounted, parses, stream, paused, view, page, up>>

\* The auto-scroll button and the `Jump to latest' button.
ToggleAutoScroll ==
    /\ mounted /\ autoScroll' = ~autoScroll
    /\ atBottom' = (atBottom \/ Follows(autoScroll', paused, view))
    /\ UNCHANGED <<mounted, parses, stream, store, scheduled, view, up>>

\* onScroll: away from the bottom stops following, back there resumes.
OnScroll ==
    /\ mounted /\ view # <<>>
    /\ atBottom' = ~atBottom
    /\ autoScroll' = atBottom'
    /\ UNCHANGED <<mounted, parses, stream, store, scheduled, view, up>>

\* The list renders v: a longer list leaves the bottom unless it follows.
Render(v) ==
    /\ view' = v
    /\ atBottom' = \/ Follows(autoScroll, paused, v)
                   \/ atBottom /\ Len(v) <= Len(view)

\* The frame that notify() asked for: the version moves, the page renders.
Frame ==
    /\ mounted /\ scheduled /\ scheduled' = FALSE
    /\ Render(ToArray(rows))
    /\ UNCHANGED <<mounted, parses, stream, store, autoScroll, up>>

-----------------------------------------------------------------------------
(***************************************************************************)
(* connectTail.  The browser dispatches no event of an EventSource that    *)
(* was closed.                                                             *)
(***************************************************************************)

Opened(s) ==
    /\ conns[s].es = "connecting" /\ up
    /\ \E from \in 0..MaxRow :
          conns' = [conns EXCEPT ![s].es = "open", ![s].attempt = 0, ![s].cursor = from]
    /\ status' = "live"
    /\ UNCHANGED <<mounted, parses, cur, store, scheduled, view, page, up>>

\* A `logs' event: TailStore.push of its rows.
Logs(s) ==
    /\ conns[s].es = "open"
    /\ \E upTo \in (conns[s].cursor + 1)..MaxRow :
          LET batch == [i \in 1..(upTo - conns[s].cursor) |->
                           [from |-> s, n |-> conns[s].cursor + i]]
          IN  /\ conns' = [conns EXCEPT ![s].cursor = upTo]
              /\ rows' = IF paused THEN rows ELSE Push(rows, batch)
              /\ pending' = IF paused THEN Push(pending, batch) ELSE pending
    /\ scheduled' = TRUE
    /\ UNCHANGED <<mounted, parses, cur, status, paused, view, page, up>>

ErrorEndsStream(s) ==               \* mutant: a server error is final
    /\ conns[s].es # "none" /\ ~up
    /\ \E data \in IF conns[s].es = "open" THEN BOOLEAN ELSE {FALSE} :
       LET n == Min({AttemptCap, conns[s].attempt + 1}) IN
       IF conns[s].closed \/ data
       THEN /\ conns' = [conns EXCEPT ![s].es = "none"]
            /\ status' = IF data THEN "error" ELSE status
       ELSE /\ conns' = [conns EXCEPT ![s].es = "none", ![s].attempt = n,
                                      ![s].timer = Backoff(n)]
            /\ status' = IF data THEN "error" ELSE "reconnecting"
    /\ UNCHANGED <<mounted, parses, cur, store, scheduled, view, page, up>>

\* An `error' event: with data the server ends the stream, without data the
\* connection failed.  Either way it is closed and a reconnect is due.
Error(s) ==
    /\ conns[s].es # "none" /\ ~up
    /\ \E data \in IF conns[s].es = "open" THEN BOOLEAN ELSE {FALSE} :
       LET n == Min({AttemptCap, conns[s].attempt + 1}) IN
       IF conns[s].closed
       THEN /\ conns' = [conns EXCEPT ![s].es = "none"]
            /\ status' = IF data THEN "error" ELSE status
       ELSE /\ conns' = [conns EXCEPT ![s].es = "none", ![s].attempt = n,
                                      ![s].timer = Backoff(n)]
            /\ status' = IF data THEN "error" ELSE "reconnecting"
    /\ UNCHANGED <<mounted, parses, cur, store, scheduled, view, page, up>>

\* The timer fires: open() again.
Reopen(s) ==
    /\ conns[s].timer # 0
    /\ conns' = [conns EXCEPT ![s].timer = 0, ![s].es = "connecting"]
    /\ status' = IF conns[s].attempt = 0 THEN "connecting" ELSE "reconnecting"
    /\ UNCHANGED <<mounted, parses, cur, store, scheduled, view, page, up>>

\* The server fails and comes back.
Flip ==
    /\ up' = ~up
    /\ UNCHANGED <<mounted, parses, stream, store, scheduled, view, page>>

Next ==
    \/ \E ok \in BOOLEAN : Enter(ok) \/ SetSearch(ok)
    \/ Leave
    \/ TogglePause \/ ClearRows \/ ToggleAutoScroll \/ OnScroll
    \/ \E n \in MaxRowOptions : SetMaxRows(n)
    \/ Frame
    \/ \E s \in Slots : Opened(s) \/ Logs(s) \/ Error(s) \/ Reopen(s)
    \/ Flip

Spec == Init /\ [][Next]_vars

\* The browser renders the frames it was asked for, timers fire, and a
\* connection attempt is answered.
Fairness ==
    /\ WF_vars(Frame)
    /\ WF_vars(\E s \in Slots : Opened(s))
    /\ WF_vars(\E s \in Slots : Reopen(s))
    /\ WF_vars(\E s \in Slots : Error(s))

FairSpec == Spec /\ Fairness

-----------------------------------------------------------------------------
(***************************************************************************)
(* Properties.                                                             *)
(***************************************************************************)

Ring(c) == [buf : [0..(c - 1) -> Rows \cup {NoRow}], start : 0..(c - 1), count : 0..c]

\* The shape of the state of the page.
TypeOK ==
    /\ mounted \in BOOLEAN /\ parses \in BOOLEAN
    /\ conns \in [Slots -> Conn] /\ cur \in Slots /\ status \in TailStatus
    /\ \E c \in MaxRowOptions : rows \in Ring(c) /\ pending \in Ring(c)
    /\ paused \in BOOLEAN /\ scheduled \in BOOLEAN
    /\ view \in Seq(Rows)
    /\ autoScroll \in BOOLEAN /\ atBottom \in BOOLEAN
    /\ up \in BOOLEAN

\* The two ring buffers of TailStore behave as two windows on the newest
\* rows: whatever the order of pushes, pauses, resumes, clears and resizes,
\* no row is lost that still fits, and none is shown twice or out of order.
Window == INSTANCE TailWindow WITH
    Items <- Rows, Sizes <- MaxRowOptions, MaxBatch <- MaxRow,
    shown <- ToArray(rows), held <- ToArray(pending),
    size <- Capacity(rows), frozen <- paused

KeepsTheNewest == Window!Spec

\* A reconnect timer or an EventSource that is still alive belongs to the
\* connection the open page holds: neither a change of the query nor leaving
\* the page leaves a stream behind that would fetch or reconnect forever.
OneStream ==
    \A s \in Slots :
        conns[s].es # "none" \/ conns[s].timer # 0 => mounted /\ s = cur /\ ~conns[s].closed

\* No row of an earlier query's connection is among the rows of this one.
NoForeignRows ==
    mounted /\ parses =>
        \A r \in ToSet(ToArray(rows)) \cup ToSet(ToArray(pending)) : r.from = cur

\* While the query parses, the indicator says `live' exactly when the stream
\* is open.  (After a query that does not parse it keeps what it said.)
StatusTruthful ==
    mounted /\ parses => (status = "live" <=> conns[cur].es = "open")

\* When the list on the screen differs from the store, a frame that will
\* render it is on its way: no push, clear, resume or resize is forgotten.
NoLostWakeup ==
    mounted /\ ~scheduled => view = ToArray(rows)

\* While the page follows the tail, the newest row is in view.
FollowsNewest ==
    mounted /\ Follows(autoScroll, paused, view) => atBottom

\* The page is of one query and says so: its stream is the only one, the rows,
\* the indicator, the list on the screen and the scroll position follow it.
PageIsTrue == OneStream /\ NoForeignRows /\ StatusTruthful /\ NoLostWakeup /\ FollowsNewest

\* When the server serves tails from some time on and the page keeps asking
\* for the same query, the stream is live from some time on: no error, with
\* or without a reason from the server, ends the reconnecting.
StreamRecovers ==
    \A s \in Slots :
        <>[](mounted /\ parses /\ cur = s /\ up) => <>[](status = "live")
=============================================================================
