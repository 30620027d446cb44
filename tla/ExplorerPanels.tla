--------------------------- MODULE ExplorerPanels ---------------------------
(***************************************************************************)
(* The log explorer around its query bar (features/explorer/ExplorerPage): *)
(* the time range, which is resolved once and for all panels; the table    *)
(* of results, which grows by pages; the histogram, which keeps showing    *)
(* what it had until the next answer; the selected log; and a store in     *)
(* which logs keep arriving, some of them late.  The facets of the sidebar *)
(* are read and kept like the histogram and add no state of their own.     *)
(*                                                                         *)
(* A read is answered in one step: what the server finds then is shown.    *)
(* A read whose key is no longer on the page is aborted.                   *)
(***************************************************************************)
EXTENDS QueryBar, Integers, FiniteSets

CONSTANTS
    Logs,             \* [time, kind]: kind is one of Samples; logs may share a time
    Ranks,            \* the orders in which the store may list logs of one time: functions on Logs
    StartLogs,        \* the logs that have arrived at the start
    Ranges,           \* [from, to] that may be picked
    Links,            \* addresses in the browser's history or in a link
    Now,              \* the time at the start
    SEARCH_PAGE_SIZE, MAX_LOADED_ROWS,
    MaxTieGroup,      \* query.max_tie_group of the server
    MaxEvents         \* bound: reads that fail, logs that arrive, moments that pass

VARIABLES
    clock, arrived,
    range,            \* the window that from and to were resolved to
    cache,            \* the queries that hold data: [panel, key, data]
    reading,          \* the queries on the page that are being read, and "more"
    failed,           \* the queries whose last read failed: [panel, key]
    kept,             \* what the histogram showed last
    selectedIndex, histogramOpen,
    ranWith,          \* ghost: the logs that had arrived when the query was last run
    revisited,        \* ghost: the page was left and opened again
    events            \* ghost: the bound

panelVars == <<clock, arrived, range, cache, reading, failed, kept, selectedIndex, 
               histogramOpen, ranWith, revisited, events>>

Panels == {"results", "histogram"}
NoWindow == [start |-> 0, end |-> 0]
NoKey == [win |-> NoWindow]
NoData == [win |-> NoWindow]
NoRow == -2
NoLog == [time |-> -1]

Ago(n) == [kind |-> "ago", n |-> n]
At(n) == [kind |-> "at", n |-> n]
Garbled == [kind |-> "garbled", n |-> 0]

-----------------------------------------------------------------------------
(***************************************************************************)
(* The window: resolveExpr, resolveRange, zoomOut.                         *)
(***************************************************************************)

ResolveExpr(e) == IF e.kind = "ago" THEN clock - e.n ELSE e.n

ResolveRange(from, to) ==
    IF from = Garbled \/ to = Garbled \/ ResolveExpr(from) >= ResolveExpr(to) THEN NoWindow
    ELSE [start |-> ResolveExpr(from), end |-> ResolveExpr(to)]

ZoomedOut(from, to) ==
    LET w == ResolveRange(from, to)
        dur == w.end - w.start
        end == w.end + dur \div 2
    IN  IF end > clock /\ to = Ago(0) THEN [from |-> Ago(2 * dur), to |-> to]
        ELSE [from |-> At(w.start - dur \div 2), to |-> At(IF end > clock THEN clock ELSE end)]

-----------------------------------------------------------------------------
(***************************************************************************)
(* The keys of the queries, of an address u, a window w, a run id and      *)
(* whether the histogram is open.                                          *)
(***************************************************************************)

\* withoutPipes: the panels are of the logs that the pipes start from.
WithoutPipes(native) ==
    IF ~native.pipes THEN native
    ELSE IF native.sel = Samples THEN NoNative ELSE [native EXCEPT !.pipes = FALSE]

Invalid(u, w) == w = NoWindow \/ ~Decoded(u.q).ok

\* buildSelection, and what the hooks add to it.
Selection(u, w, native) == [win |-> w, filter |-> Decoded(u.q).expr, native |-> native]

KeyOwnWindow(p, u, w, id, open) ==        \* mutant: the histogram resolves the range for itself
    CASE Invalid(u, w) -> NoKey
      [] ~Invalid(u, w) /\ p = "results" -> Selection(u, w, u.native) @@ [run |-> id]
      [] ~Invalid(u, w) /\ p = "histogram" ->
            IF open THEN Selection(u, ResolveRange(u.from, u.to), WithoutPipes(u.native))
                         @@ [run |-> id, split |-> u.split] ELSE NoKey

Key(p, u, w, id, open) ==
    CASE Invalid(u, w) -> NoKey
      [] ~Invalid(u, w) /\ p = "results" -> Selection(u, w, u.native) @@ [run |-> id]
      [] ~Invalid(u, w) /\ p = "histogram" ->
            IF open THEN Selection(u, w, WithoutPipes(u.native)) @@ [run |-> id, split |-> u.split] ELSE NoKey

KeyNow(p) == Key(p, url, range, runId, histogramOpen)

Held(p, key) == \E c \in cache : c.panel = p /\ c.key = key
Data(p, key) == IF Held(p, key) THEN (CHOOSE c \in cache : c.panel = p /\ c.key = key).data ELSE NoData
DataNow(p) == Data(p, KeyNow(p))
Failed(p) == [panel |-> p, key |-> KeyNow(p)] \in failed

Rows == IF DataNow("results") = NoData THEN <<>> ELSE DataNow("results").rows
SelectedLog == IF selectedIndex + 1 \in DOMAIN Rows THEN Rows[selectedIndex + 1] ELSE NoLog

\* The table is drawn when there is nothing else to draw in its place.
TableShown == Rows # <<>> /\ ~Failed("results")

-----------------------------------------------------------------------------
(***************************************************************************)
(* What the render after a change does.  The actions of the page and of    *)
(* the query bar say what changed; this says what follows from it.         *)
(***************************************************************************)

SelectionKept(again, w) ==        \* mutant: nothing is deselected but by a run
    FALSE

\* prevSelection !== selection: the memo is made anew when the range was
\* resolved again, and on any change of the URL when there is an object in it.
SelectionChanged(again, w) ==
    /\ ~Invalid(url, range) \/ ~Invalid(url', w)
    /\ \/ again
       \/ url' # url /\ (\E u \in {url, url'} : u.q.tokens # <<>> \/ ~u.native.blank)

ReadsOnRun(was, is, p) ==        \* mutant: only a run reads
    is # NoKey /\ runId' # runId

\* An observer that moves to another key reads it, unless its data is held;
\* staleTime is Infinity.
ReadsAnew(was, is, p) == is # NoKey /\ is # was /\ ~Held(p, is)

Follow(index, open) ==
    LET again == url'.from # url.from \/ url'.to # url.to \/ runId' # runId
        w == IF again THEN ResolveRange(url'.from, url'.to) ELSE range
        was(p) == KeyNow(p)
        is(p) == Key(p, url', w, runId', open)
        anew == {p \in Panels : ReadsAnew(was(p), is(p), p)}
        still == {p \in Panels : is(p) = was(p)}
    IN  /\ range' = w
        /\ reading' = anew \cup {p \in reading : (IF p = "more" THEN "results" ELSE p) \in still}
        /\ failed' = {f \in failed : ~\E p \in anew : f = [panel |-> p, key |-> is(p)]}
        /\ kept' = IF Held("histogram", was("histogram")) THEN Data("histogram", was("histogram")) ELSE kept
        /\ selectedIndex' = IF runId' # runId \/ SelectionChanged(again, w) THEN NoRow ELSE index
        /\ histogramOpen' = open
        /\ ranWith' = IF runId' # runId THEN arrived ELSE ranWith
        /\ UNCHANGED <<clock, arrived, cache, revisited, events>>

\* For an action of the query bar.
Rendered == Follow(selectedIndex, histogramOpen)

-----------------------------------------------------------------------------
(***************************************************************************)
(* Actions of the person on the page.                                      *)
(***************************************************************************)

NotInTheBar == UNCHANGED <<text, textError, ask>> /\ editing' = NotEditing

\* setSearch of something beside the query.
Patch(u, open) ==
    /\ url' = u /\ NotInTheBar /\ UNCHANGED <<runId, draftNative, wanted>>
    /\ Follow(selectedIndex, open)

\* TimePicker.
PickRange(r) == Patch([url EXCEPT !.from = r.from, !.to = r.to], histogramOpen)

ZoomOut ==
    /\ ResolveRange(url.from, url.to) # NoWindow
    /\ LET r == ZoomedOut(url.from, url.to)
       IN  Patch([url EXCEPT !.from = r.from, !.to = r.to], histogramOpen)

\* A bucket of the histogram that is shown, be it the one that was kept.
ZoomIn ==
    /\ histogramOpen /\ ~Failed("histogram")
    /\ LET shown == IF DataNow("histogram") # NoData THEN DataNow("histogram") ELSE kept
       IN  /\ shown # NoData
           /\ Patch([url EXCEPT !.from = At(shown.win.start), !.to = At(shown.win.start + 1)], histogramOpen)

\* onVisualize opens the histogram, too; "reset split" does not.
Visualize(f) == Patch([url EXCEPT !.split = f], TRUE)
ResetSplit == url.split # "severity" /\ Patch([url EXCEPT !.split = "severity"], histogramOpen)

ToggleHistogram == Patch(url, ~histogramOpen)

\* "shown" stands for the columns that are asked for; <<>> for the default ones.
DEFAULT_COLUMNS == <<"host">>
ParseColumns(cols) == IF cols = <<>> THEN DEFAULT_COLUMNS ELSE cols
FormatColumns(cols) == IF cols = <<>> \/ cols = DEFAULT_COLUMNS THEN <<>> ELSE cols

ToggleColumn(c) ==
    LET cols == ParseColumns(url.cols)
        next == IF c \in ToSet(cols) THEN SelectSeq(cols, LAMBDA x : x # c) ELSE Append(cols, c)
    IN  Patch([url EXCEPT !.cols = FormatColumns(next)], histogramOpen)

\* onFilter and onExclude: a value of the sidebar, the table or the drawer.  The
\* sidebar keeps values it was told for an earlier window, so it may be any.
ByShownValue(f, exclude) ==
    \E s \in {l.kind : l \in arrived} :
        /\ s[f] # "" /\ FilterByValue(f, s[f], exclude) /\ Rendered

\* j, k and the arrows; a click; Enter, o and a double click; Escape.
SelectIndex(i) ==
    /\ UNCHANGED barVars
    /\ Follow(i, histogramOpen)

Least(a, b) == IF a < b THEN a ELSE b
Greatest(a, b) == IF a > b THEN a ELSE b

NextLog == SelectIndex(Least(Len(Rows) - 1, IF selectedIndex = NoRow THEN 0 ELSE selectedIndex + 1))
PreviousLog == SelectIndex(Greatest(0, IF selectedIndex = NoRow THEN 0 ELSE selectedIndex - 1))

\* The timer of the refresh menu, if it is set, and Mod-Enter.
RunAgain ==
    /\ Run(1) /\ UNCHANGED <<url, text, textError, editing, draftNative, ask, wanted>>
    /\ Follow(NoRow, histogramOpen)

\* The button of an error panel: refetch reads every page that was loaded.  The
\* table has none when the server refused the query itself.
Retry(p) ==
    /\ Failed(p) /\ p \notin reading
    /\ p = "results" => ~KeyNow(p).native.bad
    /\ reading' = (reading \ {"more"}) \cup {p}
    /\ failed' = IF Held(p, KeyNow(p)) THEN failed ELSE failed \ {[panel |-> p, key |-> KeyNow(p)]}
    /\ UNCHANGED barVars
    /\ UNCHANGED <<clock, arrived, range, cache, kept, selectedIndex, histogramOpen, ranWith, revisited, events>>

\* The page is left and opened again by the browser's history or a link with
\* address u; its state starts over, the cache stays.
Mount(u, meant) ==
    LET w == ResolveRange(u.from, u.to)
    IN  /\ url' = u /\ runId' = 0 /\ wanted' = meant
        /\ text' = NoText /\ textError' = FALSE /\ editing' = NotEditing
        /\ draftNative' = u.native /\ ask' = NoQuestion
        /\ range' = w /\ kept' = NoData
        /\ reading' = {p \in Panels : Key(p, u, w, 0, TRUE) # NoKey /\ ~Held(p, Key(p, u, w, 0, TRUE))}
        /\ failed' = {f \in failed : Held(f.panel, f.key)}
        /\ selectedIndex' = NoRow /\ histogramOpen' = TRUE
        /\ ranWith' = {} /\ revisited' = TRUE
        /\ UNCHANGED <<clock, arrived, cache, events>>

Revisit == Mount(url, wanted)
FollowLink(u) == Mount(u, AllOf(AndTerms(Decoded(u.q).expr), u.native))

-----------------------------------------------------------------------------
(***************************************************************************)
(* The server, the store and the table that asks for more.                 *)
(***************************************************************************)

InWindow(key) == {l \in arrived : l.time >= key.win.start /\ l.time < key.win.end}
Found(key) == {l \in InWindow(key) : l.kind \in key.native.sel /\ Selects(key.filter, l.kind)}

\* Newest first; the store's order among logs of one time is not stable.
Newest(ls, rank) ==
    SetToSortSeq(ls, LAMBDA a, b : a.time > b.time \/ (a.time = b.time /\ rank[a] < rank[b]))
Limited(ls, limit) == SubSeq(ls, 1, Least(limit, Len(ls)))

SearchUncompleted(key, end, rank) ==        \* mutant: a full page is cut within its last time
    LET page == Limited(Newest({l \in Found(key) : l.time < end}, rank), SEARCH_PAGE_SIZE)
        last == page[Len(page)].time
    IN  [rows |-> page, tie |-> {},
         cursor |-> IF Len(page) = SEARCH_PAGE_SIZE /\ last > key.win.start THEN last ELSE 0]

\* Search: the page of what is older than end.  A full page may not be the
\* last; the logs of its last time are then replaced by all logs of that time,
\* up to MaxTieGroup.  tie is that time, if there were more (tie_overflow), and
\* no next_cursor is 0.  When either query fails, so does the read (FailRead).  A
\* log that arrives between the two makes no difference that it would not make
\* before both or after both.
Search(key, end, rank) ==
    LET page == Limited(Newest({l \in Found(key) : l.time < end}, rank), SEARCH_PAGE_SIZE)
        last == page[Len(page)].time
        group == {l \in Found(key) : l.time = last}
    IN  IF Len(page) < SEARCH_PAGE_SIZE THEN [rows |-> page, tie |-> {}, cursor |-> 0]
        ELSE [rows |-> SelectSeq(page, LAMBDA l : l.time # last) \o Limited(Newest(group, rank), MaxTieGroup),
              tie |-> IF Cardinality(group) > MaxTieGroup THEN {last} ELSE {},
              cursor |-> IF last > key.win.start THEN last ELSE 0]

AppendPage(key, d, rank) ==
    LET page == Search(key, d.cursor, rank)
    IN  [d EXCEPT !.rows = @ \o page.rows, !.cursor = page.cursor, !.ties = Append(@, page.tie)]

FirstPage(key, rank) ==
    LET page == IF key.native.pipes THEN [rows |-> <<>>, tie |-> {}, cursor |-> 0]
                ELSE Search(key, key.win.end, rank)
    IN  [win |-> key.win, read |-> arrived, rows |-> page.rows, cursor |-> page.cursor, ties |-> <<page.tie>>]

\* refetch of an infinite query: each page with the cursor of the one before.
Reread(key, pages, rank) ==
    FoldLeft(LAMBDA d, i : IF d.cursor = 0 THEN d ELSE AppendPage(key, d, rank),
             FirstPage(key, rank), [i \in 1 .. pages - 1 |-> i])

ReadData(p, key, rank) ==
    IF p = "results" THEN Reread(key, IF Held(p, key) THEN Len(Data(p, key).ties) ELSE 1, rank)
    ELSE [win |-> key.win, read |-> arrived]

Store(p, d) == cache' = {c \in cache : c.panel # p \/ c.key # KeyNow(p)}
                        \cup {[panel |-> p, key |-> KeyNow(p), data |-> d]}

\* A LogsQL text with a mistake in it is refused.
Answer(p) ==
    /\ p \in reading /\ reading' = reading \ {p}
    /\ IF KeyNow(p).native.bad
       THEN failed' = failed \cup {[panel |-> p, key |-> KeyNow(p)]} /\ UNCHANGED cache
       ELSE /\ \E rank \in Ranks : Store(p, ReadData(p, KeyNow(p), rank))
            /\ failed' = failed \ {[panel |-> p, key |-> KeyNow(p)]}
    /\ UNCHANGED barVars
    /\ UNCHANGED <<clock, arrived, range, kept, selectedIndex, histogramOpen,
                   ranWith, revisited, events>>

\* hasNextPage, and the cap of loadMore.
MayLoadMore(d) == d.cursor # 0 /\ Len(d.rows) < MAX_LOADED_ROWS

\* onEndReached: the end of the table has come into sight.
LoadMore ==
    /\ TableShown /\ "more" \notin reading /\ MayLoadMore(DataNow("results"))
    /\ reading' = reading \cup {"more"}
    /\ UNCHANGED barVars
    /\ UNCHANGED <<clock, arrived, range, cache, failed, kept, selectedIndex, histogramOpen, ranWith, revisited, events>>

\* getNextPageParam: the cursor of the last page.
NextCursor(d) == d.cursor

AnswerMore ==
    /\ "more" \in reading /\ reading' = reading \ {"more"}
    /\ LET d == DataNow("results")
       IN  \E rank \in Ranks :
              Store("results", AppendPage(KeyNow("results"), [d EXCEPT !.cursor = NextCursor(d)], rank))
    /\ UNCHANGED barVars
    /\ UNCHANGED <<clock, arrived, range, failed, kept, selectedIndex, histogramOpen,
                   ranWith, revisited, events>>

Event == events < MaxEvents /\ events' = events + 1

FailRead(p) ==
    /\ Event
    /\ p \in reading /\ reading' = reading \ {p}
    /\ LET panel == IF p = "more" THEN "results" ELSE p
       IN  failed' = failed \cup {[panel |-> panel, key |-> KeyNow(panel)]}
    /\ UNCHANGED barVars
    /\ UNCHANGED <<clock, arrived, range, cache, kept, selectedIndex, histogramOpen,
                   ranWith, revisited>>

TimePasses ==
    /\ Event /\ clock' = clock + 1
    /\ UNCHANGED barVars
    /\ UNCHANGED <<arrived, range, cache, reading, failed, kept, selectedIndex, histogramOpen, ranWith, revisited>>

LogArrives(l) ==
    /\ Event /\ l \notin arrived /\ l.time <= clock /\ arrived' = arrived \cup {l}
    /\ UNCHANGED barVars
    /\ UNCHANGED <<clock, range, cache, reading, failed, kept, selectedIndex, histogramOpen, ranWith, revisited>>

-----------------------------------------------------------------------------
PanelInit ==
    /\ clock = Now /\ arrived = StartLogs
    /\ range = ResolveRange(url.from, url.to)
    /\ cache = {} /\ failed = {} /\ kept = NoData
    /\ reading = {p \in Panels : Key(p, url, range, 0, TRUE) # NoKey}
    /\ selectedIndex = NoRow /\ histogramOpen = TRUE
    /\ ranWith = {} /\ revisited = FALSE /\ events = 0

PanelMove ==
    \/ \E r \in Ranges : PickRange(r)
    \/ ZoomOut \/ ZoomIn
    \/ Visualize("host") \/ ToggleColumn("host")
    \/ ResetSplit \/ ToggleHistogram
    \/ \E exclude \in BOOLEAN : ByShownValue("host", exclude)
    \/ NextLog \/ PreviousLog
    \/ RunAgain
    \/ \E p \in Panels : Retry(p)
    \/ Revisit \/ \E u \in Links : FollowLink(u)

\* What happens around the page.
World ==
    \/ \E p \in Panels \cup {"more"} : FailRead(p)
    \/ TimePasses
    \/ \E l \in Logs : LogArrives(l)

Answered == AnswerMore \/ \E p \in Panels : Answer(p)

-----------------------------------------------------------------------------
(***************************************************************************)
(* Properties.                                                             *)
(***************************************************************************)

\* The panels that show an answer to the query on the page are of one window,
\* the one that the range was resolved to when it was set or the query run, so
\* the bars of the histogram are those of the logs in the table.
PanelsAgree ==
    \A p \in Panels : DataNow(p) # NoData => DataNow(p).win = range

\* From the click to the table: every log in the table is one that was asked
\* for and lies in the window of the page.
ShownIsAsked ==
    \A i \in DOMAIN Rows : Rows[i].kind \in wanted /\ Rows[i].time >= range.start /\ Rows[i].time < range.end

\* Run, by the button, the keyboard or the timer, reads the store again: no
\* panel answers it from before it.  (A page that was left counts its runs from
\* the start and may find an older answer under the same number.)
RunIsFresh ==
    ~revisited => \A p \in Panels : DataNow(p) # NoData => ranWith \subseteq DataNow(p).read

\* The pages of the table join: however many logs share the time at which a
\* page ends, in whatever order the store lists them, and whatever arrives late
\* between two pages, the table is in order and without repetitions, and lacks
\* none of the logs that were there when its first page was read, down to the
\* time of its cursor, but those of a time that the server said overflowed.  It is at
\* most one page longer than MAX_LOADED_ROWS says, and a page at most one group
\* longer than SEARCH_PAGE_SIZE.
PagesJoin ==
    /\ \A i, j \in DOMAIN Rows : i < j => Rows[i].time >= Rows[j].time /\ Rows[i] # Rows[j]
    /\ DataNow("results") # NoData /\ ~url.native.pipes =>
          LET d == DataNow("results")
          IN  \A l \in Found(KeyNow("results")) \cap d.read :
                 l.time >= d.cursor => l \in ToSet(Rows) \/ \E n \in DOMAIN d.ties : l.time \in d.ties[n]
    /\ Len(Rows) <= (MAX_LOADED_ROWS - 1) + (SEARCH_PAGE_SIZE - 1) + MaxTieGroup

\* The log under the cursor, which the drawer shows and the hotkeys filter by,
\* is not exchanged for another one while its index stays; only reading again
\* after a failed read may do that.
SelectionStands ==
    [][SelectedLog # NoLog /\ selectedIndex' = selectedIndex /\ ~Failed("results")
       => SelectedLog' = SelectedLog]_<<barVars, panelVars>>
=============================================================================
