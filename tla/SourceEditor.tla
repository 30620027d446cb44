---------------------------- MODULE SourceEditor ----------------------------
(***************************************************************************)
(* The pages of a source in the web client, with somebody else working on  *)
(* the same source: SourcesPage and SourceDetailPage over the queries and  *)
(* mutations of api/hooks.  What the form holds is module SourceForm; here *)
(* a source is the set of edits that went into it.                         *)
(*                                                                         *)
(* One source is followed: it may be in the database, in the configuration *)
(* file, or not yet there.  Once deleted, a source that is created under   *)
(* its name, or copied again from the file's entry that comes back, has    *)
(* another id: it is another instance of this module, and the calls that   *)
(* would make it can only fail in this one.                                *)
(***************************************************************************)
EXTENDS Naturals, Sequences, FiniteSets, QueryCache

CONSTANTS
    Mine,         \* edits this person may type
    Others,       \* edits somebody else may save
    SettleTimers, \* SETTLE_DELAYS_MS: how often a list is read again
    MaxCalls,     \* bound: calls
    MaxVisits     \* bound: navigations

VARIABLES
    source,       \* the source at the server: [version, edits, origin]
    item, list,   \* the two queries
    timers,       \* invalidations still to come
    page,         \* list, new, file, item
    editor,       \* the mounted SourceEditor, or NoEditor
    calls,        \* the mutations, in the order they were made
    told,         \* ghost: the newest version an answer carried
    orphaned,     \* ghost: a call was left by its editor, or its answer was lost
    visits        \* ghost: the bound

editorVars == <<source, item, list, timers, page, editor, calls, told, orphaned, visits>>

NoEditor == [kind |-> "none", base |-> NoData, draft |-> {}, conflict |-> FALSE,
             failed |-> FALSE, confirm |-> FALSE]

Managed(s) == s.version > 0

\* sourceBody, and the list: a source of the file is shown until it is adopted,
\* and again when the copy has been deleted.
Body(s) == IF Managed(s) THEN [version |-> s.version, edits |-> s.edits] ELSE NoData
Listing(s) == [version |-> 1, sources |-> IF Managed(s) THEN {Body(s)} ELSE {},
               file |-> s.origin \in {"file", "returned"} /\ ~Managed(s)]

Pages == {"list", "new", "file", "item"}

EditorInit ==
    /\ source \in {[version |-> 1, edits |-> {}, origin |-> "database"],
                   [version |-> 0, edits |-> {}, origin |-> "file"],
                   [version |-> 0, edits |-> {}, origin |-> "none"]}
    /\ item = EmptyEntry /\ list = [EmptyEntry EXCEPT !.fetch = Asked]
    /\ timers = 0 /\ page = "list" /\ editor = NoEditor /\ calls = <<>>
    /\ told = 0 /\ orphaned = FALSE /\ visits = 0

Mount(kind, base) == [NoEditor EXCEPT !.kind = kind, !.base = base]

RenderedUnkeyed(pg, it, li) ==      \* mutant: the editor has no key
    CASE pg = "new" -> IF editor.kind = "new" THEN editor ELSE Mount("new", NoData)
      [] pg = "item" /\ it.data # NoData /\ ~it.error ->
            IF editor.kind = "item" THEN editor ELSE Mount("item", it.data)
      [] pg = "file" /\ li.data # NoData /\ ~li.error ->
            IF ~li.data.file THEN NoEditor
            ELSE IF editor.kind = "file" THEN editor ELSE Mount("file", NoData)
      [] OTHER -> NoEditor

\* What SourceDetailPage renders: an editor stays mounted as long as the
\* version it is keyed by stays.
Rendered(pg, it, li) ==
    CASE pg = "new" -> IF editor.kind = "new" THEN editor ELSE Mount("new", NoData)
      [] pg = "item" /\ it.data # NoData /\ ~it.error ->
            IF editor.kind = "item" /\ editor.base.version = it.data.version
            THEN editor ELSE Mount("item", it.data)
      [] pg = "file" /\ li.data # NoData /\ ~li.error ->
            IF ~li.data.file THEN NoEditor
            ELSE IF editor.kind = "file" THEN editor ELSE Mount("file", NoData)
      [] OTHER -> NoEditor

\* The callbacks given to mutate are dropped when their editor is unmounted.
Unmounted(cs) == [i \in DOMAIN cs |-> [cs[i] EXCEPT !.live = FALSE]]

Waiting(c) == c.answer # "done"

\* A read of the source is aborted when the page that shows it is left.
Observed(pg, it) == IF pg = "item" THEN it ELSE [it EXCEPT !.fetch = NotAsked]

\* The page, its queries and the calls become pg, it, li and cs.
Show(pg, it, li, cs) ==
    LET ed == Rendered(pg, it, li) IN
    /\ page' = pg /\ item' = Observed(pg, it) /\ list' = li /\ editor' = ed
    /\ calls' = IF ed = editor THEN cs ELSE Unmounted(cs)
    /\ orphaned' = (orphaned \/ (ed # editor /\ \E i \in DOMAIN cs : cs[i].live /\ Waiting(cs[i])))

\* Opening a page reads what it shows; all of them read the list.
Navigate(pg) ==
    /\ pg # page /\ visits < MaxVisits /\ visits' = visits + 1
    /\ pg = "item" => list.data # NoData /\ list.data.sources # {}
    /\ pg = "file" => list.data # NoData /\ list.data.file
    /\ Show(pg, IF pg = "item" THEN Refetch(item) ELSE item, Refetch(list), calls)
    /\ UNCHANGED <<source, timers, told>>

PollOnce ==                          \* mutant: no refetchInterval
    /\ list.fetch = NotAsked /\ list.data = NoData
    /\ list' = Refetch(list)
    /\ UNCHANGED <<source, item, timers, page, editor, calls, told, orphaned, visits>>

\* refetchInterval of the list.
Poll ==
    /\ list.fetch = NotAsked
    /\ list' = Refetch(list)
    /\ UNCHANGED <<source, item, timers, page, editor, calls, told, orphaned, visits>>

ServeList ==
    /\ list.fetch = Asked
    /\ list' = AnswerFetch(list, Listing(source))
    /\ UNCHANGED <<source, item, timers, page, editor, calls, told, orphaned, visits>>

ServeItem ==
    /\ item.fetch = Asked
    /\ item' = AnswerFetch(item, Body(source))
    /\ UNCHANGED <<source, list, timers, page, editor, calls, told, orphaned, visits>>

Newer(n) == told' = IF n > told THEN n ELSE told

ListArrives ==
    /\ list.fetch.step = "answered"
    /\ Show(page, item, Arrive(list), calls)
    /\ UNCHANGED <<source, timers, told, visits>>

ItemArrives ==
    /\ item.fetch.step = "answered"
    /\ Newer(item.fetch.data.version)
    /\ Show(page, Arrive(item), list, calls)
    /\ UNCHANGED <<source, timers, visits>>

\* invalidateQueries of the list and all under it: the item only while it is
\* observed.
InvalidatedItem(pg, it) == IF pg = "item" THEN Invalidate(it) ELSE it

Tick ==
    /\ timers > 0 /\ timers' = timers - 1
    /\ item' = InvalidatedItem(page, item) /\ list' = Invalidate(list)
    /\ UNCHANGED <<source, page, editor, calls, told, orphaned, visits>>

Typing(e) ==
    /\ editor.kind \in {"new", "item"}
    /\ \A i \in DOMAIN calls : e \notin calls[i].edits
    /\ editor' = [editor EXCEPT !.draft = @ \cup {e}] /\ editor' # editor
    /\ UNCHANGED <<source, item, list, timers, page, calls, told, orphaned, visits>>

Call(op, version, edits) ==
    /\ Len(calls) < MaxCalls
    /\ calls' = Append(calls, [op |-> op, version |-> version, edits |-> edits,
                               live |-> TRUE, answer |-> "none"])

Pending(ops) == \E i \in DOMAIN calls : calls[i].live /\ calls[i].op \in ops /\ Waiting(calls[i])

\* onSubmit; the version is the one of the source the page holds.
Submitted ==
    /\ editor.kind \in {"new", "item"} /\ ~Pending({"create", "update"})
    /\ editor' = [editor EXCEPT !.conflict = FALSE, !.failed = FALSE]
    /\ IF editor.kind = "new" THEN Call("create", 0, editor.draft)
       ELSE Call("update", item.data.version, editor.base.edits \cup editor.draft)
    /\ UNCHANGED <<source, item, list, timers, page, told, orphaned, visits>>

Adopt ==
    /\ editor.kind = "file" /\ ~Pending({"adopt"})
    /\ Call("adopt", 0, {})
    /\ UNCHANGED <<source, item, list, timers, page, editor, told, orphaned, visits>>

AskDelete ==
    /\ editor.kind = "item" /\ ~editor.confirm
    /\ editor' = [editor EXCEPT !.confirm = TRUE]
    /\ UNCHANGED <<source, item, list, timers, page, calls, told, orphaned, visits>>

CancelDelete ==
    /\ editor.confirm
    /\ editor' = [editor EXCEPT !.confirm = FALSE]
    /\ UNCHANGED <<source, item, list, timers, page, calls, told, orphaned, visits>>

Delete ==
    /\ editor.confirm /\ ~Pending({"delete"})
    /\ Call("delete", 0, {})
    /\ UNCHANGED <<source, item, list, timers, page, editor, told, orphaned, visits>>

\* decodeSource compares the name of a new source with those there are, before
\* the row is inserted.
Check(i) ==
    /\ calls[i].op = "create" /\ calls[i].answer = "none" /\ source.origin # "gone"
    /\ calls' = [calls EXCEPT ![i].answer = IF source.origin = "none" THEN "checked" ELSE "refused"]
    /\ UNCHANGED <<source, item, list, timers, page, editor, told, orphaned, visits>>

\* The server: an update of another version and a name that was taken since it
\* was checked are conflicts, a source that is not there is refused.
Outcome(c) ==
    CASE c.op = "create" -> IF source.origin = "none" THEN "ok" ELSE "conflict"
      [] c.op = "adopt" -> IF source.origin = "file" /\ ~Managed(source) THEN "ok" ELSE "conflict"
      [] c.op = "update" -> IF ~Managed(source) THEN "refused"
                            ELSE IF c.version = source.version THEN "ok" ELSE "conflict"
      [] c.op = "delete" -> IF Managed(source) THEN "ok" ELSE "refused"

\* Another source would come of it.
MakesAnother(c) ==
    \/ c.op = "create" /\ source.origin = "gone"
    \/ c.op = "adopt" /\ source.origin = "returned"

\* What is stored may never be heard of.  Deleting a copy hands its name back to
\* the configuration file; no version is asked for.
Serve(i) ==
    LET c == calls[i] IN
    /\ c.answer = (IF c.op = "create" THEN "checked" ELSE "none") /\ ~MakesAnother(c)
    /\ source' = IF Outcome(c) # "ok" THEN source
                 ELSE CASE c.op \in {"create", "adopt"} ->
                              [source EXCEPT !.version = 1, !.edits = c.edits,
                                             !.origin = IF @ = "none" THEN "database" ELSE @]
                        [] c.op = "update" ->
                              [source EXCEPT !.version = @ + 1, !.edits = c.edits]
                        [] c.op = "delete" ->
                              [source EXCEPT !.version = 0,
                                             !.origin = IF @ = "file" THEN "returned" ELSE "gone"]
    /\ \E answer \in {Outcome(c), "lost"} :
          /\ answer = "lost" => Outcome(c) = "ok"
          /\ calls' = [calls EXCEPT ![i].answer = answer, ![i].version = source'.version]
          /\ orphaned' = (orphaned \/ answer = "lost")
    /\ UNCHANGED <<item, list, timers, page, editor, told, visits>>

\* A call that never reaches the server, or that it fails before it stores.
Fail(i) ==
    /\ calls[i].answer \in {"none", "checked"}
    /\ calls' = [calls EXCEPT ![i].answer = "refused"]
    /\ UNCHANGED <<source, item, list, timers, page, editor, told, orphaned, visits>>

\* onSuccess of the hook: an update and an adoption put their answer into the
\* cache.
AfterSuccess(it, c) ==
    IF c.op \in {"update", "adopt"}
    THEN SetQueryData(it, [version |-> c.version, edits |-> c.edits]) ELSE it

\* settleSources runs whether or not the editor is still there; the page
\* moves only when it is.
Succeeded(i) ==
    LET c == calls[i]
        pg == IF ~c.live THEN page
              ELSE CASE c.op \in {"create", "adopt"} -> "item"
                     [] c.op = "delete" -> "list"
                     [] OTHER -> page
        it == InvalidatedItem(pg, AfterSuccess(item, c)) IN
    /\ c.answer = "ok"
    /\ timers' = SettleTimers
    /\ Newer(IF c.op \in {"update", "adopt"} THEN c.version ELSE 0)
    /\ Show(pg, IF pg = "item" /\ page # "item" THEN Refetch(it) ELSE it, Invalidate(list),
            [calls EXCEPT ![i].answer = "done"])
    /\ UNCHANGED <<source, visits>>

\* onError of mutate.
Failed(i) ==
    LET c == calls[i] IN
    /\ c.answer \in {"conflict", "refused", "lost"}
    /\ calls' = [calls EXCEPT ![i].answer = "done"]
    /\ editor' = IF ~c.live THEN editor
                 ELSE [editor EXCEPT !.failed = TRUE,
                                     !.conflict = @ \/ (c.op \in {"create", "update"} /\ c.answer = "conflict"),
                                     !.confirm = @ /\ c.op # "delete"]
    /\ UNCHANGED <<source, item, list, timers, page, told, orphaned, visits>>

\* Somebody else saves an edit on top of what is there.
OtherSaves(e) ==
    /\ Managed(source) /\ e \notin source.edits
    /\ source' = [source EXCEPT !.version = @ + 1, !.edits = @ \cup {e}]
    /\ UNCHANGED <<item, list, timers, page, editor, calls, told, orphaned, visits>>

\* Somebody else creates the source.
OtherCreates(e) ==
    /\ source.origin = "none"
    /\ source' = [version |-> 1, edits |-> {e}, origin |-> "database"]
    /\ UNCHANGED <<item, list, timers, page, editor, calls, told, orphaned, visits>>

EditorNext ==
    \/ \E pg \in Pages : Navigate(pg)
    \/ Poll \/ ServeList \/ ServeItem \/ ListArrives \/ ItemArrives \/ Tick
    \/ \E e \in Mine : Typing(e)
    \/ Submitted \/ Adopt \/ AskDelete \/ CancelDelete \/ Delete
    \/ \E i \in DOMAIN calls : Check(i) \/ Serve(i) \/ Fail(i) \/ Succeeded(i) \/ Failed(i)
    \/ \E e \in Others : OtherSaves(e) \/ OtherCreates(e)

-----------------------------------------------------------------------------
(***************************************************************************)
(* Properties.                                                             *)
(***************************************************************************)

\* What somebody saved is never overwritten by an editor that did not show it.
NothingLost ==
    [][Managed(source) /\ Managed(source') => source.edits \subseteq source'.edits]_editorVars

\* When everything has been answered, the page does not show an older version
\* than one it has been told of: a late answer cannot stay in the cache.
QuietIsFresh ==
    (page = "item" /\ timers = 0 /\ item.fetch = NotAsked /\ ~item.error
        /\ \A i \in DOMAIN calls : calls[i].answer = "done")
    => item.data.version >= told

\* The editor does not show all that others put into the source.
OthersUnseen ==
    (source.edits \cap Others) \ (IF editor.base = NoData THEN {} ELSE editor.base.edits) # {}

\* `Someone else changed this source' is said only when somebody else did, or
\* when the person's own save was stored and nothing was heard of it: because its
\* editor was left, or its answer was lost.
ConflictIsOthers == editor.conflict => orphaned \/ OthersUnseen \/ ~Managed(source)

\* The list shows what is stored.
ListIsTrue == list.data = Listing(source)
=============================================================================
