--------------------------- MODULE SavedSearches ---------------------------
(***************************************************************************)
(* Saved searches (features/saved-searches, the save dialog of             *)
(* features/explorer/dialogs.tsx, and the handlers behind them): a query   *)
(* is stored from the explorer, opened in it again, changed by others and  *)
(* deleted.  The page says when what it shows is no longer what is stored. *)
(***************************************************************************)
EXTENDS ExplorerPanels

CONSTANTS
    Elsewhere,        \* queries that somebody else may store: [filter, native]
    MaxSaves,         \* bound: saves that are sent
    MaxElsewhere      \* bound: changes by others

VARIABLES
    stored,           \* the server: the saved search, or NoSearch
    storedWanted,     \* ghost: the logs that it was stored for
    item,             \* the cached answer of useSavedSearch, of the search item.id
    saving,           \* the save on its way: [step, body, id, version, here, wanted]; here: of this page
    confirming,       \* the list's dialog asks whether to delete
    listed,           \* the row of the list, or NoSearch
    saves, others     \* ghost: the bounds

savedVars == <<stored, storedWanted, item, saving, confirming, listed, saves, others>>

NoSearch == [id |-> 0, version |-> 0]
NotSaving == [step |-> "no", body |-> NoSearch, id |-> 0, version |-> 0, here |-> FALSE, wanted |-> {}]

\* saved.data of the page.
Item == IF item.id = url.saved THEN item ELSE NoSearch

\* payload().
Payload == [filter |-> Filter, native |-> url.native, cols |-> ParseColumns(url.cols),
            from |-> url.from, to |-> url.to]

SavedSearchToExplorerSearch(s) ==
    [from |-> s.from, to |-> s.to, q |-> EncodeFilter(s.filter), native |-> s.native,
     mode |-> IF ~s.native.blank /\ s.filter = Everything THEN "advanced" ELSE "visual",
     cols |-> FormatColumns(s.cols), split |-> "severity", saved |-> s.id]

IsModified(s) ==
    url.q.tokens # FormatFilter(s.filter) \/ url.native # s.native \/ ParseColumns(url.cols) # s.cols

-----------------------------------------------------------------------------
(***************************************************************************)
(* The dialog.  A name has been typed; without one the dialog, or the      *)
(* server, refuses.                                                        *)
(***************************************************************************)

Send(id, version) ==
    /\ saving.step = "no" /\ saves < MaxSaves /\ saves' = saves + 1
    /\ saving' = [step |-> "sent", body |-> Payload, id |-> id, version |-> version, here |-> TRUE,
                  wanted |-> AllOf(Terms, url.native)]
    /\ UNCHANGED <<stored, storedWanted, item, confirming, listed, others>>
    /\ UNCHANGED <<barVars, panelVars>>

\* One name is used (a bound): a new search under it is refused while it exists.
SaveNew == Send(0, 0)
SaveExisting == Item # NoSearch /\ Send(Item.id, Item.version)

\* handleCreateSearch stores version 1 under an id of its own, unless its owner
\* has the name already; handleUpdateSearch compares the version with the one
\* that is stored.
ServeSave ==
    /\ saving.step = "sent"
    /\ LET body == saving.body @@ [id |-> IF saving.id = 0 THEN saves ELSE saving.id, version |-> saving.version + 1]
           fits == stored.id = saving.id /\ stored.version = saving.version
       IN  /\ stored' = IF fits THEN body ELSE stored
           /\ storedWanted' = IF fits THEN saving.wanted ELSE storedWanted
           /\ saving' = [saving EXCEPT !.step = IF fits THEN "done" ELSE "no", !.body = body]
    /\ UNCHANGED <<item, confirming, listed, saves, others>>
    /\ UNCHANGED <<barVars, panelVars>>

\* onSuccess: the item is what was answered, and the address of the page, if it
\* is the one that was saved from, names it.
Saved ==
    /\ saving.step = "done" /\ saving' = NotSaving
    /\ item' = saving.body
    /\ UNCHANGED <<stored, storedWanted, confirming, listed, saves, others>>
    /\ IF saving.here THEN Patch([url EXCEPT !.saved = saving.body.id], histogramOpen)
       ELSE UNCHANGED <<barVars, panelVars>>

\* The save did not get through, or the answer to it did not: the dialog shows
\* an error, and the page and the list know of nothing.
FailSave ==
    /\ saving.step \in {"sent", "done"} /\ saving' = NotSaving
    /\ UNCHANGED <<stored, storedWanted, item, confirming, listed, saves, others>>
    /\ UNCHANGED <<barVars, panelVars>>

\* The page or the list reads it again.
ReadItem ==
    /\ url.saved = stored.id /\ stored # NoSearch /\ item # stored
    /\ item' = stored
    /\ UNCHANGED <<stored, storedWanted, saving, confirming, listed, saves, others>>
    /\ UNCHANGED <<barVars, panelVars>>

ReadList ==
    /\ listed # stored /\ listed' = stored
    /\ UNCHANGED <<stored, storedWanted, item, saving, confirming, saves, others>>
    /\ UNCHANGED <<barVars, panelVars>>

\* The row of the list, or /searches/:id, opens the explorer; a save that is
\* still on its way is finished without the page it was sent from.
OpenSaved ==
    /\ listed # NoSearch
    /\ Mount(SavedSearchToExplorerSearch(listed), AllOf(AndTerms(listed.filter), listed.native))
    /\ saving' = [saving EXCEPT !.here = FALSE]
    /\ UNCHANGED <<stored, storedWanted, item, confirming, listed, saves, others>>

AskDelete ==
    /\ listed # NoSearch /\ ~confirming /\ confirming' = TRUE
    /\ UNCHANGED <<stored, storedWanted, item, saving, listed, saves, others>>
    /\ UNCHANGED <<barVars, panelVars>>

CancelDelete ==
    /\ confirming /\ confirming' = FALSE
    /\ UNCHANGED <<stored, storedWanted, item, saving, listed, saves, others>>
    /\ UNCHANGED <<barVars, panelVars>>

\* An answer closes the dialog; without one it stays open.  The list is read
\* again behind it (ReadList); the page keeps the item it has.
Delete ==
    /\ confirming /\ stored # NoSearch /\ confirming' \in BOOLEAN
    /\ stored' = NoSearch /\ storedWanted' = {}
    /\ UNCHANGED <<item, saving, listed, saves, others>>
    /\ UNCHANGED <<barVars, panelVars>>

ChangedElsewhere(e) ==
    /\ others < MaxElsewhere /\ others' = others + 1 /\ stored # NoSearch
    /\ stored' = [stored EXCEPT !.filter = e.filter, !.native = e.native, !.version = @ + 1]
    /\ storedWanted' = AllOf(AndTerms(e.filter), e.native)
    /\ UNCHANGED <<item, saving, confirming, listed, saves>>
    /\ UNCHANGED <<barVars, panelVars>>

-----------------------------------------------------------------------------
SavedInit ==
    /\ stored = NoSearch /\ storedWanted = {} /\ item = NoSearch /\ saving = NotSaving
    /\ confirming = FALSE /\ listed = NoSearch /\ saves = 0 /\ others = 0

SavedNext ==
    \/ SaveNew \/ SaveExisting \/ ServeSave \/ FailSave \/ ReadItem \/ ReadList
    \/ AskDelete \/ CancelDelete \/ Delete
    \/ \E e \in Elsewhere : ChangedElsewhere(e)

-----------------------------------------------------------------------------
(***************************************************************************)
(* Properties.                                                             *)
(***************************************************************************)

\* As long as the badge does not say "modified", the query on the page selects
\* what the saved search that the page has read selects; and if nobody stored
\* another version since, that is what its author saw asked for when saving it,
\* whichever saves were refused or lost their answers in between.
UnmodifiedIsTheSame ==
    Item # NoSearch /\ ~IsModified(Item)
    => /\ AllOf(Terms, url.native) = AllOf(AndTerms(Item.filter), Item.native)
       /\ Item.id = stored.id /\ Item.version = stored.version => AllOf(Terms, url.native) = storedWanted
=============================================================================
