---------------------------- MODULE LogExplorer ----------------------------
(***************************************************************************)
(* The log explorer with everything on it: module QueryBar changes the     *)
(* query in the URL, module ExplorerPanels shows its results, and module   *)
(* SavedSearches stores it and opens it again.                             *)
(*                                                                         *)
(* A behaviour is about one part of the page; the others stand still.      *)
(* When it is about the query, the panels are not answered, and when it is *)
(* about saved searches neither are they.                                  *)
(***************************************************************************)
EXTENDS SavedSearches

CONSTANTS
    StartURLs,        \* per part, the addresses the page may be opened with
    MaxMoves          \* bound: per part, what the person does

VARIABLES
    part,             \* ghost: the part of the page that the behaviour is about
    moves             \* ghost: the bound

explorerVars == <<barVars, panelVars, savedVars, part, moves>>

Move(p) == part = p /\ moves < MaxMoves[p] /\ moves' = moves + 1 /\ part' = part
Free(p) == part = p /\ UNCHANGED <<part, moves>>

ExplorerInit ==
    /\ part \in DOMAIN MaxMoves /\ url \in StartURLs[part] /\ moves = 0
    /\ BarInit /\ PanelInit /\ SavedInit

\* In the query bar.  What is typed after the last move would not be submitted.
BarNext ==
    /\ \/ Free("query") /\ moves < MaxMoves.query /\ BarTyping /\ UNCHANGED panelVars
       \/ Move("query") /\ BarEdit /\ Rendered
       \/ /\ Move("query")
          /\ \E s \in Samples, f \in {"host", "message"}, exclude \in BOOLEAN :
                s[f] # "" /\ FilterByValue(f, s[f], exclude)
          /\ Rendered
    /\ UNCHANGED savedVars

\* Among the panels; the query changes by a value that is shown, or by a chip.
PanelEdit ==
    \/ \E i \in DOMAIN Terms : NegateChip(i) \/ RemoveChip(i)
    \/ RemoveNative

PanelsNext ==
    /\ \/ Move("panels") /\ (PanelMove \/ (PanelEdit /\ Rendered))
       \/ Free("panels") /\ (World \/ LoadMore \/ Answered)
    /\ UNCHANGED savedVars

\* With saved searches.
SavedSearchesNext ==
    \/ Free("saved") /\ SavedNext
    \/ Free("saved") /\ Saved
    \/ Move("saved") /\ OpenSaved
    \/ /\ Move("saved") /\ UNCHANGED savedVars
       /\ \/ \E i \in DOMAIN Terms : RemoveChip(i) /\ Rendered
          \/ RemoveNative /\ Rendered
          \/ \E c \in {"host", "message"} : ToggleColumn(c)

ExplorerNext == BarNext \/ PanelsNext \/ SavedSearchesNext

\* A read that is out comes back, with data or with an error, or is aborted.
\* Nothing is assumed of the person, the store or the clock.
ReadEnds == part = "panels" /\ \E p \in reading : reading' = reading \ {p}

ExplorerSpec == ExplorerInit /\ [][ExplorerNext]_explorerVars /\ WF_reading(ReadEnds)

-----------------------------------------------------------------------------
(***************************************************************************)
(* Properties.                                                             *)
(***************************************************************************)

\* The table and the panels beside it are one answer to the query on the page:
\* of its window, with the logs it asks for, and not from before Run.
AnswerIsOfTheQuery == PanelsAgree /\ ShownIsAsked /\ RunIsFresh

\* A query keeps its meaning through the URL, the chips, the form, LogsQL and
\* the saved searches.
QueryKeepsItsMeaning == QueryIsWhatWasAsked /\ UnmodifiedIsTheSame

\* A query that can be asked is answered: in the end each panel of the page
\* shows the data of its key, or an error with a button to read again, however
\* the address, the range and the run changed while it was read.
PanelsSettle ==
    <>[](part = "panels" => \A p \in Panels : KeyNow(p) # NoKey => DataNow(p) # NoData \/ Failed(p))
=============================================================================
