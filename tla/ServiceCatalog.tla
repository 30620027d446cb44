--------------------------- MODULE ServiceCatalog ---------------------------
(***************************************************************************)
(* The editor of the catalog of online services (features/analytics): rows *)
(* that are typed, filled in from the catalog this build ships, reverted   *)
(* and saved as a whole, beside a query that reads the stored catalog      *)
(* again in the background.  A PUT carries no version: the last one wins.  *)
(*                                                                         *)
(* A text is typed in upper or lower case, with blanks or dots around it;  *)
(* LOWER, TRIMMED and UNDOTTED give the spelling without, where it is      *)
(* another one.                                                            *)
(***************************************************************************)
EXTENDS Naturals, Sequences, FiniteSets, SequencesExt, QueryCache

CONSTANTS
    LOWER, TRIMMED, UNDOTTED,   \* spellings
    Slugs, DomainNames,     \* the names that are slugs, the domains that are domain names
    WideLabels,             \* labels of at most MAX_LABEL_CHARS characters and more bytes
    MAX_SERVICES,
    StartCatalogs,          \* catalogs that may be stored at the start
    ShippedCountries,       \* the countries of the shipped catalog, by name
    ServiceEdits,           \* edits of a row: the fields they set
    OtherCatalogs,          \* catalogs somebody else may store
    MaxRowEdits,            \* bound: edits of the rows
    MaxFilled,              \* bound: clicks on Fill in countries
    MaxCatalogPuts,         \* bound: saves
    MaxCatalogReads,        \* bound: reads in the background
    MaxPanels               \* bound: times the panel is opened

VARIABLES
    services,               \* the stored catalog
    catalog,                \* its query
    panel,                  \* ServiceCatalogPanel: [mounted, rows, errors, dirty, saved]
    filling,                \* fillFromShipped: [step, rows, live, known]
    catalogPuts,            \* the PUTs, in the order they were made
    held,                   \* ghost: the catalogs that were ever stored
    rowEdits, fillClicks, reads, panels   \* ghost: the bounds

serviceVars == <<services, catalog, panel, filling, catalogPuts, held, rowEdits, fillClicks, reads, panels>>

Lower(w) == IF w \in DOMAIN LOWER THEN LOWER[w] ELSE w
Trim(w) == IF w \in DOMAIN TRIMMED THEN TRIMMED[w] ELSE w
Undotted(w) == IF w \in DOMAIN UNDOTTED THEN UNDOTTED[w] ELSE w

\* parseDomains: trimmed, in lower case, blanks and repeats dropped.
ParseDomains(text) ==
    FoldLeft(LAMBDA list, w : IF w = "" \/ Contains(list, w) THEN list ELSE Append(list, w), <<>>,
             [i \in DOMAIN text |-> Lower(Trim(text[i]))])

\* normalDomain at the server, which ignores case as well.
NormalDomain(w) == Undotted(Lower(w))

NewServiceForm == [name |-> "", label |-> "", domains |-> <<>>, mainDomains |-> <<>>, country |-> "", enabled |-> TRUE]

CatalogToForm(list) ==
    [i \in DOMAIN list |->
        [NewServiceForm EXCEPT !.name = list[i].name, !.label = list[i].label, !.domains = list[i].domains,
            !.mainDomains = list[i].main_domains, !.country = list[i].country, !.enabled = list[i].enabled]]

FormToServices(rows) ==
    [i \in DOMAIN rows |->
        [name |-> Trim(rows[i].name), label |-> Trim(rows[i].label), domains |-> ParseDomains(rows[i].domains),
         main_domains |-> ParseDomains(rows[i].mainDomains), country |-> rows[i].country,
         enabled |-> rows[i].enabled]]

FillCountries(rows) ==
    [i \in DOMAIN rows |->
        IF rows[i].country = "" /\ Lower(Trim(rows[i].name)) \in DOMAIN ShippedCountries
        THEN [rows[i] EXCEPT !.country = ShippedCountries[Lower(Trim(rows[i].name))]] ELSE rows[i]]

EmptyCatalogErrors == [rows |-> {}, general |-> FALSE]
HasCatalogErrors(e) == e # EmptyCatalogErrors

\* The domains of a service, checked as they are sent.
DomainsRefused(s) ==
    \/ s.domains = <<>>
    \/ \E d \in ToSet(s.domains) \cup ToSet(s.main_domains) : Undotted(d) \notin DomainNames
    \/ \E m \in ToSet(s.main_domains) : Undotted(m) \notin {Undotted(d) : d \in ToSet(s.domains)}

UsedBefore(list, i) == \E j \in 1..(i - 1) : list[j].name = list[i].name

ValidateCatalog(rows) ==
    LET sent == FormToServices(rows) IN
    [rows |-> {i \in DOMAIN sent : sent[i].name \notin Slugs \/ UsedBefore(sent, i) \/ DomainsRefused(sent[i])},
     general |-> Len(rows) > MAX_SERVICES]

\* Validate at the server counts the bytes of a label, and compares domains
\* without their case.
ServerRefuses(list, i) ==
    \/ list[i].name \notin Slugs \/ UsedBefore(list, i) \/ list[i].label \in WideLabels
    \/ DomainsRefused([list[i] EXCEPT
           !.domains = [j \in DOMAIN @ |-> NormalDomain(@[j])], !.main_domains = [j \in DOMAIN @ |-> NormalDomain(@[j])]])

\* Its complaints name a service, or give its position when it has no name; the
\* limit on the number of services is about none of them.
Complaints(list) ==
    {[name |-> list[i].name, position |-> i] : i \in {j \in DOMAIN list : ServerRefuses(list, j)}}
        \cup (IF Len(list) > MAX_SERVICES THEN {[name |-> "", position |-> 0]} ELSE {})

\* serviceErrorIndex; 0 stands for null.
ServiceErrorIndex(list, c) ==
    IF c.name # "" THEN SelectInSeq(list, LAMBDA s : s.name = c.name)
    ELSE IF c.position \in DOMAIN list THEN c.position ELSE 0

CatalogProblemErrors(complaints, list) ==
    LET at == {ServiceErrorIndex(list, c) : c \in complaints} IN
    [rows |-> at \ {0}, general |-> 0 \in at \/ at = {}]

\* A slug is not empty; a catalog is a list, and so are the domains that are typed.
ASSUME SlugsAssumption == "" \notin Slugs
ASSUME CatalogsAssumption == \A c \in StartCatalogs \cup OtherCatalogs : c \in Seq(ToSet(c))
ASSUME ServiceEditsAssumption == \A e \in ServiceEdits, f \in {"domains", "mainDomains"} :
    f \in DOMAIN e => e[f] \in Seq(ToSet(e[f]))

\* Spelling a word anew that was spelled so already changes nothing.
ASSUME SpellingsAssumption == \A w \in DOMAIN LOWER \cup DOMAIN TRIMMED :
    /\ Lower(Lower(w)) = Lower(w) /\ Trim(Trim(w)) = Trim(w)
    /\ Lower(Lower(Trim(w))) = Lower(Trim(w)) /\ Trim(Lower(Trim(w))) = Lower(Trim(w))

\* A service with nothing to trim.  The server refuses other names and domains; a
\* label it stores as it was sent.
PlainDomains(list) ==
    list \in Seq(ToSet(list)) /\ \A i \in DOMAIN list : Trim(list[i]) = list[i] /\ Lower(list[i]) # ""
PlainService(s) ==
    /\ s = [name |-> s.name, label |-> s.label, domains |-> s.domains, main_domains |-> s.main_domains,
            country |-> s.country, enabled |-> s.enabled]
    /\ Trim(s.name) = s.name /\ Trim(s.label) = s.label
    /\ PlainDomains(s.domains) /\ PlainDomains(s.main_domains)

-----------------------------------------------------------------------------

NoPanel == [mounted |-> FALSE, rows |-> <<>>, errors |-> EmptyCatalogErrors, dirty |-> FALSE, saved |-> FALSE]
NoFill == [step |-> "no", rows |-> <<>>, live |-> FALSE, known |-> FALSE]
Reading(list) == [version |-> 1, services |-> list]
SeededPanel(list) == [NoPanel EXCEPT !.mounted = TRUE, !.rows = CatalogToForm(list)]

ServicesInit ==
    /\ services \in StartCatalogs /\ held = {services}
    /\ catalog = [EmptyEntry EXCEPT !.fetch = Asked]
    /\ panel = NoPanel /\ filling = NoFill /\ catalogPuts = <<>>
    /\ rowEdits = 0 /\ fillClicks = 0 /\ reads = 0 /\ panels = 0

PanelPending == \E i \in DOMAIN catalogPuts : catalogPuts[i].live /\ catalogPuts[i].answer # "done"

\* Callbacks of a panel that is gone do nothing.
Abandoned ==
    /\ catalogPuts' = [i \in DOMAIN catalogPuts |-> [catalogPuts[i] EXCEPT !.live = FALSE]]
    /\ filling' = [filling EXCEPT !.live = FALSE]

\* "Manage services": the panel is shown when the catalog could be read, and
\* seeded from what the page holds.
OpenCatalog ==
    /\ ~panel.mounted /\ catalog.data # NoData /\ ~catalog.error
    /\ panels < MaxPanels /\ panels' = panels + 1
    /\ panel' = SeededPanel(catalog.data.services)
    /\ UNCHANGED <<services, catalog, filling, catalogPuts, held, rowEdits, fillClicks, reads>>

CloseCatalog ==
    /\ panel.mounted /\ panel' = NoPanel /\ Abandoned
    /\ UNCHANGED <<services, catalog, held, rowEdits, fillClicks, reads, panels>>

\* The catalog is read again while it is shown: the network is back, or a page
\* that shows it is opened when it is stale (the focus of the window does nothing).
ReadCatalog ==
    /\ catalog.fetch = NotAsked /\ reads < MaxCatalogReads /\ reads' = reads + 1
    /\ catalog' = Refetch(catalog)
    /\ UNCHANGED <<services, panel, filling, catalogPuts, held, rowEdits, fillClicks, panels>>

ServeCatalog ==
    /\ catalog.fetch = Asked
    /\ \/ catalog' = AnswerFetch(catalog, Reading(services))
       \/ catalog.data # NoData /\ catalog' = AnswerFetch(catalog, NoData)
    /\ UNCHANGED <<services, panel, filling, catalogPuts, held, rowEdits, fillClicks, reads, panels>>

PanelAfterReseeded(q) ==          \* mutant: the rows follow the query
    IF q.error THEN NoPanel ELSE IF panel.mounted THEN SeededPanel(q.data.services) ELSE panel

\* The rows are seeded once; an error takes the place of the panel.
PanelAfter(q) == IF q.error THEN NoPanel ELSE panel

CatalogArrives ==
    /\ catalog.fetch.step = "answered"
    /\ catalog' = Arrive(catalog)
    /\ panel' = PanelAfter(catalog')
    /\ IF panel'.mounted THEN UNCHANGED <<filling, catalogPuts>> ELSE Abandoned
    /\ UNCHANGED <<services, held, rowEdits, fillClicks, reads, panels>>

\* change: the messages beside the rows are left as they are.
ChangeRows(rows) == panel' = [panel EXCEPT !.rows = rows, !.dirty = TRUE, !.saved = FALSE]

EditRows ==
    /\ panel.mounted /\ rowEdits < MaxRowEdits /\ rowEdits' = rowEdits + 1
    /\ \/ ChangeRows(Append(panel.rows, NewServiceForm))
       \/ \E i \in DOMAIN panel.rows : ChangeRows(RemoveAt(panel.rows, i))
       \/ \E i \in DOMAIN panel.rows, e \in ServiceEdits :
             ChangeRows([panel.rows EXCEPT ![i] = [f \in DOMAIN @ |-> IF f \in DOMAIN e THEN e[f] ELSE @[f]]])
    /\ UNCHANGED <<services, catalog, filling, catalogPuts, held, fillClicks, reads, panels>>

Revert ==
    /\ panel.mounted /\ panel.dirty /\ ~PanelPending
    /\ panel' = SeededPanel(catalog.data.services)
    /\ UNCHANGED <<services, catalog, filling, catalogPuts, held, rowEdits, fillClicks, reads, panels>>

\* "Fill in countries" keeps the rows of the click for the answer.
FillFromShipped ==
    /\ panel.mounted /\ filling.step = "no" /\ ~PanelPending
    /\ fillClicks < MaxFilled /\ fillClicks' = fillClicks + 1
    /\ filling' = [filling EXCEPT !.step = "asked", !.rows = panel.rows, !.live = TRUE]
    /\ panel' = [panel EXCEPT !.saved = FALSE]
    /\ UNCHANGED <<services, catalog, catalogPuts, held, rowEdits, reads, panels>>

Filled(rows) == ChangeRows(rows)

\* An answer that fails leaves the data of an earlier one.
ShippedArrives ==
    /\ filling.step = "asked"
    /\ \E read \in BOOLEAN :
          /\ filling' = [NoFill EXCEPT !.known = filling.known \/ read]
          /\ IF filling'.known /\ filling.live /\ FillCountries(filling.rows) # filling.rows
             THEN Filled(FillCountries(filling.rows)) ELSE UNCHANGED panel
    /\ UNCHANGED <<services, catalog, catalogPuts, held, rowEdits, fillClicks, reads, panels>>

SaveCatalog ==
    /\ panel.mounted /\ panel.dirty /\ ~PanelPending
    /\ LET local == ValidateCatalog(panel.rows) IN
       \/ /\ HasCatalogErrors(local) /\ panel.errors # local
          /\ panel' = [panel EXCEPT !.errors = local]
          /\ UNCHANGED catalogPuts
       \/ /\ ~HasCatalogErrors(local) /\ Len(catalogPuts) < MaxCatalogPuts
          /\ panel' = [panel EXCEPT !.errors = EmptyCatalogErrors, !.saved = FALSE]
          /\ catalogPuts' = Append(catalogPuts,
                 [sent |-> FormToServices(panel.rows), answer |-> "none", live |-> TRUE, complaints |-> {}])
    /\ UNCHANGED <<services, catalog, filling, held, rowEdits, fillClicks, reads, panels>>

\* handleSetServiceCatalog; a request may be lost, before or after it is served.
ServeCatalogPut(i) ==
    /\ catalogPuts[i].answer = "none"
    /\ LET complaints == Complaints(catalogPuts[i].sent) IN
       \/ /\ complaints = {} /\ services' = catalogPuts[i].sent
          /\ \E a \in {"ok", "lost"} : catalogPuts' = [catalogPuts EXCEPT ![i].answer = a]
       \/ /\ complaints # {} /\ UNCHANGED services
          /\ catalogPuts' = [catalogPuts EXCEPT ![i].answer = "refused", ![i].complaints = complaints]
       \/ /\ UNCHANGED services
          /\ catalogPuts' = [catalogPuts EXCEPT ![i].answer = "lost"]
    /\ held' = held \cup {services'}
    /\ UNCHANGED <<catalog, panel, filling, rowEdits, fillClicks, reads, panels>>

\* The answer is merged into what the page holds, and shown in the rows.
CatalogSaved(i) ==
    /\ catalogPuts[i].answer = "ok"
    /\ catalog' = SetQueryData(catalog, Reading(catalogPuts[i].sent))
    /\ panel' = IF ~catalogPuts[i].live THEN panel
                ELSE [panel EXCEPT !.rows = CatalogToForm(catalogPuts[i].sent), !.dirty = FALSE, !.saved = TRUE]
    /\ catalogPuts' = [catalogPuts EXCEPT ![i].answer = "done"]
    /\ UNCHANGED <<services, filling, held, rowEdits, fillClicks, reads, panels>>

CatalogRefused(i) ==
    /\ catalogPuts[i].answer \in {"refused", "lost"}
    /\ panel' = IF ~catalogPuts[i].live THEN panel
                ELSE [panel EXCEPT !.errors = CatalogProblemErrors(catalogPuts[i].complaints, catalogPuts[i].sent)]
    /\ catalogPuts' = [catalogPuts EXCEPT ![i].answer = "done"]
    /\ UNCHANGED <<services, catalog, filling, held, rowEdits, fillClicks, reads, panels>>

StoredByOther ==
    /\ services' \in OtherCatalogs \ held
    /\ held' = held \cup {services'}
    /\ UNCHANGED <<catalog, panel, filling, catalogPuts, rowEdits, fillClicks, reads, panels>>

ServicesNext ==
    \/ OpenCatalog \/ CloseCatalog \/ ReadCatalog \/ ServeCatalog \/ CatalogArrives
    \/ EditRows \/ Revert \/ FillFromShipped \/ ShippedArrives \/ SaveCatalog
    \/ \E i \in DOMAIN catalogPuts : ServeCatalogPut(i) \/ CatalogSaved(i) \/ CatalogRefused(i)
    \/ StoredByOther

-----------------------------------------------------------------------------
(***************************************************************************)
(* Properties.                                                             *)
(***************************************************************************)

\* When Save and Revert are disabled because nothing was changed, the rows are
\* a catalog that the server has held, whatever was saved, filled in, reverted
\* or lost before, and in whichever order the answers came.
CleanIsStored ==
    panel.mounted /\ ~panel.dirty => \E c \in held : panel.rows = CatalogToForm(c)

\* What the rollup and the page make of a service.
Meaning(s) ==
    [s EXCEPT !.domains = {NormalDomain(d) : d \in ToSet(@)}, !.main_domains = {NormalDomain(d) : d \in ToSet(@)}]

\* Reading a stored catalog into rows and sending the rows back changes nothing
\* of what is counted or shown, however its domains were spelled through the API.
UntouchedCountsTheSame ==
    panel.mounted => \A c \in held : LET back == FormToServices(CatalogToForm(c)) IN
        /\ DOMAIN back = DOMAIN c
        /\ \A i \in DOMAIN c : Meaning(back[i]) = Meaning(c[i])

\* The server names the service a complaint is about; since the page lets no
\* name through twice, the message lands on the row that caused it.
RefusalOnItsRow ==
    \A i \in DOMAIN catalogPuts : catalogPuts[i].answer = "refused" =>
        CatalogProblemErrors(catalogPuts[i].complaints, catalogPuts[i].sent) =
            [rows |-> {j \in DOMAIN catalogPuts[i].sent : ServerRefuses(catalogPuts[i].sent, j)}, general |-> FALSE]

\* Filling in countries sets empty ones and nothing else, when the rows are
\* still those of the click, and leaves the rows to be saved.  (What was typed
\* since the click is lost: fillFromShipped goes on with the rows of the click.)
FillKeepsChosen ==
    [][filling.step = "asked" /\ filling'.step = "no" /\ filling.rows = panel.rows =>
        /\ panel'.rows # panel.rows => panel'.dirty
        /\ \A i \in DOMAIN panel.rows :
              panel'.rows[i] # panel.rows[i] =>
                  /\ panel.rows[i].country = ""
                  /\ [panel'.rows[i] EXCEPT !.country = ""] = panel.rows[i]]_serviceVars

\* A read in the background that brings a catalog never replaces what is being
\* typed.  (One that fails unmounts the editor with its rows.)
TypingSurvivesRead ==
    [][catalog.fetch.step = "answered" /\ catalog.fetch.data # NoData /\ catalog'.fetch = NotAsked
        => panel'.rows = panel.rows]_serviceVars
=============================================================================
