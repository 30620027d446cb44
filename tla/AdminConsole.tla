---------------------------- MODULE AdminConsole ----------------------------
(***************************************************************************)
(* The pages of the web client that change the server: sources,            *)
(* forwarding, users, API keys, retention and the catalog of services.     *)
(* They share the query cache (module QueryCache) and nothing else, so a   *)
(* behaviour is the behaviour of the one page that is open; the others     *)
(* have not been visited.                                                  *)
(***************************************************************************)
EXTENDS SourceEditor, Forwarding, Users, ApiKeys, Retention, ServiceCatalog

VARIABLE area        \* the page that is open

consoleVars == <<editorVars, forwardVars, userVars, keyVars, retentionVars, serviceVars, area>>

Areas == {"sources", "forwarding", "users", "keys", "retention", "services"}

\* The routes of the six pages.
ConsoleInit ==
    /\ area \in Areas
    /\ EditorInit /\ ForwardInit /\ UsersInit /\ KeysInit /\ RetentionInit /\ ServicesInit
    /\ area # "sources" => source.origin = "none"
    /\ area # "forwarding" => target.version = 0
    /\ area # "retention" => desired = 0

InSources == area = "sources" /\ UNCHANGED <<forwardVars, userVars, keyVars, retentionVars, serviceVars, area>>
InForwarding == area = "forwarding" /\ UNCHANGED <<editorVars, userVars, keyVars, retentionVars, serviceVars, area>>
InUsers == area = "users" /\ UNCHANGED <<editorVars, forwardVars, keyVars, retentionVars, serviceVars, area>>
InKeys == area = "keys" /\ UNCHANGED <<editorVars, forwardVars, userVars, retentionVars, serviceVars, area>>
InRetention == area = "retention" /\ UNCHANGED <<editorVars, forwardVars, userVars, keyVars, serviceVars, area>>
InServices == area = "services" /\ UNCHANGED <<editorVars, forwardVars, userVars, keyVars, retentionVars, area>>

ConsoleNext ==
    \/ InSources /\ EditorNext
    \/ InForwarding /\ ForwardNext
    \/ InUsers /\ UsersNext
    \/ InKeys /\ KeysNext
    \/ InRetention /\ RetentionNext
    \/ InServices /\ ServicesNext

\* What is asked is answered, timers fire and the lists are polled; what the
\* person and the others do may stop at any time.
SourcesFairness ==
    /\ WF_editorVars(area = "sources" /\ Poll)
    /\ WF_editorVars(area = "sources" /\ (ServeList \/ ListArrives))
    /\ WF_editorVars(area = "sources" /\ (ServeItem \/ ItemArrives))
    /\ WF_editorVars(area = "sources" /\ Tick)
    /\ WF_editorVars(area = "sources" /\ \E i \in DOMAIN calls : Check(i) \/ Serve(i) \/ Fail(i) \/ Succeeded(i) \/ Failed(i))

ForwardingFairness ==
    /\ WF_forwardVars(area = "forwarding" /\ PollTargets)
    /\ WF_forwardVars(area = "forwarding" /\ (ServeTargets \/ TargetsArrive))
    /\ WF_forwardVars(area = "forwarding" /\ SettleTick)

RetentionFairness ==
    /\ WF_retentionVars(area = "retention" /\ PollRetention)
    /\ WF_retentionVars(area = "retention" /\ (ServeRetention \/ RetentionArrives))

ConsoleFairness == SourcesFairness /\ ForwardingFairness /\ RetentionFairness

ConsoleSpec == ConsoleInit /\ [][ConsoleNext]_consoleVars /\ ConsoleFairness

-----------------------------------------------------------------------------
(***************************************************************************)
(* Properties.                                                             *)
(***************************************************************************)

\* Whoever saves a source or a target, or switches one, replaces only what was on
\* the screen; no target starts that was not shown, and secrets stay unless they
\* are replaced.  Saving an account changes the role and the switch only where
\* they were changed on the screen, seen from what the server read; accounts have
\* no version, so what is stored between that read and the write is lost.  (A
\* deletion, the catalog and the retention period are not covered: their requests
\* carry no version and the last one wins.)
NoBlindOverwrite ==
    /\ NothingLost
    /\ ReplacesWhatWasSeen /\ StartsWhatWasShown /\ EditNeverSwitches /\ TokenKept
    /\ NoStaleRevert

\* What others store, and what is stored at first, is spelled as the pages spell it.
PlainStores ==
    /\ \A t \in StartTargets : PlainConfig(t.config)
    /\ \A c \in OtherConfigs : PlainConfig(c)
    /\ \A c \in StartCatalogs \cup OtherCatalogs : \A i \in DOMAIN c : PlainService(c[i])

\* Opening something and saving it without a change stores what was there.
UntouchedIsUnchanged == UntouchedTargetIsKept /\ NormalizedIsTheSame /\ UntouchedCountsTheSame

\* What a page says is so, whatever answers are lost or late: a list differs from
\* what is stored only by calls nothing was heard of, or by one that joined the
\* list's first read; a conflict is somebody else's doing or that of an own save
\* nothing was heard of; a secret that is shown once is shown when its answer
\* comes; a form without changes is a stored one, and a refusal is on its row.
PagesTellTheTruth ==
    /\ QuietIsFresh /\ ConflictIsOthers
    /\ OwnChangesListed /\ GeneratedIsShown
    /\ KeysListedTruly /\ SecretReachesScreen
    /\ CleanIsStored /\ RefusalOnItsRow

\* A read in the background that succeeds never replaces what is being typed, and
\* filling in countries leaves the rows of its click alone but for empty ones.
\* (A read that fails unmounts the form with what was typed, and a late list of
\* countries is applied to the rows of the click: both lose typing.)
TypingSurvives == PollKeepsTyping /\ TypingSurvivesRead /\ FillKeepsChosen

\* The lists of the two pages that poll, and the banner of the third, end up
\* showing what the server holds, whoever changed it and whatever was lost.
PagesConverge ==
    <>[](/\ area = "sources" => ListIsTrue
         /\ area = "forwarding" => TargetListIsTrue
         /\ area = "retention" => BannerIsTrue)
=============================================================================
