----------------------------- MODULE Forwarding -----------------------------
(***************************************************************************)
(* The forwarding page of the web client (features/forwarding): the list   *)
(* of targets, the dialog that edits one, the confirmations, and somebody  *)
(* else working on the same target.                                        *)
(*                                                                         *)
(* One target is followed, next to one called "b" that is only there.  The *)
(* limit stands for the fields under Advanced, all of them optional;       *)
(* stream for the keys of a target that the dialog has no field for.       *)
(* Health, counters and wording are left out.                              *)
(***************************************************************************)
EXTENDS Naturals, SequencesExt, FiniteSets, QueryCache

CONSTANTS
    StartTargets,   \* what is stored at first
    FieldInputs,    \* what may be typed at once: some of the fields -> their texts
    OtherConfigs,   \* configs somebody else may store
    KnownSources,   \* the sources the dialog offers to tick
    Timers,         \* bound: reads after a write
    MaxDialogs,     \* bound: dialogs opened
    MaxTyped,       \* bound: changes of the form
    MaxRequests,    \* bound: calls
    MaxOthers       \* bound: changes by somebody else

VARIABLES
    target,         \* [id, version, config, enabled, secret]; version 0: none
    targets,        \* the query of the list
    settling,       \* invalidations still to come
    dialog,         \* ForwardTargetDialog, or NoDialog
    confirm,        \* the confirmation: [action, seen]
    banner,         \* the message above the list
    requests,       \* the mutations
    dialogs, typed, others  \* ghost: the bounds

forwardVars == <<target, targets, settling, dialog, confirm, banner, requests, dialogs, typed, others>>

\* A text is a word, or one of two that Trim changes.
Trimmed(t) == CASE t = " " -> "" [] t = " a" -> "a" [] OTHER -> t
NotANumber == "x"
FileName == "f"                 \* a name the configuration file uses
NoToken == "-"                  \* the payload has no token
DefaultLimit == "d"
DefaultStream == "s"

-----------------------------------------------------------------------------
(***************************************************************************)
(* The form.                                                               *)
(***************************************************************************)

DEFAULT_FORWARD_FORM ==
    [name |-> "", url |-> "", sources |-> <<>>, limit |-> "", token |-> "",
     token_stored |-> FALSE, remove_token |-> FALSE]

\* filter: a list without the entries that are e.
Without(list, e) ==
    FoldLeft(LAMBDA kept, n : IF n = e THEN kept ELSE Append(kept, n), <<>>, list)

\* forwardSourceNames: the lines of the list, trimmed, without the empty ones.
ForwardSourceNames(text) == Without([i \in DOMAIN text |-> Trimmed(text[i])], "")

ConfigToForwardFormShort(t) ==      \* mutant: the filter is forgotten
    [DEFAULT_FORWARD_FORM EXCEPT !.name = t.config.name, !.url = t.config.url,
        !.limit = t.config.limit, !.token_stored = t.token_stored]

\* The token never comes back: its field starts empty.
ConfigToForwardForm(t) ==
    [DEFAULT_FORWARD_FORM EXCEPT !.name = t.config.name, !.url = t.config.url,
        !.sources = t.config.sources, !.limit = t.config.limit,
        !.token_stored = t.token_stored]

EmptyForwardErrors == [fields |-> {}, general |-> FALSE]
HasForwardErrors(e) == e.general \/ e.fields # {}

UrlError(url) == url \in {"", "no-scheme"}

\* An empty field keeps the stored token: it is left out; removing sends "".
TokenSent(f) ==
    IF f.remove_token THEN "" ELSE IF f.token # "" THEN f.token ELSE NoToken

\* formToForwardInput; what is empty is left out.
FormToForwardInput(f) ==
    [config |-> [name |-> Trimmed(f.name), url |-> Trimmed(f.url),
                 sources |-> ForwardSourceNames(f.sources),
                 limit |-> IF Trimmed(f.limit) = NotANumber THEN "" ELSE Trimmed(f.limit),
                 stream |-> ""],
     token |-> TokenSent(f),
     errors |-> [fields |-> {e \in {"name", "url", "limit"} :
                                CASE e = "name" -> Trimmed(f.name) = ""
                                  [] e = "url" -> UrlError(Trimmed(f.url))
                                  [] e = "limit" -> Trimmed(f.limit) = NotANumber},
                 general |-> FALSE]]

\* forwardProblemErrors: what the server says of `target.url' names no key of
\* the form, so it joins the general messages; so does a failed call.
FieldOf(complaint) == IF complaint = "name" THEN {"name"} ELSE {}
ForwardProblemErrors(complaint) ==
    [fields |-> FieldOf(complaint), general |-> FieldOf(complaint) = {}]

-----------------------------------------------------------------------------
(***************************************************************************)
(* The server, from how the page uses it.                                  *)
(***************************************************************************)

Exists == target.version > 0

\* What the list says of the target: never the token.
View(t) ==
    IF t.version = 0 THEN NoData
    ELSE [id |-> t.id, version |-> t.version, config |-> t.config, enabled |-> t.enabled,
          token_stored |-> t.secret # ""]

\* The list has a version of its own so that an empty one is not NoData.
Rows(t) == [version |-> 1, rows |-> IF t.version = 0 THEN {} ELSE {View(t)}]

\* PrepareForwardTarget fills in every default before the target is stored.
Prepared(c) ==
    [c EXCEPT !.limit = IF @ = "" THEN DefaultLimit ELSE @,
              !.stream = IF @ = "" THEN DefaultStream ELSE @]

\* The keys of a config and of a target; what is stored has been prepared.
IsConfig(c) == c = [name |-> c.name, url |-> c.url, sources |-> c.sources, limit |-> c.limit, stream |-> c.stream]
IsTarget(t) ==
    /\ t = [id |-> t.id, version |-> t.version, config |-> t.config, enabled |-> t.enabled, secret |-> t.secret]
    /\ t.id \in Nat /\ t.version \in Nat /\ t.enabled \in BOOLEAN
    /\ IsConfig(t.config) /\ Prepared(t.config) = t.config

ASSUME StartTargetsAssumption == \A t \in StartTargets : IsTarget(t)
ASSUME FieldInputsAssumption == \A i \in FieldInputs : "sources" \in DOMAIN i => i.sources \in Seq(ToSet(i.sources))
ASSUME OtherConfigsAssumption == \A c \in OtherConfigs : IsConfig(c)

\* A config that the dialog would spell the same way.  The server asks for a name and
\* an address and stores the names of sources as they were sent.
PlainConfig(c) ==
    /\ Trimmed(c.name) = c.name /\ Trimmed(c.url) = c.url /\ Trimmed(c.limit) = c.limit
    /\ c.name # "" /\ ~UrlError(c.url) /\ c.limit # NotANumber
    /\ c.sources \in Seq(ToSet(c.sources))
    /\ \A i \in DOMAIN c.sources : Trimmed(c.sources[i]) = c.sources[i] /\ c.sources[i] # ""

\* decodeForwardTarget validates in this order; then the store compares versions.
\* (A target that is created next to the one that is followed has its name.)
ServerSays(r) ==
    IF r.op # "create" /\ (~Exists \/ r.seen.id # target.id) THEN "gone"
    ELSE IF r.op = "delete" THEN "ok"
    ELSE IF r.config.url = "bad" THEN "url"
    ELSE IF r.config.name = FileName THEN "name"
    ELSE IF r.config.name = "b" \/ (r.op = "create" /\ Exists) THEN "conflict"
    ELSE IF r.op # "create" /\ r.version # target.version THEN "conflict"
    ELSE "ok"

-----------------------------------------------------------------------------
(***************************************************************************)
(* The page.                                                               *)
(***************************************************************************)

NoDialog == [open |-> FALSE, seen |-> NoData, form |-> DEFAULT_FORWARD_FORM,
             errors |-> EmptyForwardErrors, conflict |-> FALSE]
NoConfirm == [action |-> "none", seen |-> NoData]

ForwardInit ==
    /\ target \in StartTargets
    /\ targets = [EmptyEntry EXCEPT !.fetch = Asked]
    /\ settling = 0 /\ dialog = NoDialog /\ confirm = NoConfirm /\ banner = FALSE
    /\ requests = <<>> /\ dialogs = 0 /\ typed = 0 /\ others = 0

Shown == IF targets.data = NoData THEN {} ELSE targets.data.rows

\* Add, or Edit of a row.  The dialog keeps the row as it was then.
OpenDialog ==
    /\ ~dialog.open /\ confirm = NoConfirm /\ dialogs < MaxDialogs
    /\ \E t \in Shown \cup {NoData} :
          dialog' = [NoDialog EXCEPT !.open = TRUE, !.seen = t,
                        !.form = IF t = NoData THEN DEFAULT_FORWARD_FORM ELSE ConfigToForwardForm(t)]
    /\ dialogs' = dialogs + 1
    /\ UNCHANGED <<target, targets, settling, confirm, banner, requests, typed, others>>

\* The dialog is unmounted, and the callbacks of its call with it.
Deserted(rs) == [i \in DOMAIN rs |-> [rs[i] EXCEPT !.live = @ /\ rs[i].op \notin {"create", "update"}]]

CloseDialog ==
    /\ dialog.open
    /\ dialog' = NoDialog /\ requests' = Deserted(requests)
    /\ UNCHANGED <<target, targets, settling, confirm, banner, dialogs, typed, others>>

SetForm(f) ==
    /\ dialog.open /\ f # dialog.form /\ typed < MaxTyped
    /\ dialog' = [dialog EXCEPT !.form = f] /\ typed' = typed + 1
    /\ UNCHANGED <<target, targets, settling, confirm, banner, requests, dialogs, others>>

\* The inputs of the dialog, those under Advanced among them.
TypeField == \E i \in FieldInputs :
    /\ dialog.form.remove_token => "token" \notin DOMAIN i
    /\ SetForm([f \in DOMAIN dialog.form |-> IF f \in DOMAIN i THEN i[f] ELSE dialog.form[f]])

\* A name that is on the target stays on offer when its source is gone.
ToggleSource ==
    LET selected == ForwardSourceNames(dialog.form.sources) IN
    \E n \in KnownSources \cup ToSet(selected) :
        SetForm([dialog.form EXCEPT !.sources =
            IF Contains(selected, n) THEN Without(selected, n) ELSE Append(selected, n)])

\* Ticking the box empties the field.
RemoveToken ==
    /\ dialog.form.token_stored
    /\ \E on \in BOOLEAN :
          SetForm([dialog.form EXCEPT !.remove_token = on, !.token = IF on THEN "" ELSE @])

Request(r) ==
    /\ Len(requests) < MaxRequests
    /\ requests' = Append(requests, r)

Mutation(op, seen, form, version, config, enabled, token) ==
    [op |-> op, seen |-> seen, form |-> form, version |-> version, config |-> config,
     enabled |-> enabled, token |-> token, live |-> TRUE, answer |-> "none"]

Unanswered(ops) == \E i \in DOMAIN requests :
    requests[i].live /\ requests[i].op \in ops /\ requests[i].answer # "done"

\* An edit sends the switch as it was, and the version it was opened on.
EnabledSent(t) == t.enabled
VersionSent(t) == t.version

\* onSubmit.
SubmitTarget ==
    LET out == FormToForwardInput(dialog.form) IN
    /\ dialog.open /\ ~Unanswered({"create", "update"})
    /\ IF HasForwardErrors(out.errors)
       THEN /\ dialog' = [dialog EXCEPT !.errors = out.errors] /\ dialog' # dialog
            /\ UNCHANGED requests
       ELSE /\ dialog' = [dialog EXCEPT !.errors = EmptyForwardErrors, !.conflict = FALSE]
            /\ Request(IF dialog.seen = NoData
                       THEN Mutation("create", NoData, dialog.form, 0, out.config, FALSE, out.token)
                       ELSE Mutation("update", dialog.seen, dialog.form, VersionSent(dialog.seen),
                                     out.config, EnabledSent(dialog.seen), out.token))
    /\ UNCHANGED <<target, targets, settling, confirm, banner, dialogs, typed, others>>

\* Start asks first, Stop does not.
AskEnable ==
    /\ confirm = NoConfirm /\ ~dialog.open /\ ~Unanswered({"enable", "disable"})
    /\ \E t \in Shown : ~t.enabled /\ confirm' = [action |-> "enable", seen |-> t]
    /\ UNCHANGED <<target, targets, settling, dialog, banner, requests, dialogs, typed, others>>

AskDeleteTarget ==
    /\ confirm = NoConfirm /\ ~dialog.open
    /\ \E t \in Shown : confirm' = [action |-> "delete", seen |-> t]
    /\ UNCHANGED <<target, targets, settling, dialog, banner, requests, dialogs, typed, others>>

CancelConfirm ==
    /\ confirm # NoConfirm /\ confirm' = NoConfirm
    /\ UNCHANGED <<target, targets, settling, dialog, banner, requests, dialogs, typed, others>>

\* setEnabled sends the row the person was looking at.
RowSent(t) == t

SetEnabled(t, on) ==
    /\ banner' = FALSE
    /\ Request(Mutation(IF on THEN "enable" ELSE "disable", t, DEFAULT_FORWARD_FORM,
                        RowSent(t).version, RowSent(t).config, on, NoToken))

Disable ==
    /\ confirm = NoConfirm /\ ~dialog.open /\ ~Unanswered({"enable", "disable"})
    /\ \E t \in Shown : t.enabled /\ SetEnabled(t, FALSE)
    /\ UNCHANGED <<target, targets, settling, dialog, confirm, dialogs, typed, others>>

Confirm ==
    /\ confirm # NoConfirm /\ ~Unanswered({"enable", "disable", "delete"})
    /\ IF confirm.action = "enable" THEN SetEnabled(confirm.seen, TRUE)
       ELSE /\ banner' = FALSE
            /\ Request(Mutation("delete", confirm.seen, DEFAULT_FORWARD_FORM, 0,
                                confirm.seen.config, FALSE, NoToken))
    /\ UNCHANGED <<target, targets, settling, dialog, confirm, dialogs, typed, others>>

\* The server takes a request; it keeps the token of a payload without one.
Store(r) ==
    CASE r.op = "create" ->
            [id |-> target.id + 1, version |-> 1, config |-> Prepared(r.config), enabled |-> FALSE,
             secret |-> IF r.token = NoToken THEN "" ELSE r.token]
      [] r.op = "delete" -> [target EXCEPT !.version = 0]
      [] OTHER ->
            [id |-> target.id, version |-> target.version + 1, config |-> Prepared(r.config),
             enabled |-> r.enabled, secret |-> IF r.token = NoToken THEN target.secret ELSE r.token]

\* It may fail before it is stored, and what is stored may never be heard of.
ServeRequest(i) ==
    /\ requests[i].answer = "none"
    /\ \E says \in {ServerSays(requests[i]), "failed", "lost"} :
          /\ says = "lost" => ServerSays(requests[i]) = "ok"
          /\ requests' = [requests EXCEPT ![i].answer = says]
          /\ target' = IF says \in {"ok", "lost"} THEN Store(requests[i]) ELSE target
    /\ UNCHANGED <<targets, settling, dialog, confirm, banner, dialogs, typed, others>>

\* The hook settles the list; then the callback of whoever is still there.
RequestOk(i) ==
    LET r == requests[i] IN
    /\ r.answer = "ok"
    /\ requests' = [requests EXCEPT ![i].answer = "done"]
    /\ targets' = Invalidate(targets) /\ settling' = Timers
    /\ IF r.op \in {"create", "update"}
       THEN dialog' = (IF r.live THEN NoDialog ELSE dialog) /\ UNCHANGED confirm
       ELSE confirm' = NoConfirm /\ UNCHANGED dialog
    /\ UNCHANGED <<target, banner, dialogs, typed, others>>

RequestRefused(i) ==
    LET r == requests[i] IN
    /\ r.answer \notin {"none", "ok", "done"}
    /\ requests' = [requests EXCEPT ![i].answer = "done"]
    /\ IF r.op \in {"create", "update"}
       THEN /\ dialog' = IF ~r.live THEN dialog
                         ELSE IF r.answer = "conflict" THEN [dialog EXCEPT !.conflict = TRUE]
                         ELSE [dialog EXCEPT !.errors = ForwardProblemErrors(r.answer)]
            /\ UNCHANGED <<confirm, banner>>
       ELSE confirm' = NoConfirm /\ banner' = TRUE /\ UNCHANGED dialog
    /\ UNCHANGED <<target, targets, settling, dialogs, typed, others>>

PollTargets ==
    /\ targets.fetch = NotAsked
    /\ targets' = Refetch(targets)
    /\ UNCHANGED <<target, settling, dialog, confirm, banner, requests, dialogs, typed, others>>

SettleTick ==
    /\ settling > 0 /\ settling' = settling - 1 /\ targets' = Invalidate(targets)
    /\ UNCHANGED <<target, dialog, confirm, banner, requests, dialogs, typed, others>>

ServeTargets ==
    /\ targets.fetch = Asked /\ targets' = AnswerFetch(targets, Rows(target))
    /\ UNCHANGED <<target, settling, dialog, confirm, banner, requests, dialogs, typed, others>>

TargetsArrive ==
    /\ targets.fetch.step = "answered" /\ targets' = Arrive(targets)
    /\ UNCHANGED <<target, settling, dialog, confirm, banner, requests, dialogs, typed, others>>

\* Somebody else changes the config and the token, throws the switch, or deletes
\* the target.
SomebodyElse ==
    /\ Exists /\ others < MaxOthers /\ others' = others + 1
    /\ \/ \E c \in OtherConfigs :
             target' = [target EXCEPT !.version = @ + 1, !.config = Prepared(c), !.secret = "o"]
       \/ target' = [target EXCEPT !.version = @ + 1, !.enabled = ~@]
       \/ target' = [target EXCEPT !.version = 0]
    /\ UNCHANGED <<targets, settling, dialog, confirm, banner, requests, dialogs, typed>>

ForwardNext ==
    \/ OpenDialog \/ CloseDialog \/ TypeField \/ ToggleSource \/ RemoveToken \/ SubmitTarget
    \/ AskEnable \/ AskDeleteTarget \/ CancelConfirm \/ Disable \/ Confirm
    \/ \E i \in DOMAIN requests : ServeRequest(i) \/ RequestOk(i) \/ RequestRefused(i)
    \/ PollTargets \/ SettleTick \/ ServeTargets \/ TargetsArrive
    \/ SomebodyElse

-----------------------------------------------------------------------------
(***************************************************************************)
(* Properties.                                                             *)
(***************************************************************************)

Stored(i) == requests'[i].answer \in {"ok", "lost"} /\ requests[i].answer = "none"

\* What a save or a switch replaces is what its author was looking at.
ReplacesWhatWasSeen ==
    [][\A i \in DOMAIN requests :
          Stored(i) /\ requests[i].op \in {"update", "enable", "disable"} =>
              View(target) = requests[i].seen]_forwardVars

\* An edit never starts or stops a target, and a new one starts switched off,
\* even when somebody else throws the switch while the dialog is open.
EditNeverSwitches ==
    [][\A i \in DOMAIN requests :
          Stored(i) => /\ requests[i].op = "update" => target'.enabled = target.enabled
                       /\ requests[i].op = "create" => ~target'.enabled]_forwardVars

\* Forwarding starts only to the address that was shown when it was confirmed.
StartsWhatWasShown ==
    [][\A i \in DOMAIN requests :
          Stored(i) /\ target'.enabled /\ ~target.enabled =>
              /\ requests[i].op = "enable"
              /\ target'.config = requests[i].seen.config]_forwardVars

\* The stored token changes only when one was typed or its removal ticked.
TokenKept ==
    [][\A i \in DOMAIN requests :
          Stored(i) /\ requests[i].op # "create" /\ target'.secret # target.secret =>
              requests[i].form.token # "" \/ requests[i].form.remove_token]_forwardVars

\* Saving a target that was opened and not changed stores it as it is, but for
\* the keys the dialog has no field for: those return to their default.
UntouchedTargetIsKept ==
    dialog.open /\ dialog.seen # NoData /\ dialog.form = ConfigToForwardForm(dialog.seen) =>
        LET out == FormToForwardInput(dialog.form) IN
        /\ ~HasForwardErrors(out.errors) /\ out.token = NoToken
        /\ Prepared(out.config) = [dialog.seen.config EXCEPT !.stream = DefaultStream]

\* The list shows what is stored.
TargetListIsTrue == targets.data = Rows(target)
=============================================================================
