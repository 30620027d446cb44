------------------------------ MODULE QueryBar ------------------------------
(***************************************************************************)
(* The query bar of the log explorer (features/explorer/QueryBar.tsx,      *)
(* FilterBuilder.tsx, AdvancedEditor.tsx, features/assistant): everything  *)
(* that can change the query, which is kept in the URL and nowhere else.   *)
(*                                                                         *)
(* A LogsQL text is what it selects, whether pipes follow its filter, and  *)
(* whether the server refuses it.  A text that is typed comes with the     *)
(* expression that its author means, NoMeaning if it is a mistake: the     *)
(* ghost wanted is the set of logs that everybody's intentions add up to.  *)
(***************************************************************************)
EXTENDS FilterText

CONSTANTS
    Typed,            \* texts for the query bar: [tokens, means]
    FormInputs,       \* what may be filled into the form of a term: [form, means]
    Natives,          \* LogsQL texts that may be typed
    Proposals         \* what the assistant may propose: [filter, from, to]

VARIABLES
    url,              \* ExplorerSearch: [from, to, q, native, mode, cols, split, saved]
    runId,            \* how often the query was run
    text, textError,  \* what is in the input of the query bar, and that it was refused
    editing,          \* the form of a term
    draftNative,      \* what is in the LogsQL editor
    ask,              \* the question to the assistant: [step, answer]
    wanted            \* ghost: the logs that the person asked for

barVars == <<url, runId, text, textError, editing, draftNative, ask, wanted>>

NoMeaning == [op |-> "mistake"]
NoText == [tokens |-> <<>>, means |-> NoMeaning]
NoNative == [blank |-> TRUE, sel |-> Samples, pipes |-> FALSE, bad |-> FALSE]
NoProposal == [filter |-> NoMeaning]
Declined == [filter |-> Everything, declined |-> TRUE]
NoQuestion == [step |-> "closed", answer |-> NoProposal]

\* The q of an address: its text, and what decodeQuery reads in it.
Written(tokens) == [tokens |-> tokens, read |-> ParseFilter(tokens)]
Decoded(q) == q.read

\* encodeFilter.
EncodeFilter(e) == Written(FormatFilter(e))

Filter == Decoded(url.q).expr
Terms == AndTerms(Filter)

\* The logs that the terms, and the LogsQL text beside them, select.
AllOf(terms, native) == {s \in native.sel : \A i \in DOMAIN terms : Selects(terms[i], s)}

NotEditing == [at |-> 0, tab |-> "closed", form |-> EmptyForm, formMeans |-> NoMeaning,
               typed |-> NoText, touched |-> FALSE]

\* Bounds: a form is filled in once, and one thing is half done at a time,
\* but for a text in the input beside one in the LogsQL editor.
NothingHalfDone == text = NoText /\ draftNative = url.native /\ editing = NotEditing

-----------------------------------------------------------------------------
(***************************************************************************)
(* Changes of the query.  Each closes the form of a term, which is a       *)
(* popover, and says what the person means by it.                          *)
(***************************************************************************)

Draft(native) == IF native # url.native THEN native ELSE draftNative

ReplaceTerms(terms, native, meant) ==
    /\ url' = [url EXCEPT !.q = EncodeFilter(CombineAnd(terms)), !.native = native]
    /\ draftNative' = Draft(native) /\ editing' = NotEditing
    /\ wanted' = meant

\* onNativeChange alone leaves q as it is, even one that does not parse.
NativeChange(native) ==
    /\ url' = [url EXCEPT !.native = native]
    /\ draftNative' = Draft(native) /\ editing' = NotEditing
    /\ wanted' = AllOf(Terms, native)

Run(times) == runId' = runId + times
NoRun == runId' = runId

\* commitText, of a text that is not empty.
CommitText ==
    LET r == ParseFilter(text.tokens)
        meant == IF text.means = NoMeaning THEN wanted
                 ELSE AllOf(Append(Terms, text.means), url.native)
    IN  IF r.ok
        THEN /\ ReplaceTerms(Terms \o AndTerms(r.expr), url.native, meant)
             /\ text' = NoText /\ textError' = FALSE
        ELSE /\ textError' = TRUE /\ editing' = NotEditing /\ wanted' = meant
             /\ UNCHANGED <<url, text, draftNative>>

-----------------------------------------------------------------------------
(***************************************************************************)
(* The input and the chips.                                                *)
(***************************************************************************)

TypeText(t) ==
    /\ text = NoText \/ textError
    /\ editing = NotEditing /\ ask.step # "answered"
    /\ text' = t /\ textError' = FALSE
    /\ UNCHANGED <<url, runId, editing, draftNative, ask, wanted>>

PressEnter ==
    /\ IF text = NoText
       THEN /\ Run(1) /\ editing' = NotEditing /\ UNCHANGED <<url, text, textError, draftNative, wanted>>
       ELSE CommitText /\ NoRun
    /\ UNCHANGED ask

Backspace ==
    /\ text = NoText /\ Terms # <<>>
    /\ ReplaceTerms(Front(Terms), url.native, AllOf(Front(Terms), url.native))
    /\ NoRun /\ UNCHANGED <<text, textError, ask>>

NegateChip(i) ==
    /\ ReplaceTerms([Terms EXCEPT ![i] = Negate(@)], url.native,
                    AllOf(RemoveAt(Terms, i), url.native) \ Meaning(Terms[i]))
    /\ NoRun /\ UNCHANGED <<text, textError, ask>>

RemoveChip(i) ==
    /\ ReplaceTerms(RemoveAt(Terms, i), url.native, AllOf(RemoveAt(Terms, i), url.native))
    /\ NoRun /\ UNCHANGED <<text, textError, ask>>

\* A value of the sidebar, of the drawer or under the cursor of the table.
FilterByValue(f, v, exclude) ==
    /\ LET others == SelectSeq(Terms, LAMBDA t : t \notin {Term("eq", f, v), Term("ne", f, v)})
           meant == {s \in AllOf(others, url.native) : (s[f] = v) # exclude}
       IN  ReplaceTerms(AndTerms(AddValueFilter(Filter, f, v, exclude)), url.native, meant)
    /\ NoRun /\ UNCHANGED <<text, textError, ask>>

-----------------------------------------------------------------------------
(***************************************************************************)
(* The form of a term: FilterBuilder.  at is the chip it was opened from,  *)
(* one more than there are for a new filter.                               *)
(***************************************************************************)

OpenForm(i) ==
    /\ NothingHalfDone /\ ask = NoQuestion
    /\ LET term == IF i \in DOMAIN Terms THEN Terms[i] ELSE Everything
           shown == IF i \in DOMAIN Terms THEN term ELSE NoMeaning
       IN  editing' = [at |-> i, form |-> FormOf(term),
                       tab |-> IF term = Everything \/ IsSimpleTerm(term) THEN "builder" ELSE "text",
                       formMeans |-> IF IsSimpleTerm(term) THEN term ELSE NoMeaning,
                       touched |-> FALSE, typed |-> [tokens |-> FormatFilter(term), means |-> shown]]
    /\ UNCHANGED <<url, runId, text, textError, draftNative, ask, wanted>>

FillForm(input) ==
    /\ editing.tab = "builder" /\ ~editing.touched
    /\ editing' = [editing EXCEPT !.form = input.form, !.formMeans = input.means, !.touched = TRUE]
    /\ UNCHANGED <<url, runId, text, textError, draftNative, ask, wanted>>

WriteForm(t) ==
    /\ editing.tab = "text" /\ ~editing.touched
    /\ editing' = [editing EXCEPT !.typed = t, !.touched = TRUE]
    /\ UNCHANGED <<url, runId, text, textError, draftNative, ask, wanted>>

\* The tab with the text takes over what the form says, if that is a filter.
SwitchTab ==
    /\ editing.tab # "closed"
    /\ LET r == BuildExpr(editing.form)
       IN  editing' = IF editing.tab = "text" THEN [editing EXCEPT !.tab = "builder"]
                      ELSE [editing EXCEPT !.tab = "text",
                                           !.typed = IF r.ok THEN [tokens |-> FormatFilter(r.expr),
                                                                   means |-> editing.formMeans]
                                                     ELSE @]
    /\ UNCHANGED <<url, runId, text, textError, draftNative, ask, wanted>>

\* A form that is refused stays open and says so.
SubmitForm ==
    /\ editing.tab # "closed"
    /\ LET r == IF editing.tab = "text" THEN ParseFilter(editing.typed.tokens) ELSE BuildExpr(editing.form)
           means == IF editing.tab = "text" THEN editing.typed.means ELSE editing.formMeans
           others == IF editing.at \in DOMAIN Terms THEN RemoveAt(Terms, editing.at) ELSE Terms
           before == SubSeq(Terms, 1, editing.at - 1)
           after == SubSeq(Terms, editing.at + 1, Len(Terms))
           meant == IF means = NoMeaning THEN wanted ELSE AllOf(Append(others, means), url.native)
       IN  IF r.ok /\ r.expr # Everything
           THEN ReplaceTerms(before \o AndTerms(r.expr) \o after, url.native, meant)
           ELSE wanted' = meant /\ UNCHANGED <<url, draftNative, editing>>
    /\ NoRun /\ UNCHANGED <<text, textError, ask>>

CancelForm ==
    /\ editing.tab # "closed" /\ editing' = NotEditing
    /\ UNCHANGED <<url, runId, text, textError, draftNative, ask, wanted>>

-----------------------------------------------------------------------------
(***************************************************************************)
(* LogsQL, and the button.                                                 *)
(***************************************************************************)

SetMode(m) ==
    /\ url.mode # m /\ url' = [url EXCEPT !.mode = m] /\ editing' = NotEditing
    /\ NoRun /\ UNCHANGED <<text, textError, draftNative, ask, wanted>>

TypeNative(n) ==
    /\ url.mode = "advanced" /\ draftNative = url.native /\ n # draftNative
    /\ editing = NotEditing /\ ask = NoQuestion
    /\ draftNative' = n
    /\ UNCHANGED <<url, runId, text, textError, editing, ask, wanted>>

\* Mod-Enter in the editor.
RunEditor ==
    /\ url.mode = "advanced"
    /\ NativeChange(draftNative) /\ Run(1)
    /\ UNCHANGED <<text, textError, ask>>

RemoveNative ==
    /\ url.mode = "visual" /\ ~url.native.blank
    /\ NativeChange(NoNative) /\ NoRun
    /\ UNCHANGED <<text, textError, ask>>

\* The Run button; with an empty input, commitText has run the query already.
PressRun ==
    /\ IF url.mode = "advanced" /\ draftNative # url.native
       THEN NativeChange(draftNative) /\ Run(1) /\ UNCHANGED <<text, textError>>
       ELSE IF text = NoText
       THEN /\ Run(2) /\ editing' = NotEditing /\ UNCHANGED <<url, text, textError, draftNative, wanted>>
       ELSE CommitText /\ Run(1)
    /\ UNCHANGED ask

\* native_compiled: what /query/validate makes of the filter and the LogsQL text.
Compiled(filter, native) ==
    [blank |-> FALSE, sel |-> Meaning(filter) \cap native.sel, pipes |-> native.pipes, bad |-> FALSE]

EditAsLogsQL ==
    /\ url.mode = "visual" /\ Terms # <<>> /\ ~url.native.bad
    /\ LET native == Compiled(Filter, url.native)
       IN  /\ url' = [url EXCEPT !.native = native, !.q = EncodeFilter(Everything), !.mode = "advanced"]
           /\ draftNative' = Draft(native)
    /\ editing' = NotEditing
    /\ NoRun /\ UNCHANGED <<text, textError, ask, wanted>>

-----------------------------------------------------------------------------
(***************************************************************************)
(* The assistant: AskPanel.  It proposes; the button runs.                 *)
(***************************************************************************)

Ask ==
    /\ NothingHalfDone /\ ask.step # "asked" /\ ask' = [step |-> "asked", answer |-> NoProposal]
    /\ editing' = NotEditing /\ UNCHANGED <<url, runId, text, textError, draftNative, wanted>>

AskAnswered(a) ==
    /\ ask.step = "asked" /\ ask' = [step |-> "answered", answer |-> a]
    /\ UNCHANGED <<url, runId, text, textError, editing, draftNative, wanted>>

\* Also the next question clears the answer, and a refused one leaves none.
DismissProposal ==
    /\ ask.answer # NoProposal /\ ask' = [ask EXCEPT !.answer = NoProposal]
    /\ UNCHANGED <<url, runId, text, textError, editing, draftNative, wanted>>

\* Closing the panel, also over an answer that is still to come.
CloseAsk ==
    /\ ask # NoQuestion /\ ask' = NoQuestion
    /\ UNCHANGED <<url, runId, text, textError, editing, draftNative, wanted>>

\* proposalPatch.
ProposalPatch(p) ==
    [url EXCEPT !.q = EncodeFilter(p.filter), !.from = p.from, !.to = p.to,
                !.mode = "visual", !.native = NoNative]

RunProposal ==
    /\ ask.step = "answered" /\ ask.answer \in Proposals
    /\ url' = ProposalPatch(ask.answer)
    /\ draftNative' = Draft(url'.native) /\ editing' = NotEditing
    /\ wanted' = Meaning(ask.answer.filter)
    /\ Run(1) /\ UNCHANGED <<text, textError, ask>>

-----------------------------------------------------------------------------
BarInit ==
    /\ runId = 0
    /\ text = NoText /\ textError = FALSE /\ editing = NotEditing
    /\ draftNative = url.native /\ ask = NoQuestion
    /\ wanted = AllOf(Terms, url.native)

\* Typing and what the assistant answers; none of it changes the query.
BarTyping ==
    \/ \E t \in Typed : TypeText(t) \/ WriteForm(t)
    \/ \E i \in 1 .. Len(Terms) + 1 : OpenForm(i)
    \/ \E input \in FormInputs : FillForm(input)
    \/ SwitchTab \/ CancelForm
    \/ \E n \in Natives : TypeNative(n)
    \/ \E a \in Proposals \cup {Declined, NoProposal} : AskAnswered(a)
    \/ DismissProposal \/ CloseAsk

BarEdit ==
    \/ PressEnter \/ Backspace \/ PressRun
    \/ \E i \in DOMAIN Terms : NegateChip(i) \/ RemoveChip(i)
    \/ SubmitForm
    \/ \E m \in {"visual", "advanced"} : SetMode(m)
    \/ RunEditor \/ RemoveNative \/ EditAsLogsQL
    \/ Ask \/ RunProposal

-----------------------------------------------------------------------------
(***************************************************************************)
(* Properties.                                                             *)
(***************************************************************************)

\* The query in the URL selects what its author asked for: whatever was typed,
\* clicked, negated, removed, edited in the form or proposed, it survives the
\* way through the filter text and back (formatFilter, parseFilter).
QueryIsWhatWasAsked ==
    Decoded(url.q).ok => AllOf(Terms, url.native) = wanted
=============================================================================
