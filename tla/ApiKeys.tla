------------------------------ MODULE ApiKeys ------------------------------
(***************************************************************************)
(* The API keys page of the web client (features/settings/ApiKeysPage):    *)
(* the dialog that creates a key and shows its secret, and the one that    *)
(* revokes a key.  The server returns the secret once, in its answer.      *)
(***************************************************************************)
EXTENDS Naturals, Sequences, FiniteSets, QueryCache

CONSTANTS
    Scopes,           \* scopes that can be ticked; the first one offered is "ingest"
    MaxKeyCalls,      \* bound: calls
    MaxKeyDialogs,    \* bound: dialogs opened
    MaxTicks          \* bound: edits of the form

VARIABLES
    stored,           \* the keys at the server
    keys,             \* the query of the list
    keyDialog,           \* [open, name, scopes, secret, error]
    confirming,       \* the key about to be revoked, 0 for none
    keyCalls,         \* the calls: a created key has the number of its call
    onScreen,         \* ghost: the secrets that have been on the screen
    closedOn,         \* ghost: the calls answered while the dialog was closed
    overtakenKeys,    \* ghost: the list was read before a change that joined its first read
    keyDialogs, ticks    \* ghost: the bounds

keyVars == <<stored, keys, keyDialog, confirming, keyCalls, onScreen, closedOn,
             overtakenKeys, keyDialogs, ticks>>

FirstKey == MaxKeyCalls + 1      \* a key that exists from the start
FreshDialog == [open |-> TRUE, name |-> "", scopes |-> {"ingest"}, secret |-> 0, error |-> FALSE]

KeysInit ==
    /\ stored = {FirstKey}
    /\ keys = [EmptyEntry EXCEPT !.fetch = Asked]
    /\ keyDialog = [FreshDialog EXCEPT !.open = FALSE] /\ confirming = 0
    /\ keyCalls = <<>> /\ onScreen = {} /\ closedOn = {} /\ overtakenKeys = FALSE /\ keyDialogs = 0 /\ ticks = 0

KeyRows == [version |-> 1, rows |-> stored]

\* What is on the screen after a step.
SecretsShown(d) == onScreen' = onScreen \cup (IF d.open /\ d.secret # 0 THEN {d.secret} ELSE {})

\* "Create API key": everything is reset.  The dialogs are modal.
OpenKeyDialog ==
    /\ ~keyDialog.open /\ confirming = 0 /\ keyDialogs < MaxKeyDialogs /\ keyDialogs' = keyDialogs + 1
    /\ keyDialog' = FreshDialog
    /\ UNCHANGED <<stored, keys, confirming, keyCalls, onScreen, closedOn, overtakenKeys, ticks>>

TypeKey ==
    /\ keyDialog.open /\ keyDialog.secret = 0 /\ ticks < MaxTicks /\ ticks' = ticks + 1
    /\ \/ keyDialog.name = "" /\ keyDialog' = [keyDialog EXCEPT !.name = "k"]
       \/ \E s \in Scopes : keyDialog' = [keyDialog EXCEPT !.scopes = (@ \ {s}) \cup ({s} \ @)]
    /\ UNCHANGED <<stored, keys, confirming, keyCalls, onScreen, closedOn, overtakenKeys, keyDialogs>>

\* Cancel, Done and Escape only close the dialog.
CloseKeyDialog ==
    /\ keyDialog.open /\ keyDialog' = [keyDialog EXCEPT !.open = FALSE]
    /\ UNCHANGED <<stored, keys, confirming, keyCalls, onScreen, closedOn, overtakenKeys, keyDialogs, ticks>>

KeyPending(op) == \E i \in DOMAIN keyCalls :
    keyCalls[i].op = op /\ keyCalls[i].live /\ keyCalls[i].answer \notin {"done", "unheard"}

\* mutate: an observer calls back for its latest call only.
CallKeys(op, key) ==
    /\ Len(keyCalls) < MaxKeyCalls
    /\ keyCalls' = Append([i \in DOMAIN keyCalls |->
                              [keyCalls[i] EXCEPT !.live = @ /\ keyCalls[i].op # op]],
                          [op |-> op, key |-> key, live |-> TRUE, answer |-> "none"])

\* The button of the form is disabled while a creation is on its way.
MayCreate == ~KeyPending("create")

CreateKey ==
    /\ keyDialog.open /\ keyDialog.secret = 0 /\ MayCreate
    /\ IF keyDialog.name = "" \/ keyDialog.scopes = {}
       THEN /\ ~keyDialog.error /\ keyDialog' = [keyDialog EXCEPT !.error = TRUE] /\ UNCHANGED keyCalls
       ELSE /\ keyDialog' = [keyDialog EXCEPT !.error = FALSE]
            /\ CallKeys("create", Len(keyCalls) + 1)
    /\ UNCHANGED <<stored, keys, confirming, onScreen, closedOn, overtakenKeys, keyDialogs, ticks>>

AskRevoke ==
    /\ ~keyDialog.open /\ confirming = 0 /\ keyDialogs < MaxKeyDialogs /\ keyDialogs' = keyDialogs + 1
    /\ keys.data # NoData /\ \E k \in keys.data.rows : confirming' = k
    /\ UNCHANGED <<stored, keys, keyDialog, keyCalls, onScreen, closedOn, overtakenKeys, ticks>>

RevokeKey ==
    /\ confirming # 0 /\ ~KeyPending("revoke")
    /\ CallKeys("revoke", confirming)
    /\ UNCHANGED <<stored, keys, keyDialog, confirming, onScreen, closedOn, overtakenKeys, keyDialogs, ticks>>

CancelRevoke ==
    /\ confirming # 0 /\ confirming' = 0
    /\ UNCHANGED <<stored, keys, keyDialog, keyCalls, onScreen, closedOn, overtakenKeys, keyDialogs, ticks>>

\* A call is taken, and its answer may be lost; or it is refused or never comes.
ServeKey(i) ==
    LET c == keyCalls[i] IN
    /\ c.answer = "none"
    /\ \/ /\ c.op = "revoke" => c.key \in stored
          /\ stored' = IF c.op = "create" THEN stored \cup {c.key} ELSE stored \ {c.key}
          /\ \E a \in {"ok", "lost"} : keyCalls' = [keyCalls EXCEPT ![i].answer = a]
       \/ stored' = stored /\ keyCalls' = [keyCalls EXCEPT ![i].answer = "refused"]
    /\ UNCHANGED <<keys, keyDialog, confirming, onScreen, closedOn, overtakenKeys, keyDialogs, ticks>>

\* onSuccess of the hook returns the promise of the list it invalidates, so the
\* call is pending until the list has been read.
KeyListed(i) ==
    /\ keyCalls[i].answer = "ok"
    /\ keyCalls' = [keyCalls EXCEPT ![i].answer = "listing"]
    /\ keys' = Invalidate(keys)
    /\ overtakenKeys' = IF FirstRead(keys) THEN overtakenKeys \/ Overtaken(keys) ELSE FALSE
    /\ UNCHANGED <<stored, keyDialog, confirming, onScreen, closedOn, keyDialogs, ticks>>

\* onSuccess of the page: the secret is kept whether or not the dialog is open.
KeyOk(i) ==
    LET c == keyCalls[i] IN
    /\ c.answer = "listing" /\ keys.fetch = NotAsked
    /\ keyCalls' = [keyCalls EXCEPT ![i].answer = "done"]
    /\ keyDialog' = IF c.op = "create" /\ c.live THEN [keyDialog EXCEPT !.secret = i] ELSE keyDialog
    /\ confirming' = IF c.op = "revoke" /\ c.live THEN 0 ELSE confirming
    /\ SecretsShown(keyDialog')
    /\ closedOn' = closedOn \cup (IF keyDialog.open THEN {} ELSE {i})
    /\ UNCHANGED <<stored, keys, overtakenKeys, keyDialogs, ticks>>

\* A creation that fails says so in the dialog; a revocation says nothing.
KeyRefused(i) ==
    LET c == keyCalls[i] IN
    /\ c.answer \in {"refused", "lost"}
    /\ keyCalls' = [keyCalls EXCEPT ![i].answer = IF c.answer = "lost" THEN "unheard" ELSE "done"]
    /\ keyDialog' = IF c.op = "create" /\ c.live THEN [keyDialog EXCEPT !.error = TRUE] ELSE keyDialog
    /\ UNCHANGED <<stored, keys, confirming, onScreen, closedOn, overtakenKeys, keyDialogs, ticks>>

ServeKeys ==
    /\ keys.fetch = Asked /\ keys' = AnswerFetch(keys, KeyRows)
    /\ UNCHANGED <<stored, keyDialog, confirming, keyCalls, onScreen, closedOn, overtakenKeys, keyDialogs, ticks>>

KeysArrive ==
    /\ keys.fetch.step = "answered" /\ keys' = Arrive(keys)
    /\ UNCHANGED <<stored, keyDialog, confirming, keyCalls, onScreen, closedOn, overtakenKeys, keyDialogs, ticks>>

KeysNext ==
    \/ OpenKeyDialog \/ TypeKey \/ CloseKeyDialog \/ CreateKey
    \/ AskRevoke \/ RevokeKey \/ CancelRevoke
    \/ \E i \in DOMAIN keyCalls : ServeKey(i) \/ KeyListed(i) \/ KeyOk(i) \/ KeyRefused(i)
    \/ ServeKeys \/ KeysArrive

-----------------------------------------------------------------------------
(***************************************************************************)
(* Properties.                                                             *)
(***************************************************************************)

\* The answer to a call never came, although the server had taken the call.
Unheard(c) == c.answer \in {"lost", "unheard"}

\* A key the server made is one whose secret the person has seen, unless the
\* dialog was closed before the callback or the answer was lost; until then its
\* call is kept.
SecretReachesScreen ==
    \A k \in stored \ {FirstKey} :
        \/ k \in onScreen \cup closedOn
        \/ keyCalls[k].answer \in {"ok", "listing"} /\ keyCalls[k].live
        \/ Unheard(keyCalls[k])

\* When no read is on its way, a key that is listed and not stored, or stored and
\* not listed, is the key of a call whose answer has not come, or never will: a
\* revoked key is not listed because an older answer came later.  The exception
\* is a change made while the list was being read for the first time.
KeysListedTruly ==
    keys.fetch = NotAsked /\ keys.data # NoData /\ ~overtakenKeys =>
        \A k \in (keys.data.rows \ stored) \cup (stored \ keys.data.rows) :
            \E i \in DOMAIN keyCalls :
                keyCalls[i].key = k /\ (keyCalls[i].answer = "ok" \/ Unheard(keyCalls[i]))
=============================================================================
