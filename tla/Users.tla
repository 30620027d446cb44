------------------------------- MODULE Users -------------------------------
(***************************************************************************)
(* The users page of the web client (features/users): the dialog that      *)
(* creates a user, the one that edits a user, the confirmations, and       *)
(* another administrator at work.  Users have no version: an update sends  *)
(* the role and the switch when they were changed, and the server writes   *)
(* back what it read of the others.                                        *)
(*                                                                         *)
(* One other user is followed, and the person's own account.  A user is    *)
(* [name, role, disabled, password]; a password is who set it.             *)
(***************************************************************************)
EXTENDS Naturals, Sequences, FiniteSets, QueryCache

CONSTANTS
    Names,            \* display names that may be typed
    Roles,            \* roles that may be picked
    MaxUserCalls,     \* bound: calls
    MaxUserDialogs,   \* bound: dialogs opened
    MaxFills,         \* bound: times a form is filled in
    MaxAdmins         \* bound: changes by the other administrator

VARIABLES
    accounts,         \* id -> user, the accounts at the server
    users,            \* the query of the list
    creating,         \* [open, error, form]: CreateUserDialog
    editing,          \* EditUserDialog: [seen, form], or NoEditing
    asking,           \* the confirmation: [action, id]
    generated,        \* the generated passwords on the screen
    mutations,        \* the calls
    acknowledged,     \* ghost: passwords that were shown and dismissed
    overtakenUsers,   \* ghost: the list was read before a change that joined its first read
    opened, fills, admins   \* ghost: the bounds

userVars == <<accounts, users, creating, editing, asking, generated, mutations,
              acknowledged, overtakenUsers, opened, fills, admins>>

Self == "self"
Other == "u1"
Made == "u2"
Unset == "-"                \* undefined: the field is left out

NoForm == [name |-> "", role |-> "viewer", password |-> ""]
NoEditing == [id |-> "", seen |-> NoData, form |-> NoForm, disabled |-> FALSE]
NoQuestion == [action |-> "none", id |-> ""]

UsersInit ==
    /\ accounts = [u \in {Self, Other} |->
          [name |-> "n0", role |-> IF u = Self THEN "admin" ELSE "viewer",
           disabled |-> FALSE, password |-> "old"]]
    /\ users = [EmptyEntry EXCEPT !.fetch = Asked]
    /\ creating = [open |-> FALSE, error |-> FALSE, form |-> NoForm]
    /\ editing = NoEditing /\ asking = NoQuestion /\ generated = {}
    /\ mutations = <<>> /\ acknowledged = {} /\ overtakenUsers = FALSE /\ opened = 0 /\ fills = 0 /\ admins = 0

UserRows == [version |-> 1, rows |-> [u \in DOMAIN accounts |->
    [name |-> accounts[u].name, role |-> accounts[u].role, disabled |-> accounts[u].disabled]]]

ListedUsers == IF users.data = NoData THEN {} ELSE DOMAIN users.data.rows
NothingOpen == ~creating.open /\ editing = NoEditing /\ asking = NoQuestion /\ generated = {}

\* The dialogs are modal; the form of the create dialog is not reset here.
OpenCreate ==
    /\ NothingOpen /\ opened < MaxUserDialogs /\ opened' = opened + 1
    /\ creating' = [creating EXCEPT !.open = TRUE]
    /\ UNCHANGED <<accounts, users, editing, asking, generated, mutations, acknowledged, overtakenUsers, fills, admins>>

OpenEdit ==
    /\ NothingOpen /\ opened < MaxUserDialogs /\ opened' = opened + 1
    /\ \E u \in ListedUsers :
          LET row == users.data.rows[u] IN
          editing' = [id |-> u, seen |-> row, disabled |-> row.disabled,
                      form |-> [name |-> row.name, role |-> row.role, password |-> ""]]
    /\ UNCHANGED <<accounts, users, creating, asking, generated, mutations, acknowledged, overtakenUsers, fills, admins>>

\* The fields of the two dialogs; nobody changes their own role or switch.
FillIn(form, locked) ==
    {f \in [name : Names \cup {form.name}, role : Roles \cup {form.role}, password : {"", "typed"}] :
        locked => f.role = form.role} \ {form}

TypeNewUser ==
    /\ fills < MaxFills /\ fills' = fills + 1
    /\ creating.open
    /\ \E f \in FillIn(creating.form, FALSE) : creating' = [creating EXCEPT !.form = f]
    /\ UNCHANGED <<accounts, users, editing, asking, generated, mutations, acknowledged, overtakenUsers, opened, admins>>

TypeUser ==
    /\ fills < MaxFills /\ fills' = fills + 1
    /\ editing # NoEditing
    /\ \E f \in FillIn(editing.form, editing.id = Self) \cup {editing.form}, d \in BOOLEAN :
          /\ editing.id = Self => d = editing.disabled
          /\ editing' = [editing EXCEPT !.form = f, !.disabled = d] /\ editing' # editing
    /\ UNCHANGED <<accounts, users, creating, asking, generated, mutations, acknowledged, overtakenUsers, opened, admins>>

Mutate(op, id, seen, body) ==
    /\ Len(mutations) < MaxUserCalls
    /\ mutations' = Append(mutations, [op |-> op, id |-> id, seen |-> seen, body |-> body,
                                       row |-> NoData, live |-> TRUE, answer |-> "none"])

InFlight(ops) == \E i \in DOMAIN mutations :
    mutations[i].op \in ops /\ mutations[i].answer \notin {"done", "rejected", "unheard"} /\ mutations[i].live

\* onSubmit of CreateUserDialog; without a password the server makes one.
CreateUser ==
    /\ creating.open /\ ~InFlight({"create"})
    /\ IF creating.form.name = ""
       THEN /\ ~creating.error /\ creating' = [creating EXCEPT !.error = TRUE]
            /\ UNCHANGED mutations
       ELSE /\ creating' = [creating EXCEPT !.error = FALSE]
            /\ Mutate("create", Made, NoData,
                      [name |-> creating.form.name, role |-> creating.form.role, disabled |-> Unset,
                       password |-> IF creating.form.password = "" THEN Unset ELSE "typed"])
    /\ UNCHANGED <<accounts, users, editing, asking, generated, acknowledged, overtakenUsers, opened, fills, admins>>

\* role and disabled are sent only when they differ from what was opened.
Changed(new, old) == IF new = old THEN Unset ELSE new

UpdateUser ==
    /\ editing # NoEditing /\ ~InFlight({"update"})
    /\ Mutate("update", editing.id, editing.seen,
              [name |-> IF editing.form.name = "" THEN Unset ELSE editing.form.name,
               role |-> Changed(editing.form.role, editing.seen.role),
               disabled |-> Changed(IF editing.disabled THEN "yes" ELSE "no",
                                    IF editing.seen.disabled THEN "yes" ELSE "no"),
               password |-> IF editing.form.password = "" THEN Unset ELSE "typed"])
    /\ UNCHANGED <<accounts, users, creating, editing, asking, generated, acknowledged, overtakenUsers, opened, fills, admins>>

DropsCallsOnCancel(c) == [c EXCEPT !.live = FALSE]     \* mutant: the dialog is unmounted
KeepsCalls(c) == c

\* Cancel.  The create dialog stays mounted, so its call keeps its callbacks;
\* the edit dialog is gone, and so are those of its call.
CancelCreate ==
    /\ creating.open
    /\ creating' = [creating EXCEPT !.open = FALSE]
    /\ mutations' = [i \in DOMAIN mutations |->
          IF mutations[i].op = "create" THEN KeepsCalls(mutations[i]) ELSE mutations[i]]
    /\ UNCHANGED <<accounts, users, editing, asking, generated, acknowledged, overtakenUsers, opened, fills, admins>>

CancelEdit ==
    /\ editing # NoEditing /\ editing' = NoEditing
    /\ mutations' = [i \in DOMAIN mutations |->
          [mutations[i] EXCEPT !.live = @ /\ mutations[i].op # "update"]]
    /\ UNCHANGED <<accounts, users, creating, asking, generated, acknowledged, overtakenUsers, opened, fills, admins>>

AskUser ==
    /\ NothingOpen /\ opened < MaxUserDialogs /\ opened' = opened + 1
    /\ \E u \in ListedUsers, a \in {"delete", "revoke"} :
          (a = "delete" => u # Self) /\ asking' = [action |-> a, id |-> u]
    /\ UNCHANGED <<accounts, users, creating, editing, generated, mutations, acknowledged, overtakenUsers, fills, admins>>

ConfirmUser ==
    /\ asking # NoQuestion /\ ~InFlight({"delete", "revoke"})
    /\ Mutate(asking.action, asking.id, NoData,
              [name |-> Unset, role |-> Unset, disabled |-> Unset, password |-> Unset])
    /\ UNCHANGED <<accounts, users, creating, editing, asking, generated, acknowledged, overtakenUsers, opened, fills, admins>>

CancelQuestion ==
    /\ asking # NoQuestion /\ asking' = NoQuestion
    /\ UNCHANGED <<accounts, users, creating, editing, generated, mutations, acknowledged, overtakenUsers, opened, fills, admins>>

\* What the server makes of a call it accepts, other than an update.
Applied(m) ==
    CASE m.op = "create" ->
            [u \in DOMAIN accounts \cup {Made} |->
                IF u = Made
                THEN [name |-> m.body.name, role |-> m.body.role, disabled |-> FALSE,
                      password |-> IF m.body.password = Unset THEN "generated" ELSE "typed"]
                ELSE accounts[u]]
      [] m.op = "delete" -> [u \in DOMAIN accounts \ {m.id} |-> accounts[u]]
      [] m.op = "revoke" -> accounts

\* A call is taken, and its answer may be lost; or it is refused or never comes.
ServeUser(i) ==
    LET m == mutations[i]
        ok == IF m.op = "create" THEN Made \notin DOMAIN accounts ELSE m.id \in DOMAIN accounts IN
    /\ m.answer = "none"
    /\ \/ /\ m.op # "update" /\ ok /\ accounts' = Applied(m)
          /\ \E a \in {"ok", "lost"} : mutations' = [mutations EXCEPT ![i].answer = a]
       \/ accounts' = accounts /\ mutations' = [mutations EXCEPT ![i].answer = "refused"]
    /\ UNCHANGED <<users, creating, editing, asking, generated, acknowledged, overtakenUsers, opened, fills, admins>>

\* handleUpdateUser reads the account ...
ReadUser(i) ==
    LET m == mutations[i] IN
    /\ m.answer = "none" /\ m.op = "update" /\ m.id \in DOMAIN accounts
    /\ mutations' = [mutations EXCEPT ![i].answer = "read", ![i].row = accounts[m.id]]
    /\ UNCHANGED <<accounts, users, creating, editing, asking, generated, acknowledged, overtakenUsers, opened, fills, admins>>

\* What is written: name, role and switch as they were read, but for what was sent.
Written(m, password) ==
    [name |-> IF m.body.name = Unset THEN m.row.name ELSE m.body.name,
     role |-> IF m.body.role = Unset THEN m.row.role ELSE m.body.role,
     disabled |-> IF m.body.disabled = Unset THEN m.row.disabled ELSE m.body.disabled = "yes",
     password |-> password]

\* ... and writes it, without a version; then it resets the password, which may
\* fail on its own.
WriteUser(i) ==
    LET m == mutations[i] IN
    /\ m.answer = "read"
    /\ \/ /\ m.id \in DOMAIN accounts
          /\ \E reset \in {m.body.password # Unset, FALSE}, a \in {"ok", "lost"} :
                /\ a = "ok" => reset = (m.body.password # Unset)
                /\ accounts' = [accounts EXCEPT ![m.id] = Written(m, IF reset THEN "typed" ELSE @.password)]
                /\ mutations' = [mutations EXCEPT ![i].answer = a]
       \/ accounts' = accounts /\ mutations' = [mutations EXCEPT ![i].answer = "refused"]
    /\ UNCHANGED <<users, creating, editing, asking, generated, acknowledged, overtakenUsers, opened, fills, admins>>

\* onSuccess of the hook returns the promise of the list it invalidates, so the
\* call is pending until the list has been read.  Revoking sessions has no hook.
UserListed(i) ==
    LET m == mutations[i] IN
    /\ m.answer = "ok" /\ m.op # "revoke"
    /\ mutations' = [mutations EXCEPT ![i].answer = "listing"]
    /\ users' = Invalidate(users)
    /\ overtakenUsers' = IF FirstRead(users) THEN overtakenUsers \/ Overtaken(users) ELSE FALSE
    /\ UNCHANGED <<accounts, creating, editing, asking, generated, acknowledged, opened, fills, admins>>

\* onSuccess of the page.
UserOk(i) ==
    LET m == mutations[i] IN
    /\ IF m.op = "revoke" THEN m.answer = "ok" ELSE m.answer = "listing" /\ users.fetch = NotAsked
    /\ mutations' = [mutations EXCEPT ![i].answer = "done"]
    /\ creating' = IF m.op = "create" /\ m.live THEN [creating EXCEPT !.open = FALSE] ELSE creating
    /\ generated' = IF m.op = "create" /\ m.live /\ m.body.password = Unset
                    THEN {i} ELSE generated
    /\ editing' = IF m.op = "update" /\ m.live THEN NoEditing ELSE editing
    /\ asking' = IF m.op \in {"delete", "revoke"} THEN NoQuestion ELSE asking
    /\ UNCHANGED <<accounts, users, acknowledged, overtakenUsers, opened, fills, admins>>

UserRefused(i) ==
    LET m == mutations[i] IN
    /\ m.answer \in {"refused", "lost"}
    /\ mutations' = [mutations EXCEPT ![i].answer = IF m.answer = "lost" THEN "unheard" ELSE "rejected"]
    /\ creating' = IF m.op = "create" THEN [creating EXCEPT !.error = m.live] ELSE creating
    /\ asking' = IF m.op \in {"delete", "revoke"} THEN NoQuestion ELSE asking
    /\ UNCHANGED <<accounts, users, editing, generated, acknowledged, overtakenUsers, opened, fills, admins>>

DismissPassword ==
    /\ generated # {}
    /\ acknowledged' = acknowledged \cup generated /\ generated' = {}
    /\ UNCHANGED <<accounts, users, creating, editing, asking, mutations, overtakenUsers, opened, fills, admins>>

ServeUsers ==
    /\ users.fetch = Asked /\ users' = AnswerFetch(users, UserRows)
    /\ UNCHANGED <<accounts, creating, editing, asking, generated, mutations, acknowledged, overtakenUsers, opened, fills, admins>>

UsersArrive ==
    /\ users.fetch.step = "answered" /\ users' = Arrive(users)
    /\ UNCHANGED <<accounts, creating, editing, asking, generated, mutations, acknowledged, overtakenUsers, opened, fills, admins>>

\* Another administrator changes a role or the switch of the other user.
AnotherAdmin ==
    /\ Other \in DOMAIN accounts /\ admins < MaxAdmins /\ admins' = admins + 1
    /\ \/ \E r \in Roles \ {accounts[Other].role} : accounts' = [accounts EXCEPT ![Other].role = r]
       \/ accounts' = [accounts EXCEPT ![Other].disabled = ~@]
    /\ UNCHANGED <<users, creating, editing, asking, generated, mutations, acknowledged, overtakenUsers, opened, fills>>

UsersNext ==
    \/ OpenCreate \/ OpenEdit \/ TypeNewUser \/ TypeUser \/ CreateUser \/ UpdateUser
    \/ CancelCreate \/ CancelEdit \/ AskUser \/ ConfirmUser \/ CancelQuestion
    \/ \E i \in DOMAIN mutations : ServeUser(i) \/ ReadUser(i) \/ WriteUser(i)
                                    \/ UserListed(i) \/ UserOk(i) \/ UserRefused(i)
    \/ DismissPassword \/ ServeUsers \/ UsersArrive \/ AnotherAdmin

-----------------------------------------------------------------------------
(***************************************************************************)
(* Properties.                                                             *)
(***************************************************************************)

\* The account of a call was written.
Took(i) == mutations[i].answer = "read" /\ mutations'[i].answer \in {"ok", "lost"}

\* Saving the edit dialog undoes nothing that another administrator did to the
\* role or the switch since the dialog was opened, up to the moment the server
\* reads the account; what comes between that read and the write is undone.
NoStaleRevert ==
    [][\A i \in DOMAIN mutations :
          Took(i) =>
              LET u == mutations[i].id
                  m == mutations[i] IN
              /\ accounts'[u].role # m.row.role => accounts'[u].role # m.seen.role
              /\ accounts'[u].disabled # m.row.disabled => accounts'[u].disabled # m.seen.disabled]_userVars

\* A password the server generated is put on the screen and stays there until
\* it is dismissed, even when the dialog was cancelled with the call on its way.
GeneratedIsShown ==
    \A i \in DOMAIN mutations :
        /\ mutations[i].op = "create" /\ mutations[i].body.password = Unset
        /\ mutations[i].answer = "done"
        => i \in generated \cup acknowledged

\* When no read is on its way, an account that is listed and not there, or there
\* and not listed, is that of a call whose answer has not come, or never will.
\* The exception is a change made while the list was being read for the first time.
OwnChangesListed ==
    users.fetch = NotAsked /\ users.data # NoData /\ ~overtakenUsers =>
        \A u \in (DOMAIN users.data.rows \ DOMAIN accounts) \cup (DOMAIN accounts \ DOMAIN users.data.rows) :
            \E i \in DOMAIN mutations :
                /\ mutations[i].id = u /\ mutations[i].op \in {"create", "delete"}
                /\ mutations[i].answer \in {"ok", "lost", "unheard"}
=============================================================================
