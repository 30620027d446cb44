----------------------------- MODULE WebSession -----------------------------
(***************************************************************************)
(* The session of the web client, in one browser tab: the guard of the     *)
(* router, the login and password pages, logging out, the handler of 401,  *)
(* the CSRF token and the two things the cache holds for a user: the       *)
(* session itself and what the current page has read.                      *)
(*                                                                         *)
(* A session is a number; its cookie and its CSRF token are called by it.  *)
(* Reads of a page are aborted when the page goes; the read of the session *)
(* is not, and when it is dropped its answer still reaches fetchSession.   *)
(***************************************************************************)
EXTENDS Naturals, Sequences, FiniteSets

CONSTANTS
    People,           \* accounts
    FirstUser,        \* the account that may have a session at first
    MaxMoves,         \* bound: things the person does
    MaxFaults,        \* bound: sessions that end, answers that are lost
    MaxStale          \* bound: reads of the session that nobody asked for

VARIABLES
    sessions,         \* the sessions at the server, in order: [user, alive]
    forced,           \* the accounts that must change their password
    cookie,           \* the session of the browser, 0 for none
    csrf,             \* csrfToken, 0 for null
    me,               \* the query of the session: [data, fetch]
    dropped,          \* reads of the session that were dropped on their way
    rows,             \* what the page reads: [owner, fetch, poll]; poll is the top bar's read
    loc, going,       \* where the person is; a navigation that waits
    next,             \* the search parameter of the login page
    calls,            \* login, logout, change -> the mutation
    leaving,          \* the timer of the password page
    from,             \* ghost: where the last 401 took the person from
    unread,           \* ghost: the session could not be read after a change
    holders,          \* ghost: whose tab it was since the cache was last emptied
    moves, faults, stale   \* ghost: the bounds

sessionVars == <<sessions, forced, cookie, csrf, me, dropped, rows, loc, going, next, calls,
                 leaving, from, unread, holders, moves, faults, stale>>

Nowhere == "nowhere"
Pages == {"dashboard", "logs", "password"}

NoSession == [id |-> 0, user |-> "nobody", must |-> FALSE]
Idle == [step |-> "idle", sess |-> 0, answer |-> NoSession]
NoRows == [owner |-> "nobody", fetch |-> Idle, poll |-> Idle]
NoCall == [step |-> "idle", sess |-> 0, csrf |-> 0, user |-> "nobody", live |-> FALSE]
NoCache == [data |-> NoSession, fetch |-> Idle]

Alive(s) == s # 0 /\ sessions[s].alive
Ask(s) == [Idle EXCEPT !.step = "asked", !.sess = s]

\* Whose tab it is when the cache is emptied: the account of the cookie.
StillHolding == {sessions[s].user : s \in {t \in {cookie} : Alive(t)}}

\* The tab is opened on a page; beforeLoad waits for the session.
SessionInit ==
    /\ sessions \in {<<>>, <<[user |-> FirstUser, alive |-> TRUE]>>}
    /\ forced \in {{}, {FirstUser}} /\ cookie = Len(sessions) /\ csrf = 0
    /\ me = [NoCache EXCEPT !.fetch = Ask(cookie)] /\ dropped = {} /\ rows = NoRows
    /\ loc = "boot" /\ going = "logs" /\ next = Nowhere
    /\ calls = [op \in {"login", "logout", "change"} |-> NoCall]
    /\ leaving = FALSE /\ from = Nowhere /\ unread = FALSE /\ holders = StillHolding
    /\ moves = 0 /\ faults = 0 /\ stale = 0

-----------------------------------------------------------------------------
(***************************************************************************)
(* Where a navigation ends, and what it mounts.                            *)
(***************************************************************************)

\* beforeLoad of the app.
Admitted(session, page) == IF session.must THEN "password" ELSE page

\* The queries of a page: cached rows are shown, and read again only when they
\* are stale, which those of the explorer never are.  The password page has none.
Mounted(page, r, s) ==
    IF page = "password" THEN {r}
    ELSE {[r EXCEPT !.fetch = Ask(s)]} \cup {q \in {r} : r.owner # "nobody"}

\* A page goes; with the last one the top bar goes too.
Unmounted(r) == [r EXCEPT !.fetch = Idle]
Left(r) == [r EXCEPT !.fetch = Idle, !.poll = Idle]

\* The callbacks given to mutate go with the component that gave them.
StaysAt(op, page) == CASE op = "login" -> page = "login"
                       [] op = "change" -> page = "password"
                       [] op = "logout" -> page \in Pages
LeaveTo(page, cs) == [op \in DOMAIN cs |-> [cs[op] EXCEPT !.live = @ /\ StaysAt(op, page)]]

\* navigate: requireSession is content with a cached session, however old.
Go(page, session, cache, cs, r, s) ==
    IF session = NoSession
    THEN /\ going' = page /\ me' = [cache EXCEPT !.fetch = IF @ = Idle THEN Ask(s) ELSE @]
         /\ calls' = cs /\ rows' = r /\ UNCHANGED <<loc, next>>
    ELSE /\ loc' = Admitted(session, page) /\ going' = Nowhere /\ next' = Nowhere
         /\ me' = cache /\ calls' = LeaveTo(loc', cs) /\ rows' \in Mounted(loc', r, s)

\* queryClient.clear(), or a newer read: the one on its way goes on without its
\* query.
Dropped == IF me.fetch = Idle THEN dropped ELSE dropped \cup {me.fetch}

ClearedKeepsRows(r) == Left(r)          \* mutant: only the session is removed
Cleared(r) == NoRows

\* Whoever waits for the read that is dropped goes on.
Resolved(cs) == [cs EXCEPT !["change"].step = IF @ = "reading" THEN "read" ELSE @]

AlreadyAtLoginNever(l) == FALSE         \* mutant: the handler runs at /login too
AlreadyAtLogin(l) == l = "login"

\* The location of the router is where a navigation that waits is going.
Here == IF going # Nowhere THEN going ELSE loc

\* onUnauthorized.
Unauthorized(cs, reads) ==
    IF AlreadyAtLogin(Here)
    THEN calls' = cs /\ dropped' = reads /\ UNCHANGED <<csrf, me, rows, loc, going, next, from, holders>>
    ELSE /\ csrf' = 0 /\ me' = NoCache /\ rows' = Cleared(rows)
         /\ dropped' = reads \cup {f \in {me.fetch} : f.step = "asked"}
         /\ loc' = "login" /\ going' = Nowhere /\ next' = Here
         /\ from' = IF Here = "login" THEN from ELSE Here
         /\ calls' = LeaveTo("login", Resolved(cs)) /\ holders' = StillHolding

-----------------------------------------------------------------------------
(***************************************************************************)
(* The person.                                                             *)
(***************************************************************************)

\* The sidebar, the palette and the keys lead anywhere.
Visit ==
    /\ loc \in Pages /\ moves < MaxMoves /\ moves' = moves + 1
    /\ \E p \in Pages \ {loc} : Go(p, me.data, me, calls, Unmounted(rows), cookie)
    /\ UNCHANGED <<sessions, forced, cookie, csrf, dropped, leaving, from, unread, holders, faults, stale>>

\* The browser's Back: to the login page, or from it to a page.
BackToLogin ==
    /\ loc \in Pages /\ moves < MaxMoves /\ moves' = moves + 1
    /\ loc' = "login" /\ next' = Nowhere /\ from' = Nowhere /\ rows' = Left(rows)
    /\ calls' = LeaveTo("login", calls)
    /\ UNCHANGED <<sessions, forced, cookie, csrf, me, dropped, going, leaving, unread, holders, faults, stale>>

BackToPage ==
    /\ loc = "login" /\ going = Nowhere /\ moves < MaxMoves /\ moves' = moves + 1
    /\ from' = Nowhere
    /\ Go("logs", me.data, me, calls, rows, cookie)
    /\ UNCHANGED <<sessions, forced, cookie, csrf, dropped, leaving, unread, holders, faults, stale>>

\* The page is loaded again, also the error page of the router; calls that are
\* on their way are waited for.
Reload ==
    /\ loc \in Pages \cup {"error"} /\ moves < MaxMoves /\ moves' = moves + 1
    /\ \A op \in DOMAIN calls : calls[op].step = "idle"
    /\ loc' = "boot" /\ going' = Here /\ next' = Nowhere /\ csrf' = 0 /\ leaving' = FALSE
    /\ me' = [NoCache EXCEPT !.fetch = Ask(cookie)] /\ dropped' = {} /\ rows' = NoRows
    /\ holders' = StillHolding
    /\ UNCHANGED <<sessions, forced, cookie, calls, from, unread, faults, stale>>

\* One call of each kind is followed at a time.
Send(op, user) == [calls EXCEPT ![op] =
    [step |-> "sent", sess |-> cookie, csrf |-> csrf, user |-> user, live |-> TRUE]]

SubmitLogin ==
    /\ moves < MaxMoves /\ moves' = moves + 1
    /\ loc = "login" /\ calls["login"].step = "idle"
    /\ \E u \in People : calls' = Send("login", u)
    /\ UNCHANGED <<sessions, forced, cookie, csrf, me, dropped, rows, loc, going, next, leaving,
                   from, unread, holders, faults, stale>>

LogOut ==
    /\ moves < MaxMoves /\ moves' = moves + 1
    /\ loc \in Pages /\ calls["logout"].step = "idle"
    /\ calls' = Send("logout", "nobody")
    /\ UNCHANGED <<sessions, forced, cookie, csrf, me, dropped, rows, loc, going, next, leaving,
                   from, unread, holders, faults, stale>>

\* onSubmit of the password page, once the new password is valid.
ChangePassword ==
    /\ moves < MaxMoves /\ moves' = moves + 1
    /\ loc = "password" /\ calls["change"].step = "idle" /\ ~leaving
    /\ calls' = Send("change", "nobody")
    /\ UNCHANGED <<sessions, forced, cookie, csrf, me, dropped, rows, loc, going, next, leaving,
                   from, unread, holders, faults, stale>>

\* The timer of the password page survives the page.
LeavePassword ==
    /\ leaving /\ leaving' = FALSE
    /\ Go("dashboard", me.data, me, calls, Unmounted(rows), cookie)
    /\ UNCHANGED <<sessions, forced, cookie, csrf, dropped, from, unread, holders, moves, faults, stale>>

-----------------------------------------------------------------------------
(***************************************************************************)
(* The server, and what may go wrong on the way.                           *)
(***************************************************************************)

Seen(s) == IF Alive(s) THEN [id |-> s, user |-> sessions[s].user, must |-> sessions[s].user \in forced]
           ELSE NoSession

Answer(f) == [f EXCEPT !.step = "answered", !.answer = Seen(f.sess)]

ServeMe ==
    /\ \/ me.fetch.step = "asked" /\ me' = [me EXCEPT !.fetch = Answer(@)] /\ UNCHANGED dropped
       \/ \E f \in dropped : f.step = "asked" /\ dropped' = (dropped \ {f}) \cup {Answer(f)} /\ UNCHANGED me
    /\ UNCHANGED <<sessions, forced, cookie, csrf, rows, loc, going, next, calls, leaving, from, unread, holders,
                   moves, faults, stale>>

\* A call needs its session and, but for login, the session's CSRF token.
Verdict(op, c) ==
    IF op = "login" THEN {"ok", "wrong"}
    ELSE IF ~Alive(c.sess) THEN {"unauthorized"}
    ELSE IF c.csrf # c.sess THEN {"forbidden"}
    ELSE IF op = "logout" THEN {"ok"} ELSE {"ok", "wrong"}

ServeCall(op) ==
    LET c == calls[op] IN
    /\ c.step = "sent"
    /\ \E v \in Verdict(op, c) :
          /\ calls' = [calls EXCEPT ![op].step = v]
          /\ sessions' = IF v # "ok" THEN sessions
                         ELSE CASE op = "login" -> Append(sessions, [user |-> c.user, alive |-> TRUE])
                                [] op = "logout" -> [sessions EXCEPT ![c.sess].alive = FALSE]
                                [] op = "change" -> sessions
          /\ forced' = IF v = "ok" /\ op = "change" THEN forced \ {sessions[c.sess].user} ELSE forced
    /\ UNCHANGED <<cookie, csrf, me, dropped, rows, loc, going, next, leaving, from, unread, holders, moves, faults, stale>>

\* A session expires or is revoked.
EndSession ==
    /\ faults < MaxFaults /\ faults' = faults + 1
    /\ \E s \in DOMAIN sessions : sessions[s].alive /\ sessions' = [sessions EXCEPT ![s].alive = FALSE]
    /\ UNCHANGED <<forced, cookie, csrf, me, dropped, rows, loc, going, next, calls, leaving, from,
                   unread, holders, moves, stale>>

\* The network or the server fails, also after what was asked was done.  A navigation that waits for the session ends
\* at the error page of the router.
LoseAnswer ==
    /\ faults < MaxFaults /\ faults' = faults + 1
    /\ \/ /\ me.fetch # Idle /\ me' = [me EXCEPT !.fetch = Idle]
          /\ unread' = (unread \/ calls["change"].step = "reading")
          /\ IF going # Nowhere
             THEN loc' = "error" /\ rows' = Left(rows) /\ calls' = LeaveTo("error", Resolved(calls))
             ELSE calls' = Resolved(calls) /\ UNCHANGED <<loc, rows>>
       \/ rows.fetch # Idle /\ rows' = [rows EXCEPT !.fetch = Idle]
          /\ UNCHANGED <<me, calls, unread, loc>>
       \/ rows.poll # Idle /\ rows' = [rows EXCEPT !.poll = Idle]
          /\ UNCHANGED <<me, calls, unread, loc>>
       \/ \E op \in DOMAIN calls : calls[op].step \in {"sent", "ok"} /\ calls' = [calls EXCEPT ![op].step = "lost"]
          /\ UNCHANGED <<me, rows, unread, loc>>
    /\ UNCHANGED <<sessions, forced, cookie, csrf, dropped, going, next, leaving, from, holders, moves, stale>>

-----------------------------------------------------------------------------
(***************************************************************************)
(* What the answers do.                                                    *)
(***************************************************************************)

\* /auth/me: every answer sets the CSRF token; a 401 goes to the handler, then
\* to the navigation that waits.
MeArrives ==
    LET s == me.fetch.answer IN
    /\ me.fetch.step = "answered"
    /\ IF s = NoSession THEN Unauthorized(calls, dropped)
       ELSE /\ csrf' = s.id /\ UNCHANGED <<dropped, from, holders>>
            /\ IF going # Nowhere
               THEN Go(going, s, [data |-> s, fetch |-> Idle], Resolved(calls), rows, cookie)
               ELSE /\ me' = [data |-> s, fetch |-> Idle] /\ calls' = Resolved(calls)
                    /\ UNCHANGED <<rows, loc, going, next>>
    /\ UNCHANGED <<sessions, forced, cookie, leaving, unread, moves, faults, stale>>

\* A dropped read of the session still sets the token, or ends the session.
LateMeArrives ==
    \E f \in dropped :
        /\ f.step = "answered"
        /\ IF f.answer = NoSession THEN Unauthorized(calls, dropped \ {f})
           ELSE /\ csrf' = f.answer.id /\ dropped' = dropped \ {f}
                /\ UNCHANGED <<me, rows, loc, going, next, calls, from, holders>>
        /\ UNCHANGED <<sessions, forced, cookie, leaving, unread, moves, faults, stale>>

\* The rows are answered and arrive in one step.
RowsArrive ==
    /\ rows.fetch # Idle
    /\ IF ~Alive(rows.fetch.sess) THEN Unauthorized(calls, dropped)
       ELSE /\ rows' = [rows EXCEPT !.owner = sessions[rows.fetch.sess].user, !.fetch = Idle]
            /\ UNCHANGED <<csrf, me, dropped, loc, going, next, calls, from, holders>>
    /\ UNCHANGED <<sessions, forced, cookie, leaving, unread, moves, faults, stale>>

\* The ingest rate is in the top bar of whoever may view the system: every role
\* may, but nobody who must change the password.
Watching == me.data # NoSession /\ ~me.data.must

\* refetchInterval of the ingest rate.
PollRate ==
    /\ loc \in Pages /\ Watching /\ rows.poll = Idle
    /\ rows' = [rows EXCEPT !.poll = Ask(cookie)]
    /\ UNCHANGED <<sessions, forced, cookie, csrf, me, dropped, loc, going, next, calls, leaving, from,
                   unread, holders, moves, faults, stale>>

\* The rate is everybody's; a 401 ends the session.
RateArrives ==
    /\ rows.poll # Idle
    /\ IF ~Alive(rows.poll.sess) THEN Unauthorized(calls, dropped)
       ELSE /\ rows' = [rows EXCEPT !.poll = Idle]
            /\ UNCHANGED <<csrf, me, dropped, loc, going, next, calls, from, holders>>
    /\ UNCHANGED <<sessions, forced, cookie, leaving, unread, moves, faults, stale>>

\* A component that shows the session is mounted when it is stale.
StaleMe ==
    /\ loc \in Pages /\ me.fetch = Idle /\ stale < MaxStale /\ stale' = stale + 1
    /\ me' = [me EXCEPT !.fetch = Ask(cookie)]
    /\ UNCHANGED <<sessions, forced, cookie, csrf, dropped, rows, loc, going, next, calls, leaving, from,
                   unread, holders, moves, faults>>

\* onSuccess of login: the cookie is set with the answer, and the session in the
\* cache, of which nothing else is removed; then the page goes on, if it is still
\* there.
LoginDone ==
    LET c == calls["login"]
        s == [id |-> Len(sessions), user |-> c.user, must |-> c.user \in forced]
        cs == [calls EXCEPT !["login"] = NoCall]
        cache == [me EXCEPT !.data = s] IN
    /\ c.step \in {"ok", "wrong", "lost"}
    /\ IF c.step = "ok"
       THEN /\ cookie' = s.id /\ csrf' = s.id
            /\ IF c.live THEN Go(IF s.must THEN "password" ELSE IF next \in Pages THEN next ELSE "dashboard",
                                 s, cache, cs, rows, s.id)
               ELSE me' = cache /\ calls' = cs /\ UNCHANGED <<rows, loc, going, next>>
       ELSE calls' = cs /\ UNCHANGED <<cookie, csrf, me, rows, loc, going, next>>
    /\ holders' = IF c.step = "ok" THEN holders \cup {c.user} ELSE holders
    /\ UNCHANGED <<sessions, forced, dropped, leaving, from, unread, moves, faults, stale>>

\* onSettled of logout, whatever was answered: the hook clears the cache, the top
\* bar, if it is still there, goes to the login page.  The cookie stays: the one
\* the server sends back has no name.
LogoutDone ==
    LET c == calls["logout"]
        cs == Resolved([calls EXCEPT !["logout"] = NoCall]) IN
    /\ c.step \in {"ok", "unauthorized", "forbidden", "lost"}
    /\ csrf' = 0 /\ me' = NoCache /\ dropped' = Dropped /\ rows' = Cleared(rows)
    /\ holders' = StillHolding
    /\ IF c.live
       THEN /\ loc' = "login" /\ going' = Nowhere /\ next' = Nowhere /\ from' = Nowhere
            /\ calls' = LeaveTo("login", cs)
       ELSE calls' = cs /\ UNCHANGED <<loc, going, next, from>>
    /\ UNCHANGED <<sessions, forced, cookie, leaving, unread, moves, faults, stale>>

InvalidateUnread(c) == [c EXCEPT !.step = "read"]     \* mutant: nobody waits for the session

\* onSuccess of the hook waits until the session was read again.
AfterChange(c) == [c EXCEPT !.step = "reading"]

ChangeDone ==
    LET c == calls["change"] IN
    /\ c.step \in {"ok", "wrong", "lost", "unauthorized", "forbidden"}
    /\ CASE c.step = "ok" ->
              /\ calls' = [calls EXCEPT !["change"] =
                              IF loc \in Pages THEN AfterChange(c) ELSE [c EXCEPT !.step = "read"]]
              /\ IF loc \in Pages
                 THEN dropped' = Dropped /\ me' = [me EXCEPT !.fetch = Ask(cookie)]
                 ELSE UNCHANGED <<dropped, me>>
              /\ UNCHANGED <<csrf, rows, loc, going, next, from, holders>>
         [] c.step = "unauthorized" -> Unauthorized([calls EXCEPT !["change"] = NoCall], dropped)
         [] OTHER -> /\ calls' = [calls EXCEPT !["change"] = NoCall]
                     /\ UNCHANGED <<csrf, me, dropped, rows, loc, going, next, from, holders>>
    /\ UNCHANGED <<sessions, forced, cookie, leaving, unread, moves, faults, stale>>

\* onSuccess of the page: the timer.
ChangeSettled ==
    /\ calls["change"].step = "read"
    /\ leaving' = (leaving \/ calls["change"].live)
    /\ calls' = [calls EXCEPT !["change"] = NoCall]
    /\ UNCHANGED <<sessions, forced, cookie, csrf, me, dropped, rows, loc, going, next, from, unread, holders,
                   moves, faults, stale>>

SessionNext ==
    \/ Visit \/ BackToLogin \/ BackToPage \/ Reload \/ SubmitLogin \/ LogOut \/ ChangePassword \/ LeavePassword
    \/ ServeMe \/ EndSession \/ LoseAnswer
    \/ \E op \in DOMAIN calls : ServeCall(op)
    \/ MeArrives \/ LateMeArrives \/ RowsArrive \/ PollRate \/ RateArrives \/ StaleMe
    \/ LoginDone \/ LogoutDone \/ ChangeDone \/ ChangeSettled

\* What is asked is answered, polls and timers fire; the person may stop.
SessionFairness ==
    /\ WF_sessionVars(ServeMe) /\ WF_sessionVars(\E op \in DOMAIN calls : ServeCall(op))
    /\ WF_sessionVars(MeArrives) /\ WF_sessionVars(LateMeArrives) /\ WF_sessionVars(RowsArrive)
    /\ WF_sessionVars(PollRate) /\ WF_sessionVars(RateArrives) /\ WF_sessionVars(LoginDone) /\ WF_sessionVars(LogoutDone)
    /\ WF_sessionVars(ChangeDone) /\ WF_sessionVars(ChangeSettled) /\ WF_sessionVars(LeavePassword)

SessionSpec == SessionInit /\ [][SessionNext]_sessionVars /\ SessionFairness

-----------------------------------------------------------------------------
(***************************************************************************)
(* Properties.                                                             *)
(***************************************************************************)

\* The rows and the session in the cache were read by an account that has had the
\* tab since the last logout, 401 or reload: nothing of before is left, and no
\* answer that was on its way gets in.  Whoever logs in after a logout or a 401 is
\* therefore shown nothing of anybody else.  A login over a session that was not
\* ended keeps what that one has read: useLogin empties nothing.
NothingLeftBehind ==
    /\ rows.owner # "nobody" => rows.owner \in holders
    /\ me.data # NoSession => me.data.user \in holders

\* Logging in after a 401 leads back to the page the 401 came from, also when
\* several calls are answered 401 one after the other.
ReturnsToPage ==
    [][from # Nowhere /\ calls["login"].live /\ calls["login"].step = "ok" /\ calls'["login"] = NoCall
        => loc' = Admitted(me'.data, from)]_sessionVars

\* Whoever holds a session that has ended gets to the login page by itself, if
\* the top bar polls: it does not while the password must be changed.
EndedSessionIsNoticed ==
    (loc \in Pages /\ Watching /\ ~Alive(cookie)) ~> (loc = "login" \/ Alive(cookie) \/ ~Watching)

\* Whoever has changed the password gets out of the password page: its timer
\* does not fire before the session was read again, and is not sent back by a
\* session that still says the password must be changed, unless that could not
\* be read.
ChangeGetsThrough ==
    (loc = "password" /\ leaving) ~>
        (loc # "password" \/ unread \/ (cookie # 0 /\ sessions[cookie].user \in forced))

\* No page is a dead end.
NobodyIsStuck == EndedSessionIsNoticed /\ ChangeGetsThrough
=============================================================================
