-------------------------- MODULE WebSessionProofs --------------------------
(***************************************************************************)
(* Proofs about the session of the web client: a logout or a 401 leaves    *)
(* nothing behind for the next account, and logging in after a 401 leads   *)
(* back to the page it came from.                                          *)
(***************************************************************************)
EXTENDS WebSession, TLAPS

-----------------------------------------------------------------------------
(***************************************************************************)
(* The shape of the state.  n is the number of sessions there have been.   *)
(***************************************************************************)

Accounts == People \cup {FirstUser, "nobody"}
Ops == {"login", "logout", "change"}
Steps == {"idle", "sent", "ok", "wrong", "lost", "unauthorized", "forbidden", "reading", "read"}

SessionRec == [id : Nat, user : Accounts, must : BOOLEAN]
Fetches(n) == [step : {"idle", "asked", "answered"}, sess : 0..n, answer : SessionRec]
Caches(n) == [data : SessionRec, fetch : Fetches(n)]
RowSets(n) == [owner : Accounts, fetch : Fetches(n), poll : Fetches(n)]
Calls(n) == [Ops -> [step : Steps, sess : 0..n, csrf : Nat, user : Accounts, live : BOOLEAN]]

ServerTypes ==
    /\ sessions \in Seq([user : Accounts, alive : BOOLEAN])
    /\ cookie \in 0..Len(sessions) /\ csrf \in Nat

PageTypes ==
    /\ loc \in Pages \cup {"login", "boot", "error"}
    /\ going \in Pages \cup {Nowhere} /\ next \in Pages \cup {Nowhere}
    /\ from \in Pages \cup {Nowhere}
    /\ loc \in {"boot", "error"} => going # Nowhere

CacheTypes ==
    /\ me \in Caches(Len(sessions)) /\ dropped \subseteq Fetches(Len(sessions))
    /\ rows \in RowSets(Len(sessions)) /\ calls \in Calls(Len(sessions))

TypeOK == ServerTypes /\ PageTypes /\ CacheTypes

\* The records that stand for nothing, and a read that is asked.
LEMMA NothingTypes ==
  ASSUME NEW n \in Nat
  PROVE  /\ NoSession \in SessionRec /\ Idle \in Fetches(n) /\ NoRows \in RowSets(n)
         /\ NoCache \in Caches(n) /\ \A s \in 0..n : Ask(s) \in Fetches(n) /\ Ask(s) # Idle
         /\ \A s \in 0..n : Ask(s).sess = s /\ Ask(s).answer = NoSession
         /\ Idle.sess = 0 /\ Idle.answer = NoSession
<1>1. NoSession \in SessionRec
  BY DEF NoSession, SessionRec, Accounts
<1>2. 0 \in 0..n
  OBVIOUS
<1>3. Idle \in Fetches(n)
  BY <1>1, <1>2 DEF Idle, Fetches
<1>4. NoRows \in RowSets(n)
  BY <1>3 DEF NoRows, RowSets, Accounts
<1>5. NoCache \in Caches(n)
  BY <1>1, <1>3 DEF NoCache, Caches
<1>6. ASSUME NEW s \in 0..n PROVE Ask(s) \in Fetches(n) /\ Ask(s) # Idle /\ Ask(s).sess = s /\ Ask(s).answer = NoSession
  <2>2. Idle.step = "idle" /\ Idle.answer = NoSession
    BY DEF Idle
  <2>1. Ask(s) \in Fetches(n) /\ Ask(s).sess = s /\ Ask(s).step = "asked" /\ Ask(s).answer = NoSession
    BY <1>3, <2>2 DEF Ask, Fetches
  <2> QED
    BY <2>1, <2>2
<1>7. Idle.sess = 0 /\ Idle.answer = NoSession
  BY DEF Idle
<1> QED
  BY <1>1, <1>3, <1>4, <1>5, <1>6, <1>7

\* A call goes on when its page is left; its callbacks do not.
LEMMA LeaveFacts ==
  ASSUME NEW n \in Nat, NEW cs \in Calls(n), NEW page, NEW op \in Ops
  PROVE  /\ LeaveTo(page, cs)[op] \in [step : Steps, sess : 0..n, csrf : Nat, user : Accounts, live : BOOLEAN]
         /\ LeaveTo(page, cs)[op].step = cs[op].step /\ LeaveTo(page, cs)[op].user = cs[op].user
         /\ LeaveTo(page, cs)[op].live => cs[op].live /\ StaysAt(op, page)
<1>1. /\ DOMAIN cs = Ops
      /\ cs[op] \in [step : Steps, sess : 0..n, csrf : Nat, user : Accounts, live : BOOLEAN]
  BY DEF Calls
<1>2. LeaveTo(page, cs)[op] = [cs[op] EXCEPT !.live = @ /\ StaysAt(op, page)]
  BY <1>1 DEF LeaveTo
<1> QED
  BY <1>1, <1>2

\* The rows of a page that is mounted are the cached ones, read again or not.
LEMMA MountedRows ==
  ASSUME NEW n \in Nat, NEW r \in RowSets(n), NEW s \in 0..n, NEW page, NEW q \in Mounted(page, r, s)
  PROVE  q \in RowSets(n) /\ q.owner = r.owner /\ (q.fetch = Ask(s) \/ q.fetch = r.fetch)
<1>1. Ask(s) \in Fetches(n)
  BY NothingTypes
<1>2. q = r \/ q = [r EXCEPT !.fetch = Ask(s)]
  BY DEF Mounted
<1> QED
  BY <1>1, <1>2 DEF RowSets

\* Unmounting and leaving keep the shape.
LEMMA MountTypes ==
  ASSUME NEW n \in Nat, NEW r \in RowSets(n), NEW s \in 0..n, NEW cs \in Calls(n), NEW page
  PROVE  /\ Unmounted(r) \in RowSets(n) /\ Unmounted(r).fetch = Idle /\ Unmounted(r).owner = r.owner
         /\ Left(r) \in RowSets(n) /\ Left(r).fetch = Idle /\ Left(r).owner = r.owner
         /\ LeaveTo(page, cs) \in Calls(n)
         /\ \A op \in Ops : /\ LeaveTo(page, cs)[op].step = cs[op].step
                            /\ LeaveTo(page, cs)[op].live => cs[op].live /\ StaysAt(op, page)
         /\ Resolved(cs) \in Calls(n) /\ Resolved(cs)["login"] = cs["login"]
<1>1. Ask(s) \in Fetches(n) /\ Idle \in Fetches(n)
  BY NothingTypes
<1>3. /\ Unmounted(r) \in RowSets(n) /\ Unmounted(r).fetch = Idle /\ Unmounted(r).owner = r.owner
      /\ Left(r) \in RowSets(n) /\ Left(r).fetch = Idle /\ Left(r).owner = r.owner
  BY <1>1 DEF Unmounted, Left, RowSets
<1>4. ASSUME NEW op \in Ops
      PROVE  /\ LeaveTo(page, cs)[op] \in [step : Steps, sess : 0..n, csrf : Nat, user : Accounts, live : BOOLEAN]
             /\ LeaveTo(page, cs)[op].step = cs[op].step
             /\ LeaveTo(page, cs)[op].live => cs[op].live /\ StaysAt(op, page)
  BY LeaveFacts
<1>5. LeaveTo(page, cs) \in Calls(n)
  <2>1. DOMAIN cs = Ops
    BY DEF Calls
  <2> QED
    BY <2>1, <1>4 DEF Calls, LeaveTo
<1>6. Resolved(cs) \in Calls(n) /\ Resolved(cs)["login"] = cs["login"]
  BY DEF Resolved, Calls, Ops, Steps
<1> QED
  BY <1>3, <1>4, <1>5, <1>6

\* What a navigation leaves behind.
LEMMA GoFacts ==
  ASSUME NEW n \in Nat, NEW page \in Pages, NEW session, NEW cache \in Caches(n),
         NEW cs \in Calls(n), NEW r \in RowSets(n), NEW s \in 0..n,
         PageTypes, from' \in Pages \cup {Nowhere}, Go(page, session, cache, cs, r, s)
  PROVE  /\ me' \in Caches(n) /\ rows' \in RowSets(n) /\ calls' \in Calls(n) /\ PageTypes'
         /\ me'.data = cache.data /\ rows'.owner = r.owner
         /\ session = NoSession =>
               /\ loc' = loc /\ next' = next /\ rows' = r /\ calls' = cs
               /\ me'.fetch = cache.fetch \/ me'.fetch = Ask(s)
         /\ session # NoSession =>
               /\ loc' = Admitted(session, page) /\ loc' \in Pages
               /\ rows'.fetch = Ask(s) \/ rows'.fetch = r.fetch
               /\ me' = cache /\ calls' = LeaveTo(loc', cs)
<1>1. page # Nowhere /\ page \in {"dashboard", "logs", "password"}
  BY DEF Pages, Nowhere
<1>2. Ask(s) \in Fetches(n)
  BY NothingTypes
<1>3. CASE session = NoSession
  <2>1. /\ going' = page /\ me' = [cache EXCEPT !.fetch = IF @ = Idle THEN Ask(s) ELSE @]
        /\ calls' = cs /\ rows' = r /\ loc' = loc /\ next' = next
    BY <1>3 DEF Go
  <2>2. me' \in Caches(n) /\ me'.data = cache.data /\ (me'.fetch = cache.fetch \/ me'.fetch = Ask(s))
    BY <1>2, <2>1 DEF Caches
  <2>3. PageTypes'
    BY <1>1, <2>1 DEF PageTypes
  <2> QED
    BY <1>3, <2>1, <2>2, <2>3
<1>4. CASE session # NoSession
  <2>1. /\ loc' = Admitted(session, page) /\ going' = Nowhere /\ next' = Nowhere
        /\ me' = cache /\ calls' = LeaveTo(loc', cs) /\ rows' \in Mounted(loc', r, s)
    BY <1>4 DEF Go
  <2>2. loc' \in Pages /\ loc' \notin {"boot", "error"}
    BY <2>1 DEF Admitted, Pages
  <2>3. PageTypes'
    BY <2>1, <2>2 DEF PageTypes
  <2>4. PICK p : p = loc'
    OBVIOUS
  <2>5. calls' = LeaveTo(p, cs) /\ rows' \in Mounted(p, r, s)
    BY <2>1, <2>4
  <2>6. /\ rows' \in RowSets(n) /\ rows'.owner = r.owner
        /\ rows'.fetch = Ask(s) \/ rows'.fetch = r.fetch
    BY <2>5, MountedRows
  <2>7. LeaveTo(p, cs) \in Calls(n)
    BY MountTypes
  <2> QED
    BY <1>4, <2>1, <2>2, <2>3, <2>5, <2>6, <2>7
<1> QED
  BY <1>3, <1>4

\* With a session, a navigation ends at a page, which may read its rows.
LEMMA GoEnters ==
  ASSUME NEW n \in Nat, NEW page \in Pages, NEW session, session # NoSession,
         NEW cache, NEW cs \in Calls(n), NEW r \in RowSets(n), NEW s \in 0..n,
         Go(page, session, cache, cs, r, s)
  PROVE  /\ me' = cache /\ loc' \in Pages /\ rows'.owner = r.owner
         /\ rows'.fetch = Ask(s) \/ rows'.fetch = r.fetch
         /\ loc' = Admitted(session, page) /\ calls' = LeaveTo(loc', cs)
<1>1. /\ loc' = Admitted(session, page) /\ me' = cache /\ rows' \in Mounted(loc', r, s)
      /\ calls' = LeaveTo(loc', cs)
  BY DEF Go
<1>2. Admitted(session, page) \in Pages
  BY DEF Admitted, Pages
<1>3. PICK p : p = loc'
  OBVIOUS
<1>4. rows' \in Mounted(p, r, s)
  BY <1>1, <1>3
<1>5. rows'.owner = r.owner /\ (rows'.fetch = Ask(s) \/ rows'.fetch = r.fetch)
  BY <1>4, MountedRows
<1> QED
  BY <1>1, <1>2, <1>5

\* What the handler of 401 leaves behind: everything as it was, when the person
\* is at the login page, or nothing of the session.
LEMMA UnauthorizedFacts ==
  ASSUME NEW n \in Nat, TypeOK, n = Len(sessions), NEW cs \in Calls(n),
         NEW reads \in SUBSET Fetches(n), Unauthorized(cs, reads)
  PROVE  /\ me' \in Caches(n) /\ rows' \in RowSets(n) /\ calls' \in Calls(n) /\ PageTypes'
         /\ dropped' \subseteq Fetches(n) /\ csrf' \in Nat
         /\ \/ UNCHANGED <<me, rows, loc, going, next, from, holders>> /\ calls' = cs
            \/ /\ me' = NoCache /\ rows' = NoRows /\ loc' = "login" /\ going' = Nowhere
               /\ next' = from' /\ calls' = LeaveTo("login", Resolved(cs)) /\ holders' = StillHolding
<1>1. me \in Caches(n) /\ rows \in RowSets(n) /\ PageTypes /\ csrf \in Nat
  BY DEF TypeOK, CacheTypes, ServerTypes
<1>2. CASE AlreadyAtLogin(Here)
  <2>1. calls' = cs /\ dropped' = reads /\ UNCHANGED <<csrf, me, rows, loc, going, next, from, holders>>
    BY <1>2 DEF Unauthorized
  <2>2. PageTypes'
    BY <1>1, <2>1 DEF PageTypes
  <2> QED
    BY <1>1, <2>1, <2>2
<1>3. CASE ~AlreadyAtLogin(Here)
  <2>1. /\ csrf' = 0 /\ me' = NoCache /\ rows' = NoRows
        /\ dropped' = reads \cup {f \in {me.fetch} : f.step = "asked"}
        /\ loc' = "login" /\ going' = Nowhere /\ next' = Here
        /\ from' = Here /\ calls' = LeaveTo("login", Resolved(cs)) /\ holders' = StillHolding
    BY <1>3 DEF Unauthorized, Cleared, AlreadyAtLogin
  <2>2. Here \in Pages
    BY <1>1, <1>3 DEF Here, PageTypes, AlreadyAtLogin, Nowhere
  <2>3. PageTypes'
    BY <2>1, <2>2 DEF PageTypes
  <2>4. me.fetch \in Fetches(n)
    BY <1>1 DEF Caches
  <2>5. dropped' \subseteq Fetches(n)
    BY <2>1, <2>4
  <2>6. NoCache \in Caches(n) /\ NoRows \in RowSets(n)
    BY NothingTypes
  <2>7. calls' \in Calls(n)
    <3>1. Resolved(cs) \in Calls(n)
      <4>1. 0 \in 0..n
        OBVIOUS
      <4> QED BY <1>1, <4>1, MountTypes
    <3>2. 0 \in 0..n
      OBVIOUS
    <3> QED BY <1>1, <2>1, <3>1, <3>2, MountTypes
  <2> QED
    BY <2>1, <2>3, <2>5, <2>6, <2>7
<1> QED
  BY <1>2, <1>3

\* Sending, forgetting and answering a call keep the shape.
LEMMA CallTypes ==
  ASSUME NEW n \in Nat, NEW cs \in Calls(n), NEW op \in Ops, NEW v \in Steps
  PROVE  /\ [cs EXCEPT ![op] = NoCall] \in Calls(n)
         /\ [cs EXCEPT ![op].step = v] \in Calls(n)
         /\ [cs EXCEPT ![op] = [cs[op] EXCEPT !.step = v]] \in Calls(n)
         /\ [cs EXCEPT !["change"].step = IF @ = "reading" THEN "read" ELSE @] \in Calls(n)
<1> DEFINE Call == [step : Steps, sess : 0..n, csrf : Nat, user : Accounts, live : BOOLEAN]
<1>1. cs \in [Ops -> Call]
  BY DEF Calls
<1>2. NoCall \in Call
  <2>1. 0 \in 0..n /\ 0 \in Nat
    OBVIOUS
  <2> QED BY <2>1 DEF NoCall, Steps, Accounts
<1>3. [cs[op] EXCEPT !.step = v] \in Call
  BY <1>1
<1>4. "change" \in Ops /\ [cs["change"] EXCEPT !.step = IF @ = "reading" THEN "read" ELSE @] \in Call
  BY <1>1 DEF Ops, Steps
<1> QED
  BY <1>1, <1>2, <1>3, <1>4 DEF Calls

\* With more sessions, the records keep their shape.
LEMMA MoreSessions ==
  ASSUME NEW n \in Nat, NEW m \in Nat, n <= m
  PROVE  /\ Fetches(n) \subseteq Fetches(m) /\ Caches(n) \subseteq Caches(m)
         /\ RowSets(n) \subseteq RowSets(m) /\ Calls(n) \subseteq Calls(m)
<1>1. 0..n \subseteq 0..m
  OBVIOUS
<1>2. Fetches(n) \subseteq Fetches(m)
  BY <1>1 DEF Fetches
<1>3. Caches(n) \subseteq Caches(m) /\ RowSets(n) \subseteq RowSets(m)
  BY <1>2 DEF Caches, RowSets
<1>4. Calls(n) \subseteq Calls(m)
  BY <1>1 DEF Calls
<1> QED
  BY <1>2, <1>3, <1>4

\* A session has an account.
LEMMA SessionUser ==
  ASSUME ServerTypes, NEW k \in 1..Len(sessions)
  PROVE  sessions[k].user \in Accounts
<1> DEFINE S == [user : Accounts, alive : BOOLEAN]
<1>1. sessions \in Seq(S)
  BY DEF ServerTypes
<1>2. sessions[k] \in S
  <2> HIDE DEF S
  <2> QED BY <1>1
<1> QED
  BY <1>2

\* A session that ends leaves the others and its account alone.
LEMMA EndedTypes ==
  ASSUME NEW A, NEW ss \in Seq([user : A, alive : BOOLEAN]), NEW k
  PROVE  LET ended == [ss EXCEPT ![k].alive = FALSE]
         IN  /\ ended \in Seq([user : A, alive : BOOLEAN]) /\ Len(ended) = Len(ss)
             /\ \A i \in 1..Len(ss) : ended[i].user = ss[i].user /\ (ended[i].alive => ss[i].alive)
<1> DEFINE S == [user : A, alive : BOOLEAN]
           ended == [ss EXCEPT ![k].alive = FALSE]
<1>1. /\ Len(ss) \in Nat /\ DOMAIN ss = 1..Len(ss) /\ \A i \in 1..Len(ss) : ss[i] \in S
      /\ ss = [i \in 1..Len(ss) |-> ss[i]]
  <2> HIDE DEF S
  <2>1. ss \in Seq(S)
    BY DEF S
  <2> QED BY <2>1
<1>2. ended = [i \in 1..Len(ss) |-> IF i = k THEN [ss[i] EXCEPT !.alive = FALSE] ELSE ss[i]]
  BY <1>1
<1>3. ASSUME NEW e \in S PROVE /\ [e EXCEPT !.alive = FALSE] \in S /\ [e EXCEPT !.alive = FALSE].user = e.user
                              /\ [e EXCEPT !.alive = FALSE].alive = FALSE
  OBVIOUS
<1>4. \A i \in 1..Len(ss) : ended[i] \in S /\ ended[i].user = ss[i].user /\ (ended[i].alive => ss[i].alive)
  <2> HIDE DEF S, ended
  <2> SUFFICES ASSUME NEW i \in 1..Len(ss)
               PROVE  ended[i] \in S /\ ended[i].user = ss[i].user /\ (ended[i].alive => ss[i].alive)
    OBVIOUS
  <2>1. ss[i] \in S
    BY <1>1
  <2>2. CASE i = k
    <3>1. ended[i] = [ss[i] EXCEPT !.alive = FALSE]
      BY <1>2, <2>2
    <3>2. /\ [ss[i] EXCEPT !.alive = FALSE] \in S /\ [ss[i] EXCEPT !.alive = FALSE].user = ss[i].user
          /\ [ss[i] EXCEPT !.alive = FALSE].alive = FALSE
      BY <1>3, <2>1
    <3> QED BY <3>1, <3>2
  <2>3. CASE i # k
    <3>1. ended[i] = ss[i]
      BY <1>2, <2>3
    <3> QED BY <2>1, <3>1
  <2> QED BY <2>2, <2>3
<1>5. ended \in Seq(S) /\ Len(ended) = Len(ss)
  <2> HIDE DEF S, ended
  <2>1. ended \in [1..Len(ss) -> S]
    BY <1>2, <1>4
  <2> QED BY <1>1, <2>1
<1> QED
  BY <1>4, <1>5

\* The answer to a read of the session.
LEMMA AnswerTypes ==
  ASSUME NEW n \in Nat, ServerTypes, n = Len(sessions), NEW f \in Fetches(n)
  PROVE  /\ Answer(f) \in Fetches(n) /\ Answer(f).sess = f.sess /\ Answer(f) # Idle
         /\ Answer(f).answer # NoSession => Alive(f.sess) /\ Answer(f).answer.user = sessions[f.sess].user
<1>1. f.sess \in 0..n
  BY DEF Fetches
<1>2. Seen(f.sess) \in SessionRec
  <2>1. CASE Alive(f.sess)
    <3>1. f.sess \in 1..Len(sessions)
      BY <1>1, <2>1 DEF Alive
    <3>2. sessions[f.sess].user \in Accounts
      BY <3>1, SessionUser
    <3>3. f.sess \in Nat
      BY <1>1
    <3> QED
      BY <2>1, <3>2, <3>3 DEF Seen, SessionRec
  <2>2. CASE ~Alive(f.sess)
    BY <2>2, NothingTypes DEF Seen
  <2> QED
    BY <2>1, <2>2
<1>3. /\ Answer(f) \in Fetches(n) /\ Answer(f).sess = f.sess /\ Answer(f).step = "answered"
      /\ Answer(f).answer = Seen(f.sess)
  BY <1>2 DEF Answer, Fetches
<1>4. Idle.step = "idle"
  BY DEF Idle
<1>5. Seen(f.sess) # NoSession => Alive(f.sess) /\ Seen(f.sess).user = sessions[f.sess].user
  BY DEF Seen
<1> QED
  BY <1>3, <1>4, <1>5

\* The type invariant is one.
LEMMA TypeStep ==
  ASSUME TypeOK, [SessionNext]_sessionVars
  PROVE  TypeOK'
<1>0. PICK n \in Nat : n = Len(sessions)
  BY DEF TypeOK, ServerTypes
<1>1. /\ ServerTypes /\ PageTypes /\ cookie \in 0..n /\ csrf \in Nat
      /\ me \in Caches(n) /\ dropped \subseteq Fetches(n) /\ rows \in RowSets(n)
      /\ calls \in Calls(n)
  BY <1>0 DEF TypeOK, CacheTypes, ServerTypes
<1>2. /\ NoSession \in SessionRec /\ Idle \in Fetches(n) /\ NoRows \in RowSets(n)
      /\ NoCache \in Caches(n) /\ \A s \in 0..n : Ask(s) \in Fetches(n)
  BY NothingTypes
<1>3. me.data \in SessionRec /\ me.fetch \in Fetches(n) /\ rows.fetch \in Fetches(n)
  BY <1>1 DEF Caches, RowSets
<1>4. ASSUME sessions' = sessions, cookie' \in 0..n, csrf' \in Nat, PageTypes',
             me' \in Caches(n), dropped' \subseteq Fetches(n), rows' \in RowSets(n),
             calls' \in Calls(n)
      PROVE  TypeOK'
  BY <1>0, <1>1, <1>4 DEF TypeOK, CacheTypes, ServerTypes
<1>5. ASSUME loc' = loc, going' = going, next' = next, from' = from PROVE PageTypes'
  BY <1>1, <1>5 DEF PageTypes
<1>6. Unmounted(rows) \in RowSets(n) /\ Left(rows) \in RowSets(n)
  BY <1>1, MountTypes
<1>7. \A p \in Pages : LeaveTo(p, calls) \in Calls(n) /\ LeaveTo("login", calls) \in Calls(n)
  BY <1>1, MountTypes
<1>8. \A op \in Ops, f \in Fetches(n) : [me EXCEPT !.fetch = f] \in Caches(n)
                                       /\ [rows EXCEPT !.fetch = f] \in RowSets(n)
                                       /\ [rows EXCEPT !.poll = f] \in RowSets(n)
  BY <1>1 DEF Caches, RowSets
<1>9. Nowhere \in Pages \cup {Nowhere} /\ "logs" \in Pages /\ "dashboard" \in Pages /\ "password" \in Pages
  BY DEF Pages
<1>10. CASE Visit
  <2>1. PICK p \in Pages : Go(p, me.data, me, calls, Unmounted(rows), cookie)
    BY <1>10 DEF Visit
  <2>2. from' \in Pages \cup {Nowhere}
    BY <1>1, <1>10 DEF Visit, PageTypes
  <2>3. /\ me' \in Caches(n) /\ rows' \in RowSets(n) /\ calls' \in Calls(n) /\ PageTypes'
    BY <1>1, <1>6, <2>1, <2>2, GoFacts
  <2> QED
    BY <1>1, <1>4, <1>10, <2>3 DEF Visit
<1>11. CASE BackToLogin
  <2>1. PageTypes'
    BY <1>1, <1>11 DEF BackToLogin, PageTypes
  <2> QED
    BY <1>1, <1>4, <1>6, <1>7, <1>9, <1>11, <2>1 DEF BackToLogin
<1>12. CASE BackToPage
  <2>1. from' \in Pages \cup {Nowhere} /\ Go("logs", me.data, me, calls, rows, cookie)
    BY <1>12 DEF BackToPage
  <2>2. /\ me' \in Caches(n) /\ rows' \in RowSets(n) /\ calls' \in Calls(n) /\ PageTypes'
    BY <1>1, <1>9, <2>1, GoFacts
  <2> QED
    BY <1>1, <1>4, <1>12, <2>2 DEF BackToPage
<1>13. ASSUME NEW op \in Ops, NEW u \in Accounts PROVE Send(op, u) \in Calls(n)
  BY <1>1 DEF Send, Calls, Steps
<1>14. CASE SubmitLogin \/ LogOut \/ ChangePassword
  <2>1. calls' \in Calls(n)
    BY <1>13, <1>14 DEF SubmitLogin, LogOut, ChangePassword, Ops, Accounts
  <2> QED
    BY <1>1, <1>4, <1>5, <1>14, <2>1 DEF SubmitLogin, LogOut, ChangePassword
<1>15. CASE LeavePassword
  <2>1. Go("dashboard", me.data, me, calls, Unmounted(rows), cookie)
    BY <1>15 DEF LeavePassword
  <2>2. from' \in Pages \cup {Nowhere}
    BY <1>1, <1>15 DEF LeavePassword, PageTypes
  <2>3. /\ me' \in Caches(n) /\ rows' \in RowSets(n) /\ calls' \in Calls(n) /\ PageTypes'
    BY <1>1, <1>6, <1>9, <2>1, <2>2, GoFacts
  <2> QED
    BY <1>1, <1>4, <1>15, <2>3 DEF LeavePassword
<1>32. CASE Reload
  <2>1. /\ loc' = "boot" /\ going' = Here /\ next' = Nowhere /\ csrf' = 0
        /\ me' = [NoCache EXCEPT !.fetch = Ask(cookie)] /\ dropped' = {} /\ rows' = NoRows
        /\ UNCHANGED <<sessions, cookie, calls, from>> /\ loc \in Pages \cup {"error"}
    BY <1>32 DEF Reload
  <2>2. Here \in Pages
    BY <1>1, <2>1 DEF Here, PageTypes
  <2>3. PageTypes'
    BY <1>1, <1>9, <2>1, <2>2 DEF PageTypes, Pages, Nowhere
  <2>4. me' \in Caches(n)
    BY <1>1, <1>2, <2>1 DEF Caches
  <2> QED
    BY <1>1, <1>2, <1>4, <2>1, <2>3, <2>4
<1>16. CASE ServeMe
  <2>1. \A f \in Fetches(n) : Answer(f) \in Fetches(n)
    BY <1>0, <1>1, AnswerTypes
  <2>2. me' \in Caches(n) /\ dropped' \subseteq Fetches(n)
    <3>1. CASE me' = [me EXCEPT !.fetch = Answer(@)] /\ UNCHANGED dropped
      BY <1>1, <1>3, <2>1, <3>1 DEF Caches
    <3>2. CASE \E f \in dropped : dropped' = (dropped \ {f}) \cup {Answer(f)} /\ UNCHANGED me
      BY <1>1, <2>1, <3>2
    <3> QED
      BY <1>16, <3>1, <3>2 DEF ServeMe
  <2> QED
    BY <1>1, <1>4, <1>5, <1>16, <2>2 DEF ServeMe
<1>17. ASSUME NEW op \in Ops, ServeCall(op) PROVE TypeOK'
  <2>1. PICK v \in Verdict(op, calls[op]) :
          /\ calls' = [calls EXCEPT ![op].step = v]
          /\ sessions' = IF v # "ok" THEN sessions
                         ELSE CASE op = "login" -> Append(sessions, [user |-> calls[op].user, alive |-> TRUE])
                                [] op = "logout" -> [sessions EXCEPT ![calls[op].sess].alive = FALSE]
                                [] op = "change" -> sessions
    BY <1>17 DEF ServeCall
  <2>2. v \in Steps
    BY DEF Verdict, Steps
  <2>3. calls' \in Calls(n)
    BY <1>1, <2>1, <2>2, CallTypes
  <2>4. calls[op].user \in Accounts
    BY <1>1 DEF Calls
  <2>5. UNCHANGED <<cookie, csrf, me, dropped, rows, loc, going, next, from>>
    BY <1>17 DEF ServeCall
  <2> DEFINE S == [user : Accounts, alive : BOOLEAN]
  <2>6. sessions' \in Seq(S) /\ (Len(sessions') = n \/ Len(sessions') = n + 1)
    <3>1. sessions \in Seq(S)
      BY <1>1 DEF ServerTypes
    <3>2. CASE sessions' = sessions
      BY <1>0, <3>1, <3>2
    <3>3. CASE sessions' = Append(sessions, [user |-> calls[op].user, alive |-> TRUE])
      <4>1. [user |-> calls[op].user, alive |-> TRUE] \in S
        BY <2>4
      <4> HIDE DEF S
      <4> QED BY <1>0, <3>1, <3>3, <4>1
    <3>4. CASE sessions' = [sessions EXCEPT ![calls[op].sess].alive = FALSE]
      BY <1>0, <3>1, <3>4, EndedTypes
    <3> QED
      BY <2>1, <3>2, <3>3, <3>4 DEF Ops
  <2>7. PICK m \in Nat : m = Len(sessions') /\ n <= m
    BY <2>6
  <2>8. cookie' \in 0..m
    BY <1>1, <2>5, <2>7
  <2>9. /\ Fetches(n) \subseteq Fetches(m) /\ Caches(n) \subseteq Caches(m)
        /\ RowSets(n) \subseteq RowSets(m) /\ Calls(n) \subseteq Calls(m)
    BY <2>7, MoreSessions
  <2>10. ServerTypes'
    BY <1>1, <2>5, <2>6, <2>7, <2>8 DEF ServerTypes
  <2>11. CacheTypes'
    BY <1>1, <2>3, <2>5, <2>7, <2>9 DEF CacheTypes
  <2> QED
    BY <1>5, <2>5, <2>10, <2>11 DEF TypeOK
<1>18. CASE EndSession
  <2>1. PICK k \in DOMAIN sessions : sessions' = [sessions EXCEPT ![k].alive = FALSE]
    BY <1>18 DEF EndSession
  <2>2. UNCHANGED <<cookie, csrf, me, dropped, rows, loc, going, next, calls, from>>
    BY <1>18 DEF EndSession
  <2> DEFINE S == [user : Accounts, alive : BOOLEAN]
  <2>3. sessions \in Seq(S)
    BY <1>1 DEF ServerTypes
  <2>6. sessions' \in Seq(S) /\ Len(sessions') = n
    BY <1>0, <2>1, <2>3, EndedTypes
  <2>7. ServerTypes' /\ CacheTypes'
    BY <1>1, <2>2, <2>6 DEF ServerTypes, CacheTypes
  <2> QED
    BY <1>5, <2>2, <2>7 DEF TypeOK
<1>19. CASE LoseAnswer
  <2>1. UNCHANGED <<sessions, cookie, csrf, dropped, going, next, from>>
    BY <1>19 DEF LoseAnswer
  <2>2. /\ me' \in Caches(n) /\ rows' \in RowSets(n) /\ calls' \in Calls(n)
        /\ loc' = loc \/ (loc' = "error" /\ going # Nowhere)
    <3>1. CASE /\ me' = [me EXCEPT !.fetch = Idle]
               /\ IF going # Nowhere
                  THEN loc' = "error" /\ rows' = Left(rows) /\ calls' = LeaveTo("error", Resolved(calls))
                  ELSE calls' = Resolved(calls) /\ UNCHANGED <<loc, rows>>
      <4>1. Resolved(calls) \in Calls(n)
        BY <1>1, MountTypes
      <4>2. LeaveTo("error", Resolved(calls)) \in Calls(n)
        BY <1>1, <4>1, MountTypes
      <4> QED
        BY <1>1, <1>2, <1>6, <1>8, <3>1, <4>1, <4>2 DEF Ops
    <3>2. CASE /\ rows' = [rows EXCEPT !.fetch = Idle] \/ rows' = [rows EXCEPT !.poll = Idle]
               /\ UNCHANGED <<me, calls, loc>>
      BY <1>1, <1>2, <1>8, <3>2 DEF Ops
    <3>3. CASE /\ \E op \in DOMAIN calls : calls' = [calls EXCEPT ![op].step = "lost"]
               /\ UNCHANGED <<me, rows, loc>>
      <4>1. DOMAIN calls = Ops /\ "lost" \in Steps
        BY <1>1 DEF Calls, Steps
      <4>2. PICK op \in Ops : calls' = [calls EXCEPT ![op].step = "lost"]
        BY <3>3, <4>1
      <4>3. calls' \in Calls(n)
        BY <1>1, <4>1, <4>2, CallTypes
      <4> QED
        BY <1>1, <3>3, <4>3
    <3> QED
      BY <1>19, <3>1, <3>2, <3>3 DEF LoseAnswer
  <2>3. PageTypes'
    BY <1>1, <2>1, <2>2 DEF PageTypes
  <2> QED
    BY <1>1, <1>4, <2>1, <2>2, <2>3
<1>20. ASSUME NEW cs \in Calls(n), NEW reads \in SUBSET Fetches(n), Unauthorized(cs, reads),
              UNCHANGED <<sessions, cookie>>
       PROVE  TypeOK'
  <2>1. /\ me' \in Caches(n) /\ rows' \in RowSets(n) /\ calls' \in Calls(n) /\ PageTypes'
        /\ dropped' \subseteq Fetches(n) /\ csrf' \in Nat
    BY <1>0, <1>20, UnauthorizedFacts
  <2> QED
    BY <1>1, <1>4, <1>20, <2>1
<1>21. CASE MeArrives
  <2>0. UNCHANGED <<sessions, cookie>>
    BY <1>21 DEF MeArrives
  <2>1. CASE me.fetch.answer = NoSession
    <3>1. Unauthorized(calls, dropped)
      BY <1>21, <2>1 DEF MeArrives
    <3> QED
      BY <1>1, <1>20, <2>0, <3>1
  <2>2. CASE me.fetch.answer # NoSession
    <3>1. PICK s : s = me.fetch.answer
      OBVIOUS
    <3>2. s \in SessionRec
      BY <1>3, <3>1 DEF Fetches
    <3>3. csrf' = s.id /\ UNCHANGED <<dropped, from>>
      BY <1>21, <2>2, <3>1 DEF MeArrives
    <3>4. csrf' \in Nat /\ from' \in Pages \cup {Nowhere}
      BY <1>1, <3>2, <3>3 DEF SessionRec, PageTypes
    <3>5. [data |-> s, fetch |-> Idle] \in Caches(n)
      BY <1>2, <3>2 DEF Caches
    <3>6. Resolved(calls) \in Calls(n)
      BY <1>1, MountTypes
    <3>7. CASE going # Nowhere
      <4>1. Go(going, s, [data |-> s, fetch |-> Idle], Resolved(calls), rows, cookie)
        BY <1>21, <2>2, <3>1, <3>7 DEF MeArrives
      <4>2. PICK p \in Pages : p = going
        BY <1>1, <3>7 DEF PageTypes
      <4>3. /\ me' \in Caches(n) /\ rows' \in RowSets(n) /\ calls' \in Calls(n) /\ PageTypes'
        BY <1>1, <3>4, <3>5, <3>6, <4>1, <4>2, GoFacts
      <4> QED
        BY <1>1, <1>4, <2>0, <3>3, <3>4, <4>3
    <3>8. CASE going = Nowhere
      <4>1. /\ me' = [data |-> s, fetch |-> Idle] /\ calls' = Resolved(calls)
            /\ UNCHANGED <<rows, loc, going, next>>
        BY <1>21, <2>2, <3>1, <3>8 DEF MeArrives
      <4> QED
        BY <1>1, <1>4, <1>5, <2>0, <3>3, <3>4, <3>5, <3>6, <4>1
    <3> QED
      BY <3>7, <3>8
  <2> QED
    BY <2>1, <2>2
<1>22. CASE LateMeArrives
  <2>1. PICK f \in dropped :
          /\ IF f.answer = NoSession THEN Unauthorized(calls, dropped \ {f})
             ELSE /\ csrf' = f.answer.id /\ dropped' = dropped \ {f}
                  /\ UNCHANGED <<me, rows, loc, going, next, calls, from>>
          /\ UNCHANGED <<sessions, cookie>>
    BY <1>22 DEF LateMeArrives
  <2>2. dropped \ {f} \in SUBSET Fetches(n) /\ f \in Fetches(n)
    BY <1>1
  <2>3. f.answer.id \in Nat
    BY <2>2 DEF Fetches, SessionRec
  <2>4. CASE f.answer = NoSession
    BY <1>1, <1>20, <2>1, <2>2, <2>4
  <2>5. CASE f.answer # NoSession
    BY <1>1, <1>4, <1>5, <2>1, <2>2, <2>3, <2>5
  <2> QED
    BY <2>4, <2>5
<1>23. CASE RowsArrive
  <2>0. UNCHANGED <<sessions, cookie>>
    BY <1>23 DEF RowsArrive
  <2>1. CASE ~Alive(rows.fetch.sess)
    <3>1. Unauthorized(calls, dropped)
      BY <1>23, <2>1 DEF RowsArrive
    <3> QED
      BY <1>1, <1>20, <2>0, <3>1
  <2>2. CASE Alive(rows.fetch.sess)
    <3>1. /\ rows' = [rows EXCEPT !.owner = sessions[rows.fetch.sess].user, !.fetch = Idle]
          /\ UNCHANGED <<csrf, me, dropped, loc, going, next, calls, from>>
      BY <1>23, <2>2 DEF RowsArrive
    <3>2. rows.fetch.sess \in 1..Len(sessions)
      <4>1. rows.fetch.sess \in 0..n
        BY <1>3 DEF Fetches
      <4> QED BY <1>0, <2>2, <4>1 DEF Alive
    <3>3. sessions[rows.fetch.sess].user \in Accounts
      BY <1>1, <3>2, SessionUser
    <3>4. rows' \in RowSets(n)
      BY <1>1, <1>2, <3>1, <3>3 DEF RowSets
    <3> QED
      BY <1>1, <1>4, <1>5, <2>0, <3>1, <3>4
  <2> QED
    BY <2>1, <2>2
<1>24. CASE PollRate
  BY <1>1, <1>2, <1>4, <1>5, <1>8, <1>24 DEF PollRate, Ops
<1>33. CASE RateArrives
  <2>0. UNCHANGED <<sessions, cookie>>
    BY <1>33 DEF RateArrives
  <2>1. CASE ~Alive(rows.poll.sess)
    <3>1. Unauthorized(calls, dropped)
      BY <1>33, <2>1 DEF RateArrives
    <3> QED
      BY <1>1, <1>20, <2>0, <3>1
  <2>2. CASE Alive(rows.poll.sess)
    <3>1. /\ rows' = [rows EXCEPT !.poll = Idle]
          /\ UNCHANGED <<csrf, me, dropped, loc, going, next, calls, from>>
      BY <1>33, <2>2 DEF RateArrives
    <3> QED
      BY <1>1, <1>2, <1>4, <1>5, <1>8, <2>0, <3>1 DEF Ops
  <2> QED
    BY <2>1, <2>2
<1>25. CASE StaleMe
  BY <1>1, <1>2, <1>4, <1>5, <1>8, <1>25 DEF StaleMe, Ops
<1>26. CASE LoginDone
  <2> DEFINE c == calls["login"]
             s == [id |-> Len(sessions), user |-> c.user, must |-> c.user \in forced]
             cs == [calls EXCEPT !["login"] = NoCall]
             cache == [me EXCEPT !.data = s]
             page == IF s.must THEN "password" ELSE IF next \in Pages THEN next ELSE "dashboard"
  <2>1. "login" \in Ops /\ "ok" \in Steps
    BY DEF Ops, Steps
  <2>2. c.user \in Accounts
    BY <1>1, <2>1 DEF Calls
  <2>3. s \in SessionRec /\ s.id = n
    BY <1>0, <2>2 DEF SessionRec
  <2>4. cs \in Calls(n)
    BY <1>1, <2>1, CallTypes
  <2>5. cache \in Caches(n)
    <3> HIDE DEF s
    <3> QED BY <1>1, <2>3 DEF Caches
  <2>6. page \in Pages
    BY <1>9
  <2>7. n \in 0..n /\ n \in Nat
    OBVIOUS
  <2>8. UNCHANGED <<sessions, dropped, from>>
    BY <1>26 DEF LoginDone
  <2>9. from' \in Pages \cup {Nowhere}
    BY <1>1, <2>8 DEF PageTypes
  <2>10. CASE c.step = "ok" /\ c.live
    <3>1. cookie' = s.id /\ csrf' = s.id /\ Go(page, s, cache, cs, rows, s.id)
      BY <1>26, <2>10 DEF LoginDone
    <3> HIDE DEF s, cs, cache, page
    <3>2. /\ me' \in Caches(n) /\ rows' \in RowSets(n) /\ calls' \in Calls(n) /\ PageTypes'
      BY <1>1, <2>3, <2>4, <2>5, <2>6, <2>7, <2>9, <3>1, GoFacts
    <3> QED
      BY <1>1, <1>4, <2>3, <2>7, <2>8, <3>1, <3>2
  <2>11. CASE c.step = "ok" /\ ~c.live
    <3>1. /\ cookie' = s.id /\ csrf' = s.id /\ me' = cache /\ calls' = cs
          /\ UNCHANGED <<rows, loc, going, next>>
      BY <1>26, <2>11 DEF LoginDone
    <3> HIDE DEF s, cs, cache, page
    <3> QED
      BY <1>1, <1>4, <1>5, <2>3, <2>4, <2>5, <2>7, <2>8, <3>1
  <2>12. CASE c.step # "ok"
    <3>1. calls' = cs /\ UNCHANGED <<cookie, csrf, me, rows, loc, going, next>>
      BY <1>26, <2>12 DEF LoginDone
    <3> HIDE DEF s, cs, cache, page
    <3> QED
      BY <1>1, <1>4, <1>5, <2>4, <2>8, <3>1
  <2> QED
    BY <2>10, <2>11, <2>12
<1>27. CASE LogoutDone
  <2> DEFINE cs == Resolved([calls EXCEPT !["logout"] = NoCall])
  <2>1. cs \in Calls(n)
    <3>1. "logout" \in Ops /\ "ok" \in Steps
      BY DEF Ops, Steps
    <3>2. [calls EXCEPT !["logout"] = NoCall] \in Calls(n)
      BY <1>1, <3>1, CallTypes
    <3> QED BY <1>1, <3>2, MountTypes
  <2>2. LeaveTo("login", cs) \in Calls(n)
    <3> HIDE DEF cs
    <3> QED BY <1>1, <2>1, MountTypes
  <2>3. Dropped \subseteq Fetches(n)
    BY <1>1, <1>3 DEF Dropped
  <2>4. /\ csrf' = 0 /\ me' = NoCache /\ dropped' = Dropped /\ rows' = NoRows
        /\ cookie' \in {0, cookie} /\ UNCHANGED sessions
    BY <1>27 DEF LogoutDone, Cleared
  <2>5. calls' \in Calls(n) /\ PageTypes'
    <3>1. CASE calls["logout"].live
      <4>1. calls' = LeaveTo("login", cs) /\ loc' = "login" /\ going' = Nowhere /\ next' = Nowhere /\ from' = Nowhere
        BY <1>27, <3>1 DEF LogoutDone
      <4> QED BY <2>2, <4>1 DEF PageTypes
    <3>2. CASE ~calls["logout"].live
      <4>1. calls' = cs /\ UNCHANGED <<loc, going, next, from>>
        BY <1>27, <3>2 DEF LogoutDone
      <4> QED BY <1>5, <2>1, <4>1
    <3> QED
      BY <3>1, <3>2
  <2>6. cookie' \in 0..n /\ csrf' \in Nat
    BY <1>1, <2>4
  <2> QED
    BY <1>2, <1>4, <2>3, <2>4, <2>5, <2>6
<1>28. CASE ChangeDone
  <2>1. "change" \in Ops /\ "read" \in Steps /\ "reading" \in Steps
    BY DEF Ops, Steps
  <2>2. /\ [calls EXCEPT !["change"] = NoCall] \in Calls(n)
        /\ [calls EXCEPT !["change"] = [calls["change"] EXCEPT !.step = "read"]] \in Calls(n)
        /\ [calls EXCEPT !["change"] = AfterChange(calls["change"])] \in Calls(n)
    BY <1>1, <2>1, CallTypes DEF AfterChange
  <2>3. Dropped \subseteq Fetches(n)
    BY <1>1, <1>3 DEF Dropped
  <2>4. UNCHANGED <<sessions, cookie>>
    BY <1>28 DEF ChangeDone
  <2>5. CASE calls["change"].step = "ok"
    <3>1. UNCHANGED <<csrf, rows, loc, going, next, from>>
      BY <1>28, <2>5 DEF ChangeDone
    <3>2. calls' \in Calls(n)
      BY <1>28, <2>2, <2>5 DEF ChangeDone
    <3>3. dropped' \subseteq Fetches(n) /\ me' \in Caches(n)
      BY <1>1, <1>2, <1>8, <1>28, <2>1, <2>3, <2>5 DEF ChangeDone
    <3> QED
      BY <1>1, <1>4, <1>5, <2>4, <3>1, <3>2, <3>3
  <2>6. CASE calls["change"].step = "unauthorized"
    <3>1. Unauthorized([calls EXCEPT !["change"] = NoCall], dropped)
      BY <1>28, <2>6 DEF ChangeDone
    <3> QED
      BY <1>1, <1>20, <2>2, <2>4, <3>1
  <2>7. CASE calls["change"].step \notin {"ok", "unauthorized"}
    <3>1. /\ calls' = [calls EXCEPT !["change"] = NoCall]
          /\ UNCHANGED <<csrf, me, dropped, rows, loc, going, next, from>>
      BY <1>28, <2>7 DEF ChangeDone
    <3> QED
      BY <1>1, <1>4, <1>5, <2>2, <2>4, <3>1
  <2> QED
    BY <2>5, <2>6, <2>7
<1>29. CASE ChangeSettled
  <2>1. "change" \in Ops /\ "read" \in Steps
    BY DEF Ops, Steps
  <2>2. calls' \in Calls(n)
    BY <1>1, <1>29, <2>1, CallTypes DEF ChangeSettled
  <2> QED
    BY <1>1, <1>4, <1>5, <1>29, <2>2 DEF ChangeSettled
<1>30. CASE UNCHANGED sessionVars
  BY <1>1, <1>4, <1>5, <1>30 DEF sessionVars
<1>31. DOMAIN calls = Ops
  BY <1>1 DEF Calls
<1> QED
  BY <1>10, <1>11, <1>12, <1>14, <1>15, <1>16, <1>17, <1>18, <1>19, <1>21, <1>22, <1>23, <1>24,
     <1>25, <1>26, <1>27, <1>28, <1>29, <1>30, <1>31, <1>32, <1>33 DEF SessionNext

-----------------------------------------------------------------------------
(***************************************************************************)
(* Whose data the tab holds.                                               *)
(***************************************************************************)

\* A read of the session is, or was answered, for an account that has the tab.
Own(f) ==
    /\ Alive(f.sess) => sessions[f.sess].user \in holders
    /\ f.answer # NoSession => f.answer.user \in holders

\* So is everything the tab holds, or is about to hold.
OwnInv ==
    /\ Alive(cookie) => sessions[cookie].user \in holders
    /\ Own(me.fetch)
    /\ Alive(rows.fetch.sess) => sessions[rows.fetch.sess].user \in holders
    /\ NothingLeftBehind

\* A login that was answered has the last session.
LoginServed ==
    calls["login"].step = "ok" =>
        Len(sessions) > 0 /\ sessions[Len(sessions)].user = calls["login"].user

\* Its page is the login page, and the login page knows the page the last 401
\* came from.
LoginInv ==
    /\ calls["login"].live => loc = "login"
    /\ loc = "login" /\ from # Nowhere => next = from

\* A session keeps its account and never lives again; only a login adds one.
LEMMA UsersStay ==
  ASSUME TypeOK, [SessionNext]_sessionVars
  PROVE  /\ Len(sessions) \in Nat /\ Len(sessions') \in Nat /\ Len(sessions') >= Len(sessions)
         /\ \A k \in 1..Len(sessions) :
               sessions'[k].user = sessions[k].user /\ (sessions'[k].alive => sessions[k].alive)
         /\ Len(sessions') = Len(sessions) \/ ServeCall("login")
<1> DEFINE S == [user : Accounts, alive : BOOLEAN]
           Stay == /\ Len(sessions') \in Nat /\ Len(sessions') >= Len(sessions)
                   /\ \A k \in 1..Len(sessions) :
                         sessions'[k].user = sessions[k].user /\ (sessions'[k].alive => sessions[k].alive)
                   /\ Len(sessions') = Len(sessions) \/ ServeCall("login")
<1>1. sessions \in Seq(S) /\ Len(sessions) \in Nat
  BY DEF TypeOK, ServerTypes
<1>2. CASE sessions' = sessions
  BY <1>1, <1>2
<1>3. ASSUME NEW k, sessions' = [sessions EXCEPT ![k].alive = FALSE] PROVE Stay
  BY <1>1, <1>3, EndedTypes
<1>4. ASSUME NEW e, sessions' = Append(sessions, e), ServeCall("login") PROVE Stay
  <2> HIDE DEF S
  <2>1. Len(sessions') = Len(sessions) + 1 /\ \A k \in 1..Len(sessions) : sessions'[k] = sessions[k]
    BY <1>1, <1>4
  <2> QED
    BY <1>1, <1>4, <2>1
<1>5. ASSUME NEW op \in DOMAIN calls, ServeCall(op) PROVE Stay
  <2>1. op \in Ops
    BY DEF TypeOK, CacheTypes, Calls
  <2>2. \/ sessions' = sessions
        \/ op = "login" /\ \E e : sessions' = Append(sessions, e)
        \/ \E k : sessions' = [sessions EXCEPT ![k].alive = FALSE]
    BY <1>5, <2>1 DEF ServeCall, Ops
  <2> QED
    BY <1>2, <1>3, <1>4, <1>5, <2>2
<1>6. CASE EndSession
  BY <1>3, <1>6 DEF EndSession
<1>7. CASE \/ Visit \/ BackToLogin \/ BackToPage \/ Reload \/ SubmitLogin \/ LogOut \/ ChangePassword
           \/ LeavePassword \/ ServeMe \/ LoseAnswer
  BY <1>2, <1>7 DEF Visit, BackToLogin, BackToPage, Reload, SubmitLogin, LogOut, ChangePassword,
     LeavePassword, ServeMe, LoseAnswer
<1>8. CASE \/ MeArrives \/ LateMeArrives \/ RowsArrive \/ PollRate \/ RateArrives \/ StaleMe
           \/ LoginDone \/ LogoutDone \/ ChangeDone \/ ChangeSettled \/ UNCHANGED sessionVars
  BY <1>2, <1>8 DEF MeArrives, LateMeArrives, RowsArrive, PollRate, RateArrives, StaleMe, LoginDone,
     LogoutDone, ChangeDone, ChangeSettled, sessionVars
<1> QED
  BY <1>1, <1>5, <1>6, <1>7, <1>8 DEF SessionNext

\* What the tab holds stays that of its holders.
LEMMA OwnStep ==
  ASSUME TypeOK, OwnInv, LoginServed, [SessionNext]_sessionVars
  PROVE  OwnInv'
<1>0. PICK n \in Nat : n = Len(sessions)
  BY DEF TypeOK, ServerTypes
<1>1. /\ ServerTypes /\ PageTypes /\ cookie \in 0..n
      /\ me \in Caches(n) /\ dropped \subseteq Fetches(n) /\ rows \in RowSets(n)
      /\ calls \in Calls(n)
  BY <1>0 DEF TypeOK, CacheTypes, ServerTypes
<1>2. /\ \A s \in 0..n : Ask(s).sess = s /\ Ask(s).answer = NoSession
      /\ Idle.sess = 0 /\ Idle.answer = NoSession
  BY NothingTypes
<1>3. \A k \in 0..n : Alive(k)' => Alive(k) /\ sessions'[k].user = sessions[k].user
  BY <1>0, UsersStay DEF Alive
<1>4. NoCache.data = NoSession /\ NoCache.fetch = Idle /\ NoRows.fetch = Idle /\ NoRows.owner = "nobody"
  BY DEF NoCache, NoRows
<1>5. "login" \in Ops /\ "logout" \in Ops /\ "change" \in Ops /\ "ok" \in Steps
      /\ "logs" \in Pages /\ "dashboard" \in Pages /\ "password" \in Pages
  BY DEF Ops, Steps, Pages
<1>6. /\ Unmounted(rows) \in RowSets(n) /\ Unmounted(rows).fetch = Idle /\ Unmounted(rows).owner = rows.owner
      /\ Left(rows) \in RowSets(n) /\ Left(rows).fetch = Idle /\ Left(rows).owner = rows.owner
  BY <1>1, MountTypes
<1>7. me.fetch.sess \in 0..n /\ rows.fetch.sess \in 0..n /\ me.fetch \in Fetches(n)
  BY <1>1 DEF Caches, RowSets, Fetches
<1>8. ~Alive(0)'
  BY DEF Alive
\* The ways in which a step treats what the tab holds.
<1>10. ASSUME holders \subseteq holders', cookie' = cookie,
              me'.data = NoSession \/ me'.data.user \in holders',
              me'.fetch \in {me.fetch, Idle, Ask(cookie)},
              rows'.owner = rows.owner, rows'.fetch \in {rows.fetch, Idle, Ask(cookie)}
       PROVE  OwnInv'
  <2>1. Alive(cookie)' => sessions'[cookie'].user \in holders'
    BY <1>1, <1>3, <1>10 DEF OwnInv, Alive
  <2>2. ASSUME NEW f, f \in {me.fetch, Idle, Ask(cookie)}
        PROVE  /\ (f.sess # 0 /\ sessions'[f.sess].alive) => sessions'[f.sess].user \in holders'
               /\ f.answer # NoSession => f.answer.user \in holders'
    BY <1>1, <1>2, <1>3, <1>7, <1>10, <2>2 DEF OwnInv, Own, Alive
  <2>3. Own(me.fetch)'
    BY <1>10, <2>2 DEF Own, Alive
  <2>4. Alive(rows.fetch.sess)' => sessions'[rows'.fetch.sess].user \in holders'
    BY <1>1, <1>2, <1>3, <1>7, <1>10 DEF OwnInv, Alive
  <2>5. NothingLeftBehind'
    BY <1>10 DEF OwnInv, NothingLeftBehind
  <2> QED
    BY <2>1, <2>3, <2>4, <2>5 DEF OwnInv
<1>11. ASSUME me'.data = me.data, me'.fetch \in {me.fetch, Idle, Ask(cookie)}, cookie' = cookie,
              rows'.owner = rows.owner, rows'.fetch \in {rows.fetch, Idle, Ask(cookie)}, holders' = holders
       PROVE  OwnInv'
  BY <1>10, <1>11 DEF OwnInv, NothingLeftBehind
<1>12. ASSUME me'.data = NoSession, me'.fetch \in {Idle, Ask(cookie)}, rows' = NoRows,
              holders' = StillHolding, cookie' = cookie, sessions' = sessions
       PROVE  OwnInv'
  <2>1. Alive(cookie) => sessions[cookie].user \in StillHolding
    BY DEF StillHolding
  <2>2. (Alive(cookie) => sessions[cookie].user \in holders)'
    BY <1>12, <2>1 DEF Alive
  <2>3. Own(me.fetch)'
    BY <1>1, <1>2, <1>12, <2>2 DEF Own, Alive
  <2>4. NothingLeftBehind'
    BY <1>4, <1>12 DEF NothingLeftBehind
  <2>5. rows'.fetch.sess = 0
    BY <1>2, <1>4, <1>12
  <2> QED
    BY <2>2, <2>3, <2>4, <2>5 DEF OwnInv, Alive
<1>14. ASSUME NEW cs \in Calls(n), NEW reads \in SUBSET Fetches(n), Unauthorized(cs, reads),
              cookie' = cookie, sessions' = sessions
       PROVE  OwnInv'
  <2>1. \/ UNCHANGED <<me, rows, holders>>
        \/ me' = NoCache /\ rows' = NoRows /\ holders' = StillHolding
    BY <1>0, <1>14, UnauthorizedFacts
  <2> QED
    BY <1>4, <1>11, <1>12, <1>14, <2>1
<1>15. ASSUME NEW page \in Pages, NEW r \in RowSets(n), Go(page, me.data, me, calls, r, cookie),
              r = rows \/ r = Unmounted(rows), cookie' = cookie, holders' = holders,
              from' \in Pages \cup {Nowhere}
       PROVE  OwnInv'
  <2>1. PICK d, m, cs, k : d = me.data /\ m = me /\ cs = calls /\ k = cookie
    OBVIOUS
  <2>2. Go(page, d, m, cs, r, k)
    BY <1>15, <2>1
  <2>3. m \in Caches(n) /\ cs \in Calls(n) /\ k \in 0..n
    BY <1>1, <2>1
  <2>4. /\ me'.data = m.data /\ rows'.owner = r.owner
        /\ d = NoSession => rows' = r /\ (me'.fetch = m.fetch \/ me'.fetch = Ask(k))
        /\ d # NoSession => me' = m /\ (rows'.fetch = Ask(k) \/ rows'.fetch = r.fetch)
    BY <1>1, <1>15, <2>2, <2>3, GoFacts
  <2> QED
    BY <1>6, <1>11, <1>15, <2>1, <2>4
\* One step per action.
<1>20. CASE Visit
  <2>1. from' \in Pages \cup {Nowhere}
    BY <1>1, <1>20 DEF Visit, PageTypes
  <2>2. PICK p \in Pages : Go(p, me.data, me, calls, Unmounted(rows), cookie)
    BY <1>20 DEF Visit
  <2> QED
    BY <1>6, <1>15, <1>20, <2>1, <2>2 DEF Visit
<1>21. CASE BackToLogin
  BY <1>6, <1>11, <1>21 DEF BackToLogin
<1>22. CASE BackToPage
  BY <1>1, <1>5, <1>15, <1>22 DEF BackToPage
<1>23. CASE SubmitLogin \/ LogOut \/ ChangePassword
  BY <1>11, <1>23 DEF SubmitLogin, LogOut, ChangePassword
<1>24. CASE LeavePassword
  <2>1. from' \in Pages \cup {Nowhere}
    BY <1>1, <1>24 DEF LeavePassword, PageTypes
  <2> QED
    BY <1>5, <1>6, <1>15, <1>24, <2>1 DEF LeavePassword
<1>40. CASE Reload
  <2>1. /\ me' = [NoCache EXCEPT !.fetch = Ask(cookie)] /\ rows' = NoRows
        /\ holders' = StillHolding /\ UNCHANGED <<sessions, cookie>>
    BY <1>40 DEF Reload
  <2>2. me'.data = NoSession /\ me'.fetch = Ask(cookie)
    BY <1>4, <2>1 DEF NoCache
  <2> QED
    BY <1>12, <2>1, <2>2
<1>25. CASE ServeMe
  <2>1. UNCHANGED <<rows, cookie, holders, sessions>>
    BY <1>25 DEF ServeMe
  <2>2. CASE me' = me
    BY <1>11, <2>1, <2>2
  <2>3. CASE me' = [me EXCEPT !.fetch = Answer(@)]
    <3>1. me'.fetch = Answer(me.fetch) /\ me'.data = me.data
      BY <1>1, <2>3 DEF Caches
    <3>2. /\ Answer(me.fetch).sess = me.fetch.sess
          /\ Answer(me.fetch).answer # NoSession =>
                Alive(me.fetch.sess) /\ Answer(me.fetch).answer.user = sessions[me.fetch.sess].user
      BY <1>0, <1>1, <1>7, AnswerTypes
    <3>3. Own(me.fetch)'
      BY <2>1, <3>1, <3>2 DEF OwnInv, Own, Alive
    <3> QED
      BY <2>1, <3>1, <3>3 DEF OwnInv, NothingLeftBehind, Alive
  <2> QED
    BY <1>25, <2>2, <2>3 DEF ServeMe
<1>26. ASSUME NEW op \in Ops, ServeCall(op) PROVE OwnInv'
  BY <1>11, <1>26 DEF ServeCall
<1>27. CASE EndSession
  BY <1>11, <1>27 DEF EndSession
<1>28. CASE LoseAnswer
  <2>1. UNCHANGED <<cookie, holders>>
    BY <1>28 DEF LoseAnswer
  <2>2. me'.data = me.data /\ me'.fetch \in {me.fetch, Idle}
    BY <1>1, <1>28 DEF LoseAnswer, Caches
  <2>3. rows'.owner = rows.owner /\ rows'.fetch \in {rows.fetch, Idle}
    <3>1. rows' \in {rows, Left(rows), [rows EXCEPT !.fetch = Idle], [rows EXCEPT !.poll = Idle]}
      BY <1>28 DEF LoseAnswer
    <3> QED BY <1>1, <1>6, <3>1 DEF RowSets
  <2> QED
    BY <1>11, <2>1, <2>2, <2>3
<1>29. CASE MeArrives
  <2>0. UNCHANGED <<cookie, sessions>>
    BY <1>29 DEF MeArrives
  <2>1. CASE me.fetch.answer = NoSession
    BY <1>1, <1>14, <1>29, <2>0, <2>1 DEF MeArrives
  <2>2. CASE me.fetch.answer # NoSession
    <3>1. PICK s : s = me.fetch.answer
      OBVIOUS
    <3>2. s # NoSession /\ s.user \in holders /\ holders' = holders
      BY <1>29, <2>2, <3>1 DEF OwnInv, Own, MeArrives
    <3>3. CASE going = Nowhere
      <4>1. rows' = rows /\ me' = [data |-> s, fetch |-> Idle]
        BY <1>29, <2>2, <3>1, <3>3 DEF MeArrives
      <4> QED
        BY <1>10, <2>0, <3>2, <4>1
    <3>4. CASE going # Nowhere
      <4>1. PICK p \in Pages : p = going
        BY <1>1, <3>4 DEF PageTypes
      <4>2. Go(p, s, [data |-> s, fetch |-> Idle], Resolved(calls), rows, cookie)
        BY <1>29, <2>2, <3>1, <3>4, <4>1 DEF MeArrives
      <4>3. Resolved(calls) \in Calls(n)
        BY <1>1, MountTypes
      <4>4. PICK m, cs, r, k : m = [data |-> s, fetch |-> Idle] /\ cs = Resolved(calls) /\ r = rows /\ k = cookie
        OBVIOUS
      <4>5. Go(p, s, m, cs, r, k)
        BY <4>2, <4>4
      <4>6. cs \in Calls(n) /\ r \in RowSets(n) /\ k \in 0..n
        BY <1>1, <4>3, <4>4
      <4>7. me' = m /\ rows'.owner = r.owner /\ (rows'.fetch = Ask(k) \/ rows'.fetch = r.fetch)
        BY <3>2, <4>5, <4>6, GoEnters
      <4> QED
        BY <1>10, <2>0, <3>2, <4>4, <4>7
    <3> QED
      BY <3>3, <3>4
  <2> QED
    BY <2>1, <2>2
<1>30. CASE LateMeArrives
  <2>1. PICK f \in dropped :
          /\ IF f.answer = NoSession THEN Unauthorized(calls, dropped \ {f})
             ELSE UNCHANGED <<me, rows, loc, going, next, calls, from, holders>>
          /\ UNCHANGED <<cookie, sessions>>
    BY <1>30 DEF LateMeArrives
  <2>2. dropped \ {f} \in SUBSET Fetches(n)
    BY <1>1
  <2> QED
    BY <1>1, <1>11, <1>14, <2>1, <2>2
<1>31. CASE RowsArrive
  <2>0. UNCHANGED <<cookie, sessions>>
    BY <1>31 DEF RowsArrive
  <2>1. CASE ~Alive(rows.fetch.sess)
    BY <1>1, <1>14, <1>31, <2>0, <2>1 DEF RowsArrive
  <2>2. CASE Alive(rows.fetch.sess)
    <3>1. /\ UNCHANGED <<me, holders>>
          /\ rows' = [rows EXCEPT !.owner = sessions[rows.fetch.sess].user, !.fetch = Idle]
      BY <1>31, <2>2 DEF RowsArrive
    <3>2. rows'.fetch = Idle /\ rows'.owner = sessions[rows.fetch.sess].user
      BY <1>1, <3>1 DEF RowSets
    <3> QED
      BY <1>2, <2>0, <2>2, <3>1, <3>2 DEF OwnInv, Own, NothingLeftBehind, Alive
  <2> QED
    BY <2>1, <2>2
<1>32. CASE PollRate
  <2>1. rows' = [rows EXCEPT !.poll = Ask(cookie)] /\ UNCHANGED <<me, cookie, holders>>
    BY <1>32 DEF PollRate
  <2>2. rows'.fetch = rows.fetch /\ rows'.owner = rows.owner
    BY <1>1, <2>1 DEF RowSets
  <2> QED
    BY <1>11, <2>1, <2>2
<1>41. CASE RateArrives
  <2>0. UNCHANGED <<cookie, sessions>>
    BY <1>41 DEF RateArrives
  <2>1. CASE ~Alive(rows.poll.sess)
    BY <1>1, <1>14, <1>41, <2>0, <2>1 DEF RateArrives
  <2>2. CASE Alive(rows.poll.sess)
    <3>1. UNCHANGED <<me, holders>> /\ rows' = [rows EXCEPT !.poll = Idle]
      BY <1>41, <2>2 DEF RateArrives
    <3>2. rows'.fetch = rows.fetch /\ rows'.owner = rows.owner
      BY <1>1, <3>1 DEF RowSets
    <3> QED
      BY <1>11, <2>0, <3>1, <3>2
  <2> QED
    BY <2>1, <2>2
<1>33. ASSUME me' = [me EXCEPT !.fetch = Ask(cookie)], UNCHANGED <<rows, cookie, holders>>
       PROVE  OwnInv'
  <2>1. me'.fetch = Ask(cookie) /\ me'.data = me.data
    BY <1>1, <1>33 DEF Caches
  <2> QED
    BY <1>11, <1>33, <2>1
<1>34. CASE StaleMe
  BY <1>33, <1>34 DEF StaleMe
<1>35. CASE LoginDone
  <2> DEFINE c == calls["login"]
             s == [id |-> Len(sessions), user |-> c.user, must |-> c.user \in forced]
             cs == [calls EXCEPT !["login"] = NoCall]
             cache == [me EXCEPT !.data = s]
             page == IF s.must THEN "password" ELSE IF next \in Pages THEN next ELSE "dashboard"
  <2>0. UNCHANGED sessions
    BY <1>35 DEF LoginDone
  <2>1. cs \in Calls(n)
    BY <1>1, <1>5, CallTypes
  <2>2. CASE c.step = "ok"
    <3>1. n > 0 /\ sessions[n].user = c.user /\ s.id = n /\ s.user = c.user
      BY <1>0, <2>2 DEF LoginServed
    <3>2. s # NoSession
      <4>1. NoSession.id = 0
        BY DEF NoSession
      <4> HIDE DEF s
      <4> QED BY <3>1, <4>1
    <3>3. cache.data = s /\ cache.fetch = me.fetch
      <4> HIDE DEF s
      <4> QED BY <1>1 DEF Caches
    <3>4. page \in Pages
      BY <1>5
    <3>5. cookie' = n /\ holders' = holders \cup {c.user}
      BY <1>35, <2>2, <3>1 DEF LoginDone
    <3>6. me' = cache /\ rows'.owner = rows.owner /\ (rows'.fetch = rows.fetch \/ rows'.fetch = Ask(n))
      <4>1. CASE c.live
        <5>1. Go(page, s, cache, cs, rows, s.id)
          BY <1>35, <2>2, <4>1 DEF LoginDone
        <5> HIDE DEF s, cs, cache, page, c
        <5>2. PICK d, m, q, r, k, p : d = s /\ m = cache /\ q = cs /\ r = rows /\ k = n /\ p = page
          OBVIOUS
        <5>3. Go(p, d, m, q, r, k)
          BY <3>1, <5>1, <5>2
        <5>4. d # NoSession /\ q \in Calls(n) /\ r \in RowSets(n) /\ p \in Pages /\ k \in 0..n
          BY <1>1, <2>1, <3>2, <3>4, <5>2
        <5>5. me' = m /\ rows'.owner = r.owner /\ (rows'.fetch = Ask(k) \/ rows'.fetch = r.fetch)
          BY <5>3, <5>4, GoEnters
        <5> QED
          BY <5>2, <5>5
      <4>2. CASE ~c.live
        BY <1>35, <2>2, <4>2 DEF LoginDone
      <4> QED BY <4>1, <4>2
    <3> HIDE DEF s, cs, cache, page
    <3>7. n \in 0..n /\ Ask(n).sess = n
      BY <1>2
    <3>8. (Alive(cookie) => sessions[cookie].user \in holders)'
      BY <2>0, <3>1, <3>5 DEF Alive
    <3>9. Own(me.fetch)'
      BY <2>0, <3>3, <3>5, <3>6 DEF OwnInv, Own, Alive
    <3>10. (Alive(rows.fetch.sess) => sessions[rows.fetch.sess].user \in holders)'
      BY <2>0, <3>1, <3>5, <3>6, <3>7 DEF OwnInv, Alive
    <3>11. NothingLeftBehind'
      BY <3>1, <3>3, <3>5, <3>6 DEF OwnInv, NothingLeftBehind
    <3> QED
      BY <3>8, <3>9, <3>10, <3>11 DEF OwnInv
  <2>8. CASE c.step # "ok"
    BY <1>11, <1>35, <2>8 DEF LoginDone
  <2> QED
    BY <2>2, <2>8
<1>36. CASE LogoutDone
  BY <1>4, <1>12, <1>36 DEF LogoutDone, Cleared
<1>37. CASE ChangeDone
  <2>0. UNCHANGED <<cookie, sessions>>
    BY <1>37 DEF ChangeDone
  <2>1. CASE calls["change"].step = "ok"
    <3>1. /\ UNCHANGED <<rows, holders>>
          /\ me' = me \/ me' = [me EXCEPT !.fetch = Ask(cookie)]
      BY <1>37, <2>1 DEF ChangeDone
    <3> QED
      BY <1>11, <1>33, <2>0, <3>1
  <2>2. CASE calls["change"].step = "unauthorized"
    <3>1. [calls EXCEPT !["change"] = NoCall] \in Calls(n)
      BY <1>1, <1>5, CallTypes
    <3>2. Unauthorized([calls EXCEPT !["change"] = NoCall], dropped)
      BY <1>37, <2>2 DEF ChangeDone
    <3> QED
      BY <1>1, <1>14, <2>0, <3>1, <3>2
  <2>3. CASE calls["change"].step \notin {"ok", "unauthorized"}
    <3>1. UNCHANGED <<me, rows, holders>>
      BY <1>37, <2>3 DEF ChangeDone
    <3> QED
      BY <1>11, <2>0, <3>1
  <2> QED
    BY <2>1, <2>2, <2>3
<1>38. CASE ChangeSettled \/ UNCHANGED sessionVars
  BY <1>11, <1>38 DEF ChangeSettled, sessionVars
<1>39. DOMAIN calls = Ops
  BY <1>1 DEF Calls
<1> QED
  BY <1>20, <1>21, <1>22, <1>23, <1>24, <1>25, <1>26, <1>27, <1>28, <1>29, <1>30, <1>31, <1>32, <1>34,
     <1>35, <1>36, <1>37, <1>38, <1>39, <1>40, <1>41 DEF SessionNext

\* The login page and its call.
LEMMA LoginStep ==
  ASSUME TypeOK, LoginInv, LoginServed, [SessionNext]_sessionVars
  PROVE  LoginInv'
<1>0. PICK n \in Nat : n = Len(sessions)
  BY DEF TypeOK, ServerTypes
<1>1. /\ PageTypes /\ cookie \in 0..n /\ me \in Caches(n) /\ dropped \subseteq Fetches(n)
      /\ rows \in RowSets(n) /\ calls \in Calls(n)
  BY <1>0 DEF TypeOK, CacheTypes, ServerTypes
<1>3. "login" \in Ops /\ "logout" \in Ops /\ "change" \in Ops /\ "ok" \in Steps
      /\ "login" \notin Pages /\ "logs" \in Pages /\ "dashboard" \in Pages
  BY DEF Ops, Steps, Pages
<1>4. /\ DOMAIN calls = Ops
      /\ \A op \in Ops : calls[op] \in [step : Steps, sess : 0..n, csrf : Nat, user : Accounts, live : BOOLEAN]
  BY <1>1 DEF Calls
<1>5. Unmounted(rows) \in RowSets(n)
  BY <1>1, MountTypes
<1>6. NoCall.step = "idle" /\ ~NoCall.live
  BY DEF NoCall
\* The three ways in which a step treats the login page.
<1>10. ASSUME calls'["login"].live => calls["login"].live,
              loc' = loc, next' = next, from' = from \/ from' = Nowhere
       PROVE  LoginInv'
  BY <1>10 DEF LoginInv
<1>11. ASSUME NEW cs \in Calls(n), loc' \in Pages \cup {"error"}, calls' = LeaveTo(loc', cs)
       PROVE  LoginInv'
  <2>1. PICK p : p = loc'
    OBVIOUS
  <2>2. LeaveTo(p, cs)["login"].live => StaysAt("login", p)
    BY <1>3, <1>11, LeaveFacts
  <2>3. ~StaysAt("login", p)
    BY <1>3, <1>11, <2>1 DEF StaysAt
  <2>4. calls' = LeaveTo(p, cs)
    BY <1>11, <2>1
  <2>5. ~calls'["login"].live /\ loc' # "login"
    BY <1>3, <1>11, <2>2, <2>3, <2>4
  <2> QED
    BY <2>5 DEF LoginInv
<1>12. ASSUME NEW cs \in Calls(n), cs["login"] = calls["login"],
              loc' = "login", next' = from', calls' = LeaveTo("login", cs)
       PROVE  LoginInv'
  BY <1>12 DEF LoginInv
<1>13. ASSUME NEW cs \in Calls(n), cs["login"] = calls["login"], NEW reads \in SUBSET Fetches(n),
              Unauthorized(cs, reads)
       PROVE  LoginInv'
  <2>1. \/ UNCHANGED <<me, rows, loc, going, next, from>> /\ calls' = cs
        \/ loc' = "login" /\ next' = from' /\ calls' = LeaveTo("login", Resolved(cs))
    BY <1>0, <1>13, UnauthorizedFacts
  <2>2. Resolved(cs) \in Calls(n) /\ Resolved(cs)["login"] = calls["login"]
    BY <1>1, <1>13, MountTypes
  <2> QED
    BY <1>10, <1>12, <1>13, <2>1, <2>2
<1>14. ASSUME NEW page \in Pages, NEW r \in RowSets(n), Go(page, me.data, me, calls, r, cookie),
              from' = from \/ from' = Nowhere
       PROVE  LoginInv'
  <2>1. CASE me.data = NoSession
    <3>1. calls' = calls /\ loc' = loc /\ next' = next
      BY <1>14, <2>1 DEF Go
    <3> QED
      BY <1>10, <1>14, <3>1
  <2>2. CASE me.data # NoSession
    <3>1. loc' = Admitted(me.data, page) /\ calls' = LeaveTo(loc', calls)
      BY <1>14, <2>2 DEF Go
    <3>2. loc' \in Pages
      BY <3>1 DEF Admitted, Pages
    <3> QED
      BY <1>1, <1>11, <3>1, <3>2
  <2> QED
    BY <2>1, <2>2
\* One step per action.
<1>20. CASE Visit
  BY <1>5, <1>14, <1>20 DEF Visit
<1>21. CASE BackToLogin
  <2>1. next' = from' /\ loc' = "login" /\ calls' = LeaveTo("login", calls)
    BY <1>21 DEF BackToLogin
  <2> QED
    BY <1>1, <1>12, <2>1
<1>22. CASE BackToPage
  BY <1>1, <1>3, <1>14, <1>22 DEF BackToPage
<1>23. CASE SubmitLogin
  <2>1. /\ loc = "login" /\ UNCHANGED <<sessions, loc, next, from>>
        /\ \E u \in People : calls' = Send("login", u)
    BY <1>23 DEF SubmitLogin
  <2>2. calls'["login"].step = "sent"
    BY <1>3, <1>4, <2>1 DEF Send
  <2> QED
    BY <2>1, <2>2 DEF LoginInv
<1>24. CASE LogOut \/ ChangePassword
  <2>1. UNCHANGED <<loc, next, from>> /\ calls'["login"] = calls["login"]
    BY <1>3, <1>4, <1>24 DEF LogOut, ChangePassword, Send
  <2> QED
    BY <1>10, <2>1
<1>25. CASE LeavePassword
  BY <1>3, <1>5, <1>14, <1>25 DEF LeavePassword
<1>26. CASE ServeMe \/ EndSession \/ PollRate \/ StaleMe \/ UNCHANGED sessionVars
  BY <1>10, <1>26 DEF ServeMe, EndSession, PollRate, StaleMe, sessionVars
<1>36. CASE Reload
  <2>1. loc \in Pages \cup {"error"} /\ loc' = "boot" /\ calls' = calls
    BY <1>36 DEF Reload
  <2> QED
    BY <1>3, <2>1 DEF LoginInv
<1>27. ASSUME NEW op \in Ops, ServeCall(op) PROVE LoginInv'
  <2>1. PICK v : calls' = [calls EXCEPT ![op].step = v] /\ UNCHANGED <<loc, next, from>>
    BY <1>27 DEF ServeCall
  <2>2. calls'["login"].live = calls["login"].live
    BY <1>3, <1>4, <2>1
  <2> QED
    BY <1>10, <2>1, <2>2
<1>28. CASE LoseAnswer
  <2>1. UNCHANGED <<next, from>>
    BY <1>28 DEF LoseAnswer
  <2>2. Resolved(calls) \in Calls(n) /\ Resolved(calls)["login"] = calls["login"]
    BY <1>1, MountTypes
  <2>3. CASE (calls' = Resolved(calls) \/ calls' = calls) /\ loc' = loc
    BY <1>10, <2>1, <2>2, <2>3
  <2>4. CASE calls' = LeaveTo("error", Resolved(calls)) /\ loc' = "error"
    BY <1>11, <2>2, <2>4
  <2>5. ASSUME NEW op \in DOMAIN calls, calls' = [calls EXCEPT ![op].step = "lost"], loc' = loc PROVE LoginInv'
    <3>1. calls'["login"].live = calls["login"].live
      BY <1>3, <1>4, <2>5
    <3> QED
      BY <1>10, <2>1, <2>5, <3>1
  <2> QED
    BY <1>28, <2>3, <2>4, <2>5 DEF LoseAnswer
<1>29. CASE MeArrives
  <2>1. CASE me.fetch.answer = NoSession
    BY <1>1, <1>13, <1>29, <2>1 DEF MeArrives
  <2>2. CASE me.fetch.answer # NoSession
    <3>1. PICK s : s = me.fetch.answer
      OBVIOUS
    <3>2. Resolved(calls) \in Calls(n) /\ Resolved(calls)["login"] = calls["login"]
      BY <1>1, MountTypes
    <3>3. CASE going = Nowhere
      <4>1. UNCHANGED <<loc, next, from>> /\ calls' = Resolved(calls)
        BY <1>29, <2>2, <3>3 DEF MeArrives
      <4> QED
        BY <1>10, <3>2, <4>1
    <3>4. CASE going # Nowhere
      <4>1. PICK p \in Pages : p = going
        BY <1>1, <3>4 DEF PageTypes
      <4>2. Go(p, s, [data |-> s, fetch |-> Idle], Resolved(calls), rows, cookie)
        BY <1>29, <2>2, <3>1, <3>4, <4>1 DEF MeArrives
      <4>3. loc' = Admitted(s, p) /\ calls' = LeaveTo(loc', Resolved(calls))
        BY <2>2, <3>1, <4>2 DEF Go
      <4>4. loc' \in Pages
        BY <4>3 DEF Admitted, Pages
      <4> QED
        BY <1>11, <3>2, <4>3, <4>4
    <3> QED
      BY <3>3, <3>4
  <2> QED
    BY <2>1, <2>2
<1>30. CASE LateMeArrives
  <2>1. PICK f \in dropped :
          IF f.answer = NoSession THEN Unauthorized(calls, dropped \ {f})
          ELSE UNCHANGED <<me, rows, loc, going, next, calls, from>>
    BY <1>30 DEF LateMeArrives
  <2>2. dropped \ {f} \in SUBSET Fetches(n)
    BY <1>1
  <2> QED
    BY <1>1, <1>10, <1>13, <2>1, <2>2
<1>31. CASE RowsArrive \/ RateArrives
  <2>1. \/ Unauthorized(calls, dropped)
        \/ UNCHANGED <<loc, going, next, calls, from>>
    BY <1>31 DEF RowsArrive, RateArrives
  <2> QED
    BY <1>1, <1>10, <1>13, <2>1
<1>32. CASE LoginDone
  <2> DEFINE c == calls["login"]
             s == [id |-> Len(sessions), user |-> c.user, must |-> c.user \in forced]
             cs == [calls EXCEPT !["login"] = NoCall]
             cache == [me EXCEPT !.data = s]
             page == IF s.must THEN "password" ELSE IF next \in Pages THEN next ELSE "dashboard"
  <2>1. cs \in Calls(n) /\ cs["login"] = NoCall
    <3>1. cs \in Calls(n)
      BY <1>1, <1>3, CallTypes
    <3> QED BY <1>3, <1>4, <3>1
  <2>2. UNCHANGED from
    BY <1>32 DEF LoginDone
  <2>3. CASE c.step = "ok" /\ c.live
    <3>1. Go(page, s, cache, cs, rows, s.id)
      BY <1>32, <2>3 DEF LoginDone
    <3>2. s # NoSession
      <4>1. s.id = Len(sessions) /\ NoSession.id = 0
        BY DEF NoSession
      <4>2. Len(sessions) # 0
        BY <1>0, <2>3 DEF LoginServed
      <4> HIDE DEF s
      <4> QED BY <4>1, <4>2
    <3>3. page \in Pages
      BY DEF Pages
    <3> HIDE DEF s, cs, cache, page, c
    <3>4. loc' = Admitted(s, page) /\ calls' = LeaveTo(loc', cs)
      BY <3>1, <3>2 DEF Go
    <3>5. loc' \in Pages
      BY <3>3, <3>4 DEF Admitted, Pages
    <3> QED
      BY <1>11, <2>1, <3>4, <3>5
  <2>4. CASE ~(c.step = "ok" /\ c.live)
    <3>1. calls' = cs /\ UNCHANGED <<loc, next>>
      BY <1>32, <2>4 DEF LoginDone
    <3> HIDE DEF cs
    <3> QED
      BY <1>6, <1>10, <2>1, <2>2, <3>1
  <2> QED
    BY <2>3, <2>4
<1>33. CASE LogoutDone
  <2> DEFINE cs == Resolved([calls EXCEPT !["logout"] = NoCall])
  <2>1. cs \in Calls(n) /\ cs["login"] = calls["login"]
    <3>1. [calls EXCEPT !["logout"] = NoCall] \in Calls(n)
      BY <1>1, <1>3, CallTypes
    <3>2. [calls EXCEPT !["logout"] = NoCall]["login"] = calls["login"]
      BY <1>3, <1>4
    <3> QED BY <1>1, <3>1, <3>2, MountTypes
  <2>2. CASE calls["logout"].live
    <3>1. calls' = LeaveTo("login", cs) /\ loc' = "login" /\ next' = from'
      BY <1>33, <2>2 DEF LogoutDone
    <3> HIDE DEF cs
    <3> QED BY <1>12, <2>1, <3>1
  <2>3. CASE ~calls["logout"].live
    <3>1. calls' = cs /\ UNCHANGED <<loc, next, from>>
      BY <1>33, <2>3 DEF LogoutDone
    <3> HIDE DEF cs
    <3> QED BY <1>10, <2>1, <3>1
  <2> QED
    BY <2>2, <2>3
<1>34. CASE ChangeDone
  <2>1. CASE calls["change"].step = "unauthorized"
    <3>1. [calls EXCEPT !["change"] = NoCall] \in Calls(n)
      BY <1>1, <1>3, CallTypes
    <3>2. [calls EXCEPT !["change"] = NoCall]["login"] = calls["login"]
      BY <1>3, <1>4
    <3>3. Unauthorized([calls EXCEPT !["change"] = NoCall], dropped)
      BY <1>34, <2>1 DEF ChangeDone
    <3> QED
      BY <1>1, <1>13, <3>1, <3>2, <3>3
  <2>2. CASE calls["change"].step # "unauthorized"
    <3>1. UNCHANGED <<loc, next, from>> /\ \E c : calls' = [calls EXCEPT !["change"] = c]
      BY <1>34, <2>2 DEF ChangeDone
    <3>2. calls'["login"] = calls["login"]
      BY <1>3, <1>4, <3>1
    <3> QED
      BY <1>10, <3>1, <3>2
  <2> QED
    BY <2>1, <2>2
<1>35. CASE ChangeSettled
  <2>1. UNCHANGED <<loc, next, from>> /\ calls'["login"] = calls["login"]
    BY <1>3, <1>4, <1>35 DEF ChangeSettled
  <2> QED
    BY <1>10, <2>1
<1> QED
  BY <1>4, <1>20, <1>21, <1>22, <1>23, <1>24, <1>25, <1>26, <1>27, <1>28, <1>29, <1>30, <1>31, <1>32,
     <1>33, <1>34, <1>35, <1>36 DEF SessionNext

\* What becomes of a login: it is sent, served, lost or answered, and nothing else
\* changes its step or whose it is.
LEMMA LoginCall ==
  ASSUME TypeOK, [SessionNext]_sessionVars
  PROVE  \/ SubmitLogin \/ ServeCall("login") \/ LoginDone \/ calls'["login"].step = "lost"
         \/ calls'["login"].step = calls["login"].step /\ calls'["login"].user = calls["login"].user
<1> DEFINE Still == calls'["login"].step = calls["login"].step /\ calls'["login"].user = calls["login"].user
<1>0. PICK n \in Nat : n = Len(sessions)
  BY DEF TypeOK, ServerTypes
<1>1. /\ PageTypes /\ cookie \in 0..n /\ me \in Caches(n) /\ dropped \subseteq Fetches(n)
      /\ rows \in RowSets(n) /\ calls \in Calls(n)
  BY <1>0 DEF TypeOK, CacheTypes, ServerTypes
<1>2. "login" \in Ops /\ "logout" \in Ops /\ "change" \in Ops /\ "ok" \in Steps
  BY DEF Ops, Steps
<1>3. /\ DOMAIN calls = Ops
      /\ \A op \in Ops : calls[op] \in [step : Steps, sess : 0..n, csrf : Nat, user : Accounts, live : BOOLEAN]
  BY <1>1 DEF Calls
<1>4. ASSUME calls'["login"] = calls["login"] PROVE Still
  BY <1>4
<1>5. ASSUME NEW cs \in Calls(n), cs["login"] = calls["login"], NEW page, calls' = LeaveTo(page, cs)
      PROVE  Still
  BY <1>2, <1>5, LeaveFacts
<1>6. ASSUME NEW cs \in Calls(n), cs["login"] = calls["login"], NEW reads \in SUBSET Fetches(n),
             Unauthorized(cs, reads)
      PROVE  Still
  <2>1. calls' = cs \/ calls' = LeaveTo("login", Resolved(cs))
    BY <1>6 DEF Unauthorized
  <2>2. Resolved(cs) \in Calls(n) /\ Resolved(cs)["login"] = calls["login"]
    BY <1>1, <1>6, MountTypes
  <2> QED
    BY <1>4, <1>5, <1>6, <2>1, <2>2
<1>7. ASSUME NEW page, NEW session, NEW cache, NEW cs \in Calls(n), cs["login"] = calls["login"],
             NEW r, NEW s, Go(page, session, cache, cs, r, s)
      PROVE  Still
  <2>1. PICK p : p = loc'
    OBVIOUS
  <2>2. calls' = cs \/ calls' = LeaveTo(p, cs)
    BY <1>7, <2>1 DEF Go
  <2> QED
    BY <1>4, <1>5, <1>7, <2>2
<1>10. CASE Visit \/ BackToPage \/ LeavePassword
  BY <1>1, <1>7, <1>10 DEF Visit, BackToPage, LeavePassword
<1>11. CASE BackToLogin
  BY <1>1, <1>5, <1>11 DEF BackToLogin
<1>12. CASE Reload
  BY <1>4, <1>12 DEF Reload
<1>13. CASE LogOut \/ ChangePassword \/ ChangeSettled
  <2>1. calls'["login"] = calls["login"]
    BY <1>2, <1>3, <1>13 DEF LogOut, ChangePassword, ChangeSettled, Send
  <2> QED
    BY <1>4, <2>1
<1>14. CASE ServeMe \/ EndSession \/ PollRate \/ StaleMe \/ UNCHANGED sessionVars
  BY <1>4, <1>14 DEF ServeMe, EndSession, PollRate, StaleMe, sessionVars
<1>15. ASSUME NEW op \in Ops, ServeCall(op), op # "login" PROVE Still
  <2>1. op # "login" /\ \E v : calls' = [calls EXCEPT ![op].step = v]
    BY <1>15 DEF ServeCall
  <2>2. calls'["login"] = calls["login"]
    BY <1>2, <1>3, <2>1
  <2> QED
    BY <1>4, <2>2
<1>16. CASE LoseAnswer
  <2>1. Resolved(calls) \in Calls(n) /\ Resolved(calls)["login"] = calls["login"]
    BY <1>1, MountTypes
  <2>2. CASE calls' \in {calls, Resolved(calls), LeaveTo("error", Resolved(calls))}
    BY <1>4, <1>5, <2>1, <2>2
  <2>3. ASSUME NEW op \in DOMAIN calls, calls' = [calls EXCEPT ![op].step = "lost"]
        PROVE  Still \/ calls'["login"].step = "lost"
    BY <1>2, <1>3, <2>3
  <2> QED
    BY <1>16, <2>2, <2>3 DEF LoseAnswer
<1>17. CASE MeArrives
  <2>1. Resolved(calls) \in Calls(n) /\ Resolved(calls)["login"] = calls["login"]
    BY <1>1, MountTypes
  <2>2. \/ Unauthorized(calls, dropped) \/ calls' = Resolved(calls)
        \/ Go(going, me.fetch.answer, [data |-> me.fetch.answer, fetch |-> Idle], Resolved(calls), rows, cookie)
    BY <1>17 DEF MeArrives
  <2>3. CASE Go(going, me.fetch.answer, [data |-> me.fetch.answer, fetch |-> Idle], Resolved(calls), rows, cookie)
    BY <1>7, <2>1, <2>3
  <2> QED
    BY <1>1, <1>4, <1>6, <2>1, <2>2, <2>3
<1>18. CASE LateMeArrives
  <2>1. PICK f \in dropped : Unauthorized(calls, dropped \ {f}) \/ UNCHANGED calls
    BY <1>18 DEF LateMeArrives
  <2>2. dropped \ {f} \in SUBSET Fetches(n)
    BY <1>1
  <2> QED
    BY <1>1, <1>4, <1>6, <2>1, <2>2
<1>19. CASE RowsArrive \/ RateArrives
  <2>1. Unauthorized(calls, dropped) \/ UNCHANGED calls
    BY <1>19 DEF RowsArrive, RateArrives
  <2> QED
    BY <1>1, <1>4, <1>6, <2>1
<1>20. CASE LogoutDone
  <2> DEFINE cs == Resolved([calls EXCEPT !["logout"] = NoCall])
  <2>1. cs \in Calls(n) /\ cs["login"] = calls["login"]
    <3>1. [calls EXCEPT !["logout"] = NoCall] \in Calls(n)
      BY <1>1, <1>2, CallTypes
    <3>2. [calls EXCEPT !["logout"] = NoCall]["login"] = calls["login"]
      BY <1>2, <1>3
    <3> QED BY <1>1, <3>1, <3>2, MountTypes
  <2>2. calls' = LeaveTo("login", cs) \/ calls' = cs
    BY <1>20 DEF LogoutDone
  <2> HIDE DEF cs
  <2> QED
    BY <1>4, <1>5, <2>1, <2>2
<1>21. CASE ChangeDone
  <2>1. [calls EXCEPT !["change"] = NoCall] \in Calls(n)
    BY <1>1, <1>2, CallTypes
  <2>2. \A c : [calls EXCEPT !["change"] = c]["login"] = calls["login"]
    BY <1>2, <1>3
  <2>3. \/ \E c : calls' = [calls EXCEPT !["change"] = c]
        \/ Unauthorized([calls EXCEPT !["change"] = NoCall], dropped)
    BY <1>21 DEF ChangeDone
  <2> QED
    BY <1>1, <1>4, <1>6, <2>1, <2>2, <2>3
<1> QED
  BY <1>3, <1>10, <1>11, <1>12, <1>13, <1>14, <1>15, <1>16, <1>17, <1>18, <1>19, <1>20, <1>21 DEF SessionNext

\* The login that was answered keeps the last session.
LEMMA ServedStep ==
  ASSUME TypeOK, LoginServed, [SessionNext]_sessionVars
  PROVE  LoginServed'
<1>1. /\ Len(sessions) \in Nat /\ \E S : sessions \in Seq(S)
      /\ \A k \in 1..Len(sessions) : sessions'[k].user = sessions[k].user
      /\ Len(sessions') = Len(sessions) \/ ServeCall("login")
  BY UsersStay DEF TypeOK, ServerTypes
<1>2. /\ DOMAIN calls = Ops /\ "login" \in Ops
      /\ calls["login"] \in [step : Steps, sess : 0..Len(sessions), csrf : Nat, user : Accounts, live : BOOLEAN]
  BY DEF TypeOK, CacheTypes, Calls, Ops
<1>3. CASE ServeCall("login")
  <2>1. PICK v : /\ calls' = [calls EXCEPT !["login"].step = v]
                 /\ v = "ok" => sessions' = Append(sessions, [user |-> calls["login"].user, alive |-> TRUE])
    BY <1>3 DEF ServeCall
  <2>2. calls'["login"].step = v /\ calls'["login"].user = calls["login"].user
    BY <1>2, <2>1
  <2>3. CASE v = "ok"
    <3>1. PICK e : e = [user |-> calls["login"].user, alive |-> TRUE]
      OBVIOUS
    <3>2. sessions' = Append(sessions, e)
      BY <2>1, <2>3, <3>1
    <3>3. Len(sessions') = Len(sessions) + 1 /\ sessions'[Len(sessions) + 1] = e
      BY <1>1, <3>2
    <3> QED
      BY <1>1, <2>2, <3>1, <3>3 DEF LoginServed
  <2> QED
    BY <2>2, <2>3 DEF LoginServed
<1>4. CASE SubmitLogin \/ LoginDone \/ calls'["login"].step = "lost"
  <2>1. SubmitLogin => calls'["login"].step = "sent"
    BY <1>2 DEF SubmitLogin, Send
  <2>2. LoginDone => calls'["login"].step # "ok"
    <3> SUFFICES ASSUME LoginDone PROVE calls'["login"].step # "ok"
      OBVIOUS
    <3> DEFINE cs == [calls EXCEPT !["login"] = NoCall]
    <3>1. PICK n \in Nat : n = Len(sessions)
      BY <1>1
    <3>2. calls \in Calls(n) /\ "ok" \in Steps
      BY <3>1 DEF TypeOK, CacheTypes, Steps
    <3>3. cs \in Calls(n) /\ cs["login"].step = "idle"
      BY <1>2, <3>2, CallTypes DEF NoCall
    <3>4. PICK p : p = loc'
      OBVIOUS
    <3>5. calls' = cs \/ calls' = LeaveTo(p, cs)
      BY <3>4 DEF LoginDone, Go
    <3> HIDE DEF cs
    <3> QED
      BY <1>2, <3>3, <3>5, LeaveFacts
  <2> QED
    BY <1>4, <2>1, <2>2 DEF LoginServed
<1>5. CASE /\ ~ServeCall("login")
           /\ calls'["login"].step = calls["login"].step /\ calls'["login"].user = calls["login"].user
  BY <1>1, <1>5 DEF LoginServed
<1> QED
  BY <1>3, <1>4, <1>5, LoginCall

-----------------------------------------------------------------------------
(***************************************************************************)
(* The theorems.                                                           *)
(***************************************************************************)

SessionInv == TypeOK /\ OwnInv /\ LoginServed /\ LoginInv

\* The tab as it is opened.
LEMMA SessionInitially == SessionInit => SessionInv
<1> SUFFICES ASSUME SessionInit PROVE SessionInv
  OBVIOUS
<1> DEFINE S == [user : Accounts, alive : BOOLEAN]
<1>1. sessions \in Seq(S) /\ Len(sessions) \in Nat
  <2>1. [user |-> FirstUser, alive |-> TRUE] \in S
    BY DEF Accounts
  <2>2. sessions = <<>> \/ sessions = <<[user |-> FirstUser, alive |-> TRUE]>>
    BY DEF SessionInit
  <2> HIDE DEF S
  <2>3. \A e \in S : <<e>> \in Seq(S) /\ Len(<<e>>) \in Nat
    OBVIOUS
  <2>4. <<>> \in Seq(S) /\ Len(<<>>) \in Nat
    OBVIOUS
  <2> QED BY <2>1, <2>2, <2>3, <2>4
<1>2. PICK n \in Nat : n = Len(sessions)
  BY <1>1
<1>3. cookie = n /\ cookie \in 0..n
  BY <1>2 DEF SessionInit
<1>4. /\ Idle \in Fetches(n) /\ NoRows \in RowSets(n) /\ NoCache \in Caches(n)
      /\ Ask(cookie) \in Fetches(n) /\ Ask(cookie).sess = cookie /\ Ask(cookie).answer = NoSession
      /\ Idle.sess = 0
  BY <1>3, NothingTypes
<1>5. me \in Caches(n) /\ me.data = NoSession /\ me.fetch = Ask(cookie)
  <2>1. me = [NoCache EXCEPT !.fetch = Ask(cookie)] /\ NoCache.data = NoSession
    BY DEF SessionInit, NoCache
  <2> QED BY <1>4, <2>1 DEF Caches
<1>6. calls \in Calls(n) /\ calls["login"] = NoCall
  <2>1. NoCall \in [step : Steps, sess : 0..n, csrf : Nat, user : Accounts, live : BOOLEAN]
    <3>1. 0 \in 0..n /\ 0 \in Nat
      OBVIOUS
    <3> QED BY <3>1 DEF NoCall, Steps, Accounts
  <2>2. calls = [op \in Ops |-> NoCall]
    BY DEF SessionInit, Ops
  <2> QED BY <2>1, <2>2 DEF Calls, Ops
<1>7. TypeOK
  <2>1. ServerTypes
    BY <1>1, <1>2, <1>3 DEF ServerTypes, SessionInit
  <2>2. PageTypes
    BY DEF PageTypes, SessionInit, Pages, Nowhere
  <2>3. CacheTypes
    BY <1>2, <1>4, <1>5, <1>6 DEF CacheTypes, SessionInit
  <2> QED BY <2>1, <2>2, <2>3 DEF TypeOK
<1>8. rows.fetch = Idle /\ rows.owner = "nobody"
  BY DEF SessionInit, NoRows
<1>9. OwnInv
  <2>1. Alive(cookie) => sessions[cookie].user \in holders
    BY DEF SessionInit, StillHolding
  <2> QED
    BY <1>4, <1>5, <1>8, <2>1 DEF OwnInv, Own, NothingLeftBehind, Alive
<1>10. LoginServed /\ LoginInv
  BY <1>6 DEF LoginServed, LoginInv, SessionInit, NoCall
<1> QED
  BY <1>7, <1>9, <1>10 DEF SessionInv

\* No step breaks the invariant.
LEMMA SessionStep == SessionInv /\ [SessionNext]_sessionVars => SessionInv'
BY TypeStep, OwnStep, ServedStep, LoginStep DEF SessionInv

\* What the tab holds was read by an account that has had it since the last logout,
\* 401 or reload, for any number of accounts, logins, faults and reads that are
\* dropped on their way: after a logout or a 401 nothing is left behind for the
\* next account.  (Logging in over a live session is no logout, and keeps what
\* that session has read.)
THEOREM ClearedForGood == SessionSpec => []NothingLeftBehind
<1>1. SessionInv => NothingLeftBehind
  BY DEF SessionInv, OwnInv
<1> QED
  BY <1>1, SessionInitially, SessionStep, PTL DEF SessionSpec

\* Whoever logs in after a 401 is back at the page the 401 came from, also when
\* several calls were answered 401, late answers among them.
THEOREM LoginReturns == SessionSpec => ReturnsToPage
<1> DEFINE Returns == from # Nowhere /\ calls["login"].live /\ calls["login"].step = "ok"
                      /\ calls'["login"] = NoCall => loc' = Admitted(me'.data, from)
<1>1. ASSUME SessionInv, [SessionNext]_sessionVars PROVE Returns
  <2> SUFFICES ASSUME from # Nowhere, calls["login"].live, calls["login"].step = "ok",
                      calls'["login"] = NoCall
               PROVE  loc' = Admitted(me'.data, from)
    OBVIOUS
  <2>0. PICK n \in Nat : n = Len(sessions)
    BY <1>1 DEF SessionInv, TypeOK, ServerTypes
  <2>1. /\ PageTypes /\ cookie \in 0..n /\ me \in Caches(n) /\ dropped \subseteq Fetches(n)
        /\ rows \in RowSets(n) /\ calls \in Calls(n) /\ TypeOK /\ LoginInv /\ LoginServed
    BY <1>1, <2>0 DEF SessionInv, TypeOK, CacheTypes, ServerTypes
  <2>2. loc = "login" /\ next = from /\ from \in Pages /\ Len(sessions) > 0
    BY <2>1 DEF LoginInv, LoginServed, PageTypes
  <2>3. LoginDone
    <3>1. ~SubmitLogin
      BY DEF SubmitLogin
    <3>2. ~ServeCall("login")
      BY DEF ServeCall
    <3>3. NoCall.step = "idle"
      BY DEF NoCall
    <3> QED BY <1>1, <2>1, <3>1, <3>2, <3>3, LoginCall
  <2> DEFINE c == calls["login"]
             s == [id |-> Len(sessions), user |-> c.user, must |-> c.user \in forced]
             cs == [calls EXCEPT !["login"] = NoCall]
             cache == [me EXCEPT !.data = s]
             page == IF s.must THEN "password" ELSE IF next \in Pages THEN next ELSE "dashboard"
  <2>4. Go(page, s, cache, cs, rows, s.id)
    BY <2>3 DEF LoginDone
  <2>5. s # NoSession
    <3>1. s.id = Len(sessions) /\ NoSession.id = 0
      BY DEF NoSession
    <3>2. Len(sessions) # 0
      BY <2>0, <2>2
    <3> HIDE DEF s
    <3> QED BY <3>1, <3>2
  <2>6. cache.data = s
    <3> HIDE DEF s
    <3> QED BY <2>1 DEF Caches
  <2>7. Admitted(s, page) = Admitted(s, from)
    BY <2>2 DEF Admitted
  <2> HIDE DEF s, cs, cache, page, c
  <2>8. loc' = Admitted(s, page) /\ me' = cache
    BY <2>4, <2>5 DEF Go
  <2> QED
    BY <2>6, <2>7, <2>8
<1>2. SessionInv /\ [SessionNext]_sessionVars => [Returns]_sessionVars
  BY <1>1
<1> QED
  BY <1>2, SessionInitially, SessionStep, PTL DEF SessionSpec, ReturnsToPage
=============================================================================
