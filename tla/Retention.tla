----------------------------- MODULE Retention -----------------------------
(***************************************************************************)
(* The retention tab of the web client (features/settings): the period     *)
(* that is in force, the one stored for the next start, the form that      *)
(* stores one, and a server that is restarted, polled and sometimes out of *)
(* reach.                                                                  *)
(*                                                                         *)
(* The text of a period is its sequence of parts [count, unit]; the empty  *)
(* sequence is the empty text, Junk a text that is no duration.            *)
(***************************************************************************)
EXTENDS Naturals, Sequences, FiniteSets, SequencesExt, QueryCache

CONSTANTS
    Texts,            \* periods that may be typed
    Presets,          \* RETENTION_PRESETS
    InForce,          \* minutes: the period the server starts with
    OtherPeriods,     \* minutes: periods somebody else may store
    MaxWrites,        \* bound: periods typed
    MaxSubmits,       \* bound: saves
    MaxOutages,       \* bound: fetches that fail
    MaxElsewhere      \* bound: changes somebody else stores, restarts

VARIABLES
    configured,       \* minutes: the period in force
    desired,          \* minutes: the stored period, 0 for none
    retention,        \* the query
    periodForm,             \* RetentionForm: [mounted, period, error, saved]
    puts,             \* the PUTs, in the order they were made
    writes, outages, elsewhere   \* ghost: the bounds

retentionVars == <<configured, desired, retention, periodForm, puts, writes, outages, elsewhere>>

Junk == <<[count |-> 0, unit |-> "?"]>>
Part(n, u) == [count |-> n, unit |-> u]

DAY == 24 * 60
MIN_PERIOD == DAY
MAX_PERIOD == 3650 * DAY
UNIT_MINUTES == [m |-> 1, h |-> 60, d |-> DAY]

IsPeriod(text) == text # <<>> /\ \A i \in DOMAIN text : text[i].unit \in DOMAIN UNIT_MINUTES

ASSUME PeriodsAssumption ==
    /\ \A t \in Texts \cup Presets : t \in Seq(ToSet(t)) /\ \A i \in DOMAIN t : t[i].count \in Nat
    /\ InForce \in Nat /\ OtherPeriods \subseteq Nat

\* parsePeriodMs, in minutes.
ParsePeriod(text) ==
    LET minutes == [p \in ToSet(text) |-> p.count * UNIT_MINUTES[p.unit]]
    IN  FoldSeq(LAMBDA p, sum : minutes[p] + sum, 0, text)

\* validatePeriod.
ValidPeriod(text) ==
    /\ IsPeriod(text)
    /\ ParsePeriod(text) >= MIN_PERIOD /\ ParsePeriod(text) <= MAX_PERIOD

NormalizePeriod(text) ==
    IF IsPeriod(text) /\ ParsePeriod(text) % DAY = 0
    THEN <<Part(ParsePeriod(text) \div DAY, "d")>> ELSE text

SamePeriod(a, b) ==
    IF a = <<>> \/ b = <<>> THEN a = b
    ELSE IF IsPeriod(a) /\ IsPeriod(b) THEN ParsePeriod(a) = ParsePeriod(b) ELSE a = b

\* The server writes whole days as days, everything else as a Go duration
\* (36h0m0s; the seconds are left out), and reads days only alone.
Spelled(n) == IF n % DAY = 0 THEN <<Part(n \div DAY, "d")>>
              ELSE <<Part(n \div 60, "h"), Part(n % 60, "m")>>
ServerParses(text) == IsPeriod(text) /\ (Len(text) > 1 => \A i \in DOMAIN text : text[i].unit # "d")

\* The server compares the two periods as they are spelled.
RestartRequired(d) == Spelled(d) # Spelled(configured)

\* GET: restart_required is sent only when a period is stored; {} when it is not sent.
Reply == [version |-> 1, configured |-> configured, desired |-> desired,
          restart |-> IF desired = 0 THEN {} ELSE {RestartRequired(desired)}]

\* restartPending, of what the page holds: the server's word, and a comparison
\* of its own for a server that says nothing.
RestartPending(r) ==
    /\ r # NoData
    /\ IF r.restart # {} THEN r.restart = {TRUE}
       ELSE r.desired # 0 /\ ~SamePeriod(Spelled(r.desired), Spelled(r.configured))

NoPeriodForm == [mounted |-> FALSE, period |-> <<>>, error |-> FALSE, saved |-> FALSE]
NewPut(text) == [sent |-> text, answer |-> "none", live |-> TRUE, stored |-> 0, restart |-> FALSE]

RetentionInit ==
    /\ configured = InForce /\ desired \in {0, InForce}
    /\ retention = [EmptyEntry EXCEPT !.fetch = Asked]
    /\ periodForm = NoPeriodForm /\ puts = <<>>
    /\ writes = 0 /\ outages = 0 /\ elsewhere = 0

Seeded(r) == [NoPeriodForm EXCEPT !.mounted = TRUE,
                !.period = Spelled(IF r.desired = 0 THEN r.configured ELSE r.desired)]

\* What RetentionTab renders: an error panel in place of everything, the form
\* seeded once when it is mounted.
FormAfter(q) ==
    IF q.error \/ q.data = NoData THEN NoPeriodForm
    ELSE IF periodForm.mounted THEN periodForm ELSE Seeded(q.data)

ServeRetention ==
    /\ retention.fetch = Asked
    /\ \/ retention' = AnswerFetch(retention, Reply) /\ UNCHANGED outages
       \/ /\ outages < MaxOutages /\ outages' = outages + 1
          /\ retention' = AnswerFetch(retention, NoData)
    /\ UNCHANGED <<configured, desired, periodForm, puts, writes, elsewhere>>

RetentionArrives ==
    /\ retention.fetch.step = "answered"
    /\ retention' = Arrive(retention)
    /\ periodForm' = FormAfter(retention')
    /\ puts' = [i \in DOMAIN puts |-> [puts[i] EXCEPT !.live = @ /\ periodForm'.mounted]]
    /\ UNCHANGED <<configured, desired, writes, outages, elsewhere>>

\* refetchInterval.
PollRetention ==
    /\ retention.fetch = NotAsked
    /\ retention' = Refetch(retention)
    /\ UNCHANGED <<configured, desired, periodForm, puts, writes, outages, elsewhere>>

\* The field and the buttons beside it.
SetPeriod ==
    /\ periodForm.mounted /\ writes < MaxWrites /\ writes' = writes + 1
    /\ \E t \in Texts \cup Presets :
          /\ t # periodForm.period
          /\ periodForm' = [periodForm EXCEPT !.period = t, !.error = FALSE, !.saved = FALSE]
    /\ UNCHANGED <<configured, desired, retention, puts, outages, elsewhere>>

\* onSubmit; the button is disabled while the form's own PUT is on its way.
SubmitPeriod ==
    /\ periodForm.mounted
    /\ \A i \in DOMAIN puts : puts[i].live => puts[i].answer = "done"
    /\ IF ValidPeriod(periodForm.period)
       THEN /\ Len(puts) < MaxSubmits
            /\ periodForm' = [periodForm EXCEPT !.error = FALSE, !.saved = FALSE]
            /\ puts' = Append(puts, NewPut(NormalizePeriod(periodForm.period)))
       ELSE /\ periodForm' = [periodForm EXCEPT !.error = TRUE, !.saved = FALSE] /\ periodForm' # periodForm
            /\ UNCHANGED puts
    /\ UNCHANGED <<configured, desired, retention, writes, outages, elsewhere>>

\* handleSetRetention; the PUT may fail on the way there, or its answer on the
\* way back.
ServePeriod(i) ==
    /\ puts[i].answer = "none"
    /\ \/ /\ ServerParses(puts[i].sent)
          /\ desired' = ParsePeriod(puts[i].sent)
          /\ \E a \in {"ok", "lost"} :
                puts' = [puts EXCEPT ![i].answer = a, ![i].stored = desired',
                                     ![i].restart = RestartRequired(desired')]
       \/ desired' = desired /\ puts' = [puts EXCEPT ![i].answer = "refused"]
    /\ UNCHANGED <<configured, retention, periodForm, writes, outages, elsewhere>>

\* The answer is merged into what the page holds, then read again; the field
\* shows what was stored.
PeriodStored(i) ==
    /\ puts[i].answer = "ok"
    /\ retention' = Invalidate(IF retention.data = NoData THEN retention
                 ELSE SetQueryData(retention, [retention.data EXCEPT !.desired = puts[i].stored,
                                                                       !.restart = {puts[i].restart}]))
    /\ LET now == FormAfter(retention') IN
       periodForm' = IF ~puts[i].live THEN now
               ELSE [now EXCEPT !.period = Spelled(puts[i].stored), !.saved = ~puts[i].restart]
    /\ puts' = [puts EXCEPT ![i].answer = "done"]
    /\ UNCHANGED <<configured, desired, writes, outages, elsewhere>>

PeriodRefused(i) ==
    /\ puts[i].answer \in {"refused", "lost"}
    /\ periodForm' = IF puts[i].live THEN [periodForm EXCEPT !.error = TRUE] ELSE periodForm
    /\ puts' = [puts EXCEPT ![i].answer = "done"]
    /\ UNCHANGED <<configured, desired, retention, writes, outages, elsewhere>>

\* The stack is restarted with the stored period; somebody else stores one.
Restart ==
    /\ elsewhere < MaxElsewhere /\ elsewhere' = elsewhere + 1
    /\ desired # 0 /\ configured' = desired
    /\ UNCHANGED <<desired, retention, periodForm, puts, writes, outages>>

StoredElsewhere ==
    /\ elsewhere < MaxElsewhere /\ elsewhere' = elsewhere + 1
    /\ desired' \in OtherPeriods
    /\ UNCHANGED <<configured, retention, periodForm, puts, writes, outages>>

RetentionNext ==
    \/ ServeRetention \/ RetentionArrives \/ PollRetention
    \/ SetPeriod \/ SubmitPeriod
    \/ \E i \in DOMAIN puts : ServePeriod(i) \/ PeriodStored(i) \/ PeriodRefused(i)
    \/ Restart \/ StoredElsewhere

-----------------------------------------------------------------------------
(***************************************************************************)
(* Properties.                                                             *)
(***************************************************************************)

\* The period that is sent is as long as the one that was typed, and a whole
\* number of days is spelled as the server stores it, so the field and the
\* tiles agree without waiting for the answer.
NormalizedIsTheSame ==
    ValidPeriod(periodForm.period) =>
        LET sent == NormalizePeriod(periodForm.period) IN
        /\ SamePeriod(sent, periodForm.period) /\ NormalizePeriod(sent) = sent
        /\ ParsePeriod(sent) % DAY = 0 => sent = Spelled(ParsePeriod(sent))

\* An answer of the poll that could be read never replaces what is being typed,
\* whatever was stored elsewhere meanwhile.  (One that fails unmounts the form.)
PollKeepsTyping ==
    [][retention.fetch.step = "answered" /\ retention.fetch.data # NoData /\ retention'.fetch = NotAsked
        /\ periodForm.mounted => periodForm' = periodForm]_retentionVars

\* The banner `Restart pending' is shown exactly when the stored period is not
\* the one in force.
BannerIsTrue == RestartPending(retention.data) <=> (desired # 0 /\ desired # configured)
=============================================================================
