# Formal model of syslogc

Syslogc receives syslog over UDP, TCP, TLS and HTTP, parses and batches the
messages, stores them in VictoriaLogs, mirrors copies to further VictoriaLogs
instances and serves a query API and a web UI; PostgreSQL keeps its metadata.
This directory holds TLA+ modules for the parts whose correctness depends on the
order of events, in the server and in the web client, TLC configurations that
check small instances of them, and TLAPS proofs that hold for every size.
`PROJECT.json` ties every definition to the lines it models, and lists the runs,
the hazards, the findings and the theorems.

Paths of Go files are relative to `src/backend/internal/`, paths of TypeScript files
to `src/frontend/src/`, unless they start with `src/`.

## 1. Inventory

| Component | State | Operations | Hard behaviour | What makes it correct |
|---|---|---|---|---|
| `ingestion/pipeline` | byte budget, ingest channel, per-worker batches, batch channel, health flag | TryEnqueue, Enqueue, runWorker, runWriter, Close | producers, workers, writers and Close interleave; retry, bisection, deadline | every message counted once and truthfully, memory bounded, no send on a closed channel, Close returns |
| `ingestion/supervisor` | desired definitions, running listeners, status per source, the http_json source | Start, Reconcile, apply, stopSource, Stop, Ready | bind failures, address moves, other processes on the port, a stale list | what is asked for is served, nothing else runs, status and readiness are truthful |
| `ingestion/listener` (UDP, TCP, TLS, certificate reloader) | sockets, connections, connection limit, drain deadline | Start, acceptLoop, serve, readLoop, Stop | Stop against accept and against deadlines, blocked Enqueue | no connection outlives Stop, limits hold, draining takes two seconds |
| `ingestion/framing` | decoder mode, buffer | Next (octet counting, newline, auto) | split reads, oversize frames | the messages do not depend on how the stream is cut into reads |
| `forwarding` (forwarder) | queue, `queued` and `bytes` counters, pending batch, sender goroutine | Forward, run, write, Stop | full queue, retries, lost answers, Stop against Forward | every copy sent or counted, counters exact, Stop returns |
| `forwarding` (registry) | set of forwarders, desired targets | Start, Reconcile, Forward, Stop | lock-free readers of the set, two reconcilers with stale lists, failing database | one forwarder per target, unchanged targets keep their backlog, nothing leaks |
| `app` | lifecycle, background watchers | New, Run, shutdown, desiredSources, watchSources, watchForwardTargets, watchSaturation, watchRetention | watchers against shutdown | producers end before the pipeline, the pipeline before the forwarders |
| `acme`, `certs` | account, order, certificate files | obtain, renew, write | crash between files, several nodes | key and certificate belong together |
| `auth` | users, sessions, API keys, login limiter | Login, AuthenticateSession, ChangePassword, RevokeAll, Bootstrap | revocation against authentication, limiter window | a revoked session authenticates nothing, an administrator remains |
| `metadata` (+ `postgres`) | users, sources, forward targets, settings with versions | CRUD with optimistic versions | concurrent updates | no lost update |
| `servicetrends` | watermark, retry times, aggregates | record, backfill, trim | several nodes, failing windows | a window is recorded once, gaps are retried |
| `metricstore` | none: an HTTP client of VictoriaMetrics | Write, Query | - | - |
| `query` | cursors, tail sessions | Search, Tail, Export | pages against new entries | no entry skipped or repeated by paging |
| `storage` (+ `victorialogs`) | connection | WriteBatch, queries, retention | status classification, lost answers | only content errors are Rejected |
| `parser`, `normalization`, `extract`, `logentry` | none (pure) | Parse, Detect, Apply | malformed input | total, limits hold |
| `config` | configuration | Load, Validate, ConflictsWith | - | invalid combinations are refused |
| `api` | HTTP server, draining flag | routes, ingest, live tail, CRUD | ingest back-pressure, slow tail clients | an acknowledged event is in the pipeline |
| `assistant`, `llm`, `iis`, `mssql`, `directory`, `sourcetemplate`, `hostinfo`, `loggen`, `src/deploy` | little or none | templates, look-ups, tools | - | - |

The web client, a single-page application over the HTTP API:

| Component | State | Operations | Hard behaviour | What makes it correct |
|---|---|---|---|---|
| session (`api/client.ts`, `app/router.tsx`, `features/auth`) | cookie, CSRF token, the cached session, the page to return to | login, logout, forced change of the password, route guards, the handler of 401 | sessions that end on the server, answers of an earlier session, navigation that waits for a read | a logout or a 401 leaves nothing for whoever comes next, nobody is stuck on a dead session where something is polled |
| query cache (`api/hooks`, over TanStack Query) | per key: data, error, a read on its way | read, poll, invalidate, setQueryData, delayed invalidation | an answer older than the data it replaces | every page converges to what is stored |
| live tail (`features/live-tail`, `lib/ring-buffer.ts`) | stream with backoff, rows and pending ring, frame, pause | connect, reconnect, append, pause, resume, resize, clear | a stream that outlives its query, wrap-around, an error between reopen and open | the newest rows in order, one stream, an indicator that is true |
| source form (`features/sources`) | flat form, errors, templates, rules | edits, template, parts, rules, TLS modes, save | conversions both ways, errors that speak of an older form | an untouched save changes nothing, typed rules survive |
| source editor and list | editor of one version, cached item and list, calls, settling reads | create, adopt, save, delete, switch | a second administrator, remount by version, late answers | no version is overwritten unseen, a conflict is explained, the list converges |
| forwarding page (`features/forwarding`) | list, dialog, confirmation | create, edit, switch, delete | as above, a token that must stay when it is not typed | a dialog sends what it showed |
| users and API keys (`features/users`, `features/settings`) | lists, dialogs, secrets on the screen | create, edit, delete, revoke | an answer after the dialog closed | a secret whose answer arrives reaches the screen |
| retention (`features/settings`) | form, period in force and period stored | save, poll | restart and outage between save and poll | the banner tells the truth |
| service catalog editor (`features/analytics`) | rows, errors per row, dirty flag | edit, fill in, revert, save | background reads while rows are typed, a look-up that takes its time | typed rows survive reads that succeed, refusals land on their row |
| filter text (`lib/filter-text.ts`, `lib/filter-actions.ts`) | none (pure) | format, parse, form of a term | keywords as values, nesting, quoting | a query means the same as text, chips and expression |
| query bar and assistant (`features/explorer`, `features/assistant`) | the URL, drafts, a question | type, chips, LogsQL, build, ask | drafts that the URL overtakes | the query in the URL is what was asked for |
| explorer panels | window, cached panels, pages, selection | run, load more, change of range, histogram, links | reads that are overtaken, logs that arrive late, pages that end among logs of one time | all panels answer one query over one window, pages join |
| saved searches | stored search, the badge, the save dialog | save, update, open, delete | a change by somebody else | "unmodified" is said only of what is stored |
| dashboards, analytics, system, audit, shell, widgets | URL and cache | read and draw | - | - |

How the parts interact. Listeners and the HTTP ingest handler call the pipeline.
The pipeline's writers call the storage backend and, after a successful write,
the forwarding registry (`Tee`), which calls every forwarder of its current set.
`app.watchSources` polls the metadata store and listens for notifications, and
calls the supervisor, which starts and stops listeners; two goroutines of
`app.watchForwardTargets` do the same for the registry. `app.shutdown` cancels
the watchers, stops the supervisor, closes the pipeline, stops the registry and
then the HTTP server.

The pages of the web client call the API through the hooks of `api/hooks`, and share
the query cache and nothing else: a mutation writes its answer into the cache, or
invalidates keys, at once and again when the supervisor has had the time to settle.
The URL is the only store of the explorer's query. A 401 to any request clears the
cache and takes the person to the login page.

Hard to test, and therefore what the models are about: Close and Stop at any
moment against producers, workers and watchers; the deadline that cuts off
retries; channels and budgets at their limit; answers lost after the request was
carried out; lists read before a mutex is taken; sources that move while ports
are taken; in the browser, answers that come after the page, the dialog, the query
or the account they were asked for. Each hazard stands at its line in
`PROJECT.json`, with the properties
aimed at it, or with the reason why there is none yet.

## 2. Plan

Done, in this order:

1. `Pipeline`: the core of the system, with `PipelineProofs`.
2. `Supervisor`: which listeners run, with `SupervisorProofs`.
3. `Forwarder`: one mirror target, with `ForwarderProofs`.
4. `ForwardRegistry`: the set of mirror targets, with `ForwardRegistryProofs`.
5. `LiveTail` over `RingBuffer`, and `TailWindow`, the abstract specification it
   implements, with `LiveTailProofs`.
6. `SourceForm`: the editor of a source as one person uses it.
7. `AdminConsole`: the pages that change the server (`SourceEditor`, `Forwarding`,
   `Users`, `ApiKeys`, `Retention`, `ServiceCatalog`) over `QueryCache`, with
   `AdminConsoleProofs`.
8. `WebSession`: one browser tab and its accounts, with `WebSessionProofs`.
9. `LogExplorer`: `FilterText`, `QueryBar`, `ExplorerPanels` and `SavedSearches`.

Next, most important first:

10. `TCPListener`: connections, limit, TLS handshake, deadlines and Stop,
    composed with the pipeline's Enqueue seen as a call that may block. Two
    questions wait for it: whether a connection always drains within the grace
    period (`listener/tcp.go:314` reads the drain deadline before Stop may store
    it), and whether Reconcile can be held up by a listener that does not stop
    (`supervisor.go:205`).
11. `Framing`: the decoder as operators, checked against a reference definition
    over all ways of cutting a short stream into reads.
12. `Ingestion`: an abstract specification of what the pipeline promises (offer,
    refuse, store, reject, drop at shutdown) and a refinement mapping from
    `Pipeline`; the same for `Forwarder`. Then the order of `app.shutdown` over
    the abstract parts.
13. `Sessions` (the server's side of auth) and the login limiter; the recorder of
    `servicetrends` (windows, retries, several nodes).
14. Proofs. Seven components have their safety proved (section 5). Next are
    `TypedRulesSurvive` and `FormHangsTogether` of `SourceForm`, and whatever items 10
    to 13 add. `FilterText` parses by recursion, so the explorer's modules stay with TLC.

Runs that answer one question about one module are merged into one
configuration where their constants agree, and properties that answer the same
question are conjoined under one name, so that both lists stay short.

## 3. The modules

Each component's module declares its parameters as constants with named
assumptions, one action per step that other goroutines can observe, and its
properties at the end. Definitions marked `Mutant` are deliberately wrong forms
of a definition next to them: replacing the definition by its mutant makes the
property named in `PROJECT.json` fail, which shows that the property depends on
that line of code. They are used in no specification.

### Pipeline

| Model | Code |
|---|---|
| `call[m]` | where the TryEnqueue or Enqueue call of message m stands; the states in `ReadLocked` hold `p.mu.RLock` |
| `cur`, `waiters`, `notifying` | `semaphore.Weighted`: bytes taken, the line of blocked Acquire calls, a wake-up in progress (external, after its documented behaviour) |
| `queue`, `queueBytes` | `p.queue` and the atomic gauge beside it |
| `closer`, `closed`, `ioCancelled`, `batchesClosed` | the Close call, `p.closed` with `close(p.queue)`, `writeCtx`, `close(p.batches)` |
| `wpc`, `hand`, `batch`, `pending`, `timerActive`, `draining` | `runWorker`: its position, message, open batches per tenant, flush timer |
| `rpc`, `rows`, `ranges` | `runWriter` and `writeRange`; the stack `ranges` is the recursion of the bisection |
| `healthy`, `healthGauge` | `p.healthy` and the exported gauge, set in two steps |
| `ledger`, `accepted`, `disk` | history: counters incremented for m, messages sent into the queue, rows that reached the backend (external) |

A message is a model value with a transport, a weight, an entry size and a
tenant; parsing is reduced to the last two. Each message is offered once. The
backend may succeed, fail with or without having stored the rows, or reject a
request that contains a row of `Poison`. Metrics other than the outcome counters
and logging are left out.

### Supervisor

A source is a record of name, type, protocol, address, enabled flag and a
revision that stands for everything else. `managed` is the sources table;
`fetched` is the list `watchSources` read before it called Reconcile, which takes
`s.mu` (`lock`). `ReconcileBegin` covers the removals and the stops that must come
first, one `Apply...` step covers one definition of the loop in `apply`, and
`ReconcileEnd` covers the loop over `stopAfter`. `open` is the set of sockets that
exist, whether or not `running` knows them; `taken` is what other processes have
bound. TCP and TLS share ports; UDP listeners of this process may share an
address (`SO_REUSEPORT`), and port 0 may be given any free address. A listener
stops in one step here. Of the file it is assumed what `config.Validate` refuses to
start without (`validate.go:191-215`): no two enabled syslog entries share transport
and address. Two enabled http_json entries pass that validation, so `UnionHasNoClash`
speaks of the endpoint only where a row of the database is involved.

### Forwarder

`caller`, `hand`: the Forward calls of the storage writers, with separate steps for
copying, the limit check, the send and the two counter additions, because the
counters are atomics that Forward reads before and adds to after the send.
`sender`, `group`, `rest`, `pending`, `tenant`: `run` with its pending batch and
`write` with its retries. `stopper`, `closed`, `cancelled`: Stop. `outcome` and
`remote` are history and the external remote store. `BufferedRows` and `BufferedBytes`
are what the buffer holds, `LateRows` and `LateBytes` what a call has sent and not yet
added to the counters.

### ForwardRegistry

`table` is the forward_targets table, `list[g]` what goroutine g has read before it
takes `r.mu`, `current` the set that writers load without a lock, `running` what each
forwarder object serves whether or not it is in the set, `given[w]` what a writer
has loaded and not yet called. `Swap` is Reconcile up to the store of the new set,
`StopForwarder` its last loop. What happens inside a forwarder is the other module.

### LiveTail, RingBuffer, TailWindow

`RingBuffer` is `lib/ring-buffer.ts` as operators over [buf, start, count]. `conns` are
the connections of `connectTail` (`tailSource.ts`), the current one and the one before
it, with their state, attempt and timer; `rows`, `pending`, `paused`, `scheduled` are
the fields of `TailStore`; `view` is what the page rendered last; `autoScroll` and
`atBottom` are the page's. A row is the connection that delivered it and its number in
the log. `TailWindow` says what this amounts to: a window on the newest rows delivered,
and a second one while paused. `KeepsTheNewest` is its specification under the mapping
from rings to sequences.

### SourceForm

`form` is `SourceFormState`, `errors` is `SourceErrors`, `stored` the source at the
server, `sent` the submission. `formToConfig`, `configToForm`, the template and parts
operations and the assignment of refusals are operators, the panels' handlers are
actions. A text is a word or a blank, a regular expression a sequence of the tokens
that `captureGroupNames` tells apart; fields that are copied alike share one. `Prepared` is what
the server makes of a submission: it resolves the private key that an update leaves out
(`resolveTLSMaterial`), fills in the defaults of the type (`applySourceDefaults`) and
stores sizes and durations in its own spelling (`Spelled`), so that what the form reads
back is not what it sent. `ServerProblem` has the checks that what the form sends can
fail: an oversized UDP message, an enabled source without what its TLS mode needs, rules.

### QueryCache and the pages of AdminConsole

`QueryCache` is TanStack Query as `api/hooks` uses it (external): a read is `asked`
until the server reads its state for it, and its answer is fixed from then on, however
late it comes. Invalidating drops the read on its way if there is data already; a first
read, which has none, is joined instead, and may bring what was there before the change.
Each page's module has the server's state (`source`, `target`,
`accounts`, `stored`, `configured` with `desired`, `services`), its queries, its dialogs,
and the mutations in the order they were made, each of them sent, carried out or
refused at the server, and answered; the three are separate steps. A call that is carried
out may also never be answered (`lost`): the page is told of a failure, keeps what it had,
reads no list again and never sees the secret; its retry may meet the own change. Another
administrator changes the same rows. Only sources and forward targets carry a version.
An account is changed in two steps (`ReadUser`, `WriteUser`), as `handleUpdateUser` reads
the row, replaces the fields that were sent and writes display name, role and switch
together; the dialog always sends the name. Deletions, the catalog and the retention
period carry no version, and the last one wins. `SourceEditor` treats a source as the set of edits
that went into it, which is what a lost update loses. A read of the item is aborted
when no page observes it any more, and asked anew when one does (`Observed`).
`AdminConsole` opens one page per behaviour, because they share no state but keys of the
cache. `PlainStores` says of an instance that what is stored at first, and what others
store, is spelled as the pages would spell it; the run's instance is one
(`StoresArePlain`), while what is typed in it is not.

### WebSession

`sessions`, `forced` are the server's; `cookie`, `csrf`, `me`, `rows` what the browser
holds; `loc`, `going`, `next` where the person is, a navigation whose guard waits for
the read of the session, and the search parameter of the login page; `calls` the
login, logout and change of password. `dropped` are reads of the session that the cache
has forgotten but whose answers still reach `fetchSession`, which stores the token.
`rows` is what the current page has read, with the account it was read for: it may be
kept (the explorer's queries never become stale) or read again when a page is opened.
Beside it there is the one read that is polled, that of the ingest rate in the top bar,
which is there only for whoever may see the system (`system:view`); an account that must
change its password has no permissions, so nothing is polled on its page. A login empties
nothing. A logout empties the cache and leaves the cookie: see section 6. A read of the
session that fails leads to the error page and to no login. The ghost `holders` are the
accounts that have had the tab since the cache was last emptied.

### LogExplorer

`FilterText` has the expressions of `api/types`, `formatFilter`, `parseFilter`, the chips'
and the form's conversions, over texts as sequences of tokens, and a reference
semantics: the set of sample logs an expression selects. `QueryBar` has the URL and
everything that changes it; the ghost `wanted` is the set of logs that the person's
intentions add up to, computed without the text. `ExplorerPanels` has the resolved
window, the cache with its keys, the reads and the logs that keep arriving. Several logs
may have one time, and the store lists them in an order that differs from read to read
(`Ranks`); `Search` reads the group at the end of a page whole, up to `MaxTieGroup`, and
says which times overflowed, as `query/service.go` does.
`SavedSearches` has the stored search and the badge. `LogExplorer` composes them and
lets a behaviour be about the query, the panels or the saved searches.

## 4. The runs

| Run | Instance | Shows |
|---|---|---|
| `pipeline_safety` | 3 messages (UDP, TCP, a heavy TCP one that the backend rejects), 2 workers, 1 writer, 2 tenants, queue of 1 message and 2 bytes, batches of 2 rows; 652k states | `TypeOK`; `Accounting`: every message counted once (`AccountedOnce`), by what happened to it (`OutcomeIsTrue`), nothing left in a batch (`NoStrandedRows`); `BudgetConserved`, `MemoryBounded`, `NoSendOnClosed`, `TenantsSeparate` |
| `pipeline_liveness` | 3 messages, one of them heavier than the whole budget, 1 worker, 1 writer; 53k states | `CloseTerminates` with a backend that may stay down; `EveryMessageAccounted` with one that recovers |
| `supervisor_safety` | a file source, its adopted copy, a UDP source with port 0, a competing TLS source, an http_json source; one address held and one contested by other processes; 2 edits; 574k states | `ListenersMatchDefinitions` (`UnionHasNoClash`, `ServesItsDefinition`, `RunsWhatIsRemembered`, `NoOrphanListener`); `ReportsAreTrue` (`HTTPSourceTruthful`, `ReadyMeansServing`); `SourcesUndisturbed` (`UnchangedUntouched`, and `MovingSourceServed` for a move that cannot be carried out) |
| `supervisor_applied` | the same sources, nothing fails or moves, 2 edits | `ChangesApplied` |
| `supervisor_move` (violation) | a source that moves and one that may be in its way, 2 edits | `MovingSourceServed` fails: finding 1 |
| `forwarder_target` | 2 writers, 3 groups of 3, 2 and 1 rows of two tenants, one row filtered out, one rejected, queue limit 2; 22k states | `CopiesAccounted` (`CopyInOnePlace`, `OutcomeIsTrue`, `StopDrains`); `BufferAccounted` (`CountersExact`, `BufferNearlyBounded`); `OneTenantPerWrite`, `NoSendOnClosed`, `StopTerminates`, `EveryCopySettled` |
| `registry_changed` | a database target, a target of file and database, 2 reconcilers, 1 writer, builds that fail, 1 edit; 88k states | `ServesDesired`, `UnchangedKeepsBacklog`, `ChangesApplied` |
| `live_tail` | rings of 1 and 2 slots, 2 rows in the log, one query that parses and one that does not, attempts capped at 1 | `PageIsTrue` (`OneStream`, `NoForeignRows`, `StatusTruthful`, `NoLostWakeup`, `FollowsNewest`); `KeepsTheNewest`, the refinement of `TailWindow`; `StreamRecovers` |
| `source_form` | 6 stored sources and a new one, 2 templates that share a rule, every TLS mode, a server that fills in and respells, 2 edits, 2 saves; 218k states | `UntouchedSaveIsIdentity`; `FormHangsTogether` (`RuleErrorsOnTheirRow`, `TemplateRulesGoWithIt`, `PartsBelongToTemplate`, `GuideIsNumbered`); `TypedRulesSurvive` |
| `web_console` | one page at a time: 1 source with 2 calls, 1 target with 2 calls, 2 accounts and 1 dialog, 3 calls on API keys, 7 periods with an outage and a restart, 2 services; any answer may be lost; 1.3M states | `NoBlindOverwrite` (`NothingLost`, `ReplacesWhatWasSeen`, `StartsWhatWasShown`, `EditNeverSwitches`, `TokenKept`, `NoStaleRevert`); `PagesTellTheTruth` (`QuietIsFresh`, `ConflictIsOthers`, `OwnChangesListed`, `GeneratedIsShown`, `KeysListedTruly`, `SecretReachesScreen`, `CleanIsStored`, `RefusalOnItsRow`); `UntouchedIsUnchanged` (`UntouchedTargetIsKept`, `NormalizedIsTheSame`, `UntouchedCountsTheSame`); `TypingSurvives` (`PollKeepsTyping`, `TypingSurvivesRead`, `FillKeepsChosen`); `PagesConverge` |
| `web_session` | 2 accounts, 3 moves of the person, 2 faults (each a session that ends or an answer that is lost); 266k states | `NothingLeftBehind`; `ReturnsToPage`; `NobodyIsStuck` (`EndedSessionIsNoticed`, `ChangeGetsThrough`) |
| `web_explorer` | 4 kinds of logs, 7 typed texts, 5 addresses, 2 proposals, pages of 2 rows, 3 logs of one time in two orders, one of which arrives late, groups of at most 2, at most 4 rows, 2 or 3 moves; 706k states | `QueryKeepsItsMeaning` (`QueryIsWhatWasAsked`, `UnmodifiedIsTheSame`); `AnswerIsOfTheQuery` (`PanelsAgree`, `ShownIsAsked`, `RunIsFresh`); `PagesJoin`, `SelectionStands`, `PanelsSettle` |

Every server module and `LiveTail` has a `TypeOK` that documents its state. Only that
of `Pipeline` is part of a run; those of `Forwarder`, `Supervisor` and
`ForwardRegistry` are proved, as theorems or as parts of the inductive invariant.

Why the bounds are enough. The queue limits are so small that three messages
fill the budget, the channel and a batch, make a producer wait in line behind a
heavier one and leave work for the bisection (a batch of two rows with one
rejected). Two workers are what it takes for one to flush while the other is
idle. A second edit is what it takes to undo or overtake a first one; initial
states of `Supervisor` and `ForwardRegistry` contain every table the rows allow, so
the number of edits bounds changes during the run and not the variety of tables. Six
forwarder identities are more than one edit can use up.

In the browser, a ring of one slot wraps with every row and one of two slots wraps
into both halves; a change between the two covers growing and shrinking. Two edits
and two saves reach an error of the first save that the second edit makes stale. A
page needs one edit of each side for a lost update, and two calls for answers that
cross or for the retry of a save nothing was heard of. The source is visited once: it is
left by creating and deleting, and by a remount under a call. Two accounts and three moves
are a login, a logout and the next login, or a login over a live session. The kinds of
logs include a host whose name is a keyword of the filter text and one that must be
quoted, so that every rule of quoting decides something, and there is a term of each
operator. Pages of two rows end between logs of one time, of which a late third one makes
a group too large for the server; the limit of four rows is reached. All bounds are
constants of the configurations: `Messages`, `Groups`, `Max...`, `Forwarders`, `Timers`,
`SettleTimers` and the sizes.

Deadlock is checked in `Pipeline`, where the only quiet states are those of
`Finished`. In the other modules the process may come to rest: after Stop, when all edits are
used up, or when nobody touches the page.

### Fairness

- `Pipeline`: every goroutine that can run does (weak fairness of each step), the
  timers fire, the deadline of Close expires and a storage request ends somehow:
  the client has a timeout. Nothing makes callers give up or the backend recover;
  `CloseTerminates` needs neither. `EveryMessageAccounted` is an implication whose
  premise `BackendRecovers` is strong fairness of good answers, and it excludes a
  message heavier than the whole budget, which waits until its caller gives up.
- `Supervisor`: the five-second ticker of `watchSources` and the progress of
  Reconcile. A listener being stopped does stop; Reconcile gives it no deadline
  (see section 2, item 10).
- `Forwarder`: Forward calls that have begun end, the sender runs, the context of
  Stop has a deadline and a cancelled request returns. `EveryCopySettled` has the
  premise `RemoteRecovers`.
- `ForwardRegistry`: the ticker, a reconcile that has begun (stops have 30 seconds),
  and, because a failed build is tried again by the next reconcile, strong
  fairness of a swap in which all clients can be opened.
- `LiveTail`: the browser renders a frame that was asked for, a connection attempt
  opens or fails, and the timer of a reopen fires. Nothing makes the server return;
  `StreamRecovers` has that as its premise.
- `AdminConsole`: requests are answered or fail, polls (`refetchInterval`) and delayed
  invalidations fire. People do nothing they do not want to. Polling is assumed for
  sources, forwarding and retention, the pages that have an interval.
- `WebSession`: requests are answered or fail, the top bar polls where it is shown and
  the tab is visible, and the timer of the password page fires. `EndedSessionIsNoticed`
  is said of the pages on which something is polled.
- `LogExplorer`: a read that is out comes back, with data or an error, or is aborted.

## 5. The proofs

Every theorem holds for all values of the constants that satisfy the assumptions named
in the module: any number of messages, workers, writers, tenants, groups, targets,
sources, addresses, rows, accounts, edits and attempts, and all sizes and limits.

| Module | Theorem | Statement | Inductive invariant |
|---|---|---|---|
| `PipelineProofs` | `TypeCorrect` | `Spec => []TypeOK` | `TypeInv` |
| | `ChannelSafety` | `Spec => []NoSendOnClosed` | `ChannelInv` |
| | `ClosedMeansClosed` | `Spec => NothingAcceptedAfterClose` | `ChannelInv` |
| | `BoundedMemory` | `Spec => []MemoryBounded` | `MemoryInv` |
| | `BudgetNeverLeaks` | `Spec => []BudgetConserved` | `BudgetInv` |
| | `TenantsKeptApart` | `Spec => []TenantsSeparate` | `TenantInv` |
| | `EveryMessageCountedOnce` | `Spec => []Accounting` | `AccountingInv` |
| `ForwarderProofs` | `TypeCorrect` | `Spec => []TypeOK` | `TypeInv` |
| | `NoPanicOnSend` | `Spec => []NoSendOnClosed` | `ClosedInv` |
| | `TenantsApart` | `Spec => []OneTenantPerWrite` | `TenantInv` |
| | `EveryCopyAccounted` | `Spec => []CopiesAccounted` | `MovesInv`, `RemoteInv` |
| | `BufferStaysBounded` | `Spec => []BufferAccounted` | `MovesInv`, the exact counters, `PressureInv` |
| `ForwardRegistryProofs` | `OneForwarderPerTarget` | `Spec => []ServesDesired` | `RegistryInv` |
| | `BacklogKept` | `Spec => UnchangedKeepsBacklog` | `RegistryInv` |
| `LiveTailProofs` | `PageTellsTheTruth` | `Spec => []PageIsTrue` | `PageInv` |
| | `RingsAreWindows` | `Spec => KeepsTheNewest` | `PageInv` |
| `WebSessionProofs` | `ClearedForGood` | `SessionSpec => []NothingLeftBehind` | `SessionInv` |
| | `LoginReturns` | `SessionSpec => ReturnsToPage` | `SessionInv` |
| `SupervisorProofs` | `TypeCorrect` | `Spec => []TypeOK` | `SourcesInv` |
| | `ListsAreClean` | `Spec => []UnionHasNoClash` | `SourcesInv` |
| | `OthersUntouched` | `Spec => UnchangedUntouched` | `SourcesInv` |
| | `RunningIsServing` | `Spec => [](ServesItsDefinition /\ RunsWhatIsRemembered)` | `SourcesInv`, `AgreeInv` |
| | `ListenersAgree` | `Spec /\ []NoListenerReplaced => []ListenersMatchDefinitions` | the same, `AllKnown`, `OneSocketPerSource` |
| | `ReportsStayTrue` | `Spec /\ []NoMoveSucceeds /\ []SyslogMovesOnly => []ReportsAreTrue` | the same, `ReportInv` |
| | `NobodyTakenOffTheAir` | `Spec /\ []NoMoveSucceeds => SourcesUndisturbed` | `SourcesInv` |
| `AdminConsoleProofs` | `ConsoleInvariant` | `ConsoleSpec => []ConsoleInv` | `ConsoleInv` |
| | `PagesAreTrue` | `ConsoleSpec => []PagesTellTheTruth` | `ConsoleInv` |
| | `NothingOverwrittenBlindly` | `ConsoleSpec => NoBlindOverwrite` | `ConsoleInv` |
| | `TypingIsKept` | `ConsoleSpec => TypingSurvives` | `ConsoleInv` |
| | `UntouchedSavesTheSame` | `ConsoleSpec => []UntouchedIsUnchanged`, given `PlainStores` | `ConsoleInv` |

The assumptions are the named ASSUMEs of the component modules, which TLC evaluates in
every run. They say that a message has a positive weight and a tenant, that there are
workers and writers (`config/validate.go:138-139`, `app/app.go:230-232`) and that
queues have room for one element, so an unbuffered batch queue is not covered; that a
row belongs to one group; and what section 3 says of the file's sources. Of the pages
they say that stored targets have the fields and defaults the server gives them
(`decodeForwardTarget`), that a slug is not empty, that catalogs, typed domains and typed
sources are lists, that a period counts in natural numbers, and that trimming a word or
lowering its case twice is doing it once.

### Pipeline

`TypeInv` adds to the types what the steps need to stay inside them: a busy
worker holds a message (`HandFull`), a writer at work has a range of its batch
left (`RangesLeft`), and a semaphore that is waking somebody has somebody who
fits (`NotifyingSomebody`).

`ChannelInv` adds that only Close closes the queue and that it has the write lock
by then (`ClosedByCloser`), and that the calls in the line of the semaphore are in
state `wait`, each once (`WaitersInLine`). The latter is needed because a grant
moves a call forward to its send: were the call one that had already left, a
message would be sent on a closed channel.

`MemoryInv` replaces the bound on a worker's batches by the stronger fact that a
batch is below its limit except between the row that fills it and the flush that
follows (`OpenBatchesFit`), since the bound alone does not survive one more row.

`BudgetInv`: a release gives back bytes that are still taken only if the message is in
the queue or in one worker's hand and nowhere else, and an acquisition takes new ones
only if the message was never accepted (`PlacedInv`). The sum over the holders then
changes by one weight per step.

`AccountingInv` gives every accepted message exactly one place (`OnePlace`,
`Somewhere`, `AcceptedOnly`): the queue, a hand, an open batch, a flushed batch, the
part of a writer's rows that its ranges still cover, or the ledger. Every step takes a
message from one place to the next; the bisection is the hard one, because the two
halves must cover what the range covered and no more (`RowsInOrder`). To this it adds
that a count agrees with what is on disk (`DiskIsTrue`), that a worker's `pending` is
the number of rows of its batches (`PendingExact`), which the flush timer relies on,
and that goroutines that have exited left nothing (`Drained`).

### Forwarder

The same argument with other places (`PlacesInv`): the hand of a Forward call, the
queue, the rest of the group the sender received, its pending batch, or counted. The
limit needs a second idea. Forward compares and adds in separate steps under a shared
lock, so neither the counter nor the buffer alone has an inductive bound:
`PressureInv` bounds the counter together with the groups of the calls that have
compared and not yet added.

### ForwardRegistry

`RegistryInv` keeps lists filed under their names, also the stale ones that
reconcilers hold; says that a forwarder about to be stopped is no longer handed out;
and that one runs only for a target that is switched on.

### LiveTail

`RingsAreWindows` is the refinement of `TailWindow`: initial states map to initial
states, and every step to a step or a stutter. It rests on lemmas about the ring
buffer: what a push onto a ring that is full or not, a batch of pushes, a resize
and an enumeration mean as sequences, with the index arithmetic modulo the capacity.
`PageInv` says that a stream that was given up has neither source nor timer, that rows
and pending rows come from the current connection, and that a change of the rows has a
frame scheduled.

### WebSession

`SessionInv` has the shape of the cache and of every call on its way, and two ideas:
whatever the tab holds, is reading or is about to be told was read for an account that
has had the tab since the cache was last emptied (`OwnInv`), which stays true because
emptying the cache also drops the reads on their way; and the login page knows the page
the last 401 came from (`LoginInv`). `ClearedForGood` is therefore about what a logout, a
401 or a reload leaves. It does not say that two accounts never see each other's rows: a
login over a live session keeps them, in the model as in the code (section 6). `TypeOK`
bounds nothing: sessions and late answers may be any number.

### Supervisor

`SourcesInv` is inductive without a premise: lists without clashes, also the part of a
list that a reconcile has not applied yet; a state and a definition for every source
that runs; an HTTP endpoint that belongs to a known source, which is of that type, was
so before its move or has just become so. `AgreeInv` says what runs in the middle of a
reconcile: a source that moves runs its old definition until its replacement serves.

`ListenersAgree` has a premise because of finding 1, without which its conclusion is
false: `NoListenerReplaced` says that no moved source comes up at its new address while
its old listener is still open. Moves that fail, all other edits, failures and other
processes remain. So the theorem also shows that the finding is the only way in which
Reconcile leaves a socket behind. TLC confirms that the premise holds throughout
`supervisor_safety`, where no move finds a free address.
`ListsAreClean` and `RunningIsServing` give the other conjuncts without it.

`ReportsAreTrue` is false of some instances (section 6), so `ReportsStayTrue` has two
premises that leave out what makes it so. `NoMoveSucceeds`: a moved source that
comes up at its new address is stopped by name at the end of the same reconcile, also
one that had no listener before, and is reported `stopped` while readiness may say true.
`SyslogMovesOnly`: a source whose address changes is an enabled syslog source before and
after; otherwise a move that fails is undone in the definition and not in the state,
and the error stays even when the edit is taken back. Edits that move nothing, moves
that fail, refused binds, removals, adoptions and other processes all remain.
`ReportInv` ties the state of every source the reconcile is done with to its
definition: disabled if and only if it is switched off, running if and only if it holds
the endpoint or a socket. `NobodyTakenOffTheAir` needs the first premise alone. TLC
confirmed both premises and `ReportInv` on the instance of `supervisor_safety`.

### AdminConsole

`ConsoleInv` is a conjunction of one invariant per page. The pages share no variable, so
that a step of the console is a step or a stutter of each (`EveryPageSteps`), and each is
proved by itself.

- Sources (`EditorInv`, `ConflictInv`). Versions only grow, and whatever is on its way or
  on the screen is tied to a version the source has or had (`Had`): what was read, what
  the editor started from, and the answer of a save. A save that waits names a version
  and, if that is still the current one, contains all its edits (`Builds`), so that a save
  which the server accepts loses nothing. `ConflictInv` is why a conflict is somebody
  else's: until a call outlives its page or its answer is lost (`orphaned`), every version
  the page may build on is current, or behind an edit of another administrator, or about
  to be replaced by the answer to its own save. Both were checked with TLC on the sources
  page, with two calls and three visits, before they were proved.
- Forwarding (`ForwardInv`). Every row that is listed, in a dialog, in a question or in a
  call is the target as it was at that version (`SeenOf`); a call carries the version of
  the row it was made on and changes what it says it changes (`IsRequest`).
- API keys (`KeysInv`). The secret of a stored key is on the screen, was there when the
  dialog was closed, or is in an answer whose callback is still attached; as long as no
  success is unheard of, a read that was answered lists what is stored. A call whose answer
  is lost stays unheard of for ever, and a first read that was joined may be behind
  (`overtakenKeys`).
- Users (`UsersInv`). The same of the list; one account at a time is being created, so a
  generated password is not replaced by another. A save that was taken wrote what the
  server had read, but for the fields that were sent; nothing is claimed of what was stored
  between the two.
- Retention (`PeriodInv`). Periods are texts, and what is read and stored are lengths.
- Service catalog (`ServicesInv`). A panel without changes has the rows of a catalog the
  server has held; a catalog on its way has passed the checks of the page, so that
  what the server complains about is found on one of its rows (`ChecksOut`).

`UntouchedSavesTheSame` adds, under `PlainStores`, that everything stored, listed and sent
is spelled the way the pages spell it: parts of `ForwardInv` and `ServicesInv` say so
conditionally (`Tidy`, `Spelt`, `Neat`), so that the one inductive invariant serves all
five theorems. The premise is needed. The API trims neither a service's label nor the
names of a target's sources, so a client other than these pages can store one with a
blank, and an untouched save of the page then trims it. That the domains, the names and
the parts of a period survive the way to the form and back is a statement about folds
over lists; it is reasoned about through the function that a fold denotes (`Folded`),
which exists for every finite set of integers (`FoldExists`).

### The lemmas

`Collections` holds what several proofs need of sequences without repetitions, sums
over finite sets, the largest element of one and folds. The folds of the library are
recursive functions on sets: that a sum grows by the weight of a new element is proved
by an induction over the set of subsets for which it holds, since the provers do not
instantiate the operator of a general induction theorem. Loops of the code that a
property looks into (`Copies`, `Keep`, `Push`, `desiredSources`) are written as
recursive functions for the same reason, and `LoopExists` shows that such functions
exist.

Each step lemma has one case per action, a lemma for `Next` collects them, and the
theorem combines them by temporal reasoning.

### What only TLC checks

- Liveness (`CloseTerminates`, `EveryMessageAccounted`, `StopTerminates`,
  `EveryCopySettled`, both `ChangesApplied`, `StreamRecovers`, `PagesConverge`,
  `NobodyIsStuck`, `PanelsSettle`): fairness and ENABLED are outside what the prover
  handles.
- `ReportsAreTrue` and `SourcesUndisturbed` of `Supervisor` outside the premises above,
  where they are not true of every instance (section 6).
- The explorer (`QueryKeepsItsMeaning`, `AnswerIsOfTheQuery`, `PagesJoin`,
  `SelectionStands`): its
  parser is a RECURSIVE operator, which the prover does not accept.
- The source form (`UntouchedSaveIsIdentity`, `FormHangsTogether`, `TypedRulesSurvive`),
  for now (section 2, item 14).

`NothingAcceptedAfterClose` is stated by a theorem and by no run.

## 6. Findings

1. `supervisor.go:174`: a source that moves to a free address loses its listener.
   The old one is to be stopped by name, but the name already belongs to the new
   one; the new socket is closed and the old one stays open and unknown
   (`supervisor_move`).

Further divergences of the server, which the models reach and which no run is kept
for: `pipeline/writer.go:118`, `setHealthy` swaps the flag and exports the gauge in two
steps, so that when two writers cross, `storage_healthy` stays 0 although the last
write succeeded; `supervisor.go:186`, switching a source from tcp to tls on its address
counts as a move, and the new listener cannot bind the port of the old one, in every
reconcile; `supervisor.go:146`, adopting a file source changes its origin, and so its
listener is closed and bound again, against `docs/operations.md`;
`forwarding/registry.go:117`, the old forwarder of a changed target is never stopped;
`app/forwarding.go:100`, one failed read of the database stops all targets that are
defined there.

Known limits of the code that the models reach and no property forbids, because
nothing documents a promise: the forwarder's limit check and its addition are
separate, so concurrent writers can pass `QueueMaxMessages` by their groups
(`BufferNearlyBounded` bounds the excess, for any number of writers); a writer that loaded
the old set may call a stopped forwarder, which drops the copies uncounted; a reconcile
that was waiting when Stop ran starts things again, shortly before the process exits; a
source in error is not tried again until its definition changes; two TCP sources that swap
addresses never get there; an adopted row that no longer validates suppresses the file's
entry as well; a source in error whose address is corrected meets finding 1, and readiness
then reports true with nothing running. Two more came up in the attempt to prove
`ReportsAreTrue`, which therefore holds of the instance that is checked, under the
premises of `ReportsStayTrue`, and not of every one: a source that turns from http_json
into a syslog source whose listener cannot start is restored to its old definition by the
loop over `stopAfter` and goes on serving the endpoint, while its state says error; a
disabled source that is enabled and given a new address in one edit, and cannot start, is
remembered as disabled while its state says error, so that readiness reports false
although no enabled source is remembered.

Divergences of the web client and its handlers from their own comments and texts, which
the models reach as well:

- `handlers_auth.go:84`: the fields of the cookie that a logout should send stand behind a
  `//nolint` comment on their line. The cookie has no name, nothing is sent, and the
  browser keeps the cookie of a session that is dead on the server.
- `SettingsPage.tsx:68`, `ServiceTrendsView.tsx:355`: "Seeded once: a background refetch must
  not overwrite what is being typed" is true of a read that succeeds. One that fails swaps
  the form for an error panel, and what was typed is gone.
- `ServiceCatalogEditor.tsx:60`: "A country already chosen is left alone", unless it was
  chosen after the click: the answer is applied to the rows of the click, and every edit
  made meanwhile goes with it.
- `SourceDetailPage.tsx:133`: "Someone else changed this source while you were editing it" is
  said of every 409: of the retry of a save that was stored and whose answer was lost, and
  of a new source whose name is taken.
- `source-form.ts:440`: a source whose pasted certificate is replaced by files keeps the
  stored key, because an update without a key means unchanged. The editor opens on pasted
  material again, without a certificate, and refuses to be saved.
- `ExplorerPage.tsx:476`: the notice that logs of one timestamp were left out looks at the
  first page only, while any page may overflow (`src/docs/api.md:249`).

Known limits of the web client that no property forbids, because nothing promises
otherwise:

- No version. An account is read and written without one (`handlers_users.go:77-109`), so
  what is stored between the two is undone, and the dialog always sends the display name
  it showed; the last administrator is protected by counting and then deleting
  (`handlers_users.go:143`), so that two deletions at once leave none. Deletions, the catalog
  and the retention period carry no version either: the last one wins.
- Answers that are lost. What was stored is not listed until the next read, a secret or a
  generated password is never seen, and a retry may be refused for the own change. A
  change that is answered while a list is read for the first time joins that read.
- Answers that come late. A late 401 or logout of an old session hits the new one; a
  late `/auth/me` overwrites the CSRF token; a logout that failed looks like one that
  succeeded. A late answer to a revocation or deletion closes another confirmation
  (`ApiKeysPage.tsx:221`, `UsersPage.tsx:201`, `SavedSearchesPage.tsx:146`). The secret of
  an API key is never seen when its dialog is closed before the answer.
- Sessions. `useLogin` empties nothing (`api/hooks/index.ts:89`): after a login over a session
  that was not ended, the searches of the explorer, which never become stale, show the
  rows of the previous account until they are asked for again. An ended session is not
  noticed on the password page, where nothing is polled, nor in a hidden tab.
- Typing that is lost. What is typed in a source while its save is on its way goes
  with the remount; a successful save of the retention period or of the service
  catalog (`ServiceCatalogEditor.tsx:102`) replaces what was typed meanwhile.
- Errors in the wrong place. Refusals of rules and of services are kept by index and
  stay there when rows move; a complaint about `target.url` finds no field.
- Values that are not kept. A source that mixes files and text loses its CA; the
  forwarding dialog drops keys it has no field for and freezes omitted limits to their
  defaults; a comma in a value of an `in` chip splits it; with a query text that does not
  parse, Save stores the empty filter and a new chip replaces the text. `1d12h` passes the
  page and is refused by the server; the label limit counts characters here and bytes
  there.
- Explorer and live tail. With an absolute range, Run after a revisit shows cached
  rows; the total may be that of an earlier query (`ExplorerPage.tsx:233`); `j` with no
  rows selects -1; a proposal without a time range is not handled. A page may be longer
  than its limit by a group of equal timestamps, and the table than its own by a page. The
  tail's indicator stays `live` after a query that does not parse, and its drawer keeps an
  index while rows move. The create-user dialog is never reset, and the reset of the save
  dialog never runs (`dialogs.tsx:150`).

The properties are stated so that they hold beside these: where one had to be excused,
a ghost variable (`orphaned`, `unread`, `revisited`, `closedOn`, `overtakenKeys`,
`overtakenUsers`) marks the situation, so that the property still says something about all others.

## 7. Not modelled

Connections of the listeners, framing, the server's side of authentication and the
recorder of service trends are planned (section 2). Certificates use a library for
the ACME protocol; their files and renewals are left for later.

Left out for good, on the server: parsers, normalization and extraction (pure
functions over text, fuzzed by the repository's own tests); the storage and metric
clients (HTTP, present as outcomes of a request); the SQL of the metadata store (its
tables are variables, its transactions are PostgreSQL's); query translation; static
templates, look-ups, the language-model client, the load generator, entry points and
packaging.

Left out for good, in the browser: dashboards, analytics, system and audit pages,
which read and draw; the shell, hotkeys, theme and other preferences; charts, tables
and other widgets; exports and downloads; trying rules on a sample, testing a
connection and uploading certificates, which change nothing; completion and
validation messages; generated types.
