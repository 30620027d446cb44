----------------------------- MODULE Supervisor -----------------------------
(***************************************************************************)
(* The source supervisor (internal/ingestion/supervisor) with the loop of  *)
(* internal/app that feeds it.  Sources come from the configuration file   *)
(* and from the database; watchSources reads their union every five        *)
(* seconds or on a notification and hands it to Reconcile, which starts,   *)
(* stops and rebinds listeners.                                            *)
(*                                                                         *)
(* Reconcile, Start and Stop run under one mutex.  Inside it Reconcile is  *)
(* still a sequence of steps that the rest of the host can see: it closes  *)
(* sockets, then binds the changed sources one after the other, then gives *)
(* up the listeners that were replaced.  A listener is the definition it   *)
(* was started with and the address it is bound to.  UDP listeners set     *)
(* SO_REUSEPORT, so two of this process can share an address; TCP ones     *)
(* cannot.                                                                 *)
(***************************************************************************)
EXTENDS Integers, Sequences, FiniteSets, SequencesExt

CONSTANTS
    Names,        \* names of sources
    NameOrder,    \* Names in the order in which the database lists them
    Addresses,    \* host:port pairs
    AnyPort,      \* an address with port 0: the host picks a free one
    Revisions,    \* everything else a definition says
    None,         \* no definition, no socket, no listener
    File,         \* the sources of the configuration file
    Rows,         \* Rows[n]: the database rows that operators may store for n
    Held,         \* addresses that other processes hold from the beginning
    Contested,    \* addresses that other processes may take and release
    Fragile,      \* sources that may also fail to start for other reasons
    MaxEdits      \* bound on the operators' changes

Transports == {"udp", "tcp"}
Binds == Transports \X Addresses

Source == [name : Names, type : {"syslog", "http_json"},
           protocol : {"udp", "tcp", "tls", "none"},
           address : Addresses \cup {AnyPort, None},
           enabled : BOOLEAN, rev : Revisions]

\* A definition and where it came from.
Desired == [src : Source, origin : {"file", "database"}]
Status == [state : {"running", "stopped", "error", "disabled"},
           type : {"syslog", "http_json"}]
Listener == [at : Binds, src : Source]

\* tcp and tls share the port space of TCP.
Transport(s) == IF s.protocol = "udp" THEN "udp" ELSE "tcp"

\* Validate refuses a file with a name or an address twice.  It does not
\* refuse a second http_json source.
ASSUME SourcesAssumption ==
    /\ File \in Seq(Source)
    /\ \A i, j \in DOMAIN File : i # j =>
          /\ File[i].name # File[j].name
          /\ \/ ~File[i].enabled \/ ~File[j].enabled
             \/ File[i].type # "syslog" \/ File[j].type # "syslog"
             \/ Transport(File[i]) # Transport(File[j])
             \/ File[i].address # File[j].address
    /\ \A n \in Names : \A r \in Rows[n] :
          r.src \in Source /\ r.src.name = n /\ {r.adopted, r.valid} \subseteq BOOLEAN
    /\ NameOrder \in Seq(Names)
    /\ Range(NameOrder) = Names /\ Len(NameOrder) = Cardinality(Names)
    /\ Held \subseteq Binds /\ Contested \subseteq Binds
    /\ Fragile \subseteq Names /\ MaxEdits \in Nat
    /\ None \notin Names /\ AnyPort \notin Addresses
    /\ None \notin Listener /\ None \notin Desired /\ None \notin Status

VARIABLES
    managed,   \* managed[n]: the row of n in the sources table, or None
    edits,     \* number of changes made by operators
    fetched,   \* the definitions that watchSources read last
    watch,     \* watchSources: "idle", or "read" before it calls Reconcile
    lock,      \* s.mu: "free", or "apply" while Start or Reconcile hold it
    todo,      \* changed definitions that apply has not reached yet
    after,     \* stopAfter: the definitions that moving sources had before
    desired,   \* s.desired
    status,    \* s.status
    running,   \* s.running: the listener of a source
    http,      \* s.httpSource
    open,      \* the listeners of this process whose sockets are open
    taken,     \* what other processes have bound
    life       \* the process: new, starting, up, draining, stopped

database == <<managed, edits>>
supervisor == <<lock, todo, after, desired, status, running, http>>
vars == <<managed, edits, fetched, watch, lock, todo, after, desired, status,
          running, http, open, taken, life>>

TypeOK ==
    /\ \A n \in Names : managed[n] = None \/ managed[n] \in Rows[n]
    /\ edits \in 0..MaxEdits
    /\ fetched \in Seq(Desired) /\ todo \in Seq(Desired)
    /\ watch \in {"idle", "read"}
    /\ lock \in {"free", "apply"}
    /\ after \subseteq Source
    /\ desired \in [Names -> Desired \cup {None}]
    /\ \A n \in Names : desired[n] # None => desired[n].src.name = n
    /\ status \in [Names -> Status \cup {None}]
    /\ running \in [Names -> open \cup {None}]
    /\ http \in Names \cup {None}
    /\ open \subseteq Listener /\ taken \subseteq Binds
    /\ life \in {"new", "starting", "up", "draining", "stopped"}

Init ==
    /\ managed \in [Names -> UNION {Rows[n] : n \in Names} \cup {None}]
    /\ \A n \in Names : managed[n] = None \/ managed[n] \in Rows[n]
    /\ edits = 0
    /\ fetched = <<>>
    /\ watch = "idle"
    /\ lock = "free"
    /\ todo = <<>>
    /\ after = {}
    /\ desired = [n \in Names |-> None]
    /\ status = [n \in Names |-> None]
    /\ running = [n \in Names |-> None]
    /\ http = None
    /\ open = {} /\ taken = Held
    /\ life = "new"

-----------------------------------------------------------------------------
(* The union of file and database.                                         *)

\* The members of a list that are in S, in their order.
Keep(list, S) ==
    LET kept[i \in 0..Len(list)] ==
            IF i = 0 THEN <<>>
            ELSE IF list[i] \in S THEN Append(kept[i - 1], list[i]) ELSE kept[i - 1]
    IN  kept[Len(list)]

\* Why a source cannot run beside another one.
ConflictsWith(s, other) ==
    \/ s.name = other.name
    \/ /\ s.enabled /\ other.enabled
       /\ \/ s.type = "http_json" /\ other.type = "http_json"
          \/ /\ s.type = "syslog" /\ other.type = "syslog"
             /\ Transport(s) = Transport(other)
             /\ s.address = other.address

FileSources(ss) == [i \in DOMAIN ss |-> [src |-> ss[i], origin |-> "file"]]

Adopted(n) == managed[n] # None /\ managed[n].adopted

AddManaged(list, n) ==
    IF \/ managed[n] = None
       \/ ~managed[n].valid
       \/ \E i \in DOMAIN list : ConflictsWith(managed[n].src, list[i].src)
    THEN list
    ELSE Append(list, [src |-> managed[n].src, origin |-> "database"])

\* The file wins a clash, except against the adopted copy of its own entry.
desiredSources ==
    LET inFile == Keep(File, {s \in Range(File) : ~Adopted(s.name)})
        union[i \in 0..Len(NameOrder)] ==
            IF i = 0 THEN FileSources(inFile)
            ELSE AddManaged(union[i - 1], NameOrder[i])
    IN  union[Len(NameOrder)]

-----------------------------------------------------------------------------
(* Helpers of Reconcile.                                                   *)

\* Two definitions listen on the same address.
sameBind(a, b) ==
    /\ a.type = b.type
    /\ a.protocol = b.protocol
    /\ a.address = b.address

\* The listener of s already holds the address that s asks for.
boundTo(s) ==
    /\ running[s.name] # None
    /\ running[s.name].src.type = s.type
    /\ running[s.name].src.protocol = s.protocol
    /\ running[s.name].at[2] = s.address

\* The old listener must go before the new definition is started.
StopsFirst(prev, s) == sameBind(prev, s) \/ boundTo(s) \/ ~s.enabled

\* Mutant: a change of settings other than the address goes unnoticed.
ChangedBindOnly(d) ==
    \/ desired[d.src.name] = None
    \/ ~sameBind(desired[d.src.name].src, d.src)
    \/ desired[d.src.name].src.enabled # d.src.enabled

Changed(d) == desired[d.src.name] # d

NamesOf(ds) == {d.src.name : d \in ds}

\* stopSource for every name in S: close the listener and forget it.
CloseListeners(S) ==
    /\ running' = [n \in Names |-> IF n \in S THEN None ELSE running[n]]
    /\ open' = open \ {running[n] : n \in S}

\* Mutant: the pointer to the HTTP source is left behind.
HTTPKept(S, prev) == http

\* stopSource clears httpSource when the previous definition was an
\* http_json source of that name.
HTTPWithout(S, prev) ==
    IF \E n \in S : http = n /\ prev[n].type = "http_json" THEN None ELSE http

\* stopSource marks a running source stopped.
StatusStopped(n) ==
    IF status[n] # None /\ status[n].state = "running"
    THEN [status[n] EXCEPT !.state = "stopped"]
    ELSE status[n]

-----------------------------------------------------------------------------
(* Operators and other processes.                                          *)

\* The sources API stores, changes or deletes a row.
Edit(n) ==
    /\ life = "up"
    /\ edits < MaxEdits
    /\ \E r \in (Rows[n] \cup {None}) \ {managed[n]} :
          managed' = [managed EXCEPT ![n] = r]
    /\ edits' = edits + 1
    /\ UNCHANGED <<fetched, watch, supervisor, open, taken, life>>

OtherBinds(k) ==
    /\ k \in Contested \ taken
    /\ \A l \in open : l.at # k
    /\ taken' = taken \cup {k}
    /\ UNCHANGED <<database, fetched, watch, supervisor, open, life>>

OtherReleases(k) ==
    /\ k \in Contested \cap taken
    /\ taken' = taken \ {k}
    /\ UNCHANGED <<database, fetched, watch, supervisor, open, life>>

-----------------------------------------------------------------------------
(* The supervisor.                                                         *)

\* Run: supervisor.Start applies the sources of the file.
Start ==
    /\ life = "new"
    /\ life' = "starting"
    /\ lock' = "apply"
    /\ todo' = FileSources(File)
    /\ UNCHANGED <<database, fetched, watch, after, desired, status, running,
                   http, open, taken>>

\* watchSources: a tick or a notification, and the list was read.  A list
\* that cannot be read is skipped; after shutdown began it never can.
ReadSources ==
    /\ life = "up"
    /\ watch = "idle"
    /\ watch' = "read"
    /\ fetched' = desiredSources
    /\ UNCHANGED <<database, supervisor, open, taken, life>>

\* Reconcile up to apply: sources that are gone, and changed ones that must
\* release their address first, are stopped.
ReconcileBegin ==
    LET wanted  == {fetched[i].src.name : i \in DOMAIN fetched}
        removed == {n \in Names : desired[n] # None /\ n \notin wanted}
        changed == Keep(fetched, {d \in Range(fetched) : Changed(d)})
        known   == {d \in Range(changed) : desired[d.src.name] # None}
        first   == {d \in known : StopsFirst(desired[d.src.name].src, d.src)}
        gone    == removed \cup NamesOf(first)
        prev    == [n \in gone |-> desired[n].src]
    IN  /\ watch = "read"
        /\ lock = "free"
        /\ CloseListeners(gone)
        /\ http' = HTTPWithout(gone, prev)
        /\ desired' = [n \in Names |->
              IF n \in removed THEN None ELSE desired[n]]
        /\ status' = [n \in Names |->
              IF n \in removed THEN None
              ELSE IF n \in gone THEN StatusStopped(n) ELSE status[n]]
        /\ after' = {desired[d.src.name].src : d \in known \ first}
        /\ todo' = changed
        /\ lock' = IF changed = <<>> THEN "free" ELSE "apply"
        /\ watch' = IF changed = <<>> THEN "idle" ELSE "read"
        /\ UNCHANGED <<database, fetched, taken, life>>

\* apply records what became of a definition and goes on to the next one.
Record(d, state) ==
    /\ status' = [status EXCEPT ![d.src.name] =
          [state |-> state, type |-> d.src.type]]
    /\ desired' = [desired EXCEPT ![d.src.name] = d]
    /\ todo' = Tail(todo)
    /\ UNCHANGED <<database, fetched, watch, lock, after, taken, life>>

\* The addresses on which s may be served.
Candidates(s) ==
    {k \in Binds : k[1] = Transport(s) /\ s.address \in {k[2], AnyPort}}

\* The host lets s bind k.
MayBind(s, k) ==
    /\ k \notin taken
    /\ \/ \A l \in open : l.at # k
       \/ s.protocol = "udp" /\ s.address # AnyPort

ApplyDisabled ==
    /\ todo # <<>>
    /\ ~Head(todo).src.enabled
    /\ Record(Head(todo), "disabled")
    /\ UNCHANGED <<running, http, open>>

\* Only one http_json source is served.
HTTPFree == http = None

ApplyHTTP ==
    /\ todo # <<>>
    /\ Head(todo).src.enabled /\ Head(todo).src.type = "http_json"
    /\ HTTPFree
    /\ http' = Head(todo).src.name
    /\ Record(Head(todo), "running")
    /\ UNCHANGED <<running, open>>

ApplyListener ==
    /\ todo # <<>>
    /\ Head(todo).src.enabled /\ Head(todo).src.type = "syslog"
    /\ \E k \in Candidates(Head(todo).src) :
          LET l == [at |-> k, src |-> Head(todo).src]
          IN  /\ MayBind(Head(todo).src, k)
              /\ open' = open \cup {l}
              /\ running' = [running EXCEPT ![Head(todo).src.name] = l]
    /\ Record(Head(todo), "running")
    /\ UNCHANGED http

\* The address is taken, an http_json source is active already, or the
\* source cannot be built (bad settings, no certificate).
CannotStart(s) ==
    \/ s.name \in Fragile
    \/ s.type = "http_json" /\ ~HTTPFree
    \/ s.type = "syslog" /\ \A k \in Candidates(s) : ~MayBind(s, k)

ApplyFails ==
    /\ todo # <<>>
    /\ Head(todo).src.enabled
    /\ CannotStart(Head(todo).src)
    /\ Record(Head(todo), "error")
    /\ UNCHANGED <<running, http, open>>

\* Mutant: the old listener is given up whatever became of the new one.
ReplacementAssumed(prev) == TRUE

\* The replacement of a moving source is serving.
ReplacementServes(prev) == status[prev.name].state = "running"

\* Mutant: the failed definition stays, and looks applied.
NotRestored(prev) == desired[prev.name]

\* The definition that a failed move leaves behind, so that the next
\* reconcile tries again.
Restored(prev) == [src |-> prev, origin |-> desired[prev.name].origin]

\* Reconcile after apply: give up the listeners that were replaced, by name.
ReconcileEnd ==
    LET served == {p \in after : ReplacementServes(p)}
        gone   == {p.name : p \in served}
        prev   == [n \in gone |-> CHOOSE p \in served : p.name = n]
    IN  /\ lock = "apply"
        /\ todo = <<>>
        /\ CloseListeners(gone)
        /\ http' = HTTPWithout(gone, prev)
        /\ status' = [n \in Names |->
              IF n \in gone THEN StatusStopped(n) ELSE status[n]]
        /\ desired' = [n \in Names |->
              IF \E p \in after \ served : p.name = n
              THEN Restored(CHOOSE p \in after : p.name = n)
              ELSE desired[n]]
        /\ after' = {}
        /\ lock' = "free"
        /\ watch' = "idle"
        /\ life' = IF life = "starting" THEN "up" ELSE life
        /\ UNCHANGED <<database, fetched, todo, taken>>

\* Run: the background context is cancelled, before shutdown.
Cancel ==
    /\ life = "up"
    /\ life' = "draining"
    /\ UNCHANGED <<database, fetched, watch, supervisor, open, taken>>

\* Stop: every listener in s.running is closed.
Stop ==
    /\ life = "draining"
    /\ lock = "free"
    /\ life' = "stopped"
    /\ CloseListeners(Names)
    /\ http' = None
    /\ status' = [n \in Names |->
          IF running[n] # None \/ http = n
          THEN [status[n] EXCEPT !.state = "stopped"] ELSE status[n]]
    /\ UNCHANGED <<database, fetched, watch, lock, todo, after, desired, taken>>

Apply == ApplyDisabled \/ ApplyHTTP \/ ApplyListener \/ ApplyFails

Next ==
    \/ \E n \in Names : Edit(n)
    \/ \E k \in Binds : OtherBinds(k) \/ OtherReleases(k)
    \/ Start
    \/ ReadSources
    \/ ReconcileBegin
    \/ Apply
    \/ ReconcileEnd
    \/ Cancel
    \/ Stop

Spec == Init /\ [][Next]_vars

\* The ticker of watchSources never stops while the process is up, and a
\* listener that Reconcile stops does stop: its connections end, or deliver
\* what they have read, as long as the pipeline accepts messages.
Fairness ==
    /\ WF_vars(Start)
    /\ WF_vars(ReadSources)
    /\ WF_vars(ReconcileBegin)
    /\ WF_vars(Apply)
    /\ WF_vars(ReconcileEnd)

FairSpec == Spec /\ Fairness

-----------------------------------------------------------------------------
(* Properties.                                                             *)

\* Between two reconciles of a running process.
Settled == lock = "free" /\ life = "up"

\* A source reported as running serves exactly the definition that was asked
\* for last, on an address that definition allows (Reconcile, apply).
ServesItsDefinition ==
    Settled => \A n \in Names :
        /\ status[n] # None
        /\ status[n].state = "running"
        /\ desired[n].src.type = "syslog"
        => /\ running[n] # None
           /\ running[n].src = desired[n].src
           /\ running[n].at \in Candidates(desired[n].src)

\* A listener that runs, also one that was kept because its replacement
\* failed, runs the definition that s.desired remembers: the next reconcile
\* sees the difference and tries again (the restore at the end of Reconcile).
RunsWhatIsRemembered ==
    Settled => \A n \in Names : running[n] # None =>
        /\ desired[n] # None
        /\ running[n].src = desired[n].src

\* Every socket this process holds belongs to a listener that the supervisor
\* knows and will stop; none is left behind by a reconcile (stopSource).
NoOrphanListener ==
    lock = "free" => \A l \in open : running[l.src.name] = l

\* The HTTP ingest endpoint serves a source if and only if that source is
\* the one http_json source reported as running (apply, stopSource).
HTTPSourceTruthful ==
    Settled => \A n \in Names :
        (http = n) <=> /\ desired[n] # None
                       /\ desired[n].src.type = "http_json"
                       /\ status[n].state = "running"

\* Ready(): at least one syslog source runs, or none is configured to run.
Ready ==
    LET wanted == {n \in Names : /\ status[n] # None
                                 /\ status[n].type = "syslog"
                                 /\ status[n].state \in {"running", "error"}}
    IN  wanted = {} \/ \E n \in Names : running[n] # None

\* The readiness probe means what its comment says, against the definitions
\* and the sockets rather than the status it is computed from (Ready).
ReadyMeansServing ==
    Settled => (Ready <=>
        \/ open # {}
        \/ \A n \in Names : desired[n] # None =>
              desired[n].src.type # "syslog" \/ ~desired[n].src.enabled)

\* No two enabled definitions handed to Reconcile want the same address, the
\* same name or, unless the file itself says so, the HTTP endpoint
\* (desiredSources, ConflictsWith, Validate).
UnionHasNoClash ==
    \A i, j \in DOMAIN fetched : i # j =>
        /\ fetched[i].src.name # fetched[j].src.name
        /\ (fetched[i].src.enabled /\ fetched[j].src.enabled) =>
              /\ \/ fetched[i].src.type # "http_json"
                 \/ fetched[j].src.type # "http_json"
                 \/ fetched[i].origin = "file" /\ fetched[j].origin = "file"
              /\ \/ fetched[i].src.type # "syslog"
                 \/ fetched[j].src.type # "syslog"
                 \/ fetched[i].src.address # fetched[j].src.address
                 \/ Transport(fetched[i].src) # Transport(fetched[j].src)

\* The four parties agree on who listens where: the list that was handed in, the
\* definitions the supervisor remembers, the listeners it holds and the sockets
\* that are open, after every reconcile and whatever failed in it.
ListenersMatchDefinitions ==
    UnionHasNoClash /\ ServesItsDefinition /\ RunsWhatIsRemembered /\ NoOrphanListener

\* What the supervisor reports to the API and to the readiness probe is true.
ReportsAreTrue == HTTPSourceTruthful /\ ReadyMeansServing

\* Reconcile leaves the listener of a source alone unless the definition of
\* that very source changed: whatever happens to other sources, its socket
\* stays open and in place.
UnchangedUntouched ==
    [][life = "up" => \A n \in Names :
          \/ running'[n] = running[n]
          \/ lock = "free" /\ ~ \E i \in DOMAIN fetched : fetched[i] = desired[n]
          \/ lock = "apply" /\ todo # <<>> /\ Head(todo).src.name = n
          \/ lock = "apply" /\ \E p \in after : p.name = n]_vars

\* A source that moves to another address has a listener throughout: the old
\* one until the new one serves, and the old one for good if it never does
\* (the loop over stopAfter in Reconcile).
MovingSourceServed ==
    [][life = "up" /\ lock = "apply" => \A p \in after :
          running[p.name] # None => running'[p.name] # None]_vars

\* No reconcile takes a source off the air that it could have left on it.
SourcesUndisturbed == UnchangedUntouched /\ MovingSourceServed

\* What operators asked for is what is served.
InSync ==
    /\ \A n \in Names : desired[n] = None <=>
          ~ \E i \in DOMAIN desiredSources : desiredSources[i].src.name = n
    /\ \A i \in DOMAIN desiredSources :
          LET d == desiredSources[i] IN
          /\ desired[d.src.name] = d
          /\ d.src.enabled /\ d.src.type = "syslog" =>
                /\ running[d.src.name] # None
                /\ running[d.src.name].src = d.src
          /\ d.src.enabled /\ d.src.type = "http_json" => http = d.src.name
          /\ ~d.src.enabled => running[d.src.name] = None

\* Once operators stop making changes, the changes are applied and stay so,
\* for as long as the process is up (watchSources).
ChangesApplied == <>[](life = "up" => InSync)

=============================================================================
