--------------------------- MODULE ForwardRegistry ---------------------------
(***************************************************************************)
(* The set of forward targets (internal/forwarding/registry.go) and the    *)
(* loop of internal/app that keeps it in step with the configuration file  *)
(* and the database.                                                       *)
(*                                                                         *)
(* The storage writers load the set without a lock and hand their batch to *)
(* every forwarder in it.  Two goroutines reconcile: one on a ticker, one  *)
(* on database notifications.  Each reads the list of targets first and    *)
(* takes the mutex afterwards.  What a single forwarder does is the        *)
(* subject of module Forwarder; here it runs or it does not.               *)
(***************************************************************************)
EXTENDS Integers, FiniteSets, FiniteSetsExt, Functions

CONSTANTS
    Names,       \* names of targets
    Settings,    \* everything else a target says
    File,        \* File[n]: the target n of the configuration file, or None
    Rows,        \* Rows[n]: the rows that administrators may store for n
    Watchers,    \* goroutines that reconcile
    Writers,     \* storage writers of the pipeline
    Forwarders,  \* a pool of identities for forwarders
    None,
    Outages,     \* reading the database may fail
    BuildMayFail,\* opening the client of a remote may fail
    MaxEdits     \* bound on the changes made by administrators

Target == [name : Names, settings : Settings, enabled : BOOLEAN,
           origin : {"file", "database"}]
Lists == [Names -> Target \cup {None}]

ASSUME TargetsAssumption ==
    /\ \A n \in Names : File[n] # None =>
          File[n] \in Target /\ File[n].name = n /\ File[n].origin = "file"
    /\ \A n \in Names : \A r \in Rows[n] :
          r \in Target /\ r.name = n /\ r.origin = "database"
    /\ Forwarders \subseteq Nat
    /\ None \notin Target /\ None \notin Lists /\ None \notin Watchers
    /\ Outages \in BOOLEAN /\ BuildMayFail \in BOOLEAN /\ MaxEdits \in Nat

VARIABLES
    table,    \* table[n]: the row of n in forward_targets, or None
    edits,
    watcher,  \* where a reconciling goroutine stands
    list,     \* list[g]: the targets that goroutine g has read
    mu,       \* the goroutine that holds r.mu, or None
    desired,  \* r.desired
    current,  \* r.current: the forwarders that writers are given
    running,  \* running[f]: the target that forwarder f serves, or None
    tostop,   \* forwarders that the holder of the mutex is about to stop
    given,    \* given[w]: forwarders writer w loaded and has not called yet
    life      \* the process: up, cancelled, stopped

vars == <<table, edits, watcher, list, mu, desired, current, running, tostop,
          given, life>>

TypeOK ==
    /\ table \in Lists /\ \A n \in Names : table[n] \in Rows[n] \cup {None}
    /\ edits \in 0..MaxEdits
    /\ watcher \in [Watchers -> {"idle", "read", "stopping"}]
    /\ list \in [Watchers -> Lists \cup {None}]
    /\ mu \in Watchers \cup {None}
    /\ desired \in Lists
    /\ current \subseteq Forwarders /\ tostop \subseteq Forwarders
    /\ running \in [Forwarders -> Target \cup {None}]
    /\ given \in [Writers -> SUBSET Forwarders]
    /\ life \in {"up", "cancelled", "stopped"}

\* The process after Run called Registry.Start, before the first reconcile.
Init ==
    /\ table \in [Names -> UNION {Rows[n] : n \in Names} \cup {None}]
    /\ \A n \in Names : table[n] = None \/ table[n] \in Rows[n]
    /\ edits = 0
    /\ watcher = [g \in Watchers |-> "idle"]
    /\ list = [g \in Watchers |-> None]
    /\ mu = None
    /\ desired = [n \in Names |-> None]
    /\ current = {}
    /\ running = [f \in Forwarders |-> None]
    /\ tostop = {}
    /\ given = [w \in Writers |-> {}]
    /\ life = "up"

-----------------------------------------------------------------------------
(* The list of targets.                                                    *)

\* desiredForwardTargets: the file wins a clash of names.  A database that
\* cannot be read leaves the targets of the file.
Union(rows) == [n \in Names |-> IF File[n] # None THEN File[n] ELSE rows[n]]

NoRows == [n \in Names |-> None]

\* The forwarders API stores, changes or deletes a row.
Edit(n) ==
    /\ edits < MaxEdits
    /\ edits' = edits + 1
    /\ \E r \in (Rows[n] \cup {None}) \ {table[n]} :
          table' = [table EXCEPT ![n] = r]
    /\ UNCHANGED <<watcher, list, mu, desired, current, running, tostop, given,
                   life>>

\* A tick or a notification: the list is read, before the mutex is taken.
Read(g) ==
    /\ watcher[g] = "idle"
    /\ life # "stopped"
    /\ watcher' = [watcher EXCEPT ![g] = "read"]
    /\ \/ /\ life = "up"
          /\ list' = [list EXCEPT ![g] = Union(table)]
       \/ /\ Outages \/ life = "cancelled"
          /\ list' = [list EXCEPT ![g] = Union(NoRows)]
    /\ UNCHANGED <<table, edits, mu, desired, current, running, tostop, given,
                   life>>

-----------------------------------------------------------------------------
(* Reconcile.                                                              *)

\* The running forwarder of a name.
ForwarderOf(n) == {f \in current : running[f].name = n}

\* Mutant: whatever runs under the name is kept.
UnchangedIfRunning(t) == ForwarderOf(t.name) # {}

\* Mutant: nobody looks whether the target really has a forwarder.
UnchangedIfDesired(t) == desired[t.name] = t

\* An unchanged target keeps its forwarder and what it has queued.
Unchanged(t) == desired[t.name] = t /\ ForwarderOf(t.name) # {}

\* A target that is listed and switched on.
Runs(t) == t # None /\ t.enabled

\* Mutant: unchanged targets are left out of the new set.
KeepNone(names) == {}

\* The forwarders of the unchanged targets go into the new set.
Keep(names) == UNION {ForwarderOf(n) : n \in names}

\* Identities that nobody refers to.
Fresh == {f \in Forwarders : running[f] = None /\ \A w \in Writers : f \notin given[w]}

\* The forwarders that go: those whose name no longer has one.
Unwanted(kept, built) ==
    {f \in current : running[f].name \notin kept \cup built}

\* The targets of a list for which a forwarder must be built.
ToBuild(g) ==
    {n \in Names : Runs(list[g][n]) /\ ~Unchanged(list[g][n])}

\* Reconcile up to the stops: targets are kept or built, and the set that
\* writers load is replaced as a whole.
SwapWith(g, built) ==
    LET kept == {n \in Names : Runs(list[g][n])} \ ToBuild(g)
        id   == CHOOSE m \in [built -> Fresh] : IsInjective(m)
    IN  /\ mu = None
        /\ \E m \in [built -> Fresh] : IsInjective(m)
        /\ running' = [f \in Forwarders |->
              IF \E n \in built : id[n] = f
              THEN list[g][CHOOSE n \in built : id[n] = f]
              ELSE running[f]]
        /\ current' = Keep(kept) \cup {id[n] : n \in built}
        /\ tostop' = Unwanted(kept, built)
        /\ desired' = list[g]
        /\ mu' = g
        /\ watcher' = [watcher EXCEPT ![g] = "stopping"]
        /\ list' = [list EXCEPT ![g] = None]
        /\ UNCHANGED <<table, edits, given, life>>

\* The client of every new target can be opened.
SwapAll(g) == watcher[g] = "read" /\ SwapWith(g, ToBuild(g))

\* A target whose client cannot be opened is left out.
Swap(g) ==
    /\ watcher[g] = "read"
    /\ \E built \in SUBSET ToBuild(g) :
          (BuildMayFail \/ built = ToBuild(g)) /\ SwapWith(g, built)

StopForwarder(g, f) ==
    /\ mu = g
    /\ f \in tostop
    /\ running' = [running EXCEPT ![f] = None]
    /\ tostop' = tostop \ {f}
    /\ UNCHANGED <<table, edits, watcher, list, mu, desired, current, given, life>>

Unlock(g) ==
    /\ mu = g
    /\ tostop = {}
    /\ mu' = None
    /\ watcher' = [watcher EXCEPT ![g] = "idle"]
    /\ UNCHANGED <<table, edits, list, desired, current, running, tostop, given,
                   life>>

-----------------------------------------------------------------------------
(* The ingestion path and shutdown.                                        *)

\* Registry.Forward loads the set and calls the forwarders one by one.
Load(w) ==
    /\ given[w] = {}
    /\ life # "stopped"
    /\ given' = [given EXCEPT ![w] = current]
    /\ UNCHANGED <<table, edits, watcher, list, mu, desired, current, running,
                   tostop, life>>

Forward(w, f) ==
    /\ f \in given[w]
    /\ given' = [given EXCEPT ![w] = @ \ {f}]
    /\ UNCHANGED <<table, edits, watcher, list, mu, desired, current, running,
                   tostop, life>>

Cancel ==
    /\ life = "up"
    /\ life' = "cancelled"
    /\ UNCHANGED <<table, edits, watcher, list, mu, desired, current, running,
                   tostop, given>>

\* Registry.Stop, after the pipeline has drained and its writers are gone.
Stop ==
    /\ life = "cancelled"
    /\ mu = None
    /\ \A w \in Writers : given[w] = {}
    /\ life' = "stopped"
    /\ running' = [f \in Forwarders |-> IF f \in current THEN None ELSE running[f]]
    /\ current' = {}
    /\ UNCHANGED <<table, edits, watcher, list, mu, desired, tostop, given>>

Reconcile(g) == Swap(g) \/ (\E f \in Forwarders : StopForwarder(g, f)) \/ Unlock(g)

Next ==
    \/ \E n \in Names : Edit(n)
    \/ \E g \in Watchers : Read(g) \/ Reconcile(g)
    \/ \E w \in Writers : Load(w) \/ \E f \in Forwarders : Forward(w, f)
    \/ Cancel
    \/ Stop

Spec == Init /\ [][Next]_vars

\* The ticker keeps ticking while the process is up; a reconcile that has
\* begun gets the mutex and stops forwarders within the deadline of its
\* context; a client that cannot be opened now can be opened in one of the
\* later attempts; a writer finishes handing out its batch.
Fairness ==
    /\ \A g \in Watchers :
          WF_vars(Read(g)) /\ SF_vars(SwapAll(g)) /\ WF_vars(Reconcile(g))
    /\ \A w \in Writers, f \in Forwarders : WF_vars(Forward(w, f))

FairSpec == Spec /\ Fairness

-----------------------------------------------------------------------------
(* Properties.                                                             *)

\* A writer is given one forwarder per target at most, and it serves the
\* definition that r.desired has for its name (Reconcile, the swap).
ServesDesired ==
    \A f, h \in current :
        /\ running[f] # None
        /\ desired[running[f].name] = running[f]
        /\ running[f].name = running[h].name => f = h

\* A reconcile keeps the forwarder, and so the backlog, of every target whose
\* entry in its list equals the one before.
UnchangedKeepsBacklog ==
    [][\A g \in Watchers : Swap(g) =>
          \A f \in current : list[g][running[f].name] = running[f]
              => f \in current' /\ running'[f] = running[f]]_vars

\* What the administrators asked for is what writers are given.
InSync ==
    {running[f] : f \in current} =
        {Union(table)[n] : n \in {m \in Names : /\ Union(table)[m] # None
                                                /\ Union(table)[m].enabled}}

\* Once nothing is edited the targets in use are the ones asked for, although
\* a reconcile may have applied a list that was already out of date.
ChangesApplied == <>[](life = "up" => InSync)

=============================================================================
