----------------------- MODULE ForwardRegistryProofs ------------------------
(***************************************************************************)
(* Proofs about the set of forward targets: whatever the number of names,  *)
(* reconcilers and writers, whatever list a reconcile was given and        *)
(* whichever clients could not be opened, the writers are given one        *)
(* forwarder per target, for the definition that is remembered, and a      *)
(* target that did not change keeps its forwarder.                         *)
(***************************************************************************)
EXTENDS ForwardRegistry, TLAPS

\* A list has the target of each name under that name.
Named(rows) == \A n \in Names : rows[n] # None => rows[n].name = n

\* The forwarders that are about to be stopped are no longer handed out, and a
\* forwarder runs only for a target that is switched on.
RegistryInv ==
    /\ TypeOK
    /\ Named(table) /\ Named(desired)
    /\ \A g \in Watchers : list[g] # None => Named(list[g])
    /\ \A g \in Watchers : watcher[g] = "read" => list[g] # None
    /\ \A f \in Forwarders : running[f] # None => running[f].enabled
    /\ tostop \cap current = {}
    /\ ServesDesired

\* The union of the file and the rows is a list.
LEMMA UnionIsList ==
  ASSUME NEW rows \in Lists, Named(rows)
  PROVE  Union(rows) \in Lists /\ Named(Union(rows)) /\ Union(rows) # None
<1>1. \A n \in Names : Union(rows)[n] \in Target \cup {None}
                       /\ (Union(rows)[n] # None => Union(rows)[n].name = n)
  BY TargetsAssumption DEF Union, Lists, Named
<1>2. Union(rows) = [n \in Names |-> Union(rows)[n]]
  BY DEF Union
<1>3. Union(rows) \in Lists
  BY <1>1, <1>2 DEF Lists
<1>4. None \notin Lists
  BY TargetsAssumption
<1> QED
  BY <1>1, <1>3, <1>4 DEF Named

\* What a swap installs: the forwarders of the unchanged targets, as they were, and one new
\* forwarder for each target that was built.
LEMMA SwapInstalls ==
  ASSUME RegistryInv, NEW g \in Watchers, watcher[g] = "read",
         NEW built \in SUBSET ToBuild(g), SwapWith(g, built)
  PROVE  \E id \in [built -> Forwarders] :
            /\ \A m, n \in built : id[m] = id[n] => m = n
            /\ \A n \in built : running[id[n]] = None /\ running'[id[n]] = list[g][n]
            /\ \A f \in Forwarders : (\A n \in built : id[n] # f) => running'[f] = running[f]
            /\ current' = {f \in current : \E n \in Names : /\ Runs(list[g][n]) /\ n \notin ToBuild(g)
                                                           /\ running[f].name = n}
                            \cup {id[n] : n \in built}
            /\ running' \in [Forwarders -> Target \cup {None}]
<1> DEFINE id == CHOOSE m \in [built -> Fresh] : IsInjective(m)
           kept == {n \in Names : Runs(list[g][n])} \ ToBuild(g)
<1>0. \E m \in [built -> Fresh] : IsInjective(m)
  BY DEF SwapWith
<1>1. id \in [built -> Fresh] /\ IsInjective(id)
  BY <1>0
<1>2. /\ running' = [f \in Forwarders |->
              IF \E n \in built : id[n] = f
              THEN list[g][CHOOSE n \in built : id[n] = f]
              ELSE running[f]]
      /\ current' = Keep(kept) \cup {id[n] : n \in built}
  BY DEF SwapWith
<1> HIDE DEF id
<1>3. Fresh \subseteq Forwarders /\ \A f \in Fresh : running[f] = None
  BY DEF Fresh
<1>4. id \in [built -> Forwarders] /\ \A m, n \in built : id[m] = id[n] => m = n
  BY <1>1, <1>3 DEF IsInjective
<1>5. ASSUME NEW n \in built PROVE running[id[n]] = None /\ running'[id[n]] = list[g][n]
  <2>1. running[id[n]] = None /\ id[n] \in Forwarders
    BY <1>1, <1>3
  <2>2. (CHOOSE x \in built : id[x] = id[n]) = n
    BY <1>4
  <2> QED
    BY <1>2, <2>1, <2>2
<1>6. \A f \in Forwarders : (\A n \in built : id[n] # f) => running'[f] = running[f]
  BY <1>2
<1>7. Keep(kept) = {f \in current : \E n \in Names : /\ Runs(list[g][n]) /\ n \notin ToBuild(g)
                                                     /\ running[f].name = n}
  BY DEF Keep, ForwarderOf
<1>8. running' \in [Forwarders -> Target \cup {None}]
  <2>1. list[g] \in Lists /\ running \in [Forwarders -> Target \cup {None}] /\ built \subseteq Names
    BY DEF RegistryInv, TypeOK, ToBuild
  <2>2. \A f \in Forwarders : running'[f] \in Target \cup {None}
    BY <1>5, <1>6, <2>1 DEF Lists
  <2> QED
    BY <1>2, <2>2
<1> QED
  BY <1>2, <1>4, <1>5, <1>6, <1>7, <1>8

\* A swap keeps the set in order.
LEMMA SwapKeeps ==
  ASSUME RegistryInv, NEW g \in Watchers, Swap(g)
  PROVE  RegistryInv'
<1>1. watcher[g] = "read" /\ \E built \in SUBSET ToBuild(g) : SwapWith(g, built)
  BY DEF Swap
<1>2. PICK built \in SUBSET ToBuild(g) : SwapWith(g, built)
  BY <1>1
<1>3. PICK id \in [built -> Forwarders] :
        /\ \A m, n \in built : id[m] = id[n] => m = n
        /\ \A n \in built : running[id[n]] = None /\ running'[id[n]] = list[g][n]
        /\ \A f \in Forwarders : (\A n \in built : id[n] # f) => running'[f] = running[f]
        /\ current' = {f \in current : \E n \in Names : /\ Runs(list[g][n]) /\ n \notin ToBuild(g)
                                                       /\ running[f].name = n}
                        \cup {id[n] : n \in built}
        /\ running' \in [Forwarders -> Target \cup {None}]
  BY <1>1, <1>2, SwapInstalls
<1>4. PICK l : l = list[g]
  OBVIOUS
<1>5. l \in Lists /\ Named(l) /\ l # None
  BY <1>1, <1>4 DEF RegistryInv, TypeOK
<1>6. /\ desired' = l /\ mu' = g /\ watcher' = [watcher EXCEPT ![g] = "stopping"]
      /\ list' = [list EXCEPT ![g] = None] /\ UNCHANGED <<table, edits, given, life>>
      /\ tostop' = {f \in current : running[f].name \notin
                      ({n \in Names : Runs(l[n])} \ ToBuild(g)) \cup built}
  BY <1>2, <1>4 DEF SwapWith, Unwanted
<1>t. /\ TypeOK /\ current \subseteq Forwarders /\ ServesDesired /\ Named(desired)
      /\ running \in [Forwarders -> Target \cup {None}]
  BY DEF RegistryInv, TypeOK
<1>7. ASSUME NEW n \in built PROVE n \in Names /\ Runs(l[n]) /\ l[n].name = n /\ l[n] \in Target
  <2>1. n \in ToBuild(g)
    BY <1>7
  <2>2. n \in Names /\ Runs(l[n])
    BY <1>4, <2>1 DEF ToBuild
  <2> QED
    BY <1>5, <2>2 DEF Runs, Named, Lists
<1>8. ASSUME NEW f \in current, NEW n \in Names, Runs(l[n]), n \notin ToBuild(g), running[f].name = n
      PROVE  /\ desired'[n] = running[f] /\ running'[f] = running[f] /\ running[f] # None
             /\ n \notin built /\ \A x \in built : id[x] # f
  <2>1. Unchanged(l[n])
    BY <1>4, <1>8 DEF ToBuild
  <2>2. l[n].name = n
    BY <1>5, <1>8 DEF Runs, Named
  <2>3. desired[n] = l[n]
    BY <2>1, <2>2 DEF Unchanged
  <2>4. desired[n] = running[f] /\ running[f] # None
    BY <1>8, <1>t DEF ServesDesired
  <2>5. \A x \in built : id[x] # f
    BY <1>3, <2>4
  <2>6. running'[f] = running[f]
    BY <1>3, <1>t, <2>5
  <2> QED
    BY <1>6, <1>8, <2>3, <2>4, <2>5, <2>6
<1>9. ServesDesired'
  <2>1. ASSUME NEW f \in current'
        PROVE  \/ \E n \in built : f = id[n] /\ running'[f] = l[n] /\ l[n].name = n
               \/ /\ f \in current /\ running'[f] = running[f] /\ running[f].name \in Names
                  /\ running[f].name \notin built
                  /\ desired'[running[f].name] = running[f] /\ running[f] # None
    <3>1. CASE \E n \in built : f = id[n]
      BY <1>3, <1>4, <1>7, <3>1
    <3>2. CASE ~ \E n \in built : f = id[n]
      <4>1. PICK n \in Names : f \in current /\ Runs(l[n]) /\ n \notin ToBuild(g) /\ running[f].name = n
        BY <1>3, <1>4, <3>2
      <4> QED
        BY <1>8, <4>1
    <3> QED
      BY <3>1, <3>2
  <2>2. ASSUME NEW f \in current' PROVE running'[f] # None /\ desired'[running'[f].name] = running'[f]
    <3>1. CASE \E n \in built : f = id[n] /\ running'[f] = l[n] /\ l[n].name = n
      BY <1>6, <1>7, <3>1 DEF Runs
    <3> QED
      BY <2>1, <3>1
  <2>3. ASSUME NEW f \in current', NEW h \in current', running'[f].name = running'[h].name
        PROVE  f = h
    <3>1. CASE \E n \in built : f = id[n] /\ running'[f] = l[n] /\ l[n].name = n
      BY <2>1, <2>3, <3>1
    <3>2. CASE ~ \E n \in built : f = id[n] /\ running'[f] = l[n] /\ l[n].name = n
      <4>1. f \in current /\ running'[f] = running[f] /\ running[f].name \notin built
        BY <2>1, <3>2
      <4>2. h \in current /\ running'[h] = running[h]
        BY <2>1, <2>3, <4>1
      <4> QED
        BY <1>t, <2>3, <4>1, <4>2 DEF ServesDesired
    <3> QED
      BY <3>1, <3>2
  <2> QED
    BY <2>2, <2>3 DEF ServesDesired
<1>10. tostop' \cap current' = {}
  <2> SUFFICES ASSUME NEW f \in tostop', f \in current' PROVE FALSE
    OBVIOUS
  <2>1. f \in current /\ running[f].name \notin ({n \in Names : Runs(l[n])} \ ToBuild(g)) \cup built
    BY <1>6
  <2>2. running[f] # None
    BY <1>t, <2>1 DEF ServesDesired
  <2>3. f \notin {id[n] : n \in built}
    BY <1>3, <2>2
  <2>4. \E n \in Names : Runs(l[n]) /\ n \notin ToBuild(g) /\ running[f].name = n
    BY <1>3, <1>4, <2>3
  <2> QED
    BY <2>1, <2>4
<1>11. \A f \in Forwarders : running'[f] # None => running'[f].enabled
  <2> SUFFICES ASSUME NEW f \in Forwarders, running'[f] # None PROVE running'[f].enabled
    OBVIOUS
  <2>1. CASE \E n \in built : id[n] = f
    BY <1>3, <1>4, <1>7, <2>1 DEF Runs
  <2>2. CASE ~ \E n \in built : id[n] = f
    <3>1. running'[f] = running[f]
      BY <1>3, <2>2
    <3> QED
      BY <3>1 DEF RegistryInv
  <2> QED
    BY <2>1, <2>2
<1>12. current' \subseteq Forwarders /\ tostop' \subseteq Forwarders
  <2>1. {id[n] : n \in built} \subseteq Forwarders
    BY <1>3
  <2> QED
    BY <1>3, <1>6, <1>t, <2>1
<1>13. /\ list' \in [Watchers -> Lists \cup {None}]
       /\ \A h \in Watchers : list'[h] # None => Named(list'[h])
       /\ watcher' \in [Watchers -> {"idle", "read", "stopping"}]
       /\ \A h \in Watchers : watcher'[h] = "read" => list'[h] # None
  BY <1>6 DEF RegistryInv, TypeOK
<1>14. TypeOK'
  BY <1>3, <1>5, <1>6, <1>12, <1>13, <1>t DEF TypeOK
<1>15. Named(table)' /\ Named(desired)'
  BY <1>5, <1>6 DEF RegistryInv, Named
<1>16. \A h \in Watchers : list'[h] # None => Named(list[h])'
  BY <1>13 DEF Named
<1> QED
  BY <1>9, <1>10, <1>11, <1>13, <1>14, <1>15, <1>16 DEF RegistryInv

\* Every step keeps the set in order.
LEMMA NextKeeps ==
  ASSUME RegistryInv, [Next]_vars
  PROVE  RegistryInv'
<1>t. /\ TypeOK /\ ServesDesired /\ Named(table)
  BY DEF RegistryInv
<1>1. ASSUME NEW n \in Names, Edit(n) PROVE RegistryInv'
  <2>1. UNCHANGED <<watcher, list, mu, desired, current, running, tostop, given, life>>
    BY <1>1 DEF Edit
  <2>2. PICK r \in Rows[n] \cup {None} : table' = [table EXCEPT ![n] = r]
    BY <1>1 DEF Edit
  <2>3. r = None \/ (r \in Target /\ r.name = n)
    BY <2>2, TargetsAssumption
  <2>4. table' \in Lists /\ \A m \in Names : table'[m] \in Rows[m] \cup {None}
    BY <1>t, <2>2, <2>3 DEF TypeOK, Lists
  <2>5. Named(table)'
    BY <1>t, <2>2, <2>3 DEF TypeOK, Lists, Named
  <2>6. edits' \in 0..MaxEdits
    BY <1>1, <1>t, TargetsAssumption DEF Edit, TypeOK
  <2>7. TypeOK'
    BY <1>t, <2>1, <2>4, <2>6 DEF TypeOK
  <2> QED
    BY <2>1, <2>5, <2>7 DEF RegistryInv, ServesDesired, Named
<1>2. ASSUME NEW g \in Watchers, Read(g) PROVE RegistryInv'
  <2>1. /\ UNCHANGED <<table, edits, mu, desired, current, running, tostop, given, life>>
        /\ watcher' = [watcher EXCEPT ![g] = "read"]
    BY <1>2 DEF Read
  <2>2. NoRows \in Lists /\ Named(NoRows)
    BY DEF NoRows, Lists, Named
  <2>3. table \in Lists
    BY <1>t DEF TypeOK
  <2>4. PICK rows \in Lists : Named(rows) /\ list' = [list EXCEPT ![g] = Union(rows)]
    BY <1>2, <1>t, <2>2, <2>3 DEF Read
  <2>5. Union(rows) \in Lists /\ Named(Union(rows)) /\ Union(rows) # None
    BY <2>4, UnionIsList
  <2>6. /\ list' \in [Watchers -> Lists \cup {None}]
        /\ \A h \in Watchers : list'[h] # None => Named(list'[h])
        /\ watcher' \in [Watchers -> {"idle", "read", "stopping"}]
        /\ \A h \in Watchers : watcher'[h] = "read" => list'[h] # None
    BY <2>1, <2>4, <2>5 DEF RegistryInv, TypeOK
  <2>7. TypeOK'
    BY <1>t, <2>1, <2>6 DEF TypeOK
  <2>8. \A h \in Watchers : list'[h] # None => Named(list[h])'
    BY <2>6 DEF Named
  <2> QED
    BY <2>1, <2>6, <2>7, <2>8 DEF RegistryInv, ServesDesired, Named
<1>3. ASSUME NEW g \in Watchers, NEW f \in Forwarders, StopForwarder(g, f) PROVE RegistryInv'
  <2>1. /\ f \in tostop /\ running' = [running EXCEPT ![f] = None] /\ tostop' = tostop \ {f}
        /\ UNCHANGED <<table, edits, watcher, list, mu, desired, current, given, life>>
    BY <1>3 DEF StopForwarder
  <2>2. f \notin current /\ running \in [Forwarders -> Target \cup {None}] /\ current \subseteq Forwarders
    BY <2>1 DEF RegistryInv, TypeOK
  <2>3. \A h \in current : running'[h] = running[h]
    BY <2>1, <2>2
  <2>4. ServesDesired'
    BY <1>t, <2>1, <2>3 DEF ServesDesired
  <2>5. /\ running' \in [Forwarders -> Target \cup {None}]
        /\ \A h \in Forwarders : running'[h] # None => running'[h].enabled
    BY <2>1, <2>2 DEF RegistryInv
  <2>6. TypeOK'
    BY <1>t, <2>1, <2>5 DEF TypeOK
  <2> QED
    BY <2>1, <2>4, <2>5, <2>6 DEF RegistryInv, Named
<1>4. ASSUME NEW g \in Watchers, Unlock(g) PROVE RegistryInv'
  <2>1. /\ UNCHANGED <<table, edits, list, desired, current, running, tostop, given, life>>
        /\ mu' = None /\ watcher' = [watcher EXCEPT ![g] = "idle"]
    BY <1>4 DEF Unlock
  <2>2. TypeOK'
    BY <1>t, <2>1 DEF TypeOK
  <2>3. \A h \in Watchers : watcher'[h] = "read" => list'[h] # None
    BY <2>1 DEF RegistryInv, TypeOK
  <2> QED
    BY <2>1, <2>2, <2>3 DEF RegistryInv, ServesDesired, Named
<1>5. ASSUME UNCHANGED <<table, edits, watcher, list, mu, desired, current, running, tostop, life>>,
             given' \in [Writers -> SUBSET Forwarders]
      PROVE  RegistryInv'
  <2>1. TypeOK'
    BY <1>5, <1>t DEF TypeOK
  <2> QED
    BY <1>5, <2>1 DEF RegistryInv, ServesDesired, Named
<1>6. ASSUME NEW w \in Writers, Load(w) PROVE RegistryInv'
  BY <1>5, <1>6, <1>t DEF Load, TypeOK
<1>7. ASSUME NEW w \in Writers, NEW f \in Forwarders, Forward(w, f) PROVE RegistryInv'
  BY <1>5, <1>7, <1>t DEF Forward, TypeOK
<1>8. CASE Cancel
  BY <1>8 DEF Cancel, RegistryInv, TypeOK, ServesDesired, Named
<1>9. CASE Stop
  <2>1. /\ running' = [f \in Forwarders |-> IF f \in current THEN None ELSE running[f]]
        /\ current' = {} /\ life' = "stopped"
        /\ UNCHANGED <<table, edits, watcher, list, mu, desired, tostop, given>>
    BY <1>9 DEF Stop
  <2>2. TypeOK'
    BY <1>t, <2>1 DEF TypeOK
  <2>3. ServesDesired' /\ tostop' \cap current' = {}
    BY <2>1 DEF ServesDesired
  <2>4. \A f \in Forwarders : running'[f] # None => running'[f].enabled
    BY <2>1 DEF RegistryInv
  <2> QED
    BY <2>1, <2>2, <2>3, <2>4 DEF RegistryInv, Named
<1>10. CASE UNCHANGED vars
  BY <1>10 DEF vars, RegistryInv, TypeOK, ServesDesired, Named
<1> QED
  BY <1>1, <1>2, <1>3, <1>4, <1>6, <1>7, <1>8, <1>9, <1>10, SwapKeeps DEF Next, Reconcile

\* The set is in order at all times.
LEMMA RegistryHolds == Spec => []RegistryInv
<1>1. Init => RegistryInv
  <2> SUFFICES ASSUME Init PROVE RegistryInv
    OBVIOUS
  <2>1. /\ table \in Lists /\ Named(table) /\ \A n \in Names : table[n] \in Rows[n] \cup {None}
    BY TargetsAssumption DEF Init, Lists, Named
  <2>2. desired \in Lists /\ Named(desired)
    BY DEF Init, Lists, Named
  <2>3. TypeOK
    BY <2>1, <2>2, TargetsAssumption DEF Init, TypeOK
  <2> QED
    BY <2>1, <2>2, <2>3 DEF Init, RegistryInv, ServesDesired
<1>2. RegistryInv /\ [Next]_vars => RegistryInv'
  BY NextKeeps
<1> QED
  BY <1>1, <1>2, PTL DEF Spec

\* The writers are given one forwarder per target at most, and it serves the definition that
\* r.desired has for its name, for any targets, reconcilers and writers.
THEOREM OneForwarderPerTarget == Spec => []ServesDesired
<1>1. RegistryInv => ServesDesired
  BY DEF RegistryInv
<1> QED
  BY <1>1, RegistryHolds, PTL

\* A reconcile keeps the forwarder, and so the backlog, of every target whose entry in its
\* list equals the one before, whichever of the other targets were changed or failed.
THEOREM BacklogKept == Spec => UnchangedKeepsBacklog
<1>1. ASSUME RegistryInv, NEW g \in Watchers, Swap(g), NEW f \in current,
             list[g][running[f].name] = running[f]
      PROVE  f \in current' /\ running'[f] = running[f]
  <2>1. watcher[g] = "read" /\ \E built \in SUBSET ToBuild(g) : SwapWith(g, built)
    BY <1>1 DEF Swap
  <2>2. PICK built \in SUBSET ToBuild(g) : SwapWith(g, built)
    BY <2>1
  <2>3. PICK id \in [built -> Forwarders] :
          /\ \A m, n \in built : id[m] = id[n] => m = n
          /\ \A n \in built : running[id[n]] = None /\ running'[id[n]] = list[g][n]
          /\ \A h \in Forwarders : (\A n \in built : id[n] # h) => running'[h] = running[h]
          /\ current' = {h \in current : \E n \in Names : /\ Runs(list[g][n]) /\ n \notin ToBuild(g)
                                                         /\ running[h].name = n}
                          \cup {id[n] : n \in built}
          /\ running' \in [Forwarders -> Target \cup {None}]
    BY <1>1, <2>1, <2>2, SwapInstalls
  <2>4. /\ f \in Forwarders /\ running[f] # None /\ running[f] \in Target /\ running[f].enabled
        /\ desired[running[f].name] = running[f]
    BY <1>1 DEF RegistryInv, ServesDesired, TypeOK
  <2>5. running[f].name \in Names
    BY <2>4 DEF Target
  <2>6. Runs(list[g][running[f].name]) /\ Unchanged(list[g][running[f].name])
    BY <1>1, <2>4 DEF Runs, Unchanged, ForwarderOf
  <2>7. running[f].name \notin ToBuild(g)
    BY <2>6 DEF ToBuild
  <2>8. f \in current'
    BY <2>3, <2>5, <2>6, <2>7
  <2>9. \A n \in built : id[n] # f
    BY <2>3, <2>4
  <2> QED
    BY <2>3, <2>4, <2>8, <2>9
<1>2. RegistryInv /\ [Next]_vars =>
        [\A g \in Watchers : Swap(g) =>
            \A f \in current : list[g][running[f].name] = running[f]
                => f \in current' /\ running'[f] = running[f]]_vars
  BY <1>1
<1> QED
  BY <1>2, RegistryHolds, PTL DEF Spec, UnchangedKeepsBacklog
=============================================================================
