-------------------------- MODULE MCForwardRegistry --------------------------
(***************************************************************************)
(* Small instances of ForwardRegistry for TLC: D and K are targets of the  *)
(* database, E is one that file and database both define.                  *)
(***************************************************************************)
EXTENDS ForwardRegistry

CONSTANTS D, E, K

T(n, settings, enabled, origin) ==
    [name |-> n, settings |-> settings, enabled |-> enabled, origin |-> origin]

MCFile == [n \in Names |-> IF n # E THEN None ELSE T(n, 1, TRUE, "file")]

\* The settings of a target change while it runs.
MCChanged == [n \in Names |->
    IF n = E THEN {} ELSE {T(n, s, b, "database") : s \in Settings, b \in BOOLEAN}]
=============================================================================
