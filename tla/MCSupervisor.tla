---------------------------- MODULE MCSupervisor ----------------------------
(***************************************************************************)
(* Small instances of Supervisor for TLC.  A is a TCP source of the file,  *)
(* B a UDP source, C a source that competes for the address of A, H an     *)
(* http_json source.                                                       *)
(***************************************************************************)
EXTENDS Supervisor

CONSTANTS A, B, C, H, P1, P2

Syslog(n, protocol, address, enabled, rev) ==
    [name |-> n, type |-> "syslog", protocol |-> protocol,
     address |-> address, enabled |-> enabled, rev |-> rev]
HTTP(n, enabled, rev) ==
    [name |-> n, type |-> "http_json", protocol |-> "none",
     address |-> None, enabled |-> enabled, rev |-> rev]
Row(src) == [src |-> src, adopted |-> FALSE, valid |-> TRUE]
Copy(src) == [src |-> src, adopted |-> TRUE, valid |-> TRUE]
Broken(row) == [row EXCEPT !.valid = FALSE]

MCOrder4 == <<A, B, C, H>>
MCOrder2 == <<A, B>>
MCFile == <<Syslog(A, "tcp", P1, TRUE, 1)>>
MCNothing == {}
MCContestedP1 == {<<"tcp", P1>>}
MCHeldP2 == {<<"tcp", P2>>, <<"udp", P2>>}

\* The address to which A may ask to move is held by another process.  B may
\* ask for port 0 and then for the port it was given.
MCBlocked == [n \in Names |->
    CASE n = A -> {Copy(Syslog(A, "tcp", P1, TRUE, 1)),
                   Copy(Syslog(A, "tcp", P2, TRUE, 2))}
      [] n = B -> {Row(Syslog(B, "udp", AnyPort, TRUE, 1)),
                   Row(Syslog(B, "udp", P1, TRUE, 1))}
      [] n = C -> {Row(Syslog(C, "tls", P1, TRUE, 1)),
                   Row(Syslog(C, "tls", P1, FALSE, 1)),
                   Broken(Row(Syslog(C, "tls", P1, TRUE, 2)))}
      [] n = H -> {Row(HTTP(H, TRUE, 1)), Row(HTTP(H, FALSE, 1))}]

\* Every change is one that Reconcile applies.
MCApplied == [n \in Names |->
    CASE n = A -> {Copy(Syslog(A, "tcp", P1, TRUE, 1)),
                   Copy(Syslog(A, "tcp", P1, TRUE, 2)),
                   Copy(Syslog(A, "tcp", P1, FALSE, 1))}
      [] n = B -> {Row(Syslog(B, "udp", P1, TRUE, 1)),
                   Row(Syslog(B, "udp", P1, TRUE, 2))}
      [] n = C -> {Row(Syslog(C, "tls", P1, TRUE, 1))}
      [] n = H -> {Row(HTTP(H, TRUE, 1)), Row(HTTP(H, FALSE, 1))}]

\* A moves between two addresses; B may be in the way.
MCMoving == [n \in Names |->
    IF n = A
    THEN {Copy(Syslog(A, "tcp", P1, TRUE, 2)), Copy(Syslog(A, "tcp", P2, TRUE, 2))}
    ELSE {Row(Syslog(B, "tcp", P2, TRUE, 1)), Row(Syslog(B, "udp", P2, TRUE, 1))}]

=============================================================================
