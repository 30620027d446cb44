----------------------------- MODULE MCPipeline -----------------------------
(***************************************************************************)
(* Small instances of Pipeline for TLC.  U1 is a UDP datagram, T1, T2 and  *)
(* T3 are messages of TCP connections, H1 is an HTTP event heavier than    *)
(* the whole byte budget, X and Y are tenants.                             *)
(***************************************************************************)
EXTENDS Pipeline

CONSTANTS U1, T1, T2, T3, H1, X, Y

MCTransport == [m \in Messages |->
    IF m = U1 THEN "udp" ELSE IF m = H1 THEN "http" ELSE "tcp"]
MCWeight == [m \in Messages |-> IF m = H1 THEN 4 ELSE IF m = T3 THEN 2 ELSE 1]
MCEntrySize == [m \in Messages |-> IF m = U1 THEN 2 ELSE 1]
MCTenants == {X, Y}
MCTenant == [m \in Messages |-> IF m = T1 THEN Y ELSE X]
MCOneTenant == [m \in Messages |-> X]
=============================================================================
