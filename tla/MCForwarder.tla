---------------------------- MODULE MCForwarder -----------------------------
(***************************************************************************)
(* Small instances of Forwarder for TLC.  G1 holds three rows of tenant X, *)
(* one of them filtered out; G2 two rows of tenant Y, the second of which  *)
(* the remote rejects; G3 one row of tenant X.                             *)
(***************************************************************************)
EXTENDS Forwarder

CONSTANTS G1, G2, G3, X, Y

MCContent == [g \in Groups |->
    IF g = G1 THEN <<1, 2, 3>> ELSE IF g = G2 THEN <<4, 5>> ELSE <<6>>]
MCRows == UNION {Range(MCContent[g]) : g \in Groups}
MCSelected == MCRows \ {2}
MCPoison == MCRows \cap {5}
MCSize == [r \in MCRows |-> IF r = 1 THEN 2 ELSE 1]
MCTenants == {X, Y}
MCTenant == [g \in Groups |-> IF g = G2 THEN Y ELSE X]
=============================================================================
