----------------------------- MODULE MCLiveTail -----------------------------
(***************************************************************************)
(* A small instance of LiveTail: windows of one and two rows, so that both *)
(* rings wrap around, and two queries with rows of their own.              *)
(***************************************************************************)
EXTENDS LiveTail
=============================================================================
