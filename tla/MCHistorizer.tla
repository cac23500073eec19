---------------------------- MODULE MCHistorizer ----------------------------
(***************************************************************************)
(* Two nodes, so that a registration and a write can be about the same one *)
(* or not, and two types, so that a node can come back with another.       *)
(***************************************************************************)
EXTENDS HistorizerStore

CONSTANTS n1, n2, boolean, double

MCNodes == {n1, n2}
MCTypes == {boolean, double}
=============================================================================
