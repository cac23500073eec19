---------------------------- MODULE MCHistoryRead ----------------------------
(***************************************************************************)
(* Times on either side of zero, and weights on either side of the         *)
(* denominator.                                                            *)
(***************************************************************************)
EXTENDS HistoryRead

MCTimes == -1 .. 2
=============================================================================
