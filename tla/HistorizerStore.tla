--------------------------- MODULE HistorizerStore ---------------------------
(***************************************************************************)
(* The historizer as a store of histories.  A value counts as being stored *)
(* from the statement that has found the node's table to the end of the    *)
(* transaction.                                                            *)
(***************************************************************************)
EXTENDS Historizer

Storing ==
  IF writing.step \in {"update", "commit"} THEN writing.node ELSE Nothing

Store == INSTANCE HistoryStore
           WITH listed <- historized, sampled <- monitored, storing <- Storing

(* Crashes, refused statements, commits in doubt and two threads in one    *)
(* database do not show to those who read it: row and table of a node come *)
(* in one step and stay as they are, sampling and storing come after.      *)
IsHistoryStore == Store!Spec
=============================================================================
