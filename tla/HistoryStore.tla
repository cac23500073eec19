---------------------------- MODULE HistoryStore ----------------------------
(***************************************************************************)
(* What the historizer promises those who read its database, without       *)
(* transactions, sessions and threads.  A node is registered in one step,  *)
(* with a table of its own, and stays so: neither its row nor the type of  *)
(* its table ever changes.  Only a registered node is sampled, and only    *)
(* its values are stored.  A restart loses what was in progress.           *)
(***************************************************************************)
CONSTANTS Nodes, Types, Nothing

VARIABLES
  listed,    \* the registered nodes
  table,     \* the value type of each node's table, or Nothing
  sampled,   \* the nodes whose changes are stored
  storing    \* the node whose value is being stored, or Nothing

storeVars == <<listed, table, sampled, storing>>

Init ==
  /\ listed = {}
  /\ table = [n \in Nodes |-> Nothing]
  /\ sampled = {}
  /\ storing = Nothing

Register(n, t) ==
  /\ n \notin listed /\ table[n] = Nothing
  /\ listed' = listed \cup {n}
  /\ table' = [table EXCEPT ![n] = t]
  /\ UNCHANGED <<sampled, storing>>

Sample(n) ==
  /\ n \in listed
  /\ sampled' = sampled \cup {n}
  /\ UNCHANGED <<listed, table, storing>>

BeginStore(n) ==
  /\ storing = Nothing /\ n \in listed
  /\ storing' = n
  /\ UNCHANGED <<listed, table, sampled>>

EndStore ==
  /\ storing # Nothing
  /\ storing' = Nothing
  /\ UNCHANGED <<listed, table, sampled>>

Restart ==
  /\ sampled' = {} /\ storing' = Nothing
  /\ UNCHANGED <<listed, table>>

Next ==
  \/ \E n \in Nodes, t \in Types : Register(n, t)
  \/ \E n \in Nodes : Sample(n) \/ BeginStore(n)
  \/ EndStore
  \/ Restart

Spec == Init /\ [][Next]_storeVars
=============================================================================
