------------------------------ MODULE UaServer ------------------------------
(***************************************************************************)
(* The part of the open62541 server that the adapter uses: its address     *)
(* space.  The library is external and built thread safe, so each of its   *)
(* calls is one atomic step here.                                          *)
(***************************************************************************)
EXTENDS InformationModel

VARIABLE nodes   \* the registration each node was added by, or Absent

UaServerType == nodes \in [NodeIds -> Versions]

UaServerInit == nodes = [n \in NodeIds |-> Absent]

Exists(n) == nodes[n] # Absent

\* A node is refused when its id is taken or its parent is not there.
CanAdd(n) ==
  /\ ~ Exists(n)
  /\ n \in Elements => Exists(Parent[n])

UA_Server_addNode(n, registration) ==
  nodes' = [nodes EXCEPT ![n] = registration]

UA_Server_browse(o) == {e \in Elements : Parent[e] = o /\ Exists(e)}

\* The nodes a recursive delete reaches: those below n along existing nodes.
Subtree(n) ==
  {n} \cup {m \in NodeIds :
              /\ n \in Ancestors[m]
              /\ \A a \in Ancestors[m] : n \in Ancestors[a] => Exists(a)}

UA_Server_deleteNode(n) ==
  nodes' = [m \in NodeIds |->
              IF Exists(n) /\ m \in Subtree(n) THEN Absent ELSE nodes[m]]
=============================================================================
