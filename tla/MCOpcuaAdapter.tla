--------------------------- MODULE MCOpcuaAdapter ---------------------------
(***************************************************************************)
(* One device with one writable element: the lifecycle is what is varied.  *)
(***************************************************************************)
EXTENDS OpcuaAdapter

CONSTANTS d1, l1

MCParent == [e \in {l1} |-> d1]

MCFunctionOf == [r \in 1 .. MaxRegistrations |-> [l \in {l1} |-> "writable"]]
=============================================================================
