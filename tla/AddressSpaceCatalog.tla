------------------------- MODULE AddressSpaceCatalog -------------------------
(***************************************************************************)
(* The address space as a catalog of devices.  The elements a registration *)
(* has not decided on are those still to visit, with all that is below     *)
(* them, and the leaf being added.                                         *)
(***************************************************************************)
EXTENDS AddressSpace

Undecided ==
  {e \in Elements : /\ task = "register"
                    /\ \/ e \in todo
                       \/ e = leaf
                       \/ Ancestors[e] \cap todo # {}}

Catalog == INSTANCE DeviceCatalog
             WITH shown <- nodes, newest <- registrations, open <- Undecided

(* What the two threads do to the address space is what a catalog does: a  *)
(* registration decides on every element of its device once, a failed node *)
(* does not return, and deleteDeviceNode leaves nothing of its device,     *)
(* whatever requests fail in the meantime.                                 *)
IsCatalog == Catalog!Spec
=============================================================================
