--------------------------- MODULE MCAddressSpace ---------------------------
(***************************************************************************)
(* A device with one element of its own and a group with another, the      *)
(* smallest tree in which the recursions differ from a flat loop, next to  *)
(* a second device with one element.                                       *)
(***************************************************************************)
EXTENDS AddressSpaceCatalog

CONSTANTS d1, d2, g1, l1, l2, l3

MCDevices == {d1, d2}
MCGroups == {g1}
MCLeaves == {l1, l2, l3}

MCParent ==
  [e \in {g1, l1, l2, l3} |->
     CASE e = g1 -> d1 [] e = l1 -> d1 [] e = l2 -> g1 [] e = l3 -> d2]

\* The second registration changes the function of l2, as a device of another
\* model under the same ids would.
MCFunctionOf ==
  [r \in 1 .. MaxRegistrations |->
     [l \in {l1, l2, l3} |->
        CASE l = l1 -> "readable"
          [] l = l2 -> IF r = 2 THEN "callable" ELSE "observable"
          [] l = l3 -> IF r = 2 THEN "writable" ELSE "writeOnly"]]
=============================================================================
