-------------------------- MODULE MCHistorizedSpace --------------------------
(***************************************************************************)
(* One device with two leaves.  Its second registration changes their      *)
(* functions, so that a method takes the place of a variable and a node    *)
(* starts to store what is written to it.                                  *)
(***************************************************************************)
EXTENDS HistorizedSpace

CONSTANTS d1, l1, l2, boolean, double

MCDevices == {d1}
MCLeaves == {l1, l2}
MCTypes == {boolean, double}

MCParent == [e \in MCLeaves |-> d1]

MCFunctionOf ==
  [r \in 1 .. MaxRegistrations |->
     [l \in MCLeaves |->
        CASE l = l1 -> IF r = 2 THEN "writable" ELSE "writeOnly"
          [] l = l2 -> IF r = 2 THEN "callable" ELSE "observable"]]

MCTypeOf ==
  [r \in 1 .. MaxRegistrations |->
     [l \in MCLeaves |-> IF l = l1 /\ r = 2 THEN double ELSE boolean]]
=============================================================================
