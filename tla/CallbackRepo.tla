---------------------------- MODULE CallbackRepo ----------------------------
(***************************************************************************)
(* The map from node ids to the device functions that serve them           *)
(* (CallbackRepo::callbacks_, a boost::concurrent_node_map).  A wrapper is  *)
(* represented by the registration whose device object it points to.       *)
(*                                                                         *)
(* add() looks the id up and emplaces it in two calls of the map.  Only    *)
(* the registry thread adds, and an emplace does nothing when the id is    *)
(* present, so the two calls are one step here.                            *)
(***************************************************************************)
EXTENDS InformationModel

VARIABLE callbacks_

CallbackRepoType == callbacks_ \in [Leaves -> Versions]

CallbackRepoInit == callbacks_ = [l \in Leaves |-> Absent]

HasCallback(l) == callbacks_[l] # Absent

\* The add that answers GOOD; one that finds the id taken changes nothing.
AddCallback(l, registration) ==
  callbacks_' = [callbacks_ EXCEPT ![l] = registration]

RemoveCallback(l) ==
  callbacks_' = [callbacks_ EXCEPT ![l] = Absent]
=============================================================================
