-------------------------- MODULE InformationModel --------------------------
(***************************************************************************)
(* The device model the adapter is fed with.  A device is a tree: groups   *)
(* are inner nodes, every other element is a leaf that carries exactly one *)
(* function.  The library that builds these trees is external; this module *)
(* states what NodeBuilder learns of it through visit() and function().    *)
(*                                                                         *)
(* A device id may be registered, deregistered and registered again, each  *)
(* time with a new device object behind it.  The objects are told apart by *)
(* their registration number, 1 for the first.                             *)
(***************************************************************************)
EXTENDS Naturals

CONSTANTS
  Devices,           \* ids of the devices a connector may register
  Groups,            \* ids of group elements
  Leaves,            \* ids of readable, observable, writable, callable elements
  Parent,            \* the device or group whose visit() yields an element
  MaxRegistrations,  \* bound on successful device registrations
  FunctionOf,        \* the function of each leaf in each registration
  Nobody             \* stands for "no element"

Functions == {"readable", "observable", "writable", "writeOnly", "callable"}

Objects  == Devices \cup Groups
Elements == Groups \cup Leaves
NodeIds  == Objects \cup Leaves

Registrations == 1 .. MaxRegistrations

\* What a store holds for an id it does not hold.
Absent == 0
Versions == {Absent} \cup Registrations

(***************************************************************************)
(* The objects above a node: the least set that contains the node's parent *)
(* and, with a group, the group's parent.  A device has none.              *)
(***************************************************************************)
IsUpwardClosed(S, n) ==
  /\ n \in Elements => Parent[n] \in S
  /\ \A g \in S \cap Groups : Parent[g] \in S

Ancestors ==
  [n \in NodeIds |->
     {o \in Objects : \A S \in SUBSET Objects : IsUpwardClosed(S, n) => o \in S}]

ASSUME TreeAssumption ==
  /\ Devices \cap Groups = {}
  /\ Objects \cap Leaves = {}
  /\ Nobody \notin NodeIds
  /\ Parent \in [Elements -> Objects]
  /\ \A g \in Groups : g \notin Ancestors[g]

ASSUME RegistrationAssumption ==
  /\ MaxRegistrations \in Nat
  /\ FunctionOf \in [Registrations -> [Leaves -> Functions]]
=============================================================================
