--------------------------- MODULE HistorizedSpace ---------------------------
(***************************************************************************)
(* The build with ENABLE_UA_HISTORIZING: the address space with the        *)
(* historizer in it.  Between adding a variable node and looking at the    *)
(* server's answer the registry thread goes through registerNodeId, while  *)
(* requests are served.  The server thread stores samples and written      *)
(* values, and meets the registry thread in the database.                  *)
(*                                                                         *)
(* Each thread does one thing at a time: a registration of a node blocks   *)
(* the registry thread, the storing of a value the server thread.          *)
(***************************************************************************)
EXTENDS AddressSpace

CONSTANTS
  Types,    \* data types of values
  TypeOf    \* the type of each leaf in each registration

\* The reads the server makes for a new monitored item are answered, like
\* those of the registration before them.
ASSUME HistorizingAssumption ==
  /\ Nobody \notin Types
  /\ TypeOf \in [Registrations -> [Leaves -> Types]]
  /\ RegistrationReads = {"value"}

VARIABLES
  nodesTable, domains, historized, table,      \* as in Historizer
  process, monitored, registering, writing,
  reported   \* what the log says is not historized: nodes by name, or NotSet

\* Only a variable node has a type.
NodeType ==
  [l \in Leaves |->
     IF Exists(l) /\ FunctionOf[nodes[l]][l] # "callable"
       THEN TypeOf[nodes[l]][l] ELSE Nobody]

H == INSTANCE Historizer
       WITH Nodes <- Leaves, Nothing <- Nobody, nodeType <- NodeType,
            registration <- registering

historizer == <<nodesTable, domains, historized, table, process, monitored,
                registering, writing>>

spaceVars == <<vars, historizer, reported>>

HistorizedInit ==
  /\ Init
  /\ H!Init
  /\ reported = {}

-----------------------------------------------------------------------------
\* Configuration creates the historizer, or fails to, before all else.
Configured == process \in {"available", "unavailable"}

Configure ==
  /\ UNCHANGED <<vars, reported>>
  /\ H!Start \/ H!StartUp \/ H!StartFails

-----------------------------------------------------------------------------
(* The registry thread *)

\* Mutation: registerNodeId runs beside the walk.
RegistryAlwaysFree == Configured

RegistryFree == Configured /\ registering = H!NoRegistration

Report(l) == reported' = reported \cup {<<l, registrations>>}

\* "Historizer is not set" names no node.
NotSet == <<Nobody, Absent>>

ReportNotSet == reported' = reported \cup {NotSet}

\* The server is about to be asked for a variable node.
AtVariable == step = "addNode" /\ Function(leaf) # "callable"

\* The node is historized whether or not the server has accepted it.
AddVariableNode ==
  /\ RegistryFree
  /\ AtVariable
  /\ AddLeafNode /\ UNCHANGED call
  /\ \/ /\ process = "available"
        /\ registering' = [step |-> "lookup", node |-> leaf, known |-> FALSE,
                           type |-> TypeOf[registrations][leaf]]
        /\ UNCHANGED reported
     \/ /\ process = "unavailable"
        /\ ReportNotSet
        /\ UNCHANGED registering
  /\ UNCHANGED <<nodesTable, domains, historized, table, process, monitored, writing>>

WalkOn ==
  /\ RegistryFree
  /\ ~ AtVariable
  /\ Registry
  /\ UNCHANGED <<historizer, reported>>

RegisterNode ==
  /\ UNCHANGED vars
  /\ H!IsHistorized \/ H!RecordNode \/ H!CreateTable \/ H!CommitRegistration
  /\ UNCHANGED reported

\* The server does not monitor a node that a failing request has removed, or
\* that it has refused before.
MonitorNode ==
  /\ UNCHANGED vars
  /\ H!CreateMonitoredItem
  /\ IF Exists(registering.node) THEN UNCHANGED reported ELSE Report(registering.node)

\* Mutation: historize does not look at the status.
FailUnreported ==
  /\ UNCHANGED vars
  /\ H!RegistrationFails
  /\ UNCHANGED reported

\* Mutation: the status of registerNodeId gets through to addReadableNode.
FailLikeRefused ==
  /\ registering # H!NoRegistration
  /\ RemoveCallback(registering.node)
  /\ UNCHANGED <<nodes, walkVars, call>>
  /\ H!RegistrationFails
  /\ Report(registering.node)

FailToRegister ==
  /\ UNCHANGED vars
  /\ H!RegistrationFails
  /\ Report(registering.node)

Event ==
  /\ RegistryFree
  /\ \E d \in Devices : registrate(d) \/ deregistrate(d)
  /\ UNCHANGED <<historizer, reported>>

-----------------------------------------------------------------------------
(* The server thread *)

ServerFree == Configured /\ writing = H!NoWrite

\* A write-only node does not have the historizing attribute.
HistorizesAnswer ==
  /\ process = "available"
  /\ call.phase = "invoke" /\ call.service = "write" /\ call'.answer = "Good"
  /\ FunctionOf[call.registration][call.leaf] # "writeOnly"

Serve ==
  /\ ServerFree
  /\ Server
  /\ IF HistorizesAnswer THEN H!BeginWrite(call.leaf) ELSE UNCHANGED historizer
  /\ UNCHANGED reported

BeginServing ==
  /\ ServerFree
  /\ \E l \in Leaves : Request(l)
  /\ UNCHANGED <<historizer, reported>>

\* An item outlives its node, and so may a value it has read.
Sample(l) ==
  /\ ServerFree
  /\ call.phase = "idle"
  /\ l \in monitored
  /\ UNCHANGED <<vars, reported>>
  /\ H!BeginWrite(l)

StoreValue == UNCHANGED <<vars, reported>> /\ H!Writing

LoseValue == UNCHANGED <<vars, reported>> /\ H!WriteFails

-----------------------------------------------------------------------------
RegistryThread == AddVariableNode \/ WalkOn \/ RegisterNode \/ MonitorNode

ServerThread == Serve \/ StoreValue

HistorizedNext ==
  \/ Configure
  \/ Event
  \/ RegistryThread
  \/ FailToRegister
  \/ ServerThread
  \/ BeginServing
  \/ \E l \in Leaves : Sample(l)
  \/ LoseValue

\* As in AddressSpace, and as the database serves those who wait for a row.
HistorizedSpec ==
  /\ HistorizedInit
  /\ [][HistorizedNext]_spaceVars
  /\ WF_spaceVars(RegistryThread)
  /\ SF_spaceVars(RegisterNode)
  /\ WF_spaceVars(ServerThread)

-----------------------------------------------------------------------------
(* Every variable node a client sees has a monitored item, is about to get *)
(* one, or is named in the log as one that could not be historized: a      *)
(* failing database and a node that disappears in the course of its        *)
(* registration leave no node unhistorized in silence.  Only if the        *)
(* historizer did not come up does the log name no node: all it says then  *)
(* is that none is set.                                                    *)
HistorizedOrReported ==
  \A l \in Leaves :
    NodeType[l] # Nobody =>
      \/ l \in monitored
      \/ registering.node = l
      \/ <<l, nodes[l]>> \in reported
      \/ process = "unavailable" /\ NotSet \in reported

(* The address space behaves as without a historizer: whatever becomes of  *)
(* a node's registration, the node, its callback and the walk stay what    *)
(* they are.                                                               *)
KeepsAddressSpace == Spec

(* The two threads use the historizer as it is specified: one registration *)
(* at a time, of a node that is not there yet, and no node that changes    *)
(* under both a registration and a write of its own thread.                *)
KeepsHistorizer == H!Spec
=============================================================================
