-------------------------- MODULE HistorizedProofs --------------------------
(***************************************************************************)
(* The address space with the historizer in it implements both, for every  *)
(* device tree, and a node that is not historized does not go unsaid.      *)
(***************************************************************************)
EXTENDS HistorizedSpace, CatalogProofs, PromptRequestSafety

(* historize() does not show in the address space: whatever the database   *)
(* does, every step is one AddressSpace allows, or leaves it alone.        *)
THEOREM HistorizedImplementsAddressSpace == HistorizedSpec => KeepsAddressSpace
<1>1. HistorizedInit => Init
  BY DEF HistorizedInit
<1>2. [HistorizedNext]_spaceVars => [Next]_vars
  <2> SUFFICES ASSUME [HistorizedNext]_spaceVars PROVE [Next]_vars
    OBVIOUS
  <2>1. CASE UNCHANGED vars
    BY <2>1
  <2>2. CASE Event
    BY <2>2 DEF Event, Next
  <2>3. CASE AddVariableNode
    BY <2>3 DEF AddVariableNode, Next, Registry, RegistryStep
  <2>4. CASE WalkOn
    BY <2>4 DEF WalkOn, Next
  <2>5. CASE Serve \/ BeginServing
    BY <2>5 DEF Serve, BeginServing, Next
  <2> QED BY <2>1, <2>2, <2>3, <2>4, <2>5
          DEF HistorizedNext, RegistryThread, ServerThread, spaceVars, Configure,
              RegisterNode, MonitorNode, FailToRegister, Sample, StoreValue, LoseValue
<1> QED BY <1>1, <1>2, PTL DEF HistorizedSpec, KeepsAddressSpace, Spec

(* What is proved of the address space holds in the historized build: its   *)
(* clients see a catalog of devices, and the walks make progress.          *)
THEOREM HistorizedSafety ==
  HistorizedSpec => /\ [](/\ TypeOK /\ TreeConnected /\ SameRegistration
                          /\ NeverServedByOlderDevice /\ FailedNodeGone)
                    /\ IsCatalog
                    /\ WalksAdvance
BY HistorizedImplementsAddressSpace, TypeCorrect, Connected, NodesMatchCallbacks,
   RequestsAreServedAfresh, FailuresAreFinal, AddressSpaceIsCatalog,
   WalksMakeProgress, PTL DEF KeepsAddressSpace

(* While no request comes late, failing registrations with the historizer   *)
(* leave neither an orphan node nor an orphan callback, and remove nothing. *)
THEOREM PromptHistorizedSafety ==
  ASSUME ~ LateRequests
  PROVE  HistorizedSpec => /\ [](NoOrphanNode /\ NoOrphanCallback)
                           /\ RemovedForCause
                           /\ DeregistrationClears
<1>1. "exception" \notin RegistrationReads
  BY HistorizingAssumption
<1> QED BY <1>1, HistorizedImplementsAddressSpace, NodesAreServed, CallbacksHaveNodes,
           NodesAreRemovedForCause, DeregistrationsClear, PTL DEF KeepsAddressSpace

-----------------------------------------------------------------------------
(* The historizer's view *)

(* A leaf that is about to get its node does not have one: the walk comes  *)
(* to each leaf once.                                                      *)
LEMMA LeafIsAbsent ==
  ASSUME TypeOK, TreeInv, FailureInv, step = "addNode"
  PROVE  leaf \in Leaves /\ nodes[leaf] = Absent
<1>1. leaf \in Leaves /\ task = "register"
  BY DEF TypeOK, NodeBuilderType
<1>2. leaf # Nobody /\ leaf \in Elements
  BY <1>1, TreeAssumption DEF NodeIds, Elements
<1>3. nodes[leaf] # registrations
  BY <1>1 DEF FailureInv, WalkInv, Behind
<1>4. Exists(leaf) => nodes[leaf] = registrations
  BY <1>2 DEF TreeInv, TreeConnected
<1> QED BY <1>1, <1>3, <1>4 DEF Exists

(* Only nodes of leaves have types.                                        *)
LEMMA NodeTypeOf ==
  ASSUME TypeOK
  PROVE  /\ NodeType \in [Leaves -> Types \cup {Nobody}]
         /\ NodeType' = [l \in Leaves |->
              IF nodes'[l] # Absent /\ FunctionOf[nodes'[l]][l] # "callable"
                THEN TypeOf[nodes'[l]][l] ELSE Nobody]
<1>1. ASSUME NEW l \in Leaves, Exists(l)
      PROVE  TypeOf[nodes[l]][l] \in Types
  BY <1>1, HistorizingAssumption
     DEF TypeOK, UaServerType, NodeIds, Versions, Exists
<1> QED BY <1>1 DEF NodeType, Exists

(* Objects and methods come and go without the historizer.                 *)
LEMMA OtherNodesHaveNoType ==
  ASSUME TypeOK, NEW n \in NodeIds, NEW v \in Versions,
         UA_Server_addNode(n, v),
         n \in Leaves => nodes[n] = Absent /\ FunctionOf[v][n] = "callable"
  PROVE  NodeType' = NodeType
<1>1. nodes' = [nodes EXCEPT ![n] = v] /\ nodes \in [NodeIds -> Versions]
  BY DEF UA_Server_addNode, TypeOK, UaServerType
<1>2. \A l \in Leaves : l \in NodeIds
  BY DEF NodeIds
<1> QED BY <1>1, <1>2 DEF NodeType, Exists

(* A deletion shows in the historizer as the removal of the nodes it took. *)
LEMMA DeletionIsRemoval ==
  ASSUME NEW n \in NodeIds, UA_Server_deleteNode(n), UNCHANGED historizer,
         registering = H!NoRegistration \/ writing = H!NoWrite
  PROVE  H!Next
<1> DEFINE removed == {l \in Leaves : nodes'[l] = Absent}
<1>1. \A l \in Leaves : l \in NodeIds /\ nodes'[l] \in {nodes[l], Absent}
  BY DEF UA_Server_deleteNode, NodeIds
<1>2. NodeType' = [l \in Leaves |-> IF l \in removed THEN Nobody ELSE NodeType[l]]
  BY <1>1 DEF NodeType, Exists
<1>3. H!RemoveNodes(removed)
  BY <1>2 DEF H!RemoveNodes, H!database, historizer
<1> QED BY <1>3 DEF H!Next

(* A walk is that of a registration that was counted.                      *)
CountInv == task = "register" => registrations # Absent

(* Nodes are added under a registration's number only.                     *)
THEOREM DevicesAreCounted == Spec => []CountInv
<1>1. Init => CountInv
  BY DEF Init, NodeBuilderInit, CountInv
<1>2. TypeOK /\ CountInv /\ [Next]_vars => CountInv'
  <2> SUFFICES ASSUME TypeOK, CountInv, [Next]_vars PROVE CountInv'
    OBVIOUS
  <2> USE DEF CountInv, Absent
  <2>1. CASE UNCHANGED walkVars
    BY <2>1 DEF walkVars
  <2>2. ASSUME NEW d \in Devices, registrate(d) \/ deregistrate(d) PROVE CountInv'
    BY <2>2 DEF registrate, deregistrate, BeginRegistration, RefuseRegistration,
                BeginDeregistration, walkVars, TypeOK, NodeBuilderType
  <2>3. CASE Registry
    BY <2>3 DEF Registry, RegistryStep, VisitGroup, VisitLeaf, ReadInitialValue,
                AbortRegistration, AddLeafCallback, AddLeafNode, UndoLeaf,
                EndRegistration, RemoveDataSource, BrowseGroup, DeleteDevice, GoIdle
  <2> QED BY <2>1, <2>2, <2>3 DEF Next, Request, Server, vars
<1> QED BY <1>1, <1>2, TypeCorrect, PTL DEF Spec

(* A variable node the server adds or refuses is one the historizer may     *)
(* begin with.                                                             *)
LEMMA AdditionIsAddNode ==
  ASSUME TypeOK, TreeInv, FailureInv, CountInv, AddVariableNode
  PROVE  H!Next
<1>1. leaf \in Leaves /\ nodes[leaf] = Absent
  BY LeafIsAbsent DEF AddVariableNode, AtVariable
<1>2. leaf \in NodeIds /\ leaf # Nobody /\ task = "register"
  BY <1>1, TreeAssumption DEF NodeIds, TypeOK, NodeBuilderType
<1>3. registrations \in Registrations
  BY <1>2 DEF TypeOK, NodeBuilderType, CountInv, Registrations, Absent
<1> DEFINE t == TypeOf[registrations][leaf]
<1>4. t \in Types
  BY <1>1, <1>3, HistorizingAssumption
<1>5. NodeType[leaf] = Nobody
  BY <1>1 DEF NodeType, Exists
<1>6. NodeType' \in {NodeType, [NodeType EXCEPT ![leaf] = t]}
  <2>1. CASE UNCHANGED nodes
    BY <2>1 DEF NodeType, Exists
  <2>2. CASE nodes' = [nodes EXCEPT ![leaf] = registrations]
    <3>1. \A l \in Leaves :
            nodes'[l] = IF l = leaf THEN registrations ELSE nodes[l]
      BY <2>2 DEF TypeOK, UaServerType, NodeIds
    <3>2. FunctionOf[registrations][leaf] # "callable" /\ registrations # Absent
      BY <1>3 DEF AddVariableNode, AtVariable, Function, Registrations, Absent
    <3> QED BY <1>1, <3>1, <3>2 DEF NodeType, Exists
  <2> QED BY <2>1, <2>2 DEF AddVariableNode, AddLeafNode, UA_Server_addNode
<1>7. H!AddNode(leaf, t)
  BY <1>5, <1>6 DEF AddVariableNode, RegistryFree, Configured, H!AddNode, H!database,
                    H!NoRegistration
<1> QED BY <1>1, <1>4, <1>7 DEF H!Next

(* The other steps of the walk show by the nodes they delete, or not.      *)
LEMMA WalkIsRemoval ==
  ASSUME TypeOK, TreeInv, FailureInv, CountInv, WalkOn
  PROVE  H!Next \/ UNCHANGED <<NodeType, historizer>>
<1> USE DEF WalkOn, Registry
<1>1. UNCHANGED historizer /\ registering = H!NoRegistration
  BY DEF RegistryFree
<1>2. CASE DeleteDevice
  <2>1. device \in NodeIds /\ UA_Server_deleteNode(device)
    BY <1>2 DEF DeleteDevice, TypeOK, NodeBuilderType, NodeIds, Objects
  <2> QED BY <1>1, <2>1, DeletionIsRemoval
<1>3. ASSUME NEW g \in Groups, VisitGroup(g) PROVE NodeType' = NodeType
  <2>1. CASE UNCHANGED nodes
    BY <2>1 DEF NodeType, Exists
  <2>2. CASE UA_Server_addNode(g, registrations)
    <3>1. g \in NodeIds /\ g \notin Leaves /\ registrations \in Versions
      BY TreeAssumption DEF NodeIds, Objects, TypeOK, NodeBuilderType, Versions,
                            Registrations, Absent
    <3> QED BY <2>2, <3>1, OtherNodesHaveNoType
  <2> QED BY <1>3, <2>1, <2>2 DEF VisitGroup
<1>4. CASE AddLeafNode
  <2>1. CASE UNCHANGED nodes
    BY <1>1, <2>1 DEF NodeType, Exists
  <2>2. CASE UA_Server_addNode(leaf, registrations)
    <3>1. leaf \in Leaves /\ nodes[leaf] = Absent
      BY <1>4, LeafIsAbsent DEF AddLeafNode
    <3>2. leaf \in NodeIds /\ registrations \in Versions
      BY <3>1 DEF NodeIds, TypeOK, NodeBuilderType, Versions, Registrations, Absent
    <3>3. FunctionOf[registrations][leaf] = "callable"
      BY <1>4 DEF AddLeafNode, AtVariable, Function
    <3> QED BY <1>1, <2>2, <3>1, <3>2, <3>3, OtherNodesHaveNoType
  <2> QED BY <1>4, <2>1, <2>2 DEF AddLeafNode
<1>5. CASE UNCHANGED nodes
  BY <1>1, <1>5 DEF NodeType, Exists
<1> QED BY <1>1, <1>2, <1>3, <1>4, <1>5
        DEF RegistryStep, VisitLeaf, ReadInitialValue, AbortRegistration, AddLeafCallback,
            UndoLeaf, EndRegistration, RemoveDataSource, BrowseGroup

(* An event adds at most a device.                                         *)
LEMMA EventIsStutter ==
  ASSUME TypeOK, Event
  PROVE  UNCHANGED <<NodeType, historizer>>
<1>1. CASE UNCHANGED nodes
  BY <1>1 DEF Event, NodeType, Exists
<1>2. ASSUME NEW d \in Devices, BeginRegistration(d) PROVE NodeType' = NodeType
  <2>1. /\ d \in NodeIds /\ d \notin Leaves /\ registrations + 1 \in Versions
        /\ UA_Server_addNode(d, registrations + 1)
    BY <1>2, TreeAssumption, RegistrationAssumption
       DEF NodeIds, Objects, TypeOK, NodeBuilderType, Versions, Registrations,
           BeginRegistration
  <2> QED BY <2>1, OtherNodesHaveNoType
<1> QED BY <1>1, <1>2 DEF Event, registrate, deregistrate, RefuseRegistration,
                          BeginDeregistration

(* A request shows by the node it deletes and by the value it stores.      *)
LEMMA RequestIsWrite ==
  ASSUME TypeOK, Serve
  PROVE  H!Next \/ UNCHANGED <<NodeType, historizer>>
<1>1. CASE DeleteFailedNode
  <2>1. /\ call.leaf \in NodeIds /\ UA_Server_deleteNode(call.leaf)
        /\ call.phase = "deleteNode"
    BY <1>1, TreeAssumption DEF DeleteFailedNode, TypeOK, RequestHandlersType, NodeIds
  <2>2. UNCHANGED historizer /\ writing = H!NoWrite
    BY <2>1 DEF Serve, HistorizesAnswer, ServerFree
  <2> QED BY <2>1, <2>2, DeletionIsRemoval
<1>2. CASE UNCHANGED nodes
  <2>1. NodeType' = NodeType
    BY <1>2 DEF NodeType, Exists
  <2>2. call.phase = "invoke" => call.leaf \in Leaves
    BY DEF TypeOK, RequestHandlersType
  <2> QED BY <2>1, <2>2 DEF Serve, HistorizesAnswer, H!Next
<1> QED BY <1>1, <1>2
        DEF Serve, Server, ServerStep, FindCallback, InvokeDevice, DeviceThrows,
            DeviceThrowsOther, RemoveFailedCallback

(* The historizer finds in the adapter the environment it is specified     *)
(* with, so all that is proved of its database holds there.                *)
THEOREM HistorizedImplementsHistorizer == HistorizedSpec => KeepsHistorizer
<1>1. HistorizedInit => H!Init
  BY DEF HistorizedInit
<1>2. /\ TypeOK /\ TreeInv /\ FailureInv /\ CountInv
      /\ [HistorizedNext]_spaceVars
      => [H!Next]_(H!historizerVars)
  <2> SUFFICES ASSUME TypeOK, TreeInv, FailureInv, CountInv,
                      [HistorizedNext]_spaceVars
               PROVE  H!Next \/ UNCHANGED <<NodeType, historizer>>
    BY DEF H!historizerVars, H!database, H!adapter, historizer
  <2>1. CASE UNCHANGED spaceVars
    BY <2>1 DEF spaceVars, vars, NodeType, Exists
  <2>2. CASE AddVariableNode
    BY <2>2, AdditionIsAddNode
  <2>3. CASE WalkOn
    BY <2>3, WalkIsRemoval
  <2>4. CASE Event
    BY <2>4, EventIsStutter
  <2>5. CASE Serve
    BY <2>5, RequestIsWrite
  <2>6. CASE BeginServing
    BY <2>6 DEF BeginServing, Request, BeginRequest, NodeType, Exists
  <2>7. CASE Configure \/ RegisterNode \/ MonitorNode \/ FailToRegister
    BY <2>7 DEF Configure, RegisterNode, MonitorNode, FailToRegister, H!Next,
                H!Registering
  <2>8. CASE StoreValue \/ LoseValue
    BY <2>8 DEF StoreValue, LoseValue, H!Next
  <2>9. ASSUME NEW l \in Leaves, Sample(l) PROVE H!Next
    BY <2>9 DEF Sample, H!Next
  <2> QED BY <2>1, <2>2, <2>3, <2>4, <2>5, <2>6, <2>7, <2>8, <2>9
          DEF HistorizedNext, RegistryThread, ServerThread
<1> QED BY <1>1, <1>2, HistorizedImplementsAddressSpace, TypeCorrect,
           TreeStaysConnected, FailedNodesStayAway, DevicesAreCounted, PTL
        DEF HistorizedSpec, KeepsHistorizer, KeepsAddressSpace, H!Spec

-----------------------------------------------------------------------------
(* A node in the course of its registration is of the last registration,   *)
(* so that what is reported of it names the registration it belongs to; and *)
(* every state of registerNodeId names a node.                             *)
ReportInv ==
  /\ HistorizedOrReported
  /\ "node" \in DOMAIN registering
  /\ \A l \in Leaves :
       registering.node = l => nodes[l] \in {registrations, Absent}

(* A historizer that did not come up does not come up later.               *)
LEMMA UnavailableStays ==
  ASSUME [HistorizedNext]_spaceVars, process = "unavailable"
  PROVE  process' = "unavailable"
<1>1. ~ Configure
  BY DEF Configure, H!Start, H!StartUp, H!StartFails, H!StartSteps, H!CreateNodesTable,
         H!CreateDomains, H!CommitNodesTable, H!QueryTypes
<1> QED BY <1>1
        DEF HistorizedNext, spaceVars, historizer, RegistryThread, ServerThread, Event,
            AddVariableNode, WalkOn, RegisterNode, H!IsHistorized, H!RecordNode,
            H!CreateTable, H!CommitRegistration, MonitorNode, H!CreateMonitoredItem,
            FailToRegister, H!RegistrationFails, Serve, BeginServing, Sample, H!BeginWrite,
            StoreValue, H!Writing, H!InsertValue, H!UpdateHistorized, H!CommitValue,
            LoseValue, H!WriteFails

(* While nodes only disappear, no node has to be reported.                 *)
LEMMA RemovalNeedsNoReport ==
  ASSUME ReportInv, UNCHANGED <<monitored, registering, registrations, reported>>,
         process = "unavailable" => process' = "unavailable",
         \A l \in Leaves : nodes'[l] \in {nodes[l], Absent}
  PROVE  ReportInv'
<1>1. ASSUME NEW l \in Leaves, NodeType'[l] # Nobody
      PROVE  NodeType[l] # Nobody /\ nodes'[l] = nodes[l]
  BY <1>1 DEF NodeType, Exists
<1> QED BY <1>1 DEF ReportInv, HistorizedOrReported

(* Reporting the node of a registration, or monitoring it, concludes it.   *)
LEMMA ConclusionIsKnown ==
  ASSUME TypeOK, ReportInv, UNCHANGED vars,
         monitored \subseteq monitored', reported \subseteq reported',
         registering' = H!NoRegistration,
         process = "unavailable" => process' = "unavailable",
         \/ Report(registering.node)
         \/ Exists(registering.node) /\
            (NodeType[registering.node] # Nobody => registering.node \in monitored')
  PROVE  ReportInv'
<1>1. NodeType' = NodeType /\ UNCHANGED <<nodes, registrations>>
  BY DEF vars, walkVars, NodeType, Exists
<1>2. ASSUME NEW l \in Leaves, NodeType[l] # Nobody, registering.node = l
      PROVE  l \in monitored' \/ <<l, nodes[l]>> \in reported'
  <2>1. nodes[l] = registrations
    BY <1>2 DEF ReportInv, NodeType, Exists
  <2> QED BY <1>2, <2>1 DEF Report
<1>3. (\A l \in Leaves : registering'.node # l) /\ "node" \in DOMAIN registering'
  BY TreeAssumption DEF H!NoRegistration, NodeIds
<1> QED BY <1>1, <1>2, <1>3 DEF ReportInv, HistorizedOrReported

(* No node is left unhistorized in silence: the log names it, or says that *)
(* no historizer is set.                                                   *)
THEOREM NodesAreHistorizedOrReported == HistorizedSpec => []HistorizedOrReported
<1>1. HistorizedInit => ReportInv
  <2> SUFFICES ASSUME HistorizedInit PROVE ReportInv
    OBVIOUS
  <2>1. \A l \in Leaves : nodes[l] = Absent
    BY DEF HistorizedInit, Init, UaServerInit, NodeIds
  <2>2. "node" \in DOMAIN registering
    BY DEF HistorizedInit, H!Init, H!NoRegistration
  <2> QED BY <2>1, <2>2 DEF ReportInv, HistorizedOrReported, NodeType, Exists
<1>2. /\ TypeOK /\ TreeInv /\ FailureInv /\ CountInv /\ ReportInv
      /\ [HistorizedNext]_spaceVars
      => ReportInv'
  <2> SUFFICES ASSUME TypeOK, TreeInv, FailureInv, CountInv, ReportInv,
                      [HistorizedNext]_spaceVars
               PROVE  ReportInv'
    OBVIOUS
  <2>a. Leaves \subseteq NodeIds /\ Nobody \notin Leaves
    BY TreeAssumption DEF NodeIds
  <2>b. process = "unavailable" => process' = "unavailable"
    BY UnavailableStays
  <2>1. CASE UNCHANGED spaceVars
    BY <2>1, RemovalNeedsNoReport DEF spaceVars, historizer, vars, walkVars
  <2>2. CASE Configure \/ StoreValue \/ LoseValue
    BY <2>b, <2>2, RemovalNeedsNoReport
       DEF Configure, StoreValue, LoseValue, vars, walkVars, H!Start, H!StartUp,
           H!StartFails, H!CreateNodesTable, H!CreateDomains, H!CommitNodesTable,
           H!QueryTypes, H!Writing, H!InsertValue, H!UpdateHistorized, H!CommitValue,
           H!WriteFails
  <2>3. ASSUME NEW l \in Leaves, Sample(l) PROVE ReportInv'
    BY <2>b, <2>3, RemovalNeedsNoReport DEF Sample, H!BeginWrite, vars, walkVars
  <2>4. CASE Serve \/ BeginServing
    <3>1. UNCHANGED <<monitored, registering, registrations, reported>>
      BY <2>4 DEF Serve, BeginServing, H!BeginWrite, historizer, Server, Request, walkVars
    <3>2. \A l \in Leaves : nodes'[l] \in {nodes[l], Absent}
      BY <2>4, <2>a
         DEF Serve, BeginServing, Server, Request, ServerStep, BeginRequest,
             FindCallback, InvokeDevice, DeviceThrows, DeviceThrowsOther,
             RemoveFailedCallback, DeleteFailedNode, UA_Server_deleteNode
    <3> QED BY <2>b, <3>1, <3>2, RemovalNeedsNoReport
  <2>5. CASE Event
    <3>1. NodeType' = NodeType /\ UNCHANGED historizer
      BY <2>5, EventIsStutter
    <3>2. \A l \in Leaves : nodes'[l] = nodes[l]
      BY <2>5, TreeAssumption
         DEF Event, registrate, deregistrate, BeginRegistration, RefuseRegistration,
             BeginDeregistration, UA_Server_addNode, TypeOK, UaServerType, NodeIds,
             Objects
    <3>3. \A l \in Leaves : registering'.node # l
      BY <2>5, <2>a, <3>1 DEF Event, RegistryFree, H!NoRegistration, historizer
    <3> QED BY <2>5, <3>1, <3>2, <3>3
            DEF ReportInv, HistorizedOrReported, Event, historizer
  <2>6. CASE WalkOn
    <3>1. /\ UNCHANGED historizer /\ UNCHANGED reported
          /\ registering = H!NoRegistration
      BY <2>6 DEF WalkOn, RegistryFree
    <3>2. \A l \in Leaves : registering'.node # l
      BY <2>a, <3>1 DEF H!NoRegistration, historizer
    <3>3. \A l \in Leaves : NodeType'[l] # Nobody =>
            NodeType[l] # Nobody /\ nodes'[l] = nodes[l]
      <4>1. CASE DeleteDevice
        BY <2>a, <4>1 DEF DeleteDevice, UA_Server_deleteNode, NodeType, Exists
      <4>2. CASE UNCHANGED nodes
        BY <4>2 DEF NodeType, Exists
      <4>3. ASSUME NEW g \in Groups, VisitGroup(g)
            PROVE  \A l \in Leaves : nodes'[l] = nodes[l] /\ NodeType'[l] = NodeType[l]
        <5>1. \A l \in Leaves : nodes'[l] = nodes[l]
          BY <4>3, TreeAssumption
             DEF VisitGroup, UA_Server_addNode, TypeOK, UaServerType, NodeIds, Objects
        <5> QED BY <5>1 DEF NodeType, Exists
      <4>5. CASE AddLeafNode /\ UA_Server_addNode(leaf, registrations)
        <5>1. \A l \in Leaves :
                nodes'[l] = IF l = leaf THEN registrations ELSE nodes[l]
          BY <2>a, <4>5 DEF UA_Server_addNode, TypeOK, UaServerType
        <5>2. FunctionOf[registrations][leaf] = "callable"
          BY <2>6, <4>5 DEF WalkOn, AddLeafNode, AtVariable, Function
        <5> QED BY <5>1, <5>2 DEF NodeType, Exists
      <4> QED BY <2>6, <4>1, <4>2, <4>3, <4>5
              DEF WalkOn, Registry, RegistryStep, VisitLeaf, ReadInitialValue,
                  AbortRegistration, AddLeafCallback, AddLeafNode, UndoLeaf,
                  EndRegistration, RemoveDataSource, BrowseGroup
    <3> QED BY <3>1, <3>2, <3>3 DEF ReportInv, HistorizedOrReported, historizer
  <2>7. CASE AddVariableNode
    <3>1. leaf \in Leaves
      BY <2>7, LeafIsAbsent DEF AddVariableNode, AtVariable
    <3>2. \A l \in Leaves : nodes'[l] = nodes[l] \/ (l = leaf /\ nodes'[l] = registrations)
      BY <2>7, <2>a
         DEF AddVariableNode, AddLeafNode, UA_Server_addNode, TypeOK, UaServerType
    <3>3. \A l \in Leaves : registering.node # l
      BY <2>7, <2>a DEF AddVariableNode, RegistryFree, H!NoRegistration
    <3>4. \A l \in Leaves : NodeType'[l] # Nobody /\ l # leaf =>
            NodeType[l] # Nobody /\ nodes'[l] = nodes[l]
      BY <3>2 DEF NodeType, Exists
    <3>5. nodes[leaf] = Absent /\ UNCHANGED registrations
      BY <2>7, LeafIsAbsent DEF AddVariableNode, AtVariable, AddLeafNode
    <3>6. NodeType'[leaf] # Nobody => nodes'[leaf] = registrations
      BY <3>1, <3>2, <3>5 DEF NodeType, Exists
    <3>7. \/ registering'.node = leaf /\ UNCHANGED reported
          \/ process = "unavailable" /\ UNCHANGED registering /\ ReportNotSet
      BY <2>7 DEF AddVariableNode
    <3>8. UNCHANGED monitored /\ "node" \in DOMAIN registering'
      BY <2>7 DEF AddVariableNode, ReportInv
    <3> QED BY <2>b, <3>1, <3>2, <3>3, <3>4, <3>5, <3>6, <3>7, <3>8
            DEF ReportInv, HistorizedOrReported, ReportNotSet
  <2>8. CASE RegisterNode
    <3>1. UNCHANGED <<vars, monitored, reported>>
      BY <2>8 DEF RegisterNode, H!IsHistorized, H!RecordNode, H!CreateTable,
                  H!CommitRegistration, H!Commit
    <3>2. registering'.node = registering.node /\ "node" \in DOMAIN registering'
      BY <2>8 DEF ReportInv, RegisterNode, H!IsHistorized, H!RecordNode, H!CreateTable,
                  H!CommitRegistration, H!Continue
    <3>3. NodeType' = NodeType /\ UNCHANGED <<nodes, registrations, monitored, reported>>
      BY <3>1 DEF vars, walkVars, NodeType, Exists
    <3> QED BY <2>b, <3>2, <3>3 DEF ReportInv, HistorizedOrReported
  <2>9. CASE MonitorNode
    BY <2>b, <2>9, ConclusionIsKnown
       DEF MonitorNode, H!CreateMonitoredItem, H!Leave, Report
  <2>10. CASE FailToRegister
    BY <2>b, <2>10, ConclusionIsKnown
       DEF FailToRegister, H!RegistrationFails, H!Leave, Report
  <2> QED BY <2>1, <2>2, <2>3, <2>4, <2>5, <2>6, <2>7, <2>8, <2>9, <2>10
          DEF HistorizedNext, RegistryThread, ServerThread
<1>3. ReportInv => HistorizedOrReported
  BY DEF ReportInv
<1> QED BY <1>1, <1>2, <1>3, HistorizedImplementsAddressSpace, TypeCorrect,
           TreeStaysConnected, FailedNodesStayAway, DevicesAreCounted, PTL
        DEF HistorizedSpec, KeepsAddressSpace

-----------------------------------------------------------------------------
(* The theorems about the historizer, of the one in the adapter. *)

HP == INSTANCE HistorizerProofs
        WITH Nodes <- Leaves, Nothing <- Nobody, nodeType <- NodeType,
             registration <- registering

(* HP is H with its theorems.                                              *)
LEMMA SameHistorizer == H!Spec => HP!Spec
<1> USE DEF H!NoRegistration, HP!NoRegistration, H!NoWrite, HP!NoWrite, H!database,
            HP!database, H!Continue, HP!Continue, H!Leave, HP!Leave
<1>1. H!Init => HP!Init
  BY DEF H!Init, HP!Init
<1>2. H!Next => HP!Next
  <2>1. H!Start => HP!Start
    BY DEF H!Start, HP!Start
  <2>2. H!StartUp => HP!StartUp
    BY DEF H!StartUp, HP!StartUp, H!CreateNodesTable, HP!CreateNodesTable,
           H!CreateDomains, HP!CreateDomains, H!CommitNodesTable, HP!CommitNodesTable,
           H!QueryTypes, HP!QueryTypes
  <2>3. (H!StartFails => HP!StartFails) /\ (H!Crash => HP!Crash)
    BY DEF H!StartFails, HP!StartFails, H!StartSteps, HP!StartSteps, H!Crash, HP!Crash
  <2>4. ASSUME NEW l, NEW t, H!AddNode(l, t) PROVE HP!AddNode(l, t)
    BY <2>4 DEF H!AddNode, HP!AddNode
  <2>5. ASSUME NEW removed, H!RemoveNodes(removed) PROVE HP!RemoveNodes(removed)
    BY <2>5 DEF H!RemoveNodes, HP!RemoveNodes
  <2>6. ASSUME NEW l, H!BeginWrite(l) PROVE HP!BeginWrite(l)
    BY <2>6 DEF H!BeginWrite, HP!BeginWrite
  <2>7. H!Registering => HP!Registering
    BY DEF H!Registering, HP!Registering, H!IsHistorized, HP!IsHistorized, H!RecordNode,
           HP!RecordNode, H!CreateTable, HP!CreateTable, H!CommitRegistration,
           HP!CommitRegistration, H!CreateMonitoredItem, HP!CreateMonitoredItem,
           H!RowLocked, HP!RowLocked, H!Commit, HP!Commit, H!NewTable, HP!NewTable
  <2>8. H!RegistrationFails => HP!RegistrationFails
    BY DEF H!RegistrationFails, HP!RegistrationFails, H!Commit, HP!Commit, H!NewTable,
           HP!NewTable
  <2>9. H!Writing => HP!Writing
    BY DEF H!Writing, HP!Writing, H!InsertValue, HP!InsertValue, H!UpdateHistorized,
           HP!UpdateHistorized, H!CommitValue, HP!CommitValue, H!RowLocked, HP!RowLocked
  <2>10. H!WriteFails => HP!WriteFails
    BY DEF H!WriteFails, HP!WriteFails
  <2> QED BY ONLY <2>1, <2>2, <2>3, <2>4, <2>5, <2>6, <2>7, <2>8, <2>9, <2>10
          DEF H!Next, HP!Next
<1>3. UNCHANGED H!historizerVars => UNCHANGED HP!historizerVars
  BY DEF H!historizerVars, HP!historizerVars, H!adapter, HP!adapter
<1> QED BY <1>1, <1>2, <1>3, PTL DEF H!Spec, HP!Spec

(* The database of the historized adapter is consistent whatever walks,    *)
(* requests and samples do, and shows the store of histories.              *)
THEOREM HistorizerSafety ==
  HistorizedSpec => /\ [](/\ H!StartedIsReady /\ H!RegisteredHasTable
                          /\ H!MonitoredIsRegistered /\ H!UpdateFindsRow)
                    /\ HP!IsHistoryStore
<1>0. Nobody \notin Leaves \cup Types
  BY HistorizingAssumption, TreeAssumption DEF NodeIds
<1>1. HP!Spec => [](/\ HP!StartedIsReady /\ HP!RegisteredHasTable
                   /\ HP!MonitoredIsRegistered /\ HP!UpdateFindsRow)
                 /\ HP!IsHistoryStore
  BY <1>0, HP!StartIsComplete, HP!RegistrationIsAtomic, HP!SamplingFollowsRegistration,
     HP!ValuesAreRecorded, HP!HistorizerIsStore, PTL
<1>2. /\ HP!StartedIsReady => H!StartedIsReady
      /\ HP!RegisteredHasTable => H!RegisteredHasTable
      /\ HP!MonitoredIsRegistered => H!MonitoredIsRegistered
      /\ HP!UpdateFindsRow => H!UpdateFindsRow
  BY DEF HP!StartedIsReady, H!StartedIsReady, HP!RegisteredHasTable,
         H!RegisteredHasTable, HP!MonitoredIsRegistered, H!MonitoredIsRegistered,
         HP!UpdateFindsRow, H!UpdateFindsRow
<1> QED BY <1>1, <1>2, SameHistorizer, HistorizedImplementsHistorizer, PTL
        DEF KeepsHistorizer

(* A node is registered with a table that fits it, as long as its device    *)
(* offers it with the same type in every registration.                     *)
THEOREM LastingTypesFit ==
  ASSUME NEW T \in [Leaves -> Types], \A r \in Registrations : TypeOf[r] = T
  PROVE  HistorizedSpec => []H!TableFitsNode
<1> DEFINE Lasting ==
      /\ registering # H!NoRegistration => registering.type = T[registering.node]
<1>0. Nobody \notin Leaves \cup Types
  BY HistorizingAssumption, TreeAssumption DEF NodeIds
<1>1. HistorizedInit => Lasting
  BY DEF HistorizedInit, H!Init
<1>2. /\ TypeOK /\ TreeInv /\ FailureInv /\ CountInv /\ HP!TypeOK /\ Lasting
      /\ [HistorizedNext]_spaceVars
      => Lasting'
  <2> SUFFICES ASSUME TypeOK, TreeInv, FailureInv, CountInv, HP!TypeOK, Lasting,
                      [HistorizedNext]_spaceVars
               PROVE  Lasting'
    OBVIOUS
  <2>1. CASE UNCHANGED registering \/ registering' = H!NoRegistration
    BY <2>1 DEF H!NoRegistration
  <2>2. CASE AddVariableNode
    <3>1. leaf \in Leaves
      BY <2>2, LeafIsAbsent DEF AddVariableNode, AtVariable
    <3>2. task = "register"
      BY <2>2 DEF TypeOK, NodeBuilderType, AddVariableNode, AtVariable
    <3>3. registrations \in Registrations
      BY <3>2 DEF TypeOK, NodeBuilderType, CountInv, Registrations, Absent
    <3> QED BY <2>1, <2>2, <3>1, <3>3 DEF AddVariableNode
  <2>3. CASE RegisterNode
    <3>1. registering \in [step : {"lookup", "record", "createTable", "commit"},
                           node : Leaves, type : Types, known : BOOLEAN]
      BY <2>3 DEF RegisterNode, H!IsHistorized, H!RecordNode, H!CreateTable,
                  H!CommitRegistration, HP!TypeOK, HP!NoRegistration
    <3> DEFINE known == registering.node \in historized
    <3>2. H!IsHistorized =>
            registering' = [registering EXCEPT !.step = "record", !.known = known]
      BY Zenon DEF H!IsHistorized
    <3> HIDE DEF known
    <3>3. registering'.node = registering.node /\ registering'.type = registering.type
      BY <2>3, <3>1, <3>2
         DEF RegisterNode, H!RecordNode, H!CreateTable, H!CommitRegistration, H!Continue
    <3> QED BY <3>1, <3>3 DEF H!NoRegistration
  <2> QED BY <2>1, <2>2, <2>3
          DEF HistorizedNext, spaceVars, historizer, RegistryThread, ServerThread,
              Configure, H!Start, H!StartUp, H!CreateNodesTable, H!CreateDomains,
              H!CommitNodesTable, H!QueryTypes, H!StartFails, Event, WalkOn, MonitorNode,
              H!CreateMonitoredItem, FailToRegister, H!RegistrationFails, H!Leave, Serve,
              BeginServing, Sample, H!BeginWrite, StoreValue, H!Writing, H!InsertValue,
              H!UpdateHistorized, H!CommitValue, LoseValue, H!WriteFails
<1>3. Lasting => HP!LastingType(T)
  BY DEF HP!LastingType, HP!NoRegistration, H!NoRegistration
<1>4. HP!TableFitsNode => H!TableFitsNode
  BY DEF HP!TableFitsNode, H!TableFitsNode
<1>5. HP!Spec => []HP!TypeOK
  BY <1>0, HP!HistorizerTypeCorrect
<1>6. HP!Spec /\ []HP!LastingType(T) => []HP!TableFitsNode
  BY <1>0, HP!TablesFitLastingTypes
<1> QED BY <1>1, <1>2, <1>3, <1>4, <1>5, <1>6, SameHistorizer,
           HistorizedImplementsHistorizer, HistorizedImplementsAddressSpace, TypeCorrect,
           TreeStaysConnected, FailedNodesStayAway, DevicesAreCounted, PTL
        DEF HistorizedSpec, KeepsHistorizer, KeepsAddressSpace

(* On a database without the domains, which the adapter does not create for *)
(* good, nothing is ever historized or on the way to the database, and the *)
(* log says so without a name: from the first variable node on that no     *)
(* historizer is set, and of no node that it could not be historized.      *)
THEOREM UnpreparedHistoryIsEmpty ==
  HistorizedSpec /\ domains = FALSE =>
    [](/\ historized = {} /\ monitored = {} /\ writing = H!NoWrite
       /\ reported \subseteq {NotSet}
       /\ (\E l \in Leaves : NodeType[l] # Nobody) => NotSet \in reported)
<1> DEFINE Unprepared ==
      /\ process # "available" /\ registering = HP!NoRegistration
      /\ writing = HP!NoWrite /\ historized = {} /\ monitored = {}
<1> DEFINE Nameless == reported \subseteq {NotSet}
<1>0. Nobody \notin Leaves \cup Types
  BY HistorizingAssumption, TreeAssumption DEF NodeIds
<1>1. HP!Spec /\ domains = FALSE => []Unprepared
  BY <1>0, HP!UnpreparedDatabaseStaysEmpty, PTL
<1>2. HistorizedInit => Nameless
  BY DEF HistorizedInit
<1>3. Unprepared /\ Nameless /\ [HistorizedNext]_spaceVars => Nameless'
  <2> SUFFICES ASSUME Unprepared, Nameless, [HistorizedNext]_spaceVars PROVE Nameless'
    OBVIOUS
  <2>1. ~ (RegisterNode \/ MonitorNode \/ FailToRegister)
    BY DEF RegisterNode, MonitorNode, FailToRegister, H!IsHistorized, H!RecordNode,
           H!CreateTable, H!CommitRegistration, H!CreateMonitoredItem,
           H!RegistrationFails, H!NoRegistration, HP!NoRegistration
  <2>2. CASE AddVariableNode
    BY <2>2 DEF AddVariableNode, ReportNotSet
  <2>3. CASE UNCHANGED reported
    BY <2>3
  <2> QED BY <2>1, <2>2, <2>3
          DEF HistorizedNext, RegistryThread, ServerThread, spaceVars, Configure, Event,
              WalkOn, Serve, StoreValue, BeginServing, Sample, LoseValue
<1>4. HistorizedOrReported /\ Unprepared /\ Nameless =>
        /\ historized = {} /\ monitored = {} /\ writing = H!NoWrite
        /\ reported \subseteq {NotSet}
        /\ (\E l \in Leaves : NodeType[l] # Nobody) => NotSet \in reported
  <2> SUFFICES ASSUME HistorizedOrReported, Unprepared, Nameless,
                      NEW l \in Leaves, NodeType[l] # Nobody
               PROVE  NotSet \in reported
    BY DEF HP!NoWrite, H!NoWrite
  <2>1. l \notin monitored /\ registering.node # l
    BY <1>0 DEF HP!NoRegistration
  <2>2. <<l, nodes[l]>> \in reported \/ NotSet \in reported
    BY <2>1 DEF HistorizedOrReported
  <2> QED BY <2>2
<1> QED BY <1>1, <1>2, <1>3, <1>4, NodesAreHistorizedOrReported, SameHistorizer,
           HistorizedImplementsHistorizer, PTL DEF HistorizedSpec, KeepsHistorizer
=============================================================================
