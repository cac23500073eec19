------------------------ MODULE PromptRequestSafety ------------------------
(***************************************************************************)
(* What holds of AddressSpace when no request outlives the registration it *)
(* began under: a device is not registered again before the requests on    *)
(* its earlier registration are answered.  Devices may still throw while   *)
(* they are added; what holds besides when they do not is at the end.      *)
(***************************************************************************)
EXTENDS RequestSafety

\* Both walks stay below their device, and a request in progress is one on
\* the present registration of its leaf.
PromptInv ==
  /\ task # "idle" => \A e \in todo : device \in Ancestors[e]
  /\ leaf # Nobody => device \in Ancestors[leaf]
  /\ task = "register" => nodes[device] = registrations
  /\ task = "register" /\ call.phase # "idle" /\ device \in Ancestors[call.leaf]
       => call.registration = registrations
  /\ call.phase # "idle" /\ Exists(call.leaf) =>
       nodes[call.leaf] = call.registration

(* The children of a node below a device are below it as well.             *)
LEMMA ChildrenAreBelow ==
  ASSUME NEW d \in Objects, NEW o \in Objects, o = d \/ d \in Ancestors[o],
         NEW e \in ChildrenOf(o)
  PROVE  e \in Elements /\ d \in Ancestors[e]
BY AncestorsStep DEF ChildrenOf

(* A server step leaves the nodes of objects alone.                        *)
LEMMA ServerKeepsObjects ==
  ASSUME TypeOK, Server
  PROVE  \A n \in NodeIds : n # call.leaf => nodes'[n] = nodes[n]
<1>1. CASE DeleteFailedNode
  BY <1>1, DeleteLeaf DEF DeleteFailedNode, TypeOK, RequestHandlersType
<1>2. CASE UNCHANGED nodes
  BY <1>2
<1> QED BY <1>1, <1>2
        DEF Server, ServerStep, FindCallback, InvokeDevice, DeviceThrows,
            DeviceThrowsOther, RemoveFailedCallback

(* A leaf that is being added is not the leaf of a request in progress.    *)
LEMMA RequestsAreBehind ==
  ASSUME TypeOK, FailureInv, PromptInv, leaf # Nobody, call.phase # "idle"
  PROVE  leaf # call.leaf
BY DEF TypeOK, NodeBuilderType, RequestHandlersType, FailureInv, PromptInv,
       WalkInv, Behind

(* While no request comes late, a request in progress is about the node    *)
(* that is there now.                                                      *)
THEOREM RequestsArePrompt ==
  ASSUME ~ LateRequests
  PROVE  Spec => []PromptInv
<1>1. Init => PromptInv
  BY DEF Init, NodeBuilderInit, RequestHandlersInit, PromptInv
<1>2. /\ TypeOK /\ TreeInv /\ FailureInv /\ PromptInv /\ [Next]_vars
      => PromptInv'
  <2> SUFFICES ASSUME TypeOK, TreeInv, FailureInv, PromptInv, [Next]_vars
               PROVE  PromptInv'
    OBVIOUS
  <2> USE DEF PromptInv
  <2>a. /\ nodes \in [NodeIds -> Versions] /\ todo \subseteq Elements
        /\ leaf \in Leaves \cup {Nobody} /\ device \in Devices \cup {Nobody}
        /\ (device = Nobody <=> task = "idle") /\ (step = "none" <=> leaf = Nobody)
        /\ (leaf # Nobody => task = "register")
        /\ task \in {"idle", "register", "deregister"}
        /\ call.leaf \in Leaves \cup {Nobody}
        /\ (call.phase # "idle" => call.leaf # Nobody)
        /\ registrations \in Versions
    BY VersionsRange DEF TypeOK, UaServerType, NodeBuilderType, RequestHandlersType
  <2>b. /\ Leaves \subseteq NodeIds /\ Leaves \subseteq Elements
        /\ Devices \subseteq NodeIds /\ Devices \subseteq Objects
        /\ Groups \subseteq NodeIds /\ Groups \subseteq Objects
        /\ Leaves \cap Objects = {} /\ Devices \cap Groups = {}
        /\ Nobody \notin Leaves /\ Nobody \notin Devices
    BY NobodyIsNoNode, TreeAssumption DEF NodeIds, Elements, Objects
  <2>1. ASSUME NEW d \in Devices, registrate(d) PROVE PromptInv'
    <3>1. CASE BeginRegistration(d)
      <4>1. ~ RequestBelow(d) /\ UNCHANGED call
        BY <2>1 DEF registrate
      <4>2. /\ task' = "register" /\ device' = d /\ todo' = ChildrenOf(d)
            /\ leaf = Nobody /\ leaf' = leaf
        BY <2>a, <3>1 DEF BeginRegistration
      <4>3. nodes'[d] = registrations' /\ \A l \in Leaves : nodes'[l] = nodes[l]
        BY <2>a, <2>b, <3>1 DEF BeginRegistration, UA_Server_addNode
      <4>4. \A e \in todo' : d \in Ancestors[e]
        BY <2>b, <4>2, ChildrenAreBelow
      <4> QED BY <2>a, <4>1, <4>2, <4>3, <4>4 DEF RequestBelow, Exists
    <3>2. CASE RefuseRegistration(d)
      BY <2>1, <3>2 DEF registrate, RefuseRegistration, walkVars, Exists
    <3> QED BY <2>1, <3>1, <3>2 DEF registrate
  <2>2. ASSUME NEW d \in Devices, deregistrate(d) PROVE PromptInv'
    <3>1. todo' \subseteq ChildrenOf(d) /\ device' = d /\ task' = "deregister"
      BY <2>2 DEF deregistrate, BeginDeregistration, UA_Server_browse, ChildrenOf
    <3>2. \A e \in todo' : d \in Ancestors[e]
      BY <2>b, <3>1, ChildrenAreBelow
    <3>3. UNCHANGED <<leaf, nodes, call>> /\ leaf = Nobody
      BY <2>2, <2>a DEF deregistrate, BeginDeregistration
    <3> QED BY <3>1, <3>2, <3>3 DEF Exists
  <2>3. ASSUME NEW l \in Leaves, Request(l) PROVE PromptInv'
    <3>1. UNCHANGED <<walkVars, nodes>> /\ nodes[l] # Absent
      BY <2>3 DEF Request, BeginRequest, Exists
    <3>2. call'.leaf = l /\ call'.registration = nodes[l]
      BY <2>3 DEF Request, BeginRequest
    <3>3. device \in Ancestors[l] => nodes[device] = nodes[l]
      BY <2>b, <3>1, NodesAbove DEF TreeInv, Exists
    <3> QED BY <3>1, <3>2, <3>3 DEF walkVars
  <2>4. CASE Registry
    <3>1. UNCHANGED call
      BY <2>4 DEF Registry
    <3>2. ASSUME NEW g \in Groups, VisitGroup(g) PROVE PromptInv'
      <4>1. /\ UNCHANGED <<task, device, leaf, registrations>> /\ g \in todo
            /\ task = "register" /\ leaf = Nobody
        BY <3>2 DEF VisitGroup, IsNext
      <4>2. \A n \in NodeIds : n # g => nodes'[n] = nodes[n]
        BY <2>a, <3>2 DEF VisitGroup, UA_Server_addNode
      <4>3. nodes'[device] = nodes[device]
            /\ (call.phase # "idle" => nodes'[call.leaf] = nodes[call.leaf])
        BY <2>a, <2>b, <4>1, <4>2
      <4>4. \A e \in ChildrenOf(g) : device \in Ancestors[e]
        BY <2>a, <2>b, <4>1, ChildrenAreBelow
      <4>5. todo' \subseteq todo \cup ChildrenOf(g)
        BY <3>2 DEF VisitGroup
      <4> QED BY <3>1, <4>1, <4>3, <4>4, <4>5 DEF Exists
    <3>3. ASSUME NEW l \in Leaves, VisitLeaf(l) PROVE PromptInv'
      BY <3>1, <3>3 DEF VisitLeaf, IsNext, Exists
    <3>4. CASE AddLeafNode
      <4>1. /\ leaf \in Leaves /\ leaf # Nobody /\ task = "register"
            /\ UNCHANGED <<task, device, todo, registrations>>
        BY <2>a, <3>4 DEF AddLeafNode
      <4>2. CASE UA_Server_addNode(leaf, registrations) /\ LeafDone
        <5>1. \A n \in NodeIds : n # leaf => nodes'[n] = nodes[n]
          BY <2>a, <4>2 DEF UA_Server_addNode
        <5>2. call.phase # "idle" => leaf # call.leaf
          BY <4>1, RequestsAreBehind
        <5>3. nodes'[device] = nodes[device]
          BY <2>a, <2>b, <4>1, <5>1
        <5>4. call.phase # "idle" => nodes'[call.leaf] = nodes[call.leaf]
          BY <2>a, <2>b, <5>1, <5>2
        <5> QED BY <3>1, <4>1, <4>2, <5>3, <5>4 DEF LeafDone, Exists
      <4>3. CASE UNCHANGED <<leaf, nodes>>
        BY <3>1, <4>1, <4>3 DEF Exists
      <4> QED BY <3>4, <4>2, <4>3 DEF AddLeafNode
    <3>5. CASE ReadInitialValue \/ AddLeafCallback \/ UndoLeaf
      BY <3>1, <3>5
         DEF ReadInitialValue, AddLeafCallback, UndoLeaf, LeafDone, Exists
    <3>6. CASE AbortRegistration \/ EndRegistration
      BY <3>1, <3>6 DEF AbortRegistration, EndRegistration, GoIdle, Exists
    <3>7. ASSUME NEW l \in Leaves, RemoveDataSource(l) PROVE PromptInv'
      BY <3>1, <3>7 DEF RemoveDataSource, Exists
    <3>8. ASSUME NEW g \in Groups, BrowseGroup(g) PROVE PromptInv'
      <4>1. /\ UNCHANGED <<task, device, leaf, registrations, nodes>> /\ g \in todo
            /\ task = "deregister" /\ todo' \subseteq todo \cup ChildrenOf(g)
        BY <3>8 DEF BrowseGroup, IsNext, UA_Server_browse, ChildrenOf
      <4>2. \A e \in ChildrenOf(g) : device \in Ancestors[e]
        BY <2>a, <2>b, <4>1, ChildrenAreBelow
      <4> QED BY <3>1, <4>1, <4>2 DEF Exists
    <3>9. CASE DeleteDevice
      <4>1. \A n \in NodeIds : nodes'[n] \in {nodes[n], Absent}
        BY <3>9 DEF DeleteDevice, UA_Server_deleteNode
      <4>2. task' = "idle" /\ leaf' = Nobody
        BY <3>9 DEF DeleteDevice, GoIdle
      <4> QED BY <2>a, <2>b, <3>1, <4>1, <4>2 DEF Exists
    <3> QED BY <2>4, <3>2, <3>3, <3>4, <3>5, <3>6, <3>7, <3>8, <3>9
            DEF Registry, RegistryStep
  <2>5. CASE Server
    <3>1. /\ UNCHANGED walkVars /\ call'.leaf = call.leaf
          /\ call'.registration = call.registration
          /\ \A n \in NodeIds : nodes'[n] \in {nodes[n], Absent}
      BY <2>5, ServerOnlyRemoves
    <3>2. call.phase # "idle"
      BY <2>5 DEF Server, ServerStep, FindCallback, InvokeDevice, DeviceThrows,
         DeviceThrowsOther, RemoveFailedCallback, DeleteFailedNode
    <3>3. task = "register" => nodes'[device] = nodes[device]
      BY <2>a, <2>b, <2>5, <3>2, ServerKeepsObjects
    <3> QED BY <2>a, <2>b, <3>1, <3>2, <3>3 DEF walkVars, Exists
  <2>6. CASE UNCHANGED vars
    BY <2>6 DEF vars, walkVars, Exists
  <2> QED BY <2>1, <2>2, <2>3, <2>4, <2>5, <2>6 DEF Next
<1> QED BY <1>1, <1>2, TypeCorrect, TreeStaysConnected, FailedNodesStayAway, PTL
        DEF Spec

-----------------------------------------------------------------------------
(* Why nodes disappear *)

\* The causes RemovedForCause accepts for the node of leaf l.
HasCause(l) ==
  \/ task = "deregister" /\ device \in Ancestors[l]
  \/ /\ call.phase = "deleteNode" /\ call.leaf = l
     /\ call.registration = nodes[l]

(* One step takes the node of a leaf away only for one of the two causes.  *)
LEMMA StepRemovesForCause ==
  ASSUME TypeOK, PromptInv, [Next]_vars,
         NEW l \in Leaves, Exists(l), nodes'[l] = Absent
  PROVE  HasCause(l)
<1>a. l \in NodeIds /\ nodes \in [NodeIds -> Versions] /\ ~ UNCHANGED nodes
  BY DEF NodeIds, TypeOK, UaServerType, Exists
<1>b. ASSUME NEW n \in NodeIds, NEW v \in Versions, v # Absent,
             UA_Server_addNode(n, v)
      PROVE  FALSE
  BY <1>a, <1>b DEF UA_Server_addNode, Exists
<1>c. /\ registrations \in Versions /\ registrations + 1 # Absent
      /\ registrations < MaxRegistrations => registrations + 1 \in Versions
  BY VersionsRange DEF TypeOK, NodeBuilderType
<1>1. ASSUME NEW d \in Devices, registrate(d) PROVE FALSE
  BY <1>a, <1>b, <1>c, <1>1
     DEF registrate, BeginRegistration, RefuseRegistration, NodeIds, Objects
<1>2. CASE DeleteFailedNode
  <2>1. l = call.leaf
    BY <1>a, <1>2, DeleteLeaf
       DEF DeleteFailedNode, TypeOK, RequestHandlersType, Exists
  <2> QED BY <1>2, <2>1 DEF DeleteFailedNode, PromptInv, HasCause
<1>3. CASE DeleteDevice
  <2>1. l \in Subtree(device)
    BY <1>a, <1>3 DEF DeleteDevice, UA_Server_deleteNode, Exists
  <2>2. l # device
    BY <1>3, NobodyIsNoNode, TreeAssumption
       DEF DeleteDevice, TypeOK, NodeBuilderType, Objects
  <2> QED BY <1>3, <2>1, <2>2 DEF DeleteDevice, Subtree, HasCause
<1>4. ASSUME NEW g \in Groups, VisitGroup(g) PROVE FALSE
  <2>1. g \in NodeIds /\ g # l
    BY TreeAssumption DEF NodeIds, Objects
  <2> QED BY <1>a, <1>4, <2>1 DEF VisitGroup, UA_Server_addNode, Exists
<1>5. CASE AddLeafNode
  <2>1. leaf # l
    BY <1>a, <1>5 DEF AddLeafNode, CanAdd
  <2> QED BY <1>a, <1>5, <2>1 DEF AddLeafNode, UA_Server_addNode, Exists
<1> QED BY <1>a, <1>1, <1>2, <1>3, <1>4, <1>5
        DEF Next, vars, Registry, RegistryStep, Server, ServerStep, deregistrate,
            BeginDeregistration, Request, BeginRequest, VisitLeaf, ReadInitialValue,
            AbortRegistration, AddLeafCallback, UndoLeaf, EndRegistration,
            RemoveDataSource, BrowseGroup, FindCallback, InvokeDevice, DeviceThrows,
            DeviceThrowsOther, RemoveFailedCallback

(* A node disappears only when its device is deregistered or when a        *)
(* request on this registration of it failed.                              *)
THEOREM NodesAreRemovedForCause ==
  ASSUME ~ LateRequests
  PROVE  Spec => RemovedForCause
<1>1. TypeOK /\ PromptInv /\ [Next]_vars =>
        \A l \in Leaves : Exists(l) /\ nodes'[l] = Absent => HasCause(l)
  BY StepRemovesForCause
<1>2. TypeOK /\ PromptInv /\ [Next]_vars =>
        [\A l \in Leaves : Exists(l) /\ nodes'[l] = Absent =>
           \/ task = "deregister" /\ device \in Ancestors[l]
           \/ /\ call.phase = "deleteNode" /\ call.leaf = l
              /\ call.registration = nodes[l]]_vars
  BY <1>1 DEF HasCause
<1> QED BY <1>2, TypeCorrect, RequestsArePrompt, PTL DEF Spec, RemovedForCause

-----------------------------------------------------------------------------
(* Nodes have callbacks *)

\* A callback is there before the node is added, and stays while the node does.
ServedNodesInv ==
  /\ task = "register" => registrations # Absent
  /\ PastAdd => HasCallback(leaf)
  /\ NoOrphanNode

(* A request takes away the callback of its own leaf only, and is over when *)
(* the node is gone as well.                                               *)
LEMMA ServerKeepsServed ==
  ASSUME TypeOK, FailureInv, PromptInv, ServedNodesInv, Server
  PROVE  ServedNodesInv'
<1> USE DEF ServedNodesInv, Server, walkVars
<1>a. /\ callbacks_ \in [Leaves -> Versions] /\ nodes \in [NodeIds -> Versions]
      /\ leaf \in Leaves \cup {Nobody} /\ (step = "none" <=> leaf = Nobody)
      /\ call.leaf \in Leaves \cup {Nobody}
      /\ (call.phase # "idle" => call.leaf # Nobody)
      /\ Leaves \subseteq NodeIds
  BY DEF TypeOK, UaServerType, CallbackRepoType, NodeBuilderType,
         RequestHandlersType, NodeIds
<1>b. PastAdd => leaf # Nobody
  BY <1>a DEF PastAdd
<1>1. CASE call.phase \notin {"remove", "deleteNode"} /\ UNCHANGED <<nodes, callbacks_>>
  BY <1>1 DEF NoOrphanNode, Exists, HasCallback, PastAdd, Function
<1>2. CASE RemoveFailedCallback
  <2>1. /\ call'.phase = "deleteNode" /\ call'.leaf = call.leaf
        /\ call.phase = "remove" /\ UNCHANGED nodes
        /\ \A l \in Leaves : l # call.leaf => callbacks_'[l] = callbacks_[l]
    BY <1>a, <1>2 DEF RemoveFailedCallback, RemoveCallback, GoTo, TypeOK,
                      RequestHandlersType
  <2>2. PastAdd => leaf # call.leaf /\ leaf \in Leaves
    BY <1>a, <1>b, <2>1, RequestsAreBehind
  <2>3. NoOrphanNode'
    BY <2>1 DEF NoOrphanNode, Exists, HasCallback
  <2> QED BY <2>1, <2>2, <2>3 DEF PastAdd, Function, HasCallback
<1>3. CASE DeleteFailedNode
  <2>1. /\ call.phase = "deleteNode" /\ UNCHANGED callbacks_
        /\ \A n \in NodeIds : n # call.leaf => nodes'[n] = nodes[n]
    BY <1>3, ServerKeepsObjects DEF DeleteFailedNode
  <2>2. nodes'[call.leaf] = Absent
    BY <1>a, <1>3 DEF DeleteFailedNode, UA_Server_deleteNode, Subtree, Exists
  <2>3. NoOrphanNode'
    BY <1>a, <2>1, <2>2 DEF NoOrphanNode, Exists, HasCallback
  <2> QED BY <2>1, <2>3 DEF PastAdd, Function, HasCallback
<1> QED BY <1>1, <1>2, <1>3
        DEF ServerStep, FindCallback, InvokeDevice, DeviceThrows, DeviceThrowsOther

(* A deregistration leaves no node without a callback behind: a node that  *)
(* lost its callback to it is below the device, and goes with it.          *)
LEMMA DeleteDeviceKeepsServed ==
  ASSUME TypeOK, TreeInv, ServedNodesInv, DeleteDevice, UNCHANGED call
  PROVE  NoOrphanNode'
<1> SUFFICES ASSUME NEW l \in Leaves, Exists(l)', ~ HasCallback(l)'
             PROVE  call.phase = "deleteNode" /\ call.leaf = l
  BY DEF NoOrphanNode
<1>1. /\ l \in NodeIds /\ nodes'[l] = nodes[l] /\ Exists(l) /\ ~ HasCallback(l)
      /\ ~ (Exists(device) /\ l \in Subtree(device))
  BY DEF DeleteDevice, UA_Server_deleteNode, Exists, HasCallback, NodeIds
<1>2. \A a \in Ancestors[l] : Exists(a)
  BY <1>1, NodesAbove DEF TreeInv, Exists
<1>3. device \notin Ancestors[l]
  BY <1>1, <1>2 DEF Subtree
<1> QED BY <1>1, <1>3 DEF ServedNodesInv, NoOrphanNode

(* Every node a client can see has a callback, but for the moment in which *)
(* a failed request or a deregistration takes both away.                   *)
THEOREM NodesHaveCallbacks ==
  ASSUME ~ LateRequests
  PROVE  Spec => []ServedNodesInv
<1>1. Init => ServedNodesInv
  BY DEF Init, UaServerInit, NodeBuilderInit, ServedNodesInv, NoOrphanNode, PastAdd,
         Exists, NodeIds
<1>2. /\ TypeOK /\ TreeInv /\ FailureInv /\ PromptInv /\ ServedNodesInv
      /\ [Next]_vars
      => ServedNodesInv'
  <2> SUFFICES ASSUME TypeOK, TreeInv, FailureInv, PromptInv, ServedNodesInv,
                      [Next]_vars
               PROVE  ServedNodesInv'
    OBVIOUS
  <2> USE DEF ServedNodesInv
  <2>a. /\ nodes \in [NodeIds -> Versions] /\ callbacks_ \in [Leaves -> Versions]
        /\ leaf \in Leaves \cup {Nobody} /\ (step = "none" <=> leaf = Nobody)
        /\ (leaf # Nobody => task = "register") /\ Leaves \subseteq NodeIds
        /\ Leaves \cap Objects = {} /\ Leaves \subseteq Elements
    BY TreeAssumption
       DEF TypeOK, UaServerType, CallbackRepoType, NodeBuilderType, NodeIds, Elements
  <2> DEFINE Same == UNCHANGED <<callbacks_, call>>
                     /\ \A l \in Leaves : nodes'[l] = nodes[l]
  <2>b. Same /\ task # "deregister" => NoOrphanNode'
    BY DEF NoOrphanNode, Exists, HasCallback
  <2>1. ASSUME NEW d \in Devices, registrate(d) PROVE ServedNodesInv'
    <3>1. /\ Same /\ task = "idle" /\ leaf = Nobody /\ UNCHANGED <<leaf, step>>
          /\ task' = "register" => registrations' # Absent
      <4>1. \A l \in Leaves : l # d
        BY <2>a DEF Objects
      <4>2. registrations + 1 # Absent /\ UNCHANGED call
        BY <2>1, VersionsRange DEF TypeOK, NodeBuilderType, registrate
      <4> QED BY <2>a, <2>1, <4>1, <4>2
              DEF registrate, BeginRegistration, RefuseRegistration, walkVars,
                  UA_Server_addNode
    <3> QED BY <2>a, <2>b, <3>1 DEF PastAdd
  <2>2. ASSUME NEW d \in Devices, deregistrate(d) PROVE ServedNodesInv'
    <3>1. Same /\ task = "idle" /\ task' = "deregister" /\ UNCHANGED <<leaf, step>>
      BY <2>2 DEF deregistrate, BeginDeregistration
    <3> QED BY <2>a, <2>b, <3>1 DEF PastAdd
  <2>3. ASSUME NEW l \in Leaves, Request(l) PROVE ServedNodesInv'
    BY <2>3 DEF Request, BeginRequest, walkVars, NoOrphanNode, Exists, HasCallback,
                PastAdd, Function
  <2>4. CASE Registry
    <3>a. UNCHANGED call
      BY <2>4 DEF Registry
    <3>1. ASSUME NEW g \in Groups, VisitGroup(g) PROVE ServedNodesInv'
      <4>1. g \notin Leaves
        BY <2>a DEF Objects
      <4>2. /\ Same /\ task = "register"
            /\ UNCHANGED <<task, leaf, step, registrations>>
        BY <2>a, <3>a, <3>1, <4>1 DEF VisitGroup, UA_Server_addNode
      <4> QED BY <2>b, <4>2 DEF PastAdd, Function, HasCallback
    <3>2. ASSUME NEW l \in Leaves, VisitLeaf(l) PROVE ServedNodesInv'
      BY <2>b, <3>a, <3>2 DEF VisitLeaf, PastAdd, Function
    <3>3. CASE ReadInitialValue
      <4>1. Same /\ UNCHANGED <<task, leaf, registrations>> /\ task = "register"
        BY <2>a, <3>a, <3>3 DEF ReadInitialValue
      <4>2. (PastAdd)' => PastAdd
        BY <3>3 DEF ReadInitialValue, PastAdd, Function
      <4> QED BY <2>b, <4>1, <4>2 DEF HasCallback
    <3>4. CASE AbortRegistration \/ EndRegistration
      <4>1. Same /\ task = "register" /\ task' = "idle" /\ step' = "none"
        BY <2>a, <3>a, <3>4 DEF AbortRegistration, EndRegistration, GoIdle
      <4> QED BY <2>b, <4>1 DEF PastAdd
    <3>5. CASE AddLeafCallback
      <4>1. /\ leaf \in Leaves /\ task = "register" /\ registrations # Absent
            /\ UNCHANGED <<task, leaf, registrations, nodes, call>>
        BY <2>a, <3>a, <3>5 DEF AddLeafCallback
      <4>2. CASE AddCallback(leaf, registrations)
        <5>1. HasCallback(leaf)' /\ \A l \in Leaves : HasCallback(l) => HasCallback(l)'
          BY <2>a, <4>1, <4>2 DEF AddCallback, HasCallback
        <5>2. NoOrphanNode'
          BY <4>1, <5>1 DEF NoOrphanNode, Exists
        <5> QED BY <4>1, <5>1, <5>2 DEF HasCallback
      <4>3. CASE step' = "removeCallback" /\ UNCHANGED callbacks_
        BY <2>b, <4>1, <4>3 DEF PastAdd
      <4> QED BY <3>5, <4>2, <4>3 DEF AddLeafCallback
    <3>6. CASE AddLeafNode
      <4>1. /\ leaf \in Leaves /\ task = "register" /\ HasCallback(leaf)
            /\ UNCHANGED <<task, registrations, callbacks_, call>>
        BY <2>a, <3>a, <3>6 DEF AddLeafNode, PastAdd
      <4>2. \A l \in Leaves : l # leaf => nodes'[l] = nodes[l]
        BY <2>a, <3>6 DEF AddLeafNode, UA_Server_addNode
      <4>3. NoOrphanNode'
        BY <4>1, <4>2 DEF NoOrphanNode, Exists, HasCallback
      <4> QED BY <3>6, <4>1, <4>3 DEF AddLeafNode, LeafDone, PastAdd
    <3>7. CASE UndoLeaf
      <4>1. leaf \in Leaves /\ leaf # Nobody /\ task = "register"
        BY <2>a, <3>7 DEF UndoLeaf
      <4>2. ~ Exists(leaf)
        BY <2>a, <4>1 DEF TreeInv, TreeConnected, FailureInv, WalkInv, Behind
      <4>3. /\ UNCHANGED <<task, registrations, nodes, call>> /\ step' = "none"
            /\ \A l \in Leaves : l # leaf => callbacks_'[l] = callbacks_[l]
        BY <2>a, <3>a, <3>7 DEF UndoLeaf, LeafDone, RemoveCallback
      <4>4. NoOrphanNode'
        BY <4>1, <4>2, <4>3 DEF NoOrphanNode, Exists, HasCallback
      <4> QED BY <4>3, <4>4 DEF PastAdd
    <3>8. ASSUME NEW l \in Leaves, RemoveDataSource(l) PROVE ServedNodesInv'
      <4>1. /\ UNCHANGED <<task, device, leaf, step, nodes, call>>
            /\ task = "deregister" /\ device \in Ancestors[l]
            /\ \A k \in Leaves : k # l => callbacks_'[k] = callbacks_[k]
        BY <2>a, <3>a, <3>8 DEF RemoveDataSource, RemoveCallback, IsNext, PromptInv
      <4>2. NoOrphanNode'
        BY <4>1 DEF NoOrphanNode, Exists, HasCallback
      <4> QED BY <2>a, <4>1, <4>2 DEF PastAdd
    <3>9. ASSUME NEW g \in Groups, BrowseGroup(g) PROVE ServedNodesInv'
      BY <2>a, <3>a, <3>9
         DEF BrowseGroup, PastAdd, NoOrphanNode, Exists, HasCallback
    <3>10. CASE DeleteDevice
      <4>1. NoOrphanNode'
        BY <3>a, <3>10, DeleteDeviceKeepsServed
      <4> QED BY <3>10, <4>1 DEF DeleteDevice, GoIdle, PastAdd
    <3> QED BY <2>4, <3>1, <3>2, <3>3, <3>4, <3>5, <3>6, <3>7, <3>8, <3>9, <3>10
            DEF Registry, RegistryStep
  <2>5. CASE Server
    BY <2>5, ServerKeepsServed
  <2>6. CASE UNCHANGED vars
    BY <2>6 DEF vars, walkVars, NoOrphanNode, Exists, HasCallback, PastAdd, Function
  <2> QED BY <2>1, <2>2, <2>3, <2>4, <2>5, <2>6 DEF Next
<1> QED BY <1>1, <1>2, TypeCorrect, TreeStaysConnected, FailedNodesStayAway,
           RequestsArePrompt, PTL DEF Spec

(* The property of the runs.                                               *)
THEOREM NodesAreServed ==
  ASSUME ~ LateRequests
  PROVE  Spec => []NoOrphanNode
<1>1. ServedNodesInv => NoOrphanNode
  BY DEF ServedNodesInv
<1> QED BY <1>1, NodesHaveCallbacks, PTL

-----------------------------------------------------------------------------
(* What holds when, besides, devices answer the reads of their             *)
(* registration: the callback repository keeps nothing that the server     *)
(* does not show.                                                          *)

\* A callback without a node is that of the leaf being added.  A request that
\* removed a callback finds none when it removes the node, and what a
\* deregistration has yet to remove is still ahead of its walk.
CalmInv ==
  /\ \A l \in Leaves : HasCallback(l) =>
       Exists(l) \/ (leaf = l /\ (PastAdd \/ step = "removeCallback"))
  /\ call.phase = "deleteNode" => ~ HasCallback(call.leaf)
  /\ task = "deregister" =>
       \A l \in Leaves : device \in Ancestors[l] /\ HasCallback(l) =>
         l \in todo \/ Ancestors[l] \cap todo # {}

(* Whatever exists below an object is reached by browsing the object: it,  *)
(* or something above it, is in the result.                                *)
LEMMA BrowseReaches ==
  ASSUME TypeOK, TreeConnected, NEW l \in Leaves, Exists(l), NEW o \in Ancestors[l]
  PROVE  l \in UA_Server_browse(o) \/ Ancestors[l] \cap UA_Server_browse(o) # {}
<1>1. l \in Elements /\ l \in NodeIds
  BY DEF Elements, NodeIds
<1>2. \A a \in Ancestors[l] : Exists(a)
  BY <1>1, NodesAbove DEF Exists
<1> QED BY <1>1, <1>2, AncestorsHaveChildren DEF UA_Server_browse, ChildrenOf

(* The leaf being added has no node yet, since the walk visits it once.    *)
LEMMA LeafIsNew ==
  ASSUME TypeOK, TreeInv, FailureInv, leaf # Nobody
  PROVE  leaf \in Leaves /\ ~ Exists(leaf)
<1>1. leaf \in Leaves /\ leaf \in Elements /\ task = "register"
  BY DEF TypeOK, NodeBuilderType, Elements
<1>2. nodes[leaf] # registrations
  BY <1>1 DEF FailureInv, WalkInv, Behind
<1> QED BY <1>1, <1>2 DEF TreeInv, TreeConnected

(* A server step takes away a callback before the node, and only its own.  *)
LEMMA ServerKeepsCalm ==
  ASSUME TypeOK, CalmInv, Server
  PROVE  CalmInv'
<1> USE DEF CalmInv, HasCallback
<1>a. /\ UNCHANGED walkVars /\ call'.leaf = call.leaf
      /\ \A l \in Leaves : callbacks_'[l] \in {callbacks_[l], Absent}
  BY ServerOnlyRemoves
<1>b. (PastAdd)' <=> PastAdd
  BY <1>a DEF walkVars, PastAdd, Function
<1>c. /\ call.leaf \in Leaves \cup {Nobody} /\ (call.phase # "idle" => call.leaf # Nobody)
      /\ callbacks_ \in [Leaves -> Versions] /\ Leaves \subseteq NodeIds
  BY DEF TypeOK, RequestHandlersType, CallbackRepoType, NodeIds
<1>1. CASE DeleteFailedNode
  <2>1. /\ call.phase = "deleteNode" /\ UNCHANGED callbacks_
        /\ \A n \in NodeIds : n # call.leaf => nodes'[n] = nodes[n]
        /\ call'.phase = "idle"
    BY <1>1, ServerKeepsObjects
       DEF DeleteFailedNode, Answer, TypeOK, RequestHandlersType
  <2> QED BY <1>a, <1>b, <1>c, <2>1 DEF walkVars, Exists
<1>2. CASE RemoveFailedCallback
  <2>1. ~ HasCallback(call.leaf)' /\ UNCHANGED nodes
    BY <1>a, <1>c, <1>2 DEF RemoveFailedCallback, RemoveCallback
  <2> QED BY <1>a, <1>b, <2>1 DEF walkVars, Exists
<1>3. CASE UNCHANGED <<nodes, callbacks_>> /\ call'.phase # "deleteNode"
  BY <1>a, <1>b, <1>3 DEF walkVars, Exists
<1>4. CASE FindCallback \/ InvokeDevice \/ DeviceThrows \/ DeviceThrowsOther
  <2>1. call'.phase # "deleteNode"
    BY <1>4 DEF FindCallback, InvokeDevice, DeviceThrows, DeviceThrowsOther, Answer,
                GoTo, TypeOK, RequestHandlersType
  <2> QED BY <1>3, <1>4, <2>1
          DEF FindCallback, InvokeDevice, DeviceThrows, DeviceThrowsOther
<1> QED BY <1>1, <1>2, <1>4 DEF Server, ServerStep

(* While requests are prompt and devices answer, a callback has a node or  *)
(* belongs to the leaf in hand.                                            *)
THEOREM RepositoryIsCalm ==
  ASSUME ~ LateRequests, "exception" \notin RegistrationReads
  PROVE  Spec => []CalmInv
<1>1. Init => CalmInv
  BY DEF Init, CallbackRepoInit, NodeBuilderInit, RequestHandlersInit, CalmInv,
         HasCallback
<1>2. TypeOK /\ TreeInv /\ FailureInv /\ PromptInv /\ CalmInv /\ [Next]_vars
      => CalmInv'
  <2> SUFFICES ASSUME TypeOK, TreeInv, FailureInv, PromptInv, CalmInv, [Next]_vars
               PROVE  CalmInv'
    OBVIOUS
  <2> USE DEF CalmInv, HasCallback
  <2>a. /\ callbacks_ \in [Leaves -> Versions] /\ nodes \in [NodeIds -> Versions]
        /\ leaf \in Leaves \cup {Nobody} /\ (step = "none" <=> leaf = Nobody)
        /\ (leaf # Nobody => task = "register")
        /\ (task = "idle" <=> device = Nobody) /\ device \in Devices \cup {Nobody}
        /\ call.leaf \in Leaves \cup {Nobody}
        /\ (call.phase # "idle" => call.leaf # Nobody)
        /\ Leaves \subseteq NodeIds /\ Nobody \notin Leaves
    BY NobodyIsNoNode DEF TypeOK, UaServerType, CallbackRepoType, NodeBuilderType,
         RequestHandlersType, NodeIds
  <2>b. /\ Leaves \cap Objects = {} /\ Devices \subseteq Objects
        /\ Groups \subseteq Objects
        /\ \A l \in Leaves : Ancestors[l] \subseteq Objects
    BY <2>a, TreeAssumption DEF Objects, Ancestors
  <2>1. ASSUME NEW d \in Devices, registrate(d) PROVE CalmInv'
    <3>1. CASE BeginRegistration(d)
      <4>1. leaf = Nobody /\ task' = "register" /\ UNCHANGED <<call, callbacks_, leaf, step>>
        BY <2>1, <2>a, <3>1 DEF registrate, BeginRegistration
      <4>2. \A l \in Leaves : nodes'[l] = nodes[l]
        BY <2>a, <2>b, <3>1 DEF BeginRegistration, UA_Server_addNode
      <4> QED BY <2>a, <4>1, <4>2 DEF Exists
    <3>2. CASE RefuseRegistration(d)
      BY <2>1, <3>2
         DEF registrate, RefuseRegistration, walkVars, Exists, PastAdd, Function
    <3> QED BY <2>1, <3>1, <3>2 DEF registrate
  <2>2. ASSUME NEW d \in Devices, deregistrate(d) PROVE CalmInv'
    <3>1. /\ leaf = Nobody /\ device' = d /\ todo' = UA_Server_browse(d)
          /\ UNCHANGED <<nodes, callbacks_, call, leaf, step, registrations>>
      BY <2>2, <2>a DEF deregistrate, BeginDeregistration
    <3>2. \A l \in Leaves : d \in Ancestors[l] /\ HasCallback(l) =>
            l \in todo' \/ Ancestors[l] \cap todo' # {}
      BY <2>a, <3>1, BrowseReaches DEF TreeInv
    <3> QED BY <2>a, <3>1, <3>2 DEF Exists, PastAdd, Function
  <2>3. ASSUME NEW l \in Leaves, Request(l) PROVE CalmInv'
    BY <2>3 DEF Request, BeginRequest, walkVars, Exists, PastAdd, Function
  <2>4. CASE Registry
    <3>a. UNCHANGED call
      BY <2>4 DEF Registry
    <3>1. ASSUME NEW g \in Groups, VisitGroup(g) PROVE CalmInv'
      <4>1. /\ task = "register" /\ leaf = Nobody
            /\ UNCHANGED <<task, leaf, step, callbacks_>>
        BY <3>1 DEF VisitGroup
      <4>2. \A l \in Leaves : nodes'[l] = nodes[l]
        BY <2>a, <2>b, <3>1 DEF VisitGroup, UA_Server_addNode
      <4> QED BY <2>a, <3>a, <4>1, <4>2 DEF Exists
    <3>2. ASSUME NEW l \in Leaves, VisitLeaf(l) PROVE CalmInv'
      BY <2>a, <3>a, <3>2 DEF VisitLeaf, Exists
    <3>3. CASE ReadInitialValue
      BY <2>a, <3>a, <3>3 DEF ReadInitialValue, Exists, PastAdd, Function
    <3>4. CASE AbortRegistration
      BY <3>4 DEF AbortRegistration
    <3>5. CASE EndRegistration
      BY <2>a, <3>a, <3>5 DEF EndRegistration, GoIdle, Exists
    <3>6. CASE AddLeafCallback
      <4>1. /\ leaf \in Leaves /\ ~ Exists(leaf) /\ task = "register"
            /\ UNCHANGED <<task, leaf, nodes, registrations>>
        BY <2>a, <3>6, LeafIsNew DEF AddLeafCallback
      <4>2. ~ HasCallback(leaf)
        BY <3>6, <4>1 DEF AddLeafCallback, PastAdd
      <4>3. (PastAdd)' /\ \A l \in Leaves : l # leaf => callbacks_'[l] = callbacks_[l]
        BY <2>a, <3>6, <4>1, <4>2
           DEF AddLeafCallback, AddCallback, AfterAdd, PastAdd, Function
      <4>4. call.phase # "idle" => leaf # call.leaf
        BY <2>a, <4>1, RequestsAreBehind
      <4> QED BY <2>a, <3>a, <4>1, <4>3, <4>4 DEF Exists
    <3>7. CASE AddLeafNode
      <4>1. /\ leaf \in Leaves /\ task = "register"
            /\ UNCHANGED <<task, registrations, callbacks_>>
        BY <2>a, <3>7 DEF AddLeafNode
      <4>2. CASE UA_Server_addNode(leaf, registrations) /\ CanAdd(leaf)
        <5>1. registrations # Absent
          BY <2>a, <4>1, <4>2 DEF CanAdd, Exists, TreeInv, Elements
        <5>2. nodes'[leaf] # Absent /\ \A l \in Leaves : l # leaf => nodes'[l] = nodes[l]
          BY <2>a, <4>1, <4>2, <5>1 DEF UA_Server_addNode
        <5> QED BY <2>a, <3>a, <4>1, <5>2 DEF Exists
      <4>3. CASE step' = "removeCallback" /\ UNCHANGED <<leaf, nodes>>
        BY <2>a, <3>a, <4>1, <4>3 DEF Exists
      <4> QED BY <3>7, <4>2, <4>3 DEF AddLeafNode
    <3>8. CASE UndoLeaf
      <4>1. /\ leaf \in Leaves /\ task = "register" /\ UNCHANGED <<task, nodes>>
            /\ callbacks_'[leaf] = Absent
            /\ \A l \in Leaves : l # leaf => callbacks_'[l] = callbacks_[l]
        BY <2>a, <3>8 DEF UndoLeaf, RemoveCallback
      <4> QED BY <2>a, <3>a, <4>1 DEF Exists
    <3>9. ASSUME NEW k \in Leaves, RemoveDataSource(k) PROVE CalmInv'
      <4>1. /\ task = "deregister" /\ leaf = Nobody /\ todo' = todo \ {k}
            /\ UNCHANGED <<task, device, leaf, step, registrations, nodes>>
            /\ callbacks_'[k] = Absent
            /\ \A l \in Leaves : l # k => callbacks_'[l] = callbacks_[l]
        BY <2>a, <3>9 DEF RemoveDataSource, RemoveCallback
      <4>2. \A l \in Leaves : k \notin Ancestors[l]
        BY <2>b
      <4> QED BY <2>a, <3>a, <4>1, <4>2 DEF Exists
    <3>10. ASSUME NEW g \in Groups, BrowseGroup(g) PROVE CalmInv'
      <4>1. /\ task = "deregister" /\ leaf = Nobody
            /\ todo' = (todo \ {g}) \cup UA_Server_browse(g)
            /\ UNCHANGED <<task, device, leaf, step, registrations, nodes, callbacks_>>
        BY <2>a, <3>10 DEF BrowseGroup
      <4>2. ASSUME NEW l \in Leaves, HasCallback(l), g \in Ancestors[l]
            PROVE  l \in todo' \/ Ancestors[l] \cap todo' # {}
        BY <2>a, <4>1, <4>2, BrowseReaches DEF TreeInv
      <4>3. \A l \in Leaves : l # g
        BY <2>b
      <4> QED BY <2>a, <3>a, <4>1, <4>2, <4>3 DEF Exists
    <3>11. CASE DeleteDevice
      <4>1. /\ task = "deregister" /\ todo = {} /\ UNCHANGED callbacks_
            /\ task' = "idle" /\ leaf' = Nobody /\ leaf = Nobody /\ device \in Objects
        BY <2>a, <2>b, <3>11 DEF DeleteDevice, GoIdle
      <4>2. ASSUME NEW l \in Leaves, HasCallback(l) PROVE nodes'[l] = nodes[l]
        <5>1. device \notin Ancestors[l] /\ l # device
          BY <2>b, <4>1, <4>2
        <5> QED BY <2>a, <3>11, <5>1 DEF DeleteDevice, UA_Server_deleteNode, Subtree
      <4> QED BY <2>a, <3>a, <4>1, <4>2 DEF Exists
    <3> QED BY <2>4, <3>1, <3>2, <3>3, <3>4, <3>5, <3>6, <3>7, <3>8, <3>9, <3>10,
               <3>11 DEF Registry, RegistryStep
  <2>5. CASE Server
    BY <2>5, ServerKeepsCalm
  <2>6. CASE UNCHANGED vars
    BY <2>6 DEF vars, walkVars, Exists, PastAdd, Function
  <2> QED BY <2>1, <2>2, <2>3, <2>4, <2>5, <2>6 DEF Next
<1> QED BY <1>1, <1>2, TypeCorrect, TreeStaysConnected, FailedNodesStayAway,
           RequestsArePrompt, PTL DEF Spec

(* The property of the runs.                                               *)
THEOREM CallbacksHaveNodes ==
  ASSUME ~ LateRequests, "exception" \notin RegistrationReads
  PROVE  Spec => []NoOrphanCallback
<1>1. CalmInv => NoOrphanCallback
  BY DEF CalmInv, NoOrphanCallback, PastAdd
<1> QED BY <1>1, RepositoryIsCalm, PTL

-----------------------------------------------------------------------------
(* What a deregistration leaves behind *)

(* When deleteDeviceNode returns, neither a node nor a callback of its     *)
(* device is left, however many devices failed while it ran.               *)
THEOREM DeregistrationsClear ==
  ASSUME ~ LateRequests, "exception" \notin RegistrationReads
  PROVE  Spec => DeregistrationClears
<1> DEFINE Cleared ==
      \A e \in Elements : device \in Ancestors[e] =>
        nodes'[e] = Absent /\ (e \in Leaves => callbacks_'[e] = Absent)
<1>1. /\ TypeOK /\ TreeInv /\ CalmInv /\ [Next]_vars
      /\ task = "deregister" /\ task' = "idle"
      => Cleared
  <2> SUFFICES ASSUME TypeOK, TreeInv, CalmInv, [Next]_vars,
                      task = "deregister", task' = "idle"
               PROVE  Cleared
    OBVIOUS
  <2>1. DeleteDevice
    <3>1. step # "read"
      BY DEF TypeOK, NodeBuilderType
    <3> QED BY <3>1
        DEF Next, vars, walkVars, registrate, BeginRegistration, RefuseRegistration,
            deregistrate, BeginDeregistration, Request, Server, Registry,
            RegistryStep, VisitGroup, VisitLeaf, ReadInitialValue,
            AbortRegistration, AddLeafCallback, AddLeafNode, UndoLeaf,
            EndRegistration, RemoveDataSource, BrowseGroup
  <2>2. todo = {} /\ UNCHANGED callbacks_
    BY <2>1 DEF DeleteDevice
  <2> SUFFICES ASSUME NEW e \in Elements, device \in Ancestors[e]
               PROVE  nodes'[e] = Absent /\ (e \in Leaves => callbacks_'[e] = Absent)
    OBVIOUS
  <2>3. e \in NodeIds
    BY DEF NodeIds, Elements, Objects
  <2>4. Exists(e) => Exists(device) /\ e \in Subtree(device)
    BY <2>3, NodesAbove DEF TreeInv, Exists, Subtree
  <2>5. nodes'[e] = Absent
    BY <2>1, <2>3, <2>4 DEF DeleteDevice, UA_Server_deleteNode, Exists
  <2>6. e \in Leaves => callbacks_'[e] = Absent
    BY <2>2 DEF CalmInv, HasCallback
  <2> QED BY <2>5, <2>6
<1>2. TypeOK /\ TreeInv /\ CalmInv /\ [Next]_vars =>
        [task = "deregister" /\ task' = "idle" => Cleared]_vars
  BY <1>1
<1> QED BY <1>2, TypeCorrect, TreeStaysConnected, RepositoryIsCalm, PTL
        DEF Spec, DeregistrationClears
=============================================================================
