---------------------------- MODULE RequestSafety ----------------------------
(***************************************************************************)
(* What a client's request may rely on in AddressSpace, also when its      *)
(* device is removed and registered again while the request is answered.   *)
(***************************************************************************)
EXTENDS AddressSpaceProofs

-----------------------------------------------------------------------------
(* The device object that serves a request *)

\* Between the server's lookup and find() the callback can only be renewed.
ServedInv ==
  /\ call.registration <= registrations
  /\ call.phase = "find" =>
       /\ call.wrapper = Absent
       /\ HasCallback(call.leaf) => callbacks_[call.leaf] >= call.registration
  /\ NeverServedByOlderDevice

(* A request is never served by a device object of an earlier registration *)
(* than the node the client addressed.                                     *)
THEOREM ServedByNoOlderDevice == Spec => []ServedInv
<1>1. Init => ServedInv
  BY DEF Init, NodeBuilderInit, RequestHandlersInit, ServedInv,
         NeverServedByOlderDevice, Absent
<1>2. TypeOK /\ AgreementInv /\ ServedInv /\ [Next]_vars => ServedInv'
  <2> SUFFICES ASSUME TypeOK, AgreementInv, ServedInv, [Next]_vars
               PROVE  ServedInv'
    OBVIOUS
  <2> USE DEF ServedInv, NeverServedByOlderDevice
  <2>a. /\ registrations \in Nat /\ nodes \in [NodeIds -> Versions]
        /\ callbacks_ \in [Leaves -> Versions]
        /\ call.registration \in Nat /\ call.wrapper \in Nat
        /\ Absent = 0 /\ Versions \subseteq Nat /\ Leaves \subseteq NodeIds
        /\ call.phase # "idle" => call.leaf \in Leaves
    BY VersionsRange DEF TypeOK, UaServerType, CallbackRepoType, NodeBuilderType,
                         RequestHandlersType, NodeIds
  <2>b. ASSUME UNCHANGED call, registrations' \in {registrations, registrations + 1},
               \A l \in Leaves :
                 callbacks_'[l] \in {callbacks_[l], Absent, registrations}
        PROVE  ServedInv'
    BY <2>a, <2>b DEF HasCallback
  <2>1. ASSUME NEW d \in Devices, registrate(d) PROVE ServedInv'
    BY <2>b, <2>1 DEF registrate, BeginRegistration, RefuseRegistration, walkVars
  <2>2. ASSUME NEW d \in Devices, deregistrate(d) PROVE ServedInv'
    BY <2>b, <2>2 DEF deregistrate, BeginDeregistration
  <2>3. ASSUME NEW l \in Leaves, Request(l) PROVE ServedInv'
    <3>1. PICK service \in Services : BeginRequest(l, service)
      BY <2>3 DEF Request
    <3>2. nodes[l] <= registrations /\ nodes[l] \in Nat
      BY <2>a DEF AgreementInv
    <3>3. HasCallback(l) => callbacks_[l] = nodes[l]
      BY <3>1 DEF BeginRequest, AgreementInv, SameRegistration
    <3>4. call' = [phase |-> "find", leaf |-> l, service |-> service,
                   registration |-> nodes[l], wrapper |-> Absent,
                   answer |-> "none"]
      BY <3>1 DEF BeginRequest
    <3>5. UNCHANGED <<callbacks_, registrations>>
      BY <2>3, <3>1 DEF Request, BeginRequest, walkVars
    <3> QED BY <3>2, <3>3, <3>4, <3>5 DEF HasCallback
  <2>4. CASE Registry
    <3>1. registrations' = registrations /\ UNCHANGED call
      BY <2>4 DEF Registry, RegistryStep, VisitGroup, VisitLeaf, ReadInitialValue,
                  AbortRegistration, AddLeafCallback, AddLeafNode, UndoLeaf,
                  EndRegistration, RemoveDataSource, BrowseGroup, DeleteDevice
    <3>2. \A l \in Leaves : callbacks_'[l] \in {callbacks_[l], Absent, registrations}
      <4> USE <2>a
      <4>1. CASE AddLeafCallback
        BY <4>1 DEF AddLeafCallback, AddCallback
      <4>2. CASE UndoLeaf
        BY <4>2 DEF UndoLeaf, RemoveCallback
      <4>3. ASSUME NEW l \in Leaves, RemoveDataSource(l)
            PROVE  \A k \in Leaves : callbacks_'[k] \in {callbacks_[k], Absent}
        BY <4>3 DEF RemoveDataSource, RemoveCallback
      <4>4. CASE UNCHANGED callbacks_
        BY <4>4
      <4> QED BY <2>4, <4>1, <4>2, <4>3, <4>4
              DEF Registry, RegistryStep, VisitGroup, VisitLeaf, ReadInitialValue,
                  AbortRegistration, AddLeafNode, EndRegistration, BrowseGroup,
                  DeleteDevice
    <3> QED BY <2>b, <3>1, <3>2
  <2>5. CASE Server
    <3>1. registrations' = registrations /\ call'.registration = call.registration
          /\ call'.leaf = call.leaf
      BY <2>5, ServerOnlyRemoves DEF walkVars
    <3>2. CASE FindCallback
      <4>1. callbacks_[call.leaf] \in Nat
        BY <2>a, <3>2 DEF FindCallback
      <4>2. call'.phase # "find"
        BY <3>2 DEF FindCallback, Answer, TypeOK, RequestHandlersType
      <4>3. call'.wrapper = Absent \/ call'.wrapper = callbacks_[call.leaf]
        BY <3>2 DEF FindCallback, Answer, TypeOK, RequestHandlersType
      <4>4. HasCallback(call.leaf) => callbacks_[call.leaf] >= call.registration
        BY <3>2 DEF FindCallback
      <4> QED BY <2>a, <3>1, <4>1, <4>2, <4>3, <4>4 DEF HasCallback
    <3>3. CASE call.phase # "find" /\ ServerStep /\ ~ FindCallback
      <4>1. call'.phase # "find" /\ call'.wrapper = call.wrapper
        BY <3>3 DEF ServerStep, InvokeDevice, DeviceThrows, DeviceThrowsOther,
                    RemoveFailedCallback, DeleteFailedNode, Answer, GoTo, TypeOK,
                    RequestHandlersType
      <4> QED BY <3>1, <4>1
    <3> QED BY <2>5, <3>2, <3>3
            DEF Server, ServerStep, InvokeDevice, DeviceThrows, DeviceThrowsOther,
                RemoveFailedCallback, DeleteFailedNode
  <2>6. CASE UNCHANGED vars
    BY <2>b, <2>6 DEF vars, walkVars
  <2> QED BY <2>1, <2>2, <2>3, <2>4, <2>5, <2>6 DEF Next
<1> QED BY <1>1, <1>2, TypeCorrect, StoresAgree, PTL DEF Spec

(* The same as a property of the request alone.                            *)
THEOREM RequestsAreServedAfresh == Spec => []NeverServedByOlderDevice
<1>1. ServedInv => NeverServedByOlderDevice
  BY DEF ServedInv
<1> QED BY <1>1, ServedByNoOlderDevice, PTL

-----------------------------------------------------------------------------
(* A failed node does not come back *)

\* The walk of addDeviceNode has passed l and will not come to it again.
Behind(l) == leaf # l /\ l \notin todo /\ (Ancestors[l] \cap todo) = {}

\* The elements to visit are no ancestors of each other, and neither a leaf
\* with a node nor one whose node a request failed on is ahead of the walk.
WalkInv ==
  task = "register" =>
    /\ \A e \in todo : Ancestors[e] \cap todo = {}
    /\ leaf # Nobody => leaf \notin todo /\ Ancestors[leaf] \cap todo = {}
    /\ \A l \in Leaves : nodes[l] = registrations => Behind(l)
    /\ call.leaf # Nobody /\ call.registration = registrations => Behind(call.leaf)

FailureInv ==
  /\ WalkInv
  /\ call.leaf # Nobody => call.registration # Absent
  /\ call.leaf = Nobody => call.answer = "none"
  /\ FailedNodeGone

(* Descending into a group leaves behind what was behind.                  *)
LEMMA DescendKeepsBehind ==
  ASSUME NEW l \in Leaves, NEW g \in Groups, g \in todo, Behind(l),
         leaf' = leaf, todo' = (todo \ {g}) \cup ChildrenOf(g)
  PROVE  Behind(l)'
<1>1. l \in NodeIds /\ g \in Objects /\ l \in Elements
  BY DEF NodeIds, Objects, Elements
<1>2. g \notin Ancestors[l]
  BY DEF Behind
<1>3. l \notin ChildrenOf(g)
  BY <1>1, <1>2, AncestorsStep DEF ChildrenOf
<1>4. Ancestors[l] \cap ChildrenOf(g) = {}
  BY <1>1, <1>2, AboveChild
<1> QED BY <1>3, <1>4 DEF Behind

(* Once a request was answered BADINTERNALERROR its node is gone for good: *)
(* no step of the registration under way puts it back.                     *)
THEOREM FailedNodesStayAway == Spec => []FailureInv
<1>1. Init => FailureInv
  BY DEF Init, NodeBuilderInit, RequestHandlersInit, FailureInv, WalkInv,
         FailedNodeGone
<1>2. /\ TypeOK /\ AgreementInv /\ ServedInv /\ FailureInv /\ [Next]_vars
      => FailureInv'
  <2> SUFFICES ASSUME TypeOK, AgreementInv, ServedInv, FailureInv, [Next]_vars
               PROVE  FailureInv'
    OBVIOUS
  <2> USE DEF FailureInv
  <2>a. /\ registrations \in Nat /\ nodes \in [NodeIds -> Versions]
        /\ todo \subseteq Elements /\ leaf \in Leaves \cup {Nobody}
        /\ call.registration \in Nat /\ call.leaf \in Leaves \cup {Nobody}
        /\ Absent = 0 /\ Versions \subseteq Nat
        /\ (call.phase # "idle" => call.leaf # Nobody)
        /\ (leaf # Nobody => task = "register") /\ (step = "none" <=> leaf = Nobody)
    BY VersionsRange DEF TypeOK, UaServerType, NodeBuilderType, RequestHandlersType
  <2>b. /\ Leaves \subseteq NodeIds /\ Leaves \subseteq Elements
        /\ Leaves \cap Objects = {} /\ Nobody \notin Leaves
        /\ Groups \subseteq Objects
    BY NobodyIsNoNode, TreeAssumption DEF NodeIds, Elements, Objects
  <2>c. \A n \in NodeIds : nodes[n] \in Nat /\ nodes[n] <= registrations
    BY <2>a DEF AgreementInv
  <2>d. call.registration <= registrations
    BY DEF ServedInv
  <2>1. ASSUME NEW d \in Devices, registrate(d) PROVE FailureInv'
    <3>1. CASE BeginRegistration(d)
      <4>1. /\ d \in NodeIds /\ d \notin Leaves /\ Ancestors[d] = {}
            /\ d \notin Elements /\ d \in Objects
        BY <2>b, DevicesOnTop DEF Objects
      <4>2. UNCHANGED <<call, leaf>> /\ leaf = Nobody
        BY <2>1, <2>a, <3>1 DEF registrate, BeginRegistration
      <4>3. registrations' = registrations + 1 /\ todo' = ChildrenOf(d)
        BY <3>1 DEF BeginRegistration
      <4>4. \A l \in Leaves : nodes'[l] = nodes[l]
        BY <2>a, <2>b, <3>1, <4>1 DEF BeginRegistration, UA_Server_addNode
      <4>5. \A l \in Leaves : nodes'[l] # registrations'
        BY <2>a, <2>b, <2>c, <4>3, <4>4
      <4>6. call'.registration # registrations'
        BY <2>a, <2>d, <4>2, <4>3
      <4>7. ASSUME NEW e \in todo' PROVE Ancestors[e] \cap todo' = {}
        <5>1. Ancestors[e] = {d}
          BY <4>1, <4>3, AncestorsStep DEF ChildrenOf
        <5> QED BY <4>1, <4>3, <5>1 DEF ChildrenOf
      <4>8. FailedNodeGone'
        BY <2>a, <4>2, <4>4 DEF FailedNodeGone
      <4> QED BY <4>2, <4>5, <4>6, <4>7, <4>8 DEF WalkInv
    <3>2. CASE RefuseRegistration(d)
      BY <2>1, <3>2
         DEF registrate, RefuseRegistration, walkVars, WalkInv, Behind, FailedNodeGone
    <3> QED BY <2>1, <3>1, <3>2 DEF registrate
  <2>2. ASSUME NEW d \in Devices, deregistrate(d) PROVE FailureInv'
    BY <2>2 DEF deregistrate, BeginDeregistration, WalkInv, FailedNodeGone
  <2>3. ASSUME NEW l \in Leaves, Request(l) PROVE FailureInv'
    <3>1. PICK service \in Services : BeginRequest(l, service)
      BY <2>3 DEF Request
    <3>2. UNCHANGED <<walkVars, nodes>> /\ nodes[l] # Absent
      BY <2>3, <3>1 DEF Request, BeginRequest, Exists
    <3>3. call' = [phase |-> "find", leaf |-> l, service |-> service,
                   registration |-> nodes[l], wrapper |-> Absent,
                   answer |-> "none"]
      BY <3>1 DEF BeginRequest
    <3> QED BY <2>b, <3>2, <3>3 DEF walkVars, WalkInv, Behind, FailedNodeGone
  <2>4. CASE Registry
    <3>1. UNCHANGED call
      BY <2>4 DEF Registry
    <3>2. ASSUME NEW g \in Groups, VisitGroup(g) PROVE FailureInv'
      <4>1. UNCHANGED <<task, leaf, registrations>> /\ g \in todo /\ leaf = Nobody
            /\ task = "register"
        BY <3>2 DEF VisitGroup, IsNext
      <4>2. \A l \in Leaves : nodes'[l] = nodes[l]
        BY <2>a, <2>b, <3>2 DEF VisitGroup, UA_Server_addNode
      <4>3. FailedNodeGone'
        BY <2>a, <3>1, <4>2 DEF FailedNodeGone
      <4>4. CASE todo' = (todo \ {g}) \cup ChildrenOf(g)
        <5>1. \A l \in Leaves : Behind(l) => Behind(l)'
          BY <4>1, <4>4, DescendKeepsBehind
        <5>2. \A e \in todo' : Ancestors[e] \cap todo' = {}
          BY <2>a, <4>1, <4>4, DescendKeepsApart DEF WalkInv
        <5> QED BY <2>a, <3>1, <4>1, <4>2, <4>3, <5>1, <5>2 DEF WalkInv
      <4>5. CASE todo' = todo \ {g}
        BY <2>a, <3>1, <4>1, <4>2, <4>3, <4>5 DEF WalkInv, Behind
      <4> QED BY <3>2, <4>4, <4>5 DEF VisitGroup
    <3>3. ASSUME NEW l \in Leaves, VisitLeaf(l) PROVE FailureInv'
      <4>1. /\ UNCHANGED <<task, nodes, registrations>> /\ l \in todo
            /\ leaf' = l /\ todo' = todo \ {l} /\ task = "register"
        BY <3>3 DEF VisitLeaf, IsNext
      <4>2. \A k \in Leaves : Behind(k) => Behind(k)'
        BY <4>1 DEF Behind
      <4>3. Ancestors[l] \cap todo = {}
        BY <4>1 DEF WalkInv
      <4> QED BY <2>a, <3>1, <4>1, <4>2, <4>3 DEF WalkInv, FailedNodeGone
    <3>4. CASE AddLeafNode
      <4>1. /\ leaf \in Leaves /\ leaf # Nobody /\ task = "register"
            /\ UNCHANGED <<task, todo, registrations>>
        BY <2>a, <3>4 DEF AddLeafNode
      <4>2. CASE UA_Server_addNode(leaf, registrations) /\ LeafDone
        <5>1. leaf' = Nobody
          BY <4>2 DEF LeafDone
        <5>2. \A l \in Leaves : l # leaf => nodes'[l] = nodes[l]
          BY <2>a, <2>b, <4>2 DEF UA_Server_addNode
        <5>3. nodes'[leaf] = registrations
          BY <2>a, <2>b, <4>1, <4>2 DEF UA_Server_addNode
        <5>4. \A l \in Leaves : Behind(l) => Behind(l)'
          BY <2>b, <4>1, <5>1 DEF Behind
        <5>5. leaf \notin todo /\ Ancestors[leaf] \cap todo = {}
          BY <4>1 DEF WalkInv
        <5>6. \A l \in Leaves : nodes'[l] = registrations => Behind(l)'
          BY <2>b, <4>1, <5>1, <5>2, <5>4, <5>5 DEF WalkInv, Behind
        <5>7. call.leaf # Nobody /\ call.registration = registrations
              => call.leaf # leaf
          BY <4>1 DEF WalkInv, Behind
        <5>8. FailedNodeGone'
          BY <2>a, <3>1, <4>1, <5>2, <5>3, <5>7 DEF FailedNodeGone
        <5> QED BY <2>a, <3>1, <4>1, <5>1, <5>4, <5>6, <5>8 DEF WalkInv
      <4>3. CASE UNCHANGED <<leaf, nodes>>
        BY <3>1, <4>1, <4>3 DEF WalkInv, Behind, FailedNodeGone
      <4> QED BY <3>4, <4>2, <4>3 DEF AddLeafNode
    <3>5. CASE UndoLeaf
      BY <2>b, <3>1, <3>5, <2>a
         DEF UndoLeaf, LeafDone, WalkInv, Behind, FailedNodeGone
    <3>6. CASE ReadInitialValue \/ AddLeafCallback
      BY <3>1, <3>6
         DEF ReadInitialValue, AddLeafCallback, WalkInv, Behind, FailedNodeGone
    <3>7. CASE AbortRegistration \/ EndRegistration
      BY <3>1, <3>7
         DEF AbortRegistration, EndRegistration, GoIdle, WalkInv, FailedNodeGone
    <3>8. CASE \/ \E l \in Leaves : RemoveDataSource(l)
               \/ \E g \in Groups : BrowseGroup(g)
      BY <3>1, <3>8 DEF RemoveDataSource, BrowseGroup, WalkInv, FailedNodeGone
    <3>9. CASE DeleteDevice
      <4>1. \A l \in Leaves : nodes'[l] \in {nodes[l], Absent}
        BY <2>b, <3>9 DEF DeleteDevice, UA_Server_deleteNode
      <4>2. task' = "idle"
        BY <3>9 DEF DeleteDevice, GoIdle
      <4> QED BY <2>a, <3>1, <4>1, <4>2 DEF WalkInv, FailedNodeGone
    <3> QED BY <2>4, <3>2, <3>3, <3>4, <3>5, <3>6, <3>7, <3>8, <3>9
            DEF Registry, RegistryStep
  <2>5. CASE Server
    <3>1. /\ UNCHANGED walkVars /\ call'.leaf = call.leaf
          /\ call'.registration = call.registration
          /\ \A n \in NodeIds : nodes'[n] \in {nodes[n], Absent}
      BY <2>5, ServerOnlyRemoves
    <3>2. call.leaf \in Leaves /\ call.leaf # Nobody
      BY <2>5, <2>a, <2>b DEF Server, ServerStep, FindCallback, InvokeDevice,
         DeviceThrows, DeviceThrowsOther, RemoveFailedCallback, DeleteFailedNode
    <3>3. \A l \in Leaves : nodes'[l] = registrations /\ task = "register" => Behind(l)
      <4> SUFFICES ASSUME NEW l \in Leaves, nodes'[l] = registrations,
                          task = "register", nodes[l] # registrations
                   PROVE  FALSE
        BY DEF WalkInv
      <4>1. registrations = Absent
        BY <2>b, <3>1
      <4>2. nodes[l] = registrations
        BY <2>a, <2>b, <2>c, <4>1
      <4> QED BY <4>2
    <3>4. WalkInv'
      BY <3>1, <3>3 DEF walkVars, WalkInv, Behind
    <3>5. FailedNodeGone'
      <4>1. CASE DeleteFailedNode
        <5>1. call.leaf \in Subtree(call.leaf)
          BY DEF Subtree
        <5>2. nodes'[call.leaf] = Absent
          BY <2>b, <3>2, <4>1, <5>1 DEF DeleteFailedNode, UA_Server_deleteNode, Exists
        <5> QED BY <3>1, <3>2, <5>2 DEF FailedNodeGone
      <4>2. CASE FindCallback \/ InvokeDevice \/ DeviceThrowsOther
        <5>1. call'.phase = "idle" => call'.answer # "BadInternalError"
          BY <4>2 DEF FindCallback, InvokeDevice, DeviceThrowsOther, Answer,
                      WrongWrapperAnswer, Services, TypeOK, RequestHandlersType
        <5> QED BY <5>1 DEF FailedNodeGone
      <4>3. CASE DeviceThrows \/ RemoveFailedCallback
        BY <4>3 DEF DeviceThrows, RemoveFailedCallback, GoTo, FailedNodeGone, TypeOK,
                    RequestHandlersType
      <4> QED BY <2>5, <4>1, <4>2, <4>3 DEF Server, ServerStep
    <3> QED BY <3>1, <3>2, <3>4, <3>5
  <2>6. CASE UNCHANGED vars
    BY <2>6 DEF vars, walkVars, WalkInv, Behind, FailedNodeGone
  <2> QED BY <2>1, <2>2, <2>3, <2>4, <2>5, <2>6 DEF Next
<1> QED BY <1>1, <1>2, TypeCorrect, StoresAgree, ServedByNoOlderDevice, PTL
        DEF Spec

(* The same as a property of the node alone.                               *)
THEOREM FailuresAreFinal == Spec => []FailedNodeGone
<1>1. FailureInv => FailedNodeGone
  BY DEF FailureInv
<1> QED BY <1>1, FailedNodesStayAway, PTL

\* Only one answer of a device that was reached is an unexpected error.
ExpectedInv ==
  call.phase = "idle" /\ call.answer = "BadUnexpectedError" => call.wrapper = Absent

(* If devices throw nothing but std::exceptions, each removes the node as   *)
(* the changelog says; what else they throw is the one exception to it.    *)
THEOREM ExpectedExceptionsRemoveNode ==
  Spec /\ [][~ DeviceThrowsOther]_vars => []UnhandledExceptionRemovesNode
<1>1. Init => ExpectedInv
  BY DEF Init, RequestHandlersInit, ExpectedInv
<1>2. TypeOK /\ ServedInv /\ ExpectedInv /\ [Next]_vars /\ [~ DeviceThrowsOther]_vars
      => ExpectedInv'
  <2> SUFFICES ASSUME TypeOK, ServedInv, ExpectedInv, [Next]_vars,
                      [~ DeviceThrowsOther]_vars
               PROVE  ExpectedInv'
    OBVIOUS
  <2>1. CASE UNCHANGED call
    BY <2>1 DEF ExpectedInv
  <2>2. CASE \E l \in Leaves : Request(l)
    BY <2>2 DEF Request, BeginRequest, ExpectedInv
  <2>3. CASE Server /\ ~ UNCHANGED call
    <3> DEFINE unexpected == call'.phase = "idle" /\ call'.answer = "BadUnexpectedError"
    <3>1. CASE FindCallback
      <4>1. call.wrapper = Absent
        BY <3>1 DEF FindCallback, ServedInv
      <4> QED BY <3>1, <4>1 DEF FindCallback, Answer, ExpectedInv, TypeOK, RequestHandlersType
    <3>2. CASE InvokeDevice \/ DeviceThrows \/ RemoveFailedCallback \/ DeleteFailedNode
      <4>1. ~ unexpected
        BY <3>2 DEF InvokeDevice, DeviceThrows, RemoveFailedCallback, DeleteFailedNode,
                    Answer, GoTo, TypeOK, RequestHandlersType
      <4> QED BY <4>1 DEF ExpectedInv
    <3>3. ~ DeviceThrowsOther
      BY <2>3 DEF vars
    <3> QED BY <2>3, <3>1, <3>2, <3>3 DEF Server, ServerStep
  <2> QED BY <2>1, <2>2, <2>3
          DEF Next, vars, registrate, deregistrate, Registry
<1>3. FailedNodeGone /\ ExpectedInv => UnhandledExceptionRemovesNode
  BY DEF FailedNodeGone, ExpectedInv, UnhandledExceptionRemovesNode
<1> QED BY <1>1, <1>2, <1>3, TypeCorrect, ServedByNoOlderDevice, FailuresAreFinal, PTL
        DEF Spec
=============================================================================
