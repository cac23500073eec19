------------------------- MODULE AddressSpaceProofs -------------------------
(***************************************************************************)
(* What holds of AddressSpace for every device tree, every choice of       *)
(* functions, any number of registrations, and whether or not devices      *)
(* throw while they are added and requests come late.                      *)
(***************************************************************************)
EXTENDS AddressSpace, FiniteSetTheorems, TLAPS

-----------------------------------------------------------------------------
(* The tree *)

(* Whatever is closed upwards from n contains the objects above n.         *)
LEMMA AncestorsAreLeast ==
  ASSUME NEW n \in NodeIds, NEW S \in SUBSET Objects, IsUpwardClosed(S, n)
  PROVE  Ancestors[n] \subseteq S
BY DEF Ancestors

(* The objects above an element are its parent and those above the parent. *)
LEMMA AncestorsStep ==
  ASSUME NEW e \in Elements
  PROVE  /\ Parent[e] \in Objects
         /\ Ancestors[e] = {Parent[e]} \cup Ancestors[Parent[e]]
<1> DEFINE p == Parent[e]
<1>1. p \in Objects /\ p \in NodeIds /\ e \in NodeIds
  BY TreeAssumption DEF NodeIds, Elements, Objects
<1>2. p \in Ancestors[e]
  BY <1>1 DEF Ancestors, IsUpwardClosed
<1>3. Ancestors[p] \subseteq Ancestors[e]
  <2> SUFFICES ASSUME NEW o \in Ancestors[p], NEW S \in SUBSET Objects,
                      IsUpwardClosed(S, e)
               PROVE  o \in S
    BY <1>1 DEF Ancestors
  <2>1. IsUpwardClosed(S, p)
    BY <1>1, TreeAssumption DEF IsUpwardClosed, Elements, Objects
  <2> QED BY <1>1, <2>1, AncestorsAreLeast
<1>4. Ancestors[e] \subseteq {p} \cup Ancestors[p]
  <2> DEFINE S == {p} \cup Ancestors[p]
  <2>1. S \in SUBSET Objects
    BY <1>1 DEF Ancestors
  <2>2. ASSUME NEW g \in S \cap Groups PROVE Parent[g] \in S
    <3>1. CASE g = p
      <4>1. p \in Elements
        BY <3>1 DEF Elements
      <4>2. Parent[p] \in Objects
        BY <4>1, TreeAssumption
      <4>3. Parent[p] \in Ancestors[p]
        BY <1>1, <4>1, <4>2 DEF Ancestors, IsUpwardClosed
      <4> QED BY <3>1, <4>3
    <3>2. CASE g \in Ancestors[p]
      <4>1. Parent[g] \in Objects
        BY TreeAssumption DEF Elements
      <4>2. Parent[g] \in Ancestors[p]
        BY <1>1, <3>2, <4>1 DEF Ancestors, IsUpwardClosed
      <4> QED BY <4>2
    <3> QED BY <3>1, <3>2
  <2>3. IsUpwardClosed(S, e)
    BY <2>2 DEF IsUpwardClosed
  <2> QED BY <1>1, <2>1, <2>3, AncestorsAreLeast
<1> QED BY <1>1, <1>2, <1>3, <1>4

(* Being above is transitive.                                              *)
LEMMA AncestorsTransitive ==
  ASSUME NEW n \in NodeIds, NEW o \in Ancestors[n]
  PROVE  o \in NodeIds /\ o \in Objects /\ Ancestors[o] \subseteq Ancestors[n]
<1>1. o \in NodeIds /\ o \in Objects
  BY DEF Ancestors, NodeIds
<1>2. CASE o \in Groups
  <2>1. o \in Elements /\ Parent[o] \in Objects
    BY <1>2, TreeAssumption DEF Elements
  <2>2. Parent[o] \in Ancestors[n]
    BY <1>2, <2>1 DEF Ancestors, IsUpwardClosed
  <2>3. ASSUME NEW g \in Ancestors[n] \cap Groups PROVE Parent[g] \in Ancestors[n]
    <3>1. Parent[g] \in Objects
      BY TreeAssumption DEF Elements
    <3> QED BY <3>1 DEF Ancestors, IsUpwardClosed
  <2>4. Ancestors[n] \in SUBSET Objects
    BY DEF Ancestors
  <2>5. IsUpwardClosed(Ancestors[n], o)
    BY <2>2, <2>3 DEF IsUpwardClosed
  <2> QED BY <1>1, <2>4, <2>5, AncestorsAreLeast
<1>3. CASE o \in Devices
  <2>1. o \notin Elements
    BY <1>3, TreeAssumption DEF Elements, Objects
  <2>2. IsUpwardClosed({}, o)
    BY <2>1 DEF IsUpwardClosed
  <2>3. Ancestors[o] \subseteq {}
    BY <1>1, <2>2, AncestorsAreLeast
  <2> QED BY <1>1, <2>3
<1> QED BY <1>1, <1>2, <1>3 DEF Objects

(* What is above an element but is not its parent has a child above it.    *)
LEMMA AncestorsHaveChildren ==
  ASSUME NEW e \in Elements, NEW o \in Ancestors[e]
  PROVE  e \in ChildrenOf(o) \/ Ancestors[e] \cap ChildrenOf(o) # {}
<1> SUFFICES ASSUME Parent[e] # o, Ancestors[e] \cap ChildrenOf(o) = {}
             PROVE  FALSE
  BY DEF ChildrenOf
<1> DEFINE S == Ancestors[e] \ {o}
<1>1. e \in NodeIds /\ Ancestors[e] \subseteq Objects
  BY DEF NodeIds, Elements, Objects, Ancestors
<1>2. Parent[e] \in S
  BY AncestorsStep
<1>3. ASSUME NEW g \in S \cap Groups PROVE Parent[g] \in S
  <2>1. g \in Elements
    BY DEF Elements
  <2>2. Parent[g] \in Ancestors[g]
    BY <2>1, AncestorsStep
  <2>3. Parent[g] \in Ancestors[e]
    BY <1>1, <2>2, AncestorsTransitive
  <2> QED BY <2>1, <2>3 DEF ChildrenOf
<1>4. IsUpwardClosed(S, e)
  BY <1>2, <1>3 DEF IsUpwardClosed
<1> QED BY <1>1, <1>4, AncestorsAreLeast

(* Nothing is above a device.                                              *)
LEMMA DevicesOnTop ==
  ASSUME NEW d \in Devices
  PROVE  d \in NodeIds /\ d \notin Elements /\ Ancestors[d] = {}
<1>1. d \in NodeIds /\ d \notin Elements
  BY TreeAssumption DEF NodeIds, Elements, Objects
<1>2. IsUpwardClosed({}, d)
  BY <1>1 DEF IsUpwardClosed
<1> QED BY <1>1, <1>2, AncestorsAreLeast

(* A node that has a child of g above it has g above it.                   *)
LEMMA AboveChild ==
  ASSUME NEW n \in NodeIds, NEW g \in Objects, NEW h \in Ancestors[n] \cap ChildrenOf(g)
  PROVE  g \in Ancestors[n]
BY AncestorsStep, AncestorsTransitive DEF ChildrenOf

-----------------------------------------------------------------------------
(* Types *)

(* Registration numbers, with Absent, are an interval of the integers.     *)
LEMMA VersionsRange ==
  /\ Versions = 0 .. MaxRegistrations
  /\ MaxRegistrations \in Nat
  /\ Absent = 0
  /\ Absent \in Versions
BY RegistrationAssumption DEF Versions, Registrations, Absent

(* Nobody is neither a device nor a leaf.                                  *)
LEMMA NobodyIsNoNode ==
  Nobody \notin Devices /\ Nobody \notin Leaves
BY TreeAssumption DEF NodeIds, Objects

(* Every variable keeps its type: nodes and callbacks carry a registration *)
(* that took place.                                                        *)
THEOREM TypeCorrect == Spec => []TypeOK
<1> USE DEF TypeOK, UaServerType, CallbackRepoType, NodeBuilderType,
            RequestHandlersType
<1>1. Init => TypeOK
  BY VersionsRange DEF Init, UaServerInit, CallbackRepoInit, NodeBuilderInit,
         RequestHandlersInit, Services, Answers, Steps
<1>2. TypeOK /\ [Next]_vars => TypeOK'
  <2> SUFFICES ASSUME TypeOK, [Next]_vars PROVE TypeOK'
    OBVIOUS
  <2>1. ASSUME NEW d \in Devices, registrate(d) PROVE TypeOK'
    <3>1. CASE BeginRegistration(d)
      <4>1. registrations + 1 \in Versions
        BY VersionsRange, <3>1 DEF BeginRegistration
      <4>2. ChildrenOf(d) \subseteq Elements
        BY DEF ChildrenOf
      <4> QED BY VersionsRange, NobodyIsNoNode, <2>1, <3>1, <4>1, <4>2
              DEF registrate, BeginRegistration, UA_Server_addNode
    <3>2. CASE RefuseRegistration(d)
      BY <2>1, <3>2 DEF registrate, RefuseRegistration, walkVars
    <3> QED BY <2>1, <3>1, <3>2 DEF registrate
  <2>2. ASSUME NEW d \in Devices, deregistrate(d) PROVE TypeOK'
    BY NobodyIsNoNode, <2>2 DEF deregistrate, BeginDeregistration, UA_Server_browse
  <2>3. ASSUME NEW l \in Leaves, Request(l) PROVE TypeOK'
    <3>1. PICK service \in Services : BeginRequest(l, service)
      BY <2>3 DEF Request
    <3>2. nodes[l] \in Versions
      BY DEF NodeIds
    <3> QED BY <2>3, <3>1, <3>2, VersionsRange, NobodyIsNoNode
            DEF Request, BeginRequest, walkVars, Answers
  <2>4. CASE Registry
    <3> USE <2>4 DEF Registry
    <3>1. ASSUME NEW g \in Groups, VisitGroup(g) PROVE TypeOK'
      BY VersionsRange, <3>1 DEF VisitGroup, UA_Server_addNode, ChildrenOf
    <3>2. ASSUME NEW l \in Leaves, VisitLeaf(l) PROVE TypeOK'
      BY NobodyIsNoNode, <3>2 DEF VisitLeaf, Steps
    <3>3. CASE ReadInitialValue
      BY <3>3 DEF ReadInitialValue, Steps
    <3>4. CASE AbortRegistration
      BY <3>4 DEF AbortRegistration, GoIdle, Steps
    <3>5. CASE AddLeafCallback
      BY VersionsRange, <3>5 DEF AddLeafCallback, AddCallback, AfterAdd, Steps
    <3>6. CASE AddLeafNode
      BY VersionsRange, <3>6 DEF AddLeafNode, UA_Server_addNode, LeafDone, Steps
    <3>7. CASE UndoLeaf
      BY VersionsRange, <3>7 DEF UndoLeaf, RemoveCallback, LeafDone, Steps
    <3>8. CASE EndRegistration
      BY <3>8 DEF EndRegistration, GoIdle, Steps
    <3>9. ASSUME NEW l \in Leaves, RemoveDataSource(l) PROVE TypeOK'
      BY VersionsRange, <3>9 DEF RemoveDataSource, RemoveCallback
    <3>10. ASSUME NEW g \in Groups, BrowseGroup(g) PROVE TypeOK'
      BY <3>10 DEF BrowseGroup, UA_Server_browse
    <3>11. CASE DeleteDevice
      BY <3>11 DEF DeleteDevice, UA_Server_deleteNode, GoIdle, Steps, Versions
    <3> QED BY <3>1, <3>2, <3>3, <3>4, <3>5, <3>6, <3>7, <3>8, <3>9, <3>10,
               <3>11 DEF RegistryStep
  <2>5. CASE Server
    <3> USE <2>5 DEF Server, walkVars
    <3>1. CASE FindCallback
      <4>1. CASE callbacks_[call.leaf] = Absent
        BY <3>1, <4>1 DEF FindCallback, Answer, Answers
      <4>2. CASE callbacks_[call.leaf] # Absent
        <5>1. callbacks_[call.leaf] \in Versions
          BY <3>1 DEF FindCallback
        <5>2. WrongWrapperAnswer(call.service) \in Answers
          BY DEF WrongWrapperAnswer, Services, Answers
        <5> QED BY <3>1, <4>2, <5>1, <5>2 DEF FindCallback, Answer
      <4> QED BY <3>1, <4>1, <4>2 DEF FindCallback
    <3>2. CASE InvokeDevice
      BY <3>2 DEF InvokeDevice, Answer, Answers
    <3>3. CASE DeviceThrows
      BY <3>3 DEF DeviceThrows, GoTo
    <3>4. CASE DeviceThrowsOther
      BY <3>4 DEF DeviceThrowsOther, Answer, Answers
    <3>5. CASE RemoveFailedCallback
      BY <3>5 DEF RemoveFailedCallback, RemoveCallback, GoTo, Versions
    <3>6. CASE DeleteFailedNode
      BY <3>6 DEF DeleteFailedNode, UA_Server_deleteNode, Answer, Answers,
                  Versions
    <3> QED BY <3>1, <3>2, <3>3, <3>4, <3>5, <3>6 DEF ServerStep
  <2>6. CASE UNCHANGED vars
    BY <2>6 DEF vars, walkVars
  <2> QED BY <2>1, <2>2, <2>3, <2>4, <2>5, <2>6 DEF Next
<1> QED BY <1>1, <1>2, PTL DEF Spec

-----------------------------------------------------------------------------
(* The tree of nodes *)

\* A registration only ever works below objects it has added itself.
TreeInv ==
  /\ TreeConnected
  /\ task = "register" => \A e \in todo : nodes[Parent[e]] = registrations
  /\ leaf # Nobody => nodes[Parent[leaf]] = registrations

(* Every object above a node exists and is of the node's registration.     *)
LEMMA NodesAbove ==
  ASSUME TypeOK, TreeConnected, NEW e \in NodeIds, Exists(e),
         NEW a \in Ancestors[e]
  PROVE  nodes[a] = nodes[e]
<1> DEFINE S == {o \in Objects : nodes[o] = nodes[e]}
<1>1. ASSUME NEW g \in Elements, nodes[g] = nodes[e]
      PROVE  Parent[g] \in S
  BY <1>1, TreeAssumption DEF TreeConnected, Exists
<1>2. IsUpwardClosed(S, e)
  BY <1>1 DEF IsUpwardClosed, Elements
<1>3. Ancestors[e] \subseteq S
  BY <1>2, AncestorsAreLeast
<1> QED BY <1>3

(* A recursive delete takes all of a connected subtree, so what is left is *)
(* connected.                                                              *)
LEMMA DeleteKeepsTree ==
  ASSUME TypeOK, TreeConnected, NEW n \in NodeIds, UA_Server_deleteNode(n)
  PROVE  TreeConnected'
<1> SUFFICES ASSUME NEW e \in Elements, nodes'[e] # Absent
             PROVE  nodes'[Parent[e]] = nodes'[e]
  BY DEF TreeConnected, Exists
<1> DEFINE p == Parent[e]
<1>1. e \in NodeIds /\ p \in NodeIds /\ p \in Objects
  BY TreeAssumption DEF NodeIds, Elements, Objects
<1>2. nodes'[e] = nodes[e] /\ (Exists(n) => e \notin Subtree(n))
  BY <1>1 DEF UA_Server_deleteNode
<1>3. nodes[p] = nodes[e]
  BY <1>2 DEF TreeConnected, Exists
<1>4. ASSUME Exists(n), p \in Subtree(n) PROVE FALSE
  <2>1. n \in Ancestors[e]
    BY <1>4, AncestorsStep DEF Subtree
  <2>2. \A a \in Ancestors[e] : Exists(a)
    BY <1>1, <1>2, NodesAbove DEF Exists
  <2> QED BY <1>1, <1>2, <1>4, <2>1, <2>2 DEF Subtree
<1> QED BY <1>1, <1>2, <1>3, <1>4 DEF UA_Server_deleteNode

(* Deleting a leaf takes nothing else.                                     *)
LEMMA DeleteLeaf ==
  ASSUME TypeOK, NEW l \in Leaves, UA_Server_deleteNode(l)
  PROVE  \A n \in NodeIds : n # l => nodes'[n] = nodes[n]
<1> SUFFICES ASSUME NEW n \in NodeIds, n # l PROVE n \notin Subtree(l)
  BY DEF UA_Server_deleteNode
<1> QED BY TreeAssumption DEF Subtree, Ancestors

(* Adding a node under a parent of the same registration, where there was  *)
(* none, keeps the tree connected: nothing hung below an absent node.      *)
LEMMA AddKeepsTree ==
  ASSUME TypeOK, TreeConnected, NEW n \in NodeIds, NEW v \in Versions, CanAdd(n),
         n \in Elements => nodes[Parent[n]] = v,
         UA_Server_addNode(n, v)
  PROVE  TreeConnected'
<1> SUFFICES ASSUME NEW e \in Elements, nodes'[e] # Absent
             PROVE  nodes'[Parent[e]] = nodes'[e]
  BY DEF TreeConnected, Exists
<1> USE DEF TypeOK, UaServerType, UA_Server_addNode, CanAdd, Exists
<1>1. e \in NodeIds /\ Parent[e] \in NodeIds
  BY TreeAssumption DEF NodeIds, Elements, Objects
<1>2. CASE e = n
  <2>1. Parent[e] # n
    BY <1>2
  <2> QED BY <1>1, <1>2, <2>1
<1>3. CASE e # n
  <2>1. nodes[Parent[e]] = nodes[e] /\ nodes'[e] = nodes[e] /\ nodes[e] # Absent
    BY <1>1, <1>3 DEF TreeConnected
  <2>2. Parent[e] # n
    BY <2>1
  <2> QED BY <1>1, <2>1, <2>2
<1> QED BY <1>2, <1>3

(* The tree stays connected while devices are added and removed and while  *)
(* failed nodes drop out of it.                                            *)
THEOREM TreeStaysConnected == Spec => []TreeInv
<1>1. Init => TreeInv
  BY DEF Init, UaServerInit, NodeBuilderInit, TreeInv, TreeConnected, Exists,
         NodeIds, Elements, Objects
<1>2. TypeOK /\ TreeInv /\ [Next]_vars => TreeInv'
  <2> SUFFICES ASSUME TypeOK, TreeInv, [Next]_vars PROVE TreeInv'
    OBVIOUS
  <2> USE DEF TreeInv
  <2>a. /\ Elements \subseteq NodeIds /\ Leaves \subseteq Elements
        /\ Groups \subseteq Elements /\ Devices \subseteq NodeIds
        /\ \A e \in Elements : Parent[e] \in NodeIds
    BY TreeAssumption DEF NodeIds, Elements, Objects
  <2>b. /\ nodes \in [NodeIds -> Versions] /\ todo \subseteq Elements
        /\ leaf \in Leaves \cup {Nobody}
        /\ registrations \in 0 .. MaxRegistrations
        /\ (task = "idle" <=> device = Nobody) /\ device \in Devices \cup {Nobody}
        /\ (step = "none" <=> leaf = Nobody)
        /\ (leaf # Nobody => task = "register")
    BY DEF TypeOK, UaServerType, NodeBuilderType
  <2>1. ASSUME NEW d \in Devices, registrate(d) PROVE TreeInv'
    <3>1. CASE BeginRegistration(d)
      <4>1. d \notin Elements
        BY TreeAssumption DEF Elements, Objects
      <4>2. registrations + 1 \in Versions
        BY <2>b, <3>1, VersionsRange DEF BeginRegistration
      <4>3. TreeConnected'
        BY <2>a, <3>1, <4>1, <4>2, AddKeepsTree DEF BeginRegistration
      <4>4. nodes'[d] = registrations' /\ leaf' = leaf /\ leaf = Nobody
        BY <2>a, <2>b, <3>1 DEF BeginRegistration, UA_Server_addNode
      <4>5. \A e \in todo' : Parent[e] = d
        BY <3>1 DEF BeginRegistration, ChildrenOf
      <4> QED BY <4>3, <4>4, <4>5
    <3>2. CASE RefuseRegistration(d)
      BY <3>2 DEF RefuseRegistration, walkVars, TreeConnected, Exists
    <3> QED BY <2>1, <3>1, <3>2 DEF registrate
  <2>2. ASSUME NEW d \in Devices, deregistrate(d) PROVE TreeInv'
    BY <2>2, <2>b DEF deregistrate, BeginDeregistration, TreeConnected, Exists
  <2>3. ASSUME NEW l \in Leaves, Request(l) PROVE TreeInv'
    BY <2>3 DEF Request, BeginRequest, walkVars, TreeConnected, Exists
  <2>4. CASE Registry
    <3> USE <2>4 DEF Registry
    <3>1. ASSUME NEW g \in Groups, VisitGroup(g) PROVE TreeInv'
      <4>1. g \in todo /\ nodes[Parent[g]] = registrations /\ leaf' = Nobody
        BY <3>1 DEF VisitGroup, IsNext
      <4>2. CASE /\ CanAdd(g)
                 /\ UA_Server_addNode(g, registrations)
                 /\ todo' = (todo \ {g}) \cup ChildrenOf(g)
        <5>1. TreeConnected'
          BY <2>a, <2>b, <4>1, <4>2, AddKeepsTree, VersionsRange
        <5>2. nodes' = [nodes EXCEPT ![g] = registrations] /\ nodes'[g] = registrations
          BY <2>a, <2>b, <4>2 DEF UA_Server_addNode
        <5>3. ASSUME NEW e \in todo' PROVE nodes'[Parent[e]] = registrations
          BY <2>a, <2>b, <3>1, <4>2, <5>2, <5>3 DEF ChildrenOf, VisitGroup
        <5> QED BY <3>1, <4>1, <5>1, <5>3 DEF VisitGroup
      <4>3. CASE todo' = todo \ {g} /\ UNCHANGED nodes
        BY <3>1, <4>1, <4>3 DEF VisitGroup, TreeConnected, Exists
      <4> QED BY <3>1, <4>2, <4>3 DEF VisitGroup
    <3>2. ASSUME NEW l \in Leaves, VisitLeaf(l) PROVE TreeInv'
      BY <3>2 DEF VisitLeaf, IsNext, TreeConnected, Exists
    <3>3. CASE ReadInitialValue
      BY <3>3 DEF ReadInitialValue, TreeConnected, Exists
    <3>4. CASE AbortRegistration
      BY <3>4 DEF AbortRegistration, GoIdle, TreeConnected, Exists
    <3>5. CASE AddLeafCallback
      BY <3>5 DEF AddLeafCallback, TreeConnected, Exists
    <3>6. CASE AddLeafNode
      <4>1. leaf \in Leaves /\ leaf # Nobody /\ leaf \in NodeIds
        BY <2>a, <2>b, <3>6 DEF AddLeafNode
      <4>2. CASE CanAdd(leaf) /\ UA_Server_addNode(leaf, registrations) /\ LeafDone
        <5>1. TreeConnected'
          BY <2>a, <2>b, <4>1, <4>2, AddKeepsTree, VersionsRange
        <5>2. \A o \in Objects : nodes'[o] = nodes[o]
          BY <2>b, <4>1, <4>2, TreeAssumption DEF UA_Server_addNode, NodeIds
        <5>3. \A e \in todo : Parent[e] \in Objects
          BY <2>b, TreeAssumption
        <5> QED BY <3>6, <4>2, <5>1, <5>2, <5>3 DEF AddLeafNode, LeafDone
      <4>3. CASE UNCHANGED <<leaf, nodes>>
        BY <3>6, <4>3 DEF AddLeafNode, TreeConnected, Exists
      <4> QED BY <3>6, <4>2, <4>3 DEF AddLeafNode
    <3>7. CASE UndoLeaf
      BY <3>7 DEF UndoLeaf, LeafDone, TreeConnected, Exists
    <3>8. CASE EndRegistration
      BY <3>8 DEF EndRegistration, GoIdle, TreeConnected, Exists
    <3>9. ASSUME NEW l \in Leaves, RemoveDataSource(l) PROVE TreeInv'
      BY <3>9, <2>b DEF RemoveDataSource, TreeConnected, Exists
    <3>10. ASSUME NEW g \in Groups, BrowseGroup(g) PROVE TreeInv'
      BY <3>10, <2>b DEF BrowseGroup, TreeConnected, Exists
    <3>11. CASE DeleteDevice
      <4>1. device \in NodeIds
        BY <2>a, <2>b, <3>11 DEF DeleteDevice
      <4>2. TreeConnected'
        BY <3>11, <4>1, DeleteKeepsTree DEF DeleteDevice
      <4> QED BY <3>11, <4>2 DEF DeleteDevice, GoIdle
    <3> QED BY <3>1, <3>2, <3>3, <3>4, <3>5, <3>6, <3>7, <3>8, <3>9, <3>10,
               <3>11 DEF RegistryStep
  <2>5. CASE Server
    <3>1. CASE DeleteFailedNode
      <4>1. call.leaf \in Leaves
        BY <3>1 DEF TypeOK, RequestHandlersType, DeleteFailedNode
      <4>2. TreeConnected'
        BY <2>a, <3>1, <4>1, DeleteKeepsTree DEF DeleteFailedNode
      <4>3. \A e \in Elements : nodes'[Parent[e]] = nodes[Parent[e]]
        <5> SUFFICES ASSUME NEW e \in Elements
                     PROVE  Parent[e] \in NodeIds /\ Parent[e] # call.leaf
          BY <3>1, <4>1, DeleteLeaf DEF DeleteFailedNode
        <5> QED BY <2>a, <4>1, TreeAssumption
      <4> QED BY <2>5, <2>a, <2>b, <4>2, <4>3 DEF Server, walkVars
    <3>2. CASE UNCHANGED nodes
      BY <2>5, <3>2 DEF Server, walkVars, TreeConnected, Exists
    <3> QED BY <2>5, <3>1, <3>2
            DEF Server, ServerStep, FindCallback, InvokeDevice, DeviceThrows,
                DeviceThrowsOther, RemoveFailedCallback
  <2>6. CASE UNCHANGED vars
    BY <2>6 DEF vars, walkVars, TreeConnected, Exists
  <2> QED BY <2>1, <2>2, <2>3, <2>4, <2>5, <2>6 DEF Next
<1> QED BY <1>1, <1>2, TypeCorrect, PTL DEF Spec

(* A node hangs below the node of its parent, of the same registration.    *)
THEOREM Connected == Spec => []TreeConnected
<1>1. TreeInv => TreeConnected
  BY DEF TreeInv
<1> QED BY <1>1, TreeStaysConnected, PTL

-----------------------------------------------------------------------------
(* Nodes and callbacks *)

\* The leaf being added is past CallbackRepo::add.
PastAdd == step = "addNode" \/ (step = "read" /\ Function(leaf) # "readable")

AgreementInv ==
  /\ \A n \in NodeIds : nodes[n] <= registrations
  /\ \A l \in Leaves : callbacks_[l] <= registrations
  /\ PastAdd => callbacks_[leaf] \in {Absent, registrations}
  /\ SameRegistration

(* The server thread only ever takes nodes and callbacks away, and a       *)
(* request stays addressed to the node it began with.                      *)
LEMMA ServerOnlyRemoves ==
  ASSUME TypeOK, Server
  PROVE  /\ UNCHANGED walkVars
         /\ \A n \in NodeIds : nodes'[n] \in {nodes[n], Absent}
         /\ \A l \in Leaves : callbacks_'[l] \in {callbacks_[l], Absent}
         /\ call'.leaf = call.leaf
         /\ call'.registration = call.registration
<1> USE DEF TypeOK, UaServerType, CallbackRepoType, RequestHandlersType, Server
<1>1. CASE FindCallback
  BY <1>1 DEF FindCallback, Answer
<1>2. CASE InvokeDevice
  BY <1>2 DEF InvokeDevice, Answer
<1>3. CASE DeviceThrows
  BY <1>3 DEF DeviceThrows, GoTo
<1>4. CASE DeviceThrowsOther
  BY <1>4 DEF DeviceThrowsOther, Answer
<1>5. CASE RemoveFailedCallback
  BY <1>5 DEF RemoveFailedCallback, RemoveCallback, GoTo
<1>6. CASE DeleteFailedNode
  BY <1>6 DEF DeleteFailedNode, UA_Server_deleteNode, Answer
<1> QED BY <1>1, <1>2, <1>3, <1>4, <1>5, <1>6 DEF ServerStep

(* AgreementInv survives whatever only removes.                            *)
LEMMA RemovalKeepsAgreement ==
  ASSUME TypeOK, AgreementInv, UNCHANGED <<leaf, step, registrations>>,
         \A n \in NodeIds : nodes'[n] \in {nodes[n], Absent},
         \A l \in Leaves : callbacks_'[l] \in {callbacks_[l], Absent}
  PROVE  AgreementInv'
<1>1. Absent = 0 /\ registrations \in Nat /\ Leaves \subseteq NodeIds
  BY VersionsRange DEF TypeOK, NodeBuilderType, NodeIds
<1>2. (PastAdd)' => PastAdd /\ leaf \in Leaves
  BY DEF PastAdd, Function, TypeOK, NodeBuilderType
<1> QED BY <1>1, <1>2 DEF AgreementInv, SameRegistration, Exists, HasCallback

(* A callback that belongs to a node is of the registration that added the *)
(* node, and so is the one a node is about to be added for.                *)
THEOREM StoresAgree == Spec => []AgreementInv
<1>1. Init => AgreementInv
  BY DEF Init, UaServerInit, CallbackRepoInit, NodeBuilderInit, AgreementInv,
         SameRegistration, PastAdd, Exists, HasCallback, NodeIds, Absent
<1>2. TypeOK /\ TreeInv /\ AgreementInv /\ [Next]_vars => AgreementInv'
  <2> SUFFICES ASSUME TypeOK, TreeInv, AgreementInv, [Next]_vars
               PROVE  AgreementInv'
    OBVIOUS
  <2>a. /\ nodes \in [NodeIds -> Versions] /\ callbacks_ \in [Leaves -> Versions]
        /\ leaf \in Leaves \cup {Nobody} /\ registrations \in Nat
        /\ registrations \in Versions
        /\ (leaf = Nobody <=> step = "none") /\ (leaf # Nobody => task = "register")
    BY VersionsRange DEF TypeOK, UaServerType, CallbackRepoType, NodeBuilderType
  <2>b. Absent = 0 /\ Versions \subseteq Nat /\ Leaves \subseteq NodeIds
        /\ Leaves \subseteq Elements /\ Nobody \notin Leaves
    BY VersionsRange, NobodyIsNoNode DEF NodeIds, Elements
  <2> DEFINE Removes ==
        /\ UNCHANGED <<leaf, step, registrations>>
        /\ \A n \in NodeIds : nodes'[n] \in {nodes[n], Absent}
        /\ \A l \in Leaves : callbacks_'[l] \in {callbacks_[l], Absent}
  <2>c. Removes => AgreementInv'
    BY RemovalKeepsAgreement
  <2>d. ASSUME NEW n \in NodeIds \ Leaves, UA_Server_addNode(n, registrations'),
               registrations' \in {registrations, registrations + 1},
               UNCHANGED <<callbacks_, leaf, step>>, leaf = Nobody
        PROVE  AgreementInv'
    <3>1. ~ (PastAdd)' /\ registrations' \in Nat /\ registrations <= registrations'
      BY <2>a, <2>d DEF PastAdd
    <3>2. \A m \in NodeIds : nodes'[m] = IF m = n THEN registrations' ELSE nodes[m]
      BY <2>a, <2>d DEF UA_Server_addNode
    <3>a. /\ \A m \in NodeIds : nodes[m] \in Nat
          /\ \A l \in Leaves : callbacks_[l] \in Nat
      BY <2>a, <2>b
    <3>3. ASSUME NEW m \in NodeIds PROVE nodes'[m] <= registrations'
      <4>1. nodes[m] <= registrations /\ nodes[m] \in Nat
        BY <3>a DEF AgreementInv
      <4> QED BY <2>a, <3>1, <3>2, <4>1
    <3>4. ASSUME NEW l \in Leaves PROVE callbacks_'[l] <= registrations'
      <4>1. callbacks_[l] <= registrations /\ callbacks_[l] \in Nat
        BY <3>a DEF AgreementInv
      <4> QED BY <2>a, <2>d, <3>1, <4>1
    <3>5. SameRegistration'
      BY <2>b, <2>d, <3>2 DEF AgreementInv, SameRegistration, Exists, HasCallback
    <3> QED BY <3>1, <3>3, <3>4, <3>5 DEF AgreementInv
  <2>1. ASSUME NEW d \in Devices, registrate(d) PROVE AgreementInv'
    <3>1. d \in NodeIds \ Leaves
      BY TreeAssumption DEF NodeIds, Objects
    <3>2. CASE BeginRegistration(d)
      BY <2>a, <2>d, <3>1, <3>2 DEF BeginRegistration, TypeOK, NodeBuilderType
    <3>3. CASE RefuseRegistration(d)
      BY <2>c, <3>3 DEF RefuseRegistration, walkVars
    <3> QED BY <2>1, <3>2, <3>3 DEF registrate
  <2>2. ASSUME NEW d \in Devices, deregistrate(d) PROVE AgreementInv'
    BY <2>c, <2>2 DEF deregistrate, BeginDeregistration
  <2>3. ASSUME NEW l \in Leaves, Request(l) PROVE AgreementInv'
    BY <2>c, <2>3 DEF Request, BeginRequest, walkVars
  <2>4. CASE Registry
    <3>1. ASSUME NEW g \in Groups, VisitGroup(g) PROVE AgreementInv'
      <4>1. g \in NodeIds \ Leaves
        BY TreeAssumption DEF NodeIds, Objects
      <4>2. CASE UA_Server_addNode(g, registrations)
        BY <2>a, <2>d, <3>1, <4>1, <4>2 DEF VisitGroup
      <4>3. CASE UNCHANGED nodes
        BY <2>c, <3>1, <4>3 DEF VisitGroup
      <4> QED BY <3>1, <4>2, <4>3 DEF VisitGroup
    <3>2. ASSUME NEW l \in Leaves, VisitLeaf(l) PROVE AgreementInv'
      BY <2>a, <2>b, <3>2 DEF VisitLeaf, AgreementInv, SameRegistration, PastAdd,
                              Function, Exists, HasCallback
    <3>3. CASE ReadInitialValue
      BY <2>a, <3>3 DEF ReadInitialValue, AgreementInv, SameRegistration, PastAdd,
                        Function, Exists, HasCallback
    <3>4. CASE AbortRegistration
      BY <2>a, <3>4 DEF AbortRegistration, GoIdle, AgreementInv, SameRegistration,
                        PastAdd, Exists, HasCallback
    <3>5. CASE AddLeafCallback
      <4>1. leaf \in Leaves /\ leaf # Nobody
        BY <2>a, <3>5 DEF AddLeafCallback
      <4>2. CASE /\ AddCallback(leaf, registrations)
                 /\ step' = AfterAdd(leaf)
        <5>1. Exists(leaf) => nodes[leaf] = registrations
          BY <2>b, <4>1 DEF TreeInv, TreeConnected
        <5>2. callbacks_' = [callbacks_ EXCEPT ![leaf] = registrations]
          BY <4>2 DEF AddCallback
        <5> QED BY <2>a, <2>b, <3>5, <4>1, <5>1, <5>2
                DEF AddLeafCallback, AgreementInv, SameRegistration, Exists,
                    HasCallback
      <4>3. CASE step' = "removeCallback" /\ UNCHANGED callbacks_
        BY <3>5, <4>3 DEF AddLeafCallback, AgreementInv, SameRegistration, PastAdd,
                          Exists, HasCallback
      <4> QED BY <3>5, <4>2, <4>3 DEF AddLeafCallback
    <3>6. CASE AddLeafNode
      <4>1. leaf \in Leaves /\ leaf # Nobody /\ PastAdd
        BY <2>a, <3>6 DEF AddLeafNode, PastAdd
      <4>2. CASE UA_Server_addNode(leaf, registrations) /\ LeafDone
        BY <2>a, <2>b, <3>6, <4>1, <4>2
           DEF AddLeafNode, UA_Server_addNode, LeafDone, AgreementInv,
               SameRegistration, PastAdd, Exists, HasCallback
      <4>3. CASE step' = "removeCallback" /\ UNCHANGED <<leaf, nodes>>
        BY <3>6, <4>3 DEF AddLeafNode, AgreementInv, SameRegistration, PastAdd,
                          Exists, HasCallback
      <4> QED BY <3>6, <4>2, <4>3 DEF AddLeafNode
    <3>7. CASE UndoLeaf
      BY <2>a, <2>b, <3>7
         DEF UndoLeaf, LeafDone, RemoveCallback, AgreementInv, SameRegistration,
             PastAdd, Exists, HasCallback
    <3>8. CASE EndRegistration
      BY <3>8 DEF EndRegistration, GoIdle, AgreementInv, SameRegistration, PastAdd,
                  Exists, HasCallback
    <3>9. ASSUME NEW l \in Leaves, RemoveDataSource(l) PROVE AgreementInv'
      BY <2>a, <2>c, <3>9 DEF RemoveDataSource, RemoveCallback
    <3>10. ASSUME NEW g \in Groups, BrowseGroup(g) PROVE AgreementInv'
      BY <2>c, <3>10 DEF BrowseGroup
    <3>11. CASE DeleteDevice
      <4>1. \A n \in NodeIds : nodes'[n] \in {nodes[n], Absent}
        BY <3>11 DEF DeleteDevice, UA_Server_deleteNode
      <4>2. leaf' = leaf /\ step' = step
        BY <2>a, <3>11 DEF DeleteDevice, GoIdle
      <4> QED BY <2>c, <3>11, <4>1, <4>2 DEF DeleteDevice
    <3> QED BY <2>4, <3>1, <3>2, <3>3, <3>4, <3>5, <3>6, <3>7, <3>8, <3>9, <3>10,
               <3>11 DEF Registry, RegistryStep
  <2>5. CASE Server
    BY <2>c, <2>5, ServerOnlyRemoves DEF walkVars
  <2>6. CASE UNCHANGED vars
    BY <2>c, <2>6 DEF vars, walkVars
  <2> QED BY <2>1, <2>2, <2>3, <2>4, <2>5, <2>6 DEF Next
<1> QED BY <1>1, <1>2, TypeCorrect, TreeStaysConnected, PTL DEF Spec

(* The device object behind a node is that of the node's registration.     *)
THEOREM NodesMatchCallbacks == Spec => []SameRegistration
<1>1. AgreementInv => SameRegistration
  BY DEF AgreementInv
<1> QED BY <1>1, StoresAgree, PTL
-----------------------------------------------------------------------------
(* The walks *)

(* Descending into a group keeps the elements to visit apart.              *)
LEMMA DescendKeepsApart ==
  ASSUME todo \subseteq Elements, \A e \in todo : Ancestors[e] \cap todo = {},
         NEW g \in todo,
         todo' \subseteq (todo \ {g}) \cup ChildrenOf(g)
  PROVE  \A e \in todo' : Ancestors[e] \cap todo' = {}
<1> SUFFICES ASSUME NEW e \in todo', NEW h \in Ancestors[e] \cap todo'
             PROVE  FALSE
  OBVIOUS
<1>1. /\ g \in NodeIds /\ g \in Elements /\ g \notin Ancestors[g]
      /\ ChildrenOf(g) # {} => g \in Objects
  BY TreeAssumption DEF NodeIds, Objects, Elements, Ancestors, ChildrenOf
<1>2. e \in Elements /\ e \in NodeIds
  BY DEF ChildrenOf, NodeIds, Elements, Objects
<1>3. CASE e \in todo \ {g}
  <2>1. g \notin Ancestors[e]
    BY <1>3
  <2>2. h \in ChildrenOf(g)
    BY <1>3
  <2> QED BY <1>1, <1>2, <2>1, <2>2, AboveChild
<1>4. CASE e \in ChildrenOf(g)
  <2>1. Ancestors[e] = {g} \cup Ancestors[g]
    BY <1>2, <1>4, AncestorsStep DEF ChildrenOf
  <2>2. h # g
    BY <1>1, AncestorsStep DEF ChildrenOf
  <2>3. h \in Ancestors[g]
    BY <2>1, <2>2
  <2>4. CASE h \in todo
    BY <2>3, <2>4
  <2>5. CASE h \in ChildrenOf(g)
    BY <1>1, <2>3, <2>5, AboveChild
  <2> QED BY <2>4, <2>5
<1> QED BY <1>3, <1>4

(* What is done with an element leaves less ahead of the walk.              *)
LEMMA VisitShrinks ==
  ASSUME todo \subseteq Elements, \A e \in todo : Ancestors[e] \cap todo = {},
         NEW g \in todo,
         todo' \subseteq (todo \ {g}) \cup ChildrenOf(g)
  PROVE  g \in Ahead /\ Ahead' \subseteq Ahead \ {g}
<1>1. g \in NodeIds /\ g \in Elements /\ g \notin Ancestors[g]
  BY TreeAssumption DEF NodeIds, Objects, Elements, Ancestors
<1>2. ASSUME NEW f \in Elements PROVE f \in NodeIds
  BY DEF NodeIds, Objects, Elements
<1>3. ASSUME NEW f \in Elements, NEW h \in Ancestors[f] \cap ChildrenOf(g)
      PROVE  g \in Ancestors[f]
  <2>1. g \in Objects
    BY AncestorsStep DEF ChildrenOf
  <2> QED BY <1>2, <2>1, AboveChild
<1>4. ASSUME NEW f \in ChildrenOf(g) PROVE f \in Elements /\ g \in Ancestors[f]
  BY AncestorsStep DEF ChildrenOf
<1>5. Ahead' \subseteq Ahead
  <2> SUFFICES ASSUME NEW f \in Elements,
                      f \in todo' \/ Ancestors[f] \cap todo' # {}
               PROVE  f \in todo \/ Ancestors[f] \cap todo # {}
    BY DEF Ahead
  <2> QED BY <1>3, <1>4
<1>6. g \notin Ahead'
  <2>1. g \notin todo'
    BY <1>1, <1>4
  <2>2. Ancestors[g] \cap todo' = {}
    BY <1>1, <1>3
  <2> QED BY <2>1, <2>2 DEF Ahead
<1> QED BY <1>1, <1>5, <1>6 DEF Ahead

(* No element to visit is below another, and the leaf in hand is behind:    *)
(* each element has one turn.                                              *)
Apart ==
  /\ \A e \in todo : Ancestors[e] \cap todo = {}
  /\ leaf \notin Ahead

(* Neither walk ever comes to an element twice.                            *)
THEOREM ElementsHaveOneTurn == Spec => []Apart
<1>1. Init => Apart
  BY DEF Init, NodeBuilderInit, Apart, Ahead
<1>2. TypeOK /\ Apart /\ [Next]_vars => Apart'
  <2> SUFFICES ASSUME TypeOK, Apart, [Next]_vars PROVE Apart'
    OBVIOUS
  <2>a. /\ todo \subseteq Elements /\ leaf \in Leaves \cup {Nobody}
        /\ (leaf = Nobody <=> step = "none") /\ (leaf # Nobody => task = "register")
        /\ Nobody \notin Elements
    BY TreeAssumption DEF TypeOK, NodeBuilderType, NodeIds, Elements, Objects
  <2>b. ASSUME UNCHANGED <<todo, leaf>> PROVE Apart'
    BY <2>b DEF Apart, Ahead
  <2>c. ASSUME NEW g \in todo, todo' \subseteq (todo \ {g}) \cup ChildrenOf(g),
               leaf' \in {Nobody, g}
        PROVE  Apart'
    <3>1. Ahead' \subseteq Ahead \ {g}
      BY <2>a, <2>c, VisitShrinks DEF Apart
    <3>2. \A e \in todo' : Ancestors[e] \cap todo' = {}
      BY <2>a, <2>c, DescendKeepsApart DEF Apart
    <3>3. Nobody \notin Ahead
      BY <2>a DEF Ahead
    <3> QED BY <2>c, <3>1, <3>2, <3>3 DEF Apart
  <2>d. ASSUME todo' = {} PROVE Apart'
    BY <2>d DEF Apart, Ahead
  <2>e. ASSUME NEW d \in Devices, todo' \subseteq ChildrenOf(d), leaf' = Nobody
        PROVE  Apart'
    <3>1. Ancestors[d] = {} /\ d \notin Elements
      BY DevicesOnTop
    <3>2. ASSUME NEW e \in todo' PROVE Ancestors[e] \cap todo' = {}
      <4>1. e \in Elements /\ Parent[e] = d
        BY <2>e DEF ChildrenOf
      <4>2. Ancestors[e] = {d}
        BY <3>1, <4>1, AncestorsStep
      <4> QED BY <2>e, <3>1, <4>2 DEF ChildrenOf
    <3>3. Nobody \notin Ahead'
      BY <2>a DEF Ahead
    <3> QED BY <2>e, <3>2, <3>3 DEF Apart
  <2>1. ASSUME NEW d \in Devices, registrate(d) PROVE Apart'
    BY <2>1, <2>a, <2>b, <2>e DEF registrate, BeginRegistration, RefuseRegistration, walkVars
  <2>2. ASSUME NEW d \in Devices, deregistrate(d) PROVE Apart'
    BY <2>2, <2>a, <2>e
       DEF deregistrate, BeginDeregistration, UA_Server_browse, ChildrenOf
  <2>3. ASSUME NEW l \in Leaves, Request(l) PROVE Apart'
    BY <2>3, <2>b DEF Request, walkVars
  <2>4. CASE Registry
    <3>1. ASSUME NEW g \in Groups, VisitGroup(g) PROVE Apart'
      BY <3>1, <2>c DEF VisitGroup, IsNext
    <3>2. ASSUME NEW l \in Leaves, VisitLeaf(l) PROVE Apart'
      BY <3>2, <2>c DEF VisitLeaf, IsNext
    <3>3. CASE ReadInitialValue \/ AddLeafCallback
      BY <3>3, <2>b DEF ReadInitialValue, AddLeafCallback
    <3>4. CASE AbortRegistration \/ EndRegistration \/ DeleteDevice
      BY <3>4, <2>d DEF AbortRegistration, EndRegistration, DeleteDevice, GoIdle
    <3>5. CASE AddLeafNode \/ UndoLeaf
      <4>1. todo' = todo /\ leaf' \in {leaf, Nobody}
        BY <3>5 DEF AddLeafNode, UndoLeaf, LeafDone
      <4> QED BY <2>a, <4>1 DEF Apart, Ahead
    <3>6. ASSUME NEW l \in Leaves, RemoveDataSource(l) PROVE Apart'
      BY <3>6, <2>a, <2>c DEF RemoveDataSource, IsNext
    <3>7. ASSUME NEW g \in Groups, BrowseGroup(g) PROVE Apart'
      BY <3>7, <2>a, <2>c DEF BrowseGroup, IsNext, UA_Server_browse, ChildrenOf
    <3> QED BY <2>4, <3>1, <3>2, <3>3, <3>4, <3>5, <3>6, <3>7
            DEF Registry, RegistryStep
  <2>5. CASE Server
    BY <2>5, <2>b DEF Server, walkVars
  <2>6. CASE UNCHANGED vars
    BY <2>6, <2>b DEF vars, walkVars
  <2> QED BY <2>1, <2>2, <2>3, <2>4, <2>5, <2>6 DEF Next
<1> QED BY <1>1, <1>2, TypeCorrect, PTL DEF Spec

(* A step of the registry thread ends its event or does some of its work.  *)
LEMMA RegistryAdvances ==
  ASSUME TypeOK, Apart, Registry
  PROVE  task' = "idle" \/ Advances
<1>a. /\ todo \subseteq Elements /\ leaf \in Leaves \cup {Nobody}
      /\ (leaf = Nobody <=> step = "none") /\ (leaf # Nobody => task = "register")
      /\ Nobody \notin Elements /\ step \in Steps
  BY TreeAssumption DEF TypeOK, NodeBuilderType, NodeIds, Elements, Objects
<1>b. ASSUME NEW g \in todo, todo' \subseteq (todo \ {g}) \cup ChildrenOf(g),
             UNCHANGED <<task, device, leaf, step>>, leaf = Nobody
      PROVE  Advances
  <2>1. g \in Ahead /\ Ahead' \subseteq Ahead \ {g}
    BY <1>a, <1>b, VisitShrinks DEF Apart
  <2>2. CallsLeft = 0 /\ CallsLeft' = 0
    BY <1>a, <1>b DEF CallsLeft
  <2>3. Work = Ahead \X (1 .. 5) /\ Work' = Ahead' \X (1 .. 5)
    BY <2>2 DEF Work
  <2>4. <<g, 1>> \in Work /\ <<g, 1>> \notin Work'
    BY <2>1, <2>3
  <2> QED BY <1>b, <2>1, <2>3, <2>4 DEF Advances
<1>c. ASSUME UNCHANGED <<task, device, todo>>, leaf # Nobody,
             CallsLeft \in 1 .. 4, CallsLeft' \in 0 .. 3, CallsLeft' < CallsLeft,
             leaf' = leaf \/ CallsLeft' = 0
      PROVE  Advances
  <2>1. Ahead' = Ahead /\ leaf \notin Ahead
    BY <1>c DEF Ahead, Apart
  <2>2. <<leaf, CallsLeft>> \in Work /\ <<leaf, CallsLeft>> \notin Work'
    BY <1>c, <2>1 DEF Work
  <2>3. Work' \subseteq Work
    BY <1>c, <2>1 DEF Work
  <2> QED BY <1>c, <2>2, <2>3 DEF Advances
<1>1. ASSUME NEW g \in Groups, VisitGroup(g) PROVE Advances
  BY <1>1, <1>a, <1>b DEF VisitGroup, IsNext
<1>2. ASSUME NEW l \in Leaves, VisitLeaf(l) PROVE Advances
  <2>1. /\ l \in todo /\ leaf = Nobody /\ leaf' = l /\ todo' = todo \ {l}
        /\ step' \in {"read", "addCallback"} /\ UNCHANGED <<task, device>>
    BY <1>2 DEF VisitLeaf, IsNext
  <2>2. l \in Ahead /\ Ahead' \subseteq Ahead \ {l}
    BY <1>a, <2>1, VisitShrinks DEF Apart
  <2>3. CallsLeft = 0 /\ CallsLeft' \in 0 .. 4
    BY <1>a, <2>1 DEF CallsLeft
  <2>4. Work' \subseteq Work
    BY <2>1, <2>2, <2>3 DEF Work
  <2>5. <<l, 5>> \in Work /\ <<l, 5>> \notin Work'
    BY <2>1, <2>2, <2>3 DEF Work
  <2> QED BY <2>1, <2>4, <2>5 DEF Advances
<1>3. CASE ReadInitialValue
  <2>1. Function(leaf)' = Function(leaf)
    BY <1>3 DEF ReadInitialValue, Function
  <2> QED BY <1>3, <1>a, <1>c, <2>1 DEF ReadInitialValue, CallsLeft
<1>4. CASE AddLeafCallback
  <2>1. Function(leaf)' = Function(leaf)
    BY <1>4 DEF AddLeafCallback, Function
  <2> QED BY <1>4, <1>a, <1>c, <2>1 DEF AddLeafCallback, AfterAdd, CallsLeft
<1>5. CASE AddLeafNode
  BY <1>5, <1>a, <1>c DEF AddLeafNode, LeafDone, CallsLeft
<1>6. CASE UndoLeaf
  BY <1>6, <1>a, <1>c DEF UndoLeaf, LeafDone, CallsLeft
<1>7. CASE AbortRegistration \/ EndRegistration \/ DeleteDevice
  BY <1>7 DEF AbortRegistration, EndRegistration, DeleteDevice, GoIdle
<1>8. ASSUME NEW l \in Leaves, RemoveDataSource(l) PROVE Advances
  BY <1>8, <1>a, <1>b DEF RemoveDataSource, IsNext
<1>9. ASSUME NEW g \in Groups, BrowseGroup(g) PROVE Advances
  BY <1>9, <1>a, <1>b DEF BrowseGroup, IsNext, UA_Server_browse, ChildrenOf
<1> QED BY <1>1, <1>2, <1>3, <1>4, <1>5, <1>6, <1>7, <1>8, <1>9
        DEF Registry, RegistryStep

(* Both walks make progress with every step, whatever is removed beside    *)
(* them.                                                                   *)
THEOREM WalksMakeProgress == Spec => WalksAdvance
<1>1. TypeOK /\ Apart /\ [Next]_vars /\ task # "idle" =>
        IF Registry THEN task' = "idle" \/ Advances ELSE UNCHANGED walkVars
  <2> SUFFICES ASSUME TypeOK, Apart, [Next]_vars, task # "idle", ~ Registry
               PROVE  UNCHANGED walkVars
    BY RegistryAdvances
  <2> QED BY DEF Next, vars, registrate, deregistrate, BeginRegistration,
                 RefuseRegistration, BeginDeregistration, Request, Server
<1> QED BY <1>1, TypeCorrect, ElementsHaveOneTurn, PTL DEF Spec, WalksAdvance

(* A device of finitely many elements is added or removed in finitely many *)
(* steps: at most five for each element, and the one that ends the event.  *)
THEOREM WalksEnd ==
  ASSUME IsFiniteSet(Elements)
  PROVE  Spec => /\ [](Cardinality(Work) <= 5 * Cardinality(Elements))
                 /\ [][Registry => \/ task' = "idle"
                                   \/ Cardinality(Work') < Cardinality(Work)]_vars
<1> DEFINE All == Elements \X (1 .. 5)
<1>1. IsFiniteSet(All) /\ Cardinality(All) = 5 * Cardinality(Elements)
  <2>1. \A a, b \in Int : /\ IsFiniteSet(a .. b)
                           /\ Cardinality(a .. b) = IF a > b THEN 0 ELSE b - a + 1
    BY FS_Interval
  <2>2. Cardinality(Elements) \in Nat
    BY FS_CardinalityType
  <2>3. IsFiniteSet(All) /\ Cardinality(All) = Cardinality(Elements) * 5
    <3>1. 1 \in Int /\ 5 \in Int /\ ~ (1 > 5) /\ 5 - 1 + 1 = 5
      OBVIOUS
    <3>2. /\ IsFiniteSet(1 .. 5)
          /\ Cardinality(1 .. 5) = IF 1 > 5 THEN 0 ELSE 5 - 1 + 1
      BY <2>1, <3>1, Zenon
    <3>3. Cardinality(1 .. 5) = 5
      BY <3>1, <3>2
    <3> QED BY <3>2, <3>3, FS_Product
  <2> QED BY <2>2, <2>3
<1>2. TypeOK => Work \subseteq All
  <2> SUFFICES ASSUME TypeOK PROVE Work \subseteq All
    OBVIOUS
  <2>1. leaf \in Elements \/ CallsLeft = 0
    BY DEF TypeOK, NodeBuilderType, CallsLeft, Elements
  <2>2. CallsLeft \in 0 .. 4
    BY DEF TypeOK, NodeBuilderType, Steps, CallsLeft
  <2> QED BY <2>1, <2>2 DEF Work, Ahead
<1> HIDE DEF All
<1>3. TypeOK => Cardinality(Work) <= 5 * Cardinality(Elements)
  BY <1>1, <1>2, FS_Subset
<1>4. TypeOK /\ Apart /\ Registry =>
        task' = "idle" \/ Cardinality(Work') < Cardinality(Work)
  <2> SUFFICES ASSUME TypeOK, Apart, Registry, task' # "idle"
               PROVE  Cardinality(Work') < Cardinality(Work)
    OBVIOUS
  <2>1. Work' \subseteq Work /\ Work' # Work
    BY RegistryAdvances DEF Advances
  <2>2. IsFiniteSet(Work)
    BY <1>1, <1>2, FS_Subset
  <2>3. IsFiniteSet(Work') /\ Cardinality(Work') <= Cardinality(Work)
        /\ Cardinality(Work') # Cardinality(Work)
    BY <2>1, <2>2, FS_Subset
  <2>4. Cardinality(Work) \in Nat /\ Cardinality(Work') \in Nat
    BY <2>2, <2>3, FS_CardinalityType
  <2> QED BY <2>3, <2>4
<1> QED BY <1>3, <1>4, TypeCorrect, ElementsHaveOneTurn, PTL DEF Spec

(* The recursion never loses its place: among the elements to visit there  *)
(* is one that no deeper call has to wait for.                             *)
THEOREM SomeElementIsNext ==
  ASSUME IsFiniteSet(Objects), TypeOK, todo # {}
  PROVE  \E e \in todo : IsNext(e)
<1> DEFINE Rest(e) == Objects \ Ancestors[Parent[e]]
           R == StrictSubsetOrdering(Objects)
           T == {Rest(e) : e \in todo}
<1>1. IsWellFoundedOn(R, SUBSET Objects)
  BY FS_StrictSubsetOrderingWellFounded, FS_FiniteSubsetsOfFinite
<1>2. T \subseteq SUBSET Objects /\ T # {}
  OBVIOUS
<1> HIDE DEF R
<1>3. PICK x \in T : \A y \in T : ~ (<<y, x>> \in R)
  BY <1>1, <1>2, WFMin
<1>4. PICK e \in todo : x = Rest(e)
  BY <1>3
<1>5. ASSUME NEW f \in todo, Parent[e] \in Ancestors[Parent[f]] PROVE FALSE
  <2>1. e \in Elements /\ f \in Elements
    BY DEF TypeOK, NodeBuilderType
  <2>2. /\ Parent[e] \in Objects /\ Parent[f] \in Objects
        /\ Parent[e] \in NodeIds /\ Parent[f] \in NodeIds
    BY <2>1, TreeAssumption DEF NodeIds
  <2>3. Ancestors[Parent[e]] \subseteq Ancestors[Parent[f]]
    BY <1>5, <2>2, AncestorsTransitive
  <2>4. Parent[e] \notin Ancestors[Parent[e]]
    BY <2>2, DevicesOnTop, TreeAssumption DEF Objects
  <2>5. Rest(f) \subseteq Rest(e) /\ Rest(f) # Rest(e)
    BY <1>5, <2>2, <2>3, <2>4
  <2>6. <<Rest(f), Rest(e)>> \in R
    BY <2>5 DEF R, StrictSubsetOrdering
  <2>7. Rest(f) \in T
    OBVIOUS
  <2> QED BY <1>3, <1>4, <2>6, <2>7
<1> QED BY <1>4, <1>5 DEF IsNext

=============================================================================
