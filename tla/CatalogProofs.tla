---------------------------- MODULE CatalogProofs ----------------------------
(***************************************************************************)
(* AddressSpace implements DeviceCatalog, whatever devices throw and       *)
(* however late requests come.                                             *)
(***************************************************************************)
EXTENDS RequestSafety, AddressSpaceCatalog

(* The catalog's tree is the address space's.                              *)
LEMMA SameTree ==
  /\ Catalog!Elements = Elements /\ Catalog!NodeIds = NodeIds
  /\ Catalog!Absent = Absent
  /\ \A o : Catalog!Below(o) = {e \in Elements : o \in Ancestors[e]}
BY DEF Catalog!Elements, Elements, Catalog!NodeIds, NodeIds, Catalog!Objects, Objects,
       Catalog!Absent, Absent, Catalog!Below, Catalog!Ancestors, Ancestors,
       Catalog!IsUpwardClosed, IsUpwardClosed

(* Of two objects above the same node one is above the other.              *)
LEMMA AncestorsAreOrdered ==
  ASSUME NEW n \in NodeIds, NEW a \in Ancestors[n], NEW b \in Ancestors[n]
  PROVE  a = b \/ a \in Ancestors[b] \/ b \in Ancestors[a]
<1> DEFINE S == {o \in Ancestors[n] : o = a \/ o \in Ancestors[a] \/ a \in Ancestors[o]}
<1>1. S \in SUBSET Objects
  BY DEF Ancestors
<1>2. ASSUME n \in Elements PROVE Parent[n] \in S
  BY <1>2, AncestorsStep
<1>3. ASSUME NEW g \in S \cap Groups PROVE Parent[g] \in S
  <2>1. /\ g \in Elements /\ Parent[g] \in Ancestors[n]
        /\ Ancestors[g] = {Parent[g]} \cup Ancestors[Parent[g]]
    BY AncestorsStep, AncestorsTransitive DEF Elements
  <2>2. a \in NodeIds
    BY AncestorsTransitive
  <2>3. CASE g = a \/ g \in Ancestors[a]
    BY <2>1, <2>2, <2>3, AncestorsTransitive
  <2>4. CASE a \in Ancestors[g]
    BY <2>1, <2>4
  <2> QED BY <2>3, <2>4
<1>4. IsUpwardClosed(S, n)
  BY <1>2, <1>3 DEF IsUpwardClosed
<1> QED BY <1>1, <1>4, AncestorsAreLeast

-----------------------------------------------------------------------------
(* The steps of a registration *)

(* When a group is added its elements are undecided in its place.          *)
LEMMA GroupIsShown ==
  ASSUME TypeOK, TreeInv, FailureInv, NEW g \in Groups, VisitGroup(g), CanAdd(g),
         UA_Server_addNode(g, registrations),
         todo' = (todo \ {g}) \cup ChildrenOf(g)
  PROVE  Catalog!Show(g)
<1>1. /\ g \in todo /\ task = "register" /\ leaf = Nobody
      /\ UNCHANGED <<task, leaf, registrations>>
  BY DEF VisitGroup, IsNext
<1>2. g \in Elements /\ g \in NodeIds /\ g \in Objects
  BY DEF Elements, NodeIds, Objects
<1>3. Ancestors[g] \cap todo = {} /\ g \notin Ancestors[g]
  BY <1>1, TreeAssumption DEF FailureInv, WalkInv
<1>4. ASSUME NEW e \in Elements
      PROVE  e \in Undecided' <=> e \in Undecided /\ e # g
  <2>1. e \in NodeIds
    BY DEF NodeIds, Elements, Objects
  <2>2. Ancestors[e] = {Parent[e]} \cup Ancestors[Parent[e]]
    BY AncestorsStep
  <2>3. ASSUME e \in Undecided' PROVE e \in Undecided /\ e # g
    <3>1. CASE e \in todo \ {g}
      BY <1>1, <3>1 DEF Undecided
    <3>2. CASE e \in ChildrenOf(g)
      BY <1>1, <1>3, <2>2, <3>2 DEF Undecided, ChildrenOf
    <3>3. CASE Ancestors[e] \cap (todo \ {g}) # {}
      BY <1>1, <1>3, <3>3 DEF Undecided
    <3>4. CASE Ancestors[e] \cap ChildrenOf(g) # {}
      <4>1. g \in Ancestors[e]
        BY <1>2, <2>1, <3>4, AboveChild
      <4> QED BY <1>1, <1>3, <4>1 DEF Undecided
    <3>5. e # leaf'
      BY <1>1, <2>1, TreeAssumption
    <3> QED BY <2>3, <3>1, <3>2, <3>3, <3>4, <3>5 DEF Undecided
  <2>4. ASSUME e \in Undecided, e # g PROVE e \in Undecided'
    <3>1. CASE g \in Ancestors[e]
      BY <1>1, <3>1, AncestorsHaveChildren DEF Undecided
    <3>2. CASE g \notin Ancestors[e]
      BY <1>1, <2>4, <3>2 DEF Undecided
    <3> QED BY <3>1, <3>2
  <2> QED BY <2>3, <2>4
<1>5. Undecided' = Undecided \ {g}
  BY <1>4 DEF Undecided
<1>6. g \in Undecided /\ nodes[g] = Absent /\ nodes[Parent[g]] = registrations
  BY <1>1, <1>2 DEF Undecided, CanAdd, Exists, TreeInv
<1> QED BY <1>1, <1>5, <1>6, SameTree DEF Catalog!Show, UA_Server_addNode

(* A group that is refused is decided together with all that is below it.  *)
LEMMA GroupIsLeftOut ==
  ASSUME TypeOK, FailureInv, NEW g \in Groups, VisitGroup(g),
         todo' = todo \ {g}, UNCHANGED nodes
  PROVE  Catalog!LeaveOut(g)
<1>1. /\ g \in todo /\ task = "register" /\ leaf = Nobody
      /\ UNCHANGED <<task, leaf, registrations>>
  BY DEF VisitGroup, IsNext
<1>2. g \in Elements
  BY DEF Elements
<1>3. \A e \in todo : Ancestors[e] \cap todo = {}
  BY <1>1 DEF FailureInv, WalkInv
<1>4. ASSUME NEW e \in Elements
      PROVE  e \in Undecided' <=> e \in Undecided /\ e # g /\ g \notin Ancestors[e]
  <2>1. e \in NodeIds /\ e # Nobody
    BY TreeAssumption DEF NodeIds, Elements, Objects
  <2>2. ASSUME NEW h \in Ancestors[e] \cap todo, h # g
        PROVE  e # g /\ g \notin Ancestors[e]
    BY <1>1, <1>3, <2>1, <2>2, AncestorsAreOrdered
  <2> QED BY <1>1, <1>3, <2>1, <2>2 DEF Undecided
<1>5. Undecided' = Undecided \ ({g} \cup {e \in Elements : g \in Ancestors[e]})
  BY <1>4 DEF Undecided
<1> QED BY <1>1, <1>2, <1>5, SameTree DEF Catalog!LeaveOut, Undecided

(* The steps between two decisions leave the undecided elements alone.     *)
LEMMA LeafIsUndecided ==
  ASSUME TypeOK, NEW l \in Leaves, VisitLeaf(l)
  PROVE  Undecided' = Undecided
<1>1. /\ l \in todo /\ task = "register" /\ task' = task /\ leaf = Nobody
      /\ leaf' = l /\ todo' = todo \ {l}
  BY DEF VisitLeaf, IsNext
<1>2. ASSUME NEW e \in Elements PROVE e # Nobody /\ l \notin Ancestors[e]
  BY TreeAssumption DEF Ancestors, NodeIds, Elements, Objects
<1> QED BY <1>1, <1>2 DEF Undecided

(* A leaf is decided when its node is added or its callback withdrawn.     *)
LEMMA LeafIsDecided ==
  ASSUME TypeOK, FailureInv, leaf # Nobody, LeafDone, UNCHANGED <<task, todo>>
  PROVE  /\ leaf \in Undecided
         /\ Undecided' = Undecided \ {leaf}
         /\ Undecided' = Undecided \ ({leaf} \cup {e \in Elements : leaf \in Ancestors[e]})
<1>1. /\ leaf \in Leaves /\ leaf \in Elements /\ task = "register"
      /\ leaf' = Nobody
  BY DEF TypeOK, NodeBuilderType, LeafDone, Elements
<1>2. leaf \notin todo /\ Ancestors[leaf] \cap todo = {}
  BY <1>1 DEF FailureInv, WalkInv
<1>3. ASSUME NEW e \in Elements PROVE e # Nobody /\ leaf \notin Ancestors[e]
  BY <1>1, TreeAssumption DEF Ancestors, NodeIds, Elements, Objects
<1> QED BY <1>1, <1>2, <1>3 DEF Undecided

(* deleteDeviceNode takes all that is below the device.                    *)
LEMMA DeviceIsWithdrawn ==
  ASSUME TypeOK, TreeInv, DeleteDevice
  PROVE  Catalog!Withdraw(device)
<1>1. device \in NodeIds /\ Undecided = {} /\ Undecided' = {}
  BY DEF TypeOK, NodeBuilderType, DeleteDevice, GoIdle, Undecided, NodeIds, Objects
<1>2. ASSUME NEW n \in NodeIds
      PROVE  nodes'[n] = IF n = device \/ (n \in Elements /\ device \in Ancestors[n])
                           THEN Absent ELSE nodes[n]
  <2>1. nodes'[n] = IF Exists(device) /\ n \in Subtree(device)
                      THEN Absent ELSE nodes[n]
    BY DEF DeleteDevice, UA_Server_deleteNode
  <2>2. ASSUME Exists(n), device \in Ancestors[n]
        PROVE  \A a \in Ancestors[n] : Exists(a)
    BY <2>2, NodesAbove DEF TreeInv, Exists
  <2>3. n \notin Elements => Ancestors[n] = {}
    BY DevicesOnTop DEF NodeIds, Elements, Objects
  <2>4. CASE n = device
    BY <2>1, <2>4 DEF Subtree, Exists
  <2>5. CASE n # device /\ device \in Ancestors[n]
    BY <1>1, <2>1, <2>2, <2>3, <2>5 DEF Subtree, Exists
  <2>6. CASE n # device /\ device \notin Ancestors[n]
    BY <2>1, <2>6 DEF Subtree
  <2> QED BY <2>3, <2>4, <2>5, <2>6
<1>3. nodes' = [n \in NodeIds |->
                  IF n = device \/ n \in {e \in Elements : device \in Ancestors[e]}
                    THEN Absent ELSE nodes[n]]
  BY <1>2 DEF DeleteDevice, UA_Server_deleteNode
<1>4. UNCHANGED registrations
  BY DEF DeleteDevice
<1> QED BY <1>1, <1>3, <1>4, SameTree DEF Catalog!Withdraw

-----------------------------------------------------------------------------
(* A step of the server thread fails at most the node of its request.      *)
LEMMA ServerFailsOneNode ==
  ASSUME TypeOK, Server
  PROVE  Catalog!Next \/ UNCHANGED Catalog!catalogVars
<1>1. UNCHANGED walkVars /\ Undecided' = Undecided
  BY DEF Server, walkVars, Undecided
<1>2. CASE DeleteFailedNode
  <2>1. call.leaf \in Leaves /\ call.leaf \in NodeIds
    BY <1>2 DEF DeleteFailedNode, TypeOK, RequestHandlersType, NodeIds
  <2>2. \A n \in NodeIds : n # call.leaf => nodes'[n] = nodes[n]
    BY <1>2, <2>1, DeleteLeaf DEF DeleteFailedNode
  <2>3. nodes'[call.leaf] = Absent
    BY <1>2, <2>1 DEF DeleteFailedNode, UA_Server_deleteNode, Subtree, Exists
  <2>4. nodes \in [NodeIds -> Versions] /\ nodes' \in [NodeIds -> Versions]
    BY <1>2, VersionsRange
       DEF TypeOK, UaServerType, DeleteFailedNode, UA_Server_deleteNode
  <2>5. nodes' = [nodes EXCEPT ![call.leaf] = Absent]
    BY <2>1, <2>2, <2>3, <2>4
  <2>6. CASE Exists(call.leaf)
    BY <1>1, <2>1, <2>5, <2>6, SameTree
       DEF Catalog!Next, Catalog!Fail, Exists, walkVars
  <2>7. CASE ~ Exists(call.leaf)
    <3>1. nodes' = nodes
      BY <2>4, <2>5, <2>7 DEF Exists
    <3> QED BY <1>1, <3>1 DEF Catalog!catalogVars, walkVars
  <2> QED BY <2>6, <2>7
<1>3. CASE UNCHANGED nodes
  BY <1>1, <1>3 DEF Catalog!catalogVars, walkVars
<1> QED BY <1>2, <1>3
        DEF Server, ServerStep, FindCallback, InvokeDevice, DeviceThrows,
            DeviceThrowsOther, RemoveFailedCallback

(* Every behaviour of the two threads is one of the catalog.               *)
THEOREM AddressSpaceIsCatalog == Spec => IsCatalog
<1>1. Init => Catalog!Init
  BY SameTree DEF Init, UaServerInit, NodeBuilderInit, Catalog!Init, Undecided
<1>2. /\ TypeOK /\ TreeInv /\ FailureInv /\ [Next]_vars
      => [Catalog!Next]_Catalog!catalogVars
  <2> SUFFICES ASSUME TypeOK, TreeInv, FailureInv, [Next]_vars
               PROVE  Catalog!Next \/ UNCHANGED Catalog!catalogVars
    OBVIOUS
  <2> DEFINE Same == UNCHANGED <<nodes, registrations>> /\ Undecided' = Undecided
  <2>a. Same => UNCHANGED Catalog!catalogVars
    BY DEF Catalog!catalogVars
  <2>b. /\ leaf \in Leaves \cup {Nobody} /\ Leaves \subseteq Elements
        /\ Groups \subseteq Elements /\ (step = "none" <=> leaf = Nobody)
        /\ (leaf # Nobody => task = "register")
        /\ (task = "idle" <=> device = Nobody) /\ device \in Devices \cup {Nobody}
    BY DEF TypeOK, NodeBuilderType, Elements
  <2>1. ASSUME NEW d \in Devices, registrate(d)
        PROVE  Catalog!Next \/ UNCHANGED Catalog!catalogVars
    <3>1. CASE BeginRegistration(d)
      <4>1. Undecided = {}
        BY <3>1 DEF BeginRegistration, Undecided
      <4>2. /\ task' = "register" /\ todo' = ChildrenOf(d) /\ leaf' = Nobody
            /\ d \in Objects
        BY <2>b, <3>1 DEF BeginRegistration, Objects
      <4>3. ASSUME NEW e \in Elements PROVE e \in Undecided' <=> d \in Ancestors[e]
        <5>1. e \in NodeIds /\ e # Nobody
          BY TreeAssumption DEF NodeIds, Elements, Objects
        <5>2. ASSUME Ancestors[e] \cap ChildrenOf(d) # {} PROVE d \in Ancestors[e]
          BY <4>2, <5>1, <5>2, AboveChild
        <5>3. e \in ChildrenOf(d) => d \in Ancestors[e]
          BY AncestorsStep DEF ChildrenOf
        <5> QED BY <4>2, <5>1, <5>2, <5>3, AncestorsHaveChildren DEF Undecided
      <4>4. Undecided' = {e \in Elements : d \in Ancestors[e]}
        BY <4>3 DEF Undecided
      <4>5. Catalog!Register(d)
        BY <3>1, <4>1, <4>4, SameTree
           DEF BeginRegistration, CanAdd, Exists, UA_Server_addNode, Catalog!Register
      <4> QED BY <4>5 DEF Catalog!Next
    <3>2. CASE RefuseRegistration(d)
      BY <2>a, <3>2 DEF RefuseRegistration, walkVars, Undecided
    <3> QED BY <2>1, <3>1, <3>2 DEF registrate
  <2>2. ASSUME NEW d \in Devices, deregistrate(d) PROVE Same
    BY <2>2 DEF deregistrate, BeginDeregistration, Undecided
  <2>3. ASSUME NEW l \in Leaves, Request(l) PROVE Same
    BY <2>3 DEF Request, BeginRequest, walkVars, Undecided
  <2>4. CASE Registry
    <3>1. ASSUME NEW g \in Groups, VisitGroup(g) PROVE Catalog!Next
      <4>1. Catalog!Show(g) \/ Catalog!LeaveOut(g)
        BY <3>1, GroupIsShown, GroupIsLeftOut DEF VisitGroup
      <4> QED BY <2>b, <4>1, SameTree DEF Catalog!Next
    <3>2. ASSUME NEW l \in Leaves, VisitLeaf(l) PROVE Same
      BY <3>2, LeafIsUndecided DEF VisitLeaf
    <3>3. CASE ReadInitialValue \/ AddLeafCallback
      BY <2>a, <3>3 DEF ReadInitialValue, AddLeafCallback, Undecided
    <3>4. CASE AbortRegistration \/ EndRegistration
      <4>1. Undecided' = {} /\ UNCHANGED <<nodes, registrations>>
        BY <3>4 DEF AbortRegistration, EndRegistration, GoIdle, Undecided
      <4> QED BY <4>1 DEF Catalog!Next, Catalog!GiveUp
    <3>5. CASE AddLeafNode
      <4>1. leaf # Nobody /\ leaf \in Elements
        BY <2>b, <3>5 DEF AddLeafNode
      <4>2. CASE CanAdd(leaf) /\ UA_Server_addNode(leaf, registrations) /\ LeafDone
        <5>1. leaf \in Undecided /\ Undecided' = Undecided \ {leaf}
          BY <3>5, <4>1, <4>2, LeafIsDecided DEF AddLeafNode
        <5>2. Catalog!Show(leaf)
          BY <3>5, <4>1, <4>2, <5>1, SameTree
             DEF AddLeafNode, CanAdd, Exists, UA_Server_addNode, TreeInv,
                 Catalog!Show
        <5> QED BY <4>1, <5>2, SameTree DEF Catalog!Next
      <4>3. CASE UNCHANGED <<leaf, nodes>>
        BY <2>a, <3>5, <4>3 DEF AddLeafNode, Undecided
      <4> QED BY <3>5, <4>2, <4>3 DEF AddLeafNode
    <3>6. CASE UndoLeaf
      <4>1. leaf # Nobody /\ leaf \in Elements
        BY <2>b, <3>6 DEF UndoLeaf
      <4>2. /\ leaf \in Undecided
            /\ Undecided' = Undecided \ ({leaf} \cup {e \in Elements : leaf \in Ancestors[e]})
        BY <3>6, <4>1, LeafIsDecided DEF UndoLeaf
      <4>3. Catalog!LeaveOut(leaf)
        BY <3>6, <4>2, SameTree DEF UndoLeaf, Catalog!LeaveOut
      <4> QED BY <4>1, <4>3, SameTree DEF Catalog!Next
    <3>7. CASE \/ \E l \in Leaves : RemoveDataSource(l)
               \/ \E g \in Groups : BrowseGroup(g)
      BY <2>a, <3>7 DEF RemoveDataSource, BrowseGroup, Undecided
    <3>8. CASE DeleteDevice
      <4>1. device \in Devices
        BY <2>b, <3>8 DEF DeleteDevice
      <4> QED BY <3>8, <4>1, DeviceIsWithdrawn DEF Catalog!Next
    <3> QED BY <2>4, <2>a, <3>1, <3>2, <3>3, <3>4, <3>5, <3>6, <3>7, <3>8
            DEF Registry, RegistryStep
  <2>5. CASE Server
    BY <2>5, ServerFailsOneNode
  <2>6. CASE UNCHANGED vars
    BY <2>a, <2>6 DEF vars, walkVars, Undecided
  <2> QED BY <2>a, <2>1, <2>2, <2>3, <2>4, <2>5, <2>6 DEF Next
<1> QED BY <1>1, <1>2, TypeCorrect, TreeStaysConnected, FailedNodesStayAway, PTL
        DEF Spec, IsCatalog, Catalog!Spec
=============================================================================
