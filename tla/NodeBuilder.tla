----------------------------- MODULE NodeBuilder -----------------------------
(***************************************************************************)
(* NodeBuilder as the registry thread runs it: OpcuaAdapter::registrate     *)
(* calls addDeviceNode and OpcuaAdapter::deregistrate calls                *)
(* deleteDeviceNode, one event at a time.                                  *)
(*                                                                         *)
(* Both walk the device tree depth first.  The recursion is represented by *)
(* the set of elements still to visit: the elements that the calls on the  *)
(* stack have yet to handle.  The innermost call continues first.          *)
(*                                                                         *)
(* The build without ENABLE_UA_HISTORIZING is modelled, the CMake default. *)
(***************************************************************************)
EXTENDS UaServer, CallbackRepo

\* What a device may answer to a read while its nodes are added.
CONSTANT RegistrationReads

ASSUME RegistrationReadsAssumption ==
  RegistrationReads \subseteq {"value", "exception"}

VARIABLES
  task,           \* the event being handled, or "idle"
  device,         \* the device the event is about
  todo,           \* elements the walk has yet to visit
  leaf, step,     \* the leaf being added and the next call for it
  registrations   \* successful device registrations so far

walkVars == <<task, device, todo, leaf, step, registrations>>

Steps == {"none", "read", "addCallback", "addNode", "removeCallback"}

NodeBuilderType ==
  /\ task \in {"idle", "register", "deregister"}
  /\ device \in Devices \cup {Nobody}
  /\ todo \subseteq Elements
  /\ leaf \in Leaves \cup {Nobody}
  /\ step \in Steps
  /\ registrations \in 0 .. MaxRegistrations
  /\ device = Nobody <=> task = "idle"
  /\ leaf = Nobody <=> step = "none"
  /\ leaf # Nobody => task = "register"

NodeBuilderInit ==
  /\ task = "idle"
  /\ device = Nobody
  /\ todo = {}
  /\ leaf = Nobody
  /\ step = "none"
  /\ registrations = 0

Function(l) == FunctionOf[registrations][l]

ChildrenOf(o) == {e \in Elements : Parent[e] = o}

\* No element of a deeper call on the stack is waiting.
IsNext(e) ==
  /\ e \in todo
  /\ \A f \in todo : Parent[e] \notin Ancestors[Parent[f]]

\* Mutation: the leaf in hand outlives the event.
GoIdleKeepingLeaf ==
  /\ task' = "idle"
  /\ device' = Nobody
  /\ todo' = {}
  /\ UNCHANGED <<leaf, step>>

GoIdle ==
  /\ task' = "idle"
  /\ device' = Nobody
  /\ todo' = {}
  /\ leaf' = Nobody
  /\ step' = "none"

-----------------------------------------------------------------------------
(* addDeviceNode *)

\* The device's own object node is added first.
BeginRegistration(d) ==
  /\ task = "idle"
  /\ registrations < MaxRegistrations
  /\ CanAdd(d)
  /\ registrations' = registrations + 1
  /\ UA_Server_addNode(d, registrations + 1)
  /\ task' = "register"
  /\ device' = d
  /\ todo' = ChildrenOf(d)
  /\ UNCHANGED <<leaf, step, callbacks_>>

\* The object node of a device that is already there, or that the server
\* refuses, makes addDeviceNode return before it visits any element.
RefuseRegistration(d) ==
  /\ task = "idle"
  /\ UNCHANGED <<nodes, callbacks_, walkVars>>

\* addElementNode on a group: its object node, then its elements.  A group
\* whose node is refused is skipped with everything below it.
VisitGroup(g) ==
  /\ task = "register" /\ leaf = Nobody
  /\ IsNext(g)
  /\ \/ /\ CanAdd(g)
        /\ UA_Server_addNode(g, registrations)
        /\ todo' = (todo \ {g}) \cup ChildrenOf(g)
     \/ /\ todo' = todo \ {g}
        /\ UNCHANGED nodes
  /\ UNCHANGED <<task, device, leaf, step, registrations, callbacks_>>

\* Mutation: a leaf stays among the elements to visit.
VisitLeafAgain(l) ==
  /\ task = "register" /\ leaf = Nobody
  /\ IsNext(l)
  /\ leaf' = l
  /\ step' = IF Function(l) = "readable" THEN "read" ELSE "addCallback"
  /\ UNCHANGED <<task, device, todo, registrations, nodes, callbacks_>>

\* addElementNode on a leaf.  Only addReadableNode reads before it adds.
VisitLeaf(l) ==
  /\ task = "register" /\ leaf = Nobody
  /\ IsNext(l)
  /\ leaf' = l
  /\ step' = IF Function(l) = "readable" THEN "read" ELSE "addCallback"
  /\ todo' = todo \ {l}
  /\ UNCHANGED <<task, device, registrations, nodes, callbacks_>>

LeafDone ==
  /\ leaf' = Nobody
  /\ step' = "none"

-----------------------------------------------------------------------------
(* addReadableNode, addObservableNode, addWritableNode, addCallableNode *)

\* The device answers the read that fills the value attribute ...
ReadInitialValue ==
  /\ step = "read"
  /\ "value" \in RegistrationReads
  /\ step' = IF Function(leaf) = "readable" THEN "addCallback" ELSE "addNode"
  /\ UNCHANGED <<task, device, todo, leaf, registrations, nodes, callbacks_>>

\* ... or throws.  Only StatusCodeNotGood is caught on the way up: every call
\* on the stack is left, addDeviceNode included, and nothing is undone.
AbortRegistration ==
  /\ step = "read"
  /\ "exception" \in RegistrationReads
  /\ GoIdle
  /\ UNCHANGED <<registrations, nodes, callbacks_>>

AfterAdd(l) ==
  IF Function(l) \in {"observable", "writable"} THEN "read" ELSE "addNode"

\* Mutation: the status of CallbackRepo::add is not checked.
AddLeafCallbackUnchecked ==
  /\ step = "addCallback"
  /\ IF HasCallback(leaf) THEN UNCHANGED callbacks_
                          ELSE AddCallback(leaf, registrations)
  /\ step' = AfterAdd(leaf)
  /\ UNCHANGED <<task, device, todo, leaf, registrations, nodes>>

AddLeafCallback ==
  /\ step = "addCallback"
  /\ \/ /\ ~ HasCallback(leaf)
        /\ AddCallback(leaf, registrations)
        /\ step' = AfterAdd(leaf)
     \/ /\ HasCallback(leaf)              \* BADNODEIDEXISTS
        /\ step' = "removeCallback"
        /\ UNCHANGED callbacks_
  /\ UNCHANGED <<task, device, todo, leaf, registrations, nodes>>

\* Mutation: a node the server refused leaves its callback behind.
AddLeafNodeKeepingCallback ==
  /\ step = "addNode"
  /\ \/ CanAdd(leaf) /\ UA_Server_addNode(leaf, registrations)
     \/ UNCHANGED nodes
  /\ LeafDone
  /\ UNCHANGED <<task, device, todo, registrations, callbacks_>>

\* The server may refuse a node for reasons of its own.
AddLeafNode ==
  /\ step = "addNode"
  /\ \/ /\ CanAdd(leaf)
        /\ UA_Server_addNode(leaf, registrations)
        /\ LeafDone
     \/ /\ step' = "removeCallback"
        /\ UNCHANGED <<leaf, nodes>>
  /\ UNCHANGED <<task, device, todo, registrations, callbacks_>>

\* Mutation: the handler tries the leaf again.
RetryLeaf ==
  /\ step = "removeCallback"
  /\ RemoveCallback(leaf)
  /\ step' = "addCallback"
  /\ UNCHANGED <<task, device, todo, leaf, registrations, nodes>>

\* The handler of StatusCodeNotGood.
UndoLeaf ==
  /\ step = "removeCallback"
  /\ RemoveCallback(leaf)
  /\ LeafDone
  /\ UNCHANGED <<task, device, todo, registrations, nodes>>

EndRegistration ==
  /\ task = "register"
  /\ todo = {} /\ leaf = Nobody
  /\ GoIdle
  /\ UNCHANGED <<registrations, nodes, callbacks_>>

-----------------------------------------------------------------------------
(* deleteDeviceNode and removeDataSources *)

\* The event may name a device that was never registered: the browse is empty.
BeginDeregistration(d) ==
  /\ task = "idle"
  /\ task' = "deregister"
  /\ device' = d
  /\ todo' = UA_Server_browse(d)
  /\ UNCHANGED <<leaf, step, registrations, nodes, callbacks_>>

RemoveDataSource(l) ==
  /\ task = "deregister"
  /\ IsNext(l)
  /\ RemoveCallback(l)
  /\ todo' = todo \ {l}
  /\ UNCHANGED <<task, device, leaf, step, registrations, nodes>>

\* Mutation: groups are passed over instead of browsed.
SkipGroup(g) ==
  /\ task = "deregister"
  /\ IsNext(g)
  /\ todo' = todo \ {g}
  /\ UNCHANGED <<task, device, leaf, step, registrations, nodes, callbacks_>>

\* Mutation: the device is browsed again instead of the group.
BrowseDeviceAgain(g) ==
  /\ task = "deregister"
  /\ IsNext(g)
  /\ todo' = (todo \ {g}) \cup UA_Server_browse(device)
  /\ UNCHANGED <<task, device, leaf, step, registrations, nodes, callbacks_>>

BrowseGroup(g) ==
  /\ task = "deregister"
  /\ IsNext(g)
  /\ todo' = (todo \ {g}) \cup UA_Server_browse(g)
  /\ UNCHANGED <<task, device, leaf, step, registrations, nodes, callbacks_>>

\* Mutation: the device node is deleted without what is below it.
DeleteDeviceOnly ==
  /\ task = "deregister"
  /\ todo = {}
  /\ UA_Server_addNode(device, Absent)
  /\ GoIdle
  /\ UNCHANGED <<registrations, callbacks_>>

DeleteDevice ==
  /\ task = "deregister"
  /\ todo = {}
  /\ UA_Server_deleteNode(device)
  /\ GoIdle
  /\ UNCHANGED <<registrations, callbacks_>>

-----------------------------------------------------------------------------
\* What the registry thread does by itself once an event has arrived.
RegistryStep ==
  \/ \E g \in Groups : VisitGroup(g)
  \/ \E l \in Leaves : VisitLeaf(l)
  \/ ReadInitialValue
  \/ AbortRegistration
  \/ AddLeafCallback
  \/ AddLeafNode
  \/ UndoLeaf
  \/ EndRegistration
  \/ \E l \in Leaves : RemoveDataSource(l)
  \/ \E g \in Groups : BrowseGroup(g)
  \/ DeleteDevice
=============================================================================
