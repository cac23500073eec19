---------------------------- MODULE AddressSpace ----------------------------
(***************************************************************************)
(* The registry thread and the server thread over the address space and    *)
(* the callback repository: what an OPC UA client can observe of the       *)
(* devices while they come, go and fail.                                   *)
(***************************************************************************)
EXTENDS NodeBuilder, RequestHandlers

\* May a request outlive the registration it began under, that is, may its
\* device be registered again before it is answered?
CONSTANT LateRequests

ASSUME LateRequestsAssumption == LateRequests \in BOOLEAN

vars == <<nodes, callbacks_, walkVars, call>>

Init ==
  /\ UaServerInit
  /\ CallbackRepoInit
  /\ NodeBuilderInit
  /\ RequestHandlersInit

RequestBelow(d) == call.phase # "idle" /\ d \in Ancestors[call.leaf]

registrate(d) ==
  /\ LateRequests \/ ~ RequestBelow(d)
  /\ BeginRegistration(d) \/ RefuseRegistration(d)
  /\ UNCHANGED call

deregistrate(d) == BeginDeregistration(d) /\ UNCHANGED call

Registry == RegistryStep /\ UNCHANGED call

Server == ServerStep /\ UNCHANGED walkVars

Request(l) ==
  /\ \E service \in Services : BeginRequest(l, service)
  /\ UNCHANGED walkVars

Next ==
  \/ \E d \in Devices : registrate(d) \/ deregistrate(d)
  \/ \E l \in Leaves : Request(l)
  \/ Registry
  \/ Server

\* Both threads keep running while they have work; a device eventually
\* answers or throws.  Events and requests need never arrive.
Fairness == WF_vars(Registry) /\ WF_vars(Server)

Spec == Init /\ [][Next]_vars

FairSpec == Spec /\ Fairness

-----------------------------------------------------------------------------
(* Each event and each request finds its variables in the state its        *)
(* handler leaves them in, and every version is that of a registration.    *)
TypeOK ==
  /\ UaServerType
  /\ CallbackRepoType
  /\ NodeBuilderType
  /\ RequestHandlersType

(* Every element's node hangs below the node of its parent, of the same     *)
(* registration.  deleteDeviceNode and removeDataSources walk the tree from *)
(* the device: a node outside it would never be removed again.             *)
TreeConnected ==
  \A e \in Elements : Exists(e) => nodes[Parent[e]] = nodes[e]

(* The device object behind a node is the one whose registration added the *)
(* node, whatever earlier registrations left in the repository.            *)
SameRegistration ==
  \A l \in Leaves :
    Exists(l) /\ HasCallback(l) => callbacks_[l] = nodes[l]

(* A request is never served by a device object older than the node it was *)
(* addressed to, though find() runs after the server looked the node up.   *)
NeverServedByOlderDevice ==
  call.wrapper # Absent => call.wrapper >= call.registration

(* A callback always belongs to a node, or to the leaf being added once    *)
(* add() is behind it: nothing is left over that would make add() refuse   *)
(* the element of the next registration.                                   *)
NoOrphanCallback ==
  \A l \in Leaves :
    HasCallback(l) => Exists(l) \/ (leaf = l /\ step # "addCallback")

(* A leaf a client can see has a callback, but for the moment in which a   *)
(* failed request or a deregistration is taking both away.                 *)
NoOrphanNode ==
  \A l \in Leaves :
    Exists(l) /\ ~ HasCallback(l) =>
      \/ call.phase = "deleteNode" /\ call.leaf = l
      \/ task = "deregister" /\ device \in Ancestors[l]

(* Once a request was answered BADINTERNALERROR for an exception, the node *)
(* it was addressed to is gone for good (handleExceptions, BadOperation).  *)
FailedNodeGone ==
  call.phase = "idle" /\ call.answer = "BadInternalError" =>
    nodes[call.leaf] # call.registration

(* A node disappears only when its own device is deregistered or when a    *)
(* request on this very registration of it failed.                         *)
RemovedForCause ==
  [][\A l \in Leaves : Exists(l) /\ nodes'[l] = Absent =>
       \/ task = "deregister" /\ device \in Ancestors[l]
       \/ /\ call.phase = "deleteNode" /\ call.leaf = l
          /\ call.registration = nodes[l]]_vars

(* When deleteDeviceNode returns, neither a node nor a callback of the     *)
(* device is left.                                                         *)
DeregistrationClears ==
  [][task = "deregister" /\ task' = "idle" =>
       \A e \in Elements : device \in Ancestors[e] =>
         nodes'[e] = Absent /\ (e \in Leaves => callbacks_'[e] = Absent)]_vars

(* The recursive walks of addDeviceNode and removeDataSources come to an   *)
(* end while requests are served and nodes disappear under them.           *)
EventsAreHandled == task # "idle" ~> task = "idle"

\* What the walk has yet to come to, but for the leaf in hand.
Ahead == {e \in Elements : e \in todo \/ Ancestors[e] \cap todo # {}}

\* The calls left for the leaf in hand, at most.
CallsLeft ==
  CASE step = "none"           -> 0
    [] step = "removeCallback" -> 1
    [] step = "addNode"        -> 2
    [] step = "read"           -> IF Function(leaf) = "readable" THEN 4 ELSE 3
    [] step = "addCallback"    -> IF Function(leaf) = "readable" THEN 3 ELSE 4

\* The steps the event may still take: five are enough for every element.
Work == (Ahead \X (1 .. 5)) \cup ({leaf} \X (1 .. CallsLeft))

\* Some of the work is done, and none is added.
Advances ==
  /\ UNCHANGED <<task, device>>
  /\ Work' \subseteq Work
  /\ Work' # Work

(* No step of addDeviceNode or removeDataSources is idle or goes back: each *)
(* ends the event or leaves less to be done for it, whatever the requests  *)
(* that are served between two steps remove, and they leave the walk alone. *)
WalksAdvance ==
  [][task # "idle" =>
       IF Registry THEN task' = "idle" \/ Advances ELSE UNCHANGED walkVars]_vars

(* readNodeValue, writeNodeValue and callNodeMethod remove the node when   *)
(* its device throws (CHANGELOG.md, 0.3.2).                                *)
UnhandledExceptionRemovesNode ==
  /\ call.phase = "idle" /\ call.wrapper # Absent
  /\ call.answer \in {"BadInternalError", "BadUnexpectedError"}
  => nodes[call.leaf] # call.registration
=============================================================================
