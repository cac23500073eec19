--------------------------- MODULE RequestHandlers ---------------------------
(***************************************************************************)
(* The callbacks the open62541 server runs for a client's request on a     *)
(* leaf: readNodeValue, writeNodeValue and callNodeMethod, with             *)
(* CallbackRepo::read, write and execute below them and handleExceptions   *)
(* above.  The server runs them in its one thread, without its own lock.   *)
(*                                                                         *)
(* Between two steps of a request the registry thread may take any number  *)
(* of its own: it works on the same nodes and callbacks.                   *)
(***************************************************************************)
EXTENDS UaServer, CallbackRepo

VARIABLE call   \* the request in progress, or the last one answered

Services == {"read", "write", "call"}

Answers ==
  {"none", "Good", "BadRequest", "BadTypeMismatch", "BadNotReadable",
   "BadNotWritable", "BadNodeIdUnknown", "BadInternalError",
   "BadUnexpectedError"}

\* registration: the node the request was addressed to; wrapper: the device
\* object that find() returned.
RequestHandlersType ==
  /\ call \in [phase : {"idle", "find", "invoke", "remove", "deleteNode"},
               leaf : Leaves \cup {Nobody},
               service : Services,
               registration : Versions,
               wrapper : Versions,
               answer : Answers]
  /\ call.phase # "idle" => call.leaf # Nobody

RequestHandlersInit ==
  call = [phase |-> "idle", leaf |-> Nobody, service |-> "read",
          registration |-> Absent, wrapper |-> Absent, answer |-> "none"]

\* The services a node offers: addWritableNode alone sets a write callback,
\* and only a callable becomes a method node.
Offers(function, service) ==
  CASE service = "read"  -> function # "callable"
    [] service = "write" -> function \in {"writable", "writeOnly"}
    [] service = "call"  -> function = "callable"

Answer(status) == call' = [call EXCEPT !.phase = "idle", !.answer = status]

GoTo(phase) == call' = [call EXCEPT !.phase = phase]

-----------------------------------------------------------------------------
\* The server looked the node up and enters the callback.
BeginRequest(l, service) ==
  /\ call.phase = "idle"
  /\ Exists(l)
  /\ Offers(FunctionOf[nodes[l]][l], service)
  /\ call' = [phase |-> "find", leaf |-> l, service |-> service,
              registration |-> nodes[l], wrapper |-> Absent, answer |-> "none"]
  /\ UNCHANGED <<nodes, callbacks_>>

\* bad_variant_access becomes NotReadable, NotWritable or NotCallable; the
\* last is not what callNodeMethod catches, so handleExceptions answers it.
WrongWrapperAnswer(service) ==
  CASE service = "read"  -> "BadNotReadable"
    [] service = "write" -> "BadNotWritable"
    [] service = "call"  -> "BadUnexpectedError"

FindCallback ==
  /\ call.phase = "find"
  /\ LET found == callbacks_[call.leaf] IN
     \/ /\ found = Absent
        /\ Answer("BadNodeIdUnknown")
     \/ /\ found # Absent
        /\ Offers(FunctionOf[found][call.leaf], call.service)
        /\ call' = [call EXCEPT !.phase = "invoke", !.wrapper = found]
     \/ /\ found # Absent
        /\ ~ Offers(FunctionOf[found][call.leaf], call.service)
        /\ Answer(WrongWrapperAnswer(call.service))
  /\ UNCHANGED <<nodes, callbacks_>>

\* A read of a write-only element answers a default value of its type.
ReachesDevice ==
  ~ (call.service = "read" /\ FunctionOf[call.wrapper][call.leaf] = "writeOnly")

\* The device object answers.  A value of another type is a mismatch, and
\* arguments that do not fit the method's parameters are a bad request.
InvokeDevice ==
  /\ call.phase = "invoke"
  /\ \/ Answer("Good")
     \/ ReachesDevice /\ Answer("BadTypeMismatch")
     \/ call.service = "call" /\ Answer("BadRequest")
  /\ UNCHANGED <<nodes, callbacks_>>

\* The device throws a std::exception, or a value cannot be converted.
DeviceThrows ==
  /\ call.phase = "invoke"
  /\ ReachesDevice
  /\ GoTo("remove")
  /\ UNCHANGED <<nodes, callbacks_>>

\* The device throws anything else: no handler of CallbackRepo catches it.
DeviceThrowsOther ==
  /\ call.phase = "invoke"
  /\ ReachesDevice
  /\ Answer("BadUnexpectedError")
  /\ UNCHANGED <<nodes, callbacks_>>

\* CallbackRepo::remove, before BadOperation is thrown.
RemoveFailedCallback ==
  /\ call.phase = "remove"
  /\ RemoveCallback(call.leaf)
  /\ GoTo("deleteNode")
  /\ UNCHANGED nodes

\* Mutation: handleExceptions answers BadOperation and leaves the node alone.
AnswerOnly ==
  /\ call.phase = "deleteNode"
  /\ Answer("BadInternalError")
  /\ UNCHANGED <<nodes, callbacks_>>

\* Mutation: the failed node's parent is removed with it.
DeleteParentNode ==
  /\ call.phase = "deleteNode"
  /\ UA_Server_deleteNode(Parent[call.leaf])
  /\ Answer("BadInternalError")
  /\ UNCHANGED callbacks_

\* handleExceptions on BadOperation.
DeleteFailedNode ==
  /\ call.phase = "deleteNode"
  /\ UA_Server_deleteNode(call.leaf)
  /\ Answer("BadInternalError")
  /\ UNCHANGED callbacks_

ServerStep ==
  \/ FindCallback
  \/ InvokeDevice
  \/ DeviceThrows
  \/ DeviceThrowsOther
  \/ RemoveFailedCallback
  \/ DeleteFailedNode
=============================================================================
