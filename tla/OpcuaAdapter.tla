---------------------------- MODULE OpcuaAdapter ----------------------------
(***************************************************************************)
(* The whole adapter: the address space of AddressSpace behind the         *)
(* lifecycle of Runner.  Events arrive while DataConsumerAdapter is        *)
(* connected; requests are served while the server thread is in the loop   *)
(* of UA_Server_run, which it leaves between two requests only.  Nodes and *)
(* callbacks survive a stop: server and repository live as long as the     *)
(* adapter does.                                                           *)
(***************************************************************************)
EXTENDS AddressSpace, Runner

AdapterInit == Init /\ RunnerInit

Event ==
  /\ connected
  /\ \E d \in Devices : registrate(d) \/ deregistrate(d)
  /\ UNCHANGED lifecycle

\* An event that was delivered is handled to its end, connected or not.
HandleEvent == Registry /\ UNCHANGED lifecycle

Serve ==
  /\ thread_ = "serving"
  /\ (\E l \in Leaves : Request(l)) \/ Server
  /\ UNCHANGED lifecycle

FinishRequest ==
  /\ thread_ = "serving"
  /\ Server
  /\ UNCHANGED lifecycle

Application == (AdapterCall \/ CallerStep) /\ UNCHANGED vars

ServerThread ==
  /\ thread_ = "serving" => call.phase = "idle"
  /\ ThreadStep \/ ServerThrows
  /\ UNCHANGED vars

AdapterNext ==
  \/ Event
  \/ HandleEvent
  \/ Serve
  \/ Application
  \/ ServerThread

adapterVars == <<vars, lifecycle>>

\* Every thread that can take a step of its own eventually does; devices
\* answer or throw.  An iteration of the server's loop serves finitely many
\* requests before running_ is tested again, hence strong fairness there.
\* The application need not call, and neither events nor requests need come.
AdapterSpec ==
  /\ AdapterInit
  /\ [][AdapterNext]_adapterVars
  /\ WF_adapterVars(HandleEvent)
  /\ WF_adapterVars(FinishRequest)
  /\ WF_adapterVars(CallerStep /\ UNCHANGED vars)
  /\ WF_adapterVars(ThreadStep /\ call.phase = "idle" /\ UNCHANGED vars)
  /\ SF_adapterVars(ServerReturns /\ call.phase = "idle" /\ UNCHANGED vars)

-----------------------------------------------------------------------------
(* thread_ is never assigned to while it holds a thread that was not       *)
(* joined: start() on a running adapter stops it first.                    *)
NeverTerminates == caller # "terminated"

(* When stop() has returned and until the next call, no request is in      *)
(* progress, there is no server thread and no event will arrive.           *)
StoppedIsQuiet ==
  outcome = "stopped" =>
    thread_ = "none" /\ call.phase = "idle" /\ ~ connected

(* While running_ is set a server thread exists that keeps the server up:  *)
(* runnable() retries for as long (CHANGELOG.md, 0.3.5).  The one exception *)
(* is a start() that could not create its thread, until the next call.     *)
RunningIsServed ==
  running_ /\ caller # "create" /\ outcome # "startFailed" =>
    thread_ \notin {"none", "done"}

(* stop() returns, with a request in progress or with a server that cannot *)
(* be started, and so does start() on a running adapter.                   *)
CallsReturn == caller # "idle" ~> caller = "idle"

\* How far the server thread is from the end of runnable().
ToDone ==
  CASE thread_ = "run" -> 3 [] thread_ = "serving" -> 2 [] thread_ = "test" -> 1
    [] OTHER -> 0

(* While a call waits for the server thread running_ stays reset, and the  *)
(* thread only comes closer to its end: runnable() does not run the server *)
(* once more, however the run it was in ended.                             *)
JoinsAdvance ==
  [][caller' = caller /\ caller \in {"startJoin", "stopJoin"} =>
       /\ ~ running_ /\ ~ running_'
       /\ thread_' = thread_ \/ ToDone' < ToDone]_adapterVars

(* Nothing the lifecycle does shows in the address space: the adapter      *)
(* behaves as AddressSpace says.                                           *)
KeepsAddressSpace == Spec

(* stop() of an adapter whose server does not run just returns             *)
(* (CHANGELOG.md, 0.3.4).                                                  *)
StopNeverThrows == outcome # "stopThrew"
=============================================================================
