------------------------- MODULE OpcuaAdapterProofs -------------------------
(***************************************************************************)
(* The lifecycle of the adapter, for every address space and whether or    *)
(* not threads can be created, and what of AddressSpace carries over.      *)
(***************************************************************************)
EXTENDS OpcuaAdapter, CatalogProofs, PromptRequestSafety

(* The adapter's lifecycle shows in the address space only as stuttering:  *)
(* every invariant proved of AddressSpace is one of the adapter.           *)
THEOREM AdapterImplementsAddressSpace == AdapterSpec => KeepsAddressSpace
<1>1. AdapterInit => Init
  BY DEF AdapterInit
<1>2. [AdapterNext]_adapterVars => [Next]_vars
  BY DEF AdapterNext, adapterVars, Next, Event, HandleEvent, Serve, Application,
         ServerThread
<1> QED BY <1>1, <1>2, PTL DEF AdapterSpec, KeepsAddressSpace, Spec

-----------------------------------------------------------------------------
(* The server thread exists where a caller that will join or replace it    *)
(* expects it, and it has left the request and the loop where it must.     *)
LifecycleInv ==
  /\ caller = "idle" /\ ~ running_ => thread_ = "none"
  /\ caller = "create" => running_ /\ thread_ = "none"
  /\ caller = "connect" => running_
  /\ caller = "disconnect" => ~ running_ /\ thread_ = "none"
  /\ caller \in {"startJoin", "stopJoin"} => ~ running_
  /\ thread_ = "done" => ~ running_
  /\ thread_ # "serving" => call.phase = "idle"
  /\ outcome = "startFailed" => caller = "idle"
  /\ outcome = "stopped" => caller = "idle" /\ ~ running_ /\ ~ connected
  /\ NeverTerminates

(* start() and stop() never assign to a joinable thread, and stop() leaves *)
(* no thread behind, whatever requests and failures come in between.       *)
THEOREM LifecycleIsSafe == AdapterSpec => []LifecycleInv
<1> USE DEF LifecycleInv, NeverTerminates
<1>1. AdapterInit => LifecycleInv
  BY DEF AdapterInit, RunnerInit, Init, RequestHandlersInit
<1>2. LifecycleInv /\ [AdapterNext]_adapterVars => LifecycleInv'
  <2> SUFFICES ASSUME LifecycleInv, [AdapterNext]_adapterVars
               PROVE  LifecycleInv'
    OBVIOUS
  <2>1. CASE Event \/ HandleEvent
    <3>1. UNCHANGED <<call, lifecycle>>
      BY <2>1 DEF Event, HandleEvent, Registry, registrate, deregistrate
    <3> QED BY <3>1 DEF lifecycle
  <2>2. CASE Serve
    BY <2>2 DEF Serve, lifecycle
  <2>3. CASE Application
    <3>1. UNCHANGED call
      BY <2>3 DEF Application, vars
    <3>2. CASE Start
      BY <3>1, <3>2 DEF Start
    <3>3. CASE JoinInStart
      BY <3>1, <3>3 DEF JoinInStart, Return
    <3>4. CASE CreateThread
      BY <3>1, <3>4 DEF CreateThread, Return
    <3>5. CASE Connect
      BY <3>1, <3>5 DEF Connect, Return
    <3>6. CASE Stop
      BY <3>1, <3>6 DEF Stop
    <3>7. CASE JoinInStop
      BY <3>1, <3>7 DEF JoinInStop, Return
    <3>8. CASE Disconnect
      BY <3>1, <3>8 DEF Disconnect, Return
    <3> QED BY <2>3, <3>2, <3>3, <3>4, <3>5, <3>6, <3>7, <3>8
            DEF Application, AdapterCall, CallerStep
  <2>4. CASE ServerThread
    <3>1. UNCHANGED <<call, caller, running_, outcome, connected>>
      BY <2>4 DEF ServerThread, vars, ThreadStep, RunServer, RunFails,
                  ServerReturns, ServerThrows, RetryOrLeave, At
    <3>2. call.phase = "idle" /\ thread_ # "none"
      BY <2>4 DEF ServerThread, ThreadStep, RunServer, RunFails, ServerReturns,
                  ServerThrows, RetryOrLeave, At
    <3>3. thread_' = "done" => ~ running_
      BY <2>4 DEF ServerThread, ThreadStep, RunServer, RunFails, ServerReturns,
                  ServerThrows, RetryOrLeave, At
    <3> QED BY <3>1, <3>2, <3>3
  <2>5. CASE UNCHANGED adapterVars
    BY <2>5 DEF adapterVars, lifecycle, vars
  <2> QED BY <2>1, <2>2, <2>3, <2>4, <2>5 DEF AdapterNext
<1> QED BY <1>1, <1>2, PTL DEF AdapterSpec

(* The program is never terminated for overwriting a joinable thread.      *)
THEOREM ThreadsAreJoined == AdapterSpec => []NeverTerminates
<1>1. LifecycleInv => NeverTerminates
  BY DEF LifecycleInv
<1> QED BY <1>1, LifecycleIsSafe, PTL

(* A stopped adapter has no server thread, no request and no events.       *)
THEOREM StopQuiesces == AdapterSpec => []StoppedIsQuiet
<1>1. LifecycleInv => StoppedIsQuiet
  BY DEF LifecycleInv, StoppedIsQuiet
<1> QED BY <1>1, LifecycleIsSafe, PTL

(* A running adapter keeps its server up, unless its last start() failed.  *)
THEOREM RunningAdapterServes == AdapterSpec => []RunningIsServed
<1>1. AdapterInit => RunningIsServed
  BY DEF AdapterInit, RunnerInit, RunningIsServed
<1>2. LifecycleInv /\ RunningIsServed /\ [AdapterNext]_adapterVars
      => RunningIsServed'
  <2> SUFFICES ASSUME LifecycleInv, RunningIsServed, [AdapterNext]_adapterVars
               PROVE  RunningIsServed'
    OBVIOUS
  <2> USE DEF RunningIsServed
  <2>1. CASE UNCHANGED lifecycle
    BY <2>1 DEF lifecycle
  <2>2. CASE AdapterCall
    BY <2>2 DEF AdapterCall, Start, Stop
  <2>3. CASE JoinInStart \/ JoinInStop
    BY <2>3 DEF JoinInStart, JoinInStop, LifecycleInv, Return
  <2>4. CASE CreateThread
    BY <2>4 DEF CreateThread, LifecycleInv, Return
  <2>5. CASE Connect \/ Disconnect
    BY <2>5 DEF Connect, Disconnect, LifecycleInv, Return
  <2>6. CASE ThreadStep \/ ServerThrows
    BY <2>6 DEF ThreadStep, RunServer, RunFails, ServerReturns, ServerThrows,
                RetryOrLeave, At
  <2> QED BY <2>1, <2>2, <2>3, <2>4, <2>5, <2>6
          DEF AdapterNext, Event, HandleEvent, Serve, Application, ServerThread,
              CallerStep, adapterVars
<1> QED BY <1>1, <1>2, LifecycleIsSafe, PTL DEF AdapterSpec

(* Whoever is about to join the server thread has one to join.             *)
JoinInv ==
  /\ caller \in {"startJoin", "stopJoin"} => thread_ # "none"
  /\ outcome # "startFailed"
  /\ StopNeverThrows

(* stop() throws for no other reason than a start() that was refused its    *)
(* thread: where threads can be created it just returns.                   *)
THEOREM StopThrowsForThreadsOnly ==
  ASSUME ~ ThreadsMayFail
  PROVE  AdapterSpec => []StopNeverThrows
<1> USE DEF JoinInv, StopNeverThrows
<1>1. AdapterInit => JoinInv
  BY DEF AdapterInit, RunnerInit
<1>2. LifecycleInv /\ RunningIsServed /\ JoinInv /\ [AdapterNext]_adapterVars
      => JoinInv'
  <2> SUFFICES ASSUME LifecycleInv, RunningIsServed, JoinInv,
                      [AdapterNext]_adapterVars
               PROVE  JoinInv'
    OBVIOUS
  <2>1. CASE UNCHANGED lifecycle
    BY <2>1 DEF lifecycle
  <2>2. CASE AdapterCall
    BY <2>2 DEF AdapterCall, Start, Stop, RunningIsServed
  <2>3. CASE JoinInStart \/ JoinInStop
    BY <2>3 DEF JoinInStart, JoinInStop, Return
  <2>4. CASE CreateThread
    BY <2>4 DEF CreateThread, LifecycleInv, Return
  <2>5. CASE Connect \/ Disconnect
    BY <2>5 DEF Connect, Disconnect, Return
  <2>6. CASE ThreadStep \/ ServerThrows
    BY <2>6 DEF ThreadStep, RunServer, RunFails, ServerReturns, ServerThrows,
                RetryOrLeave, At
  <2> QED BY <2>1, <2>2, <2>3, <2>4, <2>5, <2>6
          DEF AdapterNext, Event, HandleEvent, Serve, Application, ServerThread,
              CallerStep, adapterVars
<1>3. JoinInv => StopNeverThrows
  OBVIOUS
<1> QED BY <1>1, <1>2, <1>3, LifecycleIsSafe, RunningAdapterServes, PTL
        DEF AdapterSpec

(* A call that waits for the server thread waits for one on its way out.   *)
THEOREM WaitsAreForAnEnd == AdapterSpec => JoinsAdvance
<1>1. LifecycleInv /\ [AdapterNext]_adapterVars
      /\ caller' = caller /\ caller \in {"startJoin", "stopJoin"}
      => /\ ~ running_ /\ ~ running_'
         /\ thread_' = thread_ \/ ToDone' < ToDone
  <2> SUFFICES ASSUME LifecycleInv, [AdapterNext]_adapterVars,
                      caller \in {"startJoin", "stopJoin"}, caller' = caller
               PROVE  /\ ~ running_ /\ ~ running_'
                      /\ thread_' = thread_ \/ ToDone' < ToDone
    OBVIOUS
  <2>1. ~ running_
    BY DEF LifecycleInv
  <2>2. CASE Event \/ HandleEvent \/ Serve \/ UNCHANGED adapterVars
    BY <2>1, <2>2 DEF Event, HandleEvent, Serve, adapterVars, lifecycle
  <2>3. CASE Application
    BY <2>1, <2>3 DEF Application, AdapterCall, CallerStep, Start, Stop, JoinInStart,
       JoinInStop, CreateThread, Connect, Disconnect, Return
  <2>4. CASE ServerThread
    <3>1. running_' = running_
      BY <2>4 DEF ServerThread, ThreadStep, RunServer, RunFails, ServerReturns,
                  ServerThrows, RetryOrLeave, At
    <3>2. /\ thread_' = "serving" => thread_ = "run"
          /\ thread_' = "test" => thread_ \in {"run", "serving"}
          /\ thread_' = "done" => thread_ = "test"
          /\ thread_' \in {"serving", "test", "done"}
      BY <2>1, <2>4 DEF ServerThread, ThreadStep, RunServer, RunFails, ServerReturns,
                        ServerThrows, RetryOrLeave, At
    <3> QED BY <2>1, <3>1, <3>2 DEF ToDone
  <2> QED BY <2>2, <2>3, <2>4 DEF AdapterNext
<1> QED BY <1>1, LifecycleIsSafe, PTL DEF AdapterSpec, JoinsAdvance

(* What is proved of the address space holds in the adapter: its clients    *)
(* see a catalog of devices across starts and stops, and walks make        *)
(* progress whether or not the server runs.                                *)
THEOREM AdapterSafety ==
  AdapterSpec => /\ [](/\ TypeOK /\ TreeConnected /\ SameRegistration
                       /\ NeverServedByOlderDevice /\ FailedNodeGone)
                 /\ IsCatalog
                 /\ WalksAdvance
BY AdapterImplementsAddressSpace, TypeCorrect, Connected, NodesMatchCallbacks,
   RequestsAreServedAfresh, FailuresAreFinal, AddressSpaceIsCatalog,
   WalksMakeProgress, PTL DEF KeepsAddressSpace

(* So does what is proved under the assumption that requests are answered   *)
(* in time: no start or stop, whatever it cuts short, leaves a node        *)
(* without a callback or removes one without a cause.                      *)
THEOREM PromptAdapterSafety ==
  ASSUME ~ LateRequests
  PROVE  AdapterSpec => []NoOrphanNode /\ RemovedForCause
BY AdapterImplementsAddressSpace, NodesAreServed, NodesAreRemovedForCause, PTL
   DEF KeepsAddressSpace

(* Where devices answer while they are added, starts and stops leave no    *)
(* callback behind either.                                                 *)
THEOREM CalmAdapterSafety ==
  ASSUME ~ LateRequests, "exception" \notin RegistrationReads
  PROVE  AdapterSpec => []NoOrphanCallback /\ DeregistrationClears
BY AdapterImplementsAddressSpace, CallbacksHaveNodes, DeregistrationsClear, PTL
   DEF KeepsAddressSpace
=============================================================================
