------------------------------- MODULE Runner -------------------------------
(***************************************************************************)
(* Runner and OpcuaAdapter's start() and stop(): the application thread    *)
(* that calls them, and the thread that runs the open62541 server.         *)
(*                                                                         *)
(* The application calls start() and stop() from one thread, as the        *)
(* example program does.  running_ is read by the server thread at any     *)
(* time.  A std::thread is joinable until it was joined, also after its    *)
(* function returned.                                                      *)
(***************************************************************************)

\* May the system refuse to create a thread?
CONSTANT ThreadsMayFail

ASSUME ThreadsAssumption == ThreadsMayFail \in BOOLEAN

VARIABLES
  running_,   \* Runner::running_
  thread_,    \* where the server thread is; "none" when thread_ is not joinable
  caller,     \* where the application thread is
  outcome,    \* how its last call of the adapter ended
  connected   \* whether DataConsumerAdapter delivers events

lifecycle == <<running_, thread_, caller, outcome, connected>>

RunnerType ==
  /\ running_ \in BOOLEAN
  /\ thread_ \in {"none", "run", "serving", "test", "done"}
  /\ caller \in {"idle", "startJoin", "create", "connect", "stopJoin",
                 "disconnect", "terminated"}
  /\ outcome \in {"none", "started", "startFailed", "stopped", "stopThrew"}
  /\ connected \in BOOLEAN

RunnerInit ==
  /\ running_ = FALSE
  /\ thread_ = "none"
  /\ caller = "idle"
  /\ outcome = "none"
  /\ connected = FALSE

Return(result) == caller' = "idle" /\ outcome' = result

-----------------------------------------------------------------------------
(* OpcuaAdapter::start and Runner::start *)

\* Mutation: start() does not look whether the server runs already.
StartUnchecked ==
  /\ caller = "idle"
  /\ running_' = TRUE /\ caller' = "create"
  /\ outcome' = "none"
  /\ UNCHANGED <<thread_, connected>>

Start ==
  /\ caller = "idle"
  /\ IF running_
       THEN running_' = FALSE /\ caller' = "startJoin"
       ELSE running_' = TRUE /\ caller' = "create"
  /\ outcome' = "none"
  /\ UNCHANGED <<thread_, connected>>

\* A join without a thread throws; Runner::start catches and returns false.
JoinInStart ==
  /\ caller = "startJoin"
  /\ \/ /\ thread_ = "done"
        /\ thread_' = "none"
        /\ running_' = TRUE
        /\ caller' = "create"
        /\ UNCHANGED outcome
     \/ /\ thread_ = "none"
        /\ Return("startFailed")
        /\ UNCHANGED <<running_, thread_>>
  /\ UNCHANGED connected

\* Assigning to a joinable std::thread terminates the program.
CreateThread ==
  /\ caller = "create"
  /\ \/ /\ thread_ = "none"
        /\ thread_' = "run"
        /\ caller' = "connect"
        /\ UNCHANGED outcome
     \/ /\ thread_ # "none"
        /\ caller' = "terminated"
        /\ UNCHANGED <<thread_, outcome>>
     \/ /\ ThreadsMayFail           \* caught: running_ keeps its value
        /\ Return("startFailed")
        /\ UNCHANGED thread_
  /\ UNCHANGED <<running_, connected>>

Connect ==
  /\ caller = "connect"
  /\ connected' = TRUE
  /\ Return("started")
  /\ UNCHANGED <<running_, thread_>>

-----------------------------------------------------------------------------
(* OpcuaAdapter::stop and Runner::stop *)

\* Mutation: the server thread is joined but never told to leave.
StopWithoutSignal ==
  /\ caller = "idle"
  /\ IF running_ THEN caller' = "stopJoin" ELSE caller' = "disconnect"
  /\ outcome' = "none"
  /\ UNCHANGED <<running_, thread_, connected>>

Stop ==
  /\ caller = "idle"
  /\ IF running_
       THEN running_' = FALSE /\ caller' = "stopJoin"
       ELSE caller' = "disconnect" /\ UNCHANGED running_
  /\ outcome' = "none"
  /\ UNCHANGED <<thread_, connected>>

\* Mutation: the thread is detached instead of joined.
DetachInStop ==
  /\ caller = "stopJoin"
  /\ caller' = "disconnect"
  /\ UNCHANGED <<running_, thread_, outcome, connected>>

\* A join without a thread throws, and nothing on the way out catches it.
JoinInStop ==
  /\ caller = "stopJoin"
  /\ \/ /\ thread_ = "done"
        /\ thread_' = "none"
        /\ caller' = "disconnect"
        /\ UNCHANGED outcome
     \/ /\ thread_ = "none"
        /\ Return("stopThrew")
        /\ UNCHANGED thread_
  /\ UNCHANGED <<running_, connected>>

Disconnect ==
  /\ caller = "disconnect"
  /\ connected' = FALSE
  /\ Return("stopped")
  /\ UNCHANGED <<running_, thread_>>

AdapterCall == Start \/ Stop

CallerStep == JoinInStart \/ CreateThread \/ Connect \/ JoinInStop \/ Disconnect

-----------------------------------------------------------------------------
(* Runner::runnable, on the server thread *)

At(here, there) ==
  /\ thread_ = here
  /\ thread_' = there
  /\ UNCHANGED <<running_, caller, outcome, connected>>

\* UA_Server_run starts up and enters its loop, or returns or throws at once.
RunServer == At("run", "serving")

RunFails == At("run", "test")

\* The loop of UA_Server_run ends when it sees running_ reset, or by an
\* exception.
ServerReturns == ~ running_ /\ At("serving", "test")

ServerThrows == At("serving", "test")

\* Mutation: the loop is left after the first failure.
LeaveLoop == At("test", "done")

\* Mutation: a server that failed is run again even if it was stopped.
RetryAlways == IF running_ THEN At("test", "run")
                           ELSE At("test", "run") \/ At("test", "done")

RetryOrLeave == IF running_ THEN At("test", "run") ELSE At("test", "done")

\* Without ServerThrows: an exception is possible, not owed.
ThreadStep == RunServer \/ RunFails \/ ServerReturns \/ RetryOrLeave
=============================================================================
