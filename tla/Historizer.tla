----------------------------- MODULE Historizer -----------------------------
(***************************************************************************)
(* The historizer: its start-up, the registration of nodes and the writing *)
(* of values, all against one SQL database.                                *)
(*                                                                         *)
(* Statements take effect when their transaction commits; one that ends    *)
(* otherwise leaves nothing.  Three parties meet in the database: the      *)
(* constructor, registerNodeId in the registry thread, and write in the    *)
(* server thread.  The adapter may crash between any two steps, and the    *)
(* database may refuse any statement.                                      *)
(***************************************************************************)
CONSTANTS
  Nodes,     \* variable nodes
  Types,     \* data types of values
  Nothing    \* no node, no type

ASSUME HistorizerAssumption == Nothing \notin Nodes \cup Types

VARIABLES
  \* committed in the database
  nodesTable,    \* is there a table Historized_Nodes?
  domains,       \* are there the OPCUA_ value domains?
  historized,    \* the rows of Historized_Nodes
  table,         \* the value type of a node's own table, or Nothing
  \* in the adapter's process
  process,       \* where the start-up is
  nodeType,      \* the type of a node in the address space, or Nothing
  monitored,     \* nodes that have a monitored item
  registration,  \* the call of registerNodeId
  writing        \* the call of write

database == <<nodesTable, domains, historized, table>>
adapter == <<process, nodeType, monitored, registration, writing>>
historizerVars == <<database, adapter>>

StartSteps == {"createNodesTable", "createDomains", "commit", "queryTypes"}

NoRegistration ==
  [step |-> "idle", node |-> Nothing, type |-> Nothing, known |-> FALSE]

NoWrite == [step |-> "idle", node |-> Nothing]

TypeOK ==
  /\ nodesTable \in BOOLEAN /\ domains \in BOOLEAN
  /\ historized \subseteq Nodes /\ monitored \subseteq Nodes
  /\ table \in [Nodes -> Types \cup {Nothing}]
  /\ nodeType \in [Nodes -> Types \cup {Nothing}]
  /\ process \in StartSteps \cup {"down", "available", "unavailable"}
  /\ \/ registration = NoRegistration
     \/ registration \in [step : {"lookup", "record", "createTable", "commit", "monitor"},
                          node : Nodes, type : Types, known : BOOLEAN]
  /\ \/ writing = NoWrite
     \/ writing \in [step : {"insert", "update", "commit"}, node : Nodes]

\* The domains may have been created by whoever set the database up.
Init ==
  /\ domains \in BOOLEAN
  /\ nodesTable = FALSE
  /\ historized = {}
  /\ table = [n \in Nodes |-> Nothing]
  /\ process = "down"
  /\ nodeType = [n \in Nodes |-> Nothing]
  /\ monitored = {}
  /\ registration = NoRegistration
  /\ writing = NoWrite

-----------------------------------------------------------------------------
(* Configuration and Historizer::Historizer *)

Start ==
  /\ process = "down"
  /\ process' = "createNodesTable"
  /\ UNCHANGED <<database, nodeType, monitored, registration, writing>>

CreateNodesTable ==
  /\ process = "createNodesTable"
  /\ process' = "createDomains"
  /\ UNCHANGED <<database, nodeType, monitored, registration, writing>>

\* The domains are created in a transaction of their own.  Its object goes
\* out of scope uncommitted, which rolls it back.
CreateDomains ==
  /\ process = "createDomains"
  /\ process' = "commit"
  /\ UNCHANGED <<database, nodeType, monitored, registration, writing>>

CommitNodesTable ==
  /\ process = "commit"
  /\ nodesTable' = TRUE
  /\ process' = "queryTypes"
  /\ UNCHANGED <<domains, historized, table, nodeType, monitored, registration, writing>>

\* Mutation: a type the database does not know is passed over.
QueryTypesLeniently ==
  /\ process = "queryTypes"
  /\ process' = "available"
  /\ UNCHANGED <<database, nodeType, monitored, registration, writing>>

\* Each type name must have one row, or the constructor throws.
QueryTypes ==
  /\ process = "queryTypes"
  /\ process' = IF domains THEN "available" ELSE "unavailable"
  /\ UNCHANGED <<database, nodeType, monitored, registration, writing>>

\* Configuration goes on without a historizer.
StartFails ==
  /\ process \in StartSteps
  /\ process' = "unavailable"
  /\ UNCHANGED <<database, nodeType, monitored, registration, writing>>

\* The process ends; open transactions are rolled back.
Crash ==
  /\ process # "down"
  /\ process' = "down"
  /\ nodeType' = [n \in Nodes |-> Nothing]
  /\ monitored' = {}
  /\ registration' = NoRegistration
  /\ writing' = NoWrite
  /\ UNCHANGED database

-----------------------------------------------------------------------------
(* NodeBuilder::historize and registerNodeId *)

\* The server adds a variable node or refuses it: it is historized in either
\* case.  (If the node is there, CallbackRepo::add has refused it before.)
AddNode(n, t) ==
  /\ process \in {"available", "unavailable"}
  /\ registration = NoRegistration
  /\ nodeType[n] = Nothing
  /\ nodeType' \in {nodeType, [nodeType EXCEPT ![n] = t]}
  /\ registration' =
       IF process = "available"
         THEN [step |-> "lookup", node |-> n, type |-> t, known |-> FALSE]
         ELSE NoRegistration
  /\ UNCHANGED <<database, process, monitored, writing>>

\* By a deregistration or by a failing request.
RemoveNodes(removed) ==
  /\ registration = NoRegistration \/ writing = NoWrite
  /\ nodeType' = [n \in Nodes |-> IF n \in removed THEN Nothing ELSE nodeType[n]]
  /\ UNCHANGED <<database, process, monitored, registration, writing>>

Continue(step) == registration' = [registration EXCEPT !.step = step]

\* Mutation: the node stays behind in an idle registration.
LeaveKeepingNode == Continue("idle")

Leave == registration' = NoRegistration

\* isHistorized looks into the committed rows, in a session of its own.
IsHistorized ==
  /\ registration.step = "lookup"
  /\ registration' = [registration EXCEPT !.step = "record",
                                          !.known = registration.node \in historized]
  /\ UNCHANGED <<database, process, nodeType, monitored, writing>>

\* Mutation: the session of isHistorized is still open and has locked the row.
RowLockedByLookup(n) ==
  \/ /\ registration.node = n /\ registration.known
     /\ registration.step \in {"record", "createTable", "commit"}
  \/ writing.node = n /\ writing.step = "commit"

\* A transaction that has updated a row locks it until it ends.
RowLocked(n) ==
  \/ /\ registration.node = n /\ registration.known
     /\ registration.step \in {"createTable", "commit"}
  \/ writing.node = n /\ writing.step = "commit"

\* Mutation: the row is committed before the table is created.
RecordNodeAtOnce ==
  /\ registration.step = "record"
  /\ registration.known => ~ RowLocked(registration.node)
  /\ historized' = historized \cup {registration.node}
  /\ Continue("createTable")
  /\ UNCHANGED <<nodesTable, domains, table, process, nodeType, monitored, writing>>

\* Update the row if there was one, insert it otherwise.
RecordNode ==
  /\ registration.step = "record"
  /\ registration.known => ~ RowLocked(registration.node)
  /\ Continue("createTable")
  /\ UNCHANGED <<database, process, nodeType, monitored, writing>>

\* Mutation: a table that exists is replaced.
ReplaceTable(n, t) == [table EXCEPT ![n] = t]

\* CREATE TABLE IF NOT EXISTS, of the type the node has now.
NewTable(n, t) ==
  [table EXCEPT ![n] = IF table[n] = Nothing THEN t ELSE table[n]]

\* Mutation: the table is committed before the row.
CreateTableAtOnce ==
  /\ registration.step = "createTable"
  /\ table' = NewTable(registration.node, registration.type)
  /\ Continue("commit")
  /\ UNCHANGED <<nodesTable, domains, historized, process, nodeType, monitored, writing>>

CreateTable ==
  /\ registration.step = "createTable"
  /\ Continue("commit")
  /\ UNCHANGED <<database, process, nodeType, monitored, writing>>

Commit ==
  /\ historized' = historized \cup {registration.node}
  /\ table' = NewTable(registration.node, registration.type)
  /\ UNCHANGED <<nodesTable, domains>>

CommitRegistration ==
  /\ registration.step = "commit"
  /\ Commit
  /\ Continue("monitor")
  /\ UNCHANGED <<process, nodeType, monitored, writing>>

\* The server refuses to monitor a node it does not have.
CreateMonitoredItem ==
  /\ registration.step = "monitor"
  /\ monitored' = IF nodeType[registration.node] = Nothing
                    THEN monitored ELSE monitored \cup {registration.node}
  /\ Leave
  /\ UNCHANGED <<database, process, nodeType, writing>>

\* Mutation: the node is monitored although it could not be registered.
RegistrationFailsMonitored ==
  /\ registration.step \in {"lookup", "record", "createTable", "commit"}
  /\ monitored' = monitored \cup {registration.node}
  /\ Leave
  /\ UNCHANGED <<database, process, nodeType, writing>>

\* BADUNEXPECTEDERROR.  A commit whose answer is lost may have taken effect.
RegistrationFails ==
  /\ registration.step \in {"lookup", "record", "createTable", "commit"}
  /\ \/ registration.step = "commit" /\ Commit
     \/ UNCHANGED database
  /\ Leave
  /\ UNCHANGED <<process, nodeType, monitored, writing>>

-----------------------------------------------------------------------------
(* write: a sample of a monitored item (dataChanged) or a client's write *)

\* The node may be gone by the time its value arrives.
BeginWrite(n) ==
  /\ process = "available"
  /\ writing = NoWrite
  /\ writing' = [step |-> "insert", node |-> n]
  /\ UNCHANGED <<database, process, nodeType, monitored, registration>>

\* Without a table the statement fails, and the value is lost.
InsertValue ==
  /\ writing.step = "insert"
  /\ writing' = IF table[writing.node] = Nothing
                  THEN NoWrite ELSE [writing EXCEPT !.step = "update"]
  /\ UNCHANGED <<database, process, nodeType, monitored, registration>>

\* An UPDATE of a row that does not exist would change nothing and not fail.
UpdateHistorized ==
  /\ writing.step = "update"
  /\ ~ RowLocked(writing.node)
  /\ writing' = [writing EXCEPT !.step = "commit"]
  /\ UNCHANGED <<database, process, nodeType, monitored, registration>>

CommitValue ==
  /\ writing.step = "commit"
  /\ writing' = NoWrite
  /\ UNCHANGED <<database, process, nodeType, monitored, registration>>

\* The value does not fit the table, has no timestamp, or the database fails.
WriteFails ==
  /\ writing # NoWrite
  /\ writing' = NoWrite
  /\ UNCHANGED <<database, process, nodeType, monitored, registration>>

-----------------------------------------------------------------------------
StartUp == CreateNodesTable \/ CreateDomains \/ CommitNodesTable \/ QueryTypes

Registering ==
  \/ IsHistorized
  \/ RecordNode
  \/ CreateTable
  \/ CommitRegistration
  \/ CreateMonitoredItem

Writing == InsertValue \/ UpdateHistorized \/ CommitValue

Next ==
  \/ Start \/ StartUp \/ StartFails \/ Crash
  \/ \E n \in Nodes, t \in Types : AddNode(n, t)
  \/ \E removed \in SUBSET Nodes : RemoveNodes(removed)
  \/ \E n \in Nodes : BeginWrite(n)
  \/ Registering \/ RegistrationFails
  \/ Writing \/ WriteFails

Spec == Init /\ [][Next]_historizerVars

\* The database answers what it is asked, unless it fails, and those that wait
\* for a row get it in turn.
FairSpec ==
  /\ Spec
  /\ WF_historizerVars(Registering) /\ SF_historizerVars(RecordNode)
  /\ WF_historizerVars(Writing)

-----------------------------------------------------------------------------
(* Properties *)

(* A historizer that came up has the table of nodes and every value domain *)
(* that a node's table may need, after any number of failed starts.        *)
StartedIsReady == process = "available" => nodesTable /\ domains

(* registerNodeId is all or nothing: a node is listed in Historized_Nodes  *)
(* exactly if it has a table, whenever the adapter crashes or a statement  *)
(* fails.                                                                  *)
RegisteredHasTable == \A n \in Nodes : n \in historized <=> table[n] # Nothing

(* Only nodes whose table exists are sampled: registerNodeId commits before *)
(* it asks for a monitored item.                                           *)
MonitoredIsRegistered == monitored \subseteq historized

(* A value is never stored without its node's Last_Updated: the row that   *)
(* updateHistorized names exists, although writers and registerNodeId run  *)
(* side by side.                                                           *)
UpdateFindsRow ==
  writing.step \in {"update", "commit"} => writing.node \in historized

(* registerNodeId returns.  It holds a row while it creates a table, and   *)
(* writers hold rows too: nobody waits for a session that waits for it.    *)
RegistrationReturns ==
  registration # NoRegistration ~> registration = NoRegistration

(* createDomainRestrictions creates the value domains, as its comments say *)
(* (HistorizerUtils.cpp:35, :39): they are there when queryTypeOIDs looks  *)
(* them up.                                                                *)
DomainsAreCreated == process = "queryTypes" => domains

(* The value type of a table that exists is checked, as the comment at     *)
(* Historizer.cpp:196 asks for: a registration that commits has a table of *)
(* its node's type.                                                        *)
TableFitsNode ==
  registration.step = "monitor" => table[registration.node] = registration.type
=============================================================================
