-------------------------- MODULE HistorizerProofs --------------------------
(***************************************************************************)
(* What the historizer keeps true of its database, for every set of nodes  *)
(* and types, through crashes and failures of any statement.               *)
(***************************************************************************)
EXTENDS HistorizerStore, TLAPS

(* Historizer's state is well typed, in the build with historization: the  *)
(* calls of registerNodeId and write always name a node of the adapter.    *)
THEOREM HistorizerTypeCorrect == Spec => []TypeOK
<1>1. Init => TypeOK
  BY DEF Init, TypeOK
<1>2. TypeOK /\ [Next]_historizerVars => TypeOK'
  <2> SUFFICES ASSUME TypeOK, [Next]_historizerVars PROVE TypeOK'
    OBVIOUS
  <2> USE DEF TypeOK
  <2>1. CASE UNCHANGED historizerVars
    BY <2>1 DEF historizerVars, database, adapter
  <2>2. CASE Start \/ StartUp \/ StartFails
    BY <2>2 DEF Start, StartUp, StartFails, CreateNodesTable, CreateDomains,
       CommitNodesTable, QueryTypes, StartSteps, database
  <2>3. CASE Crash
    BY <2>3 DEF Crash, database
  <2>4. ASSUME NEW n \in Nodes, NEW t \in Types, AddNode(n, t) PROVE TypeOK'
    BY <2>4 DEF AddNode, database
  <2>5. ASSUME NEW removed \in SUBSET Nodes, RemoveNodes(removed) PROVE TypeOK'
    BY <2>5 DEF RemoveNodes, database
  <2>8. ASSUME NEW n \in Nodes, BeginWrite(n) PROVE TypeOK'
    BY <2>8 DEF BeginWrite, database
  <2>6. CASE Registering \/ RegistrationFails
    <3> USE HistorizerAssumption DEF Continue, Leave, NoRegistration, database
    <3>1. registration.step # "idle" => registration.node \in Nodes /\ registration.type \in Types
      OBVIOUS
    <3>2. CASE IsHistorized
      <4> DEFINE known == registration.node \in historized
      <4>1. known \in BOOLEAN
        OBVIOUS
      <4>2. /\ registration.step = "lookup"
            /\ registration' = [registration EXCEPT !.step = "record", !.known = known]
            /\ UNCHANGED <<nodesTable, domains, historized, table, process, nodeType,
                          monitored, writing>>
        BY <3>2, Zenon DEF IsHistorized
      <4> HIDE DEF known
      <4>3. registration \in [step : {"lookup"}, node : Nodes, type : Types, known : BOOLEAN]
        BY <4>2
      <4>4. registration' \in [step : {"record"}, node : Nodes, type : Types, known : BOOLEAN]
        BY <4>1, <4>2, <4>3
      <4> QED BY <4>2, <4>4
    <3>3. CASE RecordNode BY <3>3 DEF RecordNode
    <3>4. CASE CreateTable BY <3>4 DEF CreateTable
    <3>5. ASSUME Commit, registration.step = "commit"
          PROVE  historized' \subseteq Nodes /\ table' \in [Nodes -> Types \cup {Nothing}]
      BY <3>1, <3>5 DEF Commit, NewTable
    <3>6. CASE CommitRegistration BY <3>5, <3>6 DEF CommitRegistration, Commit
    <3>7. CASE CreateMonitoredItem BY <3>1, <3>7 DEF CreateMonitoredItem
    <3>8. CASE RegistrationFails BY <3>5, <3>8 DEF RegistrationFails, Commit
    <3> QED BY <2>6, <3>2, <3>3, <3>4, <3>6, <3>7, <3>8 DEF Registering
  <2>7. CASE Writing \/ WriteFails
    BY <2>7 DEF Writing, WriteFails, InsertValue, UpdateHistorized, CommitValue,
       database, NoWrite
  <2> QED BY <2>1, <2>2, <2>3, <2>4, <2>5, <2>6, <2>7, <2>8 DEF Next
<1> QED BY <1>1, <1>2, PTL DEF Spec

-----------------------------------------------------------------------------
(* A write that has stored its value found a table, and a node has a table *)
(* exactly if it has a row: both are written by one commit.                *)
RecordsInv ==
  /\ TypeOK
  /\ RegisteredHasTable
  /\ MonitoredIsRegistered
  /\ UpdateFindsRow
  /\ registration.step = "monitor" => registration.node \in historized

(* The database stays consistent under everything that changes it.         *)
LEMMA CommitKeepsRecords ==
  ASSUME TypeOK, RegisteredHasTable, registration.step = "commit", Commit
  PROVE  /\ RegisteredHasTable'
         /\ historized \subseteq historized'
         /\ registration.node \in historized'
  BY HistorizerAssumption DEF TypeOK, RegisteredHasTable, Commit, NewTable, NoRegistration

(* registerNodeId is atomic in its effects, sampling starts after it, and  *)
(* write never updates a row that is not there.                            *)
THEOREM RecordsAgree == Spec => []RecordsInv
<1> USE DEF RecordsInv, MonitoredIsRegistered, UpdateFindsRow
<1>1. Init => RecordsInv
  <2> SUFFICES ASSUME Init PROVE RecordsInv
    OBVIOUS
  <2>1. TypeOK
    BY DEF Init, TypeOK
  <2> QED BY <2>1 DEF Init, RegisteredHasTable, NoRegistration, NoWrite
<1>2. RecordsInv /\ TypeOK' /\ [Next]_historizerVars => RecordsInv'
  <2> SUFFICES ASSUME RecordsInv, TypeOK', [Next]_historizerVars PROVE RecordsInv'
    OBVIOUS
  <2>1. CASE UNCHANGED historizerVars
    BY <2>1 DEF historizerVars, database, adapter, RegisteredHasTable
  <2>2. CASE Start \/ StartUp \/ StartFails
    BY <2>2 DEF Start, StartUp, StartFails, CreateNodesTable, CreateDomains,
       CommitNodesTable, QueryTypes, database, RegisteredHasTable
  <2>3. CASE Crash
    BY <2>3 DEF Crash, database, RegisteredHasTable, NoRegistration, NoWrite
  <2>4. ASSUME NEW n \in Nodes, NEW t \in Types, AddNode(n, t) PROVE RecordsInv'
    BY <2>4 DEF AddNode, database, RegisteredHasTable, NoRegistration
  <2>5. ASSUME NEW removed \in SUBSET Nodes, RemoveNodes(removed) PROVE RecordsInv'
    BY <2>5 DEF RemoveNodes, database, RegisteredHasTable
  <2>11. ASSUME NEW n \in Nodes, BeginWrite(n) PROVE RecordsInv'
    BY <2>11 DEF BeginWrite, database, RegisteredHasTable
  <2>6. CASE IsHistorized \/ RecordNode \/ CreateTable
    BY <2>6 DEF IsHistorized, RecordNode, CreateTable, Continue, database,
       RegisteredHasTable, TypeOK, NoRegistration
  <2>7. CASE CommitRegistration
    BY <2>7, CommitKeepsRecords DEF CommitRegistration, Continue, TypeOK, NoRegistration
  <2>8. CASE CreateMonitoredItem
    BY <2>8 DEF CreateMonitoredItem, Leave, database, RegisteredHasTable, NoRegistration
  <2>9. CASE RegistrationFails
    <3>1. RegisteredHasTable' /\ historized \subseteq historized'
      BY <2>9, CommitKeepsRecords DEF RegistrationFails, database, RegisteredHasTable
    <3> QED BY <2>9, <3>1 DEF RegistrationFails, Leave, NoRegistration
  <2>10. CASE Writing \/ WriteFails
    BY <2>10 DEF Writing, WriteFails, InsertValue, UpdateHistorized, CommitValue,
       database, RegisteredHasTable, TypeOK, NoWrite
  <2> QED BY <2>1, <2>2, <2>3, <2>4, <2>5, <2>6, <2>7, <2>8, <2>9, <2>10,
             <2>11 DEF Next, Registering
<1> QED BY <1>1, <1>2, HistorizerTypeCorrect, PTL DEF Spec

(* registerNodeId is all or nothing, through crashes and refusals.         *)
THEOREM RegistrationIsAtomic == Spec => []RegisteredHasTable
  BY RecordsAgree, PTL DEF RecordsInv

(* Sampling never starts before the node's table is committed.             *)
THEOREM SamplingFollowsRegistration == Spec => []MonitoredIsRegistered
  BY RecordsAgree, PTL DEF RecordsInv

(* write's UPDATE always finds the row of its node.                        *)
THEOREM ValuesAreRecorded == Spec => []UpdateFindsRow
  BY RecordsAgree, PTL DEF RecordsInv

-----------------------------------------------------------------------------
(* A registration that commits is the one step that changes the store: of a *)
(* node that is there already it changes nothing.                          *)
LEMMA CommitIsRegistration ==
  ASSUME RecordsInv, registration.step = "commit", Commit,
         UNCHANGED <<monitored, Storing>>
  PROVE  [Store!Next]_(Store!storeVars)
<1> DEFINE n == registration.node
           t == registration.type
<1>1. /\ n \in Nodes /\ t \in Types
      /\ historized \subseteq Nodes /\ table \in [Nodes -> Types \cup {Nothing}]
  BY DEF RecordsInv, TypeOK, NoRegistration
<1>2. n \in historized <=> table[n] # Nothing
  BY <1>1 DEF RecordsInv, RegisteredHasTable
<1>3. CASE n \in historized
  <2>1. UNCHANGED <<historized, table>>
    BY <1>1, <1>2, <1>3 DEF Commit, NewTable
  <2> QED BY <2>1 DEF Store!storeVars
<1>4. CASE n \notin historized
  <2>1. Store!Register(n, t)
    BY <1>1, <1>2, <1>4 DEF Commit, NewTable, Store!Register
  <2> QED BY <1>1, <2>1 DEF Store!Next
<1> QED BY <1>3, <1>4

(* The historizer implements the store of histories: crashes, refusals,    *)
(* commits in doubt and the two threads' transactions show to no reader.   *)
THEOREM HistorizerIsStore == Spec => IsHistoryStore
<1>1. Init => Store!Init
  BY DEF Init, Store!Init, Storing, NoWrite
<1>2. RecordsInv /\ [Next]_historizerVars => [Store!Next]_(Store!storeVars)
  <2> SUFFICES ASSUME RecordsInv, [Next]_historizerVars
               PROVE  [Store!Next]_(Store!storeVars)
    OBVIOUS
  <2> USE DEF Store!storeVars
  <2>1. CASE UNCHANGED <<historized, table, monitored, writing>>
    BY <2>1 DEF Storing
  <2>2. CASE Crash
    <3>1. Store!Restart
      BY <2>2 DEF Crash, database, Storing, NoWrite, Store!Restart
    <3> QED BY <3>1 DEF Store!Next
  <2>3. CASE CommitRegistration
    BY <2>3, CommitIsRegistration DEF CommitRegistration, Storing
  <2>4. CASE RegistrationFails
    BY <2>4, CommitIsRegistration DEF RegistrationFails, database, Storing
  <2>5. CASE CreateMonitoredItem
    <3> DEFINE n == registration.node
    <3>1. n \in Nodes /\ n \in historized
      BY <2>5 DEF CreateMonitoredItem, RecordsInv, TypeOK, NoRegistration
    <3>2. CASE monitored' = monitored
      BY <2>5, <3>2 DEF CreateMonitoredItem, database, Storing
    <3>3. CASE monitored' = monitored \cup {n}
      <4>1. Store!Sample(n)
        BY <2>5, <3>1, <3>3 DEF CreateMonitoredItem, database, Storing, Store!Sample
      <4> QED BY <3>1, <4>1 DEF Store!Next
    <3> QED BY <2>5, <3>2, <3>3 DEF CreateMonitoredItem
  <2>6. ASSUME UNCHANGED <<database, monitored>>, Storing # Nothing, Storing' = Nothing
        PROVE  Store!Next
    BY <2>6 DEF database, Store!EndStore, Store!Next
  <2>7. ASSUME NEW n \in Nodes, BeginWrite(n) PROVE UNCHANGED Store!storeVars
    BY <2>7 DEF BeginWrite, database, Storing, NoWrite
  <2>8. CASE InsertValue
    <3>1. CASE writing' = NoWrite
      BY <2>8, <3>1 DEF InsertValue, database, Storing, NoWrite
    <3>2. CASE writing' = [writing EXCEPT !.step = "update"] /\ table[writing.node] # Nothing
      <4>1. writing.node \in Nodes /\ Storing = Nothing /\ Storing' = writing.node
        BY <2>8, <3>2 DEF InsertValue, RecordsInv, TypeOK, Storing, NoWrite
      <4>2. Store!BeginStore(writing.node)
        BY <2>8, <3>2, <4>1
           DEF InsertValue, database, RecordsInv, RegisteredHasTable, Store!BeginStore
      <4> QED BY <4>1, <4>2 DEF Store!Next
    <3> QED BY <2>8, <3>1, <3>2 DEF InsertValue
  <2>9. CASE UpdateHistorized
    <3>1. Storing' = Storing
      BY <2>9 DEF UpdateHistorized, RecordsInv, TypeOK, Storing, NoWrite
    <3> QED BY <2>9, <3>1 DEF UpdateHistorized, database
  <2>10. CASE CommitValue \/ WriteFails
    <3>1. UNCHANGED <<database, monitored>> /\ Storing' = Nothing
      BY <2>10 DEF CommitValue, WriteFails, Storing, NoWrite
    <3> QED BY <2>6, <3>1 DEF database
  <2> QED BY <2>1, <2>2, <2>3, <2>4, <2>5, <2>7, <2>8, <2>9, <2>10
          DEF Next, Registering, Writing, historizerVars, database, adapter, Start,
              StartUp, CreateNodesTable, CreateDomains, CommitNodesTable, QueryTypes,
              StartFails, AddNode, RemoveNodes, IsHistorized, RecordNode, CreateTable
<1> QED BY <1>1, <1>2, RecordsAgree, PTL DEF Spec, IsHistoryStore, Store!Spec

-----------------------------------------------------------------------------
(* The constructor passes queryTypeOIDs only with all it needs.            *)
StartInv ==
  /\ process \in {"queryTypes", "available"} => nodesTable
  /\ process = "available" => domains

(* A historizer that came up has its tables and domains.                   *)
THEOREM StartIsComplete == Spec => []StartedIsReady
<1>1. Init => StartInv
  BY DEF Init, StartInv
<1>2. StartInv /\ [Next]_historizerVars => StartInv'
  BY DEF StartInv, Next, historizerVars, database, adapter, Start, StartUp, StartFails,
     Crash, CreateNodesTable, CreateDomains, CommitNodesTable, QueryTypes, StartSteps,
     AddNode, RemoveNodes, BeginWrite, Registering, IsHistorized, RecordNode, CreateTable,
     CommitRegistration, CreateMonitoredItem, RegistrationFails, Commit, Writing,
     InsertValue, UpdateHistorized, CommitValue, WriteFails
<1>3. StartInv => StartedIsReady
  BY DEF StartInv, StartedIsReady
<1> QED BY <1>1, <1>2, <1>3, PTL DEF Spec

(* On a database that nobody has prepared no start succeeds, however often *)
(* it is tried, and nothing is ever historized: the constructor's own      *)
(* createDomainRestrictions leaves no domain behind.                       *)
UnpreparedInv ==
  /\ domains = FALSE
  /\ process # "available" /\ registration = NoRegistration /\ writing = NoWrite
  /\ historized = {} /\ monitored = {}

THEOREM UnpreparedDatabaseStaysEmpty ==
  Spec /\ domains = FALSE =>
    [](/\ process # "available" /\ registration = NoRegistration /\ writing = NoWrite
       /\ historized = {} /\ monitored = {})
<1>1. Init /\ domains = FALSE => UnpreparedInv
  BY DEF Init, UnpreparedInv
<1>2. UnpreparedInv /\ [Next]_historizerVars => UnpreparedInv'
  BY DEF UnpreparedInv, NoRegistration, NoWrite, Next, historizerVars, database, adapter,
     Start, StartUp, StartFails, Crash, CreateNodesTable, CreateDomains, CommitNodesTable,
     QueryTypes, StartSteps, AddNode, RemoveNodes, BeginWrite, Registering, IsHistorized,
     RecordNode, CreateTable, CommitRegistration, CreateMonitoredItem, RegistrationFails,
     Writing, InsertValue, UpdateHistorized, CommitValue, WriteFails
<1>3. UnpreparedInv =>
        /\ process # "available" /\ registration = NoRegistration /\ writing = NoWrite
        /\ historized = {} /\ monitored = {}
  BY DEF UnpreparedInv
<1> QED BY <1>1, <1>2, <1>3, PTL DEF Spec

-----------------------------------------------------------------------------
(* A registration is of the type that its node always has.                 *)
LastingType(T) ==
  registration # NoRegistration => registration.type = T[registration.node]

(* So is every table.                                                      *)
FitInv(T) == TableFitsNode /\ \A n \in Nodes : table[n] \in {Nothing, T[n]}

(* The table of a registered node is of the node's type, unless a node has  *)
(* come back with another type: of all that can happen between two         *)
(* registrations, crashes and failures included, only that does harm.      *)
THEOREM TablesFitLastingTypes ==
  ASSUME NEW T \in [Nodes -> Types]
  PROVE  Spec /\ []LastingType(T) => []TableFitsNode
<1>1. Init => FitInv(T)
  BY DEF Init, FitInv, TableFitsNode, NoRegistration
<1>2. TypeOK /\ LastingType(T) /\ FitInv(T) /\ [Next]_historizerVars => FitInv(T)'
  <2> SUFFICES ASSUME TypeOK, LastingType(T), FitInv(T), [Next]_historizerVars
               PROVE  FitInv(T)'
    OBVIOUS
  <2>1. CASE UNCHANGED <<table, registration>>
    BY <2>1 DEF FitInv, TableFitsNode
  <2>2. CASE UNCHANGED table /\ registration' = NoRegistration
    BY <2>2 DEF FitInv, TableFitsNode, NoRegistration
  <2>3. ASSUME NEW n \in Nodes, NEW t \in Types, AddNode(n, t) PROVE FitInv(T)'
    BY <2>3 DEF AddNode, database, FitInv, TableFitsNode, NoRegistration
  <2>4. CASE IsHistorized \/ RecordNode \/ CreateTable
    <3>1. registration \in [step : {"lookup", "record", "createTable"}, node : Nodes,
                            type : Types, known : BOOLEAN]
      BY <2>4 DEF IsHistorized, RecordNode, CreateTable, TypeOK, NoRegistration
    <3> DEFINE known == registration.node \in historized
    <3>2. IsHistorized =>
            registration' = [registration EXCEPT !.step = "record", !.known = known]
      BY Zenon DEF IsHistorized
    <3> HIDE DEF known
    <3>3. /\ registration'.node = registration.node
          /\ registration'.type = registration.type
          /\ registration'.step \in {"record", "createTable", "commit"}
      BY <2>4, <3>1, <3>2 DEF RecordNode, CreateTable, Continue
    <3>4. UNCHANGED table
      BY <2>4 DEF IsHistorized, RecordNode, CreateTable, database
    <3>5. registration # NoRegistration
      BY <3>1 DEF NoRegistration
    <3> QED BY <3>3, <3>4, <3>5 DEF FitInv, TableFitsNode
  <2>5. ASSUME registration.step = "commit", Commit
        PROVE  /\ \A n \in Nodes : table'[n] \in {Nothing, T[n]}
               /\ table'[registration.node] = registration.type
    <3>1. registration # NoRegistration /\ registration.node \in Nodes
      BY <2>5 DEF TypeOK, NoRegistration
    <3>2. registration.type = T[registration.node]
      BY <3>1 DEF LastingType
    <3>3. \A n \in Nodes :
            table'[n] = IF n = registration.node /\ table[n] = Nothing
                          THEN registration.type ELSE table[n]
      BY <2>5, <3>1 DEF Commit, NewTable, TypeOK
    <3>4. T[registration.node] # Nothing
      BY <3>1, HistorizerAssumption
    <3> QED BY <3>1, <3>2, <3>3, <3>4 DEF FitInv
  <2>6. CASE CommitRegistration
    BY <2>5, <2>6 DEF CommitRegistration, Continue, FitInv, TableFitsNode, TypeOK,
                      NoRegistration
  <2>7. CASE RegistrationFails
    BY <2>2, <2>5, <2>7
       DEF RegistrationFails, Leave, database, FitInv, TableFitsNode, NoRegistration
  <2> QED BY <2>1, <2>2, <2>3, <2>4, <2>6, <2>7
          DEF Next, Registering, historizerVars, database, adapter, Start, StartUp,
              CreateNodesTable, CreateDomains, CommitNodesTable, QueryTypes, StartFails,
              Crash, RemoveNodes, BeginWrite, CreateMonitoredItem, Leave, Writing,
              InsertValue, UpdateHistorized, CommitValue, WriteFails
<1>3. FitInv(T) => TableFitsNode
  BY DEF FitInv
<1> QED BY <1>1, <1>2, <1>3, HistorizerTypeCorrect, PTL DEF Spec
=============================================================================
