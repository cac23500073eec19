\* Crashes, database failures and interleaved writes.
SPECIFICATION FairSpec
CONSTANTS
  n1 = n1
  n2 = n2
  boolean = boolean
  double = double
  Nothing = Nothing
  Nodes <- MCNodes
  Types <- MCTypes
INVARIANTS
  TypeOK
  StartedIsReady
  RegisteredHasTable
  MonitoredIsRegistered
  UpdateFindsRow
PROPERTIES
  IsHistoryStore
  RegistrationReturns
