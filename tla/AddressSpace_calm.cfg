\* Devices answer while they are added, and no request outlives its device.
SPECIFICATION FairSpec
CONSTANTS
  d1 = d1
  d2 = d2
  g1 = g1
  l1 = l1
  l2 = l2
  l3 = l3
  Nobody = Nobody
  Devices <- MCDevices
  Groups <- MCGroups
  Leaves <- MCLeaves
  Parent <- MCParent
  FunctionOf <- MCFunctionOf
  MaxRegistrations = 3
  RegistrationReads = {"value"}
  LateRequests = FALSE
INVARIANTS
  NoOrphanCallback
  NoOrphanNode
PROPERTIES
  RemovedForCause
  DeregistrationClears
