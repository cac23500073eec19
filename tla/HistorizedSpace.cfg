\* Requests, samples and registrations of nodes over one database.
SPECIFICATION HistorizedSpec
CONSTANTS
  d1 = d1
  l1 = l1
  l2 = l2
  boolean = boolean
  double = double
  Nobody = Nobody
  Devices <- MCDevices
  Groups = {}
  Leaves <- MCLeaves
  Parent <- MCParent
  FunctionOf <- MCFunctionOf
  Types <- MCTypes
  TypeOf <- MCTypeOf
  MaxRegistrations = 2
  RegistrationReads = {"value"}
  LateRequests = TRUE
INVARIANT
  HistorizedOrReported
PROPERTIES
  EventsAreHandled
  KeepsAddressSpace
  KeepsHistorizer
