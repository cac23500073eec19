\* The system may refuse to create a thread.
SPECIFICATION AdapterSpec
CONSTANTS
  d1 = d1
  l1 = l1
  Nobody = Nobody
  Devices = {d1}
  Groups = {}
  Leaves = {l1}
  Parent <- MCParent
  FunctionOf <- MCFunctionOf
  MaxRegistrations = 2
  RegistrationReads = {"value", "exception"}
  LateRequests = TRUE
  ThreadsMayFail = TRUE
INVARIANTS
  NeverTerminates
  StoppedIsQuiet
  RunningIsServed
PROPERTIES
  JoinsAdvance
  CallsReturn
