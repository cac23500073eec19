\* Two nodes at two times, with every interpolation of three-bit values.
SPECIFICATION HistorySpec
CONSTANTS
  Half = 4
  Exact = 2
  Times <- MCTimes
  NodesToRead = 2
  ReqTimes = 2
  MaxRows = 2
INVARIANTS
  TypeOK
  SafeRangeIsExact
  UnsignedStaysBelow
  EveryTimeIsAnswered
  LocationIsHonest
PROPERTY
  NodesAreIsolated
\* The request is answered, or the process has ended.
CHECK_DEADLOCK FALSE
