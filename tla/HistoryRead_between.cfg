\* The range in which the formula holds is smaller than the type's.
SPECIFICATION HistorySpec
CONSTANTS
  Half = 4
  Exact = 2
  Times <- MCTimes
  NodesToRead = 1
  ReqTimes = 1
  MaxRows = 1
INVARIANT
  InterpolationIsBetween
CHECK_DEADLOCK FALSE
