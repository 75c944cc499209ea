SPECIFICATION FairSpec
CONSTANTS
  c1 = c1
  c2 = c2
  Contracts = {c1, c2}
  o1 = o1
  o2 = o2
  Ops = {o1, o2}
  EpochLength = 2
  Caps <- MCCaps
  TotalContractsMaxCap = 2
  MaxHeight = 6
\* A panic in EndBlock stops the chain.
CHECK_DEADLOCK FALSE
INVARIANTS
  TypeOK
  NoStaleTasks
  OneRepeatingTask
  ActiveContractsRebalance
  MissedReportsAreErrors
  ReportsAreFresh
  ServedOncePerBlock
  LimitsFitTotal
  FailingContractsDoNotHalt
PROPERTIES
  LoweredLimitIsServed
  ZeroLimitStopsRebalances
  ImplementsEpochService
  StrictHandlerHalts
  RegularRebalance
