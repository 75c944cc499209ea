\* A limit of 0 for a contract that has no repeating task.
SPECIFICATION Spec
CONSTANTS
  c1 = c1
  c2 = c2
  Contracts = {c1, c2}
  o1 = o1
  Ops = {o1}
  EpochLength = 2
  Caps <- MCCaps
  TotalContractsMaxCap = 2
  MaxHeight = 4
INVARIANT NoRebalancesForZeroLimit
