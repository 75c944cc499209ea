CONSTANTS
  c1 = c1
  c2 = c2
  n = n
  v1 = v1
  Accounts = {c1, c2, n}
  Contracts = {c1, c2}
  Validators = {v1}
  Founder = n
  Precision = 2
  Amounts = {1, 2}
  Caps = {0, 2}
  TotalContractsMaxCap = 3
  Stake = 1
  Funds <- MCFunds
  Direct = {c2}
  SupportsOffset = TRUE
SPECIFICATION Spec
CHECK_DEADLOCK FALSE
INVARIANTS TypeOK PoolsMatch OffsetIsVirtual SupplyNeutral StakeCanLeave
PROPERTIES VirtualNeverLiquid ImplementsVirtualLedger
