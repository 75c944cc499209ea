SPECIFICATION FairMeshSpec
CONSTANTS
  c1 = c1
  c2 = c2
  Contracts = {c1, c2}
  Ops = {}
  EpochLength = 1
  Caps = {0, 1, 2}
  TotalContractsMaxCap = 2
  MaxHeight = 4
  Amounts = {1}
  MaxFailures = 1
  MaxSlashes = 1
  MaxRestarts = 1
PROPERTY VirtualIsNeverReleased
