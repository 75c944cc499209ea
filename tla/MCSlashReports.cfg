CONSTANTS
  c1 = c1
  c2 = c2
  v1 = v1
  v2 = v2
  Contracts = {c1, c2}
  Validators = {v1}
  MaxValidators = 1
  Stake = 1
  SlashAmounts = {1, 2}
  Adjusted = {}
  Edited = {}
  Precision = 4
  MaxTokens = 3
  MaxDilution = 2
SPECIFICATION Spec
INVARIANT SlashReportsAreFair
