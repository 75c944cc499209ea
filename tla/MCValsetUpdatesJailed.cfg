CONSTANTS
  c1 = c1
  c2 = c2
  v1 = v1
  v2 = v2
  Contracts = {c1}
  Validators = {v1, v2}
  MaxValidators = 1
  Stake = 1
  SlashAmounts = {1}
  Adjusted = {c1}
  Edited = {v1, v2}
  Precision = 2
  MaxTokens = 3
  MaxDilution = 2
SPECIFICATION Spec
INVARIANT JailingIsReported
