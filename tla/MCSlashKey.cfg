CONSTANTS
  ByteSize = 16
  IntLen = 2
  ValAddrs <- MCValAddrs
  Numbers <- MCNumbers
  Amounts <- MCAmounts
  Fractions <- MCFractions
SPECIFICATION Spec
CHECK_DEADLOCK FALSE
INVARIANT SlashIsReported
