SPECIFICATION FairSpec
CONSTANTS
  Types <- MCTypes
  Unmarshal <- Unmarshals
  Zero <- Zeros
  Inputs <- MCInputs
  WordBits = 15
  FieldBits = 8
  UintBits = 8
  LongLength = 130
  GarbageLength = 4
\* A call returns.
CHECK_DEADLOCK FALSE
INVARIANTS TypeOK ReadsInBounds DecodesWhatWasSent TruncationNeverCorrupts
PROPERTY Terminates
