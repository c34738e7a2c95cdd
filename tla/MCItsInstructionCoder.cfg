CONSTANTS
  Null = Null
  Undefined = Undefined
  None = None
  InstructionNames <- MCInstructionNames
  Strings <- MCStrings
  Buffers <- MCBuffers
  Arrays <- MCArrays
  PublicKeys <- MCPublicKeys
  Amounts <- MCAmounts
  Smalls <- MCSmalls
  TokenManagerTypes <- MCTokenManagerTypes
  Operators <- MCOperators
SPECIFICATION Spec
INVARIANT TypeOK
INVARIANT ReturnedIsCanonical
INVARIANT DeliveredIsTheCall
INVARIANT AsciiRecordEncodes
