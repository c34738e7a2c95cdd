CONSTANTS
  Null = Null
  Undefined = Undefined
  None = None
  InstructionNames <- MCInstructionNames
  Strings <- MCAsciiStrings
  Buffers <- MCBuffers
  Arrays <- MCArraysOf32
  PublicKeys <- MCPublicKeys
  Amounts <- MCAmounts
  Smalls <- MCSmalls
  TokenManagerTypes <- MCTokenManagerTypes
  Operators <- MCGivenOperators
SPECIFICATION Spec
PROPERTY ImplementsFormat
