CONSTANTS
  Null = Null
  Undefined = Undefined
  None = None
  AccountNames <- MCAccountNames
  TokenManagerTypes <- MCTokenManagerTypes
  Arrays <- MCArrays
  PublicKeys <- MCPublicKeys
  Amounts <- MCAmounts
  Smalls <- MCSmalls
  Buffers <- MCBuffers
SPECIFICATION Spec
INVARIANT TypeOK
INVARIANT RoundTrip
INVARIANT EncodedSizeAgrees
INVARIANT TruncatedIsRejected
