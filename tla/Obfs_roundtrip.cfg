SPECIFICATION Spec
CONSTANTS
  Size <- MCSize
  MAC2Offset <- MCMAC2Offset
  TransportHeaderSize = 6
  MinMessageSize = 7
  NonceLength = 2
  XORKeyLength = 4
  SuffixMaxLength = 3
  SuffixAsNonceMinLength = 8
  MaxPacketSize = 13
  XOR <- MCXOR
  TransportSizes = {7, 8, 13}
  Contents <- MCContents
  Suffixes <- MCSuffixes
  Masks <- MCMasks
INVARIANTS Recognized Restored
