SPECIFICATION Spec
CONSTANTS
  k1 = k1
  k2 = k2
  c1 = c1
  c2 = c2
  PrivateKeys = {k1, k2}
  ClientKeys = {c1, c2}
  ZeroKey = zero
  Nil = Nil
  Configs <- MCConfigs
  Messages <- MCMessages
INVARIANTS ExtractsConfigured StartsUnambiguous
