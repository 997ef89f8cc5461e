SPECIFICATION Spec
CONSTANTS
  Prime = 32749
  OnesChain <- MCChain
  Small = 41
  Bytes = 2
  d <- MCd
  sqrtm1 <- MCRoot
  d2 <- MCd2
  Bi <- MCBi
  LimbBits = 1
  Fold <- MCFold
  Half = 16
  EvenRadix = 4
  OddRadix = 2
  ChunkAt <- MCChunks
  Seeds = {1, 2, 3}
  Messages = {1, 2}
  Tweaks = {7, 40000}
  Hash <- MCHash
  MaxKeys = 2
  MaxSigs = 2
  MaxTweaks = 1
INVARIANTS
  TypeOK
  NoOverflow
  TableRight
  KeysMatch
  DerivationsAgree
  SignaturesVerify
  VerifyDecides
  SecretsAgree
  ScalarsExact
  LimbsAgree
CHECK_DEADLOCK FALSE
