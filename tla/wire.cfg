SPECIFICATION WireSpec
CONSTANTS
  WordBytes = 1
  IV <- MCIV
  Compress <- MCCompress
  Jobs <- MCJobs
  Garbage <- MCGarbage
  NoDigest = NoDigest
  U32Len = 1
  PubLen = 4
  IntMax = 127
  Sign <- MCSign
  Proposals <- MCProposals
  NoBlock = NoBlock
  NoText = NoText
INVARIANTS
  TypeOK
  Conserved
  Delivered
PROPERTIES
  ImplementsHash
  ImplementsStandard
