SPECIFICATION Spec
CONSTANTS
  Clients = {c1, c2}
  Byte <- MCByte
  Source <- MCSource
  BUFSIZE = 2
  Garbage <- MCGarbage
  MaxFaults = 2
INVARIANTS
  StoredIsPrefix
  NothingMissing
  CompleteIsStored
  IInv
PROPERTY ImplementsPrefixCopy
