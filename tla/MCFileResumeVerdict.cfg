SPECIFICATION Spec
CONSTANTS
  Clients = {c1, c2}
  Byte <- MCByte
  Source <- MCSource
  BUFSIZE = 2
  Garbage <- MCGarbage
  MaxFaults = 1
INVARIANT CompleteMeansStored
