SPECIFICATION FairSpec
CONSTANTS
  c1 = c1
  c2 = c2
  c3 = c3
  NoClient = NoClient
  Clients <- MCClients
  MaxSent <- MCMaxSent
  LastFd = 5
  MinusOne = 4
  TableEnd = 4
INVARIANTS
  IInv
  TableIsExact
  NeverWaitsForOne
PROPERTIES
  ImplementsEcho
  EventuallyEchoed
  EventuallyClosed
CHECK_DEADLOCK FALSE
