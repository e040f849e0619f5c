SPECIFICATION FairSpec
CONSTANTS
  c1 = c1
  c2 = c2
  c3 = c3
  NoSock = NoSock
  Clients <- MCClients
  MaxSent <- MCMaxSent
INVARIANTS
  IInv
  ZombiesAccounted
  RunawaysBounded
  ChildPerConnection
PROPERTIES
  ImplementsEcho
  EventuallyServed
  EventuallyEchoed
  EventuallyReaped
CHECK_DEADLOCK FALSE
