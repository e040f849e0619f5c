SPECIFICATION FairSpec
CONSTANTS
  c1 = c1
  c2 = c2
  c3 = c3
  NoClient = NoClient
  Clients = {c1, c2, c3}
  MaxSent <- MCMaxSent
  LastFd = 5
  MaxRunaways = 1
  MaxRestarts = 1
INVARIANTS IInv
PROPERTIES ImplementsEcho EventuallyEchoed
CHECK_DEADLOCK FALSE
