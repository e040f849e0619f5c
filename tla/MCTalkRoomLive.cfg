SPECIFICATION FairSpec
CONSTANTS
  u1 = u1
  u2 = u2
  u3 = u3
  NoUser = NoUser
  Users <- MCUsers
  MaxLines <- MCMaxLinesLive
  ListenSlot = 2
PROPERTIES
  Admitted
  EventuallyHeard
CHECK_DEADLOCK FALSE
