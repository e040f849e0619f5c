SPECIFICATION Spec
CONSTANTS
  u1 = u1
  u2 = u2
  u3 = u3
  NoUser = NoUser
  Users <- MCUsers
  MaxLines <- MCMaxLines
  ListenSlot = 2
INVARIANTS
  IInv
  TableIsFit
  HeardInOrder
PROPERTY ReachesAll
CHECK_DEADLOCK FALSE
