SPECIFICATION FairSpec
CONSTANTS
  c1 = c1
  c2 = c2
  Clients = {c1, c2}
  Style <- MCStyle
  MaxSent <- MCMaxSent
  RcvBuf = 2
  Kinds = {"echo", "silent", "pipe", "fifo", "msgq"}
  MaxRuns = 2
  Senders = 2
  Children = 2
  QueueCap = 1
INVARIANTS IInv AnswersInTurn
PROPERTIES AlarmEndsWait EventuallyAnswered
CHECK_DEADLOCK FALSE
