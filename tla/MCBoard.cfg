SPECIFICATION FairSpec
CONSTANTS
  Pids = {1, 2, 3}
  Keys = {1, 2}
  FirstKey = 1
  Ticks = 2
  MaxStarts = 3
INVARIANTS IInv KilledUnprepared
PROPERTIES KeepsSignalling
CHECK_DEADLOCK FALSE
