SPECIFICATION TalkFairSpec
CONSTANTS
  MaxTyped <- MCMaxTyped
INVARIANTS TalkInv SpinsUnnoticed
PROPERTIES ExitEnds
CHECK_DEADLOCK FALSE
