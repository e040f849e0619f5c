SPECIFICATION Spec
CONSTANTS
  BUFSIZ = 4
  MaxWords = 4
INVARIANTS EchoIsTheWord
CHECK_DEADLOCK FALSE
