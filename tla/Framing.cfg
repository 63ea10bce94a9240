\* Every stream of up to six bytes, limits of two bytes and one.
CONSTANTS
  Limit = 2
  ReplyLimit = 1
  MaxInput = 6

SPECIFICATION Spec

\* The stream ends.
CHECK_DEADLOCK FALSE

INVARIANTS
  ServerReadsLines
  AdapterReadsLines
