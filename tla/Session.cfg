\* Two calls of any kind, one fair session.
CONSTANTS
  Calls = {c1, c2}
  Ids = {c1, c2, list}
  ListId = list
  MaxFrames = 4
  Nil = Nil

SPECIFICATION SessionFair

\* The session ends.
CHECK_DEADLOCK FALSE

INVARIANTS
  DisposedIsGone
  CloseHasCause

PROPERTIES
  ImplementsCalls
  CallsSettle
  DisposalEnds
