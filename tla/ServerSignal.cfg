\* A frame after the signal.
CONSTANTS
  Ids = {a}
  MaxFrames = 2
  Nil = Nil

SPECIFICATION FairSpec

\* The process exits.
CHECK_DEADLOCK FALSE

PROPERTIES
  RefusesAfterSignal
