\* A request with a bad header.
CONSTANTS
  Requests = {r1, r2}
  MaxInFlight = 2
  Budget = 2
  Nil = Nil

SPECIFICATION Spec

SYMMETRY Symmetry

\* The parent exits.
CHECK_DEADLOCK FALSE

INVARIANTS
  InvalidRequestsAreFree
