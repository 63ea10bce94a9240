\* Three requests, two at a time, one of them paid for; fair threads and clients.
CONSTANTS
  Requests = {r1, r2, r3}
  MaxInFlight = 2
  Budget = 1
  Nil = Nil

SPECIFICATION FairSpec

\* The parent exits.
CHECK_DEADLOCK FALSE

INVARIANTS
  SlotsAccounted
  NoticeIsTrue

PROPERTIES
  ImplementsGateway
  Answered
