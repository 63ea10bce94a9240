\* Any three frames; a fair process.
CONSTANTS
  Ids = {a}
  MaxFrames = 3
  Nil = Nil

SPECIFICATION FairSpec

\* The process exits.
CHECK_DEADLOCK FALSE

INVARIANTS
  RepliesMatch
  HandshakeFirst

PROPERTIES
  LateFramesRefused
  ShutsDown
  EveryFrameAnswered
