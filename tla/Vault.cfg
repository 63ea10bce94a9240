\* Two projects, room for one, two passwords; failing syncs, crashes, power losses.
CONSTANTS
  Procs = {p1, p2}
  Names = {n1, n2}
  Caps = {c1}
  Passwords = {w1, w2}
  Revisions = {r1, r2, r3}
  MaxProjects = 1
  MaxUndurable = 2
  Nil = Nil
  Torn = Torn

SPECIFICATION Spec

SYMMETRY Symmetry

INVARIANTS
  DraftIsCurrent
  HandoverMatches
  UnlockFailureIsGenuine
  VaultsDecodable

PROPERTIES
  NoLostEdit
  NoTempLeft
  PasswordStable
  ImplementsRepository
