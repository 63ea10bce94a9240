\* Two processes edit, delete and create one project; each is fair, its user need not be.
CONSTANTS
  Procs = {p1, p2}
  Names = {n1}
  Caps = {c1, c2}
  Revisions = {r1, r2, r3, r4}
  Nil = Nil

SPECIFICATION FairSpec

PROPERTIES
  ImplementsRepository
  NoLostEdit
  OperationsEnd
