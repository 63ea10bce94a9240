\* Fair processes; users may never answer.
CONSTANTS
  Procs = {p1, p2}
  Names = {n1}
  Caps = {c1}
  Passwords = {w1}
  Revisions = {r1, r2, r3}
  MaxProjects = 1
  MaxUndurable = 1
  Nil = Nil
  Torn = Torn

SPECIFICATION FairSpec

PROPERTIES
  LockReleased
  NeverStuck
