\* Every path of up to five bytes against every two prefixes of up to three.
CONSTANTS
  Routes = {r1, r2}
  MaxBase = 3
  MaxPath = 5
  MaxPrefix = 3
  MaxPrefixes = 2
  Limit = 1
  Nil = Nil

SPECIFICATION Spec

SYMMETRY Symmetry

INVARIANTS
  TargetIsTheOneChecked
  StaysWithinGrant
  GrantIsUsable
  DeliveredWhole
  NoKeyDelivered
