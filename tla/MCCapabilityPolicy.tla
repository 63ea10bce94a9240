------------------------- MODULE MCCapabilityPolicy -------------------------
(* A small instance of CapabilityPolicy for TLC.                           *)
EXTENDS CapabilityPolicy

(* Routes are interchangeable.                                             *)
Symmetry == Permutations(Routes)
=============================================================================
