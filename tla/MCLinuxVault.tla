---------------------------- MODULE MCLinuxVault ----------------------------
(* Small instances of LinuxVault for TLC.                                  *)
EXTENDS LinuxVault, TLC

(* Processes, names, capabilities and passwords are interchangeable, and   *)
(* so are revisions: the one that FreshRevision draws occurs nowhere in    *)
(* the state, so drawing another only exchanges the two in what follows.   *)
Symmetry ==
  Permutations(Procs) \cup Permutations(Names) \cup Permutations(Caps)
    \cup Permutations(Passwords) \cup Permutations(Revisions)
=============================================================================
