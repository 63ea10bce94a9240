---------------------------- MODULE MCAppBroker ----------------------------
(* Small instances of AppBroker for TLC.                                   *)
EXTENDS AppBroker, TLC

(* Requests are interchangeable.                                           *)
Symmetry == Permutations(Requests)
=============================================================================
