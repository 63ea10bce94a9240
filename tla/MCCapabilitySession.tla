------------------------ MODULE MCCapabilitySession ------------------------
(* Small instances of CapabilitySession for TLC.                           *)
EXTENDS CapabilitySession
=============================================================================
