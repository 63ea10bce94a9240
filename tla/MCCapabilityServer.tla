------------------------- MODULE MCCapabilityServer -------------------------
(* Small instances of CapabilityServer for TLC.                            *)
EXTENDS CapabilityServer
=============================================================================
