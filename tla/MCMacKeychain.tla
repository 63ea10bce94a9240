---------------------------- MODULE MCMacKeychain ----------------------------
EXTENDS MacKeychain
=============================================================================
