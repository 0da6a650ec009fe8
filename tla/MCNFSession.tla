---------------------------- MODULE MCNFSession ----------------------------
(* TLC instances of NFSession: see the .cfg files for the bounds.          *)
EXTENDS NFSession
=============================================================================
