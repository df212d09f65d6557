---------------------------- MODULE MCNibpProtect ----------------------------
(* NibpProtect with the constants of the NibpProtect*.cfg files. *)
EXTENDS NibpProtect
=============================================================================
