----------------------------- MODULE MCForwarding -----------------------------
(* Instances of Forwarding for TLC; the .cfg files give the constants.     *)
EXTENDS Forwarding
=============================================================================
