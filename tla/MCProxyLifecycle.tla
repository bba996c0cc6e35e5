-------------------------- MODULE MCProxyLifecycle --------------------------
(* Instances of ProxyLifecycle for TLC; the .cfg files give the constants. *)
EXTENDS ProxyLifecycle

NameSymmetry == Permutations(Names)
=============================================================================
