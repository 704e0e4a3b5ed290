---------------------------- MODULE MCLibRelease ----------------------------
(* LibRelease with runs that may be exchanged for one another. *)
EXTENDS LibRelease, TLC

Perms == Permutations(Runs)
=============================================================================
