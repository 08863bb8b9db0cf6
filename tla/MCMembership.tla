---------------------------- MODULE MCMembership ----------------------------
(* Membership on small instances: the renewals may be exchanged. *)
EXTENDS Membership, TLC

Symmetry == Permutations(Sessions)
=============================================================================
