---------------------------- MODULE MCGroupRoles ----------------------------
(* Instances of GroupRoles small enough for TLC. *)
EXTENDS GroupRoles, TLC

CONSTANTS ann, bob, cat, p1, p2

Symmetry == Permutations({bob, cat}) \union Permutations({p1, p2})

=============================================================================
