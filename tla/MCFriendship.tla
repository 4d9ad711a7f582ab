---------------------------- MODULE MCFriendship ----------------------------
(* An instance of Friendship small enough for TLC. *)
EXTENDS Friendship, TLC

CONSTANTS u1, u2, u3, m1, p1, p2

Symmetry == Permutations({u1, u2, u3}) \union Permutations({p1, p2})

=============================================================================
