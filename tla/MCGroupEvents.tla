---------------------------- MODULE MCGroupEvents ----------------------------
(* An instance of GroupEvents small enough for TLC. *)
EXTENDS GroupEvents, TLC

CONSTANTS ann, bob, cat, p1, p2

Symmetry == Permutations({p1, p2})

=============================================================================
