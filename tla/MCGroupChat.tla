----------------------------- MODULE MCGroupChat -----------------------------
(* An instance of GroupChat small enough for TLC. *)
EXTENDS GroupChat, TLC

CONSTANTS m1, p1, p2

Symmetry == Permutations({p1, p2})

=============================================================================
