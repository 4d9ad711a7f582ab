----------------------------- MODULE MCAccounts -----------------------------
(* An instance of Accounts small enough for TLC. *)
EXTENDS Accounts, TLC

CONSTANTS s1, s2, l1, l2, l3, p1, p2

Symmetry == Permutations({s1, s2}) \union Permutations({l1, l2, l3}) \union Permutations({p1, p2})

=============================================================================
