-------------------------- MODULE MCLogGroupAdmin --------------------------
(* Two statements, each any of the four functions, with one retry.          *)
EXTENDS LogGroupAdmin, TLC

CONSTANTS c1, c2

CallSymmetry == Permutations({c1, c2})

=============================================================================
