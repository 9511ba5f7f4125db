----------------------------- MODULE Selections -----------------------------
(***************************************************************************)
(* What a loop leaves that goes through a sequence, skips some elements    *)
(* and keeps the others in their order, in terms of the places it keeps.   *)
(***************************************************************************)
EXTENDS Integers, Sequences, FiniteSets, SequencesExt

\* The sequence of some places, the first one first.
Ascending(places) ==
  CHOOSE p \in SetToSeqs(places) : \A i, j \in DOMAIN p : i < j => ~(p[j] < p[i])

\* What is at these places of q, in its order.
Kept(q, places) ==
  LET order == Ascending(places) IN [k \in DOMAIN order |-> q[order[k]]]

=============================================================================
