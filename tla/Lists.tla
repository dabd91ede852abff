------------------------------- MODULE Lists --------------------------------
(* What the models take of sequences besides the community modules.        *)
EXTENDS Integers, SequencesExt

\* The entries of l at the places of a set, in their order.
Picked(l, places) ==
  [k \in 1 .. Cardinality(places) |->
     l[CHOOSE i \in places : Cardinality({j \in places : j <= i}) = k]]

\* What a step, taken for each entry of l in turn, makes of w.
InTurn(step(_, _), w, l) ==
  LET along[k \in 0 .. Len(l)] == IF k = 0 THEN w ELSE step(along[k - 1], l[k])
  IN  along[Len(l)]
=============================================================================
