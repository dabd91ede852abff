------------------------------ MODULE MCTrade ------------------------------
(* Instances of Trade for TLC; players, swords and houses are symmetric.   *)
EXTENDS Trade, TLC

Symmetry == Permutations(Players) \cup Permutations(Bags) \cup Permutations(Swords)
              \cup Permutations(Houses) \cup Permutations(Deeds)
=============================================================================
