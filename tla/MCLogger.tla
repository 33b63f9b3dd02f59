------------------------------ MODULE MCLogger ------------------------------
(* Tasks and configs are alike; West is UTC-8, four hours being a tick.     *)
EXTENDS Logger, TLC

Symmetry == Permutations(Tasks) \cup Permutations(Configs)
West == {-2}

=============================================================================
