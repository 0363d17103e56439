------------------------------ MODULE MCHandlers ------------------------------
(* Every plan of up to three steps over two collections and two guards:    *)
(* two guards and one effect, or two effects and one that refuses.         *)
EXTENDS Handlers

Symmetry == Permutations(Collections) \cup Permutations(Guards)
===============================================================================
