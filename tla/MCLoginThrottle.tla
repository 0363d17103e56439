--------------------------- MODULE MCLoginThrottle ---------------------------
(* Three requests over three keys and a map with room for two of them, so  *)
(* that every key can be kept out by its own budget and by other keys; a    *)
(* window of two seconds with half seconds left over in between, and a      *)
(* clock that runs over one window and a half.                              *)
EXTENDS LoginThrottle, TLC

Symmetry == Permutations(Workers) \cup Permutations(Keys \ {Watched})
=============================================================================
