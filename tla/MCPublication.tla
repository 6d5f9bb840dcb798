--------------------------- MODULE MCPublication ---------------------------
EXTENDS Publication, TLC

CONSTANTS h1, h2, c1, c2

(* An answer may leave out any cell of its window. *)
MCWindows == {Cells}

Symmetric == Permutations(Handlers) \cup Permutations(Cells)
=============================================================================
