---------------------------- MODULE MCOfferStore ----------------------------
EXTENDS OfferStore, TLC

CONSTANTS a, b, x, y

(* Three cells: 1 and 2 start together, 3 begins where 1 ends. *)
MCCells == 1..3
MCSlot == [c \in MCCells |-> IF c = 3 THEN "second" ELSE "first"]
MCAdjacent == {<<1, 3>>, <<3, 1>>}
MCWindows == {{1}, {3}, {1, 2, 3}}

(* x expires before y *)
MCPasts == {{}, {x}, {x, y}}

Symmetric == Permutations(Resources)
=============================================================================
