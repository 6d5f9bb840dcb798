---------------------------- MODULE PublicCells ----------------------------
(***************************************************************************)
(* What publishing a cell promises: it is shown with one value for ever,   *)
(* until the source of the value changes; then it is hidden for ever.      *)
(* Nobody can subtract two values of one cell.                             *)
(***************************************************************************)
CONSTANTS Cells, Values, NoValue

VARIABLES
  value,  \* value[c]: what has been shown of c, or NoValue
  hidden  \* cells that are never shown again

vars == <<value, hidden>>

Init ==
  /\ value = [c \in Cells |-> NoValue]
  /\ hidden = {}

Show(c, v) ==
  /\ c \notin hidden
  /\ value[c] \in {NoValue, v}
  /\ value' = [value EXCEPT ![c] = v]
  /\ UNCHANGED hidden

Hide(cells) ==
  /\ hidden' = hidden \cup cells
  /\ UNCHANGED value

Next ==
  \/ \E c \in Cells, v \in Values : Show(c, v)
  \/ \E cells \in SUBSET Cells : Hide(cells)

Spec == Init /\ [][Next]_vars
=============================================================================
