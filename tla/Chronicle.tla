----------------------------- MODULE Chronicle -----------------------------
(***************************************************************************)
(* What the play session promises a player: one board, changed by one      *)
(* whole operation at a time, each computed from the board it replaces,    *)
(* and a shelf of pages the board really stood on.                         *)
(***************************************************************************)
EXTENDS PlayBoard

VARIABLES board, shelf

chronicleVars == <<board, shelf>>

Init ==
    /\ board = SeededState
    /\ shelf = {}

Beat ==
    /\ \E k \in Keys : board' \in Resolutions(board, k)
    /\ UNCHANGED shelf

Opening ==
    /\ board.pending
    /\ board' = Opened(board)
    /\ UNCHANGED shelf

Creation ==
    /\ ~board.created
    /\ board' = Built(board)
    /\ UNCHANGED shelf

\* A page is put on the shelf, or taken off it; the board does not move.
Keep ==
    /\ shelf' = shelf \cup {board}
    /\ UNCHANGED board

Prune ==
    /\ \E page \in shelf : shelf' = shelf \ {page}
    /\ UNCHANGED board

\* A new journey begins only when the run it ends is on the shelf.
Restart ==
    /\ board.turns > 0 => board \in shelf
    /\ board' = NewJourney(board)
    /\ UNCHANGED shelf

Restore ==
    /\ \E page \in shelf : board' = TurnedBack(page)
    /\ UNCHANGED shelf

Next == Beat \/ Opening \/ Creation \/ Keep \/ Prune \/ Restart \/ Restore

Spec == Init /\ [][Next]_chronicleVars
=============================================================================
