----------------------------- MODULE PlayBoard -----------------------------
(***************************************************************************)
(* The live state of one campaign (backend/app/modules/play/state.py,      *)
(* PlayState) as the persistence layer tells two states apart, and the     *)
(* pure functions the HTTP handlers apply to it.                           *)
(*                                                                         *)
(* Everything a beat can change inside the story is one number per player  *)
(* action: how many times that action's effects are in the state.          *)
(***************************************************************************)
EXTENDS Naturals

CONSTANT Keys   \* player actions, each under the idempotency key its client drew

Board ==
    [ turns     : Nat,            \* actions_taken
      applied   : [Keys -> Nat],  \* effects present, per action
      pending   : BOOLEAN,        \* opening_pending
      road      : BOOLEAN,        \* location = PROLOGUE
      created   : BOOLEAN,        \* pc["created"]
      completed : BOOLEAN ]       \* the arc has been finished

\* seeded_state(): the prologue road, nothing written and nothing done.
SeededState ==
    [ turns |-> 0, applied |-> [k \in Keys |-> 0], pending |-> TRUE,
      road |-> TRUE, created |-> FALSE, completed |-> FALSE ]

\* What ActEngine.act may leave behind when action k resolves on board b: the
\* action is counted and applied; it may walk the player off the road (no beat
\* walks back) and it may finish the arc, away from the road.
Resolutions(b, k) ==
    {c \in [ turns     : {b.turns + 1},
             applied   : {[b.applied EXCEPT ![k] = @ + 1]},
             pending   : {b.pending},
             road      : {b.road, FALSE},
             created   : {b.created},
             completed : {b.completed, TRUE} ] :
        c.completed /\ ~b.completed => ~c.road}

\* narrate_opening(): the first page is written and no longer owed.
Opened(b) == [b EXCEPT !.pending = FALSE]

\* apply_creation() on the sheet: a chronicle still on the prologue road is
\* handed back to the narrator (reopen_prologue_opening).
Built(b) == [b EXCEPT !.created = TRUE, !.pending = b.pending \/ b.road]

\* restart_campaign(): the opening scene again, with the sheet the player built.
NewJourney(b) == [SeededState EXCEPT !.created = b.created]

\* restore_save(): the saved page, counted as one more action on the board.
TurnedBack(b) == [b EXCEPT !.turns = @ + 1]

\* The actions whose traces (memories, relationship moves) a board carries.
Remembered(b) == {k \in Keys : b.applied[k] > 0}
=============================================================================
