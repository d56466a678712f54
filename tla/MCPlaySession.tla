--------------------------- MODULE MCPlaySession ---------------------------
(***************************************************************************)
(* Instances of PlaySession for TLC.                                       *)
(***************************************************************************)
EXTENDS PlaySession, TLC

Everything == AllOps
\* One arc without stepping back to a saved page.
Forward == AllOps \ {"restore"}
\* One page open on the adventure screen: it asks for the opening and plays.
OnePage == {"act", "opening"}
PlayAndRestart == {"act", "restart"}
\* What overlaps in two tabs that build a sheet, play and begin anew.
TwoTabs == {"act", "creation", "restart"}
ActOnly == {"act"}

\* Actions are told apart only by equality, and threads too.
Symmetry == Permutations(Keys) \cup Permutations(Requests)
=============================================================================
