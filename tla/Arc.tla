-------------------------------- MODULE Arc --------------------------------
(***************************************************************************)
(* What the mystery of one campaign promises, whatever beat moves it: the  *)
(* lead only ever hardens, one way into the undercroft is found once and   *)
(* never swapped, and the tale is told once a way in is held.              *)
(***************************************************************************)
EXTENDS Naturals

CONSTANTS Ways,  \* the routes that open the confrontation
          None   \* no route held yet

\* LEAD_STAGES, and the place of a stage in them.
Stages == {"unheard", "rumored", "accepted", "investigating", "solved"}
Rank(stage) ==
    CASE stage = "unheard"       -> 0
      [] stage = "rumored"       -> 1
      [] stage = "accepted"      -> 2
      [] stage = "investigating" -> 3
      [] stage = "solved"        -> 4

VARIABLES stage,  \* how far the lead has come
          way,    \* the route held
          done    \* the tale is told

vars == <<stage, way, done>>

Init == stage = "unheard" /\ way = None /\ done = FALSE

\* The lead hardens; only the confrontation solves it.
Learn ==
    /\ stage' \in Stages \ {"solved"}
    /\ Rank(stage') > Rank(stage)
    /\ UNCHANGED <<way, done>>

\* The first route anyone gives up, to someone who knew what to ask, is the
\* one the chronicle keeps; whoever holds one is investigating.
OpenWay ==
    /\ way = None /\ stage # "unheard"
    /\ way' \in Ways
    /\ stage' = "investigating"
    /\ UNCHANGED done

Finish ==
    /\ way # None /\ ~done
    /\ stage' = "solved" /\ done' = TRUE
    /\ UNCHANGED way

Next == Learn \/ OpenWay \/ Finish
Spec == Init /\ [][Next]_vars
=============================================================================
