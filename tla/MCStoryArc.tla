----------------------------- MODULE MCStoryArc -----------------------------
(* Which beats each run lets the player name. *)
EXTENDS StoryArc

\* Clues, routes, the map and Marla's room; no brawl.
RouteBeats ==
    {"enter_inn", "leave", "prologue_look", "pipeline", "talk", "upstairs",
     "downstairs", "inspect_board", "inspect_ledger", "return", "travel_market",
     "travel_monastery", "clue_tracks", "clue_lanterns", "persuade",
     "intimidate", "ambush", "spend_inspiration", "confront"}

\* Coin, blades and bruises; the market and the road, and the ways out of
\* Marla's room.
TradeBeats ==
    {"enter_inn", "leave", "talk", "inspect", "steal", "fight", "return",
     "rest", "travel_market", "talk_borin", "intimidate", "ambush", "flirt",
     "offer", "upstairs", "downstairs"}

\* Every beat but the one that spends Inspiration, which moves nothing else.
BoardBeats == (RouteBeats \cup TradeBeats) \ {"spend_inspiration"}

\* The gentle routes, the theft and Inspiration, for the long haul.
PersistBeats == (RouteBeats \ {"ambush", "intimidate", "pipeline"}) \cup {"steal"}
=============================================================================
