------------------------------ MODULE StoryArc ------------------------------
(***************************************************************************)
(* One campaign's story as ActEngine (backend/app/modules/play/engine.py)  *)
(* moves it, with the scene bookkeeping of SceneDirector                   *)
(* (backend/app/modules/story/scenes.py).                                  *)
(*                                                                         *)
(* A step is one call of act() that resolves: route, the beat's handler,   *)
(* note_beat, story_boundary and _earn_inspiration, in that order.  Prose, *)
(* the clock, the feed and the anti-loop (which only shortens prose) are   *)
(* left out.  Memories, moods, meters and skill XP are kept by one bit of  *)
(* each beat that touches them: whether anything new was written ("fresh") *)
(* and whether a meter reached a warmer band ("warm").                     *)
(***************************************************************************)
EXTENDS Naturals, FiniteSets

CONSTANTS Beats,          \* the beats the player's words may name
          MaxHp,          \* pc.hp.max
          MaxSilver,      \* bound on the purse: no theft is tried beyond it
          InspirationMax, \* INSPIRATION_MAX
          None            \* no route held

Road     == "road-to-ravenford"
Inn      == "lantern-inn"
North    == "northern-road"
Market   == "market"
Abbey    == "old-monastery"
Upstairs == "lantern-inn:upstairs-room"

Locations == {Road, Inn, North, Market, Abbey}
Scenes    == Locations \cup {Upstairs}
Clues     == {"ledger", "tracks", "lanterns"}
Solutions == {"talk-it-out", "lean-on-them", "follow-the-clues", "shadow-them",
              "blades-out"}

\* Every beat there is a handler for; the prologue has doors of its own.
PrologueOnly == {"enter_inn", "prologue_look", "prologue_listen"}
PrologueBeats == PrologueOnly \cup {"spend_inspiration", "leave", "pipeline"}
AllBeats ==
    PrologueBeats \cup
    {"talk", "upstairs", "downstairs", "inspect_board", "inspect_ledger",
     "inspect_cellar", "inspect", "steal", "fight", "return", "rest",
     "travel_market", "travel_monastery", "clue_tracks", "clue_lanterns",
     "persuade", "intimidate", "ambush", "talk_borin", "flirt", "offer",
     "confront"}

ASSUME BeatsAssumption == Beats \subseteq AllBeats
ASSUME BoundsAssumption ==
    /\ MaxHp \in Nat /\ MaxHp > 1
    /\ MaxSilver \in Nat /\ MaxSilver >= 8
    /\ InspirationMax \in Nat
ASSUME NoneAssumption == None \notin Solutions

VARIABLE tale   \* the campaign's PlayState

\* LEAD_STAGES
Stages == {"unheard", "rumored", "accepted", "investigating", "solved"}
Rank(stage) ==
    CASE stage = "unheard"       -> 0
      [] stage = "rumored"       -> 1
      [] stage = "accepted"      -> 2
      [] stage = "investigating" -> 3
      [] stage = "solved"        -> 4

\* A goal hint is the place and the lead stage it was written for.
UpstairsGoal == <<Upstairs, "unheard">>
EpilogueGoal == <<"anywhere", "solved">>
GoalFor(t) == IF t.completed THEN EpilogueGoal ELSE <<t.location, t.lead>>

Tale ==
    [ location    : Locations,
      scene       : Scenes,
      rooms       : [Scenes -> {"active", "transitioning", "resolved"}],
      stirred     : BOOLEAN,        \* last_progress > 0 in the upstairs room
      goal        : (Scenes \cup {"anywhere"}) \X Stages,  \* of the current scene
      lead        : Stages,
      clues       : SUBSET Clues,
      path        : Solutions \cup {None},
      freed       : BOOLEAN,
      completed   : BOOLEAN,
      told        : BOOLEAN,        \* Marla has said her word upstairs
      down        : BOOLEAN,        \* borin_down
      silver      : Nat,
      hp          : 1..MaxHp,
      bruised     : BOOLEAN,
      inspiration : 0..InspirationMax,
      inspired    : BOOLEAN ]

\* seeded_state()
Seeded ==
    [ location |-> Road, scene |-> Road,
      rooms |-> [s \in Scenes |-> "active"], stirred |-> FALSE,
      goal |-> <<Road, "unheard">>,
      lead |-> "unheard", clues |-> {}, path |-> None,
      freed |-> FALSE, completed |-> FALSE, told |-> FALSE,
      down |-> FALSE, silver |-> 8, hp |-> MaxHp, bruised |-> FALSE,
      inspiration |-> 0, inspired |-> FALSE ]

Init == tale = Seeded

-----------------------------------------------------------------------------
(* Slips: the mistakes the properties are there to catch *)

\* unlock_solution without its first-wins guard.
UnlockLatest(t, way) == [t EXCEPT !.path = way]

\* A clue noted in the journal, the lead forgotten.
FoundOnly(t, clue) == [t EXCEPT !.clues = @ \cup {clue}]

\* The trail asked for one clue too many.
TrailTooLate(t) ==
    IF Cardinality(t.clues) > 2 THEN UnlockLatest(t, "follow-the-clues") ELSE t

\* A wound taken without the floor of one hit point.
HurtToDeath(t, wound) == [t EXCEPT !.hp = @ - wound]

\* Every room walked out of waits, the finished one too.
ClosedUnfinished(t, target) ==
    IF t.scene = Upstairs /\ target # Upstairs
    THEN [t.rooms EXCEPT ![Upstairs] = "transitioning"] ELSE t.rooms

\* A boundary that settles the room and forgets its goal.
BoundaryWithoutGoal(t) ==
    [t EXCEPT !.rooms = IF t.completed /\ t.scene # Upstairs
                        THEN [@ EXCEPT ![t.scene] = "resolved"] ELSE @]

\* Carried to the inn on the map, the scene left on the road.
CarriedOnMap(t) == [t EXCEPT !.location = Inn]

\* Carried back to where the chronicle opened.
CarriedHome(t) == [t EXCEPT !.location = Road, !.scene = Road]

-----------------------------------------------------------------------------
(* What handlers do to the story *)

\* set_lead_stage: never backwards.
Advance(t, stage) ==
    IF Rank(stage) > Rank(t.lead) THEN [t EXCEPT !.lead = stage] ELSE t

\* unlock_solution: the first route stays.
Unlock(t, way) == IF t.path = None THEN [t EXCEPT !.path = way] ELSE t

\* A clue read right also starts the investigation.
Found(t, clue) ==
    Advance([t EXCEPT !.clues = @ \cup {clue}], "investigating")

\* _maybe_open_ledger_trail
LedgerTrail(t) ==
    IF Cardinality(t.clues) >= 2 THEN Unlock(t, "follow-the-clues") ELSE t

\* _leverage_state, and what winning Sella over by words does too.
Leveraged(t, npc) ==
    IF npc = "sella" THEN Unlock(Advance(t, "investigating"), "talk-it-out")
    ELSE t

\* Every resolved check burns a spent point of Inspiration.
Rolled(t) == [t EXCEPT !.inspired = FALSE]

Hurt(t, wound) == [t EXCEPT !.hp = IF @ > wound THEN @ - wound ELSE 1]

\* Outcome, and the three of the five that succeed.
Outcomes == {"Exceptional", "Success", "SuccessWithCost", "Failure",
             "CriticalFailure"}
Succeeded(o) == o \in {"Exceptional", "Success", "SuccessWithCost"}

-----------------------------------------------------------------------------
(* SceneDirector *)

\* _close: the upstairs room settles by whether it ever stirred; a root room
\* left once the tale is told stays resolved.
Closed(t, target) ==
    IF t.scene = target THEN t.rooms
    ELSE IF t.scene = Upstairs
    THEN [t.rooms EXCEPT ![Upstairs] =
              IF t.stirred THEN "resolved" ELSE "transitioning"]
    ELSE IF t.completed THEN [t.rooms EXCEPT ![t.scene] = "resolved"]
    ELSE t.rooms

\* enter: a room walked out of unfinished is picked up again.
Enter(t, target) ==
    [t EXCEPT
        !.rooms = [Closed(t, target) EXCEPT
                      ![target] = IF @ = "transitioning" THEN "active" ELSE @],
        !.scene = target,
        !.goal  = IF target = Upstairs THEN UpstairsGoal ELSE GoalFor(t)]

\* A map move: the scene moves with it.
Travel(t, place) == Enter([t EXCEPT !.location = place], place)

\* story_boundary: the aim of the room follows the story now live.
Boundary(t) ==
    [t EXCEPT
        !.goal  = GoalFor(t),
        !.rooms = IF t.completed /\ t.scene # Upstairs
                  THEN [@ EXCEPT ![t.scene] = "resolved"] ELSE @]

\* npcs_present
Present(t) ==
    CASE t.location = Inn    -> IF t.scene = Upstairs THEN {"marla"}
                                ELSE {"marla", "borin"}
      [] t.location = Market -> {"sella", "tomm"}
      [] t.location = Abbey  -> {"anselm"}
      [] OTHER               -> {}

-----------------------------------------------------------------------------
(* act(): what every resolved beat ends with *)

\* _progress_markers, the ones this model keeps.
Markers(t) == <<t.lead, t.clues, t.path, t.freed, t.completed, t.told, t.down,
                t.silver, t.hp>>

Count(b) == IF b THEN 1 ELSE 0

\* _earn_inspiration: one for each way the table applauds.
Earned(t, u, warm) ==
    Count(u.lead # t.lead) + Count(u.clues # t.clues) + Count(u.path # t.path)
    + Count(u.freed # t.freed) + Count(u.completed # t.completed) + Count(warm)

Capped(n) == IF n < InspirationMax THEN n ELSE InspirationMax

\* Progress counts for the room the beat ended in (note_beat).
Noted(t, u, fresh) ==
    [u EXCEPT !.stirred =
        @ \/ (u.scene = Upstairs /\ (fresh \/ Markers(u) # Markers(t)))]

AfterBeat(t, u, fresh, warm) ==
    LET noted == Noted(t, u, fresh)
        aimed == IF u.lead # t.lead THEN Boundary(noted) ELSE noted
    IN  [aimed EXCEPT !.inspiration = Capped(@ + Earned(t, u, warm))]

\* How a beat may touch memories and meters: not at all, leaving a mark, or
\* leaving one that may warm somebody.
Silent == {<<FALSE, FALSE>>}
Marked == {<<FALSE, FALSE>>, <<TRUE, FALSE>>}
Warming == Marked \cup {<<TRUE, TRUE>>}

Land(u, touch) == \E m \in touch : tale' = AfterBeat(tale, u, m[1], m[2])

\* _route: the beats the words can name where the player stands.
Routable(t) ==
    IF t.location = Road THEN PrologueBeats
    ELSE AllBeats \ (PrologueOnly \cup
                     {IF t.scene = Upstairs THEN "upstairs" ELSE "downstairs"})

Hears(beat) == beat \in Beats \cap Routable(tale)

-----------------------------------------------------------------------------
(* The beats *)

\* Beats that only pass the time, or look without finding.
PrologueWait ==
    /\ \E beat \in {"prologue_look", "prologue_listen"} : Hears(beat)
    /\ Land(tale, Silent)

Inspect ==
    /\ \E beat \in {"inspect", "inspect_cellar"} : Hears(beat)
    /\ Land(tale, Marked)

SpendInspiration ==
    /\ Hears("spend_inspiration")
    /\ Land(IF tale.inspired \/ tale.inspiration = 0 THEN tale
            ELSE [tale EXCEPT !.inspiration = @ - 1, !.inspired = TRUE], Silent)

\* Free text: no authored story moves, but checks are made and burn a point.
Pipeline ==
    /\ Hears("pipeline")
    /\ \E spent \in BOOLEAN :
           Land([tale EXCEPT !.inspired = @ /\ ~spent], Marked)

\* Marla, at the bar or asked after anywhere else on the map.
Talk ==
    /\ Hears("talk") /\ tale.scene # Upstairs
    /\ CASE tale.lead = "unheard" -> Land(Advance(tale, "rumored"), Warming)
         [] tale.lead = "rumored" -> Land(Advance(tale, "accepted"), Warming)
         [] OTHER                 -> Land(tale, Marked)

\* Marla's private word: said once, and saying it resolves the room.
TalkUpstairs ==
    /\ Hears("talk") /\ tale.scene = Upstairs
    /\ IF tale.rooms[Upstairs] = "resolved" THEN Land(tale, Silent)
       ELSE Land([tale EXCEPT !.rooms[Upstairs] = "resolved", !.told = TRUE],
                 Warming)

\* invitation_open, and the stair only the common room has.
GoUpstairs ==
    /\ Hears("upstairs")
    /\ Land(IF tale.location = Inn /\ tale.lead # "unheard"
            THEN Enter(tale, Upstairs) ELSE tale, Silent)

GoDownstairs == Hears("downstairs") /\ Land(Enter(tale, Inn), Silent)

InspectBoard ==
    /\ Hears("inspect_board")
    /\ Land(Advance(tale, "rumored"), Marked)

\* The ledger gives its clue, but never asks for the trail.
InspectLedger ==
    /\ Hears("inspect_ledger")
    /\ \E o \in Outcomes :
           Land(IF Succeeded(o) THEN Found(Rolled(tale), "ledger")
                ELSE Rolled(tale), Marked)

Steal ==
    /\ Hears("steal") /\ tale.silver + 14 <= MaxSilver
    /\ \E o \in Outcomes :
           Land(IF Succeeded(o) THEN [Rolled(tale) EXCEPT !.silver = @ + 14]
                ELSE Rolled(tale), Marked)

\* The brawl with Borin: who goes down, and what it costs.
Brawled(t, o) ==
    LET wound == CASE o = "Exceptional"     -> 1
                   [] o = "Success"         -> 3
                   [] o = "CriticalFailure" -> 9
                   [] OTHER                 -> 6
    IN  [Hurt(t, wound) EXCEPT !.down = @ \/ Succeeded(o),
                               !.bruised = @ \/ o = "CriticalFailure"]

Fight ==
    /\ Hears("fight")
    /\ \E o \in Outcomes : Land(Brawled(Rolled(tale), o), Marked)

\* Rest fills the bars, and a full bar passes the bruises off.
Rested(t) == [t EXCEPT !.hp = MaxHp, !.bruised = FALSE]

Rest == Hears("rest") /\ Land(Rested(tale), Marked)

Leave ==
    /\ Hears("leave")
    /\ Land(IF tale.location = North THEN tale ELSE Travel(tale, North), Silent)

\* return, travel_market, travel_monastery, and the prologue's enter_inn.
Go ==
    \E way \in {<<"return", Inn>>, <<"enter_inn", Inn>>,
                <<"travel_market", Market>>, <<"travel_monastery", Abbey>>} :
        Hears(way[1]) /\ Land(Travel(tale, way[2]), Silent)

ReadTracks ==
    /\ Hears("clue_tracks")
    /\ IF tale.location # North \/ tale.lead = "unheard"
       THEN Land(tale, Marked)
       ELSE \E o \in Outcomes :
                Land(IF Succeeded(o) THEN LedgerTrail(Found(Rolled(tale), "tracks"))
                     ELSE Rolled(tale), Marked)

\* Watching the treeline; following the lights opens a route of its own first.
Watched(t, following) ==
    LET seen == Found(t, "lanterns")
    IN  LedgerTrail(IF following THEN Unlock(seen, "shadow-them") ELSE seen)

WatchLanterns ==
    /\ Hears("clue_lanterns")
    /\ IF tale.location \notin {North, Abbey} \/ tale.lead = "unheard"
       THEN Land(tale, Silent)
       ELSE \E o \in Outcomes, following \in BOOLEAN :
                Land(IF Succeeded(o) THEN Watched(Rolled(tale), following)
                     ELSE Rolled(tale), Marked)

\* Sella Voss, worked on at her stall, by words or by weight.
PressSella ==
    \E how \in {<<"persuade", "talk-it-out">>, <<"intimidate", "lean-on-them">>} :
        /\ Hears(how[1])
        /\ IF tale.location # Market \/ tale.lead = "unheard"
           THEN Land(tale, Silent)
           ELSE \E o \in Outcomes :
                    Land(IF Succeeded(o)
                         THEN Unlock(Advance(Rolled(tale), "investigating"), how[2])
                         ELSE Rolled(tale), Marked)

\* Borin remembers being asked wherever he is; only face to face he warms.
TalkBorin ==
    /\ Hears("talk_borin") \/ Hears("persuade")
    /\ Land(tale, IF tale.location = Inn THEN Warming ELSE Marked)

IntimidateBorin ==
    /\ Hears("intimidate")
    /\ IF tale.location # Inn \/ tale.down THEN Land(tale, Silent)
       ELSE \E o \in Outcomes :
                Land([Rolled(tale) EXCEPT !.down = Succeeded(o)], Marked)

\* Beaten on the road, the player wakes at the inn.
Carried(t) == Travel(t, Inn)

Ambush ==
    /\ Hears("ambush")
    /\ IF tale.location # North \/ tale.lead # "investigating"
       THEN Land(tale, Silent)
       ELSE \E o \in Outcomes :
                Land(IF Succeeded(o) THEN Unlock(Rolled(tale), "blades-out")
                     ELSE Carried(Hurt(Rolled(tale),
                                       IF o = "CriticalFailure" THEN 9 ELSE 6)),
                     Marked)

Flirt ==
    /\ Hears("flirt")
    /\ Land(tale, IF Present(tale) = {} THEN Silent ELSE Warming)

\* profile.price: who takes coin, and how much settles it.
Prices == {<<"borin", 6>>, <<"sella", 10>>, <<"tomm", 4>>}
Affords(t, npc) == \E p \in Prices : p[1] = npc /\ t.silver >= p[2]

\* Somebody here is named; Sella hears no offer before there is a question.
Bargains(npc) ==
    /\ Hears("offer") /\ npc \in Present(tale)
    /\ npc = "sella" => tale.lead # "unheard"

\* Nobody named, nothing to ask Sella yet, or coin where coin is not wanted.
OfferIgnored ==
    /\ Hears("offer")
    /\ Land(tale, Silent)

\* The purse meets the price: no die is thrown.
OfferPaid ==
    \E p \in Prices :
        /\ Bargains(p[1]) /\ tale.silver >= p[2]
        /\ Land(Leveraged([tale EXCEPT !.silver = @ - p[2]], p[1]), Warming)

\* A short purse, or an ask where coin is not wanted, goes to the dice.
OfferAsked ==
    \E npc \in Present(tale) :
        /\ Bargains(npc) /\ ~Affords(tale, npc)
        /\ \E o \in Outcomes :
               Land(IF Succeeded(o) THEN Leveraged(Rolled(tale), npc)
                    ELSE Rolled(tale), Marked)

\* The confrontation, when a route is held, at the undercroft, once.
Solved(t) == [Advance(t, "solved") EXCEPT !.freed = TRUE, !.completed = TRUE]

Confront ==
    /\ Hears("confront")
    /\ IF ~tale.completed /\ tale.location = Abbey /\ tale.path # None
       THEN Land(Solved(tale), Warming)
       ELSE Land(tale, Silent)

Next ==
    \/ PrologueWait \/ Inspect \/ SpendInspiration \/ Pipeline
    \/ Talk \/ TalkUpstairs \/ GoUpstairs \/ GoDownstairs
    \/ InspectBoard \/ InspectLedger \/ Steal \/ Fight \/ Rest
    \/ Leave \/ Go \/ ReadTracks \/ WatchLanterns
    \/ PressSella \/ TalkBorin \/ IntimidateBorin \/ Ambush
    \/ Flirt \/ OfferIgnored \/ OfferPaid \/ OfferAsked \/ Confront

Spec == Init /\ [][Next]_tale

\* A player who does not give up, and dice that do not fail for ever: whatever
\* else is tried, the beats of one authored route are tried again, and they
\* succeed now and then.
FirstSeen(clue) == clue \in tale'.clues \ tale.clues
TracksRead == ReadTracks /\ FirstSeen("tracks")
LanternsSeen == WatchLanterns /\ FirstSeen("lanterns")
ClimbToAbbey == Go /\ tale'.location = Abbey
Persistence ==
    /\ SF_tale(Talk) /\ SF_tale(Leave)
    /\ SF_tale(TracksRead) /\ SF_tale(LanternsSeen)
    /\ SF_tale(ClimbToAbbey) /\ SF_tale(Confront)
PersistentSpec == Spec /\ Persistence

-----------------------------------------------------------------------------
(* Properties *)

\* The story's fields hold what their types say: hit points stay within 1..max
\* and the purse never goes below zero, whatever order brawls, rests, thefts
\* and prices come in (_beat_fight, _beat_rest, _leverage_paid).
TypeOK == tale \in Tale

\* The scene the player stands in is on the map where the player is: no beat
\* that moves one forgets the other (SceneDirector.enter and the travel beats,
\* the lost ambush included).
SceneOnMap ==
    \/ tale.scene = tale.location
    \/ tale.scene = Upstairs /\ tale.location = Inn

\* Lead, clues, route and ending never contradict each other, though eight
\* handlers write them each in its own order: a clue or a route means the
\* investigation has begun, and the tale is told exactly when the lead is
\* solved and the travelers are free, by a route that was held.
ArcSound(t) ==
    /\ t.clues # {} => Rank(t.lead) >= 3
    /\ t.path # None => Rank(t.lead) >= 3
    /\ t.completed => t.path # None
    /\ (t.completed <=> t.lead = "solved") /\ (t.completed <=> t.freed)
ArcHangsTogether == ArcSound(tale)

\* The story moves only as Arc says it may: the lead hardens, one route is
\* found and kept, the ending needs it and comes once.
ImplementedArc == INSTANCE Arc WITH Ways <- Solutions, stage <- tale.lead,
                                   way <- tale.path, done <- tale.completed
ImplementsArc == ImplementedArc!Spec

\* The goal shown for the room the player stands in is the one for the stage
\* the story is in now, never for the stage it was entered at; only Marla's
\* room may still show its own (story_boundary, enter, goal_for).
GoalFollowsStory ==
    \/ tale.goal = GoalFor(tale)
    \/ tale.scene = Upstairs /\ tale.goal = UpstairsGoal

\* Once Marla has said her word, the room stays resolved: no way of walking
\* out of it reopens the talk (_talk_upstairs, note_beat, _close).
AftermathStays == tale.told => tale.rooms[Upstairs] = "resolved"

\* Every beat is one the play session allows an action to be: it never walks
\* back to the prologue, never reopens a told tale, and finishes it off the
\* road (what PlayBoard assumes of ActEngine.act).
Board == INSTANCE PlayBoard WITH Keys <- {"action"}
Seen(t, n) ==
    [Board!SeededState EXCEPT !.turns = n, !.applied = [k \in {"action"} |-> n],
                              !.road = t.location = Road,
                              !.completed = t.completed]
BoardAllows ==
    [][Seen(tale', 1) \in Board!Resolutions(Seen(tale, 0), "action")]_tale

\* No dead end: whatever a player does first, and whichever rooms, clues and
\* routes that leaves, persisting in the tracks, the lanterns, Marla and the
\* abbey ends the tale (the gates of _beat_talk, _beat_clue_*, _beat_confront).
ArcFinishes == <>tale.completed

\* What _maybe_open_ledger_trail's docstring says: two clues spell the route.
TwoCluesOpenTheWay == Cardinality(tale.clues) >= 2 => tale.path # None
=============================================================================
