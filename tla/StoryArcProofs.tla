--------------------------- MODULE StoryArcProofs ---------------------------
(***************************************************************************)
(* What holds of StoryArc for every set of beats and every bound, proved   *)
(* with TLAPS.                                                             *)
(*                                                                         *)
(* Every action lands AfterBeat(tale, u, ...) for the state u its handler  *)
(* leaves.  The proofs say of each handler that u is a Good successor of   *)
(* tale, and of AfterBeat that it keeps what Good successors have.         *)
(***************************************************************************)
EXTENDS StoryArc, FiniteSetTheorems, TLAPS

OnMap(t) == t.scene = t.location \/ (t.scene = Upstairs /\ t.location = Inn)

\* Marla's word also left its mark on the room: without it AftermathStays is
\* not inductive, because _close reads last_progress and not the state.
Aftermath(t) == t.told => t.stirred /\ t.rooms[Upstairs] = "resolved"

\* The goal on show is the one for the stage the story is in, or Marla's.
GoalKept(t) ==
    t.goal = GoalFor(t) \/ (t.scene = Upstairs /\ t.goal = UpstairsGoal)

\* The inductive invariant.
StoryInv(t) ==
    t \in Tale /\ ArcSound(t) /\ OnMap(t) /\ Aftermath(t) /\ GoalKept(t)

\* The fields the invariant speaks of, beyond their types.
SameStory(t, u) ==
    /\ u.lead = t.lead /\ u.clues = t.clues /\ u.path = t.path
    /\ u.freed = t.freed /\ u.completed = t.completed
    /\ u.location = t.location /\ u.scene = t.scene
    /\ u.rooms = t.rooms /\ u.stirred = t.stirred /\ u.told = t.told
    /\ u.goal = t.goal

\* How a handler may move the arc: not at all but for a hardening lead, by
\* opening a route, or by ending the tale.
Hardens(t, u) ==
    /\ u.path = t.path /\ u.freed = t.freed /\ u.completed = t.completed
    /\ u.lead = t.lead \/ u.lead # "solved"
Opens(t, u) ==
    /\ t.path = None /\ u.path \in Solutions
    /\ t.lead # "unheard" /\ u.lead = "investigating"
    /\ u.freed = t.freed /\ u.completed = t.completed
Ends(t, u) ==
    /\ t.path # None /\ ~t.completed
    /\ u.path = t.path /\ u.lead = "solved" /\ u.freed /\ u.completed
ArcMove(t, u) ==
    /\ Rank(u.lead) >= Rank(t.lead)
    /\ u.clues # t.clues => Rank(u.lead) >= 3
    /\ Hardens(t, u) \/ Opens(t, u) \/ Ends(t, u)

\* How it may leave Marla's room: as it was or settled, or with her word said.
RoomMove(t, u) ==
    \/ /\ u.told = t.told /\ u.stirred = t.stirred
       /\ t.stirred /\ t.rooms[Upstairs] = "resolved"
              => u.rooms[Upstairs] = "resolved"
    \/ /\ ~t.told /\ u.told /\ u.scene = Upstairs
       /\ u.rooms[Upstairs] = "resolved"

\* How it may move on the map: never back to the prologue's road; and it is
\* not on the road that the tale ends.
RoadMove(t, u) ==
    /\ u.location = Road => t.location = Road
    /\ u.completed /\ ~t.completed => u.location # Road

\* What it may leave of the goal: anything when the lead moved, because act()
\* then ends in story_boundary; the right goal otherwise.
GoalMove(t, u) == u.lead = t.lead => GoalKept(u)

Good(t, u) ==
    /\ u \in Tale
    /\ ArcMove(t, u) /\ OnMap(u) /\ RoomMove(t, u)
    /\ RoadMove(t, u) /\ GoalMove(t, u)

USE BeatsAssumption, BoundsAssumption, NoneAssumption

-----------------------------------------------------------------------------
(* The stages *)

\* The lead stages are ranked one by one, and only they have these ranks.
LEMMA Ranks ==
    /\ Rank("unheard") = 0 /\ Rank("rumored") = 1 /\ Rank("accepted") = 2
    /\ Rank("investigating") = 3 /\ Rank("solved") = 4
    /\ \A s \in Stages : Rank(s) \in 0..4
    /\ \A s \in Stages : Rank(s) = 4 => s = "solved"
    /\ \A s \in Stages : Rank(s) = 3 => s = "investigating"
    /\ \A s \in Stages : Rank(s) = 0 => s = "unheard"
<1>1. /\ Rank("unheard") = 0 /\ Rank("rumored") = 1 /\ Rank("accepted") = 2
      /\ Rank("investigating") = 3 /\ Rank("solved") = 4
  BY DEF Rank
<1> QED BY <1>1 DEF Stages

-----------------------------------------------------------------------------
(* Types of what handlers leave *)

\* set_lead_stage leaves a PlayState, and touches the lead alone.
LEMMA AdvanceKeeps ==
    ASSUME NEW t \in Tale, NEW s \in Stages
    PROVE  /\ Advance(t, s) \in Tale
           /\ Advance(t, s).lead = IF Rank(s) > Rank(t.lead) THEN s ELSE t.lead
           /\ SameStory([t EXCEPT !.lead = Advance(t, s).lead], Advance(t, s))
BY DEF Advance, Tale, SameStory

\* unlock_solution leaves a PlayState, and touches the route alone.
LEMMA UnlockKeeps ==
    ASSUME NEW t \in Tale, NEW w \in Solutions
    PROVE  /\ Unlock(t, w) \in Tale
           /\ Unlock(t, w).path = IF t.path = None THEN w ELSE t.path
           /\ SameStory([t EXCEPT !.path = Unlock(t, w).path], Unlock(t, w))
BY DEF Unlock, Tale, SameStory

\* A resolved check touches nothing the invariant speaks of.
LEMMA RolledKeeps ==
    ASSUME NEW t \in Tale
    PROVE  Rolled(t) \in Tale /\ SameStory(t, Rolled(t))
BY DEF Rolled, Tale, SameStory

\* A wound leaves at least one hit point, and the story where it was.
LEMMA HurtKeeps ==
    ASSUME NEW t \in Tale, NEW w \in Nat
    PROVE  Hurt(t, w) \in Tale /\ SameStory(t, Hurt(t, w))
<1>1. (IF t.hp > w THEN t.hp - w ELSE 1) \in 1..MaxHp
  BY DEF Tale
<1> QED BY <1>1 DEF Hurt, Tale, SameStory

\* enter() leaves a PlayState in the scene it was asked for; the arc and the
\* map are as they were, and Marla's room closes resolved if it had stirred.
LEMMA EnterKeeps ==
    ASSUME NEW t \in Tale, NEW s \in Scenes
    PROVE  /\ Enter(t, s) \in Tale
           /\ Enter(t, s).scene = s /\ Enter(t, s).location = t.location
           /\ Enter(t, s).lead = t.lead /\ Enter(t, s).clues = t.clues
           /\ Enter(t, s).path = t.path /\ Enter(t, s).freed = t.freed
           /\ Enter(t, s).completed = t.completed
           /\ Enter(t, s).told = t.told /\ Enter(t, s).stirred = t.stirred
           /\ Enter(t, s).goal = IF s = Upstairs THEN UpstairsGoal ELSE GoalFor(t)
           /\ t.stirred /\ t.rooms[Upstairs] = "resolved"
                  => Enter(t, s).rooms[Upstairs] = "resolved"
<1> DEFINE c == Closed(t, s)
           r == [c EXCEPT ![s] = IF @ = "transitioning" THEN "active" ELSE @]
           g == IF s = Upstairs THEN UpstairsGoal ELSE GoalFor(t)
<1>1. t.rooms \in [Scenes -> {"active", "transitioning", "resolved"}] /\ t.scene \in Scenes /\ Upstairs \in Scenes
  BY DEF Tale, Scenes
<1>2. c \in [Scenes -> {"active", "transitioning", "resolved"}]
  BY <1>1 DEF Closed
<1>3. r \in [Scenes -> {"active", "transitioning", "resolved"}]
  BY <1>2
<1>4. g \in (Scenes \cup {"anywhere"}) \X Stages
  BY DEF UpstairsGoal, GoalFor, EpilogueGoal, Tale, Scenes, Stages
<1>5. t.stirred /\ t.rooms[Upstairs] = "resolved" => r[Upstairs] = "resolved"
  <2> SUFFICES ASSUME t.stirred, t.rooms[Upstairs] = "resolved"
               PROVE  r[Upstairs] = "resolved"
    OBVIOUS
  <2>1. c[Upstairs] = "resolved"
    BY <1>1 DEF Closed
  <2> QED BY <1>2, <2>1
<1>6. Enter(t, s) = [t EXCEPT !.rooms = r, !.scene = s, !.goal = g]
  BY DEF Enter
<1> HIDE DEF r, g
<1>7. [t EXCEPT !.rooms = r, !.scene = s, !.goal = g] \in Tale
  BY <1>3, <1>4, ZenonT(60) DEF Tale
<1> QED BY <1>5, <1>6, <1>7 DEF Tale, g

\* A map move takes the scene along.
LEMMA TravelKeeps ==
    ASSUME NEW t \in Tale, NEW p \in Locations
    PROVE  /\ Travel(t, p) \in Tale
           /\ Travel(t, p).scene = p /\ Travel(t, p).location = p
           /\ Travel(t, p).lead = t.lead /\ Travel(t, p).clues = t.clues
           /\ Travel(t, p).path = t.path /\ Travel(t, p).freed = t.freed
           /\ Travel(t, p).completed = t.completed
           /\ Travel(t, p).told = t.told /\ Travel(t, p).stirred = t.stirred
           /\ Travel(t, p).goal = GoalFor(Travel(t, p))
           /\ t.stirred /\ t.rooms[Upstairs] = "resolved"
                  => Travel(t, p).rooms[Upstairs] = "resolved"
<1> DEFINE v == [t EXCEPT !.location = p]
<1>1. v \in Tale /\ v.location = p /\ SameStory([t EXCEPT !.location = p], v)
  BY DEF Tale, SameStory
<1>2. /\ v.lead = t.lead /\ v.clues = t.clues /\ v.path = t.path
      /\ v.freed = t.freed /\ v.completed = t.completed /\ v.told = t.told
      /\ v.stirred = t.stirred /\ v.rooms = t.rooms
  BY DEF Tale
<1>3. Travel(t, p) = Enter(v, p) /\ p \in Scenes /\ p # Upstairs
  BY DEF Travel, Scenes, Locations, Upstairs, Road, Inn, North, Market, Abbey
<1> HIDE DEF v
<1>4. GoalFor(Enter(v, p)) = GoalFor(v)
  BY <1>1, <1>3, EnterKeeps DEF GoalFor
<1> QED BY <1>1, <1>2, <1>3, <1>4, EnterKeeps

\* What note_beat, story_boundary and _earn_inspiration add to a beat: the
\* room may have stirred, a root room may be resolved, and nothing else of the
\* story moves.
LEMMA AfterBeatKeeps ==
    ASSUME NEW t \in Tale, NEW u \in Tale, NEW fresh \in BOOLEAN,
           NEW warm \in BOOLEAN
    PROVE  LET v == AfterBeat(t, u, fresh, warm)
           IN  /\ v \in Tale
               /\ v.lead = u.lead /\ v.clues = u.clues /\ v.path = u.path
               /\ v.freed = u.freed /\ v.completed = u.completed
               /\ v.location = u.location /\ v.scene = u.scene
               /\ v.told = u.told
               /\ v.rooms[Upstairs] = u.rooms[Upstairs]
               /\ v.stirred = (u.stirred \/ (u.scene = Upstairs
                                    /\ (fresh \/ Markers(u) # Markers(t))))
               /\ v.goal = IF u.lead # t.lead THEN GoalFor(u) ELSE u.goal
<1> DEFINE n == Noted(t, u, fresh)
           b == Boundary(n)
           a == IF u.lead # t.lead THEN b ELSE n
           k == Capped(a.inspiration + Earned(t, u, warm))
<1>1. /\ n \in Tale
      /\ n.lead = u.lead /\ n.clues = u.clues /\ n.path = u.path
      /\ n.freed = u.freed /\ n.completed = u.completed
      /\ n.location = u.location /\ n.scene = u.scene
      /\ n.told = u.told /\ n.rooms = u.rooms /\ n.goal = u.goal
      /\ n.stirred = (u.stirred \/ (u.scene = Upstairs
                           /\ (fresh \/ Markers(u) # Markers(t))))
  BY DEF Noted, Tale
<1> HIDE DEF n
<1>2. /\ b \in Tale
      /\ b.lead = n.lead /\ b.clues = n.clues /\ b.path = n.path
      /\ b.freed = n.freed /\ b.completed = n.completed
      /\ b.location = n.location /\ b.scene = n.scene
      /\ b.told = n.told /\ b.stirred = n.stirred /\ b.goal = GoalFor(n)
      /\ b.rooms[Upstairs] = n.rooms[Upstairs]
  <2>1. GoalFor(n) \in (Scenes \cup {"anywhere"}) \X Stages
    BY <1>1 DEF GoalFor, EpilogueGoal, Tale, Scenes, Stages
  <2> DEFINE r == IF n.completed /\ n.scene # Upstairs
                  THEN [n.rooms EXCEPT ![n.scene] = "resolved"] ELSE n.rooms
             g == GoalFor(n)
  <2>2. /\ r \in [Scenes -> {"active", "transitioning", "resolved"}]
        /\ r[Upstairs] = n.rooms[Upstairs]
    BY <1>1 DEF Tale, Scenes
  <2>3. b = [n EXCEPT !.goal = g, !.rooms = r]
    BY DEF Boundary
  <2> HIDE DEF r, g, b
  <2>4. [n EXCEPT !.goal = g, !.rooms = r] \in Tale
    BY <1>1, <2>1, <2>2, ZenonT(60) DEF Tale, g
  <2> QED BY <1>1, <2>2, <2>3, <2>4 DEF Tale, g
<1> HIDE DEF b
<1>3. /\ a \in Tale
      /\ a.lead = u.lead /\ a.clues = u.clues /\ a.path = u.path
      /\ a.freed = u.freed /\ a.completed = u.completed
      /\ a.location = u.location /\ a.scene = u.scene
      /\ a.told = u.told /\ a.stirred = n.stirred
      /\ a.rooms[Upstairs] = u.rooms[Upstairs]
      /\ a.goal = IF u.lead # t.lead THEN GoalFor(u) ELSE u.goal
  <2>1. GoalFor(n) = GoalFor(u)
    BY <1>1 DEF GoalFor
  <2> QED BY <1>1, <1>2, <2>1
<1> HIDE DEF a
<1>4. k \in 0..InspirationMax
  <2>1. Earned(t, u, warm) \in Nat
    BY DEF Earned, Count
  <2>2. a.inspiration \in Nat
    BY <1>3 DEF Tale
  <2> QED BY <2>1, <2>2 DEF Capped
<1>5. AfterBeat(t, u, fresh, warm) = [a EXCEPT !.inspiration = k]
  BY DEF AfterBeat, n, b, a
<1> HIDE DEF k
<1> QED BY <1>1, <1>3, <1>4, <1>5 DEF Tale

-----------------------------------------------------------------------------
(* Good successors *)

\* A Good handler followed by the rest of act() keeps the invariant.
LEMMA LandKeepsInv ==
    ASSUME NEW t, StoryInv(t), NEW u, Good(t, u),
           NEW fresh \in BOOLEAN, NEW warm \in BOOLEAN
    PROVE  StoryInv(AfterBeat(t, u, fresh, warm))
<1> DEFINE v == AfterBeat(t, u, fresh, warm)
<1>1. t \in Tale /\ u \in Tale /\ t.lead \in Stages /\ u.lead \in Stages
      /\ t.told \in BOOLEAN /\ u.told \in BOOLEAN
  BY DEF StoryInv, Good, Tale
<1>2. /\ v \in Tale
      /\ v.lead = u.lead /\ v.clues = u.clues /\ v.path = u.path
      /\ v.freed = u.freed /\ v.completed = u.completed
      /\ v.location = u.location /\ v.scene = u.scene
      /\ v.told = u.told /\ v.rooms[Upstairs] = u.rooms[Upstairs]
      /\ v.stirred = (u.stirred \/ (u.scene = Upstairs
                           /\ (fresh \/ Markers(u) # Markers(t))))
      /\ v.goal = IF u.lead # t.lead THEN GoalFor(u) ELSE u.goal
  BY <1>1, AfterBeatKeeps
<1> HIDE DEF v
<1>3. ArcSound(u)
  BY <1>1, Ranks DEF StoryInv, Good, ArcSound, ArcMove, Hardens, Opens, Ends, Tale
<1>4. ArcSound(v)
  BY <1>2, <1>3 DEF ArcSound
<1>5. OnMap(v)
  BY <1>2 DEF OnMap, Good
<1>6. Aftermath(v)
  <2>1. CASE u.told = t.told /\ u.stirred = t.stirred
             /\ (t.stirred /\ t.rooms[Upstairs] = "resolved"
                     => u.rooms[Upstairs] = "resolved")
    BY <1>2, <2>1 DEF Aftermath, StoryInv
  <2>2. CASE /\ ~t.told /\ u.told /\ u.scene = Upstairs
             /\ u.rooms[Upstairs] = "resolved"
    <3>1. Markers(u) # Markers(t)
      BY <1>1, <2>2 DEF Markers
    <3> QED BY <1>2, <2>2, <3>1 DEF Aftermath
  <2> QED BY <2>1, <2>2 DEF Good, RoomMove
<1>7. GoalKept(v)
  <2>1. GoalFor(v) = GoalFor(u)
    BY <1>2 DEF GoalFor
  <2> QED BY <1>2, <2>1 DEF Good, GoalMove, GoalKept
<1> QED BY <1>2, <1>4, <1>5, <1>6, <1>7 DEF StoryInv, v

\* A handler that touches nothing the invariant speaks of is Good, and what
\* is Good from the state it leaves is Good from the state it found.
LEMMA QuietGood ==
    ASSUME NEW t, StoryInv(t), NEW r \in Tale, SameStory(t, r)
    PROVE  /\ StoryInv(r) /\ Good(t, r)
           /\ \A u : Good(r, u) => Good(t, u)
<1>1. t \in Tale /\ t.lead \in Stages
  BY DEF StoryInv, Tale
<1>2. StoryInv(r)
  BY DEF StoryInv, SameStory, ArcSound, OnMap, Aftermath, GoalKept, GoalFor
<1>3. Good(t, r)
  BY <1>1, <1>2, Ranks DEF StoryInv, SameStory, Good, ArcMove, Hardens, OnMap,
                           RoomMove, RoadMove, GoalMove
<1>4. ASSUME NEW u, Good(r, u) PROVE Good(t, u)
  BY <1>4 DEF SameStory, Good, ArcMove, Hardens, Opens, Ends, RoomMove, RoadMove,
              GoalMove
<1> QED BY <1>2, <1>3, <1>4

\* Advancing the lead short of solving it is Good.
LEMMA AdvanceGood ==
    ASSUME NEW t, StoryInv(t), NEW s \in Stages \ {"solved"}
    PROVE  Good(t, Advance(t, s))
<1> DEFINE u == Advance(t, s)
<1>1. t \in Tale /\ t.lead \in Stages
  BY DEF StoryInv, Tale
<1>2. /\ u \in Tale /\ u.lead = IF Rank(s) > Rank(t.lead) THEN s ELSE t.lead
      /\ SameStory([t EXCEPT !.lead = u.lead], u)
  BY <1>1, AdvanceKeeps
<1> HIDE DEF u
<1>3. /\ u.clues = t.clues /\ u.path = t.path /\ u.freed = t.freed
      /\ u.completed = t.completed /\ u.location = t.location
      /\ u.scene = t.scene /\ u.rooms = t.rooms /\ u.stirred = t.stirred
      /\ u.told = t.told /\ u.goal = t.goal
  BY <1>1, <1>2 DEF SameStory, Tale
<1>4. Rank(u.lead) >= Rank(t.lead)
  BY <1>1, <1>2, Ranks
<1>5. RoadMove(t, u) /\ GoalMove(t, u)
  BY <1>3 DEF StoryInv, RoadMove, GoalMove, GoalKept, GoalFor
<1> QED BY <1>1, <1>2, <1>3, <1>4, <1>5 DEF StoryInv, Good, ArcMove, Hardens,
                                            OnMap, RoomMove, u

\* A clue found is Good, and leaves an investigation under way.
LEMMA FoundGood ==
    ASSUME NEW t, StoryInv(t), NEW c \in Clues
    PROVE  /\ Good(t, Found(t, c))
           /\ Found(t, c).lead = IF Rank(t.lead) < 3 THEN "investigating" ELSE t.lead
           /\ Found(t, c).path = t.path
<1> DEFINE n == [t EXCEPT !.clues = @ \cup {c}]
           u == Found(t, c)
<1>1. t \in Tale /\ t.lead \in Stages /\ "investigating" \in Stages
  BY DEF StoryInv, Tale, Stages
<1>2. /\ n \in Tale /\ n.lead = t.lead /\ n.path = t.path /\ n.freed = t.freed
      /\ n.completed = t.completed /\ n.location = t.location
      /\ n.scene = t.scene /\ n.rooms = t.rooms /\ n.stirred = t.stirred
      /\ n.told = t.told /\ n.goal = t.goal
  BY <1>1 DEF Tale
<1> HIDE DEF n
<1>3. u = Advance(n, "investigating")
  BY DEF Found, n
<1> HIDE DEF u
<1>4. /\ u \in Tale
      /\ u.lead = IF 3 > Rank(n.lead) THEN "investigating" ELSE n.lead
      /\ SameStory([n EXCEPT !.lead = u.lead], u)
  BY <1>1, <1>2, <1>3, AdvanceKeeps, Ranks
<1>5. /\ u.path = t.path /\ u.freed = t.freed
      /\ u.completed = t.completed /\ u.location = t.location
      /\ u.scene = t.scene /\ u.rooms = t.rooms /\ u.stirred = t.stirred
      /\ u.told = t.told /\ u.goal = t.goal
  BY <1>2, <1>4 DEF SameStory, Tale
<1>6. Rank(u.lead) >= Rank(t.lead) /\ Rank(u.lead) >= 3
  BY <1>1, <1>2, <1>4, Ranks
<1>7. u.lead = IF Rank(t.lead) < 3 THEN "investigating" ELSE t.lead
  BY <1>1, <1>2, <1>4, Ranks
<1>a. RoadMove(t, u) /\ GoalMove(t, u)
  BY <1>5 DEF StoryInv, RoadMove, GoalMove, GoalKept, GoalFor
<1>8. Good(t, u)
  BY <1>1, <1>4, <1>5, <1>6, <1>7, <1>a DEF StoryInv, Good, ArcMove, Hardens,
                                            OnMap, RoomMove
<1> QED BY <1>5, <1>7, <1>8 DEF u

\* Opening a route is Good from a Good state that holds the same route and is
\* investigating at least: the lead is then exactly investigating, because a
\* solved lead already holds a route.
LEMMA UnlockGood ==
    ASSUME NEW t, StoryInv(t), t.lead # "unheard", NEW u, Good(t, u),
           u.path = t.path, Rank(u.lead) >= 3, NEW w \in Solutions
    PROVE  Good(t, Unlock(u, w))
<1> DEFINE v == Unlock(u, w)
<1>1. t \in Tale /\ t.lead \in Stages /\ u \in Tale /\ u.lead \in Stages
  BY DEF StoryInv, Good, Tale
<1>2. /\ v \in Tale /\ v.path = IF u.path = None THEN w ELSE u.path
      /\ SameStory([u EXCEPT !.path = v.path], v)
  BY <1>1, UnlockKeeps
<1> HIDE DEF v
<1>3. /\ v.lead = u.lead /\ v.clues = u.clues /\ v.freed = u.freed
      /\ v.completed = u.completed /\ v.location = u.location
      /\ v.scene = u.scene /\ v.rooms = u.rooms /\ v.stirred = u.stirred
      /\ v.told = u.told /\ v.goal = u.goal
  BY <1>1, <1>2 DEF SameStory, Tale
<1>a. OnMap(v) /\ RoomMove(t, v) /\ RoadMove(t, v) /\ GoalMove(t, v)
  BY <1>3 DEF Good, OnMap, RoomMove, RoadMove, GoalMove, GoalKept, GoalFor
<1>b. Rank(v.lead) >= Rank(t.lead) /\ (v.clues # t.clues => Rank(v.lead) >= 3)
  BY <1>3 DEF Good, ArcMove
<1>4. CASE t.path # None
  <2>1. v.path = t.path
    BY <1>2, <1>4
  <2>2. Hardens(t, u) \/ Ends(t, u)
    BY <1>4 DEF Good, ArcMove, Opens
  <2>3. Hardens(t, v) \/ Ends(t, v)
    BY <1>3, <2>1, <2>2 DEF Hardens, Ends
  <2> QED BY <1>a, <1>b, <1>2, <2>3 DEF Good, ArcMove, v
<1>5. CASE t.path = None
  <2>1. Hardens(t, u)
    BY <1>5 DEF Good, ArcMove, Opens, Ends
  <2>2. u.lead # "solved"
    BY <1>5, <2>1 DEF Hardens, StoryInv, ArcSound
  <2>3. u.lead = "investigating"
    BY <1>1, <2>2, Ranks
  <2>4. Opens(t, v)
    BY <1>2, <1>3, <1>5, <2>1, <2>3 DEF Opens, Hardens
  <2> QED BY <1>a, <1>b, <1>2, <2>4 DEF Good, ArcMove, v
<1> QED BY <1>4, <1>5 DEF v

\* The ledger trail is Good whenever opening a route is.
LEMMA TrailGood ==
    ASSUME NEW t, StoryInv(t), t.lead # "unheard", NEW u, Good(t, u),
           u.path = t.path, Rank(u.lead) >= 3
    PROVE  Good(t, LedgerTrail(u))
BY UnlockGood DEF LedgerTrail, Solutions

\* Tracks read are Good: the clue, the lead and the trail together.
LEMMA TracksGood ==
    ASSUME NEW t, StoryInv(t), t.lead # "unheard"
    PROVE  Good(t, LedgerTrail(Found(t, "tracks")))
<1>1. "tracks" \in Clues /\ t.lead \in Stages
  BY DEF Clues, StoryInv, Tale
<1>2. /\ Good(t, Found(t, "tracks")) /\ Found(t, "tracks").path = t.path
      /\ Rank(Found(t, "tracks").lead) >= 3
  BY <1>1, FoundGood, Ranks
<1> QED BY <1>2, TrailGood

\* So are the lanterns, also when the route opens before the trail is asked.
LEMMA WatchedGood ==
    ASSUME NEW t, StoryInv(t), t.lead # "unheard", NEW following \in BOOLEAN
    PROVE  Good(t, Watched(t, following))
<1> DEFINE f == Found(t, "lanterns")
<1>1. "lanterns" \in Clues /\ t.lead \in Stages /\ "shadow-them" \in Solutions
      /\ "follow-the-clues" \in Solutions
  BY DEF Clues, StoryInv, Tale, Solutions
<1>2. Good(t, f) /\ f.path = t.path /\ Rank(f.lead) >= 3 /\ f \in Tale
  BY <1>1, FoundGood, Ranks DEF Good
<1> HIDE DEF f
<1>3. CASE following
  <2> DEFINE v == Unlock(f, "shadow-them")
  <2>1. Good(t, v)
    BY <1>1, <1>2, UnlockGood
  <2>2. v.path # None
    <3>1. v.path = IF f.path = None THEN "shadow-them" ELSE f.path
      BY <1>1, <1>2, UnlockKeeps
    <3> HIDE DEF v
    <3> QED BY <1>1, <3>1
  <2>3. LedgerTrail(v) = v
    BY <2>2 DEF LedgerTrail, Unlock
  <2> QED BY <1>3, <2>1, <2>3 DEF Watched, f
<1>4. CASE ~following
  BY <1>2, <1>4, TrailGood DEF Watched, f
<1> QED BY <1>3, <1>4

\* Sella won over, by words, weight or coin, is Good.
LEMMA WonGood ==
    ASSUME NEW t, StoryInv(t), t.lead # "unheard", NEW w \in Solutions
    PROVE  Good(t, Unlock(Advance(t, "investigating"), w))
<1> DEFINE u == Advance(t, "investigating")
<1>1. t \in Tale /\ t.lead \in Stages /\ "investigating" \in Stages \ {"solved"}
  BY DEF StoryInv, Tale, Stages
<1>2. Good(t, u)
  BY <1>1, AdvanceGood
<1>3. /\ u.lead = IF 3 > Rank(t.lead) THEN "investigating" ELSE t.lead
      /\ SameStory([t EXCEPT !.lead = u.lead], u)
  BY <1>1, AdvanceKeeps, Ranks
<1> HIDE DEF u
<1>4. u.path = t.path
  BY <1>1, <1>3 DEF SameStory, Tale
<1>5. Rank(u.lead) >= 3
  BY <1>1, <1>3, Ranks
<1> QED BY <1>2, <1>4, <1>5, UnlockGood DEF u

LEMMA LeveragedGood ==
    ASSUME NEW t, StoryInv(t), NEW npc, npc = "sella" => t.lead # "unheard"
    PROVE  Good(t, Leveraged(t, npc))
<1>1. t \in Tale /\ SameStory(t, t)
  BY DEF StoryInv, SameStory
<1>2. CASE npc = "sella"
  BY <1>2, WonGood DEF Leveraged, Solutions
<1>3. CASE npc # "sella"
  BY <1>1, <1>3, QuietGood DEF Leveraged
<1> QED BY <1>2, <1>3

\* Every move on the map is Good that does not lead back to the road, and so
\* is a step up or down the one stair.
LEMMA TravelGood ==
    ASSUME NEW t, StoryInv(t), NEW p \in Locations \ {Road}
    PROVE  Good(t, Travel(t, p))
<1>1. t \in Tale /\ t.lead \in Stages
  BY DEF StoryInv, Tale
<1> DEFINE u == Travel(t, p)
<1>2. /\ u \in Tale /\ u.scene = p /\ u.location = p
      /\ u.lead = t.lead /\ u.clues = t.clues /\ u.path = t.path
      /\ u.freed = t.freed /\ u.completed = t.completed
      /\ u.told = t.told /\ u.stirred = t.stirred /\ u.goal = GoalFor(u)
      /\ t.stirred /\ t.rooms[Upstairs] = "resolved"
             => u.rooms[Upstairs] = "resolved"
  BY <1>1, TravelKeeps
<1> HIDE DEF u
<1>3. RoadMove(t, u) /\ GoalMove(t, u)
  BY <1>2 DEF RoadMove, GoalMove, GoalKept
<1> QED BY <1>1, <1>2, <1>3, Ranks DEF Good, ArcMove, Hardens, OnMap, RoomMove, u

LEMMA StairGood ==
    ASSUME NEW t, StoryInv(t), t.location = Inn, NEW s \in {Upstairs, Inn}
    PROVE  Good(t, Enter(t, s))
<1>1. t \in Tale /\ t.lead \in Stages /\ s \in Scenes
  BY DEF StoryInv, Tale, Scenes, Locations
<1> DEFINE u == Enter(t, s)
<1>2. /\ u \in Tale /\ u.scene = s /\ u.location = t.location
      /\ u.lead = t.lead /\ u.clues = t.clues /\ u.path = t.path
      /\ u.freed = t.freed /\ u.completed = t.completed
      /\ u.told = t.told /\ u.stirred = t.stirred
      /\ u.goal = IF s = Upstairs THEN UpstairsGoal ELSE GoalFor(t)
      /\ t.stirred /\ t.rooms[Upstairs] = "resolved"
             => u.rooms[Upstairs] = "resolved"
  BY <1>1, EnterKeeps
<1> HIDE DEF u
<1>3. RoadMove(t, u) /\ GoalMove(t, u)
  BY <1>2 DEF RoadMove, GoalMove, GoalKept, GoalFor
<1> QED BY <1>1, <1>2, <1>3, Ranks DEF Good, ArcMove, Hardens, OnMap, RoomMove, u

\* The confrontation, off the road, with a route held and the tale untold, is
\* Good.
LEMMA SolvedGood ==
    ASSUME NEW t, StoryInv(t), t.path # None, ~t.completed, t.location # Road
    PROVE  Good(t, Solved(t))
<1> DEFINE a == Advance(t, "solved")
           u == [a EXCEPT !.freed = TRUE, !.completed = TRUE]
<1>1. t \in Tale /\ t.lead \in Stages /\ "solved" \in Stages /\ t.lead # "solved"
  BY DEF StoryInv, Tale, Stages, ArcSound
<1>2. /\ a \in Tale /\ a.lead = IF 4 > Rank(t.lead) THEN "solved" ELSE t.lead
      /\ SameStory([t EXCEPT !.lead = a.lead], a)
  BY <1>1, AdvanceKeeps, Ranks
<1> HIDE DEF a
<1>3. a.lead = "solved" /\ Rank(a.lead) = 4 /\ Rank(t.lead) \in 0..4
  BY <1>1, <1>2, Ranks
<1>4. /\ a.clues = t.clues /\ a.path = t.path /\ a.location = t.location
      /\ a.scene = t.scene /\ a.rooms = t.rooms /\ a.stirred = t.stirred
      /\ a.told = t.told
  BY <1>1, <1>2 DEF SameStory, Tale
<1>5. /\ u \in Tale /\ u.freed /\ u.completed
      /\ u.lead = a.lead /\ u.clues = a.clues /\ u.path = a.path
      /\ u.location = a.location /\ u.scene = a.scene /\ u.rooms = a.rooms
      /\ u.stirred = a.stirred /\ u.told = a.told
  BY <1>2 DEF Tale
<1>6. Solved(t) = u
  BY DEF Solved, a
<1> HIDE DEF u
<1>7. RoadMove(t, u) /\ GoalMove(t, u)
  BY <1>1, <1>3, <1>4, <1>5 DEF RoadMove, GoalMove
<1> QED BY <1>3, <1>4, <1>5, <1>6, <1>7 DEF StoryInv, Good, ArcMove, Ends, OnMap,
                                            RoomMove

-----------------------------------------------------------------------------
(* Every beat *)

Landed ==
    \E u \in Tale, fresh \in BOOLEAN, warm \in BOOLEAN :
        Good(tale, u) /\ tale' = AfterBeat(tale, u, fresh, warm)

\* A touch is a pair of bits.
LEMMA Touches ==
    \A touch \in {Silent, Marked, Warming} : \A m \in touch :
        \E fresh \in BOOLEAN, warm \in BOOLEAN : m = <<fresh, warm>>
<1>1. \A m \in Silent : m = <<FALSE, FALSE>>
  BY DEF Silent
<1>2. \A m \in Marked : m = <<FALSE, FALSE>> \/ m = <<TRUE, FALSE>>
  BY DEF Marked
<1>3. \A m \in Warming : m \in Marked \/ m = <<TRUE, TRUE>>
  BY DEF Warming
<1> QED BY <1>1, <1>2, <1>3

\* A beat that lands a Good state, or a Quiet one, is what Landed asks.
LEMMA LandGood ==
    ASSUME NEW u, Good(tale, u), NEW touch \in {Silent, Marked, Warming},
           Land(u, touch)
    PROVE  Landed
<1>1. PICK m \in touch : tale' = AfterBeat(tale, u, m[1], m[2])
  BY DEF Land
<1>2. PICK fresh \in BOOLEAN, warm \in BOOLEAN : m = <<fresh, warm>>
  BY Touches
<1>3. tale' = AfterBeat(tale, u, fresh, warm)
  BY <1>1, <1>2
<1>4. u \in Tale
  BY DEF Good
<1> QED BY <1>3, <1>4 DEF Landed

LEMMA LandQuiet ==
    ASSUME StoryInv(tale), NEW u \in Tale, SameStory(tale, u),
           NEW touch \in {Silent, Marked, Warming}, Land(u, touch)
    PROVE  Landed
BY QuietGood, LandGood

\* Each beat of Next lands a Good state, whatever the dice say.
LEMMA NextLands ==
    ASSUME StoryInv(tale), Next
    PROVE  Landed
<1> DEFINE r == Rolled(tale)
<1>1. tale \in Tale /\ SameStory(tale, tale)
  BY DEF StoryInv, SameStory
<1>2. r \in Tale /\ SameStory(tale, r) /\ StoryInv(r) /\ Good(tale, r)
  BY <1>1, RolledKeeps, QuietGood
<1>3. \A u : Good(r, u) => Good(tale, u)
  BY <1>2, QuietGood
<1>4. r.lead = tale.lead
  BY <1>2 DEF SameStory
<1> HIDE DEF r
<1> /\ Silent \in {Silent, Marked, Warming} /\ Marked \in {Silent, Marked, Warming}
    /\ Warming \in {Silent, Marked, Warming}
  OBVIOUS
<1>5. ASSUME Land(tale, Silent) \/ Land(tale, Marked) \/ Land(tale, Warming)
      PROVE  Landed
  BY <1>1, <1>5, LandQuiet
<1>6. ASSUME Land(r, Marked) PROVE Landed
  BY <1>2, <1>6, LandGood
<1>7. ASSUME NEW u, Good(r, u), NEW touch \in {Silent, Marked, Warming}, Land(u, touch)
      PROVE  Landed
  BY <1>3, <1>7, LandGood
<1>a. CASE PrologueWait \/ Inspect
  BY <1>5, <1>a DEF PrologueWait, Inspect
<1>b. CASE SpendInspiration
  <2>1. CASE tale.inspired \/ tale.inspiration = 0
    BY <1>5, <1>b, <2>1 DEF SpendInspiration
  <2>2. CASE ~(tale.inspired \/ tale.inspiration = 0)
    <3> DEFINE u == [tale EXCEPT !.inspiration = @ - 1, !.inspired = TRUE]
    <3>a. tale.inspiration - 1 \in 0..InspirationMax
      BY <1>1, <2>2 DEF Tale
    <3>1. u \in Tale /\ SameStory(tale, u)
      BY <1>1, <3>a DEF Tale, SameStory
    <3>2. Land(u, Silent)
      BY <1>b, <2>2 DEF SpendInspiration
    <3> QED BY <3>1, <3>2, LandQuiet
  <2> QED BY <2>1, <2>2
<1>c. CASE Pipeline
  <2>1. PICK spent \in BOOLEAN :
            Land([tale EXCEPT !.inspired = @ /\ ~spent], Marked)
    BY <1>c DEF Pipeline
  <2>2. /\ [tale EXCEPT !.inspired = @ /\ ~spent] \in Tale
        /\ SameStory(tale, [tale EXCEPT !.inspired = @ /\ ~spent])
    BY <1>1, ZenonT(60) DEF Tale, SameStory
  <2> QED BY <2>1, <2>2, LandQuiet
<1>d. CASE Talk
  <2>1. \/ Land(Advance(tale, "rumored"), Warming)
        \/ Land(Advance(tale, "accepted"), Warming)
        \/ Land(tale, Marked)
    BY <1>d DEF Talk
  <2>2. /\ Good(tale, Advance(tale, "rumored"))
        /\ Good(tale, Advance(tale, "accepted"))
    BY <1>1, AdvanceGood DEF Stages
  <2> QED BY <1>5, <2>1, <2>2, LandGood
<1>e. CASE TalkUpstairs
  <2>1. CASE tale.rooms[Upstairs] = "resolved"
    BY <1>5, <1>e, <2>1 DEF TalkUpstairs
  <2>2. CASE tale.rooms[Upstairs] # "resolved"
    <3> DEFINE u == [tale EXCEPT !.rooms[Upstairs] = "resolved", !.told = TRUE]
    <3>1. ~tale.told
      BY <2>2 DEF StoryInv, Aftermath
    <3>2. /\ u \in Tale /\ u.told /\ u.rooms[Upstairs] = "resolved"
          /\ u.lead = tale.lead /\ u.clues = tale.clues /\ u.path = tale.path
          /\ u.freed = tale.freed /\ u.completed = tale.completed
          /\ u.location = tale.location /\ u.scene = tale.scene
          /\ u.goal = tale.goal
      BY <1>1 DEF Tale, Scenes
    <3>3. Land(u, Warming) /\ tale.scene = Upstairs /\ tale.lead \in Stages
      BY <1>1, <1>e, <2>2 DEF TalkUpstairs, Tale
    <3> HIDE DEF u
    <3>4. Good(tale, u)
      <4>1. RoomMove(tale, u)
        BY <3>1, <3>2, <3>3 DEF RoomMove
      <4>2. OnMap(u)
        BY <3>2 DEF StoryInv, OnMap
      <4>3. ArcMove(tale, u)
        BY <3>2, <3>3, Ranks DEF ArcMove, Hardens
      <4>4. RoadMove(tale, u) /\ GoalMove(tale, u)
        BY <3>2 DEF StoryInv, RoadMove, GoalMove, GoalKept, GoalFor
      <4> QED BY <3>2, <4>1, <4>2, <4>3, <4>4 DEF Good
    <3> QED BY <3>3, <3>4, LandGood
  <2> QED BY <2>1, <2>2
<1>f. CASE GoUpstairs
  <2>1. CASE tale.location = Inn /\ tale.lead # "unheard"
    BY <1>f, <2>1, StairGood, LandGood DEF GoUpstairs
  <2>2. CASE ~(tale.location = Inn /\ tale.lead # "unheard")
    BY <1>5, <1>f, <2>2 DEF GoUpstairs
  <2> QED BY <2>1, <2>2
<1>g. CASE GoDownstairs
  <2>1. tale.scene = Upstairs
    BY <1>g DEF GoDownstairs, Hears, Routable, AllBeats, PrologueBeats, PrologueOnly
  <2>2. tale.location = Inn
    BY <1>1, <2>1 DEF StoryInv, OnMap, Tale, Locations, Upstairs, Road, Inn, North,
                      Market, Abbey
  <2> QED BY <1>g, <2>2, StairGood, LandGood DEF GoDownstairs
<1>h. CASE InspectBoard
  BY <1>h, AdvanceGood, LandGood DEF InspectBoard, Stages
<1>i. CASE InspectLedger
  <2>1. Good(r, Found(r, "ledger"))
    BY <1>2, FoundGood DEF Clues
  <2>2. Land(Found(r, "ledger"), Marked) \/ Land(r, Marked)
    BY <1>i DEF InspectLedger, r
  <2> QED BY <1>6, <1>7, <2>1, <2>2
<1>j. CASE Steal
  <2> DEFINE u == [r EXCEPT !.silver = @ + 14]
  <2>1. u \in Tale /\ SameStory(tale, u)
    BY <1>2 DEF Tale, SameStory
  <2>2. Land(u, Marked) \/ Land(r, Marked)
    BY <1>j DEF Steal, r
  <2> QED BY <1>6, <2>1, <2>2, LandQuiet
<1>k. CASE Fight
  <2>1. PICK o \in Outcomes : Land(Brawled(r, o), Marked)
    BY <1>k DEF Fight, r
  <2> DEFINE wound == CASE o = "Exceptional"     -> 1
                        [] o = "Success"         -> 3
                        [] o = "CriticalFailure" -> 9
                        [] OTHER                 -> 6
  <2>2. wound \in Nat
    BY DEF Outcomes
  <2> HIDE DEF wound
  <2>3. Hurt(r, wound) \in Tale /\ SameStory(r, Hurt(r, wound))
    BY <1>2, <2>2, HurtKeeps
  <2>4. Brawled(r, o) = [Hurt(r, wound) EXCEPT
                            !.down = @ \/ Succeeded(o),
                            !.bruised = @ \/ o = "CriticalFailure"]
    BY DEF Brawled, wound
  <2>5. Succeeded(o) \in BOOLEAN
    BY DEF Succeeded
  <2>6. Brawled(r, o) \in Tale /\ SameStory(Hurt(r, wound), Brawled(r, o))
    BY <2>3, <2>4, <2>5, ZenonT(60) DEF Tale, SameStory
  <2> QED BY <1>2, <2>1, <2>3, <2>6, LandQuiet DEF SameStory
<1>l. CASE Rest
  <2>1. Rested(tale) \in Tale /\ SameStory(tale, Rested(tale))
    <3>1. MaxHp \in 1..MaxHp
      OBVIOUS
    <3> QED BY <1>1, <3>1 DEF Rested, Tale, SameStory
  <2> QED BY <1>l, <2>1, LandQuiet DEF Rest
<1>m. CASE Leave
  BY <1>5, <1>m, TravelGood, LandGood DEF Leave, Locations, Road, North
<1>n. CASE Go
  BY <1>n, TravelGood, LandGood DEF Go, Locations, Road, Inn, Market, Abbey
<1>o. CASE ReadTracks
  <2>1. CASE tale.location # North \/ tale.lead = "unheard"
    BY <1>5, <1>o, <2>1 DEF ReadTracks
  <2>2. CASE ~(tale.location # North \/ tale.lead = "unheard")
    <3>1. Land(LedgerTrail(Found(r, "tracks")), Marked) \/ Land(r, Marked)
      BY <1>o, <2>2 DEF ReadTracks, r
    <3> QED BY <1>2, <1>4, <1>6, <1>7, <2>2, <3>1, TracksGood
  <2> QED BY <2>1, <2>2
<1>p. CASE WatchLanterns
  <2>1. CASE tale.location \notin {North, Abbey} \/ tale.lead = "unheard"
    BY <1>5, <1>p, <2>1 DEF WatchLanterns
  <2>2. CASE ~(tale.location \notin {North, Abbey} \/ tale.lead = "unheard")
    <3>1. PICK following \in BOOLEAN :
              Land(Watched(r, following), Marked) \/ Land(r, Marked)
      BY <1>p, <2>2 DEF WatchLanterns, r
    <3> QED BY <1>2, <1>4, <1>6, <1>7, <2>2, <3>1, WatchedGood
  <2> QED BY <2>1, <2>2
<1>q. CASE PressSella
  <2>1. PICK how \in {<<"persuade", "talk-it-out">>, <<"intimidate", "lean-on-them">>} :
            IF tale.location # Market \/ tale.lead = "unheard"
            THEN Land(tale, Silent)
            ELSE \E o \in Outcomes :
                     Land(IF Succeeded(o)
                          THEN Unlock(Advance(Rolled(tale), "investigating"), how[2])
                          ELSE Rolled(tale), Marked)
    BY <1>q DEF PressSella
  <2>2. how[2] \in Solutions
    BY DEF Solutions
  <2>3. CASE tale.location # Market \/ tale.lead = "unheard"
    BY <1>5, <2>1, <2>3
  <2>4. CASE ~(tale.location # Market \/ tale.lead = "unheard")
    <3>1. \/ Land(Unlock(Advance(r, "investigating"), how[2]), Marked)
          \/ Land(r, Marked)
      BY <2>1, <2>4 DEF r
    <3> QED BY <1>2, <1>4, <1>6, <1>7, <2>2, <2>4, <3>1, WonGood
  <2> QED BY <2>3, <2>4
<1>r. CASE TalkBorin
  BY <1>5, <1>r DEF TalkBorin
<1>s. CASE IntimidateBorin
  <2>1. CASE tale.location # Inn \/ tale.down
    BY <1>5, <1>s, <2>1 DEF IntimidateBorin
  <2>2. CASE ~(tale.location # Inn \/ tale.down)
    <3>1. PICK o \in Outcomes : Land([r EXCEPT !.down = Succeeded(o)], Marked)
      BY <1>s, <2>2 DEF IntimidateBorin, r
    <3>a. Succeeded(o) \in BOOLEAN
      BY DEF Succeeded
    <3>2. /\ [r EXCEPT !.down = Succeeded(o)] \in Tale
          /\ SameStory(tale, [r EXCEPT !.down = Succeeded(o)])
      BY <1>2, <3>a DEF Tale, SameStory
    <3> QED BY <3>1, <3>2, LandQuiet
  <2> QED BY <2>1, <2>2
<1>t. CASE Ambush
  <2>1. CASE tale.location # North \/ tale.lead # "investigating"
    BY <1>5, <1>t, <2>1 DEF Ambush
  <2>2. CASE ~(tale.location # North \/ tale.lead # "investigating")
    <3>1. \/ Land(Unlock(r, "blades-out"), Marked)
          \/ \E w \in {6, 9} : Land(Carried(Hurt(r, w)), Marked)
      BY <1>t, <2>2 DEF Ambush, r
    <3>2. Good(r, Unlock(r, "blades-out"))
      <4>1. r.lead # "unheard" /\ Rank(r.lead) >= 3 /\ "blades-out" \in Solutions
        BY <1>4, <2>2, Ranks DEF Solutions
      <4>2. Good(r, r)
        BY <1>2, QuietGood DEF SameStory
      <4> QED BY <1>2, <4>1, <4>2, UnlockGood
    <3>3. ASSUME NEW w \in {6, 9} PROVE Good(r, Carried(Hurt(r, w)))
      <4>1. Hurt(r, w) \in Tale /\ SameStory(r, Hurt(r, w))
        BY <1>2, HurtKeeps
      <4>2. StoryInv(Hurt(r, w)) /\ \A u : Good(Hurt(r, w), u) => Good(r, u)
        BY <1>2, <4>1, QuietGood
      <4> QED BY <4>2, TravelGood DEF Carried, Locations, Road, Inn
    <3> QED BY <1>7, <3>1, <3>2, <3>3
  <2> QED BY <2>1, <2>2
<1>u. CASE Flirt
  BY <1>5, <1>u DEF Flirt
<1>v. CASE OfferIgnored
  BY <1>5, <1>v DEF OfferIgnored
<1>w. CASE OfferPaid
  <2>1. PICK p \in Prices :
            /\ Bargains(p[1]) /\ tale.silver >= p[2]
            /\ Land(Leveraged([tale EXCEPT !.silver = @ - p[2]], p[1]), Warming)
    BY <1>w DEF OfferPaid
  <2> DEFINE u == [tale EXCEPT !.silver = @ - p[2]]
  <2>2. p[2] \in Nat
    BY DEF Prices
  <2>3. u \in Tale /\ SameStory(tale, u)
    BY <1>1, <2>1, <2>2 DEF Tale, SameStory
  <2>4. StoryInv(u) /\ (\A v : Good(u, v) => Good(tale, v)) /\ u.lead = tale.lead
    BY <2>3, QuietGood DEF SameStory
  <2>5. p[1] = "sella" => u.lead # "unheard"
    BY <2>1, <2>4 DEF Bargains
  <2>6. Land(Leveraged(u, p[1]), Warming)
    BY <2>1
  <2> HIDE DEF u
  <2> QED BY <2>4, <2>5, <2>6, LeveragedGood, LandGood
<1>x. CASE OfferAsked
  <2>1. PICK npc : Bargains(npc) /\ \E o \in Outcomes :
            Land(IF Succeeded(o) THEN Leveraged(Rolled(tale), npc)
                 ELSE Rolled(tale), Marked)
    BY <1>x DEF OfferAsked
  <2>2. Land(Leveraged(r, npc), Marked) \/ Land(r, Marked)
    BY <2>1 DEF r
  <2>3. npc = "sella" => r.lead # "unheard"
    BY <1>4, <2>1 DEF Bargains
  <2> QED BY <1>2, <1>6, <1>7, <2>2, <2>3, LeveragedGood
<1>y. CASE Confront
  <2>1. CASE ~tale.completed /\ tale.location = Abbey /\ tale.path # None
    BY <1>y, <2>1, SolvedGood, LandGood DEF Confront, Abbey, Road
  <2>2. CASE ~(~tale.completed /\ tale.location = Abbey /\ tale.path # None)
    BY <1>5, <1>y, <2>2 DEF Confront
  <2> QED BY <2>1, <2>2
<1> QED
  BY <1>a, <1>b, <1>c, <1>d, <1>e, <1>f, <1>g, <1>h, <1>i, <1>j, <1>k, <1>l,
     <1>m, <1>n, <1>o, <1>p, <1>q, <1>r, <1>s, <1>t, <1>u, <1>v, <1>w, <1>x,
     <1>y DEF Next

-----------------------------------------------------------------------------
(* Theorems *)

LEMMA StoryStep ==
    ASSUME StoryInv(tale), [Next]_tale
    PROVE  StoryInv(tale)'
<1>1. CASE Next
  <2>1. PICK u \in Tale, fresh \in BOOLEAN, warm \in BOOLEAN :
            Good(tale, u) /\ tale' = AfterBeat(tale, u, fresh, warm)
    BY <1>1, NextLands DEF Landed
  <2>2. StoryInv(AfterBeat(tale, u, fresh, warm))
    BY <2>1, LandKeepsInv
  <2>3. StoryInv(tale')
    BY <2>1, <2>2
  <2> QED BY <2>3
<1>2. CASE UNCHANGED tale
  BY <1>2
<1> QED BY <1>1, <1>2

LEMMA StoryInit ==
    ASSUME Init PROVE StoryInv(tale)
<1>1. MaxHp \in 1..MaxHp /\ 0 \in 0..InspirationMax
  OBVIOUS
<1>2. Seeded \in Tale
  BY <1>1 DEF Seeded, Tale, Locations, Scenes, Stages
<1>3. Rank("unheard") = 0
  BY Ranks
<1> QED BY <1>2, <1>3 DEF Init, Seeded, StoryInv, ArcSound, OnMap, Aftermath,
                           GoalKept, GoalFor

\* The invariant holds in every reachable state.
THEOREM StoryInvariant == Spec => []StoryInv(tale)
<1>1. Init => StoryInv(tale)
  BY StoryInit
<1>2. StoryInv(tale) /\ [Next]_tale => StoryInv(tale)'
  BY StoryStep
<1> QED BY <1>1, <1>2, PTL DEF Spec

\* Every field keeps its range: whatever beats are played in whatever order,
\* hit points stay within 1..max and the purse never goes below zero.
THEOREM TypeCorrect == Spec => []TypeOK
<1>1. StoryInv(tale) => TypeOK
  BY DEF StoryInv, TypeOK
<1> QED BY <1>1, StoryInvariant, PTL

\* Lead, clues, route and ending never contradict each other.
THEOREM ArcHolds == Spec => []ArcHangsTogether
<1>1. StoryInv(tale) => ArcHangsTogether
  BY DEF StoryInv, ArcHangsTogether
<1> QED BY <1>1, StoryInvariant, PTL

\* No beat moves the map without the scene, or the scene without the map.
THEOREM SceneOnMapHolds == Spec => []SceneOnMap
<1>1. StoryInv(tale) => SceneOnMap
  BY DEF StoryInv, SceneOnMap, OnMap
<1> QED BY <1>1, StoryInvariant, PTL

\* Marla's room stays resolved once she has said her word in it.
THEOREM AftermathHolds == Spec => []AftermathStays
<1>1. StoryInv(tale) => AftermathStays
  BY DEF StoryInv, AftermathStays, Aftermath
<1> QED BY <1>1, StoryInvariant, PTL

\* The goal on show follows the story, whatever beat moved it on.
THEOREM GoalHolds == Spec => []GoalFollowsStory
<1>1. StoryInv(tale) => GoalFollowsStory
  BY DEF StoryInv, GoalFollowsStory, GoalKept
<1> QED BY <1>1, StoryInvariant, PTL

\* A board as Seen shows it, field by field.
Shown(n, applied, road, done) ==
    [Board!SeededState EXCEPT !.turns = n, !.applied = applied, !.road = road,
                              !.completed = done]

LEMMA ShownFields ==
    ASSUME NEW n, NEW applied, NEW road, NEW done
    PROVE  Shown(n, applied, road, done) \in
               [ turns : {n}, applied : {applied}, pending : {TRUE},
                 road : {road}, created : {FALSE}, completed : {done} ]
<1> DEFINE seeded == Board!SeededState
           zero == [k \in {"action"} |-> 0]
           b1 == [seeded EXCEPT !.turns = n]
           b2 == [b1 EXCEPT !.applied = applied]
           b3 == [b2 EXCEPT !.road = road]
           b4 == [b3 EXCEPT !.completed = done]
<1> HIDE DEF zero
<1>1. seeded \in [ turns : {0}, applied : {zero}, pending : {TRUE}, road : {TRUE},
                   created : {FALSE}, completed : {FALSE} ]
  BY DEF Board!SeededState, zero
<1>2. Shown(n, applied, road, done) = b4
  BY DEF Shown
<1> HIDE DEF seeded
<1>3. b1 \in [ turns : {n}, applied : {zero}, pending : {TRUE}, road : {TRUE},
               created : {FALSE}, completed : {FALSE} ]
  BY <1>1
<1> HIDE DEF b1
<1>4. b2 \in [ turns : {n}, applied : {applied}, pending : {TRUE}, road : {TRUE},
               created : {FALSE}, completed : {FALSE} ]
  BY <1>3
<1> HIDE DEF b2
<1>5. b3 \in [ turns : {n}, applied : {applied}, pending : {TRUE}, road : {road},
               created : {FALSE}, completed : {FALSE} ]
  BY <1>4
<1> HIDE DEF b3
<1>6. b4 \in [ turns : {n}, applied : {applied}, pending : {TRUE}, road : {road},
               created : {FALSE}, completed : {done} ]
  BY <1>5
<1> HIDE DEF b4
<1> QED BY <1>2, <1>6

\* What a beat leaves of the road and the ending is what PlayBoard lets an
\* action leave.
LEMMA SeenResolution ==
    ASSUME NEW t \in Tale, NEW v \in Tale, RoadMove(t, v),
           t.completed => v.completed
    PROVE  Seen(v, 1) \in Board!Resolutions(Seen(t, 0), "action")
<1> DEFINE road == t.location = Road
           done == t.completed
           road2 == v.location = Road
           done2 == v.completed
           none == [k \in {"action"} |-> 0]
           once == [k \in {"action"} |-> 1]
           before == Shown(0, none, road, done)
           after == Shown(1, once, road2, done2)
<1>1. /\ road2 \in {road, FALSE} /\ done2 \in {done, TRUE}
      /\ done2 /\ ~done => ~road2
  BY DEF RoadMove, Tale
<1>2. Seen(t, 0) = before /\ Seen(v, 1) = after
  BY DEF Seen, Shown
<1> HIDE DEF road, done, road2, done2
<1>3. [none EXCEPT !["action"] = @ + 1] = once
  OBVIOUS
<1> HIDE DEF none, once
<1>4. before \in [ turns : {0}, applied : {none}, pending : {TRUE}, road : {road},
                   created : {FALSE}, completed : {done} ]
  BY ShownFields, ZenonT(60)
<1>5. after \in [ turns : {1}, applied : {once}, pending : {TRUE}, road : {road2},
                  created : {FALSE}, completed : {done2} ]
  BY ShownFields, ZenonT(60)
<1> HIDE DEF before, after
<1>6. [before.applied EXCEPT !["action"] = @ + 1] = once
  BY <1>3, <1>4
<1>7. after \in [ turns     : {before.turns + 1},
                  applied   : {[before.applied EXCEPT !["action"] = @ + 1]},
                  pending   : {before.pending},
                  road      : {before.road, FALSE},
                  created   : {before.created},
                  completed : {before.completed, TRUE} ]
  <2>1. 1 \in {before.turns + 1}
    BY <1>4
  <2>2. once \in {[before.applied EXCEPT !["action"] = @ + 1]}
    BY <1>6
  <2>3. TRUE \in {before.pending} /\ FALSE \in {before.created}
    BY <1>4
  <2>4. road2 \in {before.road, FALSE} /\ done2 \in {before.completed, TRUE}
    BY <1>1, <1>4
  <2> QED BY <1>5, <2>1, <2>2, <2>3, <2>4
<1>8. after.completed /\ ~before.completed => ~after.road
  BY <1>1, <1>4, <1>5
<1> QED BY <1>2, <1>7, <1>8 DEF Board!Resolutions

\* Every beat is one the play session allows an action to be.
THEOREM BoardHolds == Spec => BoardAllows
<1>1. StoryInv(tale) /\ [Next]_tale
        => [Seen(tale', 1) \in Board!Resolutions(Seen(tale, 0), "action")]_tale
  <2> SUFFICES ASSUME StoryInv(tale), Next
               PROVE  Seen(tale', 1) \in Board!Resolutions(Seen(tale, 0), "action")
    OBVIOUS
  <2>1. PICK u \in Tale, fresh \in BOOLEAN, warm \in BOOLEAN :
            Good(tale, u) /\ tale' = AfterBeat(tale, u, fresh, warm)
    BY NextLands DEF Landed
  <2> DEFINE w == AfterBeat(tale, u, fresh, warm)
  <2>2. tale \in Tale
    BY DEF StoryInv
  <2>3. w \in Tale /\ w.location = u.location /\ w.completed = u.completed
    BY <2>2, AfterBeatKeeps
  <2>4. tale' = w
    BY <2>1
  <2> HIDE DEF w
  <2>5. RoadMove(tale, w) /\ (tale.completed => w.completed)
    BY <2>1, <2>3 DEF Good, RoadMove, ArcMove, Hardens, Opens, Ends
  <2>6. Seen(w, 1) \in Board!Resolutions(Seen(tale, 0), "action")
    BY <2>2, <2>3, <2>5, SeenResolution
  <2> QED BY <2>4, <2>6
<1> QED BY <1>1, StoryInvariant, PTL DEF Spec, BoardAllows

\* The engine's beats implement the arc: every one of them hardens the lead,
\* opens the one route, ends the tale, or leaves the arc alone.
THEOREM ArcImplemented == Spec => ImplementsArc
<1>1. Init => ImplementedArc!Init
  BY DEF Init, Seeded, ImplementedArc!Init
<1>2. StoryInv(tale) /\ [Next]_tale => [ImplementedArc!Next]_<<tale.lead, tale.path, tale.completed>>
  <2> SUFFICES ASSUME StoryInv(tale), [Next]_tale
               PROVE  [ImplementedArc!Next]_<<tale.lead, tale.path, tale.completed>>
    OBVIOUS
  <2>1. CASE UNCHANGED tale
    BY <2>1
  <2>2. CASE Next
    <3>1. PICK u \in Tale, fresh \in BOOLEAN, warm \in BOOLEAN :
              Good(tale, u) /\ tale' = AfterBeat(tale, u, fresh, warm)
      BY <2>2, NextLands DEF Landed
    <3>2. tale \in Tale /\ tale.lead \in Stages /\ u.lead \in Stages
      BY DEF StoryInv, Tale
    <3>3. tale'.lead = u.lead /\ tale'.path = u.path /\ tale'.completed = u.completed
      <4> DEFINE w == AfterBeat(tale, u, fresh, warm)
      <4>1. w.lead = u.lead /\ w.path = u.path /\ w.completed = u.completed
        BY <3>2, AfterBeatKeeps
      <4>2. tale' = w
        BY <3>1
      <4> HIDE DEF w
      <4> QED BY <4>1, <4>2
    <3>4. Rank(u.lead) >= Rank(tale.lead)
      BY <3>1 DEF Good, ArcMove
    <3>5. /\ ImplementedArc!Stages = Stages
          /\ \A s \in Stages : ImplementedArc!Rank(s) = Rank(s)
      BY DEF ImplementedArc!Stages, ImplementedArc!Rank, Rank, Stages
    <3>6. CASE Hardens(tale, u)
      <4>1. CASE u.lead = tale.lead
        BY <3>3, <3>6, <4>1 DEF Hardens
      <4>2. CASE u.lead # tale.lead
        <5>1. Rank(u.lead) > Rank(tale.lead)
          BY <3>2, <3>4, <4>2, Ranks DEF Stages
        <5> QED BY <3>2, <3>3, <3>5, <3>6, <4>2, <5>1
                DEF Hardens, ImplementedArc!Next, ImplementedArc!Learn
      <4> QED BY <4>1, <4>2
    <3>7. CASE Opens(tale, u)
      BY <3>3, <3>7 DEF Opens, ImplementedArc!Next, ImplementedArc!OpenWay
    <3>8. CASE Ends(tale, u)
      <4>1. tale.completed \in BOOLEAN /\ u.completed \in BOOLEAN
        BY <3>2 DEF Tale
      <4> QED BY <3>3, <3>8, <4>1 DEF Ends, ImplementedArc!Next, ImplementedArc!Finish
    <3> QED BY <3>1, <3>6, <3>7, <3>8 DEF Good, ArcMove
  <2> QED BY <2>1, <2>2
<1> QED BY <1>1, <1>2, StoryInvariant, PTL
        DEF Spec, ImplementsArc, ImplementedArc!Spec, ImplementedArc!vars
=============================================================================
