------------------------------- MODULE Combat -------------------------------
(***************************************************************************)
(* A fight of the backend (backend/app/modules/combat): the turns that are *)
(* submitted, the techniques, the ends of rounds, the death saves and the  *)
(* rests, on the combatants the server keeps in memory.                    *)
(*                                                                         *)
(* A turn is what its text is classified to, or the slots the client       *)
(* fills.  A roll is a free choice of hit or miss.  Words, intents and     *)
(* events change nothing that is tested and are left out.                  *)
(* Turns and casts come over HTTP.  Ends of rounds, death saves, treatment *)
(* and rests are calls of the engine's own that nothing but its tests make *)
(* (the rests of the router act on combatants made for the request).       *)
(***************************************************************************)
EXTENDS Integers, FiniteSets

CONSTANTS
    Fighters, Enemies,  \* combatants, and those with is_enemy
    NoOne,              \* a target that is missing
    MaxHp, MaxStamina,
    Archers,            \* whose weapon is ranged
    Might,              \* weapon.damage
    Reduction,          \* armour.reduction
    Modes,              \* campaign modes
    StartBands,         \* bands a fight may start at
    EnvDamage,          \* effect_damage of the feature at hand
    Under,              \* its linked_targets
    Techniques,         \* the techniques at hand: damage, healing, cost
    BaseCost,           \* BASE_COSTS, by kind
    Regen,              \* REGEN_PER_ROUND
    BruisedRegen,       \* what bruised ribs leave of it
    DeepBlow,           \* damage that may wound someone low
    MaxRepeats,         \* bound on the repeats that are told apart
    MaxTurnsTaken,      \* bound on the turns and casts
    MaxPauses           \* bound on the calls between them

Light == "light"
Heavy == "heavy"

ASSUME CombatAssumption ==
    /\ NoOne \notin Fighters
    /\ Enemies \subseteq Fighters /\ Archers \subseteq Fighters /\ Under \subseteq Fighters
    /\ MaxHp \in Nat \ {0} /\ MaxStamina \in Nat
    /\ Might \in [Fighters -> Nat] /\ Reduction \in [Fighters -> Nat]
    /\ Modes \subseteq {"story", "standard", "hardcore", "iron"}
    /\ StartBands \subseteq 0..3 /\ EnvDamage \in Nat
    /\ \A t \in Techniques : t \in [damage : Nat, healing : Nat, cost : Nat]
    /\ BaseCost \in [{Light, Heavy, "sprint", "block", "env"} -> Nat]
    /\ Regen \in Nat /\ BruisedRegen \in Nat /\ DeepBlow \in Nat
    /\ MaxRepeats \in Nat /\ MaxTurnsTaken \in Nat /\ MaxPauses \in Nat

VARIABLES
    mode,
    body,     \* the combatants
    band,     \* ranges: 0 engaged, 1 near, 2 far, 3 distant
    broken,   \* the feature was used up
    over,
    taken,    \* bound: turns and casts
    pauses    \* bound: calls between them

combatVars == <<mode, body, band, broken, over, taken, pauses>>

Injuries == {"BruisedRibs", "BrokenArm", "DeepCut", "Concussion"}

Body ==
    [ hp : 0..MaxHp, stamina : 0..MaxStamina,
      status : {"active", "incapacitated", "stable", "dead"},
      fails : 0..4, wins : 0..3,
      injuries : SUBSET Injuries, blocking : BOOLEAN,
      last : {"none", Light, Heavy}, repeats : 0..MaxRepeats, exhausted : BOOLEAN ]

Fresh ==
    [ hp |-> MaxHp, stamina |-> MaxStamina, status |-> "active", fails |-> 0, wins |-> 0,
      injuries |-> {}, blocking |-> FALSE, last |-> "none", repeats |-> 0,
      exhausted |-> FALSE ]

\* range_key: two combatants are one distance apart, whichever asks.
Pairs == {{x, y} : x, y \in Fighters}

CombatInit ==
    /\ mode \in Modes
    /\ body = [x \in Fighters |-> Fresh]
    /\ \E d \in StartBands : band = [p \in Pairs |-> IF Cardinality(p) = 1 THEN 0 ELSE d]
    /\ broken = FALSE /\ over = FALSE /\ taken = 0 /\ pauses = 0

Alive(b) == b.status # "dead"
Least(x, y) == IF x <= y THEN x ELSE y
Most(x, y) == IF x <= y THEN y ELSE x

\* living_enemies_of
Foes(bodies, x) == {y \in Fighters : (y \in Enemies) # (x \in Enemies) /\ Alive(bodies[y])}

-----------------------------------------------------------------------------
(* Slips *)

\* A wound may bleed someone dry where he stands.
BledDry(b) == [b EXCEPT !.hp = IF b.hp < 2 THEN 0 ELSE b.hp - 2]

\* A rest takes everyone back up.
Woken(b) == [b EXCEPT !.status = "active"]

-----------------------------------------------------------------------------
(* Stamina *)

\* round(base * (1 + 0.5 * repeats)): a half goes to the even number.
Cost(base, repeats) ==
    LET twice == base * (2 + repeats)
        half == twice \div 2
    IN IF twice % 2 = 0 \/ half % 2 = 0 THEN half ELSE half + 1

\* track_primary
Tracked(b, kind) ==
    [b EXCEPT !.repeats = IF b.last = kind THEN Least(MaxRepeats, b.repeats + 1) ELSE 0,
              !.last = kind]

\* spend_flat, and spend_stamina with the surcharge of its repeats: a pool
\* that is short is burned, and leaves its owner exhausted.
Flat(b, cost) ==
    IF b.stamina >= cost THEN [b EXCEPT !.stamina = b.stamina - cost]
    ELSE [b EXCEPT !.stamina = 0, !.exhausted = TRUE]
Surcharged(b, kind) == Cost(BaseCost[kind], Tracked(b, kind).repeats)
Short(b, kind) == b.stamina < Surcharged(b, kind)
Spent(b, kind) ==
    LET paid == Flat(Tracked(b, kind), Surcharged(b, kind))
    IN IF Short(b, kind) THEN paid ELSE [paid EXCEPT !.exhausted = FALSE]

Regenerated(b) ==
    LET gain == IF "BruisedRibs" \in b.injuries THEN BruisedRegen ELSE Regen
        stamina == Least(MaxStamina, b.stamina + gain)
    IN [b EXCEPT !.stamina = stamina,
                 !.exhausted = @ /\ stamina < MaxStamina \div 2]

-----------------------------------------------------------------------------
(* Wounds *)

\* should_inflict asks after the blow was taken off already.
Inflicts(b, damage) ==
    \/ damage * 10 >= MaxHp * 4
    \/ (b.hp - damage) * 10 <= MaxHp * 3 /\ damage >= DeepBlow

\* pick_injury
Kinds == <<"BruisedRibs", "BrokenArm", "DeepCut", "Concussion">>
Picked(damage) == Kinds[((damage + MaxHp) % 4) + 1]

\* attack_penalty
Penalty(b, kind) ==
    (IF "Concussion" \in b.injuries THEN -2 ELSE 0)
    + (IF kind = Heavy /\ "BrokenArm" \in b.injuries THEN -4 ELSE 0)

\* resolve_zero_hp: the saves of someone already dying start again.
Fallen(b) ==
    IF mode = "iron" THEN [b EXCEPT !.hp = 0, !.status = "dead"]
    ELSE IF mode = "story" THEN [b EXCEPT !.hp = 0, !.status = "stable"]
    ELSE [b EXCEPT !.hp = 0, !.status = "incapacitated", !.fails = 0, !.wins = 0]

\* _apply_damage
Hurt(b, damage) ==
    LET hit == [b EXCEPT !.hp = b.hp - damage]
        marked == IF Inflicts(hit, damage)
                  THEN [hit EXCEPT !.injuries = @ \cup {Picked(damage)}] ELSE hit
    IN IF b.status = "dead" THEN b
       ELSE IF marked.hp <= 0 THEN Fallen(marked) ELSE marked

-----------------------------------------------------------------------------
(* A turn *)

\* _resolve_movement: whatever the words, toward the nearest foe.
Nearest(bands, x) ==
    {y \in Foes(body, x) : \A z \in Foes(body, x) : bands[{x, y}] <= bands[{x, z}]}
Toward(bands, x) == IF Foes(body, x) = {} THEN {NoOne} ELSE Nearest(bands, x)

\* An attack on someone in reach, with the band as the movement left it.
InReach(bands, x, y) ==
    IF x \in Archers THEN bands[{x, y}] # 3 ELSE bands[{x, y}] = 0

BlowOf(bodies, x, y, kind, weakened) ==
    LET raw == Might[x] + (IF kind = Heavy THEN 4 ELSE 0) + Penalty(bodies[x], kind)
        met == IF bodies[y].blocking THEN Most(0, raw \div 2) ELSE raw
        soft == Most(1, met - Reduction[y])
    IN IF weakened THEN Most(1, soft \div 2) ELSE soft

\* _resolve_attack: the stamina is spent first, whatever comes of it: no
\* target, one out of reach, a miss or a hit.
AfterAttack(bodies, x, y, kind, hit) ==
    LET weakened == Short(bodies[x], kind)
        paid == [bodies EXCEPT ![x] = Spent(bodies[x], kind)]
    IN IF ~hit THEN paid
       ELSE [paid EXCEPT ![y] =
                Hurt([paid[y] EXCEPT !.blocking = FALSE], BlowOf(paid, x, y, kind, weakened))]

\* _resolve_env: the feature falls on who stands under it and on who is named;
\* reaching for one that is not there, or is broken, costs as much.
AfterFeature(bodies, x, named, there) ==
    LET paid == [bodies EXCEPT ![x] = Flat(bodies[x], BaseCost["env"])]
        struck == {y \in Under : Alive(paid[y])} \cup (named \cap Foes(paid, x))
    IN IF broken \/ ~there THEN paid
       ELSE [y \in Fighters |-> IF y \in struck THEN Hurt(paid[y], Most(1, EnvDamage)) ELSE paid[y]]

\* _resolve_cast: no one asks whether the caster, or who is mended, can rise.
AfterCast(bodies, x, t, y) ==
    LET paid == [bodies EXCEPT ![x] = Flat(bodies[x], t.cost)]
        ally == IF y = NoOne THEN x ELSE y
    IN IF t.healing > 0 /\ t.damage = 0
       THEN [paid EXCEPT ![ally].hp = @ + Least(MaxHp - @, t.healing)]
       ELSE IF y = NoOne THEN paid
       ELSE [paid EXCEPT ![y] = Hurt(@, t.damage)]

\* _check_over: one side has no one left who is not dead.
OneSideLeft(bodies) ==
    \/ \A x \in Enemies : ~Alive(bodies[x])
    \/ \A x \in Fighters \ Enemies : ~Alive(bodies[x])

Settle(bodies) ==
    /\ body' = bodies
    /\ over' = (over \/ OneSideLeft(bodies))

TakeTurn == taken < MaxTurnsTaken /\ taken' = taken + 1 /\ UNCHANGED pauses

\* The movement slot of a turn: none, a move or a sprint.
Moved(bands, x, pace, toward) ==
    IF pace = 0 \/ Foes(body, x) = {} THEN bands
    ELSE [bands EXCEPT ![{x, toward}] = Most(0, @ - pace)]
Winded(x, pace) ==
    IF pace = 2 /\ Foes(body, x) # {}
    THEN [body EXCEPT ![x] = Flat(body[x], BaseCost["sprint"])] ELSE body

\* The reaction slot.
Guarded(bodies, x, block) ==
    IF block
    THEN [bodies EXCEPT ![x] = [Flat(@, BaseCost["block"]) EXCEPT !.blocking = TRUE]]
    ELSE bodies

\* submit_turn: movement, the primary action, the guard, in this order.  The
\* primary action may be one more move, and costs nothing then.
SubmitTurn ==
    /\ TakeTurn
    /\ \E x \in Fighters, pace \in 0..2, block \in BOOLEAN :
         /\ body[x].status = "active"
         /\ \E toward \in Toward(band, x) :
              LET bands == Moved(band, x, pace, toward)
                  start == Winded(x, pace)
                  Act(bodies) == Settle(Guarded(bodies, x, block))
              IN
              \/ \E kind \in {Light, Heavy}, y \in Fighters \cup {NoOne}, hit \in BOOLEAN :
                   /\ hit => y # NoOne /\ InReach(bands, x, y)
                   /\ Act(AfterAttack(start, x, y, kind, hit))
                   /\ band' = bands /\ UNCHANGED broken
              \/ \E named \in Fighters \cup {NoOne}, there \in BOOLEAN :
                   /\ Act(AfterFeature(start, x, {named} \cap Fighters, there))
                   /\ band' = bands /\ broken' = (broken \/ there)
              \/ \E t \in Techniques, y \in Fighters \cup {NoOne} :
                   /\ Act(AfterCast(start, x, t, y))
                   /\ band' = bands /\ UNCHANGED broken
              \/ \E onward \in Toward(bands, x), stride \in 0..1 :
                   /\ Act(start)
                   /\ band' = Moved(bands, x, stride, onward) /\ UNCHANGED broken
    /\ UNCHANGED mode

\* cast, outside of a turn: not even the fallen are turned away.
Cast ==
    /\ TakeTurn
    /\ \E x \in Fighters, y \in Fighters \cup {NoOne}, t \in Techniques :
         Settle(AfterCast(body, x, t, y))
    /\ UNCHANGED <<mode, band, broken>>

-----------------------------------------------------------------------------
(* Between the turns *)

Pause == pauses < MaxPauses /\ pauses' = pauses + 1 /\ UNCHANGED taken

\* bleed_tick, and what it leads to
Bled(b) ==
    LET lost == [b EXCEPT !.hp = Most(0, b.hp - 2)]
    IN IF lost.hp <= 0 THEN Fallen(lost) ELSE lost
Bleeding(b) == "DeepCut" \in b.injuries /\ b.status = "active"

\* end_round
EndRound ==
    /\ Pause
    /\ body' = [x \in Fighters |->
          IF ~Alive(body[x]) THEN body[x]
          ELSE IF Bleeding(body[x]) THEN Bled(Regenerated(body[x])) ELSE Regenerated(body[x])]
    /\ UNCHANGED <<mode, band, broken, over>>

\* death_save, for a roll of 20, of 1, at the difficulty or below it
Saved(b, roll) ==
    CASE roll = "twenty" -> [b EXCEPT !.status = "stable"]
      [] roll = "one" -> [b EXCEPT !.fails = @ + 2, !.status = IF b.fails >= 1 THEN "dead" ELSE @]
      [] roll = "made" -> [b EXCEPT !.wins = @ + 1, !.status = IF b.wins >= 2 THEN "stable" ELSE @]
      [] roll = "failed" -> [b EXCEPT !.fails = @ + 1, !.status = IF b.fails >= 2 THEN "dead" ELSE @]

DeathSave ==
    /\ Pause
    /\ \E x \in Fighters, roll \in {"twenty", "one", "made", "failed"} :
         /\ body[x].status = "incapacitated"
         /\ roll = "made" => mode # "iron"
         /\ body' = [body EXCEPT ![x] = Saved(@, roll)]
    /\ UNCHANGED <<mode, band, broken, over>>

\* stabilize, and treat_injury: what does not ask for medicine always heals.
Tend ==
    /\ Pause
    /\ \E x \in Fighters :
         \/ /\ body[x].status = "incapacitated"
            /\ body' = [body EXCEPT ![x].status = "stable"]
         \/ \E kind \in body[x].injuries, medicine \in BOOLEAN :
              /\ kind \in {"BrokenArm", "DeepCut"} => medicine
              /\ body' = [body EXCEPT ![x].injuries = @ \ {kind}]
    /\ UNCHANGED <<mode, band, broken, over>>

\* short_rest, and a long rest that is broken off
Healed(b, share) == [b EXCEPT !.hp = @ + Least(MaxHp - @, Most(1, MaxHp \div share))]
Rested(b) == [Healed(b, 4) EXCEPT !.stamina = Least(MaxStamina, @ + MaxStamina \div 2)]

ShortRest ==
    /\ Pause
    /\ body' = [x \in Fighters |-> IF Alive(body[x]) THEN Rested(body[x]) ELSE body[x]]
    /\ UNCHANGED <<mode, band, broken, over>>

BrokenRest ==
    /\ Pause
    /\ body' = [x \in Fighters |-> IF Alive(body[x]) THEN Healed(body[x], 10) ELSE body[x]]
    /\ UNCHANGED <<mode, band, broken, over>>

\* long_rest: one injury mends, and only the stable get up.
Risen(b) == IF b.status = "stable" THEN [b EXCEPT !.status = "active"] ELSE b
Slept(b, mended) ==
    [Risen(b) EXCEPT !.hp = MaxHp, !.stamina = MaxStamina, !.injuries = @ \ {mended}]

LongRest ==
    /\ Pause
    /\ \E mended \in [Fighters -> Injuries] :
         /\ \A x \in Fighters : body[x].injuries = {} \/ mended[x] \in body[x].injuries
         /\ body' = [x \in Fighters |->
                IF Alive(body[x]) THEN Slept(body[x], mended[x]) ELSE body[x]]
    /\ UNCHANGED <<mode, band, broken, over>>

CombatNext ==
    \/ SubmitTurn \/ Cast \/ EndRound
    \/ DeathSave \/ Tend \/ ShortRest \/ BrokenRest \/ LongRest

CombatSpec == CombatInit /\ [][CombatNext]_combatVars

-----------------------------------------------------------------------------
(* Properties *)

CombatTypeOK ==
    /\ mode \in Modes /\ body \in [Fighters -> Body]
    /\ band \in [Pairs -> 0..3] /\ broken \in BOOLEAN /\ over \in BOOLEAN
    /\ taken \in 0..MaxTurnsTaken /\ pauses \in 0..MaxPauses

\* Whoever may act stands, and the dying are not past their last save.
ActiveStands == \A x \in Fighters : body[x].status = "active" => body[x].hp > 0
SavesOpen == \A x \in Fighters :
                body[x].status = "incapacitated" => body[x].fails < 3 /\ body[x].wins < 3

\* A fight that was called over has one side left, however long it goes on.
OverIsOver == over => OneSideLeft(body)

FightSound == ActiveStands /\ SavesOpen /\ OverIsOver

\* No call raises the dead or takes two combatants apart, and who fell is back
\* on his feet only as a night's rest leaves him: from stable, and whole.
FightGoesOn ==
    [][ /\ \A x \in Fighters : body[x].status = "dead" => body'[x].status = "dead"
        /\ \A p \in Pairs : band'[p] <= band[p]
        /\ \A x \in Fighters :
             body[x].status # "active" /\ body'[x].status = "active" =>
                 body[x].status = "stable" /\ body'[x].hp = MaxHp ]_combatVars
=============================================================================
