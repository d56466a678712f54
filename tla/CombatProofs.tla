---------------------------- MODULE CombatProofs ----------------------------
(***************************************************************************)
(* Proofs about a fight (Combat): whoever may act stands, the dying are    *)
(* not past their last save, a fight that is over stays over, and no call  *)
(* raises the dead.                                                        *)
(***************************************************************************)
EXTENDS Combat, TLAPS

\* What holds of each combatant on his own.
Sound(b) ==
    /\ b \in Body
    /\ b.status = "active" => b.hp > 0
    /\ b.status = "incapacitated" => b.fails < 3 /\ b.wins < 3

\* What a call may make of a combatant: no one it finds down gets up.
Worse(b, c) ==
    /\ Sound(c)
    /\ b.status = "dead" => c.status = "dead"
    /\ b.status # "active" => c.status # "active"

\* Nothing that decides over life and death has changed.
Alike(b, c) ==
    /\ c \in Body
    /\ c.hp = b.hp /\ c.status = b.status /\ c.fails = b.fails /\ c.wins = b.wins

AllSound(bodies) == bodies \in [Fighters -> Body] /\ \A x \in Fighters : Sound(bodies[x])
AllWorse(bodies, next) == AllSound(next) /\ \A x \in Fighters : Worse(bodies[x], next[x])

\* Who is alike is no worse off, ...
LEMMA AlikeIsWorse ==
    ASSUME NEW b, NEW c, Sound(b), Alike(b, c)
    PROVE  Worse(b, c)
  BY DEF Sound, Worse, Alike

\* ... one change after another, ...
LEMMA AlikeTwice ==
    ASSUME NEW b, NEW c, NEW d, Alike(b, c), Alike(c, d)
    PROVE  Alike(b, d)
  BY DEF Alike

\* ... and one call after another raises no one.
LEMMA WorseTwice ==
    ASSUME NEW p, NEW q, NEW r, AllWorse(p, q), AllWorse(q, r)
    PROVE  AllWorse(p, r)
  BY DEF AllWorse, Worse

\* No call at all raises no one.
LEMMA WorseNone ==
    ASSUME NEW p, AllSound(p)
    PROVE  AllWorse(p, p)
  BY DEF AllWorse, AllSound, Worse

\* One combatant is changed.
LEMMA WorseOne ==
    ASSUME NEW p, AllSound(p), NEW x \in Fighters, NEW c, Worse(p[x], c)
    PROVE  AllWorse(p, [p EXCEPT ![x] = c])
<1> DEFINE q == [p EXCEPT ![x] = c]
<1>1. c \in Body
  BY DEF Worse, Sound
<1>2. q \in [Fighters -> Body] /\ q[x] = c /\ \A y \in Fighters : y # x => q[y] = p[y]
  BY <1>1 DEF AllSound
<1> HIDE DEF q
<1>3. ASSUME NEW y \in Fighters PROVE Worse(p[y], q[y])
  <2>1. CASE y = x
    BY <1>2, <2>1
  <2>2. CASE y # x
    BY <1>2, <2>2 DEF AllSound, Worse
  <2> QED
    BY <2>1, <2>2
<1>4. AllWorse(p, q)
  BY <1>2, <1>3 DEF AllWorse, AllSound, Worse
<1> QED
  BY <1>4 DEF q

\* The numbers of a body, for the provers.
LEMMA Measured ==
    ASSUME NEW b \in Body
    PROVE  /\ b.hp \in 0..MaxHp /\ b.stamina \in 0..MaxStamina
           /\ b.status \in {"active", "incapacitated", "stable", "dead"}
           /\ b.fails \in 0..4 /\ b.wins \in 0..3 /\ b.repeats \in 0..MaxRepeats
           /\ b.injuries \subseteq Injuries
  BY DEF Body

-----------------------------------------------------------------------------
(* Stamina *)

\* spend_flat takes stamina and nothing else.
LEMMA FlatAlike ==
    ASSUME CombatAssumption, NEW b \in Body, NEW cost \in Nat
    PROVE  Alike(b, Flat(b, cost))
<1>1. b.stamina \in 0..MaxStamina /\ MaxStamina \in Nat
  BY Measured DEF CombatAssumption
<1>2. CASE b.stamina >= cost
  <2> DEFINE left == b.stamina - cost
  <2>1. left \in 0..MaxStamina
    BY <1>1, <1>2
  <2> HIDE DEF left
  <2>2. Alike(b, [b EXCEPT !.stamina = left])
    BY <2>1 DEF Body, Alike
  <2> QED
    BY <1>2, <2>2 DEF Flat, left
<1>3. CASE ~(b.stamina >= cost)
  <2>1. 0 \in 0..MaxStamina
    BY <1>1
  <2>2. Alike(b, [b EXCEPT !.stamina = 0, !.exhausted = TRUE])
    BY <2>1 DEF Body, Alike
  <2> QED
    BY <1>3, <2>2 DEF Flat
<1> QED
  BY <1>2, <1>3

\* A cost is never negative.
LEMMA CostCounts ==
    ASSUME NEW base \in Nat, NEW repeats \in Nat
    PROVE  Cost(base, repeats) \in Nat
<1> DEFINE twice == base * (2 + repeats)
<1>1. twice \in Nat
  OBVIOUS
<1> HIDE DEF twice
<1>2. twice \div 2 \in Nat
  BY <1>1
<1> QED
  BY <1>1, <1>2 DEF Cost, twice

\* track_primary counts, and nothing else.
LEMMA TrackedAlike ==
    ASSUME CombatAssumption, NEW b \in Body, NEW kind \in {Light, Heavy}
    PROVE  Alike(b, Tracked(b, kind)) /\ Tracked(b, kind).repeats \in Nat
<1> DEFINE many == IF b.last = kind THEN Least(MaxRepeats, b.repeats + 1) ELSE 0
           q == [b EXCEPT !.repeats = many, !.last = kind]
<1>1. many \in 0..MaxRepeats
  BY Measured DEF CombatAssumption, Least
<1> HIDE DEF many
<1>2. kind \in {"none", Light, Heavy}
  OBVIOUS
<1>3. Alike(b, q) /\ q.repeats = many
  BY <1>1, <1>2 DEF Body, Alike
<1>4. Tracked(b, kind) = q
  BY DEF Tracked, many
<1>5. many \in Nat
  BY <1>1 DEF CombatAssumption
<1> HIDE DEF q
<1> QED
  BY <1>3, <1>4, <1>5

\* So with its surcharge.
LEMMA SpentAlike ==
    ASSUME CombatAssumption, NEW b \in Body, NEW kind \in {Light, Heavy}
    PROVE  Alike(b, Spent(b, kind))
<1> DEFINE t == Tracked(b, kind)
           paid == Flat(t, Surcharged(b, kind))
<1>1. Alike(b, t) /\ t.repeats \in Nat /\ t \in Body
  BY TrackedAlike DEF Alike
<1>2. Surcharged(b, kind) \in Nat
  <2>1. BaseCost[kind] \in Nat
    BY DEF CombatAssumption
  <2> QED
    BY <1>1, <2>1, CostCounts DEF Surcharged
<1> HIDE DEF t
<1>3. Alike(b, paid) /\ paid \in Body
  BY <1>1, <1>2, FlatAlike, AlikeTwice, ZenonT(60) DEF Alike
<1>4. Spent(b, kind) = IF Short(b, kind) THEN paid ELSE [paid EXCEPT !.exhausted = FALSE]
  BY DEF Spent, t
<1> HIDE DEF paid
<1>5. Alike(paid, [paid EXCEPT !.exhausted = FALSE])
  BY <1>3 DEF Alike, Body
<1> QED
  BY <1>3, <1>4, <1>5, AlikeTwice

\* The end of a round gives stamina and nothing else.
LEMMA RegeneratedAlike ==
    ASSUME CombatAssumption, NEW b \in Body
    PROVE  Alike(b, Regenerated(b))
<1> DEFINE gain == IF "BruisedRibs" \in b.injuries THEN BruisedRegen ELSE Regen
           full == Least(MaxStamina, b.stamina + gain)
           tired == b.exhausted /\ full < MaxStamina \div 2
<1>1. gain \in Nat
  BY DEF CombatAssumption
<1> HIDE DEF gain
<1>2. full \in 0..MaxStamina
  BY <1>1, Measured DEF CombatAssumption, Least
<1> HIDE DEF full
<1>3. tired \in BOOLEAN
  OBVIOUS
<1> HIDE DEF tired
<1>4. Alike(b, [b EXCEPT !.stamina = full, !.exhausted = tired])
  BY <1>2, <1>3 DEF Alike, Body
<1>5. Regenerated(b) = [b EXCEPT !.stamina = full, !.exhausted = tired]
  BY DEF Regenerated, full, gain, tired
<1> QED
  BY <1>4, <1>5

-----------------------------------------------------------------------------
(* Wounds *)

\* A body as a blow leaves it, before anyone asks whether it falls.
Struck ==
    [ hp : Int, stamina : 0..MaxStamina,
      status : {"active", "incapacitated", "stable", "dead"},
      fails : 0..4, wins : 0..3,
      injuries : SUBSET Injuries, blocking : BOOLEAN,
      last : {"none", Light, Heavy}, repeats : 0..MaxRepeats, exhausted : BOOLEAN ]

\* Who falls does not stand, and his saves begin.
LEMMA FallenDown ==
    ASSUME CombatAssumption, NEW b \in Struck
    PROVE  Sound(Fallen(b)) /\ Fallen(b).status # "active"
<1>1. 0 \in 0..MaxHp /\ 0 \in 0..4 /\ 0 \in 0..3
  BY DEF CombatAssumption
<1>2. CASE mode = "iron"
  <2> DEFINE q == [b EXCEPT !.hp = 0, !.status = "dead"]
  <2>1. q \in Body /\ q.status = "dead"
    BY <1>1 DEF Struck, Body
  <2> HIDE DEF q
  <2>2. Fallen(b) = q
    BY <1>2 DEF Fallen, q
  <2> QED
    BY <2>1, <2>2 DEF Sound
<1>3. CASE mode = "story"
  <2> DEFINE q == [b EXCEPT !.hp = 0, !.status = "stable"]
  <2>1. q \in Body /\ q.status = "stable"
    BY <1>1 DEF Struck, Body
  <2> HIDE DEF q
  <2>2. Fallen(b) = q
    BY <1>3 DEF Fallen, q
  <2> QED
    BY <2>1, <2>2 DEF Sound
<1>4. CASE mode # "iron" /\ mode # "story"
  <2> DEFINE q == [b EXCEPT !.hp = 0, !.status = "incapacitated", !.fails = 0, !.wins = 0]
  <2>1. q \in Body /\ q.status = "incapacitated" /\ q.fails = 0 /\ q.wins = 0
    BY <1>1 DEF Struck, Body
  <2> HIDE DEF q
  <2>2. Fallen(b) = q
    BY <1>4 DEF Fallen, q
  <2> QED
    BY <2>1, <2>2 DEF Sound
<1> QED
  BY <1>2, <1>3, <1>4

\* A blow never raises anyone, and leaves standing only who has hp left.
LEMMA HurtWorse ==
    ASSUME CombatAssumption, NEW b, Sound(b), NEW damage \in Nat
    PROVE  Worse(b, Hurt(b, damage))
<1> DEFINE h == b.hp - damage
           hit == [b EXCEPT !.hp = h]
           wounds == hit.injuries \cup {Picked(damage)}
           marked == IF Inflicts(hit, damage) THEN [hit EXCEPT !.injuries = wounds] ELSE hit
<1>1. b \in Body /\ b.hp \in 0..MaxHp /\ MaxHp \in Nat /\ b.injuries \subseteq Injuries
  BY Measured DEF Sound, CombatAssumption
<1>2. h \in Int /\ h <= MaxHp
  BY <1>1
<1>3. Picked(damage) \in Injuries
  <2> DEFINE k == ((damage + MaxHp) % 4) + 1
  <2>1. k \in 1..4
    BY <1>1
  <2> HIDE DEF k
  <2>2. Kinds[k] \in Injuries
    BY <2>1 DEF Kinds, Injuries
  <2> QED
    BY <2>2 DEF Picked, k
<1>4. hit \in Struck /\ hit.hp = h /\ hit.status = b.status /\ hit.fails = b.fails /\ hit.wins = b.wins
      /\ hit.injuries = b.injuries
  <2> HIDE DEF h
  <2> QED
    BY <1>1, <1>2 DEF Struck, Body
<1>5. wounds \subseteq Injuries
  BY <1>1, <1>3, <1>4
<1> HIDE DEF h, hit, wounds
<1>6. /\ marked \in Struck /\ marked.hp = h /\ marked.status = b.status
      /\ marked.fails = b.fails /\ marked.wins = b.wins
  BY <1>4, <1>5 DEF Struck
<1>7. Hurt(b, damage) = IF b.status = "dead" THEN b
                        ELSE IF marked.hp <= 0 THEN Fallen(marked) ELSE marked
  BY DEF Hurt, marked, hit, h, wounds
<1> HIDE DEF marked
<1>8. CASE b.status = "dead"
  BY <1>7, <1>8 DEF Worse
<1>9. CASE b.status # "dead" /\ marked.hp <= 0
  <2>1. Sound(Fallen(marked)) /\ Fallen(marked).status # "active"
    BY <1>6, FallenDown
  <2> QED
    BY <1>7, <1>9, <2>1 DEF Worse
<1>10. CASE b.status # "dead" /\ ~(marked.hp <= 0)
  <2>1. marked.hp \in 0..MaxHp /\ marked.hp > 0
    BY <1>1, <1>2, <1>6, <1>10
  <2>2. marked \in Body
    BY <1>6, <2>1 DEF Struck, Body
  <2> QED
    BY <1>6, <1>7, <1>10, <2>1, <2>2 DEF Worse, Sound
<1> QED
  BY <1>8, <1>9, <1>10

\* Bleeding takes hp at the end of a round.
LEMMA BledWorse ==
    ASSUME CombatAssumption, NEW b, Sound(b), b.status # "dead"
    PROVE  Worse(b, Bled(b))
<1> DEFINE h == Most(0, b.hp - 2)
           lost == [b EXCEPT !.hp = h]
<1>1. b \in Body /\ b.hp \in 0..MaxHp /\ MaxHp \in Nat
  BY Measured DEF Sound, CombatAssumption
<1>2. h \in 0..MaxHp
  BY <1>1 DEF Most
<1> HIDE DEF h
<1>3. /\ lost \in Body /\ lost.hp = h /\ lost.status = b.status
      /\ lost.fails = b.fails /\ lost.wins = b.wins
  BY <1>1, <1>2 DEF Body
<1>4. lost \in Struck
  <2>1. h \in Int
    BY <1>2
  <2> QED
    BY <1>1, <2>1 DEF Body, Struck
<1>5. Bled(b) = IF lost.hp <= 0 THEN Fallen(lost) ELSE lost
  BY DEF Bled, lost, h
<1> HIDE DEF lost
<1>6. CASE lost.hp <= 0
  <2>1. Sound(Fallen(lost)) /\ Fallen(lost).status # "active"
    BY <1>4, FallenDown
  <2> QED
    BY <1>5, <1>6, <2>1 DEF Worse
<1>7. CASE ~(lost.hp <= 0)
  <2>1. lost.hp > 0
    BY <1>2, <1>3, <1>7
  <2> QED
    BY <1>3, <1>5, <1>7, <2>1 DEF Worse, Sound
<1> QED
  BY <1>6, <1>7

\* Healing takes no one from where he lies.
LEMMA HealedWorse ==
    ASSUME CombatAssumption, NEW b, Sound(b), NEW gain \in Nat
    PROVE  Worse(b, [b EXCEPT !.hp = b.hp + Least(MaxHp - b.hp, gain)])
<1> DEFINE h == b.hp + Least(MaxHp - b.hp, gain)
           q == [b EXCEPT !.hp = h]
<1>1. b \in Body /\ b.hp \in 0..MaxHp /\ MaxHp \in Nat
  BY Measured DEF Sound, CombatAssumption
<1>2. h \in 0..MaxHp /\ h >= b.hp
  BY <1>1 DEF Least
<1> HIDE DEF h
<1>3. /\ q \in Body /\ q.hp = h /\ q.status = b.status
      /\ q.fails = b.fails /\ q.wins = b.wins
  BY <1>1, <1>2 DEF Body
<1> HIDE DEF q
<1>4. b.hp > 0 => h > 0
  BY <1>1, <1>2
<1>5. Worse(b, q)
  BY <1>3, <1>4 DEF Worse, Sound
<1> QED
  BY <1>5 DEF q, h

-----------------------------------------------------------------------------
(* A turn *)

\* Whoever pays is as alive as before.
LEMMA PaidWorse ==
    ASSUME CombatAssumption, NEW p, AllSound(p), NEW x \in Fighters, NEW cost \in Nat
    PROVE  AllWorse(p, [p EXCEPT ![x] = Flat(p[x], cost)])
<1>1. Sound(p[x]) /\ p[x] \in Body
  BY DEF AllSound, Sound
<1>2. Worse(p[x], Flat(p[x], cost))
  BY <1>1, FlatAlike, AlikeIsWorse
<1> QED
  BY <1>2, WorseOne

\* A sprint is paid for.
LEMMA WindedWorse ==
    ASSUME CombatAssumption, AllSound(body), NEW x \in Fighters, NEW pace
    PROVE  AllWorse(body, Winded(x, pace))
<1>1. BaseCost["sprint"] \in Nat
  BY DEF CombatAssumption
<1> QED
  BY <1>1, PaidWorse, WorseNone DEF Winded

\* So is a block.
LEMMA GuardedWorse ==
    ASSUME CombatAssumption, NEW p, AllSound(p), NEW x \in Fighters, NEW block
    PROVE  AllWorse(p, Guarded(p, x, block))
<1> DEFINE paid == Flat(p[x], BaseCost["block"])
           q == [paid EXCEPT !.blocking = TRUE]
<1>1. Sound(p[x]) /\ p[x] \in Body /\ BaseCost["block"] \in Nat
  BY DEF AllSound, Sound, CombatAssumption
<1>2. Alike(p[x], paid) /\ paid \in Body
  BY <1>1, FlatAlike DEF Alike
<1> HIDE DEF paid
<1>3. Alike(paid, q)
  BY <1>2 DEF Alike, Body
<1> HIDE DEF q
<1>4. Worse(p[x], q)
  BY <1>1, <1>2, <1>3, AlikeTwice, AlikeIsWorse
<1>5. AllWorse(p, [p EXCEPT ![x] = q])
  BY <1>4, WorseOne
<1>6. Guarded(p, x, block) = IF block THEN [p EXCEPT ![x] = q] ELSE p
  BY DEF Guarded, q, paid
<1> QED
  BY <1>5, <1>6, WorseNone

\* A blow takes hp, never gives it.
LEMMA BlowCounts ==
    ASSUME CombatAssumption, NEW p, NEW x \in Fighters, NEW y \in Fighters,
           NEW kind, NEW weakened
    PROVE  BlowOf(p, x, y, kind, weakened) \in Nat
<1> DEFINE raw == Might[x] + (IF kind = Heavy THEN 4 ELSE 0) + Penalty(p[x], kind)
           met == IF p[y].blocking THEN Most(0, raw \div 2) ELSE raw
           soft == Most(1, met - Reduction[y])
<1>1. Might[x] \in Nat /\ Reduction[y] \in Nat
  BY DEF CombatAssumption
<1>2. Penalty(p[x], kind) \in Int
  BY DEF Penalty
<1>3. raw \in Int
  BY <1>1, <1>2
<1> HIDE DEF raw
<1>4. met \in Int
  BY <1>3 DEF Most
<1> HIDE DEF met
<1>5. soft \in Nat
  BY <1>1, <1>4 DEF Most
<1> HIDE DEF soft
<1>6. Most(1, soft \div 2) \in Nat
  BY <1>5 DEF Most
<1>7. BlowOf(p, x, y, kind, weakened) = IF weakened THEN Most(1, soft \div 2) ELSE soft
  BY DEF BlowOf, soft, met, raw
<1> QED
  BY <1>5, <1>6, <1>7

\* An attack raises no one, hit or miss, ...
LEMMA AttackWorse ==
    ASSUME CombatAssumption, NEW p, AllSound(p), NEW x \in Fighters, NEW y \in Fighters \cup {NoOne},
           NEW kind \in {Light, Heavy}, NEW hit \in BOOLEAN, hit => y # NoOne
    PROVE  AllWorse(p, AfterAttack(p, x, y, kind, hit))
<1> DEFINE paid == [p EXCEPT ![x] = Spent(p[x], kind)]
           open == [paid[y] EXCEPT !.blocking = FALSE]
           damage == BlowOf(paid, x, y, kind, Short(p[x], kind))
           struck == Hurt(open, damage)
<1>1. Sound(p[x]) /\ p[x] \in Body
  BY DEF AllSound, Sound
<1>2. Worse(p[x], Spent(p[x], kind))
  BY <1>1, SpentAlike, AlikeIsWorse
<1>3. AllWorse(p, paid) /\ AllSound(paid)
  BY <1>2, WorseOne DEF AllWorse
<1>4. AfterAttack(p, x, y, kind, hit) =
        IF ~hit THEN paid ELSE [paid EXCEPT ![y] = struck]
  BY DEF AfterAttack
<1> HIDE DEF paid
<1>5. CASE ~hit
  BY <1>3, <1>4, <1>5
<1>6. CASE hit
  <2>1. y \in Fighters
    BY <1>6
  <2>2. Sound(paid[y]) /\ paid[y] \in Body
    BY <1>3, <2>1 DEF AllSound, Sound
  <2>3. Alike(paid[y], open)
    BY <2>2 DEF Alike, Body
  <2>4. Worse(paid[y], open) /\ Sound(open)
    BY <2>2, <2>3, AlikeIsWorse DEF Worse
  <2>5. damage \in Nat
    BY <2>1, BlowCounts
  <2> HIDE DEF open, damage
  <2>6. Worse(open, struck)
    BY <2>4, <2>5, HurtWorse
  <2> HIDE DEF struck
  <2>7. Worse(paid[y], struck)
    BY <2>4, <2>6 DEF Worse
  <2>8. AllWorse(paid, [paid EXCEPT ![y] = struck])
    BY <1>3, <2>1, <2>7, WorseOne
  <2> QED
    BY <1>3, <1>4, <1>6, <2>8, WorseTwice
<1> QED
  BY <1>5, <1>6

\* ... nor does a feature, whoever stands under it, ...
LEMMA FeatureWorse ==
    ASSUME CombatAssumption, NEW p, AllSound(p), NEW x \in Fighters, NEW named, NEW there
    PROVE  AllWorse(p, AfterFeature(p, x, named, there))
<1> DEFINE paid == [p EXCEPT ![x] = Flat(p[x], BaseCost["env"])]
           struck == {y \in Under : Alive(paid[y])} \cup (named \cap Foes(paid, x))
           next == [y \in Fighters |-> IF y \in struck THEN Hurt(paid[y], Most(1, EnvDamage)) ELSE paid[y]]
<1>1. BaseCost["env"] \in Nat /\ Most(1, EnvDamage) \in Nat
  BY DEF CombatAssumption, Most
<1>2. AllWorse(p, paid) /\ AllSound(paid)
  BY <1>1, PaidWorse DEF AllWorse
<1>3. AfterFeature(p, x, named, there) = IF broken \/ ~there THEN paid ELSE next
  BY DEF AfterFeature
<1> HIDE DEF paid, struck
<1>4. ASSUME NEW y \in Fighters PROVE Worse(paid[y], next[y])
  <2>1. Sound(paid[y]) /\ Worse(paid[y], paid[y])
    BY <1>2 DEF AllSound, Worse
  <2>2. Worse(paid[y], Hurt(paid[y], Most(1, EnvDamage)))
    BY <1>1, <2>1, HurtWorse
  <2> QED
    BY <2>1, <2>2
<1>5. AllWorse(paid, next)
  BY <1>4 DEF AllWorse, AllSound, Worse, Sound
<1> HIDE DEF next
<1> QED
  BY <1>2, <1>3, <1>5, WorseTwice

\* ... nor does a technique, though it mends.
LEMMA CastWorse ==
    ASSUME CombatAssumption, NEW p, AllSound(p), NEW x \in Fighters,
           NEW t \in Techniques, NEW y \in Fighters \cup {NoOne}
    PROVE  AllWorse(p, AfterCast(p, x, t, y))
<1> DEFINE paid == [p EXCEPT ![x] = Flat(p[x], t.cost)]
           ally == IF y = NoOne THEN x ELSE y
           mended == [paid[ally] EXCEPT !.hp = paid[ally].hp + Least(MaxHp - paid[ally].hp, t.healing)]
           struck == Hurt(paid[y], t.damage)
<1>1. t.damage \in Nat /\ t.healing \in Nat /\ t.cost \in Nat
  BY DEF CombatAssumption
<1>2. AllWorse(p, paid) /\ AllSound(paid)
  BY <1>1, PaidWorse DEF AllWorse
<1>3. AfterCast(p, x, t, y) =
        IF t.healing > 0 /\ t.damage = 0 THEN [paid EXCEPT ![ally] = mended]
        ELSE IF y = NoOne THEN paid ELSE [paid EXCEPT ![y] = struck]
  <2>1. [paid EXCEPT ![ally].hp = @ + Least(MaxHp - @, t.healing)] = [paid EXCEPT ![ally] = mended]
    OBVIOUS
  <2>2. [paid EXCEPT ![y] = Hurt(@, t.damage)] = [paid EXCEPT ![y] = struck]
    OBVIOUS
  <2> QED
    BY <2>1, <2>2 DEF AfterCast
<1>4. ally \in Fighters
  OBVIOUS
<1> HIDE DEF paid, ally
<1>5. AllWorse(paid, [paid EXCEPT ![ally] = mended])
  <2>1. Sound(paid[ally])
    BY <1>2, <1>4 DEF AllSound
  <2>2. Worse(paid[ally], mended)
    BY <1>1, <2>1, HealedWorse
  <2> QED
    BY <1>2, <1>4, <2>2, WorseOne
<1>6. y # NoOne => AllWorse(paid, [paid EXCEPT ![y] = struck])
  <2> SUFFICES ASSUME y # NoOne PROVE AllWorse(paid, [paid EXCEPT ![y] = struck])
    OBVIOUS
  <2>1. y \in Fighters /\ Sound(paid[y])
    BY <1>2 DEF AllSound
  <2>2. Worse(paid[y], struck)
    BY <1>1, <2>1, HurtWorse
  <2> QED
    BY <1>2, <2>1, <2>2, WorseOne
<1> HIDE DEF mended, struck
<1> QED
  BY <1>2, <1>3, <1>5, <1>6, WorseTwice

\* Whoever moves comes nearer, one pair of bands at a time.
LEMMA MovedNearer ==
    ASSUME NEW bands \in [Pairs -> 0..3], NEW x \in Fighters, NEW pace \in 0..2,
           NEW toward \in Toward(bands, x)
    PROVE  /\ Moved(bands, x, pace, toward) \in [Pairs -> 0..3]
           /\ \A p \in Pairs : Moved(bands, x, pace, toward)[p] <= bands[p]
<1>1. CASE pace = 0 \/ Foes(body, x) = {}
  <2>1. Moved(bands, x, pace, toward) = bands
    BY <1>1 DEF Moved
  <2>2. \A p \in Pairs : bands[p] \in 0..3
    OBVIOUS
  <2> QED
    BY <2>1, <2>2
<1>2. CASE ~(pace = 0 \/ Foes(body, x) = {})
  <2> DEFINE c == {x, toward}
             d == Most(0, bands[c] - pace)
  <2>1. toward \in Fighters
    BY <1>2 DEF Toward, Nearest, Foes
  <2>2. c \in Pairs
    BY <2>1 DEF Pairs
  <2> HIDE DEF c
  <2>3. d \in 0..3 /\ d <= bands[c] /\ \A p \in Pairs : bands[p] \in 0..3
    BY <2>2 DEF Most
  <2>4. Moved(bands, x, pace, toward) = [bands EXCEPT ![c] = d]
    BY <1>2 DEF Moved, c
  <2> HIDE DEF d
  <2>5. \A p \in Pairs : [bands EXCEPT ![c] = d][p] <= bands[p]
    BY <2>2, <2>3
  <2> QED
    BY <2>2, <2>3, <2>4, <2>5
<1> QED
  BY <1>1, <1>2

-----------------------------------------------------------------------------
(* The fight *)

\* The inductive invariant
Fighting ==
    /\ AllSound(body)
    /\ band \in [Pairs -> 0..3]
    /\ over \in BOOLEAN /\ (over => OneSideLeft(body))

\* What every call but a night's rest does, and that one too, but for whom
\* it raises.
Onward ==
    /\ AllSound(body)'
    /\ \A x \in Fighters : body[x].status = "dead" => body'[x].status = "dead"
    /\ band' \in [Pairs -> 0..3] /\ \A p \in Pairs : band'[p] <= band[p]
    /\ over' \in BOOLEAN /\ (over' => over \/ OneSideLeft(body'))
    /\ \A x \in Fighters :
         body[x].status # "active" /\ body'[x].status = "active" =>
             body[x].status = "stable" /\ body'[x].hp = MaxHp

\* A side that has no one left gets no one back.
LEMMA SideStaysLeft ==
    ASSUME CombatAssumption, OneSideLeft(body),
           \A x \in Fighters : body[x].status = "dead" => body'[x].status = "dead"
    PROVE  OneSideLeft(body')
  BY DEF OneSideLeft, Alive, CombatAssumption

\* What goes on so stays sound.
LEMMA OnwardFights ==
    ASSUME CombatAssumption, Fighting, Onward
    PROVE  Fighting'
<1>1. over' => OneSideLeft(body')
  BY SideStaysLeft DEF Fighting, Onward
<1> QED
  BY <1>1 DEF Fighting, Onward, OneSideLeft

\* Bands that are left alone are no wider.
LEMMA SameBands ==
    ASSUME Fighting
    PROVE  band \in [Pairs -> 0..3] /\ \A p \in Pairs : band[p] <= band[p]
<1>1. band \in [Pairs -> 0..3]
  BY DEF Fighting
<1>2. \A p \in Pairs : band[p] \in 0..3
  BY <1>1
<1> QED
  BY <1>1, <1>2

\* A turn that raises no one and drives no one apart goes on so.
LEMMA SettledOnward ==
    ASSUME CombatAssumption, Fighting, NEW p, AllWorse(body, p), Settle(p),
           band' \in [Pairs -> 0..3], \A q \in Pairs : band'[q] <= band[q]
    PROVE  Onward
<1>1. body' = p /\ over' = (over \/ OneSideLeft(p))
  BY DEF Settle
<1>2. over' \in BOOLEAN
  BY <1>1 DEF Fighting
<1>3. over' => over \/ OneSideLeft(body')
  BY <1>1
<1> QED
  BY <1>1, <1>2, <1>3 DEF Onward, AllWorse, AllSound, Worse

\* So does a call between the turns.
LEMMA PausedOnward ==
    ASSUME CombatAssumption, Fighting, AllWorse(body, body'), UNCHANGED <<band, over>>
    PROVE  Onward
<1>1. over' \in BOOLEAN /\ (over' => over)
  BY DEF Fighting
<1> QED
  BY <1>1, SameBands DEF Onward, AllWorse, AllSound, Worse

\* What a turn comes to once its mover has moved: one of four primary actions,
\* then the guard.
Primary(x, pace, block, toward) ==
    \/ \E kind \in {Light, Heavy}, y \in Fighters \cup {NoOne}, hit \in BOOLEAN :
         /\ hit => y # NoOne /\ InReach(Moved(band, x, pace, toward), x, y)
         /\ Settle(Guarded(AfterAttack(Winded(x, pace), x, y, kind, hit), x, block))
         /\ band' = Moved(band, x, pace, toward) /\ UNCHANGED broken
    \/ \E named \in Fighters \cup {NoOne}, there \in BOOLEAN :
         /\ Settle(Guarded(AfterFeature(Winded(x, pace), x, {named} \cap Fighters, there), x, block))
         /\ band' = Moved(band, x, pace, toward) /\ broken' = (broken \/ there)
    \/ \E t \in Techniques, y \in Fighters \cup {NoOne} :
         /\ Settle(Guarded(AfterCast(Winded(x, pace), x, t, y), x, block))
         /\ band' = Moved(band, x, pace, toward) /\ UNCHANGED broken
    \/ \E onward \in Toward(Moved(band, x, pace, toward), x), stride \in 0..1 :
         /\ Settle(Guarded(Winded(x, pace), x, block))
         /\ band' = Moved(Moved(band, x, pace, toward), x, stride, onward) /\ UNCHANGED broken

\* A turn is movement and then that.
LEMMA TurnIs ==
    ASSUME SubmitTurn
    PROVE  \E x \in Fighters, pace \in 0..2, block \in BOOLEAN :
         /\ body[x].status = "active"
         /\ \E toward \in Toward(band, x) : Primary(x, pace, block, toward)
<1>1. PICK x \in Fighters, pace \in 0..2, block \in BOOLEAN :
         /\ body[x].status = "active"
         /\ \E toward \in Toward(band, x) :
              LET bands == Moved(band, x, pace, toward)
                  start == Winded(x, pace)
                  Act(bodies) == Settle(Guarded(bodies, x, block))
              IN
              \/ \E kind \in {Light, Heavy}, y \in Fighters \cup {NoOne}, hit \in BOOLEAN :
                   /\ hit => y # NoOne /\ InReach(bands, x, y)
                   /\ Act(AfterAttack(start, x, y, kind, hit))
                   /\ band' = bands /\ UNCHANGED broken
              \/ \E named \in Fighters \cup {NoOne}, there \in BOOLEAN :
                   /\ Act(AfterFeature(start, x, {named} \cap Fighters, there))
                   /\ band' = bands /\ broken' = (broken \/ there)
              \/ \E t \in Techniques, y \in Fighters \cup {NoOne} :
                   /\ Act(AfterCast(start, x, t, y))
                   /\ band' = bands /\ UNCHANGED broken
              \/ \E onward \in Toward(bands, x), stride \in 0..1 :
                   /\ Act(start)
                   /\ band' = Moved(bands, x, stride, onward) /\ UNCHANGED broken
  BY DEF SubmitTurn
<1> QED
  BY <1>1, ZenonT(60) DEF Primary

\* submit_turn: whatever its slots are filled with.
LEMMA TurnOnward ==
    ASSUME CombatAssumption, Fighting, SubmitTurn
    PROVE  Onward
<1>1. PICK x \in Fighters, pace \in 0..2, block \in BOOLEAN :
         /\ body[x].status = "active"
         /\ \E toward \in Toward(band, x) : Primary(x, pace, block, toward)
  BY TurnIs
<1>2. PICK toward \in Toward(band, x) :
              \/ \E kind \in {Light, Heavy}, y \in Fighters \cup {NoOne}, hit \in BOOLEAN :
                   /\ hit => y # NoOne /\ InReach(Moved(band, x, pace, toward), x, y)
                   /\ Settle(Guarded(AfterAttack(Winded(x, pace), x, y, kind, hit), x, block))
                   /\ band' = Moved(band, x, pace, toward) /\ UNCHANGED broken
              \/ \E named \in Fighters \cup {NoOne}, there \in BOOLEAN :
                   /\ Settle(Guarded(AfterFeature(Winded(x, pace), x, {named} \cap Fighters, there), x, block))
                   /\ band' = Moved(band, x, pace, toward) /\ broken' = (broken \/ there)
              \/ \E t \in Techniques, y \in Fighters \cup {NoOne} :
                   /\ Settle(Guarded(AfterCast(Winded(x, pace), x, t, y), x, block))
                   /\ band' = Moved(band, x, pace, toward) /\ UNCHANGED broken
              \/ \E onward \in Toward(Moved(band, x, pace, toward), x), stride \in 0..1 :
                   /\ Settle(Guarded(Winded(x, pace), x, block))
                   /\ band' = Moved(Moved(band, x, pace, toward), x, stride, onward) /\ UNCHANGED broken
  BY <1>1 DEF Primary
<1> DEFINE bands == Moved(band, x, pace, toward)
           start == Winded(x, pace)
<1>3. AllWorse(body, start) /\ AllSound(start)
  BY WindedWorse DEF Fighting, AllWorse
<1>4. bands \in [Pairs -> 0..3] /\ \A q \in Pairs : bands[q] <= band[q]
  BY MovedNearer DEF Fighting
<1>5. ASSUME NEW p, AllWorse(start, p), Settle(Guarded(p, x, block)),
             band' \in [Pairs -> 0..3], \A q \in Pairs : band'[q] <= band[q]
      PROVE  Onward
  <2>1. AllWorse(body, p) /\ AllSound(p)
    BY <1>3, <1>5, WorseTwice DEF AllWorse
  <2>2. AllWorse(body, Guarded(p, x, block))
    BY <2>1, GuardedWorse, WorseTwice
  <2> QED
    BY <1>5, <2>2, SettledOnward
<1> HIDE DEF bands, start
<1>6. CASE \E kind \in {Light, Heavy}, y \in Fighters \cup {NoOne}, hit \in BOOLEAN :
             /\ hit => y # NoOne /\ InReach(bands, x, y)
             /\ Settle(Guarded(AfterAttack(start, x, y, kind, hit), x, block))
             /\ band' = bands
  <2>1. PICK kind \in {Light, Heavy}, y \in Fighters \cup {NoOne}, hit \in BOOLEAN :
             /\ hit => y # NoOne /\ InReach(bands, x, y)
             /\ Settle(Guarded(AfterAttack(start, x, y, kind, hit), x, block))
             /\ band' = bands
    BY <1>6
  <2>2. AllWorse(start, AfterAttack(start, x, y, kind, hit))
    BY <1>3, <2>1, AttackWorse
  <2> QED
    BY <1>4, <1>5, <2>1, <2>2
<1>7. CASE \E named \in Fighters \cup {NoOne}, there \in BOOLEAN :
             /\ Settle(Guarded(AfterFeature(start, x, {named} \cap Fighters, there), x, block))
             /\ band' = bands
  <2>1. PICK named \in Fighters \cup {NoOne}, there \in BOOLEAN :
             /\ Settle(Guarded(AfterFeature(start, x, {named} \cap Fighters, there), x, block))
             /\ band' = bands
    BY <1>7
  <2>2. AllWorse(start, AfterFeature(start, x, {named} \cap Fighters, there))
    BY <1>3, FeatureWorse
  <2> QED
    BY <1>4, <1>5, <2>1, <2>2
<1>8. CASE \E t \in Techniques, y \in Fighters \cup {NoOne} :
             /\ Settle(Guarded(AfterCast(start, x, t, y), x, block))
             /\ band' = bands
  <2>1. PICK t \in Techniques, y \in Fighters \cup {NoOne} :
             /\ Settle(Guarded(AfterCast(start, x, t, y), x, block))
             /\ band' = bands
    BY <1>8
  <2>2. AllWorse(start, AfterCast(start, x, t, y))
    BY <1>3, CastWorse
  <2> QED
    BY <1>4, <1>5, <2>1, <2>2
<1>9. CASE \E onward \in Toward(bands, x), stride \in 0..1 :
             /\ Settle(Guarded(start, x, block))
             /\ band' = Moved(bands, x, stride, onward)
  <2>1. PICK onward \in Toward(bands, x), stride \in 0..1 :
             /\ Settle(Guarded(start, x, block))
             /\ band' = Moved(bands, x, stride, onward)
    BY <1>9
  <2>2. stride \in 0..2
    OBVIOUS
  <2>3. band' \in [Pairs -> 0..3] /\ \A q \in Pairs : band'[q] <= bands[q]
    BY <1>4, <2>1, <2>2, MovedNearer
  <2>4. \A q \in Pairs : band'[q] <= band[q]
    <3>1. \A q \in Pairs : band[q] \in Int /\ bands[q] \in Int /\ band'[q] \in Int
      BY <1>4, <2>3 DEF Fighting
    <3> QED
      BY <1>4, <2>3, <3>1
  <2> QED
    BY <1>3, <1>5, <2>1, <2>3, <2>4, WorseNone
<1> QED
  BY <1>2, <1>6, <1>7, <1>8, <1>9 DEF bands, start

\* cast, outside of a turn
LEMMA CastOnward ==
    ASSUME CombatAssumption, Fighting, Cast
    PROVE  Onward
<1>1. PICK x \in Fighters, y \in Fighters \cup {NoOne}, t \in Techniques :
         Settle(AfterCast(body, x, t, y))
  BY DEF Cast
<1>2. AllWorse(body, AfterCast(body, x, t, y))
  BY CastWorse DEF Fighting
<1>3. band' \in [Pairs -> 0..3] /\ \A p \in Pairs : band'[p] <= band[p]
  BY SameBands DEF Cast
<1> QED
  BY <1>1, <1>2, <1>3, SettledOnward

\* Each combatant's part in a call makes the call.
LEMMA EachWorse ==
    ASSUME NEW p, NEW q, q = [x \in Fighters |-> q[x]], \A x \in Fighters : Worse(p[x], q[x])
    PROVE  AllWorse(p, q)
<1>1. \A x \in Fighters : q[x] \in Body
  BY DEF Worse, Sound
<1>2. q \in [Fighters -> Body]
  BY <1>1
<1> QED
  BY <1>2 DEF AllWorse, AllSound, Worse

\* end_round
LEMMA RoundOnward ==
    ASSUME CombatAssumption, Fighting, EndRound
    PROVE  Onward
<1> DEFINE After(x) == IF ~Alive(body[x]) THEN body[x]
                       ELSE IF Bleeding(body[x]) THEN Bled(Regenerated(body[x])) ELSE Regenerated(body[x])
<1>1. body' = [x \in Fighters |-> After(x)] /\ UNCHANGED <<band, over>>
  BY DEF EndRound
<1>2. ASSUME NEW x \in Fighters PROVE Worse(body[x], After(x))
  <2>1. Sound(body[x]) /\ body[x] \in Body
    BY DEF Fighting, AllSound, Sound
  <2>2. Worse(body[x], Regenerated(body[x])) /\ Sound(Regenerated(body[x]))
    BY <2>1, RegeneratedAlike, AlikeIsWorse DEF Worse
  <2>3. CASE ~Alive(body[x])
    BY <2>1, <2>3 DEF Worse
  <2>4. CASE Alive(body[x])
    <3>1. Regenerated(body[x]).status # "dead"
      BY <2>1, <2>4, RegeneratedAlike DEF Alike, Alive
    <3> DEFINE r == Regenerated(body[x])
    <3>2. Worse(r, Bled(r))
      BY <2>2, <3>1, BledWorse
    <3>3. Worse(body[x], r) /\ Worse(body[x], Bled(r))
      BY <2>2, <3>2 DEF Worse
    <3> QED
      BY <2>4, <3>3
  <2> QED
    BY <2>3, <2>4
<1> HIDE DEF After
<1>3. AllWorse(body, body')
  <2>1. \A x \in Fighters : body'[x] = After(x)
    BY <1>1
  <2>2. body' = [x \in Fighters |-> body'[x]]
    BY <1>1
  <2> QED
    BY <1>2, <2>1, <2>2, EachWorse
<1> QED
  BY <1>1, <1>3, PausedOnward

\* A save brings its owner nearer to an end, not to his feet.
LEMMA SavedWorse ==
    ASSUME CombatAssumption, NEW b, Sound(b), b.status = "incapacitated",
           NEW roll \in {"twenty", "one", "made", "failed"}
    PROVE  Worse(b, Saved(b, roll))
<1>1. b \in Body /\ b.fails \in 0..4 /\ b.wins \in 0..3 /\ b.fails < 3 /\ b.wins < 3
  BY Measured DEF Sound
<1>2. CASE roll = "twenty"
  <2> DEFINE q == [b EXCEPT !.status = "stable"]
  <2>1. q \in Body /\ q.status = "stable"
    BY <1>1 DEF Body
  <2> HIDE DEF q
  <2>2. Saved(b, roll) = q
    BY <1>2 DEF Saved, q
  <2> QED
    BY <2>1, <2>2 DEF Worse, Sound
<1>3. CASE roll = "one"
  <2> DEFINE f == b.fails + 2
             s == IF b.fails >= 1 THEN "dead" ELSE b.status
             q == [b EXCEPT !.fails = f, !.status = s]
  <2>1. f \in 0..4 /\ s \in {"incapacitated", "dead"} /\ (s = "incapacitated" => f < 3)
    BY <1>1
  <2>2. Saved(b, roll) = [b EXCEPT !.fails = @ + 2, !.status = IF b.fails >= 1 THEN "dead" ELSE @]
    BY <1>3 DEF Saved
  <2>3. Saved(b, roll) = q
    BY <2>2
  <2> HIDE DEF f, s
  <2>4. q \in Body /\ q.status = s /\ q.fails = f /\ q.wins = b.wins
    BY <1>1, <2>1 DEF Body
  <2> HIDE DEF q
  <2> QED
    BY <1>1, <2>1, <2>3, <2>4 DEF Worse, Sound
<1>4. CASE roll = "made"
  <2> DEFINE w == b.wins + 1
             s == IF b.wins >= 2 THEN "stable" ELSE b.status
             q == [b EXCEPT !.wins = w, !.status = s]
  <2>1. w \in 0..3 /\ s \in {"incapacitated", "stable"} /\ (s = "incapacitated" => w < 3)
    BY <1>1
  <2>2. Saved(b, roll) = [b EXCEPT !.wins = @ + 1, !.status = IF b.wins >= 2 THEN "stable" ELSE @]
    BY <1>4 DEF Saved
  <2>3. Saved(b, roll) = q
    BY <2>2
  <2> HIDE DEF w, s
  <2>4. q \in Body /\ q.status = s /\ q.wins = w /\ q.fails = b.fails
    BY <1>1, <2>1 DEF Body
  <2> HIDE DEF q
  <2> QED
    BY <1>1, <2>1, <2>3, <2>4 DEF Worse, Sound
<1>5. CASE roll = "failed"
  <2> DEFINE f == b.fails + 1
             s == IF b.fails >= 2 THEN "dead" ELSE b.status
             q == [b EXCEPT !.fails = f, !.status = s]
  <2>1. f \in 0..4 /\ s \in {"incapacitated", "dead"} /\ (s = "incapacitated" => f < 3)
    BY <1>1
  <2>2. Saved(b, roll) = [b EXCEPT !.fails = @ + 1, !.status = IF b.fails >= 2 THEN "dead" ELSE @]
    BY <1>5 DEF Saved
  <2>3. Saved(b, roll) = q
    BY <2>2
  <2> HIDE DEF f, s
  <2>4. q \in Body /\ q.status = s /\ q.fails = f /\ q.wins = b.wins
    BY <1>1, <2>1 DEF Body
  <2> HIDE DEF q
  <2> QED
    BY <1>1, <2>1, <2>3, <2>4 DEF Worse, Sound
<1> QED
  BY <1>2, <1>3, <1>4, <1>5

\* death_save
LEMMA SaveOnward ==
    ASSUME CombatAssumption, Fighting, DeathSave
    PROVE  Onward
<1>1. PICK x \in Fighters, roll \in {"twenty", "one", "made", "failed"} :
         /\ body[x].status = "incapacitated"
         /\ body' = [body EXCEPT ![x] = Saved(@, roll)]
  BY DEF DeathSave
<1>2. Sound(body[x]) /\ AllSound(body)
  BY DEF Fighting, AllSound
<1>3. Worse(body[x], Saved(body[x], roll))
  BY <1>1, <1>2, SavedWorse
<1>4. AllWorse(body, [body EXCEPT ![x] = Saved(body[x], roll)])
  BY <1>2, <1>3, WorseOne
<1>5. body' = [body EXCEPT ![x] = Saved(body[x], roll)]
  BY <1>1
<1> QED
  BY <1>4, <1>5, PausedOnward DEF DeathSave

\* stabilize, treat_injury
LEMMA TendOnward ==
    ASSUME CombatAssumption, Fighting, Tend
    PROVE  Onward
<1>1. PICK x \in Fighters :
         \/ /\ body[x].status = "incapacitated"
            /\ body' = [body EXCEPT ![x].status = "stable"]
         \/ \E kind \in body[x].injuries :
              body' = [body EXCEPT ![x].injuries = @ \ {kind}]
  BY DEF Tend
<1>2. Sound(body[x]) /\ AllSound(body) /\ body[x] \in Body
  BY DEF Fighting, AllSound, Sound
<1>3. CASE /\ body[x].status = "incapacitated"
           /\ body' = [body EXCEPT ![x].status = "stable"]
  <2> DEFINE q == [body[x] EXCEPT !.status = "stable"]
  <2>1. q \in Body /\ q.status = "stable"
    BY <1>2 DEF Body
  <2>2. body' = [body EXCEPT ![x] = q]
    BY <1>3
  <2> HIDE DEF q
  <2>3. Worse(body[x], q)
    BY <1>3, <2>1 DEF Worse, Sound
  <2>4. AllWorse(body, body')
    BY <1>2, <2>2, <2>3, WorseOne
  <2> QED
    BY <2>4, PausedOnward DEF Tend
<1>4. CASE \E kind \in body[x].injuries : body' = [body EXCEPT ![x].injuries = @ \ {kind}]
  <2>1. PICK kind : body' = [body EXCEPT ![x].injuries = @ \ {kind}]
    BY <1>4
  <2> DEFINE left == body[x].injuries \ {kind}
             q == [body[x] EXCEPT !.injuries = left]
  <2>2. left \subseteq Injuries
    BY <1>2, Measured
  <2>3. body' = [body EXCEPT ![x] = q]
    BY <2>1
  <2> HIDE DEF left
  <2>4. Alike(body[x], q)
    BY <1>2, <2>2 DEF Body, Alike
  <2> HIDE DEF q
  <2>5. AllWorse(body, body')
    BY <1>2, <2>3, <2>4, AlikeIsWorse, WorseOne
  <2> QED
    BY <2>5, PausedOnward DEF Tend
<1> QED
  BY <1>1, <1>3, <1>4

\* A rest heals a share of MaxHp.
LEMMA HealedShare ==
    ASSUME CombatAssumption, NEW b, Sound(b), NEW share \in Nat \ {0}
    PROVE  Worse(b, Healed(b, share))
<1> DEFINE gain == Most(1, MaxHp \div share)
<1>1. gain \in Nat
  BY DEF Most, CombatAssumption
<1> HIDE DEF gain
<1>2. Healed(b, share) = [b EXCEPT !.hp = b.hp + Least(MaxHp - b.hp, gain)]
  BY DEF Healed, gain
<1> QED
  BY <1>1, <1>2, HealedWorse

\* short_rest, and a long rest that is broken off
LEMMA RestOnward ==
    ASSUME CombatAssumption, Fighting, ShortRest \/ BrokenRest
    PROVE  Onward
<1>1. ASSUME NEW x \in Fighters
      PROVE  Worse(body[x], body[x]) /\ Worse(body[x], Healed(body[x], 4))
             /\ Worse(body[x], Healed(body[x], 10))
  BY HealedShare DEF Fighting, AllSound, Worse
<1>2. ASSUME NEW x \in Fighters PROVE Worse(body[x], Rested(body[x]))
  <2> DEFINE h == Healed(body[x], 4)
             s == Least(MaxStamina, h.stamina + MaxStamina \div 2)
             q == [h EXCEPT !.stamina = s]
  <2>1. h \in Body /\ Sound(h) /\ Worse(body[x], h)
    BY <1>1 DEF Worse, Sound
  <2>2. Rested(body[x]) = q
    BY DEF Rested
  <2> HIDE DEF h
  <2>3. s \in 0..MaxStamina
    BY <2>1, Measured DEF Least, CombatAssumption
  <2> HIDE DEF s
  <2>4. Alike(h, q)
    BY <2>1, <2>3 DEF Alike, Body
  <2> HIDE DEF q
  <2>5. Worse(h, q)
    BY <2>1, <2>4, AlikeIsWorse
  <2> QED
    BY <2>1, <2>2, <2>5 DEF Worse
<1>3. CASE ShortRest
  <2>1. body' = [x \in Fighters |-> IF Alive(body[x]) THEN Rested(body[x]) ELSE body[x]]
    BY <1>3 DEF ShortRest
  <2>2. \A x \in Fighters : body'[x] = IF Alive(body[x]) THEN Rested(body[x]) ELSE body[x]
    BY <2>1
  <2>3. \A x \in Fighters : Worse(body[x], body'[x])
    BY <1>1, <1>2, <2>2
  <2>4. body' = [x \in Fighters |-> body'[x]]
    BY <2>1
  <2>5. AllWorse(body, body')
    BY <2>3, <2>4, EachWorse
  <2> QED
    BY <1>3, <2>5, PausedOnward DEF ShortRest
<1>4. CASE BrokenRest
  <2>1. body' = [x \in Fighters |-> IF Alive(body[x]) THEN Healed(body[x], 10) ELSE body[x]]
    BY <1>4 DEF BrokenRest
  <2>2. \A x \in Fighters : body'[x] = IF Alive(body[x]) THEN Healed(body[x], 10) ELSE body[x]
    BY <2>1
  <2>3. \A x \in Fighters : Worse(body[x], body'[x])
    BY <1>1, <2>2
  <2>4. body' = [x \in Fighters |-> body'[x]]
    BY <2>1
  <2>5. AllWorse(body, body')
    BY <2>3, <2>4, EachWorse
  <2> QED
    BY <1>4, <2>5, PausedOnward DEF BrokenRest
<1> QED
  BY <1>3, <1>4

\* A night leaves only the stable on their feet, and whole.
LEMMA SleptWell ==
    ASSUME CombatAssumption, NEW b, Sound(b), NEW mended
    PROVE  /\ Sound(Slept(b, mended)) /\ Slept(b, mended).hp = MaxHp
           /\ Slept(b, mended).status = IF b.status = "stable" THEN "active" ELSE b.status
<1> DEFINE r == Risen(b)
           left == r.injuries \ {mended}
           q == [r EXCEPT !.hp = MaxHp, !.stamina = MaxStamina, !.injuries = left]
<1>1. b \in Body /\ MaxHp \in 0..MaxHp /\ MaxStamina \in 0..MaxStamina /\ MaxHp > 0
  BY DEF Sound, CombatAssumption
<1>2. /\ r \in Body /\ r.fails = b.fails /\ r.wins = b.wins
      /\ r.status = IF b.status = "stable" THEN "active" ELSE b.status
  BY <1>1 DEF Risen, Body
<1> HIDE DEF r
<1>3. left \subseteq Injuries
  BY <1>2, Measured
<1>4. Slept(b, mended) = q
  BY DEF Slept, r
<1> HIDE DEF left
<1>5. /\ q \in Body /\ q.hp = MaxHp /\ q.fails = b.fails /\ q.wins = b.wins
      /\ q.status = r.status
  BY <1>1, <1>2, <1>3 DEF Body
<1> HIDE DEF q
<1>6. Sound(q)
  BY <1>1, <1>2, <1>5 DEF Sound
<1> QED
  BY <1>2, <1>4, <1>5, <1>6

\* long_rest
LEMMA NightOnward ==
    ASSUME CombatAssumption, Fighting, LongRest
    PROVE  Onward
<1>1. PICK mended \in [Fighters -> Injuries] :
         body' = [x \in Fighters |->
                IF Alive(body[x]) THEN Slept(body[x], mended[x]) ELSE body[x]]
  BY DEF LongRest
<1>2. \A x \in Fighters : body'[x] = IF Alive(body[x]) THEN Slept(body[x], mended[x]) ELSE body[x]
  BY <1>1
<1>3. ASSUME NEW x \in Fighters
      PROVE  /\ Sound(body'[x])
             /\ body[x].status = "dead" => body'[x].status = "dead"
             /\ body[x].status # "active" /\ body'[x].status = "active" =>
                    body[x].status = "stable" /\ body'[x].hp = MaxHp
  <2>1. Sound(body[x])
    BY DEF Fighting, AllSound
  <2>2. CASE Alive(body[x])
    <3>1. body'[x] = Slept(body[x], mended[x])
      BY <1>2, <2>2
    <3>2. /\ Sound(body'[x]) /\ body'[x].hp = MaxHp
          /\ body'[x].status = IF body[x].status = "stable" THEN "active" ELSE body[x].status
      BY <2>1, <3>1, SleptWell
    <3> QED
      BY <2>2, <3>2 DEF Alive
  <2>3. CASE ~Alive(body[x])
    <3>1. body'[x] = body[x]
      BY <1>2, <2>3
    <3> QED
      BY <2>1, <3>1
  <2> QED
    BY <2>2, <2>3
<1>4. AllSound(body')
  <2>1. \A x \in Fighters : body'[x] \in Body
    BY <1>3 DEF Sound
  <2>2. body' \in [Fighters -> Body]
    BY <1>1, <1>2, <2>1
  <2> QED
    BY <1>3, <2>2 DEF AllSound
<1>5. over' = over /\ band' = band
  BY DEF LongRest
<1> QED
  BY <1>3, <1>4, <1>5, SameBands DEF Onward, Fighting, AllSound

\* A fight starts with everyone on his feet.
LEMMA FightStarts ==
    ASSUME CombatAssumption, CombatInit
    PROVE  Fighting
<1>1. Fresh \in Body /\ Fresh.status = "active" /\ Fresh.hp = MaxHp
  BY DEF Fresh, Body, CombatAssumption
<1>2. Sound(Fresh)
  BY <1>1 DEF Sound, CombatAssumption
<1>3. AllSound(body)
  BY <1>1, <1>2 DEF CombatInit, AllSound
<1>4. band \in [Pairs -> 0..3]
  <2>1. PICK d \in StartBands : band = [p \in Pairs |-> IF Cardinality(p) = 1 THEN 0 ELSE d]
    BY DEF CombatInit
  <2>2. d \in 0..3 /\ 0 \in 0..3
    BY DEF CombatAssumption
  <2> QED
    BY <2>1, <2>2
<1> QED
  BY <1>3, <1>4 DEF CombatInit, Fighting

\* Every call goes on so, ...
LEMMA FightStep ==
    ASSUME CombatAssumption, Fighting, CombatNext
    PROVE  Onward
  BY TurnOnward, CastOnward, RoundOnward, SaveOnward, TendOnward, RestOnward, NightOnward
     DEF CombatNext

\* ... and leaves the fight sound.
LEMMA FightStands ==
    ASSUME CombatAssumption, Fighting, [CombatNext]_combatVars
    PROVE  Fighting'
<1>1. CASE CombatNext
  BY <1>1, FightStep, OnwardFights
<1>2. CASE UNCHANGED combatVars
  BY <1>2 DEF combatVars, Fighting, AllSound, OneSideLeft
<1> QED
  BY <1>1, <1>2

\* Whoever may act stands, the dying have saves left, and a fight that was
\* called over has one side left, however it goes on (engine.py, death.py).
THEOREM FightStaysSound == CombatSpec => []FightSound
<1>1. CombatInit => Fighting
  BY FightStarts, CombatAssumption
<1>2. Fighting /\ [CombatNext]_combatVars => Fighting'
  BY FightStands, CombatAssumption
<1>3. Fighting => FightSound
  BY DEF Fighting, AllSound, Sound, FightSound, ActiveStands, SavesOpen, OverIsOver
<1> QED
  BY <1>1, <1>2, <1>3, PTL DEF CombatSpec

\* No call raises the dead, drives two combatants apart, or gets the fallen
\* up but for a night's rest, from stable (engine.py, rest.py).
THEOREM FightOnlyGoesOn == CombatSpec => FightGoesOn
<1> DEFINE Step == /\ \A x \in Fighters : body[x].status = "dead" => body'[x].status = "dead"
                   /\ \A p \in Pairs : band'[p] <= band[p]
                   /\ \A x \in Fighters :
                        body[x].status # "active" /\ body'[x].status = "active" =>
                            body[x].status = "stable" /\ body'[x].hp = MaxHp
<1>1. CombatInit => Fighting
  BY FightStarts, CombatAssumption
<1>2. Fighting /\ [CombatNext]_combatVars => Fighting'
  BY FightStands, CombatAssumption
<1>3. Fighting /\ [CombatNext]_combatVars => [Step]_combatVars
  BY FightStep, CombatAssumption DEF Onward
<1>4. CombatSpec => [][Step]_combatVars
  BY <1>1, <1>2, <1>3, PTL DEF CombatSpec
<1> QED
  BY <1>4 DEF FightGoesOn

\* What else a fight is made of: its mode, the cover that is broken, and the
\* counters of the calls.
Tallied ==
    /\ mode \in Modes /\ broken \in BOOLEAN
    /\ taken \in 0..MaxTurnsTaken /\ pauses \in 0..MaxPauses

\* No call but a turn touches more of that than its counter.
LEMMA TalliedStays ==
    ASSUME CombatAssumption, Tallied, [CombatNext]_combatVars
    PROVE  Tallied'
<1>0. MaxTurnsTaken \in Nat /\ MaxPauses \in Nat
  BY DEF CombatAssumption
<1>1. CASE TakeTurn /\ broken' \in BOOLEAN /\ mode' = mode
  BY <1>0, <1>1 DEF Tallied, TakeTurn
<1>2. CASE Pause /\ broken' = broken /\ mode' = mode
  <2>1. pauses \in 0..MaxPauses /\ pauses < MaxPauses /\ pauses' = pauses + 1
    BY <1>2 DEF Tallied, Pause
  <2>2. pauses' \in 0..MaxPauses
    BY <1>0, <2>1
  <2> QED
    BY <1>2, <2>2 DEF Tallied, Pause
<1>3. SubmitTurn \/ Cast => TakeTurn /\ broken' \in BOOLEAN /\ mode' = mode
  <2>1. SubmitTurn => TakeTurn /\ mode' = mode /\ (broken' = broken \/ \E there : broken' = (broken \/ there))
    <3> SUFFICES ASSUME SubmitTurn
                 PROVE  TakeTurn /\ mode' = mode /\ (broken' = broken \/ \E there : broken' = (broken \/ there))
      OBVIOUS
    <3>1. broken' = broken \/ \E there : broken' = (broken \/ there)
      <4>1. ASSUME NEW x, NEW pace, NEW block, NEW toward, Primary(x, pace, block, toward)
            PROVE  broken' = broken \/ \E there : broken' = (broken \/ there)
        BY <4>1, Zenon DEF Primary
      <4> QED
        BY <4>1, TurnIs, Zenon
    <3>2. TakeTurn /\ mode' = mode
      BY SMT DEF SubmitTurn
    <3> QED
      BY <3>1, <3>2
  <2>2. Cast => TakeTurn /\ mode' = mode /\ broken' = broken
    BY Zenon DEF Cast
  <2>3. broken \in BOOLEAN
    BY DEF Tallied
  <2> QED
    BY <2>1, <2>2, <2>3
<1>4. EndRound \/ DeathSave \/ Tend \/ ShortRest \/ BrokenRest \/ LongRest
         => Pause /\ broken' = broken /\ mode' = mode
  BY Zenon DEF EndRound, DeathSave, Tend, ShortRest, BrokenRest, LongRest
<1>5. CASE UNCHANGED combatVars
  BY <1>5 DEF combatVars, Tallied
<1> QED
  BY <1>1, <1>2, <1>3, <1>4, <1>5 DEF CombatNext

\* Hit points, stamina, saves and injuries stay in their ranges, whatever the
\* blow, the cure, the roll or the rest, and so does how far apart two stand.
THEOREM FightTyped == CombatSpec => []CombatTypeOK
<1>1. CombatInit => Fighting /\ Tallied
  <2>1. CombatInit => Fighting
    BY FightStarts, CombatAssumption
  <2>2. MaxTurnsTaken \in Nat /\ MaxPauses \in Nat
    BY CombatAssumption DEF CombatAssumption
  <2>3. CombatInit => mode \in Modes /\ broken = FALSE /\ taken = 0 /\ pauses = 0
    BY Zenon DEF CombatInit
  <2>4. CombatInit => Tallied
    <3> SUFFICES ASSUME CombatInit PROVE Tallied
      OBVIOUS
    <3>1. broken \in BOOLEAN
      BY <2>3, Zenon
    <3>2. taken \in 0..MaxTurnsTaken /\ pauses \in 0..MaxPauses
      BY <2>2, <2>3
    <3> QED
      BY <2>3, <3>1, <3>2, Zenon DEF Tallied
  <2> QED
    BY <2>1, <2>4
<1>2. Fighting /\ Tallied /\ [CombatNext]_combatVars => Fighting' /\ Tallied'
  BY FightStands, TalliedStays, CombatAssumption
<1>3. Fighting /\ Tallied => CombatTypeOK
  BY DEF Fighting, Tallied, AllSound, CombatTypeOK
<1> QED
  BY <1>1, <1>2, <1>3, PTL DEF CombatSpec
=============================================================================
