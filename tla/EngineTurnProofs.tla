-------------------------- MODULE EngineTurnProofs --------------------------
(***************************************************************************)
(* Proofs about EngineTurn, for every set of request threads, of deltas    *)
(* and of statements, and whatever the bounds of the rules.                *)
(***************************************************************************)
EXTENDS EngineTurn, FiniteSetTheorems, TLAPS

-----------------------------------------------------------------------------
(***************************************************************************)
(* The rules: what the validator lets through is what the commit writes.   *)
(***************************************************************************)

LEMMA Bounds ==
  /\ MaxHp \in Int /\ 0 <= MaxHp
  /\ StatLow \in Int /\ StatHigh \in Int /\ StatLow <= StatHigh
  /\ MoodBound \in Int /\ -MoodBound \in Int /\ -MoodBound <= MoodBound
  /\ EventBound \in Int /\ -EventBound \in Int /\ -EventBound <= EventBound
  BY RulesAssumption

LEMMA ClampInt ==
  ASSUME NEW x \in Int, NEW lo \in Int, NEW hi \in Int, lo <= hi
  PROVE  /\ Clamp(x, lo, hi) \in lo..hi
         /\ Clamp(x, lo, hi) \in Int
         /\ x \in lo..hi => Clamp(x, lo, hi) = x
  BY DEF Clamp, High, Low

\* The step from a number to another one's clamped value ends in range, and
\* is not clamped again.
LEMMA ClampedStep ==
  ASSUME NEW x \in Int, NEW y \in Int, NEW lo \in Int, NEW hi \in Int, lo <= hi
  PROVE  /\ Clamp(y, lo, hi) - x \in Int
         /\ x + (Clamp(y, lo, hi) - x) \in lo..hi
         /\ Clamp(x + (Clamp(y, lo, hi) - x), lo, hi) = x + (Clamp(y, lo, hi) - x)
<1>1. Clamp(y, lo, hi) \in lo..hi
  BY ClampInt
<1>2. x + (Clamp(y, lo, hi) - x) \in lo..hi
  BY <1>1
<1> QED BY <1>1, <1>2, ClampInt, SMTT(30)

\* Every number of a row is an integer, the fields of a delta are what the
\* rules take them for.
LEMMA RowFields ==
  ASSUME NEW w \in Rows
  PROVE  /\ w.purse \in Int /\ w.hp \in Int /\ w.might \in Int /\ w.held \in Int
         /\ w.mood \in Int /\ w.durable \in Int /\ w.slow \in Int /\ w.fast \in Int
         /\ w.marked \in BOOLEAN /\ w.stage \in Stages
         /\ Bond(w) \in Int
  BY DEF Rows, Bond

LEMMA DeltaFields ==
  ASSUME NEW d \in Delta
  PROVE  /\ d.kind \in Kinds /\ d.n \in Int
         /\ d.kind = "stat" => d.to \in {"might", "hp", "purse"}
         /\ d.kind = "lead_transition" => d.to \in Stages
         /\ d.kind = "relationship" => d.to \in DecayClasses \cup {""}
         /\ d.kind = "fact" => d.to \in Statements
  BY DEF Delta, StatNames

\* The change by the kind of the delta.
LEMMA ChangeByKind ==
  ASSUME NEW w, NEW d
  PROVE  /\ d.kind = "hp" => Change(w, d) = Clamp(w.hp + d.n, 0, MaxHp) - w.hp
         /\ d.kind = "stat" =>
              Change(w, d) = Clamp(w[d.to] + d.n, StatLow, StatHigh) - w[d.to]
         /\ d.kind = "mood" =>
              Change(w, d) = Clamp(w.mood + Clamp(d.n, -MoodBound, MoodBound),
                                   -MoodBound, MoodBound) - w.mood
         /\ d.kind = "relationship" =>
              Change(w, d) = Slack(Bond(w), Clamp(d.n, -EventBound, EventBound))
         /\ d.kind = "inventory_remove" => Change(w, d) = -d.n
         /\ d.kind \notin {"hp", "stat", "mood", "relationship", "inventory_remove"} =>
              Change(w, d) = d.n
<1>1. CASE d.kind = "hp"
  BY <1>1, Zenon DEF Change
<1>2. CASE d.kind = "stat"
  BY <1>2, Zenon DEF Change
<1>3. CASE d.kind = "mood"
  BY <1>3, Zenon DEF Change
<1>4. CASE d.kind = "relationship"
  BY <1>4, Zenon DEF Change
<1>5. CASE d.kind = "inventory_remove"
  BY <1>5, Zenon DEF Change
<1>6. CASE d.kind \notin {"hp", "stat", "mood", "relationship", "inventory_remove"}
  <2>1. Change(w, d) = d.n
    BY <1>6, Zenon DEF Change
  <2> QED BY <1>6, <2>1, Zenon
<1> QED BY <1>1, <1>2, <1>3, <1>4, <1>5, <1>6, Zenon

LEMMA SlackInt ==
  ASSUME NEW bond \in Int, NEW n \in Int
  PROVE  Slack(bond, n) \in Int
  BY RulesAssumption DEF Slack, High, Low

\* The change takes a number with a range into the range.
LEMMA ChangeInt ==
  ASSUME NEW w \in Rows, NEW d \in Delta
  PROVE  /\ Change(w, d) \in Int
         /\ d.kind = "hp" =>
              /\ w.hp + Change(w, d) \in 0..MaxHp
              /\ Clamp(w.hp + Change(w, d), 0, MaxHp) = w.hp + Change(w, d)
         /\ d.kind = "stat" =>
              /\ w[d.to] + Change(w, d) \in StatLow..StatHigh
              /\ Clamp(w[d.to] + Change(w, d), StatLow, StatHigh) = w[d.to] + Change(w, d)
         /\ d.kind = "mood" =>
              /\ w.mood + Change(w, d) \in -MoodBound..MoodBound
              /\ Clamp(w.mood + Change(w, d), -MoodBound, MoodBound) = w.mood + Change(w, d)
<1>1. /\ w.hp \in Int /\ w.mood \in Int /\ Bond(w) \in Int /\ d.n \in Int
  BY RowFields, DeltaFields
<1>2. CASE d.kind = "hp"
  <2>1. Change(w, d) = Clamp(w.hp + d.n, 0, MaxHp) - w.hp
    BY <1>2, ChangeByKind, Zenon
  <2>2. w.hp + d.n \in Int
    BY <1>1
  <2>3. /\ Change(w, d) \in Int
        /\ w.hp + Change(w, d) \in 0..MaxHp
        /\ Clamp(w.hp + Change(w, d), 0, MaxHp) = w.hp + Change(w, d)
    <3> DEFINE x == w.hp
               y == w.hp + d.n
    <3>1. x \in Int /\ y \in Int /\ 0 \in Int /\ MaxHp \in Int /\ 0 <= MaxHp
      BY <1>1, <2>2, Bounds
    <3> HIDE DEF x, y
    <3>2. /\ Clamp(y, 0, MaxHp) - x \in Int
          /\ x + (Clamp(y, 0, MaxHp) - x) \in 0..MaxHp
          /\ Clamp(x + (Clamp(y, 0, MaxHp) - x), 0, MaxHp) = x + (Clamp(y, 0, MaxHp) - x)
      BY <3>1, ClampedStep
    <3>3. Change(w, d) = Clamp(y, 0, MaxHp) - x
      BY <2>1 DEF x, y
    <3> QED BY <3>2, <3>3 DEF x
  <2> QED BY <1>2, <2>3, Zenon
<1>3. CASE d.kind = "stat"
  <2>1. w[d.to] \in Int
    BY <1>3, RowFields, DeltaFields
  <2>2. Change(w, d) = Clamp(w[d.to] + d.n, StatLow, StatHigh) - w[d.to]
    BY <1>3, ChangeByKind, Zenon
  <2>3. w[d.to] + d.n \in Int
    BY <1>1, <2>1
  <2>4. /\ Change(w, d) \in Int
        /\ w[d.to] + Change(w, d) \in StatLow..StatHigh
        /\ Clamp(w[d.to] + Change(w, d), StatLow, StatHigh) = w[d.to] + Change(w, d)
    <3> DEFINE x == w[d.to]
               y == w[d.to] + d.n
    <3>1. x \in Int /\ y \in Int /\ StatLow \in Int /\ StatHigh \in Int /\ StatLow <= StatHigh
      BY <2>1, <2>3, Bounds
    <3> HIDE DEF x, y
    <3>2. /\ Clamp(y, StatLow, StatHigh) - x \in Int
          /\ x + (Clamp(y, StatLow, StatHigh) - x) \in StatLow..StatHigh
          /\ Clamp(x + (Clamp(y, StatLow, StatHigh) - x), StatLow, StatHigh) = x + (Clamp(y, StatLow, StatHigh) - x)
      BY <3>1, ClampedStep
    <3>3. Change(w, d) = Clamp(y, StatLow, StatHigh) - x
      BY <2>2 DEF x, y
    <3> QED BY <3>2, <3>3 DEF x
  <2> QED BY <1>3, <2>4, Zenon
<1>4. CASE d.kind = "mood"
  <2> DEFINE m == Clamp(d.n, -MoodBound, MoodBound)
  <2>1. Change(w, d) = Clamp(w.mood + m, -MoodBound, MoodBound) - w.mood
    BY <1>4, ChangeByKind, Zenon
  <2>2. m \in Int
    BY <1>1, Bounds, ClampInt
  <2> HIDE DEF m
  <2>3. w.mood + m \in Int
    BY <1>1, <2>2
  <2>4. /\ Change(w, d) \in Int
        /\ w.mood + Change(w, d) \in -MoodBound..MoodBound
        /\ Clamp(w.mood + Change(w, d), -MoodBound, MoodBound) = w.mood + Change(w, d)
    <3> DEFINE x == w.mood
               y == w.mood + m
    <3>1. x \in Int /\ y \in Int /\ -MoodBound \in Int /\ MoodBound \in Int /\ -MoodBound <= MoodBound
      BY <1>1, <2>3, Bounds
    <3> HIDE DEF x, y
    <3>2. /\ Clamp(y, -MoodBound, MoodBound) - x \in Int
          /\ x + (Clamp(y, -MoodBound, MoodBound) - x) \in -MoodBound..MoodBound
          /\ Clamp(x + (Clamp(y, -MoodBound, MoodBound) - x), -MoodBound, MoodBound) = x + (Clamp(y, -MoodBound, MoodBound) - x)
      BY <3>1, ClampedStep
    <3>3. Change(w, d) = Clamp(y, -MoodBound, MoodBound) - x
      BY <2>1 DEF x, y
    <3> QED BY <3>2, <3>3 DEF x
  <2> QED BY <1>4, <2>4, Zenon
<1>5. CASE d.kind = "relationship"
  <2>1. Change(w, d) = Slack(Bond(w), Clamp(d.n, -EventBound, EventBound))
    BY <1>5, ChangeByKind, Zenon
  <2>2. Clamp(d.n, -EventBound, EventBound) \in Int
    BY <1>1, Bounds, ClampInt
  <2> QED BY <1>1, <1>5, <2>1, <2>2, SlackInt
<1>6. CASE d.kind \notin {"hp", "stat", "mood", "relationship"}
  <2>1. Change(w, d) \in {d.n, -d.n}
    BY <1>6, ChangeByKind, Zenon
  <2> QED BY <1>1, <1>6, <2>1
<1> QED BY <1>2, <1>3, <1>4, <1>5, <1>6

\* The row a number goes to is a number.
NumberFields == {"purse", "hp", "might", "held", "mood"} \cup DecayClasses

LEMMA FieldIsNumber ==
  ASSUME NEW d \in Delta, NEW n \in Int, d.kind \in Numeric
  PROVE  Field(d, n) \in NumberFields
  BY DeltaFields DEF Field, DecayClass, DecayClasses, Numeric, NumberFields

LEMMA AddedRow ==
  ASSUME NEW w \in Rows, NEW f \in NumberFields, NEW n \in Int
  PROVE  /\ [w EXCEPT ![f] = @ + n] \in Rows
         /\ [w EXCEPT ![f] = @ + n].stage = w.stage
  BY DEF Rows, NumberFields, DecayClasses

LEMMA MovedRow ==
  ASSUME NEW w \in Rows, NEW d \in Delta, NEW n \in Int
  PROVE  /\ Moved(w, d, n) \in Rows
         /\ Moved(w, d, n).stage = IF d.kind = "lead_transition" THEN d.to ELSE w.stage
<1>1. CASE d.kind \in Numeric
  <2>1. Moved(w, d, n) = [w EXCEPT ![Field(d, n)] = @ + n]
    BY <1>1 DEF Moved, Numeric
  <2>2. Field(d, n) \in NumberFields
    BY <1>1, FieldIsNumber
  <2>3. d.kind # "lead_transition"
    BY <1>1 DEF Numeric
  <2> DEFINE f == Field(d, n)
  <2> HIDE DEF f
  <2>4. /\ [w EXCEPT ![f] = @ + n] \in Rows
        /\ [w EXCEPT ![f] = @ + n].stage = w.stage
    BY <2>2, AddedRow DEF f
  <2>5. Moved(w, d, n) = [w EXCEPT ![f] = @ + n]
    BY <2>1 DEF f
  <2> QED BY <2>3, <2>4, <2>5
<1>2. CASE d.kind \in {"status_add", "status_remove", "fact"}
  BY <1>2 DEF Moved, Rows, Numeric
<1>3. CASE d.kind = "lead_transition"
  <2>1. Moved(w, d, n) = [w EXCEPT !.stage = d.to] /\ d.to \in Stages
    BY <1>3, DeltaFields DEF Moved, Numeric
  <2> QED BY <1>3, <2>1 DEF Rows
<1> QED BY <1>1, <1>2, <1>3, DeltaFields DEF Kinds

\* The commit refuses nothing the validator let through, and its own clamps
\* and floors change nothing.
LEMMA CommitFollowsValidator ==
  ASSUME NEW w \in Rows, NEW d \in Delta, ~Refused(w, d)
  PROVE  /\ ~RefusedLate(w, d)
         /\ Written(w, d, Change(w, d)) = Moved(w, d, Change(w, d))
<1> DEFINE n == Change(w, d)
<1> HIDE DEF n
<1>1. ~RefusedLate(w, d)
  <2>1. w.held \in Int /\ d.n \in Int
    BY RowFields, DeltaFields
  <2> QED BY <2>1 DEF RefusedLate, Refused
<1>2. CASE d.kind = "hp"
  <2>1. Clamp(w.hp + n, 0, MaxHp) = w.hp + n
    BY <1>2, ChangeInt DEF n
  <2>2. Written(w, d, n) = [w EXCEPT !.hp = Clamp(@ + n, 0, MaxHp)]
    BY <1>2, Zenon DEF Written
  <2>3. Moved(w, d, n) = [w EXCEPT !.hp = @ + n]
    BY <1>2 DEF Moved, Numeric, Field
  <2> QED BY <1>1, <2>1, <2>2, <2>3 DEF n
<1>3. CASE d.kind = "stat"
  <2>1. Clamp(w[d.to] + n, StatLow, StatHigh) = w[d.to] + n
    BY <1>3, ChangeInt DEF n
  <2>2. Written(w, d, n) = [w EXCEPT ![d.to] = Clamp(@ + n, StatLow, StatHigh)]
    BY <1>3, Zenon DEF Written
  <2>3. Moved(w, d, n) = [w EXCEPT ![d.to] = @ + n]
    BY <1>3 DEF Moved, Numeric, Field
  <2> QED BY <1>1, <2>1, <2>2, <2>3 DEF n
<1>4. CASE d.kind = "mood"
  <2>1. Clamp(w.mood + n, -MoodBound, MoodBound) = w.mood + n
    BY <1>4, ChangeInt DEF n
  <2>2. Written(w, d, n) = [w EXCEPT !.mood = Clamp(@ + n, -MoodBound, MoodBound)]
    BY <1>4, Zenon DEF Written
  <2>3. Moved(w, d, n) = [w EXCEPT !.mood = @ + n]
    BY <1>4 DEF Moved, Numeric, Field
  <2> QED BY <1>1, <2>1, <2>2, <2>3 DEF n
<1>5. CASE d.kind = "inventory_remove"
  <2>1. w.held \in Int /\ d.n \in Int
    BY RowFields, DeltaFields
  <2>2. n = -d.n
    BY <1>5, ChangeByKind, Zenon DEF n
  <2>3. High(0, w.held + n) = w.held + n
    BY <1>5, <2>1, <2>2 DEF Refused, High
  <2>4. Written(w, d, n) = [w EXCEPT !.held = High(0, @ + n)]
    BY <1>5, Zenon DEF Written
  <2>5. Moved(w, d, n) = [w EXCEPT !.held = @ + n]
    BY <1>5 DEF Moved, Numeric, Field
  <2> QED BY <1>1, <2>3, <2>4, <2>5 DEF n
<1>6. CASE d.kind \notin {"hp", "stat", "mood", "inventory_remove"}
  <2>1. Written(w, d, n) = Moved(w, d, n)
    BY <1>6, Zenon DEF Written
  <2> QED BY <1>1, <2>1 DEF n
<1> QED BY <1>2, <1>3, <1>4, <1>5, <1>6

-----------------------------------------------------------------------------
(***************************************************************************)
(* A step keeps the sheet in range, if stat deltas name attributes only.   *)
(***************************************************************************)

\* The narrator leaves the purse and the hit points to the deltas meant for
\* them; nothing in the validator sees to it.
AttributesOnly == \A d \in Deltas : d.kind = "stat" => d.to = "might"

LEMMA MoveInRange ==
  ASSUME NEW w \in Rows, NEW d \in Delta, ~Refused(w, d), InRange(w),
         d.kind = "stat" => d.to = "might"
  PROVE  InRange(Moved(w, d, Change(w, d)))
<1> DEFINE n == Change(w, d)
           m == Moved(w, d, n)
<1> HIDE DEF n
<1>0. /\ n \in Int /\ d.n \in Int
      /\ w.purse \in Int /\ w.held \in Int
  BY ChangeInt, RowFields, DeltaFields DEF n
<1>1. CASE d.kind = "currency"
  <2>1. w.purse + n >= 0
    <3>1. n = d.n
      BY <1>1, ChangeByKind, Zenon DEF n
    <3> QED BY <1>0, <1>1, <3>1 DEF Refused
  <2>2. m = [w EXCEPT !.purse = @ + n]
    BY <1>1 DEF Moved, Numeric, Field
  <2>3. /\ m.purse = w.purse + n /\ m.hp = w.hp /\ m.held = w.held
        /\ m.might = w.might /\ m.mood = w.mood
    BY <2>2 DEF Rows
  <2> QED BY <2>1, <2>3 DEF InRange, n
<1>2. CASE d.kind \in {"inventory_add", "inventory_remove"}
  <2>1. w.held + n >= 0
    <3>1. CASE d.kind = "inventory_add"
      <4>1. n = d.n
        BY <3>1, ChangeByKind, Zenon DEF n
      <4> QED BY <1>0, <3>1, <4>1 DEF Refused, InRange
    <3>2. CASE d.kind = "inventory_remove"
      <4>1. n = -d.n
        BY <3>2, ChangeByKind, Zenon DEF n
      <4> QED BY <1>0, <3>2, <4>1 DEF Refused
    <3> QED BY <1>2, <3>1, <3>2
  <2>2. m = [w EXCEPT !.held = @ + n]
    BY <1>2 DEF Moved, Numeric, Field
  <2>3. /\ m.purse = w.purse /\ m.hp = w.hp /\ m.held = w.held + n
        /\ m.might = w.might /\ m.mood = w.mood
    BY <2>2 DEF Rows
  <2> QED BY <2>1, <2>3 DEF InRange, n
<1>3. CASE d.kind = "hp"
  <2>1. w.hp + n \in 0..MaxHp
    BY <1>3, ChangeInt DEF n
  <2>2. m = [w EXCEPT !.hp = @ + n]
    BY <1>3 DEF Moved, Numeric, Field
  <2>3. /\ m.purse = w.purse /\ m.hp = w.hp + n /\ m.held = w.held
        /\ m.might = w.might /\ m.mood = w.mood
    BY <2>2 DEF Rows
  <2> QED BY <2>1, <2>3 DEF InRange, n
<1>4. CASE d.kind = "stat" /\ d.to = "might"
  <2>1. w.might + n \in StatLow..StatHigh
    BY <1>4, ChangeInt DEF n
  <2>2. m = [w EXCEPT !.might = @ + n]
    BY <1>4 DEF Moved, Numeric, Field
  <2>3. /\ m.purse = w.purse /\ m.hp = w.hp /\ m.held = w.held
        /\ m.might = w.might + n /\ m.mood = w.mood
    BY <2>2 DEF Rows
  <2> QED BY <2>1, <2>3 DEF InRange, n
<1>5. CASE d.kind = "mood"
  <2>1. w.mood + n \in -MoodBound..MoodBound
    BY <1>5, ChangeInt DEF n
  <2>2. m = [w EXCEPT !.mood = @ + n]
    BY <1>5 DEF Moved, Numeric, Field
  <2>3. /\ m.purse = w.purse /\ m.hp = w.hp /\ m.held = w.held
        /\ m.might = w.might /\ m.mood = w.mood + n
    BY <2>2 DEF Rows
  <2> QED BY <2>1, <2>3 DEF InRange, n
<1>6. CASE d.kind \in {"relationship", "status_add", "status_remove", "lead_transition", "fact"}
  <2>1. /\ m.purse = w.purse /\ m.hp = w.hp /\ m.held = w.held
        /\ m.might = w.might /\ m.mood = w.mood
    <3>1. CASE d.kind = "relationship"
      <4>1. DecayClass(d, n) \in {"durable", "slow", "fast"}
        BY <3>1, DeltaFields DEF DecayClass, DecayClasses
      <4>2. m = [w EXCEPT ![DecayClass(d, n)] = @ + n]
        BY <3>1 DEF Moved, Numeric, Field
      <4> QED BY <4>1, <4>2 DEF Rows
    <3>2. CASE d.kind # "relationship"
      BY <1>6, <3>2 DEF Moved, Numeric, Rows
    <3> QED BY <3>1, <3>2
  <2> QED BY <2>1 DEF InRange, n
<1> QED BY <1>1, <1>2, <1>3, <1>4, <1>5, <1>6, DeltaFields DEF Kinds, Numeric

-----------------------------------------------------------------------------
(***************************************************************************)
(* What a lead's history and the told facts keep when they grow.           *)
(***************************************************************************)

LEMMA PathGrows ==
  ASSUME NEW h \in Seq(Stages), NEW s, NEW t \in Onward(s), PathTo(s, h)
  PROVE  PathTo(t, Append(h, t))
<1> DEFINE g == Append(h, t)
<1>1. /\ Len(g) = Len(h) + 1 /\ g[Len(g)] = t /\ g # <<>>
      /\ DOMAIN g = 1..Len(h) + 1 /\ DOMAIN h = 1..Len(h) /\ Len(h) \in Nat
      /\ \A i \in 1..Len(h) : g[i] = h[i]
  OBVIOUS
<1> HIDE DEF g
<1>2. ASSUME NEW i \in DOMAIN g
      PROVE  g[i] \in Onward(IF i = 1 THEN "unheard" ELSE g[i - 1])
  <2>1. CASE i = Len(h) + 1
    <3>1. s = IF i = 1 THEN "unheard" ELSE g[i - 1]
      <4>1. CASE h = <<>>
        BY <2>1, <4>1 DEF PathTo
      <4>2. CASE h # <<>>
        <5>1. Len(h) > 0
          BY <4>2
        <5> QED BY <1>1, <2>1, <4>2, <5>1 DEF PathTo
      <4> QED BY <4>1, <4>2
    <3> QED BY <1>1, <2>1, <3>1
  <2>2. CASE i \in 1..Len(h)
    <3>1. h[i] \in Onward(IF i = 1 THEN "unheard" ELSE h[i - 1])
      BY <1>1, <2>2 DEF PathTo
    <3>2. CASE i = 1
      BY <1>1, <2>2, <3>1, <3>2
    <3>3. CASE i # 1
      <4>1. i - 1 \in 1..Len(h)
        BY <1>1, <2>2, <3>3
      <4> QED BY <1>1, <2>2, <3>1, <3>3, <4>1
    <3> QED BY <3>2, <3>3
  <2> QED BY <1>1, <2>1, <2>2
<1> QED BY <1>1, <1>2 DEF PathTo, g

LEMMA FactsGrow ==
  ASSUME NEW facts \in Seq(Fact), NEW said \in Statements, NEW turn \in 1..MaxTurns,
         Consistent(facts)
  PROVE  /\ FactsWith(facts, said, turn) \in Seq(Fact)
         /\ Consistent(FactsWith(facts, said, turn))
<1> DEFINE f == [said |-> said, turn |-> turn]
           g == Append(facts, f)
<1>1. CASE Clashes(said, facts) \/ Reinforces(said, Told(facts))
  BY <1>1 DEF FactsWith
<1>2. CASE ~(Clashes(said, facts) \/ Reinforces(said, Told(facts)))
  <2>1. FactsWith(facts, said, turn) = g
    BY <1>2 DEF FactsWith
  <2>2. g \in Seq(Fact)
    BY DEF Fact
  <2>3. ASSUME NEW i \in DOMAIN g, NEW j \in DOMAIN g, i < j
        PROVE  <<g[j].said, g[i].said>> \notin Conflicts
    <3>1. /\ i \in 1..Len(facts) /\ g[i] = facts[i]
          /\ j \in 1..Len(facts) + 1
      BY <2>3
    <3>2. CASE j \in 1..Len(facts)
      BY <2>3, <3>1, <3>2 DEF Consistent
    <3>3. CASE j = Len(facts) + 1
      <4>1. g[j].said = said
        BY <3>3
      <4>2. facts[i].said \in Told(facts)
        BY <3>1 DEF Told
      <4> QED BY <1>2, <3>1, <4>1, <4>2 DEF Clashes, Contradicts
    <3> QED BY <3>1, <3>2, <3>3
  <2> QED BY <2>1, <2>2, <2>3 DEF Consistent
<1> QED BY <1>1, <1>2

-----------------------------------------------------------------------------
(***************************************************************************)
(* The inductive invariant: one request at a time is under way; its batch  *)
(* is a chain of verdicts from the stored rows, its draft has followed the *)
(* chain so far, and its number is the next the log will get.              *)
(***************************************************************************)

OneAtATime ==
    \A r, s \in Requests : req[r].at # Idle /\ req[s].at # Idle => r = s

Batched(q, rows) ==
    q.at \in {"judge", "write"} =>
        /\ Len(q.copies) = Len(q.verdicts) + 1
        /\ q.copies[1] = rows
        /\ \A i \in 1..Len(q.verdicts) :
              /\ ~Refused(q.copies[i], q.verdicts[i].delta)
              /\ q.verdicts[i].n = Change(q.copies[i], q.verdicts[i].delta)
              /\ q.copies[i + 1] = Moved(q.copies[i], q.verdicts[i].delta, q.verdicts[i].n)

Drafted(q) ==
    q.at = "write" =>
        /\ q.written <= Len(q.verdicts)
        /\ q.draft.rows = q.copies[q.written + 1]
        /\ PathTo(q.draft.rows.stage, q.draft.history)
        /\ Consistent(q.draft.facts)

Numbered(q, lg, ch) ==
    q.at # Idle =>
        /\ q.turn \in 1..MaxTurns
        /\ q.at # "meter" => q.turn = Len(lg) + 1
        /\ \/ q.at \in {"fade", "scan", "log"}
           \/ q.at \in {"narrate", "judge", "write"} /\ q.pass = 2
           => \E k \in DOMAIN ch : ch[k] = q.turn

Sound(q, rows, lg, ch) == Batched(q, rows) /\ Drafted(q) /\ Numbered(q, lg, ch)

IInv ==
    /\ TypeOK
    /\ OneAtATime
    /\ LeadLegal /\ NoContradictions /\ TurnsNumbered
    /\ \A r \in Requests : Sound(req[r], world.rows, log, chronicle)

LEMMA Resting ==
  ASSUME NEW q, q.at = Idle, NEW rows, NEW lg, NEW ch
  PROVE  Sound(q, rows, lg, ch)
  BY DEF Sound, Batched, Drafted, Numbered, Idle

\* Past the chronicle's row, and between the batches.
LEMMA Remembered ==
  ASSUME NEW q, NEW rows, NEW lg, NEW ch, Sound(q, rows, lg, ch),
         q.at \in {"fade", "scan", "log"}
  PROVE  /\ q.turn \in 1..MaxTurns /\ q.turn = Len(lg) + 1
         /\ \E k \in DOMAIN ch : ch[k] = q.turn
<1>1. Numbered(q, lg, ch)
  BY DEF Sound
<1> QED BY <1>1 DEF Numbered, Idle

LEMMA OutsideBatch ==
  ASSUME NEW q, NEW rows, NEW lg, NEW ch, q.at \notin {"judge", "write"},
         q.turn \in 1..MaxTurns, q.turn = Len(lg) + 1,
         \E k \in DOMAIN ch : ch[k] = q.turn
  PROVE  Sound(q, rows, lg, ch)
  BY DEF Sound, Batched, Drafted, Numbered

\* A step moves one request, and the others rest.
LEMMA OneMoves ==
  ASSUME IInv, NEW r \in Requests, NEW q \in Request,
         req' = [req EXCEPT ![r] = q],
         req[r].at # Idle \/ Unoccupied,
         Sound(q, world'.rows, log', chronicle')
  PROVE  /\ req' \in [Requests -> Request]
         /\ OneAtATime'
         /\ \A s \in Requests : Sound(req'[s], world'.rows, log', chronicle')
<1>1. req \in [Requests -> Request]
  BY DEF IInv, TypeOK
<1>2. req' \in [Requests -> Request] /\ req'[r] = q
      /\ \A s \in Requests : s # r => req'[s] = req[s]
  BY <1>1
<1>3. \A s \in Requests : s # r => req[s].at = Idle
  BY DEF IInv, OneAtATime, Unoccupied
<1>4. OneAtATime'
  BY <1>2, <1>3 DEF OneAtATime
<1>5. ASSUME NEW s \in Requests
      PROVE  Sound(req'[s], world'.rows, log', chronicle')
  BY <1>2, <1>3, Resting
<1> QED BY <1>2, <1>4, <1>5

\* A step that leaves every row alone keeps what is said of rows.
LEMMA RowsAlone ==
  ASSUME IInv, UNCHANGED <<world, chronicle, log, telemetry>>,
         attempts' \in 0..MaxAttempts, req' \in [Requests -> Request]
  PROVE  TypeOK' /\ LeadLegal' /\ NoContradictions' /\ TurnsNumbered'
  BY DEF IInv, TypeOK, LeadLegal, NoContradictions, TurnsNumbered

LEMMA EmptyRequest ==
  /\ NoRequest \in Request
  /\ NoRequest.at = Idle /\ NoRequest.pass = 1 /\ NoRequest.left = MaxDeltas
<1>1. Seeded \in World
  <2>1. Seeded.rows \in Rows
    BY TurnAssumption, RulesAssumption DEF Seeded, Rows, Stages
  <2> QED BY <2>1 DEF Seeded, World
<1>2. MaxDeltas \in 0..MaxDeltas /\ 0 \in 0..MaxTurns
  BY TurnAssumption
<1> QED BY <1>1, <1>2 DEF NoRequest, Request, Steps, Idle

LEMMA InitIInv == Init => IInv
<1> SUFFICES ASSUME Init PROVE IInv
  OBVIOUS
<1>1. /\ world = Seeded /\ chronicle = <<>> /\ log = <<>> /\ telemetry = <<>>
      /\ req = [r \in Requests |-> NoRequest] /\ attempts = 0
  BY DEF Init
<1>2. Seeded \in World /\ Seeded.history = <<>> /\ Seeded.facts = <<>>
      /\ Seeded.rows.stage = "unheard"
  <2>1. Seeded.rows \in Rows
    BY TurnAssumption, RulesAssumption DEF Seeded, Rows, Stages
  <2> QED BY <2>1 DEF Seeded, World
<1>3. TypeOK
  <2>1. attempts \in 0..MaxAttempts
    BY <1>1, TurnAssumption
  <2>2. req \in [Requests -> Request]
    BY <1>1, EmptyRequest
  <2> QED BY <1>1, <1>2, <2>1, <2>2 DEF TypeOK
<1>4. OneAtATime
  BY <1>1, EmptyRequest DEF OneAtATime
<1>5. LeadLegal /\ NoContradictions /\ TurnsNumbered
  BY <1>1, <1>2 DEF LeadLegal, PathTo, NoContradictions, Consistent, TurnsNumbered
<1>6. \A r \in Requests : Sound(req[r], world.rows, log, chronicle)
  BY <1>1, EmptyRequest, Resting
<1> QED BY <1>3, <1>4, <1>5, <1>6 DEF IInv

LEMMA BeginStep ==
  ASSUME IInv, NEW r \in Requests, Begin(r)
  PROVE  IInv'
<1> DEFINE q == [NoRequest EXCEPT !.at = "narrate", !.turn = NextTurn]
<1>1. /\ req' = [req EXCEPT ![r] = q] /\ Unoccupied
      /\ NextTurn <= MaxTurns
      /\ attempts < MaxAttempts /\ attempts' = attempts + 1
      /\ UNCHANGED <<world, chronicle, log, telemetry>>
  BY DEF Begin
<1>2. NextTurn = Len(log) + 1 /\ NextTurn \in 1..MaxTurns
  <2>1. log \in Seq(1..MaxTurns) /\ \A i \in DOMAIN log : log[i] = i
    BY DEF IInv, TypeOK, TurnsNumbered
  <2> QED BY <1>1, <2>1, TurnAssumption DEF NextTurn
<1>3. q \in Request
  <2>1. NextTurn \in 0..MaxTurns /\ "narrate" \in Steps
    BY <1>2 DEF Steps
  <2> QED BY <2>1, EmptyRequest DEF Request
<1>4. Sound(q, world'.rows, log', chronicle')
  <2>1. q.at = "narrate" /\ q.turn = NextTurn /\ q.pass = 1
    BY EmptyRequest DEF NoRequest
  <2> QED BY <1>1, <1>2, <2>1 DEF Sound, Batched, Drafted, Numbered
<1> HIDE DEF q
<1>5. attempts' \in 0..MaxAttempts
  BY <1>1, TurnAssumption DEF IInv, TypeOK
<1> QED BY <1>1, <1>3, <1>4, <1>5, OneMoves, RowsAlone DEF IInv

LEMMA FinishStep ==
  ASSUME IInv, NEW r \in Requests, req[r].at # Idle, Finish(r),
         UNCHANGED <<world, chronicle, log, telemetry, attempts>>
  PROVE  IInv'
<1>1. Sound(NoRequest, world'.rows, log', chronicle')
  BY EmptyRequest, Resting
<1>2. attempts' \in 0..MaxAttempts
  BY DEF IInv, TypeOK
<1>3. req' = [req EXCEPT ![r] = NoRequest]
  BY DEF Finish
<1> QED BY <1>1, <1>2, <1>3, EmptyRequest, OneMoves, RowsAlone DEF IInv

LEMMA NarratedStep ==
  ASSUME IInv, NEW r \in Requests, Narrated(r)
  PROVE  IInv'
<1> DEFINE o == req[r]
           q == [o EXCEPT !.at = "judge", !.copies = <<world.rows>>,
                          !.new = <<>>, !.verdicts = <<>>]
<1>1. /\ o \in Request /\ Sound(o, world.rows, log, chronicle)
      /\ world.rows \in Rows /\ attempts \in 0..MaxAttempts
  BY DEF IInv, TypeOK, World
<1>2. /\ o.at = "narrate" /\ req' = [req EXCEPT ![r] = q]
      /\ UNCHANGED <<world, chronicle, log, telemetry, attempts>>
  BY DEF Narrated
<1>3. q \in Request
  <2>1. <<world.rows>> \in Seq(Rows) /\ "judge" \in Steps
    BY <1>1 DEF Steps
  <2>2. <<>> \in Seq(Statements) /\ <<>> \in Seq(Verdict)
    OBVIOUS
  <2> QED BY <1>1, <2>1, <2>2 DEF Request
<1>4. Sound(q, world'.rows, log', chronicle')
  <2>1. /\ q.at = "judge" /\ q.copies = <<world.rows>> /\ q.verdicts = <<>>
        /\ q.turn = o.turn /\ q.pass = o.pass
    BY <1>1 DEF Request
  <2>2. Batched(q, world.rows)
    BY <2>1 DEF Batched
  <2>3. Drafted(q)
    BY <2>1 DEF Drafted
  <2>4. Numbered(q, log, chronicle)
    BY <1>1, <1>2, <2>1 DEF Sound, Numbered, Idle
  <2> QED BY <1>2, <2>2, <2>3, <2>4 DEF Sound
<1>5. req[r].at # Idle
  BY <1>2 DEF Idle
<1> HIDE DEF q
<1> QED BY <1>1, <1>2, <1>3, <1>4, <1>5, OneMoves, RowsAlone DEF IInv

\* Judging moves the copy of one batch by one delta, and no other request.
LEMMA JudgesOne ==
  ASSUME req \in [Requests -> Request], NEW r \in Requests, Judge(r)
  PROVE  \E d \in Deltas :
           /\ ~RefusedInBatch(req[r], d)
           /\ req'[r].copies = Append(req[r].copies, Moved(Copy(req[r]), d, Change(Copy(req[r]), d)))
           /\ \A s \in Requests : s # r => req'[s] = req[s]
<1> DEFINE o == req[r]
           c == Copy(o)
<1>1. PICK d \in Deltas \ o.seen :
        /\ ~RefusedInBatch(o, d)
        /\ req' = [req EXCEPT
                ![r].verdicts = Append(@, [delta |-> d, n |-> Change(c, d)]),
                ![r].copies = Append(@, Moved(c, d, Change(c, d))),
                ![r].new = IF d.kind = "fact" THEN Accounted(o, d.to) ELSE @,
                ![r].left = @ - 1]
  BY DEF Judge, Unapplied
<1> DEFINE n == Change(c, d)
           m == Moved(c, d, n)
           new == IF d.kind = "fact" THEN Accounted(o, d.to) ELSE o.new
           q == [o EXCEPT !.verdicts = Append(@, [delta |-> d, n |-> n]),
                          !.copies = Append(@, m), !.new = new, !.left = @ - 1]
<1>2. req' = [req EXCEPT ![r] = q]
  BY <1>1
<1>3. o \in Request
  OBVIOUS
<1> HIDE DEF n, m, new
<1>4. q.copies = Append(o.copies, m)
  BY <1>3 DEF Request
<1> HIDE DEF q
<1>5. req'[r] = q /\ \A s \in Requests : s # r => req'[s] = req[s]
  BY <1>2
<1> QED BY <1>1, <1>4, <1>5 DEF m, n

LEMMA JudgeStep ==
  ASSUME IInv, NEW r \in Requests, Judge(r)
  PROVE  IInv'
<1> DEFINE o == req[r]
<1>1. /\ o \in Request /\ Sound(o, world.rows, log, chronicle)
      /\ attempts \in 0..MaxAttempts
  BY DEF IInv, TypeOK
<1>2. o.at = "judge" /\ o.left > 0
      /\ UNCHANGED <<world, chronicle, log, telemetry, attempts>>
  BY DEF Judge, Unapplied
<1>3. PICK d \in Deltas \ o.seen :
        /\ ~RefusedInBatch(o, d)
        /\ d.kind = "fact" => FactFits(o, d.to)
        /\ req' = [req EXCEPT
                ![r].verdicts = Append(@, [delta |-> d, n |-> Change(Copy(o), d)]),
                ![r].copies = Append(@, Moved(Copy(o), d, Change(Copy(o), d))),
                ![r].new = IF d.kind = "fact" THEN Accounted(o, d.to) ELSE @,
                ![r].left = @ - 1]
  BY DEF Judge, Unapplied
<1> DEFINE c == Copy(o)
           n == Change(c, d)
           new == IF d.kind = "fact" THEN Accounted(o, d.to) ELSE o.new
           q == [o EXCEPT !.verdicts = Append(@, [delta |-> d, n |-> n]),
                          !.copies = Append(@, Moved(c, d, n)),
                          !.new = new, !.left = @ - 1]
<1>4. d \in Delta
  BY TurnAssumption
<1>5. /\ o.copies \in Seq(Rows) /\ o.verdicts \in Seq(Verdict)
      /\ Len(o.copies) = Len(o.verdicts) + 1 /\ o.copies[1] = world.rows
      /\ c = o.copies[Len(o.copies)] /\ c \in Rows
  <2>1. o.copies \in Seq(Rows) /\ o.verdicts \in Seq(Verdict)
    BY <1>1 DEF Request
  <2>2. Len(o.copies) = Len(o.verdicts) + 1 /\ o.copies[1] = world.rows
    BY <1>1, <1>2 DEF Sound, Batched
  <2> QED BY <2>1, <2>2 DEF Copy
<1>6. n \in Int /\ Moved(c, d, n) \in Rows
  BY <1>4, <1>5, ChangeInt, MovedRow
<1>7. [delta |-> d, n |-> n] \in Verdict
  BY <1>6 DEF Verdict
<1>8. new \in Seq(Statements)
  <2>1. o.new \in Seq(Statements)
    BY <1>1 DEF Request
  <2>2. d.kind = "fact" => d.to \in Statements
    BY <1>4, DeltaFields
  <2>3. d.kind = "fact" => Append(o.new, d.to) \in Seq(Statements)
    BY <2>1, <2>2
  <2> QED BY <2>1, <2>3 DEF Accounted
<1>9. req' = [req EXCEPT ![r] = q]
  BY <1>3
<1> HIDE DEF c, n, new
<1>10. q \in Request
  <2>0. o.left \in 0..MaxDeltas
    BY <1>1 DEF Request
  <2>1. o.left - 1 \in 0..MaxDeltas
    BY <1>2, <2>0, TurnAssumption
  <2>2. Append(o.verdicts, [delta |-> d, n |-> n]) \in Seq(Verdict)
    BY <1>5, <1>7
  <2>3. Append(o.copies, Moved(c, d, n)) \in Seq(Rows)
    BY <1>5, <1>6
  <2> QED BY <1>1, <1>8, <2>1, <2>2, <2>3 DEF Request
<1>11. /\ q.at = "judge" /\ q.turn = o.turn /\ q.pass = o.pass
       /\ q.copies = Append(o.copies, Moved(c, d, n))
       /\ q.verdicts = Append(o.verdicts, [delta |-> d, n |-> n])
  BY <1>1, <1>2 DEF Request
<1> HIDE DEF q
<1>12. Batched(q, world.rows)
  <2>0. Len(q.copies) = Len(o.copies) + 1 /\ Len(q.verdicts) = Len(o.verdicts) + 1
    BY <1>5, <1>11
  <2>1. /\ Len(q.copies) = Len(q.verdicts) + 1 /\ q.copies[1] = world.rows
        /\ Len(q.verdicts) = Len(o.verdicts) + 1
    <3>1. 1 \in 1..Len(o.copies) /\ q.copies[1] = o.copies[1]
      BY <1>5, <1>11
    <3> QED BY <1>5, <2>0, <3>1
  <2>2. ASSUME NEW i \in 1..Len(q.verdicts)
        PROVE  /\ ~Refused(q.copies[i], q.verdicts[i].delta)
               /\ q.verdicts[i].n = Change(q.copies[i], q.verdicts[i].delta)
               /\ q.copies[i + 1] = Moved(q.copies[i], q.verdicts[i].delta, q.verdicts[i].n)
    <3>1. CASE i \in 1..Len(o.verdicts)
      <4>1. /\ q.copies[i] = o.copies[i] /\ q.copies[i + 1] = o.copies[i + 1]
            /\ q.verdicts[i] = o.verdicts[i]
        BY <1>5, <1>11, <3>1
      <4> QED BY <1>1, <1>2, <3>1, <4>1 DEF Sound, Batched
    <3>2. CASE i = Len(o.verdicts) + 1
      <4>0. i = Len(o.copies)
        BY <1>5, <3>2
      <4>1. q.copies[i] = c /\ q.copies[i + 1] = Moved(c, d, n)
        BY <1>5, <1>6, <1>11, <4>0
      <4>2. q.verdicts[i] = [delta |-> d, n |-> n]
        BY <1>5, <1>7, <1>11, <3>2
      <4>3. q.verdicts[i].delta = d /\ q.verdicts[i].n = n
        BY <4>2
      <4>4. ~Refused(c, d)
        BY <1>3 DEF RefusedInBatch, c
      <4> QED BY <4>1, <4>3, <4>4 DEF n
    <3>3. i \in 1..Len(o.verdicts) \/ i = Len(o.verdicts) + 1
      BY <1>5, <2>1, <2>2
    <3> QED BY <3>1, <3>2, <3>3, Zenon
  <2> QED BY <2>1, <2>2 DEF Batched
<1>13. Sound(q, world'.rows, log', chronicle')
  <2>1. Drafted(q)
    BY <1>11 DEF Drafted
  <2>2. Numbered(q, log, chronicle)
    BY <1>1, <1>2, <1>11 DEF Sound, Numbered, Idle
  <2> QED BY <1>2, <1>12, <2>1, <2>2 DEF Sound
<1>14. req[r].at # Idle
  BY <1>2 DEF Idle
<1> QED BY <1>1, <1>2, <1>9, <1>10, <1>13, <1>14, OneMoves, RowsAlone DEF IInv

LEMMA OpenTransactionStep ==
  ASSUME IInv, NEW r \in Requests, OpenTransaction(r)
  PROVE  IInv'
<1> DEFINE o == req[r]
           q == [o EXCEPT !.at = "write", !.written = 0, !.draft = world]
<1>1. /\ o \in Request /\ Sound(o, world.rows, log, chronicle)
      /\ world \in World /\ attempts \in 0..MaxAttempts
      /\ LeadLegal /\ NoContradictions
  BY DEF IInv, TypeOK
<1>2. /\ o.at = "judge" /\ req' = [req EXCEPT ![r] = q]
      /\ UNCHANGED <<world, chronicle, log, telemetry, attempts>>
  BY DEF OpenTransaction
<1>3. q \in Request
  <2>1. "write" \in Steps
    BY DEF Steps
  <2> QED BY <1>1, <2>1 DEF Request
<1>4. Sound(q, world'.rows, log', chronicle')
  <2>1. /\ q.at = "write" /\ q.written = 0 /\ q.draft = world
        /\ q.turn = o.turn /\ q.pass = o.pass
        /\ q.copies = o.copies /\ q.verdicts = o.verdicts
    BY <1>1 DEF Request
  <2>2. Batched(q, world.rows)
    BY <1>1, <1>2, <2>1 DEF Sound, Batched
  <2>3. Drafted(q)
    <3>1. 0 <= Len(q.verdicts)
      BY <1>1, <2>1 DEF Request
    <3>2. q.copies[0 + 1] = world.rows
      BY <2>1, <2>2 DEF Batched
    <3> QED BY <1>1, <2>1, <3>1, <3>2 DEF Drafted, LeadLegal, NoContradictions
  <2>4. Numbered(q, log, chronicle)
    BY <1>1, <1>2, <2>1 DEF Sound, Numbered, Idle
  <2> QED BY <1>2, <2>2, <2>3, <2>4 DEF Sound
<1>5. req[r].at # Idle
  BY <1>2 DEF Idle
<1> HIDE DEF q
<1> QED BY <1>1, <1>2, <1>3, <1>4, <1>5, OneMoves, RowsAlone DEF IInv

LEMMA WriteStep ==
  ASSUME IInv, NEW r \in Requests, Write(r)
  PROVE  IInv'
<1> DEFINE o == req[r]
           k == o.written + 1
           v == o.verdicts[k]
           c == o.copies[k]
           w == Draft(o.draft, v, o.turn)
           seen == IF Applies(o.draft, v.delta) THEN o.seen \cup {v.delta} ELSE o.seen
           q == [o EXCEPT !.draft = w, !.seen = seen, !.written = @ + 1]
<1>1. /\ o \in Request /\ Sound(o, world.rows, log, chronicle)
      /\ attempts \in 0..MaxAttempts
  BY DEF IInv, TypeOK
<1>2. /\ o.at = "write" /\ o.written < Len(o.verdicts) /\ req' = [req EXCEPT ![r] = q]
      /\ UNCHANGED <<world, chronicle, log, telemetry, attempts>>
  BY DEF Write
<1>3. /\ o.verdicts \in Seq(Verdict) /\ o.copies \in Seq(Rows) /\ o.written \in Nat
      /\ o.draft \in World /\ o.seen \in SUBSET Deltas
  BY <1>1 DEF Request
<1>4. /\ k \in 1..Len(o.verdicts) /\ v \in Verdict /\ v.delta \in Deltas
      /\ v.delta \in Delta /\ v.n \in Int
  <2>1. k \in 1..Len(o.verdicts)
    BY <1>2, <1>3
  <2>2. v \in Verdict
    BY <1>3, <2>1
  <2> HIDE DEF v
  <2>3. v.delta \in Deltas /\ v.n \in Int
    BY <2>2 DEF Verdict
  <2> QED BY <2>1, <2>2, <2>3, TurnAssumption
<1>5. /\ Len(o.copies) = Len(o.verdicts) + 1 /\ c \in Rows
      /\ ~Refused(c, v.delta) /\ v.n = Change(c, v.delta)
      /\ o.copies[k + 1] = Moved(c, v.delta, v.n)
  <2>1. Len(o.copies) = Len(o.verdicts) + 1
    BY <1>1, <1>2 DEF Sound, Batched
  <2>2. c \in Rows
    <3>1. k \in 1..Len(o.copies)
      BY <1>3, <1>4, <2>1
    <3> HIDE DEF k, o
    <3> QED BY <1>3, <3>1
  <2> QED BY <1>1, <1>2, <1>4, <2>1, <2>2 DEF Sound, Batched
<1>6. /\ o.draft.rows = c /\ PathTo(c.stage, o.draft.history)
      /\ Consistent(o.draft.facts) /\ o.turn \in 1..MaxTurns
  BY <1>1, <1>2 DEF Sound, Drafted, Numbered, Idle
<1>7. o.draft.history \in Seq(Stages) /\ o.draft.facts \in Seq(Fact)
  BY <1>3 DEF World
<1> HIDE DEF v, c, k
<1>8. w.rows = Moved(c, v.delta, v.n) /\ w.rows \in Rows
  <2>1. ~RefusedLate(c, v.delta) /\ Written(c, v.delta, v.n) = Moved(c, v.delta, v.n)
    BY <1>4, <1>5, CommitFollowsValidator
  <2>2. w.rows = IF RefusedLate(o.draft.rows, v.delta) THEN o.draft.rows
                 ELSE Written(o.draft.rows, v.delta, v.n)
    BY Zenon DEF Draft
  <2>3. w.rows = Moved(c, v.delta, v.n)
    BY <1>6, <2>1, <2>2, Zenon
  <2>4. Moved(c, v.delta, v.n) \in Rows
    BY <1>4, <1>5, MovedRow
  <2> QED BY <2>3, <2>4
<1>8a. w.rows.stage = IF v.delta.kind = "lead_transition" THEN v.delta.to ELSE c.stage
  <2>1. Moved(c, v.delta, v.n).stage
           = IF v.delta.kind = "lead_transition" THEN v.delta.to ELSE c.stage
    BY <1>4, <1>5, MovedRow
  <2> HIDE DEF w
  <2> QED BY <1>8, <2>1
<1>9. w.history \in Seq(Stages) /\ PathTo(w.rows.stage, w.history)
  <2>0. w.history = IF v.delta.kind = "lead_transition" THEN Append(o.draft.history, v.delta.to)
                    ELSE o.draft.history
    BY Zenon DEF Draft
  <2> HIDE DEF w
  <2>1. CASE v.delta.kind = "lead_transition"
    <3>1. v.delta.to \in Onward(c.stage)
      BY <1>5, <2>1 DEF Refused
    <3>2. v.delta.to \in Stages
      BY <1>4, <2>1, DeltaFields
    <3>3. w.rows.stage = v.delta.to
      BY <1>8a, <2>1
    <3> QED BY <1>6, <1>7, <2>0, <2>1, <3>1, <3>2, <3>3, PathGrows
  <2>2. CASE v.delta.kind # "lead_transition"
    <3>1. w.rows.stage = c.stage
      BY <1>8a, <2>2
    <3> QED BY <1>6, <1>7, <2>0, <2>2, <3>1
  <2> QED BY <2>1, <2>2
<1>10. w.facts \in Seq(Fact) /\ Consistent(w.facts)
  <2>0. w.facts = IF v.delta.kind = "fact" THEN FactsWith(o.draft.facts, v.delta.to, o.turn)
                  ELSE o.draft.facts
    BY Zenon DEF Draft
  <2> HIDE DEF w
  <2>1. CASE v.delta.kind = "fact"
    <3>1. v.delta.to \in Statements
      BY <1>4, <2>1, DeltaFields
    <3> QED BY <1>6, <1>7, <2>0, <2>1, <3>1, FactsGrow
  <2>2. CASE v.delta.kind # "fact"
    BY <1>6, <1>7, <2>0, <2>2
  <2> QED BY <2>1, <2>2
<1>11. w \in World
  <2>1. w = [rows |-> w.rows, history |-> w.history, facts |-> w.facts]
    BY DEF Draft
  <2> HIDE DEF w
  <2> QED BY <1>8, <1>9, <1>10, <2>1 DEF World
<1>12. seen \in SUBSET Deltas
  BY <1>3, <1>4
<1> HIDE DEF w, seen
<1>13. q \in Request
  <2>1. o.written + 1 \in Nat
    BY <1>3
  <2> QED BY <1>1, <1>11, <1>12, <2>1 DEF Request
<1>14. Sound(q, world'.rows, log', chronicle')
  <2>1. /\ q.at = "write" /\ q.written = k /\ q.draft = w
        /\ q.turn = o.turn /\ q.pass = o.pass
        /\ q.copies = o.copies /\ q.verdicts = o.verdicts
    BY <1>1, <1>2 DEF Request, k
  <2> HIDE DEF q
  <2>2. Batched(q, world.rows)
    BY <1>1, <1>2, <2>1 DEF Sound, Batched
  <2>3. Drafted(q)
    BY <1>4, <1>5, <1>8, <1>9, <1>10, <2>1 DEF Drafted
  <2>4. Numbered(q, log, chronicle)
    BY <1>1, <1>2, <2>1 DEF Sound, Numbered, Idle
  <2> QED BY <1>2, <2>2, <2>3, <2>4 DEF Sound
<1>15. req[r].at # Idle
  BY <1>2 DEF Idle
<1> HIDE DEF q
<1> QED BY <1>1, <1>2, <1>13, <1>14, <1>15, OneMoves, RowsAlone DEF IInv

LEMMA CommitStep ==
  ASSUME IInv, NEW r \in Requests, Commit(r)
  PROVE  IInv'
<1> DEFINE o == req[r]
           at == IF o.pass = 1 THEN "remember" ELSE "scan"
           q == [NoRequest EXCEPT !.at = at, !.turn = o.turn, !.pass = o.pass,
                                  !.seen = o.seen, !.left = o.left]
<1>1. /\ o \in Request /\ Sound(o, world.rows, log, chronicle)
      /\ attempts \in 0..MaxAttempts
  BY DEF IInv, TypeOK
<1>2. /\ o.at = "write" /\ world' = o.draft /\ req' = [req EXCEPT ![r] = q]
      /\ UNCHANGED <<chronicle, log, telemetry, attempts>>
  BY DEF Commit
<1>3. q \in Request
  <2>1. at \in Steps
    BY DEF Steps
  <2>2. /\ o.turn \in 0..MaxTurns /\ o.pass \in {1, 2}
        /\ o.seen \in SUBSET Deltas /\ o.left \in 0..MaxDeltas
    BY <1>1 DEF Request
  <2> HIDE DEF at
  <2> QED BY <2>1, <2>2, EmptyRequest DEF Request
<1>4. Sound(q, world'.rows, log', chronicle')
  <2>1. q.at = at /\ q.turn = o.turn /\ q.pass = o.pass
    BY EmptyRequest DEF NoRequest
  <2>2. q.at \in {"remember", "scan"} /\ (q.at = "scan" => o.pass = 2)
    BY <1>1, <2>1 DEF Request
  <2> HIDE DEF q
  <2>3. Numbered(q, log, chronicle)
    BY <1>1, <1>2, <2>1, <2>2 DEF Sound, Numbered, Idle
  <2>4. Batched(q, o.draft.rows) /\ Drafted(q)
    BY <2>2 DEF Batched, Drafted
  <2> QED BY <1>2, <2>3, <2>4 DEF Sound
<1>5. /\ o.draft \in World /\ PathTo(o.draft.rows.stage, o.draft.history)
      /\ Consistent(o.draft.facts)
  BY <1>1, <1>2 DEF Sound, Drafted, Request
<1>6. req[r].at # Idle
  BY <1>2 DEF Idle
<1> HIDE DEF q
<1>7. /\ req' \in [Requests -> Request] /\ OneAtATime'
      /\ \A s \in Requests : Sound(req'[s], world'.rows, log', chronicle')
  BY <1>2, <1>3, <1>4, <1>6, OneMoves
<1>8. TypeOK'
  BY <1>2, <1>5, <1>7 DEF IInv, TypeOK
<1>9. LeadLegal' /\ NoContradictions' /\ TurnsNumbered'
  BY <1>2, <1>5 DEF IInv, LeadLegal, NoContradictions, TurnsNumbered
<1> QED BY <1>7, <1>8, <1>9 DEF IInv

LEMMA RememberStep ==
  ASSUME IInv, NEW r \in Requests, Remember(r)
  PROVE  IInv'
<1> DEFINE o == req[r]
           q == [o EXCEPT !.at = "fade"]
<1>1. /\ o \in Request /\ Sound(o, world.rows, log, chronicle)
      /\ chronicle \in Seq(1..MaxTurns) /\ TypeOK
  BY DEF IInv, TypeOK
<1>2. /\ o.at = "remember" /\ chronicle' = Append(chronicle, o.turn)
      /\ req' = [req EXCEPT ![r] = q] /\ UNCHANGED <<world, log, telemetry, attempts>>
  BY DEF Remember, Goto
<1>3. o.turn \in 1..MaxTurns /\ o.turn = Len(log) + 1
  BY <1>1, <1>2 DEF Sound, Numbered, Idle
<1>4. /\ chronicle' \in Seq(1..MaxTurns)
      /\ \A k \in DOMAIN chronicle : k \in DOMAIN chronicle' /\ chronicle'[k] = chronicle[k]
      /\ \E k \in DOMAIN chronicle' : chronicle'[k] = o.turn
  <2>1. /\ chronicle' \in Seq(1..MaxTurns)
        /\ \A k \in DOMAIN chronicle : k \in DOMAIN chronicle' /\ chronicle'[k] = chronicle[k]
    BY <1>1, <1>2, <1>3
  <2>2. Len(chronicle) + 1 \in DOMAIN chronicle' /\ chronicle'[Len(chronicle) + 1] = o.turn
    BY <1>1, <1>2, <1>3
  <2> QED BY <2>1, <2>2
<1>5. q \in Request /\ q.at = "fade" /\ q.turn = o.turn
  BY <1>1 DEF Request, Steps
<1> HIDE DEF q
<1>6. Sound(q, world'.rows, log', chronicle')
  BY <1>2, <1>3, <1>4, <1>5 DEF Sound, Batched, Drafted, Numbered
<1>7. req[r].at # Idle
  BY <1>2 DEF Idle
<1>8. /\ req' \in [Requests -> Request] /\ OneAtATime'
      /\ \A s \in Requests : Sound(req'[s], world'.rows, log', chronicle')
  BY <1>2, <1>5, <1>6, <1>7, OneMoves
<1>9. TypeOK'
  BY <1>1, <1>2, <1>4, <1>8 DEF TypeOK
<1>10. LeadLegal' /\ NoContradictions'
  BY <1>2 DEF IInv, LeadLegal, NoContradictions
<1>11. TurnsNumbered'
  BY <1>2, <1>4 DEF IInv, TurnsNumbered
<1> QED BY <1>8, <1>9, <1>10, <1>11 DEF IInv

\* A number that fades does so toward zero.
LEMMA FadedInt ==
  ASSUME NEW x \in Int, NEW y \in Faded(x)
  PROVE  y \in Int /\ (x >= 0 => y \in 0..x) /\ (x < 0 => y \in x..0)
  BY DEF Faded, Low, High

LEMMA FadeMoodStep ==
  ASSUME IInv, NEW r \in Requests, FadeMood(r)
  PROVE  IInv'
<1> DEFINE o == req[r]
           q == [o EXCEPT !.at = "scan"]
<1>1. /\ o \in Request /\ Sound(o, world.rows, log, chronicle)
      /\ world \in World /\ TypeOK
  BY DEF IInv, TypeOK
<1>2. /\ o.at = "fade" /\ req' = [req EXCEPT ![r] = q]
      /\ UNCHANGED <<chronicle, log, telemetry, attempts>>
  BY DEF FadeMood, Goto
<1>3. PICK m \in Faded(world.rows.mood) : world' = [world EXCEPT !.rows.mood = m]
  BY DEF FadeMood
<1>4. /\ world' \in World /\ world'.history = world.history
      /\ world'.facts = world.facts /\ world'.rows.stage = world.rows.stage
  <2>1. world.rows \in Rows /\ world.rows.mood \in Int
    BY <1>1, RowFields DEF World
  <2>2. m \in Int
    BY <2>1, FadedInt
  <2>3. [world.rows EXCEPT !.mood = m] \in Rows
    BY <2>1, <2>2 DEF Rows
  <2>4. [world.rows EXCEPT !.mood = m].stage = world.rows.stage
    BY <2>1 DEF Rows
  <2> QED BY <1>1, <1>3, <2>3, <2>4 DEF World
<1>5. q \in Request /\ q.at = "scan" /\ q.turn = o.turn
  BY <1>1 DEF Request, Steps
<1> HIDE DEF q
<1>6. Sound(q, world'.rows, log', chronicle')
  BY <1>1, <1>2, <1>5, Remembered, OutsideBatch
<1>7. req[r].at # Idle
  BY <1>2 DEF Idle
<1>8. /\ req' \in [Requests -> Request] /\ OneAtATime'
      /\ \A s \in Requests : Sound(req'[s], world'.rows, log', chronicle')
  BY <1>2, <1>5, <1>6, <1>7, OneMoves
<1>9. TypeOK'
  BY <1>1, <1>2, <1>4, <1>8 DEF TypeOK
<1>10. LeadLegal' /\ NoContradictions' /\ TurnsNumbered'
  BY <1>2, <1>4 DEF IInv, LeadLegal, NoContradictions, TurnsNumbered
<1> QED BY <1>8, <1>9, <1>10 DEF IInv

LEMMA CorrectStep ==
  ASSUME IInv, NEW r \in Requests, Correct(r)
  PROVE  IInv'
<1> DEFINE o == req[r]
           q == [o EXCEPT !.at = "narrate", !.pass = 2]
<1>1. /\ o \in Request /\ Sound(o, world.rows, log, chronicle)
      /\ attempts \in 0..MaxAttempts
  BY DEF IInv, TypeOK
<1>2. /\ o.at = "scan" /\ req' = [req EXCEPT ![r] = q]
      /\ UNCHANGED <<world, chronicle, log, telemetry, attempts>>
  BY DEF Correct
<1>3. q \in Request /\ q.at = "narrate" /\ q.turn = o.turn
  BY <1>1 DEF Request, Steps
<1> HIDE DEF q
<1>4. Sound(q, world'.rows, log', chronicle')
  BY <1>1, <1>2, <1>3, Remembered, OutsideBatch
<1>5. req[r].at # Idle
  BY <1>2 DEF Idle
<1> QED BY <1>1, <1>2, <1>3, <1>4, <1>5, OneMoves, RowsAlone DEF IInv

LEMMA PassStep ==
  ASSUME IInv, NEW r \in Requests, Pass(r)
  PROVE  IInv'
<1> DEFINE o == req[r]
           q == [NoRequest EXCEPT !.at = "log", !.turn = o.turn]
<1>1. /\ o \in Request /\ Sound(o, world.rows, log, chronicle)
      /\ attempts \in 0..MaxAttempts
  BY DEF IInv, TypeOK
<1>2. /\ o.at = "scan" /\ req' = [req EXCEPT ![r] = q]
      /\ UNCHANGED <<world, chronicle, log, telemetry, attempts>>
  BY DEF Pass
<1>3. q \in Request /\ q.at = "log" /\ q.turn = o.turn
  <2>1. o.turn \in 0..MaxTurns /\ "log" \in Steps
    BY <1>1 DEF Request, Steps
  <2>2. q.at = "log" /\ q.turn = o.turn
    BY DEF NoRequest
  <2> QED BY <2>1, <2>2, EmptyRequest DEF Request
<1> HIDE DEF q
<1>4. Sound(q, world'.rows, log', chronicle')
  BY <1>1, <1>2, <1>3, Remembered, OutsideBatch
<1>5. req[r].at # Idle
  BY <1>2 DEF Idle
<1> QED BY <1>1, <1>2, <1>3, <1>4, <1>5, OneMoves, RowsAlone DEF IInv

LEMMA WriteLogStep ==
  ASSUME IInv, NEW r \in Requests, WriteLog(r)
  PROVE  IInv'
<1> DEFINE o == req[r]
           q == [o EXCEPT !.at = "meter"]
<1>1. /\ o \in Request /\ Sound(o, world.rows, log, chronicle)
      /\ world \in World /\ log \in Seq(1..MaxTurns) /\ TypeOK
  BY DEF IInv, TypeOK
<1>2. /\ o.at = "log" /\ log' = Append(log, o.turn) /\ req' = [req EXCEPT ![r] = q]
      /\ UNCHANGED <<chronicle, telemetry, attempts>>
  BY DEF WriteLog, Goto
<1>3. PICK a \in Faded(world.rows.slow), b \in Faded(world.rows.fast) :
        world' = [world EXCEPT !.rows.slow = a, !.rows.fast = b]
  BY DEF WriteLog
<1>4. /\ world' \in World /\ world'.history = world.history
      /\ world'.facts = world.facts /\ world'.rows.stage = world.rows.stage
  <2>1. world.rows \in Rows /\ world.rows.slow \in Int /\ world.rows.fast \in Int
    BY <1>1, RowFields DEF World
  <2>2. a \in Int /\ b \in Int
    BY <2>1, FadedInt
  <2>3. [world.rows EXCEPT !.slow = a, !.fast = b] \in Rows
    BY <2>1, <2>2 DEF Rows
  <2>4. [world.rows EXCEPT !.slow = a, !.fast = b].stage = world.rows.stage
    BY <2>1 DEF Rows
  <2> QED BY <1>1, <1>3, <2>3, <2>4 DEF World
<1>5. /\ o.turn \in 1..MaxTurns /\ o.turn = Len(log) + 1
      /\ \E k \in DOMAIN chronicle : chronicle[k] = o.turn
  BY <1>1, <1>2, Remembered
<1>6. log' \in Seq(1..MaxTurns) /\ TurnsNumbered'
  <2>1. log' \in Seq(1..MaxTurns)
    BY <1>1, <1>2, <1>5
  <2>2. ASSUME NEW i \in DOMAIN log'
        PROVE  log'[i] = i /\ \E k \in DOMAIN chronicle : chronicle[k] = i
    <3>1. CASE i \in DOMAIN log
      BY <1>1, <1>2, <1>5, <3>1 DEF IInv, TurnsNumbered
    <3>2. CASE i = Len(log) + 1
      BY <1>1, <1>2, <1>5, <3>2
    <3>3. i \in DOMAIN log \/ i = Len(log) + 1
      BY <1>1, <1>2, <1>5, <2>2
    <3> QED BY <3>1, <3>2, <3>3
  <2> QED BY <1>2, <2>1, <2>2 DEF TurnsNumbered
<1>7. q \in Request /\ q.at = "meter" /\ q.turn = o.turn
  BY <1>1 DEF Request, Steps
<1> HIDE DEF q
<1>8. Sound(q, world'.rows, log', chronicle')
  BY <1>5, <1>7 DEF Sound, Batched, Drafted, Numbered
<1>9. req[r].at # Idle
  BY <1>2 DEF Idle
<1>10. /\ req' \in [Requests -> Request] /\ OneAtATime'
       /\ \A s \in Requests : Sound(req'[s], world'.rows, log', chronicle')
  BY <1>2, <1>7, <1>8, <1>9, OneMoves
<1>11. TypeOK'
  BY <1>1, <1>2, <1>4, <1>6, <1>10 DEF TypeOK
<1>12. LeadLegal' /\ NoContradictions'
  BY <1>4 DEF IInv, LeadLegal, NoContradictions
<1> QED BY <1>6, <1>10, <1>11, <1>12 DEF IInv

LEMMA MeterStep ==
  ASSUME IInv, NEW r \in Requests, Meter(r)
  PROVE  IInv'
<1>1. /\ req[r].at = "meter" /\ telemetry' = Append(telemetry, req[r].turn)
      /\ req' = [req EXCEPT ![r] = NoRequest] /\ UNCHANGED <<world, chronicle, log, attempts>>
  BY DEF Meter, Finish
<1>2. req[r].turn \in 1..MaxTurns /\ TypeOK
  BY <1>1 DEF IInv, Sound, Numbered, Idle
<1>3. req[r].at # Idle /\ Sound(NoRequest, world'.rows, log', chronicle')
  BY <1>1, EmptyRequest, Resting DEF Idle
<1>4. /\ req' \in [Requests -> Request] /\ OneAtATime'
      /\ \A s \in Requests : Sound(req'[s], world'.rows, log', chronicle')
  BY <1>1, <1>3, EmptyRequest, OneMoves
<1>5. telemetry' \in Seq(1..MaxTurns)
  BY <1>1, <1>2 DEF TypeOK
<1>6. TypeOK'
  BY <1>1, <1>2, <1>4, <1>5 DEF TypeOK
<1>7. LeadLegal' /\ NoContradictions' /\ TurnsNumbered'
  BY <1>1 DEF IInv, LeadLegal, NoContradictions, TurnsNumbered
<1> QED BY <1>4, <1>6, <1>7 DEF IInv

LEMMA NextIInv == IInv /\ [Next]_vars => IInv'
<1> SUFFICES ASSUME IInv, [Next]_vars PROVE IInv'
  OBVIOUS
<1>1. CASE UNCHANGED vars
  BY <1>1 DEF vars, IInv, TypeOK, OneAtATime, LeadLegal, NoContradictions, TurnsNumbered
<1>2. ASSUME NEW r \in Requests, NarratorFails(r) \/ Crash(r)
      PROVE  IInv'
  BY <1>2, FinishStep DEF NarratorFails, Crash, Idle
<1>3. ASSUME NEW r \in Requests,
             \/ Begin(r) \/ Narrated(r) \/ Judge(r) \/ OpenTransaction(r) \/ Write(r)
             \/ Commit(r) \/ Remember(r) \/ FadeMood(r) \/ Correct(r) \/ Pass(r)
             \/ WriteLog(r) \/ Meter(r)
      PROVE  IInv'
  BY <1>3, BeginStep, NarratedStep, JudgeStep, OpenTransactionStep, WriteStep, CommitStep,
     RememberStep, FadeMoodStep, CorrectStep, PassStep, WriteLogStep, MeterStep
<1> QED BY <1>1, <1>2, <1>3 DEF Next

THEOREM Invariance == Spec => []IInv
<1>1. Init => IInv
  BY InitIInv
<1>2. IInv /\ [Next]_vars => IInv'
  BY NextIInv
<1> QED BY <1>1, <1>2, PTL DEF Spec

\* Every row and every request keeps its type (TypeOK).
THEOREM TypeCorrect == Spec => []TypeOK
<1>1. IInv => TypeOK
  BY DEF IInv
<1> QED BY <1>1, Invariance, PTL

\* A lead's history is a path of LEAD_TRANSITIONS to the stage it is in,
\* whatever deltas are proposed, in one batch or in several.
THEOREM LeadsStayLegal == Spec => []LeadLegal
<1>1. IInv => LeadLegal
  BY DEF IInv
<1> QED BY <1>1, Invariance, PTL

\* No fact contradicts one told before it.
THEOREM CanonConsistent == Spec => []NoContradictions
<1>1. IInv => NoContradictions
  BY DEF IInv
<1> QED BY <1>1, Invariance, PTL

\* The log numbers turns without gap or repetition, and the chronicle
\* remembers each, whatever fails and whenever it does.
THEOREM LogNumbered == Spec => []TurnsNumbered
<1>1. IInv => TurnsNumbered
  BY DEF IInv
<1> QED BY <1>1, Invariance, PTL

\* What a transaction commits is what the validator said, though it reads the
\* rows anew.
THEOREM CommitKeepsVerdicts == Spec => []VerdictsKept
<1>1. IInv => VerdictsKept
  <2> SUFFICES ASSUME IInv, NEW r \in Requests, req[r].at = "write",
                      req[r].written = Len(req[r].verdicts)
               PROVE  req[r].draft.rows = Copy(req[r])
    BY DEF VerdictsKept
  <2>1. Batched(req[r], world.rows) /\ Drafted(req[r])
    BY DEF IInv, Sound
  <2>2. Len(req[r].copies) = req[r].written + 1
    BY <2>1 DEF Batched
  <2>3. req[r].draft.rows = req[r].copies[req[r].written + 1]
    BY <2>1 DEF Drafted
  <2> QED BY <2>2, <2>3 DEF Copy
<1> QED BY <1>1, Invariance, PTL

-----------------------------------------------------------------------------
(***************************************************************************)
(* The sheet stays in range, if stat deltas name attributes only.          *)
(***************************************************************************)

Ranged(q) ==
    q.at \in {"judge", "write"} => \A i \in 1..Len(q.copies) : InRange(q.copies[i])

RInv == SheetInRange /\ \A r \in Requests : Ranged(req[r])

LEMMA NextRInv ==
  ASSUME AttributesOnly, IInv, RInv, [Next]_vars
  PROVE  RInv'
<1>0. /\ req \in [Requests -> Request] /\ world \in World
      /\ \A r \in Requests : Sound(req[r], world.rows, log, chronicle)
  BY DEF IInv, TypeOK
<1>1. CASE UNCHANGED vars
  BY <1>1 DEF vars, RInv, SheetInRange, Ranged
<1>2. ASSUME NEW r \in Requests,
             Begin(r) \/ NarratorFails(r) \/ Crash(r) \/ Remember(r) \/ Correct(r)
             \/ Pass(r) \/ Meter(r)
      PROVE  RInv'
  <2>1. SheetInRange'
    BY <1>2 DEF RInv, SheetInRange, Begin, NarratorFails, Crash, Remember, Correct, Pass, Meter
  <2>2. /\ req'[r].at \notin {"judge", "write"}
        /\ \A s \in Requests : s # r => req'[s] = req[s]
    <3>1. CASE Begin(r) \/ Pass(r)
      BY <1>0, <3>1 DEF Begin, Pass, NoRequest
    <3>2. CASE NarratorFails(r) \/ Crash(r) \/ Meter(r)
      BY <1>0, <3>2, EmptyRequest DEF NarratorFails, Crash, Meter, Finish, Idle
    <3>3. CASE Remember(r) \/ Correct(r)
      BY <1>0, <3>3 DEF Remember, Correct, Goto, Request
    <3> QED BY <1>2, <3>1, <3>2, <3>3
  <2> QED BY <2>1, <2>2 DEF RInv, Ranged
<1>3. ASSUME NEW r \in Requests, Narrated(r)
      PROVE  RInv'
  <2>1. SheetInRange'
    BY <1>3 DEF RInv, SheetInRange, Narrated
  <2>2. /\ req'[r].copies = <<world.rows>>
        /\ \A s \in Requests : s # r => req'[s] = req[s]
    BY <1>0, <1>3 DEF Narrated, Request
  <2>3. Ranged(req'[r])
    BY <2>2 DEF RInv, SheetInRange, Ranged
  <2> QED BY <2>1, <2>2, <2>3 DEF RInv, Ranged
<1>4. ASSUME NEW r \in Requests, Judge(r)
      PROVE  RInv'
  <2> DEFINE c == Copy(req[r])
  <2>1. SheetInRange' /\ req[r].at = "judge"
    BY <1>4 DEF RInv, SheetInRange, Judge
  <2>2. PICK d \in Deltas :
          /\ ~Refused(c, d)
          /\ req'[r].copies = Append(req[r].copies, Moved(c, d, Change(c, d)))
          /\ \A s \in Requests : s # r => req'[s] = req[s]
    BY <1>0, <1>4, JudgesOne DEF RefusedInBatch
  <2>3. /\ req[r].copies \in Seq(Rows) /\ Len(req[r].copies) > 0
        /\ c = req[r].copies[Len(req[r].copies)] /\ c \in Rows
    <3>1. req[r].copies \in Seq(Rows) /\ req[r].verdicts \in Seq(Verdict)
      BY <1>0 DEF Request
    <3>2. Len(req[r].copies) = Len(req[r].verdicts) + 1
      BY <1>0, <2>1 DEF Sound, Batched
    <3>3. Len(req[r].copies) > 0
      BY <3>1, <3>2
    <3> QED BY <3>1, <3>3 DEF Copy
  <2>4. \A i \in 1..Len(req[r].copies) : InRange(req[r].copies[i])
    BY <2>1 DEF RInv, Ranged
  <2> HIDE DEF c
  <2>5. InRange(Moved(c, d, Change(c, d))) /\ Moved(c, d, Change(c, d)) \in Rows
    <3>1. d \in Delta /\ (d.kind = "stat" => d.to = "might")
      BY TurnAssumption DEF AttributesOnly
    <3>2. InRange(c)
      BY <2>3, <2>4
    <3> QED BY <2>2, <2>3, <3>1, <3>2, MoveInRange, MovedRow, ChangeInt
  <2> DEFINE m == Moved(c, d, Change(c, d))
  <2> HIDE DEF m
  <2>6. \A i \in 1..Len(req'[r].copies) : InRange(req'[r].copies[i])
    <3>1. req'[r].copies = Append(req[r].copies, m) /\ InRange(m) /\ m \in Rows
      BY <2>2, <2>5 DEF m
    <3> QED BY <2>3, <2>4, <3>1
  <2> QED BY <2>1, <2>2, <2>6 DEF RInv, Ranged
<1>5. ASSUME NEW r \in Requests, OpenTransaction(r) \/ Write(r)
      PROVE  RInv'
  <2>1. SheetInRange'
    BY <1>5 DEF RInv, SheetInRange, OpenTransaction, Write
  <2>2. req[r].at \in {"judge", "write"}
    BY <1>5 DEF OpenTransaction, Write
  <2>3. /\ req'[r].copies = req[r].copies
        /\ \A s \in Requests : s # r => req'[s] = req[s]
    BY <1>0, <1>5, SMTT(30) DEF OpenTransaction, Write, Request
  <2> QED BY <2>1, <2>2, <2>3 DEF RInv, Ranged
<1>6. ASSUME NEW r \in Requests, Commit(r)
      PROVE  RInv'
  <2>1. req[r].at = "write" /\ req[r].written = Len(req[r].verdicts) /\ world' = req[r].draft
    BY <1>6 DEF Commit
  <2>2. /\ req[r].verdicts \in Seq(Verdict) /\ Len(req[r].copies) = Len(req[r].verdicts) + 1
        /\ req[r].draft.rows = req[r].copies[Len(req[r].copies)]
    BY <1>0, <2>1 DEF Sound, Batched, Drafted, Request
  <2>3. SheetInRange'
    BY <2>1, <2>2 DEF RInv, Ranged, SheetInRange
  <2>4. /\ req'[r].at \notin {"judge", "write"}
        /\ \A s \in Requests : s # r => req'[s] = req[s]
    BY <1>0, <1>6, EmptyRequest DEF Commit, NoRequest
  <2> QED BY <2>3, <2>4 DEF RInv, Ranged
<1>7. ASSUME NEW r \in Requests, FadeMood(r) \/ WriteLog(r)
      PROVE  RInv'
  <2>1. SheetInRange'
    <3>1. world.rows \in Rows /\ InRange(world.rows)
      BY <1>0 DEF World, RInv, SheetInRange
    <3>2. CASE FadeMood(r)
      <4>1. PICK m \in Faded(world.rows.mood) : world' = [world EXCEPT !.rows.mood = m]
        BY <3>2 DEF FadeMood
      <4>2. m \in -MoodBound..MoodBound
        BY <3>1, RowFields, FadedInt, Bounds DEF InRange
      <4>3. /\ world'.rows = [world.rows EXCEPT !.mood = m]
        BY <1>0, <4>1 DEF World
      <4> QED BY <3>1, <4>2, <4>3 DEF SheetInRange, InRange, Rows
    <3>3. CASE WriteLog(r)
      <4>1. PICK a \in Faded(world.rows.slow), b \in Faded(world.rows.fast) :
              world' = [world EXCEPT !.rows.slow = a, !.rows.fast = b]
        BY <3>3 DEF WriteLog
      <4>2. world'.rows = [world.rows EXCEPT !.slow = a, !.fast = b]
        BY <1>0, <4>1 DEF World
      <4> QED BY <3>1, <4>2 DEF SheetInRange, InRange, Rows
    <3> QED BY <1>7, <3>2, <3>3
  <2>2. /\ req'[r].at \notin {"judge", "write"}
        /\ \A s \in Requests : s # r => req'[s] = req[s]
    BY <1>0, <1>7, ZenonT(60) DEF FadeMood, WriteLog, Goto, Request
  <2> QED BY <2>1, <2>2 DEF RInv, Ranged
<1> QED BY <1>1, <1>2, <1>3, <1>4, <1>5, <1>6, <1>7 DEF Next

\* No overdraft, no hit points beyond the maximum: the validator's copies are
\* enough, and the commit need not look at the purse again, as long as a stat
\* delta does not name the purse or the hit points.
THEOREM SheetStaysInRange == AttributesOnly /\ Spec => []SheetInRange
<1>1. Init => RInv
  <2> SUFFICES ASSUME Init PROVE RInv
    OBVIOUS
  <2>1. InRange(world.rows)
    BY TurnAssumption, RulesAssumption DEF Init, Seeded, InRange
  <2>2. \A r \in Requests : req[r].at = Idle
    BY EmptyRequest DEF Init
  <2> QED BY <2>1, <2>2 DEF RInv, SheetInRange, Ranged, Idle
<1>2. AttributesOnly /\ IInv /\ RInv /\ [Next]_vars => RInv'
  BY NextRInv
<1>3. RInv => SheetInRange
  BY DEF RInv
<1>4. CASE AttributesOnly
  <2>1. IInv /\ RInv /\ [Next]_vars => RInv'
    BY <1>2, <1>4
  <2> QED BY <1>1, <1>3, <2>1, Invariance, PTL DEF Spec
<1>5. CASE ~AttributesOnly
  BY <1>5
<1> QED BY <1>4, <1>5

-----------------------------------------------------------------------------
(***************************************************************************)
(* A step of one request: the others rest.                                 *)
(***************************************************************************)

LEMMA OthersRest ==
  ASSUME IInv, NEW r \in Requests, req[r].at # Idle \/ Unoccupied,
         NEW s \in Requests, s # r
  PROVE  req[s].at = Idle
  BY DEF IInv, OneAtATime, Unoccupied

\* A step that does not leave its request in the middle of a batch.
LEMMA LeavesBatch ==
  ASSUME IInv, NEW r \in Requests,
         \/ Begin(r) \/ NarratorFails(r) \/ Crash(r) \/ Remember(r) \/ FadeMood(r)
         \/ Correct(r) \/ Pass(r) \/ WriteLog(r) \/ Meter(r) \/ Commit(r)
  PROVE  \A s \in Requests : req'[s].at \notin {"judge", "write"}
<1>0. req \in [Requests -> Request]
  BY DEF IInv, TypeOK
<1>1. /\ req'[r].at \notin {"judge", "write"}
      /\ \A s \in Requests : s # r => req'[s] = req[s]
  <2>1. CASE Begin(r) \/ Pass(r)
    BY <1>0, <2>1 DEF Begin, Pass, NoRequest
  <2>2. CASE NarratorFails(r) \/ Crash(r) \/ Meter(r)
    BY <1>0, <2>2, EmptyRequest DEF NarratorFails, Crash, Meter, Finish, Idle
  <2>3. CASE Remember(r) \/ FadeMood(r) \/ Correct(r) \/ WriteLog(r)
    BY <1>0, <2>3, ZenonT(60) DEF Remember, FadeMood, Correct, WriteLog, Goto, Request
  <2>4. CASE Commit(r)
    BY <1>0, <2>4, EmptyRequest DEF Commit, NoRequest
  <2> QED BY <2>1, <2>2, <2>3, <2>4
<1>2. req[r].at # Idle \/ Unoccupied
  BY DEF Begin, NarratorFails, Crash, Remember, FadeMood, Correct, Pass, WriteLog, Meter,
         Commit, Idle
<1>3. \A s \in Requests : s # r => req[s].at = Idle
  BY <1>2, OthersRest
<1> QED BY <1>1, <1>3 DEF Idle

-----------------------------------------------------------------------------
(***************************************************************************)
(* Bonds: no change that is let through carries one beyond its bound, or   *)
(* further out where it already stands beyond.                             *)
(***************************************************************************)

Within(w, rows) == Abs(Bond(w)) <= High(BondBound, Abs(Bond(rows)))

LEMMA SlackBounds ==
  ASSUME NEW bond \in Int, NEW n \in Int
  PROVE  /\ Slack(bond, n) \in Int
         /\ Abs(bond + Slack(bond, n)) <= High(BondBound, Abs(bond))
<1>1. BondBound \in Nat
  BY RulesAssumption
<1>2. CASE n > 0
  BY <1>1, <1>2 DEF Slack, Abs, High, Low
<1>3. CASE ~(n > 0)
  BY <1>1, <1>3 DEF Slack, Abs, High, Low
<1> QED BY <1>2, <1>3

\* A number added to a row of the ledger moves the bond by that number, a
\* number added to any other row does not move it.
LEMMA AddedBond ==
  ASSUME NEW w \in Rows, NEW f \in NumberFields, NEW n \in Int
  PROVE  Bond([w EXCEPT ![f] = @ + n]) = IF f \in DecayClasses THEN Bond(w) + n ELSE Bond(w)
<1>1. w.durable \in Int /\ w.slow \in Int /\ w.fast \in Int
  BY RowFields
<1> DEFINE m == [w EXCEPT ![f] = @ + n]
<1> SUFFICES Bond(m) = IF f \in DecayClasses THEN Bond(w) + n ELSE Bond(w)
  OBVIOUS
<1>2. CASE f = "durable"
  <2>1. m.durable = w.durable + n /\ m.slow = w.slow /\ m.fast = w.fast
    BY <1>2 DEF Rows
  <2> HIDE DEF m
  <2> QED BY <1>1, <1>2, <2>1 DEF Bond, DecayClasses
<1>3. CASE f = "slow"
  <2>1. m.durable = w.durable /\ m.slow = w.slow + n /\ m.fast = w.fast
    BY <1>3 DEF Rows
  <2> HIDE DEF m
  <2> QED BY <1>1, <1>3, <2>1 DEF Bond, DecayClasses
<1>4. CASE f = "fast"
  <2>1. m.durable = w.durable /\ m.slow = w.slow /\ m.fast = w.fast + n
    BY <1>4 DEF Rows
  <2> HIDE DEF m
  <2> QED BY <1>1, <1>4, <2>1 DEF Bond, DecayClasses
<1>5. CASE f \notin DecayClasses
  <2>1. m.durable = w.durable /\ m.slow = w.slow /\ m.fast = w.fast
    BY <1>5 DEF Rows, DecayClasses
  <2> HIDE DEF m
  <2> QED BY <1>5, <2>1 DEF Bond
<1> QED BY <1>2, <1>3, <1>4, <1>5 DEF DecayClasses

LEMMA MovedBond ==
  ASSUME NEW w \in Rows, NEW d \in Delta, d.kind # "relationship", NEW n \in Int
  PROVE  Bond(Moved(w, d, n)) = Bond(w)
<1>1. CASE d.kind \in Numeric
  <2> DEFINE f == Field(d, n)
  <2>1. f \in NumberFields /\ f \notin DecayClasses
    BY <1>1, FieldIsNumber, DeltaFields DEF Field, Numeric, DecayClasses
  <2>2. Moved(w, d, n) = [w EXCEPT ![Field(d, n)] = @ + n]
    BY <1>1 DEF Moved, Numeric
  <2> HIDE DEF f
  <2>3. Moved(w, d, n) = [w EXCEPT ![f] = @ + n]
    BY <2>2 DEF f
  <2>4. Bond([w EXCEPT ![f] = @ + n]) = Bond(w)
    BY <2>1, AddedBond
  <2> QED BY <2>3, <2>4, Zenon
<1>2. CASE d.kind \in Kinds \ Numeric
  BY <1>2 DEF Moved, Numeric, Kinds, Bond, Rows
<1> QED BY <1>1, <1>2, DeltaFields

LEMMA ChangedBond ==
  ASSUME NEW w \in Rows, NEW d \in Delta
  PROVE  Within(Moved(w, d, Change(w, d)), w)
<1>1. Bond(w) \in Int /\ BondBound \in Nat /\ Change(w, d) \in Int
  BY RowFields, RulesAssumption, ChangeInt
<1>2. CASE d.kind = "relationship"
  <2> DEFINE n == Change(w, d)
             f == Field(d, n)
             c == Clamp(d.n, -EventBound, EventBound)
  <2>1. n = Slack(Bond(w), c)
    BY <1>2, ChangeByKind, Zenon
  <2>2. c \in Int
    BY DeltaFields, Bounds, ClampInt
  <2> HIDE DEF n, c
  <2>3. Moved(w, d, n) = [w EXCEPT ![Field(d, n)] = @ + n]
    BY <1>2 DEF Moved, Numeric
  <2>4. f \in DecayClasses /\ f \in NumberFields
    BY <1>2, DeltaFields DEF Field, DecayClass, DecayClasses, NumberFields
  <2> HIDE DEF f
  <2>5. Bond(Moved(w, d, n)) = Bond(w) + n
    <3>1. Moved(w, d, n) = [w EXCEPT ![f] = @ + n]
      BY <2>3 DEF f
    <3>2. n \in Int
      BY <1>1 DEF n
    <3>3. Bond([w EXCEPT ![f] = @ + n]) = Bond(w) + n
      BY <2>4, <3>2, AddedBond
    <3> QED BY <3>1, <3>3, Zenon
  <2>6. Abs(Bond(w) + n) <= High(BondBound, Abs(Bond(w)))
    BY <1>1, <2>1, <2>2, SlackBounds
  <2> QED BY <2>5, <2>6 DEF Within, n
<1>3. CASE d.kind # "relationship"
  <2>1. Bond(Moved(w, d, Change(w, d))) = Bond(w)
    BY <1>1, <1>3, MovedBond
  <2> QED BY <1>1, <2>1 DEF Within, Abs, High
<1> QED BY <1>2, <1>3

LEMMA WithinChain ==
  ASSUME NEW u \in Rows, NEW v \in Rows, NEW w \in Rows, Within(u, v), Within(v, w)
  PROVE  Within(u, w)
<1>1. Bond(u) \in Int /\ Bond(v) \in Int /\ Bond(w) \in Int /\ BondBound \in Nat
  BY RowFields, RulesAssumption
<1> QED BY <1>1 DEF Within, Abs, High

\* Every running copy of a batch keeps its bonds within what the rows allow.
Bonded(q, rows) ==
    q.at \in {"judge", "write"} => \A i \in 1..Len(q.copies) : Within(q.copies[i], rows)

BInv == \A r \in Requests : Bonded(req[r], world.rows)

LEMMA NextBInv ==
  ASSUME IInv, BInv, [Next]_vars
  PROVE  BInv'
<1>0. /\ req \in [Requests -> Request] /\ world \in World
      /\ \A r \in Requests : Sound(req[r], world.rows, log, chronicle)
  BY DEF IInv, TypeOK
<1>1. CASE UNCHANGED vars
  BY <1>1 DEF vars, BInv, Bonded
<1>2. ASSUME NEW r \in Requests,
             \/ Begin(r) \/ NarratorFails(r) \/ Crash(r) \/ Remember(r) \/ FadeMood(r)
             \/ Correct(r) \/ Pass(r) \/ WriteLog(r) \/ Meter(r) \/ Commit(r)
      PROVE  BInv'
  BY <1>2, LeavesBatch DEF BInv, Bonded
<1>3. ASSUME NEW r \in Requests, Narrated(r) PROVE BInv'
  <2>1. /\ world' = world /\ world.rows \in Rows /\ req'[r].copies = <<world.rows>>
        /\ \A s \in Requests : s # r => req'[s] = req[s]
    BY <1>0, <1>3 DEF Narrated, Request, World
  <2>2. Within(world.rows, world.rows)
    BY <2>1, RowFields, RulesAssumption DEF Within, High, Abs
  <2>3. Bonded(req'[r], world'.rows)
    BY <2>1, <2>2 DEF Bonded
  <2> QED BY <2>1, <2>3 DEF BInv
<1>4. ASSUME NEW r \in Requests, Judge(r) PROVE BInv'
  <2> DEFINE c == Copy(req[r])
  <2>1. /\ req[r].at = "judge" /\ world' = world /\ world.rows \in Rows
    BY <1>0, <1>4 DEF Judge, World
  <2>2. PICK d \in Deltas :
          /\ req'[r].copies = Append(req[r].copies, Moved(c, d, Change(c, d)))
          /\ \A s \in Requests : s # r => req'[s] = req[s]
    BY <1>0, <1>4, JudgesOne
  <2>3. /\ req[r].copies \in Seq(Rows) /\ Len(req[r].copies) > 0
        /\ c = req[r].copies[Len(req[r].copies)] /\ c \in Rows
    <3>1. req[r].copies \in Seq(Rows) /\ req[r].verdicts \in Seq(Verdict)
      BY <1>0 DEF Request
    <3>2. Len(req[r].copies) = Len(req[r].verdicts) + 1
      BY <1>0, <2>1 DEF Sound, Batched
    <3>3. Len(req[r].copies) > 0
      BY <3>1, <3>2
    <3> QED BY <3>1, <3>3 DEF Copy
  <2>4. \A i \in 1..Len(req[r].copies) : Within(req[r].copies[i], world.rows)
    BY <2>1 DEF BInv, Bonded
  <2> DEFINE m == Moved(c, d, Change(c, d))
  <2>5. m \in Rows /\ Within(m, c) /\ Within(c, world.rows)
    <3>1. d \in Delta
      BY TurnAssumption
    <3> HIDE DEF c
    <3>2. Within(c, world.rows)
      BY <2>3, <2>4
    <3>3. Change(c, d) \in Int
      BY <2>3, <3>1, ChangeInt
    <3>4. Moved(c, d, Change(c, d)) \in Rows
      BY <2>3, <3>1, <3>3, MovedRow
    <3>5. Within(Moved(c, d, Change(c, d)), c)
      BY <2>3, <3>1, ChangedBond
    <3> QED BY <3>2, <3>4, <3>5
  <2> HIDE DEF m, c
  <2>6. Within(m, world.rows)
    BY <2>1, <2>3, <2>5, WithinChain
  <2>7. \A i \in 1..Len(req'[r].copies) : Within(req'[r].copies[i], world.rows)
    <3>1. req'[r].copies = Append(req[r].copies, m)
      BY <2>2 DEF m
    <3> QED BY <2>3, <2>4, <2>5, <2>6, <3>1
  <2> QED BY <2>1, <2>2, <2>7 DEF BInv, Bonded
<1>5. ASSUME NEW r \in Requests, OpenTransaction(r) \/ Write(r) PROVE BInv'
  <2>1. req[r].at \in {"judge", "write"} /\ world' = world
    BY <1>5 DEF OpenTransaction, Write
  <2>2. /\ req'[r].copies = req[r].copies
        /\ \A s \in Requests : s # r => req'[s] = req[s]
    BY <1>0, <1>5, SMTT(30) DEF OpenTransaction, Write, Request
  <2> QED BY <2>1, <2>2 DEF BInv, Bonded
<1> QED BY <1>1, <1>2, <1>3, <1>4, <1>5 DEF Next

\* No commit pushes a bond beyond its bound, or further out where the decay of
\* other rows has already carried it beyond, however many moves one batch makes.
THEOREM BondsStayPushed == Spec => BondPushed
<1>1. Init => BInv
  BY EmptyRequest DEF Init, BInv, Bonded, Idle
<1>2. IInv /\ BInv /\ [Next]_vars => BInv'
  BY NextBInv
<1>3. ASSUME NEW r \in Requests, IInv, BInv, Next, Commits(r)
      PROVE  Abs(Bond(world'.rows)) <= High(BondBound, Abs(Bond(world.rows)))
  <2>0. /\ req \in [Requests -> Request] /\ Sound(req[r], world.rows, log, chronicle)
        /\ req[r].at = "write"
    BY <1>3 DEF IInv, TypeOK, Commits
  <2>1. Commit(r)
    <3>1. PICK s \in Requests :
            \/ Begin(s) \/ Narrated(s) \/ NarratorFails(s)
            \/ Judge(s) \/ OpenTransaction(s) \/ Write(s) \/ Commit(s)
            \/ Remember(s) \/ FadeMood(s) \/ Correct(s) \/ Pass(s)
            \/ WriteLog(s) \/ Meter(s) \/ Crash(s)
      BY <1>3 DEF Next
    <3>2. req'[r].at \in {"remember", "scan"}
      BY <1>3 DEF Commits
    <3>3. CASE s = r
      <4>1. CASE Write(r)
        <5>1. req'[r].at = "write"
          BY <2>0, <4>1 DEF Write, Request
        <5> QED BY <3>2, <5>1
      <4>2. CASE Crash(r)
        <5>1. req'[r].at = Idle
          BY <2>0, <4>2, EmptyRequest DEF Crash, Finish
        <5> QED BY <3>2, <5>1 DEF Idle
      <4> QED BY <2>0, <3>1, <3>3, <4>1, <4>2
          DEF Begin, Narrated, NarratorFails, Judge, OpenTransaction, Remember, FadeMood,
              Correct, Pass, WriteLog, Meter, Idle
    <3>4. CASE s # r
      <4>1. req[s].at = Idle /\ ~Unoccupied
        BY <1>3, <2>0, <3>4, OthersRest DEF Unoccupied, Idle
      <4> QED BY <3>1, <4>1
          DEF Begin, Narrated, NarratorFails, Judge, OpenTransaction, Write, Commit, Remember,
              FadeMood, Correct, Pass, WriteLog, Meter, Crash, Idle
    <3> QED BY <3>3, <3>4
  <2>2. req[r].written = Len(req[r].verdicts) /\ world' = req[r].draft
    BY <2>1 DEF Commit
  <2>3. /\ req[r].verdicts \in Seq(Verdict) /\ Len(req[r].copies) = Len(req[r].verdicts) + 1
        /\ req[r].draft.rows = req[r].copies[Len(req[r].copies)]
    BY <2>0, <2>2 DEF Sound, Batched, Drafted, Request
  <2>4. Within(world'.rows, world.rows)
    BY <1>3, <2>0, <2>2, <2>3 DEF BInv, Bonded
  <2> QED BY <2>4 DEF Within
<1>4. IInv /\ BInv /\ [Next]_vars
        => [\A r \in Requests : Commits(r) =>
              Abs(Bond(world'.rows)) <= High(BondBound, Abs(Bond(world.rows)))]_vars
  BY <1>3
<1> QED BY <1>1, <1>2, <1>4, Invariance, PTL DEF Spec, BondPushed

-----------------------------------------------------------------------------
(***************************************************************************)
(* The fact rate: a turn adds no more facts than the limit, in all its     *)
(* passes and attempts together.                                           *)
(***************************************************************************)

One(b) == IF b THEN 1 ELSE 0

LEMMA SaidFinite ==
  ASSUME NEW facts \in Seq(Fact), NEW t
  PROVE  IsFiniteSet(SaidIn(facts, t)) /\ Cardinality(SaidIn(facts, t)) \in Nat
<1>1. SaidIn(facts, t) \in SUBSET (1..Len(facts))
  BY DEF SaidIn
<1>2. IsFiniteSet(1..Len(facts))
  BY FS_Interval
<1> QED BY <1>1, <1>2, FS_Subset, FS_CardinalityType

LEMMA OneMore ==
  ASSUME NEW S, IsFiniteSet(S), NEW x
  PROVE  Cardinality(S \cup {x}) \in Nat /\ Cardinality(S \cup {x}) <= Cardinality(S) + 1
<1>1. IsFiniteSet(S \cup {x}) /\ Cardinality(S) \in Nat
  BY FS_AddElement, FS_CardinalityType
<1>2. Cardinality(S \cup {x}) = IF x \in S THEN Cardinality(S) ELSE Cardinality(S) + 1
  BY FS_AddElement
<1>3. Cardinality(S \cup {x}) \in Nat
  BY <1>1, FS_CardinalityType
<1> QED BY <1>1, <1>2, <1>3

LEMMA StillReinforced ==
  ASSUME NEW told, NEW more, told \subseteq more, NEW said, Reinforces(said, told)
  PROVE  Reinforces(said, more)
  BY DEF Reinforces

\* A statement that is written adds one fact to its turn at most, none when
\* it reinforces.
LEMMA FactsCount ==
  ASSUME NEW facts \in Seq(Fact), NEW said \in Statements, NEW turn \in 1..MaxTurns,
         NEW t \in 1..MaxTurns
  PROVE  LET g == FactsWith(facts, said, turn) IN
         /\ g \in Seq(Fact)
         /\ Told(facts) \subseteq Told(g)
         /\ Cardinality(SaidIn(g, t)) <=
              Cardinality(SaidIn(facts, t))
                + One(t = turn /\ ~Reinforces(said, Told(facts)))
<1> DEFINE f == [said |-> said, turn |-> turn]
           g == Append(facts, f)
<1>0. IsFiniteSet(SaidIn(facts, t)) /\ Cardinality(SaidIn(facts, t)) \in Nat
  BY SaidFinite
<1>1. CASE Clashes(said, facts) \/ Reinforces(said, Told(facts))
  BY <1>0, <1>1 DEF FactsWith, One
<1>2. CASE ~(Clashes(said, facts) \/ Reinforces(said, Told(facts)))
  <2>1. FactsWith(facts, said, turn) = g
    BY <1>2 DEF FactsWith
  <2>2. /\ DOMAIN g = 1..Len(facts) + 1 /\ g[Len(facts) + 1].turn = turn
        /\ \A i \in 1..Len(facts) : g[i] = facts[i]
        /\ DOMAIN facts = 1..Len(facts) /\ Len(facts) \in Nat
    BY DEF Fact
  <2>2a. g \in Seq(Fact)
    BY DEF Fact
  <2> HIDE DEF g
  <2>3. Told(facts) \subseteq Told(g)
    BY <2>2 DEF Told
  <2>4. SaidIn(g, t) = IF t = turn THEN SaidIn(facts, t) \cup {Len(facts) + 1}
                       ELSE SaidIn(facts, t)
    BY <2>2 DEF SaidIn
  <2>5. Cardinality(SaidIn(g, t)) <=
          Cardinality(SaidIn(facts, t)) + One(t = turn)
    <3>1. CASE t = turn
      <4>1. Cardinality(SaidIn(g, t)) <= Cardinality(SaidIn(facts, t)) + 1
        <5>1. SaidIn(g, t) = SaidIn(facts, t) \cup {Len(facts) + 1}
          BY <2>4, <3>1
        <5> QED BY <1>0, <5>1, OneMore
      <4> QED BY <3>1, <4>1 DEF One
    <3>2. CASE t # turn
      BY <1>0, <2>4, <3>2 DEF One
    <3> QED BY <3>1, <3>2
  <2> QED BY <1>2, <2>1, <2>2a, <2>3, <2>5 DEF One
<1> QED BY <1>1, <1>2

\* The verdicts that will add a fact: those that do not reinforce one stored.
Fresh(verdicts, facts) ==
    {i \in 1..Len(verdicts) :
        /\ verdicts[i].delta.kind = "fact"
        /\ ~Reinforces(verdicts[i].delta.to, Told(facts))}

Entered(q, facts) == {i \in Fresh(q.verdicts, facts) : i <= q.written}

LEMMA FreshFinite ==
  ASSUME NEW verdicts \in Seq(Verdict), NEW facts, NEW T \in SUBSET Fresh(verdicts, facts)
  PROVE  /\ IsFiniteSet(T) /\ Cardinality(T) \in Nat
         /\ Cardinality(T) <= Cardinality(Fresh(verdicts, facts))
         /\ Cardinality(Fresh(verdicts, facts)) \in Nat
<1>1. Fresh(verdicts, facts) \in SUBSET (1..Len(verdicts))
  BY DEF Fresh
<1>2. IsFiniteSet(1..Len(verdicts))
  BY FS_Interval
<1>3. IsFiniteSet(Fresh(verdicts, facts))
  BY <1>1, <1>2, FS_Subset
<1> QED BY <1>3, FS_Subset, FS_CardinalityType

LEMMA FreshGrows ==
  ASSUME NEW verdicts \in Seq(Verdict), NEW v \in Verdict, NEW facts
  PROVE  Cardinality(Fresh(Append(verdicts, v), facts)) <=
           Cardinality(Fresh(verdicts, facts))
             + One(v.delta.kind = "fact" /\ ~Reinforces(v.delta.to, Told(facts)))
<1> DEFINE g == Append(verdicts, v)
           S == Fresh(verdicts, facts)
<1>1. /\ Len(g) = Len(verdicts) + 1 /\ g[Len(verdicts) + 1] = v /\ Len(verdicts) \in Nat
      /\ \A i \in 1..Len(verdicts) : g[i] = verdicts[i]
  OBVIOUS
<1> HIDE DEF g
<1>2. IsFiniteSet(S) /\ Cardinality(S) \in Nat
  BY FreshFinite
<1>3. CASE v.delta.kind = "fact" /\ ~Reinforces(v.delta.to, Told(facts))
  <2>1. Fresh(g, facts) = S \cup {Len(verdicts) + 1}
    BY <1>1, <1>3 DEF Fresh
  <2> HIDE DEF S
  <2>2. Cardinality(Fresh(g, facts)) <= Cardinality(S) + 1
    BY <1>2, <2>1, OneMore
  <2> QED BY <1>3, <2>2 DEF One, g, S
<1>4. CASE ~(v.delta.kind = "fact" /\ ~Reinforces(v.delta.to, Told(facts)))
  <2>1. Fresh(g, facts) = S
    BY <1>1, <1>4 DEF Fresh
  <2> HIDE DEF S
  <2>2. Cardinality(Fresh(g, facts)) <= Cardinality(S) + 0
    BY <1>2, <2>1
  <2> QED BY <1>4, <2>2 DEF One, g, S
<1> QED BY <1>3, <1>4

\* A batch leaves room for the facts it has let through; a draft holds of each
\* turn what is stored, and of its own what the batch has written since.
Counted(q, facts) ==
    /\ q.at \in {"judge", "write"} =>
         /\ Cardinality(SaidIn(facts, q.turn)) + Len(q.new) <= FactLimit
         /\ Cardinality(Fresh(q.verdicts, facts)) <= Len(q.new)
    /\ q.at = "write" =>
         /\ Told(facts) \subseteq Told(q.draft.facts)
         /\ \A t \in 1..MaxTurns :
              Cardinality(SaidIn(q.draft.facts, t)) <=
                Cardinality(SaidIn(facts, t))
                  + (IF t = q.turn THEN Cardinality(Entered(q, facts)) ELSE 0)

FInv == FactRate /\ \A r \in Requests : Counted(req[r], world.facts)

LEMMA JudgeCounts ==
  ASSUME IInv, FInv, NEW r \in Requests, Judge(r)
  PROVE  Counted(req'[r], world.facts)
<1> DEFINE o == req[r]
           F == world.facts
<1>1. /\ req \in [Requests -> Request] /\ o \in Request /\ F \in Seq(Fact)
      /\ o.at = "judge" /\ Counted(o, F)
  BY DEF IInv, TypeOK, World, FInv, Judge
<1>2. PICK d \in Deltas :
        /\ d.kind = "fact" => FactFits(o, d.to)
        /\ req' = [req EXCEPT
                ![r].verdicts = Append(@, [delta |-> d, n |-> Change(Copy(o), d)]),
                ![r].copies = Append(@, Moved(Copy(o), d, Change(Copy(o), d))),
                ![r].new = IF d.kind = "fact" THEN Accounted(o, d.to) ELSE @,
                ![r].left = @ - 1]
  BY DEF Judge, Unapplied
<1> DEFINE v == [delta |-> d, n |-> Change(Copy(o), d)]
           new == IF d.kind = "fact" THEN Accounted(o, d.to) ELSE o.new
<1>3. v \in Verdict /\ v.delta = d
  <2>1. /\ o.copies \in Seq(Rows) /\ Len(o.copies) = Len(o.verdicts) + 1
        /\ o.verdicts \in Seq(Verdict)
    BY <1>1 DEF IInv, Sound, Batched, Request
  <2>2. Copy(o) \in Rows
    BY <2>1 DEF Copy
  <2>3. Change(Copy(o), d) \in Int
    BY <2>2, ChangeInt, TurnAssumption
  <2> QED BY <2>3 DEF Verdict
<1>4. /\ req'[r].at = "judge" /\ req'[r].turn = o.turn
      /\ req'[r].new = new /\ req'[r].verdicts = Append(o.verdicts, v)
  BY <1>1, <1>2 DEF Request
<1>5. /\ o.verdicts \in Seq(Verdict) /\ o.new \in Seq(Statements)
      /\ Cardinality(SaidIn(F, o.turn)) \in Nat /\ FactLimit \in Nat
      /\ Cardinality(Fresh(o.verdicts, F)) \in Nat
  BY <1>1, SaidFinite, FreshFinite, TurnAssumption DEF Request
<1>6. /\ Cardinality(SaidIn(F, o.turn)) + Len(o.new) <= FactLimit
      /\ Cardinality(Fresh(o.verdicts, F)) <= Len(o.new)
  BY <1>1 DEF Counted
<1>7. Cardinality(Fresh(Append(o.verdicts, v), F)) <=
        Cardinality(Fresh(o.verdicts, F)) + One(d.kind = "fact" /\ ~Reinforces(d.to, Told(F)))
  BY <1>3, <1>5, FreshGrows
<1>7a. Cardinality(Fresh(Append(o.verdicts, v), F)) \in Nat
  <2>1. Append(o.verdicts, v) \in Seq(Verdict)
    BY <1>3, <1>5
  <2> QED BY <2>1, FreshFinite
<1> HIDE DEF v
<1>8. CASE d.kind = "fact" /\ ~Reinforces(d.to, Told(F))
  <2>1. RoomForFact(o) /\ new = Append(o.new, d.to) /\ d.to \in Statements
    BY <1>2, <1>8, DeltaFields, TurnAssumption DEF FactFits, Accounted
  <2>2. Len(new) = Len(o.new) + 1 /\ Len(o.new) \in Nat
    BY <1>5, <2>1
  <2>3. Cardinality(SaidIn(F, o.turn)) + Len(o.new) < FactLimit
    BY <2>1 DEF RoomForFact
  <2> HIDE DEF new
  <2>4. Cardinality(SaidIn(F, o.turn)) + Len(new) <= FactLimit
    BY <1>5, <2>2, <2>3
  <2>5. Cardinality(Fresh(Append(o.verdicts, v), F)) <= Len(new)
    BY <1>5, <1>6, <1>7, <1>7a, <1>8, <2>2 DEF One
  <2> QED BY <1>4, <2>4, <2>5 DEF Counted
<1>9. CASE ~(d.kind = "fact" /\ ~Reinforces(d.to, Told(F)))
  <2>1. new = o.new
    BY <1>9 DEF Accounted
  <2>2. Cardinality(Fresh(Append(o.verdicts, v), F)) <= Len(o.new)
    BY <1>5, <1>6, <1>7, <1>7a, <1>9 DEF One
  <2> QED BY <1>4, <1>6, <2>1, <2>2 DEF Counted
<1> QED BY <1>8, <1>9

LEMMA WriteCounts ==
  ASSUME IInv, FInv, NEW r \in Requests, Write(r)
  PROVE  Counted(req'[r], world.facts)
<1> DEFINE o == req[r]
           F == world.facts
           k == o.written + 1
           v == o.verdicts[k]
           said == v.delta.to
           D == o.draft.facts
           E == Draft(o.draft, v, o.turn).facts
<1>1. /\ req \in [Requests -> Request] /\ o \in Request /\ F \in Seq(Fact)
      /\ o.at = "write" /\ Counted(o, F) /\ o.written < Len(o.verdicts)
      /\ o.turn \in 1..MaxTurns
  BY DEF IInv, TypeOK, World, FInv, Write, Sound, Numbered, Idle
<1>2. /\ req'[r].at = "write" /\ req'[r].turn = o.turn /\ req'[r].new = o.new
      /\ req'[r].verdicts = o.verdicts /\ req'[r].written = k
      /\ req'[r].draft = Draft(o.draft, v, o.turn)
  BY <1>1 DEF Write, Request
<1>3. /\ o.verdicts \in Seq(Verdict) /\ o.written \in Nat /\ D \in Seq(Fact)
      /\ k \in 1..Len(o.verdicts) /\ v \in Verdict
  BY <1>1 DEF Request, World
<1>4. /\ Told(F) \subseteq Told(D)
      /\ \A t \in 1..MaxTurns :
           Cardinality(SaidIn(D, t)) <=
             Cardinality(SaidIn(F, t))
               + (IF t = o.turn THEN Cardinality(Entered(o, F)) ELSE 0)
  BY <1>1 DEF Counted
<1>5. E = IF v.delta.kind = "fact" THEN FactsWith(D, said, o.turn) ELSE D
  BY DEF Draft
<1>6. v.delta.kind = "fact" => said \in Statements
  <2>1. v.delta \in Delta
    BY <1>3, TurnAssumption DEF Verdict
  <2> QED BY <2>1, DeltaFields
<1> HIDE DEF E, D, said
<1>7. ASSUME NEW t \in 1..MaxTurns
      PROVE  /\ Told(D) \subseteq Told(E)
             /\ E \in Seq(Fact)
             /\ Cardinality(SaidIn(E, t)) <=
                  Cardinality(SaidIn(D, t))
                    + One(t = o.turn /\ v.delta.kind = "fact" /\ ~Reinforces(said, Told(D)))
  <2>1. CASE v.delta.kind = "fact"
    <3>1. E \in Seq(Fact)
      BY <1>1, <1>3, <1>5, <1>6, <2>1, FactsCount
    <3>2. E = FactsWith(D, said, o.turn) /\ said \in Statements
      BY <1>5, <1>6, <2>1
    <3>3. /\ Told(D) \subseteq Told(E)
          /\ Cardinality(SaidIn(E, t)) <=
                  Cardinality(SaidIn(D, t)) + One(t = o.turn /\ ~Reinforces(said, Told(D)))
      BY <1>1, <1>3, <3>2, FactsCount
    <3> QED BY <2>1, <3>1, <3>3
  <2>2. CASE v.delta.kind # "fact"
    <3>1. E = D /\ Cardinality(SaidIn(D, t)) \in Nat
      BY <1>3, <1>5, <2>2, SaidFinite
    <3> QED BY <1>3, <2>2, <3>1 DEF One
  <2> QED BY <2>1, <2>2
<1>8. Cardinality(Entered(req'[r], F)) >=
        Cardinality(Entered(o, F))
          + One(v.delta.kind = "fact" /\ ~Reinforces(said, Told(D)))
      /\ Cardinality(Entered(o, F)) \in Nat /\ Cardinality(Entered(req'[r], F)) \in Nat
  <2> DEFINE W == Entered(o, F)
             W1 == Entered(req'[r], F)
  <2>1. W \in SUBSET Fresh(o.verdicts, F) /\ W1 \in SUBSET Fresh(o.verdicts, F)
    BY <1>2 DEF Entered
  <2>2. IsFiniteSet(W) /\ Cardinality(W) \in Nat /\ IsFiniteSet(W1) /\ Cardinality(W1) \in Nat
    BY <1>3, <2>1, FreshFinite
  <2>3. W \subseteq W1 /\ k \notin W
    BY <1>2, <1>3 DEF Entered, Fresh
  <2>4. CASE v.delta.kind = "fact" /\ ~Reinforces(said, Told(D))
    <3>1. ~Reinforces(said, Told(F))
      BY <1>4, <2>4, StillReinforced
    <3>2. k \in Fresh(o.verdicts, F)
      BY <1>3, <2>4, <3>1 DEF Fresh, said
    <3>3. W \cup {k} \in SUBSET W1
      BY <1>2, <1>3, <2>3, <3>2 DEF Entered
    <3> HIDE DEF W, W1, k
    <3>4. Cardinality(W \cup {k}) = Cardinality(W) + 1
      BY <2>2, <2>3, FS_AddElement
    <3>5. Cardinality(W \cup {k}) <= Cardinality(W1)
      BY <2>2, <3>3, FS_Subset
    <3> QED BY <2>2, <2>4, <3>4, <3>5 DEF One, W, W1
  <2>5. CASE ~(v.delta.kind = "fact" /\ ~Reinforces(said, Told(D)))
    <3> HIDE DEF W, W1
    <3>1. Cardinality(W) <= Cardinality(W1)
      BY <2>2, <2>3, FS_Subset
    <3> QED BY <2>2, <2>5, <3>1 DEF One, W, W1
  <2> QED BY <2>4, <2>5
<1>9. ASSUME NEW t \in 1..MaxTurns
      PROVE  Cardinality(SaidIn(E, t)) <=
               Cardinality(SaidIn(F, t))
                 + (IF t = o.turn THEN Cardinality(Entered(req'[r], F)) ELSE 0)
  <2>1. /\ Cardinality(SaidIn(E, t)) \in Nat /\ Cardinality(SaidIn(D, t)) \in Nat
        /\ Cardinality(SaidIn(F, t)) \in Nat
    BY <1>1, <1>3, <1>7, SaidFinite
  <2>2. CASE t = o.turn
    BY <1>4, <1>7, <1>8, <2>1, <2>2, SMTT(30) DEF One
  <2>3. CASE t # o.turn
    BY <1>4, <1>7, <2>1, <2>3 DEF One
  <2> QED BY <2>2, <2>3
<1>10. Told(F) \subseteq Told(E)
  <2>1. Told(D) \subseteq Told(E)
    BY <1>1, <1>7
  <2> QED BY <1>4, <2>1
<1>11. req'[r].draft.facts = E
  BY <1>2 DEF E
<1>12. /\ Cardinality(SaidIn(F, o.turn)) + Len(o.new) <= FactLimit
       /\ Cardinality(Fresh(o.verdicts, F)) <= Len(o.new)
  BY <1>1 DEF Counted
<1> HIDE DEF k, v, F
<1> QED BY <1>2, <1>9, <1>10, <1>11, <1>12 DEF Counted, F

LEMMA NextFInv ==
  ASSUME IInv, FInv, [Next]_vars
  PROVE  FInv'
<1>0. /\ req \in [Requests -> Request] /\ world \in World /\ world.facts \in Seq(Fact)
  BY DEF IInv, TypeOK, World
<1>1. CASE UNCHANGED vars
  BY <1>1 DEF vars, FInv, FactRate, Counted
<1>2. ASSUME NEW r \in Requests,
             \/ Begin(r) \/ NarratorFails(r) \/ Crash(r) \/ Remember(r) \/ FadeMood(r)
             \/ Correct(r) \/ Pass(r) \/ WriteLog(r) \/ Meter(r)
      PROVE  FInv'
  <2>1. world'.facts = world.facts
    <3>1. CASE FadeMood(r)
      BY <1>0, <3>1 DEF FadeMood, World
    <3>2. CASE WriteLog(r)
      BY <1>0, <3>2 DEF WriteLog, World
    <3> QED BY <1>2, <3>1, <3>2
        DEF Begin, NarratorFails, Crash, Remember, Correct, Pass, Meter
  <2>2. \A s \in Requests : req'[s].at \notin {"judge", "write"}
    BY <1>2, LeavesBatch
  <2> QED BY <2>1, <2>2 DEF FInv, FactRate, Counted
<1>3. ASSUME NEW r \in Requests, Commit(r) PROVE FInv'
  <2> DEFINE o == req[r]
             F == world.facts
  <2>1. /\ o \in Request /\ o.at = "write" /\ Counted(o, F) /\ world' = o.draft
    BY <1>0, <1>3 DEF Commit, FInv
  <2>2. ASSUME NEW t \in 1..MaxTurns
        PROVE  Cardinality(SaidIn(o.draft.facts, t)) <= FactLimit
    <3>1. /\ Cardinality(SaidIn(o.draft.facts, t)) <=
               Cardinality(SaidIn(F, t))
                 + (IF t = o.turn THEN Cardinality(Entered(o, F)) ELSE 0)
          /\ Cardinality(SaidIn(F, o.turn)) + Len(o.new) <= FactLimit
          /\ Cardinality(Fresh(o.verdicts, F)) <= Len(o.new)
          /\ Cardinality(SaidIn(F, t)) <= FactLimit
      BY <2>1 DEF Counted, FInv, FactRate
    <3>2. /\ Cardinality(SaidIn(o.draft.facts, t)) \in Nat
          /\ Cardinality(SaidIn(F, t)) \in Nat /\ Len(o.new) \in Nat /\ FactLimit \in Nat
      <4>1. o.draft.facts \in Seq(Fact) /\ F \in Seq(Fact) /\ Len(o.new) \in Nat
        BY <1>0, <2>1 DEF Request, World
      <4> HIDE DEF o, F
      <4> QED BY <4>1, SaidFinite, TurnAssumption
    <3>3. /\ Cardinality(Entered(o, F)) \in Nat
          /\ Cardinality(Entered(o, F)) <= Cardinality(Fresh(o.verdicts, F))
          /\ Cardinality(Fresh(o.verdicts, F)) \in Nat
      <4>1. Entered(o, F) \in SUBSET Fresh(o.verdicts, F) /\ o.verdicts \in Seq(Verdict)
        BY <2>1 DEF Entered, Request
      <4> QED BY <4>1, FreshFinite
    <3>4. CASE t = o.turn
      BY <3>1, <3>2, <3>3, <3>4
    <3>5. CASE t # o.turn
      BY <3>1, <3>2, <3>5
    <3> QED BY <3>4, <3>5
  <2>3. FactRate'
    BY <2>1, <2>2 DEF FactRate
  <2>4. \A s \in Requests : req'[s].at \notin {"judge", "write"}
    BY <1>3, LeavesBatch
  <2> QED BY <2>3, <2>4 DEF FInv, Counted
<1>4. ASSUME NEW r \in Requests, Narrated(r) \/ Judge(r) \/ OpenTransaction(r) \/ Write(r),
             Counted(req'[r], world.facts)
      PROVE  FInv'
  <2>1. world' = world /\ \A s \in Requests : s # r => req'[s] = req[s]
    BY <1>0, <1>4 DEF Narrated, Judge, OpenTransaction, Write
  <2> QED BY <1>4, <2>1 DEF FInv, FactRate
<1>5. ASSUME NEW r \in Requests, Narrated(r) PROVE FInv'
  <2>1. /\ req'[r].at = "judge" /\ req'[r].new = <<>> /\ req'[r].verdicts = <<>>
        /\ req'[r].turn = req[r].turn /\ req[r].turn \in 1..MaxTurns
    BY <1>0, <1>5 DEF Narrated, Request, IInv, Sound, Numbered, Idle
  <2>2. Fresh(<<>>, world.facts) = {}
    BY DEF Fresh
  <2>3. Cardinality(Fresh(<<>>, world.facts)) = 0
    BY <2>2, FS_EmptySet
  <2>4. Cardinality(SaidIn(world.facts, req[r].turn)) + 0 <= FactLimit
    BY <1>0, <2>1, SaidFinite, TurnAssumption DEF FInv, FactRate
  <2>5. Counted(req'[r], world.facts)
    BY <2>1, <2>3, <2>4 DEF Counted
  <2> QED BY <1>4, <1>5, <2>5
<1>6. ASSUME NEW r \in Requests, Judge(r) PROVE FInv'
  BY <1>4, <1>6, JudgeCounts
<1>7. ASSUME NEW r \in Requests, OpenTransaction(r) PROVE FInv'
  <2> DEFINE F == world.facts
  <2>1. /\ req'[r].at = "write" /\ req'[r].new = req[r].new
        /\ req'[r].verdicts = req[r].verdicts
        /\ req'[r].turn = req[r].turn /\ req'[r].draft = world /\ req'[r].written = 0
        /\ req[r].at = "judge" /\ Counted(req[r], F)
    BY <1>0, <1>7 DEF OpenTransaction, Request, FInv
  <2>2. Entered(req'[r], F) = {}
    BY <2>1 DEF Entered, Fresh
  <2>3. Cardinality(Entered(req'[r], F)) = 0
    BY <2>2, FS_EmptySet
  <2>4. \A t \in 1..MaxTurns : Cardinality(SaidIn(F, t)) \in Nat
    BY <1>0, SaidFinite
  <2> HIDE DEF F
  <2>5. \A t \in 1..MaxTurns :
          Cardinality(SaidIn(F, t)) <=
            Cardinality(SaidIn(F, t))
              + (IF t = req[r].turn THEN Cardinality(Entered(req'[r], F)) ELSE 0)
    BY <2>3, <2>4
  <2>6. req'[r].draft.facts = F
    BY <2>1 DEF F
  <2>7. Counted(req'[r], F)
    BY <2>1, <2>5, <2>6 DEF Counted
  <2> QED BY <1>4, <1>7, <2>7 DEF F
<1>8. ASSUME NEW r \in Requests, Write(r) PROVE FInv'
  BY <1>4, <1>8, WriteCounts
<1> QED BY <1>1, <1>2, <1>3, <1>5, <1>6, <1>7, <1>8 DEF Next

LEMMA FactRateInvariance == Spec => []FInv
<1>1. Init => FInv
  <2> SUFFICES ASSUME Init PROVE FInv
    OBVIOUS
  <2>1. world.facts = <<>> /\ \A r \in Requests : req[r].at = Idle
    BY EmptyRequest DEF Init, Seeded
  <2>2. \A t : SaidIn(<<>>, t) = {}
    BY DEF SaidIn
  <2>3. Cardinality({}) = 0
    BY FS_EmptySet
  <2>4. FactLimit \in Nat
    BY TurnAssumption
  <2>5. \A t : Cardinality(SaidIn(world.facts, t)) = 0
    BY <2>1, <2>2, <2>3
  <2>6. FactRate
    BY <2>4, <2>5 DEF FactRate
  <2>7. \A r \in Requests : Counted(req[r], world.facts)
    BY <2>1 DEF Counted, Idle
  <2> QED BY <2>6, <2>7 DEF FInv
<1>2. IInv /\ FInv /\ [Next]_vars => FInv'
  BY NextFInv
<1> QED BY <1>1, <1>2, Invariance, PTL DEF Spec

\* A turn adds so many facts and no more: both passes of the narrator, and
\* every attempt at a turn that failed before it was logged, counted together.
THEOREM FactRateKept == Spec => []FactRate
<1>1. FInv => FactRate
  BY DEF FInv
<1> QED BY <1>1, FactRateInvariance, PTL

-----------------------------------------------------------------------------
(***************************************************************************)
(* The abstract campaign.  What more its refinement needs: the batch of    *)
(* the correction is new, its facts are harmless wherever they are written *)
(* and the telemetry follows the log.                                      *)
(***************************************************************************)

\* The batch repeats nothing of the one before it, and the first has applied
\* just what it has written.
Unrepeated(q) ==
    /\ q.at \in {"judge", "write"} =>
         \A i \in 1..Len(q.verdicts) : q.verdicts[i].delta \notin Before(q)
    /\ q.pass = 1 /\ q.at \in {"narrate", "judge", "write"} => q.seen = InHand(q)

\* A fact that is let through contradicts nothing stored and nothing that will
\* have entered before it; the draft tells no more than these two.
Harmless(q, facts) ==
    /\ q.at \in {"judge", "write"} =>
         /\ \A i \in Fresh(q.verdicts, facts) :
               \E k \in 1..Len(q.new) : q.new[k] = q.verdicts[i].delta.to
         /\ \A i \in 1..Len(q.verdicts) : q.verdicts[i].delta.kind = "fact" =>
               /\ ~Contradicts(q.verdicts[i].delta.to, Told(facts))
               /\ \A j \in Fresh(q.verdicts, facts) :
                     j < i => <<q.verdicts[i].delta.to, q.verdicts[j].delta.to>> \notin Conflicts
    /\ q.at = "write" =>
         \A said \in Told(q.draft.facts) :
            \/ said \in Told(facts)
            \/ \E j \in Entered(q, facts) : said = q.verdicts[j].delta.to

\* Only the first pass is remembered.
Staged(q, lg) ==
    /\ q.at = "meter" => q.turn = Len(lg)
    /\ q.at \in {"remember", "fade"} => q.pass = 1

CInv ==
    \A r \in Requests :
        Unrepeated(req[r]) /\ Harmless(req[r], world.facts) /\ Staged(req[r], log)

\* Judging leaves its request where it is in the turn.
LEMMA JudgeStays ==
  ASSUME req \in [Requests -> Request], NEW r \in Requests, Judge(r)
  PROVE  /\ req'[r].at = "judge" /\ req'[r].pass = req[r].pass
         /\ req'[r].seen = req[r].seen /\ req'[r].turn = req[r].turn
         /\ \A s \in Requests : s # r => req'[s] = req[s]
<1>1. req[r].at = "judge"
  BY DEF Judge
<1>2. PICK d \in Deltas :
        req' = [req EXCEPT
                ![r].verdicts = Append(@, [delta |-> d, n |-> Change(Copy(req[r]), d)]),
                ![r].copies = Append(@, Moved(Copy(req[r]), d, Change(Copy(req[r]), d))),
                ![r].new = IF d.kind = "fact" THEN Accounted(req[r], d.to) ELSE @,
                ![r].left = @ - 1]
  BY DEF Judge, Unapplied
<1> QED BY <1>1, <1>2 DEF Request

\* The verdict that is written next is lawful in the draft it meets: nothing
\* is left for the commit to refuse.
LEMMA NothingRefusedLate ==
  ASSUME IInv, CInv, NEW r \in Requests, req[r].at = "write",
         req[r].written < Len(req[r].verdicts)
  PROVE  LET o == req[r]
             v == o.verdicts[o.written + 1]
         IN
         /\ o.draft \in World /\ v \in Verdict /\ v.delta \in Deltas /\ v.delta \in Delta
         /\ o.written \in Nat /\ o.written + 1 \in 1..Len(o.verdicts)
         /\ ~Refused(o.draft.rows, v.delta)
         /\ v.n = Change(o.draft.rows, v.delta)
         /\ ~RefusedLate(o.draft.rows, v.delta)
         /\ Written(o.draft.rows, v.delta, v.n) = Moved(o.draft.rows, v.delta, v.n)
         /\ v.delta.kind = "fact" => ~Clashes(v.delta.to, o.draft.facts)
         /\ Applies(o.draft, v.delta)
<1> DEFINE o == req[r]
           k == o.written + 1
           v == o.verdicts[k]
           F == world.facts
<1>1. /\ o \in Request /\ Sound(o, world.rows, log, chronicle) /\ Harmless(o, F)
  BY DEF IInv, TypeOK, CInv
<1>2. /\ o.verdicts \in Seq(Verdict) /\ o.written \in Nat /\ o.draft \in World
  BY <1>1 DEF Request
<1>3. k \in 1..Len(o.verdicts) /\ v \in Verdict
  <2>1. k \in 1..Len(o.verdicts)
    BY <1>2
  <2> QED BY <1>2, <2>1
<1>4. o.draft.rows = o.copies[k]
  BY <1>1 DEF Sound, Drafted
<1>5. ~Refused(o.draft.rows, v.delta) /\ v.n = Change(o.draft.rows, v.delta)
  BY <1>1, <1>3, <1>4 DEF Sound, Batched
<1> HIDE DEF v
<1>6. v.delta \in Deltas /\ v.delta \in Delta
  BY <1>3, TurnAssumption DEF Verdict
<1>7. o.draft.rows \in Rows
  BY <1>2 DEF World
<1>8. /\ ~RefusedLate(o.draft.rows, v.delta)
      /\ Written(o.draft.rows, v.delta, v.n) = Moved(o.draft.rows, v.delta, v.n)
  BY <1>5, <1>6, <1>7, CommitFollowsValidator
<1>9. ASSUME v.delta.kind = "fact"
      PROVE  ~Clashes(v.delta.to, o.draft.facts)
  <2>1. /\ ~Contradicts(v.delta.to, Told(F))
        /\ \A j \in Fresh(o.verdicts, F) :
              j < k => <<v.delta.to, o.verdicts[j].delta.to>> \notin Conflicts
    BY <1>1, <1>3, <1>9 DEF Harmless, v
  <2>2. ASSUME NEW old \in Told(o.draft.facts)
        PROVE  <<v.delta.to, old>> \notin Conflicts
    <3>1. CASE old \in Told(F)
      BY <2>1, <3>1 DEF Contradicts
    <3>2. CASE \E j \in Entered(o, F) : old = o.verdicts[j].delta.to
      <4>1. PICK j \in Entered(o, F) : old = o.verdicts[j].delta.to
        BY <3>2
      <4>2. j \in Fresh(o.verdicts, F) /\ j < k
        BY <1>2, <4>1 DEF Entered, Fresh
      <4> QED BY <2>1, <4>1, <4>2
    <3> QED BY <1>1, <2>2, <3>1, <3>2 DEF Harmless
  <2> QED BY <2>2 DEF Clashes, Contradicts
<1>10. Applies(o.draft, v.delta)
  BY <1>8, <1>9 DEF Applies
<1> QED BY <1>2, <1>3, <1>5, <1>6, <1>8, <1>9, <1>10 DEF v

LEMMA JudgeStaysHarmless ==
  ASSUME IInv, CInv, NEW r \in Requests, Judge(r)
  PROVE  Unrepeated(req'[r]) /\ Harmless(req'[r], world.facts)
<1> DEFINE o == req[r]
           F == world.facts
<1>1. /\ req \in [Requests -> Request] /\ o \in Request /\ F \in Seq(Fact)
      /\ o.at = "judge" /\ Unrepeated(o) /\ Harmless(o, F)
  BY DEF IInv, TypeOK, World, CInv, Judge
<1>2. PICK d \in Deltas \ o.seen :
        /\ d.kind = "fact" => FactFits(o, d.to)
        /\ req' = [req EXCEPT
                ![r].verdicts = Append(@, [delta |-> d, n |-> Change(Copy(o), d)]),
                ![r].copies = Append(@, Moved(Copy(o), d, Change(Copy(o), d))),
                ![r].new = IF d.kind = "fact" THEN Accounted(o, d.to) ELSE @,
                ![r].left = @ - 1]
  BY DEF Judge, Unapplied
<1> DEFINE v == [delta |-> d, n |-> Change(Copy(o), d)]
           new == IF d.kind = "fact" THEN Accounted(o, d.to) ELSE o.new
           g == Append(o.verdicts, v)
<1>3. /\ req'[r].at = "judge" /\ req'[r].pass = o.pass /\ req'[r].seen = o.seen
      /\ req'[r].new = new /\ req'[r].verdicts = g
  BY <1>1, <1>2 DEF Request
<1>4. /\ o.verdicts \in Seq(Verdict) /\ o.new \in Seq(Statements)
      /\ d.kind = "fact" => d.to \in Statements
  BY <1>1, DeltaFields, TurnAssumption DEF Request
<1>5. v.delta = d
  OBVIOUS
<1> HIDE DEF v
<1>6. /\ Len(g) = Len(o.verdicts) + 1 /\ g[Len(o.verdicts) + 1] = v
      /\ Len(o.verdicts) \in Nat
      /\ \A i \in 1..Len(o.verdicts) : g[i] = o.verdicts[i]
  BY <1>4
<1> HIDE DEF g
<1>7. Unrepeated(req'[r])
  <2>1. InHand(req'[r]) = {} /\ InHand(o) = {}
    BY <1>1, <1>3 DEF InHand
  <2>2. \A i \in 1..Len(g) : g[i].delta \notin o.seen
    BY <1>1, <1>2, <1>5, <1>6, <2>1 DEF Unrepeated, Before
  <2> QED BY <1>1, <1>3, <2>1, <2>2 DEF Unrepeated, Before
<1>8. /\ \A k \in 1..Len(o.new) : k \in 1..Len(new) /\ new[k] = o.new[k]
      /\ d.kind = "fact" /\ ~Reinforces(d.to, Told(F)) =>
           \E k \in 1..Len(new) : new[k] = d.to
  <2>1. CASE d.kind = "fact" /\ ~Reinforces(d.to, Told(F))
    <3>1. new = Append(o.new, d.to)
      BY <2>1 DEF Accounted
    <3>2. /\ Len(new) = Len(o.new) + 1 /\ new[Len(o.new) + 1] = d.to /\ Len(o.new) \in Nat
          /\ \A k \in 1..Len(o.new) : new[k] = o.new[k]
      BY <1>4, <2>1, <3>1, SMTT(30)
    <3> HIDE DEF new
    <3>3. Len(o.new) + 1 \in 1..Len(new) /\ \A k \in 1..Len(o.new) : k \in 1..Len(new)
      BY <3>2
    <3> QED BY <3>2, <3>3
  <2>2. CASE ~(d.kind = "fact" /\ ~Reinforces(d.to, Told(F)))
    <3>1. new = o.new
      BY <2>2 DEF Accounted
    <3> QED BY <2>2, <3>1
  <2> QED BY <2>1, <2>2
<1>9. \A i \in Fresh(g, F) :
        \/ i \in Fresh(o.verdicts, F)
        \/ i = Len(o.verdicts) + 1 /\ d.kind = "fact" /\ ~Reinforces(d.to, Told(F))
  BY <1>5, <1>6, SMTT(30) DEF Fresh
<1>10. \A i \in Fresh(g, F) : \E k \in 1..Len(new) : new[k] = g[i].delta.to
  <2> SUFFICES ASSUME NEW i \in Fresh(g, F)
               PROVE  \E k \in 1..Len(new) : new[k] = g[i].delta.to
    OBVIOUS
  <2>1. CASE i \in Fresh(o.verdicts, F)
    <3>1. PICK k \in 1..Len(o.new) : o.new[k] = o.verdicts[i].delta.to
      BY <1>1, <2>1 DEF Harmless
    <3>2. g[i] = o.verdicts[i]
      BY <1>6, <2>1 DEF Fresh
    <3> QED BY <1>8, <3>1, <3>2
  <2>2. CASE i = Len(o.verdicts) + 1 /\ d.kind = "fact" /\ ~Reinforces(d.to, Told(F))
    BY <1>5, <1>6, <1>8, <2>2
  <2> QED BY <1>9, <2>1, <2>2
<1>11. ASSUME NEW i \in 1..Len(g), g[i].delta.kind = "fact"
       PROVE  /\ ~Contradicts(g[i].delta.to, Told(F))
              /\ \A j \in Fresh(g, F) :
                    j < i => <<g[i].delta.to, g[j].delta.to>> \notin Conflicts
  <2>0. ASSUME NEW j \in Fresh(g, F), j < i
        PROVE  j \in Fresh(o.verdicts, F) /\ g[j] = o.verdicts[j]
    <3>1. j \in 1..Len(g) /\ i \in 1..Len(g) /\ j # Len(o.verdicts) + 1
      BY <1>6, <2>0 DEF Fresh
    <3>2. j \in Fresh(o.verdicts, F)
      BY <1>9, <3>1
    <3> QED BY <1>6, <3>2 DEF Fresh
  <2>1. CASE i \in 1..Len(o.verdicts)
    <3>1. g[i] = o.verdicts[i]
      BY <1>6, <2>1
    <3> QED BY <1>1, <1>11, <2>0, <2>1, <3>1 DEF Harmless
  <2>2. CASE i = Len(o.verdicts) + 1
    <3>1. g[i].delta = d /\ d.kind = "fact"
      BY <1>5, <1>6, <1>11, <2>2
    <3>2. ~ClashesInBatch(o, d.to)
      BY <1>2, <3>1 DEF FactFits
    <3>3. /\ ~Contradicts(d.to, Told(F))
          /\ \A k \in 1..Len(o.new) : <<d.to, o.new[k]>> \notin Conflicts
      <4>1. DOMAIN o.new = 1..Len(o.new)
        BY <1>4
      <4> QED BY <3>2, <4>1 DEF ClashesInBatch, Clashes, Contradicts
    <3>4. ASSUME NEW j \in Fresh(g, F), j < i
          PROVE  <<d.to, g[j].delta.to>> \notin Conflicts
      <4>1. PICK k \in 1..Len(o.new) : o.new[k] = o.verdicts[j].delta.to
        BY <1>1, <2>0, <3>4 DEF Harmless
      <4> QED BY <2>0, <3>3, <3>4, <4>1
    <3> QED BY <3>1, <3>3, <3>4
  <2>3. i \in 1..Len(o.verdicts) \/ i = Len(o.verdicts) + 1
    BY <1>6, <1>11
  <2> QED BY <2>1, <2>2, <2>3, Zenon
<1> HIDE DEF new
<1> QED BY <1>3, <1>7, <1>10, <1>11 DEF Harmless

LEMMA ToldLast ==
  ASSUME NEW facts \in Seq(Fact), NEW f, NEW said \in Told(Append(facts, f))
  PROVE  said \in Told(facts) \/ said = f.said
<1> DEFINE g == Append(facts, f)
<1>1. /\ DOMAIN g = 1..Len(facts) + 1 /\ g[Len(facts) + 1] = f
      /\ DOMAIN facts = 1..Len(facts) /\ Len(facts) \in Nat
      /\ \A i \in 1..Len(facts) : g[i] = facts[i]
  OBVIOUS
<1>2. PICK i \in DOMAIN g : said = g[i].said
  BY DEF Told
<1> HIDE DEF g
<1>3. i \in 1..Len(facts) \/ i = Len(facts) + 1
  BY <1>1, <1>2
<1> QED BY <1>1, <1>2, <1>3 DEF Told

LEMMA InHandGrows ==
  ASSUME NEW p, NEW q, p.at = "write", q.at = "write", q.verdicts = p.verdicts,
         p.written \in Nat, q.written = p.written + 1
  PROVE  InHand(q) = InHand(p) \cup {p.verdicts[p.written + 1].delta}
<1>1. 1..q.written = (1..p.written) \cup {p.written + 1}
  OBVIOUS
<1> QED BY <1>1 DEF InHand

LEMMA WriteStaysHarmless ==
  ASSUME IInv, FInv, CInv, NEW r \in Requests, Write(r)
  PROVE  Unrepeated(req'[r]) /\ Harmless(req'[r], world.facts)
<1> DEFINE o == req[r]
           k == o.written + 1
           v == o.verdicts[k]
           F == world.facts
           D == o.draft.facts
           E == Draft(o.draft, v, o.turn).facts
<1>1. /\ req \in [Requests -> Request] /\ o \in Request
      /\ o.at = "write" /\ o.written < Len(o.verdicts) /\ o.written \in Nat
      /\ Unrepeated(o) /\ Harmless(o, F)
  BY DEF IInv, TypeOK, CInv, Write, Request
<1>1a. Told(F) \subseteq Told(D)
  BY <1>1 DEF FInv, Counted
<1>2. /\ k \in 1..Len(o.verdicts) /\ Applies(o.draft, v.delta)
      /\ v.delta.kind = "fact" => ~Clashes(v.delta.to, D)
      /\ D \in Seq(Fact)
  BY <1>1, NothingRefusedLate DEF World
<1>3. /\ req'[r].at = "write" /\ req'[r].new = o.new /\ req'[r].pass = o.pass
      /\ req'[r].verdicts = o.verdicts /\ req'[r].written = k
      /\ req'[r].seen = o.seen \cup {v.delta}
      /\ req'[r].draft = Draft(o.draft, v, o.turn)
  BY <1>1, <1>2 DEF Write, Request
<1>4. InHand(req'[r]) = InHand(o) \cup {v.delta}
  BY <1>1, <1>3, InHandGrows
<1>5. Unrepeated(req'[r])
  <2>1. v.delta \notin Before(o)
    BY <1>1, <1>2 DEF Unrepeated
  <2> HIDE DEF v
  <2>2. Before(req'[r]) = Before(o)
    BY <1>3, <1>4, <2>1 DEF Before
  <2> QED BY <1>1, <1>3, <1>4, <2>2 DEF Unrepeated
<1>6. E = IF v.delta.kind = "fact" THEN FactsWith(D, v.delta.to, o.turn) ELSE D
  BY DEF Draft
<1>7. req'[r].draft.facts = E
  BY <1>3
<1> HIDE DEF E, v
<1>8. \A j \in Entered(o, F) : j \in Entered(req'[r], F)
  BY <1>1, <1>3 DEF Entered, Fresh
<1>9. ASSUME NEW said \in Told(E)
      PROVE  \/ said \in Told(F)
             \/ \E j \in Entered(req'[r], F) : said = o.verdicts[j].delta.to
  <2>1. CASE said \in Told(D)
    BY <1>1, <1>8, <2>1 DEF Harmless
  <2>2. CASE said \notin Told(D)
    <3>1. /\ v.delta.kind = "fact" /\ ~Reinforces(v.delta.to, Told(D))
          /\ E = Append(D, [said |-> v.delta.to, turn |-> o.turn])
      BY <1>6, <1>9, <2>2 DEF FactsWith
    <3>2. said = v.delta.to
      BY <1>2, <1>9, <2>2, <3>1, ToldLast
    <3>3. ~Reinforces(v.delta.to, Told(F))
      BY <1>1a, <3>1, StillReinforced
    <3>4. k \in Entered(req'[r], F)
      <4>1. k \in Fresh(o.verdicts, F)
        BY <1>2, <3>1, <3>3 DEF Fresh, v
      <4> QED BY <1>1, <1>3, <4>1 DEF Entered
    <3>5. said = o.verdicts[k].delta.to
      BY <3>2 DEF v
    <3> QED BY <3>4, <3>5
  <2> QED BY <2>1, <2>2
<1>10. /\ Fresh(req'[r].verdicts, F) = Fresh(o.verdicts, F)
  BY <1>3
<1> QED BY <1>1, <1>3, <1>5, <1>7, <1>9, <1>10 DEF Harmless

LEMMA NextCInv ==
  ASSUME IInv, FInv, CInv, [Next]_vars
  PROVE  CInv'
<1>0. /\ req \in [Requests -> Request] /\ world \in World
  BY DEF IInv, TypeOK
<1>1. CASE UNCHANGED vars
  BY <1>1 DEF vars, CInv
<1>2. ASSUME NEW r \in Requests,
             req[r].at # Idle \/ Unoccupied,
             \A s \in Requests : s # r => req'[s] = req[s],
             Unrepeated(req'[r]), Harmless(req'[r], world'.facts), Staged(req'[r], log')
      PROVE  CInv'
  <2>1. ASSUME NEW s \in Requests, s # r
        PROVE  /\ Unrepeated(req'[s]) /\ Harmless(req'[s], world'.facts)
               /\ Staged(req'[s], log')
    <3>1. req'[s].at = Idle
      BY <1>2, <2>1, OthersRest
    <3> QED BY <3>1 DEF Unrepeated, Harmless, Staged, Idle
  <2> QED BY <1>2, <2>1 DEF CInv
<1>3. ASSUME NEW r \in Requests,
             \/ Begin(r) \/ NarratorFails(r) \/ Crash(r) \/ Meter(r) \/ Commit(r)
             \/ Remember(r) \/ FadeMood(r) \/ Correct(r) \/ Pass(r) \/ WriteLog(r)
      PROVE  CInv'
  <2>1. \A s \in Requests : s # r => req'[s] = req[s]
    BY <1>0, <1>3
       DEF Begin, NarratorFails, Crash, Meter, Commit, Remember, FadeMood, Correct, Pass,
           WriteLog, Finish, Goto
  <2>2. req[r].at # Idle \/ Unoccupied
    BY <1>3 DEF Begin, NarratorFails, Crash, Remember, FadeMood, Correct, Pass, WriteLog,
                Meter, Commit, Idle
  <2>3. Harmless(req'[r], world'.facts)
    BY <1>3, LeavesBatch DEF Harmless
  <2>4. Unrepeated(req'[r])
    <3>1. CASE Begin(r)
      <4>1. req'[r].at = "narrate" /\ req'[r].seen = {}
        BY <1>0, <3>1 DEF Begin, NoRequest
      <4> QED BY <4>1 DEF Unrepeated, InHand
    <3>2. CASE Correct(r)
      <4>1. req'[r].at = "narrate" /\ req'[r].pass = 2
        BY <1>0, <3>2 DEF Correct, Request
      <4> QED BY <4>1 DEF Unrepeated
    <3>3. CASE ~Begin(r) /\ ~Correct(r)
      <4>1. req'[r].at \notin {"narrate", "judge", "write"}
        <5>1. CASE NarratorFails(r) \/ Crash(r) \/ Meter(r)
          BY <1>0, <5>1, EmptyRequest DEF NarratorFails, Crash, Meter, Finish, Idle
        <5>2. CASE Remember(r) \/ FadeMood(r) \/ WriteLog(r)
          BY <1>0, <5>2, ZenonT(60) DEF Remember, FadeMood, WriteLog, Goto, Request
        <5>3. CASE Commit(r)
          BY <1>0, <5>3, EmptyRequest DEF Commit, NoRequest
        <5>4. CASE Pass(r)
          BY <1>0, <5>4, EmptyRequest DEF Pass, NoRequest
        <5> QED BY <1>3, <3>3, <5>1, <5>2, <5>3, <5>4
      <4> QED BY <4>1 DEF Unrepeated
    <3> QED BY <3>1, <3>2, <3>3
  <2>5. Staged(req'[r], log')
    <3>1. CASE WriteLog(r)
      <4>1. req'[r].turn = req[r].turn /\ log' = Append(log, req[r].turn)
            /\ req'[r].at = "meter"
        BY <1>0, <3>1 DEF WriteLog, Goto, Request
      <4>2. req[r].turn = Len(log) + 1 /\ log \in Seq(1..MaxTurns) /\ req[r].turn \in 1..MaxTurns
        BY <3>1, Remembered DEF WriteLog, IInv, TypeOK
      <4>3. Len(log') = Len(log) + 1
        BY <4>1, <4>2
      <4> QED BY <4>1, <4>2, <4>3 DEF Staged
    <3>2. CASE NarratorFails(r) \/ Crash(r) \/ Meter(r)
      <4>1. req'[r].at = Idle
        BY <1>0, <3>2, EmptyRequest DEF NarratorFails, Crash, Meter, Finish
      <4> QED BY <4>1 DEF Staged, Idle
    <3>3. CASE Remember(r)
      <4>1. req'[r].at = "fade" /\ req'[r].pass = req[r].pass /\ req[r].at = "remember"
        BY <1>0, <3>3 DEF Remember, Goto, Request
      <4> QED BY <4>1 DEF Staged, CInv
    <3>4. CASE FadeMood(r)
      <4>1. req'[r].at = "scan"
        BY <1>0, <3>4 DEF FadeMood, Goto, Request
      <4> QED BY <4>1 DEF Staged
    <3>5. CASE Correct(r)
      <4>1. req'[r].at = "narrate"
        BY <1>0, <3>5 DEF Correct, Request
      <4> QED BY <4>1 DEF Staged
    <3>6. CASE Begin(r) \/ Pass(r)
      <4>1. req'[r].at \in {"narrate", "log"}
        BY <1>0, <3>6 DEF Begin, Pass, NoRequest
      <4> QED BY <4>1 DEF Staged
    <3>7. CASE Commit(r)
      <4>1. /\ req'[r].at = IF req[r].pass = 1 THEN "remember" ELSE "scan"
            /\ req'[r].pass = req[r].pass
        BY <1>0, <3>7 DEF Commit, NoRequest
      <4> QED BY <4>1 DEF Staged
    <3> QED BY <1>3, <3>1, <3>2, <3>3, <3>4, <3>5, <3>6, <3>7
  <2> QED BY <1>2, <2>1, <2>2, <2>3, <2>4, <2>5
<1>4. ASSUME NEW r \in Requests, Narrated(r) \/ Judge(r) \/ OpenTransaction(r) \/ Write(r),
             Unrepeated(req'[r]), Harmless(req'[r], world.facts)
      PROVE  CInv'
  <2>1. /\ world' = world /\ req'[r].at \in {"judge", "write"} /\ req[r].at # Idle
        /\ \A s \in Requests : s # r => req'[s] = req[s]
    <3>1. CASE Narrated(r)
      BY <1>0, <3>1 DEF Narrated, Request, Idle
    <3>2. CASE Judge(r)
      BY <1>0, <3>2, JudgeStays DEF Judge, Idle
    <3>3. CASE OpenTransaction(r)
      BY <1>0, <3>3 DEF OpenTransaction, Request, Idle
    <3>4. CASE Write(r)
      BY <1>0, <3>4 DEF Write, Request, Idle
    <3> QED BY <1>4, <3>1, <3>2, <3>3, <3>4
  <2>2. Staged(req'[r], log')
    BY <2>1 DEF Staged
  <2> QED BY <1>2, <1>4, <2>1, <2>2
<1>5. ASSUME NEW r \in Requests, Narrated(r) PROVE CInv'
  <2>1. /\ req'[r].at = "judge" /\ req'[r].verdicts = <<>>
        /\ req'[r].pass = req[r].pass /\ req'[r].seen = req[r].seen
        /\ req[r].at = "narrate" /\ Unrepeated(req[r])
    BY <1>0, <1>5 DEF Narrated, Request, CInv
  <2>2. Unrepeated(req'[r])
    BY <2>1 DEF Unrepeated, InHand
  <2>3. Harmless(req'[r], world.facts)
    BY <2>1 DEF Harmless, Fresh
  <2> QED BY <1>4, <1>5, <2>2, <2>3
<1>6. ASSUME NEW r \in Requests, Judge(r) PROVE CInv'
  BY <1>4, <1>6, JudgeStaysHarmless
<1>7. ASSUME NEW r \in Requests, OpenTransaction(r) PROVE CInv'
  <2>1. /\ req'[r].at = "write" /\ req'[r].verdicts = req[r].verdicts
        /\ req'[r].pass = req[r].pass /\ req'[r].seen = req[r].seen
        /\ req'[r].new = req[r].new /\ req'[r].written = 0 /\ req'[r].draft = world
        /\ req[r].at = "judge" /\ Unrepeated(req[r]) /\ Harmless(req[r], world.facts)
    BY <1>0, <1>7 DEF OpenTransaction, Request, CInv
  <2>2. InHand(req'[r]) = {} /\ InHand(req[r]) = {}
    BY <2>1 DEF InHand
  <2>3. Unrepeated(req'[r])
    BY <2>1, <2>2 DEF Unrepeated, Before
  <2>4. Harmless(req'[r], world.facts)
    BY <2>1 DEF Harmless
  <2> QED BY <1>4, <1>7, <2>3, <2>4
<1>8. ASSUME NEW r \in Requests, Write(r) PROVE CInv'
  BY <1>4, <1>8, WriteStaysHarmless
<1> QED BY <1>1, <1>3, <1>5, <1>6, <1>7, <1>8 DEF Next

\* The rules the campaign is stated with are the rules the engine uses.
LEMMA SameRules ==
  ASSUME NEW w, NEW d, NEW n, NEW told, NEW said, NEW facts, NEW turn, NEW x
  PROVE  /\ ImplementedCampaign!Refused(w, d) <=> Refused(w, d)
         /\ ImplementedCampaign!Change(w, d) = Change(w, d)
         /\ ImplementedCampaign!Moved(w, d, n) = Moved(w, d, n)
         /\ ImplementedCampaign!Contradicts(said, told) <=> Contradicts(said, told)
         /\ ImplementedCampaign!Reinforces(said, told) <=> Reinforces(said, told)
         /\ ImplementedCampaign!Told(facts) = Told(facts)
         /\ ImplementedCampaign!SaidIn(facts, turn) = SaidIn(facts, turn)
         /\ ImplementedCampaign!Fading(x) = Faded(x)
<1>1. ImplementedCampaign!Refused(w, d) <=> Refused(w, d)
  BY DEF ImplementedCampaign!Refused, Refused, ImplementedCampaign!Onward, Onward
<1>2. ImplementedCampaign!Change(w, d) = Change(w, d)
  BY DEF ImplementedCampaign!Change, Change, ImplementedCampaign!Clamp, Clamp,
         ImplementedCampaign!Slack, Slack, ImplementedCampaign!Bond, Bond,
         ImplementedCampaign!High, High, ImplementedCampaign!Low, Low
<1>3. ImplementedCampaign!Moved(w, d, n) = Moved(w, d, n)
  BY DEF ImplementedCampaign!Moved, Moved, ImplementedCampaign!Field, Field,
         ImplementedCampaign!Numeric, Numeric,
         ImplementedCampaign!DecayClass, DecayClass, ImplementedCampaign!Abs, Abs
<1>4. ImplementedCampaign!Contradicts(said, told) <=> Contradicts(said, told)
  BY DEF ImplementedCampaign!Contradicts, Contradicts
<1>5. ImplementedCampaign!Reinforces(said, told) <=> Reinforces(said, told)
  BY DEF ImplementedCampaign!Reinforces, Reinforces
<1>6. ImplementedCampaign!Told(facts) = Told(facts)
  BY DEF ImplementedCampaign!Told, Told
<1>7. ImplementedCampaign!SaidIn(facts, turn) = SaidIn(facts, turn)
  BY DEF ImplementedCampaign!SaidIn, SaidIn
<1>8. ImplementedCampaign!Fading(x) = Faded(x)
  BY DEF ImplementedCampaign!Fading, Faded, ImplementedCampaign!Low, Low,
         ImplementedCampaign!High, High
<1> QED BY <1>1, <1>2, <1>3, <1>4, <1>5, <1>6, <1>7, <1>8

LEMMA SameCardinality ==
  ASSUME NEW S
  PROVE  ImplementedCampaign!Cardinality(S) = Cardinality(S)
  BY DEF ImplementedCampaign!Cardinality, Cardinality

\* The one request that does not rest is the current one.
LEMMA TheOne ==
  ASSUME NEW f \in [Requests -> Request], NEW r \in Requests,
         f[r].at # Idle \/ f[r] = NoRequest,
         \A s \in Requests : s # r => f[s].at = Idle
  PROVE  (IF \E s \in Requests : f[s].at # Idle
          THEN f[CHOOSE s \in Requests : f[s].at # Idle] ELSE NoRequest) = f[r]
<1>1. CASE f[r].at # Idle
  <2> DEFINE c == CHOOSE s \in Requests : f[s].at # Idle
  <2>1. c \in Requests /\ f[c].at # Idle
    BY <1>1
  <2> HIDE DEF c
  <2>2. c = r
    BY <2>1
  <2> QED BY <1>1, <2>2 DEF c
<1>2. CASE f[r].at = Idle
  BY <1>2
<1> QED BY <1>1, <1>2

LEMMA CurrentMoves ==
  ASSUME IInv, NEW r \in Requests, req' \in [Requests -> Request],
         req[r].at # Idle \/ Unoccupied,
         req'[r].at # Idle \/ req'[r] = NoRequest,
         \A s \in Requests : s # r => req'[s] = req[s]
  PROVE  /\ Current' = req'[r]
         /\ req[r].at # Idle => Current = req[r]
         /\ Unoccupied => Current = NoRequest
<1>1. \A s \in Requests : s # r => req[s].at = Idle
  BY OthersRest
<1>2. Current' = req'[r]
  BY <1>1, TheOne DEF Current
<1>3. req[r].at # Idle => Current = req[r]
  BY <1>1, TheOne DEF Current, IInv, TypeOK
<1>4. Unoccupied => Current = NoRequest
  BY DEF Current, Unoccupied
<1> QED BY <1>2, <1>3, <1>4

\* What the campaign sees of a request, over the rows.
DraftOf(q, w) == IF q.at = "write" THEN q.draft ELSE w
DoneOf(q) == IF PhaseOf(q) \in {"acted", "recalled", "faded"} THEN Before(q) ELSE {}

LEMMA Unseen ==
  ASSUME NEW p, NEW q, Current = p, Current' = q,
         UNCHANGED <<world, chronicle, log, telemetry>>,
         PhaseOf(q) = PhaseOf(p), InHand(q) = InHand(p), Before(q) = Before(p),
         DraftOf(q, world) = DraftOf(p, world)
  PROVE  UNCHANGED ImplementedCampaign!campaignVars
<1>1. PhaseOf(Current') = PhaseOf(Current) /\ InHand(Current') = InHand(Current)
      /\ Before(Current') = Before(Current)
      /\ (IF Current'.at = "write" THEN Current'.draft ELSE world')
           = (IF Current.at = "write" THEN Current.draft ELSE world)
  BY DEF DraftOf
<1> QED BY <1>1 DEF ImplementedCampaign!campaignVars

\* The narrator's free hand, the judging and the opening of a transaction are
\* nothing the campaign sees.
LEMMA BeginUnseen ==
  ASSUME IInv, IInv', NEW r \in Requests, Begin(r)
  PROVE  UNCHANGED ImplementedCampaign!campaignVars
<1> DEFINE q == [NoRequest EXCEPT !.at = "narrate", !.turn = NextTurn]
<1>1. /\ req \in [Requests -> Request] /\ req' \in [Requests -> Request]
      /\ req' = [req EXCEPT ![r] = q] /\ Unoccupied
      /\ UNCHANGED <<world, chronicle, log, telemetry>>
  BY DEF IInv, TypeOK, Begin
<1>2. q.at = "narrate" /\ q.pass = 1 /\ q.seen = {}
  BY DEF NoRequest
<1> HIDE DEF q
<1>3. req'[r] = q /\ \A s \in Requests : s # r => req'[s] = req[s]
  BY <1>1
<1>4. Current = NoRequest /\ Current' = q
  BY <1>1, <1>2, <1>3, CurrentMoves DEF Idle
<1>5. PhaseOf(q) = "rest" /\ PhaseOf(NoRequest) = "rest"
  BY <1>2 DEF PhaseOf, NoRequest, Idle
<1>6. /\ InHand(q) = {} /\ InHand(NoRequest) = {} /\ Before(q) = {} /\ Before(NoRequest) = {}
      /\ DraftOf(q, world) = DraftOf(NoRequest, world)
  BY <1>2 DEF InHand, Before, DraftOf, NoRequest, Idle
<1> QED BY <1>1, <1>4, <1>5, <1>6, Unseen

LEMMA MovesCurrent ==
  ASSUME IInv, IInv', NEW r \in Requests, req[r].at # Idle,
         \/ Narrated(r) \/ Judge(r) \/ OpenTransaction(r) \/ Write(r) \/ Commit(r)
         \/ Remember(r) \/ FadeMood(r) \/ Correct(r) \/ Pass(r) \/ WriteLog(r)
         \/ Finish(r)
  PROVE  Current = req[r] /\ Current' = req'[r]
<1>1. req \in [Requests -> Request] /\ req' \in [Requests -> Request]
  BY DEF IInv, TypeOK
<1>2. \A s \in Requests : s # r => req'[s] = req[s]
  BY <1>1 DEF Narrated, Judge, OpenTransaction, Write, Commit, Remember, FadeMood, Correct,
              Pass, WriteLog, Finish, Goto
<1>3. req'[r].at # Idle \/ req'[r] = NoRequest
  <2>1. CASE Narrated(r)
    BY <1>1, <2>1 DEF Narrated, Request, Idle
  <2>1a. CASE OpenTransaction(r)
    BY <1>1, <2>1a DEF OpenTransaction, Request, Idle
  <2>1b. CASE Write(r)
    BY <1>1, <2>1b DEF Write, Request, Idle
  <2>2. CASE Judge(r)
    BY <1>1, <2>2, JudgeStays DEF Idle
  <2>3. CASE Commit(r)
    BY <1>1, <2>3, EmptyRequest DEF Commit, NoRequest, Idle
  <2>4. CASE Pass(r)
    BY <1>1, <2>4, EmptyRequest DEF Pass, NoRequest, Idle
  <2>5. CASE Remember(r)
    BY <1>1, <2>5 DEF Remember, Goto, Request, Idle
  <2>5b. CASE FadeMood(r)
    BY <1>1, <2>5b DEF FadeMood, Goto, Request, Idle
  <2>5c. CASE WriteLog(r)
    BY <1>1, <2>5c DEF WriteLog, Goto, Request, Idle
  <2>5a. CASE Correct(r)
    BY <1>1, <2>5a DEF Correct, Request, Idle
  <2>6. CASE Finish(r)
    BY <1>1, <2>6 DEF Finish
  <2> QED BY <2>1, <2>1a, <2>1b, <2>2, <2>3, <2>4, <2>5, <2>5a, <2>5b, <2>5c, <2>6
<1> QED BY <1>1, <1>2, <1>3, CurrentMoves

\* Outside a transaction the campaign's draft is the world.
LEMMA Outside ==
  ASSUME NEW q, q.at # "write", NEW w
  PROVE  InHand(q) = {} /\ Before(q) = q.seen /\ DraftOf(q, w) = w
  BY DEF InHand, Before, DraftOf

LEMMA NarratedUnseen ==
  ASSUME IInv, IInv', NEW r \in Requests, Narrated(r) \/ Correct(r)
  PROVE  UNCHANGED ImplementedCampaign!campaignVars
<1> DEFINE p == req[r]
           q == req'[r]
<1>1. /\ p.at \in {"narrate", "scan"}
      /\ UNCHANGED <<world, chronicle, log, telemetry>>
      /\ req \in [Requests -> Request]
  BY DEF IInv, TypeOK, Narrated, Correct
<1>2. Current = p /\ Current' = q
  BY <1>1, MovesCurrent DEF Idle
<1>3. /\ q.at \in {"judge", "narrate"} /\ q.seen = p.seen /\ PhaseOf(q) = PhaseOf(p)
  <2>1. CASE Narrated(r)
    BY <1>1, <2>1 DEF Narrated, Request, PhaseOf
  <2>2. CASE Correct(r)
    BY <1>1, <2>2 DEF Correct, Request, PhaseOf
  <2> QED BY <2>1, <2>2
<1>4. /\ InHand(q) = InHand(p) /\ Before(q) = Before(p)
      /\ DraftOf(q, world) = DraftOf(p, world)
  BY <1>1, <1>3, Outside
<1> HIDE DEF p, q
<1> QED BY <1>1, <1>2, <1>3, <1>4, Unseen

LEMMA JudgeUnseen ==
  ASSUME IInv, IInv', NEW r \in Requests, Judge(r) \/ OpenTransaction(r)
  PROVE  UNCHANGED ImplementedCampaign!campaignVars
<1> DEFINE p == req[r]
           q == req'[r]
<1>1. /\ p.at = "judge" /\ p \in Request
      /\ UNCHANGED <<world, chronicle, log, telemetry>>
      /\ req \in [Requests -> Request]
  BY DEF IInv, TypeOK, Judge, OpenTransaction
<1>2. Current = p /\ Current' = q
  BY <1>1, MovesCurrent DEF Idle
<1>3. /\ q.pass = p.pass /\ q.seen = p.seen
      /\ \/ q.at = "judge"
         \/ q.at = "write" /\ q.written = 0 /\ q.draft = world
  <2>1. CASE Judge(r)
    BY <1>1, <2>1, JudgeStays
  <2>2. CASE OpenTransaction(r)
    BY <1>1, <2>2 DEF OpenTransaction, Request
  <2> QED BY <2>1, <2>2
<1>4. InHand(q) = {} /\ InHand(p) = {}
  BY <1>1, <1>3 DEF InHand
<1>5. PhaseOf(q) = PhaseOf(p)
  BY <1>1, <1>3 DEF PhaseOf
<1>6. Before(q) = Before(p) /\ DraftOf(q, world) = DraftOf(p, world)
  BY <1>1, <1>3, <1>4 DEF Before, DraftOf
<1> HIDE DEF p, q
<1> QED BY <1>1, <1>2, <1>4, <1>5, <1>6, Unseen

LEMMA RememberIsRecall ==
  ASSUME IInv, IInv', NEW r \in Requests, Remember(r)
  PROVE  ImplementedCampaign!Recall
<1> DEFINE p == req[r]
           q == req'[r]
<1>1. /\ p.at = "remember" /\ q.at = "fade" /\ q.seen = p.seen
      /\ chronicle' = Append(chronicle, p.turn) /\ p.turn = Len(log) + 1
      /\ UNCHANGED <<world, log, telemetry>>
  BY DEF Remember, Goto, IInv, TypeOK, Sound, Numbered, Request, Idle
<1>2. Current = p /\ Current' = q
  BY <1>1, MovesCurrent DEF Idle
<1>3. PhaseOf(p) = "acted" /\ PhaseOf(q) = "recalled"
  BY <1>1 DEF PhaseOf
<1>4. /\ InHand(q) = InHand(p) /\ Before(q) = Before(p)
      /\ DraftOf(p, world) = world /\ DraftOf(q, world') = world'
  BY <1>1, Outside
<1> HIDE DEF p, q
<1> QED BY <1>1, <1>2, <1>3, <1>4
       DEF ImplementedCampaign!Recall, ImplementedCampaign!Turn, DraftOf

LEMMA FadeMoodIsFade ==
  ASSUME IInv, CInv, IInv', NEW r \in Requests, FadeMood(r)
  PROVE  ImplementedCampaign!Fade
<1> DEFINE p == req[r]
           q == req'[r]
<1>1. /\ p.at = "fade" /\ q.at = "scan" /\ q.seen = p.seen /\ q.pass = p.pass
      /\ UNCHANGED <<chronicle, log, telemetry>>
  BY DEF FadeMood, Goto, IInv, TypeOK, Request
<1>2. Current = p /\ Current' = q
  BY <1>1, MovesCurrent DEF Idle
<1>3. p.pass = 1
  BY <1>1 DEF CInv, Staged
<1>4. PhaseOf(p) = "recalled" /\ PhaseOf(q) = "faded"
  BY <1>1, <1>3 DEF PhaseOf
<1>5. /\ InHand(q) = InHand(p) /\ Before(q) = Before(p)
      /\ DraftOf(q, world') = world'
  BY <1>1, Outside
<1>6. \E m \in Faded(world.rows.mood) : world' = [world EXCEPT !.rows.mood = m]
  BY DEF FadeMood
<1>7. \E m \in ImplementedCampaign!Fading(world.rows.mood) : world' = [world EXCEPT !.rows.mood = m]
  BY <1>6, SameRules
<1> HIDE DEF p, q
<1> QED BY <1>1, <1>2, <1>4, <1>5, <1>7 DEF ImplementedCampaign!Fade, DraftOf

\* Prose that stands.
LEMMA PassSettles ==
  ASSUME IInv, IInv', NEW r \in Requests, Pass(r)
  PROVE  ImplementedCampaign!Settle \/ UNCHANGED ImplementedCampaign!campaignVars
<1> DEFINE p == req[r]
           q == req'[r]
<1>1. /\ p.at = "scan" /\ p.pass \in {1, 2} /\ q.at = "log" /\ q.seen = {}
      /\ UNCHANGED <<world, chronicle, log, telemetry>>
  BY DEF Pass, NoRequest, IInv, TypeOK, Request
<1>2. Current = p /\ Current' = q
  BY <1>1, MovesCurrent DEF Idle
<1>3. /\ InHand(p) = {} /\ InHand(q) = {}
      /\ DraftOf(p, world) = world /\ DraftOf(q, world') = world'
  BY <1>1, Outside
<1>4. PhaseOf(q) = "settled"
  BY <1>1 DEF PhaseOf
<1>5. CASE p.pass = 1
  <2>1. PhaseOf(p) = "faded"
    BY <1>1, <1>5 DEF PhaseOf
  <2> HIDE DEF p, q
  <2> QED BY <1>1, <1>2, <1>3, <1>4, <2>1 DEF ImplementedCampaign!Settle, DraftOf
<1>6. CASE p.pass = 2
  <2>1. PhaseOf(p) = "settled"
    BY <1>1, <1>6 DEF PhaseOf
  <2> HIDE DEF p, q
  <2> QED BY <1>1, <1>2, <1>3, <1>4, <2>1 DEF ImplementedCampaign!campaignVars, DraftOf
<1> QED BY <1>1, <1>5, <1>6

LEMMA WriteLogIsLog ==
  ASSUME IInv, IInv', NEW r \in Requests, WriteLog(r)
  PROVE  ImplementedCampaign!Log
<1> DEFINE p == req[r]
           q == req'[r]
<1>1. /\ p.at = "log" /\ q.at = "meter"
      /\ log' = Append(log, p.turn) /\ p.turn = Len(log) + 1
      /\ UNCHANGED <<chronicle, telemetry>>
  BY ZenonT(60) DEF WriteLog, Goto, IInv, TypeOK, Sound, Numbered, Request, Idle
<1>2. Current = p /\ Current' = q
  BY <1>1, MovesCurrent DEF Idle
<1>3. InHand(p) = {} /\ InHand(q) = {} /\ DraftOf(q, world') = world'
  BY <1>1, Outside
<1>4. PhaseOf(p) = "settled" /\ PhaseOf(q) = "logged"
  BY <1>1 DEF PhaseOf
<1>5. \E s \in Faded(world.rows.slow), f \in Faded(world.rows.fast) :
         world' = [world EXCEPT !.rows.slow = s, !.rows.fast = f]
  BY DEF WriteLog
<1>6. \E s \in ImplementedCampaign!Fading(world.rows.slow),
         f \in ImplementedCampaign!Fading(world.rows.fast) :
         world' = [world EXCEPT !.rows.slow = s, !.rows.fast = f]
  BY <1>5, SameRules
<1> HIDE DEF p, q
<1> QED BY <1>1, <1>2, <1>3, <1>4, <1>6
       DEF ImplementedCampaign!Log, ImplementedCampaign!Turn, DraftOf

LEMMA MeterIsMeter ==
  ASSUME IInv, CInv, IInv', NEW r \in Requests, Meter(r)
  PROVE  ImplementedCampaign!Meter
<1> DEFINE p == req[r]
           q == req'[r]
<1>1. /\ p.at = "meter" /\ q = NoRequest /\ Finish(r)
      /\ telemetry' = Append(telemetry, p.turn)
      /\ UNCHANGED <<world, chronicle, log>>
  BY DEF Meter, Finish, IInv, TypeOK
<1>2. Current = p /\ Current' = NoRequest
  BY <1>1, MovesCurrent DEF Idle
<1>3. p.turn = Len(log)
  BY <1>1 DEF CInv, Staged
<1>4. NoRequest.at = "idle"
  BY EmptyRequest DEF Idle
<1>5. /\ InHand(p) = {} /\ InHand(NoRequest) = {}
      /\ DraftOf(p, world) = world /\ DraftOf(NoRequest, world') = world'
  BY <1>1, <1>4, Outside
<1>6. PhaseOf(p) = "logged" /\ PhaseOf(NoRequest) = "rest"
  BY <1>1, <1>4 DEF PhaseOf
<1> HIDE DEF p, q
<1> QED BY <1>1, <1>2, <1>3, <1>5, <1>6 DEF ImplementedCampaign!Meter, DraftOf

\* A provider that fails, a process that dies.
LEMMA FailureAbandons ==
  ASSUME IInv, IInv', NEW r \in Requests, NarratorFails(r) \/ Crash(r)
  PROVE  ImplementedCampaign!Abandon
<1>1. /\ req[r].at # Idle /\ Finish(r) /\ req'[r] = NoRequest
      /\ UNCHANGED <<world, chronicle, log, telemetry>>
  BY DEF NarratorFails, Crash, Finish, IInv, TypeOK, Idle
<1>2. Current' = NoRequest
  BY <1>1, MovesCurrent
<1>3. NoRequest.at = "idle"
  BY EmptyRequest DEF Idle
<1>4. InHand(NoRequest) = {} /\ DraftOf(NoRequest, world') = world'
  BY <1>3, Outside
<1>5. PhaseOf(NoRequest) = "rest"
  BY <1>3 DEF PhaseOf
<1> QED BY <1>1, <1>2, <1>4, <1>5 DEF ImplementedCampaign!Abandon, DraftOf

\* The transaction's COMMIT hands the world the whole batch.
LEMMA CommitIsWhole ==
  ASSUME IInv, CInv, IInv', NEW r \in Requests, Commit(r)
  PROVE  ImplementedCampaign!Act \/ ImplementedCampaign!Settle
<1> DEFINE p == req[r]
           q == req'[r]
<1>1. /\ p.at = "write" /\ p.pass \in {1, 2} /\ world' = p.draft
      /\ UNCHANGED <<chronicle, log, telemetry>>
  BY DEF Commit, IInv, TypeOK, Request
<1>2. /\ q.at = IF p.pass = 1 THEN "remember" ELSE "scan"
      /\ q.pass = p.pass /\ q.seen = p.seen
  BY DEF Commit, NoRequest, IInv, TypeOK
<1>3. Current = p /\ Current' = q
  BY <1>1, MovesCurrent DEF Idle
<1>4. DraftOf(p, world) = p.draft
  BY <1>1 DEF DraftOf
<1>5. InHand(q) = {} /\ Before(q) = p.seen /\ DraftOf(q, world') = world'
  BY <1>2, Outside
<1>6. CASE p.pass = 1
  <2>1. PhaseOf(p) = "rest" /\ PhaseOf(q) = "acted"
    BY <1>1, <1>2, <1>6 DEF PhaseOf
  <2>2. p.seen = InHand(p)
    BY <1>1, <1>6 DEF CInv, Unrepeated
  <2> HIDE DEF p, q
  <2> QED BY <1>1, <1>3, <1>4, <1>5, <2>1, <2>2 DEF ImplementedCampaign!Act, DraftOf
<1>7. CASE p.pass = 2
  <2>1. PhaseOf(p) = "faded" /\ PhaseOf(q) = "settled"
    BY <1>1, <1>2, <1>7 DEF PhaseOf
  <2> HIDE DEF p, q
  <2> QED BY <1>1, <1>3, <1>4, <1>5, <2>1 DEF ImplementedCampaign!Settle, DraftOf
<1> QED BY <1>1, <1>6, <1>7

\* While a fact waits to be written, the draft has room for it: the validator
\* counted it among those it let through.
LEMMA RoomIsLeft ==
  ASSUME IInv, FInv, NEW r \in Requests, req[r].at = "write",
         req[r].written < Len(req[r].verdicts),
         req[r].verdicts[req[r].written + 1].delta.kind = "fact",
         ~Reinforces(req[r].verdicts[req[r].written + 1].delta.to, Told(req[r].draft.facts))
  PROVE  Cardinality(SaidIn(req[r].draft.facts, req[r].turn)) < FactLimit
<1> DEFINE o == req[r]
           k == o.written + 1
           F == world.facts
           S == Fresh(o.verdicts, F)
           W == Entered(o, F)
<1>1. /\ o \in Request /\ F \in Seq(Fact) /\ Counted(o, F) /\ o.turn \in 1..MaxTurns
      /\ o.draft.facts \in Seq(Fact)
  BY DEF IInv, TypeOK, World, FInv, Sound, Numbered, Idle, Request
<1>2. /\ o.verdicts \in Seq(Verdict) /\ o.written \in Nat /\ k \in 1..Len(o.verdicts)
      /\ o.new \in Seq(Statements)
  BY <1>1, SMTT(30) DEF Request
<1>3. /\ Cardinality(SaidIn(o.draft.facts, o.turn)) <=
           Cardinality(SaidIn(F, o.turn)) + Cardinality(W)
      /\ Cardinality(SaidIn(F, o.turn)) + Len(o.new) <= FactLimit
      /\ Cardinality(S) <= Len(o.new)
      /\ Told(F) \subseteq Told(o.draft.facts)
  BY <1>1 DEF Counted
<1>4. ~Reinforces(o.verdicts[k].delta.to, Told(F))
  <2>1. ~Reinforces(o.verdicts[k].delta.to, Told(o.draft.facts))
    OBVIOUS
  <2>2. Told(F) \subseteq Told(o.draft.facts)
    BY <1>3
  <2> HIDE DEF o, k, F
  <2> QED BY <2>1, <2>2 DEF Reinforces
<1>5. W \cup {k} \in SUBSET S /\ k \notin W /\ W \in SUBSET S
  <2>1. W = {i \in S : i <= o.written}
    BY DEF Entered
  <2>2. k \in S
    BY <1>2, <1>4 DEF Fresh
  <2>3. ~(k <= o.written)
    BY <1>2
  <2> HIDE DEF S, W, k, o
  <2> QED BY <2>1, <2>2, <2>3
<1> HIDE DEF S, W, k
<1>6. /\ IsFiniteSet(W) /\ Cardinality(W) \in Nat /\ Cardinality(W \cup {k}) <= Cardinality(S)
      /\ Cardinality(S) \in Nat
  BY <1>2, <1>5, FreshFinite DEF S
<1>7. Cardinality(W \cup {k}) = Cardinality(W) + 1
  BY <1>5, <1>6, FS_AddElement
<1>8. /\ Cardinality(SaidIn(o.draft.facts, o.turn)) \in Nat
      /\ Cardinality(SaidIn(F, o.turn)) \in Nat /\ Len(o.new) \in Nat /\ FactLimit \in Nat
  BY <1>1, <1>2, SaidFinite, TurnAssumption
<1> HIDE DEF F, o
<1> QED BY <1>3, <1>6, <1>7, <1>8 DEF o

\* What the transaction writes is what the delta does, lawfully, to the draft.
LEMMA WriteTakesEffect ==
  ASSUME IInv, FInv, CInv, IInv', NEW r \in Requests, Write(r)
  PROVE  ImplementedCampaign!TakeEffect
<1> DEFINE p == req[r]
           q == req'[r]
           v == p.verdicts[p.written + 1]
           d == v.delta
           w == p.draft
<1>1. /\ p.at = "write" /\ p.written < Len(p.verdicts)
      /\ p \in Request /\ p.turn = Len(log) + 1 /\ p.pass \in {1, 2}
      /\ UNCHANGED <<world, chronicle, log, telemetry>>
  BY DEF Write, IInv, TypeOK, Request, Sound, Numbered, Idle
<1>2. /\ w \in World /\ d \in Deltas /\ p.written \in Nat
      /\ p.written + 1 \in 1..Len(p.verdicts)
      /\ ~Refused(w.rows, d) /\ v.n = Change(w.rows, d)
      /\ ~RefusedLate(w.rows, d)
      /\ Written(w.rows, d, v.n) = Moved(w.rows, d, v.n)
      /\ d.kind = "fact" => ~Clashes(d.to, w.facts)
      /\ Applies(w, d)
  BY <1>1, NothingRefusedLate
<1>3. /\ q.at = "write" /\ q.pass = p.pass /\ q.verdicts = p.verdicts
      /\ q.written = p.written + 1 /\ q.seen = p.seen \cup {d}
      /\ q.draft = Draft(w, v, p.turn)
  BY <1>1, <1>2 DEF Write, IInv, TypeOK, Request
<1>4. Current = p /\ Current' = q
  BY <1>1, MovesCurrent DEF Idle
<1>5. DraftOf(p, world) = w /\ DraftOf(q, world') = q.draft
  BY <1>1, <1>3 DEF DraftOf
<1>6. InHand(q) = InHand(p) \cup {d}
  BY <1>1, <1>2, <1>3, InHandGrows
<1>7. d \notin Before(p)
  BY <1>1, <1>2 DEF CInv, Unrepeated
<1>8. Before(q) = Before(p)
  <2> HIDE DEF d, p, q
  <2> QED BY <1>3, <1>6, <1>7 DEF Before
<1>9. PhaseOf(q) = PhaseOf(p) /\ PhaseOf(p) \in {"rest", "faded"}
  BY <1>1, <1>3 DEF PhaseOf
<1>10. d.kind = "fact" =>
         /\ ~Contradicts(d.to, Told(w.facts))
         /\ \/ Reinforces(d.to, Told(w.facts))
            \/ Cardinality(SaidIn(w.facts, Len(log) + 1)) < FactLimit
  BY <1>1, <1>2, RoomIsLeft DEF Clashes
<1>11. q.draft = [ rows    |-> Moved(w.rows, d, Change(w.rows, d)),
                   history |-> IF d.kind = "lead_transition" THEN Append(w.history, d.to)
                               ELSE w.history,
                   facts   |-> IF d.kind = "fact" /\ ~Reinforces(d.to, Told(w.facts))
                               THEN Append(w.facts, [said |-> d.to, turn |-> Len(log) + 1])
                               ELSE w.facts ]
  <2> HIDE DEF d, w, q, p
  <2> QED BY <1>1, <1>2, <1>3 DEF Draft, FactsWith, d
<1> HIDE DEF p, q, v, d, w
<1>12. ImplementedCampaign!Lawful(w, d)
  <2> DEFINE F == w.facts
             turn == Len(log) + 1
  <2>1. ImplementedCampaign!Refused(w.rows, d) <=> Refused(w.rows, d)
    BY SameRules
  <2>2. /\ ImplementedCampaign!Told(F) = Told(F)
        /\ ImplementedCampaign!SaidIn(F, turn) = SaidIn(F, turn)
    BY SameRules
  <2>3. /\ ImplementedCampaign!Contradicts(d.to, Told(F)) <=> Contradicts(d.to, Told(F))
        /\ ImplementedCampaign!Reinforces(d.to, Told(F)) <=> Reinforces(d.to, Told(F))
    BY SameRules
  <2>4. ImplementedCampaign!Turn = turn
    BY DEF ImplementedCampaign!Turn
  <2>5. ASSUME d.kind = "fact"
        PROVE  /\ ~ImplementedCampaign!Contradicts(d.to, ImplementedCampaign!Told(F))
               /\ \/ ImplementedCampaign!Reinforces(d.to, ImplementedCampaign!Told(F))
                  \/ ImplementedCampaign!Cardinality(
                          ImplementedCampaign!SaidIn(F, ImplementedCampaign!Turn)) < FactLimit
    BY <1>10, <2>2, <2>3, <2>4, <2>5, SameCardinality
  <2> QED BY <1>2, <2>1, <2>5 DEF ImplementedCampaign!Lawful
<1>13. q.draft = ImplementedCampaign!After(w, d)
  BY <1>11, SameRules DEF ImplementedCampaign!After, ImplementedCampaign!Turn
<1>14. PhaseOf(Current) \in {"rest", "faded"} /\ PhaseOf(Current') = PhaseOf(Current)
  BY <1>4, <1>9
<1>15. d \in Deltas \ DoneOf(Current) /\ DoneOf(Current') = DoneOf(Current)
  BY <1>2, <1>4, <1>7, <1>8, <1>9 DEF DoneOf
<1> QED BY <1>1, <1>4, <1>5, <1>6, <1>12, <1>13, <1>14, <1>15
       DEF ImplementedCampaign!TakeEffect, DraftOf, DoneOf

\* Every turn of the engine is one of the abstract campaign: the validator's
\* copies, the transaction that reads the rows anew, the keys of what was
\* applied and the lock leave its batches whole, lawful and unrepeated, and its
\* failures leave nothing else.
THEOREM CampaignImplemented == Spec => ImplementsCampaign
<1>1. Init => ImplementedCampaign!Init
  <2> SUFFICES ASSUME Init PROVE ImplementedCampaign!Init
    OBVIOUS
  <2>1. /\ world = Seeded /\ chronicle = <<>> /\ log = <<>> /\ telemetry = <<>>
        /\ \A r \in Requests : req[r].at = Idle
    BY EmptyRequest DEF Init
  <2>2. Current = NoRequest
    BY <2>1 DEF Current
  <2>3. NoRequest.at = "idle" /\ InHand(NoRequest) = {} /\ PhaseOf(NoRequest) = "rest"
    BY EmptyRequest DEF Idle, InHand, PhaseOf
  <2> QED BY <2>1, <2>2, <2>3 DEF ImplementedCampaign!Init
<1>2. Init => CInv
  BY EmptyRequest DEF Init, CInv, Unrepeated, Harmless, Staged, InHand, NoRequest, Idle
<1>3. IInv /\ FInv /\ CInv /\ [Next]_vars => CInv'
  BY NextCInv
<1>4. IInv /\ FInv /\ CInv /\ IInv' /\ [Next]_vars
        => [ImplementedCampaign!Next]_(ImplementedCampaign!campaignVars)
  <2> SUFFICES ASSUME IInv, FInv, CInv, IInv', [Next]_vars
               PROVE  ImplementedCampaign!Next \/ UNCHANGED ImplementedCampaign!campaignVars
    OBVIOUS
  <2>1. CASE UNCHANGED vars
    <3>1. UNCHANGED <<world, chronicle, log, telemetry, req>>
      BY <2>1 DEF vars
    <3>2. Current' = Current
      BY <3>1 DEF Current
    <3> QED BY <3>1, <3>2 DEF ImplementedCampaign!campaignVars
  <2>2. ASSUME NEW r \in Requests,
               Begin(r) \/ Narrated(r) \/ Correct(r) \/ Judge(r) \/ OpenTransaction(r)
        PROVE  UNCHANGED ImplementedCampaign!campaignVars
    BY <2>2, BeginUnseen, NarratedUnseen, JudgeUnseen
  <2>3. ASSUME NEW r \in Requests, Pass(r)
        PROVE  ImplementedCampaign!Next \/ UNCHANGED ImplementedCampaign!campaignVars
    BY <2>3, PassSettles DEF ImplementedCampaign!Next
  <2>4. ASSUME NEW r \in Requests,
               \/ Write(r) \/ Commit(r) \/ Remember(r) \/ FadeMood(r) \/ WriteLog(r) \/ Meter(r)
               \/ NarratorFails(r) \/ Crash(r)
        PROVE  ImplementedCampaign!Next
    BY <2>4, WriteTakesEffect, CommitIsWhole, RememberIsRecall, FadeMoodIsFade, WriteLogIsLog,
       MeterIsMeter, FailureAbandons DEF ImplementedCampaign!Next
  <2> QED BY <2>1, <2>2, <2>3, <2>4 DEF Next
<1>5. QED
  BY <1>1, <1>2, <1>3, <1>4, Invariance, FactRateInvariance, PTL
     DEF Spec, ImplementsCampaign, ImplementedCampaign!Spec
=============================================================================
