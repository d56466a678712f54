----------------------------- MODULE DeltaRules -----------------------------
(***************************************************************************)
(* What the validator of the narrative engine (engine/src/engine/          *)
(* validate.py) makes of one state delta the model proposes: whether it is *)
(* refused, how far a number is clamped, how the running copy of the batch *)
(* moves, and what the commit writes into the rows it reads again.         *)
(*                                                                         *)
(* One character, one item, one status, one lead, one NPC: deltas on       *)
(* different rows never meet, and the resolution of a target is the same   *)
(* for all.  A target that resolves to nothing, a missing key, a dead NPC  *)
(* and a fact that revives one are refused whatever the state; such deltas *)
(* are left out of the set a run proposes.                                 *)
(***************************************************************************)
EXTENDS Integers, Sequences

CONSTANTS
    MaxHp,        \* stats["max_hp"]
    StatLow,      \* stat_bounds of the other stats
    StatHigh,
    MoodBound,    \* MOOD_CEILING, and -MOOD_FLOOR
    BondBound,    \* RELATIONSHIP_CEILING, and -RELATIONSHIP_FLOOR
    EventBound,   \* config.memory.relationship_event_bound
    DurableMin,   \* DURABLE_DELTA_MIN: the least |delta| that stays by default
    SlowMin,      \* SLOW_DELTA_MIN: the least that fades slowly
    Statements,   \* what a fact may say
    Reasons,      \* what the narrator may give as its reason
    Conflicts,    \* <<new, old>>: conflict_reason finds one
    Alike         \* <<new, old>>: similar enough to reinforce

ASSUME RulesAssumption ==
    /\ MaxHp \in Nat
    /\ StatLow \in Int /\ StatHigh \in Nat /\ StatLow <= 0
    /\ MoodBound \in Nat
    /\ BondBound \in Nat /\ EventBound \in Nat /\ DurableMin \in Nat /\ SlowMin \in Nat
    /\ Conflicts \subseteq Statements \X Statements
    /\ Alike \subseteq Statements \X Statements

\* LEAD_TRANSITIONS
Stages == {"unheard", "rumored", "accepted", "in_progress", "complicated",
           "resolved", "failed", "abandoned"}
Onward(stage) ==
    CASE stage = "unheard"     -> {"rumored", "abandoned"}
      [] stage = "rumored"     -> {"accepted", "abandoned"}
      [] stage = "accepted"    -> {"in_progress", "failed", "abandoned"}
      [] stage = "in_progress" -> {"complicated", "resolved", "failed", "abandoned"}
      [] stage = "complicated" -> {"in_progress", "resolved", "failed", "abandoned"}
      [] OTHER                 -> {}

\* The rows a delta can move; what the validator copies to check a batch.
Rows ==
    [ purse   : Int,       \* stats["currency"]
      hp      : Int,       \* stats["hp"]
      might   : Int,       \* any other stat
      held    : Int,       \* qty of the item, 0: no entry
      marked  : BOOLEAN,   \* the status is on the character
      stage   : Stages,    \* leads.stage
      mood    : Int,       \* moods.valence
      durable : Int,       \* current worth of the ledger rows of each class,
      slow    : Int,       \* the NPC's anchor among the durable ones
      fast    : Int ]

\* DECAY_CLASSES; one row fades by a factor of its class for each turn, and so
\* does the worth of all the rows of a class.
DecayClasses == {"durable", "slow", "fast"}
Bond(w) == w.durable + w.slow + w.fast

StatNames == {"might", "hp", "purse"}
Numeric == {"currency", "inventory_add", "inventory_remove", "hp", "stat", "mood",
            "relationship"}
Kinds == Numeric \cup {"status_add", "status_remove", "lead_transition", "fact"}

\* One proposed delta: its number, what it names (a stat, a stage, a decay
\* class or "", a statement), and a reason, which no rule reads but which makes
\* two deltas two (_delta_key).
Delta ==
    {d \in [kind : Kinds, n : Int, to : Statements \cup Stages \cup StatNames
                                      \cup DecayClasses \cup {""},
         reason : Reasons] :
        /\ d.kind = "stat" => d.to \in StatNames
        /\ d.kind = "lead_transition" => d.to \in Stages
        /\ d.kind = "relationship" => d.to \in DecayClasses \cup {""}
        /\ d.kind = "fact" => d.to \in Statements}

Low(x, y) == IF x < y THEN x ELSE y
High(x, y) == IF x > y THEN x ELSE y
Clamp(x, lo, hi) == High(lo, Low(hi, x))
Abs(x) == IF x < 0 THEN -x ELSE x

-----------------------------------------------------------------------------
(* Validation, against the running copy w of the batch *)

\* Conservation and legality refuse outright, nothing is applied in part.
Refused(w, d) ==
    \/ d.kind = "currency" /\ w.purse + d.n < 0
    \/ d.kind \in {"inventory_add", "inventory_remove"} /\ d.n <= 0
    \/ d.kind = "inventory_remove" /\ w.held < d.n
    \/ d.kind = "status_remove" /\ ~w.marked
    \/ d.kind = "lead_transition" /\ d.to \notin Onward(w.stage)

\* Slip: the bound of one event without the bound of the meter.
SlackUnbounded(bond, n) == n

\* A bond that stands beyond its bound can only be pushed back.
Slack(bond, n) ==
    IF n > 0 THEN Low(n, High(0, BondBound - bond))
             ELSE High(n, Low(0, -BondBound - bond))

\* The change that is let through: numbers with a range are clamped.
Change(w, d) ==
    CASE d.kind = "hp"   -> Clamp(w.hp + d.n, 0, MaxHp) - w.hp
      [] d.kind = "stat" -> Clamp(w[d.to] + d.n, StatLow, StatHigh) - w[d.to]
      [] d.kind = "mood" -> Clamp(w.mood + Clamp(d.n, -MoodBound, MoodBound),
                                  -MoodBound, MoodBound) - w.mood
      [] d.kind = "relationship" ->
           Slack(Bond(w), Clamp(d.n, -EventBound, EventBound))
      [] d.kind = "inventory_remove" -> -d.n
      [] OTHER -> d.n

\* An untagged ledger row is classed by the size of what was applied.
DecayClass(d, n) ==
    IF d.to # "" THEN d.to
    ELSE IF Abs(n) >= DurableMin THEN "durable"
    ELSE IF Abs(n) >= SlowMin THEN "slow" ELSE "fast"

\* The row a number goes to.
Field(d, n) ==
    CASE d.kind = "currency" -> "purse"
      [] d.kind \in {"inventory_add", "inventory_remove"} -> "held"
      [] d.kind = "stat" -> d.to
      [] d.kind = "relationship" -> DecayClass(d, n)
      [] OTHER -> d.kind

\* The running copy once d is let through with change n.
Moved(w, d, n) ==
    CASE d.kind \in Numeric          -> [w EXCEPT ![Field(d, n)] = @ + n]
      [] d.kind = "status_add"       -> [w EXCEPT !.marked = TRUE]
      [] d.kind = "status_remove"    -> [w EXCEPT !.marked = FALSE]
      [] d.kind = "lead_transition"  -> [w EXCEPT !.stage = d.to]
      [] d.kind = "fact"             -> w

-----------------------------------------------------------------------------
(* The commit, against the row w as it is read again *)

\* What the rows no longer allow is refused even now.
RefusedLate(w, d) ==
    \/ d.kind = "inventory_remove" /\ w.held = 0
    \/ d.kind = "status_remove" /\ ~w.marked

\* Clamps are applied once more, a purse is not checked again.
Written(w, d, n) ==
    CASE d.kind = "hp"   -> [w EXCEPT !.hp = Clamp(@ + n, 0, MaxHp)]
      [] d.kind = "stat" -> [w EXCEPT ![d.to] = Clamp(@ + n, StatLow, StatHigh)]
      [] d.kind = "mood" -> [w EXCEPT !.mood = Clamp(@ + n, -MoodBound, MoodBound)]
      [] d.kind = "inventory_remove" -> [w EXCEPT !.held = High(0, @ + n)]
      [] OTHER -> Moved(w, d, n)

-----------------------------------------------------------------------------
(* Facts: what is said against a set of statements already told *)

Contradicts(said, told) == \E old \in told : <<said, old>> \in Conflicts
Reinforces(said, told) ==
    said \in told \/ \E old \in told : <<said, old>> \in Alike
=============================================================================
