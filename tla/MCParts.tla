------------------------------ MODULE MCParts ------------------------------
(***************************************************************************)
(* Small instances of the parts of the system that keep to themselves.  A  *)
(* behaviour is one of one part: the others stay where they start, so each *)
(* part is explored whole and never multiplied by another.                 *)
(***************************************************************************)
EXTENDS EngineMemory, PromptBudget, NarratorLink, EngineMind, Canon, Combat, Pilot, Telling, Regard, Wizard, TLC

CONSTANTS
    sa, sb, sc,   \* statements
    c1, c2,       \* chronicles
    mild, free,   \* boundaries
    plain         \* an answer of the wizard

VARIABLE part

partsVars == <<part, memoryVars, budgetVars, linkVars, mindVars, canonVars, combatVars, pilotVars, tellingVars, regardVars, wizardVars>>

\* Neither chronicle is told from the other.
TalesAlike == Permutations({c1, c2})

TwoAlike == {<<sa, sa>>, <<sb, sb>>, <<sc, sc>>, <<sa, sb>>, <<sb, sa>>}
\* A vow pins an oath; the stock line denies the law, where there is one.
LoreOf == [c \in Claims |-> IF c = "vow" THEN {"oath"} ELSE {}]
Denials == {<<"denial", "oath">>, <<"stock", "law">>}
Ghosts == {<<"ghost", "anselm">>}
Boasts == {<<"denial", "spend">>}
LawOrNone == {{}, {"law"}}

HeroIsStrong == [x \in Fighters |-> IF x = "hero" THEN 6 ELSE 4]
HeroIsClad == [x \in Fighters |-> IF x = "hero" THEN 1 ELSE 0]
BlowAndBalm == {[damage |-> 10, healing |-> 0, cost |-> 3], [damage |-> 0, healing |-> 10, cost |-> 3]}
Costs == [k \in {Light, Heavy, "sprint", "block", "env"} |-> IF k \in {Light, "env"} THEN 1 ELSE 3]

Typed == {{"persuade", "marla"}, {"recall"}, {"drink", "conjure"}, {"inn"}, {"spend"}}
Made(form, words, spoken, shut) == [form |-> form, told |-> words, spoken |-> spoken, shut |-> shut]
Tales ==
    { Made("object", <<{"gain"}, {"reward"}, {"calm"}>>, "other", FALSE),
      Made("salvage", <<{"quote"}, {"keepsake"}, {"gain"}, {"runon"}, {"return"}, {"arrive"}>>, "quote", FALSE),
      Made("scaffold", <<>>, "none", TRUE),
      Made("long", <<{"gain", "reward"}, {"calm"}>>, "none", FALSE),
      Made("short", <<{"return", "reward"}, {"arrive"}>>, "none", FALSE) }
EmptyOrBroken == {NoSettings, [name |-> "compat", whole |-> FALSE, key |-> TRUE]}
Warmth == {-3, 7}

Happened(text, kind, delta, salience, word, level) ==
    [text |-> text, kind |-> kind, delta |-> delta, salience |-> salience, mood |-> word, level |-> level]
Happenings ==
    { Happened("talked", "conversation", 5, 2, "warm", 5000),
      Happened("leaned on", "intimidation", -20, 3, "afraid", 6000),
      Happened("flirted", "flirt", 3, 1, "flirty", 6000),
      Happened(Carts, "conversation", 5, 2, "amused", 4000) }

Roll == {[s \in 1..Asked |-> plain]}

PartsInit ==
    /\ part \in {"memory", "budget", "link", "mind", "canon", "combat", "pilot", "telling", "regard", "wizard"}
    /\ MemoryInit /\ BudgetInit /\ LinkInit /\ MindInit /\ CanonInit
    /\ CombatInit /\ PilotInit /\ TellingInit /\ RegardInit /\ WizardInit
    \* What another part starts from does not matter.
    /\ part # "link" => cache = "none"
    /\ part # "canon" => canon = {"law"}
    /\ part # "combat" => mode = "standard"
    /\ part # "pilot" => stored = "absent" /\ key
    /\ hero.near /\ hero.shift = 7
    /\ part # "telling" => env = "whole" /\ row = NoSettings
    /\ part # "regard" => who = "anselm" /\ nsfw

MemoryStep ==
    /\ part = "memory" /\ MemoryNext
    /\ UNCHANGED <<part, budgetVars, linkVars, mindVars, canonVars, combatVars, pilotVars, tellingVars, regardVars, wizardVars>>
BudgetStep ==
    /\ part = "budget" /\ BudgetNext
    /\ UNCHANGED <<part, memoryVars, linkVars, mindVars, canonVars, combatVars, pilotVars, tellingVars, regardVars, wizardVars>>
LinkStep ==
    /\ part = "link" /\ LinkNext
    /\ UNCHANGED <<part, memoryVars, budgetVars, mindVars, canonVars, combatVars, pilotVars, tellingVars, regardVars, wizardVars>>
MindStep ==
    /\ part = "mind" /\ MindNext
    /\ UNCHANGED <<part, memoryVars, budgetVars, linkVars, canonVars, combatVars, pilotVars, tellingVars, regardVars, wizardVars>>
CanonStep ==
    /\ part = "canon" /\ CanonNext
    /\ UNCHANGED <<part, memoryVars, budgetVars, linkVars, mindVars, combatVars, pilotVars, tellingVars, regardVars, wizardVars>>
CombatStep ==
    /\ part = "combat" /\ CombatNext
    /\ UNCHANGED <<part, memoryVars, budgetVars, linkVars, mindVars, canonVars, pilotVars, tellingVars, regardVars, wizardVars>>
PilotStep ==
    /\ part = "pilot" /\ PilotNext
    /\ UNCHANGED <<part, memoryVars, budgetVars, linkVars, mindVars, canonVars, combatVars, tellingVars, regardVars, wizardVars>>
TellingStep ==
    /\ part = "telling" /\ TellingNext
    /\ UNCHANGED <<part, memoryVars, budgetVars, linkVars, mindVars, canonVars, combatVars, pilotVars, regardVars, wizardVars>>
RegardStep ==
    /\ part = "regard" /\ RegardNext
    /\ UNCHANGED <<part, memoryVars, budgetVars, linkVars, mindVars, canonVars, combatVars, pilotVars, tellingVars, wizardVars>>
WizardStep ==
    /\ part = "wizard" /\ WizardNext
    /\ UNCHANGED <<part, memoryVars, budgetVars, linkVars, mindVars, canonVars, combatVars, pilotVars, tellingVars, regardVars>>

PartsNext ==
    \/ MemoryStep \/ BudgetStep \/ LinkStep \/ MindStep \/ CanonStep
    \/ CombatStep \/ PilotStep \/ TellingStep \/ RegardStep \/ WizardStep

PartsSpec == PartsInit /\ [][PartsNext]_partsVars

\* The other parts stay where they started: a state is told by its own.
OwnPart ==
    CASE part = "memory" -> memoryVars
      [] part = "budget" -> budgetVars
      [] part = "link" -> linkVars
      [] part = "mind" -> mindVars
      [] part = "canon" -> canonVars
      [] part = "combat" -> combatVars
      [] part = "pilot" -> pilotVars
      [] part = "telling" -> tellingVars
      [] part = "regard" -> regardVars
      [] part = "wizard" -> wizardVars

\* The part at work keeps its types.
TypeOK ==
    /\ part = "memory" => MemoryTypeOK
    /\ part = "budget" => BudgetTypeOK
    /\ part = "link" => LinkTypeOK
    /\ part = "mind" => MindTypeOK
    /\ part = "canon" => CanonTypeOK
    /\ part = "combat" => CombatTypeOK
    /\ part = "pilot" => PilotTypeOK
    /\ part = "telling" => TellingTypeOK
    /\ part = "regard" => RegardTypeOK
    /\ part = "wizard" => WizardTypeOK
=============================================================================
