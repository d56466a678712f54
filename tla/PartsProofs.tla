---------------------------- MODULE PartsProofs ----------------------------
(***************************************************************************)
(* The parts side by side (MCParts).  Only one of them moves, and as its   *)
(* own module says: what is proved of each holds of them together.         *)
(***************************************************************************)
EXTENDS MCParts, EngineProofs, CombatProofs, PlayerProofs, WizardProofs, TLAPS

\* A step of one part is no step of another, and which part moves is settled.
LEMMA OnePartMoves ==
    ASSUME [PartsNext]_partsVars
    PROVE  /\ part' = part
           /\ part = "memory" => [MemoryNext]_memoryVars
           /\ part = "budget" => [BudgetNext]_budgetVars
           /\ part = "link" => [LinkNext]_linkVars
           /\ part = "mind" => [MindNext]_mindVars
           /\ part = "canon" => [CanonNext]_canonVars
           /\ part = "combat" => [CombatNext]_combatVars
           /\ part = "pilot" => [PilotNext]_pilotVars
           /\ part = "telling" => [TellingNext]_tellingVars
           /\ part = "regard" => [RegardNext]_regardVars
           /\ part = "wizard" => [WizardNext]_wizardVars
<1>1. CASE UNCHANGED partsVars
  BY <1>1 DEF partsVars
<1>2. CASE MemoryStep
  BY <1>2 DEF MemoryStep
<1>3. CASE BudgetStep
  BY <1>3 DEF BudgetStep
<1>4. CASE LinkStep
  BY <1>4 DEF LinkStep
<1>5. CASE MindStep
  BY <1>5 DEF MindStep
<1>6. CASE CanonStep
  BY <1>6 DEF CanonStep
<1>7. CASE CombatStep
  BY <1>7 DEF CombatStep
<1>8. CASE PilotStep
  BY <1>8 DEF PilotStep
<1>9. CASE TellingStep
  BY <1>9 DEF TellingStep
<1>10. CASE RegardStep
  BY <1>10 DEF RegardStep
<1>11. CASE WizardStep
  BY <1>11 DEF WizardStep
<1> QED
  BY <1>1, <1>2, <1>3, <1>4, <1>5, <1>6, <1>7, <1>8, <1>9, <1>10, <1>11 DEF PartsNext

\* The engine's parts: whichever moves keeps its types.
LEMMA EngineTyped ==
    PartsSpec => /\ [](part = "memory" => MemoryTypeOK)
                 /\ [](part = "budget" => BudgetTypeOK)
                 /\ [](part = "link" => LinkTypeOK)
                 /\ [](part = "mind" => MindTypeOK)
                 /\ [](part = "canon" => CanonTypeOK)
<1>1. PartsInit => MemoryInit /\ BudgetInit /\ LinkInit /\ MindInit /\ CanonInit
  BY DEF PartsInit
<1>2. [PartsNext]_partsVars => (part = "memory" <=> (part = "memory")')
                               /\ (part = "memory" => [MemoryNext]_memoryVars)
  BY OnePartMoves
<1>3. [PartsNext]_partsVars => (part = "budget" <=> (part = "budget")')
                               /\ (part = "budget" => [BudgetNext]_budgetVars)
  BY OnePartMoves
<1>4. [PartsNext]_partsVars => (part = "link" <=> (part = "link")')
                               /\ (part = "link" => [LinkNext]_linkVars)
  BY OnePartMoves
<1>5. [PartsNext]_partsVars => (part = "mind" <=> (part = "mind")')
                               /\ (part = "mind" => [MindNext]_mindVars)
  BY OnePartMoves
<1>6. [PartsNext]_partsVars => (part = "canon" <=> (part = "canon")')
                               /\ (part = "canon" => [CanonNext]_canonVars)
  BY OnePartMoves
<1>7. PartsSpec => [](part = "memory" => MemoryTypeOK)
  BY <1>1, <1>2, MemoryTyped, PTL DEF PartsSpec, MemorySpec
<1>8. PartsSpec => [](part = "budget" => BudgetTypeOK)
  BY <1>1, <1>3, PromptTyped, PTL DEF PartsSpec, BudgetSpec
<1>9. PartsSpec => [](part = "link" => LinkTypeOK)
  BY <1>1, <1>4, LinkTyped, PTL DEF PartsSpec, LinkSpec
<1>10. PartsSpec => [](part = "mind" => MindTypeOK)
  BY <1>1, <1>5, MindTyped, PTL DEF PartsSpec, MindSpec
<1>11. PartsSpec => [](part = "canon" => CanonTypeOK)
  BY <1>1, <1>6, CanonTyped, PTL DEF PartsSpec, CanonSpec
<1> QED
  BY <1>7, <1>8, <1>9, <1>10, <1>11

\* The fight, and the parts on the player's side.
LEMMA PlayTyped ==
    PartsSpec => /\ [](part = "combat" => CombatTypeOK)
                 /\ [](part = "pilot" => PilotTypeOK)
                 /\ [](part = "telling" => TellingTypeOK)
                 /\ [](part = "regard" => RegardTypeOK)
                 /\ [](part = "wizard" => WizardTypeOK)
<1>1. PartsInit => CombatInit /\ PilotInit /\ TellingInit /\ RegardInit /\ WizardInit
  BY DEF PartsInit
<1>2. [PartsNext]_partsVars => (part = "combat" <=> (part = "combat")')
                               /\ (part = "combat" => [CombatNext]_combatVars)
  BY OnePartMoves
<1>3. [PartsNext]_partsVars => (part = "pilot" <=> (part = "pilot")')
                               /\ (part = "pilot" => [PilotNext]_pilotVars)
  BY OnePartMoves
<1>4. [PartsNext]_partsVars => (part = "telling" <=> (part = "telling")')
                               /\ (part = "telling" => [TellingNext]_tellingVars)
  BY OnePartMoves
<1>5. [PartsNext]_partsVars => (part = "regard" <=> (part = "regard")')
                               /\ (part = "regard" => [RegardNext]_regardVars)
  BY OnePartMoves
<1>6. [PartsNext]_partsVars => (part = "wizard" <=> (part = "wizard")')
                               /\ (part = "wizard" => [WizardNext]_wizardVars)
  BY OnePartMoves
<1>7. PartsSpec => [](part = "combat" => CombatTypeOK)
  BY <1>1, <1>2, FightTyped, PTL DEF PartsSpec, CombatSpec
<1>8. PartsSpec => [](part = "pilot" => PilotTypeOK)
  BY <1>1, <1>3, PilotTyped, PTL DEF PartsSpec, PilotSpec
<1>9. PartsSpec => [](part = "telling" => TellingTypeOK)
  BY <1>1, <1>4, TellingTyped, PTL DEF PartsSpec, TellingSpec
<1>10. PartsSpec => [](part = "regard" => RegardTypeOK)
  BY <1>1, <1>5, RegardTyped, PTL DEF PartsSpec, RegardSpec
<1>11. PartsSpec => [](part = "wizard" => WizardTypeOK)
  BY <1>1, <1>6, TypeCorrect, PTL DEF PartsSpec, WizardSpec
<1> QED
  BY <1>7, <1>8, <1>9, <1>10, <1>11

\* The part at work keeps its types, whichever it is: the ten theorems of the
\* parts, of the behaviours the run explores.
THEOREM PartsTyped == PartsSpec => []TypeOK
<1>1. ( /\ part = "memory" => MemoryTypeOK
        /\ part = "budget" => BudgetTypeOK
        /\ part = "link" => LinkTypeOK
        /\ part = "mind" => MindTypeOK
        /\ part = "canon" => CanonTypeOK
        /\ part = "combat" => CombatTypeOK
        /\ part = "pilot" => PilotTypeOK
        /\ part = "telling" => TellingTypeOK
        /\ part = "regard" => RegardTypeOK
        /\ part = "wizard" => WizardTypeOK ) => TypeOK
  BY DEF TypeOK
<1> QED
  BY <1>1, EngineTyped, PlayTyped, PTL
=============================================================================
