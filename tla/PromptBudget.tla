---------------------------- MODULE PromptBudget ----------------------------
(***************************************************************************)
(* Prompt assembly under a token budget: ContextAssembler.assemble         *)
(* (engine/src/engine/context.py), a section at a time, an item at a time. *)
(*                                                                         *)
(* A text is its length in characters; what is in it, and how relevance    *)
(* ranked it, is left open.  A section's items are offered in the order    *)
(* they are kept by: the most wanted first.                                *)
(***************************************************************************)
EXTENDS Integers, FiniteSets

CONSTANTS
    Windows,     \* context windows, in tokens
    Rulesets,    \* lengths of the static system block
    Policies,    \* lengths of the content policy, 0 when there is none
    Outcomes,    \* lengths of the mechanical outcome's section
    Pinned,      \* lengths of the pinned facts' section, 0 when there is none
    ItemLengths, \* lengths of a line of another section
    MaxItems,    \* bound on the items offered to a section
    ReservePct, SystemPct, ScenePct, MemoryPct, ContinuityPct

Sections == {"scene", "npc_memory", "leads", "chronicle", "saga"}

ASSUME BudgetAssumption ==
    /\ \A S \in {Windows, Rulesets, Outcomes, ItemLengths} : S \subseteq Nat \ {0}
    /\ Policies \subseteq Nat /\ Pinned \subseteq Nat
    /\ MaxItems \in Nat
    /\ \A p \in {ReservePct, SystemPct, ScenePct, MemoryPct, ContinuityPct} : p \in Nat
    /\ ReservePct + SystemPct <= 100
    /\ ScenePct + MemoryPct + ContinuityPct <= 100

VARIABLES
    at,     \* the section that is filled
    plan,   \* what the window allows, and the groups' shares
    draft,  \* the section at work
    sizes,  \* tokens of each section in the prompt
    lost    \* sections named in the dropped list

budgetVars == <<at, plan, draft, sizes, lost>>

Stages == {"open", "done"} \cup Sections

AtMost(a, b) == IF a <= b THEN a ELSE b

\* estimate_tokens: a token for four characters, and never none.
Tokens(chars) == IF chars = 0 THEN 1 ELSE (chars + 3) \div 4

\* _pct, rounded down
Share(total, pct) == (total * pct) \div 100

\* Characters of a section's title line.
Title(s) ==
    CASE s = "scene" -> 8 [] s = "npc_memory" -> 13 [] s = "leads" -> 8
      [] s = "chronicle" -> 12 [] s = "saga" -> 7

EmptyDraft == [room |-> 0, used |-> 0, chars |-> 0, kept |-> 0, offered |-> 0,
               whole |-> 0, cut |-> FALSE]

BudgetInit ==
    /\ at = "open"
    /\ plan = [total |-> 0, fixed |-> 0, policy |-> 0, memory |-> 0, continuity |-> 0,
               over |-> FALSE]
    /\ draft = EmptyDraft
    /\ sizes = [s \in Sections |-> 0]
    /\ lost = {}

-----------------------------------------------------------------------------
(* Slips *)

\* The room is that of the group, the title not counted.
RoomUntitled(s, room) == room

\* The lower section of a group has the whole group.
LeftAll(group, taken) == group

\* Continuity gives all of its share.
GivenTwice(over, share) == share

-----------------------------------------------------------------------------
(* The plan *)

\* What a lower group gives to non-negotiables that outgrow the scene group.
Given(over, share) == AtMost(over, share)

\* _budget_plan, then the non-negotiables: they are never cut, and take what
\* they need from continuity first, then from memory.
Open ==
    /\ at = "open"
    /\ \E window \in Windows, ruleset \in Rulesets, policy \in Policies,
          outcome \in Outcomes, pinned \in Pinned :
         LET total == window - Share(window, ReservePct)
             system == Share(window, SystemPct)
             left == IF total > system THEN total - system ELSE 0
             scene == Share(left, ScenePct)
             memory == Share(left, MemoryPct)
             continuity == Share(left, ContinuityPct)
             whole == Tokens(outcome) + Tokens(pinned)
             over == IF whole > scene THEN whole - scene ELSE 0
             fromContinuity == Given(over, continuity)
             fromMemory == Given(over - fromContinuity, memory)
         IN
         /\ plan' = [ total      |-> total,
                      fixed      |-> AtMost(Tokens(ruleset), IF system = 0 THEN 1 ELSE system)
                                     + Tokens(outcome) + (IF pinned = 0 THEN 0 ELSE Tokens(pinned)),
                      policy     |-> IF policy = 0 THEN 0 ELSE Tokens(policy),
                      memory     |-> memory - fromMemory,
                      continuity |-> continuity - fromContinuity,
                      over       |-> over > fromContinuity + fromMemory ]
         /\ draft' = [EmptyDraft EXCEPT !.room = IF whole > scene THEN 0 ELSE scene - whole]
    /\ at' = "scene"
    /\ UNCHANGED <<sizes, lost>>

-----------------------------------------------------------------------------
(* _fit_section *)

\* Room for the lines, under the title.
BodyRoom(s, room) == room - Tokens(Title(s))

\* Lines are joined by a line break.
Joined(chars, n, line) == IF n = 0 THEN line ELSE chars + 1 + line

Offer(line) ==
    [draft EXCEPT !.offered = @ + 1, !.whole = Joined(@, draft.offered, line)]

Fits(line) == draft.used + Tokens(line) <= BodyRoom(at, draft.room)
Filling == at \in Sections /\ draft.offered < MaxItems

\* A line that fits.
Take(line) ==
    /\ Filling /\ ~draft.cut /\ Fits(line)
    /\ draft' = [Offer(line) EXCEPT !.used = @ + Tokens(line), !.kept = @ + 1,
                     !.chars = Joined(@, draft.kept, line)]
    /\ UNCHANGED <<at, plan, sizes, lost>>

\* The first that does not is cut at a word where there is one, and the
\* section is closed to what comes after (_truncate_text).
CutLine(line) ==
    /\ Filling /\ ~draft.cut /\ ~Fits(line)
    /\ LET room == BodyRoom(at, draft.room) - draft.used IN
       \/ room <= 0 /\ draft' = [Offer(line) EXCEPT !.cut = TRUE]
       \/ \E part \in 2 .. 4 * room :
            draft' = [Offer(line) EXCEPT !.cut = TRUE, !.used = @ + Tokens(part),
                          !.kept = @ + 1, !.chars = Joined(@, draft.kept, part)]
    /\ UNCHANGED <<at, plan, sizes, lost>>

Drop(line) ==
    /\ Filling /\ draft.cut
    /\ draft' = Offer(line)
    /\ UNCHANGED <<at, plan, sizes, lost>>

\* What the lower section of a group may use.
Left(group, taken) == group - taken

\* The order of the sections, and the room each has.
NextSection(s) ==
    CASE s = "scene" -> "npc_memory" [] s = "npc_memory" -> "leads"
      [] s = "leads" -> "chronicle" [] s = "chronicle" -> "saga" [] s = "saga" -> "done"
RoomAfter(s, size) ==
    CASE s = "scene" -> plan.memory [] s = "npc_memory" -> Left(plan.memory, size)
      [] s = "leads" -> plan.continuity [] s = "chronicle" -> Left(plan.continuity, size)
      [] s = "saga" -> 0

\* The section's tokens are counted on the joined text.
Close ==
    LET size == IF draft.kept = 0 THEN 0 ELSE Tokens(Title(at) + draft.chars)
        whole == IF draft.offered = 0 THEN 0 ELSE Tokens(Title(at) + draft.whole)
    IN
    /\ at \in Sections
    /\ sizes' = [sizes EXCEPT ![at] = size]
    /\ lost' = IF size < whole THEN lost \cup {at} ELSE lost
    /\ at' = NextSection(at)
    /\ draft' = [EmptyDraft EXCEPT !.room = RoomAfter(at, size)]
    /\ UNCHANGED plan

BudgetNext ==
    \/ Open \/ Close
    \/ \E line \in ItemLengths : Take(line) \/ CutLine(line) \/ Drop(line)

BudgetSpec == BudgetInit /\ [][BudgetNext]_budgetVars

-----------------------------------------------------------------------------
(* Properties *)

BudgetTypeOK ==
    /\ at \in Stages
    /\ plan \in [total : Nat, fixed : Nat, policy : Nat, memory : Nat, continuity : Nat,
                 over : BOOLEAN]
    /\ draft \in [room : Int, used : Nat, chars : Nat, kept : 0..MaxItems,
                  offered : 0..MaxItems, whole : Nat, cut : BOOLEAN]
    /\ sizes \in [Sections -> Nat]
    /\ lost \subseteq Sections

\* The line breaks no estimate of a line counts, at most, in tokens.
Breaks == (MaxItems + 2) \div 4
Used == plan.fixed + sizes["scene"] + sizes["npc_memory"] + sizes["leads"]
        + sizes["chronicle"] + sizes["saga"]

\* Unless the non-negotiables alone outgrow it, the prompt is within the
\* window less the reserve, but for the line breaks and the policy.
WithinBudget ==
    at = "done" /\ ~plan.over => Used <= plan.total + 5 * Breaks + 1
=============================================================================
