------------------------------- MODULE Wizard -------------------------------
(***************************************************************************)
(* The making of a hero (play/creation.py, character/creation.py,          *)
(* character/prebuilt.py; the page frontend/app/create): the stages of the *)
(* draft are answered in order, or a finished hero is taken from the roll; *)
(* the last word, the seal, writes the character's rows in one commit and  *)
(* the play state in a second.                                             *)
(*                                                                         *)
(* One campaign, several open tabs.  The handlers run one at a time: what  *)
(* overlapping ones do to each other is in PlaySession.  An answer of a    *)
(* stage carries no catalog of options, without which the page cannot be   *)
(* drawn: it is of no use until it is loaded again.                        *)
(***************************************************************************)
EXTENDS Naturals

CONSTANTS
    Asked,        \* stages with a validator (STAGES but for the review)
    Points,       \* the stage whose answer the page does not read back
    Choices,      \* what a stage may be answered
    Default,      \* what the page shows for Points when it was loaded
    Blank,        \* no answer, and an answer the validator refuses
    Heroes,       \* the roll of prebuilt heroes
    Tabs,         \* open pages
    MaxJourneys   \* bound on the restarts

ASSUME WizardAssumption ==
    /\ Asked \in Nat \ {0} /\ Points \in 1..Asked /\ MaxJourneys \in Nat
    /\ Blank \notin Choices /\ Default \in Choices
    /\ Heroes \subseteq [1..Asked -> Choices]

VARIABLES
    creation,   \* play state: the draft
    sheet,       \* play state: the sheet that was sworn
    character,  \* the rows of the character
    oath,       \* the commit under way, its rows written
    journey,    \* restarts so far
    tabs,       \* what each page shows and waits for
    oaths       \* history: sheets that were sworn

wizardVars == <<creation, sheet, character, oath, journey, tabs, oaths>>

Sheets == [1..Asked -> Choices \cup {Blank}]
Nobody == [s \in 1..Asked |-> Blank]
Review == Asked + 1

\* `stage` is the next one to complete, Review + 1 when there is none.
Drafts == [stage : 1..Review + 1, data : Sheets]
NewDraft == [stage |-> 1, data |-> Nobody]
NoOath == [tab |-> Blank, draft |-> NewDraft]

Sworn == sheet # Nobody
Done(d) == d.stage > Review

\* "late": taken, though somebody was sworn.
Answers == {"none", "waiting", "refused", "taken", "late", "sworn"}

\* stage 0: nothing is shown
Page ==
    [ stage  : 0..Review + 1,
      form   : Sheets,      \* what is read back for the seal
      sworn  : BOOLEAN,     \* "already sworn"
      drawn  : BOOLEAN,     \* the catalog is there
      roll   : BOOLEAN,     \* the roll of heroes is offered first
      of     : 0..MaxJourneys,
      answer : Answers ]
Shut ==
    [ stage |-> 0, form |-> Nobody, sworn |-> FALSE, drawn |-> FALSE, roll |-> FALSE,
      of |-> 0, answer |-> "none" ]

WizardInit ==
    /\ creation = NewDraft /\ sheet = Nobody /\ character = Nobody /\ oath = NoOath
    /\ journey = 0 /\ oaths = 0
    /\ tabs = [p \in Tabs |-> Shut]

-----------------------------------------------------------------------------
(* Slips *)

\* A stage may be answered again.
AcceptsAgain(d, s, x) == s <= d.stage /\ s <= Asked /\ x # Blank

-----------------------------------------------------------------------------
(* The handlers *)

\* advance: the stages complete in order, each by an answer its validator takes
Accepts(d, s, x) == s = d.stage /\ s <= Asked /\ x # Blank

Merged(d, s, x) == [stage |-> s + 1, data |-> [d.data EXCEPT ![s] = x]]

\* The page may ask, and the handler before is done.
MayAsk(p) ==
    /\ tabs[p].drawn /\ ~tabs[p].sworn /\ tabs[p].answer = "none"
    /\ oath = NoOath

\* The roll of heroes, the form of the stage, or the review: each with its button.
ShowsRoll(p) == MayAsk(p) /\ tabs[p].roll
ShowsForm(p) == MayAsk(p) /\ ~tabs[p].roll /\ tabs[p].stage <= Asked
ShowsReview(p) == MayAsk(p) /\ tabs[p].stage >= Review

Tell(p, answer) == tabs' = [tabs EXCEPT ![p].answer = answer]

Refuse(p) ==
    /\ Tell(p, "refused")
    /\ UNCHANGED <<creation, sheet, character, oath, journey, oaths>>

\* POST /character/creation/advance
Advance(p, x) ==
    /\ ShowsForm(p)
    /\ IF Accepts(creation, tabs[p].stage, x) /\ ~(Done(creation) /\ Sworn)
       THEN /\ creation' = Merged(creation, tabs[p].stage, x)
            /\ Tell(p, IF Sworn THEN "late" ELSE "taken")
            /\ UNCHANGED <<sheet, character, oath, journey, oaths>>
       ELSE Refuse(p)

\* apply_creation, up to its commit: the rows are made or written over
SwearRows(p, d) ==
    /\ character' = d.data
    /\ oath' = [tab |-> p, draft |-> d]
    /\ Tell(p, "waiting")
    /\ UNCHANGED <<creation, sheet, journey, oaths>>

\* POST /character/creation/commit: the commit is the review's acceptance
Seal(p) ==
    /\ ShowsReview(p)
    /\ IF creation.stage >= Review /\ ~Sworn
       THEN SwearRows(p, [creation EXCEPT !.stage = Review + 1])
       ELSE Refuse(p)

\* build_creation_state: every stage of the hero, through the same validators
HeroDraft(h) == [stage |-> Review + 1, data |-> h]

\* POST /character/prebuilts/{id}/apply: whatever draft there is, is written over
TakeHero(p, h) ==
    /\ ShowsRoll(p)
    /\ IF Sworn THEN Refuse(p) ELSE SwearRows(p, HeroDraft(h))

\* session.checkpoint, and the answer
SwearStore ==
    /\ oath # NoOath
    /\ creation' = oath.draft
    /\ sheet' = oath.draft.data
    /\ oaths' = oaths + 1
    /\ oath' = NoOath
    /\ tabs' = [tabs EXCEPT ![oath.tab].answer = IF @ = "waiting" THEN "sworn" ELSE @]
    /\ UNCHANGED <<character, journey>>

\* The process ends between the two commits.
OathBroken ==
    /\ oath # NoOath
    /\ oath' = NoOath
    /\ UNCHANGED <<creation, sheet, character, journey, tabs, oaths>>

\* A new journey: the draft goes, a sworn sheet rides along.
NewJourney ==
    /\ oath = NoOath /\ journey < MaxJourneys
    /\ journey' = journey + 1
    /\ creation' = NewDraft
    /\ UNCHANGED <<sheet, character, oath, tabs, oaths>>

-----------------------------------------------------------------------------
(* The page *)

\* What is restored of the draft; not the attributes, for which the page has defaults
\* (nor the pronouns, which stay empty).
ReadBack(d) == [d.data EXCEPT ![Points] = Default]

Fetched ==
    [ stage |-> creation.stage, sworn |-> Sworn, drawn |-> TRUE, of |-> journey,
      form |-> IF creation.stage >= Review THEN ReadBack(creation) ELSE Nobody,
      roll |-> creation = NewDraft /\ ~Sworn, answer |-> "none" ]

\* GET /character/creation as the page opens, or opens again; it may not be reached.
Load(p) ==
    /\ oath = NoOath
    /\ \E page \in {Fetched, Shut} : tabs' = [tabs EXCEPT ![p] = page]
    /\ UNCHANGED <<creation, sheet, character, oath, journey, oaths>>

\* "Forge my own hero"
ForgeOwn(p) ==
    /\ tabs[p].roll /\ tabs[p].answer = "none"
    /\ tabs' = [tabs EXCEPT ![p].roll = FALSE]
    /\ UNCHANGED <<creation, sheet, character, oath, journey, oaths>>

\* What the page becomes by its answer.
Redrawn(page) ==
    CASE page.answer \in {"taken", "late"} ->
           [page EXCEPT !.stage = @ + 1, !.drawn = FALSE, !.answer = "none",
                        !.sworn = page.answer = "late"]
      [] page.answer = "sworn" -> Shut
      [] OTHER -> [page EXCEPT !.answer = "none"]

\* The answer arrives, or it was lost, or the ten seconds are over.
AnswerComes(p) ==
    /\ tabs[p].answer \notin {"none", "waiting"}
    /\ tabs' = [tabs EXCEPT ![p] = Redrawn(@)]
    /\ UNCHANGED <<creation, sheet, character, oath, journey, oaths>>

Lose(p) ==
    /\ tabs[p].answer # "none"
    /\ tabs' = [tabs EXCEPT ![p].answer = "none"]
    /\ UNCHANGED <<creation, sheet, character, oath, journey, oaths>>

WizardNext ==
    \/ \E p \in Tabs :
         \/ \E x \in Choices \cup {Blank} : Advance(p, x)
         \/ Seal(p)
         \/ \E h \in Heroes : TakeHero(p, h)
         \/ Load(p) \/ ForgeOwn(p) \/ AnswerComes(p) \/ Lose(p)
    \/ SwearStore \/ OathBroken \/ NewJourney

WizardSpec == WizardInit /\ [][WizardNext]_wizardVars

-----------------------------------------------------------------------------
(* Properties *)

WizardTypeOK ==
    /\ creation \in Drafts
    /\ sheet \in Sheets /\ character \in Sheets
    /\ oath \in [tab : Tabs \cup {Blank}, draft : Drafts]
    /\ journey \in 0..MaxJourneys /\ oaths \in Nat
    /\ tabs \in [Tabs -> Page]

\* The draft holds an answer for each stage before the next one and for none after it.
DraftInOrder == \A s \in 1..Asked : creation.data[s] # Blank <=> s < creation.stage

\* One hero is sworn, by all its stages and by its rows, whatever tabs were left
\* open across a restart and whatever commit of the two did not happen.
SwornOnce ==
    /\ oaths <= 1
    /\ Sworn => character = sheet /\ \A s \in 1..Asked : sheet[s] # Blank
    /\ Done(creation) => Sworn /\ sheet = creation.data

\* A page of this journey is never ahead of the draft; the seal it offers is of a
\* draft that is ready, and what it reads out is what will be sworn, all but the
\* attributes.
SealHonest ==
    \A p \in Tabs :
        tabs[p].of = journey =>
            /\ tabs[p].stage <= creation.stage
            /\ tabs[p].drawn /\ tabs[p].stage = Review /\ ~Sworn =>
                 /\ creation.stage = Review
                 /\ \A s \in (1..Asked) \ {Points} : tabs[p].form[s] = creation.data[s]

\* create/page.tsx, play/creation.py: the three above, over lost answers, a broken
\* commit, several tabs and a restart.
WizardSound == DraftInOrder /\ SwornOnce /\ SealHonest
=============================================================================
