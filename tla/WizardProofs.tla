---------------------------- MODULE WizardProofs ----------------------------
(***************************************************************************)
(* Whatever tabs are open, whatever answers are lost and however often a   *)
(* journey starts over: one hero is sworn, whole and by its rows, and a    *)
(* page that is not out of date never offers a seal that cannot be given.  *)
(***************************************************************************)
EXTENDS Wizard, TLAPS

Whole(d) == \A s \in 1..Asked : d[s] # Blank

\* The oath under way is of a finished draft, its rows are written, and
\* nobody was sworn before it.
OathOpen ==
    oath # NoOath =>
        /\ ~Sworn /\ oath.tab \in Tabs
        /\ oath.draft.stage = Review + 1 /\ Whole(oath.draft.data)
        /\ character = oath.draft.data

\* Each oath that was sworn made the one sheet there is.
OathsCounted == oaths = IF Sworn THEN 1 ELSE 0

\* A page is of this journey or of one before it; an answer that is on its
\* way tells of a stage the draft has reached.
TabsBehind ==
    \A p \in Tabs :
        /\ tabs[p].of <= journey
        /\ tabs[p].answer \in {"taken", "late"} =>
             /\ tabs[p].stage <= Asked
             /\ tabs[p].of = journey => tabs[p].stage < creation.stage

IInv ==
    /\ WizardTypeOK /\ WizardSound
    /\ OathOpen /\ OathsCounted /\ TabsBehind

-----------------------------------------------------------------------------

\* A word to one page leaves the others, and of that page all but the word.
LEMMA TellPage ==
    ASSUME tabs \in [Tabs -> Page], NEW p \in Tabs, NEW answer \in Answers, Tell(p, answer)
    PROVE  \E page \in Page :
              /\ tabs' = [tabs EXCEPT ![p] = page]
              /\ page.stage = tabs[p].stage /\ page.form = tabs[p].form
              /\ page.of = tabs[p].of /\ page.drawn = tabs[p].drawn
              /\ page.answer = answer
<1> DEFINE page == [tabs[p] EXCEPT !.answer = answer]
<1>1. tabs[p] \in Page
  OBVIOUS
<1>2. page \in Page
  BY <1>1 DEF Page
<1>3. page.stage = tabs[p].stage /\ page.form = tabs[p].form
      /\ page.of = tabs[p].of /\ page.drawn = tabs[p].drawn /\ page.answer = answer
  BY <1>1 DEF Page
<1>4. tabs' = [tabs EXCEPT ![p] = page]
  BY DEF Tell
<1> QED
  BY <1>2, <1>3, <1>4

\* The empty draft is a draft.
LEMMA NewDraftTyped ==
    ASSUME WizardAssumption PROVE Nobody \in Sheets /\ NewDraft \in Drafts
<1>1. Nobody \in Sheets
  BY DEF Nobody, Sheets
<1>2. 1 \in 1..Review + 1
  BY DEF Review, WizardAssumption
<1> QED
  BY <1>1, <1>2 DEF NewDraft, Drafts

\* The invariant holds before anything is asked.
LEMMA InitHolds == ASSUME WizardAssumption, WizardInit PROVE IInv
<1>1. Nobody \in Sheets /\ NewDraft \in Drafts
  BY NewDraftTyped
<1>2. Shut \in Page
  <2>1. 0 \in 0..Review + 1 /\ 0 \in 0..MaxJourneys
    BY DEF Review, WizardAssumption
  <2> QED
    BY <1>1, <2>1 DEF Shut, Page, Answers
<1>3. NoOath \in [tab : Tabs \cup {Blank}, draft : Drafts]
  BY <1>1 DEF NoOath
<1>4. WizardTypeOK
  BY <1>1, <1>2, <1>3 DEF WizardTypeOK, WizardInit, WizardAssumption
<1>7. DraftInOrder /\ SwornOnce
  BY DEF WizardInit, DraftInOrder, SwornOnce, NewDraft, Nobody, Sworn, Done, Review, WizardAssumption
<1>5. SealHonest /\ TabsBehind
  BY DEF WizardInit, SealHonest, TabsBehind, Shut, NewDraft, WizardAssumption, Review, Sworn
<1>6. OathOpen /\ OathsCounted
  BY DEF WizardInit, OathOpen, OathsCounted, Sworn
<1> QED
  BY <1>4, <1>5, <1>6, <1>7 DEF IInv, WizardSound

\* A step that changes one page only: the rest of the invariant is about
\* things it leaves alone.
LEMMA PageStep ==
    ASSUME WizardAssumption, IInv, NEW p \in Tabs, NEW page \in Page,
           tabs' = [tabs EXCEPT ![p] = page],
           UNCHANGED <<creation, sheet, character, oath, journey, oaths>>,
           page.of <= journey,
           page.of = journey => page.stage <= creation.stage,
           page.of = journey /\ page.drawn /\ page.stage = Review /\ ~Sworn =>
               /\ creation.stage = Review
               /\ \A s \in (1..Asked) \ {Points} : page.form[s] = creation.data[s],
           page.answer \in {"taken", "late"} =>
               /\ page.stage <= Asked
               /\ page.of = journey => page.stage < creation.stage
    PROVE  IInv'
<1>1. tabs \in [Tabs -> Page]
  BY DEF IInv, WizardTypeOK
<1>2. \A q \in Tabs : tabs'[q] = IF q = p THEN page ELSE tabs[q]
  BY <1>1
<1>3. WizardTypeOK'
  BY <1>1 DEF IInv, WizardTypeOK, Drafts
<1>4. DraftInOrder' /\ SwornOnce' /\ OathOpen' /\ OathsCounted'
  BY DEF IInv, WizardSound, DraftInOrder, SwornOnce, OathOpen, OathsCounted, Sworn, Done
<1>5. SealHonest'
  BY <1>2 DEF IInv, WizardSound, SealHonest, Sworn, Review
<1>6. TabsBehind'
  BY <1>2 DEF IInv, TabsBehind
<1> QED
  BY <1>3, <1>4, <1>5, <1>6 DEF IInv, WizardSound

\* A page that is left shows nothing.
LEMMA ShutStep ==
    ASSUME WizardAssumption, IInv, NEW p \in Tabs, tabs' = [tabs EXCEPT ![p] = Shut],
           UNCHANGED <<creation, sheet, character, oath, journey, oaths>>
    PROVE  IInv'
<1>1. Shut \in Page
  BY NewDraftTyped DEF Shut, Page, Answers, Review, WizardAssumption
<1>2. /\ Shut.of = 0 /\ Shut.stage = 0 /\ Shut.drawn = FALSE /\ Shut.answer = "none"
  BY DEF Shut
<1>3. 0 <= journey /\ 0 <= creation.stage /\ 0 # Review
  BY DEF IInv, WizardTypeOK, Drafts, Review, WizardAssumption
<1> QED
  BY <1>1, <1>2, <1>3, PageStep

\* A refusal is only a word.
LEMMA RefuseStep ==
    ASSUME WizardAssumption, IInv, NEW p \in Tabs, tabs[p].answer = "none", Refuse(p)
    PROVE  IInv'
<1>1. PICK page \in Page :
          /\ tabs' = [tabs EXCEPT ![p] = page]
          /\ page.stage = tabs[p].stage /\ page.form = tabs[p].form
          /\ page.of = tabs[p].of /\ page.drawn = tabs[p].drawn
          /\ page.answer = "refused"
  BY TellPage DEF IInv, WizardTypeOK, Refuse, Answers
<1>2. /\ tabs[p].of <= journey
      /\ tabs[p].of = journey => tabs[p].stage <= creation.stage
      /\ tabs[p].of = journey /\ tabs[p].drawn /\ tabs[p].stage = Review /\ ~Sworn =>
            /\ creation.stage = Review
            /\ \A s \in (1..Asked) \ {Points} : tabs[p].form[s] = creation.data[s]
  BY DEF IInv, WizardSound, SealHonest, TabsBehind
<1>3. UNCHANGED <<creation, sheet, character, oath, journey, oaths>>
  BY DEF Refuse
<1> QED
  BY <1>1, <1>2, <1>3, PageStep

\* An accepted answer fills the stage it is for and moves the draft on.
LEMMA AcceptStep ==
    ASSUME WizardAssumption, IInv, NEW p \in Tabs, NEW x \in Choices \cup {Blank},
           ShowsForm(p), Accepts(creation, tabs[p].stage, x), ~(Done(creation) /\ Sworn),
           Advance(p, x)
    PROVE  IInv'
<1> DEFINE word == IF Sworn THEN "late" ELSE "taken"
           s == creation.stage
<1>1. /\ tabs[p].stage = s /\ s \in 1..Asked /\ x \in Choices
      /\ creation' = [stage |-> s + 1, data |-> [creation.data EXCEPT ![s] = x]]
      /\ Tell(p, word)
      /\ UNCHANGED <<sheet, character, oath, journey, oaths>>
  BY DEF Advance, Accepts, Merged, IInv, WizardTypeOK, Drafts, Review, WizardAssumption
<1>2. PICK page \in Page :
          /\ tabs' = [tabs EXCEPT ![p] = page]
          /\ page.stage = tabs[p].stage /\ page.form = tabs[p].form
          /\ page.of = tabs[p].of /\ page.drawn = tabs[p].drawn
          /\ page.answer = word
  BY <1>1, TellPage DEF IInv, WizardTypeOK, Answers
<1>3. \A q \in Tabs : tabs'[q] = IF q = p THEN page ELSE tabs[q]
  BY <1>2 DEF IInv, WizardTypeOK
<1>4. /\ creation \in Drafts /\ creation.data \in Sheets
      /\ creation' \in Drafts /\ (creation.stage)' = s + 1
      /\ \A t \in 1..Asked : (creation.data[t])' = IF t = s THEN x ELSE creation.data[t]
  BY <1>1 DEF IInv, WizardTypeOK, Drafts, Sheets, Review, WizardAssumption
<1>5. WizardTypeOK'
  BY <1>1, <1>2, <1>4 DEF IInv, WizardTypeOK
<1>6. DraftInOrder'
  BY <1>1, <1>4 DEF IInv, WizardSound, DraftInOrder, WizardAssumption, Drafts
<1>7. SwornOnce' /\ OathOpen' /\ OathsCounted'
  BY <1>1, <1>4 DEF IInv, WizardSound, SwornOnce, OathOpen, OathsCounted, Sworn, Done, Review, WizardAssumption
<1>8. SealHonest'
  <2> SUFFICES ASSUME NEW q \in Tabs, tabs'[q].of = journey'
               PROVE  /\ tabs'[q].stage <= (creation.stage)'
                      /\ tabs'[q].drawn /\ tabs'[q].stage = Review /\ ~Sworn' =>
                            /\ (creation.stage)' = Review
                            /\ \A t \in (1..Asked) \ {Points} : tabs'[q].form[t] = (creation.data[t])'
    BY DEF SealHonest, Review, Sworn
  <2>1. /\ tabs'[q].stage = tabs[q].stage /\ tabs'[q].of = tabs[q].of
        /\ tabs[q].stage \in Nat
    BY <1>2, <1>3 DEF IInv, WizardTypeOK, Page, Review, WizardAssumption
  <2>2. tabs[q].stage <= s
    BY <1>1, <2>1 DEF IInv, WizardSound, SealHonest, Sworn, Review
  <2> QED
    BY <1>1, <1>4, <2>1, <2>2 DEF Review, WizardAssumption
<1>9. TabsBehind'
  <2> SUFFICES ASSUME NEW q \in Tabs
               PROVE  /\ tabs'[q].of <= journey'
                      /\ tabs'[q].answer \in {"taken", "late"} =>
                           /\ tabs'[q].stage <= Asked
                           /\ tabs'[q].of = journey' => tabs'[q].stage < (creation.stage)'
    BY DEF TabsBehind
  <2>1. CASE q = p
    BY <1>1, <1>2, <1>3, <1>4, <2>1 DEF IInv, TabsBehind, WizardAssumption
  <2>2. CASE q # p
    <3>1. tabs'[q] = tabs[q] /\ tabs[q].stage \in Nat
      BY <1>3, <2>2 DEF IInv, WizardTypeOK, Page, Review, WizardAssumption
    <3> QED
      BY <1>1, <1>4, <3>1 DEF IInv, TabsBehind, WizardAssumption
  <2> QED
    BY <2>1, <2>2
<1> QED
  BY <1>5, <1>6, <1>7, <1>8, <1>9 DEF IInv, WizardSound

\* An oath is begun: the rows are written of a draft that is done.
LEMMA RowsStep ==
    ASSUME WizardAssumption, IInv, NEW p \in Tabs, NEW d \in Drafts,
           d.stage = Review + 1, Whole(d.data), ~Sworn, tabs[p].answer = "none",
           oath = NoOath, SwearRows(p, d)
    PROVE  IInv'
<1>1. PICK page \in Page :
          /\ tabs' = [tabs EXCEPT ![p] = page]
          /\ page.stage = tabs[p].stage /\ page.form = tabs[p].form
          /\ page.of = tabs[p].of /\ page.drawn = tabs[p].drawn
          /\ page.answer = "waiting"
  BY TellPage DEF IInv, WizardTypeOK, SwearRows, Answers
<1>2. \A q \in Tabs : tabs'[q] = IF q = p THEN page ELSE tabs[q]
  BY <1>1 DEF IInv, WizardTypeOK
<1>3. WizardTypeOK'
  BY <1>1 DEF IInv, WizardTypeOK, SwearRows, Drafts
<1>4. DraftInOrder' /\ SwornOnce' /\ OathsCounted' /\ OathOpen'
  BY DEF IInv, WizardSound, DraftInOrder, SwornOnce, OathsCounted, OathOpen, SwearRows, Sworn, Done
<1>5. SealHonest'
  BY <1>1, <1>2 DEF IInv, WizardSound, SealHonest, SwearRows, Sworn, Review
<1>6. TabsBehind'
  BY <1>1, <1>2 DEF IInv, TabsBehind, SwearRows
<1> QED
  BY <1>3, <1>4, <1>5, <1>6 DEF IInv, WizardSound

\* The oath is sworn: the sheet lands, and the draft with it.
LEMMA StoreStep == ASSUME WizardAssumption, IInv, SwearStore PROVE IInv'
<1>1. /\ oath # NoOath /\ oath.tab \in Tabs /\ ~Sworn /\ oaths = 0
      /\ oath.draft \in Drafts /\ oath.draft.data \in Sheets
      /\ oath.draft.stage = Review + 1 /\ Whole(oath.draft.data)
      /\ character = oath.draft.data
      /\ creation' = oath.draft /\ sheet' = oath.draft.data /\ oaths' = oaths + 1
      /\ oath' = NoOath /\ UNCHANGED <<character, journey>>
  BY DEF SwearStore, IInv, WizardTypeOK, OathOpen, OathsCounted, Drafts
<1>2. Sworn'
  BY <1>1 DEF Sworn, Nobody, Whole, WizardAssumption
<1>3. PICK page \in Page :
          /\ tabs' = [tabs EXCEPT ![oath.tab] = page]
          /\ page.stage = tabs[oath.tab].stage /\ page.of = tabs[oath.tab].of
          /\ page.answer = IF tabs[oath.tab].answer = "waiting" THEN "sworn"
                           ELSE tabs[oath.tab].answer
  <2> DEFINE old == tabs[oath.tab]
             page == [old EXCEPT !.answer = IF @ = "waiting" THEN "sworn" ELSE @]
  <2>1. old \in Page
    BY <1>1 DEF IInv, WizardTypeOK
  <2>2. /\ page \in Page /\ page.stage = old.stage /\ page.of = old.of
        /\ page.answer = IF old.answer = "waiting" THEN "sworn" ELSE old.answer
    BY <2>1 DEF Page, Answers
  <2>3. tabs' = [tabs EXCEPT ![oath.tab] = page]
    BY DEF SwearStore
  <2> QED
    BY <2>2, <2>3
<1>4. \A q \in Tabs : tabs'[q] = IF q = oath.tab THEN page ELSE tabs[q]
  BY <1>1, <1>3 DEF IInv, WizardTypeOK
<1>5. WizardTypeOK'
  <2>1. NoOath \in [tab : Tabs \cup {Blank}, draft : Drafts]
    BY NewDraftTyped DEF NoOath
  <2>2. oaths' \in Nat
    BY <1>1
  <2> QED
    BY <1>1, <1>3, <2>1, <2>2 DEF IInv, WizardTypeOK
<1>6. DraftInOrder'
  BY <1>1 DEF DraftInOrder, Whole, Review, WizardAssumption
<1>7. SwornOnce' /\ OathsCounted'
  BY <1>1, <1>2 DEF SwornOnce, OathsCounted, Whole
<1>8. SealHonest'
  <2>1. \A q \in Tabs : tabs'[q].stage <= Review + 1
    BY <1>5 DEF WizardTypeOK, Page, Review, WizardAssumption
  <2> QED
    BY <1>1, <1>2, <2>1 DEF SealHonest, Review
<1>9. TabsBehind'
  <2>1. \A q \in Tabs :
          /\ tabs'[q].stage = tabs[q].stage /\ tabs'[q].of = tabs[q].of
          /\ tabs'[q].answer \in {"taken", "late"} => tabs[q].answer \in {"taken", "late"}
    BY <1>3, <1>4
  <2>2. \A q \in Tabs : tabs[q].stage \in Nat
    BY DEF IInv, WizardTypeOK, Page
  <2> SUFFICES ASSUME NEW q \in Tabs
               PROVE  /\ tabs[q].of <= journey
                      /\ tabs[q].answer \in {"taken", "late"} =>
                           tabs[q].stage <= Asked /\ tabs[q].stage < Review + 1
    BY <1>1, <2>1 DEF TabsBehind
  <2> QED
    BY <2>2 DEF IInv, TabsBehind, Review, WizardAssumption
<1>10. OathOpen'
  BY <1>1 DEF OathOpen
<1> QED
  BY <1>5, <1>6, <1>7, <1>8, <1>9, <1>10 DEF IInv, WizardSound

\* A new journey leaves every open page behind.
LEMMA JourneyStep == ASSUME WizardAssumption, IInv, NewJourney PROVE IInv'
<1>1. /\ journey \in Nat /\ journey' = journey + 1 /\ journey' \in 0..MaxJourneys
      /\ creation' = NewDraft /\ oath = NoOath
      /\ UNCHANGED <<sheet, character, oath, tabs, oaths>>
  BY DEF NewJourney, IInv, WizardTypeOK, WizardAssumption
<1>2. NewDraft \in Drafts
  BY NewDraftTyped
<1>3. WizardTypeOK'
  BY <1>1, <1>2 DEF IInv, WizardTypeOK
<1>4. DraftInOrder'
  BY <1>1 DEF DraftInOrder, NewDraft, Nobody, WizardAssumption
<1>5. SwornOnce' /\ OathOpen' /\ OathsCounted'
  BY <1>1 DEF IInv, WizardSound, SwornOnce, OathOpen, OathsCounted, Sworn, Done, NewDraft,
              Review, WizardAssumption
<1>6. \A p \in Tabs : tabs[p].of \in Nat /\ tabs'[p].of < journey'
  BY <1>1 DEF IInv, WizardTypeOK, Page, TabsBehind, WizardAssumption
<1>7. SealHonest'
  BY <1>1, <1>6 DEF SealHonest
<1>8. TabsBehind'
  BY <1>1, <1>6 DEF IInv, TabsBehind
<1> QED
  BY <1>3, <1>4, <1>5, <1>7, <1>8 DEF IInv, WizardSound

\* What the page becomes by its answer, or without it.
LEMMA AnswerStep ==
    ASSUME WizardAssumption, IInv, NEW p \in Tabs, AnswerComes(p) \/ Lose(p)
    PROVE  IInv'
<1> DEFINE old == tabs[p]
<1>1. /\ old \in Page /\ old.of <= journey
      /\ old.of = journey => old.stage <= creation.stage
      /\ old.of = journey /\ old.drawn /\ old.stage = Review /\ ~Sworn =>
            /\ creation.stage = Review
            /\ \A s \in (1..Asked) \ {Points} : old.form[s] = creation.data[s]
      /\ old.answer \in {"taken", "late"} =>
            /\ old.stage <= Asked
            /\ old.of = journey => old.stage < creation.stage
      /\ old.stage \in Nat /\ creation.stage \in Nat /\ journey \in Nat /\ 1 <= creation.stage
  BY DEF IInv, WizardTypeOK, WizardSound, SealHonest, TabsBehind, Page, Drafts
<1>2. UNCHANGED <<creation, sheet, character, oath, journey, oaths>>
  BY DEF AnswerComes, Lose
<1>3. CASE Lose(p) \/ old.answer \in {"refused", "waiting"}
  <2> DEFINE page == [old EXCEPT !.answer = "none"]
  <2>1. tabs' = [tabs EXCEPT ![p] = page]
    BY <1>3 DEF Lose, AnswerComes, Redrawn
  <2>2. /\ page \in Page /\ page.stage = old.stage /\ page.of = old.of
        /\ page.form = old.form /\ page.drawn = old.drawn /\ page.answer = "none"
    BY <1>1 DEF Page, Answers
  <2> HIDE DEF page, old
  <2> QED
    BY <1>1, <1>2, <2>1, <2>2, PageStep
<1>4. CASE AnswerComes(p) /\ old.answer \in {"taken", "late"}
  <2> DEFINE page == [old EXCEPT !.stage = @ + 1, !.drawn = FALSE, !.answer = "none",
                                 !.sworn = old.answer = "late"]
  <2>1. tabs' = [tabs EXCEPT ![p] = page]
    BY <1>4 DEF AnswerComes, Redrawn
  <2>2. old.stage + 1 \in 0..Review + 1
    BY <1>1, <1>4 DEF Review, WizardAssumption
  <2>3. /\ page \in Page /\ page.stage = old.stage + 1 /\ page.of = old.of
        /\ page.drawn = FALSE /\ page.answer = "none"
    BY <1>1, <2>2 DEF Page, Answers
  <2>4. page.of = journey => page.stage <= creation.stage
    BY <1>1, <1>4, <2>3
  <2> HIDE DEF page, old
  <2> QED
    BY <1>1, <1>2, <2>1, <2>3, <2>4, PageStep
<1>5. CASE AnswerComes(p) /\ old.answer = "sworn"
  <2>1. tabs' = [tabs EXCEPT ![p] = Shut]
    BY <1>5 DEF AnswerComes, Redrawn
  <2> QED
    BY <1>1, <1>2, <2>1, ShutStep
<1> QED
  BY <1>1, <1>3, <1>4, <1>5 DEF AnswerComes, Page, Answers

\* A page that is opened shows the draft as it is.
LEMMA LoadStep == ASSUME WizardAssumption, IInv, NEW p \in Tabs, Load(p) PROVE IInv'
<1>1. UNCHANGED <<creation, sheet, character, oath, journey, oaths>>
  BY DEF Load
<1>2. CASE tabs' = [tabs EXCEPT ![p] = Shut]
  BY <1>1, <1>2, ShutStep
<1>3. CASE tabs' = [tabs EXCEPT ![p] = Fetched]
  <2>1. creation \in Drafts /\ journey \in 0..MaxJourneys
    BY DEF IInv, WizardTypeOK
  <2>2. ReadBack(creation) \in Sheets
    BY <2>1 DEF ReadBack, Drafts, Sheets, WizardAssumption
  <2>3. /\ Fetched.stage = creation.stage /\ Fetched.of = journey /\ Fetched.answer = "none"
        /\ Fetched.form = IF creation.stage >= Review THEN ReadBack(creation) ELSE Nobody
    BY DEF Fetched
  <2>4. Fetched \in Page
    BY <2>1, <2>2, NewDraftTyped DEF Fetched, Page, Answers, Drafts, Review, Sworn, WizardAssumption
  <2>5. \A s \in (1..Asked) \ {Points} : ReadBack(creation)[s] = creation.data[s]
    BY <2>1 DEF ReadBack, Drafts, Sheets
  <2>6. Fetched.stage = Review =>
          /\ creation.stage = Review
          /\ \A s \in (1..Asked) \ {Points} : Fetched.form[s] = creation.data[s]
    BY <2>3, <2>5 DEF Review, WizardAssumption
  <2>7. Fetched.of <= journey /\ Fetched.stage <= creation.stage
    BY <2>1, <2>3 DEF Drafts, Review, WizardAssumption
  <2> QED
    BY <1>1, <1>3, <2>3, <2>4, <2>6, <2>7, PageStep
<1> QED
  BY <1>2, <1>3 DEF Load

\* Turning from the roll of heroes to the form changes neither.
LEMMA ForgeStep == ASSUME WizardAssumption, IInv, NEW p \in Tabs, ForgeOwn(p) PROVE IInv'
<1> DEFINE page == [tabs[p] EXCEPT !.roll = FALSE]
<1>1. tabs[p] \in Page /\ tabs[p].answer = "none"
  BY DEF IInv, WizardTypeOK, ForgeOwn
<1>2. /\ page \in Page /\ page.stage = tabs[p].stage /\ page.of = tabs[p].of
      /\ page.form = tabs[p].form /\ page.drawn = tabs[p].drawn /\ page.answer = "none"
  BY <1>1 DEF Page
<1>3. tabs' = [tabs EXCEPT ![p] = page]
  BY DEF ForgeOwn
<1>4. /\ tabs[p].of <= journey
      /\ tabs[p].of = journey => tabs[p].stage <= creation.stage
      /\ tabs[p].of = journey /\ tabs[p].drawn /\ tabs[p].stage = Review /\ ~Sworn =>
            /\ creation.stage = Review
            /\ \A s \in (1..Asked) \ {Points} : tabs[p].form[s] = creation.data[s]
  BY DEF IInv, WizardSound, SealHonest, TabsBehind
<1>5. UNCHANGED <<creation, sheet, character, oath, journey, oaths>>
  BY DEF ForgeOwn
<1> HIDE DEF page
<1> QED
  BY <1>2, <1>3, <1>4, <1>5, PageStep

-----------------------------------------------------------------------------

\* Every step of the wizard keeps the invariant.
LEMMA StepHolds == ASSUME WizardAssumption, IInv, [WizardNext]_wizardVars PROVE IInv'
<1>1. CASE UNCHANGED wizardVars
  BY <1>1 DEF IInv, wizardVars, WizardTypeOK, WizardSound, DraftInOrder, SwornOnce, SealHonest,
              OathOpen, OathsCounted, TabsBehind, Sworn, Done
<1>2. ASSUME NEW p \in Tabs, NEW x \in Choices \cup {Blank}, Advance(p, x) PROVE IInv'
  BY <1>2, AcceptStep, RefuseStep DEF Advance, ShowsForm, MayAsk
<1>3. ASSUME NEW p \in Tabs, Seal(p) PROVE IInv'
  <2>1. tabs[p].answer = "none" /\ oath = NoOath
    BY <1>3 DEF Seal, ShowsReview, MayAsk
  <2>2. CASE creation.stage >= Review /\ ~Sworn
    <3> DEFINE d == [creation EXCEPT !.stage = Review + 1]
    <3>1. creation \in Drafts
      BY DEF IInv, WizardTypeOK
    <3>2. d \in Drafts /\ d.stage = Review + 1 /\ d.data = creation.data
      BY <3>1 DEF Drafts, Review, WizardAssumption
    <3>3. Whole(d.data)
      BY <2>2, <3>1, <3>2 DEF IInv, WizardSound, DraftInOrder, Whole, Drafts, Review, WizardAssumption
    <3>4. SwearRows(p, d)
      BY <1>3, <2>2 DEF Seal
    <3> HIDE DEF d
    <3> QED
      BY <2>1, <2>2, <3>2, <3>3, <3>4, RowsStep
  <2>3. CASE ~(creation.stage >= Review /\ ~Sworn)
    BY <1>3, <2>1, <2>3, RefuseStep DEF Seal
  <2> QED
    BY <2>2, <2>3
<1>4. ASSUME NEW p \in Tabs, NEW h \in Heroes, TakeHero(p, h) PROVE IInv'
  <2>1. tabs[p].answer = "none" /\ oath = NoOath
    BY <1>4 DEF TakeHero, ShowsRoll, MayAsk
  <2>2. CASE Sworn
    BY <1>4, <2>1, <2>2, RefuseStep DEF TakeHero
  <2>3. CASE ~Sworn
    <3>1. h \in [1..Asked -> Choices] /\ Review + 1 \in 1..Review + 1
      BY DEF WizardAssumption, Review
    <3>2. h \in Sheets /\ Whole(h)
      BY <3>1 DEF Sheets, Whole, WizardAssumption
    <3>3. HeroDraft(h) \in Drafts /\ HeroDraft(h).stage = Review + 1 /\ HeroDraft(h).data = h
      BY <3>1, <3>2 DEF HeroDraft, Drafts
    <3> QED
      BY <1>4, <2>1, <2>3, <3>2, <3>3, RowsStep DEF TakeHero
  <2> QED
    BY <2>2, <2>3
<1>5. ASSUME NEW p \in Tabs, Load(p) \/ ForgeOwn(p) \/ AnswerComes(p) \/ Lose(p) PROVE IInv'
  BY <1>5, LoadStep, ForgeStep, AnswerStep
<1>6. CASE OathBroken
  <2>1. NoOath \in [tab : Tabs \cup {Blank}, draft : Drafts]
    BY NewDraftTyped DEF NoOath
  <2> QED
    BY <1>6, <2>1 DEF OathBroken, IInv, WizardTypeOK, WizardSound, DraftInOrder, SwornOnce,
                      SealHonest, OathOpen, OathsCounted, TabsBehind, Sworn, Done
<1> QED
  BY <1>1, <1>2, <1>3, <1>4, <1>5, <1>6, StoreStep, JourneyStep DEF WizardNext

\* The invariant holds throughout.
LEMMA Invariance == WizardSpec => []IInv
<1>1. WizardInit => IInv
  BY InitHolds, WizardAssumption
<1>2. IInv /\ [WizardNext]_wizardVars => IInv'
  BY StepHolds, WizardAssumption
<1> QED
  BY <1>1, <1>2, PTL DEF WizardSpec

\* The making of a hero keeps its types (play/creation.py, create/page.tsx).
THEOREM TypeCorrect == WizardSpec => []WizardTypeOK
<1>1. IInv => WizardTypeOK
  BY DEF IInv
<1> QED
  BY <1>1, Invariance, PTL

\* One hero is sworn, whole and by its rows, from a draft that was answered in
\* order; and the seal a page offers can be given, for any number of stages,
\* tabs, heroes and restarts.
THEOREM OneHeroIsSworn == WizardSpec => []WizardSound
<1>1. IInv => WizardSound
  BY DEF IInv
<1> QED
  BY <1>1, Invariance, PTL
=============================================================================
