------------------------------- MODULE Canon -------------------------------
(***************************************************************************)
(* Pass D of a turn of the narrative engine: Orchestrator.consistency_check*)
(* and what take_turn does about it (engine/src/engine/pipeline.py).       *)
(*                                                                         *)
(* The prose of a turn is told only when it has been scanned: a dead NPC   *)
(* may not speak, pinned canon may not be contradicted, and what the       *)
(* validator refused this turn may not be told as if it had happened.      *)
(* What is found is sent back to the narrator once; what is found again is *)
(* cut out, and a stock line stands for a text of which nothing is left.   *)
(* Canon itself moves while this goes on: each of the two passes commits   *)
(* the deltas that came with its prose before that prose is scanned.       *)
(*                                                                         *)
(* A sentence is what the scan can tell of it: whom it has speak, which    *)
(* pinned fact it contradicts (conflict_reason), which refused delta it    *)
(* restates.  A text is its sentences by place; a cut leaves its place     *)
(* empty.  What a delta needs to be let through is in EngineTurn, where    *)
(* the chronicle's row and the moods are: they are written between the     *)
(* first commit and the first scan, from the prose as it first was.        *)
(***************************************************************************)
EXTENDS Naturals

CONSTANTS
    Sentences, Silence,  \* what a place of a text holds; Silence is none
    StockLine,           \* _PATCH_FALLBACK
    Places, Opening,     \* the places of a text, and the first
    Entries,             \* the entries of npc_dialogue
    Voices, Dead,        \* who may be heard, and npcs.alive = 0 among them
    Lore,                \* statements that may be pinned
    Claims,              \* deltas that may be proposed
    Pins,                \* the statements a delta pins when it is applied
    Against,             \* conflict_reason: sentences and pinned statements
    Heard,               \* sentences and those they have speak
    Restates,            \* _restatement: sentences and refused deltas
    FirstCanon,          \* what may be pinned before the first turn
    MaxTold, MaxTries    \* bounds: turns told, turns begun

ASSUME CanonAssumption ==
    /\ Silence \notin Sentences /\ StockLine \in Sentences
    /\ Opening \in Places
    /\ Silence \notin Voices /\ Dead \subseteq Voices
    /\ Pins \in [Claims -> SUBSET Lore]
    /\ Against \subseteq Sentences \X Lore
    /\ Heard \subseteq Sentences \X Voices
    /\ Restates \subseteq Sentences \X Claims
    /\ FirstCanon \subseteq SUBSET Lore
    /\ MaxTold \in Nat /\ MaxTries \in Nat

VARIABLES
    canon,    \* pinned world_facts
    telling,  \* the locals of take_turn
    logRow,   \* the last row of turn_log
    told,     \* bound: rows of turn_log
    tries     \* bound: turns begun

canonVars == <<canon, telling, logRow, told, tries>>

Text == [Places -> Sentences \cup {Silence}]
Dialogue == [Entries -> Voices \cup {Silence}]
Notes == {"regenerating", "cleared", "patched", "unresolved", "refusals"}

Draft ==
    [ at      : {"rest", "narrate", "scan", "log", "meter"},
      pass    : {1, 2},
      prose   : Text,
      lines   : Dialogue,
      applied : SUBSET Claims,  \* by the first pass
      refused : SUBSET Claims,  \* report.rejected
      denied  : SUBSET Claims,  \* history: refused by either pass
      notes   : SUBSET Notes ]  \* system_lines

Untold == [k \in Places |-> Silence]
Stock == [k \in Places |-> IF k = Opening THEN StockLine ELSE Silence]
NoLines == [k \in Entries |-> Silence]

NoDraft ==
    [ at |-> "rest", pass |-> 1, prose |-> Untold, lines |-> NoLines,
      applied |-> {}, refused |-> {}, denied |-> {}, notes |-> {} ]

CanonInit ==
    /\ canon \in FirstCanon
    /\ telling = NoDraft
    /\ logRow = [prose |-> Untold, lines |-> NoLines]
    /\ told = 0 /\ tries = 0

-----------------------------------------------------------------------------
(* The scan *)

DeadSpeech(s) == \E v \in Dead : <<s, v>> \in Heard
PinnedConflict(s, facts) == \E f \in facts : <<s, f>> \in Against
Restated(s, refused) == \E c \in refused : <<s, c>> \in Restates

Flawed(s, facts, refused) ==
    DeadSpeech(s) \/ PinnedConflict(s, facts) \/ Restated(s, refused)

\* _scan_consistency: the spans and the entries of the problems.
FlawedPlaces(prose, refused) == {k \in Places : Flawed(prose[k], canon, refused)}
Spoiled(d) == FlawedPlaces(d.prose, d.refused)
DeadLines(d) == {k \in Entries : d.lines[k] \in Dead}
Clean(d) == Spoiled(d) = {} /\ DeadLines(d) = {}

\* _patch
Cut(d) == [k \in Places |-> IF k \in Spoiled(d) THEN Silence ELSE d.prose[k]]
Patched(d) == IF Cut(d) = Untold THEN Stock ELSE Cut(d)
Quieted(d) == [k \in Entries |-> IF k \in DeadLines(d) THEN Silence ELSE d.lines[k]]

-----------------------------------------------------------------------------
(* Slips *)

\* The verdicts of the second pass alone.
LatestRefusals(d, refused) == refused

-----------------------------------------------------------------------------
(* A turn *)

BeginTelling ==
    /\ telling.at = "rest" /\ told < MaxTold /\ tries < MaxTries
    /\ telling' = [NoDraft EXCEPT !.at = "narrate"]
    /\ tries' = tries + 1
    /\ UNCHANGED <<canon, logRow, told>>

\* _commit_pass: a proposed delta is applied or refused, and one that is proposed
\* twice may be both; what this turn has applied already is skipped.
Unapplied(d) == Claims \ d.applied

\* A statement that an older fact covers is not written again.
Written(took) == UNION {Pins[c] : c \in took}

\* _merge_reports
AllRefusals(d, refused) == d.refused \cup refused

\* Pass B and Pass C, the first time.
TellFirst ==
    /\ telling.at = "narrate" /\ telling.pass = 1
    /\ \E prose \in Text, lines \in Dialogue, took, turned \in SUBSET Unapplied(telling) :
         /\ telling' = [telling EXCEPT !.at = "scan", !.prose = prose, !.lines = lines,
                                   !.applied = took, !.refused = turned, !.denied = turned]
         /\ \E news \in SUBSET Written(took) : canon' = canon \cup news
    /\ UNCHANGED <<logRow, told, tries>>

\* Once more, with the problems as a note.  An empty text leaves the first one
\* standing, its dialogue does not.
TellAgain ==
    /\ telling.at = "narrate" /\ telling.pass = 2
    /\ \E prose \in Text, lines \in Dialogue, took, turned \in SUBSET Unapplied(telling) :
         /\ telling' = [telling EXCEPT
                !.at = "scan", !.lines = lines,
                !.prose = IF prose = Untold THEN @ ELSE prose,
                !.refused = AllRefusals(telling, turned),
                !.denied = @ \cup turned]
         /\ \E news \in SUBSET Written(took) : canon' = canon \cup news
    /\ UNCHANGED <<logRow, told, tries>>

Marked(d, notes) == [d EXCEPT !.notes = @ \cup notes]

SendBack ==
    /\ telling.at = "scan" /\ telling.pass = 1 /\ ~Clean(telling)
    /\ telling' = [Marked(telling, {"regenerating"}) EXCEPT !.at = "narrate", !.pass = 2]
    /\ UNCHANGED <<canon, logRow, told, tries>>

LetStand ==
    /\ telling.at = "scan" /\ Clean(telling)
    /\ telling' = [Marked(telling, IF telling.pass = 2 THEN {"cleared"} ELSE {}) EXCEPT !.at = "log"]
    /\ UNCHANGED <<canon, logRow, told, tries>>

\* The last resort, scanned once more for the note.
Patch ==
    /\ telling.at = "scan" /\ telling.pass = 2 /\ ~Clean(telling)
    /\ LET d == [telling EXCEPT !.prose = Patched(telling), !.lines = Quieted(telling)]
           rest == IF Clean(d) THEN {} ELSE {"unresolved"}
       IN telling' = [Marked(d, {"patched"} \cup rest) EXCEPT !.at = "log"]
    /\ UNCHANGED <<canon, logRow, told, tries>>

\* _write_turn_log
LogTelling ==
    /\ telling.at = "log"
    /\ logRow' = [prose |-> telling.prose, lines |-> telling.lines]
    /\ told' = told + 1
    /\ telling' = [Marked(telling, IF telling.refused = {} THEN {} ELSE {"refusals"}) EXCEPT !.at = "meter"]
    /\ UNCHANGED <<canon, tries>>

\* _write_telemetry, and the answer.
EndTelling ==
    /\ telling.at = "meter"
    /\ telling' = NoDraft
    /\ UNCHANGED <<canon, logRow, told, tries>>

\* The provider fails or the process dies: canon keeps what was committed.
AbandonTelling ==
    /\ telling.at # "rest"
    /\ telling' = NoDraft
    /\ UNCHANGED <<canon, logRow, told, tries>>

CanonNext ==
    \/ BeginTelling \/ TellFirst \/ TellAgain
    \/ SendBack \/ LetStand \/ Patch
    \/ LogTelling \/ EndTelling \/ AbandonTelling

CanonSpec == CanonInit /\ [][CanonNext]_canonVars

-----------------------------------------------------------------------------
(* Properties *)

\* The locals of a turn and the log's row have their types.
CanonTypeOK ==
    /\ canon \subseteq Lore
    /\ telling \in Draft
    /\ logRow \in [prose : Text, lines : Dialogue]
    /\ told \in 0..MaxTold /\ tries \in 0..MaxTries

\* The dead are not heard in the dialogue, and no sentence goes against canon
\* or a refusal of either pass: the one exception is the stock line, which
\* nobody scans before it is chosen, and then the player is told so.
Presentable(d) ==
    /\ DeadLines(d) = {}
    /\ FlawedPlaces(d.prose, d.denied) # {} => d.prose = Stock /\ "unresolved" \in d.notes
    /\ FlawedPlaces(d.prose, d.denied) = {} => "unresolved" \notin d.notes

\* pipeline.py _patch: the player is never shown a narration that contradicts
\* pinned canon, as canon is when the turn is logged, whatever the second pass
\* pinned or was refused; and what the log keeps is what was scanned.
CanonHolds ==
    /\ telling.at \in {"log", "meter"} => Presentable(telling)
    /\ telling.at = "meter" => logRow = [prose |-> telling.prose, lines |-> telling.lines]
=============================================================================
