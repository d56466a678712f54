------------------------------- MODULE Telling -------------------------------
(***************************************************************************)
(* The storyteller of the play session: which model narrates               *)
(* (app/modules/ai), what free text asks of the rules (actions, rules),    *)
(* and what becomes of a completion before the player reads it (narrator,  *)
(* play/engine.py).                                                        *)
(*                                                                         *)
(* One player of one campaign sends one action after another; a model call *)
(* takes its time, and the settings may be saved while it lasts.  The      *)
(* story itself and the Inspiration it earns are StoryArc's, the           *)
(* transactions are PlaySession's: here an authored beat is its brief, and *)
(* a relationship is the DC it is worth.                                   *)
(***************************************************************************)
EXTENDS Integers, Sequences, FiniteSets

CONSTANTS
    Inputs,          \* what the player may type, each a set of cues
    Completions,        \* completions a model may return
    Environments,   \* what the deployment may configure
    FirstRows,      \* settings rows an account may start with
    Faces,          \* faces a die may show
    Shifts,         \* what a relationship may add to a DC
    RepeatAfter, IdleAfter,   \* REPEAT_DIMINISH_AFTER, IDLE_DIMINISH_AFTER
    FirstPoints,    \* Inspiration in hand
    MaxActs, MaxSaves   \* bounds

\* A row of the account's AI settings, and an account that has none.
NoSettings == [name |-> "none", whole |-> FALSE, key |-> FALSE]
Settings == [name : {"unset", "stub", "foreign", "compat"}, whole : BOOLEAN, key : BOOLEAN]

ASSUME TellingAssumption ==
    /\ FirstRows \subseteq Settings \cup {NoSettings}
    /\ \A reply \in Completions :
          /\ reply.told \in Seq(SUBSET STRING) /\ reply.shut \in BOOLEAN
          /\ reply.form = "long" => reply.told # <<>>
    /\ Faces \subseteq 1..20 /\ Shifts \subseteq Int
    /\ Environments \subseteq {"unset", "foreign", "broken", "whole"}
    /\ {RepeatAfter, IdleAfter, FirstPoints, MaxActs, MaxSaves} \subseteq Nat

VARIABLES
    env,     \* the deployment's AI_PROVIDER and what belongs to it
    row,     \* AiProviderSettingRow of the account
    panel,   \* the connection the settings page was last told of
    hero,    \* the saved state, as far as a telling depends on it
    pending, \* the check the page asks the player to throw
    act,     \* the request in flight
    answer,  \* how the last request was answered
    line,    \* what the last settled beat put before the player
    burnt,   \* Inspiration spent on a throw
    acts, saves   \* bounds

tellingVars == <<env, row, panel, hero, pending, act, answer, line, burnt, acts, saves>>

Last(s) == s[Len(s)]
Within(s) == {s[i] : i \in DOMAIN s}
Keeps(s, P) ==
    LET kept[i \in 0..Len(s)] ==
            IF i = 0 THEN <<>>
            ELSE IF s[i] \in P THEN kept[i - 1] ELSE Append(kept[i - 1], s[i])
    IN  kept[Len(s)]

-----------------------------------------------------------------------------
(* Who narrates *)

Unconnected(source, reason) == [by |-> "nothing", source |-> source, reason |-> reason]
Through(source) == [by |-> source, source |-> source, reason |-> ""]

\* _resolve_row
RowConnection(r) ==
    CASE r.name \in {"unset", "stub"} -> Unconnected("settings", r.name)
      [] r.name = "foreign" -> Unconnected("settings", "unsupported")
      [] r.name = "compat" /\ ~r.whole -> Unconnected("settings", "incomplete")
      [] OTHER -> Through("settings")

\* env_connection: the retired stub reads as an environment that names nothing.
EnvConnection ==
    CASE env = "unset" -> Unconnected("default", "unset")
      [] env = "foreign" -> Unconnected("env", "unsupported")
      [] env = "broken" -> Unconnected("env", "misconfigured")
      [] OTHER -> Through("env")

\* resolve
Connection == IF row # NoSettings THEN RowConnection(row) ELSE EnvConnection

-----------------------------------------------------------------------------
(* What a text asks of the rules: the interpreter *)

\* The cues stand for the phrases the patterns are written for; the first
\* pattern of a list that matches wins.
FirstOf(patterns, text, none) ==
    LET hits == {i \in DOMAIN patterns : patterns[i].cues \cap text # {}}
    IN  IF hits = {} THEN none ELSE patterns[CHOOSE i \in hits : \A j \in hits : i <= j].is

Kind(text) ==
    FirstOf(<< [cues |-> {"persuade", "lie", "threaten"}, is |-> "social"],
               [cues |-> {"say"}, is |-> "dialogue"],
               [cues |-> {"attack"}, is |-> "attack"],
               [cues |-> {"sneak", "prowl"}, is |-> "sneak"],
               [cues |-> {"search", "look"}, is |-> "inspect"],
               [cues |-> {"walk", "climb"}, is |-> "move"],
               [cues |-> {"drink"}, is |-> "item"],
               [cues |-> {"rest"}, is |-> "rest"] >>, text, "other")

Overt(skill, dc) == [skill |-> skill, dc |-> dc, hidden |-> FALSE, social |-> FALSE]
Quiet(skill) == [Overt(skill, 13) EXCEPT !.hidden = TRUE]
Social(skill) == [Overt(skill, 13) EXCEPT !.social = TRUE]
NoCheck == Overt("none", 0)

\* _SKILL_HINTS, at the DC of their band
Hinted(text) ==
    FirstOf(<< [cues |-> {"trap"}, is |-> Overt("Thievery", 16)],
               [cues |-> {"lie"}, is |-> Quiet("Insight")],
               [cues |-> {"tracks"}, is |-> Quiet("Perception")],
               [cues |-> {"recall"}, is |-> Quiet("Lore")],
               [cues |-> {"climb"}, is |-> Overt("Athletics", 13)],
               [cues |-> {"persuade"}, is |-> Social("Persuasion")],
               [cues |-> {"threaten"}, is |-> Social("Intimidation")],
               [cues |-> {"sneak"}, is |-> Overt("Stealth", 13)],
               [cues |-> {"search"}, is |-> Overt("Investigation", 13)],
               [cues |-> {"attack"}, is |-> Overt("Swordsmanship", 13)] >>, text, NoCheck)

ByKind(kind) ==
    CASE kind = "attack" -> Overt("Swordsmanship", 13)
      [] kind = "sneak" -> Overt("Stealth", 13)
      [] kind = "inspect" -> Overt("Investigation", 13)
      [] kind = "item" -> Overt("General", 13)
      [] OTHER -> NoCheck

\* _strip_fact_claims: the player authors a fact.
Dictates(text) == "conjure" \in text

\* parse, to_check_requests: one check at most, and none that would reward a
\* claim.
CheckOf(text) ==
    LET asked == IF Hinted(text) # NoCheck THEN Hinted(text) ELSE ByKind(Kind(text))
    IN  IF Dictates(text) /\ asked.skill = "General" THEN NoCheck ELSE asked

-----------------------------------------------------------------------------
(* The die *)

\* _social_context: only who is in the room can be aimed at.
Aimed(text) == "marla" \in text /\ hero.near

\* apply_social_policy: a check aimed at nobody is role-played.
Rolls(text) == CheckOf(text) # NoCheck /\ (CheckOf(text).social => Aimed(text))

AtLeastOne(n) == IF n < 1 THEN 1 ELSE n
DcOf(text) ==
    IF CheckOf(text).social THEN AtLeastOne(CheckOf(text).dc + hero.shift) ELSE CheckOf(text).dc

\* _classify; free text carries no modifier.
Classify(face, margin) ==
    CASE face = 1 -> "critical failure"
      [] face = 20 -> "exceptional"
      [] face \notin {1, 20} /\ margin <= -10 -> "critical failure"
      [] face \notin {1, 20} /\ margin \in -9..-1 -> "failure"
      [] face \notin {1, 20} /\ margin \in 0..2 -> "success with cost"
      [] face \notin {1, 20} /\ margin \in 3..9 -> "success"
      [] OTHER -> "exceptional"
Passed == {"success with cost", "success", "exceptional"}

\* roll_check: of two dice the higher stands.
Higher(dice) == IF Len(dice) = 2 /\ dice[2] > dice[1] THEN dice[2] ELSE dice[1]
Outcome(dice, dc) == Classify(Higher(dice), Higher(dice) - dc)

\* is_long_odds
LongOdds(dc) == dc > 19

-----------------------------------------------------------------------------
(* What becomes of a completion: the narrator *)

\* A prose is its sentences, as the repair splits them: a sentence ends in a
\* mark [.!?] with a space after it.  A sentence is the set of what it does:
\* "gain" (the hero comes by a thing), "keepsake" (by one already in the pack),
\* "arrive" and "return" (at a new place, at a known one), "runon" (it begins
\* an arrival whose place stands in the next sentence), "reward", "quote",
\* "calm" (a stock sentence), "refusal".

Says(words, kind) == \E s \in Within(words) : kind \in s

\* What is written behind a prose stands in a sentence of its own only when
\* the prose is shut, its last character a mark.
Glued(words, shut, kind) ==
    IF shut \/ words = <<>> THEN Append(words, {kind})
    ELSE [words EXCEPT ![Len(words)] = @ \cup {kind}]

\* parse_narrator_payload, render_prose: the narration of the object, however
\* it is wrapped or broken; a note when only scaffolding is left; else the
\* text, cut to its length or closed with a stock sentence.
Prose(reply) ==
    CASE reply.form = "scaffold" -> <<{"calm"}>>
      [] reply.form = "long" -> SubSeq(reply.told, 1, 1)
      [] reply.form = "short" -> Glued(reply.told, reply.shut, "calm")
      [] OTHER -> reply.told
Ends(reply) == reply.form \in {"scaffold", "short"} \/ reply.shut

\* _drop_echoed_dialogue
Spoken(reply) ==
    IF reply.form \notin {"object", "salvage"} \/ Says(reply.told, reply.spoken)
    THEN "none" ELSE reply.spoken

\* validate_narration.  Gains and arrivals are judged by the first of them,
\* over the whole text; the engine approves no reward.  (Nothing here can be
\* "regenerated": no fact is handed over, and who is alive is listed by slug,
\* which prose never writes.)
Gains == {"gain", "keepsake"}
Moves == {"arrive", "return"}
Ways == Moves \cup {"runon"}
FirstIn(words, P) ==
    LET hits == {i \in DOMAIN words : words[i] \cap P # {}}
    IN  IF hits = {} THEN {} ELSE words[CHOOSE i \in hits : \A j \in hits : i <= j] \cap P
Issues(words) ==
    (IF FirstIn(words, Gains) = {"gain"} THEN {"bad_item"} ELSE {})
      \cup (IF FirstIn(words, Ways) \cap {"arrive", "runon"} # {} THEN {"teleport"} ELSE {})
      \cup (IF Says(words, "reward") THEN {"unapproved_reward"} ELSE {})

\* A slip: only the issues of the gravest class are repaired.
StripsGravest(issues) ==
    IF issues \cap {"bad_item", "teleport"} # {}
    THEN (IF "bad_item" \in issues THEN Gains ELSE {}) \cup (IF "teleport" \in issues THEN Moves ELSE {})
    ELSE IF issues # {} THEN {"reward"} ELSE {}

\* repair_narration: every sentence that does what is at issue goes whole,
\* approved or not, with all else it says; an arrival that runs on into the
\* next sentence is found in neither.
Strips(issues) ==
    (IF "bad_item" \in issues THEN Gains ELSE {})
      \cup (IF "teleport" \in issues THEN Moves ELSE {})
      \cup (IF "unapproved_reward" \in issues THEN {"reward"} ELSE {})
AtIssue(words) == {s \in Within(words) : s \cap Strips(Issues(words)) # {}}
Repaired(words) ==
    LET kept == Keeps(words, AtIssue(words)) IN IF kept = <<>> THEN <<{"calm"}>> ELSE kept

\* orchestrate: a claim is answered behind the prose, before the words are
\* validated.
DraftOf(text, reply) ==
    IF Dictates(text) THEN Glued(Prose(reply), Ends(reply), "refusal") ELSE Prose(reply)

-----------------------------------------------------------------------------
(* The request *)

Hero == [ near : BOOLEAN, shift : Shifts, inspired : BOOLEAN, points : 0..FirstPoints,
          beats : Nat, last : Nat, walked : [Inputs -> Nat] ]
NoPending == [text |-> {}, board |-> <<>>, dc |-> 0, long |-> FALSE, advantage |-> FALSE]
NoAct ==
    [ stage |-> "none", text |-> {}, by |-> "nothing", row |-> NoSettings, dice |-> <<>>, dc |-> 0,
      called |-> 0, progress |-> FALSE, near |-> FALSE, shift |-> 0, brief |-> FALSE, dim |-> FALSE,
      tries |-> 0, calls |-> 0 ]
NoLine ==
    [ text |-> {}, by |-> "nothing", row |-> NoSettings, dice |-> <<>>, dc |-> 0, called |-> 0,
      outcome |-> "none", draft |-> <<>>, words |-> <<>>, spoken |-> "none", brief |-> FALSE, dim |-> FALSE, calls |-> 0 ]

TellingInit ==
    /\ env \in Environments /\ row \in FirstRows
    /\ panel = Unconnected("unread", "")
    /\ \E near \in BOOLEAN, shift \in Shifts :
         hero = [ near |-> near, shift |-> shift, inspired |-> FALSE, points |-> FirstPoints,
                  beats |-> 0, last |-> 0, walked |-> [t \in Inputs |-> 0] ]
    /\ pending = NoPending /\ act = NoAct /\ answer = "none" /\ line = NoLine
    /\ burnt = 0 /\ acts = 0 /\ saves = 0

\* put_settings: a stub, a foreign name or a half endpoint is refused; an
\* empty key field keeps the key.
PutSettings ==
    /\ saves < MaxSaves /\ saves' = saves + 1
    /\ \/ UNCHANGED <<row, panel>>
       \/ \E key \in BOOLEAN :
            /\ row' = [name |-> "compat", whole |-> TRUE, key |-> key]
            /\ panel' = RowConnection(row')
    /\ UNCHANGED <<env, hero, pending, act, answer, line, burnt, acts>>

\* get_settings
GetSettings ==
    /\ panel # Connection
    /\ panel' = Connection
    /\ UNCHANGED <<env, row, hero, pending, act, answer, line, burnt, acts, saves>>

\* _route: authored words have their beat, the rest is the pipeline's.
Spends(text) == "spend" \in text
Authored(text) == "inn" \in text \/ Spends(text)
FreeText(text) == ~Authored(text)

\* SceneDirector.diminishing, once the beat is counted: the third time always,
\* the second in a scene that has idled.
Diminishes(text, progress) ==
    LET repeats == hero.walked[text] + 1
        idle == hero.beats + 1 - hero.last
    IN  ~progress /\ (repeats >= RepeatAfter \/ (repeats >= 2 /\ idle >= IdleAfter))

Idle == act.stage = "none" /\ acts < MaxActs
Stays == UNCHANGED <<env, row, panel, saves>>
Reported(how) == answer' = how /\ acts' = acts + 1

\* The handler refuses before the engine when nothing is connected.
Refused ==
    /\ Idle /\ Connection.by = "nothing"
    /\ Reported("connect_your_ai")
    /\ Stays /\ UNCHANGED <<hero, pending, act, line, burnt>>

\* The die the player throws for a check that was called, or none.
Throws(text, dice) ==
    \/ dice = <<>>
    \/ pending.text = text
       /\ \E f \in Faces : dice = <<f>> \/ (pending.advantage /\ \E g \in Faces : dice = <<f, g>>)

\* The token is the board the check was called on.
Expired(text, dice) == dice # <<>> /\ pending.board # hero
CheckExpired ==
    /\ Idle /\ Connection.by # "nothing"
    /\ pending # NoPending
    /\ Expired(pending.text, <<1>>)
    /\ Reported("check_expired")
    /\ Stays /\ UNCHANGED <<hero, pending, act, line, burnt>>

Suspends(text, dice) == FreeText(text) /\ Rolls(text) /\ ~CheckOf(text).hidden /\ dice = <<>>

\* CheckSuspension: the check is called, with its DC and its odds.
CheckCalled ==
    /\ Idle /\ Connection.by # "nothing"
    /\ \E text \in Inputs :
         /\ Suspends(text, <<>>)
         /\ pending' = [ text |-> text, board |-> hero, dc |-> DcOf(text),
                         long |-> LongOdds(DcOf(text)), advantage |-> hero.inspired ]
    /\ Reported("pending")
    /\ Stays /\ UNCHANGED <<hero, act, line, burnt>>

\* What is rolled: hidden checks behind the screen, one die; a called one with
\* the faces thrown, and a second die drawn when Inspiration burns without one.
Rolled(text, dice) ==
    IF ~(FreeText(text) /\ Rolls(text)) THEN {<<>>}
    ELSE IF CheckOf(text).hidden THEN {<<f>> : f \in Faces}
    ELSE IF ~hero.inspired THEN {SubSeq(dice, 1, 1)}
    ELSE IF Len(dice) = 2 THEN {dice} ELSE {Append(dice, f) : f \in Faces}

\* act, up to the model: the provider is the one connected now.
Begun(text, dice, rolled, progress, near, shift) ==
    [ NoAct EXCEPT !.stage = "asking", !.text = text, !.by = Connection.by, !.row = row,
                   !.dice = rolled, !.dc = IF rolled = <<>> THEN 0 ELSE DcOf(text),
                   !.called = IF dice = <<>> THEN 0 ELSE pending.dc,
                   !.progress = progress, !.near = near, !.shift = shift,
                   !.brief = Authored(text),
                   !.dim = Authored(text) /\ Diminishes(text, progress) ]

\* _beat_pipeline up to its call: the attempt teaches, so a die is progress.
BeginFree ==
    /\ Idle /\ Connection.by # "nothing"
    /\ \E text \in Inputs :
         /\ FreeText(text)
         /\ \E dice \in {<<>>} \cup {<<f>> : f \in Faces} \cup (Faces \X Faces) :
              /\ Throws(text, dice) /\ ~Expired(text, dice) /\ ~Suspends(text, dice)
              /\ \E rolled \in Rolled(text, dice) :
                   act' = Begun(text, dice, rolled, rolled # <<>>, hero.near, hero.shift)
    /\ Stays /\ UNCHANGED <<hero, pending, answer, line, burnt, acts>>

\* An authored beat moves the board or not, and leaves its brief; Inspiration
\* that is lit moves nothing (_beat_spend_inspiration).
BeginAuthored ==
    /\ Idle /\ Connection.by # "nothing"
    /\ \E text \in Inputs :
         /\ Authored(text)
         /\ \/ act' = Begun(text, <<>>, <<>>, FALSE, hero.near, hero.shift)
            \/ /\ ~Spends(text)
               /\ \E near \in BOOLEAN, shift \in Shifts :
                    act' = Begun(text, <<>>, <<>>, TRUE, near, shift)
    /\ Stays /\ UNCHANGED <<hero, pending, answer, line, burnt, acts>>

\* The saved state once a beat is counted (note_beat) and checkpointed.
Counted(text, progress) ==
    [ hero EXCEPT !.beats = @ + 1, !.last = IF progress THEN hero.beats + 1 ELSE @,
                  !.walked[text] = @ + 1 ]

-----------------------------------------------------------------------------
(* The call *)

\* A turn that fails is answered with its code; the session it drafted is
\* thrown away.
FailedTurn(code) ==
    /\ act' = NoAct /\ Reported(code)
    /\ Stays /\ UNCHANGED <<hero, pending, line, burnt>>

\* OpenAICompatibleProvider.generate: a timeout or an HTTP error is tried once
\* more.
TriesAgain == act.tries = 0
NoAnswer ==
    /\ act.stage = "asking"
    /\ IF TriesAgain
       THEN act' = [act EXCEPT !.tries = 1] /\ Stays /\ UNCHANGED <<hero, pending, answer, line, burnt, acts>>
       ELSE FailedTurn("provider_failed")

\* _to_result rejects an object of another shape; a body that is no JSON is an
\* error nobody expected.
Malformed == act.stage = "asking" /\ \E code \in {"provider_failed", "turn_failed"} : FailedTurn(code)

\* _beat_spend_inspiration: a point is lit, unless one burns already.
Lit(h, text) ==
    IF Spends(text) /\ ~h.inspired /\ h.points > 0
    THEN [h EXCEPT !.inspired = TRUE, !.points = @ - 1] ELSE h

\* The beat settles: what was drafted is saved, and the page is told.
SettleBeat(draft, words, spoken, calls) ==
    LET burns == Len(act.dice) = 2
    IN  /\ hero' = [ Lit(Counted(act.text, act.progress), act.text) EXCEPT
                        !.near = act.near, !.shift = act.shift, !.inspired = @ /\ ~burns ]
        /\ burnt' = IF burns THEN burnt + 1 ELSE burnt
        /\ line' = [ text |-> act.text, by |-> act.by, row |-> act.row, dice |-> act.dice,
                     dc |-> act.dc, called |-> act.called,
                     outcome |-> IF act.dice = <<>> THEN "none" ELSE Outcome(act.dice, act.dc),
                     draft |-> draft, words |-> words, spoken |-> spoken,
                     brief |-> act.brief, dim |-> act.dim, calls |-> calls ]
        /\ act' = NoAct /\ Reported("told")
        /\ Stays /\ UNCHANGED pending

\* _narrate: what the model made of a brief is told as it is.
TellBrief ==
    /\ act.stage = "asking" /\ act.brief
    /\ \E reply \in Completions :
         SettleBeat(Prose(reply), Prose(reply), Spoken(reply), act.calls + 1)

\* orchestrate from the narration on: the words are validated and repaired.
\* The guard is asked after them: ground already walked is told once more, from
\* the diminishing brief.
TellFree ==
    /\ act.stage = "asking" /\ ~act.brief
    /\ \E reply \in Completions :
         IF Diminishes(act.text, act.progress)
         THEN /\ act' = [act EXCEPT !.brief = TRUE, !.dim = TRUE, !.tries = 0, !.calls = @ + 1]
              /\ Stays /\ UNCHANGED <<hero, pending, answer, line, burnt, acts>>
         ELSE SettleBeat(DraftOf(act.text, reply), Repaired(DraftOf(act.text, reply)), Spoken(reply),
                         act.calls + 1)

TellingNext ==
    \/ PutSettings \/ GetSettings
    \/ Refused \/ CheckExpired \/ CheckCalled \/ BeginFree \/ BeginAuthored
    \/ NoAnswer \/ Malformed \/ TellBrief \/ TellFree

TellingSpec == TellingInit /\ [][TellingNext]_tellingVars

-----------------------------------------------------------------------------
(* Properties *)

TellingTypeOK ==
    /\ row \in Settings \cup {NoSettings} /\ hero \in Hero
    /\ act.stage \in {"none", "asking"} /\ act.tries \in 0..1 /\ act.calls \in 0..1
    /\ burnt \in 0..FirstPoints /\ acts \in 0..MaxActs + 1 /\ saves \in 0..MaxSaves

\* Whoever told the line is whom the account had named when it was sent: a
\* saved row, whole; the environment only where nothing was ever saved.
ToldByNamed ==
    /\ line.by = "settings" => line.row.name = "compat" /\ line.row.whole
    /\ line.by = "env" => line.row = NoSettings /\ env = "whole"

\* What free text is answered with grants nothing: no reward; no thing gained
\* and no place reached unless the first of the draft was one the player has or
\* knows; a claim is refused in words, unless the refusal was written into an
\* unfinished sentence that gains, moves or rewards and went with it; and what
\* is spoken stands in the answer once.
GrantsNothing ==
    line.calls > 0 /\ ~line.brief =>
        /\ \A s \in Within(line.words) :
              /\ "reward" \notin s
              /\ "gain" \in s => "keepsake" \in FirstIn(line.draft, Gains)
              /\ "arrive" \in s => FirstIn(line.draft, Ways) = {"return"}
              /\ "quote" \in s => line.spoken # "quote"
        /\ "conjure" \in line.text =>
              \/ "refusal" \in Last(line.words)
              \/ Last(line.draft) \cap (Gains \cup Moves \cup {"reward"}) # {}

\* A check is thrown at the DC it was called with, its odds were named as they
\* are, and Inspiration is spent by a throw or still in hand: no failed turn,
\* no pending check and no quiet roll burns it.
ThrowHonest ==
    /\ line.called # 0 => line.dc = line.called
    /\ pending # NoPending =>
          (pending.long <=> \A f \in 1..19 : Classify(f, f - pending.dc) \notin Passed)
    /\ hero.points + burnt + (IF hero.inspired THEN 1 ELSE 0) = FirstPoints

\* One call tells one beat; a free text that is diminished is the exception.
CallsCounted ==
    line.calls = IF line.by = "nothing" THEN 0
                 ELSE IF line.dim /\ FreeText(line.text) THEN 2 ELSE 1

TellingSound == ToldByNamed /\ GrantsNothing /\ ThrowHonest /\ CallsCounted
=============================================================================
