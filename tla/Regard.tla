------------------------------- MODULE Regard -------------------------------
(***************************************************************************)
(* What one character of the play session holds of the player              *)
(* (app/modules/npc, the mood, memory and relationship helpers of          *)
(* play/state.py and play/engine.py): what is remembered moves a meter,    *)
(* what happened leaves a mood that fades on the clock, and both, with the *)
(* character's own traits, set the DC of a social check.  The content      *)
(* boundaries ride each request and may change between two of them.        *)
(*                                                                         *)
(* Levels are in ten-thousandths, traits in tenths.  A character's entries *)
(* depend on nobody else's.                                                *)
(***************************************************************************)
EXTENDS Integers, Sequences, FiniteSets

CONSTANTS
    People,      \* characters
    Events,      \* what beats leave behind
    Spans,       \* minutes a beat may take
    Approaches,  \* how a social check may be made
    Bands,       \* DCs of the bands
    Cap,         \* NPC_MEMORY_CAP
    MaxBeats, MaxFlips   \* bounds

\* MOODS
Words == {"neutral", "happy", "amused", "warm", "sad", "lonely", "angry", "afraid", "anxious",
          "tired", "curious", "suspicious", "grateful", "resentful", "proud", "flirty", "horny"}

ASSUME RegardAssumption ==
    /\ People \subseteq {"marla", "borin", "sella", "tomm", "anselm"}
    /\ Spans \subseteq Nat /\ Bands \subseteq 1..27
    /\ \A e \in Events : e.salience \in Nat /\ e.delta \in Int /\ e.mood \in Words /\ e.level \in Int
    /\ Cap \in Nat \ {0} /\ MaxBeats \in Nat /\ MaxFlips \in Nat

\* An entry of moods, and one of npc_memory_log.
Levels == 0..10000
MoodRows == [word : Words, level : Levels]
Weights == {e.salience : e \in Events}
WeighedEntries == [text : {e.text : e \in Events}, salience : Weights]

VARIABLES
    who,       \* the character
    nsfw,      \* the boundaries of the request at hand
    feeling,   \* moods[who]
    attitude,  \* attitudes[who]
    log,       \* npc_memory_log
    called,    \* the social check the player was asked to throw
    thrown,    \* the DC it was resolved at
    under,     \* the boundaries when the mood was left
    age,       \* minutes since
    moved,     \* per event: moves of the meter
    forgotten, \* salience of the memories that fell out
    beats, flips   \* bounds

regardVars == <<who, nsfw, feeling, attitude, log, called, thrown, under, age, moved, forgotten, beats, flips>>

Lower(x, y) == IF x < y THEN x ELSE y
Upper(x, y) == IF x < y THEN y ELSE x
Clamp(low, high, x) == Upper(low, Lower(high, x))

\* _round_away_from_zero of n/d
RoundAway(n, d) == IF n >= 0 THEN (2 * n + d) \div (2 * d) ELSE -((d - 2 * n) \div (2 * d))

\* What a table says of a key, or what it says of none.
At(table, key, default) == IF key \in DOMAIN table THEN table[key] ELSE default

-----------------------------------------------------------------------------
(* The authored characters *)

Profiles ==
    [ marla |->
        [ rest |-> "neutral", wears |-> [afraid |-> "resentful"], weighs |-> [insult |-> 6],
          spots |-> {"duty", "family"}, favors |-> {"appeal"}, forbids |-> {},
          approach |-> [appeal |-> -2, charm |-> -1, pressure |-> 4, deceive |-> 4, coin |-> 2, flirt |-> -1],
          moods |-> [warm |-> -2, happy |-> -2, amused |-> -1, curious |-> -1, sad |-> 1, tired |-> 1,
                     suspicious |-> 3, angry |-> 4, resentful |-> 3, afraid |-> -1] ],
      borin |->
        [ rest |-> "neutral", wears |-> [warm |-> "curious", anxious |-> "amused"],
          weighs |-> [gift |-> 8, leverage |-> 8, insult |-> 4],
          spots |-> {"coin", "drink", "loneliness"}, favors |-> {}, forbids |-> {},
          approach |-> [appeal |-> 1, charm |-> -1, pressure |-> -1, deceive |-> 0, coin |-> -2, flirt |-> 0],
          moods |-> [angry |-> 3, suspicious |-> 2, tired |-> 2, amused |-> -1, warm |-> -2, happy |-> -1,
                     afraid |-> -2] ],
      sella |->
        [ rest |-> "curious", wears |-> [afraid |-> "resentful"],
          weighs |-> [gift |-> 8, leverage |-> 8, insult |-> 7],
          spots |-> {"coin", "family"}, favors |-> {"coin"}, forbids |-> {"deceive"},
          approach |-> [appeal |-> 1, charm |-> 1, pressure |-> 1, deceive |-> 3, coin |-> -2, flirt |-> 2],
          moods |-> [suspicious |-> 4, angry |-> 4, resentful |-> 3, afraid |-> 2, curious |-> -1, warm |-> -1,
                     happy |-> -1, tired |-> 1] ],
      tomm |->
        [ rest |-> "anxious", wears |-> [warm |-> "suspicious"], weighs |-> [gift |-> 3, leverage |-> 3],
          spots |-> {"safety", "coin"}, favors |-> {"appeal"}, forbids |-> {},
          approach |-> [appeal |-> -2, charm |-> -1, pressure |-> 2, deceive |-> 2, coin |-> -2, flirt |-> 1],
          moods |-> [afraid |-> 3, anxious |-> 3, suspicious |-> 3, angry |-> 1, warm |-> -2, happy |-> -1] ],
      anselm |->
        [ rest |-> "anxious", wears |-> [afraid |-> "anxious"], weighs |-> [gift |-> -6],
          spots |-> {"faith", "duty", "loneliness"}, favors |-> {"appeal"}, forbids |-> {"pressure"},
          approach |-> [appeal |-> -2, charm |-> 0, pressure |-> 3, deceive |-> 2, coin |-> 2, flirt |-> 1],
          moods |-> [afraid |-> 2, anxious |-> 2, suspicious |-> 1, angry |-> 2, warm |-> -2, happy |-> -2] ] ]

Profile == Profiles[who]

-----------------------------------------------------------------------------
(* Moods *)

\* NSFW_MOODS, MOOD_FALLBACK, surfaced_mood
Gated == {"flirty", "horny"}
Fallback == [flirty |-> "warm", horny |-> "amused"]
Surfaced(word) == IF ~nsfw THEN At(Fallback, word, word) ELSE word

\* A slip: the raw word is left to the surfaces.
WornRaw(word) == At(Profile.wears, word, word)

\* biased_mood, then the gate of _mood
Worn(word) == Surfaced(At(Profile.wears, word, word))

AtRest == [word |-> Profile.rest, level |-> 0]

\* set_mood
MoodLeft(word, level) ==
    IF Clamp(0, 10000, level) = 0 THEN AtRest
    ELSE [word |-> Worn(word), level |-> Clamp(0, 10000, level)]

\* _decay_moods: a quarter an hour, and at a fiftieth the character has settled.
Faded(m, minutes) ==
    LET level == RoundAway(60 * m.level - 2500 * minutes, 60)
    IN  IF minutes = 0 THEN m
        ELSE IF level <= 200 THEN AtRest ELSE [m EXCEPT !.level = level]

-----------------------------------------------------------------------------
(* Memories and the meter *)

\* delta_factor, in tenths: the trait an interaction answers to, and half again
\* for every soft spot.
Spots(kind) ==
    CASE kind \in {"conversation", "flirt"} -> {"loneliness", "vanity"}
      [] kind = "gift" -> {"coin", "vanity"}
      [] kind = "leverage" -> {"coin"}
      [] kind = "help" -> {"duty", "safety"}
      [] OTHER -> {}
Factor(kind) ==
    Clamp(5, 20, 10 + At(Profile.weighs, kind, 0) + 5 * Cardinality(Spots(kind) \cap Profile.spots))

\* scale_relationship_delta
Scaled(kind, delta) == RoundAway(delta * Factor(kind), 10)

Remembered(e) == \E i \in DOMAIN log : log[i].text = e.text

\* A slip: the oldest goes first.
Oldest(l) == 1

\* The weakest go first, of those the oldest.
Weakest(l) ==
    CHOOSE i \in DOMAIN l : \A j \in DOMAIN l :
        l[i].salience < l[j].salience \/ (l[i].salience = l[j].salience /\ i <= j)
Without(l, i) == SubSeq(l, 1, i - 1) \o SubSeq(l, i + 1, Len(l))

\* remember
Noted(e) ==
    LET l == Append(log, [text |-> e.text, salience |-> e.salience])
    IN  IF Len(l) > Cap THEN Without(l, Weakest(l)) ELSE l
Dropped(e) ==
    LET l == Append(log, [text |-> e.text, salience |-> e.salience])
    IN  IF Len(l) > Cap THEN {l[Weakest(l)].salience} ELSE {}

-----------------------------------------------------------------------------
(* Social checks *)

\* relationship_credit
Credit == Clamp(-10, 10, RoundAway(attitude, 10))

\* _vow_mod
VowMod(approach) ==
    (IF approach \in Profile.forbids THEN 5 ELSE 0) - (IF approach \in Profile.favors THEN 2 ELSE 0)

\* _mood_mod
MoodMod(m) == RoundAway(At(Profile.moods, Surfaced(m.word), 0) * m.level, 10000)

\* The minutes a beat takes before its check: coin is offered in five.
Took(approach) == IF approach = "coin" THEN 5 ELSE 10

\* social_adjustment, on the mood as it will be by then (_check, _social_context)
Dc(approach, base) ==
    Upper(1, base + At(Profile.approach, approach, 0) + MoodMod(Faded(feeling, Took(approach)))
             + VowMod(approach) - Credit)

NoCall == [dc |-> 0, approach |-> "none", base |-> 0, board |-> <<>>, under |-> FALSE]
NoThrow == [dc |-> 0, under |-> FALSE]

-----------------------------------------------------------------------------
(* The beats *)

RegardInit ==
    /\ who \in People /\ nsfw \in BOOLEAN
    /\ feeling = AtRest /\ attitude = 0 /\ log = <<>>
    /\ called = NoCall /\ thrown = NoThrow
    /\ under = FALSE /\ age = 0
    /\ moved = [e \in Events |-> 0] /\ forgotten = {} /\ beats = 0 /\ flips = 0

\* What only Borin is asked.
Carts == "was asked about carts north of the oak"

Beat == beats < MaxBeats /\ beats' = beats + 1

\* A beat that touches the character: _remember, then _mood.
Touch ==
    /\ Beat
    /\ \E e \in Events :
         /\ e.text # Carts
         /\ feeling' = MoodLeft(e.mood, e.level)
         /\ under' = nsfw /\ age' = 0
         /\ IF Remembered(e) THEN UNCHANGED <<log, attitude, moved, forgotten>>
            ELSE /\ log' = Noted(e)
                 /\ attitude' = Clamp(-100, 100, attitude + Scaled(e.kind, e.delta))
                 /\ moved' = [moved EXCEPT ![e] = @ + 1]
                 /\ forgotten' = forgotten \cup Dropped(e)
    /\ UNCHANGED <<who, nsfw, called, thrown, flips>>

\* Borin asked about the carts: it is remembered before the beat looks whether
\* he is there, and only if he is and it is news does it move him, by its own
\* weight; five minutes pass first.
AskBorin ==
    /\ Beat /\ who = "borin"
    /\ \E e \in Events, here \in BOOLEAN :
         /\ e.text = Carts
         /\ IF Remembered(e) THEN UNCHANGED <<log, forgotten>>
            ELSE log' = Noted(e) /\ forgotten' = forgotten \cup Dropped(e)
         /\ IF here /\ ~Remembered(e)
            THEN /\ attitude' = Clamp(-100, 100, attitude + e.delta)
                 /\ moved' = [moved EXCEPT ![e] = @ + 1]
                 /\ feeling' = MoodLeft(e.mood, e.level)
                 /\ under' = nsfw /\ age' = 0
            ELSE /\ feeling' = Faded(feeling, 5) /\ age' = age + 5
                 /\ UNCHANGED <<attitude, moved, under>>
    /\ UNCHANGED <<who, nsfw, called, thrown, flips>>

\* The clock: a beat takes its minutes.
Pass ==
    /\ Beat
    /\ \E minutes \in Spans : feeling' = Faded(feeling, minutes) /\ age' = age + minutes
    /\ UNCHANGED <<who, nsfw, attitude, log, called, thrown, under, moved, forgotten, flips>>

\* The player changes the boundaries: the next request carries them.
Bound ==
    /\ flips < MaxFlips /\ flips' = flips + 1
    /\ nsfw' = ~nsfw
    /\ UNCHANGED <<who, feeling, attitude, log, called, thrown, under, age, moved, forgotten, beats>>

\* The save a token stands for: the boundaries are no part of it.
Board == <<feeling, attitude, log, beats>>

\* A social check is called; nothing is saved.
CallCheck ==
    /\ \E approach \in Approaches, base \in Bands :
         called' = [dc |-> Dc(approach, base), approach |-> approach, base |-> base,
                    board |-> Board, under |-> nsfw]
    /\ thrown' = NoThrow
    /\ UNCHANGED <<who, nsfw, feeling, attitude, log, under, age, moved, forgotten, beats, flips>>

\* It is thrown, and its DC worked out anew.
ThrowCheck ==
    /\ called.board = Board /\ thrown = NoThrow
    /\ thrown' = [dc |-> Dc(called.approach, called.base), under |-> nsfw]
    /\ UNCHANGED <<who, nsfw, feeling, attitude, log, called, under, age, moved, forgotten, beats, flips>>

RegardNext == Touch \/ AskBorin \/ Pass \/ Bound \/ CallCheck \/ ThrowCheck

RegardSpec == RegardInit /\ [][RegardNext]_regardVars

-----------------------------------------------------------------------------
(* Properties *)

RegardTypeOK ==
    /\ who \in People /\ nsfw \in BOOLEAN /\ under \in BOOLEAN
    /\ feeling \in MoodRows
    /\ attitude \in -100..100
    /\ log \in Seq(WeighedEntries)
    /\ called.dc \in Nat /\ thrown.dc \in Nat
    /\ age \in Nat /\ moved \in [Events -> Nat] /\ forgotten \subseteq Weights
    /\ beats \in 0..MaxBeats /\ flips \in 0..MaxFlips

\* A gated word is worn only where the boundaries let it in, no chip shows one
\* they do not allow now, and four hours on the mood is gone, word and all.
MoodsAllowed ==
    /\ feeling.word \in {"flirty", "horny"} => under
    /\ Surfaced(feeling.word) \in {"flirty", "horny"} => nsfw
    /\ age >= 240 => feeling.level = 0
    /\ feeling.level = 0 => feeling.word = Profile.rest

\* A remembered thing moves the meter once, unless it was forgotten in between;
\* and nothing is forgotten before what weighs less.
MovedOnce ==
    /\ forgotten = {} => \A e \in Events : moved[e] <= 1
    /\ \A i \in DOMAIN log, s \in forgotten : s <= log[i].salience
    /\ \A i, j \in DOMAIN log : log[i].text = log[j].text => i = j

\* The DC a check was called at is the DC it is thrown at, while the
\* boundaries stay what they were.
OddsHold == thrown.dc # 0 /\ thrown.under = called.under => thrown.dc = called.dc

RegardSound == MoodsAllowed /\ MovedOnce /\ OddsHold
=============================================================================
