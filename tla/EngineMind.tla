----------------------------- MODULE EngineMind -----------------------------
(***************************************************************************)
(* What an NPC feels and what the world holds true between the turns of    *)
(* the narrative engine (engine/src/engine/memory.py: MoodTracker,         *)
(* FactStore; validate.py: the mood and fact rows of a commit).            *)
(*                                                                         *)
(* A mood is its baseline and what it was moved by, each move worn down by *)
(* one factor for every turn it has faded.  How strong a move was, what a  *)
(* turn leaves of it (mood_half_life_turns), the six decimals and the      *)
(* bounds a value is held to are left out: what is counted is how many     *)
(* turns each move has faded, by what is stored and by what a reader is    *)
(* told.                                                                   *)
(***************************************************************************)
EXTENDS Integers, Sequences

CONSTANTS
    MaxTurn,     \* bound on the turns
    MaxMoves,    \* bound on the moves of the mood
    Statements,  \* what may be stated
    Similar      \* pairs at FACT_REINFORCE_SIMILARITY or above

ASSUME MindAssumption ==
    /\ MaxTurn \in Nat /\ MaxMoves \in Nat
    /\ \A s \in Statements : <<s, s>> \in Similar
    /\ \A s, t \in Statements : <<s, t>> \in Similar => <<t, s>> \in Similar

VARIABLES
    now,     \* the turn
    stamp,   \* last_updated_turn of the moods row, -1 while there is none
    moves,   \* what its value is made of: each move, in order
    facts    \* world_facts: statement and pinned, by id

mindVars == <<now, stamp, moves, facts>>

\* A move: the turn it came in, the turns it has faded since, and whether a
\* tracker applied it or a delta was committed.
Move == [at : Nat, faded : Nat, by : {"apply", "commit"}]
Fact == [statement : Statements, pinned : BOOLEAN]

MindInit ==
    /\ now = 0 /\ stamp = -1 /\ moves = <<>>
    /\ facts = <<>>

-----------------------------------------------------------------------------
(* Slips *)

\* What is stored is faded, but not stamped.
StampKept(turn) == stamp

\* A fact is looked for among the pinned ones only.
TwinPinned(s) == {k \in DOMAIN facts : facts[k].pinned /\ <<s, facts[k].statement>> \in Similar}

-----------------------------------------------------------------------------
(* MoodTracker *)

\* _decayed: the turns since the stamp, on top of what is stored; a row that
\* only starts (ensure) has no move to fade.
Age == now - stamp
Felt(i) == moves[i].faded + Age
Decayed == [i \in DOMAIN moves |-> [moves[i] EXCEPT !.faded = Felt(i)]]

Came(by) == [at |-> now, faded |-> 0, by |-> by]
Stamp(turn) == turn

\* _memory_updates: a mood of someone present is brought up to this turn.
Fade ==
    /\ stamp # -1
    /\ moves' = Decayed /\ stamp' = Stamp(now)
    /\ UNCHANGED <<now, facts>>

\* apply: faded to now, then moved.
Spike ==
    /\ Len(moves) < MaxMoves
    /\ moves' = Append(Decayed, Came("apply")) /\ stamp' = now
    /\ UNCHANGED <<now, facts>>

\* The commit of a mood delta moves what is stored as it was stored, and stamps
\* it with this turn.
CommitMood ==
    /\ Len(moves) < MaxMoves
    /\ moves' = Append(moves, Came("commit")) /\ stamp' = now
    /\ UNCHANGED <<now, facts>>

NextTurnBegins ==
    /\ now < MaxTurn
    /\ now' = now + 1
    /\ UNCHANGED <<stamp, moves, facts>>

-----------------------------------------------------------------------------
(* FactStore *)

\* _duplicate_of
Twins(s) == {k \in DOMAIN facts : <<s, facts[k].statement>> \in Similar}

\* add, and Validator._apply_fact: a near duplicate leaves the row as it is,
\* pinned or not.  Another statement is a row of its own.
AddFact ==
    /\ \E s \in Statements, pinned \in BOOLEAN :
         /\ Twins(s) = {}
         /\ facts' = Append(facts, [statement |-> s, pinned |-> pinned])
    /\ UNCHANGED <<now, stamp, moves>>

MindNext == Fade \/ Spike \/ CommitMood \/ NextTurnBegins \/ AddFact
MindSpec == MindInit /\ [][MindNext]_mindVars

-----------------------------------------------------------------------------
(* Properties *)

MindTypeOK ==
    /\ now \in 0..MaxTurn /\ stamp \in -1..MaxTurn
    /\ moves \in Seq(Move)
    /\ facts \in Seq(Fact)

\* However often a mood was brought up to date and stored (every turn the NPC
\* is in the room, again when a turn is played again), no turn fades a move
\* twice.
FadesOnce == \A i \in DOMAIN moves : Felt(i) <= now - moves[i].at

\* A delta committed in the turn of the move before it takes no turn from it.
Harmless(k) == moves[k].by = "commit" => moves[k].at = moves[k - 1].at

\* And every turn fades it, but for those a later commit lost, which adds to the
\* value as it was stored and stamps it as if it had faded: from a move on that
\* no such commit followed, no turn is missing, and what came before it fades
\* with it.
FadesOn ==
    \A j \in DOMAIN moves :
        (\A k \in j + 1..Len(moves) : Harmless(k)) =>
            \A i \in 1..j : now - moves[j].at <= Felt(i)

\* No statement is held true twice, whoever wrote it.
FactsDistinct ==
    \A j, k \in DOMAIN facts :
        j # k => <<facts[j].statement, facts[k].statement>> \notin Similar

MindSteady == FadesOnce /\ FadesOn /\ FactsDistinct
=============================================================================
