----------------------------- MODULE EngineTurn -----------------------------
(***************************************************************************)
(* One campaign of the narrative engine: Orchestrator.take_turn            *)
(* (engine/src/engine/pipeline.py) as the backend's bridge calls it        *)
(* (backend/app/modules/engine/bridge.py), one request at a time behind    *)
(* the campaign's lock.                                                    *)
(*                                                                         *)
(* The store commits every row as it is written, except inside             *)
(* Validator.commit, which is one transaction: a step below ends with one  *)
(* commit of the database, or is one call of the narrator.  A request may  *)
(* end between any two: the provider fails, or the process dies.           *)
(*                                                                         *)
(* The narrator is free: it proposes any deltas of Deltas in any order,    *)
(* and its prose passes the consistency scan or not.  Resolution of the    *)
(* action writes nothing; the prompt only notes on what it retrieves when  *)
(* it was last referenced, which no rule asks for.  The saga's digests are *)
(* in EngineMemory; the texts kept with a row are left out.                *)
(***************************************************************************)
EXTENDS DeltaRules, FiniteSets

CONSTANTS
    Requests,   \* request threads
    Deltas,     \* what the narrator may propose
    FactLimit,  \* config.memory.fact_rate_limit_per_turn
    Purse,      \* the purse the world is seeded with
    Anchor,     \* npcs.disposition_base
    Faults,     \* TRUE: a request may die between two of its steps
    MaxTurns,   \* bound on the turns played
    MaxAttempts, \* bound on the attempts at turns
    MaxDeltas    \* bound on the deltas let through in one attempt

VARIABLES
    world,      \* the rows only Validator.commit and the mood decay write
    chronicle,  \* turn_id of the chronicle's rows
    log,        \* turn of the turn_log's rows
    telemetry,  \* turn of the telemetry's rows
    req,        \* the request threads
    attempts    \* bound: requests begun

vars == <<world, chronicle, log, telemetry, req, attempts>>

Idle == "idle"
Steps == {Idle, "narrate", "judge", "write", "remember", "fade", "scan", "log", "meter"}

ASSUME TurnAssumption ==
    /\ Deltas \subseteq Delta
    /\ FactLimit \in Nat /\ Purse \in Nat /\ Anchor \in Int /\ Faults \in BOOLEAN
    /\ MaxTurns \in Nat /\ MaxAttempts \in Nat /\ MaxDeltas \in Nat

Fact == [said : Statements, turn : 1..MaxTurns]
World == [rows : Rows, history : Seq(Stages), facts : Seq(Fact)]
Verdict == [delta : Deltas, n : Int]

Request ==
    [ at       : Steps,
      turn     : 0..MaxTurns,
      pass     : {1, 2},          \* 2: regenerated with a correction note
      copies   : Seq(Rows),       \* the running copy, after each verdict
      new      : Seq(Statements), \* batch_facts
      verdicts : Seq(Verdict),    \* accepted and clamped
      written  : Nat,             \* verdicts written in the open transaction
      draft    : World,           \* what the open transaction sees
      seen     : SUBSET Deltas,   \* applied keys of this turn
      left     : 0..MaxDeltas ]            \* bound: deltas the narrator may still propose

Seeded ==
    [ rows |-> [ purse |-> Purse, hp |-> MaxHp, might |-> 0, held |-> 0,
                 marked |-> FALSE, stage |-> "unheard", mood |-> 0,
                 durable |-> Anchor, slow |-> 0, fast |-> 0 ],
      history |-> <<>>, facts |-> <<>> ]

NoRequest ==
    [ at |-> Idle, turn |-> 0, pass |-> 1, copies |-> <<>>, new |-> <<>>,
      verdicts |-> <<>>, written |-> 0, draft |-> Seeded, seen |-> {},
      left |-> MaxDeltas ]

Init ==
    /\ world = Seeded
    /\ chronicle = <<>> /\ log = <<>> /\ telemetry = <<>>
    /\ req = [r \in Requests |-> NoRequest]
    /\ attempts = 0

Goto(r, at) == req' = [req EXCEPT ![r].at = at]
Finish(r) == req' = [req EXCEPT ![r] = NoRequest]

Told(facts) == {facts[i].said : i \in DOMAIN facts}
SaidIn(facts, turn) == {i \in DOMAIN facts : facts[i].turn = turn}

\* The running copy of the batch under validation.
Copy(q) == q.copies[Len(q.copies)]

-----------------------------------------------------------------------------
(* Slips: an action or a rule each as a plausible bug would leave it. *)

\* No campaign lock.
Unlocked == TRUE

\* A delta checked against the stored rows and not the batch's running copy.
RefusedByStore(q, d) == Refused(world.rows, d)

\* The correction may repeat what the first answer did.
AnyDelta(q) == Deltas

\* Facts of an earlier pass of the same turn are not counted.
RoomInBatch(q) == Len(q.new) < FactLimit

\* Only what the batch itself says is compared.
ClashesWithNothingStored(said, facts) == FALSE

\* The turn number is the number of the last turn played.
LastTurn == Len(log)

-----------------------------------------------------------------------------
(* The lifecycle of a turn *)

\* _campaign_lock: one request of a campaign at a time.
Unoccupied == \A r \in Requests : req[r].at = Idle

\* PlaySession._next_turn: max(turn_log.turn) + 1, 1 on a fresh campaign.
NextTurn == IF log = <<>> THEN 1 ELSE log[Len(log)] + 1

\* start() opens the session and numbers the turn under the lock; Pass A and
\* the prompt only read.
Begin(r) ==
    /\ req[r].at = Idle /\ Unoccupied
    /\ NextTurn <= MaxTurns /\ attempts < MaxAttempts
    /\ attempts' = attempts + 1
    /\ req' = [req EXCEPT ![r] = [NoRequest EXCEPT !.at = "narrate", !.turn = NextTurn]]
    /\ UNCHANGED <<world, chronicle, log, telemetry>>

\* Pass B answers with prose and deltas; validate() starts on a fresh context.
Narrated(r) ==
    /\ req[r].at = "narrate"
    /\ req' = [req EXCEPT ![r].at = "judge", ![r].copies = <<world.rows>>,
                          ![r].new = <<>>, ![r].verdicts = <<>>]
    /\ UNCHANGED <<world, chronicle, log, telemetry, attempts>>

\* ProviderError, in the first call or in the second: the turn is abandoned
\* where it stands, and the player is told 502.
NarratorFails(r) ==
    /\ req[r].at = "narrate"
    /\ Finish(r)
    /\ UNCHANGED <<world, chronicle, log, telemetry, attempts>>

\* conflicts(): against the stored facts and those accepted in this batch.
Clashes(said, facts) == Contradicts(said, Told(facts))
ClashesInBatch(q, said) ==
    Clashes(said, world.facts) \/ Contradicts(said, {q.new[i] : i \in DOMAIN q.new})

\* The fact rate counts what this turn has committed and this batch accepted.
RoomForFact(q) ==
    Cardinality(SaidIn(world.facts, q.turn)) + Len(q.new) < FactLimit

\* A new fact needs room; one that reinforces a stored fact inserts nothing.
FactFits(q, said) ==
    /\ ~ClashesInBatch(q, said)
    /\ Reinforces(said, Told(world.facts)) \/ RoomForFact(q)

Accounted(q, said) ==
    IF Reinforces(said, Told(world.facts)) THEN q.new ELSE Append(q.new, said)

\* _validate_one against the running copies.
RefusedInBatch(q, d) == Refused(Copy(q), d)

\* A delta applied before the correction is skipped.
Unapplied(q) == Deltas \ q.seen

\* A proposed delta that is let through, whole or clamped; a refused one
\* leaves nothing but a line of the answer.
Judge(r) ==
    LET q == req[r] IN
    /\ q.at = "judge" /\ q.left > 0
    /\ \E d \in Unapplied(q) :
         /\ ~RefusedInBatch(q, d)
         /\ d.kind = "fact" => FactFits(q, d.to)
         /\ LET n == Change(Copy(q), d) IN
            req' = [req EXCEPT
                ![r].verdicts = Append(@, [delta |-> d, n |-> n]),
                ![r].copies = Append(@, Moved(Copy(q), d, n)),
                ![r].new = IF d.kind = "fact" THEN Accounted(q, d.to) ELSE @,
                ![r].left = @ - 1]
    /\ UNCHANGED <<world, chronicle, log, telemetry, attempts>>

\* Validator.commit: BEGIN IMMEDIATE.
OpenTransaction(r) ==
    /\ req[r].at = "judge"
    /\ req' = [req EXCEPT ![r].at = "write", ![r].written = 0, ![r].draft = world]
    /\ UNCHANGED <<world, chronicle, log, telemetry, attempts>>

\* _apply_fact checks once more, reinforces or inserts.
FactsWith(facts, said, turn) ==
    IF Clashes(said, facts) \/ Reinforces(said, Told(facts)) THEN facts
    ELSE Append(facts, [said |-> said, turn |-> turn])

\* What the transaction sees after one verdict.
Draft(w, v, turn) ==
    LET d == v.delta IN
    [ rows    |-> IF RefusedLate(w.rows, d) THEN w.rows ELSE Written(w.rows, d, v.n),
      history |-> IF d.kind = "lead_transition" THEN Append(w.history, d.to) ELSE w.history,
      facts   |-> IF d.kind = "fact" THEN FactsWith(w.facts, d.to, turn) ELSE w.facts ]

\* The verdicts whose delta ends in the report's applied part.
Applies(w, d) ==
    ~RefusedLate(w.rows, d) /\ ~(d.kind = "fact" /\ Clashes(d.to, w.facts))

Write(r) ==
    LET q == req[r]
        v == q.verdicts[q.written + 1]
    IN
    /\ q.at = "write" /\ q.written < Len(q.verdicts)
    /\ req' = [req EXCEPT
           ![r].draft = Draft(@, v, q.turn),
           ![r].seen = IF Applies(q.draft, v.delta) THEN @ \cup {v.delta} ELSE @,
           ![r].written = @ + 1]
    /\ UNCHANGED <<world, chronicle, log, telemetry, attempts>>

\* COMMIT; after the first pass the memory is updated, after the second not.
\* The batch is done with.
Commit(r) ==
    /\ req[r].at = "write" /\ req[r].written = Len(req[r].verdicts)
    /\ world' = req[r].draft
    /\ req' = [req EXCEPT ![r] = [NoRequest EXCEPT
           !.at = IF req[r].pass = 1 THEN "remember" ELSE "scan",
           !.turn = req[r].turn, !.pass = req[r].pass,
           !.seen = req[r].seen, !.left = req[r].left]]
    /\ UNCHANGED <<chronicle, log, telemetry, attempts>>

\* _memory_updates: the chronicle's row, with the prose of the first pass.
Remember(r) ==
    /\ req[r].at = "remember"
    /\ chronicle' = Append(chronicle, req[r].turn)
    /\ Goto(r, "fade")
    /\ UNCHANGED <<world, log, telemetry, attempts>>

\* What a number that decays toward zero may have come to.
Faded(x) == Low(x, 0)..High(x, 0)

\* The moods of the NPCs present decay to this turn and are stored.
FadeMood(r) ==
    /\ req[r].at = "fade"
    /\ \E m \in Faded(world.rows.mood) : world' = [world EXCEPT !.rows.mood = m]
    /\ Goto(r, "scan")
    /\ UNCHANGED <<chronicle, log, telemetry, attempts>>

\* Pass D, once: prose that contradicts canon is regenerated.
Correct(r) ==
    /\ req[r].at = "scan" /\ req[r].pass = 1
    /\ req' = [req EXCEPT ![r].at = "narrate", ![r].pass = 2]
    /\ UNCHANGED <<world, chronicle, log, telemetry, attempts>>

\* Clean prose, or prose that was corrected and is patched if it must be.
Pass(r) ==
    /\ req[r].at = "scan"
    /\ req' = [req EXCEPT ![r] = [NoRequest EXCEPT !.at = "log", !.turn = req[r].turn]]
    /\ UNCHANGED <<world, chronicle, log, telemetry, attempts>>

\* The log's row numbers the turn; the ledger is read as of the next turn
\* from now on, and the rows that fade are worth less, each class at its own pace.
WriteLog(r) ==
    /\ req[r].at = "log"
    /\ log' = Append(log, req[r].turn)
    /\ \E s \in Faded(world.rows.slow), f \in Faded(world.rows.fast) :
         world' = [world EXCEPT !.rows.slow = s, !.rows.fast = f]
    /\ Goto(r, "meter")
    /\ UNCHANGED <<chronicle, telemetry, attempts>>

\* The telemetry's row, and the answer.
Meter(r) ==
    /\ req[r].at = "meter"
    /\ telemetry' = Append(telemetry, req[r].turn)
    /\ Finish(r)
    /\ UNCHANGED <<world, chronicle, log, attempts>>

\* The process dies: an open transaction is rolled back.
Crash(r) ==
    /\ Faults /\ req[r].at # Idle
    /\ Finish(r)
    /\ UNCHANGED <<world, chronicle, log, telemetry, attempts>>

Next ==
    \E r \in Requests :
        \/ Begin(r) \/ Narrated(r) \/ NarratorFails(r)
        \/ Judge(r) \/ OpenTransaction(r) \/ Write(r) \/ Commit(r)
        \/ Remember(r) \/ FadeMood(r) \/ Correct(r) \/ Pass(r)
        \/ WriteLog(r) \/ Meter(r) \/ Crash(r)

Spec == Init /\ [][Next]_vars

-----------------------------------------------------------------------------
(* Properties *)

\* Every row and every request has its type, and the numbers of turns and
\* deltas stay within their bounds.
TypeOK ==
    /\ world \in World
    /\ attempts \in 0..MaxAttempts
    /\ chronicle \in Seq(1..MaxTurns)
    /\ log \in Seq(1..MaxTurns)
    /\ telemetry \in Seq(1..MaxTurns)
    /\ req \in [Requests -> Request]

\* No overdraft, no hit points beyond the maximum, nothing held that is owed,
\* whatever is spent twice in a batch, regenerated, abandoned or replayed.  The
\* commit does not look at the purse again: it relies on the validator's copies.
InRange(w) ==
    /\ w.purse >= 0 /\ w.hp \in 0..MaxHp /\ w.held >= 0
    /\ w.might \in StatLow..StatHigh
    /\ w.mood \in -MoodBound..MoodBound
SheetInRange == InRange(world.rows)

\* What a transaction has written when it commits is what the validator's
\* running copies said it would be, though it reads the rows anew.
VerdictsKept ==
    \A r \in Requests :
        req[r].at = "write" /\ req[r].written = Len(req[r].verdicts) =>
            req[r].draft.rows = Copy(req[r])

\* A lead's history is a path of the machine, from unheard to the stage the
\* lead is in (LEAD_TRANSITIONS, _apply_lead_transition writes without looking).
PathTo(stage, h) ==
    /\ \A i \in DOMAIN h : h[i] \in Onward(IF i = 1 THEN "unheard" ELSE h[i - 1])
    /\ stage = (IF h = <<>> THEN "unheard" ELSE h[Len(h)])
LeadLegal == PathTo(world.rows.stage, world.history)

\* No fact contradicts one that was canon when it came, in a batch, in the
\* corrected batch or in a turn that is played again.
Consistent(facts) ==
    \A i, j \in DOMAIN facts : i < j => <<facts[j].said, facts[i].said>> \notin Conflicts
NoContradictions == Consistent(world.facts)

\* A turn adds so many facts and no more, both passes and every attempt at it
\* counted together.
FactRate ==
    \A t \in 1..MaxTurns : Cardinality(SaidIn(world.facts, t)) <= FactLimit

\* Turns are numbered without gap or repetition whatever fails between, and a
\* logged turn is one the chronicle remembers.
TurnsNumbered ==
    \A i \in DOMAIN log : log[i] = i /\ \E k \in DOMAIN chronicle : chronicle[k] = i

\* No commit pushes a bond beyond its bound, or further out where decay has
\* already carried it beyond.
Commits(r) == req[r].at = "write" /\ req'[r].at \in {"remember", "scan"}
BondPushed ==
    [][\A r \in Requests : Commits(r) =>
          Abs(Bond(world'.rows)) <= High(BondBound, Abs(Bond(world.rows)))]_vars

\* The request under way, and the abstract campaign it carries out.
Current ==
    IF \E r \in Requests : req[r].at # Idle
    THEN req[CHOOSE r \in Requests : req[r].at # Idle] ELSE NoRequest

\* A first attempt at the deltas is still the campaign's rest: nobody sees it.
PhaseOf(q) ==
    CASE q.at = "remember" -> "acted"
      [] q.at = "fade" -> "recalled"
      [] q.at = "scan" /\ q.pass = 1 -> "faded"
      [] q.at \in {"narrate", "judge", "write"} /\ q.pass = 2 -> "faded"
      [] q.at = "scan" /\ q.pass = 2 -> "settled"
      [] q.at = "log" -> "settled"
      [] q.at = "meter" -> "logged"
      [] OTHER -> "rest"

\* The deltas the open transaction has written, and those the commit before
\* it has.
InHand(q) ==
    IF q.at = "write" THEN {q.verdicts[i].delta : i \in 1..q.written} ELSE {}
Before(q) == q.seen \ InHand(q)

ImplementedCampaign == INSTANCE Campaign WITH
    Start <- Seeded,
    phase <- PhaseOf(Current),
    draft <- IF Current.at = "write" THEN Current.draft ELSE world,
    batch <- InHand(Current),
    done  <- IF PhaseOf(Current) \in {"acted", "recalled", "faded"}
             THEN Before(Current) ELSE {}

\* Validated on copies, written to rows that are read again, corrected,
\* abandoned and played again, every turn is one of the abstract campaign: its
\* batches take effect whole, each delta lawful in the world it meets, and a
\* correction repeats no delta of the first answer ("a correction round must
\* not double-apply", pipeline.py:43).
ImplementsCampaign == ImplementedCampaign!Spec
=============================================================================
