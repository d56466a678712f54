------------------------------ MODULE Campaign ------------------------------
(***************************************************************************)
(* What the narrative engine promises of one campaign, however an answer   *)
(* is validated, written, corrected, abandoned or played again: the world  *)
(* moves by whole batches of deltas, each lawful where it takes effect and *)
(* none twice in a turn for one and the same reason; a turn acts, is       *)
(* remembered, may be corrected once, and only then gets its number.       *)
(***************************************************************************)
EXTENDS DeltaRules, FiniteSets

CONSTANTS
    Deltas,     \* what the narrator may propose
    FactLimit,  \* the facts a turn may add
    Start       \* the world a campaign is seeded with

VARIABLES
    world, chronicle, log, telemetry,  \* the rows
    phase,      \* how far the turn at hand has come
    draft,      \* the world as the batch at hand has it so far
    batch,      \* the deltas of the batch at hand
    done        \* the deltas the turn's first batch put into the world

campaignVars == <<world, chronicle, log, telemetry, phase, draft, batch, done>>

Init ==
    /\ world = Start /\ draft = Start
    /\ chronicle = <<>> /\ log = <<>> /\ telemetry = <<>>
    /\ phase = "rest" /\ batch = {} /\ done = {}

\* The turn at hand: one more than were logged.
Turn == Len(log) + 1

Told(facts) == {facts[i].said : i \in DOMAIN facts}
SaidIn(facts, turn) == {i \in DOMAIN facts : facts[i].turn = turn}

\* The rules of the validator, asked of one world only.
Lawful(w, d) ==
    /\ ~Refused(w.rows, d)
    /\ d.kind = "fact" =>
         /\ ~Contradicts(d.to, Told(w.facts))
         /\ \/ Reinforces(d.to, Told(w.facts))
            \/ Cardinality(SaidIn(w.facts, Turn)) < FactLimit

After(w, d) ==
    [ rows    |-> Moved(w.rows, d, Change(w.rows, d)),
      history |-> IF d.kind = "lead_transition" THEN Append(w.history, d.to) ELSE w.history,
      facts   |-> IF d.kind = "fact" /\ ~Reinforces(d.to, Told(w.facts))
                  THEN Append(w.facts, [said |-> d.to, turn |-> Turn]) ELSE w.facts ]

\* One more delta of the batch at hand: nobody sees it yet.
TakeEffect ==
    /\ phase \in {"rest", "faded"}
    /\ \E d \in Deltas \ done :
         /\ batch' = batch \cup {d}
         /\ Lawful(draft, d) /\ draft' = After(draft, d)
    /\ UNCHANGED <<world, chronicle, log, telemetry, phase, done>>

\* The batch is the world's, whole.
Act ==
    /\ phase = "rest" /\ phase' = "acted"
    /\ world' = draft /\ done' = batch /\ batch' = {}
    /\ UNCHANGED <<chronicle, log, telemetry, draft>>

Recall ==
    /\ phase = "acted" /\ phase' = "recalled"
    /\ chronicle' = Append(chronicle, Turn)
    /\ UNCHANGED <<world, log, telemetry, draft, batch, done>>

\* A number on its way to zero.
Fading(x) == Low(x, 0)..High(x, 0)

Fade ==
    /\ phase = "recalled" /\ phase' = "faded"
    /\ \E m \in Fading(world.rows.mood) : world' = [world EXCEPT !.rows.mood = m]
    /\ draft' = world'
    /\ UNCHANGED <<chronicle, log, telemetry, batch, done>>

\* The prose stands, as it is or with the batch of its correction.
Settle ==
    /\ phase = "faded" /\ phase' = "settled"
    /\ world' = draft /\ batch' = {} /\ done' = {}
    /\ UNCHANGED <<chronicle, log, telemetry, draft>>

Log ==
    /\ phase = "settled" /\ phase' = "logged"
    /\ log' = Append(log, Turn)
    /\ \E s \in Fading(world.rows.slow), f \in Fading(world.rows.fast) :
         world' = [world EXCEPT !.rows.slow = s, !.rows.fast = f]
    /\ draft' = world'
    /\ UNCHANGED <<chronicle, telemetry, batch, done>>

Meter ==
    /\ phase = "logged" /\ phase' = "rest"
    /\ telemetry' = Append(telemetry, Len(log))
    /\ UNCHANGED <<world, chronicle, log, draft, batch, done>>

\* An attempt that fails keeps what the world has and nothing of the batch at
\* hand; the turn is played again under its number.
Abandon ==
    /\ phase' = "rest" /\ draft' = world /\ batch' = {} /\ done' = {}
    /\ UNCHANGED <<world, chronicle, log, telemetry>>

Next == Abandon \/ Act \/ Recall \/ Fade \/ Settle \/ Log \/ Meter \/ TakeEffect

Spec == Init /\ [][Next]_campaignVars
=============================================================================
