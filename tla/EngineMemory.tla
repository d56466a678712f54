---------------------------- MODULE EngineMemory ----------------------------
(***************************************************************************)
(* The narrative engine's long memory of one campaign                      *)
(* (engine/src/engine/memory.py: Chronicle, SagaDigest, pinned facts), and *)
(* the turns that write it (pipeline.py, _memory_updates).                 *)
(*                                                                         *)
(* The chronicle gets a row per attempt at a turn; the saga is a pyramid   *)
(* of digests over it: a session per Window turns, an arc per PerArc       *)
(* sessions, a campaign digest rebuilt when an arc completes.  Each row is *)
(* a commit of its own and nothing is ever rewritten: an abandoned turn    *)
(* leaves what it wrote, and the archive itself is the cursor the next     *)
(* turn goes on from.  A digest is modelled by what it is built from: its  *)
(* span, the chronicle rows it tells and the pinned facts it quotes.       *)
(***************************************************************************)
EXTENDS Integers, Sequences, FiniteSets

CONSTANTS
    Window,     \* config.memory.session_summary_turns
    PerArc,     \* SESSIONS_PER_ARC
    Verbatim,   \* config.memory.chronicle_verbatim
    MaxTurns,   \* bound on the turns played
    MaxRows,    \* bound on the attempts at turns
    MaxPins,    \* bound on the pinned facts
    MaxCalls    \* bound on the calls made between turns

ASSUME MemoryAssumption ==
    /\ Window \in Nat \ {0} /\ PerArc \in Nat \ {0} /\ Verbatim \in Nat
    /\ MaxTurns \in Nat /\ MaxRows \in Nat /\ MaxPins \in Nat /\ MaxCalls \in Nat

VARIABLES
    chronicle,  \* rows of the chronicle, oldest first
    pins,       \* pinned world facts, by id
    sessions, arcs, campaigns,  \* saga_levels, a sequence per level
    logged,     \* turns in the turn log
    call,       \* the request at work, with its local variables
    closed,     \* close_arc has been called
    calls       \* bound: calls made between turns

memoryVars == <<chronicle, pins, sessions, arcs, campaigns, logged, call, closed, calls>>

Turns == 1..MaxTurns
Row == [turn : Turns, prose : BOOLEAN]

\* ids of chronicle rows and of pinned facts
RowIds == 1..MaxRows
PinIds == 1..MaxPins

\* A digest covers the turns after lo up to hi (created_turn).
Digest == [lo : 0..MaxTurns, hi : Turns, told : SUBSET RowIds, quoted : SUBSET PinIds]
ArcDigest == [lo : 0..MaxTurns, hi : Turns, told : SUBSET RowIds,
              quoted : SUBSET PinIds, scopes : SUBSET Turns]

Rest == "rest"
Steps == {Rest, "commit", "append", "trim", "cadence", "rollup", "rebuild", "scan", "log"}

Call ==
    [ at      : Steps,
      turn    : 0..MaxTurns,
      pass    : {1, 2},        \* 2: regenerated after the consistency scan
      force   : BOOLEAN,       \* maybe_summarize(force=True)
      final   : BOOLEAN,       \* close_arc
      cursor  : 0..MaxTurns,
      span    : 0..MaxTurns,   \* span_start
      created : BOOLEAN ]      \* this call wrote a row of the level at work

Resting ==
    [ at |-> Rest, turn |-> 0, pass |-> 1, force |-> FALSE, final |-> FALSE,
      cursor |-> 0, span |-> 0, created |-> FALSE ]

MemoryInit ==
    /\ chronicle = <<>> /\ pins = <<>>
    /\ sessions = <<>> /\ arcs = <<>> /\ campaigns = <<>>
    /\ logged = 0 /\ call = Resting
    /\ closed = FALSE /\ calls = 0

Archive == <<sessions, arcs, campaigns>>

\* created_turn of the newest digest of a level, 0 when there is none
End(level) == IF level = <<>> THEN 0 ELSE level[Len(level)].hi

\* _entries_between, _pinned_between
RowsBetween(lo, hi) == {k \in DOMAIN chronicle : lo < chronicle[k].turn /\ chronicle[k].turn <= hi}
PinsBetween(lo, hi) == {k \in DOMAIN pins : lo < pins[k] /\ pins[k] <= hi}

DigestOf(lo, hi) ==
    [lo |-> lo, hi |-> hi, told |-> RowsBetween(lo, hi), quoted |-> PinsBetween(lo, hi)]

-----------------------------------------------------------------------------
(* Slips *)

\* A session may close before its last turn is written.
EarlyRoom == call.cursor + Window <= call.turn + 1

-----------------------------------------------------------------------------
(* A turn *)

\* A turn is as often tried as it fails: the log numbers it.
BeginTurn ==
    /\ call.at = Rest
    /\ logged < MaxTurns /\ Len(chronicle) < MaxRows
    /\ call' = [Resting EXCEPT !.at = "commit", !.turn = logged + 1]
    /\ UNCHANGED <<chronicle, pins, Archive, logged, closed, calls>>

\* Validator.commit of a pass: it may pin a fact of this turn.
CommitPass ==
    /\ call.at = "commit"
    /\ \/ Len(pins) < MaxPins /\ pins' = Append(pins, call.turn)
       \/ UNCHANGED pins
    /\ call' = [call EXCEPT !.at = IF call.pass = 1 THEN "append" ELSE "log"]
    /\ UNCHANGED <<chronicle, Archive, logged, closed, calls>>

\* Chronicle.append: the row, with the narration as it stands.
AppendRow ==
    /\ call.at = "append"
    /\ chronicle' = Append(chronicle, [turn |-> call.turn, prose |-> TRUE])
    /\ call' = [call EXCEPT !.at = "trim"]
    /\ UNCHANGED <<pins, Archive, logged, closed, calls>>

\* enforce_verbatim_window: the newest rows keep their prose ...
Kept == {k \in DOMAIN chronicle : k > Len(chronicle) - Verbatim}
Stale == {k \in DOMAIN chronicle \ Kept : chronicle[k].prose}

\* ... and the others lose it one by one, the oldest first.
TrimRow ==
    /\ call.at = "trim"
    /\ \E k \in Stale :
         /\ \A j \in Stale : k <= j
         /\ chronicle' = [chronicle EXCEPT ![k].prose = FALSE]
    /\ UNCHANGED <<pins, Archive, logged, call, closed, calls>>

\* maybe_summarize reads the archive for its cursor.
StartCadence ==
    /\ call.at = "trim" /\ Stale = {}
    /\ call' = [call EXCEPT !.at = "cadence", !.cursor = End(sessions), !.span = End(sessions)]
    /\ UNCHANGED <<chronicle, pins, Archive, logged, closed, calls>>

-----------------------------------------------------------------------------
(* SagaDigest *)

\* _summarize_session: nothing to tell, nothing written.
HasContent(lo, hi) == RowsBetween(lo, hi) \cup PinsBetween(lo, hi) # {}

WindowFull == call.cursor + Window <= call.turn

\* One round of the loop: a quiet window folds into the next session.
CloseWindow ==
    /\ call.at = "cadence" /\ WindowFull
    /\ LET hi == call.cursor + Window IN
       IF HasContent(call.span, hi)
       THEN /\ sessions' = Append(sessions, DigestOf(call.span, hi))
            /\ call' = [call EXCEPT !.cursor = hi, !.span = hi, !.created = TRUE]
       ELSE /\ call' = [call EXCEPT !.cursor = hi]
            /\ UNCHANGED sessions
    /\ UNCHANGED <<chronicle, pins, arcs, campaigns, logged, closed, calls>>

\* force closes the window that is not full.
CloseEarly ==
    /\ call.at = "cadence" /\ ~WindowFull
    /\ call.force /\ call.turn > call.cursor
    /\ IF HasContent(call.span, call.turn)
       THEN /\ sessions' = Append(sessions, DigestOf(call.span, call.turn))
            /\ call' = [call EXCEPT !.force = FALSE, !.span = call.turn, !.created = TRUE]
       ELSE /\ call' = [call EXCEPT !.force = FALSE]
            /\ UNCHANGED sessions
    /\ UNCHANGED <<chronicle, pins, arcs, campaigns, logged, closed, calls>>

\* Where a call goes on when the digests are done: a turn to its scan.
After == IF call.pass = 1 /\ call.turn > logged THEN [call EXCEPT !.at = "scan"] ELSE Resting

EndCadence ==
    /\ call.at = "cadence" /\ ~WindowFull
    /\ ~(call.force /\ call.turn > call.cursor)
    /\ call' = IF call.created THEN [call EXCEPT !.at = "rollup", !.created = FALSE] ELSE After
    /\ UNCHANGED <<chronicle, pins, Archive, logged, closed, calls>>

\* The sessions the arcs stand for, three to each.
Consumed == Len(arcs) * PerArc
Pending == Len(sessions) - Consumed
ArcDue == Pending >= PerArc \/ (call.final /\ Pending > 0)

\* The next sessions no arc stands for, as many as there are up to PerArc.
Group == {k \in DOMAIN sessions : Consumed < k /\ k <= Consumed + PerArc}
GroupEnd == IF Pending < PerArc THEN Len(sessions) ELSE Consumed + PerArc

\* _rollup: an arc is built from the chronicle again, not from its sessions.
CloseArcRow ==
    /\ call.at = "rollup" /\ ArcDue
    /\ LET lo == IF Consumed > 0 THEN sessions[Consumed].hi ELSE 0
           hi == sessions[GroupEnd].hi
       IN arcs' = Append(arcs,
              [lo |-> lo, hi |-> hi, told |-> RowsBetween(lo, hi),
               quoted |-> PinsBetween(lo, hi), scopes |-> Group])
    /\ call' = [call EXCEPT !.created = TRUE]
    /\ UNCHANGED <<chronicle, pins, sessions, campaigns, logged, closed, calls>>

EndRollup ==
    /\ call.at = "rollup" /\ ~ArcDue
    /\ call' = IF call.created THEN [call EXCEPT !.at = "rebuild"] ELSE After
    /\ UNCHANGED <<chronicle, pins, Archive, logged, closed, calls>>

\* _rebuild_campaign: the whole tale up to the end of the new arc.
RebuildCampaign ==
    /\ call.at = "rebuild"
    /\ campaigns' = Append(campaigns, DigestOf(0, End(arcs)))
    /\ call' = After
    /\ UNCHANGED <<chronicle, pins, sessions, arcs, logged, closed, calls>>

\* maybe_summarize(force=True), when the player stops in mid-session
SummarizeNow ==
    /\ call.at = Rest /\ calls < MaxCalls
    /\ call' = [Resting EXCEPT !.at = "cadence", !.turn = logged, !.force = TRUE,
                               !.cursor = End(sessions), !.span = End(sessions)]
    /\ calls' = calls + 1
    /\ UNCHANGED <<chronicle, pins, Archive, logged, closed>>

\* close_arc, at a narrative boundary
CloseArc ==
    /\ call.at = Rest /\ calls < MaxCalls
    /\ call' = [Resting EXCEPT !.at = "rollup", !.turn = logged, !.final = TRUE]
    /\ closed' = TRUE
    /\ calls' = calls + 1
    /\ UNCHANGED <<chronicle, pins, Archive, logged>>

-----------------------------------------------------------------------------
(* The end of a turn *)

\* The scan rejects the narration: a second pass, committed like the first.
Regenerate ==
    /\ call.at = "scan"
    /\ call' = [Resting EXCEPT !.at = "commit", !.turn = call.turn, !.pass = 2]
    /\ UNCHANGED <<chronicle, pins, Archive, logged, closed, calls>>

\* The narration stands, as it is or corrected: the turn is logged.
LogTurn ==
    /\ call.at \in {"scan", "log"}
    /\ logged' = call.turn
    /\ call' = Resting
    /\ UNCHANGED <<chronicle, pins, Archive, closed, calls>>

\* The provider fails or the process dies, between any two commits.
Abandon ==
    /\ call.at # Rest
    /\ call' = Resting
    /\ UNCHANGED <<chronicle, pins, Archive, logged, closed, calls>>

MemoryNext ==
    \/ BeginTurn \/ CommitPass \/ AppendRow \/ TrimRow \/ StartCadence
    \/ CloseWindow \/ CloseEarly \/ EndCadence
    \/ CloseArcRow \/ EndRollup \/ RebuildCampaign
    \/ SummarizeNow \/ CloseArc
    \/ Regenerate \/ LogTurn \/ Abandon

MemorySpec == MemoryInit /\ [][MemoryNext]_memoryVars

-----------------------------------------------------------------------------
(* Properties *)

\* Every row of the four tables and the locals of the call have their types.
MemoryTypeOK ==
    /\ chronicle \in Seq(Row) /\ Len(chronicle) <= MaxRows
    /\ pins \in Seq(Turns) /\ Len(pins) <= MaxPins
    /\ sessions \in Seq(Digest) /\ arcs \in Seq(ArcDigest) /\ campaigns \in Seq(Digest)
    /\ logged \in 0..MaxTurns /\ call \in Call
    /\ closed \in BOOLEAN /\ calls \in 0..MaxCalls

\* Each digest of a level begins where the one before it ended.
Tiles(level) ==
    \A k \in DOMAIN level :
        level[k].lo = (IF k = 1 THEN 0 ELSE level[k - 1].hi) /\ level[k].lo < level[k].hi

\* Coverage stays gapless (maybe_summarize): the sessions leave out no turn
\* and tell none twice, whatever is abandoned, replayed or forced between.
SessionsTile == Tiles(sessions)

\* So do the arcs, each of PerArc sessions, unless close_arc made a short one.
ArcsTile == ~closed => Tiles(arcs) /\ \A k \in DOMAIN arcs : Cardinality(arcs[k].scopes) = PerArc

\* No session is told by two arcs, even so.
ArcsDisjoint == \A j, k \in DOMAIN arcs : j # k => arcs[j].scopes \cap arcs[k].scopes = {}

\* No level runs ahead of the one it is built from, and the campaign's digest
\* ends where some arc does.
Nested ==
    /\ End(campaigns) <= End(arcs) /\ End(arcs) <= End(sessions)
    /\ \A k \in DOMAIN campaigns : \E j \in DOMAIN arcs : campaigns[k].hi = arcs[j].hi

Gapless == SessionsTile /\ ArcsTile /\ ArcsDisjoint /\ Nested

\* Below its last turn a digest is built from everything that was ever
\* written (before _clip keeps only as many lines as the level's cap): no row
\* of a turn played again and no fact pinned late is missed.  Its last turn
\* may be played again after it is written.
Complete(level) ==
    \A k \in DOMAIN level :
        /\ RowsBetween(level[k].lo, level[k].hi - 1) \subseteq level[k].told
        /\ PinsBetween(level[k].lo, level[k].hi - 1) \subseteq level[k].quoted
DigestsComplete == Complete(sessions) /\ Complete(arcs) /\ Complete(campaigns)

\* The memory of a turn that got as far as its digests holds the prose of the
\* newest rows only, however many attempts left theirs untrimmed.
ProseWindow ==
    call.at \in {"scan", "log"} =>
        {k \in DOMAIN chronicle : chronicle[k].prose}
            = {k \in DOMAIN chronicle : k > Len(chronicle) - Verbatim}

\* memory.py SagaDigest, Chronicle.enforce_verbatim_window: what is left of old
\* turns is all there, in prose for the newest and in a digest for those that
\* were archived, and no digest leaves out or tells twice what its level owes.
MemorySound == Gapless /\ DigestsComplete /\ ProseWindow
=============================================================================
