---------------------------- MODULE PlaySession ----------------------------
(***************************************************************************)
(* The HTTP handlers that change one campaign, over the rows they share.   *)
(*                                                                         *)
(* Every handler runs in a thread of its own with a database session of    *)
(* its own.  It loads the play state, works on that copy (for /act and     *)
(* /opening across a model call that takes seconds) and writes the copy    *)
(* back; there is no lock and no version check, and one request commits up *)
(* to four times.  A step below is what happens up to and including one    *)
(* commit (or one read other requests can get in front of).                *)
(*                                                                         *)
(* A campaign whose play_states row is missing is loaded as the seeded     *)
(* state (PlaySession.load), so a row holding SeededState stands for both. *)
(***************************************************************************)
EXTENDS PlayBoard, FiniteSets

CONSTANTS
    Requests,   \* request threads
    Ops,        \* the operations players use in this instance
    Serial,     \* TRUE: the player waits for every answer before going on
    Faults,     \* TRUE: a request may die between two of its steps
    MaxTurns,   \* bound on actions_taken
    MaxSaves,   \* bound on the shelf
    NoKey,      \* a request that is not an action
    NoCheck,    \* client: no check is called for this action
    Answered    \* client: this action has its answer

VARIABLES
    row,        \* play_states.state_json
    saves,      \* save_games: the "play" part of every snapshot
    ledger,     \* play_actions: <<key, leg>> with a stored response
    status,     \* campaigns.status
    sheet,      \* characters: the player's character row exists
    mirror,     \* npc_memories / npc_relationships: actions mirrored there
    client,     \* what the player's page holds for each action
    req,        \* the request threads
    committed   \* history: every <<key, leg>> whose effects were committed

rows == <<row, saves, ledger, status, sheet, mirror>>
vars == <<rows, client, req, committed>>

AllOps == {"act", "opening", "creation", "draft", "restart", "save", "restore"}

\* "call" is the first send of an action, "throw" sends the die it waited for
\* under the key `${key}-roll`.
Legs == {"call", "throw"}

Idle == "idle"
Steps == {Idle, "recall", "think", "narrate", "rows", "shelve", "reset",
          "store", "autosave", "settle", "remember"}

ASSUME OpsAssumption == Ops \subseteq AllOps
ASSUME SwitchesAssumption == Serial \in BOOLEAN /\ Faults \in BOOLEAN
ASSUME BoundsAssumption == MaxTurns \in Nat /\ MaxSaves \in Nat
ASSUME NoKeyAssumption == NoKey \notin Keys
ASSUME ClientAssumption == NoCheck \notin Board /\ Answered \notin Board

Request ==
    [ at    : Steps,           \* the step it takes next
      op    : AllOps,
      key   : Keys \cup {NoKey},
      leg   : Legs,
      token : Board \cup {NoCheck, Answered},  \* pending_token of a throw
      base  : Board,           \* the state it loaded
      work  : Board,           \* the state it will store
      ckpt  : BOOLEAN ]        \* the beat autosaves

NoRequest ==
    [ at |-> Idle, op |-> "act", key |-> NoKey, leg |-> "call", token |-> NoCheck,
      base |-> SeededState, work |-> SeededState, ckpt |-> FALSE ]

\* The steps only /act takes.
ActSteps == {"recall", "think", "autosave", "settle", "remember"}

Busy == {r \in Requests : req[r].at # Idle}

TypeOK ==
    /\ row \in Board
    /\ saves \in SUBSET Board
    /\ ledger \subseteq Keys \X Legs
    /\ status \in {"active", "completed"}
    /\ sheet \in BOOLEAN
    /\ mirror \subseteq Keys
    /\ client \in [Keys -> Board \cup {NoCheck, Answered}]
    /\ req \in [Requests -> Request]
    /\ \A r \in Requests :
         /\ req[r].at \in ActSteps => req[r].op = "act"
         /\ req[r].op = "act" /\ req[r].at # Idle => req[r].key \in Keys
    /\ committed \subseteq Keys \X Legs

Init ==
    /\ row = SeededState
    /\ saves = {}
    /\ ledger = {}
    /\ status = "active"
    /\ sheet = FALSE
    /\ mirror = {}
    /\ client = [k \in Keys |-> NoCheck]
    /\ req = [r \in Requests |-> NoRequest]
    /\ committed = {}

-----------------------------------------------------------------------------
(***************************************************************************)
(* Starting, ending and losing a request.                                  *)
(***************************************************************************)

\* Bound: no request that saves starts unless the shelf has room for what the
\* requests under way may put there (each writes at most one save).
MayStart(op) ==
    /\ op \in Ops
    /\ Serial => Busy = {}
    /\ op \in {"act", "restart", "save"} =>
         Cardinality(saves) + Cardinality(Busy) < MaxSaves

Start(r, op, at, work) ==
    /\ req[r].at = Idle
    /\ MayStart(op)
    /\ req' = [req EXCEPT ![r] =
                 [NoRequest EXCEPT !.at = at, !.op = op, !.base = row, !.work = work]]

Goto(r, at) == req' = [req EXCEPT ![r].at = at]

Finish(r) == req' = [req EXCEPT ![r] = NoRequest]

\* The page gets the answer, or the connection is gone before it arrives.
Answer(k, holds) ==
    \/ client' = [client EXCEPT ![k] = holds]
    \/ UNCHANGED client

\* A request dies: the process is killed, the database refuses a statement.
\* What it committed stays, nothing else happens, no answer is sent.
Die(r) ==
    /\ Faults
    /\ req[r].at # Idle
    /\ Finish(r)
    /\ UNCHANGED <<rows, client, committed>>

-----------------------------------------------------------------------------
(***************************************************************************)
(* Slips: an action each as a plausible bug would leave it.  No behaviour  *)
(* of Spec uses them; PROJECT.json says which property catches which.      *)
(***************************************************************************)

\* The idempotency key is claimed when the request arrives.
ClaimOnRecall(r) ==
    /\ req[r].at = "recall"
    /\ ledger' = ledger \cup {<<req[r].key, req[r].leg>>}
    /\ Goto(r, "think")
    /\ UNCHANGED <<row, saves, status, sheet, mirror, client, committed>>

\* The ledger is not asked.
RecallNothing(r) ==
    /\ req[r].at = "recall"
    /\ Goto(r, "think")
    /\ UNCHANGED <<rows, client, committed>>

\* The token of a throw is not compared.
ResolveAnyThrow(r) ==
    /\ req[r].at = "think"
    /\ req[r].base.turns < MaxTurns
    /\ \E b \in Resolutions(req[r].base, req[r].key), autosaves \in BOOLEAN :
         req' = [req EXCEPT ![r].at = "store", ![r].work = b, ![r].ckpt = autosaves]
    /\ UNCHANGED <<rows, client, committed>>

\* Whatever was stored, an act's bookkeeping follows.
AfterAnyStore(q) == IF q.ckpt THEN "autosave" ELSE "settle"

\* The autosave keeps the state that was loaded.
AutosaveLoaded(r) ==
    /\ req[r].at = "autosave"
    /\ saves' = saves \cup {req[r].base}
    /\ Goto(r, "settle")
    /\ UNCHANGED <<row, ledger, status, sheet, mirror, client, committed>>

\* Only the beat that finishes the arc marks the campaign.
SettleOnFinish(r) ==
    /\ req[r].at = "settle"
    /\ status' = IF req[r].work.completed /\ ~req[r].base.completed
                 THEN "completed" ELSE status
    /\ Goto(r, "remember")
    /\ UNCHANGED <<row, saves, ledger, sheet, mirror, client, committed>>

\* A written page is written again.
ReopenOpening(r) ==
    /\ Start(r, "opening", "narrate", Opened(row))
    /\ UNCHANGED <<rows, client, committed>>

\* The sheet is stored before its rows.
SheetFirst(r) ==
    /\ ~row.created
    /\ Start(r, "creation", "store", Built(row))
    /\ UNCHANGED <<rows, client, committed>>

\* The run that ends is not kept.
RestartUnshelved(r) ==
    /\ Start(r, "restart", "reset", NewJourney(row))
    /\ UNCHANGED <<rows, client, committed>>

\* Only the board is reset.
ResetBoardOnly(r) ==
    /\ req[r].at = "reset"
    /\ row' = req[r].work
    /\ Finish(r)
    /\ UNCHANGED <<saves, ledger, mirror, status, sheet, client, committed>>

-----------------------------------------------------------------------------
(***************************************************************************)
(* POST /act                                                               *)
(***************************************************************************)

\* The page sends an unanswered action, or (again, after a lost answer) the
\* die thrown for the check it holds; the handler loads the state.
LoadAct(r) ==
    /\ req[r].at = Idle
    /\ MayStart("act")
    /\ \E k \in Keys :
         /\ client[k] # Answered
         /\ req' = [req EXCEPT ![r] =
              [NoRequest EXCEPT !.at = "recall", !.key = k, !.base = row,
                 !.leg = IF client[k] = NoCheck THEN "call" ELSE "throw",
                 !.token = client[k]]]
    /\ UNCHANGED <<rows, client, committed>>

\* recall_action found the key: the stored response is the answer.
Replay(r) ==
    /\ req[r].at = "recall"
    /\ <<req[r].key, req[r].leg>> \in ledger
    /\ Answer(req[r].key, Answered)
    /\ Finish(r)
    /\ UNCHANGED <<rows, committed>>

RecallMisses(r) ==
    /\ req[r].at = "recall"
    /\ <<req[r].key, req[r].leg>> \notin ledger
    /\ Goto(r, "think")
    /\ UNCHANGED <<rows, client, committed>>

\* No provider (400), or the model call fails (502): nothing is persisted and
\* the page keeps what it sent.
NarrationFails(r) ==
    /\ req[r].at \in {"think", "narrate"}
    /\ Finish(r)
    /\ UNCHANGED <<rows, client, committed>>

\* The token is a fingerprint of (action, loaded state): the board moved
\* between the call and the throw (409 check_expired); the page drops both.
ThrowExpired(r) ==
    /\ req[r].at = "think"
    /\ req[r].leg = "throw"
    /\ req[r].base # req[r].token
    /\ Answer(req[r].key, Answered)
    /\ Finish(r)
    /\ UNCHANGED <<rows, committed>>

\* The action stops at its first surfaced check: nothing is persisted, the
\* page holds the token. A throw carries its die and never suspends.
CheckCalled(r) ==
    /\ req[r].at = "think"
    /\ req[r].leg = "call"
    /\ Answer(req[r].key, req[r].base)
    /\ Finish(r)
    /\ UNCHANGED <<rows, committed>>

\* The beat resolves and is narrated, all on the loaded copy.
Resolve(r) ==
    /\ req[r].at = "think"
    /\ req[r].leg = "throw" => req[r].base = req[r].token
    /\ req[r].base.turns < MaxTurns
    /\ \E b \in Resolutions(req[r].base, req[r].key), autosaves \in BOOLEAN :
         req' = [req EXCEPT ![r].at = "store", ![r].work = b, ![r].ckpt = autosaves]
    /\ UNCHANGED <<rows, client, committed>>

-----------------------------------------------------------------------------
(***************************************************************************)
(* PlaySession.store and what follows it                                   *)
(***************************************************************************)

AfterStore(q) ==
    CASE q.op # "act" -> Idle
      [] q.op = "act" /\ q.ckpt -> "autosave"
      [] OTHER -> "settle"

\* store(): the working copy replaces the row, whatever the row holds by now;
\* the memory mirror gains what the copy remembers (its rows are only inserted).
Store(r) ==
    LET q == req[r] IN
    /\ q.at = "store"
    /\ row' = q.work
    /\ mirror' = mirror \cup Remembered(q.work)
    /\ req' = [req EXCEPT ![r] =
                 IF AfterStore(q) = Idle THEN NoRequest ELSE [q EXCEPT !.at = AfterStore(q)]]
    /\ committed' = IF q.op = "act" THEN committed \cup {<<q.key, q.leg>>} ELSE committed
    /\ UNCHANGED <<saves, ledger, status, sheet, client>>

\* checkpoint(): the autosave is a second commit and reads the row again.
Autosave(r) ==
    /\ req[r].at = "autosave"
    /\ saves' = saves \cup {row}
    /\ Goto(r, "settle")
    /\ UNCHANGED <<row, ledger, status, sheet, mirror, client, committed>>

\* A finished arc marks the campaign, in a commit of its own.
Settle(r) ==
    /\ req[r].at = "settle"
    /\ status' = IF req[r].work.completed THEN "completed" ELSE status
    /\ Goto(r, "remember")
    /\ UNCHANGED <<row, saves, ledger, sheet, mirror, client, committed>>

\* remember_action(): the response enters the ledger and leaves.
Remember(r) ==
    /\ req[r].at = "remember"
    /\ <<req[r].key, req[r].leg>> \notin ledger
    /\ ledger' = ledger \cup {<<req[r].key, req[r].leg>>}
    /\ Answer(req[r].key, Answered)
    /\ Finish(r)
    /\ UNCHANGED <<row, saves, status, sheet, mirror, committed>>

\* uq_play_action_key: another request stored this key first (500).
RememberRefused(r) ==
    /\ req[r].at = "remember"
    /\ <<req[r].key, req[r].leg>> \in ledger
    /\ Finish(r)
    /\ UNCHANGED <<rows, client, committed>>

-----------------------------------------------------------------------------
(***************************************************************************)
(* POST /opening and the character-creation endpoints                      *)
(***************************************************************************)

\* An opening that is not pending is answered "already" and changes nothing.
LoadOpening(r) ==
    /\ row.pending
    /\ Start(r, "opening", "narrate", Opened(row))
    /\ UNCHANGED <<rows, client, committed>>

Narrated(r) ==
    /\ req[r].at = "narrate"
    /\ Goto(r, "store")
    /\ UNCHANGED <<rows, client, committed>>

\* The wizard commits, or a prebuilt hero is applied; a sheet that is already
\* created is refused (400).
LoadCreation(r) ==
    /\ ~row.created
    /\ Start(r, "creation", "rows", Built(row))
    /\ UNCHANGED <<rows, client, committed>>

\* apply_creation() commits the character rows before the play state.
ApplyCreation(r) ==
    /\ req[r].at = "rows"
    /\ sheet' = TRUE
    /\ Goto(r, "store")
    /\ UNCHANGED <<row, saves, ledger, status, mirror, client, committed>>

\* One stage of the wizard (a restarted journey begins with an empty draft, so
\* a created sheet does not close it): the draft is not part of Board, and the
\* whole state that was loaded is stored with it.
LoadDraft(r) ==
    /\ Start(r, "draft", "store", row)
    /\ UNCHANGED <<rows, client, committed>>

-----------------------------------------------------------------------------
(***************************************************************************)
(* POST /campaigns/{id}/restart                                            *)
(***************************************************************************)

LoadRestart(r) ==
    /\ Start(r, "restart", IF row.turns > 0 THEN "shelve" ELSE "reset", NewJourney(row))
    /\ UNCHANGED <<rows, client, committed>>

\* "Before the new road": the run goes onto the shelf, as the row has it now.
Shelve(r) ==
    /\ req[r].at = "shelve"
    /\ saves' = saves \cup {row}
    /\ Goto(r, "reset")
    /\ UNCHANGED <<row, ledger, status, sheet, mirror, client, committed>>

Reset(r) ==
    /\ req[r].at = "reset"
    /\ row' = req[r].work
    /\ ledger' = {}
    /\ mirror' = {}
    /\ status' = "active"
    /\ Finish(r)
    /\ UNCHANGED <<saves, sheet, client, committed>>

-----------------------------------------------------------------------------
(***************************************************************************)
(* The save shelf: each of these commits once and computes what it writes  *)
(* from what it reads in that commit.                                      *)
(***************************************************************************)

CreateSave ==
    /\ MayStart("save")
    /\ saves' = saves \cup {row}
    /\ UNCHANGED <<row, ledger, status, sheet, mirror, client, req, committed>>

\* Only the snapshot goes; in serial use nothing else is under way.
DeleteSave ==
    /\ Serial => Busy = {}
    /\ \E page \in saves : saves' = saves \ {page}
    /\ UNCHANGED <<row, ledger, status, sheet, mirror, client, req, committed>>

\* The snapshot's state becomes the row; the status, the ledger and the
\* mirrors stay what they are.
RestoreSave ==
    /\ MayStart("restore")
    /\ \E page \in saves :
         /\ page.turns < MaxTurns
         /\ row' = TurnedBack(page)
    /\ UNCHANGED <<saves, ledger, status, sheet, mirror, client, req, committed>>

-----------------------------------------------------------------------------
Act(r) ==
    \/ LoadAct(r) \/ Replay(r) \/ RecallMisses(r)
    \/ ThrowExpired(r) \/ CheckCalled(r) \/ Resolve(r)
    \/ Autosave(r) \/ Settle(r) \/ Remember(r) \/ RememberRefused(r)

Sheet(r) == LoadCreation(r) \/ ApplyCreation(r) \/ LoadDraft(r)

Journey(r) == LoadRestart(r) \/ Shelve(r) \/ Reset(r)

Next ==
    \/ \E r \in Requests :
         \/ Act(r)
         \/ LoadOpening(r) \/ Narrated(r) \/ NarrationFails(r)
         \/ Sheet(r)
         \/ Store(r)
         \/ Journey(r)
         \/ Die(r)
    \/ CreateSave \/ DeleteSave \/ RestoreSave

Spec == Init /\ [][Next]_vars

-----------------------------------------------------------------------------
(***************************************************************************)
(* Properties.                                                             *)
(***************************************************************************)

\* A stored response stands for effects that were committed: whatever dies
\* and whatever overlaps, a replay never answers for a beat that was not
\* stored (act: checkpoint before remember_action).
LedgerBacked == ledger \subseteq committed

\* A sheet that says "created", in the live row or on any saved page, has its
\* character row in the database (apply_creation commits the rows first).
CreatedHasSheet == \A b \in saves \cup {row} : b.created => sheet

\* The ledger speaks of the board the player is on: an action that would be
\* answered from it is in the live state (restart_campaign clears the ledger
\* with the board).
LedgerCurrent == \A e \in ledger : row.applied[e[1]] > 0

\* A retried submit never double-applies (play/models.py).
AppliedAtMostOnce == \A k \in Keys : row.applied[k] <= 1

Stores(r) == req[r].at = "store" /\ req'[r].at # "store" /\ row' = req[r].work

\* What is committed stays committed: storing a request's copy never takes an
\* action's effects out of the live state (act: a resolved action is committed
\* before the response leaves, "so a dropped connection can never lose" it).
ResolvedStays ==
    [][\A r \in Requests, k \in Keys :
         Stores(r) => row'.applied[k] >= row.applied[k]]_vars

\* The first page is written at most once per journey (narrate_opening): no
\* opening is stored over a written page, and only a new sheet makes it due
\* again.
OpeningWrittenOnce ==
    [][\A r \in Requests :
         Stores(r) /\ ~row.pending =>
           req[r].op # "opening" /\ (row'.pending => req[r].op = "creation")]_vars

\* The campaign is marked completed only while its live arc is finished.
StatusTruthful == status = "completed" => row.completed

\* Once an act has got as far as its ledger entry, a finished arc is marked
\* on the campaign, even when an earlier request died before marking it.
ActSettlesStatus ==
    \A r \in Requests : req[r].at = "remember" /\ row.completed => status = "completed"

\* The mirror tables hold exactly what the live state remembers: store adds,
\* restart drops, and nothing is left over.
MirrorMatches == mirror = Remembered(row)

\* The autosave of a beat holds that beat (checkpoint stores, then saves).
AutosaveHoldsTheBeat ==
    [][\A r \in Requests :
         req[r].at = "autosave" /\ req'[r].at = "settle" =>
           \E page \in saves' : page.applied[req[r].key] > 0]_vars

\* A die lands only on the board its check was called from (engine.act: "a
\* stale token means the board moved - nothing lands").
ThrowLandsOnItsBoard ==
    [][\A r \in Requests :
         Stores(r) /\ req[r].leg = "throw" => row = req[r].token]_vars

\* Used one request at a time, the handlers are whole operations on one board.
C == INSTANCE Chronicle WITH board <- row, shelf <- saves
Serialised == C!Spec
=============================================================================
