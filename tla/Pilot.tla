-------------------------------- MODULE Pilot --------------------------------
(***************************************************************************)
(* The engine pilot: the page of one player (frontend/app/chronicle), its  *)
(* helpers (lib/engine.ts) and the bridge it plays through                 *)
(* (backend/app/modules/engine), over a network that may be slow and with  *)
(* a process that may end.                                                 *)
(*                                                                         *)
(* A turn is the whole of PlaySession.act here: it is told or it fails.    *)
(* EngineTurn models what it writes, commit by commit.  One tab is open;   *)
(* the settings page and another device change what they share with it.    *)
(* The state panel, chips and wording change nothing else and are left     *)
(* out.                                                                    *)
(***************************************************************************)
EXTENDS Naturals, Sequences, FiniteSets

CONSTANTS
    Chronicles,    \* engine campaigns
    Sends,         \* turn requests, in the order they are sent
    Boundaries,    \* content preferences a browser may hold
    Nil,       \* no chronicle, no request, no boundaries
    FirstStored,   \* what the account's provider may be at first
    FirstLimits,   \* boundaries the browser may hold at first
    MaxChanges,    \* bound on what the player changes: chronicles, saves, key, boundaries
    MaxTroubles    \* bound on crashes, reloads and answers given up on

ASSUME PilotAssumption ==
    /\ Sends = 1..Cardinality(Sends)
    /\ Nil \notin Chronicles \cup Sends \cup Boundaries
    /\ FirstStored \subseteq {"absent", "unset", "stub", "foreign", "live"}
    /\ FirstLimits \subseteq Boundaries
    /\ MaxChanges \in Nat /\ MaxTroubles \in Nat

VARIABLES
    stored,     \* EngineConnectionRow.provider
    shelf,      \* per chronicle: its rows, its engine database
    lock,       \* per chronicle: the request inside the lock
    turns,      \* the requests
    requests,      \* requests of the page about the connection, in flight
    page,       \* what the page holds
    key,        \* the key slot of this browser is filled
    limits,     \* the boundaries in this browser's store
    changes, troubles   \* bounds

pilotVars == <<stored, shelf, lock, turns, requests, page, key, limits, changes, troubles>>

Stored == {"absent", "unset", "stub", "foreign", "live"}

\* connection_view: what the page reads, once the row is there.
View(provider) == IF provider \in {"absent", "unset", "stub"} THEN "unset" ELSE provider
Created == IF stored = "absent" THEN "unset" ELSE stored

\* providerConnected
Connected(provider) == provider \in {"foreign", "live"}

Turn ==
    [ stage : {"none", "sent", "queued", "playing", "told", "answered",
               "keyless", "failed", "dropped"},
      of : Chronicles \cup {Nil}, keyed : BOOLEAN,
      under : Boundaries \cup {Nil}, number : Nat ]
NoTurn == [stage |-> "none", of |-> Nil, keyed |-> FALSE, under |-> Nil, number |-> 0]

\* The page as it mounts: its key is read, its connection is asked for.
Mounted ==
    [ open |-> Nil, seen |-> <<>>, pending |-> Nil, failed |-> FALSE,
      applied |-> Nil, keyStored |-> key, provider |-> "unread",
      needed |-> FALSE, verdict |-> "none" ]

PilotInit ==
    /\ stored \in FirstStored
    /\ shelf = [c \in Chronicles |-> [made |-> FALSE, seeded |-> FALSE, told |-> <<>>, stamped |-> FALSE]]
    /\ lock = [c \in Chronicles |-> Nil]
    /\ turns = [r \in Sends |-> NoTurn]
    /\ requests = [get |-> "asked", put |-> "none", probe |-> "none"]
    /\ key \in BOOLEAN /\ limits \in FirstLimits
    /\ page = Mounted
    /\ changes = 0 /\ troubles = 0

Change == changes < MaxChanges /\ changes' = changes + 1 /\ UNCHANGED troubles
Trouble == troubles < MaxTroubles /\ troubles' = troubles + 1 /\ UNCHANGED changes
Calm == UNCHANGED <<changes, troubles>>

-----------------------------------------------------------------------------
(* Slips *)

\* The row may be saved back to the retired default.
AnyProvider == {"live", "stub"}

-----------------------------------------------------------------------------
(* The connection *)

\* What save_connection accepts of PUT /connection: strict names only.
Offered == {"live"}

\* connection_settings: the row is made on first read; who loses the race to
\* make it reads the winner's.
ReadConnection ==
    /\ requests.get = "asked"
    /\ stored' = Created
    /\ requests' = [requests EXCEPT !.get = View(Created)]
    /\ Calm /\ UNCHANGED <<shelf, lock, turns, page, key, limits>>

\* loadConnection: however late its answer is.
ShowConnection ==
    /\ requests.get \notin {"none", "asked"}
    /\ requests' = [requests EXCEPT !.get = "none"]
    /\ page' = [page EXCEPT !.provider = requests.get]
    /\ Calm /\ UNCHANGED <<stored, shelf, lock, turns, key, limits>>

\* saveConnectionPrefs of Save and of Test: an empty key field keeps the key,
\* and the key is kept before the server has answered.
SavePrefs ==
    /\ Change
    /\ requests.put = "none" /\ requests.probe = "none"
    /\ \E typed, test \in BOOLEAN :
         /\ key' = (key \/ typed)
         /\ page' = [page EXCEPT !.keyStored = key', !.verdict = IF test THEN "none" ELSE @]
         /\ requests' = [requests EXCEPT !.put = "asked",
                                   !.probe = IF ~test THEN "none" ELSE IF typed THEN "typed" ELSE "kept"]
    /\ UNCHANGED <<stored, shelf, lock, turns, limits>>

\* save_connection, from this page or another device; a field may be refused.
PutConnection ==
    /\ requests.put = "asked"
    /\ \/ \E provider \in Offered : stored' = provider /\ requests' = [requests EXCEPT !.put = provider]
       \/ stored' = Created /\ requests' = [requests EXCEPT !.put = "refused"]
    /\ Calm /\ UNCHANGED <<shelf, lock, turns, page, key, limits>>
SaveElsewhere ==
    /\ Change
    /\ stored' \in Offered
    /\ UNCHANGED <<shelf, lock, turns, requests, page, key, limits>>

\* The rest of saveConnectionPrefs: the answer, or none.
SaveAnswered ==
    /\ requests.put # "none"
    /\ \/ /\ requests.put \notin {"asked", "refused"}
          /\ page' = [page EXCEPT !.provider = requests.put, !.needed = FALSE]
          /\ requests' = [requests EXCEPT !.put = "none"]
       \/ /\ requests' = [requests EXCEPT !.put = "none", !.probe = "none"]
          /\ UNCHANGED page
    /\ Calm /\ UNCHANGED <<stored, shelf, lock, turns, key, limits>>

\* _canary_verdict, with the key the probe carries: the one that was typed, or
\* the one that is kept when the prefs are saved.
CanaryVerdicts(keyed) ==
    IF View(stored) = "unset" \/ ~keyed THEN {"connect"}
    ELSE IF stored = "foreign" THEN {"unsupported"} ELSE {"reachable", "unreachable"}
ProbeModel ==
    /\ requests.probe # "none" /\ requests.put = "none"
    /\ requests' = [requests EXCEPT !.probe = "none"]
    /\ \E verdict \in CanaryVerdicts(requests.probe = "typed" \/ key) : page' = [page EXCEPT !.verdict = verdict]
    /\ Calm /\ UNCHANGED <<stored, shelf, lock, turns, key, limits>>

\* clearKey
ClearKey ==
    /\ Change
    /\ page.keyStored
    /\ key' = FALSE
    /\ page' = [page EXCEPT !.keyStored = FALSE, !.verdict = "none"]
    /\ UNCHANGED <<stored, shelf, lock, turns, requests, limits>>

\* The settings page writes the store; the pilot reads it at request time.
SetLimits ==
    /\ Change
    /\ limits' \in Boundaries \ {limits}
    /\ UNCHANGED <<stored, shelf, lock, turns, requests, page, key>>

-----------------------------------------------------------------------------
(* The shelf *)

\* openCampaign clears what was shown, and not the turn that is due.
Opened(c) ==
    [page EXCEPT !.open = c, !.seen = <<>>, !.failed = FALSE, !.applied = Nil]

OpenTale ==
    /\ \E c \in Chronicles : shelf[c].made /\ page' = Opened(c)
    /\ Calm /\ UNCHANGED <<stored, shelf, lock, turns, requests, key, limits>>

\* create_campaign: the rows are committed, then the world is seeded, and a
\* seeding that fails leaves the rows: the chronicle is on the shelf next time.
Create ==
    /\ Change
    /\ \E c \in Chronicles :
         /\ ~shelf[c].made
         /\ \/ /\ shelf' = [shelf EXCEPT ![c].made = TRUE, ![c].seeded = TRUE]
               /\ page' = Opened(c)
            \/ shelf' = [shelf EXCEPT ![c].made = TRUE] /\ UNCHANGED page
    /\ UNCHANGED <<stored, lock, turns, requests, key, limits>>

-----------------------------------------------------------------------------
(* A turn, on the page *)

\* playGate
Blocked == page.needed \/ ~page.keyStored \/ ~Connected(page.provider)

MaySend == page.open # Nil /\ page.pending = Nil

\* send, from the line behind the gate or from "Try that again" before it;
\* key and boundaries are read from the browser as the request leaves.
Send ==
    /\ MaySend
    /\ ~Blocked \/ page.failed
    /\ \E r \in Sends :
         /\ turns[r].stage = "none" /\ \A s \in Sends : s < r => turns[s].stage # "none"
         /\ turns' = [turns EXCEPT ![r] =
                [stage |-> "sent", of |-> page.open, keyed |-> key, under |-> limits, number |-> 0]]
         /\ page' = [page EXCEPT !.pending = r, !.failed = FALSE]
    /\ Calm /\ UNCHANGED <<stored, shelf, lock, requests, key, limits>>

\* The answer of a turn that was told, wherever the page is by then: its words
\* are appended, and the echo of its boundaries is what the page claims.
TurnTold ==
    /\ page.pending # Nil
    /\ LET t == turns[page.pending] IN
         /\ t.stage = "answered"
         /\ page' = [page EXCEPT !.pending = Nil, !.seen = Append(@, page.pending),
                                 !.applied = t.under]
    /\ Calm /\ UNCHANGED <<stored, shelf, lock, turns, requests, key, limits>>

\* The server's own connect_your_ai closes the gate; the words go back to the
\* line.
SentBack ==
    /\ page.pending # Nil /\ turns[page.pending].stage = "keyless"
    /\ page' = [page EXCEPT !.pending = Nil, !.needed = TRUE]
    /\ Calm /\ UNCHANGED <<stored, shelf, lock, turns, requests, key, limits>>

\* Any other failure keeps the words beside the line.
Stumbled == [page EXCEPT !.pending = Nil, !.failed = TRUE]
Stumble ==
    /\ page.pending # Nil /\ turns[page.pending].stage \in {"failed", "dropped"}
    /\ page' = Stumbled
    /\ Calm /\ UNCHANGED <<stored, shelf, lock, turns, requests, key, limits>>

\* engineFetch aborts after 150 seconds; the server plays on.
LoseAnswer ==
    /\ Trouble
    /\ page.pending # Nil
    /\ page' = Stumbled
    /\ UNCHANGED <<stored, shelf, lock, turns, requests, key, limits>>

\* The page is closed and opened again.
Reload ==
    /\ Trouble
    /\ page' = Mounted
    /\ requests' = [get |-> "asked", put |-> "none", probe |-> "none"]
    /\ UNCHANGED <<stored, shelf, lock, turns, key, limits>>

-----------------------------------------------------------------------------
(* A turn, on the server *)

\* take_turn up to the lock: _resolve_provider on the connection as it is now.
Resolved(t) ==
    IF View(Created) = "unset" \/ ~t.keyed THEN "keyless"
    ELSE IF Created = "foreign" THEN "failed" ELSE "queued"
Arrive(r) ==
    /\ turns[r].stage = "sent"
    /\ stored' = Created
    /\ turns' = [turns EXCEPT ![r].stage = Resolved(turns[r])]
    /\ Calm /\ UNCHANGED <<shelf, lock, requests, page, key, limits>>

\* _campaign_lock
LockFree(c) == lock[c] = Nil

\* Inside it: a store that was never seeded is seeded, the turn is numbered.
Begin(r) ==
    LET c == turns[r].of IN
    /\ turns[r].stage = "queued" /\ LockFree(c)
    /\ lock' = [lock EXCEPT ![c] = r]
    /\ shelf' = [shelf EXCEPT ![c].seeded = TRUE]
    /\ turns' = [turns EXCEPT ![r].stage = "playing", ![r].number = Len(shelf[c].told) + 1]
    /\ Calm /\ UNCHANGED <<stored, requests, page, key, limits>>

\* session.act and the payload of what it did, or a provider error; either way
\* the lock is released.
Play(r) ==
    LET c == turns[r].of IN
    /\ turns[r].stage = "playing"
    /\ lock' = [lock EXCEPT ![c] = Nil]
    /\ \/ /\ shelf' = [shelf EXCEPT ![c].told = Append(@, r)]
          /\ turns' = [turns EXCEPT ![r].stage = "told"]
       \/ turns' = [turns EXCEPT ![r].stage = "failed"] /\ UNCHANGED shelf
    /\ Calm /\ UNCHANGED <<stored, requests, page, key, limits>>

\* last_turn_at, out of the lock
StampTurn(r) ==
    /\ turns[r].stage = "told"
    /\ shelf' = [shelf EXCEPT ![turns[r].of].stamped = TRUE]
    /\ turns' = [turns EXCEPT ![r].stage = "answered"]
    /\ Calm /\ UNCHANGED <<stored, lock, requests, page, key, limits>>

\* The process ends: what was committed stays.
Crash ==
    /\ Trouble
    /\ lock' = [c \in Chronicles |-> Nil]
    /\ turns' = [r \in Sends |->
          IF turns[r].stage \in {"sent", "queued", "playing", "told"}
          THEN [turns[r] EXCEPT !.stage = "dropped"] ELSE turns[r]]
    /\ UNCHANGED <<stored, shelf, requests, page, key, limits>>

PilotNext ==
    \/ ReadConnection \/ ShowConnection \/ SavePrefs \/ PutConnection \/ SaveElsewhere
    \/ SaveAnswered \/ ProbeModel \/ ClearKey \/ SetLimits
    \/ OpenTale \/ Create
    \/ Send \/ TurnTold \/ SentBack \/ Stumble \/ LoseAnswer \/ Reload
    \/ \E r \in Sends : Arrive(r) \/ Begin(r) \/ Play(r) \/ StampTurn(r)
    \/ Crash

PilotSpec == PilotInit /\ [][PilotNext]_pilotVars

-----------------------------------------------------------------------------
(* Properties *)

PilotTypeOK ==
    /\ stored \in Stored
    /\ shelf \in [Chronicles -> [made : BOOLEAN, seeded : BOOLEAN, told : Seq(Sends), stamped : BOOLEAN]]
    /\ lock \in [Chronicles -> Sends \cup {Nil}]
    /\ turns \in [Sends -> Turn]
    /\ requests \in [ get : {"none", "asked", "unset", "foreign", "live"},
                   put : {"none", "asked", "refused"} \cup Stored, probe : {"none", "kept", "typed"} ]
    /\ page \in [ open : Chronicles \cup {Nil}, seen : Seq(Sends),
                  pending : Sends \cup {Nil}, failed : BOOLEAN,
                  applied : Boundaries \cup {Nil}, keyStored : BOOLEAN,
                  provider : {"unread", "unset", "foreign", "live"}, needed : BOOLEAN,
                  verdict : {"none", "connect", "unsupported", "reachable", "unreachable"} ]
    /\ key \in BOOLEAN /\ limits \in Boundaries
    /\ changes \in 0..MaxChanges /\ troubles \in 0..MaxTroubles

\* An open gate, and a probe that got through, are true of the account and of
\* this browser, however late the calls they rest on were answered.
GateHonest ==
    /\ ~Blocked => key /\ Connected(stored)
    /\ page.verdict = "reachable" => stored = "live"

\* No turn reaches the engine without a key and a model; the model it was let
\* in with cannot be taken away while it waits and plays.
NoKeylessTurn ==
    \A r \in Sends :
        turns[r].stage \in {"queued", "playing", "told", "answered"} =>
            turns[r].keyed /\ stored = "live"

\* What the page tells of one chronicle, it tells in the order it happened,
\* each turn under the number it has there, and the boundaries it claims are
\* those of the turn it told last.
TurnsInOrder ==
    /\ \A i, j \in DOMAIN page.seen :
          i < j /\ turns[page.seen[i]].of = turns[page.seen[j]].of =>
              turns[page.seen[i]].number < turns[page.seen[j]].number
    /\ \A r \in Sends : turns[r].stage \in {"told", "answered"} =>
          shelf[turns[r].of].told[turns[r].number] = r
    /\ page.seen # <<>> => page.applied = turns[page.seen[Len(page.seen)]].under

PilotSound == GateHonest /\ NoKeylessTurn /\ TurnsInOrder
=============================================================================
