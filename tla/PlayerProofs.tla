---------------------------- MODULE PlayerProofs ----------------------------
(***************************************************************************)
(* What is proved of the player's side of the campaign: the adventure page *)
(* and the turns it sends (Pilot), the storyteller and what the player     *)
(* reads of it (Telling), and how the people of the story take it (Regard).*)
(* Each of the three runs by itself.  The lemma they share is the          *)
(* least-number principle: what a recursive function yields is proved of   *)
(* every list by it, the first place where it would fail being impossible. *)
(***************************************************************************)
EXTENDS Pilot, Telling, Regard, FiniteSetTheorems, WellFoundedInduction, SequenceTheorems, TLAPS

\* The least of a set of naturals.
LEMMA LeastIn ==
    ASSUME NEW T \in SUBSET Nat, T # {}
    PROVE  \E x \in T : \A y \in T : x <= y
<1> DEFINE R == OpToRel(<, Nat)
<1>1. IsWellFoundedOn(R, Nat)
  BY NatLessThanWellFounded
<1>2. \A x, y \in Nat : x < y => <<x, y>> \in R
  BY DEF OpToRel
<1> HIDE DEF R
<1>3. PICK x \in T : \A y \in T : ~(<<y, x>> \in R)
  BY <1>1, WFMin
<1>4. \A y \in T : ~(y < x)
  BY <1>2, <1>3
<1> QED
  BY <1>3, <1>4

-----------------------------------------------------------------------------
(* The pilot *)

\* A provider that was told to the page is the account's, or was before it
\* came to name the one that is supported.
CurrentRow(told, provider) ==
    /\ told = "live" => provider = "live"
    /\ told = "foreign" => provider \in {"foreign", "live"}

\* What the page and the calls it waits for say of the account and the browser.
GateTrue(pg, rq, kept, provider) ==
    /\ pg.keyStored => kept
    /\ CurrentRow(pg.provider, provider)
    /\ CurrentRow(rq.get, provider)
    /\ rq.put \in {"none", "asked", "refused"} \/ (rq.put = "live" /\ provider = "live")
    /\ pg.verdict = "reachable" => provider = "live"

LetIn(ts, provider) ==
    \A r \in Sends :
        ts[r].stage \in {"queued", "playing", "told", "answered"} =>
            ts[r].keyed /\ provider = "live"

\* A turn is played under the lock of its chronicle, as the next of it; one
\* that was told is where its number says.
Played(ts, lk, sh) ==
    \A r \in Sends :
        /\ ts[r].stage # "none" => ts[r].of \in Chronicles
        /\ ts[r].stage = "playing" =>
             lk[ts[r].of] = r /\ ts[r].number = Len(sh[ts[r].of].told) + 1
        /\ ts[r].stage \in {"told", "answered"} =>
             /\ ts[r].number \in DOMAIN sh[ts[r].of].told
             /\ sh[ts[r].of].told[ts[r].number] = r

\* What the page tells of a chronicle was answered in order, and comes before
\* what it waits for.
Shown(pg, ts) ==
    /\ \A i \in DOMAIN pg.seen : ts[pg.seen[i]].stage = "answered"
    /\ \A i, j \in DOMAIN pg.seen :
          i < j /\ ts[pg.seen[i]].of = ts[pg.seen[j]].of =>
              ts[pg.seen[i]].number < ts[pg.seen[j]].number
    /\ pg.pending # Nil /\ ts[pg.pending].number > 0 =>
          \A i \in DOMAIN pg.seen :
              ts[pg.seen[i]].of = ts[pg.pending].of =>
                  ts[pg.seen[i]].number < ts[pg.pending].number
    /\ pg.seen # <<>> => pg.applied = ts[pg.seen[Len(pg.seen)]].under

Piloted ==
    /\ PilotTypeOK
    /\ GateTrue(page, requests, key, stored)
    /\ LetIn(turns, stored)
    /\ Played(turns, lock, shelf)
    /\ Shown(page, turns)

\* The types of the page and of its calls, for the provers.
Pages ==
    [ open : Chronicles \cup {Nil}, seen : Seq(Sends),
      pending : Sends \cup {Nil}, failed : BOOLEAN,
      applied : Boundaries \cup {Nil}, keyStored : BOOLEAN,
      provider : {"unread", "unset", "foreign", "live"}, needed : BOOLEAN,
      verdict : {"none", "connect", "unsupported", "reachable", "unreachable"} ]
Requests ==
    [ get : {"none", "asked", "unset", "foreign", "live"},
      put : {"none", "asked", "refused"} \cup Stored, probe : {"none", "kept", "typed"} ]
Shelves == [made : BOOLEAN, seeded : BOOLEAN, told : Seq(Sends), stamped : BOOLEAN]
Counts == changes \in 0..MaxChanges /\ troubles \in 0..MaxTroubles

\* A provider is saved over, never back.
Grows(old, new) == CurrentRow(old, new)

\* A provider named once stays named where only the account is saved again.
LEMMA CurrentStays ==
    ASSUME NEW v, NEW old, NEW new, CurrentRow(v, old), Grows(old, new)
    PROVE  CurrentRow(v, new)
  BY DEF CurrentRow, Grows

\* What the page knows of the account survives a save of it.
LEMMA GateStays ==
    ASSUME NEW pg, NEW rq, NEW kept, NEW old, NEW new, GateTrue(pg, rq, kept, old), Grows(old, new)
    PROVE  GateTrue(pg, rq, kept, new)
  BY DEF GateTrue, CurrentRow, Grows

\* A turn let in stays let in.
LEMMA LetInStays ==
    ASSUME NEW ts, NEW old, NEW new, LetIn(ts, old), Grows(old, new)
    PROVE  LetIn(ts, new)
  BY DEF LetIn, Grows, CurrentRow

\* The bounds hold, whatever they count.
LEMMA Numbered ==
    ASSUME PilotAssumption, Counts, Change \/ Trouble \/ Calm
    PROVE  Counts'
  BY DEF PilotAssumption, Counts, Change, Trouble, Calm

\* connection_settings makes the row that is missing, and no other.
LEMMA CreatedGrows ==
    ASSUME stored \in Stored
    PROVE  Created \in Stored /\ Grows(stored, Created) /\ Grows(stored, stored)
           /\ Grows(stored, "live") /\ "live" \in Stored
           /\ View(Created) \in {"unset", "foreign", "live"} /\ CurrentRow(View(Created), Created)
  BY DEF Stored, Created, Grows, CurrentRow, View

\* What a page shows stays in order when it gives up on a turn ...
LEMMA ShownFrame ==
    ASSUME NEW pg, NEW q, NEW ts, Shown(pg, ts),
           q.seen = pg.seen, q.applied = pg.applied, q.pending \in {pg.pending, Nil}
    PROVE  Shown(q, ts)
  BY DEF Shown

\* ... or when it is cleared ...
LEMMA ShownClear ==
    ASSUME NEW q, NEW ts, q.seen = <<>>
    PROVE  Shown(q, ts)
  BY DEF Shown

\* ... or when turns move on that are not told yet.
MovesOn(ts, next) ==
    \A r \in Sends : /\ next[r].of = ts[r].of /\ next[r].under = ts[r].under
                     /\ next[r].number = ts[r].number
                     /\ ts[r].stage = "answered" => next[r].stage = "answered"

\* Turns that move on leave what the page shows where it was.
LEMMA ShownKept ==
    ASSUME NEW pg \in Pages, NEW ts, NEW next, Shown(pg, ts), MovesOn(ts, next)
    PROVE  Shown(pg, next)
<1>1. pg.seen \in Seq(Sends) /\ pg.pending \in Sends \cup {Nil}
  BY DEF Pages
<1>2. \A i \in DOMAIN pg.seen : pg.seen[i] \in Sends
  BY <1>1
<1>3. pg.seen # <<>> => Len(pg.seen) \in DOMAIN pg.seen
  BY <1>1
<1>4. \A i \in DOMAIN pg.seen : next[pg.seen[i]].stage = "answered"
  BY <1>2 DEF Shown, MovesOn
<1>5. \A i, j \in DOMAIN pg.seen :
          i < j /\ next[pg.seen[i]].of = next[pg.seen[j]].of =>
              next[pg.seen[i]].number < next[pg.seen[j]].number
  BY <1>2 DEF Shown, MovesOn
<1>6. pg.pending # Nil /\ next[pg.pending].number > 0 =>
          \A i \in DOMAIN pg.seen :
              next[pg.seen[i]].of = next[pg.pending].of =>
                  next[pg.seen[i]].number < next[pg.pending].number
  BY <1>1, <1>2 DEF Shown, MovesOn
<1>7. pg.seen # <<>> => pg.applied = next[pg.seen[Len(pg.seen)]].under
  BY <1>2, <1>3 DEF Shown, MovesOn
<1> QED
  BY <1>4, <1>5, <1>6, <1>7 DEF Shown

\* A step of the page, or of its calls.
LEMMA PageMoves ==
    ASSUME PilotAssumption, Piloted, UNCHANGED <<turns, lock, shelf>>,
           Change \/ Trouble \/ Calm,
           stored' \in Stored, Grows(stored, stored'),
           page' \in Pages, requests' \in Requests, key' \in BOOLEAN, limits' \in Boundaries,
           GateTrue(page', requests', key', stored'), Shown(page', turns)
    PROVE  Piloted'
<1>1. Counts'
  BY Numbered DEF Piloted, PilotTypeOK, Counts
<1>2. LetIn(turns, stored')
  BY LetInStays DEF Piloted
<1>3. PilotTypeOK'
  BY <1>1 DEF Piloted, PilotTypeOK, Pages, Requests, Counts
<1> QED
  BY <1>2, <1>3 DEF Piloted

\* What holds of the parts, taken apart.
LEMMA Parts ==
    ASSUME Piloted
    PROVE  /\ stored \in Stored /\ page \in Pages /\ requests \in Requests
           /\ key \in BOOLEAN /\ limits \in Boundaries /\ Counts
           /\ shelf \in [Chronicles -> Shelves] /\ turns \in [Sends -> Turn]
           /\ lock \in [Chronicles -> Sends \cup {Nil}]
           /\ GateTrue(page, requests, key, stored) /\ Shown(page, turns)
           /\ LetIn(turns, stored) /\ Played(turns, lock, shelf)
           /\ Grows(stored, stored)
  BY CreatedGrows DEF Piloted, PilotTypeOK, Pages, Requests, Shelves, Counts

\* The calls about the connection, and what other pages change
LEMMA CallSteps ==
    ASSUME PilotAssumption, Piloted,
           ReadConnection \/ ShowConnection \/ PutConnection \/ SaveElsewhere \/ SaveAnswered
           \/ ProbeModel \/ SetLimits
    PROVE  Piloted'
<1>0. /\ stored \in Stored /\ page \in Pages /\ requests \in Requests
      /\ key \in BOOLEAN /\ limits \in Boundaries
      /\ GateTrue(page, requests, key, stored) /\ Shown(page, turns) /\ Grows(stored, stored)
  BY Parts
<1>1. CASE ReadConnection
  <2> DEFINE v == View(Created)
             q == [requests EXCEPT !.get = v]
  <2>1. v \in {"unset", "foreign", "live"} /\ CurrentRow(v, Created) /\ Created \in Stored /\ Grows(stored, Created)
    BY <1>0, CreatedGrows
  <2>2. requests' = q /\ stored' = Created /\ page' = page /\ key' = key /\ limits' = limits
        /\ UNCHANGED <<turns, lock, shelf>> /\ Calm
    BY <1>1 DEF ReadConnection
  <2> HIDE DEF v
  <2>3. q \in Requests /\ q.get = v /\ q.put = requests.put
    BY <1>0, <2>1 DEF Requests
  <2> HIDE DEF q
  <2>4. GateTrue(page, requests, key, Created)
    BY <1>0, <2>1, GateStays
  <2>5. GateTrue(page, q, key, Created)
    BY <2>1, <2>3, <2>4 DEF GateTrue
  <2> QED
    BY <1>0, <2>1, <2>2, <2>3, <2>5, PageMoves
<1>2. CASE ShowConnection
  <2> DEFINE q == [requests EXCEPT !.get = "none"]
             g == [page EXCEPT !.provider = requests.get]
  <2>1. requests' = q /\ page' = g /\ stored' = stored /\ key' = key /\ limits' = limits
        /\ UNCHANGED <<turns, lock, shelf>> /\ Calm /\ requests.get \notin {"none", "asked"}
    BY <1>2 DEF ShowConnection
  <2>2. q \in Requests /\ q.get = "none" /\ q.put = requests.put
    BY <1>0 DEF Requests
  <2>3. requests.get \in {"unset", "foreign", "live"}
    BY <1>0, <2>1 DEF Requests
  <2>4. /\ g \in Pages /\ g.provider = requests.get /\ g.keyStored = page.keyStored
        /\ g.verdict = page.verdict /\ g.seen = page.seen /\ g.applied = page.applied
        /\ g.pending = page.pending
    BY <1>0, <2>3 DEF Pages
  <2> HIDE DEF q, g
  <2>5. GateTrue(g, q, key, stored)
    BY <1>0, <2>2, <2>4 DEF GateTrue, CurrentRow
  <2>6. Shown(g, turns)
    BY <1>0, <2>4, ShownFrame
  <2> QED
    BY <1>0, <2>1, <2>2, <2>4, <2>5, <2>6, PageMoves
<1>3. CASE PutConnection
  <2>1. page' = page /\ key' = key /\ limits' = limits
        /\ UNCHANGED <<turns, lock, shelf>> /\ Calm
    BY <1>3 DEF PutConnection
  <2>2. CASE stored' = "live" /\ requests' = [requests EXCEPT !.put = "live"]
    <3> DEFINE q == [requests EXCEPT !.put = "live"]
    <3>1. q \in Requests /\ q.put = "live" /\ q.get = requests.get
      BY <1>0 DEF Requests, Stored
    <3>2. requests' = q
      BY <2>2
    <3> HIDE DEF q
    <3>3. Grows(stored, "live") /\ "live" \in Stored
      BY <1>0, CreatedGrows
    <3>4. GateTrue(page, requests, key, "live")
      BY <1>0, <3>3, GateStays
    <3>5. GateTrue(page, q, key, "live")
      BY <3>1, <3>4 DEF GateTrue
    <3> QED
      BY <1>0, <2>1, <2>2, <3>1, <3>2, <3>3, <3>5, PageMoves
  <2>3. CASE stored' = Created /\ requests' = [requests EXCEPT !.put = "refused"]
    <3> DEFINE q == [requests EXCEPT !.put = "refused"]
    <3>1. q \in Requests /\ q.put = "refused" /\ q.get = requests.get
      BY <1>0 DEF Requests
    <3>2. requests' = q
      BY <2>3
    <3> HIDE DEF q
    <3>3. Grows(stored, Created) /\ Created \in Stored
      BY <1>0, CreatedGrows
    <3>4. GateTrue(page, requests, key, Created)
      BY <1>0, <3>3, GateStays
    <3>5. GateTrue(page, q, key, Created)
      BY <3>1, <3>4 DEF GateTrue
    <3> QED
      BY <1>0, <2>1, <2>3, <3>1, <3>2, <3>3, <3>5, PageMoves
  <2> QED
    BY <1>3, <2>2, <2>3 DEF PutConnection, Offered
<1>4. CASE SaveElsewhere
  <2>1. page' = page /\ key' = key /\ limits' = limits /\ requests' = requests /\ stored' = "live"
        /\ UNCHANGED <<turns, lock, shelf>> /\ Change
    BY <1>4 DEF SaveElsewhere, Offered
  <2>2. Grows(stored, "live") /\ "live" \in Stored
    BY <1>0, CreatedGrows
  <2>3. GateTrue(page, requests, key, "live")
    BY <1>0, <2>2, GateStays
  <2> QED
    BY <1>0, <2>1, <2>2, <2>3, PageMoves
<1>5. CASE SaveAnswered
  <2>1. stored' = stored /\ key' = key /\ limits' = limits
        /\ UNCHANGED <<turns, lock, shelf>> /\ Calm
    BY <1>5 DEF SaveAnswered
  <2>2. CASE /\ requests.put \notin {"none", "asked", "refused"}
             /\ page' = [page EXCEPT !.provider = requests.put, !.needed = FALSE]
             /\ requests' = [requests EXCEPT !.put = "none"]
    <3> DEFINE q == [requests EXCEPT !.put = "none"]
               g == [page EXCEPT !.provider = "live", !.needed = FALSE]
    <3>1. requests.put = "live" /\ stored = "live"
      BY <1>0, <2>2 DEF GateTrue
    <3>2. requests' = q /\ page' = g
      BY <2>2, <3>1
    <3>3. q \in Requests /\ q.put = "none" /\ q.get = requests.get
      BY <1>0 DEF Requests
    <3>4. /\ g \in Pages /\ g.provider = "live" /\ g.keyStored = page.keyStored
          /\ g.verdict = page.verdict /\ g.seen = page.seen /\ g.applied = page.applied
          /\ g.pending = page.pending
      BY <1>0 DEF Pages
    <3> HIDE DEF q, g
    <3>5. GateTrue(g, q, key, stored)
      BY <1>0, <3>1, <3>3, <3>4 DEF GateTrue, CurrentRow
    <3>6. Shown(g, turns)
      BY <1>0, <3>4, ShownFrame
    <3> QED
      BY <1>0, <2>1, <3>2, <3>3, <3>4, <3>5, <3>6, PageMoves
  <2>3. CASE requests' = [requests EXCEPT !.put = "none", !.probe = "none"] /\ page' = page
    <3> DEFINE q == [requests EXCEPT !.put = "none", !.probe = "none"]
    <3>1. q \in Requests /\ q.put = "none" /\ q.get = requests.get
      BY <1>0 DEF Requests
    <3>2. requests' = q
      BY <2>3
    <3> HIDE DEF q
    <3>3. GateTrue(page, q, key, stored)
      BY <1>0, <3>1 DEF GateTrue
    <3> QED
      BY <1>0, <2>1, <2>3, <3>1, <3>2, <3>3, PageMoves
  <2> QED
    BY <1>5, <2>2, <2>3 DEF SaveAnswered
<1>6. CASE ProbeModel
  <2> DEFINE q == [requests EXCEPT !.probe = "none"]
  <2>1. /\ requests' = q /\ stored' = stored /\ key' = key /\ limits' = limits
        /\ UNCHANGED <<turns, lock, shelf>> /\ Calm
    BY <1>6 DEF ProbeModel
  <2>2. q \in Requests /\ q.put = requests.put /\ q.get = requests.get
    BY <1>0 DEF Requests
  <2>3. PICK verdict \in CanaryVerdicts(requests.probe = "typed" \/ key) : page' = [page EXCEPT !.verdict = verdict]
    BY <1>6 DEF ProbeModel
  <2>4. /\ verdict \in {"none", "connect", "unsupported", "reachable", "unreachable"}
        /\ verdict = "reachable" => stored = "live"
    BY <1>0 DEF CanaryVerdicts, View, Stored
  <2> DEFINE g == [page EXCEPT !.verdict = verdict]
  <2>5. /\ g \in Pages /\ g.provider = page.provider /\ g.keyStored = page.keyStored
        /\ g.verdict = verdict /\ g.seen = page.seen /\ g.applied = page.applied
        /\ g.pending = page.pending
    BY <1>0, <2>4 DEF Pages
  <2>6. page' = g
    BY <2>3
  <2> HIDE DEF q, g
  <2>7. GateTrue(g, q, key, stored)
    BY <1>0, <2>2, <2>4, <2>5 DEF GateTrue
  <2>8. Shown(g, turns)
    BY <1>0, <2>5, ShownFrame
  <2> QED
    BY <1>0, <2>1, <2>2, <2>5, <2>6, <2>7, <2>8, PageMoves
<1>7. CASE SetLimits
  <2>1. page' = page /\ key' = key /\ requests' = requests /\ stored' = stored /\ limits' \in Boundaries
        /\ UNCHANGED <<turns, lock, shelf>> /\ Change
    BY <1>7 DEF SetLimits
  <2> QED
    BY <1>0, <2>1, PageMoves
<1> QED
  BY <1>1, <1>2, <1>3, <1>4, <1>5, <1>6, <1>7
\* What the player does at the connection, and the turns a page gives up on
LEMMA PageSteps ==
    ASSUME PilotAssumption, Piloted,
           SavePrefs \/ ClearKey \/ OpenTale \/ SentBack \/ Stumble \/ LoseAnswer \/ Reload
    PROVE  Piloted'
<1>0. /\ stored \in Stored /\ page \in Pages /\ requests \in Requests
      /\ key \in BOOLEAN /\ limits \in Boundaries
      /\ GateTrue(page, requests, key, stored) /\ Shown(page, turns) /\ Grows(stored, stored)
  BY Parts
<1>1. CASE SavePrefs
  <2>1. PICK typed \in BOOLEAN, test \in BOOLEAN :
         /\ key' = (key \/ typed)
         /\ page' = [page EXCEPT !.keyStored = key', !.verdict = IF test THEN "none" ELSE @]
         /\ requests' = [requests EXCEPT !.put = "asked",
                                   !.probe = IF ~test THEN "none" ELSE IF typed THEN "typed" ELSE "kept"]
    BY <1>1 DEF SavePrefs
  <2> DEFINE carried == IF ~test THEN "none" ELSE IF typed THEN "typed" ELSE "kept"
             q == [requests EXCEPT !.put = "asked", !.probe = carried]
             told == IF test THEN "none" ELSE page.verdict
             g == [page EXCEPT !.keyStored = key', !.verdict = told]
  <2>2. requests' = q /\ page' = g /\ key' \in BOOLEAN
    BY <1>0, <2>1
  <2>3. carried \in {"none", "kept", "typed"}
    OBVIOUS
  <2>4. told \in {"none", "connect", "unsupported", "reachable", "unreachable"}
        /\ (told = "reachable" => page.verdict = "reachable")
    BY <1>0 DEF Pages
  <2>5. stored' = stored /\ limits' = limits /\ UNCHANGED <<turns, lock, shelf>> /\ Change
    BY <1>1 DEF SavePrefs
  <2> HIDE DEF carried, told
  <2>6. q \in Requests /\ q.put = "asked" /\ q.get = requests.get
    BY <1>0, <2>3 DEF Requests
  <2>7. /\ g \in Pages /\ g.provider = page.provider /\ (g.keyStored <=> key')
        /\ g.verdict = told /\ g.seen = page.seen /\ g.applied = page.applied
        /\ g.pending = page.pending
    BY <1>0, <2>2, <2>4 DEF Pages
  <2> HIDE DEF q, g
  <2>8. GateTrue(g, q, key', stored)
    BY <1>0, <2>4, <2>6, <2>7 DEF GateTrue
  <2>9. Shown(g, turns)
    BY <1>0, <2>7, ShownFrame
  <2> QED
    BY <1>0, <2>2, <2>5, <2>6, <2>7, <2>8, <2>9, PageMoves
<1>2. CASE ClearKey
  <2> DEFINE g == [page EXCEPT !.keyStored = FALSE, !.verdict = "none"]
  <2>1. /\ page' = g /\ key' = FALSE /\ requests' = requests /\ stored' = stored /\ limits' = limits
        /\ UNCHANGED <<turns, lock, shelf>> /\ Change
    BY <1>2 DEF ClearKey
  <2>2. /\ g \in Pages /\ g.provider = page.provider /\ ~g.keyStored
        /\ g.verdict = "none" /\ g.seen = page.seen /\ g.applied = page.applied
        /\ g.pending = page.pending
    BY <1>0 DEF Pages
  <2> HIDE DEF g
  <2>3. GateTrue(g, requests, FALSE, stored)
    BY <1>0, <2>2 DEF GateTrue
  <2>4. Shown(g, turns)
    BY <1>0, <2>2, ShownFrame
  <2> QED
    BY <1>0, <2>1, <2>2, <2>3, <2>4, PageMoves
<1>3. CASE OpenTale
  <2>1. PICK c \in Chronicles : page' = Opened(c)
    BY <1>3 DEF OpenTale
  <2>2. /\ key' = key /\ requests' = requests /\ stored' = stored /\ limits' = limits
        /\ UNCHANGED <<turns, lock, shelf>> /\ Calm
    BY <1>3 DEF OpenTale
  <2> DEFINE none == <<>>
             g == [page EXCEPT !.open = c, !.seen = none, !.failed = FALSE, !.applied = Nil]
  <2>3. none \in Seq(Sends) /\ none = <<>>
    OBVIOUS
  <2>6. page' = g
    BY <2>1 DEF Opened
  <2> HIDE DEF none
  <2>7. g \in Pages /\ g.seen = none /\ g.provider = page.provider
        /\ g.keyStored = page.keyStored /\ g.verdict = page.verdict
    BY <1>0, <2>3 DEF Pages
  <2> HIDE DEF g
  <2>4. GateTrue(g, requests, key, stored)
    BY <1>0, <2>7 DEF GateTrue
  <2>5. Shown(g, turns)
    BY <2>3, <2>7, ShownClear
  <2> QED
    BY <1>0, <2>2, <2>4, <2>5, <2>6, <2>7, PageMoves
<1>4. CASE SentBack
  <2> DEFINE g == [page EXCEPT !.pending = Nil, !.needed = TRUE]
  <2>1. /\ page' = g /\ key' = key /\ requests' = requests /\ stored' = stored /\ limits' = limits
        /\ UNCHANGED <<turns, lock, shelf>> /\ Calm
    BY <1>4 DEF SentBack
  <2>2. /\ g \in Pages /\ g.provider = page.provider /\ g.keyStored = page.keyStored
        /\ g.verdict = page.verdict /\ g.seen = page.seen /\ g.applied = page.applied
        /\ g.pending = Nil
    BY <1>0 DEF Pages
  <2> HIDE DEF g
  <2>3. GateTrue(g, requests, key, stored)
    BY <1>0, <2>2 DEF GateTrue
  <2>4. Shown(g, turns)
    BY <1>0, <2>2, ShownFrame
  <2> QED
    BY <1>0, <2>1, <2>2, <2>3, <2>4, PageMoves
<1>5. CASE Stumble \/ LoseAnswer
  <2> DEFINE g == Stumbled
  <2>1. /\ page' = g /\ key' = key /\ requests' = requests /\ stored' = stored /\ limits' = limits
        /\ UNCHANGED <<turns, lock, shelf>> /\ (Change \/ Trouble \/ Calm)
    BY <1>5 DEF Stumble, LoseAnswer
  <2>2. /\ g \in Pages /\ g.provider = page.provider /\ g.keyStored = page.keyStored
        /\ g.verdict = page.verdict /\ g.seen = page.seen /\ g.applied = page.applied
        /\ g.pending = Nil
    BY <1>0 DEF Pages, Stumbled
  <2> HIDE DEF g
  <2>3. GateTrue(g, requests, key, stored)
    BY <1>0, <2>2 DEF GateTrue
  <2>4. Shown(g, turns)
    BY <1>0, <2>2, ShownFrame
  <2> QED
    BY <1>0, <2>1, <2>2, <2>3, <2>4, PageMoves
<1>6. CASE Reload
  <2> DEFINE g == Mounted
             q == [get |-> "asked", put |-> "none", probe |-> "none"]
  <2>1. /\ page' = g /\ key' = key /\ requests' = q /\ stored' = stored /\ limits' = limits
        /\ UNCHANGED <<turns, lock, shelf>> /\ Trouble
    BY <1>6 DEF Reload
  <2>2. /\ g \in Pages /\ g.provider = "unread" /\ g.keyStored = key
        /\ g.verdict = "none" /\ g.seen = <<>>
    BY <1>0 DEF Pages, Mounted
  <2>3. q \in Requests /\ q.get = "asked" /\ q.put = "none"
    BY DEF Requests
  <2> HIDE DEF g, q
  <2>4. GateTrue(g, q, key, stored)
    BY <1>0, <2>2, <2>3 DEF GateTrue, CurrentRow
  <2>5. Shown(g, turns)
    BY <2>2, ShownClear
  <2> QED
    BY <1>0, <2>1, <2>2, <2>3, <2>4, <2>5, PageMoves
<1> QED
  BY <1>1, <1>2, <1>3, <1>4, <1>5, <1>6

\* The answer that is shown: its turn comes after those that are.
LEMMA TurnTells ==
    ASSUME PilotAssumption, Piloted, TurnTold
    PROVE  Piloted'
<1>0. /\ stored \in Stored /\ page \in Pages /\ requests \in Requests
      /\ key \in BOOLEAN /\ limits \in Boundaries
      /\ GateTrue(page, requests, key, stored) /\ Shown(page, turns) /\ Grows(stored, stored)
      /\ Played(turns, lock, shelf) /\ shelf \in [Chronicles -> Shelves] /\ turns \in [Sends -> Turn]
  BY Parts
<1> DEFINE r == page.pending
           new == Append(page.seen, r)
           g == [page EXCEPT !.pending = Nil, !.seen = new, !.applied = turns[r].under]
<1>1. /\ r # Nil /\ turns[r].stage = "answered" /\ page' = g
      /\ stored' = stored /\ requests' = requests /\ key' = key /\ limits' = limits
      /\ UNCHANGED <<turns, lock, shelf>> /\ Calm
  BY DEF TurnTold
<1>2. page.seen \in Seq(Sends) /\ r \in Sends
  BY <1>0, <1>1 DEF Pages
<1>3. turns[r].of \in Chronicles /\ turns[r].number \in DOMAIN shelf[turns[r].of].told
  BY <1>0, <1>1, <1>2 DEF Played
<1>4. turns[r].number > 0
  <2>1. shelf[turns[r].of].told \in Seq(Sends)
    BY <1>0, <1>3 DEF Shelves
  <2> QED
    BY <1>3, <2>1
<1>5. /\ new \in Seq(Sends) /\ Len(new) = Len(page.seen) + 1 /\ new[Len(new)] = r /\ new # <<>>
      /\ DOMAIN new = 1..Len(page.seen) + 1 /\ DOMAIN page.seen = 1..Len(page.seen)
      /\ \A i \in DOMAIN page.seen : new[i] = page.seen[i]
      /\ Len(page.seen) \in Nat
  BY <1>2
<1>6. turns[r].under \in Boundaries \cup {Nil}
  BY <1>0, <1>2 DEF Turn
<1> HIDE DEF new
<1>7. /\ g \in Pages /\ g.provider = page.provider /\ g.keyStored = page.keyStored
      /\ g.verdict = page.verdict /\ g.seen = new /\ g.applied = turns[r].under /\ g.pending = Nil
  BY <1>0, <1>5, <1>6 DEF Pages
<1> HIDE DEF g
<1>8. GateTrue(g, requests, key, stored)
  BY <1>0, <1>7 DEF GateTrue
<1>9. Shown(g, turns)
  <2>1. \A i \in DOMAIN new : turns[new[i]].stage = "answered"
    BY <1>0, <1>1, <1>5, SMTT(30) DEF Shown
  <2>2. ASSUME NEW i \in DOMAIN new, NEW j \in DOMAIN new, i < j,
               turns[new[i]].of = turns[new[j]].of
        PROVE  turns[new[i]].number < turns[new[j]].number
    <3>1. i \in DOMAIN page.seen /\ new[i] = page.seen[i]
      BY <1>5, <2>2
    <3>2. CASE j \in DOMAIN page.seen
      <4>1. new[j] = page.seen[j]
        BY <1>5, <3>2
      <4> QED
        BY <1>0, <2>2, <3>1, <3>2, <4>1 DEF Shown
    <3>3. CASE j \notin DOMAIN page.seen
      <4>1. new[j] = r
        BY <1>5, <3>3
      <4> QED
        BY <1>0, <1>1, <1>4, <2>2, <3>1, <4>1 DEF Shown
    <3> QED
      BY <3>2, <3>3
  <2> QED
    BY <1>5, <1>7, <2>1, <2>2 DEF Shown
<1> QED
  BY <1>0, <1>1, <1>7, <1>8, <1>9, PageMoves
\* A step of a turn: the page and its calls stay as they are.
LEMMA TurnStep ==
    ASSUME PilotAssumption, Piloted, UNCHANGED <<requests, page, key, limits>>,
           Change \/ Trouble \/ Calm,
           stored' \in Stored, Grows(stored, stored'),
           turns' \in [Sends -> Turn], shelf' \in [Chronicles -> Shelves],
           lock' \in [Chronicles -> Sends \cup {Nil}],
           LetIn(turns', stored'), Played(turns', lock', shelf'), Shown(page, turns')
    PROVE  Piloted'
<1>1. Counts'
  BY Numbered DEF Piloted, PilotTypeOK, Counts
<1>2. GateTrue(page, requests, key, stored')
  BY GateStays DEF Piloted
<1>3. PilotTypeOK'
  BY <1>1 DEF Piloted, PilotTypeOK, Shelves, Counts
<1> QED
  BY <1>2, <1>3 DEF Piloted

\* The stages of a turn.
TurnStages == {"none", "sent", "queued", "playing", "told", "answered", "keyless", "failed", "dropped"}

\* One turn moves on.
LEMMA Proceeds ==
    ASSUME NEW ts \in [Sends -> Turn], NEW r \in Sends, NEW x \in TurnStages
    PROVE  LET next == [ts EXCEPT ![r].stage = x]
           IN  /\ next \in [Sends -> Turn]
               /\ next[r].stage = x
               /\ \A s \in Sends : /\ next[s].of = ts[s].of /\ next[s].under = ts[s].under
                                   /\ next[s].number = ts[s].number /\ next[s].keyed = ts[s].keyed
               /\ \A s \in Sends \ {r} : next[s] = ts[s]
<1>1. ts[r] \in Turn
  OBVIOUS
<1> DEFINE t == [ts[r] EXCEPT !.stage = x]
<1>2. /\ t \in Turn /\ t.stage = x /\ t.of = ts[r].of /\ t.under = ts[r].under
      /\ t.number = ts[r].number /\ t.keyed = ts[r].keyed
  BY <1>1 DEF Turn, TurnStages
<1> HIDE DEF t
<1>3. [ts EXCEPT ![r].stage = x] = [ts EXCEPT ![r] = t]
  BY DEF t
<1> QED
  BY <1>2, <1>3

\* The player sends.
LEMMA SendStep ==
    ASSUME PilotAssumption, Piloted, Send
    PROVE  Piloted'
<1>0. /\ stored \in Stored /\ page \in Pages /\ requests \in Requests
      /\ key \in BOOLEAN /\ limits \in Boundaries /\ Counts
      /\ GateTrue(page, requests, key, stored) /\ Shown(page, turns) /\ LetIn(turns, stored)
      /\ Played(turns, lock, shelf) /\ turns \in [Sends -> Turn]
  BY Parts
<1> DEFINE fresh == [stage |-> "sent", of |-> page.open, keyed |-> key, under |-> limits, number |-> 0]
<1>1. PICK r \in Sends :
         /\ turns[r].stage = "none"
         /\ turns' = [turns EXCEPT ![r] = fresh]
         /\ page' = [page EXCEPT !.pending = r, !.failed = FALSE]
  BY DEF Send
<1>2. page.open \in Chronicles
  BY <1>0 DEF Send, MaySend, Pages
<1>3. fresh \in Turn /\ fresh.stage = "sent" /\ fresh.of \in Chronicles /\ fresh.number = 0
  BY <1>0, <1>2 DEF Turn
<1> HIDE DEF fresh
<1> DEFINE next == [turns EXCEPT ![r] = fresh]
           g == [page EXCEPT !.pending = r, !.failed = FALSE]
<1>4. turns' = next /\ page' = g
  BY <1>1
<1>5. next \in [Sends -> Turn] /\ next[r] = fresh /\ \A s \in Sends \ {r} : next[s] = turns[s]
  BY <1>0, <1>3
<1>6. /\ g \in Pages /\ g.provider = page.provider /\ g.keyStored = page.keyStored
      /\ g.verdict = page.verdict /\ g.seen = page.seen /\ g.applied = page.applied
      /\ g.pending = r
  BY <1>0 DEF Pages
<1>7. UNCHANGED <<stored, shelf, lock, requests, key, limits>> /\ Calm
  BY DEF Send
<1> HIDE DEF next, g
<1>8. GateTrue(g, requests, key, stored)
  BY <1>0, <1>6 DEF GateTrue
<1>9. LetIn(next, stored)
  BY <1>0, <1>3, <1>5 DEF LetIn
<1>10. Played(next, lock, shelf)
  <2>1. ASSUME NEW s \in Sends
        PROVE  /\ next[s].stage # "none" => next[s].of \in Chronicles
               /\ next[s].stage = "playing" =>
                    lock[next[s].of] = s /\ next[s].number = Len(shelf[next[s].of].told) + 1
               /\ next[s].stage \in {"told", "answered"} =>
                    /\ next[s].number \in DOMAIN shelf[next[s].of].told
                    /\ shelf[next[s].of].told[next[s].number] = s
    <3>1. CASE s = r
      BY <1>3, <1>5, <3>1
    <3>2. CASE s # r
      BY <1>0, <1>5, <3>2 DEF Played
    <3> QED
      BY <3>1, <3>2
  <2> QED
    BY <2>1 DEF Played
<1>11. Shown(g, next)
  <2>1. page.seen \in Seq(Sends)
    BY <1>0 DEF Pages
  <2>2. \A i \in DOMAIN page.seen : page.seen[i] \in Sends /\ page.seen[i] # r
    BY <1>0, <1>1, <2>1 DEF Shown
  <2>3. \A i \in DOMAIN page.seen : next[page.seen[i]] = turns[page.seen[i]]
    BY <1>5, <2>2
  <2>4. page.seen # <<>> => Len(page.seen) \in DOMAIN page.seen
    BY <2>1
  <2>5. page.seen # <<>> => page.applied = next[page.seen[Len(page.seen)]].under
    BY <1>0, <2>3, <2>4 DEF Shown
  <2>6. /\ \A i \in DOMAIN page.seen : next[page.seen[i]].stage = "answered"
        /\ \A i, j \in DOMAIN page.seen :
              i < j /\ next[page.seen[i]].of = next[page.seen[j]].of =>
                  next[page.seen[i]].number < next[page.seen[j]].number
    BY <1>0, <2>3 DEF Shown
  <2> QED
    BY <1>3, <1>5, <1>6, <2>5, <2>6 DEF Shown
<1>12. Counts'
  BY <1>0, <1>7, Numbered
<1>13. PilotTypeOK'
  BY <1>4, <1>5, <1>6, <1>7, <1>12 DEF Piloted, PilotTypeOK, Pages, Counts
<1> QED
  BY <1>4, <1>7, <1>8, <1>9, <1>10, <1>11, <1>13 DEF Piloted

\* take_turn up to the lock
LEMMA ArriveStep ==
    ASSUME PilotAssumption, Piloted, NEW r \in Sends, Arrive(r)
    PROVE  Piloted'
<1>0. /\ stored \in Stored /\ page \in Pages
      /\ Shown(page, turns) /\ LetIn(turns, stored) /\ Played(turns, lock, shelf)
      /\ turns \in [Sends -> Turn] /\ shelf \in [Chronicles -> Shelves]
      /\ lock \in [Chronicles -> Sends \cup {Nil}]
  BY Parts
<1> DEFINE x == Resolved(turns[r])
           next == [turns EXCEPT ![r].stage = x]
<1>1. turns[r].stage = "sent" /\ stored' = Created /\ turns' = next /\ Calm
      /\ UNCHANGED <<shelf, lock, requests, page, key, limits>>
  BY DEF Arrive
<1>2. x \in {"keyless", "failed", "queued"}
  BY DEF Resolved
<1>3. x = "queued" => turns[r].keyed /\ Created = "live"
  BY <1>0 DEF Resolved, View, Created, Stored
<1> HIDE DEF x
<1>4. x \in TurnStages
  BY <1>2 DEF TurnStages
<1>5. /\ next \in [Sends -> Turn] /\ next[r].stage = x
      /\ \A s \in Sends : /\ next[s].of = turns[s].of /\ next[s].under = turns[s].under
                          /\ next[s].number = turns[s].number /\ next[s].keyed = turns[s].keyed
      /\ \A s \in Sends \ {r} : next[s] = turns[s]
  BY <1>0, <1>4, Proceeds
<1> HIDE DEF next
<1>6. Created \in Stored /\ Grows(stored, Created)
  BY <1>0, CreatedGrows
<1>7. LetIn(next, Created)
  <2>1. LetIn(turns, Created)
    BY <1>0, <1>6, LetInStays
  <2> QED
    BY <1>2, <1>3, <1>5, <2>1 DEF LetIn
<1>8. Played(next, lock, shelf)
  BY <1>0, <1>1, <1>2, <1>5 DEF Played
<1>9. Shown(page, next)
  <2>1. MovesOn(turns, next)
    BY <1>1, <1>5 DEF MovesOn
  <2> QED
    BY <1>0, <2>1, ShownKept
<1> QED
  BY <1>0, <1>1, <1>5, <1>6, <1>7, <1>8, <1>9, TurnStep
\* The lock is taken and the turn numbered: it comes after every turn that was
\* told of its chronicle.
LEMMA BeginStep ==
    ASSUME PilotAssumption, Piloted, NEW r \in Sends, Begin(r)
    PROVE  Piloted'
<1>0. /\ stored \in Stored /\ page \in Pages /\ Grows(stored, stored)
      /\ Shown(page, turns) /\ LetIn(turns, stored) /\ Played(turns, lock, shelf)
      /\ turns \in [Sends -> Turn] /\ shelf \in [Chronicles -> Shelves]
      /\ lock \in [Chronicles -> Sends \cup {Nil}]
  BY Parts
<1> DEFINE c == turns[r].of
           n == Len(shelf[c].told) + 1
           t == [turns[r] EXCEPT !.stage = "playing", !.number = n]
           next == [turns EXCEPT ![r] = t]
           sh == [shelf[c] EXCEPT !.seeded = TRUE]
           rows == [shelf EXCEPT ![c] = sh]
           held == [lock EXCEPT ![c] = r]
<1>1. /\ turns[r].stage = "queued" /\ lock[c] = Nil /\ lock' = held
      /\ shelf' = [shelf EXCEPT ![c].seeded = TRUE]
      /\ turns' = [turns EXCEPT ![r].stage = "playing", ![r].number = n]
      /\ UNCHANGED <<stored, requests, page, key, limits>> /\ Calm
  BY DEF Begin, LockFree
<1>2. shelf' = rows
  BY <1>1
<1>3. turns' = next
  BY <1>0, <1>1
<1>4. c \in Chronicles
  BY <1>0, <1>1 DEF Played
<1>5. shelf[c] \in Shelves /\ shelf[c].told \in Seq(Sends) /\ n \in Nat
      /\ DOMAIN shelf[c].told = 1..n - 1
  BY <1>0, <1>4 DEF Shelves
<1>6. turns[r] \in Turn
  BY <1>0
<1> HIDE DEF n
<1>7. /\ t \in Turn /\ t.stage = "playing" /\ t.number = n /\ t.of = c /\ t.under = turns[r].under
      /\ t.keyed = turns[r].keyed
  BY <1>5, <1>6 DEF Turn
<1>8. sh \in Shelves /\ sh.told = shelf[c].told
  BY <1>5 DEF Shelves
<1> HIDE DEF t, sh
<1>9. next \in [Sends -> Turn] /\ next[r] = t /\ \A s \in Sends \ {r} : next[s] = turns[s]
  BY <1>0, <1>7
<1>10. /\ rows \in [Chronicles -> Shelves]
       /\ \A d \in Chronicles : rows[d].told = shelf[d].told
  BY <1>0, <1>4, <1>8
<1>11. /\ held \in [Chronicles -> Sends \cup {Nil}] /\ held[c] = r
       /\ \A d \in Chronicles \ {c} : held[d] = lock[d]
  BY <1>0, <1>4
<1> HIDE DEF next, rows, held
<1>12. LetIn(next, stored)
  BY <1>0, <1>1, <1>7, <1>9 DEF LetIn
<1>13. Played(next, held, rows)
  <2>1. ASSUME NEW s \in Sends
        PROVE  /\ next[s].stage # "none" => next[s].of \in Chronicles
               /\ next[s].stage = "playing" =>
                    held[next[s].of] = s /\ next[s].number = Len(rows[next[s].of].told) + 1
               /\ next[s].stage \in {"told", "answered"} =>
                    /\ next[s].number \in DOMAIN rows[next[s].of].told
                    /\ rows[next[s].of].told[next[s].number] = s
    <3>1. CASE s = r
      BY <1>4, <1>7, <1>9, <1>10, <1>11, <3>1 DEF n
    <3>2. CASE s # r
      <4>1. next[s] = turns[s]
        BY <1>9, <3>2
      <4>2. turns[s].stage = "playing" => turns[s].of # c
        BY <1>0, <1>1 DEF Played, PilotAssumption
      <4> QED
        BY <1>0, <1>10, <1>11, <4>1, <4>2 DEF Played
    <3> QED
      BY <3>1, <3>2
  <2> QED
    BY <2>1 DEF Played
<1>14. Shown(page, next)
  <2>1. page.seen \in Seq(Sends) /\ page.pending \in Sends \cup {Nil}
    BY <1>0 DEF Pages
  <2>2. \A i \in DOMAIN page.seen :
            page.seen[i] \in Sends /\ page.seen[i] # r /\ turns[page.seen[i]].stage = "answered"
    BY <1>0, <1>1, <2>1 DEF Shown
  <2>3. \A i \in DOMAIN page.seen : next[page.seen[i]] = turns[page.seen[i]]
    BY <1>9, <2>2
  <2>4. page.seen # <<>> => Len(page.seen) \in DOMAIN page.seen
    BY <2>1
  <2>5. page.seen # <<>> => page.applied = next[page.seen[Len(page.seen)]].under
    BY <1>0, <2>3, <2>4 DEF Shown
  <2>6. /\ \A i \in DOMAIN page.seen : next[page.seen[i]].stage = "answered"
        /\ \A i, j \in DOMAIN page.seen :
              i < j /\ next[page.seen[i]].of = next[page.seen[j]].of =>
                  next[page.seen[i]].number < next[page.seen[j]].number
    BY <1>0, <2>3 DEF Shown
  <2>7. ASSUME page.pending # Nil, next[page.pending].number > 0, NEW i \in DOMAIN page.seen,
               next[page.seen[i]].of = next[page.pending].of
        PROVE  next[page.seen[i]].number < next[page.pending].number
    <3>1. CASE page.pending = r
      <4>1. turns[page.seen[i]].of = c
        BY <1>7, <1>9, <2>3, <2>7, <3>1
      <4>2. turns[page.seen[i]].number \in 1..n - 1
        BY <1>0, <1>5, <2>2, <4>1 DEF Played
      <4> QED
        BY <1>5, <1>7, <1>9, <2>3, <3>1, <4>2
    <3>2. CASE page.pending # r
      <4>1. next[page.pending] = turns[page.pending]
        BY <1>9, <2>1, <2>7, <3>2
      <4> QED
        BY <1>0, <2>3, <2>7, <4>1 DEF Shown
    <3> QED
      BY <3>1, <3>2
  <2> QED
    BY <2>5, <2>6, <2>7 DEF Shown
<1> QED
  BY <1>0, <1>1, <1>2, <1>3, <1>9, <1>10, <1>11, <1>12, <1>13, <1>14, TurnStep

\* A turn is told where it was numbered, or it fails.
LEMMA PlayStep ==
    ASSUME PilotAssumption, Piloted, NEW r \in Sends, Play(r)
    PROVE  Piloted'
<1>0. /\ stored \in Stored /\ page \in Pages /\ Grows(stored, stored)
      /\ Shown(page, turns) /\ LetIn(turns, stored) /\ Played(turns, lock, shelf)
      /\ turns \in [Sends -> Turn] /\ shelf \in [Chronicles -> Shelves]
      /\ lock \in [Chronicles -> Sends \cup {Nil}]
  BY Parts
<1> DEFINE c == turns[r].of
           held == [lock EXCEPT ![c] = Nil]
<1>1. /\ turns[r].stage = "playing" /\ lock' = held
      /\ UNCHANGED <<stored, requests, page, key, limits>> /\ Calm
  BY DEF Play
<1>2. c \in Chronicles /\ lock[c] = r /\ turns[r].number = Len(shelf[c].told) + 1
  BY <1>0, <1>1 DEF Played
<1>3. /\ held \in [Chronicles -> Sends \cup {Nil}]
      /\ \A d \in Chronicles \ {c} : held[d] = lock[d]
  BY <1>0, <1>2
<1>4. \A s \in Sends \ {r} : turns[s].stage = "playing" => turns[s].of # c
  BY <1>0, <1>2 DEF Played
<1> HIDE DEF held
<1>5. CASE /\ shelf' = [shelf EXCEPT ![c].told = Append(@, r)]
           /\ turns' = [turns EXCEPT ![r].stage = "told"]
  <2> DEFINE next == [turns EXCEPT ![r].stage = "told"]
             old == shelf[c].told
             new == Append(old, r)
             sh == [shelf[c] EXCEPT !.told = new]
             rows == [shelf EXCEPT ![c] = sh]
  <2>1. turns' = next /\ shelf' = rows
    BY <1>5
  <2>2. "told" \in TurnStages
    BY DEF TurnStages
  <2>3. /\ next \in [Sends -> Turn] /\ next[r].stage = "told"
        /\ \A s \in Sends : /\ next[s].of = turns[s].of /\ next[s].under = turns[s].under
                            /\ next[s].number = turns[s].number /\ next[s].keyed = turns[s].keyed
        /\ \A s \in Sends \ {r} : next[s] = turns[s]
    BY <1>0, <2>2, Proceeds
  <2>4. shelf[c] \in Shelves /\ old \in Seq(Sends)
    BY <1>0, <1>2 DEF Shelves
  <2> HIDE DEF old
  <2>5. /\ new \in Seq(Sends) /\ new[Len(old) + 1] = r /\ Len(old) + 1 \in DOMAIN new
        /\ \A i \in DOMAIN old : i \in DOMAIN new /\ new[i] = old[i]
    BY <2>4
  <2> HIDE DEF new, next
  <2>6. sh \in Shelves /\ sh.told = new
    BY <2>4, <2>5 DEF Shelves
  <2>11. old = shelf[c].told
    BY DEF old
  <2> HIDE DEF sh
  <2>7. /\ rows \in [Chronicles -> Shelves] /\ rows[c].told = new
        /\ \A d \in Chronicles \ {c} : rows[d] = shelf[d]
    BY <1>0, <1>2, <2>6
  <2> HIDE DEF rows
  <2>8. LetIn(next, stored)
    BY <1>0, <1>1, <2>3 DEF LetIn
  <2>9. Played(next, held, rows)
    <3>1. ASSUME NEW s \in Sends
          PROVE  /\ next[s].stage # "none" => next[s].of \in Chronicles
                 /\ next[s].stage = "playing" =>
                      held[next[s].of] = s /\ next[s].number = Len(rows[next[s].of].told) + 1
                 /\ next[s].stage \in {"told", "answered"} =>
                      /\ next[s].number \in DOMAIN rows[next[s].of].told
                      /\ rows[next[s].of].told[next[s].number] = s
      <4>1. CASE s = r
        BY <1>2, <2>3, <2>5, <2>7, <2>11, <4>1
      <4>2. CASE s # r
        <5>1. next[s] = turns[s]
          BY <2>3, <4>2
        <5>2. CASE turns[s].of = c
          BY <1>0, <1>4, <2>5, <2>7, <2>11, <4>2, <5>1, <5>2 DEF Played
        <5>3. CASE turns[s].of # c
          BY <1>0, <1>3, <2>7, <5>1, <5>3 DEF Played
        <5> QED
          BY <5>2, <5>3
      <4> QED
        BY <4>1, <4>2
    <3> QED
      BY <3>1 DEF Played
  <2>10. Shown(page, next)
    <3>1. MovesOn(turns, next)
      BY <1>1, <2>3 DEF MovesOn
    <3>2. page \in Pages /\ Shown(page, turns)
      BY <1>0
    <3> QED
      BY <3>1, <3>2, ShownKept
  <2>12. /\ turns' \in [Sends -> Turn] /\ shelf' \in [Chronicles -> Shelves]
         /\ lock' \in [Chronicles -> Sends \cup {Nil}]
    BY <1>1, <1>3, <2>1, <2>3, <2>7
  <2>13. LetIn(turns', stored') /\ Played(turns', lock', shelf') /\ Shown(page, turns')
    BY <1>1, <2>1, <2>8, <2>9, <2>10
  <2>14. stored' = stored /\ UNCHANGED <<requests, page, key, limits>> /\ Calm
    BY <1>1
  <2> QED
    BY <1>0, <2>12, <2>13, <2>14, TurnStep
<1>6. CASE turns' = [turns EXCEPT ![r].stage = "failed"] /\ shelf' = shelf
  <2> DEFINE next == [turns EXCEPT ![r].stage = "failed"]
  <2>1. turns' = next /\ shelf' = shelf
    BY <1>6
  <2>2. "failed" \in TurnStages
    BY DEF TurnStages
  <2>3. /\ next \in [Sends -> Turn] /\ next[r].stage = "failed"
        /\ \A s \in Sends : /\ next[s].of = turns[s].of /\ next[s].under = turns[s].under
                            /\ next[s].number = turns[s].number /\ next[s].keyed = turns[s].keyed
        /\ \A s \in Sends \ {r} : next[s] = turns[s]
    BY <1>0, <2>2, Proceeds
  <2> HIDE DEF next
  <2>4. LetIn(next, stored)
    BY <1>0, <2>3 DEF LetIn
  <2>5. Played(next, held, shelf)
    BY <1>0, <1>2, <1>3, <1>4, <2>3 DEF Played
  <2>6. Shown(page, next)
    <3>1. MovesOn(turns, next)
      BY <1>1, <2>3 DEF MovesOn
    <3>2. page \in Pages /\ Shown(page, turns)
      BY <1>0
    <3> QED
      BY <3>1, <3>2, ShownKept
  <2> QED
    BY <1>0, <1>1, <1>3, <2>1, <2>3, <2>4, <2>5, <2>6, TurnStep
<1> QED
  BY <1>5, <1>6 DEF Play

\* last_turn_at: the turn is answered.
LEMMA StampStep ==
    ASSUME PilotAssumption, Piloted, NEW r \in Sends, StampTurn(r)
    PROVE  Piloted'
<1>0. /\ stored \in Stored /\ page \in Pages /\ Grows(stored, stored)
      /\ Shown(page, turns) /\ LetIn(turns, stored) /\ Played(turns, lock, shelf)
      /\ turns \in [Sends -> Turn] /\ shelf \in [Chronicles -> Shelves]
      /\ lock \in [Chronicles -> Sends \cup {Nil}]
  BY Parts
<1> DEFINE c == turns[r].of
           next == [turns EXCEPT ![r].stage = "answered"]
           sh == [shelf[c] EXCEPT !.stamped = TRUE]
           rows == [shelf EXCEPT ![c] = sh]
<1>1. /\ turns[r].stage = "told" /\ turns' = next /\ shelf' = rows
      /\ UNCHANGED <<stored, lock, requests, page, key, limits>> /\ Calm
  BY DEF StampTurn
<1>2. c \in Chronicles
  BY <1>0, <1>1 DEF Played
<1>3. "answered" \in TurnStages
  BY DEF TurnStages
<1>4. /\ next \in [Sends -> Turn] /\ next[r].stage = "answered"
      /\ \A s \in Sends : /\ next[s].of = turns[s].of /\ next[s].under = turns[s].under
                          /\ next[s].number = turns[s].number /\ next[s].keyed = turns[s].keyed
      /\ \A s \in Sends \ {r} : next[s] = turns[s]
  BY <1>0, <1>3, Proceeds
<1>5. sh \in Shelves /\ sh.told = shelf[c].told
  BY <1>0, <1>2, ZenonT(60) DEF Shelves
<1> HIDE DEF next, sh
<1>6. rows \in [Chronicles -> Shelves] /\ \A d \in Chronicles : rows[d].told = shelf[d].told
  BY <1>0, <1>2, <1>5
<1> HIDE DEF rows
<1>7. LetIn(next, stored)
  BY <1>0, <1>1, <1>4 DEF LetIn
<1>8. Played(next, lock, rows)
  BY <1>0, <1>1, <1>4, <1>6, SMTT(30) DEF Played
<1>9. Shown(page, next)
  <2>1. MovesOn(turns, next)
    BY <1>4 DEF MovesOn
  <2> QED
    BY <1>0, <2>1, ShownKept
<1> QED
  BY <1>0, <1>1, <1>4, <1>6, <1>7, <1>8, <1>9, TurnStep

\* The process ends; who was answered was answered.
LEMMA CrashStep ==
    ASSUME PilotAssumption, Piloted, Crash
    PROVE  Piloted'
<1>0. /\ stored \in Stored /\ page \in Pages /\ Grows(stored, stored)
      /\ Shown(page, turns) /\ LetIn(turns, stored) /\ Played(turns, lock, shelf)
      /\ turns \in [Sends -> Turn] /\ shelf \in [Chronicles -> Shelves]
  BY Parts
<1> DEFINE next == [r \in Sends |->
              IF turns[r].stage \in {"sent", "queued", "playing", "told"}
              THEN [turns[r] EXCEPT !.stage = "dropped"] ELSE turns[r]]
           held == [c \in Chronicles |-> Nil]
<1>1. /\ turns' = next /\ lock' = held
      /\ UNCHANGED <<stored, shelf, requests, page, key, limits>> /\ Trouble
  BY DEF Crash
<1>2. ASSUME NEW r \in Sends
      PROVE  /\ next[r] \in Turn /\ next[r].of = turns[r].of /\ next[r].under = turns[r].under
             /\ next[r].number = turns[r].number /\ next[r].keyed = turns[r].keyed
             /\ next[r].stage \notin {"sent", "queued", "playing", "told"}
             /\ turns[r].stage \in {"none", "answered"} => next[r].stage = turns[r].stage
             /\ next[r].stage = "answered" => turns[r].stage = "answered"
             /\ next[r].stage # "none" => turns[r].stage # "none"
  <2>1. turns[r] \in Turn
    BY <1>0
  <2> DEFINE t == [turns[r] EXCEPT !.stage = "dropped"]
  <2>2. /\ t \in Turn /\ t.of = turns[r].of /\ t.under = turns[r].under
        /\ t.number = turns[r].number /\ t.keyed = turns[r].keyed /\ t.stage = "dropped"
    BY <2>1 DEF Turn
  <2> HIDE DEF t
  <2>3. next[r] = IF turns[r].stage \in {"sent", "queued", "playing", "told"} THEN t ELSE turns[r]
    BY DEF t
  <2> HIDE DEF next
  <2> QED
    BY <2>1, <2>2, <2>3
<1>3. next \in [Sends -> Turn]
  <2>1. next = [r \in Sends |-> next[r]]
    OBVIOUS
  <2> HIDE DEF next
  <2> QED
    BY <1>2, <2>1
<1>4. held \in [Chronicles -> Sends \cup {Nil}]
  OBVIOUS
<1> HIDE DEF next, held
<1>5. LetIn(next, stored)
  BY <1>0, <1>2 DEF LetIn
<1>6. Played(next, held, shelf)
  <2>1. ASSUME NEW r \in Sends
        PROVE  /\ next[r].stage # "none" => next[r].of \in Chronicles
               /\ next[r].stage # "playing"
               /\ next[r].stage # "told"
               /\ next[r].stage = "answered" =>
                    /\ next[r].number \in DOMAIN shelf[next[r].of].told
                    /\ shelf[next[r].of].told[next[r].number] = r
    BY <1>0, <1>2 DEF Played
  <2> QED
    BY <2>1 DEF Played
<1>7. Shown(page, next)
  <2>1. MovesOn(turns, next)
    BY <1>2 DEF MovesOn
  <2>2. page \in Pages /\ Shown(page, turns)
    BY <1>0
  <2> QED
    BY <2>1, <2>2, ShownKept
<1> QED
  BY <1>0, <1>1, <1>3, <1>4, <1>5, <1>6, <1>7, TurnStep

\* create_campaign: no turn is told of a chronicle yet unmade.
LEMMA CreateStep ==
    ASSUME PilotAssumption, Piloted, Create
    PROVE  Piloted'
<1>0. /\ stored \in Stored /\ page \in Pages /\ Grows(stored, stored) /\ Counts
      /\ GateTrue(page, requests, key, stored)
      /\ Shown(page, turns) /\ LetIn(turns, stored) /\ Played(turns, lock, shelf)
      /\ turns \in [Sends -> Turn] /\ shelf \in [Chronicles -> Shelves]
      /\ lock \in [Chronicles -> Sends \cup {Nil}]
  BY Parts
<1>1. PICK c \in Chronicles :
         \/ /\ shelf' = [shelf EXCEPT ![c].made = TRUE, ![c].seeded = TRUE]
            /\ page' = Opened(c)
         \/ shelf' = [shelf EXCEPT ![c].made = TRUE] /\ UNCHANGED page
  BY DEF Create
<1>2. UNCHANGED <<stored, lock, turns, requests, key, limits>> /\ Change
  BY DEF Create
<1>3. shelf' \in [Chronicles -> Shelves] /\ \A d \in Chronicles : shelf'[d].told = shelf[d].told
  <2> DEFINE whole == [shelf[c] EXCEPT !.made = TRUE, !.seeded = TRUE]
             bare == [shelf[c] EXCEPT !.made = TRUE]
  <2>1. shelf' = [shelf EXCEPT ![c] = whole] \/ shelf' = [shelf EXCEPT ![c] = bare]
    BY <1>0, <1>1
  <2>2. whole \in Shelves /\ whole.told = shelf[c].told /\ bare \in Shelves /\ bare.told = shelf[c].told
    BY <1>0, ZenonT(60) DEF Shelves
  <2> HIDE DEF whole, bare
  <2>3. CASE shelf' = [shelf EXCEPT ![c] = whole]
    BY <1>0, <2>2, <2>3
  <2>4. CASE shelf' = [shelf EXCEPT ![c] = bare]
    BY <1>0, <2>2, <2>4
  <2> QED
    BY <2>1, <2>3, <2>4
<1>4. Played(turns, lock, shelf')
  BY <1>0, <1>3 DEF Played
<1>5. page' \in Pages /\ GateTrue(page', requests, key, stored) /\ Shown(page', turns)
  <2>1. CASE UNCHANGED page
    BY <1>0, <2>1
  <2>2. CASE page' = Opened(c)
    <3> DEFINE none == <<>>
               g == [page EXCEPT !.open = c, !.seen = none, !.failed = FALSE, !.applied = Nil]
    <3>1. none \in Seq(Sends) /\ none = <<>>
      OBVIOUS
    <3>2. page' = g
      BY <2>2 DEF Opened
    <3> HIDE DEF none
    <3>3. g \in Pages /\ g.seen = none /\ g.provider = page.provider
          /\ g.keyStored = page.keyStored /\ g.verdict = page.verdict
      BY <1>0, <3>1 DEF Pages
    <3> HIDE DEF g
    <3>4. GateTrue(g, requests, key, stored)
      BY <1>0, <3>3 DEF GateTrue
    <3>5. Shown(g, turns)
      BY <3>1, <3>3, ShownClear
    <3> QED
      BY <3>2, <3>3, <3>4, <3>5
  <2> QED
    BY <1>1, <2>1, <2>2
<1>6. Counts'
  BY <1>0, <1>2, Numbered
<1>7. PilotTypeOK'
  BY <1>2, <1>3, <1>5, <1>6 DEF Piloted, PilotTypeOK, Pages, Shelves, Counts
<1> QED
  BY <1>0, <1>2, <1>4, <1>5, <1>7 DEF Piloted

\* The invariant holds of a page not opened yet.
LEMMA PilotedInit ==
    ASSUME PilotAssumption, PilotInit
    PROVE  Piloted
<1>1. stored \in Stored /\ key \in BOOLEAN /\ limits \in Boundaries
  BY DEF PilotAssumption, PilotInit, Stored
<1>2. Counts
  BY DEF PilotAssumption, PilotInit, Counts
<1>3. page \in Pages /\ page.seen = <<>> /\ page.provider = "unread" /\ page.verdict = "none"
      /\ page.keyStored = key
  BY <1>1 DEF PilotInit, Mounted, Pages
<1>4. requests \in Requests /\ requests.get = "asked" /\ requests.put = "none"
  BY DEF PilotInit, Requests
<1>5. lock \in [Chronicles -> Sends \cup {Nil}]
  BY DEF PilotInit
<1>6. shelf \in [Chronicles -> Shelves]
  <2> DEFINE none == <<>>
             bare == [made |-> FALSE, seeded |-> FALSE, told |-> none, stamped |-> FALSE]
  <2>1. none \in Seq(Sends)
    OBVIOUS
  <2>2. shelf = [c \in Chronicles |-> bare]
    BY DEF PilotInit
  <2> HIDE DEF none
  <2>3. bare \in Shelves
    BY <2>1 DEF Shelves
  <2> HIDE DEF bare
  <2> QED
    BY <2>2, <2>3
<1>7. turns \in [Sends -> Turn] /\ \A r \in Sends : turns[r].stage = "none"
  <2>1. turns = [r \in Sends |-> NoTurn]
    BY DEF PilotInit
  <2>2. NoTurn \in Turn /\ NoTurn.stage = "none"
    BY DEF NoTurn, Turn
  <2> QED
    BY <2>1, <2>2
<1>8. GateTrue(page, requests, key, stored)
  BY <1>3, <1>4 DEF GateTrue, CurrentRow
<1>9. LetIn(turns, stored) /\ Played(turns, lock, shelf)
  BY <1>7 DEF LetIn, Played
<1>10. Shown(page, turns)
  BY <1>3, ShownClear
<1>11. PilotTypeOK
  BY <1>1, <1>2, <1>3, <1>4, <1>5, <1>6, <1>7 DEF PilotTypeOK, Pages, Requests, Shelves, Counts
<1> QED
  BY <1>8, <1>9, <1>10, <1>11 DEF Piloted

\* Every step keeps the invariant.
LEMMA PilotedStep ==
    ASSUME PilotAssumption, Piloted, [PilotNext]_pilotVars
    PROVE  Piloted'
<1>1. CASE \E r \in Sends : Arrive(r) \/ Begin(r) \/ Play(r) \/ StampTurn(r)
  BY <1>1, ArriveStep, BeginStep, PlayStep, StampStep
<1>2. CASE UNCHANGED pilotVars
  BY <1>2 DEF pilotVars, Piloted, PilotTypeOK, GateTrue, LetIn, Played, Shown
<1> QED
  BY <1>1, <1>2, CallSteps, PageSteps, TurnTells, SendStep, CrashStep, CreateStep DEF PilotNext

\* The invariant is what the run checks, and more.
LEMMA PilotedIsSound ==
    ASSUME PilotAssumption, Piloted
    PROVE  PilotSound
<1>1. GateTrue(page, requests, key, stored) /\ LetIn(turns, stored) /\ Played(turns, lock, shelf)
      /\ Shown(page, turns) /\ page \in Pages
  BY Parts
<1>2. GateHonest
  BY <1>1 DEF GateHonest, GateTrue, CurrentRow, Blocked, Connected, Pages
<1>3. NoKeylessTurn
  BY <1>1 DEF NoKeylessTurn, LetIn
<1>4. TurnsInOrder
  BY <1>1 DEF TurnsInOrder, Played, Shown
<1> QED
  BY <1>2, <1>3, <1>4 DEF PilotSound

\* What the player's page says is true of the account and of the browser, no
\* turn is played without a key and a model, and what is told of a chronicle is
\* told in the order it happened, for any number of chronicles, of turns and of
\* crashes, reloads and answers given up on.
THEOREM PilotStaysSound == PilotSpec => []PilotSound
<1>1. PilotInit => Piloted
  BY PilotAssumption, PilotedInit
<1>2. Piloted /\ [PilotNext]_pilotVars => Piloted'
  BY PilotAssumption, PilotedStep
<1>3. Piloted => PilotSound
  BY PilotAssumption, PilotedIsSound
<1> QED
  BY <1>1, <1>2, <1>3, PTL DEF PilotSpec

\* Calls and turns are in one of their stages, a shelf holds only what was
\* sent, and a lock is held by a turn (engine.ts, bridge.py).
THEOREM PilotTyped == PilotSpec => []PilotTypeOK
<1>1. PilotInit => Piloted
  BY PilotAssumption, PilotedInit
<1>2. Piloted /\ [PilotNext]_pilotVars => Piloted'
  BY PilotAssumption, PilotedStep
<1>3. Piloted => PilotTypeOK
  BY DEF Piloted
<1> QED
  BY <1>1, <1>2, <1>3, PTL DEF PilotSpec

-----------------------------------------------------------------------------
(* What a repair keeps *)

\* What a model writes, and what the narrator puts in its place.
Marks == STRING \cup {"calm", "refusal"}
Phrases == SUBSET Marks

\* What is kept of the first words of s, one by one.
Keeper(f, s, P, n) ==
    f = [i \in 0..n |-> IF i = 0 THEN <<>>
                        ELSE IF s[i] \in P THEN f[i - 1] ELSE Append(f[i - 1], s[i])]

\* The fold that keeps words is defined on every prefix.
LEMMA KeeperExists ==
    ASSUME NEW S, NEW s \in Seq(S), NEW P
    PROVE  \A n \in Nat : \E f : Keeper(f, s, P, n)
<1> DEFINE missing == {n \in Nat : ~\E f : Keeper(f, s, P, n)}
<1> SUFFICES ASSUME missing # {} PROVE FALSE
  OBVIOUS
<1>1. PICK n \in missing : \A k \in missing : n <= k
  BY LeastIn
<1>2. n \in Nat /\ ~\E f : Keeper(f, s, P, n)
  OBVIOUS
<1>3. CASE n = 0
  <2> DEFINE f == [i \in 0..0 |-> <<>>]
  <2>1. f = [i \in 0..0 |-> IF i = 0 THEN <<>>
                            ELSE IF s[i] \in P THEN f[i - 1] ELSE Append(f[i - 1], s[i])]
    OBVIOUS
  <2> HIDE DEF f
  <2>2. Keeper(f, s, P, 0)
    BY <2>1 DEF Keeper
  <2> QED
    BY <1>2, <1>3, <2>2
<1>4. CASE n # 0
  <2>1. n - 1 \in Nat /\ n - 1 \notin missing
    BY <1>1, <1>2, <1>4
  <2>2. PICK f : Keeper(f, s, P, n - 1)
    BY <2>1
  <2> DEFINE g == [i \in 0..n |-> IF i = n THEN (IF s[n] \in P THEN f[n - 1] ELSE Append(f[n - 1], s[n]))
                                  ELSE f[i]]
  <2>3. \A i \in 0..n - 1 : g[i] = f[i]
    BY <1>2
  <2>4. \A i \in 0..n - 1 : f[i] = IF i = 0 THEN <<>>
                            ELSE IF s[i] \in P THEN f[i - 1] ELSE Append(f[i - 1], s[i])
    BY <1>2, <2>2 DEF Keeper
  <2>5. g[n] = IF s[n] \in P THEN f[n - 1] ELSE Append(f[n - 1], s[n])
    BY <1>2
  <2>6. g = [i \in 0..n |-> g[i]]
    OBVIOUS
  <2> HIDE DEF g
  <2>7. ASSUME NEW i \in 0..n
        PROVE  g[i] = IF i = 0 THEN <<>>
                      ELSE IF s[i] \in P THEN g[i - 1] ELSE Append(g[i - 1], s[i])
    <3>1. CASE i = n
      <4>1. g[n - 1] = f[n - 1]
        BY <1>2, <1>4, <2>3
      <4> QED
        BY <1>4, <2>5, <3>1, <4>1
    <3>2. CASE i = 0
      BY <1>2, <1>4, <2>3, <2>4, <3>2
    <3>3. CASE i # n /\ i # 0
      <4>1. i \in 0..n - 1 /\ i - 1 \in 0..n - 1
        BY <1>2, <3>3
      <4>2. g[i] = f[i] /\ g[i - 1] = f[i - 1]
        BY <2>3, <4>1
      <4> QED
        BY <2>4, <3>3, <4>1, <4>2
    <3> QED
      BY <3>1, <3>2, <3>3
  <2>8. Keeper(g, s, P, n)
    BY <2>6, <2>7 DEF Keeper
  <2> QED
    BY <1>2, <2>8
<1> QED
  BY <1>3, <1>4

\* k is what the first i words of s have outside P, in their order: m says
\* where each of them stood.
Embeds(k, s, P, i) ==
    \E m \in [1..Len(k) -> 1..i] :
        /\ \A a, b \in 1..Len(k) : a < b => m[a] < m[b]
        /\ \A a \in 1..Len(k) : k[a] = s[m[a]] /\ s[m[a]] \notin P
        /\ \A p \in 1..i : s[p] \notin P => \E a \in 1..Len(k) : m[a] = p

\* What it keeps of each prefix stands in it.
LEMMA KeeperEmbeds ==
    ASSUME NEW S, NEW s \in Seq(S), NEW P, NEW f, Keeper(f, s, P, Len(s))
    PROVE  \A i \in 0..Len(s) : f[i] \in Seq(S) /\ Embeds(f[i], s, P, i)
<1> DEFINE wrong == {i \in 0..Len(s) : ~(f[i] \in Seq(S) /\ Embeds(f[i], s, P, i))}
<1> SUFFICES ASSUME wrong # {} PROVE FALSE
  OBVIOUS
<1>0. Len(s) \in Nat /\ wrong \in SUBSET Nat /\ \A i \in 1..Len(s) : s[i] \in S
  OBVIOUS
<1>1. PICK n \in wrong : \A k \in wrong : n <= k
  BY <1>0, LeastIn
<1>2. n \in 0..Len(s) /\ ~(f[n] \in Seq(S) /\ Embeds(f[n], s, P, n))
  BY <1>1
<1>3. f[n] = IF n = 0 THEN <<>>
             ELSE IF s[n] \in P THEN f[n - 1] ELSE Append(f[n - 1], s[n])
  BY <1>2 DEF Keeper
<1>4. CASE n = 0
  <2>1. f[n] = <<>> /\ <<>> \in Seq(S) /\ Len(<<>>) = 0
    BY <1>3, <1>4
  <2> DEFINE m == [a \in 1..0 |-> 1]
  <2>2. m \in [1..0 -> 1..0] /\ 1..0 = {}
    OBVIOUS
  <2>3. Embeds(<<>>, s, P, 0)
    BY <2>1, <2>2 DEF Embeds
  <2> QED
    BY <1>2, <1>4, <2>1, <2>3
<1>5. CASE n # 0
  <2>1. n - 1 \in 0..Len(s) /\ n - 1 \notin wrong /\ n \in 1..Len(s) /\ n \in Nat
    BY <1>0, <1>1, <1>2, <1>5
  <2> DEFINE k == f[n - 1]
  <2>2. k \in Seq(S) /\ Embeds(k, s, P, n - 1) /\ Len(k) \in Nat
    BY <2>1
  <2>3. PICK m \in [1..Len(k) -> 1..n - 1] :
        /\ \A a, b \in 1..Len(k) : a < b => m[a] < m[b]
        /\ \A a \in 1..Len(k) : k[a] = s[m[a]] /\ s[m[a]] \notin P
        /\ \A p \in 1..n - 1 : s[p] \notin P => \E a \in 1..Len(k) : m[a] = p
    BY <2>2 DEF Embeds
  <2>4. CASE s[n] \in P
    <3>1. f[n] = k
      BY <1>3, <1>5, <2>4
    <3>2. m \in [1..Len(k) -> 1..n]
      BY <2>1, <2>2
    <3>3. \A p \in 1..n : s[p] \notin P => \E a \in 1..Len(k) : m[a] = p
      BY <2>1, <2>3, <2>4, SMTT(30)
    <3> HIDE DEF k
    <3>4. Embeds(k, s, P, n)
      BY <2>3, <3>2, <3>3 DEF Embeds
    <3> QED
      BY <1>2, <2>2, <3>1, <3>4
  <2>5. CASE s[n] \notin P
    <3> DEFINE new == Append(k, s[n])
               q == [a \in 1..Len(k) + 1 |-> IF a = Len(k) + 1 THEN n ELSE m[a]]
    <3>1. f[n] = new
      BY <1>3, <1>5, <2>5
    <3>2. s[n] \in S
      BY <1>0, <2>1
    <3> HIDE DEF k
    <3>3. /\ new \in Seq(S) /\ Len(new) = Len(k) + 1 /\ new[Len(k) + 1] = s[n]
          /\ \A a \in 1..Len(k) : new[a] = k[a]
      BY <2>2, <3>2, AppendProperties
    <3> HIDE DEF new
    <3>4. \A a \in 1..Len(k) : m[a] \in 1..n - 1 /\ m[a] \in 1..n
      BY <2>1, <2>2
    <3>5. q \in [1..Len(k) + 1 -> 1..n] /\ q[Len(k) + 1] = n /\ \A a \in 1..Len(k) : q[a] = m[a]
      BY <2>1, <2>2, <3>4
    <3> HIDE DEF q
    <3>6. ASSUME NEW a \in 1..Len(new), NEW b \in 1..Len(new), a < b PROVE q[a] < q[b]
      <4>1. a \in 1..Len(k)
        BY <2>2, <3>3, <3>6
      <4>2. CASE b \in 1..Len(k)
        BY <2>3, <3>5, <3>6, <4>1, <4>2
      <4>3. CASE b = Len(k) + 1
        BY <2>1, <3>4, <3>5, <4>1, <4>3
      <4> QED
        BY <2>2, <3>3, <4>2, <4>3
    <3>7. ASSUME NEW a \in 1..Len(new) PROVE new[a] = s[q[a]] /\ s[q[a]] \notin P
      <4>1. CASE a \in 1..Len(k)
        BY <2>3, <3>3, <3>5, <4>1
      <4>2. CASE a = Len(k) + 1
        BY <2>5, <3>3, <3>5, <4>2
      <4> QED
        BY <2>2, <3>3, <4>1, <4>2
    <3>8. ASSUME NEW p \in 1..n, s[p] \notin P PROVE \E a \in 1..Len(new) : q[a] = p
      <4>1. CASE p = n
        <5>1. Len(k) + 1 \in 1..Len(new)
          BY <2>2, <3>3
        <5> QED
          BY <3>5, <4>1, <5>1
      <4>2. CASE p # n
        <5>1. p \in 1..n - 1
          BY <2>1, <4>2
        <5>2. PICK a \in 1..Len(k) : m[a] = p
          BY <2>3, <3>8, <5>1
        <5>3. a \in 1..Len(new)
          BY <2>2, <3>3
        <5> QED
          BY <3>5, <5>2, <5>3
      <4> QED
        BY <4>1, <4>2
    <3>9. q \in [1..Len(new) -> 1..n]
      BY <3>3, <3>5
    <3>10. Embeds(new, s, P, n)
      BY <3>6, <3>7, <3>8, <3>9 DEF Embeds
    <3> QED
      BY <1>2, <3>1, <3>3, <3>10
  <2> QED
    BY <2>4, <2>5
<1> QED
  BY <1>4, <1>5

\* Keeps takes the words in P out and leaves the others in their order.
LEMMA KeepsEmbeds ==
    ASSUME NEW S, NEW s \in Seq(S), NEW P
    PROVE  Keeps(s, P) \in Seq(S) /\ Embeds(Keeps(s, P), s, P, Len(s))
<1> DEFINE Kept(f) == f = [i \in 0..Len(s) |-> IF i = 0 THEN <<>>
                              ELSE IF s[i] \in P THEN f[i - 1] ELSE Append(f[i - 1], s[i])]
           f == CHOOSE g : Kept(g)
<1>1. Len(s) \in Nat
  OBVIOUS
<1>2. \E g : Keeper(g, s, P, Len(s))
  BY <1>1, KeeperExists
<1>3. \E g : Kept(g)
  BY <1>2 DEF Keeper
<1>4. Keeps(s, P) = f[Len(s)]
  BY DEF Keeps
<1> HIDE DEF Kept
<1>5. Kept(f)
  BY <1>3
<1> HIDE DEF f
<1>6. Keeper(f, s, P, Len(s))
  BY <1>5 DEF Kept, Keeper
<1> QED
  BY <1>1, <1>4, <1>6, KeeperEmbeds
\* A line of one word.
LEMMA OneWord ==
    ASSUME NEW S, NEW x \in S
    PROVE  <<x>> \in Seq(S) /\ Len(<<x>>) = 1 /\ <<x>>[1] = x
OBVIOUS

\* A sentence of one kind.
LEMMA OneKind ==
    ASSUME NEW kind \in Marks
    PROVE  {kind} \in Phrases
BY DEF Phrases

\* What a repair takes a sentence out for.
Taken(w) == Strips(Issues(w))

\* A sentence that is no gain, no move and no reward stays.
LEMMA TakenIs ==
    ASSUME NEW w
    PROVE  /\ Taken(w) \subseteq Gains \cup Moves \cup {"reward"}
           /\ Says(w, "reward") => "reward" \in Taken(w)
           /\ FirstIn(w, Gains) = {"gain"} => "gain" \in Taken(w)
           /\ FirstIn(w, Ways) \cap {"arrive", "runon"} # {} => "arrive" \in Taken(w)
  BY DEF Taken, Strips, Issues, Gains, Moves

\* Where there is one of a kind there is a first.
LEMMA FirstThere ==
    ASSUME NEW w \in Seq(Phrases), NEW P, NEW x \in P, Says(w, x)
    PROVE  FirstIn(w, P) # {} /\ FirstIn(w, P) \subseteq P
<1> DEFINE hits == {i \in DOMAIN w : w[i] \cap P # {}}
<1>0. Len(w) \in Nat /\ DOMAIN w = 1..Len(w)
  OBVIOUS
<1>1. PICK i \in DOMAIN w : x \in w[i]
  BY DEF Says, Within
<1>2. i \in hits /\ hits \in SUBSET Nat
  BY <1>0, <1>1
<1> DEFINE First(y) == \A j \in hits : y <= j
           h == CHOOSE y \in hits : First(y)
<1>3. \E y \in hits : First(y)
  BY <1>2, LeastIn
<1>4. FirstIn(w, P) = w[h] \cap P
  BY <1>2 DEF FirstIn
<1> HIDE DEF First
<1>5. h \in hits
  BY <1>3
<1> HIDE DEF h
<1> QED
  BY <1>4, <1>5

\* What repair_narration leaves of w.
Mended(w, r) ==
    /\ r \in Seq(Phrases) /\ r # <<>>
    /\ Within(r) \subseteq Within(w) \cup {{"calm"}}
    /\ \A s \in Within(r) :
          /\ "reward" \notin s
          /\ "gain" \in s => "keepsake" \in FirstIn(w, Gains)
          /\ "arrive" \in s => FirstIn(w, Ways) = {"return"}
    /\ w # <<>> /\ "refusal" \in Last(w) =>
          "refusal" \in Last(r) \/ Last(w) \cap (Gains \cup Moves \cup {"reward"}) # {}

\* repair_narration leaves a line that grants nothing, and the last sentence
\* where it is harmless.
LEMMA RepairMends ==
    ASSUME NEW w \in Seq(Phrases)
    PROVE  Mended(w, Repaired(w))
<1> DEFINE P == AtIssue(w)
           k == Keeps(w, P)
           c == {"calm"}
<1>1. k \in Seq(Phrases) /\ Embeds(k, w, P, Len(w))
  BY KeepsEmbeds
<1>2. Repaired(w) = IF k = <<>> THEN <<c>> ELSE k
  BY DEF Repaired
<1>0. c \in Phrases /\ "reward" \notin c /\ "gain" \notin c /\ "arrive" \notin c
  BY OneKind DEF Marks
<1> HIDE DEF k, P
<1>3. /\ Len(w) \in Nat /\ DOMAIN w = 1..Len(w) /\ Len(k) \in Nat /\ DOMAIN k = 1..Len(k)
      /\ (k = <<>> <=> Len(k) = 0)
  BY <1>1, EmptySeq
<1>4. PICK m \in [1..Len(k) -> 1..Len(w)] :
        /\ \A a, b \in 1..Len(k) : a < b => m[a] < m[b]
        /\ \A a \in 1..Len(k) : k[a] = w[m[a]] /\ w[m[a]] \notin P
        /\ \A p \in 1..Len(w) : w[p] \notin P => \E a \in 1..Len(k) : m[a] = p
  BY <1>1 DEF Embeds
<1>5. \A s \in Within(k) : s \in Within(w) /\ s \notin P
  BY <1>3, <1>4 DEF Within
<1>6. \A s \in Within(w) : s \notin P => s \cap Taken(w) = {}
  BY DEF P, AtIssue, Taken
<1>7. ASSUME NEW s \in Within(k)
      PROVE  /\ "reward" \notin s
             /\ "gain" \in s => "keepsake" \in FirstIn(w, Gains)
             /\ "arrive" \in s => FirstIn(w, Ways) = {"return"}
  <2>1. s \in Within(w) /\ s \cap Taken(w) = {}
    BY <1>5, <1>6
  <2>2. "reward" \notin s
    BY <2>1, TakenIs DEF Says
  <2>3. ASSUME "gain" \in s PROVE "keepsake" \in FirstIn(w, Gains)
    <3>1. FirstIn(w, Gains) # {"gain"}
      BY <2>1, <2>3, TakenIs
    <3>2. FirstIn(w, Gains) # {} /\ FirstIn(w, Gains) \subseteq Gains
      BY <2>1, <2>3, FirstThere DEF Says, Gains
    <3> QED
      BY <3>1, <3>2 DEF Gains
  <2>4. ASSUME "arrive" \in s PROVE FirstIn(w, Ways) = {"return"}
    <3>1. FirstIn(w, Ways) \cap {"arrive", "runon"} = {}
      BY <2>1, <2>4, TakenIs
    <3>2. FirstIn(w, Ways) # {} /\ FirstIn(w, Ways) \subseteq Ways
      BY <2>1, <2>4, FirstThere DEF Says, Ways, Moves
    <3> QED
      BY <3>1, <3>2 DEF Ways, Moves
  <2> QED
    BY <2>2, <2>3, <2>4
<1>8. ASSUME w # <<>>, Last(w) \cap (Gains \cup Moves \cup {"reward"}) = {}
      PROVE  k # <<>> /\ Last(k) = Last(w)
  <2>1. Len(w) \in 1..Len(w)
    BY <1>3, <1>8, EmptySeq
  <2>2. w[Len(w)] \notin P
    BY <1>8, TakenIs DEF P, AtIssue, Taken, Last
  <2>3. PICK a \in 1..Len(k) : m[a] = Len(w)
    BY <1>4, <2>1, <2>2
  <2>4. Len(k) \in 1..Len(k)
    BY <1>3, <2>3
  <2>5. ~(a < Len(k))
    <3>1. a < Len(k) => m[a] < m[Len(k)]
      BY <1>4, <2>3, <2>4
    <3>2. m[Len(k)] \in 1..Len(w)
      BY <1>4, <2>4
    <3> QED
      BY <1>3, <2>3, <3>1, <3>2
  <2>6. a \in Nat /\ a <= Len(k) /\ Len(k) \in Nat
    BY <1>3, <2>3
  <2>7. a = Len(k)
    BY <2>5, <2>6
  <2> QED
    BY <1>3, <1>4, <2>3, <2>4, <2>7 DEF Last
<1> HIDE DEF c
<1>9. CASE k = <<>>
  <2>1. <<c>> \in Seq(Phrases) /\ Len(<<c>>) = 1 /\ <<c>>[1] = c
    BY <1>0, OneWord
  <2>2. <<c>> # <<>> /\ Within(<<c>>) = {c}
    BY <2>1, EmptySeq DEF Within
  <2> QED
    BY <1>0, <1>2, <1>8, <1>9, <2>1, <2>2 DEF Mended, c
<1>10. CASE k # <<>>
  BY <1>1, <1>2, <1>5, <1>7, <1>8, <1>10 DEF Mended
<1> QED
  BY <1>9, <1>10

\* What free text is answered with, of one line: see GrantsNothing.
Modest(text, draft, words, spoken) ==
    /\ \A s \in Within(words) :
          /\ "reward" \notin s
          /\ "gain" \in s => "keepsake" \in FirstIn(draft, Gains)
          /\ "arrive" \in s => FirstIn(draft, Ways) = {"return"}
          /\ "quote" \in s => spoken # "quote"
    /\ "conjure" \in text =>
          \/ "refusal" \in Last(words)
          \/ Last(draft) \cap (Gains \cup Moves \cup {"reward"}) # {}

\* What is written behind a prose stands in its last sentence, and changes
\* nothing else.
LEMMA GluedIs ==
    ASSUME NEW w \in Seq(Phrases), NEW shut, NEW kind \in Marks
    PROVE  /\ Glued(w, shut, kind) \in Seq(Phrases) /\ Glued(w, shut, kind) # <<>>
           /\ kind \in Last(Glued(w, shut, kind))
           /\ \A x : Says(Glued(w, shut, kind), x) => x = kind \/ Says(w, x)
<1> DEFINE q == Glued(w, shut, kind)
           c == {kind}
<1>0. c \in Phrases
  BY OneKind
<1>3. Len(w) \in Nat /\ DOMAIN w = 1..Len(w) /\ \A i \in 1..Len(w) : w[i] \in Phrases
  OBVIOUS
<1>1. CASE shut \/ w = <<>>
  <2>1. q = Append(w, c)
    BY <1>1 DEF Glued
  <2> HIDE DEF q, c
  <2>2. /\ q \in Seq(Phrases) /\ Len(q) = Len(w) + 1 /\ q[Len(w) + 1] = c
        /\ \A i \in 1..Len(w) : q[i] = w[i]
    BY <1>0, <2>1, AppendProperties
  <2>3. q # <<>> /\ Last(q) = c /\ DOMAIN q = 1..Len(w) + 1
    BY <1>3, <2>2, EmptySeq DEF Last
  <2>4. \A s \in Within(q) : s = c \/ s \in Within(w)
    BY <1>3, <2>2, <2>3 DEF Within
  <2> QED
    BY <2>2, <2>3, <2>4 DEF Says, q, c
<1>2. CASE ~shut /\ w # <<>>
  <2> DEFINE n == Len(w)
             s == w[n] \cup c
  <2>0. n \in 1..Len(w)
    BY <1>2, <1>3, EmptySeq
  <2>1. q = [w EXCEPT ![n] = s]
    BY <1>2 DEF Glued
  <2>2. s \in Phrases
    <3>1. w[n] \in Phrases
      BY <1>3, <2>0
    <3> HIDE DEF n, c
    <3> QED
      BY <1>0, <3>1 DEF Phrases
  <2> HIDE DEF q, c, n, s
  <2>3. q \in Seq(Phrases) /\ Len(q) = Len(w) /\ DOMAIN q = 1..Len(w)
    BY <1>3, <2>0, <2>1, <2>2
  <2>4. q[n] = s /\ \A i \in 1..Len(w) : i # n => q[i] = w[i]
    BY <1>3, <2>0, <2>1
  <2>5. q # <<>> /\ Last(q) = s
    <3>1. Len(q) = n /\ Len(q) # 0
      BY <1>3, <2>0, <2>3 DEF n
    <3> QED
      BY <2>3, <2>4, <3>1, EmptySeq DEF Last
  <2>6. ASSUME NEW x, Says(q, x) PROVE x = kind \/ Says(w, x)
    <3>1. PICK i \in 1..Len(w) : x \in q[i]
      BY <2>3, <2>6 DEF Says, Within
    <3>2. x \in w[i] \/ x = kind
      BY <2>0, <2>4, <3>1 DEF s, c
    <3> QED
      BY <1>3, <3>1, <3>2 DEF Says, Within
  <2> QED
    BY <2>3, <2>5, <2>6 DEF q, s, c
<1> QED
  BY <1>1, <1>2

\* Whatever the completion, its prose is sentences.
LEMMA ProseIs ==
    ASSUME NEW reply \in Completions
    PROVE  Prose(reply) \in Seq(Phrases)
<1> DEFINE told == reply.told
           c == {"calm"}
<1>1. told \in Seq(Phrases) /\ (reply.form = "long" => told # <<>>)
  <2>1. told \in Seq(SUBSET STRING) /\ (reply.form = "long" => told # <<>>)
    BY TellingAssumption
  <2>2. \A i \in 1..Len(told) : told[i] \in Phrases
    BY <2>1 DEF Phrases, Marks
  <2> QED
    BY <2>1, <2>2
<1>2. c \in Phrases
  BY OneKind DEF Marks
<1>6. "calm" \in Marks
  BY DEF Marks
<1>3. Glued(told, reply.shut, "calm") \in Seq(Phrases)
  <2> HIDE DEF told
  <2> QED
    BY <1>1, <1>6, GluedIs
<1> HIDE DEF told, c
<1>4. <<c>> \in Seq(Phrases)
  BY <1>2, OneWord
<1>5. ASSUME reply.form = "long" PROVE SubSeq(told, 1, 1) \in Seq(Phrases)
  <2>1. Len(told) >= 1 /\ Len(told) \in Nat
    BY <1>1, <1>5, EmptySeq
  <2> QED
    BY <1>1, <2>1, SubSeqProperties
<1> QED
  BY <1>1, <1>3, <1>4, <1>5 DEF Prose, c, told

\* What a claim is answered behind is sentences too, the refusal in the last.
LEMMA DraftIs ==
    ASSUME NEW reply \in Completions, NEW text
    PROVE  /\ DraftOf(text, reply) \in Seq(Phrases)
           /\ "conjure" \in text => DraftOf(text, reply) # <<>> /\ "refusal" \in Last(DraftOf(text, reply))
           /\ Says(DraftOf(text, reply), "quote") => Says(Prose(reply), "quote")
<1>1. Prose(reply) \in Seq(Phrases)
  BY ProseIs
<1> DEFINE p == Prose(reply)
           q == Glued(p, Ends(reply), "refusal")
<1>2. /\ q \in Seq(Phrases) /\ q # <<>> /\ "refusal" \in Last(q)
      /\ Says(q, "quote") => Says(p, "quote")
  <2>1. "refusal" \in Marks /\ "quote" # "refusal"
    BY DEF Marks
  <2> HIDE DEF p
  <2> QED
    BY <1>1, <2>1, GluedIs DEF p
<1>3. DraftOf(text, reply) = IF "conjure" \in text THEN q ELSE p
  BY DEF DraftOf, Dictates
<1> HIDE DEF p, q
<1> QED
  BY <1>1, <1>2, <1>3 DEF p

\* A delivered answer is modest.
LEMMA DeliveredModest ==
    ASSUME NEW reply \in Completions, NEW text
    PROVE  Modest(text, DraftOf(text, reply), Repaired(DraftOf(text, reply)), Spoken(reply))
<1> DEFINE w == DraftOf(text, reply)
           r == Repaired(w)
<1>1. w \in Seq(Phrases) /\ Mended(w, r)
  BY DraftIs, RepairMends
<1>2. "conjure" \in text => w # <<>> /\ "refusal" \in Last(w)
  BY DraftIs
<1>3. ASSUME Spoken(reply) = "quote" PROVE ~Says(w, "quote")
  <2>1. ~Says(reply.told, "quote") /\ Prose(reply) = reply.told
    BY <1>3 DEF Spoken, Prose
  <2> QED
    BY <2>1, DraftIs
<1> HIDE DEF r, w
<1>4. ASSUME NEW s \in Within(r), "quote" \in s PROVE Spoken(reply) # "quote"
  <2>1. s \in Within(w)
    BY <1>1, <1>4 DEF Mended
  <2> QED
    BY <1>3, <1>4, <2>1 DEF Says
<1>5. Modest(text, w, r, Spoken(reply))
  BY <1>1, <1>2, <1>4 DEF Mended, Modest
<1> QED
  BY <1>5 DEF r, w

-----------------------------------------------------------------------------
(* What a text asks of the rules *)

\* A list of patterns yields one of its results, or none of them.
LEMMA FirstOfIs ==
    ASSUME NEW patterns, NEW text, NEW none, DOMAIN patterns \in SUBSET Nat
    PROVE  \/ FirstOf(patterns, text, none) = none
           \/ \E i \in DOMAIN patterns : FirstOf(patterns, text, none) = patterns[i].is
<1> DEFINE hits == {i \in DOMAIN patterns : patterns[i].cues \cap text # {}}
           First(x) == \A j \in hits : x <= j
           h == CHOOSE x \in hits : First(x)
<1>1. FirstOf(patterns, text, none) = IF hits = {} THEN none ELSE patterns[h].is
  BY DEF FirstOf
<1>2. hits \in SUBSET Nat /\ hits \subseteq DOMAIN patterns
  OBVIOUS
<1> HIDE DEF hits
<1>3. hits # {} => \E x \in hits : First(x)
  BY <1>2, LeastIn
<1> HIDE DEF First
<1>4. hits # {} => h \in hits
  BY <1>3
<1> QED
  BY <1>1, <1>2, <1>4

\* The DC of a check is a number, whatever was typed.
LEMMA DcIsNumber ==
    ASSUME NEW text
    PROVE  CheckOf(text).dc \in Int
<1>1. \A skill, dc : Overt(skill, dc).dc = dc /\ Quiet(skill).dc = 13 /\ Social(skill).dc = 13
  BY DEF Overt, Quiet, Social
<1>2. NoCheck.dc = 0
  BY <1>1 DEF NoCheck
<1>3. \A kind : ByKind(kind).dc \in Int
  BY <1>1, <1>2 DEF ByKind
<1>4. Hinted(text).dc \in Int
  <2> DEFINE hints ==
        << [cues |-> {"trap"}, is |-> Overt("Thievery", 16)],
           [cues |-> {"lie"}, is |-> Quiet("Insight")],
           [cues |-> {"tracks"}, is |-> Quiet("Perception")],
           [cues |-> {"recall"}, is |-> Quiet("Lore")],
           [cues |-> {"climb"}, is |-> Overt("Athletics", 13)],
           [cues |-> {"persuade"}, is |-> Social("Persuasion")],
           [cues |-> {"threaten"}, is |-> Social("Intimidation")],
           [cues |-> {"sneak"}, is |-> Overt("Stealth", 13)],
           [cues |-> {"search"}, is |-> Overt("Investigation", 13)],
           [cues |-> {"attack"}, is |-> Overt("Swordsmanship", 13)] >>
  <2>1. Hinted(text) = FirstOf(hints, text, NoCheck)
    BY DEF Hinted
  <2>2. DOMAIN hints = 1..10
    OBVIOUS
  <2>3. \A i \in 1..10 : hints[i].is.dc \in Int
    BY <1>1
  <2> HIDE DEF hints
  <2>4. DOMAIN hints \in SUBSET Nat
    BY <2>2
  <2> QED
    BY <1>2, <2>1, <2>2, <2>3, <2>4, FirstOfIs
<1> QED
  BY <1>2, <1>3, <1>4 DEF CheckOf

\* Long odds are those no face but a natural 20 passes.
LEMMA OddsNamed ==
    ASSUME NEW dc \in Int
    PROVE  LongOdds(dc) <=> \A f \in 1..19 : Classify(f, f - dc) \notin Passed
<1>1. ASSUME LongOdds(dc), NEW f \in 1..19
      PROVE  Classify(f, f - dc) \in {"critical failure", "failure"}
  <2> DEFINE margin == f - dc
  <2>1. margin \in Int /\ margin <= -1 /\ f \in Int /\ f # 20
    BY <1>1 DEF LongOdds
  <2> HIDE DEF margin
  <2>2. Classify(f, margin) \in {"critical failure", "failure"}
    BY <2>1 DEF Classify
  <2> QED
    BY <2>2 DEF margin
<1>2. ASSUME ~LongOdds(dc)
      PROVE  Classify(19, 19 - dc) \in Passed
  <2> DEFINE margin == 19 - dc
  <2>1. margin \in Int /\ margin >= 0
    BY <1>2 DEF LongOdds
  <2> HIDE DEF margin
  <2>2. Classify(19, margin) \in Passed
    BY <2>1 DEF Classify, Passed
  <2> QED
    BY <2>2 DEF margin
<1>3. 19 \in 1..19
  OBVIOUS
<1> QED
  BY <1>1, <1>2, <1>3 DEF Passed

-----------------------------------------------------------------------------
(* The player's requests *)

Sources == {"nothing", "settings", "env"}
Rows == Settings \cup {NoSettings}

\* Who was named when the row was r.
NamedAs(by, r, e) ==
    /\ by = "settings" => r.name = "compat" /\ r.whole
    /\ by = "env" => r = NoSettings /\ e = "whole"

HeroFits(h) == h \in [ near : BOOLEAN, shift : Shifts, inspired : BOOLEAN, points : Nat,
                       beats : Int, last : Int, walked : [Inputs -> Int] ]

DcAt(h, text) ==
    IF CheckOf(text).social THEN AtLeastOne(CheckOf(text).dc + h.shift) ELSE CheckOf(text).dc
RollsAt(h, text) ==
    CheckOf(text) # NoCheck /\ (CheckOf(text).social => "marla" \in text /\ h.near)

\* A check the page asks for was called of free text, on a board, at its DC.
CalledFits(p) ==
    \/ p = NoPending
    \/ /\ FreeText(p.text) /\ RollsAt(p.board, p.text) /\ ~CheckOf(p.text).hidden
       /\ p.dc = DcAt(p.board, p.text) /\ p.dc \in Int
       /\ p.long <=> LongOdds(p.dc)

ActOf(a) == a \in
    [ stage : {"none", "asking"}, text : Inputs \cup {{}}, by : Sources, row : Rows,
      dice : Seq(Faces), dc : Int, called : Int, progress : BOOLEAN, near : BOOLEAN,
      shift : Shifts \cup {0}, brief : BOOLEAN, dim : BOOLEAN, tries : {0, 1}, calls : {0, 1} ]

\* What is known of a request while the model is asked, on the saved state h.
AskedFits(a, h, e) ==
    a.stage = "asking" =>
        /\ a.text \in Inputs /\ a.shift \in Shifts /\ a.by # "nothing" /\ NamedAs(a.by, a.row, e)
        /\ a.called # 0 => a.dc = a.called
        /\ Len(a.dice) = 2 => h.inspired /\ FreeText(a.text)
        /\ ~a.brief => FreeText(a.text) /\ a.calls = 0 /\ ~a.dim
        /\ a.brief /\ FreeText(a.text) => a.calls = 1 /\ a.dim
        /\ Authored(a.text) => a.calls = 0

LineFits(l, e) ==
    /\ NamedAs(l.by, l.row, e)
    /\ l.calls > 0 /\ ~l.brief => Modest(l.text, l.draft, l.words, l.spoken)
    /\ l.called # 0 => l.dc = l.called
    /\ l.calls = IF l.by = "nothing" THEN 0 ELSE IF l.dim /\ FreeText(l.text) THEN 2 ELSE 1

PointsKept(h, b) == b \in Nat /\ h.points + b + (IF h.inspired THEN 1 ELSE 0) = FirstPoints

\* The invariant: what the run checks, and what is known of a request on its way.
TellingFits ==
    /\ env \in Environments /\ row \in Rows /\ HeroFits(hero) /\ PointsKept(hero, burnt)
    /\ CalledFits(pending) /\ ActOf(act) /\ AskedFits(act, hero, env) /\ LineFits(line, env)

\* The invariant is what the run checks, and more.
LEMMA ToldIsSound == TellingFits => TellingSound
<1> SUFFICES ASSUME TellingFits PROVE TellingSound
  OBVIOUS
<1>1. ToldByNamed
  BY DEF TellingFits, LineFits, NamedAs, ToldByNamed
<1>2. GrantsNothing
  BY DEF TellingFits, LineFits, Modest, GrantsNothing
<1>3. pending # NoPending =>
          (pending.long <=> \A f \in 1..19 : Classify(f, f - pending.dc) \notin Passed)
  BY OddsNamed DEF TellingFits, CalledFits
<1>4. ThrowHonest
  BY <1>3 DEF TellingFits, LineFits, PointsKept, ThrowHonest
<1>5. CallsCounted
  BY DEF TellingFits, LineFits, CallsCounted
<1> QED
  BY <1>1, <1>2, <1>4, <1>5 DEF TellingSound

\* The connection names who the row names.
LEMMA ConnectionNames ==
    ASSUME env \in Environments, row \in Rows
    PROVE  Connection.by \in Sources /\ NamedAs(Connection.by, row, env)
<1>1. \A s, r : Unconnected(s, r).by = "nothing" /\ Through(s).by = s
  BY DEF Unconnected, Through
<1>2. CASE row = NoSettings
  <2>1. Connection = EnvConnection
    BY <1>2 DEF Connection
  <2>2. EnvConnection.by \in {"nothing", "env"}
    BY <1>1 DEF EnvConnection
  <2>3. EnvConnection.by = "env" => env \notin {"unset", "foreign", "broken"}
    BY <1>1 DEF EnvConnection
  <2>4. env \in {"unset", "foreign", "broken", "whole"}
    BY TellingAssumption
  <2> QED
    BY <1>2, <2>1, <2>2, <2>3, <2>4 DEF Sources, NamedAs
<1>3. CASE row # NoSettings
  <2>1. Connection = RowConnection(row) /\ row \in Settings
    BY <1>3 DEF Connection, Rows
  <2>2. RowConnection(row).by \in {"nothing", "settings"}
    BY <1>1 DEF RowConnection
  <2>3. RowConnection(row).by = "settings" => row.name = "compat" /\ row.whole
    BY <1>1, <2>1 DEF RowConnection, Settings
  <2> QED
    BY <2>1, <2>2, <2>3 DEF Sources, NamedAs
<1> QED
  BY <1>2, <1>3

\* The die stands for the check that was called: where one was thrown one is
\* kept, and a second die is rolled only by the inspired.
LEMMA RolledIs ==
    ASSUME NEW text, FreeText(text), NEW dice \in {<<>>} \cup {<<f>> : f \in Faces} \cup (Faces \X Faces),
           ~Suspends(text, dice), NEW rolled \in Rolled(text, dice)
    PROVE  /\ rolled \in Seq(Faces)
           /\ Len(rolled) = 2 => hero.inspired
           /\ dice # <<>> /\ Rolls(text) /\ ~CheckOf(text).hidden => rolled # <<>>
<1>1. CASE ~Rolls(text)
  BY <1>1 DEF Rolled
<1>2. CASE Rolls(text) /\ CheckOf(text).hidden
  <2>1. PICK f \in Faces : rolled = <<f>>
    BY <1>2 DEF Rolled
  <2>2. rolled \in Seq(Faces) /\ Len(rolled) = 1
    BY <2>1, OneWord
  <2> QED
    BY <1>2, <2>2
<1>3. CASE Rolls(text) /\ ~CheckOf(text).hidden
  <2>1. dice # <<>>
    BY <1>3 DEF Suspends
  <2>2. dice \in Seq(Faces) /\ (Len(dice) = 1 \/ Len(dice) = 2)
    <3>1. CASE dice \in {<<f>> : f \in Faces}
      <4>1. PICK f \in Faces : dice = <<f>>
        BY <3>1
      <4> QED
        BY <4>1, OneWord
    <3>2. CASE dice \in Faces \X Faces
      <4>1. PICK f \in Faces, g \in Faces : dice = <<f, g>>
        BY <3>2
      <4>2. <<f, g>> \in Seq(Faces) /\ Len(<<f, g>>) = 2
        OBVIOUS
      <4> QED
        BY <4>1, <4>2
    <3> QED
      BY <2>1, <3>1, <3>2
  <2>3. Rolled(text, dice) = IF ~hero.inspired THEN {SubSeq(dice, 1, 1)}
                             ELSE IF Len(dice) = 2 THEN {dice} ELSE {Append(dice, f) : f \in Faces}
    BY <1>3 DEF Rolled
  <2>4. SubSeq(dice, 1, 1) \in Seq(Faces) /\ Len(SubSeq(dice, 1, 1)) = 1
    <3>1. 1 \in 1..Len(dice) + 1 /\ 1 \in 0..Len(dice) /\ Len(dice) \in Nat
      BY <2>2
    <3>2. SubSeq(dice, 1, 1) \in Seq(Faces) /\ Len(SubSeq(dice, 1, 1)) = IF 1 <= 1 THEN 1 - 1 + 1 ELSE 0
      BY <2>2, <3>1, SubSeqProperties
    <3> QED
      BY <3>2
  <2>5. CASE ~hero.inspired
    <3> DEFINE q == SubSeq(dice, 1, 1)
    <3>1. rolled = q
      BY <2>3, <2>5
    <3>2. q \in Seq(Faces) /\ Len(q) = 1
      BY <2>4
    <3> HIDE DEF q
    <3>3. Len(q) # 0 /\ Len(q) # 2
      BY ONLY <3>2
    <3>4. q # <<>>
      BY ONLY <3>3, EmptySeq
    <3> QED
      BY <3>1, <3>2, <3>3, <3>4, Zenon
  <2>6. CASE hero.inspired
    <3>1. \A f \in Faces : Append(dice, f) \in Seq(Faces) /\ Len(Append(dice, f)) = Len(dice) + 1
      BY <2>2, AppendProperties
    <3> QED
      BY <2>2, <2>3, <2>6, <3>1, EmptySeq
  <2> QED
    BY <2>5, <2>6
<1> QED
  BY <1>1, <1>2, <1>3

\* What a beat settles.
LEMMA SettleStep ==
    ASSUME TellingFits, act.stage = "asking", NEW draft, NEW words, NEW spoken,
           ~act.brief => Modest(act.text, draft, words, spoken),
           SettleBeat(draft, words, spoken, act.calls + 1)
    PROVE  TellingFits'
<1>1. /\ env \in Environments /\ row \in Rows /\ HeroFits(hero) /\ PointsKept(hero, burnt)
      /\ CalledFits(pending) /\ ActOf(act) /\ AskedFits(act, hero, env)
  BY DEF TellingFits
<1>2. env' = env /\ row' = row /\ pending' = pending /\ act' = NoAct
  BY DEF SettleBeat, Stays
<1>0. /\ act \in [ stage : {"none", "asking"}, text : Inputs \cup {{}}, by : Sources, row : Rows,
                   dice : Seq(Faces), dc : Int, called : Int, progress : BOOLEAN, near : BOOLEAN,
                   shift : Shifts \cup {0}, brief : BOOLEAN, dim : BOOLEAN, tries : {0, 1}, calls : {0, 1} ]
      /\ act.text \in Inputs /\ act.shift \in Shifts /\ act.by # "nothing" /\ NamedAs(act.by, act.row, env)
      /\ act.called # 0 => act.dc = act.called
      /\ Len(act.dice) = 2 => hero.inspired /\ FreeText(act.text)
      /\ ~act.brief => FreeText(act.text) /\ act.calls = 0 /\ ~act.dim
      /\ act.brief /\ FreeText(act.text) => act.calls = 1 /\ act.dim
      /\ Authored(act.text) => act.calls = 0
  BY <1>1 DEF ActOf, AskedFits
<1>3. HeroFits(hero') /\ PointsKept(hero', burnt')
  <2> DEFINE burns == Len(act.dice) = 2
             c == Counted(act.text, act.progress)
             l == Lit(c, act.text)
             h == [l EXCEPT !.near = act.near, !.shift = act.shift, !.inspired = @ /\ ~burns]
  <2>1. hero' = h /\ burnt' = IF burns THEN burnt + 1 ELSE burnt
    BY DEF SettleBeat
  <2>2. HeroFits(c) /\ c.points = hero.points /\ c.inspired = hero.inspired
    <3>1. hero \in [ near : BOOLEAN, shift : Shifts, inspired : BOOLEAN, points : Nat,
                     beats : Int, last : Int, walked : [Inputs -> Int] ]
      BY <1>1 DEF HeroFits
    <3> DEFINE w == [hero.walked EXCEPT ![act.text] = @ + 1]
               la == IF act.progress THEN hero.beats + 1 ELSE hero.last
               bt == hero.beats + 1
    <3>2. hero.walked \in [Inputs -> Int] /\ hero.beats \in Int /\ hero.last \in Int
      BY <3>1
    <3>3. \A n \in Int : n + 1 \in Int
      OBVIOUS
    <3>4. w \in [Inputs -> Int]
      BY <3>2, <3>3
    <3>5. la \in Int /\ bt \in Int
      BY <3>2
    <3>6. c = [hero EXCEPT !.beats = bt, !.last = la, !.walked = w]
      BY <3>1 DEF Counted
    <3> HIDE DEF w, la, bt, c
    <3> QED
      BY <3>1, <3>4, <3>5, <3>6 DEF HeroFits
  <2> HIDE DEF c
  <2>3. /\ HeroFits(l)
        /\ l.points + (IF l.inspired THEN 1 ELSE 0) = c.points + (IF c.inspired THEN 1 ELSE 0)
        /\ FreeText(act.text) => l = c
    <3>1. CASE ~(Spends(act.text) /\ ~c.inspired /\ c.points > 0)
      <4>1. l = c
        BY <3>1 DEF Lit
      <4> QED
        BY <2>2, <4>1
    <3>2. CASE Spends(act.text) /\ ~c.inspired /\ c.points > 0
      <4> DEFINE left == c.points - 1
      <4>1. l = [c EXCEPT !.inspired = TRUE, !.points = left]
        BY <3>2 DEF Lit
      <4>2. c \in [ near : BOOLEAN, shift : Shifts, inspired : BOOLEAN, points : Nat,
                    beats : Int, last : Int, walked : [Inputs -> Int] ]
        BY <2>2 DEF HeroFits
      <4>3. c.points \in Nat
        BY <4>2
      <4>4. left \in Nat /\ left + 1 = c.points
        BY <3>2, <4>3
      <4> HIDE DEF left, l
      <4>5. HeroFits(l) /\ l.points = left /\ l.inspired = TRUE
        BY <4>1, <4>2, <4>4 DEF HeroFits
      <4>6. ~FreeText(act.text)
        BY <3>2 DEF FreeText, Authored
      <4> QED
        BY <3>2, <4>4, <4>5, <4>6
    <3> QED
      BY <3>1, <3>2
  <2> HIDE DEF l
  <2>4. /\ HeroFits(h) /\ h.points = l.points
        /\ h.inspired = (l.inspired /\ ~burns)
    <3>1. act.near \in BOOLEAN /\ act.shift \in Shifts
      BY <1>0
    <3> HIDE DEF burns
    <3> QED
      BY <2>3, <3>1 DEF HeroFits
  <2> HIDE DEF h
  <2>5. burns => hero.inspired /\ l = c
    BY <1>0, <2>3
  <2> HIDE DEF burns
  <2>6. /\ hero.points \in Nat /\ hero.inspired \in BOOLEAN /\ l.points \in Nat /\ l.inspired \in BOOLEAN
        /\ burnt \in Nat /\ hero.points + burnt + (IF hero.inspired THEN 1 ELSE 0) = FirstPoints
    BY <1>1, <2>3 DEF HeroFits, PointsKept
  <2> DEFINE b == IF burns THEN burnt + 1 ELSE burnt
  <2>7. PointsKept(h, b)
    <3>1. CASE burns
      <4>1. h.points = hero.points /\ h.inspired = FALSE /\ b = burnt + 1 /\ hero.inspired = TRUE
        BY <2>2, <2>4, <2>5, <3>1
      <4> QED
        BY <2>6, <4>1 DEF PointsKept
    <3>2. CASE ~burns
      <4>1. h.points = l.points /\ h.inspired = l.inspired /\ b = burnt
        BY <2>4, <2>6, <3>2
      <4>2. l.points + (IF l.inspired THEN 1 ELSE 0) = hero.points + (IF hero.inspired THEN 1 ELSE 0)
        BY <2>2, <2>3
      <4> QED
        BY <2>6, <4>1, <4>2 DEF PointsKept
    <3> QED
      BY <3>1, <3>2
  <2> QED
    BY <2>1, <2>4, <2>7
<1>4. ActOf(act') /\ AskedFits(act', hero', env')
  BY <1>2 DEF NoAct, ActOf, AskedFits, Rows, Sources
<1>5. LineFits(line', env')
  <2>1. /\ line'.text = act.text /\ line'.by = act.by /\ line'.row = act.row /\ line'.dc = act.dc
        /\ line'.called = act.called /\ line'.draft = draft /\ line'.words = words /\ line'.spoken = spoken
        /\ line'.brief = act.brief /\ line'.dim = act.dim /\ line'.calls = act.calls + 1
    BY DEF SettleBeat
  <2>2. NamedAs(line'.by, line'.row, env')
    BY <1>0, <1>2, <2>1
  <2>3. ~line'.brief => Modest(line'.text, line'.draft, line'.words, line'.spoken)
    BY <2>1
  <2>4. line'.calls = IF line'.by = "nothing" THEN 0
                      ELSE IF line'.dim /\ FreeText(line'.text) THEN 2 ELSE 1
    BY <1>0, <2>1 DEF FreeText
  <2>5. line'.called # 0 => line'.dc = line'.called
    BY <1>0, <2>1
  <2> QED
    BY <2>2, <2>3, <2>4, <2>5 DEF LineFits
<1> QED
  BY <1>1, <1>2, <1>3, <1>4, <1>5 DEF TellingFits

\* A check is thrown at the DC it was called with.
LEMMA BegunFits ==
    ASSUME TellingFits, Idle, Connection.by # "nothing", NEW text \in Inputs, NEW dice, NEW rolled \in Seq(Faces),
           NEW progress \in BOOLEAN, NEW near \in BOOLEAN, NEW shift \in Shifts,
           dice # <<>> => FreeText(text) /\ rolled # <<>> /\ pending.dc = DcOf(text),
           Len(rolled) = 2 => hero.inspired /\ FreeText(text),
           act' = Begun(text, dice, rolled, progress, near, shift),
           UNCHANGED <<env, row, hero, pending, line, burnt>>
    PROVE  TellingFits'
<1>0. /\ env \in Environments /\ row \in Rows /\ HeroFits(hero) /\ PointsKept(hero, burnt)
      /\ CalledFits(pending) /\ LineFits(line, env)
  BY DEF TellingFits
<1> DEFINE dc == IF rolled = <<>> THEN 0 ELSE DcOf(text)
           dcWas == IF dice = <<>> THEN 0 ELSE pending.dc
           brief == Authored(text)
           dim == Authored(text) /\ Diminishes(text, progress)
<1>1. Connection.by \in Sources /\ NamedAs(Connection.by, row, env)
  BY <1>0, ConnectionNames
<1>2. DcOf(text) \in Int
  <2>1. hero.shift \in Int
    BY <1>0, TellingAssumption DEF HeroFits
  <2>2. CheckOf(text).dc \in Int
    BY DcIsNumber
  <2>3. \A n \in Int : AtLeastOne(n) \in Int
    BY DEF AtLeastOne
  <2> QED
    BY <2>1, <2>2, <2>3, SMTT(30) DEF DcOf
<1>3. dc \in Int /\ dcWas \in Int /\ (dcWas # 0 => dc = dcWas)
  BY <1>2
<1>4. brief \in BOOLEAN /\ dim \in BOOLEAN /\ (dim => brief) /\ (brief <=> ~FreeText(text))
  BY DEF Authored, FreeText
<1>5. act' = [ stage |-> "asking", text |-> text, by |-> Connection.by, row |-> row, dice |-> rolled,
               dc |-> dc, called |-> dcWas, progress |-> progress, near |-> near, shift |-> shift,
               brief |-> brief, dim |-> dim, tries |-> 0, calls |-> 0 ]
  BY ZenonT(60) DEF Begun, NoAct
<1>9. brief = Authored(text)
  OBVIOUS
<1> HIDE DEF dc, dcWas, brief, dim
<1>6. ActOf(act')
  BY <1>0, <1>1, <1>3, <1>4, <1>5 DEF ActOf
<1>7. AskedFits(act', hero, env)
  BY <1>1, <1>3, <1>4, <1>5, <1>9 DEF AskedFits
<1> QED
  BY <1>0, <1>6, <1>7 DEF TellingFits

\* No saved state is the empty one of NoPending.
LEMMA BoardIsReal ==
    ASSUME NEW h, HeroFits(h)
    PROVE  h # <<>>
<1>1. DOMAIN h = {"near", "shift", "inspired", "points", "beats", "last", "walked"}
  BY DEF HeroFits
<1>2. DOMAIN <<>> = {}
  OBVIOUS
<1> QED
  BY <1>1, <1>2

\* A free text is sent, with the die thrown for its check or without.
LEMMA FreeStep == ASSUME TellingFits, BeginFree PROVE TellingFits'
<1>0. HeroFits(hero) /\ CalledFits(pending)
  BY DEF TellingFits
<1>1. PICK text \in Inputs : FreeText(text) /\
         \E dice \in {<<>>} \cup {<<f>> : f \in Faces} \cup (Faces \X Faces) :
              /\ Throws(text, dice) /\ ~Expired(text, dice) /\ ~Suspends(text, dice)
              /\ \E rolled \in Rolled(text, dice) :
                   act' = Begun(text, dice, rolled, rolled # <<>>, hero.near, hero.shift)
  BY DEF BeginFree
<1>2. PICK dice \in {<<>>} \cup {<<f>> : f \in Faces} \cup (Faces \X Faces) :
              /\ Throws(text, dice) /\ ~Expired(text, dice) /\ ~Suspends(text, dice)
              /\ \E rolled \in Rolled(text, dice) :
                   act' = Begun(text, dice, rolled, rolled # <<>>, hero.near, hero.shift)
  BY <1>1
<1>3. PICK rolled \in Rolled(text, dice) :
                   act' = Begun(text, dice, rolled, rolled # <<>>, hero.near, hero.shift)
  BY <1>2
<1>4. /\ rolled \in Seq(Faces)
      /\ Len(rolled) = 2 => hero.inspired
      /\ dice # <<>> /\ Rolls(text) /\ ~CheckOf(text).hidden => rolled # <<>>
  BY <1>1, <1>2, RolledIs
<1>5. ASSUME dice # <<>>
      PROVE  Rolls(text) /\ ~CheckOf(text).hidden /\ pending.dc = DcOf(text)
  <2>1. pending.text = text /\ pending.board = hero
    BY <1>2, <1>5 DEF Throws, Expired
  <2>2. pending # NoPending
    BY <1>0, <2>1, BoardIsReal DEF NoPending
  <2> QED
    BY <1>0, <2>1, <2>2 DEF CalledFits, RollsAt, DcAt, Rolls, Aimed, DcOf
<1>6. hero.near \in BOOLEAN /\ hero.shift \in Shifts
  BY <1>0 DEF HeroFits
<1>7. Idle /\ Connection.by # "nothing" /\ UNCHANGED <<env, row, hero, pending, line, burnt>>
  BY DEF BeginFree, Stays
<1> DEFINE progress == rolled # <<>>
<1>8. progress \in BOOLEAN
  OBVIOUS
<1>9. act' = Begun(text, dice, rolled, progress, hero.near, hero.shift)
  BY <1>3
<1> HIDE DEF progress
<1> QED
  BY <1>1, <1>4, <1>5, <1>6, <1>7, <1>8, <1>9, BegunFits

\* An authored choice is sent.
LEMMA AuthoredStep == ASSUME TellingFits, BeginAuthored PROVE TellingFits'
<1>0. HeroFits(hero)
  BY DEF TellingFits
<1>1. PICK text \in Inputs : Authored(text) /\
         (\/ act' = Begun(text, <<>>, <<>>, FALSE, hero.near, hero.shift)
          \/ /\ ~Spends(text)
             /\ \E near \in BOOLEAN, shift \in Shifts :
                    act' = Begun(text, <<>>, <<>>, TRUE, near, shift))
  BY DEF BeginAuthored
<1>2. \E progress \in BOOLEAN, near \in BOOLEAN, shift \in Shifts :
         act' = Begun(text, <<>>, <<>>, progress, near, shift)
  <2>1. hero.near \in BOOLEAN /\ hero.shift \in Shifts
    BY <1>0 DEF HeroFits
  <2>2. CASE act' = Begun(text, <<>>, <<>>, FALSE, hero.near, hero.shift)
    BY <2>1, <2>2
  <2>3. CASE \E near \in BOOLEAN, shift \in Shifts :
                    act' = Begun(text, <<>>, <<>>, TRUE, near, shift)
    BY <2>3
  <2> QED
    BY <1>1, <2>2, <2>3
<1>3. PICK progress \in BOOLEAN, near \in BOOLEAN, shift \in Shifts :
         act' = Begun(text, <<>>, <<>>, progress, near, shift)
  BY <1>2
<1>4. <<>> \in Seq(Faces) /\ Len(<<>>) = 0
  OBVIOUS
<1>5. Idle /\ Connection.by # "nothing" /\ UNCHANGED <<env, row, hero, pending, line, burnt>>
  BY DEF BeginAuthored, Stays
<1> DEFINE e == <<>>
<1>6. act' = Begun(text, e, e, progress, near, shift)
  BY <1>3
<1>7. e \in Seq(Faces) /\ Len(e) = 0 /\ e = <<>>
  BY <1>4
<1> HIDE DEF e
<1>8. ~(Len(e) = 2) /\ ~(e # <<>>)
  BY <1>7
<1> QED
  BY <1>5, <1>6, <1>7, <1>8, BegunFits

\* A check is called before anything is told.
LEMMA CalledStep == ASSUME TellingFits, CheckCalled PROVE TellingFits'
<1>0. /\ env \in Environments /\ row \in Rows /\ HeroFits(hero) /\ PointsKept(hero, burnt)
      /\ ActOf(act) /\ AskedFits(act, hero, env) /\ LineFits(line, env)
  BY DEF TellingFits
<1>1. UNCHANGED <<env, row, hero, act, line, burnt>>
  BY DEF CheckCalled, Stays
<1>2. PICK text \in Inputs :
         /\ Suspends(text, <<>>)
         /\ pending' = [ text |-> text, board |-> hero, dc |-> DcOf(text),
                         long |-> LongOdds(DcOf(text)), advantage |-> hero.inspired ]
  BY DEF CheckCalled
<1>3. DcOf(text) = DcAt(hero, text) /\ RollsAt(hero, text)
  BY <1>2 DEF Suspends, Rolls, Aimed, RollsAt, DcOf, DcAt
<1>4. DcOf(text) \in Int
  <2>1. hero.shift \in Int
    BY <1>0, TellingAssumption DEF HeroFits
  <2>2. CheckOf(text).dc \in Int
    BY DcIsNumber
  <2>3. \A n \in Int : AtLeastOne(n) \in Int
    BY DEF AtLeastOne
  <2> QED
    BY <2>1, <2>2, <2>3 DEF DcOf
<1>5. CalledFits(pending')
  BY <1>2, <1>3, <1>4 DEF CalledFits, Suspends
<1> QED
  BY <1>0, <1>1, <1>5 DEF TellingFits

\* A request that leaves no trace but its answer.
LEMMA DroppedStep ==
    ASSUME TellingFits, act' = NoAct \/ act' = act, UNCHANGED <<env, row, hero, pending, line, burnt>>
    PROVE  TellingFits'
<1>1. ActOf(NoAct) /\ AskedFits(NoAct, hero, env)
  <2>1. <<>> \in Seq(Faces)
    OBVIOUS
  <2> QED
    BY <2>1 DEF NoAct, ActOf, AskedFits, Rows, Sources
<1> QED
  BY <1>1 DEF TellingFits

\* What the call may come to.
LEMMA CallAnswered == ASSUME TellingFits, NoAnswer \/ TellFree PROVE TellingFits'
<1>0. /\ env \in Environments /\ row \in Rows /\ HeroFits(hero) /\ PointsKept(hero, burnt)
      /\ CalledFits(pending) /\ ActOf(act) /\ AskedFits(act, hero, env) /\ LineFits(line, env)
  BY DEF TellingFits
<1>1. ASSUME NEW brief \in BOOLEAN, NEW dim \in BOOLEAN, NEW tries \in {0, 1}, NEW calls \in {0, 1},
             act' = [act EXCEPT !.brief = brief, !.dim = dim, !.tries = tries, !.calls = calls],
             AskedFits([act EXCEPT !.brief = brief, !.dim = dim, !.tries = tries, !.calls = calls], hero, env),
             UNCHANGED <<env, row, hero, pending, line, burnt>>
      PROVE  TellingFits'
  <2>1. ActOf(act')
    BY <1>0, <1>1, ZenonT(60) DEF ActOf
  <2> QED
    BY <1>0, <1>1, <2>1 DEF TellingFits
<1>2. CASE NoAnswer
  <2>1. CASE TriesAgain
    <3>1. act' = [act EXCEPT !.tries = 1] /\ UNCHANGED <<env, row, hero, pending, line, burnt>>
      BY <1>2, <2>1 DEF NoAnswer, Stays
    <3>2. ActOf(act') /\ AskedFits(act', hero, env)
      BY <1>0, <3>1 DEF ActOf, AskedFits
    <3> QED
      BY <1>0, <3>1, <3>2 DEF TellingFits
  <2>2. CASE ~TriesAgain
    <3>1. act' = NoAct /\ UNCHANGED <<env, row, hero, pending, line, burnt>>
      BY <1>2, <2>2 DEF NoAnswer, FailedTurn, Stays
    <3> QED
      BY <3>1, DroppedStep
  <2> QED
    BY <2>1, <2>2
<1>3. CASE TellFree
  <2>1. act.stage = "asking" /\ ~act.brief
    BY <1>3 DEF TellFree
  <2>2. PICK reply \in Completions :
         IF Diminishes(act.text, act.progress)
         THEN /\ act' = [act EXCEPT !.brief = TRUE, !.dim = TRUE, !.tries = 0, !.calls = @ + 1]
              /\ Stays /\ UNCHANGED <<hero, pending, answer, line, burnt, acts>>
         ELSE SettleBeat(DraftOf(act.text, reply), Repaired(DraftOf(act.text, reply)), Spoken(reply),
                         act.calls + 1)
    BY <1>3 DEF TellFree
  <2>3. CASE Diminishes(act.text, act.progress)
    <3>1. /\ act' = [act EXCEPT !.brief = TRUE, !.dim = TRUE, !.tries = 0, !.calls = @ + 1]
          /\ UNCHANGED <<env, row, hero, pending, line, burnt>>
      BY <2>2, <2>3 DEF Stays
    <3>2. act.calls = 0 /\ FreeText(act.text)
      BY <1>0, <2>1 DEF AskedFits
    <3> DEFINE twice == [act EXCEPT !.brief = TRUE, !.dim = TRUE, !.tries = 0, !.calls = 1]
    <3>3. act' = twice
      BY <3>1, <3>2
    <3>4. AskedFits(twice, hero, env)
      BY <1>0, <3>2 DEF ActOf, AskedFits, FreeText
    <3> QED
      BY <1>1, <3>1, <3>3, <3>4
  <2>4. CASE ~Diminishes(act.text, act.progress)
    <3>1. Modest(act.text, DraftOf(act.text, reply), Repaired(DraftOf(act.text, reply)), Spoken(reply))
      BY DeliveredModest
    <3> QED
      BY <2>1, <2>2, <2>4, <3>1, SettleStep
  <2> QED
    BY <2>3, <2>4
<1> QED
  BY <1>2, <1>3

\* A brief is told.
LEMMA BriefStep == ASSUME TellingFits, TellBrief PROVE TellingFits'
<1>1. PICK reply \in Completions : SettleBeat(Prose(reply), Prose(reply), Spoken(reply), act.calls + 1)
  BY DEF TellBrief
<1> QED
  BY <1>1, SettleStep DEF TellBrief

\* The settings are saved whole, or not at all.
LEMMA SavedStep == ASSUME TellingFits, PutSettings PROVE TellingFits'
<1>1. UNCHANGED <<env, hero, pending, act, line, burnt>>
  BY DEF PutSettings
<1>2. row' \in Rows
  <2>1. \A locked \in BOOLEAN : [name |-> "compat", whole |-> TRUE, key |-> locked] \in Settings
    BY DEF Settings
  <2> QED
    BY <2>1 DEF PutSettings, Rows, TellingFits
<1> QED
  BY <1>1, <1>2 DEF TellingFits

\* The invariant holds of a campaign just created.
LEMMA ToldInit == TellingInit => TellingFits
<1> SUFFICES ASSUME TellingInit PROVE TellingFits
  OBVIOUS
<1>0. /\ env \in Environments /\ row \in FirstRows
      /\ pending = NoPending /\ act = NoAct /\ line = NoLine /\ burnt = 0
  BY DEF TellingInit
<1>1. env \in Environments /\ row \in Rows
  BY <1>0, TellingAssumption DEF Rows
<1>2. HeroFits(hero) /\ PointsKept(hero, burnt)
  <2>1. PICK near \in BOOLEAN, shift \in Shifts :
         hero = [ near |-> near, shift |-> shift, inspired |-> FALSE, points |-> FirstPoints,
                  beats |-> 0, last |-> 0, walked |-> [t \in Inputs |-> 0] ]
    BY DEF TellingInit
  <2>2. FirstPoints \in Nat /\ burnt = 0
    BY <1>0, TellingAssumption
  <2> QED
    BY <2>1, <2>2 DEF HeroFits, PointsKept
<1>3. CalledFits(pending)
  BY <1>0 DEF CalledFits
<1>4. ActOf(act) /\ AskedFits(act, hero, env)
  <2>1. <<>> \in Seq(Faces)
    OBVIOUS
  <2> QED
    BY <1>0, <2>1 DEF NoAct, ActOf, AskedFits, Rows, Sources
<1>5. LineFits(line, env)
  BY <1>0 DEF NoLine, LineFits, NamedAs
<1> QED
  BY <1>1, <1>2, <1>3, <1>4, <1>5 DEF TellingFits

\* Every request, answer and save keeps the invariant.
LEMMA TellingMoves == TellingFits /\ [TellingNext]_tellingVars => TellingFits'
<1> SUFFICES ASSUME TellingFits, [TellingNext]_tellingVars PROVE TellingFits'
  OBVIOUS
<1>1. CASE PutSettings
  BY <1>1, SavedStep
<1>2. CASE GetSettings
  BY <1>2, DroppedStep DEF GetSettings
<1>3. CASE Refused
  BY <1>3, DroppedStep DEF Refused, Stays
<1>4. CASE CheckExpired
  BY <1>4, DroppedStep DEF CheckExpired, Stays
<1>5. CASE CheckCalled
  BY <1>5, CalledStep
<1>6. CASE BeginFree
  BY <1>6, FreeStep
<1>7. CASE BeginAuthored
  BY <1>7, AuthoredStep
<1>8. CASE NoAnswer \/ TellFree
  BY <1>8, CallAnswered
<1>9. CASE Malformed
  BY <1>9, DroppedStep DEF Malformed, FailedTurn, Stays
<1>10. CASE TellBrief
  BY <1>10, BriefStep
<1>11. CASE UNCHANGED tellingVars
  BY <1>11, DroppedStep DEF tellingVars
<1> QED
  BY <1>1, <1>2, <1>3, <1>4, <1>5, <1>6, <1>7, <1>8, <1>9, <1>10, <1>11 DEF TellingNext

\* Whoever tells a line is whom the account named when it was asked, what free
\* text is answered with grants nothing, a check is thrown at the DC and the odds
\* it was called with, and Inspiration is in hand, lit or spent by a throw: for
\* any texts, completions, dice, relationships and number of requests and saves.
THEOREM TellingStaysSound == TellingSpec => []TellingSound
<1>1. TellingInit => TellingFits
  BY ToldInit
<1>2. TellingFits /\ [TellingNext]_tellingVars => TellingFits'
  BY TellingMoves
<1>3. TellingFits => TellingSound
  BY ToldIsSound
<1> QED
  BY <1>1, <1>2, <1>3, PTL DEF TellingSpec

\* The counters of the saved state, and those of the requests and the saves.
Counting ==
    /\ hero.beats \in Nat /\ hero.last \in Nat /\ hero.walked \in [Inputs -> Nat]
    /\ acts \in 0..MaxActs /\ (act.stage = "asking" => acts < MaxActs)
    /\ saves \in 0..MaxSaves

\* The settled beat counts once, wherever it was.
LEMMA SettledCounts ==
    ASSUME TellingFits, Counting, act.stage = "asking",
           NEW draft, NEW words, NEW spoken, NEW tries, SettleBeat(draft, words, spoken, tries)
    PROVE  Counting'
<1>1. /\ HeroFits(hero) /\ ActOf(act) /\ act.text \in Inputs
  BY DEF TellingFits, AskedFits
<1> DEFINE c == Counted(act.text, act.progress)
           l == Lit(c, act.text)
<1>2. c = [ hero EXCEPT !.beats = hero.beats + 1,
                        !.last = IF act.progress THEN hero.beats + 1 ELSE hero.last,
                        !.walked[act.text] = hero.walked[act.text] + 1 ]
  BY DEF Counted
<1>3. c.beats \in Nat /\ c.last \in Nat /\ c.walked \in [Inputs -> Nat]
  <2>1. c.beats = hero.beats + 1 /\ c.last = (IF act.progress THEN hero.beats + 1 ELSE hero.last)
    BY <1>1, <1>2 DEF HeroFits
  <2>2. c.walked = [hero.walked EXCEPT ![act.text] = hero.walked[act.text] + 1]
    BY <1>1, <1>2 DEF HeroFits
  <2> HIDE DEF c
  <2> QED
    BY <1>1, <2>1, <2>2 DEF Counting
<1>4. c \in [ near : BOOLEAN, shift : Shifts, inspired : BOOLEAN, points : Nat,
              beats : Int, last : Int, walked : [Inputs -> Int] ]
  <2>1. /\ hero \in [ near : BOOLEAN, shift : Shifts, inspired : BOOLEAN, points : Nat,
                      beats : Int, last : Int, walked : [Inputs -> Int] ]
        /\ act.text \in Inputs
    BY <1>1 DEF HeroFits
  <2> DEFINE b == hero.beats + 1
             z == IF act.progress THEN hero.beats + 1 ELSE hero.last
             w == [hero.walked EXCEPT ![act.text] = hero.walked[act.text] + 1]
  <2>2. b \in Int /\ z \in Int /\ w \in [Inputs -> Int]
    BY <2>1
  <2>3. c = [hero EXCEPT !.beats = b, !.last = z, !.walked = w]
    BY <1>2, <2>1
  <2> HIDE DEF b, z, w, c
  <2> QED
    BY <2>1, <2>2, <2>3
<1> HIDE DEF c
<1>5. l.beats = c.beats /\ l.last = c.last /\ l.walked = c.walked
  BY <1>4 DEF Lit
<1>6. l \in [ near : BOOLEAN, shift : Shifts, inspired : BOOLEAN, points : Int,
              beats : Int, last : Int, walked : [Inputs -> Int] ]
  <2>1. c.points - 1 \in Int /\ c.points \in Int /\ TRUE \in BOOLEAN
    BY <1>4
  <2>2. l = c \/ l = [c EXCEPT !.inspired = TRUE, !.points = c.points - 1]
    BY DEF Lit
  <2> HIDE DEF l
  <2>3. CASE l = c
    BY <1>4, <2>1, <2>3
  <2>4. CASE l = [c EXCEPT !.inspired = TRUE, !.points = c.points - 1]
    BY <1>4, <2>1, <2>4
  <2> QED
    BY <2>2, <2>3, <2>4
<1>7. \E burns \in BOOLEAN :
        hero' = [ l EXCEPT !.near = act.near, !.shift = act.shift, !.inspired = l.inspired /\ burns ]
  BY Zenon DEF SettleBeat, l, c
<1> HIDE DEF l
<1>8. hero'.beats = l.beats /\ hero'.last = l.last /\ hero'.walked = l.walked
  BY <1>6, <1>7
<1>9. acts' = acts + 1 /\ saves' = saves /\ act' = NoAct
  BY Zenon DEF SettleBeat, Reported, Stays
<1>10. MaxActs \in Nat /\ act'.stage # "asking"
  BY <1>9, TellingAssumption DEF TellingAssumption, NoAct
<1> QED
  BY <1>3, <1>5, <1>8, <1>9, <1>10 DEF Counting

\* A beat and a request are counted once, whatever becomes of the call.
LEMMA CountingStep == TellingFits /\ Counting /\ [TellingNext]_tellingVars => Counting'
<1> SUFFICES ASSUME TellingFits, Counting, [TellingNext]_tellingVars PROVE Counting'
  OBVIOUS
<1>0. MaxActs \in Nat /\ MaxSaves \in Nat
  BY TellingAssumption DEF TellingAssumption
<1>1. CASE PutSettings
  <2>1. hero' = hero /\ acts' = acts /\ act' = act /\ saves < MaxSaves /\ saves' = saves + 1
    BY <1>1, Zenon DEF PutSettings
  <2> QED
    BY <1>0, <2>1 DEF Counting
<1>2. CASE GetSettings
  BY <1>2 DEF GetSettings, Counting
<1>3. CASE Refused \/ CheckExpired \/ CheckCalled
  <2>1. hero' = hero /\ saves' = saves /\ act' = act /\ acts' = acts + 1 /\ acts < MaxActs /\ act.stage = "none"
    BY <1>3, Zenon DEF Refused, CheckExpired, CheckCalled, Idle, Reported, Stays
  <2> QED
    BY <1>0, <2>1 DEF Counting
<1>4. CASE BeginFree \/ BeginAuthored
  <2>1. hero' = hero /\ saves' = saves /\ acts' = acts /\ acts < MaxActs
    BY <1>4, Zenon DEF BeginFree, BeginAuthored, Idle, Stays
  <2> QED
    BY <1>0, <2>1 DEF Counting
<1>5. ASSUME NEW code, FailedTurn(code), act.stage = "asking"
      PROVE  Counting'
  <2>1. hero' = hero /\ saves' = saves /\ acts' = acts + 1 /\ act' = NoAct
    BY <1>5, Zenon DEF FailedTurn, Reported, Stays
  <2>2. act'.stage # "asking"
    BY <2>1 DEF NoAct
  <2> QED
    BY <1>0, <1>5, <2>1, <2>2 DEF Counting
<1>6. CASE NoAnswer
  <2>1. CASE TriesAgain
    <3>1. hero' = hero /\ saves' = saves /\ acts' = acts /\ act.stage = "asking"
      BY <1>6, <2>1, Zenon DEF NoAnswer, Stays
    <3> QED
      BY <1>0, <3>1 DEF Counting
  <2>2. CASE ~TriesAgain
    BY <1>5, <1>6, <2>2, Zenon DEF NoAnswer
  <2> QED
    BY <2>1, <2>2
<1>7. CASE Malformed
  BY <1>5, <1>7, Zenon DEF Malformed
<1>8. CASE TellBrief
  BY <1>8, SettledCounts, Zenon DEF TellBrief
<1>9. CASE TellFree
  <2>1. PICK reply \in Completions :
         IF Diminishes(act.text, act.progress)
         THEN /\ act' = [act EXCEPT !.brief = TRUE, !.dim = TRUE, !.tries = 0, !.calls = @ + 1]
              /\ Stays /\ UNCHANGED <<hero, pending, answer, line, burnt, acts>>
         ELSE SettleBeat(DraftOf(act.text, reply), Repaired(DraftOf(act.text, reply)), Spoken(reply),
                         act.calls + 1)
    BY <1>9, Zenon DEF TellFree
  <2>2. act.stage = "asking"
    BY <1>9, Zenon DEF TellFree
  <2>3. CASE Diminishes(act.text, act.progress)
    <3>1. hero' = hero /\ saves' = saves /\ acts' = acts
      BY <2>1, <2>3, Zenon DEF Stays
    <3> QED
      BY <1>0, <2>2, <3>1 DEF Counting
  <2>4. CASE ~Diminishes(act.text, act.progress)
    BY <2>1, <2>2, <2>4, SettledCounts, Zenon
  <2> QED
    BY <2>3, <2>4
<1>10. CASE UNCHANGED tellingVars
  BY <1>10 DEF tellingVars, Counting
<1> QED
  BY <1>1, <1>2, <1>3, <1>4, <1>6, <1>7, <1>8, <1>9, <1>10 DEF TellingNext

\* No more Inspiration is in hand or burnt than there ever was, a beat is
\* counted once, and the locals of a request stay what they are for.
THEOREM TellingTyped == TellingSpec => []TellingTypeOK
<1>0. FirstPoints \in Nat /\ MaxActs \in Nat /\ MaxSaves \in Nat
  BY TellingAssumption DEF TellingAssumption
<1>1. TellingInit => TellingFits /\ Counting
  <2> SUFFICES ASSUME TellingInit PROVE Counting
    BY ToldInit
  <2>1. hero.beats = 0 /\ hero.last = 0 /\ hero.walked = [t \in Inputs |-> 0]
    <3>1. PICK near \in BOOLEAN, shift \in Shifts :
             hero = [ near |-> near, shift |-> shift, inspired |-> FALSE, points |-> FirstPoints,
                      beats |-> 0, last |-> 0, walked |-> [t \in Inputs |-> 0] ]
      BY Zenon DEF TellingInit
    <3> QED
      BY <3>1
  <2>2. acts = 0 /\ saves = 0 /\ act.stage = "none"
    BY DEF TellingInit, NoAct
  <2> QED
    BY <1>0, <2>1, <2>2 DEF Counting
<1>2. TellingFits /\ Counting /\ [TellingNext]_tellingVars => TellingFits' /\ Counting'
  BY TellingMoves, CountingStep
<1>3. TellingFits /\ Counting => TellingTypeOK
  <2> SUFFICES ASSUME TellingFits, Counting PROVE TellingTypeOK
    OBVIOUS
  <2>1. hero \in [ near : BOOLEAN, shift : Shifts, inspired : BOOLEAN, points : Nat,
                   beats : Int, last : Int, walked : [Inputs -> Int] ]
    BY DEF TellingFits, HeroFits
  <2>2. hero.points \in 0..FirstPoints /\ burnt \in 0..FirstPoints
    <3>1. hero.points \in Nat /\ burnt \in Nat /\ hero.points + burnt + (IF hero.inspired THEN 1 ELSE 0) = FirstPoints
      BY <2>1 DEF TellingFits, PointsKept
    <3> QED
      BY <1>0, <3>1
  <2>3. hero \in Hero
    BY <2>1, <2>2 DEF Hero, Counting
  <2>4. act.stage \in {"none", "asking"} /\ act.tries \in 0..1 /\ act.calls \in 0..1
    BY DEF TellingFits, ActOf
  <2>5. acts \in 0..MaxActs + 1 /\ saves \in 0..MaxSaves /\ row \in Settings \cup {NoSettings}
    BY <1>0 DEF Counting, TellingFits, Rows
  <2> QED
    BY <2>2, <2>3, <2>4, <2>5 DEF TellingTypeOK
<1> QED
  BY <1>1, <1>2, <1>3, PTL DEF TellingSpec

-----------------------------------------------------------------------------
(* The people *)

\* A number in whole parts of 120, and what is left.
LEMMA HourParts ==
    ASSUME NEW x \in Int
    PROVE  x \div 120 \in Int /\ 120 * (x \div 120) <= x /\ x < 120 * (x \div 120) + 120
  OBVIOUS

\* The rate a mood ebbs at.
Ebbed(level, minutes) == RoundAway(60 * level - 2500 * minutes, 60)

\* A level is a number from 0 to 10000.
LEMMA LevelsAreNat == \A x \in Levels : x \in Nat /\ x <= 10000
  BY DEF Levels

\* And every such number is one.
LEMMA NatIsLevel == \A x \in Nat : x <= 10000 => x \in Levels
  BY SMTT(30) DEF Levels

\* Rounding a sixtieth away from zero, as whole parts.
LEMMA SixtyParts ==
    ASSUME NEW n \in Int
    PROVE  RoundAway(n, 60) = IF n >= 0 THEN (2 * n + 60) \div 120 ELSE -((60 - 2 * n) \div 120)
<1>1. 2 * 60 = 120
  OBVIOUS
<1> QED
  BY <1>1 DEF RoundAway

\* A mood that has not ebbed to rest lost its due for every minute.
LEMMA FadesByTheHour ==
    ASSUME NEW level \in Levels, NEW minutes \in Nat \ {0}
    PROVE  /\ Ebbed(level, minutes) \in Int
           /\ Ebbed(level, minutes) > 200 => 2 * Ebbed(level, minutes) <= 2 * level - 83 * minutes
<1> DEFINE n == 60 * level - 2500 * minutes
           up == 2 * n + 60
           down == 60 - 2 * n
           next == Ebbed(level, minutes)
           less == 2 * level - 83 * minutes
<1>0. n \in Int /\ up \in Int /\ down \in Int /\ level \in Nat /\ less \in Int
  BY DEF Levels
<1>5. next = RoundAway(n, 60)
  BY DEF Ebbed
<1> HIDE DEF next, less
<1>1. ASSUME n >= 0
      PROVE  next \in Int /\ 2 * next <= less
  <2> DEFINE q == up \div 120
  <2>1. next = q
    BY <1>0, <1>1, <1>5, SixtyParts
  <2>2. q \in Int /\ 120 * q <= up /\ up < 120 * q + 120
    BY <1>0, HourParts
  <2> HIDE DEF q
  <2>3. q \in Int /\ 120 * q <= 120 * level - 5000 * minutes + 60
    BY <1>0, <2>2
  <2>4. 2 * q <= less
    BY <1>0, <2>3 DEF less
  <2> QED
    BY <2>1, <2>3, <2>4
<1>2. ASSUME ~(n >= 0)
      PROVE  next \in Int /\ ~(next > 200)
  <2> DEFINE q == down \div 120
  <2>1. next = -q
    BY <1>0, <1>2, <1>5, SixtyParts
  <2>2. q \in Int /\ 120 * q <= down /\ down < 120 * q + 120
    BY <1>0, HourParts
  <2> HIDE DEF q
  <2>3. q >= 0
    BY <1>0, <1>2, <2>2
  <2> QED
    BY <2>1, <2>2, <2>3
<1> HIDE DEF n
<1>4. next \in Int /\ (next > 200 => 2 * next <= less)
  BY <1>1, <1>2
<1> QED
  BY <1>4 DEF next, less

\* Taking one mood out leaves the others in their order.
LEMMA WithoutIs ==
    ASSUME NEW S, NEW l \in Seq(S), NEW i \in DOMAIN l
    PROVE  /\ Without(l, i) \in Seq(S)
           /\ Len(Without(l, i)) = Len(l) - 1
           /\ \A j \in 1..Len(l) - 1 : Without(l, i)[j] = l[IF j < i THEN j ELSE j + 1]
<1> DEFINE a == SubSeq(l, 1, i - 1)
           b == SubSeq(l, i + 1, Len(l))
<1>1. i \in 1..Len(l) /\ Len(l) \in Nat
  OBVIOUS
<1>2. a \in Seq(S) /\ Len(a) = i - 1 /\ \A j \in 1..i - 1 : a[j] = l[j]
  BY <1>1
<1>3. b \in Seq(S) /\ Len(b) = Len(l) - i /\ \A j \in 1..Len(l) - i : b[j] = l[i + j]
  BY <1>1
<1> HIDE DEF a, b
<1>4. a \o b \in Seq(S) /\ Len(a \o b) = Len(a) + Len(b)
      /\ \A j \in 1..Len(a) + Len(b) : (a \o b)[j] = IF j <= Len(a) THEN a[j] ELSE b[j - Len(a)]
  BY <1>2, <1>3, ConcatProperties
<1>5. Without(l, i) = a \o b
  BY DEF Without, a, b
<1> DEFINE w == Without(l, i)
<1>6. /\ w \in Seq(S) /\ Len(w) = Len(l) - 1
      /\ \A j \in 1..Len(l) - 1 : w[j] = IF j <= i - 1 THEN a[j] ELSE b[j - (i - 1)]
  <2> DEFINE c == a \o b
  <2>1. w = c /\ c \in Seq(S) /\ Len(c) = Len(a) + Len(b)
        /\ \A j \in 1..Len(a) + Len(b) : c[j] = IF j <= Len(a) THEN a[j] ELSE b[j - Len(a)]
    BY <1>4, <1>5, Zenon
  <2> HIDE DEF c, w
  <2>2. Len(a) = i - 1 /\ Len(a) + Len(b) = Len(l) - 1
    BY <1>1, <1>2, <1>3
  <2> QED
    BY <2>1, <2>2
<1> HIDE DEF w
<1>7. ASSUME NEW j \in 1..Len(l) - 1
      PROVE  w[j] = l[IF j < i THEN j ELSE j + 1]
  <2>1. CASE j < i
    BY <1>1, <1>2, <1>6, <2>1
  <2>2. CASE ~(j < i)
    <3> DEFINE k == j - (i - 1)
    <3>1. w[j] = b[k]
      BY <1>1, <1>6, <2>2
    <3>2. k \in 1..Len(l) - i /\ i + k = j + 1
      BY <1>1, <2>2
    <3> HIDE DEF k
    <3> QED
      BY <1>3, <2>2, <3>1, <3>2
  <2> QED
    BY <2>1, <2>2
<1> QED BY <1>6, <1>7 DEF w

\* A mood that is worn is one the settings allow.
LEMMA WornFits ==
    ASSUME RegardAssumption, who \in People, nsfw \in BOOLEAN, NEW word \in Words
    PROVE  /\ Worn(word) \in Words
           /\ Worn(word) \in Gated => nsfw
           /\ Profile.rest \in Words \ Gated
<1>0. who \in {"marla", "borin", "sella", "tomm", "anselm"}
  BY DEF RegardAssumption
<1>1. Profile.rest \in Words \ Gated
  BY <1>0 DEF Profile, Profiles, Words, Gated
<1> DEFINE w == At(Profile.wears, word, word)
<1>2. w \in Words
  BY <1>0 DEF Profile, Profiles, Words, At
<1>3. \A v \in Words : At(Fallback, v, v) \in Words \ Gated
  BY DEF Fallback, Words, Gated, At
<1> QED BY <1>1, <1>2, <1>3 DEF Worn, Surfaced, Gated

\* A mood is left by the boundaries of its request and fades on the clock: in
\* ten-thousandths, at least 83 in two minutes, until it is gone.
MoodFits(m, since, let) ==
    /\ m \in MoodRows
    /\ since \in Nat
    /\ m.word \in Gated => let
    /\ m.level = 0 => m.word = Profile.rest
    /\ m.level > 0 => 2 * m.level <= 20000 - 83 * since /\ (since = 0 \/ m.level > 200)

\* The mood at rest is allowed whatever the settings.
LEMMA RestFits ==
    ASSUME RegardAssumption, who \in People, nsfw \in BOOLEAN, NEW since \in Nat, NEW let
    PROVE  MoodFits(AtRest, since, let)
<1>1. Profile.rest \in Words \ Gated
  BY WornFits DEF Words
<1>2. 0 \in Levels
  BY DEF Levels
<1>3. AtRest \in MoodRows /\ AtRest.level = 0 /\ AtRest.word = Profile.rest
  BY <1>1, <1>2 DEF AtRest, MoodRows
<1> QED
  BY <1>1, <1>3 DEF MoodFits

\* The mood an event leaves is allowed.
LEMMA LeftFits ==
    ASSUME RegardAssumption, who \in People, nsfw \in BOOLEAN, NEW word \in Words, NEW level \in Int
    PROVE  MoodFits(MoodLeft(word, level), 0, nsfw)
<1> DEFINE left == Clamp(0, 10000, level)
           worn == Worn(word)
<1>1. left \in Levels
  BY SMTT(30) DEF Clamp, Lower, Upper, Levels
<1>2. worn \in Words /\ (worn \in Gated => nsfw)
  BY WornFits
<1>3. MoodLeft(word, level) = IF left = 0 THEN AtRest ELSE [word |-> worn, level |-> left]
  BY DEF MoodLeft
<1> HIDE DEF left, worn
<1>4. CASE left = 0
  BY <1>3, <1>4, RestFits
<1>5. CASE left # 0
  <2> DEFINE t == [word |-> worn, level |-> left]
  <2>1. t \in MoodRows /\ t.word = worn /\ t.level = left
    BY <1>1, <1>2 DEF MoodRows
  <2>2. MoodLeft(word, level) = t
    BY <1>3, <1>5
  <2> HIDE DEF t
  <2>3. left > 0 /\ 2 * left <= 20000 - 83 * 0 /\ 0 \in Nat
    BY <1>1, <1>5 DEF Levels
  <2>4. MoodFits(t, 0, nsfw)
    BY <1>2, <2>1, <2>3 DEF MoodFits
  <2> QED
    BY <2>2, <2>4
<1> QED
  BY <1>4, <1>5

\* A mood that fades stays allowed, and comes to rest in time.
LEMMA FadedFits ==
    ASSUME RegardAssumption, who \in People, nsfw \in BOOLEAN, NEW m, NEW since, NEW let,
           NEW minutes \in Nat, MoodFits(m, since, let)
    PROVE  MoodFits(Faded(m, minutes), since + minutes, let)
<1>0. m \in MoodRows /\ since \in Nat
  BY DEF MoodFits
<1>1. CASE minutes = 0
  BY <1>0, <1>1 DEF Faded
<1>2. CASE minutes # 0
  <2> DEFINE level == m.level
             next == Ebbed(level, minutes)
             t == [m EXCEPT !.level = next]
             rest == Profile.rest
  <2>1. Faded(m, minutes) = IF next <= 200 THEN AtRest ELSE t
    BY <1>2 DEF Faded, Ebbed
  <2>2. level \in Levels /\ since + minutes \in Nat
    BY <1>0 DEF MoodRows
  <2>3. level > 0 => 2 * level <= 20000 - 83 * since
    BY DEF MoodFits
  <2>4. next \in Int /\ (next > 200 => 2 * next <= 2 * level - 83 * minutes)
    BY <1>2, <2>2, FadesByTheHour
  <2>5. m.word \in Gated => let
    BY DEF MoodFits
  <2>6. CASE next <= 200
    BY <2>1, <2>2, <2>6, RestFits
  <2>7. CASE ~(next <= 200)
    <3> HIDE DEF level
    <3> HIDE DEF next
    <3>1. next > 200 /\ 2 * next <= 2 * level - 83 * minutes /\ level > 0 /\ next <= level
      BY <1>2, <2>2, <2>4, <2>7 DEF Levels
    <3>2. 2 * next <= 20000 - 83 * (since + minutes)
      BY <1>0, <2>2, <2>3, <2>4, <3>1 DEF Levels
    <3>3. next \in Levels
      <4>1. level \in Nat /\ level <= 10000
        BY <2>2, LevelsAreNat
      <4>2. next \in Int /\ next > 200 /\ next <= level
        BY <2>4, <3>1
      <4>3. next \in Nat /\ next <= 10000
        BY ONLY <4>1, <4>2
      <4> QED
        BY ONLY <4>3, NatIsLevel
    <3>4. t \in MoodRows /\ t.word = m.word /\ t.level = next
      BY <1>0, <3>3 DEF MoodRows
    <3> HIDE DEF t
    <3>5. MoodFits(t, since + minutes, let)
      BY <2>2, <2>5, <3>1, <3>2, <3>3, <3>4 DEF MoodFits
    <3> QED
      BY <2>1, <2>7, <3>5
  <2> QED
    BY <2>6, <2>7
<1> QED
  BY <1>1, <1>2
-----------------------------------------------------------------------------
(* What is remembered *)

LogEntries == [text : {e.text : e \in Events}, salience : Nat]

\* The entries of a log carry their salience.
LEMMA EntriesOf ==
    ASSUME NEW l \in Seq(LogEntries)
    PROVE  /\ DOMAIN l = 1..Len(l) /\ Len(l) \in Nat
           /\ \A i \in DOMAIN l : l[i] \in LogEntries /\ l[i].salience \in Nat
<1>1. \A x \in LogEntries : x.salience \in Nat
  BY DEF LogEntries
<1> HIDE DEF LogEntries
<1>2. DOMAIN l = 1..Len(l) /\ Len(l) \in Nat /\ \A i \in DOMAIN l : l[i] \in LogEntries
  OBVIOUS
<1> QED
  BY <1>1, <1>2

\* There is a weakest of any memories.
LEMMA WeakestIs ==
    ASSUME NEW l \in Seq(LogEntries), l # <<>>
    PROVE  /\ Weakest(l) \in DOMAIN l
           /\ \A j \in DOMAIN l : l[Weakest(l)].salience <= l[j].salience
<1> DEFINE Lightest(i) == \A j \in DOMAIN l :
               l[i].salience < l[j].salience \/ (l[i].salience = l[j].salience /\ i <= j)
           weights == {l[i].salience : i \in DOMAIN l}
<1>0. /\ DOMAIN l = 1..Len(l) /\ Len(l) \in Nat \ {0}
      /\ \A i \in DOMAIN l : l[i] \in LogEntries /\ l[i].salience \in Nat
  BY EntriesOf
<1>1. weights \in SUBSET Nat /\ weights # {}
  BY <1>0
<1>2. PICK least \in weights : \A s \in weights : least <= s
  BY <1>1, LeastIn
<1> DEFINE places == {i \in DOMAIN l : l[i].salience = least}
<1>3. places \in SUBSET Nat /\ places # {}
  BY <1>0, <1>2
<1>4. PICK first \in places : \A i \in places : first <= i
  BY <1>3, LeastIn
<1>5. first \in DOMAIN l /\ l[first].salience = least
  BY <1>4
<1>6. ASSUME NEW j \in DOMAIN l
      PROVE  l[first].salience < l[j].salience \/ (l[first].salience = l[j].salience /\ first <= j)
  <2>1. least <= l[j].salience /\ l[j].salience \in Nat /\ least \in Nat
    BY <1>0, <1>1, <1>2
  <2>2. CASE l[j].salience = least
    BY <1>4, <1>5, <2>2
  <2>3. CASE l[j].salience # least
    BY <1>5, <2>1, <2>3
  <2> QED
    BY <2>2, <2>3
<1>7. Lightest(first)
  BY <1>6
<1>8. \E i \in DOMAIN l : Lightest(i)
  BY <1>5, <1>7
<1>9. Weakest(l) = CHOOSE i \in DOMAIN l : Lightest(i)
  BY DEF Weakest
<1> HIDE DEF Lightest
<1>10. Weakest(l) \in DOMAIN l /\ Lightest(Weakest(l))
  BY <1>8, <1>9
<1> DEFINE w == Weakest(l)
<1>11. \A j \in DOMAIN l : l[w].salience < l[j].salience \/ l[w].salience = l[j].salience
  BY <1>10 DEF Lightest
<1> HIDE DEF w
<1>12. w \in DOMAIN l
  BY <1>10 DEF w
<1>13. \A j \in DOMAIN l : l[w].salience <= l[j].salience
  BY <1>0, <1>11, <1>12
<1> QED
  BY <1>12, <1>13 DEF w

\* The log is distinct, within its cap, full once it forgot, and what it
\* forgot weighed no more than what it holds; until then it holds all that
\* moved the meter.
LogFits(l, lost, mv) ==
    /\ l \in Seq(LogEntries) /\ Len(l) <= Cap
    /\ lost \subseteq Nat
    /\ lost # {} => Len(l) = Cap
    /\ \A i \in DOMAIN l, s \in lost : s <= l[i].salience
    /\ \A i, j \in DOMAIN l : l[i].text = l[j].text => i = j
    /\ mv \in [Events -> Nat]
    /\ lost = {} => \A e \in Events :
          mv[e] <= 1 /\ (mv[e] > 0 => \E i \in DOMAIN l : l[i].text = e.text)

\* An event that is noted is kept within the cap, and the weakest goes.
LEMMA NotedFits ==
    ASSUME RegardAssumption, LogFits(log, forgotten, moved), NEW e \in Events, ~Remembered(e)
    PROVE  LogFits(Noted(e), forgotten \cup Dropped(e), [moved EXCEPT ![e] = @ + 1])
<1> DEFINE new == [text |-> e.text, salience |-> e.salience]
           l == Append(log, new)
           mv == [moved EXCEPT ![e] = @ + 1]
<1>0. /\ log \in Seq(LogEntries) /\ Len(log) <= Cap /\ Len(log) \in Nat /\ Cap \in Nat \ {0}
      /\ DOMAIN log = 1..Len(log)
      /\ forgotten \subseteq Nat /\ moved \in [Events -> Nat]
  BY DEF LogFits, RegardAssumption
<1>1. new \in LogEntries /\ new.text = e.text
  BY DEF LogEntries, RegardAssumption
<1>2. \A i \in DOMAIN log : log[i].text # e.text
  BY DEF Remembered
<1>3. mv \in [Events -> Nat] /\ mv[e] = moved[e] + 1 /\ \A f \in Events \ {e} : mv[f] = moved[f]
  BY <1>0
<1>4. Noted(e) = (IF Len(l) > Cap THEN Without(l, Weakest(l)) ELSE l)
      /\ Dropped(e) = (IF Len(l) > Cap THEN {l[Weakest(l)].salience} ELSE {})
  BY DEF Noted, Dropped
<1> HIDE DEF new, mv
<1>5. /\ l \in Seq(LogEntries) /\ Len(l) = Len(log) + 1 /\ DOMAIN l = 1..Len(log) + 1 /\ l # <<>>
      /\ l[Len(log) + 1] = new
      /\ \A i \in 1..Len(log) : l[i] = log[i]
  BY <1>0, <1>1, AppendProperties
<1> HIDE DEF l
<1>6. \A i, j \in DOMAIN l : l[i].text = l[j].text => i = j
  <2> SUFFICES ASSUME NEW i \in DOMAIN l, NEW j \in DOMAIN l, l[i].text = l[j].text
               PROVE  i = j
    OBVIOUS
  <2>1. CASE i \in 1..Len(log) /\ j \in 1..Len(log)
    BY <1>0, <1>5, <2>1 DEF LogFits
  <2>2. CASE ~(i \in 1..Len(log) /\ j \in 1..Len(log))
    BY <1>0, <1>1, <1>2, <1>5, <2>2
  <2> QED
    BY <2>1, <2>2
<1>7. \A i \in DOMAIN l : l[i] \in LogEntries /\ l[i].salience \in Nat
  BY <1>5, EntriesOf
<1>15. Len(l) = Len(log) + 1 /\ Len(log) \in Nat /\ Cap \in Nat /\ Len(log) <= Cap
  BY <1>0, <1>5
<1>8. CASE Len(l) <= Cap
  <2>0. Len(log) # Cap
    BY <1>8, <1>15
  <2>1. forgotten = {}
    BY <2>0 DEF LogFits
  <2>2. Noted(e) = l /\ forgotten \cup Dropped(e) = {}
    BY <1>0, <1>4, <1>5, <1>8, <2>1
  <2>3. ASSUME NEW f \in Events
        PROVE  mv[f] <= 1 /\ (mv[f] > 0 => \E i \in DOMAIN l : l[i].text = f.text)
    <3>1. moved[f] \in Nat /\ moved[f] <= 1
          /\ (moved[f] > 0 => \E i \in DOMAIN log : log[i].text = f.text)
      BY <1>0, <2>1 DEF LogFits
    <3>2. CASE f = e
      <4>1. moved[f] = 0 /\ mv[f] = 1
        BY <1>2, <1>3, <3>1, <3>2
      <4>2. Len(log) + 1 \in DOMAIN l /\ l[Len(log) + 1].text = f.text
        BY <1>0, <1>1, <1>5, <3>2
      <4> QED
        BY <4>1, <4>2
    <3>3. CASE f # e
      BY <1>0, <1>3, <1>5, <3>1, <3>3
    <3> QED
      BY <3>2, <3>3
  <2>4. LogFits(l, {}, mv)
    BY <1>3, <1>5, <1>6, <1>8, <2>3 DEF LogFits
  <2> QED
    BY <2>2, <2>4 DEF mv
<1>9. CASE Len(l) > Cap
  <2> DEFINE w == Weakest(l)
             out == l[w].salience
             k == Without(l, w)
             lost == forgotten \cup {out}
  <2>1. w \in DOMAIN l /\ \A j \in DOMAIN l : out <= l[j].salience
    BY <1>5, WeakestIs
  <2>2. Noted(e) = k /\ forgotten \cup Dropped(e) = lost
    BY <1>4, <1>9
  <2> HIDE DEF w
  <2>3. /\ k \in Seq(LogEntries) /\ Len(k) = Len(l) - 1
        /\ \A j \in 1..Len(l) - 1 : k[j] = l[IF j < w THEN j ELSE j + 1]
    BY <1>5, <2>1, WithoutIs
  <2>4. out \in Nat
    BY <1>7, <2>1
  <2> HIDE DEF out, k
  <2>15. Len(log) = Cap
    BY <1>9, <1>15
  <2>16. Len(k) = Len(log)
    BY <1>0, <1>5, <2>3
  <2>17. DOMAIN k = 1..Len(k)
    BY <2>3, EntriesOf
  <2>5. Len(k) = Cap /\ DOMAIN k = 1..Len(log) /\ Len(k) = Len(log)
    BY <2>15, <2>16, <2>17
  <2>6. \A j \in DOMAIN k : (IF j < w THEN j ELSE j + 1) \in DOMAIN l
    BY <1>0, <1>5, <2>1, <2>5
  <2>7. ASSUME NEW i \in DOMAIN k, NEW s \in lost
        PROVE  s <= k[i].salience
    <3> DEFINE o == IF i < w THEN i ELSE i + 1
    <3>1. o \in DOMAIN l /\ k[i] = l[o]
      BY <1>5, <2>3, <2>5, <2>6
    <3> HIDE DEF o
    <3>2. out <= l[o].salience /\ l[o].salience \in Nat
      BY <1>7, <2>1, <3>1 DEF out
    <3>3. CASE s \in forgotten
      <4>1. s \in Nat
        BY <1>0, <3>3
      <4>2. CASE o \in 1..Len(log)
        BY <1>0, <1>5, <3>1, <3>3, <4>2 DEF LogFits
      <4>3. CASE w \in 1..Len(log)
        <5>1. s <= out
          BY <1>0, <1>5, <3>3, <4>3 DEF LogFits, out
        <5> QED
          BY <2>4, <3>1, <3>2, <4>1, <5>1
      <4>4. o \in 1..Len(log) \/ w \in 1..Len(log)
        BY <1>0, <1>5, <2>1, <2>5 DEF o
      <4> QED
        BY <4>2, <4>3, <4>4
    <3>4. CASE s = out
      BY <3>1, <3>2, <3>4
    <3> QED
      BY <3>3, <3>4
  <2>8. ASSUME NEW i \in DOMAIN k, NEW j \in DOMAIN k, k[i].text = k[j].text
        PROVE  i = j
    <3> DEFINE o == IF i < w THEN i ELSE i + 1
               p == IF j < w THEN j ELSE j + 1
    <3>1. o \in DOMAIN l /\ k[i] = l[o] /\ p \in DOMAIN l /\ k[j] = l[p]
      BY <1>5, <2>3, <2>5, <2>6
    <3> HIDE DEF o, p
    <3>2. o = p
      BY <1>6, <2>8, <3>1
    <3>3. i \in Nat /\ j \in Nat /\ w \in Nat
      BY <1>0, <1>5, <2>1, <2>5
    <3> QED
      BY <3>2, <3>3 DEF o, p
  <2>9. lost \subseteq Nat /\ lost # {}
    BY <1>0, <2>4
  <2> HIDE DEF lost
  <2>10. LogFits(k, lost, mv)
    BY <1>3, <1>0, <2>3, <2>5, <2>7, <2>8, <2>9 DEF LogFits
  <2> QED
    BY <2>2, <2>10 DEF mv
<1> QED
  BY <1>0, <1>5, <1>8, <1>9

\* Nor does it take a move of the meter to keep an event.
LEMMA LogFitsLess ==
    ASSUME NEW l, NEW lost, NEW mv, NEW fewer, LogFits(l, lost, mv), fewer \in [Events -> Nat],
           \A e \in Events : fewer[e] <= mv[e]
    PROVE  LogFits(l, lost, fewer)
<1>1. ASSUME lost = {}, NEW e \in Events
      PROVE  fewer[e] <= 1 /\ (fewer[e] > 0 => \E i \in DOMAIN l : l[i].text = e.text)
  <2>1. mv[e] \in Nat /\ fewer[e] \in Nat /\ fewer[e] <= mv[e] /\ mv[e] <= 1
    BY <1>1 DEF LogFits
  <2>2. mv[e] > 0 => \E i \in DOMAIN l : l[i].text = e.text
    BY <1>1 DEF LogFits
  <2> QED
    BY <2>1, <2>2
<1> QED
  BY <1>1 DEF LogFits

-----------------------------------------------------------------------------
(* Social checks *)

MoodOn(let, m) ==
    RoundAway(At(Profile.moods, IF ~let THEN At(Fallback, m.word, m.word) ELSE m.word, 0) * m.level, 10000)

\* What a DC is made of: the boundaries, the mood, the meter, the character.
DcOn(let, m, meter, approach, base) ==
    Upper(1, base + At(Profile.approach, approach, 0) + MoodOn(let, Faded(m, Took(approach)))
              + VowMod(approach) - Clamp(-10, 10, RoundAway(meter, 10)))

\* The DC depends on nothing but the mood, the attitude and the settings.
LEMMA DcIsOn ==
    ASSUME NEW approach, NEW base
    PROVE  Dc(approach, base) = DcOn(nsfw, feeling, attitude, approach, base)
<1> DEFINE m == Faded(feeling, Took(approach))
<1> HIDE DEF m
<1>1. Surfaced(m.word) = IF ~nsfw THEN At(Fallback, m.word, m.word) ELSE m.word
  BY Zenon DEF Surfaced
<1>2. MoodMod(m) = MoodOn(nsfw, m)
  BY <1>1 DEF MoodMod, MoodOn
<1> QED
  BY <1>2, Zenon DEF Dc, DcOn, Credit, m

\* A DC does not change while the person does not.
LEMMA DcKept ==
    ASSUME who' = who, NEW let, NEW m, NEW meter, NEW approach, NEW base
    PROVE  DcOn(let, m, meter, approach, base)' = DcOn(let, m, meter, approach, base)
<1>1. Profile' = Profile
  BY DEF Profile
<1>2. Faded(m, Took(approach))' = Faded(m, Took(approach))
  BY <1>1 DEF Faded, AtRest
<1>3. \A f : MoodOn(let, f)' = MoodOn(let, f)
  BY <1>1 DEF MoodOn
<1>4. VowMod(approach)' = VowMod(approach)
  BY <1>1 DEF VowMod
<1> QED
  BY <1>1, <1>2, <1>3, <1>4, Zenon DEF DcOn

\* A check stands at the DC of the board it was called on, and is thrown at it
\* while the boundaries are the same.
CallFits(call, throw) ==
    /\ call.board # <<>> =>
          call.dc = DcOn(call.under, call.board[1], call.board[2], call.approach, call.base)
    /\ throw.dc # 0 /\ throw.under = call.under => throw.dc = call.dc

\* The invariant.
Regarded ==
    /\ who \in People /\ nsfw \in BOOLEAN
    /\ MoodFits(feeling, age, under)
    /\ LogFits(log, forgotten, moved)
    /\ CallFits(called, thrown)

\* Nor does what a mood is allowed to be.
LEMMA MoodKept ==
    ASSUME who' = who, NEW m, NEW since, NEW let, MoodFits(m, since, let)
    PROVE  MoodFits(m, since, let)'
  BY DEF MoodFits, Profile

\* Nor does the check that was called.
LEMMA CallKept ==
    ASSUME who' = who, NEW call, NEW throw, CallFits(call, throw)
    PROVE  CallFits(call, throw)'
  BY DcKept DEF CallFits

\* The invariant holds of people nobody has met.
LEMMA RegardedInit ==
    ASSUME RegardAssumption, RegardInit
    PROVE  Regarded
<1>1. who \in People /\ nsfw \in BOOLEAN /\ feeling = AtRest /\ age = 0 /\ log = <<>>
      /\ forgotten = {} /\ moved = [e \in Events |-> 0] /\ called = NoCall /\ thrown = NoThrow
  BY DEF RegardInit
<1>2. MoodFits(feeling, age, under)
  BY <1>1, RestFits
<1>3. LogFits(<<>>, {}, [e \in Events |-> 0])
  <2>1. <<>> \in Seq(LogEntries) /\ Len(<<>>) = 0 /\ DOMAIN <<>> = {}
    OBVIOUS
  <2> QED
    BY <2>1 DEF LogFits, RegardAssumption
<1>4. CallFits(NoCall, NoThrow)
  BY DEF CallFits, NoCall, NoThrow
<1> QED
  BY <1>1, <1>2, <1>3, <1>4 DEF Regarded

\* Every event, beat and flip of the settings keeps the invariant.
LEMMA RegardedStep ==
    ASSUME RegardAssumption, Regarded, [RegardNext]_regardVars
    PROVE  Regarded'
<1>0. /\ who \in People /\ nsfw \in BOOLEAN /\ MoodFits(feeling, age, under)
      /\ LogFits(log, forgotten, moved) /\ CallFits(called, thrown)
  BY DEF Regarded
<1>1. CASE Touch
  <2>1. PICK e \in Events :
         /\ feeling' = MoodLeft(e.mood, e.level)
         /\ under' = nsfw /\ age' = 0
         /\ IF Remembered(e) THEN UNCHANGED <<log, attitude, moved, forgotten>>
            ELSE /\ log' = Noted(e)
                 /\ attitude' = Clamp(-100, 100, attitude + Scaled(e.kind, e.delta))
                 /\ moved' = [moved EXCEPT ![e] = @ + 1]
                 /\ forgotten' = forgotten \cup Dropped(e)
    BY <1>1 DEF Touch
  <2>2. UNCHANGED <<who, nsfw, called, thrown, flips>>
    BY <1>1 DEF Touch
  <2>3. e.mood \in Words /\ e.level \in Int
    BY DEF RegardAssumption
  <2>4. MoodFits(feeling', age', under')
    BY <1>0, <2>1, <2>3, LeftFits
  <2>5. MoodFits(feeling, age, under)'
    BY <2>2, <2>4 DEF MoodFits, Profile
  <2>6. LogFits(log', forgotten', moved')
    <3>1. CASE Remembered(e)
      BY <1>0, <2>1, <3>1
    <3>2. CASE ~Remembered(e)
      BY <1>0, <2>1, <3>2, NotedFits
    <3> QED
      BY <3>1, <3>2
  <2>7. CallFits(called, thrown)'
    BY <1>0, <2>2, DcKept DEF CallFits
  <2> QED
    BY <1>0, <2>2, <2>5, <2>6, <2>7 DEF Regarded
<1>2. CASE Pass
  <2>1. PICK minutes \in Spans : feeling' = Faded(feeling, minutes) /\ age' = age + minutes
    BY <1>2 DEF Pass
  <2>2. UNCHANGED <<who, nsfw, attitude, log, called, thrown, under, moved, forgotten, flips>>
    BY <1>2 DEF Pass
  <2>3. minutes \in Nat
    BY DEF RegardAssumption
  <2>4. MoodFits(feeling', age', under')
    BY <1>0, <2>1, <2>2, <2>3, FadedFits
  <2>5. MoodFits(feeling, age, under)'
    BY <2>2, <2>4 DEF MoodFits, Profile
  <2>7. CallFits(called, thrown)'
    BY <1>0, <2>2, DcKept DEF CallFits
  <2> QED
    BY <1>0, <2>2, <2>5, <2>7 DEF Regarded
<1>3. CASE Bound
  <2>1. nsfw' \in BOOLEAN
        /\ UNCHANGED <<who, feeling, attitude, log, called, thrown, under, age, moved, forgotten, beats>>
    BY <1>0, <1>3 DEF Bound
  <2>2. MoodFits(feeling, age, under)'
    BY <1>0, <2>1 DEF MoodFits, Profile
  <2>3. CallFits(called, thrown)'
    BY <1>0, <2>1, DcKept DEF CallFits
  <2> QED
    BY <1>0, <2>1, <2>2, <2>3 DEF Regarded
<1>4. CASE CallCheck
  <2>1. PICK approach \in Approaches, base \in Bands :
         called' = [dc |-> Dc(approach, base), approach |-> approach, base |-> base,
                    board |-> Board, under |-> nsfw]
    BY <1>4 DEF CallCheck
  <2>2. thrown' = NoThrow
        /\ UNCHANGED <<who, nsfw, feeling, attitude, log, under, age, moved, forgotten, beats, flips>>
    BY <1>4 DEF CallCheck
  <2>3. MoodFits(feeling, age, under)'
    BY <1>0, <2>2 DEF MoodFits, Profile
  <2>4. /\ called'.dc = Dc(approach, base) /\ called'.approach = approach /\ called'.base = base
        /\ called'.board = Board /\ called'.under = nsfw
    BY <2>1
  <2>5. Board[1] = feeling /\ Board[2] = attitude
    BY DEF Board
  <2>6. called'.dc = DcOn(called'.under, called'.board[1], called'.board[2], called'.approach, called'.base)
    BY <2>4, <2>5, DcIsOn
  <2>7. CallFits(called', thrown')
    BY <2>2, <2>6 DEF CallFits, NoThrow
  <2>8. CallFits(called, thrown)'
    BY <2>2, <2>7, DcKept DEF CallFits
  <2> QED
    BY <1>0, <2>2, <2>3, <2>8 DEF Regarded
<1>5. CASE ThrowCheck
  <2>1. /\ called.board = Board
        /\ thrown' = [dc |-> Dc(called.approach, called.base), under |-> nsfw]
        /\ UNCHANGED <<who, nsfw, feeling, attitude, log, called, under, age, moved, forgotten, beats, flips>>
    BY <1>5 DEF ThrowCheck
  <2>2. MoodFits(feeling, age, under)'
    BY <1>0, <2>1 DEF MoodFits, Profile
  <2>3. Board # <<>> /\ Board[1] = feeling /\ Board[2] = attitude
    BY DEF Board
  <2>4. thrown'.dc = DcOn(nsfw, feeling, attitude, called.approach, called.base) /\ thrown'.under = nsfw
    BY <2>1, DcIsOn
  <2>5. called.dc = DcOn(called.under, feeling, attitude, called.approach, called.base)
    BY <1>0, <2>1, <2>3 DEF CallFits
  <2>6. CallFits(called, thrown')
    BY <1>0, <2>4, <2>5 DEF CallFits
  <2>7. CallFits(called, thrown)'
    BY <2>1, <2>6, DcKept DEF CallFits
  <2> QED
    BY <1>0, <2>1, <2>2, <2>7 DEF Regarded
<1>7. CASE AskBorin
  <2>1. PICK e \in Events, here \in BOOLEAN :
         /\ IF Remembered(e) THEN UNCHANGED <<log, forgotten>>
            ELSE log' = Noted(e) /\ forgotten' = forgotten \cup Dropped(e)
         /\ IF here /\ ~Remembered(e)
            THEN /\ moved' = [moved EXCEPT ![e] = @ + 1]
                 /\ feeling' = MoodLeft(e.mood, e.level)
                 /\ under' = nsfw /\ age' = 0
            ELSE /\ feeling' = Faded(feeling, 5) /\ age' = age + 5
                 /\ UNCHANGED <<moved, under>>
    BY <1>7 DEF AskBorin
  <2>2. UNCHANGED <<who, nsfw, called, thrown, flips>>
    BY <1>7 DEF AskBorin
  <2>3. e.mood \in Words /\ e.level \in Int
    BY DEF RegardAssumption
  <2>4. MoodFits(feeling', age', under')
    <3>1. CASE here /\ ~Remembered(e)
      BY <1>0, <2>1, <2>3, <3>1, LeftFits
    <3>2. CASE ~(here /\ ~Remembered(e))
      <4>1. feeling' = Faded(feeling, 5) /\ age' = age + 5 /\ under' = under
        BY <2>1, <3>2
      <4> QED
        BY <1>0, <4>1, FadedFits
    <3> QED
      BY <3>1, <3>2
  <2>5. MoodFits(feeling, age, under)'
    BY <2>2, <2>4 DEF MoodFits, Profile
  <2>6. LogFits(log', forgotten', moved')
    <3>1. CASE Remembered(e)
      <4>1. log' = log /\ forgotten' = forgotten /\ moved' = moved
        BY <2>1, <3>1
      <4> QED
        BY <1>0, <4>1
    <3>2. CASE ~Remembered(e)
      <4> DEFINE mv == [moved EXCEPT ![e] = @ + 1]
      <4>1. LogFits(log', forgotten', mv)
        BY <1>0, <2>1, <3>2, NotedFits
      <4>2. moved' = mv \/ moved' = moved
        BY <2>1
      <4>3. moved \in [Events -> Nat]
        BY <1>0 DEF LogFits
      <4>4. \A f \in Events : moved[f] <= mv[f]
        BY <4>3
      <4> HIDE DEF mv
      <4>5. LogFits(log', forgotten', moved)
        BY <4>1, <4>3, <4>4, LogFitsLess
      <4> QED
        BY <4>1, <4>2, <4>5
    <3> QED
      BY <3>1, <3>2
  <2>7. CallFits(called, thrown)'
    BY <1>0, <2>2, DcKept DEF CallFits
  <2> QED
    BY <1>0, <2>2, <2>5, <2>6, <2>7 DEF Regarded
<1>6. CASE UNCHANGED regardVars
  <2>1. UNCHANGED <<who, nsfw, feeling, log, called, thrown, under, age, moved, forgotten>>
    BY <1>6 DEF regardVars
  <2>2. MoodFits(feeling, age, under)'
    BY <1>0, <2>1 DEF MoodFits, Profile
  <2>3. CallFits(called, thrown)'
    BY <1>0, <2>1, DcKept DEF CallFits
  <2> QED
    BY <1>0, <2>1, <2>2, <2>3 DEF Regarded
<1> QED
  BY <1>1, <1>2, <1>3, <1>4, <1>5, <1>6, <1>7 DEF RegardNext

\* The invariant is what the run checks, and more.
LEMMA RegardedIsSound ==
    ASSUME RegardAssumption, Regarded
    PROVE  RegardSound
<1>1. MoodsAllowed
  <2>1. MoodFits(feeling, age, under) /\ nsfw \in BOOLEAN
    BY DEF Regarded
  <2>5. feeling.level \in Levels /\ age \in Nat /\ feeling.word \in Words
    BY <2>1 DEF MoodFits, MoodRows
  <2>2. feeling.level \in Nat /\ age \in Nat /\ feeling.word \in Words
    BY <2>5, LevelsAreNat
  <2>3. age >= 240 => feeling.level = 0
    BY <2>1, <2>2 DEF MoodFits
  <2>4. Surfaced(feeling.word) \in {"flirty", "horny"} => nsfw
    BY <2>1, <2>2 DEF Surfaced, At, Fallback, Words
  <2> QED
    BY <2>1, <2>3, <2>4 DEF MoodsAllowed, MoodFits, Gated
<1>2. MovedOnce
  BY DEF MovedOnce, Regarded, LogFits
<1>3. OddsHold
  BY DEF OddsHold, Regarded, CallFits
<1> QED
  BY <1>1, <1>2, <1>3 DEF RegardSound

\* A mood is let in by its boundaries and gone four hours on, a memory moves
\* the meter once and outlasts what weighs less, and a check is thrown at the
\* odds it was called with: for any events, spans of time, approaches and cap.
THEOREM RegardHolds == RegardSpec => []RegardSound
<1>1. RegardInit => Regarded
  BY RegardAssumption, RegardedInit
<1>2. Regarded /\ [RegardNext]_regardVars => Regarded'
  BY RegardAssumption, RegardedStep
<1>3. Regarded => RegardSound
  BY RegardAssumption, RegardedIsSound
<1> QED
  BY <1>1, <1>2, <1>3, PTL DEF RegardSpec

-----------------------------------------------------------------------------
(* What is counted of the people *)

\* A product of integers, rounded, is one.
LEMMA Rounds ==
    ASSUME NEW x \in Int, NEW y \in Int
    PROVE  x * y \in Int /\ RoundAway(x * y, 10) \in Int /\ RoundAway(x * y, 10000) \in Int
<1> DEFINE n == x * y
<1>1. n \in Int
  OBVIOUS
<1> HIDE DEF n
<1>2. RoundAway(n, 10) \in Int /\ RoundAway(n, 10000) \in Int
  BY <1>1 DEF RoundAway
<1> QED
  BY <1>1, <1>2 DEF n

\* What the tables of a character say of any key is a number.
LEMMA TablesSay ==
    ASSUME RegardAssumption, who \in People, NEW entry
    PROVE  /\ At(Profile.weighs, entry, 0) \in Int
           /\ At(Profile.approach, entry, 0) \in Int
           /\ At(Profile.moods, entry, 0) \in Int
<1>1. who \in {"marla", "borin", "sella", "tomm", "anselm"}
  BY DEF RegardAssumption
<1>2. CASE who = "marla"
  BY <1>2 DEF Profile, Profiles, At
<1>3. CASE who = "borin"
  BY <1>3 DEF Profile, Profiles, At
<1>4. CASE who = "sella"
  BY <1>4 DEF Profile, Profiles, At
<1>5. CASE who = "tomm"
  BY <1>5 DEF Profile, Profiles, At
<1>6. CASE who = "anselm"
  BY <1>6 DEF Profile, Profiles, At
<1> QED
  BY <1>1, <1>2, <1>3, <1>4, <1>5, <1>6

\* What an interaction weighs is a number, and so is what it moves the meter by.
LEMMA ScaledIsInt ==
    ASSUME RegardAssumption, who \in People, NEW kind, NEW delta \in Int
    PROVE  Scaled(kind, delta) \in Int
<1> DEFINE spots == Cardinality(Spots(kind) \cap Profile.spots)
           weight == At(Profile.weighs, kind, 0)
<1>1. spots \in Nat
  <2>1. IsFiniteSet(Spots(kind))
    <3>1. \A a, b : IsFiniteSet({b} \cup {a})
      BY FS_Singleton, FS_AddElement
    <3>3. \A a, b : IsFiniteSet({a, b})
      <4> TAKE a, b
      <4>1. IsFiniteSet({b} \cup {a}) /\ {a, b} = {b} \cup {a}
        BY <3>1
      <4> QED
        BY <4>1
    <3>4. \A a : IsFiniteSet({a})
      BY FS_Singleton
    <3>5. IsFiniteSet({})
      BY FS_EmptySet
    <3> QED
      BY <3>3, <3>4, <3>5 DEF Spots
  <2> QED
    BY <2>1, FS_Subset, FS_CardinalityType
<1>2. weight \in Int
  BY TablesSay
<1> HIDE DEF spots, weight
<1>3. Clamp(5, 20, 10 + weight + 5 * spots) \in Int
  BY <1>1, <1>2 DEF Clamp, Upper, Lower
<1>4. Factor(kind) \in Int
  BY <1>3 DEF Factor, spots, weight
<1> QED
  BY <1>4, Rounds DEF Scaled

\* The level of a mood is a number.
LEMMA LevelOf ==
    ASSUME NEW m, NEW since, NEW let, MoodFits(m, since, let)
    PROVE  m.level \in Int
<1>1. m \in MoodRows
  BY DEF MoodFits
<1>2. m.level \in Levels
  BY <1>1 DEF MoodRows
<1> QED
  BY <1>2, LevelsAreNat

\* A DC is a number, and never below one.
LEMMA DcIsNat ==
    ASSUME RegardAssumption, who \in People, feeling \in MoodRows, attitude \in Int,
           nsfw \in BOOLEAN, MoodFits(feeling, age, under), NEW approach, NEW base \in Int
    PROVE  Dc(approach, base) \in Nat
<1> DEFINE m == Faded(feeling, Took(approach))
           lean == MoodMod(m)
           manner == At(Profile.approach, approach, 0)
           vow == VowMod(approach)
           credit == Credit
<1>1. m.level \in Int
  <2>1. \A minutes \in Nat : MoodFits(Faded(feeling, minutes), age + minutes, under)
    BY FadedFits
  <2>2. MoodFits(m, age + Took(approach), under)
    <3>1. Took(approach) \in Nat
      BY DEF Took
    <3> QED
      BY <2>1, <3>1
  <2> QED
    BY <2>2, LevelOf
<1>2. lean \in Int
  <2>1. At(Profile.moods, Surfaced(m.word), 0) \in Int
    BY TablesSay
  <2> QED
    BY <1>1, <2>1, Rounds DEF MoodMod
<1>3. manner \in Int
  BY TablesSay
<1>4. vow \in Int
  BY DEF VowMod
<1>5. credit \in Int
  <2>1. RoundAway(attitude, 10) \in Int
    BY DEF RoundAway
  <2> QED
    BY <2>1 DEF Credit, Clamp, Upper, Lower
<1> HIDE DEF m, lean, manner, vow, credit
<1>6. Upper(1, base + manner + lean + vow - credit) \in Nat
  BY <1>2, <1>3, <1>4, <1>5 DEF Upper
<1> QED
  BY <1>6 DEF Dc, m, lean, manner, vow, credit

\* What is counted of a person: the meter, the entries, the odds.
Reckoned ==
    /\ attitude \in -100..100
    /\ log \in Seq(WeighedEntries) /\ forgotten \subseteq Weights
    /\ called.dc \in Nat /\ called.base \in Int /\ thrown.dc \in Nat
    /\ under \in BOOLEAN /\ beats \in 0..MaxBeats /\ flips \in 0..MaxFlips

\* What is noted bears the weight it happened with, and what falls out too.
LEMMA NotedWeighed ==
    ASSUME RegardAssumption, LogFits(log, forgotten, moved), log \in Seq(WeighedEntries), NEW e \in Events
    PROVE  Noted(e) \in Seq(WeighedEntries) /\ Dropped(e) \subseteq Weights
<1> DEFINE new == [text |-> e.text, salience |-> e.salience]
           l == Append(log, new)
<1>1. new \in WeighedEntries /\ new \in LogEntries
  BY DEF WeighedEntries, Weights, LogEntries, RegardAssumption
<1>2. log \in Seq(LogEntries)
  BY DEF LogFits
<1> HIDE DEF new
<1>3. l \in Seq(LogEntries) /\ l \in Seq(WeighedEntries) /\ l # <<>>
  BY <1>1, <1>2, AppendProperties
<1> HIDE DEF l
<1>4. Weakest(l) \in DOMAIN l
  BY <1>3, WeakestIs
<1>5. Without(l, Weakest(l)) \in Seq(WeighedEntries)
  BY <1>3, <1>4, WithoutIs
<1>6. l[Weakest(l)].salience \in Weights
  <2>1. l[Weakest(l)] \in WeighedEntries
    BY <1>3, <1>4
  <2> QED
    BY <2>1 DEF WeighedEntries
<1> QED
  BY <1>3, <1>5, <1>6 DEF Noted, Dropped, l, new

\* No event takes the meter past its ends, and nothing is called at less than
\* nothing.
LEMMA ReckonedStep ==
    ASSUME RegardAssumption, Regarded, Reckoned, [RegardNext]_regardVars
    PROVE  Reckoned'
<1>0. /\ who \in People /\ nsfw \in BOOLEAN /\ MoodFits(feeling, age, under)
      /\ LogFits(log, forgotten, moved) /\ feeling \in MoodRows /\ attitude \in Int
      /\ MaxBeats \in Nat /\ MaxFlips \in Nat
  BY DEF Regarded, MoodFits, Reckoned, RegardAssumption
<1>1. Beat => beats' \in 0..MaxBeats
  BY <1>0 DEF Beat, Reckoned
<1>2. \A approach : \A base \in Int : Dc(approach, base) \in Nat
  BY <1>0, DcIsNat
<1>3. CASE Touch
  <2>1. UNCHANGED <<called, thrown, flips>> /\ beats' \in 0..MaxBeats /\ under' \in BOOLEAN
    BY <1>0, <1>1, <1>3 DEF Touch
  <2>2. PICK e \in Events :
         \/ UNCHANGED <<log, attitude, moved, forgotten>>
         \/ /\ log' = Noted(e)
            /\ attitude' = Clamp(-100, 100, attitude + Scaled(e.kind, e.delta))
            /\ forgotten' = forgotten \cup Dropped(e)
    BY <1>3, Zenon DEF Touch
  <2>3. CASE UNCHANGED <<log, attitude, moved, forgotten>>
    BY <2>1, <2>3 DEF Reckoned
  <2>4. CASE /\ log' = Noted(e)
             /\ attitude' = Clamp(-100, 100, attitude + Scaled(e.kind, e.delta))
             /\ forgotten' = forgotten \cup Dropped(e)
    <3>1. Noted(e) \in Seq(WeighedEntries) /\ Dropped(e) \subseteq Weights
      BY <1>0, NotedWeighed DEF Reckoned
    <3>2. Scaled(e.kind, e.delta) \in Int
      BY <1>0, ScaledIsInt DEF RegardAssumption
    <3>3. attitude' \in -100..100
      BY <1>0, <2>4, <3>2 DEF Clamp, Upper, Lower
    <3>4. log' \in Seq(WeighedEntries) /\ forgotten' \subseteq Weights
      BY <2>4, <3>1 DEF Reckoned
    <3> QED
      BY <2>1, <3>3, <3>4 DEF Reckoned
  <2> QED
    BY <2>2, <2>3, <2>4
<1>9. CASE AskBorin
  <2>1. UNCHANGED <<called, thrown, flips>> /\ beats' \in 0..MaxBeats
    BY <1>0, <1>1, <1>9 DEF AskBorin
  <2>2. PICK e \in Events :
         /\ \/ log' = log /\ forgotten' = forgotten
            \/ log' = Noted(e) /\ forgotten' = forgotten \cup Dropped(e)
         /\ attitude' \in {attitude, Clamp(-100, 100, attitude + e.delta)}
         /\ under' \in {under, nsfw}
    BY <1>9 DEF AskBorin
  <2>3. attitude' \in -100..100
    <3>1. e.delta \in Int
      BY DEF RegardAssumption
    <3>2. attitude \in -100..100
      BY DEF Reckoned
    <3> QED
      BY <1>0, <2>2, <3>1, <3>2 DEF Clamp, Upper, Lower
  <2>4. log' \in Seq(WeighedEntries) /\ forgotten' \subseteq Weights
    <3>1. Noted(e) \in Seq(WeighedEntries) /\ Dropped(e) \subseteq Weights
      BY <1>0, NotedWeighed DEF Reckoned
    <3> QED
      BY <2>2, <3>1 DEF Reckoned
  <2>5. under' \in BOOLEAN
    BY <1>0, <2>2 DEF Reckoned
  <2> QED
    BY <2>1, <2>3, <2>4, <2>5 DEF Reckoned
<1>4. CASE Pass
  BY <1>1, <1>4 DEF Pass, Reckoned
<1>5. CASE Bound
  BY <1>0, <1>5 DEF Bound, Reckoned
<1>6. CASE CallCheck
  <2>1. PICK approach \in Approaches, base \in Bands :
         called' = [dc |-> Dc(approach, base), approach |-> approach, base |-> base,
                    board |-> Board, under |-> nsfw]
    BY <1>6 DEF CallCheck
  <2>2. base \in Int
    BY DEF RegardAssumption
  <2>3. called'.dc \in Nat /\ called'.base \in Int
    BY <1>2, <2>1, <2>2
  <2>4. thrown' = NoThrow /\ UNCHANGED <<attitude, log, forgotten, under, beats, flips>>
    BY <1>6 DEF CallCheck
  <2> QED
    BY <2>3, <2>4 DEF Reckoned, NoThrow
<1>7. CASE ThrowCheck
  <2>1. thrown' = [dc |-> Dc(called.approach, called.base), under |-> nsfw]
        /\ UNCHANGED <<attitude, log, called, forgotten, under, beats, flips>>
    BY <1>7 DEF ThrowCheck
  <2>2. thrown'.dc \in Nat
    BY <1>2, <2>1 DEF Reckoned
  <2> QED
    BY <2>1, <2>2 DEF Reckoned
<1>8. CASE UNCHANGED regardVars
  BY <1>8 DEF regardVars, Reckoned
<1> QED
  BY <1>3, <1>4, <1>5, <1>6, <1>7, <1>8, <1>9 DEF RegardNext

\* The meter stays between its ends, a mood is a word and a level, what is kept
\* or lost bears the weight it happened with, and a DC is no less than zero.
THEOREM RegardTyped == RegardSpec => []RegardTypeOK
<1>1. RegardInit => Regarded /\ Reckoned
  <2> SUFFICES ASSUME RegardInit PROVE Reckoned
    BY RegardAssumption, RegardedInit
  <2>1. <<>> \in Seq(WeighedEntries)
    OBVIOUS
  <2>2. MaxBeats \in Nat /\ MaxFlips \in Nat
    BY RegardAssumption DEF RegardAssumption
  <2>3. /\ attitude = 0 /\ log = <<>> /\ forgotten = {} /\ under = FALSE /\ beats = 0 /\ flips = 0
        /\ called = NoCall /\ thrown = NoThrow
    BY Zenon DEF RegardInit
  <2>4. called.dc = 0 /\ called.base = 0 /\ thrown.dc = 0
    BY <2>3 DEF NoCall, NoThrow
  <2>5. attitude \in -100..100 /\ beats \in 0..MaxBeats /\ flips \in 0..MaxFlips
    BY <2>2, <2>3
  <2>6. called.dc \in Nat /\ called.base \in Int /\ thrown.dc \in Nat
    BY <2>4
  <2>7. log \in Seq(WeighedEntries) /\ forgotten \subseteq Weights /\ under \in BOOLEAN
    BY <2>1, <2>3, Zenon
  <2> QED
    BY <2>5, <2>6, <2>7 DEF Reckoned
<1>2. Regarded /\ Reckoned /\ [RegardNext]_regardVars => Regarded' /\ Reckoned'
  BY RegardAssumption, RegardedStep, ReckonedStep
<1>3. Regarded /\ Reckoned => RegardTypeOK
  <2> SUFFICES ASSUME Regarded, Reckoned PROVE RegardTypeOK
    OBVIOUS
  <2>1. feeling \in MoodRows /\ age \in Nat
    BY DEF Regarded, MoodFits
  <2>2. moved \in [Events -> Nat] /\ who \in People /\ nsfw \in BOOLEAN
    BY DEF Regarded, LogFits
  <2> QED
    BY <2>1, <2>2, Zenon DEF Reckoned, RegardTypeOK
<1> QED
  BY <1>1, <1>2, <1>3, PTL DEF RegardSpec
=============================================================================
