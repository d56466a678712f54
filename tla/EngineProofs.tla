---------------------------- MODULE EngineProofs ----------------------------
(***************************************************************************)
(* Proofs about the parts of the narrative engine that are checked apart:  *)
(* its long memory (EngineMemory), the token budget of its prompts         *)
(* (PromptBudget), the narration that is corrected or patched before it is *)
(* shown (Canon), the moods it fades and the facts it holds true           *)
(* (EngineMind), and the line to the model behind it (NarratorLink).       *)
(***************************************************************************)
EXTENDS EngineMemory, PromptBudget, NarratorLink, EngineMind, Canon, FiniteSetTheorems,
        WellFoundedInduction, SequenceTheorems, TLAPS

-----------------------------------------------------------------------------
(* The long memory *)

\* What is written is of a turn no later than the one being played, and the
\* newest rows have not lost their prose yet.
RowsFit(rows, marks, log) ==
    /\ rows \in Seq(Row) /\ Len(rows) <= MaxRows
    /\ marks \in Seq(Turns) /\ Len(marks) <= MaxPins
    /\ \A k \in DOMAIN rows : rows[k].turn <= log + 1
    /\ \A k \in DOMAIN marks : marks[k] <= log + 1
    /\ \A k \in DOMAIN rows : k > Len(rows) - Verbatim => rows[k].prose

\* Sessions end later and later, none after the turn being played.
SessionsFit(ss, log) ==
    /\ ss \in Seq(Digest) /\ Tiles(ss)
    /\ \A k \in DOMAIN ss : ss[k].hi <= log + 1
    /\ \A j, k \in DOMAIN ss : j < k => ss[j].hi < ss[k].hi
    /\ Len(ss) <= End(ss)

\* An arc stands for sessions of its own group and ends with one of them;
\* until close_arc is called its group is full.
ArcFits(a, k, ss, done) ==
    /\ a.scopes \subseteq {j \in DOMAIN ss : (k - 1) * PerArc < j /\ j <= k * PerArc}
    /\ \E j \in DOMAIN ss : j <= k * PerArc /\ a.hi = ss[j].hi
    /\ ~done => /\ k * PerArc \in DOMAIN ss /\ a.hi = ss[k * PerArc].hi
                /\ a.lo = (IF k = 1 THEN 0 ELSE ss[(k - 1) * PerArc].hi)
                /\ a.lo < a.hi
                /\ Cardinality(a.scopes) = PerArc
ArcsFit(as, ss, done) ==
    /\ as \in Seq(ArcDigest)
    /\ \A k \in DOMAIN as : ArcFits(as[k], k, ss, done)

CampaignsFit(cs, as) ==
    /\ cs \in Seq(Digest)
    /\ End(cs) <= End(as)
    /\ \A k \in DOMAIN cs : \E j \in DOMAIN as : cs[k].hi = as[j].hi

\* Complete, of any level and any rows
Full(level, rows, marks) ==
    \A k \in DOMAIN level :
        /\ \A r \in DOMAIN rows :
             level[k].lo < rows[r].turn /\ rows[r].turn <= level[k].hi - 1 => r \in level[k].told
        /\ \A r \in DOMAIN marks :
             level[k].lo < marks[r] /\ marks[r] <= level[k].hi - 1 => r \in level[k].quoted

\* Once it has come to its digests, a turn has no row left to trim.
Digesting(c, log) ==
    \/ c.at \in {"scan", "log"}
    \/ c.at = "commit" /\ c.pass = 2
    \/ c.at \in {"cadence", "rollup", "rebuild"} /\ c.turn > log
NoneStale(rows) == \A k \in DOMAIN rows : k <= Len(rows) - Verbatim => ~rows[k].prose

\* What a call knows of the rows it is about to write.
CallKnows(c, rows, ss, as, log, done) ==
    /\ c \in Call
    /\ c.turn <= log + 1
    /\ c.at \in {"commit", "append", "trim", "scan", "log"} => c.turn = log + 1
    /\ c.at = "append" \/ (c.at = "commit" /\ c.pass = 1) => Len(rows) < MaxRows
    /\ c.at = "cadence" =>
         /\ c.span = End(ss)
         /\ c.span <= c.cursor \/ (~c.force /\ c.turn < c.cursor + Window)
    /\ (c.at = "rollup" /\ c.created) \/ c.at = "rebuild" => as # <<>>
    /\ c.final => done
    /\ Digesting(c, log) => NoneStale(rows)

Memorized ==
    /\ RowsFit(chronicle, pins, logged)
    /\ SessionsFit(sessions, logged)
    /\ ArcsFit(arcs, sessions, closed)
    /\ CampaignsFit(campaigns, arcs)
    /\ Full(sessions, chronicle, pins)
    /\ Full(arcs, chronicle, pins)
    /\ Full(campaigns, chronicle, pins)
    /\ CallKnows(call, chronicle, sessions, arcs, logged, closed)
    /\ logged \in 0..MaxTurns /\ closed \in BOOLEAN /\ calls \in 0..MaxCalls

\* Groups do not overlap: each ends before the next begins.
LEMMA GroupsApart ==
    ASSUME NEW j \in Nat, NEW k \in Nat, j < k, PerArc \in Nat \ {0}
    PROVE  j * PerArc \in Nat /\ k * PerArc \in Nat /\ j * PerArc + PerArc <= k * PerArc
<1> DEFINE d == k - j - 1
<1>1. d \in Nat /\ k = j + 1 + d
  OBVIOUS
<1>2. d * PerArc \in Nat /\ j * PerArc \in Nat
  BY <1>1
<1>3. (j + 1 + d) * PerArc = j * PerArc + PerArc + d * PerArc
  BY <1>1
<1> QED
  BY <1>1, <1>2, <1>3

\* What an append leaves of a sequence, and what it adds.
LEMMA Appended ==
    ASSUME NEW S, NEW q \in Seq(S), NEW e \in S
    PROVE  /\ Append(q, e) \in Seq(S) /\ Len(q) \in Nat
           /\ DOMAIN q = 1..Len(q)
           /\ DOMAIN Append(q, e) = 1..(Len(q) + 1)
           /\ Len(Append(q, e)) = Len(q) + 1
           /\ \A k \in 1..Len(q) : Append(q, e)[k] = q[k]
           /\ Append(q, e)[Len(q) + 1] = e
  OBVIOUS

\* The end of a level is that of its newest digest, or nothing yet.
LEMMA EndOf ==
    ASSUME NEW S, NEW q \in Seq(S), NEW e \in S
    PROVE  End(Append(q, e)) = e.hi
<1>1. Append(q, e) # <<>> /\ Append(q, e)[Len(Append(q, e))] = e
  OBVIOUS
<1> QED
  BY <1>1 DEF End

\* A level ends within the turns played.
LEMMA EndTyped ==
    ASSUME NEW q \in Seq(Digest) \cup Seq(ArcDigest), MemoryAssumption
    PROVE  /\ End(q) \in 0..MaxTurns
           /\ q # <<>> => Len(q) \in DOMAIN q /\ End(q) = q[Len(q)].hi /\ End(q) \in Turns
<1>1. CASE q = <<>>
  BY <1>1 DEF End, MemoryAssumption
<1>2. CASE q # <<>>
  <2>1. Len(q) \in DOMAIN q
    BY <1>2
  <2>2. q[Len(q)] \in Digest \cup ArcDigest
    BY <2>1
  <2>3. ASSUME NEW d \in Digest \cup ArcDigest PROVE d.hi \in Turns
    BY DEF Digest, ArcDigest
  <2> QED
    BY <1>2, <2>1, <2>2, <2>3 DEF End, Turns, MemoryAssumption
<1> QED
  BY <1>1, <1>2

\* The digest of a span has the span, and what was written in it.
LEMMA DigestBuilt ==
    ASSUME NEW lo \in 0..MaxTurns, NEW hi \in Turns, RowsFit(chronicle, pins, logged),
           MemoryAssumption
    PROVE  /\ DigestOf(lo, hi) \in Digest
           /\ DigestOf(lo, hi).lo = lo /\ DigestOf(lo, hi).hi = hi
           /\ DigestOf(lo, hi).told = RowsBetween(lo, hi)
           /\ DigestOf(lo, hi).quoted = PinsBetween(lo, hi)
<1>1. RowsBetween(lo, hi) \subseteq RowIds
  BY DEF RowsBetween, RowsFit, RowIds, MemoryAssumption
<1>2. PinsBetween(lo, hi) \subseteq PinIds
  BY DEF PinsBetween, RowsFit, PinIds, MemoryAssumption
<1> QED
  BY <1>1, <1>2 DEF DigestOf, Digest

\* A digest that tells all of its span misses nothing in it.
LEMMA SpanFull ==
    ASSUME NEW d, RowsFit(chronicle, pins, logged),
           d.lo \in Int, d.hi \in Int,
           d.told = RowsBetween(d.lo, d.hi), d.quoted = PinsBetween(d.lo, d.hi)
    PROVE  /\ \A r \in DOMAIN chronicle :
                d.lo < chronicle[r].turn /\ chronicle[r].turn <= d.hi - 1 => r \in d.told
           /\ \A r \in DOMAIN pins :
                d.lo < pins[r] /\ pins[r] <= d.hi - 1 => r \in d.quoted
<1>1. \A r \in DOMAIN chronicle : chronicle[r].turn \in Int
  <2>1. \A r \in DOMAIN chronicle : chronicle[r] \in Row
    BY DEF RowsFit
  <2>2. ASSUME NEW x \in Row PROVE x.turn \in Int
    BY DEF Row, Turns
  <2> QED
    BY <2>1, <2>2
<1>2. \A r \in DOMAIN pins : pins[r] \in Int
  <2>1. pins \in Seq(Turns)
    BY DEF RowsFit
  <2>2. \A r \in DOMAIN pins : pins[r] \in Turns
    BY <2>1
  <2> QED
    BY <2>2 DEF Turns
<1> QED
  BY <1>1, <1>2 DEF RowsBetween, PinsBetween

\* A level that was full stays so with one more full digest.
LEMMA FullGrows ==
    ASSUME NEW S, NEW level \in Seq(S), NEW d \in S, NEW rows, NEW marks,
           Full(level, rows, marks),
           \A r \in DOMAIN rows :
               d.lo < rows[r].turn /\ rows[r].turn <= d.hi - 1 => r \in d.told,
           \A r \in DOMAIN marks :
               d.lo < marks[r] /\ marks[r] <= d.hi - 1 => r \in d.quoted
    PROVE  Full(Append(level, d), rows, marks)
<1> DEFINE q == Append(level, d)
           n == Len(level)
<1>1. /\ DOMAIN q = 1..(n + 1) /\ DOMAIN level = 1..n /\ n \in Nat
      /\ \A k \in 1..n : q[k] = level[k]
      /\ q[n + 1] = d
  BY Appended
<1> HIDE DEF q, n
<1>2. ASSUME NEW k \in DOMAIN q
      PROVE  /\ \A r \in DOMAIN rows :
                  q[k].lo < rows[r].turn /\ rows[r].turn <= q[k].hi - 1 => r \in q[k].told
             /\ \A r \in DOMAIN marks :
                  q[k].lo < marks[r] /\ marks[r] <= q[k].hi - 1 => r \in q[k].quoted
  <2>1. CASE k = n + 1
    <3>1. q[k] = d
      BY <1>1, <2>1
    <3> QED
      BY <3>1
  <2>2. CASE k # n + 1
    <3>1. k \in DOMAIN level /\ q[k] = level[k]
      BY <1>1, <1>2, <2>2
    <3> QED
      BY <3>1 DEF Full
  <2> QED
    BY <2>1, <2>2
<1>3. Full(q, rows, marks)
  BY <1>2 DEF Full
<1> QED
  BY <1>3 DEF q

\* A row of the turn being played is past the end of every digest but as its
\* last turn: no level misses it.
LEMMA FullKeeps ==
    ASSUME NEW level, NEW rows, NEW marks, NEW more, NEW pinned, NEW log \in Nat,
           Full(level, rows, marks),
           \A k \in DOMAIN level : level[k].hi \in Int /\ level[k].hi <= log + 1,
           DOMAIN rows \subseteq DOMAIN more, DOMAIN marks \subseteq DOMAIN pinned,
           \A r \in DOMAIN rows : more[r].turn = rows[r].turn,
           \A r \in DOMAIN marks : pinned[r] = marks[r],
           \A r \in DOMAIN more \ DOMAIN rows : more[r].turn = log + 1,
           \A r \in DOMAIN pinned \ DOMAIN marks : pinned[r] = log + 1
    PROVE  Full(level, more, pinned)
<1>1. ASSUME NEW k \in DOMAIN level, NEW r \in DOMAIN more,
             level[k].lo < more[r].turn, more[r].turn <= level[k].hi - 1
      PROVE  r \in level[k].told
  <2>1. r \in DOMAIN rows
    BY <1>1
  <2> QED
    BY <1>1, <2>1 DEF Full
<1>2. ASSUME NEW k \in DOMAIN level, NEW r \in DOMAIN pinned,
             level[k].lo < pinned[r], pinned[r] <= level[k].hi - 1
      PROVE  r \in level[k].quoted
  <2>1. r \in DOMAIN marks
    BY <1>2
  <2> QED
    BY <1>2, <2>1 DEF Full
<1> QED
  BY <1>1, <1>2 DEF Full

\* An arc fits as it did when sessions follow.
LEMMA ArcStays ==
    ASSUME MemoryAssumption, NEW done, NEW ss \in Seq(Digest), NEW e \in Digest,
           NEW k \in Nat \ {0}, NEW a, ArcFits(a, k, ss, done)
    PROVE  ArcFits(a, k, Append(ss, e), done)
<1> DEFINE q == Append(ss, e)
           n == Len(ss)
<1>1. /\ n \in Nat /\ DOMAIN ss = 1..n /\ DOMAIN q = 1..(n + 1)
      /\ \A j \in 1..n : q[j] = ss[j]
  OBVIOUS
<1> HIDE DEF q, n
<1>2. a.scopes \subseteq {j \in DOMAIN q : (k - 1) * PerArc < j /\ j <= k * PerArc}
  <2>1. DOMAIN ss \subseteq DOMAIN q
    BY <1>1
  <2> QED
    BY <2>1 DEF ArcFits
<1>3. \E j \in DOMAIN q : j <= k * PerArc /\ a.hi = q[j].hi
  <2>1. PICK j \in DOMAIN ss : j <= k * PerArc /\ a.hi = ss[j].hi
    BY DEF ArcFits
  <2>2. j \in DOMAIN q /\ q[j] = ss[j]
    BY <1>1, <2>1
  <2> QED
    BY <2>1, <2>2
<1>4. ASSUME ~done
      PROVE  /\ k * PerArc \in DOMAIN q /\ a.hi = q[k * PerArc].hi
             /\ a.lo = (IF k = 1 THEN 0 ELSE q[(k - 1) * PerArc].hi)
             /\ a.lo < a.hi
             /\ Cardinality(a.scopes) = PerArc
  <2>1. /\ k * PerArc \in DOMAIN ss /\ a.hi = ss[k * PerArc].hi
        /\ a.lo = (IF k = 1 THEN 0 ELSE ss[(k - 1) * PerArc].hi)
        /\ a.lo < a.hi /\ Cardinality(a.scopes) = PerArc
    BY <1>4 DEF ArcFits
  <2>2. k * PerArc \in DOMAIN q /\ q[k * PerArc] = ss[k * PerArc]
    BY <1>1, <2>1
  <2>3. ASSUME k # 1 PROVE q[(k - 1) * PerArc] = ss[(k - 1) * PerArc]
    <3>1. k - 1 \in Nat /\ k - 1 # 0
      BY <2>3
    <3>2. /\ 0 * PerArc + PerArc <= (k - 1) * PerArc
          /\ (k - 1) * PerArc + PerArc <= k * PerArc /\ (k - 1) * PerArc \in Nat
      BY <3>1, GroupsApart DEF MemoryAssumption
    <3>3. PerArc \in Nat \ {0} /\ 0 * PerArc = 0
      BY DEF MemoryAssumption
    <3> DEFINE c == (k - 1) * PerArc
               d == k * PerArc
    <3>4. c \in 1..n
      <4>1. d \in 1..n /\ c \in Nat /\ PerArc <= c /\ c + PerArc <= d
        BY <1>1, <2>1, <3>2, <3>3
      <4> HIDE DEF c, d
      <4> QED
        BY <3>3, <4>1, <1>1
    <3> QED
      BY <1>1, <3>4
  <2> QED
    BY <2>1, <2>2, <2>3
<1>5. ArcFits(a, k, q, done)
  BY <1>2, <1>3, <1>4 DEF ArcFits
<1> QED
  BY <1>5 DEF q

\* A session written at the end of its level keeps what holds of the level ...
LEMMA SessionAdded ==
    ASSUME MemoryAssumption, NEW log \in Nat, NEW ss, SessionsFit(ss, log),
           NEW e \in Digest, e.lo = End(ss), e.lo < e.hi, e.hi <= log + 1
    PROVE  SessionsFit(Append(ss, e), log)
<1> DEFINE q == Append(ss, e)
           n == Len(ss)
<1>0. ss \in Seq(Digest) /\ Tiles(ss) /\ n <= End(ss)
  BY DEF SessionsFit
<1>1. /\ n \in Nat /\ DOMAIN ss = 1..n /\ DOMAIN q = 1..(n + 1)
      /\ \A j \in 1..n : q[j] = ss[j]
      /\ q[n + 1] = e /\ q \in Seq(Digest) /\ Len(q) = n + 1
  BY <1>0
<1>2. End(q) = e.hi
  BY <1>0, EndOf
<1>3. \A j \in 1..n : ss[j].hi \in Int /\ ss[j].hi <= End(ss)
  <2>1. ASSUME NEW j \in 1..n PROVE ss[j].hi \in Int /\ ss[j].hi <= End(ss)
    <3>1. ss # <<>> /\ End(ss) = ss[n].hi /\ n \in DOMAIN ss
      BY <1>0, <1>1, EndTyped
    <3>2. ss[j] \in Digest /\ ss[n] \in Digest
      BY <1>0, <1>1, <3>1
    <3>3. ss[j].hi \in Int /\ ss[n].hi \in Int
      BY <3>2 DEF Digest, Turns
    <3>4. j < n => ss[j].hi < ss[n].hi
      BY <1>1, <3>1 DEF SessionsFit
    <3> QED
      BY <1>1, <3>1, <3>3, <3>4
  <2> QED
    BY <2>1
<1>4. e.hi \in Int /\ e.lo \in Int
  BY DEF Digest, Turns
<1> HIDE DEF q, n
<1>5. Tiles(q)
  <2>1. ASSUME NEW k \in 1..(n + 1)
        PROVE  q[k].lo = (IF k = 1 THEN 0 ELSE q[k - 1].hi) /\ q[k].lo < q[k].hi
    <3>1. CASE k = n + 1 /\ n = 0
      <4>1. End(ss) = 0
        BY <1>0, <1>1, <3>1 DEF End, n
      <4> QED
        BY <1>1, <3>1, <4>1
    <3>2. CASE k = n + 1 /\ n # 0
      <4>1. End(ss) = ss[n].hi
        BY <1>0, <1>1, <3>2, EndTyped DEF n
      <4>2. k # 1 /\ k - 1 = n /\ n \in 1..n
        BY <1>1, <3>2
      <4> QED
        BY <1>1, <3>2, <4>1, <4>2
    <3>3. CASE k # n + 1
      <4>1. k \in 1..n
        BY <1>1, <3>3
      <4>2. ss[k].lo = (IF k = 1 THEN 0 ELSE ss[k - 1].hi) /\ ss[k].lo < ss[k].hi
        BY <1>0, <1>1, <4>1 DEF Tiles
      <4>3. k # 1 => k - 1 \in 1..n
        BY <1>1, <4>1
      <4> QED
        BY <1>1, <4>1, <4>2, <4>3
    <3> QED
      BY <3>1, <3>2, <3>3
  <2> QED
    BY <1>1, <2>1 DEF Tiles
<1>6. \A k \in DOMAIN q : q[k].hi <= log + 1
  <2>1. \A k \in 1..n : ss[k].hi <= log + 1
    BY <1>1 DEF SessionsFit
  <2> QED
    BY <1>1, <2>1
<1>7. \A j, k \in DOMAIN q : j < k => q[j].hi < q[k].hi
  <2>1. ASSUME NEW j \in 1..(n + 1), NEW k \in 1..(n + 1), j < k
        PROVE  q[j].hi < q[k].hi
    <3>1. j \in 1..n /\ q[j] = ss[j]
      BY <1>1, <2>1
    <3>2. CASE k = n + 1
      <4>1. ss[j].hi \in Int /\ ss[j].hi <= e.lo
        BY <1>3, <3>1
      <4> QED
        BY <1>1, <1>4, <3>1, <3>2, <4>1
    <3>3. CASE k # n + 1
      <4>1. k \in 1..n /\ q[k] = ss[k]
        BY <1>1, <3>3
      <4> QED
        BY <1>1, <2>1, <3>1, <4>1 DEF SessionsFit
    <3> QED
      BY <3>2, <3>3
  <2> QED
    BY <1>1, <2>1
<1>8. Len(q) <= End(q)
  <2>1. n \in Nat /\ n <= e.lo
    BY <1>0, <1>1
  <2> QED
    BY <1>1, <1>2, <1>4, <2>1
<1>9. SessionsFit(q, log)
  BY <1>1, <1>5, <1>6, <1>7, <1>8 DEF SessionsFit
<1> QED
  BY <1>9 DEF q

\* No digest of any level ends after the turn being played.
LEMMA LevelsDated ==
    ASSUME MemoryAssumption, Memorized
    PROVE  /\ \A k \in DOMAIN sessions : sessions[k].hi \in Turns /\ sessions[k].hi <= logged + 1
           /\ \A k \in DOMAIN arcs : arcs[k].hi \in Turns /\ arcs[k].hi <= logged + 1
           /\ \A k \in DOMAIN campaigns : campaigns[k].hi \in Turns /\ campaigns[k].hi <= logged + 1
           /\ logged \in Nat
<1>1. /\ sessions \in Seq(Digest) /\ \A k \in DOMAIN sessions : sessions[k].hi <= logged + 1
  BY DEF Memorized, SessionsFit
<1>2. \A k \in DOMAIN sessions : sessions[k].hi \in Turns /\ sessions[k].hi <= logged + 1
  <2>1. \A k \in DOMAIN sessions : sessions[k] \in Digest
    BY <1>1
  <2>2. ASSUME NEW d \in Digest PROVE d.hi \in Turns
    BY DEF Digest
  <2> QED
    BY <1>1, <2>1, <2>2
<1>3. \A k \in DOMAIN arcs : \E j \in DOMAIN sessions : arcs[k].hi = sessions[j].hi
  BY DEF Memorized, ArcsFit, ArcFits
<1>4. \A k \in DOMAIN campaigns : \E j \in DOMAIN arcs : campaigns[k].hi = arcs[j].hi
  BY DEF Memorized, CampaignsFit
<1>5. logged \in Nat
  BY DEF Memorized, MemoryAssumption
<1>6. \A k \in DOMAIN arcs : arcs[k].hi \in Turns /\ arcs[k].hi <= logged + 1
  BY <1>2, <1>3
<1> QED
  BY <1>2, <1>4, <1>5, <1>6

\* A turn at its commits is a call like any other.
LEMMA Committing ==
    ASSUME NEW c \in Call, NEW t \in 0..MaxTurns
    PROVE  /\ [c EXCEPT !.at = "commit", !.turn = t] \in Call
           /\ [c EXCEPT !.at = "commit", !.turn = t, !.pass = 2] \in Call
  BY DEF Call, Steps

\* When its digests are done a call goes on to its scan, or is over.
LEMMA AfterFits ==
    ASSUME MemoryAssumption, Memorized, call.at \in {"cadence", "rollup", "rebuild"}
    PROVE  CallKnows(After, chronicle, sessions, arcs, logged, closed)
<1> USE DEF MemoryAssumption
<1>0. /\ CallKnows(call, chronicle, sessions, arcs, logged, closed)
      /\ call \in Call /\ logged \in 0..MaxTurns
  BY DEF Memorized, CallKnows
<1>2. CallKnows(Resting, chronicle, sessions, arcs, logged, closed)
  BY <1>0 DEF Resting, Call, CallKnows, Steps, Rest, Digesting
<1>3. CallKnows(After, chronicle, sessions, arcs, logged, closed)
  <2> DEFINE q == [call EXCEPT !.at = "scan"]
  <2>1. q \in Call /\ q.at = "scan" /\ q.turn = call.turn /\ q.final = call.final
    BY <1>0 DEF Call, Steps
  <2> HIDE DEF q
  <2>2. ASSUME call.at \in {"cadence", "rollup", "rebuild"}, call.turn > logged
        PROVE  CallKnows(q, chronicle, sessions, arcs, logged, closed)
    <3>1. Digesting(call, logged)
      BY <2>2 DEF Digesting
    <3>2. call.turn <= logged + 1 /\ call.turn \in Int /\ (call.final => closed) /\ NoneStale(chronicle)
      BY <1>0, <3>1 DEF CallKnows, Call
    <3>3. q.turn = logged + 1
      BY <1>0, <2>1, <2>2, <3>2
    <3> QED
      BY <2>1, <3>2, <3>3, <1>0 DEF CallKnows
  <2> QED
    BY <1>2, <2>2 DEF After, q
<1> QED
  BY <1>3

\* The steps that only move the call on.
LEMMA CallMoves ==
    ASSUME MemoryAssumption, Memorized,
           BeginTurn \/ StartCadence \/ EndCadence \/ EndRollup \/ SummarizeNow
           \/ Regenerate \/ Abandon
    PROVE  Memorized'
<1> USE DEF MemoryAssumption
<1>0. /\ CallKnows(call, chronicle, sessions, arcs, logged, closed)
      /\ call \in Call /\ logged \in 0..MaxTurns
  BY DEF Memorized, CallKnows
<1>1. End(sessions) \in 0..MaxTurns /\ End(sessions) <= logged + 1
  <2>1. sessions \in Seq(Digest)
    BY DEF Memorized, SessionsFit
  <2>2. End(sessions) \in 0..MaxTurns
    BY <2>1, EndTyped
  <2>3. sessions # <<>> => Len(sessions) \in DOMAIN sessions /\ End(sessions) = sessions[Len(sessions)].hi
    BY <2>1, EndTyped
  <2>4. sessions = <<>> => End(sessions) = 0
    BY DEF End
  <2> QED
    BY <1>0, <2>2, <2>3, <2>4, LevelsDated
<1>2. CallKnows(Resting, chronicle, sessions, arcs, logged, closed)
  BY <1>0 DEF Resting, Call, CallKnows, Steps, Rest, Digesting
<1>3. call.at \in {"cadence", "rollup", "rebuild"} => CallKnows(After, chronicle, sessions, arcs, logged, closed)
  BY AfterFits
<1>4. CASE BeginTurn
  <2> DEFINE q == [Resting EXCEPT !.at = "commit", !.turn = logged + 1]
  <2>1. /\ q.at = "commit" /\ q.turn = logged + 1 /\ q.pass = 1 /\ ~q.final
        /\ call' = q /\ Len(chronicle) < MaxRows
    BY <1>4 DEF BeginTurn, Resting
  <2>2. q \in Call
    <3>1. logged + 1 \in 0..MaxTurns
      BY <1>0, <1>4 DEF BeginTurn
    <3> DEFINE t == logged + 1
    <3>2. t \in 0..MaxTurns
      BY <3>1
    <3> HIDE DEF t
    <3>3. [Resting EXCEPT !.at = "commit", !.turn = t] \in Call
      BY <3>2, <1>2, Committing DEF CallKnows
    <3> QED
      BY <3>3 DEF t
  <2> HIDE DEF q
  <2>3. CallKnows(q, chronicle, sessions, arcs, logged, closed)
    BY <1>0, <2>1, <2>2 DEF CallKnows, Digesting
  <2> QED
    BY <1>4, <2>1, <2>3 DEF BeginTurn, Archive, Memorized
<1>5. CASE StartCadence
  <2> DEFINE q == [call EXCEPT !.at = "cadence", !.cursor = End(sessions), !.span = End(sessions)]
  <2>1. /\ q.at = "cadence" /\ q.turn = call.turn /\ q.final = call.final
        /\ q.span = End(sessions) /\ q.cursor = End(sessions)
        /\ call' = q
    BY <1>0, <1>5 DEF StartCadence, Call
  <2>2. q \in Call
    BY <1>0, <1>1 DEF Call, Steps
  <2> HIDE DEF q
  <2>3. NoneStale(chronicle)
    <3>1. chronicle \in Seq(Row)
      BY DEF Memorized, RowsFit
    <3>2. \A k \in DOMAIN chronicle : k \notin Stale
      BY <1>5 DEF StartCadence
    <3> QED
      BY <3>1, <3>2 DEF NoneStale, Stale, Kept
  <2>4. q.turn <= logged + 1 /\ (q.final => closed)
    BY <1>0, <2>1 DEF CallKnows
  <2>5. CallKnows(q, chronicle, sessions, arcs, logged, closed)
    BY <1>1, <2>1, <2>2, <2>3, <2>4 DEF CallKnows
  <2> QED
    BY <1>5, <2>1, <2>5 DEF StartCadence, Archive, Memorized
<1>6. CASE EndCadence
  <2> DEFINE q == [call EXCEPT !.at = "rollup", !.created = FALSE]
  <2>1. q.at = "rollup" /\ q.turn = call.turn /\ q.final = call.final /\ ~q.created
    BY <1>0 DEF Call
  <2>2. q \in Call
    BY <1>0 DEF Call, Steps
  <2>3. call' = (IF call.created THEN q ELSE After) /\ call.at = "cadence"
    BY <1>6 DEF EndCadence
  <2> HIDE DEF q
  <2>4. q.turn <= logged + 1 /\ (q.final => closed) /\ (q.turn > logged => NoneStale(chronicle))
    BY <1>0, <2>1, <2>3 DEF CallKnows, Digesting
  <2>5. CallKnows(q, chronicle, sessions, arcs, logged, closed)
    BY <2>1, <2>2, <2>4 DEF CallKnows, Digesting
  <2>6. CallKnows(call', chronicle, sessions, arcs, logged, closed)
    BY <1>3, <2>3, <2>5
  <2> QED
    BY <1>6, <2>6 DEF EndCadence, Archive, Memorized
<1>7. CASE EndRollup
  <2> DEFINE q == [call EXCEPT !.at = "rebuild"]
  <2>1. q.at = "rebuild" /\ q.turn = call.turn /\ q.final = call.final
    BY <1>0 DEF Call
  <2>2. q \in Call
    BY <1>0 DEF Call, Steps
  <2>3. call' = (IF call.created THEN q ELSE After) /\ call.at = "rollup"
    BY <1>7 DEF EndRollup
  <2> HIDE DEF q
  <2>4. /\ q.turn <= logged + 1 /\ (q.final => closed) /\ (q.turn > logged => NoneStale(chronicle))
        /\ call.created => arcs # <<>>
    BY <1>0, <2>1, <2>3 DEF CallKnows, Digesting
  <2>5. call.created => CallKnows(q, chronicle, sessions, arcs, logged, closed)
    BY <2>1, <2>2, <2>4 DEF CallKnows, Digesting
  <2>6. CallKnows(call', chronicle, sessions, arcs, logged, closed)
    BY <1>3, <2>3, <2>5
  <2> QED
    BY <1>7, <2>6 DEF EndRollup, Archive, Memorized
<1>8. CASE SummarizeNow
  <2> DEFINE q == [Resting EXCEPT !.at = "cadence", !.turn = logged, !.force = TRUE,
                               !.cursor = End(sessions), !.span = End(sessions)]
  <2>1. /\ q.at = "cadence" /\ q.turn = logged /\ ~q.final
        /\ q.span = End(sessions) /\ q.cursor = End(sessions)
        /\ call' = q
    BY <1>8 DEF SummarizeNow, Resting
  <2>2. q \in Call
    BY <1>0, <1>1 DEF Call, Steps, Resting
  <2> HIDE DEF q
  <2>3. CallKnows(q, chronicle, sessions, arcs, logged, closed)
    BY <1>0, <1>1, <2>1, <2>2 DEF CallKnows, Digesting
  <2>4. calls' \in 0..MaxCalls
    BY <1>8 DEF SummarizeNow, Memorized
  <2> QED
    BY <1>8, <2>1, <2>3, <2>4 DEF SummarizeNow, Archive, Memorized
<1>9. CASE Regenerate
  <2> DEFINE q == [Resting EXCEPT !.at = "commit", !.turn = call.turn, !.pass = 2]
  <2>1. /\ q.at = "commit" /\ q.turn = call.turn /\ ~q.final /\ q.pass = 2
        /\ call' = q
    BY <1>9 DEF Regenerate, Resting
  <2>2. q \in Call
    <3>1. call.turn \in 0..MaxTurns
      BY <1>0 DEF Call
    <3> QED
      BY <3>1, <1>2, Committing DEF CallKnows
  <2> HIDE DEF q
  <2>3. call.turn = logged + 1 /\ NoneStale(chronicle)
    BY <1>0, <1>9 DEF Regenerate, CallKnows, Digesting
  <2>4. CallKnows(q, chronicle, sessions, arcs, logged, closed)
    BY <1>0, <2>1, <2>2, <2>3 DEF CallKnows
  <2> QED
    BY <1>9, <2>1, <2>4 DEF Regenerate, Archive, Memorized
<1>10. CASE Abandon
  BY <1>2, <1>10 DEF Abandon, Archive, Memorized
<1> QED
  BY <1>4, <1>5, <1>6, <1>7, <1>8, <1>9, <1>10

\* The commit of a pass pins a fact of the turn being played.
LEMMA PassCommits ==
    ASSUME MemoryAssumption, Memorized, CommitPass
    PROVE  Memorized'
<1>0. /\ CallKnows(call, chronicle, sessions, arcs, logged, closed)
      /\ call \in Call /\ logged \in Nat /\ RowsFit(chronicle, pins, logged)
  BY DEF Memorized, CallKnows, MemoryAssumption
<1>1. call.turn = logged + 1 /\ call.turn \in Turns
  BY <1>0 DEF CallKnows, CommitPass, Call, Turns
<1>2. ASSUME pins' = Append(pins, call.turn) /\ Len(pins) < MaxPins
      PROVE  /\ RowsFit(chronicle, pins', logged) /\ Full(sessions, chronicle, pins')
             /\ Full(arcs, chronicle, pins') /\ Full(campaigns, chronicle, pins')
  <2> DEFINE n == Len(pins)
  <2>1. pins \in Seq(Turns)
    BY <1>0 DEF RowsFit
  <2>2. /\ pins' \in Seq(Turns) /\ n \in Nat /\ DOMAIN pins = 1..n
        /\ DOMAIN pins' = 1..(n + 1) /\ Len(pins') = n + 1
        /\ \A k \in 1..n : pins'[k] = pins[k]
        /\ pins'[n + 1] = call.turn
    BY <1>1, <1>2, <2>1
  <2> HIDE DEF n
  <2>3. RowsFit(chronicle, pins', logged)
    <3>1. \A k \in DOMAIN pins' : pins'[k] <= logged + 1
      <4>1. \A k \in 1..n : pins[k] <= logged + 1
        BY <1>0, <2>2 DEF RowsFit
      <4> QED
        BY <1>0, <1>1, <2>2, <4>1
    <3>2. Len(pins') <= MaxPins
      BY <1>2, <2>2 DEF n, MemoryAssumption
    <3> QED
      BY <1>0, <2>2, <3>1, <3>2 DEF RowsFit
  <2>4. ASSUME NEW level, Full(level, chronicle, pins),
               \A k \in DOMAIN level : level[k].hi \in Turns /\ level[k].hi <= logged + 1
        PROVE  Full(level, chronicle, pins')
    <3>1. \A k \in DOMAIN level : level[k].hi \in Int /\ level[k].hi <= logged + 1
      BY <2>4 DEF Turns
    <3>2. /\ DOMAIN pins \subseteq DOMAIN pins'
          /\ \A r \in DOMAIN pins : pins'[r] = pins[r]
          /\ \A r \in DOMAIN pins' \ DOMAIN pins : pins'[r] = logged + 1
      BY <1>1, <2>2
    <3> QED
      BY <1>0, <2>4, <3>1, <3>2, FullKeeps
  <2> QED
    BY <2>3, <2>4, LevelsDated, <1>0 DEF Memorized
<1>3. /\ RowsFit(chronicle, pins', logged) /\ Full(sessions, chronicle, pins')
      /\ Full(arcs, chronicle, pins') /\ Full(campaigns, chronicle, pins')
  <2>1. CASE pins' = pins
    BY <1>0, <2>1 DEF Memorized
  <2> QED
    BY <1>2, <2>1 DEF CommitPass
<1>4. CallKnows(call', chronicle, sessions, arcs, logged, closed)
  <2> DEFINE to == IF call.pass = 1 THEN "append" ELSE "log"
             q == [call EXCEPT !.at = to]
  <2>1. to \in Steps
    BY DEF Steps
  <2>2. call' = q /\ call.at = "commit"
    BY DEF CommitPass
  <2> HIDE DEF to
  <2>3. q \in Call /\ q.at = to /\ q.turn = call.turn /\ q.final = call.final /\ q.pass = call.pass
    BY <1>0, <2>1 DEF Call
  <2> HIDE DEF q
  <2>4. /\ call.pass = 1 => Len(chronicle) < MaxRows
        /\ call.pass = 2 => NoneStale(chronicle)
        /\ call.final => closed
    BY <1>0, <2>2 DEF CallKnows, Digesting
  <2>5. call.pass \in {1, 2}
    BY <1>0 DEF Call
  <2>6. CASE call.pass = 1
    <3>1. q.at = "append" /\ Len(chronicle) < MaxRows
      BY <2>3, <2>4, <2>6 DEF to
    <3> QED
      BY <1>0, <1>1, <2>2, <2>3, <2>4, <2>6, <3>1 DEF CallKnows, Digesting
  <2>7. CASE call.pass = 2
    <3>1. q.at = "log" /\ NoneStale(chronicle)
      BY <2>3, <2>4, <2>7 DEF to
    <3> QED
      BY <1>0, <1>1, <2>2, <2>3, <2>4, <2>7, <3>1 DEF CallKnows, Digesting
  <2> QED
    BY <2>5, <2>6, <2>7
<1> QED
  BY <1>3, <1>4 DEF CommitPass, Memorized, Archive

\* A row is appended with its prose, of the turn being played.
LEMMA RowWritten ==
    ASSUME MemoryAssumption, Memorized, AppendRow
    PROVE  Memorized'
<1>0. /\ CallKnows(call, chronicle, sessions, arcs, logged, closed)
      /\ call \in Call /\ logged \in Nat /\ RowsFit(chronicle, pins, logged)
      /\ call.at = "append"
  BY DEF Memorized, CallKnows, MemoryAssumption, AppendRow
<1>1. call.turn = logged + 1 /\ call.turn \in Turns /\ Len(chronicle) < MaxRows
  BY <1>0 DEF CallKnows, Call, Turns
<1> DEFINE n == Len(chronicle)
           row == [turn |-> call.turn, prose |-> TRUE]
<1>2. row \in Row /\ row.turn = logged + 1 /\ row.prose
  BY <1>1 DEF Row
<1>3. chronicle' = Append(chronicle, row)
  BY DEF AppendRow
<1> HIDE DEF row
<1>4. chronicle \in Seq(Row)
  BY <1>0 DEF RowsFit
<1>5. /\ chronicle' \in Seq(Row) /\ n \in Nat /\ DOMAIN chronicle = 1..n
      /\ DOMAIN chronicle' = 1..(n + 1) /\ Len(chronicle') = n + 1
      /\ \A k \in 1..n : chronicle'[k] = chronicle[k]
      /\ chronicle'[n + 1] = row
  BY <1>2, <1>3, <1>4
<1>6. n < MaxRows
  BY <1>1
<1>6a. \A k \in 1..n : chronicle[k].turn <= logged + 1
  BY <1>0, <1>5 DEF RowsFit
<1>6b. \A k \in 1..n : k > n - Verbatim => chronicle[k].prose
  BY <1>0, <1>5 DEF RowsFit
<1>6c. pins \in Seq(Turns) /\ Len(pins) <= MaxPins /\ \A k \in DOMAIN pins : pins[k] <= logged + 1
  BY <1>0 DEF RowsFit
<1> HIDE DEF n
<1>7. RowsFit(chronicle', pins, logged)
  <2>1. Len(chronicle') <= MaxRows
    BY <1>5, <1>6 DEF MemoryAssumption
  <2>2. \A k \in DOMAIN chronicle' : chronicle'[k].turn <= logged + 1
    BY <1>0, <1>2, <1>5, <1>6a
  <2>3. \A k \in DOMAIN chronicle' : k > Len(chronicle') - Verbatim => chronicle'[k].prose
    <3>1. ASSUME NEW k \in 1..(n + 1), k > (n + 1) - Verbatim PROVE chronicle'[k].prose
      <4>1. CASE k = n + 1
        BY <1>2, <1>5, <4>1
      <4>2. CASE k # n + 1
        <5>1. k \in 1..n /\ k > n - Verbatim
          BY <1>5, <3>1, <4>2 DEF MemoryAssumption
        <5> QED
          BY <1>5, <1>6b, <5>1
      <4> QED
        BY <4>1, <4>2
    <3> QED
      BY <1>5, <3>1
  <2> QED
    BY <1>5, <1>6c, <2>1, <2>2, <2>3 DEF RowsFit
<1>8. ASSUME NEW level, Full(level, chronicle, pins),
             \A k \in DOMAIN level : level[k].hi \in Turns /\ level[k].hi <= logged + 1
      PROVE  Full(level, chronicle', pins)
  <2>1. \A k \in DOMAIN level : level[k].hi \in Int /\ level[k].hi <= logged + 1
    BY <1>8 DEF Turns
  <2>2. /\ DOMAIN chronicle \subseteq DOMAIN chronicle'
        /\ \A r \in DOMAIN chronicle : chronicle'[r].turn = chronicle[r].turn
        /\ \A r \in DOMAIN chronicle' \ DOMAIN chronicle : chronicle'[r].turn = logged + 1
    BY <1>2, <1>5
  <2> QED
    BY <1>0, <1>8, <2>1, <2>2, FullKeeps
<1>9. CallKnows(call', chronicle', sessions, arcs, logged, closed)
  <2> DEFINE q == [call EXCEPT !.at = "trim"]
  <2>1. /\ q \in Call /\ q.at = "trim" /\ q.turn = call.turn /\ q.final = call.final
        /\ call' = q
    BY <1>0 DEF Call, Steps, AppendRow
  <2> HIDE DEF q
  <2>2. call.final => closed
    BY <1>0 DEF CallKnows
  <2> QED
    BY <1>0, <1>1, <2>1, <2>2 DEF CallKnows, Digesting
<1> QED
  BY <1>7, <1>8, <1>9, LevelsDated DEF AppendRow, Memorized, Archive

\* What is trimmed is older than the window.
LEMMA RowTrimmed ==
    ASSUME MemoryAssumption, Memorized, TrimRow
    PROVE  Memorized'
<1>0. /\ CallKnows(call, chronicle, sessions, arcs, logged, closed)
      /\ call.at = "trim" /\ logged \in Nat /\ RowsFit(chronicle, pins, logged)
      /\ chronicle \in Seq(Row)
  BY DEF Memorized, TrimRow, RowsFit, MemoryAssumption
<1>1. PICK k \in Stale : chronicle' = [chronicle EXCEPT ![k].prose = FALSE]
  BY DEF TrimRow
<1> DEFINE n == Len(chronicle)
<1>2. n \in Nat /\ DOMAIN chronicle = 1..n
  BY <1>0
<1>3. k \in 1..n /\ ~(k > n - Verbatim)
  BY <1>1, <1>2 DEF Stale, Kept
<1> DEFINE row == [chronicle[k] EXCEPT !.prose = FALSE]
<1>4. row \in Row /\ row.turn = chronicle[k].turn
  <2>1. chronicle[k] \in Row
    BY <1>0, <1>2, <1>3
  <2> QED
    BY <2>1 DEF Row
<1>5. chronicle' = [chronicle EXCEPT ![k] = row]
  BY <1>1
<1> HIDE DEF row
<1>6. /\ chronicle' \in Seq(Row) /\ DOMAIN chronicle' = 1..n /\ Len(chronicle') = n
      /\ \A j \in 1..n : j # k => chronicle'[j] = chronicle[j]
      /\ chronicle'[k] = row
  BY <1>0, <1>2, <1>3, <1>4, <1>5
<1>7. \A j \in 1..n : chronicle'[j].turn = chronicle[j].turn
  BY <1>3, <1>4, <1>6
<1>7a. /\ n <= MaxRows
       /\ \A j \in 1..n : chronicle[j].turn <= logged + 1
       /\ \A j \in 1..n : j > n - Verbatim => chronicle[j].prose
  BY <1>0, <1>2 DEF RowsFit
<1>7b. pins \in Seq(Turns) /\ Len(pins) <= MaxPins /\ \A j \in DOMAIN pins : pins[j] <= logged + 1
  BY <1>0 DEF RowsFit
<1> HIDE DEF n
<1>8. RowsFit(chronicle', pins, logged)
  <2>1. \A j \in 1..n : j > n - Verbatim => chronicle'[j].prose
    BY <1>3, <1>6, <1>7a
  <2> QED
    BY <1>6, <1>7, <1>7a, <1>7b, <2>1 DEF RowsFit
<1>9. ASSUME NEW level, Full(level, chronicle, pins),
             \A j \in DOMAIN level : level[j].hi \in Turns /\ level[j].hi <= logged + 1
      PROVE  Full(level, chronicle', pins)
  <2>1. \A j \in DOMAIN level : level[j].hi \in Int /\ level[j].hi <= logged + 1
    BY <1>9 DEF Turns
  <2>2. /\ DOMAIN chronicle \subseteq DOMAIN chronicle'
        /\ \A r \in DOMAIN chronicle : chronicle'[r].turn = chronicle[r].turn
        /\ \A r \in DOMAIN chronicle' \ DOMAIN chronicle : chronicle'[r].turn = logged + 1
    BY <1>2, <1>6, <1>7
  <2> QED
    BY <1>0, <1>9, <2>1, <2>2, FullKeeps
<1>10. CallKnows(call, chronicle', sessions, arcs, logged, closed)
  BY <1>0 DEF CallKnows, Digesting
<1> QED
  BY <1>8, <1>9, <1>10, LevelsDated DEF TrimRow, Memorized, Archive

\* The session written is as full as its span, and ends its level.
LEMMA SessionWritten ==
    ASSUME MemoryAssumption, Memorized, NEW hi \in Turns, hi <= logged + 1,
           call.span = End(sessions), call.span < hi,
           sessions' = Append(sessions, DigestOf(call.span, hi)),
           UNCHANGED <<chronicle, pins, arcs, campaigns, logged, closed, calls>>
    PROVE  /\ SessionsFit(sessions, logged)' /\ ArcsFit(arcs, sessions, closed)'
           /\ Full(sessions, chronicle, pins)' /\ End(sessions') = hi
<1> DEFINE e == DigestOf(call.span, hi)
<1>0. /\ sessions \in Seq(Digest) /\ SessionsFit(sessions, logged) /\ logged \in Nat
      /\ RowsFit(chronicle, pins, logged) /\ Full(sessions, chronicle, pins)
      /\ ArcsFit(arcs, sessions, closed) /\ arcs \in Seq(ArcDigest)
  BY DEF Memorized, SessionsFit, ArcsFit, MemoryAssumption
<1>1. call.span \in 0..MaxTurns
  BY <1>0, EndTyped
<1>2. /\ e \in Digest /\ e.lo = call.span /\ e.hi = hi
      /\ e.told = RowsBetween(call.span, hi) /\ e.quoted = PinsBetween(call.span, hi)
  BY <1>0, <1>1, DigestBuilt
<1> HIDE DEF e
<1>3. sessions' = Append(sessions, e)
  BY DEF e
<1>4. SessionsFit(Append(sessions, e), logged)
  BY <1>0, <1>2, SessionAdded
<1>5. ArcsFit(arcs, Append(sessions, e), closed)
  <2>1. ASSUME NEW k \in DOMAIN arcs PROVE ArcFits(arcs[k], k, Append(sessions, e), closed)
    <3>1. ArcFits(arcs[k], k, sessions, closed) /\ k \in Nat \ {0}
      BY <1>0 DEF ArcsFit
    <3> QED
      BY <1>0, <1>2, <3>1, ArcStays
  <2> QED
    BY <1>0, <2>1 DEF ArcsFit
<1>6. Full(Append(sessions, e), chronicle, pins)
  <2>1. hi \in Int /\ call.span \in Int
    BY <1>1 DEF Turns
  <2>2. /\ \A r \in DOMAIN chronicle :
             e.lo < chronicle[r].turn /\ chronicle[r].turn <= e.hi - 1 => r \in e.told
        /\ \A r \in DOMAIN pins :
             e.lo < pins[r] /\ pins[r] <= e.hi - 1 => r \in e.quoted
    BY <1>0, <1>2, <2>1, SpanFull
  <2> QED
    BY <1>0, <1>2, <2>2, FullGrows
<1>7. End(Append(sessions, e)) = hi
  BY <1>0, <1>2, EndOf
<1> QED
  BY <1>3, <1>4, <1>5, <1>6, <1>7

\* A window is closed when it is full.
LEMMA WindowCloses ==
    ASSUME MemoryAssumption, Memorized, CloseWindow
    PROVE  Memorized'
<1> DEFINE hi == call.cursor + Window
<1>0. /\ CallKnows(call, chronicle, sessions, arcs, logged, closed)
      /\ call \in Call /\ logged \in 0..MaxTurns /\ call.at = "cadence" /\ hi <= call.turn
  BY DEF Memorized, CallKnows, CloseWindow, WindowFull
<1>1. /\ call.turn \in 0..MaxTurns /\ call.cursor \in 0..MaxTurns /\ call.span \in 0..MaxTurns
      /\ call.turn <= logged + 1
      /\ call.span = End(sessions) /\ (call.final => closed)
      /\ Digesting(call, logged) => NoneStale(chronicle)
  BY <1>0 DEF CallKnows, Call
<1>2. call.span <= call.cursor
  BY <1>0, <1>1 DEF CallKnows, MemoryAssumption
<1>3. hi \in Turns /\ hi <= logged + 1 /\ call.span < hi
  BY <1>0, <1>1, <1>2 DEF Turns, MemoryAssumption
<1> HIDE DEF hi
<1>3a. hi \in 0..MaxTurns
  BY <1>3 DEF Turns
<1>4. CASE HasContent(call.span, hi)
  <2>1. /\ sessions' = Append(sessions, DigestOf(call.span, hi))
        /\ call' = [call EXCEPT !.cursor = hi, !.span = hi, !.created = TRUE]
    BY <1>4 DEF CloseWindow, hi
  <2>2. /\ SessionsFit(sessions, logged)' /\ ArcsFit(arcs, sessions, closed)'
        /\ Full(sessions, chronicle, pins)' /\ End(sessions') = hi
    BY <1>1, <1>3, <2>1, SessionWritten DEF CloseWindow
  <2> DEFINE q == [call EXCEPT !.cursor = hi, !.span = hi, !.created = TRUE]
  <2>3. /\ q \in Call /\ q.at = "cadence" /\ q.turn = call.turn /\ q.final = call.final
        /\ q.span = hi /\ q.cursor = hi
    BY <1>0, <1>3a DEF Call
  <2>4. call' = q
    BY <2>1
  <2> HIDE DEF q
  <2>5. Digesting(q, logged) => NoneStale(chronicle)
    BY <1>0, <1>1, <2>3 DEF Digesting
  <2>6. CallKnows(q, chronicle, sessions', arcs, logged, closed)
    BY <1>1, <1>3a, <2>2, <2>3, <2>5 DEF CallKnows
  <2> QED
    BY <2>2, <2>4, <2>6 DEF CloseWindow, Memorized
<1>5. CASE ~HasContent(call.span, hi)
  <2>1. sessions' = sessions /\ call' = [call EXCEPT !.cursor = hi]
    BY <1>5 DEF CloseWindow, hi
  <2> DEFINE q == [call EXCEPT !.cursor = hi]
  <2>3. /\ q \in Call /\ q.at = "cadence" /\ q.turn = call.turn /\ q.final = call.final
        /\ q.span = call.span /\ q.cursor = hi
    BY <1>0, <1>3a DEF Call
  <2>4. call' = q
    BY <2>1
  <2> HIDE DEF q
  <2>5. Digesting(q, logged) => NoneStale(chronicle)
    BY <1>0, <1>1, <2>3 DEF Digesting
  <2>6. CallKnows(q, chronicle, sessions, arcs, logged, closed)
    BY <1>1, <1>3, <1>3a, <2>3, <2>5 DEF CallKnows
  <2> QED
    BY <2>1, <2>4, <2>6 DEF CloseWindow, Memorized
<1> QED
  BY <1>4, <1>5

\* So is the one that is not, when it is forced.
LEMMA WindowCutShort ==
    ASSUME MemoryAssumption, Memorized, CloseEarly
    PROVE  Memorized'
<1> DEFINE hi == call.turn
<1>0. /\ CallKnows(call, chronicle, sessions, arcs, logged, closed)
      /\ call \in Call /\ logged \in 0..MaxTurns /\ call.at = "cadence"
      /\ call.cursor < call.turn /\ call.turn < call.cursor + Window /\ call.force
  BY DEF Memorized, CallKnows, CloseEarly, WindowFull, Call, MemoryAssumption
<1>1. /\ call.turn \in 0..MaxTurns /\ call.cursor \in 0..MaxTurns /\ call.span \in 0..MaxTurns
      /\ call.turn <= logged + 1
      /\ call.span = End(sessions) /\ (call.final => closed)
      /\ Digesting(call, logged) => NoneStale(chronicle)
  BY <1>0 DEF CallKnows, Call
<1>2. call.span <= call.cursor
  BY <1>0, <1>1 DEF CallKnows
<1>3. hi \in Turns /\ hi <= logged + 1 /\ call.span < hi
  BY <1>0, <1>1, <1>2 DEF Turns, MemoryAssumption
<1>4. CASE HasContent(call.span, call.turn)
  <2>1. /\ sessions' = Append(sessions, DigestOf(call.span, hi))
        /\ call' = [call EXCEPT !.force = FALSE, !.span = call.turn, !.created = TRUE]
    BY <1>4 DEF CloseEarly
  <2>2. /\ SessionsFit(sessions, logged)' /\ ArcsFit(arcs, sessions, closed)'
        /\ Full(sessions, chronicle, pins)' /\ End(sessions') = hi
    BY <1>1, <1>3, <2>1, SessionWritten DEF CloseEarly
  <2> DEFINE q == [call EXCEPT !.force = FALSE, !.span = call.turn, !.created = TRUE]
  <2>3. /\ q \in Call /\ q.at = "cadence" /\ q.turn = call.turn /\ q.final = call.final
        /\ q.span = call.turn /\ q.cursor = call.cursor /\ ~q.force
    BY <1>0, <1>1 DEF Call
  <2>4. call' = q
    BY <2>1
  <2> HIDE DEF q
  <2>5. Digesting(q, logged) => NoneStale(chronicle)
    BY <1>0, <1>1, <2>3 DEF Digesting
  <2>6. CallKnows(q, chronicle, sessions', arcs, logged, closed)
    BY <1>0, <1>1, <2>2, <2>3, <2>5 DEF CallKnows
  <2> QED
    BY <2>2, <2>4, <2>6 DEF CloseEarly, Memorized
<1>5. CASE ~HasContent(call.span, call.turn)
  <2>1. sessions' = sessions /\ call' = [call EXCEPT !.force = FALSE]
    BY <1>5 DEF CloseEarly
  <2> DEFINE q == [call EXCEPT !.force = FALSE]
  <2>3. /\ q \in Call /\ q.at = "cadence" /\ q.turn = call.turn /\ q.final = call.final
        /\ q.span = call.span /\ q.cursor = call.cursor
    BY <1>0 DEF Call
  <2>4. call' = q
    BY <2>1
  <2> HIDE DEF q
  <2>5. Digesting(q, logged) => NoneStale(chronicle)
    BY <1>0, <1>1, <2>3 DEF Digesting
  <2>6. CallKnows(q, chronicle, sessions, arcs, logged, closed)
    BY <1>1, <1>2, <2>3, <2>5 DEF CallKnows
  <2> QED
    BY <2>1, <2>4, <2>6 DEF CloseEarly, Memorized
<1> QED
  BY <1>4, <1>5

\* The sessions the next arc stands for are written, end with its own end, and
\* come after those of every arc before it.
LEMMA NextGroup ==
    ASSUME MemoryAssumption, Memorized, ArcDue
    PROVE  /\ Consumed \in Nat /\ GroupEnd \in DOMAIN sessions /\ Consumed < GroupEnd
           /\ GroupEnd <= Consumed + PerArc
           /\ Consumed > 0 => Consumed \in DOMAIN sessions
           /\ Pending >= PerArc => GroupEnd = Consumed + PerArc
<1> DEFINE c == Len(arcs) * PerArc
           n == Len(sessions)
<1>1. c \in Nat /\ n \in Nat /\ PerArc \in Nat \ {0} /\ DOMAIN sessions = 1..n
  BY DEF Memorized, ArcsFit, SessionsFit, MemoryAssumption
<1>2. Consumed = c /\ Pending = n - c
  BY DEF Consumed, Pending
<1>3. GroupEnd = IF n - c < PerArc THEN n ELSE c + PerArc
  BY <1>2 DEF GroupEnd
<1>4. n - c >= PerArc \/ n - c > 0
  BY <1>2 DEF ArcDue
<1> HIDE DEF c, n
<1> QED
  BY <1>1, <1>2, <1>3, <1>4

\* An arc is built from the chronicle, over the sessions of its group.
LEMMA ArcWritten ==
    ASSUME MemoryAssumption, Memorized, CloseArcRow
    PROVE  Memorized'
<1> DEFINE lo == IF Consumed > 0 THEN sessions[Consumed].hi ELSE 0
           hi == sessions[GroupEnd].hi
           a == [lo |-> lo, hi |-> hi, told |-> RowsBetween(lo, hi),
                 quoted |-> PinsBetween(lo, hi), scopes |-> Group]
           n == Len(arcs)
<1>0. /\ CallKnows(call, chronicle, sessions, arcs, logged, closed)
      /\ call \in Call /\ logged \in Nat /\ call.at = "rollup" /\ ArcDue
      /\ sessions \in Seq(Digest) /\ RowsFit(chronicle, pins, logged)
      /\ arcs \in Seq(ArcDigest) /\ ArcsFit(arcs, sessions, closed)
      /\ Full(arcs, chronicle, pins)
  BY DEF Memorized, CallKnows, CloseArcRow, SessionsFit, ArcsFit, MemoryAssumption
<1>1. /\ Consumed \in Nat /\ GroupEnd \in DOMAIN sessions /\ Consumed < GroupEnd
      /\ GroupEnd <= Consumed + PerArc
      /\ Consumed > 0 => Consumed \in DOMAIN sessions
      /\ Pending >= PerArc => GroupEnd = Consumed + PerArc
  BY <1>0, NextGroup
<1>2. DOMAIN sessions = 1..Len(sessions) /\ Len(sessions) \in Nat /\ n \in Nat /\ DOMAIN arcs = 1..n
  BY <1>0
<1>3. /\ hi \in Turns /\ hi <= logged + 1 /\ lo \in 0..MaxTurns /\ lo < hi
  <2>1. hi \in Turns /\ hi <= logged + 1
    BY <1>1, LevelsDated
  <2>2. CASE Consumed > 0
    <3>1. lo = sessions[Consumed].hi /\ Consumed \in DOMAIN sessions
      BY <1>1, <2>2
    <3>2. sessions[Consumed].hi < sessions[GroupEnd].hi
      BY <1>1, <3>1 DEF Memorized, SessionsFit
    <3>3. lo \in Turns
      BY <3>1, LevelsDated
    <3> QED
      BY <2>1, <3>1, <3>2, <3>3 DEF Turns, MemoryAssumption
  <2>3. CASE ~(Consumed > 0)
    BY <2>1, <2>3 DEF Turns, MemoryAssumption
  <2> QED
    BY <2>2, <2>3
<1>4. Group \subseteq Turns
  <2>1. Len(sessions) <= End(sessions) /\ End(sessions) \in 0..MaxTurns
    BY <1>0, EndTyped DEF Memorized, SessionsFit
  <2>2. DOMAIN sessions \subseteq Turns
    BY <1>2, <2>1 DEF Turns, MemoryAssumption
  <2> QED
    BY <2>2 DEF Group
<1>5. arcs' = Append(arcs, a) /\ call' = [call EXCEPT !.created = TRUE]
  BY DEF CloseArcRow
<1>6. /\ a \in ArcDigest /\ a.lo = lo /\ a.hi = hi /\ a.scopes = Group
      /\ a.told = RowsBetween(lo, hi) /\ a.quoted = PinsBetween(lo, hi)
  <2>1. RowsBetween(lo, hi) \subseteq RowIds /\ PinsBetween(lo, hi) \subseteq PinIds
    <3> HIDE DEF lo, hi
    <3>1. RowsBetween(lo, hi) \subseteq DOMAIN chronicle /\ PinsBetween(lo, hi) \subseteq DOMAIN pins
      BY DEF RowsBetween, PinsBetween
    <3>2. DOMAIN chronicle \subseteq RowIds /\ DOMAIN pins \subseteq PinIds
      BY <1>0 DEF RowsFit, RowIds, PinIds, MemoryAssumption
    <3> QED
      BY <3>1, <3>2
  <2> HIDE DEF lo, hi
  <2> QED
    BY <1>3, <1>4, <2>1 DEF ArcDigest
<1>7. \A j \in Group : (n + 1 - 1) * PerArc < j /\ j <= (n + 1) * PerArc /\ j \in DOMAIN sessions
  <2>1. Consumed = n * PerArc /\ (n + 1) * PerArc = n * PerArc + PerArc /\ n + 1 - 1 = n
    BY <1>2 DEF Consumed, MemoryAssumption
  <2> QED
    BY <2>1 DEF Group
<1>8. GroupEnd <= (n + 1) * PerArc
  <2>1. Consumed = n * PerArc /\ (n + 1) * PerArc = n * PerArc + PerArc
    BY <1>2 DEF Consumed, MemoryAssumption
  <2> QED
    BY <1>1, <2>1
<1>9. ASSUME ~closed
      PROVE  /\ (n + 1) * PerArc \in DOMAIN sessions /\ hi = sessions[(n + 1) * PerArc].hi
             /\ lo = (IF n + 1 = 1 THEN 0 ELSE sessions[(n + 1 - 1) * PerArc].hi)
             /\ Cardinality(Group) = PerArc
  <2>1. Pending >= PerArc
    BY <1>0, <1>9 DEF ArcDue, CallKnows
  <2>2. Consumed = n * PerArc /\ (n + 1) * PerArc = Consumed + PerArc /\ n + 1 - 1 = n
    BY <1>2 DEF Consumed, MemoryAssumption
  <2>3. GroupEnd = (n + 1) * PerArc
    BY <1>1, <2>1, <2>2
  <2>4. lo = (IF n + 1 = 1 THEN 0 ELSE sessions[(n + 1 - 1) * PerArc].hi)
    <3>1. CASE n = 0
      <4>1. n * PerArc = 0
        BY <3>1 DEF MemoryAssumption
      <4> QED
        BY <2>2, <3>1, <4>1
    <3>2. CASE n # 0
      <4>1. n * PerArc > 0
        <5>1. 0 < n /\ 0 * PerArc = 0 /\ PerArc \in Nat \ {0}
          BY <1>2, <3>2 DEF MemoryAssumption
        <5>2. 0 * PerArc + PerArc <= n * PerArc
          BY <1>2, <5>1, GroupsApart
        <5> DEFINE m == n * PerArc
        <5>3. PerArc <= m /\ m \in Nat
          BY <1>2, <5>1, <5>2
        <5> HIDE DEF m
        <5>4. m > 0
          BY <5>1, <5>3
        <5> QED
          BY <5>4 DEF m
      <4> QED
        BY <1>2, <2>2, <3>2, <4>1
    <3> QED
      BY <3>1, <3>2
  <2>5. Group = (Consumed + 1)..(Consumed + PerArc)
    <3>1. Consumed + PerArc <= Len(sessions)
      BY <1>1, <1>2, <2>1
    <3> QED
      BY <1>1, <1>2, <3>1 DEF Group, MemoryAssumption
  <2>6. Cardinality(Group) = PerArc
    <3>1. Cardinality((Consumed + 1)..(Consumed + PerArc)) =
            IF Consumed + 1 > Consumed + PerArc THEN 0
            ELSE (Consumed + PerArc) - (Consumed + 1) + 1
      BY <1>1, FS_Interval DEF MemoryAssumption
    <3> QED
      BY <1>1, <2>5, <3>1 DEF MemoryAssumption
  <2> QED
    BY <1>1, <2>3, <2>4, <2>6
<1> HIDE DEF lo, hi, a
<1>10. ArcFits(a, n + 1, sessions, closed)
  <2>1. a.scopes \subseteq {j \in DOMAIN sessions : (n + 1 - 1) * PerArc < j /\ j <= (n + 1) * PerArc}
    BY <1>6, <1>7
  <2>2. \E j \in DOMAIN sessions : j <= (n + 1) * PerArc /\ a.hi = sessions[j].hi
    BY <1>1, <1>6, <1>8 DEF hi
  <2> QED
    BY <1>3, <1>6, <1>9, <2>1, <2>2 DEF ArcFits
<1>11. /\ arcs' \in Seq(ArcDigest) /\ DOMAIN arcs' = 1..(n + 1) /\ arcs' # <<>>
       /\ \A k \in 1..n : arcs'[k] = arcs[k]
       /\ arcs'[n + 1] = a
  <2>1. arcs \in Seq(ArcDigest) /\ a \in ArcDigest /\ Len(arcs) = n /\ n \in Nat
    BY <1>0, <1>2, <1>6
  <2>2. /\ arcs' \in Seq(ArcDigest) /\ Len(arcs') = n + 1
        /\ \A k \in 1..n : arcs'[k] = arcs[k]
        /\ arcs'[n + 1] = a
    BY <1>5, <2>1, AppendProperties
  <2>3. n + 1 # 0 /\ n + 1 \in Nat
    BY <2>1
  <2> HIDE DEF n
  <2> QED
    BY <2>2, <2>3, EmptySeq
<1>12. ArcsFit(arcs', sessions, closed)
  <2>1. ASSUME NEW k \in 1..(n + 1) PROVE ArcFits(arcs'[k], k, sessions, closed)
    <3>1. CASE k = n + 1
      BY <1>10, <1>11, <3>1
    <3>2. CASE k # n + 1
      <4>1. k \in 1..n
        BY <1>2, <3>2
      <4> QED
        BY <1>0, <1>2, <1>11, <4>1 DEF ArcsFit
    <3> QED
      BY <3>1, <3>2
  <2> QED
    BY <1>11, <2>1 DEF ArcsFit
<1>13. End(arcs') = hi /\ End(arcs) <= hi
  <2>1. End(arcs') = hi
    BY <1>0, <1>5, <1>6, EndOf
  <2>2. ASSUME arcs = <<>> PROVE End(arcs) <= hi
    <3>1. End(arcs) = 0
      BY <2>2 DEF End
    <3> QED
      BY <1>3, <3>1 DEF Turns
  <2>3. ASSUME arcs # <<>> PROVE End(arcs) <= hi
    <3>1. n \in DOMAIN arcs /\ End(arcs) = arcs[n].hi
      BY <1>0, <2>3, EndTyped
    <3>2. PICK j \in DOMAIN sessions : j <= n * PerArc /\ arcs[n].hi = sessions[j].hi
      BY <1>0, <3>1 DEF ArcsFit, ArcFits
    <3>3. j < GroupEnd
      BY <1>1, <1>2, <3>2 DEF Consumed
    <3>4. sessions[j].hi < sessions[GroupEnd].hi
      BY <1>1, <3>2, <3>3 DEF Memorized, SessionsFit
    <3>5. sessions[j].hi \in Int /\ hi \in Int
      BY <1>3, <3>2, LevelsDated DEF Turns
    <3> QED
      BY <3>1, <3>2, <3>4, <3>5 DEF hi
  <2> QED
    BY <2>1, <2>2, <2>3
<1>14. CampaignsFit(campaigns, arcs')
  <2>1. End(campaigns) <= End(arcs')
    <3>1. End(campaigns) <= End(arcs) /\ campaigns \in Seq(Digest)
      BY DEF Memorized, CampaignsFit
    <3>2. End(campaigns) \in Int /\ End(arcs) \in Int /\ hi \in Int
      BY <1>0, <1>3, <3>1, EndTyped DEF Turns
    <3> QED
      BY <1>13, <3>1, <3>2
  <2>2. \A k \in DOMAIN campaigns : \E j \in DOMAIN arcs' : campaigns[k].hi = arcs'[j].hi
    <3>1. ASSUME NEW k \in DOMAIN campaigns
          PROVE  \E j \in DOMAIN arcs' : campaigns[k].hi = arcs'[j].hi
      <4>1. PICK j \in DOMAIN arcs : campaigns[k].hi = arcs[j].hi
        BY DEF Memorized, CampaignsFit
      <4>2. j \in DOMAIN arcs' /\ arcs'[j] = arcs[j]
        BY <1>2, <1>11, <4>1
      <4> QED
        BY <4>1, <4>2
    <3> QED
      BY <3>1
  <2> QED
    BY <2>1, <2>2 DEF Memorized, CampaignsFit
<1>15. Full(arcs', chronicle, pins)
  <2>1. lo \in Int /\ hi \in Int
    BY <1>3 DEF Turns
  <2>2. /\ \A r \in DOMAIN chronicle :
             a.lo < chronicle[r].turn /\ chronicle[r].turn <= a.hi - 1 => r \in a.told
        /\ \A r \in DOMAIN pins :
             a.lo < pins[r] /\ pins[r] <= a.hi - 1 => r \in a.quoted
    BY <1>0, <1>6, <2>1, SpanFull
  <2> QED
    BY <1>0, <1>5, <1>6, <2>2, FullGrows
<1>16. CallKnows(call', chronicle, sessions, arcs', logged, closed)
  <2> DEFINE q == [call EXCEPT !.created = TRUE]
  <2>1. q \in Call /\ q.at = "rollup" /\ q.turn = call.turn /\ q.final = call.final /\ call' = q
    BY <1>0, <1>5 DEF Call
  <2> HIDE DEF q
  <2>2. /\ call.final => closed
        /\ call.turn <= logged + 1
        /\ Digesting(q, logged) => NoneStale(chronicle)
    BY <1>0, <2>1 DEF CallKnows, Digesting
  <2> QED
    BY <1>11, <2>1, <2>2 DEF CallKnows
<1> QED
  BY <1>12, <1>14, <1>15, <1>16 DEF CloseArcRow, Memorized

\* The campaign's digest is told again up to the end of the newest arc.
LEMMA CampaignRebuilt ==
    ASSUME MemoryAssumption, Memorized, RebuildCampaign
    PROVE  Memorized'
<1> DEFINE hi == End(arcs)
           e == DigestOf(0, hi)
<1>0. /\ CallKnows(call, chronicle, sessions, arcs, logged, closed)
      /\ call \in Call /\ logged \in Nat /\ call.at = "rebuild" /\ arcs # <<>>
      /\ RowsFit(chronicle, pins, logged)
      /\ arcs \in Seq(ArcDigest)
      /\ CampaignsFit(campaigns, arcs) /\ campaigns \in Seq(Digest)
      /\ Full(campaigns, chronicle, pins)
  BY DEF Memorized, CallKnows, RebuildCampaign, ArcsFit, CampaignsFit, MemoryAssumption
<1>1. hi \in Turns /\ Len(arcs) \in DOMAIN arcs /\ hi = arcs[Len(arcs)].hi
  BY <1>0, EndTyped
<1> HIDE DEF hi
<1>2. 0 \in 0..MaxTurns
  BY DEF MemoryAssumption
<1>3. /\ e \in Digest /\ e.lo = 0 /\ e.hi = hi
      /\ e.told = RowsBetween(0, hi) /\ e.quoted = PinsBetween(0, hi)
  BY <1>0, <1>1, <1>2, DigestBuilt
<1>4. campaigns' = Append(campaigns, e) /\ call' = After
  BY DEF RebuildCampaign, hi
<1> HIDE DEF e
<1> DEFINE n == Len(campaigns)
<1>5. /\ campaigns' \in Seq(Digest) /\ DOMAIN campaigns' = 1..(n + 1) /\ n \in Nat
      /\ DOMAIN campaigns = 1..n
      /\ \A k \in 1..n : campaigns'[k] = campaigns[k]
      /\ campaigns'[n + 1] = e
  BY <1>0, <1>3, <1>4
<1> HIDE DEF n
<1>6. CampaignsFit(campaigns', arcs)
  <2>1. End(campaigns') = hi
    BY <1>0, <1>3, <1>4, EndOf
  <2>2. ASSUME NEW k \in 1..(n + 1)
        PROVE  \E j \in DOMAIN arcs : campaigns'[k].hi = arcs[j].hi
    <3>1. CASE k = n + 1
      BY <1>1, <1>3, <1>5, <3>1
    <3>2. CASE k # n + 1
      <4>1. k \in 1..n
        BY <1>5, <3>2
      <4> QED
        BY <1>0, <1>5, <4>1 DEF CampaignsFit
    <3> QED
      BY <3>1, <3>2
  <2>3. hi <= End(arcs)
    BY <1>1 DEF hi, Turns
  <2> QED
    BY <1>5, <2>1, <2>2, <2>3 DEF CampaignsFit
<1>7. Full(campaigns', chronicle, pins)
  <2>1. 0 \in Int /\ hi \in Int
    BY <1>1 DEF Turns
  <2>2. /\ \A r \in DOMAIN chronicle :
             e.lo < chronicle[r].turn /\ chronicle[r].turn <= e.hi - 1 => r \in e.told
        /\ \A r \in DOMAIN pins :
             e.lo < pins[r] /\ pins[r] <= e.hi - 1 => r \in e.quoted
    BY <1>0, <1>3, <2>1, SpanFull
  <2> QED
    BY <1>0, <1>3, <1>4, <2>2, FullGrows
<1>8. CallKnows(After, chronicle, sessions, arcs, logged, closed)
  BY <1>0, AfterFits
<1> QED
  BY <1>4, <1>6, <1>7, <1>8 DEF RebuildCampaign, Memorized

\* A turn that is logged makes room for the next.
LEMMA TurnLogged ==
    ASSUME MemoryAssumption, Memorized, LogTurn
    PROVE  Memorized'
<1>0. /\ CallKnows(call, chronicle, sessions, arcs, logged, closed)
      /\ call \in Call /\ logged \in Nat /\ RowsFit(chronicle, pins, logged)
      /\ SessionsFit(sessions, logged)
  BY DEF Memorized, CallKnows, MemoryAssumption
<1>1. logged' = logged + 1 /\ logged' \in 0..MaxTurns
  BY <1>0 DEF LogTurn, CallKnows, Call
<1>2. RowsFit(chronicle, pins, logged')
  <2>1. /\ \A k \in DOMAIN chronicle : chronicle[k] \in Row
        /\ \A k \in DOMAIN pins : pins[k] \in Turns
    BY <1>0 DEF RowsFit
  <2>2. ASSUME NEW x \in Row PROVE x.turn \in Int
    BY DEF Row, Turns
  <2>3. \A k \in DOMAIN chronicle : chronicle[k].turn <= logged' + 1
    <3>1. \A k \in DOMAIN chronicle : chronicle[k].turn \in Int /\ chronicle[k].turn <= logged + 1
      BY <1>0, <2>1, <2>2 DEF RowsFit
    <3> QED
      BY <1>0, <1>1, <3>1
  <2>4. \A k \in DOMAIN pins : pins[k] <= logged' + 1
    <3>1. \A k \in DOMAIN pins : pins[k] \in Int /\ pins[k] <= logged + 1
      BY <1>0, <2>1 DEF RowsFit, Turns
    <3> QED
      BY <1>0, <1>1, <3>1
  <2> QED
    BY <1>0, <2>3, <2>4 DEF RowsFit
<1>3. SessionsFit(sessions, logged')
  <2>1. \A k \in DOMAIN sessions : sessions[k].hi \in Int /\ sessions[k].hi <= logged + 1
    BY LevelsDated DEF Turns
  <2>2. \A k \in DOMAIN sessions : sessions[k].hi <= logged' + 1
    BY <1>0, <1>1, <2>1
  <2> QED
    BY <1>0, <2>2 DEF SessionsFit
<1>4. CallKnows(Resting, chronicle, sessions, arcs, logged', closed)
  BY <1>1 DEF Resting, Call, CallKnows, Steps, Rest, Digesting, MemoryAssumption
<1> QED
  BY <1>1, <1>2, <1>3, <1>4 DEF LogTurn, Memorized, Archive

\* close_arc lets the arcs be short from here on.
LEMMA ArcClosed ==
    ASSUME MemoryAssumption, Memorized, CloseArc
    PROVE  Memorized'
<1>0. logged \in 0..MaxTurns /\ MaxTurns \in Nat /\ ArcsFit(arcs, sessions, closed)
  BY DEF Memorized, MemoryAssumption
<1> DEFINE q == [Resting EXCEPT !.at = "rollup", !.turn = logged, !.final = TRUE]
<1>1. q \in Call /\ q.at = "rollup" /\ q.turn = logged /\ ~q.created
  <2>1. Resting \in Call
    BY <1>0 DEF Resting, Call, Steps, Rest
  <2>2. q \in Call
    BY <1>0, <2>1 DEF Call, Steps
  <2>3. q.at = "rollup" /\ q.turn = logged
    BY <2>1 DEF Call
  <2>4. ~q.created
    BY DEF Resting
  <2> QED
    BY <2>2, <2>3, <2>4
<1>2. call' = q /\ closed' = TRUE /\ calls' \in 0..MaxCalls
  BY DEF CloseArc, Memorized
<1> HIDE DEF q
<1>3. CallKnows(q, chronicle, sessions, arcs, logged, TRUE)
  BY <1>0, <1>1 DEF CallKnows, Digesting
<1>4. ArcsFit(arcs, sessions, TRUE)
  BY <1>0 DEF ArcsFit, ArcFits
<1> QED
  BY <1>2, <1>3, <1>4 DEF CloseArc, Memorized, Archive

\* An empty memory is remembered.
LEMMA MemoryBegins ==
    ASSUME MemoryAssumption, MemoryInit
    PROVE  Memorized
<1> USE DEF MemoryAssumption
<1>1. RowsFit(<<>>, <<>>, 0)
  BY DEF RowsFit
<1>2. SessionsFit(<<>>, 0)
  BY DEF SessionsFit, Tiles, End
<1>3. ArcsFit(<<>>, <<>>, FALSE)
  BY DEF ArcsFit
<1>4. CampaignsFit(<<>>, <<>>)
  BY DEF CampaignsFit, End
<1>5. Full(<<>>, <<>>, <<>>)
  BY DEF Full
<1>6. CallKnows(Resting, <<>>, <<>>, <<>>, 0, FALSE)
  BY DEF Resting, Call, CallKnows, Steps, Rest, Digesting
<1> QED
  <2>1. /\ chronicle = <<>> /\ pins = <<>> /\ sessions = <<>> /\ arcs = <<>>
        /\ campaigns = <<>> /\ logged = 0 /\ call = Resting /\ closed = FALSE /\ calls = 0
    BY DEF MemoryInit
  <2>2. logged \in 0..MaxTurns /\ closed \in BOOLEAN /\ calls \in 0..MaxCalls
    <3>1. 0 \in 0..MaxTurns /\ 0 \in 0..MaxCalls
      OBVIOUS
    <3> QED
      BY <2>1, <3>1, Zenon
  <2>3. /\ RowsFit(chronicle, pins, logged) /\ SessionsFit(sessions, logged)
        /\ ArcsFit(arcs, sessions, closed) /\ CampaignsFit(campaigns, arcs)
        /\ Full(sessions, chronicle, pins) /\ Full(arcs, chronicle, pins)
        /\ Full(campaigns, chronicle, pins)
        /\ CallKnows(call, chronicle, sessions, arcs, logged, closed)
    BY <1>1, <1>2, <1>3, <1>4, <1>5, <1>6, <2>1, Zenon
  <2> QED
    BY <2>2, <2>3 DEF Memorized

\* Every step remembers.
LEMMA MemoryMoves ==
    ASSUME MemoryAssumption, Memorized, [MemoryNext]_memoryVars
    PROVE  Memorized'
<1>1. CASE UNCHANGED memoryVars
  BY <1>1 DEF memoryVars, Memorized
<1>2. CASE MemoryNext
  BY <1>2, CallMoves, PassCommits, RowWritten, RowTrimmed, WindowCloses, WindowCutShort,
     ArcWritten, CampaignRebuilt, TurnLogged, ArcClosed DEF MemoryNext
<1> QED
  BY <1>1, <1>2

\* What is remembered is whole: no digest of a level overlaps another or
\* leaves a turn out, no row or fact is missed below its last turn, and the
\* newest rows alone keep their prose.
LEMMA WholeMemory ==
    ASSUME MemoryAssumption, Memorized
    PROVE  MemorySound
<1>0. /\ sessions \in Seq(Digest) /\ arcs \in Seq(ArcDigest) /\ campaigns \in Seq(Digest)
      /\ SessionsFit(sessions, logged) /\ ArcsFit(arcs, sessions, closed)
      /\ CampaignsFit(campaigns, arcs) /\ RowsFit(chronicle, pins, logged)
      /\ CallKnows(call, chronicle, sessions, arcs, logged, closed)
      /\ chronicle \in Seq(Row)
  BY DEF Memorized, SessionsFit, ArcsFit, CampaignsFit, RowsFit
<1>1. SessionsTile
  BY <1>0 DEF SessionsFit, SessionsTile
<1>2. ArcsTile
  <2> SUFFICES ASSUME ~closed
               PROVE  Tiles(arcs) /\ \A k \in DOMAIN arcs : Cardinality(arcs[k].scopes) = PerArc
    BY DEF ArcsTile
  <2>1. ASSUME NEW k \in DOMAIN arcs
        PROVE  /\ arcs[k].lo = (IF k = 1 THEN 0 ELSE sessions[(k - 1) * PerArc].hi)
               /\ arcs[k].hi = sessions[k * PerArc].hi
               /\ arcs[k].lo < arcs[k].hi /\ Cardinality(arcs[k].scopes) = PerArc
    BY <1>0 DEF ArcsFit, ArcFits
  <2>2. ASSUME NEW k \in DOMAIN arcs
        PROVE  arcs[k].lo = (IF k = 1 THEN 0 ELSE arcs[k - 1].hi)
    <3>1. CASE k = 1
      BY <2>1, <3>1
    <3>2. CASE k # 1
      <4>1. k - 1 \in DOMAIN arcs
        BY <1>0, <3>2
      <4>2. arcs[k - 1].hi = sessions[(k - 1) * PerArc].hi
        BY <2>1, <4>1
      <4> QED
        BY <2>1, <3>2, <4>2
    <3> QED
      BY <3>1, <3>2
  <2> QED
    BY <2>1, <2>2 DEF Tiles
<1>3. ArcsDisjoint
  <2>1. ASSUME NEW j \in DOMAIN arcs, NEW k \in DOMAIN arcs, j < k
        PROVE  arcs[j].scopes \cap arcs[k].scopes = {}
    <3>1. ASSUME NEW s \in arcs[j].scopes, s \in arcs[k].scopes PROVE FALSE
      <4>1. s \in DOMAIN sessions /\ s <= j * PerArc /\ (k - 1) * PerArc < s
        BY <1>0, <3>1 DEF ArcsFit, ArcFits
      <4>2. s \in Nat /\ j \in Nat /\ k - 1 \in Nat /\ j <= k - 1 /\ PerArc \in Nat \ {0}
        BY <1>0, <2>1, <4>1 DEF MemoryAssumption
      <4>3. j * PerArc \in Nat /\ (k - 1) * PerArc \in Nat /\ j * PerArc <= (k - 1) * PerArc
        <5>1. CASE j = k - 1
          BY <4>2, <5>1
        <5>2. CASE j < k - 1
          <6>1. /\ j * PerArc \in Nat /\ (k - 1) * PerArc \in Nat
                /\ j * PerArc + PerArc <= (k - 1) * PerArc
            BY <4>2, <5>2, GroupsApart
          <6> DEFINE x == j * PerArc
                     y == (k - 1) * PerArc
          <6>2. x \in Nat /\ y \in Nat /\ x + PerArc <= y
            BY <6>1
          <6> HIDE DEF x, y
          <6>3. x <= y
            BY <4>2, <6>2
          <6> QED
            BY <6>1, <6>3 DEF x, y
        <5> QED
          BY <4>2, <5>1, <5>2
      <4> DEFINE x == j * PerArc
                 y == (k - 1) * PerArc
      <4>4. x \in Nat /\ y \in Nat /\ x <= y /\ s <= x /\ y < s
        BY <4>1, <4>3
      <4> HIDE DEF x, y
      <4> QED
        BY <4>2, <4>4
    <3> QED
      BY <3>1
  <2>2. ASSUME NEW j \in DOMAIN arcs, NEW k \in DOMAIN arcs, j # k
        PROVE  arcs[j].scopes \cap arcs[k].scopes = {}
    <3>1. j < k \/ k < j
      BY <1>0, <2>2
    <3> QED
      BY <2>1, <3>1
  <2> QED
    BY <2>2 DEF ArcsDisjoint
<1>4. Nested
  <2>1. End(arcs) <= End(sessions)
    <3>1. CASE arcs = <<>>
      <4>1. End(arcs) = 0
        BY <3>1 DEF End
      <4>2. End(sessions) \in 0..MaxTurns
        BY <1>0, EndTyped
      <4> QED
        BY <4>1, <4>2
    <3>2. CASE arcs # <<>>
      <4> DEFINE n == Len(arcs)
                 m == Len(sessions)
      <4>1. n \in DOMAIN arcs /\ End(arcs) = arcs[n].hi
        BY <1>0, <3>2, EndTyped
      <4>2. PICK j \in DOMAIN sessions : arcs[n].hi = sessions[j].hi
        BY <1>0, <4>1 DEF ArcsFit, ArcFits
      <4>3. sessions # <<>> /\ DOMAIN sessions = 1..m /\ m \in Nat
        BY <1>0, <4>2
      <4>4. m \in DOMAIN sessions /\ End(sessions) = sessions[m].hi
        BY <1>0, <4>3, EndTyped
      <4>5. sessions[j].hi \in Int /\ sessions[m].hi \in Int
        BY <4>2, <4>4, LevelsDated DEF Turns
      <4>6. j < m => sessions[j].hi < sessions[m].hi
        BY <1>0, <4>2, <4>4 DEF SessionsFit
      <4>7. j < m \/ j = m
        BY <4>2, <4>3
      <4> QED
        BY <4>1, <4>2, <4>4, <4>5, <4>6, <4>7
    <3> QED
      BY <3>1, <3>2
  <2> QED
    BY <1>0, <2>1 DEF Nested, CampaignsFit
<1>5. DigestsComplete
  <2>1. ASSUME NEW level, Full(level, chronicle, pins) PROVE Complete(level)
    BY <2>1 DEF Full, Complete, RowsBetween, PinsBetween
  <2> QED
    BY <2>1 DEF Memorized, DigestsComplete
<1>6. ProseWindow
  <2> SUFFICES ASSUME call.at \in {"scan", "log"}
               PROVE  {k \in DOMAIN chronicle : chronicle[k].prose}
                        = {k \in DOMAIN chronicle : k > Len(chronicle) - Verbatim}
    BY DEF ProseWindow
  <2>1. NoneStale(chronicle)
    BY <1>0 DEF CallKnows, Digesting
  <2>2. ASSUME NEW k \in DOMAIN chronicle
        PROVE  chronicle[k].prose <=> k > Len(chronicle) - Verbatim
    <3>1. k \in Nat /\ Len(chronicle) \in Nat /\ Verbatim \in Nat
      BY <1>0 DEF MemoryAssumption
    <3>2. k > Len(chronicle) - Verbatim => chronicle[k].prose
      BY <1>0 DEF RowsFit
    <3>3. k <= Len(chronicle) - Verbatim => ~chronicle[k].prose
      BY <2>1 DEF NoneStale
    <3> QED
      BY <3>1, <3>2, <3>3
  <2> QED
    BY <2>2
<1> QED
  BY <1>1, <1>2, <1>3, <1>4, <1>5, <1>6 DEF MemorySound, Gapless

\* Whatever is abandoned, played again or forced between two commits, the
\* archive of SagaDigest stays gapless and complete and the chronicle keeps
\* the prose of its newest rows (memory.py).
THEOREM MemoryKeeps == MemorySpec => []MemorySound
<1>1. MemoryInit => Memorized
  BY MemoryBegins, MemoryAssumption
<1>2. Memorized /\ [MemoryNext]_memoryVars => Memorized'
  BY MemoryMoves, MemoryAssumption
<1>3. Memorized => MemorySound
  BY WholeMemory, MemoryAssumption
<1> QED
  BY <1>1, <1>2, <1>3, PTL DEF MemorySpec

\* Nothing is written of a turn that has not begun, more rows are not kept than
\* there were attempts, and the locals of a call stay what they are for.
THEOREM MemoryTyped == MemorySpec => []MemoryTypeOK
<1>1. MemoryInit => Memorized
  BY MemoryBegins, MemoryAssumption
<1>2. Memorized /\ [MemoryNext]_memoryVars => Memorized'
  BY MemoryMoves, MemoryAssumption
<1>3. Memorized => MemoryTypeOK
  BY DEF Memorized, RowsFit, SessionsFit, ArcsFit, CampaignsFit, CallKnows, MemoryTypeOK
<1> QED
  BY <1>1, <1>2, <1>3, PTL DEF MemorySpec

-----------------------------------------------------------------------------
(* Tokens and shares *)

\* estimate_tokens rounds up to whole tokens, and to one at least.
LEMMA TokensCount ==
    ASSUME NEW n \in Nat
    PROVE  /\ Tokens(n) \in Nat \ {0}
           /\ n <= 4 * Tokens(n)
           /\ 4 * Tokens(n) <= n + 3 \/ n = 0
  BY DEF Tokens

\* A share is rounded down.
LEMMA ShareRounded ==
    ASSUME NEW w \in Nat, NEW p \in Nat
    PROVE  /\ Share(w, p) \in Nat
           /\ 100 * Share(w, p) <= w * p
<1>1. w * p \in Nat
  OBVIOUS
<1>2. ASSUME NEW x \in Nat PROVE x \div 100 \in Nat /\ 100 * (x \div 100) <= x
  BY <1>2
<1> QED
  BY <1>1, <1>2 DEF Share

\* Percentages that come to a hundred share out no more than there is.
LEMMA SharesFit ==
    ASSUME NEW w \in Nat, NEW p \in Nat, NEW q \in Nat, NEW r \in Nat, p + q + r <= 100
    PROVE  Share(w, p) + Share(w, q) + Share(w, r) <= w
<1>1. /\ Share(w, p) \in Nat /\ 100 * Share(w, p) <= w * p
      /\ Share(w, q) \in Nat /\ 100 * Share(w, q) <= w * q
      /\ Share(w, r) \in Nat /\ 100 * Share(w, r) <= w * r
  BY ShareRounded
<1>2. w * p + w * q + w * r = w * (p + q + r)
  OBVIOUS
<1>3. w * (p + q + r) <= w * 100
  <2> DEFINE s == p + q + r
  <2>1. s \in Nat /\ s <= 100
    OBVIOUS
  <2> HIDE DEF s
  <2>2. w * s <= w * 100
    BY <2>1
  <2> QED
    BY <2>2 DEF s
<1>4. /\ w * p \in Nat /\ w * q \in Nat /\ w * r \in Nat /\ w * (p + q + r) \in Nat
      /\ w * 100 = 100 * w
  OBVIOUS
<1> HIDE DEF Share
<1> DEFINE a == Share(w, p)
           b == Share(w, q)
           c == Share(w, r)
           x == w * p
           y == w * q
           z == w * r
           s == w * (p + q + r)
<1>5. /\ a \in Nat /\ b \in Nat /\ c \in Nat /\ x \in Nat /\ y \in Nat /\ z \in Nat
      /\ 100 * a <= x /\ 100 * b <= y /\ 100 * c <= z /\ x + y + z = s /\ s <= 100 * w
  BY <1>1, <1>2, <1>3, <1>4
<1> HIDE DEF a, b, c, x, y, z, s
<1>6. a + b + c <= w
  BY <1>5
<1> QED
  BY <1>6 DEF a, b, c

\* A heading costs what it is estimated at.
LEMMA TitleCounts ==
    ASSUME NEW s \in Sections
    PROVE  Title(s) \in Nat \ {0}
  BY DEF Title, Sections

-----------------------------------------------------------------------------
(* The section at work *)

\* The lines that are kept fit under the title, and each weighs its tokens; the
\* breaks between them are what no estimate counts.
Weighed(d, s) ==
    /\ d.kept <= d.offered
    /\ d.kept = 0 => d.used = 0 /\ d.chars = 0
    /\ d.kept > 0 => d.used <= BodyRoom(s, d.room) /\ d.chars <= 4 * d.used + d.kept - 1

\* A section that fits its room line by line fits it as a text, but for the breaks.
LEMMA SectionFits ==
    ASSUME BudgetAssumption, NEW t \in Nat, NEW chars \in Nat, NEW used \in Nat,
           NEW kept \in 1..MaxItems, NEW room \in Int,
           used <= room - Tokens(t), chars <= 4 * used + kept - 1
    PROVE  Tokens(t + chars) <= room + Breaks
<1>1. /\ Tokens(t) \in Nat /\ t <= 4 * Tokens(t)
      /\ Tokens(t + chars) \in Nat \ {0}
      /\ 4 * Tokens(t + chars) <= t + chars + 3 \/ t + chars = 0
  BY TokensCount
<1>2. CASE t + chars = 0
  <2>1. Tokens(t + chars) = 1 /\ Tokens(t) = 1
    BY <1>2 DEF Tokens
  <2>2. Breaks \in Nat
    BY DEF Breaks, BudgetAssumption
  <2> HIDE DEF Tokens
  <2> QED
    BY <2>1, <2>2
<1>3. CASE 4 * Tokens(t + chars) <= t + chars + 3
  <2> DEFINE a == Tokens(t + chars)
             b == Tokens(t)
  <2>1. a \in Nat /\ b \in Nat /\ 4 * a <= 4 * b + 4 * used + kept + 2
    BY <1>1, <1>3
  <2> HIDE DEF a, b
  <2>2. a - (b + used) <= (MaxItems + 2) \div 4
    BY <2>1 DEF BudgetAssumption
  <2>3. a <= room + Breaks
    BY <2>1, <2>2 DEF Breaks, b, BudgetAssumption
  <2> QED
    BY <2>3 DEF a
<1> QED
  BY <1>1, <1>2, <1>3

-----------------------------------------------------------------------------
(* The sections one after the other *)

\* What is spent and what the groups still have: each section that is filled
\* may have cost the breaks of its lines, and the second of a group has what
\* the first left.
Fixed == plan.fixed + plan.memory + plan.continuity
Ahead ==
    /\ at = "scene" => 0 <= draft.room /\ Fixed + draft.room <= plan.total + 1
    /\ at = "npc_memory" =>
         /\ draft.room = plan.memory
         /\ Fixed + sizes["scene"] <= plan.total + 1 + Breaks
    /\ at = "leads" =>
         /\ draft.room = plan.memory - sizes["npc_memory"]
         /\ sizes["npc_memory"] <= plan.memory + Breaks
         /\ Fixed + sizes["scene"] <= plan.total + 1 + Breaks
    /\ at = "chronicle" =>
         /\ draft.room = plan.continuity
         /\ plan.fixed + plan.continuity + sizes["scene"] + sizes["npc_memory"] + sizes["leads"]
              <= plan.total + 1 + 3 * Breaks
    /\ at = "saga" =>
         /\ draft.room = plan.continuity - sizes["chronicle"]
         /\ sizes["chronicle"] <= plan.continuity + Breaks
         /\ plan.fixed + plan.continuity + sizes["scene"] + sizes["npc_memory"] + sizes["leads"]
              <= plan.total + 1 + 3 * Breaks
    /\ at = "done" => Used <= plan.total + 1 + 5 * Breaks

Budgeted ==
    /\ BudgetTypeOK
    /\ at \in Sections => Weighed(draft, at)
    /\ ~plan.over => Ahead

\* A prompt that was not begun is within its budget.
LEMMA BudgetInitial ==
    ASSUME BudgetAssumption, BudgetInit
    PROVE  Budgeted
<1>1. BudgetTypeOK
  BY DEF BudgetInit, BudgetTypeOK, EmptyDraft, Stages, BudgetAssumption
<1> QED
  BY <1>1 DEF BudgetInit, Budgeted, Ahead, Sections

\* The types, taken apart for the provers.
LEMMA BudgetFields ==
    ASSUME BudgetAssumption, BudgetTypeOK
    PROVE  /\ plan.total \in Nat /\ plan.fixed \in Nat /\ plan.memory \in Nat
           /\ plan.continuity \in Nat /\ plan.over \in BOOLEAN
           /\ draft.room \in Int /\ draft.used \in Nat /\ draft.chars \in Nat
           /\ draft.kept \in 0..MaxItems /\ draft.offered \in 0..MaxItems
           /\ draft.whole \in Nat /\ draft.cut \in BOOLEAN
           /\ sizes["scene"] \in Nat /\ sizes["npc_memory"] \in Nat /\ sizes["leads"] \in Nat
           /\ sizes["chronicle"] \in Nat /\ sizes["saga"] \in Nat
           /\ Breaks \in Nat /\ MaxItems \in Nat
<1>1. Breaks \in Nat /\ MaxItems \in Nat
  BY DEF BudgetAssumption, Breaks
<1>2. /\ sizes["scene"] \in Nat /\ sizes["npc_memory"] \in Nat /\ sizes["leads"] \in Nat
      /\ sizes["chronicle"] \in Nat /\ sizes["saga"] \in Nat
  BY DEF BudgetTypeOK, Sections
<1> QED
  BY <1>1, <1>2 DEF BudgetTypeOK

\* A prompt is begun: its shares are cut, and what must be said is taken off.
LEMMA OpenStep ==
    ASSUME BudgetAssumption, Budgeted, Open
    PROVE  Budgeted'
<1>1. PICK window \in Windows, ruleset \in Rulesets, policy \in Policies,
           outcome \in Outcomes, pinned \in Pinned :
         LET total == window - Share(window, ReservePct)
             system == Share(window, SystemPct)
             left == IF total > system THEN total - system ELSE 0
             scene == Share(left, ScenePct)
             memory == Share(left, MemoryPct)
             continuity == Share(left, ContinuityPct)
             whole == Tokens(outcome) + Tokens(pinned)
             over == IF whole > scene THEN whole - scene ELSE 0
             fromContinuity == Given(over, continuity)
             fromMemory == Given(over - fromContinuity, memory)
         IN
         /\ plan' = [ total      |-> total,
                      fixed      |-> AtMost(Tokens(ruleset), IF system = 0 THEN 1 ELSE system)
                                     + Tokens(outcome) + (IF pinned = 0 THEN 0 ELSE Tokens(pinned)),
                      policy     |-> IF policy = 0 THEN 0 ELSE Tokens(policy),
                      memory     |-> memory - fromMemory,
                      continuity |-> continuity - fromContinuity,
                      over       |-> over > fromContinuity + fromMemory ]
         /\ draft' = [EmptyDraft EXCEPT !.room = IF whole > scene THEN 0 ELSE scene - whole]
  BY DEF Open
<1> DEFINE total == window - Share(window, ReservePct)
           system == Share(window, SystemPct)
           left == IF total > system THEN total - system ELSE 0
           scene == Share(left, ScenePct)
           memory == Share(left, MemoryPct)
           continuity == Share(left, ContinuityPct)
           head == AtMost(Tokens(ruleset), IF system = 0 THEN 1 ELSE system)
           body == Tokens(outcome) + (IF pinned = 0 THEN 0 ELSE Tokens(pinned))
           whole == Tokens(outcome) + Tokens(pinned)
           over == IF whole > scene THEN whole - scene ELSE 0
           fromC == Given(over, continuity)
           fromM == Given(over - fromC, memory)
           room == IF whole > scene THEN 0 ELSE scene - whole
           extra == IF policy = 0 THEN 0 ELSE Tokens(policy)
           beyond == over > fromC + fromM
<1>2. /\ plan' = [total |-> total, fixed |-> head + Tokens(outcome) + (IF pinned = 0 THEN 0 ELSE Tokens(pinned)),
                  policy |-> extra, memory |-> memory - fromM,
                  continuity |-> continuity - fromC, over |-> beyond]
      /\ draft' = [EmptyDraft EXCEPT !.room = room]
  BY <1>1
<1>3. /\ window \in Nat /\ ruleset \in Nat /\ policy \in Nat /\ outcome \in Nat /\ pinned \in Nat
      /\ ReservePct \in Nat /\ SystemPct \in Nat /\ ScenePct \in Nat /\ MemoryPct \in Nat
      /\ ContinuityPct \in Nat /\ ReservePct + SystemPct <= 100
      /\ ScenePct + MemoryPct + ContinuityPct <= 100
  BY DEF BudgetAssumption
<1>4. /\ Tokens(ruleset) \in Nat /\ Tokens(policy) \in Nat
      /\ Tokens(outcome) \in Nat /\ Tokens(pinned) \in Nat
  BY <1>3, TokensCount
<1>5. total \in Nat /\ system \in Nat /\ system <= total
  <2>1. /\ Share(window, ReservePct) \in Nat /\ Share(window, SystemPct) \in Nat
        /\ Share(window, 0) \in Nat
    BY <1>3, ShareRounded
  <2>2. Share(window, ReservePct) + Share(window, SystemPct) + Share(window, 0) <= window
    BY <1>3, SharesFit
  <2> QED
    BY <1>3, <2>1, <2>2
<1> HIDE DEF total, system
<1>6. left \in Nat
  BY <1>5
<1>7. /\ scene \in Nat /\ memory \in Nat /\ continuity \in Nat
      /\ scene + memory + continuity <= left
  BY <1>3, <1>6, ShareRounded, SharesFit
<1>8. head \in Nat /\ head <= (IF system = 0 THEN 1 ELSE system)
  BY <1>4, <1>5 DEF AtMost
<1>9. body \in Nat /\ whole \in Nat /\ body <= whole /\ extra \in Nat
  BY <1>4
<1>10. left = (IF total > system THEN total - system ELSE 0)
  OBVIOUS
<1> HIDE DEF left, scene, memory, continuity, head
<1>11. head + Tokens(outcome) + (IF pinned = 0 THEN 0 ELSE Tokens(pinned)) = head + body
  BY <1>4, <1>8
<1> HIDE DEF body, whole
<1>12. over \in Nat /\ over = (IF whole > scene THEN whole - scene ELSE 0)
  BY <1>7, <1>9
<1>13. room = (IF whole > scene THEN 0 ELSE scene - whole)
  OBVIOUS
<1>14. fromC = Given(over, continuity) /\ fromM = Given(over - fromC, memory)
  OBVIOUS
<1> HIDE DEF over, fromC, fromM, room, extra
<1>15. /\ memory - fromM \in Nat /\ continuity - fromC \in Nat /\ room \in Nat
       /\ ~(over > fromC + fromM) =>
             head + body + room + (memory - fromM) + (continuity - fromC) <= total + 1
  <2>1. fromC \in Nat /\ fromC <= continuity /\ fromC <= over
    BY <1>7, <1>12, <1>14 DEF Given, AtMost
  <2>2. fromM \in Nat /\ fromM <= memory /\ fromM <= over - fromC
    BY <1>7, <1>12, <1>14, <2>1 DEF Given, AtMost
  <2>3. left + head <= total + 1
    BY <1>5, <1>6, <1>8, <1>10
  <2>4. CASE whole > scene
    BY <1>5, <1>6, <1>7, <1>8, <1>9, <1>12, <1>13, <2>1, <2>2, <2>3, <2>4
  <2>5. CASE ~(whole > scene)
    BY <1>5, <1>6, <1>7, <1>8, <1>9, <1>12, <1>13, <2>1, <2>2, <2>3, <2>5
  <2> QED
    BY <2>4, <2>5
<1>16. /\ plan'.total = total /\ plan'.fixed = head + body /\ plan'.memory = memory - fromM
       /\ plan'.continuity = continuity - fromC /\ plan'.over = beyond
  <2> HIDE DEF beyond
  <2> QED
    BY <1>2, <1>11
<1>17. plan' \in [total : Nat, fixed : Nat, policy : Nat, memory : Nat, continuity : Nat,
                  over : BOOLEAN]
  <2>1. beyond \in BOOLEAN /\ head + body \in Nat
    BY <1>8, <1>9
  <2> HIDE DEF beyond
  <2> QED
    BY <1>2, <1>5, <1>9, <1>11, <1>15, <2>1
<1>18. draft' = [room |-> room, used |-> 0, chars |-> 0, kept |-> 0, offered |-> 0,
                 whole |-> 0, cut |-> FALSE]
  BY <1>2 DEF EmptyDraft
<1>19. BudgetTypeOK'
  <2>1. 0 \in 0..MaxItems
    BY DEF BudgetAssumption
  <2>2. draft' \in [room : Int, used : Nat, chars : Nat, kept : 0..MaxItems,
                    offered : 0..MaxItems, whole : Nat, cut : BOOLEAN]
    BY <1>15, <1>18, <2>1
  <2>3. at' = "scene" /\ sizes' = sizes /\ lost' = lost
    BY DEF Open
  <2> QED
    BY <1>17, <2>2, <2>3 DEF Budgeted, BudgetTypeOK, Stages, Sections
<1>20. Weighed(draft, at)'
  BY <1>18 DEF Weighed
<1>21. ~plan'.over => Ahead'
  <2>1. at' = "scene"
    BY DEF Open
  <2>2. draft'.room = room
    BY <1>18
  <2>3. ~beyond => (head + body) + (memory - fromM) + (continuity - fromC) + room <= total + 1
    BY <1>5, <1>8, <1>9, <1>15
  <2>4. ~plan'.over => Fixed' + draft'.room <= plan'.total + 1
    BY <1>16, <2>2, <2>3 DEF Fixed
  <2> QED
    BY <1>15, <2>1, <2>2, <2>4 DEF Ahead
<1> QED
  BY <1>19, <1>20, <1>21 DEF Budgeted

\* A line more, kept or not, leaves the rest of the prompt as it is.
LEMMA LineMoves ==
    ASSUME BudgetAssumption, Budgeted, at \in Sections,
           UNCHANGED <<at, plan, sizes, lost>>,
           draft' \in [room : Int, used : Nat, chars : Nat, kept : 0..MaxItems,
                       offered : 0..MaxItems, whole : Nat, cut : BOOLEAN],
           draft'.room = draft.room, Weighed(draft, at)'
    PROVE  Budgeted'
<1>1. BudgetTypeOK'
  BY DEF Budgeted, BudgetTypeOK
<1>2. ~plan'.over => Ahead'
  BY DEF Budgeted, Ahead, Fixed, Used
<1> QED
  BY <1>1, <1>2 DEF Budgeted

\* What a section at work is made of.
SheetsAtWork == [room : Int, used : Nat, chars : Nat, kept : 0..MaxItems,
           offered : 0..MaxItems, whole : Nat, cut : BOOLEAN]

\* A line that is offered: counted, and nothing of it kept yet.
LEMMA LineOffered ==
    ASSUME BudgetAssumption, Budgeted, Filling, NEW line \in Nat
    PROVE  /\ Offer(line) \in SheetsAtWork
           /\ Offer(line).room = draft.room /\ Offer(line).used = draft.used
           /\ Offer(line).chars = draft.chars /\ Offer(line).kept = draft.kept
           /\ Offer(line).offered = draft.offered + 1
<1>1. /\ draft.chars \in Nat /\ draft.offered \in 0..MaxItems
      /\ draft.whole \in Nat /\ MaxItems \in Nat
  BY BudgetFields DEF Budgeted
<1>2. draft.offered < MaxItems
  BY DEF Filling
<1>3. draft \in SheetsAtWork
  BY DEF Budgeted, BudgetTypeOK, SheetsAtWork
<1> DEFINE whole == Joined(draft.whole, draft.offered, line)
           n == draft.offered + 1
<1>4. whole \in Nat
  BY <1>1 DEF Joined
<1>5. n \in 0..MaxItems
  BY <1>1, <1>2
<1>6. Offer(line) = [draft EXCEPT !.offered = n, !.whole = whole]
  BY DEF Offer
<1> HIDE DEF whole, n
<1>7. Offer(line) \in SheetsAtWork /\ Offer(line).offered = n
  BY <1>3, <1>4, <1>5, <1>6 DEF SheetsAtWork
<1>8. /\ Offer(line).room = draft.room /\ Offer(line).used = draft.used
      /\ Offer(line).chars = draft.chars /\ Offer(line).kept = draft.kept
  BY <1>3, <1>6 DEF SheetsAtWork
<1> QED
  BY <1>7, <1>8 DEF n

\* The line that is kept: it fits, and a break joins it to those before it.
LEMMA KeptLine ==
    ASSUME BudgetAssumption, Budgeted, Filling, NEW part \in Nat,
           NEW q \in SheetsAtWork, q.room = draft.room, q.used = draft.used,
           q.chars = draft.chars, q.kept = draft.kept, q.offered = draft.offered + 1,
           draft.used + Tokens(part) <= BodyRoom(at, draft.room),
           draft' = [q EXCEPT !.used = @ + Tokens(part), !.kept = @ + 1,
                         !.chars = Joined(@, draft.kept, part)],
           UNCHANGED <<at, plan, sizes, lost>>
    PROVE  Budgeted'
<1>1. /\ draft.room \in Int /\ draft.used \in Nat /\ draft.chars \in Nat
      /\ draft.kept \in 0..MaxItems /\ draft.offered \in 0..MaxItems
      /\ MaxItems \in Nat
  BY BudgetFields DEF Budgeted
<1>2. at \in Sections /\ draft.offered < MaxItems /\ Weighed(draft, at)
  BY DEF Filling, Budgeted
<1> DEFINE chars == Joined(draft.chars, draft.kept, part)
           used == draft.used + Tokens(part)
           kept == draft.kept + 1
<1>4. chars \in Nat
  BY <1>1 DEF Joined
<1>5. Tokens(part) \in Nat /\ part <= 4 * Tokens(part)
  BY TokensCount
<1>6. used \in Nat
  BY <1>1, <1>5
<1>7. chars <= 4 * used + kept - 1
  <2>1. CASE draft.kept = 0
    BY <1>1, <1>2, <1>5, <2>1 DEF Joined, Weighed
  <2>2. CASE draft.kept > 0
    BY <1>1, <1>2, <1>5, <2>2 DEF Joined, Weighed
  <2> QED
    BY <1>1, <2>1, <2>2
<1>8. draft' = [q EXCEPT !.used = used, !.kept = kept, !.chars = chars]
  OBVIOUS
<1>9. kept \in 0..MaxItems /\ kept <= draft.offered + 1 /\ kept > 0
  BY <1>1, <1>2 DEF Weighed
<1>10. used <= BodyRoom(at, draft.room)
  OBVIOUS
<1> HIDE DEF used, chars, kept
<1>11. draft' \in SheetsAtWork
  BY <1>4, <1>6, <1>8, <1>9 DEF SheetsAtWork
<1>12. /\ draft'.room = draft.room /\ draft'.used = used /\ draft'.chars = chars
       /\ draft'.kept = kept /\ draft'.offered = draft.offered + 1
  BY <1>8 DEF SheetsAtWork
<1>13. Weighed(draft, at)'
  BY <1>7, <1>9, <1>10, <1>12 DEF Weighed
<1> QED
  BY <1>2, <1>11, <1>12, <1>13, LineMoves DEF SheetsAtWork

\* A line that is not kept.
LEMMA LostLine ==
    ASSUME BudgetAssumption, Budgeted, Filling,
           NEW q \in SheetsAtWork, q.room = draft.room, q.used = draft.used,
           q.chars = draft.chars, q.kept = draft.kept, q.offered = draft.offered + 1,
           draft' = q, UNCHANGED <<at, plan, sizes, lost>>
    PROVE  Budgeted'
<1>1. draft.kept \in 0..MaxItems /\ draft.offered \in 0..MaxItems /\ MaxItems \in Nat
  BY BudgetFields DEF Budgeted
<1>2. at \in Sections /\ Weighed(draft, at)
  BY DEF Filling, Budgeted
<1>3. Weighed(draft, at)'
  BY <1>1, <1>2 DEF Weighed
<1> QED
  BY <1>2, <1>3, LineMoves DEF SheetsAtWork

\* A line that fits is taken whole, ...
LEMMA TakeStep ==
    ASSUME BudgetAssumption, Budgeted, NEW line \in ItemLengths, Take(line)
    PROVE  Budgeted'
<1>1. line \in Nat /\ Filling /\ draft.used + Tokens(line) <= BodyRoom(at, draft.room)
  BY DEF BudgetAssumption, Take, Fits
<1>2. PICK q : q = Offer(line)
  OBVIOUS
<1>3. /\ draft' = [q EXCEPT !.used = @ + Tokens(line), !.kept = @ + 1,
                       !.chars = Joined(@, draft.kept, line)]
      /\ UNCHANGED <<at, plan, sizes, lost>>
  BY <1>2 DEF Take
<1> QED
  BY <1>1, <1>2, <1>3, LineOffered, KeptLine

\* ... one too long for what is left may be cut ...
LEMMA CutStep ==
    ASSUME BudgetAssumption, Budgeted, NEW line \in ItemLengths, CutLine(line)
    PROVE  Budgeted'
<1>1. line \in Nat /\ Filling /\ UNCHANGED <<at, plan, sizes, lost>>
  BY DEF BudgetAssumption, CutLine
<1> DEFINE room == BodyRoom(at, draft.room) - draft.used
<1>2. PICK q : q = [Offer(line) EXCEPT !.cut = TRUE]
  OBVIOUS
<1>3. /\ q \in SheetsAtWork /\ q.room = draft.room /\ q.used = draft.used
      /\ q.chars = draft.chars /\ q.kept = draft.kept /\ q.offered = draft.offered + 1
  <2> DEFINE o == Offer(line)
  <2>1. /\ o \in SheetsAtWork /\ o.room = draft.room /\ o.used = draft.used
        /\ o.chars = draft.chars /\ o.kept = draft.kept /\ o.offered = draft.offered + 1
    BY <1>1, LineOffered
  <2>2. q = [o EXCEPT !.cut = TRUE]
    BY <1>2
  <2> HIDE DEF o
  <2>3. q \in SheetsAtWork
    BY <2>1, <2>2 DEF SheetsAtWork
  <2>4. /\ q.room = o.room /\ q.used = o.used /\ q.chars = o.chars
        /\ q.kept = o.kept /\ q.offered = o.offered
    BY <2>1, <2>2 DEF SheetsAtWork
  <2> QED
    BY <2>1, <2>3, <2>4
<1>4. CASE draft' = [Offer(line) EXCEPT !.cut = TRUE]
  BY <1>1, <1>2, <1>3, <1>4, LostLine
<1>5. CASE \E part \in 2 .. 4 * room :
             draft' = [Offer(line) EXCEPT !.cut = TRUE, !.used = @ + Tokens(part),
                          !.kept = @ + 1, !.chars = Joined(@, draft.kept, part)]
  <2>1. PICK part \in 2 .. 4 * room :
             draft' = [Offer(line) EXCEPT !.cut = TRUE, !.used = @ + Tokens(part),
                          !.kept = @ + 1, !.chars = Joined(@, draft.kept, part)]
    BY <1>5
  <2>2. at \in Sections /\ draft.room \in Int /\ draft.used \in Nat
    BY <1>1, BudgetFields DEF Budgeted, Filling
  <2>3. Tokens(Title(at)) \in Nat
    BY <2>2, TitleCounts, TokensCount
  <2>4. room \in Int
    BY <2>2, <2>3 DEF BodyRoom
  <2>5. part \in Nat /\ part <= 4 * room
    BY <2>4
  <2> DEFINE t == Tokens(part)
  <2>6. t \in Nat /\ (4 * t <= part + 3 \/ part = 0)
    BY <2>5, TokensCount
  <2> HIDE DEF t, room
  <2>7. t <= room
    BY <2>1, <2>4, <2>5, <2>6
  <2>8. draft.used + t <= BodyRoom(at, draft.room)
    BY <2>2, <2>3, <2>6, <2>7 DEF room, BodyRoom
  <2>9. draft.used + Tokens(part) <= BodyRoom(at, draft.room)
    BY <2>8 DEF t
  <2>10. draft' = [q EXCEPT !.used = @ + Tokens(part),
                       !.kept = @ + 1, !.chars = Joined(@, draft.kept, part)]
    BY <1>2, <2>1
  <2> QED
    BY <1>1, <1>3, <2>5, <2>9, <2>10, KeptLine
<1> QED
  BY <1>4, <1>5 DEF CutLine

\* ... or dropped.
LEMMA DropStep ==
    ASSUME BudgetAssumption, Budgeted, NEW line \in ItemLengths, Drop(line)
    PROVE  Budgeted'
<1>1. line \in Nat /\ Filling /\ UNCHANGED <<at, plan, sizes, lost>>
  BY DEF BudgetAssumption, Drop
<1>2. PICK q : q = Offer(line)
  OBVIOUS
<1>3. draft' = q
  BY <1>2 DEF Drop
<1> QED
  BY <1>1, <1>2, <1>3, LineOffered, LostLine

\* A section is closed: it took its room and the breaks, or nothing.
LEMMA CloseStep ==
    ASSUME BudgetAssumption, Budgeted, Close
    PROVE  Budgeted'
<1> DEFINE size == IF draft.kept = 0 THEN 0 ELSE Tokens(Title(at) + draft.chars)
<1>1. /\ at \in Sections /\ plan' = plan
      /\ sizes' = [sizes EXCEPT ![at] = size]
      /\ at' = NextSection(at)
      /\ draft' = [EmptyDraft EXCEPT !.room = RoomAfter(at, size)]
      /\ lost' \in {lost, lost \cup {at}}
  BY DEF Close
<1>2. /\ plan.total \in Nat /\ plan.fixed \in Nat /\ plan.memory \in Nat
      /\ plan.continuity \in Nat /\ draft.room \in Int /\ draft.used \in Nat
      /\ draft.chars \in Nat /\ draft.kept \in 0..MaxItems /\ MaxItems \in Nat
      /\ sizes["scene"] \in Nat /\ sizes["npc_memory"] \in Nat /\ sizes["leads"] \in Nat
      /\ sizes["chronicle"] \in Nat /\ sizes["saga"] \in Nat /\ Breaks \in Nat
  BY BudgetFields DEF Budgeted
<1>3. Title(at) \in Nat
  BY <1>1, TitleCounts
<1>4. size \in Nat /\ (size = 0 \/ size <= draft.room + Breaks)
  <2>1. CASE draft.kept = 0
    BY <2>1
  <2>2. CASE draft.kept # 0
    <3>1. draft.kept \in 1..MaxItems
      BY <1>2, <2>2
    <3>2. draft.used <= draft.room - Tokens(Title(at)) /\ draft.chars <= 4 * draft.used + draft.kept - 1
      BY <1>1, <1>2, <3>1 DEF Budgeted, Weighed, BodyRoom
    <3>3. Tokens(Title(at) + draft.chars) <= draft.room + Breaks
      BY <1>2, <1>3, <3>1, <3>2, SectionFits
    <3>4. Tokens(Title(at) + draft.chars) \in Nat
      BY <1>2, <1>3, TokensCount
    <3> QED
      BY <2>2, <3>3, <3>4
  <2> QED
    BY <2>1, <2>2
<1> HIDE DEF size
<1>5. RoomAfter(at, size) \in Int
  BY <1>1, <1>2, <1>4 DEF RoomAfter, Left, Sections
<1> DEFINE room == RoomAfter(at, size)
<1>6. draft' = [room |-> room, used |-> 0, chars |-> 0, kept |-> 0, offered |-> 0,
                whole |-> 0, cut |-> FALSE]
  BY <1>1 DEF EmptyDraft
<1> HIDE DEF room
<1>7. room \in Int
  BY <1>5 DEF room
<1>8. draft' \in SheetsAtWork
  BY <1>2, <1>6, <1>7 DEF SheetsAtWork
<1>9. sizes \in [Sections -> Nat]
  BY DEF Budgeted, BudgetTypeOK
<1>10. BudgetTypeOK'
  <2>1. sizes' \in [Sections -> Nat]
    BY <1>1, <1>4, <1>9
  <2>2. at' \in Stages
    BY <1>1 DEF NextSection, Stages, Sections
  <2>3. lost' \subseteq Sections
    BY <1>1 DEF Budgeted, BudgetTypeOK
  <2> QED
    BY <1>1, <1>8, <2>1, <2>2, <2>3 DEF Budgeted, BudgetTypeOK, SheetsAtWork
<1>11. Weighed(draft', at')
  BY <1>6 DEF Weighed
<1>12. ASSUME ~plan.over PROVE Ahead'
  <2>0. Ahead /\ draft'.room = RoomAfter(at, size)
    BY <1>6, <1>12 DEF Budgeted, room
  <2>1. CASE at = "scene"
    <3>1. /\ at' = "npc_memory" /\ draft'.room = plan.memory /\ sizes'["scene"] = size
      BY <1>1, <1>9, <2>0, <2>1 DEF NextSection, RoomAfter, Sections
    <3>2. Fixed + size <= plan.total + 1 + Breaks
      BY <1>2, <1>4, <2>0, <2>1 DEF Ahead, Fixed
    <3> QED
      BY <1>1, <3>1, <3>2 DEF Ahead, Fixed
  <2>2. CASE at = "npc_memory"
    <3>1. /\ at' = "leads" /\ draft'.room = plan.memory - size /\ sizes'["npc_memory"] = size
          /\ sizes'["scene"] = sizes["scene"]
      BY <1>1, <1>9, <2>0, <2>2 DEF NextSection, RoomAfter, Left, Sections
    <3>2. size <= plan.memory + Breaks /\ Fixed + sizes["scene"] <= plan.total + 1 + Breaks
      BY <1>2, <1>4, <2>0, <2>2 DEF Ahead
    <3> QED
      BY <1>1, <3>1, <3>2 DEF Ahead, Fixed
  <2>3. CASE at = "leads"
    <3>1. /\ at' = "chronicle" /\ draft'.room = plan.continuity /\ sizes'["leads"] = size
          /\ sizes'["scene"] = sizes["scene"] /\ sizes'["npc_memory"] = sizes["npc_memory"]
      BY <1>1, <1>9, <2>0, <2>3 DEF NextSection, RoomAfter, Sections
    <3>2. sizes["npc_memory"] + size <= plan.memory + 2 * Breaks
      BY <1>2, <1>4, <2>0, <2>3 DEF Ahead
    <3>3. plan.fixed + plan.continuity + sizes["scene"] + sizes["npc_memory"] + size
              <= plan.total + 1 + 3 * Breaks
      BY <1>2, <1>4, <2>0, <2>3, <3>2 DEF Ahead, Fixed
    <3> QED
      BY <1>1, <3>1, <3>3 DEF Ahead
  <2>4. CASE at = "chronicle"
    <3>1. /\ at' = "saga" /\ draft'.room = plan.continuity - size /\ sizes'["chronicle"] = size
          /\ sizes'["scene"] = sizes["scene"] /\ sizes'["npc_memory"] = sizes["npc_memory"]
          /\ sizes'["leads"] = sizes["leads"]
      BY <1>1, <1>9, <2>0, <2>4 DEF NextSection, RoomAfter, Left, Sections
    <3>2. size <= plan.continuity + Breaks
      BY <1>2, <1>4, <2>0, <2>4 DEF Ahead
    <3> QED
      BY <1>1, <2>0, <2>4, <3>1, <3>2 DEF Ahead
  <2>5. CASE at = "saga"
    <3>1. /\ at' = "done" /\ sizes'["saga"] = size
          /\ sizes'["scene"] = sizes["scene"] /\ sizes'["npc_memory"] = sizes["npc_memory"]
          /\ sizes'["leads"] = sizes["leads"] /\ sizes'["chronicle"] = sizes["chronicle"]
      BY <1>1, <1>9, <2>5 DEF NextSection, Sections
    <3>2. sizes["chronicle"] + size <= plan.continuity + 2 * Breaks
      BY <1>2, <1>4, <2>0, <2>5 DEF Ahead
    <3>3. plan.fixed + sizes["scene"] + sizes["npc_memory"] + sizes["leads"]
            + sizes["chronicle"] + size <= plan.total + 1 + 5 * Breaks
      BY <1>2, <1>4, <2>0, <2>5, <3>2 DEF Ahead
    <3> QED
      BY <1>1, <3>1, <3>3 DEF Ahead, Used
  <2> QED
    BY <1>1, <2>1, <2>2, <2>3, <2>4, <2>5 DEF Sections
<1> QED
  BY <1>1, <1>10, <1>11, <1>12 DEF Budgeted

\* What a prompt may cost is counted right from section to section.
LEMMA BudgetHolds == BudgetSpec => []Budgeted
<1>1. BudgetInit => Budgeted
  BY BudgetAssumption, BudgetInitial
<1>2. Budgeted /\ [BudgetNext]_budgetVars => Budgeted'
  <2> SUFFICES ASSUME Budgeted, [BudgetNext]_budgetVars PROVE Budgeted'
    OBVIOUS
  <2>1. CASE Open
    BY <2>1, BudgetAssumption, OpenStep
  <2>2. CASE Close
    BY <2>2, BudgetAssumption, CloseStep
  <2>3. ASSUME NEW line \in ItemLengths, Take(line) \/ CutLine(line) \/ Drop(line)
        PROVE  Budgeted'
    BY <2>3, BudgetAssumption, TakeStep, CutStep, DropStep
  <2>4. CASE UNCHANGED budgetVars
    BY <2>4 DEF budgetVars, Budgeted, BudgetTypeOK, Weighed, Ahead, Fixed, Used
  <2> QED
    BY <2>1, <2>2, <2>3, <2>4 DEF BudgetNext
<1> QED
  BY <1>1, <1>2, PTL DEF BudgetSpec

\* Whatever the window, the percentages and the lines that are offered: the
\* prompt keeps to the window less its reserve, but for the line breaks no
\* estimate counts, unless the parts that are never cut outgrow it by themselves
\* (_budget_plan, _fit_section).
THEOREM PromptFits == BudgetSpec => []WithinBudget
<1>1. Budgeted => WithinBudget
  <2> SUFFICES ASSUME Budgeted, at = "done", ~plan.over
               PROVE  Used <= plan.total + 5 * Breaks + 1
    BY DEF WithinBudget
  <2>1. Used <= plan.total + 1 + 5 * Breaks
    BY DEF Budgeted, Ahead
  <2>2. /\ plan.total \in Nat /\ plan.fixed \in Nat /\ Breaks \in Nat
        /\ sizes["scene"] \in Nat /\ sizes["npc_memory"] \in Nat /\ sizes["leads"] \in Nat
        /\ sizes["chronicle"] \in Nat /\ sizes["saga"] \in Nat
    BY BudgetAssumption, BudgetFields DEF Budgeted
  <2>3. Used \in Nat
    BY <2>2 DEF Used
  <2> QED
    BY <2>1, <2>2, <2>3
<1> QED
  BY <1>1, BudgetHolds, PTL

\* No section keeps more lines than it was offered, and what is spent and cut
\* is counted in whole tokens (ContextAssembler._fit_section).
THEOREM PromptTyped == BudgetSpec => []BudgetTypeOK
<1>1. Budgeted => BudgetTypeOK
  BY DEF Budgeted
<1> QED
  BY <1>1, BudgetHolds, PTL

-----------------------------------------------------------------------------
(* What is shown *)

\* What the turn goes by is what either pass was refused, nothing is called
\* unresolved before it has been patched, and a turn is logged once.
Canonical ==
    /\ CanonTypeOK
    /\ telling.refused = telling.denied
    /\ telling.at \in {"rest", "narrate", "scan"} => "unresolved" \notin telling.notes
    /\ telling.at \in {"narrate", "scan", "log"} => told < MaxTold
    /\ CanonHolds

\* A text of which something is left shows no flaw once its flaws are cut.
LEMMA CutIsClean ==
    ASSUME CanonAssumption, NEW d, d.prose \in Text, NEW k \in Places,
           Flawed(Cut(d)[k], canon, d.refused)
    PROVE  FALSE
<1>1. CASE k \in Spoiled(d)
  <2>1. Cut(d)[k] = Silence
    BY <1>1 DEF Cut
  <2> QED
    BY <2>1 DEF CanonAssumption, Flawed, DeadSpeech, PinnedConflict, Restated
<1>2. CASE k \notin Spoiled(d)
  <2>1. Cut(d)[k] = d.prose[k]
    BY <1>2 DEF Cut
  <2> QED
    BY <1>2, <2>1 DEF Spoiled, FlawedPlaces
<1> QED
  BY <1>1, <1>2

\* So what the patch leaves is flawed only when it is the stock line.
LEMMA PatchIsClean ==
    ASSUME CanonAssumption, NEW d, d.prose \in Text,
           FlawedPlaces(Patched(d), d.refused) # {}
    PROVE  Patched(d) = Stock
<1>1. CASE Cut(d) = Untold
  BY <1>1 DEF Patched
<1>2. CASE Cut(d) # Untold
  <2>1. Patched(d) = Cut(d)
    BY <1>2 DEF Patched
  <2>2. PICK k \in Places : Flawed(Patched(d)[k], canon, d.refused)
    BY DEF FlawedPlaces
  <2> QED
    BY <2>1, <2>2, CutIsClean
<1> QED
  BY <1>1, <1>2

\* The patch writes a text, and no entry of the dead is left.
LEMMA PatchTypes ==
    ASSUME CanonAssumption, NEW d, d.prose \in Text, d.lines \in Dialogue
    PROVE  /\ Patched(d) \in Text
           /\ Quieted(d) \in Dialogue
           /\ \A k \in Entries : Quieted(d)[k] \notin Dead
<1>1. Stock \in Text
  BY DEF CanonAssumption, Stock, Text
<1>2. Cut(d) \in Text
  BY DEF Cut, Text
<1>3. Patched(d) \in Text
  BY <1>1, <1>2 DEF Patched
<1>4. Quieted(d) \in Dialogue
  BY DEF Quieted, Dialogue
<1>5. ASSUME NEW k \in Entries PROVE Quieted(d)[k] \notin Dead
  <2>1. CASE k \in DeadLines(d)
    BY <2>1 DEF Quieted, CanonAssumption
  <2>2. CASE k \notin DeadLines(d)
    BY <2>2 DEF Quieted, DeadLines
  <2> QED
    BY <2>1, <2>2
<1> QED
  BY <1>3, <1>4, <1>5

\* Between two turns nothing is being told.
LEMMA NothingTold ==
    ASSUME CanonAssumption, telling' = NoDraft,
           canon' \subseteq Lore, logRow' \in [prose : Text, lines : Dialogue],
           told' \in 0..MaxTold, tries' \in 0..MaxTries
    PROVE  Canonical'
<1>1. Untold \in Text /\ NoLines \in Dialogue
  BY DEF Untold, NoLines, Text, Dialogue
<1>2. NoDraft \in Draft
  BY <1>1 DEF NoDraft, Draft
<1> QED
  BY <1>2 DEF Canonical, CanonTypeOK, CanonHolds, NoDraft

\* A turn that was not begun has nothing to answer for.
LEMMA CanonInitial ==
    ASSUME CanonAssumption, CanonInit
    PROVE  Canonical
<1>1. Untold \in Text /\ NoLines \in Dialogue
  BY DEF Untold, NoLines, Text, Dialogue
<1>2. NoDraft \in Draft
  BY <1>1 DEF NoDraft, Draft
<1>3. CanonTypeOK
  BY <1>1, <1>2 DEF CanonInit, CanonTypeOK, CanonAssumption
<1> QED
  BY <1>3 DEF CanonInit, Canonical, CanonHolds, NoDraft

\* Every step of a turn keeps its narration canonical.
LEMMA CanonMoves ==
    ASSUME CanonAssumption, Canonical, [CanonNext]_canonVars
    PROVE  Canonical'
<1> USE DEF Canonical
<1>0. /\ telling \in Draft /\ canon \subseteq Lore
      /\ logRow \in [prose : Text, lines : Dialogue]
      /\ told \in 0..MaxTold /\ tries \in 0..MaxTries
  BY DEF CanonTypeOK
<1>1. CASE BeginTelling
  <2>1. Untold \in Text /\ NoLines \in Dialogue
    BY DEF Untold, NoLines, Text, Dialogue
  <2>2. telling' \in Draft
    BY <1>1, <2>1 DEF BeginTelling, NoDraft, Draft
  <2>3. CanonTypeOK'
    BY <1>0, <1>1, <2>2 DEF BeginTelling, CanonTypeOK, CanonAssumption
  <2>4. telling'.at = "narrate" /\ telling'.refused = telling'.denied /\ telling'.notes = {}
    BY <1>1 DEF BeginTelling, NoDraft
  <2> QED
    BY <1>1, <2>3, <2>4 DEF CanonHolds, BeginTelling
<1>2. CASE TellFirst
  <2>1. PICK prose \in Text, lines \in Dialogue, took, turned \in SUBSET Unapplied(telling) :
           /\ telling' = [telling EXCEPT !.at = "scan", !.prose = prose, !.lines = lines,
                              !.applied = took, !.refused = turned, !.denied = turned]
           /\ \E news \in SUBSET Written(took) : canon' = canon \cup news
    BY <1>2 DEF TellFirst
  <2>2. took \in SUBSET Claims /\ turned \in SUBSET Claims
    BY DEF Unapplied
  <2>3. telling' \in Draft
    BY <1>0, <2>1, <2>2 DEF Draft
  <2>4. canon' \subseteq Lore
    BY <1>0, <2>1, <2>2 DEF Written, CanonAssumption
  <2>5. CanonTypeOK'
    BY <1>0, <1>2, <2>3, <2>4 DEF TellFirst, CanonTypeOK
  <2>6. /\ telling'.at = "scan" /\ telling'.refused = telling'.denied
        /\ telling'.notes = telling.notes
    BY <1>0, <2>1 DEF Draft
  <2> QED
    BY <1>2, <2>5, <2>6 DEF CanonHolds, TellFirst
<1>3. CASE TellAgain
  <2>1. PICK prose \in Text, lines \in Dialogue, took, turned \in SUBSET Unapplied(telling) :
           /\ telling' = [telling EXCEPT
                  !.at = "scan", !.lines = lines,
                  !.prose = IF prose = Untold THEN @ ELSE prose,
                  !.refused = AllRefusals(telling, turned),
                  !.denied = @ \cup turned]
           /\ \E news \in SUBSET Written(took) : canon' = canon \cup news
    BY <1>3 DEF TellAgain
  <2>2. took \in SUBSET Claims /\ turned \in SUBSET Claims
    BY DEF Unapplied
  <2>3. telling' \in Draft
    BY <1>0, <2>1, <2>2 DEF Draft, AllRefusals
  <2>4. canon' \subseteq Lore
    BY <1>0, <2>1, <2>2 DEF Written, CanonAssumption
  <2>5. CanonTypeOK'
    BY <1>0, <1>3, <2>3, <2>4 DEF TellAgain, CanonTypeOK
  <2>6. /\ telling'.at = "scan" /\ telling'.refused = telling'.denied
        /\ telling'.notes = telling.notes
    BY <1>0, <2>1 DEF Draft, AllRefusals
  <2> QED
    BY <1>3, <2>5, <2>6 DEF CanonHolds, TellAgain
<1>4. CASE SendBack
  <2>1. telling' = [[telling EXCEPT !.notes = @ \cup {"regenerating"}]
                        EXCEPT !.at = "narrate", !.pass = 2]
    BY <1>4 DEF SendBack, Marked
  <2>2. telling' \in Draft
    BY <1>0, <2>1 DEF Draft, Notes
  <2>3. CanonTypeOK'
    BY <1>0, <1>4, <2>2 DEF SendBack, CanonTypeOK
  <2>4. /\ telling'.at = "narrate" /\ telling'.refused = telling.refused
        /\ telling'.denied = telling.denied
        /\ telling'.notes = telling.notes \cup {"regenerating"}
    BY <1>0, <2>1 DEF Draft
  <2> QED
    BY <1>4, <2>3, <2>4 DEF CanonHolds, SendBack
<1>5. CASE LetStand
  <2> DEFINE notes == IF telling.pass = 2 THEN {"cleared"} ELSE {}
  <2>1. telling' = [[telling EXCEPT !.notes = @ \cup notes] EXCEPT !.at = "log"]
    BY <1>5 DEF LetStand, Marked
  <2>2. notes \subseteq Notes /\ "unresolved" \notin notes
    BY DEF Notes
  <2> HIDE DEF notes
  <2>3. telling' \in Draft
    BY <1>0, <2>1, <2>2 DEF Draft
  <2>4. CanonTypeOK'
    BY <1>0, <1>5, <2>3 DEF LetStand, CanonTypeOK
  <2>5. /\ telling'.at = "log" /\ telling'.refused = telling.refused
        /\ telling'.denied = telling.denied
        /\ telling'.notes = telling.notes \cup notes
        /\ telling'.prose = telling.prose /\ telling'.lines = telling.lines
    BY <1>0, <2>1 DEF Draft
  <2>6. "unresolved" \notin telling'.notes
    BY <1>5, <2>2, <2>5 DEF LetStand
  <2>7. Spoiled(telling) = {} /\ DeadLines(telling) = {} /\ canon' = canon
    BY <1>5 DEF LetStand, Clean
  <2>8. Presentable(telling)'
    BY <2>5, <2>6, <2>7 DEF Presentable, Spoiled, FlawedPlaces, DeadLines
  <2> QED
    BY <1>5, <2>4, <2>5, <2>8 DEF CanonHolds, LetStand
<1>6. CASE Patch
  <2> DEFINE d == [telling EXCEPT !.prose = Patched(telling), !.lines = Quieted(telling)]
             rest == IF Clean(d) THEN {} ELSE {"unresolved"}
  <2>1. telling' = [[d EXCEPT !.notes = @ \cup ({"patched"} \cup rest)] EXCEPT !.at = "log"]
    BY <1>6 DEF Patch, Marked
  <2>2. /\ Patched(telling) \in Text /\ Quieted(telling) \in Dialogue
        /\ \A k \in Entries : Quieted(telling)[k] \notin Dead
    BY <1>0, PatchTypes DEF Draft
  <2>3. /\ d \in Draft
        /\ d.prose = Patched(telling) /\ d.lines = Quieted(telling)
        /\ d.notes = telling.notes
        /\ d.refused = telling.refused /\ d.denied = telling.denied
    BY <1>0, <2>2 DEF Draft
  <2> HIDE DEF d
  <2>4. rest \subseteq Notes /\ ("unresolved" \in rest <=> ~Clean(d))
    BY DEF Notes
  <2> HIDE DEF rest
  <2>5. telling' \in Draft
    BY <2>1, <2>3, <2>4 DEF Draft, Notes
  <2>6. CanonTypeOK'
    BY <1>0, <1>6, <2>5 DEF Patch, CanonTypeOK
  <2>7. /\ telling'.at = "log"
        /\ telling'.prose = d.prose /\ telling'.lines = d.lines
        /\ telling'.refused = telling.refused /\ telling'.denied = telling.denied
        /\ telling'.notes = telling.notes \cup {"patched"} \cup rest
    BY <2>1, <2>3 DEF Draft
  <2>8. DeadLines(d) = {}
    BY <2>2, <2>3 DEF DeadLines
  <2>9. "unresolved" \in telling'.notes <=> Spoiled(d) # {}
    BY <1>6, <2>4, <2>7, <2>8 DEF Patch, Clean
  <2>10. Spoiled(d) # {} => d.prose = Stock
    BY <1>0, <2>3, PatchIsClean DEF Spoiled, Draft
  <2>11. canon' = canon
    BY <1>6 DEF Patch
  <2>12. FlawedPlaces(telling.prose, telling.denied)' = Spoiled(d)
    BY <2>3, <2>7, <2>11 DEF FlawedPlaces, Spoiled
  <2>13. DeadLines(telling)' = {}
    BY <2>7, <2>8 DEF DeadLines
  <2>14. Presentable(telling)'
    BY <2>7, <2>9, <2>10, <2>12, <2>13 DEF Presentable
  <2> QED
    BY <1>6, <2>3, <2>6, <2>7, <2>14 DEF CanonHolds, Patch
<1>7. CASE LogTelling
  <2> DEFINE notes == IF telling.refused = {} THEN {} ELSE {"refusals"}
  <2>1. telling' = [[telling EXCEPT !.notes = @ \cup notes] EXCEPT !.at = "meter"]
    BY <1>7 DEF LogTelling, Marked
  <2>2. notes \subseteq Notes /\ "unresolved" \notin notes
    BY DEF Notes
  <2> HIDE DEF notes
  <2>3. telling' \in Draft
    BY <1>0, <2>1, <2>2 DEF Draft
  <2>4. /\ telling'.at = "meter" /\ telling'.refused = telling.refused
        /\ telling'.denied = telling.denied
        /\ telling'.notes = telling.notes \cup notes
        /\ telling'.prose = telling.prose /\ telling'.lines = telling.lines
    BY <1>0, <2>1 DEF Draft
  <2>5. logRow' = [prose |-> telling.prose, lines |-> telling.lines]
    BY <1>7 DEF LogTelling
  <2>9. told' \in 0..MaxTold
    BY <1>0, <1>7 DEF LogTelling, CanonAssumption
  <2>6. CanonTypeOK'
    BY <1>0, <1>7, <2>3, <2>5, <2>9 DEF LogTelling, CanonTypeOK, Draft
  <2>7. Presentable(telling) /\ canon' = canon
    BY <1>7 DEF LogTelling, CanonHolds
  <2>8. Presentable(telling)'
    BY <2>2, <2>4, <2>7 DEF Presentable, FlawedPlaces, DeadLines
  <2> QED
    BY <2>4, <2>5, <2>6, <2>8 DEF CanonHolds
<1>8. CASE EndTelling
  BY <1>0, <1>8, NothingTold DEF EndTelling
<1>9. CASE AbandonTelling
  BY <1>0, <1>9, NothingTold DEF AbandonTelling
<1>10. CASE UNCHANGED canonVars
  BY <1>10 DEF canonVars, CanonTypeOK, CanonHolds, Presentable, FlawedPlaces, DeadLines
<1> QED
  BY <1>1, <1>2, <1>3, <1>4, <1>5, <1>6, <1>7, <1>8, <1>9, <1>10 DEF CanonNext

\* Whatever the narrator writes, however canon and the refusals grow between
\* the two passes, what is logged and shown has no dead voice and no flaw but
\* the stock line's, and that one the player is told of (_patch).
THEOREM ShownInCanon == CanonSpec => []CanonHolds
<1>1. CanonInit => Canonical
  BY CanonAssumption, CanonInitial
<1>2. Canonical /\ [CanonNext]_canonVars => Canonical'
  BY CanonAssumption, CanonMoves
<1>3. Canonical => CanonHolds
  BY DEF Canonical
<1> QED
  BY <1>1, <1>2, <1>3, PTL DEF CanonSpec

\* A turn is logged with the words and the flaws a telling may have
\* (pipeline.py: take_turn, _write_turn_log).
THEOREM CanonTyped == CanonSpec => []CanonTypeOK
<1>1. CanonInit => Canonical
  BY CanonAssumption, CanonInitial
<1>2. Canonical /\ [CanonNext]_canonVars => Canonical'
  BY CanonAssumption, CanonMoves
<1>3. Canonical => CanonTypeOK
  BY DEF Canonical
<1> QED
  BY <1>1, <1>2, <1>3, PTL DEF CanonSpec

-----------------------------------------------------------------------------
(* What a mood has faded *)

\* A row of these moves, stamped s: what is stored has faded each move by no
\* turn twice, and by every turn since the last commit that lost any.
Apt(m, k) == m[k].by = "commit" => m[k].at = m[k - 1].at
MovesFit(m, s) ==
    /\ m \in Seq(Move)
    /\ \A i \in 1..Len(m) : m[i].at <= s /\ m[i].faded <= s - m[i].at
    /\ \A j \in 1..Len(m) :
          (\A k \in j + 1..Len(m) : Apt(m, k)) => \A i \in 1..j : s - m[j].at <= m[i].faded

\* The invariant: the row is stamped with no turn to come.
MindFits ==
    /\ now \in 0..MaxTurn /\ stamp \in -1..now
    /\ (stamp = -1 => moves = <<>>)
    /\ MovesFit(moves, stamp)

\* No row has no move.
LEMMA NoMoves == \A s : MovesFit(<<>>, s)
<1>1. <<>> \in Seq(Move) /\ Len(<<>>) = 0 /\ 1..0 = {}
  OBVIOUS
<1> QED
  BY <1>1 DEF MovesFit

\* A move and what it is made of.
LEMMA MoveParts ==
    ASSUME NEW m \in Seq(Move), NEW i \in 1..Len(m)
    PROVE  m[i].at \in Nat /\ m[i].faded \in Nat /\ m[i] \in Move
<1>1. m[i] \in Move
  OBVIOUS
<1>2. ASSUME NEW x \in Move PROVE x.at \in Nat /\ x.faded \in Nat
  BY DEF Move
<1> QED
  BY <1>1, <1>2

\* Fading what is stored up to a turn, and stamping it with that turn.
LEMMA FadeFits ==
    ASSUME NEW m, NEW s \in Int, NEW t \in Int, s <= t, MovesFit(m, s),
           NEW d, d = [i \in DOMAIN m |-> [m[i] EXCEPT !.faded = m[i].faded + (t - s)]]
    PROVE  MovesFit(d, t) /\ Len(d) = Len(m)
<1> DEFINE n == Len(m)
<1>1. m \in Seq(Move) /\ n \in Nat /\ DOMAIN m = 1..n
  BY DEF MovesFit
<1>2. ASSUME NEW i \in 1..n
      PROVE  /\ d[i].at = m[i].at /\ d[i].by = m[i].by /\ d[i].faded = m[i].faded + (t - s)
             /\ d[i] \in Move
  <2>1. m[i].at \in Nat /\ m[i].faded \in Nat /\ m[i] \in Move
    BY <1>1, MoveParts
  <2>2. d[i] = [m[i] EXCEPT !.faded = m[i].faded + (t - s)]
    BY <1>1
  <2>3. m[i].faded + (t - s) \in Nat
    BY <2>1
  <2>4. ASSUME NEW r \in Move, NEW v \in Nat
        PROVE  /\ [r EXCEPT !.faded = v] \in Move /\ [r EXCEPT !.faded = v].faded = v
               /\ [r EXCEPT !.faded = v].at = r.at /\ [r EXCEPT !.faded = v].by = r.by
    BY DEF Move
  <2> QED
    BY <2>1, <2>2, <2>3, <2>4
<1>3. d \in Seq(Move) /\ Len(d) = n
  <2>1. d \in [1..n -> Move]
    BY <1>1, <1>2
  <2> HIDE DEF n
  <2> QED
    BY <1>1, <2>1
<1>4. ASSUME NEW i \in 1..n
      PROVE  d[i].at <= t /\ d[i].faded <= t - d[i].at
  <2>1. m[i].at \in Nat /\ m[i].faded \in Nat
    BY <1>1, MoveParts
  <2>2. m[i].at <= s /\ m[i].faded <= s - m[i].at
    BY DEF MovesFit
  <2> QED
    BY <1>2, <2>1, <2>2
<1>5. ASSUME NEW j \in 1..n, \A k \in j + 1..n : Apt(d, k), NEW i \in 1..j
      PROVE  t - d[j].at <= d[i].faded
  <2>1. ASSUME NEW k \in j + 1..n PROVE Apt(m, k)
    <3>1. k \in 1..n /\ k - 1 \in 1..n
      BY <1>1
    <3> QED
      BY <1>2, <1>5, <3>1 DEF Apt
  <2>2. s - m[j].at <= m[i].faded
    BY <2>1 DEF MovesFit
  <2>3. i \in 1..n
    BY <1>1
  <2>4. m[j].at \in Nat /\ m[i].faded \in Nat
    BY <1>1, <2>3, MoveParts
  <2> QED
    BY <1>2, <2>2, <2>3, <2>4
<1> QED
  BY <1>3, <1>4, <1>5 DEF MovesFit

\* A move on top of a row stamped s that stamps it with turn t.  What was there
\* has faded up to its stamp; if the stamp was older than that turn, the move
\* must not be one that leaves the ones before it whole.
LEMMA MovedFits ==
    ASSUME NEW m, NEW s \in Int, NEW t \in Nat, s <= t, MovesFit(m, s),
           NEW x, x \in Move, x.at = t, x.faded = 0,
           s = t \/ x.by = "commit",
           NEW q, q = Append(m, x)
    PROVE  MovesFit(q, t)
<1> DEFINE n == Len(m)
<1>1. m \in Seq(Move) /\ n \in Nat /\ DOMAIN m = 1..n
  BY DEF MovesFit
<1>2. /\ q \in Seq(Move) /\ Len(q) = n + 1 /\ q[n + 1] = x
      /\ \A i \in 1..n : q[i] = m[i]
  BY <1>1
<1>3. ASSUME NEW i \in 1..n + 1
      PROVE  q[i].at <= t /\ q[i].faded <= t - q[i].at
  <2>1. CASE i = n + 1
    BY <1>2, <2>1
  <2>2. CASE i # n + 1
    <3>1. i \in 1..n
      BY <1>1, <2>2
    <3>2. m[i].at \in Nat /\ m[i].faded \in Nat /\ m[i].at <= s /\ m[i].faded <= s - m[i].at
      BY <1>1, <3>1, MoveParts DEF MovesFit
    <3> QED
      BY <1>2, <3>1, <3>2
  <2> QED
    BY <2>1, <2>2
<1>4. ASSUME NEW j \in 1..n + 1, \A k \in j + 1..n + 1 : Apt(q, k), NEW i \in 1..j
      PROVE  t - q[j].at <= q[i].faded
  <2>0. q[i].faded \in Nat
    <3>1. i \in 1..Len(q)
      BY <1>1, <1>2
    <3> QED
      BY <1>2, <3>1, MoveParts
  <2>1. CASE j = n + 1
    BY <1>2, <2>0, <2>1
  <2>2. CASE j # n + 1
    <3>1. j \in 1..n /\ i \in 1..n /\ n + 1 \in j + 1..n + 1
      BY <1>1, <2>2
    <3>2. s = t
      <4>1. CASE x.by = "commit"
        <5>1. Apt(q, n + 1)
          BY <1>4, <3>1
        <5>2. (n + 1) - 1 = n /\ n \in 1..n
          BY <1>1, <3>1
        <5>3. q[n + 1].at = q[n].at
          BY <1>2, <4>1, <5>1, <5>2 DEF Apt
        <5>4. m[n].at = t
          BY <1>2, <5>2, <5>3
        <5>5. m[n].at <= s
          BY <5>2 DEF MovesFit
        <5> QED
          BY <5>4, <5>5
      <4> QED
        BY <4>1
    <3>3. ASSUME NEW k \in j + 1..n PROVE Apt(m, k)
      <4>1. k \in 1..n /\ k - 1 \in 1..n /\ k \in j + 1..n + 1
        BY <1>1, <3>1
      <4>2. q[k] = m[k] /\ q[k - 1] = m[k - 1] /\ Apt(q, k)
        BY <1>2, <1>4, <4>1
      <4> QED
        BY <4>2 DEF Apt
    <3>4. s - m[j].at <= m[i].faded
      BY <3>1, <3>3 DEF MovesFit
    <3> QED
      BY <1>2, <3>1, <3>2, <3>4
  <2> QED
    BY <2>1, <2>2
<1> QED
  BY <1>2, <1>3, <1>4 DEF MovesFit

\* Every step leaves a row whose moves have faded as they should.
LEMMA MoodStep == MindFits /\ [MindNext]_mindVars => MindFits'
<1> SUFFICES ASSUME MindFits, [MindNext]_mindVars PROVE MindFits'
  OBVIOUS
<1>0. /\ MaxTurn \in Nat /\ now \in 0..MaxTurn /\ now \in Nat /\ stamp \in -1..now
      /\ stamp \in Int /\ stamp <= now /\ (stamp = -1 => moves = <<>>) /\ MovesFit(moves, stamp)
  BY MindAssumption DEF MindFits
<1>1. MovesFit(Decayed, now)
  BY <1>0, FadeFits DEF Decayed, Felt, Age
<1>2. now \in -1..now /\ now # -1
  BY <1>0
<1>3. CASE Fade
  <2>1. moves' = Decayed /\ stamp' = now /\ now' = now
    BY <1>3 DEF Fade, Stamp
  <2> QED
    BY <1>0, <1>1, <1>2, <2>1 DEF MindFits
<1>4. \A by \in {"apply", "commit"} :
        Came(by) \in Move /\ Came(by).at = now /\ Came(by).faded = 0 /\ Came(by).by = by
  BY <1>0 DEF Came, Move
<1>5. CASE Spike
  <2>1. moves' = Append(Decayed, Came("apply")) /\ stamp' = now /\ now' = now
    BY <1>5 DEF Spike
  <2> DEFINE x == Came("apply")
             m == Decayed
  <2>3. x \in Move /\ x.at = now /\ x.faded = 0 /\ now \in Int /\ now <= now
    BY <1>0, <1>4
  <2>4. MovesFit(m, now) /\ moves' = Append(m, x)
    BY <1>1, <2>1
  <2> HIDE DEF x, m
  <2>2. MovesFit(moves', now)
    BY <1>0, <2>3, <2>4, MovedFits
  <2> QED
    BY <1>0, <1>2, <2>1, <2>2 DEF MindFits
<1>6. CASE CommitMood
  <2>1. moves' = Append(moves, Came("commit")) /\ stamp' = now /\ now' = now
    BY <1>6 DEF CommitMood
  <2>2. MovesFit(moves', now)
    BY <1>0, <1>4, <2>1, MovedFits
  <2> QED
    BY <1>0, <1>2, <2>1, <2>2 DEF MindFits
<1>7. CASE NextTurnBegins
  BY <1>0, <1>7 DEF NextTurnBegins, MindFits
<1>8. CASE AddFact \/ UNCHANGED mindVars
  BY <1>0, <1>8 DEF AddFact, mindVars, MindFits
<1> QED
  BY <1>3, <1>5, <1>6, <1>7, <1>8 DEF MindNext

\* Nobody has felt anything yet.
LEMMA MoodInit == MindInit => MindFits
  BY MindAssumption, NoMoves DEF MindInit, MindFits

\* What is read has faded as what is stored, and the turns since.
LEMMA MoodRead == MindFits => FadesOnce /\ FadesOn
<1> SUFFICES ASSUME MindFits PROVE FadesOnce /\ FadesOn
  OBVIOUS
<1> DEFINE n == Len(moves)
<1>1. /\ now \in Int /\ stamp \in Int /\ MovesFit(moves, stamp)
      /\ moves \in Seq(Move) /\ n \in Nat /\ DOMAIN moves = 1..n
  BY MindAssumption DEF MindFits, MovesFit
<1>2. ASSUME NEW i \in 1..n
      PROVE  moves[i].at \in Nat /\ moves[i].faded \in Nat /\ Felt(i) = moves[i].faded + (now - stamp)
  BY <1>1, MoveParts DEF Felt, Age
<1>3. ASSUME NEW i \in 1..n PROVE Felt(i) <= now - moves[i].at
  <2>1. moves[i].faded <= stamp - moves[i].at
    BY <1>1 DEF MovesFit
  <2> QED
    BY <1>1, <1>2, <2>1
<1>4. ASSUME NEW j \in 1..n, \A k \in j + 1..n : Harmless(k), NEW i \in 1..j
      PROVE  now - moves[j].at <= Felt(i)
  <2>1. \A k \in j + 1..n : Apt(moves, k)
    BY <1>4 DEF Harmless, Apt
  <2>2. stamp - moves[j].at <= moves[i].faded
    BY <1>1, <2>1 DEF MovesFit
  <2>3. i \in 1..n
    BY <1>1
  <2> QED
    BY <1>1, <1>2, <2>2, <2>3
<1> QED
  BY <1>1, <1>3, <1>4 DEF FadesOnce, FadesOn

-----------------------------------------------------------------------------
(* What is held true *)

\* The invariant of the facts.
FactsApart == facts \in Seq(Fact) /\ FactsDistinct

\* No two facts say nearly the same, whoever states what how often.
LEMMA FactsStep == FactsApart /\ [MindNext]_mindVars => FactsApart'
<1> SUFFICES ASSUME FactsApart, [MindNext]_mindVars PROVE FactsApart'
  OBVIOUS
<1>1. CASE AddFact
  <2>1. PICK s \in Statements, pinned \in BOOLEAN :
           /\ Twins(s) = {}
           /\ facts' = Append(facts, [statement |-> s, pinned |-> pinned])
    BY <1>1 DEF AddFact
  <2> DEFINE f == [statement |-> s, pinned |-> pinned]
             n == Len(facts)
  <2>2. f \in Fact /\ f.statement = s
    BY DEF Fact
  <2> HIDE DEF f
  <2>3. facts \in Seq(Fact) /\ n \in Nat /\ DOMAIN facts = 1..n
    BY DEF FactsApart
  <2>4. /\ facts' \in Seq(Fact) /\ DOMAIN facts' = 1..(n + 1)
        /\ facts'[n + 1] = f
        /\ \A k \in 1..n : facts'[k] = facts[k]
    BY <2>1, <2>2, <2>3 DEF f
  <2>5. \A k \in 1..n : facts[k].statement \in Statements
    <3>1. \A k \in 1..n : facts[k] \in Fact
      BY <2>3
    <3>2. ASSUME NEW x \in Fact PROVE x.statement \in Statements
      BY DEF Fact
    <3> QED
      BY <3>1, <3>2
  <2>6. \A k \in 1..n : <<s, facts[k].statement>> \notin Similar
    <3>1. Twins(s) = {}
      BY <2>1
    <3>2. ASSUME NEW k \in DOMAIN facts, <<s, facts[k].statement>> \in Similar
          PROVE  FALSE
      BY <3>1, <3>2 DEF Twins
    <3> QED
      BY <3>2, <2>3
  <2>7. \A k \in 1..n : <<facts[k].statement, s>> \notin Similar
    BY <2>5, <2>6, MindAssumption DEF MindAssumption
  <2>8. ASSUME NEW j \in 1..(n + 1), NEW k \in 1..(n + 1), j # k
        PROVE  <<facts'[j].statement, facts'[k].statement>> \notin Similar
    <3>1. CASE j = n + 1
      <4>1. k \in 1..n
        BY <2>3, <2>8, <3>1
      <4> QED
        BY <2>2, <2>4, <2>6, <3>1, <4>1
    <3>2. CASE k = n + 1
      <4>1. j \in 1..n
        BY <2>3, <2>8, <3>2
      <4> QED
        BY <2>2, <2>4, <2>7, <3>2, <4>1
    <3>3. CASE j # n + 1 /\ k # n + 1
      <4>1. j \in 1..n /\ k \in 1..n
        BY <2>3, <2>8, <3>3
      <4> QED
        BY <2>3, <2>4, <2>8, <4>1 DEF FactsApart, FactsDistinct
    <3> QED
      BY <3>1, <3>2, <3>3
  <2> QED
    BY <2>4, <2>8 DEF FactsApart, FactsDistinct
<1>2. CASE Fade \/ Spike \/ CommitMood \/ NextTurnBegins \/ UNCHANGED mindVars
  BY <1>2 DEF Fade, Spike, CommitMood, NextTurnBegins, mindVars, FactsApart, FactsDistinct
<1> QED
  BY <1>1, <1>2 DEF MindNext

\* No turn fades a move twice, however often the mood was brought up to date,
\* and none is missing but what a later commit lost (MoodTracker.apply, current,
\* Validator._apply_mood); and no fact is held true twice
\* (FactStore._duplicate_of): for any number of turns, of moves and of facts.
THEOREM MindKeeps == MindSpec => []MindSteady
<1>1. MindInit => MindFits /\ FactsApart
  BY MoodInit DEF MindInit, FactsApart, FactsDistinct
<1>2. MindFits /\ FactsApart /\ [MindNext]_mindVars => MindFits' /\ FactsApart'
  BY MoodStep, FactsStep
<1>3. MindFits /\ FactsApart => MindSteady
  BY MoodRead DEF FactsApart, MindSteady
<1> QED
  BY <1>1, <1>2, <1>3, PTL DEF MindSpec

\* A mood bears no stamp of a turn to come, and a fact is a row of the table
\* (MoodTracker.apply, FactStore.add).
THEOREM MindTyped == MindSpec => []MindTypeOK
<1>1. MindInit => MindFits /\ FactsApart
  BY MoodInit DEF MindInit, FactsApart, FactsDistinct
<1>2. MindFits /\ FactsApart /\ [MindNext]_mindVars => MindFits' /\ FactsApart'
  BY MoodStep, FactsStep
<1>3. MindFits /\ FactsApart => MindTypeOK
  BY MindAssumption DEF MindFits, MovesFit, FactsApart, MindTypeOK
<1> QED
  BY <1>1, <1>2, <1>3, PTL DEF MindSpec

-----------------------------------------------------------------------------
(* The line to the narrator *)

\* What n rounds may cost, each with its retries.
CostOf(n) == n * (Retries + 1)

\* The requests that left are those of the rounds that failed to parse and of
\* this one, in which every retry was one more.
LineCounted(l) ==
    /\ l.attempt <= l.posts
    /\ l.at # "idle" =>
         /\ l.failed + 1 <= ParseAttempts
         /\ l.posts <= CostOf(l.failed) + l.attempt + IF l.at = "read" THEN 1 ELSE 0

PostsCounted == LineCounted(link)

LinkInv == LinkTypeOK /\ LinkHonest /\ PostsCounted

-----------------------------------------------------------------------------

\* One round more costs its request and the retries of it.
LEMMA RoundCosts ==
    ASSUME NEW n \in Nat, LinkAssumption
    PROVE  /\ CostOf(n) \in Nat
           /\ CostOf(n + 1) = CostOf(n) + Retries + 1
<1>1. Retries \in Nat
  BY DEF LinkAssumption
<1> QED
  BY <1>1 DEF CostOf

\* More rounds cost no less.
LEMMA MoreCosts ==
    ASSUME NEW n \in Nat, NEW k \in Nat, n <= k, LinkAssumption
    PROVE  CostOf(n) <= CostOf(k)
<1>1. Retries \in Nat
  BY DEF LinkAssumption
<1>2. PICK d \in Nat : k = n + d
  <2>1. k - n \in Nat /\ k = n + (k - n)
    OBVIOUS
  <2> QED
    BY <2>1
<1>3. k * (Retries + 1) = n * (Retries + 1) + d * (Retries + 1)
  BY <1>1, <1>2
<1>4. d * (Retries + 1) \in Nat
  BY <1>1
<1>5. n * (Retries + 1) \in Nat
  BY <1>1
<1> QED
  BY <1>3, <1>4, <1>5 DEF CostOf

\* A line that is counted has not cost more than all its rounds may.
LEMMA CountedIsBounded ==
    ASSUME LinkAssumption, NEW l \in Line, LineCounted(l), l.at # "idle"
    PROVE  /\ l.posts <= CostOf(ParseAttempts)
           /\ l.at = "send" => l.posts + 1 <= CostOf(ParseAttempts)
<1>1. /\ l.failed \in Nat /\ l.attempt \in Nat /\ l.attempt <= Retries
      /\ l.posts \in Nat /\ l.at \in {"send", "read"}
      /\ ParseAttempts \in Nat /\ Retries \in Nat
  BY DEF Line, LinkAssumption
<1>2. CostOf(l.failed + 1) <= CostOf(ParseAttempts)
  BY <1>1, MoreCosts DEF LineCounted
<1>3. CostOf(l.failed + 1) = CostOf(l.failed) + Retries + 1
  BY <1>1, RoundCosts
<1>4. CostOf(l.failed) \in Nat /\ CostOf(ParseAttempts) \in Nat
  BY <1>1, RoundCosts
<1> QED
  BY <1>1, <1>2, <1>3, <1>4 DEF LineCounted

\* A line that hangs is a line.
LEMMA HungIsLine ==
    ASSUME LinkAssumption
    PROVE  Hung \in Line
  BY DEF LinkAssumption, Hung, Line, Replies, WithTools, Texts
\* What becomes of a line: an answer arrives, the request is sent once more,
\* the model is asked again; and a failure is told.
WithAnswer(l, posts, reply, items) ==
    [l EXCEPT !.at = "read", !.posts = posts, !.reply = reply, !.items = items]
WithRetry(l, attempt, posts) == [l EXCEPT !.attempt = attempt, !.posts = posts]
WithRound(l, failed) == [l EXCEPT !.at = "send", !.attempt = 0, !.failed = failed]
Failure(posts, retryable) ==
    [Nothing EXCEPT !.status = "error", !.posts = posts, !.retryable = retryable]

LEMMA LineAnswered ==
    ASSUME NEW l \in Line, NEW posts \in Nat, NEW reply \in Replies, NEW items \in SUBSET Items
    PROVE  LET new == WithAnswer(l, posts, reply, items) IN
           /\ new \in Line /\ new.at = "read" /\ new.posts = posts
           /\ new.attempt = l.attempt /\ new.failed = l.failed
  BY DEF Line, WithAnswer

LEMMA LineAgain ==
    ASSUME NEW l \in Line, 0 \in 0..Retries, NEW failed \in 0..ParseAttempts
    PROVE  LET new == WithRound(l, failed) IN
           /\ new \in Line /\ new.at = "send" /\ new.posts = l.posts
           /\ new.attempt = 0 /\ new.failed = failed
  BY DEF Line, WithRound

LEMMA FailureTold ==
    ASSUME NEW posts \in Nat, NEW retryable \in BOOLEAN
    PROVE  LET failure == Failure(posts, retryable) IN
           /\ failure \in Result /\ failure.deltas = {}
           /\ failure.posts = posts /\ failure.retryable = retryable
<1>1. Nothing \in Result /\ Nothing.deltas = {}
  BY DEF Nothing, Result, Replies, WithTools, Texts
<1> QED
  BY <1>1 DEF Result, Failure

LEMMA LinkBegins == ASSUME LinkAssumption, LinkInit PROVE LinkInv
<1>1. LinkTypeOK
  BY HungIsLine DEF LinkInit, LinkTypeOK, Verdicts, Nothing, Result, Replies, WithTools, Texts, LinkAssumption
<1>2. VerdictEarned
  BY DEF LinkInit, VerdictEarned
<1>3. CostOf(ParseAttempts) \in Nat
  BY RoundCosts DEF LinkAssumption
<1>4. Bounded /\ PostsCounted
  BY <1>3 DEF LinkInit, Bounded, PostsCounted, LineCounted, Hung, CostOf
<1>5. ReadNotGuessed
  BY DEF LinkInit, ReadNotGuessed, Nothing
<1> QED
  BY <1>1, <1>2, <1>4, <1>5 DEF LinkInv, LinkHonest

\* What a step leaves of the verdicts and of the result.
LEMMA LinkLineStep ==
    ASSUME LinkAssumption, LinkInv, NEW l \in Line, link' = l, l.at # "idle", LineCounted(l),
           UNCHANGED <<cache, result, shown>>, caps' \in BOOLEAN, tales' \in 0..MaxTales
    PROVE  LinkInv'
<1>1. LinkTypeOK'
  BY DEF LinkInv, LinkTypeOK
<1>2. VerdictEarned' /\ ReadNotGuessed'
  BY DEF LinkInv, LinkHonest, VerdictEarned, ReadNotGuessed
<1>3. Bounded' /\ PostsCounted'
  BY CountedIsBounded DEF Bounded, CostOf, PostsCounted
<1> QED
  BY <1>1, <1>2, <1>3 DEF LinkInv, LinkHonest

\* A line that goes idle owes nothing, whatever the verdict and the result are.
LEMMA IdleStep ==
    ASSUME LinkAssumption, LinkInv, link' = Hung,
           cache' \in Verdicts \cup {"corrupt"}, caps' \in BOOLEAN,
           shown' \subseteq Verdicts, cache' \in {"tools", "prose"} => cache' \in shown',
           result' \in Result, ReadNotGuessed', UNCHANGED tales
    PROVE  LinkInv'
<1>1. LinkTypeOK'
  BY HungIsLine DEF LinkInv, LinkTypeOK
<1>2. CostOf(ParseAttempts) \in Nat
  BY RoundCosts DEF LinkAssumption
<1>3. PostsCounted' /\ Bounded'
  BY <1>2 DEF PostsCounted, LineCounted, Bounded, Hung, CostOf
<1> QED
  BY <1>1, <1>3 DEF LinkInv, LinkHonest, VerdictEarned

-----------------------------------------------------------------------------
(* The canary: _run_canary, probe_capabilities *)

LEMMA RecallStep == ASSUME LinkAssumption, LinkInv, Recall PROVE LinkInv'
<1>1. caps' \in BOOLEAN /\ UNCHANGED <<cache, link, result, shown, tales>>
  BY DEF Recall
<1> QED
  BY <1>1 DEF LinkInv, LinkTypeOK, LinkHonest, VerdictEarned, Bounded, ReadNotGuessed, PostsCounted

\* A call is begun: for the canary, or for a tale.
LEMMA BegunStep ==
    ASSUME LinkAssumption, LinkInv, NEW l \in Line, l.at = "send", l.posts = 0, l.attempt = 0, l.failed = 0,
           link' = l, UNCHANGED <<cache, result, shown, caps>>, tales' \in 0..MaxTales
    PROVE  LinkInv'
<1>1. CostOf(0) \in Nat /\ ParseAttempts \in Nat \ {0}
  BY RoundCosts DEF LinkAssumption
<1>2. LineCounted(l)
  BY <1>1 DEF LineCounted
<1> QED
  BY <1>2, LinkLineStep DEF LinkInv, LinkTypeOK

LEMMA CanaryStep == ASSUME LinkAssumption, LinkInv, CanaryAnswered PROVE LinkInv'
<1> DEFINE verdict == IF link.reply = "call" THEN "tools" ELSE "prose"
<1>1. /\ caps' \in BOOLEAN /\ link' = Hung
      /\ cache' \in {verdict, cache}
      /\ shown' = shown \cup {verdict} /\ UNCHANGED <<result, tales>>
  BY DEF CanaryAnswered, Conclude
<1>2. /\ cache' \in Verdicts \cup {"corrupt"} /\ shown' \subseteq Verdicts
      /\ cache' \in {"tools", "prose"} => cache' \in shown'
  BY <1>1 DEF LinkInv, LinkTypeOK, LinkHonest, VerdictEarned, Verdicts
<1>3. result' \in Result /\ ReadNotGuessed'
  BY <1>1 DEF LinkInv, LinkTypeOK, LinkHonest, ReadNotGuessed
<1> QED
  BY <1>1, <1>2, <1>3, IdleStep

-----------------------------------------------------------------------------
(* One round trip: post_json *)

LEMMA AnsweredStep == ASSUME LinkAssumption, LinkInv, Answered PROVE LinkInv'
<1>1. PICK reply \in Replies, items \in SUBSET Items :
         link' = WithAnswer(link, link.posts + 1, reply, items)
  BY DEF Answered, WithAnswer
<1> DEFINE l == WithAnswer(link, link.posts + 1, reply, items)
<1>2. link \in Line /\ link.at = "send" /\ LineCounted(link) /\ link.posts + 1 \in Nat
  BY DEF LinkInv, LinkTypeOK, Answered, PostsCounted, Line
<1>3. /\ l \in Line /\ l.at = "read" /\ l.posts = link.posts + 1
      /\ l.attempt = link.attempt /\ l.failed = link.failed
  BY <1>2, LineAnswered
<1>4. link' = l
  BY <1>1
<1> HIDE DEF l
<1>5. CostOf(link.failed) \in Nat
  BY <1>2, RoundCosts DEF Line, LinkAssumption
<1>6. LineCounted(l)
  BY <1>2, <1>3, <1>5 DEF LineCounted, Line
<1> QED
  BY <1>3, <1>4, <1>6, LinkLineStep DEF Answered, LinkInv, LinkTypeOK

LEMMA SendAgainStep == ASSUME LinkAssumption, LinkInv, SendAgain PROVE LinkInv'
<1> DEFINE a == link.attempt + 1
           p == link.posts + 1
           l == WithRetry(link, a, p)
<1>1. link \in Line /\ link.at = "send" /\ link.attempt < Retries /\ LineCounted(link)
  BY DEF LinkInv, LinkTypeOK, SendAgain, PostsCounted
<1>2. link' = l
  BY DEF SendAgain, WithRetry
<1>3. a \in 0..Retries /\ p \in Nat
  BY <1>1 DEF Line, LinkAssumption
<1> HIDE DEF a, p
<1>4. l \in Line /\ l.at = link.at /\ l.posts = p /\ l.attempt = a /\ l.failed = link.failed
  BY <1>1, <1>3 DEF Line, WithRetry
<1>5. /\ l \in Line /\ l.at = link.at /\ l.posts = link.posts + 1
      /\ l.attempt = link.attempt + 1 /\ l.failed = link.failed
  BY <1>4 DEF a, p
<1> HIDE DEF l
<1>6. CostOf(link.failed) \in Nat
  BY <1>1, RoundCosts DEF Line, LinkAssumption
<1>7. LineCounted(l)
  BY <1>1, <1>5, <1>6 DEF LineCounted, Line
<1> QED
  BY <1>2, <1>5, <1>7, LinkLineStep DEF SendAgain, LinkInv, LinkTypeOK

LEMMA SendFailsStep == ASSUME LinkAssumption, LinkInv, SendFails PROVE LinkInv'
<1>1. PICK retryable \in BOOLEAN :
         /\ retryable => link.attempt = Retries
         /\ IF link.canary
            THEN Conclude("prose", FALSE) /\ UNCHANGED result
            ELSE /\ result' = Failure(link.posts + 1, retryable)
                 /\ link' = Hung
                 /\ UNCHANGED <<cache, caps>>
  BY DEF SendFails, Failure
<1>2. UNCHANGED <<shown, tales>>
  BY DEF SendFails
<1>3. link' = Hung /\ UNCHANGED cache /\ caps' \in BOOLEAN
      /\ result' \in {result, Failure(link.posts + 1, retryable)}
  BY <1>1 DEF Conclude, CachedFrom, LinkInv, LinkTypeOK
<1>4. result' \in Result /\ ReadNotGuessed'
  <2>1. CASE UNCHANGED result
    BY <2>1 DEF LinkInv, LinkTypeOK, LinkHonest, ReadNotGuessed
  <2>2. CASE result' = Failure(link.posts + 1, retryable)
    <3> DEFINE failure == Failure(link.posts + 1, retryable)
    <3>1. link.posts \in Nat /\ link.attempt \in Nat /\ link.attempt <= link.posts /\ Retries \in Nat
      BY DEF LinkInv, LinkTypeOK, Line, PostsCounted, LineCounted, LinkAssumption
    <3>2. link.posts + 1 \in Nat
      BY <3>1
    <3>3. /\ failure \in Result /\ failure.deltas = {}
          /\ failure.posts = link.posts + 1 /\ failure.retryable = retryable
      BY <3>2, FailureTold
    <3>4. result' = failure
      BY <2>2
    <3> HIDE DEF failure
    <3> QED
      BY <1>1, <3>1, <3>3, <3>4 DEF ReadNotGuessed
  <2> QED
    BY <1>3, <2>1, <2>2
<1> QED
  BY <1>2, <1>3, <1>4, IdleStep DEF LinkInv, LinkTypeOK, LinkHonest, VerdictEarned

-----------------------------------------------------------------------------
(* A tale: LiveNarrator.narrate *)

\* What is told names no delta that was not read.
LEMMA ToldStays ==
    ASSUME LinkAssumption, LinkInv, NEW status \in {"proposals", "prose"}, NEW deltas \in SUBSET Items,
           Told(status, deltas), deltas \subseteq Known,
           deltas # {} => link.reply \in {"call", "object", "commas"}
    PROVE  LinkInv'
<1>1. link \in Line /\ result' = [status |-> status, deltas |-> deltas, reply |-> link.reply,
                                  posts |-> link.posts, retryable |-> FALSE]
  BY DEF Told, LinkInv, LinkTypeOK
<1>2. result' \in Result
  BY <1>1 DEF Line, Result
<1>3. ReadNotGuessed'
  BY <1>1 DEF ReadNotGuessed
<1> QED
  BY <1>2, <1>3, IdleStep DEF Told, LinkInv, LinkTypeOK, LinkHonest, VerdictEarned

LEMMA ReadStep ==
    ASSUME LinkAssumption, LinkInv, TellDeltas \/ TellProse \/ GiveUp PROVE LinkInv'
<1>1. CASE TellDeltas
  <2>1. Readable(link.items) \in SUBSET Items /\ Readable(link.items) \subseteq Known
    BY DEF Readable, LinkInv, LinkTypeOK, Line
  <2>2. link.reply \in {"call", "object", "commas"} /\ Told("proposals", Readable(link.items))
    BY <1>1 DEF TellDeltas, Parsed
  <2> QED
    BY <2>1, <2>2, ToldStays
<1>2. CASE TellProse \/ GiveUp
  BY <1>2, ToldStays DEF TellProse, GiveUp
<1> QED
  BY <1>1, <1>2

LEMMA AskAgainStep == ASSUME LinkAssumption, LinkInv, AskAgain PROVE LinkInv'
<1> DEFINE l == WithRound(link, link.failed + 1)
<1>1. link \in Line /\ link.at = "read" /\ RoundLeft /\ LineCounted(link) /\ link' = l
  BY DEF LinkInv, LinkTypeOK, AskAgain, Reading, PostsCounted, WithRound
<1>2. /\ link.failed \in Nat /\ link.attempt \in Nat /\ link.attempt <= Retries /\ link.posts \in Nat
      /\ link.failed + 1 < ParseAttempts /\ ParseAttempts \in Nat /\ Retries \in Nat
  BY <1>1 DEF Line, RoundLeft, LinkAssumption
<1>3. /\ l \in Line /\ l.at = "send" /\ l.posts = link.posts
      /\ l.attempt = 0 /\ l.failed = link.failed + 1
  <2>1. 0 \in 0..Retries /\ link.failed + 1 \in 0..ParseAttempts
    BY <1>2
  <2> QED
    BY <1>1, <2>1, LineAgain
<1> HIDE DEF l
<1>4. CostOf(link.failed) \in Nat /\ CostOf(link.failed + 1) = CostOf(link.failed) + Retries + 1
  BY <1>2, RoundCosts
<1>5. link.posts <= CostOf(link.failed) + link.attempt + 1
  BY <1>1 DEF LineCounted
<1>6. LineCounted(l)
  BY <1>2, <1>3, <1>4, <1>5 DEF LineCounted
<1> QED
  BY <1>1, <1>3, <1>6, LinkLineStep DEF AskAgain, LinkInv, LinkTypeOK

-----------------------------------------------------------------------------

LEMMA LinkMoves == ASSUME LinkAssumption, LinkInv, [LinkNext]_linkVars PROVE LinkInv'
<1>1. CASE Recall \/ CanaryAnswered \/ Answered \/ SendAgain \/ SendFails \/ AskAgain
  BY <1>1, RecallStep, CanaryStep, AnsweredStep, SendAgainStep, SendFailsStep, AskAgainStep
<1>2. CASE Probe
  <2> DEFINE l == [Hung EXCEPT !.at = "send", !.canary = TRUE, !.native = TRUE]
  <2>1. l \in Line /\ l.at = "send" /\ l.posts = 0 /\ l.attempt = 0 /\ l.failed = 0
    BY HungIsLine DEF Hung, Line
  <2>2. link' = l /\ UNCHANGED <<cache, result, shown, caps>> /\ tales' \in 0..MaxTales
    BY <1>2 DEF Probe, LinkInv, LinkTypeOK
  <2> HIDE DEF l
  <2> QED
    BY <2>1, <2>2, BegunStep
<1>3. CASE Narrate
  <2> DEFINE l == [Hung EXCEPT !.at = "send", !.native = caps]
  <2>1. caps \in BOOLEAN
    BY DEF LinkInv, LinkTypeOK
  <2>2. l \in Line /\ l.at = "send" /\ l.posts = 0 /\ l.attempt = 0 /\ l.failed = 0
    BY <2>1, HungIsLine DEF Hung, Line
  <2>3. link' = l /\ UNCHANGED <<cache, result, shown, caps>> /\ tales' \in 0..MaxTales
    BY <1>3 DEF Narrate, LinkInv, LinkTypeOK, LinkAssumption
  <2> HIDE DEF l
  <2> QED
    BY <2>2, <2>3, BegunStep
<1>4. CASE TellDeltas \/ TellProse \/ GiveUp
  BY <1>4, ReadStep
<1>5. CASE UNCHANGED linkVars
  BY <1>5 DEF linkVars, LinkInv, LinkTypeOK, LinkHonest, VerdictEarned, Bounded, ReadNotGuessed, PostsCounted
<1> QED
  BY <1>1, <1>2, <1>3, <1>4, <1>5 DEF LinkNext

\* The invariant holds throughout.
LEMMA LinkHolds == LinkSpec => []LinkInv
<1>1. LinkInit => LinkInv
  BY LinkBegins, LinkAssumption
<1>2. LinkInv /\ [LinkNext]_linkVars => LinkInv'
  BY LinkMoves, LinkAssumption
<1> QED
  BY <1>1, <1>2, PTL DEF LinkSpec

\* The line keeps its types (providers/transport.py, registry.py).
THEOREM LinkTyped == LinkSpec => []LinkTypeOK
<1>1. LinkInv => LinkTypeOK
  BY DEF LinkInv
<1> QED
  BY <1>1, LinkHolds, PTL

\* An outage freezes no verdict, a tale's requests stay within its rounds and
\* their retries, and deltas come only from a reply that parsed, for any number
\* of retries and rounds (registry.py: probe_capabilities, transport.py:
\* post_json, pipeline.py: LiveNarrator.narrate).
THEOREM LineIsHonest == LinkSpec => []LinkHonest
<1>1. LinkInv => LinkHonest
  BY DEF LinkInv
<1> QED
  BY <1>1, LinkHolds, PTL
=============================================================================
