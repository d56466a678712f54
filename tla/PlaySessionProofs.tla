------------------------- MODULE PlaySessionProofs -------------------------
(***************************************************************************)
(* Proofs about PlaySession, for every set of actions and threads, every   *)
(* choice of operations, and with or without faults and overlap.           *)
(***************************************************************************)
EXTENDS PlaySession, TLAPS

-----------------------------------------------------------------------------
(***************************************************************************)
(* The functions on boards yield boards.                                   *)
(***************************************************************************)

LEMMA SeededBoard == SeededState \in Board
  BY DEF SeededState, Board

LEMMA ResolutionBoards ==
  ASSUME NEW b \in Board, NEW k \in Keys, NEW c \in Resolutions(b, k)
  PROVE  /\ c \in Board
         /\ c.created = b.created
         /\ \A j \in Keys : c.applied[j] >= b.applied[j]
<1> DEFINE a == [b.applied EXCEPT ![k] = @ + 1]
<1>1. /\ c \in [ turns : {b.turns + 1}, applied : {a}, pending : {b.pending},
                 road : {b.road, FALSE}, created : {b.created},
                 completed : {b.completed, TRUE} ]
  BY DEF Resolutions
<1>2. b.applied \in [Keys -> Nat] /\ b.turns \in Nat
  BY DEF Board
<1>3. a \in [Keys -> Nat] /\ \A j \in Keys : a[j] >= b.applied[j]
  BY <1>2
<1> HIDE DEF a
<1>4. c.applied = a /\ c.created = b.created
  BY <1>1
<1>5. /\ c.turns = b.turns + 1 /\ c.pending = b.pending
      /\ c.road \in {b.road, FALSE} /\ c.completed \in {b.completed, TRUE}
      /\ c = [turns |-> c.turns, applied |-> c.applied, pending |-> c.pending,
              road |-> c.road, created |-> c.created, completed |-> c.completed]
  BY <1>1
<1>6. /\ b.pending \in BOOLEAN /\ b.road \in BOOLEAN
      /\ b.created \in BOOLEAN /\ b.completed \in BOOLEAN
  BY DEF Board
<1>7. c.turns \in Nat
  BY <1>2, <1>5
<1>8. c.pending \in BOOLEAN /\ c.created \in BOOLEAN
  BY <1>4, <1>5, <1>6, Zenon
<1>9. c.road \in BOOLEAN /\ c.completed \in BOOLEAN
  BY <1>5, <1>6, Zenon
<1>10. c \in Board
  BY <1>3, <1>4, <1>5, <1>7, <1>8, <1>9, Zenon DEF Board
<1> QED BY <1>3, <1>4, <1>10

\* A beat adds its action to the board, keeps a finished arc finished, and
\* leaves alone what is owed of the first page.
LEMMA ResolutionApplies ==
  ASSUME NEW b \in Board, NEW k \in Keys, NEW c \in Resolutions(b, k)
  PROVE  /\ c.applied[k] = b.applied[k] + 1 /\ c.applied[k] > 0
         /\ \A j \in Keys \ {k} : c.applied[j] = b.applied[j]
         /\ b.completed => c.completed
         /\ c.pending = b.pending
<1>1. /\ c.applied = [b.applied EXCEPT ![k] = @ + 1]
      /\ c.completed \in {b.completed, TRUE} /\ c.pending = b.pending
  BY DEF Resolutions
<1>2. b.applied \in [Keys -> Nat]
  BY DEF Board
<1>3. b.completed => c.completed
  BY <1>1, Zenon
<1> QED BY <1>1, <1>2, <1>3

LEMMA DerivedBoards ==
  ASSUME NEW b \in Board
  PROVE  /\ Opened(b) \in Board
         /\ Built(b) \in Board
         /\ NewJourney(b) \in Board
         /\ TurnedBack(b) \in Board
         /\ Opened(b).created = b.created
         /\ NewJourney(b).created = b.created
         /\ TurnedBack(b).created = b.created
<1>1. Opened(b) \in Board /\ Opened(b).created = b.created
  BY DEF Opened, Board
<1>2. Built(b) \in Board
  <2>1. (b.pending \/ b.road) \in BOOLEAN
    OBVIOUS
  <2> QED BY <2>1 DEF Built, Board
<1>3. NewJourney(b) \in Board /\ NewJourney(b).created = b.created
  BY SeededBoard DEF NewJourney, SeededState, Board
<1>4. TurnedBack(b) \in Board /\ TurnedBack(b).created = b.created
  BY DEF TurnedBack, Board
<1> QED BY <1>1, <1>2, <1>3, <1>4

-----------------------------------------------------------------------------
(***************************************************************************)
(* Every variable keeps its type.                                          *)
(***************************************************************************)

\* What TypeOK asks of one request.
Shaped(q) ==
    /\ q \in Request
    /\ q.at \in ActSteps => q.op = "act"
    /\ q.op = "act" /\ q.at # Idle => q.key \in Keys

LEMMA ShapedRequests ==
  ASSUME TypeOK, NEW r \in Requests
  PROVE  Shaped(req[r])
  BY DEF TypeOK, Shaped

LEMMA NoRequestShaped == Shaped(NoRequest)
  BY SeededBoard DEF Shaped, NoRequest, Request, Steps, Idle, AllOps, Legs, ActSteps

\* A step that gives one request a new record keeps the part of TypeOK about
\* requests when the new record is shaped.
LEMMA ShapedUpdate ==
  ASSUME TypeOK, NEW r \in Requests, NEW q, Shaped(q), req' = [req EXCEPT ![r] = q]
  PROVE  /\ req' \in [Requests -> Request]
         /\ \A p \in Requests :
              /\ req'[p].at \in ActSteps => req'[p].op = "act"
              /\ req'[p].op = "act" /\ req'[p].at # Idle => req'[p].key \in Keys
  BY DEF TypeOK, Shaped

LEMMA Finished ==
  ASSUME NEW r \in Requests, Finish(r)
  PROVE  req' = [req EXCEPT ![r] = NoRequest]
  BY DEF Finish

LEMMA InitTyped == Init => TypeOK
  BY SeededBoard, NoRequestShaped DEF Init, TypeOK, Shaped, NoRequest, Idle, ActSteps

\* A step of /act keeps the types.
LEMMA ActTyped ==
  ASSUME TypeOK, NEW r \in Requests, Act(r)
  PROVE  TypeOK'
<1> USE DEF rows
<1>0. Shaped(req[r])
  BY ShapedRequests
<1>1. CASE LoadAct(r)
  <2>1. PICK k \in Keys :
          req' = [req EXCEPT ![r] =
            [NoRequest EXCEPT !.at = "recall", !.key = k, !.base = row,
               !.leg = IF client[k] = NoCheck THEN "call" ELSE "throw",
               !.token = client[k]]]
    BY <1>1 DEF LoadAct
  <2> DEFINE q == [NoRequest EXCEPT !.at = "recall", !.key = k, !.base = row,
               !.leg = IF client[k] = NoCheck THEN "call" ELSE "throw",
               !.token = client[k]]
  <2>2. Shaped(q)
    BY NoRequestShaped, ZenonT(60) DEF TypeOK, Shaped, NoRequest, Request, Steps, Legs, AllOps, ActSteps
  <2> HIDE DEF q
  <2> QED BY <1>1, <2>1, <2>2, ShapedUpdate DEF LoadAct, TypeOK, q
<1>2. CASE Replay(r)
  <2>1. client' \in [Keys -> Board \cup {NoCheck, Answered}]
    BY <1>2 DEF Replay, Answer, TypeOK
  <2> QED BY <1>2, <2>1, Finished, NoRequestShaped, ShapedUpdate DEF Replay, TypeOK
<1>3. CASE RecallMisses(r)
  <2>1. Shaped([req[r] EXCEPT !.at = "think"])
    BY <1>0, <1>3 DEF RecallMisses, Shaped, Request, Steps, ActSteps, Idle
  <2> QED BY <1>3, <2>1, ShapedUpdate DEF RecallMisses, Goto, TypeOK
<1>4. CASE ThrowExpired(r)
  <2>1. client' \in [Keys -> Board \cup {NoCheck, Answered}]
    BY <1>4 DEF ThrowExpired, Answer, TypeOK
  <2> QED BY <1>4, <2>1, Finished, NoRequestShaped, ShapedUpdate DEF ThrowExpired, TypeOK
<1>5. CASE CheckCalled(r)
  <2>1. req[r].base \in Board
    BY <1>0 DEF Shaped, Request
  <2>2. client' \in [Keys -> Board \cup {NoCheck, Answered}]
    BY <1>5, <2>1 DEF CheckCalled, Answer, TypeOK
  <2> QED BY <1>5, <2>2, Finished, NoRequestShaped, ShapedUpdate DEF CheckCalled, TypeOK
<1>6. CASE Resolve(r)
  <2>1. /\ req[r].base \in Board /\ req[r].key \in Keys
        /\ req[r].at = "think" /\ req[r].op = "act"
    BY <1>0, <1>6 DEF Shaped, Request, Resolve, ActSteps, Idle
  <2>2. PICK b \in Resolutions(req[r].base, req[r].key), autosaves \in BOOLEAN :
          req' = [req EXCEPT ![r].at = "store", ![r].work = b, ![r].ckpt = autosaves]
    BY <1>6 DEF Resolve
  <2>3. b \in Board
    BY <2>1, ResolutionBoards
  <2> DEFINE q == [req[r] EXCEPT !.at = "store", !.work = b, !.ckpt = autosaves]
  <2>4. Shaped(q)
    BY <1>0, <2>1, <2>3 DEF Shaped, Request, Steps, ActSteps, Idle
  <2>5. req' = [req EXCEPT ![r] = q]
    BY <2>2
  <2> HIDE DEF q
  <2> QED BY <1>6, <2>4, <2>5, ShapedUpdate DEF Resolve, TypeOK
<1>7. CASE Autosave(r)
  <2>1. Shaped([req[r] EXCEPT !.at = "settle"])
    BY <1>0, <1>7 DEF Autosave, Shaped, Request, Steps, ActSteps, Idle
  <2> QED BY <1>7, <2>1, ShapedUpdate DEF Autosave, Goto, TypeOK
<1>8. CASE Settle(r)
  <2>1. Shaped([req[r] EXCEPT !.at = "remember"])
    BY <1>0, <1>8 DEF Settle, Shaped, Request, Steps, ActSteps, Idle
  <2> QED BY <1>8, <2>1, ShapedUpdate DEF Settle, Goto, TypeOK
<1>9. CASE Remember(r)
  <2>1. client' \in [Keys -> Board \cup {NoCheck, Answered}]
    BY <1>9 DEF Remember, Answer, TypeOK
  <2>2. <<req[r].key, req[r].leg>> \in Keys \X Legs
    BY <1>0, <1>9 DEF Remember, Shaped, Request, ActSteps, Idle
  <2> QED BY <1>9, <2>1, <2>2, Finished, NoRequestShaped, ShapedUpdate DEF Remember, TypeOK
<1>10. CASE RememberRefused(r)
  BY <1>10, Finished, NoRequestShaped, ShapedUpdate DEF RememberRefused, TypeOK
<1> QED
  BY <1>1, <1>2, <1>3, <1>4, <1>5, <1>6, <1>7, <1>8, <1>9, <1>10 DEF Act

\* A new request whose working copy is a board is shaped.
LEMMA StartShaped ==
  ASSUME TypeOK, NEW r \in Requests, NEW op \in AllOps \ {"act"},
         NEW at \in Steps \ ActSteps, NEW work \in Board, Start(r, op, at, work)
  PROVE  /\ req' = [req EXCEPT ![r] =
                      [NoRequest EXCEPT !.at = at, !.op = op, !.base = row, !.work = work]]
         /\ Shaped([NoRequest EXCEPT !.at = at, !.op = op, !.base = row, !.work = work])
  BY NoRequestShaped DEF Start, TypeOK, Shaped, Request, NoRequest

\* The steps of the opening, of the sheet, of a restart, and the store they
\* share with /act keep the types.
LEMMA OtherTyped ==
  ASSUME TypeOK, NEW r \in Requests,
         \/ LoadOpening(r) \/ Narrated(r) \/ NarrationFails(r)
         \/ Sheet(r) \/ Store(r) \/ Journey(r) \/ Die(r)
  PROVE  TypeOK'
<1> USE DEF rows
<1>0. Shaped(req[r]) /\ row \in Board
  BY ShapedRequests DEF TypeOK
<1>1. CASE LoadOpening(r)
  BY <1>0, <1>1, StartShaped, DerivedBoards, ShapedUpdate
  DEF LoadOpening, TypeOK, AllOps, Steps, ActSteps
<1>2. CASE Narrated(r)
  <2>1. Shaped([req[r] EXCEPT !.at = "store"])
    BY <1>0, <1>2 DEF Narrated, Shaped, Request, Steps, ActSteps, Idle
  <2> QED BY <1>2, <2>1, ShapedUpdate DEF Narrated, Goto, TypeOK
<1>3. CASE NarrationFails(r)
  BY <1>3, Finished, NoRequestShaped, ShapedUpdate DEF NarrationFails, TypeOK
<1>4. CASE LoadCreation(r)
  BY <1>0, <1>4, StartShaped, DerivedBoards, ShapedUpdate
  DEF LoadCreation, TypeOK, AllOps, Steps, ActSteps
<1>5. CASE ApplyCreation(r)
  <2>1. Shaped([req[r] EXCEPT !.at = "store"])
    BY <1>0, <1>5 DEF ApplyCreation, Shaped, Request, Steps, ActSteps, Idle
  <2> QED BY <1>5, <2>1, ShapedUpdate DEF ApplyCreation, Goto, TypeOK
<1>6. CASE LoadDraft(r)
  BY <1>0, <1>6, StartShaped, ShapedUpdate
  DEF LoadDraft, TypeOK, AllOps, Steps, ActSteps
<1>7. CASE Store(r)
  <2> DEFINE q == IF AfterStore(req[r]) = Idle THEN NoRequest
                  ELSE [req[r] EXCEPT !.at = AfterStore(req[r])]
  <2>1. Shaped(q)
    BY <1>0, <1>7, NoRequestShaped
    DEF Store, AfterStore, Shaped, Request, Steps, ActSteps, Idle
  <2>2. req' = [req EXCEPT ![r] = q]
    BY <1>7 DEF Store
  <2> HIDE DEF q
  <2>3. req[r].work \in Board /\ req[r].leg \in Legs
    BY <1>0 DEF Shaped, Request
  <2>4. req[r].op = "act" => req[r].key \in Keys
    BY <1>0, <1>7 DEF Store, Shaped, Idle
  <2>5. committed' \subseteq Keys \X Legs /\ mirror' \subseteq Keys
    BY <1>7, <2>3, <2>4 DEF Store, Remembered, TypeOK
  <2> QED BY <1>7, <2>1, <2>2, <2>3, <2>5, ShapedUpdate DEF Store, TypeOK
<1>8. CASE LoadRestart(r)
  BY <1>0, <1>8, StartShaped, DerivedBoards, ShapedUpdate
  DEF LoadRestart, TypeOK, AllOps, Steps, ActSteps
<1>9. CASE Shelve(r)
  <2>1. Shaped([req[r] EXCEPT !.at = "reset"])
    BY <1>0, <1>9 DEF Shelve, Shaped, Request, Steps, ActSteps, Idle
  <2> QED BY <1>9, <2>1, ShapedUpdate DEF Shelve, Goto, TypeOK
<1>10. CASE Reset(r)
  <2>1. req[r].work \in Board
    BY <1>0 DEF Shaped, Request
  <2> QED BY <1>10, <2>1, Finished, NoRequestShaped, ShapedUpdate DEF Reset, TypeOK
<1>11. CASE Die(r)
  BY <1>11, Finished, NoRequestShaped, ShapedUpdate DEF Die, TypeOK
<1> QED
  BY <1>1, <1>2, <1>3, <1>4, <1>5, <1>6, <1>7, <1>8, <1>9, <1>10, <1>11
  DEF Sheet, Journey

\* The shelf operations keep the types.
LEMMA ShelfTyped ==
  ASSUME TypeOK, CreateSave \/ DeleteSave \/ RestoreSave
  PROVE  TypeOK'
<1>1. CASE CreateSave
  BY <1>1 DEF CreateSave, TypeOK
<1>2. CASE DeleteSave
  BY <1>2 DEF DeleteSave, TypeOK
<1>3. CASE RestoreSave
  <2>1. row' \in Board
    BY <1>3, DerivedBoards DEF RestoreSave, TypeOK
  <2> QED BY <1>3, <2>1 DEF RestoreSave, TypeOK
<1> QED BY <1>1, <1>2, <1>3

\* Type correctness of the play session, whatever overlaps and whatever dies.
THEOREM TypeCorrect == Spec => []TypeOK
<1>1. TypeOK /\ [Next]_vars => TypeOK'
  <2> SUFFICES ASSUME TypeOK, [Next]_vars PROVE TypeOK'
    OBVIOUS
  <2>1. CASE Next
    BY <2>1, ActTyped, OtherTyped, ShelfTyped DEF Next
  <2>2. CASE UNCHANGED vars
    BY <2>2 DEF vars, rows, TypeOK
  <2> QED BY <2>1, <2>2
<1> QED BY InitTyped, <1>1, PTL DEF Spec

-----------------------------------------------------------------------------
(***************************************************************************)
(* A stored response stands for committed effects.                         *)
(***************************************************************************)

\* LedgerBacked with what makes it inductive: a request on its way from the
\* store to the ledger has committed the effects it will answer for.
LedgerInv ==
    /\ LedgerBacked
    /\ \A r \in Requests :
         req[r].at \in {"autosave", "settle", "remember"} =>
           <<req[r].key, req[r].leg>> \in committed

LEMMA LedgerInvInit == Init => LedgerInv
  BY DEF Init, LedgerInv, LedgerBacked, NoRequest, Idle

LEMMA LedgerInvNext == TypeOK /\ LedgerInv /\ [Next]_vars => LedgerInv'
<1> SUFFICES ASSUME TypeOK, LedgerInv, [Next]_vars PROVE LedgerInv'
  OBVIOUS
<1> USE DEF LedgerInv, LedgerBacked, rows, Idle
<1>0. req \in [Requests -> Request]
  BY DEF TypeOK
<1>1. ASSUME NEW r \in Requests, Act(r) PROVE LedgerInv'
  <2>1. CASE LoadAct(r)
    BY <1>0, <2>1 DEF LoadAct, NoRequest
  <2>2. CASE Replay(r)
    BY <1>0, <2>2 DEF Replay, Finish, NoRequest
  <2>3. CASE RecallMisses(r)
    BY <1>0, <2>3 DEF RecallMisses, Goto
  <2>4. CASE ThrowExpired(r)
    BY <1>0, <2>4 DEF ThrowExpired, Finish, NoRequest
  <2>5. CASE CheckCalled(r)
    BY <1>0, <2>5 DEF CheckCalled, Finish, NoRequest
  <2>6. CASE Resolve(r)
    BY <1>0, <2>6 DEF Resolve
  <2>7. CASE Autosave(r)
    BY <1>0, <2>7 DEF Autosave, Goto
  <2>8. CASE Settle(r)
    BY <1>0, <2>8 DEF Settle, Goto
  <2>9. CASE Remember(r)
    BY <1>0, <2>9 DEF Remember, Finish, NoRequest
  <2>10. CASE RememberRefused(r)
    BY <1>0, <2>10 DEF RememberRefused, Finish, NoRequest
  <2> QED
    BY <1>1, <2>1, <2>2, <2>3, <2>4, <2>5, <2>6, <2>7, <2>8, <2>9, <2>10 DEF Act
<1>2. ASSUME NEW r \in Requests, Store(r) PROVE LedgerInv'
  <2>1. ASSUME req'[r].at \in {"autosave", "settle", "remember"}
        PROVE  <<req'[r].key, req'[r].leg>> \in committed'
    BY <1>0, <1>2, <2>1 DEF Store, AfterStore, NoRequest
  <2>2. /\ ledger' = ledger /\ committed \subseteq committed'
        /\ \A p \in Requests \ {r} : req'[p] = req[p]
    BY <1>0, <1>2 DEF Store
  <2> QED BY <2>1, <2>2
<1>3. ASSUME NEW r \in Requests, Journey(r) PROVE LedgerInv'
  <2>1. CASE LoadRestart(r)
    BY <1>0, <2>1 DEF LoadRestart, Start, NoRequest
  <2>2. CASE Shelve(r)
    BY <1>0, <2>2 DEF Shelve, Goto
  <2>3. CASE Reset(r)
    BY <1>0, <2>3 DEF Reset, Finish, NoRequest
  <2> QED BY <1>3, <2>1, <2>2, <2>3 DEF Journey
<1>4. ASSUME NEW r \in Requests,
             LoadOpening(r) \/ Narrated(r) \/ NarrationFails(r) \/ Sheet(r) \/ Die(r)
      PROVE  LedgerInv'
  <2>1. CASE LoadOpening(r)
    BY <1>0, <2>1 DEF LoadOpening, Start, NoRequest
  <2>2. CASE LoadCreation(r)
    BY <1>0, <2>2 DEF LoadCreation, Start, NoRequest
  <2>3. CASE LoadDraft(r)
    BY <1>0, <2>3 DEF LoadDraft, Start, NoRequest
  <2>4. CASE Narrated(r)
    BY <1>0, <2>4 DEF Narrated, Goto
  <2>5. CASE ApplyCreation(r)
    BY <1>0, <2>5 DEF ApplyCreation, Goto
  <2>6. CASE NarrationFails(r) \/ Die(r)
    BY <1>0, <2>6 DEF NarrationFails, Die, Finish, NoRequest
  <2> QED BY <1>4, <2>1, <2>2, <2>3, <2>4, <2>5, <2>6 DEF Sheet
<1>5. CASE CreateSave \/ DeleteSave \/ RestoreSave
  BY <1>5 DEF CreateSave, DeleteSave, RestoreSave
<1>6. CASE UNCHANGED vars
  BY <1>6 DEF vars
<1> QED BY <1>1, <1>2, <1>3, <1>4, <1>5, <1>6 DEF Next

\* However requests overlap, retry or die, a replayed response answers for an
\* action whose effects were committed.
THEOREM LedgerIsBacked == Spec => []LedgerBacked
<1>1. LedgerInv => LedgerBacked
  BY DEF LedgerInv
<1> QED BY LedgerInvInit, LedgerInvNext, TypeCorrect, <1>1, PTL DEF Spec

-----------------------------------------------------------------------------
(***************************************************************************)
(* A created sheet has its character row.                                  *)
(***************************************************************************)

\* CreatedHasSheet with what makes it inductive: the copies that requests
\* loaded and will store obey it too, except between loading a sheet that is
\* being created and committing its rows.
SheetInv ==
    /\ CreatedHasSheet
    /\ \A r \in Requests :
         /\ req[r].base.created => sheet
         /\ req[r].at # "rows" => (req[r].work.created => sheet)

LEMMA SheetInvInit == Init => SheetInv
  BY DEF Init, SheetInv, CreatedHasSheet, NoRequest, SeededState, Idle

LEMMA SheetInvNext == TypeOK /\ SheetInv /\ [Next]_vars => SheetInv'
<1> SUFFICES ASSUME TypeOK, SheetInv, [Next]_vars PROVE SheetInv'
  OBVIOUS
<1> USE DEF SheetInv, CreatedHasSheet, rows, Idle
<1>0. req \in [Requests -> Request] /\ row \in Board /\ saves \in SUBSET Board
  BY DEF TypeOK
<1>1. ~NoRequest.base.created /\ ~NoRequest.work.created
  BY DEF NoRequest, SeededState
<1>2. ASSUME NEW r \in Requests, Act(r) PROVE SheetInv'
  <2>1. CASE LoadAct(r)
    BY <1>0, <1>1, <2>1 DEF LoadAct, NoRequest
  <2>2. CASE Replay(r) \/ ThrowExpired(r) \/ CheckCalled(r) \/ Remember(r) \/ RememberRefused(r)
    BY <1>0, <1>1, <2>2
    DEF Replay, ThrowExpired, CheckCalled, Remember, RememberRefused, Finish
  <2>3. CASE RecallMisses(r)
    BY <1>0, <2>3 DEF RecallMisses, Goto
  <2>4. CASE Resolve(r)
    <3>1. req[r].base \in Board /\ req[r].key \in Keys
      BY <2>4, ShapedRequests DEF Resolve, Shaped, Request, ActSteps
    <3>2. PICK b \in Resolutions(req[r].base, req[r].key), autosaves \in BOOLEAN :
            req' = [req EXCEPT ![r].at = "store", ![r].work = b, ![r].ckpt = autosaves]
      BY <2>4 DEF Resolve
    <3>3. b.created = req[r].base.created
      BY <3>1, ResolutionBoards
    <3>4. /\ \A p \in Requests \ {r} : req'[p] = req[p]
          /\ req'[r].base = req[r].base /\ req'[r].work = b
      BY <1>0, <3>2
    <3>5. sheet' = sheet /\ saves' = saves /\ row' = row
      BY <2>4 DEF Resolve
    <3>6. b.created => sheet
      BY <3>3
    <3> QED BY <3>4, <3>5, <3>6
  <2>5. CASE Autosave(r)
    BY <1>0, <2>5 DEF Autosave, Goto
  <2>6. CASE Settle(r)
    BY <1>0, <2>6 DEF Settle, Goto
  <2> QED BY <1>2, <2>1, <2>2, <2>3, <2>4, <2>5, <2>6 DEF Act
<1>3. ASSUME NEW r \in Requests, Store(r) PROVE SheetInv'
  BY <1>0, <1>1, <1>3 DEF Store
<1>4. ASSUME NEW r \in Requests, Journey(r) PROVE SheetInv'
  <2>1. CASE LoadRestart(r)
    BY <1>0, <1>1, <2>1, DerivedBoards DEF LoadRestart, Start, NoRequest
  <2>2. CASE Shelve(r)
    BY <1>0, <2>2 DEF Shelve, Goto
  <2>3. CASE Reset(r)
    BY <1>0, <1>1, <2>3 DEF Reset, Finish
  <2> QED BY <1>4, <2>1, <2>2, <2>3 DEF Journey
<1>5. ASSUME NEW r \in Requests, Sheet(r) PROVE SheetInv'
  <2>1. CASE LoadCreation(r)
    BY <1>0, <1>1, <2>1 DEF LoadCreation, Start, NoRequest
  <2>2. CASE ApplyCreation(r)
    BY <1>0, <2>2 DEF ApplyCreation, Goto
  <2>3. CASE LoadDraft(r)
    BY <1>0, <1>1, <2>3 DEF LoadDraft, Start, NoRequest
  <2> QED BY <1>5, <2>1, <2>2, <2>3 DEF Sheet
<1>6. ASSUME NEW r \in Requests, LoadOpening(r) PROVE SheetInv'
  BY <1>0, <1>1, <1>6, DerivedBoards DEF LoadOpening, Start, NoRequest
<1>7. ASSUME NEW r \in Requests, Narrated(r) \/ NarrationFails(r) \/ Die(r) PROVE SheetInv'
  <2>1. CASE Narrated(r)
    BY <1>0, <2>1 DEF Narrated, Goto
  <2>2. CASE NarrationFails(r) \/ Die(r)
    BY <1>0, <1>1, <2>2 DEF NarrationFails, Die, Finish
  <2> QED BY <1>7, <2>1, <2>2
<1>8. CASE CreateSave \/ DeleteSave
  BY <1>8 DEF CreateSave, DeleteSave
<1>9. CASE RestoreSave
  BY <1>0, <1>9, DerivedBoards DEF RestoreSave
<1>10. CASE UNCHANGED vars
  BY <1>10 DEF vars
<1> QED BY <1>2, <1>3, <1>4, <1>5, <1>6, <1>7, <1>8, <1>9, <1>10 DEF Next

\* However requests overlap or die, a sheet marked created has its character
\* row: in the live state, and on every page a player can step back to.
THEOREM CreatedSheetsExist == Spec => []CreatedHasSheet
<1>1. SheetInv => CreatedHasSheet
  BY DEF SheetInv
<1> QED BY SheetInvInit, SheetInvNext, TypeCorrect, <1>1, PTL DEF Spec

-----------------------------------------------------------------------------
(***************************************************************************)
(* One request at a time, the handlers are whole operations on one board.  *)
(***************************************************************************)

\* What a request under way owes on board b with shelf s: its working copy is
\* what its operation makes of the board as it still stands.
Owed(q, b, s) ==
    /\ q.op = "act" => q.at \in ActSteps \cup {"store"}
    /\ q.at \in {"recall", "think"} => q.base = b
    /\ q.op = "act" /\ q.at = "store" => q.work \in Resolutions(b, q.key)
    /\ q.op = "opening" =>
         q.at \in {"narrate", "store"} /\ b.pending /\ q.work = Opened(b)
    /\ q.op = "creation" =>
         q.at \in {"rows", "store"} /\ ~b.created /\ q.work = Built(b)
    /\ q.op = "draft" => q.at = "store" /\ q.work = b
    /\ q.op = "restart" => q.at \in {"shelve", "reset"} /\ q.work = NewJourney(b)
    /\ q.at = "reset" => (b.turns > 0 => b \in s)
    /\ q.op \in {"act", "opening", "creation", "draft", "restart"}

\* At most one request is under way, and it owes what Owed says.
SerialInv ==
    /\ \A r, p \in Busy : r = p
    /\ \A r \in Busy : Owed(req[r], row, saves)

\* SerialInv after a step of the only request under way.
LEMMA SerialUpdate ==
  ASSUME TypeOK, NEW r \in Requests, Busy \subseteq {r},
         NEW q, req' = [req EXCEPT ![r] = q],
         q.at # Idle => Owed(q, row', saves')
  PROVE  SerialInv'
<1>1. /\ req'[r] = q
      /\ \A p \in Requests \ {r} : req'[p] = req[p] /\ req[p].at = Idle
  BY DEF TypeOK, Busy
<1>2. Busy' \subseteq {r}
  BY <1>1 DEF Busy
<1>3. r \in Busy' => q.at # Idle
  BY <1>1 DEF Busy
<1> QED BY <1>1, <1>2, <1>3 DEF SerialInv

LEMMA SerialFinish ==
  ASSUME TypeOK, NEW r \in Requests, Busy \subseteq {r}, Finish(r)
  PROVE  SerialInv'
  BY SerialUpdate DEF Finish, NoRequest, Idle

LEMMA OnlyBusy ==
  ASSUME SerialInv, NEW r \in Requests, req[r].at # Idle
  PROVE  Busy = {r} /\ Owed(req[r], row, saves)
  BY DEF SerialInv, Busy

LEMMA SerialInvInit == Init => SerialInv
  BY DEF Init, SerialInv, Busy, NoRequest

LEMMA SerialInvNext == Serial /\ TypeOK /\ SerialInv /\ [Next]_vars => SerialInv'
<1> SUFFICES ASSUME Serial, TypeOK, SerialInv, [Next]_vars PROVE SerialInv'
  OBVIOUS
<1> USE DEF rows
<1>1. ASSUME NEW r \in Requests, Act(r) PROVE SerialInv'
  <2>1. CASE LoadAct(r)
    <3>1. PICK k \in Keys :
            req' = [req EXCEPT ![r] =
              [NoRequest EXCEPT !.at = "recall", !.key = k, !.base = row,
                 !.leg = IF client[k] = NoCheck THEN "call" ELSE "throw",
                 !.token = client[k]]]
      BY <2>1 DEF LoadAct
    <3> DEFINE q == [NoRequest EXCEPT !.at = "recall", !.key = k, !.base = row,
                 !.leg = IF client[k] = NoCheck THEN "call" ELSE "throw",
                 !.token = client[k]]
    <3>2. Busy \subseteq {r} /\ row' = row /\ saves' = saves
      BY <2>1 DEF LoadAct, MayStart
    <3>3. Owed(q, row', saves')
      BY <3>2 DEF Owed, NoRequest, ActSteps
    <3> HIDE DEF q
    <3>4. req' = [req EXCEPT ![r] = q]
      BY <3>1 DEF q
    <3> QED BY <3>2, <3>3, <3>4, SerialUpdate
  <2>2. CASE Replay(r) \/ ThrowExpired(r) \/ CheckCalled(r) \/ Remember(r) \/ RememberRefused(r)
    BY <2>2, OnlyBusy, SerialFinish
    DEF Replay, ThrowExpired, CheckCalled, Remember, RememberRefused, Idle
  <2>3. CASE RecallMisses(r)
    <3>1. Owed([req[r] EXCEPT !.at = "think"], row', saves') /\ Busy \subseteq {r}
      BY <2>3, OnlyBusy, ShapedRequests
      DEF RecallMisses, Owed, Shaped, Request, Idle, ActSteps
    <3> QED BY <2>3, <3>1, SerialUpdate DEF RecallMisses, Goto
  <2>4. CASE Resolve(r)
    <3>1. PICK b \in Resolutions(req[r].base, req[r].key), autosaves \in BOOLEAN :
            req' = [req EXCEPT ![r].at = "store", ![r].work = b, ![r].ckpt = autosaves]
      BY <2>4 DEF Resolve
    <3> DEFINE q == [req[r] EXCEPT !.at = "store", !.work = b, !.ckpt = autosaves]
    <3>2. req' = [req EXCEPT ![r] = q]
      BY <3>1
    <3>3. /\ Busy \subseteq {r} /\ Owed(req[r], row, saves)
          /\ row' = row /\ saves' = saves /\ req[r].at = "think"
      BY <2>4, OnlyBusy DEF Resolve, Idle
    <3>4. req[r] \in Request /\ req[r].op = "act" /\ req[r].base = row
      BY <3>3, ShapedRequests DEF Shaped, Owed, ActSteps
    <3>5. /\ q.at = "store" /\ q.work = b /\ q.op = "act" /\ q.key = req[r].key
      BY <3>4 DEF Request
    <3> HIDE DEF q
    <3>6. Owed(q, row', saves')
      BY <3>3, <3>4, <3>5 DEF Owed, ActSteps
    <3> QED BY <3>2, <3>3, <3>6, SerialUpdate
  <2>5. CASE Autosave(r)
    <3>1. Owed([req[r] EXCEPT !.at = "settle"], row', saves') /\ Busy \subseteq {r}
      BY <2>5, OnlyBusy, ShapedRequests
      DEF Autosave, Owed, Shaped, Request, Idle, ActSteps
    <3> QED BY <2>5, <3>1, SerialUpdate DEF Autosave, Goto
  <2>6. CASE Settle(r)
    <3>1. Owed([req[r] EXCEPT !.at = "remember"], row', saves') /\ Busy \subseteq {r}
      BY <2>6, OnlyBusy, ShapedRequests
      DEF Settle, Owed, Shaped, Request, Idle, ActSteps
    <3> QED BY <2>6, <3>1, SerialUpdate DEF Settle, Goto
  <2> QED BY <1>1, <2>1, <2>2, <2>3, <2>4, <2>5, <2>6 DEF Act
<1>2. ASSUME NEW r \in Requests, Store(r) PROVE SerialInv'
  <2> DEFINE q == IF AfterStore(req[r]) = Idle THEN NoRequest
                  ELSE [req[r] EXCEPT !.at = AfterStore(req[r])]
  <2>1. req' = [req EXCEPT ![r] = q] /\ Busy \subseteq {r}
    BY <1>2, OnlyBusy DEF Store, Idle
  <2>2. q.at # Idle => q.op = "act" /\ q.at \in {"autosave", "settle"}
    BY <1>2, ShapedRequests DEF AfterStore, Shaped, Request, NoRequest, Idle
  <2> HIDE DEF q
  <2>3. q.at # Idle => Owed(q, row', saves')
    BY <2>2 DEF Owed, ActSteps
  <2> QED BY <2>1, <2>3, SerialUpdate
<1>3. ASSUME NEW r \in Requests, NEW op \in AllOps, NEW at \in Steps, NEW work,
             Start(r, op, at, work), row' = row, saves' = saves,
             Owed([NoRequest EXCEPT !.at = at, !.op = op, !.base = row, !.work = work],
                  row, saves)
      PROVE  SerialInv'
  BY <1>3, SerialUpdate DEF Start, MayStart
<1>4. ASSUME NEW r \in Requests, Journey(r) PROVE SerialInv'
  <2>1. CASE LoadRestart(r)
    BY <1>3, <2>1 DEF LoadRestart, Owed, NoRequest, AllOps, Steps
  <2>2. CASE Shelve(r)
    <3>1. Owed([req[r] EXCEPT !.at = "reset"], row', saves') /\ Busy \subseteq {r}
      BY <2>2, OnlyBusy, ShapedRequests
      DEF Shelve, Owed, Shaped, Request, Idle, ActSteps
    <3> QED BY <2>2, <3>1, SerialUpdate DEF Shelve, Goto
  <2>3. CASE Reset(r)
    BY <2>3, OnlyBusy, SerialFinish DEF Reset, Idle
  <2> QED BY <1>4, <2>1, <2>2, <2>3 DEF Journey
<1>5. ASSUME NEW r \in Requests, Sheet(r) PROVE SerialInv'
  <2>1. CASE LoadCreation(r)
    BY <1>3, <2>1 DEF LoadCreation, Owed, NoRequest, AllOps, Steps
  <2>2. CASE ApplyCreation(r)
    <3>1. Owed([req[r] EXCEPT !.at = "store"], row', saves') /\ Busy \subseteq {r}
      BY <2>2, OnlyBusy, ShapedRequests
      DEF ApplyCreation, Owed, Shaped, Request, Idle, ActSteps
    <3> QED BY <2>2, <3>1, SerialUpdate DEF ApplyCreation, Goto
  <2>3. CASE LoadDraft(r)
    BY <1>3, <2>3 DEF LoadDraft, Owed, NoRequest, AllOps, Steps
  <2> QED BY <1>5, <2>1, <2>2, <2>3 DEF Sheet
<1>6. ASSUME NEW r \in Requests, LoadOpening(r) PROVE SerialInv'
  BY <1>3, <1>6 DEF LoadOpening, Owed, NoRequest, AllOps, Steps
<1>7. ASSUME NEW r \in Requests, Narrated(r) PROVE SerialInv'
  <2>1. Owed([req[r] EXCEPT !.at = "store"], row', saves') /\ Busy \subseteq {r}
    BY <1>7, OnlyBusy, ShapedRequests
    DEF Narrated, Owed, Shaped, Request, Idle, ActSteps
  <2> QED BY <1>7, <2>1, SerialUpdate DEF Narrated, Goto
<1>8. ASSUME NEW r \in Requests, NarrationFails(r) \/ Die(r) PROVE SerialInv'
  BY <1>8, OnlyBusy, SerialFinish DEF NarrationFails, Die, Idle
<1>9. CASE CreateSave \/ DeleteSave \/ RestoreSave
  <2>1. Busy = {} /\ req' = req
    BY <1>9 DEF CreateSave, DeleteSave, RestoreSave, MayStart
  <2> QED BY <2>1 DEF SerialInv, Busy
<1>10. CASE UNCHANGED vars
  BY <1>10 DEF vars, SerialInv, Busy
<1> QED BY <1>1, <1>2, <1>4, <1>5, <1>6, <1>7, <1>8, <1>9, <1>10 DEF Next

\* The chronicle computes its boards with the same functions.
LEMMA SameBoards ==
  /\ C!SeededState = SeededState
  /\ \A b, k : C!Resolutions(b, k) = Resolutions(b, k)
  /\ \A b : C!Opened(b) = Opened(b)
  /\ \A b : C!Built(b) = Built(b)
  /\ \A b : C!NewJourney(b) = NewJourney(b)
  /\ \A b : C!TurnedBack(b) = TurnedBack(b)
<1>1. C!SeededState = SeededState
  BY DEF C!SeededState, SeededState
<1>2. \A b, k : C!Resolutions(b, k) = Resolutions(b, k)
  BY DEF C!Resolutions, Resolutions
<1>3. \A b : C!Opened(b) = Opened(b) /\ C!Built(b) = Built(b) /\ C!TurnedBack(b) = TurnedBack(b)
  BY DEF C!Opened, Opened, C!Built, Built, C!TurnedBack, TurnedBack
<1>4. \A b : C!NewJourney(b) = NewJourney(b)
  BY <1>1 DEF C!NewJourney, NewJourney
<1> QED BY <1>1, <1>2, <1>3, <1>4

\* Every step of the serial session is a step of the chronicle, or leaves the
\* board and the shelf alone.
LEMMA SerialStep ==
  ASSUME Serial, TypeOK, SerialInv, [Next]_vars
  PROVE  C!Next \/ UNCHANGED <<row, saves>>
<1> USE DEF rows
<1>1. ASSUME NEW r \in Requests, Store(r) PROVE C!Next \/ UNCHANGED <<row, saves>>
  <2>1. /\ Owed(req[r], row, saves) /\ req[r].at = "store"
        /\ row' = req[r].work /\ saves' = saves
    BY <1>1, OnlyBusy DEF Store, Idle
  <2>2. CASE req[r].op = "act"
    <3>1. req[r].key \in Keys
      BY <2>1, <2>2, ShapedRequests DEF Shaped, Idle
    <3>2. row' \in Resolutions(row, req[r].key)
      BY <2>1, <2>2 DEF Owed
    <3> QED BY <2>1, <3>1, <3>2, SameBoards DEF C!Next, C!Beat
  <2>3. CASE req[r].op = "opening"
    BY <2>1, <2>3, SameBoards DEF Owed, C!Next, C!Opening
  <2>4. CASE req[r].op = "creation"
    BY <2>1, <2>4, SameBoards DEF Owed, C!Next, C!Creation
  <2>5. CASE req[r].op = "draft"
    BY <2>1, <2>5 DEF Owed
  <2>6. CASE req[r].op = "restart"
    BY <2>1, <2>6 DEF Owed
  <2> QED BY <2>1, <2>2, <2>3, <2>4, <2>5, <2>6 DEF Owed
<1>2. ASSUME NEW r \in Requests, Reset(r) PROVE C!Next \/ UNCHANGED <<row, saves>>
  <2>1. /\ Owed(req[r], row, saves) /\ req[r].at = "reset"
        /\ row' = req[r].work /\ saves' = saves
    BY <1>2, OnlyBusy DEF Reset, Idle
  <2>2. req[r].op = "restart"
    BY <2>1 DEF Owed, ActSteps
  <2> QED BY <2>1, <2>2, SameBoards DEF Owed, C!Next, C!Restart
<1>3. ASSUME NEW r \in Requests, Autosave(r) \/ Shelve(r)
      PROVE  C!Next \/ UNCHANGED <<row, saves>>
  BY <1>3 DEF Autosave, Shelve, C!Next, C!Keep
<1>4. ASSUME NEW r \in Requests,
             \/ LoadAct(r) \/ Replay(r) \/ RecallMisses(r) \/ ThrowExpired(r)
             \/ CheckCalled(r) \/ Resolve(r) \/ Settle(r) \/ Remember(r)
             \/ RememberRefused(r) \/ LoadOpening(r) \/ Narrated(r) \/ NarrationFails(r)
             \/ Sheet(r) \/ LoadRestart(r) \/ Die(r)
      PROVE  UNCHANGED <<row, saves>>
  BY <1>4
  DEF LoadAct, Replay, RecallMisses, ThrowExpired, CheckCalled, Resolve, Settle, Remember,
      RememberRefused, LoadOpening, Narrated, NarrationFails, Sheet, LoadCreation,
      ApplyCreation, LoadDraft, LoadRestart, Die
<1>5. CASE CreateSave
  BY <1>5 DEF CreateSave, C!Next, C!Keep
<1>6. CASE DeleteSave
  BY <1>6 DEF DeleteSave, C!Next, C!Prune
<1>7. CASE RestoreSave
  BY <1>7, SameBoards DEF RestoreSave, C!Next, C!Restore
<1>8. CASE UNCHANGED vars
  BY <1>8 DEF vars
<1> QED BY <1>1, <1>2, <1>3, <1>4, <1>5, <1>6, <1>7, <1>8 DEF Next, Act, Journey

\* A player who waits for every answer plays on one board that whole
\* operations change one after another, whatever dies in between: no committed
\* beat is lost, a restart shelves the run it ends, and every page on the shelf
\* is one the board stood on.
THEOREM SerialSessionIsChronicle ==
  ASSUME Serial
  PROVE  Spec => Serialised
<1>1. Init => C!Init
  BY SameBoards DEF Init, C!Init
<1>2. TypeOK /\ SerialInv /\ [Next]_vars => [C!Next]_(C!chronicleVars)
  BY SerialStep DEF C!chronicleVars
<1>3. SerialInv /\ TypeOK /\ [Next]_vars => SerialInv'
  BY SerialInvNext
<1> QED BY <1>1, <1>2, <1>3, SerialInvInit, TypeCorrect, PTL DEF Spec, Serialised, C!Spec
-----------------------------------------------------------------------------
(***************************************************************************)
(* One request at a time, nothing moves under a request: what it throws,   *)
(* saves, marks and answers is about the board it is on.                   *)
(***************************************************************************)

\* What a request under way has done by the time it stands where it stands: a
\* throw about to be stored was called from the board b, and a beat that is
\* stored is still what the board holds, its finished arc marked before its
\* ledger entry is written.
Kept(q, b, s) ==
    /\ q.leg = "throw" => q.op = "act"
    /\ q.leg = "throw" /\ q.at = "store" => q.token = b
    /\ q.at \in {"autosave", "settle", "remember"} =>
         q.work = b /\ b.applied[q.key] > 0
    /\ q.at = "remember" /\ b.completed => s = "completed"

KeptInv == \A r \in Busy : Kept(req[r], row, status)

\* KeptInv after a step of the only request under way.
LEMMA KeptUpdate ==
  ASSUME TypeOK, NEW r \in Requests, Busy \subseteq {r},
         NEW q, req' = [req EXCEPT ![r] = q],
         q.at # Idle => Kept(q, row', status')
  PROVE  KeptInv'
<1>1. /\ req'[r] = q
      /\ \A p \in Requests \ {r} : req'[p] = req[p] /\ req[p].at = Idle
  BY DEF TypeOK, Busy
<1>2. Busy' \subseteq {r}
  BY <1>1 DEF Busy
<1>3. r \in Busy' => q.at # Idle
  BY <1>1 DEF Busy
<1> QED BY <1>1, <1>2, <1>3 DEF KeptInv

LEMMA KeptFinish ==
  ASSUME TypeOK, NEW r \in Requests, Busy \subseteq {r}, Finish(r)
  PROVE  KeptInv'
  BY KeptUpdate DEF Finish, NoRequest, Idle

\* A request that goes on with the board and the status as they are keeps what
\* it has, unless it goes where more is asked of it.
LEMMA KeptGoto ==
  ASSUME TypeOK, KeptInv, NEW r \in Requests, Busy = {r},
         NEW at \in Steps, Goto(r, at), row' = row, status' = status,
         at = "store" => req[r].leg = "call",
         at \in {"autosave", "settle"} => req[r].at \in {"autosave", "settle"},
         at # "remember"
  PROVE  KeptInv'
<1> DEFINE q == [req[r] EXCEPT !.at = at]
<1>1. req[r] \in Request /\ Kept(req[r], row, status)
  BY ShapedRequests DEF KeptInv, Shaped
<1>2. /\ q.leg = req[r].leg /\ q.op = req[r].op /\ q.token = req[r].token
      /\ q.work = req[r].work /\ q.key = req[r].key /\ q.at = at
  BY <1>1 DEF Request
<1> HIDE DEF q
<1>3. Kept(q, row', status')
  BY <1>1, <1>2 DEF Kept
<1>4. req' = [req EXCEPT ![r] = q]
  BY DEF Goto, q
<1> QED BY <1>3, <1>4, KeptUpdate

LEMMA KeptStart ==
  ASSUME Serial, TypeOK, NEW r \in Requests, NEW op \in AllOps,
         NEW at \in Steps \ ActSteps, NEW work, Start(r, op, at, work)
  PROVE  KeptInv'
<1> DEFINE q == [NoRequest EXCEPT !.at = at, !.op = op, !.base = row, !.work = work]
<1>1. Busy \subseteq {r} /\ req' = [req EXCEPT ![r] = q]
  BY DEF Start, MayStart
<1>2. Kept(q, row', status')
  BY DEF Kept, NoRequest, ActSteps
<1> HIDE DEF q
<1> QED BY <1>1, <1>2, KeptUpdate

\* The opening and the sheet carry no die.
LEMMA NoDieInHand ==
  ASSUME TypeOK, SerialInv, KeptInv, NEW r \in Requests, req[r].at \in {"narrate", "rows"}
  PROVE  Busy = {r} /\ req[r].leg = "call"
<1>1. Busy = {r} /\ Owed(req[r], row, saves) /\ Kept(req[r], row, status)
  BY OnlyBusy DEF KeptInv, Idle
<1>2. req[r].op # "act"
  BY <1>1 DEF Owed, ActSteps
<1> QED BY <1>1, <1>2, ShapedRequests DEF Kept, Shaped, Request, Legs

LEMMA KeptInvInit == Init => KeptInv
  BY DEF Init, KeptInv, Busy, NoRequest

LEMMA KeptInvNext ==
  ASSUME Serial, TypeOK, SerialInv, KeptInv, [Next]_vars
  PROVE  KeptInv'
<1> USE DEF rows
<1>1. ASSUME NEW r \in Requests, Act(r) PROVE KeptInv'
  <2>1. CASE LoadAct(r)
    <3>1. PICK k \in Keys :
            req' = [req EXCEPT ![r] =
              [NoRequest EXCEPT !.at = "recall", !.key = k, !.base = row,
                 !.leg = IF client[k] = NoCheck THEN "call" ELSE "throw",
                 !.token = client[k]]]
      BY <2>1 DEF LoadAct
    <3> DEFINE q == [NoRequest EXCEPT !.at = "recall", !.key = k, !.base = row,
                 !.leg = IF client[k] = NoCheck THEN "call" ELSE "throw",
                 !.token = client[k]]
    <3>2. Busy \subseteq {r}
      BY <2>1 DEF LoadAct, MayStart
    <3>3. Kept(q, row', status')
      BY DEF Kept, NoRequest
    <3> HIDE DEF q
    <3>4. req' = [req EXCEPT ![r] = q]
      BY <3>1 DEF q
    <3> QED BY <3>2, <3>3, <3>4, KeptUpdate
  <2>2. CASE Replay(r) \/ ThrowExpired(r) \/ CheckCalled(r) \/ Remember(r) \/ RememberRefused(r)
    BY <2>2, OnlyBusy, KeptFinish
    DEF Replay, ThrowExpired, CheckCalled, Remember, RememberRefused, Idle
  <2>3. CASE RecallMisses(r)
    BY <2>3, OnlyBusy, KeptGoto DEF RecallMisses, Idle, Steps
  <2>4. CASE Resolve(r)
    <3>1. PICK b \in Resolutions(req[r].base, req[r].key), autosaves \in BOOLEAN :
            req' = [req EXCEPT ![r].at = "store", ![r].work = b, ![r].ckpt = autosaves]
      BY <2>4 DEF Resolve
    <3> DEFINE q == [req[r] EXCEPT !.at = "store", !.work = b, !.ckpt = autosaves]
    <3>2. req' = [req EXCEPT ![r] = q]
      BY <3>1
    <3>3. /\ Busy = {r} /\ Owed(req[r], row, saves) /\ row' = row
          /\ req[r].at = "think" /\ req[r].leg = "throw" => req[r].base = req[r].token
      BY <2>4, OnlyBusy DEF Resolve, Idle
    <3>4. req[r] \in Request /\ req[r].op = "act" /\ req[r].base = row
      BY <2>4, <3>3, ShapedRequests DEF Shaped, Owed, ActSteps, Resolve
    <3>5. q.at = "store" /\ q.op = "act" /\ q.leg = req[r].leg /\ q.token = req[r].token
      BY <3>4 DEF Request
    <3> HIDE DEF q
    <3>6. Kept(q, row', status')
      BY <2>4, <3>3, <3>4, <3>5 DEF Kept, Resolve
    <3> QED BY <3>2, <3>3, <3>6, KeptUpdate
  <2>5. CASE Autosave(r)
    BY <2>5, OnlyBusy, KeptGoto DEF Autosave, Idle, Steps
  <2>6. CASE Settle(r)
    <3> DEFINE q == [req[r] EXCEPT !.at = "remember"]
    <3>1. /\ Busy = {r} /\ req' = [req EXCEPT ![r] = q] /\ row' = row
          /\ req[r].at = "settle" /\ req[r].work.completed => status' = "completed"
      BY <2>6, OnlyBusy DEF Settle, Goto, Idle
    <3>2. req[r] \in Request /\ Kept(req[r], row, status)
      BY <3>1, ShapedRequests DEF Shaped, KeptInv
    <3>3. /\ q.at = "remember" /\ q.op = req[r].op /\ q.leg = req[r].leg
          /\ q.work = req[r].work /\ q.key = req[r].key
      BY <3>2 DEF Request
    <3> HIDE DEF q
    <3>4. Kept(q, row', status')
      BY <2>6, <3>1, <3>2, <3>3 DEF Kept, Settle
    <3> QED BY <3>1, <3>4, KeptUpdate
  <2> QED BY <1>1, <2>1, <2>2, <2>3, <2>4, <2>5, <2>6 DEF Act
<1>2. ASSUME NEW r \in Requests, Store(r) PROVE KeptInv'
  <2> DEFINE q == IF AfterStore(req[r]) = Idle THEN NoRequest
                  ELSE [req[r] EXCEPT !.at = AfterStore(req[r])]
  <2>1. /\ req' = [req EXCEPT ![r] = q] /\ Busy = {r} /\ Owed(req[r], row, saves)
        /\ req[r].at = "store" /\ row' = req[r].work
    BY <1>2, OnlyBusy DEF Store, Idle
  <2>2. Shaped(req[r]) /\ Kept(req[r], row, status) /\ row \in Board
    BY <2>1, ShapedRequests DEF KeptInv, TypeOK
  <2>3. q.at # Idle => /\ q.op = "act" /\ req[r].op = "act" /\ q.at \in {"autosave", "settle"}
                       /\ q.work = req[r].work /\ q.key = req[r].key
    BY <2>1, <2>2 DEF AfterStore, Shaped, Request, NoRequest, Idle
  <2> HIDE DEF q
  <2>4. req[r].op = "act" => row'.applied[req[r].key] > 0
    <3> SUFFICES ASSUME req[r].op = "act" PROVE row'.applied[req[r].key] > 0
      OBVIOUS
    <3>1. req[r].key \in Keys /\ row' \in Resolutions(row, req[r].key)
      BY <2>1, <2>2 DEF Owed, Shaped, Idle
    <3> QED BY <2>2, <3>1, ResolutionApplies
  <2>5. q.at # Idle => Kept(q, row', status')
    BY <2>1, <2>3, <2>4 DEF Kept
  <2> QED BY <2>1, <2>5, KeptUpdate
<1>3. ASSUME NEW r \in Requests, Journey(r) PROVE KeptInv'
  <2>1. CASE LoadRestart(r)
    BY <2>1, KeptStart DEF LoadRestart, AllOps, Steps, ActSteps
  <2>2. CASE Shelve(r)
    BY <2>2, OnlyBusy, KeptGoto DEF Shelve, Idle, Steps
  <2>3. CASE Reset(r)
    BY <2>3, OnlyBusy, KeptFinish DEF Reset, Idle
  <2> QED BY <1>3, <2>1, <2>2, <2>3 DEF Journey
<1>4. ASSUME NEW r \in Requests, Sheet(r) \/ LoadOpening(r) PROVE KeptInv'
  <2>1. CASE LoadCreation(r) \/ LoadDraft(r) \/ LoadOpening(r)
    BY <2>1, KeptStart DEF LoadCreation, LoadDraft, LoadOpening, AllOps, Steps, ActSteps
  <2>2. CASE ApplyCreation(r)
    BY <2>2, NoDieInHand, KeptGoto DEF ApplyCreation, Steps
  <2> QED BY <1>4, <2>1, <2>2 DEF Sheet
<1>5. ASSUME NEW r \in Requests, Narrated(r) PROVE KeptInv'
  BY <1>5, NoDieInHand, KeptGoto DEF Narrated, Steps
<1>6. ASSUME NEW r \in Requests, NarrationFails(r) \/ Die(r) PROVE KeptInv'
  BY <1>6, OnlyBusy, KeptFinish DEF NarrationFails, Die, Idle
<1>7. CASE CreateSave \/ DeleteSave \/ RestoreSave
  <2>1. Busy = {} /\ req' = req
    BY <1>7 DEF CreateSave, DeleteSave, RestoreSave, MayStart
  <2> QED BY <2>1 DEF KeptInv, Busy
<1>8. CASE UNCHANGED vars
  BY <1>8 DEF vars, KeptInv, Busy
<1> QED BY <1>1, <1>2, <1>3, <1>4, <1>5, <1>6, <1>7, <1>8 DEF Next

\* A die lands only on the board its check was called from: in serial use the
\* token a throw carries is the very board its beat is stored over, whatever
\* died before it.
THEOREM SerialThrowsLand ==
  ASSUME Serial
  PROVE  Spec => ThrowLandsOnItsBoard
<1>1. ASSUME NEW r \in Requests, SerialInv, KeptInv, Stores(r), req[r].leg = "throw"
      PROVE  row = req[r].token
  BY <1>1, OnlyBusy DEF Stores, KeptInv, Kept, Idle
<1>2. SerialInv /\ KeptInv /\ [Next]_vars
        => [\A r \in Requests : Stores(r) /\ req[r].leg = "throw" => row = req[r].token]_vars
  BY <1>1
<1>3. SerialInv /\ TypeOK /\ [Next]_vars => SerialInv'
  BY SerialInvNext
<1>4. SerialInv /\ TypeOK /\ KeptInv /\ [Next]_vars => KeptInv'
  BY KeptInvNext
<1> QED
  BY <1>2, <1>3, <1>4, SerialInvInit, KeptInvInit, TypeCorrect, PTL
  DEF Spec, ThrowLandsOnItsBoard

\* What a request stores in serial use, told by its operation.
LEMMA SerialStores ==
  ASSUME TypeOK, SerialInv, NEW r \in Requests, Stores(r)
  PROVE  /\ req[r].op = "act" => req[r].key \in Keys /\ row' \in Resolutions(row, req[r].key)
         /\ req[r].op = "opening" => row.pending /\ row' = Opened(row)
         /\ req[r].op = "creation" => row' = Built(row)
         /\ req[r].op = "draft" => row' = row
         /\ req[r].op \in {"act", "opening", "creation", "draft"}
<1>1. Owed(req[r], row, saves) /\ req[r].at = "store" /\ row' = req[r].work
  BY OnlyBusy DEF Stores, Idle
<1>2. req[r].op = "act" => req[r].key \in Keys
  BY <1>1, ShapedRequests DEF Shaped, Idle
<1> QED BY <1>1, <1>2 DEF Owed

\* The first page of a journey is written at most once: in serial use no
\* opening is stored over a written page, and of everything a request stores
\* only a new sheet makes the page due again.
THEOREM SerialOpenings ==
  ASSUME Serial
  PROVE  Spec => OpeningWrittenOnce
<1>1. ASSUME NEW r \in Requests, TypeOK, SerialInv, Stores(r), ~row.pending
      PROVE  req[r].op # "opening" /\ (row'.pending => req[r].op = "creation")
  <2>1. row \in Board
    BY <1>1 DEF TypeOK
  <2>2. CASE req[r].op = "act"
    BY <1>1, <2>1, <2>2, SerialStores, ResolutionApplies
  <2>3. CASE req[r].op # "act"
    BY <1>1, <2>3, SerialStores
  <2> QED BY <2>2, <2>3
<1>2. TypeOK /\ SerialInv /\ [Next]_vars
        => [\A r \in Requests : Stores(r) /\ ~row.pending =>
             req[r].op # "opening" /\ (row'.pending => req[r].op = "creation")]_vars
  BY <1>1
<1>3. SerialInv /\ TypeOK /\ [Next]_vars => SerialInv'
  BY SerialInvNext
<1> QED
  BY <1>2, <1>3, SerialInvInit, TypeCorrect, PTL DEF Spec, OpeningWrittenOnce

\* The functions on boards that are not beats leave what was applied and what
\* was finished alone, or begin with nothing.
LEMMA QuietBoards ==
  ASSUME NEW b \in Board
  PROVE  /\ Opened(b).applied = b.applied /\ Opened(b).completed = b.completed
         /\ Built(b).applied = b.applied /\ Built(b).completed = b.completed
         /\ \A k \in Keys : NewJourney(b).applied[k] = 0
  BY DEF Opened, Built, NewJourney, SeededState, Board

\* A player who waits for every answer never has a committed action taken out
\* of the live state by a later store.
THEOREM SerialActionsStay ==
  ASSUME Serial
  PROVE  Spec => ResolvedStays
<1>1. ASSUME NEW r \in Requests, NEW k \in Keys, TypeOK, SerialInv, Stores(r)
      PROVE  row'.applied[k] >= row.applied[k]
  <2>1. row \in Board /\ row.applied[k] \in Nat
    BY <1>1 DEF TypeOK, Board
  <2>2. CASE req[r].op = "act"
    BY <1>1, <2>1, <2>2, SerialStores, ResolutionBoards
  <2>3. CASE req[r].op # "act"
    <3>1. row'.applied = row.applied
      BY <1>1, <2>1, <2>3, SerialStores, QuietBoards
    <3> QED BY <2>1, <3>1
  <2> QED BY <2>2, <2>3
<1>2. TypeOK /\ SerialInv /\ [Next]_vars
        => [\A r \in Requests, k \in Keys :
              Stores(r) => row'.applied[k] >= row.applied[k]]_vars
  BY <1>1
<1>3. SerialInv /\ TypeOK /\ [Next]_vars => SerialInv'
  BY SerialInvNext
<1> QED
  BY <1>2, <1>3, SerialInvInit, TypeCorrect, PTL DEF Spec, ResolvedStays

\* When an act writes its ledger entry the campaign of a finished arc is
\* marked: by this act, or by the act whose request died before marking it.
THEOREM SerialActsSettle ==
  ASSUME Serial
  PROVE  Spec => []ActSettlesStatus
<1>1. KeptInv => ActSettlesStatus
  BY DEF KeptInv, Kept, ActSettlesStatus, Busy, Idle
<1>2. SerialInv /\ TypeOK /\ [Next]_vars => SerialInv'
  BY SerialInvNext
<1>3. SerialInv /\ TypeOK /\ KeptInv /\ [Next]_vars => KeptInv'
  BY KeptInvNext
<1> QED
  BY <1>1, <1>2, <1>3, SerialInvInit, KeptInvInit, TypeCorrect, PTL DEF Spec

\* While one request is under way the only steps are its own.
LEMMA AutosaveSteps ==
  ASSUME Serial, TypeOK, SerialInv, Next, NEW r \in Requests,
         req[r].at = "autosave", req'[r].at = "settle"
  PROVE  saves' = saves \cup {row}
<1>1. Busy = {r}
  BY OnlyBusy DEF Idle
<1>2. req' # req /\ req'[r] # NoRequest
  BY DEF NoRequest, Idle
<1>3. ASSUME NEW p \in Requests, Act(p) \/ Store(p) \/ Journey(p) \/ Sheet(p)
                \/ LoadOpening(p) \/ Narrated(p) \/ NarrationFails(p) \/ Die(p)
      PROVE  saves' = saves \cup {row}
  <2>1. CASE p = r
    <3>1. ~Die(r)
      BY <1>2 DEF Die, Finish, TypeOK
    <3> QED BY <1>3, <2>1, <3>1
        DEF Act, LoadAct, Replay, RecallMisses, ThrowExpired, CheckCalled, Resolve, Autosave,
            Settle, Remember, RememberRefused, Store, Journey, LoadRestart, Shelve, Reset,
            Sheet, LoadCreation, ApplyCreation, LoadDraft, LoadOpening, Narrated,
            NarrationFails, Start, Idle
  <2>2. CASE p # r
    <3>1. req[p].at = Idle /\ ~MayStart("act")
      BY <1>1, <2>2 DEF Busy, MayStart
    <3>2. \A op : ~MayStart(op)
      BY <1>1 DEF MayStart
    <3> QED BY <1>3, <3>1, <3>2
        DEF Act, LoadAct, Replay, RecallMisses, ThrowExpired, CheckCalled, Resolve, Autosave,
            Settle, Remember, RememberRefused, Store, Journey, LoadRestart, Shelve, Reset,
            Sheet, LoadCreation, ApplyCreation, LoadDraft, LoadOpening, Narrated,
            NarrationFails, Die, Start, Idle
  <2> QED BY <2>1, <2>2
<1> QED BY <1>1, <1>2, <1>3 DEF Next, CreateSave, DeleteSave, RestoreSave

\* The autosave of a beat holds that beat: the second commit, which reads the
\* row again, reads what the first one wrote.
THEOREM SerialAutosaves ==
  ASSUME Serial
  PROVE  Spec => AutosaveHoldsTheBeat
<1>1. ASSUME NEW r \in Requests, TypeOK, SerialInv, KeptInv, [Next]_vars,
             req[r].at = "autosave", req'[r].at = "settle"
      PROVE  \E page \in saves' : page.applied[req[r].key] > 0
  <2>1. Next
    BY <1>1 DEF vars
  <2>2. row \in saves'
    BY <1>1, <2>1, AutosaveSteps
  <2>3. row.applied[req[r].key] > 0
    BY <1>1, OnlyBusy DEF KeptInv, Kept, Idle
  <2> QED BY <2>2, <2>3
<1>2. TypeOK /\ SerialInv /\ KeptInv /\ [Next]_vars
        => [\A r \in Requests :
              req[r].at = "autosave" /\ req'[r].at = "settle" =>
                \E page \in saves' : page.applied[req[r].key] > 0]_vars
  BY <1>1
<1>3. SerialInv /\ TypeOK /\ [Next]_vars => SerialInv'
  BY SerialInvNext
<1>4. SerialInv /\ TypeOK /\ KeptInv /\ [Next]_vars => KeptInv'
  BY KeptInvNext
<1> QED
  BY <1>2, <1>3, <1>4, SerialInvInit, KeptInvInit, TypeCorrect, PTL
  DEF Spec, AutosaveHoldsTheBeat

-----------------------------------------------------------------------------
(***************************************************************************)
(* Without stepping back to a saved page, the rows follow the board.       *)
(***************************************************************************)

FollowInv == LedgerCurrent /\ StatusTruthful /\ MirrorMatches

LEMMA FollowInvInit == Init => FollowInv
  BY DEF Init, FollowInv, LedgerCurrent, StatusTruthful, MirrorMatches, Remembered, SeededState

LEMMA FollowInvNext ==
  ASSUME Serial, "restore" \notin Ops, TypeOK, SerialInv, KeptInv, FollowInv, [Next]_vars
  PROVE  FollowInv'
<1> USE DEF rows
<1>0. row \in Board /\ (\A k \in Keys : row.applied[k] \in Nat) /\ ledger \subseteq Keys \X Legs
  BY DEF TypeOK, Board
<1>1. ASSUME UNCHANGED <<row, ledger, status, mirror>> PROVE FollowInv'
  BY <1>1 DEF FollowInv, LedgerCurrent, StatusTruthful, MirrorMatches
<1>2. ASSUME NEW r \in Requests, Store(r) PROVE FollowInv'
  <2>1. /\ row' = req[r].work /\ mirror' = mirror \cup Remembered(row')
        /\ ledger' = ledger /\ status' = status
    BY <1>2 DEF Store
  <2>2. /\ \A k \in Keys : row'.applied[k] \in Nat /\ row'.applied[k] >= row.applied[k]
        /\ row.completed => row'.completed
    <3>2. /\ req[r].op = "act" => req[r].key \in Keys /\ row' \in Resolutions(row, req[r].key)
          /\ req[r].op # "act" => row' \in {Opened(row), Built(row), row}
      <4>1. Owed(req[r], row, saves) /\ req[r].at = "store" /\ Shaped(req[r])
        BY <1>2, OnlyBusy, ShapedRequests DEF Store, Idle
      <4> QED BY <2>1, <4>1 DEF Owed, Shaped, Idle
    <3>3. CASE req[r].op = "act"
      BY <1>0, <3>2, <3>3, ResolutionBoards, ResolutionApplies DEF Board
    <3>4. CASE req[r].op # "act"
      <4>1. row'.applied = row.applied /\ row'.completed = row.completed
        BY <1>0, <3>2, <3>4, QuietBoards
      <4> QED BY <1>0, <4>1
    <3> QED BY <3>3, <3>4
  <2>3. LedgerCurrent'
    BY <1>0, <2>1, <2>2 DEF FollowInv, LedgerCurrent
  <2>4. Remembered(row) \subseteq Remembered(row')
    BY <1>0, <2>2 DEF Remembered
  <2> QED BY <2>1, <2>2, <2>3, <2>4 DEF FollowInv, StatusTruthful, MirrorMatches
<1>3. ASSUME NEW r \in Requests, Settle(r) PROVE FollowInv'
  <2>1. req[r].work = row
    BY <1>3, OnlyBusy DEF Settle, KeptInv, Kept, Idle
  <2> QED BY <1>3, <2>1 DEF Settle, FollowInv, LedgerCurrent, StatusTruthful, MirrorMatches
<1>4. ASSUME NEW r \in Requests, Remember(r) PROVE FollowInv'
  <2>1. row.applied[req[r].key] > 0
    BY <1>4, OnlyBusy DEF Remember, KeptInv, Kept, Idle
  <2> QED BY <1>4, <2>1 DEF Remember, FollowInv, LedgerCurrent, StatusTruthful, MirrorMatches
<1>5. ASSUME NEW r \in Requests, Reset(r) PROVE FollowInv'
  <2>1. row' = NewJourney(row) /\ ledger' = {} /\ mirror' = {} /\ status' = "active"
    BY <1>5, OnlyBusy DEF Reset, Owed, ActSteps, Idle
  <2>2. Remembered(row') = {}
    BY <1>0, <2>1, QuietBoards DEF Remembered
  <2> QED BY <2>1, <2>2 DEF FollowInv, LedgerCurrent, StatusTruthful, MirrorMatches
<1>6. ASSUME NEW r \in Requests,
             \/ LoadAct(r) \/ Replay(r) \/ RecallMisses(r) \/ ThrowExpired(r)
             \/ CheckCalled(r) \/ Resolve(r) \/ Autosave(r) \/ RememberRefused(r)
             \/ LoadOpening(r) \/ Narrated(r) \/ NarrationFails(r)
             \/ Sheet(r) \/ LoadRestart(r) \/ Shelve(r) \/ Die(r)
      PROVE  UNCHANGED <<row, ledger, status, mirror>>
  BY <1>6
  DEF LoadAct, Replay, RecallMisses, ThrowExpired, CheckCalled, Resolve, Autosave,
      RememberRefused, LoadOpening, Narrated, NarrationFails, Sheet, LoadCreation,
      ApplyCreation, LoadDraft, LoadRestart, Shelve, Die
<1>7. CASE CreateSave \/ DeleteSave \/ RestoreSave
  BY <1>1, <1>7 DEF CreateSave, DeleteSave, RestoreSave, MayStart
<1>8. CASE UNCHANGED vars
  BY <1>1, <1>8 DEF vars
<1> QED BY <1>1, <1>2, <1>3, <1>4, <1>5, <1>6, <1>7, <1>8 DEF Next, Act, Journey

\* The invariants of the serial session, together.
LEMMA SerialInvariants ==
  ASSUME Serial, "restore" \notin Ops
  PROVE  Spec => [](TypeOK /\ SerialInv /\ KeptInv /\ FollowInv)
<1>1. SerialInv /\ TypeOK /\ [Next]_vars => SerialInv'
  BY SerialInvNext
<1>2. SerialInv /\ TypeOK /\ KeptInv /\ [Next]_vars => KeptInv'
  BY KeptInvNext
<1>3. SerialInv /\ TypeOK /\ KeptInv /\ FollowInv /\ [Next]_vars => FollowInv'
  BY FollowInvNext
<1> QED
  BY <1>1, <1>2, <1>3, SerialInvInit, KeptInvInit, FollowInvInit, TypeCorrect, PTL DEF Spec

\* Every action the ledger would answer for is in the live state: the journey
\* that a restart ends takes its answers along.
THEOREM SerialLedgerCurrent ==
  ASSUME Serial, "restore" \notin Ops
  PROVE  Spec => []LedgerCurrent
BY SerialInvariants, PTL DEF FollowInv

\* The campaign is marked completed only over a finished arc.
THEOREM SerialStatusTruthful ==
  ASSUME Serial, "restore" \notin Ops
  PROVE  Spec => []StatusTruthful
BY SerialInvariants, PTL DEF FollowInv

\* The mirror tables hold exactly what the live state remembers.
THEOREM SerialMirrorMatches ==
  ASSUME Serial, "restore" \notin Ops
  PROVE  Spec => []MirrorMatches
BY SerialInvariants, PTL DEF FollowInv

-----------------------------------------------------------------------------
(***************************************************************************)
(* When no request dies, no action is applied twice in one journey.        *)
(***************************************************************************)

\* The leg under which a page that holds h sends its action (again).
LegOf(h) == IF h = NoCheck THEN "call" ELSE "throw"

\* What keeps an action from being resolved a second time, with q the only
\* request that may be under way, b the board, l the ledger and c the pages:
\* the page of an applied action has its answer, or the leg it would send is in
\* the ledger or on its way there; and an action on its way to the store is not
\* applied yet.
Once(q, b, l, c) ==
    /\ \A k \in Keys : b.applied[k] > 0 =>
         \/ c[k] = Answered
         \/ <<k, LegOf(c[k])>> \in l
         \/ /\ q.at \in {"autosave", "settle", "remember"}
            /\ q.key = k /\ q.leg = LegOf(c[k])
    /\ q.op = "act" /\ q.at # Idle =>
         /\ c[q.key] # Answered
         /\ q.leg = LegOf(c[q.key])
         /\ q.at \in {"think", "store"} => b.applied[q.key] = 0

OnceInv ==
    /\ AppliedAtMostOnce
    /\ \A r \in Requests : Busy \subseteq {r} => Once(req[r], row, ledger, client)

\* OnceInv after a step of the only request under way.
LEMMA OnceUpdate ==
  ASSUME TypeOK, NEW r \in Requests, Busy \subseteq {r},
         NEW q, req' = [req EXCEPT ![r] = q],
         AppliedAtMostOnce', Once(q, row', ledger', client')
  PROVE  OnceInv'
<1>1. /\ req'[r] = q
      /\ \A p \in Requests \ {r} : req'[p] = req[p] /\ req[p].at = Idle
  BY DEF TypeOK, Busy
<1>2. ASSUME NEW p \in Requests, Busy' \subseteq {p}, p # r
      PROVE  Once(req'[p], row', ledger', client')
  <2>1. req'[p].at = Idle /\ q.at = Idle
    BY <1>1, <1>2 DEF Busy
  <2> QED BY <2>1 DEF Once, Idle
<1> QED BY <1>1, <1>2 DEF OnceInv

LEMMA OnceOnly ==
  ASSUME SerialInv, OnceInv, NEW r \in Requests, req[r].at # Idle
  PROVE  Busy = {r} /\ Once(req[r], row, ledger, client)
  BY OnlyBusy DEF OnceInv

\* A request that ends before it is stored leaves the board, the ledger and
\* what the pages hold as they are, or its own page has its answer.
LEMMA OnceFinish ==
  ASSUME TypeOK, SerialInv, OnceInv, NEW r \in Requests, req[r].at # Idle, Finish(r),
         req[r].at \notin {"autosave", "settle", "remember"},
         row' = row, ledger' = ledger,
         \/ client' = client
         \/ req[r].key \in Keys /\ client' = [client EXCEPT ![req[r].key] = Answered]
  PROVE  OnceInv'
<1>1. Busy = {r} /\ Once(req[r], row, ledger, client)
  BY OnceOnly
<1>2. AppliedAtMostOnce'
  BY DEF OnceInv, AppliedAtMostOnce
<1>3. \A k \in Keys : client'[k] = client[k] \/ client'[k] = Answered
  BY DEF TypeOK
<1>4. Once(NoRequest, row', ledger', client')
  BY <1>1, <1>3 DEF Once, NoRequest
<1> QED BY <1>1, <1>2, <1>4, OnceUpdate DEF Finish

\* A request of another operation begins, or one goes on.
LEMMA OnceGoto ==
  ASSUME TypeOK, OnceInv, NEW r \in Requests, Busy \subseteq {r}, NEW q,
         req' = [req EXCEPT ![r] = q], row' = row, ledger' = ledger, client' = client,
         \/ q.op # "act" /\ req[r].at \notin {"autosave", "settle", "remember"}
         \/ /\ req[r].at \in {"autosave", "settle"} /\ q.at \in {"settle", "remember"}
            /\ q.op = req[r].op /\ q.key = req[r].key /\ q.leg = req[r].leg
  PROVE  OnceInv'
<1>1. Once(req[r], row, ledger, client)
  BY DEF OnceInv
<1>2. AppliedAtMostOnce'
  BY DEF OnceInv, AppliedAtMostOnce
<1>3. Once(q, row', ledger', client')
  BY <1>1 DEF Once, Idle
<1> QED BY <1>2, <1>3, OnceUpdate

LEMMA OnceInvInit == Init => OnceInv
  BY DEF Init, OnceInv, Once, AppliedAtMostOnce, NoRequest, SeededState, Idle

LEMMA OnceStart ==
  ASSUME Serial, TypeOK, OnceInv, NEW r \in Requests, NEW op \in AllOps \ {"act"},
         NEW at, NEW work, Start(r, op, at, work),
         row' = row, ledger' = ledger, client' = client
  PROVE  OnceInv'
<1> DEFINE q == [NoRequest EXCEPT !.at = at, !.op = op, !.base = row, !.work = work]
<1>1. /\ Busy \subseteq {r} /\ req' = [req EXCEPT ![r] = q] /\ req[r].at = Idle
      /\ q.op # "act"
  BY DEF Start, MayStart, NoRequest
<1> HIDE DEF q
<1> QED BY <1>1, OnceGoto DEF Idle

\* A beat is stored: its action is applied for the first time.
LEMMA OnceStore ==
  ASSUME TypeOK, SerialInv, OnceInv, NEW r \in Requests, Store(r)
  PROVE  OnceInv'
<1> DEFINE q == IF AfterStore(req[r]) = Idle THEN NoRequest
                ELSE [req[r] EXCEPT !.at = AfterStore(req[r])]
<1>1. /\ req' = [req EXCEPT ![r] = q] /\ Busy = {r} /\ Owed(req[r], row, saves)
      /\ req[r].at = "store" /\ row' = req[r].work /\ ledger' = ledger /\ client' = client
  BY OnlyBusy DEF Store, Idle
<1>2. Shaped(req[r]) /\ row \in Board /\ Once(req[r], row, ledger, client)
  BY <1>1, ShapedRequests, OnceOnly DEF TypeOK, Idle
<1>3. CASE req[r].op = "act"
  <2>1. /\ req[r].key \in Keys /\ row' \in Resolutions(row, req[r].key)
        /\ row.applied[req[r].key] = 0
        /\ client[req[r].key] # Answered /\ req[r].leg = LegOf(client[req[r].key])
    BY <1>1, <1>2, <1>3 DEF Owed, Shaped, Once, Idle
  <2>2. /\ q.at \in {"autosave", "settle"} /\ q.op = "act"
        /\ q.key = req[r].key /\ q.leg = req[r].leg
    BY <1>2, <1>3 DEF AfterStore, Shaped, Request, Idle
  <2> HIDE DEF q
  <2>3. /\ row'.applied[req[r].key] = 1
        /\ \A k \in Keys \ {req[r].key} : row'.applied[k] = row.applied[k]
    BY <1>2, <2>1, ResolutionApplies
  <2>4. AppliedAtMostOnce'
    BY <2>1, <2>3 DEF OnceInv, AppliedAtMostOnce
  <2>5. Once(q, row', ledger', client')
    BY <1>1, <1>2, <2>1, <2>2, <2>3 DEF Once, Idle
  <2> QED BY <1>1, <2>4, <2>5, OnceUpdate
<1>4. CASE req[r].op # "act"
  <2>1. q = NoRequest
    BY <1>4 DEF AfterStore
  <2>2. row' \in {Opened(row), Built(row), row}
    BY <1>1, <1>4 DEF Owed
  <2>3. row'.applied = row.applied
    BY <1>2, <2>2, QuietBoards
  <2>4. AppliedAtMostOnce'
    BY <2>3 DEF OnceInv, AppliedAtMostOnce
  <2>5. Once(NoRequest, row', ledger', client')
    BY <1>1, <1>2, <2>3 DEF Once, NoRequest, Idle
  <2> QED BY <1>1, <2>1, <2>4, <2>5, OnceUpdate
<1> QED BY <1>3, <1>4

LEMMA OnceInvNext ==
  ASSUME Serial, ~Faults, "restore" \notin Ops, TypeOK, SerialInv, OnceInv, [Next]_vars
  PROVE  OnceInv'
<1> USE DEF rows
<1>1. ASSUME NEW r \in Requests, Act(r) PROVE OnceInv'
  <2>1. CASE LoadAct(r)
    <3>1. PICK k \in Keys :
            /\ client[k] # Answered
            /\ req' = [req EXCEPT ![r] =
                 [NoRequest EXCEPT !.at = "recall", !.key = k, !.base = row,
                    !.leg = IF client[k] = NoCheck THEN "call" ELSE "throw",
                    !.token = client[k]]]
      BY <2>1 DEF LoadAct
    <3> DEFINE q == [NoRequest EXCEPT !.at = "recall", !.key = k, !.base = row,
                 !.leg = IF client[k] = NoCheck THEN "call" ELSE "throw",
                 !.token = client[k]]
    <3>2. /\ Busy \subseteq {r} /\ req[r].at = Idle
          /\ row' = row /\ ledger' = ledger /\ client' = client
      BY <2>1 DEF LoadAct, MayStart
    <3>3. Once(req[r], row, ledger, client) /\ AppliedAtMostOnce'
      BY <3>2 DEF OnceInv, AppliedAtMostOnce
    <3>4. q.at = "recall" /\ q.key = k /\ q.leg = LegOf(client[k])
      BY DEF NoRequest, LegOf
    <3> HIDE DEF q
    <3>5. Once(q, row', ledger', client')
      BY <3>1, <3>2, <3>3, <3>4 DEF Once, Idle
    <3>6. req' = [req EXCEPT ![r] = q]
      BY <3>1 DEF q
    <3> QED BY <3>2, <3>3, <3>5, <3>6, OnceUpdate
  <2>2. CASE Replay(r) \/ ThrowExpired(r)
    <3>1. req[r].key \in Keys
      BY <2>2, ShapedRequests DEF Replay, ThrowExpired, Shaped, ActSteps, Idle
    <3> QED BY <2>2, <3>1, OnceFinish DEF Replay, ThrowExpired, Answer, Idle
  <2>3. CASE RecallMisses(r)
    <3> DEFINE q == [req[r] EXCEPT !.at = "think"]
    <3>1. /\ Busy = {r} /\ Once(req[r], row, ledger, client) /\ Shaped(req[r])
          /\ req[r].at = "recall" /\ <<req[r].key, req[r].leg>> \notin ledger
          /\ req' = [req EXCEPT ![r] = q]
          /\ row' = row /\ ledger' = ledger /\ client' = client
      BY <2>3, OnceOnly, ShapedRequests DEF RecallMisses, Goto, Idle
    <3>2. /\ q.at = "think" /\ q.op = req[r].op /\ q.key = req[r].key /\ q.leg = req[r].leg
      BY <3>1 DEF Shaped, Request
    <3> HIDE DEF q
    <3>3. req[r].op = "act" /\ req[r].key \in Keys
      BY <3>1 DEF Shaped, ActSteps, Idle
    <3>4. row.applied[req[r].key] = 0
      <4>1. ~(row.applied[req[r].key] > 0)
        BY <3>1, <3>3 DEF Once, Idle
      <4>2. row.applied[req[r].key] \in Nat
        BY <3>3 DEF TypeOK, Board
      <4> QED BY <4>1, <4>2
    <3>5. Once(q, row', ledger', client')
      BY <3>1, <3>2, <3>3, <3>4 DEF Once, Idle
    <3>6. AppliedAtMostOnce'
      BY <3>1 DEF OnceInv, AppliedAtMostOnce
    <3> QED BY <3>1, <3>5, <3>6, OnceUpdate
  <2>4. CASE CheckCalled(r)
    <3>1. /\ Busy = {r} /\ Once(req[r], row, ledger, client) /\ Shaped(req[r])
          /\ req[r].at = "think" /\ req' = [req EXCEPT ![r] = NoRequest]
          /\ row' = row /\ ledger' = ledger
          /\ \A k \in Keys \ {req[r].key} : client'[k] = client[k]
      BY <2>4, OnceOnly, ShapedRequests DEF CheckCalled, Answer, Finish, TypeOK, Idle
    <3>2. row.applied[req[r].key] = 0
      BY <3>1 DEF Shaped, Once, ActSteps, Idle
    <3>3. Once(NoRequest, row', ledger', client')
      BY <3>1, <3>2 DEF Once, NoRequest
    <3>4. AppliedAtMostOnce'
      BY <3>1 DEF OnceInv, AppliedAtMostOnce
    <3> QED BY <3>1, <3>3, <3>4, OnceUpdate
  <2>5. CASE Resolve(r)
    <3>1. PICK b \in Resolutions(req[r].base, req[r].key), autosaves \in BOOLEAN :
            req' = [req EXCEPT ![r].at = "store", ![r].work = b, ![r].ckpt = autosaves]
      BY <2>5 DEF Resolve
    <3> DEFINE q == [req[r] EXCEPT !.at = "store", !.work = b, !.ckpt = autosaves]
    <3>2. /\ Busy = {r} /\ Once(req[r], row, ledger, client) /\ Shaped(req[r])
          /\ req[r].at = "think" /\ req' = [req EXCEPT ![r] = q]
          /\ row' = row /\ ledger' = ledger /\ client' = client
      BY <2>5, <3>1, OnceOnly, ShapedRequests, ZenonT(60) DEF Resolve, Idle
    <3>3. q.at = "store" /\ q.op = req[r].op /\ q.key = req[r].key /\ q.leg = req[r].leg
      BY <3>2 DEF Shaped, Request
    <3> HIDE DEF q
    <3>4. Once(q, row', ledger', client')
      BY <3>2, <3>3 DEF Once, Idle
    <3>5. AppliedAtMostOnce'
      BY <3>2 DEF OnceInv, AppliedAtMostOnce
    <3> QED BY <3>2, <3>4, <3>5, OnceUpdate
  <2>6. CASE Autosave(r) \/ Settle(r)
    <3>1. PICK at \in {"settle", "remember"} : Goto(r, at)
      BY <2>6 DEF Autosave, Settle
    <3> DEFINE q == [req[r] EXCEPT !.at = at]
    <3>2. /\ Busy = {r} /\ req[r] \in Request /\ req[r].at \in {"autosave", "settle"}
          /\ row' = row /\ ledger' = ledger /\ client' = client
      BY <2>6, OnlyBusy, ShapedRequests DEF Autosave, Settle, Shaped, Idle
    <3>3. q.at = at /\ q.op = req[r].op /\ q.key = req[r].key /\ q.leg = req[r].leg
      BY <3>2 DEF Request
    <3>4. req' = [req EXCEPT ![r] = q]
      BY <3>1 DEF Goto
    <3> HIDE DEF q
    <3> QED BY <3>2, <3>3, <3>4, OnceGoto
  <2>7. CASE Remember(r) \/ RememberRefused(r)
    <3>1. /\ Busy = {r} /\ Once(req[r], row, ledger, client) /\ Shaped(req[r])
          /\ req[r].at = "remember" /\ req' = [req EXCEPT ![r] = NoRequest]
          /\ row' = row /\ ledger \subseteq ledger'
          /\ <<req[r].key, req[r].leg>> \in ledger'
          /\ \/ client' = client
             \/ client' = [client EXCEPT ![req[r].key] = Answered]
      BY <2>7, OnceOnly, ShapedRequests
      DEF Remember, RememberRefused, Answer, Finish, Idle
    <3>2. \A k \in Keys : client'[k] = client[k] \/ client'[k] = Answered
      BY <3>1 DEF TypeOK
    <3>3. Once(NoRequest, row', ledger', client')
      BY <3>1, <3>2 DEF Once, NoRequest, Idle
    <3>4. AppliedAtMostOnce'
      BY <3>1 DEF OnceInv, AppliedAtMostOnce
    <3> QED BY <3>1, <3>3, <3>4, OnceUpdate
  <2> QED BY <1>1, <2>1, <2>2, <2>3, <2>4, <2>5, <2>6, <2>7 DEF Act
<1>2. ASSUME NEW r \in Requests, Store(r) PROVE OnceInv'
  BY <1>2, OnceStore
<1>3. ASSUME NEW r \in Requests,
             LoadOpening(r) \/ LoadCreation(r) \/ LoadDraft(r) \/ LoadRestart(r)
      PROVE  OnceInv'
  BY <1>3, OnceStart DEF LoadOpening, LoadCreation, LoadDraft, LoadRestart, AllOps
<1>4. ASSUME NEW r \in Requests, Narrated(r) \/ ApplyCreation(r) \/ Shelve(r)
      PROVE  OnceInv'
  <2>1. PICK at \in {"store", "reset"} : Goto(r, at)
    BY <1>4 DEF Narrated, ApplyCreation, Shelve
  <2> DEFINE q == [req[r] EXCEPT !.at = at]
  <2>2. /\ Busy = {r} /\ req[r] \in Request /\ Owed(req[r], row, saves)
        /\ req[r].at \in {"narrate", "rows", "shelve"}
        /\ row' = row /\ ledger' = ledger /\ client' = client
    BY <1>4, OnlyBusy, ShapedRequests DEF Narrated, ApplyCreation, Shelve, Shaped, Idle
  <2>3. q.op = req[r].op /\ req[r].op # "act"
    BY <2>2 DEF Request, Owed, ActSteps
  <2>4. req' = [req EXCEPT ![r] = q]
    BY <2>1 DEF Goto
  <2> HIDE DEF q
  <2> QED BY <2>2, <2>3, <2>4, OnceGoto
<1>5. ASSUME NEW r \in Requests, NarrationFails(r) PROVE OnceInv'
  BY <1>5, OnceFinish DEF NarrationFails, Idle
<1>6. ASSUME NEW r \in Requests, Reset(r) PROVE OnceInv'
  <2>1. /\ Busy = {r} /\ row' = NewJourney(row) /\ row \in Board
        /\ req' = [req EXCEPT ![r] = NoRequest]
    BY <1>6, OnlyBusy DEF Reset, Owed, ActSteps, Finish, TypeOK, Idle
  <2>2. \A k \in Keys : row'.applied[k] = 0
    BY <2>1, QuietBoards
  <2>3. AppliedAtMostOnce' /\ Once(NoRequest, row', ledger', client')
    BY <2>2 DEF AppliedAtMostOnce, Once, NoRequest
  <2> QED BY <2>1, <2>3, OnceUpdate
<1>7. CASE CreateSave \/ DeleteSave \/ RestoreSave
  <2>1. UNCHANGED <<row, ledger, client, req>>
    BY <1>7 DEF CreateSave, DeleteSave, RestoreSave, MayStart
  <2> QED BY <2>1 DEF OnceInv, AppliedAtMostOnce, Busy
<1>8. CASE UNCHANGED vars
  BY <1>8 DEF vars, OnceInv, AppliedAtMostOnce, Busy
<1>9. \A r \in Requests : ~Die(r)
  BY DEF Die
<1> QED
  BY <1>1, <1>2, <1>3, <1>4, <1>5, <1>6, <1>7, <1>8, <1>9 DEF Next, Sheet, Journey

\* A retried submit never double-applies, as long as no request dies between
\* its store and its ledger entry, the player waits for every answer and does
\* not step back to a saved page: whatever answers are lost on the way.
THEOREM SerialAppliesOnce ==
  ASSUME Serial, ~Faults, "restore" \notin Ops
  PROVE  Spec => []AppliedAtMostOnce
<1>1. OnceInv => AppliedAtMostOnce
  BY DEF OnceInv
<1>2. SerialInv /\ TypeOK /\ [Next]_vars => SerialInv'
  BY SerialInvNext
<1>3. SerialInv /\ TypeOK /\ OnceInv /\ [Next]_vars => OnceInv'
  BY OnceInvNext
<1> QED
  BY <1>1, <1>2, <1>3, SerialInvInit, OnceInvInit, TypeCorrect, PTL DEF Spec
=============================================================================
