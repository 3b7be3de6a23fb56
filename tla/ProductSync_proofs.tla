------------------------- MODULE ProductSync_proofs -------------------------
(***************************************************************************)
(* Proofs about ProductSync, for every set of browsers, operations and     *)
(* requests, every catalogue bound and every batch size.                   *)
(***************************************************************************)
EXTENDS ProductSync, TLAPS

\* The local variables of a batch stay in range: a batch that is still reading
\* has a page to read, and the one that met the short page has passed it.
SweepRange ==
  \A r \in Request : InSweep(r) =>
    /\ req[r].cp.page <= req[r].page
    /\ req[r].natural => req[r].cp.page < req[r].page
    /\ ~req[r].natural => req[r].page <= MaxPage

\* Only a page with an operation id waits for an answer.
WaitingHasOp == \A b \in Browser : browser[b].req # Nobody => browser[b].op # NoOp

Typed == TypeOK /\ SweepRange /\ WaitingHasOp

LEMMA IdleTyped == IdleRequest \in RequestState
  BY PageAssumption, SMT
     DEF IdleRequest, RequestState, NoRow, Row, Owner, Page, Kind, Phase, Result,
         Written, Raised

\* The rows a claim and the end of a batch write are rows.
LEMMA ClaimedTyped ==
  ASSUME NEW cp \in Row, NEW o \in Op \cup {NoOp}
  PROVE  Claimed(cp, o) \in Row /\ Restarted(cp) \in Row
  <1>1. Restarted(cp) \in Row
    <2>1. CASE Unfinished(cp)
      BY <2>1 DEF Restarted, Unfinished
    <2>2. CASE ~Unfinished(cp)
      <3>1. 1 \in Page /\ 0 \in 0 .. MaxPage /\ 0 \in Nat
        BY PageAssumption DEF Page
      <3>2. [cp EXCEPT !.page = 1, !.lastDone = 0, !.processed = 0, !.failed = 0] \in Row
        BY <3>1 DEF Row
      <3>3. QED
        BY <2>2, <3>2 DEF Restarted, Unfinished
    <2>3. QED
      BY <2>1, <2>2
  <1>2. OwnerFor(o) \in Owner
    BY DEF Owner, OwnerFor
  <1>3. QED
    BY <1>1, <1>2 DEF Claimed, Row

LEMMA CheckpointedTyped ==
  ASSUME NEW q \in RequestState,
         q.natural => q.page > 1,
         ~q.natural => q.page <= MaxPage
  PROVE  Checkpointed(q) \in Row
  <1>1. q.cp \in Row /\ q.page \in 1 .. MaxPage + 1 /\ q.processed \in Nat
    BY DEF RequestState
  <1>2. NextPosition(q) \in Page /\ q.page - 1 \in 0 .. MaxPage
    BY <1>1, PageAssumption DEF NextPosition, Page
  <1>3. q.cp.processed + q.processed \in Nat
    BY <1>1 DEF Row
  <1>4. q.cp.failed + Failures(q) \in Nat
    BY <1>1 DEF Row, Failures
  <1>5. QED
    BY <1>1, <1>2, <1>3, <1>4 DEF Checkpointed, Row

LEMMA InitTyped == Init => Typed
  BY IdleTyped, PageAssumption, TroubleAssumption, SMT
     DEF Init, Typed, TypeOK, SweepRange, WaitingHasOp, InSweep, NoRow, Row, Owner, Page, BrowserState,
         IdleRequest

LEMMA DisturbTyped ==
  ASSUME trouble \in 0 .. MaxTrouble, Disturb
  PROVE  trouble' \in 0 .. MaxTrouble
  BY TroubleAssumption DEF Disturb

LEMMA ArriveTyped ==
  ASSUME req \in [Request -> RequestState],
         NEW r \in Request, NEW kind \in Kind, NEW o \in Op \cup {NoOp},
         Arrive(r, kind, o)
  PROVE  /\ req' \in [Request -> RequestState]
         /\ req'[r] = [IdleRequest EXCEPT !.kind = kind, !.op = o,
                          !.phase = IF kind = "batch" THEN "lock" ELSE "claim"]
         /\ req'[r].phase \in {"lock", "claim"}
         /\ \A s \in Request \ {r} : req'[s] = req[s]
  <1> DEFINE q == [IdleRequest EXCEPT !.kind = kind, !.op = o,
                     !.phase = IF kind = "batch" THEN "lock" ELSE "claim"]
  <1>1. q \in RequestState
    BY IdleTyped DEF RequestState, Phase
  <1>2. q.phase \in {"lock", "claim"}
    BY IdleTyped DEF RequestState
  <1>3. req' = [req EXCEPT ![r] = q]
    BY DEF Arrive
  <1> HIDE DEF q
  <1>4. /\ req' \in [Request -> RequestState] /\ req'[r] = q
        /\ \A s \in Request \ {r} : req'[s] = req[s]
    BY <1>1, <1>3
  <1>5. QED
    BY <1>2, <1>4 DEF q

LEMMA MovedTyped ==
  ASSUME NEW q \in RequestState, NEW phase \in Phase, NEW result \in Result
  PROVE  [q EXCEPT !.phase = phase, !.result = result] \in RequestState
  BY DEF RequestState

LEMMA FailedTyped ==
  ASSUME NEW q \in RequestState
  PROVE  [q EXCEPT !.phase = "exit", !.result = "error"] \in RequestState
  <1>1. "exit" \in Phase /\ "error" \in Result
    BY DEF Phase, Result, Raised
  <1>2. QED
    BY <1>1, MovedTyped

\* What the steps of a batch do to the requests, field by field.
Requests == req \in [Request -> RequestState]

Others(r) == \A s \in Request \ {r} : req'[s] = req[s]

\* A claim that is refused or replayed.
LEMMA TurnedFields ==
  ASSUME Requests, NEW r \in Request, NEW x \in {"conflict", "replayed"},
         req' = [req EXCEPT ![r].result = x, ![r].phase = Unwind(req[r].kind)]
  PROVE  Requests' /\ Others(r) /\ req'[r].phase # "sweep"
  <1> DEFINE f == Unwind(req[r].kind)
             q == [req[r] EXCEPT !.result = x, !.phase = f]
  <1>1. req[r] \in RequestState
    BY DEF Requests
  <1>2. x \in Result /\ f \in Phase /\ f # "sweep"
    BY DEF Result, Raised, Unwind, Phase
  <1>3. req' = [req EXCEPT ![r] = q]
    OBVIOUS
  <1> HIDE DEF f
  <1>4. q \in RequestState /\ q.phase = f
    BY <1>1, <1>2 DEF RequestState
  <1> HIDE DEF q
  <1>5. QED
    BY <1>2, <1>3, <1>4 DEF Requests, Others

\* A claim that lets the request read pages.
LEMMA SweepingFields ==
  ASSUME Requests, checkpoint \in Row, stored \in SUBSET Page, NEW r \in Request, ClaimProducts(r),
         ~Refuses(checkpoint, req[r].op), ~Replays(checkpoint, req[r].op)
  PROVE  /\ Requests' /\ Others(r) /\ req'[r].op = req[r].op
         /\ req'[r].cp = Claimed(checkpoint, req[r].op)
         /\ req'[r].page = Restarted(checkpoint).page
         /\ req'[r].stored = IF Unfinished(checkpoint) THEN stored ELSE {}
         /\ req'[r].processed = 0 /\ req'[r].natural = FALSE /\ req'[r].failed = FALSE
         /\ req'[r].phase = "sweep"
  <1> DEFINE c == Claimed(checkpoint, req[r].op)
             first == Restarted(checkpoint).page
             pages == IF Unfinished(checkpoint) THEN stored ELSE {}
             q == [req[r] EXCEPT !.cp = c, !.page = first, !.stored = pages, !.processed = 0,
                                 !.natural = FALSE, !.failed = FALSE, !.phase = "sweep"]
  <1>1. req[r] \in RequestState /\ req[r].op \in Op \cup {NoOp}
    BY DEF Requests, RequestState
  <1>2. c \in Row /\ first \in Page /\ pages \in SUBSET Page
    BY <1>1, ClaimedTyped DEF Row
  <1>3. req' = [req EXCEPT ![r] = q]
    BY DEF ClaimProducts
  <1> HIDE DEF c, first, pages
  <1>4. first \in 1 .. MaxPage + 1 /\ "sweep" \in Phase /\ 0 \in Nat
    BY <1>2, PageAssumption DEF Page, Phase
  <1>5. q \in RequestState
    BY <1>1, <1>2, <1>4 DEF RequestState
  <1>6. /\ q.op = req[r].op /\ q.cp = c /\ q.page = first
        /\ q.stored = pages /\ q.processed = 0 /\ q.natural = FALSE /\ q.failed = FALSE
        /\ q.phase = "sweep"
    BY <1>1 DEF RequestState
  <1> HIDE DEF q
  <1>7. Requests' /\ Others(r) /\ req'[r] = q
    BY <1>3, <1>5 DEF Requests, Others
  <1>8. QED
    BY <1>6, <1>7 DEF c, first, pages

\* A page is stored.
LEMMA StoredFields ==
  ASSUME Requests, NEW r \in Request, req[r].page <= MaxPage, StorePage(r)
  PROVE  /\ Requests' /\ Others(r) /\ req'[r].phase = req[r].phase /\ req'[r].cp = req[r].cp
         /\ req'[r].page = req[r].page + 1 /\ req'[r].natural \in BOOLEAN
         /\ req[r].page = MaxPage => req'[r].natural
  <1>1. PICK short \in BOOLEAN :
          /\ req[r].page = MaxPage => short
          /\ req' = [req EXCEPT ![r].stored = @ \cup {req[r].page}, ![r].page = req[r].page + 1,
                                ![r].processed = @ + 1, ![r].natural = short]
    BY DEF StorePage
  <1> DEFINE pages == req[r].stored \cup {req[r].page}
             next == req[r].page + 1
             n == req[r].processed + 1
             q == [req[r] EXCEPT !.stored = pages, !.page = next, !.processed = n, !.natural = short]
  <1>2. /\ req[r] \in RequestState /\ req[r].page \in 1 .. MaxPage + 1
        /\ req[r].processed \in Nat /\ req[r].stored \in SUBSET Page
    BY DEF Requests, RequestState
  <1>3. pages \in SUBSET Page /\ next \in 1 .. MaxPage + 1 /\ n \in Nat
    BY <1>2, PageAssumption DEF Page
  <1>4. req' = [req EXCEPT ![r] = q]
    BY <1>1
  <1> HIDE DEF pages, next, n
  <1>5. /\ q \in RequestState /\ q.phase = req[r].phase /\ q.cp = req[r].cp
        /\ q.page = next /\ q.natural = short
    BY <1>2, <1>3 DEF RequestState
  <1> HIDE DEF q
  <1>6. Requests' /\ Others(r) /\ req'[r] = q
    BY <1>4, <1>5 DEF Requests, Others
  <1>7. QED
    BY <1>1, <1>5, <1>6 DEF next

\* A page fails.
LEMMA PageFailedFields ==
  ASSUME Requests, NEW r \in Request, NEW counted \in {0, 1},
         req' = [req EXCEPT ![r].failed = TRUE, ![r].processed = @ + counted]
  PROVE  /\ Requests' /\ Others(r) /\ req'[r].phase = req[r].phase /\ req'[r].cp = req[r].cp
         /\ req'[r].page = req[r].page /\ req'[r].natural = req[r].natural
  <1> DEFINE n == req[r].processed + counted
             q == [req[r] EXCEPT !.failed = TRUE, !.processed = n]
  <1>1. req[r] \in RequestState /\ req[r].processed \in Nat
    BY DEF Requests, RequestState
  <1>2. n \in Nat
    BY <1>1
  <1>3. req' = [req EXCEPT ![r] = q]
    OBVIOUS
  <1> HIDE DEF n
  <1>4. /\ q \in RequestState /\ q.phase = req[r].phase /\ q.cp = req[r].cp
        /\ q.page = req[r].page /\ q.natural = req[r].natural
    BY <1>1, <1>2 DEF RequestState
  <1> HIDE DEF q
  <1>5. QED
    BY <1>3, <1>4 DEF Requests, Others

\* The answer is sent ahead of the commit.
LEMMA RepliedTyped ==
  ASSUME Requests, NEW r \in Request
  PROVE  /\ [req[r] EXCEPT !.replied = TRUE] \in RequestState
         /\ [req[r] EXCEPT !.replied = TRUE].phase = req[r].phase
  <1>1. req[r] \in RequestState
    BY DEF Requests
  <1>2. QED
    BY <1>1 DEF RequestState

LEMMA StepTyped == Typed /\ [Next]_vars => Typed'
  <1> SUFFICES ASSUME Typed, [Next]_vars PROVE Typed'
    OBVIOUS
  <1> USE DEF Typed, TypeOK, SweepRange, WaitingHasOp, InSweep
  <1>1. ASSUME NEW b \in Browser, NEW r \in Request, SendBatch(b, r) PROVE Typed'
    <2>1. PICK o \in Op :
            /\ browser' = [browser EXCEPT ![b] = [op |-> o, req |-> r]]
            /\ Arrive(r, "batch", o)
            /\ used' = used \cup {o} \/ UNCHANGED used
      BY <1>1 DEF SendBatch
    <2>2. browser' \in [Browser -> BrowserState]
      BY <2>1 DEF BrowserState
    <2>3. QED
      BY <1>1, <2>1, <2>2, ArriveTyped, OpAssumption DEF SendBatch, Kind
  <1>2. ASSUME NEW r \in Request, NEW k \in {"products", "entity"}, NEW o \in Op \cup {NoOp},
               Call(r, k, o)
        PROVE  Typed'
    BY <1>2, ArriveTyped, DisturbTyped DEF Call, Kind
  <1>3. ASSUME NEW b \in Browser, GiveUp(b) \/ CloseTab(b) PROVE Typed'
    BY <1>3, TroubleAssumption DEF GiveUp, CloseTab, Disturb, BrowserState
  <1>4. ASSUME NEW r \in Request, AcquireLock(r) PROVE Typed'
    BY <1>4 DEF AcquireLock, RequestState, Phase, Result, Raised
  <1>5. ASSUME NEW r \in Request, GuardBusy(r) PROVE Typed'
    BY <1>5 DEF GuardBusy, RequestState, Phase, Result, Raised
  <1>6. ASSUME NEW r \in Request, GuardEntity(r) PROVE Typed'
    BY <1>6 DEF GuardEntity, RequestState, GuardFree, Phase
  <1>7. ASSUME NEW r \in Request, ClaimProducts(r) PROVE Typed'
    <2>1. Claimed(checkpoint, req[r].op) \in Row /\ Restarted(checkpoint) \in Row
      BY ClaimedTyped DEF RequestState
    <2> DEFINE c == Claimed(checkpoint, req[r].op)
               first == Restarted(checkpoint).page
    <2>2. /\ c.page = first /\ first \in Page /\ c \in Row
          /\ Requests
      BY <2>1 DEF Claimed, Row, Requests
    <2>3. guard' \in Request \cup {Nobody}
      BY <1>7 DEF ClaimProducts
    <2>4. ASSUME NEW x \in {"conflict", "replayed"},
                 req' = [req EXCEPT ![r].result = x, ![r].phase = Unwind(req[r].kind)]
          PROVE  Typed'
      <3>1. Requests' /\ Others(r) /\ req'[r].phase # "sweep"
        BY <2>2, <2>4, TurnedFields
      <3>2. QED
        BY <1>7, <2>3, <3>1 DEF ClaimProducts, Requests, Others
    <2>5. ASSUME ~Refuses(checkpoint, req[r].op), ~Replays(checkpoint, req[r].op)
          PROVE  Typed'
      <3>1. /\ Requests' /\ Others(r) /\ req'[r].cp = c /\ req'[r].page = first
            /\ req'[r].natural = FALSE
        BY <1>7, <2>2, <2>5, SweepingFields
      <3> HIDE DEF c, first
      <3>2. c.page <= first /\ first <= MaxPage
        BY <2>2, PageAssumption DEF Page
      <3>3. QED
        BY <1>7, <2>3, <3>1, <3>2 DEF ClaimProducts, Requests, Others
    <2>6. QED
      BY <1>7, <2>4, <2>5 DEF ClaimProducts
  <1>8. ASSUME NEW r \in Request, StorePage(r) PROVE Typed'
    <2>1. /\ Requests /\ req[r].page \in Nat /\ req[r].cp.page \in Nat
          /\ req[r].cp.page <= req[r].page /\ req[r].page <= MaxPage
      <3>1. Requests
        BY DEF Requests
      <3>2. req[r].page \in 1 .. MaxPage + 1 /\ req[r].cp \in Row
        BY DEF RequestState
      <3>3. req[r].page \in Nat /\ req[r].cp.page \in Nat
        BY <3>2, PageAssumption DEF Row, Page
      <3>4. req[r].phase = "sweep" /\ ~req[r].natural
        BY <1>8 DEF StorePage, BatchEnded
      <3>5. QED
        BY <3>1, <3>3, <3>4
    <2>2. /\ Requests' /\ Others(r) /\ req'[r].phase = req[r].phase /\ req'[r].cp = req[r].cp
          /\ req'[r].page = req[r].page + 1 /\ req'[r].natural \in BOOLEAN
          /\ req[r].page = MaxPage => req'[r].natural
      BY <1>8, <2>1, StoredFields
    <2>3. /\ req[r].cp.page < req[r].page + 1 /\ req[r].cp.page <= req[r].page + 1
          /\ ~req'[r].natural => req[r].page + 1 <= MaxPage
      BY <2>1, <2>2, PageAssumption
    <2>4. QED
      <3>1. /\ req' \in [Request -> RequestState]
            /\ UNCHANGED <<checkpoint, stored, guard, lock, browser, used, finished, told, trouble>>
        BY <1>8, <2>2 DEF StorePage, Requests
      <3>2. SweepRange'
        BY <2>2, <2>3 DEF Others
      <3>3. QED
        BY <3>1, <3>2
  <1>9. ASSUME NEW r \in Request, FinishBatch(r) PROVE Typed'
    <2>1. Checkpointed(req[r]) \in Row
      BY <1>9, CheckpointedTyped, PageAssumption DEF FinishBatch, RequestState, Row, Page
    <2>2. QED
      BY <1>9, <2>1 DEF FinishBatch, RequestState, Outcome, Unwind, Phase, Result, Written
  <1>10. ASSUME NEW r \in Request, SyncEntity(r) PROVE Typed'
    BY <1>10 DEF SyncEntity, RequestState, Phase, Result
  <1>11. ASSUME NEW r \in Request, ReleaseLock(r) PROVE Typed'
    BY <1>11 DEF ReleaseLock, RequestState, KeyWithout, Phase
  <1>12. ASSUME NEW r \in Request, Commit(r) PROVE Typed'
    <2>1. Ended(r) \in RequestState /\ Ended(r).phase # "sweep"
      BY <1>12, IdleTyped DEF Ended, RequestState, IdleRequest, Phase
    <2>2. QED
      BY <1>12, <2>1 DEF Commit, GuardWithout, RequestState, Result, Raised
  <1>13. ASSUME NEW r \in Request, Rollback(r) PROVE Typed'
    <2>1. Ended(r) \in RequestState /\ Ended(r).phase # "sweep"
      BY <1>13, IdleTyped DEF Ended, RequestState, IdleRequest, Phase
    <2>2. QED
      BY <1>13, <2>1 DEF Rollback, GuardWithout, RequestState, Result, Raised
  <1>14. ASSUME NEW r \in Request, Reply(r) PROVE Typed'
    <2>1. browser' \in [Browser -> BrowserState] /\ WaitingHasOp'
      BY <1>14 DEF Reply, Receive, BrowserState
    <2>2. told' \in SUBSET Op
      BY <1>14, RequestAssumption DEF Reply, Receive, BrowserState
    <2>3. PICK q \in RequestState : q.phase # "sweep" /\ req' = [req EXCEPT ![r] = q]
      <3>1. IdleRequest.phase # "sweep"
        BY DEF IdleRequest
      <3>2. Requests
        BY DEF Requests
      <3>3. /\ [req[r] EXCEPT !.replied = TRUE] \in RequestState
            /\ [req[r] EXCEPT !.replied = TRUE].phase = req[r].phase
        BY <3>2, RepliedTyped
      <3>4. QED
        BY <1>14, <3>1, <3>2, <3>3, IdleTyped DEF Reply
    <2>4. QED
      BY <1>14, <2>1, <2>2, <2>3 DEF Reply
  <1>15. ASSUME NEW r \in Request, AcquireFails(r) PROVE Typed'
    <2>1. lock' \in Request \cup {Nobody, Dead} /\ trouble' \in 0 .. MaxTrouble
      BY <1>15, DisturbTyped DEF AcquireFails
    <2>2. [req[r] EXCEPT !.phase = "exit", !.result = "error"] \in RequestState
      BY FailedTyped
    <2>3. req' = [req EXCEPT ![r] = [req[r] EXCEPT !.phase = "exit", !.result = "error"]]
      BY <1>15 DEF AcquireFails
    <2>4. QED
      BY <1>15, <2>1, <2>2, <2>3 DEF AcquireFails
  <1>16. ASSUME NEW r \in Request, PageFails(r) PROVE Typed'
    <2>1. trouble' \in 0 .. MaxTrouble
      BY <1>16, DisturbTyped DEF PageFails
    <2>2. PICK counted \in {0, 1} :
            req' = [req EXCEPT ![r].failed = TRUE, ![r].processed = @ + counted]
      BY <1>16 DEF PageFails
    <2>3. Requests
      BY DEF Requests
    <2>4. /\ Requests' /\ Others(r) /\ req'[r].phase = req[r].phase /\ req'[r].cp = req[r].cp
          /\ req'[r].page = req[r].page /\ req'[r].natural = req[r].natural
      BY <2>2, <2>3, PageFailedFields
    <2>5. QED
      BY <1>16, <2>1, <2>4 DEF PageFails, Requests, Others
  <1>17. ASSUME NEW r \in Request, StatementFails(r) PROVE Typed'
    BY <1>17, TroubleAssumption DEF StatementFails, RequestState, Disturb, Unwind, Phase, Result, Raised
  <1>18. ASSUME NEW r \in Request, ReleaseFails(r) PROVE Typed'
    <2>1. lock' \in Request \cup {Nobody, Dead} /\ trouble' \in 0 .. MaxTrouble
      BY <1>18, DisturbTyped DEF ReleaseFails, KeyWithout
    <2>2. [req[r] EXCEPT !.phase = "exit", !.result = "error"] \in RequestState
      BY FailedTyped
    <2>3. req' = [req EXCEPT ![r] = [req[r] EXCEPT !.phase = "exit", !.result = "error"]]
      BY <1>18 DEF ReleaseFails
    <2>4. QED
      BY <1>18, <2>1, <2>2, <2>3 DEF ReleaseFails
  <1>19. ASSUME NEW r \in Request, CommitFails(r) PROVE Typed'
    <2>1. Ended(r) \in RequestState /\ Ended(r).phase # "sweep"
      BY <1>19, IdleTyped DEF Ended, RequestState, IdleRequest, Phase
    <2>2. QED
      BY <1>19, <2>1, TroubleAssumption DEF CommitFails, GuardWithout, Disturb, RequestState, Result, Raised
  <1>20. ASSUME NEW r \in Request, Crash(r) PROVE Typed'
    BY <1>20, IdleTyped, TroubleAssumption DEF Crash, GuardWithout, Disturb, IdleRequest, BrowserState
  <1>21. CASE LockExpires
    BY <1>21 DEF LockExpires
  <1>22. CASE LeaseExpires
    BY <1>22 DEF LeaseExpires, Row
  <1>23. CASE UNCHANGED vars
    BY <1>23 DEF vars
  <1>24. QED
    BY <1>1, <1>2, <1>3, <1>4, <1>5, <1>6, <1>7, <1>8, <1>9, <1>10, <1>11, <1>12, <1>13, <1>14, <1>15, <1>16, <1>17, <1>18, <1>19, <1>20, <1>21, <1>22, <1>23 DEF Next, Serve, Fault

\* Every reachable state is well typed: in particular no page number leaves the
\* catalogue, whatever batches, failures and takeovers came before.
THEOREM TypeCorrect == Spec => []TypeOK
  <1>1. Typed => TypeOK
    BY DEF Typed
  <1>2. QED
    BY InitTyped, StepTyped, <1>1, PTL DEF Spec

----------------------------------------------------------------------------
(* The transactions.  TxnInv says, of the committed row, of the row of a    *)
(* batch that is running, and of the row of one that waits for its commit,  *)
(* how it accounts for the stored pages and for the row it was claimed from. *)

\* Pages that were counted, some of them once more for a failure.
Counted(total, pages, failures) == pages <= total /\ total <= pages + failures

LEMMA CountedAll ==
  ASSUME NEW a \in Nat, NEW b \in Nat, NEW e \in Nat, NEW x \in Nat, NEW y \in Nat, NEW z \in Nat,
         Counted(a, b, e), Counted(x, y, z)
  PROVE  Counted(a + x, b + y, e + z)
  BY DEF Counted

\* A row and the pages stored with it agree.
Accounts(cp, pages) ==
  /\ pages = 1 .. cp.lastDone
  /\ Unfinished(cp) => cp.page = cp.lastDone + 1
  /\ cp.status = "completed" => cp.page = cp.lastDone
  /\ Counted(cp.processed, cp.lastDone, cp.failed)

Claimable(o) == ~Refuses(checkpoint, o) /\ ~Replays(checkpoint, o)

\* Pages done when a claim made now would start.
Base == IF Unfinished(checkpoint) THEN checkpoint.lastDone ELSE 0

CommittedInv ==
  /\ Accounts(checkpoint, stored)
  /\ checkpoint.status # "absent" => checkpoint.owner # NoOp
  /\ checkpoint.status = "completed" => checkpoint.owner \in finished \cup {Anon}

SweepInv(r) ==
  InSweep(r) =>
    /\ guard = r
    /\ Claimable(req[r].op)
    /\ req[r].cp = Claimed(checkpoint, req[r].op)
    /\ req[r].stored = 1 .. req[r].page - 1
    /\ req[r].page <= req[r].cp.page + PagesPerBatch
    /\ ~(req[r].natural /\ req[r].failed)
    /\ Counted(req[r].processed, req[r].page - req[r].cp.page, Failures(req[r]))

WrittenInv(r) ==
  HasWritten(r) =>
    /\ guard = r
    /\ Claimable(req[r].op)
    /\ Accounts(req[r].cp, req[r].stored)
    /\ req[r].cp.owner = OwnerFor(req[r].op) /\ req[r].cp.live
    /\ req[r].cp.status # "absent"
    /\ req[r].cp.status = "completed" <=> req[r].result = "done"
    /\ Base <= req[r].cp.lastDone /\ req[r].cp.lastDone <= Base + PagesPerBatch
    /\ req[r].cp.status = "completed" => Base < req[r].cp.lastDone
    /\ req[r].cp.status # "completed" => req[r].cp.lastDone < MaxPage

TxnInv == CommittedInv /\ \A r \in Request : SweepInv(r) /\ WrittenInv(r)

LEMMA ClaimedFields ==
  ASSUME NEW cp \in Row, NEW o \in Op \cup {NoOp}
  PROVE  /\ Claimed(cp, o).owner = OwnerFor(o)
         /\ Claimed(cp, o).live = TRUE
         /\ Claimed(cp, o).status = "running"
         /\ Claimed(cp, o).page = IF Unfinished(cp) THEN cp.page ELSE 1
         /\ Claimed(cp, o).lastDone = IF Unfinished(cp) THEN cp.lastDone ELSE 0
         /\ Claimed(cp, o).processed = IF Unfinished(cp) THEN cp.processed ELSE 0
         /\ Claimed(cp, o).failed = IF Unfinished(cp) THEN cp.failed ELSE 0
  BY DEF Claimed, Restarted, OwnerFor, Unfinished, Row

\* A claim does not depend on the lease of the row, once it is allowed.
LEMMA ClaimedExpired ==
  ASSUME NEW cp \in Row, NEW o \in Op \cup {NoOp}
  PROVE  Claimed([cp EXCEPT !.live = FALSE], o) = Claimed(cp, o)
  BY DEF Claimed, Restarted, Unfinished, Row

LEMMA CheckpointedFields ==
  ASSUME NEW q \in RequestState
  PROVE  /\ Checkpointed(q).owner = q.cp.owner
         /\ Checkpointed(q).live = TRUE
         /\ Checkpointed(q).page = NextPosition(q)
         /\ Checkpointed(q).lastDone = q.page - 1
         /\ Checkpointed(q).processed = q.cp.processed + q.processed
         /\ Checkpointed(q).failed = q.cp.failed + Failures(q)
         /\ Checkpointed(q).status = IF q.failed THEN "failed"
                                     ELSE IF q.natural THEN "completed" ELSE "running"
  BY DEF Checkpointed, RequestState, Row

LEMMA InitTxn == Init => TxnInv
  BY DEF Init, TxnInv, CommittedInv, SweepInv, WrittenInv, InSweep, HasWritten, Accounts, Counted,
         Unfinished, NoRow, IdleRequest

\* A step that writes nothing to the database, and brings no request into a
\* critical phase, keeps TxnInv.
Quiet ==
  /\ UNCHANGED <<checkpoint, stored, finished>>
  /\ \A s \in Request :
       /\ InSweep(s)' => InSweep(s) /\ req'[s] = req[s]
       /\ HasWritten(s)' => /\ HasWritten(s)
                             /\ req'[s].cp = req[s].cp /\ req'[s].stored = req[s].stored
                             /\ req'[s].op = req[s].op /\ req'[s].result = req[s].result
       /\ (InSweep(s)' \/ HasWritten(s)') /\ guard = s => guard' = s

LEMMA QuietTxn == TxnInv /\ Quiet => TxnInv'
  <1> SUFFICES ASSUME TxnInv, Quiet PROVE TxnInv'
    OBVIOUS
  <1>1. CommittedInv'
    BY DEF TxnInv, CommittedInv, Quiet, Accounts, Unfinished
  <1>2. ASSUME NEW r \in Request PROVE SweepInv(r)'
    BY DEF TxnInv, SweepInv, Quiet, Claimable, Refuses, Replays, InSweep, Unfinished
  <1>3. ASSUME NEW r \in Request PROVE WrittenInv(r)'
    BY DEF TxnInv, WrittenInv, Quiet, Claimable, Refuses, Replays, Base, Unfinished, Accounts, OwnerFor
  <1>4. QED
    BY <1>1, <1>2, <1>3 DEF TxnInv

LEMMA StepTxn == Typed /\ TxnInv /\ [Next]_vars => TxnInv'
  <1> SUFFICES ASSUME Typed, TxnInv, [Next]_vars PROVE TxnInv'
    OBVIOUS
  <1> USE DEF Typed, TypeOK
  <1>1. ASSUME NEW b \in Browser, NEW r \in Request, SendBatch(b, r) PROVE TxnInv'
    <2>1. PICK o \in Op : Arrive(r, "batch", o)
      BY <1>1 DEF SendBatch
    <2>2. Quiet
      BY <1>1, <2>1, ArriveTyped DEF SendBatch, Kind, Quiet, InSweep, HasWritten
    <2>3. QED
      BY <2>2, QuietTxn
  <1>2. ASSUME NEW r \in Request, NEW k \in {"products", "entity"}, NEW o \in Op \cup {NoOp},
               Call(r, k, o)
        PROVE  TxnInv'
    <2>1. Quiet
      BY <1>2, ArriveTyped DEF Call, Kind, Quiet, InSweep, HasWritten
    <2>2. QED
      BY <2>1, QuietTxn
  <1>3. ASSUME NEW b \in Browser, GiveUp(b) \/ CloseTab(b) PROVE TxnInv'
    <2>1. Quiet
      BY <1>3 DEF GiveUp, CloseTab, Quiet, InSweep, HasWritten
    <2>2. QED
      BY <2>1, QuietTxn
  <1>4. ASSUME NEW r \in Request, AcquireLock(r) PROVE TxnInv'
    <2>1. Quiet
      BY <1>4, RequestAssumption
         DEF AcquireLock, Quiet, InSweep, HasWritten, RequestState, Written, Raised
    <2>2. QED
      BY <2>1, QuietTxn
  <1>5. ASSUME NEW r \in Request, GuardBusy(r) PROVE TxnInv'
    <2>1. Quiet
      BY <1>5, RequestAssumption
         DEF GuardBusy, Quiet, InSweep, HasWritten, RequestState, Written, Raised, GuardFree
    <2>2. QED
      BY <2>1, QuietTxn
  <1>6. ASSUME NEW r \in Request, GuardEntity(r) PROVE TxnInv'
    <2>1. Quiet
      BY <1>6, RequestAssumption
         DEF GuardEntity, Quiet, InSweep, HasWritten, RequestState, Written, Raised, GuardFree
    <2>2. QED
      BY <2>1, QuietTxn
  <1>7. ASSUME NEW r \in Request, ClaimProducts(r) PROVE TxnInv'
    <2> DEFINE o == req[r].op
    <2>1. CASE Refuses(checkpoint, o) \/ Replays(checkpoint, o)
      <3>1. PICK result \in {"conflict", "replayed"} :
              req' = [req EXCEPT ![r].result = result, ![r].phase = Unwind(req[r].kind)]
        BY <1>7, <2>1 DEF ClaimProducts
      <3>2. Quiet
        BY <1>7, <3>1, RequestAssumption
           DEF ClaimProducts, GuardFree, Quiet, InSweep, HasWritten, RequestState, Written, Unwind
      <3>3. QED
        BY <3>2, QuietTxn
    <2>2. CASE Claimable(o)
      <3>1. /\ req' = [req EXCEPT
                 ![r].cp = Claimed(checkpoint, o),
                 ![r].page = Restarted(checkpoint).page,
                 ![r].stored = IF Unfinished(checkpoint) THEN stored ELSE {},
                 ![r].processed = 0, ![r].natural = FALSE, ![r].failed = FALSE,
                 ![r].phase = "sweep"]
            /\ guard' = r /\ guard \in {Nobody, r}
            /\ req[r].phase = "claim"
            /\ UNCHANGED <<checkpoint, stored, finished>>
        BY <1>7, <2>2 DEF ClaimProducts, Claimable, GuardFree
      <3>2. /\ req'[r].op = o /\ req'[r].cp = Claimed(checkpoint, o)
            /\ req'[r].page = Restarted(checkpoint).page
            /\ req'[r].stored = IF Unfinished(checkpoint) THEN stored ELSE {}
            /\ req'[r].processed = 0 /\ req'[r].natural = FALSE /\ req'[r].failed = FALSE
            /\ req'[r].phase = "sweep"
            /\ \A s \in Request \ {r} : req'[s] = req[s]
        <4>1. Requests
          BY DEF Requests
        <4>2. QED
          BY <1>7, <2>2, <4>1, SweepingFields DEF Claimable, Others
      <3>3. o \in Op \cup {NoOp} /\ Claimable(o)'
        BY <2>2, <3>1, <3>2 DEF RequestState, Claimable, Refuses, Replays, Unfinished
      <3>4. Restarted(checkpoint).page = Claimed(checkpoint, o).page
        BY <3>3, ClaimedFields DEF Restarted, Row
      <3>5. SweepInv(r)'
        <4>1. Claimed(checkpoint', req'[r].op) = Claimed(checkpoint, o)
          BY <3>1, <3>2
        <4>2. req'[r].stored = 1 .. req'[r].page - 1
          <5>1. CASE Unfinished(checkpoint)
            <6>1. req'[r].page = checkpoint.page /\ req'[r].stored = stored
              BY <3>2, <5>1 DEF Restarted, Unfinished
            <6>2. checkpoint.page = checkpoint.lastDone + 1 /\ stored = 1 .. checkpoint.lastDone
              BY <5>1 DEF TxnInv, CommittedInv, Accounts, Unfinished
            <6>3. checkpoint.lastDone \in Nat
              BY DEF Row
            <6>4. QED
              BY <6>1, <6>2, <6>3
          <5>2. CASE ~Unfinished(checkpoint)
            <6>1. req'[r].page = 1 /\ req'[r].stored = {}
              BY <3>2, <5>2 DEF Restarted, Unfinished, Row
            <6>2. QED
              BY <6>1
          <5>3. QED
            BY <5>1, <5>2
        <4>3. req'[r].page \in Nat
          BY <3>2, ClaimedTyped DEF Row, Page, RequestState
        <4>4. req'[r].cp.page = req'[r].page
          BY <3>2, <3>4
        <4>5. Claimable(req[r].op)'
          BY <3>2, <3>3
        <4>6. guard' = r
          BY <3>1
        <4>7. req'[r].page <= req'[r].cp.page + PagesPerBatch
          BY <3>2, <4>3, <4>4, PageAssumption
        <4>8. req'[r].cp = Claimed(checkpoint', req'[r].op)
          BY <3>2, <4>1
        <4>9. Counted(req'[r].processed, req'[r].page - req'[r].cp.page, Failures(req'[r]))
          <5>1. /\ req'[r].processed = 0 /\ Failures(req'[r]) = 0
                /\ req'[r].page - req'[r].cp.page = 0
            BY <3>2, <4>3, <4>4 DEF Failures
          <5>2. QED
            BY <5>1 DEF Counted
        <4>10. QED
          BY <3>2, <4>2, <4>5, <4>6, <4>7, <4>8, <4>9 DEF SweepInv
      <3>6. ASSUME NEW s \in Request \ {r} PROVE SweepInv(s)' /\ WrittenInv(s)'
        <4>1. guard # s
          BY <3>1, RequestAssumption
        <4>2. ~InSweep(s) /\ ~HasWritten(s)
          BY <4>1 DEF TxnInv, SweepInv, WrittenInv
        <4>3. ~InSweep(s)' /\ ~HasWritten(s)'
          BY <3>2, <4>2 DEF InSweep, HasWritten
        <4>4. QED
          BY <4>3 DEF SweepInv, WrittenInv
      <3>7. WrittenInv(r)'
        BY <3>2 DEF WrittenInv, HasWritten
      <3>8. CommittedInv'
        BY <3>1 DEF TxnInv, CommittedInv, Accounts, Unfinished
      <3>9. QED
        BY <3>5, <3>6, <3>7, <3>8 DEF TxnInv
    <2>3. QED
      BY <2>1, <2>2 DEF Claimable
  <1>8. ASSUME NEW r \in Request, StorePage(r) PROVE TxnInv'
    <2> DEFINE p == req[r].page
    <2>1. PICK short \in BOOLEAN :
            req' = [req EXCEPT ![r].stored = @ \cup {p}, ![r].page = p + 1,
                               ![r].processed = @ + 1, ![r].natural = short]
      BY <1>8 DEF StorePage
    <2>2. /\ req'[r].op = req[r].op /\ req'[r].cp = req[r].cp
          /\ req'[r].stored = req[r].stored \cup {req[r].page}
          /\ req'[r].page = req[r].page + 1
          /\ req'[r].processed = req[r].processed + 1
          /\ req'[r].failed = req[r].failed /\ req'[r].phase = req[r].phase
      BY <2>1 DEF RequestState
    <2>3. /\ InSweep(r) /\ ~req[r].failed /\ req[r].page < req[r].cp.page + PagesPerBatch
          /\ req[r].page \in Nat \ {0} /\ req[r].cp.page \in Nat /\ req[r].processed \in Nat
      BY <1>8, PageAssumption DEF StorePage, BatchEnded, InSweep, RequestState, Row, Page
    <2>4. SweepInv(r)'
      <3>1. SweepInv(r)
        BY DEF TxnInv
      <3>2. req'[r].stored = 1 .. req'[r].page - 1
        BY <2>2, <2>3, <3>1 DEF SweepInv
      <3>3. UNCHANGED <<checkpoint, guard>>
        BY <1>8 DEF StorePage
      <3>4. Claimable(req[r].op)' /\ req'[r].cp = Claimed(checkpoint', req'[r].op)
        BY <2>2, <2>3, <3>1, <3>3 DEF SweepInv, Claimable
      <3>5. guard' = r
        BY <2>3, <3>1, <3>3 DEF SweepInv
      <3>6. req'[r].page <= req'[r].cp.page + PagesPerBatch
        BY <2>2, <2>3, PageAssumption
      <3>7. Counted(req'[r].processed, req'[r].page - req'[r].cp.page, Failures(req'[r]))
        <4>1. Counted(req[r].processed, req[r].page - req[r].cp.page, Failures(req[r]))
          BY <2>3, <3>1 DEF SweepInv
        <4>2. Failures(req[r]) = 0 /\ Failures(req'[r]) = 0
          BY <2>2, <2>3 DEF Failures
        <4>3. QED
          BY <2>2, <2>3, <4>1, <4>2 DEF Counted
      <3>8. ~req'[r].failed
        BY <2>2, <2>3
      <3>9. QED
        BY <3>2, <3>4, <3>5, <3>6, <3>7, <3>8 DEF SweepInv
    <2>5. ASSUME NEW s \in Request \ {r} PROVE SweepInv(s)' /\ WrittenInv(s)'
      <3>1. req'[s] = req[s] /\ UNCHANGED <<checkpoint, stored, guard>>
        BY <1>8, <2>1 DEF StorePage
      <3>2. SweepInv(s) /\ WrittenInv(s)
        BY DEF TxnInv
      <3>3. SweepInv(s)'
        BY <3>1, <3>2 DEF SweepInv, InSweep, Claimable
      <3>4. WrittenInv(s)'
        BY <3>1, <3>2 DEF WrittenInv, HasWritten, Claimable, Base
      <3>5. QED
        BY <3>3, <3>4
    <2>6. CommittedInv'
      BY <1>8 DEF StorePage, TxnInv, CommittedInv, Accounts, Unfinished
    <2>7. WrittenInv(r)'
      BY <2>2, <2>3 DEF WrittenInv, HasWritten, InSweep
    <2>8. QED
      BY <2>4, <2>5, <2>6, <2>7 DEF TxnInv
  <1>9. ASSUME NEW r \in Request, FinishBatch(r) PROVE TxnInv'
    <2> DEFINE q == req[r]
    <2> DEFINE new == Checkpointed(req[r])
    <2>1. /\ req'[r].op = q.op /\ req'[r].cp = new /\ req'[r].stored = q.stored
          /\ req'[r].result = Outcome(q) /\ req'[r].phase \in {"release", "exit"}
          /\ \A s \in Request \ {r} : req'[s] = req[s]
          /\ UNCHANGED <<checkpoint, stored, guard, finished>>
      BY <1>9 DEF FinishBatch, Unwind, RequestState
    <2>2. InSweep(r) /\ BatchEnded(q) /\ SweepInv(r)
      BY <1>9 DEF FinishBatch, InSweep, TxnInv
    <2>3. /\ q.page \in Nat /\ q.cp.page \in Nat /\ q.processed \in Nat
          /\ q.cp.processed \in Nat /\ q.cp.lastDone \in Nat /\ q.op \in Op \cup {NoOp}
          /\ q.cp.page >= 1 /\ MaxPage \in Nat
          /\ q.natural \in BOOLEAN /\ q.failed \in BOOLEAN /\ q.cp.failed \in Nat
      BY PageAssumption DEF RequestState, Row, Page
    <2>4. /\ q.cp.owner = OwnerFor(q.op)
          /\ q.cp.page = q.cp.lastDone + 1
          /\ q.cp.lastDone = Base
          /\ Counted(q.cp.processed, q.cp.lastDone, q.cp.failed)
      <3>1. q.cp = Claimed(checkpoint, q.op) /\ Accounts(checkpoint, stored)
        BY <2>2 DEF SweepInv, TxnInv, CommittedInv
      <3>2. /\ q.cp.owner = OwnerFor(q.op)
            /\ q.cp.page = IF Unfinished(checkpoint) THEN checkpoint.page ELSE 1
            /\ q.cp.lastDone = IF Unfinished(checkpoint) THEN checkpoint.lastDone ELSE 0
            /\ q.cp.processed = IF Unfinished(checkpoint) THEN checkpoint.processed ELSE 0
            /\ q.cp.failed = IF Unfinished(checkpoint) THEN checkpoint.failed ELSE 0
        <4>1. checkpoint \in Row /\ q.op \in Op \cup {NoOp}
          BY <2>3
        <4> DEFINE c == Claimed(checkpoint, q.op)
        <4>2. /\ c.owner = OwnerFor(q.op)
              /\ c.page = IF Unfinished(checkpoint) THEN checkpoint.page ELSE 1
              /\ c.lastDone = IF Unfinished(checkpoint) THEN checkpoint.lastDone ELSE 0
              /\ c.processed = IF Unfinished(checkpoint) THEN checkpoint.processed ELSE 0
              /\ c.failed = IF Unfinished(checkpoint) THEN checkpoint.failed ELSE 0
          BY <4>1, ClaimedFields
        <4>3. q.cp = c
          BY <3>1
        <4> HIDE DEF c
        <4>4. QED
          BY <4>2, <4>3
      <3>3. CASE Unfinished(checkpoint)
        BY <3>1, <3>2, <3>3 DEF Accounts, Base, Unfinished
      <3>4. CASE ~Unfinished(checkpoint)
        BY <3>2, <3>4 DEF Base, Unfinished, Counted
      <3>5. QED
        BY <3>2, <3>3, <3>4
    <2>5. /\ q.cp.page <= q.page
          /\ q.natural => q.cp.page < q.page
          /\ ~q.natural => q.page <= MaxPage
          /\ q.page <= q.cp.page + PagesPerBatch
          /\ ~(q.natural /\ q.failed)
          /\ Counted(q.processed, q.page - q.cp.page, Failures(q))
          /\ q.stored = 1 .. q.page - 1
      BY <2>2 DEF SweepRange, SweepInv
    <2>6. /\ new.owner = q.cp.owner /\ new.live /\ new.page = NextPosition(q)
          /\ new.lastDone = q.page - 1
          /\ new.processed = q.cp.processed + q.processed
          /\ new.failed = q.cp.failed + Failures(q)
          /\ new.status = IF q.failed THEN "failed"
                          ELSE IF q.natural THEN "completed" ELSE "running"
      BY CheckpointedFields
    <2> HIDE DEF new
    <2>7. Accounts(new, q.stored)
      <3>1. Unfinished(new) => new.page = new.lastDone + 1
        BY <2>3, <2>5, <2>6 DEF Unfinished, NextPosition
      <3>2. new.status = "completed" => new.page = new.lastDone
        BY <2>3, <2>5, <2>6 DEF NextPosition
      <3>3. Counted(new.processed, new.lastDone, new.failed)
        <4>1. q.page - q.cp.page \in Nat /\ Failures(q) \in Nat
          BY <2>3, <2>5 DEF Failures
        <4>2. Counted(q.cp.processed + q.processed, q.cp.lastDone + (q.page - q.cp.page),
                      q.cp.failed + Failures(q))
          BY <2>3, <2>4, <2>5, <4>1, CountedAll
        <4>3. q.cp.lastDone + (q.page - q.cp.page) = q.page - 1
          BY <2>3, <2>4
        <4>4. QED
          BY <2>6, <4>2, <4>3
      <3>4. QED
        BY <2>5, <2>6, <3>1, <3>2, <3>3 DEF Accounts
    <2>8. new.status = "completed" <=> Outcome(q) = "done"
      BY <2>3, <2>5, <2>6 DEF Outcome
    <2>9. /\ Base <= new.lastDone /\ new.lastDone <= Base + PagesPerBatch
          /\ new.status = "completed" => Base < new.lastDone
          /\ new.status # "completed" => new.lastDone < MaxPage
      BY <2>3, <2>4, <2>5, <2>6, PageAssumption
    <2>10. new.status # "absent"
      BY <2>6
    <2>11. Claimable(q.op)' /\ guard' = r /\ Base' = Base
      BY <2>1, <2>2 DEF SweepInv, Claimable, Refuses, Replays, Unfinished, Base
    <2>12. WrittenInv(r)'
      BY <2>1, <2>4, <2>6, <2>7, <2>8, <2>9, <2>10, <2>11 DEF WrittenInv
    <2>13. SweepInv(r)'
      BY <2>1 DEF SweepInv, InSweep
    <2>14. ASSUME NEW s \in Request \ {r} PROVE SweepInv(s)' /\ WrittenInv(s)'
      <3>1. ~InSweep(s) /\ ~HasWritten(s)
        BY <2>2 DEF TxnInv, SweepInv, WrittenInv
      <3>2. ~InSweep(s)' /\ ~HasWritten(s)'
        BY <2>1, <3>1 DEF InSweep, HasWritten
      <3>3. QED
        BY <3>2 DEF SweepInv, WrittenInv
    <2>15. CommittedInv'
      BY <2>1 DEF TxnInv, CommittedInv, Accounts, Unfinished
    <2>16. QED
      BY <2>12, <2>13, <2>14, <2>15 DEF TxnInv
  <1>10. ASSUME NEW r \in Request, SyncEntity(r) PROVE TxnInv'
    <2>1. Quiet
      BY <1>10, RequestAssumption
         DEF SyncEntity, Quiet, InSweep, HasWritten, RequestState, Written, Raised
    <2>2. QED
      BY <2>1, QuietTxn
  <1>11. ASSUME NEW r \in Request, ReleaseLock(r) PROVE TxnInv'
    <2>1. Quiet
      BY <1>11, RequestAssumption
         DEF ReleaseLock, Quiet, InSweep, HasWritten, RequestState, Written, Raised
    <2>2. QED
      BY <2>1, QuietTxn
  <1>12. ASSUME NEW r \in Request, Commit(r) PROVE TxnInv'
    <2>1. CASE req[r].result \notin Written
      <3>1. Quiet
        BY <1>12, <2>1, RequestAssumption
           DEF Commit, Quiet, InSweep, HasWritten, RequestState, Ended, GuardWithout, IdleRequest
      <3>2. QED
        BY <3>1, QuietTxn
    <2>2. CASE req[r].result \in Written
      <3>1. HasWritten(r) /\ WrittenInv(r) /\ guard = r
        BY <1>12, <2>2 DEF Commit, HasWritten, TxnInv, WrittenInv
      <3>2. /\ checkpoint' = req[r].cp /\ stored' = req[r].stored
            /\ finished' = IF req[r].result = "done" THEN finished \cup ({req[r].op} \ {NoOp})
                           ELSE finished
            /\ req' = [req EXCEPT ![r] = Ended(r)]
        BY <1>12, <2>2 DEF Commit
      <3>3. CommittedInv'
        <4>1. Accounts(req[r].cp, req[r].stored)
          BY <3>1 DEF WrittenInv
        <4>2. checkpoint'.owner = OwnerFor(req[r].op) /\ OwnerFor(req[r].op) # NoOp
          BY <3>1, <3>2, OpAssumption DEF WrittenInv, OwnerFor
        <4>3. checkpoint'.status = "completed" => checkpoint'.owner \in finished' \cup {Anon}
          BY <3>1, <3>2, <4>2, OpAssumption DEF WrittenInv, OwnerFor
        <4>4. QED
          BY <3>2, <4>1, <4>2, <4>3 DEF CommittedInv
      <3>4. ASSUME NEW s \in Request PROVE ~InSweep(s)' /\ ~HasWritten(s)'
        <4>1. CASE s = r
          BY <3>2, <4>1 DEF Ended, IdleRequest, InSweep, HasWritten, RequestState
        <4>2. CASE s # r
          <5>1. ~InSweep(s) /\ ~HasWritten(s)
            BY <3>1, <4>2 DEF TxnInv, SweepInv, WrittenInv
          <5>2. QED
            BY <3>2, <4>2, <5>1 DEF InSweep, HasWritten
        <4>3. QED
          BY <4>1, <4>2
      <3>5. QED
        BY <3>3, <3>4 DEF TxnInv, SweepInv, WrittenInv
    <2>3. QED
      BY <2>1, <2>2
  <1>13. ASSUME NEW r \in Request, Rollback(r) PROVE TxnInv'
    <2>1. Quiet
      BY <1>13, RequestAssumption
         DEF Rollback, Quiet, InSweep, HasWritten, RequestState, Written, Raised, Ended, GuardWithout, IdleRequest
    <2>2. QED
      BY <2>1, QuietTxn
  <1>14. ASSUME NEW r \in Request, Reply(r) PROVE TxnInv'
    <2>1. Quiet
      BY <1>14, RequestAssumption
         DEF Reply, Quiet, InSweep, HasWritten, RequestState, Written, Raised, IdleRequest
    <2>2. QED
      BY <2>1, QuietTxn
  <1>15. ASSUME NEW r \in Request, AcquireFails(r) PROVE TxnInv'
    <2>1. Quiet
      BY <1>15, RequestAssumption
         DEF AcquireFails, Quiet, InSweep, HasWritten, RequestState, Written, Raised
    <2>2. QED
      BY <2>1, QuietTxn
  <1>16. ASSUME NEW r \in Request, PageFails(r) PROVE TxnInv'
    <2>1. PICK counted \in {0, 1} :
            req' = [req EXCEPT ![r].failed = TRUE, ![r].processed = @ + counted]
      BY <1>16 DEF PageFails
    <2>2. /\ req'[r].op = req[r].op /\ req'[r].cp = req[r].cp
          /\ req'[r].stored = req[r].stored /\ req'[r].page = req[r].page
          /\ req'[r].natural = req[r].natural
          /\ req'[r].failed = TRUE /\ req'[r].phase = req[r].phase
      BY <2>1 DEF RequestState
    <2>3. InSweep(r) /\ ~req[r].natural
      BY <1>16 DEF PageFails, BatchEnded, InSweep
    <2>4. SweepInv(r)'
      <3>1. SweepInv(r) /\ UNCHANGED <<checkpoint, guard>>
        BY <1>16 DEF TxnInv, PageFails
      <3>2. Claimable(req[r].op)' /\ req'[r].cp = Claimed(checkpoint', req'[r].op)
        BY <2>2, <2>3, <3>1 DEF SweepInv, Claimable
      <3>3. Counted(req'[r].processed, req'[r].page - req'[r].cp.page, Failures(req'[r]))
        <4>1. Counted(req[r].processed, req[r].page - req[r].cp.page, Failures(req[r]))
          BY <2>3, <3>1 DEF SweepInv
        <4>2. Failures(req[r]) = 0 /\ Failures(req'[r]) = 1
          BY <1>16, <2>2 DEF PageFails, BatchEnded, Failures
        <4>3. req'[r].processed = req[r].processed + counted
          BY <2>1
        <4>4. /\ req[r].processed \in Nat /\ req[r].page - req[r].cp.page \in Nat
              /\ req'[r].page - req'[r].cp.page = req[r].page - req[r].cp.page
          BY <2>2, <2>3 DEF RequestState, Row, Page, SweepRange
        <4>5. QED
          BY <4>1, <4>2, <4>3, <4>4 DEF Counted
      <3>4. QED
        BY <2>2, <2>3, <3>1, <3>2, <3>3 DEF SweepInv, InSweep
    <2>5. ASSUME NEW s \in Request \ {r} PROVE SweepInv(s)' /\ WrittenInv(s)'
      <3>1. req'[s] = req[s] /\ UNCHANGED <<checkpoint, stored, guard>>
        BY <1>16, <2>1 DEF PageFails
      <3>2. SweepInv(s) /\ WrittenInv(s)
        BY DEF TxnInv
      <3>3. SweepInv(s)'
        BY <3>1, <3>2 DEF SweepInv, InSweep, Claimable
      <3>4. WrittenInv(s)'
        BY <3>1, <3>2 DEF WrittenInv, HasWritten, Claimable, Base
      <3>5. QED
        BY <3>3, <3>4
    <2>6. CommittedInv'
      BY <1>16 DEF PageFails, TxnInv, CommittedInv, Accounts, Unfinished
    <2>7. WrittenInv(r)'
      BY <2>2, <2>3 DEF WrittenInv, HasWritten, InSweep
    <2>8. QED
      BY <2>4, <2>5, <2>6, <2>7 DEF TxnInv
  <1>17. ASSUME NEW r \in Request, StatementFails(r) PROVE TxnInv'
    <2>1. Quiet
      BY <1>17, RequestAssumption
         DEF StatementFails, Quiet, InSweep, HasWritten, RequestState, Written, Raised, Unwind
    <2>2. QED
      BY <2>1, QuietTxn
  <1>18. ASSUME NEW r \in Request, ReleaseFails(r) PROVE TxnInv'
    <2>1. Quiet
      BY <1>18, RequestAssumption
         DEF ReleaseFails, Quiet, InSweep, HasWritten, RequestState, Written, Raised
    <2>2. QED
      BY <2>1, QuietTxn
  <1>19. ASSUME NEW r \in Request, CommitFails(r) PROVE TxnInv'
    <2>1. Quiet
      BY <1>19, RequestAssumption
         DEF CommitFails, Quiet, InSweep, HasWritten, RequestState, Written, Raised, Ended, GuardWithout, IdleRequest
    <2>2. QED
      BY <2>1, QuietTxn
  <1>20. ASSUME NEW r \in Request, Crash(r) PROVE TxnInv'
    <2>1. Quiet
      BY <1>20, RequestAssumption
         DEF Crash, Quiet, InSweep, HasWritten, RequestState, Written, Raised, GuardWithout, IdleRequest
    <2>2. QED
      BY <2>1, QuietTxn
  <1>21. CASE LockExpires
    <2>1. Quiet
      BY <1>21 DEF LockExpires, Quiet, InSweep, HasWritten
    <2>2. QED
      BY <2>1, QuietTxn
  <1>22. CASE LeaseExpires
    <2>1. /\ checkpoint' = [checkpoint EXCEPT !.live = FALSE]
          /\ UNCHANGED <<stored, guard, req, finished>>
      BY <1>22 DEF LeaseExpires
    <2>2. /\ checkpoint'.owner = checkpoint.owner /\ checkpoint'.status = checkpoint.status
          /\ checkpoint'.page = checkpoint.page /\ checkpoint'.lastDone = checkpoint.lastDone
          /\ checkpoint'.processed = checkpoint.processed
          /\ checkpoint'.failed = checkpoint.failed /\ ~checkpoint'.live
      BY <2>1 DEF Row
    <2>3. CommittedInv'
      BY <2>1, <2>2 DEF TxnInv, CommittedInv, Accounts, Unfinished
    <2>4. ASSUME NEW r \in Request PROVE SweepInv(r)'
      <3>1. Claimed(checkpoint', req[r].op) = Claimed(checkpoint, req[r].op)
        BY <2>1, ClaimedExpired DEF RequestState
      <3>2. Claimable(req[r].op) => Claimable(req[r].op)'
        BY <2>1, <2>2 DEF Claimable, Refuses, Replays, Unfinished
      <3>3. QED
        BY <2>1, <3>1, <3>2 DEF TxnInv, SweepInv, InSweep
    <2>5. ASSUME NEW r \in Request PROVE WrittenInv(r)'
      <3>1. (Claimable(req[r].op) => Claimable(req[r].op)') /\ Base' = Base
        BY <2>1, <2>2 DEF Claimable, Refuses, Replays, Unfinished, Base
      <3>2. QED
        BY <2>1, <3>1 DEF TxnInv, WrittenInv, HasWritten
    <2>6. QED
      BY <2>3, <2>4, <2>5 DEF TxnInv
  <1>23. CASE UNCHANGED vars
    <2>1. Quiet
      BY <1>23 DEF vars, Quiet, InSweep, HasWritten
    <2>2. QED
      BY <2>1, QuietTxn
  <1>24. QED
    BY <1>1, <1>2, <1>3, <1>4, <1>5, <1>6, <1>7, <1>8, <1>9, <1>10, <1>11, <1>12, <1>13, <1>14, <1>15, <1>16, <1>17, <1>18, <1>19, <1>20, <1>21, <1>22, <1>23 DEF Next, Serve, Fault

\* The inductive invariant that all theorems below are drawn from.
LEMMA Invariance == Spec => [](Typed /\ TxnInv)
  <1>1. Typed /\ TxnInv /\ [Next]_vars => (Typed /\ TxnInv)'
    BY StepTyped, StepTxn
  <1>2. QED
    BY InitTyped, InitTxn, <1>1, PTL DEF Spec

\* claim_products and the guard: while a batch reads pages, the committed row is
\* the one it has claimed, so its commit overwrites nobody's progress, even if
\* its Redis lock has expired and another request holds it.
THEOREM ClaimFresh == Spec => []ClaimStaysFresh
  <1>1. Typed /\ TxnInv => ClaimStaysFresh
    BY DEF TxnInv, SweepInv, Claimable, ClaimStaysFresh
  <1>2. QED
    BY Invariance, <1>1, PTL

\* The transaction of sync_products_batch: checkpoint and products are committed
\* together, whatever crashes, rollbacks, retries and takeovers happen.
THEOREM StoredAgrees == Spec => []StoredPrefix
  <1>1. Typed /\ TxnInv => StoredPrefix
    BY DEF TxnInv, CommittedInv, Accounts, StoredPrefix
  <1>2. QED
    BY Invariance, <1>1, PTL

\* The totals of sync_product_request count every page of a sweep, across its batches
\* and its owners, and count it again at most once for each failure they tell of.
THEOREM TotalsAgree == Spec => []TotalsExact
  <1>1. ASSUME Typed, TxnInv PROVE TotalsExact
    <2>1. Counted(checkpoint.processed, checkpoint.lastDone, checkpoint.failed)
      BY <1>1 DEF TxnInv, CommittedInv, Accounts
    <2>2. checkpoint.processed \in Nat /\ checkpoint.lastDone \in Nat /\ checkpoint.failed \in Nat
      BY <1>1, PageAssumption DEF Typed, TypeOK, Row
    <2>3. QED
      BY <2>1, <2>2 DEF Counted, TotalsExact
  <1>2. QED
    BY Invariance, <1>1, PTL

----------------------------------------------------------------------------
(* The committed rows implement ProductSweep.                              *)

LEMMA InitSweep == Init => Sweep!SweepInit
  BY DEF Init, Sweep!SweepInit, NoRow, Unfinished

LEMMA CommitSweep ==
  ASSUME Typed, TxnInv, NEW r \in Request, Commit(r), req[r].result \in Written
  PROVE  \E o \in Op \cup {Anon} : Sweep!Begin(o) \/ Sweep!Resume(o)
  <1> DEFINE o == OwnerFor(req[r].op)
  <1> DEFINE cp == req[r].cp
  <1> DEFINE n == cp.lastDone - Base
  <1>1. /\ checkpoint' = cp /\ stored' = req[r].stored
        /\ finished' = IF req[r].result = "done" THEN finished \cup ({req[r].op} \ {NoOp})
                       ELSE finished
    BY DEF Commit
  <1>2. WrittenInv(r) /\ HasWritten(r) /\ CommittedInv
    BY DEF TxnInv, Commit, HasWritten
  <1>3. /\ cp \in Row /\ checkpoint \in Row /\ req[r].op \in Op \cup {NoOp}
        /\ cp.lastDone \in 0 .. MaxPage /\ checkpoint.lastDone \in 0 .. MaxPage
        /\ MaxPage \in Nat /\ PagesPerBatch \in Nat
    BY PageAssumption DEF Typed, TypeOK, RequestState, Row
  <1>4. /\ o \in Op \cup {Anon} /\ cp.owner = o /\ cp.live = TRUE
        /\ cp.status \in {"running", "failed", "completed"}
        /\ cp.status = "completed" <=> req[r].result = "done"
        /\ req[r].stored = 1 .. cp.lastDone
    BY <1>2, <1>3 DEF WrittenInv, OwnerFor, Accounts, Row
  <1>5. Base \in 0 .. MaxPage /\ n \in 0 .. PagesPerBatch /\ Base + n = cp.lastDone
    BY <1>2, <1>3 DEF WrittenInv, Base
  <1>6. Sweep!Advance(o, Base, n)
    <2>1. /\ Base + n <= MaxPage
          /\ checkpoint'.owner = o /\ checkpoint'.live = TRUE
          /\ checkpoint'.lastDone = Base + n
          /\ stored' = 1 .. Base + n
      BY <1>1, <1>3, <1>4, <1>5
    <2>2. CASE cp.status = "completed"
      <3>1. n > 0
        BY <1>2, <1>3, <1>5, <2>2 DEF WrittenInv
      <3>2. finished' = finished \cup ({o} \ {Anon})
        BY <1>1, <1>3, <1>4, <2>2, OpAssumption DEF OwnerFor
      <3>3. ~Unfinished(checkpoint')
        BY <1>1, <2>2 DEF Unfinished
      <3>4. QED
        BY <1>1, <2>1, <2>2, <3>1, <3>2, <3>3 DEF Sweep!Advance, Unfinished
    <2>3. CASE cp.status # "completed"
      <3>1. Base + n < MaxPage
        BY <1>2, <1>5, <2>3 DEF WrittenInv
      <3>2. UNCHANGED finished /\ Unfinished(checkpoint')
        BY <1>1, <1>4, <2>3 DEF Unfinished
      <3>3. QED
        BY <1>1, <2>1, <3>1, <3>2 DEF Sweep!Advance, Unfinished
    <2>4. QED
      BY <2>2, <2>3
  <1>7. CASE Unfinished(checkpoint)
    <2>1. checkpoint.live => checkpoint.owner = o /\ o # Anon
      BY <1>2, <1>3, <1>7, OpAssumption
         DEF WrittenInv, CommittedInv, Claimable, Refuses, OwnerFor, Unfinished
    <2>2. Base = checkpoint.lastDone
      BY <1>7 DEF Base, Unfinished
    <2>3. Sweep!Resume(o)
      BY <1>5, <1>6, <1>7, <2>1, <2>2 DEF Sweep!Resume, Unfinished
    <2>4. QED
      BY <1>4, <2>3
  <1>8. CASE ~Unfinished(checkpoint)
    <2>1. checkpoint.status = "completed" /\ checkpoint.owner = o => o = Anon
      BY <1>2, <1>3 DEF WrittenInv, Claimable, Replays, OwnerFor
    <2>2. Base = 0
      BY <1>8 DEF Base, Unfinished
    <2>3. Sweep!Begin(o)
      BY <1>5, <1>6, <1>8, <2>1, <2>2 DEF Sweep!Begin, Unfinished
    <2>4. QED
      BY <1>4, <2>3
  <1>9. QED
    BY <1>7, <1>8

LEMMA StepSweep == Typed /\ TxnInv /\ [Next]_vars => [Sweep!SweepNext]_(Sweep!sweepVars)
  <1> SUFFICES ASSUME Typed, TxnInv, [Next]_vars PROVE [Sweep!SweepNext]_(Sweep!sweepVars)
    OBVIOUS
  <1>1. ASSUME UNCHANGED <<checkpoint, stored, finished>> PROVE UNCHANGED Sweep!sweepVars
    BY <1>1 DEF Sweep!sweepVars, Unfinished
  <1>2. ASSUME NEW r \in Request, Commit(r) PROVE [Sweep!SweepNext]_(Sweep!sweepVars)
    <2>1. CASE req[r].result \in Written
      BY <1>2, <2>1, CommitSweep DEF Sweep!SweepNext, Sweep!Operation
    <2>2. CASE req[r].result \notin Written
      BY <1>1, <1>2, <2>2 DEF Commit
    <2>3. QED
      BY <2>1, <2>2
  <1>3. CASE LeaseExpires
    <2>1. /\ checkpoint' = [checkpoint EXCEPT !.live = FALSE] /\ checkpoint \in Row
          /\ checkpoint.live /\ UNCHANGED <<stored, finished>>
      BY <1>3 DEF LeaseExpires, Typed, TypeOK
    <2>2. /\ checkpoint'.owner = checkpoint.owner /\ checkpoint'.status = checkpoint.status
          /\ checkpoint'.lastDone = checkpoint.lastDone /\ checkpoint'.live = FALSE
      BY <2>1 DEF Row
    <2>3. Sweep!Expire
      BY <2>1, <2>2 DEF Sweep!Expire, Unfinished
    <2>4. QED
      BY <2>3 DEF Sweep!SweepNext
  <1>4. CASE UNCHANGED vars
    BY <1>1, <1>4 DEF vars
  <1>5. ASSUME NEW b \in Browser, NEW r \in Request, SendBatch(b, r)
        PROVE  UNCHANGED <<checkpoint, stored, finished>>
    BY <1>5 DEF SendBatch
  <1>6. ASSUME NEW r \in Request, NEW k \in {"products", "entity"}, NEW o \in Op \cup {NoOp},
               Call(r, k, o)
        PROVE  UNCHANGED <<checkpoint, stored, finished>>
    BY <1>6 DEF Call
  <1>7. ASSUME NEW b \in Browser, GiveUp(b) \/ CloseTab(b)
        PROVE  UNCHANGED <<checkpoint, stored, finished>>
    BY <1>7 DEF GiveUp, CloseTab
  <1>8. ASSUME NEW r \in Request, Serve(r) \/ Fault(r), ~Commit(r)
        PROVE  UNCHANGED <<checkpoint, stored, finished>>
    BY <1>8 DEF Serve, Fault, AcquireLock, GuardBusy, GuardEntity, ClaimProducts, StorePage,
         FinishBatch, SyncEntity, ReleaseLock, Rollback, Reply, AcquireFails, PageFails,
         StatementFails, ReleaseFails, CommitFails, Crash
  <1>9. CASE LockExpires
    BY <1>1, <1>9 DEF LockExpires
  <1>10. QED
    BY <1>1, <1>2, <1>3, <1>4, <1>5, <1>6, <1>7, <1>8, <1>9 DEF Next

\* What the handlers, the transactions, the guard and the Redis lock bring about
\* together is the sweep of ProductSweep: one at a time, advanced by its owner,
\* resumed at its page, taken over only once the lease is over.
THEOREM Refinement == Spec => ImplementsSweep
  <1>1. QED
    BY InitSweep, StepSweep, Invariance, PTL DEF Spec, ImplementsSweep, Sweep!SweepSpec

----------------------------------------------------------------------------
(* What a browser is told, when the response follows the commit.           *)

\* A request that has no result yet has written nothing, and while the response
\* follows the commit the answer in preparation is true.
AnswerInv(r) ==
  /\ req[r].phase \in {"lock", "claim", "sweep", "work"} => req[r].result = "none"
  /\ req[r].result = "replayed" => req[r].op \in finished
  /\ ~ResponseFirst =>
       /\ ~req[r].replied
       /\ req[r].phase = "reply" /\ req[r].result = "done" => req[r].op \in finished \cup {NoOp}

\* A browser waits for the request it has sent, which carries its operation id.
WaitInv ==
  \A b \in Browser : browser[b].req # Nobody =>
    /\ browser[b].op = req[browser[b].req].op
    /\ req[browser[b].req].phase # "idle"
    /\ ~req[browser[b].req].replied

AnswersInv == WaitInv /\ (\A r \in Request : AnswerInv(r)) /\ (~ResponseFirst => ToldIsFinished)

LEMMA InitAnswers == Init => AnswersInv
  BY DEF Init, AnswersInv, WaitInv, AnswerInv, ToldIsFinished, IdleRequest

\* A step of request r that changes nothing a browser sees.
Within(r) ==
  /\ UNCHANGED <<browser, told>>
  /\ finished \subseteq finished'
  /\ \A s \in Request \ {r} : req'[s] = req[s]
  /\ \/ /\ req'[r].op = req[r].op /\ req'[r].phase # "idle"
        /\ req'[r].replied = req[r].replied
     \/ \A b \in Browser : browser[b].req # r

LEMMA WithinAnswers ==
  ASSUME TypeOK, AnswersInv, NEW r \in Request, Within(r), AnswerInv(r)'
  PROVE  AnswersInv'
  <1>1. WaitInv'
    BY DEF TypeOK, AnswersInv, WaitInv, Within, BrowserState
  <1>2. ASSUME NEW s \in Request PROVE AnswerInv(s)'
    BY DEF AnswersInv, AnswerInv, Within
  <1>3. (~ResponseFirst => ToldIsFinished)'
    BY DEF AnswersInv, ToldIsFinished, Within
  <1>4. QED
    BY <1>1, <1>2, <1>3 DEF AnswersInv

LEMMA StepAnswers == Typed /\ TxnInv /\ AnswersInv /\ [Next]_vars => AnswersInv'
  <1> SUFFICES ASSUME Typed, TxnInv, AnswersInv, [Next]_vars PROVE AnswersInv'
    OBVIOUS
  <1> USE DEF Typed, TypeOK
  <1>4. ASSUME NEW r \in Request, AcquireLock(r) PROVE AnswersInv'
    <2>1. Within(r) /\ AnswerInv(r)'
      BY <1>4 DEF AcquireLock, Within, AnswersInv, WaitInv, AnswerInv, RequestState
    <2>2. QED
      BY <2>1, WithinAnswers
  <1>5. ASSUME NEW r \in Request, AcquireFails(r) PROVE AnswersInv'
    <2>1. Within(r) /\ AnswerInv(r)'
      BY <1>5 DEF AcquireFails, Within, AnswersInv, WaitInv, AnswerInv, RequestState
    <2>2. QED
      BY <2>1, WithinAnswers
  <1>6. ASSUME NEW r \in Request, GuardBusy(r) PROVE AnswersInv'
    <2>1. Within(r) /\ AnswerInv(r)'
      BY <1>6 DEF GuardBusy, Within, AnswersInv, WaitInv, AnswerInv, RequestState
    <2>2. QED
      BY <2>1, WithinAnswers
  <1>7. ASSUME NEW r \in Request, GuardEntity(r) PROVE AnswersInv'
    <2>1. Within(r) /\ AnswerInv(r)'
      BY <1>7 DEF GuardEntity, Within, AnswersInv, WaitInv, AnswerInv, RequestState
    <2>2. QED
      BY <2>1, WithinAnswers
  <1>8. ASSUME NEW r \in Request, StorePage(r) PROVE AnswersInv'
    <2>1. Within(r) /\ AnswerInv(r)'
      BY <1>8 DEF StorePage, Within, AnswersInv, WaitInv, AnswerInv, RequestState
    <2>2. QED
      BY <2>1, WithinAnswers
  <1>9. ASSUME NEW r \in Request, PageFails(r) PROVE AnswersInv'
    <2>1. Within(r) /\ AnswerInv(r)'
      BY <1>9 DEF PageFails, Within, AnswersInv, WaitInv, AnswerInv, RequestState
    <2>2. QED
      BY <2>1, WithinAnswers
  <1>10. ASSUME NEW r \in Request, FinishBatch(r) PROVE AnswersInv'
    <2>1. Within(r) /\ AnswerInv(r)'
      BY <1>10 DEF FinishBatch, Within, AnswersInv, WaitInv, AnswerInv, RequestState, Unwind, Outcome
    <2>2. QED
      BY <2>1, WithinAnswers
  <1>11. ASSUME NEW r \in Request, SyncEntity(r) PROVE AnswersInv'
    <2>1. Within(r) /\ AnswerInv(r)'
      BY <1>11 DEF SyncEntity, Within, AnswersInv, WaitInv, AnswerInv, RequestState
    <2>2. QED
      BY <2>1, WithinAnswers
  <1>12. ASSUME NEW r \in Request, StatementFails(r) PROVE AnswersInv'
    <2>1. Within(r) /\ AnswerInv(r)'
      BY <1>12 DEF StatementFails, Within, AnswersInv, WaitInv, AnswerInv, RequestState, Unwind
    <2>2. QED
      BY <2>1, WithinAnswers
  <1>13. ASSUME NEW r \in Request, ReleaseLock(r) PROVE AnswersInv'
    <2>1. Within(r) /\ AnswerInv(r)'
      BY <1>13 DEF ReleaseLock, Within, AnswersInv, WaitInv, AnswerInv, RequestState
    <2>2. QED
      BY <2>1, WithinAnswers
  <1>14. ASSUME NEW r \in Request, ReleaseFails(r) PROVE AnswersInv'
    <2>1. Within(r) /\ AnswerInv(r)'
      BY <1>14 DEF ReleaseFails, Within, AnswersInv, WaitInv, AnswerInv, RequestState
    <2>2. QED
      BY <2>1, WithinAnswers
  <1>15. ASSUME NEW r \in Request, ClaimProducts(r) PROVE AnswersInv'
    <2>1. Replays(checkpoint, req[r].op) => req[r].op \in finished
      BY OpAssumption DEF TxnInv, CommittedInv, Replays, RequestState
    <2>2. /\ UNCHANGED <<browser, told, finished>> /\ req[r].phase = "claim"
          /\ \A s \in Request \ {r} : req'[s] = req[s]
      BY <1>15 DEF ClaimProducts
    <2>3. CASE Refuses(checkpoint, req[r].op) \/ Replays(checkpoint, req[r].op)
      <3>1. PICK result \in {"conflict", "replayed"} :
              /\ req' = [req EXCEPT ![r].result = result, ![r].phase = Unwind(req[r].kind)]
              /\ result = "replayed" => Replays(checkpoint, req[r].op)
        BY <1>15, <2>3 DEF ClaimProducts
      <3>2. /\ req'[r].op = req[r].op /\ req'[r].replied = req[r].replied
            /\ req'[r].result = result /\ req'[r].phase \in {"exit", "release"}
        BY <3>1 DEF RequestState, Unwind
      <3>3. Within(r) /\ AnswerInv(r)'
        BY <2>1, <2>2, <3>1, <3>2 DEF Within, AnswersInv, AnswerInv
      <3>4. QED
        BY <3>3, WithinAnswers
    <2>4. CASE ~Refuses(checkpoint, req[r].op) /\ ~Replays(checkpoint, req[r].op)
      <3>1. /\ req'[r].op = req[r].op /\ req'[r].replied = req[r].replied
            /\ req'[r].result = req[r].result /\ req'[r].phase = "sweep"
        BY <1>15, <2>4 DEF ClaimProducts, RequestState
      <3>2. Within(r) /\ AnswerInv(r)'
        BY <2>2, <3>1 DEF Within, AnswersInv, AnswerInv
      <3>3. QED
        BY <3>2, WithinAnswers
    <2>5. QED
      BY <2>3, <2>4
  <1>16. ASSUME NEW r \in Request, Commit(r) PROVE AnswersInv'
    <2>1. finished \subseteq finished' /\ UNCHANGED <<browser, told>>
          /\ req' = [req EXCEPT ![r] = Ended(r)]
          /\ req[r].phase = "exit" /\ (ResponseFirst => req[r].replied)
      BY <1>16 DEF Commit
    <2>2. req[r].result = "done" => req[r].op \in finished' \cup {NoOp}
      BY <1>16 DEF Commit, RequestState, Written
    <2>3. CASE req[r].replied
      <3>1. ResponseFirst /\ req'[r] = IdleRequest /\ \A b \in Browser : browser[b].req # r
        BY <2>1, <2>3, RequestAssumption DEF Ended, AnswersInv, AnswerInv, WaitInv
      <3>2. Within(r) /\ AnswerInv(r)'
        BY <2>1, <3>1 DEF Within, AnswerInv, IdleRequest
      <3>3. QED
        BY <3>2, WithinAnswers
    <2>4. CASE ~req[r].replied
      <3>1. req'[r] = [req[r] EXCEPT !.phase = "reply"]
        BY <2>1, <2>4 DEF Ended
      <3>2. Within(r) /\ AnswerInv(r)'
        BY <2>1, <2>2, <3>1 DEF Within, AnswersInv, AnswerInv, RequestState
      <3>3. QED
        BY <3>2, WithinAnswers
    <2>5. QED
      BY <2>3, <2>4
  <1>17. ASSUME NEW r \in Request, Rollback(r) PROVE AnswersInv'
    <2>1. /\ UNCHANGED <<browser, told, finished>> /\ req' = [req EXCEPT ![r] = Ended(r)]
          /\ req[r].phase = "exit" /\ req[r].result \in Raised
      BY <1>17 DEF Rollback
    <2>2. CASE req[r].replied
      <3>1. req'[r] = IdleRequest /\ \A b \in Browser : browser[b].req # r
        BY <2>1, <2>2, RequestAssumption DEF Ended, AnswersInv, WaitInv
      <3>2. Within(r) /\ AnswerInv(r)'
        BY <2>1, <3>1 DEF Within, AnswerInv, IdleRequest
      <3>3. QED
        BY <3>2, WithinAnswers
    <2>3. CASE ~req[r].replied
      <3>1. req'[r] = [req[r] EXCEPT !.phase = "reply"]
        BY <2>1, <2>3 DEF Ended
      <3>2. Within(r) /\ AnswerInv(r)'
        BY <2>1, <3>1 DEF Within, AnswersInv, AnswerInv, RequestState, Raised
      <3>3. QED
        BY <3>2, WithinAnswers
    <2>4. QED
      BY <2>2, <2>3
  <1>18. ASSUME NEW r \in Request, CommitFails(r) PROVE AnswersInv'
    <2>1. /\ UNCHANGED <<browser, told, finished>>
          /\ req' = [req EXCEPT ![r] =
                       [Ended(r) EXCEPT !.result = IF req[r].replied THEN @ ELSE "error"]]
          /\ req[r].phase = "exit"
      BY <1>18 DEF CommitFails
    <2>2. CASE req[r].replied
      <3>1. req'[r] = IdleRequest /\ \A b \in Browser : browser[b].req # r
        BY <2>1, <2>2, RequestAssumption DEF Ended, AnswersInv, WaitInv, IdleRequest
      <3>2. Within(r) /\ AnswerInv(r)'
        BY <2>1, <3>1 DEF Within, AnswerInv, IdleRequest
      <3>3. QED
        BY <3>2, WithinAnswers
    <2>3. CASE ~req[r].replied
      <3>1. /\ req'[r].phase = "reply" /\ req'[r].result = "error"
            /\ req'[r].op = req[r].op /\ req'[r].replied = req[r].replied
        BY <2>1, <2>3 DEF Ended, RequestState
      <3>2. Within(r) /\ AnswerInv(r)'
        BY <2>1, <3>1 DEF Within, AnswersInv, AnswerInv
      <3>3. QED
        BY <3>2, WithinAnswers
    <2>4. QED
      BY <2>2, <2>3
  <1>19. ASSUME NEW r \in Request, Reply(r) PROVE AnswersInv'
    <2>1. /\ Receive(r) /\ UNCHANGED finished
          /\ \A s \in Request \ {r} : req'[s] = req[s]
          /\ \/ req[r].phase = "reply" /\ req'[r] = IdleRequest
             \/ /\ ResponseFirst /\ req[r].phase = "exit"
                /\ req'[r] = [req[r] EXCEPT !.replied = TRUE]
      BY <1>19 DEF Reply
    <2>2. WaitInv'
      <3>1. ASSUME NEW b \in Browser, browser'[b].req # Nobody
            PROVE  browser'[b] = browser[b] /\ browser[b].req \in Request \ {r}
        BY <2>1, <3>1 DEF Receive, BrowserState
      <3>2. QED
        BY <2>1, <3>1 DEF AnswersInv, WaitInv
    <2>3. ASSUME NEW s \in Request PROVE AnswerInv(s)'
      BY <2>1 DEF AnswersInv, AnswerInv, IdleRequest, RequestState
    <2>4. (~ResponseFirst => ToldIsFinished)'
      <3>1. SUFFICES ASSUME ~ResponseFirst PROVE told' \subseteq finished
        BY <2>1 DEF ToldIsFinished
      <3>2. told \subseteq finished /\ req[r].phase = "reply"
        BY <2>1, <3>1 DEF AnswersInv, ToldIsFinished
      <3>3. CASE req[r].result \notin {"done", "replayed"}
        BY <2>1, <3>2, <3>3 DEF Receive
      <3>4. CASE req[r].result \in {"done", "replayed"}
        <4>1. req[r].op \in finished \cup {NoOp}
          BY <3>1, <3>2, <3>4 DEF AnswersInv, AnswerInv
        <4>2. ASSUME NEW b \in Browser, browser[b].req = r PROVE browser[b].op \in finished
          BY <4>1, <4>2, RequestAssumption DEF AnswersInv, WaitInv, WaitingHasOp
        <4>3. QED
          BY <2>1, <3>2, <3>4, <4>2 DEF Receive
      <3>5. QED
        BY <3>3, <3>4
    <2>5. QED
      BY <2>2, <2>3, <2>4 DEF AnswersInv
  <1>20. ASSUME NEW r \in Request, Crash(r) PROVE AnswersInv'
    <2>1. /\ UNCHANGED <<finished, told>> /\ req' = [req EXCEPT ![r] = IdleRequest]
          /\ browser' = [b \in Browser |->
               IF browser[b].req = r THEN [browser[b] EXCEPT !.req = Nobody] ELSE browser[b]]
      BY <1>20 DEF Crash
    <2>2. WaitInv'
      <3>1. ASSUME NEW b \in Browser, browser'[b].req # Nobody
            PROVE  browser'[b] = browser[b] /\ browser[b].req \in Request \ {r}
        BY <2>1, <3>1 DEF BrowserState
      <3>2. QED
        BY <2>1, <3>1 DEF AnswersInv, WaitInv
    <2>3. ASSUME NEW s \in Request PROVE AnswerInv(s)'
      BY <2>1 DEF AnswersInv, AnswerInv, IdleRequest
    <2>4. QED
      BY <2>1, <2>2, <2>3 DEF AnswersInv, ToldIsFinished
  <1>21. ASSUME NEW r \in Request, NEW k \in Kind, NEW o \in Op \cup {NoOp}, Arrive(r, k, o),
                req[r].phase = "idle", UNCHANGED <<finished, told>>,
                \A b \in Browser : \/ browser'[b] = browser[b]
                                   \/ browser'[b] = [op |-> o, req |-> r]
         PROVE  AnswersInv'
    <2>1. /\ req'[r].op = o /\ req'[r].phase \in {"lock", "claim"}
          /\ req'[r].result = "none" /\ ~req'[r].replied
          /\ \A s \in Request \ {r} : req'[s] = req[s]
      <3>1. req'[r] = [IdleRequest EXCEPT !.kind = k, !.op = o,
                         !.phase = IF k = "batch" THEN "lock" ELSE "claim"]
        BY <1>21, ArriveTyped
      <3>2. /\ req'[r].op = o /\ req'[r].result = "none" /\ ~req'[r].replied
        BY <3>1 DEF IdleRequest
      <3>3. QED
        BY <1>21, <3>2, ArriveTyped
    <2>2. WaitInv'
      BY <1>21, <2>1 DEF AnswersInv, WaitInv, BrowserState
    <2>3. ASSUME NEW s \in Request PROVE AnswerInv(s)'
      BY <1>21, <2>1 DEF AnswersInv, AnswerInv
    <2>4. QED
      BY <1>21, <2>2, <2>3 DEF AnswersInv, ToldIsFinished
  <1>22. ASSUME NEW b \in Browser, NEW r \in Request, SendBatch(b, r) PROVE AnswersInv'
    <2>1. PICK o \in Op :
            browser' = [browser EXCEPT ![b] = [op |-> o, req |-> r]] /\ Arrive(r, "batch", o)
      BY <1>22 DEF SendBatch
    <2>2. QED
      BY <1>21, <1>22, <2>1 DEF SendBatch, Kind
  <1>23. ASSUME NEW r \in Request, NEW k \in {"products", "entity"}, NEW o \in Op \cup {NoOp},
                Call(r, k, o)
         PROVE  AnswersInv'
    BY <1>21, <1>23 DEF Call, Kind
  <1>24. ASSUME NEW b \in Browser, GiveUp(b) \/ CloseTab(b) PROVE AnswersInv'
    <2>1. /\ UNCHANGED <<req, finished, told>>
          /\ \A c \in Browser : browser'[c] = browser[c] \/ browser'[c].req = Nobody
      BY <1>24 DEF GiveUp, CloseTab, BrowserState
    <2>2. QED
      BY <2>1 DEF AnswersInv, WaitInv, AnswerInv, ToldIsFinished
  <1>25. CASE LockExpires \/ LeaseExpires \/ UNCHANGED vars
    <2>1. UNCHANGED <<req, browser, finished, told>>
      BY <1>25 DEF LockExpires, LeaseExpires, vars
    <2>2. QED
      BY <2>1 DEF AnswersInv, WaitInv, AnswerInv, ToldIsFinished
  <1>26. QED
    BY <1>4, <1>5, <1>6, <1>7, <1>8, <1>9, <1>10, <1>11, <1>12, <1>13, <1>14, <1>15, <1>16, <1>17,
       <1>18, <1>19, <1>20, <1>22, <1>23, <1>24, <1>25 DEF Next, Serve, Fault

LEMMA AnswersInvariance == Spec => [](Typed /\ TxnInv /\ AnswersInv)
  <1>1. Typed /\ TxnInv /\ AnswersInv /\ [Next]_vars => (Typed /\ TxnInv /\ AnswersInv)'
    BY StepTyped, StepTxn, StepAnswers
  <1>2. QED
    BY InitTyped, InitTxn, InitAnswers, <1>1, PTL DEF Spec

\* runProductBatches drops its operation id only for an operation whose
\* completion is committed, provided the framework commits before it answers:
\* timeouts, closed tabs and late answers never make a browser believe more.
THEOREM ToldTruth == Spec => [](~ResponseFirst => ToldIsFinished)
  <1>1. AnswersInv => (~ResponseFirst => ToldIsFinished)
    BY DEF AnswersInv
  <1>2. QED
    BY AnswersInvariance, <1>1, PTL

----------------------------------------------------------------------------
(* What a step may never do.                                               *)

LEMMA StepLock ==
  ASSUME Typed, [Next]_vars, NEW r \in Request, NEW s \in Request,
         lock = s, lock' # s, req'[r] # req[r]
  PROVE  r = s
  <1> USE DEF Typed, TypeOK
  <1>1. lock # Nobody /\ lock # Dead
    BY RequestAssumption
  <1>2. PICK t \in Request : ReleaseLock(t) \/ ReleaseFails(t) \/ Crash(t)
    <2>1. ~LockExpires /\ ~LeaseExpires /\ ~(UNCHANGED vars)
      BY DEF LockExpires, LeaseExpires, vars
    <2>2. ASSUME NEW b \in Browser, NEW t \in Request PROVE ~SendBatch(b, t)
      BY DEF SendBatch
    <2>3. ASSUME NEW t \in Request, NEW k, NEW o PROVE ~Call(t, k, o)
      BY DEF Call
    <2>4. ASSUME NEW b \in Browser PROVE ~GiveUp(b) /\ ~CloseTab(b)
      BY DEF GiveUp, CloseTab
    <2>5. ASSUME NEW t \in Request, Serve(t) \/ Fault(t)
          PROVE  ReleaseLock(t) \/ ReleaseFails(t) \/ Crash(t)
      BY <1>1, <2>5 DEF Serve, Fault, AcquireLock, GuardBusy, GuardEntity, ClaimProducts, StorePage,
         FinishBatch, SyncEntity, Commit, Rollback, Reply, AcquireFails, PageFails,
         StatementFails, CommitFails
    <2>6. QED
      BY <2>1, <2>2, <2>3, <2>4, <2>5 DEF Next
  <1>3. lock' # lock => lock = t
    BY <1>2 DEF ReleaseLock, ReleaseFails, Crash, KeyWithout
  <1>4. r = t
    BY <1>2 DEF ReleaseLock, ReleaseFails, Crash
  <1>5. QED
    BY <1>3, <1>4

\* SyncLock.release compares the owner before it deletes: no request takes away
\* the Redis key of another, even one that outlives its TTL.
THEOREM LockSafe == Spec => LockLeftToOwner
  <1>1. Typed /\ [Next]_vars =>
          [\A r, s \in Request : lock = s /\ lock' # s /\ req'[r] # req[r] => r = s]_vars
    BY StepLock
  <1>2. QED
    BY Invariance, <1>1, PTL DEF Spec, LockLeftToOwner

LEMMA StepAdvances ==
  ASSUME Typed, AnswersInv, [Next]_vars, NEW r \in Request, InSweep(r), req'[r].result = "more"
  PROVE  req'[r].cp.page > req[r].cp.page
  <1> USE DEF Typed, TypeOK, InSweep
  <1>1. req[r].result = "none"
    BY DEF AnswersInv, AnswerInv
  <1>2. FinishBatch(r)
    <2>1. req'[r] # req[r]
      BY <1>1
    <2>2. ~LockExpires /\ ~LeaseExpires /\ ~(UNCHANGED vars)
      BY <2>1 DEF LockExpires, LeaseExpires, vars
    <2>3. ASSUME NEW b \in Browser, NEW t \in Request PROVE ~SendBatch(b, t)
      BY <2>1 DEF SendBatch, Arrive
    <2>4. ASSUME NEW t \in Request, NEW k, NEW o PROVE ~Call(t, k, o)
      BY <2>1 DEF Call, Arrive
    <2>5. ASSUME NEW b \in Browser PROVE ~GiveUp(b) /\ ~CloseTab(b)
      BY <2>1 DEF GiveUp, CloseTab
    <2>6. ASSUME NEW t \in Request, t # r PROVE ~Serve(t) /\ ~Fault(t)
      BY <2>1, <2>6 DEF Serve, Fault, AcquireLock, GuardBusy, GuardEntity, ClaimProducts, StorePage,
         FinishBatch, SyncEntity, ReleaseLock, Commit, Rollback, Reply, AcquireFails, PageFails,
         StatementFails, ReleaseFails, CommitFails, Crash
    <2>7. ~Fault(r)
      BY <1>1 DEF Fault, AcquireFails, PageFails, StatementFails, ReleaseFails, CommitFails, Crash,
         RequestState, IdleRequest
    <2>8. Serve(r) => FinishBatch(r)
      BY <1>1 DEF Serve, AcquireLock, GuardBusy, GuardEntity, ClaimProducts, StorePage, SyncEntity,
         ReleaseLock, Commit, Rollback, Reply, RequestState
    <2>9. QED
      BY <2>2, <2>3, <2>4, <2>5, <2>6, <2>7, <2>8 DEF Next
  <1>3. req'[r].cp = Checkpointed(req[r]) /\ Outcome(req[r]) = "more" /\ BatchEnded(req[r])
    BY <1>2 DEF FinishBatch, RequestState
  <1>4. ~req[r].natural /\ ~req[r].failed /\ req[r].page - req[r].cp.page >= PagesPerBatch
    BY <1>3 DEF Outcome, BatchEnded
  <1>5. req'[r].cp.page = req[r].page
    BY <1>3, <1>4, CheckpointedFields DEF NextPosition
  <1>6. req[r].page \in Nat /\ req[r].cp.page \in Nat
    BY PageAssumption DEF RequestState, Row, Page
  <1>7. QED
    BY <1>4, <1>5, <1>6, PageAssumption

\* sync_product_request answers "more to do" only after it has moved the
\* position, so the browser loop does not stop with "nao avancou".
THEOREM Advances == Spec => BatchAdvances
  <1>1. Typed /\ AnswersInv /\ [Next]_vars =>
          [\A r \in Request :
             InSweep(r) /\ req'[r].result = "more" => req'[r].cp.page > req[r].cp.page]_vars
    BY StepAdvances
  <1>2. QED
    BY AnswersInvariance, <1>1, PTL DEF Spec, BatchAdvances
=============================================================================
