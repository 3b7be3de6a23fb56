----------------------------- MODULE OrderItems -----------------------------
(***************************************************************************)
(* The backfill of order items: an admin browser drives a cursor sweep     *)
(* over the orders that have no items, in batches of at most Limit orders. *)
(* Server and browser both keep the cursor; the server's wins.             *)
(*                                                                         *)
(* Orders are named by their primary keys, 1 .. MaxOrder in key order;     *)
(* cursor 0 is None.  Keys are uuid4: a new order may fall on either side  *)
(* of the cursor.  A request runs in ONE transaction, as in ProductSync;   *)
(* the Redis lock is shared with every other synchronisation, so that here *)
(* it only is one more reason for a conflict (Refused).                    *)
(***************************************************************************)
EXTENDS Claim, Naturals, FiniteSets

CONSTANTS
  Browser,        \* admin pages, each with a sessionStorage of its own
  Op,             \* the operation ids crypto.randomUUID() can return
  Request,        \* slots for the HTTP requests served at the same time
  MaxOrder,       \* bound on the orders
  Limit,          \* orders of one batch (100 in the browser)
  ResponseFirst,  \* FastAPI sends a response before (>= 0.118) the commit
  MaxTrouble,     \* bound on timeouts, failures, crashes and extra callers
  Nobody          \* no request

ASSUME OrderAssumption == MaxOrder \in Nat \ {0} /\ Limit \in Nat \ {0}
ASSUME TroubleAssumption == MaxTrouble \in Nat /\ ResponseFirst \in BOOLEAN
ASSUME NameAssumption ==
  NoOp \notin Op /\ Anon \notin Op /\ NoOp # Anon /\ Nobody \notin Request

VARIABLES
  checkpoint,  \* the committed row of entity "order_items"
  known,       \* keys of the orders that have ever existed
  bare,        \* committed orders without items
  guard,       \* the transaction that holds the advisory lock
  req,         \* the HTTP requests
  browser,     \* the admin pages
  used,        \* operation ids drawn so far
  gained,      \* orders given items by committed batches since the sweep began
  owed,        \* orders bare when a page began on a system at rest, not tried since
  trouble      \* how many disturbances may still happen

vars == <<checkpoint, known, bare, guard, req, browser, used, gained, owed, trouble>>

Order == 1 .. MaxOrder
Cursor == 0 .. MaxOrder

\* keyed: the totals have a key "cursor" (they get it from the first batch that
\* had no failure).  enriched is totals.orders_enriched.
Row == [owner : Op \cup {Anon, NoOp}, live : BOOLEAN,
        status : {"absent", "running", "failed", "completed"},
        keyed : BOOLEAN, cursor : Cursor, enriched : Nat]

NoRow == [owner |-> NoOp, live |-> FALSE, status |-> "absent",
          keyed |-> FALSE, cursor |-> 0, enriched |-> 0]

Phase == {"idle", "claim", "select", "enrich", "exit", "reply"}
Written == {"more", "failed", "done"}
Raised == {"conflict", "error"}
Result == {"none", "replayed"} \cup Written \cup Raised

\* sent is after_external_id; start the cursor the batch really begins at; todo
\* the selected orders not tried yet; last the key of the last selected one.
RequestState ==
  [phase : Phase, op : Op \cup {NoOp}, sent : Cursor, cp : Row, start : Cursor,
   todo : SUBSET Order, last : Cursor, more : BOOLEAN, failed : BOOLEAN,
   tried : SUBSET Order, gained : SUBSET Order, result : Result, replied : BOOLEAN]

IdleRequest ==
  [phase |-> "idle", op |-> NoOp, sent |-> 0, cp |-> NoRow, start |-> 0,
   todo |-> {}, last |-> 0, more |-> FALSE, failed |-> FALSE,
   tried |-> {}, gained |-> {}, result |-> "none", replied |-> FALSE]

BrowserState == [op : Op \cup {NoOp}, cursor : Cursor, req : Request \cup {Nobody}]

TypeOK ==
  /\ checkpoint \in Row
  /\ known \in SUBSET Order /\ bare \in SUBSET known
  /\ guard \in Request \cup {Nobody}
  /\ req \in [Request -> RequestState]
  /\ browser \in [Browser -> BrowserState]
  /\ used \in SUBSET Op
  /\ gained \in SUBSET known /\ owed \in SUBSET bare
  /\ trouble \in 0 .. MaxTrouble

Init ==
  /\ checkpoint = NoRow
  /\ known \in SUBSET Order /\ bare = known
  /\ guard = Nobody
  /\ req = [r \in Request |-> IdleRequest]
  /\ browser = [b \in Browser |-> [op |-> NoOp, cursor |-> 0, req |-> Nobody]]
  /\ used = {} /\ gained = {} /\ owed = {}
  /\ trouble = MaxTrouble

----------------------------------------------------------------------------
(* What a batch does to the row.                                           *)

\* Fault: a new sweep keeps the old totals.
RestartedWithTotals(cp) ==
  IF Unfinished(cp) THEN cp ELSE [cp EXCEPT !.keyed = FALSE, !.cursor = 0]

Restarted(cp) ==
  IF Unfinished(cp) THEN cp
  ELSE [cp EXCEPT !.keyed = FALSE, !.cursor = 0, !.enriched = 0]

Claimed(cp, o) ==
  [Restarted(cp) EXCEPT !.owner = OwnerFor(o), !.live = TRUE, !.status = "running"]

\* totals.get("cursor", cursor)
Start(cp, sent) == IF cp.keyed THEN cp.cursor ELSE sent

\* find_orders_without_items: bare orders behind the cursor, at most n of them.
Found(from, n) ==
  {o \in bare : from < o /\ Cardinality({p \in bare : from < p /\ p < o}) < n}

\* Fault: the extra order, read to learn has_more, is not read.
NoExtra(from) == Found(from, Limit) # Found(from, Limit)

LastOf(from) == LET S == Found(from, Limit) IN
  IF S = {} THEN 0 ELSE CHOOSE o \in S : \A p \in S : p <= o

HasMore(from) == Found(from, Limit + 1) # Found(from, Limit)

\* Fault: a batch with failures moves the cursor too.
CheckpointedAnyway(q) ==
  [q.cp EXCEPT !.keyed = TRUE,
               !.cursor = q.last,
               !.enriched = @ + Cardinality(q.gained),
               !.live = TRUE,
               !.status = IF q.failed THEN "failed" ELSE IF q.more THEN "running" ELSE "completed"]

\* The row backfill_order_item_request writes at the end of the batch.
Checkpointed(q) ==
  [q.cp EXCEPT !.keyed = @ \/ ~q.failed,
               !.cursor = IF q.failed THEN @ ELSE q.last,
               !.enriched = @ + Cardinality(q.gained),
               !.live = TRUE,
               !.status = IF q.failed THEN "failed" ELSE IF q.more THEN "running" ELSE "completed"]

Outcome(q) == IF q.failed THEN "failed" ELSE IF q.more THEN "more" ELSE "done"

----------------------------------------------------------------------------
(* The admin page: runOrderItemBatches, and sync-all, which runs the same  *)
(* handler without a cursor.                                               *)

Arrive(r, o, cursor) ==
  req' = [req EXCEPT ![r] = [IdleRequest EXCEPT !.phase = "claim", !.op = o, !.sent = cursor]]

\* Nothing is under way: no page, no request, no unfinished sweep.
AtRest ==
  /\ ~Unfinished(checkpoint)
  /\ \A b \in Browser : browser[b].op = NoOp
  /\ \A r \in Request : req[r].phase = "idle"

SendBatch(b, r) ==
  /\ browser[b].req = Nobody
  /\ req[r].phase = "idle"
  /\ \E o \in Op :
       /\ \/ browser[b].op = o /\ UNCHANGED <<used, owed>>
          \/ /\ browser[b].op = NoOp /\ o \notin used
             /\ used' = used \cup {o}
             /\ owed' = IF AtRest THEN bare ELSE owed
       /\ browser' = [browser EXCEPT ![b].op = o, ![b].req = r]
       /\ Arrive(r, o, browser[b].cursor)
  /\ UNCHANGED <<checkpoint, known, bare, guard, gained, trouble>>

Disturb == trouble > 0 /\ trouble' = trouble - 1

Call(r, o) ==
  /\ Disturb
  /\ req[r].phase = "idle"
  /\ o \in used \cup {NoOp}
  /\ Arrive(r, o, 0)
  /\ UNCHANGED <<checkpoint, known, bare, guard, browser, used, gained, owed>>

\* The proxy gives up after 120 s; the request goes on in the backend.
GiveUp(b) ==
  /\ Disturb
  /\ browser[b].req # Nobody
  /\ browser' = [browser EXCEPT ![b].req = Nobody]
  /\ UNCHANGED <<checkpoint, known, bare, guard, req, used, gained, owed>>

\* The tab is closed: operation id and cursor are gone.
CloseTab(b) ==
  /\ Disturb
  /\ browser[b].op # NoOp
  /\ browser' = [browser EXCEPT ![b] = [op |-> NoOp, cursor |-> 0, req |-> Nobody]]
  /\ UNCHANGED <<checkpoint, known, bare, guard, req, used, gained, owed>>

----------------------------------------------------------------------------
(* The handler.                                                            *)

\* The Redis key of SyncLock("sync"), or the advisory lock, is another
\* synchronisation's: 409.
Refused(r) ==
  /\ Disturb
  /\ req[r].phase = "claim"
  /\ req' = [req EXCEPT ![r].phase = "exit", ![r].result = "conflict"]
  /\ UNCHANGED <<checkpoint, known, bare, guard, browser, used, gained, owed>>

\* Fault: the guard is not looked at.
GuardFreeUnchecked(r) == r \in Request

GuardFree(r) == guard \in {Nobody, r}

GuardBusy(r) ==
  /\ req[r].phase = "claim"
  /\ ~GuardFree(r)
  /\ req' = [req EXCEPT ![r].phase = "exit", ![r].result = "conflict"]
  /\ UNCHANGED <<checkpoint, known, bare, guard, browser, used, gained, owed, trouble>>

ClaimItems(r) ==
  LET q == req[r] IN
  /\ q.phase = "claim"
  /\ GuardFree(r)
  /\ guard' = r
  /\ \/ /\ Refuses(checkpoint, q.op)
        /\ req' = [req EXCEPT ![r].phase = "exit", ![r].result = "conflict"]
     \/ /\ Replays(checkpoint, q.op)
        /\ req' = [req EXCEPT ![r].phase = "exit", ![r].result = "replayed"]
     \/ /\ ~Refuses(checkpoint, q.op) /\ ~Replays(checkpoint, q.op)
        /\ req' = [req EXCEPT
             ![r].phase = "select",
             ![r].cp = Claimed(checkpoint, q.op),
             ![r].start = Start(Restarted(checkpoint), q.sent)]
  /\ UNCHANGED <<checkpoint, known, bare, browser, used, gained, owed, trouble>>

SelectOrders(r) ==
  LET from == req[r].start IN
  /\ req[r].phase = "select"
  /\ req' = [req EXCEPT ![r].phase = "enrich",
                        ![r].todo = Found(from, Limit),
                        ![r].last = LastOf(from),
                        ![r].more = HasMore(from)]
  /\ UNCHANGED <<checkpoint, known, bare, guard, browser, used, gained, owed, trouble>>

First(S) == CHOOSE o \in S : \A p \in S : o <= p

\* The detail of the next order is fetched.  It gives the order its items, or
\* leaves it bare: not found, no items in it, or none of a known product.
EnrichOrder(r) ==
  LET o == First(req[r].todo) IN
  /\ req[r].phase = "enrich" /\ req[r].todo # {}
  /\ \E new \in {{}, {o}} :
       /\ new \subseteq bare
       /\ req' = [req EXCEPT ![r].todo = @ \ {o},
                             ![r].tried = @ \cup {o},
                             ![r].gained = @ \cup new]
  /\ UNCHANGED <<checkpoint, known, bare, guard, browser, used, gained, owed, trouble>>

\* The fetch raises, or the savepoint is rolled back: the batch goes on.
OrderFails(r) ==
  /\ Disturb
  /\ req[r].phase = "enrich" /\ req[r].todo # {}
  /\ req' = [req EXCEPT ![r].todo = @ \ {First(req[r].todo)}, ![r].failed = TRUE]
  /\ UNCHANGED <<checkpoint, known, bare, guard, browser, used, gained, owed>>

FinishBatch(r) ==
  /\ req[r].phase = "enrich" /\ req[r].todo = {}
  /\ req' = [req EXCEPT ![r].phase = "exit",
                        ![r].cp = Checkpointed(req[r]),
                        ![r].result = Outcome(req[r])]
  /\ UNCHANGED <<checkpoint, known, bare, guard, browser, used, gained, owed, trouble>>

\* A statement outside the savepoints fails, or the release of the Redis lock
\* does: the handler raises.
HandlerFails(r) ==
  /\ Disturb
  /\ \/ req[r].phase \in {"claim", "select", "enrich"}
     \/ req[r].phase = "exit" /\ req[r].result \notin Raised /\ ~req[r].replied
  /\ req' = [req EXCEPT ![r].phase = "exit", ![r].result = "error"]
  /\ UNCHANGED <<checkpoint, known, bare, guard, browser, used, gained, owed>>

----------------------------------------------------------------------------
(* The end of the request, as in ProductSync.                              *)

GuardWithout(r) == IF guard = r THEN Nobody ELSE guard

Ended(r) == IF req[r].replied THEN IdleRequest ELSE [req[r] EXCEPT !.phase = "reply"]

Commit(r) ==
  LET q == req[r] IN
  /\ q.phase = "exit" /\ q.result \notin Raised
  /\ ResponseFirst => q.replied
  /\ guard' = GuardWithout(r)
  /\ IF q.result \in Written
       THEN /\ checkpoint' = q.cp
            /\ bare' = bare \ q.gained
            /\ owed' = owed \ (q.tried \cup q.gained)
            /\ gained' = (IF Unfinished(checkpoint) THEN gained ELSE {}) \cup q.gained
       ELSE UNCHANGED <<checkpoint, bare, owed, gained>>
  /\ req' = [req EXCEPT ![r] = Ended(r)]
  /\ UNCHANGED <<known, browser, used, trouble>>

Rollback(r) ==
  /\ req[r].phase = "exit" /\ req[r].result \in Raised
  /\ guard' = GuardWithout(r)
  /\ req' = [req EXCEPT ![r] = Ended(r)]
  /\ UNCHANGED <<checkpoint, known, bare, browser, used, gained, owed, trouble>>

CommitFails(r) ==
  /\ Disturb
  /\ req[r].phase = "exit" /\ req[r].result \notin Raised
  /\ ResponseFirst => req[r].replied
  /\ guard' = GuardWithout(r)
  /\ req' = [req EXCEPT ![r] = [Ended(r) EXCEPT !.result = IF req[r].replied THEN @ ELSE "error"]]
  /\ UNCHANGED <<checkpoint, known, bare, browser, used, gained, owed>>

\* "Cursor nao avancou": has_more without a next cursor, or with the one sent.
Stuck(q) == q.result = "more" /\ q.last \in {0, q.sent}

\* What the page that waits makes of the answer: at the end both keys are
\* dropped, a batch with more to do leaves its cursor, every other answer
\* throws and leaves both keys for a retry.
Received(page, q) ==
  IF q.result \in {"done", "replayed"} THEN [op |-> NoOp, cursor |-> 0, req |-> Nobody]
  ELSE [page EXCEPT !.req = Nobody,
                    !.cursor = IF q.result = "more" /\ ~Stuck(q) THEN q.last ELSE @]

Answerable(r) ==
  \/ req[r].phase = "reply"
  \/ /\ ResponseFirst /\ req[r].phase = "exit"
     /\ req[r].result \notin Raised /\ ~req[r].replied

Reply(r) ==
  /\ Answerable(r)
  /\ req' = [req EXCEPT ![r] = IF req[r].phase = "reply" THEN IdleRequest
                               ELSE [req[r] EXCEPT !.replied = TRUE]]
  /\ browser' = [b \in Browser |->
       IF browser[b].req = r THEN Received(browser[b], req[r]) ELSE browser[b]]
  /\ UNCHANGED <<checkpoint, known, bare, guard, used, gained, owed, trouble>>

\* The worker is killed: its transaction is rolled back.
Crash(r) ==
  /\ Disturb
  /\ req[r].phase # "idle"
  /\ guard' = GuardWithout(r)
  /\ req' = [req EXCEPT ![r] = IdleRequest]
  /\ browser' = [b \in Browser |->
       IF browser[b].req = r THEN [browser[b] EXCEPT !.req = Nobody] ELSE browser[b]]
  /\ UNCHANGED <<checkpoint, known, bare, used, gained, owed>>

----------------------------------------------------------------------------
(* The environment: time, and the orders API, which takes no lock.         *)

LeaseExpires ==
  /\ checkpoint.live
  /\ checkpoint' = [checkpoint EXCEPT !.live = FALSE]
  /\ UNCHANGED <<known, bare, guard, req, browser, used, gained, owed, trouble>>

\* An order without items is created.
OrderArrives(o) ==
  /\ o \notin known
  /\ known' = known \cup {o}
  /\ bare' = bare \cup {o}
  /\ UNCHANGED <<checkpoint, guard, req, browser, used, gained, owed, trouble>>

\* An order is deleted; one whose items were just inserted is locked until
\* their transaction ends.
OrderGoes(o) ==
  /\ o \in bare
  /\ \A r \in Request : o \notin req[r].gained
  /\ bare' = bare \ {o}
  /\ owed' = owed \ {o}
  /\ UNCHANGED <<checkpoint, known, guard, req, browser, used, gained, trouble>>

----------------------------------------------------------------------------
Serve(r) ==
  \/ GuardBusy(r) \/ ClaimItems(r) \/ SelectOrders(r) \/ EnrichOrder(r)
  \/ FinishBatch(r) \/ Commit(r) \/ Rollback(r) \/ Reply(r)

Fault(r) ==
  Refused(r) \/ OrderFails(r) \/ HandlerFails(r) \/ CommitFails(r) \/ Crash(r)

Next ==
  \/ \E b \in Browser, r \in Request : SendBatch(b, r)
  \/ \E r \in Request, o \in Op \cup {NoOp} : Call(r, o)
  \/ \E b \in Browser : GiveUp(b) \/ CloseTab(b)
  \/ \E r \in Request : Serve(r) \/ Fault(r)
  \/ \E o \in Order : OrderArrives(o) \/ OrderGoes(o)
  \/ LeaseExpires

Spec == Init /\ [][Next]_vars

\* A handler that has begun runs to its end, the lease expires, and a page
\* sends its next batch or is asked to resume.
Fairness ==
  /\ \A r \in Request : WF_vars(Serve(r))
  /\ \A b \in Browser : WF_vars(\E r \in Request : browser[b].op # NoOp /\ SendBatch(b, r))
  /\ WF_vars(LeaseExpires)

FairSpec == Spec /\ Fairness

----------------------------------------------------------------------------
(* Properties.                                                             *)

Passed(cursor) == \A o \in owed : cursor < o

\* No cursor, of the server or of a page, ever lies beyond an order that was
\* without items when the pages began and has not been tried since: whatever
\* batch failed, was rolled back, lost its answer or was taken over, no order
\* is skipped (sync_service.py:789 and :804 decide which cursor counts).
CursorSkipsNothing ==
  /\ Unfinished(checkpoint) /\ checkpoint.keyed => Passed(checkpoint.cursor)
  /\ \A b \in Browser : Passed(browser[b].cursor)

\* A page that is about to be told that the backfill is over is told so after
\* every order it found without items has been tried.
ToldIsSwept ==
  \A b \in Browser, r \in Request :
    /\ browser[b].req = r /\ Answerable(r)
    /\ req[r].result \in {"done", "replayed"}
    => owed = {}

\* The totals count each order that a sweep gave items once, across failed
\* batches, retries and takeovers.
EnrichedExact == checkpoint.enriched = Cardinality(gained)

\* While a sweep is open its cursor never falls back, and a batch without
\* failure that leaves the sweep open moves it on.
CursorForward ==
  [][Unfinished(checkpoint) /\ Unfinished(checkpoint') /\ checkpoint.keyed
     => /\ checkpoint'.keyed /\ checkpoint.cursor <= checkpoint'.cursor
        /\ (checkpoint' # checkpoint /\ checkpoint'.live /\ checkpoint'.status = "running")
             => checkpoint.cursor < checkpoint'.cursor]_vars

\* A page throws "Cursor nao avancou" only if the batch really ended where it
\* began (sync-batches.ts:43).
StuckIsTrue ==
  \A b \in Browser, r \in Request :
    browser[b].req = r /\ Answerable(r) /\ Stuck(req[r]) => req[r].last <= req[r].start

\* Whatever finite trouble happens, a backfill that is resumed whenever it
\* stops ends, even beside new orders and a sweep that somebody left behind.
OperationEnds == \A b \in Browser, o \in Op : browser[b].op = o ~> browser[b].op # o
=============================================================================
