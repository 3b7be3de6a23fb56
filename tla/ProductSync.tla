---------------------------- MODULE ProductSync ----------------------------
(***************************************************************************)
(* The resumable product synchronisation of the Bling integration          *)
(* (backend/modules/integration): an admin browser drives the import of    *)
(* the remote catalogue in bounded batches of pages; the server keeps the  *)
(* position in a checkpoint row.                                           *)
(*                                                                         *)
(* Concurrent HTTP requests are processes.  Three things keep them apart:  *)
(*   lock       the Redis key of SyncLock("sync"), which expires by TTL    *)
(*   guard      pg_try_advisory_xact_lock, held until commit or rollback   *)
(*   checkpoint the row of sync_checkpoints, with its owner and its lease  *)
(* Each request runs in ONE database transaction: what it writes is local  *)
(* (the cp and stored fields of its record) until Commit.                  *)
(***************************************************************************)
EXTENDS Claim, Naturals, FiniteSets

CONSTANTS
  Browser,        \* admin pages, each with a sessionStorage of its own
  Op,             \* the operation ids crypto.randomUUID() can return
  Request,        \* slots for the HTTP requests served at the same time
  MaxPage,        \* bound on the remote catalogue, in pages
  PagesPerBatch,  \* pages one request may read (5 in the browser)
  ResponseFirst,  \* FastAPI sends a response before (>= 0.118) the commit
  MaxTrouble,     \* bound on timeouts, failures, crashes and extra callers
  Nobody,         \* a lock that is free
  Dead            \* the Redis key of a request that no longer exists

ASSUME PageAssumption == MaxPage \in Nat \ {0} /\ PagesPerBatch \in Nat \ {0}
ASSUME TroubleAssumption == MaxTrouble \in Nat /\ ResponseFirst \in BOOLEAN
ASSUME OpAssumption == NoOp \notin Op /\ Anon \notin Op /\ NoOp # Anon
ASSUME RequestAssumption == Nobody \notin Request /\ Dead \notin Request /\ Nobody # Dead

VARIABLES
  checkpoint,  \* the committed row of entity "products"
  stored,      \* pages whose products are committed since the sweep began
  guard,       \* the transaction that holds the advisory lock
  lock,        \* the owner stored under the Redis key
  req,         \* the HTTP requests
  browser,     \* the admin pages
  used,        \* operation ids drawn so far
  finished,    \* operations whose completion has been committed
  told,        \* operations a browser was told are complete
  trouble      \* how many disturbances may still happen

vars == <<checkpoint, stored, guard, lock, req, browser, used, finished, told, trouble>>

Page == 1 .. MaxPage
Owner == Op \cup {Anon, NoOp}

\* Totals are kept in pages: processed counts pages whose items were counted,
\* failed counts pages of which something failed.
Row == [owner : Owner, live : BOOLEAN,
        status : {"absent", "running", "failed", "completed"},
        page : Page, lastDone : 0 .. MaxPage, processed : Nat, failed : Nat]

NoRow == [owner |-> NoOp, live |-> FALSE, status |-> "absent",
          page |-> 1, lastDone |-> 0, processed |-> 0, failed |-> 0]

Kind == {"batch", "products", "entity"}
Phase == {"idle", "lock", "claim", "sweep", "work", "release", "exit", "reply"}

\* Results whose transaction wrote the checkpoint, and those of a request that
\* raised: its transaction is rolled back.
Written == {"more", "failed", "done"}
Raised == {"conflict", "error"}
Result == {"none", "replayed", "synced"} \cup Written \cup Raised

RequestState ==
  [kind : Kind, phase : Phase, op : Op \cup {NoOp}, cp : Row, stored : SUBSET Page,
   page : 1 .. MaxPage + 1, processed : Nat, natural : BOOLEAN, failed : BOOLEAN,
   result : Result, replied : BOOLEAN]

IdleRequest ==
  [kind |-> "batch", phase |-> "idle", op |-> NoOp, cp |-> NoRow, stored |-> {},
   page |-> 1, processed |-> 0, natural |-> FALSE, failed |-> FALSE,
   result |-> "none", replied |-> FALSE]

BrowserState == [op : Op \cup {NoOp}, req : Request \cup {Nobody}]

TypeOK ==
  /\ checkpoint \in Row
  /\ stored \in SUBSET Page
  /\ guard \in Request \cup {Nobody}
  /\ lock \in Request \cup {Nobody, Dead}
  /\ req \in [Request -> RequestState]
  /\ browser \in [Browser -> BrowserState]
  /\ used \in SUBSET Op
  /\ finished \in SUBSET Op
  /\ told \in SUBSET Op
  /\ trouble \in 0 .. MaxTrouble

Init ==
  /\ checkpoint = NoRow
  /\ stored = {}
  /\ guard = Nobody
  /\ lock = Nobody
  /\ req = [r \in Request |-> IdleRequest]
  /\ browser = [b \in Browser |-> [op |-> NoOp, req |-> Nobody]]
  /\ used = {}
  /\ finished = {}
  /\ told = {}
  /\ trouble = MaxTrouble

----------------------------------------------------------------------------
(* What a claim makes of the checkpoint row it reads (see Claim).          *)

\* Faults a restart could have: a new sweep keeps the old page or the old totals.
RestartedInPlace(cp) ==
  IF Unfinished(cp) THEN cp ELSE [cp EXCEPT !.processed = 0, !.failed = 0]
RestartedWithTotals(cp) ==
  IF Unfinished(cp) THEN cp ELSE [cp EXCEPT !.page = 1, !.lastDone = 0]

Restarted(cp) ==
  IF Unfinished(cp) THEN cp
  ELSE [cp EXCEPT !.page = 1, !.lastDone = 0, !.processed = 0, !.failed = 0]

Claimed(cp, o) ==
  [Restarted(cp) EXCEPT !.owner = OwnerFor(o),
                        !.live = TRUE, !.status = "running"]

\* Faults: the position is next_page even where there is none; a failed batch
\* counts as progress.
NextPositionAlways(q) == q.page
OutcomeOfPages(q) == IF q.natural THEN "done" ELSE "more"

\* result.next_page or result.end_page
NextPosition(q) == IF q.natural THEN q.page - 1 ELSE q.page

\* What a batch adds to totals.failed.
Failures(q) == IF q.failed THEN 1 ELSE 0

\* The row sync_product_request writes once the batch of request q has ended.
Checkpointed(q) ==
  [q.cp EXCEPT !.page = NextPosition(q),
               !.lastDone = q.page - 1,
               !.processed = @ + q.processed,
               !.failed = @ + Failures(q),
               !.live = TRUE,
               !.status = IF q.failed THEN "failed"
                          ELSE IF q.natural THEN "completed" ELSE "running"]

Outcome(q) ==
  IF q.failed THEN "failed" ELSE IF q.natural THEN "done" ELSE "more"

\* Where the finally block of a handler leads: only an endpoint that took the
\* Redis lock has one to release.
Unwind(kind) == IF kind = "products" THEN "exit" ELSE "release"

----------------------------------------------------------------------------
(* The admin page: runProductBatches, and other callers of the API.        *)

Arrive(r, kind, o) ==
  req' = [req EXCEPT ![r] = [IdleRequest EXCEPT
            !.kind = kind, !.op = o,
            !.phase = IF kind = "batch" THEN "lock" ELSE "claim"]]

\* The page keeps its operation id in sessionStorage until the loop has ended,
\* so that a retry after an error resumes the same operation.
SendBatch(b, r) ==
  /\ browser[b].req = Nobody
  /\ req[r].phase = "idle"
  /\ \E o \in Op :
       /\ \/ browser[b].op = o /\ UNCHANGED used
          \/ browser[b].op = NoOp /\ o \notin used /\ used' = used \cup {o}
       /\ browser' = [browser EXCEPT ![b] = [op |-> o, req |-> r]]
       /\ Arrive(r, "batch", o)
  /\ UNCHANGED <<checkpoint, stored, guard, lock, finished, told, trouble>>

Disturb == trouble > 0 /\ trouble' = trouble - 1

\* POST /sync/products (with or without operation_id) and POST /sync/{entity}
\* of any admin client.
Call(r, kind, o) ==
  /\ Disturb
  /\ req[r].phase = "idle"
  /\ kind = "entity" => o = NoOp
  /\ o \in used \cup {NoOp}
  /\ Arrive(r, kind, o)
  /\ UNCHANGED <<checkpoint, stored, guard, lock, browser, used, finished, told>>

\* The proxy gives up after 120 s; the request goes on in the backend.
GiveUp(b) ==
  /\ Disturb
  /\ browser[b].req # Nobody
  /\ browser' = [browser EXCEPT ![b].req = Nobody]
  /\ UNCHANGED <<checkpoint, stored, guard, lock, req, used, finished, told>>

\* The tab is closed: its sessionStorage and its operation id are gone.
CloseTab(b) ==
  /\ Disturb
  /\ browser[b].op # NoOp
  /\ browser' = [browser EXCEPT ![b] = [op |-> NoOp, req |-> Nobody]]
  /\ UNCHANGED <<checkpoint, stored, guard, lock, req, used, finished, told>>

----------------------------------------------------------------------------
(* The handlers.                                                           *)

AcquireLock(r) ==
  /\ req[r].phase = "lock"
  /\ \/ /\ lock = Nobody
        /\ lock' = r
        /\ req' = [req EXCEPT ![r].phase = IF req[r].kind = "batch" THEN "claim" ELSE "work"]
     \/ /\ lock # Nobody
        /\ req' = [req EXCEPT ![r].phase = "exit", ![r].result = "conflict"]
        /\ UNCHANGED lock
  /\ UNCHANGED <<checkpoint, stored, guard, browser, used, finished, told, trouble>>

\* Redis cannot be reached while the key is set: the handler raises before its
\* try block, and the key may have been written all the same.
AcquireFails(r) ==
  /\ Disturb
  /\ req[r].phase = "lock"
  /\ lock' \in {lock, IF lock = Nobody THEN Dead ELSE lock}
  /\ req' = [req EXCEPT ![r].phase = "exit", ![r].result = "error"]
  /\ UNCHANGED <<checkpoint, stored, guard, browser, used, finished, told>>

\* Fault: the lock is taken without looking at the answer.
GuardFreeUnchecked(r) == r \in Request

GuardFree(r) == guard \in {Nobody, r}

\* acquire_guard fails: 409 "Product batch already running".
GuardBusy(r) ==
  /\ req[r].phase = "claim"
  /\ ~GuardFree(r)
  /\ req' = [req EXCEPT ![r].result = "conflict",
                        ![r].phase = IF req[r].kind = "batch" THEN "release" ELSE "exit"]
  /\ UNCHANGED <<checkpoint, stored, guard, lock, browser, used, finished, told, trouble>>

\* POST /sync/{entity} takes the guard first and the Redis lock second.
GuardEntity(r) ==
  /\ req[r].phase = "claim" /\ req[r].kind = "entity"
  /\ GuardFree(r)
  /\ guard' = r
  /\ req' = [req EXCEPT ![r].phase = "lock"]
  /\ UNCHANGED <<checkpoint, stored, lock, browser, used, finished, told, trouble>>

\* claim_products: guard, then the row decides.
ClaimProducts(r) ==
  LET o == req[r].op IN
  /\ req[r].phase = "claim" /\ req[r].kind # "entity"
  /\ GuardFree(r)
  /\ guard' = r
  /\ \/ /\ Refuses(checkpoint, o)
        /\ req' = [req EXCEPT ![r].result = "conflict", ![r].phase = Unwind(req[r].kind)]
     \/ /\ Replays(checkpoint, o)
        /\ req' = [req EXCEPT ![r].result = "replayed", ![r].phase = Unwind(req[r].kind)]
     \/ /\ ~Refuses(checkpoint, o) /\ ~Replays(checkpoint, o)
        /\ req' = [req EXCEPT
             ![r].cp = Claimed(checkpoint, o),
             ![r].page = Restarted(checkpoint).page,
             ![r].stored = IF Unfinished(checkpoint) THEN stored ELSE {},
             ![r].processed = 0, ![r].natural = FALSE, ![r].failed = FALSE,
             ![r].phase = "sweep"]
  /\ UNCHANGED <<checkpoint, stored, lock, browser, used, finished, told, trouble>>

BatchEnded(q) == q.natural \/ q.failed \/ q.page - q.cp.page >= PagesPerBatch

\* One page is fetched and every item of it is stored or skipped.  The remote
\* catalogue may grow and shrink between two requests: any page may come back
\* short, the bound MaxPage makes the last one short.
StorePage(r) ==
  LET p == req[r].page IN
  /\ req[r].phase = "sweep" /\ ~BatchEnded(req[r])
  /\ \E short \in BOOLEAN :
       /\ p = MaxPage => short
       /\ req' = [req EXCEPT ![r].stored = @ \cup {p},
                             ![r].page = p + 1,
                             ![r].processed = @ + 1,
                             ![r].natural = short]
  /\ UNCHANGED <<checkpoint, stored, guard, lock, browser, used, finished, told, trouble>>

\* The fetch fails (nothing counted), or items of the page fail (the others
\* are stored and counted): the batch ends and the page is to be read again.
PageFails(r) ==
  /\ Disturb
  /\ req[r].phase = "sweep" /\ ~BatchEnded(req[r])
  /\ \E counted \in {0, 1} :
       req' = [req EXCEPT ![r].failed = TRUE, ![r].processed = @ + counted]
  /\ UNCHANGED <<checkpoint, stored, guard, lock, browser, used, finished, told>>

FinishBatch(r) ==
  /\ req[r].phase = "sweep" /\ BatchEnded(req[r])
  /\ req' = [req EXCEPT ![r].cp = Checkpointed(req[r]),
                        ![r].result = Outcome(req[r]),
                        ![r].phase = Unwind(req[r].kind)]
  /\ UNCHANGED <<checkpoint, stored, guard, lock, browser, used, finished, told, trouble>>

\* The run of an entity other than products, under guard and Redis lock.
SyncEntity(r) ==
  /\ req[r].phase = "work"
  /\ req' = [req EXCEPT ![r].result = "synced", ![r].phase = "release"]
  /\ UNCHANGED <<checkpoint, stored, guard, lock, browser, used, finished, told, trouble>>

\* A statement of the transaction fails inside the handler: the exception
\* passes the finally block on its way out.
StatementFails(r) ==
  /\ Disturb
  /\ req[r].phase \in {"claim", "sweep", "work"}
  /\ req' = [req EXCEPT
       ![r].result = "error",
       ![r].phase = IF req[r].kind = "entity" /\ req[r].phase = "claim"
                    THEN "exit" ELSE Unwind(req[r].kind)]
  /\ UNCHANGED <<checkpoint, stored, guard, lock, browser, used, finished, told>>

\* Fault: DEL without the comparison.
KeyDeleted(r) == IF lock = Dead THEN lock ELSE Nobody

KeyWithout(r) == IF lock = r THEN Nobody ELSE lock

\* SyncLock.release: compare and delete.
ReleaseLock(r) ==
  /\ req[r].phase = "release"
  /\ lock' = KeyWithout(r)
  /\ req' = [req EXCEPT ![r].phase = "exit"]
  /\ UNCHANGED <<checkpoint, stored, guard, browser, used, finished, told, trouble>>

\* Redis cannot be reached: release raises, the key stays until its TTL and
\* the exception replaces the result of the handler.
ReleaseFails(r) ==
  /\ Disturb
  /\ req[r].phase = "release"
  /\ lock' = IF lock = r THEN Dead ELSE lock
  /\ req' = [req EXCEPT ![r].phase = "exit", ![r].result = "error"]
  /\ UNCHANGED <<checkpoint, stored, guard, browser, used, finished, told>>

----------------------------------------------------------------------------
(* The end of the request: get_db_session commits or rolls back, and the   *)
(* response goes out.                                                      *)

\* Fault: a lock of the session instead of one of the transaction.
GuardOfSession(r) == IF guard = r THEN r ELSE guard

GuardWithout(r) == IF guard = r THEN Nobody ELSE guard

Ended(r) == IF req[r].replied THEN IdleRequest ELSE [req[r] EXCEPT !.phase = "reply"]

Commit(r) ==
  /\ req[r].phase = "exit" /\ req[r].result \notin Raised
  /\ ResponseFirst => req[r].replied
  /\ guard' = GuardWithout(r)
  /\ IF req[r].result \in Written
       THEN /\ checkpoint' = req[r].cp
            /\ stored' = req[r].stored
            /\ finished' = IF req[r].result = "done" THEN finished \cup ({req[r].op} \ {NoOp})
                           ELSE finished
       ELSE UNCHANGED <<checkpoint, stored, finished>>
  /\ req' = [req EXCEPT ![r] = Ended(r)]
  /\ UNCHANGED <<lock, browser, used, told, trouble>>

Rollback(r) ==
  /\ req[r].phase = "exit" /\ req[r].result \in Raised
  /\ guard' = GuardWithout(r)
  /\ req' = [req EXCEPT ![r] = Ended(r)]
  /\ UNCHANGED <<checkpoint, stored, lock, browser, used, finished, told, trouble>>

CommitFails(r) ==
  /\ Disturb
  /\ req[r].phase = "exit" /\ req[r].result \notin Raised
  /\ ResponseFirst => req[r].replied
  /\ guard' = GuardWithout(r)
  /\ req' = [req EXCEPT ![r] = [Ended(r) EXCEPT !.result = IF req[r].replied THEN @ ELSE "error"]]
  /\ UNCHANGED <<checkpoint, stored, lock, browser, used, finished, told>>

\* The browser that still waits for r reads the result: "done" and "replayed"
\* end the loop and drop the operation id, "more" asks for the next batch,
\* every other result throws and leaves the id for a retry.
Receive(r) ==
  LET waiting == {b \in Browser : browser[b].req = r}
      over == req[r].result \in {"done", "replayed"} IN
  /\ browser' = [b \in Browser |->
       IF b \in waiting
         THEN [op |-> IF over THEN NoOp ELSE browser[b].op, req |-> Nobody]
         ELSE browser[b]]
  /\ told' = IF over THEN told \cup {browser[b].op : b \in waiting} ELSE told

Reply(r) ==
  /\ \/ /\ req[r].phase = "reply"
        /\ req' = [req EXCEPT ![r] = IdleRequest]
     \/ /\ ResponseFirst /\ req[r].phase = "exit"
        /\ req[r].result \notin Raised /\ ~req[r].replied
        /\ req' = [req EXCEPT ![r].replied = TRUE]
  /\ Receive(r)
  /\ UNCHANGED <<checkpoint, stored, guard, lock, used, finished, trouble>>

\* The worker is killed: the connection drops, the transaction is rolled back,
\* the Redis key stays.  A browser that waits gets a 502.
Crash(r) ==
  /\ Disturb
  /\ req[r].phase # "idle"
  /\ guard' = GuardWithout(r)
  /\ lock' = IF lock = r THEN Dead ELSE lock
  /\ req' = [req EXCEPT ![r] = IdleRequest]
  /\ browser' = [b \in Browser |->
       IF browser[b].req = r THEN [browser[b] EXCEPT !.req = Nobody] ELSE browser[b]]
  /\ UNCHANGED <<checkpoint, stored, used, finished, told>>

----------------------------------------------------------------------------
(* Time: ten minutes pass, for the Redis key or for the lease.             *)

LockExpires ==
  /\ lock # Nobody
  /\ lock' = Nobody
  /\ UNCHANGED <<checkpoint, stored, guard, req, browser, used, finished, told, trouble>>

LeaseExpires ==
  /\ checkpoint.live
  /\ checkpoint' = [checkpoint EXCEPT !.live = FALSE]
  /\ UNCHANGED <<stored, guard, lock, req, browser, used, finished, told, trouble>>

----------------------------------------------------------------------------
Serve(r) ==
  \/ AcquireLock(r) \/ GuardBusy(r) \/ GuardEntity(r) \/ ClaimProducts(r)
  \/ StorePage(r) \/ FinishBatch(r) \/ SyncEntity(r) \/ ReleaseLock(r)
  \/ Commit(r) \/ Rollback(r) \/ Reply(r)

Fault(r) ==
  \/ AcquireFails(r) \/ PageFails(r) \/ StatementFails(r) \/ ReleaseFails(r)
  \/ CommitFails(r) \/ Crash(r)

Next ==
  \/ \E b \in Browser, r \in Request : SendBatch(b, r)
  \/ \E r \in Request, k \in {"products", "entity"}, o \in Op \cup {NoOp} : Call(r, k, o)
  \/ \E b \in Browser : GiveUp(b) \/ CloseTab(b)
  \/ \E r \in Request : Serve(r) \/ Fault(r)
  \/ LockExpires
  \/ LeaseExpires

Spec == Init /\ [][Next]_vars

\* A handler that has begun runs to its end, keys and leases expire, and an
\* admin page sends its next batch or is asked to resume.
Fairness ==
  /\ \A r \in Request : WF_vars(Serve(r))
  /\ \A b \in Browser : WF_vars(\E r \in Request : browser[b].op # NoOp /\ SendBatch(b, r))
  /\ WF_vars(LockExpires)
  /\ WF_vars(LeaseExpires)

FairSpec == Spec /\ Fairness

----------------------------------------------------------------------------
(* Properties.                                                             *)

InSweep(r) == req[r].phase = "sweep"

\* The transaction of r has written the checkpoint and is still open.
HasWritten(r) == req[r].phase \in {"release", "exit"} /\ req[r].result \in Written

\* Between the claim and the end of its batch, the row a request works on is
\* the one it would claim now: nobody committed the checkpoint in between, even
\* if the Redis lock of the request has expired meanwhile (checkpoint.py:44).
ClaimStaysFresh ==
  \A r \in Request : InSweep(r) =>
    /\ ~Refuses(checkpoint, req[r].op) /\ ~Replays(checkpoint, req[r].op)
    /\ req[r].cp = Claimed(checkpoint, req[r].op)

\* The checkpoint never runs ahead of the data nor lags behind it: the products
\* stored since the sweep began are those of the pages it counts as done, and
\* an unfinished sweep resumes at the very next page.
StoredPrefix ==
  /\ stored = 1 .. checkpoint.lastDone
  /\ Unfinished(checkpoint) => checkpoint.page = checkpoint.lastDone + 1
  /\ checkpoint.status = "completed" => checkpoint.page = checkpoint.lastDone

\* Across batches, retries, replays and takeovers every page of a sweep enters
\* the totals, and enters them once, but for one more time at most for each
\* failure counted: of a page that failed, what was stored is counted again.
TotalsExact ==
  checkpoint.processed \in checkpoint.lastDone .. checkpoint.lastDone + checkpoint.failed

\* No browser drops its operation id before the completion of that operation
\* is committed.
ToldIsFinished == told \subseteq finished

\* A request never takes away a Redis lock that another request set, even when
\* its own has expired and been replaced (the compare in release).
LockLeftToOwner ==
  [][\A r, s \in Request :
       lock = s /\ lock' # s /\ req'[r] # req[r] => r = s]_vars

\* A batch without failure that leaves more to do has moved the checkpoint on,
\* which is what the browser loop relies on to end ("nao avancou").
BatchAdvances ==
  [][\A r \in Request :
       InSweep(r) /\ req'[r].result = "more" => req'[r].cp.page > req[r].cp.page]_vars

\* Seen through its committed rows, the synchronisation is one sweep at a time
\* with one owner (ProductSweep): batches neither overlap, nor fall back, nor
\* skip a page, nor pass to another operation while a lease is live.
Sweep == INSTANCE ProductSweep WITH
  Nobody <- NoOp,
  owner <- checkpoint.owner,
  live <- checkpoint.live,
  status <- IF Unfinished(checkpoint) THEN "open"
            ELSE IF checkpoint.status = "completed" THEN "closed" ELSE "none",
  done <- checkpoint.lastDone,
  pages <- stored

ImplementsSweep == Sweep!SweepSpec

\* The advisory lock is never kept: no crash, conflict or failure leaves it held.
GuardFreed == \A r \in Request : guard = r ~> guard # r

\* Whatever finite trouble happens, an operation that is resumed whenever it
\* stops ends, even if another operation died with a lease or a lock.
OperationEnds == \A b \in Browser, o \in Op : browser[b].op = o ~> browser[b].op # o
=============================================================================
