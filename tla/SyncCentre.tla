----------------------------- MODULE SyncCentre -----------------------------
(* The browser side of a synchronisation: the admin page that runs it (the  *)
(* sync centre of the Bling integration), the cache of product sales every  *)
(* tab keeps, and the product sales section that shows them.  Tabs share    *)
(* localStorage, where an invalidation leaves a new revision; each tab has  *)
(* its own cache.                                                           *)
(*                                                                          *)
(* The backend is reduced to a counter of commits, db: an answer carries    *)
(* the value it was computed from.  Requests, their answers and the clicks  *)
(* of the user interleave freely; a page that is left goes on running its   *)
(* synchronisation in the background without showing it.                    *)
EXTENDS Integers, Sequences, FiniteSets

CONSTANTS
  Tab,         \* browser tabs of one profile
  Period,      \* the periods the section offers
  Default,     \* the one it starts with
  Request,     \* slots for product sales requests in flight
  Run,         \* slots for synchronisations under way
  None,        \* nothing: no entry, no request, no data
  MaxDb,       \* bound on the commits
  MaxClick     \* bound on what the users open, start, refresh and choose

ASSUME CentreAssumption == Default \in Period /\ MaxDb \in Nat /\ MaxClick \in Nat

\* What is stored of an answer, a request in flight, a synchronisation under way.
Entry == [revision : Nat, version : Nat]
Fetch == [tab : Tab, period : Period, revision : Nat, version : Nat \cup {None}]
Operation == {"all", "products", "orders", "marketplaces", "items"}
Sync == [tab : Tab, own : BOOLEAN, op : Operation, steps : Seq(Operation) \ {<<>>},
         at : {"sent", "done"}, covers : Nat]
SectionState ==
  [open : BOOLEAN, period : Period, forced : BOOLEAN,
   state : {"loading", "success", "error"}, data : Nat \cup {None},
   of : Period \cup {None}, awaits : Request \cup {None}, note : BOOLEAN]
PageState ==
  [open : BOOLEAN, sync : {"idle", "running", "completed", "error"}, running : BOOLEAN,
   locked : BOOLEAN, loading : BOOLEAN, loaded : BOOLEAN, polls : Nat, covers : Nat]

ASSUME NoneAssumption ==
  /\ None \notin Nat /\ None \notin Period /\ None \notin Request
  /\ None \notin Entry /\ None \notin Fetch /\ None \notin Sync

VARIABLES
  db,          \* commits of the backend so far
  revision,    \* localStorage "product-sales-revision"
  invalidated, \* db when product sales were last invalidated
  cache,       \* per tab and period, what fetchProductSales stored
  request,     \* product sales requests in flight
  section,     \* per tab, the product sales section
  page,        \* per tab, the sync centre
  run,         \* synchronisations under way
  clicks

vars == <<db, revision, invalidated, cache, request, section, page, run, clicks>>

-----------------------------------------------------------------------------
(* The cache and the section *)

NoSection == [open |-> FALSE, period |-> Default, forced |-> FALSE, state |-> "loading",
              data |-> None, of |-> None, awaits |-> None, note |-> FALSE]

\* A stored answer is served again while no invalidation followed the request it
\* answers; after a minute it may not be.
\* Fault: whatever was stored is.
UsableEver(t, p) == cache[t][p] # None

Usable(t, p) == cache[t][p] # None /\ cache[t][p].revision = revision

\* invalidateProductSales in tab t: its cache is emptied and the revision moves on;
\* its own section is told by an event, the sections of other tabs by the storage
\* event, both later.
Invalidate(t) ==
  /\ cache' = [cache EXCEPT ![t] = [p \in Period |-> None]]
  /\ revision' = revision + 1
  /\ invalidated' = db
  /\ section' = [s \in Tab |-> [section[s] EXCEPT !.note = section[s].open]]

\* fetchProductSales for the section s: from the cache unless forced or expired,
\* otherwise by a request that remembers the revision it was sent under.
Load(t, s) ==
  \/ /\ ~s.forced /\ Usable(t, s.period)
     /\ section' = [section EXCEPT ![t] =
          [s EXCEPT !.state = "success", !.data = cache[t][s.period].version,
                    !.of = s.period, !.awaits = None]]
     /\ UNCHANGED request
  \/ \E r \in Request :
       /\ request[r] = None
       /\ request' = [request EXCEPT ![r] = [tab |-> t, period |-> s.period,
                                             revision |-> revision, version |-> None]]
       /\ section' = [section EXCEPT ![t] = [s EXCEPT !.state = "loading", !.awaits = r]]

Click == clicks < MaxClick /\ clicks' = clicks + 1

OpenSection(t) ==
  /\ ~section[t].open
  /\ Click
  /\ Load(t, [NoSection EXCEPT !.open = TRUE])
  /\ UNCHANGED <<db, revision, invalidated, cache, page, run>>

CloseSection(t) ==
  /\ section[t].open
  /\ section' = [section EXCEPT ![t] = NoSection]
  /\ UNCHANGED <<db, revision, invalidated, cache, request, page, run, clicks>>

ChoosePeriod(t, p) ==
  /\ section[t].open /\ p # section[t].period
  /\ Click
  /\ Load(t, [section[t] EXCEPT !.period = p])
  /\ UNCHANGED <<db, revision, invalidated, cache, page, run>>

\* Focus, the retry button and the events after an invalidation raise the
\* attempt; from then on the section never asks the cache.
Refresh(t) ==
  /\ section[t].open
  /\ (section[t].note /\ UNCHANGED clicks) \/ (~section[t].note /\ Click)
  /\ Load(t, [section[t] EXCEPT !.forced = TRUE, !.note = FALSE])
  /\ UNCHANGED <<db, revision, invalidated, cache, page, run>>

Serve(r) ==
  /\ request[r] # None /\ request[r].version = None
  /\ request' = [request EXCEPT ![r].version = db]
  /\ UNCHANGED <<db, revision, invalidated, cache, section, page, run, clicks>>

\* Faults: the effect that was cleaned up still shows its answer; a failure is not
\* told.
ShowsAny(t, r) == section[t].open
StillLoading(t) == section[t]

Shows(t, r) == section[t].awaits = r
Broken(t) == [section[t] EXCEPT !.state = "error", !.awaits = None]

\* Every answer is stored; only the one of the section's last load is shown.
Arrive(r) ==
  /\ request[r] # None /\ request[r].version # None
  /\ LET q == request[r]
     IN /\ cache' = [cache EXCEPT ![q.tab][q.period] =
                       [revision |-> q.revision, version |-> q.version]]
        /\ section' = IF ~Shows(q.tab, r) THEN section
                      ELSE [section EXCEPT ![q.tab] =
                             [section[q.tab] EXCEPT !.state = "success", !.data = q.version,
                                                    !.of = q.period, !.awaits = None]]
  /\ request' = [request EXCEPT ![r] = None]
  /\ UNCHANGED <<db, revision, invalidated, page, run, clicks>>

\* The request fails, is refused or is aborted after 15 s.
Break(r) ==
  /\ request[r] # None
  /\ LET t == request[r].tab
     IN section' = IF Shows(t, r) THEN [section EXCEPT ![t] = Broken(t)] ELSE section
  /\ request' = [request EXCEPT ![r] = None]
  /\ UNCHANGED <<db, revision, invalidated, cache, page, run, clicks>>

-----------------------------------------------------------------------------
(* The sync centre *)

NoPage == [open |-> FALSE, sync |-> "idle", running |-> FALSE, locked |-> FALSE,
           loading |-> TRUE, loaded |-> FALSE, polls |-> 0, covers |-> 0]

Batched == {"products", "items"}

\* The requests of an operation, in order.
Steps(op) == IF op = "all" THEN <<"products", "orders", "marketplaces", "items">>
             ELSE <<op>>

\* The page is mounted: its state is new, and the status is fetched.
OpenPage(t) ==
  /\ ~page[t].open
  /\ Click
  /\ page' = [page EXCEPT ![t] = [NoPage EXCEPT !.open = TRUE, !.polls = 1]]
  /\ UNCHANGED <<db, revision, invalidated, cache, request, section, run>>

ClosePage(t) ==
  /\ page[t].open
  /\ page' = [page EXCEPT ![t] = NoPage]
  /\ run' = [u \in Run |-> IF run[u] # None /\ run[u].tab = t
                           THEN [run[u] EXCEPT !.own = FALSE] ELSE run[u]]
  /\ UNCHANGED <<db, revision, invalidated, cache, request, section, clicks>>

\* connectionStatus, the badge of the page.
Badge(t) ==
  CASE page[t].sync = "running" -> "syncing"
    [] page[t].sync = "error" -> "error"
    [] page[t].sync \in {"idle", "completed"} -> IF page[t].loaded THEN "connected" ELSE "unknown"

\* What parseEnhancedSyncStatus makes of an answer: a status the cards can show, or
\* none when a field of it is not what it must be.
Parsed == BOOLEAN

\* fetchStatus comes back: what each of its two answers says is shown unless the
\* answer is an error; a status that does not parse is no status.
Poll(t) ==
  /\ page[t].open /\ page[t].polls > 0
  /\ \E locked \in BOOLEAN, loaded \in Parsed :
       page' = [page EXCEPT ![t] = [page[t] EXCEPT !.polls = @ - 1, !.loading = FALSE,
                                                   !.locked = locked, !.loaded = loaded]]
  /\ UNCHANGED <<db, revision, invalidated, cache, request, section, run, clicks>>

\* Fault: the buttons do not mind what is running.
EnabledAnyway(t, op) ==
  /\ page[t].open
  /\ IF op = "all" THEN ~page[t].locked ELSE page[t].loaded /\ ~page[t].loading

\* The big button refuses while the lock was last seen held, the cards are there
\* once a status is; all of them refuse while this page runs something.
Enabled(t, op) ==
  /\ page[t].open /\ ~page[t].running
  /\ IF op = "all" THEN ~page[t].locked ELSE page[t].loaded /\ ~page[t].loading

Start(t, op) ==
  /\ Enabled(t, op)
  /\ Click
  /\ \E u \in Run :
       /\ run[u] = None
       /\ run' = [run EXCEPT ![u] = [tab |-> t, own |-> TRUE, op |-> op,
                                     steps |-> Steps(op), at |-> "sent", covers |-> 0]]
  /\ page' = [page EXCEPT ![t].running = TRUE, ![t].sync = "running"]
  /\ UNCHANGED <<db, revision, invalidated, cache, request, section>>

Commit(u) ==
  /\ run[u] # None /\ run[u].at = "sent" /\ db < MaxDb
  /\ db' = db + 1
  /\ run' = [run EXCEPT ![u].at = "done", ![u].covers = db']
  /\ UNCHANGED <<revision, invalidated, cache, request, section, page, clicks>>

\* The run is over; the page that started it, if it is still there, shows how.
Over(u, how) ==
  /\ run' = [run EXCEPT ![u] = None]
  /\ page' = IF ~run[u].own THEN page
             ELSE [page EXCEPT ![run[u].tab] =
                    [page[run[u].tab] EXCEPT
                       !.running = FALSE, !.sync = how, !.covers = run[u].covers,
                       !.polls = IF how = "completed" THEN @ + 1 ELSE @]]

\* A batch was committed: whatever the answer says, sales are invalidated.
BatchReply(u) ==
  /\ run[u] # None /\ run[u].at = "done" /\ Head(run[u].steps) \in Batched
  /\ Invalidate(run[u].tab)
  /\ \/ run' = [run EXCEPT ![u].at = "sent"] /\ UNCHANGED page     \* has_more
     \/ Over(u, "error")                                           \* failed items
     \/ IF Len(run[u].steps) = 1 THEN Over(u, "completed")
        ELSE /\ run' = [run EXCEPT ![u].at = "sent", ![u].steps = Tail(@)]
             /\ UNCHANGED page
  /\ UNCHANGED <<db, request, clicks>>

\* Fault: the success is shown without an invalidation.
ConcludedQuietly(u) ==
  Over(u, "completed") /\ UNCHANGED <<cache, revision, invalidated, section>>

Concluded(u) == Invalidate(run[u].tab) /\ Over(u, "completed")

\* Orders or marketplaces were committed: sales are invalidated when that was all
\* of the operation, and not when the answer tells of failures.
EntityReply(u) ==
  /\ run[u] # None /\ run[u].at = "done" /\ Head(run[u].steps) \notin Batched
  /\ \/ Over(u, "error") /\ UNCHANGED <<cache, revision, invalidated, section>>
     \/ /\ Len(run[u].steps) = 1
        /\ Concluded(u)
     \/ /\ Len(run[u].steps) > 1
        /\ run' = [run EXCEPT ![u].at = "sent", ![u].steps = Tail(@)]
        /\ UNCHANGED <<page, cache, revision, invalidated, section>>
  /\ UNCHANGED <<db, request, clicks>>

\* Fault: a request that is never answered is never given up.
RefuseAnswered(u) ==
  /\ run[u] # None /\ run[u].at = "done"
  /\ Over(u, "error")
  /\ UNCHANGED <<db, revision, invalidated, cache, request, section, clicks>>

\* An error status, no answer, or the proxy's timeout; the backend may commit
\* after it or have committed before.
Refuse(u) ==
  /\ run[u] # None
  /\ Over(u, "error")
  /\ UNCHANGED <<db, revision, invalidated, cache, request, section, clicks>>

\* A commit nobody here is waiting for: a request given up, another client.
OtherCommit ==
  /\ db < MaxDb
  /\ db' = db + 1
  /\ UNCHANGED <<revision, invalidated, cache, request, section, page, run, clicks>>

-----------------------------------------------------------------------------
Init ==
  /\ db = 0 /\ revision = 0 /\ invalidated = 0 /\ clicks = 0
  /\ cache = [t \in Tab |-> [p \in Period |-> None]]
  /\ request = [r \in Request |-> None]
  /\ section = [t \in Tab |-> NoSection]
  /\ page = [t \in Tab |-> NoPage]
  /\ run = [u \in Run |-> None]

Next ==
  \/ \E t \in Tab :
       \/ OpenSection(t) \/ CloseSection(t) \/ Refresh(t)
       \/ \E p \in Period : ChoosePeriod(t, p)
       \/ OpenPage(t) \/ ClosePage(t) \/ Poll(t)
       \/ \E op \in Operation : Start(t, op)
  \/ \E r \in Request : Serve(r) \/ Arrive(r) \/ Break(r)
  \/ \E u \in Run : Commit(u) \/ BatchReply(u) \/ EntityReply(u) \/ Refuse(u)
  \/ OtherCommit

Spec == Init /\ [][Next]_vars

\* Browser and proxy abort what is not answered (15 s and 120 s), and queued
\* events are delivered; users, commits and answers owe nothing.
FairSpec ==
  /\ Spec
  /\ \A r \in Request : WF_vars(Arrive(r) \/ Break(r))
  /\ \A t \in Tab : WF_vars(section[t].note /\ Refresh(t)) /\ WF_vars(Poll(t))
  /\ \A u \in Run : WF_vars(BatchReply(u) \/ EntityReply(u) \/ Refuse(u))

-----------------------------------------------------------------------------
(* Properties *)

TypeOK ==
  /\ db \in Nat /\ revision \in Nat /\ invalidated \in Nat /\ clicks \in Nat
  /\ cache \in [Tab -> [Period -> Entry \cup {None}]]
  /\ request \in [Request -> Fetch \cup {None}]
  /\ section \in [Tab -> SectionState]
  /\ page \in [Tab -> PageState]
  /\ run \in [Run -> Sync \cup {None}]

\* What the cache may serve is never older than the last invalidation, of any tab,
\* whatever requests were in flight when it came.
CachedFresh ==
  \A t \in Tab, p \in Period : Usable(t, p) => cache[t][p].version >= invalidated

\* What a section shows as loaded is of the period chosen in it, and unless an
\* event is still on its way, no older than the last invalidation of any tab.
ShownFresh ==
  \A t \in Tab : section[t].open /\ section[t].state = "success" =>
    /\ section[t].of = section[t].period
    /\ section[t].note \/ section[t].data >= invalidated

\* A page that reports success has invalidated everything its run committed.
CompletedFresh ==
  \A t \in Tab : page[t].sync = "completed" => invalidated >= page[t].covers

\* A page runs one synchronisation at a time and knows it: its badge
\* says "syncing" while, and only while, exactly one run of its own is under way.
OneRun ==
  \A t \in Tab : page[t].open =>
    LET own == {u \in Run : run[u] # None /\ run[u].tab = t /\ run[u].own}
    IN /\ Cardinality(own) = IF page[t].running THEN 1 ELSE 0
       /\ page[t].running <=> Badge(t) = "syncing"

\* A section does not stay in "loading": every load is answered, or aborted after
\* 15 s, or replaced by a later one, of which the users begin finitely many.
SectionSettles ==
  \A t \in Tab : (section[t].open /\ section[t].state = "loading")
                   ~> (~section[t].open \/ section[t].state # "loading")

\* A synchronisation that is under way ends, however its requests are answered.
RunEnds == \A u \in Run : (run[u] # None) ~> (run[u] = None)
=============================================================================
