# Royale AI platform: a TLA+ verification of its core logic

The Royale platform imports products and orders of the Bling ERP into PostgreSQL
(FastAPI backend, `backend/`) and shows them, with what its engines conclude from
them, in a Next.js front end (`frontend/`). What is hard in it is of three kinds:

- the **synchronisation**: long remote reads, driven batch by batch by a browser, that
  time out, crash, are retried and overlap, and must leave one consistent position in
  the database, under one valid pair of tokens;
- the **asynchronous front end**: tabs, pages, caches and forms whose requests, answers
  and clicks interleave freely;
- the **engines**: pure computations, each feeding the next, that must not contradict
  each other.

This directory models all three, checks them with TLC and proves the most important
properties with TLAPS.

## 1. Inventory

| Component | State | Operations | Interacts with | Module |
|---|---|---|---|---|
| Product synchronisation (`integration/sync_service.py` 250-382, `checkpoint.py`, `locks.py`, `router.py`, `services/sync-batches.ts`) | row `sync_checkpoints["products"]`, Redis key `royale:sync:lock:sync`, advisory lock 82471302, `sessionStorage` of each admin page | `POST /sync-products-batch`, `/sync/products`, `/sync/{entity}`, browser loop | all other synchronisations through the two locks; OAuth for its token | `ProductSync` |
| Order items backfill (`sync_service.py` 777-902) | row `sync_checkpoints["order_items"]`, cursor in `sessionStorage` | `POST /backfill-order-items`, browser loop | same locks; orders table | `OrderItems` |
| OAuth connection (`service.py`, `state.py`, `repository.py`) | row of `integration_connections`, states in Redis | authorise, callback, refresh, disconnect | Bling's rotation of tokens; the transaction of the request that refreshes | `OAuthConnection` |
| Sync centre (`admin/integrations/bling/page.tsx`, `sync-central-state.ts`) | state of the page, synchronisations it started | poll, start, batches, leave | the endpoints above; the sales cache | `SyncCentre` |
| Product sales cache and section (`services/product-sales.ts`, the section's component) | module map per tab, `localStorage` revision | fetch, invalidate, refresh | invalidated by every batch, in all tabs | `SyncCentre` |
| Front-end session (`auth/`) | counter of attempts, `sessionStorage`, provider | log in, log out, load | - | `Session` |
| Pages and their hooks (`features/*`, `services/api-*.ts`) | data and status per view, period, filters, page number | visit, choose a period, filter, turn pages, try again | proxies, read APIs | `DataViews`, `Screens`, `Advice` |
| Decision engines (`features/*-intelligence`, `executive-*`) | none | analyse, classify, recommend, prioritise, compare | each reads what the one before found | `Decisions`, `Commerce` |
| Insight lifecycle and narrative (`features/executive-insights`) | repository, timeline | reconcile, archive, reopen, narrate | awaits between read and write; a provider of texts | `InsightLifecycle`, `InsightNarrative` |
| Order import and backfill of single orders, sync-all on the server, Bling client, sync log | orders, phase rows, throttle clock | imports, retries | the components above | - |
| Read APIs, analytics, core adapters, database models, proxies, shell and UI components, scripts | none, or one row | queries, adapters, presentation | - | - |

Hard behaviours: concurrent requests that share the database and Redis; a Redis lock
that expires under its holder or is released before the transaction commits; a proxy
that gives up while the request goes on; a worker that dies and leaves its lock and its
lease; a client with its own idea of the position; responses that precede the commit; a
remote token that is exchanged once while the transaction that recorded it may be undone;
answers that arrive out of order, after the page has gone on or has been left; awaits
between reading a record and saving it; thresholds at which engines must agree.

What makes each component correct:

- product synchronisation: one sweep at a time with one owner, data and position
  committed together, no page skipped, none counted twice but for failures, the browser never
  believes more than what is committed, an operation that keeps being resumed ends;
- order items: the cursor passes every order that existed at the start, a replay
  changes nothing, a stale cursor of a page hides no orders;
- OAuth: an authorisation is used once, no refresh token is presented twice, the stored
  one is the live one unless its loss is one of the known few, a disconnected connection
  stays disconnected;
- sync centre and cache: one run at a time, success means invalidated, nothing older than
  the last invalidation is passed off as loaded, nothing loads for ever;
- session: a log-out is final but for what was being verified, a block is on exactly at the limit;
- pages: the newest attempt, the period chosen, every product on exactly one page of the
  catalogue, no sentence that contradicts the figures of its page or of another;
- engines: the ABC curve is Pareto's, what is urgent reaches every list that names what is
  urgent, the comparison told backwards is the opposite;
- insights: an archive is not undone silently, the timeline accounts for the insight, a
  narrative refers to nothing but its context.

## 2. Plan

| # | Modules | Content | State |
|---|---|---|---|
| 1 | `Claim`, `ProductSync`, `ProductSweep` | requests, locks, claim, pages, transaction, browser; implements one sweep | done, proved |
| 2 | `OrderItems` | claim with last result, cursors of server and page, orders that come and go | done, proved |
| 3 | `OAuthConnection` | states, row lock, refresh, savepoints, disconnection, rotation, rollback | done, proved |
| 4 | `SyncCentre` | page, synchronisations, cache and section across tabs | done, proved |
| 5 | `InsightLifecycle`, `InsightNarrative` | reconcile, archive, reopen with their awaits; context and narrative | done, proved |
| 6 | `Session` | submissions, counter, stored session | done, proved |
| 7 | `DataViews`, `Screens`, `Advice` | flights and views; figures and sentences | done, proved |
| 8 | `Decisions`, `Commerce` | the chain of engines | done, proved |
| 9 | `OrderImport` | `_run_sync`, `_upsert_order`, `backfill_orders` | left |
| 10 | `SyncAll` | the server's phases over 1, 2 and 9 | left |
| 11 | `BlingClient` | retries, throttle, pagination of a catalogue that moves | left |

Also left: an abstract sweep of a growing set that `OrderItems` implements. Modules are
composed by extension where one works on the state of the other (`InsightNarrative` on
`InsightLifecycle`; `Advice` on `Screens` on `DataViews`; `Commerce` on `Decisions`),
share `Claim` where they share rules, and are related by `INSTANCE` where one implements
the other (`ProductSync` and `ProductSweep`). Elsewhere a component is the other's
environment, reduced to what it can observe: to `SyncCentre` the backend is a counter of commits, to
`DataViews` a sequence of snapshots, to `ProductSync` the OAuth connection is a call that may fail.

Each `MC` module extends its module with symmetry and bounds; each `.cfg` gives one instance.
Every property is stated in the module it is about, preceded by what it says in words.
Definitions marked `Fault:` are not used by any specification: each is a plausible
wrong version of the definition after it, kept to show that a property notices the difference.

## 3. The model of the product synchronisation

`Claim.tla` holds the rules by which an operation is admitted to the row of its entity
(`claim_operation`, used for products and order items alike): `Refuses` (409: another
owner, lease live), `Replays` (the completion is answered again), otherwise the sweep is
resumed or begun anew.

`ProductSync.tla`. Processes are HTTP **request slots** (`Request`) and **admin pages**
(`Browser`). A request runs in one database transaction (`get_db_session`, one
session per request): what it writes is in its own record (`req[r].cp`,
`req[r].stored`) until `Commit`.

| Variable | Code |
|---|---|
| `checkpoint` | the committed row: `current_page` (`page`), `last_completed_page` (`lastDone`), `status`, and of the JSON `totals` the owner, whether `expires_at` lies ahead (`live`), `processed` in pages, `failed` in pages of which something failed |
| `stored` | pages whose products are committed since the sweep began |
| `lock` | value of the Redis key; `Dead` is the key of a request that no longer exists |
| `guard` | holder of `pg_try_advisory_xact_lock(82471302)` |
| `req` | per request: endpoint, phase of the handler, operation id, local variables, result |
| `browser` | `sessionStorage["bling-product-operation"]` and the request it waits for |
| `used`, `finished`, `told` | ids drawn; completions committed; completions a browser was told of |
| `trouble` | how many disturbances are left |

The phases of a request are the awaits between which other requests run:
`lock` -> `claim` -> `sweep` -> `release` -> `exit` -> `reply` for the batch endpoint.
`POST /sync/products` skips `lock` and `release`; `POST /sync/{entity}` takes the guard first,
then the lock, works, releases. Actions:
`SendBatch`, `Call`, `GiveUp` (proxy timeout), `CloseTab`; `AcquireLock`,
`AcquireFails`, `GuardBusy`, `GuardEntity`, `ClaimProducts`, `StorePage`, `PageFails`,
`FinishBatch`, `SyncEntity`, `StatementFails`, `ReleaseLock`, `ReleaseFails`,
`Commit`, `Rollback`, `CommitFails`, `Reply`, `Crash`, `LockExpires`, `LeaseExpires`.

Abstractions. Items of a page are one unit, stored or skipped together; a page that
partly failed is not in `stored`, and `counted` says whether its good items entered the
totals. The catalogue may grow or shrink between requests: any page may come back
short, and page `MaxPage` is always short. A batch ends at the first page of which something failed, so that it adds one to
`failed` at most (`Failures`). The uuid a claim draws for a missing operation id is the single
value `Anon`: no caller can present it again, so two of them differ only in that
neither can ever be recognised, which `Refuses`, `Replays` and `Claimed` respect (a claim
without id is compared as `NoOp`). Counters `ttl_takeovers`, `created`,
`updated`, `skipped`, time stamps and messages are left out. The 422 of bad parameters is
left out (the front end never sends them). Local variables of a handler that has ended
are reset, which merges states.

`ResponseFirst`: FastAPI runs the code after `yield` of a dependency before the
response up to 0.117 and after it from 0.118 on; `pyproject.toml` allows both. The constant selects the order.

`ProductSweep.tla` is what the component promises: one sweep over pages
`1..MaxPage`, with an owner and a lease, advanced by whole batches
(`Begin`, `Resume`, `Expire`). `ImplementsSweep` maps it to the committed row.

## 4. The model of the order items backfill

`OrderItems.tla`: `POST /backfill-order-items`, the same handler inside sync-all, and
`runOrderItemBatches`. Requests, transaction, guard, claim and answer are those of
section 3; new is what is swept. Orders are named by their primary keys `1..MaxOrder` in key
order (uuid4: a new order may get any free key), cursor 0 stands for no cursor.

| Variable | Code |
|---|---|
| `checkpoint` | the committed row of entity `order_items`: owner, lease, status; `keyed` says whether `totals` has a key `cursor`, `enriched` is `totals.orders_enriched` |
| `known`, `bare` | orders that have ever existed; committed orders without `OrderItem` |
| `guard`, `req`, `browser` | as in section 3; a page keeps `bling-order-items-operation` and `bling-order-items-cursor` |
| `gained`, `owed` | ghosts: orders given items since the sweep began; orders that were bare when a page began on a system at rest and that no committed batch has tried since |

`ClaimItems` chooses the start: the server's cursor if the totals have one, otherwise the page's
(`Start`, line 789). `SelectOrders` is the query with its extra row (`Found`, `HasMore`, `LastOf`);
`EnrichOrder` and `OrderFails` are one order each, with the savepoint; `FinishBatch` writes the
row, whose cursor stays if an order failed (`Checkpointed`); `Commit` publishes row and
items together. `Received` is the page's reading of the answer, with `Stuck` for "Cursor nao avancou".

Abstractions. The Redis lock, shared with all synchronisations, is over-approximated: `Refused`
may happen to any request, and two requests may be past it (an expired key), so the advisory
lock alone has to keep them apart. An order's detail either gives it items or leaves it bare; of the counters only
`orders_enriched` is kept. `OrderGoes` is an order that stops being bare and unswept for
another reason: deleted, or imported with its items; an order that has uncommitted items is
locked by the foreign key until the transaction ends. Cursors in the format of the
older front end (`external_id`) are left out. sync-all commits the same transaction for other phases too; an order it
creates counts as arrived just before.

## 5. The model of the OAuth connection

`OAuthConnection.tla`: a pair of access and refresh token is the number of its issue at
Bling. A request runs in one transaction, at READ COMMITTED: it sees its own version of
the row or the committed one.

| Variable | Code |
|---|---|
| `row` | the committed row of `integration_connections`: refresh token (0: columns cleared) and status |
| `owner` | the transaction whose `SELECT FOR UPDATE` or update has locked the row |
| `states` | the keys of `OAuthStateService`: not drawn, in Redis, gone |
| `issued`, `live`, `fresh` | at Bling: pairs issued, refresh tokens it accepts, access tokens not about to expire |
| `req` | per request: the await it is at, the row it has loaded (`conn`), its uncommitted version (`mine`), the pair just received, the savepoint of an item, the tokens it has used up (`spent`) |
| `grants`, `lost` | ghosts: pairs issued for each state; tokens that Bling ended for a transaction that did not record it |

Actions: `Authorize`, `StateExpires`, `Denied`, `Callback`, `Exchange`, `FindRow`,
`StoreTokens` (authorisation); `Disconnect`, `Revoke`, `RevokeFails`, `ClearTokens`; `Use`, `Savepoint`,
`ReleaseSavepoint`, `RollbackSavepoint`, `AskToken`, `LockRow`, `Refresh`, `RefreshRefused`,
`RefreshFails` (work with a token); `Commit`, `Abort`, `TokenExpires`.

Abstractions. The identity map of the session holds the row weakly, and nothing else does between
two calls, so each `AskToken` reads the row anew. The arrival of a request is one step with its first read. The
retry after a 401 asks for the same unexpired token and changes nothing. Expiry belongs to the pair.
The ORM writes only the columns that differ from what was loaded: `StatusOver` keeps a status that a
concurrent transaction has committed. Bling's rules are external: a refresh token is exchanged once,
a dead one is refused, an answer may be lost after it took effect.

## 6. The model of the sync centre and the sales cache

`SyncCentre.tla`: tabs of one browser profile. The backend is `db`, the number of commits; an
answer carries the value it was computed from, so that age can be compared.

| Variable | Code |
|---|---|
| `revision` | `localStorage["product-sales-revision"]`, shared by the tabs (`Date.now()` in the code, a counter here: two invalidations in one millisecond are not told apart by the code) |
| `cache` | the map of `product-sales.ts`, per tab and period: the revision it was requested under and the data |
| `request`, `section` | fetches in flight; the product sales section: period, status, data, the load it awaits, whether an event is on its way |
| `page`, `run` | state of the admin page; synchronisations under way, with the requests they still have to make, whether their page is still there, and what they have committed |
| `invalidated` | ghost: `db` at the last invalidation |

Actions: `OpenSection`, `CloseSection`, `ChoosePeriod`, `Refresh`, `Serve`, `Arrive`, `Break`;
`OpenPage`, `ClosePage`, `Poll`, `Start`, `Commit`, `BatchReply`, `EntityReply`, `Refuse`,
`OtherCommit`. A page that is left goes on with its run without showing it (`own`). The operation
"all" is products, orders, marketplaces and items in this order, as the page requests them.
The loops on `has_more` are bounded by `MaxDb`; that they end is the subject of sections 3 and 4.

## 7. The model of the session

`Session.tla`: one tab; times are units of a clock `now`; a session is its time of expiry.
`attempts` is the counter of `users.ts`, `store` the session in `sessionStorage`, `user`, `loading` and
`read` the provider, `form` the submission the form waits for, `login` all that are under way: a form that
is mounted again knows nothing of the one before. Submissions pass `Submit`, `Checked` (the password hash),
`Signed` (stored and read back), `Shown`, or `Rejected` after the delay; beside them `Remount`, `Logout`,
`Reload`, `Initialised` (the provider has verified what it read) and `Tick`. Ghosts: `left` says that the user signed out and nobody has signed in since,
`stale` which submissions verify a session that has been removed since they read it, `raced` that the user shown is of one of these.

## 8. The model of the pages

`DataViews.tla`: which page is open (`place`), its `period`, one `view` per hook with status, data
and origin, the `flights` of each view, and filters and page number of the catalogue. The backend is
`snapshots`. A page mounts its views (`Visit`), the views ask again when their period (`ChoosePeriod`) or attempt
(`Attempt`) changes, and answers come in any order (`Serve`, `ServeBase`, `Arrive`, `Fail`). The hooks of the products cancel
the answer of what was cleaned up (`Cancelled`), the others do not. `Synchronised` appends a
snapshot, `SetFilter` and `Turn` work on the catalogue. The ghost `overtaken` holds the views whose last request was answered
before an older one.

`Screens.tla` computes what dashboard, marketplace pages and copilot say of the snapshots
they have read: growth, shares, health, rankings, recommendations, alerts, with the rounding the code applies before it
compares. `Advice.tla` does the same for products, inventory, sales, finance and purchasing.
A page is the record of its statements; `PagesAgree` relates statements of one page and of several.

Abstractions. The paths that a service awaits together are one request, except the marketplaces'
period of comparison, whose answer may be of another snapshot. Which path failed is not kept, and a failure
is known when it arrives. Percentages are compared as fractions; the code's floating point can differ only at an exact tie.
Charts, tables, layout and wording are left out. `Visit` starts the count of clicks anew.

## 9. The model of the insights

`InsightLifecycle.tla`: `store` and `order` are the repository, a Map in order of first save, `timeline` the events, `call` what each
caller is doing. One call is a sequence of awaited steps: `BeginReconcile`, `BeginArchive`, `BeginReopen`, then
`Find`, `FindActive`, `Resolve`, `Save`, `SaveArchive`, `SaveReopen`, `AppendEvent`, with `Fail` at any of them; calls interleave
at each. The six builders give what is reconciled: keys and ids by position. Ids are positions, so an
archive or a reopen of an id reaches the first insight saved under it, which may be another one
(`IsFirst`); the repository's only implementation in the source is the one of the tests.
`overlapped`, `torn` and `firm` are ghosts: whether calls ever overlapped, keys whose event was lost,
keys archived while no reconciliation held a record of theirs to save (`Pursues`), until reopened.

`InsightNarrative.tla` adds a reader: `ReadInsight`, then `Generate` (events, context, the provider's
answer and the guard that falls back on the template) and `Deliver`. A provider may answer anything.

Abstractions: texts, severities and evidence are reduced to what identifies an insight; `archivedAt` is left out.

## 10. The model of the engines

`Decisions.tla`: `stock` and `market` are the inputs, `previous` the snapshot before, and the steps are what happens
in a shop: `Sell`, `Reserve`, `Order`, `Receive`, `Age`, `Toggle`, `Observe`. The engines are operators of the state: inventory
analysis (coverage, score, status, ABC curve, suggested quantity), recommendations of purchase, executive insights by rule,
their prioritisation, the briefing, and the timeline that compares two snapshots. `Commerce.tla`
adds sales and financial intelligence, the decision centre and the copilot. Scores are exact fractions rounded as `Math.round` does.
In the application these engines are fed from fixed data; the instances choose data around their thresholds. The copilot's page
(`copilot-orchestrator.ts:35`) hands `compose` summaries of zeros and no insights: what `EnginesAgree` says of the copilot is said of the service,
given the summaries of the engines, not of that page. A marketplace's growth may be null (`Nullable`): then no insight and no event is told of it.
`priorityBase` is never read by the code and left out.

## 11. Runs

| Run | Instance | Properties |
|---|---|---|
| `core_safety` | 2 admin pages, 2 operations, 2 requests, 4 catalogue pages, 2 per batch, 2 disturbances, commit before response; symmetric | `TypeOK`, `ClaimStaysFresh`, `StoredPrefix`, `TotalsExact`, `ToldIsFinished`, `LockLeftToOwner`, `BatchAdvances`, `ImplementsSweep` |
| `core_live` | 1 admin page, 1 operation beside anonymous callers, 2 requests, 2 catalogue pages, 1 per batch, 2 disturbances, response before commit, no symmetry, `FairSpec` | `GuardFreed`, `OperationEnds` |
| `items_safety` | 2 admin pages, 2 operations, 2 requests, 3 orders, 1 per batch, 1 disturbance, commit before response; symmetric | `CursorSkipsNothing`, `ToldIsSwept` |
| `items_live` | 1 admin page, 1 operation beside anonymous callers, 2 requests, 3 orders, 2 per batch, 1 disturbance, response before commit, no symmetry, `FairSpec` | `EnrichedExact`, `CursorForward`, `OperationEnds` |
| `items_stuck` | 2 admin pages, 3 operations, 1 request, 3 orders, 1 per batch, no disturbance | violates `StuckIsTrue` (section 13) |
| `oauth_safety` | 3 requests, 2 states, 3 pairs of tokens; symmetric | `StoredIsCurrent`, `ConsentOnce`, `RefusedOnlyIfLost`, `DisconnectHolds` |
| `sync_safety` | 2 tabs, 2 periods, 2 requests, 2 runs, 4 commits, 3 clicks; symmetric | `CachedFresh`, `ShownFresh`, `CompletedFresh` |
| `sync_live` | 1 tab, 2 periods, 2 requests, 2 runs, 1 commit, 4 clicks, no symmetry, `FairSpec` | `OneRun`, `SectionSettles`, `RunEnds` |
| `session_safety` | 3 submissions, limit 3, block 1, window 3, session of 2 units, 6 units of time; symmetric | `LogoutHolds`, `BlockIff` |
| `screens_safety` | 2 marketplaces, 2 periods, up to 5 products, 2 per page, 2 snapshots, 2 requests per view, 2 clicks per visit (1 on the dashboard) | `CatalogFresh`, `PeriodShown`, `PagesCover`, `GrowthIsTorn`, `PagesAgree` |
| `insights_safety` | 1 group of insights, 2 texts, 2 callers, 3 calls, 1 finding per kind in each; symmetric | `ArchiveHolds`, `CountsTold`, `NarrativeFaithful`, `ContextCovered` |
| `commerce_safety` | 5 products, 3 starting stocks, 3 markets (one of unknown growth), 2 movements | `AbcIsPareto`, `BriefingTells`, `TimelineFlips`, `EnginesAgree` |

What they show, beyond the names: `core_safety` that every order of lock expiry, lease
expiry, timeout, crash, failure and rollback leaves checkpoint, data, totals and answers consistent and the committed rows
those of one sweep at a time; `items_safety` that no cursor, of server or page, passes an order that is still to be tried;
`items_live` that totals count each enriched order once even if answers precede commits; `oauth_safety` that the only ways to a dead stored
token are the losses named in `StoredIsCurrent`; `sync_safety` that an answer that was in flight when the data was invalidated
is never served as fresh, in any tab; `session_safety` that a log-out is final but for a submission that had read its session before; `screens_safety` that the pages hold together under every order of answers; `insights_safety` what an archive, a count
and a narrative are worth when calls interleave at every await; `commerce_safety` that the engines agree around their thresholds.

### Bounds

Locks: every conflict is between two requests (guard, key and row have one holder, a third request meets the same conflict as a
second); the OAuth run has three because a token passes from one to the next while a third holds a stale view. Two operations
give foreign ownership, takeover and replay. Four catalogue pages with two per batch give a batch that ends by its bound, one that
ends by a short page, and a resumed one. Three orders give one behind, one at and one beyond the cursor, and an arrival on either
side of it. Two disturbances allow a fault during the handling of another; expiry of locks, leases and tokens is not bounded at all.
Three pairs of tokens allow an authorisation, a rotation and another of either. Two tabs and two periods give a cache of
its own and an invalidation from elsewhere; four commits a stale, a current and a newer answer, twice. Three failures reach the limit and three
submissions overlap at it; the clock passes block, window and session within its bound. Two snapshots are what a
torn read needs, five products make three pages of two. In the lifecycle two callers and three calls give one call before and two that overlap; `ReadsAlone`
explores narratives only beside calls that do not overlap and before the last one begins, which is where `ContextCovered` speaks, and
`NarrativeFaithful` is proved without it; `DashboardOnce` allows one click on the dashboard, whose three views interleave the
most. Two movements take a stock across a threshold and back.

`FinanceAgrees` and `PurchasingAgrees` (parts of `PagesAgree`) range over bounded inputs around every threshold, the fixed data
of the services among them.

`CHECK_DEADLOCK FALSE` everywhere: an instance is quiescent when its operations, clicks, commits, calls or
movements are used up.

## 12. Fairness

Backend (`ProductSync`, `OrderItems`): a handler that has begun goes on (the event loop), keys and leases expire, and the
page sends its next batch or is asked to resume ("retome a sincronizacao"). Disturbances, foreign calls included, are finite and
not fair. Liveness is stated for a single persistent page: two pages that retry can answer each other with 409
for ever, and nothing in the code justifies a fairness that excludes it.

Browser (`SyncCentre`): a request is answered or aborted (`AbortController` after 15 s, the batch proxy after 120 s), queued events and
answers of polls are delivered. Users, commits and the backend's answers owe nothing: `SectionSettles` and `RunEnds` hold because of the
aborts alone.

The other modules promise safety only: a form or a hook waits as long as its request does.

## 13. What the checks found

`items_stuck`. `sync-batches.ts:43` throws "Cursor nao avancou" when the next cursor is the one the page
sent. The server starts at its own cursor where it has one, so after a takeover,
a completion and a new sweep a page may send cursor 2, be served from 1 and get 2 back: the batch advanced and is
committed, yet the page stops with the error. Nothing is lost; the next attempt goes on.

Behaviours of the code that the properties are worded around, because the repository does not say otherwise:

- With the response before the commit (`ResponseFirst`), `ToldIsFinished`, `CursorSkipsNothing` and `ToldIsSwept` do not hold: a page may drop its id for a completion whose
  commit then fails, or lie ahead of the server. Data and checkpoint stay consistent, and a new operation takes over after the lease. They are checked and
  proved for commit-before-response only. `ImplementsSweep` is proved for both orders.
- A callback that found the row active, while another request was about to mark it, stores its tokens under
  `requires_reauthorization` or `disconnected`, although the page reads "Authorization completed" (`StatusOver`); conversely the status is not
  looked at again under the row lock.
- A refresh within the savepoint of an item is undone with the item: the rotated token is lost and the next refresh is
  refused. The same happens when the transaction of the request is rolled back. `test_connection` passes the refusal on, so that its mark is
  rolled back; a synchronisation counts it as a failure and commits it.
- A disconnection that overlaps a refresh revokes the old token and clears the row; the new pair stays live at Bling.
- An archive that takes effect while a reconciliation holds a record of the insight is undone by its save; `ArchiveHolds` says that
  nothing else undoes one. Calls that overlap may overwrite each other's change, so that counts fall short of the events; `CountsTold` says that
  they never exceed them.
- A page that partly failed is read again, and what was stored of it is counted again in `totals.processed`; `TotalsExact` says that this happens
  once at most for each failure counted.
- A log-out while a submission verifies the session it has read back: the user is shown afterwards although nothing is stored, until a reload.
  `LogoutHolds` has exactly this exception.
- A period chosen while another one is awaited can be overtaken by the older answer on dashboard and marketplace pages, if that comes last;
  `PeriodShown` has exactly this exception, and the next choice makes up for it.
- The window with which the marketplace pages compare contains the window shown, so that growth is never told of two answers
  of one snapshot: `GrowthIsTorn` says that everything said of a growing marketplace is said of a torn read.

## 14. Proofs

Each `*_proofs` module extends the module it is about and proves its theorems for every value of the constants, from the named `ASSUME`s of that
module alone.

`ProductSync_proofs.tla`, for every set of browsers, operations and requests, every
`MaxPage`, `PagesPerBatch` and `MaxTrouble`, and both response orders. Assumptions: the four named
`ASSUME`s of `ProductSync` (bounds are positive naturals, the special values differ).

1. `Typed` = `TypeOK` with the ranges of the local variables (`SweepRange`: a batch that is still
   reading has a page to read) and `WaitingHasOp`. `TypeOK` alone is not inductive:
   `page` could leave the catalogue.
2. `TxnInv`, the transaction invariant. `CommittedInv`: the committed row accounts for the stored
   pages (`Counted`: the range of `processed`, which `CountedAll` carries over a batch). `SweepInv(r)`: a request that reads holds the guard, works on the row it would
   claim now, and its locals account for the pages read. `WrittenInv(r)`: a row waiting for its commit
   accounts for its pages, lies at most one batch ahead of the committed one, and is still
   claimable. The guard is what makes them inductive: all requests but its holder are quiet (lemma `QuietTxn`).
3. `ClaimFresh`, `StoredAgrees`, `TotalsAgree` follow from `TxnInv`.
4. `Refinement`: initial states map to initial states (`InitSweep`); a commit of a written row is
   a `Begin` or a `Resume` (`CommitSweep`, from `WrittenInv`), the expiry of the lease is `Expire`, everything
   else stutters (`StepSweep`).
5. `ToldTruth`: `AnswersInv` relates what a request will answer to what is committed, and
   a waiting browser to its request.
6. `LockSafe`, `Advances`: action properties, from the invariants.

`OrderItems_proofs.tla`, for every set of browsers, operations and requests, every `MaxOrder`,
`Limit` and `MaxTrouble`, from the three named `ASSUME`s of `OrderItems`.

1. What a batch selects (`BatchCovers`): everything bare behind the start up to the next cursor, all of
   it if there is no more, and with more to do the cursor moves. It needs the greatest element of a finite set and
   the size of its initial parts (`GreatestExists`, `FoundAll`), by well-founded induction over
   the strict subsets.
2. One lemma per action gives the fields of `req'[r]`, so that the invariants need not look into records.
3. `TxnInv`: whoever may still commit holds the guard, works on the row it would claim now
   (`BatchInv`), and a row that waits for its commit continues the committed one (`WroteInv`).
   It gives `TypeCorrect`, `EnrichedCounted` and `Forward`, for both response orders.
4. `CursorInv`, for commit-before-response. `CursorSkipsNothing` is not inductive: a request carries a
   cursor and a selection of its own. `TriedInv(r)` says for each phase what is owed behind the start is still to be
   tried, has been tried, or lies behind the next cursor; `SettledInv` that a completion a page may still
   learn of owes nothing; `NamesInv` that ids come from pages, so that a fresh operation is no owner.
   It gives `CursorSafe` and `ToldSwept`.

`OAuthConnection_proofs.tla`, for every set of requests and states and every `MaxToken`.

1. `TypeInv` is `TypeOK` with every token known to be issued: nothing refers to one that Bling has yet to issue.
2. `GrantInv`: a state that is not gone is with nobody; a gone one is with at most one callback that has not exchanged its code, and then
   has no grant. It gives `OneGrant`.
3. `Inv` is what a token's story needs. `Local`, per request: `Version` relates what a transaction has written to what it has spent (the
   row it would commit holds a live token, or one whose end is accounted for), whoever has written holds the lock, and whoever is about to refresh has just
   read the row under it. `TokenInv` is the same for the committed row, `ApartInv` says that nobody else has met the tokens of a callback before it writes.
   `StoredIsCurrent` alone is not inductive: it says nothing of what a transaction is about to commit.
4. Most steps change one request and drop no token without recording it (`Careful`); `OneStep` carries `Inv` over all of these at once.
   The others (`Commit`, `Abort`, `RollbackSavepoint`, revocations) have lemmas of their own. `RotationRecorded` and `RefusalIsReal` follow.
5. `Disconnected` follows from which steps publish a row at all (`Commit`) and what each version can be.

`SyncCentre_proofs.tla`, for any tabs, periods, slots and bounds. `FreshInv` adds to `CachedFresh` the requests in flight: an answer
that will be stored under the current revision was computed after the invalidation. `WaitInv` ties a waiting section to its request, which
gives `ShowInv`; `CompleteInv` bounds what a run covers by what is committed; `OwnInv` that an open page
runs at most one synchronisation of its own, exactly when it says so.

`InsightNarrative_proofs.tla`, for any groups, texts and callers.

1. `StoreInv` and `CallInv` (what is saved lies under its own key, what a call is about to save is an insight) give the types.
2. `FirmInv`: a firm insight is archived, and no reconciliation under way holds a record of it that it is going to save (`Pursues`); one that has yet to
   read it will pass it over. It gives `ArchivedStays`.
3. `CountInv` for `CountsAreTold`. `CountsTold` is not inductive: it says nothing of an insight that is saved while its event is yet to be told, nor of
   the record a call is about to save. As long as calls have not overlapped, one call at most is open (`Alone`); it is `Informed` (what it holds is
   what is stored, or one step further, `Prepared`), and every key but the torn ones is `Balanced`: its events and the one that is `Owed` are what the
   insight counts. Each action keeps this by one lemma about a step of a call that runs alone (`CountStep`); `TallyAppend` says what an event adds to a count.
   For calls that overlap `LedgerInv` bounds what is stored, and what a call is about to save, by the `Credit` of the insight: its events and those owed by calls that
   have saved. It uses that there are finitely many callers.
4. `NarrativesReadOnly`: a step of a reader is a step of the lifecycle or a stutter of it, so that the theorems of the lifecycle hold
   with narratives too. `ReaderInv`, on top of `CountInv`, bounds the version that was read by what is told when the events are read: `ContextIsCovered`.
5. `ReaderOK` says that the text delivered is faithful to the frozen context, from a lemma about the guard for any answer of a provider.

`Session_proofs.tla`, for any limits and submissions. `Counts`, the form of `BlockIff` for any counter, is kept by each operation of it.
`StoreInv` relates store, provider and submissions: nothing moves while the provider verifies,
while a submission that is not `stale` verifies something is stored, and so it is while a user is shown that is not `raced`; after a log-out whoever verifies is `stale`. It gives `LogoutFinal`.

`DataViews_proofs.tla` (it extends `Advice`, the last module of the pages), for any catalogues, marketplaces, periods, page size and number of requests in flight.

1. `ViewsTyped` are the types; `FreshInv` says that no live request of the products can bring what is older than the last attempt; `PeriodInv` that a period
   view shows the period chosen, waits for it with its last request (`Awaits`), or is overtaken. Both rest on one lemma about the removal of an element from a sequence (`Removed`).
2. `ReadInv`: whatever a view shows, or a request has been answered, was read from a snapshot there is. It is what makes the contents of a page those of a snapshot. With `PageInv` the types are `TypeCorrect`; `ReadInv` is `ShownWasRead`.
3. `GrowthTorn`: the window compared with contains the window shown (`Contained`), so that two answers of one snapshot never show growth (`OneSnapshot`), and all
   sentences about growth are said of a marketplace that grew (`GrowthSaid`).
4. `PagesAreCovered`: multiples of the page size fit the list but for the last page (`PagesFit`, `PageOf`); the pages put together are the prefixes
   of the list, page after page (`Together`); a page asked for is brought back among those there are (`PageBack`). Beside `ReadInv` it needs only that the page asked
   for is a number (`PageInv`).
5. `PagesAreAgreed`: one lemma per page. What a page adds up is a fold over a set, and a fold is a choice; `Summing` says what the function chosen is, and the
   total is given by a count: that of the units the summands consist of (`Units`, `TotalBounds`). Distributions are counts of parts of one
   interval (`PartsCounted`, `RangeCounted`). The brand clause leaves out a brand with the name `all`: the selector uses that word for no filter
   (`products-detail-page.tsx:169`, `catalog-view.ts:33`).

`Decisions_proofs.tla` (it extends `Commerce`), for any products, quantities, markets and thresholds. Assumptions: those of `Decisions`, that is, products are
the positions of a list, their figures naturals, growth is an integer or null, health a percentage, and `CriticalMinimum` is not zero.

1. That a product is critical exactly when it sells, has nothing left and is of curve A is
   arithmetic of the weights: 159 or more is reached by 80 + 50 + 30 only. `TakingOnlyRaises` compares, term by term, the score before and after a reservation.
2. Sums are recursive functions over an interval. `Recursion` shows that such a function is what its step says (by well-founded induction over the strict subsets
   of an interval, `LeastOf`: the library's own theorems of recursion take operators), `Summed`, `SumsOrdered` and `SumWith` what follows for sums.
3. `CurveIsPareto`: who sold more is within every limit another one is within (`BetterWithin`); everything ahead of the best seller outside A (`BestSeller`) is of A,
   and it is outside because that made 80%; the least of A was let in because those ahead of it did not.
4. `TimelineIsTold`: every comparison is one event at most, whose direction turns with its arguments (`EventFlips`); nine events at most are told (`FewEvents`).
5. `BriefingIsTold`: ranks are places in a strict order of the insights (`OrderOfInsights`, `Ranked`), urgency follows the score (`MoreUrgent`); a critical product of
   which anything is to be bought is bought at once (`CriticalBought`); the weighted score with `ManyCritical` critical products reaches 60, which is for today, whatever else is ranked (`CombinedIs`, `RoundReaches`).
6. `EnginesAreAgreed`: `CriticalReaches` follows a critical product through the lists, observations and priorities; what finance would reduce lasts more than
   sixty days and so is neither critical nor replenished (`ReducedLasts`); the first of a sorted list has the highest priority in it (`FirstOpportunity`, `FirstRisk`).

Stated by theorems only: the type invariants other than that of `ProductSync`, and `CriticalIff`, `TakingRaises`, `NarrativesReadOnly` and `ShownWasRead`.

Only model-checked: the liveness properties `GuardFreed`, `OperationEnds` (two runs), `SectionSettles` and `RunEnds`: fairness and `ENABLED` are out of the prover's
reach. Every other property of a passing run is a theorem. What a fold or a recursive function computes for every input is proved only as far as the lemmas above
go (they unfold the definition over finite sets); no module uses a recursive operator. Labels that the source writes with spaces have hyphens in
`Commerce` and parts of `Advice`.

## 15. Not modelled

- Order import (`_run_sync`, `_upsert_order`, `backfill_orders`): no unique constraint keeps orders apart by their external id
  (`models/order.py`), so that there is one row per order rests on the advisory guard every importing request takes (`checkpoint.py:69`), which is the `guard` of `Claim`;
  `backfill_orders` takes none and never creates. The upserts themselves are not modelled; their savepoints are those of `OAuthConnection` and `OrderItems`.
- sync-all on the server: its lock, claim, product batch and order items are those of sections 3 and 4, its sequence as the admin page
  makes it is in `SyncCentre`; the server's own phase rows are not modelled.
- Bling client: retries and throttle wait inside one call and change no state of the system; its outcome is a choice wherever it is called.
- Sync log, deferred item errors, upserts of marketplaces, listings and product channels: rows that nobody decides on.
- Of the engines: the score of financial health, payback, working capital, the business context and domain packages, and the pass-through
  queries of the facades. Of the pages: charts, tables, layout, wording.
- Read APIs and analytics (queries without state of their own; their answers are the snapshots), core services (adapters; Redis `SET NX EX` and `GETDEL`
  are modelled where they are used), database models and migrations, API proxies (their timeouts are actions of the callers),
  UI components, shell, scripts and placeholder modules.
