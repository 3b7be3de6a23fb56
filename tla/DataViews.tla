------------------------------ MODULE DataViews ------------------------------
(* The pages that show what the backend holds: the dashboard, the products, *)
(* the marketplaces (all, and one of them), the inventory, the sales and    *)
(* the executive copilot.  Every page mounts its views (one hook each); a   *)
(* view asks for its data when it is mounted and whenever what it depends   *)
(* on changes.  The service of a view awaits the paths it needs together    *)
(* and fails with the first that fails; paths whose answers need not be told*)
(* apart are one request here, and only the marketplaces' period of         *)
(* comparison is another.  The hook of the products, and the one of the     *)
(* sales page, drop the answer of what was cleaned up; the others do not.   *)
(*                                                                          *)
(* The backend is the sequence of snapshots that synchronisations left; an  *)
(* answer is the number of the one it was read from.  A product is one of a *)
(* few kinds: what the filters tell apart.                                  *)
EXTENDS Integers, FiniteSets, SequencesExt

CONSTANTS
  Kind,         \* product kinds: records of active, stock and brand
  Nameless,     \* brands that say nothing: missing, blank, identifiers
  Marketplace,
  Detail,       \* the marketplace whose page may be opened
  Period,       \* the periods a page offers here
  Default,      \* the one it starts with
  PageSize,     \* PRODUCTS_PAGE_SIZE
  First,        \* what the backend may hold at first
  Snapshot,     \* what a synchronisation may leave
  MaxDb,        \* bound on the snapshots
  MaxFlight,    \* bound on the requests in flight of one view
  MaxClick      \* bound on what the user does on a page and the events of it

Windows == <<"today", "7d", "30d", "90d", "12m">>
Window == Range(Windows)

\* A snapshot: the catalogue; whether there are sales channels; per window what each
\* marketplace sold and the orders by status.  Every window ends now, so that a
\* longer one contains the shorter.
SnapshotOK(s) ==
  /\ {"products", "channels", "revenue", "orders"} = DOMAIN s
  /\ s.products \in Seq(Kind) /\ s.channels \in BOOLEAN
  /\ s.revenue \in [Window -> [Marketplace -> Nat]]
  /\ s.orders \in [Window -> [completed : Nat, pending : Nat, total : Nat]]
  /\ \A n \in 1..4 : \A m \in Marketplace :
       s.revenue[Windows[n]][m] <= s.revenue[Windows[n + 1]][m]

ASSUME ViewsAssumption ==
  /\ \A k \in Kind : /\ k.active \in BOOLEAN /\ k.stock \in Int
                     /\ {"active", "stock", "brand"} = DOMAIN k
  /\ Detail \in Marketplace /\ IsFiniteSet(Marketplace)
  /\ Period \subseteq Window /\ Default \in Period /\ PageSize \in Nat \ {0}
  /\ \A s \in First \cup Snapshot : SnapshotOK(s)
  /\ {MaxDb, MaxFlight, MaxClick} \subseteq Nat

VARIABLES
  snapshots,    \* of the backend, the last one current
  place,        \* the page that is open
  period,       \* the period chosen on it
  view,         \* per view: status, data shown and the snapshot it was asked under
  flights,      \* per view: its requests in flight, oldest first
  filter, page, \* of the products page
  overtaken,    \* views whose last request was answered before an older one
  clicks

vars == <<snapshots, place, period, view, flights, filter, page, overtaken, clicks>>

View == {"products", "command", "marketplace", "inventory", "sales"}

Mounted ==
  [dashboard |-> {"command", "marketplace", "products"}, products |-> {"products"},
   marketplaces |-> {"marketplace"}, marketplace |-> {"marketplace"},
   inventory |-> {"inventory"}, sales |-> {"sales"},
   copilot |-> {"marketplace", "inventory", "sales", "products"}]
Place == DOMAIN Mounted
Shown == Mounted[place]

\* The views that follow the period of the page; the others ask for a fixed one.
Periodic == {"command", "marketplace"}
AskedFirst(pl, v) == IF v = "inventory" \/ (v = "sales" /\ pl = "copilot") THEN "7d" ELSE Default

Waiting == 0

\* What a view shows: nothing at first; then data of a window, read from the
\* snapshot "at" and compared with the window before as it was in "base".
Loading == [status |-> "loading", at |-> 0, base |-> 0, of |-> Default, asked |-> 1]
Asking(p) == [period |-> p, live |-> TRUE, answer |-> Waiting, base |-> Waiting]

\* What the user sees of the products.
NoBrand == "Sem marca"
CatalogItem(k) == [k EXCEPT !.brand = IF @ \in Nameless THEN NoBrand ELSE @]
Items ==
  LET at == view["products"].at
  IN IF at = 0 THEN <<>>
     ELSE [i \in DOMAIN snapshots[at].products |-> CatalogItem(snapshots[at].products[i])]

\* The marketplaces of the view that sold something in its window.
SellersIn(at, p) == {m \in Marketplace : snapshots[at].revenue[p][m] > 0}
Sellers ==
  LET v == view["marketplace"] IN IF v.at = 0 THEN {} ELSE SellersIn(v.at, v.of)

-----------------------------------------------------------------------------
(* The catalogue shown: filters and pages *)

Filter == [status : {"all", "active", "inactive"}, stock : {"all", "in", "out"},
           brand : {"all"} \cup {CatalogItem(k).brand : k \in Kind}]
NoFilter == [status |-> "all", stock |-> "all", brand |-> "all"]

Passes(k, f) ==
  /\ f.status = "active" => k.active
  /\ f.status = "inactive" => ~k.active
  /\ f.stock = "in" => k.stock > 0
  /\ f.stock = "out" => k.stock <= 0
  /\ f.brand # "all" => k.brand = f.brand

\* The elements of s at some of its positions, in order.
Picked(s, at) ==
  [n \in 1..Cardinality(at) |-> s[CHOOSE i \in at : Cardinality({j \in at : j <= i}) = n]]

Filtered(items, f) == Picked(items, {i \in DOMAIN items : Passes(items[i], f)})

Lesser(a, b) == IF a < b THEN a ELSE b
Greater(a, b) == IF a > b THEN a ELSE b

\* Fault: the page asked for is not brought back.
PageNumberAsked(requested, total) == requested

PageNumber(requested, total) == Lesser(Greater(1, requested), total)

\* paginateProducts: the page asked for, brought back into the pages there are.
Paged(items, requested) ==
  LET total == Greater(1, (Len(items) + PageSize - 1) \div PageSize)
      number == PageNumber(requested, total)
      start == (number - 1) * PageSize
      end == Lesser(start + PageSize, Len(items))
  IN [page |-> number, total |-> total, start |-> start, end |-> end,
      items |-> SubSeq(items, start + 1, end)]

-----------------------------------------------------------------------------
(* What a page shows of its views: "loading", "error", "nothing" or "content" *)

Screen(status, nothing) ==
  IF status = "loading" THEN "loading" ELSE IF status = "error" THEN "error"
  ELSE IF nothing THEN "nothing" ELSE "content"

\* The dashboard waits for its command centre only.
DashboardScreen == Screen(view["command"].status, FALSE)
ProductsScreen == Screen(view["products"].status, Items = <<>>)
OverviewScreen ==
  Screen(view["marketplace"].status, view["marketplace"].status = "empty" \/ Sellers = {})
MarketplaceScreen == Screen(view["marketplace"].status, Detail \notin Sellers)
InventoryScreen == Screen(view["inventory"].status, view["inventory"].status = "empty")
SalesScreen == Screen(view["sales"].status, FALSE)

\* The copilot waits for all and fails with any.  Its financial and purchasing
\* services answer at once from fixed data: there is always something to show.
CopilotScreen ==
  LET statuses == {view[v].status : v \in Mounted["copilot"]}
  IN IF "loading" \in statuses THEN "loading"
     ELSE IF "error" \in statuses THEN "error" ELSE "content"

ScreenOf ==
  [dashboard |-> DashboardScreen, products |-> ProductsScreen, marketplaces |-> OverviewScreen,
   marketplace |-> MarketplaceScreen, inventory |-> InventoryScreen, sales |-> SalesScreen,
   copilot |-> CopilotScreen]

-----------------------------------------------------------------------------
(* Requests and answers *)

Click == clicks < MaxClick /\ clicks' = clicks + 1

\* A page is opened: the views of the one before are gone with their requests.
Visit(pl) ==
  /\ clicks' = 0
  /\ place' = pl /\ period' = Default
  /\ view' = [v \in View |-> [Loading EXCEPT !.asked = Len(snapshots)]]
  /\ flights' = [v \in View |-> IF v \in Mounted[pl] THEN <<Asking(AskedFirst(pl, v))>> ELSE <<>>]
  /\ filter' = NoFilter /\ page' = 1 /\ overtaken' = {}
  /\ UNCHANGED snapshots

\* The pages that have a selector of periods, with the view that leads each.
Leading == [dashboard |-> "command", marketplaces |-> "marketplace",
            marketplace |-> "marketplace"]

\* Fault: the page tells the period to this view only.
FollowersLeading == {Leading[place]}

Followers == Periodic \cap Shown

\* A period view asks again and keeps what it shows; nothing cancels the request
\* it waits for.  Only the content of a page has the selector.
ChoosePeriod(p) ==
  /\ place \in DOMAIN Leading /\ ScreenOf[place] = "content"
  /\ p # period
  /\ \A v \in Followers : Len(flights[v]) < MaxFlight
  /\ Click
  /\ period' = p
  /\ flights' = [v \in View |-> IF v \in Followers THEN Append(flights[v], Asking(p)) ELSE flights[v]]
  /\ overtaken' = overtaken \ Followers
  /\ UNCHANGED <<snapshots, place, view, filter, page>>

\* The cleanup of the effect.  Fault: there is none.
Uncancelled(queue) == queue
Cancelled(queue) == [i \in DOMAIN queue |-> [queue[i] EXCEPT !.live = FALSE]]

\* A new attempt of the products: the retry button after an error, or the events
\* that follow a synchronisation.  The answers of earlier attempts no longer count.
Attempt ==
  /\ "products" \in Shown
  /\ Len(flights["products"]) < MaxFlight
  /\ Click
  /\ view' = [view EXCEPT !["products"].status = "loading",
                          !["products"].asked = Len(snapshots)]
  /\ flights' = [flights EXCEPT !["products"] =
       Append(Cancelled(@), Asking(period))]
  /\ UNCHANGED <<snapshots, place, period, filter, page, overtaken>>

\* The proxy answers with what the backend holds.
Compared(v) == v = "marketplace"
Serve(v, i) ==
  /\ flights[v][i].answer = Waiting
  /\ flights' = [flights EXCEPT ![v][i].answer = Len(snapshots),
                                ![v][i].base = IF Compared(v) THEN @ ELSE Len(snapshots)]
  /\ UNCHANGED <<snapshots, place, period, view, filter, page, overtaken, clicks>>

\* The period a marketplace's growth is compared with.
ServeBase(v, i) ==
  /\ Compared(v) /\ flights[v][i].base = Waiting
  /\ flights' = [flights EXCEPT ![v][i].base = Len(snapshots)]
  /\ UNCHANGED <<snapshots, place, period, view, filter, page, overtaken, clicks>>

\* What a view becomes by the answer of f, and by an error.
Nothing(v, f) ==
  LET s == snapshots[f.answer]
  IN \/ v \in {"products", "inventory"} /\ s.products = <<>>
     \/ v = "marketplace" /\ ~s.channels /\ SellersIn(f.answer, f.period) = {}
Result(v, f) ==
  [view[v] EXCEPT !.status = IF Nothing(v, f) THEN "empty" ELSE "success",
                  !.at = f.answer, !.base = f.base, !.of = f.period]
Error(v, f) == [view[v] EXCEPT !.status = "error", !.at = 0, !.base = 0, !.of = f.period]

Arrived(v, i, result) ==
  /\ view' = IF flights[v][i].live THEN [view EXCEPT ![v] = result] ELSE view
  /\ flights' = [flights EXCEPT ![v] = RemoveAt(@, i)]
  /\ overtaken' = IF 1 < i /\ i = Len(flights[v]) THEN overtaken \cup ({v} \cap Periodic)
                  ELSE overtaken
  /\ UNCHANGED <<snapshots, place, period, filter, page, clicks>>

Arrive(v, i) ==
  /\ Waiting \notin {flights[v][i].answer, flights[v][i].base}
  /\ Arrived(v, i, Result(v, flights[v][i]))

\* One of the paths fails: not configured, unreachable, timed out, or with the
\* status the backend gave.
Fail(v, i) == Arrived(v, i, Error(v, flights[v][i]))

\* A synchronisation leaves another snapshot.
Synchronised ==
  /\ Len(snapshots) < MaxDb
  /\ \E s \in Snapshot : snapshots' = Append(snapshots, s)
  /\ UNCHANGED <<place, period, view, flights, filter, page, overtaken, clicks>>

-----------------------------------------------------------------------------
(* The products page *)

OnCatalogue == place = "products" /\ ProductsScreen = "content"
Current == Paged(Filtered(Items, filter), page)

\* One of the selectors of the catalogue; the page starts over.
SetFilter(x, f) ==
  /\ OnCatalogue /\ f[x] # filter[x]
  /\ Click
  /\ filter' = [filter EXCEPT ![x] = f[x]] /\ page' = 1
  /\ UNCHANGED <<snapshots, place, period, view, flights, overtaken>>

\* The buttons are enabled by the page shown but move the page asked for.
Turn ==
  /\ OnCatalogue
  /\ Click
  /\ \/ Current.page > 1 /\ page' = page - 1
     \/ Current.page < Current.total /\ page' = page + 1
  /\ UNCHANGED <<snapshots, place, period, view, flights, filter, overtaken>>

Init ==
  /\ snapshots \in {<<s>> : s \in First}
  /\ place \in Place /\ period = Default
  /\ view = [v \in View |-> Loading]
  /\ flights = [v \in View |-> IF v \in Shown THEN <<Asking(AskedFirst(place, v))>> ELSE <<>>]
  /\ filter = NoFilter /\ page = 1 /\ overtaken = {} /\ clicks = 0

Next ==
  \/ \E pl \in Place : Visit(pl)
  \/ \E p \in Period : ChoosePeriod(p)
  \/ Attempt
  \/ \E v \in View : \E i \in DOMAIN flights[v] :
       Serve(v, i) \/ ServeBase(v, i) \/ Arrive(v, i) \/ Fail(v, i)
  \/ Synchronised
  \/ \E x \in DOMAIN filter, f \in Filter : SetFilter(x, f)
  \/ Turn

Spec == Init /\ [][Next]_vars

-----------------------------------------------------------------------------
(* Properties *)

\* The products shown are never older than the last attempt: after the event of a
\* synchronisation or a retry no earlier answer comes back.
CatalogFresh ==
  view["products"].status \in {"success", "empty"}
    => view["products"].at >= view["products"].asked

\* A period view that waits for nothing shows the period chosen on the page,
\* whatever periods were chosen while others were being fetched, except when the
\* request of the last choice was answered before an older one; the next choice
\* makes up for that.
PeriodShown ==
  \A v \in Periodic \cap Shown :
    flights[v] = <<>> => view[v].of = period \/ v \in overtaken

\* The pages of the filtered products, put together, are the filtered products,
\* and the page shown is one of them whatever page was asked for before the
\* catalogue shrank: it is empty only when nothing passes the filter.
PagesCover ==
  LET kept == Filtered(Items, filter)
  IN /\ FlattenSeq([n \in 1..Current.total |-> Paged(kept, n).items]) = kept
     /\ Current.page \in 1..Current.total
     /\ Current.items = <<>> <=> kept = <<>>
=============================================================================
