------------------------------- MODULE Screens -------------------------------
(* What the pages of DataViews tell the reader: the figures their services   *)
(* compute from the snapshots they read, and the sentences chosen by those.  *)
(* Percentages are compared as fractions; the rounding of the code is kept   *)
(* where a figure is rounded before it is compared.                          *)
EXTENDS DataViews, FiniteSetsExt

CONSTANTS FinanceHealth, SuppliersHealth    \* fixed data of the copilot

ASSUME ScreensAssumption == FinanceHealth \in 0..100 /\ SuppliersHealth \in 0..100

Some(told, condition) == IF condition THEN {told} ELSE {}
Round(n, d) == (2 * n + d) \div (2 * d)    \* Math.round(n / d), d > 0

-----------------------------------------------------------------------------
(* Marketplaces: figures of the view v *)

\* Fault: the next shorter window.
PreviousShorter(p) ==
  CASE p \in {"today", "7d"} -> "today"
    [] p = "30d" -> "7d"
    [] p = "90d" -> "30d"
    [] p = "12m" -> "90d"

\* What a period is compared with is the next longer window.
PreviousPeriod(p) ==
  CASE p = "today" -> "7d"
    [] p = "7d" -> "30d"
    [] p = "30d" -> "90d"
    [] p \in {"90d", "12m"} -> "12m"

Revenue(v, m) == snapshots[v.at].revenue[v.of][m]
Before(v, m) == snapshots[v.base].revenue[PreviousPeriod(v.of)][m]

\* Growth is a percentage of the revenue before, unknown when that is nothing.
GrowthKnown(v, m) == Before(v, m) # 0
GrowthAbove(v, m, n) == GrowthKnown(v, m) /\ 100 * (Revenue(v, m) - Before(v, m)) > n * Before(v, m)
GrowthBelow(v, m, n) == GrowthKnown(v, m) /\ 100 * (Revenue(v, m) - Before(v, m)) < n * Before(v, m)

\* The service gives every marketplace full health and no share.
Health == 100
Share == 0

Leaders(v) == {m \in Sellers : \A n \in Sellers : Revenue(v, m) >= Revenue(v, n)}
Growing(v) == {m \in Sellers : GrowthAbove(v, m, 0)}
TotalRevenue(v) == MapThenSumSet(LAMBDA m : Revenue(v, m), Sellers)
AverageHealth == 0    \* the summary's, never computed

\* The priorities of the three insights of a marketplace's page.
InsightPriorities(v, m) ==
  <<IF Health < 70 THEN "alta" ELSE IF GrowthBelow(v, m, 0) THEN "media" ELSE "baixa",
    IF Health < 70 \/ GrowthBelow(v, m, -5) THEN "alta"
    ELSE IF GrowthBelow(v, m, 5) THEN "media" ELSE "baixa",
    IF Share > 30 /\ Health < 80 THEN "alta" ELSE IF Share > 10 THEN "media" ELSE "baixa">>

InsightActions(v, m) ==
  <<IF ~GrowthKnown(v, m) THEN "wait for a comparison"
    ELSE IF GrowthBelow(v, m, 0) THEN "review prices" ELSE "keep restocking",
    IF Health >= 70 THEN "monitor" ELSE "correct operation",
    IF Share > 20 THEN "keep service" ELSE "grow the channel">>

Recommendations(v, m) ==
  LET some == Some("review operation", Health < 70) \cup Some("accelerate", GrowthAbove(v, m, 15))
         \cup Some("analyse competition", GrowthBelow(v, m, -5)) \cup Some("explore", Share < 10)
  IN IF some = {} THEN {"keep"} ELSE some

NextActions(v, m) ==
  Some("improve health", Health < 80) \cup Some("reinforce service", Health >= 80)
    \cup (IF GrowthAbove(v, m, 15) THEN {"reinforce stock"}
          ELSE IF GrowthBelow(v, m, 0) THEN {"review listings"} ELSE {"monitor growth"})
    \cup (IF Share < 15 THEN {"raise share"} ELSE IF Share > 30 THEN {"protect share"}
          ELSE {"expand catalogue"})
    \cup Some("open channels", Health >= 90 /\ GrowthAbove(v, m, 10))
    \cup Some("detailed competition", GrowthBelow(v, m, -10))

-----------------------------------------------------------------------------
(* Figures of the other views *)

Count(at, P(_)) ==
  Cardinality({i \in DOMAIN snapshots[at].products : P(snapshots[at].products[i])})
AllProducts(at) == Len(snapshots[at].products)

\* Fault: nothing left counts as something.
HasStockAtZero(k) == k.stock >= 0

HasStock(k) == k.stock > 0

\* The catalogue counts what is at zero or below whether active or not, the
\* inventory only the active ones.
CatalogueFigures(at) ==
  [total |-> AllProducts(at), active |-> Count(at, LAMBDA k : k.active),
   outOfStock |-> Count(at, LAMBDA k : k.stock <= 0),
   brands |-> Cardinality({CatalogItem(k).brand : k \in Range(snapshots[at].products)} \ {NoBrand})]
NoFigures == [total |-> 0, active |-> 0, outOfStock |-> 0, brands |-> 0]

InventoryFigures(at) ==
  [inStock |-> Count(at, HasStock), critical |-> Count(at, LAMBDA k : k.stock <= 0 /\ k.active),
   health |-> Lesser(100, Round(100 * Count(at, HasStock), AllProducts(at)))]

SalesHealth(at, p) ==
  LET o == snapshots[at].orders[p]
  IN IF o.total > 0 THEN Lesser(100, Round(100 * o.completed, o.total)) ELSE 0

\* The recommendations of the command centre, from the backend's own counts, and
\* its score: 40 for the completed orders, 30 for active products, 30 for stock.
Commands(at, p) ==
  Some("restock", Count(at, LAMBDA k : k.stock <= 0) > 0)
    \cup Some("process orders", snapshots[at].orders[p].pending > 0)
    \cup Some("raise ticket", \E m \in Marketplace : snapshots[at].revenue[p][m] > 0)

CommandHealth(at, p) ==
  LET o == snapshots[at].orders[p]
      stock == FoldSeq(LAMBDA k, sum : k.stock + sum, 0, snapshots[at].products)
      fixed == (IF Count(at, LAMBDA k : k.active) > 0 THEN 30 ELSE 0)
                 + (IF stock > 0 THEN 30 ELSE 0)
  IN IF o.total > 0 THEN Lesser(100, Round(40 * o.completed + fixed * o.total, o.total)) ELSE fixed

-----------------------------------------------------------------------------
(* The dashboard and the copilot *)

Success(v) == view[v].status = "success"

\* A figure whose view failed or is still loading is shown as nothing.
DashboardFigures ==
  LET v == view["marketplace"]
  IN [revenue |-> IF Success("marketplace") THEN TotalRevenue(v) ELSE 0,
      leader |-> IF Success("marketplace") THEN Leaders(v) ELSE {},
      outOfStock |-> IF Success("products")
                     THEN CatalogueFigures(view["products"].at).outOfStock
                     ELSE NoFigures.outOfStock,
      top |-> IF ~Success("marketplace") THEN {}
              ELSE {m \in Sellers : Cardinality({n \in Sellers : Revenue(v, n) > Revenue(v, m)}) < 5},
      alerts |-> Commands(view["command"].at, view["command"].of),
      health |-> CommandHealth(view["command"].at, view["command"].of)]

\* The health of the four areas of the copilot; that of an area without data is
\* left out.
AreaHealth ==
  LET stock == IF Success("inventory") THEN {"stock"} ELSE {}
  IN [a \in {"marketplace", "finance", "sales"} \cup stock |->
        CASE a = "marketplace" -> AverageHealth
          [] a = "finance" -> FinanceHealth
          [] a = "sales" -> SalesHealth(view["sales"].at, view["sales"].of)
          [] a = "stock" -> InventoryFigures(view["inventory"].at).health]

Highlights ==
  {a \in DOMAIN AreaHealth : AreaHealth[a] >= 70}
    \cup Some("catalogue", Success("products")) \cup Some("suppliers", SuppliersHealth >= 70)
    \cup Some("growth", Success("marketplace") /\ Growing(view["marketplace"]) # {})

Alerts ==
  {a \in DOMAIN AreaHealth : AreaHealth[a] < 70}
    \cup Some("out of stock", Success("inventory")
                /\ InventoryFigures(view["inventory"].at).critical > 0)
    \cup Some("catalogue out of stock", Success("products")
                /\ CatalogueFigures(view["products"].at).outOfStock > 0)
    \cup {"supplier at risk"}    \* the fixed summary always names a risk

SummaryBar ==
  [good |-> Cardinality({a \in DOMAIN AreaHealth : AreaHealth[a] >= 70}),
   bad |-> Cardinality({a \in DOMAIN AreaHealth : AreaHealth[a] < 70})]

-----------------------------------------------------------------------------
(* Properties *)

\* A marketplace is told to grow only if a synchronisation fell between the two
\* requests of the view: the window compared with contains the window shown, so
\* that two answers of one snapshot never show growth, and all that the pages say
\* of a growing marketplace is said of a torn read.
GrowthIsTorn ==
  LET v == view["marketplace"]
      growthTold(m) ==
        \/ "accelerate" \in Recommendations(v, m)
        \/ {"reinforce stock", "open channels"} \cap NextActions(v, m) # {}
        \/ GrowthAbove(v, m, 0)
  IN Success("marketplace") =>
       \A m \in Sellers :
         /\ growthTold(m) => v.at # v.base
         /\ InsightActions(v, m)[1] = "keep restocking" /\ v.at = v.base =>
              InsightPriorities(v, m)[1] = "baixa" /\ Revenue(v, m) = Before(v, m)

\* The dashboard never contradicts itself: the alert to restock and the count of
\* products without stock come from two views, and agree when both read one
\* snapshot; the leader named is among the marketplaces listed.
DashboardAgrees ==
  place = "dashboard" /\ ScreenOf[place] = "content" =>
    /\ Success("products") /\ view["products"].at = view["command"].at =>
         ("restock" \in DashboardFigures.alerts <=> DashboardFigures.outOfStock > 0)
    /\ DashboardFigures.leader \subseteq DashboardFigures.top
    /\ DashboardFigures.leader = {} <=> DashboardFigures.revenue = 0

\* Nor does the copilot: its bar counts what its two lists name, and the inventory
\* and the catalogue, when both are of one snapshot, count the same products.
CopilotAgrees ==
  LET pr == view["products"]  inv == view["inventory"]
      areas == {"marketplace", "finance", "stock", "sales"}
  IN place = "copilot" /\ ScreenOf[place] = "content" =>
       /\ SummaryBar.good = Cardinality(Highlights \cap areas)
       /\ SummaryBar.bad = Cardinality(Alerts \cap areas)
       /\ Success("products") /\ Success("inventory") /\ pr.at = inv.at =>
            /\ "out of stock" \in Alerts => "catalogue out of stock" \in Alerts
            /\ InventoryFigures(inv.at).inStock + CatalogueFigures(pr.at).outOfStock
                 = CatalogueFigures(pr.at).total
=============================================================================
