-------------------------------- MODULE Advice --------------------------------
(* What the detail pages advise: the pages of finance and of purchasing,      *)
(* whose services answer at once from fixed data, and those of the sales, the *)
(* inventory and the catalogue, from the snapshots their views read.  Each    *)
(* page is the record of what it shows: indicators, insights, advice.         *)
EXTENDS Screens

CONSTANTS
  Finance,      \* what the financial service may answer
  Purchases     \* and the purchasing service: categories to replenish, suppliers

\* Growth is in tenths of a percent.
ASSUME AdviceAssumption ==
  /\ \A f \in Finance : f.growth \in Int /\ f.margin \in Int /\ f.health \in 0..100
  /\ \A p \in Purchases :
       /\ IsFiniteSet(p.categories) /\ IsFiniteSet(p.suppliers) /\ p.suppliers # {}
       /\ \A c \in p.categories : /\ {c.toBuy, c.investment, c.coverage} \subseteq Nat
                                  /\ c.priority \in {"alta", "media", "baixa"}
       /\ \A s \in p.suppliers : /\ {s.lead, s.orders} \subseteq Nat
                                 /\ {s.share, s.reliability} \subseteq 0..100

Trend(n) == IF n > 0 THEN "growing" ELSE IF n < 0 THEN "falling" ELSE "stable"
Unless(S) == IF S = {} THEN {"keep"} ELSE S    \* the advice when there is no other

-----------------------------------------------------------------------------
(* Finance *)

\* The skeleton stays as long as there are no figures, an error included.
FinancialScreen(status, known) == IF ~known THEN "loading" ELSE Screen(status, FALSE)

HealthLabel(h) ==
  CASE h >= 90 -> "excellent" [] h \in 70..89 -> "good" [] h \in 50..69 -> "attention"
    [] h < 50 -> "critical"

FinancialTrends(f) ==
  LET sign(c) == Trend(IF c THEN 1 ELSE -1)
  IN [revenue |-> Trend(f.growth), profit |-> Trend(f.growth), margin |-> sign(f.margin > 15),
      cashFlow |-> sign(f.health >= 70), workingCapital |-> sign(f.growth >= 0),
      capitalEmployed |-> sign(f.health >= 70)]

FinancialInsights(f) ==
  [growth |-> IF f.growth >= 0 THEN "keep-costs" ELSE "review-expenses",
   margin |-> IF f.margin >= 15 THEN "monitor-costs" ELSE "recover-margin",
   health |-> IF f.health >= 70 THEN "keep-discipline" ELSE "review-terms"]

FinancialAdvice(f) ==
  Unless(Some("review-costs", f.health < 70) \cup Some("recover-margin", f.margin < 15)
           \cup Some("reinvest", f.growth > 150) \cup Some("contain-expenses", f.growth < -50))

FinancialPage(f) ==
  [screen |-> FinancialScreen("success", TRUE), level |-> HealthLabel(f.health),
   direction |-> IF f.growth >= 0 THEN "growth" ELSE "fall",
   trends |-> FinancialTrends(f), insights |-> FinancialInsights(f), advice |-> FinancialAdvice(f)]

-----------------------------------------------------------------------------
(* Purchasing *)

ToBuy(categories) == MapThenSumSet(LAMBDA c : c.toBuy, categories)
DaysCovered(categories) == MapThenSumSet(LAMBDA c : c.coverage, categories)
Priority(p) == {c \in p.categories : c.priority = "alta"}
CoverageBelow(p, days) == {c \in p.categories : c.coverage < days}
CoverageAbove(p, days) == {c \in p.categories : c.coverage > days}
Unreliable(p) == {s \in p.suppliers : s.reliability < 85}

\* The first of the sorted ones: any of the least by F.
Least(S, F(_)) == {x \in S : \A y \in S : F(x) <= F(y)}

PurchasingSummary(p) ==
  LET total == ToBuy(p.categories)
      critical == ToBuy(Priority(p))
      coverage == Round(DaysCovered(p.categories), Cardinality(p.categories))
      lead == Round(MapThenSumSet(LAMBDA s : s.lead, p.suppliers), Cardinality(p.suppliers))
      steps == (IF coverage >= 10 THEN 25 ELSE IF coverage >= 5 THEN 15 ELSE 5)
                 + (IF lead <= 10 THEN 25 ELSE IF lead <= 15 THEN 15 ELSE 5) + 10
  IN [toReplenish |-> total, coverage |-> coverage, lead |-> lead,
      capital |-> MapThenSumSet(LAMBDA c : c.investment, p.categories),
      orders |-> MapThenSumSet(LAMBDA s : s.orders, p.suppliers),
      suppliers |-> Cardinality(p.suppliers),
      health |-> IF total = 0 THEN 0    \* not a number in the code
                 ELSE Lesser(100, Round(30 * (total - critical) + steps * total, total)),
      priority |-> IF critical > 2 THEN "high" ELSE IF critical > 0 THEN "medium" ELSE "low",
      risk |-> IF coverage >= 15 THEN "low" ELSE IF coverage >= 8 THEN "moderate"
               ELSE IF coverage >= 5 THEN "high" ELSE "critical"]

PurchasingScreen(status, p) == Screen(status, p.categories = {})

KpiTrend(n, positive) ==
  IF n = 0 THEN "stable"
  ELSE IF n > 0 THEN (IF positive THEN "positive" ELSE "attention")
  ELSE IF positive THEN "negative" ELSE "positive"

\* Per subject the categories or suppliers it may name; none when it is not told.
PurchasingInsights(p) ==
  [urgent |-> IF ToBuy(Priority(p)) > 0 THEN Least(Priority(p), LAMBDA c : -c.investment) ELSE {},
   coverage |-> Least(CoverageBelow(p, 10), LAMBDA c : c.coverage),
   excess |-> Least(CoverageAbove(p, 20), LAMBDA c : -c.coverage),
   suppliers |-> Least(Unreliable(p), LAMBDA s : s.reliability)]

PurchasingAdvice(p) ==
  Unless(Some("urgent-orders", Priority(p) # {})
           \cup Some("raise-safety-stock", CoverageBelow(p, 10) # {})
           \cup Some("review-excess", CoverageAbove(p, 25) # {})
           \cup Some("assess-suppliers", Unreliable(p) # {})
           \cup Some("depend-less", \E s \in p.suppliers : s.share > 30))

PurchasingPage(p) ==
  LET s == PurchasingSummary(p)
  IN [screen |-> PurchasingScreen("success", p), summary |-> s,
      trends |-> [toReplenish |-> KpiTrend(s.toReplenish, FALSE), capital |-> KpiTrend(s.capital, FALSE),
                  coverage |-> KpiTrend(s.coverage, TRUE), orders |-> KpiTrend(s.orders, TRUE),
                  suppliers |-> KpiTrend(IF s.suppliers > 3 THEN 1 ELSE -1, TRUE),
                  lead |-> KpiTrend(-s.lead, TRUE)],
      insights |-> PurchasingInsights(p), advice |-> PurchasingAdvice(p)]

-----------------------------------------------------------------------------
(* Sales, inventory and catalogue *)

\* Figures the services of sales and inventory never compute.
SalesGrowth == 0
ConversionRate == 0
WithoutTurnover == 0

SalesInsights(at, p) ==
  [health |-> IF SalesHealth(at, p) >= 80 THEN "success" ELSE "info",
   growth |-> IF SalesGrowth >= 10 THEN "success" ELSE "info",
   conversion |-> IF ConversionRate >= 5 THEN "success"
                  ELSE IF ConversionRate <= 1 THEN "danger" ELSE "info"]

SalesAdvice == Unless(Some("review-products", ConversionRate <= 1))

SalesPage(at, p) ==
  [orders |-> snapshots[at].orders[p].total, health |-> SalesHealth(at, p),
   insights |-> SalesInsights(at, p), advice |-> SalesAdvice]

\* The table of the inventory's problems looks at what has no turnover only.
InventoryPage(at) ==
  [inStock |-> InventoryFigures(at).inStock, withoutStock |-> WithoutTurnover,
   critical |-> InventoryFigures(at).critical, problem |-> WithoutTurnover > 0]

\* How many of the items are in a range, of a status or of a brand.
CountOf(items, P(_)) == Cardinality({i \in DOMAIN items : P(items[i])})
StockRanges(items) ==
  [none |-> CountOf(items, LAMBDA k : k.stock <= 0),
   upTo5 |-> CountOf(items, LAMBDA k : k.stock \in 1..5),
   upTo20 |-> CountOf(items, LAMBDA k : k.stock \in 6..20),
   upTo50 |-> CountOf(items, LAMBDA k : k.stock \in 21..50),
   more |-> CountOf(items, LAMBDA k : k.stock > 50)]

CataloguePage(items) ==
  [stock |-> StockRanges(items),
   brand |-> [b \in {items[i].brand : i \in DOMAIN items} |-> CountOf(items, LAMBDA k : k.brand = b)],
   active |-> CountOf(items, LAMBDA k : k.active),
   inactive |-> CountOf(items, LAMBDA k : ~k.active)]

-----------------------------------------------------------------------------
(* Properties *)

\* The margin is told falling and healthy at once at 15 exactly, which is the fixed
\* data's; but for that the indicators, the insights and the advice agree, and
\* nothing else is advised to a business told to keep its course in good health.
FinanceAgrees ==
  \A f \in Finance :
    LET told == FinancialPage(f)
    IN /\ "recover-margin" \in told.advice <=> told.insights.margin = "recover-margin"
       /\ f.margin # 15 =>
            (told.trends.margin = "falling" <=> "recover-margin" \in told.advice)
       /\ "contain-expenses" \in told.advice =>
            told.trends.revenue = "falling" /\ told.insights.growth = "review-expenses"
       /\ told.advice = {"keep"} => told.level \in {"excellent", "good"}

\* The risk and the priority of the summary, which come from averages and sums, are
\* borne out by what is advised about single categories; nothing is advised to
\* keep while a category runs short or a supplier is unreliable.
PurchasingAgrees ==
  \A p \in Purchases :
    PurchasingScreen("success", p) = "content" =>
      LET told == PurchasingPage(p)
      IN /\ told.summary.risk \in {"high", "critical"} => "raise-safety-stock" \in told.advice
         /\ told.summary.risk = "low" => CoverageAbove(p, 14) # {}
         /\ told.summary.priority # "low" <=> told.insights.urgent # {}
         /\ told.insights.urgent # {} => "urgent-orders" \in told.advice
         /\ "review-excess" \in told.advice =>
              told.insights.excess # {} /\ told.insights.excess \cap told.insights.coverage = {}
         /\ told.advice = {"keep"} =>
              told.insights.coverage = {} /\ told.insights.suppliers = {} /\ told.summary.risk \in {"low", "moderate"}

\* The catalogue's distributions count every product once and as the filters do, but
\* for a brand with the name "all", which the selector takes for no filter.
CatalogueAgrees ==
  LET figures == CatalogueFigures(view["products"].at)
      shown == CataloguePage(Items)
      total == Len(Items)
  IN ProductsScreen = "content" =>
       /\ total = shown.stock.none + shown.stock.upTo5 + shown.stock.upTo20
                    + shown.stock.upTo50 + shown.stock.more
       /\ shown.stock.none = figures.outOfStock
       /\ figures.outOfStock = Len(Filtered(Items, [NoFilter EXCEPT !.stock = "out"]))
       /\ figures.active = shown.active /\ shown.active + shown.inactive = total
       /\ figures.brands = Cardinality(DOMAIN shown.brand \ {NoBrand})
       /\ \A b \in DOMAIN shown.brand \ {"all"} :
            shown.brand[b] = Len(Filtered(Items, [NoFilter EXCEPT !.brand = b]))

\* The sales page warns of the conversion when it advises to review the products.
SalesAgrees ==
  place = "sales" /\ ScreenOf[place] = "content" =>
    LET told == SalesPage(view["sales"].at, view["sales"].of)
    IN /\ told.insights.conversion = "danger" <=> "review-products" \in told.advice
       /\ told.insights.health = "success" => told.orders > 0

\* What is in stock and what is critical are different products of the inventory.
InventoryAgrees ==
  place = "inventory" /\ ScreenOf[place] = "content" =>
    LET told == InventoryPage(view["inventory"].at)
    IN told.inStock + told.critical + told.withoutStock <= AllProducts(view["inventory"].at)

\* No page contradicts itself, nor another about what both read from one snapshot.
PagesAgree ==
  /\ DashboardAgrees /\ CopilotAgrees /\ CatalogueAgrees
  /\ SalesAgrees /\ InventoryAgrees /\ FinanceAgrees /\ PurchasingAgrees
=============================================================================
