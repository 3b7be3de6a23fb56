------------------------------ MODULE Decisions ------------------------------
(* The decision engines of the front end, one fed by the other: the analysis *)
(* of the stock, the recommendations of purchase, the advice for the         *)
(* inventory (which no page shows yet), the executive insights, their        *)
(* priorities in the briefing and the timeline that compares two snapshots.  *)
(* They are pure: every operator here computes from the stock and the market *)
(* as they are, and the steps are what happens to those (sales,              *)
(* reservations, arrivals, a new market).                                    *)
(*                                                                          *)
(* Quantities, prices and percentages are integers; scores, which the code  *)
(* computes as decimals, are exact fractions rounded as Math.round does.    *)
EXTENDS Integers, FiniteSets, FiniteSetsExt

CONSTANTS
  Products,         \* what does not change of each product, a sequence
  Market,           \* summaries of the marketplaces: growth (<<>>: null), health, orders
  Start,            \* what the stock may be at first
  FirstMarket,      \* and the market
  CriticalMinimum,  \* CRITICAL_REPLENISHMENT_MINIMUM
  ManyCritical,     \* from how many on rule 3 says "critical"
  MaxSteps          \* bound on what happens

Item == DOMAIN Products

Stock == [current : Nat, reserved : Nat, incoming : Nat, sold : Nat,
          idle : BOOLEAN,   \* no sale in the last SLOW_MOVING_DAYS
          active : BOOLEAN]

ASSUME ItemsAssumption == IsFiniteSet(Item) /\ Item = 1..Cardinality(Item)

\* A number or null.
Nullable(x) == x = <<>> \/ x[1] \in Int

ASSUME DecisionsAssumption ==
  /\ \A i \in Item : /\ Products[i].daily \in Nat
                     /\ Products[i].minimum \in Nat /\ Products[i].maximum \in Nat
                     /\ Products[i].lead \in Nat
                     /\ Products[i].price \in Nat /\ Products[i].cost \in Nat
  /\ \A m \in Market : Nullable(m.growth) /\ m.health \in 0..100 /\ m.orders \in Nat
  /\ Start \subseteq [Item -> Stock] /\ FirstMarket \in Market
  /\ CriticalMinimum \in Nat \ {0} /\ ManyCritical \in Nat /\ MaxSteps \in Nat

VARIABLES
  stock, market,
  previous,     \* the snapshot before the last thing that happened
  steps

vars == <<stock, market, previous, steps>>

Lesser(a, b) == IF a < b THEN a ELSE b
Round(n, d) == (2 * n + d) \div (2 * d)    \* Math.round(n / d), d > 0

\* What f says of the products in S, in all.
Sum(S, f) ==
  LET sum[n \in 0..Cardinality(Item)] ==
        IF n = 0 THEN 0 ELSE sum[n - 1] + (IF n \in S THEN f[n] ELSE 0)
  IN sum[Cardinality(Item)]

\* And as factors of one number.
Times(S, f) ==
  LET times[n \in 0..Cardinality(Item)] ==
        IF n = 0 THEN 1 ELSE times[n - 1] * (IF n \in S THEN f[n] ELSE 1)
  IN times[Cardinality(Item)]

-----------------------------------------------------------------------------
(* The analysis of one product *)

Available(i) == stock[i].current - stock[i].reserved
Projected(i) == Available(i) - Products[i].daily * Products[i].lead + stock[i].incoming
Suggested(i) == LET lack == Products[i].maximum - Projected(i) IN IF lack > 0 THEN lack ELSE 0

\* Coverage in days is available stock over daily sales; unknown without sales.
Covered(i) == Products[i].daily # 0
CoversAtMost(i, days) == Covered(i) /\ Available(i) <= days * Products[i].daily

RunsOut(i) == Projected(i) <= 0 /\ Products[i].daily > 0

Status(i) ==
  CASE ~stock[i].active -> "inactive"
    [] stock[i].active /\ Available(i) <= 0 -> "out_of_stock"
    [] OTHER ->
         IF RunsOut(i) THEN "stockout_risk"
         ELSE IF Available(i) <= Products[i].minimum THEN "low_stock"
         ELSE IF Products[i].daily = 0 /\ stock[i].idle THEN "slow_moving"
         ELSE IF Available(i) > Products[i].maximum THEN "overstock"
         ELSE "healthy"

\* Fault: the product that crosses the limit is left out of the class.
WithinOnly(before, own, all, limit) == 100 * (before + own) <= limit * all

Within(before, own, all, limit) ==
  100 * (before + own) <= limit * all \/ 100 * before < limit * all

\* The ABC curve: products by what they sold, equal ones in their order; in the
\* class of a limit up to it, and the one that crosses it too.
SoldMore(sales, j, i) == sales[j] > sales[i] \/ (sales[j] = sales[i] /\ j < i)
Curve(sales) ==
  LET all == Sum(Item, sales)
      before == [i \in Item |-> Sum({j \in Item : SoldMore(sales, j, i)}, sales)]
  IN [i \in Item |-> IF all = 0 THEN "C"
                     ELSE IF Within(before[i], sales[i], all, 80) THEN "A"
                     ELSE IF Within(before[i], sales[i], all, 95) THEN "B" ELSE "C"]
Sales == [i \in Item |-> stock[i].sold * Products[i].price]
Abc == Curve(Sales)

\* Weights in halves of a point: 40, 25, 15 and 5; a risk has 0.8 of the 40.
RiskWeight(i) ==
  CASE Status(i) = "out_of_stock" -> 80
    [] Status(i) = "stockout_risk" -> 64
    [] OTHER -> 0
Weight(i, curve) ==
  LET coverage == IF CoversAtMost(i, 3) THEN 50 ELSE IF CoversAtMost(i, 7) THEN 25 ELSE 0
      class == IF curve = "A" THEN 30 ELSE IF curve = "B" THEN 15 ELSE 0
      lack == IF Suggested(i) > 0 THEN 10 ELSE 0
  IN RiskWeight(i) + coverage + class + lack
Score ==
  LET abc == Abc
  IN [i \in Item |-> IF Status(i) = "inactive" THEN 0 ELSE Round(Weight(i, abc[i]), 2)]

Replenishment(score) ==
  CASE score >= 80 -> "critical"
    [] score >= 60 /\ score < 80 -> "high"
    [] score >= 40 /\ score < 60 -> "medium"
    [] score >= 20 /\ score < 40 -> "low"
    [] score < 20 -> "none"
Critical == LET score == Score IN {i \in Item : Replenishment(score[i]) = "critical"}

\* Why a product is where it is; abc is its class.
Reasons(i, abc) ==
  LET some == ({Status(i)} \ {"healthy"}) \cup ({abc} \ {"C"})
         \cup (IF CoversAtMost(i, 3) THEN {"covers 3 days"} ELSE {})
         \cup (IF CoversAtMost(i, 7) /\ ~CoversAtMost(i, 3) THEN {"covers 7 days"} ELSE {})
         \cup (IF Suggested(i) > 0 THEN {"purchase"} ELSE {})
  IN IF Status(i) = "inactive" THEN {"inactive"} ELSE IF some = {} THEN {"normal"} ELSE some

-----------------------------------------------------------------------------
(* Purchase recommendations *)

Recommended == {i \in Item : Status(i) # "inactive" /\ Suggested(i) > 0}

Urgency(i) ==
  LET lead == Products[i].lead
  IN IF ~Covered(i) \/ CoversAtMost(i, lead) THEN "immediate"
     ELSE IF CoversAtMost(i, lead + 3) THEN "today"
     ELSE IF CoversAtMost(i, 2 * lead) THEN "this_week" ELSE "planned"

RiskLevel(i) ==
  LET lead == Products[i].lead
  IN IF Status(i) = "out_of_stock" \/ ~Covered(i) \/ CoversAtMost(i, lead) THEN "critical"
     ELSE IF CoversAtMost(i, lead + 3) \/ Status(i) = "stockout_risk" THEN "high"
     ELSE IF Status(i) = "low_stock" THEN "medium" ELSE "low"

-----------------------------------------------------------------------------
(* The summary of the stock and the advice of the inventory page *)

Of(statuses) == {i \in Item : Status(i) \in statuses}
Stagnant == Of({"overstock", "slow_moving"})
Idle == {i \in Stagnant : Available(i) > 0 /\ Products[i].cost > 0}
Selling == {i \in Item : Covered(i)}

\* The average coverage of the products that sell, over a common denominator; a
\* sequence, empty when there is none.
AverageCoverage ==
  LET common == Times(Selling, [i \in Selling |-> Products[i].daily])
      days == Sum(Selling, [i \in Selling |-> Available(i) * (common \div Products[i].daily)])
  IN IF Selling = {} THEN <<>> ELSE <<Round(days, common * Cardinality(Selling))>>

Summary ==
  [outOfStock |-> Cardinality(Of({"out_of_stock"})),
   atRisk |-> Cardinality(Of({"stockout_risk"})),
   slowMoving |-> Cardinality(Of({"slow_moving"})),
   overstock |-> Cardinality(Of({"overstock"})),
   idleProducts |-> Cardinality(Stagnant),
   idleValue |-> Sum(Idle, [i \in Idle |-> Available(i) * Products[i].cost]),
   coverage |-> AverageCoverage,
   critical |-> Cardinality(Critical)]

\* Three insights about it: what is idle, how long the stock lasts, what is critical.
StockInsights(s) ==
  [idle |-> IF s.idleProducts > 0 THEN "review and free capital" ELSE "monitor",
   coverage |-> IF s.coverage # <<>> THEN "keep the policy" ELSE "adjust",
   critical |-> IF s.critical > 0 THEN "replenish first" ELSE "monitor",
   risk |-> IF s.critical >= CriticalMinimum THEN "high" ELSE "controlled"]

StockAdvice(s) ==
  LET some == (IF s.idleProducts > 0 THEN {"free capital"} ELSE {})
         \cup (IF s.critical > 0 THEN {"replenish"} ELSE {})
         \cup (IF s.coverage # <<>> /\ s.coverage[1] < 7 THEN {"raise coverage"} ELSE {})
         \cup (IF s.slowMoving > 0 THEN {"review slow products"} ELSE {})
         \cup (IF s.overstock > 0 THEN {"reduce excess"} ELSE {})
  IN IF some = {} THEN {"keep"} ELSE some

-----------------------------------------------------------------------------
(* Executive insights *)

\* calculatePriority: an impact that is a sentence counts 40; every insight here
\* affects two domains.
SeverityBase == [critical |-> 100, high |-> 80, medium |-> 60, low |-> 40, info |-> 20]
ImpactScore == [high |-> 100, medium |-> 60, low |-> 30, sentence |-> 40]
Insight(rule, severity, impact, confidence) ==
  [rule |-> rule, severity |-> severity, impact |-> impact,
   priority |-> Round(35 * SeverityBase[severity] + 25 * confidence
                        + 25 * ImpactScore[impact] + 15 * 80, 100)]

\* Sales grow while products wait for stock; a growth nobody knows says nothing.
GrowthPressure(s, m) ==
  IF m.growth # <<>> /\ m.growth[1] >= 15 /\ s.critical > 0
  THEN {Insight(1, "high", "medium", Lesser(Round(100 + m.growth[1], 2), 95))} ELSE {}

IdleCapital(s) ==
  IF s.idleProducts >= 3 /\ s.idleValue >= 10000
  THEN LET severity == IF s.idleValue >= 100000 THEN "high"
                       ELSE IF s.idleValue >= 30000 THEN "medium" ELSE "low"
       IN {Insight(2, severity, severity,
                   Lesser(Round(120 + 3 * Lesser(s.idleProducts, 20), 2), 95))}
  ELSE {}

\* Fault: off by one at the minimum.
UrgentReplenishmentAbove(s) ==
  IF s.critical > CriticalMinimum THEN {Insight(3, "high", "sentence", 75)} ELSE {}

UrgentReplenishment(s) ==
  IF s.critical >= CriticalMinimum
  THEN {Insight(3, IF s.critical >= ManyCritical THEN "critical" ELSE "high", "sentence",
                Lesser(70 + 5 * s.critical, 98))} ELSE {}

HealthyOutlook(s, m) ==
  IF m.health >= 80 /\ s.outOfStock + s.atRisk <= 2
  THEN {Insight(4, "info", "sentence", Lesser(Round(120 + m.health, 2), 95))} ELSE {}

Insights(s, m) ==
  GrowthPressure(s, m) \cup IdleCapital(s) \cup UrgentReplenishment(s) \cup HealthyOutlook(s, m)

-----------------------------------------------------------------------------
(* Priorities of the briefing *)

SeverityBonus == [critical |-> 100, high |-> 75, medium |-> 50, low |-> 25, info |-> 0]
ImpactBonus == [high |-> 100, medium |-> 60, low |-> 30, sentence |-> 30]
ComplexityPenalty == <<15, 0, 0, 15>>    \* of the four rules: medium, easy, easy, medium
DependencyBonus == <<10, 10, 0, 10>>     \* urgent replenishment waits for an approval

\* The combined score: 30 for the priority against the highest one, 25 for the
\* severity, 20 for the impact, 15 for being easy and 1 for not being blocked.
Combined(insights, x) ==
  LET highest == Max({1} \cup {y.priority : y \in insights})
  IN Round(600 * x.priority
           + highest * (5 * SeverityBonus[x.severity] + 4 * ImpactBonus[x.impact]
                        + 10 * (30 - ComplexityPenalty[x.rule]) + 2 * DependencyBonus[x.rule]),
           20 * highest)

When(score) == CASE score >= 80 -> "immediate"
                 [] score >= 60 /\ score < 80 -> "today"
                 [] score >= 40 /\ score < 60 -> "this_week"
                 [] score < 40 -> "monitor"

\* Why it is told now: what is grave is for today even when its score is not.
WhyNow(severity, when) ==
  IF when \in {"immediate", "today"} THEN when
  ELSE IF severity \in {"critical", "high"} THEN "today" ELSE when

\* By combined score, then priority, then the order of generateInsights, which is
\* by priority and then by rule.
Precedes(insights, y, x) ==
  LET cy == Combined(insights, y)  cx == Combined(insights, x)
  IN cy > cx \/ (cy = cx /\ (y.priority > x.priority
                               \/ (y.priority = x.priority /\ y.rule < x.rule)))
Rank(insights, x) == 1 + Cardinality({y \in insights : Precedes(insights, y, x)})
Priority(insights, x) ==
  LET score == Combined(insights, x)
  IN [rank |-> Rank(insights, x), score |-> score, urgency |-> When(score),
      whyNow |-> WhyNow(x.severity, When(score)), severity |-> x.severity]

-----------------------------------------------------------------------------
(* The timeline *)

Snapshot == LET s == Summary
            IN [inventory |-> s, market |-> market, insights |-> Insights(s, market)]

\* Fault: only what rises is told.
EventOfRise(id, before, after, rising) ==
  IF after <= before THEN {} ELSE {[id |-> id, direction |-> rising]}

Event(id, before, after, rising) ==
  IF after = before THEN {}
  ELSE {[id |-> id, direction |-> IF after > before THEN rising
                                  ELSE IF rising = "improved" THEN "worsened" ELSE "improved"]}

CompareMarketplace(p, c) ==
  Event("health", p.market.health, c.market.health, "improved")
    \cup Event("orders", p.market.orders, c.market.orders, "improved")
    \cup (IF p.market.growth = <<>> \/ c.market.growth = <<>> THEN {}
          ELSE Event("growth", p.market.growth[1], c.market.growth[1], "improved"))

CompareInventory(p, c) ==
  LET b == p.inventory  a == c.inventory
  IN Event("stockout", b.outOfStock, a.outOfStock, "worsened")
       \cup Event("idle-capital", b.idleValue, a.idleValue, "worsened")
       \cup Event("critical", b.critical, a.critical, "worsened")
       \cup (IF b.coverage = <<>> \/ a.coverage = <<>> THEN {}
             ELSE Event("coverage", b.coverage[1], a.coverage[1], "worsened"))

\* SEVERITY_ORDER: 4 for "critical" down to 0 for "info".
Told(insights, severity) == Cardinality({x \in insights : x.severity = severity})
Gravity(insights) ==
  4 * Told(insights, "critical") + 3 * Told(insights, "high")
    + 2 * Told(insights, "medium") + Told(insights, "low")
Criticals(insights) == Told(insights, "critical")

CompareExecutive(p, c) ==
  LET count == Event("insights", Cardinality(p.insights), Cardinality(c.insights), "worsened")
      critical == Event("critical-insights", Criticals(p.insights), Criticals(c.insights),
                        "worsened")
      shift == Event("severity-shift", Gravity(p.insights), Gravity(c.insights), "worsened")
  IN count \cup critical \cup (IF count = {} /\ critical = {} THEN shift ELSE {})

\* Ten events are kept; no comparison has more.
Timeline(p, c) == CompareMarketplace(p, c) \cup CompareInventory(p, c) \cup CompareExecutive(p, c)

-----------------------------------------------------------------------------
(* What happens to the stock and the market *)

Step == steps < MaxSteps /\ steps' = steps + 1 /\ previous' = Snapshot

Sell(i) ==
  /\ Step /\ stock[i].current > 0
  /\ stock' = [stock EXCEPT ![i].current = @ - 1, ![i].sold = @ + 1, ![i].idle = FALSE]
  /\ UNCHANGED market

Reserve(i) ==
  /\ Step
  /\ stock' = [stock EXCEPT ![i].reserved = @ + 1]
  /\ UNCHANGED market

Order(i) ==
  /\ Step /\ i \in Recommended
  /\ stock' = [stock EXCEPT ![i].incoming = @ + Suggested(i)]
  /\ UNCHANGED market

Receive(i) ==
  /\ Step /\ stock[i].incoming > 0
  /\ stock' = [stock EXCEPT ![i].current = @ + stock[i].incoming, ![i].incoming = 0]
  /\ UNCHANGED market

\* Sixty days without a sale.
Age(i) ==
  /\ Step /\ ~stock[i].idle
  /\ stock' = [stock EXCEPT ![i].idle = TRUE]
  /\ UNCHANGED market

Toggle(i) ==
  /\ Step
  /\ stock' = [stock EXCEPT ![i].active = ~@]
  /\ UNCHANGED market

Observe(m) ==
  /\ Step /\ m # market
  /\ market' = m
  /\ UNCHANGED stock

Init == stock \in Start /\ market = FirstMarket /\ previous = Snapshot /\ steps = 0

Next ==
  \/ \E i \in Item : Sell(i) \/ Reserve(i) \/ Order(i) \/ Receive(i) \/ Age(i) \/ Toggle(i)
  \/ \E m \in Market : Observe(m)

Spec == Init /\ [][Next]_vars

-----------------------------------------------------------------------------
(* Properties *)

TypeOK == stock \in [Item -> Stock] /\ market \in Market /\ steps \in Nat

\* "Critical" replenishment, out of five weights and four thresholds, means exactly
\* this: an active product of the curve A that sells and has nothing left.  A risk
\* of running out is never enough, nor is any product of another curve.
CriticalIff ==
  Critical = {i \in Item : /\ stock[i].active /\ Available(i) <= 0
                            /\ Products[i].daily > 0 /\ Abc[i] = "A"}

\* The curve is Pareto's: the products above A make at least 80% of the sales and
\* would not without the least of them; who sells more is never in a lower class.
AbcIsPareto ==
  LET abc == Abc
      A == {i \in Item : abc[i] = "A"}
      Class == [A |-> 3, B |-> 2, C |-> 1]
      all == Sum(Item, Sales)
  IN /\ all > 0 => 100 * Sum(A, Sales) >= 80 * all
     /\ \A i \in A : Sales[i] > 0 =>
          100 * Sum({j \in A : SoldMore(Sales, j, i)}, Sales) < 80 * all
     /\ \A i, j \in Item : Sales[i] > Sales[j] => Class[abc[i]] >= Class[abc[j]]

\* Reserving stock never makes a product less urgent: neither its score, nor the
\* quantity suggested, nor its place, urgency and risk among the recommendations.
TakingRaises ==
  [][\A i \in Item :
       /\ stock'[i].current = stock[i].current /\ stock'[i].reserved > stock[i].reserved
       => /\ Score'[i] >= Score[i] /\ Suggested(i)' >= Suggested(i)
          /\ i \in Recommended => i \in Recommended'
          /\ Urgency(i) = "immediate" => Urgency(i)' = "immediate"
          /\ RiskLevel(i) = "critical" => RiskLevel(i)' = "critical"]_vars

Urgent == [immediate |-> 4, today |-> 3, this_week |-> 2, monitor |-> 1]

\* What the analysis calls critical reaches every engine: the advice for the
\* inventory, the purchases when anything is to be bought (at once, at
\* critical risk), and from CriticalMinimum products on the briefing, where with
\* ManyCritical it is for today at the latest, whatever else is ranked above it.
\* Ranks follow urgencies, and where capital is idle it is advised to free it.
BriefingTells ==
  LET s == Summary
      insights == Insights(s, market)
  IN /\ s.critical > 0 => "replenish" \in StockAdvice(s)
     /\ s.idleValue > 0 =>
          "free capital" \in StockAdvice(s) /\ StockInsights(s).idle = "review and free capital"
     /\ \A i \in Critical : Suggested(i) > 0 =>
          i \in Recommended /\ Urgency(i) = "immediate" /\ RiskLevel(i) = "critical"
     /\ s.critical >= CriticalMinimum =>
          \E x \in insights : /\ x.rule = 3
                              /\ s.critical >= ManyCritical =>
                                   Priority(insights, x).urgency \in {"immediate", "today"}
     /\ {Priority(insights, x).rank : x \in insights} = 1..Cardinality(insights)
     /\ \A x, y \in insights : Priority(insights, x).rank < Priority(insights, y).rank =>
          Urgent[Priority(insights, x).urgency] >= Urgent[Priority(insights, y).urgency]

\* The timeline is told the same way forwards and backwards: the subjects that
\* changed, each with the opposite direction, and never more than are kept.
Opposite(events) ==
  {[e EXCEPT !.direction = IF @ = "improved" THEN "worsened" ELSE "improved"] : e \in events}
TimelineFlips ==
  LET current == Snapshot
      forwards == Timeline(previous, current)
  IN Timeline(current, previous) = Opposite(forwards) /\ Cardinality(forwards) <= 10
=============================================================================
