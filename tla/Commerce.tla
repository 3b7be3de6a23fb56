------------------------------- MODULE Commerce -------------------------------
(* The engines that read the analysis of Decisions: sales intelligence (what  *)
(* to do for a product), financial intelligence (what its stock costs), the   *)
(* inventory decision centre and the executive copilot, which composes what   *)
(* the others found.  Rates are in hundredths of a percent, margins in        *)
(* percent; scores are exact fractions rounded as Math.round does.            *)
EXTENDS Decisions

CONSTANT Performance    \* of each product: views, conversion rate, orders, revenue, margin

ASSUME PerformanceAssumption ==
  /\ DOMAIN Performance = Item
  /\ \A i \in Item : /\ Performance[i].views \in Nat /\ Performance[i].rate \in Nat
                     /\ Performance[i].orders \in Nat /\ Performance[i].revenue \in Nat
                     /\ Performance[i].margin \in 0..100

CoversAtLeast(i, days) == Covered(i) /\ Available(i) >= days * Products[i].daily
CoversAbove(i, days) == Covered(i) /\ Available(i) > days * Products[i].daily

-----------------------------------------------------------------------------
(* Sales intelligence *)

\* Products that are inactive, or neither seen nor sold, are not looked at.
Analysed == {i \in Item : Status(i) # "inactive"
                            /\ (Performance[i].views > 0 \/ Performance[i].revenue > 0)}

\* In hundredths: 60 for the conversion, 40 for the views.
ConversionScore(i) ==
  LET p == Performance[i]
  IN IF p.views = 0 THEN 0 ELSE Round(60 * Lesser(p.rate, 1000) + 40 * Lesser(p.views, 1000), 1000)

\* In tenths.
StockAvailability(i) ==
  IF Available(i) <= 0 THEN 0
  ELSE IF ~Covered(i) THEN 5
  ELSE IF CoversAtLeast(i, 60) THEN 10 ELSE IF CoversAtLeast(i, 30) THEN 8
  ELSE IF CoversAtLeast(i, 15) THEN 6 ELSE IF CoversAtLeast(i, 7) THEN 3 ELSE 1

\* Conversion weighs 30, margin 25, stock 20, views 15 and revenue 10.
OpportunityScore(i) ==
  LET p == Performance[i]
  IN Round(3000 * ConversionScore(i) + 2500 * p.margin + 20000 * StockAvailability(i)
             + 75 * Lesser(p.views, 2000) + 2 * Lesser(p.revenue, 50000), 10000)

OpportunityPriority(i) ==
  LET score == OpportunityScore(i)
  IN IF score >= 75 THEN "critical" ELSE IF score >= 50 THEN "high"
     ELSE IF score >= 25 THEN "medium" ELSE "low"

OpportunityType(i) ==
  LET p == Performance[i]
      converts == p.rate >= 500
  IN IF converts /\ CoversAtMost(i, 15) THEN "replenish_stock"
     ELSE IF p.views >= 500 /\ p.rate <= 100 THEN "improve_listing"
     ELSE IF p.margin >= 40 /\ converts /\ Available(i) > 0 THEN "increase_ads"
     ELSE IF CoversAtLeast(i, 60) /\ ~converts THEN "review_price" ELSE "monitor"

\* In tenths: how sure the advice is.
Confidence(i) ==
  LET p == Performance[i]
      views == IF p.views > 5000 THEN 3 ELSE IF p.views > 1000 THEN 2 ELSE 0
  IN 5 + views + (IF p.rate > 300 THEN 1 ELSE 0) + (IF StockAvailability(i) > 5 THEN 1 ELSE 0)

\* What a product may gain: 15% of its revenue, or of one where there is none, as
\* sure as the advice is, and of that 12% of the margin.
Opportunity(i) ==
  LET p == Performance[i]
      revenue == IF p.revenue = 0 THEN 1 ELSE p.revenue
      gain == Round(15 * revenue * Confidence(i), 1000)
  IN [type |-> OpportunityType(i), priority |-> OpportunityPriority(i),
      confidence |-> Confidence(i), revenueGain |-> gain,
      marginGain |-> Round(gain * p.margin * 12, 10000)]

HighOpportunities == {i \in Analysed : OpportunityPriority(i) \in {"critical", "high"}}

\* The opportunities in the order they are listed: by priority, then confidence, then
\* the order of the products.
Standing == [critical |-> 4, high |-> 3, medium |-> 2, low |-> 1]
Before(i, j) ==
  LET x == 100 * Standing[OpportunityPriority(i)] + Confidence(i)
      y == 100 * Standing[OpportunityPriority(j)] + Confidence(j)
  IN x > y \/ (x = y /\ i < j)

SalesSummary ==
  [analysed |-> Cardinality(Analysed), high |-> Cardinality(HighOpportunities),
   critical |-> Cardinality({i \in Analysed : OpportunityPriority(i) = "critical"}),
   revenuePotential |-> Sum(Analysed, [i \in Analysed |-> Opportunity(i).revenueGain]),
   marginPotential |-> Sum(Analysed, [i \in Analysed |-> Opportunity(i).marginGain])]

-----------------------------------------------------------------------------
(* Financial intelligence *)

\* Revenue and orders come from the opportunities; other products have none.
Financed == {i \in Item : Status(i) # "inactive" /\ Products[i].cost > 0}
RevenueOf(i) == IF i \in Analysed THEN Performance[i].revenue ELSE 0

\* The return on a thirtieth of the stock, at least one unit.
Roi(i) ==
  LET units == IF Available(i) > 0 THEN (Available(i) + 29) \div 30 ELSE 1
      cost == Products[i].cost * units
  IN Round(100 * (RevenueOf(i) - cost), cost)

\* Fault: all of the stock counts, not what lasts beyond sixty days.
IdleCostWhole(i) ==
  IF Available(i) <= 0 \/ ~Covered(i) THEN 0 ELSE Products[i].cost * Available(i)

\* The cost of what lasts beyond sixty days; nothing is idle without sales.
IdleCost(i) ==
  IF CoversAbove(i, 60) /\ Available(i) > 0
  THEN Products[i].cost * (Available(i) - 60 * Products[i].daily) ELSE 0
IdleAbove(i, percent) ==
  LET value == Available(i) * Products[i].cost
  IN value > 0 /\ 100 * IdleCost(i) > percent * value

\* The margin of price over cost, known when there is a price.
MarginBelow(i, percent) ==
  Products[i].price = 0 \/ 100 * (Products[i].price - Products[i].cost) < percent * Products[i].price

FinancialRisk(i) ==
  LET lowMargin == MarginBelow(i, 15)
      noReturn == Roi(i) <= 0
      highIdle == IdleAbove(i, 50)
  IN IF noReturn /\ (lowMargin \/ highIdle) THEN "critical"
     ELSE IF lowMargin \/ noReturn \/ highIdle THEN "high"
     ELSE IF CoversAbove(i, 180) \/ IdleAbove(i, 30) THEN "medium" ELSE "low"

FinancialAdvice(i) ==
  IF ~MarginBelow(i, 40) /\ Roi(i) >= 50 THEN "increase_investment"
  ELSE IF IdleAbove(i, 40) \/ CoversAbove(i, 120) THEN "reduce_inventory"
  ELSE IF MarginBelow(i, 15) THEN "improve_margin" ELSE "monitor"

HighRisk == {i \in Financed : FinancialRisk(i) \in {"high", "critical"}}

\* The average of the margins that are known, rounded to a tenth, is below 20.
LowMargin ==
  LET known == {i \in Financed : Products[i].price # 0}
      common == ProductSet({Products[i].price : i \in known})
      margins == Sum(known, [i \in known |-> (Products[i].price - Products[i].cost)
                                        * (common \div Products[i].price)])
  IN known # {} /\ 2000 * margins < 399 * common * Cardinality(known)

\* Insights are listed by risk, and within a risk by a priority that grows with the
\* return, up to 50.
FinancialPriority(i) ==
  10 * Standing[FinancialRisk(i)] + (IF Roi(i) <= 0 THEN 0 ELSE Lesser(Roi(i), 50))
WorseThan(i, j) ==
  LET a == Standing[FinancialRisk(i)]  b == Standing[FinancialRisk(j)]
      x == FinancialPriority(i)  y == FinancialPriority(j)
  IN a > b \/ (a = b /\ (x > y \/ (x = y /\ i < j)))

-----------------------------------------------------------------------------
(* The decision centre of the inventory and the copilot *)

AtRisk == Of({"out_of_stock", "stockout_risk"})

\* What the decision centre observes, each with the products it counts.
Observations ==
  LET s == Summary
      abc == Abc
      observed == [curveA |-> {i \in AtRisk : abc[i] = "A"}, slow |-> Of({"slow_moving"}),
                   excess |-> Of({"overstock"}), immediate |-> Of({"out_of_stock"}) \cap Critical,
                   idle |-> IF s.idleValue > 0 THEN Stagnant ELSE {}]
  IN [o \in {x \in DOMAIN observed : observed[x] # {}} |-> observed[o]]

\* The lists behind its filters.
Listed ==
  LET score == Score
  IN [all |-> Item,
      critical |-> {i \in Item : Replenishment(score[i]) \in {"critical", "high"}},
      risk |-> Of({"out_of_stock", "stockout_risk", "low_stock"}),
      slow |-> Of({"slow_moving", "inactive"}), healthy |-> Of({"healthy"})]

UrgentPurchases == {i \in Recommended : RiskLevel(i) \in {"critical", "high"}}

\* The copilot's priorities; there are never more than the five it keeps.
Priorities ==
  LET s == Summary
      some == (IF s.critical > 0 THEN {"replenish"} ELSE {})
         \cup (IF s.idleValue > 5000 THEN {"idle-capital"} ELSE {})
         \cup (IF HighOpportunities # {} THEN {"growth"} ELSE {})
         \cup (IF UrgentPurchases # {} THEN {"urgent-purchases"} ELSE {})
         \cup (IF HighRisk # {} THEN {"financial-risk"} ELSE {})
  IN IF some = {} THEN {"stable"} ELSE some

Actions ==
  (IF UrgentPurchases # {} THEN {"purchase"} ELSE {})
    \cup (IF HighOpportunities # {} THEN {"sales"} ELSE {})
    \cup (IF Of({"overstock"}) # {} THEN {"inventory"} ELSE {})
    \cup (IF LowMargin THEN {"financial"} ELSE {})

\* What the copilot composes of all of them.
Copilot ==
  LET s == Summary
  IN [topPriorities |-> Priorities, opportunities |-> SalesSummary.high,
      idleCapital |-> [financial |-> Sum(Financed, [i \in Financed |-> IdleCost(i)]), inventory |-> s.idleValue],
      inventory |-> [outOfStock |-> s.outOfStock, stockoutRisk |-> s.atRisk,
                     overstock |-> s.overstock, coverage |-> s.coverage],
      recommendedActions |-> Actions]

-----------------------------------------------------------------------------
(* Properties *)

\* The engines do not contradict each other about a product: what sales wants to
\* replenish, or the analysis calls critical, finance never wants less of, nor
\* does sales want more of what finance would reduce.  A critical product is
\* counted for immediate purchase by the decision centre, found behind its
\* filters of risk and urgency, and is a priority of the copilot, which asks for
\* the purchase when there is anything to buy; the reasons told for it name its
\* class, and a product told normal is healthy and nothing is bought of it.  The
\* copilot speaks of growth or of risk exactly when the first in the list of sales or
\* of finance deserves it, and nothing is to be invested where the risk is critical.
\* What is said of the copilot is said of the service that composes its answer, given
\* the summaries of the engines; the page still hands it empty ones.
EnginesAgree ==
  \A critical \in {Critical}, abc \in {Abc}, observations \in {Observations}, listed \in {Listed},
     copilot \in {Copilot} :
    /\ \A i \in Analysed \cap Financed :
         FinancialAdvice(i) = "reduce_inventory" =>
           OpportunityType(i) # "replenish_stock" /\ i \notin critical
    /\ \A i \in critical : {"out_of_stock", "A"} \subseteq Reasons(i, abc[i])
    /\ \A i \in Item : Reasons(i, abc[i]) = {"normal"} => i \in listed.healthy \ Recommended
    /\ critical # {} =>
         /\ {"immediate", "curveA"} \subseteq DOMAIN observations
         /\ observations.immediate = critical /\ critical \subseteq observations.curveA
         /\ critical \subseteq listed.critical \cap listed.risk
         /\ "replenish" \in copilot.topPriorities
         /\ (\E i \in critical : Suggested(i) > 0) =>
              "urgent-purchases" \in copilot.topPriorities /\ "purchase" \in copilot.recommendedActions
    /\ \A i \in Analysed : OpportunityType(i) = "increase_ads" =>
         StockAvailability(i) > 0 /\ i \notin critical
    /\ \A i \in Analysed : (\A j \in Analysed \ {i} : Before(i, j)) =>
         (copilot.opportunities > 0 <=> Opportunity(i).priority \in {"critical", "high"})
    /\ \A i \in Financed : (\A j \in Financed \ {i} : WorseThan(i, j)) =>
         ("financial-risk" \in copilot.topPriorities <=> FinancialRisk(i) \in {"critical", "high"})
    /\ \A i \in Financed : FinancialRisk(i) = "critical" =>
         FinancialPriority(i) = 40 /\ FinancialAdvice(i) # "increase_investment"
=============================================================================
