----------------------------- MODULE MCDataViews -----------------------------
(* Instances of Advice, and with it of Screens and DataViews, for TLC. *)
EXTENDS Advice

\* An inactive product without stock, one that ran out and ones that did not.
Product(active, stock, brand) ==
  [active |-> active, stock |-> stock, brand |-> brand]
None == Product(FALSE, 0, "")
Out == Product(TRUE, 0, "b1")
Edge == Product(TRUE, 50, "b2")

Kinds == {None, Out, Edge}

\* What the shortest three windows sold; the longer two sold what the third did.
Backend(products, channels, sold, orders) ==
  [products |-> products, channels |-> channels,
   revenue |-> [w \in Window |-> CASE w = "today" -> sold[1] [] w = "7d" -> sold[2]
                                   [] w \in {"30d", "90d", "12m"} -> sold[3]],
   orders |-> [w \in Window |-> orders]]
Sold(a, b) == "m1" :> a @@ "m2" :> b
Orders(completed, pending, total) ==
  [completed |-> completed, pending |-> pending, total |-> total]

Fresh == Backend(<<>>, FALSE, <<Sold(0, 0), Sold(0, 0), Sold(0, 0)>>, Orders(0, 0, 0))
Small == Backend(<<Edge, None>>, TRUE, <<Sold(0, 0), Sold(5, 0), Sold(9, 0)>>, Orders(3, 1, 4))
Large == Backend(<<Edge, Out, Edge, Edge, None>>, TRUE,
                 <<Sold(0, 0), Sold(8, 3), Sold(20, 30)>>, Orders(1, 2, 3))
AtFirst == {Large, Fresh}
Later == {Small}

\* Around every threshold of the advice, the fixed data included.
Finances == [growth : {-51, -50, -1, 0, 83, 150, 151}, margin : {14, 15, 16}, health : {49, 69, 70, 78, 90}]

Category(name, coverage) ==
  [name : {name}, toBuy : {0, 1, 3}, investment : {5}, coverage : coverage,
   priority : {"alta", "baixa"}]
Supplier(name) ==
  [name : {name}, share : {30, 31}, lead : {0, 11, 16}, orders : {1}, reliability : {84, 85}]
PurchaseData ==
  {[categories |-> {a, b}, suppliers |-> {s}] :
     a \in Category("a", {4, 9, 10}), b \in Category("b", {4, 10, 21, 26}), s \in Supplier("s")}
    \cup {[categories |-> {}, suppliers |-> {s}] : s \in Supplier("s")}

\* Bound: one click on the dashboard, whose three views interleave the most; the
\* other pages have MaxClick.
DashboardOnce == place = "dashboard" => clicks <= 1
=============================================================================
