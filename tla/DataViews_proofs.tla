--------------------------- MODULE DataViews_proofs ---------------------------
(* Theorems about the pages, for any catalogue, windows and snapshots: what   *)
(* the catalogue shows is never older than its last attempt, a period view    *)
(* that waits for nothing shows the period chosen, and only a torn read tells *)
(* of a growth that no snapshot had; they rest on what the requests in flight *)
(* may still bring.  The pages read from the backend cover the catalogue, and *)
(* what two of them, or two parts of one, tell of the same snapshot agrees:   *)
(* figures are sums and counts over the products, insights and advice follow  *)
(* from the figures.                                                          *)
EXTENDS Advice, SequenceTheorems, FiniteSetTheorems, WellFoundedInduction, TLAPS

Flight == [period : Window, live : BOOLEAN, answer : Nat, base : Nat]
Data == [status : {"loading", "error", "empty", "success"},
         at : Nat, base : Nat, of : Window, asked : Nat]

\* The types of what the pages and their requests hold.
ViewsTyped ==
  /\ snapshots \in Seq(First \cup Snapshot) /\ Len(snapshots) # 0
  /\ place \in Place /\ period \in Window
  /\ view \in [View -> Data]
  /\ flights \in [View -> Seq(Flight)]

\* No live request of the products can bring what is older than the last attempt.
FreshInv ==
  /\ view["products"].asked <= Len(snapshots)
  /\ CatalogFresh
  /\ \A i \in DOMAIN flights["products"] :
       LET f == flights["products"][i]
       IN f.live => f.answer = Waiting \/ f.answer >= view["products"].asked

\* Unless overtaken, a period view shows the period chosen or waits for it.
Awaits(queue, p) ==
  Len(queue) # 0 /\ queue[Len(queue)].period = p /\ queue[Len(queue)].live
Follows(v) ==
  \/ flights[v] = <<>> /\ view[v].of = period
  \/ Awaits(flights[v], period)
PeriodInv == \A v \in Periodic \cap Shown : v \notin overtaken => Follows(v)

-------------------------------------------------------------------------------
(* Requests *)

\* What is left of a sequence without one of its elements.
LEMMA Removed ==
  ASSUME NEW S, NEW s \in Seq(S), NEW i \in DOMAIN s
  PROVE  /\ RemoveAt(s, i) \in Seq(S)
         /\ Len(RemoveAt(s, i)) = Len(s) - 1
         /\ \A j \in DOMAIN RemoveAt(s, i) : \E k \in DOMAIN s : RemoveAt(s, i)[j] = s[k]
         /\ i # Len(s) => /\ Len(RemoveAt(s, i)) # 0
                          /\ RemoveAt(s, i)[Len(RemoveAt(s, i))] = s[Len(s)]
<1> DEFINE a == SubSeq(s, 1, i - 1)
           b == SubSeq(s, i + 1, Len(s))
<1>1. Len(s) \in Nat /\ DOMAIN s = 1..Len(s) /\ \A j \in 1..Len(s) : s[j] \in S
  BY LenProperties, ElementOfSeq
<1>2. i \in 1..Len(s)
  BY <1>1
<1>3. /\ a \in Seq(S) /\ Len(a) = i - 1
      /\ \A j \in 1..(i - 1) : a[j] = s[j]
  <2>1. \A j \in 1..(i - 1) : s[j] \in S
    BY <1>1, <1>2
  <2>2. /\ a \in Seq(S)
        /\ Len(a) = IF 1 <= i - 1 THEN (i - 1) - 1 + 1 ELSE 0
        /\ \A j \in 1..((i - 1) - 1 + 1) : a[j] = s[1 + j - 1]
    BY <1>2, <2>1, SubSeqProperties
  <2>3. QED
    BY <1>2, <2>2
<1>4. /\ b \in Seq(S) /\ Len(b) = Len(s) - i
      /\ \A j \in 1..(Len(s) - i) : b[j] = s[i + j]
  <2>1. \A j \in (i + 1)..Len(s) : s[j] \in S
    BY <1>1, <1>2
  <2>2. /\ b \in Seq(S)
        /\ Len(b) = IF i + 1 <= Len(s) THEN Len(s) - (i + 1) + 1 ELSE 0
        /\ \A j \in 1..(Len(s) - (i + 1) + 1) : b[j] = s[(i + 1) + j - 1]
    BY <1>1, <1>2, <2>1, SubSeqProperties
  <2>3. /\ (IF i + 1 <= Len(s) THEN Len(s) - (i + 1) + 1 ELSE 0) = Len(s) - i
        /\ Len(s) - (i + 1) + 1 = Len(s) - i
        /\ \A j \in 1..(Len(s) - i) : (i + 1) + j - 1 = i + j
    BY <1>1, <1>2
  <2> HIDE DEF b
  <2>4. QED
    BY <2>2, <2>3
<1>5. RemoveAt(s, i) = a \o b
  BY DEF RemoveAt
<1> HIDE DEF a, b
<1>6. /\ a \o b \in Seq(S) /\ Len(a \o b) = Len(a) + Len(b)
      /\ \A j \in 1..(Len(a) + Len(b)) : (a \o b)[j] = IF j <= Len(a) THEN a[j] ELSE b[j - Len(a)]
  BY <1>3, <1>4, ConcatProperties
<1>7. Len(a \o b) = Len(s) - 1 /\ DOMAIN (a \o b) = 1..(Len(s) - 1)
  <2>1. Len(a \o b) = Len(s) - 1
    BY <1>1, <1>2, <1>3, <1>4, <1>6
  <2>2. DOMAIN (a \o b) = 1..Len(a \o b)
    BY <1>6, LenProperties
  <2>3. QED
    BY <2>1, <2>2
<1>8. ASSUME NEW j \in 1..(Len(s) - 1) PROVE \E k \in 1..Len(s) : (a \o b)[j] = s[k]
  <2>1. CASE j <= i - 1
    <3>1. (a \o b)[j] = s[j] /\ j \in 1..Len(s)
      BY <1>1, <1>2, <1>3, <1>4, <1>6, <2>1
    <3>2. QED
      BY <3>1
  <2>2. CASE ~(j <= i - 1)
    <3>1. (a \o b)[j] = b[j - (i - 1)]
      BY <1>1, <1>2, <1>3, <1>4, <1>6, <2>2
    <3>2. j - (i - 1) \in 1..(Len(s) - i)
      BY <1>1, <1>2, <2>2
    <3>3. b[j - (i - 1)] = s[i + (j - (i - 1))] /\ i + (j - (i - 1)) = j + 1
      BY <1>2, <1>4, <3>2
    <3>4. (a \o b)[j] = s[j + 1] /\ j + 1 \in 1..Len(s)
      BY <1>1, <3>1, <3>3
    <3>5. QED
      BY <3>4
  <2>3. QED
    BY <2>1, <2>2
<1>9. ASSUME i # Len(s)
      PROVE  Len(a \o b) # 0 /\ (a \o b)[Len(a \o b)] = s[Len(s)]
  <2>1. Len(s) - i \in 1..(Len(s) - i) /\ i + (Len(s) - i) = Len(s)
    BY <1>1, <1>2, <1>9
  <2>2. b[Len(s) - i] = s[Len(s)]
    BY <1>4, <2>1
  <2>3. /\ Len(s) - 1 \in 1..(Len(s) - 1) /\ ~(Len(s) - 1 <= i - 1)
        /\ (Len(s) - 1) - (i - 1) = Len(s) - i
    BY <1>1, <1>2, <1>9
  <2>4. (a \o b)[Len(s) - 1] = b[Len(s) - i]
    <3>1. Len(a) + Len(b) = Len(s) - 1 /\ Len(a) = i - 1
      BY <1>1, <1>2, <1>3, <1>4
    <3>2. (a \o b)[Len(s) - 1] = b[(Len(s) - 1) - (i - 1)]
      BY <1>6, <2>3, <3>1
    <3>3. QED
      BY <2>3, <3>2
  <2>5. Len(s) - 1 # 0
    BY <1>1, <1>2, <1>9
  <2>6. QED
    BY <1>7, <2>2, <2>4, <2>5
<1>10. QED
  BY <1>1, <1>5, <1>6, <1>7, <1>8, <1>9

\* A request that was just sent.
LEMMA Sent ==
  ASSUME NEW p \in Window
  PROVE  /\ Asking(p) \in Flight
         /\ Asking(p).period = p /\ Asking(p).live /\ Asking(p).answer = Waiting
BY DEF Asking, Flight, Waiting

\* The only request of a view.
LEMMA Single ==
  ASSUME NEW f \in Flight
  PROVE  <<f>> \in Seq(Flight) /\ Len(<<f>>) = 1 /\ <<f>>[1] = f
OBVIOUS

\* The windows a view may be asked for.
LEMMA Asked ==
  ASSUME NEW pl, NEW v
  PROVE  /\ AskedFirst(pl, v) \in Window /\ Default \in Window
         /\ v \in Periodic => AskedFirst(pl, v) = Default
<1>1. "7d" \in Window
  <2>1. Windows[2] = "7d" /\ 2 \in DOMAIN Windows
    BY DEF Windows
  <2>2. QED
    BY <2>1 DEF Window, Range
<1>2. Default \in Window
  BY ViewsAssumption
<1>3. QED
  BY <1>1, <1>2 DEF AskedFirst, Periodic

\* What every view starts with.
LEMMA LoadingTyped ==
  ASSUME NEW n \in Nat
  PROVE  /\ [Loading EXCEPT !.asked = n] \in Data
         /\ [Loading EXCEPT !.asked = n].asked = n
         /\ [Loading EXCEPT !.asked = n].status = "loading"
         /\ [Loading EXCEPT !.asked = n].of = Default
BY ViewsAssumption DEF Loading, Data

\* The requests of a page that is opened.
Opening(pl) ==
  [v \in View |-> IF v \in Mounted[pl] THEN <<Asking(AskedFirst(pl, v))>> ELSE <<>>]

\* A page that is opened asks for what its views show.
LEMMA Opened ==
  ASSUME NEW pl, NEW F, F = Opening(pl)
  PROVE  /\ F \in [View -> Seq(Flight)]
         /\ \A i \in DOMAIN F["products"] : F["products"][i].answer = Waiting
         /\ \A v \in Periodic \cap Mounted[pl] \cap View :
              Len(F[v]) = 1 /\ F[v][1].period = Default /\ F[v][1].live
<1>1. ASSUME NEW v \in View
      PROVE  /\ Asking(AskedFirst(pl, v)) \in Flight
             /\ <<Asking(AskedFirst(pl, v))>> \in Seq(Flight)
             /\ Asking(AskedFirst(pl, v)).answer = Waiting
             /\ Asking(AskedFirst(pl, v)).live
             /\ Asking(AskedFirst(pl, v)).period = AskedFirst(pl, v)
  BY Asked, Sent, Single
<1>2. <<>> \in Seq(Flight)
  BY EmptySeq
<1>3. F \in [View -> Seq(Flight)]
  BY <1>1, <1>2 DEF Opening
<1>4. \A i \in DOMAIN F["products"] : F["products"][i].answer = Waiting
  <2>1. "products" \in View
    BY DEF View
  <2>2. CASE "products" \in Mounted[pl]
    <3>1. F["products"] = <<Asking(AskedFirst(pl, "products"))>>
      BY <2>1, <2>2 DEF Opening
    <3>2. QED
      BY <1>1, <2>1, <3>1
  <2>3. CASE "products" \notin Mounted[pl]
    <3>1. F["products"] = <<>>
      BY <2>1, <2>3 DEF Opening
    <3>2. QED
      BY <3>1
  <2>4. QED
    BY <2>2, <2>3
<1>5. ASSUME NEW v \in Periodic \cap Mounted[pl] \cap View
      PROVE  Len(F[v]) = 1 /\ F[v][1].period = Default /\ F[v][1].live
  <2>1. F[v] = <<Asking(AskedFirst(pl, v))>>
    BY DEF Opening
  <2>2. AskedFirst(pl, v) = Default
    BY Asked
  <2>3. QED
    BY <1>1, <2>1, <2>2, Single
<1>6. QED
  BY <1>3, <1>4, <1>5

-------------------------------------------------------------------------------
(* Steps *)

\* All that the proofs keep of a state.
Kept == ViewsTyped /\ FreshInv /\ PeriodInv

\* The views a page mounts are views.
LEMMA PeriodicViews == Periodic \subseteq View /\ "products" \in View /\ "products" \notin Periodic
BY DEF Periodic, View

\* Opening a page.
LEMMA VisitKeeps ==
  ASSUME Kept, NEW pl \in Place, Visit(pl) PROVE Kept'
<1> USE DEF Kept
<1>1. Len(snapshots) \in Nat /\ snapshots' = snapshots
  BY LenProperties DEF ViewsTyped, Visit
<1>2. view' = [v \in View |-> [Loading EXCEPT !.asked = Len(snapshots)]]
  BY DEF Visit
<1>3. /\ view' \in [View -> Data]
      /\ view'["products"].asked = Len(snapshots) /\ view'["products"].status = "loading"
  BY <1>1, <1>2, LoadingTyped, PeriodicViews
<1>4. /\ flights' \in [View -> Seq(Flight)]
      /\ \A i \in DOMAIN flights'["products"] : flights'["products"][i].answer = Waiting
      /\ \A v \in Periodic \cap Mounted[pl] \cap View :
           Len(flights'[v]) = 1 /\ flights'[v][1].period = Default /\ flights'[v][1].live
  <2>1. flights' = Opening(pl)
    BY DEF Visit, Opening
  <2>2. QED
    BY <2>1, Opened
<1>5. place' = pl /\ period' = Default
  BY DEF Visit
<1>6. ViewsTyped'
  BY <1>1, <1>3, <1>4, <1>5, Asked DEF ViewsTyped
<1>7. FreshInv'
  BY <1>1, <1>3, <1>4 DEF FreshInv, CatalogFresh
<1>8. PeriodInv'
  BY <1>4, <1>5, PeriodicViews DEF PeriodInv, Follows, Awaits, Shown
<1>9. QED
  BY <1>6, <1>7, <1>8

\* Choosing a period.
LEMMA ChooseKeeps ==
  ASSUME Kept, NEW p \in Period, ChoosePeriod(p) PROVE Kept'
<1> USE DEF Kept
<1>1. p \in Window
  BY ViewsAssumption
<1>2. Asking(p) \in Flight /\ Asking(p).period = p /\ Asking(p).live
  BY <1>1, Sent
<1>3. flights' = [v \in View |-> IF v \in Followers THEN Append(flights[v], Asking(p)) ELSE flights[v]]
  BY DEF ChoosePeriod
<1>4. ASSUME NEW v \in View
      PROVE  /\ flights[v] \in Seq(Flight)
             /\ Append(flights[v], Asking(p)) \in Seq(Flight)
             /\ Len(flights[v]) \in Nat
             /\ Len(Append(flights[v], Asking(p))) = Len(flights[v]) + 1
             /\ Append(flights[v], Asking(p))[Len(flights[v]) + 1] = Asking(p)
  <2>1. flights[v] \in Seq(Flight)
    BY DEF ViewsTyped
  <2>2. Len(flights[v]) \in Nat
    BY <2>1, LenProperties
  <2>3. QED
    BY <1>2, <2>1, <2>2, AppendProperties
<1>5. flights' \in [View -> Seq(Flight)]
  BY <1>3, <1>4
<1>6. UNCHANGED <<snapshots, place, view>> /\ period' = p
  BY DEF ChoosePeriod
<1>7. ViewsTyped'
  BY <1>1, <1>5, <1>6 DEF ViewsTyped
<1>8. flights'["products"] = flights["products"]
  BY <1>3, PeriodicViews DEF Followers
<1>9. FreshInv'
  BY <1>6, <1>8 DEF FreshInv, CatalogFresh
<1>10. ASSUME NEW v \in Periodic \cap Shown PROVE Awaits(flights'[v], p)
  <2>1. v \in View /\ flights'[v] = Append(flights[v], Asking(p))
    BY <1>3, PeriodicViews DEF Followers
  <2>2. /\ Len(flights[v]) \in Nat /\ Len(flights'[v]) = Len(flights[v]) + 1
        /\ flights'[v][Len(flights[v]) + 1] = Asking(p)
    BY <1>4, <2>1
  <2>3. QED
    BY <1>2, <2>2 DEF Awaits
<1>11. PeriodInv'
  <2>1. Shown' = Shown
    BY <1>6 DEF Shown
  <2>2. QED
    BY <1>6, <1>10, <2>1 DEF PeriodInv, Follows
<1>12. QED
  BY <1>7, <1>9, <1>11

\* A new attempt of the products cancels the earlier ones.
LEMMA AttemptKeeps ==
  ASSUME Kept, Attempt PROVE Kept'
<1> USE DEF Kept
<1> DEFINE old == flights["products"]
           next == Append(Cancelled(old), Asking(period))
<1>1. /\ old \in Seq(Flight) /\ Len(old) \in Nat /\ DOMAIN old = 1..Len(old)
      /\ \A i \in DOMAIN old : old[i] \in Flight
  BY PeriodicViews, LenProperties, ElementOfSeq DEF ViewsTyped
<1>2. Len(snapshots) \in Nat
  BY LenProperties DEF ViewsTyped
<1>3. Asking(period) \in Flight /\ Asking(period).answer = Waiting
  BY Sent DEF ViewsTyped
<1>4. /\ Cancelled(old) \in Seq(Flight) /\ Len(Cancelled(old)) = Len(old)
      /\ \A i \in 1..Len(old) : ~Cancelled(old)[i].live
  <2>1. \A i \in 1..Len(old) : [old[i] EXCEPT !.live = FALSE] \in Flight
    BY <1>1 DEF Flight
  <2>2. Cancelled(old) = [i \in 1..Len(old) |-> [old[i] EXCEPT !.live = FALSE]]
    BY <1>1 DEF Cancelled
  <2>3. Cancelled(old) \in Seq(Flight) /\ Len(Cancelled(old)) = Len(old)
    BY <1>1, <2>1, <2>2, SeqDef, LenProperties
  <2>4. \A i \in 1..Len(old) : [old[i] EXCEPT !.live = FALSE].live = FALSE
    BY <1>1 DEF Flight
  <2>5. QED
    BY <2>2, <2>3, <2>4
<1>5. /\ next \in Seq(Flight) /\ Len(next) = Len(old) + 1
      /\ \A i \in 1..Len(old) : next[i] = Cancelled(old)[i]
      /\ next[Len(old) + 1] = Asking(period)
  BY <1>3, <1>4, AppendProperties
<1>6. /\ flights' = [flights EXCEPT !["products"] = next]
      /\ view' = [view EXCEPT !["products"].status = "loading",
                              !["products"].asked = Len(snapshots)]
      /\ UNCHANGED <<snapshots, place, period, overtaken>>
  BY DEF Attempt
<1> HIDE DEF next
<1>7. flights' \in [View -> Seq(Flight)]
  BY <1>5, <1>6 DEF ViewsTyped
<1>8. view["products"] \in Data
  BY PeriodicViews DEF ViewsTyped
<1>9. /\ view' \in [View -> Data]
      /\ view'["products"].asked = Len(snapshots) /\ view'["products"].status = "loading"
  <2>1. view' = [view EXCEPT !["products"] =
          [view["products"] EXCEPT !.status = "loading", !.asked = Len(snapshots)]]
    BY <1>6, PeriodicViews DEF ViewsTyped
  <2>2. [view["products"] EXCEPT !.status = "loading", !.asked = Len(snapshots)] \in Data
    BY <1>2, <1>8 DEF Data
  <2>3. QED
    BY <1>8, <2>1, <2>2, PeriodicViews DEF ViewsTyped, Data
<1>10. ViewsTyped'
  BY <1>6, <1>7, <1>9 DEF ViewsTyped
<1>11. \A i \in DOMAIN next : next[i].live => next[i].answer = Waiting
  <2>1. DOMAIN next = 1..(Len(old) + 1)
    BY <1>5, LenProperties
  <2>2. ASSUME NEW i \in 1..(Len(old) + 1), next[i].live PROVE next[i].answer = Waiting
    <3>1. ~(i \in 1..Len(old))
      BY <1>4, <1>5, <2>2
    <3>2. i = Len(old) + 1
      BY <1>1, <3>1
    <3>3. QED
      BY <1>3, <1>5, <3>2
  <2>3. QED
    BY <2>1, <2>2
<1>12. flights'["products"] = next
  BY <1>6, PeriodicViews DEF ViewsTyped
<1>13. FreshInv'
  <2>1. view'["products"].asked <= Len(snapshots')
    BY <1>2, <1>6, <1>9
  <2>2. QED
    BY <1>9, <1>11, <1>12, <2>1 DEF FreshInv, CatalogFresh
<1>14. PeriodInv'
  <2>1. \A v \in Periodic : flights'[v] = flights[v] /\ view'[v] = view[v]
    BY <1>6, PeriodicViews DEF ViewsTyped
  <2>2. QED
    BY <1>6, <2>1 DEF PeriodInv, Follows, Shown
<1>15. QED
  BY <1>10, <1>13, <1>14

\* The proxy answers one of the two paths of a request.
LEMMA ServeKeeps ==
  ASSUME Kept, NEW v \in View, NEW i \in DOMAIN flights[v], Serve(v, i) \/ ServeBase(v, i)
  PROVE  Kept'
<1> USE DEF Kept
<1>1. /\ flights[v] \in Seq(Flight) /\ Len(flights[v]) \in Nat
      /\ DOMAIN flights[v] = 1..Len(flights[v])
      /\ \A j \in DOMAIN flights[v] : flights[v][j] \in Flight
  BY LenProperties, ElementOfSeq DEF ViewsTyped
<1>2. Len(snapshots) \in Nat
  BY LenProperties DEF ViewsTyped
<1>3. PICK g \in Flight :
        /\ flights' = [flights EXCEPT ![v] = [flights[v] EXCEPT ![i] = g]]
        /\ g.period = flights[v][i].period /\ g.live = flights[v][i].live
        /\ g.answer = flights[v][i].answer \/ g.answer = Len(snapshots)
  <2>1. flights[v][i] \in Flight
    BY <1>1
  <2>2. CASE Serve(v, i)
    <3> DEFINE g == [flights[v][i] EXCEPT !.answer = Len(snapshots),
                       !.base = IF Compared(v) THEN flights[v][i].base ELSE Len(snapshots)]
    <3>1. flights' = [flights EXCEPT ![v] = [flights[v] EXCEPT ![i] = g]]
      BY <1>1, <2>1, <2>2 DEF Serve, ViewsTyped, Flight
    <3>2. g \in Flight /\ g.period = flights[v][i].period /\ g.live = flights[v][i].live
          /\ g.answer = Len(snapshots)
      BY <1>2, <2>1 DEF Flight
    <3>3. QED
      BY <3>1, <3>2
  <2>3. CASE ServeBase(v, i)
    <3> DEFINE g == [flights[v][i] EXCEPT !.base = Len(snapshots)]
    <3>1. flights' = [flights EXCEPT ![v] = [flights[v] EXCEPT ![i] = g]]
      BY <1>1, <2>1, <2>3 DEF ServeBase, ViewsTyped, Flight
    <3>2. g \in Flight /\ g.period = flights[v][i].period /\ g.live = flights[v][i].live
          /\ g.answer = flights[v][i].answer
      BY <1>2, <2>1 DEF Flight
    <3>3. QED
      BY <3>1, <3>2
  <2>4. QED
    BY <2>2, <2>3
<1> DEFINE queue == [flights[v] EXCEPT ![i] = g]
<1>4. /\ queue \in Seq(Flight) /\ Len(queue) = Len(flights[v]) /\ DOMAIN queue = DOMAIN flights[v]
      /\ queue[i] = g /\ \A j \in DOMAIN flights[v] : j # i => queue[j] = flights[v][j]
  <2>1. queue = [j \in 1..Len(flights[v]) |-> IF j = i THEN g ELSE flights[v][j]]
    BY <1>1
  <2>2. queue \in Seq(Flight)
    BY <1>1, <2>1, SeqDef
  <2>3. Len(queue) = Len(flights[v])
    BY <1>1, <2>1, <2>2, LenProperties
  <2>4. QED
    BY <1>1, <2>1, <2>2, <2>3
<1>5. flights' = [flights EXCEPT ![v] = queue]
  BY <1>3
<1> HIDE DEF queue
<1>6. /\ flights' \in [View -> Seq(Flight)]
      /\ flights'[v] = queue /\ \A w \in View : w # v => flights'[w] = flights[w]
  BY <1>4, <1>5 DEF ViewsTyped
<1>7. UNCHANGED <<snapshots, place, period, view, overtaken>>
  BY DEF Serve, ServeBase
<1>8. ViewsTyped'
  BY <1>6, <1>7 DEF ViewsTyped
<1>9. FreshInv'
  <2>1. CASE v # "products"
    <3>1. flights'["products"] = flights["products"]
      BY <1>6, <2>1, PeriodicViews
    <3>2. QED
      BY <1>7, <3>1 DEF FreshInv, CatalogFresh
  <2>2. CASE v = "products"
    <3>1. ASSUME NEW j \in DOMAIN queue, queue[j].live
          PROVE  queue[j].answer = Waiting \/ queue[j].answer >= view["products"].asked
      <4>1. CASE j = i
        <5>1. g.live => flights[v][i].live
          BY <1>3
        <5>2. queue[j].answer = flights[v][i].answer \/ queue[j].answer = Len(snapshots)
          BY <1>3, <1>4, <4>1
        <5>3. flights[v][i].live
          BY <1>4, <3>1, <4>1, <5>1
        <5>4. view["products"].asked <= Len(snapshots)
          BY DEF FreshInv
        <5>5. view["products"].asked \in Nat
          BY PeriodicViews DEF ViewsTyped, Data
        <5>6. QED
          BY <1>2, <2>2, <5>2, <5>3, <5>4, <5>5 DEF FreshInv
      <4>2. CASE j # i
        BY <1>4, <2>2, <3>1, <4>2 DEF FreshInv
      <4>3. QED
        BY <4>1, <4>2
    <3>2. QED
      BY <1>6, <1>7, <2>2, <3>1 DEF FreshInv, CatalogFresh
  <2>3. QED
    BY <2>1, <2>2
<1>10. ASSUME NEW w \in Periodic \cap Shown, Follows(w) PROVE Follows(w)'
  <2>1. CASE w # v
    BY <1>6, <1>7, <1>10, <2>1, PeriodicViews DEF Follows
  <2>2. CASE w = v
    <3>1. Len(flights[v]) # 0
      BY <1>1
    <3>2. flights[v] # <<>>
      BY <3>1
    <3>3. Awaits(flights[v], period)
      BY <1>10, <2>2, <3>2 DEF Follows
    <3>4. Len(flights[v]) \in DOMAIN flights[v]
      BY <1>1, <3>1
    <3>5. Awaits(queue, period)
      <4>1. /\ queue[Len(flights[v])].period = flights[v][Len(flights[v])].period
            /\ queue[Len(flights[v])].live = flights[v][Len(flights[v])].live
        BY <1>3, <1>4, <3>4
      <4>2. QED
        BY <1>4, <3>3, <4>1 DEF Awaits
    <3>6. QED
      BY <1>6, <1>7, <2>2, <3>5 DEF Follows
  <2>3. QED
    BY <2>1, <2>2
<1>11. PeriodInv'
  BY <1>7, <1>10 DEF PeriodInv, Shown
<1>12. QED
  BY <1>8, <1>9, <1>11

\* An answer or an error reaches its view, if the request is still alive.
LEMMA ArrivedKeeps ==
  ASSUME Kept, NEW v \in View, NEW i \in DOMAIN flights[v],
         NEW d \in Data, Arrived(v, i, d),
         d.of = flights[v][i].period, d.asked = view[v].asked,
         d.status \in {"success", "empty"}
           => d.at = flights[v][i].answer /\ flights[v][i].answer # Waiting
  PROVE  Kept'
<1> USE DEF Kept
<1>1. /\ flights[v] \in Seq(Flight) /\ Len(flights[v]) \in Nat
      /\ DOMAIN flights[v] = 1..Len(flights[v])
  BY LenProperties DEF ViewsTyped
<1> DEFINE queue == RemoveAt(flights[v], i)
<1>2. /\ queue \in Seq(Flight) /\ Len(queue) = Len(flights[v]) - 1
      /\ \A j \in DOMAIN queue : \E k \in DOMAIN flights[v] : queue[j] = flights[v][k]
      /\ i # Len(flights[v]) => /\ Len(queue) # 0
                                /\ queue[Len(queue)] = flights[v][Len(flights[v])]
  BY <1>1, Removed
<1>3. /\ flights' = [flights EXCEPT ![v] = queue]
      /\ view' = IF flights[v][i].live THEN [view EXCEPT ![v] = d] ELSE view
      /\ overtaken' = IF 1 < i /\ i = Len(flights[v]) THEN overtaken \cup ({v} \cap Periodic)
                      ELSE overtaken
      /\ UNCHANGED <<snapshots, place, period>>
  BY DEF Arrived
<1> HIDE DEF queue
<1>4. /\ flights' \in [View -> Seq(Flight)]
      /\ flights'[v] = queue /\ \A w \in View : w # v => flights'[w] = flights[w]
  BY <1>2, <1>3 DEF ViewsTyped
<1>5. /\ view' \in [View -> Data]
      /\ view'[v] = IF flights[v][i].live THEN d ELSE view[v]
      /\ \A w \in View : w # v => view'[w] = view[w]
  BY <1>3 DEF ViewsTyped
<1>6. ViewsTyped'
  BY <1>3, <1>4, <1>5 DEF ViewsTyped
<1>7. FreshInv'
  <2>1. CASE v # "products"
    <3>1. flights'["products"] = flights["products"] /\ view'["products"] = view["products"]
      BY <1>4, <1>5, <2>1, PeriodicViews
    <3>2. QED
      BY <1>3, <3>1 DEF FreshInv, CatalogFresh
  <2>2. CASE v = "products"
    <3>1. view'["products"].asked = view["products"].asked
      BY <1>5, <2>2
    <3>2. CatalogFresh'
      <4>1. CASE flights[v][i].live
        <5>1. view'["products"] = d
          BY <1>5, <2>2, <4>1
        <5>2. flights[v][i].answer = Waiting \/ flights[v][i].answer >= view["products"].asked
          BY <2>2, <4>1 DEF FreshInv
        <5>3. QED
          BY <2>2, <5>1, <5>2 DEF CatalogFresh
      <4>2. CASE ~flights[v][i].live
        BY <1>5, <2>2, <4>2 DEF FreshInv, CatalogFresh
      <4>3. QED
        BY <4>1, <4>2
    <3>3. ASSUME NEW j \in DOMAIN queue, queue[j].live
          PROVE  queue[j].answer = Waiting \/ queue[j].answer >= view["products"].asked
      <4>1. PICK k \in DOMAIN flights[v] : queue[j] = flights[v][k]
        BY <1>2
      <4>2. QED
        BY <2>2, <3>3, <4>1 DEF FreshInv
    <3>4. view'["products"].asked <= Len(snapshots')
      BY <1>3, <3>1 DEF FreshInv
    <3>5. QED
      BY <1>4, <2>2, <3>1, <3>2, <3>3, <3>4 DEF FreshInv
  <2>3. QED
    BY <2>1, <2>2
<1>8. ASSUME NEW w \in Periodic \cap Shown, w \notin overtaken => Follows(w), w \notin overtaken'
      PROVE  Follows(w)'
  <2>1. CASE w # v
    <3>1. w \notin overtaken
      BY <1>3, <1>8
    <3>2. QED
      BY <1>3, <1>4, <1>5, <1>8, <2>1, <3>1, PeriodicViews DEF Follows
  <2>2. CASE w = v
    <3>1. Len(flights[v]) # 0 /\ i \in 1..Len(flights[v])
      BY <1>1
    <3>2. flights[v] # <<>> /\ w \notin overtaken /\ ~(1 < i /\ i = Len(flights[v]))
      BY <1>3, <1>8, <2>2, <3>1
    <3>3. Awaits(flights[v], period)
      BY <1>8, <2>2, <3>2 DEF Follows
    <3>4. CASE i # Len(flights[v])
      <4>1. Awaits(queue, period)
        BY <1>2, <3>3, <3>4 DEF Awaits
      <4>2. QED
        BY <1>3, <1>4, <2>2, <4>1 DEF Follows
    <3>5. CASE i = Len(flights[v])
      <4>1. Len(queue) = 0
        <5>1. ~(1 < i)
          BY <3>2, <3>5
        <5>2. PICK n \in Nat : n = Len(flights[v])
          BY <1>1
        <5>3. n = 1
          <6>1. i = n
            BY <3>5, <5>2
          <6>2. ~(1 < n) /\ n # 0
            BY <3>1, <5>1, <5>2, <6>1
          <6>3. QED
            BY <6>2
        <5>4. Len(queue) = n - 1
          BY <1>2, <5>2
        <5>5. QED
          BY <5>3, <5>4
      <4>2. queue = <<>>
        BY <1>2, <4>1, EmptySeq
      <4>3. view'[v].of = period
        BY <1>5, <3>3, <3>5 DEF Awaits
      <4>4. QED
        BY <1>3, <1>4, <2>2, <4>2, <4>3 DEF Follows
    <3>6. QED
      BY <3>4, <3>5
  <2>3. QED
    BY <2>1, <2>2
<1>9. PeriodInv'
  BY <1>3, <1>8 DEF PeriodInv, Shown
<1>10. QED
  BY <1>6, <1>7, <1>9

\* What an answer makes of a view.
LEMMA ResultTyped ==
  ASSUME ViewsTyped, NEW v \in View, NEW i \in DOMAIN flights[v], NEW f, f = flights[v][i]
  PROVE  /\ Result(v, f) \in Data /\ Result(v, f).of = f.period
         /\ Result(v, f).asked = view[v].asked /\ Result(v, f).at = f.answer
         /\ Error(v, f) \in Data /\ Error(v, f).of = f.period
         /\ Error(v, f).asked = view[v].asked /\ Error(v, f).status = "error"
<1>1. f \in Flight
  BY LenProperties, ElementOfSeq DEF ViewsTyped
<1>2. view[v] \in Data
  BY DEF ViewsTyped
<1>3. QED
  BY <1>1, <1>2 DEF Result, Error, Data, Flight

\* Every step keeps what the proofs keep.
LEMMA Keeping == Kept /\ [Next]_vars => Kept'
<1> SUFFICES ASSUME Kept, [Next]_vars PROVE Kept'
  OBVIOUS
<1>1. ASSUME NEW v \in View, NEW i \in DOMAIN flights[v], Arrive(v, i) \/ Fail(v, i)
      PROVE  Kept'
  <2>1. CASE Arrive(v, i)
    <3>1. Arrived(v, i, Result(v, flights[v][i])) /\ flights[v][i].answer # Waiting
      BY <2>1 DEF Arrive
    <3>2. QED
      BY <3>1, ResultTyped, ArrivedKeeps DEF Kept
  <2>2. CASE Fail(v, i)
    <3>1. Arrived(v, i, Error(v, flights[v][i]))
      BY <2>2 DEF Fail
    <3>2. QED
      BY <3>1, ResultTyped, ArrivedKeeps DEF Kept
  <2>3. QED
    BY <1>1, <2>1, <2>2
<1>2. ASSUME Synchronised PROVE Kept'
  <2>1. PICK s \in Snapshot : snapshots' = Append(snapshots, s)
    BY <1>2 DEF Synchronised
  <2>2. /\ snapshots' \in Seq(First \cup Snapshot)
        /\ Len(snapshots) \in Nat /\ Len(snapshots') = Len(snapshots) + 1
    BY <2>1, LenProperties, AppendProperties DEF Kept, ViewsTyped
  <2>3. UNCHANGED <<place, period, view, flights, overtaken>>
    BY <1>2 DEF Synchronised
  <2>4. view["products"].asked \in Nat
    BY PeriodicViews DEF Kept, ViewsTyped, Data
  <2>5. ViewsTyped'
    BY <2>2, <2>3 DEF Kept, ViewsTyped
  <2>6. FreshInv'
    BY <2>2, <2>3, <2>4 DEF Kept, FreshInv, CatalogFresh
  <2>7. PeriodInv'
    BY <2>3 DEF Kept, PeriodInv, Follows, Shown
  <2>8. QED
    BY <2>5, <2>6, <2>7 DEF Kept
<1>3. ASSUME \/ Turn \/ \E x \in DOMAIN filter, f \in Filter : SetFilter(x, f)
             \/ UNCHANGED vars
      PROVE  Kept'
  <2>1. UNCHANGED <<snapshots, place, period, view, flights, overtaken>>
    BY <1>3 DEF Turn, SetFilter, vars
  <2>2. QED
    BY <2>1 DEF Kept, ViewsTyped, FreshInv, CatalogFresh, PeriodInv, Follows, Shown
<1>4. QED
  BY <1>1, <1>2, <1>3, VisitKeeps, ChooseKeeps, AttemptKeeps, ServeKeeps DEF Next

\* The first state: one snapshot, and one page that has just been opened.
LEMMA Beginning == Init => Kept
<1> SUFFICES ASSUME Init PROVE Kept
  OBVIOUS
<1>1. PICK s \in First : snapshots = <<s>>
  BY DEF Init
<1>2. snapshots \in Seq(First \cup Snapshot) /\ Len(snapshots) = 1
  BY <1>1
<1>3. Loading \in Data /\ Loading.asked = 1 /\ Loading.status = "loading"
  BY ViewsAssumption DEF Loading, Data
<1>4. flights = Opening(place)
  BY DEF Init, Shown, Opening
<1>5. /\ flights \in [View -> Seq(Flight)]
      /\ \A i \in DOMAIN flights["products"] : flights["products"][i].answer = Waiting
      /\ \A v \in Periodic \cap Mounted[place] \cap View :
           Len(flights[v]) = 1 /\ flights[v][1].period = Default /\ flights[v][1].live
  BY <1>4, Opened
<1>6. ViewsTyped
  BY <1>2, <1>3, <1>5, Asked DEF Init, ViewsTyped
<1>7. FreshInv
  BY <1>2, <1>3, <1>5, PeriodicViews DEF Init, FreshInv, CatalogFresh
<1>8. PeriodInv
  BY <1>5, PeriodicViews DEF Init, PeriodInv, Follows, Awaits, Shown
<1>9. QED
  BY <1>6, <1>7, <1>8 DEF Kept

-------------------------------------------------------------------------------
(* What the views have read *)

\* Whatever is shown or on its way was read from a snapshot there is.
ReadInv ==
  \A v \in View :
    /\ view[v].at <= Len(snapshots)
    /\ view[v].status \in {"success", "empty"} => view[v].at # 0
    /\ \A i \in DOMAIN flights[v] : flights[v][i].answer <= Len(snapshots)

\* Requests just sent have read nothing.
LEMMA OpeningRead ==
  ASSUME NEW pl, NEW v \in View
  PROVE  \A i \in DOMAIN Opening(pl)[v] : Opening(pl)[v][i].answer = Waiting
<1>1. CASE v \in Mounted[pl]
  <2>1. Opening(pl)[v] = <<Asking(AskedFirst(pl, v))>>
    BY <1>1 DEF Opening
  <2>2. Asking(AskedFirst(pl, v)).answer = Waiting
    BY DEF Asking
  <2>3. QED
    BY <2>1, <2>2
<1>2. CASE v \notin Mounted[pl]
  <2>1. Opening(pl)[v] = <<>>
    BY <1>2 DEF Opening
  <2>2. QED
    BY <2>1
<1>3. QED
  BY <1>1, <1>2

\* What is true of a request in flight.
LEMMA InFlight ==
  ASSUME ViewsTyped, NEW v \in View
  PROVE  /\ flights[v] \in Seq(Flight) /\ Len(flights[v]) \in Nat
         /\ DOMAIN flights[v] = 1..Len(flights[v])
         /\ \A j \in DOMAIN flights[v] : flights[v][j] \in Flight
         /\ view[v] \in Data /\ Len(snapshots) \in Nat \ {0}
BY LenProperties, ElementOfSeq DEF ViewsTyped

\* At first nothing is read.
LEMMA ReadFirst == Init => ReadInv
<1> SUFFICES ASSUME Init, NEW v \in View
             PROVE  /\ view[v].at <= Len(snapshots)
                    /\ view[v].status \in {"success", "empty"} => view[v].at # 0
                    /\ \A i \in DOMAIN flights[v] : flights[v][i].answer <= Len(snapshots)
  BY DEF ReadInv
<1>1. Len(snapshots) \in Nat
  BY Beginning, LenProperties DEF Kept, ViewsTyped
<1>2. view[v].at = 0 /\ view[v].status = "loading"
  BY DEF Init, Loading
<1>3. flights = Opening(place)
  BY DEF Init, Shown, Opening
<1>4. QED
  BY <1>1, <1>2, <1>3, OpeningRead DEF Waiting

\* A request that leaves its view with what it brought, or with nothing.
LEMMA ArrivedReads ==
  ASSUME Kept, ReadInv, NEW v \in View, NEW i \in DOMAIN flights[v],
         NEW d \in Data, Arrived(v, i, d),
         d.at = flights[v][i].answer \/ d.at = 0,
         d.status \in {"success", "empty"} => d.at # 0
  PROVE  ReadInv'
<1>1. /\ flights[v] \in Seq(Flight) /\ Len(snapshots) \in Nat
      /\ \A j \in DOMAIN flights[v] : flights[v][j] \in Flight
  BY InFlight DEF Kept
<1> DEFINE queue == RemoveAt(flights[v], i)
<1>2. \A j \in DOMAIN queue : \E k \in DOMAIN flights[v] : queue[j] = flights[v][k]
  BY <1>1, Removed
<1>3. /\ flights' = [flights EXCEPT ![v] = queue]
      /\ view' = IF flights[v][i].live THEN [view EXCEPT ![v] = d] ELSE view
      /\ snapshots' = snapshots
  BY DEF Arrived
<1> HIDE DEF queue
<1>4. ASSUME NEW w \in View
      PROVE  /\ view[w].at <= Len(snapshots)
             /\ view[w].status \in {"success", "empty"} => view[w].at # 0
             /\ \A j \in DOMAIN flights[w] : flights[w][j].answer <= Len(snapshots)
  BY DEF ReadInv
<1>5. d.at <= Len(snapshots)
  BY <1>1, <1>4
<1>6. ASSUME NEW w \in View
      PROVE  /\ view'[w].at <= Len(snapshots)
             /\ view'[w].status \in {"success", "empty"} => view'[w].at # 0
             /\ \A j \in DOMAIN flights'[w] : flights'[w][j].answer <= Len(snapshots)
  <2>1. view'[w] = view[w] \/ view'[w] = d
    BY <1>3 DEF Kept, ViewsTyped
  <2>2. \A j \in DOMAIN flights'[w] : \E k \in DOMAIN flights[w] : flights'[w][j] = flights[w][k]
    <3>1. CASE w = v
      <4>1. flights'[w] = queue
        BY <1>3, <3>1 DEF Kept, ViewsTyped
      <4>2. QED
        BY <1>2, <3>1, <4>1
    <3>2. CASE w # v
      <4>1. flights'[w] = flights[w]
        BY <1>3, <3>2 DEF Kept, ViewsTyped
      <4>2. QED
        BY <4>1
    <3>3. QED
      BY <3>1, <3>2
  <2>3. QED
    BY <1>4, <1>5, <2>1, <2>2
<1>7. QED
  BY <1>3, <1>6 DEF ReadInv

\* The requests of a view whose answers were read earlier or are read now.
LEMMA ServedReads ==
  ASSUME Kept, ReadInv, NEW v \in View, NEW i \in DOMAIN flights[v], Serve(v, i) \/ ServeBase(v, i)
  PROVE  ReadInv'
<1>1. /\ Len(snapshots) \in Nat /\ DOMAIN flights[v] = 1..Len(flights[v])
      /\ flights[v][i] \in Flight
  BY InFlight DEF Kept
<1>2. UNCHANGED <<snapshots, view>>
  BY DEF Serve, ServeBase
<1>3. PICK g \in Flight :
        /\ flights' = [flights EXCEPT ![v] = [flights[v] EXCEPT ![i] = g]]
        /\ g.answer = flights[v][i].answer \/ g.answer = Len(snapshots)
  <2>1. CASE Serve(v, i)
    <3> DEFINE g == [flights[v][i] EXCEPT !.answer = Len(snapshots),
                       !.base = IF Compared(v) THEN flights[v][i].base ELSE Len(snapshots)]
    <3>1. flights' = [flights EXCEPT ![v] = [flights[v] EXCEPT ![i] = g]]
      BY <1>1, <2>1 DEF Serve, Kept, ViewsTyped, Flight
    <3>2. g \in Flight /\ g.answer = Len(snapshots)
      BY <1>1 DEF Flight
    <3>3. QED
      BY <3>1, <3>2
  <2>2. CASE ServeBase(v, i)
    <3> DEFINE g == [flights[v][i] EXCEPT !.base = Len(snapshots)]
    <3>1. flights' = [flights EXCEPT ![v] = [flights[v] EXCEPT ![i] = g]]
      BY <1>1, <2>2 DEF ServeBase, Kept, ViewsTyped, Flight
    <3>2. g \in Flight /\ g.answer = flights[v][i].answer
      BY <1>1 DEF Flight
    <3>3. QED
      BY <3>1, <3>2
  <2>3. QED
    BY <2>1, <2>2
<1>4. ASSUME NEW w \in View, NEW j \in DOMAIN flights'[w]
      PROVE  flights'[w][j].answer <= Len(snapshots)
  <2>1. CASE w = v
    <3>1. flights'[w] = [flights[v] EXCEPT ![i] = g]
      BY <1>3, <2>1 DEF Kept, ViewsTyped
    <3>2. j \in DOMAIN flights[v] /\ (flights'[w][j] = g \/ flights'[w][j] = flights[v][j])
      BY <1>4, <3>1
    <3>3. \A k \in DOMAIN flights[v] : flights[v][k].answer <= Len(snapshots)
      BY DEF ReadInv
    <3>4. QED
      BY <1>1, <1>3, <3>2, <3>3
  <2>2. CASE w # v
    <3>1. flights'[w] = flights[w]
      BY <1>3, <2>2 DEF Kept, ViewsTyped
    <3>2. QED
      BY <1>4, <3>1 DEF ReadInv
  <2>3. QED
    BY <2>1, <2>2
<1>5. QED
  BY <1>2, <1>4 DEF ReadInv

\* Every step reads what there is.
LEMMA Reading == Kept /\ ReadInv /\ [Next]_vars => ReadInv'
<1> SUFFICES ASSUME Kept, ReadInv, [Next]_vars PROVE ReadInv'
  OBVIOUS
<1>1. ASSUME NEW pl \in Place, Visit(pl) PROVE ReadInv'
  <2>1. /\ snapshots' = snapshots /\ flights' = Opening(pl)
        /\ view' = [v \in View |-> [Loading EXCEPT !.asked = Len(snapshots)]]
    BY <1>1 DEF Visit, Opening
  <2>2. \A v \in View : view'[v].at = 0 /\ view'[v].status = "loading"
    BY <2>1 DEF Loading
  <2>3. Len(snapshots) \in Nat
    BY PeriodicViews, InFlight DEF Kept
  <2>4. QED
    BY <2>1, <2>2, <2>3, OpeningRead DEF ReadInv, Waiting
<1>2. ASSUME NEW v \in View, NEW p \in Window,
             NEW queue, queue \in Seq(Flight), Len(queue) = Len(flights[v]),
             \A i \in 1..Len(queue) : queue[i].answer = flights[v][i].answer
      PROVE  \A i \in DOMAIN Append(queue, Asking(p)) :
               Append(queue, Asking(p))[i].answer <= Len(snapshots)
  <2>1. Len(flights[v]) \in Nat /\ DOMAIN flights[v] = 1..Len(flights[v]) /\ Len(snapshots) \in Nat
    BY InFlight DEF Kept
  <2>2. Asking(p) \in Flight /\ Asking(p).answer = 0
    BY Sent DEF Waiting
  <2>3. DOMAIN Append(queue, Asking(p)) = 1..(Len(queue) + 1)
    BY <1>2, <2>2, AppendProperties, LenProperties
  <2>4. ASSUME NEW i \in 1..(Len(queue) + 1)
        PROVE  Append(queue, Asking(p))[i].answer <= Len(snapshots)
    <3>1. CASE i = Len(queue) + 1
      BY <1>2, <2>1, <2>2, <3>1, AppendProperties
    <3>2. CASE i \in 1..Len(queue)
      <4>1. Append(queue, Asking(p))[i] = queue[i]
        BY <1>2, <2>2, <3>2, AppendProperties
      <4>2. flights[v][i].answer <= Len(snapshots)
        BY <1>2, <2>1, <3>2 DEF ReadInv
      <4>3. QED
        BY <1>2, <3>2, <4>1, <4>2
    <3>3. i = Len(queue) + 1 \/ i \in 1..Len(queue)
      <4>1. Len(queue) \in Nat
        BY <1>2, LenProperties
      <4>2. QED
        BY <2>4, <4>1
    <3>4. QED
      BY <3>1, <3>2, <3>3
  <2>5. QED
    BY <2>3, <2>4
<1>3. ASSUME NEW p \in Period, ChoosePeriod(p) PROVE ReadInv'
  <2>1. /\ UNCHANGED <<snapshots, view>> /\ p \in Window
        /\ flights' = [v \in View |->
             IF v \in Followers THEN Append(flights[v], Asking(p)) ELSE flights[v]]
    BY <1>3, ViewsAssumption DEF ChoosePeriod
  <2>2. ASSUME NEW v \in View, NEW i \in DOMAIN flights'[v]
        PROVE  flights'[v][i].answer <= Len(snapshots)
    <3>1. CASE v \in Followers
      <4>1. flights[v] \in Seq(Flight)
        BY InFlight DEF Kept
      <4>2. \A k \in DOMAIN Append(flights[v], Asking(p)) :
              Append(flights[v], Asking(p))[k].answer <= Len(snapshots)
        BY <1>2, <2>1, <4>1
      <4>3. QED
        BY <2>1, <2>2, <3>1, <4>2
    <3>2. CASE v \notin Followers
      BY <2>1, <2>2, <3>2 DEF ReadInv
    <3>3. QED
      BY <3>1, <3>2
  <2>3. QED
    BY <2>1, <2>2 DEF ReadInv
<1>4. ASSUME Attempt PROVE ReadInv'
  <2> DEFINE old == flights["products"]
             queue == Append(Cancelled(old), Asking(period))
  <2>1. /\ snapshots' = snapshots
        /\ flights' = [flights EXCEPT !["products"] = queue]
        /\ view' = [view EXCEPT !["products"].status = "loading",
                                !["products"].asked = Len(snapshots)]
    BY <1>4 DEF Attempt
  <2>2. /\ old \in Seq(Flight) /\ Len(old) \in Nat /\ DOMAIN old = 1..Len(old)
        /\ \A j \in DOMAIN old : old[j] \in Flight
        /\ view["products"] \in Data /\ period \in Window
    BY PeriodicViews, InFlight DEF Kept, ViewsTyped
  <2>3. /\ Cancelled(old) \in Seq(Flight) /\ Len(Cancelled(old)) = Len(old)
        /\ \A i \in 1..Len(old) : Cancelled(old)[i].answer = old[i].answer
    <3>1. \A i \in 1..Len(old) : [old[i] EXCEPT !.live = FALSE] \in Flight
      BY <2>2 DEF Flight
    <3>2. Cancelled(old) = [i \in 1..Len(old) |-> [old[i] EXCEPT !.live = FALSE]]
      BY <2>2 DEF Cancelled
    <3>3. Cancelled(old) \in Seq(Flight)
      BY <2>2, <3>1, <3>2, SeqDef
    <3>4. Len(Cancelled(old)) = Len(old)
      BY <2>2, <3>2, <3>3, LenProperties
    <3>5. \A i \in 1..Len(old) : [old[i] EXCEPT !.live = FALSE].answer = old[i].answer
      BY <2>2 DEF Flight
    <3>6. QED
      BY <3>2, <3>3, <3>4, <3>5
  <2>4. \A i \in DOMAIN queue : queue[i].answer <= Len(snapshots)
    BY <1>2, <2>2, <2>3, PeriodicViews
  <2> HIDE DEF queue
  <2>5. ASSUME NEW v \in View, NEW i \in DOMAIN flights'[v]
        PROVE  flights'[v][i].answer <= Len(snapshots)
    <3>1. CASE v = "products"
      <4>1. flights'[v] = queue
        BY <2>1, <3>1 DEF Kept, ViewsTyped
      <4>2. QED
        BY <2>4, <2>5, <4>1
    <3>2. CASE v # "products"
      <4>1. flights'[v] = flights[v]
        BY <2>1, <3>2 DEF Kept, ViewsTyped
      <4>2. QED
        BY <2>5, <4>1 DEF ReadInv
    <3>3. QED
      BY <3>1, <3>2
  <2>6. ASSUME NEW v \in View
        PROVE  /\ view'[v].at = view[v].at
               /\ view'[v].status = view[v].status \/ view'[v].status = "loading"
    <3>1. CASE v = "products"
      BY <2>1, <2>2, <3>1, PeriodicViews DEF Kept, ViewsTyped, Data
    <3>2. CASE v # "products"
      BY <2>1, <3>2 DEF Kept, ViewsTyped
    <3>3. QED
      BY <3>1, <3>2
  <2>7. QED
    BY <2>1, <2>5, <2>6 DEF ReadInv
<1>5. ASSUME NEW v \in View, NEW i \in DOMAIN flights[v], Arrive(v, i) \/ Fail(v, i)
      PROVE  ReadInv'
  <2>1. CASE Arrive(v, i)
    <3>1. Arrived(v, i, Result(v, flights[v][i])) /\ flights[v][i].answer # Waiting
      BY <2>1 DEF Arrive
    <3>2. /\ Result(v, flights[v][i]) \in Data
          /\ Result(v, flights[v][i]).at = flights[v][i].answer
      BY ResultTyped DEF Kept
    <3>3. QED
      BY <3>1, <3>2, ArrivedReads DEF Waiting
  <2>2. CASE Fail(v, i)
    <3>1. Arrived(v, i, Error(v, flights[v][i]))
      BY <2>2 DEF Fail
    <3>2. /\ Error(v, flights[v][i]) \in Data /\ Error(v, flights[v][i]).status = "error"
      BY ResultTyped DEF Kept
    <3>3. Error(v, flights[v][i]).at = 0
      BY InFlight DEF Error, Kept, Data
    <3>4. QED
      BY <3>1, <3>2, <3>3, ArrivedReads
  <2>3. QED
    BY <1>5, <2>1, <2>2
<1>6. ASSUME Synchronised PROVE ReadInv'
  <2>1. PICK s \in Snapshot : snapshots' = Append(snapshots, s)
    BY <1>6 DEF Synchronised
  <2>2. Len(snapshots) \in Nat /\ Len(snapshots') = Len(snapshots) + 1
    BY <2>1, LenProperties, AppendProperties DEF Kept, ViewsTyped
  <2>3. UNCHANGED <<view, flights>>
    BY <1>6 DEF Synchronised
  <2>4. ASSUME NEW v \in View
        PROVE  /\ view[v].at \in Nat
               /\ \A i \in DOMAIN flights[v] : flights[v][i].answer \in Nat
    BY InFlight DEF Kept, Data, Flight
  <2>5. QED
    BY <2>2, <2>3, <2>4 DEF ReadInv
<1>7. ASSUME \/ Turn \/ \E x \in DOMAIN filter, f \in Filter : SetFilter(x, f)
             \/ UNCHANGED vars
      PROVE  ReadInv'
  <2>1. UNCHANGED <<snapshots, view, flights>>
    BY <1>7 DEF Turn, SetFilter, vars
  <2>2. QED
    BY <2>1 DEF ReadInv
<1>8. QED
  BY <1>1, <1>3, <1>4, <1>5, <1>6, <1>7, ServedReads DEF Next

\* The snapshot a view was read from.
LEMMA ReadFrom ==
  ASSUME Kept, ReadInv, NEW v \in View, view[v].at # 0
  PROVE  /\ view[v].at \in 1..Len(snapshots) /\ DOMAIN snapshots = 1..Len(snapshots)
         /\ snapshots[view[v].at] \in First \cup Snapshot
         /\ SnapshotOK(snapshots[view[v].at]) /\ view[v].of \in Window
<1>1. view[v] \in Data /\ Len(snapshots) \in Nat
  BY InFlight DEF Kept
<1>2. view[v].at \in 1..Len(snapshots)
  BY <1>1 DEF ReadInv, Data
<1>3. DOMAIN snapshots = 1..Len(snapshots)
  BY LenProperties DEF Kept, ViewsTyped
<1>4. snapshots[view[v].at] \in First \cup Snapshot
  BY <1>2, <1>3, ElementOfSeq DEF Kept, ViewsTyped
<1>5. QED
  BY <1>1, <1>2, <1>3, <1>4, ViewsAssumption DEF Data

-------------------------------------------------------------------------------
(* Growth *)

\* The window a period is compared with contains it.
LEMMA Contained ==
  ASSUME NEW s, SnapshotOK(s), NEW p \in Window, NEW m \in Marketplace
  PROVE  /\ s.revenue[p][m] \in Nat /\ s.revenue[PreviousPeriod(p)][m] \in Nat
         /\ s.revenue[p][m] <= s.revenue[PreviousPeriod(p)][m]
<1>1. Window = {"today", "7d", "30d", "90d", "12m"}
  <2>1. DOMAIN Windows = 1..5 /\ 1..5 = {1, 2, 3, 4, 5}
    BY DEF Windows
  <2>2. /\ Windows[1] = "today" /\ Windows[2] = "7d" /\ Windows[3] = "30d"
        /\ Windows[4] = "90d" /\ Windows[5] = "12m"
    BY DEF Windows
  <2>3. QED
    BY <2>1, <2>2 DEF Window, Range
<1>2. \A w \in Window : s.revenue[w][m] \in Nat
  BY DEF SnapshotOK
<1>3. /\ s.revenue["today"][m] <= s.revenue["7d"][m]
      /\ s.revenue["7d"][m] <= s.revenue["30d"][m]
      /\ s.revenue["30d"][m] <= s.revenue["90d"][m]
      /\ s.revenue["90d"][m] <= s.revenue["12m"][m]
  <2>1. \A n \in 1..4 : s.revenue[Windows[n]][m] <= s.revenue[Windows[n + 1]][m]
    BY DEF SnapshotOK
  <2>2. {1, 2, 3, 4} = 1..4
    OBVIOUS
  <2>3. /\ s.revenue[Windows[1]][m] <= s.revenue[Windows[2]][m]
        /\ s.revenue[Windows[2]][m] <= s.revenue[Windows[3]][m]
        /\ s.revenue[Windows[3]][m] <= s.revenue[Windows[4]][m]
        /\ s.revenue[Windows[4]][m] <= s.revenue[Windows[5]][m]
    BY <2>1, <2>2
  <2>4. QED
    BY <2>3 DEF Windows
<1>4. PreviousPeriod(p) \in Window
  BY <1>1 DEF PreviousPeriod
<1>5. s.revenue[p][m] <= s.revenue[PreviousPeriod(p)][m]
  BY <1>1, <1>2, <1>3 DEF PreviousPeriod
<1>6. QED
  BY <1>2, <1>4, <1>5

\* A view whose two answers are of one snapshot shows no growth.
LEMMA OneSnapshot ==
  ASSUME Kept, ReadInv, NEW v, v = view["marketplace"], v.status = "success", v.at = v.base,
         NEW m \in Marketplace
  PROVE  /\ Revenue(v, m) \in Nat /\ Before(v, m) \in Nat
         /\ Revenue(v, m) <= Before(v, m)
         /\ \A n \in Nat : ~GrowthAbove(v, m, n)
<1>1. v.at # 0 /\ "marketplace" \in View
  BY DEF ReadInv, View
<1>2. SnapshotOK(snapshots[v.at]) /\ v.of \in Window
  BY <1>1, ReadFrom
<1>3. /\ Revenue(v, m) \in Nat /\ Before(v, m) \in Nat
      /\ Revenue(v, m) <= Before(v, m)
  BY <1>2, Contained DEF Revenue, Before
<1>4. ASSUME NEW n \in Nat PROVE ~(100 * (Revenue(v, m) - Before(v, m)) > n * Before(v, m))
  <2>1. n * Before(v, m) >= 0
    BY <1>3
  <2>2. 100 * (Revenue(v, m) - Before(v, m)) <= 0
    BY <1>3
  <2> HIDE DEF Revenue, Before
  <2>3. QED
    BY <1>3, <2>1, <2>2
<1>5. QED
  BY <1>3, <1>4 DEF GrowthAbove

\* All that the pages say of a growing marketplace is said of one that grew.
LEMMA GrowthSaid ==
  ASSUME NEW v, NEW m
  PROVE  /\ "accelerate" \in Recommendations(v, m) => GrowthAbove(v, m, 15)
         /\ "reinforce stock" \in NextActions(v, m) => GrowthAbove(v, m, 15)
         /\ "open channels" \in NextActions(v, m) => GrowthAbove(v, m, 10)
         /\ InsightActions(v, m)[1] = "keep restocking"
              => GrowthKnown(v, m) /\ ~GrowthBelow(v, m, 0)
         /\ ~GrowthBelow(v, m, 0) => InsightPriorities(v, m)[1] = "baixa"
<1>1. "accelerate" \in Recommendations(v, m) => GrowthAbove(v, m, 15)
  BY DEF Recommendations, Some
<1>2. /\ "reinforce stock" \in NextActions(v, m) => GrowthAbove(v, m, 15)
      /\ "open channels" \in NextActions(v, m) => GrowthAbove(v, m, 10)
  BY DEF NextActions, Some
<1>3. InsightActions(v, m)[1] = "keep restocking" => GrowthKnown(v, m) /\ ~GrowthBelow(v, m, 0)
  BY DEF InsightActions
<1>4. ~GrowthBelow(v, m, 0) => InsightPriorities(v, m)[1] = "baixa"
  BY DEF InsightPriorities, Health
<1>5. QED
  BY <1>1, <1>2, <1>3, <1>4

-------------------------------------------------------------------------------
(* Pages *)

\* How many pages n elements take.
Pages(n) == Greater(1, (n + PageSize - 1) \div PageSize)

\* The products of the pages up to the one with number k.
UpTo(s, k) == SubSeq(s, 1, Lesser(k * PageSize, Len(s)))

\* Pages that are full but for the last one.
LEMMA PagesFit ==
  ASSUME NEW n \in Nat
  PROVE  /\ Pages(n) \in Nat \ {0} /\ n <= Pages(n) * PageSize
         /\ (Pages(n) - 1) * PageSize <= n
         /\ n # 0 => (Pages(n) - 1) * PageSize < n
<1> DEFINE q == (n + PageSize - 1) \div PageSize
           r == (n + PageSize - 1) % PageSize
<1>1. PageSize \in Nat \ {0}
  BY ViewsAssumption
<1>2. /\ q \in Nat /\ r \in 0..(PageSize - 1)
      /\ n + PageSize - 1 = PageSize * q + r
  BY <1>1
<1>3. Pages(n) = IF q < 1 THEN 1 ELSE q
  BY <1>2 DEF Pages, Greater
<1> HIDE DEF q, r
<1>4. PageSize * q = q * PageSize /\ q * PageSize \in Nat
  BY <1>1, <1>2
<1>5. CASE q < 1
  <2>1. q = 0 /\ q * PageSize = 0
    BY <1>1, <1>2, <1>5
  <2>2. n = 0
    BY <1>1, <1>2, <1>4, <2>1
  <2>3. Pages(n) = 1
    BY <1>3, <1>5
  <2>4. QED
    BY <1>1, <2>2, <2>3
<1>6. CASE q >= 1
  <2>1. (q - 1) * PageSize = q * PageSize - PageSize
    BY <1>1, <1>2
  <2>2. n <= q * PageSize /\ q * PageSize - PageSize < n
    BY <1>1, <1>2, <1>4
  <2>3. Pages(n) = q
    BY <1>2, <1>3, <1>6
  <2>4. QED
    BY <1>1, <1>2, <1>4, <1>6, <2>1, <2>2, <2>3
<1>7. QED
  BY <1>2, <1>5, <1>6

\* Multiples are in order.
LEMMA Multiples ==
  ASSUME NEW a \in Nat, NEW b \in Nat, a <= b, NEW c \in Nat
  PROVE  a * c \in Nat /\ b * c \in Nat /\ a * c <= b * c
<1>1. PICK d \in Nat : b = a + d
  <2>1. b - a \in Nat /\ b = a + (b - a)
    OBVIOUS
  <2>2. QED
    BY <2>1
<1>2. b * c = a * c + d * c /\ d * c \in Nat /\ a * c \in Nat
  BY <1>1
<1>3. QED
  BY <1>2

\* Where a page begins and ends, and what is on it.
LEMMA PageOf ==
  ASSUME NEW S, NEW s \in Seq(S), NEW k \in 1..Pages(Len(s))
  PROVE  /\ Paged(s, k).page = k /\ Paged(s, k).total = Pages(Len(s))
         /\ Paged(s, k).items = SubSeq(s, (k - 1) * PageSize + 1, Lesser(k * PageSize, Len(s)))
         /\ (k - 1) * PageSize \in 0..Len(s)
         /\ k * PageSize = (k - 1) * PageSize + PageSize
         /\ Len(s) # 0 => (k - 1) * PageSize < Len(s)
<1>1. Len(s) \in Nat /\ PageSize \in Nat \ {0} /\ Pages(Len(s)) \in Nat \ {0}
  BY LenProperties, ViewsAssumption, PagesFit
<1>2. PageNumber(k, Pages(Len(s))) = k
  BY <1>1 DEF PageNumber, Lesser, Greater
<1>3. k * PageSize = (k - 1) * PageSize + PageSize
  BY <1>1
<1>4. (k - 1) * PageSize <= (Pages(Len(s)) - 1) * PageSize /\ (k - 1) * PageSize \in Nat
  BY <1>1, Multiples
<1>5. /\ (Pages(Len(s)) - 1) * PageSize <= Len(s)
      /\ Len(s) # 0 => (Pages(Len(s)) - 1) * PageSize < Len(s)
      /\ (Pages(Len(s)) - 1) * PageSize \in Nat
  <2>1. Pages(Len(s)) - 1 \in Nat /\ Pages(Len(s)) - 1 <= Pages(Len(s)) - 1
    BY <1>1
  <2>2. (Pages(Len(s)) - 1) * PageSize \in Nat
    BY <1>1, <2>1, Multiples
  <2>3. QED
    BY <1>1, <2>2, PagesFit
<1>6. (k - 1) * PageSize \in 0..Len(s) /\ (Len(s) # 0 => (k - 1) * PageSize < Len(s))
  BY <1>1, <1>4, <1>5
<1>7. /\ Paged(s, k).page = k /\ Paged(s, k).total = Pages(Len(s))
      /\ Paged(s, k).items = SubSeq(s, (k - 1) * PageSize + 1, Lesser((k - 1) * PageSize + PageSize, Len(s)))
  BY <1>2 DEF Paged, Pages
<1>8. QED
  BY <1>3, <1>6, <1>7

\* A page asked for is brought back into the pages there are.
LEMMA PageBack ==
  ASSUME NEW S, NEW s \in Seq(S), NEW asked \in Int
  PROVE  \E k \in 1..Pages(Len(s)) : Paged(s, asked) = Paged(s, k) /\ Paged(s, asked).page = k
<1>1. Pages(Len(s)) \in Nat \ {0}
  BY LenProperties, PagesFit
<1> DEFINE k == PageNumber(asked, Pages(Len(s)))
<1>2. k \in 1..Pages(Len(s)) /\ PageNumber(k, Pages(Len(s))) = k
  BY <1>1 DEF PageNumber, Lesser, Greater
<1>3. Paged(s, asked) = Paged(s, k) /\ Paged(s, asked).page = k
  BY <1>2 DEF Paged, Pages
<1>4. QED
  BY <1>2, <1>3

\* The least of some numbers, by the strict subsets of an interval.
LEMMA LeastOf ==
  ASSUME NEW W, W \subseteq Nat, W # {}
  PROVE  \E n \in W : \A m \in W : n <= m
<1>1. PICK top \in W : top \in Nat
  OBVIOUS
<1> DEFINE Low == {n \in W : n <= top}
           U == {1..n : n \in Low}
<1>2. \A n \in Low : 1..n \in FiniteSubsetsOf(1..top)
  <2>1. ASSUME NEW n \in Low PROVE 1..n \in FiniteSubsetsOf(1..top)
    <3>1. n \in Nat /\ n <= top
      BY <1>1
    <3>2. 1..n \subseteq 1..top
      BY <1>1, <3>1
    <3>3. IsFiniteSet(1..n)
      BY <3>1, FS_Interval
    <3>4. QED
      BY <3>2, <3>3 DEF FiniteSubsetsOf
  <2>2. QED
    BY <2>1
<1>3. U \subseteq FiniteSubsetsOf(1..top) /\ U # {}
  BY <1>1, <1>2
<1>4. IsFiniteSet(1..top)
  BY <1>1, FS_Interval
<1>5. IsWellFoundedOn(StrictSubsetOrdering(1..top), FiniteSubsetsOf(1..top))
  BY FS_StrictSubsetOrderingWellFounded
<1>6. \E x \in U : \A y \in U : ~(<<y, x>> \in StrictSubsetOrdering(1..top))
  <2> HIDE DEF U
  <2>1. QED
    BY <1>3, <1>5, WFMin
<1>7. \A x \in U : x \in SUBSET (1..top)
  BY <1>3 DEF FiniteSubsetsOf
<1>8. PICK x \in U : \A y \in U : y \subseteq x => y = x
  BY <1>6, <1>7 DEF StrictSubsetOrdering
<1>9. PICK n \in Low : x = 1..n
  BY <1>8
<1>10. ASSUME NEW m \in W PROVE n <= m
  <2>1. m \in Nat /\ n \in Nat /\ n <= top
    BY <1>1, <1>9
  <2>2. CASE m <= top
    <3>1. 1..m \subseteq 1..n => 1..m = 1..n
      BY <1>8, <1>9, <2>2
    <3>2. QED
      BY <2>1, <3>1
  <2>3. CASE top < m
    BY <1>1, <2>1, <2>3
  <2>4. QED
    BY <1>1, <2>1, <2>2, <2>3
<1>11. QED
  BY <1>9, <1>10

\* A part of a sequence in two halves, and all of it.
LEMMA Halves ==
  ASSUME NEW S, NEW s \in Seq(S), NEW b \in 0..Len(s), NEW a \in 0..b
  PROVE  /\ SubSeq(s, 1, b) = SubSeq(s, 1, a) \o SubSeq(s, a + 1, b)
         /\ SubSeq(s, 1, Len(s)) = s
<1>1. Len(s) \in Nat
  BY LenProperties
<1>2. SubSeq(s, 1, a) \o SubSeq(s, a + 1, b) = SubSeq(s, 1, b)
  <2>1. 1 \in 1..(Len(s) + 1) /\ a \in (1 - 1)..Len(s) /\ b \in a..Len(s)
    BY <1>1
  <2>2. QED
    BY <2>1, ConcatAdjacentSubSeq
<1>3. SubSeq(s, 1, Len(s)) = s
  BY SubSeqFull
<1>4. QED
  BY <1>2, <1>3

\* One page after another.
LEMMA NextPages ==
  ASSUME NEW S, NEW s \in Seq(S), NEW k \in 2..Pages(Len(s))
  PROVE  UpTo(s, k) = UpTo(s, k - 1) \o Paged(s, k).items
<1> DEFINE a == (k - 1) * PageSize
           b == Lesser(k * PageSize, Len(s))
<1>1. Len(s) \in Nat /\ PageSize \in Nat \ {0} /\ Pages(Len(s)) \in Nat \ {0}
  BY LenProperties, ViewsAssumption, PagesFit
<1>2. /\ Paged(s, k).items = SubSeq(s, a + 1, b) /\ a \in 0..Len(s)
      /\ k * PageSize = a + PageSize
  BY <1>1, PageOf
<1>3. b \in a..Len(s)
  BY <1>1, <1>2 DEF Lesser
<1>4. UpTo(s, k) = SubSeq(s, 1, b) /\ UpTo(s, k - 1) = SubSeq(s, 1, a)
  BY <1>1, <1>2 DEF UpTo, Lesser
<1> HIDE DEF a, b
<1>5. SubSeq(s, 1, b) = SubSeq(s, 1, a) \o SubSeq(s, a + 1, b)
  BY <1>1, <1>2, <1>3, Halves
<1>6. QED
  BY <1>2, <1>4, <1>5

\* What the pages are when they are put together.
LEMMA Together ==
  ASSUME NEW S, NEW s \in Seq(S)
  PROVE  FlattenSeq([n \in 1..Pages(Len(s)) |-> Paged(s, n).items]) = s
<1> DEFINE N == Pages(Len(s))
           p == [n \in 1..N |-> Paged(s, n).items]
           Equation(f) == f = [i \in 1..Len(p) |-> IF i = 1 THEN p[i] ELSE f[i - 1] \o p[i]]
           F == [i \in 1..N |-> UpTo(s, i)]
<1>1. N \in Nat \ {0} /\ Len(s) \in Nat /\ PageSize \in Nat \ {0}
  BY LenProperties, ViewsAssumption, PagesFit
<1>2. Len(p) = N
  BY <1>1, LenProperties
<1>3. FlattenSeq(p) = (CHOOSE f : Equation(f))[N]
  <2>1. FlattenSeq(p) = (CHOOSE f : Equation(f))[Len(p)]
    BY <1>1, <1>2 DEF FlattenSeq
  <2>2. QED
    BY <1>2, <2>1
<1>4. Equation(F)
  <2>1. ASSUME NEW i \in 1..N
        PROVE  F[i] = IF i = 1 THEN p[i] ELSE F[i - 1] \o p[i]
    <3>1. CASE i = 1
      <4>1. p[1] = SubSeq(s, 1, Lesser(1 * PageSize, Len(s)))
        <5>1. Paged(s, 1).items = SubSeq(s, (1 - 1) * PageSize + 1, Lesser(1 * PageSize, Len(s)))
          BY <1>1, PageOf
        <5>2. (1 - 1) * PageSize + 1 = 1
          BY <1>1
        <5>3. QED
          BY <1>1, <5>1, <5>2
      <4>2. QED
        BY <3>1, <4>1 DEF UpTo
    <3>2. CASE i # 1
      <4>1. i \in 2..N /\ i - 1 \in 1..N
        BY <1>1, <3>2
      <4>2. UpTo(s, i) = UpTo(s, i - 1) \o Paged(s, i).items
        BY <4>1, NextPages
      <4>3. QED
        BY <3>2, <4>1, <4>2
    <3>3. QED
      BY <3>1, <3>2
  <2>2. QED
    BY <1>2, <2>1
<1>5. PICK f : f = (CHOOSE g : Equation(g))
  OBVIOUS
<1>6. Equation(f)
  BY <1>4, <1>5
<1>7. \A i \in 1..N : f[i] = IF i = 1 THEN p[i] ELSE f[i - 1] \o p[i]
  BY <1>2, <1>6
<1>8. \A i \in 1..N : F[i] = IF i = 1 THEN p[i] ELSE F[i - 1] \o p[i]
  BY <1>2, <1>4
<1> HIDE DEF Equation, F, p
<1>9. f[N] = F[N]
  <2> SUFFICES ASSUME f[N] # F[N] PROVE FALSE
    OBVIOUS
  <2> DEFINE W == {i \in 1..N : f[i] # F[i]}
  <2>1. W \subseteq Nat /\ W # {}
    BY <1>1
  <2>2. PICK i \in W : \A j \in W : i <= j
    BY <2>1, LeastOf
  <2>3. i \in 1..N /\ f[i] # F[i]
    OBVIOUS
  <2>4. i # 1
    BY <1>7, <1>8, <2>3
  <2>5. i - 1 \in 1..N /\ ~(i <= i - 1)
    BY <1>1, <2>3, <2>4
  <2>6. f[i - 1] = F[i - 1]
    BY <2>2, <2>5
  <2>7. QED
    BY <1>7, <1>8, <2>3, <2>4, <2>6
<1>10. F[N] = UpTo(s, N)
  BY <1>1 DEF F
<1>11. UpTo(s, N) = SubSeq(s, 1, Len(s))
  <2>1. Len(s) <= N * PageSize
    BY <1>1, PagesFit
  <2>2. N * PageSize \in Nat
    <3> HIDE DEF N
    <3>1. QED
      BY <1>1
  <2> HIDE DEF N
  <2>3. QED
    BY <1>1, <2>1, <2>2 DEF UpTo, Lesser
<1>12. SubSeq(s, 1, Len(s)) = s
  BY <1>1, Halves
<1>13. QED
  BY <1>3, <1>5, <1>9, <1>10, <1>11, <1>12 DEF p

\* The products shown, and those of them that pass a filter, are sequences.
LEMMA ItemsListed ==
  ASSUME Kept, ReadInv
  PROVE  /\ \E n \in Nat : DOMAIN Items = 1..n
         /\ \A f : \E S : Filtered(Items, f) \in Seq(S)
<1>1. PICK n \in Nat : DOMAIN Items = 1..n
  <2> DEFINE at == view["products"].at
  <2>1. CASE at = 0
    <3>1. Items = <<>>
      BY <2>1 DEF Items
    <3>2. DOMAIN Items = 1..0
      BY <3>1
    <3>3. QED
      BY <3>2
  <2>2. CASE at # 0
    <3>1. "products" \in View
      BY DEF View
    <3>2. snapshots[at].products \in Seq(Kind)
      BY <2>2, <3>1, ReadFrom DEF SnapshotOK
    <3>3. DOMAIN snapshots[at].products = 1..Len(snapshots[at].products)
          /\ Len(snapshots[at].products) \in Nat
      BY <3>2, LenProperties
    <3>4. DOMAIN Items = DOMAIN snapshots[at].products
      BY <2>2 DEF Items
    <3>5. QED
      BY <3>3, <3>4
  <2>3. QED
    BY <2>1, <2>2
<1>2. ASSUME NEW f PROVE \E S : Filtered(Items, f) \in Seq(S)
  <2> DEFINE at == {i \in DOMAIN Items : Passes(Items[i], f)}
             kept == Filtered(Items, f)
             S == {kept[i] : i \in DOMAIN kept}
  <2>1. IsFiniteSet(1..n)
    BY FS_Interval
  <2>2. IsFiniteSet(at)
    BY <1>1, <2>1, FS_Subset
  <2>3. PICK c \in Nat : c = Cardinality(at)
    BY <2>2, FS_CardinalityType
  <2>4. kept = [i \in 1..c |-> kept[i]]
    BY <2>3 DEF Filtered, Picked
  <2> HIDE DEF kept
  <2>5. \A i \in 1..c : kept[i] \in S
    BY <2>4
  <2> HIDE DEF S
  <2>6. kept \in Seq(S)
    BY <2>4, <2>5, IsASeq
  <2>7. QED
    BY <2>6 DEF kept
<1>3. QED
  BY <1>1, <1>2

\* The page asked for is a number: every turn moves it by one.
PageInv == page \in Int

\* A turn moves it by one, a visit or a filter begins again, and nothing else moves it.
LEMMA PageKept == PageInv /\ [Next]_vars => PageInv'
<1> SUFFICES ASSUME page \in Int, [Next]_vars PROVE page' \in Int
  BY DEF PageInv
<1>1. ASSUME NEW pl, Visit(pl) PROVE page' = 1
  BY <1>1 DEF Visit
<1>2. ASSUME NEW p, ChoosePeriod(p) PROVE page' = page
  BY <1>2 DEF ChoosePeriod
<1>3. ASSUME Attempt PROVE page' = page
  BY <1>3 DEF Attempt
<1>4. ASSUME NEW v, NEW i, Serve(v, i) \/ ServeBase(v, i) \/ Arrive(v, i) \/ Fail(v, i)
      PROVE  page' = page
  BY <1>4 DEF Serve, ServeBase, Arrive, Fail, Arrived
<1>5. ASSUME Synchronised PROVE page' = page
  BY <1>5 DEF Synchronised
<1>6. ASSUME NEW x, NEW f, SetFilter(x, f) PROVE page' = 1
  BY <1>6 DEF SetFilter
<1>7. ASSUME Turn PROVE page' \in {page - 1, page + 1}
  BY <1>7 DEF Turn
<1>8. ASSUME UNCHANGED vars PROVE page' = page
  BY <1>8 DEF vars
<1>9. QED
  BY <1>1, <1>2, <1>3, <1>4, <1>5, <1>6, <1>7, <1>8 DEF Next
-------------------------------------------------------------------------------
(* Totals *)

\* Of some things one is the greatest by what f says of them.
LEMMA Greatest ==
  ASSUME NEW S, IsFiniteSet(S), S # {}, NEW f, \A x \in S : f[x] \in Int
  PROVE  \E x \in S : \A y \in S : f[y] <= f[x]
<1> DEFINE Above(x) == {y \in S : f[y] > f[x]}
           U == {Above(x) : x \in S}
<1>1. \A x \in S : Above(x) \in FiniteSubsetsOf(S)
  <2> SUFFICES ASSUME NEW x \in S PROVE Above(x) \in FiniteSubsetsOf(S)
    OBVIOUS
  <2>1. Above(x) \in SUBSET S
    OBVIOUS
  <2>2. IsFiniteSet(Above(x))
    BY <2>1, FS_Subset
  <2>3. QED
    BY <2>1, <2>2 DEF FiniteSubsetsOf
<1>2. U \subseteq FiniteSubsetsOf(S) /\ U # {}
  BY <1>1
<1>3. IsWellFoundedOn(StrictSubsetOrdering(S), FiniteSubsetsOf(S))
  BY FS_StrictSubsetOrderingWellFounded
<1>4. \E u \in U : \A w \in U : ~(<<w, u>> \in StrictSubsetOrdering(S))
  <2> HIDE DEF U
  <2>1. QED
    BY <1>2, <1>3, WFMin
<1>5. \A u \in U : u \in SUBSET S
  OBVIOUS
<1>6. PICK u \in U : \A w \in U : w \subseteq u => w = u
  BY <1>4, <1>5 DEF StrictSubsetOrdering
<1>7. PICK x \in S : u = Above(x)
  BY <1>6
<1>8. ASSUME NEW y \in S PROVE f[y] <= f[x]
  <2> SUFFICES ASSUME f[y] > f[x] PROVE FALSE
    OBVIOUS
  <2>1. Above(y) \subseteq Above(x)
    <3> SUFFICES ASSUME NEW z \in S, f[z] > f[y] PROVE f[z] > f[x]
      OBVIOUS
    <3>1. QED
      OBVIOUS
  <2>2. y \in Above(x) /\ y \notin Above(y)
    OBVIOUS
  <2>3. Above(y) = Above(x)
    BY <1>6, <1>7, <2>1
  <2>4. QED
    BY <2>2, <2>3
<1>9. QED
  BY <1>8

\* The units that make up what f says of the things in s.
Units(s, f) == {u \in s \X (Nat \ {0}) : u[2] <= f[u[1]]}
Counted(S, f) == IsFiniteSet(S) /\ \A x \in S : f[x] \in Nat

LEMMA UnitsFinite ==
  ASSUME NEW S, NEW f, Counted(S, f), NEW s \in SUBSET S
  PROVE  /\ IsFiniteSet(s) /\ Cardinality(s) \in Nat
         /\ IsFiniteSet(Units(s, f)) /\ Cardinality(Units(s, f)) \in Nat
<1>1. IsFiniteSet(s) /\ Cardinality(s) \in Nat
  BY FS_Subset, FS_CardinalityType DEF Counted
<1>2. IsFiniteSet(Units(s, f))
  <2>1. CASE s = {}
    <3>1. Units(s, f) = {}
      BY <2>1 DEF Units
    <3>2. QED
      BY <3>1, FS_EmptySet
  <2>2. CASE s # {}
    <3>1. \A x \in s : f[x] \in Nat
      BY DEF Counted
    <3>2. PICK top \in s : \A y \in s : f[y] <= f[top]
      BY <1>1, <2>2, <3>1, Greatest
    <3>3. PICK N \in Nat : N = f[top]
      BY <3>1
    <3>4. IsFiniteSet(1..N)
      BY FS_Interval
    <3>5. IsFiniteSet(s \X (1..N))
      BY <1>1, <3>4, FS_Product
    <3>6. Units(s, f) \in SUBSET (s \X (1..N))
      <4> SUFFICES ASSUME NEW x \in s, NEW n \in Nat \ {0}, n <= f[x] PROVE n \in 1..N
        BY DEF Units
      <4>1. QED
        BY <3>1, <3>2, <3>3
    <3>7. QED
      BY <3>5, <3>6, FS_Subset
  <2>3. QED
    BY <2>1, <2>2
<1>3. QED
  BY <1>1, <1>2, FS_CardinalityType

\* Without one of the things there are so many units less as f says of it.
LEMMA UnitsWithout ==
  ASSUME NEW S, NEW f, Counted(S, f), NEW s \in SUBSET S, NEW x \in s
  PROVE  Cardinality(Units(s, f)) = f[x] + Cardinality(Units(s \ {x}, f))
<1>1. PICK n \in Nat : n = f[x]
  BY DEF Counted
<1>2. PICK own : own = {x} \X (1..n)
  OBVIOUS
<1>3. PICK others : others = Units(s \ {x}, f)
  OBVIOUS
<1>4. IsFiniteSet(others) /\ Cardinality(others) \in Nat
  BY <1>3, UnitsFinite
<1>5. IsFiniteSet(own) /\ Cardinality(own) = n
  <2>1. IsFiniteSet({x}) /\ Cardinality({x}) = 1
    BY FS_Singleton
  <2>2. IsFiniteSet(1..n) /\ Cardinality(1..n) = n
    BY FS_Interval
  <2>3. IsFiniteSet(own) /\ Cardinality(own) = 1 * n
    BY <1>2, <2>1, <2>2, FS_Product
  <2>4. QED
    BY <2>3
<1>6. own \cup others = Units(s, f)
  <2>1. ASSUME NEW y \in s, NEW k \in Nat \ {0}
        PROVE  <<y, k>> \in Units(s, f) <=> <<y, k>> \in own \/ <<y, k>> \in others
    <3>1. CASE y = x
      BY <1>1, <1>2, <1>3, <3>1 DEF Units
    <3>2. CASE y # x
      BY <1>1, <1>2, <1>3, <3>2 DEF Units
    <3>3. QED
      BY <3>1, <3>2
  <2>2. /\ Units(s, f) \subseteq s \X (Nat \ {0}) /\ own \subseteq s \X (Nat \ {0})
        /\ others \subseteq s \X (Nat \ {0})
    BY <1>2, <1>3 DEF Units
  <2>3. \A u \in s \X (Nat \ {0}) : u \in Units(s, f) <=> u \in own \/ u \in others
    BY <2>1
  <2>4. QED
    BY <2>2, <2>3
<1>7. own \cap others = {}
  BY <1>2, <1>3 DEF Units
<1>8. Cardinality(own \cup others) = n + Cardinality(others) - Cardinality(own \cap others)
  BY <1>4, <1>5, FS_Union
<1>9. Cardinality(own \cap others) = 0
  BY <1>7, FS_EmptySet
<1>10. Cardinality(Units(s, f)) = n + Cardinality(others)
  <2>1. PICK m \in Nat : m = Cardinality(others)
    BY <1>4
  <2>2. Cardinality(own \cup others) = n + m - 0
    BY <1>8, <1>9, <2>1
  <2>3. n + m - 0 = n + m
    OBVIOUS
  <2>4. QED
    BY <1>6, <2>1, <2>2, <2>3, Zenon
<1>11. QED
  BY <1>1, <1>3, <1>10

\* What a fold over the subsets of S is, one chosen element after another.
Summing(g, S, f) ==
  g = [s \in SUBSET S |->
         IF s = {} THEN 0
         ELSE f[CHOOSE x \in s : TRUE] + g[s \ {CHOOSE x \in s : TRUE}]]

LEMMA SummingIs ==
  ASSUME NEW S, NEW f, Counted(S, f)
  PROVE  /\ \E g : Summing(g, S, f)
         /\ \A g : Summing(g, S, f) => g[S] = Cardinality(Units(S, f))
<1> DEFINE h == [s \in SUBSET S |-> Cardinality(Units(s, f))]
           one(s) == CHOOSE x \in s : TRUE
<1>1. ASSUME NEW s \in SUBSET S
      PROVE  h[s] = IF s = {} THEN 0 ELSE f[one(s)] + h[s \ {one(s)}]
  <2>1. CASE s = {}
    <3>1. Units(s, f) = {}
      BY <2>1 DEF Units
    <3>2. QED
      BY <2>1, <3>1, FS_EmptySet
  <2>2. CASE s # {}
    <3>1. one(s) \in s
      BY <2>2
    <3> HIDE DEF one
    <3>2. s \ {one(s)} \in SUBSET S
      OBVIOUS
    <3>3. Cardinality(Units(s, f)) = f[one(s)] + Cardinality(Units(s \ {one(s)}, f))
      BY <3>1, UnitsWithout
    <3>4. QED
      BY <2>2, <3>2, <3>3
  <2>3. QED
    BY <2>1, <2>2
<1>2. Summing(h, S, f)
  <2> HIDE DEF h
  <2>1. h = [s \in SUBSET S |-> h[s]]
    BY DEF h
  <2>2. QED
    BY <1>1, <2>1 DEF Summing
<1>3. ASSUME NEW g, Summing(g, S, f) PROVE g[S] = h[S]
  <2>1. \A s \in SUBSET S : g[s] = IF s = {} THEN 0 ELSE f[one(s)] + g[s \ {one(s)}]
    BY <1>3 DEF Summing
  <2> SUFFICES ASSUME g[S] # h[S] PROVE FALSE
    OBVIOUS
  <2> DEFINE W == {s \in SUBSET S : g[s] # h[s]}
  <2>2. W \subseteq FiniteSubsetsOf(S) /\ W # {}
    <3>1. ASSUME NEW s \in SUBSET S PROVE s \in FiniteSubsetsOf(S)
      BY UnitsFinite DEF FiniteSubsetsOf
    <3>2. QED
      BY <3>1
  <2>3. IsWellFoundedOn(StrictSubsetOrdering(S), FiniteSubsetsOf(S))
    BY FS_StrictSubsetOrderingWellFounded DEF Counted
  <2>4. \E s \in W : \A t \in W : ~(<<t, s>> \in StrictSubsetOrdering(S))
    <3> HIDE DEF W
    <3>1. QED
      BY <2>2, <2>3, WFMin
  <2>5. PICK s \in W : \A t \in W : t \subseteq s => t = s
    BY <2>4 DEF StrictSubsetOrdering
  <2>6. s \in SUBSET S /\ g[s] # h[s]
    OBVIOUS
  <2> HIDE DEF h
  <2>7. s # {}
    BY <1>1, <2>1, <2>6
  <2>8. one(s) \in s
    BY <2>7
  <2> HIDE DEF one
  <2>9. g[s \ {one(s)}] = h[s \ {one(s)}]
    BY <2>5, <2>6, <2>8
  <2>10. QED
    BY <1>1, <2>1, <2>6, <2>7, <2>9
<1>4. QED
  BY <1>2, <1>3

\* The total of what f says lies between the multiples of what it says at least and at
\* most; it is nothing only of nothing.
Total(S, f) == Cardinality(Units(S, f))

LEMMA TotalBounds ==
  ASSUME NEW S, NEW f, Counted(S, f), NEW k \in Nat
  PROVE  /\ Total(S, f) \in Nat /\ Cardinality(S) \in Nat
         /\ (\A x \in S : f[x] >= k) => Total(S, f) >= Cardinality(S) * k
         /\ (\A x \in S : f[x] <= k) => Total(S, f) <= Cardinality(S) * k
         /\ Total(S, f) = 0 <=> \A x \in S : f[x] = 0
<1>1. /\ IsFiniteSet(S) /\ Cardinality(S) \in Nat
      /\ IsFiniteSet(Units(S, f)) /\ Total(S, f) \in Nat
  BY UnitsFinite DEF Total
<1>2. IsFiniteSet(1..k) /\ Cardinality(1..k) = k
  BY FS_Interval
<1>3. IsFiniteSet(S \X (1..k)) /\ Cardinality(S \X (1..k)) = Cardinality(S) * k
  BY <1>1, <1>2, FS_Product
<1>4. \A x \in S : f[x] \in Nat
  BY DEF Counted
<1>5. ASSUME \A x \in S : f[x] >= k PROVE Total(S, f) >= Cardinality(S) * k
  <2>1. S \X (1..k) \in SUBSET Units(S, f)
    <3> SUFFICES ASSUME NEW x \in S, NEW n \in 1..k PROVE <<x, n>> \in Units(S, f)
      OBVIOUS
    <3>1. n \in Nat \ {0} /\ n <= f[x]
      BY <1>4, <1>5
    <3>2. QED
      BY <3>1 DEF Units
  <2>2. Cardinality(S \X (1..k)) <= Cardinality(Units(S, f))
    BY <1>1, <2>1, FS_Subset
  <2>3. QED
    BY <1>1, <1>3, <2>2 DEF Total
<1>6. ASSUME \A x \in S : f[x] <= k PROVE Total(S, f) <= Cardinality(S) * k
  <2>1. Units(S, f) \in SUBSET (S \X (1..k))
    <3> SUFFICES ASSUME NEW x \in S, NEW n \in Nat \ {0}, n <= f[x] PROVE n \in 1..k
      BY DEF Units
    <3>1. QED
      BY <1>4, <1>6
  <2>2. Cardinality(Units(S, f)) <= Cardinality(S \X (1..k))
    BY <1>3, <2>1, FS_Subset
  <2>3. QED
    BY <1>1, <1>3, <2>2 DEF Total
<1>7. Total(S, f) = 0 <=> \A x \in S : f[x] = 0
  <2>1. Total(S, f) = 0 <=> Units(S, f) = {}
    BY <1>1, FS_EmptySet DEF Total
  <2>2. ASSUME NEW x \in S, f[x] # 0 PROVE <<x, 1>> \in Units(S, f)
    BY <1>4, <2>2 DEF Units
  <2>3. ASSUME \A x \in S : f[x] = 0 PROVE Units(S, f) = {}
    BY <2>3 DEF Units
  <2>4. QED
    BY <2>1, <2>2, <2>3
<1>8. QED
  BY <1>1, <1>5, <1>6, <1>7

\* What the marketplaces of a view earned.
LEMMA Earned ==
  ASSUME NEW v, NEW f, f = [x \in Sellers |-> Revenue(v, x)], Counted(Sellers, f)
  PROVE  TotalRevenue(v) = Total(Sellers, f)
<1> DEFINE Equation(g) ==
             g = [s \in SUBSET Sellers |->
                    IF s = {} THEN 0
                    ELSE Revenue(v, CHOOSE x \in s : TRUE) + g[s \ {CHOOSE x \in s : TRUE}]]
<1>1. TotalRevenue(v) = (CHOOSE g : Equation(g))[Sellers]
  BY DEF TotalRevenue, MapThenSumSet, MapThenFoldSet
<1>2. ASSUME NEW g PROVE Equation(g) <=> Summing(g, Sellers, f)
  <2>1. \A s \in SUBSET Sellers : s # {} => f[CHOOSE x \in s : TRUE] = Revenue(v, CHOOSE x \in s : TRUE)
    <3> SUFFICES ASSUME NEW s \in SUBSET Sellers, s # {}, NEW y, y = CHOOSE x \in s : TRUE
                 PROVE  f[y] = Revenue(v, y)
      OBVIOUS
    <3>1. y \in s
      OBVIOUS
    <3>2. QED
      BY <3>1
  <2>2. QED
    BY <2>1 DEF Summing
<1>3. PICK g : g = CHOOSE h : Equation(h)
  OBVIOUS
<1> HIDE DEF Equation
<1>4. PICK h : Equation(h)
  BY <1>2, SummingIs
<1>5. Equation(g)
  BY <1>3, <1>4
<1>6. g[Sellers] = Cardinality(Units(Sellers, f))
  BY <1>2, <1>5, SummingIs
<1>7. QED
  BY <1>1, <1>3, <1>6 DEF Total

\* What is to be bought of some categories.
LEMMA Bought ==
  ASSUME NEW S, NEW f, f = [x \in S |-> x.toBuy], Counted(S, f)
  PROVE  ToBuy(S) = Total(S, f)
<1> DEFINE Equation(g) ==
             g = [s \in SUBSET S |->
                    IF s = {} THEN 0
                    ELSE (CHOOSE x \in s : TRUE).toBuy + g[s \ {CHOOSE x \in s : TRUE}]]
<1>1. ToBuy(S) = (CHOOSE g : Equation(g))[S]
  BY DEF ToBuy, MapThenSumSet, MapThenFoldSet
<1>2. ASSUME NEW g PROVE Equation(g) <=> Summing(g, S, f)
  <2>1. \A s \in SUBSET S : s # {} => f[CHOOSE x \in s : TRUE] = (CHOOSE x \in s : TRUE).toBuy
    <3> SUFFICES ASSUME NEW s \in SUBSET S, s # {}, NEW y, y = CHOOSE x \in s : TRUE
                 PROVE  f[y] = y.toBuy
      OBVIOUS
    <3>1. y \in s
      OBVIOUS
    <3>2. QED
      BY <3>1
  <2>2. QED
    BY <2>1 DEF Summing
<1>3. PICK g : g = CHOOSE h : Equation(h)
  OBVIOUS
<1> HIDE DEF Equation
<1>4. PICK h : Equation(h)
  BY <1>2, SummingIs
<1>5. Equation(g)
  BY <1>3, <1>4
<1>6. g[S] = Cardinality(Units(S, f))
  BY <1>2, <1>5, SummingIs
<1>7. QED
  BY <1>1, <1>3, <1>6 DEF Total

\* And how many days they last together.
LEMMA Lasting ==
  ASSUME NEW S, NEW f, f = [x \in S |-> x.coverage], Counted(S, f)
  PROVE  DaysCovered(S) = Total(S, f)
<1> DEFINE Equation(g) ==
             g = [s \in SUBSET S |->
                    IF s = {} THEN 0
                    ELSE (CHOOSE x \in s : TRUE).coverage + g[s \ {CHOOSE x \in s : TRUE}]]
<1>1. DaysCovered(S) = (CHOOSE g : Equation(g))[S]
  BY DEF DaysCovered, MapThenSumSet, MapThenFoldSet
<1>2. ASSUME NEW g PROVE Equation(g) <=> Summing(g, S, f)
  <2>1. \A s \in SUBSET S : s # {} => f[CHOOSE x \in s : TRUE] = (CHOOSE x \in s : TRUE).coverage
    <3> SUFFICES ASSUME NEW s \in SUBSET S, s # {}, NEW y, y = CHOOSE x \in s : TRUE
                 PROVE  f[y] = y.coverage
      OBVIOUS
    <3>1. y \in s
      OBVIOUS
    <3>2. QED
      BY <3>1
  <2>2. QED
    BY <2>1 DEF Summing
<1>3. PICK g : g = CHOOSE h : Equation(h)
  OBVIOUS
<1> HIDE DEF Equation
<1>4. PICK h : Equation(h)
  BY <1>2, SummingIs
<1>5. Equation(g)
  BY <1>3, <1>4
<1>6. g[S] = Cardinality(Units(S, f))
  BY <1>2, <1>5, SummingIs
<1>7. QED
  BY <1>1, <1>3, <1>6 DEF Total

-------------------------------------------------------------------------------
(* What the pages say *)

\* Parts of a list that have nothing in common, counted.
LEMMA PartsCounted ==
  ASSUME NEW n \in Nat, NEW A \in SUBSET (1..n), NEW B \in SUBSET (1..n), A \cap B = {}
  PROVE  /\ Cardinality(A) \in Nat /\ Cardinality(B) \in Nat
         /\ Cardinality(A \cup B) = Cardinality(A) + Cardinality(B)
         /\ Cardinality(1..n) = n
<1>1. IsFiniteSet(1..n) /\ Cardinality(1..n) = n
  BY FS_Interval
<1>2. IsFiniteSet(A) /\ IsFiniteSet(B)
  BY <1>1, FS_Subset
<1>3. Cardinality(A) \in Nat /\ Cardinality(B) \in Nat
  BY <1>2, FS_CardinalityType
<1>4. Cardinality(A \cup B) = Cardinality(A) + Cardinality(B) - Cardinality(A \cap B)
  BY <1>2, FS_Union
<1>5. Cardinality(A \cap B) = 0
  BY FS_EmptySet
<1>6. QED
  BY <1>1, <1>3, <1>4, <1>5

\* A part of a list has no more elements than what it is a part of.
LEMMA PartCounted ==
  ASSUME NEW n \in Nat, NEW A \in SUBSET (1..n), NEW B \in SUBSET A
  PROVE  /\ Cardinality(A) \in Nat /\ Cardinality(B) \in Nat /\ Cardinality(B) <= Cardinality(A)
         /\ (A = {} <=> Cardinality(A) = 0)
<1>1. IsFiniteSet(1..n)
  BY FS_Interval
<1>2. IsFiniteSet(A)
  BY <1>1, FS_Subset
<1>3. IsFiniteSet(B) /\ Cardinality(B) <= Cardinality(A)
  BY <1>2, FS_Subset
<1>4. QED
  BY <1>2, <1>3, FS_CardinalityType, FS_EmptySet

\* The products of the snapshot a view was read from.
LEMMA ProductsRead ==
  ASSUME Kept, ReadInv, NEW v \in View, view[v].at # 0
  PROVE  /\ AllProducts(view[v].at) \in Nat
         /\ DOMAIN snapshots[view[v].at].products = 1..AllProducts(view[v].at)
         /\ \A i \in 1..AllProducts(view[v].at) :
              /\ snapshots[view[v].at].products[i] \in Kind
              /\ snapshots[view[v].at].products[i].stock \in Int
              /\ snapshots[view[v].at].products[i].active \in BOOLEAN
<1>1. snapshots[view[v].at].products \in Seq(Kind)
  BY ReadFrom DEF SnapshotOK
<1>2. PICK s \in Seq(Kind) : s = snapshots[view[v].at].products
  BY <1>1
<1>3. /\ Len(s) \in Nat /\ DOMAIN s = 1..Len(s) /\ \A i \in 1..Len(s) : s[i] \in Kind
  BY LenProperties, ElementOfSeq
<1>4. \A k \in Kind : k.stock \in Int /\ k.active \in BOOLEAN
  BY ViewsAssumption
<1>5. QED
  BY <1>2, <1>3, <1>4 DEF AllProducts

\* What a marketplace of a view that succeeded earned is a number, and more than nothing.
LEMMA SellersEarn ==
  ASSUME Kept, ReadInv, view["marketplace"].status = "success"
  PROVE  /\ IsFiniteSet(Sellers) /\ view["marketplace"].at # 0
         /\ \A m \in Sellers : Revenue(view["marketplace"], m) \in Nat \ {0}
<1>1. "marketplace" \in View
  BY DEF View
<1>2. view["marketplace"].at # 0
  BY <1>1 DEF ReadInv
<1>3. PICK v : v = view["marketplace"]
  OBVIOUS
<1>4. PICK s : s = snapshots[v.at]
  OBVIOUS
<1>5. SnapshotOK(s) /\ v.of \in Window
  BY <1>1, <1>2, <1>3, <1>4, ReadFrom
<1>6. Sellers = {m \in Marketplace : s.revenue[v.of][m] > 0}
  BY <1>2, <1>3, <1>4 DEF Sellers, SellersIn
<1>7. \A m \in Marketplace : s.revenue[v.of][m] \in Nat
  BY <1>5 DEF SnapshotOK
<1>8. \A m \in Sellers : Revenue(v, m) \in Nat \ {0}
  BY <1>4, <1>6, <1>7 DEF Revenue
<1>9. IsFiniteSet(Sellers)
  <2>1. Sellers \in SUBSET Marketplace
    BY <1>6
  <2>2. QED
    BY <2>1, FS_Subset, ViewsAssumption
<1>10. QED
  BY <1>2, <1>3, <1>8, <1>9

\* The dashboard.
LEMMA DashboardIsAgreed ==
  ASSUME Kept, ReadInv
  PROVE  DashboardAgrees
<1>1. PICK v : v = view["marketplace"]
  OBVIOUS
<1>2. ASSUME view["products"].at = view["command"].at, Success("products")
      PROVE  "restock" \in DashboardFigures.alerts <=> DashboardFigures.outOfStock > 0
  <2>1. PICK at : at = view["products"].at /\ at = view["command"].at
    BY <1>2
  <2>2. PICK n : n = Count(at, LAMBDA k : k.stock <= 0)
    OBVIOUS
  <2>3. DashboardFigures.outOfStock = n
    BY <1>2, <2>1, <2>2 DEF DashboardFigures, CatalogueFigures, Count
  <2>4. "restock" \in DashboardFigures.alerts <=> n > 0
    BY <1>2, <2>1, <2>2 DEF DashboardFigures, Commands, Some, Count
  <2>5. QED
    BY <2>3, <2>4
<1>3. CASE Success("marketplace")
  <2>1. /\ IsFiniteSet(Sellers) /\ v.at # 0
        /\ \A m \in Sellers : Revenue(v, m) \in Nat \ {0}
    BY <1>1, <1>3, SellersEarn DEF Success
  <2>2. /\ DashboardFigures.leader = Leaders(v) /\ DashboardFigures.revenue = TotalRevenue(v)
        /\ DashboardFigures.top =
             {m \in Sellers : Cardinality({n \in Sellers : Revenue(v, n) > Revenue(v, m)}) < 5}
    BY <1>1, <1>3 DEF DashboardFigures
  <2>3. ASSUME NEW m \in Leaders(v)
        PROVE  m \in Sellers /\ Cardinality({n \in Sellers : Revenue(v, n) > Revenue(v, m)}) < 5
    <3>1. m \in Sellers /\ \A n \in Sellers : ~(Revenue(v, n) > Revenue(v, m))
      BY <2>1 DEF Leaders
    <3>2. {n \in Sellers : Revenue(v, n) > Revenue(v, m)} = {}
      BY <3>1
    <3>3. QED
      BY <3>1, <3>2, FS_EmptySet
  <2>4. PICK f : f = [m \in Sellers |-> Revenue(v, m)]
    OBVIOUS
  <2>5. Counted(Sellers, f) /\ \A m \in Sellers : f[m] \in Int /\ f[m] # 0
    BY <2>1, <2>4 DEF Counted
  <2>6. TotalRevenue(v) = Total(Sellers, f)
    BY <2>4, <2>5, Earned
  <2>7. TotalRevenue(v) = 0 <=> Sellers = {}
    <3>1. Total(Sellers, f) = 0 <=> \A m \in Sellers : f[m] = 0
      <4>1. 0 \in Nat
        OBVIOUS
      <4>2. QED
        BY <2>5, <4>1, TotalBounds
    <3>2. QED
      BY <2>5, <2>6, <3>1
  <2>8. Leaders(v) = {} <=> Sellers = {}
    <3>1. ASSUME Sellers # {} PROVE Leaders(v) # {}
      <4>1. PICK m \in Sellers : \A n \in Sellers : f[n] <= f[m]
        BY <2>1, <2>5, <3>1, Greatest
      <4>2. \A n \in Sellers : Revenue(v, m) >= Revenue(v, n)
        BY <2>1, <2>4, <4>1
      <4>3. QED
        BY <4>2 DEF Leaders
    <3>2. Leaders(v) \subseteq Sellers
      BY DEF Leaders
    <3>3. QED
      BY <3>1, <3>2
  <2>9. DashboardFigures.leader \subseteq DashboardFigures.top
    BY <2>2, <2>3
  <2>10. DashboardFigures.leader = {} <=> DashboardFigures.revenue = 0
    BY <2>2, <2>7, <2>8
  <2>11. QED
    BY <1>2, <2>9, <2>10 DEF DashboardAgrees
<1>4. CASE ~Success("marketplace")
  <2>1. DashboardFigures.leader = {} /\ DashboardFigures.revenue = 0
    BY <1>4 DEF DashboardFigures
  <2>2. QED
    BY <1>2, <2>1 DEF DashboardAgrees
<1>5. QED
  BY <1>3, <1>4

\* What is in stock, what is out of it and what of that is active, of a snapshot.
LEMMA StockCounted ==
  ASSUME Kept, ReadInv, NEW v \in View, view[v].at # 0
  PROVE  /\ InventoryFigures(view[v].at).inStock \in Nat
         /\ InventoryFigures(view[v].at).critical \in Nat
         /\ CatalogueFigures(view[v].at).outOfStock \in Nat
         /\ InventoryFigures(view[v].at).critical <= CatalogueFigures(view[v].at).outOfStock
         /\ InventoryFigures(view[v].at).inStock + CatalogueFigures(view[v].at).outOfStock
              = AllProducts(view[v].at)
         /\ CatalogueFigures(view[v].at).total = AllProducts(view[v].at)
<1>1. PICK at : at = view[v].at
  OBVIOUS
<1>2. PICK s : s = snapshots[at].products
  OBVIOUS
<1>3. PICK n \in Nat : n = AllProducts(at)
  BY <1>1, ProductsRead
<1>4. /\ DOMAIN s = 1..n
      /\ \A i \in 1..n : s[i].stock \in Int /\ s[i].active \in BOOLEAN
  BY <1>1, <1>2, <1>3, ProductsRead
<1>5. PICK In : In = {i \in 1..n : s[i].stock > 0}
  OBVIOUS
<1>6. PICK Out : Out = {i \in 1..n : s[i].stock <= 0}
  OBVIOUS
<1>7. PICK Gone : Gone = {i \in 1..n : s[i].stock <= 0 /\ s[i].active}
  OBVIOUS
<1>8. InventoryFigures(at).inStock = Cardinality(In)
  BY <1>2, <1>4, <1>5 DEF InventoryFigures, Count, HasStock
<1>9. InventoryFigures(at).critical = Cardinality(Gone)
  BY <1>2, <1>4, <1>7 DEF InventoryFigures, Count
<1>10. CatalogueFigures(at).outOfStock = Cardinality(Out)
  BY <1>2, <1>4, <1>6 DEF CatalogueFigures, Count
<1>11. CatalogueFigures(at).total = n
  BY <1>3 DEF CatalogueFigures
<1>12. /\ Cardinality(In) \in Nat /\ Cardinality(Out) \in Nat
       /\ Cardinality(In \cup Out) = Cardinality(In) + Cardinality(Out) /\ Cardinality(1..n) = n
  <2>1. In \in SUBSET (1..n) /\ Out \in SUBSET (1..n) /\ In \cap Out = {}
    BY <1>4, <1>5, <1>6
  <2>2. QED
    BY <2>1, PartsCounted
<1>13. In \cup Out = 1..n
  BY <1>4, <1>5, <1>6
<1>14. Cardinality(Gone) \in Nat /\ Cardinality(Gone) <= Cardinality(Out)
  <2>1. Out \in SUBSET (1..n) /\ Gone \in SUBSET Out
    BY <1>6, <1>7
  <2>2. QED
    BY <2>1, PartCounted
<1>15. QED
  BY <1>1, <1>3, <1>8, <1>9, <1>10, <1>11, <1>12, <1>13, <1>14

\* The copilot.
LEMMA CopilotIsAgreed ==
  ASSUME Kept, ReadInv
  PROVE  CopilotAgrees
<1> DEFINE areas == {"marketplace", "finance", "stock", "sales"}
<1>1. DOMAIN AreaHealth \subseteq areas
  BY DEF AreaHealth
<1>2. Highlights \cap areas = {a \in DOMAIN AreaHealth : AreaHealth[a] >= 70}
  BY <1>1 DEF Highlights, Some
<1>3. Alerts \cap areas = {a \in DOMAIN AreaHealth : AreaHealth[a] < 70}
  BY <1>1 DEF Alerts, Some
<1>4. /\ SummaryBar.good = Cardinality(Highlights \cap areas)
      /\ SummaryBar.bad = Cardinality(Alerts \cap areas)
  BY <1>2, <1>3 DEF SummaryBar
<1>5. ASSUME Success("products"), Success("inventory"),
             view["products"].at = view["inventory"].at
      PROVE  /\ "out of stock" \in Alerts => "catalogue out of stock" \in Alerts
             /\ InventoryFigures(view["inventory"].at).inStock
                  + CatalogueFigures(view["products"].at).outOfStock
                  = CatalogueFigures(view["products"].at).total
  <2>1. "products" \in View /\ view["products"].at # 0
    BY <1>5 DEF View, ReadInv, Success
  <2>2. PICK at : at = view["products"].at /\ at = view["inventory"].at
    BY <1>5
  <2>3. /\ InventoryFigures(at).critical \in Nat /\ CatalogueFigures(at).outOfStock \in Nat
        /\ InventoryFigures(at).critical <= CatalogueFigures(at).outOfStock
        /\ InventoryFigures(at).inStock + CatalogueFigures(at).outOfStock = CatalogueFigures(at).total
    BY <2>1, <2>2, StockCounted
  <2>4. InventoryFigures(at).critical > 0 => CatalogueFigures(at).outOfStock > 0
    BY <2>3
  <2>5. "out of stock" \in Alerts => InventoryFigures(at).critical > 0
    <3>1. "out of stock" \notin DOMAIN AreaHealth
      BY <1>1
    <3>2. QED
      BY <2>2, <3>1 DEF Alerts, Some
  <2>6. CatalogueFigures(at).outOfStock > 0 => "catalogue out of stock" \in Alerts
    BY <1>5, <2>2 DEF Alerts, Some
  <2>7. QED
    BY <2>2, <2>3, <2>4, <2>5, <2>6
<1>6. QED
  BY <1>4, <1>5 DEF CopilotAgrees

\* The page of the sales.
LEMMA SalesIsAgreed ==
  ASSUME Kept, ReadInv
  PROVE  SalesAgrees
<1> SUFFICES ASSUME NEW at, NEW p
             PROVE  /\ SalesPage(at, p).insights.conversion = "danger"
                         <=> "review-products" \in SalesPage(at, p).advice
                    /\ SalesPage(at, p).insights.health = "success" => SalesPage(at, p).orders > 0
  BY DEF SalesAgrees
<1>1. SalesPage(at, p).insights.conversion = "danger"
  BY DEF SalesPage, SalesInsights, ConversionRate
<1>2. "review-products" \in SalesPage(at, p).advice
  BY DEF SalesPage, SalesAdvice, ConversionRate, Some, Unless
<1>3. SalesPage(at, p).insights.health = "success" => SalesHealth(at, p) >= 80
  BY DEF SalesPage, SalesInsights
<1>4. SalesHealth(at, p) >= 80 => snapshots[at].orders[p].total > 0
  BY DEF SalesHealth
<1>5. SalesPage(at, p).orders = snapshots[at].orders[p].total
  BY DEF SalesPage
<1>6. QED
  BY <1>1, <1>2, <1>3, <1>4, <1>5

\* The page of the inventory.
LEMMA InventoryIsAgreed ==
  ASSUME Kept, ReadInv
  PROVE  InventoryAgrees
<1> SUFFICES ASSUME InventoryScreen = "content"
             PROVE  InventoryPage(view["inventory"].at).inStock + InventoryPage(view["inventory"].at).critical
                      + InventoryPage(view["inventory"].at).withoutStock
                      <= AllProducts(view["inventory"].at)
  BY DEF InventoryAgrees, ScreenOf
<1>1. "inventory" \in View
  BY DEF View
<1>2. view["inventory"].status = "success"
  <2>1. view["inventory"].status \in {"loading", "error", "empty", "success"}
    BY <1>1, InFlight DEF Kept, Data
  <2>2. QED
    BY <2>1 DEF InventoryScreen, Screen
<1>3. PICK at : at = view["inventory"].at /\ at # 0
  BY <1>1, <1>2 DEF ReadInv
<1>4. /\ InventoryPage(at).inStock = InventoryFigures(at).inStock
      /\ InventoryPage(at).critical = InventoryFigures(at).critical
      /\ InventoryPage(at).withoutStock = 0
  BY DEF InventoryPage, WithoutTurnover
<1>5. /\ InventoryFigures(at).inStock \in Nat /\ InventoryFigures(at).critical \in Nat
      /\ CatalogueFigures(at).outOfStock \in Nat
      /\ InventoryFigures(at).critical <= CatalogueFigures(at).outOfStock
      /\ InventoryFigures(at).inStock + CatalogueFigures(at).outOfStock = AllProducts(at)
  BY <1>1, <1>3, StockCounted
<1>6. QED
  BY <1>3, <1>4, <1>5

\* The page of finance.
LEMMA FinanceIsAgreed == FinanceAgrees
<1> SUFFICES ASSUME NEW f \in Finance
             PROVE  /\ "recover-margin" \in FinancialAdvice(f)
                         <=> FinancialInsights(f).margin = "recover-margin"
                    /\ f.margin # 15 =>
                         (FinancialTrends(f).margin = "falling" <=> "recover-margin" \in FinancialAdvice(f))
                    /\ "contain-expenses" \in FinancialAdvice(f) =>
                         /\ FinancialTrends(f).revenue = "falling"
                         /\ FinancialInsights(f).growth = "review-expenses"
                    /\ FinancialAdvice(f) = {"keep"} => HealthLabel(f.health) \in {"excellent", "good"}
  BY DEF FinanceAgrees, FinancialPage
<1>1. PICK g \in Int, m \in Int, h \in 0..100 : f.growth = g /\ f.margin = m /\ f.health = h
  BY AdviceAssumption
<1>2. PICK some : some = Some("review-costs", h < 70) \cup Some("recover-margin", m < 15)
                           \cup Some("reinvest", g > 150) \cup Some("contain-expenses", g < -50)
  OBVIOUS
<1>3. FinancialAdvice(f) = IF some = {} THEN {"keep"} ELSE some
  BY <1>1, <1>2 DEF FinancialAdvice, Unless
<1>4. "recover-margin" \in FinancialAdvice(f) <=> m < 15
  <2>1. "recover-margin" \in some <=> m < 15
    BY <1>2 DEF Some
  <2>2. QED
    BY <1>3, <2>1
<1>5. "contain-expenses" \in FinancialAdvice(f) => g < -50
  <2>1. "contain-expenses" \in some => g < -50
    BY <1>2 DEF Some
  <2>2. QED
    BY <1>3, <2>1
<1>6. FinancialAdvice(f) = {"keep"} => h >= 70
  <2>1. h < 70 => "review-costs" \in some
    BY <1>2 DEF Some
  <2>2. QED
    BY <1>1, <1>3, <2>1
<1>7. FinancialInsights(f).margin = "recover-margin" <=> m < 15
  BY <1>1 DEF FinancialInsights
<1>8. g < 0 => FinancialInsights(f).growth = "review-expenses"
  BY <1>1 DEF FinancialInsights
<1>9. /\ FinancialTrends(f).margin = "falling" <=> m <= 15
      /\ g < 0 => FinancialTrends(f).revenue = "falling"
  BY <1>1 DEF FinancialTrends, Trend
<1>10. h >= 70 => HealthLabel(h) \in {"excellent", "good"}
  BY <1>1 DEF HealthLabel
<1>11. QED
  BY <1>1, <1>4, <1>5, <1>6, <1>7, <1>8, <1>9, <1>10

\* Division with a rest.
LEMMA Divided ==
  ASSUME NEW n \in Int, NEW d \in Nat \ {0}
  PROVE  n \div d \in Int /\ n % d \in 0..(d - 1) /\ n = d * (n \div d) + (n % d)
OBVIOUS

\* A mean of so many numbers lies, rounded, between the whole numbers they lie between.
LEMMA MeanBetween ==
  ASSUME NEW t \in Nat, NEW c \in Nat \ {0}, NEW k \in Nat
  PROVE  /\ Round(t, c) \in Int
         /\ t >= c * k => Round(t, c) >= k
         /\ t <= c * k => Round(t, c) <= k
<1>1. PICK q \in Int, r \in 0..(2 * c - 1) : /\ q = (2 * t + c) \div (2 * c)
                                             /\ 2 * t + c = (2 * c) * q + r
  <2>1. 2 * t + c \in Int /\ 2 * c \in Nat \ {0}
    OBVIOUS
  <2>2. PICK n \in Int, d \in Nat \ {0} : n = 2 * t + c /\ d = 2 * c
    BY <2>1
  <2>3. n \div d \in Int /\ n % d \in 0..(d - 1) /\ n = d * (n \div d) + (n % d)
    BY Divided
  <2>4. QED
    BY <2>2, <2>3
<1>2. Round(t, c) = q
  BY <1>1 DEF Round
<1>3. PICK cq \in Int : cq = c * q /\ (2 * c) * q = 2 * cq
  OBVIOUS
<1>4. PICK ck \in Nat : ck = c * k
  OBVIOUS
<1>5. ASSUME t >= ck PROVE q >= k
  <2> SUFFICES ASSUME q < k PROVE FALSE
    OBVIOUS
  <2>1. PICK e \in Nat : k = q + 1 + e
    <3>1. k - q - 1 \in Nat /\ k = q + 1 + (k - q - 1)
      OBVIOUS
    <3>2. QED
      BY <3>1
  <2>2. ck = cq + c + c * e /\ c * e \in Nat
    BY <1>3, <1>4, <2>1
  <2>3. QED
    BY <1>1, <1>3, <1>5, <2>2
<1>6. ASSUME t <= ck PROVE q <= k
  <2> SUFFICES ASSUME q > k PROVE FALSE
    OBVIOUS
  <2>1. PICK e \in Nat : q = k + 1 + e
    <3>1. q - k - 1 \in Nat /\ q = k + 1 + (q - k - 1)
      OBVIOUS
    <3>2. QED
      BY <3>1
  <2>2. cq = ck + c + c * e /\ c * e \in Nat
    BY <1>3, <1>4, <2>1
  <2>3. QED
    BY <1>1, <1>3, <1>6, <2>2
<1>7. QED
  BY <1>2, <1>4, <1>5, <1>6

\* What there is to know of the data of purchasing.
LEMMA PurchasesKnown ==
  ASSUME NEW p \in Purchases, NEW S \in SUBSET p.categories
  PROVE  /\ IsFiniteSet(p.categories) /\ IsFiniteSet(S)
         /\ \A c \in p.categories : c.toBuy \in Nat /\ c.investment \in Nat /\ c.coverage \in Nat
         /\ Counted(S, [c \in S |-> c.toBuy]) /\ Counted(S, [c \in S |-> c.coverage])
<1>1. IsFiniteSet(p.categories)
  BY AdviceAssumption
<1>2. IsFiniteSet(S)
  BY <1>1, FS_Subset
<1>3. ASSUME NEW c \in p.categories
      PROVE  c.toBuy \in Nat /\ c.investment \in Nat /\ c.coverage \in Nat
  <2>1. {c.toBuy, c.investment, c.coverage} \subseteq Nat
    BY AdviceAssumption
  <2>2. QED
    BY <2>1
<1>4. QED
  BY <1>1, <1>2, <1>3 DEF Counted

\* The mean coverage is borne out by the categories.
LEMMA CoverageBorne ==
  ASSUME NEW p \in Purchases, p.categories # {}
  PROVE  /\ PurchasingSummary(p).risk \in {"high", "critical"} => CoverageBelow(p, 10) # {}
         /\ PurchasingSummary(p).risk = "low" => CoverageAbove(p, 14) # {}
<1>1. PICK S : S = p.categories
  OBVIOUS
<1>2. PICK f : f = [c \in S |-> c.coverage]
  OBVIOUS
<1>3. IsFiniteSet(S) /\ Counted(S, f) /\ \A c \in S : c.coverage \in Nat
  BY <1>1, <1>2, PurchasesKnown
<1>4. DaysCovered(S) = Total(S, f)
  BY <1>2, <1>3, Lasting
<1>5. PICK c \in Nat \ {0} : c = Cardinality(S)
  BY <1>1, <1>3, FS_EmptySet, FS_CardinalityType
<1>6. PICK t \in Nat : t = Total(S, f)
  <2>1. 0 \in Nat
    OBVIOUS
  <2>2. QED
    BY <1>3, <2>1, TotalBounds
<1>7. PICK q \in Int : q = Round(t, c)
  <2>1. 0 \in Nat
    OBVIOUS
  <2>2. QED
    BY <2>1, MeanBetween
<1>8. PurchasingSummary(p).risk =
        IF q >= 15 THEN "low" ELSE IF q >= 8 THEN "moderate" ELSE IF q >= 5 THEN "high" ELSE "critical"
  BY <1>1, <1>4, <1>5, <1>6, <1>7 DEF PurchasingSummary
<1>9. CoverageBelow(p, 10) = {} => q >= 10
  <2> SUFFICES ASSUME CoverageBelow(p, 10) = {} PROVE q >= 10
    OBVIOUS
  <2>1. \A x \in S : f[x] >= 10
    BY <1>1, <1>2, <1>3 DEF CoverageBelow
  <2>2. 10 \in Nat
    OBVIOUS
  <2>3. t >= c * 10
    BY <1>3, <1>5, <1>6, <2>1, <2>2, TotalBounds
  <2>4. QED
    BY <1>7, <2>2, <2>3, MeanBetween
<1>10. CoverageAbove(p, 14) = {} => q <= 14
  <2> SUFFICES ASSUME CoverageAbove(p, 14) = {} PROVE q <= 14
    OBVIOUS
  <2>1. \A x \in S : f[x] <= 14
    BY <1>1, <1>2, <1>3 DEF CoverageAbove
  <2>2. 14 \in Nat
    OBVIOUS
  <2>3. t <= c * 14
    BY <1>3, <1>5, <1>6, <2>1, <2>2, TotalBounds
  <2>4. QED
    BY <1>7, <2>2, <2>3, MeanBetween
<1>11. QED
  BY <1>8, <1>9, <1>10

\* The categories named for an urgent order, and for an excess, are there.
LEMMA NamedOnes ==
  ASSUME NEW p \in Purchases
  PROVE  /\ PurchasingInsights(p).urgent # {} <=> ToBuy(Priority(p)) > 0
         /\ ToBuy(Priority(p)) > 0 => Priority(p) # {}
         /\ CoverageAbove(p, 25) # {} => PurchasingInsights(p).excess # {}
         /\ PurchasingInsights(p).excess \subseteq CoverageAbove(p, 20)
         /\ PurchasingInsights(p).coverage \subseteq CoverageBelow(p, 10)
         /\ PurchasingInsights(p).suppliers \subseteq Unreliable(p)
<1>1. PICK S : S = Priority(p) /\ S \in SUBSET p.categories
  BY DEF Priority
<1>2. PICK f : f = [c \in S |-> c.toBuy]
  OBVIOUS
<1>3. /\ IsFiniteSet(S) /\ Counted(S, f)
      /\ \A c \in p.categories : c.investment \in Nat /\ c.coverage \in Nat
  BY <1>1, <1>2, PurchasesKnown
<1>4. ToBuy(S) = Total(S, f)
  BY <1>2, <1>3, Bought
<1>5. Total(S, f) > 0 => S # {}
  <2>1. Total(S, f) = 0 <=> \A x \in S : f[x] = 0
    <3>1. 0 \in Nat
      OBVIOUS
    <3>2. QED
      BY <1>3, <3>1, TotalBounds
  <2>2. QED
    BY <2>1
<1>6. ASSUME S # {}
      PROVE  Least(S, LAMBDA c : -c.investment) # {}
  <2>1. PICK g : g = [c \in S |-> c.investment]
    OBVIOUS
  <2>2. \A c \in S : g[c] \in Int
    BY <1>1, <1>3, <2>1
  <2>3. PICK x \in S : \A y \in S : g[y] <= g[x]
    BY <1>3, <1>6, <2>2, Greatest
  <2>4. \A y \in S : -x.investment <= -y.investment
    BY <1>1, <1>3, <2>1, <2>3
  <2>5. QED
    BY <2>4 DEF Least
<1>7. PICK E : E = CoverageAbove(p, 20) /\ E \in SUBSET p.categories
  BY DEF CoverageAbove
<1>8. ASSUME E # {}
      PROVE  Least(E, LAMBDA c : -c.coverage) # {}
  <2>1. PICK g : g = [c \in E |-> c.coverage]
    OBVIOUS
  <2>2. IsFiniteSet(E) /\ \A c \in E : g[c] \in Int
    <3>1. IsFiniteSet(E)
      BY <1>7, PurchasesKnown
    <3>2. \A c \in E : c.coverage \in Nat
      BY <1>3, <1>7
    <3>3. QED
      BY <2>1, <3>1, <3>2
  <2>3. PICK x \in E : \A y \in E : g[y] <= g[x]
    BY <1>8, <2>2, Greatest
  <2>4. \A y \in E : -x.coverage <= -y.coverage
    BY <1>3, <1>7, <2>1, <2>3
  <2>5. QED
    BY <2>4 DEF Least
<1>9. CoverageAbove(p, 25) \subseteq E
  BY <1>3, <1>7 DEF CoverageAbove
<1>10. PurchasingInsights(p).urgent =
         IF ToBuy(S) > 0 THEN Least(S, LAMBDA c : -c.investment) ELSE {}
  BY <1>1 DEF PurchasingInsights
<1>11. PurchasingInsights(p).excess = Least(E, LAMBDA c : -c.coverage)
  BY <1>7 DEF PurchasingInsights
<1>12. PurchasingInsights(p).excess \subseteq E
  BY <1>11 DEF Least
<1>13. PurchasingInsights(p).coverage \subseteq CoverageBelow(p, 10)
  BY DEF PurchasingInsights, Least
<1>14. PurchasingInsights(p).suppliers \subseteq Unreliable(p)
  BY DEF PurchasingInsights, Least
<1>15. QED
  BY <1>1, <1>4, <1>5, <1>6, <1>7, <1>8, <1>9, <1>10, <1>11, <1>12, <1>13, <1>14

\* What purchasing advises.
LEMMA PurchasingAdvises ==
  ASSUME NEW p
  PROVE  /\ "urgent-orders" \in PurchasingAdvice(p) <=> Priority(p) # {}
         /\ "raise-safety-stock" \in PurchasingAdvice(p) <=> CoverageBelow(p, 10) # {}
         /\ "review-excess" \in PurchasingAdvice(p) <=> CoverageAbove(p, 25) # {}
         /\ PurchasingAdvice(p) = {"keep"} => CoverageBelow(p, 10) = {} /\ Unreliable(p) = {}
<1>1. PICK depends \in BOOLEAN : depends = \E s \in p.suppliers : s.share > 30
  OBVIOUS
<1>2. PICK some : some = Some("urgent-orders", Priority(p) # {})
           \cup Some("raise-safety-stock", CoverageBelow(p, 10) # {})
           \cup Some("review-excess", CoverageAbove(p, 25) # {})
           \cup Some("assess-suppliers", Unreliable(p) # {})
           \cup Some("depend-less", depends)
  OBVIOUS
<1>3. PurchasingAdvice(p) = IF some = {} THEN {"keep"} ELSE some
  BY <1>1, <1>2 DEF PurchasingAdvice, Unless
<1>4. /\ "urgent-orders" \in some <=> Priority(p) # {}
      /\ "raise-safety-stock" \in some <=> CoverageBelow(p, 10) # {}
      /\ "review-excess" \in some <=> CoverageAbove(p, 25) # {}
      /\ "assess-suppliers" \in some <=> Unreliable(p) # {}
  BY <1>2 DEF Some
<1>5. QED
  BY <1>3, <1>4

\* The page of purchasing.
LEMMA PurchasingIsAgreed == PurchasingAgrees
<1> SUFFICES ASSUME NEW p \in Purchases, p.categories # {}
             PROVE  /\ PurchasingSummary(p).risk \in {"high", "critical"} =>
                         "raise-safety-stock" \in PurchasingAdvice(p)
                    /\ PurchasingSummary(p).risk = "low" => CoverageAbove(p, 14) # {}
                    /\ PurchasingSummary(p).priority # "low" <=> PurchasingInsights(p).urgent # {}
                    /\ PurchasingInsights(p).urgent # {} => "urgent-orders" \in PurchasingAdvice(p)
                    /\ "review-excess" \in PurchasingAdvice(p) =>
                         /\ PurchasingInsights(p).excess # {}
                         /\ PurchasingInsights(p).excess \cap PurchasingInsights(p).coverage = {}
                    /\ PurchasingAdvice(p) = {"keep"} =>
                         /\ PurchasingInsights(p).coverage = {} /\ PurchasingInsights(p).suppliers = {}
                         /\ PurchasingSummary(p).risk \in {"low", "moderate"}
  BY DEF PurchasingAgrees, PurchasingPage, PurchasingScreen, Screen
<1>1. /\ PurchasingSummary(p).risk \in {"high", "critical"} => CoverageBelow(p, 10) # {}
      /\ PurchasingSummary(p).risk = "low" => CoverageAbove(p, 14) # {}
  BY CoverageBorne
<1>2. PurchasingSummary(p).priority # "low" <=> ToBuy(Priority(p)) > 0
  <2>1. PICK critical : critical = ToBuy(Priority(p))
    OBVIOUS
  <2>2. PurchasingSummary(p).priority =
          IF critical > 2 THEN "high" ELSE IF critical > 0 THEN "medium" ELSE "low"
    BY <2>1 DEF PurchasingSummary
  <2>3. critical \in Nat
    <3>1. PICK S : S = Priority(p) /\ S \in SUBSET p.categories
      BY DEF Priority
    <3>2. PICK f : f = [c \in S |-> c.toBuy]
      OBVIOUS
    <3>3. Counted(S, f) /\ 0 \in Nat
      BY <3>1, <3>2, PurchasesKnown
    <3>4. QED
      BY <2>1, <3>1, <3>2, <3>3, Bought, TotalBounds
  <2>4. QED
    BY <2>1, <2>2, <2>3
<1>3. CoverageAbove(p, 20) \cap CoverageBelow(p, 10) = {}
  <2>1. \A c \in p.categories : c.coverage \in Nat
    BY PurchasesKnown
  <2>2. QED
    BY <2>1 DEF CoverageAbove, CoverageBelow
<1>4. PurchasingSummary(p).risk \in {"low", "moderate", "high", "critical"}
  BY DEF PurchasingSummary
<1>5. QED
  BY <1>1, <1>2, <1>3, <1>4, NamedOnes, PurchasingAdvises

\* The end of an interval is told by the interval.
LEMMA SameEnd ==
  ASSUME NEW a \in Nat, NEW b \in Nat, 1..a = 1..b
  PROVE  a = b
<1>1. ASSUME NEW c \in Nat PROVE Cardinality(1..c) = c
  <2>1. 1 \in Int /\ c \in Int
    OBVIOUS
  <2>2. Cardinality(1..c) = IF 1 > c THEN 0 ELSE c - 1 + 1
    BY <2>1, FS_Interval
  <2>3. QED
    BY <2>2
<1>2. Cardinality(1..a) = a /\ Cardinality(1..b) = b
  BY <1>1
<1>3. QED
  BY <1>2

\* What passes a filter, counted.
LEMMA FilteredCounted ==
  ASSUME NEW items, NEW n \in Nat, DOMAIN items = 1..n, NEW f
  PROVE  Len(Filtered(items, f)) = Cardinality({i \in 1..n : Passes(items[i], f)})
<1> DEFINE at == {i \in 1..n : Passes(items[i], f)}
           kept == Filtered(items, f)
           S == {kept[i] : i \in DOMAIN kept}
<1>1. PICK c \in Nat : c = Cardinality(at)
  <2>1. IsFiniteSet(1..n) /\ at \in SUBSET (1..n)
    BY FS_Interval
  <2>2. IsFiniteSet(at)
    BY <2>1, FS_Subset
  <2>3. QED
    BY <2>2, FS_CardinalityType
<1>2. kept = [i \in 1..c |-> kept[i]]
  BY <1>1 DEF Filtered, Picked
<1> HIDE DEF kept
<1>3. \A i \in 1..c : kept[i] \in S
  BY <1>2
<1> HIDE DEF S
<1>4. kept \in Seq(S)
  BY <1>2, <1>3, IsASeq
<1>5. DOMAIN kept = 1..Len(kept) /\ Len(kept) \in Nat
  BY <1>4, LenProperties
<1>6. 1..c = 1..Len(kept)
  BY <1>2, <1>5
<1>7. Len(kept) = c
  BY <1>5, <1>6, SameEnd
<1>8. QED
  BY <1>1, <1>7 DEF kept

\* The products shown are those of the snapshot, but for their brands.
LEMMA ItemsAre ==
  ASSUME Kept, ReadInv, ProductsScreen = "content"
  PROVE  /\ view["products"].at # 0
         /\ Items \in Seq({CatalogItem(k) : k \in Kind})
         /\ Len(Items) = AllProducts(view["products"].at) /\ Len(Items) \in Nat
         /\ DOMAIN Items = 1..Len(Items)
         /\ \A i \in 1..Len(Items) :
              LET k == snapshots[view["products"].at].products[i]
              IN /\ Items[i] = CatalogItem(k) /\ k \in Kind
                 /\ Items[i].stock = k.stock /\ Items[i].stock \in Int
                 /\ Items[i].active = k.active /\ Items[i].active \in BOOLEAN
<1>1. PICK at : at = view["products"].at
  OBVIOUS
<1>2. at # 0
  BY <1>1 DEF ProductsScreen, Screen, Items
<1>3. "products" \in View
  BY DEF View
<1>4. PICK s : s = snapshots[at].products
  OBVIOUS
<1>5. PICK n \in Nat : n = AllProducts(at)
  BY <1>1, <1>2, <1>3, ProductsRead
<1>6. DOMAIN s = 1..n /\ \A i \in 1..n : s[i] \in Kind
  BY <1>1, <1>2, <1>3, <1>4, <1>5, ProductsRead
<1>7. Items = [i \in 1..n |-> CatalogItem(s[i])]
  BY <1>1, <1>2, <1>4, <1>6 DEF Items
<1>8. ASSUME NEW k \in Kind
      PROVE  /\ CatalogItem(k).stock = k.stock /\ k.stock \in Int
             /\ CatalogItem(k).active = k.active /\ k.active \in BOOLEAN
  <2>1. /\ k.active \in BOOLEAN /\ k.stock \in Int
        /\ {"active", "stock", "brand"} = DOMAIN k
    BY ViewsAssumption
  <2>2. QED
    BY <2>1 DEF CatalogItem
<1>9. Items \in Seq({CatalogItem(k) : k \in Kind})
  <2>1. \A i \in 1..n : CatalogItem(s[i]) \in {CatalogItem(k) : k \in Kind}
    BY <1>6
  <2>2. PICK T : T = {CatalogItem(k) : k \in Kind}
    OBVIOUS
  <2>3. \A i \in 1..n : CatalogItem(s[i]) \in T
    BY <2>1, <2>2
  <2>4. Items \in Seq(T)
    BY <1>7, <2>3, IsASeq
  <2>5. QED
    BY <2>2, <2>4
<1>10. Len(Items) = n
  <2>1. PICK T : Items \in Seq(T)
    BY <1>9
  <2>2. DOMAIN Items = 1..Len(Items) /\ Len(Items) \in Nat
    BY <2>1, LenProperties
  <2>3. DOMAIN Items = 1..n
    BY <1>7
  <2>4. QED
    BY <2>2, <2>3, SameEnd
<1>11. \A i \in 1..n : Items[i] = CatalogItem(s[i])
  BY <1>7
<1>12. DOMAIN Items = 1..n
  BY <1>7
<1>13. QED
  BY <1>1, <1>2, <1>4, <1>5, <1>6, <1>8, <1>9, <1>10, <1>11, <1>12

\* The values of g; the places of those up to a, in a range, and above a; the range of
\* those above a and up to b.
Whole(g, n)        == \A i \in 1..n : g[i] \in Int
AtMost(g, n, a)    == {i \in 1..n : g[i] <= a}
Within(g, n, a, b) == {i \in 1..n : g[i] \in a..b}
Adjoins(a, c, b)   == a \in Int /\ b \in Int /\ c \in Int /\ a <= b /\ c = a + 1
Above(g, n, a)     == {i \in 1..n : g[i] > a}

\* A range of values is counted by the values below its ends.
LEMMA RangeCounted ==
  ASSUME NEW n \in Nat, NEW g, Whole(g, n), NEW a, NEW b, NEW c, Adjoins(a, c, b)
  PROVE  /\ Cardinality(AtMost(g, n, b)) = Cardinality(AtMost(g, n, a)) + Cardinality(Within(g, n, c, b))
         /\ Cardinality(AtMost(g, n, a)) \in Nat /\ Cardinality(Within(g, n, c, b)) \in Nat
<1>0. a \in Int /\ b \in Int /\ c \in Int /\ a <= b /\ c = a + 1
  BY DEF Adjoins
<1>1. PICK L : L = {i \in 1..n : g[i] <= a}
  OBVIOUS
<1>2. PICK M : M = {i \in 1..n : g[i] \in c..b}
  OBVIOUS
<1>3. PICK U : U = {i \in 1..n : g[i] <= b}
  OBVIOUS
<1>4. L \in SUBSET (1..n) /\ M \in SUBSET (1..n) /\ U \in SUBSET (1..n)
  BY <1>1, <1>2, <1>3
<1>5. ASSUME NEW i \in 1..n
      PROVE  /\ ~(i \in L /\ i \in M)
             /\ i \in U <=> (i \in L \/ i \in M)
  <2>1. PICK v \in Int : v = g[i]
    BY DEF Whole
  <2>2. (i \in L <=> v <= a) /\ (i \in U <=> v <= b)
    BY <1>1, <1>3, <2>1
  <2>3. i \in M <=> (c <= v /\ v <= b)
    BY <1>0, <1>2, <2>1
  <2>4. QED
    BY <1>0, <2>2, <2>3
<1>6. L \cap M = {} /\ L \cup M = U
  BY <1>4, <1>5
<1>7. /\ Cardinality(L \cup M) = Cardinality(L) + Cardinality(M)
      /\ Cardinality(L) \in Nat /\ Cardinality(M) \in Nat
  BY <1>4, <1>6, PartsCounted
<1>8. L = AtMost(g, n, a) /\ M = Within(g, n, c, b) /\ U = AtMost(g, n, b)
  BY <1>1, <1>2, <1>3 DEF AtMost, Within
<1>9. QED
  BY <1>6, <1>7, <1>8

\* What is above a value, and the rest.
LEMMA RestCounted ==
  ASSUME NEW n \in Nat, NEW g, Whole(g, n), NEW a \in Int
  PROVE  /\ n = Cardinality(AtMost(g, n, a)) + Cardinality(Above(g, n, a))
         /\ Cardinality(Above(g, n, a)) \in Nat
<1>1. PICK L : L = {i \in 1..n : g[i] <= a}
  OBVIOUS
<1>2. PICK M : M = {i \in 1..n : g[i] > a}
  OBVIOUS
<1>3. L \in SUBSET (1..n) /\ M \in SUBSET (1..n)
  BY <1>1, <1>2
<1>4. ASSUME NEW i \in 1..n
      PROVE  ~(i \in L /\ i \in M) /\ (i \in L \/ i \in M)
  <2>1. PICK v \in Int : v = g[i]
    BY DEF Whole
  <2>2. (i \in L <=> v <= a) /\ (i \in M <=> v > a)
    BY <1>1, <1>2, <2>1
  <2>3. QED
    BY <2>2
<1>5. L \cap M = {}
  BY <1>3, <1>4
<1>6. L \cup M = 1..n
  BY <1>3, <1>4
<1>7. Cardinality(L \cup M) = Cardinality(L) + Cardinality(M) /\ Cardinality(M) \in Nat
  BY <1>3, <1>5, PartsCounted
<1>8. Cardinality(1..n) = n
  BY <1>3, <1>5, PartsCounted
<1>9. L = AtMost(g, n, a) /\ M = Above(g, n, a)
  BY <1>1, <1>2 DEF AtMost, Above
<1>10. QED
  BY <1>6, <1>7, <1>8, <1>9

\* The five ranges of the stock have every product once.
LEMMA RangesCounted ==
  ASSUME NEW items, NEW n \in Nat, DOMAIN items = 1..n, \A i \in 1..n : items[i].stock \in Int
  PROVE  LET ranges == StockRanges(items)
         IN n = ranges.none + ranges.upTo5 + ranges.upTo20 + ranges.upTo50 + ranges.more
<1>1. PICK g : g = [i \in 1..n |-> items[i].stock]
  OBVIOUS
<1>2. \A i \in 1..n : g[i] = items[i].stock
  BY <1>1
<1>3. Whole(g, n)
  BY <1>2 DEF Whole
<1>4. /\ StockRanges(items).none = Cardinality(AtMost(g, n, 0))
      /\ StockRanges(items).upTo5 = Cardinality(Within(g, n, 1, 5))
      /\ StockRanges(items).upTo20 = Cardinality(Within(g, n, 6, 20))
      /\ StockRanges(items).upTo50 = Cardinality(Within(g, n, 21, 50))
      /\ StockRanges(items).more = Cardinality(Above(g, n, 50))
  <2>1. /\ {i \in 1..n : items[i].stock <= 0} = AtMost(g, n, 0)
        /\ {i \in 1..n : items[i].stock > 50} = Above(g, n, 50)
    BY <1>2 DEF AtMost, Above
  <2>2. /\ {i \in 1..n : items[i].stock \in 1..5} = Within(g, n, 1, 5)
        /\ {i \in 1..n : items[i].stock \in 6..20} = Within(g, n, 6, 20)
        /\ {i \in 1..n : items[i].stock \in 21..50} = Within(g, n, 21, 50)
    BY <1>2 DEF Within
  <2>3. QED
    BY <2>1, <2>2 DEF StockRanges, CountOf
<1>5. 50 \in Int
  OBVIOUS
<1>6. /\ Cardinality(AtMost(g, n, 5)) = Cardinality(AtMost(g, n, 0)) + Cardinality(Within(g, n, 1, 5))
      /\ Cardinality(AtMost(g, n, 0)) \in Nat /\ Cardinality(Within(g, n, 1, 5)) \in Nat
  <2>1. Adjoins(0, 1, 5)
    BY DEF Adjoins
  <2>2. QED
    BY <1>3, <2>1, RangeCounted
<1>7. /\ Cardinality(AtMost(g, n, 20)) = Cardinality(AtMost(g, n, 5)) + Cardinality(Within(g, n, 6, 20))
      /\ Cardinality(Within(g, n, 6, 20)) \in Nat
  <2>1. Adjoins(5, 6, 20)
    BY DEF Adjoins
  <2>2. QED
    BY <1>3, <2>1, RangeCounted
<1>8. /\ Cardinality(AtMost(g, n, 50)) = Cardinality(AtMost(g, n, 20)) + Cardinality(Within(g, n, 21, 50))
      /\ Cardinality(Within(g, n, 21, 50)) \in Nat
  <2>1. Adjoins(20, 21, 50)
    BY DEF Adjoins
  <2>2. QED
    BY <1>3, <2>1, RangeCounted
<1>9. /\ n = Cardinality(AtMost(g, n, 50)) + Cardinality(Above(g, n, 50))
      /\ Cardinality(Above(g, n, 50)) \in Nat
  BY <1>3, <1>5, RestCounted
<1>10. QED
  BY <1>4, <1>6, <1>7, <1>8, <1>9

\* The catalogue.
LEMMA CatalogueIsAgreed ==
  ASSUME Kept, ReadInv
  PROVE  CatalogueAgrees
<1> SUFFICES ASSUME ProductsScreen = "content" PROVE CatalogueAgrees
  BY DEF CatalogueAgrees
<1>1. PICK at : at = view["products"].at /\ at # 0
  BY ItemsAre
<1>2. PICK s : s = snapshots[at].products
  OBVIOUS
<1>3. PICK items : items = Items
  OBVIOUS
<1>4. PICK n \in Nat : n = Len(items) /\ n = AllProducts(at) /\ DOMAIN items = 1..n /\ DOMAIN s = 1..n
  <2>1. Len(Items) = AllProducts(at) /\ Len(Items) \in Nat /\ DOMAIN Items = 1..Len(Items)
    BY <1>1, ItemsAre
  <2>2. DOMAIN s = 1..AllProducts(at)
    <3>1. "products" \in View
      BY DEF View
    <3>2. QED
      BY <1>1, <1>2, <3>1, ProductsRead
  <2>3. QED
    BY <1>3, <2>1, <2>2
<1>5. \A i \in 1..n : /\ items[i] = CatalogItem(s[i])
                      /\ items[i].stock = s[i].stock /\ items[i].stock \in Int
                      /\ items[i].active = s[i].active /\ items[i].active \in BOOLEAN
  BY <1>1, <1>2, <1>3, <1>4, ItemsAre
<1>6. PICK shown : shown = CataloguePage(items)
  OBVIOUS
<1>7. PICK figures : figures = CatalogueFigures(at)
  OBVIOUS
<1>8. n = shown.stock.none + shown.stock.upTo5 + shown.stock.upTo20
            + shown.stock.upTo50 + shown.stock.more
  BY <1>4, <1>5, <1>6, RangesCounted DEF CataloguePage
<1>9. PICK Out : Out = {i \in 1..n : items[i].stock <= 0}
  OBVIOUS
<1>10. shown.stock.none = Cardinality(Out)
  BY <1>4, <1>6, <1>9 DEF CataloguePage, StockRanges, CountOf
<1>11. figures.outOfStock = Cardinality(Out)
  <2>1. {i \in 1..n : s[i].stock <= 0} = Out
    BY <1>5, <1>9
  <2>2. QED
    BY <1>2, <1>4, <1>7, <2>1 DEF CatalogueFigures, Count
<1>12. Len(Filtered(items, [NoFilter EXCEPT !.stock = "out"])) = Cardinality(Out)
  <2>1. PICK f : f = [NoFilter EXCEPT !.stock = "out"]
    OBVIOUS
  <2>2. f.status = "all" /\ f.stock = "out" /\ f.brand = "all"
    BY <2>1 DEF NoFilter
  <2>3. {i \in 1..n : Passes(items[i], f)} = Out
    BY <1>9, <2>2 DEF Passes
  <2>4. QED
    BY <1>4, <2>1, <2>3, FilteredCounted
<1>13. figures.active = shown.active /\ shown.active + shown.inactive = n
  <2>1. PICK On : On = {i \in 1..n : items[i].active}
    OBVIOUS
  <2>2. PICK Off : Off = {i \in 1..n : ~items[i].active}
    OBVIOUS
  <2>3. shown.active = Cardinality(On) /\ shown.inactive = Cardinality(Off)
    BY <1>4, <1>6, <2>1, <2>2 DEF CataloguePage, CountOf
  <2>4. figures.active = Cardinality(On)
    <3>1. {i \in 1..n : s[i].active} = On
      BY <1>5, <2>1
    <3>2. QED
      BY <1>2, <1>4, <1>7, <3>1 DEF CatalogueFigures, Count
  <2>5. On \in SUBSET (1..n) /\ Off \in SUBSET (1..n) /\ On \cap Off = {}
    BY <2>1, <2>2
  <2>6. n = Cardinality(On) + Cardinality(Off)
    <3>1. Cardinality(On \cup Off) = Cardinality(On) + Cardinality(Off)
      BY <2>5, PartsCounted
    <3>2. Cardinality(1..n) = n
      BY <2>5, PartsCounted
    <3>3. On \cup Off = 1..n
      BY <2>1, <2>2
    <3>4. QED
      BY <3>1, <3>2, <3>3
  <2>7. QED
    BY <2>3, <2>4, <2>6
<1>14. DOMAIN shown.brand = {items[i].brand : i \in 1..n}
  BY <1>4, <1>6 DEF CataloguePage
<1>15. figures.brands = Cardinality(DOMAIN shown.brand \ {NoBrand})
  <2>1. Range(s) = {s[i] : i \in 1..n}
    BY <1>4 DEF Range
  <2>2. {CatalogItem(k).brand : k \in Range(s)} = {items[i].brand : i \in 1..n}
    BY <1>5, <2>1
  <2>3. QED
    BY <1>2, <1>7, <1>14, <2>2 DEF CatalogueFigures
<1>16. ASSUME NEW b \in DOMAIN shown.brand \ {"all"}
       PROVE  shown.brand[b] = Len(Filtered(items, [NoFilter EXCEPT !.brand = b]))
  <2>1. PICK f : f = [NoFilter EXCEPT !.brand = b]
    OBVIOUS
  <2>2. f.status = "all" /\ f.stock = "all" /\ f.brand = b
    BY <2>1 DEF NoFilter
  <2>3. {i \in 1..n : Passes(items[i], f)} = {i \in 1..n : items[i].brand = b}
    BY <1>16, <2>2 DEF Passes
  <2>4. shown.brand[b] = Cardinality({i \in 1..n : items[i].brand = b})
    BY <1>4, <1>6, <1>14, <1>16 DEF CataloguePage, CountOf
  <2>5. QED
    BY <1>4, <2>1, <2>3, <2>4, FilteredCounted
<1>17. QED
  BY <1>1, <1>3, <1>4, <1>6, <1>7, <1>8, <1>10, <1>11, <1>12, <1>13, <1>15, <1>16
     DEF CatalogueAgrees

-------------------------------------------------------------------------------
(* Theorems *)

\* Every reachable state of the pages is well typed: what is shown, what is under way
\* and the page of the catalogue that is asked for.
THEOREM TypeCorrect == Spec => [](ViewsTyped /\ PageInv)
<1>1. Init => PageInv
  BY DEF Init, PageInv
<1>2. QED
  BY <1>1, Beginning, Keeping, PageKept, PTL DEF Spec, Kept

\* Whatever a page shows, or has been answered on its way to a page, was read from a
\* snapshot there was, and a view that succeeded has read one.
THEOREM ShownWasRead == Spec => []ReadInv
<1>1. QED
  BY Beginning, Keeping, ReadFirst, Reading, PTL DEF Spec

\* The products shown are never older than the last attempt: no answer that was
\* out before a retry or a synchronisation's event comes back after it.
THEOREM CatalogueFresh == Spec => []CatalogFresh
<1>1. Kept => CatalogFresh
  BY DEF Kept, FreshInv
<1>2. QED
  BY <1>1, Beginning, Keeping, PTL DEF Spec

\* A period view that waits for nothing shows the period chosen on its page, whatever
\* was being fetched when it was chosen, unless the request of the last choice was
\* answered before an older one.
THEOREM PeriodFollowed == Spec => []PeriodShown
<1>1. Kept => PeriodShown
  <2> SUFFICES ASSUME Kept, NEW v \in Periodic \cap Shown, v \notin overtaken,
                      flights[v] = <<>>
               PROVE  view[v].of = period
    BY DEF PeriodShown
  <2>1. Follows(v)
    BY DEF Kept, PeriodInv
  <2>2. Len(flights[v]) = 0
    OBVIOUS
  <2>3. QED
    BY <2>1, <2>2 DEF Follows, Awaits
<1>2. QED
  BY <1>1, Beginning, Keeping, PTL DEF Spec

\* A marketplace is told to grow only of a torn read: when the two answers of its
\* view came from different snapshots.
THEOREM GrowthTorn == Spec => []GrowthIsTorn
<1>1. ASSUME Kept, ReadInv PROVE GrowthIsTorn
  <2> DEFINE v == view["marketplace"]
  <2> SUFFICES ASSUME v.status = "success", NEW m \in Marketplace, v.at = v.base
               PROVE  /\ "accelerate" \notin Recommendations(v, m)
                      /\ "reinforce stock" \notin NextActions(v, m)
                      /\ "open channels" \notin NextActions(v, m)
                      /\ ~GrowthAbove(v, m, 0)
                      /\ InsightActions(v, m)[1] = "keep restocking" =>
                           InsightPriorities(v, m)[1] = "baixa" /\ Revenue(v, m) = Before(v, m)
    <3>1. Sellers \subseteq Marketplace
      BY DEF Sellers, SellersIn
    <3>2. QED
      BY <3>1 DEF GrowthIsTorn, Success
  <2>1. /\ Revenue(v, m) \in Nat /\ Before(v, m) \in Nat
        /\ Revenue(v, m) <= Before(v, m)
        /\ ~GrowthAbove(v, m, 0) /\ ~GrowthAbove(v, m, 10) /\ ~GrowthAbove(v, m, 15)
    BY <1>1, OneSnapshot
  <2> HIDE DEF v
  <2>2. ASSUME GrowthKnown(v, m), ~GrowthBelow(v, m, 0) PROVE Revenue(v, m) = Before(v, m)
    <3>1. ~(100 * (Revenue(v, m) - Before(v, m)) < 0 * Before(v, m))
      BY <2>2 DEF GrowthBelow
    <3>2. QED
      BY <2>1, <3>1
  <2>3. QED
    BY <2>1, <2>2, GrowthSaid
<1>2. QED
  BY <1>1, Beginning, Keeping, ReadFirst, Reading, PTL DEF Spec

\* The pages of the catalogue are its filtered products, all and in their order, and
\* the page shown is one of them, whatever page was asked for before the catalogue
\* shrank: it is empty only when nothing passes the filter.
THEOREM PagesAreCovered == Spec => []PagesCover
<1>1. ASSUME Kept, ReadInv, PageInv PROVE PagesCover
  <2> DEFINE kept == Filtered(Items, filter)
  <2>1. PICK S : kept \in Seq(S)
    BY <1>1, ItemsListed
  <2>2. Len(kept) \in Nat /\ Pages(Len(kept)) \in Nat \ {0}
    BY <2>1, LenProperties, PagesFit
  <2>3. Current = Paged(kept, page)
    BY DEF Current
  <2> HIDE DEF kept
  <2>4. PICK k \in 1..Pages(Len(kept)) : Current = Paged(kept, k) /\ Current.page = k
    BY <1>1, <2>1, <2>3, PageBack DEF PageInv
  <2>5. /\ Current.total = Pages(Len(kept))
        /\ Current.items = SubSeq(kept, (k - 1) * PageSize + 1, Lesser(k * PageSize, Len(kept)))
        /\ (k - 1) * PageSize \in 0..Len(kept)
        /\ k * PageSize = (k - 1) * PageSize + PageSize
        /\ Len(kept) # 0 => (k - 1) * PageSize < Len(kept)
    BY <2>1, <2>4, PageOf
  <2>6. FlattenSeq([n \in 1..Current.total |-> Paged(kept, n).items]) = kept
    BY <2>1, <2>5, Together
  <2>7. Current.items = <<>> <=> kept = <<>>
    <3> DEFINE a == (k - 1) * PageSize
               b == Lesser(k * PageSize, Len(kept))
    <3>1. a \in 0..Len(kept) /\ k * PageSize = a + PageSize /\ PageSize \in Nat \ {0}
      BY <2>5, ViewsAssumption
    <3>2. b \in a..Len(kept) /\ (Len(kept) # 0 => a < b)
      BY <2>2, <2>5, <3>1 DEF Lesser
    <3>3. Current.items = SubSeq(kept, a + 1, b)
      BY <2>5
    <3> HIDE DEF a, b
    <3>4. \A i \in (a + 1)..b : kept[i] \in S
      BY <2>1, <2>2, <3>1, <3>2, ElementOfSeq
    <3>5. /\ Current.items \in Seq(S)
          /\ Len(Current.items) = IF a + 1 <= b THEN b - (a + 1) + 1 ELSE 0
      BY <3>1, <3>2, <3>3, <3>4, <2>2, SubSeqProperties
    <3>6. Len(Current.items) = 0 <=> Len(kept) = 0
      BY <2>2, <3>1, <3>2, <3>5
    <3>7. QED
      BY <2>1, <3>5, <3>6, EmptySeq
  <2>8. QED
    BY <2>4, <2>5, <2>6, <2>7 DEF PagesCover, kept
<1>2. Init => PageInv
  BY DEF Init, PageInv
<1>3. QED
  BY <1>1, <1>2, Beginning, Keeping, ReadFirst, Reading, PageKept, PTL DEF Spec

\* No page contradicts itself, nor another about what both read from one snapshot: the
\* figures, the insights and the advice of the dashboard, the copilot, the catalogue,
\* the sales, the inventory, finance and purchasing bear each other out.
THEOREM PagesAreAgreed == Spec => []PagesAgree
<1>1. ASSUME Kept, ReadInv PROVE PagesAgree
  BY <1>1, DashboardIsAgreed, CopilotIsAgreed, CatalogueIsAgreed, SalesIsAgreed,
     InventoryIsAgreed, FinanceIsAgreed, PurchasingIsAgreed DEF PagesAgree
<1>2. QED
  BY <1>1, Beginning, Keeping, ReadFirst, Reading, PTL DEF Spec
===============================================================================
