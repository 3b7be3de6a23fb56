-------------------------- MODULE OrderItems_proofs --------------------------
(* Proofs about the order items backfill, for every size of its instance.  *)
EXTENDS OrderItems, FiniteSetTheorems, WellFoundedInduction, TLAPS

----------------------------------------------------------------------------
(* Orders found behind a cursor.                                           *)

\* Sets of orders are finite.
LEMMA OrdersFinite ==
  ASSUME NEW S \in SUBSET Order
  PROVE  IsFiniteSet(S) /\ Cardinality(S) \in Nat
<1>1. IsFiniteSet(Order)
  BY FS_Interval, OrderAssumption DEF Order
<1>2. IsFiniteSet(S)
  BY <1>1, FS_Subset
<1>3. QED
  BY <1>2, FS_CardinalityType

\* Subsets of a finite set are well founded, so that among the intervals that
\* begin or end at the elements of T one is least.
LEMMA LeastInterval ==
  ASSUME NEW U \in SUBSET (SUBSET Order), U # {}
  PROVE  \E x \in U : \A y \in U : y \subseteq x => y = x
<1>1. \A x \in U : x \in FiniteSubsetsOf(Order)
  BY OrdersFinite DEF FiniteSubsetsOf
<1>2. IsWellFoundedOn(StrictSubsetOrdering(Order), FiniteSubsetsOf(Order))
  BY FS_StrictSubsetOrderingWellFounded
<1>3. \E x \in U : \A y \in U : ~(<<y, x>> \in StrictSubsetOrdering(Order))
  BY <1>1, <1>2, WFMin
<1>4. QED
  BY <1>3 DEF StrictSubsetOrdering

\* Every nonempty set of orders has a least element, by well-founded induction over
\* the strict subsets.
LEMMA LeastExists ==
  ASSUME NEW T \in SUBSET Order, T # {}
  PROVE  \E x \in T : \A y \in T : x <= y
<1> DEFINE U == {1 .. x : x \in T}
<1>1. U \in SUBSET (SUBSET Order) /\ U # {}
  <2>1. \A x \in Order : 1 .. x \subseteq Order
    BY OrderAssumption DEF Order
  <2>2. \A x \in T : x \in Order
    OBVIOUS
  <2>3. QED
    BY <2>1, <2>2
<1>2. PICK S \in U : \A V \in U : V \subseteq S => V = S
  BY <1>1, LeastInterval
<1>3. PICK x \in T : S = 1 .. x
  BY <1>2
<1>4. ASSUME NEW y \in T PROVE x <= y
  <2>1. 1 .. y \subseteq 1 .. x => 1 .. y = 1 .. x
    BY <1>2, <1>3
  <2>2. x \in Order /\ y \in Order
    BY <1>3
  <2>3. QED
    BY <2>1, <2>2 DEF Order
<1>5. QED
  BY <1>4

\* Every nonempty set of orders has a greatest element.
LEMMA GreatestExists ==
  ASSUME NEW T \in SUBSET Order, T # {}
  PROVE  \E x \in T : \A y \in T : y <= x
<1> DEFINE U == {x .. MaxOrder : x \in T}
<1>1. U \in SUBSET (SUBSET Order) /\ U # {}
  <2>1. \A x \in Order : x .. MaxOrder \subseteq Order
    BY OrderAssumption DEF Order
  <2>2. \A x \in T : x \in Order
    OBVIOUS
  <2>3. QED
    BY <2>1, <2>2
<1>2. PICK S \in U : \A V \in U : V \subseteq S => V = S
  BY <1>1, LeastInterval
<1>3. PICK x \in T : S = x .. MaxOrder
  BY <1>2
<1>4. ASSUME NEW y \in T PROVE y <= x
  <2>1. y .. MaxOrder \subseteq x .. MaxOrder => y .. MaxOrder = x .. MaxOrder
    BY <1>2, <1>3
  <2>2. x \in Order /\ y \in Order
    BY <1>3
  <2>3. QED
    BY <2>1, <2>2, OrderAssumption DEF Order
<1>5. QED
  BY <1>4

\* Bare orders strictly between the cursor and o: those selected before o.
Before(from, o) == {p \in bare : from < p /\ p < o}

\* Finitely many bare orders lie between the cursor and an order.
LEMMA BeforeFinite ==
  ASSUME bare \in SUBSET Order, NEW from \in Cursor, NEW o \in Order
  PROVE  IsFiniteSet(Before(from, o)) /\ Cardinality(Before(from, o)) \in Nat
<1>1. Before(from, o) \in SUBSET Order
  BY DEF Before
<1>2. QED
  BY <1>1, OrdersFinite

\* What the query returns lies behind the cursor and leaves no gap.
LEMMA FoundPrefix ==
  ASSUME bare \in SUBSET Order, NEW from \in Cursor, NEW n \in Nat
  PROVE  /\ Found(from, n) \subseteq bare
         /\ \A o \in Found(from, n) : from < o
         /\ \A o \in Found(from, n), p \in bare : from < p /\ p <= o => p \in Found(from, n)
<1>1. Found(from, n) = {o \in bare : from < o /\ Cardinality(Before(from, o)) < n}
  BY DEF Found, Before
<1>2. ASSUME NEW o \in Found(from, n), NEW p \in bare, from < p, p <= o
      PROVE  p \in Found(from, n)
  <2>1. o \in Order /\ p \in Order
    BY <1>1
  <2>2. ASSUME NEW x \in Before(from, p) PROVE x \in Before(from, o)
    BY <1>2, <2>1, OrderAssumption DEF Before, Order, Cursor
  <2>3. Cardinality(Before(from, p)) <= Cardinality(Before(from, o))
    <3>1. IsFiniteSet(Before(from, o)) /\ Before(from, p) \in SUBSET Before(from, o)
      BY <2>1, <2>2, BeforeFinite
    <3>2. QED
      BY <3>1, FS_Subset
  <2>4. Cardinality(Before(from, p)) \in Nat /\ Cardinality(Before(from, o)) \in Nat
    BY <2>1, BeforeFinite
  <2>5. QED
    BY <1>1, <1>2, <2>3, <2>4
<1>3. QED
  BY <1>1, <1>2

\* As long as anything lies behind the cursor, the query finds something.
LEMMA FoundSome ==
  ASSUME bare \in SUBSET Order, NEW from \in Cursor, NEW n \in Nat \ {0},
         NEW p \in bare, from < p
  PROVE  Found(from, n) # {}
<1> DEFINE T == {o \in bare : from < o}
<1>1. T \in SUBSET Order /\ T # {}
  OBVIOUS
<1>2. PICK m \in T : \A o \in T : m <= o
  BY <1>1, LeastExists
<1>3. Before(from, m) = {}
  BY <1>1, <1>2 DEF Before, Order, Cursor
<1>4. Cardinality(Before(from, m)) < n
  BY <1>3, FS_EmptySet
<1>5. m \in Found(from, n)
  BY <1>2, <1>4 DEF Found, Before
<1>6. QED
  BY <1>5

\* The extra order tells the truth: without it nothing more lies behind.
LEMMA FoundAll ==
  ASSUME bare \in SUBSET Order, NEW from \in Cursor, ~HasMore(from),
         NEW p \in bare, from < p
  PROVE  p \in Found(from, Limit)
<1> DEFINE F == Found(from, Limit)
           T == {o \in bare : from < o /\ o \notin F}
<1>1. SUFFICES ASSUME T # {} PROVE FALSE
  OBVIOUS
<1>2. T \in SUBSET Order
  OBVIOUS
<1>3. PICK m \in T : \A o \in T : m <= o
  BY <1>1, <1>2, LeastExists
<1>4. m \in Order /\ from < m /\ m \in bare /\ m \notin F
  BY <1>3
<1>5. F = {o \in bare : from < o /\ Cardinality(Before(from, o)) < Limit}
  BY DEF Found, Before
<1>6. Before(from, m) \subseteq F
  BY <1>2, <1>3, <1>4 DEF Before, Order, Cursor
<1>7. Cardinality(Before(from, m)) <= Limit
  <2>1. CASE Before(from, m) = {}
    BY <2>1, FS_EmptySet, OrderAssumption
  <2>2. CASE Before(from, m) # {}
    <3>1. Before(from, m) \in SUBSET Order
      BY DEF Before
    <3>2. PICK g \in Before(from, m) : \A o \in Before(from, m) : o <= g
      BY <2>2, <3>1, GreatestExists
    <3>3. g \in Order /\ g \in bare /\ from < g /\ g < m
      BY <3>2 DEF Before
    <3>4. Before(from, m) = Before(from, g) \cup {g}
      <4>1. ASSUME NEW o \in Before(from, m) PROVE o \in Before(from, g) \cup {g}
        BY <3>2, <3>3, <4>1 DEF Before, Order
      <4>2. ASSUME NEW o \in Before(from, g) PROVE o \in Before(from, m)
        BY <1>4, <3>3, <4>2, OrderAssumption DEF Before, Order
      <4>3. QED
        BY <3>2, <4>1, <4>2
    <3>5. g \notin Before(from, g)
      BY <3>3 DEF Before, Order
    <3>6. Cardinality(Before(from, m)) = Cardinality(Before(from, g)) + 1
      BY <3>3, <3>4, <3>5, BeforeFinite, FS_AddElement
    <3>7. Cardinality(Before(from, g)) < Limit /\ Cardinality(Before(from, g)) \in Nat
      BY <1>5, <1>6, <3>2, <3>3, BeforeFinite
    <3>8. QED
      BY <3>6, <3>7, OrderAssumption
  <2>3. QED
    BY <2>1, <2>2
<1>8. m \in Found(from, Limit + 1)
  <2>1. Cardinality(Before(from, m)) \in Nat
    BY <1>4, BeforeFinite
  <2>2. Cardinality(Before(from, m)) < Limit + 1
    BY <1>7, <2>1, OrderAssumption
  <2>3. QED
    BY <1>4, <2>2 DEF Found, Before
<1>9. QED
  BY <1>4, <1>8 DEF HasMore

\* The next cursor is the greatest key selected.
LEMMA LastOfFound ==
  ASSUME bare \in SUBSET Order, NEW from \in Cursor
  PROVE  /\ LastOf(from) \in Cursor
         /\ Found(from, Limit) = {} => LastOf(from) = 0
         /\ Found(from, Limit) # {} =>
              /\ LastOf(from) \in Found(from, Limit)
              /\ \A o \in Found(from, Limit) : o <= LastOf(from)
<1> DEFINE F == Found(from, Limit)
<1>1. F \in SUBSET Order
  BY FoundPrefix, OrderAssumption
<1>2. CASE F = {}
  BY <1>2, OrderAssumption DEF LastOf, Cursor
<1>3. CASE F # {}
  <2>1. \E x \in F : \A y \in F : y <= x
    BY <1>1, <1>3, GreatestExists
  <2>2. LastOf(from) = CHOOSE x \in F : \A y \in F : y <= x
    BY <1>3 DEF LastOf
  <2>3. LastOf(from) \in F /\ \A y \in F : y <= LastOf(from)
    BY <2>1, <2>2
  <2>4. LastOf(from) \in Cursor
    BY <1>1, <2>3, OrderAssumption DEF Cursor, Order
  <2>5. QED
    BY <1>3, <2>3, <2>4
<1>4. QED
  BY <1>2, <1>3

\* One batch: what lies behind the cursor is selected up to the next cursor,
\* all of it if there is no more, and with more to do the cursor moves.
LEMMA BatchCovers ==
  ASSUME bare \in SUBSET Order, NEW from \in Cursor
  PROVE  /\ \A o \in bare : from < o /\ (o <= LastOf(from) \/ ~HasMore(from))
                            => o \in Found(from, Limit)
         /\ HasMore(from) => from < LastOf(from)
<1>1. ASSUME HasMore(from) PROVE Found(from, Limit) # {}
  <2>1. PICK p : p \in bare /\ from < p
    <3>1. Found(from, Limit + 1) \subseteq {o \in bare : from < o}
      BY DEF Found
    <3>2. Found(from, Limit) \subseteq {o \in bare : from < o}
      BY DEF Found
    <3>3. QED
      BY <1>1, <3>1, <3>2 DEF HasMore
  <2>2. QED
    BY <2>1, FoundSome, OrderAssumption
<1>2. ASSUME NEW o \in bare, from < o, o <= LastOf(from)
      PROVE  o \in Found(from, Limit)
  <2>1. LastOf(from) # 0
    BY <1>2, OrderAssumption DEF Cursor, Order
  <2>2. LastOf(from) \in Found(from, Limit)
    BY <2>1, LastOfFound
  <2>3. QED
    BY <1>2, <2>2, FoundPrefix, OrderAssumption
<1>3. HasMore(from) => from < LastOf(from)
  BY <1>1, LastOfFound, FoundPrefix, OrderAssumption
<1>4. QED
  BY <1>2, <1>3, FoundAll

----------------------------------------------------------------------------
(* What the actions do to the requests.  The lemmas give the fields of     *)
(* req'[r] one by one, so that the invariants need not look into records.  *)

Requests == req \in [Request -> RequestState]

Others(r) == \A s \in Request \ {r} : req'[s] = req[s]

\* Fields that no action of the handler changes before the request ends.
SameCaller(r) ==
  req'[r].op = req[r].op /\ req'[r].sent = req[r].sent /\ req'[r].replied = req[r].replied

LEMMA NoRowTyped == NoRow \in Row
  BY OrderAssumption DEF NoRow, Row, Cursor

LEMMA IdleTyped == IdleRequest \in RequestState
  BY NoRowTyped, OrderAssumption
     DEF IdleRequest, RequestState, Phase, Result, Cursor

\* The row a claim makes, field by field.
LEMMA ClaimedTyped ==
  ASSUME NEW cp \in Row, NEW o \in Op \cup {NoOp}
  PROVE  /\ Restarted(cp) \in Row /\ Claimed(cp, o) \in Row
         /\ Restarted(cp).keyed = (Unfinished(cp) /\ cp.keyed)
         /\ Restarted(cp).cursor = IF Unfinished(cp) THEN cp.cursor ELSE 0
         /\ Restarted(cp).enriched = IF Unfinished(cp) THEN cp.enriched ELSE 0
         /\ Claimed(cp, o).keyed = Restarted(cp).keyed
         /\ Claimed(cp, o).cursor = Restarted(cp).cursor
         /\ Claimed(cp, o).enriched = Restarted(cp).enriched
         /\ Claimed(cp, o).owner = OwnerFor(o)
<1>1. /\ Restarted(cp) \in Row
      /\ Restarted(cp).keyed = (Unfinished(cp) /\ cp.keyed)
      /\ Restarted(cp).cursor = IF Unfinished(cp) THEN cp.cursor ELSE 0
      /\ Restarted(cp).enriched = IF Unfinished(cp) THEN cp.enriched ELSE 0
  <2>1. CASE Unfinished(cp)
    <3>1. Restarted(cp) = cp /\ cp.keyed \in BOOLEAN
      BY <2>1 DEF Restarted, Row
    <3>2. (Unfinished(cp) /\ cp.keyed) = cp.keyed
      BY <2>1, <3>1
    <3>3. QED
      BY <2>1, <3>1, <3>2
  <2>2. CASE ~Unfinished(cp)
    <3>1. Restarted(cp) = [cp EXCEPT !.keyed = FALSE, !.cursor = 0, !.enriched = 0]
      BY <2>2 DEF Restarted
    <3>2. /\ Restarted(cp) \in Row /\ Restarted(cp).keyed = FALSE
          /\ Restarted(cp).cursor = 0 /\ Restarted(cp).enriched = 0
      <4> DEFINE c == [cp EXCEPT !.keyed = FALSE, !.cursor = 0, !.enriched = 0]
      <4>1. 0 \in Cursor
        BY OrderAssumption DEF Cursor
      <4>2. c \in Row
        BY <4>1 DEF Row
      <4>3. c.keyed = FALSE /\ c.cursor = 0 /\ c.enriched = 0
        BY DEF Row
      <4> HIDE DEF c
      <4>4. QED
        BY <3>1, <4>2, <4>3 DEF c
    <3>3. (Unfinished(cp) /\ cp.keyed) = FALSE
      BY <2>2
    <3>4. QED
      BY <2>2, <3>2, <3>3
  <2>3. QED
    BY <2>1, <2>2
<1> DEFINE c == Restarted(cp)
<1>2. c \in Row /\ Claimed(cp, o) = [c EXCEPT !.owner = OwnerFor(o), !.live = TRUE,
                                               !.status = "running"]
  BY <1>1 DEF Claimed
<1>3. OwnerFor(o) \in Op \cup {Anon, NoOp}
  BY DEF OwnerFor
<1> HIDE DEF c
<1>4. /\ Claimed(cp, o) \in Row
      /\ Claimed(cp, o).keyed = c.keyed /\ Claimed(cp, o).cursor = c.cursor
      /\ Claimed(cp, o).enriched = c.enriched /\ Claimed(cp, o).owner = OwnerFor(o)
  BY <1>2, <1>3 DEF Row
<1>5. QED
  BY <1>1, <1>4 DEF c

\* A batch starts at a cursor.
LEMMA StartTyped ==
  ASSUME NEW cp \in Row, NEW sent \in Cursor
  PROVE  Start(cp, sent) \in Cursor
  BY DEF Start, Row

\* The row a batch writes, field by field.
LEMMA CheckpointedFields ==
  ASSUME NEW q \in RequestState
  PROVE  /\ Checkpointed(q) \in Row
         /\ Checkpointed(q).owner = q.cp.owner /\ Checkpointed(q).live
         /\ Checkpointed(q).keyed = (q.cp.keyed \/ ~q.failed)
         /\ Checkpointed(q).cursor = IF q.failed THEN q.cp.cursor ELSE q.last
         /\ Checkpointed(q).enriched = q.cp.enriched + Cardinality(q.gained)
         /\ Checkpointed(q).status = IF q.failed THEN "failed"
                                     ELSE IF q.more THEN "running" ELSE "completed"
<1>1. /\ q.cp \in Row /\ q.last \in Cursor /\ q.gained \in SUBSET Order
      /\ q.failed \in BOOLEAN /\ q.more \in BOOLEAN
  BY DEF RequestState
<1>2. Cardinality(q.gained) \in Nat
  BY <1>1, OrdersFinite
<1>3. q.cp.enriched + Cardinality(q.gained) \in Nat /\ (q.cp.keyed \/ ~q.failed) \in BOOLEAN
  BY <1>1, <1>2 DEF Row
<1>4. QED
  BY <1>1, <1>3 DEF Checkpointed, Row

\* Disturbances are counted down within their bound.
LEMMA DisturbTyped ==
  ASSUME trouble \in 0 .. MaxTrouble, Disturb
  PROVE  trouble' \in 0 .. MaxTrouble
  BY TroubleAssumption DEF Disturb

\* A request is replaced by another record.
LEMMA Replaced ==
  ASSUME Requests, NEW r \in Request, NEW q \in RequestState, req' = [req EXCEPT ![r] = q]
  PROVE  Requests' /\ Others(r) /\ req'[r] = q
  BY DEF Requests, Others

\* A request arrives in a slot.
LEMMA ArriveFields ==
  ASSUME Requests, NEW r \in Request, NEW o \in Op \cup {NoOp}, NEW c \in Cursor,
         Arrive(r, o, c)
  PROVE  /\ Requests' /\ Others(r)
         /\ req'[r].phase = "claim" /\ req'[r].op = o /\ req'[r].sent = c
         /\ req'[r].tried = {} /\ req'[r].gained = {}
         /\ ~req'[r].failed /\ ~req'[r].replied /\ req'[r].result = "none"
<1> DEFINE q == [IdleRequest EXCEPT !.phase = "claim", !.op = o, !.sent = c]
<1>1. q \in RequestState
  BY IdleTyped DEF RequestState, Phase
<1>2. /\ q.phase = "claim" /\ q.op = o /\ q.sent = c /\ q.tried = {} /\ q.gained = {}
      /\ ~q.failed /\ ~q.replied /\ q.result = "none"
  BY DEF IdleRequest
<1>3. req' = [req EXCEPT ![r] = q]
  BY DEF Arrive
<1> HIDE DEF q
<1>4. QED
  BY <1>1, <1>2, <1>3 DEF Requests, Others

\* The request leaves its handler with result x.
LEMMA LeaveFields ==
  ASSUME Requests, NEW r \in Request, NEW x \in Result,
         req' = [req EXCEPT ![r].phase = "exit", ![r].result = x]
  PROVE  /\ Requests' /\ Others(r) /\ SameCaller(r)
         /\ req'[r].phase = "exit" /\ req'[r].result = x
         /\ req'[r].tried = req[r].tried /\ req'[r].gained = req[r].gained
<1> DEFINE q == [req[r] EXCEPT !.phase = "exit", !.result = x]
<1>1. req[r] \in RequestState
  BY DEF Requests
<1>2. /\ q \in RequestState /\ q.phase = "exit" /\ q.result = x
      /\ q.op = req[r].op /\ q.sent = req[r].sent /\ q.replied = req[r].replied
      /\ q.tried = req[r].tried /\ q.gained = req[r].gained
  BY <1>1 DEF RequestState, Phase
<1>3. req' = [req EXCEPT ![r] = q]
  OBVIOUS
<1> HIDE DEF q
<1>4. QED
  BY <1>2, <1>3 DEF Requests, Others, SameCaller

\* A request claims the row.
LEMMA ClaimFields ==
  ASSUME Requests, checkpoint \in Row, NEW r \in Request,
         req' = [req EXCEPT ![r].phase = "select",
                            ![r].cp = Claimed(checkpoint, req[r].op),
                            ![r].start = Start(Restarted(checkpoint), req[r].sent)]
  PROVE  /\ Requests' /\ Others(r) /\ SameCaller(r)
         /\ req'[r].phase = "select"
         /\ req'[r].cp = Claimed(checkpoint, req[r].op)
         /\ req'[r].start = Start(Restarted(checkpoint), req[r].sent)
         /\ req'[r].tried = req[r].tried /\ req'[r].gained = req[r].gained
         /\ req'[r].failed = req[r].failed
<1> DEFINE c == Claimed(checkpoint, req[r].op)
           t == Start(Restarted(checkpoint), req[r].sent)
           q == [req[r] EXCEPT !.phase = "select", !.cp = c, !.start = t]
<1>1. req[r] \in RequestState /\ req[r].op \in Op \cup {NoOp} /\ req[r].sent \in Cursor
  BY DEF Requests, RequestState
<1>2. c \in Row /\ t \in Cursor
  BY <1>1, ClaimedTyped, StartTyped
<1>3. req' = [req EXCEPT ![r] = q]
  OBVIOUS
<1> HIDE DEF c, t
<1>4. /\ q \in RequestState /\ q.phase = "select" /\ q.cp = c /\ q.start = t
      /\ q.op = req[r].op /\ q.sent = req[r].sent /\ q.replied = req[r].replied
      /\ q.tried = req[r].tried /\ q.gained = req[r].gained /\ q.failed = req[r].failed
  <2>1. "select" \in Phase
    BY DEF Phase
  <2>2. q \in RequestState
    BY <1>1, <1>2, <2>1 DEF RequestState
  <2>3. q.phase = "select" /\ q.cp = c /\ q.start = t
    BY <1>1 DEF RequestState
  <2>4. /\ q.op = req[r].op /\ q.sent = req[r].sent /\ q.replied = req[r].replied
        /\ q.tried = req[r].tried /\ q.gained = req[r].gained /\ q.failed = req[r].failed
    BY <1>1 DEF RequestState
  <2>5. QED
    BY <2>2, <2>3, <2>4
<1> HIDE DEF q
<1>5. Requests' /\ Others(r) /\ req'[r] = q
  BY <1>3, <1>4, Replaced, Zenon
<1>6. QED
  BY <1>4, <1>5 DEF SameCaller, c, t

\* A request selects its orders.
LEMMA SelectFields ==
  ASSUME Requests, bare \in SUBSET Order, NEW r \in Request, SelectOrders(r)
  PROVE  /\ Requests' /\ Others(r) /\ SameCaller(r)
         /\ req'[r].phase = "enrich" /\ req'[r].todo = Found(req[r].start, Limit)
         /\ req'[r].last = LastOf(req[r].start) /\ req'[r].more = HasMore(req[r].start)
         /\ req'[r].cp = req[r].cp /\ req'[r].start = req[r].start
         /\ req'[r].tried = req[r].tried /\ req'[r].gained = req[r].gained
         /\ req'[r].failed = req[r].failed
<1> DEFINE f == Found(req[r].start, Limit)
           l == LastOf(req[r].start)
           m == HasMore(req[r].start)
           q == [req[r] EXCEPT !.phase = "enrich", !.todo = f, !.last = l, !.more = m]
<1>1. req[r] \in RequestState /\ req[r].start \in Cursor
  BY DEF Requests, RequestState
<1>2. f \in SUBSET Order /\ l \in Cursor /\ m \in BOOLEAN
  BY <1>1, FoundPrefix, LastOfFound, OrderAssumption DEF HasMore
<1>3. req' = [req EXCEPT ![r] = q]
  BY DEF SelectOrders
<1> HIDE DEF f, l, m
<1>4. /\ q \in RequestState /\ q.phase = "enrich" /\ q.todo = f /\ q.last = l /\ q.more = m
      /\ q.op = req[r].op /\ q.sent = req[r].sent /\ q.replied = req[r].replied
      /\ q.cp = req[r].cp /\ q.start = req[r].start
      /\ q.tried = req[r].tried /\ q.gained = req[r].gained /\ q.failed = req[r].failed
  BY <1>1, <1>2 DEF RequestState, Phase
<1> HIDE DEF q
<1>5. QED
  BY <1>3, <1>4 DEF Requests, Others, SameCaller, f, l, m

\* The next order is one of the selected.
LEMMA FirstOfTodo ==
  ASSUME NEW S \in SUBSET Order, S # {}
  PROVE  First(S) \in S
  BY LeastExists DEF First

\* An order is tried, with or without gaining items.
LEMMA EnrichFields ==
  ASSUME Requests, NEW r \in Request, EnrichOrder(r)
  PROVE  LET o == First(req[r].todo) IN
         /\ Requests' /\ Others(r) /\ SameCaller(r)
         /\ req'[r].phase = "enrich" /\ req'[r].todo = req[r].todo \ {o}
         /\ req'[r].tried = req[r].tried \cup {o}
         /\ \E new \in SUBSET bare : req'[r].gained = req[r].gained \cup new
         /\ req'[r].last = req[r].last /\ req'[r].more = req[r].more
         /\ req'[r].cp = req[r].cp /\ req'[r].start = req[r].start
         /\ req'[r].failed = req[r].failed
<1> DEFINE o == First(req[r].todo)
<1>1. PICK new \in {{}, {o}} :
        /\ new \subseteq bare
        /\ req' = [req EXCEPT ![r].todo = @ \ {o}, ![r].tried = @ \cup {o},
                              ![r].gained = @ \cup new]
  BY DEF EnrichOrder
<1> DEFINE t == req[r].todo \ {o}
           d == req[r].tried \cup {o}
           g == req[r].gained \cup new
           q == [req[r] EXCEPT !.todo = t, !.tried = d, !.gained = g]
<1>2. req[r] \in RequestState /\ req[r].todo \in SUBSET Order /\ req[r].todo # {}
      /\ req[r].tried \in SUBSET Order /\ req[r].gained \in SUBSET Order
      /\ req[r].phase = "enrich"
  BY DEF Requests, RequestState, EnrichOrder
<1>3. o \in Order
  BY <1>2, FirstOfTodo
<1>4. t \in SUBSET Order /\ d \in SUBSET Order /\ g \in SUBSET Order
  BY <1>1, <1>2, <1>3
<1>5. req' = [req EXCEPT ![r] = q]
  BY <1>1
<1>6. q.gained = req[r].gained \cup new /\ new \in SUBSET bare
  BY <1>1, <1>2 DEF RequestState
<1> HIDE DEF t, d, g
<1>7. /\ q \in RequestState /\ q.phase = "enrich" /\ q.todo = t /\ q.tried = d
      /\ q.op = req[r].op /\ q.sent = req[r].sent /\ q.replied = req[r].replied
      /\ q.cp = req[r].cp /\ q.start = req[r].start
      /\ q.last = req[r].last /\ q.more = req[r].more /\ q.failed = req[r].failed
  BY <1>2, <1>4 DEF RequestState
<1> HIDE DEF q
<1>8. Requests' /\ Others(r) /\ req'[r] = q
  BY <1>5, <1>7 DEF Requests, Others
<1>9. QED
  BY <1>6, <1>7, <1>8 DEF SameCaller, t, d

\* An order fails.
LEMMA OrderFailsFields ==
  ASSUME Requests, NEW r \in Request, OrderFails(r)
  PROVE  /\ Requests' /\ Others(r) /\ SameCaller(r)
         /\ req'[r].phase = "enrich" /\ req'[r].failed
         /\ req'[r].tried = req[r].tried /\ req'[r].gained = req[r].gained
         /\ req'[r].last = req[r].last /\ req'[r].more = req[r].more
         /\ req'[r].cp = req[r].cp /\ req'[r].start = req[r].start
<1> DEFINE t == req[r].todo \ {First(req[r].todo)}
           q == [req[r] EXCEPT !.todo = t, !.failed = TRUE]
<1>1. req[r] \in RequestState /\ t \in SUBSET Order /\ req[r].phase = "enrich"
  BY DEF Requests, RequestState, OrderFails
<1>2. req' = [req EXCEPT ![r] = q]
  BY DEF OrderFails
<1> HIDE DEF t
<1>3. /\ q \in RequestState /\ q.phase = "enrich" /\ q.failed
      /\ q.op = req[r].op /\ q.sent = req[r].sent /\ q.replied = req[r].replied
      /\ q.cp = req[r].cp /\ q.start = req[r].start /\ q.last = req[r].last
      /\ q.more = req[r].more /\ q.tried = req[r].tried /\ q.gained = req[r].gained
  BY <1>1 DEF RequestState
<1> HIDE DEF q
<1>4. QED
  BY <1>2, <1>3 DEF Requests, Others, SameCaller

\* A batch has written its row.
LEMMA FinishFields ==
  ASSUME Requests, NEW r \in Request, FinishBatch(r)
  PROVE  /\ Requests' /\ Others(r) /\ SameCaller(r)
         /\ req'[r].phase = "exit" /\ req'[r].result = Outcome(req[r])
         /\ req'[r].cp = Checkpointed(req[r])
         /\ req'[r].last = req[r].last
         /\ req'[r].tried = req[r].tried /\ req'[r].gained = req[r].gained
<1> DEFINE c == Checkpointed(req[r])
           x == Outcome(req[r])
           q == [req[r] EXCEPT !.phase = "exit", !.cp = c, !.result = x]
<1>1. req[r] \in RequestState
  BY DEF Requests
<1>2. c \in Row /\ x \in Result
  BY <1>1, CheckpointedFields DEF Outcome, Result, Written
<1>3. req' = [req EXCEPT ![r] = q]
  BY DEF FinishBatch
<1> HIDE DEF c, x
<1>4. /\ q \in RequestState /\ q.phase = "exit" /\ q.result = x /\ q.cp = c
      /\ q.op = req[r].op /\ q.sent = req[r].sent /\ q.replied = req[r].replied
      /\ q.last = req[r].last /\ q.tried = req[r].tried /\ q.gained = req[r].gained
  BY <1>1, <1>2 DEF RequestState, Phase
<1> HIDE DEF q
<1>5. QED
  BY <1>3, <1>4 DEF Requests, Others, SameCaller, c, x

\* The transaction of r has ended; the answer may still be on its way.
LEMMA EndFields ==
  ASSUME Requests, NEW r \in Request, Commit(r) \/ Rollback(r) \/ CommitFails(r)
  PROVE  /\ Requests' /\ Others(r)
         /\ req'[r].phase \in {"idle", "reply"}
         /\ ~req[r].replied => /\ req'[r].phase = "reply" /\ SameCaller(r)
                               /\ req'[r].last = req[r].last
                               /\ \/ req'[r].result = req[r].result /\ ~CommitFails(r)
                                  \/ req'[r].result = "error"
<1> DEFINE e == [req[r] EXCEPT !.phase = "reply"]
<1>1. req[r] \in RequestState
  BY DEF Requests
<1>2. /\ e \in RequestState /\ e.phase = "reply" /\ e.last = req[r].last
      /\ e.op = req[r].op /\ e.sent = req[r].sent /\ e.replied = req[r].replied
      /\ e.result = req[r].result
  BY <1>1 DEF RequestState, Phase
<1>3. /\ [e EXCEPT !.result = "error"] \in RequestState
      /\ [e EXCEPT !.result = "error"].phase = "reply"
      /\ [e EXCEPT !.result = "error"].last = req[r].last
      /\ [e EXCEPT !.result = "error"].op = req[r].op
      /\ [e EXCEPT !.result = "error"].sent = req[r].sent
      /\ [e EXCEPT !.result = "error"].replied = req[r].replied
      /\ [e EXCEPT !.result = "error"].result = "error"
  <2>1. "error" \in Result
    BY DEF Result, Raised
  <2>2. QED
    BY <1>2, <2>1 DEF RequestState
<1>4. [IdleRequest EXCEPT !.result = @] \in RequestState /\ IdleRequest.phase = "idle"
      /\ [IdleRequest EXCEPT !.result = @] = IdleRequest
  BY IdleTyped DEF IdleRequest
<1>5. req[r].replied \in BOOLEAN
  BY <1>1 DEF RequestState
<1>6. CASE req[r].replied
  <2>1. req' = [req EXCEPT ![r] = IdleRequest]
    BY <1>4, <1>6 DEF Commit, Rollback, CommitFails, Ended
  <2>2. QED
    BY <1>4, <1>6, <2>1, IdleTyped DEF Requests, Others
<1>7. CASE ~req[r].replied
  <2>1. PICK q \in {e, [e EXCEPT !.result = "error"]} :
          /\ req' = [req EXCEPT ![r] = q]
          /\ (q = e /\ ~CommitFails(r)) \/ q = [e EXCEPT !.result = "error"]
    <3>1. CASE CommitFails(r)
      BY <1>7, <3>1 DEF CommitFails, Ended
    <3>2. CASE ~CommitFails(r)
      BY <1>7, <3>2 DEF Commit, Rollback, Ended
    <3>3. QED
      BY <3>1, <3>2
  <2> HIDE DEF e
  <2>2. QED
    BY <1>2, <1>3, <2>1 DEF Requests, Others, SameCaller
<1>8. QED
  BY <1>5, <1>6, <1>7

\* An answer is sent, before or after the end of the request.
LEMMA ReplyFields ==
  ASSUME Requests, NEW r \in Request, Reply(r)
  PROVE  /\ Requests' /\ Others(r)
         /\ req[r].phase = "reply" => req'[r] = IdleRequest
         /\ req[r].phase # "reply" =>
              /\ ResponseFirst /\ req[r].phase = "exit"
              /\ req'[r].phase = req[r].phase /\ req'[r].result = req[r].result
              /\ req'[r].op = req[r].op /\ req'[r].sent = req[r].sent
              /\ req'[r].cp = req[r].cp /\ req'[r].last = req[r].last
              /\ req'[r].tried = req[r].tried /\ req'[r].gained = req[r].gained
<1> DEFINE e == [req[r] EXCEPT !.replied = TRUE]
<1>1. req[r] \in RequestState
  BY DEF Requests
<1>2. /\ e \in RequestState /\ e.phase = req[r].phase /\ e.result = req[r].result
      /\ e.op = req[r].op /\ e.sent = req[r].sent /\ e.cp = req[r].cp
      /\ e.last = req[r].last /\ e.tried = req[r].tried /\ e.gained = req[r].gained
  BY <1>1 DEF RequestState
<1>3. req' = [req EXCEPT ![r] = IF req[r].phase = "reply" THEN IdleRequest ELSE e]
  BY DEF Reply
<1>4. req[r].phase # "reply" => ResponseFirst /\ req[r].phase = "exit"
  BY DEF Reply, Answerable
<1> HIDE DEF e
<1>5. QED
  BY <1>2, <1>3, <1>4, IdleTyped DEF Requests, Others

\* A worker dies.
LEMMA CrashFields ==
  ASSUME Requests, NEW r \in Request, Crash(r)
  PROVE  Requests' /\ Others(r) /\ req'[r] = IdleRequest
  BY IdleTyped DEF Crash, Requests, Others

----------------------------------------------------------------------------
(* The transaction invariant: whoever may still commit holds the guard,    *)
(* works on the row it would claim now, and its locals account for what    *)
(* the row is going to say.                                                *)

InBatch(r) == req[r].phase \in {"select", "enrich"}

HasWritten(r) == req[r].phase = "exit" /\ req[r].result \in Written

\* The transaction of r is open and has not raised.
Active(r) == InBatch(r) \/ (req[r].phase = "exit" /\ req[r].result \notin Raised)

\* A batch works on the row it would claim now and starts where that says.
BatchInv(r) ==
  /\ req[r].cp = Claimed(checkpoint, req[r].op)
  /\ req[r].start = Start(Restarted(checkpoint), req[r].sent)

\* The row that waits for its commit continues the committed one.
WroteInv(r) ==
  LET q == req[r]  base == Restarted(checkpoint) IN
  /\ q.cp.owner = OwnerFor(q.op) /\ q.cp.live
  /\ q.cp.enriched = base.enriched + Cardinality(q.gained)
  /\ q.cp.status = IF q.result = "failed" THEN "failed"
                   ELSE IF q.result = "more" THEN "running" ELSE "completed"
  /\ q.result = "failed" => q.cp.keyed = base.keyed /\ q.cp.cursor = base.cursor
  /\ q.result = "more" => /\ q.cp.keyed /\ q.cp.cursor = q.last
                          /\ Start(base, q.sent) < q.last

RequestInv(r) ==
  /\ req[r].phase \in {"claim", "select"} =>
       req[r].tried = {} /\ req[r].gained = {} /\ ~req[r].failed
  /\ req[r].phase = "exit" => req[r].result # "none"
  /\ Active(r) => guard = r /\ req[r].gained \subseteq bare
  /\ InBatch(r) => BatchInv(r)
  /\ req[r].phase = "enrich" => (req[r].more => req[r].start < req[r].last)
  /\ HasWritten(r) => WroteInv(r)

TxnInv ==
  /\ gained \cap bare = {}
  /\ EnrichedExact
  /\ \A r \in Request : RequestInv(r)

----------------------------------------------------------------------------
(* The cursor invariant, where the commit precedes the response: no cursor *)
(* that the server, a request or a page keeps lies beyond an owed order.   *)

\* Ids are drawn by pages; a page waits for a request of its own operation.
PageInv(b) ==
  /\ browser[b].op \in used \cup {NoOp}
  /\ browser[b].op = NoOp => browser[b].cursor = 0 /\ browser[b].req = Nobody
  /\ \A r \in Request : browser[b].req = r =>
       req[r].phase # "idle" /\ req[r].op = browser[b].op

NamesInv ==
  /\ checkpoint.owner \in used \cup {Anon, NoOp}
  /\ \A r \in Request : req[r].op \in used \cup {NoOp} /\ ~req[r].replied
  /\ \A b \in Browser : PageInv(b)

\* What is owed behind the start of a batch is still to be tried, has been
\* tried, or lies behind the next cursor.
TriedInv(r) ==
  LET q == req[r] IN
  /\ q.phase # "idle" => Passed(q.sent)
  /\ q.phase = "enrich" /\ ~q.failed =>
       \A o \in owed : (o <= q.last \/ ~q.more) => o \in q.todo \cup q.tried
  /\ q.phase = "exit" /\ q.result = "more" => \A o \in owed \ q.tried : q.last < o
  /\ q.phase = "exit" /\ q.result = "done" => owed \subseteq q.tried
  /\ q.phase = "reply" /\ q.result = "more" => Passed(q.last)
  /\ q.phase = "reply" /\ q.result = "done" => owed = {}

\* A completion that a page may still learn of owes nothing.
SettledInv ==
  /\ \A b \in Browser : checkpoint.status = "completed" /\ browser[b].op # NoOp
       /\ browser[b].op = checkpoint.owner => owed = {}
  /\ \A b \in Browser, r \in Request : browser[b].req = r
       /\ req[r].phase \in {"exit", "reply"} /\ req[r].result = "replayed" => owed = {}

CursorInv ==
  /\ CursorSkipsNothing
  /\ NamesInv
  /\ \A r \in Request : TriedInv(r)
  /\ SettledInv

----------------------------------------------------------------------------
(* Types.                                                                  *)

\* What a page makes of an answer.
LEMMA ReceivedTyped ==
  ASSUME NEW page \in BrowserState, NEW q \in RequestState
  PROVE  /\ Received(page, q) \in BrowserState
         /\ Received(page, q).req = Nobody
         /\ q.result \in {"done", "replayed"} =>
              Received(page, q).op = NoOp /\ Received(page, q).cursor = 0
         /\ q.result \notin {"done", "replayed"} =>
              /\ Received(page, q).op = page.op
              /\ \/ Received(page, q).cursor = page.cursor
                 \/ q.result = "more" /\ Received(page, q).cursor = q.last
<1>1. 0 \in Cursor /\ q.last \in Cursor /\ page.cursor \in Cursor
  BY OrderAssumption DEF Cursor, RequestState, BrowserState
<1>2. CASE q.result \in {"done", "replayed"}
  BY <1>1, <1>2 DEF Received, BrowserState
<1>3. CASE q.result \notin {"done", "replayed"}
  <2> DEFINE c == IF q.result = "more" /\ ~Stuck(q) THEN q.last ELSE page.cursor
             p == [page EXCEPT !.req = Nobody, !.cursor = c]
  <2>1. Received(page, q) = p
    BY <1>3 DEF Received
  <2>2. c \in Cursor /\ (c = page.cursor \/ (q.result = "more" /\ c = q.last))
    BY <1>1
  <2> HIDE DEF c
  <2>3. p \in BrowserState /\ p.req = Nobody /\ p.op = page.op /\ p.cursor = c
    BY <2>2 DEF BrowserState
  <2> HIDE DEF p
  <2>4. QED
    BY <1>3, <2>1, <2>2, <2>3
<1>4. QED
  BY <1>2, <1>3

LEMMA InitTyped == Init => TypeOK
<1> SUFFICES ASSUME Init PROVE TypeOK
  OBVIOUS
<1>1. browser \in [Browser -> BrowserState]
  <2>1. [op |-> NoOp, cursor |-> 0, req |-> Nobody] \in BrowserState
    BY OrderAssumption DEF BrowserState, Cursor
  <2>2. QED
    BY <2>1 DEF Init
<1>2. req \in [Request -> RequestState]
  BY IdleTyped DEF Init
<1>3. QED
  BY <1>1, <1>2, NoRowTyped, TroubleAssumption DEF Init, TypeOK

\* Types are inductive with the transaction invariant, which keeps a gained order bare.
LEMMA StepTyped == TypeOK /\ TxnInv /\ [Next]_vars => TypeOK'
<1> SUFFICES ASSUME TypeOK, TxnInv, [Next]_vars PROVE TypeOK'
  OBVIOUS
<1>0. /\ Requests /\ bare \in SUBSET Order
      /\ \A s \in Request : req[s] \in RequestState
      /\ \A b \in Browser : browser[b] \in BrowserState
  BY DEF TypeOK, Requests
<1>1. ASSUME NEW b \in Browser, NEW r \in Request, SendBatch(b, r) PROVE TypeOK'
  <2>1. PICK o \in Op :
          /\ browser' = [browser EXCEPT ![b].op = o, ![b].req = r]
          /\ Arrive(r, o, browser[b].cursor)
          /\ used' = used \cup {o} \/ UNCHANGED used
    BY <1>1 DEF SendBatch
  <2>2. browser[b].cursor \in Cursor
    BY <1>0 DEF BrowserState
  <2>3. Requests'
    BY <1>0, <2>1, <2>2, ArriveFields
  <2>4. [browser[b] EXCEPT !.op = o, !.req = r] \in BrowserState
    BY <1>0 DEF BrowserState
  <2>5. browser' \in [Browser -> BrowserState]
    BY <2>1, <2>4 DEF TypeOK
  <2>6. owed' \in SUBSET bare
    BY <1>1 DEF SendBatch, TypeOK
  <2>7. QED
    BY <1>1, <2>1, <2>3, <2>5, <2>6 DEF SendBatch, TypeOK, Requests
<1>2. ASSUME NEW r \in Request, NEW o \in Op \cup {NoOp}, Call(r, o) PROVE TypeOK'
  <2>1. Requests'
    BY <1>0, <1>2, ArriveFields, OrderAssumption DEF Call, Cursor
  <2>2. QED
    BY <1>2, <2>1, DisturbTyped DEF Call, TypeOK, Requests
<1>3. ASSUME NEW b \in Browser, GiveUp(b) \/ CloseTab(b) PROVE TypeOK'
  <2>1. trouble' \in 0 .. MaxTrouble
    BY <1>3, DisturbTyped DEF GiveUp, CloseTab, TypeOK
  <2>2. [browser[b] EXCEPT !.req = Nobody] \in BrowserState
    BY <1>0 DEF BrowserState
  <2>3. [op |-> NoOp, cursor |-> 0, req |-> Nobody] \in BrowserState
    BY OrderAssumption DEF BrowserState, Cursor
  <2>4. browser' \in [Browser -> BrowserState]
    BY <1>3, <2>2, <2>3 DEF GiveUp, CloseTab, TypeOK
  <2>5. QED
    BY <1>3, <2>1, <2>4 DEF GiveUp, CloseTab, TypeOK
<1>4. ASSUME NEW r \in Request, Refused(r) \/ GuardBusy(r) PROVE TypeOK'
  <2>1. "conflict" \in Result
    BY DEF Result, Raised
  <2>2. Requests'
    BY <1>0, <1>4, <2>1, LeaveFields DEF Refused, GuardBusy
  <2>3. QED
    BY <1>4, <2>2, DisturbTyped DEF Refused, GuardBusy, TypeOK, Requests
<1>5. ASSUME NEW r \in Request, ClaimItems(r) PROVE TypeOK'
  <2>1. "conflict" \in Result /\ "replayed" \in Result
    BY DEF Result, Raised
  <2>2. Requests'
    BY <1>0, <1>5, <2>1, LeaveFields, ClaimFields DEF ClaimItems, TypeOK
  <2>3. QED
    BY <1>5, <2>2 DEF ClaimItems, TypeOK, Requests
<1>6. ASSUME NEW r \in Request, SelectOrders(r) PROVE TypeOK'
  <2>1. Requests'
    BY <1>0, <1>6, SelectFields
  <2>2. QED
    BY <1>6, <2>1 DEF SelectOrders, TypeOK, Requests
<1>7. ASSUME NEW r \in Request, EnrichOrder(r) PROVE TypeOK'
  <2>1. Requests'
    BY <1>0, <1>7, EnrichFields
  <2>2. QED
    BY <1>7, <2>1 DEF EnrichOrder, TypeOK, Requests
<1>8. ASSUME NEW r \in Request, OrderFails(r) PROVE TypeOK'
  <2>1. Requests'
    BY <1>0, <1>8, OrderFailsFields
  <2>2. QED
    BY <1>8, <2>1, DisturbTyped DEF OrderFails, TypeOK, Requests
<1>9. ASSUME NEW r \in Request, FinishBatch(r) PROVE TypeOK'
  <2>1. Requests'
    BY <1>0, <1>9, FinishFields
  <2>2. QED
    BY <1>9, <2>1 DEF FinishBatch, TypeOK, Requests
<1>10. ASSUME NEW r \in Request, HandlerFails(r) PROVE TypeOK'
  <2>1. "error" \in Result
    BY DEF Result, Raised
  <2>2. Requests'
    BY <1>0, <1>10, <2>1, LeaveFields DEF HandlerFails
  <2>3. QED
    BY <1>10, <2>2, DisturbTyped DEF HandlerFails, TypeOK, Requests
<1>11. ASSUME NEW r \in Request, Commit(r) PROVE TypeOK'
  <2>1. Requests'
    BY <1>0, <1>11, EndFields
  <2>2. guard' \in Request \cup {Nobody}
    BY <1>11 DEF Commit, GuardWithout, TypeOK
  <2>3. req[r].gained \subseteq bare /\ req[r].cp \in Row
    BY <1>0, <1>11 DEF Commit, TxnInv, RequestInv, Active, RequestState
  <2>4. /\ checkpoint' \in Row /\ bare' \in SUBSET known
        /\ gained' \in SUBSET known /\ owed' \in SUBSET bare'
    <3>1. CASE req[r].result \in Written
      <4>1. /\ checkpoint' = req[r].cp /\ bare' = bare \ req[r].gained
            /\ owed' = owed \ (req[r].tried \cup req[r].gained)
            /\ gained' = (IF Unfinished(checkpoint) THEN gained ELSE {}) \cup req[r].gained
        BY <1>11, <3>1 DEF Commit
      <4>2. QED
        BY <2>3, <4>1 DEF TypeOK
    <3>2. CASE req[r].result \notin Written
      BY <1>11, <3>2 DEF Commit, TypeOK
    <3>3. QED
      BY <3>1, <3>2
  <2>5. QED
    BY <1>11, <2>1, <2>2, <2>4 DEF Commit, TypeOK, Requests
<1>12. ASSUME NEW r \in Request, Rollback(r) \/ CommitFails(r) PROVE TypeOK'
  <2>1. Requests'
    BY <1>0, <1>12, EndFields
  <2>2. guard' \in Request \cup {Nobody} /\ trouble' \in 0 .. MaxTrouble
    BY <1>12, DisturbTyped DEF Rollback, CommitFails, GuardWithout, TypeOK
  <2>3. QED
    BY <1>12, <2>1, <2>2 DEF Rollback, CommitFails, TypeOK, Requests
<1>13. ASSUME NEW r \in Request, Reply(r) PROVE TypeOK'
  <2>1. Requests'
    BY <1>0, <1>13, ReplyFields
  <2>2. \A b \in Browser : Received(browser[b], req[r]) \in BrowserState
    BY <1>0, ReceivedTyped
  <2>3. browser' \in [Browser -> BrowserState]
    BY <1>0, <1>13, <2>2 DEF Reply
  <2>4. QED
    BY <1>13, <2>1, <2>3 DEF Reply, TypeOK, Requests
<1>14. ASSUME NEW r \in Request, Crash(r) PROVE TypeOK'
  <2>1. Requests'
    BY <1>0, <1>14, CrashFields
  <2>2. guard' \in Request \cup {Nobody} /\ trouble' \in 0 .. MaxTrouble
    BY <1>14, DisturbTyped DEF Crash, GuardWithout, TypeOK
  <2>3. \A b \in Browser : [browser[b] EXCEPT !.req = Nobody] \in BrowserState
    BY <1>0 DEF BrowserState
  <2>4. browser' \in [Browser -> BrowserState]
    BY <1>0, <1>14, <2>3 DEF Crash
  <2>5. QED
    BY <1>14, <2>1, <2>2, <2>4 DEF Crash, TypeOK, Requests
<1>15. CASE LeaseExpires
  <2>1. [checkpoint EXCEPT !.live = FALSE] \in Row
    BY DEF TypeOK, Row
  <2>2. QED
    BY <1>15, <2>1 DEF LeaseExpires, TypeOK
<1>16. ASSUME NEW o \in Order, OrderArrives(o) \/ OrderGoes(o) PROVE TypeOK'
  BY <1>16 DEF OrderArrives, OrderGoes, TypeOK
<1>17. CASE UNCHANGED vars
  BY <1>17 DEF vars, TypeOK
<1>18. QED
  BY <1>1, <1>2, <1>3, <1>4, <1>5, <1>6, <1>7, <1>8, <1>9, <1>10, <1>11, <1>12, <1>13,
     <1>14, <1>15, <1>16, <1>17 DEF Next, Serve, Fault

----------------------------------------------------------------------------
(* The transaction invariant is inductive.                                 *)

\* The expiry of the lease changes nothing that a batch has taken from the row.
LEMMA ExpiredRow ==
  ASSUME checkpoint \in Row, NEW o \in Op \cup {NoOp},
         checkpoint' = checkpoint \/ checkpoint' = [checkpoint EXCEPT !.live = FALSE]
  PROVE  /\ Claimed(checkpoint', o) = Claimed(checkpoint, o)
         /\ Restarted(checkpoint').keyed = Restarted(checkpoint).keyed
         /\ Restarted(checkpoint').cursor = Restarted(checkpoint).cursor
         /\ Restarted(checkpoint').enriched = Restarted(checkpoint).enriched
         /\ Unfinished(checkpoint') = Unfinished(checkpoint)
         /\ checkpoint'.owner = checkpoint.owner /\ checkpoint'.status = checkpoint.status
         /\ checkpoint'.keyed = checkpoint.keyed /\ checkpoint'.cursor = checkpoint.cursor
         /\ checkpoint'.enriched = checkpoint.enriched
  BY DEF Claimed, Restarted, Unfinished, Row

\* A request that the step does not touch keeps its invariant if row, guard and its
\* own orders are left alone.
LEMMA Frame ==
  ASSUME TypeOK, NEW s \in Request, RequestInv(s), req'[s] = req[s],
         Active(s) => /\ \/ checkpoint' = checkpoint
                         \/ checkpoint' = [checkpoint EXCEPT !.live = FALSE]
                      /\ guard' = guard /\ req[s].gained \subseteq bare'
  PROVE  RequestInv(s)'
<1>1. /\ Active(s)' = Active(s) /\ InBatch(s)' = InBatch(s)
      /\ HasWritten(s)' = HasWritten(s)
  BY DEF Active, InBatch, HasWritten
<1>2. InBatch(s) => Active(s)
  BY DEF Active
<1>3. HasWritten(s) => Active(s)
  BY DEF Active, HasWritten, Written, Raised
<1>4. req[s].op \in Op \cup {NoOp} /\ checkpoint \in Row
  BY DEF TypeOK, RequestState
<1>5. CASE Active(s)
  <2>1. /\ Claimed(checkpoint', req[s].op) = Claimed(checkpoint, req[s].op)
        /\ Restarted(checkpoint').keyed = Restarted(checkpoint).keyed
        /\ Restarted(checkpoint').cursor = Restarted(checkpoint).cursor
        /\ Restarted(checkpoint').enriched = Restarted(checkpoint).enriched
    BY <1>4, <1>5, ExpiredRow
  <2>2. BatchInv(s) => BatchInv(s)'
    BY <2>1 DEF BatchInv, Start
  <2>3. WroteInv(s) => WroteInv(s)'
    BY <2>1 DEF WroteInv, Start
  <2>4. QED
    BY <1>1, <1>5, <2>2, <2>3 DEF RequestInv
<1>6. CASE ~Active(s)
  BY <1>1, <1>2, <1>3, <1>6 DEF RequestInv
<1>7. QED
  BY <1>5, <1>6

\* While the guard is free or held by r, every other request is harmless.
LEMMA OthersKept ==
  ASSUME TypeOK, TxnInv, NEW r \in Request, Others(r),
         \/ guard \in {Nobody, r}
         \/ UNCHANGED <<checkpoint, bare, guard>>
  PROVE  \A s \in Request \ {r} : RequestInv(s)'
<1> TAKE s \in Request \ {r}
<1>1. RequestInv(s) /\ req'[s] = req[s]
  BY DEF TxnInv, Others
<1>2. guard \in {Nobody, r} => ~Active(s)
  BY <1>1, NameAssumption DEF RequestInv
<1>3. Active(s) => req[s].gained \subseteq bare
  BY <1>1 DEF RequestInv
<1>4. QED
  BY <1>1, <1>2, <1>3, Frame

\* The end of r frees the guard only if r held it.
LEMMA GuardGone ==
  ASSUME NEW r \in Request, guard' = GuardWithout(r)
  PROVE  guard \in {Nobody, r} \/ guard' = guard
  BY DEF GuardWithout

\* Nothing committed: what remains to be shown is the invariant of r.
LEMMA Uncommitted ==
  ASSUME TypeOK, TxnInv, NEW r \in Request, Others(r), UNCHANGED <<checkpoint, bare, gained>>,
         guard \in {Nobody, r} \/ guard' = guard, RequestInv(r)'
  PROVE  TxnInv'
<1>1. \A s \in Request \ {r} : RequestInv(s)'
  BY OthersKept
<1>2. QED
  BY <1>1 DEF TxnInv, EnrichedExact

\* A request that raised, or has ended, owes the invariant nothing.
LEMMA Harmless ==
  ASSUME NEW r \in Request,
         \/ req'[r].phase \in {"idle", "reply"}
         \/ req'[r].phase = "exit" /\ req'[r].result \in Raised
  PROVE  RequestInv(r)'
  BY DEF RequestInv, Active, InBatch, HasWritten, Written, Raised

LEMMA InitTxn == Init => TxnInv
<1> SUFFICES ASSUME Init PROVE TxnInv
  OBVIOUS
<1>1. EnrichedExact
  BY FS_EmptySet DEF Init, EnrichedExact, NoRow
<1>2. QED
  BY <1>1 DEF Init, TxnInv, RequestInv, Active, InBatch, HasWritten, IdleRequest

\* A commit moves the orders it gives items from bare to gained and counts them.
LEMMA CommitTxn ==
  ASSUME TypeOK, TxnInv, NEW r \in Request, Commit(r), req[r].result \in Written
  PROVE  /\ (gained \cap bare = {})'
         /\ EnrichedExact'
<1> DEFINE q == req[r]
           old == IF Unfinished(checkpoint) THEN gained ELSE {}
<1>1. /\ checkpoint' = q.cp /\ bare' = bare \ q.gained
      /\ gained' = old \cup q.gained
      /\ HasWritten(r) /\ Active(r) /\ RequestInv(r)
  BY DEF Commit, HasWritten, Active, TxnInv
<1>2. /\ q.gained \subseteq bare /\ WroteInv(r)
      /\ old \cap bare = {} /\ checkpoint \in Row
      /\ old \in SUBSET Order /\ q.gained \in SUBSET Order
  BY <1>1 DEF RequestInv, TxnInv, TypeOK, RequestState
<1>3. Restarted(checkpoint).enriched = Cardinality(old)
  <2>1. CASE Unfinished(checkpoint)
    BY <1>2, <2>1, ClaimedTyped DEF TxnInv, EnrichedExact
  <2>2. CASE ~Unfinished(checkpoint)
    BY <1>2, <2>2, ClaimedTyped, FS_EmptySet
  <2>3. QED
    BY <2>1, <2>2
<1>4. /\ IsFiniteSet(old) /\ IsFiniteSet(q.gained)
      /\ Cardinality(old) \in Nat /\ Cardinality(q.gained) \in Nat
  BY <1>2, OrdersFinite
<1>5. old \cap q.gained = {}
  BY <1>2
<1>6. Cardinality(old \cup q.gained) = Cardinality(old) + Cardinality(q.gained)
  <2>1. Cardinality(old \cup q.gained)
          = Cardinality(old) + Cardinality(q.gained) - Cardinality(old \cap q.gained)
    BY <1>4, FS_Union
  <2>2. Cardinality(old \cap q.gained) = 0
    BY <1>5, FS_EmptySet
  <2>3. QED
    BY <1>4, <2>1, <2>2
<1>7. checkpoint'.enriched = Cardinality(gained')
  BY <1>1, <1>2, <1>3, <1>6 DEF WroteInv
<1>8. QED
  BY <1>1, <1>2, <1>7 DEF EnrichedExact

LEMMA StepTxn == TypeOK /\ TxnInv /\ [Next]_vars => TxnInv'
<1> SUFFICES ASSUME TypeOK, TxnInv, [Next]_vars PROVE TxnInv'
  OBVIOUS
<1>0. /\ Requests /\ bare \in SUBSET Order /\ checkpoint \in Row
      /\ \A s \in Request : req[s] \in RequestState /\ RequestInv(s)
  BY DEF TypeOK, Requests, TxnInv
<1>1. ASSUME NEW b \in Browser, NEW r \in Request, SendBatch(b, r) PROVE TxnInv'
  <2>1. PICK o \in Op : Arrive(r, o, browser[b].cursor)
    BY <1>1 DEF SendBatch
  <2>2. browser[b].cursor \in Cursor
    BY DEF TypeOK, BrowserState
  <2>3. /\ Others(r) /\ req'[r].phase = "claim"
        /\ req'[r].tried = {} /\ req'[r].gained = {} /\ ~req'[r].failed
    BY <1>0, <2>1, <2>2, ArriveFields
  <2>4. RequestInv(r)'
    BY <2>3 DEF RequestInv, Active, InBatch, HasWritten
  <2>5. QED
    BY <1>1, <2>3, <2>4, Uncommitted DEF SendBatch
<1>2. ASSUME NEW r \in Request, NEW o \in Op \cup {NoOp}, Call(r, o) PROVE TxnInv'
  <2>1. /\ Others(r) /\ req'[r].phase = "claim"
        /\ req'[r].tried = {} /\ req'[r].gained = {} /\ ~req'[r].failed
    BY <1>0, <1>2, ArriveFields, OrderAssumption DEF Call, Cursor
  <2>2. RequestInv(r)'
    BY <2>1 DEF RequestInv, Active, InBatch, HasWritten
  <2>3. QED
    BY <1>2, <2>1, <2>2, Uncommitted DEF Call
<1>3. ASSUME NEW b \in Browser, GiveUp(b) \/ CloseTab(b) PROVE TxnInv'
  <2>1. UNCHANGED <<checkpoint, bare, guard, req, gained>>
    BY <1>3 DEF GiveUp, CloseTab
  <2>2. \A s \in Request : RequestInv(s)'
    BY <1>0, <2>1, Frame DEF RequestInv
  <2>3. QED
    BY <2>1, <2>2 DEF TxnInv, EnrichedExact
<1>4. ASSUME NEW r \in Request, Refused(r) \/ GuardBusy(r) PROVE TxnInv'
  <2>1. "conflict" \in Result /\ "conflict" \in Raised
    BY DEF Result, Raised
  <2>2. /\ Others(r) /\ req'[r].phase = "exit" /\ req'[r].result = "conflict"
    BY <1>0, <1>4, <2>1, LeaveFields DEF Refused, GuardBusy
  <2>3. RequestInv(r)'
    BY <2>1, <2>2, Harmless
  <2>4. QED
    BY <1>4, <2>2, <2>3, Uncommitted DEF Refused, GuardBusy
<1>5. ASSUME NEW r \in Request, ClaimItems(r) PROVE TxnInv'
  <2>1. /\ req[r].phase = "claim" /\ guard \in {Nobody, r} /\ guard' = r
        /\ UNCHANGED <<checkpoint, bare, gained>>
    BY <1>5 DEF ClaimItems, GuardFree
  <2>2. req[r].tried = {} /\ req[r].gained = {} /\ ~req[r].failed
    BY <1>0, <2>1 DEF RequestInv
  <2>3. CASE req' = [req EXCEPT ![r].phase = "exit", ![r].result = "conflict"]
    <3>1. "conflict" \in Result /\ "conflict" \in Raised
      BY DEF Result, Raised
    <3>2. Others(r) /\ req'[r].phase = "exit" /\ req'[r].result = "conflict"
      BY <1>0, <2>3, <3>1, LeaveFields
    <3>3. RequestInv(r)'
      BY <3>1, <3>2, Harmless
    <3>4. QED
      BY <2>1, <3>2, <3>3, Uncommitted
  <2>4. CASE req' = [req EXCEPT ![r].phase = "exit", ![r].result = "replayed"]
    <3>1. "replayed" \in Result
      BY DEF Result
    <3>2. /\ Others(r) /\ req'[r].phase = "exit" /\ req'[r].result = "replayed"
          /\ req'[r].gained = {}
      BY <1>0, <2>2, <2>4, <3>1, LeaveFields
    <3>3. RequestInv(r)'
      BY <2>1, <3>2 DEF RequestInv, Active, InBatch, HasWritten, Written
    <3>4. QED
      BY <2>1, <3>2, <3>3, Uncommitted
  <2>5. CASE req' = [req EXCEPT
               ![r].phase = "select",
               ![r].cp = Claimed(checkpoint, req[r].op),
               ![r].start = Start(Restarted(checkpoint), req[r].sent)]
    <3>1. /\ Others(r) /\ SameCaller(r) /\ req'[r].phase = "select"
          /\ req'[r].cp = Claimed(checkpoint, req[r].op)
          /\ req'[r].start = Start(Restarted(checkpoint), req[r].sent)
          /\ req'[r].tried = {} /\ req'[r].gained = {} /\ ~req'[r].failed
      BY <1>0, <2>2, <2>5, ClaimFields
    <3>2. BatchInv(r)'
      BY <2>1, <3>1 DEF BatchInv, SameCaller
    <3>3. RequestInv(r)'
      BY <2>1, <3>1, <3>2 DEF RequestInv, Active, InBatch, HasWritten
    <3>4. QED
      BY <2>1, <3>1, <3>3, Uncommitted
  <2>6. QED
    BY <1>5, <2>3, <2>4, <2>5 DEF ClaimItems
<1>6. ASSUME NEW r \in Request, SelectOrders(r) PROVE TxnInv'
  <2>1. /\ Others(r) /\ SameCaller(r) /\ req'[r].phase = "enrich"
        /\ req'[r].last = LastOf(req[r].start) /\ req'[r].more = HasMore(req[r].start)
        /\ req'[r].cp = req[r].cp /\ req'[r].start = req[r].start
        /\ req'[r].gained = req[r].gained
    BY <1>0, <1>6, SelectFields
  <2>2. /\ InBatch(r) /\ Active(r) /\ UNCHANGED <<checkpoint, bare, gained, guard>>
        /\ req[r].start \in Cursor
    BY <1>0, <1>6 DEF SelectOrders, InBatch, Active, RequestState
  <2>3. BatchInv(r) /\ guard = r /\ req[r].gained \subseteq bare
    BY <1>0, <2>2 DEF RequestInv
  <2>4. BatchInv(r)'
    BY <2>1, <2>2, <2>3 DEF BatchInv, SameCaller
  <2>5. HasMore(req[r].start) => req[r].start < LastOf(req[r].start)
    BY <1>0, <2>2, BatchCovers
  <2>6. RequestInv(r)'
    BY <2>1, <2>2, <2>3, <2>4, <2>5 DEF RequestInv, Active, InBatch, HasWritten
  <2>7. QED
    BY <2>1, <2>2, <2>6, Uncommitted
<1>7. ASSUME NEW r \in Request, EnrichOrder(r) \/ OrderFails(r) PROVE TxnInv'
  <2>1. /\ InBatch(r) /\ Active(r) /\ UNCHANGED <<checkpoint, bare, gained, guard>>
        /\ req[r].phase = "enrich"
    BY <1>7 DEF EnrichOrder, OrderFails, InBatch, Active
  <2>2. /\ BatchInv(r) /\ guard = r /\ req[r].gained \subseteq bare
        /\ req[r].more => req[r].start < req[r].last
    BY <1>0, <2>1 DEF RequestInv
  <2>3. /\ Others(r) /\ SameCaller(r) /\ req'[r].phase = "enrich"
        /\ req'[r].last = req[r].last /\ req'[r].more = req[r].more
        /\ req'[r].cp = req[r].cp /\ req'[r].start = req[r].start
        /\ req'[r].gained \subseteq bare
    BY <1>0, <1>7, <2>2, EnrichFields, OrderFailsFields
  <2>4. BatchInv(r)'
    BY <2>1, <2>2, <2>3 DEF BatchInv, SameCaller
  <2>5. RequestInv(r)'
    BY <2>1, <2>2, <2>3, <2>4 DEF RequestInv, Active, InBatch, HasWritten
  <2>6. QED
    BY <2>1, <2>3, <2>5, Uncommitted
<1>8. ASSUME NEW r \in Request, FinishBatch(r) PROVE TxnInv'
  <2> DEFINE q == req[r]
             c == Checkpointed(req[r])
             base == Restarted(checkpoint)
  <2>1. /\ InBatch(r) /\ Active(r) /\ UNCHANGED <<checkpoint, bare, gained, guard>>
        /\ q.phase = "enrich" /\ q \in RequestState
    BY <1>0, <1>8 DEF FinishBatch, InBatch, Active
  <2>2. /\ BatchInv(r) /\ guard = r /\ q.gained \subseteq bare
        /\ q.more => q.start < q.last
    BY <1>0, <2>1 DEF RequestInv
  <2>3. /\ Others(r) /\ SameCaller(r) /\ req'[r].phase = "exit"
        /\ req'[r].result = Outcome(q) /\ req'[r].cp = c
        /\ req'[r].last = q.last /\ req'[r].gained = q.gained
    BY <1>0, <1>8, FinishFields
  <2>4. /\ c.owner = q.cp.owner /\ c.live /\ c.keyed = (q.cp.keyed \/ ~q.failed)
        /\ c.cursor = IF q.failed THEN q.cp.cursor ELSE q.last
        /\ c.enriched = q.cp.enriched + Cardinality(q.gained)
        /\ c.status = IF q.failed THEN "failed" ELSE IF q.more THEN "running" ELSE "completed"
    BY <2>1, CheckpointedFields
  <2>5. /\ q.cp.owner = OwnerFor(q.op) /\ q.cp.keyed = base.keyed
        /\ q.cp.cursor = base.cursor /\ q.cp.enriched = base.enriched
        /\ q.start = Start(base, q.sent) /\ q.op \in Op \cup {NoOp}
        /\ base.keyed \in BOOLEAN /\ q.failed \in BOOLEAN
    BY <1>0, <2>1, <2>2, ClaimedTyped DEF BatchInv, RequestState, Row
  <2> HIDE DEF c, base
  <2>6. WroteInv(r)'
    <3>1. base' = base
      BY <2>1 DEF base
    <3>2. CASE q.failed
      <4>1. c.keyed = base.keyed
        BY <2>4, <2>5, <3>2
      <4>2. QED
        BY <2>3, <2>4, <2>5, <3>1, <3>2, <4>1 DEF WroteInv, SameCaller, Outcome, base
    <3>3. CASE ~q.failed
      <4>1. c.keyed
        BY <2>4, <2>5, <3>3
      <4>2. QED
        BY <2>2, <2>3, <2>4, <2>5, <3>1, <3>3, <4>1 DEF WroteInv, SameCaller, Outcome, base
    <3>4. QED
      BY <3>2, <3>3
  <2>7. RequestInv(r)'
    BY <2>1, <2>2, <2>3, <2>6
       DEF RequestInv, Active, InBatch, HasWritten, Outcome, Written
  <2>8. QED
    BY <2>1, <2>3, <2>7, Uncommitted
<1>9. ASSUME NEW r \in Request, HandlerFails(r) PROVE TxnInv'
  <2>1. "error" \in Result /\ "error" \in Raised
    BY DEF Result, Raised
  <2>2. /\ Others(r) /\ req'[r].phase = "exit" /\ req'[r].result = "error"
    BY <1>0, <1>9, <2>1, LeaveFields DEF HandlerFails
  <2>3. RequestInv(r)'
    BY <2>1, <2>2, Harmless
  <2>4. QED
    BY <1>9, <2>2, <2>3, Uncommitted DEF HandlerFails
<1>10. ASSUME NEW r \in Request, Commit(r) PROVE TxnInv'
  <2>1. Others(r) /\ RequestInv(r)'
    BY <1>0, <1>10, EndFields, Harmless
  <2>2. guard = r
    BY <1>0, <1>10 DEF Commit, RequestInv, Active
  <2>3. \A s \in Request \ {r} : RequestInv(s)'
    BY <2>1, <2>2, OthersKept
  <2>4. (gained \cap bare = {})' /\ EnrichedExact'
    <3>1. CASE req[r].result \in Written
      BY <1>10, <3>1, CommitTxn
    <3>2. CASE req[r].result \notin Written
      BY <1>10, <3>2 DEF Commit, TxnInv, EnrichedExact
    <3>3. QED
      BY <3>1, <3>2
  <2>5. QED
    BY <2>1, <2>3, <2>4 DEF TxnInv
<1>11. ASSUME NEW r \in Request, Rollback(r) \/ CommitFails(r) PROVE TxnInv'
  <2>1. Others(r) /\ RequestInv(r)'
    BY <1>0, <1>11, EndFields, Harmless
  <2>2. guard \in {Nobody, r} \/ guard' = guard
    BY <1>11, GuardGone DEF Rollback, CommitFails
  <2>3. QED
    BY <1>11, <2>1, <2>2, Uncommitted DEF Rollback, CommitFails
<1>12. ASSUME NEW r \in Request, Reply(r) PROVE TxnInv'
  <2>1. UNCHANGED <<checkpoint, bare, gained, guard>> /\ Others(r)
    BY <1>0, <1>12, ReplyFields DEF Reply
  <2>2. CASE req[r].phase = "reply"
    <3>1. req'[r].phase = "idle"
      BY <1>0, <1>12, <2>2, ReplyFields DEF IdleRequest
    <3>2. QED
      BY <2>1, <3>1, Harmless, Uncommitted
  <2>3. CASE req[r].phase # "reply"
    <3>1. /\ req[r].phase = "exit"
          /\ req'[r].phase = req[r].phase /\ req'[r].result = req[r].result
          /\ req'[r].op = req[r].op /\ req'[r].sent = req[r].sent
          /\ req'[r].cp = req[r].cp /\ req'[r].last = req[r].last
          /\ req'[r].tried = req[r].tried /\ req'[r].gained = req[r].gained
      BY <1>0, <1>12, <2>3, ReplyFields
    <3>2. WroteInv(r) => WroteInv(r)'
      BY <2>1, <3>1 DEF WroteInv
    <3>3. RequestInv(r)'
      BY <1>0, <2>1, <3>1, <3>2 DEF RequestInv, Active, InBatch, HasWritten
    <3>4. QED
      BY <2>1, <3>3, Uncommitted
  <2>4. QED
    BY <2>2, <2>3
<1>13. ASSUME NEW r \in Request, Crash(r) PROVE TxnInv'
  <2>1. Others(r) /\ req'[r].phase = "idle"
    BY <1>0, <1>13, CrashFields DEF IdleRequest
  <2>2. guard \in {Nobody, r} \/ guard' = guard
    BY <1>13, GuardGone DEF Crash
  <2>3. QED
    BY <1>13, <2>1, <2>2, Harmless, Uncommitted DEF Crash
<1>14. CASE LeaseExpires
  <2>1. /\ checkpoint' = [checkpoint EXCEPT !.live = FALSE]
        /\ UNCHANGED <<bare, guard, req, gained>>
    BY <1>14 DEF LeaseExpires
  <2>2. \A s \in Request : RequestInv(s)'
    BY <1>0, <2>1, Frame DEF RequestInv
  <2>3. checkpoint'.enriched = checkpoint.enriched
    BY <1>0, <2>1 DEF Row
  <2>4. QED
    BY <2>1, <2>2, <2>3 DEF TxnInv, EnrichedExact
<1>15. ASSUME NEW o \in Order, OrderArrives(o) \/ OrderGoes(o) PROVE TxnInv'
  <2>1. UNCHANGED <<checkpoint, guard, req, gained>>
    BY <1>15 DEF OrderArrives, OrderGoes
  <2>2. \A s \in Request : Active(s) => req[s].gained \subseteq bare'
    BY <1>0, <1>15 DEF OrderArrives, OrderGoes, RequestInv
  <2>3. \A s \in Request : RequestInv(s)'
    BY <1>0, <2>1, <2>2, Frame
  <2>4. gained' \cap bare' = {}
    BY <1>15, <2>1 DEF OrderArrives, OrderGoes, TypeOK, TxnInv
  <2>5. QED
    BY <2>1, <2>3, <2>4 DEF TxnInv, EnrichedExact
<1>16. CASE UNCHANGED vars
  <2>1. \A s \in Request : RequestInv(s)'
    BY <1>0, <1>16, Frame DEF vars, RequestInv
  <2>2. QED
    BY <1>16, <2>1 DEF vars, TxnInv, EnrichedExact
<1>17. QED
  BY <1>1, <1>2, <1>3, <1>4, <1>5, <1>6, <1>7, <1>8, <1>9, <1>10, <1>11, <1>12, <1>13,
     <1>14, <1>15, <1>16 DEF Next, Serve, Fault

\* The types and the transaction invariant hold in every reachable state.
LEMMA Invariance == Spec => [](TypeOK /\ TxnInv)
<1>1. Init => TypeOK /\ TxnInv
  BY InitTyped, InitTxn
<1>2. TypeOK /\ TxnInv /\ [Next]_vars => (TypeOK /\ TxnInv)'
  BY StepTyped, StepTxn
<1>3. QED
  BY <1>1, <1>2, PTL DEF Spec

\* Every reachable state is well typed: in particular the cursor stays among the
\* keys, and an order with items is never again counted among those without.
THEOREM TypeCorrect == Spec => []TypeOK
  BY Invariance, PTL

\* Across batches that fail, retries and takeovers the totals count every order
\* that the sweep gave items exactly once (sync_service.py:792).
THEOREM EnrichedCounted == Spec => []EnrichedExact
<1>1. TxnInv => EnrichedExact
  BY DEF TxnInv
<1>2. QED
  BY <1>1, Invariance, PTL

\* While a sweep is open its cursor never falls back, and a batch without
\* failure moves it on: whoever commits holds the guard, and has started at the
\* committed cursor (sync_service.py:789, checkpoint.py:46).
THEOREM Forward == Spec => CursorForward
<1>1. TypeOK /\ TxnInv /\ [Next]_vars =>
        (Unfinished(checkpoint) /\ Unfinished(checkpoint') /\ checkpoint.keyed
         => /\ checkpoint'.keyed /\ checkpoint.cursor <= checkpoint'.cursor
            /\ (checkpoint' # checkpoint /\ checkpoint'.live /\ checkpoint'.status = "running")
                 => checkpoint.cursor < checkpoint'.cursor)
  <2> SUFFICES ASSUME TypeOK, TxnInv, [Next]_vars, Unfinished(checkpoint),
                      Unfinished(checkpoint'), checkpoint.keyed
               PROVE  /\ checkpoint'.keyed /\ checkpoint.cursor <= checkpoint'.cursor
                      /\ (checkpoint' # checkpoint /\ checkpoint'.live
                          /\ checkpoint'.status = "running")
                            => checkpoint.cursor < checkpoint'.cursor
    OBVIOUS
  <2>1. checkpoint \in Row /\ checkpoint.cursor \in Nat
    BY DEF TypeOK, Row, Cursor
  <2>2. CASE checkpoint' = checkpoint
    BY <2>1, <2>2
  <2>3. CASE LeaseExpires
    <3>1. /\ checkpoint'.keyed = checkpoint.keyed /\ checkpoint'.cursor = checkpoint.cursor
          /\ checkpoint'.live = FALSE
      BY <2>1, <2>3 DEF LeaseExpires, Row
    <3>2. QED
      BY <2>1, <3>1
  <2>4. ASSUME NEW r \in Request, Commit(r), req[r].result \in Written
        PROVE  /\ checkpoint'.keyed /\ checkpoint.cursor <= checkpoint'.cursor
               /\ (checkpoint' # checkpoint /\ checkpoint'.live
                   /\ checkpoint'.status = "running")
                     => checkpoint.cursor < checkpoint'.cursor
    <3>1. /\ checkpoint' = req[r].cp /\ WroteInv(r) /\ req[r].result \in Written
          /\ req[r].last \in Nat
      BY <2>4 DEF Commit, HasWritten, TxnInv, RequestInv, TypeOK, RequestState, Cursor
    <3>2. Restarted(checkpoint) = checkpoint
      BY DEF Restarted
    <3>3. CASE req[r].result = "failed"
      BY <2>1, <3>1, <3>2, <3>3 DEF WroteInv
    <3>4. CASE req[r].result = "more"
      <4>1. /\ checkpoint'.keyed /\ checkpoint'.cursor = req[r].last
            /\ Start(checkpoint, req[r].sent) < req[r].last
        BY <3>1, <3>2, <3>4 DEF WroteInv
      <4>2. checkpoint.cursor < checkpoint'.cursor
        BY <4>1 DEF Start
      <4>3. QED
        BY <2>1, <3>1, <4>1, <4>2
    <3>5. CASE req[r].result = "done"
      BY <3>1, <3>5 DEF WroteInv, Unfinished
    <3>6. QED
      BY <3>1, <3>3, <3>4, <3>5 DEF Written
  <2>5. \/ checkpoint' = checkpoint \/ LeaseExpires
        \/ \E r \in Request : Commit(r) /\ req[r].result \in Written
    <3>1. ASSUME NEW r \in Request, Serve(r) \/ Fault(r)
          PROVE  checkpoint' = checkpoint \/ (Commit(r) /\ req[r].result \in Written)
      <4>1. CASE Serve(r)
        BY <4>1 DEF Serve, GuardBusy, ClaimItems, SelectOrders, EnrichOrder, FinishBatch,
                    Commit, Rollback, Reply
      <4>2. CASE Fault(r)
        BY <4>2 DEF Fault, Refused, OrderFails, HandlerFails, CommitFails, Crash
      <4>3. QED
        BY <3>1, <4>1, <4>2
    <3>2. QED
      BY <3>1 DEF Next, vars, SendBatch, Call, GiveUp, CloseTab, OrderArrives, OrderGoes
  <2>6. QED
    BY <2>2, <2>3, <2>4, <2>5
<1>2. QED
  BY <1>1, Invariance, PTL DEF Spec, CursorForward

----------------------------------------------------------------------------
(* The cursor invariant is inductive where the commit precedes the         *)
(* response.                                                               *)

\* An order that is not owed any more troubles no request.
LEMMA TriedKept ==
  ASSUME NEW s \in Request, TriedInv(s), owed' \subseteq owed, req'[s] = req[s]
  PROVE  TriedInv(s)'
  BY DEF TriedInv, Passed

\* A step of a request that changes neither the row, nor a page, nor the debt.
LEMMA OnlyRequest ==
  ASSUME CursorInv, NEW r \in Request, Others(r), SameCaller(r), req'[r].phase # "idle",
         UNCHANGED <<checkpoint, browser, used, owed>>, TriedInv(r)',
         \A b \in Browser : browser[b].req = r /\ req'[r].phase \in {"exit", "reply"}
                            /\ req'[r].result = "replayed" => owed = {}
  PROVE  CursorInv'
<1>1. CursorSkipsNothing'
  BY DEF CursorInv, CursorSkipsNothing, Passed
<1>2. NamesInv'
  <2>1. \A s \in Request : req'[s].op = req[s].op /\ req'[s].replied = req[s].replied
    BY DEF Others, SameCaller
  <2>2. \A s \in Request : req[s].phase # "idle" => req'[s].phase # "idle"
    BY DEF Others
  <2>3. \A b \in Browser : PageInv(b)'
    BY <2>1, <2>2 DEF CursorInv, NamesInv, PageInv
  <2>4. QED
    BY <2>1, <2>3 DEF CursorInv, NamesInv
<1>3. \A s \in Request : TriedInv(s)'
  BY TriedKept DEF CursorInv, Others
<1>4. SettledInv'
  BY DEF CursorInv, SettledInv, Others
<1>5. QED
  BY <1>1, <1>2, <1>3, <1>4 DEF CursorInv

\* A step of the environment: the lease expires, orders come and go.
LEMMA OnlyDebt ==
  ASSUME CursorInv, checkpoint \in Row,
         checkpoint' = checkpoint \/ checkpoint' = [checkpoint EXCEPT !.live = FALSE],
         owed' \subseteq owed, UNCHANGED <<req, browser, used>>
  PROVE  CursorInv'
<1>1. /\ Unfinished(checkpoint') = Unfinished(checkpoint)
      /\ checkpoint'.owner = checkpoint.owner /\ checkpoint'.status = checkpoint.status
      /\ checkpoint'.keyed = checkpoint.keyed /\ checkpoint'.cursor = checkpoint.cursor
  BY ExpiredRow
<1>2. CursorSkipsNothing'
  BY <1>1 DEF CursorInv, CursorSkipsNothing, Passed
<1>3. NamesInv'
  BY <1>1 DEF CursorInv, NamesInv, PageInv
<1>4. \A s \in Request : TriedInv(s)'
  BY TriedKept DEF CursorInv
<1>5. SettledInv'
  BY <1>1 DEF CursorInv, SettledInv
<1>6. QED
  BY <1>2, <1>3, <1>4, <1>5 DEF CursorInv

LEMMA InitCursor == Init /\ TypeOK => CursorInv
<1> SUFFICES ASSUME Init, TypeOK PROVE CursorInv
  OBVIOUS
<1>1. CursorSkipsNothing
  BY DEF Init, CursorSkipsNothing, Passed, NoRow, Unfinished
<1>2. NamesInv
  BY NameAssumption DEF Init, NamesInv, PageInv, NoRow, IdleRequest
<1>3. \A r \in Request : TriedInv(r)
  BY DEF Init, TriedInv, IdleRequest
<1>4. SettledInv
  BY DEF Init, SettledInv
<1>5. QED
  BY <1>1, <1>2, <1>3, <1>4 DEF CursorInv

\* A page sends a batch: only a page that begins on a system at rest adds to the debt.
LEMMA SendCursor ==
  ASSUME TypeOK, CursorInv, NEW b \in Browser, NEW r \in Request, SendBatch(b, r)
  PROVE  CursorInv'
<1>1. PICK o \in Op :
        /\ \/ browser[b].op = o /\ UNCHANGED <<used, owed>>
           \/ /\ browser[b].op = NoOp /\ o \notin used /\ used' = used \cup {o}
              /\ owed' = IF AtRest THEN bare ELSE owed
        /\ browser' = [browser EXCEPT ![b].op = o, ![b].req = r]
        /\ Arrive(r, o, browser[b].cursor)
  BY DEF SendBatch
<1>2. /\ checkpoint' = checkpoint /\ req[r].phase = "idle"
      /\ Requests /\ browser[b].cursor \in Cursor
  BY DEF SendBatch, TypeOK, Requests, BrowserState
<1>3. /\ Others(r) /\ req'[r].phase = "claim" /\ req'[r].op = o
      /\ req'[r].sent = browser[b].cursor /\ ~req'[r].replied /\ req'[r].result = "none"
  BY <1>1, <1>2, ArriveFields
<1>4. /\ browser'[b].op = o /\ browser'[b].req = r
      /\ browser'[b].cursor = browser[b].cursor
      /\ \A d \in Browser \ {b} : browser'[d] = browser[d]
  BY <1>1 DEF TypeOK, BrowserState
<1>5. o \in used' /\ used \subseteq used'
  BY <1>1, NameAssumption DEF CursorInv, NamesInv, PageInv
<1>6. owed' = owed \/ (AtRest /\ owed' = bare)
  BY <1>1
<1>7. AtRest => \A d \in Browser : browser[d].op = NoOp /\ browser[d].cursor = 0
  BY DEF AtRest, CursorInv, NamesInv, PageInv
<1>8. \A p \in owed' : p \in Nat /\ 0 < p
  <2>1. owed' \subseteq Order
    <3>1. owed \subseteq Order /\ bare \subseteq Order
      BY DEF TypeOK
    <3>2. QED
      BY <1>6, <3>1
  <2>2. QED
    BY <2>1, OrderAssumption DEF Order
<1>9. \A d \in Browser : Passed(browser[d].cursor)'
  BY <1>4, <1>6, <1>7, <1>8 DEF CursorInv, CursorSkipsNothing, Passed
<1>10. CursorSkipsNothing'
  BY <1>2, <1>6, <1>9 DEF CursorInv, CursorSkipsNothing, Passed, AtRest
<1>11. NamesInv'
  <2>1. \A s \in Request : req'[s].op \in used' \cup {NoOp} /\ ~req'[s].replied
    BY <1>3, <1>5 DEF CursorInv, NamesInv, Others
  <2>2. PageInv(b)'
    BY <1>1, <1>3, <1>4, <1>5, NameAssumption DEF PageInv
  <2>3. \A d \in Browser \ {b} : PageInv(d)'
    BY <1>2, <1>3, <1>4, <1>5 DEF CursorInv, NamesInv, PageInv, Others
  <2>4. QED
    BY <1>2, <1>5, <2>1, <2>2, <2>3 DEF CursorInv, NamesInv
<1>12. \A s \in Request : TriedInv(s)'
  <2>1. TriedInv(r)'
    BY <1>3, <1>4, <1>9 DEF TriedInv, Passed
  <2>2. ASSUME NEW s \in Request \ {r} PROVE TriedInv(s)'
    <3>1. req'[s] = req[s] /\ TriedInv(s)
      BY <1>3 DEF Others, CursorInv
    <3>2. CASE owed' = owed
      BY <3>1, <3>2, TriedKept
    <3>3. CASE AtRest
      BY <3>1, <3>3 DEF AtRest, TriedInv
    <3>4. QED
      BY <1>6, <3>2, <3>3
  <2>3. QED
    BY <2>1, <2>2
<1>13. SettledInv'
  <2>1. ASSUME NEW d \in Browser, checkpoint'.status = "completed",
               browser'[d].op # NoOp, browser'[d].op = checkpoint'.owner
        PROVE  owed' = {} /\ owed = owed'
    <3>1. browser[d].op # NoOp
      <4>1. CASE d = b /\ browser[b].op = NoOp
        <5>1. o \notin used /\ o # Anon /\ o # NoOp
          BY <1>1, <4>1, NameAssumption
        <5>2. QED
          BY <1>2, <1>4, <2>1, <4>1, <5>1 DEF CursorInv, NamesInv
      <4>2. QED
        BY <1>1, <1>4, <2>1, <4>1
    <3>2. browser[d].op = browser'[d].op
      BY <1>1, <1>4, <3>1
    <3>3. owed' = owed
      BY <1>6, <3>1 DEF AtRest
    <3>4. QED
      BY <1>2, <2>1, <3>1, <3>2, <3>3 DEF CursorInv, SettledInv
  <2>2. ASSUME NEW d \in Browser, NEW s \in Request, browser'[d].req = s,
               req'[s].phase \in {"exit", "reply"}, req'[s].result = "replayed"
        PROVE  owed' = {}
    <3>1. s # r /\ d # b
      BY <1>3, <1>4, <2>2
    <3>2. req'[s] = req[s] /\ browser'[d] = browser[d]
      BY <1>3, <1>4, <3>1 DEF Others
    <3>3. owed = {} /\ owed' = owed
      BY <1>6, <2>2, <3>2 DEF CursorInv, SettledInv, AtRest
    <3>4. QED
      BY <3>3
  <2>3. QED
    BY <2>1, <2>2 DEF SettledInv
<1>14. QED
  BY <1>10, <1>11, <1>12, <1>13 DEF CursorInv

\* A commit pays what the batch has tried; nothing else lies before the new cursor.
LEMMA CommitCursor ==
  ASSUME TypeOK, TxnInv, CursorInv, NEW r \in Request, Commit(r)
  PROVE  CursorInv'
<1> DEFINE q == req[r]
<1>1. /\ q.phase = "exit" /\ q.result \notin Raised
      /\ UNCHANGED <<browser, used>> /\ ~q.replied
      /\ Requests /\ q \in RequestState /\ checkpoint \in Row
  BY DEF Commit, CursorInv, NamesInv, TypeOK, Requests
<1>2. /\ Others(r) /\ SameCaller(r) /\ req'[r].phase = "reply"
      /\ req'[r].last = q.last
      /\ req'[r].result = q.result \/ req'[r].result = "error"
  BY <1>1, EndFields
<1>3. CASE q.result \notin Written
  <2>1. /\ UNCHANGED <<checkpoint, browser, used, owed>>
        /\ q.result \notin {"more", "done"}
    BY <1>1, <1>3 DEF Commit, Written
  <2>2. TriedInv(r)'
    BY <1>1, <1>2, <2>1 DEF TriedInv, CursorInv, SameCaller, Passed
  <2>3. \A b \in Browser : browser[b].req = r /\ req'[r].result = "replayed" => owed = {}
    BY <1>1, <1>2 DEF CursorInv, SettledInv
  <2>4. QED
    BY <1>2, <2>1, <2>2, <2>3, OnlyRequest
<1>4. CASE q.result \in Written
  <2>1. /\ checkpoint' = q.cp /\ owed' = owed \ (q.tried \cup q.gained)
        /\ WroteInv(r) /\ TriedInv(r) /\ q.result \in {"more", "failed", "done"}
    BY <1>1, <1>4 DEF Commit, HasWritten, TxnInv, RequestInv, CursorInv, Written
  <2>2. q.result = "more" => \A o \in owed' : q.last < o
    BY <1>1, <2>1 DEF TriedInv
  <2>3. q.result = "done" => owed' = {}
    BY <1>1, <2>1 DEF TriedInv
  <2>4. CursorSkipsNothing'
    <3>1. \A b \in Browser : Passed(browser[b].cursor)'
      BY <1>1, <2>1 DEF CursorInv, CursorSkipsNothing, Passed
    <3>2. CASE q.result = "failed"
      <4>1. q.cp.keyed => Unfinished(checkpoint) /\ checkpoint.keyed
                          /\ q.cp.cursor = checkpoint.cursor
        BY <1>1, <2>1, <3>2, ClaimedTyped DEF WroteInv
      <4>2. QED
        BY <2>1, <3>1, <4>1 DEF CursorInv, CursorSkipsNothing, Passed
    <3>3. CASE q.result = "more"
      BY <2>1, <2>2, <3>1, <3>3 DEF WroteInv, CursorSkipsNothing, Passed
    <3>4. CASE q.result = "done"
      BY <2>3, <3>1, <3>4 DEF CursorSkipsNothing, Passed
    <3>5. QED
      BY <2>1, <3>2, <3>3, <3>4
  <2>5. NamesInv'
    <3>1. checkpoint'.owner \in used' \cup {Anon, NoOp}
      BY <1>1, <2>1 DEF WroteInv, OwnerFor, CursorInv, NamesInv
    <3>2. \A s \in Request : req'[s].op = req[s].op /\ req'[s].replied = req[s].replied
      BY <1>2 DEF Others, SameCaller
    <3>3. \A s \in Request : req[s].phase # "idle" => req'[s].phase # "idle"
      BY <1>2 DEF Others
    <3>4. \A b \in Browser : PageInv(b)'
      BY <1>1, <3>2, <3>3 DEF CursorInv, NamesInv, PageInv
    <3>5. QED
      BY <1>1, <3>1, <3>2, <3>4 DEF CursorInv, NamesInv
  <2>6. \A s \in Request : TriedInv(s)'
    <3>1. TriedInv(r)'
      BY <1>1, <1>2, <2>1, <2>2, <2>3 DEF TriedInv, SameCaller, Passed
    <3>2. QED
      BY <1>2, <2>1, <3>1, TriedKept DEF CursorInv, Others
  <2>7. SettledInv'
    <3>1. checkpoint'.status = "completed" => owed' = {}
      BY <2>1, <2>3 DEF WroteInv
    <3>2. ASSUME NEW b \in Browser, NEW s \in Request, browser'[b].req = s,
                 req'[s].phase \in {"exit", "reply"}, req'[s].result = "replayed"
          PROVE  owed' = {}
      <4>1. s # r
        BY <1>2, <2>1, <3>2
      <4>2. req'[s] = req[s] /\ browser'[b] = browser[b]
        BY <1>1, <1>2, <4>1 DEF Others
      <4>3. owed = {}
        BY <3>2, <4>2 DEF CursorInv, SettledInv
      <4>4. QED
        BY <2>1, <4>3
    <3>3. QED
      BY <3>1, <3>2 DEF SettledInv
  <2>8. QED
    BY <2>4, <2>5, <2>6, <2>7 DEF CursorInv
<1>5. QED
  BY <1>3, <1>4

\* The request r is gone, and with it the pages' wait for it.
LEMMA GoneCursor ==
  ASSUME CursorInv, NEW r \in Request, Others(r), req'[r] = IdleRequest,
         UNCHANGED <<checkpoint, used, owed>>,
         \A b \in Browser :
           /\ browser[b].req # r => browser'[b] = browser[b]
           /\ browser[b].req = r =>
                /\ browser'[b].req = Nobody
                /\ \/ browser'[b].op = NoOp /\ browser'[b].cursor = 0
                   \/ browser'[b].op = browser[b].op /\ Passed(browser'[b].cursor)
                      /\ browser[b].op # NoOp,
         \A o \in owed : 0 < o
  PROVE  CursorInv'
<1>1. CursorSkipsNothing'
  BY DEF CursorInv, CursorSkipsNothing, Passed
<1>2. NamesInv'
  <2>1. \A s \in Request : req'[s].op \in used' \cup {NoOp} /\ ~req'[s].replied
    BY DEF CursorInv, NamesInv, Others, IdleRequest
  <2>2. \A b \in Browser : PageInv(b)'
    <3> TAKE b \in Browser
    <3>1. CASE browser[b].req = r
      BY <3>1, NameAssumption DEF CursorInv, NamesInv, PageInv
    <3>2. CASE browser[b].req # r
      BY <3>2 DEF CursorInv, NamesInv, PageInv, Others
    <3>3. QED
      BY <3>1, <3>2
  <2>3. QED
    BY <2>1, <2>2 DEF CursorInv, NamesInv
<1>3. \A s \in Request : TriedInv(s)'
  <2>1. TriedInv(r)'
    BY DEF TriedInv, IdleRequest
  <2>2. QED
    BY <2>1, TriedKept DEF CursorInv, Others
<1>4. SettledInv'
  <2>1. ASSUME NEW b \in Browser, browser'[b].op # NoOp PROVE browser'[b].op = browser[b].op
    BY <2>1
  <2>2. ASSUME NEW b \in Browser, NEW s \in Request, browser'[b].req = s
        PROVE  browser[b].req = s /\ s # r
    BY <2>2, NameAssumption
  <2>3. QED
    BY <2>1, <2>2 DEF CursorInv, SettledInv, Others
<1>5. QED
  BY <1>1, <1>2, <1>3, <1>4 DEF CursorInv

\* A page takes over a cursor that is committed.
LEMMA ReplyCursor ==
  ASSUME TypeOK, CursorInv, ~ResponseFirst, NEW r \in Request, Reply(r)
  PROVE  CursorInv'
<1>1. /\ req[r].phase = "reply" /\ Requests
      /\ UNCHANGED <<checkpoint, used, owed>>
      /\ req[r] \in RequestState
      /\ \A b \in Browser : browser[b] \in BrowserState
      /\ \A b \in Browser : browser'[b] =
           IF browser[b].req = r THEN Received(browser[b], req[r]) ELSE browser[b]
  BY DEF Reply, Answerable, TypeOK, Requests
<1>2. Others(r) /\ req'[r] = IdleRequest
  BY <1>1, ReplyFields
<1>3. \A o \in owed : 0 < o
  <2>1. owed \subseteq Order
    BY DEF TypeOK
  <2>2. QED
    BY <2>1, OrderAssumption DEF Order
<1>4. ASSUME NEW b \in Browser, browser[b].req = r
      PROVE  /\ browser'[b].req = Nobody
             /\ \/ browser'[b].op = NoOp /\ browser'[b].cursor = 0
                \/ browser'[b].op = browser[b].op /\ Passed(browser'[b].cursor)
                   /\ browser[b].op # NoOp
  <2>1. browser'[b] = Received(browser[b], req[r])
    BY <1>1, <1>4
  <2>2. Passed(browser[b].cursor) /\ (req[r].result = "more" => Passed(req[r].last))
    BY <1>1 DEF CursorInv, CursorSkipsNothing, TriedInv
  <2>3. browser[b].op # NoOp
    BY <1>4, NameAssumption DEF CursorInv, NamesInv, PageInv
  <2>4. QED
    BY <1>1, <2>1, <2>2, <2>3, ReceivedTyped
<1>5. QED
  BY <1>1, <1>2, <1>3, <1>4, GoneCursor

\* A claim replays a completion only when nothing is owed.
LEMMA ClaimCursor ==
  ASSUME TypeOK, CursorInv, NEW r \in Request, ClaimItems(r)
  PROVE  CursorInv'
<1>1. /\ Requests /\ checkpoint \in Row /\ TriedInv(r) /\ req[r].phase = "claim"
      /\ UNCHANGED <<checkpoint, browser, used, owed>>
  BY DEF ClaimItems, TypeOK, Requests, CursorInv
<1>2. "conflict" \in Result /\ "replayed" \in Result
  BY DEF Result, Raised
<1>3. CASE req' = [req EXCEPT ![r].phase = "exit", ![r].result = "conflict"]
  <2>1. /\ Others(r) /\ SameCaller(r) /\ req'[r].phase = "exit"
        /\ req'[r].result = "conflict"
    BY <1>1, <1>2, <1>3, LeaveFields
  <2>2. TriedInv(r)'
    BY <1>1, <2>1 DEF TriedInv, Passed, SameCaller
  <2>3. QED
    BY <1>1, <2>1, <2>2, OnlyRequest
<1>4. CASE /\ Replays(checkpoint, req[r].op)
           /\ req' = [req EXCEPT ![r].phase = "exit", ![r].result = "replayed"]
  <2>1. /\ Others(r) /\ SameCaller(r) /\ req'[r].phase = "exit"
        /\ req'[r].result = "replayed"
    BY <1>1, <1>2, <1>4, LeaveFields
  <2>2. TriedInv(r)'
    BY <1>1, <2>1 DEF TriedInv, Passed, SameCaller
  <2>3. ASSUME NEW b \in Browser, browser[b].req = r PROVE owed = {}
    <3>1. browser[b].op = req[r].op /\ browser[b].op # NoOp
      BY <2>3, NameAssumption DEF CursorInv, NamesInv, PageInv
    <3>2. QED
      BY <1>4, <3>1 DEF Replays, CursorInv, SettledInv
  <2>4. QED
    BY <1>1, <2>1, <2>2, <2>3, OnlyRequest
<1>5. CASE req' = [req EXCEPT
             ![r].phase = "select",
             ![r].cp = Claimed(checkpoint, req[r].op),
             ![r].start = Start(Restarted(checkpoint), req[r].sent)]
  <2>1. Others(r) /\ SameCaller(r) /\ req'[r].phase = "select"
    BY <1>1, <1>5, ClaimFields
  <2>2. TriedInv(r)'
    BY <1>1, <2>1 DEF TriedInv, Passed, SameCaller
  <2>3. QED
    BY <1>1, <2>1, <2>2, OnlyRequest
<1>6. QED
  BY <1>3, <1>4, <1>5 DEF ClaimItems

\* The selection covers the debt up to the next cursor.
LEMMA SelectCursor ==
  ASSUME TypeOK, TxnInv, CursorInv, NEW r \in Request, SelectOrders(r)
  PROVE  CursorInv'
<1>1. /\ Requests /\ checkpoint \in Row /\ bare \in SUBSET Order /\ owed \subseteq bare
      /\ req[r] \in RequestState /\ req[r].start \in Cursor
      /\ UNCHANGED <<checkpoint, browser, used, owed>>
      /\ TriedInv(r) /\ BatchInv(r) /\ req[r].phase = "select"
  BY DEF SelectOrders, TypeOK, Requests, RequestState, CursorInv, TxnInv, RequestInv, InBatch
<1>2. /\ Others(r) /\ SameCaller(r)
      /\ req'[r].phase = "enrich" /\ req'[r].todo = Found(req[r].start, Limit)
      /\ req'[r].last = LastOf(req[r].start) /\ req'[r].more = HasMore(req[r].start)
  BY <1>1, SelectFields
<1>3. Passed(req[r].start)
  <2>1. Passed(req[r].sent)
    BY <1>1 DEF TriedInv
  <2>2. Restarted(checkpoint).keyed => Passed(Restarted(checkpoint).cursor)
    BY <1>1, ClaimedTyped DEF CursorInv, CursorSkipsNothing
  <2>3. QED
    BY <1>1, <2>1, <2>2 DEF BatchInv, Start
<1>4. \A o \in owed : o <= LastOf(req[r].start) \/ ~HasMore(req[r].start)
                      => o \in Found(req[r].start, Limit)
  BY <1>1, <1>3, BatchCovers DEF Passed
<1>5. TriedInv(r)'
  BY <1>1, <1>2, <1>4 DEF TriedInv, SameCaller, Passed
<1>6. QED
  BY <1>1, <1>2, <1>5, OnlyRequest

\* A batch without failure has tried all it selected.
LEMMA FinishCursor ==
  ASSUME TypeOK, CursorInv, NEW r \in Request, FinishBatch(r)
  PROVE  CursorInv'
<1>1. /\ Requests /\ owed \subseteq Order /\ req[r] \in RequestState
      /\ UNCHANGED <<checkpoint, browser, used, owed>>
      /\ TriedInv(r) /\ req[r].phase = "enrich" /\ req[r].todo = {}
  BY DEF FinishBatch, TypeOK, Requests, CursorInv
<1>2. /\ Others(r) /\ SameCaller(r) /\ req'[r].phase = "exit"
      /\ req'[r].result = Outcome(req[r]) /\ req'[r].last = req[r].last
      /\ req'[r].tried = req[r].tried
  BY <1>1, FinishFields
<1>3. req[r].last \in Int /\ \A o \in owed : o \in Int
  <2>1. req[r].last \in Cursor
    BY <1>1 DEF RequestState
  <2>2. Cursor \subseteq Int /\ Order \subseteq Int
    BY OrderAssumption DEF Cursor, Order
  <2>3. QED
    BY <1>1, <2>1, <2>2
<1>4. Outcome(req[r]) \in {"failed", "more"} \/ (Outcome(req[r]) = "done" /\ ~req[r].more)
  <2>1. req[r].more \in BOOLEAN /\ req[r].failed \in BOOLEAN
    BY <1>1 DEF RequestState
  <2>2. QED
    BY <2>1 DEF Outcome
<1>5. Outcome(req[r]) # "failed" => ~req[r].failed
  BY DEF Outcome
<1>6. ~req[r].failed =>
        \A o \in owed : (o <= req[r].last \/ ~req[r].more) => o \in req[r].tried
  BY <1>1 DEF TriedInv
<1>7. Outcome(req[r]) = "more" => \A o \in owed \ req[r].tried : req[r].last < o
  BY <1>3, <1>5, <1>6
<1>8. Outcome(req[r]) = "done" => owed \subseteq req[r].tried
  BY <1>4, <1>5, <1>6
<1>9. TriedInv(r)'
  BY <1>1, <1>2, <1>7, <1>8 DEF TriedInv, SameCaller, Passed
<1>10. QED
  BY <1>1, <1>2, <1>4, <1>9, OnlyRequest

LEMMA StepCursor ==
  ~ResponseFirst /\ TypeOK /\ TxnInv /\ CursorInv /\ [Next]_vars => CursorInv'
<1> SUFFICES ASSUME ~ResponseFirst, TypeOK, TxnInv, CursorInv, [Next]_vars PROVE CursorInv'
  OBVIOUS
<1>0. /\ Requests /\ checkpoint \in Row /\ \A o \in owed : 0 < o
      /\ \A r \in Request : req[r] \in RequestState /\ TriedInv(r) /\ ~req[r].replied
  <2>1. owed \subseteq Order
    BY DEF TypeOK
  <2>2. \A o \in owed : 0 < o
    BY <2>1, OrderAssumption DEF Order
  <2>3. QED
    BY <2>2 DEF TypeOK, Requests, CursorInv, NamesInv
<1>1. ASSUME NEW b \in Browser, NEW r \in Request, SendBatch(b, r) PROVE CursorInv'
  BY <1>1, SendCursor
<1>2. ASSUME NEW r \in Request, NEW o \in Op \cup {NoOp}, Call(r, o) PROVE CursorInv'
  <2>1. /\ req[r].phase = "idle" /\ o \in used \cup {NoOp} /\ 0 \in Cursor
        /\ Arrive(r, o, 0) /\ UNCHANGED <<checkpoint, browser, used, owed>>
    BY <1>2, OrderAssumption DEF Call, Cursor
  <2>2. /\ Others(r) /\ req'[r].phase = "claim" /\ req'[r].op = o /\ req'[r].sent = 0
        /\ ~req'[r].replied /\ req'[r].result = "none"
    BY <1>0, <1>2, <2>1, ArriveFields
  <2>3. \A b \in Browser : browser[b].req # r
    BY <2>1 DEF CursorInv, NamesInv, PageInv
  <2>4. NamesInv'
    <3>1. \A b \in Browser : PageInv(b)'
      BY <2>1, <2>2, <2>3 DEF CursorInv, NamesInv, PageInv, Others
    <3>2. QED
      BY <2>1, <2>2, <3>1 DEF CursorInv, NamesInv, Others
  <2>5. \A s \in Request : TriedInv(s)'
    <3>1. TriedInv(r)'
      BY <1>0, <2>1, <2>2 DEF TriedInv, Passed
    <3>2. QED
      BY <1>0, <2>1, <2>2, <3>1, TriedKept DEF Others
  <2>6. CursorSkipsNothing' /\ SettledInv'
    BY <2>1, <2>2, <2>3 DEF CursorInv, CursorSkipsNothing, SettledInv, Passed, Others
  <2>7. QED
    BY <2>4, <2>5, <2>6 DEF CursorInv
<1>3. ASSUME NEW b \in Browser, GiveUp(b) \/ CloseTab(b) PROVE CursorInv'
  <2>1. /\ UNCHANGED <<checkpoint, req, used, owed>> /\ browser'[b].req = Nobody
        /\ \A d \in Browser \ {b} : browser'[d] = browser[d]
        /\ \/ browser'[b].op = browser[b].op /\ browser'[b].cursor = browser[b].cursor
           \/ browser'[b].op = NoOp /\ browser'[b].cursor = 0
    BY <1>3 DEF GiveUp, CloseTab, TypeOK, BrowserState
  <2>2. CursorSkipsNothing'
    BY <1>0, <2>1 DEF CursorInv, CursorSkipsNothing, Passed
  <2>3. NamesInv'
    <3>1. PageInv(b)'
      BY <2>1, NameAssumption DEF CursorInv, NamesInv, PageInv
    <3>2. \A d \in Browser \ {b} : PageInv(d)'
      BY <2>1 DEF CursorInv, NamesInv, PageInv
    <3>3. QED
      BY <2>1, <3>1, <3>2 DEF CursorInv, NamesInv
  <2>4. \A s \in Request : TriedInv(s)'
    BY <1>0, <2>1, TriedKept
  <2>5. SettledInv'
    BY <2>1, NameAssumption DEF CursorInv, SettledInv
  <2>6. QED
    BY <2>2, <2>3, <2>4, <2>5 DEF CursorInv
<1>4. ASSUME NEW r \in Request, Refused(r) \/ GuardBusy(r) \/ HandlerFails(r) PROVE CursorInv'
  <2>1. "conflict" \in Result /\ "error" \in Result
    BY DEF Result, Raised
  <2>2. /\ Others(r) /\ SameCaller(r) /\ req'[r].phase = "exit"
        /\ req'[r].result \in {"conflict", "error"}
        /\ UNCHANGED <<checkpoint, browser, used, owed>> /\ req[r].phase # "idle"
    BY <1>0, <1>4, <2>1, LeaveFields DEF Refused, GuardBusy, HandlerFails
  <2>3. TriedInv(r)'
    BY <1>0, <2>2 DEF TriedInv, Passed, SameCaller
  <2>4. QED
    BY <2>2, <2>3, OnlyRequest
<1>5. ASSUME NEW r \in Request, ClaimItems(r) PROVE CursorInv'
  BY <1>5, ClaimCursor
<1>6. ASSUME NEW r \in Request, SelectOrders(r) PROVE CursorInv'
  BY <1>6, SelectCursor
<1>7. ASSUME NEW r \in Request, EnrichOrder(r) PROVE CursorInv'
  <2>1. /\ UNCHANGED <<checkpoint, browser, used, owed>> /\ req[r].phase = "enrich"
        /\ Others(r) /\ SameCaller(r) /\ req'[r].phase = "enrich"
        /\ req[r].todo \cup req[r].tried \subseteq req'[r].todo \cup req'[r].tried
        /\ req'[r].last = req[r].last /\ req'[r].more = req[r].more
        /\ req'[r].failed = req[r].failed
    BY <1>0, <1>7, EnrichFields DEF EnrichOrder
  <2>2. TriedInv(r)'
    BY <1>0, <2>1 DEF TriedInv, Passed, SameCaller
  <2>3. QED
    BY <2>1, <2>2, OnlyRequest
<1>8. ASSUME NEW r \in Request, OrderFails(r) PROVE CursorInv'
  <2>1. /\ UNCHANGED <<checkpoint, browser, used, owed>> /\ req[r].phase = "enrich"
        /\ Others(r) /\ SameCaller(r) /\ req'[r].phase = "enrich" /\ req'[r].failed
    BY <1>0, <1>8, OrderFailsFields DEF OrderFails
  <2>2. TriedInv(r)'
    BY <1>0, <2>1 DEF TriedInv, Passed, SameCaller
  <2>3. QED
    BY <2>1, <2>2, OnlyRequest
<1>9. ASSUME NEW r \in Request, FinishBatch(r) PROVE CursorInv'
  BY <1>9, FinishCursor
<1>10. ASSUME NEW r \in Request, Commit(r) PROVE CursorInv'
  BY <1>10, CommitCursor
<1>11. ASSUME NEW r \in Request, Rollback(r) \/ CommitFails(r) PROVE CursorInv'
  <2>1. /\ UNCHANGED <<checkpoint, browser, used, owed>> /\ req[r].phase = "exit"
        /\ Rollback(r) => req[r].result \in Raised
    BY <1>11 DEF Rollback, CommitFails
  <2>2. /\ Others(r) /\ SameCaller(r) /\ req'[r].phase = "reply"
        /\ req'[r].result \in Raised
    BY <1>0, <1>11, <2>1, EndFields DEF Raised
  <2>3. TriedInv(r)'
    BY <1>0, <2>1, <2>2 DEF TriedInv, Passed, SameCaller, Raised
  <2>4. QED
    BY <2>1, <2>2, <2>3, OnlyRequest DEF Raised
<1>12. ASSUME NEW r \in Request, Reply(r) PROVE CursorInv'
  BY <1>12, ReplyCursor
<1>13. ASSUME NEW r \in Request, Crash(r) PROVE CursorInv'
  <2>1. /\ UNCHANGED <<checkpoint, used, owed>> /\ Others(r) /\ req'[r] = IdleRequest
        /\ \A b \in Browser : browser'[b] =
             IF browser[b].req = r THEN [browser[b] EXCEPT !.req = Nobody] ELSE browser[b]
    BY <1>0, <1>13, CrashFields DEF Crash
  <2>2. ASSUME NEW b \in Browser, browser[b].req = r
        PROVE  /\ browser'[b].req = Nobody /\ browser'[b].op = browser[b].op
               /\ Passed(browser'[b].cursor) /\ browser[b].op # NoOp
    <3>1. browser[b].op # NoOp /\ Passed(browser[b].cursor)
      BY <2>2, NameAssumption DEF CursorInv, NamesInv, PageInv, CursorSkipsNothing
    <3>2. browser[b] \in BrowserState
      BY DEF TypeOK
    <3>3. QED
      BY <2>1, <2>2, <3>1, <3>2 DEF BrowserState
  <2>3. QED
    BY <1>0, <2>1, <2>2, GoneCursor
<1>14. CASE LeaseExpires \/ (\E o \in Order : OrderArrives(o) \/ OrderGoes(o)) \/ UNCHANGED vars
  <2>1. /\ checkpoint' = checkpoint \/ checkpoint' = [checkpoint EXCEPT !.live = FALSE]
        /\ owed' \subseteq owed /\ UNCHANGED <<req, browser, used>>
    BY <1>14 DEF LeaseExpires, OrderArrives, OrderGoes, vars
  <2>2. QED
    BY <1>0, <2>1, OnlyDebt
<1>15. QED
  BY <1>1, <1>2, <1>3, <1>4, <1>5, <1>6, <1>7, <1>8, <1>9, <1>10, <1>11, <1>12, <1>13,
     <1>14 DEF Next, Serve, Fault

\* The cursor invariant holds in every reachable state.
LEMMA CursorInvariance == Spec => [](~ResponseFirst => CursorInv)
<1>1. Init /\ TypeOK => (~ResponseFirst => CursorInv)
  BY InitCursor
<1>2. TypeOK /\ TxnInv /\ (~ResponseFirst => CursorInv) /\ [Next]_vars
        => (~ResponseFirst => CursorInv)'
  BY StepCursor
<1>3. QED
  BY <1>1, <1>2, Invariance, PTL DEF Spec

\* With the commit before the response no cursor, of the server or of a page, ever
\* lies beyond an order the sweep still has to try (sync_service.py:789, :804): for
\* any number of pages, requests, orders and disturbances.
THEOREM CursorSafe == Spec => [](~ResponseFirst => CursorSkipsNothing)
<1>1. (~ResponseFirst => CursorInv) => (~ResponseFirst => CursorSkipsNothing)
  BY DEF CursorInv
<1>2. QED
  BY <1>1, CursorInvariance, PTL

\* With the commit before the response a page is told that the backfill is over
\* only after every order it found without items has been tried.
THEOREM ToldSwept == Spec => [](~ResponseFirst => ToldIsSwept)
<1>1. (~ResponseFirst => CursorInv) => (~ResponseFirst => ToldIsSwept)
  <2> SUFFICES ASSUME ~ResponseFirst, CursorInv, NEW b \in Browser, NEW r \in Request,
                      browser[b].req = r, Answerable(r), req[r].result \in {"done", "replayed"}
               PROVE  owed = {}
    BY DEF ToldIsSwept
  <2>1. req[r].phase = "reply"
    BY DEF Answerable
  <2>2. QED
    BY <2>1 DEF CursorInv, SettledInv, TriedInv
<1>2. QED
  BY <1>1, CursorInvariance, PTL

=============================================================================
