------------------------ MODULE InsightNarrative_proofs ------------------------
(***************************************************************************)
(* Proofs about the insights, for every set of modules, texts, leaders and *)
(* callers: for the lifecycle, types, what archiving an insight promises   *)
(* and that counts and versions never exceed the events, and equal them    *)
(* while calls do not overlap; for the narratives, that asking for one     *)
(* leaves the insights alone, that the context lags behind its events by   *)
(* one change at most, and that the guard and the template leave nothing   *)
(* unfaithful, whatever a provider answers and the lifecycle does.         *)
(***************************************************************************)
EXTENDS InsightNarrative, FiniteSetTheorems, SequenceTheorems, TLAPS

-----------------------------------------------------------------------------
(* Builders and transitions *)

LEMMA FindingsTyped ==
  ASSUME NEW f \in Findings
  PROVE  f \in Seq(Text)
  <1>1. PICK n \in 0..MaxFound : f \in [1..n -> Text]
    BY DEF Findings
  <1>2. n \in Nat
    BY LifecycleAssumption
  <1>3. QED
    BY <1>1, <1>2, SeqDef

LEMMA BuiltTyped ==
  ASSUME NEW m \in Module, NEW prefix \in {<<x>> : x \in Module} \cup (Module \X Leader),
         NEW facts \in Findings, NEW actions \in Findings
  PROVE  Built(m, prefix, facts, actions) \in Seq(Insight)
  <1> DEFINE s == facts \o actions
             b == Built(m, prefix, facts, actions)
  <1>1. s \in Seq(Text)
    BY FindingsTyped, ConcatProperties
  <1>2. Len(s) \in Nat /\ \A i \in 1..Len(s) : s[i] \in Text
    BY <1>1, LenProperties, ElementOfSeq
  <1>3. b = [i \in 1..Len(s) |->
              [key |-> <<m, s[i]>>, id |-> <<prefix, i - 1>>,
               status |-> "NEW", version |-> 1, count |-> 1, dated |-> FALSE]]
    BY DEF Built
  <1> HIDE DEF s, b
  <1>4. ASSUME NEW i \in 1..Len(s) PROVE b[i] \in Insight
    <2>1. i - 1 \in Nat
      BY <1>2
    <2>2. <<prefix, i - 1>> \in ({<<x>> : x \in Module} \cup (Module \X Leader)) \X Nat
      BY <2>1
    <2>3. <<m, s[i]>> \in Key
      BY <1>2 DEF Key
    <2>4. b[i] = [key |-> <<m, s[i]>>, id |-> <<prefix, i - 1>>,
                  status |-> "NEW", version |-> 1, count |-> 1, dated |-> FALSE]
      BY <1>3
    <2>5. QED
      BY <2>2, <2>3, <2>4 DEF Insight, Status
  <1>5. b \in [1..Len(s) -> Insight]
    BY <1>3, <1>4
  <1>6. b \in Seq(Insight)
    BY <1>2, <1>5, SeqDef
  <1>7. QED
    BY <1>6 DEF b

LEMMA BuildsTyped ==
  ASSUME NEW m \in Module, NEW facts \in Findings, NEW actions \in Findings,
         NEW built \in Builds(m, facts, actions)
  PROVE  built \in Seq(Insight)
  <1>1. CASE m = "marketplace"
    <2>1. PICK l \in Leader : built = Built(m, <<m, l>>, facts, actions)
      BY <1>1 DEF Builds, MarketplaceBuild
    <2>2. <<m, l>> \in Module \X Leader
      OBVIOUS
    <2>3. QED
      BY <2>1, <2>2, BuiltTyped
  <1>2. CASE m # "marketplace"
    <2>1. m \in {"financial", "inventory", "products", "purchasing", "sales"}
      BY <1>2, LifecycleAssumption
    <2>2. built = Built(m, <<m>>, facts, actions)
      BY <2>1 DEF Builds, FinancialBuild, InventoryBuild, ProductsBuild, PurchasingBuild, SalesBuild
    <2>3. <<m>> \in {<<x>> : x \in Module}
      OBVIOUS
    <2>4. QED
      BY <2>2, <2>3, BuiltTyped
  <1>3. QED
    BY <1>1, <1>2

LEMMA AppliedTyped ==
  ASSUME NEW base \in Insight, NEW old \in Insight \cup {NoInsight}, NEW t \in Transition
  PROVE  Applied(base, old, t) \in Insight /\ Applied(base, old, t).key = base.key
  <1> DEFINE count == IF old = NoInsight THEN 1 ELSE OccurrencesAfter(old, t)
             version == IF old = NoInsight THEN base.version ELSE old.version + 1
             dated == IF t = "activated" THEN FALSE ELSE t = "resolved" \/ base.dated
  <1>1. StatusAfter(t) \in Status
    BY DEF StatusAfter, Transition, Status
  <1>2. count \in Nat /\ version \in Nat
    BY DEF Insight, OccurrencesAfter
  <1>3. dated \in BOOLEAN
    BY Zenon DEF Insight
  <1>4. Applied(base, old, t) = [base EXCEPT !.status = StatusAfter(t), !.count = count,
                                             !.version = version, !.dated = dated]
    BY DEF Applied
  <1> HIDE DEF count, version, dated
  <1>5. QED
    BY <1>1, <1>2, <1>3, <1>4 DEF Insight

LEMMA DetectedTyped ==
  ASSUME NEW old \in Insight \cup {NoInsight}
  PROVE  /\ Detected(old) \in Transition \cup {"ignored"}
         /\ old # NoInsight /\ old.status = "ARCHIVED" => Detected(old) = "ignored"
  BY DEF Detected, Transition, Insight, Status

-----------------------------------------------------------------------------
(* Types, and what of a call is there to be saved *)

\* Saved keys are saved; an insight is stored under its key; a record that is to be
\* saved is one, and a resolving call that is to go on has something to resolve.
StoreInv ==
  /\ \A i \in DOMAIN order : store[order[i]] # NoInsight
  /\ \A k \in Key : store[k] # NoInsight => store[k].key = k

CallInv ==
  \A c \in Caller :
    /\ call[c].at \in {"save", "append"} => call[c].cur # NoInsight
    /\ call[c].op = "resolve" /\ call[c].at = "find" => call[c].todo # <<>>

TypeInv == TypeOK /\ StoreInv /\ CallInv

LEMMA IdleTyped ==
  /\ Idle \in Call /\ Idle.op = "idle" /\ Idle.at = "idle"
  BY EmptySeq DEF Idle, Call, Transition

\* A step of caller c that leaves repository and timeline alone.
LEMMA CallStep ==
  ASSUME TypeInv, NEW c \in Caller, NEW n \in Call,
         call' = [call EXCEPT ![c] = n],
         n.at \in {"save", "append"} => n.cur # NoInsight,
         n.op = "resolve" /\ n.at = "find" => n.todo # <<>>
  PROVE  call' \in [Caller -> Call] /\ CallInv'
  BY DEF TypeInv, TypeOK, CallInv

\* The order is one of keys.
LEMMA OrderTyped ==
  ASSUME TypeOK
  PROVE  /\ Len(order) \in Nat /\ DOMAIN order = 1..Len(order)
         /\ \A i \in DOMAIN order : order[i] \in Key
  BY LenProperties, ElementOfSeq DEF TypeOK

LEMMA BeginTyped ==
  ASSUME TypeInv, NEW c \in Caller, Begin(c)
  PROVE  calls' \in Nat /\ overlapped' \in BOOLEAN
         /\ UNCHANGED <<store, order, timeline, torn, firm>>
  <1>1. calls' \in Nat
    BY DEF Begin, TypeInv, TypeOK
  <1>2. overlapped' \in BOOLEAN
    BY Zenon DEF Begin, TypeInv, TypeOK
  <1>3. QED
    BY <1>1, <1>2 DEF Begin

\* What a step needs beyond its call when it writes no insight.
LEMMA RestTyped ==
  ASSUME TypeInv, UNCHANGED <<store, order, timeline>>,
         call' \in [Caller -> Call] /\ CallInv',
         calls' \in Nat, overlapped' \in BOOLEAN, torn' \subseteq Key, firm' \subseteq Key
  PROVE  TypeInv'
  BY DEF TypeInv, TypeOK, StoreInv

\* The insight stored under k is replaced by one with the same key.
LEMMA StoreKept ==
  ASSUME TypeInv, NEW k \in Key, NEW n \in Insight, n.key = k,
         store' = [store EXCEPT ![k] = n], UNCHANGED order
  PROVE  store' \in [Key -> Insight \cup {NoInsight}] /\ StoreInv'
  <1>1. store' \in [Key -> Insight \cup {NoInsight}]
    BY DEF TypeInv, TypeOK
  <1>2. \A i \in DOMAIN order : store'[order[i]] # NoInsight
    BY OrderTyped, NoInsightAssumption DEF TypeInv, TypeOK, StoreInv
  <1>3. \A x \in Key : store'[x] # NoInsight => store'[x].key = x
    BY DEF TypeInv, TypeOK, StoreInv
  <1>4. QED
    BY <1>1, <1>2, <1>3 DEF StoreInv

\* The new record of a detected insight.
LEMMA FindStep ==
  ASSUME TypeInv, NEW c \in Caller, Find(c)
  PROVE  \E n \in Call :
           /\ call' = [call EXCEPT ![c] = n]
           /\ n.op = "reconcile" /\ n.at \in {"find", "save"}
           /\ n.at = "save" =>
                /\ n.cur # NoInsight
                /\ store[n.cur.key] # NoInsight => store[n.cur.key].status # "ARCHIVED"
  <1> DEFINE new == Head(call[c].todo)
             old == store[new.key]
             t == Detected(old)
             next == [call[c] EXCEPT !.todo = Tail(@), !.seen = @ \cup {new.key}]
             n == IF t = "ignored" THEN next
                  ELSE [next EXCEPT !.at = "save", !.cur = Applied(new, old, t), !.kind = t]
  <1>1. call[c] \in Call /\ call[c].todo \in Seq(Insight) /\ call[c].todo # <<>>
        /\ call[c].op = "reconcile" /\ call[c].at = "find"
    BY DEF Find, TypeInv, TypeOK, Call
  <1>2. new \in Insight /\ Tail(call[c].todo) \in Seq(Insight)
    BY <1>1, HeadTailProperties
  <1>3. new.key \in Key /\ old \in Insight \cup {NoInsight}
    BY <1>2 DEF Insight, TypeInv, TypeOK
  <1>4. call' = [call EXCEPT ![c] = n]
    BY DEF Find
  <1> HIDE DEF new
  <1>5. next \in Call /\ next.op = "reconcile" /\ next.at = "find"
    BY <1>1, <1>2, <1>3 DEF Call
  <1> HIDE DEF old, t, next
  <1>6. CASE t = "ignored"
    BY <1>4, <1>5, <1>6
  <1>7. CASE t # "ignored"
    <2>1. t \in Transition
      BY <1>3, <1>7, DetectedTyped DEF t
    <2>2. Applied(new, old, t) \in Insight /\ Applied(new, old, t).key = new.key
      BY <1>2, <1>3, <2>1, AppliedTyped
    <2>3. Applied(new, old, t) # NoInsight
      BY <2>2, NoInsightAssumption
    <2>4. old # NoInsight => old.status # "ARCHIVED"
      BY <1>3, <1>7, DetectedTyped DEF t
    <2> DEFINE r == [next EXCEPT !.at = "save", !.cur = Applied(new, old, t), !.kind = t]
    <2>5. r \in Call /\ r.op = "reconcile" /\ r.at = "save" /\ r.cur = Applied(new, old, t)
      BY <1>5, <2>1, <2>2 DEF Call
    <2>6. call' = [call EXCEPT ![c] = r]
      BY <1>4, <1>7
    <2> HIDE DEF r
    <2>7. r.cur.key = new.key
      BY <2>2, <2>5
    <2>8. store[r.cur.key] = old
      BY <2>7 DEF old
    <2>9. QED
      BY <2>3, <2>4, <2>5, <2>6, <2>8
  <1>8. QED
    BY <1>6, <1>7

\* The records that a reconciliation is going to resolve were active.
LEMMA FindActiveStep ==
  ASSUME TypeInv, NEW c \in Caller, FindActive(c)
  PROVE  \/ call' = [call EXCEPT ![c] = Idle]
         \/ \E n \in Call :
              /\ call' = [call EXCEPT ![c] = n]
              /\ n.op = "resolve" /\ n.at = "find" /\ n.todo # <<>>
              /\ \A i \in DOMAIN n.todo :
                   \E k \in Key : /\ store[k] # NoInsight /\ n.todo[i] = store[k]
                                  /\ store[k].status = "ACTIVE"
  <1> DEFINE left == {i \in DOMAIN order : /\ store[order[i]].status = "ACTIVE"
                                           /\ order[i] \notin call[c].seen}
  <1>1. CASE left = {}
    BY <1>1 DEF FindActive
  <1>2. CASE left # {}
    <2>1. PICK at \in [1..Cardinality(left) -> left] :
            call' = [call EXCEPT ![c] =
                       [Idle EXCEPT !.op = "resolve", !.at = "find",
                                    !.todo = [i \in DOMAIN at |-> store[order[at[i]]]]]]
      BY <1>2 DEF FindActive
    <2> DEFINE todo == [i \in DOMAIN at |-> store[order[at[i]]]]
    <2>2. Cardinality(left) \in Nat /\ Cardinality(left) # 0
      <3>1. IsFiniteSet(1..Len(order))
        <4>1. Len(order) \in Int /\ 1 \in Int
          BY OrderTyped DEF TypeInv
        <4>2. QED
          BY <4>1, FS_Interval
      <3>2. left \subseteq 1..Len(order)
        BY OrderTyped DEF TypeInv
      <3>3. IsFiniteSet(left)
        BY <3>1, <3>2, FS_Subset
      <3>4. QED
        BY <1>2, <3>3, FS_CardinalityType, FS_EmptySet
    <2>3. DOMAIN todo = 1..Cardinality(left)
      OBVIOUS
    <2>4. ASSUME NEW i \in 1..Cardinality(left)
          PROVE  \E k \in Key : /\ store[k] # NoInsight /\ todo[i] = store[k]
                                /\ store[k].status = "ACTIVE"
      <3>1. at[i] \in DOMAIN order /\ store[order[at[i]]].status = "ACTIVE"
        OBVIOUS
      <3>2. order[at[i]] \in Key /\ store[order[at[i]]] # NoInsight
        BY <3>1, OrderTyped DEF TypeInv, StoreInv
      <3>3. todo[i] = store[order[at[i]]]
        OBVIOUS
      <3>4. QED
        BY <3>1, <3>2, <3>3
    <2>5. call' = [call EXCEPT ![c] = [Idle EXCEPT !.op = "resolve", !.at = "find", !.todo = todo]]
      BY <2>1
    <2> HIDE DEF todo, left
    <2>6. todo \in Seq(Insight) /\ todo # <<>>
      <3>1. \A i \in 1..Cardinality(left) : todo[i] \in Insight
        BY <2>4 DEF TypeInv, TypeOK
      <3>2. todo \in [1..Cardinality(left) -> Insight]
        BY <2>3, <3>1 DEF todo
      <3>3. todo \in Seq(Insight)
        BY <2>2, <3>2, SeqDef
      <3>4. todo # <<>>
        BY <2>2, <2>3
      <3>5. QED
        BY <3>3, <3>4
    <2> DEFINE n == [Idle EXCEPT !.op = "resolve", !.at = "find", !.todo = todo]
    <2>7. n \in Call /\ n.op = "resolve" /\ n.at = "find" /\ n.todo = todo
      BY <2>6, IdleTyped DEF Call
    <2>8. call' = [call EXCEPT ![c] = n]
      BY <2>5
    <2> HIDE DEF n
    <2>9. \A i \in DOMAIN n.todo : \E k \in Key : /\ store[k] # NoInsight
                                                  /\ n.todo[i] = store[k]
                                                  /\ store[k].status = "ACTIVE"
      BY <2>3, <2>4, <2>7
    <2>10. n.todo # <<>>
      BY <2>6, <2>7
    <2>11. QED
      BY <2>7, <2>8, <2>9, <2>10, Zenon
  <1>3. QED
    BY <1>1, <1>2
LEMMA HeadTailIn ==
  ASSUME NEW S, NEW s \in Seq(S), s # <<>>
  PROVE  /\ Head(s) \in S /\ Tail(s) \in Seq(S)
         /\ \E i \in DOMAIN s : Head(s) = s[i]
         /\ \A j \in DOMAIN Tail(s) : \E i \in DOMAIN s : Tail(s)[j] = s[i]
  <1>1. /\ Head(s) \in S /\ Tail(s) \in Seq(S) /\ Len(Tail(s)) = Len(s) - 1
        /\ \A i \in 1..Len(Tail(s)) : Tail(s)[i] = s[i + 1]
    BY HeadTailProperties
  <1>2. Len(s) \in Nat \ {0} /\ DOMAIN s = 1..Len(s)
    BY EmptySeq, LenProperties
  <1>3. DOMAIN Tail(s) = 1..Len(Tail(s))
    BY <1>1, LenProperties
  <1>4. Head(s) = s[1] /\ 1 \in DOMAIN s
    BY <1>2
  <1>5. ASSUME NEW j \in DOMAIN Tail(s) PROVE j + 1 \in DOMAIN s /\ Tail(s)[j] = s[j + 1]
    BY <1>1, <1>2, <1>3
  <1>6. QED
    BY <1>1, <1>4, <1>5

LEMMA ResolveStep ==
  ASSUME TypeInv, NEW c \in Caller, Resolve(c)
  PROVE  \E n \in Call :
           /\ call' = [call EXCEPT ![c] = n]
           /\ n.op = "resolve" /\ n.at = "save" /\ n.cur # NoInsight
           /\ \E i \in DOMAIN call[c].todo : n.cur.key = call[c].todo[i].key
           /\ \A j \in DOMAIN n.todo : \E i \in DOMAIN call[c].todo : n.todo[j] = call[c].todo[i]
  <1> DEFINE s == call[c].todo
             a == Applied(Head(s), Head(s), "resolved")
             n == [call[c] EXCEPT !.at = "save", !.todo = Tail(@), !.kind = "resolved", !.cur = a]
  <1>1. call[c] \in Call /\ s \in Seq(Insight) /\ s # <<>> /\ call[c].op = "resolve"
    BY DEF Resolve, TypeInv, TypeOK, Call, CallInv
  <1>2. /\ Head(s) \in Insight /\ Tail(s) \in Seq(Insight)
        /\ \E i \in DOMAIN s : Head(s) = s[i]
        /\ \A j \in DOMAIN Tail(s) : \E i \in DOMAIN s : Tail(s)[j] = s[i]
    BY <1>1, HeadTailIn
  <1>3. "resolved" \in Transition
    BY DEF Transition
  <1>4. a \in Insight /\ a.key = Head(s).key /\ a # NoInsight
    BY <1>2, <1>3, AppliedTyped, NoInsightAssumption
  <1>5. call' = [call EXCEPT ![c] = n]
    BY DEF Resolve
  <1> HIDE DEF a
  <1>6. n \in Call /\ n.op = "resolve" /\ n.at = "save" /\ n.cur = a /\ n.todo = Tail(s)
    BY <1>1, <1>2, <1>3, <1>4 DEF Call
  <1> HIDE DEF n
  <1>7. \E i \in DOMAIN s : n.cur.key = s[i].key
    BY <1>2, <1>4, <1>6
  <1>8. n.cur # NoInsight
    BY <1>4, <1>6
  <1>9. \A j \in DOMAIN n.todo : \E i \in DOMAIN s : n.todo[j] = s[i]
    BY <1>2, <1>6
  <1>10. QED
    BY <1>5, <1>6, <1>7, <1>8, <1>9

LEMMA SaveStep ==
  ASSUME TypeInv, NEW c \in Caller, Save(c)
  PROVE  TypeInv'
  <1> DEFINE new == call[c].cur
             n == [call[c] EXCEPT !.at = "append"]
  <1>1. call[c] \in Call /\ new \in Insight /\ new # NoInsight /\ new.key \in Key
    BY NoInsightAssumption DEF Save, TypeInv, TypeOK, Call, CallInv, Insight
  <1>2. n \in Call /\ n.at = "append" /\ n.cur = new /\ n.op = call[c].op /\ n.todo = call[c].todo
    BY <1>1 DEF Call
  <1>3. call' = [call EXCEPT ![c] = n]
    BY DEF Save
  <1>4. UNCHANGED <<timeline, calls, overlapped, torn, firm>>
        /\ store' = [store EXCEPT ![new.key] = new]
        /\ order' = IF store[new.key] = NoInsight THEN Append(order, new.key) ELSE order
    BY DEF Save
  <1> HIDE DEF new, n
  <1>5. call' \in [Caller -> Call] /\ CallInv'
    BY <1>1, <1>2, <1>3, CallStep
  <1>6. store' \in [Key -> Insight \cup {NoInsight}]
        /\ \A x \in Key : store'[x] = IF x = new.key THEN new ELSE store[x]
    BY <1>1, <1>4 DEF TypeInv, TypeOK
  <1>7. order' \in Seq(Key) /\ \A i \in DOMAIN order' : store'[order'[i]] # NoInsight
    <2>1. CASE store[new.key] = NoInsight
      <3>1. order' = Append(order, new.key)
        BY <1>4, <2>1
      <3>2. order \in Seq(Key)
        BY DEF TypeInv, TypeOK
      <3>3. /\ order' \in Seq(Key) /\ Len(order') = Len(order) + 1
            /\ \A i \in 1..Len(order) : order'[i] = order[i]
            /\ order'[Len(order) + 1] = new.key
        BY <1>1, <3>1, <3>2, AppendProperties
      <3>4. DOMAIN order' = 1..(Len(order) + 1) /\ Len(order) \in Nat /\ DOMAIN order = 1..Len(order)
        BY <3>2, <3>3, LenProperties
      <3>5. ASSUME NEW i \in DOMAIN order' PROVE store'[order'[i]] # NoInsight
        <4>1. CASE i = Len(order) + 1
          BY <1>1, <1>6, <3>3, <4>1
        <4>2. CASE i # Len(order) + 1
          <5>1. i \in DOMAIN order /\ order'[i] = order[i]
            BY <3>3, <3>4, <4>2
          <5>2. order[i] \in Key /\ store[order[i]] # NoInsight
            BY <5>1, OrderTyped DEF TypeInv, StoreInv
          <5>3. QED
            BY <1>1, <1>6, <5>1, <5>2
        <4>3. QED
          BY <4>1, <4>2
      <3>6. QED
        BY <3>3, <3>5
    <2>2. CASE store[new.key] # NoInsight
      <3>1. order' = order
        BY <1>4, <2>2
      <3>2. \A i \in DOMAIN order : order[i] \in Key /\ store[order[i]] # NoInsight
        BY OrderTyped DEF TypeInv, StoreInv
      <3>3. QED
        BY <1>1, <1>6, <3>1, <3>2 DEF TypeInv, TypeOK
    <2>3. QED
      BY <2>1, <2>2
  <1>8. \A k \in Key : store'[k] # NoInsight => store'[k].key = k
    BY <1>1, <1>6 DEF TypeInv, StoreInv
  <1>9. QED
    BY <1>4, <1>5, <1>6, <1>7, <1>8 DEF TypeInv, TypeOK, StoreInv

\* Both write the status of one insight that is saved.
LEMMA SaveArchiveStep ==
  ASSUME TypeInv, NEW c \in Caller, SaveArchive(c)
  PROVE  /\ TypeInv'
         /\ call' = [call EXCEPT ![c] = [call[c] EXCEPT !.at = "append"]]
         /\ \/ UNCHANGED <<store, firm>>
            \/ \E k \in Key :
                 /\ store[k] # NoInsight /\ store'[k].status = "ARCHIVED" /\ store'[k] # NoInsight
                 /\ \A x \in Key : x # k => store'[x] = store[x]
                 /\ \/ firm' = firm
                    \/ firm' = firm \cup {k} /\ ~\E d \in Caller : Pursues(call[d], k)
  <1> DEFINE n == [call[c] EXCEPT !.at = "append"]
  <1>1. call[c] \in Call /\ call[c].cur # NoInsight
    BY DEF SaveArchive, TypeInv, TypeOK, CallInv
  <1>2. n \in Call /\ n.at = "append" /\ n.cur = call[c].cur
    BY <1>1 DEF Call
  <1>3. call' = [call EXCEPT ![c] = n] /\ UNCHANGED <<order, timeline, calls, overlapped, torn>>
    BY DEF SaveArchive
  <1>4. call' \in [Caller -> Call] /\ CallInv'
    <2> HIDE DEF n
    <2> QED
      BY <1>1, <1>2, <1>3, CallStep
  <1>5. CASE UNCHANGED <<store, firm>>
    BY <1>3, <1>4, <1>5, RestTyped DEF TypeInv, TypeOK
  <1>6. ASSUME NEW i \in DOMAIN order,
               store' = [store EXCEPT ![order[i]].status = "ARCHIVED"],
               firm' = IF \E d \in Caller : Pursues(call[d], order[i]) THEN firm
                       ELSE firm \cup {order[i]}
        PROVE  /\ TypeInv'
               /\ store[order[i]] # NoInsight /\ store'[order[i]].status = "ARCHIVED"
               /\ store'[order[i]] # NoInsight /\ order[i] \in Key
               /\ \A x \in Key : x # order[i] => store'[x] = store[x]
    <2> DEFINE k == order[i]
               r == [store[k] EXCEPT !.status = "ARCHIVED"]
    <2>1. k \in Key /\ store[k] # NoInsight /\ store[k] \in Insight /\ store[k].key = k
      BY OrderTyped DEF TypeInv, TypeOK, StoreInv
    <2>2. r \in Insight /\ r.key = k /\ r.status = "ARCHIVED"
      BY <2>1 DEF Insight, Status
    <2>3. store' = [store EXCEPT ![k] = r]
      BY <1>6
    <2> HIDE DEF k, r
    <2>4. store' \in [Key -> Insight \cup {NoInsight}] /\ StoreInv'
      BY <1>3, <2>1, <2>2, <2>3, StoreKept
    <2>5. store'[k] = r /\ \A x \in Key : x # k => store'[x] = store[x]
      BY <2>1, <2>3 DEF TypeInv, TypeOK
    <2>6. firm' \subseteq Key
      BY <1>6, <2>1 DEF TypeInv, TypeOK, k
    <2>7. TypeInv'
      BY <1>3, <1>4, <2>4, <2>6 DEF TypeInv, TypeOK
    <2>8. QED
      BY <2>1, <2>2, <2>5, <2>7, NoInsightAssumption DEF k
  <1>7. QED
    BY <1>3, <1>5, <1>6 DEF SaveArchive

LEMMA SaveReopenStep ==
  ASSUME TypeInv, NEW c \in Caller, SaveReopen(c)
  PROVE  /\ TypeInv'
         /\ \E n \in Call : call' = [call EXCEPT ![c] = n] /\ n.op \in {"idle", "reopen"}
         /\ \/ UNCHANGED <<store, firm>>
            \/ \E k \in Key : /\ \A x \in Key : x # k => store'[x] = store[x]
                              /\ firm' = firm \ {k}
  <1>1. call[c] \in Call /\ call[c].cur \in Insight /\ call[c].op = "reopen"
        /\ UNCHANGED <<order, timeline, calls, overlapped, torn>>
    BY DEF SaveReopen, TypeInv, TypeOK, CallInv, Call
  <1>2. CASE call' = [call EXCEPT ![c] = Idle] /\ UNCHANGED <<store, firm>>
    <2>1. call' \in [Caller -> Call] /\ CallInv'
      BY <1>2, IdleTyped, CallStep
    <2>2. TypeInv'
      BY <1>1, <1>2, <2>1, RestTyped DEF TypeInv, TypeOK
    <2>3. QED
      BY <1>2, <2>2, IdleTyped
  <1>3. ASSUME NEW i \in DOMAIN order,
               store' = [store EXCEPT ![order[i]].status = "ACTIVE", ![order[i]].dated = FALSE],
               firm' = firm \ {order[i]},
               call' = [call EXCEPT ![c].at = "append", ![c].cur.version = store[order[i]].version]
        PROVE  /\ TypeInv'
               /\ \E n \in Call : call' = [call EXCEPT ![c] = n] /\ n.op \in {"idle", "reopen"}
               /\ order[i] \in Key /\ \A x \in Key : x # order[i] => store'[x] = store[x]
    <2> DEFINE k == order[i]
               r == [store[k] EXCEPT !.status = "ACTIVE", !.dated = FALSE]
               cur == [call[c].cur EXCEPT !.version = store[k].version]
               n == [call[c] EXCEPT !.at = "append", !.cur = cur]
    <2>1. k \in Key /\ store[k] # NoInsight /\ store[k] \in Insight /\ store[k].key = k
      BY OrderTyped DEF TypeInv, TypeOK, StoreInv
    <2>2. r \in Insight /\ r.key = k
      BY <2>1 DEF Insight, Status
    <2>3. store' = [store EXCEPT ![k] = r]
      BY <1>3, <2>1 DEF TypeInv, TypeOK
    <2>4. cur \in Insight
      BY <1>1, <2>1 DEF Insight
    <2>5. call' = [call EXCEPT ![c] = n]
      BY <1>1, <1>3 DEF TypeInv, TypeOK
    <2> HIDE DEF r, cur
    <2>6. n \in Call /\ n.at = "append" /\ n.cur = cur /\ n.op = "reopen"
      BY <1>1, <2>4 DEF Call
    <2> HIDE DEF k, n
    <2>7. call' \in [Caller -> Call] /\ CallInv'
      BY <2>4, <2>5, <2>6, CallStep, NoInsightAssumption
    <2>8. store' \in [Key -> Insight \cup {NoInsight}] /\ StoreInv'
      BY <1>1, <2>1, <2>2, <2>3, StoreKept
    <2>9. \A x \in Key : x # k => store'[x] = store[x]
      BY <2>1, <2>3 DEF TypeInv, TypeOK
    <2>10. TypeInv'
      BY <1>1, <1>3, <2>7, <2>8 DEF TypeInv, TypeOK
    <2>11. QED
      BY <2>1, <2>5, <2>6, <2>9, <2>10 DEF k
  <1>4. QED
    BY <1>2, <1>3 DEF SaveReopen
\* A call that starts, looks something up, tells its event or fails.
LEMMA BeginStep ==
  ASSUME TypeInv, NEW c \in Caller,
         BeginReconcile(c) \/ \E k \in Key : BeginArchive(c, k) \/ BeginReopen(c, k)
  PROVE  /\ TypeInv' /\ UNCHANGED <<store, firm>>
         /\ \E n \in Call : call' = [call EXCEPT ![c] = n] /\ n.op # "resolve"
                            /\ (n.op = "reconcile" => n.at = "find")
  <1>1. /\ calls' \in Nat /\ overlapped' \in BOOLEAN
        /\ UNCHANGED <<store, order, timeline, torn, firm>>
    BY BeginTyped DEF BeginReconcile, BeginArchive, BeginReopen
  <1>2. \E n \in Call : /\ call' = [call EXCEPT ![c] = n] /\ n.op # "resolve"
                        /\ (n.op = "reconcile" => n.at = "find")
                        /\ (n.at \in {"save", "append"} => n.cur # NoInsight)
    <2>1. CASE BeginReconcile(c)
      <3>1. PICK m \in Module, facts \in Findings, actions \in Findings :
              \E built \in Builds(m, facts, actions) :
                call' = [call EXCEPT ![c] =
                           [Idle EXCEPT !.op = "reconcile", !.at = "find", !.todo = built]]
        BY <2>1 DEF BeginReconcile
      <3>2. PICK built \in Builds(m, facts, actions) :
              call' = [call EXCEPT ![c] =
                         [Idle EXCEPT !.op = "reconcile", !.at = "find", !.todo = built]]
        BY <3>1
      <3> DEFINE n == [Idle EXCEPT !.op = "reconcile", !.at = "find", !.todo = built]
      <3>3. n \in Call /\ n.op = "reconcile" /\ n.at = "find"
        BY BuildsTyped, IdleTyped DEF Call
      <3>4. call' = [call EXCEPT ![c] = n]
        BY <3>2
      <3> HIDE DEF n
      <3>5. QED
        BY <3>3, <3>4
    <2>2. ASSUME NEW k \in Key, BeginArchive(c, k) \/ BeginReopen(c, k)
          PROVE  \E n \in Call : /\ call' = [call EXCEPT ![c] = n] /\ n.op # "resolve"
                                 /\ (n.op = "reconcile" => n.at = "find")
                                 /\ (n.at \in {"save", "append"} => n.cur # NoInsight)
      <3>1. PICK op \in {"archive", "reopen"}, kind \in {"archived", "reopened"} :
              call' = [call EXCEPT ![c] = [Idle EXCEPT !.op = op, !.at = "save",
                                                       !.cur = store[k], !.kind = kind]]
        BY <2>2 DEF BeginArchive, BeginReopen
      <3> DEFINE n == [Idle EXCEPT !.op = op, !.at = "save", !.cur = store[k], !.kind = kind]
      <3>2. store[k] \in Insight /\ store[k] # NoInsight
        BY <2>2 DEF BeginArchive, BeginReopen, TypeInv, TypeOK
      <3>3. n \in Call /\ n.op = op /\ n.cur = store[k]
        BY <3>2, IdleTyped DEF Call, Transition
      <3>4. call' = [call EXCEPT ![c] = n]
        BY <3>1
      <3> HIDE DEF n
      <3>5. QED
        BY <3>2, <3>3, <3>4
    <2>3. QED
      BY <2>1, <2>2
  <1>3. PICK n \in Call : /\ call' = [call EXCEPT ![c] = n] /\ n.op # "resolve"
                          /\ (n.op = "reconcile" => n.at = "find")
                          /\ (n.at \in {"save", "append"} => n.cur # NoInsight)
    BY <1>2
  <1>4. call' \in [Caller -> Call] /\ CallInv'
    BY <1>3, CallStep
  <1>5. TypeInv'
    BY <1>1, <1>4, RestTyped DEF TypeInv, TypeOK
  <1>6. QED
    BY <1>1, <1>3, <1>5

LEMMA AppendStep ==
  ASSUME TypeInv, NEW c \in Caller, AppendEvent(c)
  PROVE  /\ TypeInv' /\ UNCHANGED <<store, firm>>
         /\ \E n \in Call : /\ call' = [call EXCEPT ![c] = n] /\ n.at # "save"
                            /\ n = Idle \/ (n.op = call[c].op /\ n.todo = call[c].todo)
  <1> DEFINE e == [key |-> call[c].cur.key, type |-> call[c].kind, version |-> call[c].cur.version]
             n == IF call[c].op \in {"archive", "reopen"}
                     \/ (call[c].op = "resolve" /\ call[c].todo = <<>>)
                  THEN Idle ELSE [call[c] EXCEPT !.at = "find"]
  <1>1. call[c] \in Call /\ call[c].cur \in Insight
    BY DEF AppendEvent, TypeInv, TypeOK, CallInv, Call
  <1>2. e \in Event
    BY <1>1 DEF Event, Insight, Call
  <1>3. timeline' = Append(timeline, e) /\ call' = [call EXCEPT ![c] = n]
        /\ UNCHANGED <<store, order, calls, overlapped, torn, firm>>
    BY DEF AppendEvent
  <1>4. timeline' \in Seq(Event)
    <2> HIDE DEF e
    <2>1. timeline \in Seq(Event)
      BY DEF TypeInv, TypeOK
    <2>2. QED
      BY <1>2, <1>3, <2>1, AppendProperties
  <1>5. /\ n \in Call /\ n.at # "save" /\ n.at # "append"
        /\ n = Idle \/ (n.op = call[c].op /\ n.todo = call[c].todo)
        /\ n.op = "resolve" => n.todo # <<>>
    BY <1>1, IdleTyped DEF Call
  <1> HIDE DEF n, e
  <1>6. call' \in [Caller -> Call] /\ CallInv'
    BY <1>3, <1>5, CallStep
  <1>7. TypeInv'
    BY <1>3, <1>4, <1>6 DEF TypeInv, TypeOK, StoreInv
  <1>8. QED
    BY <1>3, <1>5, <1>7

LEMMA FailStep ==
  ASSUME TypeInv, NEW c \in Caller, Fail(c)
  PROVE  TypeInv' /\ call' = [call EXCEPT ![c] = Idle] /\ UNCHANGED <<store, firm>>
  <1>1. call[c].at = "append" => call[c].cur.key \in Key
    BY DEF TypeInv, TypeOK, CallInv, Call, Insight
  <1>2. torn' \subseteq Key
    BY <1>1 DEF Fail, TypeInv, TypeOK
  <1>3. call' = [call EXCEPT ![c] = Idle] /\ UNCHANGED <<store, order, timeline, calls, overlapped, firm>>
    BY DEF Fail
  <1>4. call' \in [Caller -> Call] /\ CallInv'
    BY <1>3, IdleTyped, CallStep
  <1>5. TypeInv'
    BY <1>2, <1>3, <1>4, RestTyped DEF TypeInv, TypeOK
  <1>6. QED
    BY <1>3, <1>5

LEMMA LookUpStep ==
  ASSUME TypeInv, NEW c \in Caller, Find(c) \/ FindActive(c) \/ Resolve(c)
  PROVE  TypeInv' /\ UNCHANGED <<store, firm>>
  <1>1. UNCHANGED <<store, order, timeline, calls, overlapped, torn, firm>>
    BY DEF Find, FindActive, Resolve
  <1>2. call' \in [Caller -> Call] /\ CallInv'
    <2>1. CASE Find(c)
      BY <2>1, FindStep, CallStep
    <2>2. CASE FindActive(c)
      BY <2>2, FindActiveStep, IdleTyped, CallStep
    <2>3. CASE Resolve(c)
      BY <2>3, ResolveStep, CallStep
    <2>4. QED
      BY <2>1, <2>2, <2>3
  <1>3. TypeInv'
    BY <1>1, <1>2, RestTyped DEF TypeInv, TypeOK
  <1>4. QED
    BY <1>1, <1>3

LEMMA InitTyped == Init => TypeInv
  <1>1. <<>> \in Seq(Key) /\ <<>> \in Seq(Event) /\ DOMAIN <<>> = {}
    BY EmptySeq
  <1>2. QED
    <2> SUFFICES ASSUME Init PROVE TypeInv
      OBVIOUS
    <2>1. TypeOK
      BY <1>1, IdleTyped DEF Init, TypeOK
    <2>2. StoreInv
      BY <1>1 DEF Init, StoreInv
    <2>3. CallInv
      BY IdleTyped DEF Init, CallInv
    <2>4. QED
      BY <2>1, <2>2, <2>3 DEF TypeInv

LEMMA StepTyped == TypeInv /\ [Next]_vars => TypeInv'
  <1> SUFFICES ASSUME TypeInv, [Next]_vars
               PROVE  TypeInv'
    OBVIOUS
  <1>1. CASE UNCHANGED vars
    BY <1>1 DEF vars, TypeInv, TypeOK, StoreInv, CallInv
  <1>2. CASE Next
    <2>1. PICK c \in Caller :
            \/ BeginReconcile(c)
            \/ \E k \in Key : BeginArchive(c, k) \/ BeginReopen(c, k)
            \/ Find(c) \/ FindActive(c) \/ Resolve(c)
            \/ Save(c) \/ SaveArchive(c) \/ SaveReopen(c)
            \/ AppendEvent(c) \/ Fail(c)
      BY <1>2 DEF Next
    <2>2. QED
      BY <2>1, BeginStep, LookUpStep, SaveStep, SaveArchiveStep, SaveReopenStep, AppendStep, FailStep
  <1>3. QED
    BY <1>1, <1>2

\* Every reachable state is well typed.
THEOREM TypeCorrect == Spec => []TypeOK
  <1>1. TypeInv => TypeOK
    BY DEF TypeInv
  <1>2. QED
    BY <1>1, InitTyped, StepTyped, PTL DEF Spec
-----------------------------------------------------------------------------
(* What archiving promises *)

\* No reconciliation holds a record of an insight that was archived while none did.
FirmInv ==
  \A k \in firm : /\ store[k] # NoInsight /\ store[k].status = "ARCHIVED"
                  /\ \A c \in Caller : ~Pursues(call[c], k)

\* A step of one call that writes nothing.
LEMMA FirmCall ==
  ASSUME TypeInv, FirmInv, NEW c \in Caller, NEW n, call' = [call EXCEPT ![c] = n],
         UNCHANGED <<store, firm>>, \A k \in firm : ~Pursues(n, k)
  PROVE  FirmInv'
  <1>1. \A d \in Caller : call'[d] = IF d = c THEN n ELSE call[d]
    BY DEF TypeInv, TypeOK
  <1>2. QED
    BY <1>1 DEF FirmInv

LEMMA StepFirm == TypeInv /\ FirmInv /\ [Next]_vars => FirmInv'
  <1> SUFFICES ASSUME TypeInv, FirmInv, [Next]_vars
               PROVE  FirmInv'
    OBVIOUS
  <1>1. CASE UNCHANGED vars
    BY <1>1 DEF vars, FirmInv
  <1>2. ASSUME NEW c \in Caller,
               BeginReconcile(c) \/ \E k \in Key : BeginArchive(c, k) \/ BeginReopen(c, k)
        PROVE  FirmInv'
    <2>1. UNCHANGED <<store, firm>>
          /\ \E n \in Call : call' = [call EXCEPT ![c] = n] /\ n.op # "resolve"
                             /\ (n.op = "reconcile" => n.at = "find")
      BY <1>2, BeginStep
    <2>2. PICK n \in Call : call' = [call EXCEPT ![c] = n] /\ n.op # "resolve"
                            /\ (n.op = "reconcile" => n.at = "find")
      BY <2>1
    <2>3. \A k \in firm : ~Pursues(n, k)
      BY <2>2 DEF Pursues
    <2>4. QED
      BY <2>1, <2>2, <2>3, FirmCall
  <1>3. ASSUME NEW c \in Caller, Find(c) PROVE FirmInv'
    <2>1. PICK n \in Call :
           /\ call' = [call EXCEPT ![c] = n]
           /\ n.op = "reconcile" /\ n.at \in {"find", "save"}
           /\ n.at = "save" =>
                /\ n.cur # NoInsight
                /\ store[n.cur.key] # NoInsight => store[n.cur.key].status # "ARCHIVED"
      BY <1>3, FindStep
    <2>2. \A k \in firm : ~Pursues(n, k)
      BY <2>1 DEF Pursues, FirmInv
    <2>3. QED
      BY <1>3, <2>1, <2>2, FirmCall, LookUpStep
  <1>4. ASSUME NEW c \in Caller, FindActive(c) PROVE FirmInv'
    <2>1. CASE call' = [call EXCEPT ![c] = Idle]
      <3>1. \A k \in firm : ~Pursues(Idle, k)
        BY IdleTyped DEF Pursues
      <3>2. QED
        BY <1>4, <2>1, <3>1, FirmCall, LookUpStep
    <2>2. ASSUME NEW n \in Call, call' = [call EXCEPT ![c] = n],
                 n.op = "resolve" /\ n.at = "find" /\ n.todo # <<>>,
                 \A i \in DOMAIN n.todo :
                   \E k \in Key : /\ store[k] # NoInsight /\ n.todo[i] = store[k]
                                  /\ store[k].status = "ACTIVE"
          PROVE  FirmInv'
      <3>1. ASSUME NEW k \in firm, NEW i \in DOMAIN n.todo PROVE n.todo[i].key # k
        <4>1. PICK x \in Key : store[x] # NoInsight /\ n.todo[i] = store[x] /\ store[x].status = "ACTIVE"
          BY <2>2
        <4>2. store[x].key = x
          BY <4>1 DEF TypeInv, StoreInv
        <4>3. x # k
          BY <4>1 DEF FirmInv
        <4>4. QED
          BY <4>1, <4>2, <4>3
      <3>2. \A k \in firm : ~Pursues(n, k)
        BY <2>2, <3>1 DEF Pursues
      <3>3. QED
        BY <1>4, <2>2, <3>2, FirmCall, LookUpStep
    <2>3. QED
      BY <1>4, <2>1, <2>2, FindActiveStep
  <1>5. ASSUME NEW c \in Caller, Resolve(c) PROVE FirmInv'
    <2>1. PICK n \in Call :
           /\ call' = [call EXCEPT ![c] = n]
           /\ n.op = "resolve" /\ n.at = "save" /\ n.cur # NoInsight
           /\ \E i \in DOMAIN call[c].todo : n.cur.key = call[c].todo[i].key
           /\ \A j \in DOMAIN n.todo : \E i \in DOMAIN call[c].todo : n.todo[j] = call[c].todo[i]
      BY <1>5, ResolveStep
    <2>2. ASSUME NEW k \in firm, NEW i \in DOMAIN call[c].todo PROVE call[c].todo[i].key # k
      BY <1>5 DEF FirmInv, Pursues, Resolve
    <2>3. ASSUME NEW k \in firm PROVE ~Pursues(n, k)
      <3>1. n.cur.key # k
        BY <2>1, <2>2
      <3>2. \A j \in DOMAIN n.todo : n.todo[j].key # k
        BY <2>1, <2>2
      <3>3. QED
        BY <3>1, <3>2 DEF Pursues
    <2>4. QED
      BY <1>5, <2>1, <2>3, FirmCall, LookUpStep
  <1>6. ASSUME NEW c \in Caller, Save(c) PROVE FirmInv'
    <2> DEFINE new == call[c].cur
               n == [call[c] EXCEPT !.at = "append"]
    <2>1. /\ call[c] \in Call /\ call[c].op \in {"reconcile", "resolve"} /\ call[c].at = "save"
          /\ call' = [call EXCEPT ![c] = n] /\ store' = [store EXCEPT ![new.key] = new]
          /\ UNCHANGED firm
      BY <1>6 DEF Save, Reconciling, TypeInv, TypeOK
    <2>2. n.at = "append" /\ n.op = call[c].op /\ n.todo = call[c].todo
      BY <2>1 DEF Call
    <2>3. \A k \in firm : new.key # k
      BY <2>1 DEF FirmInv, Pursues
    <2>4. firm \subseteq Key
      BY DEF TypeInv, TypeOK
    <2>5. \A k \in firm : store'[k] = store[k]
      BY <2>1, <2>3, <2>4 DEF TypeInv, TypeOK
    <2>6. \A k \in firm : ~Pursues(n, k)
      BY <2>1, <2>2 DEF FirmInv, Pursues
    <2> HIDE DEF n
    <2>7. \A d \in Caller : call'[d] = IF d = c THEN n ELSE call[d]
      BY <2>1 DEF TypeInv, TypeOK
    <2>8. QED
      BY <2>1, <2>5, <2>6, <2>7 DEF FirmInv
  <1>7. ASSUME NEW c \in Caller, SaveArchive(c) PROVE FirmInv'
    <2> DEFINE n == [call[c] EXCEPT !.at = "append"]
    <2>1. call[c] \in Call /\ call[c].op = "archive" /\ call' = [call EXCEPT ![c] = n]
      BY <1>7, SaveArchiveStep DEF SaveArchive, TypeInv, TypeOK
    <2>2. n.op = "archive"
      BY <2>1 DEF Call
    <2>3. \A k \in Key : ~Pursues(n, k)
      BY <2>2 DEF Pursues
    <2> HIDE DEF n
    <2>4. \A d \in Caller : call'[d] = IF d = c THEN n ELSE call[d]
      BY <2>1 DEF TypeInv, TypeOK
    <2>5. firm \subseteq Key
      BY DEF TypeInv, TypeOK
    <2>6. CASE UNCHANGED <<store, firm>>
      BY <2>1, <2>3, <2>5, <2>6, FirmCall
    <2>7. ASSUME NEW k \in Key,
                 store'[k].status = "ARCHIVED", store'[k] # NoInsight,
                 \A x \in Key : x # k => store'[x] = store[x],
                 firm' = firm \/ (firm' = firm \cup {k} /\ ~\E d \in Caller : Pursues(call[d], k))
          PROVE  FirmInv'
      <3> SUFFICES ASSUME NEW x \in firm'
                   PROVE  /\ store'[x] # NoInsight /\ store'[x].status = "ARCHIVED"
                          /\ \A d \in Caller : ~Pursues(call'[d], x)
        BY DEF FirmInv
      <3>1. CASE x \in firm
        <4>1. store'[x] # NoInsight /\ store'[x].status = "ARCHIVED"
          BY <2>5, <2>7, <3>1 DEF FirmInv
        <4>2. QED
          BY <2>3, <2>4, <2>5, <3>1, <4>1 DEF FirmInv
      <3>2. CASE x \notin firm
        <4>1. x = k /\ ~\E d \in Caller : Pursues(call[d], k)
          BY <2>7, <3>2
        <4>2. \A d \in Caller : ~Pursues(call[d], x)
          BY <4>1
        <4>3. QED
          BY <2>3, <2>4, <2>7, <4>1, <4>2
      <3>3. QED
        BY <3>1, <3>2
    <2>8. QED
      BY <1>7, <2>6, <2>7, SaveArchiveStep
  <1>8. ASSUME NEW c \in Caller, SaveReopen(c) PROVE FirmInv'
    <2>1. PICK n \in Call : call' = [call EXCEPT ![c] = n] /\ n.op \in {"idle", "reopen"}
      BY <1>8, SaveReopenStep
    <2>2. \A k \in Key : ~Pursues(n, k)
      BY <2>1 DEF Pursues
    <2>3. \A d \in Caller : call'[d] = IF d = c THEN n ELSE call[d]
      BY <2>1 DEF TypeInv, TypeOK
    <2>4. firm \subseteq Key
      BY DEF TypeInv, TypeOK
    <2>5. CASE UNCHANGED <<store, firm>>
      BY <2>1, <2>2, <2>4, <2>5, FirmCall
    <2>6. ASSUME NEW k \in Key, \A x \in Key : x # k => store'[x] = store[x], firm' = firm \ {k}
          PROVE  FirmInv'
      BY <2>2, <2>3, <2>4, <2>6 DEF FirmInv
    <2>7. QED
      BY <1>8, <2>5, <2>6, SaveReopenStep
  <1>9. ASSUME NEW c \in Caller, AppendEvent(c) PROVE FirmInv'
    <2>1. UNCHANGED <<store, firm>>
          /\ \E n \in Call : /\ call' = [call EXCEPT ![c] = n] /\ n.at # "save"
                             /\ n = Idle \/ (n.op = call[c].op /\ n.todo = call[c].todo)
      BY <1>9, AppendStep
    <2>2. PICK n \in Call : /\ call' = [call EXCEPT ![c] = n] /\ n.at # "save"
                            /\ n = Idle \/ (n.op = call[c].op /\ n.todo = call[c].todo)
      BY <2>1
    <2>3. \A k \in firm : ~Pursues(n, k)
      BY <2>2, IdleTyped DEF Pursues, FirmInv
    <2>4. QED
      BY <2>1, <2>2, <2>3, FirmCall
  <1>10. ASSUME NEW c \in Caller, Fail(c) PROVE FirmInv'
    <2>1. \A k \in firm : ~Pursues(Idle, k)
      BY IdleTyped DEF Pursues
    <2>2. QED
      BY <1>10, <2>1, FailStep, FirmCall
  <1>11. QED
    BY <1>1, <1>2, <1>3, <1>4, <1>5, <1>6, <1>7, <1>8, <1>9, <1>10 DEF Next

\* An insight archived while no reconciliation held a record of it stays archived,
\* through all that runs beside and after, until a reopen reaches it.
THEOREM ArchivedStays == Spec => []ArchiveHolds
  <1>1. Init => FirmInv
    BY DEF Init, FirmInv
  <1>2. FirmInv => ArchiveHolds
    BY DEF FirmInv, ArchiveHolds
  <1>3. QED
    BY <1>1, <1>2, InitTyped, StepTyped, StepFirm, PTL DEF Spec

-----------------------------------------------------------------------------
(* What the timeline accounts for *)

\* The events of key k and one of the types in a timeline.
Tally(events, k, types) ==
  Cardinality({i \in DOMAIN events : events[i].key = k /\ events[i].type \in types})

\* An insight of key k is saved and its event, of one of the types, is not told yet.
Owed(k, types) ==
  IF \E c \in Caller : call[c].at = "append" /\ call[c].cur.key = k /\ call[c].kind \in types
  THEN 1 ELSE 0

\* The events and the one that is owed are what the insight counts.
Balanced(k) ==
  IF store[k] = NoInsight
  THEN Told(k, Occurring) = 0 /\ Told(k, Versioning) = 0
  ELSE /\ store[k].count = Told(k, Occurring) + Owed(k, Occurring)
       /\ store[k].version = 1 + Told(k, Versioning) + Owed(k, Versioning)

\* The record to be saved is one step further than the one that is stored.
Prepared(x) ==
  LET old == store[x.cur.key]
  IN IF old = NoInsight
     THEN x.kind = "created" /\ x.cur.count = 1 /\ x.cur.version = 1
     ELSE /\ x.kind \in Versioning
          /\ x.cur.count = OccurrencesAfter(old, x.kind) /\ x.cur.version = old.version + 1

\* What is left to resolve is as it was found, and each of another key.
Current(todo) ==
  /\ \A i \in DOMAIN todo : store[todo[i].key] # NoInsight /\ todo[i] = store[todo[i].key]
  /\ \A i, j \in DOMAIN todo : todo[i].key = todo[j].key => i = j

\* What a call that runs alone knows of the repository.
Informed(x) ==
  /\ x.op = "reconcile" => \A i \in DOMAIN x.todo : x.todo[i].version = 1
  /\ x.op = "resolve" =>
       /\ Current(x.todo)
       /\ x.at = "save" => \A i \in DOMAIN x.todo : x.todo[i].key # x.cur.key
  /\ x.op \in {"reconcile", "resolve"} /\ x.at = "save" => Prepared(x)
  /\ x.op \in {"archive", "reopen"} =>
       x.kind \in {"archived", "reopened"} /\ store[x.cur.key] # NoInsight
  /\ x.at = "append" => store[x.cur.key] # NoInsight

\* No key is listed twice; and as long as calls do not overlap, the call under way
\* is informed and every key whose events were all told is balanced.
OrderInv == \A i, j \in DOMAIN order : order[i] = order[j] => i = j
Alone == \A c, d \in Caller : Open(c) /\ Open(d) => c = d
CountInv ==
  /\ OrderInv
  /\ ~overlapped =>
       /\ Alone
       /\ \A c \in Caller : Open(c) => Informed(call[c])
       /\ \A k \in Key \ torn : Balanced(k)

\* An event is counted by its key and type.
LEMMA TallyAppend ==
  ASSUME NEW s \in Seq(Event), NEW e \in Event, NEW k, NEW types
  PROVE  /\ Tally(s, k, types) \in Nat
         /\ Tally(Append(s, e), k, types)
              = Tally(s, k, types) + (IF e.key = k /\ e.type \in types THEN 1 ELSE 0)
  <1> DEFINE A == {i \in DOMAIN s : s[i].key = k /\ s[i].type \in types}
             t == Append(s, e)
             B == {i \in DOMAIN t : t[i].key = k /\ t[i].type \in types}
  <1>1. Len(s) \in Nat /\ DOMAIN s = 1..Len(s)
    BY LenProperties
  <1>2. /\ t \in Seq(Event) /\ Len(t) = Len(s) + 1
        /\ \A i \in 1..Len(s) : t[i] = s[i]
        /\ t[Len(s) + 1] = e
    BY AppendProperties
  <1>3. DOMAIN t = 1..(Len(s) + 1)
    BY <1>2, LenProperties
  <1>4. IsFiniteSet(A) /\ Cardinality(A) \in Nat
    <2>1. IsFiniteSet(1..Len(s))
      BY <1>1, FS_Interval
    <2>2. A \subseteq 1..Len(s)
      BY <1>1
    <2>3. QED
      BY <2>1, <2>2, FS_Subset, FS_CardinalityType
  <1>5. Len(s) + 1 \notin A
    BY <1>1
  <1>6. B = IF e.key = k /\ e.type \in types THEN A \cup {Len(s) + 1} ELSE A
    <2> HIDE DEF t
    <2>1. \A i \in 1..(Len(s) + 1) : i = Len(s) + 1 \/ i \in 1..Len(s)
      BY <1>1
    <2>2. ASSUME NEW i PROVE i \in B <=> i \in A \/ (i = Len(s) + 1 /\ e.key = k /\ e.type \in types)
      <3>1. CASE i = Len(s) + 1
        BY <1>1, <1>2, <1>3, <1>5, <3>1
      <3>2. CASE i # Len(s) + 1
        <4>1. i \in 1..(Len(s) + 1) <=> i \in 1..Len(s)
          BY <1>1, <3>2
        <4>2. i \in 1..Len(s) => t[i] = s[i]
          BY <1>2
        <4>3. QED
          BY <1>1, <1>3, <3>2, <4>1, <4>2
      <3>3. QED
        BY <3>1, <3>2
    <2> HIDE DEF A, B
    <2>3. QED
      BY <2>2
  <1>7. Cardinality(A \cup {Len(s) + 1}) = Cardinality(A) + 1
    BY <1>4, <1>5, FS_AddElement
  <1>8. Tally(s, k, types) = Cardinality(A) /\ Tally(t, k, types) = Cardinality(B)
    BY DEF Tally
  <1> HIDE DEF A, B, t
  <1>9. QED
    BY <1>4, <1>6, <1>7, <1>8 DEF t

\* What is told by the timeline before and after an event.
LEMMA ToldTyped ==
  ASSUME TypeOK, NEW k, NEW types
  PROVE  Told(k, types) \in Nat
  <1>1. IsFiniteSet(DOMAIN timeline)
    BY LenProperties, FS_Interval DEF TypeOK
  <1>2. {i \in DOMAIN timeline : timeline[i].key = k /\ timeline[i].type \in types} \subseteq DOMAIN timeline
    OBVIOUS
  <1>3. QED
    BY <1>1, <1>2, FS_Subset, FS_CardinalityType DEF Told

LEMMA ToldAppend ==
  ASSUME TypeOK, NEW e \in Event, timeline' = Append(timeline, e), NEW k, NEW types
  PROVE  Told(k, types)' = Told(k, types) + (IF e.key = k /\ e.type \in types THEN 1 ELSE 0)
  <1>1. Told(k, types) = Tally(timeline, k, types)
    BY DEF Told, Tally
  <1>2. Told(k, types)' = Tally(Append(timeline, e), k, types)
    BY DEF Told, Tally
  <1>3. QED
    BY <1>1, <1>2, TallyAppend DEF TypeOK

-----------------------------------------------------------------------------
(* A call that runs alone *)

\* What only the caller c is doing, before and after its step.
LEMMA OwedAlone ==
  ASSUME NEW c \in Caller, Alone, Open(c) \/ \A d \in Caller : ~Open(d), NEW k, NEW types
  PROVE  Owed(k, types) = IF call[c].at = "append" /\ call[c].cur.key = k /\ call[c].kind \in types
                          THEN 1 ELSE 0
  <1>1. \A d \in Caller : call[d].at = "append" => d = c
    BY DEF Alone, Open
  <1>2. QED
    BY <1>1 DEF Owed

\* A step of c that makes n of its call.
LEMMA StepAlone ==
  ASSUME TypeOK, NEW c \in Caller, NEW n, call' = [call EXCEPT ![c] = n],
         Alone, Open(c) \/ \A d \in Caller : ~Open(d)
  PROVE  /\ Alone' /\ call'[c] = n
         /\ \A d \in Caller : Open(d)' => d = c
  <1>1. call'[c] = n /\ \A d \in Caller : d # c => call'[d] = call[d]
    BY DEF TypeOK
  <1>2. \A d \in Caller : d # c => ~Open(d)
    BY DEF Alone
  <1>3. \A d \in Caller : Open(d)' => d = c
    BY <1>1, <1>2 DEF Open
  <1>4. QED
    BY <1>1, <1>3 DEF Alone

\* What is owed after it.
LEMMA OwedStep ==
  ASSUME TypeOK, NEW c \in Caller, NEW n, call' = [call EXCEPT ![c] = n],
         Alone, Open(c) \/ \A d \in Caller : ~Open(d), NEW k, NEW types
  PROVE  Owed(k, types)' = IF n.at = "append" /\ n.cur.key = k /\ n.kind \in types THEN 1 ELSE 0
  <1>1. call'[c] = n /\ \A d \in Caller : Open(d)' => d = c
    BY StepAlone
  <1>2. \A d \in Caller : call'[d].at = "append" => d = c
    BY <1>1 DEF Open
  <1>3. QED
    BY <1>1, <1>2 DEF Owed

\* A step of c keeps the invariant if n is informed and the keys stay balanced.
LEMMA CountStep ==
  ASSUME TypeOK, NEW c \in Caller, NEW n, call' = [call EXCEPT ![c] = n],
         OrderInv', ~overlapped, Alone, Open(c) \/ \A d \in Caller : ~Open(d),
         n.at # "idle" => Informed(n)',
         \A k \in Key \ torn' : Balanced(k)'
  PROVE  CountInv'
  <1>1. call'[c] = n /\ Alone' /\ \A d \in Caller : Open(d)' => d = c
    BY StepAlone
  <1>2. ASSUME NEW d \in Caller, Open(d)' PROVE Informed(call[d])'
    <2>1. d = c
      BY <1>1, <1>2
    <2>2. n.at # "idle" /\ call'[d] = n
      BY <1>1, <1>2, <2>1 DEF Open
    <2>3. Informed(n)'
      BY <2>2
    <2>4. QED
      BY <2>2, <2>3
  <1>3. QED
    BY <1>1, <1>2 DEF CountInv

\* The keys stay balanced when neither repository nor timeline change and nothing
\* was owed and nothing is.
LEMMA Untold ==
  ASSUME TypeOK, NEW c \in Caller, NEW n, call' = [call EXCEPT ![c] = n],
         Alone, Open(c) \/ \A d \in Caller : ~Open(d),
         UNCHANGED <<store, timeline>>, n.at # "append",
         NEW k \in Key, Balanced(k), call[c].at # "append" \/ call[c].cur.key # k
  PROVE  Balanced(k)'
  <1>1. ASSUME NEW types PROVE Owed(k, types) = 0 /\ Owed(k, types)' = 0
    <2>1. Owed(k, types) = IF call[c].at = "append" /\ call[c].cur.key = k /\ call[c].kind \in types
                           THEN 1 ELSE 0
      BY OwedAlone
    <2>2. Owed(k, types)' = IF n.at = "append" /\ n.cur.key = k /\ n.kind \in types
                            THEN 1 ELSE 0
      BY OwedStep
    <2>3. QED
      BY <2>1, <2>2
  <1>2. \A types : Told(k, types)' = Told(k, types)
    BY DEF Told
  <1>3. QED
    BY <1>1, <1>2 DEF Balanced

\* What builders make is at its first version.
LEMMA BuiltFirst ==
  ASSUME NEW m \in Module, NEW facts \in Findings, NEW actions \in Findings,
         NEW built \in Builds(m, facts, actions)
  PROVE  \A i \in DOMAIN built : built[i].version = 1
  <1>1. \E prefix : built = Built(m, prefix, facts, actions)
    <2>1. CASE m = "marketplace"
      BY <2>1 DEF Builds, MarketplaceBuild
    <2>2. CASE m # "marketplace"
      <3>1. m \in {"financial", "inventory", "products", "purchasing", "sales"}
        BY <2>2, LifecycleAssumption
      <3>2. built = Built(m, <<m>>, facts, actions)
        BY <3>1 DEF Builds, FinancialBuild, InventoryBuild, ProductsBuild, PurchasingBuild, SalesBuild
      <3>3. QED
        BY <3>2
    <2>3. QED
      BY <2>1, <2>2
  <1>2. QED
    BY <1>1 DEF Built

\* A call begins alone, or calls overlap from then on.
LEMMA BeginCounts ==
  ASSUME TypeInv, CountInv, NEW c \in Caller,
         BeginReconcile(c) \/ \E k \in Key : BeginArchive(c, k) \/ BeginReopen(c, k)
  PROVE  CountInv'
  <1>1. UNCHANGED <<store, order, timeline, torn>>
        /\ overlapped' = (overlapped \/ \E d \in Caller : Open(d))
    BY DEF BeginReconcile, BeginArchive, BeginReopen, Begin
  <1>2. OrderInv'
    BY <1>1 DEF CountInv, OrderInv
  <1>3. SUFFICES ASSUME ~overlapped' PROVE CountInv'
    BY <1>2, <1>3 DEF CountInv
  <1>4. ~overlapped /\ Alone /\ \A d \in Caller : ~Open(d)
    BY <1>1, <1>3 DEF CountInv
  <1>5. \E n : /\ call' = [call EXCEPT ![c] = n] /\ n.at # "append"
               /\ Informed(n)'
    <2>1. CASE BeginReconcile(c)
      <3>1. PICK m \in Module, facts \in Findings, actions \in Findings :
              \E built \in Builds(m, facts, actions) :
                call' = [call EXCEPT ![c] =
                           [Idle EXCEPT !.op = "reconcile", !.at = "find", !.todo = built]]
        BY <2>1 DEF BeginReconcile
      <3>2. PICK built \in Builds(m, facts, actions) :
              call' = [call EXCEPT ![c] =
                         [Idle EXCEPT !.op = "reconcile", !.at = "find", !.todo = built]]
        BY <3>1
      <3> DEFINE r == [Idle EXCEPT !.op = "reconcile", !.at = "find", !.todo = built]
      <3> PICK n : n = r
        OBVIOUS
      <3>3. n.op = "reconcile" /\ n.at = "find" /\ n.todo = built
        BY DEF Idle
      <3>4. \A i \in DOMAIN built : built[i].version = 1
        BY BuiltFirst
      <3>5. call' = [call EXCEPT ![c] = n]
        BY <3>2
      <3>6. Informed(n)'
        BY <3>3, <3>4 DEF Informed
      <3>7. QED
        BY <3>3, <3>5, <3>6
    <2>2. ASSUME NEW k \in Key, BeginArchive(c, k) \/ BeginReopen(c, k)
          PROVE  \E n : /\ call' = [call EXCEPT ![c] = n] /\ n.at # "append" /\ Informed(n)'
      <3>1. PICK op \in {"archive", "reopen"}, kind \in {"archived", "reopened"} :
              call' = [call EXCEPT ![c] = [Idle EXCEPT !.op = op, !.at = "save",
                                                       !.cur = store[k], !.kind = kind]]
        BY <2>2 DEF BeginArchive, BeginReopen
      <3> DEFINE r == [Idle EXCEPT !.op = op, !.at = "save", !.cur = store[k], !.kind = kind]
      <3> PICK n : n = r
        OBVIOUS
      <3>2. store[k] # NoInsight /\ store[k].key = k
        BY <2>2 DEF BeginArchive, BeginReopen, TypeInv, StoreInv
      <3>3. n.op = op /\ n.at = "save" /\ n.cur = store[k] /\ n.kind = kind
        BY DEF Idle
      <3>4. call' = [call EXCEPT ![c] = n]
        BY <3>1
      <3> HIDE DEF r
      <3>5. n.cur.key = k
        BY <3>2, <3>3
      <3>6. store'[n.cur.key] # NoInsight
        BY <1>1, <3>2, <3>5
      <3>7. Informed(n)'
        BY <3>3, <3>6 DEF Informed
      <3>8. QED
        BY <3>3, <3>4, <3>7
    <2>3. QED
      BY <2>1, <2>2
  <1>6. PICK n : /\ call' = [call EXCEPT ![c] = n] /\ n.at # "append"
                 /\ Informed(n)'
    BY <1>5
  <1>7. ASSUME NEW k \in Key \ torn' PROVE Balanced(k)'
    <2>1. Balanced(k) /\ call[c].at # "append"
      BY <1>1, <1>4, <1>7 DEF CountInv, Open
    <2>2. QED
      BY <1>1, <1>4, <1>6, <2>1, Untold DEF TypeInv
  <1>8. QED
    BY <1>2, <1>4, <1>6, <1>7, CountStep DEF TypeInv

\* The record of a detected insight is one step further than what is stored.
LEMMA AppliedPrepared ==
  ASSUME NEW base \in Insight, NEW old \in Insight \cup {NoInsight}, NEW t \in Transition
  PROVE  LET a == Applied(base, old, t)
         IN /\ a.count = IF old = NoInsight THEN 1 ELSE OccurrencesAfter(old, t)
            /\ a.version = IF old = NoInsight THEN base.version ELSE old.version + 1
  BY DEF Applied, Insight

LEMMA FindCounts ==
  ASSUME TypeInv, CountInv, NEW c \in Caller, Find(c)
  PROVE  CountInv'
  <1> DEFINE new == Head(call[c].todo)
             old == store[new.key]
             t == Detected(old)
             next == [call[c] EXCEPT !.todo = Tail(@), !.seen = @ \cup {new.key}]
             r == [next EXCEPT !.at = "save", !.cur = Applied(new, old, t), !.kind = t]
  <1> PICK n : n = IF t = "ignored" THEN next ELSE r
    OBVIOUS
  <1>1. UNCHANGED <<store, order, timeline, overlapped, torn>> /\ call' = [call EXCEPT ![c] = n]
    BY DEF Find
  <1>2. /\ call[c] \in Call /\ call[c].todo \in Seq(Insight) /\ call[c].todo # <<>>
        /\ call[c].op = "reconcile" /\ call[c].at = "find"
    BY DEF Find, TypeInv, TypeOK, Call
  <1>3. OrderInv'
    BY <1>1 DEF CountInv, OrderInv
  <1>4. SUFFICES ASSUME ~overlapped PROVE CountInv'
    BY <1>1, <1>3, <1>4 DEF CountInv
  <1>5. Open(c) /\ Alone /\ \A i \in DOMAIN call[c].todo : call[c].todo[i].version = 1
    BY <1>2, <1>4 DEF CountInv, Open, Informed
  <1>6. /\ new \in Insight /\ new.version = 1
        /\ \A j \in DOMAIN Tail(call[c].todo) : Tail(call[c].todo)[j].version = 1
    BY <1>2, <1>5, HeadTailIn
  <1>7. new.key \in Key /\ old \in Insight \cup {NoInsight}
    BY <1>6 DEF Insight, TypeInv, TypeOK
  <1>8. next.op = "reconcile" /\ next.at = "find" /\ next.todo = Tail(call[c].todo)
        /\ {"op", "at", "todo", "seen", "cur", "kind"} = DOMAIN next
    BY <1>2 DEF Call
  <1> HIDE DEF new, old, t, next
  <1>9. n.at # "append" /\ Informed(n)
    <2>1. CASE t = "ignored"
      <3>1. n = next
        BY <2>1
      <3>2. Informed(next)
        BY <1>6, <1>8 DEF Informed
      <3>3. QED
        BY <1>8, <3>1, <3>2
    <2>2. CASE t # "ignored"
      <3>1. t \in Transition
        BY <1>7, <2>2, DetectedTyped DEF t
      <3> DEFINE a == Applied(new, old, t)
      <3>2. /\ a.key = new.key
            /\ a.count = IF old = NoInsight THEN 1 ELSE OccurrencesAfter(old, t)
            /\ a.version = IF old = NoInsight THEN 1 ELSE old.version + 1
        BY <1>6, <1>7, <3>1, AppliedTyped, AppliedPrepared
      <3>3. IF old = NoInsight THEN t = "created" ELSE t \in {"updated", "activated"}
        BY <2>2 DEF t, Detected
      <3> HIDE DEF a
      <3>4. /\ r.op = "reconcile" /\ r.at = "save" /\ r.todo = Tail(call[c].todo)
            /\ r.cur = a /\ r.kind = t
        BY <1>8 DEF a
      <3>5. n = r
        BY <2>2
      <3> HIDE DEF r
      <3>6. store[r.cur.key] = old
        BY <3>2, <3>4 DEF old
      <3>7. Prepared(r)
        BY <3>2, <3>3, <3>4, <3>6 DEF Prepared, Versioning
      <3>8. Informed(r)
        BY <1>6, <3>4, <3>7 DEF Informed
      <3>9. QED
        BY <3>4, <3>5, <3>8
    <2>3. QED
      BY <2>1, <2>2
  <1>10. Informed(n)'
    BY <1>1, <1>9 DEF Informed, Current, Prepared
  <1>11. ASSUME NEW k \in Key \ torn' PROVE Balanced(k)'
    BY <1>1, <1>2, <1>4, <1>5, <1>9, <1>11, Untold DEF TypeInv, CountInv
  <1>12. QED
    BY <1>1, <1>3, <1>4, <1>5, <1>10, <1>11, CountStep DEF TypeInv

\* What is found active is what is stored, each of another key.
LEMMA FindActiveCounts ==
  ASSUME TypeInv, CountInv, NEW c \in Caller, FindActive(c)
  PROVE  CountInv'
  <1> DEFINE left == {i \in DOMAIN order : /\ store[order[i]].status = "ACTIVE"
                                           /\ order[i] \notin call[c].seen}
  <1>1. UNCHANGED <<store, order, timeline, overlapped, torn>>
        /\ call[c].op = "reconcile" /\ call[c].at = "find"
    BY DEF FindActive
  <1>2. OrderInv'
    BY <1>1 DEF CountInv, OrderInv
  <1>3. SUFFICES ASSUME ~overlapped PROVE CountInv'
    BY <1>1, <1>2, <1>3 DEF CountInv
  <1>4. Open(c) /\ Alone
    BY <1>1, <1>3 DEF CountInv, Open
  <1>5. \E n : /\ call' = [call EXCEPT ![c] = n] /\ n.at # "append"
               /\ n.at # "idle" => Informed(n)
    <2>1. CASE left = {}
      <3>1. call' = [call EXCEPT ![c] = Idle]
        BY <2>1 DEF FindActive
      <3>2. QED
        BY <3>1, IdleTyped
    <2>2. CASE left # {}
      <3>1. PICK at \in [1..Cardinality(left) -> left] :
              /\ \A i, j \in DOMAIN at : i < j => at[i] < at[j]
              /\ call' = [call EXCEPT ![c] =
                            [Idle EXCEPT !.op = "resolve", !.at = "find",
                                         !.todo = [i \in DOMAIN at |-> store[order[at[i]]]]]]
        BY <2>2 DEF FindActive
      <3> DEFINE todo == [i \in DOMAIN at |-> store[order[at[i]]]]
                 r == [Idle EXCEPT !.op = "resolve", !.at = "find", !.todo = todo]
      <3>2. \A i \in DOMAIN at : at[i] \in DOMAIN order
        OBVIOUS
      <3> HIDE DEF left
      <3>3. ASSUME NEW i \in DOMAIN todo
            PROVE  /\ todo[i].key = order[at[i]] /\ store[todo[i].key] # NoInsight
                   /\ todo[i] = store[todo[i].key]
        <4>1. at[i] \in DOMAIN order /\ todo[i] = store[order[at[i]]]
          BY <3>2
        <4>2. order[at[i]] \in Key /\ store[order[at[i]]] # NoInsight
          BY <4>1, OrderTyped DEF TypeInv, StoreInv
        <4>3. store[order[at[i]]].key = order[at[i]]
          BY <4>2 DEF TypeInv, StoreInv
        <4>4. QED
          BY <4>1, <4>2, <4>3
      <3>4. ASSUME NEW i \in DOMAIN todo, NEW j \in DOMAIN todo, todo[i].key = todo[j].key
            PROVE  i = j
        <4>1. order[at[i]] = order[at[j]]
          BY <3>3, <3>4
        <4>2. at[i] = at[j]
          BY <3>2, <4>1 DEF CountInv, OrderInv
        <4>3. /\ Cardinality(left) \in Nat
              /\ \A m \in DOMAIN at : at[m] \in Nat
          <5>1. DOMAIN order = 1..Len(order) /\ Len(order) \in Nat
            BY OrderTyped DEF TypeInv
          <5>2. IsFiniteSet(left)
            <6>1. IsFiniteSet(1..Len(order))
              BY <5>1, FS_Interval
            <6>2. left \subseteq 1..Len(order)
              BY <5>1 DEF left
            <6>3. QED
              BY <6>1, <6>2, FS_Subset
          <5>3. QED
            BY <3>2, <5>1, <5>2, FS_CardinalityType
        <4>4. i \in Nat /\ j \in Nat
          BY <4>3
        <4>5. ~(i < j) /\ ~(j < i)
          BY <3>1, <4>2, <4>3
        <4>6. QED
          BY <4>4, <4>5
      <3>5. Current(todo)
        BY <3>3, <3>4 DEF Current
      <3> HIDE DEF todo
      <3>6. r.op = "resolve" /\ r.at = "find" /\ r.todo = todo
        BY DEF Idle
      <3>7. call' = [call EXCEPT ![c] = r]
        BY <3>1 DEF todo
      <3> HIDE DEF r
      <3>8. Informed(r)
        BY <3>5, <3>6 DEF Informed
      <3>9. QED
        BY <3>6, <3>7, <3>8
    <2>3. QED
      BY <2>1, <2>2
  <1>6. PICK n : /\ call' = [call EXCEPT ![c] = n] /\ n.at # "append"
                 /\ n.at # "idle" => Informed(n)
    BY <1>5
  <1>7. n.at # "idle" => Informed(n)'
    BY <1>1, <1>6 DEF Informed, Current, Prepared
  <1>8. ASSUME NEW k \in Key \ torn' PROVE Balanced(k)'
    BY <1>1, <1>3, <1>4, <1>6, <1>8, Untold DEF TypeInv, CountInv
  <1>9. QED
    BY <1>1, <1>2, <1>3, <1>4, <1>6, <1>7, <1>8, CountStep DEF TypeInv

\* What is left of a sequence after its head.
LEMMA TailOf ==
  ASSUME NEW S, NEW s \in Seq(S), s # <<>>
  PROVE  /\ Head(s) = s[1] /\ 1 \in DOMAIN s
         /\ \A j \in DOMAIN Tail(s) : j + 1 \in DOMAIN s /\ j + 1 # 1 /\ Tail(s)[j] = s[j + 1]
         /\ DOMAIN Tail(s) \subseteq Nat
  <1>1. /\ Tail(s) \in Seq(S) /\ Len(Tail(s)) = Len(s) - 1
        /\ \A i \in 1..Len(Tail(s)) : Tail(s)[i] = s[i + 1]
    BY HeadTailProperties
  <1>2. Len(s) \in Nat \ {0} /\ DOMAIN s = 1..Len(s)
    BY EmptySeq, LenProperties
  <1>3. DOMAIN Tail(s) = 1..Len(Tail(s))
    BY <1>1, LenProperties
  <1>4. Head(s) = s[1] /\ 1 \in DOMAIN s
    BY <1>2
  <1>5. ASSUME NEW j \in DOMAIN Tail(s)
        PROVE  j + 1 \in DOMAIN s /\ j + 1 # 1 /\ Tail(s)[j] = s[j + 1] /\ j \in Nat
    BY <1>1, <1>2, <1>3
  <1>6. QED
    BY <1>4, <1>5

LEMMA ResolveCounts ==
  ASSUME TypeInv, CountInv, NEW c \in Caller, Resolve(c)
  PROVE  CountInv'
  <1> DEFINE s == call[c].todo
             a == Applied(Head(s), Head(s), "resolved")
  <1> PICK n : n = [call[c] EXCEPT !.at = "save", !.todo = Tail(@), !.kind = "resolved", !.cur = a]
    OBVIOUS
  <1>1. /\ UNCHANGED <<store, order, timeline, overlapped, torn>> /\ call' = [call EXCEPT ![c] = n]
        /\ call[c].op = "resolve" /\ call[c].at = "find"
    BY DEF Resolve
  <1>2. OrderInv'
    BY <1>1 DEF CountInv, OrderInv
  <1>3. SUFFICES ASSUME ~overlapped PROVE CountInv'
    BY <1>1, <1>2, <1>3 DEF CountInv
  <1>4. Open(c) /\ Alone /\ Current(s)
    BY <1>1, <1>3 DEF CountInv, Open, Informed
  <1>5. call[c] \in Call /\ s \in Seq(Insight) /\ s # <<>>
    BY <1>1 DEF TypeInv, TypeOK, Call, CallInv
  <1>6. /\ n.op = "resolve" /\ n.at = "save" /\ n.todo = Tail(s) /\ n.kind = "resolved" /\ n.cur = a
    BY <1>1, <1>5 DEF Call
  <1> HIDE DEF s
  <1>7. /\ Head(s) = s[1] /\ 1 \in DOMAIN s
        /\ \A j \in DOMAIN Tail(s) : j + 1 \in DOMAIN s /\ j + 1 # 1 /\ Tail(s)[j] = s[j + 1]
        /\ DOMAIN Tail(s) \subseteq Nat
    BY <1>5, TailOf
  <1> DEFINE active == s[1]
  <1>8. store[active.key] # NoInsight /\ active = store[active.key]
    BY <1>4, <1>7 DEF Current
  <1>9. active \in Insight /\ "resolved" \in Transition /\ active # NoInsight
    BY <1>5, <1>7, ElementOfSeq, LenProperties, NoInsightAssumption DEF Transition
  <1>10. /\ a.key = active.key /\ a.count = OccurrencesAfter(active, "resolved")
         /\ a.version = active.version + 1
    BY <1>7, <1>9, AppliedTyped, AppliedPrepared
  <1> HIDE DEF a, active
  <1>11. Prepared(n)
    <2>1. store[n.cur.key] = active /\ store[n.cur.key] # NoInsight
      BY <1>6, <1>8, <1>10
    <2>2. n.kind \in Versioning
      BY <1>6 DEF Versioning
    <2>3. QED
      BY <1>6, <1>10, <2>1, <2>2 DEF Prepared
  <1>12. Current(Tail(s))
    <2>1. ASSUME NEW i \in DOMAIN Tail(s), NEW j \in DOMAIN Tail(s), Tail(s)[i].key = Tail(s)[j].key
          PROVE  i = j
      <3>1. i + 1 = j + 1
        BY <1>4, <1>7, <2>1 DEF Current
      <3>2. QED
        BY <1>7, <3>1
    <2>2. \A i \in DOMAIN Tail(s) : /\ store[Tail(s)[i].key] # NoInsight
                                    /\ Tail(s)[i] = store[Tail(s)[i].key]
      BY <1>4, <1>7 DEF Current
    <2>3. QED
      BY <2>1, <2>2 DEF Current
  <1>13. \A i \in DOMAIN Tail(s) : Tail(s)[i].key # active.key
    BY <1>4, <1>7 DEF Current, active
  <1>14. Informed(n)
    BY <1>6, <1>10, <1>11, <1>12, <1>13 DEF Informed
  <1>15. Informed(n)'
    BY <1>1, <1>14 DEF Informed, Current, Prepared
  <1>16. ASSUME NEW k \in Key \ torn' PROVE Balanced(k)'
    BY <1>1, <1>3, <1>4, <1>6, <1>16, Untold DEF TypeInv, CountInv
  <1>17. QED
    BY <1>1, <1>2, <1>3, <1>4, <1>15, <1>16, CountStep DEF TypeInv

\* A saved insight counts one more than its events, and owes that one.
LEMMA SaveCounts ==
  ASSUME TypeInv, CountInv, NEW c \in Caller, Save(c)
  PROVE  CountInv'
  <1> DEFINE new == call[c].cur
             old == store[new.key]
  <1> PICK n : n = [call[c] EXCEPT !.at = "append"]
    OBVIOUS
  <1>1. /\ UNCHANGED <<timeline, overlapped, torn>> /\ call' = [call EXCEPT ![c] = n]
        /\ store' = [store EXCEPT ![new.key] = new]
        /\ order' = IF old = NoInsight THEN Append(order, new.key) ELSE order
        /\ call[c].op \in {"reconcile", "resolve"} /\ call[c].at = "save"
    BY DEF Save, Reconciling
  <1>2. call[c] \in Call /\ new \in Insight /\ new # NoInsight /\ new.key \in Key
    BY <1>1, NoInsightAssumption DEF TypeInv, TypeOK, Call, CallInv, Insight
  <1>3. /\ n.at = "append" /\ n.cur = new /\ n.op = call[c].op /\ n.todo = call[c].todo
        /\ n.kind = call[c].kind
    BY <1>2 DEF Call
  <1>4. OrderInv'
    <2>1. CASE old # NoInsight
      BY <1>1, <2>1 DEF CountInv, OrderInv
    <2>2. CASE old = NoInsight
      <3>1. order \in Seq(Key) /\ Len(order) \in Nat /\ DOMAIN order = 1..Len(order)
        BY OrderTyped DEF TypeInv, TypeOK
      <3>2. /\ order' = Append(order, new.key) /\ order' \in Seq(Key)
            /\ Len(order') = Len(order) + 1
            /\ \A i \in 1..Len(order) : order'[i] = order[i]
            /\ order'[Len(order) + 1] = new.key
        BY <1>1, <1>2, <2>2, <3>1, AppendProperties
      <3>3. DOMAIN order' = 1..(Len(order) + 1)
        BY <3>2, LenProperties
      <3>4. \A i \in 1..Len(order) : order[i] # new.key
        BY <2>2, <3>1 DEF TypeInv, StoreInv
      <3>5. ASSUME NEW i \in 1..(Len(order) + 1), NEW j \in 1..(Len(order) + 1), order'[i] = order'[j]
            PROVE  i = j
        <4>1. CASE i \in 1..Len(order) /\ j \in 1..Len(order)
          BY <3>1, <3>2, <3>5, <4>1 DEF CountInv, OrderInv
        <4>2. CASE i = Len(order) + 1 /\ j \in 1..Len(order)
          BY <3>2, <3>4, <3>5, <4>2
        <4>3. CASE i \in 1..Len(order) /\ j = Len(order) + 1
          BY <3>2, <3>4, <3>5, <4>3
        <4>4. (i = Len(order) + 1 \/ i \in 1..Len(order)) /\ (j = Len(order) + 1 \/ j \in 1..Len(order))
          BY <3>1
        <4>5. QED
          BY <4>1, <4>2, <4>3, <4>4
      <3>6. QED
        BY <3>3, <3>5 DEF OrderInv
    <2>3. QED
      BY <2>1, <2>2
  <1>5. SUFFICES ASSUME ~overlapped PROVE CountInv'
    BY <1>1, <1>4, <1>5 DEF CountInv
  <1>6. Open(c) /\ Alone /\ Informed(call[c])
    BY <1>1, <1>5 DEF CountInv, Open
  <1>7. Prepared(call[c])
    BY <1>1, <1>6 DEF Informed
  <1>8. store'[new.key] = new /\ \A x \in Key : x # new.key => store'[x] = store[x]
    BY <1>1, <1>2 DEF TypeInv, TypeOK
  <1> HIDE DEF new, old
  <1>9. Informed(n)'
    <2>1. n.op = "reconcile" => \A i \in DOMAIN n.todo : n.todo[i].version = 1
      BY <1>3, <1>6 DEF Informed
    <2>2. n.op = "resolve" => Current(n.todo)'
      <3>1. SUFFICES ASSUME n.op = "resolve" PROVE Current(n.todo)'
        OBVIOUS
      <3>2. Current(n.todo) /\ \A i \in DOMAIN n.todo : n.todo[i].key # new.key
        BY <1>1, <1>3, <1>6, <3>1 DEF Informed, new
      <3>3. \A i \in DOMAIN n.todo : n.todo[i].key \in Key
        <4>1. n.todo \in Seq(Insight)
          BY <1>2, <1>3 DEF Call
        <4>2. \A i \in DOMAIN n.todo : n.todo[i] \in Insight
          BY <4>1, LenProperties, ElementOfSeq
        <4>3. QED
          BY <4>2 DEF Insight
      <3>4. QED
        BY <1>8, <3>2, <3>3 DEF Current
    <2>3. store'[n.cur.key] # NoInsight
      BY <1>2, <1>3, <1>8
    <2>4. n.op \notin {"archive", "reopen"}
      BY <1>1, <1>3
    <2>5. QED
      BY <1>3, <2>1, <2>2, <2>3, <2>4 DEF Informed
  <1>12. ASSUME NEW k
         PROVE  /\ Owed(k, Occurring)' = IF n.cur.key = k /\ n.kind \in Occurring THEN 1 ELSE 0
                /\ Owed(k, Versioning)' = IF n.cur.key = k /\ n.kind \in Versioning THEN 1 ELSE 0
    <2>1. /\ TypeOK /\ Alone /\ call' = [call EXCEPT ![c] = n]
          /\ Open(c) \/ \A d \in Caller : ~Open(d)
      BY <1>1, <1>6 DEF TypeInv
    <2>2. call'[c] = n /\ \A d \in Caller : Open(d)' => d = c
      BY <2>1, StepAlone
    <2>3. \A d \in Caller : call'[d].at = "append" => d = c
      BY <2>2 DEF Open
    <2>4. QED
      BY <1>3, <2>2, <2>3 DEF Owed, Occurring, Versioning
  <1>10. ASSUME NEW k \in Key \ torn' PROVE Balanced(k)'
    <2>1. Balanced(k)
      BY <1>1, <1>5, <1>10 DEF CountInv
    <2>2. \A types : Told(k, types)' = Told(k, types)
      BY <1>1 DEF Told
    <2>3. Owed(k, Occurring) = 0 /\ Owed(k, Versioning) = 0
      BY <1>1, <1>6, OwedAlone
    <2>4. /\ Owed(k, Occurring)' = IF new.key = k /\ n.kind \in Occurring THEN 1 ELSE 0
          /\ Owed(k, Versioning)' = IF new.key = k /\ n.kind \in Versioning THEN 1 ELSE 0
      BY <1>3, <1>12
    <2>5. Told(k, Occurring) \in Nat /\ Told(k, Versioning) \in Nat
      BY ToldTyped DEF TypeInv
    <2>6. CASE k # new.key
      <3>1. store'[k] = store[k]
        BY <1>8, <1>10, <2>6
      <3>2. Owed(k, Occurring)' = 0 /\ Owed(k, Versioning)' = 0
        BY <2>4, <2>6
      <3>3. QED
        BY <2>1, <2>2, <2>3, <3>1, <3>2 DEF Balanced
    <2>7. CASE k = new.key
      <3>1. store'[k] = new /\ new # NoInsight
        BY <1>2, <1>8, <2>7
      <3>2. CASE old = NoInsight
        <4>1. n.kind = "created" /\ new.count = 1 /\ new.version = 1
          BY <1>3, <1>7, <3>2 DEF Prepared, new, old
        <4>2. Told(k, Occurring) = 0 /\ Told(k, Versioning) = 0
          BY <2>1, <2>7, <3>2 DEF Balanced, old
        <4>3. Owed(k, Occurring)' = 1 /\ Owed(k, Versioning)' = 0
          BY <2>4, <2>7, <4>1 DEF Occurring, Versioning
        <4>4. QED
          BY <2>2, <3>1, <4>1, <4>2, <4>3 DEF Balanced
      <3>3. CASE old # NoInsight
        <4>1. /\ n.kind \in Versioning /\ new.count = OccurrencesAfter(old, n.kind)
              /\ new.version = old.version + 1
          BY <1>3, <1>7, <3>3 DEF Prepared, new, old
        <4>2. old.count = Told(k, Occurring) /\ old.version = 1 + Told(k, Versioning)
          <5>1. store[k] = old
            BY <2>7 DEF old
          <5>2. /\ old.count = Told(k, Occurring) + Owed(k, Occurring)
                /\ old.version = 1 + Told(k, Versioning) + Owed(k, Versioning)
            BY <2>1, <3>3, <5>1 DEF Balanced
          <5>3. QED
            BY <2>3, <2>5, <5>2
        <4>3. Owed(k, Versioning)' = 1
          BY <2>4, <2>7, <4>1
        <4>4. new.count = Told(k, Occurring) + Owed(k, Occurring)'
          <5>1. CASE n.kind = "resolved"
            BY <2>4, <2>5, <4>1, <4>2, <5>1 DEF OccurrencesAfter, Occurring
          <5>2. CASE n.kind # "resolved"
            BY <2>4, <2>5, <2>7, <4>1, <4>2, <5>2 DEF OccurrencesAfter, Occurring, Versioning
          <5>3. QED
            BY <5>1, <5>2
        <4>5. new.version = 1 + Told(k, Versioning) + Owed(k, Versioning)'
          BY <2>5, <4>1, <4>2, <4>3
        <4>6. QED
          BY <2>2, <3>1, <4>4, <4>5 DEF Balanced
      <3>4. QED
        BY <3>2, <3>3
    <2>8. QED
      BY <2>6, <2>7
  <1>11. QED
    BY <1>1, <1>4, <1>5, <1>6, <1>9, <1>10, CountStep DEF TypeInv

\* Archiving and reopening write a status and a date; their events are counted by none.
LEMMA StatusWritten ==
  ASSUME TypeInv, NEW c \in Caller, NEW n, call' = [call EXCEPT ![c] = n],
         Alone, Open(c), call[c].at # "append", n.kind \in {"archived", "reopened"},
         UNCHANGED timeline, NEW k \in Key, Balanced(k),
         \/ store'[k] = store[k]
         \/ /\ store[k] # NoInsight /\ store'[k] # NoInsight
            /\ store'[k].count = store[k].count /\ store'[k].version = store[k].version
  PROVE  Balanced(k)'
  <1>1. ASSUME NEW types, types \in {Occurring, Versioning}
        PROVE  Owed(k, types) = 0 /\ Owed(k, types)' = 0
    <2>1. Owed(k, types) = 0
      BY OwedAlone
    <2>2. Owed(k, types)' = IF n.at = "append" /\ n.cur.key = k /\ n.kind \in types THEN 1 ELSE 0
      BY OwedStep DEF TypeInv
    <2>3. n.kind \notin types
      BY <1>1 DEF Occurring, Versioning
    <2>4. QED
      BY <2>1, <2>2, <2>3
  <1>2. \A types : Told(k, types)' = Told(k, types)
    BY DEF Told
  <1>3. /\ Owed(k, Occurring) = 0 /\ Owed(k, Occurring)' = 0
        /\ Owed(k, Versioning) = 0 /\ Owed(k, Versioning)' = 0
    BY <1>1
  <1>4. QED
    BY <1>2, <1>3 DEF Balanced

LEMMA SaveArchiveCounts ==
  ASSUME TypeInv, CountInv, NEW c \in Caller, SaveArchive(c)
  PROVE  CountInv'
  <1> PICK n : n = [call[c] EXCEPT !.at = "append"]
    OBVIOUS
  <1>1. /\ UNCHANGED <<order, timeline, overlapped, torn>> /\ call' = [call EXCEPT ![c] = n]
        /\ call[c].op = "archive" /\ call[c].at = "save"
    BY DEF SaveArchive
  <1>2. OrderInv'
    BY <1>1 DEF CountInv, OrderInv
  <1>3. SUFFICES ASSUME ~overlapped PROVE CountInv'
    BY <1>1, <1>2, <1>3 DEF CountInv
  <1>4. Open(c) /\ Alone /\ Informed(call[c])
    BY <1>1, <1>3 DEF CountInv, Open
  <1>5. /\ n.op = "archive" /\ n.at = "append" /\ n.cur = call[c].cur /\ n.kind = call[c].kind
        /\ n.cur.key \in Key
    BY <1>1 DEF TypeInv, TypeOK, CallInv, Call, Insight
  <1>6. n.kind \in {"archived", "reopened"} /\ store[n.cur.key] # NoInsight
    BY <1>1, <1>4, <1>5 DEF Informed
  <1>7. ASSUME NEW k \in Key
        PROVE  \/ store'[k] = store[k]
               \/ /\ store[k] # NoInsight /\ store'[k] # NoInsight
                  /\ store'[k].count = store[k].count /\ store'[k].version = store[k].version
    <2>1. CASE store' = store
      BY <2>1
    <2>2. ASSUME NEW i \in DOMAIN order, store' = [store EXCEPT ![order[i]].status = "ARCHIVED"]
          PROVE  \/ store'[k] = store[k]
                 \/ /\ store[k] # NoInsight /\ store'[k] # NoInsight
                    /\ store'[k].count = store[k].count /\ store'[k].version = store[k].version
      <3>1. CASE k # order[i]
        BY <2>2, <3>1 DEF TypeInv, TypeOK
      <3>2. CASE k = order[i]
        <4>1. store[k] \in Insight /\ store[k] # NoInsight
          BY <3>2, OrderTyped DEF TypeInv, TypeOK, StoreInv
        <4>2. store'[k] = [store[k] EXCEPT !.status = "ARCHIVED"]
          BY <2>2, <3>2 DEF TypeInv, TypeOK
        <4>3. /\ store'[k] \in Insight
              /\ store'[k].count = store[k].count /\ store'[k].version = store[k].version
          BY <4>1, <4>2 DEF Insight, Status
        <4>4. QED
          BY <4>1, <4>3, NoInsightAssumption
      <3>3. QED
        BY <3>1, <3>2
    <2>3. QED
      BY <2>1, <2>2 DEF SaveArchive
  <1>8. ASSUME NEW k \in Key \ torn' PROVE Balanced(k)'
    <2>1. Balanced(k) /\ k \in Key
      BY <1>1, <1>3, <1>8 DEF CountInv
    <2>2. QED
      BY <1>1, <1>4, <1>6, <1>7, <2>1, StatusWritten
  <1>9. Informed(n)'
    <2>1. store'[n.cur.key] # NoInsight
      BY <1>5, <1>6, <1>7
    <2>2. QED
      BY <1>5, <1>6, <2>1 DEF Informed
  <1>10. QED
    BY <1>1, <1>2, <1>3, <1>4, <1>8, <1>9, CountStep DEF TypeInv

LEMMA SaveReopenCounts ==
  ASSUME TypeInv, CountInv, NEW c \in Caller, SaveReopen(c)
  PROVE  CountInv'
  <1>1. /\ UNCHANGED <<order, timeline, overlapped, torn>>
        /\ call[c].op = "reopen" /\ call[c].at = "save"
        /\ call[c] \in Call /\ call[c].cur \in Insight
    BY DEF SaveReopen, TypeInv, TypeOK, CallInv, Call
  <1>2. OrderInv'
    BY <1>1 DEF CountInv, OrderInv
  <1>3. SUFFICES ASSUME ~overlapped PROVE CountInv'
    BY <1>1, <1>2, <1>3 DEF CountInv
  <1>4. Open(c) /\ Alone /\ Informed(call[c])
    BY <1>1, <1>3 DEF CountInv, Open
  <1>5. /\ call[c].kind \in {"archived", "reopened"} /\ store[call[c].cur.key] # NoInsight
        /\ call[c].cur.key \in Key
    BY <1>1, <1>4 DEF Informed, Insight
  <1>6. CASE call' = [call EXCEPT ![c] = Idle] /\ store' = store
    <2>1. Idle.at = "idle"
      BY IdleTyped
    <2> PICK n : n = Idle
      OBVIOUS
    <2>2. ASSUME NEW k \in Key \ torn' PROVE Balanced(k)'
      <3>1. Balanced(k) /\ k \in Key
        BY <1>1, <1>3, <2>2 DEF CountInv
      <3>2. QED
        BY <1>1, <1>4, <1>6, <2>1, <3>1, Untold DEF TypeInv
    <2>3. QED
      BY <1>1, <1>2, <1>3, <1>4, <1>6, <2>1, <2>2, CountStep DEF TypeInv
  <1>7. ASSUME NEW i \in DOMAIN order,
               store' = [store EXCEPT ![order[i]].status = "ACTIVE", ![order[i]].dated = FALSE],
               call' = [call EXCEPT ![c].at = "append", ![c].cur.version = store[order[i]].version]
        PROVE  CountInv'
    <2> PICK n : n = [call[c] EXCEPT !.at = "append",
                        !.cur = [call[c].cur EXCEPT !.version = store[order[i]].version]]
      OBVIOUS
    <2>1. call' = [call EXCEPT ![c] = n]
      BY <1>1, <1>7 DEF TypeInv, TypeOK
    <2>2. /\ n.op = "reopen" /\ n.at = "append" /\ n.kind = call[c].kind
          /\ n.cur.key = call[c].cur.key
      BY <1>1 DEF Call, Insight
    <2>3. ASSUME NEW k \in Key
          PROVE  \/ store'[k] = store[k]
                 \/ /\ store[k] # NoInsight /\ store'[k] # NoInsight
                    /\ store'[k].count = store[k].count /\ store'[k].version = store[k].version
      <3>1. CASE k # order[i]
        BY <1>7, <3>1, OrderTyped DEF TypeInv, TypeOK
      <3>2. CASE k = order[i]
        <4>1. store[k] \in Insight /\ store[k] # NoInsight
          BY <3>2, OrderTyped DEF TypeInv, TypeOK, StoreInv
        <4>2. store'[k] = [store[k] EXCEPT !.status = "ACTIVE", !.dated = FALSE]
          BY <1>7, <3>2, <4>1 DEF TypeInv, TypeOK
        <4>3. /\ store'[k] \in Insight
              /\ store'[k].count = store[k].count /\ store'[k].version = store[k].version
          BY <4>1, <4>2 DEF Insight, Status
        <4>4. QED
          BY <4>1, <4>3, NoInsightAssumption
      <3>3. QED
        BY <3>1, <3>2
    <2>4. ASSUME NEW k \in Key \ torn' PROVE Balanced(k)'
      <3>1. Balanced(k) /\ k \in Key
        BY <1>1, <1>3, <2>4 DEF CountInv
      <3>2. QED
        BY <1>1, <1>4, <1>5, <2>1, <2>2, <2>3, <3>1, StatusWritten
    <2>5. Informed(n)'
      <3>1. store'[n.cur.key] # NoInsight
        BY <1>5, <2>2, <2>3
      <3>2. QED
        BY <1>5, <2>2, <3>1 DEF Informed
    <2>6. QED
      BY <1>1, <1>2, <1>3, <1>4, <2>1, <2>4, <2>5, CountStep DEF TypeInv
  <1>8. QED
    BY <1>6, <1>7 DEF SaveReopen

\* The event that was owed is told.
LEMMA AppendCounts ==
  ASSUME TypeInv, CountInv, NEW c \in Caller, AppendEvent(c)
  PROVE  CountInv'
  <1> DEFINE e == [key |-> call[c].cur.key, type |-> call[c].kind, version |-> call[c].cur.version]
  <1> PICK n : n = IF call[c].op \in {"archive", "reopen"}
                      \/ (call[c].op = "resolve" /\ call[c].todo = <<>>)
                   THEN Idle ELSE [call[c] EXCEPT !.at = "find"]
    OBVIOUS
  <1>1. /\ UNCHANGED <<store, order, overlapped, torn>> /\ call' = [call EXCEPT ![c] = n]
        /\ timeline' = Append(timeline, e) /\ call[c].at = "append"
    BY DEF AppendEvent
  <1>2. call[c] \in Call /\ call[c].cur \in Insight
    BY <1>1 DEF TypeInv, TypeOK, CallInv, Call
  <1>3. e \in Event /\ e.key = call[c].cur.key /\ e.type = call[c].kind
    BY <1>2 DEF Event, Insight, Call
  <1>4. OrderInv'
    BY <1>1 DEF CountInv, OrderInv
  <1>5. SUFFICES ASSUME ~overlapped PROVE CountInv'
    BY <1>1, <1>4, <1>5 DEF CountInv
  <1>6. Open(c) /\ Alone /\ Informed(call[c])
    BY <1>1, <1>5 DEF CountInv, Open
  <1>7. n.at # "append"
    BY <1>2, IdleTyped DEF Call
  <1>8. n.at # "idle" => Informed(n)'
    <2>1. SUFFICES ASSUME n.at # "idle" PROVE Informed(n)'
      OBVIOUS
    <2>2. n = [call[c] EXCEPT !.at = "find"] /\ call[c].op \notin {"archive", "reopen"}
      BY <2>1, IdleTyped
    <2>3. n.at = "find" /\ n.op = call[c].op /\ n.todo = call[c].todo
      BY <1>2, <2>2 DEF Call
    <2>4. n.op = "resolve" => Current(n.todo)'
      BY <1>1, <1>6, <2>3 DEF Informed, Current
    <2>5. QED
      BY <1>6, <2>2, <2>3, <2>4 DEF Informed
  <1> HIDE DEF e
  <1>11. ASSUME NEW k, NEW types PROVE Owed(k, types)' = 0
    <2>1. /\ TypeOK /\ Alone /\ call' = [call EXCEPT ![c] = n]
          /\ Open(c) \/ \A d \in Caller : ~Open(d)
      BY <1>1, <1>6 DEF TypeInv
    <2>2. call'[c] = n /\ \A d \in Caller : Open(d)' => d = c
      BY <2>1, StepAlone
    <2>3. \A d \in Caller : call'[d].at # "append"
      BY <1>7, <2>2 DEF Open
    <2>4. QED
      BY <2>3 DEF Owed
  <1>9. ASSUME NEW k \in Key \ torn' PROVE Balanced(k)'
    <2>1. Balanced(k) /\ k \in Key
      BY <1>1, <1>5, <1>9 DEF CountInv
    <2>2. ASSUME NEW types
          PROVE  /\ Told(k, types)' = Told(k, types) + Owed(k, types)
                 /\ Owed(k, types)' = 0 /\ Told(k, types) \in Nat
      <3>1. Owed(k, types) = IF e.key = k /\ e.type \in types THEN 1 ELSE 0
        BY <1>1, <1>3, <1>6, OwedAlone
      <3>2. Told(k, types)' = Told(k, types) + (IF e.key = k /\ e.type \in types THEN 1 ELSE 0)
        BY <1>1, <1>3, ToldAppend DEF TypeInv
      <3>3. Owed(k, types)' = 0
        BY <1>11
      <3>4. QED
        BY <3>1, <3>2, <3>3, ToldTyped DEF TypeInv
    <2>3. /\ Told(k, Occurring)' = Told(k, Occurring) + Owed(k, Occurring)
          /\ Told(k, Versioning)' = Told(k, Versioning) + Owed(k, Versioning)
          /\ Owed(k, Occurring)' = 0 /\ Owed(k, Versioning)' = 0
          /\ Told(k, Occurring) \in Nat /\ Told(k, Versioning) \in Nat
      BY <2>2
    <2>4. CASE store[k] = NoInsight
      <3>1. e.key # k
        BY <1>1, <1>3, <1>6, <2>4 DEF Informed
      <3>2. Owed(k, Occurring) = 0 /\ Owed(k, Versioning) = 0
        BY <1>1, <1>3, <1>6, <3>1, OwedAlone
      <3>3. QED
        BY <1>1, <2>1, <2>3, <2>4, <3>2 DEF Balanced
    <2>5. CASE store[k] # NoInsight
      <3>1. Owed(k, Versioning) \in Nat /\ Owed(k, Occurring) \in Nat
        BY DEF Owed
      <3>2. QED
        BY <1>1, <2>1, <2>3, <2>5, <3>1 DEF Balanced
    <2>6. QED
      BY <2>4, <2>5
  <1>10. QED
    BY <1>1, <1>4, <1>5, <1>6, <1>8, <1>9, CountStep DEF TypeInv

\* An insight whose event is never told is torn.
LEMMA FailCounts ==
  ASSUME TypeInv, CountInv, NEW c \in Caller, Fail(c)
  PROVE  CountInv'
  <1> PICK n : n = Idle
    OBVIOUS
  <1>1. /\ UNCHANGED <<store, order, timeline, overlapped>> /\ call' = [call EXCEPT ![c] = n]
        /\ torn' = IF call[c].at = "append" THEN torn \cup {call[c].cur.key} ELSE torn
        /\ Open(c) /\ n.at = "idle"
    BY IdleTyped DEF Fail
  <1>2. OrderInv'
    BY <1>1 DEF CountInv, OrderInv
  <1>3. SUFFICES ASSUME ~overlapped PROVE CountInv'
    BY <1>1, <1>2, <1>3 DEF CountInv
  <1>4. Alone
    BY <1>3 DEF CountInv
  <1>5. ASSUME NEW k \in Key \ torn' PROVE Balanced(k)'
    <2>1. k \in Key \ torn /\ (call[c].at # "append" \/ call[c].cur.key # k)
      BY <1>1, <1>5
    <2>2. Balanced(k)
      BY <1>3, <2>1 DEF CountInv
    <2>3. QED
      BY <1>1, <1>4, <2>1, <2>2, Untold DEF TypeInv
  <1>6. QED
    BY <1>1, <1>2, <1>3, <1>4, <1>5, CountStep DEF TypeInv

LEMMA InitCounts == Init => CountInv
  <1> SUFFICES ASSUME Init PROVE CountInv
    OBVIOUS
  <1>1. OrderInv /\ \A c \in Caller : ~Open(c)
    BY IdleTyped DEF Init, OrderInv, Open
  <1>2. ASSUME NEW k \in Key PROVE Balanced(k)
    <2>1. \A types : {i \in DOMAIN timeline : timeline[i].key = k /\ timeline[i].type \in types} = {}
      BY DEF Init
    <2>2. \A types : Told(k, types) = 0
      BY <2>1, FS_EmptySet DEF Told
    <2>3. QED
      BY <2>2 DEF Init, Balanced
  <1>3. QED
    BY <1>1, <1>2 DEF CountInv, Alone

LEMMA StepCounts == TypeInv /\ CountInv /\ [Next]_vars => CountInv'
  <1> SUFFICES ASSUME TypeInv, CountInv, [Next]_vars
               PROVE  CountInv'
    OBVIOUS
  <1>1. CASE UNCHANGED vars
    <2>1. UNCHANGED <<store, order, timeline, call, overlapped, torn>>
      BY <1>1 DEF vars
    <2>2. \A k \in Key : Balanced(k)' = Balanced(k)
      BY <2>1 DEF Balanced, Told, Owed
    <2>3. \A c \in Caller : Informed(call[c])' = Informed(call[c]) /\ Open(c)' = Open(c)
      BY <2>1 DEF Informed, Current, Prepared, Open
    <2>4. QED
      BY <2>1, <2>2, <2>3 DEF CountInv, OrderInv, Alone
  <1>2. CASE Next
    BY <1>2, BeginCounts, FindCounts, FindActiveCounts, ResolveCounts, SaveCounts,
       SaveArchiveCounts, SaveReopenCounts, AppendCounts, FailCounts DEF Next
  <1>3. QED
    BY <1>1, <1>2

-----------------------------------------------------------------------------
(* What the timeline accounts for when calls overlap *)

\* One more when the event of a call is of one of the types.
Own(kind, types) == IF kind \in types THEN 1 ELSE 0

\* An insight counts no more than its events and those that are owed.
Backed(x) ==
  /\ x.count <= Credit(x.key, Occurring)
  /\ x.version <= 1 + Credit(x.key, Versioning)

\* A record to be saved is ahead of that by its own event at most.
Ahead(x) ==
  /\ x.cur.count <= Credit(x.cur.key, Occurring) + Own(x.kind, Occurring)
  /\ x.cur.version <= 1 + Credit(x.cur.key, Versioning) + Own(x.kind, Versioning)

\* What a reconciliation holds, however long ago it was read.
Ledgered(x) ==
  /\ x.op = "reconcile" => \A i \in DOMAIN x.todo : x.todo[i].version = 1
  /\ x.op = "resolve" => \A i \in DOMAIN x.todo : x.todo[i].key \notin torn => Backed(x.todo[i])
  /\ x.op \in {"reconcile", "resolve"} /\ x.at = "save" /\ x.cur.key \notin torn => Ahead(x)

LedgerInv ==
  /\ \A k \in Key \ torn : store[k] # NoInsight => Backed(store[k])
  /\ \A c \in Caller : Ledgered(call[c])

\* Nothing that was credited to an insight is lost, but by a failing append.
Grown ==
  /\ torn \subseteq torn'
  /\ \A k \in Key \ torn' :
       /\ \E a \in Nat : Credit(k, Occurring)' = Credit(k, Occurring) + a
       /\ \E a \in Nat : Credit(k, Versioning)' = Credit(k, Versioning) + a

LEMMA OwersFinite ==
  ASSUME NEW k, NEW types
  PROVE  LET S == {d \in Caller : Owes(call[d], k, types)}
         IN IsFiniteSet(S) /\ Cardinality(S) \in Nat
  <1>1. {d \in Caller : Owes(call[d], k, types)} \subseteq Caller
    OBVIOUS
  <1>2. QED
    BY <1>1, FS_Subset, FS_CardinalityType, LifecycleAssumption

LEMMA CreditTyped ==
  ASSUME TypeOK, NEW k, NEW types
  PROVE  Credit(k, types) \in Nat
  BY ToldTyped, OwersFinite DEF Credit

\* What one call owes, and what all of them do; when c's call becomes n, what c owes.
Debt(x, k, types) == IF Owes(x, k, types) THEN 1 ELSE 0
Debts(k, types) == Cardinality({d \in Caller : Owes(call[d], k, types)})
Settled(m, n, k, types) ==
  Debts(k, types)' + Debt(m, k, types) = Debts(k, types) + Debt(n, k, types)

LEMMA DebtStep ==
  ASSUME TypeOK, NEW c \in Caller, NEW m, m = call[c], NEW n, call' = [call EXCEPT ![c] = n],
         NEW k, NEW types
  PROVE  Settled(m, n, k, types)
  <1> DEFINE S == {d \in Caller : Owes(call[d], k, types)}
             T == {d \in Caller : Owes(call'[d], k, types)}
             O == {d \in Caller : d # c /\ Owes(call[d], k, types)}
  <1>1. call'[c] = n /\ \A d \in Caller : d # c => call'[d] = call[d]
    BY DEF TypeOK
  <1>2. S = IF Owes(call[c], k, types) THEN O \cup {c} ELSE O
    OBVIOUS
  <1>3. T = IF Owes(n, k, types) THEN O \cup {c} ELSE O
    BY <1>1
  <1>4. IsFiniteSet(O) /\ Cardinality(O) \in Nat
    <2>1. O \subseteq Caller
      OBVIOUS
    <2>2. QED
      BY <2>1, FS_Subset, FS_CardinalityType, LifecycleAssumption
  <1>5. c \notin O
    OBVIOUS
  <1>6. Cardinality(O \cup {c}) = Cardinality(O) + 1
    BY <1>4, <1>5, FS_AddElement
  <1>7. Debts(k, types) = Cardinality(S) /\ Debts(k, types)' = Cardinality(T)
    BY DEF Debts, Owes
  <1> HIDE DEF S, T, O
  <1>8. Cardinality(S) = Cardinality(O) + Debt(call[c], k, types)
    BY <1>2, <1>4, <1>6 DEF Debt
  <1>9. Cardinality(T) = Cardinality(O) + Debt(n, k, types)
    BY <1>3, <1>4, <1>6 DEF Debt
  <1>10. Debt(call[c], k, types) \in Nat /\ Debt(n, k, types) \in Nat
    BY DEF Debt
  <1>11. QED
    BY <1>4, <1>7, <1>8, <1>9, <1>10 DEF Settled

\* A step that tells nothing and before which c owes nothing: it credits what n owes.
Credited(n, k, types) == Credit(k, types)' = Credit(k, types) + Debt(n, k, types)

LEMMA CreditSaved ==
  ASSUME TypeOK, NEW c \in Caller, NEW m, m = call[c], NEW n, call' = [call EXCEPT ![c] = n],
         timeline' = timeline, NEW k, NEW types, Debt(m, k, types) = 0
  PROVE  Credited(n, k, types)
  <1>1. Told(k, types)' = Told(k, types)
    BY DEF Told
  <1>2. Told(k, types) \in Nat /\ Debts(k, types) \in Nat
    BY ToldTyped, OwersFinite DEF Debts
  <1>3. Settled(m, n, k, types)
    BY DebtStep
  <1>4. /\ Credit(k, types) = Told(k, types) + Debts(k, types)
        /\ Credit(k, types)' = Told(k, types)' + Debts(k, types)'
    BY DEF Credit, Debts
  <1>5. Debts(k, types)' \in Int
    BY LifecycleAssumption, FS_Subset, FS_CardinalityType DEF Debts
  <1>6. Debt(n, k, types) \in Nat
    BY DEF Debt
  <1>7. QED
    BY <1>1, <1>2, <1>3, <1>4, <1>5, <1>6 DEF Settled, Credited

LEMMA SavedGrows ==
  ASSUME TypeOK, NEW c \in Caller, NEW n, call' = [call EXCEPT ![c] = n],
         UNCHANGED timeline, torn \subseteq torn',
         call[c].at = "append" => call[c].cur.key \in torn'
  PROVE  Grown
  <1>1. ASSUME NEW k \in Key \ torn', NEW types
        PROVE  \E a \in Nat : Credit(k, types)' = Credit(k, types) + a
    <2> PICK m : m = call[c]
      OBVIOUS
    <2>1. Debt(m, k, types) = 0 /\ timeline' = timeline
      BY <1>1 DEF Debt, Owes
    <2>2. Credited(n, k, types)
      BY <2>1, CreditSaved
    <2>3. Credit(k, types)' = Credit(k, types) + Debt(n, k, types)
      BY <2>2 DEF Credited
    <2>4. Debt(n, k, types) \in Nat
      BY DEF Debt
    <2>5. QED
      BY <2>3, <2>4
  <1>2. QED
    BY <1>1 DEF Grown

\* What was read stays backed.
LEMMA BackedStays ==
  ASSUME TypeOK, Grown, NEW x \in Insight, x.key \notin torn', Backed(x)
  PROVE  Backed(x)'
  <1>1. x.key \in Key /\ x.count \in Nat /\ x.version \in Nat
    BY DEF Insight
  <1>2. PICK a \in Nat : Credit(x.key, Occurring)' = Credit(x.key, Occurring) + a
    BY <1>1 DEF Grown
  <1>3. PICK b \in Nat : Credit(x.key, Versioning)' = Credit(x.key, Versioning) + b
    BY <1>1 DEF Grown
  <1>4. Credit(x.key, Occurring) \in Nat /\ Credit(x.key, Versioning) \in Nat
    BY CreditTyped
  <1>5. QED
    BY <1>1, <1>2, <1>3, <1>4 DEF Backed

LEMMA LedgeredStays ==
  ASSUME TypeOK, Grown, NEW x \in Call, Ledgered(x), x.at = "save" => x.cur # NoInsight
  PROVE  Ledgered(x)'
  <1>1. torn \subseteq torn'
    BY DEF Grown
  <1>2. ASSUME x.op = "resolve", NEW i \in DOMAIN x.todo, x.todo[i].key \notin torn'
        PROVE  Backed(x.todo[i])'
    <2>1. x.todo[i] \in Insight
      <3>1. x.todo \in Seq(Insight)
        BY DEF Call
      <3>2. QED
        BY <1>2, <3>1, LenProperties, ElementOfSeq
    <2>2. Backed(x.todo[i])
      BY <1>1, <1>2 DEF Ledgered
    <2>3. QED
      BY <1>2, <2>1, <2>2, BackedStays
  <1>3. ASSUME x.op \in {"reconcile", "resolve"}, x.at = "save", x.cur.key \notin torn'
        PROVE  Ahead(x)'
    <2>1. x.cur \in Insight /\ Ahead(x)
      BY <1>1, <1>3 DEF Ledgered, Call
    <2>2. x.cur.key \in Key /\ x.cur.count \in Nat /\ x.cur.version \in Nat
      BY <2>1 DEF Insight
    <2>3. PICK a \in Nat : Credit(x.cur.key, Occurring)' = Credit(x.cur.key, Occurring) + a
      BY <1>3, <2>2 DEF Grown
    <2>4. PICK b \in Nat : Credit(x.cur.key, Versioning)' = Credit(x.cur.key, Versioning) + b
      BY <1>3, <2>2 DEF Grown
    <2>5. /\ Credit(x.cur.key, Occurring) \in Nat /\ Credit(x.cur.key, Versioning) \in Nat
          /\ Own(x.kind, Occurring) \in Nat /\ Own(x.kind, Versioning) \in Nat
      BY CreditTyped DEF Own
    <2>6. QED
      BY <2>1, <2>2, <2>3, <2>4, <2>5 DEF Ahead
  <1>4. QED
    BY <1>2, <1>3 DEF Ledgered

\* A step of c keeps the ledger if it loses no credit, what it makes of its call is in
\* order, and what it writes is backed.
LEMMA LedgerStep ==
  ASSUME TypeInv, LedgerInv, NEW c \in Caller, NEW n, call' = [call EXCEPT ![c] = n],
         Grown, Ledgered(n)',
         \A k \in Key \ torn' :
           \/ store'[k] = store[k]
           \/ /\ store[k] # NoInsight /\ store'[k] \in Insight
              /\ store'[k].key = store[k].key /\ store'[k].count = store[k].count
              /\ store'[k].version = store[k].version
           \/ \E x : x = store'[k] /\ Backed(x)'
  PROVE  LedgerInv'
  <1>1. torn \subseteq torn'
    BY DEF Grown
  <1>2. ASSUME NEW d \in Caller PROVE Ledgered(call[d])'
    <2>1. CASE d = c
      <3>1. call'[d] = n
        BY <2>1 DEF TypeInv, TypeOK
      <3>2. QED
        BY <3>1
    <2>2. CASE d # c
      <3>1. call'[d] = call[d]
        BY <2>2 DEF TypeInv, TypeOK
      <3> PICK x : x = call[d]
        OBVIOUS
      <3>2. x \in Call /\ Ledgered(x) /\ (x.at = "save" => x.cur # NoInsight)
        BY DEF TypeInv, TypeOK, CallInv, LedgerInv
      <3>3. Ledgered(x)'
        BY <3>2, LedgeredStays DEF TypeInv
      <3>4. QED
        BY <3>1, <3>3
    <2>3. QED
      BY <2>1, <2>2
  <1>3. ASSUME NEW k \in Key \ torn', store'[k] # NoInsight PROVE Backed(store[k])'
    <2> PICK x : x = store[k]
      OBVIOUS
    <2> PICK y : y = store'[k]
      OBVIOUS
    <2>1. ASSUME x # NoInsight PROVE Backed(x)'
      <3>1. x \in Insight /\ x.key = k
        BY <2>1 DEF TypeInv, TypeOK, StoreInv
      <3>2. Backed(x)
        BY <1>1, <2>1 DEF LedgerInv
      <3>3. QED
        BY <3>1, <3>2, BackedStays DEF TypeInv
    <2>2. Backed(y)'
      <3>1. CASE y = x
        BY <1>3, <2>1, <3>1
      <3>2. CASE x # NoInsight /\ y.key = x.key /\ y.count = x.count /\ y.version = x.version
        <4>1. Backed(x)'
          BY <2>1, <3>2
        <4>2. QED
          BY <3>2, <4>1 DEF Backed
      <3>3. QED
        BY <3>1, <3>2
    <2>3. QED
      BY <2>2
  <1>4. QED
    BY <1>2, <1>3 DEF LedgerInv

LEMMA BeginLedger ==
  ASSUME TypeInv, LedgerInv, NEW c \in Caller,
         BeginReconcile(c) \/ \E k \in Key : BeginArchive(c, k) \/ BeginReopen(c, k)
  PROVE  LedgerInv'
  <1>1. UNCHANGED <<store, timeline, torn>> /\ ~Open(c)
    BY DEF BeginReconcile, BeginArchive, BeginReopen, Begin
  <1>2. \E n : call' = [call EXCEPT ![c] = n] /\ Ledgered(n)'
    <2>1. CASE BeginReconcile(c)
      <3>1. PICK m \in Module, facts \in Findings, actions \in Findings :
              \E built \in Builds(m, facts, actions) :
                call' = [call EXCEPT ![c] =
                           [Idle EXCEPT !.op = "reconcile", !.at = "find", !.todo = built]]
        BY <2>1 DEF BeginReconcile
      <3>2. PICK built \in Builds(m, facts, actions) :
              call' = [call EXCEPT ![c] =
                         [Idle EXCEPT !.op = "reconcile", !.at = "find", !.todo = built]]
        BY <3>1
      <3> PICK n : n = [Idle EXCEPT !.op = "reconcile", !.at = "find", !.todo = built]
        OBVIOUS
      <3>3. n.op = "reconcile" /\ n.at = "find" /\ n.todo = built
        BY DEF Idle
      <3>4. \A i \in DOMAIN built : built[i].version = 1
        BY BuiltFirst
      <3>5. call' = [call EXCEPT ![c] = n]
        BY <3>2
      <3>6. QED
        BY <3>3, <3>4, <3>5 DEF Ledgered
    <2>2. ASSUME NEW k \in Key, BeginArchive(c, k) \/ BeginReopen(c, k)
          PROVE  \E n : call' = [call EXCEPT ![c] = n] /\ Ledgered(n)'
      <3>1. PICK op \in {"archive", "reopen"}, kind \in {"archived", "reopened"} :
              call' = [call EXCEPT ![c] = [Idle EXCEPT !.op = op, !.at = "save",
                                                       !.cur = store[k], !.kind = kind]]
        BY <2>2 DEF BeginArchive, BeginReopen
      <3> PICK n : n = [Idle EXCEPT !.op = op, !.at = "save", !.cur = store[k], !.kind = kind]
        OBVIOUS
      <3>2. n.op = op
        BY DEF Idle
      <3>3. call' = [call EXCEPT ![c] = n]
        BY <3>1
      <3>4. QED
        BY <3>2, <3>3 DEF Ledgered
    <2>3. QED
      BY <2>1, <2>2
  <1>3. PICK n : call' = [call EXCEPT ![c] = n] /\ Ledgered(n)'
    BY <1>2
  <1>4. Grown
    BY <1>1, <1>3, SavedGrows DEF Open, TypeInv
  <1>5. QED
    BY <1>1, <1>3, <1>4, LedgerStep

\* A step that looks something up: what it makes of the call is in order before and after.
LEMMA LookUpLedger ==
  ASSUME TypeInv, LedgerInv, NEW c \in Caller, NEW n \in Call, call' = [call EXCEPT ![c] = n],
         Ledgered(n), n.at = "save" => n.cur # NoInsight,
         call[c].at # "append", UNCHANGED <<store, timeline, torn>>
  PROVE  LedgerInv'
  <1>1. Grown
    BY SavedGrows DEF TypeInv
  <1>2. Ledgered(n)'
    BY <1>1, LedgeredStays DEF TypeInv
  <1>3. QED
    BY <1>1, <1>2, LedgerStep

\* The record of a detected insight is ahead of what is stored by one event.
LEMMA FindLedger ==
  ASSUME TypeInv, LedgerInv, NEW c \in Caller, Find(c)
  PROVE  LedgerInv'
  <1> DEFINE new == Head(call[c].todo)
             old == store[new.key]
             t == Detected(old)
             next == [call[c] EXCEPT !.todo = Tail(@), !.seen = @ \cup {new.key}]
             r == [next EXCEPT !.at = "save", !.cur = Applied(new, old, t), !.kind = t]
  <1> PICK n : n = IF t = "ignored" THEN next ELSE r
    OBVIOUS
  <1>1. UNCHANGED <<store, timeline, torn>> /\ call' = [call EXCEPT ![c] = n]
    BY DEF Find
  <1>2. /\ call[c] \in Call /\ call[c].todo \in Seq(Insight) /\ call[c].todo # <<>>
        /\ call[c].op = "reconcile" /\ call[c].at = "find"
    BY DEF Find, TypeInv, TypeOK, Call
  <1>3. \A i \in DOMAIN call[c].todo : call[c].todo[i].version = 1
    BY <1>2 DEF LedgerInv, Ledgered
  <1>4. /\ new \in Insight /\ new.version = 1 /\ Tail(call[c].todo) \in Seq(Insight)
        /\ \A j \in DOMAIN Tail(call[c].todo) : Tail(call[c].todo)[j].version = 1
    BY <1>2, <1>3, HeadTailIn
  <1>5. new.key \in Key /\ old \in Insight \cup {NoInsight}
    BY <1>4 DEF Insight, TypeInv, TypeOK
  <1>6. /\ next \in Call /\ next.op = "reconcile" /\ next.at = "find"
        /\ next.todo = Tail(call[c].todo)
    BY <1>2, <1>4, <1>5 DEF Call
  <1> HIDE DEF new, old, t, next
  <1>7. n \in Call /\ Ledgered(n) /\ (n.at = "save" => n.cur # NoInsight)
    <2>1. CASE t = "ignored"
      <3>1. n = next
        BY <2>1
      <3>2. Ledgered(next)
        BY <1>4, <1>6 DEF Ledgered
      <3>3. QED
        BY <1>6, <3>1, <3>2
    <2>2. CASE t # "ignored"
      <3>1. t \in Transition
        BY <1>5, <2>2, DetectedTyped DEF t
      <3> DEFINE a == Applied(new, old, t)
      <3>2. /\ a \in Insight /\ a # NoInsight /\ a.key = new.key
            /\ a.count = IF old = NoInsight THEN 1 ELSE OccurrencesAfter(old, t)
            /\ a.version = IF old = NoInsight THEN 1 ELSE old.version + 1
        BY <1>4, <1>5, <3>1, AppliedTyped, AppliedPrepared, NoInsightAssumption
      <3>3. IF old = NoInsight THEN t = "created" ELSE t \in {"updated", "activated"}
        BY <2>2 DEF t, Detected
      <3> HIDE DEF a
      <3>4. /\ r \in Call /\ r.op = "reconcile" /\ r.at = "save" /\ r.todo = Tail(call[c].todo)
            /\ r.cur = a /\ r.kind = t
        BY <1>6, <3>1, <3>2 DEF a, Call
      <3>5. n = r
        BY <2>2
      <3> HIDE DEF r
      <3>6. ASSUME a.key \notin torn PROVE Ahead(r)
        <4>1. Credit(a.key, Occurring) \in Nat /\ Credit(a.key, Versioning) \in Nat
          BY CreditTyped DEF TypeInv
        <4>2. CASE old = NoInsight
          <5>1. Own(t, Occurring) = 1 /\ Own(t, Versioning) = 0
            BY <3>3, <4>2 DEF Own, Occurring, Versioning
          <5>2. QED
            BY <3>2, <3>4, <4>1, <4>2, <5>1 DEF Ahead
        <4>3. CASE old # NoInsight
          <5>1. Own(t, Occurring) = 1 /\ Own(t, Versioning) = 1
            BY <3>3, <4>3 DEF Own, Occurring, Versioning
          <5>2. old \in Insight /\ old.key = a.key /\ Backed(old)
            BY <1>5, <3>2, <3>6, <4>3 DEF old, LedgerInv, TypeInv, StoreInv
          <5>3. old.count \in Nat /\ old.version \in Nat
            BY <5>2 DEF Insight
          <5>4. a.count = old.count + 1 /\ a.version = old.version + 1
            BY <3>2, <3>3, <4>3 DEF OccurrencesAfter
          <5>5. /\ old.count <= Credit(a.key, Occurring)
                /\ old.version <= 1 + Credit(a.key, Versioning)
            BY <5>2 DEF Backed
          <5>6. /\ a.count <= Credit(a.key, Occurring) + 1
                /\ a.version <= 1 + Credit(a.key, Versioning) + 1
            BY <4>1, <5>3, <5>4, <5>5
          <5>7. QED
            BY <3>4, <5>1, <5>6 DEF Ahead
        <4>4. QED
          BY <4>2, <4>3
      <3>7. Ledgered(r)
        BY <1>4, <3>4, <3>6 DEF Ledgered
      <3>8. QED
        BY <3>2, <3>4, <3>5, <3>7
    <2>3. QED
      BY <2>1, <2>2
  <1>8. QED
    BY <1>1, <1>2, <1>7, LookUpLedger

\* What is found active is what is stored.
LEMMA FindActiveLedger ==
  ASSUME TypeInv, LedgerInv, NEW c \in Caller, FindActive(c)
  PROVE  LedgerInv'
  <1>1. UNCHANGED <<store, timeline, torn>> /\ call[c].at = "find"
    BY DEF FindActive
  <1>2. CASE call' = [call EXCEPT ![c] = Idle]
    <2>1. Idle \in Call /\ Ledgered(Idle) /\ (Idle.at = "save" => Idle.cur # NoInsight)
      BY IdleTyped DEF Ledgered
    <2>2. QED
      BY <1>1, <1>2, <2>1, LookUpLedger
  <1>3. ASSUME NEW n \in Call, call' = [call EXCEPT ![c] = n],
               n.op = "resolve" /\ n.at = "find" /\ n.todo # <<>>,
               \A i \in DOMAIN n.todo :
                 \E k \in Key : /\ store[k] # NoInsight /\ n.todo[i] = store[k]
                                /\ store[k].status = "ACTIVE"
        PROVE  LedgerInv'
    <2>1. ASSUME NEW i \in DOMAIN n.todo, n.todo[i].key \notin torn PROVE Backed(n.todo[i])
      <3>1. PICK k \in Key : store[k] # NoInsight /\ n.todo[i] = store[k]
        BY <1>3
      <3>2. k \notin torn
        BY <2>1, <3>1 DEF TypeInv, StoreInv
      <3>3. QED
        BY <3>1, <3>2 DEF LedgerInv
    <2>2. Ledgered(n)
      BY <1>3, <2>1 DEF Ledgered
    <2>3. QED
      BY <1>1, <1>3, <2>2, LookUpLedger
  <1>4. QED
    BY <1>2, <1>3, FindActiveStep

\* The record of an insight that is resolved is one version ahead of what was found.
LEMMA ResolveLedger ==
  ASSUME TypeInv, LedgerInv, NEW c \in Caller, Resolve(c)
  PROVE  LedgerInv'
  <1> DEFINE s == call[c].todo
             old == Head(s)
             a == Applied(old, old, "resolved")
  <1> PICK n : n = [call[c] EXCEPT !.at = "save", !.todo = Tail(@), !.kind = "resolved", !.cur = a]
    OBVIOUS
  <1>1. UNCHANGED <<store, timeline, torn>> /\ call' = [call EXCEPT ![c] = n]
    BY DEF Resolve
  <1>2. /\ call[c] \in Call /\ s \in Seq(Insight) /\ s # <<>>
        /\ call[c].op = "resolve" /\ call[c].at = "find"
    BY DEF Resolve, TypeInv, TypeOK, Call, CallInv
  <1>3. /\ old \in Insight /\ Tail(s) \in Seq(Insight)
        /\ \E i \in DOMAIN s : old = s[i]
        /\ \A j \in DOMAIN Tail(s) : \E i \in DOMAIN s : Tail(s)[j] = s[i]
    BY <1>2, HeadTailIn
  <1>4. \A i \in DOMAIN s : s[i].key \notin torn => Backed(s[i])
    BY <1>2 DEF LedgerInv, Ledgered
  <1> HIDE DEF old
  <1>5. "resolved" \in Transition /\ old # NoInsight
    BY <1>3, NoInsightAssumption DEF Transition
  <1>6. /\ a \in Insight /\ a # NoInsight /\ a.key = old.key
        /\ a.count = OccurrencesAfter(old, "resolved") /\ a.version = old.version + 1
    BY <1>3, <1>5, AppliedTyped, AppliedPrepared, NoInsightAssumption
  <1> HIDE DEF a
  <1>7. /\ n \in Call /\ n.op = "resolve" /\ n.at = "save" /\ n.todo = Tail(s)
        /\ n.cur = a /\ n.kind = "resolved"
    BY <1>2, <1>3, <1>5, <1>6 DEF Call
  <1>8. ASSUME a.key \notin torn PROVE Ahead(n)
    <2>1. Backed(old) /\ old.count \in Nat /\ old.version \in Nat
      BY <1>3, <1>4, <1>6, <1>8 DEF Insight
    <2>2. Credit(a.key, Occurring) \in Nat /\ Credit(a.key, Versioning) \in Nat
      BY CreditTyped DEF TypeInv
    <2>3. Own("resolved", Occurring) = 0 /\ Own("resolved", Versioning) = 1
      BY DEF Own, Occurring, Versioning
    <2>4. a.count = old.count
      BY <1>6 DEF OccurrencesAfter
    <2>5. /\ old.count <= Credit(a.key, Occurring)
          /\ old.version <= 1 + Credit(a.key, Versioning)
      BY <1>6, <2>1 DEF Backed
    <2>6. /\ a.count <= Credit(a.key, Occurring) + 0
          /\ a.version <= 1 + Credit(a.key, Versioning) + 1
      BY <1>6, <2>1, <2>2, <2>4, <2>5
    <2>7. QED
      BY <1>7, <2>3, <2>6 DEF Ahead
  <1>9. Ledgered(n)
    BY <1>3, <1>4, <1>7, <1>8 DEF Ledgered
  <1>10. QED
    BY <1>1, <1>2, <1>6, <1>7, <1>9, LookUpLedger

\* A record that is saved is backed: its own event is owed from now on.
LEMMA SaveLedger ==
  ASSUME TypeInv, LedgerInv, NEW c \in Caller, Save(c)
  PROVE  LedgerInv'
  <1> PICK m : m = call[c]
    OBVIOUS
  <1> PICK new : new = m.cur
    OBVIOUS
  <1> PICK n : n = [m EXCEPT !.at = "append"]
    OBVIOUS
  <1>1. /\ UNCHANGED <<timeline, torn>> /\ call' = [call EXCEPT ![c] = n]
        /\ store' = [store EXCEPT ![new.key] = new]
        /\ m.op \in {"reconcile", "resolve"} /\ m.at = "save"
    BY DEF Save, Reconciling
  <1>2. m \in Call /\ new \in Insight /\ new.key \in Key
    BY <1>1 DEF TypeInv, TypeOK, Call, CallInv, Insight
  <1>3. /\ n.at = "append" /\ n.cur = new /\ n.op = m.op /\ n.todo = m.todo
        /\ n.kind = m.kind /\ n \in Call
    BY <1>2 DEF Call
  <1>4. Grown
    BY <1>1, SavedGrows DEF TypeInv
  <1>5. Ledgered(m)
    BY DEF LedgerInv
  <1>6. Ledgered(n)'
    <2>1. Ledgered(n)
      BY <1>3, <1>5 DEF Ledgered
    <2>2. QED
      BY <1>3, <1>4, <2>1, LedgeredStays DEF TypeInv
  <1>7. ASSUME new.key \notin torn PROVE Backed(new)'
    <2> PICK k : k = new.key
      OBVIOUS
    <2>1. Ahead(m)
      BY <1>1, <1>5, <1>7 DEF Ledgered
    <2>2. ASSUME NEW types PROVE Credit(k, types)' = Credit(k, types) + Own(m.kind, types)
      <3>1. Debt(m, k, types) = 0
        BY <1>1 DEF Debt, Owes
      <3>2. timeline' = timeline /\ TypeOK /\ call' = [call EXCEPT ![c] = n]
        BY <1>1 DEF TypeInv
      <3>3. Credited(n, k, types)
        BY <3>1, <3>2, CreditSaved
      <3>4. Debt(n, k, types) = Own(m.kind, types)
        BY <1>3 DEF Debt, Owes, Own
      <3>5. QED
        BY <3>3, <3>4 DEF Credited
    <2>3. /\ Credit(k, Occurring)' = Credit(k, Occurring) + Own(m.kind, Occurring)
          /\ Credit(k, Versioning)' = Credit(k, Versioning) + Own(m.kind, Versioning)
      BY <2>2
    <2>4. /\ new.count <= Credit(k, Occurring) + Own(m.kind, Occurring)
          /\ new.version <= 1 + Credit(k, Versioning) + Own(m.kind, Versioning)
      BY <2>1 DEF Ahead
    <2>5. /\ Credit(k, Occurring) \in Nat /\ Credit(k, Versioning) \in Nat
          /\ Own(m.kind, Occurring) \in Nat /\ Own(m.kind, Versioning) \in Nat
          /\ new.count \in Nat /\ new.version \in Nat
      BY <1>2, CreditTyped DEF Own, TypeInv, Insight
    <2>6. QED
      BY <2>3, <2>4, <2>5 DEF Backed
  <1>8. ASSUME NEW k \in Key \ torn'
        PROVE  store'[k] = store[k] \/ \E x : x = store'[k] /\ Backed(x)'
    <2>1. CASE k = new.key
      <3>1. store'[k] = new
        BY <1>1, <1>2, <2>1 DEF TypeInv, TypeOK
      <3>2. Backed(new)'
        BY <1>1, <1>7, <1>8, <2>1
      <3>3. QED
        BY <3>1, <3>2
    <2>2. CASE k # new.key
      BY <1>1, <1>8, <2>2 DEF TypeInv, TypeOK
    <2>3. QED
      BY <2>1, <2>2
  <1>9. QED
    BY <1>1, <1>4, <1>6, <1>8, LedgerStep

\* A status is written and a date; a record of archive or reopen is no reconciliation's.
LEMMA StatusLedger ==
  ASSUME TypeInv, LedgerInv, NEW c \in Caller, NEW n, call' = [call EXCEPT ![c] = n],
         call[c].at = "save", n.op \notin {"reconcile", "resolve"},
         UNCHANGED <<timeline, torn>>,
         \A k \in Key :
           \/ store'[k] = store[k]
           \/ /\ store[k] # NoInsight /\ store'[k] \in Insight
              /\ store'[k].key = store[k].key /\ store'[k].count = store[k].count
              /\ store'[k].version = store[k].version
  PROVE  LedgerInv'
  <1>1. Grown
    BY SavedGrows DEF TypeInv
  <1>2. Ledgered(n)'
    BY DEF Ledgered
  <1>3. QED
    BY <1>1, <1>2, LedgerStep

LEMMA SaveArchiveLedger ==
  ASSUME TypeInv, LedgerInv, NEW c \in Caller, SaveArchive(c)
  PROVE  LedgerInv'
  <1> PICK n : n = [call[c] EXCEPT !.at = "append"]
    OBVIOUS
  <1>1. /\ UNCHANGED <<timeline, torn>> /\ call' = [call EXCEPT ![c] = n]
        /\ call[c].op = "archive" /\ call[c].at = "save"
    BY DEF SaveArchive
  <1>2. n.op = "archive"
    BY <1>1 DEF TypeInv, TypeOK, Call
  <1>3. ASSUME NEW k \in Key
        PROVE  \/ store'[k] = store[k]
               \/ /\ store[k] # NoInsight /\ store'[k] \in Insight
                  /\ store'[k].key = store[k].key /\ store'[k].count = store[k].count
                  /\ store'[k].version = store[k].version
    <2>1. CASE store' = store
      BY <2>1
    <2>2. ASSUME NEW i \in DOMAIN order, store' = [store EXCEPT ![order[i]].status = "ARCHIVED"]
          PROVE  \/ store'[k] = store[k]
                 \/ /\ store[k] # NoInsight /\ store'[k] \in Insight
                    /\ store'[k].key = store[k].key /\ store'[k].count = store[k].count
                    /\ store'[k].version = store[k].version
      <3>1. CASE k # order[i]
        BY <2>2, <3>1 DEF TypeInv, TypeOK
      <3>2. CASE k = order[i]
        <4>1. store[k] \in Insight /\ store[k] # NoInsight
          BY <3>2, OrderTyped DEF TypeInv, TypeOK, StoreInv
        <4>2. store'[k] = [store[k] EXCEPT !.status = "ARCHIVED"]
          BY <2>2, <3>2 DEF TypeInv, TypeOK
        <4>3. QED
          BY <4>1, <4>2 DEF Insight, Status
      <3>3. QED
        BY <3>1, <3>2
    <2>3. QED
      BY <2>1, <2>2 DEF SaveArchive
  <1>4. QED
    BY <1>1, <1>2, <1>3, StatusLedger

LEMMA SaveReopenLedger ==
  ASSUME TypeInv, LedgerInv, NEW c \in Caller, SaveReopen(c)
  PROVE  LedgerInv'
  <1>1. /\ UNCHANGED <<timeline, torn>> /\ call[c].op = "reopen" /\ call[c].at = "save"
        /\ call[c] \in Call /\ call[c].cur \in Insight
    BY DEF SaveReopen, TypeInv, TypeOK, CallInv, Call
  <1>2. CASE call' = [call EXCEPT ![c] = Idle] /\ store' = store
    <2> PICK n : n = Idle
      OBVIOUS
    <2>1. n.op = "idle" /\ call' = [call EXCEPT ![c] = n]
      BY <1>2, IdleTyped
    <2>2. QED
      BY <1>1, <1>2, <2>1, StatusLedger
  <1>3. ASSUME NEW i \in DOMAIN order,
               store' = [store EXCEPT ![order[i]].status = "ACTIVE", ![order[i]].dated = FALSE],
               call' = [call EXCEPT ![c].at = "append", ![c].cur.version = store[order[i]].version]
        PROVE  LedgerInv'
    <2> PICK n : n = [call[c] EXCEPT !.at = "append",
                        !.cur = [call[c].cur EXCEPT !.version = store[order[i]].version]]
      OBVIOUS
    <2>1. call' = [call EXCEPT ![c] = n]
      BY <1>1, <1>3 DEF TypeInv, TypeOK
    <2>2. n.op = "reopen"
      BY <1>1 DEF Call
    <2>3. ASSUME NEW k \in Key
          PROVE  \/ store'[k] = store[k]
                 \/ /\ store[k] # NoInsight /\ store'[k] \in Insight
                    /\ store'[k].key = store[k].key /\ store'[k].count = store[k].count
                    /\ store'[k].version = store[k].version
      <3>1. CASE k # order[i]
        BY <1>3, <3>1, OrderTyped DEF TypeInv, TypeOK
      <3>2. CASE k = order[i]
        <4>1. store[k] \in Insight /\ store[k] # NoInsight
          BY <3>2, OrderTyped DEF TypeInv, TypeOK, StoreInv
        <4>2. store'[k] = [store[k] EXCEPT !.status = "ACTIVE", !.dated = FALSE]
          BY <1>3, <3>2, <4>1 DEF TypeInv, TypeOK
        <4>3. QED
          BY <4>1, <4>2 DEF Insight, Status
      <3>3. QED
        BY <3>1, <3>2
    <2>4. QED
      BY <1>1, <2>1, <2>2, <2>3, StatusLedger
  <1>4. QED
    BY <1>2, <1>3 DEF SaveReopen

\* The event that is told is no longer owed.
LEMMA AppendLedger ==
  ASSUME TypeInv, LedgerInv, NEW c \in Caller, AppendEvent(c)
  PROVE  LedgerInv'
  <1> PICK m : m = call[c]
    OBVIOUS
  <1> DEFINE e == [key |-> m.cur.key, type |-> m.kind, version |-> m.cur.version]
  <1> PICK n : n = IF m.op \in {"archive", "reopen"} \/ (m.op = "resolve" /\ m.todo = <<>>)
                   THEN Idle ELSE [m EXCEPT !.at = "find"]
    OBVIOUS
  <1>1. /\ UNCHANGED <<store, torn>> /\ call' = [call EXCEPT ![c] = n]
        /\ timeline' = Append(timeline, e) /\ m.at = "append"
    BY DEF AppendEvent
  <1>2. m \in Call /\ m.cur \in Insight
    BY <1>1 DEF TypeInv, TypeOK, CallInv, Call
  <1>3. e \in Event /\ e.key = m.cur.key /\ e.type = m.kind
    BY <1>2 DEF Event, Insight, Call
  <1>4. n.at # "append" /\ n.at # "save" /\ n \in Call
    BY <1>2, IdleTyped DEF Call
  <1> HIDE DEF e
  <1>5. ASSUME NEW k, NEW types PROVE Credit(k, types)' = Credit(k, types)
    <2>1. Settled(m, n, k, types)
      BY <1>1, DebtStep DEF TypeInv
    <2>2. Debt(n, k, types) = 0
      BY <1>4 DEF Debt, Owes
    <2>3. Told(k, types)' = Told(k, types) + (IF e.key = k /\ e.type \in types THEN 1 ELSE 0)
      BY <1>1, <1>3, ToldAppend DEF TypeInv
    <2>4. Debt(m, k, types) = IF e.key = k /\ e.type \in types THEN 1 ELSE 0
      BY <1>1, <1>3 DEF Debt, Owes
    <2>5. Told(k, types)' = Told(k, types) + Debt(m, k, types)
      BY <2>3, <2>4
    <2>6. /\ Told(k, types) \in Nat /\ Debts(k, types) \in Nat /\ Debt(m, k, types) \in Nat
      BY ToldTyped, OwersFinite DEF Debts, Debt, TypeInv
    <2>7. Debts(k, types)' \in Int
      BY LifecycleAssumption, FS_Subset, FS_CardinalityType DEF Debts
    <2>8. Debts(k, types)' + Debt(m, k, types) = Debts(k, types)
      BY <2>1, <2>2, <2>6 DEF Settled
    <2>9. /\ Credit(k, types) = Told(k, types) + Debts(k, types)
          /\ Credit(k, types)' = Told(k, types)' + Debts(k, types)'
      BY DEF Credit, Debts
    <2>10. QED
      BY <2>5, <2>6, <2>7, <2>8, <2>9
  <1>6. Grown
    <2>1. ASSUME NEW k \in Key \ torn', NEW types
          PROVE  \E a \in Nat : Credit(k, types)' = Credit(k, types) + a
      <3>1. Credit(k, types)' = Credit(k, types) /\ Credit(k, types) \in Nat
        BY <1>5, CreditTyped DEF TypeInv
      <3>2. Credit(k, types)' = Credit(k, types) + 0
        BY <3>1
      <3>3. QED
        BY <3>2
    <2>2. QED
      BY <1>1, <2>1 DEF Grown
  <1>7. Ledgered(n)'
    <2>1. Ledgered(m)
      BY DEF LedgerInv
    <2>2. n = Idle \/ (n.op = m.op /\ n.todo = m.todo)
      BY <1>2 DEF Call
    <2>3. Ledgered(n)
      BY <1>4, <2>1, <2>2, IdleTyped DEF Ledgered
    <2>4. QED
      BY <1>4, <1>6, <2>3, LedgeredStays DEF TypeInv
  <1>8. QED
    BY <1>1, <1>6, <1>7, LedgerStep

\* A key whose event is never told is torn.
LEMMA FailLedger ==
  ASSUME TypeInv, LedgerInv, NEW c \in Caller, Fail(c)
  PROVE  LedgerInv'
  <1> PICK n : n = Idle
    OBVIOUS
  <1>1. /\ UNCHANGED <<store, timeline>> /\ call' = [call EXCEPT ![c] = n]
        /\ torn' = IF call[c].at = "append" THEN torn \cup {call[c].cur.key} ELSE torn
        /\ n.op = "idle"
    BY IdleTyped DEF Fail
  <1>2. torn \subseteq torn' /\ (call[c].at = "append" => call[c].cur.key \in torn')
    BY <1>1
  <1>3. Grown
    BY <1>1, <1>2, SavedGrows DEF TypeInv
  <1>4. Ledgered(n)'
    BY <1>1 DEF Ledgered
  <1>5. QED
    BY <1>1, <1>3, <1>4, LedgerStep

LEMMA InitLedger == Init => LedgerInv
  BY IdleTyped DEF Init, LedgerInv, Ledgered

LEMMA StepLedger == TypeInv /\ LedgerInv /\ [Next]_vars => LedgerInv'
  <1> SUFFICES ASSUME TypeInv, LedgerInv, [Next]_vars
               PROVE  LedgerInv'
    OBVIOUS
  <1>1. CASE UNCHANGED vars
    <2>1. UNCHANGED <<store, timeline, call, torn>>
      BY <1>1 DEF vars
    <2>2. \A k, types : Credit(k, types)' = Credit(k, types)
      BY <2>1 DEF Credit, Told
    <2>3. \A x : Backed(x)' = Backed(x) /\ Ahead(x)' = Ahead(x)
      BY <2>2 DEF Backed, Ahead
    <2>4. \A x : Ledgered(x)' = Ledgered(x)
      BY <2>1, <2>3 DEF Ledgered
    <2>5. QED
      BY <2>1, <2>3, <2>4 DEF LedgerInv
  <1>2. CASE Next
    BY <1>2, BeginLedger, FindLedger, FindActiveLedger, ResolveLedger, SaveLedger,
       SaveArchiveLedger, SaveReopenLedger, AppendLedger, FailLedger DEF Next
  <1>3. QED
    BY <1>1, <1>2

\* As long as no append fails, an insight never counts an occurrence or a version that
\* no event tells of or is about to, however calls overlap; and while they do not, the
\* occurrences and the version are exactly what its events add up to.
THEOREM CountsAreTold == Spec => []CountsTold
  <1>1. ASSUME TypeInv, CountInv, LedgerInv PROVE CountsTold
    <2> SUFFICES ASSUME NEW k \in Key \ torn, store[k] # NoInsight
                 PROVE  /\ store[k].count <= Credit(k, Occurring)
                        /\ store[k].version <= 1 + Credit(k, Versioning)
                        /\ ~overlapped /\ ~Pending(k) =>
                             /\ store[k].count = Told(k, Occurring)
                             /\ store[k].version = 1 + Told(k, Versioning)
      BY DEF CountsTold
    <2>1. /\ store[k].count <= Credit(k, Occurring)
          /\ store[k].version <= 1 + Credit(k, Versioning)
      BY <1>1 DEF LedgerInv, Backed, TypeInv, StoreInv
    <2>2. ASSUME ~overlapped, ~Pending(k)
          PROVE  /\ store[k].count = Told(k, Occurring)
                 /\ store[k].version = 1 + Told(k, Versioning)
      <3>1. Owed(k, Occurring) = 0 /\ Owed(k, Versioning) = 0
        BY <2>2 DEF Owed, Pending
      <3>2. Told(k, Occurring) \in Nat /\ Told(k, Versioning) \in Nat
        BY <1>1, ToldTyped DEF TypeInv
      <3>3. QED
        BY <1>1, <2>2, <3>1, <3>2 DEF CountInv, Balanced
    <2>3. QED
      BY <2>1, <2>2
  <1>2. QED
    BY <1>1, InitTyped, StepTyped, InitCounts, StepCounts, InitLedger, StepLedger, PTL DEF Spec

-----------------------------------------------------------------------------
(* Narratives *)

Texts == [key : Key, run : BOOLEAN,
          refs : SUBSET [field : {"status", "resolvedAt"}, right : BOOLEAN],
          warned : BOOLEAN, complete : BOOLEAN]

\* A text that says only what the input says.
Faithful(input, text) ==
  /\ text.key = input.insight.key /\ text.run
  /\ \A r \in text.refs : r.right

\* The template does.
LEMMA TemplateFaithful ==
  ASSUME NEW input
  PROVE  Faithful(input, Template(input))
BY DEF Faithful, Template

\* So does what the guard finds nothing wrong with.
LEMMA GuardFaithful ==
  ASSUME NEW input, NEW text, ~Violated(input, text)
  PROVE  Faithful(input, text)
BY DEF Faithful, Violated

\* Whether a text is warned about changes nothing else of it.
LEMMA Warned ==
  ASSUME NEW input, NEW text, NEW w,
         text \in Texts \/ text = Template(input), Faithful(input, text)
  PROVE  Faithful(input, [text EXCEPT !.warned = w])
<1>1. {"key", "run", "refs", "warned", "complete"} = DOMAIN text
  BY DEF Texts, Template
<1>2. /\ [text EXCEPT !.warned = w].key = text.key
      /\ [text EXCEPT !.warned = w].run = text.run
      /\ [text EXCEPT !.warned = w].refs = text.refs
  BY <1>1
<1>3. QED
  BY <1>2 DEF Faithful

\* What is delivered is faithful, with or without a provider.
LEMMA GeneratedFaithful ==
  ASSUME NEW input, NEW external \in BOOLEAN, NEW answer \in Answers
  PROVE  Faithful(input, Generated(input, external, answer))
<1> DEFINE given == IF external /\ answer # NoText THEN answer ELSE Template(input)
           wrong == Violated(input, given)
           final == IF wrong /\ external THEN Template(input) ELSE given
<1>1. given \in Texts \/ given = Template(input)
  BY DEF Answers, Texts
<1>2. ~external => given = Template(input)
  OBVIOUS
<1>3. Generated(input, external, answer) = [final EXCEPT !.warned = final.warned \/ wrong]
  BY DEF Generated
<1> HIDE DEF given
<1>4. Faithful(input, final)
  BY <1>2, TemplateFaithful, GuardFaithful
<1>5. final \in Texts \/ final = Template(input)
  BY <1>1
<1> HIDE DEF final, wrong
<1>6. QED
  BY <1>3, <1>4, <1>5, Warned

\* The reader is a record of four fields, and tells only what is faithful.
ReaderOK == {"at", "insight", "input", "out"} = DOMAIN reader /\ NarrativeFaithful

\* Each step keeps it.
LEMMA ReaderStep == ReaderOK /\ [NarrativeNext]_NarrativeVars => ReaderOK'
<1> SUFFICES ASSUME ReaderOK, [NarrativeNext]_NarrativeVars
             PROVE  ReaderOK'
  OBVIOUS
<1>1. CASE UNCHANGED reader
  BY <1>1 DEF NarrativeFaithful, ReaderOK
<1>2. ASSUME NEW k \in Key, ReadInsight(k) PROVE ReaderOK'
  <2>1. reader' = [at |-> "events", insight |-> store[k], input |-> NoText, out |-> NoText]
    BY <1>2 DEF ReadInsight, NoReader
  <2>2. QED
    BY <2>1 DEF NarrativeFaithful, ReaderOK
<1>3. CASE Deliver
  BY <1>3 DEF Deliver, NoReader, NarrativeFaithful, ReaderOK
<1>4. CASE Generate
  <2>1. PICK bare \in BOOLEAN, external \in BOOLEAN, answer \in Answers :
          LET input == NarrativeInput(reader.insight, OwnEvents(reader.insight.key), bare)
          IN reader' = [reader EXCEPT !.at = "told", !.input = input,
                                      !.out = Generated(input, external, answer)]
    BY <1>4 DEF Generate
  <2> DEFINE input == NarrativeInput(reader.insight, OwnEvents(reader.insight.key), bare)
  <2>2. Faithful(input, Generated(input, external, answer))
    BY GeneratedFaithful
  <2>3. input.insight = reader.insight
    BY DEF NarrativeInput
  <2>4. reader' = [reader EXCEPT !.at = "told", !.input = input,
                                 !.out = Generated(input, external, answer)]
    BY <2>1
  <2> HIDE DEF input
  <2>5. /\ {"at", "insight", "input", "out"} = DOMAIN reader'
        /\ reader'.out = Generated(input, external, answer)
        /\ reader'.insight = reader.insight
    BY <2>4 DEF ReaderOK
  <2>6. QED
    BY <2>2, <2>3, <2>5 DEF NarrativeFaithful, Faithful, ReaderOK
<1>5. QED
  BY <1>1, <1>2, <1>3, <1>4 DEF NarrativeNext, NarrativeVars

\* Whatever a provider answers, the narrative that is delivered is about the insight
\* that was asked for and refers to nothing but values of its context.
THEOREM NarrativesFaithful == NarrativeSpec => []NarrativeFaithful
<1>1. NarrativeInit => ReaderOK
  BY DEF NarrativeInit, NoReader, NarrativeFaithful, ReaderOK
<1>2. ReaderOK => NarrativeFaithful
  BY DEF ReaderOK
<1>3. QED
  BY <1>1, <1>2, ReaderStep, PTL DEF NarrativeSpec

-----------------------------------------------------------------------------
(* The context of a narrative *)

\* Reading changes nothing of the lifecycle.
LEMMA StepRead == [NarrativeNext]_NarrativeVars => [Next]_vars
  BY DEF NarrativeNext, NarrativeVars, ReadInsight, Generate, Deliver

\* The narratives leave the lifecycle as it is without them.
THEOREM NarrativesReadOnly == NarrativeSpec => Spec
  <1>1. NarrativeInit => Init
    BY DEF NarrativeInit
  <1>2. QED
    BY <1>1, StepRead, PTL DEF NarrativeSpec, Spec

\* The own events of an insight that are of some types are what the timeline tells.
LEMMA OwnTold ==
  ASSUME NEW k, NEW types
  PROVE  Cardinality({i \in DOMAIN OwnEvents(k) : OwnEvents(k)[i].type \in types}) = Told(k, types)
  <1>1. DOMAIN OwnEvents(k) = OwnAt(k) /\ \A i \in OwnAt(k) : OwnEvents(k)[i] = timeline[i]
    BY DEF OwnEvents, Restrict
  <1>2. {i \in DOMAIN OwnEvents(k) : OwnEvents(k)[i].type \in types}
          = {i \in DOMAIN timeline : timeline[i].key = k /\ timeline[i].type \in types}
    BY <1>1 DEF OwnAt
  <1>3. QED
    BY <1>2 DEF Told

\* What was told stays told, what overlapped did, and what is torn stays torn.
LEMMA StepForward ==
  ASSUME TypeInv, [Next]_vars
  PROVE  /\ overlapped => overlapped'
         /\ torn \subseteq torn'
         /\ \A k, types : Told(k, types)' \in Nat /\ Told(k, types)' >= Told(k, types)
  <1>1. ASSUME timeline' = timeline PROVE \A k, types : Told(k, types)' \in Nat /\ Told(k, types)' >= Told(k, types)
    <2>1. \A k, types : Told(k, types)' = Told(k, types) /\ Told(k, types) \in Nat
      BY <1>1, ToldTyped DEF Told, TypeInv
    <2>2. QED
      BY <2>1
  <1>2. CASE UNCHANGED vars
    BY <1>1, <1>2 DEF vars
  <1>3. ASSUME NEW c \in Caller,
               \/ BeginReconcile(c)
               \/ \E k \in Key : BeginArchive(c, k) \/ BeginReopen(c, k)
        PROVE  /\ timeline' = timeline /\ torn' = torn /\ (overlapped => overlapped')
    BY <1>3 DEF BeginReconcile, BeginArchive, BeginReopen, Begin
  <1>4. ASSUME NEW c \in Caller,
               \/ Find(c) \/ FindActive(c) \/ Resolve(c)
               \/ Save(c) \/ SaveArchive(c) \/ SaveReopen(c)
        PROVE  UNCHANGED <<timeline, torn, overlapped>>
    BY <1>4 DEF Find, FindActive, Resolve, Save, SaveArchive, SaveReopen
  <1>5. ASSUME NEW c \in Caller, Fail(c)
        PROVE  timeline' = timeline /\ torn \subseteq torn' /\ overlapped' = overlapped
    BY <1>5 DEF Fail
  <1>6. ASSUME NEW c \in Caller, AppendEvent(c)
        PROVE  /\ UNCHANGED <<torn, overlapped>>
               /\ \A k, types : Told(k, types)' \in Nat /\ Told(k, types)' >= Told(k, types)
    <2> DEFINE e == [key |-> call[c].cur.key, type |-> call[c].kind, version |-> call[c].cur.version]
    <2>1. /\ UNCHANGED <<torn, overlapped>> /\ timeline' = Append(timeline, e)
          /\ call[c].at = "append"
      BY <1>6 DEF AppendEvent
    <2>2. e \in Event
      BY <2>1 DEF TypeInv, TypeOK, CallInv, Call, Event, Insight
    <2> HIDE DEF e
    <2>3. ASSUME NEW k, NEW types PROVE Told(k, types)' \in Nat /\ Told(k, types)' >= Told(k, types)
      BY <2>1, <2>2, ToldAppend, ToldTyped DEF TypeInv
    <2>4. QED
      BY <2>1, <2>3
  <1>7. QED
    BY <1>1, <1>2, <1>3, <1>4, <1>5, <1>6 DEF Next

\* An insight that is stored is at most one version ahead of its events, and one that
\* was read at most one more than what is told when its events are read.
ReaderInv ==
  /\ ReaderOK
  /\ reader.at \in {"events", "told"} => reader.insight \in Insight
  /\ reader.at = "events" /\ ~overlapped /\ reader.insight.key \notin torn =>
       reader.insight.version <= Told(reader.insight.key, Versioning) + 2
  /\ ContextCovered

\* The lifecycle goes on while a narrative is prepared.
LEMMA LifecycleReader ==
  ASSUME TypeInv, ReaderInv, [Next]_vars, reader' = reader
  PROVE  ReaderInv'
  <1>1. /\ overlapped => overlapped'
        /\ torn \subseteq torn'
        /\ \A k, types : Told(k, types)' \in Nat /\ Told(k, types)' >= Told(k, types)
    BY StepForward
  <1>2. ReaderOK'
    BY DEF ReaderInv, ReaderOK, NarrativeFaithful
  <1>3. ContextCovered'
    BY <1>1 DEF ReaderInv, ContextCovered
  <1>4. ASSUME reader.at = "events", ~overlapped', reader.insight.key \notin torn'
        PROVE  reader.insight.version <= Told(reader.insight.key, Versioning)' + 2
    <2> DEFINE k == reader.insight.key
    <2>1. reader.insight.version <= Told(k, Versioning) + 2
      BY <1>1, <1>4 DEF ReaderInv
    <2>2. Told(k, Versioning)' >= Told(k, Versioning)
      BY <1>1 DEF Versioning
    <2>3. Told(k, Versioning)' \in Nat /\ Told(k, Versioning) \in Nat
      BY <1>1, ToldTyped DEF TypeInv, Versioning
    <2>4. reader.insight.version \in Nat
      BY <1>4 DEF ReaderInv, Insight
    <2>5. QED
      BY <2>1, <2>2, <2>3, <2>4
  <1>5. QED
    BY <1>2, <1>3, <1>4 DEF ReaderInv

\* An insight is read.
LEMMA ReadReader ==
  ASSUME TypeInv, CountInv, ReaderInv, NEW k \in Key, ReadInsight(k)
  PROVE  ReaderInv'
  <1>1. reader' = [at |-> "events", insight |-> store[k], input |-> NoText, out |-> NoText]
    BY DEF ReadInsight, NoReader
  <1>2. UNCHANGED vars /\ store[k] # NoInsight
    BY DEF ReadInsight
  <1>3. store[k] \in Insight /\ store[k].key = k
    BY <1>2 DEF TypeInv, TypeOK, StoreInv
  <1>4. ReaderOK' /\ ContextCovered'
    BY <1>1 DEF ReaderOK, NarrativeFaithful, ContextCovered
  <1>5. ASSUME ~overlapped, k \notin torn PROVE store[k].version <= Told(k, Versioning) + 2
    <2>1. store[k].version = 1 + Told(k, Versioning) + Owed(k, Versioning)
      BY <1>2, <1>5 DEF CountInv, Balanced
    <2>2. Owed(k, Versioning) \in {0, 1} /\ Told(k, Versioning) \in Nat
      BY ToldTyped DEF Owed, TypeInv
    <2>3. QED
      BY <2>1, <2>2
  <1>6. Told(k, Versioning)' = Told(k, Versioning) /\ overlapped' = overlapped /\ torn' = torn
    BY <1>2 DEF vars, Told, Versioning
  <1>7. reader'.at = "events" /\ reader'.insight = store[k]
    BY <1>1
  <1>8. QED
    BY <1>3, <1>4, <1>5, <1>6, <1>7 DEF ReaderInv

\* Its events are read and its narrative is made.
LEMMA GenerateReader ==
  ASSUME TypeInv, ReaderInv, Generate, ReaderOK'
  PROVE  ReaderInv'
  <1> DEFINE k == reader.insight.key
  <1>1. PICK bare \in BOOLEAN, external \in BOOLEAN, answer \in Answers :
          LET input == NarrativeInput(reader.insight, OwnEvents(k), bare)
          IN reader' = [reader EXCEPT !.at = "told", !.input = input,
                                      !.out = Generated(input, external, answer)]
    BY DEF Generate
  <1>2. /\ reader'.at = "told" /\ reader'.insight = reader.insight
        /\ reader'.input = NarrativeInput(reader.insight, OwnEvents(k), bare)
    BY <1>1 DEF ReaderInv, ReaderOK
  <1>3. reader'.input.events = OwnEvents(k)
    BY <1>2 DEF NarrativeInput
  <1>4. UNCHANGED vars /\ reader.at = "events" /\ reader.insight \in Insight
    BY DEF Generate, ReaderInv
  <1>5. ASSUME ~overlapped, k \notin torn
        PROVE  Told(k, Versioning) + 2 >= reader.insight.version
    <2>1. reader.insight.version <= Told(k, Versioning) + 2
      BY <1>4, <1>5 DEF ReaderInv
    <2>2. Told(k, Versioning) \in Nat /\ reader.insight.version \in Nat
      BY <1>4, ToldTyped DEF TypeInv, Insight
    <2>3. QED
      BY <2>1, <2>2
  <1>6. Cardinality({i \in DOMAIN OwnEvents(k) : OwnEvents(k)[i].type \in Versioning})
          = Told(k, Versioning)
    BY OwnTold
  <1>7. ASSUME ~overlapped', k \notin torn'
        PROVE  Cardinality({i \in DOMAIN reader'.input.events :
                              reader'.input.events[i].type \in {"activated", "updated", "resolved"}}) + 2
                 >= reader'.insight.version
    <2>1. ~overlapped /\ k \notin torn
      BY <1>4, <1>7 DEF vars
    <2> HIDE DEF k
    <2>2. QED
      BY <1>2, <1>3, <1>5, <1>6, <2>1 DEF Versioning
  <1>8. ContextCovered'
    BY <1>2, <1>7 DEF ContextCovered
  <1>9. QED
    BY <1>2, <1>4, <1>8 DEF ReaderInv

\* A context may be older than its events but hardly newer: as long as calls do not
\* overlap and no append fails, at most the last change of the insight is missing from
\* the events told with it.
THEOREM ContextIsCovered == NarrativeSpec => []ContextCovered
<1>1. NarrativeInit => Init /\ ReaderInv
  BY DEF NarrativeInit, NoReader, NarrativeFaithful, ReaderOK, ReaderInv, ContextCovered
<1>2. ReaderOK /\ [NarrativeNext]_NarrativeVars => ReaderOK'
  BY ReaderStep
<1>3. TypeInv /\ CountInv /\ ReaderInv /\ [NarrativeNext]_NarrativeVars => ReaderInv'
  <2> SUFFICES ASSUME TypeInv, CountInv, ReaderInv, [NarrativeNext]_NarrativeVars
               PROVE  ReaderInv'
    OBVIOUS
  <2>1. CASE UNCHANGED reader
    BY <2>1, StepRead, LifecycleReader
  <2>2. ASSUME NEW k \in Key, ReadInsight(k) PROVE ReaderInv'
    BY <2>2, ReadReader
  <2>3. CASE Deliver
    <3>1. reader' = [at |-> "idle", insight |-> NoInsight, input |-> NoText, out |-> NoText]
      BY <2>3 DEF Deliver, NoReader
    <3>2. QED
      BY <3>1 DEF ReaderInv, ReaderOK, NarrativeFaithful, ContextCovered
  <2>4. CASE Generate
    BY <1>2, <2>4, GenerateReader DEF ReaderInv
  <2>5. QED
    BY <2>1, <2>2, <2>3, <2>4 DEF NarrativeNext, NarrativeVars
<1>4. ReaderInv => ContextCovered
  BY DEF ReaderInv
<1>5. QED
  BY <1>1, <1>3, <1>4, InitTyped, InitCounts, StepTyped, StepCounts, StepRead, PTL DEF NarrativeSpec
=============================================================================
