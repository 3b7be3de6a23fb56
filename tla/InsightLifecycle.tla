-------------------------- MODULE InsightLifecycle --------------------------
(* The life of an executive insight in the front end: the six builders that *)
(* turn the findings of a module into insights, the engine that reconciles  *)
(* them with the repository, archives and reopens them, and the timeline    *)
(* that records what happened.                                              *)
(*                                                                          *)
(* Every call of the engine is a sequence of awaited repository and         *)
(* timeline operations; other calls run between any two of them, and any of *)
(* them may reject, which ends the call where it stands.  What an insight   *)
(* says (texts, severity, evidence, dates) is reduced to what identifies    *)
(* it, and resolvedAt to whether it is set.  archivedAt is left out: no     *)
(* code sets it.                                                            *)
EXTENDS Integers, Sequences, FiniteSets

CONSTANTS
  Module,      \* the modules that deliver findings, named as in the builders
  Text,        \* normalised texts of findings and recommendations
  Leader,      \* names of the leading marketplace, part of its insights' ids
  Caller,      \* concurrent users of the engine
  NoInsight,   \* findByKey's null
  MaxCalls,    \* bound on the calls begun
  MaxFound     \* bound on the findings, and on the recommendations, of a run

ASSUME LifecycleAssumption ==
  /\ Module \subseteq {"financial", "inventory", "marketplace", "products",
                       "purchasing", "sales"}
  /\ IsFiniteSet(Caller)
  /\ MaxCalls \in Nat /\ MaxFound \in Nat

VARIABLES
  store,       \* the repository, by key
  order,       \* its keys in the order of their first save (a JavaScript Map)
  timeline,    \* the events appended
  call,        \* what each caller is doing
  calls,       \* the number of calls begun
  overlapped,  \* whether a call ever began while another was open
  torn,        \* keys with a saved insight whose event was never appended
  firm         \* keys archived while no record of theirs was going to be saved, until reopened

vars == <<store, order, timeline, call, calls, overlapped, torn, firm>>

Status == {"NEW", "ACTIVE", "RESOLVED", "ARCHIVED"}
Transition == {"created", "activated", "updated", "resolved", "archived", "reopened"}

\* buildInsightKey: the module and the normalised text.
Key == Module \X Text

\* What the model keeps of an ExecutiveInsight; an id is a prefix and a position.
Insight ==
  [key : Key, id : ({<<m>> : m \in Module} \cup (Module \X Leader)) \X Nat,
   status : Status, version : Nat, count : Nat, dated : BOOLEAN]

ASSUME NoInsightAssumption == NoInsight \notin Insight

\* What is left of an ExecutiveInsightDomainEvent, and a call under way.
Event == [key : Key, type : Transition, version : Nat]
Call == [op : {"idle", "reconcile", "resolve", "archive", "reopen"},
         at : {"idle", "find", "save", "append"}, todo : Seq(Insight),
         seen : SUBSET Key, cur : Insight \cup {NoInsight}, kind : Transition]

-----------------------------------------------------------------------------
(* Builders *)

\* Findings come first, recommendations after them; the id is the position.
Built(m, prefix, facts, actions) ==
  [i \in 1..Len(facts \o actions) |->
    [key |-> <<m, (facts \o actions)[i]>>, id |-> <<prefix, i - 1>>,
     status |-> "NEW", version |-> 1, count |-> 1, dated |-> FALSE]]

FinancialBuild(facts, actions) == Built("financial", <<"financial">>, facts, actions)
InventoryBuild(facts, actions) == Built("inventory", <<"inventory">>, facts, actions)
ProductsBuild(facts, actions) == Built("products", <<"products">>, facts, actions)
PurchasingBuild(facts, actions) == Built("purchasing", <<"purchasing">>, facts, actions)
SalesBuild(facts, actions) == Built("sales", <<"sales">>, facts, actions)
\* The ids of marketplace insights also name the leading marketplace.
MarketplaceBuild(leader, facts, actions) ==
  Built("marketplace", <<"marketplace", leader>>, facts, actions)

Builds(m, facts, actions) ==
  CASE m = "financial" -> {FinancialBuild(facts, actions)}
    [] m = "inventory" -> {InventoryBuild(facts, actions)}
    [] m = "products" -> {ProductsBuild(facts, actions)}
    [] m = "purchasing" -> {PurchasingBuild(facts, actions)}
    [] m = "sales" -> {SalesBuild(facts, actions)}
    [] m = "marketplace" -> {MarketplaceBuild(l, facts, actions) : l \in Leader}

Findings == UNION {[1..n -> Text] : n \in 0..MaxFound}

-----------------------------------------------------------------------------
(* Transitions *)

\* Fault: an archived insight is reactivated.
DetectedAlways(old) ==
  CASE old = NoInsight -> "created"
    [] old # NoInsight /\ old.status = "ACTIVE" -> "updated"
    [] OTHER -> "activated"

\* computeTransition, for an insight that was detected and one that was not.
Detected(old) ==
  CASE old = NoInsight -> "created"
    [] old # NoInsight /\ old.status = "ARCHIVED" -> "ignored"
    [] old # NoInsight /\ old.status = "ACTIVE" -> "updated"
    [] OTHER -> "activated"

StatusAfter(t) ==
  CASE t = "created" -> "NEW" [] t = "resolved" -> "RESOLVED" [] OTHER -> "ACTIVE"

\* Fault: a resolution counts as an occurrence.
OccurrencesAlways(old, t) == old.count + 1
OccurrencesAfter(old, t) == IF t = "resolved" THEN old.count ELSE old.count + 1

\* applyLifecycleFields, for the transitions that are saved.
Applied(base, old, t) ==
  [base EXCEPT
     !.status = StatusAfter(t),
     !.count = IF old = NoInsight THEN 1 ELSE OccurrencesAfter(old, t),
     !.version = IF old = NoInsight THEN @ ELSE old.version + 1,
     !.dated = IF t = "activated" THEN FALSE ELSE t = "resolved" \/ @]

\* The saved insight of the given key's id that was first saved: the one the
\* repository's archive(id) and reopen(id) change.
HasId(id) == {i \in DOMAIN order : store[order[i]].id = id}
IsFirst(i, id) == i \in HasId(id) /\ \A j \in HasId(id) : i <= j

-----------------------------------------------------------------------------
(* Calls *)

Idle == [op |-> "idle", at |-> "idle", todo |-> <<>>, seen |-> {},
         cur |-> NoInsight, kind |-> "created"]

Open(c) == call[c].at # "idle"
Reconciling(c) == call[c].op \in {"reconcile", "resolve"}

\* The call x of a reconciliation holds a record of insight k it is going to save,
\* whatever is stored by then.
Pursues(x, k) ==
  /\ x.op \in {"reconcile", "resolve"}
  /\ \/ x.at = "save" /\ x.cur.key = k
     \/ x.op = "resolve" /\ \E i \in DOMAIN x.todo : x.todo[i].key = k

Init ==
  /\ store = [k \in Key |-> NoInsight]
  /\ order = <<>>
  /\ timeline = <<>>
  /\ call = [c \in Caller |-> Idle]
  /\ calls = 0
  /\ overlapped = FALSE
  /\ torn = {}
  /\ firm = {}

Begin(c) ==
  /\ ~Open(c)
  /\ calls < MaxCalls
  /\ calls' = calls + 1
  /\ overlapped' = (overlapped \/ \E d \in Caller : Open(d))
  /\ UNCHANGED <<store, order, timeline, torn, firm>>

\* reconcile is called with what a builder made.
BeginReconcile(c) ==
  /\ Begin(c)
  /\ \E m \in Module, facts \in Findings, actions \in Findings :
       \E built \in Builds(m, facts, actions) :
         call' = [call EXCEPT ![c] =
                    [Idle EXCEPT !.op = "reconcile", !.at = "find", !.todo = built]]

\* archive and reopen read the insight first and throw when it is unknown or
\* not in the state they need; a call that throws changes nothing.
BeginArchive(c, k) ==
  /\ Begin(c)
  /\ store[k] # NoInsight
  /\ store[k].status # "ARCHIVED"
  /\ call' = [call EXCEPT ![c] = [Idle EXCEPT !.op = "archive", !.at = "save",
                                               !.cur = store[k], !.kind = "archived"]]

BeginReopen(c, k) ==
  /\ Begin(c)
  /\ store[k] # NoInsight
  /\ store[k].status = "ARCHIVED"
  /\ call' = [call EXCEPT ![c] = [Idle EXCEPT !.op = "reopen", !.at = "save",
                                               !.cur = store[k], !.kind = "reopened"]]

\* The next new insight is looked up; an archived one is passed over.
Find(c) ==
  /\ call[c].op = "reconcile" /\ call[c].at = "find" /\ call[c].todo # <<>>
  /\ LET new == Head(call[c].todo)
         old == store[new.key]
         t == Detected(old)
         next == [call[c] EXCEPT !.todo = Tail(@), !.seen = @ \cup {new.key}]
     IN call' = [call EXCEPT ![c] =
                   IF t = "ignored" THEN next
                   ELSE [next EXCEPT !.at = "save", !.cur = Applied(new, old, t), !.kind = t]]
  /\ UNCHANGED <<store, order, timeline, calls, overlapped, torn, firm>>

\* All new insights are done: every active insight, of whatever module, that
\* this run did not see is going to be resolved.  The records are those of now.
FindActive(c) ==
  /\ call[c].op = "reconcile" /\ call[c].at = "find" /\ call[c].todo = <<>>
  /\ LET left == {i \in DOMAIN order : /\ store[order[i]].status = "ACTIVE"
                                       /\ order[i] \notin call[c].seen}
     IN IF left = {} THEN call' = [call EXCEPT ![c] = Idle]
        ELSE \E at \in [1..Cardinality(left) -> left] :
               /\ \A i, j \in DOMAIN at : i < j => at[i] < at[j]
               /\ call' = [call EXCEPT ![c] =
                             [Idle EXCEPT !.op = "resolve", !.at = "find",
                                          !.todo = [i \in DOMAIN at |-> store[order[at[i]]]]]]
  /\ UNCHANGED <<store, order, timeline, calls, overlapped, torn, firm>>

\* The next of them becomes the record to save; nothing is read again.
Resolve(c) ==
  /\ call[c].op = "resolve" /\ call[c].at = "find"
  /\ LET active == Head(call[c].todo)
     IN call' = [call EXCEPT ![c] =
                   [call[c] EXCEPT !.at = "save", !.todo = Tail(@), !.kind = "resolved",
                             !.cur = Applied(active, active, "resolved")]]
  /\ UNCHANGED <<store, order, timeline, calls, overlapped, torn, firm>>

Save(c) ==
  /\ Reconciling(c) /\ call[c].at = "save"
  /\ LET new == call[c].cur
     IN /\ store' = [store EXCEPT ![new.key] = new]
        /\ order' = IF store[new.key] = NoInsight THEN Append(order, new.key) ELSE order
  /\ call' = [call EXCEPT ![c].at = "append"]
  /\ UNCHANGED <<timeline, calls, overlapped, torn, firm>>

\* repository.archive(insight.id): the status of the first insight of that id.
SaveArchive(c) ==
  /\ call[c].op = "archive" /\ call[c].at = "save"
  /\ \/ HasId(call[c].cur.id) = {} /\ UNCHANGED <<store, firm>>
     \/ \E i \in DOMAIN order :
          /\ IsFirst(i, call[c].cur.id)
          /\ store' = [store EXCEPT ![order[i]].status = "ARCHIVED"]
          /\ firm' = IF \E d \in Caller : Pursues(call[d], order[i]) THEN firm
                     ELSE firm \cup {order[i]}
  /\ call' = [call EXCEPT ![c].at = "append"]
  /\ UNCHANGED <<order, timeline, calls, overlapped, torn>>

\* repository.reopen(insight.id) throws when no insight has that id.
SaveReopen(c) ==
  /\ call[c].op = "reopen" /\ call[c].at = "save"
  /\ \/ /\ HasId(call[c].cur.id) = {}
        /\ call' = [call EXCEPT ![c] = Idle]
        /\ UNCHANGED <<store, firm>>
     \/ \E i \in DOMAIN order :
          /\ IsFirst(i, call[c].cur.id)
          /\ store' = [store EXCEPT ![order[i]].status = "ACTIVE", ![order[i]].dated = FALSE]
          /\ firm' = firm \ {order[i]}
          /\ call' = [call EXCEPT ![c].at = "append",
                                  ![c].cur.version = store[order[i]].version]
  /\ UNCHANGED <<order, timeline, calls, overlapped, torn>>

\* Every event names the key the caller asked for and the version it was told.
AppendEvent(c) ==
  /\ call[c].at = "append"
  /\ timeline' = Append(timeline, [key |-> call[c].cur.key, type |-> call[c].kind,
                                   version |-> call[c].cur.version])
  /\ call' = [call EXCEPT ![c] =
                IF call[c].op \in {"archive", "reopen"}
                   \/ (call[c].op = "resolve" /\ call[c].todo = <<>>)
                THEN Idle ELSE [call[c] EXCEPT !.at = "find"]]
  /\ UNCHANGED <<store, order, calls, overlapped, torn, firm>>

\* The pending operation rejects and with it the call.
Fail(c) ==
  /\ Open(c)
  /\ torn' = IF call[c].at = "append" THEN torn \cup {call[c].cur.key} ELSE torn
  /\ call' = [call EXCEPT ![c] = Idle]
  /\ UNCHANGED <<store, order, timeline, calls, overlapped, firm>>

Next ==
  \E c \in Caller :
    \/ BeginReconcile(c)
    \/ \E k \in Key : BeginArchive(c, k) \/ BeginReopen(c, k)
    \/ Find(c) \/ FindActive(c) \/ Resolve(c)
    \/ Save(c) \/ SaveArchive(c) \/ SaveReopen(c)
    \/ AppendEvent(c) \/ Fail(c)

Spec == Init /\ [][Next]_vars

-----------------------------------------------------------------------------
(* Properties *)

\* The shapes of the repository, the timeline and the calls; a saved insight is
\* stored under its own key.
TypeOK ==
  /\ store \in [Key -> Insight \cup {NoInsight}]
  /\ order \in Seq(Key)
  /\ timeline \in Seq(Event)
  /\ call \in [Caller -> Call]
  /\ calls \in Nat
  /\ overlapped \in BOOLEAN
  /\ torn \subseteq Key
  /\ firm \subseteq Key

\* The engine does not reactivate what is archived: an insight stays archived,
\* through reconciliations that begin, go on or end around it and through other
\* archivings, until a reopen reaches it.  Only a reconciliation that had read the
\* insight before it was archived undoes this, by saving its record.
ArchiveHolds == \A k \in firm : store[k] # NoInsight /\ store[k].status = "ARCHIVED"

Told(k, types) == Cardinality({i \in DOMAIN timeline :
                                 timeline[i].key = k /\ timeline[i].type \in types})
Pending(k) == \E c \in Caller : call[c].at = "append" /\ call[c].cur.key = k

\* A call whose save of insight k is done and whose event, of one of the types, is
\* still to be appended; what the timeline tells and these owe it.
Owes(x, k, types) == x.at = "append" /\ x.cur.key = k /\ x.kind \in types
Credit(k, types) == Told(k, types) + Cardinality({c \in Caller : Owes(call[c], k, types)})

\* The events that are an occurrence of their insight, and a new version of it.
Occurring == {"created", "activated", "updated"}
Versioning == {"activated", "updated", "resolved"}

\* The timeline accounts for the insight as long as no append fails: however calls
\* overlap, it never counts an occurrence or a version that no event tells of, or
\* is about to (one call may overwrite another's change, so it may count fewer);
\* and while calls do not overlap they are exactly what its events add up to.
CountsTold ==
  \A k \in Key \ torn : store[k] # NoInsight =>
    /\ store[k].count <= Credit(k, Occurring)
    /\ store[k].version <= 1 + Credit(k, Versioning)
    /\ ~overlapped /\ ~Pending(k) => /\ store[k].count = Told(k, Occurring)
                                      /\ store[k].version = 1 + Told(k, Versioning)
=============================================================================
