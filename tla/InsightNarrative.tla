-------------------------- MODULE InsightNarrative --------------------------
(* What the copilot tells of an insight: the facade asks the intelligence   *)
(* engine for a context, read from the repository and then from the         *)
(* timeline while the lifecycle goes on, and the narrative engine for a     *)
(* text about it, written by an external provider or by the template.       *)
(*                                                                          *)
(* A text is what it claims: the key and the run it names, the fields it    *)
(* refers to, each with the value of the context or another one, whether it *)
(* carries warnings and whether it calls itself complete.                   *)
EXTENDS InsightLifecycle, Functions

CONSTANT NoText   \* no narrative yet; a provider that rejects or answers nothing

VARIABLE reader   \* the narrative being prepared

NarrativeVars == <<vars, reader>>

-----------------------------------------------------------------------------
(* The context *)

\* Events, a part of the timeline: each at the position where it was appended.
OwnAt(k) == {i \in DOMAIN timeline : timeline[i].key = k}

\* Fault: only the last event is kept.
OwnEventsLast(k) == Restrict(timeline, {i \in OwnAt(k) : \A j \in OwnAt(k) : j <= i})

OwnEvents(k) == Restrict(timeline, OwnAt(k))

\* evaluate: these events raise an alert, whatever the insight is now.
Alerting == {"reopened", "resolved", "archived"}
Alerts(events) == Restrict(events, {i \in DOMAIN events : events[i].type \in Alerting})

\* ExecutiveNarrativeTimeline queries: first and last event and number by type.
FirstOf(events) ==
  IF DOMAIN events = {} THEN NoInsight
  ELSE events[CHOOSE i \in DOMAIN events : \A j \in DOMAIN events : i <= j]
LastOf(events) ==
  IF DOMAIN events = {} THEN NoInsight
  ELSE events[CHOOSE i \in DOMAIN events : \A j \in DOMAIN events : j <= i]
CountByType(events) ==
  [t \in {events[i].type : i \in DOMAIN events} |->
     Cardinality({i \in DOMAIN events : events[i].type = t})]

\* prepareNarrativeContext, of an insight and of events read after it.  The
\* texts of the finding are either all present or some are empty.
NarrativeInput(insight, events, bare) ==
  [insight |-> insight, bare |-> bare, events |-> events,
   firstEvent |-> FirstOf(events), lastEvent |-> LastOf(events),
   eventCountByType |-> CountByType(events), activeAlerts |-> Alerts(events)]

-----------------------------------------------------------------------------
(* The texts *)

Stated == {"title", "summary", "fact", "module", "category", "severity", "status",
           "priority", "sourceRunId", "lastEvaluationRun", "firstDetectedAt",
           "lastDetectedAt", "occurrenceCount"}

\* The fields the guard looks up; the dates of resolution and archiving are not
\* among them.
Checkable == Stated \cup {"context", "impact", "recommendation"}

\* The template's references are values of its input; the date of resolution is
\* one when it is set.  Empty titles, summaries and facts are warned about.
Template(input) ==
  [key |-> input.insight.key, run |-> TRUE,
   refs |-> {[field |-> f, right |-> TRUE] :
               f \in Stated \cup (IF input.insight.dated THEN {"resolvedAt"} ELSE {})},
   warned |-> input.bare, complete |-> ~input.bare]

\* validate: key, run and references as in the input, and no text that is warned
\* about and complete.
Violated(input, text) ==
  \/ text.key # input.insight.key
  \/ ~text.run
  \/ \E r \in text.refs : ~(r.field \in Checkable /\ r.right)
  \/ (text.warned /\ text.complete)

\* What a provider may answer: nothing, or any text.
Answers == {NoText} \cup
  [key : Key, run : BOOLEAN,
   refs : SUBSET [field : {"status", "resolvedAt"}, right : BOOLEAN],
   warned : BOOLEAN, complete : BOOLEAN]

\* Fault: what the guard finds wrong is only warned about.
GeneratedAnyway(input, external, answer) ==
  LET given == IF external /\ answer # NoText THEN answer ELSE Template(input)
  IN [given EXCEPT !.warned = @ \/ Violated(input, given)]

\* generate: the template stands in for a provider that rejects, answers nothing
\* or is found wrong; what was found wrong ends up among the warnings.
Generated(input, external, answer) ==
  LET given == IF external /\ answer # NoText THEN answer ELSE Template(input)
      wrong == Violated(input, given)
      final == IF wrong /\ external THEN Template(input) ELSE given
  IN [final EXCEPT !.warned = @ \/ wrong]

-----------------------------------------------------------------------------
(* The facade *)

NoReader == [at |-> "idle", insight |-> NoInsight, input |-> NoText, out |-> NoText]

NarrativeInit == Init /\ reader = NoReader

\* findByKey; generateNarrative answers null for an unknown insight.
ReadInsight(k) ==
  /\ reader.at = "idle"
  /\ store[k] # NoInsight
  /\ reader' = [NoReader EXCEPT !.at = "events", !.insight = store[k]]
  /\ UNCHANGED vars

\* The timeline is read, the context is frozen and the text generated from it;
\* nothing that changes is read in between, so this is one step.
Generate ==
  /\ reader.at = "events"
  /\ \E bare \in BOOLEAN, external \in BOOLEAN, answer \in Answers :
       LET input == NarrativeInput(reader.insight, OwnEvents(reader.insight.key), bare)
       IN reader' = [reader EXCEPT !.at = "told", !.input = input,
                                   !.out = Generated(input, external, answer)]
  /\ UNCHANGED vars

Deliver == reader.at = "told" /\ reader' = NoReader /\ UNCHANGED vars

NarrativeNext ==
  \/ Next /\ UNCHANGED reader
  \/ \E k \in Key : ReadInsight(k)
  \/ Generate \/ Deliver

NarrativeSpec == NarrativeInit /\ [][NarrativeNext]_NarrativeVars

-----------------------------------------------------------------------------
(* Properties *)

\* Whatever a provider answers, the narrative that is delivered is about the
\* insight that was asked for and refers to nothing but values of its context.
NarrativeFaithful ==
  reader.at = "told" =>
    /\ reader.out.key = reader.insight.key /\ reader.out.run
    /\ \A r \in reader.out.refs : r.right

\* A context may be older than its events but hardly newer: the insight is read
\* before the events and saved before its own event is appended, so that, as long
\* as calls do not overlap and no append fails, at most the last change of the
\* insight is missing from the events told with it.
ContextCovered ==
  (reader.at = "told" /\ ~overlapped
     /\ reader.insight.key \notin torn) =>
    Cardinality({i \in DOMAIN reader.input.events :
                   reader.input.events[i].type \in {"activated", "updated", "resolved"}}) + 2
      >= reader.insight.version
=============================================================================
