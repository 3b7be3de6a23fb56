------------------------- MODULE SyncCentre_proofs -------------------------
(***************************************************************************)
(* Proofs about SyncCentre, for every set of tabs, periods and slots.      *)
(***************************************************************************)
EXTENDS SyncCentre, FiniteSetTheorems, SequenceTheorems, TLAPS

-----------------------------------------------------------------------------
(* Types *)

LEMMA Constants ==
  /\ Default \in Period /\ NoSection \in SectionState /\ NoPage \in PageState
  /\ None \notin Nat /\ None \notin Period /\ None \notin Request
  /\ None \notin Entry /\ None \notin Fetch /\ None \notin Sync
  BY CentreAssumption, NoneAssumption DEF NoSection, NoPage, SectionState, PageState

LEMMA StepsTyped ==
  ASSUME NEW op \in Operation
  PROVE  Steps(op) \in Seq(Operation) \ {<<>>}
  <1>1. CASE op = "all"
    <2>1. Steps(op) \in [1..4 -> Operation]
      BY <1>1 DEF Steps, Operation
    <2>2. 4 \in Nat
      OBVIOUS
    <2>3. Steps(op) \in Seq(Operation)
      BY <2>1, <2>2, SeqDef
    <2>4. Steps(op) # <<>>
      BY <1>1 DEF Steps
    <2>5. QED
      BY <2>3, <2>4
  <1>2. CASE op # "all"
    BY <1>2 DEF Steps
  <1>3. QED
    BY <1>1, <1>2

\* What a load does to the section that begins it and to the requests.
LEMMA LoadTyped ==
  ASSUME TypeOK, NEW t \in Tab, NEW s \in SectionState, Load(t, s)
  PROVE  /\ section' \in [Tab -> SectionState]
         /\ request' \in [Request -> Fetch \cup {None}]
  <1>1. CASE /\ ~s.forced /\ Usable(t, s.period)
             /\ section' = [section EXCEPT ![t] =
                  [s EXCEPT !.state = "success", !.data = cache[t][s.period].version,
                            !.of = s.period, !.awaits = None]]
             /\ UNCHANGED request
    <2>1. s.period \in Period /\ cache[t][s.period] \in Entry
      BY <1>1 DEF Usable, TypeOK, SectionState
    <2>2. cache[t][s.period].version \in Nat
      BY <2>1 DEF Entry
    <2>3. [s EXCEPT !.state = "success", !.data = cache[t][s.period].version,
                    !.of = s.period, !.awaits = None] \in SectionState
      BY <2>1, <2>2 DEF SectionState
    <2>4. QED
      BY <1>1, <2>3 DEF TypeOK
  <1>2. CASE \E r \in Request :
               /\ request[r] = None
               /\ request' = [request EXCEPT ![r] = [tab |-> t, period |-> s.period,
                                                     revision |-> revision, version |-> None]]
               /\ section' = [section EXCEPT ![t] = [s EXCEPT !.state = "loading", !.awaits = r]]
    <2>1. PICK r \in Request :
               /\ request[r] = None
               /\ request' = [request EXCEPT ![r] = [tab |-> t, period |-> s.period,
                                                     revision |-> revision, version |-> None]]
               /\ section' = [section EXCEPT ![t] = [s EXCEPT !.state = "loading", !.awaits = r]]
      BY <1>2
    <2>2. [s EXCEPT !.state = "loading", !.awaits = r] \in SectionState
      BY DEF SectionState
    <2>3. [tab |-> t, period |-> s.period, revision |-> revision, version |-> None] \in Fetch
      BY DEF TypeOK, SectionState, Fetch
    <2>4. QED
      BY <2>1, <2>2, <2>3 DEF TypeOK
  <1>3. QED
    BY <1>1, <1>2 DEF Load

LEMMA InvalidateTyped ==
  ASSUME TypeOK, NEW t \in Tab, Invalidate(t)
  PROVE  /\ cache' \in [Tab -> [Period -> Entry \cup {None}]]
         /\ revision' \in Nat /\ invalidated' \in Nat
         /\ section' \in [Tab -> SectionState]
  <1>1. \A s \in Tab : [section[s] EXCEPT !.note = section[s].open] \in SectionState
    BY DEF TypeOK, SectionState
  <1>2. QED
    BY <1>1 DEF TypeOK, Invalidate

LEMMA OverTyped ==
  ASSUME TypeOK, NEW u \in Run, run[u] # None, NEW how \in {"completed", "error"}, Over(u, how)
  PROVE  run' \in [Run -> Sync \cup {None}] /\ page' \in [Tab -> PageState]
  <1>1. run' \in [Run -> Sync \cup {None}]
    <2>1. run' = [run EXCEPT ![u] = None]
      BY DEF Over
    <2>2. QED
      BY <2>1 DEF TypeOK
  <1> DEFINE t == run[u].tab
  <1>2. t \in Tab /\ run[u].covers \in Nat
    BY DEF TypeOK, Sync
  <1>3. [page[t] EXCEPT !.running = FALSE, !.sync = how, !.covers = run[u].covers,
                        !.polls = IF how = "completed" THEN @ + 1 ELSE @] \in PageState
    <2>1. page[t] \in PageState /\ page[t].polls \in Nat
      BY <1>2 DEF TypeOK, PageState
    <2>2. (IF how = "completed" THEN page[t].polls + 1 ELSE page[t].polls) \in Nat
      BY <2>1
    <2>3. QED
      BY <1>2, <2>1, <2>2 DEF PageState
  <1>4. QED
    BY <1>1, <1>2, <1>3 DEF TypeOK, Over

\* A synchronisation that goes on, with the same step or with the next one.
LEMMA NextSync ==
  ASSUME NEW r \in Sync
  PROVE  /\ [r EXCEPT !.at = "sent"] \in Sync
         /\ Len(r.steps) # 1 => [r EXCEPT !.at = "sent", !.steps = Tail(@)] \in Sync
         /\ Len(r.steps) > 1 => Len(r.steps) # 1
  <1> DEFINE s == r.steps
  <1>1. s \in Seq(Operation) /\ s # <<>>
    BY DEF Sync
  <1>2. Len(s) \in Nat
    BY <1>1, LenProperties
  <1>3. ASSUME Len(s) # 1 PROVE Tail(s) \in Seq(Operation) \ {<<>>}
    <2>1. /\ Tail(s) \in Seq(Operation) /\ Len(Tail(s)) = Len(s) - 1
          /\ Len(s) \in Nat /\ Len(s) # 0
      BY <1>1, HeadTailProperties, EmptySeq, LenProperties
    <2>2. Len(Tail(s)) # 0
      BY <1>3, <2>1
    <2>3. Tail(s) # <<>>
      BY <2>2, EmptySeq
    <2>4. QED
      BY <2>1, <2>3
  <1>4. [r EXCEPT !.at = "sent"] \in Sync
    BY DEF Sync
  <1>5. Len(s) # 1 => [r EXCEPT !.at = "sent", !.steps = Tail(@)] \in Sync
    BY <1>3 DEF Sync
  <1>6. \A k \in Nat : k > 1 => k # 1
    OBVIOUS
  <1>7. Len(s) > 1 => Len(s) # 1
    BY <1>2, <1>6, Zenon
  <1>8. QED
    BY <1>4, <1>5, <1>7

LEMMA NextStepTyped ==
  ASSUME TypeOK, NEW u \in Run, run[u] # None
  PROVE  /\ [run EXCEPT ![u].at = "sent"] \in [Run -> Sync \cup {None}]
         /\ Len(run[u].steps) # 1 =>
              [run EXCEPT ![u].at = "sent", ![u].steps = Tail(@)] \in [Run -> Sync \cup {None}]
  <1>1. run[u] \in Sync
    BY DEF TypeOK
  <1>2. [run EXCEPT ![u].at = "sent"] = [run EXCEPT ![u] = [run[u] EXCEPT !.at = "sent"]]
        /\ [run EXCEPT ![u].at = "sent", ![u].steps = Tail(@)]
             = [run EXCEPT ![u] = [run[u] EXCEPT !.at = "sent", !.steps = Tail(run[u].steps)]]
    BY DEF TypeOK
  <1>3. QED
    BY <1>1, <1>2, NextSync DEF TypeOK

LEMMA InitTyped == Init => TypeOK
  BY Constants DEF Init, TypeOK

LEMMA StepTyped == TypeOK /\ [Next]_vars => TypeOK'
  <1> SUFFICES ASSUME TypeOK, [Next]_vars
               PROVE  TypeOK'
    OBVIOUS
  <1> USE DEF TypeOK
  <1>1. ASSUME NEW t \in Tab, OpenSection(t) PROVE TypeOK'
    <2>1. [NoSection EXCEPT !.open = TRUE] \in SectionState
      BY Constants DEF NoSection, SectionState
    <2>2. QED
      BY <1>1, <2>1, LoadTyped DEF OpenSection, Click
  <1>2. ASSUME NEW t \in Tab, CloseSection(t) PROVE TypeOK'
    BY <1>2, Constants DEF CloseSection
  <1>3. ASSUME NEW t \in Tab, NEW p \in Period, ChoosePeriod(t, p) PROVE TypeOK'
    <2>1. [section[t] EXCEPT !.period = p] \in SectionState
      BY DEF SectionState
    <2>2. QED
      BY <1>3, <2>1, LoadTyped DEF ChoosePeriod, Click
  <1>4. ASSUME NEW t \in Tab, Refresh(t) PROVE TypeOK'
    <2>1. [section[t] EXCEPT !.forced = TRUE, !.note = FALSE] \in SectionState
      BY DEF SectionState
    <2>2. QED
      BY <1>4, <2>1, LoadTyped DEF Refresh, Click
  <1>5. ASSUME NEW r \in Request, Serve(r) PROVE TypeOK'
    <2>1. [request[r] EXCEPT !.version = db] \in Fetch
      BY <1>5 DEF Serve, Fetch
    <2>2. QED
      BY <1>5, <2>1 DEF Serve
  <1>6. ASSUME NEW r \in Request, Arrive(r) PROVE TypeOK'
    <2> DEFINE q == request[r]
    <2>1. q \in Fetch /\ q.version \in Nat /\ q.tab \in Tab /\ q.period \in Period
          /\ q.revision \in Nat
      BY <1>6 DEF Arrive, Fetch
    <2>2. [revision |-> q.revision, version |-> q.version] \in Entry
      BY <2>1 DEF Entry
    <2>3. [section[q.tab] EXCEPT !.state = "success", !.data = q.version,
                                 !.of = q.period, !.awaits = None] \in SectionState
      <3>1. section[q.tab] \in SectionState
        BY <2>1
      <3>2. QED
        BY <2>1, <3>1 DEF SectionState
    <2> HIDE DEF q
    <2>4. /\ cache' = [cache EXCEPT ![q.tab][q.period] =
                      [revision |-> q.revision, version |-> q.version]]
          /\ section' = IF ~Shows(q.tab, r) THEN section
                        ELSE [section EXCEPT ![q.tab] =
                               [section[q.tab] EXCEPT !.state = "success", !.data = q.version,
                                         !.of = q.period, !.awaits = None]]
          /\ request' = [request EXCEPT ![r] = None]
          /\ UNCHANGED <<db, revision, invalidated, page, run, clicks>>
      BY <1>6 DEF Arrive, q
    <2>5. cache' \in [Tab -> [Period -> Entry \cup {None}]]
      <3>1. [cache[q.tab] EXCEPT ![q.period] = [revision |-> q.revision, version |-> q.version]]
              \in [Period -> Entry \cup {None}]
        BY <2>1, <2>2
      <3>2. QED
        BY <2>1, <2>4, <3>1
    <2>6. section' \in [Tab -> SectionState]
      <3>1. CASE Shows(q.tab, r)
        BY <2>1, <2>3, <2>4, <3>1
      <3>2. CASE ~Shows(q.tab, r)
        BY <2>4, <3>2
      <3>3. QED
        BY <3>1, <3>2
    <2>7. request' \in [Request -> Fetch \cup {None}]
      BY <2>4
    <2>8. QED
      BY <2>4, <2>5, <2>6, <2>7
  <1>7. ASSUME NEW r \in Request, Break(r) PROVE TypeOK'
    <2> DEFINE t == request[r].tab
    <2>1. t \in Tab
      BY <1>7 DEF Break, Fetch
    <2>2. Broken(t) \in SectionState
      <3>1. section[t] \in SectionState
        BY <2>1
      <3>2. QED
        BY <3>1 DEF Broken, SectionState
    <2>3. /\ section' = IF Shows(t, r) THEN [section EXCEPT ![t] = Broken(t)] ELSE section
          /\ request' = [request EXCEPT ![r] = None]
      BY <1>7 DEF Break
    <2>4. section' \in [Tab -> SectionState] /\ request' \in [Request -> Fetch \cup {None}]
      BY <2>1, <2>2, <2>3
    <2>5. QED
      BY <1>7, <2>4 DEF Break
  <1>8. ASSUME NEW t \in Tab, OpenPage(t) PROVE TypeOK'
    <2>1. [NoPage EXCEPT !.open = TRUE, !.polls = 1] \in PageState
      BY DEF NoPage, PageState
    <2>2. QED
      BY <1>8, <2>1 DEF OpenPage, Click
  <1>9. ASSUME NEW t \in Tab, ClosePage(t) PROVE TypeOK'
    <2>1. \A u \in Run : run[u] # None => [run[u] EXCEPT !.own = FALSE] \in Sync
      BY DEF Sync
    <2>2. run' \in [Run -> Sync \cup {None}]
      BY <1>9, <2>1 DEF ClosePage
    <2>3. page' \in [Tab -> PageState]
      BY <1>9, Constants DEF ClosePage
    <2>4. QED
      BY <1>9, <2>2, <2>3 DEF ClosePage
  <1>10. ASSUME NEW t \in Tab, Poll(t) PROVE TypeOK'
    <2>1. PICK locked \in BOOLEAN, loaded \in BOOLEAN :
            page' = [page EXCEPT ![t] = [page[t] EXCEPT !.polls = @ - 1, !.loading = FALSE,
                                                  !.locked = locked, !.loaded = loaded]]
      BY <1>10 DEF Poll, Parsed
    <2>2. page[t].polls - 1 \in Nat
      BY <1>10 DEF Poll, PageState
    <2>3. [page[t] EXCEPT !.polls = @ - 1, !.loading = FALSE,
                          !.locked = locked, !.loaded = loaded] \in PageState
      BY <2>2 DEF PageState
    <2>4. QED
      BY <1>10, <2>1, <2>3 DEF Poll
  <1>11. ASSUME NEW t \in Tab, NEW op \in Operation, Start(t, op) PROVE TypeOK'
    <2>1. [tab |-> t, own |-> TRUE, op |-> op, steps |-> Steps(op), at |-> "sent",
           covers |-> 0] \in Sync
      BY StepsTyped DEF Sync
    <2>2. [page[t] EXCEPT !.running = TRUE, !.sync = "running"] \in PageState
      BY DEF PageState
    <2>3. QED
      BY <1>11, <2>1, <2>2 DEF Start, Click
  <1>12. ASSUME NEW u \in Run, Commit(u) PROVE TypeOK'
    <2>1. [run[u] EXCEPT !.at = "done", !.covers = db + 1] \in Sync
      <3>1. run[u] \in Sync /\ db + 1 \in Nat
        BY <1>12 DEF Commit
      <3>2. QED
        BY <3>1 DEF Sync
    <2>2. run' = [run EXCEPT ![u] = [run[u] EXCEPT !.at = "done", !.covers = db + 1]]
      BY <1>12 DEF Commit
    <2>3. QED
      BY <1>12, <2>1, <2>2 DEF Commit
  <1>13. ASSUME NEW u \in Run, BatchReply(u) PROVE TypeOK'
    <2>1. run[u] \in Sync /\ run[u].tab \in Tab /\ run[u] # None
      BY <1>13 DEF BatchReply, Sync
    <2>2. Invalidate(run[u].tab) /\ UNCHANGED <<db, request, clicks>>
      BY <1>13 DEF BatchReply
    <2>3. run' \in [Run -> Sync \cup {None}] /\ page' \in [Tab -> PageState]
      <3>1. CASE Over(u, "error") \/ Over(u, "completed")
        BY <2>1, <3>1, OverTyped
      <3>2. CASE UNCHANGED page /\ run' = [run EXCEPT ![u].at = "sent"]
        BY <2>1, <3>2, NextStepTyped
      <3>3. CASE /\ UNCHANGED page /\ Len(run[u].steps) # 1
                 /\ run' = [run EXCEPT ![u].at = "sent", ![u].steps = Tail(@)]
        BY <2>1, <3>3, NextStepTyped
      <3>4. QED
        BY <1>13, <3>1, <3>2, <3>3 DEF BatchReply
    <2>4. QED
      BY <2>1, <2>2, <2>3, InvalidateTyped
  <1>14. ASSUME NEW u \in Run, EntityReply(u) PROVE TypeOK'
    <2>1. run[u] \in Sync /\ run[u].tab \in Tab /\ run[u] # None
      BY <1>14 DEF EntityReply, Sync
    <2>2. /\ cache' \in [Tab -> [Period -> Entry \cup {None}]]
          /\ revision' \in Nat /\ invalidated' \in Nat
          /\ section' \in [Tab -> SectionState]
      BY <1>14, <2>1, InvalidateTyped DEF EntityReply, Concluded
    <2>3. run' \in [Run -> Sync \cup {None}] /\ page' \in [Tab -> PageState]
      <3>1. CASE Over(u, "error") \/ Over(u, "completed")
        BY <2>1, <3>1, OverTyped
      <3>2. CASE /\ UNCHANGED page /\ Len(run[u].steps) # 1
                 /\ run' = [run EXCEPT ![u].at = "sent", ![u].steps = Tail(@)]
        BY <2>1, <3>2, NextStepTyped
      <3>3. Len(run[u].steps) > 1 => Len(run[u].steps) # 1
        BY <2>1, NextSync
      <3>4. QED
        BY <1>14, <3>1, <3>2, <3>3 DEF EntityReply, Concluded
    <2>4. UNCHANGED <<db, request, clicks>>
      BY <1>14 DEF EntityReply
    <2>5. QED
      BY <2>2, <2>3, <2>4
  <1>15. ASSUME NEW u \in Run, Refuse(u) PROVE TypeOK'
    BY <1>15, OverTyped DEF Refuse
  <1>16. ASSUME OtherCommit PROVE TypeOK'
    BY <1>16 DEF OtherCommit
  <1>17. CASE UNCHANGED vars
    BY <1>17 DEF vars
  <1>18. QED
    BY <1>1, <1>2, <1>3, <1>4, <1>5, <1>6, <1>7, <1>8, <1>9, <1>10, <1>11, <1>12, <1>13,
       <1>14, <1>15, <1>16, <1>17 DEF Next

\* Every reachable state is well typed.
THEOREM TypeCorrect == Spec => []TypeOK
  BY InitTyped, StepTyped, PTL DEF Spec

-----------------------------------------------------------------------------
(* The cache *)

\* An invalidation covers what is committed, and raises the revision: what was sent
\* under the revision of now was computed after it.
FreshInv ==
  /\ invalidated <= db
  /\ \A t \in Tab, p \in Period : cache[t][p] # None =>
       /\ cache[t][p].revision <= revision
       /\ cache[t][p].revision = revision => cache[t][p].version >= invalidated
  /\ \A r \in Request : request[r] # None =>
       /\ request[r].revision <= revision
       /\ (request[r].version # None /\ request[r].revision = revision)
            => request[r].version >= invalidated

\* A load adds at most a request of the current revision that is not served yet.
LEMMA LoadFresh ==
  ASSUME TypeOK, FreshInv, NEW t \in Tab, NEW s \in SectionState, Load(t, s),
         UNCHANGED <<db, revision, invalidated, cache>>
  PROVE  FreshInv'
  <1>1. CASE UNCHANGED request
    BY <1>1 DEF FreshInv
  <1>2. CASE \E r \in Request :
               request' = [request EXCEPT ![r] = [tab |-> t, period |-> s.period,
                                                  revision |-> revision, version |-> None]]
    BY <1>2 DEF FreshInv, TypeOK
  <1>3. QED
    BY <1>1, <1>2 DEF Load

LEMMA InvalidateFresh ==
  ASSUME TypeOK, FreshInv, NEW t \in Tab, Invalidate(t), UNCHANGED <<db, request>>
  PROVE  FreshInv'
  <1>1. /\ cache' = [cache EXCEPT ![t] = [p \in Period |-> None]]
        /\ revision' = revision + 1 /\ invalidated' = db
    BY DEF Invalidate
  <1>2. revision \in Nat /\ db \in Nat
    BY DEF TypeOK
  <1>3. \A s \in Tab, p \in Period : cache'[s][p] # None =>
          cache'[s][p] = cache[s][p] /\ cache[s][p].revision \in Nat
    BY <1>1 DEF TypeOK, Entry
  <1>4. \A r \in Request : request[r] # None => request[r].revision \in Nat
    BY DEF TypeOK, Fetch
  <1>5. QED
    BY <1>1, <1>2, <1>3, <1>4 DEF FreshInv

LEMMA StepFresh == TypeOK /\ FreshInv /\ [Next]_vars => FreshInv'
  <1> SUFFICES ASSUME TypeOK, FreshInv, [Next]_vars
               PROVE  FreshInv'
    OBVIOUS
  <1>1. ASSUME NEW t \in Tab, OpenSection(t) PROVE FreshInv'
    <2>1. [NoSection EXCEPT !.open = TRUE] \in SectionState
      BY Constants DEF NoSection, SectionState
    <2>2. QED
      BY <1>1, <2>1, LoadFresh DEF OpenSection
  <1>2. ASSUME NEW t \in Tab, NEW p \in Period, ChoosePeriod(t, p) PROVE FreshInv'
    <2>1. [section[t] EXCEPT !.period = p] \in SectionState
      BY DEF TypeOK, SectionState
    <2>2. QED
      BY <1>2, <2>1, LoadFresh DEF ChoosePeriod
  <1>3. ASSUME NEW t \in Tab, Refresh(t) PROVE FreshInv'
    <2>1. [section[t] EXCEPT !.forced = TRUE, !.note = FALSE] \in SectionState
      BY DEF TypeOK, SectionState
    <2>2. QED
      BY <1>3, <2>1, LoadFresh DEF Refresh
  <1>4. ASSUME NEW r \in Request, Serve(r) PROVE FreshInv'
    <2>1. /\ request[r] \in Fetch
          /\ request' = [request EXCEPT ![r] = [request[r] EXCEPT !.version = db]]
          /\ UNCHANGED <<db, revision, invalidated, cache>>
      BY <1>4 DEF Serve, TypeOK
    <2>2. [request[r] EXCEPT !.version = db].revision = request[r].revision
          /\ [request[r] EXCEPT !.version = db].version = db
      BY <2>1 DEF Fetch
    <2>3. db >= invalidated
      BY DEF FreshInv, TypeOK
    <2>4. \A q \in Request : q # r => request'[q] = request[q]
      BY <2>1 DEF TypeOK
    <2>5. request'[r] = [request[r] EXCEPT !.version = db] /\ request[r] # None
      BY <1>4, <2>1 DEF TypeOK, Serve
    <2>6. QED
      BY <2>1, <2>2, <2>3, <2>4, <2>5 DEF FreshInv
  <1>5. ASSUME NEW r \in Request, Arrive(r) PROVE FreshInv'
    <2> DEFINE q == request[r]
               e == [revision |-> q.revision, version |-> q.version]
    <2>1. q \in Fetch /\ q.version \in Nat /\ q.tab \in Tab /\ q.period \in Period
      BY <1>5 DEF Arrive, Fetch, TypeOK
    <2>2. q.revision <= revision /\ (q.revision = revision => q.version >= invalidated)
      BY <1>5 DEF Arrive, FreshInv
    <2>3. /\ cache' = [cache EXCEPT ![q.tab][q.period] = e]
          /\ request' = [request EXCEPT ![r] = None]
          /\ UNCHANGED <<db, revision, invalidated>>
      BY <1>5 DEF Arrive
    <2>4. e.revision = q.revision /\ e.version = q.version
      OBVIOUS
    <2> HIDE DEF q, e
    <2>5. \A t \in Tab, p \in Period : cache'[t][p] = e \/ cache'[t][p] = cache[t][p]
      BY <2>1, <2>3 DEF TypeOK
    <2>6. \A s \in Request : request'[s] = None \/ request'[s] = request[s]
      BY <2>3 DEF TypeOK
    <2>7. QED
      BY <2>2, <2>3, <2>4, <2>5, <2>6 DEF FreshInv
  <1>6. ASSUME NEW r \in Request, Break(r) PROVE FreshInv'
    BY <1>6 DEF Break, FreshInv, TypeOK
  <1>7. ASSUME NEW u \in Run, Commit(u) \/ OtherCommit PROVE FreshInv'
    <2>1. db' = db + 1 /\ UNCHANGED <<revision, invalidated, cache, request>>
      BY <1>7 DEF Commit, OtherCommit
    <2>2. QED
      BY <2>1 DEF FreshInv, TypeOK
  <1>8. ASSUME NEW u \in Run, BatchReply(u) \/ EntityReply(u) PROVE FreshInv'
    <2>1. run[u].tab \in Tab /\ UNCHANGED <<db, request>>
      BY <1>8 DEF BatchReply, EntityReply, TypeOK, Sync
    <2>2. Invalidate(run[u].tab) \/ UNCHANGED <<cache, revision, invalidated, section>>
      BY <1>8 DEF BatchReply, EntityReply, Concluded
    <2>3. CASE UNCHANGED <<cache, revision, invalidated, section>>
      BY <2>1, <2>3 DEF FreshInv
    <2>4. QED
      BY <2>1, <2>2, <2>3, InvalidateFresh
  <1>9. CASE UNCHANGED <<db, revision, invalidated, cache, request>>
    BY <1>9 DEF FreshInv
  <1>10. ASSUME NEW t \in Tab, NEW op \in Operation,
                CloseSection(t) \/ OpenPage(t) \/ ClosePage(t) \/ Poll(t) \/ Start(t, op)
         PROVE  UNCHANGED <<db, revision, invalidated, cache, request>>
    BY <1>10 DEF CloseSection, OpenPage, ClosePage, Poll, Start
  <1>11. ASSUME NEW u \in Run, Refuse(u)
         PROVE  UNCHANGED <<db, revision, invalidated, cache, request>>
    BY <1>11 DEF Refuse
  <1>12. UNCHANGED vars => UNCHANGED <<db, revision, invalidated, cache, request>>
    BY DEF vars
  <1>13. ASSUME OtherCommit PROVE FreshInv'
    BY <1>13 DEF OtherCommit, FreshInv, TypeOK
  <1>14. QED
    BY <1>1, <1>2, <1>3, <1>4, <1>5, <1>6, <1>7, <1>8, <1>9, <1>10, <1>11, <1>12, <1>13
       DEF Next, Operation

LEMMA FreshHolds == Spec => [](TypeOK /\ FreshInv)
  <1>1. Init => FreshInv
    BY DEF Init, FreshInv
  <1>2. QED
    BY <1>1, InitTyped, StepTyped, StepFresh, PTL DEF Spec

\* What the cache may serve is never older than the last invalidation of any tab, for
\* every number of tabs, periods and requests in flight.
THEOREM CacheFresh == Spec => []CachedFresh
  <1>1. TypeOK /\ FreshInv => CachedFresh
    BY DEF FreshInv, CachedFresh, Usable
  <1>2. QED
    BY <1>1, FreshHolds, PTL

-----------------------------------------------------------------------------
(* What the section shows *)

\* A section that waits waits for a request of its own, for its period, which was
\* not yet served at the last invalidation unless an event is on its way.
WaitInv ==
  \A t \in Tab : section[t].awaits # None =>
    LET q == request[section[t].awaits]
    IN /\ section[t].open /\ section[t].state = "loading"
       /\ q # None /\ q.tab = t /\ q.period = section[t].period
       /\ section[t].note \/ q.version = None \/ q.version >= invalidated

ShowInv == WaitInv /\ ShownFresh

\* A section settles on fresh data or waits for a new request.
LEMMA LoadShows ==
  ASSUME TypeOK, FreshInv, ShowInv, NEW t \in Tab, NEW s \in SectionState, s.open,
         Load(t, s), UNCHANGED <<invalidated, revision, cache>>
  PROVE  ShowInv'
  <1>1. CASE /\ ~s.forced /\ Usable(t, s.period)
             /\ section' = [section EXCEPT ![t] =
                  [s EXCEPT !.state = "success", !.data = cache[t][s.period].version,
                            !.of = s.period, !.awaits = None]]
             /\ UNCHANGED request
    <2> DEFINE n == [s EXCEPT !.state = "success", !.data = cache[t][s.period].version,
                              !.of = s.period, !.awaits = None]
    <2>1. s.period \in Period
      BY DEF SectionState
    <2>2. cache[t][s.period].version >= invalidated
      BY <1>1, <2>1 DEF Usable, FreshInv
    <2>3. n.state = "success" /\ n.awaits = None /\ n.of = n.period
          /\ n.data = cache[t][s.period].version
      BY DEF SectionState
    <2> HIDE DEF n
    <2>4. section'[t] = n /\ \A x \in Tab : x # t => section'[x] = section[x]
      BY <1>1 DEF n, TypeOK
    <2>5. QED
      BY <1>1, <2>2, <2>3, <2>4 DEF ShowInv, WaitInv, ShownFresh
  <1>2. CASE \E r \in Request :
               /\ request[r] = None
               /\ request' = [request EXCEPT ![r] = [tab |-> t, period |-> s.period,
                                                     revision |-> revision, version |-> None]]
               /\ section' = [section EXCEPT ![t] = [s EXCEPT !.state = "loading", !.awaits = r]]
    <2>1. PICK r \in Request :
               /\ request[r] = None
               /\ request' = [request EXCEPT ![r] = [tab |-> t, period |-> s.period,
                                                     revision |-> revision, version |-> None]]
               /\ section' = [section EXCEPT ![t] = [s EXCEPT !.state = "loading", !.awaits = r]]
      BY <1>2
    <2> DEFINE n == [s EXCEPT !.state = "loading", !.awaits = r]
               q == [tab |-> t, period |-> s.period, revision |-> revision, version |-> None]
    <2>2. n.state = "loading" /\ n.awaits = r /\ n.period = s.period /\ n.open
      BY DEF SectionState
    <2>3. q.tab = t /\ q.period = s.period /\ q.version = None
      OBVIOUS
    <2>4. q \in Fetch
      BY DEF TypeOK, SectionState, Fetch
    <2> HIDE DEF n, q
    <2>5. /\ section'[t] = n /\ \A x \in Tab : x # t => section'[x] = section[x]
          /\ request'[r] = q /\ \A x \in Request : x # r => request'[x] = request[x]
      BY <2>1 DEF n, q, TypeOK
    <2>6. \A x \in Tab : section[x].awaits # r
      BY <2>1, Constants DEF ShowInv, WaitInv
    <2>7. WaitInv'
      <3> SUFFICES ASSUME NEW x \in Tab, section'[x].awaits # None
                   PROVE  LET w == request'[section'[x].awaits]
                          IN /\ section'[x].open /\ section'[x].state = "loading"
                             /\ w # None /\ w.tab = x /\ w.period = section'[x].period
                             /\ \/ section'[x].note \/ w.version = None
                                \/ w.version >= invalidated'
        BY DEF WaitInv
      <3>1. CASE x = t
        BY <3>1, <2>2, <2>3, <2>4, <2>5, Constants
      <3>2. CASE x # t
        <4>1. section[x].awaits \in Request /\ section[x].awaits # r
          BY <3>2, <2>5, <2>6 DEF TypeOK, SectionState
        <4>2. QED
          BY <3>2, <4>1, <2>5 DEF ShowInv, WaitInv
      <3>3. QED
        BY <3>1, <3>2
    <2>8. ShownFresh'
      BY <2>2, <2>5 DEF ShowInv, ShownFresh
    <2>9. QED
      BY <2>7, <2>8 DEF ShowInv
  <1>3. QED
    BY <1>1, <1>2 DEF Load

\* An invalidation leaves an event for every open section.
LEMMA InvalidateShows ==
  ASSUME TypeOK, ShowInv, NEW t \in Tab, Invalidate(t), UNCHANGED request
  PROVE  ShowInv'
  <1>1. \A x \in Tab : section'[x] = [section[x] EXCEPT !.note = section[x].open]
    BY DEF Invalidate
  <1>2. ASSUME NEW x \in Tab
        PROVE  /\ section'[x].open = section[x].open
               /\ section'[x].state = section[x].state
               /\ section'[x].awaits = section[x].awaits
               /\ section'[x].period = section[x].period
               /\ section'[x].of = section[x].of
               /\ section'[x].note = section[x].open
    <2>1. section[x] \in SectionState
      BY DEF TypeOK
    <2>2. QED
      BY <1>1, <2>1 DEF SectionState
  <1>3. QED
    BY <1>2 DEF ShowInv, WaitInv, ShownFresh

LEMMA StepShows == TypeOK /\ FreshInv /\ ShowInv /\ [Next]_vars => ShowInv'
  <1> SUFFICES ASSUME TypeOK, FreshInv, ShowInv, [Next]_vars
               PROVE  ShowInv'
    OBVIOUS
  <1>1. ASSUME NEW t \in Tab, OpenSection(t) PROVE ShowInv'
    <2>1. [NoSection EXCEPT !.open = TRUE] \in SectionState /\ [NoSection EXCEPT !.open = TRUE].open
      BY Constants DEF NoSection, SectionState
    <2>2. QED
      BY <1>1, <2>1, LoadShows DEF OpenSection
  <1>2. ASSUME NEW t \in Tab, NEW p \in Period, ChoosePeriod(t, p) PROVE ShowInv'
    <2>1. [section[t] EXCEPT !.period = p] \in SectionState
          /\ [section[t] EXCEPT !.period = p].open
      BY <1>2 DEF TypeOK, SectionState, ChoosePeriod
    <2>2. QED
      BY <1>2, <2>1, LoadShows DEF ChoosePeriod
  <1>3. ASSUME NEW t \in Tab, Refresh(t) PROVE ShowInv'
    <2>1. [section[t] EXCEPT !.forced = TRUE, !.note = FALSE] \in SectionState
          /\ [section[t] EXCEPT !.forced = TRUE, !.note = FALSE].open
      BY <1>3 DEF TypeOK, SectionState, Refresh
    <2>2. QED
      BY <1>3, <2>1, LoadShows DEF Refresh
  <1>4. ASSUME NEW t \in Tab, CloseSection(t) PROVE ShowInv'
    <2>1. section'[t] = NoSection /\ \A x \in Tab : x # t => section'[x] = section[x]
      BY <1>4 DEF CloseSection, TypeOK
    <2>2. NoSection.awaits = None /\ ~NoSection.open
      BY DEF NoSection
    <2>3. UNCHANGED <<request, invalidated>>
      BY <1>4 DEF CloseSection
    <2>4. QED
      BY <2>1, <2>2, <2>3 DEF ShowInv, WaitInv, ShownFresh
  <1>5. ASSUME NEW r \in Request, Serve(r) PROVE ShowInv'
    <2>1. /\ request[r] \in Fetch /\ request[r] # None
          /\ request' = [request EXCEPT ![r] = [request[r] EXCEPT !.version = db]]
          /\ UNCHANGED <<section, invalidated>>
      BY <1>5 DEF Serve, TypeOK
    <2> DEFINE q == [request[r] EXCEPT !.version = db]
    <2>2. q.tab = request[r].tab /\ q.period = request[r].period /\ q.version = db /\ q \in Fetch
      BY <2>1 DEF Fetch, TypeOK
    <2> HIDE DEF q
    <2>3. request'[r] = q /\ \A x \in Request : x # r => request'[x] = request[x]
      BY <2>1 DEF q, TypeOK
    <2>4. db >= invalidated
      BY DEF FreshInv, TypeOK
    <2>5. WaitInv'
      <3> SUFFICES ASSUME NEW x \in Tab, section[x].awaits # None
                   PROVE  LET w == request'[section[x].awaits]
                          IN /\ section[x].open /\ section[x].state = "loading"
                             /\ w # None /\ w.tab = x /\ w.period = section[x].period
                             /\ \/ section[x].note \/ w.version = None
                                \/ w.version >= invalidated
        BY <2>1 DEF WaitInv
      <3>1. section[x].awaits \in Request
        BY DEF TypeOK, SectionState
      <3>2. QED
        BY <2>1, <2>2, <2>3, <2>4, <3>1, Constants DEF ShowInv, WaitInv
    <2>6. QED
      BY <2>1, <2>5 DEF ShowInv, ShownFresh
  <1>6. ASSUME NEW r \in Request, Arrive(r) PROVE ShowInv'
    <2> DEFINE q == request[r]
               n == [section[q.tab] EXCEPT !.state = "success", !.data = q.version,
                                           !.of = q.period, !.awaits = None]
    <2>1. q \in Fetch /\ q.version \in Nat /\ q.tab \in Tab /\ section[q.tab] \in SectionState
      BY <1>6 DEF Arrive, Fetch, TypeOK
    <2>2. /\ n.state = "success" /\ n.data = q.version /\ n.of = q.period /\ n.awaits = None
          /\ n.period = section[q.tab].period /\ n.note = section[q.tab].note
      BY <2>1 DEF SectionState
    <2>3. /\ section' = IF ~Shows(q.tab, r) THEN section ELSE [section EXCEPT ![q.tab] = n]
          /\ request' = [request EXCEPT ![r] = None]
          /\ UNCHANGED invalidated
      BY <1>6 DEF Arrive
    <2>4. Shows(q.tab, r) => /\ q.period = section[q.tab].period
                             /\ section[q.tab].note \/ q.version >= invalidated
      BY <2>1, Constants DEF Shows, ShowInv, WaitInv
    <2> HIDE DEF q, n
    <2>5. \A x \in Tab : section'[x] = section[x] \/ (x = q.tab /\ Shows(x, r) /\ section'[x] = n)
      BY <2>1, <2>3 DEF TypeOK
    <2>6. \A x \in Tab : section'[x] = section[x] => section[x].awaits # r
      <3> SUFFICES ASSUME NEW x \in Tab, section'[x] = section[x], section[x].awaits = r
                   PROVE  FALSE
        OBVIOUS
      <3>1. x = q.tab
        BY Constants DEF ShowInv, WaitInv, q
      <3>2. section'[x] = n
        BY <2>1, <2>3, <3>1 DEF Shows, TypeOK
      <3>3. QED
        BY <2>2, <3>2, Constants
    <2>7. \A x \in Request : x # r => request'[x] = request[x]
      BY <2>3 DEF TypeOK
    <2>8. WaitInv'
      <3> SUFFICES ASSUME NEW x \in Tab, section'[x].awaits # None
                   PROVE  LET w == request'[section'[x].awaits]
                          IN /\ section'[x].open /\ section'[x].state = "loading"
                             /\ w # None /\ w.tab = x /\ w.period = section'[x].period
                             /\ \/ section'[x].note \/ w.version = None
                                \/ w.version >= invalidated'
        BY DEF WaitInv
      <3>1. section'[x] = section[x] /\ section[x].awaits # r
        BY <2>2, <2>5, <2>6
      <3>2. section[x].awaits \in Request
        BY <3>1 DEF TypeOK, SectionState
      <3>3. request'[section[x].awaits] = request[section[x].awaits]
        BY <2>7, <3>1, <3>2
      <3>4. QED
        BY <2>3, <3>1, <3>3 DEF ShowInv, WaitInv
    <2>9. ShownFresh'
      BY <2>2, <2>3, <2>4, <2>5 DEF ShowInv, ShownFresh
    <2>10. QED
      BY <2>8, <2>9 DEF ShowInv
  <1>7. ASSUME NEW r \in Request, Break(r) PROVE ShowInv'
    <2> DEFINE t == request[r].tab
               n == Broken(t)
    <2>1. t \in Tab /\ section[t] \in SectionState
      BY <1>7 DEF Break, Fetch, TypeOK
    <2>2. n.state = "error" /\ n.awaits = None
      BY <2>1 DEF Broken, SectionState
    <2>3. /\ section' = IF Shows(t, r) THEN [section EXCEPT ![t] = n] ELSE section
          /\ request' = [request EXCEPT ![r] = None]
          /\ UNCHANGED invalidated
      BY <1>7 DEF Break
    <2> HIDE DEF n
    <2>4. \A x \in Tab : section'[x] = section[x] \/ (x = t /\ section'[x] = n)
      BY <2>1, <2>3 DEF TypeOK
    <2>5. \A x \in Tab : section'[x] = section[x] => section[x].awaits # r
      <3> SUFFICES ASSUME NEW x \in Tab, section'[x] = section[x], section[x].awaits = r
                   PROVE  FALSE
        OBVIOUS
      <3>1. x = t
        BY Constants DEF ShowInv, WaitInv
      <3>2. section'[x] = n
        BY <2>1, <2>3, <3>1 DEF Shows, TypeOK
      <3>3. QED
        BY <2>2, <3>2, Constants
    <2>6. \A x \in Request : x # r => request'[x] = request[x]
      BY <2>3 DEF TypeOK
    <2>7. WaitInv'
      <3> SUFFICES ASSUME NEW x \in Tab, section'[x].awaits # None
                   PROVE  LET w == request'[section'[x].awaits]
                          IN /\ section'[x].open /\ section'[x].state = "loading"
                             /\ w # None /\ w.tab = x /\ w.period = section'[x].period
                             /\ \/ section'[x].note \/ w.version = None
                                \/ w.version >= invalidated'
        BY DEF WaitInv
      <3>1. section'[x] = section[x] /\ section[x].awaits # r
        BY <2>2, <2>4, <2>5
      <3>2. section[x].awaits \in Request
        BY <3>1 DEF TypeOK, SectionState
      <3>3. request'[section[x].awaits] = request[section[x].awaits]
        BY <2>6, <3>1, <3>2
      <3>4. QED
        BY <2>3, <3>1, <3>3 DEF ShowInv, WaitInv
    <2>8. ShownFresh'
      BY <2>2, <2>3, <2>4 DEF ShowInv, ShownFresh
    <2>9. QED
      BY <2>7, <2>8 DEF ShowInv
  <1>8. ASSUME NEW u \in Run, BatchReply(u) \/ EntityReply(u) PROVE ShowInv'
    <2>1. run[u].tab \in Tab /\ UNCHANGED request
      BY <1>8 DEF BatchReply, EntityReply, TypeOK, Sync
    <2>2. Invalidate(run[u].tab) \/ UNCHANGED <<cache, revision, invalidated, section>>
      BY <1>8 DEF BatchReply, EntityReply, Concluded
    <2>3. CASE UNCHANGED <<cache, revision, invalidated, section>>
      BY <2>1, <2>3 DEF ShowInv, WaitInv, ShownFresh
    <2>4. QED
      BY <2>1, <2>2, <2>3, InvalidateShows
  <1>9. CASE UNCHANGED <<section, request, invalidated>>
    BY <1>9 DEF ShowInv, WaitInv, ShownFresh
  <1>10. ASSUME NEW t \in Tab, NEW op \in Operation,
                OpenPage(t) \/ ClosePage(t) \/ Poll(t) \/ Start(t, op)
         PROVE  UNCHANGED <<section, request, invalidated>>
    BY <1>10 DEF OpenPage, ClosePage, Poll, Start
  <1>11. ASSUME NEW u \in Run, Commit(u) \/ Refuse(u)
         PROVE  UNCHANGED <<section, request, invalidated>>
    BY <1>11 DEF Commit, Refuse
  <1>12. OtherCommit \/ UNCHANGED vars => UNCHANGED <<section, request, invalidated>>
    BY DEF OtherCommit, vars
  <1>13. QED
    BY <1>1, <1>2, <1>3, <1>4, <1>5, <1>6, <1>7, <1>8, <1>9, <1>10, <1>11, <1>12
       DEF Next, Operation

\* What a section shows as loaded is of its period and, unless an event is still on
\* its way, no older than the last invalidation, whatever was in flight.
THEOREM SectionFresh == Spec => []ShownFresh
  <1>1. Init => ShowInv
    BY DEF Init, ShowInv, WaitInv, ShownFresh, NoSection
  <1>2. ShowInv => ShownFresh
    BY DEF ShowInv
  <1>3. Init => FreshInv
    BY DEF Init, FreshInv
  <1>4. QED
    BY <1>1, <1>2, <1>3, InitTyped, StepTyped, StepFresh, StepShows, PTL DEF Spec
-----------------------------------------------------------------------------
(* What a page that reports success has invalidated *)

\* A run covers commits that were made; a page that shows success has invalidated
\* what its run covers.
CompleteInv ==
  /\ invalidated \in Nat /\ db \in Nat /\ invalidated <= db
  /\ \A u \in Run : run[u] # None => run[u].covers <= db
  /\ CompletedFresh

LEMMA OverCompletes ==
  ASSUME TypeOK, CompleteInv, NEW u \in Run, run[u] # None,
         NEW how \in {"completed", "error"}, Over(u, how), UNCHANGED db,
         invalidated' \in Nat, invalidated' <= db, invalidated <= invalidated',
         how = "completed" => invalidated' = db
  PROVE  CompleteInv'
  <1> DEFINE t == run[u].tab
             n == [page[t] EXCEPT
                     !.running = FALSE, !.sync = how, !.covers = run[u].covers,
                     !.polls = IF how = "completed" THEN @ + 1 ELSE @]
  <1>1. t \in Tab /\ page[t] \in PageState /\ run[u].covers \in Nat /\ run[u].covers <= db
    BY DEF TypeOK, Sync, CompleteInv
  <1>2. n.sync = how /\ n.covers = run[u].covers
    BY <1>1 DEF PageState
  <1>3. page' = page \/ page' = [page EXCEPT ![t] = n]
    BY DEF Over
  <1> HIDE DEF n
  <1>4. \A x \in Tab : page'[x] = page[x] \/ page'[x] = n
    BY <1>1, <1>3 DEF TypeOK
  <1>5. CompletedFresh'
    <2> SUFFICES ASSUME NEW x \in Tab, page'[x].sync = "completed"
                 PROVE  invalidated' >= page'[x].covers
      BY DEF CompletedFresh
    <2>1. CASE page'[x] = n
      BY <2>1, <1>1, <1>2
    <2>2. CASE page'[x] = page[x]
      <3>1. invalidated >= page[x].covers /\ page[x].covers \in Nat
        BY <2>2 DEF CompleteInv, CompletedFresh, TypeOK, PageState
      <3>2. QED
        BY <2>2, <3>1 DEF CompleteInv
    <2>3. QED
      BY <1>4, <2>1, <2>2
  <1>6. \A x \in Run : run'[x] # None => run'[x].covers <= db'
    BY DEF Over, CompleteInv, TypeOK
  <1>7. QED
    BY <1>5, <1>6 DEF CompleteInv, TypeOK

\* A run that goes on keeps what it covers, and an invalidation only helps.
LEMMA GoesOnComplete ==
  ASSUME TypeOK, CompleteInv, UNCHANGED page, db' \in Nat, db <= db',
         invalidated' \in Nat, invalidated <= invalidated', invalidated' <= db',
         \A x \in Run : run'[x] # None => run'[x].covers <= db'
  PROVE  CompleteInv'
  <1>1. \A t \in Tab : page[t].covers \in Nat
    BY DEF TypeOK, PageState
  <1>2. QED
    BY <1>1 DEF CompleteInv, CompletedFresh

LEMMA StepCompletes == TypeOK /\ CompleteInv /\ [Next]_vars => CompleteInv'
  <1> SUFFICES ASSUME TypeOK, CompleteInv, [Next]_vars
               PROVE  CompleteInv'
    OBVIOUS
  <1>a. db \in Nat /\ invalidated \in Nat /\ invalidated <= db
    BY DEF CompleteInv
  <1>1. CASE UNCHANGED <<db, invalidated, page, run>>
    BY <1>1 DEF CompleteInv, CompletedFresh
  <1>2. ASSUME NEW t \in Tab, OpenPage(t) \/ ClosePage(t) \/ Poll(t) PROVE CompleteInv'
    <2>1. page[t] \in PageState /\ UNCHANGED <<db, invalidated>>
      BY <1>2 DEF TypeOK, OpenPage, ClosePage, Poll
    <2>2. \A x \in Tab : x # t => page'[x] = page[x]
      BY <1>2 DEF TypeOK, OpenPage, ClosePage, Poll
    <2>3. page'[t].sync # "completed"
          \/ (page'[t].sync = page[t].sync /\ page'[t].covers = page[t].covers)
      <3>1. CASE OpenPage(t)
        BY <3>1 DEF OpenPage, NoPage, TypeOK
      <3>2. CASE ClosePage(t)
        BY <3>2 DEF ClosePage, NoPage, TypeOK
      <3>3. CASE Poll(t)
        <4>1. PICK locked \in BOOLEAN, loaded \in Parsed :
                page' = [page EXCEPT ![t] = [page[t] EXCEPT !.polls = @ - 1, !.loading = FALSE,
                                               !.locked = locked, !.loaded = loaded]]
          BY <3>3 DEF Poll
        <4>2. page'[t] = [page[t] EXCEPT !.polls = page[t].polls - 1, !.loading = FALSE,
                                         !.locked = locked, !.loaded = loaded]
          BY <4>1 DEF TypeOK
        <4>3. QED
          BY <2>1, <4>2 DEF PageState
      <3>4. QED
        BY <1>2, <3>1, <3>2, <3>3
    <2>4. \A x \in Run : run'[x] # None => run[x] # None /\ run'[x].covers = run[x].covers
      <3>1. CASE ClosePage(t)
        <4> SUFFICES ASSUME NEW x \in Run, run'[x] # None
                     PROVE  run[x] # None /\ run'[x].covers = run[x].covers
          OBVIOUS
        <4>1. run'[x] = IF run[x] # None /\ run[x].tab = t
                        THEN [run[x] EXCEPT !.own = FALSE] ELSE run[x]
          BY <3>1 DEF ClosePage
        <4>2. run[x] # None => run[x] \in Sync
          BY DEF TypeOK
        <4>3. QED
          BY <4>1, <4>2 DEF Sync
      <3>2. CASE UNCHANGED run
        BY <3>2
      <3>3. QED
        BY <1>2, <3>1, <3>2 DEF OpenPage, Poll
    <2>5. CompletedFresh'
      BY <2>1, <2>2, <2>3 DEF CompleteInv, CompletedFresh
    <2>6. QED
      BY <2>1, <2>4, <2>5 DEF CompleteInv
  <1>3. ASSUME NEW t \in Tab, NEW op \in Operation, Start(t, op) PROVE CompleteInv'
    <2>1. PICK u \in Run :
            run' = [run EXCEPT ![u] = [tab |-> t, own |-> TRUE, op |-> op,
                                       steps |-> Steps(op), at |-> "sent", covers |-> 0]]
      BY <1>3 DEF Start
    <2>2. \A x \in Run : run'[x] # None => run'[x].covers <= db
      BY <2>1 DEF CompleteInv, TypeOK
    <2>3. page[t] \in PageState /\ UNCHANGED <<db, invalidated>>
          /\ page' = [page EXCEPT ![t] = [page[t] EXCEPT !.running = TRUE, !.sync = "running"]]
      BY <1>3 DEF TypeOK, Start
    <2>4. \A x \in Tab : page'[x] = page[x] \/ page'[x].sync = "running"
      BY <2>3 DEF TypeOK, PageState
    <2>5. CompletedFresh'
      BY <2>3, <2>4 DEF CompleteInv, CompletedFresh
    <2>6. QED
      BY <2>2, <2>3, <2>5 DEF CompleteInv
  <1>4. ASSUME NEW u \in Run, Commit(u) PROVE CompleteInv'
    <2>1. /\ db' = db + 1 /\ UNCHANGED <<invalidated, page>>
          /\ run' = [run EXCEPT ![u] = [run[u] EXCEPT !.at = "done", !.covers = db']]
      BY <1>4 DEF Commit
    <2>2. run[u] \in Sync
      BY <1>4 DEF Commit, TypeOK
    <2>3. [run[u] EXCEPT !.at = "done", !.covers = db'].covers = db'
      BY <2>2 DEF Sync
    <2>4. \A x \in Run : run'[x] = run[x] \/ run'[x].covers = db'
      BY <2>1, <2>3 DEF TypeOK
    <2>5. \A x \in Run : run[x] # None => run[x].covers \in Nat
      BY DEF TypeOK, Sync
    <2>6. \A x \in Run : run'[x] # None => run'[x].covers <= db'
      BY <1>a, <2>1, <2>4, <2>5 DEF CompleteInv
    <2>7. QED
      BY <1>a, <2>1, <2>6, GoesOnComplete
  <1>5. ASSUME NEW u \in Run, BatchReply(u) \/ EntityReply(u) PROVE CompleteInv'
    <2>1. run[u] # None /\ run[u] \in Sync /\ UNCHANGED db
      BY <1>5 DEF BatchReply, EntityReply, TypeOK
    <2>2. invalidated' = db \/ invalidated' = invalidated
      BY <1>5 DEF BatchReply, EntityReply, Concluded, Invalidate
    <2>3. invalidated' \in Nat /\ invalidated' <= db /\ invalidated <= invalidated'
      BY <1>a, <2>2
    <2>4. CASE Over(u, "error")
      BY <2>1, <2>3, <2>4, OverCompletes
    <2>5. CASE Over(u, "completed") /\ invalidated' = db
      BY <2>1, <2>3, <2>5, OverCompletes
    <2>6. CASE /\ UNCHANGED page
               /\ \/ run' = [run EXCEPT ![u].at = "sent"]
                  \/ run' = [run EXCEPT ![u].at = "sent", ![u].steps = Tail(@)]
      <3>1. run'[u].covers = run[u].covers /\ \A x \in Run : x # u => run'[x] = run[x]
        <4>1. [run[u] EXCEPT !.at = "sent"].covers = run[u].covers
              /\ [run[u] EXCEPT !.at = "sent", !.steps = Tail(@)].covers = run[u].covers
          BY <2>1 DEF Sync
        <4>2. run'[u] = [run[u] EXCEPT !.at = "sent"]
              \/ run'[u] = [run[u] EXCEPT !.at = "sent", !.steps = Tail(@)]
          BY <2>6 DEF TypeOK
        <4>3. \A x \in Run : x # u => run'[x] = run[x]
          BY <2>6 DEF TypeOK
        <4>4. QED
          BY <4>1, <4>2, <4>3
      <3>2. \A x \in Run : run'[x] # None => run'[x].covers <= db
        BY <2>1, <3>1 DEF CompleteInv
      <3>3. QED
        BY <1>a, <2>1, <2>3, <2>6, <3>2, GoesOnComplete
    <2>7. QED
      BY <1>5, <2>4, <2>5, <2>6 DEF BatchReply, EntityReply, Concluded, Invalidate
  <1>6. ASSUME NEW u \in Run, Refuse(u) PROVE CompleteInv'
    <2>1. run[u] # None /\ Over(u, "error") /\ UNCHANGED <<db, invalidated>>
      BY <1>6 DEF Refuse
    <2>2. QED
      BY <1>a, <2>1, OverCompletes
  <1>7. ASSUME OtherCommit PROVE CompleteInv'
    <2>1. db' = db + 1 /\ UNCHANGED <<invalidated, page, run>>
      BY <1>7 DEF OtherCommit
    <2>2. \A x \in Run : run[x] # None => run[x].covers \in Nat
      BY DEF TypeOK, Sync
    <2>3. \A x \in Run : run'[x] # None => run'[x].covers <= db'
      BY <1>a, <2>1, <2>2 DEF CompleteInv
    <2>4. QED
      BY <1>a, <2>1, <2>3, GoesOnComplete
  <1>8. ASSUME NEW t \in Tab, NEW p \in Period,
               OpenSection(t) \/ CloseSection(t) \/ Refresh(t) \/ ChoosePeriod(t, p)
        PROVE  UNCHANGED <<db, invalidated, page, run>>
    BY <1>8 DEF OpenSection, CloseSection, Refresh, ChoosePeriod
  <1>9. ASSUME NEW r \in Request, Serve(r) \/ Arrive(r) \/ Break(r)
        PROVE  UNCHANGED <<db, invalidated, page, run>>
    BY <1>9 DEF Serve, Arrive, Break
  <1>10. Default \in Period
    BY Constants
  <1>11. QED
    BY <1>1, <1>2, <1>3, <1>4, <1>5, <1>6, <1>7, <1>8, <1>9, <1>10 DEF Next, vars

\* A page that reports success has invalidated everything its run committed.
THEOREM SuccessInvalidates == Spec => []CompletedFresh
  <1>1. Init => CompleteInv
    BY DEF Init, CompleteInv, CompletedFresh, NoPage
  <1>2. CompleteInv => CompletedFresh
    BY DEF CompleteInv
  <1>3. QED
    BY <1>1, <1>2, InitTyped, StepTyped, StepCompletes, PTL DEF Spec
-----------------------------------------------------------------------------
(* One synchronisation per page *)

Own(t) == {u \in Run : run[u] # None /\ run[u].tab = t /\ run[u].own}

OwnInv ==
  \A t \in Tab :
    /\ page[t].running <=> page[t].sync = "running"
    /\ page[t].running => page[t].open /\ \E u \in Run : Own(t) = {u}
    /\ ~page[t].running => Own(t) = {}

\* A step that keeps what a page shows and whose run is whose keeps the invariant.
LEMMA OwnKept ==
  ASSUME OwnInv, NEW t \in Tab,
         page'[t].running = page[t].running, page'[t].sync = page[t].sync,
         page'[t].open = page[t].open, Own(t)' = Own(t)
  PROVE  /\ page'[t].running <=> page'[t].sync = "running"
         /\ page'[t].running => page'[t].open /\ \E u \in Run : Own(t)' = {u}
         /\ ~page'[t].running => Own(t)' = {}
  BY Zenon DEF OwnInv

\* A run that changes neither its tab nor its owner.
LEMMA SameOwner ==
  ASSUME NEW u \in Run, NEW n, run' = [run EXCEPT ![u] = n], TypeOK,
         run[u] # None, n # None, n.tab = run[u].tab, n.own = run[u].own
  PROVE  \A t \in Tab : Own(t)' = Own(t)
  BY DEF Own, TypeOK

LEMMA OverOwns ==
  ASSUME TypeOK, OwnInv, NEW u \in Run, run[u] # None,
         NEW how \in {"completed", "error"}, Over(u, how)
  PROVE  OwnInv'
  <1> DEFINE t == run[u].tab
             n == [page[t] EXCEPT
                     !.running = FALSE, !.sync = how, !.covers = run[u].covers,
                     !.polls = IF how = "completed" THEN @ + 1 ELSE @]
  <1>1. t \in Tab /\ page[t] \in PageState /\ run[u].own \in BOOLEAN
    BY DEF TypeOK, Sync
  <1>2. ~n.running /\ n.sync # "running"
    BY <1>1 DEF PageState
  <1>3. run' = [run EXCEPT ![u] = None] /\ page' = IF ~run[u].own THEN page
                                                   ELSE [page EXCEPT ![t] = n]
    BY DEF Over
  <1> HIDE DEF n
  <1>4. run'[u] = None /\ \A x \in Run : x # u => run'[x] = run[x]
    BY <1>3 DEF TypeOK
  <1>5. ASSUME NEW x \in Tab
        PROVE  /\ page'[x].running <=> page'[x].sync = "running"
               /\ page'[x].running => page'[x].open /\ \E v \in Run : Own(x)' = {v}
               /\ ~page'[x].running => Own(x)' = {}
    <2>1. CASE x = t /\ run[u].own
      <3>1. u \in Own(x)
        BY <2>1 DEF Own
      <3>2. Own(x) = {u}
        BY <3>1 DEF OwnInv
      <3>3. Own(x)' = {}
        BY <3>2, <1>4 DEF Own
      <3>4. page'[x] = n
        BY <1>1, <1>3, <2>1 DEF TypeOK
      <3>5. QED
        BY <1>2, <3>3, <3>4
    <2>2. CASE ~(x = t /\ run[u].own)
      <3>1. u \notin Own(x)
        BY <2>2 DEF Own
      <3>2. Own(x)' = Own(x)
        BY <3>1, <1>4 DEF Own
      <3>3. page'[x] = page[x]
        BY <1>3, <2>2 DEF TypeOK
      <3>4. QED
        BY <3>2, <3>3, OwnKept
    <2>3. QED
      BY <2>1, <2>2
  <1>6. QED
    BY <1>5 DEF OwnInv

LEMMA StepOwns == TypeOK /\ OwnInv /\ [Next]_vars => OwnInv'
  <1> SUFFICES ASSUME TypeOK, OwnInv, [Next]_vars
               PROVE  OwnInv'
    OBVIOUS
  <1>1. CASE UNCHANGED <<page, run>>
    BY <1>1 DEF OwnInv, Own
  <1>2. ASSUME UNCHANGED page, \A t \in Tab : Own(t)' = Own(t) PROVE OwnInv'
    BY <1>2 DEF OwnInv
  <1>3. ASSUME NEW t \in Tab, OpenPage(t) PROVE OwnInv'
    <2> DEFINE n == [NoPage EXCEPT !.open = TRUE, !.polls = 1]
    <2>1. ~n.running /\ n.sync = "idle"
      BY DEF NoPage
    <2>2. page' = [page EXCEPT ![t] = n] /\ UNCHANGED run /\ ~page[t].open
      BY <1>3 DEF OpenPage
    <2> HIDE DEF n
    <2>3. page'[t] = n /\ \A x \in Tab : x # t => page'[x] = page[x]
      BY <2>2 DEF TypeOK
    <2>4. Own(t) = {}
      BY <2>2 DEF OwnInv
    <2>5. \A x \in Tab : Own(x)' = Own(x)
      BY <2>2 DEF Own
    <2>6. QED
      BY <2>1, <2>3, <2>4, <2>5 DEF OwnInv
  <1>4. ASSUME NEW t \in Tab, ClosePage(t) PROVE OwnInv'
    <2>1. ~NoPage.running /\ NoPage.sync = "idle"
      BY DEF NoPage
    <2>2. page'[t] = NoPage /\ \A x \in Tab : x # t => page'[x] = page[x]
      BY <1>4 DEF ClosePage, TypeOK
    <2>3. ASSUME NEW x \in Run
          PROVE  /\ run[x] # None /\ run[x].tab = t => run'[x].own = FALSE
                 /\ ~(run[x] # None /\ run[x].tab = t) => run'[x] = run[x]
      <3>1. run'[x] = IF run[x] # None /\ run[x].tab = t
                      THEN [run[x] EXCEPT !.own = FALSE] ELSE run[x]
        BY <1>4 DEF ClosePage
      <3>2. run[x] # None => run[x] \in Sync
        BY DEF TypeOK
      <3>3. QED
        BY <3>1, <3>2 DEF Sync
    <2>4. Own(t)' = {}
      BY <2>3 DEF Own
    <2>5. ASSUME NEW x \in Tab, x # t PROVE Own(x)' = Own(x)
      <3>1. ASSUME NEW u \in Run, run[u] # None, run[u].tab = t
            PROVE  run'[u] # None /\ run'[u].tab = t
        <4>1. run'[u] = [run[u] EXCEPT !.own = FALSE] /\ run[u] \in Sync
          BY <1>4, <3>1 DEF ClosePage, TypeOK
        <4>2. run'[u].tab = t /\ run'[u] \in Sync
          BY <3>1, <4>1 DEF Sync
        <4>3. QED
          BY <4>2, Constants
      <3>2. ASSUME NEW u \in Run PROVE u \in Own(x)' <=> u \in Own(x)
        <4>1. CASE run[u] # None /\ run[u].tab = t
          BY <2>5, <3>1, <4>1 DEF Own
        <4>2. CASE ~(run[u] # None /\ run[u].tab = t)
          <5>1. run'[u] = run[u]
            BY <2>3, <4>2
          <5>2. QED
            BY <5>1 DEF Own
        <4>3. QED
          BY <4>1, <4>2
      <3>3. QED
        BY <3>2 DEF Own
    <2>6. QED
      BY <2>1, <2>2, <2>4, <2>5 DEF OwnInv
  <1>5. ASSUME NEW t \in Tab, Poll(t) PROVE OwnInv'
    <2>1. PICK locked \in BOOLEAN, loaded \in Parsed :
            page' = [page EXCEPT ![t] = [page[t] EXCEPT !.polls = @ - 1, !.loading = FALSE,
                                           !.locked = locked, !.loaded = loaded]]
      BY <1>5 DEF Poll
    <2>2. page[t] \in PageState /\ UNCHANGED run
      BY <1>5 DEF TypeOK, Poll
    <2>3. \A x \in Tab : x # t => page'[x] = page[x]
      BY <2>1 DEF TypeOK
    <2>4. page'[t] = [page[t] EXCEPT !.polls = page[t].polls - 1, !.loading = FALSE,
                                     !.locked = locked, !.loaded = loaded]
      BY <2>1 DEF TypeOK
    <2>5. /\ page'[t].running = page[t].running /\ page'[t].sync = page[t].sync
          /\ page'[t].open = page[t].open
      BY <2>2, <2>4 DEF PageState
    <2>6. \A x \in Tab : Own(x)' = Own(x)
      BY <2>2 DEF Own
    <2>7. \A x \in Tab : /\ page'[x].running = page[x].running /\ page'[x].sync = page[x].sync
                          /\ page'[x].open = page[x].open
      BY <2>3, <2>5
    <2>8. QED
      BY <2>6, <2>7, OwnKept DEF OwnInv
  <1>6. ASSUME NEW t \in Tab, NEW op \in Operation, Start(t, op) PROVE OwnInv'
    <2> DEFINE r == [tab |-> t, own |-> TRUE, op |-> op,
                     steps |-> Steps(op), at |-> "sent", covers |-> 0]
    <2>1. PICK u \in Run : run[u] = None /\ run' = [run EXCEPT ![u] = r]
      BY <1>6 DEF Start
    <2>2. r.tab = t /\ r.own /\ r # None
      <3>1. r \in Sync
        BY StepsTyped DEF Sync
      <3>2. QED
        BY <3>1, Constants
    <2> HIDE DEF r
    <2>3. run'[u] = r /\ \A x \in Run : x # u => run'[x] = run[x]
      BY <2>1 DEF TypeOK
    <2>4. page[t] \in PageState /\ page[t].open /\ ~page[t].running
          /\ page' = [page EXCEPT ![t] = [page[t] EXCEPT !.running = TRUE, !.sync = "running"]]
      BY <1>6 DEF TypeOK, Start, Enabled
    <2>5. page'[t].running /\ page'[t].sync = "running" /\ page'[t].open
      BY <2>4 DEF PageState, TypeOK
    <2>6. \A x \in Tab : x # t => page'[x] = page[x]
      BY <2>4 DEF TypeOK
    <2>7. Own(t)' = {u}
      <3>1. Own(t) = {}
        BY <2>4 DEF OwnInv
      <3>2. QED
        BY <3>1, <2>2, <2>3 DEF Own
    <2>8. \A x \in Tab : x # t => Own(x)' = Own(x)
      BY <2>1, <2>2, <2>3 DEF Own
    <2>9. QED
      BY <2>5, <2>6, <2>7, <2>8 DEF OwnInv
  <1>7. ASSUME NEW u \in Run, run[u] # None, NEW n \in Sync, UNCHANGED page,
               run' = [run EXCEPT ![u] = n], n.tab = run[u].tab, n.own = run[u].own
        PROVE  OwnInv'
    <2>1. \A t \in Tab : Own(t)' = Own(t)
      BY <1>7, SameOwner, Constants
    <2>2. QED
      BY <1>2, <1>7, <2>1
  <1>8. ASSUME NEW u \in Run, Commit(u) PROVE OwnInv'
    <2> DEFINE n == [run[u] EXCEPT !.at = "done", !.covers = db + 1]
    <2>1. run[u] \in Sync /\ run[u] # None /\ db + 1 \in Nat /\ UNCHANGED page
      BY <1>8 DEF Commit, TypeOK
    <2>2. run' = [run EXCEPT ![u] = n]
      BY <1>8 DEF Commit
    <2>3. n \in Sync /\ n.tab = run[u].tab /\ n.own = run[u].own
      BY <2>1 DEF Sync
    <2> HIDE DEF n
    <2>4. QED
      BY <1>7, <2>1, <2>2, <2>3
  <1>9. ASSUME NEW u \in Run, BatchReply(u) \/ EntityReply(u) PROVE OwnInv'
    <2>1. run[u] # None /\ run[u] \in Sync
      BY <1>9 DEF BatchReply, EntityReply, TypeOK
    <2>2. CASE Over(u, "error") \/ Over(u, "completed")
      BY <2>1, <2>2, OverOwns
    <2>3. CASE UNCHANGED page /\ run' = [run EXCEPT ![u].at = "sent"]
      <3> DEFINE n == [run[u] EXCEPT !.at = "sent"]
      <3>1. n \in Sync /\ n.tab = run[u].tab /\ n.own = run[u].own
        BY <2>1 DEF Sync
      <3>2. run' = [run EXCEPT ![u] = n]
        BY <2>3
      <3> HIDE DEF n
      <3>3. QED
        BY <1>7, <2>1, <2>3, <3>1, <3>2
    <2>4. CASE /\ UNCHANGED page /\ Len(run[u].steps) # 1
               /\ run' = [run EXCEPT ![u].at = "sent", ![u].steps = Tail(@)]
      <3> DEFINE n == [run[u] EXCEPT !.at = "sent", !.steps = Tail(@)]
      <3>1. n \in Sync
        BY <2>1, <2>4, NextSync
      <3>2. n.tab = run[u].tab /\ n.own = run[u].own
        BY <2>1 DEF Sync
      <3>3. run' = [run EXCEPT ![u] = n]
        BY <2>4
      <3> HIDE DEF n
      <3>4. QED
        BY <1>7, <2>1, <2>4, <3>1, <3>2, <3>3
    <2>5. Len(run[u].steps) > 1 => Len(run[u].steps) # 1
      BY <2>1, NextSync
    <2>6. QED
      BY <1>9, <2>2, <2>3, <2>4, <2>5 DEF BatchReply, EntityReply, Concluded
  <1>10. ASSUME NEW u \in Run, Refuse(u) PROVE OwnInv'
    BY <1>10, OverOwns DEF Refuse
  <1>11. ASSUME NEW t \in Tab, NEW p \in Period,
                OpenSection(t) \/ CloseSection(t) \/ Refresh(t) \/ ChoosePeriod(t, p)
         PROVE  UNCHANGED <<page, run>>
    BY <1>11 DEF OpenSection, CloseSection, Refresh, ChoosePeriod
  <1>12. ASSUME NEW r \in Request, Serve(r) \/ Arrive(r) \/ Break(r)
         PROVE  UNCHANGED <<page, run>>
    BY <1>12 DEF Serve, Arrive, Break
  <1>13. Default \in Period /\ (OtherCommit => UNCHANGED <<page, run>>)
    BY Constants DEF OtherCommit
  <1>14. QED
    BY <1>1, <1>3, <1>4, <1>5, <1>6, <1>8, <1>9, <1>10, <1>11, <1>12, <1>13 DEF Next, vars

\* A page runs one synchronisation at a time and its badge tells it.
THEOREM OnePerPage == Spec => []OneRun
  <1>1. Init => OwnInv
    <2>1. ~NoPage.running /\ NoPage.sync = "idle"
      BY DEF NoPage
    <2>2. QED
      BY <2>1 DEF Init, OwnInv, Own
  <1>2. TypeOK /\ OwnInv => OneRun
    <2> SUFFICES ASSUME TypeOK, OwnInv, NEW t \in Tab
                 PROVE  /\ Cardinality(Own(t)) = IF page[t].running THEN 1 ELSE 0
                        /\ page[t].running <=> Badge(t) = "syncing"
      BY DEF OneRun, Own
    <2>1. Badge(t) = "syncing" <=> page[t].sync = "running"
      BY DEF Badge, TypeOK, PageState
    <2>2. CASE page[t].running
      <3>1. PICK u \in Run : Own(t) = {u}
        BY <2>2 DEF OwnInv
      <3>2. Cardinality(Own(t)) = 1
        BY <3>1, FS_Singleton
      <3>3. QED
        BY <2>1, <2>2, <3>2 DEF OwnInv
    <2>3. CASE ~page[t].running
      <3>1. Cardinality(Own(t)) = 0
        BY <2>3, FS_EmptySet DEF OwnInv
      <3>2. QED
        BY <2>1, <2>3, <3>1 DEF OwnInv
    <2>4. QED
      BY <2>2, <2>3
  <1>3. QED
    BY <1>1, <1>2, InitTyped, StepTyped, StepOwns, PTL DEF Spec
=============================================================================
