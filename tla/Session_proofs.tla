---------------------------- MODULE Session_proofs ----------------------------
(* Theorems about Session.  What a logout leaves depends on what is under     *)
(* way in other steps of the same tab; StoreInv says what each of them holds. *)
EXTENDS Session, TLAPS

USE DEF Rest, Nothing

Attempts == [count : Nat, first : Nat, until : Nat]
Submission == [at : {"rest", "verify", "sign", "load", "delay"},
               right : BOOLEAN, session : Nat \cup {None}]

\* A counter whose block is on exactly while it has reached the limit.
Counts(a) == a.until # 0 <=> a.count >= MaxAttempts

\* A failure counts, and blocks exactly when the limit is reached.
LEMMA FailureCounts ==
  ASSUME NEW a \in Attempts, now \in Nat, Counts(a)
  PROVE  Failed(a) \in Attempts /\ Counts(Failed(a))
<1> DEFINE old == IF now - a.first > Reset THEN [Nothing EXCEPT !.first = now] ELSE a
<1>1. old \in Attempts /\ Counts(old)
  <2>1. CASE now - a.first > Reset
    <3>1. old = [count |-> 0, first |-> now, until |-> 0]
      BY <2>1
    <3>2. QED
      BY <3>1, SessionAssumption DEF Attempts, Counts
  <2>2. CASE ~(now - a.first > Reset)
    BY <2>2
  <2>3. QED
    BY <2>1, <2>2
<1>2. Failed(a) = [count |-> old.count + 1, first |-> IF old.count = 0 THEN now ELSE old.first,
                   until |-> IF old.count + 1 >= MaxAttempts THEN now + Block ELSE old.until]
  BY DEF Failed
<1> HIDE DEF old
<1>3. QED
  BY <1>1, <1>2, SessionAssumption DEF Attempts, Counts

\* Forgetting a block that is over leaves a counter that blocks at the limit.
LEMMA CheckCounts ==
  ASSUME attempts \in Attempts, Counts(attempts)
  PROVE  AfterCheck \in Attempts /\ Counts(AfterCheck)
BY SessionAssumption DEF AfterCheck, Attempts, Counts

-------------------------------------------------------------------------------
(* Typing *)

\* What every state satisfies of types.
LEMMA Typing == TypeOK /\ BlockIff /\ [Next]_vars => TypeOK' /\ BlockIff'
<1> SUFFICES ASSUME TypeOK, BlockIff, [Next]_vars PROVE TypeOK' /\ BlockIff'
  OBVIOUS
<1> USE SessionAssumption
<1>0. /\ now \in Nat /\ attempts \in Attempts /\ Counts(attempts)
      /\ login \in [Login -> Submission]
  BY DEF TypeOK, BlockIff, Attempts, Submission, Counts
<1>1. ASSUME NEW l \in Login, Submit(l) PROVE TypeOK' /\ BlockIff'
  <2>1. PICK typed \in Typed, right \in Verdicts :
          IF ~Blocked /\ typed = "known"
          THEN /\ login' = [login EXCEPT ![l] = [Rest EXCEPT !.at = "verify", !.right = right]]
               /\ attempts' = AfterCheck
          ELSE /\ login' = [login EXCEPT ![l] = [Rest EXCEPT !.at = "delay"]]
               /\ attempts' = IF ~Blocked /\ typed = "unknown" THEN Failed(AfterCheck)
                              ELSE AfterCheck
    BY <1>1 DEF Submit
  <2>2. AfterCheck \in Attempts /\ Counts(AfterCheck)
    BY <1>0, CheckCounts
  <2>3. Failed(AfterCheck) \in Attempts /\ Counts(Failed(AfterCheck))
    BY <1>0, <2>2, FailureCounts
  <2>4. attempts' \in Attempts /\ Counts(attempts')
    BY <2>1, <2>2, <2>3
  <2>5. [Rest EXCEPT !.at = "verify", !.right = right] \in Submission
    BY <2>1 DEF Submission, Verdicts
  <2>6. [Rest EXCEPT !.at = "delay"] \in Submission
    BY DEF Submission
  <2>7. login' \in [Login -> Submission]
    BY <1>0, <2>1, <2>5, <2>6
  <2>8. QED
    BY <1>1, <2>4, <2>7 DEF TypeOK, BlockIff, Attempts, Submission, Counts, Submit
<1>2. ASSUME NEW l \in Login, Checked(l) PROVE TypeOK' /\ BlockIff'
  <2>1. CASE login[l].right
    <3>1. now + Life \in Nat
      BY <1>0
    <3>2. [login[l] EXCEPT !.at = "sign", !.session = now + Life] \in Submission
      BY <1>0, <3>1 DEF Submission
    <3>3. login' = [login EXCEPT ![l] = [login[l] EXCEPT !.at = "sign", !.session = now + Life]]
      BY <1>2, <2>1 DEF Checked
    <3>4. login' \in [Login -> Submission]
      BY <1>0, <3>2, <3>3
    <3>5. attempts' = Nothing
      BY <1>2, <2>1 DEF Checked
    <3>6. attempts' \in Attempts /\ Counts(attempts')
      BY <3>5 DEF Attempts, Counts
    <3>7. QED
      BY <1>2, <3>4, <3>6 DEF TypeOK, BlockIff, Attempts, Submission, Counts, Checked
  <2>2. CASE ~login[l].right
    <3>1. attempts' = Failed(attempts)
      BY <1>2, <2>2 DEF Checked
    <3>2. attempts' \in Attempts /\ Counts(attempts')
      BY <1>0, <3>1, FailureCounts
    <3>3. [login[l] EXCEPT !.at = "delay"] \in Submission
      BY <1>0 DEF Submission
    <3>4. login' = [login EXCEPT ![l] = [login[l] EXCEPT !.at = "delay"]]
      BY <1>2, <2>2 DEF Checked
    <3>5. login' \in [Login -> Submission]
      BY <1>0, <3>3, <3>4
    <3>6. QED
      BY <1>2, <3>2, <3>5 DEF TypeOK, BlockIff, Attempts, Submission, Counts, Checked
  <2>3. QED
    BY <2>1, <2>2
<1>3. ASSUME NEW l \in Login, Signed(l) PROVE TypeOK' /\ BlockIff'
  <2>1. [login[l] EXCEPT !.at = "load"] \in Submission
    BY <1>0 DEF Submission
  <2>2. login' = [login EXCEPT ![l] = [login[l] EXCEPT !.at = "load"]]
    BY <1>3 DEF Signed
  <2>3. login' \in [Login -> Submission] /\ login[l].session \in Nat \cup {None}
    BY <1>0, <2>1, <2>2 DEF Submission
  <2>4. QED
    BY <1>3, <2>3 DEF TypeOK, BlockIff, Submission, Signed
<1>4. ASSUME NEW l \in Login, Shown(l) \/ Rejected(l) PROVE TypeOK' /\ BlockIff'
  <2>1. Rest \in Submission
    BY DEF Submission
  <2>2. login' = [login EXCEPT ![l] = Rest]
    BY <1>4 DEF Shown, Rejected
  <2>3. login' \in [Login -> Submission] /\ login[l].session \in Nat \cup {None}
    BY <1>0, <2>1, <2>2 DEF Submission
  <2>4. store' \in Nat \cup {None} /\ user' \in Nat \cup {None}
    BY <1>4, <2>3 DEF TypeOK, Shown, Rejected, Loaded
  <2>5. form' \in Login \cup {None}
    BY <1>4 DEF TypeOK, Shown, Rejected, Answered
  <2>6. stale' \subseteq Login /\ raced' \in BOOLEAN /\ left' \in BOOLEAN
    <3>1. CASE Rejected(l)
      BY <3>1 DEF TypeOK, Rejected
    <3>2. CASE Shown(l) /\ Over(login[l].session)
      <4>1. stale' = Verifying \ {l} /\ raced' = FALSE /\ left' = left
        BY <3>2 DEF Shown
      <4>2. QED
        BY <4>1 DEF TypeOK, Verifying
    <3>3. CASE Shown(l) /\ ~Over(login[l].session)
      <4>1. stale' = stale \ {l} /\ raced' = (l \in stale) /\ left' = (left /\ l \notin stale)
        BY <3>3 DEF Shown
      <4>2. raced' \in BOOLEAN
        <5>1. CASE l \in stale
          BY <4>1, <5>1
        <5>2. CASE l \notin stale
          BY <4>1, <5>2
        <5>3. QED
          BY <5>1, <5>2
      <4>3. left' \in BOOLEAN
        BY <4>1
      <4>4. QED
        BY <4>1, <4>2, <4>3 DEF TypeOK
    <3>4. QED
      BY <1>4, <3>1, <3>2, <3>3
  <2>7. UNCHANGED <<now, attempts, loading, read>>
    BY <1>4 DEF Shown, Rejected
  <2>8. QED
    BY <2>3, <2>4, <2>5, <2>6, <2>7 DEF TypeOK, BlockIff, Submission
<1>5. ASSUME Reload PROVE TypeOK' /\ BlockIff'
  <2>1. Rest \in Submission
    BY DEF Submission
  <2>2. login' \in [Login -> Submission]
    BY <1>5, <2>1 DEF Reload
  <2>3. attempts' = Nothing
    BY <1>5 DEF Reload
  <2>4. attempts' \in Attempts /\ Counts(attempts')
    BY <2>3 DEF Attempts, Counts
  <2>5. QED
    BY <1>5, <2>2, <2>4 DEF TypeOK, BlockIff, Attempts, Submission, Counts, Reload
<1>6. ASSUME Logout PROVE TypeOK' /\ BlockIff'
  BY <1>6 DEF TypeOK, BlockIff, Logout, Cleared, Verifying
<1>7. ASSUME Initialised PROVE TypeOK' /\ BlockIff'
  BY <1>7 DEF TypeOK, BlockIff, Initialised, Loaded
<1>8. ASSUME Remount \/ Tick PROVE TypeOK' /\ BlockIff'
  BY <1>8 DEF TypeOK, BlockIff, Remount, Tick
<1>9. ASSUME UNCHANGED vars PROVE TypeOK' /\ BlockIff'
  BY <1>9 DEF TypeOK, BlockIff, vars
<1>10. QED
  BY <1>1, <1>2, <1>3, <1>4, <1>5, <1>6, <1>7, <1>8, <1>9 DEF Next

\* The first state is well typed.
LEMMA FirstTyped == Init => TypeOK /\ BlockIff
<1> SUFFICES ASSUME Init PROVE TypeOK /\ BlockIff
  OBVIOUS
<1>1. Rest \in Submission
  BY DEF Submission
<1>2. login \in [Login -> Submission]
  BY <1>1 DEF Init
<1>3. attempts \in Attempts /\ Counts(attempts)
  BY SessionAssumption DEF Init, Attempts, Counts
<1>4. QED
  BY <1>2, <1>3 DEF Init, TypeOK, BlockIff, Submission, Attempts, Counts

\* Every reachable state of the tab is well typed.
THEOREM TypeCorrect == Spec => []TypeOK
<1> QED
  BY FirstTyped, Typing, PTL DEF Spec

\* Through overlapping submissions, resets of the window, successes and reloads,
\* attempts are blocked exactly while the limit of failures has been reached.
THEOREM BlockAtLimit == Spec => []BlockIff
<1> QED
  BY FirstTyped, Typing, PTL DEF Spec

-------------------------------------------------------------------------------
(* What is stored, shown and under way *)

Quiet == \A l \in Login : login[l].at = "rest"

\* While the provider verifies what it read, nothing else can move; a session that
\* is being verified, or a user shown, is stored unless it was removed meanwhile;
\* nothing is stored, shown or read after a logout.
StoreInv ==
  /\ loading => read = store /\ user = None /\ Quiet
  /\ ~loading => read = None
  /\ \A l \in Login : /\ login[l].at = "sign" => login[l].session # None
                      /\ login[l].at = "load" => l \in stale \/ store # None
  /\ user # None => store # None \/ raced
  /\ left => store = None /\ user = None /\ read = None

\* Every step keeps it.
LEMMA Storing == TypeOK /\ StoreInv /\ [Next]_vars => StoreInv'
<1> SUFFICES ASSUME TypeOK, StoreInv, [Next]_vars PROVE StoreInv'
  OBVIOUS
<1> USE SessionAssumption
<1>0. login \in [Login -> Submission]
  BY DEF TypeOK, Submission
<1>1. ASSUME NEW l \in Login, Submit(l) PROVE StoreInv'
  <2>1. /\ \A m \in Login : m # l => login'[m] = login[m]
        /\ login'[l].at \in {"verify", "delay"}
    BY <1>0, <1>1 DEF Submit
  <2>2. ~loading
    BY <1>1 DEF Submit, Accepts, AtForm
  <2>3. UNCHANGED <<store, user, loading, read, stale, raced, left>>
    BY <1>1 DEF Submit
  <2>4. QED
    BY <2>1, <2>2, <2>3 DEF StoreInv
<1>2. ASSUME NEW l \in Login, Checked(l) PROVE StoreInv'
  <2>1. ~loading
    BY <1>2 DEF Checked, StoreInv, Quiet
  <2>2. /\ \A m \in Login : m # l => login'[m] = login[m]
        /\ \/ login'[l].at = "sign" /\ login'[l].session = now + Life
           \/ login'[l].at = "delay"
    BY <1>0, <1>2 DEF Checked, Submission
  <2>3. now + Life # None
    <3>1. now + Life \in Nat
      BY DEF TypeOK
    <3>2. QED
      BY <3>1
  <2>4. UNCHANGED <<store, user, loading, read, stale, raced, left>>
    BY <1>2 DEF Checked
  <2>5. QED
    BY <2>1, <2>2, <2>3, <2>4 DEF StoreInv
<1>3. ASSUME NEW l \in Login, Signed(l) PROVE StoreInv'
  <2>1. ~loading
    BY <1>3 DEF Signed, StoreInv, Quiet
  <2>2. /\ \A m \in Login : m # l => login'[m] = login[m]
        /\ login'[l].at = "load"
    BY <1>0, <1>3 DEF Signed, Submission
  <2>3. store' # None /\ left' = FALSE
    BY <1>3 DEF Signed, StoreInv
  <2>4. UNCHANGED <<user, loading, read>>
    BY <1>3 DEF Signed
  <2>5. QED
    BY <2>1, <2>2, <2>3, <2>4 DEF StoreInv
<1>4. ASSUME NEW l \in Login, Shown(l) PROVE StoreInv'
  <2>1. ~loading
    BY <1>4 DEF Shown, StoreInv, Quiet
  <2>2. /\ \A m \in Login : m # l => login'[m] = login[m]
        /\ login'[l].at = "rest"
    BY <1>0, <1>4 DEF Shown
  <2>3. UNCHANGED <<loading, read>>
    BY <1>4 DEF Shown
  <2>4. CASE Over(login[l].session)
    <3>1. user' = None /\ store' = None /\ stale' = Verifying \ {l}
      BY <1>4, <2>4 DEF Shown, Loaded
    <3>2. \A m \in Login : login'[m].at = "load" => m \in stale'
      BY <2>2, <3>1 DEF Verifying
    <3>3. QED
      BY <2>1, <2>2, <2>3, <3>1, <3>2 DEF StoreInv
  <2>5. CASE ~Over(login[l].session)
    <3>1. /\ store' = store /\ stale' = stale \ {l}
          /\ raced' = (l \in stale) /\ left' = (left /\ l \notin stale)
      BY <1>4, <2>5 DEF Shown, Loaded
    <3>2. l \in stale \/ store # None
      BY <1>4 DEF Shown, StoreInv
    <3>3. ~left'
      BY <3>1, <3>2 DEF StoreInv
    <3>4. QED
      BY <2>1, <2>2, <2>3, <3>1, <3>2, <3>3 DEF StoreInv
  <2>6. QED
    BY <2>4, <2>5
<1>5. ASSUME NEW l \in Login, Rejected(l) PROVE StoreInv'
  <2>1. ~loading
    BY <1>5 DEF Rejected, StoreInv, Quiet
  <2>2. /\ \A m \in Login : m # l => login'[m] = login[m]
        /\ login'[l].at = "rest"
    BY <1>0, <1>5 DEF Rejected
  <2>3. UNCHANGED <<store, user, loading, read, stale, raced, left>>
    BY <1>5 DEF Rejected
  <2>4. QED
    BY <2>1, <2>2, <2>3 DEF StoreInv
<1>6. ASSUME Logout PROVE StoreInv'
  <2>1. /\ store' = None /\ user' = None /\ stale' = Verifying
        /\ UNCHANGED <<loading, read, login>>
    BY <1>6 DEF Logout, Cleared
  <2>2. ~loading /\ read = None
    BY <1>6 DEF Logout, StoreInv
  <2>3. QED
    BY <2>1, <2>2 DEF StoreInv, Verifying
<1>7. ASSUME Reload PROVE StoreInv'
  <2>1. \A m \in Login : login'[m].at = "rest"
    BY <1>7 DEF Reload
  <2>2. /\ loading' = TRUE /\ read' = store /\ user' = None
        /\ UNCHANGED <<store, left>>
    BY <1>7 DEF Reload
  <2>3. QED
    BY <2>1, <2>2 DEF StoreInv, Quiet
<1>8. ASSUME Initialised PROVE StoreInv'
  <2>1. /\ loading' = FALSE /\ read' = None /\ UNCHANGED <<login, stale, raced, left>>
        /\ read = store /\ Quiet
    BY <1>8 DEF Initialised, StoreInv
  <2>2. \/ user' = None
        \/ user' = store /\ store' = store
    BY <1>8, <2>1 DEF Initialised, Loaded
  <2>3. left => user' = None /\ store' = None
    BY <1>8, <2>1 DEF Initialised, Loaded, StoreInv, Over
  <2>4. QED
    BY <2>1, <2>2, <2>3 DEF StoreInv, Quiet
<1>9. ASSUME Remount \/ Tick \/ UNCHANGED vars PROVE StoreInv'
  <2>1. UNCHANGED <<store, user, loading, read, login, stale, raced, left>>
    BY <1>9 DEF Remount, Tick, vars
  <2>2. QED
    BY <2>1 DEF StoreInv, Quiet
<1>10. QED
  BY <1>1, <1>2, <1>3, <1>4, <1>5, <1>6, <1>7, <1>8, <1>9 DEF Next

\* It holds at first, of a tab that verifies that nothing is stored.
LEMMA FirstStored == Init => StoreInv
BY DEF Init, StoreInv, Quiet

\* A logout holds with submissions under way, reloads included: neither a user nor a
\* session comes back until a submission stores its session, except the user of
\* one that was verifying its session when the store was cleared, which no reload
\* finds.
THEOREM LogoutFinal == Spec => []LogoutHolds
<1>1. StoreInv => LogoutHolds
  BY DEF StoreInv, LogoutHolds
<1>2. QED
  BY <1>1, TypeCorrect, FirstStored, Storing, PTL DEF Spec
===============================================================================
