------------------------------- MODULE Session -------------------------------
(* Signing in and out of the front end, in one tab: the login form, the     *)
(* counter of failed attempts, the session kept in sessionStorage and the   *)
(* user the provider shows.  Checking a password, signing and verifying a   *)
(* session are awaited.  The form refuses a second submission while it is   *)
(* pending, but a form that is mounted again (the visitor navigates inside  *)
(* the application while the answer is out) knows nothing of the first.     *)
(*                                                                          *)
(* A session is its time of expiry; times are whole units of a clock.       *)
EXTENDS Integers, FiniteSets

CONSTANTS
  Login,        \* slots for submissions of the form
  None,         \* no session; no submission
  MaxAttempts,  \* MAX_ATTEMPTS
  Block,        \* BLOCK_DURATION_MS
  Reset,        \* RESET_INTERVAL_MS
  Life,         \* SESSION_DURATION_MS
  MaxNow        \* bound on the clock

ASSUME SessionAssumption ==
  /\ MaxAttempts \in Nat \ {0} /\ Block \in Nat \ {0} /\ Reset \in Nat
  /\ Life \in Nat \ {0} /\ MaxNow \in Nat /\ None \notin Nat

VARIABLES
  now,
  attempts,   \* count, first attempt, end of the block (0: none)
  store,      \* the session in sessionStorage
  user,       \* the session the provider shows
  loading,    \* whether the provider is verifying what it read when it was mounted
  read,       \* what it read then
  form,       \* the submission the form waits for
  login,      \* the submissions under way
  stale,      \* those that verify a session which has been removed since
  raced,      \* whether the user shown is of such a submission
  left        \* signed out, and nobody has signed in since

vars == <<now, attempts, store, user, loading, read, form, login, stale, raced, left>>

Nothing == [count |-> 0, first |-> 0, until |-> 0]
Rest == [at |-> "rest", right |-> FALSE, session |-> None]
Verifying == {l \in Login : login[l].at = "load"}

-----------------------------------------------------------------------------
(* The counter of attempts *)

\* isBlocked forgets a block that is over.
Blocked == attempts.until # 0 /\ now < attempts.until
AfterCheck == IF attempts.until # 0 /\ now >= attempts.until THEN Nothing ELSE attempts

\* Fault: the reset of the window forgets the block.
FailedWithBlock(a) ==
  LET old == IF now - a.first > Reset THEN [a EXCEPT !.count = 0, !.first = now] ELSE a
      count == old.count + 1
  IN [count |-> count, first |-> IF old.count = 0 THEN now ELSE old.first,
      until |-> IF count >= MaxAttempts THEN now + Block ELSE old.until]

\* logAttempt, for a failure on counter a.
Failed(a) ==
  LET old == IF now - a.first > Reset THEN [Nothing EXCEPT !.first = now] ELSE a
      count == old.count + 1
  IN [count |-> count, first |-> IF old.count = 0 THEN now ELSE old.first,
      until |-> IF count >= MaxAttempts THEN now + Block ELSE old.until]

-----------------------------------------------------------------------------
(* Signing in *)

\* What a submission may hold: a blank login, one nobody has, the user's own.
Typed == {"blank", "unknown", "known"}

\* What verifyPassword says of a stored hash and the password typed.
Verdicts == BOOLEAN

AtForm == ~loading /\ user = None

\* The form is there, and its button is not disabled by a submission it waits for.
Accepts == AtForm /\ form = None

\* login begins: refused while blocked or blank, a failure at once for an
\* unknown user, else the password is checked.
Submit(l) ==
  /\ Accepts /\ login[l] = Rest
  /\ form' = l
  /\ \E typed \in Typed, right \in Verdicts :
       IF ~Blocked /\ typed = "known"
       THEN /\ login' = [login EXCEPT ![l] = [Rest EXCEPT !.at = "verify", !.right = right]]
            /\ attempts' = AfterCheck
       ELSE /\ login' = [login EXCEPT ![l] = [Rest EXCEPT !.at = "delay"]]
            /\ attempts' = IF ~Blocked /\ typed = "unknown" THEN Failed(AfterCheck)
                           ELSE AfterCheck
  /\ UNCHANGED <<now, store, user, loading, read, stale, raced, left>>

\* The form is mounted again and waits for nothing.
Remount ==
  /\ AtForm /\ form # None
  /\ form' = None
  /\ UNCHANGED <<now, attempts, store, user, loading, read, login, stale, raced, left>>

Answered(l) == form' = IF form = l THEN None ELSE form

\* The password has been checked; a success forgets all failures.
Checked(l) ==
  /\ login[l].at = "verify"
  /\ IF login[l].right
     THEN /\ attempts' = Nothing
          /\ login' = [login EXCEPT ![l].at = "sign", ![l].session = now + Life]
     ELSE /\ attempts' = Failed(attempts)
          /\ login' = [login EXCEPT ![l].at = "delay"]
  /\ UNCHANGED <<now, store, user, loading, read, form, stale, raced, left>>

\* The session is signed and stored, and read back at once to be verified.
Signed(l) ==
  /\ login[l].at = "sign"
  /\ store' = login[l].session
  /\ login' = [login EXCEPT ![l].at = "load"]
  /\ stale' = {} /\ raced' = FALSE /\ left' = FALSE
  /\ UNCHANGED <<now, attempts, user, loading, read, form>>

\* loadSession: a session that is over is removed, whatever is stored by then.
Over(session) == session # None /\ now > session
Loaded(session) ==
  /\ user' = IF Over(session) THEN None ELSE session
  /\ store' = IF Over(session) THEN None ELSE store

Shown(l) ==
  /\ login[l].at = "load"
  /\ Loaded(login[l].session)
  /\ IF Over(login[l].session)
     THEN stale' = Verifying \ {l} /\ raced' = FALSE /\ left' = left
     ELSE stale' = stale \ {l} /\ raced' = (l \in stale) /\ left' = (left /\ l \notin stale)
  /\ login' = [login EXCEPT ![l] = Rest]
  /\ Answered(l)
  /\ UNCHANGED <<now, attempts, loading, read>>

Rejected(l) ==
  /\ login[l].at = "delay"
  /\ login' = [login EXCEPT ![l] = Rest]
  /\ Answered(l)
  /\ UNCHANGED <<now, attempts, store, user, loading, read, stale, raced, left>>

-----------------------------------------------------------------------------
(* The provider *)

\* What logout makes of the stored session.  Fault: it only leaves the provider.
Uncleared == store
Cleared == None

\* logout, from a page that is shown only to a user.
Logout ==
  /\ user # None
  /\ store' = Cleared /\ user' = None
  /\ stale' = Verifying /\ raced' = FALSE /\ left' = TRUE
  /\ UNCHANGED <<now, attempts, loading, read, form, login>>

\* The page is loaded again: what was under way is gone, the counter too.
Reload ==
  /\ ~loading
  /\ loading' = TRUE /\ read' = store
  /\ user' = None /\ form' = None /\ attempts' = Nothing
  /\ login' = [l \in Login |-> Rest]
  /\ stale' = {} /\ raced' = FALSE
  /\ UNCHANGED <<now, store, left>>

Initialised ==
  /\ loading
  /\ Loaded(read)
  /\ loading' = FALSE /\ read' = None
  /\ UNCHANGED <<now, attempts, form, login, stale, raced, left>>

Tick ==
  /\ now < MaxNow
  /\ now' = now + 1
  /\ UNCHANGED <<attempts, store, user, loading, read, form, login, stale, raced, left>>

Init ==
  /\ now = 0 /\ attempts = Nothing
  /\ store = None /\ user = None
  /\ loading = TRUE /\ read = None /\ form = None
  /\ login = [l \in Login |-> Rest]
  /\ stale = {} /\ raced = FALSE /\ left = FALSE

Next ==
  \/ Remount \/ Logout \/ Reload \/ Initialised \/ Tick
  \/ \E l \in Login : Submit(l) \/ Checked(l) \/ Signed(l) \/ Shown(l) \/ Rejected(l)

Spec == Init /\ [][Next]_vars

-----------------------------------------------------------------------------
(* Properties *)

TypeOK ==
  /\ now \in Nat
  /\ attempts \in [count : Nat, first : Nat, until : Nat]
  /\ store \in Nat \cup {None} /\ user \in Nat \cup {None}
  /\ loading \in BOOLEAN /\ read \in Nat \cup {None} /\ form \in Login \cup {None}
  /\ login \in [Login -> [at : {"rest", "verify", "sign", "load", "delay"},
                          right : BOOLEAN, session : Nat \cup {None}]]
  /\ stale \subseteq Login /\ raced \in BOOLEAN /\ left \in BOOLEAN

\* Signing out holds with submissions under way, reloads included: no user and no
\* session come back until a submission stores its session, and then user and store
\* go together.  The one exception is a submission that had read its session
\* before it was removed (by the logout, or because another was over): it
\* still shows its user, with nothing stored for a reload to find.
LogoutHolds ==
  /\ left => store = None /\ user = None /\ read = None
  /\ user # None => store # None \/ raced

\* A block is on exactly while the limit of failures has been reached, through
\* overlapping submissions, resets of the window and successes.
BlockIff == attempts.until # 0 <=> attempts.count >= MaxAttempts
=============================================================================
