--------------------------- MODULE OAuthConnection ---------------------------
(* The connection with Bling: the row of integration_connections, the states *)
(* of authorisations under way in Redis, and the requests that authorise,     *)
(* disconnect, or work with a token and refresh it when it runs out.          *)
(*                                                                            *)
(* A pair of access and refresh token is the number of its issue at Bling, 0  *)
(* for the cleared columns.  A request runs in one transaction: its own       *)
(* version of the row is req[r].mine until it commits, and from its first     *)
(* write, or SELECT FOR UPDATE, on it owns the row.  Work on single items is  *)
(* done in savepoints, and an item may need a token in the middle.            *)
EXTENDS Integers, FiniteSets

CONSTANTS
  Request,   \* slots for requests
  State,     \* values of secrets.token_urlsafe
  NoRow,     \* no row yet; nothing written by this transaction; no savepoint
  Nobody,    \* the row is not locked
  MaxToken   \* bound on the tokens Bling issues

Token == 1 .. MaxToken
Status == {"active", "requires_reauthorization", "disconnected"}
Row == [token : 0 .. MaxToken, status : Status]
Saved == [mine : Row \cup {NoRow}, held : BOOLEAN, spent : SUBSET Token]

ASSUME ConnectionAssumption ==
  MaxToken \in Nat /\ Nobody \notin Request /\ NoRow \notin Row \cup Saved

VARIABLES
  row,      \* the committed row
  owner,    \* the transaction that has locked it
  states,   \* OAuth states: not drawn, in Redis, gone
  issued,   \* how many pairs Bling has issued
  live,     \* refresh tokens Bling accepts
  fresh,    \* pairs whose access token is not about to expire
  req,      \* the requests
  grants,   \* how many pairs each state has been exchanged for
  lost      \* refresh tokens rotated or revoked by Bling for a transaction that did not record it

vars == <<row, owner, states, issued, live, fresh, req, grants, lost>>

Idle == [at |-> "idle", state |-> NoRow, conn |-> NoRow, mine |-> NoRow,
         token |-> 0, saved |-> NoRow, spent |-> {}]

\* The row as the transaction of r sees it.
Seen(r) == IF req[r].mine = NoRow THEN row ELSE req[r].mine

\* r may write the row, or lock it: nobody else has.
Lockable(r) == owner \in {Nobody, r}

\* The transaction of r ends without effect; what Bling did for it is not recorded.
Undone(r, also) ==
  /\ req' = [req EXCEPT ![r] = Idle]
  /\ owner' = IF owner = r THEN Nobody ELSE owner
  /\ lost' = lost \cup req[r].spent \cup also
  /\ UNCHANGED row

-----------------------------------------------------------------------------
(* Authorisation *)

\* build_authorization_url: a state is drawn and kept for a while.
Authorize(s) ==
  /\ states[s] = "undrawn"
  /\ states' = [states EXCEPT ![s] = "stored"]
  /\ UNCHANGED <<row, owner, issued, live, fresh, req, grants, lost>>

StateExpires(s) ==
  /\ states[s] = "stored"
  /\ states' = [states EXCEPT ![s] = "gone"]
  /\ UNCHANGED <<row, owner, issued, live, fresh, req, grants, lost>>

\* What is left of a state that has been validated.  Fault: it can be used again.
KeptState(s) == states[s]
UsedState(s) == "gone"

\* validate_and_consume, one script in Redis.
Consume(s) == states[s] # "undrawn" /\ states' = [states EXCEPT ![s] = UsedState(s)]

\* Bling sends the visitor back, and the visitor may load the address again: with
\* a code, which a stored state lets through, or with an error, or without both.
Callback(r, s) ==
  /\ req[r] = Idle
  /\ Consume(s)
  /\ req' = IF states[s] # "stored" THEN req
            ELSE [req EXCEPT ![r] = [Idle EXCEPT !.at = "exchange", !.state = s]]
  /\ UNCHANGED <<row, owner, issued, live, fresh, grants, lost>>

Denied(s) == Consume(s) /\ UNCHANGED <<row, owner, issued, live, fresh, req, grants, lost>>

Issue == /\ issued < MaxToken
         /\ issued' = issued + 1
         /\ fresh' = fresh \cup {issued'}

Exchange(r) ==
  /\ req[r].at = "exchange"
  /\ Issue
  /\ live' = live \cup {issued'}
  /\ grants' = [grants EXCEPT ![req[r].state] = @ + 1]
  /\ req' = [req EXCEPT ![r].at = "find", ![r].token = issued',
                        ![r].state = NoRow]
  /\ UNCHANGED <<row, owner, states, lost>>

\* upsert looks for the row ...
FindRow(r) ==
  /\ req[r].at = "find"
  /\ req' = [req EXCEPT ![r].at = "store", ![r].conn = row]
  /\ UNCHANGED <<row, owner, states, issued, live, fresh, grants, lost>>

\* ... and inserts it, or updates the columns whose value differs from what it found.
StatusOver(found, now, status) == IF found = status THEN now ELSE status

StoreTokens(r) ==
  /\ req[r].at = "store" /\ Lockable(r)
  /\ LET found == req[r].conn IN
       IF found = NoRow /\ row # NoRow THEN Undone(r, {})
       ELSE /\ owner' = r
            /\ req' = [req EXCEPT
                 ![r].at = "commit", ![r].conn = NoRow,
                 ![r].mine = [token |-> req[r].token,
                              status |-> IF found = NoRow THEN "active"
                                         ELSE StatusOver(found.status, row.status, "active")]]
            /\ UNCHANGED <<row, lost>>
  /\ UNCHANGED <<states, issued, live, fresh, grants>>

-----------------------------------------------------------------------------
(* Disconnecting *)

\* disconnect reads the connection, without a lock; there may be nothing to do.
Disconnect(r) ==
  /\ req[r] = Idle
  /\ row # NoRow /\ row.token # 0
  /\ req' = [req EXCEPT ![r] = [Idle EXCEPT !.at = "revoke", !.conn = row]]
  /\ UNCHANGED <<row, owner, states, issued, live, fresh, grants, lost>>

\* The refresh token is revoked, then the access token, whose revocation may fail.
Revoke(r) ==
  /\ req[r].at = "revoke"
  /\ live' = live \ {req[r].conn.token}
  /\ req' = [req EXCEPT ![r].at = "clear", ![r].spent = {req[r].conn.token}]
  /\ UNCHANGED <<row, owner, states, issued, fresh, grants, lost>>

\* Bling refuses, or the answer is lost after it has revoked the token.
RevokeFails(r) ==
  /\ req[r].at = "revoke"
  /\ \/ Undone(r, {}) /\ UNCHANGED live
     \/ Undone(r, {req[r].conn.token}) /\ live' = live \ {req[r].conn.token}
  /\ UNCHANGED <<states, issued, fresh, grants>>

ClearTokens(r) ==
  /\ req[r].at = "clear" /\ Lockable(r)
  /\ owner' = r
  /\ req' = [req EXCEPT
       ![r].at = "commit", ![r].conn = NoRow,
       ![r].mine = [token |-> 0,
                    status |-> StatusOver(req[r].conn.status, row.status, "disconnected")]]
  /\ UNCHANGED <<row, states, issued, live, fresh, grants, lost>>

-----------------------------------------------------------------------------
(* Working with a token *)

Use(r) ==
  /\ req[r] = Idle
  /\ req' = [req EXCEPT ![r].at = "work"]
  /\ UNCHANGED <<row, owner, states, issued, live, fresh, grants, lost>>

Savepoint(r) ==
  /\ req[r].at = "work" /\ req[r].saved = NoRow
  /\ req' = [req EXCEPT ![r].saved = [mine |-> req[r].mine, held |-> owner = r,
                                      spent |-> req[r].spent]]
  /\ UNCHANGED <<row, owner, states, issued, live, fresh, grants, lost>>

ReleaseSavepoint(r) ==
  /\ req[r].at = "work" /\ req[r].saved # NoRow
  /\ req' = [req EXCEPT ![r].saved = NoRow]
  /\ UNCHANGED <<row, owner, states, issued, live, fresh, grants, lost>>

\* The item fails: what was written for it is undone, a refreshed token included,
\* and a lock taken for it is given back.
RollbackSavepoint(r) ==
  /\ req[r].at = "work" /\ req[r].saved # NoRow
  /\ LET saved == req[r].saved IN
       /\ req' = [req EXCEPT ![r].mine = saved.mine, ![r].spent = saved.spent,
                             ![r].saved = NoRow]
       /\ owner' = IF owner = r /\ ~saved.held THEN Nobody ELSE owner
       /\ lost' = lost \cup (req[r].spent \ saved.spent)
  /\ UNCHANGED <<row, states, issued, live, fresh, grants>>

\* The request goes on with its version of the row, with a token or, counting a
\* failure, without; where the error is passed on, as by the test of the
\* connection, Abort comes next.
Resume(r, mine) == [req EXCEPT ![r].at = "work", ![r].mine = mine, ![r].conn = NoRow]

\* get_valid_access_token: without a lock the row says that the token is about to
\* expire.  Otherwise nothing is changed, whether there is a token or not.
AskToken(r) ==
  /\ req[r].at = "work"
  /\ LET conn == Seen(r) IN
       /\ conn # NoRow /\ conn.token # 0 /\ conn.status = "active"
       /\ conn.token \notin fresh
       /\ req' = [req EXCEPT ![r].at = "lock", ![r].conn = conn]
  /\ UNCHANGED <<row, owner, states, issued, live, fresh, grants, lost>>

\* Fault: the row is locked but the object loaded before is not populated again.
LoadedBefore(r) == req[r].conn
Locked(r) == Seen(r)

\* Fault: that the columns may have been cleared is not considered again.
Uncleared(conn) == FALSE
Cleared(conn) == conn.token = 0

\* lock_for_update: whoever had the row before may have refreshed or cleared it.
\* The status is not looked at again.
LockRow(r) ==
  /\ req[r].at = "lock" /\ Lockable(r)
  /\ owner' = r
  /\ LET conn == Locked(r) IN
       req' = IF Cleared(conn) \/ conn.token \in fresh THEN Resume(r, req[r].mine)
              ELSE [req EXCEPT ![r].at = "refresh", ![r].conn = conn]
  /\ UNCHANGED <<row, states, issued, live, fresh, grants, lost>>

\* _apply_tokens.  Fault: the rotated refresh token is not stored.
ReactivatedOnly(conn, token) == [conn EXCEPT !.status = "active"]
Applied(conn, token) == [conn EXCEPT !.token = token, !.status = "active"]

\* Bling exchanges a refresh token once, for a new pair.
Refresh(r) ==
  /\ req[r].at = "refresh"
  /\ LET conn == req[r].conn IN
       /\ conn.token \in live
       /\ Issue
       /\ live' = (live \ {conn.token}) \cup {issued'}
       /\ req' = [req EXCEPT ![r].at = "work", ![r].mine = Applied(conn, issued'),
                             ![r].conn = NoRow, ![r].spent = @ \cup {conn.token}]
  /\ UNCHANGED <<row, owner, states, grants, lost>>

\* 400 or 401: only a new authorisation helps.
RefreshRefused(r) ==
  /\ req[r].at = "refresh" /\ req[r].conn.token \notin live
  /\ req' = Resume(r, [req[r].conn EXCEPT !.status = "requires_reauthorization"])
  /\ UNCHANGED <<row, owner, states, issued, live, fresh, grants, lost>>

\* Any other failure; Bling may have rotated the token for an answer that is lost.
RefreshFails(r) ==
  /\ req[r].at = "refresh"
  /\ req' = Resume(r, req[r].mine)
  /\ \/ UNCHANGED <<live, lost>>
     \/ /\ live' = live \ {req[r].conn.token}
        /\ lost' = lost \cup {req[r].conn.token}
  /\ UNCHANGED <<row, owner, states, issued, fresh, grants>>

-----------------------------------------------------------------------------
(* The end of a request *)

Commit(r) ==
  /\ req[r].at \in {"work", "commit"} /\ req[r].saved = NoRow
  /\ row' = Seen(r)
  /\ owner' = IF owner = r THEN Nobody ELSE owner
  /\ req' = [req EXCEPT ![r] = Idle]
  /\ UNCHANGED <<states, issued, live, fresh, grants, lost>>

\* An exchange, a statement or the commit fails, or the worker dies.
Abort(r) ==
  /\ req[r] # Idle
  /\ Undone(r, {})
  /\ UNCHANGED <<states, issued, live, fresh, grants>>

TokenExpires(t) ==
  /\ t \in fresh
  /\ fresh' = fresh \ {t}
  /\ UNCHANGED <<row, owner, states, issued, live, req, grants, lost>>

-----------------------------------------------------------------------------
Init ==
  /\ row = NoRow /\ owner = Nobody
  /\ states = [s \in State |-> "undrawn"]
  /\ issued = 0 /\ live = {} /\ fresh = {}
  /\ req = [r \in Request |-> Idle]
  /\ grants = [s \in State |-> 0]
  /\ lost = {}

Next ==
  \/ \E s \in State : Authorize(s) \/ StateExpires(s) \/ Denied(s)
  \/ \E s \in State, r \in Request : Callback(r, s)
  \/ \E r \in Request :
       \/ Exchange(r) \/ FindRow(r) \/ StoreTokens(r)
       \/ Disconnect(r) \/ Revoke(r) \/ RevokeFails(r) \/ ClearTokens(r)
       \/ Use(r) \/ Savepoint(r) \/ ReleaseSavepoint(r) \/ RollbackSavepoint(r)
       \/ AskToken(r) \/ LockRow(r) \/ Refresh(r) \/ RefreshRefused(r) \/ RefreshFails(r)
       \/ Commit(r) \/ Abort(r)
  \/ \E t \in Token : TokenExpires(t)

Spec == Init /\ [][Next]_vars

-----------------------------------------------------------------------------
(* Properties *)

\* The types of the variables.
TypeOK ==
  /\ row \in Row \cup {NoRow}
  /\ owner \in Request \cup {Nobody}
  /\ states \in [State -> {"undrawn", "stored", "gone"}]
  /\ issued \in 0 .. MaxToken /\ live \subseteq Token /\ fresh \subseteq Token
  /\ req \in [Request ->
       [at : {"idle", "exchange", "find", "store", "commit", "revoke", "clear",
              "work", "lock", "refresh"},
        state : State \cup {NoRow}, conn : Row \cup {NoRow}, mine : Row \cup {NoRow},
        token : 0 .. MaxToken,
        saved : Saved \cup {NoRow},
        spent : SUBSET Token]]
  /\ grants \in [State -> Nat] /\ lost \subseteq Token

\* A token whose end at Bling is known to a request under way, or to nobody any more.
Accounted(token) == token \in lost \/ \E r \in Request : token \in req[r].spent

\* The refresh token in the row is one Bling accepts, whatever requests refreshed,
\* disconnected and authorised beside each other, unless the rotation or the
\* revocation of that very token went unrecorded: an item that failed in its
\* savepoint, a transaction that was undone, an answer that was lost.
StoredIsCurrent ==
  row # NoRow /\ row.token # 0 => row.token \in live \/ Accounted(row.token)

\* A connection is told to need a new authorisation only if its refresh token has
\* really come to its end: two requests that find the token expired do not
\* present the same one (lock_for_update reads the row again).
RefusedOnlyIfLost ==
  [][row # NoRow /\ row.status # "requires_reauthorization" /\ row'.status = "requires_reauthorization"
     => Accounted(row'.token)]_vars

\* A request that began while the connection stood does not bring it back after
\* it was disconnected: cleared columns are filled by the commit of an
\* authorisation and nothing else, and their status stays, or becomes, disconnected.
DisconnectHolds ==
  [][row # NoRow /\ row.token = 0 /\ row' # row
     => \/ row' = [token |-> 0, status |-> "disconnected"]
        \/ \E r \in Request : /\ req[r].token # 0 /\ req'[r] = Idle
                              /\ row'.token = req[r].token]_vars

\* An authorisation is used once: however often its callback is loaded, and
\* whatever else happens to its state, it is exchanged for one pair of tokens.
ConsentOnce == \A s \in State : grants[s] <= 1
=============================================================================
