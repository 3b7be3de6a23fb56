------------------------ MODULE OAuthConnection_proofs ------------------------
(***************************************************************************)
(* Proofs about OAuthConnection, for every number of requests, states and  *)
(* tokens.                                                                 *)
(***************************************************************************)
EXTENDS OAuthConnection, TLAPS

Off == [token |-> 0, status |-> "disconnected"]
Dead == "requires_reauthorization"
Working == {"work", "lock", "refresh"}
Phase == {"idle", "exchange", "find", "store", "commit", "revoke", "clear"} \cup Working

-----------------------------------------------------------------------------
(* Types: nothing knows a token Bling has not issued yet. *)

Known == 1 .. issued
RowI == [token : 0 .. issued, status : Status]
SavedI == [mine : RowI \cup {NoRow}, held : BOOLEAN, spent : SUBSET Known]
RequestI == [at : Phase, state : State \cup {NoRow}, conn : RowI \cup {NoRow},
             mine : RowI \cup {NoRow}, token : 0 .. issued,
             saved : SavedI \cup {NoRow}, spent : SUBSET Known]

TypeInv ==
  /\ issued \in 0 .. MaxToken
  /\ row \in RowI \cup {NoRow}
  /\ owner \in Request \cup {Nobody}
  /\ states \in [State -> {"undrawn", "stored", "gone"}]
  /\ live \subseteq Known /\ fresh \subseteq Known /\ lost \subseteq Known
  /\ req \in [Request -> RequestI]
  /\ grants \in [State -> Nat]
  /\ \A r \in Request : /\ req[r].at = "exchange" => req[r].state \in State
                        /\ req[r].at \in {"revoke", "clear", "refresh"}
                             => req[r].conn # NoRow /\ req[r].conn.token # 0
                        /\ req[r].at = "lock" => Seen(r) # NoRow
                        /\ req[r].at \in {"store", "revoke", "clear"} /\ req[r].conn # NoRow
                             => row # NoRow

\* The special value is no row and no savepoint.
LEMMA NoRowApart ==
  ASSUME issued \in 0 .. MaxToken
  PROVE  NoRow \notin RowI /\ NoRow \notin SavedI
<1>1. RowI \subseteq Row /\ SavedI \subseteq Saved
  BY ConnectionAssumption DEF RowI, Row, SavedI, Saved, Token, Known
<1>2. QED
  BY <1>1, ConnectionAssumption

\* What is typed stays typed while Bling issues more.
LEMMA TypesGrow ==
  ASSUME issued \in Nat, issued' \in Nat, issued <= issued'
  PROVE  /\ Known \subseteq Known' /\ RowI \subseteq RowI'
         /\ SavedI \subseteq SavedI' /\ RequestI \subseteq RequestI'
<1>1. Known \subseteq Known' /\ 0 .. issued \subseteq 0 .. issued'
  BY DEF Known
<1>2. RowI \subseteq RowI'
  BY <1>1 DEF RowI
<1>3. SavedI \subseteq SavedI'
  BY <1>1, <1>2 DEF SavedI
<1>4. QED
  BY <1>1, <1>2, <1>3 DEF RequestI

\* A step of r that leaves the row alone.
LEMMA TypedStep ==
  ASSUME TypeInv, NEW r \in Request, NEW n \in RequestI',
         req' = [req EXCEPT ![r] = n], row' = row,
         issued' \in issued .. MaxToken, owner' \in Request \cup {Nobody},
         states' \in [State -> {"undrawn", "stored", "gone"}], grants' \in [State -> Nat],
         live' \subseteq Known', fresh' \subseteq Known', lost' \subseteq Known',
         n.at = "exchange" => n.state \in State,
         n.at \in {"revoke", "clear", "refresh"} => n.conn # NoRow /\ n.conn.token # 0,
         n.at = "lock" => row # NoRow \/ n.mine # NoRow,
         n.at \in {"store", "revoke", "clear"} /\ n.conn # NoRow => row # NoRow
  PROVE  TypeInv'
<1>1. issued \in Nat /\ issued' \in Nat /\ issued <= issued' /\ issued' \in 0 .. MaxToken
  BY ConnectionAssumption DEF TypeInv
<1>2. row' \in RowI' \cup {NoRow} /\ RequestI \subseteq RequestI'
  BY <1>1, TypesGrow DEF TypeInv
<1>3. req' \in [Request -> RequestI']
  BY <1>2 DEF TypeInv
<1>4. req'[r] = n /\ \A x \in Request \ {r} : req'[x] = req[x]
  BY DEF TypeInv
<1>5. QED
  BY <1>1, <1>2, <1>3, <1>4 DEF TypeInv, Seen

\* The same while Bling issues nothing.
LEMMA TypedQuietly ==
  ASSUME TypeInv, NEW r \in Request, NEW n \in RequestI,
         req' = [req EXCEPT ![r] = n], UNCHANGED <<row, issued, fresh, grants>>,
         owner' \in Request \cup {Nobody},
         states' \in [State -> {"undrawn", "stored", "gone"}],
         live' \subseteq Known, lost' \subseteq Known,
         n.at = "exchange" => n.state \in State,
         n.at \in {"revoke", "clear", "refresh"} => n.conn # NoRow /\ n.conn.token # 0,
         n.at = "lock" => row # NoRow \/ n.mine # NoRow,
         n.at \in {"store", "revoke", "clear"} /\ n.conn # NoRow => row # NoRow
  PROVE  TypeInv'
<1>1. RequestI' = RequestI /\ Known' = Known
  BY DEF RequestI, SavedI, RowI, Known
<1>2. issued' \in issued .. MaxToken
  BY ConnectionAssumption DEF TypeInv
<1>3. grants' \in [State -> Nat] /\ fresh' \subseteq Known'
  BY <1>1 DEF TypeInv
<1>4. QED
  BY <1>1, <1>2, <1>3, TypedStep

LEMMA IdleTyped == TypeInv => Idle \in RequestI
BY ConnectionAssumption DEF TypeInv, Phase, Idle, RequestI

LEMMA InitTyped == Init => TypeInv
<1> SUFFICES ASSUME Init PROVE TypeInv
  OBVIOUS
<1>1. issued \in 0 .. MaxToken /\ issued = 0
  BY ConnectionAssumption DEF Init
<1>2. Idle \in RequestI /\ Idle.at = "idle" /\ Idle.conn = NoRow
  BY <1>1 DEF Idle, RequestI, Phase, Known
<1>3. req \in [Request -> RequestI] /\ \A r \in Request : req[r] = Idle
  BY <1>2 DEF Init
<1>4. QED
  BY <1>1, <1>2, <1>3 DEF Init, TypeInv, Known

\* What a request may learn of the row.
LEMMA SeenTyped ==
  ASSUME TypeInv, NEW r \in Request
  PROVE  Seen(r) \in RowI \cup {NoRow} /\ req[r] \in RequestI
BY DEF TypeInv, Seen, RequestI

LEMMA StatusTyped ==
  ASSUME NEW found, NEW now \in Status, NEW status \in Status
  PROVE  StatusOver(found, now, status) \in Status
BY DEF StatusOver

LEMMA StepTyped == TypeInv /\ [Next]_vars => TypeInv'
<1> SUFFICES ASSUME TypeInv, [Next]_vars PROVE TypeInv'
  OBVIOUS
<1> USE ConnectionAssumption
<1>0. /\ issued \in 0 .. MaxToken /\ issued \in Nat /\ issued \in issued .. MaxToken
      /\ owner \in Request \cup {Nobody} /\ Idle \in RequestI
      /\ Idle.at = "idle" /\ Idle.conn = NoRow
      /\ row \in RowI \cup {NoRow} /\ live \subseteq Known /\ lost \subseteq Known
      /\ NoRow \notin RowI /\ NoRow \notin SavedI
  BY IdleTyped, NoRowApart DEF TypeInv, Idle
<1>s. ASSUME UNCHANGED issued PROVE RequestI' = RequestI /\ Known' = Known
  BY <1>s DEF RequestI, SavedI, RowI, Known
<1>t. \A r \in Request :
        /\ req[r] \in RequestI /\ Seen(r) \in RowI \cup {NoRow}
        /\ req[r].spent \subseteq Known
        /\ req[r].at = "exchange" => req[r].state \in State
        /\ req[r].at \in {"revoke", "clear", "refresh"}
             => /\ req[r].conn # NoRow /\ req[r].conn \in RowI
                /\ req[r].conn.token \in Known
        /\ req[r].at = "lock" => Seen(r) # NoRow
        /\ req[r].at \in {"store", "revoke", "clear"} /\ req[r].conn # NoRow => row # NoRow
  <2>1. \A c \in RowI : c.token # 0 => c.token \in Known
    BY <1>0 DEF RowI, Known
  <2>2. QED
    BY <2>1, SeenTyped DEF TypeInv, RequestI
<1>1. ASSUME NEW s \in State, Authorize(s) \/ StateExpires(s) \/ Denied(s) PROVE TypeInv'
  <2>1. /\ states' \in [State -> {"undrawn", "stored", "gone"}]
        /\ UNCHANGED <<row, owner, issued, live, fresh, req, grants, lost>>
    BY <1>1 DEF Authorize, StateExpires, Denied, Consume, UsedState, TypeInv
  <2>2. QED
    BY <2>1, <1>s DEF TypeInv, Known, RowI, Seen
<1>2. ASSUME NEW r \in Request, NEW s \in State, Callback(r, s) PROVE TypeInv'
  <2>1. /\ states' \in [State -> {"undrawn", "stored", "gone"}]
        /\ UNCHANGED <<row, owner, issued, live, fresh, grants, lost>>
    BY <1>2 DEF Callback, Consume, UsedState, TypeInv
  <2>2. CASE req' = req
    BY <2>1, <2>2, <1>s DEF TypeInv, Known, RowI, Seen
  <2>3. CASE req' = [req EXCEPT ![r] = [Idle EXCEPT !.at = "exchange", !.state = s]]
    <3>1. [Idle EXCEPT !.at = "exchange", !.state = s] \in RequestI
      BY <1>0 DEF RequestI, Phase
    <3>2. /\ [Idle EXCEPT !.at = "exchange", !.state = s].at = "exchange"
          /\ [Idle EXCEPT !.at = "exchange", !.state = s].state = s
          /\ [Idle EXCEPT !.at = "exchange", !.state = s].conn = NoRow
      BY DEF Idle
    <3>3. QED
      BY <2>1, <2>3, <3>1, <3>2, <1>0, TypedQuietly DEF TypeInv
  <2>4. QED
    BY <1>2, <2>2, <2>3 DEF Callback
<1>i. ASSUME Issue PROVE /\ issued' \in issued .. MaxToken /\ issued' \in 1 .. issued'
                         /\ fresh' \subseteq Known' /\ live \subseteq Known' /\ lost \subseteq Known'
                         /\ RequestI \subseteq RequestI' /\ RowI \subseteq RowI' /\ Known \subseteq Known'
  <2>1. issued' \in issued .. MaxToken /\ issued' \in 1 .. issued' /\ issued <= issued' /\ issued' \in Nat
    BY <1>i, <1>0 DEF Issue
  <2>2. RequestI \subseteq RequestI' /\ RowI \subseteq RowI' /\ Known \subseteq Known'
    BY <2>1, <1>0, TypesGrow
  <2>3. QED
    BY <2>1, <2>2, <1>0, <1>i DEF TypeInv, Issue, Known
<1>u. ASSUME NEW r \in Request, NEW also \in SUBSET Known, Undone(r, also), UNCHANGED issued
      PROVE  /\ req' = [req EXCEPT ![r] = Idle] /\ row' = row
             /\ owner' \in Request \cup {Nobody} /\ lost' \subseteq Known
  BY <1>u, <1>0, <1>t DEF Undone
<1>3. ASSUME NEW r \in Request, Exchange(r) PROVE TypeInv'
  <2> DEFINE n == [req[r] EXCEPT !.at = "find", !.token = issued', !.state = NoRow]
  <2>1. Issue /\ req[r].at = "exchange"
    BY <1>3 DEF Exchange
  <2>2. n \in RequestI' /\ n.at = "find" /\ n.conn = req[r].conn
    <3>1. req[r] \in RequestI' /\ issued' \in 0 .. issued'
      BY <2>1, <1>i, <1>t
    <3>2. QED
      BY <3>1 DEF RequestI, Phase
  <2>3. req' = [req EXCEPT ![r] = n] /\ UNCHANGED <<row, owner, states, lost>>
    BY <1>3 DEF Exchange
  <2>4. live' \subseteq Known'
    BY <1>3, <2>1, <1>i DEF Exchange, Known
  <2>5. grants' \in [State -> Nat]
    BY <1>3, <2>1, <1>t DEF Exchange, TypeInv
  <2> HIDE DEF n
  <2>6. QED
    BY <2>1, <2>2, <2>3, <2>4, <2>5, <1>i, <1>0, <1>t, TypedStep DEF TypeInv
<1>4. ASSUME NEW r \in Request, FindRow(r) PROVE TypeInv'
  <2> DEFINE n == [req[r] EXCEPT !.at = "store", !.conn = row]
  <2>1. n \in RequestI /\ n.at = "store" /\ n.conn = row
    BY <1>0, <1>t DEF RequestI, Phase
  <2>2. req' = [req EXCEPT ![r] = n] /\ UNCHANGED <<row, owner, states, issued, live, fresh, grants, lost>>
    BY <1>4 DEF FindRow
  <2> HIDE DEF n
  <2>3. QED
    BY <2>1, <2>2, <1>0, TypedQuietly DEF TypeInv
<1>5. ASSUME NEW r \in Request, StoreTokens(r) PROVE TypeInv'
  <2> DEFINE found == req[r].conn
             m == [token |-> req[r].token,
                   status |-> IF found = NoRow THEN "active"
                              ELSE StatusOver(found.status, row.status, "active")]
             n == [req[r] EXCEPT !.at = "commit", !.conn = NoRow, !.mine = m]
  <2>0. UNCHANGED <<states, issued, live, fresh, grants>>
    BY <1>5 DEF StoreTokens
  <2>1. CASE Undone(r, {})
    BY <2>0, <2>1, <1>u, <1>0, TypedQuietly DEF TypeInv
  <2>2. CASE /\ owner' = r /\ req' = [req EXCEPT ![r] = n] /\ UNCHANGED <<row, lost>>
    <3>1. found # NoRow => row \in RowI
      BY <1>5, <1>t, <1>0 DEF StoreTokens
    <3>2. m \in RowI
      BY <3>1, <1>t, StatusTyped DEF RowI, RequestI, Status
    <3> HIDE DEF m
    <3>3. n \in RequestI /\ n.at = "commit" /\ n.conn = NoRow
      BY <3>2, <1>t DEF RequestI, Phase
    <3> HIDE DEF n
    <3>4. QED
      BY <2>0, <2>2, <3>3, <1>0, TypedQuietly DEF TypeInv
  <2>3. QED
    BY <1>5, <2>1, <2>2 DEF StoreTokens
<1>6. ASSUME NEW r \in Request, Disconnect(r) PROVE TypeInv'
  <2> DEFINE n == [Idle EXCEPT !.at = "revoke", !.conn = row]
  <2>1. n \in RequestI /\ n.at = "revoke" /\ n.conn = row /\ row # NoRow /\ row.token # 0
    BY <1>6, <1>0 DEF Disconnect, RequestI, Phase, Idle
  <2>2. req' = [req EXCEPT ![r] = n] /\ UNCHANGED <<row, owner, states, issued, live, fresh, grants, lost>>
    BY <1>6 DEF Disconnect
  <2> HIDE DEF n
  <2>3. QED
    BY <2>1, <2>2, <1>0, TypedQuietly DEF TypeInv
<1>7. ASSUME NEW r \in Request, Revoke(r) PROVE TypeInv'
  <2> DEFINE n == [req[r] EXCEPT !.at = "clear", !.spent = {req[r].conn.token}]
  <2>1. n \in RequestI /\ n.at = "clear" /\ n.conn = req[r].conn
    BY <1>7, <1>t DEF Revoke, RequestI, Phase
  <2>2. /\ req' = [req EXCEPT ![r] = n] /\ UNCHANGED <<row, owner, states, issued, fresh, grants, lost>>
        /\ live' \subseteq Known
    BY <1>7, <1>0 DEF Revoke
  <2>4. n.conn # NoRow /\ n.conn.token # 0
    BY <1>7, <1>t, <2>1 DEF Revoke, Known
  <2>5. row # NoRow
    BY <1>7, <1>t DEF Revoke
  <2> HIDE DEF n
  <2>3. QED
    BY <2>1, <2>2, <2>4, <2>5, <1>0, TypedQuietly DEF TypeInv
<1>8. ASSUME NEW r \in Request, RevokeFails(r) PROVE TypeInv'
  <2>1. PICK also \in SUBSET Known : Undone(r, also)
    BY <1>8, <1>t DEF RevokeFails
  <2>2. live' \subseteq Known /\ UNCHANGED <<states, issued, fresh, grants>>
    BY <1>8, <1>0 DEF RevokeFails
  <2>3. QED
    BY <2>1, <2>2, <1>u, <1>0, TypedQuietly DEF TypeInv
<1>9. ASSUME NEW r \in Request, ClearTokens(r) PROVE TypeInv'
  <2> DEFINE m == [token |-> 0, status |-> StatusOver(req[r].conn.status, row.status, "disconnected")]
             n == [req[r] EXCEPT !.at = "commit", !.conn = NoRow, !.mine = m]
  <2>1. row \in RowI
    BY <1>9, <1>t, <1>0 DEF ClearTokens
  <2>2. m \in RowI
    BY <2>1, <1>0, StatusTyped DEF RowI, Status
  <2>3. /\ req' = [req EXCEPT ![r] = n] /\ owner' = r
        /\ UNCHANGED <<row, states, issued, live, fresh, grants, lost>>
    BY <1>9 DEF ClearTokens
  <2> HIDE DEF m
  <2>4. n \in RequestI /\ n.at = "commit" /\ n.conn = NoRow
    BY <2>2, <1>t DEF RequestI, Phase
  <2> HIDE DEF n
  <2>5. QED
    BY <2>3, <2>4, <1>0, TypedQuietly DEF TypeInv
<1>10. ASSUME NEW r \in Request, Use(r) PROVE TypeInv'
  <2> DEFINE n == [Idle EXCEPT !.at = "work"]
  <2>1. n \in RequestI /\ n.at = "work" /\ n.conn = NoRow
    BY <1>0 DEF RequestI, Phase, Working, Idle
  <2>2. req' = [req EXCEPT ![r] = n] /\ UNCHANGED <<row, owner, states, issued, live, fresh, grants, lost>>
    BY <1>10 DEF Use, TypeInv
  <2> HIDE DEF n
  <2>3. QED
    BY <2>1, <2>2, <1>0, TypedQuietly DEF TypeInv
<1>11. ASSUME NEW r \in Request, Savepoint(r) \/ ReleaseSavepoint(r) PROVE TypeInv'
  <2> DEFINE n(v) == [req[r] EXCEPT !.saved = v]
             v1 == [mine |-> req[r].mine, held |-> owner = r, spent |-> req[r].spent]
  <2>1. v1 \in SavedI
    BY <1>t DEF SavedI, RequestI
  <2>2. /\ \E v \in {v1, NoRow} : req' = [req EXCEPT ![r] = n(v)]
        /\ UNCHANGED <<row, owner, states, issued, live, fresh, grants, lost>>
        /\ req[r].at = "work"
    BY <1>11 DEF Savepoint, ReleaseSavepoint
  <2> HIDE DEF v1
  <2>3. \A v \in {v1, NoRow} : n(v) \in RequestI /\ n(v).at = req[r].at /\ n(v).conn = req[r].conn
    BY <2>1, <1>t DEF RequestI
  <2>4. PICK v \in {v1, NoRow} : req' = [req EXCEPT ![r] = n(v)]
    BY <2>2
  <2>5. n(v) \in RequestI /\ n(v).at = "work"
    BY <2>2, <2>3
  <2> HIDE DEF n
  <2>6. QED
    BY <2>2, <2>4, <2>5, <1>0, TypedQuietly DEF TypeInv
<1>12. ASSUME NEW r \in Request, RollbackSavepoint(r) PROVE TypeInv'
  <2> DEFINE n == [req[r] EXCEPT !.mine = req[r].saved.mine, !.spent = req[r].saved.spent,
                                 !.saved = NoRow]
  <2>1. req[r].saved \in SavedI /\ req[r].at = "work"
    BY <1>12, <1>t DEF RollbackSavepoint, RequestI
  <2>2. n \in RequestI /\ n.at = "work" /\ n.conn = req[r].conn
    BY <2>1, <1>t DEF RequestI, SavedI
  <2>3. /\ req' = [req EXCEPT ![r] = n]
        /\ UNCHANGED <<row, states, issued, live, fresh, grants>>
        /\ owner' \in Request \cup {Nobody} /\ lost' \subseteq Known
    BY <1>12, <1>0, <1>t DEF RollbackSavepoint
  <2> HIDE DEF n
  <2>4. QED
    BY <2>2, <2>3, <1>0, <1>t, TypedQuietly DEF TypeInv
<1>13. ASSUME NEW r \in Request, AskToken(r) PROVE TypeInv'
  <2> DEFINE n == [req[r] EXCEPT !.at = "lock", !.conn = Seen(r)]
  <2>1. n \in RequestI /\ n.at = "lock" /\ n.mine = req[r].mine
    BY <1>t DEF RequestI, Phase, Working
  <2>2. /\ req' = [req EXCEPT ![r] = n]
        /\ UNCHANGED <<row, owner, states, issued, live, fresh, grants, lost>>
        /\ row # NoRow \/ req[r].mine # NoRow
    BY <1>13 DEF AskToken, Seen
  <2> HIDE DEF n
  <2>3. QED
    BY <2>1, <2>2, <1>0, TypedQuietly DEF TypeInv
<1>r. ASSUME NEW r \in Request, NEW mine \in RowI \cup {NoRow}, req' = Resume(r, mine),
             UNCHANGED <<row, states, issued, fresh, grants>>,
             owner' \in Request \cup {Nobody}, live' \subseteq Known, lost' \subseteq Known
      PROVE  TypeInv'
  <2> DEFINE n == [req[r] EXCEPT !.at = "work", !.mine = mine, !.conn = NoRow]
  <2>1. n \in RequestI /\ n.at = "work"
    BY <1>t DEF RequestI, Phase, Working
  <2>2. req' = [req EXCEPT ![r] = n]
    BY <1>r DEF Resume
  <2> HIDE DEF n
  <2>3. QED
    BY <1>r, <2>1, <2>2, <1>0, TypedQuietly DEF TypeInv
<1>14. ASSUME NEW r \in Request, LockRow(r) PROVE TypeInv'
  <2> DEFINE n == [req[r] EXCEPT !.at = "refresh", !.conn = Seen(r)]
  <2>1. /\ owner' = r /\ UNCHANGED <<row, states, issued, live, fresh, grants, lost>>
    BY <1>14 DEF LockRow
  <2>2. CASE Cleared(Locked(r)) \/ Locked(r).token \in fresh
    <3>1. req' = Resume(r, req[r].mine)
      BY <1>14, <2>2 DEF LockRow
    <3>2. req[r].mine \in RowI \cup {NoRow}
      BY <1>t DEF RequestI
    <3>3. QED
      BY <2>1, <3>1, <3>2, <1>0, <1>r
  <2>3. CASE ~(Cleared(Locked(r)) \/ Locked(r).token \in fresh)
    <3>0. Seen(r).token # 0 /\ req' = [req EXCEPT ![r] = n]
      BY <1>14, <2>3 DEF LockRow, Locked, Cleared
    <3>1. Seen(r) # NoRow
      BY <1>14, <1>t DEF LockRow
    <3>2. n \in RequestI /\ n.at = "refresh" /\ n.conn = Seen(r)
      BY <1>t DEF RequestI, Phase, Working
    <3> HIDE DEF n
    <3>3. QED
      BY <2>1, <3>0, <3>1, <3>2, <1>0, TypedQuietly DEF TypeInv
  <2>4. QED
    BY <2>2, <2>3
<1>15. ASSUME NEW r \in Request, Refresh(r) PROVE TypeInv'
  <2> DEFINE m == Applied(req[r].conn, issued')
             n == [req[r] EXCEPT !.at = "work", !.mine = m, !.conn = NoRow,
                                 !.spent = @ \cup {req[r].conn.token}]
  <2>1. Issue /\ req[r].at = "refresh"
    BY <1>15 DEF Refresh
  <2>2. m \in RowI'
    <3>1. req[r].conn \in RowI' /\ issued' \in 0 .. issued'
      BY <2>1, <1>i, <1>t
    <3>2. QED
      BY <3>1 DEF Applied, RowI, Status
  <2>3. /\ req' = [req EXCEPT ![r] = n] /\ UNCHANGED <<row, owner, states, grants, lost>>
        /\ live' = (live \ {req[r].conn.token}) \cup {issued'}
    BY <1>15 DEF Refresh
  <2> HIDE DEF m
  <2>4. n \in RequestI' /\ n.at = "work"
    <3>1. req[r] \in RequestI' /\ req[r].conn.token \in Known'
      BY <2>1, <1>i, <1>t
    <3>2. QED
      BY <3>1, <2>2 DEF RequestI, Phase, Working
  <2>5. live' \subseteq Known'
    BY <2>1, <2>3, <1>i DEF Known
  <2> HIDE DEF n
  <2>6. QED
    BY <2>1, <2>3, <2>4, <2>5, <1>i, <1>0, TypedStep DEF TypeInv
<1>16. ASSUME NEW r \in Request, RefreshRefused(r) PROVE TypeInv'
  <2> DEFINE m == [req[r].conn EXCEPT !.status = "requires_reauthorization"]
  <2>1. m \in RowI
    BY <1>16, <1>t DEF RefreshRefused, RowI, Status
  <2>2. req' = Resume(r, m) /\ UNCHANGED <<row, owner, states, issued, live, fresh, grants, lost>>
    BY <1>16 DEF RefreshRefused
  <2> HIDE DEF m
  <2>3. QED
    BY <2>1, <2>2, <1>0, <1>r
<1>17. ASSUME NEW r \in Request, RefreshFails(r) PROVE TypeInv'
  <2>1. /\ req' = Resume(r, req[r].mine) /\ UNCHANGED <<row, owner, states, issued, fresh, grants>>
        /\ live' \subseteq Known /\ lost' \subseteq Known
    BY <1>17, <1>0, <1>t DEF RefreshFails
  <2>2. req[r].mine \in RowI \cup {NoRow}
    BY <1>t DEF RequestI
  <2>3. QED
    BY <2>1, <2>2, <1>0, <1>r
<1>18. ASSUME NEW r \in Request, Commit(r) PROVE TypeInv'
  <2>1. /\ row' = Seen(r) /\ owner' \in Request \cup {Nobody}
        /\ req' = [req EXCEPT ![r] = Idle]
        /\ UNCHANGED <<states, issued, live, fresh, grants, lost>>
    BY <1>18, <1>0 DEF Commit
  <2>2. row # NoRow => row' # NoRow
    BY <2>1 DEF Seen
  <2>3. \A x \in Request \ {r} : req'[x] = req[x] /\ (Seen(x) # NoRow => Seen(x)' # NoRow)
    BY <2>1, <2>2 DEF TypeInv, Seen
  <2>4. req'[r] = Idle /\ req' \in [Request -> RequestI]
    BY <2>1, <1>0 DEF TypeInv
  <2>5. QED
    BY <2>1, <2>2, <2>3, <2>4, <1>s, <1>0, <1>t DEF TypeInv, RowI, Known
<1>19. ASSUME NEW r \in Request, Abort(r) PROVE TypeInv'
  <2>1. Undone(r, {}) /\ UNCHANGED <<states, issued, live, fresh, grants>>
    BY <1>19 DEF Abort
  <2>2. QED
    BY <2>1, <1>u, <1>0, TypedQuietly DEF TypeInv
<1>20. ASSUME NEW t \in Token, TokenExpires(t) PROVE TypeInv'
  <2>1. UNCHANGED <<row, owner, states, issued, live, req, grants, lost>> /\ fresh' \subseteq fresh
    BY <1>20 DEF TokenExpires
  <2>2. QED
    BY <2>1, <1>s DEF TypeInv, Known, RowI, Seen
<1>21. CASE UNCHANGED vars
  BY <1>21, <1>s DEF vars, TypeInv, Known, RowI, Seen
<1>22. QED
  BY <1>1, <1>2, <1>3, <1>4, <1>5, <1>6, <1>7, <1>8, <1>9, <1>10, <1>11, <1>12, <1>13, <1>14,
     <1>15, <1>16, <1>17, <1>18, <1>19, <1>20, <1>21 DEF Next

\* The types, for every number of requests, states and tokens.
THEOREM TypeCorrect == Spec => []TypeOK
<1>1. TypeInv => TypeOK
  <2> SUFFICES ASSUME TypeInv PROVE TypeOK
    OBVIOUS
  <2>1. Known \subseteq Token /\ 0 .. issued \subseteq 0 .. MaxToken
    BY ConnectionAssumption DEF TypeInv, Known, Token
  <2>2. RowI \subseteq Row
    BY <2>1 DEF RowI, Row
  <2>3. SavedI \subseteq Saved
    BY <2>1, <2>2 DEF SavedI, Saved
  <2>4. RequestI \subseteq
          [at : {"idle", "exchange", "find", "store", "commit", "revoke", "clear",
                 "work", "lock", "refresh"},
           state : State \cup {NoRow}, conn : Row \cup {NoRow}, mine : Row \cup {NoRow},
           token : 0 .. MaxToken, saved : Saved \cup {NoRow}, spent : SUBSET Token]
    BY <2>1, <2>2, <2>3 DEF RequestI, Phase, Working
  <2>5. QED
    BY <2>1, <2>2, <2>4 DEF TypeInv, TypeOK
<1>2. QED
  BY <1>1, InitTyped, StepTyped, PTL DEF Spec

-----------------------------------------------------------------------------
(* An authorisation is used once. *)

\* A state that can still be consumed is with nobody; one that is gone is with one
\* callback at the most, and that before it has been exchanged.
GrantInv ==
  /\ \A s \in State : states[s] # "gone" =>
       grants[s] = 0 /\ \A r \in Request : req[r].at = "exchange" => req[r].state # s
  /\ \A r \in Request : req[r].at = "exchange" => grants[req[r].state] = 0
  /\ \A r, x \in Request :
       req[r].at = "exchange" /\ req[x].at = "exchange" /\ req[r].state = req[x].state => r = x
  /\ \A s \in State : grants[s] <= 1

\* What is not part of an authorisation leaves the states alone.
LEMMA OtherSteps ==
  ASSUME TypeInv, NEW r \in Request,
         \/ FindRow(r) \/ StoreTokens(r) \/ Disconnect(r) \/ Revoke(r) \/ RevokeFails(r)
         \/ ClearTokens(r) \/ Use(r) \/ Savepoint(r) \/ ReleaseSavepoint(r)
         \/ RollbackSavepoint(r) \/ AskToken(r) \/ LockRow(r) \/ Refresh(r)
         \/ RefreshRefused(r) \/ RefreshFails(r) \/ Commit(r) \/ Abort(r)
  PROVE  /\ UNCHANGED <<states, grants>>
         /\ \A x \in Request : x # r => req'[x] = req[x]
         /\ req'[r].at # "exchange"
<1> USE DEF TypeInv, RequestI, Undone, Idle
<1>1. CASE FindRow(r) \/ AskToken(r)
  BY <1>1 DEF FindRow, AskToken
<1>10. CASE Disconnect(r)
  BY <1>10 DEF Disconnect
<1>11. CASE Use(r)
  BY <1>11 DEF Use
<1>9. CASE Revoke(r) \/ ClearTokens(r)
  BY <1>9 DEF Revoke, ClearTokens
<1>2. CASE StoreTokens(r)
  BY <1>2 DEF StoreTokens
<1>3. CASE RevokeFails(r) \/ Commit(r) \/ Abort(r)
  BY <1>3 DEF RevokeFails, Commit, Abort
<1>4. CASE Savepoint(r) \/ ReleaseSavepoint(r)
  BY <1>4 DEF Savepoint, ReleaseSavepoint
<1>8. CASE RollbackSavepoint(r)
  BY <1>8 DEF RollbackSavepoint
<1>5. CASE LockRow(r)
  BY <1>5 DEF LockRow, Resume
<1>6. CASE Refresh(r) \/ RefreshRefused(r) \/ RefreshFails(r)
  BY <1>6 DEF Refresh, RefreshRefused, RefreshFails, Resume
<1>7. QED
  BY <1>1, <1>2, <1>3, <1>4, <1>5, <1>6, <1>8, <1>9, <1>10, <1>11

LEMMA StepGrants == TypeInv /\ GrantInv /\ [Next]_vars => GrantInv'
<1> SUFFICES ASSUME TypeInv, GrantInv, [Next]_vars PROVE GrantInv'
  OBVIOUS
<1>0. /\ states \in [State -> {"undrawn", "stored", "gone"}] /\ grants \in [State -> Nat]
      /\ \A r \in Request : req[r].at = "exchange" => req[r].state \in State
  BY DEF TypeInv
<1>1. ASSUME NEW s \in State, Authorize(s) \/ StateExpires(s) \/ Denied(s) PROVE GrantInv'
  BY <1>1, <1>0 DEF Authorize, StateExpires, Denied, Consume, UsedState, GrantInv
<1>2. ASSUME NEW r \in Request, NEW s \in State, Callback(r, s) PROVE GrantInv'
  <2>1. states' = [states EXCEPT ![s] = "gone"] /\ UNCHANGED grants
    BY <1>2 DEF Callback, Consume, UsedState
  <2>2. CASE UNCHANGED req
    BY <2>1, <2>2, <1>0 DEF GrantInv
  <2>3. CASE /\ states[s] = "stored"
             /\ req' = [req EXCEPT ![r] = [Idle EXCEPT !.at = "exchange", !.state = s]]
    <3>1. /\ req'[r].state = s /\ \A x \in Request : x # r => req'[x] = req[x]
      BY <2>3 DEF TypeInv, Idle
    <3>2. QED
      BY <2>1, <2>3, <3>1, <1>0 DEF GrantInv
  <2>4. QED
    BY <1>2, <2>2, <2>3 DEF Callback
<1>3. ASSUME NEW r \in Request, Exchange(r) PROVE GrantInv'
  <2>1. /\ grants' = [grants EXCEPT ![req[r].state] = @ + 1] /\ UNCHANGED states
        /\ req[r].at = "exchange" /\ req'[r].at = "find"
        /\ \A x \in Request : x # r => req'[x] = req[x]
    BY <1>3 DEF Exchange, TypeInv, RequestI
  <2>2. QED
    BY <2>1, <1>0 DEF GrantInv
<1>4. ASSUME NEW r \in Request,
             /\ UNCHANGED <<states, grants>>
             /\ \A x \in Request : x # r => req'[x] = req[x]
             /\ req'[r].at # "exchange"
      PROVE  GrantInv'
  BY <1>4 DEF GrantInv
<1>5. CASE UNCHANGED <<states, grants, req>>
  BY <1>5 DEF GrantInv
<1>6. QED
  BY <1>1, <1>2, <1>3, <1>4, <1>5, OtherSteps DEF Next, TokenExpires, vars

\* However often and however late a callback is loaded, and whatever fails, one
\* authorisation is exchanged for one pair of tokens.
THEOREM OneGrant == Spec => []ConsentOnce
<1>1. Init => GrantInv
  BY DEF Init, GrantInv, Idle
<1>2. GrantInv => ConsentOnce
  BY DEF GrantInv, ConsentOnce
<1>3. QED
  BY <1>1, <1>2, InitTyped, StepTyped, StepGrants, PTL DEF Spec

-----------------------------------------------------------------------------
(* Rotation: what a transaction has written, and what it has spent. *)

\* The tokens whose end is accounted for.
Acc == {t \in Token : Accounted(t)}

\* What a transaction that has spent the given tokens, and that authorises with the
\* given one, may have written (m), while R is the row, A is accounted for and L live.
Version(m, spent, token, R, A, L) ==
  IF m = NoRow THEN spent = {}
  ELSE /\ m.token \notin spent
       /\ m.token = 0 \/ m.token \in L \/ m.token \in A
       /\ m.status = Dead => m.token \in A \/ (R # NoRow /\ R.status = Dead)
       /\ R # NoRow /\ R.token = 0 =>
            \/ token # 0 /\ m.token = token
            \/ m.token = 0 /\ (m.status = "disconnected" \/ m.status = R.status)

\* What holds of the request q of x by itself, with O the owner of the row: whoever
\* has written holds the lock, whoever refreshes has just looked under the lock.
Local(q, x, R, O, A, L) ==
  /\ q.mine # NoRow => O = x
  /\ q.saved # NoRow =>
       /\ q.at \in Working
       /\ q.saved.mine # NoRow => q.saved.held
       /\ q.saved.held => O = x
       /\ Version(q.saved.mine, q.saved.spent, 0, R, A, L)
  /\ q.at = "refresh" => O = x /\ q.conn = IF q.mine = NoRow THEN R ELSE q.mine
  /\ q.at \in Working => q.token = 0
  /\ q.at \in Working \/ q.at = "commit" => Version(q.mine, q.spent, q.token, R, A, L)
  /\ q.at = "commit" => q.mine # NoRow
  /\ q.at \notin Working /\ q.at # "commit" => q.mine = NoRow
  /\ q.at = "revoke" => q.spent = {}

\* Authorised, and not written yet.
Pending(q) == q.at \in {"find", "store"}

\* The request q has come across token t in the row.
Met(q, t) ==
  \/ q.conn # NoRow /\ q.conn.token = t
  \/ q.mine # NoRow /\ q.mine.token = t
  \/ t \in q.spent
  \/ q.saved # NoRow /\ (t \in q.saved.spent \/ (q.saved.mine # NoRow /\ q.saved.mine.token = t))

TokenInv == row # NoRow /\ row.token # 0 => row.token \in live \/ row.token \in Acc

\* Nobody else knows the tokens of a callback before it writes them.
ApartInv ==
  \A x \in Request : Pending(req[x]) =>
    /\ req[x].token \in live
    /\ row # NoRow => row.token # req[x].token
    /\ \A y \in Request : /\ ~Met(req[y], req[x].token)
                          /\ y # x /\ Pending(req[y]) => req[y].token # req[x].token

Inv ==
  /\ TypeInv
  /\ \A x \in Request : Local(req[x], x, row, owner, Acc, live)
  /\ TokenInv
  /\ ApartInv

\* More may be accounted for, and what dies is accounted for.
LEMMA VersionGrows ==
  ASSUME NEW m, NEW spent, NEW token, NEW R, NEW A, NEW L, NEW A2, NEW L2,
         A \subseteq A2, L \subseteq L2 \cup A2, Version(m, spent, token, R, A, L)
  PROVE  Version(m, spent, token, R, A2, L2)
BY DEF Version

\* Others may take or give back a lock that is not held by x.
LEMMA LocalGrows ==
  ASSUME NEW q, NEW x, NEW R, NEW O, NEW A, NEW L, NEW O2, NEW A2, NEW L2,
         A \subseteq A2, L \subseteq L2 \cup A2, O = x => O2 = x, Local(q, x, R, O, A, L)
  PROVE  Local(q, x, R, O2, A2, L2)
BY VersionGrows DEF Local

\* Who does not hold the lock does not depend on the row.
LEMMA LocalFree ==
  ASSUME NEW q, NEW x, NEW R, NEW O, NEW A, NEW L, NEW R2, NEW O2, NEW A2, NEW L2,
         O # x, Local(q, x, R, O, A, L)
  PROVE  Local(q, x, R2, O2, A2, L2)
<1>1. q.mine = NoRow /\ q.at # "refresh" /\ q.at # "commit"
  BY DEF Local
<1>2. q.saved # NoRow => ~q.saved.held /\ q.saved.mine = NoRow
  BY DEF Local
<1>3. QED
  BY <1>1, <1>2 DEF Local, Version

LEMMA IdleLocal ==
  ASSUME NEW x, NEW R, NEW O, NEW A, NEW L
  PROVE  Local(Idle, x, R, O, A, L) /\ ~Pending(Idle) /\ \A t : ~Met(Idle, t)
BY DEF Local, Idle, Working, Pending, Met

\* A step that drops no token without recording it.
LEMMA Recorded ==
  ASSUME TypeInv, TypeInv', NEW r \in Request, NEW n, req' = [req EXCEPT ![r] = n],
         lost \subseteq lost', req[r].spent \subseteq n.spent \cup lost'
  PROVE  Acc \subseteq Acc' /\ n.spent \subseteq Acc' /\ lost' \subseteq Acc'
<1>1. req'[r] = n /\ \A x \in Request : x # r => req'[x] = req[x]
  BY DEF TypeInv
<1>2. n.spent \subseteq Token /\ lost' \subseteq Token
  <2>1. Known' \subseteq Token
    BY ConnectionAssumption DEF TypeInv, Known, Token
  <2>2. n \in RequestI' /\ lost' \subseteq Known'
    BY <1>1 DEF TypeInv
  <2>3. QED
    BY <2>1, <2>2 DEF RequestI
<1>3. QED
  BY <1>1, <1>2 DEF Acc, Accounted

\* What a request knows has been issued.
LEMMA MetTyped ==
  ASSUME TypeInv, NEW y \in Request, NEW t, Met(req[y], t)
  PROVE  t \in 0 .. issued
<1>1. req[y] \in RequestI /\ Known \subseteq 0 .. issued
  BY ConnectionAssumption DEF TypeInv, Known
<1>2. \A c \in RowI : c.token \in 0 .. issued
  BY DEF RowI
<1>3. req[y].saved # NoRow => req[y].saved \in SavedI
  BY <1>1 DEF RequestI
<1>4. QED
  BY <1>1, <1>2, <1>3 DEF Met, RequestI, SavedI

LEMMA ApartStep ==
  ASSUME TypeInv, TypeInv', ApartInv, NEW r \in Request, NEW n, req' = [req EXCEPT ![r] = n],
         row' # row => row' # NoRow /\ Met(req[r], row'.token),
         \A t \in Known : Met(n, t) =>
            \/ Met(req[r], t) \/ (row # NoRow /\ row.token = t)
            \/ req[r].at = "store" /\ ~Pending(n) /\ t = req[r].token,
         Pending(n) =>
            \/ Pending(req[r]) /\ n.token = req[r].token
            \/ ~Met(n, n.token) /\ n.token \in live' /\ n.token \notin 0 .. issued,
         \A t \in live : t \in live' \/ Met(req[r], t)
  PROVE  ApartInv'
<1>1. req'[r] = n /\ \A x \in Request : x # r => req'[x] = req[x]
  BY DEF TypeInv
<1>2. SUFFICES ASSUME NEW x \in Request, Pending(req'[x])
               PROVE  /\ req'[x].token \in live'
                      /\ row' # NoRow => row'.token # req'[x].token
                      /\ \A y \in Request : /\ ~Met(req'[y], req'[x].token)
                                            /\ y # x /\ Pending(req'[y])
                                                 => req'[y].token # req'[x].token
  BY DEF ApartInv
<1>3. CASE Pending(req[x]) /\ req'[x].token = req[x].token
  <2> DEFINE t == req[x].token
  <2>1. t \in live /\ t \in Known /\ t # 0
    <3>1. t \in live
      BY <1>3 DEF ApartInv
    <3>2. issued \in Nat /\ live \subseteq Known
      BY ConnectionAssumption DEF TypeInv
    <3>3. \A k \in Known : k # 0
      BY <3>2 DEF Known
    <3>4. QED
      BY <3>1, <3>2, <3>3
  <2>2. t \in live'
    BY <1>3, <2>1 DEF ApartInv
  <2>3. row' # NoRow => row'.token # t
    BY <1>3, <2>1 DEF ApartInv
  <2>4. ASSUME NEW y \in Request PROVE ~Met(req'[y], t)
    <3>1. CASE y # r
      BY <1>1, <1>3, <3>1 DEF ApartInv
    <3>2. CASE y = r
      <4>1. ~(req[r].at = "store" /\ ~Pending(n) /\ t = req[r].token)
        BY <1>1, <1>2, <1>3 DEF ApartInv, Pending
      <4>2. ~Met(req[r], t) /\ ~(row # NoRow /\ row.token = t)
        BY <1>3 DEF ApartInv
      <4>3. QED
        BY <1>1, <2>1, <3>2, <4>1, <4>2
    <3>3. QED
      BY <3>1, <3>2
  <2>5. ASSUME NEW y \in Request, y # x, Pending(req'[y]) PROVE req'[y].token # t
    <3>1. CASE y # r
      BY <1>1, <1>3, <2>5, <3>1 DEF ApartInv
    <3>2. CASE y = r
      <4>1. CASE Pending(req[r]) /\ n.token = req[r].token
        BY <1>1, <1>3, <2>5, <3>2, <4>1 DEF ApartInv
      <4>2. CASE n.token \notin 0 .. issued
        BY <1>1, <2>1, <3>2, <4>2, ConnectionAssumption DEF Known, TypeInv
      <4>3. QED
        BY <1>1, <2>5, <3>2, <4>1, <4>2
    <3>3. QED
      BY <3>1, <3>2
  <2>6. QED
    BY <1>3, <2>2, <2>3, <2>4, <2>5
<1>4. CASE x = r /\ ~Met(n, n.token) /\ n.token \in live' /\ n.token \notin 0 .. issued
  <2>1. 0 \in 0 .. issued /\ (row # NoRow => row.token \in 0 .. issued)
    BY ConnectionAssumption DEF TypeInv, RowI
  <2>2. row' # NoRow => row'.token \in 0 .. issued
    BY <2>1, MetTyped
  <2>3. ASSUME NEW y \in Request, y # r PROVE ~Met(req'[y], n.token)
    BY <1>1, <1>4, <2>3, MetTyped
  <2>4. ASSUME NEW y \in Request, y # r, Pending(req'[y]) PROVE req'[y].token # n.token
    <3>1. req[y].token \in 0 .. issued
      BY DEF TypeInv, RequestI
    <3>2. QED
      BY <1>1, <1>4, <2>4, <3>1
  <2>5. QED
    BY <1>1, <1>4, <2>2, <2>3, <2>4
<1>5. QED
  BY <1>1, <1>2, <1>3, <1>4

\* A step of r that leaves the row alone and drops no token without recording it,
\* after which r knows no more tokens than its own, the one in the row and new ones.
Careful(r, n) ==
  /\ req' = [req EXCEPT ![r] = n] /\ row' = row
  /\ \A x \in Request : x # r /\ owner = x => owner' = x
  /\ lost \subseteq lost' /\ req[r].spent \subseteq n.spent \cup lost'
  /\ live \subseteq live' \cup n.spent \cup lost'
  /\ \A t \in Known : Met(n, t) =>
       \/ Met(req[r], t) \/ (row # NoRow /\ row.token = t)
       \/ req[r].at = "store" /\ ~Pending(n) /\ t = req[r].token
  /\ Pending(n) =>
       \/ Pending(req[r]) /\ n.token = req[r].token
       \/ ~Met(n, n.token) /\ n.token \in live' /\ n.token \notin 0 .. issued
  /\ \A t \in live : t \in live' \/ Met(req[r], t)

LEMMA OneStep ==
  ASSUME Inv, TypeInv', NEW r \in Request, NEW n, Careful(r, n),
         (Acc \subseteq Acc' /\ n.spent \subseteq Acc' /\ lost' \subseteq Acc'
            /\ live \subseteq live' \cup Acc')
           => Local(n, r, row, owner', Acc', live')
  PROVE  Inv'
<1>0. req'[r] = n
  BY DEF Inv, TypeInv, Careful
<1>1. \A x \in Request : x # r => req'[x] = req[x]
  BY DEF Inv, TypeInv, Careful
<1>2. Acc \subseteq Acc' /\ n.spent \subseteq Acc' /\ lost' \subseteq Acc'
  BY Recorded DEF Inv, Careful
<1>3. live \subseteq live' \cup Acc'
  BY <1>2 DEF Careful
<1>4. ASSUME NEW x \in Request PROVE Local(req'[x], x, row', owner', Acc', live')
  <2>1. CASE x = r
    BY <1>0, <1>2, <1>3, <2>1 DEF Careful
  <2>2. CASE x # r
    <3>1. /\ Local(req[x], x, row, owner, Acc, live) /\ (owner = x => owner' = x)
          /\ row' = row
      BY <2>2 DEF Inv, Careful
    <3>2. QED
      BY <1>1, <1>2, <1>3, <2>2, <3>1, LocalGrows
  <2>3. QED
    BY <2>1, <2>2
<1>5. TokenInv'
  BY <1>2, <1>3 DEF Inv, TokenInv, Careful
<1>6. ApartInv'
  BY ApartStep DEF Inv, Careful
<1>7. QED
  BY <1>4, <1>5, <1>6 DEF Inv

\* A step that concerns neither the requests nor the tokens.
LEMMA StillStep ==
  ASSUME Inv, TypeInv', UNCHANGED <<req, row, owner, live, lost>>
  PROVE  Inv'
<1>1. Acc' = Acc
  BY DEF Acc, Accounted
<1>2. QED
  BY <1>1 DEF Inv, TokenInv, ApartInv

\* A transaction that is undone has lost what it had spent.
LEMMA UndoneStep ==
  ASSUME Inv, TypeInv', NEW r \in Request, NEW also, Undone(r, also),
         live \subseteq live' \cup also, \A t \in also : Met(req[r], t)
  PROVE  Inv'
<1>1. /\ req' = [req EXCEPT ![r] = Idle] /\ row' = row
      /\ \A x \in Request : x # r /\ owner = x => owner' = x
      /\ lost \subseteq lost' /\ req[r].spent \cup also \subseteq lost'
  BY DEF Undone
<1>2. Careful(r, Idle)
  BY <1>1, IdleLocal DEF Careful
<1>3. Local(Idle, r, row, owner', Acc', live')
  BY IdleLocal
<1>4. QED
  BY <1>2, <1>3, OneStep

\* Whoever refreshes holds the lock, over a row that has not been cleared, and
\* presents a token that is live or accounted for and that it has not spent itself.
LEMMA Refreshing ==
  ASSUME Inv, NEW r \in Request, req[r].at = "refresh"
  PROVE  /\ owner = r /\ req[r].token = 0
         /\ req[r].conn \in RowI /\ req[r].conn.token \in Known
         /\ row # NoRow => row.token # 0
         /\ req[r].conn.token \notin req[r].spent
         /\ req[r].conn.token \in live \/ req[r].conn.token \in Acc
         /\ Met(req[r], req[r].conn.token)
<1> DEFINE q == req[r]
           c == q.conn
<1>1. /\ c # NoRow /\ c \in RowI /\ c.token \in Known /\ c.token # 0
      /\ row \in RowI \cup {NoRow}
  BY DEF Inv, TypeInv, RequestI, RowI, Known
<1>2. /\ owner = r /\ q.token = 0 /\ c = IF q.mine = NoRow THEN row ELSE q.mine
      /\ Version(q.mine, q.spent, 0, row, Acc, live)
  BY DEF Inv, Local, Working
<1>3. CASE q.mine = NoRow
  <2>1. q.spent = {} /\ c = row
    BY <1>2, <1>3 DEF Version
  <2>2. c.token \in live \/ c.token \in Acc
    BY <1>1, <2>1 DEF Inv, TokenInv
  <2>3. QED
    BY <1>1, <1>2, <2>1, <2>2 DEF Met
<1>4. CASE q.mine # NoRow
  <2>1. c = q.mine
    BY <1>2, <1>4
  <2>2. /\ c.token \notin q.spent /\ (c.token \in live \/ c.token \in Acc)
        /\ row # NoRow => row.token # 0
    BY <1>1, <1>2, <1>4, <2>1 DEF Version
  <2>3. QED
    BY <1>1, <1>2, <2>2 DEF Met
<1>5. QED
  BY <1>3, <1>4

LEMMA CallbackStep ==
  ASSUME Inv, TypeInv', NEW r \in Request, NEW s \in State, Callback(r, s)
  PROVE  Inv'
<1> DEFINE n == [Idle EXCEPT !.at = "exchange", !.state = s]
<1>1. UNCHANGED <<row, owner, live, lost>> /\ req[r] = Idle
  BY DEF Callback
<1>2. CASE UNCHANGED req
  BY <1>1, <1>2, StillStep
<1>3. CASE req' = [req EXCEPT ![r] = n]
  <2>1. /\ n.spent = {} /\ ~Pending(n) /\ \A t : ~Met(n, t)
        /\ Local(n, r, row, owner', Acc', live')
    BY DEF Idle, Pending, Met, Local, Working
  <2>2. req[r].spent = {}
    BY <1>1 DEF Idle
  <2> HIDE DEF n
  <2>3. Careful(r, n)
    BY <1>1, <1>3, <2>1, <2>2 DEF Careful
  <2>4. QED
    BY <2>1, <2>3, OneStep
<1>4. QED
  BY <1>2, <1>3 DEF Callback

LEMMA ExchangeStep ==
  ASSUME Inv, TypeInv', NEW r \in Request, Exchange(r)
  PROVE  Inv'
<1> DEFINE n == [req[r] EXCEPT !.at = "find", !.token = issued', !.state = NoRow]
<1>1. /\ req' = [req EXCEPT ![r] = n] /\ UNCHANGED <<row, owner, lost>>
      /\ req[r].at = "exchange" /\ live' = live \cup {issued'} /\ issued' = issued + 1
  BY DEF Exchange, Issue
<1>2. req[r] \in RequestI /\ issued \in Nat
  BY ConnectionAssumption DEF Inv, TypeInv
<1>3. /\ n.at = "find" /\ n.conn = req[r].conn /\ n.mine = req[r].mine /\ n.saved = req[r].saved
      /\ n.spent = req[r].spent /\ n.token = issued'
  BY <1>2 DEF RequestI
<1> HIDE DEF n
<1>4. req[r].mine = NoRow /\ req[r].saved = NoRow
  BY <1>1 DEF Inv, Local, Working
<1>5. Local(n, r, row, owner', Acc', live')
  BY <1>3, <1>4 DEF Local, Working
<1>6. \A t : Met(n, t) <=> Met(req[r], t)
  BY <1>3 DEF Met
<1>7. issued' \notin 0 .. issued
  BY <1>1, <1>2
<1>8. ~Met(n, n.token)
  BY <1>3, <1>6, <1>7, MetTyped DEF Inv
<1>9. Careful(r, n)
  BY <1>1, <1>3, <1>6, <1>7, <1>8 DEF Careful, Inv, TypeInv, Known
<1>10. QED
  BY <1>5, <1>9, OneStep

LEMMA FindRowStep ==
  ASSUME Inv, TypeInv', NEW r \in Request, FindRow(r)
  PROVE  Inv'
<1> DEFINE n == [req[r] EXCEPT !.at = "store", !.conn = row]
<1>1. /\ req' = [req EXCEPT ![r] = n] /\ UNCHANGED <<row, owner, live, lost>>
      /\ req[r].at = "find"
  BY DEF FindRow
<1>2. req[r] \in RequestI
  BY DEF Inv, TypeInv
<1>3. /\ n.at = "store" /\ n.conn = row /\ n.mine = req[r].mine /\ n.saved = req[r].saved
      /\ n.spent = req[r].spent /\ n.token = req[r].token
  BY <1>2 DEF RequestI
<1> HIDE DEF n
<1>4. req[r].mine = NoRow /\ req[r].saved = NoRow
  BY <1>1 DEF Inv, Local, Working
<1>5. Local(n, r, row, owner', Acc', live')
  BY <1>3, <1>4 DEF Local, Working
<1>6. \A t : Met(n, t) => Met(req[r], t) \/ (row # NoRow /\ row.token = t)
  BY <1>3 DEF Met
<1>7. Pending(req[r])
  BY <1>1 DEF Pending
<1>8. Careful(r, n)
  BY <1>1, <1>3, <1>6, <1>7 DEF Careful
<1>9. QED
  BY <1>5, <1>8, OneStep

\* What a callback or a disconnection writes, once it has the lock.
LEMMA WriteStep ==
  ASSUME Inv, TypeInv', NEW r \in Request, NEW m, Lockable(r), owner' = r,
         UNCHANGED <<row, live, lost>>,
         req[r].at \in {"store", "clear"},
         req' = [req EXCEPT ![r].at = "commit", ![r].conn = NoRow, ![r].mine = m],
         m # NoRow, Version(m, req[r].spent, req[r].token, row, Acc, live),
         \A t \in Known : m.token = t => req[r].at = "store" /\ t = req[r].token
  PROVE  Inv'
<1> DEFINE n == [req[r] EXCEPT !.at = "commit", !.conn = NoRow, !.mine = m]
<1>1. req' = [req EXCEPT ![r] = n]
  OBVIOUS
<1>2. req[r] \in RequestI /\ \A x \in Request : x # r => owner # x
  BY ConnectionAssumption DEF Inv, TypeInv, Lockable
<1>3. /\ n.at = "commit" /\ n.conn = NoRow /\ n.mine = m /\ n.saved = req[r].saved
      /\ n.spent = req[r].spent /\ n.token = req[r].token
  BY <1>2 DEF RequestI
<1> HIDE DEF n
<1>4. req[r].saved = NoRow
  BY DEF Inv, Local, Working
<1>5. ASSUME Acc \subseteq Acc' PROVE Local(n, r, row, owner', Acc', live')
  <2>1. Version(m, req[r].spent, req[r].token, row, Acc', live')
    BY <1>5, VersionGrows
  <2>2. QED
    BY <1>3, <1>4, <2>1 DEF Local, Working
<1>6. \A t \in Known :
        Met(n, t) => Met(req[r], t) \/ (req[r].at = "store" /\ t = req[r].token)
  BY <1>3, <1>4 DEF Met
<1>7. ~Pending(n)
  BY <1>3 DEF Pending
<1>8. Careful(r, n)
  BY <1>1, <1>2, <1>3, <1>6, <1>7 DEF Careful
<1>9. QED
  BY <1>5, <1>8, OneStep

LEMMA StoreTokensStep ==
  ASSUME Inv, TypeInv', NEW r \in Request, StoreTokens(r)
  PROVE  Inv'
<1> DEFINE found == req[r].conn
           m == [token |-> req[r].token,
                 status |-> IF found = NoRow THEN "active"
                            ELSE StatusOver(found.status, row.status, "active")]
<1>1. req[r].at = "store" /\ Lockable(r) /\ UNCHANGED live
  BY DEF StoreTokens
<1>2. CASE Undone(r, {})
  BY <1>1, <1>2, UndoneStep
<1>3. CASE /\ owner' = r /\ UNCHANGED <<row, lost>>
           /\ req' = [req EXCEPT ![r].at = "commit", ![r].conn = NoRow, ![r].mine = m]
  <2>1. m.token = req[r].token /\ m.token \in live /\ m.token \in Known
    BY <1>1 DEF Inv, ApartInv, Pending, TypeInv
  <2>0. m # NoRow
    <3>1. m.token \in 0 .. MaxToken
      BY <2>1, ConnectionAssumption DEF Inv, TypeInv, Known
    <3>2. found # NoRow => row \in RowI
      BY <1>1 DEF Inv, TypeInv
    <3>3. m.status \in Status
      BY <3>2, StatusTyped DEF RowI, Status
    <3>4. m \in Row
      BY <3>1, <3>3 DEF Row
    <3>5. QED
      BY <3>4, ConnectionAssumption
  <2>2. m.token # 0 /\ m.token \notin req[r].spent
    <3>1. m.token # 0
      BY <2>1, ConnectionAssumption DEF Inv, TypeInv, Known
    <3>2. ~Met(req[r], req[r].token)
      BY <1>1 DEF Inv, ApartInv, Pending
    <3>3. QED
      BY <2>1, <3>1, <3>2 DEF Met
  <2>3. m.status = Dead => row # NoRow /\ row.status = Dead
    BY <1>1 DEF Inv, TypeInv, StatusOver, Dead
  <2> HIDE DEF m
  <2>4. Version(m, req[r].spent, req[r].token, row, Acc, live)
    BY <2>0, <2>1, <2>2, <2>3 DEF Version
  <2>5. QED
    BY <1>1, <1>3, <2>0, <2>1, <2>4, WriteStep
<1>4. QED
  BY <1>2, <1>3 DEF StoreTokens

LEMMA DisconnectStep ==
  ASSUME Inv, TypeInv', NEW r \in Request, Disconnect(r)
  PROVE  Inv'
<1> DEFINE n == [Idle EXCEPT !.at = "revoke", !.conn = row]
<1>1. /\ UNCHANGED <<row, owner, live, lost>> /\ req[r] = Idle
      /\ req' = [req EXCEPT ![r] = n]
  BY DEF Disconnect
<1>2. /\ n.spent = {} /\ n.at = "revoke" /\ \A t : Met(n, t) => row # NoRow /\ row.token = t
      /\ Local(n, r, row, owner', Acc', live')
  BY DEF Idle, Met, Local, Working
<1>3. req[r].spent = {}
  BY <1>1 DEF Idle
<1> HIDE DEF n
<1>4. Careful(r, n)
  BY <1>1, <1>2, <1>3 DEF Careful, Pending
<1>5. QED
  BY <1>2, <1>4, OneStep

LEMMA RevokeStep ==
  ASSUME Inv, TypeInv', NEW r \in Request, Revoke(r)
  PROVE  Inv'
<1> DEFINE c == req[r].conn
           n == [req[r] EXCEPT !.at = "clear", !.spent = {c.token}]
<1>1. /\ req[r].at = "revoke" /\ live' = live \ {c.token} /\ req' = [req EXCEPT ![r] = n]
      /\ UNCHANGED <<row, owner, lost>>
  BY DEF Revoke
<1>2. req[r] \in RequestI /\ c # NoRow
  BY <1>1 DEF Inv, TypeInv
<1>3. /\ n.at = "clear" /\ n.conn = c /\ n.mine = req[r].mine /\ n.saved = req[r].saved
      /\ n.spent = {c.token}
  BY <1>2 DEF RequestI
<1>4. req[r].mine = NoRow /\ req[r].saved = NoRow /\ req[r].spent = {}
  BY <1>1 DEF Inv, Local, Working
<1> HIDE DEF n
<1>5. Local(n, r, row, owner', Acc', live')
  BY <1>3, <1>4 DEF Local, Working
<1>6. Met(req[r], c.token) /\ \A t : Met(n, t) => Met(req[r], t)
  BY <1>2, <1>3, <1>4 DEF Met
<1>7. Careful(r, n)
  BY <1>1, <1>3, <1>4, <1>6 DEF Careful, Pending
<1>8. QED
  BY <1>5, <1>7, OneStep

LEMMA RevokeFailsStep ==
  ASSUME Inv, TypeInv', NEW r \in Request, RevokeFails(r)
  PROVE  Inv'
<1>1. Met(req[r], req[r].conn.token)
  BY DEF RevokeFails, Inv, TypeInv, Met
<1>2. CASE Undone(r, {}) /\ UNCHANGED live
  BY <1>2, UndoneStep
<1>3. CASE Undone(r, {req[r].conn.token}) /\ live' = live \ {req[r].conn.token}
  BY <1>1, <1>3, UndoneStep
<1>4. QED
  BY <1>2, <1>3 DEF RevokeFails

LEMMA ClearTokensStep ==
  ASSUME Inv, TypeInv', NEW r \in Request, ClearTokens(r)
  PROVE  Inv'
<1> DEFINE m == [token |-> 0, status |-> StatusOver(req[r].conn.status, row.status, "disconnected")]
<1>1. req[r].at = "clear" /\ Lockable(r) /\ owner' = r /\ UNCHANGED <<row, live, lost>>
      /\ req' = [req EXCEPT ![r].at = "commit", ![r].conn = NoRow, ![r].mine = m]
  BY DEF ClearTokens
<1>2. row \in RowI /\ req[r].spent \subseteq Known /\ issued \in Nat
  BY <1>1, ConnectionAssumption DEF Inv, TypeInv, RequestI
<1>3. m.status \in Status /\ (m.status = "disconnected" \/ m.status = row.status)
  BY <1>2 DEF RowI, Status, StatusOver
<1>4. m # NoRow
  BY <1>2, <1>3, ConnectionAssumption DEF Row
<1>5. m.token = 0 /\ 0 \notin Known
  BY <1>2 DEF Known
<1> HIDE DEF m
<1>6. Version(m, req[r].spent, req[r].token, row, Acc, live)
  <2>1. row # NoRow
    BY <1>1 DEF Inv, TypeInv
  <2>2. m.status = Dead => row.status = Dead
    BY <1>3 DEF Dead
  <2>3. QED
    BY <1>2, <1>3, <1>4, <1>5, <2>1, <2>2 DEF Version
<1>7. QED
  BY <1>1, <1>4, <1>5, <1>6, WriteStep

LEMMA UseStep ==
  ASSUME Inv, TypeInv', NEW r \in Request, Use(r)
  PROVE  Inv'
<1> DEFINE n == [Idle EXCEPT !.at = "work"]
<1>1. UNCHANGED <<row, owner, live, lost>> /\ req[r] = Idle /\ req' = [req EXCEPT ![r] = n]
  BY DEF Use, Inv, TypeInv
<1>2. /\ n.spent = {} /\ ~Pending(n) /\ \A t : ~Met(n, t)
      /\ Local(n, r, row, owner', Acc', live')
  BY DEF Idle, Pending, Met, Local, Working, Version
<1>3. req[r].spent = {}
  BY <1>1 DEF Idle
<1> HIDE DEF n
<1>4. Careful(r, n)
  BY <1>1, <1>2, <1>3 DEF Careful
<1>5. QED
  BY <1>2, <1>4, OneStep

\* A request at work, before and after, and its lock stays as it is.
LEMMA WorkStep ==
  ASSUME Inv, TypeInv', NEW r \in Request, NEW n, req' = [req EXCEPT ![r] = n],
         UNCHANGED <<row, owner, live, lost>>,
         req[r].at \in Working, n.at \in Working, n.token = req[r].token,
         n.mine = req[r].mine, n.spent = req[r].spent,
         n.saved = req[r].saved \/ n.saved = NoRow,
         n.at = "refresh" => owner = r /\ n.conn = Seen(r),
         n.conn \in {NoRow, req[r].conn, Seen(r)}
  PROVE  Inv'
<1>1. \A t : Met(n, t) => Met(req[r], t) \/ (row # NoRow /\ row.token = t)
  BY DEF Met, Seen
<1>2. ~Pending(n)
  BY DEF Pending, Working
<1>3. Careful(r, n)
  BY <1>1, <1>2 DEF Careful
<1>4. ASSUME Acc \subseteq Acc' PROVE Local(n, r, row, owner', Acc', live')
  <2>1. Local(req[r], r, row, owner, Acc', live')
    BY <1>4, LocalGrows DEF Inv
  <2>2. QED
    BY <2>1 DEF Local, Working, Seen
<1>5. QED
  BY <1>3, <1>4, OneStep

LEMMA SavepointStep ==
  ASSUME Inv, TypeInv', NEW r \in Request, Savepoint(r)
  PROVE  Inv'
<1> DEFINE v == [mine |-> req[r].mine, held |-> owner = r, spent |-> req[r].spent]
           n == [req[r] EXCEPT !.saved = v]
<1>1. /\ req[r].at = "work" /\ UNCHANGED <<row, owner, live, lost>>
      /\ req' = [req EXCEPT ![r] = n]
  BY DEF Savepoint
<1>2. req[r] \in RequestI
  BY DEF Inv, TypeInv
<1>3. /\ v.mine = req[r].mine /\ v.spent = req[r].spent /\ (v.held <=> owner = r)
  OBVIOUS
<1> HIDE DEF v
<1>4. /\ n.at = "work" /\ n.conn = req[r].conn /\ n.mine = req[r].mine /\ n.token = req[r].token
      /\ n.spent = req[r].spent /\ n.saved = v
  BY <1>1, <1>2 DEF RequestI
<1> HIDE DEF n
<1>5. ASSUME Acc \subseteq Acc' PROVE Local(n, r, row, owner', Acc', live')
  <2>1. Local(req[r], r, row, owner', Acc', live')
    BY <1>1, <1>5, LocalGrows DEF Inv
  <2>2. QED
    BY <1>1, <1>3, <1>4, <2>1 DEF Local, Working
<1>6. Careful(r, n)
  <2>1. \A t : Met(n, t) => Met(req[r], t)
    BY <1>3, <1>4 DEF Met
  <2>2. ~Pending(n)
    BY <1>4 DEF Pending
  <2>3. QED
    BY <1>1, <1>4, <2>1, <2>2 DEF Careful
<1>7. QED
  BY <1>5, <1>6, OneStep

LEMMA RollbackStep ==
  ASSUME Inv, TypeInv', NEW r \in Request, RollbackSavepoint(r)
  PROVE  Inv'
<1> DEFINE v == req[r].saved
           n == [req[r] EXCEPT !.mine = v.mine, !.spent = v.spent, !.saved = NoRow]
<1>1. /\ req[r].at = "work" /\ v # NoRow /\ UNCHANGED <<row, live>>
      /\ req' = [req EXCEPT ![r] = n]
      /\ owner' = IF owner = r /\ ~v.held THEN Nobody ELSE owner
      /\ lost' = lost \cup (req[r].spent \ v.spent)
  BY DEF RollbackSavepoint
<1>2. req[r] \in RequestI
  BY DEF Inv, TypeInv
<1>3. /\ n.at = "work" /\ n.conn = req[r].conn /\ n.mine = v.mine /\ n.token = req[r].token
      /\ n.spent = v.spent /\ n.saved = NoRow
  BY <1>1, <1>2 DEF RequestI
<1> HIDE DEF n
<1>4. ASSUME Acc \subseteq Acc' PROVE Local(n, r, row, owner', Acc', live')
  <2>1. Local(req[r], r, row, owner, Acc', live')
    BY <1>1, <1>4, LocalGrows DEF Inv
  <2>2. /\ v.mine # NoRow => v.held /\ owner = r
        /\ Version(v.mine, v.spent, 0, row, Acc', live') /\ req[r].token = 0
    BY <1>1, <2>1 DEF Local, Working
  <2>3. QED
    BY <1>1, <1>3, <2>2 DEF Local, Working
<1>5. Careful(r, n)
  <2>1. \A t : Met(n, t) => Met(req[r], t)
    BY <1>1, <1>3 DEF Met
  <2>2. ~Pending(n)
    BY <1>3 DEF Pending
  <2>3. QED
    BY <1>1, <1>3, <2>1, <2>2 DEF Careful
<1>6. QED
  BY <1>4, <1>5, OneStep

LEMMA AskTokenStep ==
  ASSUME Inv, TypeInv', NEW r \in Request, AskToken(r)
  PROVE  Inv'
<1> DEFINE n == [req[r] EXCEPT !.at = "lock", !.conn = Seen(r)]
<1>1. /\ req[r].at = "work" /\ UNCHANGED <<row, owner, live, lost>>
      /\ req' = [req EXCEPT ![r] = n]
  BY DEF AskToken
<1>2. req[r] \in RequestI
  BY DEF Inv, TypeInv
<1>3. /\ n.at = "lock" /\ n.conn = Seen(r) /\ n.mine = req[r].mine /\ n.token = req[r].token
      /\ n.spent = req[r].spent /\ n.saved = req[r].saved
  BY <1>2 DEF RequestI
<1> HIDE DEF n
<1>4. n.at \in Working /\ req[r].at \in Working /\ n.at # "refresh"
  BY <1>1, <1>3 DEF Working
<1>5. QED
  BY <1>1, <1>3, <1>4, WorkStep

\* Taking the lock, then looking.
LEMMA LockRowStep ==
  ASSUME Inv, TypeInv', NEW r \in Request, LockRow(r)
  PROVE  Inv'
<1> DEFINE n == IF Cleared(Locked(r)) \/ Locked(r).token \in fresh
                THEN [req[r] EXCEPT !.at = "work", !.mine = req[r].mine, !.conn = NoRow]
                ELSE [req[r] EXCEPT !.at = "refresh", !.conn = Seen(r)]
<1>1. /\ req[r].at = "lock" /\ Lockable(r) /\ owner' = r /\ UNCHANGED <<row, live, lost>>
  BY DEF LockRow
<1>2. req' = [req EXCEPT ![r] = n]
  <2>1. CASE Cleared(Locked(r)) \/ Locked(r).token \in fresh
    BY <2>1 DEF LockRow, Resume
  <2>2. CASE ~(Cleared(Locked(r)) \/ Locked(r).token \in fresh)
    BY <2>2 DEF LockRow, Locked
  <2>3. QED
    BY <2>1, <2>2
<1>3. req[r] \in RequestI
  BY DEF Inv, TypeInv
<1>4. /\ n.mine = req[r].mine /\ n.token = req[r].token
      /\ n.spent = req[r].spent /\ n.saved = req[r].saved
      /\ \/ n.at = "work" /\ n.conn = NoRow
         \/ n.at = "refresh" /\ n.conn = Seen(r)
  BY <1>3 DEF RequestI
<1> HIDE DEF n
<1>5. n.at \in Working /\ req[r].at \in Working
  BY <1>1, <1>4 DEF Working
<1>6. Careful(r, n)
  <2>1. \A t : Met(n, t) => Met(req[r], t) \/ (row # NoRow /\ row.token = t)
    BY <1>4 DEF Met, Seen
  <2>2. ~Pending(n)
    BY <1>4 DEF Pending
  <2>3. \A x \in Request : x # r => owner # x
    BY <1>1, ConnectionAssumption DEF Lockable
  <2>4. QED
    BY <1>1, <1>2, <1>4, <2>1, <2>2, <2>3 DEF Careful
<1>7. ASSUME Acc \subseteq Acc' PROVE Local(n, r, row, owner', Acc', live')
  <2>1. Local(req[r], r, row, owner', Acc', live')
    BY <1>1, <1>7, LocalGrows DEF Inv
  <2>2. QED
    BY <1>1, <1>4, <1>5, <2>1 DEF Local, Working, Seen
<1>8. QED
  BY <1>6, <1>7, OneStep

LEMMA RefreshStep ==
  ASSUME Inv, TypeInv', NEW r \in Request, Refresh(r)
  PROVE  Inv'
<1> DEFINE c == req[r].conn
           m == Applied(c, issued')
           n == [req[r] EXCEPT !.at = "work", !.mine = m, !.conn = NoRow,
                               !.spent = @ \cup {c.token}]
<1>1. /\ req[r].at = "refresh" /\ UNCHANGED <<row, owner, lost>> /\ issued' = issued + 1
      /\ live' = (live \ {c.token}) \cup {issued'} /\ req' = [req EXCEPT ![r] = n]
  BY DEF Refresh, Issue
<1>2. /\ req[r] \in RequestI /\ issued \in Nat /\ issued' \in 0 .. MaxToken
  BY ConnectionAssumption DEF Inv, TypeInv
<1>3. /\ owner = r /\ req[r].token = 0 /\ c \in RowI /\ c.token \in Known
      /\ (row # NoRow => row.token # 0) /\ Met(req[r], c.token)
  BY <1>1, Refreshing
<1>4. m.token = issued' /\ m.status = "active" /\ m # NoRow
  <2>1. m.token = issued' /\ m.status = "active"
    BY <1>3 DEF Applied, RowI
  <2>2. m \in Row
    BY <1>2, <1>3 DEF Applied, RowI, Row, Status
  <2>3. QED
    BY <2>1, <2>2, ConnectionAssumption
<1> HIDE DEF m
<1>5. /\ n.at = "work" /\ n.conn = NoRow /\ n.mine = m /\ n.token = req[r].token
      /\ n.spent = req[r].spent \cup {c.token} /\ n.saved = req[r].saved
  BY <1>2 DEF RequestI
<1> HIDE DEF n
<1>6. issued' \notin Known /\ n.spent \subseteq Known
  BY <1>1, <1>2, <1>3, <1>5 DEF Known, RequestI
<1>7. Careful(r, n)
  <2>1. \A t \in Known : Met(n, t) => Met(req[r], t)
    BY <1>3, <1>4, <1>5, <1>6 DEF Met
  <2>2. ~Pending(n)
    BY <1>5 DEF Pending
  <2>3. QED
    BY <1>1, <1>3, <1>5, <2>1, <2>2 DEF Careful
<1>8. ASSUME Acc \subseteq Acc', live \subseteq live' \cup Acc'
      PROVE  Local(n, r, row, owner', Acc', live')
  <2>1. Local(req[r], r, row, owner', Acc', live')
    BY <1>1, <1>8, LocalGrows DEF Inv
  <2>2. Version(m, n.spent, 0, row, Acc', live')
    BY <1>1, <1>3, <1>4, <1>6 DEF Version, Dead
  <2>3. QED
    BY <1>1, <1>3, <1>5, <2>1, <2>2 DEF Local, Working
<1>9. QED
  BY <1>7, <1>8, OneStep

LEMMA RefreshRefusedStep ==
  ASSUME Inv, TypeInv', NEW r \in Request, RefreshRefused(r)
  PROVE  Inv'
<1> DEFINE c == req[r].conn
           m == [c EXCEPT !.status = "requires_reauthorization"]
           n == [req[r] EXCEPT !.at = "work", !.mine = m, !.conn = NoRow]
<1>1. /\ req[r].at = "refresh" /\ UNCHANGED <<row, owner, live, lost>> /\ c.token \notin live
      /\ req' = [req EXCEPT ![r] = n]
  BY DEF RefreshRefused, Resume
<1>2. req[r] \in RequestI /\ NoRow \notin RowI
  BY NoRowApart DEF Inv, TypeInv
<1>3. /\ owner = r /\ req[r].token = 0 /\ c \in RowI /\ c.token \in Known
      /\ (row # NoRow => row.token # 0) /\ Met(req[r], c.token)
      /\ c.token \notin req[r].spent /\ c.token \in Acc
  BY <1>1, Refreshing
<1>4. m.token = c.token /\ m # NoRow
  BY <1>2, <1>3 DEF RowI, Status
<1> HIDE DEF m
<1>5. /\ n.at = "work" /\ n.conn = NoRow /\ n.mine = m /\ n.token = req[r].token
      /\ n.spent = req[r].spent /\ n.saved = req[r].saved
  BY <1>2 DEF RequestI
<1> HIDE DEF n
<1>6. Careful(r, n)
  <2>1. \A t \in Known : Met(n, t) => Met(req[r], t)
    BY <1>3, <1>4, <1>5 DEF Met
  <2>2. ~Pending(n)
    BY <1>5 DEF Pending
  <2>3. QED
    BY <1>1, <1>5, <2>1, <2>2 DEF Careful
<1>7. ASSUME Acc \subseteq Acc' PROVE Local(n, r, row, owner', Acc', live')
  <2>1. Local(req[r], r, row, owner', Acc', live')
    BY <1>1, <1>7, LocalGrows DEF Inv
  <2>2. Version(m, n.spent, 0, row, Acc', live')
    BY <1>3, <1>4, <1>5, <1>7 DEF Version
  <2>3. QED
    BY <1>1, <1>3, <1>5, <2>1, <2>2 DEF Local, Working
<1>8. QED
  BY <1>6, <1>7, OneStep

LEMMA RefreshFailsStep ==
  ASSUME Inv, TypeInv', NEW r \in Request, RefreshFails(r)
  PROVE  Inv'
<1> DEFINE c == req[r].conn
           n == [req[r] EXCEPT !.at = "work", !.mine = req[r].mine, !.conn = NoRow]
<1>1. /\ req[r].at = "refresh" /\ UNCHANGED <<row, owner>> /\ req' = [req EXCEPT ![r] = n]
      /\ \/ UNCHANGED <<live, lost>>
         \/ live' = live \ {c.token} /\ lost' = lost \cup {c.token}
  BY DEF RefreshFails, Resume
<1>2. req[r] \in RequestI /\ Met(req[r], c.token)
  BY <1>1, Refreshing DEF Inv, TypeInv
<1>3. /\ n.at = "work" /\ n.conn = NoRow /\ n.mine = req[r].mine /\ n.token = req[r].token
      /\ n.spent = req[r].spent /\ n.saved = req[r].saved
  BY <1>2 DEF RequestI
<1> HIDE DEF n
<1>4. Careful(r, n)
  <2>1. \A t : Met(n, t) => Met(req[r], t)
    BY <1>3 DEF Met
  <2>2. ~Pending(n)
    BY <1>3 DEF Pending
  <2>3. QED
    BY <1>1, <1>2, <1>3, <2>1, <2>2 DEF Careful
<1>5. ASSUME Acc \subseteq Acc', live \subseteq live' \cup Acc'
      PROVE  Local(n, r, row, owner', Acc', live')
  <2>1. Local(req[r], r, row, owner', Acc', live')
    BY <1>1, <1>5, LocalGrows DEF Inv
  <2>2. QED
    BY <1>1, <1>3, <2>1 DEF Local, Working
<1>6. QED
  BY <1>4, <1>5, OneStep

\* What a commit publishes, and that nobody else has anything to publish then.
LEMMA Publishing ==
  ASSUME Inv, NEW r \in Request, Commit(r), req[r].mine # NoRow
  PROVE  /\ owner = r /\ row' = req[r].mine
         /\ Version(req[r].mine, req[r].spent, req[r].token, row, Acc, live)
BY DEF Inv, Local, Commit, Seen, Working

LEMMA CommitStep ==
  ASSUME Inv, TypeInv', NEW r \in Request, Commit(r)
  PROVE  Inv'
<1>1. /\ req' = [req EXCEPT ![r] = Idle] /\ row' = Seen(r) /\ UNCHANGED <<live, lost>>
      /\ owner' = (IF owner = r THEN Nobody ELSE owner)
      /\ req[r].at = "work" \/ req[r].at = "commit"
  BY DEF Commit
<1>2. CASE req[r].mine = NoRow
  <2>1. req[r].spent = {} /\ row' = row
    BY <1>1, <1>2 DEF Inv, Local, Version, Working, Seen
  <2>2. Careful(r, Idle)
    BY <1>1, <2>1, IdleLocal DEF Careful
  <2>3. QED
    BY <2>2, IdleLocal, OneStep
<1>3. CASE req[r].mine # NoRow
  <2> DEFINE m == req[r].mine
  <2>1. owner = r /\ row' = m /\ Version(m, req[r].spent, req[r].token, row, Acc, live)
    BY <1>3, Publishing
  <2>2. req'[r] = Idle /\ \A x \in Request : x # r => req'[x] = req[x]
    BY <1>1 DEF Inv, TypeInv
  <2>3. \A x \in Request : Local(req'[x], x, row', owner', Acc', live')
    <3>1. Local(req'[r], r, row', owner', Acc', live')
      BY <2>2, IdleLocal
    <3>2. ASSUME NEW x \in Request, x # r PROVE Local(req'[x], x, row', owner', Acc', live')
      <4>1. Local(req[x], x, row, owner, Acc, live) /\ owner # x
        BY <2>1, <3>2 DEF Inv
      <4>2. QED
        BY <2>2, <3>2, <4>1, LocalFree
    <3>3. QED
      BY <3>1, <3>2
  <2>4. TokenInv'
    <3>1. SUFFICES ASSUME m.token # 0, m.token \notin live PROVE m.token \in Acc'
      BY <1>1, <2>1 DEF TokenInv
    <3>2. m.token \in Acc /\ m.token \notin req[r].spent
      BY <1>3, <2>1, <3>1 DEF Version
    <3>3. QED
      BY <1>1, <2>2, <3>2 DEF Acc, Accounted
  <2>5. ApartInv'
    <3>1. row' # NoRow /\ Met(req[r], row'.token)
      BY <1>3, <2>1 DEF Met
    <3>2. ~Pending(Idle) /\ \A t : ~Met(Idle, t)
      BY IdleLocal
    <3>3. ApartInv /\ TypeInv /\ live' = live
      BY <1>1 DEF Inv
    <3>4. QED
      BY <1>1, <3>1, <3>2, <3>3, ApartStep
  <2>6. QED
    BY <2>3, <2>4, <2>5 DEF Inv
<1>4. QED
  BY <1>2, <1>3

LEMMA InitInv == Init => Inv
<1> SUFFICES ASSUME Init PROVE Inv
  OBVIOUS
<1>1. \A x \in Request : req[x] = Idle
  BY DEF Init
<1>2. \A x \in Request : Local(req[x], x, row, owner, Acc, live) /\ ~Pending(req[x])
  BY <1>1, IdleLocal
<1>3. TokenInv /\ ApartInv
  BY <1>2 DEF Init, TokenInv, ApartInv
<1>4. QED
  BY <1>2, <1>3, InitTyped DEF Inv

LEMMA StepInv == Inv /\ [Next]_vars => Inv'
<1> SUFFICES ASSUME Inv, [Next]_vars PROVE Inv'
  OBVIOUS
<1>0. TypeInv'
  BY StepTyped DEF Inv
<1>1. ASSUME NEW s \in State, Authorize(s) \/ StateExpires(s) \/ Denied(s) PROVE Inv'
  BY <1>0, <1>1, StillStep DEF Authorize, StateExpires, Denied
<1>2. ASSUME NEW t \in Token, TokenExpires(t) PROVE Inv'
  BY <1>0, <1>2, StillStep DEF TokenExpires
<1>3. CASE UNCHANGED vars
  BY <1>0, <1>3, StillStep DEF vars
<1>4. ASSUME NEW r \in Request, ReleaseSavepoint(r) PROVE Inv'
  <2> DEFINE n == [req[r] EXCEPT !.saved = NoRow]
  <2>1. /\ req[r].at = "work" /\ UNCHANGED <<row, owner, live, lost>>
        /\ req' = [req EXCEPT ![r] = n]
    BY <1>4 DEF ReleaseSavepoint
  <2>2. req[r] \in RequestI
    BY DEF Inv, TypeInv
  <2>3. /\ n.at = "work" /\ n.conn = req[r].conn /\ n.mine = req[r].mine
        /\ n.token = req[r].token /\ n.spent = req[r].spent /\ n.saved = NoRow
    BY <2>1, <2>2 DEF RequestI
  <2> HIDE DEF n
  <2>4. n.at \in Working /\ n.at # "refresh"
    BY <2>3 DEF Working
  <2>5. QED
    BY <1>0, <2>1, <2>3, <2>4, WorkStep
<1>5. ASSUME NEW r \in Request, Abort(r) PROVE Inv'
  BY <1>0, <1>5, UndoneStep DEF Abort
<1>6. QED
  BY <1>0, <1>1, <1>2, <1>3, <1>4, <1>5, CallbackStep, ExchangeStep, FindRowStep,
     StoreTokensStep, DisconnectStep, RevokeStep, RevokeFailsStep, ClearTokensStep, UseStep,
     SavepointStep, RollbackStep, AskTokenStep, LockRowStep, RefreshStep, RefreshRefusedStep,
     RefreshFailsStep, CommitStep DEF Next

LEMMA Invariant == Spec => []Inv
BY InitInv, StepInv, PTL DEF Spec

\* Whatever overlaps: the refresh token in the row is one Bling accepts, or its end
\* is that of a transaction that could not record it.
THEOREM RotationRecorded == Spec => []StoredIsCurrent
<1>1. Inv => StoredIsCurrent
  BY DEF Inv, TokenInv, Acc, StoredIsCurrent
<1>2. QED
  BY <1>1, Invariant, PTL

\* The row changes at a commit that has written it, and only then.
LEMMA RowChanges ==
  ASSUME [Next]_vars, row' # row
  PROVE  \E r \in Request : Commit(r) /\ req[r].mine # NoRow
<1>1. ASSUME NEW r \in Request, Commit(r) PROVE req[r].mine # NoRow
  BY <1>1 DEF Commit, Seen
<1>2. QED
  BY <1>1 DEF Next, vars, Authorize, StateExpires, Denied, Callback, Exchange, FindRow,
     StoreTokens, Undone, Disconnect, Revoke, RevokeFails, ClearTokens, Use, Savepoint,
     ReleaseSavepoint, RollbackSavepoint, AskToken, LockRow, Refresh, RefreshRefused,
     RefreshFails, Abort, TokenExpires

\* Nobody is sent to authorise anew for a refresh token that another request has just used.
THEOREM RefusalIsReal == Spec => RefusedOnlyIfLost
<1>1. Inv /\ [Next]_vars =>
        [row # NoRow /\ row.status # "requires_reauthorization"
           /\ row'.status = "requires_reauthorization" => Accounted(row'.token)]_vars
  <2> SUFFICES ASSUME Inv, [Next]_vars, row # NoRow, row.status # Dead, row'.status = Dead
               PROVE  Accounted(row'.token)
    BY DEF Dead
  <2>1. PICK r \in Request : Commit(r) /\ req[r].mine # NoRow
    BY RowChanges
  <2>2. /\ row' = req[r].mine
        /\ Version(req[r].mine, req[r].spent, req[r].token, row, Acc, live)
    BY <2>1, Publishing
  <2>3. QED
    BY <2>1, <2>2 DEF Version, Acc
<1>2. QED
  BY <1>1, Invariant, PTL DEF Spec, RefusedOnlyIfLost

\* Only an authorisation fills a row that has been cleared.
THEOREM Disconnected == Spec => DisconnectHolds
<1>1. Inv /\ [Next]_vars =>
        [row # NoRow /\ row.token = 0 /\ row' # row
           => \/ row' = [token |-> 0, status |-> "disconnected"]
              \/ \E r \in Request : /\ req[r].token # 0 /\ req'[r] = Idle
                                    /\ row'.token = req[r].token]_vars
  <2> SUFFICES ASSUME Inv, [Next]_vars, row # NoRow, row.token = 0, row' # row
               PROVE  \/ row' = [token |-> 0, status |-> "disconnected"]
                      \/ \E r \in Request : /\ req[r].token # 0 /\ req'[r] = Idle
                                            /\ row'.token = req[r].token
    OBVIOUS
  <2>1. PICK r \in Request : Commit(r) /\ req[r].mine # NoRow
    BY RowChanges
  <2> DEFINE m == req[r].mine
  <2>2. row' = m /\ Version(m, req[r].spent, req[r].token, row, Acc, live)
    BY <2>1, Publishing
  <2>3. row \in RowI /\ m \in RowI
    BY <2>1 DEF Inv, TypeInv, RequestI
  <2>4. CASE req[r].token # 0 /\ m.token = req[r].token
    BY <2>1, <2>2, <2>4 DEF Commit, Inv, TypeInv
  <2>5. CASE m.token = 0 /\ m.status \in {"disconnected", row.status}
    <3>1. m = [token |-> 0, status |-> m.status] /\ row = [token |-> 0, status |-> row.status]
      BY <2>3, <2>5 DEF RowI
    <3>2. QED
      BY <2>2, <2>5, <3>1
  <2>6. QED
    BY <2>1, <2>2, <2>4, <2>5 DEF Version
<1>2. QED
  BY <1>1, Invariant, PTL DEF Spec, DisconnectHolds

=============================================================================
