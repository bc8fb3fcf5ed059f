--------------------------- MODULE UserKeysProofs ---------------------------
(***************************************************************************)
(* Type correctness of UserKeys, the kill switch and its counterpart, for  *)
(* every number of users, tokens and admin requests.                       *)
(*                                                                         *)
(* The argument is about who works on a token.  A token belongs to one     *)
(* user for ever.  A request that overlaps no other one for its user finds *)
(* the row as it loaded it, and nobody else writes the keys it writes; a   *)
(* request that does overlap leaves its tokens suspect, and so does every  *)
(* other one while it runs.                                                *)
(***************************************************************************)
EXTENDS UserKeys, TLAPS

Active(a) == apc[a] # "idle"

\* Requests for different users have different tokens, and the token in the
\* row of a request's user is one of the request's, or suspect.
TokenInv ==
    \A a \in Admin : Active(a) =>
        /\ TokensOf(req[a]) \subseteq minted
        /\ users[req[a].id] # NoRow =>
              users[req[a].id].token \in TokensOf(req[a]) \cup suspect
        /\ \A v \in User : users[v] # NoRow /\ v # req[a].id =>
              users[v].token \notin TokensOf(req[a])
        /\ \A b \in Admin : Active(b) /\ req[b].id # req[a].id =>
              TokensOf(req[a]) \cap TokensOf(req[b]) = {}

\* The steps of each handler; only reset_user_token changes the token, and
\* from then to its commit the row stays.
PhaseInv ==
    \A a \in Admin : Active(a) =>
        /\ req[a].handler \in {"create_user", "update_user"} => apc[a] # "del"
        /\ req[a].handler = "delete_user" => apc[a] \notin {"set", "redis"}
        /\ (req[a].handler # "reset_user_token" \/ apc[a] \in {"del", "flush"})
              => req[a].row.token = req[a].old
        /\ (req[a].handler = "reset_user_token" /\ apc[a] \in {"set", "redis", "commit"})
              => req[a].row.token # req[a].old /\ users[req[a].id] # NoRow

\* Two open transactions never hold the same row.
LockInv ==
    \A a, b \in Admin :
        a # b /\ Active(a) /\ Active(b) /\ Holds(a) /\ Holds(b) => req[a].id # req[b].id

\* A request that is not raced is alone with its user.
RaceInv ==
    \A a, b \in Admin :
        a # b /\ Active(a) /\ Active(b) /\ ~raced[a] => req[a].id # req[b].id

\* A key that runs out at e, and whose last SETEX was under way for d, is, at
\* time t, what row calls for.
Right(row, e, t, d) ==
    LET end == row.subscription_expires_at
    IN  /\ ~row.is_active => e <= t
        /\ row.is_active /\ end # Never =>
              e <= end + d /\ (end - TicksPerSecond < t \/ end - TicksPerSecond < e)

\* What a request that is not raced has done so far, and will commit.
Alone(a) ==
    LET r == req[a]
        t == r.row.token
        KeyIsRight == apc[a] = "commit" => Right(r.row, expireat[t], now, late[t])
        OldIsOff == apc[a] # "del" => expireat[r.old] <= now
    IN  /\ r.handler # "delete_user" => KeyIsRight
        /\ r.handler = "update_user" =>
              users[r.id] # NoRow /\ r.row = Patched(users[r.id], r.body)
        /\ r.handler = "reset_user_token" =>
              users[r.id] # NoRow /\ r.row = [users[r.id] EXCEPT !.token = r.row.token]
        /\ r.handler \in {"delete_user", "reset_user_token"} => OldIsOff

AloneInv == \A a \in Admin : Active(a) /\ ~raced[a] => Alone(a)

\* No request that is under way has touched the key of t.
Untouched(t) ==
    /\ t \notin suspect
    /\ \A a \in Admin : Active(a) /\ Acted(a) => t \notin TokensOf(req[a])

\* The key of t is the one its row calls for, or has run out if no row has it.
Kept(t) ==
    /\ \A u \in User : users[u] # NoRow /\ users[u].token = t =>
          Right(users[u], expireat[t], now, late[t])
    /\ (\A u \in User : users[u] # NoRow => users[u].token # t) => expireat[t] <= now

KeyInv == \A t \in Token : Untouched(t) => Kept(t)

IInv ==
    TypeOK /\ TokenInv /\ PhaseInv /\ LockInv /\ RaceInv /\ AloneInv /\ KeyInv

-----------------------------------------------------------------------------
\* Requests, rows and deadlines.

LEMMA RequestTyped ==
    ASSUME TypeOK, NEW a \in Admin, Active(a)
    PROVE  /\ req[a] \in Request /\ req[a].id \in User /\ req[a].body \in UserBody
           /\ req[a].row \in UserRow /\ req[a].old \in Token /\ req[a].row.token \in Token
           /\ req[a].handler \in {"create_user", "update_user", "delete_user",
                                 "reset_user_token"}
<1>1. req[a] \in Request
  BY DEF TypeOK, Active
<1> QED BY <1>1 DEF Request, UserRow

LEMMA PatchedTyped ==
    ASSUME NEW row \in UserRow, NEW body \in UserBody
    PROVE  Patched(row, body) \in UserRow /\ Patched(row, body).token = row.token
BY DEF Patched, UserRow, UserBody, Or

LEMMA NoChangePatch ==
    ASSUME NEW row \in UserRow
    PROVE  Patched(row, NoChange) = row
BY DEF Patched, NoChange, Or, UserRow

\* Whole seconds, truncated.
LEMMA WholeSeconds ==
    ASSUME NEW x \in Nat
    PROVE  /\ TicksPerSecond * (x \div TicksPerSecond) \in Nat
           /\ TicksPerSecond * (x \div TicksPerSecond) <= x
           /\ x - TicksPerSecond < TicksPerSecond * (x \div TicksPerSecond)
BY ConstantsAssumption, SMT

\* When the key runs out if the TTL computed at time at reaches Redis now.
Deadline(row, at) == IF TTL(row, at) = 0 THEN 0 ELSE now + TTL(row, at)

\* And how late the command is.
Lateness(row, at) == IF TTL(row, at) = 0 THEN 0 ELSE now - at

\* set_user_active_key writes the key that its row calls for, however long its
\* command takes.  A TTL of zero that SETEX refuses is no DEL.
LEMMA DeadlineIsRight ==
    ASSUME TypeOK, NEW row \in UserRow, NEW at \in Nat, at <= now
    PROVE  /\ Deadline(row, at) \in Nat /\ Lateness(row, at) \in Nat
           /\ ~SetexFails(row, at) =>
                 Right(row, Deadline(row, at), now, Lateness(row, at))
<1>1. now \in Nat /\ Day \in Nat \ {0} /\ TicksPerSecond \in Nat \ {0} /\ Dates \subseteq Nat
  BY ConstantsAssumption DEF TypeOK
<1>2. row.subscription_expires_at \in Nat \cup {Never} /\ Never \notin Nat
  BY <1>1, ConstantsAssumption DEF UserRow
<1>3. CASE ~row.is_active
  <2>1. TTL(row, at) = 0
    BY <1>3 DEF TTL
  <2> QED BY <1>1, <1>3, <2>1 DEF Deadline, Lateness, Right
<1>4. CASE row.is_active /\ row.subscription_expires_at = Never
  <2>1. TTL(row, at) = Day
    BY <1>4 DEF TTL
  <2> QED BY <1>1, <1>4, <2>1 DEF Deadline, Lateness, Right
<1>5. CASE row.is_active /\ row.subscription_expires_at # Never
  <2> DEFINE end == row.subscription_expires_at
  <2>1. end \in Nat
    BY <1>2, <1>5
  <2>2. CASE end > at
    <3>1. end - at \in Nat
      BY <1>1, <2>1, <2>2
    <3> DEFINE left == TicksPerSecond * ((end - at) \div TicksPerSecond)
    <3>2. left \in Nat /\ left <= end - at /\ end - at - TicksPerSecond < left
      BY <3>1, WholeSeconds
    <3>3. TTL(row, at) = left
      BY <1>5, <2>2 DEF TTL, SecondsLeft
    <3>4. left = 0 => SetexFails(row, at)
      <4>1. SecondsLeft(row, at) = (end - at) \div TicksPerSecond
        BY DEF SecondsLeft
      <4>2. (end - at) \div TicksPerSecond \in Nat
        BY <1>1, <3>1, SMT
      <4>3. ASSUME NEW x \in Nat, TicksPerSecond * x = 0 PROVE x = 0
        BY <1>1, <4>3, SMT
      <4>4. left = 0 => (end - at) \div TicksPerSecond = 0
        BY <4>2, <4>3
      <4> QED BY <1>5, <2>2, <4>1, <4>4 DEF SetexFails
    <3> HIDE DEF left
    <3> QED BY <1>1, <1>5, <2>1, <3>2, <3>3, <3>4 DEF Deadline, Lateness, Right
  <2>3. CASE ~(end > at)
    <3>1. TTL(row, at) = 0
      BY <1>5, <2>3 DEF TTL
    <3> QED BY <1>1, <1>5, <2>1, <2>3, <3>1 DEF Deadline, Lateness, Right
  <2> QED BY <2>2, <2>3
<1> QED BY <1>3, <1>4, <1>5

\* A key that is right stays so as time passes.
LEMMA RightLasts ==
    ASSUME NEW row \in UserRow, NEW e \in Nat, NEW t \in Nat, NEW d \in Nat,
           Right(row, e, t, d)
    PROVE  Right(row, e, t + 1, d)
<1>1. TicksPerSecond \in Nat /\ row.subscription_expires_at \in Nat \cup {Never}
  BY ConstantsAssumption DEF UserRow
<1> QED BY <1>1 DEF Right

-----------------------------------------------------------------------------
\* The shape of a step.

Begin(a) == CreateUser(a) \/ LoadForUpdate(a) \/ LoadForRemoval(a)

\* A request begins with the token of its user's row, or with a fresh one.
LEMMA Beginning ==
    ASSUME IInv, NEW a \in Admin, Begin(a)
    PROVE  \E r \in Request, pc \in {"flush", "del"} :
              /\ Start(a, r, pc) /\ UNCHANGED <<users, expireat, now, clock, late, suspect, revoked>>
              /\ minted \subseteq minted' /\ minted' \subseteq Token
              /\ r.row.token = r.old /\ r.old \in minted'
              /\ users[r.id] # NoRow => users[r.id].token = r.old
              /\ \A v \in User : users[v] # NoRow /\ v # r.id => users[v].token # r.old
              /\ \A b \in Admin : Active(b) /\ req[b].id # r.id => r.old \notin TokensOf(req[b])
              /\ pc = "flush" <=> r.handler \in {"create_user", "update_user"}
              /\ r.handler = "update_user" =>
                    users[r.id] # NoRow /\ r.row = Patched(users[r.id], r.body)
              /\ r.handler = "reset_user_token" => users[r.id] # NoRow /\ r.row = users[r.id]
<1>0. TypeOK /\ TokenInv
  BY DEF IInv
<1>1. CASE CreateUser(a)
  <2>1. PICK u \in User, t \in Token \ minted, on \in BOOLEAN, e \in Dates \cup {Never} :
          /\ users[u] = NoRow /\ minted' = minted \cup {t}
          /\ Start(a, [handler |-> "create_user", id |-> u, body |-> NoChange, old |-> t,
                       row |-> [token |-> t, is_active |-> on,
                                subscription_expires_at |-> e]], "flush")
          /\ UNCHANGED <<users, expireat, now, clock, late, suspect, revoked>>
    BY <1>1 DEF CreateUser
  <2> DEFINE row == [token |-> t, is_active |-> on, subscription_expires_at |-> e]
             r == [handler |-> "create_user", id |-> u, body |-> NoChange, old |-> t,
                   row |-> row]
  <2>2. row \in UserRow
    BY DEF UserRow
  <2>3. NoChange \in UserBody
    BY DEF NoChange, UserBody
  <2>4. r \in Request /\ r.row.token = t /\ r.old = t /\ r.id = u
        /\ r.handler = "create_user"
    BY <2>2, <2>3 DEF Request
  <2>5. Start(a, r, "flush")
    BY <2>1
  <2>6. \A v \in User : users[v] # NoRow => users[v].token # t
    BY <1>0 DEF TypeOK
  <2>7. \A b \in Admin : Active(b) => t \notin TokensOf(req[b])
    BY <1>0 DEF TokenInv
  <2>8. minted' \subseteq Token
    BY <1>0, <2>1 DEF TypeOK
  <2> HIDE DEF r
  <2> QED BY <2>1, <2>4, <2>5, <2>6, <2>7, <2>8
<1>2. CASE LoadForUpdate(a)
  <2>1. PICK u \in User, body \in UserBody :
          /\ users[u] # NoRow
          /\ Start(a, [handler |-> "update_user", id |-> u, body |-> body,
                       row |-> Patched(users[u], body), old |-> users[u].token], "flush")
          /\ UNCHANGED <<users, minted, expireat, now, clock, late, suspect, revoked>>
    BY <1>2 DEF LoadForUpdate
  <2> DEFINE r == [handler |-> "update_user", id |-> u, body |-> body,
                   row |-> Patched(users[u], body), old |-> users[u].token]
  <2>2. users[u] \in UserRow /\ users[u].token \in minted /\ users[u].token \in Token
    BY <1>0, <2>1 DEF TypeOK
  <2>3. Patched(users[u], body) \in UserRow
        /\ Patched(users[u], body).token = users[u].token
    BY <2>2, PatchedTyped
  <2>4. r \in Request
    BY <2>2, <2>3 DEF Request
  <2>5. /\ r.row.token = users[u].token /\ r.old = users[u].token /\ r.id = u
        /\ r.handler = "update_user" /\ r.row = Patched(users[u], r.body)
    BY <2>3
  <2>6. Start(a, r, "flush")
    BY <2>1
  <2>7. \A v \in User : users[v] # NoRow /\ v # u => users[v].token # users[u].token
    BY <1>0, <2>1 DEF TypeOK
  <2>8. \A b \in Admin : Active(b) /\ req[b].id # u => users[u].token \notin TokensOf(req[b])
    BY <1>0, <2>1 DEF TokenInv
  <2>9. minted \subseteq Token
    BY <1>0 DEF TypeOK
  <2> HIDE DEF r
  <2> QED BY <2>1, <2>2, <2>4, <2>5, <2>6, <2>7, <2>8, <2>9
<1>3. CASE LoadForRemoval(a)
  <2>1. PICK u \in User, h \in {"delete_user", "reset_user_token"} :
          /\ users[u] # NoRow
          /\ Start(a, [handler |-> h, id |-> u, body |-> NoChange,
                       row |-> users[u], old |-> users[u].token], "del")
          /\ UNCHANGED <<users, minted, expireat, now, clock, late, suspect, revoked>>
    BY <1>3 DEF LoadForRemoval
  <2> DEFINE r == [handler |-> h, id |-> u, body |-> NoChange,
                   row |-> users[u], old |-> users[u].token]
  <2>2. users[u] \in UserRow /\ users[u].token \in minted /\ users[u].token \in Token
    BY <1>0, <2>1 DEF TypeOK
  <2>3. NoChange \in UserBody
    BY DEF NoChange, UserBody
  <2>4. r \in Request
    BY <2>2, <2>3 DEF Request
  <2>5. /\ r.row.token = users[u].token /\ r.old = users[u].token /\ r.id = u
        /\ r.handler \in {"delete_user", "reset_user_token"} /\ r.row = users[u]
    OBVIOUS
  <2>6. Start(a, r, "del")
    BY <2>1
  <2>7. \A v \in User : users[v] # NoRow /\ v # u => users[v].token # users[u].token
    BY <1>0, <2>1 DEF TypeOK
  <2>8. \A b \in Admin : Active(b) /\ req[b].id # u => users[u].token \notin TokensOf(req[b])
    BY <1>0, <2>1 DEF TokenInv
  <2>9. minted \subseteq Token
    BY <1>0 DEF TypeOK
  <2> HIDE DEF r
  <2> QED BY <2>1, <2>2, <2>4, <2>5, <2>6, <2>7, <2>8, <2>9
<1> QED BY <1>1, <1>2, <1>3 DEF Begin

\* What a commit makes of the row of its user; the other rows stay.
LEMMA Committing ==
    ASSUME IInv, NEW a \in Admin, Commit(a)
    PROVE  LET r == req[a]
           IN  /\ users' \in [User -> UserRow \cup {NoRow}]
               /\ \A v \in User \ {r.id} : users'[v] = users[v]
               /\ r.handler = "create_user" => users'[r.id] = r.row
               /\ r.handler = "update_user" =>
                     users[r.id] # NoRow /\ users'[r.id] = Patched(users[r.id], r.body)
               /\ r.handler = "delete_user" => users'[r.id] = NoRow
               /\ r.handler = "reset_user_token" =>
                     /\ users[r.id] # NoRow
                     /\ users'[r.id] = [users[r.id] EXCEPT !.token = r.row.token]
               /\ users'[r.id] # NoRow =>
                     \/ users'[r.id].token \in TokensOf(r)
                     \/ users[r.id] # NoRow /\ users'[r.id].token = users[r.id].token
<1> DEFINE r == req[a]
<1>0. TypeOK /\ PhaseInv /\ apc[a] = "commit" /\ Active(a) /\ users' = Effect(r)
  BY DEF IInv, Commit, Active
<1>1. /\ r.id \in User /\ r.row \in UserRow /\ r.body \in UserBody /\ r.row.token \in Token
      /\ r.handler \in {"create_user", "update_user", "delete_user", "reset_user_token"}
  BY <1>0, RequestTyped
<1>2. users \in [User -> UserRow \cup {NoRow}]
  BY <1>0 DEF TypeOK
<1>3. CASE r.handler = "create_user"
  <2>1. users' = [users EXCEPT ![r.id] = r.row]
    BY <1>0, <1>3 DEF Effect
  <2> QED BY <1>1, <1>2, <1>3, <2>1 DEF TokensOf
<1>4. CASE r.handler = "update_user"
  <2>1. users[r.id] # NoRow
    BY <1>4 DEF Commit
  <2>2. users[r.id] \in UserRow
    BY <1>1, <1>2, <2>1
  <2>3. users' = [users EXCEPT ![r.id] = Patched(users[r.id], r.body)]
    <3>1. CASE r.body = NoChange
      <4>1. users' = users
        BY <1>0, <1>4, <3>1 DEF Effect
      <4> QED BY <1>1, <1>2, <2>2, <3>1, <4>1, NoChangePatch
    <3>2. CASE r.body # NoChange
      BY <1>0, <1>4, <3>2 DEF Effect
    <3> QED BY <3>1, <3>2
  <2>4. Patched(users[r.id], r.body) \in UserRow
        /\ Patched(users[r.id], r.body).token = users[r.id].token
    BY <1>1, <2>2, PatchedTyped
  <2> QED BY <1>1, <1>2, <1>4, <2>1, <2>3, <2>4
<1>5. CASE r.handler = "delete_user"
  <2>1. users' = [users EXCEPT ![r.id] = NoRow]
    BY <1>0, <1>5 DEF Effect
  <2> QED BY <1>1, <1>2, <1>5, <2>1
<1>6. CASE r.handler = "reset_user_token"
  <2>1. users' = [users EXCEPT ![r.id].token = r.row.token]
    BY <1>0, <1>6 DEF Effect
  <2>2. users[r.id] # NoRow /\ users[r.id] \in UserRow
    BY <1>0, <1>1, <1>2, <1>6 DEF PhaseInv
  <2> DEFINE row == [users[r.id] EXCEPT !.token = r.row.token]
  <2>3. row \in UserRow /\ row.token = r.row.token
    BY <1>1, <2>2 DEF UserRow
  <2>4. users' = [users EXCEPT ![r.id] = row]
    BY <2>1
  <2> HIDE DEF row
  <2>5. users' \in [User -> UserRow \cup {NoRow}] /\ users'[r.id] = row
        /\ \A v \in User \ {r.id} : users'[v] = users[v]
    BY <1>1, <1>2, <2>3, <2>4
  <2> QED BY <1>6, <2>2, <2>3, <2>5 DEF row, TokensOf
<1> QED BY <1>1, <1>3, <1>4, <1>5, <1>6

-----------------------------------------------------------------------------
\* Each part of the invariant is preserved by every step.

LEMMA InitIInv == Init => IInv
BY ConstantsAssumption
   DEF Init, IInv, TypeOK, TokenInv, PhaseInv, LockInv, RaceInv, AloneInv, KeyInv,
       Active, Untouched, Kept

LEMMA TypeStep ==
    ASSUME IInv, [Next]_vars
    PROVE  TypeOK'
<1>0. TypeOK /\ NoRow \notin UserRow /\ NoRequest \notin Request
  BY ConstantsAssumption DEF IInv
<1>1. CASE UNCHANGED vars
  BY <1>0, <1>1 DEF TypeOK, vars
<1>2. ASSUME NEW a \in Admin, Begin(a) PROVE TypeOK'
  <2>1. PICK r \in Request, pc \in {"flush", "del"} :
          /\ Start(a, r, pc) /\ UNCHANGED <<users, expireat, now, clock, late, suspect, revoked>>
          /\ minted \subseteq minted' /\ minted' \subseteq Token
    BY <1>2, Beginning
  <2>2. /\ apc' = [apc EXCEPT ![a] = pc] /\ req' = [req EXCEPT ![a] = r]
        /\ raced' \in [Admin -> BOOLEAN]
    BY <1>0, <2>1 DEF Start, TypeOK
  <2> QED BY <1>0, <2>1, <2>2 DEF TypeOK
<1>3. ASSUME NEW a \in Admin, DeleteKey(a) PROVE TypeOK'
  <2>1. req[a].old \in Token /\ req[a] # NoRequest
    BY <1>0, <1>3, RequestTyped DEF DeleteKey, Active
  <2> QED BY <1>0, <1>3, <2>1 DEF TypeOK, DeleteKey
<1>4. ASSUME NEW a \in Admin, FlushRow(a) \/ FlushDelete(a) PROVE TypeOK'
  BY <1>0, <1>4 DEF TypeOK, FlushRow, FlushDelete
<1>5. ASSUME NEW a \in Admin, FlushToken(a) PROVE TypeOK'
  <2>1. PICK t \in Token \ minted : /\ minted' = minted \cup {t}
                                   /\ req' = [req EXCEPT ![a].row.token = t]
    BY <1>5 DEF FlushToken
  <2>2. req[a] \in Request /\ apc[a] = "flush"
    BY <1>0, <1>5, RequestTyped DEF FlushToken, Active
  <2>3. [req[a] EXCEPT !.row.token = t] \in Request
    BY <2>2 DEF Request, UserRow
  <2>4. req' = [req EXCEPT ![a] = [req[a] EXCEPT !.row.token = t]]
    BY <2>1
  <2> HIDE DEF Request
  <2>5. req' \in [Admin -> Request \cup {NoRequest}]
        /\ \A b \in Admin : (req'[b] = NoRequest) <=> (req[b] = NoRequest)
    BY <1>0, <2>2, <2>3, <2>4 DEF TypeOK
  <2> QED BY <1>0, <1>5, <2>1, <2>2, <2>5 DEF TypeOK, FlushToken
<1>6. ASSUME NEW a \in Admin, SetKey(a) PROVE TypeOK'
  <2>1. /\ apc[a] = "redis" /\ req[a].row \in UserRow /\ req[a].row.token \in Token
        /\ clock[a] \in Nat /\ clock[a] <= now
    BY <1>0, <1>6, RequestTyped DEF SetKey, Active, TypeOK
  <2>2. Deadline(req[a].row, clock[a]) \in Nat /\ Lateness(req[a].row, clock[a]) \in Nat
    BY <1>0, <2>1, DeadlineIsRight
  <2>3. expireat' = [expireat EXCEPT ![req[a].row.token] = Deadline(req[a].row, clock[a])]
        /\ late' = [late EXCEPT ![req[a].row.token] = Lateness(req[a].row, clock[a])]
    BY <1>6 DEF SetKey, Deadline, Lateness
  <2>4. /\ apc' = [apc EXCEPT ![a] = "commit"] /\ clock' = [clock EXCEPT ![a] = 0]
        /\ UNCHANGED <<users, minted, now, req, raced, suspect, revoked>>
    BY <1>6 DEF SetKey
  <2> QED BY <1>0, <2>1, <2>2, <2>3, <2>4 DEF TypeOK
<1>7. ASSUME NEW a \in Admin, Commit(a) PROVE TypeOK'
  <2>0. apc[a] = "commit" /\ Active(a) /\ req[a].id \in User /\ req[a].old \in Token
        /\ TokensOf(req[a]) \subseteq Token /\ TokensOf(req[a]) \subseteq minted
    BY <1>0, <1>7, RequestTyped DEF Commit, Active, IInv, TokenInv, TokensOf
  <2>1. /\ users' \in [User -> UserRow \cup {NoRow}]
        /\ \A v \in User \ {req[a].id} : users'[v] = users[v]
        /\ users'[req[a].id] # NoRow =>
              \/ users'[req[a].id].token \in TokensOf(req[a])
              \/ /\ users[req[a].id] # NoRow
                 /\ users'[req[a].id].token = users[req[a].id].token
    BY <1>7, Committing
  <2>2. \A v \in User : users[v] # NoRow /\ v # req[a].id =>
            users[v].token \notin TokensOf(req[a])
    BY <2>0 DEF IInv, TokenInv
  <2>3. \A u \in User : users'[u] # NoRow => users'[u].token \in minted
    BY <1>0, <2>0, <2>1 DEF TypeOK
  <2>4. \A u, v \in User : users'[u] # NoRow /\ users'[v] # NoRow /\ u # v
            => users'[u].token # users'[v].token
    BY <1>0, <2>0, <2>1, <2>2 DEF TypeOK
  <2>5. suspect' \subseteq Token /\ revoked' \subseteq Token
    BY <1>0, <1>7, <2>0 DEF TypeOK, Commit
  <2>6. /\ apc' = [apc EXCEPT ![a] = "idle"] /\ req' = [req EXCEPT ![a] = NoRequest]
        /\ clock' = [clock EXCEPT ![a] = 0]
        /\ raced' = [raced EXCEPT ![a] = FALSE] /\ UNCHANGED <<minted, expireat, now, late>>
    BY <1>7 DEF Commit, Finish
  <2> QED BY <1>0, <2>1, <2>3, <2>4, <2>5, <2>6 DEF TypeOK
<1>8. ASSUME NEW a \in Admin, RollBack(a) PROVE TypeOK'
  <2>1. TokensOf(req[a]) \subseteq Token
    BY <1>0, <1>8, RequestTyped DEF RollBack, Active, TokensOf
  <2> QED BY <1>0, <1>8, <2>1 DEF TypeOK, RollBack, Finish
<1>9. CASE Tick
  BY <1>0, <1>9 DEF TypeOK, Tick
<1>10. ASSUME NEW a \in Admin, ReadClock(a) PROVE TypeOK'
  BY <1>0, <1>10 DEF TypeOK, ReadClock
<1> QED BY <1>1, <1>2, <1>3, <1>4, <1>5, <1>6, <1>7, <1>8, <1>9, <1>10
        DEF Next, AdminStep, Begin

\* A token stays with one user: fresh ones are nobody's, and a request only
\* brings its own to the row of its user.
LEMMA TokenStep ==
    ASSUME IInv, [Next]_vars
    PROVE  TokenInv'
<1>0. TypeOK /\ TokenInv
  BY DEF IInv
<1>1. CASE UNCHANGED vars
  BY <1>0, <1>1 DEF TokenInv, vars, Active
<1>2. ASSUME NEW a \in Admin, Begin(a) PROVE TokenInv'
  <2>1. PICK r \in Request, pc \in {"flush", "del"} :
          /\ Start(a, r, pc) /\ UNCHANGED <<users, suspect>>
          /\ minted \subseteq minted'
          /\ r.row.token = r.old /\ r.old \in minted'
          /\ users[r.id] # NoRow => users[r.id].token = r.old
          /\ \A v \in User : users[v] # NoRow /\ v # r.id => users[v].token # r.old
          /\ \A b \in Admin : Active(b) /\ req[b].id # r.id => r.old \notin TokensOf(req[b])
    BY <1>2, Beginning
  <2>2. /\ apc' = [apc EXCEPT ![a] = pc] /\ req' = [req EXCEPT ![a] = r]
    BY <2>1 DEF Start
  <2>3. TokensOf(r) = {r.old}
    BY <2>1 DEF TokensOf
  <2>4. req'[a] = r /\ \A b \in Admin \ {a} : req'[b] = req[b] /\ (Active(b)' <=> Active(b))
    BY <1>0, <2>2 DEF TypeOK, Active
  <2> QED BY <1>0, <2>1, <2>3, <2>4 DEF TokenInv
<1>3. ASSUME NEW a \in Admin,
             DeleteKey(a) \/ FlushRow(a) \/ FlushDelete(a) \/ ReadClock(a) \/ SetKey(a)
      PROVE  TokenInv'
  <2>1. /\ UNCHANGED <<users, minted, req, suspect>>
        /\ \A b \in Admin : Active(b)' => Active(b)
    BY <1>0, <1>3 DEF TypeOK, DeleteKey, FlushRow, FlushDelete, ReadClock, SetKey, Active
  <2> QED BY <1>0, <2>1 DEF TokenInv
<1>4. ASSUME NEW a \in Admin, FlushToken(a) PROVE TokenInv'
  <2>1. PICK t \in Token \ minted : /\ minted' = minted \cup {t}
                                   /\ req' = [req EXCEPT ![a].row.token = t]
    BY <1>4 DEF FlushToken
  <2>2. /\ req[a] \in Request /\ Active(a) /\ UNCHANGED <<users, suspect>>
        /\ apc' = [apc EXCEPT ![a] = "set"] /\ req[a].row.token = req[a].old
    BY <1>0, <1>4, RequestTyped DEF FlushToken, Active, IInv, PhaseInv
  <2>3. req'[a].id = req[a].id /\ req'[a].old = req[a].old /\ req'[a].row.token = t
    BY <1>0, <2>1, <2>2 DEF TypeOK, Request, UserRow
  <2>4. TokensOf(req'[a]) = TokensOf(req[a]) \cup {t}
    BY <2>2, <2>3 DEF TokensOf
  <2>5. \A b \in Admin \ {a} : req'[b] = req[b] /\ (Active(b)' <=> Active(b))
    BY <1>0, <2>1, <2>2 DEF TypeOK, Active
  <2>6. \A v \in User : users[v] # NoRow => users[v].token # t
    BY <1>0 DEF TypeOK
  <2>7. \A b \in Admin : Active(b) => t \notin TokensOf(req[b])
    BY <1>0 DEF TokenInv
  <2> QED BY <1>0, <2>1, <2>2, <2>3, <2>4, <2>5, <2>6, <2>7 DEF TokenInv
<1>5. ASSUME NEW a \in Admin, Commit(a) PROVE TokenInv'
  <2> DEFINE r == req[a]
  <2>0. Active(a) /\ r.id \in User
    BY <1>0, <1>5, RequestTyped DEF Commit, Active
  <2>1. /\ \A v \in User \ {r.id} : users'[v] = users[v]
        /\ users'[r.id] # NoRow =>
              \/ users'[r.id].token \in TokensOf(r)
              \/ users[r.id] # NoRow /\ users'[r.id].token = users[r.id].token
    BY <1>5, Committing
  <2>2. /\ UNCHANGED minted /\ ~Active(a)'
        /\ \A b \in Admin \ {a} : req'[b] = req[b] /\ (Active(b)' <=> Active(b))
        /\ suspect' = IF raced[a] THEN suspect \cup TokensOf(r) ELSE suspect \ TokensOf(r)
    BY <1>0, <1>5 DEF TypeOK, Commit, Finish, Active
  <2> HIDE DEF r
  <2> SUFFICES ASSUME NEW b \in Admin, b # a, Active(b)
               PROVE  /\ TokensOf(req[b]) \subseteq minted
                      /\ users'[req[b].id] # NoRow =>
                            users'[req[b].id].token \in TokensOf(req[b]) \cup suspect'
                      /\ \A v \in User : users'[v] # NoRow /\ v # req[b].id =>
                            users'[v].token \notin TokensOf(req[b])
                      /\ \A c \in Admin : Active(c) /\ req[c].id # req[b].id =>
                            TokensOf(req[b]) \cap TokensOf(req[c]) = {}
    BY <2>2 DEF TokenInv
  <2>3. req[b].id \in User
    BY <1>0, RequestTyped
  <2>4. CASE req[b].id = r.id
    <3>1. raced[a]
      BY <2>0, <2>4 DEF IInv, RaceInv, r
    <3>2. users[r.id] # NoRow => users[r.id].token \in TokensOf(r) \cup suspect
      BY <1>0, <2>0 DEF TokenInv, r
    <3>3. users'[r.id] # NoRow => users'[r.id].token \in suspect'
      BY <2>1, <2>2, <3>1, <3>2
    <3> QED BY <1>0, <2>1, <2>4, <3>3 DEF TokenInv
  <2>5. CASE req[b].id # r.id
    <3>1. TokensOf(req[b]) \cap TokensOf(r) = {}
      BY <1>0, <2>0, <2>5 DEF TokenInv, r
    <3>2. users[req[b].id] # NoRow => users[req[b].id].token \notin TokensOf(r)
      BY <1>0, <2>0, <2>3, <2>5 DEF TokenInv, r
    <3>3. users'[req[b].id] # NoRow =>
              users'[req[b].id].token \in TokensOf(req[b]) \cup suspect'
      BY <1>0, <2>1, <2>2, <2>3, <2>5, <3>2 DEF TokenInv
    <3>4. ASSUME NEW v \in User, users'[v] # NoRow, v # req[b].id
          PROVE  users'[v].token \notin TokensOf(req[b])
      BY <1>0, <2>0, <2>1, <2>5, <3>1, <3>4 DEF TokenInv
    <3> QED BY <1>0, <3>3, <3>4 DEF TokenInv
  <2> QED BY <2>4, <2>5
<1>6. ASSUME NEW a \in Admin, RollBack(a) PROVE TokenInv'
  <2>1. /\ UNCHANGED <<users, minted>> /\ ~Active(a)' /\ suspect \subseteq suspect'
        /\ \A b \in Admin \ {a} : req'[b] = req[b] /\ (Active(b)' <=> Active(b))
    BY <1>0, <1>6 DEF TypeOK, RollBack, Finish, Active
  <2> QED BY <1>0, <2>1 DEF TokenInv
<1>7. CASE Tick
  BY <1>0, <1>7 DEF TokenInv, Tick, Active
<1> QED BY <1>1, <1>2, <1>3, <1>4, <1>5, <1>6, <1>7 DEF Next, AdminStep, Begin

\* The one that deletes a row holds it, so that reset_user_token finds its own.
LEMMA PhaseStep ==
    ASSUME IInv, [Next]_vars
    PROVE  PhaseInv'
<1>0. TypeOK /\ PhaseInv
  BY DEF IInv
<1>1. CASE UNCHANGED vars
  BY <1>0, <1>1 DEF PhaseInv, vars, Active
<1>2. ASSUME NEW a \in Admin, Begin(a) PROVE PhaseInv'
  <2>1. PICK r \in Request, pc \in {"flush", "del"} :
          /\ Start(a, r, pc) /\ UNCHANGED users
          /\ r.row.token = r.old
          /\ pc = "flush" <=> r.handler \in {"create_user", "update_user"}
    BY <1>2, Beginning
  <2>2. /\ apc' = [apc EXCEPT ![a] = pc] /\ req' = [req EXCEPT ![a] = r]
    BY <2>1 DEF Start
  <2> QED BY <1>0, <2>1, <2>2 DEF TypeOK, PhaseInv, Active
<1>3. ASSUME NEW a \in Admin,
             DeleteKey(a) \/ FlushRow(a) \/ FlushDelete(a) \/ ReadClock(a) \/ SetKey(a)
      PROVE  PhaseInv'
  BY <1>0, <1>3 DEF TypeOK, PhaseInv, Active, DeleteKey, FlushRow, FlushDelete, ReadClock,
                   SetKey
<1>4. ASSUME NEW a \in Admin, FlushToken(a) PROVE PhaseInv'
  <2>1. PICK t \in Token \ minted : req' = [req EXCEPT ![a].row.token = t]
    BY <1>4 DEF FlushToken
  <2>2. /\ req[a] \in Request /\ Active(a) /\ UNCHANGED users /\ users[req[a].id] # NoRow
        /\ apc' = [apc EXCEPT ![a] = "set"] /\ req[a].old \in minted
        /\ req[a].handler = "reset_user_token"
    BY <1>0, <1>4, RequestTyped DEF FlushToken, Active, IInv, TokenInv, TokensOf
  <2>3. /\ req'[a].id = req[a].id /\ req'[a].old = req[a].old /\ req'[a].row.token = t
        /\ req'[a].handler = req[a].handler
    BY <1>0, <2>1, <2>2 DEF TypeOK, Request, UserRow
  <2>4. \A b \in Admin \ {a} : req'[b] = req[b] /\ apc'[b] = apc[b]
    BY <1>0, <2>1, <2>2 DEF TypeOK
  <2>5. apc'[a] = "set"
    BY <1>0, <2>2 DEF TypeOK
  <2> QED BY <1>0, <2>1, <2>2, <2>3, <2>4, <2>5 DEF PhaseInv, Active
<1>5. ASSUME NEW a \in Admin, Commit(a) PROVE PhaseInv'
  <2>1. /\ ~Active(a)' /\ \A b \in Admin \ {a} : req'[b] = req[b] /\ apc'[b] = apc[b]
    BY <1>0, <1>5 DEF TypeOK, Commit, Finish, Active
  <2> SUFFICES ASSUME NEW b \in Admin, b # a, Active(b),
                      req[b].handler = "reset_user_token", apc[b] \in {"set", "redis", "commit"}
               PROVE  users'[req[b].id] # NoRow
    BY <1>0, <2>1 DEF PhaseInv, Active
  <2>2. users[req[b].id] # NoRow /\ req[b].id \in User
    BY <1>0, RequestTyped DEF PhaseInv
  <2>3. Active(a) /\ apc[a] = "commit"
    BY <1>5 DEF Commit, Active
  <2>4. CASE req[a].id # req[b].id
    BY <1>5, <2>2, <2>4, Committing
  <2>5. CASE req[a].id = req[b].id
    <3>1. req[a].handler # "delete_user"
      BY <2>3, <2>5 DEF IInv, LockInv, Holds
    <3>2. req[a].row \in UserRow /\ req[a].body \in UserBody /\ users[req[a].id] \in UserRow
          /\ req[a].row.token \in Token
          /\ req[a].handler \in {"create_user", "update_user", "delete_user",
                                "reset_user_token"}
      BY <1>0, <2>2, <2>3, <2>5, RequestTyped DEF TypeOK
    <3>3. NoRow \notin UserRow
      BY ConstantsAssumption
    <3>4. Patched(users[req[a].id], req[a].body) \in UserRow
      BY <3>2, PatchedTyped
    <3>5. [users[req[a].id] EXCEPT !.token = req[a].row.token] \in UserRow
      BY <3>2 DEF UserRow
    <3> QED BY <1>5, <2>5, <3>1, <3>2, <3>3, <3>4, <3>5, Committing
  <2> QED BY <2>4, <2>5
<1>6. ASSUME NEW a \in Admin, RollBack(a) PROVE PhaseInv'
  BY <1>0, <1>6 DEF TypeOK, PhaseInv, Active, RollBack, Finish
<1>7. CASE Tick
  BY <1>0, <1>7 DEF PhaseInv, Tick, Active
<1> QED BY <1>1, <1>2, <1>3, <1>4, <1>5, <1>6, <1>7 DEF Next, AdminStep, Begin

LEMMA LockStep ==
    ASSUME IInv, [Next]_vars
    PROVE  LockInv'
<1> USE DEF Active, Holds
<1>0. TypeOK /\ LockInv
  BY DEF IInv
<1>1. CASE UNCHANGED vars
  BY <1>0, <1>1 DEF LockInv, vars
<1>2. ASSUME NEW a \in Admin, Begin(a) PROVE LockInv'
  <2>1. PICK r \in Request, pc \in {"flush", "del"} : Start(a, r, pc)
    BY <1>2, Beginning
  <2>2. /\ apc' = [apc EXCEPT ![a] = pc] /\ req' = [req EXCEPT ![a] = r]
    BY <2>1 DEF Start
  <2> QED BY <1>0, <2>2 DEF TypeOK, LockInv
<1>3. ASSUME NEW a \in Admin, DeleteKey(a) \/ ReadClock(a) \/ SetKey(a) PROVE LockInv'
  BY <1>0, <1>3 DEF TypeOK, LockInv, DeleteKey, ReadClock, SetKey
<1>4. ASSUME NEW a \in Admin, FlushRow(a) \/ FlushDelete(a) PROVE LockInv'
  BY <1>0, <1>4 DEF TypeOK, LockInv, FlushRow, FlushDelete, Unlocked
<1>5. ASSUME NEW a \in Admin, FlushToken(a) PROVE LockInv'
  <2>1. PICK t \in Token \ minted : req' = [req EXCEPT ![a].row.token = t]
    BY <1>5 DEF FlushToken
  <2>2. /\ req[a] \in Request /\ apc' = [apc EXCEPT ![a] = "set"]
        /\ req[a].handler = "reset_user_token" /\ Unlocked(a)
    BY <1>0, <1>5, RequestTyped DEF FlushToken
  <2>3. /\ req'[a].id = req[a].id
        /\ \A b \in Admin \ {a} : req'[b] = req[b] /\ apc'[b] = apc[b]
    BY <1>0, <2>1, <2>2 DEF TypeOK, Request
  <2> QED BY <1>0, <2>2, <2>3 DEF LockInv, Unlocked
<1>6. ASSUME NEW a \in Admin, Commit(a) \/ RollBack(a) PROVE LockInv'
  BY <1>0, <1>6 DEF TypeOK, LockInv, Commit, RollBack, Finish
<1>7. CASE Tick
  BY <1>0, <1>7 DEF LockInv, Tick
<1> QED BY <1>1, <1>2, <1>3, <1>4, <1>5, <1>6, <1>7 DEF Next, AdminStep, Begin

LEMMA RaceStep ==
    ASSUME IInv, [Next]_vars
    PROVE  RaceInv'
<1> USE DEF Active
<1>0. TypeOK /\ RaceInv
  BY DEF IInv
<1>1. CASE UNCHANGED vars
  BY <1>0, <1>1 DEF RaceInv, vars
<1>2. ASSUME NEW a \in Admin, Begin(a) PROVE RaceInv'
  <2>1. PICK r \in Request, pc \in {"flush", "del"} : Start(a, r, pc)
    BY <1>2, Beginning
  <2>2. /\ apc' = [apc EXCEPT ![a] = pc] /\ req' = [req EXCEPT ![a] = r]
        /\ raced'[a] <=> \E b \in Admin : InFlight(b, r.id)
        /\ \A b \in Admin \ {a} : raced'[b] <=> raced[b] \/ InFlight(b, r.id)
        /\ apc[a] = "idle"
    BY <1>0, <2>1 DEF Start, TypeOK
  <2>3. /\ req'[a] = r /\ \A b \in Admin \ {a} : req'[b] = req[b] /\ apc'[b] = apc[b]
    BY <1>0, <2>2 DEF TypeOK
  <2> QED BY <1>0, <2>2, <2>3 DEF RaceInv, InFlight
<1>3. ASSUME NEW a \in Admin,
             DeleteKey(a) \/ FlushRow(a) \/ FlushDelete(a) \/ ReadClock(a) \/ SetKey(a)
      PROVE  RaceInv'
  BY <1>0, <1>3 DEF TypeOK, RaceInv, DeleteKey, FlushRow, FlushDelete, ReadClock, SetKey
<1>4. ASSUME NEW a \in Admin, FlushToken(a) PROVE RaceInv'
  <2>1. PICK t \in Token \ minted : req' = [req EXCEPT ![a].row.token = t]
    BY <1>4 DEF FlushToken
  <2>2. /\ req[a] \in Request /\ apc' = [apc EXCEPT ![a] = "set"] /\ apc[a] = "flush"
        /\ UNCHANGED raced
    BY <1>0, <1>4, RequestTyped DEF FlushToken
  <2>3. /\ req'[a].id = req[a].id
        /\ \A b \in Admin \ {a} : req'[b] = req[b] /\ apc'[b] = apc[b]
    BY <1>0, <2>1, <2>2 DEF TypeOK, Request
  <2> QED BY <1>0, <2>2, <2>3 DEF RaceInv
<1>5. ASSUME NEW a \in Admin, Commit(a) \/ RollBack(a) PROVE RaceInv'
  BY <1>0, <1>5 DEF TypeOK, RaceInv, Commit, RollBack, Finish
<1>6. CASE Tick
  BY <1>0, <1>6 DEF RaceInv, Tick
<1> QED BY <1>1, <1>2, <1>3, <1>4, <1>5, <1>6 DEF Next, AdminStep, Begin

\* Whoever works alone is not disturbed by a step that leaves its request, its
\* user's row and its keys alone.
LEMMA Undisturbed ==
    ASSUME TypeOK, NEW b \in Admin, Active(b), Alone(b),
           req'[b] = req[b], apc'[b] = apc[b], users'[req[b].id] = users[req[b].id],
           expireat'[req[b].old] = expireat[req[b].old],
           expireat'[req[b].row.token] = expireat[req[b].row.token],
           late'[req[b].row.token] = late[req[b].row.token], UNCHANGED now
    PROVE  Alone(b)'
BY RequestTyped DEF Alone

LEMMA AloneStep ==
    ASSUME IInv, [Next]_vars
    PROVE  AloneInv'
<1>0. TypeOK /\ AloneInv
  BY DEF IInv
<1>1. CASE UNCHANGED vars
  BY <1>0, <1>1 DEF AloneInv, Alone, vars, Active
<1>2. ASSUME NEW a \in Admin, Begin(a) PROVE AloneInv'
  <2>1. PICK r \in Request, pc \in {"flush", "del"} :
          /\ Start(a, r, pc) /\ UNCHANGED <<users, expireat, now, late>>
          /\ pc = "flush" <=> r.handler \in {"create_user", "update_user"}
          /\ r.handler = "update_user" =>
                users[r.id] # NoRow /\ r.row = Patched(users[r.id], r.body)
          /\ r.handler = "reset_user_token" => users[r.id] # NoRow /\ r.row = users[r.id]
    BY <1>2, Beginning
  <2>2. /\ apc'[a] = pc /\ req'[a] = r
        /\ \A b \in Admin \ {a} : /\ req'[b] = req[b] /\ apc'[b] = apc[b]
                                  /\ ~raced'[b] => ~raced[b]
    BY <1>0, <2>1 DEF Start, TypeOK
  <2>3. r.row \in UserRow /\ r.handler \in {"create_user", "update_user", "delete_user",
                                           "reset_user_token"}
    BY DEF Request
  <2>4. Alone(a)'
    <3>1. r.row = [r.row EXCEPT !.token = r.row.token]
      BY <2>3 DEF UserRow
    <3> QED BY <2>1, <2>2, <2>3, <3>1 DEF Alone
  <2>5. ASSUME NEW b \in Admin \ {a}, Active(b)', ~raced'[b]
        PROVE  Alone(b)'
    BY <1>0, <2>1, <2>2, <2>5, Undisturbed DEF AloneInv, Active
  <2> QED BY <2>4, <2>5 DEF AloneInv
<1>3. ASSUME NEW a \in Admin,
             \/ DeleteKey(a) \/ FlushRow(a) \/ FlushToken(a) \/ FlushDelete(a)
             \/ ReadClock(a) \/ SetKey(a) \/ Commit(a) \/ RollBack(a),
             NEW b \in Admin \ {a}, Active(b)', ~raced'[b]
      PROVE  Alone(b)'
  <2>1. /\ Active(a) /\ Active(b) /\ ~raced[b] /\ req'[b] = req[b] /\ apc'[b] = apc[b]
        /\ UNCHANGED now
    <3> USE <1>0 DEF TypeOK, Active
    <3>1. CASE DeleteKey(a) \/ FlushRow(a) \/ FlushDelete(a) \/ ReadClock(a) \/ SetKey(a)
      BY <1>3, <3>1 DEF DeleteKey, FlushRow, FlushDelete, ReadClock, SetKey
    <3>2. CASE FlushToken(a)
      BY <1>3, <3>2 DEF FlushToken
    <3>3. CASE Commit(a) \/ RollBack(a)
      BY <1>3, <3>3 DEF Commit, RollBack, Finish
    <3> QED BY <1>3, <3>1, <3>2, <3>3
  <2>2. req[a].id # req[b].id
    BY <2>1 DEF IInv, RaceInv
  <2>3. TokensOf(req[a]) \cap TokensOf(req[b]) = {}
    BY <2>1, <2>2 DEF IInv, TokenInv
  <2>4. req[b].id \in User /\ req[b].old \in Token /\ req[b].row.token \in Token
    BY <1>0, <2>1, RequestTyped
  <2>5. users'[req[b].id] = users[req[b].id]
    <3>1. CASE Commit(a)
      BY <2>2, <2>4, <3>1, Committing
    <3>2. CASE ~Commit(a)
      BY <1>3, <3>2 DEF DeleteKey, FlushRow, FlushToken, FlushDelete, ReadClock, SetKey,
                        RollBack
    <3> QED BY <3>1, <3>2
  <2>6. ASSUME NEW t \in TokensOf(req[b])
        PROVE  expireat'[t] = expireat[t] /\ late'[t] = late[t]
    <3>1. CASE DeleteKey(a)
      BY <1>0, <2>3, <2>4, <3>1 DEF DeleteKey, TypeOK, TokensOf
    <3>2. CASE SetKey(a)
      BY <1>0, <2>3, <2>4, <3>2 DEF SetKey, TypeOK, TokensOf
    <3>3. CASE ~DeleteKey(a) /\ ~SetKey(a)
      BY <1>3, <3>3 DEF FlushRow, FlushToken, FlushDelete, ReadClock, Commit, RollBack, Finish
    <3> QED BY <3>1, <3>2, <3>3
  <2> QED BY <1>0, <2>1, <2>5, <2>6, Undisturbed DEF AloneInv, TokensOf
<1>4. ASSUME NEW a \in Admin, DeleteKey(a), ~raced[a] PROVE Alone(a)'
  <2>1. req[a].handler \in {"delete_user", "reset_user_token"} /\ Active(a) /\ Alone(a)
        /\ req[a].old \in Token
    BY <1>0, <1>4, RequestTyped DEF DeleteKey, Active, AloneInv, IInv, PhaseInv
  <2>2. /\ apc'[a] = "flush" /\ expireat'[req[a].old] = 0
        /\ UNCHANGED <<users, req, now, late>> /\ now \in Nat
    BY <1>0, <1>4, <2>1 DEF DeleteKey, TypeOK
  <2> QED BY <2>1, <2>2 DEF Alone
<1>5. ASSUME NEW a \in Admin, FlushRow(a) \/ FlushDelete(a), ~raced[a] PROVE Alone(a)'
  <2>1. Alone(a) /\ UNCHANGED <<users, expireat, now, late, req>>
    BY <1>0, <1>5 DEF AloneInv, Active, FlushRow, FlushDelete
  <2>2. CASE FlushRow(a)
    <3>1. apc'[a] = "set" /\ req[a].handler \in {"create_user", "update_user"}
      BY <1>0, <2>2 DEF TypeOK, FlushRow
    <3> QED BY <2>1, <3>1 DEF Alone
  <2>3. CASE FlushDelete(a)
    <3>1. apc[a] = "flush" /\ req[a].handler = "delete_user"
      BY <2>3 DEF FlushDelete
    <3> QED BY <2>1, <3>1 DEF Alone
  <2> QED BY <1>5, <2>2, <2>3
<1>6. ASSUME NEW a \in Admin, FlushToken(a), ~raced[a] PROVE Alone(a)'
  <2>1. PICK t \in Token \ minted : req' = [req EXCEPT ![a].row.token = t]
    BY <1>6 DEF FlushToken
  <2>2. /\ apc[a] = "flush" /\ apc'[a] = "set" /\ UNCHANGED <<users, expireat, now, late>>
        /\ req[a].handler = "reset_user_token" /\ Active(a) /\ Alone(a)
    BY <1>0, <1>6 DEF TypeOK, FlushToken, Active, AloneInv
  <2>3. req[a] \in Request /\ req[a].row \in UserRow /\ users[req[a].id] \in UserRow
    BY <1>0, <2>2, RequestTyped DEF TypeOK, Alone
  <2>4. req'[a] = [req[a] EXCEPT !.row.token = t]
    BY <1>0, <2>1 DEF TypeOK
  <2>5. /\ req'[a].id = req[a].id /\ req'[a].old = req[a].old
        /\ req'[a].handler = "reset_user_token"
        /\ req'[a].row = [req[a].row EXCEPT !.token = t]
    BY <2>2, <2>3, <2>4 DEF Request
  <2>6. /\ users[req[a].id] # NoRow /\ expireat[req[a].old] <= now
        /\ req[a].row = [users[req[a].id] EXCEPT !.token = req[a].row.token]
    BY <2>2 DEF Alone
  <2>7. req'[a].row = [users[req[a].id] EXCEPT !.token = req'[a].row.token]
    BY <2>3, <2>5, <2>6 DEF UserRow
  <2> QED BY <2>2, <2>5, <2>6, <2>7 DEF Alone
<1>7. ASSUME NEW a \in Admin, SetKey(a), ~raced[a] PROVE Alone(a)'
  <2>1. /\ apc[a] = "redis" /\ apc'[a] = "commit" /\ UNCHANGED <<users, now, req>>
        /\ Active(a) /\ Alone(a) /\ clock[a] \in Nat /\ clock[a] <= now
    BY <1>0, <1>7 DEF TypeOK, SetKey, Active, AloneInv
  <2>2. req[a].row \in UserRow /\ req[a].row.token \in Token /\ req[a].old \in Token
    BY <1>0, <2>1, RequestTyped
  <2>3. /\ expireat'[req[a].row.token] = Deadline(req[a].row, clock[a])
        /\ late'[req[a].row.token] = Lateness(req[a].row, clock[a])
        /\ \A t \in Token \ {req[a].row.token} : expireat'[t] = expireat[t]
    BY <1>0, <1>7, <2>2 DEF TypeOK, SetKey, Deadline, Lateness
  <2>4. Right(req[a].row, expireat'[req[a].row.token], now, late'[req[a].row.token])
    BY <1>0, <1>7, <2>1, <2>2, <2>3, DeadlineIsRight DEF SetKey
  <2>5. req[a].handler = "reset_user_token" => req[a].old # req[a].row.token
    BY <2>1 DEF IInv, PhaseInv
  <2>6. req[a].handler \in {"create_user", "update_user", "reset_user_token"}
    BY <1>0, <2>1, RequestTyped DEF IInv, PhaseInv
  <2> QED BY <2>1, <2>2, <2>3, <2>4, <2>5, <2>6 DEF Alone
<1>8. CASE Tick
  <2> SUFFICES ASSUME NEW b \in Admin, Active(b), ~raced[b]
               PROVE  Alone(b)'
    BY <1>8 DEF AloneInv, Tick, Active
  <2>1. /\ UNCHANGED <<users, req, apc, expireat, late>> /\ now' = now + 1 /\ now \in Nat
        /\ Alone(b)
    BY <1>0, <1>8 DEF Tick, TypeOK, AloneInv
  <2>2. /\ req[b].row \in UserRow /\ expireat[req[b].row.token] \in Nat
        /\ expireat[req[b].old] \in Nat /\ late[req[b].row.token] \in Nat
        /\ req[b].handler \in {"create_user", "update_user", "delete_user", "reset_user_token"}
    BY <1>0, RequestTyped DEF TypeOK
  <2>3. Right(req[b].row, expireat[req[b].row.token], now, late[req[b].row.token])
        => Right(req[b].row, expireat[req[b].row.token], now + 1, late[req[b].row.token])
    BY <2>1, <2>2, RightLasts
  <2>4. expireat[req[b].old] <= now => expireat[req[b].old] <= now + 1
    BY <2>1, <2>2
  <2> QED BY <2>1, <2>2, <2>3, <2>4 DEF Alone
<1>9. ASSUME NEW a \in Admin, ReadClock(a), ~raced[a] PROVE Alone(a)'
  <2>1. /\ apc[a] = "set" /\ apc'[a] = "redis" /\ UNCHANGED <<users, now, req, expireat, late>>
        /\ Active(a) /\ Alone(a)
    BY <1>0, <1>9 DEF TypeOK, ReadClock, Active, AloneInv
  <2> QED BY <2>1 DEF Alone
<1>10. ASSUME NEW a \in Admin,
             \/ DeleteKey(a) \/ FlushRow(a) \/ FlushToken(a) \/ FlushDelete(a)
             \/ ReadClock(a) \/ SetKey(a) \/ Commit(a) \/ RollBack(a)
      PROVE  AloneInv'
  <2>1. CASE Commit(a) \/ RollBack(a)
    <3>1. ~Active(a)'
      BY <1>0, <2>1 DEF TypeOK, Commit, RollBack, Finish, Active
    <3> QED BY <1>3, <1>10, <3>1 DEF AloneInv
  <2>2. CASE ~Commit(a) /\ ~RollBack(a)
    <3>1. UNCHANGED raced
      BY <1>10, <2>2 DEF DeleteKey, FlushRow, FlushToken, FlushDelete, ReadClock, SetKey
    <3> QED BY <1>3, <1>4, <1>5, <1>6, <1>7, <1>9, <1>10, <2>2, <3>1 DEF AloneInv
  <2> QED BY <2>1, <2>2
<1> QED BY <1>1, <1>2, <1>8, <1>10 DEF Next, AdminStep, Begin

\* A request that has not touched a key leaves it right when it gives up; one
\* that commits alone leaves its keys right, and one that does not leaves them
\* suspect.
LEMMA KeyStep ==
    ASSUME IInv, [Next]_vars
    PROVE  KeyInv'
<1>0. TypeOK /\ KeyInv
  BY DEF IInv
<1>1. CASE UNCHANGED vars
  BY <1>0, <1>1 DEF KeyInv, Kept, Untouched, Active, Acted, vars
<1>2. ASSUME NEW a \in Admin, Begin(a) PROVE KeyInv'
  <2>1. PICK r \in Request, pc \in {"flush", "del"} :
          /\ Start(a, r, pc) /\ UNCHANGED <<users, expireat, now, late, suspect>>
    BY <1>2, Beginning
  <2>2. /\ ~Active(a)
        /\ \A b \in Admin \ {a} : req'[b] = req[b] /\ apc'[b] = apc[b]
    BY <1>0, <2>1 DEF Start, TypeOK, Active
  <2> SUFFICES ASSUME NEW t \in Token, Untouched(t)' PROVE Kept(t)'
    BY DEF KeyInv
  <2>3. Untouched(t)
    BY <2>1, <2>2 DEF Untouched, Active, Acted
  <2> QED BY <1>0, <2>1, <2>3 DEF KeyInv, Kept
<1>3. ASSUME NEW a \in Admin, NEW t \in Token, Untouched(t)',
             \/ DeleteKey(a) \/ FlushRow(a) \/ FlushToken(a) \/ FlushDelete(a)
             \/ ReadClock(a) \/ SetKey(a)
      PROVE  Kept(t)'
  <2>1. /\ Active(a) /\ UNCHANGED <<users, now, suspect>>
        /\ \A b \in Admin \ {a} : req'[b] = req[b] /\ apc'[b] = apc[b]
    <3> USE <1>0 DEF TypeOK, Active
    <3>1. CASE FlushToken(a)
      BY <3>1 DEF FlushToken
    <3>2. CASE ~FlushToken(a)
      BY <1>3, <3>2 DEF DeleteKey, FlushRow, FlushDelete, ReadClock, SetKey
    <3> QED BY <3>1, <3>2
  <2>2. req[a] \in Request /\ req[a].old \in Token /\ req[a].row.token \in Token
    BY <1>0, <2>1, RequestTyped
  <2>3. TokensOf(req[a]) \subseteq TokensOf(req'[a]) /\ req'[a].handler = req[a].handler
    <3>1. CASE FlushToken(a)
      <4>1. PICK new \in Token : req' = [req EXCEPT ![a].row.token = new]
        BY <3>1 DEF FlushToken
      <4>2. req'[a].old = req[a].old /\ req'[a].handler = req[a].handler
        BY <1>0, <2>2, <4>1 DEF TypeOK, Request
      <4>3. req[a].row.token = req[a].old
        BY <2>1, <3>1 DEF FlushToken, IInv, PhaseInv
      <4> QED BY <4>2, <4>3 DEF TokensOf
    <3>2. CASE ~FlushToken(a)
      BY <1>3, <3>2 DEF DeleteKey, FlushRow, FlushDelete, ReadClock, SetKey
    <3> QED BY <3>1, <3>2
  <2>4. Acted(a) => Active(a)' /\ Acted(a)'
    <3> USE <1>0, <2>1, <2>3 DEF TypeOK, Active, Acted
    <3>1. CASE DeleteKey(a)
      BY <3>1 DEF DeleteKey
    <3>2. CASE FlushRow(a) \/ FlushToken(a)
      BY <3>2 DEF FlushRow, FlushToken
    <3>3. CASE FlushDelete(a) \/ ReadClock(a) \/ SetKey(a)
      BY <3>3 DEF FlushDelete, ReadClock, SetKey
    <3> QED BY <1>3, <3>1, <3>2, <3>3
  <2>5. Untouched(t)
    BY <1>3, <2>1, <2>3, <2>4 DEF Untouched, Active, Acted
  <2>6. expireat'[t] = expireat[t] /\ late'[t] = late[t]
    <3>1. CASE DeleteKey(a)
      <4>1. /\ expireat' = [expireat EXCEPT ![req[a].old] = 0] /\ apc'[a] = "flush"
            /\ req' = req /\ late' = late
        BY <1>0, <3>1 DEF DeleteKey, TypeOK
      <4>2. req[a].handler \in {"delete_user", "reset_user_token"}
        BY <1>0, <2>1, <3>1, RequestTyped DEF DeleteKey, IInv, PhaseInv
      <4>3. t # req[a].old
        BY <1>3, <4>1, <4>2 DEF Untouched, Active, Acted, TokensOf
      <4> QED BY <1>0, <2>2, <4>1, <4>3 DEF TypeOK
    <3>2. CASE SetKey(a)
      <4>1. /\ \A u \in Token \ {req[a].row.token} :
                  expireat'[u] = expireat[u] /\ late'[u] = late[u]
            /\ apc'[a] = "commit" /\ req' = req
        BY <1>0, <3>2 DEF SetKey, TypeOK
      <4>2. t # req[a].row.token
        BY <1>3, <4>1 DEF Untouched, Active, Acted, TokensOf
      <4> QED BY <1>0, <2>2, <4>1, <4>2 DEF TypeOK
    <3>3. CASE ~DeleteKey(a) /\ ~SetKey(a)
      BY <1>3, <3>3 DEF FlushRow, FlushToken, FlushDelete, ReadClock
    <3> QED BY <3>1, <3>2, <3>3
  <2> QED BY <1>0, <2>1, <2>5, <2>6 DEF KeyInv, Kept
<1>4. ASSUME NEW a \in Admin, NEW t \in Token, Untouched(t)', Commit(a)
      PROVE  Kept(t)'
  <2> DEFINE r == req[a]
  <2>0. /\ Active(a) /\ apc[a] = "commit" /\ UNCHANGED <<expireat, now, late>>
        /\ \A b \in Admin \ {a} : req'[b] = req[b] /\ apc'[b] = apc[b]
        /\ suspect' = IF raced[a] THEN suspect \cup TokensOf(r) ELSE suspect \ TokensOf(r)
        /\ t \notin suspect'
    BY <1>0, <1>4 DEF TypeOK, Commit, Finish, Active, Untouched
  <2>1. /\ r.id \in User /\ r.row \in UserRow /\ r.body \in UserBody
        /\ r.handler \in {"create_user", "update_user", "delete_user", "reset_user_token"}
    BY <1>0, <2>0, RequestTyped
  <2>2. /\ users' \in [User -> UserRow \cup {NoRow}]
        /\ \A v \in User \ {r.id} : users'[v] = users[v]
        /\ r.handler = "create_user" => users'[r.id] = r.row
        /\ r.handler = "update_user" =>
              users[r.id] # NoRow /\ users'[r.id] = Patched(users[r.id], r.body)
        /\ r.handler = "delete_user" => users'[r.id] = NoRow
        /\ r.handler = "reset_user_token" =>
              /\ users[r.id] # NoRow
              /\ users'[r.id] = [users[r.id] EXCEPT !.token = r.row.token]
        /\ users'[r.id] # NoRow =>
              \/ users'[r.id].token \in TokensOf(r)
              \/ users[r.id] # NoRow /\ users'[r.id].token = users[r.id].token
    BY <1>4, Committing
  <2>3. users[r.id] # NoRow => users[r.id].token \in TokensOf(r) \cup suspect
    BY <2>0 DEF IInv, TokenInv
  <2>4. \A v \in User \ {r.id} : users[v] # NoRow => users[v].token \notin TokensOf(r)
    BY <2>0 DEF IInv, TokenInv
  <2> HIDE DEF r
  <2>5. CASE t \notin TokensOf(r)
    <3>1. t \notin suspect
      BY <2>0, <2>5
    <3>2. Untouched(t)
      BY <1>4, <2>0, <2>5, <3>1 DEF Untouched, Active, Acted, r
    <3>3. users[r.id] # NoRow => users[r.id].token # t
      BY <2>3, <2>5, <3>1
    <3>4. users'[r.id] # NoRow => users'[r.id].token # t
      BY <2>2, <2>5, <3>3
    <3> QED BY <1>0, <2>0, <2>1, <2>2, <3>2, <3>3, <3>4 DEF KeyInv, Kept
  <2>6. CASE t \in TokensOf(r)
    <3>1. ~raced[a] /\ Alone(a)
      BY <2>0, <2>6 DEF IInv, AloneInv
    <3>2. \A v \in User \ {r.id} : users'[v] # NoRow => users'[v].token # t
      BY <2>2, <2>4, <2>6
    <3>3. CASE r.handler \in {"create_user", "update_user"}
      <4>1. users'[r.id] = r.row /\ Right(r.row, expireat[r.row.token], now, late[r.row.token])
        BY <2>0, <2>2, <3>1, <3>3 DEF Alone, r
      <4>2. t = r.row.token /\ r.row # NoRow
        BY <2>0, <2>1, <2>6, <3>3, ConstantsAssumption DEF TokensOf, IInv, PhaseInv, r
      <4> QED BY <2>0, <2>1, <3>2, <4>1, <4>2 DEF Kept
    <3>4. CASE r.handler = "delete_user"
      <4>1. users'[r.id] = NoRow /\ expireat[r.old] <= now
        BY <2>0, <2>2, <3>1, <3>4 DEF Alone, r
      <4>2. t = r.old
        BY <2>0, <2>6, <3>4 DEF TokensOf, IInv, PhaseInv, r
      <4> QED BY <2>0, <3>2, <4>1, <4>2 DEF Kept
    <3>5. CASE r.handler = "reset_user_token"
      <4>1. users'[r.id] = r.row /\ Right(r.row, expireat[r.row.token], now, late[r.row.token])
            /\ expireat[r.old] <= now
        BY <2>0, <2>2, <3>1, <3>5 DEF Alone, r
      <4>2. r.row.token # r.old /\ r.row # NoRow
        BY <2>0, <2>1, <3>5, ConstantsAssumption DEF IInv, PhaseInv, r
      <4>3. CASE t = r.row.token
        BY <2>0, <2>1, <3>2, <4>1, <4>2, <4>3 DEF Kept
      <4>4. CASE t = r.old
        BY <2>0, <2>1, <3>2, <4>1, <4>2, <4>4 DEF Kept
      <4> QED BY <2>6, <4>3, <4>4 DEF TokensOf
    <3> QED BY <2>1, <3>3, <3>4, <3>5
  <2> QED BY <2>5, <2>6
<1>5. ASSUME NEW a \in Admin, RollBack(a) PROVE KeyInv'
  <2>1. /\ UNCHANGED <<users, expireat, now, late>> /\ suspect \subseteq suspect'
        /\ Acted(a) => TokensOf(req[a]) \subseteq suspect'
        /\ \A b \in Admin \ {a} : req'[b] = req[b] /\ apc'[b] = apc[b]
    BY <1>0, <1>5 DEF TypeOK, RollBack, Finish
  <2> SUFFICES ASSUME NEW t \in Token, Untouched(t)' PROVE Kept(t)'
    BY DEF KeyInv
  <2>2. Untouched(t)
    BY <2>1 DEF Untouched, Active, Acted
  <2> QED BY <1>0, <2>1, <2>2 DEF KeyInv, Kept
<1>6. CASE Tick
  <2> SUFFICES ASSUME NEW t \in Token, Untouched(t)' PROVE Kept(t)'
    BY DEF KeyInv
  <2>1. /\ UNCHANGED <<users, expireat, late>> /\ now' = now + 1 /\ now \in Nat
        /\ expireat[t] \in Nat /\ late[t] \in Nat
    BY <1>0, <1>6 DEF Tick, TypeOK
  <2>2. Untouched(t)
    BY <1>6 DEF Tick, Untouched, Active, Acted
  <2>3. Kept(t)
    BY <1>0, <2>2 DEF KeyInv
  <2>4. ASSUME NEW u \in User, users[u] # NoRow, users[u].token = t
        PROVE  Right(users[u], expireat[t], now + 1, late[t])
    <3>1. users[u] \in UserRow
      BY <1>0, <2>4 DEF TypeOK
    <3> QED BY <2>1, <2>3, <2>4, <3>1, RightLasts DEF Kept
  <2> QED BY <2>1, <2>3, <2>4 DEF Kept
<1> QED BY <1>1, <1>2, <1>3, <1>4, <1>5, <1>6 DEF Next, AdminStep, Begin, KeyInv

-----------------------------------------------------------------------------
\* The theorems.

LEMMA Invariance == Spec => []IInv
<1>1. IInv /\ [Next]_vars => IInv'
  BY TypeStep, TokenStep, PhaseStep, LockStep, RaceStep, AloneStep, KeyStep DEF IInv
<1> QED BY InitIInv, <1>1, PTL DEF Spec

\* Type correctness, and no two users ever share a token, although requests
\* for one user overlap and a token is only known once it is flushed.
THEOREM TypeCorrect == Spec => []TypeOK
<1>1. IInv => TypeOK
  BY DEF IInv
<1> QED BY Invariance, <1>1, PTL

\* Once nobody is at work on a token, and unless requests for its user have
\* overlapped or failed half-way, its key is off as soon as the user is
\* deactivated, deleted or has got another token, and it outlives the end of the
\* subscription by no more than the time the key's last SETEX was under way
\* after its TTL had been computed (set_user_active_key, delete_user_active_key).
THEOREM KillSwitchHolds == Spec => []KillSwitch
<1>1. IInv => KillSwitch
  <2> SUFFICES ASSUME IInv, NEW t \in Token, Settled(t), Live(t) PROVE Entitled(t)
    BY DEF KillSwitch
  <2>1. Untouched(t)
    BY DEF Settled, Untouched, Active
  <2>2. TypeOK /\ Kept(t)
    BY <2>1 DEF IInv, KeyInv
  <2>3. expireat[t] \in Nat /\ late[t] \in Nat /\ now \in Nat /\ expireat[t] > now
    BY <2>2 DEF TypeOK, Live
  <2>4. PICK u \in User : users[u] # NoRow /\ users[u].token = t
    BY <2>2, <2>3 DEF Kept
  <2>5. Right(users[u], expireat[t], now, late[t]) /\ users[u] \in UserRow
    BY <2>2, <2>4 DEF Kept, TypeOK
  <2>6. users[u].subscription_expires_at \in Nat \cup {Never}
    BY <2>5, ConstantsAssumption DEF UserRow
  <2>7. users[u].is_active
    BY <2>3, <2>5 DEF Right
  <2>8. \/ users[u].subscription_expires_at = Never
        \/ users[u].subscription_expires_at + late[t] > now
    BY <2>3, <2>5, <2>6, <2>7 DEF Right
  <2> QED BY <2>4, <2>7, <2>8 DEF Entitled
<1> QED BY Invariance, <1>1, PTL

\* A user who has paid up to a date is not shut out before its last second,
\* whatever else happens to other users and however SETEX truncates.
THEOREM NoEarlyLockoutHolds == Spec => []NoEarlyLockout
<1>1. IInv => NoEarlyLockout
  <2> SUFFICES ASSUME IInv, NEW u \in User, users[u] # NoRow, Settled(users[u].token),
                      users[u].is_active, users[u].subscription_expires_at # Never,
                      users[u].subscription_expires_at - TicksPerSecond >= now
               PROVE  Live(users[u].token)
    BY DEF NoEarlyLockout
  <2> DEFINE t == users[u].token
  <2>1. TypeOK /\ users[u] \in UserRow /\ t \in Token
    BY DEF IInv, TypeOK
  <2>2. Untouched(t)
    BY DEF Settled, Untouched, Active
  <2>3. Right(users[u], expireat[t], now, late[t])
    BY <2>1, <2>2 DEF IInv, KeyInv, Kept
  <2>4. /\ users[u].subscription_expires_at \in Nat /\ TicksPerSecond \in Nat
        /\ now \in Nat /\ expireat[t] \in Nat /\ late[t] \in Nat
    BY <2>1, ConstantsAssumption DEF UserRow, TypeOK
  <2> QED BY <2>3, <2>4 DEF Right, Live
<1> QED BY Invariance, <1>1, PTL

=============================================================================
