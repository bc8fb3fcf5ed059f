------------------------------ MODULE UserKeys ------------------------------
(***************************************************************************)
(* Users, their tokens and the Redis keys sub:active:{token} that say      *)
(* whose subscription is on.                                               *)
(*                                                                         *)
(* Each of the four admin handlers changes the users table in a database   *)
(* transaction that get_db commits after the handler returned, and writes  *)
(* the key in the middle of it, from the User object it loaded at its      *)
(* start.  Postgres and Redis share no transaction and handlers for one    *)
(* user are not serialised until they flush, so the key and the row can    *)
(* part: by an overlap, or by a failure after the key was written.         *)
(*                                                                         *)
(* Time is counted in ticks, TicksPerSecond of them to the second that     *)
(* SETEX counts in.  A handler reads the clock, computes the TTL and then  *)
(* awaits Redis, which counts the TTL from the moment the command reaches  *)
(* it.  invalidate_user_config touches none of this state.                 *)
(***************************************************************************)
EXTENDS Integers, FiniteSets

CONSTANTS
    User,             \* primary keys of users
    Token,            \* tokens secrets.token_hex may return
    Admin,            \* concurrent admin requests
    Dates,            \* subscription_expires_at values, in ticks
    TicksPerSecond,
    Day,              \* 86400 s, in ticks
    MaxTime,          \* bound on the clock
    NoRow, NoRequest,
    Never,            \* subscription_expires_at IS NULL
    None              \* a PATCH field that is absent (exclude_none)

UserRow == [token: Token, is_active: BOOLEAN,
            subscription_expires_at: Dates \cup {Never}]

UserBody == [is_active: BOOLEAN \cup {None},
             subscription_expires_at: Dates \cup {None}]

\* row is the handler's User object; old is its token before reset_user_token
\* replaces it.
Request ==
    [handler: {"create_user", "update_user", "delete_user", "reset_user_token"},
     id: User, body: UserBody, row: UserRow, old: Token]

ASSUME ConstantsAssumption ==
    /\ TicksPerSecond \in Nat \ {0}
    /\ Dates \subseteq Nat /\ Day \in Nat \ {0} /\ MaxTime \in Nat
    /\ Never \notin Nat /\ None \notin Nat \cup BOOLEAN \cup {Never}
    /\ NoRow \notin UserRow /\ NoRequest \notin Request

VARIABLES
    users,      \* the committed table
    minted,     \* tokens generated so far
    expireat,   \* when the key of each token runs out (0: it is not set)
    now,        \* the clock
    apc, req,   \* each admin request: next step and its local state
    clock,      \* what datetime.now() gave each request, while it needs it
    late,       \* history: how long the last SETEX of each key was under way
    raced,      \* history: requests that overlapped another one for their user
    suspect,    \* history: tokens last handled by a raced or failed request
    revoked     \* history: tokens that a committed reset replaced

vars == <<users, minted, expireat, now, apc, req, clock, late, raced, suspect, revoked>>

-----------------------------------------------------------------------------
Or(new, old) == IF new = None THEN old ELSE new

\* A faulty variant: model_dump() without exclude_none.
PatchedWithNulls(row, body) ==
    [token |-> row.token, is_active |-> body.is_active,
     subscription_expires_at |-> body.subscription_expires_at]

Patched(row, body) ==
    [token |-> row.token,
     is_active |-> Or(body.is_active, row.is_active),
     subscription_expires_at |->
        Or(body.subscription_expires_at, row.subscription_expires_at)]

NoChange == [is_active |-> None, subscription_expires_at |-> None]

\* The UPDATE names the columns whose value differs from the loaded row.
OnlyChanges(row, body) == \A f \in DOMAIN body : body[f] # row[f]

Live(t) == expireat[t] > now

InFlight(a, u) == apc[a] # "idle" /\ req[a].id = u

TokensOf(r) == {r.old, r.row.token}

\* The request has written a statement and its transaction is open.  A PATCH
\* that changes no column writes none.
Holds(a) ==
    /\ apc[a] \in {"set", "redis", "commit"}
    /\ ~(req[a].handler = "update_user" /\ req[a].body = NoChange)

\* A faulty variant: a second less, to allow for clock skew.
SecondsLeftLessOne(row, at) ==
    (row.subscription_expires_at - at) \div TicksPerSecond - 1

\* The whole seconds left at time at until the subscription of row ends.
SecondsLeft(row, at) == (row.subscription_expires_at - at) \div TicksPerSecond

\* A faulty variant: the TTL is rounded up instead of truncated.
TTLRoundedUp(row, at) ==
    IF ~row.is_active THEN 0
    ELSE IF row.subscription_expires_at = Never THEN Day
    ELSE IF row.subscription_expires_at > at
         THEN TicksPerSecond * (SecondsLeft(row, at) + 1)
    ELSE 0

\* set_user_active_key: the TTL it gives the key, in ticks; 0 stands for a DEL.
TTL(row, at) ==
    IF ~row.is_active THEN 0
    ELSE IF row.subscription_expires_at = Never THEN Day
    ELSE IF row.subscription_expires_at > at
         THEN TicksPerSecond * SecondsLeft(row, at)
    ELSE 0

\* SETEX refuses a TTL of zero, which int() makes of the last second.
SetexFails(row, at) ==
    /\ row.is_active
    /\ row.subscription_expires_at # Never
    /\ row.subscription_expires_at > at
    /\ SecondsLeft(row, at) = 0

-----------------------------------------------------------------------------
Init ==
    /\ users = [u \in User |-> NoRow]
    /\ minted = {}
    /\ expireat = [t \in Token |-> 0]
    /\ now = 0
    /\ apc = [a \in Admin |-> "idle"]
    /\ req = [a \in Admin |-> NoRequest]
    /\ clock = [a \in Admin |-> 0]
    /\ late = [t \in Token |-> 0]
    /\ raced = [a \in Admin |-> FALSE]
    /\ suspect = {}
    /\ revoked = {}

\* Request r of a starts at step pc; it races whoever is at work on its user.
Start(a, r, pc) ==
    LET overlaps == {b \in Admin : InFlight(b, r.id)}
    IN  /\ apc[a] = "idle"
        /\ apc' = [apc EXCEPT ![a] = pc]
        /\ req' = [req EXCEPT ![a] = r]
        /\ raced' = [b \in Admin |-> IF b = a THEN overlaps # {}
                                     ELSE raced[b] \/ b \in overlaps]

\* create_user: a fresh uuid and a fresh token.
CreateUser(a) ==
    \E u \in User, t \in Token \ minted, on \in BOOLEAN, e \in Dates \cup {Never} :
        /\ users[u] = NoRow /\ \A b \in Admin : ~InFlight(b, u)
        /\ minted' = minted \cup {t}
        /\ Start(a, [handler |-> "create_user", id |-> u, body |-> NoChange, old |-> t,
                     row |-> [token |-> t, is_active |-> on, subscription_expires_at |-> e]],
                 "flush")
        /\ UNCHANGED <<users, expireat, now, clock, late, suspect, revoked>>

\* update_user up to its flush: load the row, apply the body to it.
LoadForUpdate(a) ==
    \E u \in User, body \in UserBody :
        /\ users[u] # NoRow
        /\ OnlyChanges(users[u], body)
        /\ Start(a, [handler |-> "update_user", id |-> u, body |-> body,
                     row |-> Patched(users[u], body), old |-> users[u].token], "flush")
        /\ UNCHANGED <<users, minted, expireat, now, clock, late, suspect, revoked>>

\* delete_user and reset_user_token: load the row; the key goes next.
LoadForRemoval(a) ==
    \E u \in User, h \in {"delete_user", "reset_user_token"} :
        /\ users[u] # NoRow
        /\ Start(a, [handler |-> h, id |-> u, body |-> NoChange,
                     row |-> users[u], old |-> users[u].token], "del")
        /\ UNCHANGED <<users, minted, expireat, now, clock, late, suspect, revoked>>

\* delete_user_active_key.
DeleteKey(a) ==
    /\ apc[a] = "del"
    /\ expireat' = [expireat EXCEPT ![req[a].old] = 0]
    /\ apc' = [apc EXCEPT ![a] = "flush"]
    /\ UNCHANGED <<users, minted, now, req, clock, late, raced, suspect, revoked>>

\* A flush waits for the transaction that holds the row.
Unlocked(a) ==
    \/ req[a].handler = "update_user" /\ req[a].body = NoChange
    \/ \A b \in Admin \ {a} : Holds(b) => req[b].id # req[a].id

\* db.flush() of create_user and of update_user, whose UPDATE must find the row.
FlushRow(a) ==
    /\ apc[a] = "flush"
    /\ req[a].handler \in {"create_user", "update_user"}
    /\ Unlocked(a)
    /\ req[a].handler = "update_user" /\ req[a].body # NoChange
            => users[req[a].id] # NoRow
    /\ apc' = [apc EXCEPT ![a] = "set"]
    /\ UNCHANGED <<users, minted, expireat, now, req, clock, late, raced, suspect, revoked>>

\* The new token of reset_user_token and the flush of its UPDATE.
FlushToken(a) ==
    /\ apc[a] = "flush"
    /\ req[a].handler = "reset_user_token"
    /\ Unlocked(a)
    /\ users[req[a].id] # NoRow
    /\ \E t \in Token \ minted :
        /\ minted' = minted \cup {t}
        /\ req' = [req EXCEPT ![a].row.token = t]
    /\ apc' = [apc EXCEPT ![a] = "set"]
    /\ UNCHANGED <<users, expireat, now, clock, late, raced, suspect, revoked>>

\* db.delete and its flush; deleting no row is not an error.
FlushDelete(a) ==
    /\ apc[a] = "flush"
    /\ req[a].handler = "delete_user"
    /\ Unlocked(a)
    /\ apc' = [apc EXCEPT ![a] = "commit"]
    /\ UNCHANGED <<users, minted, expireat, now, req, clock, late, raced, suspect, revoked>>

\* set_user_active_key up to its Redis command: now = datetime.now().
ReadClock(a) ==
    /\ apc[a] = "set"
    /\ clock' = [clock EXCEPT ![a] = now]
    /\ apc' = [apc EXCEPT ![a] = "redis"]
    /\ UNCHANGED <<users, minted, expireat, now, req, late, raced, suspect, revoked>>

\* Its SETEX or DEL, at whatever time it reaches Redis, for the TTL of then.
SetKey(a) ==
    LET t == req[a].row.token
        ttl == TTL(req[a].row, clock[a])
    IN  /\ apc[a] = "redis"
        /\ ~SetexFails(req[a].row, clock[a])
        /\ expireat' = [expireat EXCEPT ![t] = IF ttl = 0 THEN 0 ELSE now + ttl]
        /\ late' = [late EXCEPT ![t] = IF ttl = 0 THEN 0 ELSE now - clock[a]]
        /\ clock' = [clock EXCEPT ![a] = 0]
        /\ apc' = [apc EXCEPT ![a] = "commit"]
        /\ UNCHANGED <<users, minted, now, req, raced, suspect, revoked>>

\* The users table once request r commits.
Effect(r) ==
    CASE r.handler = "create_user" -> [users EXCEPT ![r.id] = r.row]
      [] r.handler = "update_user" ->
            IF r.body = NoChange THEN users
            ELSE [users EXCEPT ![r.id] = Patched(@, r.body)]
      [] r.handler = "delete_user" -> [users EXCEPT ![r.id] = NoRow]
      [] r.handler = "reset_user_token" -> [users EXCEPT ![r.id].token = r.row.token]

Finish(a) ==
    /\ apc' = [apc EXCEPT ![a] = "idle"]
    /\ req' = [req EXCEPT ![a] = NoRequest]
    /\ clock' = [clock EXCEPT ![a] = 0]
    /\ raced' = [raced EXCEPT ![a] = FALSE]
    /\ UNCHANGED <<minted, expireat, now, late>>

\* db.refresh, which must find the row, and get_db's commit.
Commit(a) ==
    /\ apc[a] = "commit"
    /\ req[a].handler = "update_user" => users[req[a].id] # NoRow
    /\ users' = Effect(req[a])
    /\ suspect' = IF raced[a] THEN suspect \cup TokensOf(req[a])
                              ELSE suspect \ TokensOf(req[a])
    /\ revoked' = IF req[a].handler = "reset_user_token"
                  THEN revoked \cup {req[a].old} ELSE revoked
    /\ Finish(a)

\* The request has written to Redis.
Acted(a) ==
    \/ apc[a] = "commit"
    \/ apc[a] \in {"flush", "set", "redis"} /\ req[a].handler \in {"delete_user", "reset_user_token"}

\* Any failure on the way, or the death of the worker: the transaction is
\* rolled back and the keys stay as they are.
RollBack(a) ==
    /\ apc[a] # "idle"
    /\ suspect' = IF Acted(a) THEN suspect \cup TokensOf(req[a]) ELSE suspect
    /\ UNCHANGED <<users, revoked>>
    /\ Finish(a)

Tick ==
    /\ now < MaxTime
    /\ now' = now + 1
    /\ UNCHANGED <<users, minted, expireat, apc, req, clock, late, raced, suspect, revoked>>

-----------------------------------------------------------------------------
AdminStep(a) ==
    DeleteKey(a) \/ FlushRow(a) \/ FlushToken(a) \/ FlushDelete(a)
    \/ ReadClock(a) \/ SetKey(a) \/ Commit(a) \/ RollBack(a)

Next ==
    \/ \E a \in Admin : CreateUser(a) \/ LoadForUpdate(a) \/ LoadForRemoval(a) \/ AdminStep(a)
    \/ Tick

Spec == Init /\ [][Next]_vars

-----------------------------------------------------------------------------
\* Properties.

\* Every variable keeps its type; no two users share a token.
TypeOK ==
    /\ users \in [User -> UserRow \cup {NoRow}]
    /\ minted \subseteq Token
    /\ \A u \in User : users[u] # NoRow => users[u].token \in minted
    /\ \A u, v \in User : users[u] # NoRow /\ users[v] # NoRow /\ u # v
            => users[u].token # users[v].token
    /\ expireat \in [Token -> Nat]
    /\ now \in Nat
    /\ apc \in [Admin -> {"idle", "del", "flush", "set", "redis", "commit"}]
    /\ req \in [Admin -> Request \cup {NoRequest}]
    /\ \A a \in Admin : (apc[a] = "idle") <=> (req[a] = NoRequest)
    /\ clock \in [Admin -> Nat] /\ \A a \in Admin : clock[a] <= now
    /\ late \in [Token -> Nat]
    /\ raced \in [Admin -> BOOLEAN]
    /\ suspect \subseteq Token
    /\ revoked \subseteq Token

\* No request is at work on the token, and the last one to handle it neither
\* overlapped another request for its user nor failed half-way.
Settled(t) ==
    /\ t \notin suspect
    /\ \A a \in Admin : apc[a] # "idle" => t \notin TokensOf(req[a])

\* The subscription of t has not ended, or only since the key's last command
\* was computed: the TTL counts from the time the command reached Redis.
Entitled(t) ==
    \E u \in User :
        /\ users[u] # NoRow
        /\ users[u].token = t
        /\ users[u].is_active
        /\ \/ users[u].subscription_expires_at = Never
           \/ users[u].subscription_expires_at + late[t] > now

\* The kill switch: the key of a settled token is on only for the current
\* token of an active user whose subscription has not ended.  It is off for a
\* deactivated or deleted user and for a replaced token, and it outlives the
\* subscription at most by the time that its last SETEX was under way
\* (set_user_active_key, delete_user_active_key).
KillSwitch == \A t \in Token : Settled(t) /\ Live(t) => Entitled(t)

\* The other way round: a user who paid up to a date is not locked out early.
\* The key of a settled token lasts up to the last whole second before the end
\* of the subscription (the truncation of the TTL in set_user_active_key).
NoEarlyLockout ==
    \A u \in User :
        /\ users[u] # NoRow
        /\ Settled(users[u].token)
        /\ users[u].is_active
        /\ users[u].subscription_expires_at # Never
        /\ users[u].subscription_expires_at - TicksPerSecond >= now
        => Live(users[u].token)

\* api/admin.py, reset_user_token: "Old token's active key and cached config
\* are deleted."  Then no replaced token has a key once nothing is in progress.
OldTokenRevoked ==
    (\A a \in Admin : apc[a] = "idle") => \A t \in revoked : ~Live(t)

\* services/builder.py: a user without an expiry date is kept "active with 24h
\* rolling TTL".  Then the key of such a user never lapses by itself.
RollingTTL ==
    \A u \in User :
        /\ users[u] # NoRow
        /\ Settled(users[u].token)
        /\ users[u].is_active
        /\ users[u].subscription_expires_at = Never
        => Live(users[u].token)

=============================================================================
