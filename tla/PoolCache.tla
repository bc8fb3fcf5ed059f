------------------------------ MODULE PoolCache ------------------------------
(***************************************************************************)
(* The outbound pool cached in Redis under pool:data, the admin handlers   *)
(* that invalidate it and the proxy requests that rebuild it.              *)
(*                                                                         *)
(* Every admin request runs in one database transaction (deps.get_db): the *)
(* handler loads a row, flushes its change, bumps pool:version and deletes *)
(* pool:data, and only after it has returned does get_db commit.  Every    *)
(* proxy request that misses pool:data reads the subscriptions, then the   *)
(* filter rules, in two READ COMMITTED statements and stores the result.   *)
(* The service runs two uvicorn workers over one Redis and one Postgres,   *)
(* so all of these steps interleave.                                       *)
(*                                                                         *)
(* A cache hit changes nothing and has no action.  Health scores depend on *)
(* the wall clock and DNS answers on the network: both are fixed here (the *)
(* scores are modelled by PoolSelect).                                     *)
(***************************************************************************)
EXTENDS Integers, FiniteSets

CONSTANTS
    Sub, Group, Rule,        \* primary keys of the three tables
    Content,                 \* values of outbounds_json; NoOutbounds is one
    Pattern,                 \* (action, pattern) pairs of filter rules
    Admin, Client,           \* concurrent admin and proxy requests
    MaxVersion,              \* bound on pool:version, i.e. on bumping requests
    NoRow, NoGroup, NoOutbounds, NoPool, NoRequest,
    None                     \* a PATCH field that is absent (exclude_none)

VARIABLES
    db,         \* the committed tables
    version,    \* Redis pool:version
    pool,       \* Redis pool:data, or NoPool
    apc, req,   \* each admin request: next step and what it asks for
    cpc, built, \* each rebuilding proxy request: next step and what it read
    raced,      \* history: a commit happened since the rebuild began
    poolRaced   \* history: the rebuild that stored pool raced a transaction

adminVars  == <<apc, req>>
clientVars == <<cpc, built, raced>>
vars == <<db, version, pool, apc, req, cpc, built, raced, poolRaced>>

-----------------------------------------------------------------------------
\* Rows, requests and the pool.

SubRow == [is_active: BOOLEAN, group_id: Group \cup {NoGroup},
           outbounds_json: Content]

\* ProviderSubUpdate; refresh_provider_sub writes outbounds_json instead.
SubBody == [is_active: BOOLEAN \cup {None}, group_id: Group \cup {None},
            outbounds_json: {None}]

RefreshBody == [is_active: {None}, group_id: {None},
                outbounds_json: Content \cup {None}]

RuleRow == [is_active: BOOLEAN, pattern: Pattern]

RuleBody == [is_active: BOOLEAN \cup {None}, pattern: Pattern \cup {None}]

Database == [subs: [Sub -> SubRow \cup {NoRow}], groups: SUBSET Group,
             rules: [Rule -> RuleRow \cup {NoRow}]]

Request ==
    [handler: {"create_provider_sub"}, id: Sub,
     row: {row \in SubRow : row.is_active}]
    \cup [handler: {"update_provider_sub"}, id: Sub, body: SubBody]
    \cup [handler: {"refresh_provider_sub"}, id: Sub, body: RefreshBody]
    \cup [handler: {"delete_provider_sub"}, id: Sub]
    \cup [handler: {"create_subscription_group", "delete_subscription_group"},
          id: Group]
    \cup [handler: {"create_filter_rule"}, id: Rule, row: RuleRow]
    \cup [handler: {"update_filter_rule"}, id: Rule, body: RuleBody]
    \cup [handler: {"delete_filter_rule"}, id: Rule]

\* Entries of the pool: the outbounds of one subscription, with the ids that
\* _build_pool embeds in them.
Entry == [sub_id: Sub, group_id: Group \cup {NoGroup}, outbounds: Content]

Pool == [entries: SUBSET Entry, patterns: SUBSET Pattern]

EmptyPool == [entries |-> {}, patterns |-> {}]

ASSUME ConstantsAssumption ==
    /\ MaxVersion \in Nat
    /\ NoOutbounds \in Content
    /\ NoGroup \notin Group
    /\ NoRow \notin SubRow \cup RuleRow
    /\ NoPool \notin Pool
    /\ NoRequest \notin Request
    /\ Sub \cap Group = {} /\ Sub \cap Rule = {} /\ Group \cap Rule = {}
    /\ None \notin Content \cup Group \cup {NoGroup} \cup BOOLEAN \cup Pattern

\* get_all_active_subs and the outbounds_json test of _build_pool.
EntriesOf(d) ==
    {[sub_id |-> s, group_id |-> d.subs[s].group_id,
      outbounds |-> d.subs[s].outbounds_json] :
        s \in {x \in Sub : /\ d.subs[x] # NoRow
                           /\ d.subs[x].is_active
                           /\ d.subs[x].outbounds_json # NoOutbounds}}

\* _load_filter_state: the active rules.
PatternsOf(d) ==
    {d.rules[r].pattern : r \in {x \in Rule : /\ d.rules[x] # NoRow
                                              /\ d.rules[x].is_active}}

\* What a rebuild that nothing interferes with would store.
PoolOf(d) == [entries |-> EntriesOf(d), patterns |-> PatternsOf(d)]

-----------------------------------------------------------------------------
\* What the handlers do to the tables.

Or(new, old) == IF new = None THEN old ELSE new

PatchedSub(row, body) ==
    [is_active |-> Or(body.is_active, row.is_active),
     group_id |-> Or(body.group_id, row.group_id),
     outbounds_json |-> Or(body.outbounds_json, row.outbounds_json)]

PatchedRule(row, body) ==
    [is_active |-> Or(body.is_active, row.is_active),
     pattern |-> Or(body.pattern, row.pattern)]

\* A faulty variant: the foreign key without ON DELETE SET NULL.
UngroupedLeavesIds(subs, g) == subs

\* ON DELETE SET NULL of provider_subscriptions.group_id.
Ungrouped(subs, g) ==
    [s \in Sub |-> IF subs[s] # NoRow /\ subs[s].group_id = g
                   THEN [subs[s] EXCEPT !.group_id = NoGroup] ELSE subs[s]]

\* The tables once the transaction of request r commits.
Effect(r, d) ==
    CASE r.handler = "create_provider_sub" ->
            [d EXCEPT !.subs[r.id] = r.row]
      [] r.handler \in {"update_provider_sub", "refresh_provider_sub"} ->
            [d EXCEPT !.subs[r.id] = PatchedSub(@, r.body)]
      [] r.handler = "delete_provider_sub" ->
            [d EXCEPT !.subs[r.id] = NoRow]
      [] r.handler = "create_subscription_group" ->
            [d EXCEPT !.groups = @ \cup {r.id}]
      [] r.handler = "delete_subscription_group" ->
            [d EXCEPT !.groups = @ \ {r.id}, !.subs = Ungrouped(@, r.id)]
      [] r.handler = "create_filter_rule" ->
            [d EXCEPT !.rules[r.id] = r.row]
      [] r.handler = "update_filter_rule" ->
            [d EXCEPT !.rules[r.id] = PatchedRule(@, r.body)]
      [] r.handler = "delete_filter_rule" ->
            [d EXCEPT !.rules[r.id] = NoRow]

\* A faulty variant: the group handlers, whose table is not read by a rebuild,
\* are taken not to affect the pool.
BumpsExceptGroups(r) ==
    r.handler \notin {"create_subscription_group", "delete_subscription_group"}

\* The handlers that call increment_pool_version.
Bumps(r) == r.handler # "create_subscription_group"

\* The UPDATE names the columns whose value differs from the loaded row, so a
\* body is taken with its other fields left out.
OnlyChanges(row, body) == \A f \in DOMAIN body : body[f] # row[f]

\* Primary keys are fresh uuids: no request in flight holds the key of a row
\* about to be created.
FreshKey(k) == \A a \in Admin : req[a] # NoRequest => req[a].id # k

\* What the handler's SELECT must find (404 otherwise), and the "changed" test
\* of the two PATCH handlers on the row it loaded.
Accepts(r, d) ==
    CASE r.handler = "create_provider_sub" ->
            d.subs[r.id] = NoRow /\ FreshKey(r.id)
      [] r.handler = "update_provider_sub" ->
            /\ d.subs[r.id] # NoRow
            /\ OnlyChanges(d.subs[r.id], r.body)
            /\ PatchedSub(d.subs[r.id], r.body) # d.subs[r.id]
      [] r.handler = "refresh_provider_sub" ->
            d.subs[r.id] # NoRow /\ OnlyChanges(d.subs[r.id], r.body)
      [] r.handler = "delete_provider_sub" ->
            d.subs[r.id] # NoRow
      [] r.handler = "create_subscription_group" ->
            r.id \notin d.groups /\ FreshKey(r.id)
      [] r.handler = "delete_subscription_group" ->
            r.id \in d.groups
      [] r.handler = "create_filter_rule" ->
            d.rules[r.id] = NoRow /\ FreshKey(r.id)
      [] r.handler = "update_filter_rule" ->
            /\ d.rules[r.id] # NoRow
            /\ OnlyChanges(d.rules[r.id], r.body)
            /\ PatchedRule(d.rules[r.id], r.body) # d.rules[r.id]
      [] r.handler = "delete_filter_rule" ->
            d.rules[r.id] # NoRow

\* The group a request writes into a group_id column, if any.
Refs(r) ==
    CASE r.handler = "create_provider_sub" -> {r.row.group_id} \ {NoGroup}
      [] r.handler = "update_provider_sub" -> {r.body.group_id} \ {None}
      [] OTHER -> {}

\* Row locks the flushed statement holds until commit: the row itself, and the
\* rows that ON DELETE SET NULL rewrites.
Locks(r, d) ==
    {r.id} \cup
    (IF r.handler = "delete_subscription_group"
     THEN {s \in Sub : d.subs[s] # NoRow /\ d.subs[s].group_id = r.id} ELSE {})

Conflict(p, q, d) ==
    \/ Locks(p, d) \cap (Locks(q, d) \cup Refs(q)) # {}
    \/ Refs(p) \cap Locks(q, d) # {}

\* The statement of a has been executed and its transaction is still open.
Flushed(a) == apc[a] \in {"incr", "del", "commit"}

\* A flush waits while another transaction holds a row it writes or refers to.
Blocked(a) == \E b \in Admin \ {a} : Flushed(b) /\ Conflict(req[a], req[b], db)

\* An UPDATE of a row that is gone raises StaleDataError, a reference to a
\* group that is gone raises IntegrityError; a DELETE of no row is fine.
Flushable(r, d) ==
    /\ r.handler \in {"update_provider_sub", "refresh_provider_sub"}
            => d.subs[r.id] # NoRow
    /\ r.handler = "update_filter_rule" => d.rules[r.id] # NoRow
    /\ Refs(r) \subseteq d.groups

-----------------------------------------------------------------------------
\* The foreign key provider_subscriptions.group_id.
GroupsExist(d) ==
    \A s \in Sub : d.subs[s] # NoRow =>
        d.subs[s].group_id \in d.groups \cup {NoGroup}

\* The service starts over whatever an earlier one left in Postgres.
Init ==
    /\ db \in {d \in Database : GroupsExist(d)}
    /\ version = 0
    /\ pool = NoPool
    /\ apc = [a \in Admin |-> "idle"]
    /\ req = [a \in Admin |-> NoRequest]
    /\ cpc = [c \in Client |-> "idle"]
    /\ built = [c \in Client |-> EmptyPool]
    /\ raced = [c \in Client |-> FALSE]
    /\ poolRaced = FALSE

-----------------------------------------------------------------------------
\* Admin requests.

\* The handler has validated its body and loaded its row; it will flush.
\* MaxVersion bounds the requests that can still bump the version.
Load(a, r) ==
    /\ apc[a] = "idle"
    /\ Accepts(r, db)
    /\ version + Cardinality({b \in Admin : apc[b] \in {"flush", "incr"}}) < MaxVersion
    /\ apc' = [apc EXCEPT ![a] = "flush"]
    /\ req' = [req EXCEPT ![a] = r]
    /\ UNCHANGED <<db, version, pool, clientVars, poolRaced>>

\* db.flush(): the statement reaches Postgres and takes its row locks.
Flush(a) ==
    /\ apc[a] = "flush"
    /\ ~Blocked(a)
    /\ Flushable(req[a], db)
    /\ apc' = [apc EXCEPT ![a] = IF Bumps(req[a]) THEN "incr" ELSE "commit"]
    /\ UNCHANGED <<db, version, pool, req, clientVars, poolRaced>>

\* increment_pool_version, first Redis call.
IncrVersion(a) ==
    /\ apc[a] = "incr"
    /\ version' = version + 1
    /\ apc' = [apc EXCEPT ![a] = "del"]
    /\ UNCHANGED <<db, pool, req, clientVars, poolRaced>>

\* increment_pool_version, second Redis call.
DelPool(a) ==
    /\ apc[a] = "del"
    /\ pool' = NoPool
    /\ poolRaced' = FALSE
    /\ apc' = [apc EXCEPT ![a] = "commit"]
    /\ UNCHANGED <<db, version, req, clientVars>>

\* get_db, after the handler returned.
Commit(a) ==
    /\ apc[a] = "commit"
    /\ db' = Effect(req[a], db)
    /\ apc' = [apc EXCEPT ![a] = "idle"]
    /\ req' = [req EXCEPT ![a] = NoRequest]
    /\ raced' = [c \in Client |->
                    cpc[c] # "idle" /\ (raced[c] \/ Bumps(req[a]))]
    /\ UNCHANGED <<version, pool, cpc, built, poolRaced>>

\* A faulty variant: get_db commits although the handler has raised.
CommitAnyway(a) ==
    /\ Flushed(a)
    /\ db' = Effect(req[a], db)
    /\ apc' = [apc EXCEPT ![a] = "idle"]
    /\ req' = [req EXCEPT ![a] = NoRequest]
    /\ raced' = [c \in Client |->
                    cpc[c] # "idle" /\ (raced[c] \/ Bumps(req[a]))]
    /\ UNCHANGED <<version, pool, cpc, built, poolRaced>>

\* get_db's except branch and the death of the worker: a failed provider fetch,
\* flush, Redis call or commit, at any point.  Redis keeps what was done to it.
RollBack(a) ==
    /\ apc[a] # "idle"
    /\ apc' = [apc EXCEPT ![a] = "idle"]
    /\ req' = [req EXCEPT ![a] = NoRequest]
    /\ UNCHANGED <<db, version, pool, clientVars, poolRaced>>

-----------------------------------------------------------------------------
\* Proxy requests.

\* get_cached_pool finds nothing.
MissPool(c) ==
    /\ cpc[c] = "idle"
    /\ pool = NoPool
    /\ cpc' = [cpc EXCEPT ![c] = "subs"]
    /\ UNCHANGED <<db, version, pool, adminVars, built, raced, poolRaced>>

\* get_all_active_subs, first statement, and _build_pool on its rows.
ReadSubs(c) ==
    /\ cpc[c] = "subs"
    /\ built' = [built EXCEPT ![c].entries = EntriesOf(db)]
    /\ cpc' = [cpc EXCEPT ![c] = "rules"]
    /\ UNCHANGED <<db, version, pool, adminVars, raced, poolRaced>>

\* apply_address_filters, second statement and the filtering.
ReadRules(c) ==
    /\ cpc[c] = "rules"
    /\ built' = [built EXCEPT ![c].patterns = PatternsOf(db)]
    /\ cpc' = [cpc EXCEPT ![c] = "set"]
    /\ UNCHANGED <<db, version, pool, adminVars, raced, poolRaced>>

\* A rebuild that ends now was raced if a commit came in between, or if some
\* transaction has already deleted pool:data and has yet to commit.
RacesTransaction(c) ==
    raced[c] \/ \E a \in Admin : apc[a] = "commit" /\ Bumps(req[a])

\* set_cached_pool.
SetCachedPool(c) ==
    /\ cpc[c] = "set"
    /\ pool' = built[c]
    /\ poolRaced' = RacesTransaction(c)
    /\ cpc' = [cpc EXCEPT ![c] = "idle"]
    /\ built' = [built EXCEPT ![c] = EmptyPool]
    /\ raced' = [raced EXCEPT ![c] = FALSE]
    /\ UNCHANGED <<db, version, adminVars>>

\* The rebuild fails or its worker dies; proxy_all swallows the exception.
AbandonRebuild(c) ==
    /\ cpc[c] # "idle"
    /\ cpc' = [cpc EXCEPT ![c] = "idle"]
    /\ built' = [built EXCEPT ![c] = EmptyPool]
    /\ raced' = [raced EXCEPT ![c] = FALSE]
    /\ UNCHANGED <<db, version, pool, adminVars, poolRaced>>

\* A faulty variant: pool:data is stored with SET, without a TTL.
NeverExpires == FALSE

\* POOL_CACHE_TTL runs out.
ExpirePool ==
    /\ pool # NoPool
    /\ pool' = NoPool
    /\ poolRaced' = FALSE
    /\ UNCHANGED <<db, version, adminVars, clientVars>>

-----------------------------------------------------------------------------
AdminStep(a) ==
    Flush(a) \/ IncrVersion(a) \/ DelPool(a) \/ Commit(a) \/ RollBack(a)

RebuildStep(c) ==
    ReadSubs(c) \/ ReadRules(c) \/ SetCachedPool(c) \/ AbandonRebuild(c)

Next ==
    \/ \E a \in Admin : (\E r \in Request : Load(a, r)) \/ AdminStep(a)
    \/ \E c \in Client : MissPool(c) \/ RebuildStep(c)
    \/ ExpirePool

Spec == Init /\ [][Next]_vars

\* A request that started ends, one way or the other, and a TTL runs out.
\* Nothing is assumed about requests arriving.  That no call to Postgres or
\* Redis hangs is an assumption, since none has a timeout.
Fairness ==
    /\ \A a \in Admin : WF_vars(AdminStep(a))
    /\ \A c \in Client : WF_vars(RebuildStep(c))
    /\ WF_vars(ExpirePool)

FairSpec == Spec /\ Fairness

-----------------------------------------------------------------------------
\* Properties.

\* Every variable keeps its type, rows refer to existing groups only, and a
\* request is recorded exactly while its handler runs.
TypeOK ==
    /\ db \in Database
    /\ GroupsExist(db)
    /\ version \in Nat
    /\ pool \in Pool \cup {NoPool}
    /\ apc \in [Admin -> {"idle", "flush", "incr", "del", "commit"}]
    /\ req \in [Admin -> Request \cup {NoRequest}]
    /\ \A a \in Admin : (apc[a] = "idle") <=> (req[a] = NoRequest)
    /\ cpc \in [Client -> {"idle", "subs", "rules", "set"}]
    /\ built \in [Client -> Pool]
    /\ raced \in [Client -> BOOLEAN]
    /\ poolRaced \in BOOLEAN

Fresh == pool = NoPool \/ pool = PoolOf(db)

\* The strongest thing the code does promise about a cached pool: pool:data
\* differs from what the committed tables call for only if the rebuild that
\* stored it raced a transaction (a commit fell into the rebuild, or the
\* rebuild ended between a transaction's DEL and its commit).  In particular
\* no handler forgets to invalidate and no crash or rollback leaves a stale
\* pool behind (increment_pool_version in every pool-affecting handler).
StaleOnlyFromRace == poolRaced \/ Fresh

\* Whatever was raced, once administration stops the cache is eventually
\* correct for good: the last stale pool runs out with POOL_CACHE_TTL and no
\* rebuild stores another one.
EventuallyFresh == <>[]Fresh

\* docs/API_REFERENCE.md: a change "instantly invalidates" what is cached,
\* "ensuring clients get updated nodes without waiting for TTL".  With no
\* admin request in progress, a cached pool would then be the current one.
InstantInvalidation == (\A a \in Admin : apc[a] = "idle") => Fresh

\* Requests that have deleted pool:data and have yet to commit.
Announced == {a \in Admin : apc[a] = "commit" /\ Bumps(req[a])}

Readers == [c \in Client |-> IF cpc[c] = "idle" THEN "idle"
                             ELSE IF raced[c] THEN "overtaken" ELSE "clean"]

Protocol == INSTANCE InvalidationProtocol
    WITH Writer <- Admin, Reader <- Client, Value <- Pool, Nothing <- NoPool,
         truth <- PoolOf(db), cached <- pool, doubt <- poolRaced,
         announced <- Announced, reader <- Readers

\* The handlers with their locks and failures, and the rebuilds with their two
\* reads, amount to an invalidation protocol: what the tables call for changes
\* only by the commit of a request that has deleted pool:data, and a rebuild
\* that overlaps no such request stores what the tables call for
\* (increment_pool_version, get_db, get_or_build_pool).
FollowsProtocol == Protocol!Spec

=============================================================================
