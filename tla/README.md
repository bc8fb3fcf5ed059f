# Verification of the VPN subscription manager

TLA+ models of the FastAPI service in `src/app`, checked with TLC on small
instances and, where it matters most, proved with TLAPS for every instance.
`PROJECT.json` lists the runs, the definitions with the lines they model, the
hazards and the theorems.

## The system

Two uvicorn workers (`src/Dockerfile`) over one PostgreSQL and one Redis.

| part | code | state | operations |
|---|---|---|---|
| Admin API | `app/api/admin.py`, `app/deps.py` | the tables `provider_subscriptions`, `subscription_groups`, `address_filter_rules`, `users` | create, update, delete of each; refresh of a subscription; reset of a token. One transaction per request, committed by `get_db` after the handler returned |
| Pool | `app/services/pool.py`, `address_filter.py` | Redis `pool:version`, `pool:data` (TTL 1 h) | `increment_pool_version`, `get_or_build_pool`, `select_user_outbounds` |
| Active keys | `app/services/builder.py` | Redis `sub:active:{token}` | `set_user_active_key`, `delete_user_active_key` |
| Config cache | `app/services/builder.py` | Redis `config:{user}:{version}` | `build_user_config` (no route calls it), `invalidate_user_config` |
| Provider fetch | `app/services/provider.py` | columns of `provider_subscriptions` | `refresh_provider_sub`: fetch with up to five User-Agents, parse, update |
| Proxy route | `app/api/client.py`, `app/services/middleware.py` | none of its own | fetch the upstream config, get the pool, select, inject |
| Header cache | `app/services/middleware.py` | a dict per worker | `resolve_bot_headers` over the Remnawave and the bot database |
| Title middleware | `title_middleware.py` | its own dict | a stand-alone proxy that resolves the same headers under a time limit |
| Parser | `app/parser.py` | none | formats, URI schemes, sing-box and xray documents, `_dedup_tags`; `match_address` for the filter rules |

How they interact: an admin handler writes Postgres, then Redis, and only
afterwards does its transaction commit. A proxy request reads Redis, on a miss
reads Postgres in two statements, and writes Redis. So the two stores can
disagree in between, in every order of the steps of concurrent requests, and
after every failure: nothing rolls Redis back.

What is hard here:

* **Interleaving.** The invalidation comes before the commit. A rebuild may read
  old tables before the commit and store its pool after the DEL.
* **Atomicity.** Subscriptions and rules are two READ COMMITTED statements.
* **Failures.** A handler can fail, or its worker die, after any step.
* **Row locks.** Nothing is locked when a row is loaded, only when it is
  flushed; an ORM object may be stale when its fields are written to Redis.
* **Time.** TTLs are whole seconds, truncated; nothing renews a key.
* **Slow calls in between.** A refresh reads its row, asks a provider up to five
  times, and writes what it computed from the old row; a title is read from two
  databases. Almost nothing has a time limit as a whole: `FETCH_TIMEOUT` is one per
  connect and per read, and Postgres and Redis are called without any.
* **Boundaries.** Health thresholds, slices that wrap, groups of one or many.
* **Guessing.** The format of a provider's answer is guessed, in three dialects
  with several names for everything; what is not understood is dropped silently.

## Modules

| module | models | composed of |
|---|---|---|
| `InvalidationProtocol` | what invalidating a cache before a change promises (abstract) | |
| `PoolCache` | the admin handlers that affect the pool, the invalidation, the rebuild | implements `InvalidationProtocol` |
| `UserKeys` | the four user handlers and the active keys | |
| `Lists` | Python's conditional list comprehension, in a form that can be reasoned about | |
| `PoolSelect` | what a rebuild and a selection compute | uses `Lists` |
| `FallbackChains` | what `inject_outbounds` promises (abstract) | |
| `InjectOutbounds` | `inject_outbounds` and its helpers | uses `Lists`, implements `FallbackChains` |
| `ProviderRefresh` | one subscription row while requests create, refresh, edit and delete it | takes a parsed list as given; `PoolCache` has the pool's side of the same requests |
| `SubscriptionParser` | from a provider's answer to the stored outbounds | uses `Lists`; what `ProviderRefresh` calls a list |
| `HeaderCache` | the header cache of a worker, and the two routes around it | |
| `PoolCacheProofs`, `UserKeysProofs`, `PoolSelectProofs`, `ProviderRefreshProofs`, `HeaderCacheProofs`, `InjectOutboundsProofs`, `SubscriptionParserProofs` | theorems about the module of that name | each extends its module and `TLAPS` |
| `SequenceLemmas` | lemmas about `FlattenSeq`, `Where`, `Filter`, `Min`, ranks and remainders | used by `PoolSelectProofs`, `InjectOutboundsProofs` and `SubscriptionParserProofs` |
| `MC...` | constants of each for TLC | extends the module |

### PoolCache

`db` is the committed database, `version` and `pool` are the two Redis keys.
An admin request `a` is a step counter `apc[a]` and what it asks for, `req[a]`:

| action | code |
|---|---|
| `Load` | the handler has looked its row up and built its change (404 or an unchanged PATCH never start) |
| `Flush` | `db.flush()`: waits for the row locks of other flushed requests, then takes its own; a vanished row or group fails it |
| `IncrVersion`, `DelPool` | the two Redis calls of `increment_pool_version`, separately |
| `Commit` | `get_db` after the handler |
| `RollBack` | any failure or the death of the worker, at any step |

A proxy request `c` goes through `MissPool`, `ReadSubs`, `ReadRules`,
`SetCachedPool`, or gives up in `AbandonRebuild` (`proxy_all` swallows the
exception). `ExpirePool` is the TTL. A cache hit changes nothing.

The pool is abstracted to the entries of each active subscription (its id, its
group and its outbounds) and the patterns that filter them: two pools are equal
exactly if they were built from the same data. Health scores and DNS answers,
which depend on the clock and the network, are left to `PoolSelect`.

`raced` and `poolRaced` are history variables: they record that a commit fell
into a rebuild, or that a rebuild ended between a transaction's DEL and its
commit. No guard reads them.

`InvalidationProtocol` is the abstract specification: a writer announces a change,
which empties the cache, and then makes or withdraws it; readers fill an empty
cache. It knows no tables, locks, versions or kinds of request. `FollowsProtocol` says
that `PoolCache` implements it. The refinement mapping: the `truth` is what the
committed tables call for (`PoolOf(db)`), the cached value is `pool`, and its
`doubt` is `poolRaced`; `Announced` are the requests that have deleted `pool:data`
and not yet committed; a client in its rebuild is `clean` or, if `raced`,
`overtaken`. The step at which a change is announced is `DelPool`, not
`IncrVersion`; a commit of a request that does not bump must leave the truth alone, which is
why a handler that forgets to invalidate breaks the refinement.

### UserKeys

`users` is the committed table, `expireat` says when the key of each token runs
out. A request carries the `User` object it loaded (`req[a].row`), because the
handlers write Redis from that object and not from the table. `set_user_active_key`
is two steps: `ReadClock` takes `datetime.now` into `clock[a]`, and `SetKey` is the Redis
command, with the TTL computed from that clock (`TTL`, the four cases) and counted
by Redis from the moment the command comes. Time counts ticks, of which
`TicksPerSecond` make the second SETEX counts in, so that the truncation shows; the
history variable `late` is the time between the two steps. A token is *settled* if no request is at work on it and the last one that was
neither overlapped another one for its user nor failed after writing to Redis
(the history variables `raced` and `suspect`).

### PoolSelect

A request reads its input (`Init`), builds the pool (`Build`), applies the
rules (`ApplyAddressFilters`), keeps the result in the cache for up to
`POOL_CACHE_TTL` (`Keep`) and selects for a token (`SelectUserOutbounds`).
The operators follow the functions of the code. An outbound is the set of its
addresses, a pattern the set of addresses it matches, a resolver a function
from names to sets of addresses (the empty one is a failure), MD5 an arbitrary
function. Scores are exact fractions where the code has floats; the enumerated
values at the threshold are exact in both. Totals and used traffic are any numbers, as the
schemas allow, negative ones too.

`Where` is what Python's `[x for x in list if ...]` keeps, by place. `Round` is one
pass of the inner loop of the round-robin merge, and the places of a group
(`OfKey`) stand for its list in the dict `groups`.

### InjectOutbounds

The function that spreads a user's outbounds over the upstream configuration and
over reserve configurations (`app/services/middleware.py`). Its variables are the function's
locals: `upstream` (`original_configs`), `ours` (`our_outbounds`), `configs`
(`final_configs`), `idx`, `current` (`res_config`), `s`, `loopRules`, and `stage`,
where the function is:

| action | code |
|---|---|
| `ReturnUpstream` | an empty answer, or one the function raises on; `proxy_all` passes the answer on |
| `InjectMain` | phase 1: `balancer-fb3`, `loopback-4`, `proxy-fb4-our` |
| `OpenReserve` | the head of the `while`: a cleaned copy of the first configuration |
| `InjectNext` | one slot of the `for` loop, with a fallback or as the chain's end |
| `CloseReserve` | the loop rules go first, the three helpers tidy up |
| `Return` | no outbound is left |

A tag is a name and a number, a missing JSON key is `Null`, and `routing` says
whether the routing object exists: `config.get("routing", {})` hands out a
throw-away object otherwise, so everything written to it is lost (`Routed`).
`WellFormed` says that tags are unique and references resolve, and `StaysWellFormed` that this
stays so. That a loopback has a rule is another matter (`LoopbacksHaveRules`): without
routing or rules the function appends `loopback-4` or `loopback-1` and writes its rule to
an object that is thrown away, so that the property says exactly where the rules are
there (`RulesAreKept`).
`Walk` is not code of this repository: it is how xray reads a configuration, from
`balancer-top` along fallbacks, loopbacks and rules, and the properties about
chains are stated with it.

A tag's name is one of `Names`, any set that has the names of the code. The upstream
may answer anything of the right types (`Config`): missing keys, tags that occur twice, rules
that lead nowhere. `StaysWellFormed` takes more for granted, and `Compatible` says
what: the tags the function gives are free (`proxy-fb4-our`, `loopback-4` and `balancer-fb3`; in
what a reserve configuration keeps, `proxy-custom-1` to `4` and `loopback-1` to `4`), and
a rule that is kept for the reserve configurations (one without a `loop-tag`) refers to what
is kept there, to `balancer-top`, the three essential outbounds or one that is
`freedom` or `blackhole`. An upstream rule that sends, say, a domain to
`proxy-fb2` breaks this, and the reserve configurations then refer to an outbound they lack.

`ChainsAreWhole` is proved for a first configuration that is `Conventional`: well-formed, compatible,
with a rule for every loopback, with a `balancer-top` that selects `proxy-top`, with loopbacks 1 to 3 at most, one rule each, the third
of them to `proxy-fb3`, and with a walk that ends. It is what the function names
(`proxy-top`, `loop-tag-3`, `balancer-fb3` with the selector `proxy-fb3`) and what `WholeAreConventional`
has TLC evaluate for every whole configuration of the run. It leaves open how the chain gets from
one loopback to the next, which other outbounds, balancers and rules there are, in which order they
are, and whether the chain comes to the third loopback. The run checks `ChainsAreWhole` for the
partial configurations, too, where the theorem says nothing.

`FallbackChains` is the abstract specification: the outbounds are handed out in
order, one to the main configuration and up to four to each reserve, or none at all.
`HandsOutInOrder` says that every step of `InjectOutbounds` is one of it, where
`Served` reads the outbounds handed out from the finished configurations alone
and `Left` are the rest; `HandsOutEveryOutbound` says that none is left in the end.

### ProviderRefresh

`db` is the committed row of one subscription. A request `r` has the row it
loaded (`row[r]`), the columns it has assigned (`new[r]`) and its next step:

| action | code |
|---|---|
| `CreateProviderSub` | the INSERT is flushed, then fetched if `auto_refresh` |
| `RefreshProviderSub`, `UpdateProviderSub`, `DeleteProviderSub` | `_get_sub_or_404`, and what the handler assigns at once |
| `FetchUnavailable` | 5xx: the next User-Agent, or `ConnectionError` after the last |
| `FetchRefused` | 4xx or a network error: `ConnectionError` at once |
| `FetchRaises` | any other exception, among them an expiry that no `datetime` can hold |
| `FetchAnswered` | the assignments of `refresh_provider_sub` |
| `Flush` | the UPDATE or DELETE, once nobody else holds the row's lock; fails on a row that has gone |
| `RedisFails` | `increment_pool_version` raises, `get_db` rolls back |
| `Commit` | `get_db` |
| `Hang` | the call to the provider, Postgres or Redis that the request awaits never ends; its lock, if it has one, stays |

`FetchFails` is where `ConnectionError` ends: in a refresh a 502 and a rollback,
in a create a row without a list. `Changed` is what SQLAlchemy's unit of work
makes of the assignments: an UPDATE names the columns whose value differs from
the one *loaded*, so it neither overwrites other columns nor repairs one that
another request changed and this one did not. The history variable `serial` is the row that
the committed requests would have left one after the other; `torn` are the columns in
which the real one may differ for that reason, `source` is the URL the stored list
was fetched from, and `moved` says that the URL was edited since. No guard reads them.

### SubscriptionParser

A body says what the provider published: in base64 or not, its lines or
configurations and their entries, in one of three dialects (URI lines, sing-box,
xray). The four actions are the stages of `_parse_raw_content`: `Decode`,
`Detect`, `Load` and `Collect`; the operators are the functions they call, under
the source's names without underscores (`_parse_vless_uri` is `ParseVlessUri`). `Info` is an
`OutboundInfo`: `stream.filled` says which of its attributes hold
something, and `StreamSettings` writes only those that
`_outbound_info_to_xray_dict` looks for, so that a name that one side does not
know loses the settings as it does in the code.

An entry's `id` stands for address and credentials, `extra` for the option of its
protocol (flow, alter id, plugin, obfs), `insecure` for the wish to accept any certificate. `form`
says whether host and port are written as `_parse_hostport` expects; in an `odd` form it makes the
whole text the address and the port 0, which `server` shows in the result. `Offered`, `BlindSpot` and `KnownLoss` belong
to the properties, not the model: they say in terms of the *published* document
what is kept, what is lost, and nothing else.

### HeaderCache

One worker and one token (the dictionaries share nothing), in one of two
services. `rw` and `bot` are the two databases, `cache` the entry of the token.
A request steps through `Lookup`, `ReadRw`, `ResumeRw`, `ReadBot` and `ResumeBot`:
a query is a read in the database and, later, the return to the coroutine; it may
fail (`QueryFails`) or never return. In the application `AppUpstream` comes first and
nothing limits the resolution; in `title_middleware` `WaitForTimeout` cancels it and
`TitleUpstream` comes after. `Edit` changes a database, `Tick` is the clock: the
entry's life counts down, and the history variable `age` keeps how long ago each
value was last there. `Lookup` of an entry exactly at its end is still a hit, as in
`time.monotonic() > expires_at`.

## Runs

| run | bounds | shows |
|---|---|---|
| `pool_cache` | 1 subscription, 1 group, 1 rule; 2 admins, 2 clients, 3 bumps | `TypeOK`, `StaleOnlyFromRace` |
| `pool_cache_live` | 2 admins, 1 client, 2 bumps | `EventuallyFresh`, `FollowsProtocol` |
| `pool_cache_instant` | 1 admin, 1 client, 1 bump | `InstantInvalidation` is violated |
| `user_keys` | 1 user, 2 tokens, 2 admins, 1 date, 4 ticks | `TypeOK`, `KillSwitch`, `NoEarlyLockout` |
| `user_keys_reset` | 1 user, 3 tokens, 2 admins, 2 dates, 3 ticks | `OldTokenRevoked` is violated |
| `user_keys_rolling` | the same with 1 admin | `RollingTTL` is violated |
| `pool_select` | up to 3 subscriptions, 1 group, 3 outbounds, 16 tokens | eight properties of one rebuild and selection |
| `pool_select_share` | 3 subscriptions, K = 1 | `EqualShare` is violated |
| `provider_refresh` | 3 requests, 2 URLs, 2 lists, 2 User-Agents, 6 kinds of answer, 2 PATCH bodies | `TypeOK`, `RowIsSerial`, `FetchedFromItsUrl`, `EveryRequestEnds` |
| `subscription` | every scheme, type and protocol alone with every transport and security; up to three entries in a document | `TypeOK`, `EveryOfferIsStored`, `StoredAsMeant`, `TagsApart` |
| `header_cache` | 2 requests, 1 bot, 2 edits, lives of 2 and 1 ticks, a limit of 1 | `TypeOK`, `ServedIsRecent`, `CacheConverges`, `TitleAlwaysAnswers` |
| `inject_outbounds` | 0 to 10 outbounds, chains of 0 to 3 fallbacks | `TypeOK`, `ChainsAreWhole`, `StaysWellFormed`, `BalancedArePinged`, `DefaultIsProxy`, `HandsOutInOrder`, `HandsOutEveryOutbound` |

Why the bounds are enough. In `pool_cache`, every race is between a
transaction and a rebuild; two of each add the races among transactions (row
locks, foreign keys) and of a late rebuild with an early one, and each initial
state is any database, so that three bumps are three arbitrary changes.
The handlers treat rows of a table alike, and a rebuild is a union over them.
The proofs remove the bound for safety. In `user_keys` the handlers of one user
never touch another one's token, and two tokens allow a reset or a
recreation; the clock comes to the date and passes a whole `Day`, two ticks make a
second, and the date is far enough for a key set late to outlive it. `pool_select` has all orders of rows, groupings, list lengths 0 to 3
and every side of the health threshold; digests go up to 3, enough to choose
any of three subscriptions and to wrap. `inject_outbounds` has ten outbounds: the
main configuration, two full reserves and a short one; the upstream's chains are
as long as `balancer-fb3` allows, in both orders of rules and outbounds, with and
without an observatory, and there are answers that lack a key or are empty.
In `provider_refresh` the requests touch one row; three of them are two that
overlap and a third that edits the row between the two, which is what a torn or a moved row needs;
a second User-Agent is enough for a loop with a first, a middle and a last try. The
answers differ in what they make the code assign: nothing but the list, some
limits, all, or an expiry that raises. In `subscription` the entries of a document do
not look at each other, but for tags, the first one (which decides the format) and a
raised exception: single entries have every combination, documents of three
entries every order of those cases. In `header_cache` two resolutions overlap in every way, a
lag of two ticks outlasts either life, and two edits take a row away and bring it back.
`CHECK_DEADLOCK FALSE` is set where the clock and the tokens run out (`UserKeys`),
where a request has its answer (`PoolSelect`, `ProviderRefresh`) and where the
function has returned (`InjectOutbounds`, `SubscriptionParser`); `HeaderCache` and `PoolCache` never deadlock and are checked for it.

Fairness (`FairSpec` of `PoolCache`): a request that started takes its next
step or fails (`WF` on the disjunction: the event loop runs every handler), and a TTL
runs out. That no call hangs is assumed, not justified by the code: a rebuild that hangs
stores nothing, but a transaction that hangs after its UPDATE keeps its row locks. Nothing is assumed about requests
arriving, nor that any particular one succeeds. `Spec` of `InjectOutbounds` has
`WF_vars(Next)`: a synchronous function without a pause runs to its end.
`ProviderRefresh` has weak fairness on each request's fetch, its flush and its end
as long as the request is not `stuck`: nothing makes a call end, since no fetch, no statement and no Redis
command has a limit as a whole. `EveryRequestEnds` then says what the handlers do themselves: the loop over User-Agents
ends, row locks are given back, and only a request that hangs, or waits for the lock of one that does, stays.
That connections run out (30 to Postgres, 20 to Redis, per worker) when many hang is not
modelled. `HeaderCache` has fairness on the clock, on what the event
loop runs and on its timers, and on the upstream call, of which it is assumed that its answer ends (httpx
gives up after 30 s of silence, not on a slow answer); on no
answer of a database, which may hang for good. That a cancelled query gives
control back (asyncpg's cancellation) is part of `WaitForTimeout`.

## What the checks found

* **Invalidation is not instant** (`pool_cache_instant`).
  `increment_pool_version` runs before the commit, so a proxy request in between
  caches the old pool for the whole TTL. `StaleOnlyFromRace` says that this kind
  of race is the *only* way to a stale pool, `EventuallyFresh` that it ends.
* **A reset token can come back** (`user_keys_reset`). An overlapping update
  writes the key of the token it loaded.
* **The 24 h TTL does not roll** (`user_keys_rolling`).
* **Shares are not equal** (`pool_select_share`): groups dilute their members.
  `EqualShareUngrouped` shows that the documented share does hold without them.

Other disagreements between the documents and the code, which no run is about:
`/sub` and `/check` of `docs/API_REFERENCE.md` are not routes of this code (the
catch-all proxy answers them); `/health` is registered after the catch-all and
never reached; the README's offset `int(token[:8], 16)` is an MD5 in the code;
`pool.py:90` says that better subscriptions "appear more frequently", but the
order only decides who comes first in a round; and the TTL of a key is the "seconds until
subscription expiry" (`builder.py:187`, `src/README.md:33`) of the moment it is computed, not of the
one Redis counts from, so that the key outlives the subscription by the time SETEX
was under way (`KillSwitch` states this bound).

**What a refresh loses** (`subscription`). `EveryOfferIsStored` holds with a list of
blind spots, and in each of them the refresh empties the subscription, because an empty
parse is stored like any other:

* a comment in a JSON answer (`json.loads` in the detection refuses it, although
  `_strip_comments` is there for it), and in an xray object a `//` inside a string,
  which `_strip_comments` cuts (`parser.py:1410` says "not inside strings");
* a JSON array in base64, an array of sing-box documents, an array whose first element is no
  configuration;
* a sing-box list that starts with a group (`selector`, `urltest`) or with no object at all instead
  of a server, which is then read as an xray one, or in which one `tls` is not an object: the
  exception discards the whole document.

The schemes `wireguard`, `wg`, `socks` and `socks5` are recognised and skipped. `StoredAsMeant` holds
with a list of losses: `hysteria` v1 and sing-box `wireguard`, `socks` and `http` are stored without
a server (`raw_settings` is empty for them); the settings of `quic`, `kcp` and `httpupgrade`, of
`xhttp` and REALITY in `vmess://`, the plugin of `ss://`, the obfs of `hy2://`, and `alter_id` of sing-box are dropped;
`allowInsecure` is read from `hy2://` only, and then not written back; `ss://method:password@host` is decoded as base64 although it is
plain (contrary to the plain form in the docstring of `_parse_ss_uri`), and the prefix cut from
`shadowsocks://` is that of `ss://`. A host and port that do not end in a colon and a number
(`host:443/` before the query, as hysteria2 and SIP002 links are usually written, a
range of ports, no port) become the address as a whole, with port 0. A `vmess://` payload that cannot be decoded is no offer. Tags of an xray array are neither told apart nor
prefixed in what is stored, since `raw_outbound` is stored.

**What overlapping requests leave** (`provider_refresh`). The row is that of a serial run in commit
order, so that a refresh overwrites the traffic, limit and expiry that a PATCH set during its fetch, though not the URL or
anything else the refresh does not assign. It can also become a mixture of two requests: a PATCH back to a value it had loaded
does not undo a refresh that wrote another one meanwhile (`torn`). A list fetched from an old URL is
stored under a new one, and nothing refetches (`moved`). An expiry in milliseconds makes
`fromtimestamp` raise: a refresh is rolled back with its list, and a create with its row. A header
without `upload` and `download` sets the used traffic to zero.

**Titles** (`header_cache`). A title served is at most its life and the duration of its
reads old, and the reads of the application have no limit: unlike `title_middleware.py`, which sets
`command_timeout` and `wait_for`, `main.py` creates its pools without one, so that a database that hangs keeps
proxied requests waiting although their body is there (`TitleAlwaysAnswers` is about
`title_middleware` alone).

Limits of `inject_outbounds` that the runs leave out on purpose, since no
document promises more: an upstream that already uses `loopback-4` or
`balancer-fb3` gets these tags twice; one without `loop-tag-3` never reaches the
outbound of the main configuration (`ChainsAreWhole` says so: the chain is
extended only where it passes `loop-tag-3`); all but its first configuration are
dropped.

## Proofs

`PoolCacheProofs` proves, for all sets of subscriptions, groups, rules, admins
and clients and every bound on the version, from `ConstantsAssumption` alone:

* `TypeCorrect == Spec => []TypeOK`. `TypeOK` contains the foreign key
  (`GroupsExist`), which is not inductive: between its flush and its commit a
  request refers to a group that another one may delete. The strengthening is
  `TInv == TypeOK /\ LockInv /\ FlushInv`: two flushed requests never conflict
  on a row lock, and what a flushed request needs still exists. `Flush`
  establishes it from `~Blocked`; `Commit` of another request keeps it because
  the two do not conflict.
* `StaleOnlyFromRaceHolds == Spec => []StaleOnlyFromRace`. The strengthening is
  `IInv == TInv /\ ReaderInv /\ CacheInv`: what an unraced rebuild has read so
  far equals what the tables hold now, and a pool that was stored without a
  race is current as long as no bumping transaction stands between its DEL and
  its commit - which has then deleted that pool.

* `FollowsProtocolHolds == Spec => FollowsProtocol`: the refinement. Every step of
  an admin handler maps to `Announce`, `Change`, `Withdraw` or a stutter
  (`AdminMaps`) and every step of a rebuild to `Start`, `Store`, `GiveUp`, `Drop`
  or a stutter (`RebuildMaps`). `IInv` supplies that an unraced rebuild stores the
  truth; `StepInv` adds that no request which does not bump is between the
  two Redis calls, and that an idle client is not raced.

* `CoherentHolds == FollowsProtocol => []Protocol!Coherent`: what the protocol
  alone is worth, from no assumption and no invariant of the handlers: a cached
  pool is the current one or in doubt. With the refinement this is a second way to
  `StaleOnlyFromRace`, which uses nothing of the tables but that commits change them.

`UserKeysProofs` proves, for all sets of users, tokens, dates and requests, from the
`ConstantsAssumption` of `UserKeys` (a second has at least one tick and a day at
least one, dates are numbers, the markers are no values):

* `TypeCorrect`, `KillSwitchHolds` and `NoEarlyLockoutHolds`, each `Spec => []...`.
* Neither of the last two is inductive, nor are they together: they speak of
  tokens nobody is at work on, and what such a token comes to is decided while
  somebody is. `IInv` says who can be at work on it: a token stays with one
  user (`TokenInv`), two open transactions never hold one row (`LockInv`), and a
  request that is not raced is alone with its user (`RaceInv`). Such a request
  finds the row as it loaded it and has, at each step, written the keys its row calls for
  (`AloneInv`); a key that no request under way has touched is the one its row
  calls for (`KeyInv`). `Right` is that relation: off for an inactive user, no later than the
  end and the time the last SETEX was under way, and no earlier than the last whole second before it.
* `DeadlineIsRight` is about `set_user_active_key` alone: the truncated TTL, counted from any later moment, gives a
  deadline that is `Right`. `RightLasts` says that the clock does not spoil it.
* There is one lemma per part of the invariant, with one step per action. `KeyStep` is
  the heart: a commit of an unraced request leaves its keys right, any
  other end of a request leaves its tokens suspect.

`HeaderCacheProofs` proves, for all requests, names, bounds on edits and all lives and
limits, from the `ConstantsAssumption` of `HeaderCache` (a negative entry lives
shorter than a positive one; `MaxLag`, at which the count of a delay stops, is past the limit):

* `TypeCorrect == Spec => []TypeOK` and `ServedIsRecentHolds == Spec => ServedIsRecent`, an
  action property.
* The age of what is served is not bounded by anything the request sees, since
  another resolution may have written the entry from rows it read long ago. So
  the proof follows a row on its way: what a database holds is of age zero (`HoldsInv`); what a
  coroutine has read is no older than its delay (`ReadsInv`), and no query returns a
  value of another column (`QueryInv`); an entry has aged by the part of its
  life that is over and the delay of the resolution that stored it (`EntryInv`).
  `TickAge` says that a tick ages everything by at most one, `Stored` and `Answered` what a
  resolution leaves in the dictionary and in its own headers, `Ends` which of the two is served.

`ProviderRefreshProofs` proves, for all sets of requests, URLs, lists, answers
and patches and every number of User-Agents, from the `ConstantsAssumption` of
`ProviderRefresh` (answers and patches carry values of their columns' types,
and the markers `NoRow`, `Null`, `Absurd` are no values):

* `TypeCorrect`, `RowIsSerialHolds` and `FetchedFromItsUrlHolds`, each
  `Spec => []...`.
* None of them is inductive alone. `IInv` adds who may commit: `LockInv` (a
  flushed UPDATE or DELETE holds the row's lock, and the row of an UPDATE is
  still there), `CreateInv` (there is one create, and no row as long as it
  runs), `MissedInv` (the row agrees with what a request loaded, but for the
  columns in `missed`) and `NewInv` (a refresh assigns no URL, a PATCH no list).
* `OnlyCommitsWrite` and `CommittedRow` say what a step does to the row; the
  serial argument is then by column: outside `torn` a column was either not
  assigned, or written, or unchanged since the load, and then it already holds
  the value assigned.

`PoolSelectProofs` proves all eight properties of `pool_select`, for any table of
subscriptions, rules, resolver, threshold, `OUTBOUNDS_PER_USER`, `POOL_CACHE_TTL` and
digests. The assumptions are those of `ConstantsAssumption`: an id belongs to one row
(primary key), ids of groups are not ids of subscriptions (UUIDs), at
least one outbound per user, a threshold that is a fraction of natural numbers.

* The steps are few and each computes much, so that the work is in lemmas about the operators
  and the invariant is plain: `IInv` says that each stage is a function of the input
  and the token (`Invariance`).
* `_health_score`: comparing fractions is a weak order (`BelowOrder`), the worse of the two is
  below a threshold if either is (`HealthIsWorse`), and so the threshold says what
  `Healthy` says (`ThresholdIs`). For a threshold of zero or above one that is not what
  one would write down first, and `Healthy` names both.
* `_build_pool`: the stable sort is ranking by a strict order (`SortOrderIsStrict`, and `Ranking`
  in `SequenceLemmas`: ranks number a finite set without a gap), the merge
  deals every list out in rounds (`RoundRobinIs`). `PoolIs` puts them together.
* `select_user_outbounds`: the selection takes the places of the chosen subscriptions, each once (`OfChosenIs`);
  the slice has no place twice, since numbers less than n apart differ modulo n (`SliceIs`, `ModApart`).
  For `EqualShareUngrouped` the selection is a rearrangement of the pool
  (`Ungrouped`) and the offsets that reach a place are counted on a circle (`Circle`).
* `StickyProviderHolds` needs that two tables with the same rows offer the same ids in each group
  (`SameOffer`): their pools differ in tags and order, and neither is looked at.
* What `FlattenSeq` computes is proved for every length without an induction
  theorem: there would be a least length at which it is wrong (`Least`). It lays out its
  sequences one after the other (`FlattenLaid`), and `Where` keeps what it should, in order (`WhereKeeps`).

`InjectOutboundsProofs` proves, for any upstream answers of the right types, any set of
names and any number of outbounds, from the `ConstantsAssumption` of `InjectOutbounds` (the
code's names are names, an upstream sends none of our outbounds, `Null` is no value):

* `TypeCorrect`, `BalancedArePingedHolds`, `DefaultIsProxyHolds` and `StaysWellFormedHolds`, each
  `Spec => []...`, `HandsOutInOrderHolds == Spec => HandsOutInOrder`, the refinement, and
  `ChainsAreWholeHolds`.
* `Inv` adds to the types what is known at each stage: nothing is finished in phase 1, and a
  reserve configuration is only begun if the first configuration had a list of outbounds.
  One lemma per helper says which fields it changes and which elements a
  list keeps (`RoutedIs`, `TidiedIs`, `WithFallbackIs`, `ReserveIs`, `Extended`).
* What is pinged and the default outbound follow from `AllTidied`: the three helpers
  run last, on every configuration. They would not if a later step could append.
* For the refinement, `Carries(obs, lo, hi)` says that the outbounds of ours in a list are those of
  the numbers `lo + 1` to `hi`, in order. `Shares` is the invariant: a finished configuration
  carries its share (`Used`), the one under construction what has been taken since, and no
  step of tidying loses or reorders any of ours (`CarriesTidied`). From this
  `Maps` computes `Served` and `Left`, and `TakeStep` that a finished configuration is a `Take`.
* `StaysWellFormed` is not inductive, since the configuration under construction is not
  well-formed: a loopback waits for its rule. `Building` says that only the loopback that
  the next slot answers does, none after the last slot, and that the tags of the slots to
  come are free. `OpenBuilding` establishes it from `Compatible`, `NextBuilding` keeps it
  through a slot, and `CloseWellFormed` and `WellFormedTidied` end it. Which
  loopbacks have rules is carried along: with a place for rules they all do (`RulesCover`), and without one
  the loopback just appended does not (`NoRulesNoCover`).
* `ChainsAreWholeHolds` is `Spec => [](upstream # <<>> /\ Conventional(upstream[1]) => ChainsAreWhole)`.
  `Walk` is a recursive function of a fixed length, so that a walk is described step by step
  (`WalkIs`), and a wrong step would be a first one. Its invariant is `LinkInv`.
  In the main configuration the walk does what it did upstream (`Keeps`, `WalksAlike`: where
  a rule with a loop tag comes first, traffic that matches every rule takes the one
  that traffic with only its tag takes), up to the third loopback, and from there over `balancer-fb3` and
  `loopback-4` to our outbound (`WholeUnchanged`, `WholeAside`, `WholeBehind`). In a reserve
  configuration the walk is known: `Linking` says which
  outbounds, balancers and loop rules there are after `s` slots and which loopback is open. `LinkOpen`
  establishes it, `LinkSlot`, `LinkLoopback` and `LinkRules` keep it through a slot, and
  `LinkWhole` follows the finished chain from `balancer-top` through every slot.

`SubscriptionParserProofs` proves, for answers of any length with any entries, from
`BodiesAssumption` (an answer is of its type and `WellFormed`: an entry says what its dialect
can say) and `NullAssumption` (a missing value is none of the others):

* `TypeOKHolds`, `EveryOfferIsStoredHolds`, `StoredAsMeantHolds` and `TagsApartHolds`, each
  `Spec => []...`: all four properties of the run `subscription`.
* The stages compute one from the other, so that `IInv` is plain: each holds what the operators of
  those before it make of the body (`Parsed`). The argument is about the operators.
* One entry: what a parser returns for a server on offer is an outbound of a proxy with its
  id, and for anything else nothing or no proxy (`Turns`, and `UriTurns`, `SingboxTurns`,
  `XrayTurns`). It is stored as meant if nothing is lost on purpose (`UriMeant`, `SingboxMeant`,
  `XrayMeant`): `Carries` says that `StreamInfo` has the payload of the network and security under
  the name `_outbound_info_to_xray_dict` looks for, for every spelling.
* A list: the parsers map places of entries to places of results, `Where` drops some, and
  renaming keeps the places. Lists that leave out none of the same places are the same list
  (`Ascends`, `AscendsOnce` in `SequenceLemmas`), so that the n-th outbound stored is made
  of the n-th server on offer (`OffersCome`). For an array of configurations the two
  concatenations agree place by place (`FlattenPairs`, `ReadIs`).
* Renaming: the k-th of a tag gets the number of those before it (`EarlierCounts`), and tags with a
  number are one to one with tag and number (`NumberedOnce`, `DedupApart`).
* `TextAnswers`, `ObjectAnswers` and `ArrayAnswers` go through what the detection may decide;
  `SingboxAsXray` says that nothing is collected from a sing-box document read as an xray one.

Only model-checked: liveness (`EventuallyFresh`, `HandsOutEveryOutbound`,
`EveryRequestEnds`, `CacheConverges`, `TitleAlwaysAnswers`), which needs fairness and `ENABLED`,
beyond the provers used here, and `ChainsAreWhole` for upstream configurations that are not
`Conventional`. Every other property of a passing run is a theorem.

## Plan

1. Done: `PoolCache` with its proofs, `UserKeys`, `PoolSelect`.
2. Done: `InjectOutbounds`, which implements `FallbackChains`.
3. Done: `ProviderRefresh`, `SubscriptionParser` and `HeaderCache`.
4. Done: the proofs of `ProviderRefresh`, `UserKeys`, `HeaderCache` and `PoolSelect`.
5. Done: `InvalidationProtocol`, implemented by `PoolCache`, with both proofs in
   `PoolCacheProofs`.
6. Done: the proofs of `InjectOutbounds`: its types, that it hands out every
   outbound once and in order, what its configurations look like, and where their
   chains lead.
7. Done: the proofs of `SubscriptionParser`.
8. `ConfigCache`, versioned configs over `PoolCache`, if a route comes to call
   `build_user_config`.

## Not modelled

* `build_user_config` and `invalidate_user_config`: no route calls the first, and
  nothing else writes a `config:*` key, so that the second finds none.
* Ports, paths, server names and keys one by one: they are carried along with the
  attribute of `StreamInfo` that holds them, or lost with it. `xtls`, upper case
  and blanks, which the code normalises the same way everywhere, are left out.
* The servers and the stream of an xray outbound that `XrayConfigParser`
  extracts: a refresh stores the raw outbound. The synchronous loaders, the filters
  of `OutboundCollection` and the command line of the parser are not used by the service.
* Names that resolve to other addresses while the pool is cached, or not at all
  while it is built: `PoolSelect` relates the rules to what the resolver answered.
* The bodies of proxied answers, forwarded headers, streaming, logging and
  debugging output; settings, start-up (but for missing database pools), migrations and deployment files
  keep no state that requests change. `require_admin` compares one header.
* `src/test.py` is a port scanner that shares nothing with the service.
