----------------------------- MODULE PoolSelect -----------------------------
(***************************************************************************)
(* What one rebuild and one proxy request compute: the pool from the rows  *)
(* of the active subscriptions (_build_pool), the pool that the address    *)
(* rules leave (apply_address_filters) and the outbounds of one user       *)
(* (select_user_outbounds).                                                *)
(*                                                                         *)
(* An outbound is the set of its server addresses.  A pattern is the set   *)
(* of addresses that match_address matches with it.  MD5 is an arbitrary   *)
(* function of the token and the group key.  Health scores are exact       *)
(* fractions; the code uses floats.                                        *)
(***************************************************************************)
EXTENDS Lists

CONSTANTS
    Group,          \* subscription groups
    Domain, Ip,     \* server addresses that are names, and that are not
    Pattern,        \* sets of addresses that a rule may match
    MinHealth,      \* min_health_score, as a fraction <<n, d>>
    PerUser,        \* outbounds_per_user
    CacheHours,     \* POOL_CACHE_TTL
    Inputs,         \* the [subs, rules, dns] a rebuild may find
    Digests,        \* the MD5 values considered, as numbers
    NoGroup,        \* group_id IS NULL
    Null            \* expires_at, traffic_total_gb, traffic_used_gb IS NULL

Address == Domain \cup Ip

Rule == [action: {"block", "allow"}, pattern: Pattern]

\* A row of provider_subscriptions; expires_in is expires_at - now, in hours.
Subscription ==
    [id: Nat, group_id: Group \cup {NoGroup}, outbounds: Seq(SUBSET Address),
     expires_in: Int \cup {Null}, traffic_total_gb: Int \cup {Null},
     traffic_used_gb: Int \cup {Null}]

ASSUME ConstantsAssumption ==
    /\ PerUser \in Nat \ {0} /\ CacheHours \in Nat
    /\ MinHealth \in Nat \X (Nat \ {0})
    /\ Domain \cap Ip = {}
    /\ \A p \in Pattern : p \subseteq Address
    /\ \A in \in Inputs :
          /\ in.subs \in Seq(Subscription)
          /\ \A i, j \in DOMAIN in.subs : in.subs[i].id = in.subs[j].id => i = j
          /\ in.rules \subseteq Rule /\ in.dns \in [Domain -> SUBSET Ip]
    /\ Digests \subseteq Nat
    /\ Group \cap Nat = {} /\ NoGroup \notin Group /\ Null \notin Int

VARIABLES
    input,      \* the rows, the active rules and what the resolver answers
    stage,      \* how far the request has come
    pool,       \* the outbound pool
    age,        \* hours since it was built
    token,      \* the digests of the user's token
    outbounds   \* what the user is given

vars == <<input, stage, pool, age, token, outbounds>>

-----------------------------------------------------------------------------
\* _health_score, in fractions.

Below(p, q) == p[1] * q[2] < q[1] * p[2]

Smaller(p, q) == IF Below(q, p) THEN q ELSE p

Clamped(n, d) == IF n < 0 THEN <<0, 1>> ELSE IF n > d THEN <<1, 1>> ELSE <<n, d>>

\* A month of 720 hours is full health.
TimeHealth(sub) ==
    IF sub.expires_in = Null THEN <<1, 1>> ELSE Clamped(sub.expires_in, 720)

\* A total below zero, which no schema forbids, turns both signs.
TrafficHealth(sub) ==
    IF sub.traffic_total_gb \in {Null, 0} \/ sub.traffic_used_gb = Null
    THEN <<1, 1>>
    ELSE IF sub.traffic_total_gb > 0
    THEN Clamped(sub.traffic_total_gb - sub.traffic_used_gb, sub.traffic_total_gb)
    ELSE Clamped(sub.traffic_used_gb - sub.traffic_total_gb, -sub.traffic_total_gb)

\* A faulty variant: the mean of the two.
HealthScoreMean(sub) ==
    LET p == TimeHealth(sub)
        q == TrafficHealth(sub)
    IN  <<p[1] * q[2] + q[1] * p[2], 2 * p[2] * q[2]>>

HealthScore(sub) == Smaller(TimeHealth(sub), TrafficHealth(sub))

-----------------------------------------------------------------------------
\* _build_pool.

\* The subscriptions that take part.
Scored(subs) ==
    Where(subs, {i \in DOMAIN subs :
                    subs[i].outbounds # <<>> /\ ~Below(HealthScore(subs[i]), MinHealth)})

\* A faulty variant: an ascending sort, worst subscriptions first.
RankAscending(scored, i) ==
    1 + Cardinality({j \in DOMAIN scored :
                        \/ Below(HealthScore(scored[j]), HealthScore(scored[i]))
                        \/ /\ ~Below(HealthScore(scored[i]), HealthScore(scored[j]))
                           /\ j < i})

\* The place of the i-th one in the stable sort by descending score.
Rank(scored, i) ==
    1 + Cardinality({j \in DOMAIN scored :
                        \/ Below(HealthScore(scored[i]), HealthScore(scored[j]))
                        \/ /\ ~Below(HealthScore(scored[j]), HealthScore(scored[i]))
                           /\ j < i})

Sorted(scored) ==
    [k \in DOMAIN scored |-> scored[CHOOSE i \in DOMAIN scored : Rank(scored, i) = k]]

\* A faulty variant: str(None) is taken for the name of a group.
TaggedStrNone(sub, k) ==
    [i \in DOMAIN sub.outbounds |->
        [tag |-> <<k - 1, i - 1>>, addresses |-> sub.outbounds[i], sub_id |-> sub.id,
         group_id |-> IF sub.group_id = NoGroup THEN Null ELSE sub.group_id]]

\* The outbounds of the k-th best subscription, tagged p-{k-1}-{i-1}.
Tagged(sub, k) ==
    [i \in DOMAIN sub.outbounds |->
        [tag |-> <<k - 1, i - 1>>, addresses |-> sub.outbounds[i],
         sub_id |-> sub.id, group_id |-> sub.group_id]]

\* A faulty variant: one subscription after the other.
Concatenated(lists) == FlattenSeq(lists)

\* The i-th outbound of every list that has one.
Round(lists, i) ==
    FlattenSeq([k \in DOMAIN lists |-> IF i <= Len(lists[k]) THEN <<lists[k][i]>> ELSE <<>>])

\* One outbound of every list in turn, as long as there are any.
RoundRobin(lists) ==
    LET longest == Max({Len(lists[k]) : k \in DOMAIN lists})
    IN  FlattenSeq([i \in 1 .. longest |-> Round(lists, i)])

BuildPool(subs) ==
    LET sorted == Sorted(Scored(subs))
    IN  IF sorted = <<>> THEN <<>>
        ELSE RoundRobin([k \in DOMAIN sorted |-> Tagged(sorted[k], k)])

-----------------------------------------------------------------------------
\* apply_address_filters.

PatternsOf(rules, action) == {r.pattern : r \in {x \in rules : x.action = action}}

\* A faulty variant: the rules see the addresses as they are written.
CandidatesUnresolved(ob, dns) == ob.addresses

\* The addresses of an outbound and what its names resolve to; a name that
\* cannot be resolved resolves to nothing.
Candidates(ob, dns) ==
    ob.addresses \cup UNION {dns[d] : d \in ob.addresses \cap Domain}

Matches(ob, dns, patterns) == \E p \in patterns : Candidates(ob, dns) \cap p # {}

\* A faulty variant: with allow rules, the block rules are not looked at.
KeptAllowFirst(ob, rules, dns) ==
    LET block == PatternsOf(rules, "block")
        allow == PatternsOf(rules, "allow")
    IN  \/ ob.addresses = {}
        \/ Matches(ob, dns, allow)
        \/ allow = {} /\ ~Matches(ob, dns, block)

Kept(ob, rules, dns) ==
    LET block == PatternsOf(rules, "block")
        allow == PatternsOf(rules, "allow")
    IN  \/ ob.addresses = {}
        \/ ~Matches(ob, dns, block) /\ (allow = {} \/ Matches(ob, dns, allow))

Filtered(p, rules, dns) == Where(p, {i \in DOMAIN p : Kept(p[i], rules, dns)})

-----------------------------------------------------------------------------
\* select_user_outbounds.

GroupKey(ob) == IF ob.group_id # NoGroup THEN ob.group_id ELSE ob.sub_id

\* The keys of the dict of groups, in the order of their first outbound.
GroupKeys(p) ==
    LET keys == [i \in DOMAIN p |-> GroupKey(p[i])]
    IN  Where(keys, {i \in DOMAIN p : \A j \in 1 .. i - 1 : keys[j] # keys[i]})

\* The outbounds of a group, as places in the pool.
OfKey(p, key) == {i \in DOMAIN p : GroupKey(p[i]) = key}

SubIds(p, key) == {p[i].sub_id : i \in OfKey(p, key)}

\* The n-th of the sorted ids, from 0.
NthId(ids, n) == CHOOSE x \in ids : Cardinality({y \in ids : y < x}) = n

\* md5(token + key).  A key that is a subscription's own id has one candidate,
\* whatever its digest.
Digest(t, key) == IF key \in Group THEN t.digest[key] ELSE 0

\* A faulty variant: all subscriptions of the pool share one digest and index.
ChosenByPool(p, key, t) == NthId(SubIds(p, key), Len(p) % Cardinality(SubIds(p, key)))

\* sub_ids[md5(token + group_key) % len(sub_ids)].
Chosen(p, key, t) == NthId(SubIds(p, key), Digest(t, key) % Cardinality(SubIds(p, key)))

\* A faulty variant: group by group, the outbounds of every subscription.
OfAll(p, t) ==
    LET keys == GroupKeys(p)
    IN  FlattenSeq([k \in DOMAIN keys |-> Where(p, OfKey(p, keys[k]))])

\* Group by group, the outbounds of the chosen subscription.
OfChosen(p, t) ==
    LET keys == GroupKeys(p)
        of(key) == Where(p, {i \in OfKey(p, key) : p[i].sub_id = Chosen(p, key, t)})
    IN  FlattenSeq([k \in DOMAIN keys |-> of(keys[k])])

\* A faulty variant: a slice that stops at the end of the list.
SliceNoWrap(selected, offset) ==
    LET n == Len(selected)
        first == offset % n
    IN  SubSeq(selected, first + 1, Min({first + PerUser, n}))

\* _user_offset and the slice that starts there and wraps around.
Slice(selected, offset) ==
    LET n == Len(selected)
    IN  [i \in 1 .. Min({PerUser, n}) |-> selected[((offset + i - 1) % n) + 1]]

SelectOutbounds(p, t) == Slice(OfChosen(p, t), t.offset)

\* A token is what MD5 makes of it.
Token == [digest: [Group -> Digests], offset: Digests]

-----------------------------------------------------------------------------
Init ==
    /\ input \in Inputs
    /\ stage = "read"
    /\ pool = <<>>
    /\ age = 0
    /\ token = Null
    /\ outbounds = <<>>

Build ==
    /\ stage = "read"
    /\ pool' = BuildPool(input.subs)
    /\ stage' = "built"
    /\ UNCHANGED <<input, age, token, outbounds>>

ApplyAddressFilters ==
    /\ stage = "built"
    /\ pool' = Filtered(pool, input.rules, input.dns)
    /\ stage' = "filtered"
    /\ UNCHANGED <<input, age, token, outbounds>>

\* The pool is served from the cache until its TTL runs out.
Keep ==
    /\ stage = "filtered" /\ age < CacheHours
    /\ age' = age + 1
    /\ UNCHANGED <<input, stage, pool, token, outbounds>>

SelectUserOutbounds ==
    /\ stage = "filtered"
    /\ token' \in Token
    /\ outbounds' = SelectOutbounds(pool, token')
    /\ stage' = "selected"
    /\ UNCHANGED <<input, pool, age>>

Next == Build \/ ApplyAddressFilters \/ Keep \/ SelectUserOutbounds

Spec == Init /\ [][Next]_vars

-----------------------------------------------------------------------------
\* Properties.

\* The result of every stage has the shape the next one relies on.
TypeOK ==
    LET Outbound == [tag: Nat \X Nat, addresses: SUBSET Address,
                     sub_id: Nat, group_id: Group \cup {NoGroup}]
    IN  /\ stage \in {"read", "built", "filtered", "selected"}
        /\ age \in 0 .. CacheHours /\ token \in Token \cup {Null}
        /\ ToSet(pool) \subseteq Outbound
        /\ ToSet(outbounds) \subseteq ToSet(pool)

\* A subscription is healthy if a twentieth (min_health_score) of a month and
\* a twentieth of its traffic are left, where it says so; by a threshold of zero
\* all of them are, and none by one above one.
Healthy(sub) ==
    LET n == MinHealth[1]
        d == MinHealth[2]
    IN  \/ n = 0
        \/ /\ n <= d
           /\ sub.expires_in = Null \/ sub.expires_in * d >= 720 * n
           /\ \/ sub.traffic_total_gb \in {Null, 0} \/ sub.traffic_used_gb = Null
              \/ LET left == sub.traffic_total_gb - sub.traffic_used_gb
                 IN  IF sub.traffic_total_gb > 0
                     THEN left * d >= sub.traffic_total_gb * n
                     ELSE left * d <= sub.traffic_total_gb * n

\* The pool holds every outbound of every healthy subscription once, first all
\* the first ones, then all the second ones, and so on, in each round from the
\* healthiest subscription to the least healthy one (_build_pool against an
\* order stated without sorting or merging).
PoolIsRoundRobin ==
    stage = "built" =>
        LET subs == input.subs
            sub(ob) == subs[CHOOSE i \in DOMAIN subs : subs[i].id = ob.sub_id]
        IN  /\ {<<ob.sub_id, ob.tag[2]>> : ob \in ToSet(pool)} =
                    UNION {{<<s.id, i - 1>> : i \in DOMAIN s.outbounds} :
                                s \in {x \in ToSet(subs) : Healthy(x)}}
            /\ \A i, j \in DOMAIN pool : i < j =>
                    \/ pool[i].tag[2] < pool[j].tag[2]
                    \/ /\ pool[i].tag[2] = pool[j].tag[2]
                       /\ pool[i].tag[1] < pool[j].tag[1]
                       /\ ~Below(HealthScore(sub(pool[i])), HealthScore(sub(pool[j])))

\* Nobody is given an outbound of a subscription that has ended, although the
\* pool is served with the scores of its build until its TTL runs out: what the
\* threshold leaves of a month, 36 hours, is longer than that (_health_score,
\* POOL_CACHE_TTL).  A lower threshold promises nothing.
EndedIsNotServed ==
    MinHealth[1] * 720 > CacheHours * MinHealth[2] =>
        \A ob \in ToSet(outbounds), sub \in ToSet(input.subs) :
            sub.id = ob.sub_id => sub.expires_in = Null \/ sub.expires_in > age

\* Nobody is served an outbound one of whose addresses, written or resolved,
\* is blocked, nor, when there are allow rules, one with no allowed address;
\* an outbound without an address cannot be judged and passes.
ServedRespectsRules ==
    \A ob \in ToSet(outbounds) :
        LET addrs == ob.addresses \cup
                     UNION {input.dns[d] : d \in Domain \cap ob.addresses}
            hits(action) == {r \in input.rules :
                                r.action = action /\ r.pattern \cap addrs # {}}
        IN  ob.addresses # {} =>
                /\ hits("block") = {}
                /\ (\E r \in input.rules : r.action = "allow") => hits("allow") # {}

\* No second look at the rules is more permissive than intended: one more
\* block rule only removes outbounds, and so does the first allow rule, while
\* any further allow rule only lets more through (apply_address_filters).
RulesAreMonotone ==
    stage = "built" =>
        \A r \in Rule :
            LET before == ToSet(Filtered(pool, input.rules, input.dns))
                after == ToSet(Filtered(pool, input.rules \cup {r}, input.dns))
            IN  IF r.action = "allow" /\ \E q \in input.rules : q.action = "allow"
                THEN before \subseteq after
                ELSE after \subseteq before

\* A user has as many distinct outbounds as there are, up to PerUser, all the
\* outbounds of one group from one subscription, and misses no group if there
\* is room (select_user_outbounds).
OneProviderPerGroup ==
    stage = "selected" =>
        /\ \A i, j \in DOMAIN outbounds :
                /\ i # j => outbounds[i].tag # outbounds[j].tag
                /\ GroupKey(outbounds[i]) = GroupKey(outbounds[j])
                        => outbounds[i].sub_id = outbounds[j].sub_id
        /\ Len(outbounds) = Min({PerUser, Len(OfChosen(pool, token))})
        /\ Len(outbounds) < PerUser =>
                \A ob \in ToSet(pool) :
                    \E x \in ToSet(outbounds) : GroupKey(x) = GroupKey(ob)

\* docs/API_REFERENCE.md:211: "a specific user always gets the same provider
\* from that group".  A rebuild that finds the rows in another order moves no
\* user to another subscription of a group, and one that finds one more rule
\* only if the group has not the same subscriptions any more
\* (select_user_outbounds).
StickyProvider ==
    stage = "selected" =>
        \A rules \in {input.rules} \cup {input.rules \cup {r} : r \in Rule} :
            LET rebuilt == Filtered(BuildPool(Reverse(input.subs)), rules, input.dns)
            IN  \A key \in ToSet(GroupKeys(pool)) :
                    rules = input.rules \/ SubIds(rebuilt, key) = SubIds(pool, key) =>
                        Chosen(rebuilt, key, token) = Chosen(pool, key, token)

\* How many of the tokens are given outbound ob.
Share(ob) == Cardinality({t \in Token : ob \in ToSet(SelectOutbounds(pool, t))})

\* Without two subscriptions in one group, every outbound of the pool is given
\* to exactly PerUser of every Len(pool) offsets, whatever the other digests
\* (select_user_outbounds, _user_offset).
EqualShareUngrouped ==
    stage = "filtered" /\ (\A key \in ToSet(GroupKeys(pool)) : Cardinality(SubIds(pool, key)) = 1)
        => \A ob \in ToSet(pool), digest \in [Group -> Digests] :
              Cardinality({n \in 0 .. Len(pool) - 1 :
                  ob \in ToSet(SelectOutbounds(pool, [digest |-> digest, offset |-> n]))})
              = Min({PerUser, Len(pool)})

\* README.md: every user gets K outbounds from an offset, so that "each outbound
\* gets exactly a K/N share of the users".  Then all outbounds of the pool have
\* the same share, if the digests are spread evenly.
EqualShare ==
    stage = "filtered" => \A x, y \in ToSet(pool) : Share(x) = Share(y)

=============================================================================
