--------------------------- MODULE InjectOutbounds ---------------------------
(***************************************************************************)
(* inject_outbounds: the outbounds selected for a user are spread over the *)
(* main configuration that the upstream sent and over reserve              *)
(* configurations made from a copy of it.                                  *)
(*                                                                         *)
(* In each of them the outbounds form a chain of fallbacks: a balancer has *)
(* one outbound and falls back to a loopback outbound, whose traffic comes *)
(* in again with an inbound tag that a routing rule sends to the next      *)
(* balancer or to the last outbound.                                       *)
(*                                                                         *)
(* A tag is a name and a number: proxy-custom-2 is <<"proxy-custom", 2>>.  *)
(* What the code does not look at (addresses, domains of rules, DNS) is    *)
(* left out.  A key that a JSON object lacks is Null.                      *)
(***************************************************************************)
EXTENDS Lists

CONSTANTS
    Upstreams,      \* what the upstream may answer: lists of configurations
    MaxOurs,        \* the most outbounds a user is given
    Names,          \* the names that tags are made of
    Null

VARIABLES
    upstream,   \* original_configs
    ours,       \* our_outbounds
    configs,    \* final_configs
    idx,        \* how many of ours are used
    current,    \* res_config
    s,          \* slot of res_config
    loopRules,  \* new_loop_rules
    stage       \* where the function is

vars == <<upstream, ours, configs, idx, current, s, loopRules, stage>>

-----------------------------------------------------------------------------
\* Outbounds, rules and balancers.

Top == <<"proxy-top", 0>>
Direct == <<"direct", 0>>
Block == <<"block", 0>>
OurFallback == <<"proxy-fb-our", 4>>
Fallback(n) == <<"proxy-fb", n>>
Custom(n) == <<"proxy-custom", n>>
Loopback(n) == <<"loopback", n>>
LoopTag(n) == <<"loop-tag", n>>
BalancerTop == <<"balancer-top", 0>>
BalancerFallback(n) == <<"balancer-fb", n>>
BalancerCustom(n) == <<"balancer-custom", n>>

\* source is the number of one of our outbounds, 0 for the upstream's.
Proxy(tag, source) ==
    [tag |-> tag, protocol |-> "proxy", inboundTag |-> Null, source |-> source]

LoopbackOutbound(n) ==
    [tag |-> Loopback(n), protocol |-> "loopback", inboundTag |-> LoopTag(n), source |-> 0]

Rule(inboundTag, outboundTag, balancerTag) ==
    [inboundTag |-> inboundTag, outboundTag |-> outboundTag, balancerTag |-> balancerTag]

Balancer(tag, selector, fallbackTag) ==
    [tag |-> tag, selector |-> selector, fallbackTag |-> fallbackTag]

Get(value, default) == IF value = Null THEN default ELSE value

Optional(S) == {Null} \cup S

Tag == Names \X Nat

\* "proxy" stands for every protocol that the code does not name.
Protocols == {"proxy", "loopback", "freedom", "blackhole"}

Outbound == [tag : Tag, protocol : Protocols, inboundTag : Optional(Tag), source : Nat]

Rules == [inboundTag : SUBSET Tag, outboundTag : Optional(Tag), balancerTag : Optional(Tag)]

Balancers == [tag : Tag, selector : SUBSET Tag, fallbackTag : Optional(Tag)]

\* Without a routing object there are neither balancers nor rules.
Config ==
    {c \in [outbounds : Optional(Seq(Outbound)), routing : BOOLEAN,
            balancers : Optional(Seq(Balancers)), rules : Optional(Seq(Rules)),
            subjects : Optional(Seq(Tag))] :
        ~c.routing => c.balancers = Null /\ c.rules = Null}

\* A configuration that the upstream sent has none of our outbounds.
Foreign(c) == \A ob \in ToSet(Get(c.outbounds, <<>>)) : ob.source = 0

\* A configuration with a list of outbounds.
Listed == {c \in Config : c.outbounds # Null}

Selections == {[i \in 1 .. n |-> Proxy(<<"p", i>>, i)] : n \in 0 .. MaxOurs}

ASSUME ConstantsAssumption ==
    /\ MaxOurs \in Nat
    /\ {"proxy-top", "direct", "block", "proxy-fb-our", "proxy-fb", "proxy-custom", "loopback",
        "loop-tag", "balancer-top", "balancer-fb", "balancer-custom", "p"} \subseteq Names
    /\ \A u \in Upstreams : u \in Seq({c \in Config : Foreign(c)})
    /\ Null \notin Config \cup Seq(Outbound) \cup Seq(Balancers) \cup Seq(Rules) \cup Tag

IsLoopRule(rule) == \E tag \in rule.inboundTag : tag[1] = "loop-tag"

IsSpecial(ob) == ob.protocol \in {"loopback", "freedom", "blackhole"}

\* A faulty variant: the routing object is set where there was none.
RoutedAlways(c, balancers, rules) == [c EXCEPT !.balancers = balancers, !.rules = rules]

\* A routing object that is not there is replaced by one that nobody keeps.
Routed(c, balancers, rules) ==
    IF c.routing THEN [c EXCEPT !.balancers = balancers, !.rules = rules] ELSE c

-----------------------------------------------------------------------------
\* The helpers.

IsEssential(ob) == ob.tag \in {Top, Direct, Block} \/ ob.protocol \in {"freedom", "blackhole"}

Proxies(obs) == Where(obs, {i \in DOMAIN obs : ~IsSpecial(obs[i])})

Specials(obs) == Where(obs, {i \in DOMAIN obs : IsSpecial(obs[i])})

Essentials(obs) == Where(obs, {i \in DOMAIN obs : IsEssential(obs[i])})

LoopRules(rules) == Where(rules, {i \in DOMAIN rules : IsLoopRule(rules[i])})

OtherRules(rules) == Where(rules, {i \in DOMAIN rules : ~IsLoopRule(rules[i])})

TopBalancers(balancers) == Where(balancers, {i \in DOMAIN balancers : balancers[i].tag = BalancerTop})

\* A faulty variant: the rules stay in their order.
KeepRuleOrder(c) == c

PrioritizeLoopRules(c) ==
    IF Get(c.rules, <<>>) = <<>> THEN c
    ELSE [c EXCEPT !.rules = LoopRules(@) \o OtherRules(@)]

\* A faulty variant: only the destination of the pings is changed.
KeepSubjects(c) == c

Tags(list) == [i \in DOMAIN list |-> list[i].tag]

\* subjects is the subjectSelector of burstObservatory.
FixObservatory(c) ==
    IF c.subjects = Null THEN c
    ELSE [c EXCEPT !.subjects = Tags(Proxies(Get(c.outbounds, <<>>)))]

\* A faulty variant: the outbounds stay in their order.
KeepOutboundOrder(c) == [c EXCEPT !.outbounds = Get(@, <<>>)]

FinalizeOutbounds(c) ==
    [c EXCEPT !.outbounds = Proxies(Get(@, <<>>)) \o Specials(Get(@, <<>>))]

Tidied(c) == FinalizeOutbounds(FixObservatory(PrioritizeLoopRules(c)))

\* The balancers with another fallback.
FallingBack(balancers, tag) ==
    [i \in DOMAIN balancers |-> [balancers[i] EXCEPT !.fallbackTag = tag]]

CleanConfigForReserve(c) ==
    Routed([c EXCEPT !.outbounds = Essentials(Get(@, <<>>))],
           FallingBack(TopBalancers(Get(c.balancers, <<>>)), Null),
           OtherRules(Get(c.rules, <<>>)))

\* The rules with loop-tag-3 sent to the new balancer.
Redirected(rules) ==
    [i \in DOMAIN rules |->
        IF LoopTag(3) \in rules[i].inboundTag
        THEN [rules[i] EXCEPT !.outboundTag = Null, !.balancerTag = BalancerFallback(3)]
        ELSE rules[i]]

\* Phase 1 with an outbound to inject: the rule of loop-tag-3 goes to a new
\* balancer, whose fallback is our outbound.  Without a list of rules the new
\* rule is lost, without a routing object the balancer is lost, too.
WithFallback(c, ob) ==
    Routed([c EXCEPT !.outbounds = @ \o <<[ob EXCEPT !.tag = OurFallback], LoopbackOutbound(4)>>],
           Append(Get(c.balancers, <<>>),
                  Balancer(BalancerFallback(3), {Fallback(3)}, Loopback(4))),
           IF c.rules = Null THEN Null
           ELSE Append(Redirected(c.rules), Rule({LoopTag(4)}, OurFallback, Null)))

\* Phase 2, the start of a reserve configuration.
Reserve(c) ==
    LET clean == CleanConfigForReserve(c)
    IN  Routed([clean EXCEPT !.outbounds = Append(@, LoopbackOutbound(1))],
               FallingBack(Get(clean.balancers, <<>>), Loopback(1)),
               clean.rules)

-----------------------------------------------------------------------------
Init ==
    /\ upstream \in Upstreams
    /\ ours \in Selections
    /\ configs = <<>>
    /\ idx = 0
    /\ current = Null
    /\ s = 0
    /\ loopRules = <<>>
    /\ stage = "main"

\* An empty answer is returned as it is.  A first configuration without a list
\* of outbounds makes append raise, and proxy_all swallows the exception.
ReturnUpstream ==
    /\ stage = "main"
    /\ \/ upstream = <<>>
       \/ upstream # <<>> /\ ours # <<>> /\ upstream[1].outbounds = Null
    /\ stage' = "unchanged"
    /\ UNCHANGED <<upstream, ours, configs, idx, current, s, loopRules>>

\* A faulty variant: the reserve configurations start with the first outbound.
InjectMainOnTop ==
    /\ stage = "main"
    /\ upstream # <<>>
    /\ ours # <<>> => upstream[1].outbounds # Null
    /\ configs' = <<Tidied(IF ours = <<>> THEN upstream[1]
                           ELSE WithFallback(upstream[1], ours[1]))>>
    /\ stage' = "reserve"
    /\ UNCHANGED <<upstream, ours, idx, current, s, loopRules>>

\* Phase 1.  The other configurations of the answer are dropped.
InjectMain ==
    /\ stage = "main"
    /\ upstream # <<>>
    /\ ours # <<>> => upstream[1].outbounds # Null
    /\ configs' = <<Tidied(IF ours = <<>> THEN upstream[1]
                           ELSE WithFallback(upstream[1], ours[1]))>>
    /\ idx' = 1
    /\ stage' = "reserve"
    /\ UNCHANGED <<upstream, ours, current, s, loopRules>>

\* A faulty variant: no reserve configuration for a single outbound.
OpenReserveForTwo ==
    /\ stage = "reserve"
    /\ idx + 1 < Len(ours)
    /\ current' = Reserve(upstream[1])
    /\ s' = 0
    /\ loopRules' = <<>>
    /\ stage' = "slots"
    /\ UNCHANGED <<upstream, ours, configs, idx>>

\* Phase 2, the head of the while loop.
OpenReserve ==
    /\ stage = "reserve"
    /\ idx < Len(ours)
    /\ current' = Reserve(upstream[1])
    /\ s' = 0
    /\ loopRules' = <<>>
    /\ stage' = "slots"
    /\ UNCHANGED <<upstream, ours, configs, idx>>

\* A faulty variant: the last of four slots gets a fallback, too.
IsLastIgnoresSlot == idx + 1 >= Len(ours)

IsLast == s = 3 \/ idx + 1 >= Len(ours)

\* The body of the for loop, with a fallback or as the end of the chain.
InjectNext ==
    /\ stage = "slots"
    /\ s < 4 /\ idx < Len(ours)
    /\ LET ob == [ours[idx + 1] EXCEPT !.tag = Custom(s + 1)]
       IN  IF IsLast
           THEN /\ current' = [current EXCEPT !.outbounds = Append(@, ob)]
                /\ loopRules' = Append(loopRules, Rule({LoopTag(s + 1)}, ob.tag, Null))
           ELSE /\ current' = Routed(
                      [current EXCEPT !.outbounds = @ \o <<ob, LoopbackOutbound(s + 2)>>],
                      Append(Get(current.balancers, <<>>),
                             Balancer(BalancerCustom(s + 1), {ob.tag}, Loopback(s + 2))),
                      current.rules)
                /\ loopRules' = Append(loopRules,
                                       Rule({LoopTag(s + 1)}, Null, BalancerCustom(s + 1)))
    /\ s' = s + 1
    /\ idx' = idx + 1
    /\ UNCHANGED <<upstream, ours, configs, stage>>

\* What follows the for loop.
CloseReserve ==
    /\ stage = "slots"
    /\ s = 4 \/ idx >= Len(ours)
    /\ configs' = Append(configs,
                         Tidied(Routed(current, current.balancers,
                                       loopRules \o Get(current.rules, <<>>))))
    /\ current' = Null
    /\ stage' = "reserve"
    /\ UNCHANGED <<upstream, ours, idx, s, loopRules>>

Return ==
    /\ stage = "reserve"
    /\ idx >= Len(ours)
    /\ stage' = "done"
    /\ UNCHANGED <<upstream, ours, configs, idx, current, s, loopRules>>

Next == ReturnUpstream \/ InjectMain \/ OpenReserve \/ InjectNext \/ CloseReserve \/ Return

\* The function runs to its end without a pause.
Spec == Init /\ [][Next]_vars /\ WF_vars(Next)

-----------------------------------------------------------------------------
(***************************************************************************)
(* How xray reads a configuration: the walk from balancer-top along the    *)
(* fallbacks, for traffic that finds no outbound alive.                    *)
(***************************************************************************)

\* The tags a target, a pair of a kind and a tag, stands for.  A selector is a
\* prefix of tags; no tag here is the prefix of another one.
SelectedTags(c, target) ==
    CASE target[1] = "balancer" ->
            UNION {b.selector : b \in {x \in ToSet(Get(c.balancers, <<>>)) : x.tag = target[2]}}
      [] target[1] = "outbound" -> {target[2]}
      [] OTHER -> {}

\* The outbounds a walk meets at a target.
Visited(c, target) ==
    LET obs == Get(c.outbounds, <<>>)
    IN  Where(obs, {i \in DOMAIN obs : obs[i].tag \in SelectedTags(c, target) /\ ~IsSpecial(obs[i])})

End == <<"end", <<"end", 0>>>>

\* Traffic with an inbound tag matches a rule that asks for the tag or, unless
\* explicit, one that asks for none (it may match by its other fields).
Matches(rule, tag, explicit) ==
    tag \in rule.inboundTag \/ (~explicit /\ rule.inboundTag = {})

\* Where a rule sends its traffic.
RuleSends(rule) ==
    IF rule.balancerTag # Null THEN <<"balancer", rule.balancerTag>>
    ELSE <<"outbound", rule.outboundTag>>

\* The first rule decides.
RuleTarget(c, tag, explicit) ==
    LET rules == Get(c.rules, <<>>)
        hits == {i \in DOMAIN rules : Matches(rules[i], tag, explicit)}
    IN  IF hits = {} THEN End ELSE RuleSends(rules[Min(hits)])

Fallbacks(c, tag) ==
    {b.fallbackTag : b \in {x \in ToSet(Get(c.balancers, <<>>)) :
                                x.tag = tag /\ x.fallbackTag # Null}}

LoopTags(c, tag) ==
    {ob.inboundTag : ob \in {x \in ToSet(Get(c.outbounds, <<>>)) :
                                x.tag = tag /\ x.protocol = "loopback"}}

Following(c, target, explicit) ==
    CASE target[1] = "balancer" /\ Fallbacks(c, target[2]) # {} ->
            <<"outbound", CHOOSE tag \in Fallbacks(c, target[2]) : TRUE>>
      [] target[1] = "outbound" /\ LoopTags(c, target[2]) # {} ->
            RuleTarget(c, CHOOSE tag \in LoopTags(c, target[2]) : TRUE, explicit)
      [] OTHER -> End

\* The targets on the walk, with End for the rest of it; the last one is another
\* target only if the walk goes in circles.
Walk(c, explicit) ==
    LET longest == 2 + Len(Get(c.outbounds, <<>>)) + Len(Get(c.balancers, <<>>))
        walk[n \in 1 .. longest] ==
            IF n = 1 THEN <<"balancer", BalancerTop>> ELSE Following(c, walk[n - 1], explicit)
    IN  walk

Chain(c, explicit) ==
    LET walk == Walk(c, explicit)
    IN  FlattenSeq([i \in DOMAIN walk |-> Visited(c, walk[i])])

\* Our outbounds in a configuration.
Own(c) ==
    LET obs == Get(c.outbounds, <<>>)
    IN  Where(obs, {i \in DOMAIN obs : obs[i].source # 0})

-----------------------------------------------------------------------------
\* Properties.

\* Every variable keeps its type, and a finished configuration has a list of
\* outbounds, whatever the upstream sent.
TypeOK ==
    /\ upstream \in Upstreams
    /\ ours \in Selections
    /\ configs \in Seq(Listed)
    /\ idx \in 0 .. MaxOurs + 1
    /\ current \in Optional(Listed)
    /\ (stage = "slots") <=> (current # Null)
    /\ s \in 0 .. 4 /\ Len(loopRules) = s /\ loopRules \in Seq(Rules)
    /\ stage \in {"main", "unchanged", "reserve", "slots", "done"}

\* The chain of the main configuration is the one that the upstream meant,
\* extended by our outbound where that chain goes through loop-tag-3; the chain
\* of a reserve configuration is the upstream's first balancer followed by
\* all our outbounds of that configuration, in order.  So no loopback traffic
\* is caught by a rule that was there before, no chain is cut short or goes in
\* circles, and every injected outbound is tried.
ChainsAreWhole ==
    \A k \in DOMAIN configs :
        LET original == upstream[1]
            before == IF k = 1 THEN Chain(original, TRUE)
                      ELSE Visited(original, <<"balancer", BalancerTop>>)
            extended == IF k = 1 THEN <<"outbound", Loopback(3)>> \in ToSet(Walk(original, TRUE))
                        ELSE before # <<>>
        IN  /\ Last(Walk(configs[k], FALSE)) = End
            /\ Chain(configs[k], FALSE)
                    = before \o (IF extended THEN Own(configs[k]) ELSE <<>>)

\* Tags are unique, and every tag that is referred to exists (xray refuses the
\* configuration otherwise).
WellFormed(c) ==
    LET obs == c.outbounds
        balancers == Get(c.balancers, <<>>)
        rules == ToSet(Get(c.rules, <<>>))
        tags == {obs[i].tag : i \in DOMAIN obs}
    IN  /\ \A i, j \in DOMAIN obs : i # j => obs[i].tag # obs[j].tag
        /\ \A i, j \in DOMAIN balancers : i # j => balancers[i].tag # balancers[j].tag
        /\ \A b \in ToSet(balancers) : b.fallbackTag \in tags \cup {Null}
        /\ \A r \in rules :
                /\ r.outboundTag \in tags \cup {Null}
                /\ r.balancerTag \in {b.tag : b \in ToSet(balancers)} \cup {Null}

\* Every loopback has a rule for the traffic that it sends back in.
LoopbacksHaveRules(c) ==
    \A ob \in ToSet(c.outbounds) : ob.protocol = "loopback" =>
        \E r \in ToSet(Get(c.rules, <<>>)) : ob.inboundTag \in r.inboundTag

\* What the function takes for granted: the tags it gives are free, and the
\* rules that it keeps for the reserve configurations speak of what it keeps.
Compatible(c) ==
    LET kept == {ob \in ToSet(c.outbounds) : IsEssential(ob)}
    IN  /\ \A ob \in ToSet(c.outbounds) : ob.tag \notin {OurFallback, Loopback(4)}
        /\ \A b \in ToSet(Get(c.balancers, <<>>)) : b.tag # BalancerFallback(3)
        /\ \A ob \in kept : /\ \A n \in 1 .. 4 : ob.tag \notin {Custom(n), Loopback(n)}
                            /\ ob.protocol # "loopback"
        /\ \A r \in ToSet(Get(c.rules, <<>>)) : ~IsLoopRule(r) =>
                /\ r.outboundTag \in Optional({ob.tag : ob \in kept})
                /\ r.balancerTag \in {Null, BalancerTop}

\* The chain that the function extends: a first balancer for proxy-top, up to
\* three loopbacks with a rule each, the third for the outbound proxy-fb3, and
\* an end.  The order of the outbounds and of the rules is open, and so is which
\* outbounds the other balancers select.
Conventional(c) ==
    LET obs == ToSet(c.outbounds)
        balancers == ToSet(c.balancers)
        rules == ToSet(c.rules)
    IN  /\ c.outbounds # Null /\ c.routing /\ c.balancers # Null /\ c.rules # Null
        /\ WellFormed(c) /\ Compatible(c) /\ LoopbacksHaveRules(c)
        /\ \E b \in balancers : b.tag = BalancerTop
        /\ \A b \in balancers : /\ b.tag = BalancerTop => b.selector = {Top}
                                /\ OurFallback \notin b.selector
        /\ \E ob \in obs : ob.tag = Top
        /\ \A ob \in obs : /\ ob.tag \in {Top, Fallback(3)} => ~IsSpecial(ob)
                           /\ ob.protocol = "loopback" \/ ob.tag = Loopback(3)
                                => \E n \in 1 .. 3 : ob = LoopbackOutbound(n)
        /\ \A r \in rules : /\ LoopTag(4) \notin r.inboundTag
                            /\ LoopTag(3) \in r.inboundTag => r = Rule({LoopTag(3)}, Fallback(3), Null)
        /\ \A r, q \in rules : \A n \in 1 .. 3 :
                LoopTag(n) \in r.inboundTag /\ LoopTag(n) \in q.inboundTag => r = q
        /\ Last(Walk(c, TRUE)) = End

\* Where inject_outbounds has a place for its loop rules.  The main configuration
\* needs a list of rules, a reserve configuration a routing object: appending to
\* what get(..., []) or get(..., {}) made up is lost.
RulesAreKept(k) ==
    IF k = 1 THEN ours = <<>> \/ upstream[1].rules # Null ELSE upstream[1].routing

\* A well-formed upstream configuration gives well-formed configurations.  Their
\* loopbacks have rules if the upstream's have and there was a place for the
\* new rules; without one a loopback is there whose traffic nothing picks up.
StaysWellFormed ==
    configs # <<>> /\ upstream[1].outbounds # Null
        /\ WellFormed(upstream[1]) /\ Compatible(upstream[1])
        => \A k \in DOMAIN configs :
            /\ WellFormed(configs[k])
            /\ LoopbacksHaveRules(upstream[1])
                    => (LoopbacksHaveRules(configs[k]) <=> RulesAreKept(k))

\* leastPing has something to compare: where there is an observatory, it pings
\* every outbound that a balancer may select, and nothing that is no proxy.
BalancedArePinged ==
    \A k \in DOMAIN configs :
        LET c == configs[k]
            proxies == {ob \in ToSet(c.outbounds) : ~IsSpecial(ob)}
        IN  c.subjects # Null =>
                /\ \A b \in ToSet(Get(c.balancers, <<>>)) : \A ob \in proxies :
                        ob.tag \in b.selector => ob.tag \in ToSet(c.subjects)
                /\ \A tag \in ToSet(c.subjects) : \E ob \in proxies : ob.tag = tag

\* Traffic that no rule matches goes to the first outbound: to a proxy, not
\* past the VPN, if there is any.
DefaultIsProxy ==
    \A k \in DOMAIN configs :
        LET obs == configs[k].outbounds
        IN  (\E i \in DOMAIN obs : ~IsSpecial(obs[i])) => ~IsSpecial(obs[1])

\* The outbounds handed out are the ones that the finished configurations
\* contain, as they were selected.
Selection(c) ==
    LET own == Own(c)
    IN  [i \in DOMAIN own |-> ours[own[i].source]]

Served == IF ours = <<>> THEN <<>> ELSE [k \in DOMAIN configs |-> Selection(configs[k])]

\* The others are left.
Left ==
    LET used(i) == \E k \in DOMAIN configs : \E ob \in ToSet(configs[k].outbounds) : ob.source = i
    IN  Where(ours, {i \in DOMAIN ours : stage # "unchanged" /\ ~used(i)})

Chains == INSTANCE FallbackChains
    WITH left <- Left, served <- Served, MainSize <- 1, ReserveSize <- 4

\* inject_outbounds hands every outbound out once and in order, one in the main
\* configuration and up to four in each reserve, or none at all.
HandsOutInOrder == Chains!Spec

\* No outbound is left when inject_outbounds comes to its end, and it does.
HandsOutEveryOutbound == Chains!Finishes

=============================================================================
