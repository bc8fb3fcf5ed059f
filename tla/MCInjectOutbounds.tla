------------------------- MODULE MCInjectOutbounds -------------------------
(***************************************************************************)
(* Upstream answers for TLC: configurations with a chain of up to three    *)
(* fallbacks, as inject_outbounds expects them, with rules and outbounds   *)
(* in a friendly or an unfriendly order, and configurations that lack      *)
(* parts of it.                                                            *)
(***************************************************************************)
EXTENDS InjectOutbounds

MCNames ==
    {"proxy-top", "direct", "block", "proxy-fb-our", "proxy-fb", "proxy-custom", "loopback",
     "loop-tag", "balancer-top", "balancer-fb", "balancer-custom", "p", "socks"}

Freedom(tag) == [tag |-> tag, protocol |-> "freedom", inboundTag |-> Null, source |-> 0]

Blackhole(tag) == [tag |-> tag, protocol |-> "blackhole", inboundTag |-> Null, source |-> 0]

\* proxy-top, then proxy-fb1 to proxy-fbk behind a loopback each; the last one
\* has no balancer of its own.
Chained(k, unfriendly, pinged) ==
    LET proxies == <<Proxy(Top, 0)>> \o [i \in 1 .. k |-> Proxy(Fallback(i), 0)]
        loops == [i \in 1 .. k |-> LoopbackOutbound(i)]
        specials == <<Freedom(Direct), Blackhole(Block)>>
        chainRules(n) == [i \in 1 .. n |->
                            IF i < n THEN Rule({LoopTag(i)}, Null, BalancerFallback(i))
                            ELSE Rule({LoopTag(i)}, Fallback(i), Null)]
        others == <<Rule({}, Direct, Null), Rule({<<"socks", 0>>}, Block, Null),
                    Rule({}, Null, BalancerTop)>>
        fallback(i) == IF i < k THEN Loopback(i + 1) ELSE Null
    IN  [outbounds |-> IF unfriendly THEN specials \o loops \o proxies
                       ELSE proxies \o specials \o loops,
         routing |-> TRUE,
         balancers |-> <<Balancer(BalancerTop, {Top}, fallback(0))>>
                       \o [i \in 1 .. (IF k = 0 THEN 0 ELSE k - 1) |->
                            Balancer(BalancerFallback(i), {Fallback(i)}, fallback(i))],
         rules |-> IF unfriendly THEN others \o chainRules(k) ELSE chainRules(k) \o others,
         subjects |-> IF pinged THEN <<Top>> ELSE Null]

Whole == {Chained(k, unfriendly, pinged) : k \in 0 .. 3, unfriendly, pinged \in BOOLEAN}

ASSUME WholeAreConventional == \A c \in Whole : Conventional(c)

\* Configurations that lack something.
Partial ==
    LET c == Chained(3, TRUE, TRUE)
        bare == [c EXCEPT !.routing = FALSE, !.balancers = Null, !.rules = Null]
    IN  {bare, [bare EXCEPT !.outbounds = Null, !.subjects = Null],
         [c EXCEPT !.outbounds = Null],
         [Chained(0, TRUE, TRUE) EXCEPT !.rules = Null],
         [Chained(0, TRUE, TRUE) EXCEPT !.routing = FALSE, !.balancers = Null, !.rules = Null],
         [bare EXCEPT !.routing = TRUE, !.rules = <<Rule({}, Direct, Null)>>]}

MCUpstreams ==
    {<<>>} \cup {<<c>> : c \in Whole \cup Partial}
    \cup {<<Chained(3, TRUE, TRUE), Chained(1, FALSE, FALSE)>>}

=============================================================================
