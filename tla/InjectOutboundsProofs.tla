------------------------ MODULE InjectOutboundsProofs ------------------------
(***************************************************************************)
(* Theorems about InjectOutbounds for every upstream answer and for any    *)
(* number of outbounds: its types, the promise of FallbackChains to hand   *)
(* out every outbound once and in order, what each finished configuration  *)
(* looks like, and where xray's walk through it leads.                     *)
(***************************************************************************)
EXTENDS InjectOutbounds, SequenceLemmas

-----------------------------------------------------------------------------
\* What the helpers return.

LEMMA GetType ==
    ASSUME NEW S, NEW list \in Optional(Seq(S))
    PROVE  Get(list, <<>>) \in Seq(S)
<1>1. <<>> \in Seq(S)
  OBVIOUS
<1> QED
  BY <1>1, Zenon DEF Get, Optional

LEMMA NotNull ==
    /\ \A c \in Config : c # Null
    /\ \A list \in Seq(Outbound) : list # Null
    /\ \A list \in Seq(Balancers) : list # Null
    /\ \A list \in Seq(Rules) : list # Null
BY ConstantsAssumption, Zenon

\* The two parts of a list of outbounds.
LEMMA OutboundParts ==
    ASSUME NEW obs \in Seq(Outbound)
    PROVE  /\ Proxies(obs) \in Seq(Outbound)
           /\ Specials(obs) \in Seq(Outbound)
           /\ Essentials(obs) \in Seq(Outbound)
           /\ ToSet(Proxies(obs)) = {ob \in ToSet(obs) : ~IsSpecial(ob)}
           /\ ToSet(Specials(obs)) = {ob \in ToSet(obs) : IsSpecial(ob)}
           /\ ToSet(Essentials(obs)) = {ob \in ToSet(obs) : IsEssential(ob)}
<1>1. /\ Proxies(obs) \in Seq(Outbound)
      /\ Specials(obs) \in Seq(Outbound)
      /\ Essentials(obs) \in Seq(Outbound)
  BY WhereKeeps DEF Proxies, Specials, Essentials
<1>2. ToSet(Proxies(obs)) = {obs[i] : i \in DOMAIN obs \cap {j \in DOMAIN obs : ~IsSpecial(obs[j])}}
  BY WhereRange, Zenon DEF Proxies
<1>3. ToSet(Specials(obs)) = {obs[i] : i \in DOMAIN obs \cap {j \in DOMAIN obs : IsSpecial(obs[j])}}
  BY WhereRange, Zenon DEF Specials
<1>4. ToSet(Essentials(obs))
        = {obs[i] : i \in DOMAIN obs \cap {j \in DOMAIN obs : IsEssential(obs[j])}}
  BY WhereRange, Zenon DEF Essentials
<1>5. ToSet(obs) = {obs[i] : i \in DOMAIN obs}
  BY Zenon DEF ToSet
<1>6. ToSet(Proxies(obs)) = {ob \in ToSet(obs) : ~IsSpecial(ob)}
  BY <1>2, <1>5
<1>7. ToSet(Specials(obs)) = {ob \in ToSet(obs) : IsSpecial(ob)}
  BY <1>3, <1>5
<1>8. ToSet(Essentials(obs)) = {ob \in ToSet(obs) : IsEssential(ob)}
  BY <1>4, <1>5
<1> QED
  BY <1>1, <1>6, <1>7, <1>8

LEMMA RuleParts ==
    ASSUME NEW rules \in Seq(Rules)
    PROVE  /\ LoopRules(rules) \in Seq(Rules)
           /\ OtherRules(rules) \in Seq(Rules)
           /\ ToSet(LoopRules(rules)) = {r \in ToSet(rules) : IsLoopRule(r)}
           /\ ToSet(OtherRules(rules)) = {r \in ToSet(rules) : ~IsLoopRule(r)}
<1>1. LoopRules(rules) \in Seq(Rules) /\ OtherRules(rules) \in Seq(Rules)
  BY WhereKeeps DEF LoopRules, OtherRules
<1>2. ToSet(LoopRules(rules))
        = {rules[i] : i \in DOMAIN rules \cap {j \in DOMAIN rules : IsLoopRule(rules[j])}}
  BY WhereRange, Zenon DEF LoopRules
<1>3. ToSet(OtherRules(rules))
        = {rules[i] : i \in DOMAIN rules \cap {j \in DOMAIN rules : ~IsLoopRule(rules[j])}}
  BY WhereRange, Zenon DEF OtherRules
<1>4. ToSet(rules) = {rules[i] : i \in DOMAIN rules}
  BY Zenon DEF ToSet
<1>5. ToSet(LoopRules(rules)) = {r \in ToSet(rules) : IsLoopRule(r)}
  BY <1>2, <1>4
<1>6. ToSet(OtherRules(rules)) = {r \in ToSet(rules) : ~IsLoopRule(r)}
  BY <1>3, <1>4
<1> QED
  BY <1>1, <1>5, <1>6

LEMMA TopType ==
    ASSUME NEW balancers \in Seq(Balancers)
    PROVE  TopBalancers(balancers) \in Seq(Balancers)
BY WhereKeeps DEF TopBalancers

LEMMA FallingBackType ==
    ASSUME NEW balancers \in Seq(Balancers), NEW tag \in Optional(Tag)
    PROVE  /\ FallingBack(balancers, tag) \in Seq(Balancers)
           /\ Len(FallingBack(balancers, tag)) = Len(balancers)
           /\ \A i \in 1 .. Len(balancers) :
                 FallingBack(balancers, tag)[i] = [balancers[i] EXCEPT !.fallbackTag = tag]
<1> DEFINE w == FallingBack(balancers, tag)
<1>1. /\ Len(balancers) \in Nat /\ DOMAIN balancers = 1 .. Len(balancers)
      /\ \A i \in 1 .. Len(balancers) : balancers[i] \in Balancers
  OBVIOUS
<1>2. w = [i \in 1 .. Len(balancers) |-> [balancers[i] EXCEPT !.fallbackTag = tag]]
  BY <1>1, Zenon DEF FallingBack
<1>3. \A b \in Balancers : [b EXCEPT !.fallbackTag = tag] \in Balancers
  BY DEF Balancers
<1> HIDE DEF w
<1> QED
  <2>1. w \in [1 .. Len(balancers) -> Balancers]
    BY <1>1, <1>2, <1>3
  <2>2. w \in Seq(Balancers) /\ Len(w) = Len(balancers)
    BY <2>1, <1>1
  <2>3. \A i \in 1 .. Len(balancers) : w[i] = [balancers[i] EXCEPT !.fallbackTag = tag]
    BY <1>2
  <2> QED
    BY <2>2, <2>3 DEF w

\* A concatenation has the elements of both lists.
LEMMA ConcatRange ==
    ASSUME NEW S, NEW a \in Seq(S), NEW b \in Seq(S)
    PROVE  a \o b \in Seq(S) /\ ToSet(a \o b) = ToSet(a) \cup ToSet(b)
<1>1. /\ a \o b \in Seq(S) /\ Len(a \o b) = Len(a) + Len(b)
      /\ Len(a) \in Nat /\ Len(b) \in Nat
      /\ \A i \in 1 .. Len(a) : (a \o b)[i] = a[i]
      /\ \A i \in 1 .. Len(b) : (a \o b)[Len(a) + i] = b[i]
      /\ DOMAIN a = 1 .. Len(a) /\ DOMAIN b = 1 .. Len(b)
      /\ DOMAIN (a \o b) = 1 .. Len(a \o b)
  OBVIOUS
<1> DEFINE t == a \o b
<1>2. ASSUME NEW i \in 1 .. Len(t)
      PROVE  (\E j \in 1 .. Len(a) : t[i] = a[j]) \/ (\E j \in 1 .. Len(b) : t[i] = b[j])
  <2>1. CASE i <= Len(a)
    BY <2>1, <1>1
  <2>2. CASE ~ (i <= Len(a))
    <3>1. i - Len(a) \in 1 .. Len(b) /\ Len(a) + (i - Len(a)) = i
      BY <2>2, <1>1
    <3>2. t[i] = b[i - Len(a)]
      BY <3>1, <1>1
    <3> QED
      BY <3>1, <3>2
  <2> QED
    BY <2>1, <2>2
<1>3. \A i \in 1 .. Len(a) : i \in 1 .. Len(t) /\ t[i] = a[i]
  BY <1>1
<1>4. \A i \in 1 .. Len(b) : Len(a) + i \in 1 .. Len(t) /\ t[Len(a) + i] = b[i]
  BY <1>1
<1> HIDE DEF t
<1>5. ASSUME DOMAIN t = 1 .. Len(t)
      PROVE  ToSet(t) = ToSet(a) \cup ToSet(b)
  <2>1. ToSet(t) = {t[i] : i \in 1 .. Len(t)}
    BY <1>5, Zenon DEF ToSet
  <2>2. ToSet(a) = {a[i] : i \in 1 .. Len(a)} /\ ToSet(b) = {b[i] : i \in 1 .. Len(b)}
    BY <1>1, Zenon DEF ToSet
  <2> QED
    BY <2>1, <2>2, <1>2, <1>3, <1>4, Zenon
<1> QED
  BY <1>1, <1>5 DEF t

LEMMA AppendRange ==
    ASSUME NEW S, NEW a \in Seq(S), NEW x \in S
    PROVE  Append(a, x) \in Seq(S) /\ ToSet(Append(a, x)) = ToSet(a) \cup {x}
<1>1. Append(a, x) = a \o <<x>> /\ <<x>> \in Seq(S)
  OBVIOUS
<1>2. ToSet(<<x>>) = {x}
  <2>1. DOMAIN <<x>> = {1} /\ <<x>>[1] = x
    OBVIOUS
  <2> QED
    BY <2>1, Zenon DEF ToSet
<1>3. ToSet(a \o <<x>>) = ToSet(a) \cup ToSet(<<x>>)
  BY <1>1, ConcatRange
<1> QED
  BY <1>1, <1>2, <1>3
-----------------------------------------------------------------------------
\* Configurations.

LEMMA ConfigFields ==
    ASSUME NEW c \in Config
    PROVE  /\ c.outbounds \in Optional(Seq(Outbound))
           /\ c.routing \in BOOLEAN
           /\ c.balancers \in Optional(Seq(Balancers))
           /\ c.rules \in Optional(Seq(Rules))
           /\ c.subjects \in Optional(Seq(Tag))
           /\ ~c.routing => c.balancers = Null /\ c.rules = Null
           /\ Get(c.outbounds, <<>>) \in Seq(Outbound)
           /\ Get(c.balancers, <<>>) \in Seq(Balancers)
           /\ Get(c.rules, <<>>) \in Seq(Rules)
<1>1. /\ c.outbounds \in Optional(Seq(Outbound))
      /\ c.routing \in BOOLEAN
      /\ c.balancers \in Optional(Seq(Balancers))
      /\ c.rules \in Optional(Seq(Rules))
      /\ c.subjects \in Optional(Seq(Tag))
      /\ ~c.routing => c.balancers = Null /\ c.rules = Null
  BY DEF Config
<1> QED
  BY <1>1, GetType

LEMMA ListedFields ==
    ASSUME NEW c \in Listed
    PROVE  c \in Config /\ c.outbounds \in Seq(Outbound) /\ Get(c.outbounds, <<>>) = c.outbounds
BY ConfigFields, Zenon DEF Listed, Optional, Get

LEMMA MakeListed ==
    ASSUME NEW c \in Config, c.outbounds \in Seq(Outbound)
    PROVE  c \in Listed
BY NotNull, Zenon DEF Listed

LEMMA SetOutbounds ==
    ASSUME NEW c \in Config, NEW obs \in Optional(Seq(Outbound))
    PROVE  LET t == [c EXCEPT !.outbounds = obs]
           IN  /\ t \in Config
               /\ t.outbounds = obs /\ t.routing = c.routing /\ t.balancers = c.balancers
               /\ t.rules = c.rules /\ t.subjects = c.subjects
BY DEF Config

LEMMA RoutedIs ==
    ASSUME NEW c \in Config, NEW balancers \in Optional(Seq(Balancers)),
           NEW rules \in Optional(Seq(Rules))
    PROVE  LET t == Routed(c, balancers, rules)
           IN  /\ t \in Config
               /\ t.outbounds = c.outbounds /\ t.routing = c.routing /\ t.subjects = c.subjects
               /\ c.routing => t.balancers = balancers /\ t.rules = rules
               /\ ~c.routing => t.balancers = Null /\ t.rules = Null
BY DEF Config, Routed

LEMMA PrioritizeIs ==
    ASSUME NEW c \in Config
    PROVE  LET t == PrioritizeLoopRules(c)
           IN  /\ t \in Config
               /\ t.outbounds = c.outbounds /\ t.routing = c.routing
               /\ t.subjects = c.subjects /\ t.balancers = c.balancers
               /\ (c.rules = Null) <=> (t.rules = Null)
               /\ ToSet(Get(t.rules, <<>>)) = ToSet(Get(c.rules, <<>>))
               /\ Get(c.rules, <<>>) # <<>> => t.rules = LoopRules(c.rules) \o OtherRules(c.rules)
<1> DEFINE rules == LoopRules(c.rules) \o OtherRules(c.rules)
<1>1. CASE Get(c.rules, <<>>) = <<>>
  BY <1>1, Zenon DEF PrioritizeLoopRules
<1>2. CASE Get(c.rules, <<>>) # <<>>
  <2>1. c.rules # Null /\ c.rules \in Seq(Rules) /\ c.routing
    BY <1>2, ConfigFields, Zenon DEF Get, Optional
  <2>2. rules \in Seq(Rules) /\ ToSet(rules) = ToSet(c.rules)
    <3>1. rules \in Seq(Rules)
          /\ ToSet(rules) = ToSet(LoopRules(c.rules)) \cup ToSet(OtherRules(c.rules))
      BY <2>1, RuleParts, ConcatRange
    <3> QED
      BY <3>1, <2>1, RuleParts, Zenon
  <2>3. PrioritizeLoopRules(c) = [c EXCEPT !.rules = rules]
    BY <1>2 DEF PrioritizeLoopRules
  <2> HIDE DEF rules
  <2>4. LET u == [c EXCEPT !.rules = rules]
        IN  /\ u \in Config /\ u.rules = rules
            /\ u.outbounds = c.outbounds /\ u.routing = c.routing
            /\ u.subjects = c.subjects /\ u.balancers = c.balancers
    BY <2>1, <2>2 DEF Config, Optional
  <2>5. Get(rules, <<>>) = rules /\ Get(c.rules, <<>>) = c.rules /\ rules # Null
    BY <2>1, <2>2, NotNull, Zenon DEF Get
  <2> QED
    BY <2>1, <2>2, <2>3, <2>4, <2>5, Zenon DEF rules
<1> QED
  BY <1>1, <1>2
\* The selector of the pings names the proxies.
LEMMA TagsOf ==
    ASSUME NEW obs \in Seq(Outbound)
    PROVE  Tags(obs) \in Seq(Tag) /\ ToSet(Tags(obs)) = {ob.tag : ob \in ToSet(obs)}
<1>1. /\ Len(obs) \in Nat /\ DOMAIN obs = 1 .. Len(obs)
      /\ \A i \in 1 .. Len(obs) : obs[i] \in Outbound
  OBVIOUS
<1>2. \A ob \in Outbound : ob.tag \in Tag
  BY DEF Outbound
<1>3. Tags(obs) = [i \in 1 .. Len(obs) |-> obs[i].tag]
  BY <1>1, Zenon DEF Tags
<1>4. Tags(obs) \in [1 .. Len(obs) -> Tag]
  BY <1>1, <1>2, <1>3
<1>5. Tags(obs) \in Seq(Tag)
  BY <1>1, <1>4
<1>6. ToSet(Tags(obs)) = {obs[i].tag : i \in 1 .. Len(obs)}
  BY <1>3 DEF ToSet
<1>7. ToSet(obs) = {obs[i] : i \in 1 .. Len(obs)}
  BY <1>1, Zenon DEF ToSet
<1> QED
  BY <1>5, <1>6, <1>7

LEMMA ObservatoryIs ==
    ASSUME NEW c \in Config
    PROVE  LET t == FixObservatory(c)
           IN  /\ t \in Config
               /\ t.outbounds = c.outbounds /\ t.routing = c.routing
               /\ t.rules = c.rules /\ t.balancers = c.balancers
               /\ c.subjects = Null => t.subjects = Null
               /\ c.subjects # Null => t.subjects = Tags(Proxies(Get(c.outbounds, <<>>)))
<1> DEFINE tags == Tags(Proxies(Get(c.outbounds, <<>>)))
<1>1. tags \in Seq(Tag)
  BY ConfigFields, OutboundParts, TagsOf
<1>2. FixObservatory(c) = IF c.subjects = Null THEN c ELSE [c EXCEPT !.subjects = tags]
  BY Zenon DEF FixObservatory
<1> HIDE DEF tags
<1>3. LET t == [c EXCEPT !.subjects = tags]
      IN  /\ t \in Config /\ t.subjects = tags
          /\ t.outbounds = c.outbounds /\ t.routing = c.routing
          /\ t.rules = c.rules /\ t.balancers = c.balancers
  BY <1>1 DEF Config, Optional
<1> QED
  BY <1>2, <1>3 DEF tags

LEMMA TidiedIs ==
    ASSUME NEW c \in Config
    PROVE  LET t == Tidied(c)
               obs == Get(c.outbounds, <<>>)
           IN  /\ t \in Listed
               /\ t.outbounds = Proxies(obs) \o Specials(obs)
               /\ t.routing = c.routing /\ t.balancers = c.balancers
               /\ (c.rules = Null) <=> (t.rules = Null)
               /\ ToSet(Get(t.rules, <<>>)) = ToSet(Get(c.rules, <<>>))
               /\ Get(c.rules, <<>>) # <<>> => t.rules = LoopRules(c.rules) \o OtherRules(c.rules)
               /\ t.subjects # Null => t.subjects = Tags(Proxies(obs))
<1> DEFINE p == PrioritizeLoopRules(c)
           f == FixObservatory(p)
           obs == Get(c.outbounds, <<>>)
           all == Proxies(obs) \o Specials(obs)
<1>1. /\ p \in Config
      /\ p.outbounds = c.outbounds /\ p.routing = c.routing
      /\ p.subjects = c.subjects /\ p.balancers = c.balancers
      /\ (c.rules = Null) <=> (p.rules = Null)
      /\ ToSet(Get(p.rules, <<>>)) = ToSet(Get(c.rules, <<>>))
      /\ Get(c.rules, <<>>) # <<>> => p.rules = LoopRules(c.rules) \o OtherRules(c.rules)
  BY PrioritizeIs
<1> HIDE DEF p
<1>2. /\ f \in Config
      /\ f.outbounds = p.outbounds /\ f.routing = p.routing
      /\ f.rules = p.rules /\ f.balancers = p.balancers
      /\ p.subjects = Null => f.subjects = Null
      /\ p.subjects # Null => f.subjects = Tags(Proxies(Get(p.outbounds, <<>>)))
  BY <1>1, ObservatoryIs
<1> HIDE DEF f
<1>3. Tidied(c) = [f EXCEPT !.outbounds = Proxies(Get(@, <<>>)) \o Specials(Get(@, <<>>))]
  BY Zenon DEF Tidied, FinalizeOutbounds, p, f
<1>4. Get(f.outbounds, <<>>) = obs
  BY <1>1, <1>2
<1>5. Tidied(c) = [f EXCEPT !.outbounds = all]
  BY <1>2, <1>3, <1>4 DEF Config
<1>6. all \in Seq(Outbound)
  BY ConfigFields, OutboundParts, ConcatRange
<1> HIDE DEF all
<1>7. /\ Tidied(c) \in Config
      /\ Tidied(c).outbounds = all /\ Tidied(c).routing = f.routing
      /\ Tidied(c).balancers = f.balancers
      /\ Tidied(c).rules = f.rules /\ Tidied(c).subjects = f.subjects
  <2>1. all \in Optional(Seq(Outbound))
    BY <1>6, Zenon DEF Optional
  <2> QED
    BY <2>1, <1>2, <1>5, SetOutbounds
<1>8. Tidied(c) \in Listed
  BY <1>6, <1>7, MakeListed
<1>9. Tidied(c).subjects # Null => Tidied(c).subjects = Tags(Proxies(obs))
  BY <1>1, <1>2, <1>7
<1> QED
  BY <1>1, <1>2, <1>7, <1>8, <1>9, Zenon DEF all, obs
-----------------------------------------------------------------------------
\* What the phases start from.

LEMMA MadeTypes ==
    /\ OurFallback \in Tag /\ BalancerTop \in Tag
    /\ \A n \in Nat : /\ Fallback(n) \in Tag /\ Custom(n) \in Tag
                      /\ Loopback(n) \in Tag /\ LoopTag(n) \in Tag
                      /\ BalancerFallback(n) \in Tag /\ BalancerCustom(n) \in Tag
                      /\ LoopbackOutbound(n) \in Outbound
    /\ \A in \in SUBSET Tag, out \in Optional(Tag), bal \in Optional(Tag) :
          Rule(in, out, bal) \in Rules
    /\ \A tag \in Tag, sel \in SUBSET Tag, fb \in Optional(Tag) :
          Balancer(tag, sel, fb) \in Balancers
    /\ \A ob \in Outbound, tag \in Tag : [ob EXCEPT !.tag = tag] \in Outbound
<1>1. /\ OurFallback \in Tag /\ BalancerTop \in Tag
      /\ \A n \in Nat : /\ Fallback(n) \in Tag /\ Custom(n) \in Tag
                        /\ Loopback(n) \in Tag /\ LoopTag(n) \in Tag
                        /\ BalancerFallback(n) \in Tag /\ BalancerCustom(n) \in Tag
  BY ConstantsAssumption DEF Tag, OurFallback, BalancerTop, Fallback, Custom, Loopback,
     LoopTag, BalancerFallback, BalancerCustom
<1>2. \A n \in Nat : LoopbackOutbound(n) \in Outbound
  BY <1>1 DEF LoopbackOutbound, Outbound, Protocols, Optional
<1>3. \A in \in SUBSET Tag, out \in Optional(Tag), bal \in Optional(Tag) :
          Rule(in, out, bal) \in Rules
  BY DEF Rule, Rules
<1>4. \A tag \in Tag, sel \in SUBSET Tag, fb \in Optional(Tag) :
          Balancer(tag, sel, fb) \in Balancers
  BY DEF Balancer, Balancers
<1>5. \A ob \in Outbound, tag \in Tag : [ob EXCEPT !.tag = tag] \in Outbound
  BY DEF Outbound
<1> QED
  BY <1>1, <1>2, <1>3, <1>4, <1>5

LEMMA RedirectedType ==
    ASSUME NEW rules \in Seq(Rules)
    PROVE  /\ Redirected(rules) \in Seq(Rules) /\ Len(Redirected(rules)) = Len(rules)
           /\ \A i \in 1 .. Len(rules) : Redirected(rules)[i] =
                 IF LoopTag(3) \in rules[i].inboundTag
                 THEN [rules[i] EXCEPT !.outboundTag = Null, !.balancerTag = BalancerFallback(3)]
                 ELSE rules[i]
<1>1. /\ Len(rules) \in Nat /\ DOMAIN rules = 1 .. Len(rules)
      /\ \A i \in 1 .. Len(rules) : rules[i] \in Rules
  OBVIOUS
<1>2. \A r \in Rules :
          [r EXCEPT !.outboundTag = Null, !.balancerTag = BalancerFallback(3)] \in Rules
  BY MadeTypes DEF Rules, Optional
<1>3. Redirected(rules) = [i \in 1 .. Len(rules) |->
          IF LoopTag(3) \in rules[i].inboundTag
          THEN [rules[i] EXCEPT !.outboundTag = Null, !.balancerTag = BalancerFallback(3)]
          ELSE rules[i]]
  BY <1>1, Zenon DEF Redirected
<1>4. Redirected(rules) \in [1 .. Len(rules) -> Rules]
  BY <1>1, <1>2, <1>3
<1>5. Redirected(rules) \in Seq(Rules) /\ Len(Redirected(rules)) = Len(rules)
  BY <1>1, <1>4
<1> QED
  BY <1>3, <1>5

LEMMA WithFallbackIs ==
    ASSUME NEW c \in Listed, NEW ob \in Outbound
    PROVE  LET t == WithFallback(c, ob)
           IN  /\ t \in Listed
               /\ t.outbounds = c.outbounds
                                \o <<[ob EXCEPT !.tag = OurFallback], LoopbackOutbound(4)>>
               /\ t.routing = c.routing /\ t.subjects = c.subjects
               /\ c.routing =>
                    /\ t.balancers = Append(Get(c.balancers, <<>>),
                                            Balancer(BalancerFallback(3), {Fallback(3)}, Loopback(4)))
                    /\ t.rules = IF c.rules = Null THEN Null
                                 ELSE Append(Redirected(c.rules),
                                             Rule({LoopTag(4)}, OurFallback, Null))
               /\ ~c.routing => t.balancers = Null /\ t.rules = Null
<1> DEFINE two == <<[ob EXCEPT !.tag = OurFallback], LoopbackOutbound(4)>>
           obs == c.outbounds \o two
           b == Append(Get(c.balancers, <<>>),
                       Balancer(BalancerFallback(3), {Fallback(3)}, Loopback(4)))
           r == IF c.rules = Null THEN Null
                ELSE Append(Redirected(c.rules), Rule({LoopTag(4)}, OurFallback, Null))
           u == [c EXCEPT !.outbounds = obs]
<1>1. c \in Config /\ c.outbounds \in Seq(Outbound)
  BY ListedFields
<1>2. obs \in Seq(Outbound)
  <2>1. [ob EXCEPT !.tag = OurFallback] \in Outbound /\ LoopbackOutbound(4) \in Outbound
    BY MadeTypes
  <2>2. two \in Seq(Outbound)
    BY <2>1
  <2> QED
    BY <1>1, <2>2, ConcatRange
<1>3. b \in Optional(Seq(Balancers))
  <2>1. Balancer(BalancerFallback(3), {Fallback(3)}, Loopback(4)) \in Balancers
    BY MadeTypes DEF Optional
  <2>2. b \in Seq(Balancers)
    BY <1>1, <2>1, ConfigFields, AppendRange
  <2> QED
    BY <2>2, Zenon DEF Optional
<1>4. r \in Optional(Seq(Rules))
  <2>1. Rule({LoopTag(4)}, OurFallback, Null) \in Rules
    BY MadeTypes DEF Optional
  <2>2. c.rules # Null => c.rules \in Seq(Rules)
    BY <1>1, ConfigFields, Zenon DEF Optional
  <2>3. c.rules # Null => r \in Seq(Rules)
    BY <2>1, <2>2, RedirectedType, AppendRange
  <2> QED
    BY <2>3, Zenon DEF Optional
<1>5. WithFallback(c, ob) = Routed([c EXCEPT !.outbounds = @ \o two], b, r)
  BY Zenon DEF WithFallback
<1>6. WithFallback(c, ob) = Routed(u, b, r)
  BY <1>1, <1>5 DEF Config
<1> HIDE DEF b, r, obs
<1>7. /\ u \in Config
      /\ u.outbounds = obs /\ u.routing = c.routing /\ u.subjects = c.subjects
  BY <1>1, <1>2, SetOutbounds DEF Optional
<1> HIDE DEF u
<1>8. LET t == Routed(u, b, r)
      IN  /\ t \in Config
          /\ t.outbounds = u.outbounds /\ t.routing = u.routing /\ t.subjects = u.subjects
          /\ u.routing => t.balancers = b /\ t.rules = r
          /\ ~u.routing => t.balancers = Null /\ t.rules = Null
  BY <1>3, <1>4, <1>7, RoutedIs
<1>9. WithFallback(c, ob) \in Listed
  BY <1>2, <1>6, <1>7, <1>8, MakeListed
<1> QED
  BY <1>6, <1>7, <1>8, <1>9, Zenon DEF b, r, obs

LEMMA ReserveIs ==
    ASSUME NEW c \in Config
    PROVE  LET t == Reserve(c)
               tops == TopBalancers(Get(c.balancers, <<>>))
           IN  /\ t \in Listed
               /\ t.outbounds = Append(Essentials(Get(c.outbounds, <<>>)), LoopbackOutbound(1))
               /\ t.routing = c.routing
               /\ c.routing =>
                    /\ t.balancers = FallingBack(FallingBack(tops, Null), Loopback(1))
                    /\ t.rules = OtherRules(Get(c.rules, <<>>))
               /\ ~c.routing => t.balancers = Null /\ t.rules = Null
<1> DEFINE obs == Essentials(Get(c.outbounds, <<>>))
           tops == FallingBack(TopBalancers(Get(c.balancers, <<>>)), Null)
           rules == OtherRules(Get(c.rules, <<>>))
           e == [c EXCEPT !.outbounds = obs]
           clean == CleanConfigForReserve(c)
           more == Append(obs, LoopbackOutbound(1))
           u == [clean EXCEPT !.outbounds = more]
           b == FallingBack(Get(clean.balancers, <<>>), Loopback(1))
<1>1. /\ obs \in Seq(Outbound) /\ rules \in Seq(Rules)
      /\ Get(c.balancers, <<>>) \in Seq(Balancers)
  BY ConfigFields, OutboundParts, RuleParts
<1>2. tops \in Seq(Balancers)
  BY <1>1, TopType, FallingBackType DEF Optional
<1>3. more \in Seq(Outbound)
  BY <1>1, MadeTypes, AppendRange
<1>4. clean = Routed([c EXCEPT !.outbounds = Essentials(Get(@, <<>>))], tops, rules)
  BY Zenon DEF CleanConfigForReserve
<1>5. clean = Routed(e, tops, rules)
  BY <1>4 DEF Config
<1> HIDE DEF clean, obs, tops, rules
<1>6. e \in Config /\ e.outbounds = obs /\ e.routing = c.routing
  BY <1>1, SetOutbounds DEF Optional
<1> HIDE DEF e
<1>7. /\ clean \in Config /\ clean.outbounds = obs /\ clean.routing = c.routing
      /\ c.routing => clean.balancers = tops /\ clean.rules = rules
      /\ ~c.routing => clean.balancers = Null /\ clean.rules = Null
  <2>1. tops \in Optional(Seq(Balancers)) /\ rules \in Optional(Seq(Rules))
    BY <1>1, <1>2, Zenon DEF Optional
  <2> QED
    BY <2>1, <1>5, <1>6, RoutedIs
<1>8. b \in Seq(Balancers)
  <2>1. Loopback(1) \in Optional(Tag)
    BY MadeTypes DEF Optional
  <2> QED
    BY <2>1, <1>7, ConfigFields, FallingBackType
<1>9. Reserve(c) = Routed([clean EXCEPT !.outbounds = Append(@, LoopbackOutbound(1))], b, clean.rules)
  BY Zenon DEF Reserve, clean
<1>10. Reserve(c) = Routed(u, b, clean.rules)
  BY <1>7, <1>9 DEF Config, more
<1> HIDE DEF more
<1>11. u \in Config /\ u.outbounds = more /\ u.routing = clean.routing
  BY <1>3, <1>7, SetOutbounds DEF Optional
<1> HIDE DEF u, b
<1>12. LET t == Routed(u, b, clean.rules)
       IN  /\ t \in Config
           /\ t.outbounds = u.outbounds /\ t.routing = u.routing
           /\ u.routing => t.balancers = b /\ t.rules = clean.rules
           /\ ~u.routing => t.balancers = Null /\ t.rules = Null
  <2>1. b \in Optional(Seq(Balancers)) /\ clean.rules \in Optional(Seq(Rules))
    BY <1>7, <1>8, ConfigFields, Zenon DEF Optional
  <2> QED
    BY <2>1, <1>11, RoutedIs
<1>13. Reserve(c) \in Listed
  BY <1>3, <1>10, <1>11, <1>12, MakeListed
<1>14. c.routing => b = FallingBack(tops, Loopback(1))
  <2>1. c.routing => Get(clean.balancers, <<>>) = tops
    BY <1>2, <1>7, NotNull, Zenon DEF Get
  <2> QED
    BY <2>1, Zenon DEF b
<1> QED
  BY <1>7, <1>10, <1>11, <1>12, <1>13, <1>14, Zenon DEF more, obs, tops, rules
-----------------------------------------------------------------------------
\* Type correctness.

\* What is known at the stages of the function.
Inv ==
    /\ TypeOK
    /\ stage \in {"main", "unchanged"} => configs = <<>>
    /\ stage \in {"reserve", "slots", "done"} =>
          /\ upstream # <<>> /\ configs # <<>>
          /\ ours # <<>> => upstream[1].outbounds # Null

LEMMA SelectionIs ==
    ASSUME NEW o \in Selections
    PROVE  /\ o \in Seq(Outbound) /\ Len(o) \in 0 .. MaxOurs
           /\ \A i \in 1 .. Len(o) : o[i] = Proxy(<<"p", i>>, i)
<1>1. PICK n \in 0 .. MaxOurs : o = [i \in 1 .. n |-> Proxy(<<"p", i>>, i)]
  BY Zenon DEF Selections
<1>2. n \in Nat
  BY ConstantsAssumption
<1>3. \A i \in 1 .. n : Proxy(<<"p", i>>, i) \in Outbound
  BY <1>2, ConstantsAssumption DEF Proxy, Outbound, Protocols, Tag, Optional
<1>4. Len(o) = n /\ DOMAIN o = 1 .. n
  BY <1>1, <1>2
<1>5. \A i \in 1 .. n : o[i] = Proxy(<<"p", i>>, i)
  BY <1>1
<1>6. o \in [1 .. n -> Outbound]
  BY <1>1, <1>3
<1> QED
  BY <1>2, <1>4, <1>5, <1>6

LEMMA FirstUpstream ==
    ASSUME NEW u \in Upstreams, u # <<>>
    PROVE  u[1] \in Config /\ Foreign(u[1])
<1>1. u \in Seq({c \in Config : Foreign(c)})
  BY ConstantsAssumption
<1>2. 1 \in DOMAIN u
  BY <1>1
<1> QED
  BY <1>1, <1>2

\* What InjectNext does to the configuration.
LEMMA Extended ==
    ASSUME Inv, InjectNext
    PROVE  LET ob == [ours[idx + 1] EXCEPT !.tag = Custom(s + 1)]
           IN  /\ ob \in Outbound /\ s \in 0 .. 3 /\ idx + 1 \in 1 .. Len(ours)
               /\ current \in Listed /\ current' \in Listed
               /\ current'.routing = current.routing
               /\ IsLast =>
                    /\ current'.outbounds = Append(current.outbounds, ob)
                    /\ current'.balancers = current.balancers
                    /\ current'.rules = current.rules
               /\ ~IsLast =>
                    /\ current'.outbounds = current.outbounds \o <<ob, LoopbackOutbound(s + 2)>>
                    /\ current.routing =>
                          /\ current'.balancers =
                                Append(Get(current.balancers, <<>>),
                                       Balancer(BalancerCustom(s + 1), {ob.tag}, Loopback(s + 2)))
                          /\ current'.rules = current.rules
                    /\ ~current.routing => current'.balancers = Null /\ current'.rules = Null
<1> DEFINE ob == [ours[idx + 1] EXCEPT !.tag = Custom(s + 1)]
           longer == current.outbounds \o <<ob, LoopbackOutbound(s + 2)>>
           u == [current EXCEPT !.outbounds = longer]
           b == Append(Get(current.balancers, <<>>),
                       Balancer(BalancerCustom(s + 1), {ob.tag}, Loopback(s + 2)))
<1>1. s \in 0 .. 3 /\ idx + 1 \in 1 .. Len(ours) /\ s + 1 \in Nat /\ s + 2 \in Nat
  BY SelectionIs, ConstantsAssumption DEF Inv, TypeOK, InjectNext
<1>2. ours[idx + 1] \in Outbound
  BY <1>1, SelectionIs DEF Inv, TypeOK
<1>3. ob \in Outbound /\ ob.tag \in Tag
  BY <1>1, <1>2, MadeTypes DEF Outbound
<1>4. /\ current \in Listed /\ current \in Config
      /\ current.outbounds \in Seq(Outbound)
      /\ Get(current.balancers, <<>>) \in Seq(Balancers)
      /\ current.rules \in Optional(Seq(Rules))
  BY ListedFields, ConfigFields, Zenon DEF Inv, TypeOK, InjectNext, Optional
<1>5. IsLast => current' = [current EXCEPT !.outbounds = Append(@, ob)]
  BY Zenon DEF InjectNext
<1>6. ~IsLast => current' = Routed(
          [current EXCEPT !.outbounds = @ \o <<ob, LoopbackOutbound(s + 2)>>], b, current.rules)
  BY Zenon DEF InjectNext
<1> HIDE DEF ob
<1>7. CASE IsLast
  <2> DEFINE obs == Append(current.outbounds, ob)
  <2>1. obs \in Seq(Outbound)
    BY <1>3, <1>4, AppendRange
  <2>2. current' = [current EXCEPT !.outbounds = obs]
    BY <1>4, <1>5, <1>7 DEF Config
  <2> HIDE DEF obs
  <2>3. /\ current' \in Config /\ current'.outbounds = obs
        /\ current'.routing = current.routing
        /\ current'.balancers = current.balancers /\ current'.rules = current.rules
    BY <1>4, <2>1, <2>2, SetOutbounds DEF Optional
  <2>4. current' \in Listed
    BY <2>1, <2>3, MakeListed
  <2> QED
    BY <1>1, <1>3, <1>4, <1>7, <2>3, <2>4 DEF ob, obs
<1>8. CASE ~IsLast
  <2>1. longer \in Seq(Outbound)
    <3>1. <<ob, LoopbackOutbound(s + 2)>> \in Seq(Outbound)
      BY <1>1, <1>3, MadeTypes
    <3> QED
      BY <3>1, <1>4, ConcatRange
  <2>2. b \in Seq(Balancers) /\ b \in Optional(Seq(Balancers))
    <3>1. Balancer(BalancerCustom(s + 1), {ob.tag}, Loopback(s + 2)) \in Balancers
      BY <1>1, <1>3, MadeTypes DEF Optional
    <3>2. b \in Seq(Balancers)
      BY <3>1, <1>4, AppendRange
    <3> QED
      BY <3>2, Zenon DEF Optional
  <2>3. current' = Routed(u, b, current.rules)
    BY <1>4, <1>6, <1>8 DEF Config
  <2> HIDE DEF longer, b
  <2>4. u \in Config /\ u.outbounds = longer /\ u.routing = current.routing
    BY <1>4, <2>1, SetOutbounds DEF Optional
  <2> HIDE DEF u
  <2>5. LET t == Routed(u, b, current.rules)
        IN  /\ t \in Config
            /\ t.outbounds = u.outbounds /\ t.routing = u.routing
            /\ u.routing => t.balancers = b /\ t.rules = current.rules
            /\ ~u.routing => t.balancers = Null /\ t.rules = Null
    BY <1>4, <2>2, <2>4, RoutedIs
  <2>6. current' \in Listed
    BY <2>1, <2>3, <2>4, <2>5, MakeListed
  <2> QED
    BY <1>1, <1>3, <1>4, <1>8, <2>3, <2>4, <2>5, <2>6 DEF ob, longer, b
<1> QED
  BY <1>7, <1>8

\* What CloseReserve finishes.
LEMMA Closed ==
    ASSUME Inv, CloseReserve
    PROVE  LET c == Routed(current, current.balancers, loopRules \o Get(current.rules, <<>>))
           IN  /\ current \in Listed /\ c \in Config
               /\ c.outbounds = current.outbounds /\ c.routing = current.routing
               /\ c.routing => /\ c.balancers = current.balancers
                               /\ c.rules = loopRules \o Get(current.rules, <<>>)
               /\ ~c.routing => c.balancers = Null /\ c.rules = Null
               /\ configs' = Append(configs, Tidied(c))
<1> DEFINE rules == loopRules \o Get(current.rules, <<>>)
<1>1. /\ current \in Listed /\ current \in Config
      /\ current.balancers \in Optional(Seq(Balancers))
      /\ Get(current.rules, <<>>) \in Seq(Rules) /\ loopRules \in Seq(Rules)
  BY ListedFields, ConfigFields, Zenon DEF Inv, TypeOK, CloseReserve, Optional
<1>2. rules \in Seq(Rules)
  BY <1>1, ConcatRange
<1>3. rules \in Optional(Seq(Rules))
  BY <1>2, Zenon DEF Optional
<1>4. configs' = Append(configs, Tidied(Routed(current, current.balancers, rules)))
  BY Zenon DEF CloseReserve
<1> HIDE DEF rules
<1>5. LET t == Routed(current, current.balancers, rules)
      IN  /\ t \in Config
          /\ t.outbounds = current.outbounds /\ t.routing = current.routing
          /\ current.routing => t.balancers = current.balancers /\ t.rules = rules
          /\ ~current.routing => t.balancers = Null /\ t.rules = Null
  BY <1>1, <1>3, RoutedIs
<1> QED
  BY <1>1, <1>4, <1>5, Zenon DEF rules

\* What InjectMain finishes.
MainStart == IF ours = <<>> THEN upstream[1] ELSE WithFallback(upstream[1], ours[1])

LEMMA Started ==
    ASSUME Inv, InjectMain
    PROVE  /\ MainStart \in Config /\ upstream[1] \in Config /\ Foreign(upstream[1])
           /\ ours # <<>> => upstream[1] \in Listed /\ ours[1] \in Outbound
           /\ configs' = <<Tidied(MainStart)>>
<1>1. upstream[1] \in Config /\ Foreign(upstream[1])
  BY FirstUpstream DEF Inv, TypeOK, InjectMain
<1>2. ours # <<>> => upstream[1] \in Listed
  BY <1>1, Zenon DEF InjectMain, Listed
<1>3. ours # <<>> => ours[1] \in Outbound
  BY SelectionIs DEF Inv, TypeOK
<1>4. MainStart \in Config
  BY <1>1, <1>2, <1>3, WithFallbackIs, ListedFields DEF MainStart
<1>5. configs' = <<Tidied(MainStart)>>
  BY Zenon DEF InjectMain, MainStart
<1> QED
  BY <1>1, <1>2, <1>3, <1>4, <1>5
LEMMA InitInv == Init => Inv
<1> SUFFICES ASSUME Init PROVE Inv
  OBVIOUS
<1>1. <<>> \in Seq(Listed) /\ <<>> \in Seq(Rules) /\ Len(<<>>) = 0
  OBVIOUS
<1>2. 0 \in 0 .. MaxOurs + 1 /\ 0 \in 0 .. 4
  BY ConstantsAssumption
<1> QED
  BY <1>1, <1>2 DEF Init, Inv, TypeOK, Optional

LEMMA NextInv == Inv /\ [Next]_vars => Inv'
<1> SUFFICES ASSUME Inv, [Next]_vars PROVE Inv'
  OBVIOUS
<1>1. ASSUME UNCHANGED vars PROVE Inv'
  BY <1>1 DEF Inv, TypeOK, vars
<1>2. ASSUME ReturnUpstream PROVE Inv'
  BY <1>2 DEF Inv, TypeOK, ReturnUpstream
<1>3. ASSUME InjectMain PROVE Inv'
  <2>1. configs' = <<Tidied(MainStart)>> /\ Tidied(MainStart) \in Listed
    BY <1>3, Started, TidiedIs
  <2>2. configs' \in Seq(Listed) /\ configs' # <<>>
    BY <2>1
  <2>3. idx' \in 0 .. MaxOurs + 1
    BY <1>3, ConstantsAssumption DEF InjectMain
  <2> QED
    BY <1>3, <2>2, <2>3 DEF Inv, TypeOK, InjectMain
<1>4. ASSUME OpenReserve PROVE Inv'
  <2>1. upstream[1] \in Config
    BY <1>4, FirstUpstream DEF Inv, TypeOK, OpenReserve
  <2>2. current' \in Listed /\ current' # Null
    BY <1>4, <2>1, ReserveIs, ListedFields, NotNull DEF OpenReserve
  <2>3. loopRules' \in Seq(Rules) /\ Len(loopRules') = 0 /\ s' = 0
    BY <1>4 DEF OpenReserve
  <2> QED
    BY <1>4, <2>2, <2>3 DEF Inv, TypeOK, OpenReserve, Optional
<1>5. ASSUME InjectNext PROVE Inv'
  <2>1. current' \in Listed /\ current' # Null
    BY <1>5, Extended, ListedFields, NotNull
  <2>2. idx' \in 0 .. MaxOurs + 1 /\ s' \in 0 .. 4 /\ s' = s + 1
    BY <1>5, Extended, SelectionIs, ConstantsAssumption DEF Inv, TypeOK, InjectNext
  <2>3. loopRules' \in Seq(Rules) /\ Len(loopRules') = s'
    <3>1. s \in 0 .. 3 /\ s + 1 \in Nat /\ loopRules \in Seq(Rules) /\ Len(loopRules) = s
      BY <1>5, Extended DEF Inv, TypeOK
    <3>2. PICK r \in Rules : loopRules' = Append(loopRules, r)
      <4>1. Custom(s + 1) \in Tag /\ [ours[idx + 1] EXCEPT !.tag = Custom(s + 1)] \in Outbound
        BY <1>5, <3>1, Extended, MadeTypes
      <4>2. [ours[idx + 1] EXCEPT !.tag = Custom(s + 1)].tag \in Tag
        BY <4>1 DEF Outbound
      <4>3. /\ Rule({LoopTag(s + 1)}, [ours[idx + 1] EXCEPT !.tag = Custom(s + 1)].tag, Null) \in Rules
            /\ Rule({LoopTag(s + 1)}, Null, BalancerCustom(s + 1)) \in Rules
        BY <3>1, <4>2, MadeTypes DEF Optional
      <4> QED
        BY <1>5, <4>3, Zenon DEF InjectNext
    <3> QED
      BY <3>1, <3>2, <2>2
  <2> QED
    BY <1>5, <2>1, <2>2, <2>3 DEF Inv, TypeOK, InjectNext, Optional
<1>6. ASSUME CloseReserve PROVE Inv'
  <2>1. PICK c \in Config : configs' = Append(configs, Tidied(c))
    BY <1>6, Closed
  <2>2. Tidied(c) \in Listed
    BY TidiedIs
  <2>3. configs' \in Seq(Listed) /\ configs' # <<>>
    BY <2>1, <2>2 DEF Inv, TypeOK
  <2> QED
    BY <1>6, <2>3 DEF Inv, TypeOK, CloseReserve, Optional
<1>7. ASSUME Return PROVE Inv'
  BY <1>7 DEF Inv, TypeOK, Return
<1> QED
  BY <1>1, <1>2, <1>3, <1>4, <1>5, <1>6, <1>7 DEF Next

\* The invariant of the types holds in every reachable state.
THEOREM InvHolds == Spec => []Inv
BY InitInv, NextInv, PTL DEF Spec

\* Every variable keeps its type, and a finished configuration has a list of
\* outbounds: whatever parts the upstream's answer lacks, inject_outbounds
\* never builds on a part that is not there.
THEOREM TypeCorrect == Spec => []TypeOK
<1>1. Inv => TypeOK
  BY DEF Inv
<1> QED
  BY <1>1, InvHolds, PTL
-----------------------------------------------------------------------------
\* Finished configurations.

\* Every finished configuration was tidied.
AllTidied == \A k \in DOMAIN configs : \E c \in Config : configs[k] = Tidied(c)

LEMMA AppendTidied ==
    ASSUME NEW list \in Seq(Listed), \A k \in DOMAIN list : \E c \in Config : list[k] = Tidied(c),
           NEW d \in Config
    PROVE  \A k \in DOMAIN Append(list, Tidied(d)) :
              \E c \in Config : Append(list, Tidied(d))[k] = Tidied(c)
<1> DEFINE longer == Append(list, Tidied(d))
<1>1. /\ DOMAIN list = 1 .. Len(list) /\ Len(list) \in Nat
      /\ DOMAIN longer = 1 .. Len(list) + 1
      /\ \A k \in 1 .. Len(list) : longer[k] = list[k]
      /\ longer[Len(list) + 1] = Tidied(d)
  OBVIOUS
<1> HIDE DEF longer
<1>2. ASSUME NEW k \in DOMAIN longer
      PROVE  \E c \in Config : longer[k] = Tidied(c)
  <2>1. CASE k \in 1 .. Len(list)
    BY <2>1, <1>1, Zenon
  <2>2. CASE k \notin 1 .. Len(list)
    <3>1. k = Len(list) + 1
      BY <2>2, <1>1
    <3> QED
      BY <3>1, <1>1, Zenon
  <2> QED
    BY <2>1, <2>2
<1> QED
  BY <1>2 DEF longer

LEMMA TidiedHolds == Spec => []AllTidied
<1>1. Init => AllTidied
  BY DEF Init, AllTidied
<1>2. Inv /\ AllTidied /\ [Next]_vars => AllTidied'
  <2> SUFFICES ASSUME Inv, AllTidied, [Next]_vars PROVE AllTidied'
    OBVIOUS
  <2>1. ASSUME UNCHANGED configs PROVE AllTidied'
    BY <2>1 DEF AllTidied
  <2>2. ASSUME InjectMain PROVE AllTidied'
    <3>1. configs' = <<Tidied(MainStart)>> /\ MainStart \in Config
      BY <2>2, Started
    <3>2. DOMAIN configs' = {1} /\ configs'[1] = Tidied(MainStart)
      BY <3>1
    <3> QED
      BY <3>1, <3>2, Zenon DEF AllTidied
  <2>3. ASSUME CloseReserve PROVE AllTidied'
    <3>1. PICK c \in Config : configs' = Append(configs, Tidied(c))
      BY <2>3, Closed
    <3>2. configs \in Seq(Listed)
      BY DEF Inv, TypeOK
    <3> QED
      BY <3>1, <3>2, AppendTidied DEF AllTidied
  <2> QED
    BY <2>1, <2>2, <2>3 DEF Next, vars, ReturnUpstream, OpenReserve, InjectNext, Return
<1> QED
  BY <1>1, <1>2, InvHolds, PTL DEF Spec

\* What tidying does to the outbounds.
LEMMA TidiedOutbounds ==
    ASSUME NEW c \in Config
    PROVE  LET t == Tidied(c)
           IN  /\ t.outbounds \in Seq(Outbound)
               /\ ToSet(t.outbounds) = ToSet(Get(c.outbounds, <<>>))
               /\ t.subjects # Null =>
                    ToSet(t.subjects) = {ob.tag : ob \in {x \in ToSet(t.outbounds) : ~IsSpecial(x)}}
               /\ (\E ob \in ToSet(t.outbounds) : ~IsSpecial(ob)) => ~IsSpecial(t.outbounds[1])
<1> DEFINE t == Tidied(c)
           obs == Get(c.outbounds, <<>>)
<1>1. /\ t.outbounds = Proxies(obs) \o Specials(obs)
      /\ t.subjects # Null => t.subjects = Tags(Proxies(obs))
  BY TidiedIs
<1>2. /\ obs \in Seq(Outbound)
      /\ Proxies(obs) \in Seq(Outbound) /\ Specials(obs) \in Seq(Outbound)
      /\ ToSet(Proxies(obs)) = {ob \in ToSet(obs) : ~IsSpecial(ob)}
      /\ ToSet(Specials(obs)) = {ob \in ToSet(obs) : IsSpecial(ob)}
  BY ConfigFields, OutboundParts
<1> HIDE DEF t, obs
<1>3. /\ t.outbounds \in Seq(Outbound)
      /\ ToSet(t.outbounds) = ToSet(Proxies(obs)) \cup ToSet(Specials(obs))
  BY <1>1, <1>2, ConcatRange
<1>4. ToSet(t.outbounds) = ToSet(obs)
  BY <1>2, <1>3, Zenon
<1>5. t.subjects # Null =>
          ToSet(t.subjects) = {ob.tag : ob \in {x \in ToSet(t.outbounds) : ~IsSpecial(x)}}
  <2>1. ToSet(Tags(Proxies(obs))) = {ob.tag : ob \in ToSet(Proxies(obs))}
    BY <1>2, TagsOf
  <2> QED
    BY <2>1, <1>1, <1>2, <1>4, Zenon
<1>6. ASSUME NEW ob \in ToSet(t.outbounds), ~IsSpecial(ob)
      PROVE  ~IsSpecial(t.outbounds[1])
  <2>1. ob \in ToSet(Proxies(obs))
    BY <1>2, <1>4, <1>6, Zenon
  <2>2. PICK i \in DOMAIN Proxies(obs) : ob = Proxies(obs)[i]
    BY <2>1, Zenon DEF ToSet
  <2>3. 1 \in DOMAIN Proxies(obs) /\ t.outbounds[1] = Proxies(obs)[1]
    BY <2>2, <1>1, <1>2
  <2>4. t.outbounds[1] \in ToSet(Proxies(obs))
    BY <2>3, Zenon DEF ToSet
  <2> QED
    BY <2>4, <1>2, Zenon
<1> QED
  BY <1>3, <1>4, <1>5, <1>6, Zenon DEF t, obs

\* Traffic that no rule matches goes to a proxy, if there is any: the order of
\* the outbounds in the upstream's answer does not matter.
THEOREM DefaultIsProxyHolds == Spec => []DefaultIsProxy
<1>1. AllTidied => DefaultIsProxy
  <2> SUFFICES ASSUME AllTidied, NEW k \in DOMAIN configs,
                      NEW i \in DOMAIN configs[k].outbounds,
                      ~IsSpecial(configs[k].outbounds[i])
               PROVE  ~IsSpecial(configs[k].outbounds[1])
    BY Zenon DEF DefaultIsProxy
  <2>1. PICK c \in Config : configs[k] = Tidied(c)
    BY Zenon DEF AllTidied
  <2>2. configs[k].outbounds[i] \in ToSet(configs[k].outbounds)
    BY Zenon DEF ToSet
  <2> QED
    BY <2>1, <2>2, TidiedOutbounds
<1> QED
  BY <1>1, TidiedHolds, PTL

\* Where there is an observatory, it pings what a balancer may select: the
\* outbounds that were injected, too, and in the reserve configurations nothing
\* that was left behind.
THEOREM BalancedArePingedHolds == Spec => []BalancedArePinged
<1>1. AllTidied => BalancedArePinged
  <2> SUFFICES ASSUME AllTidied, NEW k \in DOMAIN configs, configs[k].subjects # Null
               PROVE  ToSet(configs[k].subjects)
                        = {ob.tag : ob \in {x \in ToSet(configs[k].outbounds) : ~IsSpecial(x)}}
    BY DEF BalancedArePinged
  <2>1. PICK c \in Config : configs[k] = Tidied(c)
    BY Zenon DEF AllTidied
  <2> QED
    BY <2>1, TidiedOutbounds
<1> QED
  BY <1>1, TidiedHolds, PTL
-----------------------------------------------------------------------------
(***************************************************************************)
(* The promise of FallbackChains.  A list of outbounds carries ours from   *)
(* lo + 1 to hi if it has exactly those, in order, all of them proxies.    *)
(***************************************************************************)
Carries(obs, lo, hi) ==
    /\ \A ob \in ToSet(obs) :
          ob.source = 0 \/ (ob.source \in lo + 1 .. hi /\ ob.protocol = "proxy")
    /\ \A i \in lo + 1 .. hi : \E ob \in ToSet(obs) : ob.source = i
    /\ \A j, k \in 1 .. Len(obs) :
          j < k /\ obs[j].source # 0 /\ obs[k].source # 0 => obs[j].source < obs[k].source

LEMMA SourceType ==
    ASSUME NEW obs \in Seq(Outbound)
    PROVE  /\ Len(obs) \in Nat /\ DOMAIN obs = 1 .. Len(obs)
           /\ \A i \in 1 .. Len(obs) : obs[i] \in ToSet(obs) /\ obs[i].source \in Nat
           /\ \A ob \in ToSet(obs) : ob.source \in Nat /\ \E i \in 1 .. Len(obs) : ob = obs[i]
<1>1. /\ Len(obs) \in Nat /\ DOMAIN obs = 1 .. Len(obs)
      /\ \A i \in 1 .. Len(obs) : obs[i] \in Outbound
  OBVIOUS
<1>2. \A ob \in Outbound : ob.source \in Nat
  BY DEF Outbound
<1>3. ToSet(obs) = {obs[i] : i \in 1 .. Len(obs)}
  BY <1>1, Zenon DEF ToSet
<1> QED
  BY <1>1, <1>2, <1>3, Zenon

\* A list without any of ours.
LEMMA CarriesNothing ==
    ASSUME NEW obs \in Seq(Outbound), \A ob \in ToSet(obs) : ob.source = 0, NEW n \in Nat
    PROVE  Carries(obs, n, n)
<1>1. n + 1 .. n = {}
  OBVIOUS
<1>2. \A i \in 1 .. Len(obs) : obs[i].source = 0
  BY SourceType
<1> QED
  BY <1>1, <1>2 DEF Carries

LEMMA CarriesBoth ==
    ASSUME NEW a \in Seq(Outbound), NEW b \in Seq(Outbound),
           NEW lo \in Nat, NEW mid \in Nat, NEW hi \in Nat, lo <= mid, mid <= hi,
           Carries(a, lo, mid), Carries(b, mid, hi)
    PROVE  Carries(a \o b, lo, hi)
<1> DEFINE t == a \o b
<1>1. /\ t \in Seq(Outbound) /\ ToSet(t) = ToSet(a) \cup ToSet(b)
      /\ Len(t) = Len(a) + Len(b) /\ Len(a) \in Nat /\ Len(b) \in Nat
      /\ \A i \in 1 .. Len(a) : t[i] = a[i]
      /\ \A i \in 1 .. Len(b) : t[Len(a) + i] = b[i]
  BY ConcatRange
<1> HIDE DEF t
<1>2. ASSUME NEW ob \in ToSet(t)
      PROVE  ob.source = 0 \/ (ob.source \in lo + 1 .. hi /\ ob.protocol = "proxy")
  <2>1. ob.source = 0 \/ (ob.protocol = "proxy"
                          /\ (ob.source \in lo + 1 .. mid \/ ob.source \in mid + 1 .. hi))
    BY <1>1, Zenon DEF Carries
  <2> QED
    BY <2>1
<1>3. ASSUME NEW i \in lo + 1 .. hi
      PROVE  \E ob \in ToSet(t) : ob.source = i
  <2>1. i \in lo + 1 .. mid \/ i \in mid + 1 .. hi
    OBVIOUS
  <2> QED
    BY <2>1, <1>1, Zenon DEF Carries
<1>4. ASSUME NEW j \in 1 .. Len(t), NEW k \in 1 .. Len(t), j < k,
             t[j].source # 0, t[k].source # 0
      PROVE  t[j].source < t[k].source
  <2>1. CASE k <= Len(a)
    <3>1. j \in 1 .. Len(a) /\ k \in 1 .. Len(a)
      BY <2>1, <1>1, <1>4
    <3> QED
      BY <3>1, <1>1, <1>4 DEF Carries
  <2>2. CASE j <= Len(a) /\ ~ (k <= Len(a))
    <3>1. j \in 1 .. Len(a) /\ k - Len(a) \in 1 .. Len(b) /\ Len(a) + (k - Len(a)) = k
      BY <2>2, <1>1
    <3>2. t[j] = a[j] /\ t[k] = b[k - Len(a)]
      BY <3>1, <1>1
    <3>3. a[j] \in ToSet(a) /\ b[k - Len(a)] \in ToSet(b)
      BY <3>1, SourceType
    <3>4. t[j].source \in lo + 1 .. mid /\ t[k].source \in mid + 1 .. hi
      BY <3>2, <3>3, <1>4, Zenon DEF Carries
    <3> QED
      BY <3>4
  <2>3. CASE ~ (j <= Len(a))
    <3>1. /\ j - Len(a) \in 1 .. Len(b) /\ Len(a) + (j - Len(a)) = j
          /\ k - Len(a) \in 1 .. Len(b) /\ Len(a) + (k - Len(a)) = k
          /\ j - Len(a) < k - Len(a)
      BY <2>3, <1>1, <1>4
    <3>2. t[j] = b[j - Len(a)] /\ t[k] = b[k - Len(a)]
      BY <3>1, <1>1
    <3> QED
      BY <3>1, <3>2, <1>4 DEF Carries
  <2> QED
    BY <2>1, <2>2, <2>3
<1>5. Carries(t, lo, hi)
  BY <1>2, <1>3, <1>4, Zenon DEF Carries
<1> QED
  BY <1>5 DEF t

\* A part of a list that leaves out none of ours.
LEMMA CarriesPart ==
    ASSUME NEW obs \in Seq(Outbound), NEW lo \in Nat, NEW hi \in Nat, Carries(obs, lo, hi), NEW I,
           \A i \in 1 .. Len(obs) : obs[i].source # 0 => i \in I
    PROVE  Carries(Where(obs, I), lo, hi)
<1> DEFINE t == Where(obs, I)
<1>1. t \in Seq(Outbound) /\ \E at : Selected(obs, I, t, at)
  BY WhereKeeps
<1>2. PICK at : Selected(obs, I, t, at)
  BY <1>1
<1>3. ToSet(t) = {obs[i] : i \in DOMAIN obs \cap I}
  BY WhereRange
<1> HIDE DEF t
<1>4. \A ob \in ToSet(t) : ob \in ToSet(obs)
  BY <1>3, Zenon DEF ToSet
<1>5. \A ob \in ToSet(obs) : ob.source # 0 => ob \in ToSet(t)
  <2> SUFFICES ASSUME NEW ob \in ToSet(obs), ob.source # 0
               PROVE  ob \in ToSet(t)
    OBVIOUS
  <2>1. PICK i \in 1 .. Len(obs) : ob = obs[i]
    BY SourceType
  <2>2. i \in DOMAIN obs \cap I
    BY <2>1, SourceType
  <2> QED
    BY <2>1, <2>2, <1>3, Zenon
<1>6. ASSUME NEW i \in lo + 1 .. hi
      PROVE  \E ob \in ToSet(t) : ob.source = i
  <2>1. PICK ob \in ToSet(obs) : ob.source = i
    BY Zenon DEF Carries
  <2>2. i # 0
    OBVIOUS
  <2> QED
    BY <2>1, <2>2, <1>5
<1>7. ASSUME NEW j \in 1 .. Len(t), NEW k \in 1 .. Len(t), j < k,
             t[j].source # 0, t[k].source # 0
      PROVE  t[j].source < t[k].source
  <2>1. /\ t[j] = obs[at[j]] /\ t[k] = obs[at[k]] /\ at[j] < at[k]
        /\ at[j] \in 1 .. Len(obs) /\ at[k] \in 1 .. Len(obs)
    BY <1>2, <1>7 DEF Selected
  <2> QED
    BY <2>1, <1>7 DEF Carries
<1>8. Carries(t, lo, hi)
  BY <1>4, <1>6, <1>7, Zenon DEF Carries
<1> QED
  BY <1>8 DEF t

\* Tidying keeps ours, in order.
LEMMA CarriesTidied ==
    ASSUME NEW c \in Config, NEW lo \in Nat, NEW hi \in Nat, lo <= hi,
           Carries(Get(c.outbounds, <<>>), lo, hi)
    PROVE  Carries(Tidied(c).outbounds, lo, hi)
<1> DEFINE obs == Get(c.outbounds, <<>>)
<1>1. /\ obs \in Seq(Outbound)
      /\ Proxies(obs) \in Seq(Outbound) /\ Specials(obs) \in Seq(Outbound)
      /\ ToSet(Specials(obs)) = {ob \in ToSet(obs) : IsSpecial(ob)}
  BY ConfigFields, OutboundParts
<1>2. Tidied(c).outbounds = Proxies(obs) \o Specials(obs)
  BY TidiedIs
<1>3. Carries(obs, lo, hi)
  OBVIOUS
<1> HIDE DEF obs
<1>4. \A ob \in ToSet(obs) : ob.source # 0 => ~IsSpecial(ob)
  <2>1. "proxy" \notin {"loopback", "freedom", "blackhole"}
    OBVIOUS
  <2> QED
    BY <1>3, <2>1, Zenon DEF Carries, IsSpecial
<1>5. Carries(Proxies(obs), lo, hi)
  <2> DEFINE I == {i \in DOMAIN obs : ~IsSpecial(obs[i])}
  <2>1. \A i \in 1 .. Len(obs) : obs[i].source # 0 => i \in I
    BY <1>1, <1>4, SourceType
  <2> HIDE DEF I
  <2>2. Carries(Where(obs, I), lo, hi)
    BY <1>1, <1>3, <2>1, CarriesPart
  <2> QED
    BY <2>2, Zenon DEF I, Proxies
<1>6. Carries(Specials(obs), hi, hi)
  <2>1. \A ob \in ToSet(Specials(obs)) : ob.source = 0
    BY <1>1, <1>4, Zenon
  <2> QED
    BY <1>1, <2>1, CarriesNothing
<1> QED
  BY <1>1, <1>2, <1>5, <1>6, CarriesBoth

\* Our outbounds in a configuration.
LEMMA OwnIs ==
    ASSUME NEW c \in Listed, NEW lo \in Nat, NEW hi \in Nat, lo <= hi,
           Carries(c.outbounds, lo, hi)
    PROVE  /\ Own(c) \in Seq(Outbound) /\ Len(Own(c)) = hi - lo
           /\ \A i \in 1 .. hi - lo : Own(c)[i].source = lo + i
<1> DEFINE obs == c.outbounds
           I == {i \in DOMAIN obs : obs[i].source # 0}
           w == Where(obs, I)
           f == [n \in 1 .. Len(w) |-> w[n].source]
<1>1. obs \in Seq(Outbound) /\ Own(c) = w
  BY ListedFields DEF Own
<1>2. w \in Seq(Outbound) /\ \E at : Selected(obs, I, w, at)
  BY <1>1, WhereKeeps
<1>3. PICK at : Selected(obs, I, w, at)
  BY <1>2
<1>4. Carries(obs, lo, hi)
  OBVIOUS
<1>5. \A i \in I : i \in 1 .. Len(obs) /\ obs[i].source # 0 /\ obs[i] \in ToSet(obs)
  BY <1>1, SourceType
<1>6. \A i \in 1 .. Len(obs) : obs[i].source # 0 => i \in I
  BY <1>1
<1> HIDE DEF obs, I, w
<1>7. Len(w) \in Nat
  BY <1>2
<1>8. \A n \in 1 .. Len(w) : f[n] = obs[at[n]].source /\ at[n] \in I
  BY <1>3, Zenon DEF Selected
<1>9. \A n \in 1 .. Len(w) : f[n] \in lo + 1 .. hi
  BY <1>4, <1>5, <1>8, Zenon DEF Carries
<1>10. f \in [1 .. Len(w) -> lo + 1 .. hi]
  BY <1>9
<1> HIDE DEF f
<1>11. ASSUME NEW j \in 1 .. Len(w), NEW k \in 1 .. Len(w), j < k
       PROVE  f[j] < f[k]
  <2>1. at[j] < at[k]
    BY <1>3, <1>11, Zenon DEF Selected
  <2> QED
    BY <2>1, <1>4, <1>5, <1>8 DEF Carries
<1>12. ASSUME NEW i \in lo + 1 .. hi
       PROVE  \E k \in 1 .. Len(w) : f[k] = i
  <2>1. PICK ob \in ToSet(obs) : ob.source = i
    BY <1>4, Zenon DEF Carries
  <2>2. PICK n \in 1 .. Len(obs) : ob = obs[n]
    BY <1>1, SourceType
  <2>3. n \in I
    <3>1. i # 0
      OBVIOUS
    <3> QED
      BY <3>1, <2>1, <2>2, <1>6
  <2>4. PICK k \in 1 .. Len(w) : at[k] = n
    BY <2>2, <2>3, <1>3, Zenon DEF Selected
  <2> QED
    BY <2>1, <2>2, <2>4, <1>8
<1>13. Counts(lo, hi, Len(w), f)
  BY <1>7, <1>10, <1>11, <1>12, Zenon DEF Counts
<1>14. Len(w) = hi - lo /\ \A k \in 1 .. Len(w) : f[k] = lo + k
  BY <1>13, Counting
<1> QED
  BY <1>1, <1>2, <1>14 DEF f
\* How many outbounds the first k configurations have.
Used(k) == IF k = 0 THEN 0
           ELSE IF 4 * k - 3 <= Len(ours) THEN 4 * k - 3 ELSE Len(ours)

\* Each configuration carries its share, the one in the making as far as it is.
Shares ==
    /\ \A k \in 1 .. Len(configs) : Carries(configs[k].outbounds, Used(k - 1), Used(k))
    /\ stage \in {"reserve", "done"} /\ ours # <<>> => idx = Used(Len(configs))
    /\ stage = "slots" =>
          /\ idx - s = Used(Len(configs)) /\ idx - s < Len(ours) /\ idx <= Len(ours)
          /\ Carries(current.outbounds, idx - s, idx)

LEMMA UsedType ==
    ASSUME Inv
    PROVE  /\ Len(ours) \in Nat
           /\ \A k \in Nat : Used(k) \in Nat /\ Used(k) <= Len(ours)
           /\ \A j, k \in Nat : j <= k => Used(j) <= Used(k)
<1>1. Len(ours) \in Nat
  BY SelectionIs, ConstantsAssumption DEF Inv, TypeOK
<1> QED
  BY <1>1 DEF Used

\* An outbound that is injected.
LEMMA CarriesOne ==
    ASSUME NEW ob \in Outbound, ob.protocol = "proxy", NEW n \in Nat, ob.source = n + 1,
           NEW l \in Outbound, l.source = 0
    PROVE  /\ <<ob>> \in Seq(Outbound) /\ Carries(<<ob>>, n, n + 1)
           /\ <<ob, l>> \in Seq(Outbound) /\ Carries(<<ob, l>>, n, n + 1)
<1>1. /\ <<ob>> \in Seq(Outbound) /\ <<ob, l>> \in Seq(Outbound)
      /\ ToSet(<<ob>>) = {ob} /\ ToSet(<<ob, l>>) = {ob, l}
      /\ Len(<<ob>>) = 1 /\ Len(<<ob, l>>) = 2
      /\ <<ob, l>>[1] = ob /\ <<ob, l>>[2] = l
  BY DEF ToSet
<1>2. n + 1 .. n + 1 = {n + 1}
  OBVIOUS
<1> QED
  BY <1>1, <1>2 DEF Carries

\* The outbounds that the upstream sent are none of ours.
LEMMA CarriesForeign ==
    ASSUME NEW c \in Config, Foreign(c), NEW n \in Nat
    PROVE  /\ Carries(Get(c.outbounds, <<>>), n, n)
           /\ Carries(Reserve(c).outbounds, n, n)
<1> DEFINE obs == Get(c.outbounds, <<>>)
           more == Append(Essentials(obs), LoopbackOutbound(1))
<1>1. /\ obs \in Seq(Outbound) /\ Essentials(obs) \in Seq(Outbound)
      /\ ToSet(Essentials(obs)) = {ob \in ToSet(obs) : IsEssential(ob)}
      /\ \A ob \in ToSet(obs) : ob.source = 0
  BY ConfigFields, OutboundParts DEF Foreign
<1>2. Reserve(c).outbounds = more
  BY ReserveIs
<1> HIDE DEF obs
<1>3. LoopbackOutbound(1) \in Outbound /\ LoopbackOutbound(1).source = 0
  BY MadeTypes DEF LoopbackOutbound
<1>4. /\ more \in Seq(Outbound)
      /\ ToSet(more) = ToSet(Essentials(obs)) \cup {LoopbackOutbound(1)}
  BY <1>1, <1>3, AppendRange
<1> HIDE DEF more
<1>5. \A ob \in ToSet(more) : ob.source = 0
  BY <1>1, <1>3, <1>4, Zenon
<1>6. Carries(obs, n, n) /\ Carries(more, n, n)
  BY <1>1, <1>4, <1>5, CarriesNothing
<1> QED
  BY <1>2, <1>6 DEF obs
LEMMA InitShares == Init => Shares
BY DEF Init, Shares

\* A configuration more.
LEMMA OneMore ==
    ASSUME Inv, Inv', Shares, ours' = ours, NEW t, t.outbounds \in Seq(Outbound),
           configs' = Append(configs, t),
           Carries(t.outbounds, Used(Len(configs)), Used(Len(configs) + 1))
    PROVE  \A k \in 1 .. Len(configs') : Carries(configs'[k].outbounds, Used(k - 1)', Used(k)')
<1>1. /\ Len(configs) \in Nat /\ Len(configs') = Len(configs) + 1
      /\ \A k \in 1 .. Len(configs) : configs'[k] = configs[k]
      /\ configs'[Len(configs) + 1] = t
  BY DEF Inv, TypeOK
<1>2. \A k : Used(k)' = Used(k)
  BY DEF Used
<1> SUFFICES ASSUME NEW k \in 1 .. Len(configs')
             PROVE  Carries(configs'[k].outbounds, Used(k - 1), Used(k))
  BY <1>2
<1>3. CASE k \in 1 .. Len(configs)
  BY <1>1, <1>3 DEF Shares
<1>4. CASE k \notin 1 .. Len(configs)
  <2>1. k = Len(configs) + 1 /\ k - 1 = Len(configs)
    BY <1>1, <1>4
  <2> QED
    BY <2>1, <1>1
<1> QED
  BY <1>3, <1>4

LEMMA MainShares ==
    ASSUME Inv, Shares, InjectMain, Inv'
    PROVE  Shares'
<1> DEFINE up == upstream[1]
           obs == Get(MainStart.outbounds, <<>>)
<1>1. /\ MainStart \in Config /\ up \in Config /\ Foreign(up)
      /\ ours # <<>> => up \in Listed /\ ours[1] \in Outbound
      /\ configs' = <<Tidied(MainStart)>>
  BY Started
<1>2. Len(ours) \in Nat /\ (ours # <<>> <=> Len(ours) # 0)
  BY SelectionIs, ConstantsAssumption DEF Inv, TypeOK
<1>3. Used(0) = 0 /\ Used(1) = IF ours = <<>> THEN 0 ELSE 1
  BY <1>2 DEF Used
<1>4. Carries(Get(up.outbounds, <<>>), 0, 0)
  BY <1>1, CarriesForeign
<1>5. Carries(obs, 0, Used(1))
  <2>1. CASE ours = <<>>
    BY <2>1, <1>3, <1>4 DEF MainStart
  <2>2. CASE ours # <<>>
    <3> DEFINE ob == [ours[1] EXCEPT !.tag = OurFallback]
               two == <<ob, LoopbackOutbound(4)>>
    <3>1. MainStart = WithFallback(up, ours[1]) /\ up \in Listed /\ ours[1] \in Outbound
      BY <2>2, <1>1 DEF MainStart
    <3>2. MainStart \in Listed /\ MainStart.outbounds = up.outbounds \o two
      BY <3>1, WithFallbackIs
    <3>3. ours[1] = Proxy(<<"p", 1>>, 1)
      BY <2>2, <1>2, SelectionIs DEF Inv, TypeOK
    <3>4. ob \in Outbound /\ ob.protocol = "proxy" /\ ob.source = 1
      BY <3>1, <3>3, MadeTypes DEF Proxy
    <3>5. LoopbackOutbound(4) \in Outbound /\ LoopbackOutbound(4).source = 0
      BY MadeTypes DEF LoopbackOutbound
    <3> HIDE DEF ob
    <3>6. two \in Seq(Outbound) /\ Carries(two, 0, 1)
      <4>1. 1 = 0 + 1 /\ 0 \in Nat
        OBVIOUS
      <4> QED
        BY <4>1, <3>4, <3>5, CarriesOne
    <3> HIDE DEF two, up
    <3>7. up.outbounds \in Seq(Outbound) /\ Get(up.outbounds, <<>>) = up.outbounds
      BY <3>1, ListedFields
    <3>8. Carries(up.outbounds \o two, 0, 1)
      BY <3>6, <3>7, <1>4, CarriesBoth
    <3>9. obs = up.outbounds \o two
      BY <3>2, ListedFields
    <3> QED
      BY <3>8, <3>9, <2>2, <1>3
  <2> QED
    BY <2>1, <2>2
<1>6. Carries(Tidied(MainStart).outbounds, 0, Used(1))
  <2>1. Used(1) \in Nat /\ 0 <= Used(1)
    BY <1>3
  <2> QED
    BY <2>1, <1>1, <1>5, CarriesTidied
<1>7. Tidied(MainStart) \in Listed
  BY <1>1, TidiedIs
<1>8. /\ configs = <<>> /\ Len(configs) = 0 /\ configs' = Append(configs, Tidied(MainStart))
      /\ Len(configs') = 1
  BY <1>1 DEF Inv, InjectMain
<1>9. \A k \in 1 .. Len(configs') : Carries(configs'[k].outbounds, Used(k - 1)', Used(k)')
  <2>1. Carries(Tidied(MainStart).outbounds, Used(Len(configs)), Used(Len(configs) + 1))
    BY <1>3, <1>6, <1>8
  <2>2. Tidied(MainStart).outbounds \in Seq(Outbound) /\ ours' = ours
    BY <1>7, ListedFields DEF InjectMain
  <2> QED
    BY <2>1, <2>2, <1>8, OneMore
<1>10. stage' = "reserve" /\ idx' = 1 /\ ours' = ours
  BY DEF InjectMain
<1>11. ours # <<>> => idx' = Used(Len(configs))'
  BY <1>3, <1>8, <1>10 DEF Used
<1> QED
  BY <1>9, <1>10, <1>11 DEF Shares

LEMMA NextShares ==
    ASSUME Inv, Shares, InjectNext, Inv'
    PROVE  Shares'
<1> DEFINE ob == [ours[idx + 1] EXCEPT !.tag = Custom(s + 1)]
<1>1. /\ s \in 0 .. 3 /\ idx + 1 \in 1 .. Len(ours) /\ idx \in Nat /\ Len(ours) \in Nat
      /\ current \in Listed /\ current.outbounds \in Seq(Outbound)
      /\ stage = "slots" /\ idx' = idx + 1 /\ s' = s + 1
      /\ UNCHANGED <<ours, configs, stage>>
  BY Extended, ListedFields, UsedType, ConstantsAssumption DEF InjectNext, Inv, TypeOK
<1>2. /\ idx - s = Used(Len(configs)) /\ idx - s < Len(ours)
      /\ Carries(current.outbounds, idx - s, idx)
  BY <1>1 DEF Shares
<1>3. idx - s \in Nat
  BY <1>1, <1>2, UsedType DEF Inv, TypeOK
<1>4. ours[idx + 1] = Proxy(<<"p", idx + 1>>, idx + 1) /\ ours[idx + 1] \in Outbound
  BY <1>1, SelectionIs DEF Inv, TypeOK
<1>5. /\ ob \in Outbound /\ ob.protocol = "proxy" /\ ob.source = idx + 1
      /\ LoopbackOutbound(s + 2) \in Outbound /\ LoopbackOutbound(s + 2).source = 0
  <2>1. s + 1 \in Nat /\ s + 2 \in Nat /\ Custom(s + 1) \in Tag
    BY <1>1, MadeTypes
  <2>2. ob \in Outbound
    BY <2>1, <1>4, MadeTypes
  <2>3. ob.protocol = "proxy" /\ ob.source = idx + 1
    BY <1>4 DEF Proxy
  <2>4. LoopbackOutbound(s + 2) \in Outbound
    BY <2>1, MadeTypes
  <2>5. LoopbackOutbound(s + 2).source = 0
    BY DEF LoopbackOutbound
  <2> QED
    BY <2>2, <2>3, <2>4, <2>5
<1>6. \/ current'.outbounds = current.outbounds \o <<ob>>
      \/ current'.outbounds = current.outbounds \o <<ob, LoopbackOutbound(s + 2)>>
  <2>1. \/ current'.outbounds = Append(current.outbounds, ob)
        \/ current'.outbounds = current.outbounds \o <<ob, LoopbackOutbound(s + 2)>>
    BY Extended
  <2> HIDE DEF ob
  <2>2. Append(current.outbounds, ob) = current.outbounds \o <<ob>>
    BY <1>1, <1>5
  <2> QED
    BY <2>1, <2>2
<1> HIDE DEF ob
<1>7. /\ <<ob>> \in Seq(Outbound) /\ Carries(<<ob>>, idx, idx + 1)
      /\ <<ob, LoopbackOutbound(s + 2)>> \in Seq(Outbound)
      /\ Carries(<<ob, LoopbackOutbound(s + 2)>>, idx, idx + 1)
  BY <1>1, <1>5, CarriesOne
<1>8. Carries(current'.outbounds, idx - s, idx + 1)
  <2>1. idx + 1 \in Nat /\ idx - s <= idx /\ idx <= idx + 1
    BY <1>1
  <2> QED
    BY <2>1, <1>1, <1>2, <1>3, <1>6, <1>7, CarriesBoth
<1>9. idx' - s' = idx - s
  BY <1>1
<1>10. Used(Len(configs))' = Used(Len(configs)) /\ \A k : Used(k)' = Used(k)
  BY <1>1 DEF Used
<1>11. \A k \in 1 .. Len(configs') : Carries(configs'[k].outbounds, Used(k - 1)', Used(k)')
  BY <1>1, <1>10 DEF Shares
<1> QED
  BY <1>1, <1>2, <1>8, <1>9, <1>10, <1>11 DEF Shares

LEMMA CloseShares ==
    ASSUME Inv, Shares, CloseReserve, Inv'
    PROVE  Shares'
<1> DEFINE n == Len(ours)
           l == Len(configs)
<1>1. PICK c \in Config : /\ c.outbounds = current.outbounds
                          /\ configs' = Append(configs, Tidied(c))
                          /\ current \in Listed
  BY Closed
<1>2. /\ stage = "slots" /\ stage' = "reserve" /\ s \in 0 .. 4
      /\ s = 4 \/ idx >= n
      /\ idx' = idx /\ ours' = ours /\ idx \in Nat /\ n \in Nat /\ l \in Nat /\ l # 0
  BY UsedType, ConstantsAssumption DEF CloseReserve, Inv, TypeOK
<1>3. /\ idx - s = Used(l) /\ idx - s < n /\ idx <= n
      /\ Carries(current.outbounds, idx - s, idx)
  BY <1>2 DEF Shares
<1>4. Used(l) = 4 * l - 3
  BY <1>2, <1>3 DEF Used
<1>5. Used(l + 1) = idx
  BY <1>2, <1>3, <1>4 DEF Used
<1>6. Used(l) \in Nat /\ Used(l) <= idx
  BY <1>2, <1>3, <1>4
<1>7. Carries(Tidied(c).outbounds, Used(l), Used(l + 1))
  <2>1. Get(c.outbounds, <<>>) = current.outbounds
    BY <1>1, ListedFields
  <2> QED
    BY <2>1, <1>2, <1>3, <1>5, <1>6, CarriesTidied
<1>8. Tidied(c).outbounds \in Seq(Outbound)
  BY TidiedIs, ListedFields
<1>9. \A k \in 1 .. Len(configs') : Carries(configs'[k].outbounds, Used(k - 1)', Used(k)')
  BY <1>1, <1>2, <1>7, <1>8, OneMore
<1>10. Len(configs') = l + 1
  BY <1>1, <1>2 DEF Inv, TypeOK
<1>11. idx' = Used(Len(configs))'
  BY <1>2, <1>5, <1>10 DEF Used
<1> QED
  BY <1>2, <1>9, <1>11 DEF Shares

LEMMA SharesStep == Inv /\ Inv' /\ Shares /\ [Next]_vars => Shares'
<1> SUFFICES ASSUME Inv, Inv', Shares, [Next]_vars PROVE Shares'
  OBVIOUS
<1>1. CASE UNCHANGED vars
  BY <1>1 DEF Shares, Used, vars
<1>2. CASE ReturnUpstream
  BY <1>2 DEF Shares, Used, ReturnUpstream
<1>3. CASE OpenReserve
  <2>1. upstream[1] \in Config /\ Foreign(upstream[1])
    BY <1>3, FirstUpstream DEF Inv, TypeOK, OpenReserve
  <2>2. /\ idx \in Nat /\ idx < Len(ours) /\ stage = "reserve" /\ stage' = "slots"
        /\ s' = 0 /\ current' = Reserve(upstream[1]) /\ UNCHANGED <<ours, configs, idx>>
    BY <1>3, ConstantsAssumption DEF OpenReserve, Inv, TypeOK
  <2>3. Carries(current'.outbounds, idx, idx)
    BY <2>1, <2>2, CarriesForeign
  <2>4. ours # <<>>
    BY <2>2
  <2>5. \A k : Used(k)' = Used(k)
    BY <2>2 DEF Used
  <2>6. idx' - s' = idx /\ idx <= Len(ours)
    BY <2>2, UsedType
  <2>7. idx = Used(Len(configs))
    BY <2>2, <2>4 DEF Shares
  <2> QED
    BY <2>2, <2>3, <2>5, <2>6, <2>7 DEF Shares
<1>4. CASE Return
  BY <1>4 DEF Shares, Used, Return
<1> QED
  BY <1>1, <1>2, <1>3, <1>4, MainShares, NextShares, CloseShares DEF Next

LEMMA SharesHold == Spec => []Shares
BY InitShares, SharesStep, InvHolds, PTL DEF Spec
\* What FallbackChains sees of a state.
Maps ==
    /\ stage = "unchanged" => Left = <<>> /\ Served = <<>>
    /\ stage # "unchanged" =>
          /\ Left = SubSeq(ours, Used(Len(configs)) + 1, Len(ours))
          /\ ours = <<>> => Served = <<>>
          /\ ours # <<>> => Served = [k \in 1 .. Len(configs) |->
                                         SubSeq(ours, Used(k - 1) + 1, Used(k))]

LEMMA SelectionPart ==
    ASSUME Inv, Shares, NEW k \in 1 .. Len(configs)
    PROVE  Selection(configs[k]) = SubSeq(ours, Used(k - 1) + 1, Used(k))
<1> DEFINE lo == Used(k - 1)
           hi == Used(k)
           own == Own(configs[k])
           e == SubSeq(ours, lo + 1, hi)
<1>1. /\ lo \in Nat /\ hi \in Nat /\ lo <= hi /\ hi <= Len(ours) /\ Len(ours) \in Nat
      /\ configs[k] \in Listed
  <2>1. k \in Nat /\ k - 1 \in Nat /\ k - 1 <= k /\ configs[k] \in Listed
    BY DEF Inv, TypeOK
  <2> QED
    BY <2>1, UsedType
<1>2. Carries(configs[k].outbounds, lo, hi)
  BY DEF Shares
<1>3. ours \in Seq(Outbound)
  BY SelectionIs DEF Inv, TypeOK
<1> HIDE DEF lo, hi
<1>4. /\ own \in Seq(Outbound) /\ Len(own) = hi - lo
      /\ \A i \in 1 .. hi - lo : own[i].source = lo + i
  BY <1>1, <1>2, OwnIs
<1>5. Selection(configs[k]) = [i \in DOMAIN own |-> ours[own[i].source]]
  BY Zenon DEF Selection
<1> HIDE DEF own
<1>6. Selection(configs[k]) = [i \in 1 .. hi - lo |-> ours[lo + i]]
  BY <1>1, <1>4, <1>5
<1>7. e = [i \in 1 .. hi - lo |-> ours[lo + i]]
  <2>1. /\ e \in Seq(Outbound) /\ Len(e) = hi - lo
        /\ \A i \in 1 .. hi - lo : e[i] = ours[lo + i]
    BY <1>1, <1>3
  <2> HIDE DEF e
  <2>2. e = [i \in 1 .. hi - lo |-> e[i]]
    BY <2>1
  <2> QED
    BY <2>1, <2>2
<1> QED
  BY <1>6, <1>7 DEF lo, hi

\* Which outbounds the configurations have.
LEMMA UsedUp ==
    ASSUME Inv, Shares, NEW i \in 1 .. Len(ours)
    PROVE  (\E k \in DOMAIN configs : \E ob \in ToSet(configs[k].outbounds) : ob.source = i)
              <=> i <= Used(Len(configs))
<1> DEFINE l == Len(configs)
<1>1. l \in Nat /\ DOMAIN configs = 1 .. l /\ Len(ours) \in Nat
  BY UsedType DEF Inv, TypeOK
<1>2. ASSUME NEW k \in 1 .. l, NEW ob \in ToSet(configs[k].outbounds), ob.source = i
      PROVE  i <= Used(l)
  <2>1. i \in Used(k - 1) + 1 .. Used(k)
    <3>1. i # 0
      BY <1>1
    <3> QED
      BY <3>1, <1>2, Zenon DEF Shares, Carries
  <2>2. k \in Nat /\ k - 1 \in Nat /\ k <= l
    BY <1>1
  <2>3. Used(k) \in Nat /\ Used(k - 1) \in Nat /\ Used(l) \in Nat /\ Used(k) <= Used(l)
    BY <1>1, <2>2, UsedType
  <2> QED
    BY <2>1, <2>3
<1>3. ASSUME i <= Used(l)
      PROVE  \E k \in 1 .. l : \E ob \in ToSet(configs[k].outbounds) : ob.source = i
  <2> DEFINE T == {k \in Nat : i <= Used(k)}
  <2>1. T \subseteq Nat /\ l \in T
    BY <1>1, <1>3
  <2>2. PICK k \in T : \A j \in T : k <= j
    BY <2>1, Least, Zenon
  <2>3. k \in Nat /\ i <= Used(k) /\ k <= l
    BY <2>1, <2>2
  <2>4. k # 0
    BY <2>3, <1>1 DEF Used
  <2>5. k - 1 \in Nat /\ k - 1 \notin T
    BY <2>2, <2>3, <2>4
  <2>6. Used(k) \in Nat /\ Used(k - 1) \in Nat /\ ~ (i <= Used(k - 1))
    BY <2>3, <2>5, UsedType
  <2>7. i \in Used(k - 1) + 1 .. Used(k) /\ k \in 1 .. l
    BY <1>1, <2>3, <2>4, <2>6
  <2> QED
    BY <2>7, Zenon DEF Shares, Carries
<1> QED
  BY <1>1, <1>2, <1>3

LEMMA MapsHolds == Inv /\ Shares => Maps
<1> SUFFICES ASSUME Inv, Shares PROVE Maps
  OBVIOUS
<1>1. /\ configs \in Seq(Listed) /\ Len(configs) \in Nat /\ DOMAIN configs = 1 .. Len(configs)
      /\ ours \in Seq(Outbound) /\ Len(ours) \in Nat /\ DOMAIN ours = 1 .. Len(ours)
  BY SelectionIs DEF Inv, TypeOK
<1> DEFINE I == {i \in DOMAIN ours : /\ stage # "unchanged"
                                     /\ ~ \E k \in DOMAIN configs :
                                             \E ob \in ToSet(configs[k].outbounds) : ob.source = i}
           b == IF stage = "unchanged" THEN Len(ours) ELSE Used(Len(configs))
<1>2. Left = Where(ours, I)
  BY Zenon DEF Left
<1>3. \A i \in 1 .. Len(ours) : i \in I <=> stage # "unchanged" /\ ~ (i <= Used(Len(configs)))
  BY <1>1, UsedUp
<1> HIDE DEF I
<1>4. b \in 0 .. Len(ours)
  BY <1>1, UsedType
<1>5. \A i \in 1 .. Len(ours) : i \in I <=> i > b
  <2>1. Used(Len(configs)) \in Nat
    BY <1>1, UsedType
  <2> QED
    BY <1>1, <1>3, <2>1
<1> HIDE DEF b
<1>6. Left = SubSeq(ours, b + 1, Len(ours))
  BY <1>1, <1>2, <1>4, <1>5, WhereEnd
<1>7. CASE stage = "unchanged"
  <2>1. configs = <<>> /\ b = Len(ours)
    BY <1>7 DEF Inv, b
  <2>2. Left = <<>>
    BY <1>1, <1>6, <2>1
  <2>3. Served = <<>>
    <3>1. [k \in DOMAIN configs |-> Selection(configs[k])] = <<>>
      BY <2>1
    <3> QED
      BY <3>1, Zenon DEF Served
  <2> QED
    BY <1>7, <2>2, <2>3 DEF Maps
<1>8. CASE stage # "unchanged"
  <2>1. b = Used(Len(configs))
    BY <1>8 DEF b
  <2>2. ours = <<>> => Served = <<>>
    BY Zenon DEF Served
  <2>3. ours # <<>> => Served = [k \in 1 .. Len(configs) |-> Selection(configs[k])]
    BY <1>1, Zenon DEF Served
  <2>4. \A k \in 1 .. Len(configs) : Selection(configs[k]) = SubSeq(ours, Used(k - 1) + 1, Used(k))
    BY SelectionPart
  <2>5. ours # <<>> =>
            Served = [k \in 1 .. Len(configs) |-> SubSeq(ours, Used(k - 1) + 1, Used(k))]
    BY <2>3, <2>4
  <2> QED
    BY <1>6, <1>8, <2>1, <2>2, <2>5, Zenon DEF Maps
<1> QED
  BY <1>7, <1>8
LEMMA OursIs ==
    ASSUME Inv
    PROVE  /\ ours \in Seq(Outbound) /\ ours \in Selections /\ Len(ours) \in Nat
           /\ (ours # <<>> <=> Len(ours) # 0)
           /\ configs \in Seq(Listed) /\ Len(configs) \in Nat
           /\ (configs # <<>> <=> Len(configs) # 0)
BY SelectionIs DEF Inv, TypeOK

LEMMA InitMaps == Init /\ Inv /\ Maps => Chains!Init
<1> SUFFICES ASSUME Init, Inv, Maps PROVE Chains!Init
  OBVIOUS
<1>1. Len(configs) = 0 /\ configs = <<>> /\ stage # "unchanged"
  BY DEF Init
<1>2. Left = SubSeq(ours, 0 + 1, Len(ours))
  BY <1>1 DEF Maps, Used
<1>3. Left = ours /\ Left \in Selections
  <2> DEFINE x == SubSeq(ours, 0 + 1, Len(ours))
  <2>1. /\ ours \in Seq(Outbound) /\ x \in Seq(Outbound) /\ Len(x) = Len(ours)
        /\ \A i \in 1 .. Len(ours) : x[i] = ours[i]
    BY OursIs
  <2> HIDE DEF x
  <2>2. x = [i \in 1 .. Len(ours) |-> x[i]] /\ ours = [i \in 1 .. Len(ours) |-> ours[i]]
    BY <2>1
  <2>3. x = ours
    BY <2>1, <2>2
  <2> QED
    BY <2>3, <1>2, OursIs DEF x
<1>4. Served = <<>>
  <2>1. [k \in 1 .. 0 |-> SubSeq(ours, Used(k - 1) + 1, Used(k))] = <<>>
    OBVIOUS
  <2> QED
    BY <2>1, <1>1, Zenon DEF Maps
<1> QED
  BY <1>3, <1>4 DEF Chains!Init

\* A configuration more takes the next outbounds of ours.
LEMMA TakeStep ==
    ASSUME Inv, Maps, Inv', Maps', ours' = ours, ours # <<>>,
           stage # "unchanged", stage' # "unchanged", Len(configs') = Len(configs) + 1,
           Used(Len(configs)) < Len(ours),
           NEW n \in Nat,
           Used(Len(configs) + 1) = IF Used(Len(configs)) + n < Len(ours)
                                    THEN Used(Len(configs)) + n ELSE Len(ours)
    PROVE  Chains!Take(n)
<1> DEFINE l == Len(configs)
           b == Used(l)
           d == Used(l + 1)
           len == Len(ours)
           m == IF n < Len(Left) THEN n ELSE Len(Left)
<1>1. /\ ours \in Seq(Outbound) /\ len \in Nat /\ l \in Nat /\ b \in Nat /\ d \in Nat
      /\ b < len /\ d <= len
  BY OursIs, UsedType
<1>2. \A k : Used(k)' = Used(k)
  BY DEF Used
<1>3. Used(Len(configs))' = d
  BY DEF Used
<1>4. Left = SubSeq(ours, b + 1, len) /\ Left' = SubSeq(ours, d + 1, len)
  BY <1>3 DEF Maps
<1>5. /\ Served = [k \in 1 .. l |-> SubSeq(ours, Used(k - 1) + 1, Used(k))]
      /\ Served' = [k \in 1 .. l + 1 |-> SubSeq(ours, Used(k - 1) + 1, Used(k))]
  BY <1>2 DEF Maps
<1>6. d = IF b + n < len THEN b + n ELSE len
  OBVIOUS
<1> HIDE DEF b, d, l, len
<1>7. /\ Left \in Seq(Outbound) /\ Len(Left) = len - b
      /\ \A i \in 1 .. len - b : Left[i] = ours[b + i]
  BY <1>1, <1>4 DEF len
<1>8. m \in Nat /\ m = d - b /\ m <= len - b
  BY <1>1, <1>6, <1>7
<1> HIDE DEF m
<1>9. SubSeq(Left, 1, m) = SubSeq(ours, b + 1, d)
  <2> DEFINE x == SubSeq(Left, 1, m)
             y == SubSeq(ours, b + 1, d)
  <2>1. x \in Seq(Outbound) /\ Len(x) = m /\ \A i \in 1 .. m : x[i] = Left[i]
    BY <1>7, <1>8
  <2>2. y \in Seq(Outbound) /\ Len(y) = d - b /\ \A i \in 1 .. d - b : y[i] = ours[b + i]
    BY <1>1, <1>8 DEF len
  <2>3. \A i \in 1 .. m : i \in 1 .. len - b
    BY <1>8, <1>1
  <2> HIDE DEF x, y
  <2>4. \A i \in 1 .. m : x[i] = y[i]
    BY <2>1, <2>2, <2>3, <1>7, <1>8
  <2>5. x = [i \in 1 .. m |-> x[i]] /\ y = [i \in 1 .. m |-> y[i]]
    BY <2>1, <2>2, <1>8
  <2> QED
    BY <2>4, <2>5 DEF x, y
<1>10. SubSeq(Left, m + 1, Len(Left)) = Left'
  <2> DEFINE x == SubSeq(Left, m + 1, Len(Left))
             y == SubSeq(ours, d + 1, len)
  <2>1. x \in Seq(Outbound) /\ Len(x) = len - d /\ \A i \in 1 .. len - d : x[i] = Left[m + i]
    BY <1>1, <1>7, <1>8
  <2>2. y \in Seq(Outbound) /\ Len(y) = len - d /\ \A i \in 1 .. len - d : y[i] = ours[d + i]
    BY <1>1 DEF len
  <2>3. \A i \in 1 .. len - d : m + i \in 1 .. len - b /\ b + (m + i) = d + i
    BY <1>1, <1>8
  <2> HIDE DEF x, y
  <2>4. \A i \in 1 .. len - d : x[i] = y[i]
    BY <2>1, <2>2, <2>3, <1>7
  <2>5. x = [i \in 1 .. len - d |-> x[i]] /\ y = [i \in 1 .. len - d |-> y[i]]
    BY <2>1, <2>2
  <2>6. x = y
    BY <2>4, <2>5
  <2> QED
    BY <2>6, <1>4 DEF x, y
<1>11. Served' = Append(Served, SubSeq(Left, 1, m))
  <2> DEFINE part == [k \in 1 .. l + 1 |-> SubSeq(ours, Used(k - 1) + 1, Used(k))]
             S == {part[k] : k \in 1 .. l + 1}
  <2>1. \A k \in 1 .. l + 1 : part[k] = SubSeq(ours, Used(k - 1) + 1, Used(k))
    OBVIOUS
  <2>2. \A k \in 1 .. l + 1 : part[k] \in S
    OBVIOUS
  <2> HIDE DEF part, S
  <2>3. part[l + 1] = SubSeq(ours, b + 1, d)
    <3>1. l + 1 \in 1 .. l + 1 /\ (l + 1) - 1 = l
      BY <1>1
    <3>2. part[l + 1] = SubSeq(ours, Used((l + 1) - 1) + 1, Used(l + 1))
      BY <2>1, <3>1, Zenon
    <3> QED
      BY <3>1, <3>2, Zenon DEF b, d
  <2>4. Served = [k \in 1 .. l |-> part[k]] /\ Served' = [k \in 1 .. l + 1 |-> part[k]]
    <3>1. \A k \in 1 .. l : part[k] = SubSeq(ours, Used(k - 1) + 1, Used(k))
      BY <2>1, <1>1
    <3> QED
      BY <3>1, <2>1, <1>5
  <2>5. Served \in Seq(S) /\ Len(Served) = l
    BY <1>1, <2>4, <2>2
  <2>6. Append(Served, part[l + 1]) = [k \in 1 .. l + 1 |-> IF k = l + 1 THEN part[l + 1] ELSE Served[k]]
    BY <2>5, <1>1
  <2>7. \A k \in 1 .. l + 1 : k # l + 1 => Served[k] = part[k]
    BY <2>4, <1>1
  <2>8. Append(Served, part[l + 1]) = [k \in 1 .. l + 1 |-> part[k]]
    BY <2>6, <2>7
  <2> QED
    BY <2>3, <2>4, <2>8, <1>9
<1>12. Left # <<>>
  BY <1>1, <1>7
<1> QED
  BY <1>10, <1>11, <1>12, Zenon DEF Chains!Take, m
LEMMA StepMaps ==
    ASSUME Inv, Inv', Shares, Shares', Maps, Maps', [Next]_vars
    PROVE  [Chains!Next]_Chains!vars
<1>1. /\ ours \in Seq(Outbound) /\ Len(ours) \in Nat /\ (ours # <<>> <=> Len(ours) # 0)
      /\ configs \in Seq(Listed) /\ Len(configs) \in Nat
  BY OursIs
<1>2. ASSUME UNCHANGED <<ours, configs>>, stage # "unchanged", stage' # "unchanged"
      PROVE  UNCHANGED Chains!vars
  <2>1. Left' = Left
    BY <1>2 DEF Maps, Used
  <2>2. Served' = Served
    BY <1>2 DEF Served, Selection
  <2> QED
    BY <2>1, <2>2 DEF Chains!vars
<1>3. CASE UNCHANGED vars
  <2>1. UNCHANGED <<ours, configs, stage>>
    BY <1>3 DEF vars
  <2>2. Left' = Left /\ Served' = Served
    BY <2>1 DEF Left, Served, Selection
  <2> QED
    BY <2>2 DEF Chains!vars
<1>4. CASE ReturnUpstream
  <2>1. /\ configs = <<>> /\ Len(configs) = 0
        /\ UNCHANGED <<ours, configs>> /\ stage = "main" /\ stage' = "unchanged"
    BY <1>4 DEF Inv, ReturnUpstream
  <2>2. Left' = <<>> /\ Served' = <<>>
    BY <2>1 DEF Maps
  <2>3. Served = <<>>
    <3>1. [k \in 1 .. 0 |-> SubSeq(ours, Used(k - 1) + 1, Used(k))] = <<>>
      OBVIOUS
    <3> QED
      BY <2>1, <3>1 DEF Maps
  <2>4. CASE Left = <<>>
    BY <2>2, <2>3, <2>4 DEF Chains!vars
  <2>5. CASE Left # <<>>
    BY <2>2, <2>3, <2>5 DEF Chains!Next, Chains!GiveUp
  <2> QED
    BY <2>4, <2>5
<1>5. CASE InjectMain
  <2>1. /\ configs = <<>> /\ Len(configs) = 0 /\ Len(configs') = 1 /\ ours' = ours
        /\ stage = "main" /\ stage' = "reserve"
    BY <1>5, Started DEF Inv, InjectMain
  <2>2. CASE ours = <<>>
    <3>1. Left = <<>> /\ Left' = <<>>
      BY <2>1, <2>2 DEF Maps, Used
    <3>2. Served = <<>> /\ Served' = <<>>
      BY <2>1, <2>2 DEF Maps
    <3> QED
      BY <3>1, <3>2 DEF Chains!vars
  <2>3. CASE ours # <<>>
    <3>1. Served = <<>>
      <4>1. [k \in 1 .. 0 |-> SubSeq(ours, Used(k - 1) + 1, Used(k))] = <<>>
        OBVIOUS
      <4> QED
        BY <2>1, <2>3, <4>1 DEF Maps
    <3>2. /\ Used(Len(configs)) < Len(ours)
          /\ Used(Len(configs) + 1) = IF Used(Len(configs)) + 1 < Len(ours)
                                      THEN Used(Len(configs)) + 1 ELSE Len(ours)
      BY <1>1, <2>1, <2>3 DEF Used
    <3>3. Len(configs') = Len(configs) + 1 /\ stage # "unchanged" /\ stage' # "unchanged"
      BY <2>1
    <3>4. Chains!Take(1)
      BY <2>1, <2>3, <3>2, <3>3, TakeStep
    <3> QED
      BY <3>1, <3>4, Zenon DEF Chains!Next, Chains!TakeMain
  <2> QED
    BY <2>2, <2>3
<1>6. CASE OpenReserve \/ InjectNext \/ Return
  <2>1. UNCHANGED <<ours, configs>> /\ stage # "unchanged" /\ stage' # "unchanged"
    BY <1>6 DEF OpenReserve, InjectNext, Return
  <2> QED
    BY <2>1, <1>2
<1>7. CASE CloseReserve
  <2> DEFINE l == Len(configs)
  <2>1. /\ configs # <<>> /\ l # 0 /\ ours' = ours
        /\ stage = "slots" /\ stage' = "reserve" /\ Len(configs') = l + 1
    BY <1>1, <1>7, Closed DEF Inv, CloseReserve
  <2>2. Used(l) < Len(ours) /\ ours # <<>>
    <3>1. Used(l) < Len(ours) /\ Used(l) \in Nat
      BY <1>1, <2>1, UsedType DEF Shares
    <3> QED
      BY <1>1, <3>1
  <2>3. Used(l) = 4 * l - 3
    BY <1>1, <2>1, <2>2 DEF Used
  <2>4. Used(l + 1) = IF Used(l) + 4 < Len(ours) THEN Used(l) + 4 ELSE Len(ours)
    BY <1>1, <2>1, <2>3 DEF Used
  <2>5. Served # <<>>
    <3>1. Served = [k \in 1 .. l |-> SubSeq(ours, Used(k - 1) + 1, Used(k))]
      BY <2>1, <2>2 DEF Maps
    <3>2. 1 \in DOMAIN Served
      BY <1>1, <2>1, <3>1
    <3> QED
      BY <3>2
  <2>6. Chains!Take(4)
    <3>1. stage # "unchanged" /\ stage' # "unchanged" /\ 4 \in Nat
      BY <2>1
    <3> QED
      BY <2>1, <2>2, <2>4, <3>1, TakeStep
  <2> QED
    BY <2>5, <2>6, Zenon DEF Chains!Next, Chains!TakeReserve
<1> QED
  BY <1>3, <1>4, <1>5, <1>6, <1>7 DEF Next

\* inject_outbounds hands its outbounds out in order, each one once: one in the
\* main configuration and the next four, or the rest, in each reserve, whatever
\* the upstream's configurations look like.
THEOREM HandsOutInOrderHolds == Spec => HandsOutInOrder
<1>1. Init /\ Inv /\ Maps => Chains!Init
  BY InitMaps
<1>2. Inv /\ Inv' /\ Shares /\ Shares' /\ Maps /\ Maps' /\ [Next]_vars
        => [Chains!Next]_Chains!vars
  BY StepMaps
<1>3. Inv /\ Shares => Maps
  BY MapsHolds
<1> QED
  BY <1>1, <1>2, <1>3, InvHolds, SharesHold, PTL DEF Spec, HandsOutInOrder, Chains!Spec
-----------------------------------------------------------------------------
(***************************************************************************)
(* Well-formed configurations.  What WellFormed says is taken apart: tags  *)
(* are unique in two lists, and references go to what is there.  Beside    *)
(* it, loopback traffic is covered by rules where rules are kept.          *)
(***************************************************************************)
Apart(list) == \A i, j \in DOMAIN list : i # j => list[i].tag # list[j].tag

Refers(obs, balancers, rules) ==
    /\ \A b \in balancers : b.fallbackTag \in {ob.tag : ob \in obs} \cup {Null}
    /\ \A r \in rules : /\ r.outboundTag \in {ob.tag : ob \in obs} \cup {Null}
                        /\ r.balancerTag \in {b.tag : b \in balancers} \cup {Null}

Covered(obs, rules) ==
    \A ob \in obs : ob.protocol = "loopback" => \E r \in rules : ob.inboundTag \in r.inboundTag

LEMMA WellFormedIs ==
    ASSUME NEW c \in Listed
    PROVE  WellFormed(c) <=>
              /\ Apart(c.outbounds) /\ Apart(Get(c.balancers, <<>>))
              /\ Refers(ToSet(c.outbounds), ToSet(Get(c.balancers, <<>>)), ToSet(Get(c.rules, <<>>)))
<1> DEFINE obs == c.outbounds
           balancers == Get(c.balancers, <<>>)
           rules == ToSet(Get(c.rules, <<>>))
<1>1. {obs[i].tag : i \in DOMAIN obs} = {ob.tag : ob \in ToSet(obs)}
  BY DEF ToSet
<1>2. WellFormed(c) <=>
        /\ Apart(obs) /\ Apart(balancers)
        /\ \A b \in ToSet(balancers) : b.fallbackTag \in {obs[i].tag : i \in DOMAIN obs} \cup {Null}
        /\ \A r \in rules :
              /\ r.outboundTag \in {obs[i].tag : i \in DOMAIN obs} \cup {Null}
              /\ r.balancerTag \in {b.tag : b \in ToSet(balancers)} \cup {Null}
  BY Zenon DEF WellFormed, Apart
<1> HIDE DEF obs, balancers, rules
<1>3. WellFormed(c) <=>
        /\ Apart(obs) /\ Apart(balancers)
        /\ Refers(ToSet(obs), ToSet(balancers), rules)
  BY <1>1, <1>2, Zenon DEF Refers
<1> QED
  BY <1>3 DEF obs, balancers, rules

LEMMA RulesCover ==
    ASSUME NEW c
    PROVE  LoopbacksHaveRules(c) <=> Covered(ToSet(c.outbounds), ToSet(Get(c.rules, <<>>)))
BY Zenon DEF LoopbacksHaveRules, Covered

\* Without a rule no loopback is covered.
LEMMA NoRulesNoCover ==
    ASSUME NEW obs, NEW ob \in obs, ob.protocol = "loopback"
    PROVE  ~Covered(obs, {})
BY Zenon DEF Covered

\* A part of a list keeps tags apart, so do two lists without a tag in common.
LEMMA ApartPart ==
    ASSUME NEW S, NEW p \in Seq(S), NEW I, Apart(p)
    PROVE  Apart(Where(p, I))
<1> DEFINE t == Where(p, I)
<1>1. t \in Seq(S) /\ \E at : Selected(p, I, t, at)
  BY WhereKeeps
<1>2. PICK at : Selected(p, I, t, at)
  BY <1>1
<1>3. DOMAIN p = 1 .. Len(p) /\ DOMAIN t = 1 .. Len(t) /\ Len(t) \in Nat /\ Len(p) \in Nat
  BY <1>1
<1> HIDE DEF t
<1>4. ASSUME NEW i \in DOMAIN t, NEW j \in DOMAIN t, i # j
      PROVE  t[i].tag # t[j].tag
  <2>1. /\ at[i] \in DOMAIN p /\ at[j] \in DOMAIN p /\ t[i] = p[at[i]] /\ t[j] = p[at[j]]
        /\ i < j => at[i] < at[j]
        /\ j < i => at[j] < at[i]
    BY <1>2, <1>3 DEF Selected
  <2>2. at[i] # at[j]
    BY <2>1, <1>3, <1>4
  <2> QED
    BY <2>1, <2>2 DEF Apart
<1> QED
  BY <1>4 DEF t, Apart

LEMMA ApartBoth ==
    ASSUME NEW S, NEW a \in Seq(S), NEW b \in Seq(S), Apart(a), Apart(b),
           \A x \in ToSet(a), y \in ToSet(b) : x.tag # y.tag
    PROVE  Apart(a \o b)
<1> DEFINE t == a \o b
<1>1. /\ DOMAIN t = 1 .. Len(t) /\ Len(t) = Len(a) + Len(b) /\ Len(a) \in Nat /\ Len(b) \in Nat
      /\ DOMAIN a = 1 .. Len(a) /\ DOMAIN b = 1 .. Len(b)
      /\ \A i \in 1 .. Len(a) : t[i] = a[i]
      /\ \A i \in 1 .. Len(b) : t[Len(a) + i] = b[i]
  OBVIOUS
<1>2. /\ \A i \in DOMAIN a : a[i] \in ToSet(a)
      /\ \A i \in DOMAIN b : b[i] \in ToSet(b)
  BY Zenon DEF ToSet
<1> HIDE DEF t
<1>3. \A i \in DOMAIN t : \/ i \in DOMAIN a /\ t[i] = a[i]
                          \/ i - Len(a) \in DOMAIN b /\ t[i] = b[i - Len(a)]
  <2> TAKE i \in DOMAIN t
  <2>1. CASE i <= Len(a)
    BY <2>1, <1>1
  <2>2. CASE ~ (i <= Len(a))
    <3>1. i - Len(a) \in 1 .. Len(b) /\ Len(a) + (i - Len(a)) = i
      BY <2>2, <1>1
    <3> QED
      BY <3>1, <1>1
  <2> QED
    BY <2>1, <2>2
<1>4. ASSUME NEW i \in DOMAIN t, NEW j \in DOMAIN t, i # j
      PROVE  t[i].tag # t[j].tag
  <2>1. CASE i \in DOMAIN a /\ t[i] = a[i] /\ j \in DOMAIN a /\ t[j] = a[j]
    BY <2>1, <1>4 DEF Apart
  <2>2. CASE /\ i - Len(a) \in DOMAIN b /\ t[i] = b[i - Len(a)]
             /\ j - Len(a) \in DOMAIN b /\ t[j] = b[j - Len(a)]
    <3>1. i - Len(a) # j - Len(a)
      BY <1>1, <1>4
    <3> QED
      BY <2>2, <3>1 DEF Apart
  <2>3. CASE /\ i \in DOMAIN a /\ t[i] = a[i]
             /\ j - Len(a) \in DOMAIN b /\ t[j] = b[j - Len(a)]
    BY <2>3, <1>2
  <2>4. CASE /\ i - Len(a) \in DOMAIN b /\ t[i] = b[i - Len(a)]
             /\ j \in DOMAIN a /\ t[j] = a[j]
    <3>1. t[j] \in ToSet(a) /\ t[i] \in ToSet(b)
      BY <2>4, <1>2
    <3>2. t[j].tag # t[i].tag
      BY <3>1
    <3> QED
      BY <3>2
  <2> QED
    BY <2>1, <2>2, <2>3, <2>4, <1>3
<1> QED
  BY <1>4 DEF t, Apart

\* Two elements with one tag are the same one.
LEMMA ApartSame ==
    ASSUME NEW p, Apart(p), NEW x \in ToSet(p), NEW y \in ToSet(p), x.tag = y.tag
    PROVE  x = y
<1>1. PICK i \in DOMAIN p : x = p[i]
  BY Zenon DEF ToSet
<1>2. PICK j \in DOMAIN p : y = p[j]
  BY Zenon DEF ToSet
<1> QED
  BY <1>1, <1>2 DEF Apart

LEMMA AppendIs ==
    ASSUME NEW S, NEW list \in Seq(S), NEW x \in S
    PROVE  Append(list, x) = list \o <<x>> /\ <<x>> \in Seq(S)
OBVIOUS

LEMMA ApartOne ==
    ASSUME NEW x
    PROVE  Apart(<<x>>) /\ ToSet(<<x>>) = {x}
BY DEF Apart, ToSet

LEMMA ApartTwo ==
    ASSUME NEW x, NEW y, x.tag # y.tag
    PROVE  Apart(<<x, y>>) /\ ToSet(<<x, y>>) = {x, y}
<1>1. DOMAIN <<x, y>> = {1, 2} /\ <<x, y>>[1] = x /\ <<x, y>>[2] = y
  OBVIOUS
<1> QED
  BY <1>1 DEF Apart, ToSet

\* Tidying keeps a configuration well-formed.
LEMMA WellFormedTidied ==
    ASSUME NEW c \in Listed, WellFormed(c)
    PROVE  /\ WellFormed(Tidied(c))
           /\ LoopbacksHaveRules(Tidied(c)) <=> LoopbacksHaveRules(c)
<1> DEFINE t == Tidied(c)
           obs == c.outbounds
<1>1. c \in Config /\ obs \in Seq(Outbound) /\ Get(c.outbounds, <<>>) = obs
  BY ListedFields
<1>2. /\ t \in Listed
      /\ t.outbounds = Proxies(obs) \o Specials(obs)
      /\ t.routing = c.routing /\ t.balancers = c.balancers
      /\ (c.rules = Null) <=> (t.rules = Null)
      /\ ToSet(Get(t.rules, <<>>)) = ToSet(Get(c.rules, <<>>))
  BY <1>1, TidiedIs
<1>3. ToSet(t.outbounds) = ToSet(obs)
  BY <1>1, TidiedOutbounds
<1>4. /\ Proxies(obs) \in Seq(Outbound) /\ Specials(obs) \in Seq(Outbound)
      /\ ToSet(Proxies(obs)) = {ob \in ToSet(obs) : ~IsSpecial(ob)}
      /\ ToSet(Specials(obs)) = {ob \in ToSet(obs) : IsSpecial(ob)}
  BY <1>1, OutboundParts
<1>5. /\ Apart(obs) /\ Apart(Get(c.balancers, <<>>))
      /\ Refers(ToSet(obs), ToSet(Get(c.balancers, <<>>)), ToSet(Get(c.rules, <<>>)))
  BY WellFormedIs
<1> HIDE DEF t, obs
<1>6. Apart(Proxies(obs)) /\ Apart(Specials(obs))
  BY <1>1, <1>5, ApartPart DEF Proxies, Specials
<1>7. \A x \in ToSet(Proxies(obs)), y \in ToSet(Specials(obs)) : x.tag # y.tag
  <2> SUFFICES ASSUME NEW x \in ToSet(Proxies(obs)), NEW y \in ToSet(Specials(obs)), x.tag = y.tag
               PROVE  FALSE
    OBVIOUS
  <2>1. x \in ToSet(obs) /\ y \in ToSet(obs) /\ ~IsSpecial(x) /\ IsSpecial(y)
    BY <1>4, Zenon
  <2>2. x = y
    BY <2>1, <1>5, ApartSame
  <2> QED
    BY <2>1, <2>2, Zenon
<1>8. Apart(t.outbounds)
  BY <1>2, <1>4, <1>6, <1>7, ApartBoth
<1>9. WellFormed(t)
  BY <1>2, <1>3, <1>5, <1>8, WellFormedIs
<1>10. LoopbacksHaveRules(t) <=> LoopbacksHaveRules(c)
  BY <1>2, <1>3, RulesCover DEF obs
<1> QED
  BY <1>9, <1>10 DEF t

\* The tags that the function gives are different ones.
LEMMA NewTags ==
    /\ OurFallback # Loopback(4)
    /\ \A i, j \in Nat : /\ Custom(i) # Loopback(j)
                         /\ BalancerTop # BalancerCustom(i)
                         /\ i # j => /\ Custom(i) # Custom(j)
                                     /\ Loopback(i) # Loopback(j)
                                     /\ BalancerCustom(i) # BalancerCustom(j)
<1>1. /\ OurFallback # Loopback(4)
      /\ \A i, j \in Nat : Custom(i) # Loopback(j) /\ BalancerTop # BalancerCustom(i)
  BY DEF OurFallback, Loopback, Custom, BalancerTop, BalancerCustom
<1>2. \A i, j \in Nat : i # j => /\ Custom(i) # Custom(j)
                                 /\ Loopback(i) # Loopback(j)
                                 /\ BalancerCustom(i) # BalancerCustom(j)
  BY DEF Loopback, Custom, BalancerCustom
<1> QED
  BY <1>1, <1>2

\* The rules that are sent to the new balancer keep their inbound tags.
LEMMA RedirectedRange ==
    ASSUME NEW rules \in Seq(Rules)
    PROVE  /\ \A r \in ToSet(Redirected(rules)) :
                 r \in ToSet(rules) \/ (r.outboundTag = Null /\ r.balancerTag = BalancerFallback(3))
           /\ \A r \in ToSet(rules) : \E q \in ToSet(Redirected(rules)) : q.inboundTag = r.inboundTag
<1>1. /\ Len(rules) \in Nat /\ DOMAIN rules = 1 .. Len(rules)
      /\ \A i \in 1 .. Len(rules) : rules[i] \in Rules
  OBVIOUS
<1> DEFINE w == Redirected(rules)
<1>2. /\ DOMAIN w = 1 .. Len(rules)
      /\ \A i \in 1 .. Len(rules) : w[i] =
            IF LoopTag(3) \in rules[i].inboundTag
            THEN [rules[i] EXCEPT !.outboundTag = Null, !.balancerTag = BalancerFallback(3)]
            ELSE rules[i]
  <2>1. w \in Seq(Rules) /\ Len(w) = Len(rules)
    BY RedirectedType, Zenon
  <2>2. \A i \in 1 .. Len(rules) : w[i] =
            IF LoopTag(3) \in rules[i].inboundTag
            THEN [rules[i] EXCEPT !.outboundTag = Null, !.balancerTag = BalancerFallback(3)]
            ELSE rules[i]
    BY RedirectedType, Zenon
  <2> HIDE DEF w
  <2>3. DOMAIN w = 1 .. Len(w)
    BY <2>1
  <2> QED
    BY <2>1, <2>2, <2>3, Zenon
<1> HIDE DEF w
<1>3. \A r \in Rules :
          LET q == [r EXCEPT !.outboundTag = Null, !.balancerTag = BalancerFallback(3)]
          IN  /\ q.outboundTag = Null /\ q.balancerTag = BalancerFallback(3)
              /\ q.inboundTag = r.inboundTag
  BY DEF Rules
<1>4. \A i \in 1 .. Len(rules) :
          /\ w[i].inboundTag = rules[i].inboundTag
          /\ w[i] = rules[i] \/ (w[i].outboundTag = Null /\ w[i].balancerTag = BalancerFallback(3))
  BY <1>1, <1>2, <1>3
<1>5. ToSet(rules) = {rules[i] : i \in 1 .. Len(rules)} /\ ToSet(w) = {w[i] : i \in 1 .. Len(rules)}
  BY <1>1, <1>2, Zenon DEF ToSet
<1> QED
  BY <1>4, <1>5, Zenon DEF w

LEMMA WellFormedFallback ==
    ASSUME NEW c \in Listed, WellFormed(c), Compatible(c),
           NEW ob \in Outbound, ob.protocol = "proxy"
    PROVE  /\ WellFormed(WithFallback(c, ob))
           /\ LoopbacksHaveRules(c) =>
                 (LoopbacksHaveRules(WithFallback(c, ob)) <=> c.rules # Null)
<1> DEFINE t == WithFallback(c, ob)
           obs == c.outbounds
           our == [ob EXCEPT !.tag = OurFallback]
           loop == LoopbackOutbound(4)
           two == <<our, loop>>
           balancers == Get(c.balancers, <<>>)
           rules == Get(c.rules, <<>>)
           b == Balancer(BalancerFallback(3), {Fallback(3)}, Loopback(4))
           r == Rule({LoopTag(4)}, OurFallback, Null)
<1>1. /\ c \in Config /\ obs \in Seq(Outbound)
      /\ balancers \in Seq(Balancers) /\ rules \in Seq(Rules)
  BY ListedFields, ConfigFields
<1>2. /\ our \in Outbound /\ our.tag = OurFallback /\ our.protocol = "proxy"
      /\ loop \in Outbound /\ loop.tag = Loopback(4) /\ loop.inboundTag = LoopTag(4)
      /\ loop.protocol = "loopback"
  <2>1. our \in Outbound /\ loop \in Outbound
    BY MadeTypes
  <2>2. our.tag = OurFallback /\ our.protocol = "proxy"
    BY DEF Outbound
  <2>3. loop.tag = Loopback(4) /\ loop.inboundTag = LoopTag(4) /\ loop.protocol = "loopback"
    BY DEF LoopbackOutbound
  <2> QED
    BY <2>1, <2>2, <2>3
<1>3. /\ b \in Balancers /\ b.tag = BalancerFallback(3) /\ b.fallbackTag = Loopback(4)
      /\ r \in Rules /\ r.inboundTag = {LoopTag(4)} /\ r.outboundTag = OurFallback
      /\ r.balancerTag = Null
  <2>1. b \in Balancers /\ r \in Rules
    BY MadeTypes DEF Optional
  <2>2. b.tag = BalancerFallback(3) /\ b.fallbackTag = Loopback(4)
    BY DEF Balancer
  <2>3. r.inboundTag = {LoopTag(4)} /\ r.outboundTag = OurFallback /\ r.balancerTag = Null
    BY DEF Rule
  <2> QED
    BY <2>1, <2>2, <2>3
<1>4. /\ t \in Listed /\ t.outbounds = obs \o two /\ t.routing = c.routing
      /\ c.routing => /\ t.balancers = Append(balancers, b)
                      /\ t.rules = IF c.rules = Null THEN Null ELSE Append(Redirected(c.rules), r)
      /\ ~c.routing => t.balancers = Null /\ t.rules = Null
  BY WithFallbackIs
<1>5. /\ Apart(obs) /\ Apart(balancers)
      /\ Refers(ToSet(obs), ToSet(balancers), ToSet(rules))
      /\ LoopbacksHaveRules(c) <=> Covered(ToSet(obs), ToSet(rules))
  BY WellFormedIs, RulesCover
<1>6. /\ \A x \in ToSet(obs) : x.tag # OurFallback /\ x.tag # Loopback(4)
      /\ \A x \in ToSet(balancers) : x.tag # BalancerFallback(3)
  BY Zenon DEF Compatible
<1>7. c.rules # Null => rules = c.rules
  BY Zenon DEF Get
<1>8. c.rules = Null => rules = <<>> /\ ToSet(rules) = {}
  BY DEF Get, ToSet
<1> HIDE DEF t, obs, our, loop, balancers, rules, b, r
<1>9. two \in Seq(Outbound) /\ Apart(two) /\ ToSet(two) = {our, loop}
  BY <1>2, NewTags, ApartTwo
<1> HIDE DEF two
<1>10. ToSet(t.outbounds) = ToSet(obs) \cup {our, loop}
  BY <1>1, <1>4, <1>9, ConcatRange
<1>11. Apart(t.outbounds)
  <2>1. \A x \in ToSet(obs), y \in ToSet(two) : x.tag # y.tag
    BY <1>2, <1>6, <1>9
  <2> QED
    BY <2>1, <1>1, <1>4, <1>5, <1>9, ApartBoth
<1>12. CASE ~c.routing
  <2>1. Get(t.balancers, <<>>) = <<>> /\ Get(t.rules, <<>>) = <<>>
    BY <1>4, <1>12, Zenon DEF Get
  <2>2. Apart(<<>>) /\ ToSet(<<>>) = {}
    BY DEF Apart, ToSet
  <2>3. Refers(ToSet(t.outbounds), {}, {})
    BY Zenon DEF Refers
  <2> QED
    <3>1. WellFormed(t)
      BY <2>1, <2>2, <2>3, <1>4, <1>11, <1>12, WellFormedIs
    <3>2. c.rules = Null
      BY <1>1, <1>12 DEF Config
    <3>3. ~LoopbacksHaveRules(t)
      BY <2>1, <2>2, <1>2, <1>10, NoRulesNoCover, RulesCover
    <3> QED
      BY <3>1, <3>2, <3>3 DEF t
<1>13. CASE c.routing
  <2> DEFINE bs == Append(balancers, b)
             rs == Get(t.rules, <<>>)
  <2>1. bs \in Seq(Balancers) /\ ToSet(bs) = ToSet(balancers) \cup {b}
    BY <1>1, <1>3, AppendRange
  <2>2. Get(t.balancers, <<>>) = bs
    BY <2>1, <1>4, <1>13, NotNull, Zenon DEF Get
  <2>3. Apart(bs)
    <3>1. bs = balancers \o <<b>> /\ <<b>> \in Seq(Balancers)
      BY <1>1, <1>3, AppendIs
    <3>2. Apart(<<b>>) /\ ToSet(<<b>>) = {b}
      BY ApartOne
    <3>3. \A x \in ToSet(balancers), y \in ToSet(<<b>>) : x.tag # y.tag
      BY <3>2, <1>3, <1>6
    <3> QED
      BY <3>1, <3>2, <3>3, <1>1, <1>5, ApartBoth
  <2>4. CASE c.rules = Null
    <3>1. t.rules = Null /\ ToSet(rs) = {}
      BY <2>4, <1>4, <1>13 DEF Get, ToSet
    <3> HIDE DEF bs, rs
    <3>2. Refers(ToSet(t.outbounds), ToSet(bs), {})
      <4> SUFFICES ASSUME NEW x \in ToSet(bs)
                   PROVE  x.fallbackTag \in {y.tag : y \in ToSet(t.outbounds)} \cup {Null}
        BY Zenon DEF Refers
      <4>1. CASE x = b
        BY <4>1, <1>2, <1>3, <1>10
      <4>2. CASE x \in ToSet(balancers)
        BY <4>2, <1>5, <1>10 DEF Refers
      <4> QED
        BY <4>1, <4>2, <2>1
    <3>3. WellFormed(t)
      BY <3>1, <3>2, <2>2, <2>3, <1>4, <1>11, WellFormedIs DEF rs
    <3>4. ~LoopbacksHaveRules(t)
      BY <3>1, <1>2, <1>10, NoRulesNoCover, RulesCover DEF rs
    <3> QED
      BY <3>3, <3>4, <2>4 DEF t
  <2>5. CASE c.rules # Null
    <3> DEFINE red == Redirected(rules)
    <3>1. red \in Seq(Rules) /\ Append(red, r) \in Seq(Rules)
          /\ ToSet(Append(red, r)) = ToSet(red) \cup {r}
      <4>1. red \in Seq(Rules)
        BY <1>1, RedirectedType
      <4> HIDE DEF red
      <4> QED
        BY <4>1, <1>3, AppendRange
    <3>2. rs = Append(red, r) /\ t.rules # Null
      BY <3>1, <2>5, <1>4, <1>7, <1>13, NotNull, Zenon DEF Get
    <3>3. /\ \A q \in ToSet(red) :
                q \in ToSet(rules) \/ (q.outboundTag = Null /\ q.balancerTag = BalancerFallback(3))
          /\ \A q \in ToSet(rules) : \E p \in ToSet(red) : p.inboundTag = q.inboundTag
      BY <1>1, RedirectedRange
    <3> HIDE DEF bs, red, rs
    <3>4. Refers(ToSet(t.outbounds), ToSet(bs), ToSet(rs))
      <4>1. ASSUME NEW x \in ToSet(bs)
            PROVE  x.fallbackTag \in {y.tag : y \in ToSet(t.outbounds)} \cup {Null}
        <5>1. CASE x = b
          BY <5>1, <1>2, <1>3, <1>10
        <5>2. CASE x \in ToSet(balancers)
          BY <5>2, <1>5, <1>10 DEF Refers
        <5> QED
          BY <5>1, <5>2, <2>1
      <4>2. ASSUME NEW q \in ToSet(rs)
            PROVE  /\ q.outboundTag \in {y.tag : y \in ToSet(t.outbounds)} \cup {Null}
                   /\ q.balancerTag \in {y.tag : y \in ToSet(bs)} \cup {Null}
        <5>1. CASE q = r
          BY <5>1, <1>2, <1>3, <1>10
        <5>2. CASE q \in ToSet(rules)
          BY <5>2, <1>5, <1>10, <2>1 DEF Refers
        <5>3. CASE q.outboundTag = Null /\ q.balancerTag = BalancerFallback(3)
          BY <5>3, <1>3, <2>1
        <5> QED
          BY <5>1, <5>2, <5>3, <3>1, <3>2, <3>3
      <4> QED
        BY <4>1, <4>2, Zenon DEF Refers
    <3>5. LoopbacksHaveRules(c) => Covered(ToSet(t.outbounds), ToSet(rs))
      <4> SUFFICES ASSUME LoopbacksHaveRules(c), NEW x \in ToSet(t.outbounds), x.protocol = "loopback"
                   PROVE  \E q \in ToSet(rs) : x.inboundTag \in q.inboundTag
        BY Zenon DEF Covered
      <4>1. CASE x \in ToSet(obs)
        <5>1. PICK q \in ToSet(rules) : x.inboundTag \in q.inboundTag
          BY <4>1, <1>5, Zenon DEF Covered
        <5>2. PICK p \in ToSet(red) : p.inboundTag = q.inboundTag
          BY <3>3
        <5> QED
          BY <5>1, <5>2, <3>1, <3>2
      <4>2. CASE x = our
        BY <4>2, <1>2
      <4>3. CASE x = loop
        BY <4>3, <1>2, <1>3, <3>1, <3>2
      <4> QED
        BY <4>1, <4>2, <4>3, <1>10
    <3>6. WellFormed(t)
      BY <3>4, <2>2, <2>3, <1>4, <1>11, WellFormedIs DEF rs
    <3>7. LoopbacksHaveRules(c) => LoopbacksHaveRules(t)
      BY <3>5, RulesCover DEF rs
    <3> QED
      BY <3>6, <3>7, <2>5 DEF t
  <2> QED
    BY <2>4, <2>5
<1> QED
  BY <1>12, <1>13, <1>1 DEF Config
\* The balancers with another fallback keep their tags.
LEMMA FallingBackRange ==
    ASSUME NEW list \in Seq(Balancers), NEW tag \in Optional(Tag), Apart(list)
    PROVE  /\ FallingBack(list, tag) \in Seq(Balancers)
           /\ Apart(FallingBack(list, tag))
           /\ \A b \in ToSet(FallingBack(list, tag)) :
                 b.fallbackTag = tag /\ \E a \in ToSet(list) : b.tag = a.tag
           /\ \A a \in ToSet(list) : \E b \in ToSet(FallingBack(list, tag)) : b.tag = a.tag
<1> DEFINE w == FallingBack(list, tag)
<1>1. /\ w \in Seq(Balancers) /\ Len(w) = Len(list)
      /\ \A i \in 1 .. Len(list) : w[i] = [list[i] EXCEPT !.fallbackTag = tag]
  BY FallingBackType, Zenon
<1> HIDE DEF w
<1>2. /\ DOMAIN list = 1 .. Len(list) /\ Len(list) \in Nat
      /\ \A i \in 1 .. Len(list) : list[i] \in Balancers
  OBVIOUS
<1>3. DOMAIN w = 1 .. Len(list)
  <2>1. DOMAIN w = 1 .. Len(w)
    BY <1>1
  <2> QED
    BY <2>1, <1>1
<1>4. \A b \in Balancers :
          /\ [b EXCEPT !.fallbackTag = tag].tag = b.tag
          /\ [b EXCEPT !.fallbackTag = tag].fallbackTag = tag
  BY DEF Balancers
<1>5. \A i \in 1 .. Len(list) : w[i].tag = list[i].tag /\ w[i].fallbackTag = tag
  BY <1>1, <1>2, <1>4
<1>6. ToSet(list) = {list[i] : i \in 1 .. Len(list)} /\ ToSet(w) = {w[i] : i \in 1 .. Len(list)}
  BY <1>2, <1>3, Zenon DEF ToSet
<1>7. Apart(w)
  BY <1>2, <1>3, <1>5 DEF Apart
<1>8. \A b \in ToSet(w) : b.fallbackTag = tag /\ \E a \in ToSet(list) : b.tag = a.tag
  BY <1>5, <1>6
<1>9. \A a \in ToSet(list) : \E b \in ToSet(w) : b.tag = a.tag
  BY <1>5, <1>6
<1> QED
  BY <1>1, <1>7, <1>8, <1>9, Zenon DEF w

\* The balancers of a reserve configuration, before the first slot.
LEMMA TopsRange ==
    ASSUME NEW list \in Seq(Balancers), Apart(list),
           NEW t, t = FallingBack(FallingBack(TopBalancers(list), Null), Loopback(1))
    PROVE  /\ t \in Seq(Balancers) /\ Apart(t)
           /\ \A b \in ToSet(t) : b.tag = BalancerTop /\ b.fallbackTag = Loopback(1)
           /\ \A a \in ToSet(list) : a.tag = BalancerTop => \E b \in ToSet(t) : b.tag = a.tag
<1> DEFINE tops == TopBalancers(list)
           u == FallingBack(tops, Null)
<1>1. tops \in Seq(Balancers) /\ Apart(tops)
  BY TopType, ApartPart DEF TopBalancers
<1>2. ToSet(tops) = {a \in ToSet(list) : a.tag = BalancerTop}
  <2>1. ToSet(tops) = {list[i] : i \in DOMAIN list \cap {j \in DOMAIN list : list[j].tag = BalancerTop}}
    BY WhereRange, Zenon DEF TopBalancers
  <2>2. ToSet(list) = {list[i] : i \in DOMAIN list}
    BY Zenon DEF ToSet
  <2> QED
    BY <2>1, <2>2
<1> HIDE DEF tops
<1>3. Null \in Optional(Tag) /\ Loopback(1) \in Optional(Tag)
  BY MadeTypes DEF Optional
<1>4. /\ u \in Seq(Balancers) /\ Apart(u)
      /\ \A b \in ToSet(u) : \E a \in ToSet(tops) : b.tag = a.tag
      /\ \A a \in ToSet(tops) : \E b \in ToSet(u) : b.tag = a.tag
  <2>1. /\ u \in Seq(Balancers) /\ Apart(u)
        /\ \A b \in ToSet(u) : b.fallbackTag = Null /\ \E a \in ToSet(tops) : b.tag = a.tag
        /\ \A a \in ToSet(tops) : \E b \in ToSet(u) : b.tag = a.tag
    BY <1>1, <1>3, FallingBackRange, Zenon
  <2> QED
    BY <2>1, Zenon
<1>5. t = FallingBack(u, Loopback(1))
  BY DEF tops
<1> HIDE DEF u
<1>6. /\ t \in Seq(Balancers) /\ Apart(t)
      /\ \A b \in ToSet(t) : b.fallbackTag = Loopback(1) /\ \E a \in ToSet(u) : b.tag = a.tag
      /\ \A a \in ToSet(u) : \E b \in ToSet(t) : b.tag = a.tag
  <2> DEFINE v == FallingBack(u, Loopback(1))
  <2>1. /\ v \in Seq(Balancers) /\ Apart(v)
        /\ \A b \in ToSet(v) : b.fallbackTag = Loopback(1) /\ \E a \in ToSet(u) : b.tag = a.tag
        /\ \A a \in ToSet(u) : \E b \in ToSet(v) : b.tag = a.tag
    BY <1>3, <1>4, FallingBackRange, Zenon
  <2> QED
    BY <2>1, <1>5
<1>7. \A b \in ToSet(t) : b.tag = BalancerTop
  BY <1>2, <1>4, <1>6
<1>8. \A a \in ToSet(list) : a.tag = BalancerTop => \E b \in ToSet(t) : b.tag = a.tag
  BY <1>2, <1>4, <1>6
<1> QED
  BY <1>6, <1>7, <1>8

\* The premise of StaysWellFormed.
Good ==
    /\ upstream # <<>> /\ upstream[1].outbounds # Null
    /\ WellFormed(upstream[1]) /\ Compatible(upstream[1])

\* A reserve configuration under construction: the tags of the slots to come
\* are free, only the loopback that the next slot answers waits for its rule,
\* and none waits after the last slot.
Building ==
    LET obs == ToSet(current.outbounds)
        balancers == Get(current.balancers, <<>>)
    IN  /\ Apart(current.outbounds)
        /\ \A n \in s + 1 .. 4 : \A ob \in obs : ob.tag # Custom(n)
        /\ \A n \in s + 2 .. 4 : \A ob \in obs : ob.tag # Loopback(n)
        /\ Covered(obs \ {LoopbackOutbound(s + 1)}, ToSet(loopRules))
        /\ s = 4 \/ idx >= Len(ours) => Covered(obs, ToSet(loopRules))
        /\ LoopbackOutbound(1) \in obs /\ current.routing = upstream[1].routing
        /\ current.routing =>
              /\ Apart(balancers)
              /\ \A n \in s + 1 .. 4 : \A b \in ToSet(balancers) : b.tag # BalancerCustom(n)
              /\ Refers(obs, ToSet(balancers),
                        ToSet(loopRules) \cup ToSet(Get(current.rules, <<>>)))

LEMMA OpenBuilding ==
    ASSUME Inv, Good, OpenReserve
    PROVE  Building'
<1> DEFINE up == upstream[1]
           kept == Essentials(up.outbounds)
           loop == LoopbackOutbound(1)
           list == Get(up.balancers, <<>>)
           rules == Get(up.rules, <<>>)
           obs == ToSet(current'.outbounds)
<1>1. up \in Config /\ up \in Listed
  BY FirstUpstream, Zenon DEF Inv, TypeOK, Good, Listed
<1>2. /\ up.outbounds \in Seq(Outbound) /\ Get(up.outbounds, <<>>) = up.outbounds
      /\ list \in Seq(Balancers) /\ rules \in Seq(Rules)
  BY <1>1, ListedFields, ConfigFields
<1>3. /\ current' = Reserve(up) /\ s' = 0 /\ loopRules' = <<>>
      /\ idx' < Len(ours') /\ Len(ours') \in Nat /\ idx' \in Nat
  <2>1. current' = Reserve(up) /\ s' = 0 /\ loopRules' = <<>> /\ idx' = idx /\ ours' = ours /\ idx < Len(ours)
    BY DEF OpenReserve
  <2>2. Len(ours) \in Nat /\ idx \in Nat
    BY SelectionIs, ConstantsAssumption DEF Inv, TypeOK
  <2> QED
    BY <2>1, <2>2
<1>4. /\ current' \in Listed
      /\ current'.outbounds = Append(kept, loop)
      /\ current'.routing = up.routing
      /\ up.routing =>
            /\ current'.balancers = FallingBack(FallingBack(TopBalancers(list), Null), Loopback(1))
            /\ current'.rules = OtherRules(rules)
  BY <1>1, <1>2, <1>3, ReserveIs
<1>5. /\ Apart(up.outbounds) /\ Apart(list)
      /\ Refers(ToSet(up.outbounds), ToSet(list), ToSet(rules))
  BY <1>1, WellFormedIs DEF Good
<1>6. /\ kept \in Seq(Outbound) /\ ToSet(kept) = {ob \in ToSet(up.outbounds) : IsEssential(ob)}
      /\ Apart(kept)
  BY <1>2, <1>5, OutboundParts, ApartPart DEF Essentials
<1>7. /\ \A ob \in ToSet(kept) : /\ \A n \in 1 .. 4 : ob.tag # Custom(n) /\ ob.tag # Loopback(n)
                                 /\ ob.protocol # "loopback"
      /\ \A r \in ToSet(rules) : ~IsLoopRule(r) =>
            /\ r.outboundTag \in {ob.tag : ob \in ToSet(kept)} \cup {Null}
            /\ r.balancerTag \in {Null, BalancerTop}
  BY <1>6 DEF Good, Compatible, Optional
<1> HIDE DEF up, kept, list, rules
<1>8. loop \in Outbound /\ loop.tag = Loopback(1) /\ loop.protocol = "loopback"
  BY MadeTypes DEF LoopbackOutbound
<1>9. ToSet(current'.outbounds) = ToSet(kept) \cup {loop}
  BY <1>4, <1>6, <1>8, AppendRange
<1>10. Apart(current'.outbounds)
  <2>1. Append(kept, loop) = kept \o <<loop>> /\ <<loop>> \in Seq(Outbound)
    BY <1>6, <1>8, AppendIs
  <2>2. Apart(<<loop>>) /\ ToSet(<<loop>>) = {loop}
    BY ApartOne
  <2>3. \A x \in ToSet(kept), y \in ToSet(<<loop>>) : x.tag # y.tag
    BY <1>7, <1>8, <2>2
  <2> QED
    BY <2>1, <2>2, <2>3, <1>4, <1>6, ApartBoth
<1> HIDE DEF loop
<1>11. /\ \A n \in 1 .. 4 : \A ob \in obs : ob.tag # Custom(n)
       /\ \A n \in 2 .. 4 : \A ob \in obs : ob.tag # Loopback(n)
  BY <1>7, <1>8, <1>9, NewTags
<1>12. Covered(obs \ {LoopbackOutbound(1)}, ToSet(loopRules'))
  BY <1>7, <1>9 DEF Covered, loop
<1>13. ASSUME up.routing
       PROVE  /\ Apart(Get(current'.balancers, <<>>))
              /\ \A n \in 1 .. 4 : \A b \in ToSet(Get(current'.balancers, <<>>)) : b.tag # BalancerCustom(n)
              /\ Refers(obs, ToSet(Get(current'.balancers, <<>>)),
                        ToSet(loopRules') \cup ToSet(Get(current'.rules, <<>>)))
  <2> DEFINE t == FallingBack(FallingBack(TopBalancers(list), Null), Loopback(1))
             others == OtherRules(rules)
  <2>1. /\ t \in Seq(Balancers) /\ Apart(t)
        /\ \A b \in ToSet(t) : b.tag = BalancerTop /\ b.fallbackTag = Loopback(1)
        /\ \A a \in ToSet(list) : a.tag = BalancerTop => \E b \in ToSet(t) : b.tag = a.tag
    BY <1>2, <1>5, TopsRange
  <2>2. others \in Seq(Rules) /\ ToSet(others) = {r \in ToSet(rules) : ~IsLoopRule(r)}
    BY <1>2, RuleParts
  <2>3. Get(current'.balancers, <<>>) = t /\ Get(current'.rules, <<>>) = others
    BY <1>4, <1>13, <2>1, <2>2, NotNull, Zenon DEF Get
  <2>4. ToSet(loopRules') = {}
    BY <1>3 DEF ToSet
  <2> HIDE DEF t, others
  <2>5. Refers(obs, ToSet(t), ToSet(others))
    <3>1. \A b \in ToSet(t) : b.fallbackTag \in {ob.tag : ob \in obs} \cup {Null}
      BY <2>1, <1>8, <1>9
    <3>2. ASSUME NEW r \in ToSet(others)
          PROVE  /\ r.outboundTag \in {ob.tag : ob \in obs} \cup {Null}
                 /\ r.balancerTag \in {b.tag : b \in ToSet(t)} \cup {Null}
      <4>1. r \in ToSet(rules) /\ ~IsLoopRule(r)
        BY <2>2
      <4>2. r.outboundTag \in {ob.tag : ob \in obs} \cup {Null}
        BY <4>1, <1>7, <1>9
      <4>3. r.balancerTag = Null \/ r.balancerTag = BalancerTop
        BY <4>1, <1>7
      <4>4. r.balancerTag \in {b.tag : b \in ToSet(list)} \cup {Null}
        BY <4>1, <1>5, Zenon DEF Refers
      <4> QED
        BY <4>2, <4>3, <4>4, <2>1
    <3> QED
      BY <3>1, <3>2, Zenon DEF Refers
  <2>6. \A n \in 1 .. 4 : \A b \in ToSet(t) : b.tag # BalancerCustom(n)
    BY <2>1, NewTags
  <2> QED
    BY <2>1, <2>3, <2>4, <2>5, <2>6
<1>14. /\ s' + 1 = 1 /\ s' + 2 = 2 /\ ~(s' = 4 \/ idx' >= Len(ours'))
  BY <1>3
<1>15. LoopbackOutbound(1) \in obs /\ current'.routing = upstream'[1].routing
  BY <1>4, <1>9 DEF loop, up, OpenReserve
<1> QED
  BY <1>4, <1>10, <1>11, <1>12, <1>13, <1>14, <1>15 DEF Building

\* What InjectNext adds.
LEMMA SlotParts ==
    ASSUME Inv, InjectNext,
           NEW ob, ob = [ours[idx + 1] EXCEPT !.tag = Custom(s + 1)]
    PROVE  /\ ob.tag = Custom(s + 1) /\ ob.protocol = "proxy"
           /\ s \in 0 .. 3 /\ s' = s + 1 /\ idx \in Nat /\ Len(ours) \in Nat
           /\ idx' = idx + 1 /\ ours' = ours
           /\ loopRules \in Seq(Rules) /\ loopRules' \in Seq(Rules)
           /\ IsLast => ToSet(loopRules') = ToSet(loopRules) \cup {Rule({LoopTag(s + 1)}, ob.tag, Null)}
           /\ ~IsLast => ToSet(loopRules')
                            = ToSet(loopRules) \cup {Rule({LoopTag(s + 1)}, Null, BalancerCustom(s + 1))}
<1>1. s \in 0 .. 3 /\ idx + 1 \in 1 .. Len(ours) /\ ob \in Outbound
  BY Extended
<1>2. /\ ours \in Selections /\ idx \in Nat /\ Len(ours) \in Nat /\ loopRules \in Seq(Rules)
  BY SelectionIs, ConstantsAssumption DEF Inv, TypeOK
<1>3. ob.tag = Custom(s + 1) /\ ob.protocol = "proxy"
  <2>1. ours[idx + 1] = Proxy(<<"p", idx + 1>>, idx + 1)
    BY <1>1, <1>2, SelectionIs
  <2> QED
    BY <2>1 DEF Proxy
<1>4. s' = s + 1 /\ idx' = idx + 1 /\ ours' = ours
  BY DEF InjectNext
<1>5. /\ Rule({LoopTag(s + 1)}, ob.tag, Null) \in Rules
      /\ Rule({LoopTag(s + 1)}, Null, BalancerCustom(s + 1)) \in Rules
  <2>1. s + 1 \in Nat
    BY <1>1
  <2> QED
    BY <1>3, <2>1, MadeTypes DEF Optional
<1>6. /\ IsLast => loopRules' = Append(loopRules, Rule({LoopTag(s + 1)}, ob.tag, Null))
      /\ ~IsLast => loopRules' = Append(loopRules, Rule({LoopTag(s + 1)}, Null, BalancerCustom(s + 1)))
  BY Zenon DEF InjectNext
<1>7. /\ IsLast => /\ loopRules' \in Seq(Rules)
                   /\ ToSet(loopRules')
                        = ToSet(loopRules) \cup {Rule({LoopTag(s + 1)}, ob.tag, Null)}
      /\ ~IsLast => /\ loopRules' \in Seq(Rules)
                    /\ ToSet(loopRules')
                         = ToSet(loopRules) \cup {Rule({LoopTag(s + 1)}, Null, BalancerCustom(s + 1))}
  <2>1. \A r \in Rules : /\ Append(loopRules, r) \in Seq(Rules)
                          /\ ToSet(Append(loopRules, r)) = ToSet(loopRules) \cup {r}
    BY <1>2, AppendRange, Zenon
  <2> QED
    BY <1>5, <1>6, <2>1, Zenon
<1> QED
  BY <1>1, <1>2, <1>3, <1>4, <1>7, Zenon

LEMMA NextBuilding ==
    ASSUME Inv, Building, InjectNext
    PROVE  Building'
<1> DEFINE ob == [ours[idx + 1] EXCEPT !.tag = Custom(s + 1)]
           loop == LoopbackOutbound(s + 2)
           obs == ToSet(current.outbounds)
           new == ToSet(current'.outbounds)
           list == Get(current.balancers, <<>>)
           more == Get(current'.balancers, <<>>)
           kept == Get(current.rules, <<>>)
           b == Balancer(BalancerCustom(s + 1), {ob.tag}, Loopback(s + 2))
           final == Rule({LoopTag(s + 1)}, ob.tag, Null)
           on == Rule({LoopTag(s + 1)}, Null, BalancerCustom(s + 1))
<1>1. /\ ob.tag = Custom(s + 1) /\ ob.protocol = "proxy"
      /\ s \in 0 .. 3 /\ s' = s + 1 /\ idx \in Nat /\ Len(ours) \in Nat
      /\ idx' = idx + 1 /\ ours' = ours
      /\ IsLast => ToSet(loopRules') = ToSet(loopRules) \cup {final}
      /\ ~IsLast => ToSet(loopRules') = ToSet(loopRules) \cup {on}
  BY SlotParts
<1>2. /\ ob \in Outbound /\ current \in Listed /\ current' \in Listed
      /\ current'.routing = current.routing
      /\ IsLast => /\ current'.outbounds = Append(current.outbounds, ob)
                   /\ current'.balancers = current.balancers
                   /\ current'.rules = current.rules
      /\ ~IsLast => /\ current'.outbounds = current.outbounds \o <<ob, loop>>
                    /\ current.routing => /\ current'.balancers = Append(list, b)
                                          /\ current'.rules = current.rules
  BY Extended, Zenon
<1>3. /\ current.outbounds \in Seq(Outbound) /\ list \in Seq(Balancers)
  BY <1>2, ListedFields, ConfigFields
<1>4. /\ Apart(current.outbounds)
      /\ \A n \in s + 1 .. 4 : \A x \in obs : x.tag # Custom(n)
      /\ \A n \in s + 2 .. 4 : \A x \in obs : x.tag # Loopback(n)
      /\ Covered(obs \ {LoopbackOutbound(s + 1)}, ToSet(loopRules))
      /\ LoopbackOutbound(1) \in obs /\ current.routing = upstream[1].routing
      /\ current.routing =>
            /\ Apart(list)
            /\ \A n \in s + 1 .. 4 : \A x \in ToSet(list) : x.tag # BalancerCustom(n)
            /\ Refers(obs, ToSet(list), ToSet(loopRules) \cup ToSet(kept))
  BY Zenon DEF Building
<1>5. /\ s + 1 \in Nat /\ s + 2 \in Nat /\ s' + 1 = s + 2 /\ s' + 2 = s + 3
      /\ s + 1 \in s + 1 .. 4
      /\ \A n \in s + 2 .. 4 : n \in s + 1 .. 4 /\ n \in Nat /\ n # s + 1
      /\ \A n \in s + 3 .. 4 : n \in s + 2 .. 4 /\ n \in Nat /\ n # s + 2
  BY <1>1
<1>6. /\ loop \in Outbound /\ loop.tag = Loopback(s + 2)
      /\ b \in Balancers /\ b.tag = BalancerCustom(s + 1) /\ b.fallbackTag = Loopback(s + 2)
      /\ final.inboundTag = {LoopTag(s + 1)} /\ final.outboundTag = ob.tag /\ final.balancerTag = Null
      /\ on.inboundTag = {LoopTag(s + 1)} /\ on.outboundTag = Null
      /\ on.balancerTag = BalancerCustom(s + 1)
      /\ LoopbackOutbound(s + 1).inboundTag = LoopTag(s + 1)
  <2>1. loop \in Outbound /\ b \in Balancers
    BY <1>1, <1>5, MadeTypes DEF Optional
  <2>2. loop.tag = Loopback(s + 2) /\ LoopbackOutbound(s + 1).inboundTag = LoopTag(s + 1)
    BY DEF LoopbackOutbound
  <2>3. b.tag = BalancerCustom(s + 1) /\ b.fallbackTag = Loopback(s + 2)
    BY DEF Balancer
  <2>4. /\ final.inboundTag = {LoopTag(s + 1)} /\ final.outboundTag = ob.tag /\ final.balancerTag = Null
        /\ on.inboundTag = {LoopTag(s + 1)} /\ on.outboundTag = Null
        /\ on.balancerTag = BalancerCustom(s + 1)
    BY DEF Rule
  <2> QED
    BY <2>1, <2>2, <2>3, <2>4
<1> HIDE DEF ob, loop, b, final, on
<1>7. ASSUME NEW r, r = final \/ r = on
      PROVE  Covered(obs \cup {ob}, ToSet(loopRules) \cup {r})
  <2> SUFFICES ASSUME NEW x \in obs \cup {ob}, x.protocol = "loopback"
               PROVE  \E q \in ToSet(loopRules) \cup {r} : x.inboundTag \in q.inboundTag
    BY Zenon DEF Covered
  <2>1. CASE x = LoopbackOutbound(s + 1)
    BY <2>1, <1>6, <1>7
  <2>2. CASE x \in obs \ {LoopbackOutbound(s + 1)}
    BY <2>2, <1>4, Zenon DEF Covered
  <2>3. CASE x = ob
    BY <2>3, <1>1
  <2> QED
    BY <2>1, <2>2, <2>3
<1>8. CASE IsLast
  <2>1. new = obs \cup {ob}
    <3>1. ToSet(Append(current.outbounds, ob)) = ToSet(current.outbounds) \cup {ob}
      <4>1. ob \in Outbound /\ current.outbounds \in Seq(Outbound)
        BY <1>2, <1>3, Zenon
      <4> QED
        BY <4>1, AppendRange, ZenonT(60)
    <3>2. current'.outbounds = Append(current.outbounds, ob)
      BY <1>2, <1>8, Zenon
    <3> QED
      BY <3>1, <3>2
  <2>2. Apart(current'.outbounds)
    <3>1. Append(current.outbounds, ob) = current.outbounds \o <<ob>> /\ <<ob>> \in Seq(Outbound)
      BY <1>2, <1>3, AppendIs
    <3>2. Apart(<<ob>>) /\ ToSet(<<ob>>) = {ob}
      BY ApartOne
    <3>3. \A x \in obs, y \in ToSet(<<ob>>) : x.tag # y.tag
      BY <3>2, <1>1, <1>4, <1>5
    <3> QED
      BY <3>1, <3>2, <3>3, <1>2, <1>3, <1>4, <1>8, ApartBoth
  <2> HIDE DEF obs, new
  <2>3. \A n \in s + 2 .. 4 : \A x \in new : x.tag # Custom(n)
    BY <2>1, <1>1, <1>4, <1>5, NewTags
  <2>4. \A n \in s + 3 .. 4 : \A x \in new : x.tag # Loopback(n)
    BY <2>1, <1>1, <1>4, <1>5, NewTags
  <2>5. Covered(new, ToSet(loopRules'))
    BY <2>1, <1>1, <1>7, <1>8
  <2>6. Covered(new \ {LoopbackOutbound(s + 2)}, ToSet(loopRules'))
    BY <2>5, Zenon DEF Covered
  <2>7. more = list /\ Get(current'.rules, <<>>) = kept
    BY <1>2, <1>8
  <2> HIDE DEF list, more, kept
  <2>8. ASSUME current.routing
        PROVE  /\ Apart(more)
               /\ \A n \in s + 2 .. 4 : \A x \in ToSet(more) : x.tag # BalancerCustom(n)
               /\ Refers(new, ToSet(more), ToSet(loopRules') \cup ToSet(kept))
    <3>1. Refers(new, ToSet(list), (ToSet(loopRules) \cup {final}) \cup ToSet(kept))
      <4>1. Refers(obs, ToSet(list), ToSet(loopRules) \cup ToSet(kept))
        BY <2>8, <1>4
      <4> QED
        BY <4>1, <2>1, <1>6 DEF Refers
    <3> QED
      BY <3>1, <2>7, <2>8, <1>1, <1>4, <1>5, <1>8
  <2>9. LoopbackOutbound(1) \in new /\ current'.routing = upstream'[1].routing
    BY <2>1, <1>2, <1>4 DEF InjectNext
  <2> QED
    BY <2>2, <2>3, <2>4, <2>5, <2>6, <2>7, <2>8, <2>9, <1>2, <1>5 DEF Building, new, more, kept
<1>9. CASE ~IsLast
  <2>1. s # 3 /\ idx' < Len(ours') /\ s' # 4 /\ s + 2 \in s + 2 .. 4
    BY <1>1, <1>9 DEF IsLast
  <2>2. /\ <<ob, loop>> \in Seq(Outbound) /\ Apart(<<ob, loop>>) /\ ToSet(<<ob, loop>>) = {ob, loop}
    <3>1. ob.tag # loop.tag
      BY <1>1, <1>5, <1>6, NewTags
    <3> QED
      BY <3>1, <1>2, <1>6, ApartTwo
  <2>3. new = obs \cup {ob, loop}
    <3>1. ToSet(current.outbounds \o <<ob, loop>>)
            = ToSet(current.outbounds) \cup ToSet(<<ob, loop>>)
      BY <2>2, <1>3, ConcatRange, Zenon
    <3>2. current'.outbounds = current.outbounds \o <<ob, loop>>
      BY <1>2, <1>9, Zenon
    <3> QED
      BY <2>2, <3>1, <3>2, Zenon
  <2>4. Apart(current'.outbounds)
    <3>1. \A x \in obs, y \in ToSet(<<ob, loop>>) : x.tag # y.tag
      BY <2>1, <2>2, <1>1, <1>4, <1>5, <1>6
    <3> QED
      BY <3>1, <2>2, <1>2, <1>3, <1>4, <1>9, ApartBoth
  <2> HIDE DEF obs, new
  <2>5. \A n \in s + 2 .. 4 : \A x \in new : x.tag # Custom(n)
    BY <2>3, <1>1, <1>4, <1>5, <1>6, NewTags
  <2>6. \A n \in s + 3 .. 4 : \A x \in new : x.tag # Loopback(n)
    BY <2>3, <1>1, <1>4, <1>5, <1>6, NewTags
  <2>7. Covered(new \ {LoopbackOutbound(s + 2)}, ToSet(loopRules'))
    <3>1. Covered(obs \cup {ob}, ToSet(loopRules'))
      BY <1>1, <1>7, <1>9
    <3> QED
      BY <3>1, <2>3 DEF Covered, loop
  <2> HIDE DEF list, kept
  <2>8. ASSUME current.routing
        PROVE  /\ Apart(more)
               /\ \A n \in s + 2 .. 4 : \A x \in ToSet(more) : x.tag # BalancerCustom(n)
               /\ Refers(new, ToSet(more), ToSet(loopRules') \cup ToSet(Get(current'.rules, <<>>)))
    <3>1. /\ Append(list, b) \in Seq(Balancers)
          /\ ToSet(Append(list, b)) = ToSet(list) \cup {b}
          /\ Append(list, b) = list \o <<b>> /\ <<b>> \in Seq(Balancers)
      BY <1>3, <1>6, AppendRange, AppendIs
    <3>2. more = Append(list, b)
      BY <3>1, <2>8, <1>2, <1>9, NotNull, Zenon DEF Get
    <3>3. Get(current'.rules, <<>>) = kept
      BY <2>8, <1>2, <1>9 DEF kept
    <3> HIDE DEF more
    <3>4. Apart(more)
      <4>1. Apart(<<b>>) /\ ToSet(<<b>>) = {b}
        BY ApartOne
      <4>2. \A x \in ToSet(list), y \in ToSet(<<b>>) : x.tag # y.tag
        BY <4>1, <2>8, <1>4, <1>5, <1>6
      <4> QED
        BY <4>1, <4>2, <3>1, <3>2, <2>8, <1>3, <1>4, ApartBoth
    <3>5. \A n \in s + 2 .. 4 : \A x \in ToSet(more) : x.tag # BalancerCustom(n)
      BY <3>1, <3>2, <2>8, <1>4, <1>5, <1>6, NewTags
    <3>6. Refers(new, ToSet(list) \cup {b}, (ToSet(loopRules) \cup {on}) \cup ToSet(kept))
      <4>1. Refers(obs, ToSet(list), ToSet(loopRules) \cup ToSet(kept))
        BY <2>8, <1>4
      <4> QED
        BY <4>1, <2>3, <1>6 DEF Refers
    <3> QED
      BY <3>1, <3>2, <3>3, <3>4, <3>5, <3>6, <1>1, <1>9
  <2>9. LoopbackOutbound(1) \in new /\ current'.routing = upstream'[1].routing
    BY <2>3, <1>2, <1>4 DEF InjectNext
  <2> QED
    <3>1. ~(s' = 4 \/ idx' >= Len(ours'))
      BY <2>1, <1>1
    <3> QED
      BY <3>1, <2>4, <2>5, <2>6, <2>7, <2>8, <2>9, <1>2, <1>5 DEF Building, new, more
<1> QED
  BY <1>8, <1>9

\* A reserve configuration that is finished is well-formed, and has its loop
\* rules if it has a routing object.
LEMMA CloseWellFormed ==
    ASSUME Inv, Building, CloseReserve
    PROVE  \E c \in Listed : /\ WellFormed(c) /\ configs' = Append(configs, Tidied(c))
                             /\ LoopbacksHaveRules(c) <=> upstream[1].routing
<1> DEFINE c == Routed(current, current.balancers, loopRules \o Get(current.rules, <<>>))
           kept == Get(current.rules, <<>>)
           obs == ToSet(current.outbounds)
<1>1. /\ current \in Listed /\ c \in Config
      /\ c.outbounds = current.outbounds /\ c.routing = current.routing
      /\ c.routing => c.balancers = current.balancers /\ c.rules = loopRules \o kept
      /\ ~c.routing => c.balancers = Null /\ c.rules = Null
      /\ configs' = Append(configs, Tidied(c))
  BY Closed, Zenon
<1> HIDE DEF c
<1>2. /\ current \in Config /\ current.outbounds \in Seq(Outbound) /\ c \in Listed
      /\ kept \in Seq(Rules) /\ loopRules \in Seq(Rules)
  <2>1. current \in Config /\ current.outbounds \in Seq(Outbound)
    BY <1>1, ListedFields
  <2> QED
    BY <1>1, <2>1, ConfigFields, MakeListed DEF Inv, TypeOK
<1>3. /\ loopRules \o kept \in Seq(Rules)
      /\ ToSet(loopRules \o kept) = ToSet(loopRules) \cup ToSet(kept)
  BY <1>2, ConcatRange
<1>4. /\ Apart(c.outbounds) /\ Covered(obs, ToSet(loopRules))
      /\ LoopbackOutbound(1) \in obs /\ current.routing = upstream[1].routing
      /\ current.routing =>
            /\ Apart(Get(current.balancers, <<>>))
            /\ Refers(obs, ToSet(Get(current.balancers, <<>>)), ToSet(loopRules) \cup ToSet(kept))
  BY <1>1 DEF Building, CloseReserve
<1>5. Covered(obs, ToSet(loopRules) \cup ToSet(kept))
  BY <1>4 DEF Covered
<1>7. LoopbackOutbound(1).protocol = "loopback"
  BY DEF LoopbackOutbound
<1>6. WellFormed(c) /\ (LoopbacksHaveRules(c) <=> c.routing)
  <2>1. CASE ~c.routing
    <3>1. Get(c.balancers, <<>>) = <<>> /\ Get(c.rules, <<>>) = <<>>
      BY <1>1, <2>1, Zenon DEF Get
    <3>2. Apart(<<>>) /\ ToSet(<<>>) = {}
      BY DEF Apart, ToSet
    <3>3. Refers(obs, {}, {})
      BY Zenon DEF Refers
    <3>4. ~LoopbacksHaveRules(c)
      BY <3>1, <3>2, <1>1, <1>4, <1>7, NoRulesNoCover, RulesCover
    <3> QED
      BY <3>1, <3>2, <3>3, <3>4, <2>1, <1>1, <1>2, <1>4, WellFormedIs
  <2>2. CASE c.routing
    <3>1. Get(c.balancers, <<>>) = Get(current.balancers, <<>>)
      BY <1>1, <2>2
    <3>2. Get(c.rules, <<>>) = loopRules \o kept
      BY <1>1, <1>3, <2>2, NotNull, Zenon DEF Get
    <3> HIDE DEF kept
    <3>3. ToSet(Get(c.rules, <<>>)) = ToSet(loopRules) \cup ToSet(kept)
      BY <3>2, <1>3
    <3>4. LoopbacksHaveRules(c)
      BY <3>3, <1>1, <1>5, RulesCover
    <3> QED
      BY <3>1, <3>3, <3>4, <2>2, <1>1, <1>2, <1>4, WellFormedIs
  <2> QED
    BY <2>1, <2>2, <1>2, ListedFields, ConfigFields
<1> QED
  BY <1>1, <1>2, <1>4, <1>6

\* So is the main configuration.
LEMMA MainWellFormed ==
    ASSUME Inv, Good, InjectMain
    PROVE  \E c \in Listed : /\ WellFormed(c) /\ configs' = <<Tidied(c)>>
                             /\ LoopbacksHaveRules(upstream[1]) =>
                                   (LoopbacksHaveRules(c) <=> RulesAreKept(1))
<1>1. /\ upstream[1] \in Listed /\ WellFormed(upstream[1]) /\ Compatible(upstream[1])
  BY Started, Zenon DEF Good, Listed
<1>2. configs' = <<Tidied(MainStart)>> /\ (ours # <<>> => ours[1] \in Outbound)
  BY Started
<1>3. CASE ours = <<>>
  BY <1>1, <1>2, <1>3 DEF MainStart, RulesAreKept
<1>4. CASE ours # <<>>
  <2>1. ours[1].protocol = "proxy"
    <3>1. ours \in Seq(Outbound) /\ \A i \in 1 .. Len(ours) : ours[i] = Proxy(<<"p", i>>, i)
      BY SelectionIs DEF Inv, TypeOK
    <3>2. 1 \in 1 .. Len(ours)
      BY <3>1, <1>4
    <3> QED
      <4>1. ours[1] = Proxy(<<"p", 1>>, 1)
        BY <3>1, <3>2
      <4> QED
        BY <4>1 DEF Proxy
  <2> DEFINE c == WithFallback(upstream[1], ours[1])
  <2>2. /\ c \in Listed /\ WellFormed(c)
        /\ LoopbacksHaveRules(upstream[1]) => (LoopbacksHaveRules(c) <=> upstream[1].rules # Null)
    BY <2>1, <1>1, <1>2, <1>4, WithFallbackIs, WellFormedFallback
  <2>3. configs' = <<Tidied(c)>>
    BY <1>2, <1>4, Zenon DEF MainStart
  <2> HIDE DEF c
  <2> QED
    BY <2>2, <2>3, <1>4 DEF RulesAreKept
<1> QED
  BY <1>3, <1>4

\* What is finished is well-formed, and what is not is on the way to be.
Sound(c, k) ==
    /\ WellFormed(c)
    /\ LoopbacksHaveRules(upstream[1]) => (LoopbacksHaveRules(c) <=> RulesAreKept(k))

WellInv == Good => /\ \A k \in DOMAIN configs : Sound(configs[k], k)
                   /\ stage = "slots" => Building

LEMMA WellStep == Inv /\ WellInv /\ [Next]_vars => WellInv'
<1> SUFFICES ASSUME Inv, WellInv, [Next]_vars, Good'
             PROVE  /\ \A k \in DOMAIN configs' : Sound(configs'[k], k)
                    /\ stage' = "slots" => Building'
  <2>1. [Next]_vars => upstream' = upstream /\ ours' = ours
    BY DEF Next, vars, ReturnUpstream, InjectMain, OpenReserve, InjectNext, CloseReserve, Return
  <2> QED
    BY <2>1 DEF WellInv, Sound, WellFormed, LoopbacksHaveRules, RulesAreKept
<1>1. upstream' = upstream /\ Good
  BY DEF Next, vars, ReturnUpstream, InjectMain, OpenReserve, InjectNext, CloseReserve, Return,
     Good, WellFormed, Compatible
<1>2. /\ \A k \in DOMAIN configs : Sound(configs[k], k)
      /\ stage = "slots" => Building
      /\ configs \in Seq(Listed)
  BY <1>1 DEF WellInv, Inv, TypeOK
<1>3. CASE UNCHANGED vars
  BY <1>2, <1>3 DEF vars, Building
<1>4. CASE ReturnUpstream \/ Return
  <2>1. UNCHANGED configs /\ stage' # "slots"
    BY <1>4 DEF ReturnUpstream, Return
  <2> QED
    BY <1>2, <2>1
<1>5. CASE InjectMain
  <2>1. PICK c \in Listed : /\ WellFormed(c) /\ configs' = <<Tidied(c)>>
                            /\ LoopbacksHaveRules(upstream[1]) =>
                                  (LoopbacksHaveRules(c) <=> RulesAreKept(1))
    BY <1>1, <1>5, MainWellFormed
  <2>2. Sound(Tidied(c), 1)
    BY <2>1, WellFormedTidied DEF Sound
  <2>3. stage' # "slots"
    BY <1>5 DEF InjectMain
  <2> QED
    BY <2>1, <2>2, <2>3
<1>6. CASE OpenReserve
  <2>1. configs' = configs
    BY <1>6 DEF OpenReserve
  <2> QED
    BY <1>1, <1>2, <1>6, <2>1, OpenBuilding
<1>7. CASE InjectNext
  <2>1. configs' = configs /\ stage = "slots"
    BY <1>7 DEF InjectNext
  <2> QED
    BY <1>2, <1>7, <2>1, NextBuilding
<1>8. CASE CloseReserve
  <2>1. stage = "slots" /\ stage' # "slots"
    BY <1>8 DEF CloseReserve
  <2>2. PICK c \in Listed : /\ WellFormed(c) /\ configs' = Append(configs, Tidied(c))
                            /\ LoopbacksHaveRules(c) <=> upstream[1].routing
    BY <1>2, <1>8, <2>1, CloseWellFormed
  <2> DEFINE t == Tidied(c)
  <2>3. WellFormed(t) /\ t \in Listed /\ (LoopbacksHaveRules(t) <=> upstream[1].routing)
    BY <2>2, WellFormedTidied, TidiedIs, ListedFields
  <2> HIDE DEF t
  <2>4. /\ Len(configs) \in Nat /\ DOMAIN configs = 1 .. Len(configs)
        /\ DOMAIN Append(configs, t) = 1 .. Len(configs) + 1
        /\ \A k \in 1 .. Len(configs) : Append(configs, t)[k] = configs[k]
        /\ Append(configs, t)[Len(configs) + 1] = t
    BY <1>2, <2>3
  <2>5. \A k \in 1 .. Len(configs) + 1 : k \in 1 .. Len(configs) \/ k = Len(configs) + 1
    BY <2>4
  <2>6. Len(configs) + 1 # 1
    BY <2>1, <2>4, <1>2 DEF Inv
  <2>7. Sound(t, Len(configs) + 1)
    BY <2>3, <2>6 DEF Sound, RulesAreKept
  <2>8. \A k \in DOMAIN Append(configs, t) : Sound(Append(configs, t)[k], k)
    BY <1>2, <2>4, <2>5, <2>7, Zenon
  <2> QED
    BY <2>1, <2>2, <2>8 DEF t
<1> QED
  BY <1>3, <1>4, <1>5, <1>6, <1>7, <1>8 DEF Next

\* An upstream configuration that is well-formed, and has nothing in the way of
\* the new tags, gives only well-formed ones: nothing refers to an outbound or
\* a balancer that is not there.  If its loopbacks have rules, those of the main
\* configuration have them unless the upstream sent no list of rules, and those
\* of a reserve configuration unless it sent no routing object; then they have
\* not (inject_outbounds).
THEOREM StaysWellFormedHolds == Spec => []StaysWellFormed
<1>1. Init => WellInv
  BY DEF Init, WellInv
<1>2. Inv /\ WellInv => StaysWellFormed
  BY DEF Inv, WellInv, StaysWellFormed, Sound, Good, TypeOK
<1> QED
  BY <1>1, <1>2, WellStep, InvHolds, PTL DEF Spec

-----------------------------------------------------------------------------
\* The walk along the fallbacks.

\* How many targets the walk has.
Longest(c) == 2 + Len(Get(c.outbounds, <<>>)) + Len(Get(c.balancers, <<>>))

\* g is the walk, up to k targets.
Walks(c, explicit, g, k) ==
    g = [n \in 1 .. k |-> IF n = 1 THEN <<"balancer", BalancerTop>>
                          ELSE Following(c, g[n - 1], explicit)]

LEMMA WalkChosen ==
    ASSUME NEW c, NEW explicit
    PROVE  Walk(c, explicit) = CHOOSE g : Walks(c, explicit, g, Longest(c))
BY Zenon DEF Walk, Walks, Longest

LEMMA WalkExists ==
    ASSUME NEW c, NEW explicit, NEW n \in Nat
    PROVE  \E g : Walks(c, explicit, g, n)
<1> DEFINE T == {k \in Nat : ~ \E g : Walks(c, explicit, g, k)}
<1>1. SUFFICES ASSUME T # {} PROVE FALSE
  OBVIOUS
<1>2. PICK k \in T : \A m \in T : k <= m
  BY <1>1, Least
<1>3. CASE k = 0
  <2> DEFINE g == [i \in 1 .. 0 |-> <<>>]
  <2>1. Walks(c, explicit, g, 0)
    BY DEF Walks
  <2> QED
    BY <1>2, <1>3, <2>1
<1>4. CASE k # 0
  <2>1. k \in Nat /\ k - 1 \in Nat /\ ~ (k <= k - 1)
    BY <1>2, <1>4
  <2>2. PICK g : Walks(c, explicit, g, k - 1)
    BY <2>1, <1>2
  <2> DEFINE F(x) == Following(c, x, explicit)
             Z == <<"balancer", BalancerTop>>
  <2> HIDE DEF F, Z
  <2>3. \A i \in 1 .. k - 1 : g[i] = IF i = 1 THEN Z ELSE F(g[i - 1])
    <3> HIDE DEF T
    <3> QED  BY <2>2, Zenon DEF Walks, F, Z
  <2> DEFINE h == [i \in 1 .. k |-> IF i = 1 THEN Z ELSE F(g[i - 1])]
  <2>4. \A i \in 1 .. k : h[i] = IF i = 1 THEN Z ELSE F(g[i - 1])
    OBVIOUS
  <2> HIDE DEF h, T
  <2>5. \A i \in 1 .. k - 1 : h[i] = g[i]
    BY <2>1, <2>3, <2>4
  <2>6. \A i \in 1 .. k : i # 1 => h[i - 1] = g[i - 1]
    BY <2>1, <2>5
  <2>7. h = [i \in 1 .. k |-> IF i = 1 THEN Z ELSE F(h[i - 1])]
    BY <2>6 DEF h
  <2>8. Walks(c, explicit, h, k)
    BY <2>7, Zenon DEF Walks, F, Z
  <2> QED
    BY <1>2, <2>8 DEF T
<1> QED
  BY <1>3, <1>4

LEMMA WalkIs ==
    ASSUME NEW c \in Config, NEW explicit
    PROVE  LET w == Walk(c, explicit)
           IN  /\ Longest(c) \in Nat /\ Longest(c) >= 2
               /\ DOMAIN w = 1 .. Longest(c) /\ w = [n \in 1 .. Longest(c) |-> w[n]]
               /\ w[1] = <<"balancer", BalancerTop>>
               /\ \A n \in 1 .. Longest(c) - 1 : w[n + 1] = Following(c, w[n], explicit)
<1> DEFINE w == Walk(c, explicit)
           L == Longest(c)
           Z == <<"balancer", BalancerTop>>
           F(x) == Following(c, x, explicit)
<1>1. L \in Nat /\ L >= 2
  <2>1. Get(c.outbounds, <<>>) \in Seq(Outbound) /\ Get(c.balancers, <<>>) \in Seq(Balancers)
    BY ConfigFields
  <2> QED
    BY <2>1 DEF Longest
<1>2. Walks(c, explicit, w, L)
  BY <1>1, WalkChosen, WalkExists, Zenon
<1> HIDE DEF w, L, Z, F
<1>3. w = [n \in 1 .. L |-> IF n = 1 THEN Z ELSE F(w[n - 1])]
  BY <1>2, Zenon DEF Walks, Z, F
<1>4. DOMAIN w = 1 .. L
  BY <1>3, Zenon
<1>5. \A n \in 1 .. L : w[n] = IF n = 1 THEN Z ELSE F(w[n - 1])
  BY <1>3, Zenon
<1>6. w[1] = Z
  BY <1>1, <1>5
<1>7. \A n \in 1 .. L - 1 : w[n + 1] = F(w[n])
  <2> SUFFICES ASSUME NEW n \in 1 .. L - 1 PROVE w[n + 1] = F(w[n])
    OBVIOUS
  <2>1. n + 1 \in 1 .. L /\ n + 1 # 1 /\ (n + 1) - 1 = n
    BY <1>1
  <2> QED
    BY <2>1, <1>5, Zenon
<1>8. w = [n \in 1 .. L |-> w[n]]
  <2>1. w = [n \in DOMAIN w |-> w[n]]
    BY <1>3
  <2> QED
    BY <2>1, <1>4
<1> QED
  BY <1>1, <1>4, <1>6, <1>7, <1>8, Zenon DEF w, L, Z, F

\* The end of a walk is its end.
LEMMA WalkEnded ==
    ASSUME NEW c \in Config, NEW explicit, NEW k \in 1 .. Longest(c),
           Walk(c, explicit)[k] = End
    PROVE  \A n \in k .. Longest(c) : Walk(c, explicit)[n] = End
<1> DEFINE w == Walk(c, explicit)
           L == Longest(c)
           T == {n \in k .. L : w[n] # End}
<1>1. /\ L \in Nat
      /\ \A n \in 1 .. L - 1 : w[n + 1] = Following(c, w[n], explicit)
  BY WalkIs, Zenon
<1>2. Following(c, End, explicit) = End
  BY DEF Following, End
<1>3. w[k] = End
  OBVIOUS
<1> HIDE DEF w, L
<1>4. SUFFICES ASSUME T # {} PROVE FALSE
  BY Zenon DEF w, L
<1>5. k \in 1 .. L
  BY DEF L
<1>6. T \subseteq Nat
  BY <1>1, <1>5
<1>7. PICK n \in T : \A m \in T : n <= m
  BY <1>4, <1>6, Least, Zenon
<1>8. n \in k .. L /\ w[n] # End
  BY <1>7
<1>9. /\ n - 1 \in 1 .. L - 1 /\ (n - 1) + 1 = n
      /\ n - 1 \in k .. L /\ ~ (n <= n - 1)
  BY <1>1, <1>3, <1>5, <1>8
<1>10. w[n - 1] = End
  BY <1>7, <1>9
<1>11. w[n] = Following(c, w[n - 1], explicit)
  BY <1>1, <1>9, Zenon
<1> QED
  BY <1>2, <1>8, <1>10, <1>11, Zenon

\* The proxies with one of some tags.
Plain(T) == {ob \in Outbound : ob.tag \in T /\ ~IsSpecial(ob)}

LEMMA VisitedIs ==
    ASSUME NEW c \in Config, NEW t
    PROVE  /\ Visited(c, t) = Filter(Get(c.outbounds, <<>>), Plain(SelectedTags(c, t)))
           /\ Visited(c, t) \in Seq(Outbound)
<1> DEFINE obs == Get(c.outbounds, <<>>)
           I == {i \in DOMAIN obs : obs[i].tag \in SelectedTags(c, t) /\ ~IsSpecial(obs[i])}
           J == {i \in DOMAIN obs : obs[i] \in Plain(SelectedTags(c, t))}
<1>1. obs \in Seq(Outbound)
  BY ConfigFields
<1>2. \A i \in DOMAIN obs : obs[i] \in Outbound
  <2> HIDE DEF obs
  <2> QED
    BY <1>1
<1>3. Visited(c, t) = Where(obs, I) /\ Filter(obs, Plain(SelectedTags(c, t))) = Where(obs, J)
  BY Zenon DEF Visited, Filter
<1> HIDE DEF obs
<1>4. I = J
  BY <1>2, Zenon DEF Plain
<1>5. Filter(obs, Plain(SelectedTags(c, t))) \in Seq(Outbound)
  BY <1>1, FilterType, Zenon
<1> QED
  BY <1>3, <1>4, <1>5, Zenon DEF obs

\* What the first k targets of a walk add to the chain.
Met(c, explicit) ==
    [n \in 1 .. Longest(c) |-> Visited(c, Walk(c, explicit)[n])]

LEMMA ChainIs ==
    ASSUME NEW c \in Config, NEW explicit
    PROVE  /\ Len(Met(c, explicit)) = Longest(c) /\ Longest(c) \in Nat
           /\ \E g : /\ Sums(Outbound, Met(c, explicit), g)
                     /\ Chain(c, explicit) = g[Longest(c)]
<1> DEFINE L == Longest(c)
           m == Met(c, explicit)
<1>1. L \in Nat /\ DOMAIN Walk(c, explicit) = 1 .. L
  BY WalkIs, Zenon
<1>2. Chain(c, explicit) = FlattenSeq(m)
  <2>1. Chain(c, explicit)
          = FlattenSeq([i \in DOMAIN Walk(c, explicit) |-> Visited(c, Walk(c, explicit)[i])])
    BY Zenon DEF Chain
  <2> QED
    BY <1>1, <2>1, Zenon DEF Met
<1>3. m \in Seq(Seq(Outbound)) /\ Len(m) = L
  <2>1. \A n \in 1 .. L : m[n] \in Seq(Outbound)
    <3> SUFFICES ASSUME NEW n \in 1 .. L PROVE m[n] \in Seq(Outbound)
      OBVIOUS
    <3>1. m[n] = Visited(c, Walk(c, explicit)[n])
      BY Zenon DEF Met
    <3> QED
      BY <3>1, VisitedIs, Zenon
  <2>2. m = [n \in 1 .. L |-> m[n]]
    BY Zenon DEF Met
  <2> HIDE DEF m, L
  <2> QED
    BY <1>1, <2>1, <2>2, SeqOfValues, Zenon
<1>4. PICK g : Sums(Outbound, m, g) /\ FlattenSeq(m) = g[Len(m)]
  BY <1>3, FlattenSums, Zenon
<1> QED
  BY <1>1, <1>2, <1>3, <1>4, Zenon

\* Nothing is met after the end.
LEMMA ChainEnded ==
    ASSUME NEW c \in Config, NEW explicit, NEW k \in 0 .. Longest(c) - 1,
           Walk(c, explicit)[k + 1] = End,
           NEW g, Sums(Outbound, Met(c, explicit), g)
    PROVE  g[Longest(c)] = g[k]
<1>1. Longest(c) \in Nat /\ Len(Met(c, explicit)) = Longest(c)
  BY ChainIs, Zenon
<1>2. k + 1 \in 1 .. Longest(c) /\ k \in 0 .. Len(Met(c, explicit))
  BY <1>1
<1>3. \A n \in k + 1 .. Longest(c) : Walk(c, explicit)[n] = End
  BY <1>2, WalkEnded, Zenon
<1>4. Visited(c, End) = <<>>
  <2>1. SelectedTags(c, End) = {}
    BY DEF SelectedTags, End
  <2>2. Plain({}) = {}
    BY Zenon DEF Plain
  <2>3. Get(c.outbounds, <<>>) \in Seq(Outbound)
    BY ConfigFields
  <2>4. Filter(Get(c.outbounds, <<>>), {}) = <<>>
    BY <2>3, FilterNone, Zenon
  <2> QED
    BY <2>1, <2>2, <2>4, VisitedIs, Zenon
<1>5. \A n \in k + 1 .. Len(Met(c, explicit)) : Met(c, explicit)[n] = <<>>
  <2> SUFFICES ASSUME NEW n \in k + 1 .. Longest(c) PROVE Met(c, explicit)[n] = <<>>
    BY <1>1
  <2>1. n \in 1 .. Longest(c)
    BY <1>1
  <2>2. Met(c, explicit)[n] = Visited(c, Walk(c, explicit)[n])
    BY <2>1, Zenon DEF Met
  <2> QED
    BY <2>2, <1>3, <1>4, Zenon
<1>6. g[Len(Met(c, explicit))] = g[k]
  BY <1>1, <1>2, <1>5, SumsIdle, Zenon
<1> QED
  BY <1>1, <1>6, Zenon

-----------------------------------------------------------------------------
\* Where a walk goes next.

LEMMA FollowBalancer ==
    ASSUME NEW c, NEW explicit, NEW tag
    PROVE  /\ Fallbacks(c, tag) = {} => Following(c, <<"balancer", tag>>, explicit) = End
           /\ \A x : Fallbacks(c, tag) = {x} =>
                        Following(c, <<"balancer", tag>>, explicit) = <<"outbound", x>>
BY DEF Following

LEMMA FollowOutbound ==
    ASSUME NEW c, NEW explicit, NEW tag
    PROVE  /\ LoopTags(c, tag) = {} => Following(c, <<"outbound", tag>>, explicit) = End
           /\ \A x : LoopTags(c, tag) = {x} =>
                  Following(c, <<"outbound", tag>>, explicit) = RuleTarget(c, x, explicit)
BY DEF Following

\* The first rule of a list is a first rule of its beginning.
LEMMA RuleFound ==
    ASSUME NEW c \in Config, NEW explicit, NEW tag,
           NEW a \in Seq(Rules), NEW b \in Seq(Rules), Get(c.rules, <<>>) = a \o b,
           NEW r \in ToSet(a), Matches(r, tag, explicit),
           \A q \in ToSet(a) : Matches(q, tag, explicit) => q = r
    PROVE  RuleTarget(c, tag, explicit) = RuleSends(r)
<1> DEFINE R == a \o b
           hits == {i \in DOMAIN R : Matches(R[i], tag, explicit)}
<1>1. /\ Len(a) \in Nat /\ Len(b) \in Nat /\ R \in Seq(Rules)
      /\ DOMAIN R = 1 .. Len(a) + Len(b) /\ DOMAIN a = 1 .. Len(a)
      /\ \A i \in 1 .. Len(a) : R[i] = a[i]
  OBVIOUS
<1>2. RuleTarget(c, tag, explicit) = IF hits = {} THEN End ELSE RuleSends(R[Min(hits)])
  BY Zenon DEF RuleTarget
<1> HIDE DEF R
<1>3. hits = {i \in 1 .. Len(a) + Len(b) : Matches(R[i], tag, explicit)}
  BY <1>1, Zenon
<1>4. hits \subseteq Nat
  BY <1>1, <1>3
<1>5. PICK n \in 1 .. Len(a) : a[n] = r
  BY <1>1, Zenon DEF ToSet
<1>6. n \in hits
  <2>1. n \in 1 .. Len(a) + Len(b) /\ R[n] = r
    BY <1>1, <1>5
  <2> QED
    BY <2>1, <1>3
<1> DEFINE first == Min(hits)
<1> HIDE DEF hits
<1>7. first \in hits /\ \A i \in hits : first <= i
  <2>1. \E i \in hits : \A j \in hits : i <= j
    BY <1>4, <1>6, Least, Zenon
  <2> QED
    BY <2>1, Zenon DEF Min
<1> HIDE DEF first
<1>8. first \in 1 .. Len(a)
  BY <1>1, <1>3, <1>5, <1>6, <1>7
<1>9. R[first] = a[first] /\ a[first] \in ToSet(a)
  BY <1>1, <1>8, Zenon DEF ToSet
<1>10. Matches(R[first], tag, explicit)
  BY <1>3, <1>7
<1>11. R[first] = r
  BY <1>9, <1>10, Zenon
<1>12. hits # {}
  BY <1>6
<1> QED
  BY <1>2, <1>11, <1>12, Zenon DEF first

\* Tidying changes nothing of what a balancer or a rule may select.
LEMMA TidiedVisits ==
    ASSUME NEW c \in Config, NEW V,
           \A ob \in ToSet(Get(c.outbounds, <<>>)) : ob \in V => ~IsSpecial(ob)
    PROVE  Filter(Tidied(c).outbounds, V) = Filter(Get(c.outbounds, <<>>), V)
<1> DEFINE obs == Get(c.outbounds, <<>>)
           N == {ob \in Outbound : ~IsSpecial(ob)}
           P == {ob \in Outbound : IsSpecial(ob)}
<1>1. obs \in Seq(Outbound) /\ Tidied(c).outbounds = Proxies(obs) \o Specials(obs)
  BY ConfigFields, TidiedIs
<1> HIDE DEF obs
<1>2. Len(obs) \in Nat /\ DOMAIN obs = 1 .. Len(obs) /\ \A i \in 1 .. Len(obs) : obs[i] \in Outbound
  BY <1>1
<1>3. Proxies(obs) = Filter(obs, N) /\ Specials(obs) = Filter(obs, P)
  <2>1. \A i \in DOMAIN obs : /\ obs[i] \in N <=> ~IsSpecial(obs[i])
                              /\ obs[i] \in P <=> IsSpecial(obs[i])
    BY <1>2, Zenon
  <2> HIDE DEF N, P
  <2>2. /\ {i \in DOMAIN obs : ~IsSpecial(obs[i])} = {i \in DOMAIN obs : obs[i] \in N}
        /\ {i \in DOMAIN obs : IsSpecial(obs[i])} = {i \in DOMAIN obs : obs[i] \in P}
    BY <2>1, Zenon
  <2> QED
    BY <2>2, Zenon DEF Proxies, Specials, Filter
<1>4. \A i \in DOMAIN obs : obs[i] \in V => obs[i] \in N /\ obs[i] \notin P
  <2>1. \A i \in DOMAIN obs : obs[i] \in ToSet(obs)
    BY Zenon DEF ToSet
  <2>2. \A ob \in ToSet(obs) : ob \in V => ~IsSpecial(ob)
    BY DEF obs
  <2> QED
    BY <2>1, <2>2, <1>2, Zenon
<1> HIDE DEF N, P
<1>5. Filter(Filter(obs, N), V) = Filter(obs, V)
  <2>1. Filter(Filter(obs, N), V) = Filter(obs, V \cap N)
    BY <1>1, FilterAgain
  <2>2. {i \in DOMAIN obs : obs[i] \in V \cap N} = {i \in DOMAIN obs : obs[i] \in V}
    BY <1>4, Zenon
  <2> QED
    BY <2>1, <2>2, Zenon DEF Filter
<1>6. Filter(Filter(obs, P), V) = <<>>
  <2>1. Filter(Filter(obs, P), V) = Filter(obs, V \cap P)
    BY <1>1, FilterAgain
  <2>2. \A i \in 1 .. Len(obs) : obs[i] \notin V \cap P
    BY <1>2, <1>4, Zenon
  <2> QED
    BY <2>1, <2>2, <1>1, FilterNone, Zenon
<1> DEFINE x == Filter(obs, N)
           y == Filter(obs, P)
<1>7. x \in Seq(Outbound) /\ y \in Seq(Outbound) /\ Filter(x, V) \in Seq(Outbound)
  BY <1>1, FilterType
<1> HIDE DEF x, y
<1>8. Filter(x \o y, V) = Filter(x, V) \o Filter(y, V)
  BY <1>7, FilterConcat, SMT
<1>9. Filter(x, V) \o <<>> = Filter(x, V)
  BY <1>7
<1>10. Filter(x \o y, V) = Filter(x, V)
  BY <1>6, <1>8, <1>9 DEF y
<1> QED
  BY <1>1, <1>3, <1>5, <1>10 DEF x, y, obs

LEMMA TidiedLooks ==
    ASSUME NEW c \in Config, NEW tag
    PROVE  /\ Fallbacks(Tidied(c), tag) = Fallbacks(c, tag)
           /\ LoopTags(Tidied(c), tag) = LoopTags(c, tag)
           /\ \A t : Visited(Tidied(c), t) = Visited(c, t)
<1> DEFINE d == Tidied(c)
           obs == Get(c.outbounds, <<>>)
<1>1. d \in Config /\ d.balancers = c.balancers /\ d.outbounds \in Seq(Outbound)
      /\ ToSet(d.outbounds) = ToSet(obs) /\ Get(d.outbounds, <<>>) = d.outbounds
  <2>1. d \in Listed /\ d.balancers = c.balancers
    BY TidiedIs, Zenon
  <2>2. ToSet(d.outbounds) = ToSet(obs)
    BY TidiedOutbounds, Zenon
  <2>3. d \in Config /\ d.outbounds \in Seq(Outbound) /\ Get(d.outbounds, <<>>) = d.outbounds
    BY <2>1, ListedFields, Zenon
  <2> QED
    BY <2>1, <2>2, <2>3, Zenon
<1> HIDE DEF d, obs
<1>2. Fallbacks(d, tag) = Fallbacks(c, tag)
  BY <1>1, Zenon DEF Fallbacks
<1>3. LoopTags(d, tag) = LoopTags(c, tag)
  BY <1>1, Zenon DEF LoopTags, obs
<1>4. \A t : Visited(d, t) = Visited(c, t)
  <2> TAKE t
  <2> DEFINE V == Plain(SelectedTags(c, t))
  <2>1. SelectedTags(d, t) = SelectedTags(c, t)
    BY <1>1, Zenon DEF SelectedTags
  <2>2. Visited(d, t) = Filter(d.outbounds, V) /\ Visited(c, t) = Filter(obs, V)
    BY <1>1, <2>1, VisitedIs, Zenon DEF obs
  <2>3. \A ob \in ToSet(obs) : ob \in V => ~IsSpecial(ob)
    BY Zenon DEF Plain
  <2> HIDE DEF V
  <2>4. Filter(d.outbounds, V) = Filter(obs, V)
    BY <2>3, TidiedVisits, Zenon DEF d, obs
  <2> QED
    BY <2>2, <2>4, Zenon
<1> QED
  BY <1>2, <1>3, <1>4, Zenon DEF d

-----------------------------------------------------------------------------
\* Conventional configurations: what is known of one, and of one like it.

LEMMA NullTag == \A tag \in Tag : tag # Null
BY ConstantsAssumption, Zenon

LEMMA ConventionalIs ==
    ASSUME NEW c \in Config, Conventional(c)
    PROVE  /\ c \in Listed /\ c.routing /\ c.rules # Null
           /\ c.outbounds \in Seq(Outbound) /\ Get(c.outbounds, <<>>) = c.outbounds
           /\ c.balancers \in Seq(Balancers) /\ Get(c.balancers, <<>>) = c.balancers
           /\ c.rules \in Seq(Rules) /\ Get(c.rules, <<>>) = c.rules
           /\ WellFormed(c) /\ Compatible(c)
           /\ Apart(c.outbounds) /\ Apart(c.balancers)
           /\ Refers(ToSet(c.outbounds), ToSet(c.balancers), ToSet(c.rules))
           /\ Covered(ToSet(c.outbounds), ToSet(c.rules))
<1>1. /\ c.outbounds # Null /\ c.routing /\ c.balancers # Null /\ c.rules # Null
      /\ WellFormed(c) /\ Compatible(c) /\ LoopbacksHaveRules(c)
  BY Zenon DEF Conventional
<1>2. /\ c.outbounds \in Seq(Outbound) /\ c.balancers \in Seq(Balancers) /\ c.rules \in Seq(Rules)
  BY <1>1, ConfigFields, Zenon DEF Optional
<1>3. /\ Get(c.outbounds, <<>>) = c.outbounds
      /\ Get(c.balancers, <<>>) = c.balancers
      /\ Get(c.rules, <<>>) = c.rules
  BY <1>1, Zenon DEF Get
<1>4. c \in Listed
  BY <1>2, MakeListed, Zenon
<1> QED
  BY <1>1, <1>2, <1>3, <1>4, WellFormedIs, RulesCover, Zenon

\* The rule for the traffic of a loopback is found in a tidied configuration,
\* wherever it was.
LEMMA TidiedRule ==
    ASSUME NEW c \in Config, NEW n, NEW r \in ToSet(Get(c.rules, <<>>)),
           LoopTag(n) \in r.inboundTag,
           \A q \in ToSet(Get(c.rules, <<>>)) : LoopTag(n) \in q.inboundTag => q = r
    PROVE  RuleTarget(Tidied(c), LoopTag(n), FALSE) = RuleSends(r)
<1> DEFINE d == Tidied(c)
           R == Get(c.rules, <<>>)
<1>1. R \in Seq(Rules)
  BY ConfigFields, Zenon
<1>2. R # <<>>
  <2>1. ToSet(<<>>) = {}
    BY DEF ToSet
  <2> QED
    BY <2>1, Zenon
<1>3. R = c.rules
  BY <1>2, Zenon DEF Get
<1>4. /\ d \in Config /\ d.rules = LoopRules(R) \o OtherRules(R)
      /\ (c.rules = Null) <=> (d.rules = Null)
  <2>1. d \in Listed /\ ((c.rules = Null) <=> (d.rules = Null))
    BY TidiedIs, Zenon
  <2>2. d.rules = LoopRules(R) \o OtherRules(R)
    BY <1>2, <1>3, TidiedIs
  <2> QED
    BY <2>1, <2>2, ListedFields, Zenon
<1>5. c.rules # Null
  BY <1>1, <1>3, NotNull, Zenon
<1>6. Get(d.rules, <<>>) = LoopRules(R) \o OtherRules(R)
  BY <1>4, <1>5 DEF Get
<1>7. /\ LoopRules(R) \in Seq(Rules) /\ OtherRules(R) \in Seq(Rules)
      /\ ToSet(LoopRules(R)) = {q \in ToSet(R) : IsLoopRule(q)}
  BY <1>1, RuleParts, Zenon
<1>8. IsLoopRule(r)
  BY DEF IsLoopRule, LoopTag
<1>9. \A q \in ToSet(LoopRules(R)) : Matches(q, LoopTag(n), FALSE) => q = r
  <2> SUFFICES ASSUME NEW q \in ToSet(LoopRules(R)), Matches(q, LoopTag(n), FALSE)
               PROVE  q = r
    BY Zenon
  <2>1. q \in ToSet(R) /\ IsLoopRule(q)
    BY <1>7
  <2>2. q.inboundTag # {}
    BY <2>1, Zenon DEF IsLoopRule
  <2>3. LoopTag(n) \in q.inboundTag
    BY <2>2, Zenon DEF Matches
  <2> QED
    BY <2>1, <2>3, Zenon
<1>10. r \in ToSet(LoopRules(R)) /\ Matches(r, LoopTag(n), FALSE)
  BY <1>7, <1>8, Zenon DEF Matches
<1> QED
  BY <1>4, <1>6, <1>7, <1>9, <1>10, RuleFound, Zenon DEF d

\* The rule for the traffic of a loopback that a walk finds in the upstream's
\* configuration.
LEMMA UpstreamRule ==
    ASSUME NEW c \in Config, NEW n, NEW r \in ToSet(Get(c.rules, <<>>)),
           LoopTag(n) \in r.inboundTag,
           \A q \in ToSet(Get(c.rules, <<>>)) : LoopTag(n) \in q.inboundTag => q = r
    PROVE  RuleTarget(c, LoopTag(n), TRUE) = RuleSends(r)
<1> DEFINE R == Get(c.rules, <<>>)
           e == <<>>
<1>1. R \in Seq(Rules)
  BY ConfigFields, Zenon
<1>2. e \in Seq(Rules) /\ TRUE \in BOOLEAN
  OBVIOUS
<1>3. R \o e = R
  <2> HIDE DEF R
  <2> QED
    BY <1>1
<1>4. \A q \in ToSet(R) : Matches(q, LoopTag(n), TRUE) => q = r
  BY Zenon DEF Matches
<1>5. Matches(r, LoopTag(n), TRUE)
  BY Zenon DEF Matches
<1>6. r \in ToSet(R) /\ Get(c.rules, <<>>) = R \o e
  BY <1>3
<1> HIDE DEF R, e
<1> QED
  BY <1>1, <1>2, <1>3, <1>4, <1>5, <1>6, RuleFound, Zenon DEF R, e

\* A rule that is found is one of the rules.
LEMMA RuleTargetOne ==
    ASSUME NEW c \in Config, NEW tag, NEW explicit
    PROVE  \/ RuleTarget(c, tag, explicit) = End
           \/ \E r \in ToSet(Get(c.rules, <<>>)) : RuleTarget(c, tag, explicit) = RuleSends(r)
<1> DEFINE R == Get(c.rules, <<>>)
           hits == {i \in DOMAIN R : Matches(R[i], tag, explicit)}
<1>1. R \in Seq(Rules)
  BY ConfigFields, Zenon
<1>2. RuleTarget(c, tag, explicit) = IF hits = {} THEN End ELSE RuleSends(R[Min(hits)])
  BY Zenon DEF RuleTarget
<1> HIDE DEF R
<1>3. hits \subseteq Nat /\ hits \subseteq DOMAIN R
  BY <1>1
<1> HIDE DEF hits
<1>4. ASSUME hits # {} PROVE Min(hits) \in hits
  <2>1. \E i \in hits : \A j \in hits : i <= j
    BY <1>3, <1>4, Least, Zenon
  <2> QED
    BY <2>1, Zenon DEF Min
<1>5. ASSUME hits # {} PROVE R[Min(hits)] \in ToSet(R)
  BY <1>3, <1>4, <1>5, Zenon DEF ToSet
<1> QED
  BY <1>2, <1>5, Zenon DEF R

\* What a walk in a well-formed configuration comes to.
Known(c, t) ==
    \/ t = End
    \/ \E b \in ToSet(c.balancers) : t = <<"balancer", b.tag>>
    \/ \E tag \in {ob.tag : ob \in ToSet(c.outbounds)} \cup {Null} : t = <<"outbound", tag>>

LEMMA KnownNext ==
    ASSUME NEW c \in Config, Conventional(c), NEW t, Known(c, t)
    PROVE  Known(c, Following(c, t, TRUE))
<1> DEFINE tags == {ob.tag : ob \in ToSet(c.outbounds)}
<1>1. Known(c, End)
  BY DEF Known
<1>2. ASSUME NEW tag \in tags \cup {Null} PROVE Known(c, <<"outbound", tag>>)
  BY <1>2, Zenon DEF Known
<1>3. CASE t = End
  <2>1. Following(c, t, TRUE) = End
    BY <1>3 DEF Following, End
  <2> QED
    BY <1>1, <2>1
<1>4. ASSUME NEW tag, t = <<"balancer", tag>>
      PROVE  Known(c, Following(c, t, TRUE))
  <2>1. CASE Fallbacks(c, tag) = {}
    BY <1>1, <1>4, <2>1, FollowBalancer
  <2>2. CASE Fallbacks(c, tag) # {}
    <3> DEFINE x == CHOOSE y \in Fallbacks(c, tag) : TRUE
    <3>1. x \in Fallbacks(c, tag)
      BY <2>2, Zenon
    <3>2. Following(c, t, TRUE) = <<"outbound", x>>
      BY <1>4, <2>2 DEF Following
    <3> HIDE DEF x
    <3>3. x \in tags \cup {Null}
      <4>1. /\ Get(c.balancers, <<>>) = c.balancers
            /\ Refers(ToSet(c.outbounds), ToSet(c.balancers), ToSet(c.rules))
        BY ConventionalIs, Zenon
      <4>2. PICK b \in ToSet(c.balancers) : x = b.fallbackTag
        BY <3>1, <4>1, Zenon DEF Fallbacks
      <4> QED
        BY <4>1, <4>2, Zenon DEF Refers
    <3> HIDE DEF tags
    <3> QED
      BY <1>2, <3>2, <3>3, Zenon
  <2> QED
    BY <2>1, <2>2
<1>5. ASSUME NEW tag, t = <<"outbound", tag>>
      PROVE  Known(c, Following(c, t, TRUE))
  <2>1. CASE LoopTags(c, tag) = {}
    BY <1>1, <1>5, <2>1, FollowOutbound
  <2>2. CASE LoopTags(c, tag) # {}
    <3> DEFINE x == CHOOSE y \in LoopTags(c, tag) : TRUE
    <3>1. Following(c, t, TRUE) = RuleTarget(c, x, TRUE)
      BY <1>5, <2>2 DEF Following
    <3> HIDE DEF x
    <3>2. CASE RuleTarget(c, x, TRUE) = End
      BY <1>1, <3>1, <3>2
    <3>3. CASE RuleTarget(c, x, TRUE) # End
      <4>1. /\ Get(c.rules, <<>>) = c.rules
            /\ Refers(ToSet(c.outbounds), ToSet(c.balancers), ToSet(c.rules))
        BY ConventionalIs, Zenon
      <4>2. PICK r \in ToSet(c.rules) : RuleTarget(c, x, TRUE) = RuleSends(r)
        BY <3>3, <4>1, RuleTargetOne, Zenon
      <4>3. CASE r.balancerTag # Null
        <5>1. RuleSends(r) = <<"balancer", r.balancerTag>>
          BY <4>3, Zenon DEF RuleSends
        <5>2. PICK b \in ToSet(c.balancers) : b.tag = r.balancerTag
          BY <4>1, <4>3, Zenon DEF Refers
        <5> QED
          BY <3>1, <4>2, <5>1, <5>2, Zenon DEF Known
      <4>4. CASE r.balancerTag = Null
        <5>1. RuleSends(r) = <<"outbound", r.outboundTag>>
          BY <4>4, Zenon DEF RuleSends
        <5>2. r.outboundTag \in tags \cup {Null}
          BY <4>1, Zenon DEF Refers
        <5> HIDE DEF tags
        <5> QED
          BY <3>1, <4>2, <5>1, <5>2, <1>2, Zenon
      <4> QED
        BY <4>3, <4>4
    <3> QED
      BY <3>2, <3>3
  <2> QED
    BY <2>1, <2>2
<1> QED
  BY <1>3, <1>4, <1>5, Zenon DEF Known

LEMMA KnownWalk ==
    ASSUME NEW c \in Config, Conventional(c)
    PROVE  \A n \in 1 .. Longest(c) : Known(c, Walk(c, TRUE)[n])
<1> DEFINE L == Longest(c)
           w == Walk(c, TRUE)
           T == {n \in 1 .. L : ~ Known(c, w[n])}
<1>1. /\ L \in Nat /\ w[1] = <<"balancer", BalancerTop>>
      /\ \A n \in 1 .. L - 1 : w[n + 1] = Following(c, w[n], TRUE)
  BY WalkIs, Zenon
<1> HIDE DEF L, w
<1>2. SUFFICES ASSUME T # {} PROVE FALSE
  BY Zenon DEF L, w
<1>3. T \subseteq Nat
  OBVIOUS
<1>4. PICK n \in T : \A m \in T : n <= m
  BY <1>2, <1>3, Least, Zenon
<1>5. n \in 1 .. L /\ ~ Known(c, w[n])
  BY <1>4
<1>6. n # 1
  <2>1. \E b \in ToSet(c.balancers) : b.tag = BalancerTop
    BY Zenon DEF Conventional
  <2>2. Known(c, <<"balancer", BalancerTop>>)
    BY <2>1, Zenon DEF Known
  <2> QED
    BY <1>1, <1>5, <2>2
<1>7. n - 1 \in 1 .. L - 1 /\ (n - 1) + 1 = n /\ n - 1 \in 1 .. L /\ ~ (n <= n - 1)
  BY <1>1, <1>5, <1>6
<1>8. Known(c, w[n - 1])
  BY <1>4, <1>7
<1>9. w[n] = Following(c, w[n - 1], TRUE)
  BY <1>1, <1>7, Zenon
<1> QED
  BY <1>5, <1>8, <1>9, KnownNext, Zenon

\* The loopbacks of a conventional configuration, and their rules.
LEMMA LoopTagsIs ==
    ASSUME NEW c \in Config, Conventional(c), NEW tag
    PROVE  \/ LoopTags(c, tag) = {}
           \/ \E n \in 1 .. 3 : /\ tag = Loopback(n) /\ LoopTags(c, tag) = {LoopTag(n)}
                                /\ \E r \in ToSet(c.rules) : LoopTag(n) \in r.inboundTag
<1> SUFFICES ASSUME LoopTags(c, tag) # {}
             PROVE  \E n \in 1 .. 3 : /\ tag = Loopback(n) /\ LoopTags(c, tag) = {LoopTag(n)}
                                      /\ \E r \in ToSet(c.rules) : LoopTag(n) \in r.inboundTag
  OBVIOUS
<1>1. /\ Get(c.outbounds, <<>>) = c.outbounds
      /\ Covered(ToSet(c.outbounds), ToSet(c.rules))
  BY ConventionalIs, Zenon
<1> DEFINE here == {x \in ToSet(c.outbounds) : x.tag = tag /\ x.protocol = "loopback"}
<1>2. LoopTags(c, tag) = {ob.inboundTag : ob \in here}
  BY <1>1, Zenon DEF LoopTags
<1>3. \A ob \in here : \E n \in 1 .. 3 : ob = LoopbackOutbound(n)
  BY Zenon DEF Conventional
<1>4. \A n \in 1 .. 3 : /\ LoopbackOutbound(n).tag = Loopback(n)
                        /\ LoopbackOutbound(n).inboundTag = LoopTag(n)
                        /\ LoopbackOutbound(n).protocol = "loopback"
  BY DEF LoopbackOutbound
<1>5. PICK ob \in here : TRUE
  BY <1>2, Zenon
<1>6. PICK n \in 1 .. 3 : ob = LoopbackOutbound(n)
  BY <1>3, Zenon
<1>7. tag = Loopback(n)
  BY <1>4, <1>5, <1>6, Zenon
<1>8. \A x \in here : x.inboundTag = LoopTag(n)
  <2> SUFFICES ASSUME NEW x \in here PROVE x.inboundTag = LoopTag(n)
    BY Zenon
  <2>1. PICK m \in 1 .. 3 : x = LoopbackOutbound(m)
    BY <1>3, Zenon
  <2>2. Loopback(m) = Loopback(n)
    BY <2>1, <1>4, <1>7, Zenon
  <2>3. m = n
    BY <2>2 DEF Loopback
  <2> QED
    BY <2>1, <2>3, <1>4, Zenon
<1>9. LoopTags(c, tag) = {LoopTag(n)}
  BY <1>2, <1>5, <1>8, Zenon
<1>10. \E r \in ToSet(c.rules) : LoopTag(n) \in r.inboundTag
  BY <1>1, <1>4, <1>5, <1>6, Zenon DEF Covered
<1> QED
  BY <1>7, <1>9, <1>10, Zenon

LEMMA OneRule ==
    ASSUME NEW c \in Config, Conventional(c), NEW n \in 1 .. 3,
           NEW r \in ToSet(c.rules), LoopTag(n) \in r.inboundTag
    PROVE  \A q \in ToSet(c.rules) : LoopTag(n) \in q.inboundTag => q = r
BY Zenon DEF Conventional

\* A configuration, before it is tidied, in which a walk goes on as in the
\* upstream's one, but for the loopbacks that have no number in N.
Keeps(c, e, N) ==
    /\ \A b \in ToSet(c.balancers) : Fallbacks(e, b.tag) = Fallbacks(c, b.tag)
    /\ \A tag \in {ob.tag : ob \in ToSet(c.outbounds)} \cup {Null} :
          LoopTags(e, tag) = LoopTags(c, tag)
    /\ \A t : Known(c, t) => Visited(e, t) = Visited(c, t)
    /\ \A n \in N : \A r \in ToSet(c.rules) : LoopTag(n) \in r.inboundTag =>
          /\ r \in ToSet(Get(e.rules, <<>>))
          /\ \A q \in ToSet(Get(e.rules, <<>>)) : LoopTag(n) \in q.inboundTag => q = r

LEMMA KeepsFollowing ==
    ASSUME NEW c \in Config, Conventional(c), NEW e \in Config, NEW N, Keeps(c, e, N),
           NEW t, Known(c, t), \A n \in 1 .. 3 : t = <<"outbound", Loopback(n)>> => n \in N
    PROVE  /\ Following(Tidied(e), t, FALSE) = Following(c, t, TRUE)
           /\ Visited(Tidied(e), t) = Visited(c, t)
<1> DEFINE d == Tidied(e)
           tags == {ob.tag : ob \in ToSet(c.outbounds)}
<1>1. \A tag : /\ Fallbacks(d, tag) = Fallbacks(e, tag)
               /\ LoopTags(d, tag) = LoopTags(e, tag)
               /\ \A u : Visited(d, u) = Visited(e, u)
  BY TidiedLooks, Zenon
<1>2. Visited(d, t) = Visited(c, t)
  BY <1>1, Zenon DEF Keeps
<1>3. CASE t = End
  <2>1. Following(c, t, TRUE) = End /\ Following(d, t, FALSE) = End
    BY <1>3 DEF Following, End
  <2> QED
    BY <1>2, <2>1
<1>4. ASSUME NEW b \in ToSet(c.balancers), t = <<"balancer", b.tag>>
      PROVE  Following(d, t, FALSE) = Following(c, t, TRUE)
  <2> DEFINE S == Fallbacks(c, b.tag)
  <2>1. Fallbacks(d, b.tag) = S
    BY <1>1, Zenon DEF Keeps
  <2> HIDE DEF d, S
  <2>2. /\ S = {} => Following(d, t, FALSE) = End
        /\ S # {} => Following(d, t, FALSE) = <<"outbound", CHOOSE tag \in S : TRUE>>
    BY <1>4, <2>1 DEF Following
  <2>3. /\ S = {} => Following(c, t, TRUE) = End
        /\ S # {} => Following(c, t, TRUE) = <<"outbound", CHOOSE tag \in S : TRUE>>
    BY <1>4 DEF Following, S
  <2> QED
    BY <2>2, <2>3
<1>5. ASSUME NEW tag \in tags \cup {Null}, t = <<"outbound", tag>>
      PROVE  Following(d, t, FALSE) = Following(c, t, TRUE)
  <2>1. LoopTags(d, tag) = LoopTags(c, tag)
    BY <1>1, Zenon DEF Keeps
  <2>2. CASE LoopTags(c, tag) = {}
    BY <1>5, <2>1, <2>2, FollowOutbound
  <2>3. CASE LoopTags(c, tag) # {}
    <3>1. PICK n \in 1 .. 3 : /\ tag = Loopback(n) /\ LoopTags(c, tag) = {LoopTag(n)}
                              /\ \E r \in ToSet(c.rules) : LoopTag(n) \in r.inboundTag
      BY <2>3, LoopTagsIs, Zenon
    <3>2. PICK r \in ToSet(c.rules) : LoopTag(n) \in r.inboundTag
      BY <3>1, Zenon
    <3>3. n \in N
      BY <1>5, <3>1, Zenon
    <3>4. RuleTarget(c, LoopTag(n), TRUE) = RuleSends(r)
      <4>1. Get(c.rules, <<>>) = c.rules
        BY ConventionalIs, Zenon
      <4> QED
        BY <4>1, <3>2, OneRule, UpstreamRule, Zenon
    <3>5. RuleTarget(d, LoopTag(n), FALSE) = RuleSends(r)
      <4>1. /\ r \in ToSet(Get(e.rules, <<>>))
            /\ \A q \in ToSet(Get(e.rules, <<>>)) : LoopTag(n) \in q.inboundTag => q = r
        BY <3>2, <3>3, Zenon DEF Keeps
      <4> QED
        BY <3>2, <4>1, TidiedRule, Zenon
    <3>6. Following(c, t, TRUE) = RuleTarget(c, LoopTag(n), TRUE)
      BY <1>5, <3>1, FollowOutbound, Zenon
    <3>7. Following(d, t, FALSE) = RuleTarget(d, LoopTag(n), FALSE)
      BY <1>5, <2>1, <3>1, FollowOutbound, Zenon
    <3> QED
      BY <3>4, <3>5, <3>6, <3>7, Zenon
  <2> QED
    BY <2>2, <2>3
<1> QED
  BY <1>2, <1>3, <1>4, <1>5, Zenon DEF Known

\* Up to the first loopback that is sent elsewhere, the walks are the same.
LEMMA WalksAlike ==
    ASSUME NEW c \in Config, Conventional(c), NEW e \in Config, NEW N, Keeps(c, e, N),
           NEW k \in Nat, k <= Longest(c), k <= Longest(Tidied(e)),
           \A i \in 1 .. k - 1 : \A n \in 1 .. 3 :
                Walk(c, TRUE)[i] = <<"outbound", Loopback(n)>> => n \in N
    PROVE  \A i \in 1 .. k : Walk(Tidied(e), FALSE)[i] = Walk(c, TRUE)[i]
<1> DEFINE d == Tidied(e)
           w == Walk(c, TRUE)
           v == Walk(d, FALSE)
           L == Longest(c)
           M == Longest(d)
           T == {i \in 1 .. k : v[i] # w[i]}
<1>1. /\ L \in Nat /\ w[1] = <<"balancer", BalancerTop>>
      /\ \A n \in 1 .. L - 1 : w[n + 1] = Following(c, w[n], TRUE)
  BY WalkIs, Zenon
<1>2. d \in Config
  BY TidiedIs, ListedFields, Zenon
<1>3. /\ M \in Nat /\ v[1] = <<"balancer", BalancerTop>>
      /\ \A n \in 1 .. M - 1 : v[n + 1] = Following(d, v[n], FALSE)
  BY <1>2, WalkIs, Zenon
<1>4. \A n \in 1 .. L : Known(c, w[n])
  BY KnownWalk, Zenon
<1>5. k <= L /\ k <= M
  BY Zenon
<1>6. \A i \in 1 .. k - 1 : \A n \in 1 .. 3 : w[i] = <<"outbound", Loopback(n)>> => n \in N
  BY Zenon
<1>7. \A t : Known(c, t) /\ (\A n \in 1 .. 3 : t = <<"outbound", Loopback(n)>> => n \in N)
                => Following(d, t, FALSE) = Following(c, t, TRUE)
  BY KeepsFollowing, Zenon
<1> HIDE DEF d, w, v, L, M
<1>8. SUFFICES ASSUME T # {} PROVE FALSE
  BY Zenon DEF d, w, v
<1>9. T \subseteq Nat
  OBVIOUS
<1>10. PICK i \in T : \A j \in T : i <= j
  BY <1>8, <1>9, Least, Zenon
<1>11. i \in 1 .. k /\ v[i] # w[i]
  BY <1>10
<1>12. i # 1
  BY <1>1, <1>3, <1>11
<1>13. /\ i - 1 \in 1 .. k - 1 /\ i - 1 \in 1 .. k /\ (i - 1) + 1 = i /\ ~ (i <= i - 1)
       /\ i - 1 \in 1 .. L - 1 /\ i - 1 \in 1 .. M - 1 /\ i - 1 \in 1 .. L
  BY <1>1, <1>3, <1>5, <1>11, <1>12
<1>14. v[i - 1] = w[i - 1]
  BY <1>10, <1>13
<1>15. w[i] = Following(c, w[i - 1], TRUE) /\ v[i] = Following(d, v[i - 1], FALSE)
  BY <1>1, <1>3, <1>13, Zenon
<1>16. Following(d, w[i - 1], FALSE) = Following(c, w[i - 1], TRUE)
  BY <1>4, <1>6, <1>7, <1>13, Zenon
<1> QED
  BY <1>11, <1>14, <1>15, <1>16, Zenon

-----------------------------------------------------------------------------
\* The main configuration.

LEMMA RedirectedSet ==
    ASSUME NEW rules \in Seq(Rules)
    PROVE  LET to(r) == [r EXCEPT !.outboundTag = Null, !.balancerTag = BalancerFallback(3)]
           IN  /\ \A r \in ToSet(rules) :
                     (IF LoopTag(3) \in r.inboundTag THEN to(r) ELSE r) \in ToSet(Redirected(rules))
               /\ \A q \in ToSet(Redirected(rules)) : \E r \in ToSet(rules) :
                     q = IF LoopTag(3) \in r.inboundTag THEN to(r) ELSE r
<1> DEFINE to(r) == [r EXCEPT !.outboundTag = Null, !.balancerTag = BalancerFallback(3)]
           by(r) == IF LoopTag(3) \in r.inboundTag THEN to(r) ELSE r
           R == Redirected(rules)
<1>1. /\ R \in Seq(Rules) /\ Len(R) = Len(rules)
      /\ \A i \in 1 .. Len(rules) : R[i] = by(rules[i])
  BY RedirectedType, Zenon
<1> HIDE DEF by, R
<1>2. DOMAIN R = 1 .. Len(rules) /\ DOMAIN rules = 1 .. Len(rules)
  BY <1>1
<1>3. \A r \in ToSet(rules) : by(r) \in ToSet(R)
  BY <1>1, <1>2, Zenon DEF ToSet
<1>4. \A q \in ToSet(R) : \E r \in ToSet(rules) : q = by(r)
  BY <1>1, <1>2, Zenon DEF ToSet
<1> QED
  BY <1>3, <1>4, Zenon DEF by, R

\* The outbound of ours that the main configuration gets.
Given(ob) == [ob EXCEPT !.tag = OurFallback]

FourthBalancer == Balancer(BalancerFallback(3), {Fallback(3)}, Loopback(4))

FourthRule == Rule({LoopTag(4)}, OurFallback, Null)

LEMMA MainParts ==
    ASSUME NEW c \in Config, Conventional(c), NEW ob \in Outbound, ob.protocol = "proxy",
           NEW e, e = WithFallback(c, ob)
    PROVE  /\ e \in Config /\ e.outbounds = c.outbounds \o <<Given(ob), LoopbackOutbound(4)>>
           /\ Get(e.outbounds, <<>>) = e.outbounds
           /\ Given(ob) \in Outbound /\ Given(ob).tag = OurFallback
           /\ Given(ob).protocol = "proxy" /\ Given(ob).source = ob.source
           /\ LoopbackOutbound(4) \in Outbound /\ LoopbackOutbound(4).tag = Loopback(4)
           /\ LoopbackOutbound(4).protocol = "loopback"
           /\ LoopbackOutbound(4).inboundTag = LoopTag(4) /\ LoopbackOutbound(4).source = 0
           /\ ToSet(e.outbounds) = ToSet(c.outbounds) \cup {Given(ob), LoopbackOutbound(4)}
           /\ ToSet(Get(e.balancers, <<>>)) = ToSet(c.balancers) \cup {FourthBalancer}
           /\ Len(Get(e.balancers, <<>>)) = Len(c.balancers) + 1
           /\ FourthRule \in ToSet(Get(e.rules, <<>>))
           /\ \A r \in ToSet(Get(e.rules, <<>>)) :
                 r = FourthRule \/ r \in ToSet(Redirected(c.rules))
           /\ ToSet(Redirected(c.rules)) \subseteq ToSet(Get(e.rules, <<>>))
<1> DEFINE x == Given(ob)
           y == LoopbackOutbound(4)
<1>1. /\ c \in Listed /\ c.routing /\ c.rules # Null
      /\ c.outbounds \in Seq(Outbound)
      /\ c.balancers \in Seq(Balancers) /\ Get(c.balancers, <<>>) = c.balancers
      /\ c.rules \in Seq(Rules)
  BY ConventionalIs, Zenon
<1>2. /\ e \in Listed /\ e.outbounds = c.outbounds \o <<x, y>>
      /\ e.balancers = Append(c.balancers, FourthBalancer)
      /\ e.rules = Append(Redirected(c.rules), FourthRule)
  <2>1. /\ e \in Listed
        /\ e.outbounds = c.outbounds \o <<[ob EXCEPT !.tag = OurFallback], LoopbackOutbound(4)>>
        /\ e.balancers = Append(Get(c.balancers, <<>>),
                                Balancer(BalancerFallback(3), {Fallback(3)}, Loopback(4)))
        /\ e.rules = IF c.rules = Null THEN Null
                     ELSE Append(Redirected(c.rules), Rule({LoopTag(4)}, OurFallback, Null))
    BY <1>1, WithFallbackIs, Zenon
  <2>2. e.rules = Append(Redirected(c.rules), FourthRule)
    BY <1>1, <2>1, Zenon DEF FourthRule
  <2> QED
    BY <1>1, <2>1, <2>2, Zenon DEF Given, FourthBalancer
<1>3. e \in Config /\ Get(e.outbounds, <<>>) = e.outbounds
  BY <1>2, ListedFields, Zenon
<1>4. /\ x \in Outbound /\ x.tag = OurFallback /\ x.protocol = "proxy" /\ x.source = ob.source
  <2>1. x \in Outbound
    BY MadeTypes, Zenon DEF Given
  <2>2. ob \in [tag : Tag, protocol : Protocols, inboundTag : Optional(Tag), source : Nat]
    BY Zenon DEF Outbound
  <2> HIDE DEF x
  <2>3. x.tag = OurFallback /\ x.protocol = ob.protocol /\ x.source = ob.source
    BY <2>2 DEF Given, x
  <2> QED
    BY <2>1, <2>3
<1>5. /\ y \in Outbound /\ y.tag = Loopback(4) /\ y.protocol = "loopback"
      /\ y.inboundTag = LoopTag(4) /\ y.source = 0
  <2>1. y \in Outbound
    BY MadeTypes
  <2> QED
    BY <2>1 DEF LoopbackOutbound
<1> HIDE DEF x, y
<1>6. ToSet(e.outbounds) = ToSet(c.outbounds) \cup {x, y}
  <2> DEFINE z == <<x, y>>
  <2>1. z \in Seq(Outbound)
    BY <1>4, <1>5
  <2>2. ToSet(z) = {x, y}
    BY DEF ToSet
  <2>3. e.outbounds = c.outbounds \o z
    BY <1>2
  <2> HIDE DEF z
  <2> QED
    BY <1>1, <2>1, <2>2, <2>3, ConcatRange
<1>7. FourthBalancer \in Balancers /\ FourthRule \in Rules
  <2>1. /\ BalancerFallback(3) \in Tag /\ {Fallback(3)} \in SUBSET Tag
        /\ Loopback(4) \in Optional(Tag)
        /\ {LoopTag(4)} \in SUBSET Tag /\ OurFallback \in Optional(Tag) /\ Null \in Optional(Tag)
    BY MadeTypes DEF Optional
  <2> QED
    BY <2>1, MadeTypes, Zenon DEF FourthBalancer, FourthRule
<1>8. /\ e.balancers \in Seq(Balancers) /\ Len(e.balancers) = Len(c.balancers) + 1
      /\ ToSet(e.balancers) = ToSet(c.balancers) \cup {FourthBalancer}
  BY <1>1, <1>2, <1>7, AppendRange
<1>9. /\ e.rules \in Seq(Rules)
      /\ ToSet(e.rules) = ToSet(Redirected(c.rules)) \cup {FourthRule}
  <2>1. Redirected(c.rules) \in Seq(Rules)
    BY <1>1, RedirectedType, Zenon
  <2> QED
    BY <1>2, <1>7, <2>1, AppendRange
<1>10. Get(e.balancers, <<>>) = e.balancers /\ Get(e.rules, <<>>) = e.rules
  BY <1>8, <1>9, NotNull, Zenon DEF Get
<1> QED
  BY <1>2, <1>3, <1>4, <1>5, <1>6, <1>8, <1>9, <1>10 DEF x, y

LEMMA MainTags ==
    /\ OurFallback # Null /\ Loopback(4) # Null
    /\ \A n \in Nat : /\ LoopTag(n) # LoopTag(4) <=> n # 4
                      /\ LoopTag(n) # LoopTag(3) <=> n # 3
                      /\ Loopback(n) # Fallback(3) /\ Loopback(n) # OurFallback
    /\ Fallback(3) # OurFallback
<1>1. OurFallback # Null /\ Loopback(4) # Null
  BY MadeTypes, NullTag
<1> QED
  BY <1>1 DEF LoopTag, Loopback, Fallback, OurFallback

\* The tags that the function gives are free, and nothing refers to them.
LEMMA FreeTags ==
    ASSUME NEW c \in Config, Conventional(c)
    PROVE  /\ \A ob \in ToSet(c.outbounds) : ob.tag \notin {OurFallback, Loopback(4)}
           /\ \A b \in ToSet(c.balancers) : b.tag # BalancerFallback(3) /\ OurFallback \notin b.selector
           /\ \A r \in ToSet(c.rules) : LoopTag(4) \notin r.inboundTag
           /\ \A n \in 1 .. 2 : \A r \in ToSet(c.rules) :
                 LoopTag(n) \in r.inboundTag => LoopTag(3) \notin r.inboundTag
<1>1. Compatible(c) /\ Get(c.balancers, <<>>) = c.balancers
  BY ConventionalIs, Zenon
<1>2. /\ \A ob \in ToSet(c.outbounds) : ob.tag \notin {OurFallback, Loopback(4)}
      /\ \A b \in ToSet(c.balancers) : b.tag # BalancerFallback(3)
  BY <1>1, Zenon DEF Compatible
<1>3. /\ \A b \in ToSet(c.balancers) : OurFallback \notin b.selector
      /\ \A r \in ToSet(c.rules) :
            /\ LoopTag(4) \notin r.inboundTag
            /\ LoopTag(3) \in r.inboundTag => r = Rule({LoopTag(3)}, Fallback(3), Null)
  BY Zenon DEF Conventional
<1>4. \A n \in 1 .. 2, r \in ToSet(c.rules) :
         LoopTag(n) \in r.inboundTag => LoopTag(3) \notin r.inboundTag
  <2> SUFFICES ASSUME NEW n \in 1 .. 2, NEW r \in ToSet(c.rules), LoopTag(n) \in r.inboundTag,
                      LoopTag(3) \in r.inboundTag
               PROVE  FALSE
    BY Zenon
  <2>1. r = Rule({LoopTag(3)}, Fallback(3), Null)
    BY <1>3, Zenon
  <2>2. r.inboundTag = {LoopTag(3)}
    BY <2>1 DEF Rule
  <2>3. LoopTag(n) = LoopTag(3)
    BY <2>2, Zenon
  <2> QED
    BY <2>3 DEF LoopTag
<1> QED
  BY <1>2, <1>3, <1>4, Zenon

LEMMA MainVisits ==
    ASSUME NEW c \in Config, Conventional(c), NEW ob \in Outbound, ob.protocol = "proxy",
           NEW e, e = WithFallback(c, ob), NEW V
    PROVE  Visited(e, V) = IF OurFallback \in SelectedTags(e, V)
                           THEN Append(Filter(c.outbounds, Plain(SelectedTags(e, V))), Given(ob))
                           ELSE Filter(c.outbounds, Plain(SelectedTags(e, V)))
<1> DEFINE x == Given(ob)
           y == LoopbackOutbound(4)
           P == Plain(SelectedTags(e, V))
<1>1. /\ e \in Config /\ e.outbounds = c.outbounds \o <<x, y>>
      /\ Get(e.outbounds, <<>>) = e.outbounds
      /\ x \in Outbound /\ x.tag = OurFallback /\ x.protocol = "proxy"
      /\ y \in Outbound /\ y.protocol = "loopback"
  BY MainParts, Zenon
<1>2. c.outbounds \in Seq(Outbound)
  BY ConventionalIs, Zenon
<1>3. y \notin P
  BY <1>1, Zenon DEF Plain, IsSpecial
<1>4. x \in P <=> OurFallback \in SelectedTags(e, V)
  <2>1. ~IsSpecial(x)
    BY <1>1 DEF IsSpecial
  <2> QED
    BY <1>1, <2>1, Zenon DEF Plain
<1>5. Visited(e, V) = Filter(e.outbounds, P)
  BY <1>1, VisitedIs, Zenon
<1> HIDE DEF x, y, P
<1>6. Filter(e.outbounds, P)
         = IF x \in P THEN Append(Filter(c.outbounds, P), x) ELSE Filter(c.outbounds, P)
  <2> DEFINE q == <<x, y>>
             p == c.outbounds
             f == Filter(p, P)
  <2>1. e.outbounds = p \o q /\ p \in Seq(Outbound)
    BY <1>1, <1>2
  <2>2. /\ q \in Seq(Outbound)
        /\ x \in P => Filter(q, P) = <<x>>
        /\ x \notin P => Filter(q, P) = <<>>
    <3>1. x \in Outbound /\ y \in Outbound /\ y \notin P
      BY <1>1, <1>3
    <3>2. q = <<x, y>>
      OBVIOUS
    <3> HIDE DEF q
    <3>3. q \in Seq(Outbound)
      BY <3>1, <3>2, FilterTwo, Zenon
    <3>4. x \in P => Filter(q, P) = <<x>>
      BY <3>1, <3>2, FilterTwo, SMT
    <3>5. x \notin P => Filter(q, P) = <<>>
      BY <3>1, <3>2, FilterTwo, SMT
    <3> QED
      BY <3>3, <3>4, <3>5
  <2> HIDE DEF p, q
  <2>3. f \in Seq(Outbound)
    BY <2>1, FilterType, Zenon
  <2>4. Filter(p \o q, P) = Filter(p, P) \o Filter(q, P)
    BY <2>1, <2>2, FilterConcat
  <2> HIDE DEF f
  <2>5. f \o <<x>> = Append(f, x) /\ f \o <<>> = f
    BY <2>3
  <2> QED
    BY <2>1, <2>2, <2>4, <2>5 DEF f, p
<1>7. Visited(e, V) = IF OurFallback \in SelectedTags(e, V)
                      THEN Append(Filter(c.outbounds, P), x) ELSE Filter(c.outbounds, P)
  BY <1>1, <1>4, <1>5, <1>6
<1> QED
  BY <1>7, Zenon DEF x, P

LEMMA MainKeeps ==
    ASSUME NEW c \in Config, Conventional(c), NEW ob \in Outbound, ob.protocol = "proxy",
           NEW e, e = WithFallback(c, ob)
    PROVE  Keeps(c, e, 1 .. 2)
<1> DEFINE x == Given(ob)
           y == LoopbackOutbound(4)
<1>1. /\ e \in Config /\ Get(e.outbounds, <<>>) = e.outbounds
      /\ x.tag = OurFallback /\ y.tag = Loopback(4)
      /\ ToSet(e.outbounds) = ToSet(c.outbounds) \cup {x, y}
      /\ ToSet(Get(e.balancers, <<>>)) = ToSet(c.balancers) \cup {FourthBalancer}
      /\ \A r \in ToSet(Get(e.rules, <<>>)) : r = FourthRule \/ r \in ToSet(Redirected(c.rules))
      /\ ToSet(Redirected(c.rules)) \subseteq ToSet(Get(e.rules, <<>>))
  BY MainParts, Zenon
<1>2. /\ Get(c.outbounds, <<>>) = c.outbounds /\ c.rules \in Seq(Rules)
      /\ Get(c.balancers, <<>>) = c.balancers
  BY ConventionalIs, Zenon
<1>3. /\ \A o \in ToSet(c.outbounds) : o.tag \notin {OurFallback, Loopback(4)}
      /\ \A b \in ToSet(c.balancers) : b.tag # BalancerFallback(3) /\ OurFallback \notin b.selector
      /\ \A r \in ToSet(c.rules) : LoopTag(4) \notin r.inboundTag
      /\ \A n \in 1 .. 2 : \A r \in ToSet(c.rules) :
            LoopTag(n) \in r.inboundTag => LoopTag(3) \notin r.inboundTag
  BY FreeTags, Zenon
<1>4. FourthBalancer.tag = BalancerFallback(3) /\ FourthRule.inboundTag = {LoopTag(4)}
  BY DEF FourthBalancer, FourthRule, Balancer, Rule
<1>5. OurFallback # Null /\ Loopback(4) # Null
  BY MainTags, Zenon
<1> HIDE DEF x, y
<1>6. ASSUME NEW b \in ToSet(c.balancers) PROVE Fallbacks(e, b.tag) = Fallbacks(c, b.tag)
  <2>1. {z \in ToSet(Get(e.balancers, <<>>)) : z.tag = b.tag /\ z.fallbackTag # Null}
           = {z \in ToSet(c.balancers) : z.tag = b.tag /\ z.fallbackTag # Null}
    BY <1>1, <1>3, <1>4, Zenon
  <2> QED
    BY <1>2, <2>1, Zenon DEF Fallbacks
<1>7. ASSUME NEW tag \in {o.tag : o \in ToSet(c.outbounds)} \cup {Null}
      PROVE  LoopTags(e, tag) = LoopTags(c, tag)
  <2>1. tag # OurFallback /\ tag # Loopback(4)
    BY <1>3, <1>5, Zenon
  <2>2. {z \in ToSet(e.outbounds) : z.tag = tag /\ z.protocol = "loopback"}
           = {z \in ToSet(c.outbounds) : z.tag = tag /\ z.protocol = "loopback"}
    BY <1>1, <2>1, Zenon
  <2> QED
    BY <1>1, <1>2, <2>2, Zenon DEF LoopTags
<1>8. ASSUME NEW t, Known(c, t) PROVE Visited(e, t) = Visited(c, t)
  <2>1. SelectedTags(e, t) = SelectedTags(c, t) /\ OurFallback \notin SelectedTags(c, t)
    <3>1. CASE t = End
      BY <3>1 DEF SelectedTags, End
    <3>2. ASSUME NEW b \in ToSet(c.balancers), t = <<"balancer", b.tag>>
          PROVE  /\ SelectedTags(e, t) = SelectedTags(c, t)
                 /\ OurFallback \notin SelectedTags(c, t)
      <4> DEFINE E == {z \in ToSet(Get(e.balancers, <<>>)) : z.tag = b.tag}
                 C == {z \in ToSet(c.balancers) : z.tag = b.tag}
      <4>1. E = C
        BY <1>1, <1>3, <1>4, Zenon
      <4>2. \A z \in C : OurFallback \notin z.selector
        BY <1>3, Zenon
      <4>3. /\ SelectedTags(e, t) = UNION {z.selector : z \in E}
            /\ SelectedTags(c, t) = UNION {z.selector : z \in C}
        <5> HIDE DEF E, C
        <5>1. /\ SelectedTags(e, <<"balancer", b.tag>>) = UNION {z.selector : z \in E}
          BY DEF SelectedTags, E
        <5>2. /\ SelectedTags(c, <<"balancer", b.tag>>) = UNION {z.selector : z \in C}
          BY <1>2 DEF SelectedTags, C
        <5> QED
          BY <3>2, <5>1, <5>2, Zenon
      <4> HIDE DEF E, C
      <4> QED
        BY <4>1, <4>2, <4>3, Zenon
    <3>3. ASSUME NEW tag \in {o.tag : o \in ToSet(c.outbounds)} \cup {Null},
                 t = <<"outbound", tag>>
          PROVE  /\ SelectedTags(e, t) = SelectedTags(c, t)
                 /\ OurFallback \notin SelectedTags(c, t)
      <4>1. tag # OurFallback
        BY <1>3, <1>5, Zenon
      <4>2. SelectedTags(e, t) = {tag} /\ SelectedTags(c, t) = {tag}
        BY <3>3 DEF SelectedTags
      <4> QED
        BY <4>1, <4>2
    <3>4. CASE \E b \in ToSet(c.balancers) : t = <<"balancer", b.tag>>
      BY <3>2, <3>4, Zenon
    <3>5. CASE \E tag \in {o.tag : o \in ToSet(c.outbounds)} \cup {Null} : t = <<"outbound", tag>>
      BY <3>3, <3>5, Zenon
    <3> QED
      BY <1>8, <3>1, <3>4, <3>5, Zenon DEF Known
  <2>2. Visited(e, t) = Filter(c.outbounds, Plain(SelectedTags(e, t)))
    BY <2>1, MainVisits, Zenon
  <2>3. Visited(c, t) = Filter(c.outbounds, Plain(SelectedTags(c, t)))
    BY <1>2, VisitedIs, Zenon
  <2> QED
    BY <2>1, <2>2, <2>3, Zenon
<1>9. ASSUME NEW n \in 1 .. 2, NEW r \in ToSet(c.rules), LoopTag(n) \in r.inboundTag
      PROVE  /\ r \in ToSet(Get(e.rules, <<>>))
             /\ \A q \in ToSet(Get(e.rules, <<>>)) : LoopTag(n) \in q.inboundTag => q = r
  <2> DEFINE to(q) == [q EXCEPT !.outboundTag = Null, !.balancerTag = BalancerFallback(3)]
             by(q) == IF LoopTag(3) \in q.inboundTag THEN to(q) ELSE q
  <2>1. /\ \A q \in ToSet(c.rules) : by(q) \in ToSet(Redirected(c.rules))
        /\ \A q \in ToSet(Redirected(c.rules)) : \E p \in ToSet(c.rules) : q = by(p)
    BY <1>2, RedirectedSet, Zenon
  <2>2. by(r) = r
    BY <1>3, <1>9, Zenon
  <2>3. r \in ToSet(Get(e.rules, <<>>))
    BY <1>1, <2>1, <2>2, Zenon
  <2>4. ASSUME NEW q \in ToSet(Get(e.rules, <<>>)), LoopTag(n) \in q.inboundTag PROVE q = r
    <3>1. q # FourthRule
      <4>1. LoopTag(n) # LoopTag(4)
        BY DEF LoopTag
      <4> QED
        BY <1>4, <2>4, <4>1, Zenon
    <3>2. PICK p \in ToSet(c.rules) : q = by(p)
      BY <1>1, <2>1, <3>1, Zenon
    <3>3. p \in Rules
      BY <1>2 DEF ToSet
    <3>4. to(p).inboundTag = p.inboundTag
      BY <3>3 DEF Rules
    <3>5. LoopTag(n) \in p.inboundTag
      BY <2>4, <3>2, <3>4, Zenon
    <3>6. q = p
      BY <1>3, <3>2, <3>5, Zenon
    <3>7. n \in 1 .. 3
      OBVIOUS
    <3> QED
      BY <1>9, <3>5, <3>6, <3>7, OneRule, Zenon
  <2> QED
    BY <2>3, <2>4, Zenon
<1> QED
  BY <1>6, <1>7, <1>8, <1>9, Zenon DEF Keeps

\* Where the walk of the main configuration leaves that of the upstream's one:
\* behind the third loopback, for the new balancer and our outbound.
LEMMA MainTurns ==
    ASSUME NEW c \in Config, Conventional(c), NEW ob \in Outbound, ob.protocol = "proxy",
           NEW e, e = WithFallback(c, ob), Known(c, <<"outbound", Loopback(3)>>)
    PROVE  LET d == Tidied(e)
               third == <<"outbound", Loopback(3)>>
               proxy == <<"outbound", Fallback(3)>>
               balancer == <<"balancer", BalancerFallback(3)>>
               fourth == <<"outbound", Loopback(4)>>
               our == <<"outbound", OurFallback>>
           IN  /\ Following(c, third, TRUE) = proxy
               /\ Following(c, proxy, TRUE) = End
               /\ Following(d, third, FALSE) = balancer
               /\ Following(d, balancer, FALSE) = fourth
               /\ Following(d, fourth, FALSE) = our
               /\ Following(d, our, FALSE) = End
<1> DEFINE d == Tidied(e)
           x == Given(ob)
           y == LoopbackOutbound(4)
           rules == ToSet(Get(e.rules, <<>>))
<1>1. /\ e \in Config /\ Get(e.outbounds, <<>>) = e.outbounds
      /\ x.tag = OurFallback /\ x.protocol = "proxy"
      /\ y.tag = Loopback(4) /\ y.protocol = "loopback" /\ y.inboundTag = LoopTag(4)
      /\ ToSet(e.outbounds) = ToSet(c.outbounds) \cup {x, y}
      /\ ToSet(Get(e.balancers, <<>>)) = ToSet(c.balancers) \cup {FourthBalancer}
      /\ FourthRule \in rules
      /\ \A r \in rules : r = FourthRule \/ r \in ToSet(Redirected(c.rules))
      /\ ToSet(Redirected(c.rules)) \subseteq rules
  BY MainParts, Zenon
<1>2. /\ Get(c.outbounds, <<>>) = c.outbounds /\ Get(c.rules, <<>>) = c.rules
      /\ c.rules \in Seq(Rules) /\ Apart(c.outbounds)
  BY ConventionalIs, Zenon
<1>3. /\ \A o \in ToSet(c.outbounds) : o.tag \notin {OurFallback, Loopback(4)}
      /\ \A b \in ToSet(c.balancers) : b.tag # BalancerFallback(3)
      /\ \A r \in ToSet(c.rules) : LoopTag(4) \notin r.inboundTag
  BY FreeTags, Zenon
<1>4. /\ FourthBalancer.tag = BalancerFallback(3) /\ FourthBalancer.fallbackTag = Loopback(4)
      /\ FourthRule.inboundTag = {LoopTag(4)} /\ FourthRule.outboundTag = OurFallback
      /\ FourthRule.balancerTag = Null
  BY DEF FourthBalancer, FourthRule, Balancer, Rule
<1>5. /\ OurFallback # Null /\ Loopback(4) # Null /\ Loopback(3) # Null
      /\ BalancerFallback(3) # Null
  BY MadeTypes, NullTag
<1>6. /\ Loopback(4) # OurFallback /\ Loopback(3) # Loopback(4) /\ Loopback(3) # OurFallback
      /\ LoopTag(3) # LoopTag(4)
  BY DEF Loopback, OurFallback, LoopTag
<1>7. \A tag : /\ Fallbacks(d, tag) = Fallbacks(e, tag)
               /\ LoopTags(d, tag) = LoopTags(e, tag)
  BY <1>1, TidiedLooks, Zenon
<1> HIDE DEF d, x, y, rules
\* The third loopback of the upstream.
<1>8. PICK o \in ToSet(c.outbounds) : o.tag = Loopback(3)
  <2>1. <<"outbound", Loopback(3)>> # End
    BY DEF End
  <2>2. \A b : <<"outbound", Loopback(3)>> # <<"balancer", b>>
    OBVIOUS
  <2>3. \A tag : <<"outbound", Loopback(3)>> = <<"outbound", tag>> => tag = Loopback(3)
    OBVIOUS
  <2> QED
    BY <1>5, <2>1, <2>2, <2>3, Zenon DEF Known
<1>9. LoopTags(c, Loopback(3)) = {LoopTag(3)}
  <2>1. PICK n \in 1 .. 3 : o = LoopbackOutbound(n)
    BY <1>8, Zenon DEF Conventional
  <2>2. Loopback(n) = Loopback(3) /\ o.protocol = "loopback"
    BY <1>8, <2>1 DEF LoopbackOutbound
  <2>3. LoopTags(c, Loopback(3)) # {}
    BY <1>2, <1>8, <2>2, Zenon DEF LoopTags
  <2>4. PICK m \in 1 .. 3 : Loopback(3) = Loopback(m) /\ LoopTags(c, Loopback(3)) = {LoopTag(m)}
    BY <2>3, LoopTagsIs, Zenon
  <2>5. m = 3
    BY <2>4 DEF Loopback
  <2> QED
    BY <2>4, <2>5
<1>10. PICK r \in ToSet(c.rules) : LoopTag(3) \in r.inboundTag
  <2>1. PICK n \in 1 .. 3 : /\ Loopback(3) = Loopback(n)
                            /\ \E r \in ToSet(c.rules) : LoopTag(n) \in r.inboundTag
    BY <1>9, LoopTagsIs
  <2>2. n = 3
    BY <2>1 DEF Loopback
  <2> QED
    BY <2>1, <2>2
<1>11. r = Rule({LoopTag(3)}, Fallback(3), Null)
  BY <1>10, Zenon DEF Conventional
<1>12. r.inboundTag = {LoopTag(3)} /\ r.outboundTag = Fallback(3) /\ r.balancerTag = Null
  BY <1>11 DEF Rule
<1>13. \A q \in ToSet(c.rules) : LoopTag(3) \in q.inboundTag => q = r
  <2>1. 3 \in 1 .. 3
    OBVIOUS
  <2> QED
    BY <1>10, <2>1, OneRule, Zenon
<1>14. Following(c, <<"outbound", Loopback(3)>>, TRUE) = <<"outbound", Fallback(3)>>
  <2>1. RuleTarget(c, LoopTag(3), TRUE) = RuleSends(r)
    BY <1>2, <1>10, <1>13, UpstreamRule, Zenon
  <2>2. RuleSends(r) = <<"outbound", Fallback(3)>>
    BY <1>12, Zenon DEF RuleSends
  <2> QED
    BY <1>9, <2>1, <2>2, FollowOutbound, Zenon
<1>15. Following(c, <<"outbound", Fallback(3)>>, TRUE) = End
  <2>1. \A n \in 1 .. 3 : Fallback(3) # Loopback(n)
    BY DEF Fallback, Loopback
  <2>2. LoopTags(c, Fallback(3)) = {}
    BY <2>1, LoopTagsIs, Zenon
  <2> QED
    BY <2>2, FollowOutbound, Zenon
\* The same loopback of the main configuration.
<1> DEFINE to(q) == [q EXCEPT !.outboundTag = Null, !.balancerTag = BalancerFallback(3)]
           by(q) == IF LoopTag(3) \in q.inboundTag THEN to(q) ELSE q
<1>16. /\ \A q \in ToSet(c.rules) : by(q) \in ToSet(Redirected(c.rules))
       /\ \A q \in ToSet(Redirected(c.rules)) : \E p \in ToSet(c.rules) : q = by(p)
  BY <1>2, RedirectedSet, Zenon
<1>17. \A p \in ToSet(c.rules) : to(p).inboundTag = p.inboundTag
  <2> SUFFICES ASSUME NEW p \in ToSet(c.rules) PROVE to(p).inboundTag = p.inboundTag
    OBVIOUS
  <2>1. p \in Rules
    BY <1>2 DEF ToSet
  <2> QED
    BY <2>1 DEF Rules
<1>18. to(r).balancerTag = BalancerFallback(3)
  <2>1. r \in Rules
    BY <1>2 DEF ToSet
  <2> QED
    BY <2>1 DEF Rules
<1> HIDE DEF to
<1>19. \A q \in ToSet(Redirected(c.rules)) : \E p \in ToSet(c.rules) :
          q = by(p) /\ q.inboundTag = p.inboundTag
  BY <1>16, <1>17, Zenon
<1>20. to(r) \in rules /\ LoopTag(3) \in to(r).inboundTag
  <2>1. by(r) = to(r)
    BY <1>10, Zenon
  <2> QED
    BY <1>1, <1>10, <1>16, <1>17, <2>1, Zenon
<1>21. ASSUME NEW q \in rules, LoopTag(3) \in q.inboundTag PROVE q = to(r)
  <2>1. q # FourthRule
    BY <1>4, <1>6, <1>21, Zenon
  <2>2. PICK p \in ToSet(c.rules) : q = by(p) /\ q.inboundTag = p.inboundTag
    BY <1>1, <1>19, <2>1, Zenon
  <2>3. p = r
    BY <1>13, <1>21, <2>2, Zenon
  <2> QED
    BY <1>10, <2>2, <2>3, Zenon
<1>22. RuleTarget(d, LoopTag(3), FALSE) = RuleSends(to(r))
  BY <1>1, <1>20, <1>21, TidiedRule, Zenon DEF d, rules
<1>23. Following(d, <<"outbound", Loopback(3)>>, FALSE) = <<"balancer", BalancerFallback(3)>>
  <2>1. RuleSends(to(r)) = <<"balancer", BalancerFallback(3)>>
    BY <1>5, <1>18, Zenon DEF RuleSends
  <2>2. LoopTags(e, Loopback(3)) = LoopTags(c, Loopback(3))
    <3>1. {z \in ToSet(e.outbounds) : z.tag = Loopback(3) /\ z.protocol = "loopback"}
           = {z \in ToSet(c.outbounds) : z.tag = Loopback(3) /\ z.protocol = "loopback"}
      BY <1>1, <1>6, Zenon
    <3> QED
      BY <1>1, <1>2, <3>1, Zenon DEF LoopTags
  <2>3. LoopTags(d, Loopback(3)) = {LoopTag(3)}
    BY <1>7, <1>9, <2>2, Zenon
  <2> QED
    BY <1>22, <2>1, <2>3, FollowOutbound, Zenon
\* The new balancer, the fourth loopback and our outbound.
<1>24. Following(d, <<"balancer", BalancerFallback(3)>>, FALSE) = <<"outbound", Loopback(4)>>
  <2>1. {z \in ToSet(Get(e.balancers, <<>>)) : z.tag = BalancerFallback(3) /\ z.fallbackTag # Null}
          = {FourthBalancer}
    BY <1>1, <1>3, <1>4, <1>5, Zenon
  <2>2. Fallbacks(e, BalancerFallback(3)) = {Loopback(4)}
    <3>1. Fallbacks(e, BalancerFallback(3)) = {z.fallbackTag : z \in {FourthBalancer}}
      BY <2>1, Zenon DEF Fallbacks
    <3> QED
      BY <1>4, <3>1
  <2>3. Fallbacks(d, BalancerFallback(3)) = {Loopback(4)}
    BY <1>7, <2>2, Zenon
  <2> QED
    BY <2>3, FollowBalancer, Zenon
<1>25. Following(d, <<"outbound", Loopback(4)>>, FALSE) = <<"outbound", OurFallback>>
  <2>1. {z \in ToSet(e.outbounds) : z.tag = Loopback(4) /\ z.protocol = "loopback"} = {y}
    BY <1>1, <1>3, <1>6, Zenon
  <2>2. LoopTags(e, Loopback(4)) = {LoopTag(4)}
    BY <1>1, <2>1, Zenon DEF LoopTags
  <2>3. LoopTags(d, Loopback(4)) = {LoopTag(4)}
    BY <1>7, <2>2, Zenon
  <2>4. ASSUME NEW q \in rules, LoopTag(4) \in q.inboundTag PROVE q = FourthRule
    BY <1>1, <1>3, <1>19, <2>4, Zenon
  <2>5. LoopTag(4) \in FourthRule.inboundTag
    BY <1>4, Zenon
  <2>6. RuleTarget(d, LoopTag(4), FALSE) = RuleSends(FourthRule)
    BY <1>1, <2>4, <2>5, TidiedRule, Zenon DEF d, rules
  <2>7. RuleSends(FourthRule) = <<"outbound", OurFallback>>
    BY <1>4, Zenon DEF RuleSends
  <2> QED
    BY <2>3, <2>6, <2>7, FollowOutbound, Zenon
<1>26. Following(d, <<"outbound", OurFallback>>, FALSE) = End
  <2>1. {z \in ToSet(e.outbounds) : z.tag = OurFallback /\ z.protocol = "loopback"} = {}
    <3>1. x.protocol # "loopback"
      BY <1>1
    <3> QED
      BY <1>1, <1>3, <1>6, <3>1, Zenon
  <2>2. LoopTags(e, OurFallback) = {}
    BY <1>1, <2>1, Zenon DEF LoopTags
  <2>3. LoopTags(d, OurFallback) = {}
    BY <1>7, <2>2, Zenon
  <2> QED
    BY <2>3, FollowOutbound, Zenon
<1> QED
  BY <1>14, <1>15, <1>23, <1>24, <1>25, <1>26, Zenon DEF d

\* Our outbounds, as a part of a configuration's ones.
Ours == {ob \in Outbound : ob.source # 0}

LEMMA OwnTidied ==
    ASSUME NEW e \in Config,
           \A ob \in ToSet(Get(e.outbounds, <<>>)) : ob.source # 0 => ob.protocol = "proxy"
    PROVE  Own(Tidied(e)) = Filter(Get(e.outbounds, <<>>), Ours)
<1> DEFINE d == Tidied(e)
           D == d.outbounds
           obs == Get(e.outbounds, <<>>)
<1>1. d \in Config /\ D \in Seq(Outbound) /\ Get(d.outbounds, <<>>) = D
  BY TidiedIs, ListedFields, Zenon
<1>2. Own(d) = Where(D, {i \in DOMAIN D : D[i].source # 0})
  BY <1>1, Zenon DEF Own
<1> HIDE DEF D
<1>3. \A i \in DOMAIN D : D[i] \in Outbound
  BY <1>1
<1>4. {i \in DOMAIN D : D[i].source # 0} = {i \in DOMAIN D : D[i] \in Ours}
  BY <1>3, Zenon DEF Ours
<1>5. Own(d) = Filter(D, Ours)
  BY <1>2, <1>4, Zenon DEF Filter
<1>6. \A ob \in ToSet(obs) : ob \in Ours => ~IsSpecial(ob)
  <2> SUFFICES ASSUME NEW ob \in ToSet(obs), ob \in Ours PROVE ~IsSpecial(ob)
    BY Zenon
  <2>1. ob.protocol = "proxy"
    BY Zenon DEF Ours
  <2> QED
    BY <2>1 DEF IsSpecial
<1>7. Filter(D, Ours) = Filter(obs, Ours)
  BY <1>6, TidiedVisits, Zenon DEF D
<1> QED
  BY <1>5, <1>7, Zenon

\* What the targets behind the third loopback add to the chain.
LEMMA MainMeets ==
    ASSUME NEW c \in Config, Conventional(c), Foreign(c),
           NEW ob \in Outbound, ob.protocol = "proxy", ob.source # 0,
           NEW e, e = WithFallback(c, ob)
    PROVE  LET d == Tidied(e)
           IN  /\ Visited(d, <<"balancer", BalancerFallback(3)>>)
                     = Visited(c, <<"outbound", Fallback(3)>>)
               /\ Visited(d, <<"outbound", Loopback(4)>>) = <<>>
               /\ Visited(d, <<"outbound", OurFallback>>) = <<Given(ob)>>
               /\ Own(d) = <<Given(ob)>>
<1> DEFINE d == Tidied(e)
           x == Given(ob)
           y == LoopbackOutbound(4)
<1>1. /\ e \in Config /\ e.outbounds = c.outbounds \o <<x, y>>
      /\ Get(e.outbounds, <<>>) = e.outbounds
      /\ x \in Outbound /\ x.protocol = "proxy" /\ x.source = ob.source
      /\ y \in Outbound /\ y.source = 0
      /\ ToSet(e.outbounds) = ToSet(c.outbounds) \cup {x, y}
      /\ ToSet(Get(e.balancers, <<>>)) = ToSet(c.balancers) \cup {FourthBalancer}
  BY MainParts, Zenon
<1>2. c.outbounds \in Seq(Outbound) /\ Get(c.outbounds, <<>>) = c.outbounds
  BY ConventionalIs, Zenon
<1>3. /\ \A o \in ToSet(c.outbounds) : o.tag \notin {OurFallback, Loopback(4)}
      /\ \A b \in ToSet(c.balancers) : b.tag # BalancerFallback(3)
  BY FreeTags, Zenon
<1>4. FourthBalancer.tag = BalancerFallback(3) /\ FourthBalancer.selector = {Fallback(3)}
  BY DEF FourthBalancer, Balancer
<1>5. OurFallback # Fallback(3) /\ OurFallback # Loopback(4)
  BY DEF OurFallback, Fallback, Loopback
<1>6. \A t : Visited(d, t) = Visited(e, t)
  BY <1>1, TidiedLooks, Zenon
<1> HIDE DEF x, y, d
<1>7. \A i \in 1 .. Len(c.outbounds) : c.outbounds[i] \in ToSet(c.outbounds)
  BY <1>2 DEF ToSet
<1>8. ASSUME NEW T, \A o \in ToSet(c.outbounds) : o.tag \notin T
      PROVE  Filter(c.outbounds, Plain(T)) = <<>>
  <2>1. \A i \in 1 .. Len(c.outbounds) : c.outbounds[i] \notin Plain(T)
    BY <1>7, <1>8, Zenon DEF Plain
  <2> QED
    BY <1>2, <2>1, FilterNone, Zenon
<1>9. Visited(d, <<"balancer", BalancerFallback(3)>>) = Visited(c, <<"outbound", Fallback(3)>>)
  <2> DEFINE t == <<"balancer", BalancerFallback(3)>>
             E == {z \in ToSet(Get(e.balancers, <<>>)) : z.tag = BalancerFallback(3)}
  <2>1. E = {FourthBalancer}
    BY <1>1, <1>3, <1>4, Zenon
  <2>2. SelectedTags(e, t) = UNION {z.selector : z \in E}
    <3> HIDE DEF E
    <3> QED
      BY DEF SelectedTags, E
  <2>3. UNION {z.selector : z \in E} = {Fallback(3)}
    <3> HIDE DEF E
    <3> QED
      BY <1>4, <2>1
  <2>4. SelectedTags(c, <<"outbound", Fallback(3)>>) = {Fallback(3)}
    BY DEF SelectedTags
  <2>5. OurFallback \notin SelectedTags(e, t)
    BY <1>5, <2>2, <2>3
  <2>6. Visited(e, t) = Filter(c.outbounds, Plain(SelectedTags(e, t)))
    BY <2>5, MainVisits, Zenon
  <2>7. Visited(c, <<"outbound", Fallback(3)>>)
           = Filter(c.outbounds, Plain(SelectedTags(c, <<"outbound", Fallback(3)>>)))
    BY <1>2, VisitedIs, Zenon
  <2> QED
    BY <1>6, <2>2, <2>3, <2>4, <2>6, <2>7
<1>10. Visited(d, <<"outbound", Loopback(4)>>) = <<>>
  <2> DEFINE t == <<"outbound", Loopback(4)>>
  <2>1. SelectedTags(e, t) = {Loopback(4)}
    BY DEF SelectedTags
  <2>2. OurFallback \notin SelectedTags(e, t)
    BY <1>5, <2>1
  <2>3. Visited(e, t) = Filter(c.outbounds, Plain(SelectedTags(e, t)))
    BY <2>2, MainVisits, Zenon
  <2>4. Filter(c.outbounds, Plain({Loopback(4)})) = <<>>
    BY <1>3, <1>8
  <2> QED
    BY <1>6, <2>1, <2>3, <2>4
<1>11. Visited(d, <<"outbound", OurFallback>>) = <<x>>
  <2> DEFINE t == <<"outbound", OurFallback>>
  <2>1. SelectedTags(e, t) = {OurFallback}
    BY DEF SelectedTags
  <2>2. OurFallback \in SelectedTags(e, t)
    BY <2>1
  <2>3. Visited(e, t) = Append(Filter(c.outbounds, Plain(SelectedTags(e, t))), x)
    BY <2>2, MainVisits, Zenon DEF x
  <2>4. Filter(c.outbounds, Plain({OurFallback})) = <<>>
    BY <1>3, <1>8
  <2>5. Append(<<>>, x) = <<x>>
    OBVIOUS
  <2> QED
    BY <1>6, <2>1, <2>3, <2>4, <2>5
<1>12. Own(d) = <<x>>
  <2>1. \A o \in ToSet(c.outbounds) : o.source = 0
    BY <1>2, Zenon DEF Foreign
  <2>2. \A o \in ToSet(e.outbounds) : o.source # 0 => o.protocol = "proxy"
    BY <1>1, <2>1, Zenon
  <2>3. Own(d) = Filter(e.outbounds, Ours)
    BY <1>1, <2>2, OwnTidied, Zenon DEF d
  <2>4. \A i \in 1 .. Len(c.outbounds) : c.outbounds[i] \notin Ours
    BY <1>7, <2>1, Zenon DEF Ours
  <2>5. Filter(c.outbounds, Ours) = <<>>
    BY <1>2, <2>4, FilterNone, Zenon
  <2> DEFINE q == <<x, y>>
             p == c.outbounds
  <2>6. /\ q \in Seq(Outbound) /\ Filter(q, Ours) = <<x>>
    <3>1. x \in Outbound /\ y \in Outbound /\ x \in Ours /\ y \notin Ours
      BY <1>1, Zenon DEF Ours
    <3>2. q = <<x, y>>
      OBVIOUS
    <3> HIDE DEF q
    <3> QED
      BY <3>1, <3>2, FilterTwo, SMT
  <2>7. e.outbounds = p \o q /\ p \in Seq(Outbound)
    BY <1>1, <1>2
  <2> HIDE DEF p, q
  <2>8. Filter(p \o q, Ours) = Filter(p, Ours) \o Filter(q, Ours)
    <3>1. q \in Seq(Outbound) /\ p \in Seq(Outbound)
      BY <2>6, <2>7
    <3> QED
      BY <3>1, FilterConcat
  <2>9. <<>> \o <<x>> = <<x>>
    OBVIOUS
  <2> QED
    BY <2>3, <2>5, <2>6, <2>7, <2>8, <2>9 DEF p
<1> QED
  BY <1>9, <1>10, <1>11, <1>12, Zenon DEF d, x

\* What ChainsAreWhole says of a configuration.
WholeChain(c, before, extended) ==
    /\ Last(Walk(c, FALSE)) = End
    /\ Chain(c, FALSE) = before \o (IF extended THEN Own(c) ELSE <<>>)

LEMMA WalkLast ==
    ASSUME NEW c \in Config, NEW explicit
    PROVE  Last(Walk(c, explicit)) = Walk(c, explicit)[Longest(c)]
<1> DEFINE w == Walk(c, explicit)
           L == Longest(c)
<1>1. L \in Nat /\ L >= 2 /\ w = [n \in 1 .. L |-> w[n]]
  BY WalkIs, Zenon
<1> HIDE DEF w, L
<1>2. L > 0
  BY <1>1
<1>3. Last(w) = w[L]
  BY <1>1, <1>2, LastOf, Zenon
<1> QED
  BY <1>3, Zenon DEF w, L

LEMMA WalkLen ==
    ASSUME NEW c \in Config
    PROVE  Longest(Tidied(c)) = Longest(c)
<1> DEFINE d == Tidied(c)
           obs == Get(c.outbounds, <<>>)
<1>1. /\ d.balancers = c.balancers /\ d.outbounds = Proxies(obs) \o Specials(obs)
      /\ d.outbounds \in Seq(Outbound) /\ Get(d.outbounds, <<>>) = d.outbounds
  BY TidiedIs, ListedFields
<1>2. Len(d.outbounds) = Len(obs)
  <2> DEFINE N == {ob \in Outbound : ~IsSpecial(ob)}
             P == {ob \in Outbound : IsSpecial(ob)}
  <2>1. obs \in Seq(Outbound)
    BY ConfigFields
  <2>2. Proxies(obs) \in Seq(Outbound) /\ Specials(obs) \in Seq(Outbound)
    BY <2>1, OutboundParts, Zenon
  <2> HIDE DEF obs
  <2>3. \A i \in 1 .. Len(obs) : obs[i] \in Outbound
    BY <2>1
  <2>4. DOMAIN obs = 1 .. Len(obs)
    BY <2>1
  <2>5. \A i \in 1 .. Len(obs) : obs[i] \in N <=> obs[i] \notin P
    BY <2>3, Zenon
  <2>6. Proxies(obs) = Filter(obs, N) /\ Specials(obs) = Filter(obs, P)
    <3>1. \A i \in DOMAIN obs : /\ obs[i] \in N <=> ~IsSpecial(obs[i])
                                /\ obs[i] \in P <=> IsSpecial(obs[i])
      BY <2>3, <2>4, Zenon
    <3> HIDE DEF N, P
    <3>2. /\ {i \in DOMAIN obs : ~IsSpecial(obs[i])} = {i \in DOMAIN obs : obs[i] \in N}
          /\ {i \in DOMAIN obs : IsSpecial(obs[i])} = {i \in DOMAIN obs : obs[i] \in P}
      BY <3>1, Zenon
    <3> QED
      BY <3>2, Zenon DEF Proxies, Specials, Filter
  <2> HIDE DEF N, P
  <2>7. Len(Filter(obs, N)) + Len(Filter(obs, P)) = Len(obs)
    BY <2>1, <2>5, FilterSplit, Zenon
  <2> DEFINE u == Proxies(obs)
             v == Specials(obs)
  <2>8. Len(u \o v) = Len(u) + Len(v)
    <3>1. u \in Seq(Outbound) /\ v \in Seq(Outbound)
      BY <2>2
    <3> HIDE DEF u, v
    <3> QED
      BY <3>1
  <2> QED
    BY <1>1, <2>6, <2>7, <2>8
<1> QED
  BY <1>1, <1>2, Zenon DEF Longest

LEMMA ChainsAlike ==
    ASSUME NEW c \in Config, Conventional(c), NEW e \in Config, NEW N, Keeps(c, e, N),
           Longest(c) <= Longest(Tidied(e)),
           \A i \in 1 .. Longest(c) : \A n \in 1 .. 3 :
                Walk(c, TRUE)[i] = <<"outbound", Loopback(n)>> => n \in N
    PROVE  /\ Last(Walk(Tidied(e), FALSE)) = End
           /\ Chain(Tidied(e), FALSE) = Chain(c, TRUE)
<1> DEFINE d == Tidied(e)
           w == Walk(c, TRUE)
           v == Walk(d, FALSE)
           L == Longest(c)
           M == Longest(d)
<1>1. d \in Config
  BY TidiedIs, ListedFields, Zenon
<1>2. L \in Nat /\ L >= 2 /\ M \in Nat /\ L <= M
  BY <1>1, WalkIs, Zenon
<1>3. \A i \in 1 .. L : v[i] = w[i]
  <2>1. \A i \in 1 .. L - 1 : i \in 1 .. L
    BY <1>2
  <2>2. L <= L
    BY <1>2
  <2>3. \A i \in 1 .. L - 1 : \A n \in 1 .. 3 : w[i] = <<"outbound", Loopback(n)>> => n \in N
    BY <2>1, Zenon
  <2> DEFINE k == L
  <2>4. k \in Nat /\ k <= L /\ k <= M
    BY <1>2, <2>2
  <2>5. \A i \in 1 .. k - 1 : \A n \in 1 .. 3 : w[i] = <<"outbound", Loopback(n)>> => n \in N
    BY <2>3
  <2> HIDE DEF k
  <2>6. \A i \in 1 .. k : v[i] = w[i]
    BY <2>4, <2>5, WalksAlike, Zenon
  <2> QED
    BY <2>6, Zenon DEF k
<1>4. w[L] = End
  BY WalkLast, Zenon DEF Conventional
<1>5. \A i \in 1 .. L : Visited(d, v[i]) = Visited(c, w[i])
  BY <1>3, KnownWalk, KeepsFollowing, ZenonT(60)
<1>6. PICK g : Sums(Outbound, Met(c, TRUE), g) /\ Chain(c, TRUE) = g[L]
  BY ChainIs, Zenon
<1>7. PICK h : Sums(Outbound, Met(d, FALSE), h) /\ Chain(d, FALSE) = h[M]
  BY <1>1, ChainIs, Zenon
<1>8. /\ Len(Met(c, TRUE)) = L /\ Len(Met(d, FALSE)) = M
      /\ \A i \in 1 .. L : Met(c, TRUE)[i] = Visited(c, w[i])
      /\ \A i \in 1 .. M : Met(d, FALSE)[i] = Visited(d, v[i])
  BY <1>1, ChainIs, Zenon DEF Met
<1> HIDE DEF d, w, v, L, M
<1>9. /\ L - 1 \in 0 .. L - 1 /\ L - 1 \in 0 .. M - 1 /\ L - 1 \in Nat /\ (L - 1) + 1 = L
      /\ L \in 1 .. L /\ L \in 1 .. M /\ M \in L .. M /\ L - 1 <= L /\ L - 1 <= M
      /\ \A i \in 1 .. L - 1 : i \in 1 .. L /\ i \in 1 .. M
  BY <1>2
<1>10. v[L] = End
  BY <1>3, <1>4, <1>9, Zenon
<1>11. v[M] = End
  BY <1>1, <1>9, <1>10, WalkEnded, Zenon DEF v, M
<1>12. Last(v) = v[M]
  BY <1>1, WalkLast, Zenon DEF v, M
<1>13. g[L] = g[L - 1]
  BY <1>4, <1>6, <1>9, ChainEnded, Zenon DEF w, L
<1>14. h[M] = h[L - 1]
  BY <1>1, <1>7, <1>9, <1>10, ChainEnded, Zenon DEF v, M
<1>15. \A i \in 1 .. L - 1 : Met(c, TRUE)[i] = Met(d, FALSE)[i]
  BY <1>5, <1>8, <1>9, Zenon
<1>16. g[L - 1] = h[L - 1]
  <2> DEFINE k == L - 1
             a == Met(c, TRUE)
             b == Met(d, FALSE)
  <2>1. /\ k \in Nat /\ k <= Len(a) /\ k <= Len(b) /\ Len(a) \in Nat /\ Len(b) \in Nat
        /\ \A i \in 1 .. k : a[i] = b[i]
        /\ Sums(Outbound, a, g) /\ Sums(Outbound, b, h)
    BY <1>2, <1>6, <1>7, <1>8, <1>9, <1>15
  <2> HIDE DEF k, a, b
  <2>2. g[k] = h[k]
    BY <2>1, SumsAgree
  <2> QED
    BY <2>2, Zenon DEF k
<1> QED
  BY <1>6, <1>7, <1>11, <1>12, <1>13, <1>14, <1>16, Zenon DEF d, w, v, L, M

\* A main configuration without an outbound of ours.
LEMMA WholeUnchanged ==
    ASSUME NEW c \in Config, Conventional(c), Foreign(c), NEW extended \in BOOLEAN
    PROVE  WholeChain(Tidied(c), Chain(c, TRUE), extended)
<1>1. c.rules \in Seq(Rules) /\ Get(c.rules, <<>>) = c.rules
      /\ Get(c.outbounds, <<>>) = c.outbounds /\ c.outbounds \in Seq(Outbound)
  BY ConventionalIs, Zenon
<1>2. Keeps(c, c, 1 .. 3)
  BY <1>1, OneRule, Zenon DEF Keeps
<1>3. Longest(c) <= Longest(Tidied(c))
  <2>1. Longest(c) \in Nat
    BY WalkIs, Zenon
  <2> QED
    BY <2>1, WalkLen
<1>4. /\ Last(Walk(Tidied(c), FALSE)) = End
      /\ Chain(Tidied(c), FALSE) = Chain(c, TRUE)
  BY <1>2, <1>3, ChainsAlike, Zenon
<1>5. Own(Tidied(c)) = <<>>
  <2>1. \A o \in ToSet(c.outbounds) : o.source = 0
    BY <1>1, Zenon DEF Foreign
  <2>2. Own(Tidied(c)) = Filter(c.outbounds, Ours)
    BY <1>1, <2>1, OwnTidied, Zenon
  <2>3. \A i \in 1 .. Len(c.outbounds) : c.outbounds[i] \in ToSet(c.outbounds)
    BY <1>1 DEF ToSet
  <2>4. \A i \in 1 .. Len(c.outbounds) : c.outbounds[i] \notin Ours
    BY <2>1, <2>3, Zenon DEF Ours
  <2> QED
    BY <1>1, <2>2, <2>4, FilterNone, Zenon
<1> DEFINE chain == Chain(c, TRUE)
<1>6. chain \in Seq(Outbound)
  <2>1. Longest(c) \in 0 .. Longest(c)
    BY ChainIs
  <2> QED
    BY <2>1, ChainIs, Zenon DEF Sums
<1> HIDE DEF chain
<1>7. chain \o <<>> = chain
  BY <1>6
<1> QED
  BY <1>4, <1>5, <1>7 DEF WholeChain, chain

LEMMA ChainType ==
    ASSUME NEW c \in Config, NEW explicit
    PROVE  Chain(c, explicit) \in Seq(Outbound) /\ Chain(c, explicit) \o <<>> = Chain(c, explicit)
<1> DEFINE chain == Chain(c, explicit)
           m == Met(c, explicit)
           L == Longest(c)
<1>1. Len(m) = L /\ L \in Nat
  BY ChainIs, Zenon
<1>2. PICK g : Sums(Outbound, m, g) /\ chain = g[L]
  BY ChainIs, Zenon
<1> HIDE DEF chain, m, L
<1>3. L \in 0 .. Len(m)
  BY <1>1
<1>4. chain \in Seq(Outbound)
  BY <1>2, <1>3, Zenon DEF Sums
<1>5. chain \o <<>> = chain
  BY <1>4
<1> QED
  BY <1>4, <1>5 DEF chain

LEMMA MainLonger ==
    ASSUME NEW c \in Config, Conventional(c), NEW ob \in Outbound, ob.protocol = "proxy",
           NEW e, e = WithFallback(c, ob)
    PROVE  Longest(Tidied(e)) = Longest(c) + 3 /\ Longest(c) \in Nat
<1> DEFINE x == Given(ob)
           y == LoopbackOutbound(4)
           p == c.outbounds
           q == <<x, y>>
<1>1. /\ e \in Config /\ Get(e.outbounds, <<>>) = e.outbounds
      /\ e.outbounds = p \o q /\ x \in Outbound /\ y \in Outbound
      /\ Len(Get(e.balancers, <<>>)) = Len(c.balancers) + 1
  BY MainParts, Zenon
<1>2. /\ p \in Seq(Outbound) /\ Get(c.outbounds, <<>>) = p
      /\ c.balancers \in Seq(Balancers) /\ Get(c.balancers, <<>>) = c.balancers
  BY ConventionalIs, Zenon
<1> HIDE DEF x, y, p
<1>3. q \in Seq(Outbound) /\ Len(q) = 2
  <2>1. x \in Outbound /\ y \in Outbound
    BY <1>1
  <2> QED
    BY <2>1
<1> HIDE DEF q
<1>4. Len(p \o q) = Len(p) + 2 /\ Len(p) \in Nat
  <2>1. p \in Seq(Outbound)
    BY <1>2
  <2>2. q \in Seq(Outbound)
    BY <1>3
  <2>3. Len(p \o q) = Len(p) + Len(q) /\ Len(p) \in Nat
    BY <2>1, <2>2, LenConcat
  <2> QED
    BY <2>3, <1>3
<1>5. Len(c.balancers) \in Nat
  BY <1>2
<1>6. Longest(Tidied(e)) = Longest(e)
  BY <1>1, WalkLen, Zenon
<1>7. Longest(e) = 2 + Len(p \o q) + Len(Get(e.balancers, <<>>))
  BY <1>1 DEF Longest
<1>8. Longest(c) = 2 + Len(p) + Len(c.balancers)
  BY <1>2 DEF Longest
<1> QED
  <2>1. Longest(Tidied(e)) = 2 + (Len(p) + 2) + (Len(c.balancers) + 1)
    BY <1>1, <1>4, <1>6, <1>7, Zenon
  <2> DEFINE k == Len(p)
             l == Len(c.balancers)
  <2>2. k \in Nat /\ l \in Nat
    BY <1>4, <1>5
  <2> HIDE DEF k, l
  <2>3. 2 + (k + 2) + (l + 1) = (2 + k + l) + 3 /\ 2 + k + l \in Nat
    BY <2>2
  <2> QED
    BY <1>8, <2>1, <2>3, Zenon DEF k, l

\* A main configuration of an upstream whose chain does not come to the third
\* loopback: our outbound is in it, but not in the chain.
LEMMA WholeAside ==
    ASSUME NEW c \in Config, Conventional(c), NEW ob \in Outbound, ob.protocol = "proxy",
           <<"outbound", Loopback(3)>> \notin ToSet(Walk(c, TRUE))
    PROVE  WholeChain(Tidied(WithFallback(c, ob)), Chain(c, TRUE), FALSE)
<1> DEFINE e == WithFallback(c, ob)
           w == Walk(c, TRUE)
<1>1. e \in Config /\ Keeps(c, e, 1 .. 2)
  BY MainParts, MainKeeps, Zenon
<1>2. \A i \in 1 .. Longest(c) : \A n \in 1 .. 3 : w[i] = <<"outbound", Loopback(n)>> => n \in 1 .. 2
  <2> SUFFICES ASSUME NEW i \in 1 .. Longest(c), NEW n \in 1 .. 3,
                      w[i] = <<"outbound", Loopback(n)>>
               PROVE  n \in 1 .. 2
    BY Zenon
  <2>1. w[i] \in ToSet(w)
    <3>1. DOMAIN w = 1 .. Longest(c)
      BY WalkIs, Zenon
    <3> QED
      BY <3>1, Zenon DEF ToSet
  <2>2. n # 3
    BY <2>1, Zenon
  <2> QED
    BY <2>2
<1>3. Longest(c) <= Longest(Tidied(e))
  <2>1. Longest(Tidied(e)) = Longest(c) + 3 /\ Longest(c) \in Nat
    BY MainLonger, Zenon
  <2> QED
    BY <2>1
<1> HIDE DEF e
<1>4. /\ Last(Walk(Tidied(e), FALSE)) = End
      /\ Chain(Tidied(e), FALSE) = Chain(c, TRUE)
  BY <1>1, <1>2, <1>3, ChainsAlike, Zenon
<1> DEFINE chain == Chain(c, TRUE)
<1>5. chain \o <<>> = chain
  BY ChainType, Zenon
<1> HIDE DEF chain
<1> QED
  BY <1>4, <1>5 DEF WholeChain, chain, e

\* A main configuration of an upstream whose chain comes to the third loopback:
\* our outbound is behind the last one of that chain.
LEMMA WholeBehind ==
    ASSUME NEW c \in Config, Conventional(c), Foreign(c),
           NEW ob \in Outbound, ob.protocol = "proxy", ob.source # 0,
           <<"outbound", Loopback(3)>> \in ToSet(Walk(c, TRUE))
    PROVE  WholeChain(Tidied(WithFallback(c, ob)), Chain(c, TRUE), TRUE)
<1> DEFINE e == WithFallback(c, ob)
           d == Tidied(e)
           w == Walk(c, TRUE)
           v == Walk(d, FALSE)
           L == Longest(c)
           M == Longest(d)
           third == <<"outbound", Loopback(3)>>
           proxy == <<"outbound", Fallback(3)>>
           balancer == <<"balancer", BalancerFallback(3)>>
           fourth == <<"outbound", Loopback(4)>>
           our == <<"outbound", OurFallback>>
           Fc(t) == Following(c, t, TRUE)
           Fd(t) == Following(d, t, FALSE)
           T == {i \in 1 .. L : w[i] = third}
<1>1. e \in Config /\ Keeps(c, e, 1 .. 2)
  BY MainParts, MainKeeps, Zenon
<1>2. d \in Config
  BY <1>1, TidiedIs, ListedFields, Zenon
<1>3. M = L + 3 /\ L \in Nat
  BY MainLonger, Zenon
<1>4. /\ L >= 2 /\ DOMAIN w = 1 .. L
      /\ \A n \in 1 .. L - 1 : w[n + 1] = Fc(w[n])
  BY WalkIs, Zenon
<1>5. \A n \in 1 .. M - 1 : v[n + 1] = Fd(v[n])
  BY <1>2, WalkIs, Zenon
<1>6. w[L] = End
  BY WalkLast, Zenon DEF Conventional
<1>7. /\ third # End /\ proxy # End
  BY DEF End
<1>8. PICK p \in T : \A i \in T : p <= i
  <2>1. third \in ToSet(w)
    BY Zenon
  <2> HIDE DEF w, L, third
  <2>2. T # {}
    BY <1>4, <2>1, Zenon DEF ToSet
  <2>3. T \subseteq Nat
    BY <1>3
  <2> HIDE DEF T
  <2> QED
    BY <2>2, <2>3, Least, Zenon
<1>9. Known(c, third)
  BY <1>8, KnownWalk, Zenon
<1>10. /\ Fc(third) = proxy /\ Fc(proxy) = End
       /\ Fd(third) = balancer /\ Fd(balancer) = fourth /\ Fd(fourth) = our /\ Fd(our) = End
  BY <1>9, MainTurns, Zenon
<1>11. \A i \in 1 .. p - 1 : \A n \in 1 .. 3 : w[i] = <<"outbound", Loopback(n)>> => n \in 1 .. 2
  <2> SUFFICES ASSUME NEW i \in 1 .. p - 1, NEW n \in 1 .. 3, w[i] = <<"outbound", Loopback(n)>>
               PROVE  n \in 1 .. 2
    BY Zenon
  <2> HIDE DEF w, L
  <2>1. i \in 1 .. L /\ ~ (p <= i)
    BY <1>3, <1>8
  <2>2. n # 3
    BY <1>8, <2>1, Zenon
  <2> QED
    BY <2>2
<1>12. \A i \in 1 .. p : v[i] = w[i]
  <2>1. p \in Nat /\ p <= L /\ p <= M
    <3> HIDE DEF w, L, M
    <3> QED
      BY <1>3, <1>8
  <2> QED
    BY <1>1, <1>11, <2>1, WalksAlike, Zenon
<1>13. \A i \in 1 .. p : Visited(d, v[i]) = Visited(c, w[i])
  <2> SUFFICES ASSUME NEW i \in 1 .. p PROVE Visited(d, v[i]) = Visited(c, w[i])
    BY Zenon
  <2>1. i \in 1 .. L
    <3> HIDE DEF w, L
    <3> QED
      BY <1>3, <1>8
  <2>2. Known(c, w[i])
    BY <2>1, KnownWalk, Zenon
  <2>3. Visited(d, w[i]) = Visited(e, w[i])
    BY <1>1, TidiedLooks, Zenon
  <2>4. Visited(e, w[i]) = Visited(c, w[i])
    BY <1>1, <2>2, Zenon DEF Keeps
  <2> QED
    BY <1>12, <2>3, <2>4, Zenon
<1>14. /\ Visited(d, balancer) = Visited(c, proxy) /\ Visited(d, fourth) = <<>>
       /\ Visited(d, our) = <<Given(ob)>> /\ Own(d) = <<Given(ob)>>
  BY MainMeets, Zenon
<1>15. PICK g : Sums(Outbound, Met(c, TRUE), g) /\ Chain(c, TRUE) = g[L]
  BY ChainIs, Zenon
<1>16. PICK h : Sums(Outbound, Met(d, FALSE), h) /\ Chain(d, FALSE) = h[M]
  BY <1>2, ChainIs, Zenon
<1>17. /\ Len(Met(c, TRUE)) = L /\ Len(Met(d, FALSE)) = M
       /\ \A i \in 1 .. L : Met(c, TRUE)[i] = Visited(c, w[i])
       /\ \A i \in 1 .. M : Met(d, FALSE)[i] = Visited(d, v[i])
  BY <1>2, ChainIs, Zenon DEF Met
<1>18. Visited(c, proxy) \in Seq(Outbound) /\ Given(ob) \in Outbound
  BY VisitedIs, MainParts, Zenon
<1>19. /\ Last(v) = v[M]
  BY <1>2, WalkLast, Zenon
<1> HIDE DEF e, d, w, v, L, M, third, proxy, balancer, fourth, our, Fc, Fd
<1>20. p \in 1 .. L /\ w[p] = third
  BY <1>8
<1>21. p \in 1 .. L - 1 /\ w[p + 1] = proxy
  <2>1. p # L
    BY <1>6, <1>7, <1>20
  <2>2. p \in 1 .. L - 1
    BY <1>3, <1>20, <2>1
  <2> QED
    BY <1>4, <1>10, <1>20, <2>2, Zenon
<1>22. p + 1 \in 1 .. L - 1 /\ w[(p + 1) + 1] = End
  <2>1. p + 1 # L
    BY <1>6, <1>7, <1>21
  <2>2. p + 1 \in 1 .. L - 1
    BY <1>3, <1>20, <1>21, <2>1
  <2> QED
    BY <1>4, <1>10, <1>21, <2>2, Zenon
<1>23. /\ p \in 1 .. M - 1 /\ p + 1 \in 1 .. M - 1 /\ p + 2 \in 1 .. M - 1 /\ p + 3 \in 1 .. M - 1
       /\ (p + 1) + 1 = p + 2 /\ (p + 2) + 1 = p + 3 /\ (p + 3) + 1 = p + 4
       /\ p \in 1 .. p
  BY <1>3, <1>20, <1>22
<1>24. v[p + 1] = balancer /\ v[p + 2] = fourth /\ v[p + 3] = our /\ v[p + 4] = End
  <2>1. v[p] = third
    BY <1>12, <1>20, <1>23, Zenon
  <2>2. v[p + 1] = balancer
    BY <1>5, <1>10, <1>23, <2>1, Zenon
  <2>3. v[p + 2] = fourth
    BY <1>5, <1>10, <1>23, <2>2, Zenon
  <2>4. v[p + 3] = our
    BY <1>5, <1>10, <1>23, <2>3, Zenon
  <2> QED
    BY <1>5, <1>10, <1>23, <2>2, <2>3, <2>4, Zenon
<1>25. Last(v) = End
  <2>1. p + 4 \in 1 .. M /\ M \in p + 4 .. M
    BY <1>3, <1>20, <1>23
  <2> QED
    BY <1>2, <1>19, <1>24, <2>1, WalkEnded, Zenon DEF v, M
<1>26. g[L] = g[p + 1]
  <2>1. p + 1 \in 0 .. L - 1
    BY <1>3, <1>22
  <2> QED
    BY <1>15, <1>22, <2>1, ChainEnded, Zenon DEF w, L
<1>27. h[M] = h[p + 3]
  <2>1. p + 3 \in 0 .. M - 1
    BY <1>3, <1>23
  <2> QED
    BY <1>2, <1>16, <1>23, <1>24, <2>1, ChainEnded, Zenon DEF v, M
<1> DEFINE a == Met(c, TRUE)
           b == Met(d, FALSE)
<1>28. Sums(Outbound, a, g) /\ Sums(Outbound, b, h) /\ Len(a) = L /\ Len(b) = M
  BY <1>15, <1>16, <1>17, Zenon
<1>29. a[p + 1] = Visited(c, proxy)
  <2>1. p + 1 \in 1 .. L
    BY <1>3, <1>22
  <2> QED
    BY <1>17, <1>21, <2>1, Zenon
<1>30. b[p + 1] = Visited(c, proxy) /\ b[p + 2] = <<>> /\ b[p + 3] = <<Given(ob)>>
  <2>1. p + 1 \in 1 .. M /\ p + 2 \in 1 .. M /\ p + 3 \in 1 .. M
    BY <1>3, <1>23
  <2> QED
    BY <1>14, <1>17, <1>24, <2>1, Zenon
<1>31. \A i \in 1 .. p : a[i] = b[i]
  <2>1. \A i \in 1 .. p : i \in 1 .. L /\ i \in 1 .. M
    BY <1>3, <1>20
  <2> QED
    BY <1>13, <1>17, <2>1, Zenon
<1> HIDE DEF a, b
<1>32. g[p] = h[p]
  <2>1. p \in Nat /\ p <= Len(a) /\ p <= Len(b) /\ Len(a) \in Nat /\ Len(b) \in Nat
    BY <1>3, <1>20, <1>28
  <2> QED
    BY <1>28, <1>31, <2>1, SumsAgree
<1>33. /\ p \in 0 .. L /\ p + 1 \in 1 .. L /\ (p + 1) - 1 = p
       /\ p + 1 \in 1 .. M /\ p + 2 \in 1 .. M /\ p + 3 \in 1 .. M
       /\ (p + 2) - 1 = p + 1 /\ (p + 3) - 1 = p + 2
  BY <1>3, <1>20, <1>22
<1>34. /\ g[p] \in Seq(Outbound) /\ g[p + 1] = g[p] \o Visited(c, proxy)
  BY <1>28, <1>29, <1>33, Zenon DEF Sums
<1>35. /\ h[p + 1] = h[p] \o Visited(c, proxy)
       /\ h[p + 2] = h[p + 1] \o <<>>
       /\ h[p + 3] = h[p + 2] \o <<Given(ob)>>
  BY <1>28, <1>30, <1>33, Zenon DEF Sums
<1>36. h[p + 3] = g[p + 1] \o <<Given(ob)>>
  <2> DEFINE r == g[p + 1]
  <2>1. r \in Seq(Outbound)
    BY <1>18, <1>34
  <2>2. h[p + 1] = r
    BY <1>32, <1>34, <1>35
  <2> HIDE DEF r
  <2>3. r \o <<>> = r
    BY <2>1
  <2> QED
    BY <1>35, <2>2, <2>3 DEF r
<1>37. Chain(d, FALSE) = Chain(c, TRUE) \o Own(d)
  BY <1>14, <1>15, <1>16, <1>26, <1>27, <1>36, Zenon
<1> QED
  BY <1>25, <1>37, Zenon DEF WholeChain, v, d, e

-----------------------------------------------------------------------------
\* The chain of a reserve configuration.

TopBalancer == Balancer(BalancerTop, {Top}, Loopback(1))

SlotBalancer(j) == Balancer(BalancerCustom(j), {Custom(j)}, Loopback(j + 1))

\* The rule for the traffic of loopback j, the last of l loopbacks or another one.
SlotRule(j, l) == IF j < l THEN Rule({LoopTag(j)}, Null, BalancerCustom(j))
                  ELSE Rule({LoopTag(j)}, Custom(j), Null)

\* n of our outbounds, the ones after the first k.
Slots(n, k) == [j \in 1 .. n |-> Proxy(Custom(j), k + j)]

\* The outbounds of n slots and l loopbacks, and nothing else that has to do with
\* the chain.
LinkedOutbounds(obs, top, n, l, k) ==
    /\ \A ob \in ToSet(obs) :
          ob.protocol = "loopback" \/ (\E j \in 1 .. 4 : ob.tag = Loopback(j))
                => \E j \in 1 .. l : ob = LoopbackOutbound(j)
    /\ \A j \in 1 .. l : LoopbackOutbound(j) \in ToSet(obs)
    /\ \A ob \in ToSet(obs) : \A j \in n + 1 .. 4 : ob.tag # Custom(j)
    /\ Len(obs) >= n + l
    /\ Filter(obs, Plain({Top})) = top
    /\ \A j \in 1 .. n : Filter(obs, Plain({Custom(j)})) = <<Proxy(Custom(j), k + j)>>
    /\ Filter(obs, Ours) = Slots(n, k)

\* The balancers and the loop rules that belong to them.
LinkedRules(balancers, rules, n, l) ==
    /\ balancers = {TopBalancer} \cup {SlotBalancer(j) : j \in 1 .. l - 1}
    /\ rules = {SlotRule(j, l) : j \in 1 .. n}

LEMMA ChainTags ==
    /\ \A n \in Nat : /\ Custom(n) # Top /\ Loopback(n) # Top
                      /\ LoopbackOutbound(n).tag = Loopback(n)
                      /\ LoopbackOutbound(n).inboundTag = LoopTag(n)
                      /\ LoopbackOutbound(n).protocol = "loopback"
                      /\ LoopbackOutbound(n).source = 0
                      /\ LoopbackOutbound(n) \in Outbound /\ IsSpecial(LoopbackOutbound(n))
                      /\ LoopTag(n) # Null /\ Loopback(n) # Null /\ BalancerCustom(n) # Null
    /\ \A i, j \in Nat : /\ Custom(i) # Loopback(j)
                         /\ BalancerTop # BalancerCustom(i)
                         /\ i # j => /\ Custom(i) # Custom(j)
                                     /\ Loopback(i) # Loopback(j) /\ LoopTag(i) # LoopTag(j)
                                     /\ BalancerCustom(i) # BalancerCustom(j)
    /\ \A n, i \in Nat : LET x == Proxy(Custom(n), i)
                         IN  /\ x \in Outbound /\ x.tag = Custom(n) /\ x.protocol = "proxy"
                             /\ x.source = i /\ ~IsSpecial(x)
<1>1. ASSUME NEW n \in Nat
      PROVE  /\ LoopTag(n) # Null /\ Loopback(n) # Null /\ BalancerCustom(n) # Null
             /\ LoopbackOutbound(n) \in Outbound
  BY MadeTypes, NullTag, Zenon
<1>2. ASSUME NEW n \in Nat
      PROVE  /\ Custom(n) # Top /\ Loopback(n) # Top
             /\ LoopbackOutbound(n).tag = Loopback(n)
             /\ LoopbackOutbound(n).inboundTag = LoopTag(n)
             /\ LoopbackOutbound(n).protocol = "loopback"
             /\ LoopbackOutbound(n).source = 0
             /\ IsSpecial(LoopbackOutbound(n))
  BY DEF LoopbackOutbound, IsSpecial, Custom, Loopback, Top
<1>3. \A i, j \in Nat : i # j => LoopTag(i) # LoopTag(j)
  BY DEF LoopTag
<1>4. ASSUME NEW n \in Nat, NEW i \in Nat, NEW x, x = Proxy(Custom(n), i)
      PROVE  /\ x \in Outbound /\ x.tag = Custom(n) /\ x.protocol = "proxy"
             /\ x.source = i /\ ~IsSpecial(x)
  <2>1. Custom(n) \in Tag /\ Null \in Optional(Tag) /\ "proxy" \in Protocols
    BY MadeTypes DEF Optional, Protocols
  <2>2. x \in Outbound
    BY <1>4, <2>1 DEF Proxy, Outbound
  <2> QED
    BY <1>4, <2>2 DEF Proxy, IsSpecial
<1> QED
  BY <1>1, <1>2, <1>3, <1>4, NewTags, Zenon

LEMMA SlotsMore ==
    ASSUME NEW n \in Nat, NEW k \in Nat
    PROVE  Append(Slots(n, k), Proxy(Custom(n + 1), k + (n + 1))) = Slots(n + 1, k)
<1> DEFINE F(j) == Proxy(Custom(j), k + j)
           f == [j \in 1 .. n |-> F(j)]
<1> HIDE DEF F
<1>1. Append(f, F(n + 1)) = [j \in 1 .. n + 1 |-> F(j)]
  OBVIOUS
<1> QED
  BY <1>1, Zenon DEF Slots, F

\* One slot more.
LEMMA LinkSlot ==
    ASSUME NEW obs \in Seq(Outbound), NEW top, NEW n \in 0 .. 3, NEW k \in Nat,
           LinkedOutbounds(obs, top, n, n + 1, k),
           NEW x, x = Proxy(Custom(n + 1), k + (n + 1)), NEW r, r = Append(obs, x)
    PROVE  r \in Seq(Outbound) /\ LinkedOutbounds(r, top, n + 1, n + 1, k)
<1>1. /\ n \in Nat /\ n + 1 \in Nat /\ k + (n + 1) \in Nat /\ k + (n + 1) # 0 /\ n + 1 \in 1 .. 4
  OBVIOUS
<1>2. /\ x \in Outbound /\ x.tag = Custom(n + 1) /\ x.protocol = "proxy"
      /\ x.source = k + (n + 1) /\ ~IsSpecial(x)
  BY <1>1, ChainTags, Zenon
<1>3. r \in Seq(Outbound) /\ Len(r) = Len(obs) + 1 /\ Len(obs) \in Nat
      /\ ToSet(r) = ToSet(obs) \cup {x}
  <2>1. r \in Seq(Outbound) /\ ToSet(r) = ToSet(obs) \cup {x}
    BY <1>2, AppendRange
  <2>2. Len(r) = Len(obs) + 1 /\ Len(obs) \in Nat
    BY <1>2, LenAppend
  <2> QED
    BY <2>1, <2>2
<1>4. \A V : /\ x \in V => Filter(r, V) = Append(Filter(obs, V), x)
             /\ x \notin V => Filter(r, V) = Filter(obs, V)
  <2> TAKE V
  <2>1. x \in V => Filter(Append(obs, x), V) = Append(Filter(obs, V), x)
    BY <1>2, FilterTakes, Zenon
  <2>2. x \notin V => Filter(Append(obs, x), V) = Filter(obs, V)
    BY <1>2, FilterSkips, Zenon
  <2> QED
    BY <2>1, <2>2
<1>5. /\ \A ob \in ToSet(obs) :
            ob.protocol = "loopback" \/ (\E j \in 1 .. 4 : ob.tag = Loopback(j))
                  => \E j \in 1 .. n + 1 : ob = LoopbackOutbound(j)
      /\ \A j \in 1 .. n + 1 : LoopbackOutbound(j) \in ToSet(obs)
      /\ \A ob \in ToSet(obs) : \A j \in n + 1 .. 4 : ob.tag # Custom(j)
      /\ Len(obs) >= n + (n + 1)
      /\ Filter(obs, Plain({Top})) = top
      /\ \A j \in 1 .. n : Filter(obs, Plain({Custom(j)})) = <<Proxy(Custom(j), k + j)>>
      /\ Filter(obs, Ours) = Slots(n, k)
  BY Zenon DEF LinkedOutbounds
<1>6. /\ x.protocol # "loopback" /\ \A j \in 1 .. 4 : x.tag # Loopback(j)
  <2>1. \A j \in 1 .. 4 : Custom(n + 1) # Loopback(j)
    BY <1>1, ChainTags
  <2>2. x.protocol # "loopback"
    BY <1>2
  <2> QED
    BY <1>2, <2>1, <2>2
<1>7. \A ob \in ToSet(r) :
         ob.protocol = "loopback" \/ (\E j \in 1 .. 4 : ob.tag = Loopback(j))
               => \E j \in 1 .. n + 1 : ob = LoopbackOutbound(j)
  BY <1>3, <1>5, <1>6, Zenon
<1>8. \A j \in 1 .. n + 1 : LoopbackOutbound(j) \in ToSet(r)
  BY <1>3, <1>5, Zenon
<1>9. \A ob \in ToSet(r) : \A j \in (n + 1) + 1 .. 4 : ob.tag # Custom(j)
  <2> SUFFICES ASSUME NEW ob \in ToSet(r), NEW j \in (n + 1) + 1 .. 4
               PROVE  ob.tag # Custom(j)
    BY Zenon
  <2>1. j \in n + 1 .. 4 /\ j \in Nat /\ j # n + 1
    OBVIOUS
  <2>2. Custom(j) # Custom(n + 1)
    BY <1>1, <2>1, ChainTags, Zenon
  <2> QED
    BY <1>2, <1>3, <1>5, <2>1, <2>2, Zenon
<1>10. Len(r) >= (n + 1) + (n + 1)
  BY <1>3, <1>5
<1>11. Filter(r, Plain({Top})) = top
  <2>1. x \notin Plain({Top})
    <3>1. Custom(n + 1) # Top
      BY <1>1, ChainTags, Zenon
    <3> QED
      BY <1>2, <3>1, Zenon DEF Plain
  <2> QED
    BY <1>4, <1>5, <2>1, Zenon
<1>12. \A j \in 1 .. n + 1 : Filter(r, Plain({Custom(j)})) = <<Proxy(Custom(j), k + j)>>
  <2> SUFFICES ASSUME NEW j \in 1 .. n + 1
               PROVE  Filter(r, Plain({Custom(j)})) = <<Proxy(Custom(j), k + j)>>
    BY Zenon
  <2>1. CASE j = n + 1
    <3>1. x \in Plain({Custom(j)})
      BY <1>2, <2>1, Zenon DEF Plain
    <3>2. Filter(obs, Plain({Custom(j)})) = <<>>
      <4>1. \A i \in 1 .. Len(obs) : obs[i] \in ToSet(obs)
        BY DEF ToSet
      <4>2. j \in n + 1 .. 4
        BY <1>1, <2>1
      <4>3. \A i \in 1 .. Len(obs) : obs[i] \notin Plain({Custom(j)})
        BY <1>5, <4>1, <4>2, Zenon DEF Plain
      <4> QED
        BY <4>3, FilterNone, Zenon
    <3>3. Filter(r, Plain({Custom(j)})) = Append(<<>>, x)
      BY <1>4, <3>1, <3>2, Zenon
    <3>4. Append(<<>>, x) = <<x>>
      OBVIOUS
    <3> QED
      BY <2>1, <3>3, <3>4, Zenon
  <2>2. CASE j # n + 1
    <3>1. j \in 1 .. n /\ j \in Nat
      BY <1>1, <2>2
    <3>2. x \notin Plain({Custom(j)})
      <4>1. Custom(j) # Custom(n + 1)
        BY <1>1, <2>2, <3>1, ChainTags, Zenon
      <4> QED
        BY <1>2, <4>1, Zenon DEF Plain
    <3> QED
      BY <1>4, <1>5, <3>1, <3>2, Zenon
  <2> QED
    BY <2>1, <2>2
<1>13. Filter(r, Ours) = Slots(n + 1, k)
  <2>1. x \in Ours
    BY <1>1, <1>2, Zenon DEF Ours
  <2> QED
    BY <1>1, <1>4, <1>5, <2>1, SlotsMore, Zenon
<1> QED
  BY <1>3, <1>7, <1>8, <1>9, <1>10, <1>11, <1>12, <1>13, Zenon DEF LinkedOutbounds

\* One loopback more.
LEMMA LinkLoopback ==
    ASSUME NEW obs \in Seq(Outbound), NEW top, NEW n \in 0 .. 3, NEW k \in Nat,
           LinkedOutbounds(obs, top, n, n, k),
           NEW r, r = Append(obs, LoopbackOutbound(n + 1))
    PROVE  r \in Seq(Outbound) /\ LinkedOutbounds(r, top, n, n + 1, k)
<1> DEFINE x == LoopbackOutbound(n + 1)
<1>1. n \in Nat /\ n + 1 \in Nat
  OBVIOUS
<1>2. /\ x \in Outbound /\ x.tag = Loopback(n + 1) /\ x.protocol = "loopback"
      /\ x.source = 0 /\ IsSpecial(x)
  BY <1>1, ChainTags, Zenon
<1>3. x = LoopbackOutbound(n + 1)
  OBVIOUS
<1> HIDE DEF x
<1>4. r = Append(obs, x)
  BY <1>3
<1>5. r \in Seq(Outbound) /\ Len(r) = Len(obs) + 1 /\ Len(obs) \in Nat
      /\ ToSet(r) = ToSet(obs) \cup {x}
  <2>1. r \in Seq(Outbound) /\ ToSet(r) = ToSet(obs) \cup {x}
    BY <1>2, <1>4, AppendRange
  <2>2. Len(r) = Len(obs) + 1 /\ Len(obs) \in Nat
    BY <1>2, <1>4, LenAppend
  <2> QED
    BY <2>1, <2>2
<1>6. \A V : x \notin V => Filter(r, V) = Filter(obs, V)
  <2> TAKE V
  <2>1. x \notin V => Filter(Append(obs, x), V) = Filter(obs, V)
    BY <1>2, FilterSkips, Zenon
  <2> QED
    BY <1>4, <2>1
<1>7. /\ \A ob \in ToSet(obs) :
            ob.protocol = "loopback" \/ (\E j \in 1 .. 4 : ob.tag = Loopback(j))
                  => \E j \in 1 .. n : ob = LoopbackOutbound(j)
      /\ \A j \in 1 .. n : LoopbackOutbound(j) \in ToSet(obs)
      /\ \A ob \in ToSet(obs) : \A j \in n + 1 .. 4 : ob.tag # Custom(j)
      /\ Len(obs) >= n + n
      /\ Filter(obs, Plain({Top})) = top
      /\ \A j \in 1 .. n : Filter(obs, Plain({Custom(j)})) = <<Proxy(Custom(j), k + j)>>
      /\ Filter(obs, Ours) = Slots(n, k)
  BY Zenon DEF LinkedOutbounds
<1>8. \A V : (V \subseteq {ob \in Outbound : ~IsSpecial(ob)} \/ V = Ours) => x \notin V
  BY <1>2, Zenon DEF Ours
<1>9. \A V : Plain(V) \subseteq {ob \in Outbound : ~IsSpecial(ob)}
  BY Zenon DEF Plain
<1>10. n + 1 \in 1 .. n + 1 /\ \A j \in 1 .. n : j \in 1 .. n + 1
  BY <1>1
<1>11. \A j \in 1 .. n + 1 : j \in 1 .. n \/ j = n + 1
  BY <1>1
<1>12. \A ob \in ToSet(r) :
          ob.protocol = "loopback" \/ (\E j \in 1 .. 4 : ob.tag = Loopback(j))
                => \E j \in 1 .. n + 1 : ob = LoopbackOutbound(j)
  BY <1>3, <1>5, <1>7, <1>10, Zenon
<1>13. \A j \in 1 .. n + 1 : LoopbackOutbound(j) \in ToSet(r)
  BY <1>3, <1>5, <1>7, <1>11, Zenon
<1>14. \A ob \in ToSet(r) : \A j \in n + 1 .. 4 : ob.tag # Custom(j)
  <2>1. \A j \in n + 1 .. 4 : x.tag # Custom(j)
    <3> SUFFICES ASSUME NEW j \in n + 1 .. 4 PROVE x.tag # Custom(j)
      BY Zenon
    <3>1. j \in Nat
      OBVIOUS
    <3>2. Custom(j) # Loopback(n + 1)
      BY <1>1, <3>1, ChainTags, Zenon
    <3> QED
      BY <1>2, <3>2, Zenon
  <2> QED
    BY <1>5, <1>7, <2>1, Zenon
<1>15. Len(r) >= n + (n + 1)
  BY <1>5, <1>7
<1>16. /\ Filter(r, Plain({Top})) = top
       /\ \A j \in 1 .. n : Filter(r, Plain({Custom(j)})) = <<Proxy(Custom(j), k + j)>>
       /\ Filter(r, Ours) = Slots(n, k)
  BY <1>6, <1>7, <1>8, <1>9, Zenon
<1> QED
  BY <1>5, <1>12, <1>13, <1>14, <1>15, <1>16, Zenon DEF LinkedOutbounds

\* The start of a reserve configuration.
LEMMA LinkStart ==
    ASSUME NEW c \in Config, Conventional(c), Foreign(c), NEW k \in Nat,
           NEW obs, obs = Essentials(c.outbounds)
    PROVE  /\ obs \in Seq(Outbound)
           /\ LinkedOutbounds(obs, Visited(c, <<"balancer", BalancerTop>>), 0, 0, k)
<1> DEFINE p == c.outbounds
           W == {ob \in Outbound : IsEssential(ob)}
           top == Visited(c, <<"balancer", BalancerTop>>)
<1>1. /\ p \in Seq(Outbound) /\ Get(c.outbounds, <<>>) = p /\ Compatible(c)
      /\ c.balancers \in Seq(Balancers) /\ Get(c.balancers, <<>>) = c.balancers
  BY ConventionalIs, Zenon
<1>2. obs \in Seq(Outbound) /\ ToSet(obs) = {ob \in ToSet(p) : IsEssential(ob)}
  BY <1>1, OutboundParts, Zenon
<1>3. /\ \A ob \in ToSet(obs) : /\ \A n \in 1 .. 4 : ob.tag \notin {Custom(n), Loopback(n)}
                                /\ ob.protocol # "loopback"
      /\ \A ob \in ToSet(obs) : ob.source = 0
  <2>1. \A ob \in ToSet(obs) : /\ \A n \in 1 .. 4 : ob.tag \notin {Custom(n), Loopback(n)}
                               /\ ob.protocol # "loopback"
    BY <1>1, <1>2, Zenon DEF Compatible
  <2>2. \A ob \in ToSet(obs) : ob.source = 0
    BY <1>1, <1>2, Zenon DEF Foreign
  <2> QED
    BY <2>1, <2>2
<1>4. obs = Filter(p, W)
  <2> HIDE DEF p
  <2>1. \A i \in DOMAIN p : p[i] \in Outbound
    BY <1>1
  <2>2. {i \in DOMAIN p : IsEssential(p[i])} = {i \in DOMAIN p : p[i] \in W}
    BY <2>1, Zenon
  <2>3. Essentials(p) = Where(p, {i \in DOMAIN p : IsEssential(p[i])})
    BY Zenon DEF Essentials
  <2>4. Filter(p, W) = Where(p, {i \in DOMAIN p : p[i] \in W})
    BY Zenon DEF Filter
  <2>5. obs = Essentials(p)
    BY Zenon DEF p
  <2> QED
    BY <2>2, <2>3, <2>4, <2>5, Zenon
<1>5. Filter(obs, Plain({Top})) = top
  <2> DEFINE V == Plain({Top})
             B == {b \in ToSet(c.balancers) : b.tag = BalancerTop}
             t == <<"balancer", BalancerTop>>
  <2>1. B # {} /\ \A b \in B : b.selector = {Top}
    BY Zenon DEF Conventional
  <2>2. SelectedTags(c, t) = UNION {b.selector : b \in B}
    <3> HIDE DEF B
    <3> QED
      BY <1>1 DEF SelectedTags, B
  <2>3. UNION {b.selector : b \in B} = {Top}
    <3> HIDE DEF B
    <3> QED
      BY <2>1
  <2>4. top = Filter(p, V)
    BY <1>1, <2>2, <2>3, VisitedIs, Zenon
  <2>5. Filter(Filter(p, W), V) = Filter(p, V \cap W)
    <3> HIDE DEF p, W, V
    <3> QED
      BY <1>1, FilterAgain
  <2>6. {i \in DOMAIN p : p[i] \in V \cap W} = {i \in DOMAIN p : p[i] \in V}
    <3>1. \A ob : ob \in V => ob \in W
      <4> SUFFICES ASSUME NEW ob, ob \in V PROVE ob \in W
        BY Zenon
      <4>1. ob \in Outbound /\ ob.tag = Top
        BY Zenon DEF Plain
      <4>2. IsEssential(ob)
        BY <4>1, Zenon DEF IsEssential
      <4> QED
        BY <4>1, <4>2
    <3> HIDE DEF p, W, V
    <3> QED
      BY <3>1, Zenon
  <2>7. Filter(p, V \cap W) = Filter(p, V)
    BY <2>6, Zenon DEF Filter
  <2> QED
    BY <1>4, <2>4, <2>5, <2>7, Zenon
<1>6. Filter(obs, Ours) = Slots(0, k)
  <2>1. \A i \in 1 .. Len(obs) : obs[i] \in ToSet(obs)
    BY <1>2 DEF ToSet
  <2>2. \A i \in 1 .. Len(obs) : obs[i] \notin Ours
    BY <1>3, <2>1, Zenon DEF Ours
  <2>3. Filter(obs, Ours) = <<>>
    BY <1>2, <2>2, FilterNone, Zenon
  <2>4. Slots(0, k) = <<>>
    BY DEF Slots
  <2> QED
    BY <2>3, <2>4
<1>7. Len(obs) >= 0 + 0
  BY <1>2
<1>8. \A j \in 1 .. 0 : FALSE
  OBVIOUS
<1>9. \A j \in 0 + 1 .. 4 : j \in 1 .. 4
  OBVIOUS
<1> HIDE DEF top
<1> QED
  BY <1>2, <1>3, <1>5, <1>6, <1>7, <1>8, <1>9, Zenon DEF LinkedOutbounds, top

LEMMA LinkOpen ==
    ASSUME NEW c \in Config, Conventional(c), Foreign(c), NEW k \in Nat, NEW t, t = Reserve(c)
    PROVE  /\ t \in Listed /\ t.routing
           /\ LinkedOutbounds(t.outbounds, Visited(c, <<"balancer", BalancerTop>>), 0, 1, k)
           /\ LinkedRules(ToSet(Get(t.balancers, <<>>)), {}, 0, 1)
           /\ \A r \in ToSet(Get(t.rules, <<>>)) : ~IsLoopRule(r)
<1> DEFINE tops == TopBalancers(c.balancers)
           obs == Essentials(c.outbounds)
           top == Visited(c, <<"balancer", BalancerTop>>)
           mid == FallingBack(tops, Null)
           bals == FallingBack(mid, Loopback(1))
<1>1. /\ Get(c.outbounds, <<>>) = c.outbounds /\ c.routing
      /\ c.balancers \in Seq(Balancers) /\ Get(c.balancers, <<>>) = c.balancers
      /\ c.rules \in Seq(Rules) /\ Get(c.rules, <<>>) = c.rules
  BY ConventionalIs, Zenon
<1>2. /\ t \in Listed /\ t.outbounds = Append(obs, LoopbackOutbound(1))
      /\ t.routing = c.routing /\ t.balancers = bals /\ t.rules = OtherRules(c.rules)
  BY <1>1, ReserveIs, Zenon
<1>3. obs \in Seq(Outbound) /\ LinkedOutbounds(obs, top, 0, 0, k)
  BY LinkStart, Zenon
<1> HIDE DEF top, obs
<1>4. LinkedOutbounds(t.outbounds, top, 0, 1, k)
  <2> DEFINE z == 0
  <2>1. z \in 0 .. 3 /\ z + 1 = 1
    OBVIOUS
  <2>2. LinkedOutbounds(obs, top, z, z, k) /\ t.outbounds = Append(obs, LoopbackOutbound(z + 1))
    BY <1>2, <1>3
  <2> HIDE DEF z
  <2>3. LinkedOutbounds(t.outbounds, top, z, z + 1, k)
    BY <1>3, <2>1, <2>2, LinkLoopback, Zenon
  <2> QED
    BY <2>1, <2>3 DEF z
<1>5. \A r \in ToSet(Get(t.rules, <<>>)) : ~IsLoopRule(r)
  <2>1. OtherRules(c.rules) \in Seq(Rules)
    BY <1>1, RuleParts, Zenon
  <2>2. \A r \in ToSet(OtherRules(c.rules)) : ~IsLoopRule(r)
    BY <1>1, RuleParts, Zenon
  <2>3. Get(t.rules, <<>>) = t.rules
    BY <1>2, <2>1, NotNull, Zenon DEF Get
  <2> QED
    BY <1>2, <2>2, <2>3, Zenon
<1>6. /\ tops \in Seq(Balancers)
      /\ ToSet(tops) = {b \in ToSet(c.balancers) : b.tag = BalancerTop}
  <2> DEFINE list == c.balancers
             I == {i \in DOMAIN list : list[i].tag = BalancerTop}
  <2> HIDE DEF list
  <2>1. list \in Seq(Balancers)
    BY <1>1 DEF list
  <2>2. TopBalancers(list) \in Seq(Balancers) /\ TopBalancers(list) = Where(list, I)
    BY <2>1, TopType, Zenon DEF TopBalancers
  <2>3. ToSet(Where(list, I)) = {list[i] : i \in DOMAIN list \cap I}
    BY <2>1, WhereRange, Zenon
  <2>4. {list[i] : i \in DOMAIN list \cap I} = {b \in ToSet(list) : b.tag = BalancerTop}
    BY Zenon DEF ToSet
  <2> QED
    BY <2>2, <2>3, <2>4 DEF list
<1>7. /\ \A b \in ToSet(tops) : b.tag = BalancerTop /\ b.selector = {Top}
      /\ ToSet(tops) # {}
  BY <1>6, Zenon DEF Conventional
<1> HIDE DEF tops
<1>8. Null \in Optional(Tag) /\ Loopback(1) \in Optional(Tag)
  BY MadeTypes DEF Optional
<1>9. /\ mid \in Seq(Balancers) /\ Len(mid) = Len(tops)
      /\ \A i \in 1 .. Len(tops) : mid[i] = [tops[i] EXCEPT !.fallbackTag = Null]
  BY <1>6, <1>8, FallingBackType, Zenon
<1> HIDE DEF mid
<1>10. /\ bals \in Seq(Balancers) /\ Len(bals) = Len(mid)
       /\ \A i \in 1 .. Len(mid) : bals[i] = [mid[i] EXCEPT !.fallbackTag = Loopback(1)]
  BY <1>8, <1>9, FallingBackType, Zenon
<1> HIDE DEF bals
<1>11. \A i \in 1 .. Len(bals) : bals[i] = TopBalancer
  <2> SUFFICES ASSUME NEW i \in 1 .. Len(bals) PROVE bals[i] = TopBalancer
    BY Zenon
  <2>1. i \in 1 .. Len(tops) /\ tops[i] \in Balancers /\ tops[i] \in ToSet(tops)
    BY <1>6, <1>9, <1>10 DEF ToSet
  <2>2. tops[i].tag = BalancerTop /\ tops[i].selector = {Top}
    BY <1>7, <2>1, Zenon
  <2>3. bals[i] = [[tops[i] EXCEPT !.fallbackTag = Null] EXCEPT !.fallbackTag = Loopback(1)]
    BY <1>9, <1>10, <2>1
  <2> DEFINE b == tops[i]
  <2>4. b \in [tag : Tag, selector : SUBSET Tag, fallbackTag : Optional(Tag)]
    BY <2>1, Zenon DEF Balancers
  <2> HIDE DEF b
  <2>5. [[b EXCEPT !.fallbackTag = Null] EXCEPT !.fallbackTag = Loopback(1)]
           = [tag |-> b.tag, selector |-> b.selector, fallbackTag |-> Loopback(1)]
    <3> DEFINE z == Loopback(1)
    <3> HIDE DEF z
    <3>1. b = [tag |-> b.tag, selector |-> b.selector, fallbackTag |-> b.fallbackTag]
      BY <2>4
    <3>2. [b EXCEPT !.fallbackTag = Null]
             = [tag |-> b.tag, selector |-> b.selector, fallbackTag |-> Null]
      BY <3>1
    <3>3. [[tag |-> b.tag, selector |-> b.selector, fallbackTag |-> Null] EXCEPT !.fallbackTag = z]
             = [tag |-> b.tag, selector |-> b.selector, fallbackTag |-> z]
      OBVIOUS
    <3> QED
      BY <3>2, <3>3 DEF z
  <2> QED
    BY <2>2, <2>3, <2>5 DEF TopBalancer, Balancer, b
<1>12. 1 \in 1 .. Len(bals) /\ DOMAIN bals = 1 .. Len(bals)
  <2>1. Len(tops) # 0
    BY <1>6, <1>7 DEF ToSet
  <2> QED
    BY <1>6, <1>9, <1>10, <2>1
<1>13. ToSet(bals) = {TopBalancer}
  BY <1>11, <1>12, Zenon DEF ToSet
<1>14. Get(t.balancers, <<>>) = bals
  BY <1>2, <1>10, NotNull, Zenon DEF Get
<1>15. LinkedRules({TopBalancer}, {}, 0, 1)
  BY DEF LinkedRules
<1> QED
  BY <1>1, <1>2, <1>4, <1>5, <1>13, <1>14, <1>15 DEF top

LEMMA LinkRules ==
    ASSUME NEW B, NEW R, NEW n \in 0 .. 3, LinkedRules(B, R, n, n + 1)
    PROVE  /\ LinkedRules(B, R \cup {Rule({LoopTag(n + 1)}, Custom(n + 1), Null)}, n + 1, n + 1)
           /\ LinkedRules(B \cup {SlotBalancer(n + 1)},
                          R \cup {Rule({LoopTag(n + 1)}, Null, BalancerCustom(n + 1))},
                          n + 1, n + 2)
<1>1. B = {TopBalancer} \cup {SlotBalancer(j) : j \in 1 .. (n + 1) - 1}
  BY Zenon DEF LinkedRules
<1>2. R = {SlotRule(j, n + 1) : j \in 1 .. n}
  BY Zenon DEF LinkedRules
<1>3. /\ \A j \in 1 .. n : j \in 1 .. n + 1 /\ j < n + 1 /\ j < n + 2
      /\ n + 1 \in 1 .. n + 1 /\ n + 1 < n + 2 /\ ~ (n + 1 < n + 1)
      /\ \A j \in 1 .. n + 1 : j \in 1 .. n \/ j = n + 1
  OBVIOUS
<1>4. /\ SlotRule(n + 1, n + 1) = Rule({LoopTag(n + 1)}, Custom(n + 1), Null)
      /\ SlotRule(n + 1, n + 2) = Rule({LoopTag(n + 1)}, Null, BalancerCustom(n + 1))
      /\ \A j \in 1 .. n : SlotRule(j, n + 1) = SlotRule(j, n + 2)
  BY <1>3, Zenon DEF SlotRule
<1>5. R \cup {SlotRule(n + 1, n + 1)} = {SlotRule(j, n + 1) : j \in 1 .. n + 1}
  BY <1>2, <1>3, Zenon
<1>6. R \cup {SlotRule(n + 1, n + 2)} = {SlotRule(j, n + 2) : j \in 1 .. n + 1}
  BY <1>2, <1>3, <1>4, Zenon
<1>7. B \cup {SlotBalancer(n + 1)} = {TopBalancer} \cup {SlotBalancer(j) : j \in 1 .. (n + 2) - 1}
  <2>1. (n + 1) - 1 = n /\ (n + 2) - 1 = n + 1
    OBVIOUS
  <2> QED
    BY <1>1, <1>3, <2>1, Zenon
<1> QED
  BY <1>1, <1>4, <1>5, <1>6, <1>7, Zenon DEF LinkedRules

\* What traffic that comes in from loopback j, one of n, is sent to.
SlotTarget(j, n) == IF j < n THEN <<"balancer", BalancerCustom(j)>>
                    ELSE <<"outbound", Custom(j)>>

LEMMA LinkFollows ==
    ASSUME NEW e \in Config, Get(e.outbounds, <<>>) = e.outbounds,
           NEW top, NEW n \in 1 .. 4, NEW k \in Nat, NEW R,
           LinkedOutbounds(e.outbounds, top, n, n, k),
           LinkedRules(ToSet(Get(e.balancers, <<>>)), R, n, n),
           R \subseteq ToSet(Get(e.rules, <<>>)),
           \A q \in ToSet(Get(e.rules, <<>>)) : IsLoopRule(q) => q \in R
    PROVE  LET d == Tidied(e)
           IN  /\ Following(d, <<"balancer", BalancerTop>>, FALSE) = <<"outbound", Loopback(1)>>
               /\ \A j \in 1 .. n :
                     Following(d, <<"outbound", Loopback(j)>>, FALSE) = SlotTarget(j, n)
               /\ \A j \in 1 .. n - 1 :
                     Following(d, SlotTarget(j, n), FALSE) = <<"outbound", Loopback(j + 1)>>
               /\ Following(d, SlotTarget(n, n), FALSE) = End
<1> DEFINE d == Tidied(e)
           obs == ToSet(e.outbounds)
           B == ToSet(Get(e.balancers, <<>>))
           rules == ToSet(Get(e.rules, <<>>))
<1>1. /\ \A ob \in obs :
            ob.protocol = "loopback" \/ (\E j \in 1 .. 4 : ob.tag = Loopback(j))
                  => \E j \in 1 .. n : ob = LoopbackOutbound(j)
      /\ \A j \in 1 .. n : LoopbackOutbound(j) \in obs
  BY Zenon DEF LinkedOutbounds
<1>2. /\ B = {TopBalancer} \cup {SlotBalancer(j) : j \in 1 .. n - 1}
      /\ R = {SlotRule(j, n) : j \in 1 .. n}
  BY Zenon DEF LinkedRules
<1>3. \A tag : /\ Fallbacks(d, tag) = Fallbacks(e, tag)
               /\ LoopTags(d, tag) = LoopTags(e, tag)
  BY TidiedLooks, Zenon
<1>4. /\ TopBalancer.tag = BalancerTop /\ TopBalancer.fallbackTag = Loopback(1)
      /\ \A j \in 1 .. n : /\ SlotBalancer(j).tag = BalancerCustom(j)
                           /\ SlotBalancer(j).fallbackTag = Loopback(j + 1)
  BY DEF TopBalancer, SlotBalancer, Balancer
<1>5. \A j \in 1 .. n : /\ SlotRule(j, n).inboundTag = {LoopTag(j)}
                        /\ j < n => /\ SlotRule(j, n).balancerTag = BalancerCustom(j)
                        /\ ~ (j < n) => /\ SlotRule(j, n).balancerTag = Null
                                        /\ SlotRule(j, n).outboundTag = Custom(j)
  <2> SUFFICES ASSUME NEW j \in 1 .. n
               PROVE  /\ SlotRule(j, n).inboundTag = {LoopTag(j)}
                      /\ j < n => /\ SlotRule(j, n).balancerTag = BalancerCustom(j)
                      /\ ~ (j < n) => /\ SlotRule(j, n).balancerTag = Null
                                      /\ SlotRule(j, n).outboundTag = Custom(j)
    BY Zenon
  <2>1. CASE j < n
    <3>1. SlotRule(j, n) = Rule({LoopTag(j)}, Null, BalancerCustom(j))
      BY <2>1, Zenon DEF SlotRule
    <3> QED
      BY <2>1, <3>1 DEF Rule
  <2>2. CASE ~ (j < n)
    <3>1. SlotRule(j, n) = Rule({LoopTag(j)}, Custom(j), Null)
      BY <2>2, Zenon DEF SlotRule
    <3> QED
      BY <2>2, <3>1 DEF Rule
  <2> QED
    BY <2>1, <2>2
<1>6. /\ \A j \in 1 .. n : j \in Nat /\ j + 1 \in Nat
      /\ \A j \in 1 .. n - 1 : j \in 1 .. n /\ j < n
      /\ n \in 1 .. n /\ ~ (n < n)
      /\ 1 \in Nat
  OBVIOUS
<1> HIDE DEF d, obs, B, rules
\* The balancers.
<1>7. Fallbacks(e, BalancerTop) = {Loopback(1)}
  <2>1. Loopback(1) # Null /\ \A j \in 1 .. n : BalancerTop # BalancerCustom(j)
    BY <1>6, ChainTags, Zenon
  <2>2. {z \in B : z.tag = BalancerTop /\ z.fallbackTag # Null} = {TopBalancer}
    BY <1>2, <1>4, <1>6, <2>1, Zenon
  <2>3. Fallbacks(e, BalancerTop) = {z.fallbackTag : z \in {TopBalancer}}
    BY <2>2, Zenon DEF Fallbacks, B
  <2> QED
    BY <1>4, <2>3
<1>8. ASSUME NEW j \in 1 .. n - 1 PROVE Fallbacks(e, BalancerCustom(j)) = {Loopback(j + 1)}
  <2>1. Loopback(j + 1) # Null /\ BalancerTop # BalancerCustom(j)
    BY <1>6, ChainTags, Zenon
  <2>2. ASSUME NEW i \in 1 .. n, BalancerCustom(i) = BalancerCustom(j) PROVE i = j
    BY <1>6, <2>2, ChainTags, Zenon
  <2>3. {z \in B : z.tag = BalancerCustom(j) /\ z.fallbackTag # Null} = {SlotBalancer(j)}
    <3>1. SlotBalancer(j) \in B /\ SlotBalancer(j).tag = BalancerCustom(j)
          /\ SlotBalancer(j).fallbackTag # Null
      BY <1>2, <1>4, <1>6, <2>1, Zenon
    <3>2. \A z \in B : z.tag = BalancerCustom(j) => z = SlotBalancer(j)
      BY <1>2, <1>4, <1>6, <2>1, <2>2, Zenon
    <3> QED
      BY <3>1, <3>2, Zenon
  <2>4. Fallbacks(e, BalancerCustom(j)) = {z.fallbackTag : z \in {SlotBalancer(j)}}
    BY <2>3, Zenon DEF Fallbacks, B
  <2>5. SlotBalancer(j).fallbackTag = Loopback(j + 1)
    BY <1>4, <1>6, Zenon
  <2> QED
    BY <2>4, <2>5
\* The loopbacks.
<1>9. ASSUME NEW j \in 1 .. n PROVE LoopTags(e, Loopback(j)) = {LoopTag(j)}
  <2> DEFINE x == LoopbackOutbound(j)
  <2>1. x.tag = Loopback(j) /\ x.inboundTag = LoopTag(j) /\ x.protocol = "loopback"
    BY <1>6, ChainTags, Zenon
  <2>2. x \in obs
    BY <1>1, Zenon
  <2>3. ASSUME NEW z \in obs, z.tag = Loopback(j), z.protocol = "loopback" PROVE z = x
    <3>1. PICK i \in 1 .. n : z = LoopbackOutbound(i)
      BY <1>1, <2>3, Zenon
    <3>2. Loopback(i) = Loopback(j)
      BY <1>6, <2>3, <3>1, ChainTags, Zenon
    <3>3. i = j
      BY <1>6, <3>2, ChainTags, Zenon
    <3> QED
      BY <3>1, <3>3
  <2> HIDE DEF x
  <2>4. {z \in obs : z.tag = Loopback(j) /\ z.protocol = "loopback"} = {x}
    BY <2>1, <2>2, <2>3, Zenon
  <2>5. LoopTags(e, Loopback(j)) = {z.inboundTag : z \in {x}}
    BY <2>4, Zenon DEF LoopTags, obs
  <2> QED
    BY <2>1, <2>5
<1>10. LoopTags(e, Custom(n)) = {}
  <2>1. \A z \in obs : z.protocol = "loopback" => z.tag # Custom(n)
    <3> SUFFICES ASSUME NEW z \in obs, z.protocol = "loopback" PROVE z.tag # Custom(n)
      BY Zenon
    <3>1. PICK i \in 1 .. n : z = LoopbackOutbound(i)
      BY <1>1, Zenon
    <3>2. LoopbackOutbound(i).tag = Loopback(i)
      BY <1>6, ChainTags, Zenon
    <3>3. Custom(n) # Loopback(i)
      BY <1>6, ChainTags, Zenon
    <3> QED
      BY <3>1, <3>2, <3>3
  <2>2. {z \in obs : z.tag = Custom(n) /\ z.protocol = "loopback"} = {}
    BY <2>1, Zenon
  <2> QED
    BY <2>2, Zenon DEF LoopTags, obs
<1>11. ASSUME NEW j \in 1 .. n PROVE RuleTarget(d, LoopTag(j), FALSE) = SlotTarget(j, n)
  <2> DEFINE r == SlotRule(j, n)
  <2>1. r \in rules /\ LoopTag(j) \in r.inboundTag
    BY <1>2, <1>5, Zenon DEF rules
  <2>2. ASSUME NEW q \in rules, LoopTag(j) \in q.inboundTag PROVE q = r
    <3>1. IsLoopRule(q)
      <4>1. LoopTag(j)[1] = "loop-tag"
        BY DEF LoopTag
      <4> QED
        BY <2>2, <4>1, Zenon DEF IsLoopRule
    <3>2. PICK i \in 1 .. n : q = SlotRule(i, n)
      BY <1>2, <3>1, Zenon DEF rules
    <3>3. LoopTag(j) = LoopTag(i)
      BY <1>5, <2>2, <3>2, Zenon
    <3>4. i = j
      BY <1>6, <3>3, ChainTags, Zenon
    <3> QED
      BY <3>2, <3>4
  <2>3. RuleTarget(d, LoopTag(j), FALSE) = RuleSends(r)
    BY <2>1, <2>2, TidiedRule, Zenon DEF d, rules
  <2>4. RuleSends(r) = SlotTarget(j, n)
    <3>1. BalancerCustom(j) # Null
      BY <1>6, ChainTags, Zenon
    <3> QED
      BY <1>5, <3>1, Zenon DEF RuleSends, SlotTarget
  <2> QED
    BY <2>3, <2>4
<1>12. Following(d, <<"balancer", BalancerTop>>, FALSE) = <<"outbound", Loopback(1)>>
  <2>1. Fallbacks(d, BalancerTop) = {Loopback(1)}
    BY <1>3, <1>7, Zenon
  <2> QED
    BY <2>1, FollowBalancer, Zenon
<1>13. ASSUME NEW j \in 1 .. n
       PROVE  Following(d, <<"outbound", Loopback(j)>>, FALSE) = SlotTarget(j, n)
  BY <1>3, <1>9, <1>11, FollowOutbound, Zenon
<1>14. ASSUME NEW j \in 1 .. n - 1
       PROVE  Following(d, SlotTarget(j, n), FALSE) = <<"outbound", Loopback(j + 1)>>
  <2>1. SlotTarget(j, n) = <<"balancer", BalancerCustom(j)>>
    BY <1>6, Zenon DEF SlotTarget
  <2>2. Fallbacks(d, BalancerCustom(j)) = {Loopback(j + 1)}
    BY <1>3, <1>8, Zenon
  <2>3. Following(d, <<"balancer", BalancerCustom(j)>>, FALSE) = <<"outbound", Loopback(j + 1)>>
    BY <2>2, FollowBalancer, Zenon
  <2> QED
    BY <2>1, <2>3
<1>15. Following(d, SlotTarget(n, n), FALSE) = End
  <2>1. SlotTarget(n, n) = <<"outbound", Custom(n)>>
    BY <1>6, Zenon DEF SlotTarget
  <2> QED
    BY <1>3, <1>10, <2>1, FollowOutbound, Zenon
<1> QED
  BY <1>12, <1>13, <1>14, <1>15, Zenon DEF d

\* What the targets add to the chain.
LEMMA LinkVisits ==
    ASSUME NEW e \in Config, Get(e.outbounds, <<>>) = e.outbounds,
           NEW top, NEW n \in 1 .. 4, NEW k \in Nat, NEW R,
           LinkedOutbounds(e.outbounds, top, n, n, k),
           LinkedRules(ToSet(Get(e.balancers, <<>>)), R, n, n)
    PROVE  LET d == Tidied(e)
           IN  /\ Visited(d, <<"balancer", BalancerTop>>) = top
               /\ \A j \in 1 .. n :
                     /\ Visited(d, <<"outbound", Loopback(j)>>) = <<>>
                     /\ Visited(d, SlotTarget(j, n)) = <<Proxy(Custom(j), k + j)>>
               /\ Own(d) = Slots(n, k)
<1> DEFINE d == Tidied(e)
           p == e.outbounds
           B == ToSet(Get(e.balancers, <<>>))
           S(t) == SelectedTags(e, t)
<1>1. /\ \A ob \in ToSet(p) :
            ob.protocol = "loopback" \/ (\E j \in 1 .. 4 : ob.tag = Loopback(j))
                  => \E j \in 1 .. n : ob = LoopbackOutbound(j)
      /\ Filter(p, Plain({Top})) = top
      /\ \A j \in 1 .. n : Filter(p, Plain({Custom(j)})) = <<Proxy(Custom(j), k + j)>>
      /\ Filter(p, Ours) = Slots(n, k)
  BY Zenon DEF LinkedOutbounds
<1>2. B = {TopBalancer} \cup {SlotBalancer(j) : j \in 1 .. n - 1}
  BY Zenon DEF LinkedRules
<1>3. \A t : Visited(d, t) = Visited(e, t)
  BY TidiedLooks, Zenon
<1>4. \A t : Visited(e, t) = Filter(p, Plain(S(t)))
  BY VisitedIs, Zenon
<1>5. p \in Seq(Outbound)
  BY ConfigFields, Zenon
<1>6. /\ TopBalancer.tag = BalancerTop /\ TopBalancer.selector = {Top}
      /\ \A j \in 1 .. n : /\ SlotBalancer(j).tag = BalancerCustom(j)
                           /\ SlotBalancer(j).selector = {Custom(j)}
  BY DEF TopBalancer, SlotBalancer, Balancer
<1>7. /\ \A j \in 1 .. n : j \in Nat /\ j \in 1 .. 4
      /\ \A j \in 1 .. n - 1 : j \in 1 .. n
      /\ \A j \in 1 .. n : j < n => j \in 1 .. n - 1
  OBVIOUS
<1>8. ASSUME NEW b, \A z \in B : z.tag = b.tag => z = b, b \in B
      PROVE  S(<<"balancer", b.tag>>) = b.selector
  <2>1. {z \in B : z.tag = b.tag} = {b}
    BY <1>8, Zenon
  <2>2. S(<<"balancer", b.tag>>) = UNION {z.selector : z \in {z \in B : z.tag = b.tag}}
    <3> HIDE DEF B
    <3> QED
      BY DEF SelectedTags, B
  <2>3. UNION {z.selector : z \in {b}} = b.selector
    BY Zenon
  <2> QED
    BY <2>1, <2>2, <2>3, Zenon
<1>9. \A tag : S(<<"outbound", tag>>) = {tag}
  BY DEF SelectedTags
<1> HIDE DEF d, B, S, p
<1>10. Visited(d, <<"balancer", BalancerTop>>) = top
  <2>1. \A j \in 1 .. n : BalancerTop # BalancerCustom(j)
    BY <1>7, ChainTags, Zenon
  <2>2. TopBalancer \in B /\ \A z \in B : z.tag = BalancerTop => z = TopBalancer
    BY <1>2, <1>6, <1>7, <2>1, Zenon
  <2>3. S(<<"balancer", BalancerTop>>) = {Top}
    BY <1>6, <1>8, <2>2, Zenon
  <2> QED
    BY <1>1, <1>3, <1>4, <2>3, Zenon
<1>11. ASSUME NEW j \in 1 .. n PROVE Visited(d, <<"outbound", Loopback(j)>>) = <<>>
  <2>1. ASSUME NEW ob \in ToSet(p) PROVE ob \notin Plain({Loopback(j)})
    <3> SUFFICES ASSUME ob.tag = Loopback(j) PROVE IsSpecial(ob)
      BY Zenon DEF Plain
    <3>1. PICK i \in 1 .. n : ob = LoopbackOutbound(i)
      BY <1>1, <1>7, Zenon
    <3> QED
      BY <1>7, <3>1, ChainTags, Zenon
  <2>2. \A i \in 1 .. Len(p) : p[i] \in ToSet(p)
    BY <1>5 DEF ToSet
  <2>3. \A i \in 1 .. Len(p) : p[i] \notin Plain({Loopback(j)})
    BY <2>1, <2>2, Zenon
  <2>4. Filter(p, Plain({Loopback(j)})) = <<>>
    BY <1>5, <2>3, FilterNone, Zenon
  <2> QED
    BY <1>3, <1>4, <1>9, <2>4, Zenon
<1>12. ASSUME NEW j \in 1 .. n
       PROVE  Visited(d, SlotTarget(j, n)) = <<Proxy(Custom(j), k + j)>>
  <2>1. S(SlotTarget(j, n)) = {Custom(j)}
    <3>1. CASE j < n
      <4>1. \A i \in 1 .. n : BalancerCustom(i) = BalancerCustom(j) => i = j
        BY <1>7, ChainTags, Zenon
      <4>2. BalancerTop # BalancerCustom(j)
        BY <1>7, ChainTags, Zenon
      <4>3. /\ SlotBalancer(j) \in B
            /\ \A z \in B : z.tag = BalancerCustom(j) => z = SlotBalancer(j)
        BY <1>2, <1>6, <1>7, <3>1, <4>1, <4>2, Zenon
      <4>4. S(<<"balancer", BalancerCustom(j)>>) = {Custom(j)}
        BY <1>6, <1>8, <4>3, Zenon
      <4> QED
        BY <3>1, <4>4, Zenon DEF SlotTarget
    <3>2. CASE ~ (j < n)
      BY <1>9, <3>2, Zenon DEF SlotTarget
    <3> QED
      BY <3>1, <3>2
  <2> QED
    BY <1>1, <1>3, <1>4, <2>1, Zenon
<1>13. Own(d) = Slots(n, k)
  <2>1. ASSUME NEW ob \in ToSet(p), ob.source # 0 PROVE ob.protocol = "proxy"
    <3>1. PICK i \in 1 .. Len(p) : p[i] = ob
      BY <1>5, <2>1 DEF ToSet
    <3>2. ob \in ToSet(Filter(p, Ours))
      <4>1. ob \in Ours
        <5>1. ob \in Outbound
          BY <1>5, <3>1
        <5> QED
          BY <2>1, <5>1, Zenon DEF Ours
      <4> DEFINE I == {m \in DOMAIN p : p[m] \in Ours}
      <4>2. ToSet(Filter(p, Ours)) = {p[m] : m \in DOMAIN p \cap I}
        BY <1>5, WhereRange, Zenon DEF Filter
      <4>3. i \in DOMAIN p
        BY <1>5
      <4> QED
        BY <3>1, <4>1, <4>2, <4>3, Zenon
    <3>3. PICK j \in 1 .. n : ob = Proxy(Custom(j), k + j)
      BY <1>1, <3>2, Zenon DEF Slots, ToSet
    <3>4. k + j \in Nat
      BY <1>7
    <3> QED
      BY <1>7, <3>3, <3>4, ChainTags, Zenon
  <2>2. Own(d) = Filter(p, Ours)
    BY <2>1, OwnTidied, Zenon DEF d, p
  <2> QED
    BY <1>1, <2>2, Zenon
<1> QED
  BY <1>10, <1>11, <1>12, <1>13, Zenon DEF d

LEMMA LinkLonger ==
    ASSUME NEW e \in Config, Get(e.outbounds, <<>>) = e.outbounds,
           NEW n \in Nat, Len(e.outbounds) >= n + n
    PROVE  Longest(Tidied(e)) \in Nat /\ 2 * n + 2 <= Longest(Tidied(e))
<1>1. e.outbounds \in Seq(Outbound) /\ Get(e.balancers, <<>>) \in Seq(Balancers)
  BY ConfigFields
<1>2. Len(e.outbounds) \in Nat /\ Len(Get(e.balancers, <<>>)) \in Nat
  BY <1>1
<1>3. Longest(Tidied(e)) = 2 + Len(e.outbounds) + Len(Get(e.balancers, <<>>))
  BY WalkLen DEF Longest
<1> DEFINE a == Len(e.outbounds)
           b == Len(Get(e.balancers, <<>>))
<1>4. a \in Nat /\ b \in Nat /\ a >= n + n
  BY <1>2
<1> HIDE DEF a, b
<1>5. 2 + a + b \in Nat /\ 2 * n + 2 <= 2 + a + b
  BY <1>4
<1> QED
  BY <1>3, <1>5 DEF a, b

\* A finished reserve configuration: its chain is the first balancer's outbounds
\* and all of ours, in order.
LEMMA LinkWhole ==
    ASSUME NEW e \in Config, Get(e.outbounds, <<>>) = e.outbounds,
           NEW top \in Seq(Outbound), NEW n \in 1 .. 4, NEW k \in Nat, NEW R,
           LinkedOutbounds(e.outbounds, top, n, n, k),
           LinkedRules(ToSet(Get(e.balancers, <<>>)), R, n, n),
           R \subseteq ToSet(Get(e.rules, <<>>)),
           \A q \in ToSet(Get(e.rules, <<>>)) : IsLoopRule(q) => q \in R
    PROVE  WholeChain(Tidied(e), top, TRUE)
<1> DEFINE d == Tidied(e)
           v == Walk(d, FALSE)
           M == Longest(d)
           F(t) == Following(d, t, FALSE)
           X(j) == Proxy(Custom(j), k + j)
           first == <<"balancer", BalancerTop>>
           loop(j) == <<"outbound", Loopback(j)>>
           target(j) == SlotTarget(j, n)
<1>1. d \in Config
  BY TidiedIs, ListedFields, Zenon
<1>2. M \in Nat /\ 2 * n + 2 <= M
  <2>1. Len(e.outbounds) >= n + n
    BY Zenon DEF LinkedOutbounds
  <2>2. n \in Nat
    OBVIOUS
  <2> QED
    BY <2>1, <2>2, LinkLonger, Zenon
<1>3. /\ v[1] = first
      /\ \A m \in 1 .. M - 1 : v[m + 1] = F(v[m])
  BY <1>1, WalkIs, Zenon
<1>4. /\ F(first) = loop(1)
      /\ \A j \in 1 .. n : F(loop(j)) = target(j)
      /\ \A j \in 1 .. n - 1 : F(target(j)) = loop(j + 1)
      /\ F(target(n)) = End
  BY LinkFollows, Zenon
<1>5. /\ Visited(d, first) = top
      /\ \A j \in 1 .. n : Visited(d, loop(j)) = <<>> /\ Visited(d, target(j)) = <<X(j)>>
      /\ Own(d) = Slots(n, k)
  BY LinkVisits, Zenon
<1>6. PICK h : Sums(Outbound, Met(d, FALSE), h) /\ Chain(d, FALSE) = h[M]
  BY <1>1, ChainIs, Zenon
<1>7. /\ Len(Met(d, FALSE)) = M
      /\ \A i \in 1 .. M : Met(d, FALSE)[i] = Visited(d, v[i])
  BY <1>1, ChainIs, Zenon DEF Met
<1>8. Last(v) = v[M]
  BY <1>1, WalkLast, Zenon
<1>9. \A j \in 1 .. n : X(j) \in Outbound /\ j \in Nat
  <2> SUFFICES ASSUME NEW j \in 1 .. n PROVE X(j) \in Outbound /\ j \in Nat
    OBVIOUS
  <2>1. j \in Nat /\ k + j \in Nat
    OBVIOUS
  <2> QED
    BY <2>1, ChainTags, Zenon
<1>10. \A j \in 1 .. n : Append(Slots(j - 1, k), X(j)) = Slots(j, k)
  <2> SUFFICES ASSUME NEW j \in 1 .. n PROVE Append(Slots(j - 1, k), X(j)) = Slots(j, k)
    OBVIOUS
  <2>1. j - 1 \in Nat /\ (j - 1) + 1 = j
    OBVIOUS
  <2> QED
    BY <2>1, SlotsMore, Zenon
<1> HIDE DEF d, v, M, F, X, first, loop, target
\* The walk.
<1> DEFINE P(j) == v[2 * j] = loop(j) /\ v[2 * j + 1] = target(j)
           T == {j \in 1 .. n : ~ P(j)}
<1>11. \A j \in 1 .. n : v[2 * j] = loop(j) => P(j)
  <2> SUFFICES ASSUME NEW j \in 1 .. n, v[2 * j] = loop(j) PROVE v[2 * j + 1] = target(j)
    OBVIOUS
  <2>1. 2 * j \in 1 .. M - 1
    BY <1>2
  <2> QED
    BY <1>3, <1>4, <2>1, Zenon
<1>12. v[2] = loop(1)
  <2>1. 1 \in 1 .. M - 1 /\ 1 + 1 = 2
    BY <1>2
  <2> QED
    BY <1>3, <1>4, <2>1, Zenon
<1>13. ASSUME NEW j \in 1 .. n - 1, P(j) PROVE P(j + 1)
  <2>1. 2 * j + 1 \in 1 .. M - 1 /\ (2 * j + 1) + 1 = 2 * (j + 1) /\ j + 1 \in 1 .. n
    BY <1>2
  <2>2. v[(2 * j + 1) + 1] = F(v[2 * j + 1])
    BY <1>3, <2>1, Zenon
  <2>3. v[2 * (j + 1)] = loop(j + 1)
    BY <1>4, <1>13, <2>1, <2>2, Zenon
  <2> QED
    BY <1>11, <2>1, <2>3, Zenon
<1>14. \A j \in 1 .. n : P(j)
  <2>1. SUFFICES ASSUME T # {} PROVE FALSE
    BY Zenon
  <2>2. T \subseteq Nat
    OBVIOUS
  <2> HIDE DEF P
  <2>3. PICK j \in T : \A i \in T : j <= i
    BY <2>1, <2>2, Least, Zenon
  <2>4. j \in 1 .. n /\ ~ P(j)
    BY <2>3
  <2>5. CASE j = 1
    <3>1. 2 * j = 2
      BY <2>5
    <3> QED
      BY <1>11, <1>12, <2>4, <2>5, <3>1, Zenon
  <2>6. CASE j # 1
    <3>1. /\ j - 1 \in 1 .. n - 1 /\ j - 1 \in 1 .. n /\ (j - 1) + 1 = j
          /\ ~ (j <= j - 1)
      BY <2>4, <2>6
    <3>2. P(j - 1)
      BY <2>3, <3>1, Zenon
    <3>3. P((j - 1) + 1)
      BY <1>13, <3>1, <3>2, Zenon
    <3> QED
      BY <2>4, <3>1, <3>3, Zenon
  <2> QED
    BY <2>5, <2>6
<1>15. v[(2 * n + 1) + 1] = End
  <2>1. 2 * n + 1 \in 1 .. M - 1 /\ n \in 1 .. n
    BY <1>2
  <2> QED
    BY <1>3, <1>4, <1>14, <2>1, Zenon
<1>16. Last(v) = End
  <2>1. (2 * n + 1) + 1 \in 1 .. M /\ M \in (2 * n + 1) + 1 .. M
    BY <1>2
  <2> QED
    BY <1>1, <1>8, <1>15, <2>1, WalkEnded, Zenon DEF v, M
\* The chain.
<1>17. h[M] = h[2 * n + 1]
  <2>1. 2 * n + 1 \in 0 .. M - 1
    BY <1>2
  <2> QED
    BY <1>1, <1>6, <1>15, <2>1, ChainEnded, Zenon DEF v, M
<1> DEFINE b == Met(d, FALSE)
<1>18. /\ h[0] = <<>> /\ \A i \in 0 .. M : h[i] \in Seq(Outbound)
       /\ \A i \in 1 .. M : h[i] = h[i - 1] \o b[i]
  BY <1>6, <1>7, Zenon DEF Sums
<1>19. b[1] = top /\ \A j \in 1 .. n : b[2 * j] = <<>> /\ b[2 * j + 1] = <<X(j)>>
  <2>1. b[1] = top
    <3>1. 1 \in 1 .. M
      BY <1>2
    <3> QED
      BY <1>3, <1>5, <1>7, <3>1, Zenon
  <2>2. ASSUME NEW j \in 1 .. n PROVE b[2 * j] = <<>> /\ b[2 * j + 1] = <<X(j)>>
    <3>1. 2 * j \in 1 .. M /\ 2 * j + 1 \in 1 .. M
      BY <1>2
    <3>2. v[2 * j] = loop(j) /\ v[2 * j + 1] = target(j)
      BY <1>14, Zenon
    <3> QED
      BY <1>5, <1>7, <3>1, <3>2, Zenon
  <2> QED
    BY <2>1, <2>2
<1> HIDE DEF b
<1>20. h[1] = top
  <2>1. 1 \in 1 .. M /\ 1 - 1 = 0
    BY <1>2
  <2>2. h[1] = <<>> \o top
    BY <1>18, <1>19, <2>1
  <2>3. <<>> \o top = top
    OBVIOUS
  <2> QED
    BY <2>2, <2>3
<1> DEFINE Q(j) == h[2 * j + 1] = top \o Slots(j, k)
           U == {j \in 0 .. n : ~ Q(j)}
<1>21. Q(0)
  <2>1. Slots(0, k) = <<>>
    BY DEF Slots
  <2>2. top \o <<>> = top
    OBVIOUS
  <2>3. 2 * 0 + 1 = 1
    OBVIOUS
  <2> QED
    BY <1>20, <2>1, <2>2, <2>3
<1>22. ASSUME NEW j \in 1 .. n, Q(j - 1) PROVE Q(j)
  <2>1. /\ 2 * j \in 1 .. M /\ 2 * j + 1 \in 1 .. M /\ (2 * j + 1) - 1 = 2 * j
        /\ 2 * (j - 1) + 1 = 2 * j - 1 /\ 2 * j - 1 \in 0 .. M
    BY <1>2
  <2> DEFINE u == h[2 * j - 1]
             s1 == Slots(j - 1, k)
             y == X(j)
  <2>2. u \in Seq(Outbound) /\ u = top \o s1
    BY <1>18, <1>22, <2>1, Zenon
  <2>3. h[2 * j] = u \o <<>>
    BY <1>18, <1>19, <2>1, Zenon
  <2>4. h[2 * j + 1] = h[2 * j] \o <<y>>
    BY <1>18, <1>19, <2>1, Zenon
  <2>5. s1 \in Seq(Outbound)
    <3>1. \A i \in 1 .. j - 1 : X(i) \in Outbound
      <4>1. \A i \in 1 .. j - 1 : i \in 1 .. n
        OBVIOUS
      <4> QED
        BY <1>9, <4>1, Zenon
    <3>2. s1 = [i \in 1 .. j - 1 |-> X(i)]
      BY Zenon DEF Slots, X
    <3>3. j - 1 \in Nat
      OBVIOUS
    <3> HIDE DEF s1
    <3> QED
      BY <3>1, <3>2, <3>3
  <2>6. y \in Outbound
    BY <1>9
  <2>7. Append(s1, y) = Slots(j, k)
    BY <1>10
  <2> HIDE DEF u, s1, y
  <2>8. u \o <<>> = u
    BY <2>2
  <2>9. Append(s1, y) = s1 \o <<y>>
    BY <2>5, <2>6
  <2>10. (top \o s1) \o <<y>> = top \o (s1 \o <<y>>)
    <3> DEFINE z == <<y>>
    <3>1. z \in Seq(Outbound)
      BY <2>6
    <3> HIDE DEF z
    <3>2. (top \o s1) \o z = top \o (s1 \o z)
      BY <2>5, <3>1, ConcatOrder
    <3> QED
      BY <3>2 DEF z
  <2> QED
    BY <2>2, <2>3, <2>4, <2>7, <2>8, <2>9, <2>10
<1>23. \A j \in 0 .. n : Q(j)
  <2>1. SUFFICES ASSUME U # {} PROVE FALSE
    BY Zenon
  <2>2. U \subseteq Nat
    OBVIOUS
  <2> HIDE DEF Q
  <2>3. PICK j \in U : \A i \in U : j <= i
    BY <2>1, <2>2, Least, Zenon
  <2>4. j \in 0 .. n /\ ~ Q(j)
    BY <2>3
  <2>5. j # 0
    BY <1>21, <2>4
  <2>6. j \in 1 .. n /\ j - 1 \in 0 .. n /\ ~ (j <= j - 1)
    BY <2>4, <2>5
  <2>7. Q(j - 1)
    BY <2>3, <2>6, Zenon
  <2> QED
    BY <1>22, <2>4, <2>6, <2>7, Zenon
<1>24. Chain(d, FALSE) = top \o Own(d)
  <2>1. n \in 0 .. n
    OBVIOUS
  <2>2. h[2 * n + 1] = top \o Slots(n, k)
    BY <1>23, <2>1, Zenon
  <2> QED
    BY <1>5, <1>6, <1>17, <2>2, Zenon
<1> QED
  BY <1>16, <1>24, Zenon DEF WholeChain, v, d

-----------------------------------------------------------------------------
(***************************************************************************)
(* ChainsAreWhole.  A finished configuration has a whole chain.  For one   *)
(* that is being made, LinkedOutbounds and LinkedRules say what chain its  *)
(* outbounds, balancers and loop rules would make if it had no open        *)
(* loopback; Loops counts the loopbacks, of which one is open until the    *)
(* last slot is filled.                                                    *)
(***************************************************************************)

TopTarget == <<"balancer", BalancerTop>>

Third == <<"outbound", Loopback(3)>>

\* The chain of the upstream's configuration u that the k-th one has, and whether
\* ours are behind it.
Before(u, k) == IF k = 1 THEN Chain(u, TRUE) ELSE Visited(u, TopTarget)

Extends(u, k) == IF k = 1 THEN Third \in ToSet(Walk(u, TRUE)) ELSE Before(u, k) # <<>>

AllWhole(u, list) == \A k \in DOMAIN list : WholeChain(list[k], Before(u, k), Extends(u, k))

\* How many loopbacks the reserve configuration has: another one waits for the
\* next slot.
Loops == IF s = 4 \/ idx >= Len(ours) THEN s ELSE s + 1

\* The reserve configuration so far.
Linking(u) ==
    /\ current.routing
    /\ LinkedOutbounds(current.outbounds, Visited(u, TopTarget), s, Loops, idx - s)
    /\ LinkedRules(ToSet(Get(current.balancers, <<>>)), ToSet(loopRules), s, Loops)
    /\ \A r \in ToSet(Get(current.rules, <<>>)) : ~IsLoopRule(r)

\* What is finished has whole chains, and what is not is on the way to have one.
LinkInv ==
    upstream # <<>> /\ Conventional(upstream[1]) =>
        /\ AllWhole(upstream[1], configs)
        /\ stage = "slots" => Linking(upstream[1])

LEMMA OpenLinking ==
    ASSUME Inv, OpenReserve, Conventional(upstream[1])
    PROVE  Linking(upstream[1])'
<1> DEFINE u == upstream[1]
<1>1. upstream \in Upstreams /\ upstream # <<>> /\ Len(ours) \in Nat /\ idx \in Nat
  BY SelectionIs, ConstantsAssumption DEF Inv, TypeOK, OpenReserve
<1>2. u \in Config /\ Foreign(u)
  BY <1>1, FirstUpstream, Zenon
<1>3. /\ current' = Reserve(u) /\ s' = 0 /\ loopRules' = <<>> /\ idx' = idx
      /\ ours' = ours /\ upstream' = upstream /\ idx < Len(ours)
  BY DEF OpenReserve
<1> DEFINE t == Reserve(u)
           top == Visited(u, TopTarget)
<1>4. /\ t.routing
      /\ LinkedOutbounds(t.outbounds, top, 0, 1, idx)
      /\ LinkedRules(ToSet(Get(t.balancers, <<>>)), {}, 0, 1)
      /\ \A r \in ToSet(Get(t.rules, <<>>)) : ~IsLoopRule(r)
  BY <1>1, <1>2, LinkOpen, Zenon DEF TopTarget
<1>5. Loops' = 1 /\ idx' - s' = idx
  BY <1>1, <1>3 DEF Loops
<1>6. ToSet(loopRules') = {}
  BY <1>3 DEF ToSet
<1>7. upstream[1]' = u /\ Visited(upstream[1], TopTarget)' = top
  BY <1>3 DEF Visited, SelectedTags, TopTarget
<1> HIDE DEF t, top, u
<1>8. current' = t
  BY <1>3 DEF t, u
<1> QED
  BY <1>3, <1>4, <1>5, <1>6, <1>7, <1>8 DEF Linking, u, top

LEMMA NextLinking ==
    ASSUME Inv, Shares, InjectNext, Conventional(upstream[1]), Linking(upstream[1])
    PROVE  Linking(upstream[1])'
<1> DEFINE u == upstream[1]
           ob == [ours[idx + 1] EXCEPT !.tag = Custom(s + 1)]
           loop == LoopbackOutbound(s + 2)
           k == idx - s
           top == Visited(u, TopTarget)
           obs == current.outbounds
           B == ToSet(Get(current.balancers, <<>>))
           R == ToSet(loopRules)
           final == Rule({LoopTag(s + 1)}, Custom(s + 1), Null)
           on == Rule({LoopTag(s + 1)}, Null, BalancerCustom(s + 1))
<1>1. /\ ob.tag = Custom(s + 1) /\ ob.protocol = "proxy"
      /\ s \in 0 .. 3 /\ s' = s + 1 /\ idx \in Nat /\ Len(ours) \in Nat
      /\ idx' = idx + 1 /\ ours' = ours
      /\ IsLast => ToSet(loopRules') = R \cup {final}
      /\ ~IsLast => ToSet(loopRules') = R \cup {on}
  BY SlotParts
<1>2. /\ ob \in Outbound /\ current \in Listed /\ current' \in Listed /\ idx + 1 \in 1 .. Len(ours)
      /\ current'.routing = current.routing
      /\ IsLast => /\ current'.outbounds = Append(obs, ob)
                   /\ current'.balancers = current.balancers
                   /\ current'.rules = current.rules
      /\ ~IsLast => /\ current'.outbounds = obs \o <<ob, loop>>
                    /\ current.routing =>
                          /\ current'.balancers
                                = Append(Get(current.balancers, <<>>),
                                         Balancer(BalancerCustom(s + 1), {ob.tag}, Loopback(s + 2)))
                          /\ current'.rules = current.rules
  BY Extended, Zenon
<1>3. upstream' = upstream /\ stage = "slots"
  BY DEF InjectNext
<1>4. k \in Nat /\ k + (s + 1) = idx + 1 /\ idx' - s' = k
  <2>1. idx - s = Used(Len(configs)) /\ Used(Len(configs)) \in Nat
    <3>1. Len(configs) \in Nat
      BY DEF Inv, TypeOK
    <3> QED
      BY <3>1, <1>3, UsedType DEF Shares
  <2> QED
    BY <2>1, <1>1
<1>5. ob = Proxy(Custom(s + 1), k + (s + 1))
  <2>1. ours[idx + 1] = Proxy(<<"p", idx + 1>>, idx + 1)
    BY <1>2, SelectionIs DEF Inv, TypeOK
  <2>2. [Proxy(<<"p", idx + 1>>, idx + 1) EXCEPT !.tag = Custom(s + 1)] = Proxy(Custom(s + 1), idx + 1)
    BY DEF Proxy
  <2> QED
    BY <2>1, <2>2, <1>4
<1>6. /\ current.routing
      /\ LinkedOutbounds(obs, top, s, s + 1, k)
      /\ LinkedRules(B, R, s, s + 1)
      /\ \A r \in ToSet(Get(current.rules, <<>>)) : ~IsLoopRule(r)
  <2>1. Loops = s + 1
    BY <1>1, <1>2 DEF Loops
  <2> QED
    BY <2>1, Zenon DEF Linking
<1>7. obs \in Seq(Outbound) /\ Get(current.balancers, <<>>) \in Seq(Balancers)
  BY <1>2, ListedFields, ConfigFields
<1>8. Visited(upstream[1], TopTarget)' = top
  BY <1>3 DEF Visited, SelectedTags, TopTarget
<1> HIDE DEF ob, loop, k, top, obs, final, on, R
<1> DEFINE r == Append(obs, ob)
<1>9. r \in Seq(Outbound) /\ LinkedOutbounds(r, top, s + 1, s + 1, k)
  BY <1>1, <1>4, <1>5, <1>6, <1>7, LinkSlot, Zenon
<1>10. CASE IsLast
  <2>1. Loops' = s + 1
    BY <1>1, <1>10 DEF Loops, IsLast
  <2>2. ToSet(loopRules') = R \cup {final}
    BY <1>1, <1>10, Zenon
  <2>3. LinkedRules(B, R \cup {final}, s + 1, s + 1)
    BY <1>1, <1>6, LinkRules, Zenon DEF final
  <2>4. ToSet(Get(current'.balancers, <<>>)) = B /\ Get(current'.rules, <<>>) = Get(current.rules, <<>>)
    BY <1>2, <1>10
  <2>5. current'.outbounds = r
    BY <1>2, <1>10, Zenon
  <2> HIDE DEF r, B
  <2> QED
    BY <2>1, <2>2, <2>3, <2>4, <2>5, <1>1, <1>2, <1>4, <1>6, <1>8, <1>9 DEF Linking
<1>11. CASE ~IsLast
  <2>1. Loops' = s + 2 /\ s + 1 \in 0 .. 3 /\ (s + 1) + 1 = s + 2
    BY <1>1, <1>11 DEF Loops, IsLast
  <2>2. ToSet(loopRules') = R \cup {on}
    BY <1>1, <1>11, Zenon
  <2>3. LinkedRules(B \cup {SlotBalancer(s + 1)}, R \cup {on}, s + 1, s + 2)
    BY <1>1, <1>6, LinkRules, Zenon DEF on
  <2>4. ToSet(Get(current'.balancers, <<>>)) = B \cup {SlotBalancer(s + 1)}
    <3> DEFINE b == Balancer(BalancerCustom(s + 1), {ob.tag}, Loopback(s + 2))
               list == Get(current.balancers, <<>>)
    <3>1. b = SlotBalancer(s + 1)
      BY <1>1, <2>1 DEF SlotBalancer
    <3>2. b \in Balancers
      <4>1. s + 1 \in Nat /\ s + 2 \in Nat
        BY <1>1
      <4> QED
        BY <4>1, <1>1, MadeTypes DEF Optional
    <3> HIDE DEF b, list
    <3>3. Append(list, b) \in Seq(Balancers) /\ ToSet(Append(list, b)) = ToSet(list) \cup {b}
      BY <3>2, <1>7, AppendRange DEF list
    <3>4. current'.balancers = Append(list, b)
      BY <1>2, <1>6, <1>11, Zenon DEF b, list
    <3>5. Get(current'.balancers, <<>>) = Append(list, b)
      BY <3>3, <3>4, NotNull, Zenon DEF Get
    <3> QED
      BY <3>1, <3>3, <3>5 DEF list
  <2>5. Get(current'.rules, <<>>) = Get(current.rules, <<>>)
    BY <1>2, <1>6, <1>11
  <2>6. loop = LoopbackOutbound((s + 1) + 1) /\ loop \in Outbound
    BY <2>1, MadeTypes DEF loop
  <2>7. current'.outbounds = Append(r, loop)
    <3>1. current'.outbounds = obs \o <<ob, loop>>
      BY <1>2, <1>11, Zenon
    <3>2. obs \o <<ob, loop>> = Append(Append(obs, ob), loop)
      BY <1>2, <1>7, <2>6
    <3> QED
      BY <3>1, <3>2
  <2> HIDE DEF r, B
  <2>8. LinkedOutbounds(current'.outbounds, top, s + 1, (s + 1) + 1, k)
    BY <2>1, <2>6, <2>7, <1>4, <1>9, LinkLoopback, Zenon
  <2> QED
    BY <2>1, <2>2, <2>3, <2>4, <2>5, <2>8, <1>1, <1>2, <1>4, <1>6, <1>8 DEF Linking
<1> QED
  BY <1>10, <1>11

\* The first balancer of a conventional configuration has an outbound.
LEMMA TopMeets ==
    ASSUME NEW c \in Config, Conventional(c)
    PROVE  Visited(c, TopTarget) \in Seq(Outbound) /\ Visited(c, TopTarget) # <<>>
<1> DEFINE V == Plain(SelectedTags(c, TopTarget))
<1>1. /\ c.outbounds \in Seq(Outbound) /\ Get(c.outbounds, <<>>) = c.outbounds
      /\ c.balancers \in Seq(Balancers) /\ Get(c.balancers, <<>>) = c.balancers
  BY ConventionalIs, Zenon
<1>2. PICK b \in ToSet(c.balancers) : b.tag = BalancerTop /\ b.selector = {Top}
  BY Zenon DEF Conventional
<1>3. PICK ob \in ToSet(c.outbounds) : ob.tag = Top /\ ~IsSpecial(ob)
  <2>1. \E ob \in ToSet(c.outbounds) : ob.tag = Top
    BY Zenon DEF Conventional
  <2>2. \A ob \in ToSet(c.outbounds) : ob.tag \in {Top, Fallback(3)} => ~IsSpecial(ob)
    BY Zenon DEF Conventional
  <2> QED
    BY <2>1, <2>2
<1>4. Top \in SelectedTags(c, TopTarget)
  <2>1. SelectedTags(c, TopTarget)
          = UNION {x.selector : x \in {y \in ToSet(c.balancers) : y.tag = BalancerTop}}
    BY <1>1 DEF SelectedTags, TopTarget
  <2> QED
    BY <1>2, <2>1
<1>5. ob \in Outbound
  BY <1>1 DEF ToSet
<1>6. ob \in V
  BY <1>3, <1>4, <1>5, Zenon DEF Plain
<1> HIDE DEF V
<1>7. Filter(c.outbounds, V) # <<>>
  BY <1>1, <1>6, FilterSome, Zenon
<1> QED
  BY <1>1, <1>7, VisitedIs DEF V

\* A reserve configuration that is finished has a whole chain.
LEMMA CloseWhole ==
    ASSUME Inv, Shares, CloseReserve, Conventional(upstream[1]), Linking(upstream[1])
    PROVE  \E c \in Config : /\ configs' = Append(configs, Tidied(c))
                             /\ WholeChain(Tidied(c), Visited(upstream[1], TopTarget), TRUE)
<1> DEFINE u == upstream[1]
           c == Routed(current, current.balancers, loopRules \o Get(current.rules, <<>>))
           k == idx - s
           top == Visited(u, TopTarget)
           kept == Get(current.rules, <<>>)
<1>1. /\ current \in Listed /\ c \in Config
      /\ c.outbounds = current.outbounds /\ c.routing = current.routing
      /\ c.routing => c.balancers = current.balancers /\ c.rules = loopRules \o kept
      /\ configs' = Append(configs, Tidied(c))
  BY Closed, Zenon
<1>2. /\ stage = "slots" /\ s \in 0 .. 4 /\ loopRules \in Seq(Rules) /\ upstream \in Upstreams
      /\ Len(configs) \in Nat /\ (s = 4 \/ idx >= Len(ours))
  BY DEF CloseReserve, Inv, TypeOK
<1>3. k \in Nat /\ s \in 1 .. 4
  <2>1. idx - s = Used(Len(configs)) /\ idx - s < Len(ours)
    BY <1>2 DEF Shares
  <2>2. Used(Len(configs)) \in Nat /\ Len(ours) \in Nat
    BY <1>2, UsedType
  <2>3. idx \in Int
    BY ConstantsAssumption DEF Inv, TypeOK
  <2> QED
    BY <2>1, <2>2, <2>3, <1>2
<1>4. u \in Config
  BY <1>2, FirstUpstream, Zenon DEF Inv
<1>5. /\ current.routing
      /\ LinkedOutbounds(current.outbounds, top, s, s, k)
      /\ LinkedRules(ToSet(Get(current.balancers, <<>>)), ToSet(loopRules), s, s)
      /\ \A r \in ToSet(kept) : ~IsLoopRule(r)
  <2>1. Loops = s
    BY <1>2 DEF Loops
  <2> QED
    BY <2>1, Zenon DEF Linking
<1>6. top \in Seq(Outbound)
  BY <1>4, TopMeets, Zenon
<1>7. kept \in Seq(Rules) /\ Get(current.outbounds, <<>>) = current.outbounds
  BY <1>1, ListedFields, ConfigFields
<1> HIDE DEF c, k, top, kept, u
<1> DEFINE rules == loopRules \o kept
<1>8. rules \in Seq(Rules) /\ ToSet(rules) = ToSet(loopRules) \cup ToSet(kept)
  BY <1>2, <1>7, ConcatRange
<1>9. c.rules = rules /\ c.balancers = current.balancers /\ c.outbounds = current.outbounds
  BY <1>1, <1>5
<1> HIDE DEF rules
<1>10. Get(c.rules, <<>>) = rules
  BY <1>8, <1>9, NotNull, Zenon DEF Get
<1>11. Get(c.outbounds, <<>>) = c.outbounds
  BY <1>7, <1>9
<1>12. /\ ToSet(loopRules) \subseteq ToSet(Get(c.rules, <<>>))
       /\ \A q \in ToSet(Get(c.rules, <<>>)) : IsLoopRule(q) => q \in ToSet(loopRules)
  BY <1>5, <1>8, <1>10, Zenon
<1>13. /\ LinkedOutbounds(c.outbounds, top, s, s, k)
       /\ LinkedRules(ToSet(Get(c.balancers, <<>>)), ToSet(loopRules), s, s)
  BY <1>5, <1>9
<1>14. WholeChain(Tidied(c), top, TRUE)
  <2> DEFINE R == ToSet(loopRules)
  <2>1. /\ LinkedRules(ToSet(Get(c.balancers, <<>>)), R, s, s)
        /\ R \subseteq ToSet(Get(c.rules, <<>>))
        /\ \A q \in ToSet(Get(c.rules, <<>>)) : IsLoopRule(q) => q \in R
    BY <1>12, <1>13, Zenon
  <2> HIDE DEF R
  <2> QED
    BY <2>1, <1>1, <1>3, <1>6, <1>11, <1>13, LinkWhole
<1> QED
  BY <1>1, <1>14, Zenon DEF top, u

\* So has the main configuration.
LEMMA MainWhole ==
    ASSUME Inv, InjectMain, Conventional(upstream[1])
    PROVE  AllWhole(upstream[1], configs')
<1> DEFINE u == upstream[1]
           d == Tidied(MainStart)
           ext == Third \in ToSet(Walk(u, TRUE))
<1>1. /\ u \in Config /\ Foreign(u) /\ configs' = <<d>>
      /\ ours # <<>> => ours[1] \in Outbound
  BY Started, Zenon
<1>2. WholeChain(d, Chain(u, TRUE), ext)
  <2>1. CASE ours = <<>>
    <3>1. MainStart = u /\ ext \in BOOLEAN
      BY <2>1 DEF MainStart
    <3> HIDE DEF ext, u
    <3> QED
      BY <3>1, <1>1, WholeUnchanged DEF u
  <2>2. CASE ours # <<>>
    <3> DEFINE ob == ours[1]
    <3>1. ob \in Outbound /\ ob.protocol = "proxy" /\ ob.source # 0
      <4>1. ours \in Seq(Outbound) /\ \A i \in 1 .. Len(ours) : ours[i] = Proxy(<<"p", i>>, i)
        BY SelectionIs DEF Inv, TypeOK
      <4>2. 1 \in 1 .. Len(ours)
        BY <4>1, <2>2
      <4>3. ours[1] = Proxy(<<"p", 1>>, 1)
        BY <4>1, <4>2
      <4> QED
        BY <1>1, <2>2, <4>3 DEF Proxy
    <3>2. MainStart = WithFallback(u, ob)
      BY <2>2 DEF MainStart
    <3> HIDE DEF ob, u
    <3>3. CASE ext
      <4>1. WholeChain(Tidied(WithFallback(u, ob)), Chain(u, TRUE), TRUE)
        BY <1>1, <3>1, <3>3, WholeBehind DEF Third, u
      <4> QED
        BY <4>1, <3>2, <3>3 DEF WholeChain
    <3>4. CASE ~ext
      <4>1. WholeChain(Tidied(WithFallback(u, ob)), Chain(u, TRUE), FALSE)
        BY <1>1, <3>1, <3>4, WholeAside DEF Third, u
      <4> QED
        BY <4>1, <3>2, <3>4 DEF WholeChain
    <3> QED
      BY <3>3, <3>4
  <2> QED
    BY <2>1, <2>2
<1> HIDE DEF d, u
<1>3. DOMAIN configs' = {1} /\ configs'[1] = d
  BY <1>1
<1>4. Before(u, 1) = Chain(u, TRUE) /\ Extends(u, 1) = ext
  BY Zenon DEF Before, Extends
<1> HIDE DEF ext
<1> QED
  BY <1>2, <1>3, <1>4, Zenon DEF AllWhole, u

LEMMA LinkStep == Inv /\ Shares /\ LinkInv /\ [Next]_vars => LinkInv'
<1> SUFFICES ASSUME Inv, Shares, LinkInv, [Next]_vars, (upstream # <<>> /\ Conventional(upstream[1]))'
             PROVE  /\ AllWhole(upstream[1], configs)'
                    /\ stage' = "slots" => Linking(upstream[1])'
  BY Zenon DEF LinkInv
<1>1. upstream' = upstream
  BY DEF Next, vars, ReturnUpstream, InjectMain, OpenReserve, InjectNext, CloseReserve, Return
<1> DEFINE u == upstream[1]
<1>2. upstream # <<>> /\ Conventional(u)
  BY <1>1
<1>3. AllWhole(upstream[1], configs)' <=> AllWhole(u, configs')
  BY <1>1
<1>4. /\ AllWhole(u, configs)
      /\ stage = "slots" => Linking(upstream[1])
  BY <1>2, Zenon DEF LinkInv
<1>5. CASE UNCHANGED vars
  <2>1. stage' = stage /\ configs' = configs /\ (Linking(upstream[1])' <=> Linking(upstream[1]))
    BY <1>5 DEF vars, Linking, Loops, Visited, SelectedTags, TopTarget
  <2> QED
    BY <1>3, <1>4, <2>1
<1>6. CASE ReturnUpstream \/ Return
  <2>1. UNCHANGED configs /\ stage' # "slots"
    BY <1>6 DEF ReturnUpstream, Return
  <2> QED
    BY <1>3, <1>4, <2>1
<1>7. CASE InjectMain
  <2>1. stage' # "slots"
    BY <1>7 DEF InjectMain
  <2>2. AllWhole(u, configs')
    BY <1>2, <1>7, MainWhole, Zenon
  <2> QED
    BY <1>3, <2>1, <2>2
<1>8. CASE OpenReserve
  <2>1. configs' = configs
    BY <1>8 DEF OpenReserve
  <2>2. Linking(upstream[1])'
    BY <1>2, <1>8, OpenLinking
  <2> QED
    BY <1>3, <1>4, <2>1, <2>2
<1>9. CASE InjectNext
  <2>1. configs' = configs /\ stage = "slots"
    BY <1>9 DEF InjectNext
  <2>2. Linking(upstream[1])'
    BY <1>2, <1>4, <1>9, <2>1, NextLinking
  <2> QED
    BY <1>3, <1>4, <2>1, <2>2
<1>10. CASE CloseReserve
  <2>1. /\ stage = "slots" /\ stage' # "slots"
        /\ configs \in Seq(Listed) /\ configs # <<>> /\ upstream \in Upstreams
    BY <1>10 DEF CloseReserve, Inv, TypeOK
  <2> DEFINE top == Visited(u, TopTarget)
  <2>2. \E c \in Config : configs' = Append(configs, Tidied(c)) /\ WholeChain(Tidied(c), top, TRUE)
    BY <1>2, <1>4, <1>10, <2>1, CloseWhole, Zenon
  <2>3. PICK c \in Config : configs' = Append(configs, Tidied(c)) /\ WholeChain(Tidied(c), top, TRUE)
    BY <2>2, Zenon
  <2> DEFINE d == Tidied(c)
  <2>4. d \in Listed
    BY TidiedIs, Zenon
  <2>5. top # <<>>
    BY <1>2, <2>1, FirstUpstream, TopMeets, Zenon
  <2> HIDE DEF d, top, u
  <2>6. configs' = Append(configs, d) /\ WholeChain(d, top, TRUE)
    BY <2>3, Zenon DEF d
  <2>7. /\ Len(configs) \in Nat /\ Len(configs) # 0 /\ DOMAIN configs = 1 .. Len(configs)
        /\ DOMAIN configs' = 1 .. Len(configs) + 1
        /\ \A k \in 1 .. Len(configs) : configs'[k] = configs[k]
        /\ configs'[Len(configs) + 1] = d
    BY <2>1, <2>4, <2>6
  <2>8. /\ \A k \in 1 .. Len(configs) + 1 : k \in 1 .. Len(configs) \/ k = Len(configs) + 1
        /\ Len(configs) + 1 # 1
    BY <2>7
  <2>9. Before(u, Len(configs) + 1) = top /\ Extends(u, Len(configs) + 1) = TRUE
    <3>1. Before(u, Len(configs) + 1) = top
      BY <2>8, Zenon DEF Before, top
    <3> QED
      BY <3>1, <2>5, <2>8 DEF Extends
  <2>10. WholeChain(configs'[Len(configs) + 1], Before(u, Len(configs) + 1), Extends(u, Len(configs) + 1))
    BY <2>6, <2>7, <2>9
  <2>11. AllWhole(u, configs')
    BY <1>4, <2>7, <2>8, <2>10, Zenon DEF AllWhole
  <2> QED
    BY <1>3, <2>1, <2>11 DEF u
<1> QED
  BY <1>5, <1>6, <1>7, <1>8, <1>9, <1>10 DEF Next

\* A conventional configuration from the upstream: what traffic tries after the
\* main configuration's first balancer is the upstream's own chain and then our
\* outbound, where that chain goes through loop-tag-3; in a reserve configuration
\* it is the upstream's first balancer and then every outbound of ours in it, in
\* order.  Each of the chains comes to an end.
THEOREM ChainsAreWholeHolds ==
    Spec => [](upstream # <<>> /\ Conventional(upstream[1]) => ChainsAreWhole)
<1>1. Init => LinkInv
  BY DEF Init, LinkInv, AllWhole
<1>2. LinkInv => (upstream # <<>> /\ Conventional(upstream[1]) => ChainsAreWhole)
  BY Zenon DEF LinkInv, AllWhole, WholeChain, Before, Extends, ChainsAreWhole, Third, TopTarget
<1> QED
  BY <1>1, <1>2, LinkStep, InvHolds, SharesHold, PTL DEF Spec

==============================================================================
