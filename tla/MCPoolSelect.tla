---------------------------- MODULE MCPoolSelect ----------------------------
(***************************************************************************)
(* Inputs of PoolSelect for TLC: up to three subscriptions in any order    *)
(* and any grouping, eight health profiles around the threshold, a few rule *)
(* sets, and a resolver that answers or does not.                          *)
(***************************************************************************)
EXTENDS PoolSelect

CONSTANTS g1, d1, i1, i2, MaxSubs

\* Expiry in hours, and traffic: 36 hours and 19 of 20 GB are exactly at the
\* threshold of 1/20, 35 hours are below it.
Row(id, g, list, p) ==
    [id |-> id, group_id |-> g, outbounds |-> list, expires_in |-> p[1],
     traffic_total_gb |-> p[2], traffic_used_gb |-> p[3]]

\* A row that gives nothing, rows of every length with a health of their own,
\* and the profiles around the threshold inside the group.
Rows(id) ==
    {Row(id, NoGroup, <<>>, <<Null, Null, Null>>)}
    \cup {Row(id, g, l[1], l[2]) :
            g \in Group \cup {NoGroup},
            l \in {<<<<{i1, d1}, {}, {i2}>>, <<Null, Null, Null>>>>,
                   <<<<{d1}, {i2}>>, <<360, 20, 10>>>>,
                   <<<<{i1}>>, <<36, 0, 5>>>>}}
    \cup {Row(id, g, <<{d1}, {i2}>>, p) :
            g \in Group,
            p \in {<<35, Null, 1>>, <<Null, 20, 19>>, <<0, 20, 10>>, <<-1, 20, 25>>,
                   <<Null, -20, -19>>}}

\* Ids and row order disagree: the second row has the smallest id.
Subs(n) ==
    CASE n = 0 -> {<<>>}
      [] n = 1 -> {<<a>> : a \in Rows(1)}
      [] n = 2 -> {<<a, b>> : a \in Rows(2), b \in Rows(1)}
      [] n = 3 -> {<<a, b, c>> : a \in Rows(2), b \in Rows(1), c \in Rows(3)}

RuleSets ==
    LET block(p) == [action |-> "block", pattern |-> p]
        allow(p) == [action |-> "allow", pattern |-> p]
    IN  {{}, {block({i1})}, {allow({i2})}, {allow({d1}), block({i2})}}

MCPattern == {{i1}, {i2}, {d1}}

MCInputs ==
    [subs: UNION {Subs(n) : n \in 0 .. MaxSubs}, rules: RuleSets,
     dns: {[d \in Domain |-> {i1}], [d \in Domain |-> {}]}]

MCMinHealth == <<1, 20>>

\* Two subscriptions of one group beside one that is alone, no rules.
OneGroupInputs ==
    LET row(id, g) == Row(id, g, <<{i1}>>, <<Null, Null, Null>>)
    IN  [subs: {<<row(1, g1), row(2, g1), row(3, NoGroup)>>}, rules: {{}},
         dns: {[d \in Domain |-> {}]}]

=============================================================================
