------------------------ MODULE MCSubscriptionParser ------------------------
(***************************************************************************)
(* Answers for TLC: every scheme, type and protocol with every transport   *)
(* and security alone in a document, and documents of up to three entries  *)
(* with equal and colliding tags, comments, groups and malformed entries.  *)
(***************************************************************************)
EXTENDS SubscriptionParser

T(name, numbers) == [name |-> name, numbers |-> numbers]

E(id, as, tag, addressed, userinfo, net, sec, extra) ==
    [id |-> id, as |-> as, tag |-> tag, addressed |-> addressed,
     userinfo |-> userinfo, form |-> "usual", net |-> net, sec |-> sec,
     extra |-> extra, insecure |-> FALSE]

\* The entries, and the same in an odd form or accepting any certificate.
WithOdd(entries) == entries \cup {[e EXCEPT !.form = "odd"] : e \in entries}

WithInsecure(entries) ==
    entries \cup {[e EXCEPT !.insecure = TRUE] : e \in {x \in entries : x.sec = "tls"}}

UriNets == {"tcp", "ws", "websocket", "http", "h2", "grpc", "gun", "xhttp",
            "splithttp", "quic", "kcp", "httpupgrade"}

SingleUris ==
    {E(1, as, Null, a, "sip002", n, s, x) :
        as \in {"vless", "vmess"}, a \in BOOLEAN, n \in UriNets,
        s \in {"none", "tls", "reality"}, x \in BOOLEAN}
    \cup {E(1, "trojan", Null, a, "sip002", n, s, FALSE) :
        a \in BOOLEAN, n \in UriNets, s \in {"none", "tls", "reality"}}
    \cup {E(1, as, Null, a, u, "tcp", "none", x) :
        as \in {"ss", "shadowsocks"}, a \in BOOLEAN,
        u \in {"sip002", "legacy", "plain", "plain-odd"}, x \in BOOLEAN}
    \cup {E(1, as, Null, a, "sip002", "tcp", "tls", x) :
        as \in {"hy2", "hysteria2"}, a \in BOOLEAN, x \in BOOLEAN}
    \cup {E(1, as, Null, TRUE, "sip002", "tcp", "none", FALSE) :
        as \in {"hysteria", "wireguard", "socks5", "other"}}

SingboxNets == {"tcp", "ws", "websocket", "http", "grpc", "httpupgrade", "xhttp", "quic"}

SingleSingboxes ==
    {E(1, as, Null, a, "sip002", n, s, x) :
        as \in {"vless", "vmess", "trojan"}, a \in BOOLEAN, n \in SingboxNets,
        s \in {"none", "tls", "reality", "malformed"}, x \in BOOLEAN}
    \cup {E(1, as, Null, a, "sip002", "tcp", s, x) :
        as \in {"shadowsocks", "ss", "hysteria2", "hy2", "hysteria", "wireguard",
                "socks", "http", "direct", "block", "dns", "other"},
        a \in BOOLEAN, s \in {"none", "tls", "malformed"}, x \in {FALSE}}

SingleXrays ==
    {E(1, as, Null, TRUE, "sip002", n, s, FALSE) :
        as \in {"vless", "vmess", "trojan", "ss", "hy2", "wg", "h2", "socks",
                "freedom", "loopback", "blackhole", "dns", "other"},
        n \in {"tcp", "ws", "kcp"}, s \in {"none", "tls", "reality"}}

\* Entries of longer documents; id is the place.
Lines(id) ==
    {Null, E(id, "vless", T("a", <<>>), TRUE, "sip002", "ws", "tls", TRUE),
     E(id, "ss", T("a", <<>>), TRUE, "sip002", "tcp", "none", FALSE),
     E(id, "vmess", Null, TRUE, "sip002", "gun", "none", FALSE),
     [E(id, "vmess", Null, TRUE, "sip002", "tcp", "none", FALSE) EXCEPT !.form = "odd"],
     E(id, "trojan", T("a", <<1>>), TRUE, "sip002", "tcp", "tls", FALSE),
     E(id, "vless", T("b", <<>>), FALSE, "sip002", "tcp", "none", FALSE),
     E(id, "socks5", T("b", <<>>), TRUE, "sip002", "tcp", "none", FALSE)}

Outbounds(id) ==
    {Null, E(id, "vless", T("a", <<>>), TRUE, "sip002", "ws", "tls", FALSE),
     E(id, "trojan", T("a", <<>>), TRUE, "sip002", "tcp", "malformed", FALSE),
     E(id, "trojan", T("a", <<1>>), TRUE, "sip002", "tcp", "tls", FALSE),
     E(id, "vmess", Null, TRUE, "sip002", "grpc", "none", FALSE),
     E(id, "other", T("b", <<>>), FALSE, "sip002", "tcp", "none", FALSE),
     E(id, "dns", T("b", <<>>), TRUE, "sip002", "tcp", "none", FALSE)}

Triples(s(_)) == {<<a, b, c>> : a \in s(1), b \in s(2), c \in s(3)}

B(speaks, wrapped, opens, comments, configs, lines, clash) ==
    [speaks |-> speaks, wrapped |-> wrapped, opens |-> opens,
     comments |-> comments, configs |-> configs, lines |-> lines, clash |-> clash]

Object(outbounds, others) == [outbounds |-> outbounds, others |-> others]

UriBodies ==
    {B("uri", w, "text", "none", <<>>, lines, FALSE) :
        w \in BOOLEAN, lines \in {<<e>> : e \in WithOdd(WithInsecure(SingleUris))} \cup Triples(Lines)}
    \cup {B("uri", w, "text", "none", <<>>, <<>>, c) : w \in BOOLEAN, c \in BOOLEAN}

SingboxBodies ==
    {B("singbox", w, "object", c, <<Object(list, FALSE)>>, <<>>, FALSE) :
        w \in BOOLEAN, c \in {"none", "slashes", "comments"},
        list \in {<<e>> : e \in WithInsecure(SingleSingboxes)}}
    \cup {B("singbox", FALSE, "object", "none", <<Object(list, o)>>, <<>>, FALSE) :
        list \in Triples(Outbounds), o \in BOOLEAN}

XrayLists ==
    {<<e>> : e \in WithInsecure(SingleXrays)} \cup {Null, <<>>, <<Null>>}
    \cup Triples(LAMBDA id : {Null, E(id, "vless", T("a", <<>>), TRUE, "sip002",
                                      "ws", "tls", FALSE),
                              E(id, "freedom", T("a", <<>>), TRUE, "sip002",
                                "tcp", "none", FALSE)})

XrayBodies ==
    {B("xray", w, "object", c, <<Object(list, o)>>, <<>>, FALSE) :
        w \in BOOLEAN, c \in {"none", "slashes", "comments"}, o \in BOOLEAN,
        list \in XrayLists}

\* Elements of an array; id tells the entries of two configurations apart.
Elements(id) ==
    {Null} \cup {Object(list, o) : o \in BOOLEAN,
        list \in {Null, <<>>,
                  <<E(id, "vless", T("a", <<>>), TRUE, "sip002", "xhttp", "tls", FALSE),
                    E(id + 1, "freedom", T("b", <<>>), TRUE, "sip002", "tcp", "none", FALSE)>>}}

ArrayBodies ==
    {B(sp, w, "array", c, configs, <<>>, FALSE) :
        sp \in {"xray", "singbox"}, w \in BOOLEAN, c \in {"none", "slashes", "comments"},
        configs \in {<<>>} \cup {<<a>> : a \in Elements(1)}
                    \cup {<<a, b>> : a \in Elements(1), b \in Elements(3)}}

MCBodies == UriBodies \cup SingboxBodies \cup XrayBodies \cup ArrayBodies

=============================================================================
